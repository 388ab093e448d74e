------------------------- MODULE EphemeralTargetProofs -------------------------
(***************************************************************************)
(* Proofs about what EphemeralLifecycle promises to those who hold a        *)
(* target: a live one keeps its directory, a cleaned one has none, and what *)
(* a signal may lose.                                                       *)
(***************************************************************************)
EXTENDS EphemeralLifecycleProofs

USE ActivitiesDistinct, MainAssumption, EnvironmentAssumption
USE DEF Activity, Labels, IngestLabels, CleanupLabels, ExitLabels,
        HandlerLabels, DirLabels, TodoLabels, LastExitLabels,
        fsVars, tgtVars, flagVars, frames

-----------------------------------------------------------------------------
(* The steps, by what they do to directories                               *)

SweepLabels   == {"sweepSnapshot", "sweepLocked", "sweepScan"}
MakingLabels  == {"register", "registerLocked", "extract"}
RemovalLabels == {"unregister", "unregisterLocked", "rmtree"}
ListedLabels  == {"extract", "unregister", "unregisterLocked"}

\* The steps that only take a lock, set a flag or go on in the code.
Leads(from, to) ==
  \/ from = "idle" /\ to \in {"sweepCheck", "exitFinalizers"}
  \/ from = "sweepCheck" /\ to \in {"sweepNow", "atexitCheck"}
  \/ from = "sweepSnapshot" /\ to = "sweepLocked"
  \/ from = "atexitCheck" /\ to \in {"atexitLocked", "trapSignals"}
  \/ from = "atexitLocked" /\ to = "trapSignals"
  \/ from = "trapSignals" /\ to = "mkdtemp"
  \/ from = "register" /\ to = "registerLocked"
  \/ from = "unregister" /\ to = "unregisterLocked"
  \/ from = "exitSnapshot" /\ to = "exitLocked"
  \/ from = "hAcquire" /\ to = "hTry"
  \/ from = "hTry" /\ to = "hList"
Move ==
  /\ UNCHANGED <<fsVars, tgtVars, active, frames, signals>>
  /\ \A p \in Proc : Alive(p) => status'[p] \in {status[p], "exiting"}
  /\ \/ UNCHANGED pc
     \/ \E a \in Activity, to \in Labels :
          /\ Running(a) /\ Leads(pc[a], to) /\ Goto(a, to)
          /\ to = "exitFinalizers" => status'[ProcOf[a]] = "exiting"

\* A process that dies or ends, an exception raised by a signal that no handler traps, one that a handler
\* raises or passes on, and a handler that returns.
Gone(p) == Alive(p) /\ \E how \in {"exited", "killed"} : ProcessGone(p, how)
Raise(a) == /\ OnMainThread(a) /\ Running(a) /\ Unwind(a, {})
            /\ signals < MaxSignals /\ signals' = signals + 1
Forward(h) == /\ At(h, "hForward") \/ At(h, "hRaise")
              /\ Unwind(under[h], {h}) /\ UNCHANGED signals
HReturn(h) == /\ At(h, "hForward") /\ Return(h)
              /\ UNCHANGED <<fsVars, tgtVars, active, todo, status, signals>>

Kinds ==
  \/ Move
  \/ \E a \in Body, d \in Dir : StartCleanup(a, d)
  \/ \E d \in Dir : Drop(d) \/ Age(d)
  \/ \E p \in Proc : Gone(p)
  \/ \E a \in Activity : Raise(a)
  \/ \E h \in Activity : Forward(h)
  \/ \E h, a \in Activity : Signal(h, a)
  \/ \E f, a \in Activity, d \in Dir : Collect(f, a, d)
  \/ \E a \in Activity : SweepNow(a) \/ SweepLocked(a) \/ SweepScan(a)
  \/ \E a \in Activity : Mkdtemp(a) \/ RegisterLocked(a) \/ Extract(a)
  \/ \E a \in Activity : TargetLock(a) \/ UnregisterLocked(a) \/ RmtreeAndReturn(a)
  \/ \E a \in Activity : ExitFinalizers(a) \/ ExitLocked(a) \/ ExitRmtree(a)
  \/ \E h \in Activity : HList(h) \/ HClear(h) \/ HRmtree(h) \/ HReturn(h)

\* There are no other steps.
LEMMA StepKinds == ASSUME TypeOK, [Next]_vars PROVE Kinds
<1> USE DEF TypeOK, Types
<1>1. CASE Program
  <2>1. ASSUME NEW a \in Body, StartIngest(a) \/ StartExit(a) PROVE Move
    BY <2>1 DEF StartIngest, StartExit, At, Running, Alive, Goto, Move, Leads
  <2> QED
    BY <1>1, <2>1 DEF Program, Kinds
<1>2. CASE Environment
  <2>1. ASSUME NEW p \in Proc, Restart(p) PROVE Move
    BY <2>1 DEF Restart, Alive, Move
  <2>2. ASSUME NEW p \in Proc, Kill(p) PROVE Gone(p)
    BY <2>2 DEF Kill, Gone
  <2>3. ASSUME NEW a \in Activity, UntrappedSignal(a)
        PROVE  Raise(a) \/ (Gone(ProcOf[a]) /\ ProcOf[a] \in Proc)
    BY <2>3 DEF UntrappedSignal, Raise, Running, Gone
  <2> QED
    BY <1>2, <2>1, <2>2, <2>3 DEF Environment, Kinds
<1>3. ASSUME NEW a \in Activity, IngestStep(a) PROVE Kinds
  <2>1. ASSUME \/ SweepCheck(a) \/ SweepSnapshot(a) \/ AtexitCheck(a)
               \/ AtexitLocked(a) \/ TrapSignals(a) \/ Register(a)
        PROVE  Move
    BY <2>1 DEF SweepCheck, SweepSnapshot, AtexitCheck, AtexitLocked,
       TrapSignals, Register, At, Lock, Goto, Move, Leads
  <2> QED
    BY <1>3, <2>1 DEF IngestStep, Kinds
<1>4. ASSUME NEW a \in Activity, CleanupStep(a) PROVE Kinds
  <2>1. ASSUME Unregister(a) PROVE Move
    <3>1. Running(a) /\ Leads(pc[a], "unregisterLocked") /\ Goto(a, "unregisterLocked")
      BY <2>1 DEF Unregister, At, Lock, Leads
    <3> QED
      BY <2>1, <3>1 DEF Unregister, Move
  <2> QED
    BY <1>4, <2>1 DEF CleanupStep, Kinds
<1>5. ASSUME NEW a \in Activity, ExitStep(a) PROVE Kinds
  <2>1. ASSUME ExitSnapshot(a) PROVE Move
    <3>1. Running(a) /\ Leads(pc[a], "exitLocked") /\ Goto(a, "exitLocked")
      BY <2>1 DEF ExitSnapshot, At, Lock, Leads
    <3> QED
      BY <2>1, <3>1 DEF ExitSnapshot, Move
  <2>2. ASSUME ExitDone(a) PROVE Gone(ProcOf[a]) /\ ProcOf[a] \in Proc
    BY <2>2 DEF ExitDone, At, Running, Gone
  <2> QED
    BY <1>5, <2>1, <2>2 DEF ExitStep, Kinds
<1>6. ASSUME NEW h \in Activity, HandlerStep(h) PROVE Kinds
  <2>1. ASSUME HAcquire(h) \/ HTry(h) PROVE Move
    BY <2>1 DEF HAcquire, HTry, At, Lock, Goto, Move, Leads
  <2>2. ASSUME HForward(h)
        PROVE  \/ Forward(h) \/ HReturn(h)
               \/ Gone(ProcOf[h]) /\ ProcOf[h] \in Proc
    BY <2>2 DEF HForward, Forward, HReturn, At, Running, Gone
  <2>3. ASSUME HRaise(h) PROVE Forward(h)
    BY <2>3 DEF HRaise, Forward
  <2> QED
    BY <1>6, <2>1, <2>2, <2>3 DEF HandlerStep, Kinds
<1>7. CASE UNCHANGED vars
  BY <1>7 DEF vars, Kinds, Move
<1> QED
  BY <1>1, <1>2, <1>3, <1>4, <1>5, <1>6, <1>7 DEF Next, Step

-----------------------------------------------------------------------------
(* What a step may do to a frame, a target, the registry and the disk      *)

\* Everybody but a keeps what it holds, or gives it up.
Sole(a) ==
  \A b \in Activity \ {a} :
    dir'[b] = Nil \/ (dir'[b] = dir[b] /\ pc'[b] = pc[b])

\* How an activity comes to its directory, goes on with it and leaves it.
FrameStep(a) ==
  \/ dir'[a] = Nil
  \/ dir'[a] = dir[a] /\ pc'[a] = pc[a]
  \/ /\ Sole(a) /\ Running(a)
     /\ \/ /\ dir'[a] = dir[a]
           /\ \/ pc[a] = "register" /\ pc'[a] = "registerLocked"
              \/ /\ pc[a] = "registerLocked" /\ pc'[a] = "extract"
                 /\ dir[a] \in active'[ProcOf[a]]
              \/ pc[a] = "extract" /\ pc'[a] = "unregister"
              \/ pc[a] = "unregister" /\ pc'[a] = "unregisterLocked"
              \/ /\ pc[a] = "unregisterLocked" /\ pc'[a] = "rmtree"
                 /\ dir[a] \notin active'[ProcOf[a]]
        \/ /\ pc[a] = "targetLock" /\ pc'[a] = "unregister" /\ dir'[a] = dir[a]
           /\ target[dir[a]] = "live" /\ target'[dir[a]] = "cleaned"
        \/ /\ pc[a] = "idle" /\ pc'[a] = "targetLock" /\ target' = target
           /\ target[dir'[a]] \in {"live", "cleaned"}
        \/ /\ pc[a] = "mkdtemp" /\ pc'[a] = "register" /\ dir'[a] \in fs'
           /\ target[dir'[a]] = "unborn" /\ target'[dir'[a]] = "none"
        \/ /\ pc[a] = "exitFinalizers" /\ pc'[a] = "unregister"
           /\ dir'[a] \in armed /\ target'[dir'[a]] = "collected"
  \/ /\ Sole(a) /\ pc[a] = "idle" /\ pc'[a] = "unregister" /\ a \in Finalizer
     /\ dir'[a] \in armed /\ target'[dir'[a]] = "collected"

\* What becomes of a target, and at whose hands.
TargetStep(d) ==
  \/ target'[d] = target[d]
  \/ target[d] = "unborn" /\ target'[d] = "none"
  \/ /\ target'[d] = "live"
     /\ \E a \in Activity : pc[a] = "extract" /\ dir[a] = d /\ dir'[a] = Nil
  \/ /\ target[d] = "live" /\ target'[d] = "cleaned"
     /\ \E a \in Body : pc'[a] = "unregister" /\ dir'[a] = d
  \/ /\ target[d] = "live" /\ target'[d] = "garbage" /\ \A a \in Body : dir[a] # d
  \/ /\ d \in armed /\ target'[d] = "collected"
     /\ \/ target[d] = "garbage"
        \/ \E m \in Main : pc[m] = "exitFinalizers" /\ ProcOf[m] = owner[d]

OwnerStep(d) ==
  \/ owner'[d] = owner[d]
  \/ /\ owner'[d] = Nil /\ active'[owner[d]] = {}
     /\ \A a \in Activity : ProcOf[a] = owner[d] => pc'[a] = "idle"
  \/ target[d] = "unborn" /\ target'[d] = "none"

\* What enters the registry of process p, and what leaves it.
RegistryStep(p, d) ==
  /\ d \in active'[p] \ active[p] =>
       \E a \in Activity : /\ ProcOf[a] = p /\ dir[a] = d /\ dir'[a] = d
                           /\ pc[a] = "registerLocked" /\ pc'[a] = "extract"
  /\ d \in active[p] \ active'[p] =>
       \/ \E a \in Activity : /\ ProcOf[a] = p /\ dir[a] = d /\ dir'[a] = d
                              /\ pc[a] = "unregisterLocked" /\ pc'[a] = "rmtree"
       \/ \E a \in Activity : /\ ProcOf[a] = p /\ At(a, "exitLocked")
                              /\ todo'[a] = active[p] /\ pc'[a] = "exitRmtree"
       \/ \E h \in Activity : /\ ProcOf[h] = p /\ At(h, "hClear")
                              /\ UNCHANGED <<armed, dir, todo>>
                              /\ pc' = [pc EXCEPT ![h] = "hRmtree"]
       \/ \A e \in Dir : owner'[e] # p

\* An armed finalizer is disarmed by the activity that takes its place.
ArmedStep(d) ==
  d \in armed \ armed' =>
    \/ owner'[d] = Nil
    \/ \E a \in Activity : /\ ProcOf[a] = owner[d] /\ dir'[a] = d
                           /\ pc'[a] = "unregister"

\* The exception that unwinds an activity.
Thrown(a) == Raise(a) \/ \E h \in Activity : under[h] = a /\ Forward(h)

\* Why an activity gives up its directory.
LeaveStep(a) ==
  dir[a] # Nil /\ dir'[a] = Nil =>
    \/ At(a, "extract") /\ target'[dir[a]] = "live" /\ dir[a] \in armed'
    \/ /\ At(a, "targetLock") /\ fs' = fs
       /\ target[dir[a]] # "live" /\ ~TargetLocked(dir[a])
    \/ At(a, "rmtree") /\ dir[a] \notin fs' \ Undeletable
    \/ /\ owner'[dir[a]] = Nil /\ status' # status
       /\ \A b \in Activity : ProcOf[b] = ProcOf[a] => pc'[b] = "idle"
    \/ Thrown(a)

\* The course of a signal handler.
HandlerCourse(h) ==
  IF pc'[h] = "idle"
  THEN pc[h] # "idle" =>
         \/ \A e \in Dir : owner'[e] # ProcOf[h]
         \/ At(h, "hForward") \/ At(h, "hRaise")
  ELSE \/ /\ pc[h] = "idle" /\ pc'[h] = "hAcquire"
          /\ signals < MaxSignals /\ signals' = signals + 1
          /\ UNCHANGED <<fs, active, dir>>
          /\ \A b \in Activity \ {h} : pc'[b] = pc[b]
          /\ under'[h] # h /\ Running(under'[h])
       \/ /\ under'[h] = under[h]
          /\ \/ pc'[h] = pc[h] /\ todo'[h] = todo[h]
             \/ /\ pc[h] = "hRmtree" /\ pc'[h] = "hRmtree"
                /\ todo[h] \ todo'[h] \subseteq (Dir \ fs') \cup Undeletable
             \/ pc[h] = "hAcquire" /\ pc'[h] = "hTry"
             \/ pc[h] = "hTry" /\ pc'[h] = "hList"
             \/ /\ pc[h] = "hList" /\ pc'[h] = "hClear"
                /\ todo'[h] = active[ProcOf[h]] /\ active' = active
             \/ pc[h] = "hClear" /\ pc'[h] = "hRmtree" /\ todo'[h] = todo[h]
             \/ /\ pc[h] = "hRmtree" /\ pc'[h] = "hForward"
                /\ todo[h] = {} /\ fs' = fs
             \/ pc[h] # "idle" /\ pc'[h] = "hRaise" /\ Thrown(h)

\* Who makes a directory, and who removes it.
DiskStep(d) ==
  /\ d \in fs' \ fs =>
       \/ target[d] = "unborn" /\ target'[d] = "none"
       \/ \E a \in Activity : At(a, "extract") /\ dir[a] = d
  /\ d \in fs \ fs' =>
       \/ \E a \in Activity : At(a, "rmtree") /\ dir[a] = d
       \/ \E a \in Activity : At(a, "sweepScan") /\ d \in todo[a] \cap stale
       \/ \E a \in Activity : /\ pc[a] \in {"exitRmtree", "hRmtree"} /\ Running(a)
                              /\ d \in todo[a]

\* Only what is registered grows old.
AgeStep(d) ==
  d \in stale' \ stale =>
    /\ d \in fs /\ dir' = dir /\ todo' = todo /\ pc' = pc
    /\ \A a \in Activity : dir[a] = d => pc[a] \notin {"register", "registerLocked"}

\* What a sweep of activity b has on its list.
SweepStep(b) ==
  pc'[b] \in SweepLabels =>
    \/ pc[b] = "sweepNow" /\ pc'[b] = "sweepSnapshot" /\ todo'[b] = stale /\ dir' = dir
       /\ \A a \in Activity \ {b} : pc'[a] = pc[a]
    \/ pc[b] \in {"sweepSnapshot", "sweepLocked"} /\ pc'[b] # "sweepScan" /\ todo'[b] = todo[b]
    \/ /\ pc[b] = "sweepLocked" /\ pc'[b] = "sweepScan"
       /\ todo'[b] = todo[b] \ active[ProcOf[b]] /\ dir' = dir
       /\ target' = target /\ owner' = owner /\ \A a \in Activity \ {b} : pc'[a] = pc[a]
    \/ pc[b] = "sweepScan" /\ pc'[b] = "sweepScan" /\ todo'[b] \subseteq todo[b]

\* The life of a frame.
LEMMA FrameSteps ==
  ASSUME TypeOK, NEW c \in Activity, [Next]_vars
  PROVE  FrameStep(c)
<1>0. Kinds
  BY StepKinds
<1> USE DEF TypeOK, Types, Frames, FrameStep, Sole
<1>1. CASE Move
  BY <1>1 DEF Move, Leads, Running, OnTop, Started, Goto
<1>2. ASSUME NEW a \in Body, NEW d \in Dir, StartCleanup(a, d) PROVE
     FrameStep(c)
  BY <1>2 DEF StartCleanup, At, Running, OnTop, Started, Goto
<1>3. ASSUME NEW d \in Dir, Drop(d) PROVE FrameStep(c)
  BY <1>3 DEF Drop
<1>4. ASSUME NEW d \in Dir, Age(d) PROVE FrameStep(c)
  BY <1>4 DEF Age
<1>5. ASSUME NEW p \in Proc, Gone(p) PROVE FrameStep(c)
  BY <1>5 DEF Gone, Alive, ProcessGone
<1>6. ASSUME NEW a \in Activity, Raise(a) PROVE FrameStep(c)
  BY <1>6, MainUnwinds DEF Raise, UnwindSound, Unwind, OnTop
<1>7. ASSUME NEW h \in Activity, Forward(h) PROVE FrameStep(c)
  BY <1>7, HandlerUnwinds DEF Forward, UnwindSound, Unwind, OnTop
<1>8. ASSUME NEW h \in Activity, NEW a \in Activity, Signal(h, a) PROVE
     FrameStep(c)
  BY <1>8 DEF Signal, Goto, Running, OnTop, Started
<1>9. ASSUME NEW f \in Activity, NEW a \in Activity, NEW d \in Dir, Collect(f,
     a, d) PROVE FrameStep(c)
  BY <1>9 DEF Collect, Goto, Running, OnTop, Started
<1>10. ASSUME NEW a \in Activity, SweepNow(a) PROVE FrameStep(c)
  BY <1>10 DEF SweepNow, At, Running, OnTop, Started, Goto
<1>11. ASSUME NEW a \in Activity, SweepLocked(a) PROVE FrameStep(c)
  BY <1>11 DEF SweepLocked, SweepSpares, At, Running, OnTop, Started, Goto
<1>12. ASSUME NEW a \in Activity, SweepScan(a) PROVE FrameStep(c)
  BY <1>12 DEF SweepScan, Rmtree, At, Running, OnTop, Started, Goto
<1>13. ASSUME NEW a \in Activity, Mkdtemp(a) PROVE FrameStep(c)
  BY <1>13 DEF Mkdtemp, At, Running, OnTop, Started, Goto
<1>14. ASSUME NEW a \in Activity, RegisterLocked(a) PROVE FrameStep(c)
  BY <1>14 DEF RegisterLocked, At, Running, OnTop, Started, Goto
<1>15. ASSUME NEW a \in Activity, Extract(a) PROVE FrameStep(c)
  BY <1>15 DEF Extract, At, Running, OnTop, Started, Goto
<1>16. ASSUME NEW a \in Activity, TargetLock(a) PROVE FrameStep(c)
  BY <1>16 DEF TargetLock, Return, AfterCall, At, Running, OnTop, Started,
     Goto
<1>17. ASSUME NEW a \in Activity, UnregisterLocked(a) PROVE FrameStep(c)
  BY <1>17 DEF UnregisterLocked, At, Running, OnTop, Started, Goto
<1>18. ASSUME NEW a \in Activity, RmtreeAndReturn(a) PROVE FrameStep(c)
  BY <1>18 DEF RmtreeAndReturn, Return, AfterCall, Rmtree, At, Running, OnTop,
     Started, Goto
<1>19. ASSUME NEW a \in Activity, ExitFinalizers(a) PROVE FrameStep(c)
  BY <1>19 DEF ExitFinalizers, AtexitLabel, At, Running, OnTop, Started, Goto
<1>20. ASSUME NEW a \in Activity, ExitLocked(a) PROVE FrameStep(c)
  BY <1>20 DEF ExitLocked, At, Running, OnTop, Started, Goto
<1>21. ASSUME NEW a \in Activity, ExitRmtree(a) PROVE FrameStep(c)
  BY <1>21 DEF ExitRmtree, Rmtree, At, Running, OnTop, Started, Goto
<1>22. ASSUME NEW h \in Activity, HList(h) PROVE FrameStep(c)
  BY <1>22 DEF HList, At, Running, OnTop, Started, Goto
<1>23. ASSUME NEW h \in Activity, HClear(h) PROVE FrameStep(c)
  BY <1>23 DEF HClear, At, Running, OnTop, Started, Goto
<1>24. ASSUME NEW h \in Activity, HRmtree(h) PROVE FrameStep(c)
  BY <1>24 DEF HRmtree, Rmtree, At, Running, OnTop, Started, Goto
<1>25. ASSUME NEW h \in Activity, HReturn(h) PROVE FrameStep(c)
  BY <1>25 DEF HReturn, Return, AfterCall, At, Running, OnTop, Started, Goto
<1> HIDE DEF TypeOK, Types, Frames, FrameStep, Sole
<1> QED
  BY <1>1, <1>2, <1>3, <1>4, <1>5, <1>6, <1>7, <1>8, <1>9, <1>10, <1>11,
     <1>12, <1>13, <1>14, <1>15, <1>16, <1>17, <1>18, <1>19, <1>20, <1>21,
     <1>22, <1>23, <1>24, <1>25, <1>0, Zenon DEF Kinds

\* The life of a target.
LEMMA TargetSteps ==
  ASSUME TypeOK, NEW e \in Dir, [Next]_vars
  PROVE  TargetStep(e)
<1>0. Kinds
  BY StepKinds
<1> USE DEF TypeOK, Types, Frames, TargetStep
<1>1. CASE Move
  BY <1>1 DEF Move, Leads, Running, OnTop, Started, Goto
<1>2. ASSUME NEW a \in Body, NEW d \in Dir, StartCleanup(a, d) PROVE
     TargetStep(e)
  BY <1>2 DEF StartCleanup, At, Running, OnTop, Started, Goto
<1>3. ASSUME NEW d \in Dir, Drop(d) PROVE TargetStep(e)
  BY <1>3 DEF Drop
<1>4. ASSUME NEW d \in Dir, Age(d) PROVE TargetStep(e)
  BY <1>4 DEF Age
<1>5. ASSUME NEW p \in Proc, Gone(p) PROVE TargetStep(e)
  BY <1>5 DEF Gone, Alive, ProcessGone
<1>6. ASSUME NEW a \in Activity, Raise(a) PROVE TargetStep(e)
  BY <1>6, MainUnwinds DEF Raise, UnwindSound, Unwind, OnTop
<1>7. ASSUME NEW h \in Activity, Forward(h) PROVE TargetStep(e)
  BY <1>7, HandlerUnwinds DEF Forward, UnwindSound, Unwind, OnTop
<1>8. ASSUME NEW h \in Activity, NEW a \in Activity, Signal(h, a) PROVE
     TargetStep(e)
  BY <1>8 DEF Signal, Goto, Running, OnTop, Started
<1>9. ASSUME NEW f \in Activity, NEW a \in Activity, NEW d \in Dir, Collect(f,
     a, d) PROVE TargetStep(e)
  BY <1>9 DEF Collect, Goto, Running, OnTop, Started
<1>10. ASSUME NEW a \in Activity, SweepNow(a) PROVE TargetStep(e)
  BY <1>10 DEF SweepNow, At, Running, OnTop, Started, Goto
<1>11. ASSUME NEW a \in Activity, SweepLocked(a) PROVE TargetStep(e)
  BY <1>11 DEF SweepLocked, SweepSpares, At, Running, OnTop, Started, Goto
<1>12. ASSUME NEW a \in Activity, SweepScan(a) PROVE TargetStep(e)
  BY <1>12 DEF SweepScan, Rmtree, At, Running, OnTop, Started, Goto
<1>13. ASSUME NEW a \in Activity, Mkdtemp(a) PROVE TargetStep(e)
  BY <1>13 DEF Mkdtemp, At, Running, OnTop, Started, Goto
<1>14. ASSUME NEW a \in Activity, RegisterLocked(a) PROVE TargetStep(e)
  BY <1>14 DEF RegisterLocked, At, Running, OnTop, Started, Goto
<1>15. ASSUME NEW a \in Activity, Extract(a) PROVE TargetStep(e)
  BY <1>15 DEF Extract, At, Running, OnTop, Started, Goto
<1>16. ASSUME NEW a \in Activity, TargetLock(a) PROVE TargetStep(e)
  BY <1>16 DEF TargetLock, Return, AfterCall, At, Running, OnTop, Started,
     Goto
<1>17. ASSUME NEW a \in Activity, UnregisterLocked(a) PROVE TargetStep(e)
  BY <1>17 DEF UnregisterLocked, At, Running, OnTop, Started, Goto
<1>18. ASSUME NEW a \in Activity, RmtreeAndReturn(a) PROVE TargetStep(e)
  BY <1>18 DEF RmtreeAndReturn, Return, AfterCall, Rmtree, At, Running, OnTop,
     Started, Goto
<1>19. ASSUME NEW a \in Activity, ExitFinalizers(a) PROVE TargetStep(e)
  BY <1>19 DEF ExitFinalizers, AtexitLabel, At, Running, OnTop, Started, Goto
<1>20. ASSUME NEW a \in Activity, ExitLocked(a) PROVE TargetStep(e)
  BY <1>20 DEF ExitLocked, At, Running, OnTop, Started, Goto
<1>21. ASSUME NEW a \in Activity, ExitRmtree(a) PROVE TargetStep(e)
  BY <1>21 DEF ExitRmtree, Rmtree, At, Running, OnTop, Started, Goto
<1>22. ASSUME NEW h \in Activity, HList(h) PROVE TargetStep(e)
  BY <1>22 DEF HList, At, Running, OnTop, Started, Goto
<1>23. ASSUME NEW h \in Activity, HClear(h) PROVE TargetStep(e)
  BY <1>23 DEF HClear, At, Running, OnTop, Started, Goto
<1>24. ASSUME NEW h \in Activity, HRmtree(h) PROVE TargetStep(e)
  BY <1>24 DEF HRmtree, Rmtree, At, Running, OnTop, Started, Goto
<1>25. ASSUME NEW h \in Activity, HReturn(h) PROVE TargetStep(e)
  BY <1>25 DEF HReturn, Return, AfterCall, At, Running, OnTop, Started, Goto
<1> HIDE DEF TypeOK, Types, Frames, TargetStep
<1> QED
  BY <1>1, <1>2, <1>3, <1>4, <1>5, <1>6, <1>7, <1>8, <1>9, <1>10, <1>11,
     <1>12, <1>13, <1>14, <1>15, <1>16, <1>17, <1>18, <1>19, <1>20, <1>21,
     <1>22, <1>23, <1>24, <1>25, <1>0, Zenon DEF Kinds

\* A directory keeps its owner until that process dies.
LEMMA OwnerSteps ==
  ASSUME TypeOK, NEW e \in Dir, [Next]_vars
  PROVE  OwnerStep(e)
<1>0. Kinds
  BY StepKinds
<1> USE DEF TypeOK, Types, Frames, OwnerStep
<1>1. CASE Move
  BY <1>1 DEF Move, Leads, Running, OnTop, Started, Goto
<1>2. ASSUME NEW a \in Body, NEW d \in Dir, StartCleanup(a, d) PROVE
     OwnerStep(e)
  BY <1>2 DEF StartCleanup, At, Running, OnTop, Started, Goto
<1>3. ASSUME NEW d \in Dir, Drop(d) PROVE OwnerStep(e)
  BY <1>3 DEF Drop
<1>4. ASSUME NEW d \in Dir, Age(d) PROVE OwnerStep(e)
  BY <1>4 DEF Age
<1>5. ASSUME NEW p \in Proc, Gone(p) PROVE OwnerStep(e)
  BY <1>5 DEF Gone, Alive, ProcessGone
<1>6. ASSUME NEW a \in Activity, Raise(a) PROVE OwnerStep(e)
  BY <1>6, MainUnwinds DEF Raise, UnwindSound, Unwind, OnTop
<1>7. ASSUME NEW h \in Activity, Forward(h) PROVE OwnerStep(e)
  BY <1>7, HandlerUnwinds DEF Forward, UnwindSound, Unwind, OnTop
<1>8. ASSUME NEW h \in Activity, NEW a \in Activity, Signal(h, a) PROVE
     OwnerStep(e)
  BY <1>8 DEF Signal, Goto, Running, OnTop, Started
<1>9. ASSUME NEW f \in Activity, NEW a \in Activity, NEW d \in Dir, Collect(f,
     a, d) PROVE OwnerStep(e)
  BY <1>9 DEF Collect, Goto, Running, OnTop, Started
<1>10. ASSUME NEW a \in Activity, SweepNow(a) PROVE OwnerStep(e)
  BY <1>10 DEF SweepNow, At, Running, OnTop, Started, Goto
<1>11. ASSUME NEW a \in Activity, SweepLocked(a) PROVE OwnerStep(e)
  BY <1>11 DEF SweepLocked, SweepSpares, At, Running, OnTop, Started, Goto
<1>12. ASSUME NEW a \in Activity, SweepScan(a) PROVE OwnerStep(e)
  BY <1>12 DEF SweepScan, Rmtree, At, Running, OnTop, Started, Goto
<1>13. ASSUME NEW a \in Activity, Mkdtemp(a) PROVE OwnerStep(e)
  BY <1>13 DEF Mkdtemp, At, Running, OnTop, Started, Goto
<1>14. ASSUME NEW a \in Activity, RegisterLocked(a) PROVE OwnerStep(e)
  BY <1>14 DEF RegisterLocked, At, Running, OnTop, Started, Goto
<1>15. ASSUME NEW a \in Activity, Extract(a) PROVE OwnerStep(e)
  BY <1>15 DEF Extract, At, Running, OnTop, Started, Goto
<1>16. ASSUME NEW a \in Activity, TargetLock(a) PROVE OwnerStep(e)
  BY <1>16 DEF TargetLock, Return, AfterCall, At, Running, OnTop, Started,
     Goto
<1>17. ASSUME NEW a \in Activity, UnregisterLocked(a) PROVE OwnerStep(e)
  BY <1>17 DEF UnregisterLocked, At, Running, OnTop, Started, Goto
<1>18. ASSUME NEW a \in Activity, RmtreeAndReturn(a) PROVE OwnerStep(e)
  BY <1>18 DEF RmtreeAndReturn, Return, AfterCall, Rmtree, At, Running, OnTop,
     Started, Goto
<1>19. ASSUME NEW a \in Activity, ExitFinalizers(a) PROVE OwnerStep(e)
  BY <1>19 DEF ExitFinalizers, AtexitLabel, At, Running, OnTop, Started, Goto
<1>20. ASSUME NEW a \in Activity, ExitLocked(a) PROVE OwnerStep(e)
  BY <1>20 DEF ExitLocked, At, Running, OnTop, Started, Goto
<1>21. ASSUME NEW a \in Activity, ExitRmtree(a) PROVE OwnerStep(e)
  BY <1>21 DEF ExitRmtree, Rmtree, At, Running, OnTop, Started, Goto
<1>22. ASSUME NEW h \in Activity, HList(h) PROVE OwnerStep(e)
  BY <1>22 DEF HList, At, Running, OnTop, Started, Goto
<1>23. ASSUME NEW h \in Activity, HClear(h) PROVE OwnerStep(e)
  BY <1>23 DEF HClear, At, Running, OnTop, Started, Goto
<1>24. ASSUME NEW h \in Activity, HRmtree(h) PROVE OwnerStep(e)
  BY <1>24 DEF HRmtree, Rmtree, At, Running, OnTop, Started, Goto
<1>25. ASSUME NEW h \in Activity, HReturn(h) PROVE OwnerStep(e)
  BY <1>25 DEF HReturn, Return, AfterCall, At, Running, OnTop, Started, Goto
<1> HIDE DEF TypeOK, Types, Frames, OwnerStep
<1> QED
  BY <1>1, <1>2, <1>3, <1>4, <1>5, <1>6, <1>7, <1>8, <1>9, <1>10, <1>11,
     <1>12, <1>13, <1>14, <1>15, <1>16, <1>17, <1>18, <1>19, <1>20, <1>21,
     <1>22, <1>23, <1>24, <1>25, <1>0, Zenon DEF Kinds

\* The registry follows the frames.
LEMMA RegistrySteps ==
  ASSUME TypeOK, NEW q \in Proc, NEW e \in Dir, [Next]_vars
  PROVE  RegistryStep(q, e)
<1>0. Kinds
  BY StepKinds
<1> USE DEF TypeOK, Types, Frames, RegistryStep
<1>1. CASE Move
  BY <1>1 DEF Move, Leads, Running, OnTop, Started, Goto
<1>2. ASSUME NEW a \in Body, NEW d \in Dir, StartCleanup(a, d) PROVE
     RegistryStep(q, e)
  BY <1>2 DEF StartCleanup, At, Running, OnTop, Started, Goto
<1>3. ASSUME NEW d \in Dir, Drop(d) PROVE RegistryStep(q, e)
  BY <1>3 DEF Drop
<1>4. ASSUME NEW d \in Dir, Age(d) PROVE RegistryStep(q, e)
  BY <1>4 DEF Age
<1>5. ASSUME NEW p \in Proc, Gone(p) PROVE RegistryStep(q, e)
  BY <1>5 DEF Gone, Alive, ProcessGone
<1>6. ASSUME NEW a \in Activity, Raise(a) PROVE RegistryStep(q, e)
  BY <1>6, MainUnwinds DEF Raise, UnwindSound, Unwind, OnTop
<1>7. ASSUME NEW h \in Activity, Forward(h) PROVE RegistryStep(q, e)
  BY <1>7, HandlerUnwinds DEF Forward, UnwindSound, Unwind, OnTop
<1>8. ASSUME NEW h \in Activity, NEW a \in Activity, Signal(h, a) PROVE
     RegistryStep(q, e)
  BY <1>8 DEF Signal, Goto, Running, OnTop, Started
<1>9. ASSUME NEW f \in Activity, NEW a \in Activity, NEW d \in Dir, Collect(f,
     a, d) PROVE RegistryStep(q, e)
  BY <1>9 DEF Collect, Goto, Running, OnTop, Started
<1>10. ASSUME NEW a \in Activity, SweepNow(a) PROVE RegistryStep(q, e)
  BY <1>10 DEF SweepNow, At, Running, OnTop, Started, Goto
<1>11. ASSUME NEW a \in Activity, SweepLocked(a) PROVE RegistryStep(q, e)
  BY <1>11 DEF SweepLocked, SweepSpares, At, Running, OnTop, Started, Goto
<1>12. ASSUME NEW a \in Activity, SweepScan(a) PROVE RegistryStep(q, e)
  BY <1>12 DEF SweepScan, Rmtree, At, Running, OnTop, Started, Goto
<1>13. ASSUME NEW a \in Activity, Mkdtemp(a) PROVE RegistryStep(q, e)
  BY <1>13 DEF Mkdtemp, At, Running, OnTop, Started, Goto
<1>14. ASSUME NEW a \in Activity, RegisterLocked(a) PROVE RegistryStep(q, e)
  BY <1>14 DEF RegisterLocked, At, Running, OnTop, Started, Goto
<1>15. ASSUME NEW a \in Activity, Extract(a) PROVE RegistryStep(q, e)
  BY <1>15 DEF Extract, At, Running, OnTop, Started, Goto
<1>16. ASSUME NEW a \in Activity, TargetLock(a) PROVE RegistryStep(q, e)
  BY <1>16 DEF TargetLock, Return, AfterCall, At, Running, OnTop, Started,
     Goto
<1>17. ASSUME NEW a \in Activity, UnregisterLocked(a) PROVE RegistryStep(q, e)
  <2>1. /\ ProcOf[a] \in Proc /\ pc[a] = "unregisterLocked" /\ pc'[a] = "rmtree"
        /\ dir' = dir
    BY <1>17 DEF UnregisterLocked, At, Goto
  <2>2. active' = [active EXCEPT ![ProcOf[a]] = active[ProcOf[a]] \ {dir[a]}]
    BY <1>17, Zenon DEF UnregisterLocked
  <2>3. CASE q = ProcOf[a]
    BY <2>1, <2>2, <2>3
  <2>4. CASE q # ProcOf[a]
    BY <2>2, <2>4
  <2> QED
    BY <2>3, <2>4
<1>18. ASSUME NEW a \in Activity, RmtreeAndReturn(a) PROVE RegistryStep(q, e)
  BY <1>18 DEF RmtreeAndReturn, Return, AfterCall, Rmtree, At, Running, OnTop,
     Started, Goto
<1>19. ASSUME NEW a \in Activity, ExitFinalizers(a) PROVE RegistryStep(q, e)
  BY <1>19 DEF ExitFinalizers, AtexitLabel, At, Running, OnTop, Started, Goto
<1>20. ASSUME NEW a \in Activity, ExitLocked(a) PROVE RegistryStep(q, e)
  <2>1. /\ ProcOf[a] \in Proc /\ At(a, "exitLocked") /\ pc'[a] = "exitRmtree"
        /\ todo'[a] = active[ProcOf[a]]
    BY <1>20 DEF ExitLocked, At, Goto
  <2>2. active'[q] = IF q = ProcOf[a] THEN {} ELSE active[q]
    BY <1>20 DEF ExitLocked
  <2> QED
    BY <2>1, <2>2
<1>21. ASSUME NEW a \in Activity, ExitRmtree(a) PROVE RegistryStep(q, e)
  BY <1>21 DEF ExitRmtree, Rmtree, At, Running, OnTop, Started, Goto
<1>22. ASSUME NEW h \in Activity, HList(h) PROVE RegistryStep(q, e)
  BY <1>22 DEF HList, At, Running, OnTop, Started, Goto
<1>23. ASSUME NEW h \in Activity, HClear(h) PROVE RegistryStep(q, e)
  <2>1. /\ ProcOf[h] \in Proc /\ At(h, "hClear") /\ pc' = [pc EXCEPT ![h] = "hRmtree"]
        /\ UNCHANGED <<armed, dir, todo>>
    BY <1>23 DEF HClear, Goto
  <2>2. active'[q] = IF q = ProcOf[h] THEN {} ELSE active[q]
    BY <1>23 DEF HClear
  <2> QED
    BY <2>1, <2>2
<1>24. ASSUME NEW h \in Activity, HRmtree(h) PROVE RegistryStep(q, e)
  BY <1>24 DEF HRmtree, Rmtree, At, Running, OnTop, Started, Goto
<1>25. ASSUME NEW h \in Activity, HReturn(h) PROVE RegistryStep(q, e)
  BY <1>25 DEF HReturn, Return, AfterCall, At, Running, OnTop, Started, Goto
<1> HIDE DEF TypeOK, Types, Frames, RegistryStep
<1> QED
  BY <1>1, <1>2, <1>3, <1>4, <1>5, <1>6, <1>7, <1>8, <1>9, <1>10, <1>11,
     <1>12, <1>13, <1>14, <1>15, <1>16, <1>17, <1>18, <1>19, <1>20, <1>21,
     <1>22, <1>23, <1>24, <1>25, <1>0, Zenon DEF Kinds

\* An account changes hands.
LEMMA ArmedSteps ==
  ASSUME TypeOK, NEW e \in Dir, [Next]_vars
  PROVE  ArmedStep(e)
<1>0. Kinds
  BY StepKinds
<1> USE DEF TypeOK, Types, Frames, ArmedStep
<1>1. CASE Move
  BY <1>1 DEF Move, Leads, Running, OnTop, Started, Goto
<1>2. ASSUME NEW a \in Body, NEW d \in Dir, StartCleanup(a, d) PROVE
     ArmedStep(e)
  BY <1>2 DEF StartCleanup, At, Running, OnTop, Started, Goto
<1>3. ASSUME NEW d \in Dir, Drop(d) PROVE ArmedStep(e)
  BY <1>3 DEF Drop
<1>4. ASSUME NEW d \in Dir, Age(d) PROVE ArmedStep(e)
  BY <1>4 DEF Age
<1>5. ASSUME NEW p \in Proc, Gone(p) PROVE ArmedStep(e)
  BY <1>5 DEF Gone, Alive, ProcessGone
<1>6. ASSUME NEW a \in Activity, Raise(a) PROVE ArmedStep(e)
  BY <1>6, MainUnwinds DEF Raise, UnwindSound, Unwind, OnTop
<1>7. ASSUME NEW h \in Activity, Forward(h) PROVE ArmedStep(e)
  BY <1>7, HandlerUnwinds DEF Forward, UnwindSound, Unwind, OnTop
<1>8. ASSUME NEW h \in Activity, NEW a \in Activity, Signal(h, a) PROVE
     ArmedStep(e)
  BY <1>8 DEF Signal, Goto, Running, OnTop, Started
<1>9. ASSUME NEW f \in Activity, NEW a \in Activity, NEW d \in Dir, Collect(f,
     a, d) PROVE ArmedStep(e)
  BY <1>9 DEF Collect, Goto, Running, OnTop, Started
<1>10. ASSUME NEW a \in Activity, SweepNow(a) PROVE ArmedStep(e)
  BY <1>10 DEF SweepNow, At, Running, OnTop, Started, Goto
<1>11. ASSUME NEW a \in Activity, SweepLocked(a) PROVE ArmedStep(e)
  BY <1>11 DEF SweepLocked, SweepSpares, At, Running, OnTop, Started, Goto
<1>12. ASSUME NEW a \in Activity, SweepScan(a) PROVE ArmedStep(e)
  BY <1>12 DEF SweepScan, Rmtree, At, Running, OnTop, Started, Goto
<1>13. ASSUME NEW a \in Activity, Mkdtemp(a) PROVE ArmedStep(e)
  BY <1>13 DEF Mkdtemp, At, Running, OnTop, Started, Goto
<1>14. ASSUME NEW a \in Activity, RegisterLocked(a) PROVE ArmedStep(e)
  BY <1>14 DEF RegisterLocked, At, Running, OnTop, Started, Goto
<1>15. ASSUME NEW a \in Activity, Extract(a) PROVE ArmedStep(e)
  BY <1>15 DEF Extract, At, Running, OnTop, Started, Goto
<1>16. ASSUME NEW a \in Activity, TargetLock(a) PROVE ArmedStep(e)
  BY <1>16 DEF TargetLock, Return, AfterCall, At, Running, OnTop, Started,
     Goto
<1>17. ASSUME NEW a \in Activity, UnregisterLocked(a) PROVE ArmedStep(e)
  BY <1>17 DEF UnregisterLocked, At, Running, OnTop, Started, Goto
<1>18. ASSUME NEW a \in Activity, RmtreeAndReturn(a) PROVE ArmedStep(e)
  BY <1>18 DEF RmtreeAndReturn, Return, AfterCall, Rmtree, At, Running, OnTop,
     Started, Goto
<1>19. ASSUME NEW a \in Activity, ExitFinalizers(a) PROVE ArmedStep(e)
  BY <1>19 DEF ExitFinalizers, AtexitLabel, At, Running, OnTop, Started, Goto
<1>20. ASSUME NEW a \in Activity, ExitLocked(a) PROVE ArmedStep(e)
  BY <1>20 DEF ExitLocked, At, Running, OnTop, Started, Goto
<1>21. ASSUME NEW a \in Activity, ExitRmtree(a) PROVE ArmedStep(e)
  BY <1>21 DEF ExitRmtree, Rmtree, At, Running, OnTop, Started, Goto
<1>22. ASSUME NEW h \in Activity, HList(h) PROVE ArmedStep(e)
  BY <1>22 DEF HList, At, Running, OnTop, Started, Goto
<1>23. ASSUME NEW h \in Activity, HClear(h) PROVE ArmedStep(e)
  BY <1>23 DEF HClear, At, Running, OnTop, Started, Goto
<1>24. ASSUME NEW h \in Activity, HRmtree(h) PROVE ArmedStep(e)
  BY <1>24 DEF HRmtree, Rmtree, At, Running, OnTop, Started, Goto
<1>25. ASSUME NEW h \in Activity, HReturn(h) PROVE ArmedStep(e)
  BY <1>25 DEF HReturn, Return, AfterCall, At, Running, OnTop, Started, Goto
<1> HIDE DEF TypeOK, Types, Frames, ArmedStep
<1> QED
  BY <1>1, <1>2, <1>3, <1>4, <1>5, <1>6, <1>7, <1>8, <1>9, <1>10, <1>11,
     <1>12, <1>13, <1>14, <1>15, <1>16, <1>17, <1>18, <1>19, <1>20, <1>21,
     <1>22, <1>23, <1>24, <1>25, <1>0, Zenon DEF Kinds

\* An account is closed.
LEMMA LeaveSteps ==
  ASSUME TypeOK, NEW c \in Activity, [Next]_vars
  PROVE  LeaveStep(c)
<1>0. Kinds
  BY StepKinds
<1> USE DEF TypeOK, Types, Frames, LeaveStep, Thrown
<1>1. CASE Move
  BY <1>1 DEF Move, Leads, Running, OnTop, Started, Goto
<1>2. ASSUME NEW a \in Body, NEW d \in Dir, StartCleanup(a, d) PROVE
     LeaveStep(c)
  BY <1>2 DEF StartCleanup, At, Running, OnTop, Started, Goto
<1>3. ASSUME NEW d \in Dir, Drop(d) PROVE LeaveStep(c)
  BY <1>3 DEF Drop
<1>4. ASSUME NEW d \in Dir, Age(d) PROVE LeaveStep(c)
  BY <1>4 DEF Age
<1>5. ASSUME NEW p \in Proc, Gone(p) PROVE LeaveStep(c)
  BY <1>5 DEF Gone, Alive, ProcessGone
<1>6. ASSUME NEW a \in Activity, Raise(a) PROVE LeaveStep(c)
  <2>1. CASE c = a
    BY <1>6, <2>1
  <2>2. CASE c # a
    BY <1>6, <2>2 DEF Raise, Unwind
  <2> QED
    BY <2>1, <2>2
<1>7. ASSUME NEW h \in Activity, Forward(h) PROVE LeaveStep(c)
  BY <1>7, HandlerUnwinds DEF Forward, UnwindSound, Unwind, OnTop
<1>8. ASSUME NEW h \in Activity, NEW a \in Activity, Signal(h, a) PROVE
     LeaveStep(c)
  BY <1>8 DEF Signal, Goto, Running, OnTop, Started
<1>9. ASSUME NEW f \in Activity, NEW a \in Activity, NEW d \in Dir, Collect(f,
     a, d) PROVE LeaveStep(c)
  BY <1>9 DEF Collect, Goto, Running, OnTop, Started
<1>10. ASSUME NEW a \in Activity, SweepNow(a) PROVE LeaveStep(c)
  BY <1>10 DEF SweepNow, At, Running, OnTop, Started, Goto
<1>11. ASSUME NEW a \in Activity, SweepLocked(a) PROVE LeaveStep(c)
  BY <1>11 DEF SweepLocked, SweepSpares, At, Running, OnTop, Started, Goto
<1>12. ASSUME NEW a \in Activity, SweepScan(a) PROVE LeaveStep(c)
  BY <1>12 DEF SweepScan, Rmtree, At, Running, OnTop, Started, Goto
<1>13. ASSUME NEW a \in Activity, Mkdtemp(a) PROVE LeaveStep(c)
  BY <1>13 DEF Mkdtemp, At, Running, OnTop, Started, Goto
<1>14. ASSUME NEW a \in Activity, RegisterLocked(a) PROVE LeaveStep(c)
  BY <1>14 DEF RegisterLocked, At, Running, OnTop, Started, Goto
<1>15. ASSUME NEW a \in Activity, Extract(a) PROVE LeaveStep(c)
  BY <1>15 DEF Extract, At, Running, OnTop, Started, Goto
<1>16. ASSUME NEW a \in Activity, TargetLock(a) PROVE LeaveStep(c)
  BY <1>16 DEF TargetLock, Return, AfterCall, At, Running, OnTop, Started,
     Goto
<1>17. ASSUME NEW a \in Activity, UnregisterLocked(a) PROVE LeaveStep(c)
  BY <1>17 DEF UnregisterLocked, At, Running, OnTop, Started, Goto
<1>18. ASSUME NEW a \in Activity, RmtreeAndReturn(a) PROVE LeaveStep(c)
  BY <1>18 DEF RmtreeAndReturn, Return, AfterCall, Rmtree, At, Running, OnTop,
     Started, Goto
<1>19. ASSUME NEW a \in Activity, ExitFinalizers(a) PROVE LeaveStep(c)
  BY <1>19 DEF ExitFinalizers, AtexitLabel, At, Running, OnTop, Started, Goto
<1>20. ASSUME NEW a \in Activity, ExitLocked(a) PROVE LeaveStep(c)
  BY <1>20 DEF ExitLocked, At, Running, OnTop, Started, Goto
<1>21. ASSUME NEW a \in Activity, ExitRmtree(a) PROVE LeaveStep(c)
  BY <1>21 DEF ExitRmtree, Rmtree, At, Running, OnTop, Started, Goto
<1>22. ASSUME NEW h \in Activity, HList(h) PROVE LeaveStep(c)
  BY <1>22 DEF HList, At, Running, OnTop, Started, Goto
<1>23. ASSUME NEW h \in Activity, HClear(h) PROVE LeaveStep(c)
  BY <1>23 DEF HClear, At, Running, OnTop, Started, Goto
<1>24. ASSUME NEW h \in Activity, HRmtree(h) PROVE LeaveStep(c)
  BY <1>24 DEF HRmtree, Rmtree, At, Running, OnTop, Started, Goto
<1>25. ASSUME NEW h \in Activity, HReturn(h) PROVE LeaveStep(c)
  BY <1>25 DEF HReturn, Return, AfterCall, At, Running, OnTop, Started, Goto
<1> HIDE DEF TypeOK, Types, Frames, LeaveStep, Thrown
<1> QED
  BY <1>1, <1>2, <1>3, <1>4, <1>5, <1>6, <1>7, <1>8, <1>9, <1>10, <1>11,
     <1>12, <1>13, <1>14, <1>15, <1>16, <1>17, <1>18, <1>19, <1>20, <1>21,
     <1>22, <1>23, <1>24, <1>25, <1>0, Zenon DEF Kinds

\* A handler goes on.
LEMMA HandlerCourses ==
  ASSUME TypeOK, NEW g \in Handler, [Next]_vars
  PROVE  HandlerCourse(g)
<1>0. Kinds
  BY StepKinds
<1> USE DEF TypeOK, Types, Frames, HandlerCourse, Thrown
<1>1. CASE Move
  BY <1>1 DEF Move, Leads, Running, OnTop, Started, Goto
<1>2. ASSUME NEW a \in Body, NEW d \in Dir, StartCleanup(a, d) PROVE
     HandlerCourse(g)
  BY <1>2 DEF StartCleanup, At, Running, OnTop, Started, Goto
<1>3. ASSUME NEW d \in Dir, Drop(d) PROVE HandlerCourse(g)
  BY <1>3 DEF Drop
<1>4. ASSUME NEW d \in Dir, Age(d) PROVE HandlerCourse(g)
  BY <1>4 DEF Age
<1>5. ASSUME NEW p \in Proc, Gone(p) PROVE HandlerCourse(g)
  BY <1>5 DEF Gone, Alive, ProcessGone
<1>6. ASSUME NEW a \in Activity, Raise(a) PROVE HandlerCourse(g)
  <2>1. UnwindSound(a, {})
    BY <1>6, MainUnwinds DEF Raise
  <2>2. CASE g = a
    <3>1. pc[g] # "idle" /\ pc'[g] = "hRaise"
      BY <1>6, <2>1, <2>2, LandingLabel DEF Raise, Unwind, UnwindSound
    <3>2. under'[g] = under[g]
      BY <1>6, <2>2 DEF Raise, Unwind
    <3> QED
      BY <1>6, <2>2, <3>1, <3>2
  <2>3. CASE g # a
    BY <1>6, <2>3 DEF Raise, Unwind
  <2> QED
    BY <2>2, <2>3
<1>7. ASSUME NEW h \in Activity, Forward(h) PROVE HandlerCourse(g)
  <2>1. UnwindSound(under[h], {h})
    BY <1>7, HandlerUnwinds DEF Forward
  <2>2. CASE g = h
    BY <1>7, <2>1, <2>2 DEF Forward, Unwind, UnwindSound, At
  <2>3. CASE g = under[h]
    <3>1. g # h /\ pc[g] # "idle" /\ pc'[g] = "hRaise"
      BY <1>7, <2>1, <2>3, LandingLabel DEF Forward, Unwind, UnwindSound
    <3>2. under'[g] = under[g]
      BY <1>7, <2>3, <3>1 DEF Forward, Unwind
    <3> QED
      BY <1>7, <2>3, <3>1, <3>2
  <2>4. CASE g # h /\ g # under[h]
    BY <1>7, <2>4 DEF Forward, Unwind
  <2> QED
    BY <2>2, <2>3, <2>4
<1>8. ASSUME NEW h \in Activity, NEW a \in Activity, Signal(h, a) PROVE
     HandlerCourse(g)
  BY <1>8 DEF Signal, Goto, Running, OnTop, Started
<1>9. ASSUME NEW f \in Activity, NEW a \in Activity, NEW d \in Dir, Collect(f,
     a, d) PROVE HandlerCourse(g)
  BY <1>9 DEF Collect, Goto, Running, OnTop, Started
<1>10. ASSUME NEW a \in Activity, SweepNow(a) PROVE HandlerCourse(g)
  BY <1>10 DEF SweepNow, At, Running, OnTop, Started, Goto
<1>11. ASSUME NEW a \in Activity, SweepLocked(a) PROVE HandlerCourse(g)
  BY <1>11 DEF SweepLocked, SweepSpares, At, Running, OnTop, Started, Goto
<1>12. ASSUME NEW a \in Activity, SweepScan(a) PROVE HandlerCourse(g)
  BY <1>12 DEF SweepScan, Rmtree, At, Running, OnTop, Started, Goto
<1>13. ASSUME NEW a \in Activity, Mkdtemp(a) PROVE HandlerCourse(g)
  BY <1>13 DEF Mkdtemp, At, Running, OnTop, Started, Goto
<1>14. ASSUME NEW a \in Activity, RegisterLocked(a) PROVE HandlerCourse(g)
  BY <1>14 DEF RegisterLocked, At, Running, OnTop, Started, Goto
<1>15. ASSUME NEW a \in Activity, Extract(a) PROVE HandlerCourse(g)
  BY <1>15 DEF Extract, At, Running, OnTop, Started, Goto
<1>16. ASSUME NEW a \in Activity, TargetLock(a) PROVE HandlerCourse(g)
  BY <1>16 DEF TargetLock, Return, AfterCall, At, Running, OnTop, Started,
     Goto
<1>17. ASSUME NEW a \in Activity, UnregisterLocked(a) PROVE HandlerCourse(g)
  BY <1>17 DEF UnregisterLocked, At, Running, OnTop, Started, Goto
<1>18. ASSUME NEW a \in Activity, RmtreeAndReturn(a) PROVE HandlerCourse(g)
  BY <1>18 DEF RmtreeAndReturn, Return, AfterCall, Rmtree, At, Running, OnTop,
     Started, Goto
<1>19. ASSUME NEW a \in Activity, ExitFinalizers(a) PROVE HandlerCourse(g)
  BY <1>19 DEF ExitFinalizers, AtexitLabel, At, Running, OnTop, Started, Goto
<1>20. ASSUME NEW a \in Activity, ExitLocked(a) PROVE HandlerCourse(g)
  BY <1>20 DEF ExitLocked, At, Running, OnTop, Started, Goto
<1>21. ASSUME NEW a \in Activity, ExitRmtree(a) PROVE HandlerCourse(g)
  BY <1>21 DEF ExitRmtree, Rmtree, At, Running, OnTop, Started, Goto
<1>22. ASSUME NEW h \in Activity, HList(h) PROVE HandlerCourse(g)
  BY <1>22 DEF HList, At, Running, OnTop, Started, Goto
<1>23. ASSUME NEW h \in Activity, HClear(h) PROVE HandlerCourse(g)
  BY <1>23 DEF HClear, At, Running, OnTop, Started, Goto
<1>24. ASSUME NEW h \in Activity, HRmtree(h) PROVE HandlerCourse(g)
  BY <1>24 DEF HRmtree, Rmtree, At, Running, OnTop, Started, Goto
<1>25. ASSUME NEW h \in Activity, HReturn(h) PROVE HandlerCourse(g)
  BY <1>25 DEF HReturn, Return, AfterCall, At, Running, OnTop, Started, Goto
<1> HIDE DEF TypeOK, Types, Frames, HandlerCourse, Thrown
<1> QED
  BY <1>1, <1>2, <1>3, <1>4, <1>5, <1>6, <1>7, <1>8, <1>9, <1>10, <1>11,
     <1>12, <1>13, <1>14, <1>15, <1>16, <1>17, <1>18, <1>19, <1>20, <1>21,
     <1>22, <1>23, <1>24, <1>25, <1>0, Zenon DEF Kinds

\* The disk follows the frames and the work lists.
LEMMA DiskSteps ==
  ASSUME TypeOK, NEW e \in Dir, [Next]_vars
  PROVE  DiskStep(e)
<1>0. Kinds
  BY StepKinds
<1> USE DEF TypeOK, Types, Frames, DiskStep
<1>1. CASE Move
  BY <1>1 DEF Move, Leads, Running, OnTop, Started, Goto
<1>2. ASSUME NEW a \in Body, NEW d \in Dir, StartCleanup(a, d) PROVE
     DiskStep(e)
  BY <1>2 DEF StartCleanup, At, Running, OnTop, Started, Goto
<1>3. ASSUME NEW d \in Dir, Drop(d) PROVE DiskStep(e)
  BY <1>3 DEF Drop
<1>4. ASSUME NEW d \in Dir, Age(d) PROVE DiskStep(e)
  BY <1>4 DEF Age
<1>5. ASSUME NEW p \in Proc, Gone(p) PROVE DiskStep(e)
  BY <1>5 DEF Gone, Alive, ProcessGone
<1>6. ASSUME NEW a \in Activity, Raise(a) PROVE DiskStep(e)
  BY <1>6, MainUnwinds DEF Raise, UnwindSound, Unwind, OnTop
<1>7. ASSUME NEW h \in Activity, Forward(h) PROVE DiskStep(e)
  BY <1>7, HandlerUnwinds DEF Forward, UnwindSound, Unwind, OnTop
<1>8. ASSUME NEW h \in Activity, NEW a \in Activity, Signal(h, a) PROVE
     DiskStep(e)
  BY <1>8 DEF Signal, Goto, Running, OnTop, Started
<1>9. ASSUME NEW f \in Activity, NEW a \in Activity, NEW d \in Dir, Collect(f,
     a, d) PROVE DiskStep(e)
  BY <1>9 DEF Collect, Goto, Running, OnTop, Started
<1>10. ASSUME NEW a \in Activity, SweepNow(a) PROVE DiskStep(e)
  BY <1>10 DEF SweepNow, At, Running, OnTop, Started, Goto
<1>11. ASSUME NEW a \in Activity, SweepLocked(a) PROVE DiskStep(e)
  BY <1>11 DEF SweepLocked, SweepSpares, At, Running, OnTop, Started, Goto
<1>12. ASSUME NEW a \in Activity, SweepScan(a) PROVE DiskStep(e)
  BY <1>12 DEF SweepScan, Rmtree, At, Running, OnTop, Started, Goto
<1>13. ASSUME NEW a \in Activity, Mkdtemp(a) PROVE DiskStep(e)
  BY <1>13 DEF Mkdtemp, At, Running, OnTop, Started, Goto
<1>14. ASSUME NEW a \in Activity, RegisterLocked(a) PROVE DiskStep(e)
  BY <1>14 DEF RegisterLocked, At, Running, OnTop, Started, Goto
<1>15. ASSUME NEW a \in Activity, Extract(a) PROVE DiskStep(e)
  BY <1>15 DEF Extract, At, Running, OnTop, Started, Goto
<1>16. ASSUME NEW a \in Activity, TargetLock(a) PROVE DiskStep(e)
  BY <1>16 DEF TargetLock, Return, AfterCall, At, Running, OnTop, Started,
     Goto
<1>17. ASSUME NEW a \in Activity, UnregisterLocked(a) PROVE DiskStep(e)
  BY <1>17 DEF UnregisterLocked, At, Running, OnTop, Started, Goto
<1>18. ASSUME NEW a \in Activity, RmtreeAndReturn(a) PROVE DiskStep(e)
  BY <1>18 DEF RmtreeAndReturn, Return, AfterCall, Rmtree, At, Running, OnTop,
     Started, Goto
<1>19. ASSUME NEW a \in Activity, ExitFinalizers(a) PROVE DiskStep(e)
  BY <1>19 DEF ExitFinalizers, AtexitLabel, At, Running, OnTop, Started, Goto
<1>20. ASSUME NEW a \in Activity, ExitLocked(a) PROVE DiskStep(e)
  BY <1>20 DEF ExitLocked, At, Running, OnTop, Started, Goto
<1>21. ASSUME NEW a \in Activity, ExitRmtree(a) PROVE DiskStep(e)
  BY <1>21 DEF ExitRmtree, Rmtree, At, Running, OnTop, Started, Goto
<1>22. ASSUME NEW h \in Activity, HList(h) PROVE DiskStep(e)
  BY <1>22 DEF HList, At, Running, OnTop, Started, Goto
<1>23. ASSUME NEW h \in Activity, HClear(h) PROVE DiskStep(e)
  BY <1>23 DEF HClear, At, Running, OnTop, Started, Goto
<1>24. ASSUME NEW h \in Activity, HRmtree(h) PROVE DiskStep(e)
  BY <1>24 DEF HRmtree, Rmtree, At, Running, OnTop, Started, Goto
<1>25. ASSUME NEW h \in Activity, HReturn(h) PROVE DiskStep(e)
  BY <1>25 DEF HReturn, Return, AfterCall, At, Running, OnTop, Started, Goto
<1> HIDE DEF TypeOK, Types, Frames, DiskStep
<1> QED
  BY <1>1, <1>2, <1>3, <1>4, <1>5, <1>6, <1>7, <1>8, <1>9, <1>10, <1>11,
     <1>12, <1>13, <1>14, <1>15, <1>16, <1>17, <1>18, <1>19, <1>20, <1>21,
     <1>22, <1>23, <1>24, <1>25, <1>0, Zenon DEF Kinds

\* A directory ages.
LEMMA AgeSteps ==
  ASSUME TypeOK, NEW e \in Dir, [Next]_vars
  PROVE  AgeStep(e)
<1>0. Kinds
  BY StepKinds
<1> USE DEF TypeOK, Types, Frames, AgeStep
<1>1. CASE Move
  BY <1>1 DEF Move, Leads, Running, OnTop, Started, Goto
<1>2. ASSUME NEW a \in Body, NEW d \in Dir, StartCleanup(a, d) PROVE
     AgeStep(e)
  BY <1>2 DEF StartCleanup, At, Running, OnTop, Started, Goto
<1>3. ASSUME NEW d \in Dir, Drop(d) PROVE AgeStep(e)
  BY <1>3 DEF Drop
<1>4. ASSUME NEW d \in Dir, Age(d) PROVE AgeStep(e)
  BY <1>4 DEF Age
<1>5. ASSUME NEW p \in Proc, Gone(p) PROVE AgeStep(e)
  BY <1>5 DEF Gone, Alive, ProcessGone
<1>6. ASSUME NEW a \in Activity, Raise(a) PROVE AgeStep(e)
  BY <1>6, MainUnwinds DEF Raise, UnwindSound, Unwind, OnTop
<1>7. ASSUME NEW h \in Activity, Forward(h) PROVE AgeStep(e)
  BY <1>7, HandlerUnwinds DEF Forward, UnwindSound, Unwind, OnTop
<1>8. ASSUME NEW h \in Activity, NEW a \in Activity, Signal(h, a) PROVE
     AgeStep(e)
  BY <1>8 DEF Signal, Goto, Running, OnTop, Started
<1>9. ASSUME NEW f \in Activity, NEW a \in Activity, NEW d \in Dir, Collect(f,
     a, d) PROVE AgeStep(e)
  BY <1>9 DEF Collect, Goto, Running, OnTop, Started
<1>10. ASSUME NEW a \in Activity, SweepNow(a) PROVE AgeStep(e)
  BY <1>10 DEF SweepNow, At, Running, OnTop, Started, Goto
<1>11. ASSUME NEW a \in Activity, SweepLocked(a) PROVE AgeStep(e)
  BY <1>11 DEF SweepLocked, SweepSpares, At, Running, OnTop, Started, Goto
<1>12. ASSUME NEW a \in Activity, SweepScan(a) PROVE AgeStep(e)
  BY <1>12 DEF SweepScan, Rmtree, At, Running, OnTop, Started, Goto
<1>13. ASSUME NEW a \in Activity, Mkdtemp(a) PROVE AgeStep(e)
  BY <1>13 DEF Mkdtemp, At, Running, OnTop, Started, Goto
<1>14. ASSUME NEW a \in Activity, RegisterLocked(a) PROVE AgeStep(e)
  BY <1>14 DEF RegisterLocked, At, Running, OnTop, Started, Goto
<1>15. ASSUME NEW a \in Activity, Extract(a) PROVE AgeStep(e)
  BY <1>15 DEF Extract, At, Running, OnTop, Started, Goto
<1>16. ASSUME NEW a \in Activity, TargetLock(a) PROVE AgeStep(e)
  BY <1>16 DEF TargetLock, Return, AfterCall, At, Running, OnTop, Started,
     Goto
<1>17. ASSUME NEW a \in Activity, UnregisterLocked(a) PROVE AgeStep(e)
  BY <1>17 DEF UnregisterLocked, At, Running, OnTop, Started, Goto
<1>18. ASSUME NEW a \in Activity, RmtreeAndReturn(a) PROVE AgeStep(e)
  BY <1>18 DEF RmtreeAndReturn, Return, AfterCall, Rmtree, At, Running, OnTop,
     Started, Goto
<1>19. ASSUME NEW a \in Activity, ExitFinalizers(a) PROVE AgeStep(e)
  BY <1>19 DEF ExitFinalizers, AtexitLabel, At, Running, OnTop, Started, Goto
<1>20. ASSUME NEW a \in Activity, ExitLocked(a) PROVE AgeStep(e)
  BY <1>20 DEF ExitLocked, At, Running, OnTop, Started, Goto
<1>21. ASSUME NEW a \in Activity, ExitRmtree(a) PROVE AgeStep(e)
  BY <1>21 DEF ExitRmtree, Rmtree, At, Running, OnTop, Started, Goto
<1>22. ASSUME NEW h \in Activity, HList(h) PROVE AgeStep(e)
  BY <1>22 DEF HList, At, Running, OnTop, Started, Goto
<1>23. ASSUME NEW h \in Activity, HClear(h) PROVE AgeStep(e)
  BY <1>23 DEF HClear, At, Running, OnTop, Started, Goto
<1>24. ASSUME NEW h \in Activity, HRmtree(h) PROVE AgeStep(e)
  BY <1>24 DEF HRmtree, Rmtree, At, Running, OnTop, Started, Goto
<1>25. ASSUME NEW h \in Activity, HReturn(h) PROVE AgeStep(e)
  BY <1>25 DEF HReturn, Return, AfterCall, At, Running, OnTop, Started, Goto
<1> HIDE DEF TypeOK, Types, Frames, AgeStep
<1> QED
  BY <1>1, <1>2, <1>3, <1>4, <1>5, <1>6, <1>7, <1>8, <1>9, <1>10, <1>11,
     <1>12, <1>13, <1>14, <1>15, <1>16, <1>17, <1>18, <1>19, <1>20, <1>21,
     <1>22, <1>23, <1>24, <1>25, <1>0, Zenon DEF Kinds

\* A sweep goes on.
LEMMA SweepSteps ==
  ASSUME TypeOK, NEW c \in Activity, [Next]_vars
  PROVE  SweepStep(c)
<1>0. Kinds
  BY StepKinds
<1> USE DEF TypeOK, Types, Frames, SweepStep, SweepLabels
<1>1. CASE Move
  BY <1>1 DEF Move, Leads, Running, OnTop, Started, Goto
<1>2. ASSUME NEW a \in Body, NEW d \in Dir, StartCleanup(a, d) PROVE
     SweepStep(c)
  BY <1>2 DEF StartCleanup, At, Running, OnTop, Started, Goto
<1>3. ASSUME NEW d \in Dir, Drop(d) PROVE SweepStep(c)
  BY <1>3 DEF Drop
<1>4. ASSUME NEW d \in Dir, Age(d) PROVE SweepStep(c)
  BY <1>4 DEF Age
<1>5. ASSUME NEW p \in Proc, Gone(p) PROVE SweepStep(c)
  BY <1>5 DEF Gone, Alive, ProcessGone
<1>6. ASSUME NEW a \in Activity, Raise(a) PROVE SweepStep(c)
  BY <1>6, MainUnwinds, LandingLabel DEF Raise, UnwindSound, Unwind, OnTop
<1>7. ASSUME NEW h \in Activity, Forward(h) PROVE SweepStep(c)
  BY <1>7, HandlerUnwinds, LandingLabel DEF Forward, UnwindSound, Unwind,
     OnTop
<1>8. ASSUME NEW h \in Activity, NEW a \in Activity, Signal(h, a) PROVE
     SweepStep(c)
  BY <1>8 DEF Signal, Goto, Running, OnTop, Started
<1>9. ASSUME NEW f \in Activity, NEW a \in Activity, NEW d \in Dir, Collect(f,
     a, d) PROVE SweepStep(c)
  BY <1>9 DEF Collect, Goto, Running, OnTop, Started
<1>10. ASSUME NEW a \in Activity, SweepNow(a) PROVE SweepStep(c)
  BY <1>10 DEF SweepNow, At, Running, OnTop, Started, Goto
<1>11. ASSUME NEW a \in Activity, SweepLocked(a) PROVE SweepStep(c)
  BY <1>11 DEF SweepLocked, SweepSpares, At, Running, OnTop, Started, Goto
<1>12. ASSUME NEW a \in Activity, SweepScan(a) PROVE SweepStep(c)
  BY <1>12 DEF SweepScan, Rmtree, At, Running, OnTop, Started, Goto
<1>13. ASSUME NEW a \in Activity, Mkdtemp(a) PROVE SweepStep(c)
  BY <1>13 DEF Mkdtemp, At, Running, OnTop, Started, Goto
<1>14. ASSUME NEW a \in Activity, RegisterLocked(a) PROVE SweepStep(c)
  BY <1>14 DEF RegisterLocked, At, Running, OnTop, Started, Goto
<1>15. ASSUME NEW a \in Activity, Extract(a) PROVE SweepStep(c)
  BY <1>15 DEF Extract, At, Running, OnTop, Started, Goto
<1>16. ASSUME NEW a \in Activity, TargetLock(a) PROVE SweepStep(c)
  BY <1>16 DEF TargetLock, Return, AfterCall, At, Running, OnTop, Started,
     Goto
<1>17. ASSUME NEW a \in Activity, UnregisterLocked(a) PROVE SweepStep(c)
  BY <1>17 DEF UnregisterLocked, At, Running, OnTop, Started, Goto
<1>18. ASSUME NEW a \in Activity, RmtreeAndReturn(a) PROVE SweepStep(c)
  BY <1>18 DEF RmtreeAndReturn, Return, AfterCall, Rmtree, At, Running, OnTop,
     Started, Goto
<1>19. ASSUME NEW a \in Activity, ExitFinalizers(a) PROVE SweepStep(c)
  BY <1>19 DEF ExitFinalizers, AtexitLabel, At, Running, OnTop, Started, Goto
<1>20. ASSUME NEW a \in Activity, ExitLocked(a) PROVE SweepStep(c)
  BY <1>20 DEF ExitLocked, At, Running, OnTop, Started, Goto
<1>21. ASSUME NEW a \in Activity, ExitRmtree(a) PROVE SweepStep(c)
  BY <1>21 DEF ExitRmtree, Rmtree, At, Running, OnTop, Started, Goto
<1>22. ASSUME NEW h \in Activity, HList(h) PROVE SweepStep(c)
  BY <1>22 DEF HList, At, Running, OnTop, Started, Goto
<1>23. ASSUME NEW h \in Activity, HClear(h) PROVE SweepStep(c)
  BY <1>23 DEF HClear, At, Running, OnTop, Started, Goto
<1>24. ASSUME NEW h \in Activity, HRmtree(h) PROVE SweepStep(c)
  BY <1>24 DEF HRmtree, Rmtree, At, Running, OnTop, Started, Goto
<1>25. ASSUME NEW h \in Activity, HReturn(h) PROVE SweepStep(c)
  BY <1>25 DEF HReturn, Return, AfterCall, At, Running, OnTop, Started, Goto
<1> HIDE DEF TypeOK, Types, Frames, SweepStep, SweepLabels
<1> QED
  BY <1>1, <1>2, <1>3, <1>4, <1>5, <1>6, <1>7, <1>8, <1>9, <1>10, <1>11,
     <1>12, <1>13, <1>14, <1>15, <1>16, <1>17, <1>18, <1>19, <1>20, <1>21,
     <1>22, <1>23, <1>24, <1>25, <1>0, Zenon DEF Kinds

-----------------------------------------------------------------------------
(* Who holds a directory                                                   *)

\* A directory that exists was made, and so was one a sweep has noted; a sweep
\* notes none that is being registered, for that one is too young.
Births ==
  /\ \A d \in fs : target[d] # "unborn"
  /\ \A b \in Activity : \A d \in todo[b] :
       pc[b] \in SweepLabels => target[d] # "unborn"
  /\ \A a \in Activity : pc[a] \in {"register", "registerLocked"} =>
       /\ dir[a] \notin stale
       /\ \A b \in Activity : pc[b] \in SweepLabels => dir[a] \notin todo[b]

\* What the frame of an activity says of the target whose directory it holds.
Holders ==
  \A a \in Activity :
    /\ pc[a] \in MakingLabels => target[dir[a]] = "none"
    /\ pc[a] \in RemovalLabels => target[dir[a]] \in {"none", "cleaned", "collected"}
    /\ pc[a] = "targetLock" => target[dir[a]] \in {"live", "cleaned"}

\* One activity at most works on a directory: others wait for the lock of its
\* target.
SoleHolder ==
  \A a, b \in Activity : dir[a] # Nil /\ dir[a] = dir[b] /\ a # b =>
    pc[a] = "targetLock" \/ pc[b] = "targetLock"

\* The finalizers alive are those of the targets nobody has cleaned.
Armed ==
  \A d \in Dir : owner[d] # Nil =>
    (d \in armed <=> target[d] \in {"live", "garbage"})

\* The registry of a process lists directories of that process, and none whose
\* removal has begun.
Registry ==
  /\ \A p \in Proc : \A d \in active[p] : owner[d] = p
  /\ \A a \in Activity : pc[a] = "rmtree" => dir[a] \notin active[ProcOf[a]]

\* The exit callbacks run in a process that is exiting.
Exiting == \A a \in Activity : pc[a] \in ExitLabels => status[ProcOf[a]] = "exiting"

Base == Births /\ Holders /\ SoleHolder /\ Armed /\ Registry /\ Exiting

\* During an exit only the main thread and its handlers are at work.
LEMMA ExitAlone ==
  ASSUME TypeOK, Exiting, NEW m \in Activity, pc[m] \in ExitLabels,
         NEW a \in Activity, ProcOf[a] = ProcOf[m], pc[a] # "idle"
  PROVE  a = m \/ a \in Handler
  BY DEF TypeOK, Types, Frames, Exiting

\* Who holds a directory of a target that exists.
LEMMA Held ==
  ASSUME TypeOK, Base, NEW a \in Activity, dir[a] # Nil
  PROVE  /\ dir[a] \in Dir /\ owner[dir[a]] = ProcOf[a] /\ ProcOf[a] \in Proc
         /\ pc[a] \in DirLabels \cup {"targetLock"}
         /\ target[dir[a]] # "unborn"
  BY DEF TypeOK, Types, Frames, Base, Holders

\* A finalizer lives as long as its target is in use.
LEMMA ArmedNext ==
  ASSUME TypeOK, TypeOK', Base, [Next]_vars
  PROVE  Armed'
<1>0. Kinds
  BY StepKinds
<1> USE DEF TypeOK, Types, Frames, Armed, Base, Holders, MakingLabels
<1>1. CASE Move
  BY <1>1 DEF Move, Leads, Running, OnTop, Started, Goto
<1>2. ASSUME NEW a \in Body, NEW d \in Dir, StartCleanup(a, d) PROVE Armed'
  BY <1>2 DEF StartCleanup, At, Running, OnTop, Started, Goto
<1>3. ASSUME NEW d \in Dir, Drop(d) PROVE Armed'
  BY <1>3 DEF Drop
<1>4. ASSUME NEW d \in Dir, Age(d) PROVE Armed'
  BY <1>4 DEF Age
<1>5. ASSUME NEW p \in Proc, Gone(p) PROVE Armed'
  BY <1>5 DEF Gone, Alive, ProcessGone
<1>6. ASSUME NEW a \in Activity, Raise(a) PROVE Armed'
  BY <1>6, MainUnwinds DEF Raise, UnwindSound, Unwind, OnTop
<1>7. ASSUME NEW h \in Activity, Forward(h) PROVE Armed'
  BY <1>7, HandlerUnwinds DEF Forward, UnwindSound, Unwind, OnTop
<1>8. ASSUME NEW h \in Activity, NEW a \in Activity, Signal(h, a) PROVE Armed'
  BY <1>8 DEF Signal, Goto, Running, OnTop, Started
<1>9. ASSUME NEW f \in Activity, NEW a \in Activity, NEW d \in Dir, Collect(f,
     a, d) PROVE Armed'
  BY <1>9 DEF Collect, Goto, Running, OnTop, Started
<1>10. ASSUME NEW a \in Activity, SweepNow(a) PROVE Armed'
  BY <1>10 DEF SweepNow, At, Running, OnTop, Started, Goto
<1>11. ASSUME NEW a \in Activity, SweepLocked(a) PROVE Armed'
  BY <1>11 DEF SweepLocked, SweepSpares, At, Running, OnTop, Started, Goto
<1>12. ASSUME NEW a \in Activity, SweepScan(a) PROVE Armed'
  BY <1>12 DEF SweepScan, Rmtree, At, Running, OnTop, Started, Goto
<1>13. ASSUME NEW a \in Activity, Mkdtemp(a) PROVE Armed'
  BY <1>13 DEF Mkdtemp, At, Running, OnTop, Started, Goto
<1>14. ASSUME NEW a \in Activity, RegisterLocked(a) PROVE Armed'
  BY <1>14 DEF RegisterLocked, At, Running, OnTop, Started, Goto
<1>15. ASSUME NEW a \in Activity, Extract(a) PROVE Armed'
  BY <1>15 DEF Extract, At, Running, OnTop, Started, Goto
<1>16. ASSUME NEW a \in Activity, TargetLock(a) PROVE Armed'
  BY <1>16 DEF TargetLock, Return, AfterCall, At, Running, OnTop, Started,
     Goto
<1>17. ASSUME NEW a \in Activity, UnregisterLocked(a) PROVE Armed'
  BY <1>17 DEF UnregisterLocked, At, Running, OnTop, Started, Goto
<1>18. ASSUME NEW a \in Activity, RmtreeAndReturn(a) PROVE Armed'
  BY <1>18 DEF RmtreeAndReturn, Return, AfterCall, Rmtree, At, Running, OnTop,
     Started, Goto
<1>19. ASSUME NEW a \in Activity, ExitFinalizers(a) PROVE Armed'
  BY <1>19 DEF ExitFinalizers, AtexitLabel, At, Running, OnTop, Started, Goto
<1>20. ASSUME NEW a \in Activity, ExitLocked(a) PROVE Armed'
  BY <1>20 DEF ExitLocked, At, Running, OnTop, Started, Goto
<1>21. ASSUME NEW a \in Activity, ExitRmtree(a) PROVE Armed'
  BY <1>21 DEF ExitRmtree, Rmtree, At, Running, OnTop, Started, Goto
<1>22. ASSUME NEW h \in Activity, HList(h) PROVE Armed'
  BY <1>22 DEF HList, At, Running, OnTop, Started, Goto
<1>23. ASSUME NEW h \in Activity, HClear(h) PROVE Armed'
  BY <1>23 DEF HClear, At, Running, OnTop, Started, Goto
<1>24. ASSUME NEW h \in Activity, HRmtree(h) PROVE Armed'
  BY <1>24 DEF HRmtree, Rmtree, At, Running, OnTop, Started, Goto
<1>25. ASSUME NEW h \in Activity, HReturn(h) PROVE Armed'
  BY <1>25 DEF HReturn, Return, AfterCall, At, Running, OnTop, Started, Goto
<1> HIDE DEF TypeOK, Types, Frames, Armed, Base, Holders, MakingLabels
<1> QED
  BY <1>1, <1>2, <1>3, <1>4, <1>5, <1>6, <1>7, <1>8, <1>9, <1>10, <1>11,
     <1>12, <1>13, <1>14, <1>15, <1>16, <1>17, <1>18, <1>19, <1>20, <1>21,
     <1>22, <1>23, <1>24, <1>25, <1>0, Zenon DEF Kinds

\* Nothing but the exit of its process brings a thread to the exit callbacks.
LEMMA ExitingNext ==
  ASSUME TypeOK, Base, [Next]_vars
  PROVE  Exiting'
<1>0. Kinds
  BY StepKinds
<1> USE DEF TypeOK, Types, Frames, Exiting, Base
<1>1. CASE Move
  BY <1>1 DEF Move, Leads, Running, OnTop, Started, Goto, Alive
<1>2. ASSUME NEW a \in Body, NEW d \in Dir, StartCleanup(a, d) PROVE Exiting'
  BY <1>2 DEF StartCleanup, At, Running, OnTop, Started, Goto
<1>3. ASSUME NEW d \in Dir, Drop(d) PROVE Exiting'
  BY <1>3 DEF Drop
<1>4. ASSUME NEW d \in Dir, Age(d) PROVE Exiting'
  BY <1>4 DEF Age
<1>5. ASSUME NEW p \in Proc, Gone(p) PROVE Exiting'
  BY <1>5 DEF Gone, Alive, ProcessGone
<1>6. ASSUME NEW a \in Activity, Raise(a) PROVE Exiting'
  BY <1>6, MainUnwinds, LandingLabel DEF Raise, UnwindSound, Unwind, OnTop,
     Landing, Alive, Running, AtexitLabel
<1>7. ASSUME NEW h \in Activity, Forward(h) PROVE Exiting'
  BY <1>7, HandlerUnwinds, LandingLabel DEF Forward, UnwindSound, Unwind,
     OnTop, Landing, Alive, At, Running, AtexitLabel
<1>8. ASSUME NEW h \in Activity, NEW a \in Activity, Signal(h, a) PROVE
     Exiting'
  BY <1>8 DEF Signal, Goto, Running, OnTop, Started
<1>9. ASSUME NEW f \in Activity, NEW a \in Activity, NEW d \in Dir, Collect(f,
     a, d) PROVE Exiting'
  BY <1>9 DEF Collect, Goto, Running, OnTop, Started
<1>10. ASSUME NEW a \in Activity, SweepNow(a) PROVE Exiting'
  BY <1>10 DEF SweepNow, At, Running, OnTop, Started, Goto
<1>11. ASSUME NEW a \in Activity, SweepLocked(a) PROVE Exiting'
  BY <1>11 DEF SweepLocked, SweepSpares, At, Running, OnTop, Started, Goto
<1>12. ASSUME NEW a \in Activity, SweepScan(a) PROVE Exiting'
  BY <1>12 DEF SweepScan, Rmtree, At, Running, OnTop, Started, Goto
<1>13. ASSUME NEW a \in Activity, Mkdtemp(a) PROVE Exiting'
  BY <1>13 DEF Mkdtemp, At, Running, OnTop, Started, Goto
<1>14. ASSUME NEW a \in Activity, RegisterLocked(a) PROVE Exiting'
  BY <1>14 DEF RegisterLocked, At, Running, OnTop, Started, Goto
<1>15. ASSUME NEW a \in Activity, Extract(a) PROVE Exiting'
  BY <1>15 DEF Extract, At, Running, OnTop, Started, Goto
<1>16. ASSUME NEW a \in Activity, TargetLock(a) PROVE Exiting'
  BY <1>16 DEF TargetLock, Return, AfterCall, At, Running, OnTop, Started,
     Goto
<1>17. ASSUME NEW a \in Activity, UnregisterLocked(a) PROVE Exiting'
  BY <1>17 DEF UnregisterLocked, At, Running, OnTop, Started, Goto
<1>18. ASSUME NEW a \in Activity, RmtreeAndReturn(a) PROVE Exiting'
  BY <1>18 DEF RmtreeAndReturn, Return, AfterCall, Rmtree, At, Running, OnTop,
     Started, Goto
<1>19. ASSUME NEW a \in Activity, ExitFinalizers(a) PROVE Exiting'
  BY <1>19 DEF ExitFinalizers, AtexitLabel, At, Running, OnTop, Started, Goto
<1>20. ASSUME NEW a \in Activity, ExitLocked(a) PROVE Exiting'
  BY <1>20 DEF ExitLocked, At, Running, OnTop, Started, Goto
<1>21. ASSUME NEW a \in Activity, ExitRmtree(a) PROVE Exiting'
  BY <1>21 DEF ExitRmtree, Rmtree, At, Running, OnTop, Started, Goto
<1>22. ASSUME NEW h \in Activity, HList(h) PROVE Exiting'
  BY <1>22 DEF HList, At, Running, OnTop, Started, Goto
<1>23. ASSUME NEW h \in Activity, HClear(h) PROVE Exiting'
  BY <1>23 DEF HClear, At, Running, OnTop, Started, Goto
<1>24. ASSUME NEW h \in Activity, HRmtree(h) PROVE Exiting'
  BY <1>24 DEF HRmtree, Rmtree, At, Running, OnTop, Started, Goto
<1>25. ASSUME NEW h \in Activity, HReturn(h) PROVE Exiting'
  BY <1>25 DEF HReturn, Return, AfterCall, At, Running, OnTop, Started, Goto
<1> HIDE DEF TypeOK, Types, Frames, Exiting, Base
<1> QED
  BY <1>1, <1>2, <1>3, <1>4, <1>5, <1>6, <1>7, <1>8, <1>9, <1>10, <1>11,
     <1>12, <1>13, <1>14, <1>15, <1>16, <1>17, <1>18, <1>19, <1>20, <1>21,
     <1>22, <1>23, <1>24, <1>25, <1>0, Zenon DEF Kinds

\* A directory changes hands with its target.
LEMMA HoldersNext ==
  ASSUME TypeOK, TypeOK', Base, [Next]_vars
  PROVE  Holders'
<1> SUFFICES ASSUME NEW a \in Activity,
                    pc'[a] \in MakingLabels \cup RemovalLabels \cup {"targetLock"}
             PROVE  /\ pc'[a] \in MakingLabels => target'[dir'[a]] = "none"
                    /\ pc'[a] \in RemovalLabels =>
                         target'[dir'[a]] \in {"none", "cleaned", "collected"}
                    /\ pc'[a] = "targetLock" => target'[dir'[a]] \in {"live", "cleaned"}
  BY DEF Holders, MakingLabels, RemovalLabels
<1> DEFINE d == dir'[a]
<1>1. d # Nil /\ d \in Dir
  BY DEF TypeOK, Types, Frames, MakingLabels, RemovalLabels
<1>2. FrameStep(a) /\ TargetStep(d)
  BY <1>1, FrameSteps, TargetSteps
<1>3. CASE dir[a] = d
  <2>1. owner[d] = ProcOf[a] /\ ProcOf[a] \in Proc /\ owner[d] # Nil
    BY <1>1, <1>3, Held DEF TypeOK, Types
  <2>2. ASSUME pc[a] # "targetLock", target'[d] # target[d]
        PROVE  FALSE
    <3>1. target[d] \in {"none", "cleaned", "collected"} /\ d \notin armed
      BY <1>1, <1>3, <2>1, <2>2, Held DEF Base, Holders, Armed, MakingLabels, RemovalLabels
    <3>2. PICK b \in Activity : pc[b] = "extract" /\ dir[b] = d /\ dir'[b] = Nil
      BY <1>2, <2>2, <3>1 DEF TargetStep
    <3>3. b = a
      BY <1>1, <1>3, <2>2, <3>2 DEF Base, SoleHolder
    <3> QED
      BY <1>1, <3>2, <3>3
  <2>3. CASE pc[a] = "targetLock" /\ pc'[a] = "targetLock"
    <3>1. target[d] \in {"live", "cleaned"} /\ a \in Body
      BY <1>3, <2>3 DEF Base, Holders, TypeOK, Frames
    <3>2. ASSUME NEW m \in Main, pc[m] = "exitFinalizers", ProcOf[m] = owner[d]
          PROVE  FALSE
      BY <2>1, <2>3, <3>1, <3>2, ExitAlone DEF Base
    <3>3. ~ (pc[a] = "extract")
      BY <2>3
    <3> QED
      BY <1>2, <1>3, <2>3, <3>1, <3>2 DEF TargetStep, MakingLabels, RemovalLabels
  <2>4. CASE pc[a] = "targetLock" /\ pc'[a] # "targetLock"
    BY <1>1, <1>2, <1>3, <2>4 DEF FrameStep, MakingLabels, RemovalLabels
  <2>5. CASE pc[a] # "targetLock"
    <3>1. target'[d] = target[d] /\ pc[a] \in DirLabels
      BY <1>1, <1>3, <2>2, <2>5, Held
    <3>2. pc'[a] # "targetLock" /\ (pc'[a] \in MakingLabels => pc[a] \in MakingLabels)
      BY <1>1, <1>2, <1>3, <2>5, <3>1 DEF FrameStep, MakingLabels
    <3>3. pc[a] \in MakingLabels \cup RemovalLabels
      BY <3>1 DEF MakingLabels, RemovalLabels
    <3> QED
      BY <1>3, <3>1, <3>2, <3>3 DEF Base, Holders
  <2> QED
    BY <2>3, <2>4, <2>5
<1>4. CASE dir[a] # d
  BY <1>1, <1>2, <1>4 DEF FrameStep, MakingLabels, RemovalLabels
<1> QED
  BY <1>3, <1>4

\* Nobody takes up a directory that another one works on.
LEMMA SoleHolderNext ==
  ASSUME TypeOK, TypeOK', Base, [Next]_vars
  PROVE  SoleHolder'
<1> SUFFICES ASSUME NEW a \in Activity, NEW b \in Activity, dir'[a] # Nil,
                    dir'[a] = dir'[b], a # b, pc'[a] # "targetLock",
                    pc'[b] # "targetLock"
             PROVE  FALSE
  BY DEF SoleHolder
<1>1. FrameStep(a) /\ FrameStep(b)
  BY FrameSteps
\* at most one of the two takes a step
<1>2. ASSUME NEW x \in Activity, NEW y \in Activity, x # y, dir'[x] # Nil,
             dir'[x] = dir'[y], FrameStep(x), pc'[x] # "targetLock",
             pc'[y] # "targetLock", dir'[y] = dir[y], pc'[y] = pc[y]
      PROVE  FALSE
  <2> DEFINE d == dir'[x]
  <2>1. /\ dir[y] = d /\ d \in Dir /\ owner[d] = ProcOf[y] /\ owner[d] # Nil
        /\ pc[y] \in DirLabels
    BY <1>2, Held DEF TypeOK, Types
  <2>2. target[d] \in {"none", "cleaned", "collected"} /\ d \notin armed
    BY <2>1 DEF Base, Holders, Armed, MakingLabels, RemovalLabels
  <2>3. CASE dir[x] = d
    <3>1. pc[x] = "targetLock"
      BY <1>2, <2>1, <2>3 DEF Base, SoleHolder
    <3> QED
      BY <1>2, <2>2, <2>3, <3>1 DEF FrameStep
  <2>4. CASE dir[x] # d
    BY <1>2, <2>2, <2>4 DEF FrameStep
  <2> QED
    BY <2>3, <2>4
<1>3. \/ dir'[a] = dir[a] /\ pc'[a] = pc[a]
      \/ dir'[b] = dir[b] /\ pc'[b] = pc[b]
  <2>1. Sole(a) \/ (dir'[a] = dir[a] /\ pc'[a] = pc[a])
    BY <1>1 DEF FrameStep
  <2> QED
    BY <2>1 DEF Sole
<1> QED
  BY <1>1, <1>2, <1>3

\* A sweep learns of no directory before it was made and registered.
LEMMA BirthsNext ==
  ASSUME TypeOK, TypeOK', Base, [Next]_vars
  PROVE  Births'
<1>1. ASSUME NEW d \in Dir, target[d] # "unborn"
      PROVE  target'[d] # "unborn"
  BY <1>1, TargetSteps DEF TargetStep
<1>2. ASSUME NEW d \in fs' PROVE target'[d] # "unborn"
  <2>1. d \in Dir
    BY DEF TypeOK, Types
  <2>2. ASSUME NEW a \in Activity, At(a, "extract"), dir[a] = d
        PROVE  target[d] # "unborn"
    BY <2>2 DEF At, Base, Holders, MakingLabels
  <2> QED
    BY <1>1, <2>1, <2>2, DiskSteps DEF DiskStep, Base, Births
<1>3. ASSUME NEW b \in Activity, NEW d \in todo'[b], pc'[b] \in SweepLabels
      PROVE  target'[d] # "unborn"
  <2>1. d \in Dir /\ stale \subseteq fs
    BY DEF TypeOK, Types
  <2>2. d \in stale \/ (d \in todo[b] /\ pc[b] \in SweepLabels)
    <3>1. SweepStep(b)
      BY SweepSteps
    <3> QED
      BY <1>3, <3>1 DEF SweepStep, SweepLabels
  <2> QED
    BY <1>1, <2>1, <2>2 DEF Base, Births
<1>4. ASSUME NEW a \in Activity, pc'[a] \in {"register", "registerLocked"}
      PROVE  /\ dir'[a] \notin stale'
             /\ \A b \in Activity : pc'[b] \in SweepLabels => dir'[a] \notin todo'[b]
  <2> DEFINE d == dir'[a]
  <2>1. d # Nil /\ d \in Dir /\ stale \subseteq fs
    BY <1>4 DEF TypeOK, Types, Frames
  <2>2. CASE dir[a] = d /\ pc[a] \in {"register", "registerLocked"}
    <3>1. d \notin stale'
      BY <2>1, <2>2, AgeSteps DEF AgeStep, Base, Births
    <3>2. ASSUME NEW b \in Activity, pc'[b] \in SweepLabels
          PROVE  d \notin todo'[b]
      BY <2>2, <3>2, SweepSteps DEF SweepStep, SweepLabels, Base, Births
    <3> QED
      BY <3>1, <3>2
  <2>3. CASE target[d] = "unborn"
    <3>1. d \notin fs /\ d \notin stale'
      BY <2>1, <2>3, AgeSteps DEF AgeStep, Base, Births
    <3>2. ASSUME NEW b \in Activity, pc'[b] \in SweepLabels
          PROVE  d \notin todo'[b]
      BY <2>1, <2>3, <3>1, <3>2, SweepSteps DEF SweepStep, SweepLabels, Base, Births
    <3> QED
      BY <3>1, <3>2
  <2> QED
    BY <1>4, <2>1, <2>2, <2>3, FrameSteps DEF FrameStep
<1> QED
  BY <1>2, <1>3, <1>4 DEF Births

\* What is being removed is not registered again.
LEMMA RegistryNext ==
  ASSUME TypeOK, TypeOK', Base, [Next]_vars
  PROVE  Registry'
<1>1. ASSUME NEW p \in Proc, NEW d \in active'[p] PROVE owner'[d] = p
  <2>1. d \in Dir /\ p # Nil
    BY DEF TypeOK, Types
  <2>2. CASE d \in active[p]
    <3>1. owner[d] = p /\ target[d] # "unborn"
      BY <2>1, <2>2 DEF Base, Registry, TypeOK, Frames
    <3> QED
      BY <1>1, <2>1, <3>1, OwnerSteps DEF OwnerStep
  <2>3. CASE d \notin active[p]
    <3>1. PICK a \in Activity : ProcOf[a] = p /\ dir'[a] = d
      BY <1>1, <2>1, <2>3, RegistrySteps DEF RegistryStep
    <3> QED
      BY <2>1, <3>1 DEF TypeOK, Types, Frames
  <2> QED
    BY <2>2, <2>3
<1>2. ASSUME NEW a \in Activity, pc'[a] = "rmtree"
      PROVE  dir'[a] \notin active'[ProcOf[a]]
  <2> DEFINE d == dir'[a]
  <2>1. d # Nil /\ d \in Dir /\ ProcOf[a] \in Proc
    BY <1>2 DEF TypeOK, Types, Frames
  <2>2. dir[a] = d /\ pc[a] \in {"unregisterLocked", "rmtree"}
    BY <1>2, <2>1, FrameSteps DEF FrameStep
  <2>3. ASSUME NEW b \in Activity, dir[b] = d, pc[b] = "registerLocked"
        PROVE  FALSE
    BY <2>1, <2>2, <2>3 DEF Base, SoleHolder
  <2>4. CASE pc[a] = "rmtree"
    BY <2>1, <2>2, <2>3, <2>4, RegistrySteps DEF RegistryStep, Base, Registry
  <2>5. CASE pc[a] = "unregisterLocked"
    BY <1>2, <2>1, <2>2, <2>5, FrameSteps DEF FrameStep
  <2> QED
    BY <2>2, <2>4, <2>5
<1> QED
  BY <1>1, <1>2 DEF Registry

\* All of this holds throughout, signals or not.
LEMMA BaseCorrect == Spec => [](TypeOK /\ Base)
<1>1. Init => Base
  BY DEF Init, Base, Births, Holders, SoleHolder, Armed, Registry, Exiting,
     MakingLabels, RemovalLabels, SweepLabels
<1>2. TypeOK /\ TypeOK' /\ Base /\ [Next]_vars => Base'
  BY HoldersNext, SoleHolderNext, BirthsNext, RegistryNext, ArmedNext,
     ExitingNext DEF Base
<1> QED
  BY <1>1, <1>2, TypeCorrect, PTL DEF Spec


-----------------------------------------------------------------------------
(* Until the first signal arrives                                          *)

\* The registry lists every directory that a target or a frame answers for.
Listed ==
  /\ \A d \in Dir : owner[d] # Nil /\ target[d] \in {"live", "garbage"} =>
       d \in active[owner[d]]
  /\ \A a \in Activity : pc[a] \in ListedLabels => dir[a] \in active[ProcOf[a]]

\* A directory that a target needs, or an activity that is making it.
Needed(d) ==
  \/ target[d] = "live"
  \/ \E a \in Activity : dir[a] = d /\ pc[a] \in MakingLabels

\* After its look at the registry a sweep has on its list no directory of its
\* own process that is still needed: it read the clock before the registry, and
\* what was registered too late for that look was too young for the clock.
Spared ==
  \A b \in Activity : \A d \in todo[b] :
    pc[b] = "sweepScan" /\ owner[d] = ProcOf[b] => ~Needed(d)

\* A needed directory exists.
Present == \A d \in Dir : owner[d] # Nil /\ Needed(d) => d \in fs

\* A target that counts as cleaned is gone, or its removal is under way.
Cleaned ==
  \A d \in fs \ Undeletable :
    owner[d] # Nil /\ target[d] = "cleaned" => TargetLocked(d)

\* A single process uses the library.
OneProcess == \A p, q \in Proc : p = q

\* A directory becomes needed when it is made, by its maker.
LEMMA NeedSteps ==
  ASSUME TypeOK, TypeOK', Base, [Next]_vars, NEW d \in Dir, Needed(d)'
  PROVE  \/ Needed(d)
         \/ target[d] = "unborn" /\ d \in fs'
<1>1. CASE target'[d] = "live"
  BY <1>1, TargetSteps DEF TargetStep, Needed, MakingLabels
<1>2. ASSUME NEW a \in Activity, dir'[a] = d, pc'[a] \in MakingLabels
      PROVE  \/ Needed(d)
             \/ target[d] = "unborn" /\ d \in fs'
  BY <1>2, FrameSteps DEF FrameStep, Needed, MakingLabels, TypeOK, Types
<1> QED
  BY <1>1, <1>2 DEF Needed

\* A needed directory is in the hands of its target, or of its maker alone, and
\* not of a process that exits.
LEMMA NeedHeld ==
  ASSUME TypeOK, Base, NEW d \in Dir, owner[d] # Nil, Needed(d), ShutdownInv
  PROVE  /\ \A a \in Activity : dir[a] = d => pc[a] \in MakingLabels \cup {"targetLock"}
         /\ \A m \in Activity : pc[m] \in {"exitLocked", "exitRmtree"} => ProcOf[m] # owner[d]
<1>1. \A a \in Activity : dir[a] = d => pc[a] \in DirLabels \cup {"targetLock"}
  BY Held
<1>2. CASE target[d] = "live"
  <2>1. ASSUME NEW a \in Activity, dir[a] = d PROVE pc[a] \notin RemovalLabels
    BY <1>2, <2>1 DEF Base, Holders
  <2>2. d \in armed
    BY <1>2 DEF Base, Armed
  <2> QED
    BY <1>1, <2>1, <2>2 DEF MakingLabels, RemovalLabels, ShutdownInv
<1>3. ASSUME NEW a \in Activity, dir[a] = d, pc[a] \in MakingLabels
      PROVE  /\ \A b \in Activity : dir[b] = d => pc[b] \in MakingLabels \cup {"targetLock"}
             /\ \A m \in Activity : pc[m] \in {"exitLocked", "exitRmtree"} => ProcOf[m] # owner[d]
  <2>1. d # Nil /\ owner[d] = ProcOf[a] /\ a \notin Handler
    BY <1>3, Held DEF MakingLabels, ShutdownInv
  <2>2. ASSUME NEW b \in Activity, dir[b] = d
        PROVE  pc[b] \in MakingLabels \cup {"targetLock"}
    BY <1>3, <2>1, <2>2 DEF Base, SoleHolder, MakingLabels
  <2>3. ASSUME NEW m \in Activity, pc[m] \in {"exitLocked", "exitRmtree"},
               ProcOf[m] = owner[d]
        PROVE  FALSE
    BY <1>3, <2>1, <2>3, ExitAlone DEF Base, MakingLabels
  <2> QED
    BY <2>2, <2>3
<1> QED
  BY <1>2, <1>3 DEF Needed

\* The registry keeps what is in use until its removal begins.
LEMMA ListedNext ==
  ASSUME TypeOK, TypeOK', Base, ShutdownInv, Listed, [Next]_vars
  PROVE  Listed'
\* what the registry lists it keeps, unless a frame is about to remove it
<1>1. ASSUME NEW d \in Dir, NEW p \in Proc, owner'[d] = p, d \in active[p],
             \A m \in Activity : ProcOf[m] = p => pc[m] # "exitLocked",
             \A a \in Activity : dir[a] = d /\ pc[a] = "unregisterLocked" => pc'[a] # "rmtree"
      PROVE  d \in active'[p]
  BY <1>1, RegistrySteps DEF RegistryStep, At, ShutdownInv, TypeOK, Frames
<1>2. ASSUME NEW d \in Dir, owner'[d] # Nil, target'[d] \in {"live", "garbage"}
      PROVE  d \in active'[owner'[d]]
  <2>1. owner'[d] = owner[d] /\ owner[d] \in Proc
    BY <1>2, OwnerSteps DEF OwnerStep, TypeOK, Types
  <2>2. CASE target[d] \in {"live", "garbage"}
    <3>1. d \in armed /\ d \in active[owner[d]]
      BY <1>2, <2>1, <2>2 DEF Listed, Base, Armed
    <3>2. \A m \in Activity : ProcOf[m] = owner[d] => pc[m] # "exitLocked"
      BY <3>1 DEF ShutdownInv
    <3>3. \A a \in Activity : dir[a] = d => pc[a] # "unregisterLocked"
      BY <2>2 DEF Base, Holders, RemovalLabels
    <3> QED
      BY <1>1, <2>1, <3>1, <3>2, <3>3
  <2>3. CASE target[d] \notin {"live", "garbage"}
    <3>1. PICK a \in Activity : pc[a] = "extract" /\ dir[a] = d
      BY <1>2, <2>3, TargetSteps DEF TargetStep
    <3>2. Needed(d) /\ d \in active[owner[d]]
      BY <2>1, <3>1, Held DEF Needed, MakingLabels, Listed, ListedLabels, TypeOK, Types
    <3> QED
      BY <1>1, <1>2, <2>1, <3>2, NeedHeld DEF MakingLabels
  <2> QED
    BY <2>2, <2>3
<1>3. ASSUME NEW a \in Activity, pc'[a] \in ListedLabels
      PROVE  dir'[a] \in active'[ProcOf[a]]
  <2> DEFINE d == dir'[a]
  <2>1. d # Nil /\ d \in Dir /\ owner'[d] = ProcOf[a] /\ ProcOf[a] \in Proc
    BY <1>3 DEF ListedLabels, TypeOK, Types, Frames
  <2>2. FrameStep(a)
    BY FrameSteps
  <2>3. CASE dir[a] = d /\ pc[a] \in ListedLabels
    <3>1. d \in active[ProcOf[a]]
      BY <2>3 DEF Listed
    <3>2. \A m \in Activity : ProcOf[m] = ProcOf[a] => pc[m] # "exitLocked"
      <4>1. a \notin Handler
        BY <2>3 DEF ListedLabels, ShutdownInv
      <4> QED
        BY <2>3, <4>1, ExitAlone DEF ListedLabels, Base
    <3>3. \A b \in Activity : dir[b] = d /\ pc[b] = "unregisterLocked" => pc'[b] # "rmtree"
      BY <1>3, <2>1, <2>3 DEF Base, SoleHolder, ListedLabels
    <3> QED
      BY <1>1, <2>1, <3>1, <3>2, <3>3
  <2>4. CASE dir[a] = d /\ pc[a] = "registerLocked"
    BY <1>3, <2>1, <2>2, <2>4 DEF FrameStep, ListedLabels
  <2>5. CASE d \in armed \/ (dir[a] = d /\ pc[a] = "targetLock" /\ target[d] = "live")
    <3>1. owner[d] = ProcOf[a] /\ owner[d] # Nil
      <4>1. owner[d] # Nil /\ target[d] # "unborn" /\ ProcOf[a] # Nil
        BY <2>1, <2>5, Held DEF TypeOK, Types, Frames
      <4> QED
        BY <2>1, <4>1, OwnerSteps DEF OwnerStep
    <3>2. target[d] \in {"live", "garbage"} /\ d \in armed
      BY <2>1, <2>5, <3>1 DEF Base, Armed
    <3>3. d \in active[ProcOf[a]]
      BY <2>1, <3>1, <3>2 DEF Listed
    <3>4. \A m \in Activity : ProcOf[m] = ProcOf[a] => pc[m] # "exitLocked"
      BY <3>1, <3>2 DEF ShutdownInv
    <3>5. \A b \in Activity : dir[b] = d => pc[b] # "unregisterLocked"
      BY <3>2 DEF Base, Holders, RemovalLabels
    <3> QED
      BY <1>1, <2>1, <3>3, <3>4, <3>5
  <2>6. CASE dir[a] = d /\ pc[a] \notin ListedLabels \cup {"registerLocked", "targetLock"}
    BY <1>3, <2>1, <2>2, <2>6, Held DEF FrameStep, ListedLabels
  <2> QED
    BY <1>3, <2>1, <2>2, <2>3, <2>4, <2>5, <2>6 DEF FrameStep, ListedLabels
<1> QED
  BY <1>2, <1>3 DEF Listed

\* A sweep that has looked at the clock, the registry and the disk at three
\* instants still has nothing on its list that its own process needs.
LEMMA SparedNext ==
  ASSUME TypeOK, TypeOK', Base, Listed, Spared, [Next]_vars
  PROVE  Spared'
<1> SUFFICES ASSUME NEW b \in Activity, NEW d \in todo'[b], pc'[b] = "sweepScan",
                    owner'[d] = ProcOf[b], Needed(d)'
             PROVE  FALSE
  BY DEF Spared
<1>1. d \in Dir /\ ProcOf[b] \in Proc /\ SweepStep(b)
  BY SweepSteps DEF TypeOK, Types
<1>2. d \in todo[b] /\ pc[b] \in {"sweepLocked", "sweepScan"}
  BY <1>1 DEF SweepStep, SweepLabels
<1>3. target[d] # "unborn"
  BY <1>2 DEF Base, Births, SweepLabels
<1>4. Needed(d)
  BY <1>1, <1>3, NeedSteps
<1>5. owner[d] = ProcOf[b]
  BY <1>1, <1>3, OwnerSteps DEF OwnerStep, TypeOK, Types
<1>6. CASE pc[b] = "sweepScan"
  BY <1>2, <1>4, <1>5, <1>6 DEF Spared
<1>7. CASE pc[b] = "sweepLocked"
  <2>1. d \notin active[ProcOf[b]]
    BY <1>1, <1>7 DEF SweepStep, SweepLabels
  <2>2. CASE target[d] = "live"
    BY <1>1, <1>5, <2>1, <2>2 DEF Listed, TypeOK, Types
  <2>3. ASSUME NEW a \in Activity, dir[a] = d, pc[a] \in MakingLabels PROVE FALSE
    <3>1. owner[d] = ProcOf[a]
      BY <1>1, <2>3, Held DEF TypeOK, Types
    <3>2. CASE pc[a] = "extract"
      BY <1>5, <2>1, <2>3, <3>1, <3>2 DEF Listed, ListedLabels
    <3>3. CASE pc[a] \in {"register", "registerLocked"}
      BY <1>2, <1>7, <2>3, <3>3 DEF Base, Births, SweepLabels
    <3> QED
      BY <2>3, <3>2, <3>3 DEF MakingLabels
  <2> QED
    BY <1>4, <2>2, <2>3 DEF Needed
<1> QED
  BY <1>2, <1>6, <1>7

\* Nobody but another process removes a needed directory.
LEMMA PresentNext ==
  ASSUME OneProcess, TypeOK, TypeOK', Base, ShutdownInv, Spared, Present,
         [Next]_vars
  PROVE  Present'
<1> SUFFICES ASSUME NEW d \in Dir, owner'[d] # Nil, Needed(d)' PROVE d \in fs'
  BY DEF Present
<1>1. CASE target[d] = "unborn" /\ d \in fs'
  BY <1>1
<1>2. CASE Needed(d)
  <2>1. owner[d] \in Proc /\ owner[d] # Nil /\ d \in fs
    <3>1. target[d] # "unborn"
      BY <1>2, Held DEF Needed, TypeOK, Types
    <3> QED
      BY <1>2, <3>1, OwnerSteps DEF OwnerStep, Present, TypeOK, Types
  <2>2. ASSUME NEW a \in Activity, At(a, "rmtree"), dir[a] = d PROVE FALSE
    BY <1>2, <2>1, <2>2, NeedHeld DEF At, MakingLabels
  <2>3. ASSUME NEW a \in Activity, At(a, "sweepScan"), d \in todo[a] PROVE FALSE
    <3>1. ProcOf[a] = owner[d]
      BY <2>1 DEF OneProcess
    <3> QED
      BY <1>2, <2>3, <3>1 DEF At, Spared
  <2>4. ASSUME NEW a \in Activity, pc[a] \in {"exitRmtree", "hRmtree"} PROVE FALSE
    <3>1. ProcOf[a] = owner[d] /\ pc[a] = "exitRmtree"
      BY <2>1, <2>4 DEF OneProcess, ShutdownInv, TypeOK, Frames
    <3> QED
      BY <1>2, <2>1, <3>1, NeedHeld
  <2> QED
    BY <2>1, <2>2, <2>3, <2>4, DiskSteps DEF DiskStep
<1> QED
  BY <1>1, <1>2, NeedSteps

\* No exception unwinds anything before the first signal.
LEMMA NoThrow ==
  ASSUME TypeOK, ShutdownInv, signals' = 0, NEW a \in Activity
  PROVE  ~Thrown(a)
<1>1. ~Raise(a)
  BY DEF Raise, TypeOK, Types
<1>2. ASSUME NEW h \in Activity, Forward(h) PROVE FALSE
  <2>1. pc[h] \in {"hForward", "hRaise"}
    BY <1>2 DEF Forward, At
  <2>2. h \in Handler
    BY <2>1 DEF TypeOK, Frames
  <2> QED
    BY <2>1, <2>2 DEF ShutdownInv
<1> QED
  BY <1>1, <1>2 DEF Thrown

\* Who marks a target cleaned removes its directory before it lets go of the
\* lock.
LEMMA CleanedNext ==
  ASSUME TypeOK, TypeOK', Base, ShutdownInv, Cleaned, signals' = 0, [Next]_vars
  PROVE  Cleaned'
<1> SUFFICES ASSUME NEW d \in fs' \ Undeletable, owner'[d] # Nil,
                    target'[d] = "cleaned"
             PROVE  \E b \in Body : dir'[b] = d /\ pc'[b] \in RemovalLabels
  BY DEF Cleaned, TargetLocked, RemovalLabels
<1>1. d \in Dir /\ d # Nil
  BY DEF TypeOK, Types
<1>2. CASE target[d] = "cleaned"
  <2>1. owner[d] # Nil
    BY <1>1, <1>2, OwnerSteps DEF OwnerStep
  <2>2. ~ \E a \in Activity : At(a, "extract") /\ dir[a] = d
    BY <1>2 DEF At, Base, Holders, MakingLabels
  <2>3. d \in fs
    BY <1>1, <1>2, <2>2, DiskSteps DEF DiskStep
  <2>4. PICK b \in Body : dir[b] = d /\ pc[b] \in RemovalLabels
    BY <1>2, <2>1, <2>3 DEF Cleaned, TargetLocked, RemovalLabels
  <2>5. ASSUME dir'[b] = Nil PROVE FALSE
    <3>1. LeaveStep(b)
      BY LeaveSteps
    <3>2. ~Thrown(b)
      BY NoThrow
    <3> QED
      BY <1>1, <2>4, <2>5, <3>1, <3>2 DEF LeaveStep, At, RemovalLabels
  <2>6. FrameStep(b)
    BY FrameSteps
  <2> QED
    BY <1>1, <2>4, <2>5, <2>6 DEF FrameStep, RemovalLabels
<1>3. CASE target[d] # "cleaned"
  BY <1>1, <1>3, TargetSteps DEF TargetStep, RemovalLabels
<1> QED
  BY <1>2, <1>3

\* Before the first signal
Calm == Listed /\ Spared /\ Cleaned /\ (OneProcess => Present)

\* All of this holds until the first signal arrives.
LEMMA CalmCorrect ==
  Spec => [](TypeOK /\ Base /\ (signals = 0 => ShutdownInv /\ Calm))
<1>1. Init => Calm
  BY DEF Init, Calm, Listed, Spared, Cleaned, Present, Needed, ListedLabels,
     MakingLabels
<1>2. /\ TypeOK /\ TypeOK' /\ Base /\ (signals = 0 => ShutdownInv /\ Calm)
      /\ [Next]_vars
      => (signals = 0 => Calm)'
  BY SignalsCount, ListedNext, SparedNext, PresentNext, CleanedNext
  DEF Calm, OneProcess
<1> QED
  BY <1>1, <1>2, BaseCorrect, NothingLostBeforeSignals, PTL DEF Spec

\* As long as no signal arrives, no thread, sweep, collection or exit takes the
\* directory of a target in use: only another process may, once it is a day old.
THEOREM QuietLiveTargetKeepsDir ==
  ASSUME MaxSignals = 0, OneProcess
  PROVE  Spec => []LiveTargetKeepsDir
<1>1. TypeOK /\ (signals = 0 => ShutdownInv /\ Calm) => LiveTargetKeepsDir
  BY DEF TypeOK, Types, Calm, Present, Needed, LiveTargetKeepsDir
<1> QED
  BY <1>1, CalmCorrect, PTL

\* Any number of processes, until the first signal: a target in use is in the
\* registry of its process, and no sweep of that process has it on its list.
THEOREM LiveTargetIsSpared ==
  Spec => [](signals = 0 =>
               \A d \in Dir : target[d] = "live" /\ owner[d] # Nil =>
                 /\ d \in active[owner[d]]
                 /\ \A b \in Activity :
                      ProcOf[b] = owner[d] /\ pc[b] = "sweepScan" => d \notin todo[b])
<1>1. Calm => \A d \in Dir : target[d] = "live" /\ owner[d] # Nil =>
                /\ d \in active[owner[d]]
                /\ \A b \in Activity :
                     ProcOf[b] = owner[d] /\ pc[b] = "sweepScan" => d \notin todo[b]
  BY DEF Calm, Listed, Spared, Needed
<1> QED
  BY <1>1, CalmCorrect, PTL

\* When cleanup() returns, the directory is gone, whoever removed it.
THEOREM QuietCleanupMeansGone ==
  ASSUME MaxSignals = 0
  PROVE  Spec => CleanupMeansGone
<1> DEFINE Removed == \A a \in Activity, d \in Dir :
                      CleanupReturns(a, d) => d \notin fs' \/ d \in Undeletable
<1>1. /\ TypeOK /\ TypeOK' /\ Base /\ (signals = 0 => ShutdownInv /\ Calm)
      /\ [Next]_vars
      => Removed
  <2> SUFFICES ASSUME TypeOK, TypeOK', Base, signals = 0 => ShutdownInv /\ Calm,
                      [Next]_vars, NEW a \in Activity, NEW d \in Dir,
                      CleanupReturns(a, d)
               PROVE  d \notin fs' \ Undeletable
    OBVIOUS
  <2>1. ShutdownInv /\ Cleaned /\ signals' = 0
    BY DEF Calm, TypeOK, Types
  <2>2. dir[a] = d /\ d # Nil /\ dir'[a] = Nil /\ owner[d] # Nil
    <3>1. dir[a] = d /\ d # Nil /\ pc'[a] = "idle"
      BY DEF CleanupReturns
    <3>2. dir'[a] = Nil
      BY <3>1 DEF TypeOK, Frames
    <3> QED
      BY <3>1, <3>2, Held
  <2>3. ~Thrown(a)
    BY <2>1, NoThrow
  <2>4. LeaveStep(a)
    BY LeaveSteps
  <2>5. CASE At(a, "targetLock") /\ fs' = fs /\ target[d] # "live" /\ ~TargetLocked(d)
    <3>1. target[d] = "cleaned"
      BY <2>2, <2>5 DEF At, Base, Holders
    <3> QED
      BY <2>1, <2>2, <2>5, <3>1 DEF Cleaned
  <2> QED
    BY <2>2, <2>3, <2>4, <2>5 DEF LeaveStep, At, CleanupReturns
<1> QED
  BY <1>1, CalmCorrect, PTL DEF CleanupMeansGone, Spec

-----------------------------------------------------------------------------
(* What one signal may lose                                                *)

\* One signal makes one handler, which no second one interrupts.
OneHandler ==
  /\ \A h \in Handler : pc[h] # "idle" => signals = 1 /\ pc[h] # "hRaise"
  /\ \A g, h \in Handler : pc[g] # "idle" /\ pc[h] # "idle" => g = h

\* A collector run that a handler interrupted is still there when it ends.
Begun ==
  \A h \in Handler : pc[h] # "idle" /\ under[h] \in Finalizer => pc[under[h]] # "idle"

\* The directory of the interrupted frame: registered when the signal arrives,
\* then on the list of the handler, then gone.
Interrupted ==
  \A h \in Handler : pc[h] # "idle" /\ pc[under[h]] \in ListedLabels =>
    LET d == dir[under[h]] IN
    /\ pc[h] \in {"hAcquire", "hTry", "hList"} => d \in active[ProcOf[h]]
    /\ pc[h] = "hClear" => d \in todo[h]
    /\ pc[h] = "hRmtree" => d \in todo[h] \/ d \notin fs \/ d \in Undeletable
    /\ pc[h] = "hForward" => d \notin fs \/ d \in Undeletable

\* What is registered between a handler's copy of the registry and its clearing
\* (possible when it could not take the lock) is accounted for otherwise.
LateEntries ==
  \A h \in Handler : pc[h] = "hClear" =>
    \A d \in active[ProcOf[h]] \ todo[h] :
      \/ d \in armed
      \/ \E a \in Activity : ProcOf[a] = ProcOf[h] /\ dir[a] = d /\ pc[a] \in DirLabels

Windows == OneHandler /\ Begun /\ Interrupted /\ LateEntries

\* The invariant: before the signal everything is registered (Listed).
SignalInv == Base /\ Windows /\ (signals = 0 => ShutdownInv /\ Listed)

\* A second handler would need a second signal.
LEMMA OneHandlerNext ==
  ASSUME MaxSignals <= 1, TypeOK, TypeOK', SignalInv, [Next]_vars
  PROVE  OneHandler'
<1>1. signals \in 0..1 /\ signals' \in 0..1 /\ (signals = 1 => signals' = 1)
  <2>1. signals \in 0..MaxSignals /\ signals' \in 0..MaxSignals
    BY DEF TypeOK, Types
  <2>2. MaxSignals \in {0, 1}
    BY EnvironmentAssumption DEF EnvironmentAssumption
  <2>3. signals' = 0 => signals = 0
    BY SignalsCount
  <2> QED
    BY <2>1, <2>2, <2>3
<1>2. ASSUME NEW h \in Handler, Thrown(h), pc[h] # "idle" PROVE FALSE
  <2>1. CASE Raise(h)
    BY <1>1, <1>2, <2>1 DEF Raise, SignalInv, Windows, OneHandler, EnvironmentAssumption
  <2>2. ASSUME NEW g \in Activity, under[g] = h, Forward(g) PROVE FALSE
    <3>1. pc[g] \in {"hForward", "hRaise"} /\ g \in Handler /\ g # h
      BY <2>2 DEF Forward, At, TypeOK, Types, Frames
    <3> QED
      BY <1>2, <3>1 DEF SignalInv, Windows, OneHandler
  <2> QED
    BY <1>2, <2>1, <2>2 DEF Thrown
<1>3. ASSUME NEW h \in Handler, pc'[h] # "idle", pc[h] # "idle"
      PROVE  signals' = 1 /\ pc'[h] # "hRaise"
  BY <1>1, <1>2, <1>3, HandlerCourses
  DEF HandlerCourse, SignalInv, Windows, OneHandler
<1>4. ASSUME NEW h \in Handler, pc'[h] # "idle", pc[h] = "idle"
      PROVE  /\ signals = 0 /\ signals' = 1 /\ pc'[h] = "hAcquire"
             /\ \A b \in Activity \ {h} : pc'[b] = pc[b]
  BY <1>1, <1>4, HandlerCourses DEF HandlerCourse, TypeOK, Types
<1>5. ASSUME NEW g \in Handler, NEW h \in Handler, pc'[g] # "idle", pc'[h] # "idle",
             g # h
      PROVE  FALSE
  <2>1. CASE pc[g] # "idle" /\ pc[h] # "idle"
    BY <1>5, <2>1 DEF SignalInv, Windows, OneHandler
  <2>2. CASE pc[g] = "idle" \/ pc[h] = "idle"
    <3>1. signals = 0 /\ (pc[g] # "idle" \/ pc[h] # "idle")
      BY <1>4, <1>5, <2>2
    <3> QED
      BY <3>1 DEF SignalInv, Windows, OneHandler
  <2> QED
    BY <2>1, <2>2
<1> QED
  BY <1>3, <1>4, <1>5 DEF OneHandler

\* While a handler runs, what it interrupted stands still.
LEMMA Frozen ==
  ASSUME MaxSignals <= 1, TypeOK, TypeOK', SignalInv, [Next]_vars,
         NEW h \in Handler, pc[h] # "idle", pc'[h] # "idle"
  PROVE  LET v == under[h] IN
         /\ v \in Activity /\ ProcOf[v] = ProcOf[h] /\ ~Running(v)
         /\ v \notin Body \ Main /\ v \notin Handler
         /\ under'[h] = v
         /\ dir'[v] = dir[v]
         /\ dir[v] # Nil => pc'[v] = pc[v]
         /\ v \in Finalizer => pc'[v] # "idle"
         /\ pc'[v] \in ListedLabels => pc[v] = pc'[v]
<1> DEFINE v == under[h]
<1>1. /\ v \in Activity \ ({h} \cup (Body \ Main)) /\ ProcOf[v] = ProcOf[h]
      /\ v # Nil /\ (v \in Handler => pc[v] # "idle")
  BY DEF TypeOK, Types, Frames
<1>2. ~Running(v)
  BY DEF Running, OnTop
<1>3. v \notin Handler
  BY <1>1 DEF SignalInv, Windows, OneHandler
<1>4. signals = 1 /\ ~Thrown(v)
  <2>1. signals = 1 /\ ~Raise(v)
    BY DEF Raise, SignalInv, Windows, OneHandler, TypeOK, Types
  <2>2. ASSUME NEW g \in Activity, under[g] = v, Forward(g) PROVE FALSE
    <3>1. pc[g] \in {"hForward", "hRaise"} /\ g \in Handler /\ pc'[g] = "idle"
      <4>1. pc[g] \in {"hForward", "hRaise"} /\ g \in Handler
        BY <2>2 DEF Forward, At, TypeOK, Types, Frames
      <4>2. g # under[g]
        BY <4>1 DEF TypeOK, Frames
      <4> QED
        BY <2>2, <4>1, <4>2 DEF Forward, Unwind
    <3> QED
      BY <3>1 DEF SignalInv, Windows, OneHandler
  <2> QED
    BY <2>1, <2>2 DEF Thrown
<1>5. under'[h] = v
  <2>1. HandlerCourse(h)
    BY HandlerCourses
  <2> QED
    BY <2>1 DEF HandlerCourse
<1>6. v \in Finalizer => pc[v] # "idle"
  BY DEF SignalInv, Windows, Begun
<1>7. CASE dir[v] # Nil
  <2>1. dir'[v] # Nil
    <3>1. LeaveStep(v)
      BY <1>1, LeaveSteps
    <3>2. ~ \A b \in Activity : ProcOf[b] = ProcOf[v] => pc'[b] = "idle"
      BY <1>1
    <3> QED
      BY <1>2, <1>4, <1>7, <3>1, <3>2 DEF LeaveStep, At
  <2>2. pc[v] # "idle"
    BY <1>1, <1>7, Held DEF SignalInv
  <2>3. dir'[v] = dir[v] /\ pc'[v] = pc[v]
    <3>1. FrameStep(v)
      BY <1>1, FrameSteps
    <3> QED
      BY <1>2, <2>1, <2>2, <3>1 DEF FrameStep
  <2> QED
    BY <1>1, <1>2, <1>3, <1>5, <2>2, <2>3
<1>8. CASE dir[v] = Nil
  <2>1. v \notin Finalizer
    <3>1. pc[v] \notin DirLabels \cup {"targetLock"}
      BY <1>1, <1>8 DEF TypeOK, Frames
    <3> QED
      BY <1>1, <1>6, <3>1 DEF TypeOK, Types, Frames
  <2>2. dir'[v] = Nil
    <3>1. FrameStep(v)
      BY <1>1, FrameSteps
    <3> QED
      BY <1>2, <1>8, <2>1, <3>1 DEF FrameStep
  <2>3. pc'[v] \notin ListedLabels
    BY <1>1, <2>2 DEF ListedLabels, TypeOK, Frames
  <2> QED
    BY <1>1, <1>2, <1>3, <1>5, <1>8, <2>1, <2>2, <2>3
<1> QED
  BY <1>7, <1>8

\* A signal interrupts an activity at work.
LEMMA Arrival ==
  ASSUME TypeOK, TypeOK', [Next]_vars, MaxSignals <= 1,
         NEW h \in Handler, pc[h] = "idle", pc'[h] # "idle"
  PROVE  LET v == under'[h] IN
         /\ signals = 0 /\ pc'[h] = "hAcquire" /\ v \in Activity
         /\ ProcOf[v] = ProcOf[h]
         /\ pc'[v] = pc[v] /\ (v \in Finalizer => pc[v] # "idle")
         /\ UNCHANGED <<fs, active, dir>>
<1>1. HandlerCourse(h)
  BY HandlerCourses
<1>2. under'[h] \in Activity /\ under'[h] # Nil /\ ProcOf[under'[h]] = ProcOf[h]
  BY DEF TypeOK, Types, Frames
<1>3. signals = 0
  BY <1>1 DEF HandlerCourse, TypeOK, Types
<1> QED
  BY <1>1, <1>2, <1>3 DEF HandlerCourse, Running, Started

\* The interrupted collector run is not ended under its handler.
LEMMA BegunNext ==
  ASSUME MaxSignals <= 1, TypeOK, TypeOK', SignalInv, [Next]_vars
  PROVE  Begun'
<1> SUFFICES ASSUME NEW h \in Handler, pc'[h] # "idle", under'[h] \in Finalizer
             PROVE  pc'[under'[h]] # "idle"
  BY DEF Begun
<1>1. CASE pc[h] = "idle"
  BY <1>1, Arrival
<1>2. CASE pc[h] # "idle"
  BY <1>2, Frozen
<1> QED
  BY <1>1, <1>2

\* The handler removes the directory of what it interrupted.
LEMMA InterruptedNext ==
  ASSUME MaxSignals <= 1, TypeOK, TypeOK', SignalInv, OneHandler', [Next]_vars
  PROVE  Interrupted'
<1> SUFFICES ASSUME NEW h \in Handler, pc'[h] # "idle",
                    pc'[under'[h]] \in ListedLabels
             PROVE  LET d == dir'[under'[h]] IN
                    /\ pc'[h] \in {"hAcquire", "hTry", "hList"} => d \in active'[ProcOf[h]]
                    /\ pc'[h] = "hClear" => d \in todo'[h]
                    /\ pc'[h] = "hRmtree" => d \in todo'[h] \/ d \notin fs' \/ d \in Undeletable
                    /\ pc'[h] = "hForward" => d \notin fs' \/ d \in Undeletable
  BY DEF Interrupted
<1>1. CASE pc[h] = "idle"
  <2>1. pc'[h] = "hAcquire" /\ signals = 0
    BY <1>1, Arrival
  <2>2. Listed
    BY <2>1 DEF SignalInv
  <2> QED
    BY <1>1, <2>1, <2>2, Arrival DEF Listed
<1>2. CASE pc[h] # "idle"
  <2> DEFINE v == under[h]
             d == dir[v]
  <2>1. /\ v \in Activity /\ ProcOf[v] = ProcOf[h] /\ ~Running(v)
        /\ v \notin Handler /\ under'[h] = v /\ dir'[v] = d
        /\ pc[v] = pc'[v] /\ pc[v] \in ListedLabels
    BY <1>2, Frozen
  <2>2. /\ d # Nil /\ d \in Dir /\ ProcOf[h] \in Proc /\ owner'[d] = ProcOf[h]
        /\ target[d] # "unborn"
    BY <2>1, Held DEF ListedLabels, SignalInv, TypeOK, Types, Frames
  <2>3. /\ pc[h] \in {"hAcquire", "hTry", "hList"} => d \in active[ProcOf[h]]
        /\ pc[h] = "hClear" => d \in todo[h]
        /\ pc[h] = "hRmtree" => d \in todo[h] \/ d \notin fs \/ d \in Undeletable
        /\ pc[h] = "hForward" => d \notin fs \/ d \in Undeletable
    BY <1>2, <2>1 DEF SignalInv, Windows, Interrupted
  \* nobody brings the directory back
  <2>4. d \notin fs => d \notin fs'
    <3>1. ASSUME NEW b \in Activity, At(b, "extract"), dir[b] = d PROVE FALSE
      <4>1. b = v
        BY <2>1, <2>2, <3>1 DEF At, SignalInv, Base, SoleHolder, ListedLabels
      <4> QED
        BY <2>1, <3>1, <4>1 DEF At
    <3> QED
      BY <2>2, <3>1, DiskSteps DEF DiskStep
  \* nobody but this handler takes it off the registry
  <2>5. d \in active[ProcOf[h]] /\ pc[h] # "hClear" => d \in active'[ProcOf[h]]
    <3>1. ASSUME NEW b \in Activity, dir[b] = d, pc[b] = "unregisterLocked",
                 pc'[b] = "rmtree"
          PROVE  FALSE
      BY <2>1, <2>2, <3>1 DEF SignalInv, Base, SoleHolder, ListedLabels
    <3>2. ASSUME NEW m \in Activity, ProcOf[m] = ProcOf[h], At(m, "exitLocked")
          PROVE  FALSE
      <4>1. v = m
        BY <2>1, <3>2, ExitAlone DEF At, SignalInv, Base, ListedLabels
      <4> QED
        BY <2>1, <3>2, <4>1 DEF At
    <3>3. ASSUME NEW g \in Activity, At(g, "hClear"), pc[h] # "hClear" PROVE FALSE
      <4>1. g \in Handler /\ pc[g] # "idle"
        BY <3>3 DEF At, TypeOK, Frames
      <4> QED
        BY <1>2, <3>3, <4>1 DEF At, SignalInv, Windows, OneHandler
    <3> QED
      BY <2>2, <3>1, <3>2, <3>3, RegistrySteps DEF RegistryStep
  <2>6. HandlerCourse(h) /\ pc'[h] # "hRaise"
    BY HandlerCourses DEF OneHandler
  <2>7. CASE pc'[h] \in {"hAcquire", "hTry", "hList"}
    BY <1>2, <2>1, <2>3, <2>5, <2>6, <2>7 DEF HandlerCourse
  <2>8. CASE pc'[h] = "hClear"
    BY <1>2, <2>1, <2>3, <2>6, <2>8 DEF HandlerCourse
  <2>9. CASE pc'[h] = "hRmtree"
    BY <1>2, <2>1, <2>3, <2>4, <2>6, <2>9 DEF HandlerCourse
  <2>10. CASE pc'[h] = "hForward"
    BY <1>2, <2>1, <2>3, <2>4, <2>6, <2>10 DEF HandlerCourse
  <2> QED
    BY <2>1, <2>7, <2>8, <2>9, <2>10
<1> QED
  BY <1>1, <1>2

\* A frame that holds a directory goes on, or hands it over, or removes it.
LEMMA FrameOutcome ==
  ASSUME TypeOK, TypeOK', Base, [Next]_vars, NEW a \in Activity,
         pc[a] \in DirLabels, owner'[dir[a]] # Nil
  PROVE  \/ dir'[a] = dir[a] /\ pc'[a] \in DirLabels
         \/ dir[a] \in armed'
         \/ pc[a] = "rmtree" /\ dir[a] \notin fs' \ Undeletable
         \/ Thrown(a)
<1>1. dir[a] # Nil /\ pc[a] # "targetLock" /\ pc[a] # "idle"
  BY DEF TypeOK, Types, Frames
<1>2. FrameStep(a) /\ LeaveStep(a)
  BY FrameSteps, LeaveSteps
<1>3. CASE dir'[a] = Nil
  BY <1>1, <1>2, <1>3 DEF LeaveStep, At
<1>4. CASE dir'[a] # Nil
  BY <1>1, <1>2, <1>4 DEF FrameStep
<1> QED
  BY <1>3, <1>4

\* A late entry is its maker's or its target's.
LEMMA LateEntriesNext ==
  ASSUME MaxSignals <= 1, TypeOK, TypeOK', SignalInv, [Next]_vars
  PROVE  LateEntries'
<1> SUFFICES ASSUME NEW h \in Handler, pc'[h] = "hClear",
                    NEW d \in active'[ProcOf[h]] \ todo'[h], d \notin armed'
             PROVE  \E a \in Activity : /\ ProcOf[a] = ProcOf[h] /\ dir'[a] = d
                                        /\ pc'[a] \in DirLabels
  BY DEF LateEntries
<1>1. ProcOf[h] \in Proc /\ d \in Dir /\ d # Nil
  BY DEF TypeOK, Types
<1>2. HandlerCourse(h)
  BY HandlerCourses
<1>3. pc[h] = "hClear" /\ todo'[h] = todo[h]
  BY <1>2 DEF HandlerCourse
<1>4. CASE d \notin active[ProcOf[h]]
  BY <1>1, <1>4, RegistrySteps DEF RegistryStep
<1>5. CASE d \in active[ProcOf[h]]
  <2>1. owner[d] = ProcOf[h] /\ owner'[d] = ProcOf[h]
    BY <1>1, <1>5, RegistryNext DEF SignalInv, Base, Registry
  <2>2. owner'[d] # Nil
    BY <1>1, <2>1
  <2>3. CASE d \in armed
    BY <1>1, <2>1, <2>2, <2>3, ArmedSteps DEF ArmedStep
  <2>4. ASSUME NEW a \in Activity, ProcOf[a] = ProcOf[h], dir[a] = d,
               pc[a] \in DirLabels
        PROVE  dir'[a] = d /\ pc'[a] \in DirLabels
    <3>1. pc[a] # "rmtree"
      BY <1>5, <2>4 DEF SignalInv, Base, Registry
    <3>2. ~Thrown(a)
      <4>1. ~Raise(a)
        BY <1>3 DEF Raise, SignalInv, Windows, OneHandler, TypeOK, Types
      <4>2. ASSUME NEW g \in Activity, Forward(g) PROVE FALSE
        <5>1. pc[g] \in {"hForward", "hRaise"} /\ g \in Handler
          BY <4>2 DEF Forward, At, TypeOK, Types, Frames
        <5> QED
          BY <1>3, <5>1 DEF SignalInv, Windows, OneHandler
      <4> QED
        BY <4>1, <4>2 DEF Thrown
    <3> QED
      BY <2>2, <2>4, <3>1, <3>2, FrameOutcome DEF SignalInv
  <2> QED
    BY <1>3, <1>5, <2>3, <2>4 DEF SignalInv, Windows, LateEntries
<1> QED
  BY <1>4, <1>5

\* All of this holds when at most one signal arrives.
LEMMA SignalInvCorrect ==
  ASSUME MaxSignals <= 1
  PROVE  Spec => [](TypeOK /\ SignalInv)
<1>1. Init => SignalInv
  BY DEF Init, SignalInv, Windows, OneHandler, Begun, Interrupted, LateEntries,
     ShutdownInv, Listed, ListedLabels, Base, Births, Holders, SoleHolder, Armed,
     Registry, Exiting, MakingLabels, RemovalLabels, SweepLabels
<1>2. TypeOK /\ TypeOK' /\ SignalInv /\ [Next]_vars => Windows'
  BY OneHandlerNext, BegunNext, InterruptedNext, LateEntriesNext DEF Windows
<1>3. Init => Windows
  BY <1>1 DEF SignalInv
<1>4. SignalInv <=> Base /\ Windows /\ (signals = 0 => ShutdownInv /\ Listed)
  BY DEF SignalInv
<1>5. Calm => Listed
  BY DEF Calm
<1> QED
  BY <1>2, <1>3, <1>4, <1>5, CalmCorrect, TypeCorrect, PTL DEF Spec

\* One signal whose previous handler raises loses a directory only where it has
\* no record but an interruptible frame; anywhere else the handler has removed
\* it first. In any number of processes and threads, whatever the signal
\* interrupts, a collector run inside a critical section included.
THEOREM SignalLossOnlyInWindow ==
  ASSUME MaxSignals <= 1
  PROVE  Spec => LossOnlyInWindow
<1> DEFINE Kept == \A d \in fs \cap fs' :
                     (owner[d] # Nil /\ owner'[d] = owner[d] /\ Accounted(d) /\ ~Accounted(d)')
                     => InWindow(d) \/ d \in Undeletable
<1>1. TypeOK /\ TypeOK' /\ SignalInv /\ SignalInv' /\ [Next]_vars => Kept
  <2> SUFFICES ASSUME TypeOK, TypeOK', SignalInv, SignalInv', [Next]_vars,
                      NEW d \in fs \cap fs', owner[d] # Nil, owner'[d] = owner[d],
                      Accounted(d), ~Accounted(d)', d \notin Undeletable
               PROVE  InWindow(d)
    OBVIOUS
  <2> DEFINE p == owner[d]
  <2>1. d \in Dir /\ d # Nil /\ p \in Proc /\ owner'[d] # Nil
    BY DEF TypeOK, Types
  \* the accounts that would contradict the loss
  <2>2. d \notin active'[p] /\ d \notin armed'
    BY DEF Accounted
  <2>3. \A a \in Activity : ProcOf[a] = p =>
          /\ ~ (dir'[a] = d /\ pc'[a] \in DirLabels)
          /\ ~ (d \in todo'[a] /\ pc'[a] \in {"hClear", "hRmtree", "exitRmtree"})
    BY DEF Accounted
  <2>4. d \notin armed
    BY <2>1, <2>2, <2>3, ArmedSteps DEF ArmedStep
  <2>5. ASSUME NEW a \in Activity, ProcOf[a] = p, dir[a] = d, pc[a] \in DirLabels
        PROVE  InWindow(d)
    <3>1. Thrown(a)
      BY <2>1, <2>2, <2>3, <2>5, FrameOutcome DEF SignalInv
    <3>2. CASE pc[a] \in ListedLabels
      <4>1. CASE Raise(a)
        <5>1. signals = 0
          BY <4>1 DEF Raise, TypeOK, Types
        <5>2. d \in active[p]
          BY <2>5, <3>2, <5>1 DEF SignalInv, Listed
        <5> QED
          BY <2>2, <4>1, <5>2 DEF Raise, Unwind
      <4>2. ASSUME NEW h \in Activity, under[h] = a, Forward(h) PROVE FALSE
        <5>1. pc[h] \in {"hForward", "hRaise"} /\ h \in Handler
          BY <4>2 DEF Forward, At, TypeOK, Types, Frames
        <5>2. pc[h] = "hForward"
          BY <5>1 DEF SignalInv, Windows, OneHandler
        <5> QED
          BY <2>5, <3>2, <4>2, <5>1, <5>2 DEF SignalInv, Windows, Interrupted
      <4> QED
        BY <3>1, <4>1, <4>2 DEF Thrown
    <3>3. CASE pc[a] \notin ListedLabels
      BY <2>5, <3>3 DEF InWindow, ListedLabels
    <3> QED
      BY <3>2, <3>3
  <2>6. ASSUME NEW a \in Activity, ProcOf[a] = p, d \in todo[a],
               pc[a] \in {"hClear", "hRmtree"}
        PROVE  FALSE
    <3>1. a \in Handler /\ HandlerCourse(a)
      BY <2>6, HandlerCourses DEF TypeOK, Frames
    <3>2. pc'[a] # "idle"
      BY <2>1, <2>6, <3>1 DEF HandlerCourse, At
    <3>3. pc'[a] # "hRaise"
      BY <3>1, <3>2 DEF SignalInv, Windows, OneHandler
    <3>4. d \in todo'[a] /\ pc'[a] \in {"hClear", "hRmtree"}
      BY <2>6, <3>1, <3>2, <3>3 DEF HandlerCourse
    <3> QED
      BY <2>3, <2>6, <3>4
  <2>7. CASE d \in active[p]
    <3>1. RegistryStep(p, d)
      BY <2>1, RegistrySteps
    <3>2. PICK h \in Activity : /\ ProcOf[h] = p /\ At(h, "hClear")
                                /\ UNCHANGED <<armed, dir, todo>>
                                /\ pc' = [pc EXCEPT ![h] = "hRmtree"]
      BY <2>1, <2>2, <2>3, <2>7, <3>1 DEF RegistryStep
    <3>3. h \in Handler /\ pc[h] = "hClear"
      BY <3>2 DEF At, TypeOK, Frames
    <3>4. d \notin todo[h]
      BY <2>6, <3>2, <3>3
    <3>5. PICK a \in Activity : ProcOf[a] = p /\ dir[a] = d /\ pc[a] \in DirLabels
      BY <2>4, <2>7, <3>2, <3>3, <3>4 DEF SignalInv, Windows, LateEntries
    <3> QED
      BY <2>5, <3>5
  <2>8. ASSUME NEW a \in Activity, ProcOf[a] = p, d \in todo[a],
               pc[a] = "exitRmtree"
        PROVE  InWindow(d)
    BY <2>8 DEF InWindow
  <2> QED
    BY <2>4, <2>5, <2>6, <2>7, <2>8 DEF Accounted
<1> QED
  BY <1>1, SignalInvCorrect, PTL DEF LossOnlyInWindow, Spec

=============================================================================
