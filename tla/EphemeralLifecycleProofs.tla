---------------------- MODULE EphemeralLifecycleProofs ----------------------
(***************************************************************************)
(* Proofs about EphemeralLifecycle, for every set of processes, threads,    *)
(* directories, handlers and finalizers.                                    *)
(***************************************************************************)
EXTENDS EphemeralLifecycle, TLAPS

USE ActivitiesDistinct, MainAssumption, EnvironmentAssumption
USE DEF Activity, Labels, IngestLabels, CleanupLabels, ExitLabels,
        HandlerLabels, DirLabels, TodoLabels, LastExitLabels,
        fsVars, tgtVars, flagVars, frames


-----------------------------------------------------------------------------
(* Type correctness                                                        *)

\* What an exception does to the frames it unwinds: the victim is a started
\* activity of the main thread, and the handlers that end are topmost.
UnwindSound(victim, gone) ==
  /\ victim \in Activity \ (gone \cup (Body \ Main))
  /\ victim \in Handler => pc[victim] # "idle"
  /\ gone \subseteq {h \in Handler : pc[h] \in {"hForward", "hRaise"} /\ OnTop(h)}

LEMMA LandingLabel ==
  ASSUME TypeOK, NEW v \in Activity \ (Body \ Main)
  PROVE  /\ Landing(v) \in {"hRaise", "idle", "exitSnapshot", "exitDone"}
         /\ Landing(v) = "hRaise" <=> v \in Handler
         /\ Landing(v) \in {"exitSnapshot", "exitDone"} => v \in Main
  BY DEF Landing, AtexitLabel, TypeOK, Types

LEMMA UnwindTypes ==
  ASSUME TypeOK, NEW v, NEW gone, UnwindSound(v, gone), Unwind(v, gone),
         signals' \in 0..MaxSignals
  PROVE  Types'
  BY LandingLabel DEF UnwindSound, Unwind, GivenBack, TypeOK, Types

LEMMA UnwindFrames ==
  ASSUME TypeOK, NEW v, NEW gone, UnwindSound(v, gone), Unwind(v, gone)
  PROVE  Frames'
<1> USE LandingLabel DEF UnwindSound, Unwind, TypeOK, Types, Frames, OnTop
<1>1. (\A a \in Activity : (dir[a] # Nil) <=> (pc[a] \in DirLabels \cup {"targetLock"}))'
  OBVIOUS
<1>2. (\A a \in Activity : todo[a] # {} => pc[a] \in TodoLabels)'
  OBVIOUS
<1>3. (\A a \in Activity : pc[a] \in HandlerLabels => a \in Handler)'
  OBVIOUS
<1>4. (\A a \in Activity : pc[a] \in IngestLabels \cup {"targetLock"} => a \in Body)'
  OBVIOUS
<1>5. (\A a \in Activity : pc[a] \in ExitLabels => a \in Main)'
  OBVIOUS
<1>6. (\A h \in Handler : pc[h] \in HandlerLabels \cup {"idle"})'
  OBVIOUS
<1>7. (\A h \in Handler : pc[h] # "idle" =>
                          under[h] \in Activity \ ({h} \cup (Body \ Main)))'
  OBVIOUS
<1>8. (\A a \in Activity : under[a] \in Handler => pc[under[a]] # "idle")'
  OBVIOUS
<1>12. (\A a \in Activity : under[a] # Nil => ProcOf[under[a]] = ProcOf[a])'
  OBVIOUS
<1>9. (\A a \in Activity : dir[a] # Nil => owner[dir[a]] = ProcOf[a])'
  OBVIOUS
<1>10. (\A d \in Dir : target[d] = "unborn" => owner[d] = Nil)'
  OBVIOUS
<1>11. (\A a \in Activity \ (Main \cup Handler) :
          status[ProcOf[a]] = "exiting" => pc[a] = "idle")'
  OBVIOUS
<1> QED
  BY <1>1, <1>2, <1>3, <1>4, <1>5, <1>6, <1>7, <1>8, <1>9, <1>10, <1>11,
     <1>12, Zenon
  DEF Frames

LEMMA GoneTypes ==
  ASSUME TypeOK, NEW p \in Proc, NEW how \in {"exited", "killed"},
         ProcessGone(p, how), signals' \in 0..MaxSignals
  PROVE  Types'
  BY DEF ProcessGone, TypeOK, Types

LEMMA GoneFrames ==
  ASSUME TypeOK, NEW p \in Proc, NEW how \in {"exited", "killed"},
         ProcessGone(p, how)
  PROVE  Frames'
<1> USE DEF ProcessGone, TypeOK, Types, Frames
<1>1. (\A a \in Activity : (dir[a] # Nil) <=> (pc[a] \in DirLabels \cup {"targetLock"}))'
  OBVIOUS
<1>2. (\A a \in Activity : todo[a] # {} => pc[a] \in TodoLabels)'
  OBVIOUS
<1>3. (\A a \in Activity : pc[a] \in HandlerLabels => a \in Handler)'
  OBVIOUS
<1>4. (\A a \in Activity : pc[a] \in IngestLabels \cup {"targetLock"} => a \in Body)'
  OBVIOUS
<1>5. (\A a \in Activity : pc[a] \in ExitLabels => a \in Main)'
  OBVIOUS
<1>6. (\A h \in Handler : pc[h] \in HandlerLabels \cup {"idle"})'
  OBVIOUS
<1>7. (\A h \in Handler : pc[h] # "idle" =>
                          under[h] \in Activity \ ({h} \cup (Body \ Main)))'
  OBVIOUS
<1>8. (\A a \in Activity : under[a] \in Handler => pc[under[a]] # "idle")'
  OBVIOUS
<1>12. (\A a \in Activity : under[a] # Nil => ProcOf[under[a]] = ProcOf[a])'
  OBVIOUS
<1>9. (\A a \in Activity : dir[a] # Nil => owner[dir[a]] = ProcOf[a])'
  OBVIOUS
<1>10. (\A d \in Dir : target[d] = "unborn" => owner[d] = Nil)'
  OBVIOUS
<1>11. (\A a \in Activity \ (Main \cup Handler) :
          status[ProcOf[a]] = "exiting" => pc[a] = "idle")'
  OBVIOUS
<1> QED
  BY <1>1, <1>2, <1>3, <1>4, <1>5, <1>6, <1>7, <1>8, <1>9, <1>10, <1>11,
     <1>12, Zenon
  DEF Frames

\* A handler about to forward its signal may unwind what it interrupted.
LEMMA HandlerUnwinds ==
  ASSUME TypeOK, NEW h \in Activity, At(h, "hForward") \/ At(h, "hRaise")
  PROVE  UnwindSound(under[h], {h})
  BY DEF At, Running, UnwindSound, TypeOK, Types, Frames

\* So may a signal that no handler traps.
LEMMA MainUnwinds ==
  ASSUME TypeOK, NEW a \in Activity, OnMainThread(a), Running(a)
  PROVE  UnwindSound(a, {})
  BY DEF OnMainThread, Running, Started, UnwindSound, TypeOK, Types, Frames


\* Every action keeps the types.
LEMMA TypesNext == TypeOK /\ [Next]_vars => Types'
<1> SUFFICES ASSUME TypeOK, [Next]_vars PROVE Types'
  OBVIOUS
<1>1. ASSUME NEW a \in Body, StartIngest(a) PROVE Types'
  BY <1>1 DEF StartIngest, At, Goto, Running, OnTop, Started, TypeOK, Types,
     Frames
<1>2. ASSUME NEW a \in Body, StartExit(a) PROVE Types'
  BY <1>2 DEF StartExit, Goto, Running, OnTop, Started, TypeOK, Types, Frames
<1>3. ASSUME NEW a \in Body, NEW d \in Dir, StartCleanup(a, d) PROVE Types'
  BY <1>3 DEF StartCleanup, At, Goto, Running, OnTop, Started, TypeOK, Types,
     Frames
<1>4. ASSUME NEW d \in Dir, Drop(d) PROVE Types'
  BY <1>4 DEF Drop, TypeOK, Types, Frames
<1>5. ASSUME NEW d \in Dir, Age(d) PROVE Types'
  BY <1>5 DEF Age, TypeOK, Types, Frames
<1>6. ASSUME NEW p \in Proc, Kill(p) PROVE Types'
  BY <1>6, GoneTypes DEF Kill, TypeOK, Types
<1>7. ASSUME NEW p \in Proc, Restart(p) PROVE Types'
  BY <1>7 DEF Restart, Alive, TypeOK, Types, Frames
<1>8. ASSUME NEW a \in Activity, UntrappedSignal(a) PROVE Types'
  <2>1. signals' \in 0..MaxSignals
    BY <1>8 DEF UntrappedSignal, TypeOK, Types
  <2>2. CASE Unwind(a, {})
    BY <1>8, <2>1, <2>2, MainUnwinds, UnwindTypes
    DEF UntrappedSignal, UnwindSound, OnMainThread, Running, Started
  <2>3. CASE ProcessGone(ProcOf[a], "killed")
    BY <2>1, <2>3, GoneTypes
  <2> QED
    BY <1>8, <2>2, <2>3 DEF UntrappedSignal
<1>9. ASSUME NEW h \in Activity, NEW a \in Activity, Signal(h, a) PROVE Types'
  BY <1>9 DEF Signal, Goto, OnMainThread, Running, OnTop, Started, TypeOK,
     Types, Frames
<1>10. ASSUME NEW f \in Activity, NEW a \in Activity, NEW d \in Dir,
   Collect(f, a, d) PROVE Types'
  BY <1>10 DEF Collect, Goto, Blocked, TargetLocked, Running, OnTop, Started,
     TypeOK, Types, Frames
<1>11. ASSUME NEW a \in Activity, SweepCheck(a) PROVE Types'
  BY <1>11 DEF SweepCheck, At, Goto, Running, OnTop, Started, TypeOK, Types,
     Frames
<1>12. ASSUME NEW a \in Activity, SweepNow(a) PROVE Types'
  BY <1>12 DEF SweepNow, At, Goto, Running, OnTop, Started, TypeOK, Types,
     Frames
<1>13. ASSUME NEW a \in Activity, SweepSnapshot(a) PROVE Types'
  BY <1>13 DEF SweepSnapshot, At, Lock, Goto, Running, OnTop, Started, TypeOK,
     Types, Frames
<1>14. ASSUME NEW a \in Activity, SweepLocked(a) PROVE Types'
  BY <1>14 DEF SweepLocked, At, Goto, Unlock, SweepSpares, Running, OnTop,
     Started, TypeOK, Types, Frames
<1>15. ASSUME NEW a \in Activity, SweepScan(a) PROVE Types'
  BY <1>15 DEF SweepScan, At, Goto, Rmtree, Running, OnTop, Started, TypeOK,
     Types, Frames
<1>16. ASSUME NEW a \in Activity, AtexitCheck(a) PROVE Types'
  BY <1>16 DEF AtexitCheck, At, Goto, Lock, Running, OnTop, Started, TypeOK,
     Types, Frames
<1>17. ASSUME NEW a \in Activity, AtexitLocked(a) PROVE Types'
  BY <1>17 DEF AtexitLocked, At, Goto, Unlock, Running, OnTop, Started,
     TypeOK, Types, Frames
<1>18. ASSUME NEW a \in Activity, TrapSignals(a) PROVE Types'
  BY <1>18 DEF TrapSignals, At, Goto, Running, OnTop, Started, TypeOK, Types,
     Frames
<1>19. ASSUME NEW a \in Activity, Mkdtemp(a) PROVE Types'
  BY <1>19 DEF Mkdtemp, At, Goto, Running, OnTop, Started, TypeOK, Types,
     Frames
<1>20. ASSUME NEW a \in Activity, Register(a) PROVE Types'
  BY <1>20 DEF Register, At, Lock, Goto, Running, OnTop, Started, TypeOK,
     Types, Frames
<1>21. ASSUME NEW a \in Activity, RegisterLocked(a) PROVE Types'
  BY <1>21 DEF RegisterLocked, At, Goto, Unlock, Running, OnTop, Started,
     TypeOK, Types, Frames
<1>22. ASSUME NEW a \in Activity, Extract(a) PROVE Types'
  BY <1>22 DEF Extract, At, Goto, Running, OnTop, Started, TypeOK, Types,
     Frames
<1>23. ASSUME NEW a \in Activity, TargetLock(a) PROVE Types'
  BY <1>23 DEF TargetLock, At, Goto, Return, TargetLocked, AfterCall, Running,
     OnTop, Started, TypeOK, Types, Frames
<1>24. ASSUME NEW a \in Activity, Unregister(a) PROVE Types'
  BY <1>24 DEF Unregister, At, Lock, Goto, Running, OnTop, Started, TypeOK,
     Types, Frames
<1>25. ASSUME NEW a \in Activity, UnregisterLocked(a) PROVE Types'
  BY <1>25 DEF UnregisterLocked, At, Goto, Unlock, Running, OnTop, Started,
     TypeOK, Types, Frames
<1>26. ASSUME NEW a \in Activity, RmtreeAndReturn(a) PROVE Types'
  BY <1>26 DEF RmtreeAndReturn, At, Return, Rmtree, Goto, AfterCall, Running,
     OnTop, Started, TypeOK, Types, Frames
<1>27. ASSUME NEW a \in Activity, ExitFinalizers(a) PROVE Types'
  BY <1>27 DEF ExitFinalizers, At, Goto, AtexitLabel, Running, OnTop, Started,
     TypeOK, Types, Frames
<1>28. ASSUME NEW a \in Activity, ExitSnapshot(a) PROVE Types'
  BY <1>28 DEF ExitSnapshot, At, Lock, Goto, Running, OnTop, Started, TypeOK,
     Types, Frames
<1>29. ASSUME NEW a \in Activity, ExitLocked(a) PROVE Types'
  BY <1>29 DEF ExitLocked, At, Goto, Unlock, Running, OnTop, Started, TypeOK,
     Types, Frames
<1>30. ASSUME NEW a \in Activity, ExitRmtree(a) PROVE Types'
  BY <1>30 DEF ExitRmtree, At, Goto, Rmtree, Running, OnTop, Started, TypeOK,
     Types, Frames
<1>31. ASSUME NEW a \in Activity, ExitDone(a) PROVE Types'
  BY <1>31, GoneTypes DEF ExitDone, TypeOK, Types
<1>32. ASSUME NEW h \in Activity, HAcquire(h) PROVE Types'
  BY <1>32 DEF HAcquire, At, Goto, Lock, Running, OnTop, Started, TypeOK,
     Types, Frames
<1>33. ASSUME NEW h \in Activity, HList(h) PROVE Types'
  BY <1>33 DEF HList, At, Goto, Running, OnTop, Started, TypeOK, Types, Frames
<1>39. ASSUME NEW h \in Activity, HTry(h) PROVE Types'
  BY <1>39 DEF HTry, At, Goto, Running, OnTop, Started, TypeOK, Types, Frames
<1>34. ASSUME NEW h \in Activity, HClear(h) PROVE Types'
  BY <1>34 DEF HClear, At, Goto, HandlerUnlock, Unlock, Running, OnTop,
     Started, TypeOK, Types, Frames
<1>35. ASSUME NEW h \in Activity, HRmtree(h) PROVE Types'
  BY <1>35 DEF HRmtree, At, Goto, Rmtree, Running, OnTop, Started, TypeOK,
     Types, Frames
<1>36. ASSUME NEW h \in Activity, HForward(h) PROVE Types'
  <2>1. CASE Unwind(under[h], {h}) /\ UNCHANGED signals
    BY <1>36, <2>1, HandlerUnwinds, UnwindTypes DEF HForward, TypeOK, Types
  <2>2. CASE ProcessGone(ProcOf[h], "killed") /\ UNCHANGED signals
    BY <2>2, GoneTypes DEF TypeOK, Types
  <2>3. CASE Return(h) /\ todo' = todo /\ UNCHANGED <<fsVars, tgtVars, active,
               registryLock, flagVars, status, signals>>
    BY <1>36, <2>3 DEF HForward, At, Running, OnTop, Started, Return, AfterCall,
                    Goto, TypeOK, Types, Frames
  <2> QED
    BY <1>36, <2>1, <2>2, <2>3 DEF HForward
<1>37. ASSUME NEW h \in Activity, HRaise(h) PROVE Types'
  BY <1>37, HandlerUnwinds, UnwindTypes DEF HRaise, TypeOK, Types
<1>38. CASE UNCHANGED vars
  BY <1>38 DEF vars, TypeOK, Types, Frames
<1> QED
  BY <1>1, <1>2, <1>3, <1>4, <1>5, <1>6, <1>7, <1>8, <1>9, <1>10, <1>11,
     <1>12, <1>13, <1>14, <1>15, <1>16, <1>17, <1>18, <1>19, <1>20, <1>21,
     <1>22, <1>23, <1>24, <1>25, <1>26, <1>27, <1>28, <1>29, <1>30, <1>31,
     <1>32, <1>33, <1>34, <1>35, <1>36, <1>37, <1>38, <1>39 DEF Next,
     Program, Environment, Step, IngestStep, CleanupStep, ExitStep, HandlerStep

\* Every action keeps the frames.
LEMMA FramesNext == TypeOK /\ [Next]_vars => Frames'
<1> SUFFICES ASSUME TypeOK, [Next]_vars PROVE Frames'
  OBVIOUS
<1>1. ASSUME NEW a \in Body, StartIngest(a) PROVE Frames'
  BY <1>1 DEF StartIngest, At, Goto, Running, OnTop, Started, TypeOK, Types,
     Frames
<1>2. ASSUME NEW a \in Body, StartExit(a) PROVE Frames'
  BY <1>2 DEF StartExit, Goto, Running, OnTop, Started, TypeOK, Types, Frames
<1>3. ASSUME NEW a \in Body, NEW d \in Dir, StartCleanup(a, d) PROVE Frames'
  BY <1>3 DEF StartCleanup, At, Goto, Running, OnTop, Started, TypeOK, Types,
     Frames
<1>4. ASSUME NEW d \in Dir, Drop(d) PROVE Frames'
  BY <1>4 DEF Drop, TypeOK, Types, Frames
<1>5. ASSUME NEW d \in Dir, Age(d) PROVE Frames'
  BY <1>5 DEF Age, TypeOK, Types, Frames
<1>6. ASSUME NEW p \in Proc, Kill(p) PROVE Frames'
  BY <1>6, GoneFrames DEF Kill, TypeOK, Types
<1>7. ASSUME NEW p \in Proc, Restart(p) PROVE Frames'
  BY <1>7 DEF Restart, Alive, TypeOK, Types, Frames
<1>8. ASSUME NEW a \in Activity, UntrappedSignal(a) PROVE Frames'
  <2>1. signals' \in 0..MaxSignals
    BY <1>8 DEF UntrappedSignal, TypeOK, Types
  <2>2. CASE Unwind(a, {})
    BY <1>8, <2>1, <2>2, MainUnwinds, UnwindFrames
    DEF UntrappedSignal, UnwindSound, OnMainThread, Running, Started
  <2>3. CASE ProcessGone(ProcOf[a], "killed")
    BY <2>1, <2>3, GoneFrames
  <2> QED
    BY <1>8, <2>2, <2>3 DEF UntrappedSignal
<1>9. ASSUME NEW h \in Activity, NEW a \in Activity, Signal(h, a) PROVE
   Frames'
  BY <1>9 DEF Signal, Goto, OnMainThread, Running, OnTop, Started, TypeOK,
     Types, Frames
<1>10. ASSUME NEW f \in Activity, NEW a \in Activity, NEW d \in Dir,
   Collect(f, a, d) PROVE Frames'
  BY <1>10 DEF Collect, Goto, Blocked, TargetLocked, Running, OnTop, Started,
     TypeOK, Types, Frames
<1>11. ASSUME NEW a \in Activity, SweepCheck(a) PROVE Frames'
  BY <1>11 DEF SweepCheck, At, Goto, Running, OnTop, Started, TypeOK, Types,
     Frames
<1>12. ASSUME NEW a \in Activity, SweepNow(a) PROVE Frames'
  BY <1>12 DEF SweepNow, At, Goto, Running, OnTop, Started, TypeOK, Types,
     Frames
<1>13. ASSUME NEW a \in Activity, SweepSnapshot(a) PROVE Frames'
  BY <1>13 DEF SweepSnapshot, At, Lock, Goto, Running, OnTop, Started, TypeOK,
     Types, Frames
<1>14. ASSUME NEW a \in Activity, SweepLocked(a) PROVE Frames'
  BY <1>14 DEF SweepLocked, At, Goto, Unlock, SweepSpares, Running, OnTop,
     Started, TypeOK, Types, Frames
<1>15. ASSUME NEW a \in Activity, SweepScan(a) PROVE Frames'
  BY <1>15 DEF SweepScan, At, Goto, Rmtree, Running, OnTop, Started, TypeOK,
     Types, Frames
<1>16. ASSUME NEW a \in Activity, AtexitCheck(a) PROVE Frames'
  BY <1>16 DEF AtexitCheck, At, Goto, Lock, Running, OnTop, Started, TypeOK,
     Types, Frames
<1>17. ASSUME NEW a \in Activity, AtexitLocked(a) PROVE Frames'
  BY <1>17 DEF AtexitLocked, At, Goto, Unlock, Running, OnTop, Started,
     TypeOK, Types, Frames
<1>18. ASSUME NEW a \in Activity, TrapSignals(a) PROVE Frames'
  BY <1>18 DEF TrapSignals, At, Goto, Running, OnTop, Started, TypeOK, Types,
     Frames
<1>19. ASSUME NEW a \in Activity, Mkdtemp(a) PROVE Frames'
  BY <1>19 DEF Mkdtemp, At, Goto, Running, OnTop, Started, TypeOK, Types,
     Frames
<1>20. ASSUME NEW a \in Activity, Register(a) PROVE Frames'
  BY <1>20 DEF Register, At, Lock, Goto, Running, OnTop, Started, TypeOK,
     Types, Frames
<1>21. ASSUME NEW a \in Activity, RegisterLocked(a) PROVE Frames'
  BY <1>21 DEF RegisterLocked, At, Goto, Unlock, Running, OnTop, Started,
     TypeOK, Types, Frames
<1>22. ASSUME NEW a \in Activity, Extract(a) PROVE Frames'
  BY <1>22 DEF Extract, At, Goto, Running, OnTop, Started, TypeOK, Types,
     Frames
<1>23. ASSUME NEW a \in Activity, TargetLock(a) PROVE Frames'
  BY <1>23 DEF TargetLock, At, Goto, Return, TargetLocked, AfterCall, Running,
     OnTop, Started, TypeOK, Types, Frames
<1>24. ASSUME NEW a \in Activity, Unregister(a) PROVE Frames'
  BY <1>24 DEF Unregister, At, Lock, Goto, Running, OnTop, Started, TypeOK,
     Types, Frames
<1>25. ASSUME NEW a \in Activity, UnregisterLocked(a) PROVE Frames'
  BY <1>25 DEF UnregisterLocked, At, Goto, Unlock, Running, OnTop, Started,
     TypeOK, Types, Frames
<1>26. ASSUME NEW a \in Activity, RmtreeAndReturn(a) PROVE Frames'
  BY <1>26 DEF RmtreeAndReturn, At, Return, Rmtree, Goto, AfterCall, Running,
     OnTop, Started, TypeOK, Types, Frames
<1>27. ASSUME NEW a \in Activity, ExitFinalizers(a) PROVE Frames'
  BY <1>27 DEF ExitFinalizers, At, Goto, AtexitLabel, Running, OnTop, Started,
     TypeOK, Types, Frames
<1>28. ASSUME NEW a \in Activity, ExitSnapshot(a) PROVE Frames'
  BY <1>28 DEF ExitSnapshot, At, Lock, Goto, Running, OnTop, Started, TypeOK,
     Types, Frames
<1>29. ASSUME NEW a \in Activity, ExitLocked(a) PROVE Frames'
  BY <1>29 DEF ExitLocked, At, Goto, Unlock, Running, OnTop, Started, TypeOK,
     Types, Frames
<1>30. ASSUME NEW a \in Activity, ExitRmtree(a) PROVE Frames'
  BY <1>30 DEF ExitRmtree, At, Goto, Rmtree, Running, OnTop, Started, TypeOK,
     Types, Frames
<1>31. ASSUME NEW a \in Activity, ExitDone(a) PROVE Frames'
  BY <1>31, GoneFrames DEF ExitDone, TypeOK, Types
<1>32. ASSUME NEW h \in Activity, HAcquire(h) PROVE Frames'
  BY <1>32 DEF HAcquire, At, Goto, Lock, Running, OnTop, Started, TypeOK,
     Types, Frames
<1>33. ASSUME NEW h \in Activity, HList(h) PROVE Frames'
  BY <1>33 DEF HList, At, Goto, Running, OnTop, Started, TypeOK, Types, Frames
<1>39. ASSUME NEW h \in Activity, HTry(h) PROVE Frames'
  BY <1>39 DEF HTry, At, Goto, Running, OnTop, Started, TypeOK, Types, Frames
<1>34. ASSUME NEW h \in Activity, HClear(h) PROVE Frames'
  BY <1>34 DEF HClear, At, Goto, HandlerUnlock, Unlock, Running, OnTop,
     Started, TypeOK, Types, Frames
<1>35. ASSUME NEW h \in Activity, HRmtree(h) PROVE Frames'
  BY <1>35 DEF HRmtree, At, Goto, Rmtree, Running, OnTop, Started, TypeOK,
     Types, Frames
<1>36. ASSUME NEW h \in Activity, HForward(h) PROVE Frames'
  <2>1. CASE Unwind(under[h], {h}) /\ UNCHANGED signals
    BY <1>36, <2>1, HandlerUnwinds, UnwindFrames DEF HForward, TypeOK, Types
  <2>2. CASE ProcessGone(ProcOf[h], "killed") /\ UNCHANGED signals
    BY <2>2, GoneFrames DEF TypeOK, Types
  <2>3. CASE Return(h) /\ todo' = todo /\ UNCHANGED <<fsVars, tgtVars, active,
               registryLock, flagVars, status, signals>>
    BY <1>36, <2>3 DEF HForward, At, Running, OnTop, Started, Return, AfterCall,
                    Goto, TypeOK, Types, Frames
  <2> QED
    BY <1>36, <2>1, <2>2, <2>3 DEF HForward
<1>37. ASSUME NEW h \in Activity, HRaise(h) PROVE Frames'
  BY <1>37, HandlerUnwinds, UnwindFrames DEF HRaise, TypeOK, Types
<1>38. CASE UNCHANGED vars
  BY <1>38 DEF vars, TypeOK, Types, Frames
<1> QED
  BY <1>1, <1>2, <1>3, <1>4, <1>5, <1>6, <1>7, <1>8, <1>9, <1>10, <1>11,
     <1>12, <1>13, <1>14, <1>15, <1>16, <1>17, <1>18, <1>19, <1>20, <1>21,
     <1>22, <1>23, <1>24, <1>25, <1>26, <1>27, <1>28, <1>29, <1>30, <1>31,
     <1>32, <1>33, <1>34, <1>35, <1>36, <1>37, <1>38, <1>39 DEF Next,
     Program, Environment, Step, IngestStep, CleanupStep, ExitStep, HandlerStep

\* Types and frames are right in every reachable state: in particular no
\* activity ever runs code, or holds locals, that are not its own.
THEOREM TypeCorrect == Spec => []TypeOK
<1>1. Init => TypeOK
  BY DEF Init, TypeOK, Types, Frames
<1>2. TypeOK /\ [Next]_vars => TypeOK'
  BY TypesNext, FramesNext DEF TypeOK
<1> QED
  BY <1>1, <1>2, PTL DEF Spec


-----------------------------------------------------------------------------
(* The registry lock                                                       *)

\* An exception gives back the lock of the code it unwinds and no other.
LEMMA UnwindLock ==
  ASSUME TypeOK, LockKept, NEW v, NEW gone, UnwindSound(v, gone),
         Unwind(v, gone)
  PROVE  LockKept'
<1> USE LandingLabel DEF UnwindSound, Unwind, GivenBack, LockedLabels,
         TypeOK, Types, LockKept
<1>1. (\A a \in Activity : pc[a] \in LockedLabels => registryLock[ProcOf[a]] = a)'
  OBVIOUS
<1>2. ASSUME NEW p \in Proc, (registryLock[p] \notin {Orphan, Nil})'
      PROVE (/\ ProcOf[registryLock[p]] = p
             /\ pc[registryLock[p]] \in LockedLabels \cup {"hTry", "hList", "hClear"})'
  BY <1>2
<1> QED
  BY <1>1, <1>2, Zenon DEF LockKept

LEMMA GoneLock ==
  ASSUME TypeOK, LockKept, NEW p \in Proc, NEW how, ProcessGone(p, how)
  PROVE  LockKept'
  BY DEF ProcessGone, LockedLabels, TypeOK, Types, LockKept


\* Every action keeps the lock discipline.
LEMMA LockNext == TypeOK /\ LockKept /\ [Next]_vars => LockKept'
<1> SUFFICES ASSUME TypeOK, LockKept, [Next]_vars PROVE LockKept'
  OBVIOUS
<1>1. ASSUME NEW a \in Body, StartIngest(a) PROVE LockKept'
  BY <1>1 DEF StartIngest, At, Goto, Running, OnTop, Started, LockedLabels,
     LockKept, TypeOK, Types, Frames
<1>2. ASSUME NEW a \in Body, StartExit(a) PROVE LockKept'
  BY <1>2 DEF StartExit, Goto, Running, OnTop, Started, LockedLabels,
     LockKept, TypeOK, Types, Frames
<1>3. ASSUME NEW a \in Body, NEW d \in Dir, StartCleanup(a, d) PROVE
   LockKept'
  BY <1>3 DEF StartCleanup, At, Goto, Running, OnTop, Started, LockedLabels,
     LockKept, TypeOK, Types, Frames
<1>4. ASSUME NEW d \in Dir, Drop(d) PROVE LockKept'
  BY <1>4 DEF Drop, LockedLabels, LockKept, TypeOK, Types, Frames
<1>5. ASSUME NEW d \in Dir, Age(d) PROVE LockKept'
  BY <1>5 DEF Age, LockedLabels, LockKept, TypeOK, Types, Frames
<1>6. ASSUME NEW p \in Proc, Kill(p) PROVE LockKept'
  BY <1>6, GoneLock DEF Kill, TypeOK, Types
<1>7. ASSUME NEW p \in Proc, Restart(p) PROVE LockKept'
  BY <1>7 DEF Restart, Alive, LockedLabels, LockKept, TypeOK, Types,
     Frames
<1>8. ASSUME NEW a \in Activity, UntrappedSignal(a) PROVE LockKept'
  <2>1. signals' \in 0..MaxSignals
    BY <1>8 DEF UntrappedSignal, TypeOK, Types
  <2>2. CASE Unwind(a, {})
    BY <1>8, <2>1, <2>2, MainUnwinds, UnwindLock
    DEF UntrappedSignal, UnwindSound, OnMainThread, Running, Started
  <2>3. CASE ProcessGone(ProcOf[a], "killed")
    BY <2>1, <2>3, GoneLock
  <2> QED
    BY <1>8, <2>2, <2>3 DEF UntrappedSignal
<1>9. ASSUME NEW h \in Activity, NEW a \in Activity, Signal(h, a) PROVE
   LockKept'
  BY <1>9 DEF Signal, Goto, OnMainThread, Running, OnTop, Started,
     LockedLabels, LockKept, TypeOK, Types, Frames
<1>10. ASSUME NEW f \in Activity, NEW a \in Activity, NEW d \in Dir,
   Collect(f, a, d) PROVE LockKept'
  BY <1>10 DEF Collect, Goto, Blocked, TargetLocked, Running, OnTop, Started,
     LockedLabels, LockKept, TypeOK, Types, Frames
<1>11. ASSUME NEW a \in Activity, SweepCheck(a) PROVE LockKept'
  BY <1>11 DEF SweepCheck, At, Goto, Running, OnTop, Started, LockedLabels,
     LockKept, TypeOK, Types, Frames
<1>12. ASSUME NEW a \in Activity, SweepNow(a) PROVE LockKept'
  BY <1>12 DEF SweepNow, At, Goto, Running, OnTop, Started, LockedLabels,
     LockKept, TypeOK, Types, Frames
<1>13. ASSUME NEW a \in Activity, SweepSnapshot(a) PROVE LockKept'
  BY <1>13 DEF SweepSnapshot, At, Lock, Goto, Running, OnTop, Started,
     LockedLabels, LockKept, TypeOK, Types, Frames
<1>14. ASSUME NEW a \in Activity, SweepLocked(a) PROVE LockKept'
  BY <1>14 DEF SweepLocked, At, Goto, Unlock, SweepSpares, Running, OnTop,
     Started, LockedLabels, LockKept, TypeOK, Types, Frames
<1>15. ASSUME NEW a \in Activity, SweepScan(a) PROVE LockKept'
  BY <1>15 DEF SweepScan, At, Goto, Rmtree, Running, OnTop, Started,
     LockedLabels, LockKept, TypeOK, Types, Frames
<1>16. ASSUME NEW a \in Activity, AtexitCheck(a) PROVE LockKept'
  BY <1>16 DEF AtexitCheck, At, Goto, Lock, Running, OnTop, Started,
     LockedLabels, LockKept, TypeOK, Types, Frames
<1>17. ASSUME NEW a \in Activity, AtexitLocked(a) PROVE LockKept'
  BY <1>17 DEF AtexitLocked, At, Goto, Unlock, Running, OnTop, Started,
     LockedLabels, LockKept, TypeOK, Types, Frames
<1>18. ASSUME NEW a \in Activity, TrapSignals(a) PROVE LockKept'
  BY <1>18 DEF TrapSignals, At, Goto, Running, OnTop, Started, LockedLabels,
     LockKept, TypeOK, Types, Frames
<1>19. ASSUME NEW a \in Activity, Mkdtemp(a) PROVE LockKept'
  BY <1>19 DEF Mkdtemp, At, Goto, Running, OnTop, Started, LockedLabels,
     LockKept, TypeOK, Types, Frames
<1>20. ASSUME NEW a \in Activity, Register(a) PROVE LockKept'
  BY <1>20 DEF Register, At, Lock, Goto, Running, OnTop, Started,
     LockedLabels, LockKept, TypeOK, Types, Frames
<1>21. ASSUME NEW a \in Activity, RegisterLocked(a) PROVE LockKept'
  BY <1>21 DEF RegisterLocked, At, Goto, Unlock, Running, OnTop, Started,
     LockedLabels, LockKept, TypeOK, Types, Frames
<1>22. ASSUME NEW a \in Activity, Extract(a) PROVE LockKept'
  BY <1>22 DEF Extract, At, Goto, Running, OnTop, Started, LockedLabels,
     LockKept, TypeOK, Types, Frames
<1>23. ASSUME NEW a \in Activity, TargetLock(a) PROVE LockKept'
  BY <1>23 DEF TargetLock, At, Goto, Return, TargetLocked, AfterCall, Running,
     OnTop, Started, LockedLabels, LockKept, TypeOK, Types, Frames
<1>24. ASSUME NEW a \in Activity, Unregister(a) PROVE LockKept'
  BY <1>24 DEF Unregister, At, Lock, Goto, Running, OnTop, Started,
     LockedLabels, LockKept, TypeOK, Types, Frames
<1>25. ASSUME NEW a \in Activity, UnregisterLocked(a) PROVE LockKept'
  BY <1>25 DEF UnregisterLocked, At, Goto, Unlock, Running, OnTop, Started,
     LockedLabels, LockKept, TypeOK, Types, Frames
<1>26. ASSUME NEW a \in Activity, RmtreeAndReturn(a) PROVE LockKept'
  BY <1>26 DEF RmtreeAndReturn, At, Return, Rmtree, Goto, AfterCall, Running,
     OnTop, Started, LockedLabels, LockKept, TypeOK, Types, Frames
<1>27. ASSUME NEW a \in Activity, ExitFinalizers(a) PROVE LockKept'
  BY <1>27 DEF ExitFinalizers, At, Goto, AtexitLabel, Running, OnTop, Started,
     LockedLabels, LockKept, TypeOK, Types, Frames
<1>28. ASSUME NEW a \in Activity, ExitSnapshot(a) PROVE LockKept'
  BY <1>28 DEF ExitSnapshot, At, Lock, Goto, Running, OnTop, Started,
     LockedLabels, LockKept, TypeOK, Types, Frames
<1>29. ASSUME NEW a \in Activity, ExitLocked(a) PROVE LockKept'
  BY <1>29 DEF ExitLocked, At, Goto, Unlock, Running, OnTop, Started,
     LockedLabels, LockKept, TypeOK, Types, Frames
<1>30. ASSUME NEW a \in Activity, ExitRmtree(a) PROVE LockKept'
  BY <1>30 DEF ExitRmtree, At, Goto, Rmtree, Running, OnTop, Started,
     LockedLabels, LockKept, TypeOK, Types, Frames
<1>31. ASSUME NEW a \in Activity, ExitDone(a) PROVE LockKept'
  BY <1>31, GoneLock DEF ExitDone, TypeOK, Types
<1>32. ASSUME NEW h \in Activity, HAcquire(h) PROVE LockKept'
  BY <1>32 DEF HAcquire, At, Goto, Lock, Running, OnTop, Started,
     LockedLabels, LockKept, TypeOK, Types, Frames
<1>33. ASSUME NEW h \in Activity, HList(h) PROVE LockKept'
  BY <1>33 DEF HList, At, Goto, Running, OnTop, Started, LockedLabels,
     LockKept, TypeOK, Types, Frames
<1>39. ASSUME NEW h \in Activity, HTry(h) PROVE LockKept'
  BY <1>39 DEF HTry, At, Goto, Running, OnTop, Started, LockedLabels,
     LockKept, TypeOK, Types, Frames
<1>34. ASSUME NEW h \in Activity, HClear(h) PROVE LockKept'
  BY <1>34 DEF HClear, At, Goto, HandlerUnlock, Unlock, Running, OnTop,
     Started, LockedLabels, LockKept, TypeOK, Types, Frames
<1>35. ASSUME NEW h \in Activity, HRmtree(h) PROVE LockKept'
  BY <1>35 DEF HRmtree, At, Goto, Rmtree, Running, OnTop, Started,
     LockedLabels, LockKept, TypeOK, Types, Frames
<1>36. ASSUME NEW h \in Activity, HForward(h) PROVE LockKept'
  <2>1. CASE Unwind(under[h], {h}) /\ UNCHANGED signals
    BY <1>36, <2>1, HandlerUnwinds, UnwindLock DEF HForward, TypeOK, Types
  <2>2. CASE ProcessGone(ProcOf[h], "killed") /\ UNCHANGED signals
    BY <2>2, GoneLock DEF TypeOK, Types
  <2>3. CASE Return(h) /\ todo' = todo /\ UNCHANGED <<fsVars, tgtVars, active,
               registryLock, flagVars, status, signals>>
    BY <1>36, <2>3 DEF HForward, At, Running, OnTop, Started, Return, AfterCall,
                    Goto, TypeOK, Types, Frames, LockKept, LockedLabels
  <2> QED
    BY <1>36, <2>1, <2>2, <2>3 DEF HForward
<1>37. ASSUME NEW h \in Activity, HRaise(h) PROVE LockKept'
  BY <1>37, HandlerUnwinds, UnwindLock DEF HRaise, TypeOK, Types
<1>38. CASE UNCHANGED vars
  BY <1>38 DEF vars, LockedLabels, LockKept, TypeOK, Types, Frames
<1> QED
  BY <1>1, <1>2, <1>3, <1>4, <1>5, <1>6, <1>7, <1>8, <1>9, <1>10, <1>11,
     <1>12, <1>13, <1>14, <1>15, <1>16, <1>17, <1>18, <1>19, <1>20, <1>21,
     <1>22, <1>23, <1>24, <1>25, <1>26, <1>27, <1>28, <1>29, <1>30, <1>31,
     <1>32, <1>33, <1>34, <1>35, <1>36, <1>37, <1>38, <1>39 DEF Next,
     Program, Environment, Step, IngestStep, CleanupStep, ExitStep, HandlerStep

\* How many signals it takes: one to start a handler, a second to interrupt it,
\* and only an interrupted handler can end with the lock.
SignalDepth ==
  /\ \A h \in Handler : pc[h] # "idle" => signals > 0
  /\ \A h \in Handler : under[h] \in Handler => signals > 1
  /\ \A p \in Proc : registryLock[p] = Orphan => signals > 1

\* Steps that start no handler and leave every lock with an activity or free.
StartsNoHandler ==
  /\ signals' >= signals
  /\ \A h \in Handler : pc'[h] # "idle" => pc[h] # "idle"
  /\ \A h \in Handler : under'[h] \in {under[h], Nil}
  /\ \A p \in Proc : registryLock'[p] = Orphan => registryLock[p] = Orphan

LEMMA DepthKept ==
  ASSUME TypeOK, SignalDepth, StartsNoHandler, signals' \in Nat
  PROVE  SignalDepth'
<1> USE DEF StartsNoHandler, SignalDepth, TypeOK, Types
<1>1. (\A h \in Handler : pc[h] # "idle" => signals > 0)'
  OBVIOUS
<1>2. (\A h \in Handler : under[h] \in Handler => signals > 1)'
  OBVIOUS
<1>3. (\A p \in Proc : registryLock[p] = Orphan => signals > 1)'
  OBVIOUS
<1> QED
  BY <1>1, <1>2, <1>3, Zenon DEF SignalDepth

\* An exception leaves the lock to nobody only from a handler it unwinds.
LEMMA UnwindDepth ==
  ASSUME TypeOK, SignalDepth, NEW v, NEW gone, UnwindSound(v, gone),
         Unwind(v, gone), signals' \in Nat, signals' >= signals,
         v \in Handler => signals' > 1
  PROVE  SignalDepth'
<1> USE LandingLabel DEF UnwindSound, Unwind, GivenBack, TypeOK, Types, Frames,
        SignalDepth
<1>1. (\A h \in Handler : pc[h] # "idle" => signals > 0)'
  OBVIOUS
<1>2. (\A h \in Handler : under[h] \in Handler => signals > 1)'
  OBVIOUS
<1>3. (\A p \in Proc : registryLock[p] = Orphan => signals > 1)'
  OBVIOUS
<1> QED
  BY <1>1, <1>2, <1>3, Zenon DEF SignalDepth

\* Every action keeps the depth.
LEMMA DepthNext == TypeOK /\ SignalDepth /\ [Next]_vars => SignalDepth'
<1> SUFFICES ASSUME TypeOK, SignalDepth, [Next]_vars PROVE SignalDepth'
  OBVIOUS
<1>0. signals' \in Nat
  BY TypesNext DEF TypeOK, Types
<1>1. CASE Program
  <2>1. StartsNoHandler
    BY <1>1 DEF Program, StartIngest, StartExit, StartCleanup, At, Goto,
       StartsNoHandler, TypeOK, Types
  <2> QED
    BY <1>0, <2>1, DepthKept
<1>2. ASSUME NEW p \in Proc, NEW how \in {"exited", "killed"},
             ProcessGone(p, how), signals' >= signals
      PROVE  SignalDepth'
  <2>1. StartsNoHandler
    BY <1>2 DEF ProcessGone, StartsNoHandler, TypeOK, Types
  <2> QED
    BY <1>0, <2>1, DepthKept
<1>3. ASSUME NEW d \in Dir, Drop(d) \/ Age(d) PROVE SignalDepth'
  <2>1. StartsNoHandler
    BY <1>3 DEF Drop, Age, StartsNoHandler, TypeOK, Types
  <2> QED
    BY <1>0, <2>1, DepthKept
<1>4. ASSUME NEW p \in Proc, Restart(p) PROVE SignalDepth'
  <2>1. StartsNoHandler
    BY <1>4 DEF Restart, StartsNoHandler, TypeOK, Types
  <2> QED
    BY <1>0, <2>1, DepthKept
<1>5. ASSUME NEW f \in Activity, NEW a \in Activity, NEW d \in Dir,
             Collect(f, a, d)
      PROVE  SignalDepth'
  <2>1. StartsNoHandler
    BY <1>5 DEF Collect, Goto, StartsNoHandler, TypeOK, Types
  <2> QED
    BY <1>0, <2>1, DepthKept
<1>6. ASSUME NEW a \in Activity, UntrappedSignal(a) PROVE SignalDepth'
  <2>1. signals' = signals + 1 /\ OnMainThread(a) /\ Running(a)
    BY <1>6 DEF UntrappedSignal
  <2>2. CASE Unwind(a, {})
    <3>1. a \in Handler => signals' > 1
      BY <2>1 DEF Running, Started, SignalDepth, TypeOK, Types
    <3>2. signals' >= signals
      BY <2>1 DEF TypeOK, Types
    <3> QED
      BY <1>0, <2>1, <2>2, <3>1, <3>2, MainUnwinds, UnwindDepth
  <2>3. CASE ProcessGone(ProcOf[a], "killed")
    BY <1>2, <2>1, <2>3 DEF TypeOK, Types
  <2> QED
    BY <1>6, <2>2, <2>3 DEF UntrappedSignal
<1>7. ASSUME NEW h \in Activity, NEW a \in Activity, Signal(h, a)
      PROVE  SignalDepth'
  <2> USE <1>7 DEF Signal, Goto, Running, Started, SignalDepth, TypeOK, Types
  <2>1. (\A g \in Handler : pc[g] # "idle" => signals > 0)'
    OBVIOUS
  <2>2. (\A g \in Handler : under[g] \in Handler => signals > 1)'
    OBVIOUS
  <2>3. (\A p \in Proc : registryLock[p] = Orphan => signals > 1)'
    OBVIOUS
  <2> QED
    BY <2>1, <2>2, <2>3, Zenon DEF SignalDepth
<1>8. ASSUME NEW a \in Activity, IngestStep(a) PROVE SignalDepth'
  <2>1. StartsNoHandler
    BY <1>8 DEF IngestStep, SweepCheck, SweepNow, SweepSnapshot, SweepLocked,
       SweepScan, AtexitCheck, AtexitLocked, TrapSignals, Mkdtemp, Register,
       RegisterLocked, Extract, At, Goto, Lock, Unlock, StartsNoHandler, TypeOK,
       Types, Frames
  <2> QED
    BY <1>0, <2>1, DepthKept
<1>9. ASSUME NEW a \in Activity, CleanupStep(a) PROVE SignalDepth'
  <2>1. StartsNoHandler
    BY <1>9 DEF CleanupStep, TargetLock, Unregister, UnregisterLocked,
       RmtreeAndReturn, Return, AfterCall, At, Goto, Lock, Unlock,
       StartsNoHandler, TypeOK, Types, Frames
  <2> QED
    BY <1>0, <2>1, DepthKept
<1>10. ASSUME NEW a \in Activity, ExitDone(a) PROVE SignalDepth'
  BY <1>2, <1>10 DEF ExitDone, TypeOK, Types
<1>11. ASSUME NEW a \in Activity,
              \/ ExitFinalizers(a) \/ ExitSnapshot(a) \/ ExitLocked(a)
              \/ ExitRmtree(a)
       PROVE  SignalDepth'
  <2>1. StartsNoHandler
    BY <1>11 DEF ExitFinalizers, ExitSnapshot, ExitLocked, ExitRmtree, At, Goto,
       Lock, Unlock, StartsNoHandler, TypeOK, Types, Frames
  <2> QED
    BY <1>0, <2>1, DepthKept
<1>12. ASSUME NEW h \in Activity,
              HAcquire(h) \/ HTry(h) \/ HList(h) \/ HClear(h) \/ HRmtree(h)
       PROVE  SignalDepth'
  <2>1. StartsNoHandler
    BY <1>12 DEF HAcquire, HTry, HList, HClear, HRmtree, HandlerUnlock, At, Goto,
       Lock, Unlock, StartsNoHandler, TypeOK, Types, Frames
  <2> QED
    BY <1>0, <2>1, DepthKept
<1>13. ASSUME NEW h \in Activity, At(h, "hForward") \/ At(h, "hRaise"),
              Unwind(under[h], {h}), UNCHANGED signals
       PROVE  SignalDepth'
  <2>1. h \in Handler
    BY <1>13 DEF At, TypeOK, Types, Frames
  <2>2. under[h] \in Handler => signals' > 1
    BY <1>13, <2>1 DEF SignalDepth
  <2>3. signals' >= signals
    BY <1>13 DEF TypeOK, Types
  <2> QED
    BY <1>0, <1>13, <2>2, <2>3, HandlerUnwinds, UnwindDepth
<1>14. ASSUME NEW h \in Activity, HForward(h) PROVE SignalDepth'
  <2>1. CASE Unwind(under[h], {h})
    BY <1>13, <1>14, <2>1 DEF HForward
  <2>2. CASE ProcessGone(ProcOf[h], "killed")
    BY <1>2, <1>14, <2>2 DEF HForward, TypeOK, Types
  <2>3. CASE Return(h) /\ UNCHANGED registryLock
    <3>1. StartsNoHandler
      BY <1>14, <2>3 DEF HForward, At, Return, Goto, StartsNoHandler, TypeOK,
         Types, Frames
    <3> QED
      BY <1>0, <3>1, DepthKept
  <2> QED
    BY <1>14, <2>1, <2>2, <2>3 DEF HForward
<1>15. ASSUME NEW h \in Activity, HRaise(h) PROVE SignalDepth'
  BY <1>13, <1>15 DEF HRaise
<1>16. ASSUME NEW p \in Proc, Kill(p) PROVE SignalDepth'
  BY <1>2, <1>16 DEF Kill, TypeOK, Types
<1>17. CASE UNCHANGED vars
  <2>1. StartsNoHandler
    BY <1>17 DEF vars, StartsNoHandler, TypeOK, Types
  <2> QED
    BY <1>0, <2>1, DepthKept
<1> QED
  BY <1>1, <1>3, <1>4, <1>5, <1>6, <1>7, <1>8, <1>9, <1>10, <1>11, <1>12,
     <1>14, <1>15, <1>16, <1>17
  DEF Next, Environment, Step, ExitStep, HandlerStep

\* The registry lock is with the activity inside the critical section, however
\* threads, collector runs, signals and the exceptions they raise interleave; it
\* takes a second signal for anybody to end without giving it back.
THEOREM LockCorrect == Spec => []LockDiscipline
<1>1. Init => LockKept /\ SignalDepth
  BY DEF Init, LockKept, LockedLabels, SignalDepth
<1>2. TypeOK /\ LockKept /\ [Next]_vars => LockKept'
  BY LockNext
<1>3. TypeOK /\ SignalDepth /\ [Next]_vars => SignalDepth'
  BY DepthNext
<1>4. LockKept /\ SignalDepth => LockDiscipline
  BY DEF LockDiscipline, SignalDepth
<1> QED
  BY <1>1, <1>2, <1>3, <1>4, TypeCorrect, PTL DEF Spec


-----------------------------------------------------------------------------
(* Nothing is lost while no signal arrives                                 *)

\* The order of registration and shutdown: the registry is only filled after
\* the atexit callback is in place, the exit callbacks run in their order, and
\* what each of them has emptied stays empty.
ShutdownInv ==
  /\ \A h \in Handler : pc[h] = "idle"
  /\ \A p \in Proc : active[p] # {} => atexitSet[p]
  /\ \A a \in Activity :
       pc[a] \in {"trapSignals", "mkdtemp", "register", "registerLocked"}
       => atexitSet[ProcOf[a]]
  /\ \A a \in Activity : pc[a] \in ExitLabels => status[ProcOf[a]] = "exiting"
  /\ \A a \in Activity, d \in armed :
       pc[a] \in LastExitLabels => owner[d] # ProcOf[a]
  /\ \A a \in Activity :
       pc[a] \in {"exitRmtree", "exitDone"} => active[ProcOf[a]] = {}


\* Every action keeps that order.
LEMMA ShutdownNext == signals' = 0 /\ TypeOK /\ ShutdownInv /\ [Next]_vars => ShutdownInv'
<1> SUFFICES ASSUME signals' = 0, TypeOK, ShutdownInv, [Next]_vars PROVE ShutdownInv'
  OBVIOUS
<1>1. ASSUME NEW a \in Body, StartIngest(a) PROVE ShutdownInv'
  BY <1>1 DEF StartIngest, At, Goto, Running, OnTop, Started, ShutdownInv,
     TypeOK, Types, Frames
<1>2. ASSUME NEW a \in Body, StartExit(a) PROVE ShutdownInv'
  BY <1>2 DEF StartExit, Goto, Running, OnTop, Started, ShutdownInv, TypeOK,
     Types, Frames
<1>3. ASSUME NEW a \in Body, NEW d \in Dir, StartCleanup(a, d) PROVE
   ShutdownInv'
  BY <1>3 DEF StartCleanup, At, Goto, Running, OnTop, Started, ShutdownInv,
     TypeOK, Types, Frames
<1>4. ASSUME NEW d \in Dir, Drop(d) PROVE ShutdownInv'
  BY <1>4 DEF Drop, ShutdownInv, TypeOK, Types, Frames
<1>5. ASSUME NEW d \in Dir, Age(d) PROVE ShutdownInv'
  BY <1>5 DEF Age, ShutdownInv, TypeOK, Types, Frames
<1>6. ASSUME NEW p \in Proc, Kill(p) PROVE ShutdownInv'
  BY <1>6 DEF Kill, ProcessGone, Alive, ShutdownInv, TypeOK, Types, Frames
<1>7. ASSUME NEW p \in Proc, Restart(p) PROVE ShutdownInv'
  BY <1>7 DEF Restart, Alive, ShutdownInv, TypeOK, Types, Frames
<1>8. ASSUME NEW a \in Activity, UntrappedSignal(a) PROVE ShutdownInv'
  BY <1>8 DEF UntrappedSignal, TypeOK, Types
<1>9. ASSUME NEW h \in Activity, NEW a \in Activity, Signal(h, a) PROVE
   ShutdownInv'
  BY <1>9 DEF Signal, TypeOK, Types
<1>10. ASSUME NEW f \in Activity, NEW a \in Activity, NEW d \in Dir,
   Collect(f, a, d) PROVE ShutdownInv'
  BY <1>10 DEF Collect, Goto, Blocked, TargetLocked, Running, OnTop, Started,
     ShutdownInv, TypeOK, Types, Frames
<1>11. ASSUME NEW a \in Activity, SweepCheck(a) PROVE ShutdownInv'
  BY <1>11 DEF SweepCheck, At, Goto, Running, OnTop, Started, ShutdownInv,
     TypeOK, Types, Frames
<1>12. ASSUME NEW a \in Activity, SweepNow(a) PROVE ShutdownInv'
  BY <1>12 DEF SweepNow, At, Goto, Running, OnTop, Started, ShutdownInv,
     TypeOK, Types, Frames
<1>13. ASSUME NEW a \in Activity, SweepSnapshot(a) PROVE ShutdownInv'
  BY <1>13 DEF SweepSnapshot, At, Lock, Goto, Running, OnTop, Started,
     ShutdownInv, TypeOK, Types, Frames
<1>14. ASSUME NEW a \in Activity, SweepLocked(a) PROVE ShutdownInv'
  BY <1>14 DEF SweepLocked, At, Goto, Unlock, SweepSpares, Running, OnTop,
     Started, ShutdownInv, TypeOK, Types, Frames
<1>15. ASSUME NEW a \in Activity, SweepScan(a) PROVE ShutdownInv'
  BY <1>15 DEF SweepScan, At, Goto, Rmtree, Running, OnTop, Started,
     ShutdownInv, TypeOK, Types, Frames
<1>16. ASSUME NEW a \in Activity, AtexitCheck(a) PROVE ShutdownInv'
  BY <1>16 DEF AtexitCheck, At, Goto, Lock, Running, OnTop, Started,
     ShutdownInv, TypeOK, Types, Frames
<1>17. ASSUME NEW a \in Activity, AtexitLocked(a) PROVE ShutdownInv'
  BY <1>17 DEF AtexitLocked, At, Goto, Unlock, Running, OnTop, Started,
     ShutdownInv, TypeOK, Types, Frames
<1>18. ASSUME NEW a \in Activity, TrapSignals(a) PROVE ShutdownInv'
  BY <1>18 DEF TrapSignals, At, Goto, Running, OnTop, Started, ShutdownInv,
     TypeOK, Types, Frames
<1>19. ASSUME NEW a \in Activity, Mkdtemp(a) PROVE ShutdownInv'
  BY <1>19 DEF Mkdtemp, At, Goto, Running, OnTop, Started, ShutdownInv,
     TypeOK, Types, Frames
<1>20. ASSUME NEW a \in Activity, Register(a) PROVE ShutdownInv'
  BY <1>20 DEF Register, At, Lock, Goto, Running, OnTop, Started, ShutdownInv,
     TypeOK, Types, Frames
<1>21. ASSUME NEW a \in Activity, RegisterLocked(a) PROVE ShutdownInv'
  BY <1>21 DEF RegisterLocked, At, Goto, Unlock, Running, OnTop, Started,
     ShutdownInv, TypeOK, Types, Frames
<1>22. ASSUME NEW a \in Activity, Extract(a) PROVE ShutdownInv'
  BY <1>22 DEF Extract, At, Goto, Running, OnTop, Started, ShutdownInv,
     TypeOK, Types, Frames
<1>23. ASSUME NEW a \in Activity, TargetLock(a) PROVE ShutdownInv'
  BY <1>23 DEF TargetLock, At, Goto, Return, TargetLocked, AfterCall, Running,
     OnTop, Started, ShutdownInv, TypeOK, Types, Frames
<1>24. ASSUME NEW a \in Activity, Unregister(a) PROVE ShutdownInv'
  BY <1>24 DEF Unregister, At, Lock, Goto, Running, OnTop, Started,
     ShutdownInv, TypeOK, Types, Frames
<1>25. ASSUME NEW a \in Activity, UnregisterLocked(a) PROVE ShutdownInv'
  BY <1>25 DEF UnregisterLocked, At, Goto, Unlock, Running, OnTop, Started,
     ShutdownInv, TypeOK, Types, Frames
<1>26. ASSUME NEW a \in Activity, RmtreeAndReturn(a) PROVE ShutdownInv'
  BY <1>26 DEF RmtreeAndReturn, At, Return, Rmtree, Goto, AfterCall, Running,
     OnTop, Started, ShutdownInv, TypeOK, Types, Frames
<1>27. ASSUME NEW a \in Activity, ExitFinalizers(a) PROVE ShutdownInv'
  BY <1>27 DEF ExitFinalizers, At, Goto, AtexitLabel, Running, OnTop, Started,
     ShutdownInv, TypeOK, Types, Frames
<1>28. ASSUME NEW a \in Activity, ExitSnapshot(a) PROVE ShutdownInv'
  BY <1>28 DEF ExitSnapshot, At, Lock, Goto, Running, OnTop, Started,
     ShutdownInv, TypeOK, Types, Frames
<1>29. ASSUME NEW a \in Activity, ExitLocked(a) PROVE ShutdownInv'
  BY <1>29 DEF ExitLocked, At, Goto, Unlock, Running, OnTop, Started,
     ShutdownInv, TypeOK, Types, Frames
<1>30. ASSUME NEW a \in Activity, ExitRmtree(a) PROVE ShutdownInv'
  BY <1>30 DEF ExitRmtree, At, Goto, Rmtree, Running, OnTop, Started,
     ShutdownInv, TypeOK, Types, Frames
<1>31. ASSUME NEW a \in Activity, ExitDone(a) PROVE ShutdownInv'
  BY <1>31 DEF ExitDone, ProcessGone, At, Running, OnTop, Started, ShutdownInv, TypeOK, Types, Frames
<1>32. ASSUME NEW h \in Activity, HAcquire(h) PROVE ShutdownInv'
  BY <1>32 DEF HAcquire, At, TypeOK, Types, Frames, ShutdownInv
<1>33. ASSUME NEW h \in Activity, HList(h) PROVE ShutdownInv'
  BY <1>33 DEF HList, At, TypeOK, Types, Frames, ShutdownInv
<1>39. ASSUME NEW h \in Activity, HTry(h) PROVE ShutdownInv'
  BY <1>39 DEF HTry, At, TypeOK, Types, Frames, ShutdownInv
<1>34. ASSUME NEW h \in Activity, HClear(h) PROVE ShutdownInv'
  BY <1>34 DEF HClear, At, TypeOK, Types, Frames, ShutdownInv
<1>35. ASSUME NEW h \in Activity, HRmtree(h) PROVE ShutdownInv'
  BY <1>35 DEF HRmtree, At, TypeOK, Types, Frames, ShutdownInv
<1>36. ASSUME NEW h \in Activity, HForward(h) PROVE ShutdownInv'
  BY <1>36 DEF HForward, At, TypeOK, Types, Frames, ShutdownInv
<1>37. ASSUME NEW h \in Activity, HRaise(h) PROVE ShutdownInv'
  BY <1>37 DEF HRaise, At, TypeOK, Types, Frames, ShutdownInv
<1>38. CASE UNCHANGED vars
  BY <1>38 DEF vars, ShutdownInv, TypeOK, Types, Frames
<1> QED
  BY <1>1, <1>2, <1>3, <1>4, <1>5, <1>6, <1>7, <1>8, <1>9, <1>10, <1>11,
     <1>12, <1>13, <1>14, <1>15, <1>16, <1>17, <1>18, <1>19, <1>20, <1>21,
     <1>22, <1>23, <1>24, <1>25, <1>26, <1>27, <1>28, <1>29, <1>30, <1>31,
     <1>32, <1>33, <1>34, <1>35, <1>36, <1>37, <1>38, <1>39 DEF Next,
     Program, Environment, Step, IngestStep, CleanupStep, ExitStep, HandlerStep

\* A process takes only its own accounts with it.
LEMMA GoneNothingLost ==
  ASSUME TypeOK, NothingLost, NEW p \in Proc, NEW how, ProcessGone(p, how)
  PROVE  NothingLost'
<1> SUFFICES ASSUME NEW d \in fs', owner'[d] # Nil, d \notin Undeletable
             PROVE  Accounted(d)'
  BY DEF NothingLost
<1> USE DEF ProcessGone, TypeOK, Types
<1>1. d \in fs /\ d \in Dir /\ owner[d] # p /\ owner'[d] = owner[d]
  OBVIOUS
<1>2. owner[d] \in Proc
  BY <1>1
<1>3. CASE d \in active[owner[d]]
  BY <1>1, <1>2, <1>3 DEF Accounted
<1>4. CASE d \in armed
  BY <1>1, <1>4 DEF Accounted
<1>5. ASSUME NEW a \in Activity, ProcOf[a] = owner[d],
             \/ dir[a] = d /\ pc[a] \in DirLabels
             \/ d \in todo[a] /\ pc[a] \in {"hClear", "hRmtree", "exitRmtree"}
      PROVE  Accounted(d)'
  <2>1. dir'[a] = dir[a] /\ todo'[a] = todo[a] /\ pc'[a] = pc[a]
    BY <1>1, <1>5
  <2> QED
    BY <1>1, <1>5, <2>1 DEF Accounted
<1> QED
  BY <1>1, <1>3, <1>4, <1>5 DEF NothingLost, Accounted


\* Every action leaves every directory accounted for.
LEMMA NothingLostNext == signals' = 0 /\ TypeOK /\ ShutdownInv /\ NothingLost /\ [Next]_vars => NothingLost'
<1> SUFFICES ASSUME signals' = 0, TypeOK, ShutdownInv, NothingLost, [Next]_vars PROVE NothingLost'
  OBVIOUS
<1>1. ASSUME NEW a \in Body, StartIngest(a) PROVE NothingLost'
  BY <1>1 DEF StartIngest, At, Goto, Running, OnTop, Started, NothingLost,
     Accounted, ShutdownInv, TypeOK, Types, Frames
<1>2. ASSUME NEW a \in Body, StartExit(a) PROVE NothingLost'
  BY <1>2 DEF StartExit, Goto, Running, OnTop, Started, NothingLost,
     Accounted, ShutdownInv, TypeOK, Types, Frames
<1>3. ASSUME NEW a \in Body, NEW d \in Dir, StartCleanup(a, d) PROVE
   NothingLost'
  BY <1>3 DEF StartCleanup, At, Goto, Running, OnTop, Started, NothingLost,
     Accounted, ShutdownInv, TypeOK, Types, Frames
<1>4. ASSUME NEW d \in Dir, Drop(d) PROVE NothingLost'
  BY <1>4 DEF Drop, NothingLost, Accounted, ShutdownInv, TypeOK, Types, Frames
<1>5. ASSUME NEW d \in Dir, Age(d) PROVE NothingLost'
  BY <1>5 DEF Age, NothingLost, Accounted, ShutdownInv, TypeOK, Types, Frames
<1>6. ASSUME NEW p \in Proc, Kill(p) PROVE NothingLost'
  BY <1>6, GoneNothingLost DEF Kill
<1>7. ASSUME NEW p \in Proc, Restart(p) PROVE NothingLost'
  BY <1>7 DEF Restart, Alive, NothingLost, Accounted, ShutdownInv, TypeOK,
     Types, Frames
<1>8. ASSUME NEW a \in Activity, UntrappedSignal(a) PROVE NothingLost'
  BY <1>8 DEF UntrappedSignal, TypeOK, Types
<1>9. ASSUME NEW h \in Activity, NEW a \in Activity, Signal(h, a) PROVE
   NothingLost'
  BY <1>9 DEF Signal, TypeOK, Types
<1>10. ASSUME NEW f \in Activity, NEW a \in Activity, NEW d \in Dir,
   Collect(f, a, d) PROVE NothingLost'
  BY <1>10 DEF Collect, Goto, Blocked, TargetLocked, Running, OnTop, Started,
     NothingLost, Accounted, ShutdownInv, TypeOK, Types, Frames
<1>11. ASSUME NEW a \in Activity, SweepCheck(a) PROVE NothingLost'
  BY <1>11 DEF SweepCheck, At, Goto, Running, OnTop, Started, NothingLost,
     Accounted, ShutdownInv, TypeOK, Types, Frames
<1>12. ASSUME NEW a \in Activity, SweepNow(a) PROVE NothingLost'
  BY <1>12 DEF SweepNow, At, Goto, Running, OnTop, Started, NothingLost,
     Accounted, ShutdownInv, TypeOK, Types, Frames
<1>13. ASSUME NEW a \in Activity, SweepSnapshot(a) PROVE NothingLost'
  BY <1>13 DEF SweepSnapshot, At, Lock, Goto, Running, OnTop, Started,
     NothingLost, Accounted, ShutdownInv, TypeOK, Types, Frames
<1>14. ASSUME NEW a \in Activity, SweepLocked(a) PROVE NothingLost'
  BY <1>14 DEF SweepLocked, At, Goto, Unlock, SweepSpares, Running, OnTop,
     Started, NothingLost, Accounted, ShutdownInv, TypeOK, Types, Frames
<1>15. ASSUME NEW a \in Activity, SweepScan(a) PROVE NothingLost'
  BY <1>15 DEF SweepScan, At, Goto, Rmtree, Running, OnTop, Started,
     NothingLost, Accounted, ShutdownInv, TypeOK, Types, Frames
<1>16. ASSUME NEW a \in Activity, AtexitCheck(a) PROVE NothingLost'
  BY <1>16 DEF AtexitCheck, At, Goto, Lock, Running, OnTop, Started,
     NothingLost, Accounted, ShutdownInv, TypeOK, Types, Frames
<1>17. ASSUME NEW a \in Activity, AtexitLocked(a) PROVE NothingLost'
  BY <1>17 DEF AtexitLocked, At, Goto, Unlock, Running, OnTop, Started,
     NothingLost, Accounted, ShutdownInv, TypeOK, Types, Frames
<1>18. ASSUME NEW a \in Activity, TrapSignals(a) PROVE NothingLost'
  BY <1>18 DEF TrapSignals, At, Goto, Running, OnTop, Started, NothingLost,
     Accounted, ShutdownInv, TypeOK, Types, Frames
<1>19. ASSUME NEW a \in Activity, Mkdtemp(a) PROVE NothingLost'
  BY <1>19 DEF Mkdtemp, At, Goto, Running, OnTop, Started, NothingLost,
     Accounted, ShutdownInv, TypeOK, Types, Frames
<1>20. ASSUME NEW a \in Activity, Register(a) PROVE NothingLost'
  BY <1>20 DEF Register, At, Lock, Goto, Running, OnTop, Started, NothingLost,
     Accounted, ShutdownInv, TypeOK, Types, Frames
<1>21. ASSUME NEW a \in Activity, RegisterLocked(a) PROVE NothingLost'
  BY <1>21 DEF RegisterLocked, At, Goto, Unlock, Running, OnTop, Started,
     NothingLost, Accounted, ShutdownInv, TypeOK, Types, Frames
<1>22. ASSUME NEW a \in Activity, Extract(a) PROVE NothingLost'
  BY <1>22 DEF Extract, At, Goto, Running, OnTop, Started, NothingLost,
     Accounted, ShutdownInv, TypeOK, Types, Frames
<1>23. ASSUME NEW a \in Activity, TargetLock(a) PROVE NothingLost'
  <2> USE <1>23 DEF TargetLock, At, Goto, NothingLost, Accounted, TypeOK,
          Types, Frames
  <2>1. CASE target[dir[a]] = "live"
    BY <2>1
  <2>2. CASE target[dir[a]] # "live"
    BY <2>2 DEF Return
  <2> QED
    BY <2>1, <2>2
<1>24. ASSUME NEW a \in Activity, Unregister(a) PROVE NothingLost'
  BY <1>24 DEF Unregister, At, Lock, Goto, Running, OnTop, Started,
     NothingLost, Accounted, ShutdownInv, TypeOK, Types, Frames
<1>25. ASSUME NEW a \in Activity, UnregisterLocked(a) PROVE NothingLost'
  BY <1>25 DEF UnregisterLocked, At, Goto, Unlock, Running, OnTop, Started,
     NothingLost, Accounted, ShutdownInv, TypeOK, Types, Frames
<1>26. ASSUME NEW a \in Activity, RmtreeAndReturn(a) PROVE NothingLost'
  BY <1>26 DEF RmtreeAndReturn, At, Return, Rmtree, Goto, AfterCall, Running,
     OnTop, Started, NothingLost, Accounted, ShutdownInv, TypeOK, Types,
     Frames
<1>27. ASSUME NEW a \in Activity, ExitFinalizers(a) PROVE NothingLost'
  BY <1>27 DEF ExitFinalizers, At, Goto, AtexitLabel, Running, OnTop, Started,
     NothingLost, Accounted, ShutdownInv, TypeOK, Types, Frames
<1>28. ASSUME NEW a \in Activity, ExitSnapshot(a) PROVE NothingLost'
  BY <1>28 DEF ExitSnapshot, At, Lock, Goto, Running, OnTop, Started,
     NothingLost, Accounted, ShutdownInv, TypeOK, Types, Frames
<1>29. ASSUME NEW a \in Activity, ExitLocked(a) PROVE NothingLost'
  BY <1>29 DEF ExitLocked, At, Goto, Unlock, Running, OnTop, Started,
     NothingLost, Accounted, ShutdownInv, TypeOK, Types, Frames
<1>30. ASSUME NEW a \in Activity, ExitRmtree(a) PROVE NothingLost'
  BY <1>30 DEF ExitRmtree, At, Goto, Rmtree, Running, OnTop, Started,
     NothingLost, Accounted, ShutdownInv, TypeOK, Types, Frames
<1>31. ASSUME NEW a \in Activity, ExitDone(a) PROVE NothingLost'
  BY <1>31, GoneNothingLost DEF ExitDone, TypeOK, Types
<1>32. ASSUME NEW h \in Activity, HAcquire(h) PROVE NothingLost'
  BY <1>32 DEF HAcquire, At, TypeOK, Types, Frames, ShutdownInv
<1>33. ASSUME NEW h \in Activity, HList(h) PROVE NothingLost'
  BY <1>33 DEF HList, At, TypeOK, Types, Frames, ShutdownInv
<1>39. ASSUME NEW h \in Activity, HTry(h) PROVE NothingLost'
  BY <1>39 DEF HTry, At, TypeOK, Types, Frames, ShutdownInv
<1>34. ASSUME NEW h \in Activity, HClear(h) PROVE NothingLost'
  BY <1>34 DEF HClear, At, TypeOK, Types, Frames, ShutdownInv
<1>35. ASSUME NEW h \in Activity, HRmtree(h) PROVE NothingLost'
  BY <1>35 DEF HRmtree, At, TypeOK, Types, Frames, ShutdownInv
<1>36. ASSUME NEW h \in Activity, HForward(h) PROVE NothingLost'
  BY <1>36 DEF HForward, At, TypeOK, Types, Frames, ShutdownInv
<1>37. ASSUME NEW h \in Activity, HRaise(h) PROVE NothingLost'
  BY <1>37 DEF HRaise, At, TypeOK, Types, Frames, ShutdownInv
<1>38. CASE UNCHANGED vars
  BY <1>38 DEF vars, NothingLost, Accounted, ShutdownInv, TypeOK, Types, Frames
<1> QED
  BY <1>1, <1>2, <1>3, <1>4, <1>5, <1>6, <1>7, <1>8, <1>9, <1>10, <1>11,
     <1>12, <1>13, <1>14, <1>15, <1>16, <1>17, <1>18, <1>19, <1>20, <1>21,
     <1>22, <1>23, <1>24, <1>25, <1>26, <1>27, <1>28, <1>29, <1>30, <1>31,
     <1>32, <1>33, <1>34, <1>35, <1>36, <1>37, <1>38, <1>39 DEF Next,
     Program, Environment, Step, IngestStep, CleanupStep, ExitStep, HandlerStep

\* Signals are counted, never discounted.
LEMMA SignalsCount == TypeOK /\ [Next]_vars /\ signals' = 0 => signals = 0
<1> SUFFICES ASSUME TypeOK, [Next]_vars, signals' = 0 PROVE signals = 0
  OBVIOUS
<1> USE DEF TypeOK, Types
<1>1. CASE Program
  BY <1>1 DEF Program, StartIngest, StartExit, StartCleanup
<1>2. CASE Environment
  BY <1>2 DEF Environment, Drop, Age, Kill, Restart, UntrappedSignal, Signal,
     Collect
<1>3. ASSUME NEW a \in Activity, IngestStep(a) PROVE signals = 0
  BY <1>3 DEF IngestStep, SweepCheck, SweepNow, SweepSnapshot, SweepLocked,
     SweepScan, AtexitCheck, AtexitLocked, TrapSignals, Mkdtemp, Register,
     RegisterLocked, Extract
<1>4. ASSUME NEW a \in Activity, CleanupStep(a) \/ ExitStep(a) PROVE signals = 0
  BY <1>4 DEF CleanupStep, TargetLock, Unregister, UnregisterLocked,
     RmtreeAndReturn, ExitStep, ExitFinalizers, ExitSnapshot, ExitLocked,
     ExitRmtree, ExitDone
<1>5. ASSUME NEW a \in Activity, HandlerStep(a) PROVE signals = 0
  BY <1>5 DEF HandlerStep, HAcquire, HTry, HList, HClear, HRmtree, HForward, HRaise
<1>6. CASE UNCHANGED vars
  BY <1>6 DEF vars
<1> QED
  BY <1>1, <1>2, <1>3, <1>4, <1>5, <1>6 DEF Next, Step

\* Until the first signal arrives the directories are accounted for at every
\* instant, however threads, failing extractions, concurrent cleanups,
\* collector runs, exits, crashes and restarts interleave.
THEOREM NothingLostBeforeSignals ==
  Spec => [](TypeOK /\ (signals = 0 => ShutdownInv /\ NothingLost))
<1>1. Init => ShutdownInv /\ NothingLost
  BY DEF Init, ShutdownInv, NothingLost
<1>2. TypeOK /\ (signals = 0 => ShutdownInv /\ NothingLost) /\ [Next]_vars
      => (signals = 0 => ShutdownInv /\ NothingLost)'
  BY ShutdownNext, NothingLostNext, SignalsCount
<1> QED
  BY <1>1, <1>2, TypeCorrect, PTL DEF Spec

\* In a run without signals no directory is ever lost.
THEOREM QuietNothingLost ==
  ASSUME MaxSignals = 0
  PROVE  Spec => []NothingLost
<1>1. TypeOK => signals = 0
  BY DEF TypeOK, Types
<1> QED
  BY <1>1, NothingLostBeforeSignals, PTL

\* Only the last callback ends a process in an orderly way.
LEMMA OnlyExitDoneExits ==
  ASSUME TypeOK, [Next]_vars, NEW p \in Proc, Exits(p)
  PROVE  \E a \in Activity : ExitDone(a) /\ ProcOf[a] = p
<1> USE DEF Exits, TypeOK, Types
<1>1. ~UNCHANGED vars
  BY DEF vars
<1>2. ~Program
  BY DEF Program, StartIngest, StartExit, StartCleanup
<1>3. \A a \in Activity : ~IngestStep(a)
  BY DEF IngestStep, SweepCheck, SweepNow, SweepSnapshot, SweepLocked,
     SweepScan, AtexitCheck, AtexitLocked, TrapSignals, Mkdtemp, Register,
     RegisterLocked, Extract
<1>4. \A a \in Activity : ~CleanupStep(a)
  BY DEF CleanupStep, TargetLock, Unregister, UnregisterLocked, RmtreeAndReturn
<1>5. \A a \in Activity : ~HandlerStep(a)
  BY DEF HandlerStep, HAcquire, HTry, HList, HClear, HRmtree, HForward, HRaise,
     Unwind, ProcessGone
<1>6. ~Environment
  BY DEF Environment, Drop, Age, Kill, Restart, UntrappedSignal, Signal,
     Collect, Unwind, ProcessGone
<1>7. PICK a \in Activity : ExitStep(a)
  BY <1>1, <1>2, <1>3, <1>4, <1>5, <1>6 DEF Next, Step
<1>8. ExitDone(a)
  BY <1>7 DEF ExitStep, ExitFinalizers, ExitSnapshot, ExitLocked, ExitRmtree
<1> QED
  BY <1>8 DEF ExitDone, ProcessGone

\* A process at its last callback has nothing left to account for.
LEMMA NothingAtExit ==
  ASSUME TypeOK, ShutdownInv, NothingLost, NEW a \in Activity, At(a, "exitDone"),
         NEW d \in fs, owner[d] = ProcOf[a]
  PROVE  d \in Undeletable
<1> USE DEF At, TypeOK, Types, Frames, ShutdownInv
<1>1. a \in Main /\ status[ProcOf[a]] = "exiting" /\ ProcOf[a] \in Proc
  OBVIOUS
<1>2. d \notin active[owner[d]] /\ d \notin armed
  OBVIOUS
<1>3. ASSUME NEW b \in Activity, ProcOf[b] = ProcOf[a]
      PROVE  dir[b] = Nil /\ todo[b] = {}
  BY <1>1, <1>3
<1> QED
  BY <1>2, <1>3 DEF NothingLost, Accounted

\* Without signals the interpreter's own shutdown leaves no directory behind
\* that rmtree could remove.
THEOREM QuietCleanExit ==
  ASSUME MaxSignals = 0
  PROVE  Spec => CleanExit
<1> DEFINE Clean == \A p \in Proc : Exits(p) =>
                      \A d \in fs' : owner[d] = p => d \in Undeletable
<1>1. TypeOK /\ ShutdownInv /\ NothingLost /\ [Next]_vars => Clean
  <2> SUFFICES ASSUME TypeOK, ShutdownInv, NothingLost, [Next]_vars,
                      NEW p \in Proc, Exits(p), NEW d \in fs', owner[d] = p
               PROVE  d \in Undeletable
    OBVIOUS
  <2>1. PICK a \in Activity : ExitDone(a) /\ ProcOf[a] = p
    BY OnlyExitDoneExits
  <2>2. d \in fs
    BY <2>1 DEF ExitDone, ProcessGone
  <2> QED
    BY <2>1, <2>2, NothingAtExit DEF ExitDone
<1>2. TypeOK => signals = 0
  BY DEF TypeOK, Types
<1> QED
  BY <1>1, <1>2, NothingLostBeforeSignals, PTL DEF CleanExit, Spec

=============================================================================
