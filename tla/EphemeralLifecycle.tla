------------------------- MODULE EphemeralLifecycle -------------------------
(***************************************************************************)
(* The ephemeral-directory watchdog of neutral_orchestrator/               *)
(* target_ingestion.py: APK targets are unpacked into directories          *)
(* rvs_target_* that six mechanisms are meant to remove again (context     *)
(* manager, cleanup(), GC finalizer, atexit registry, signal handlers and  *)
(* the TTL sweep of other processes).                                      *)
(*                                                                         *)
(* The unit of execution is an ACTIVITY: the body of a thread, one         *)
(* invocation of the signal handler, or one run of a weakref finalizer.    *)
(* Python runs handlers and finalizers ON TOP of whatever a thread was     *)
(* doing, so an activity names the one it interrupted (under) and only the *)
(* topmost activity of a thread takes steps.                               *)
(***************************************************************************)
EXTENDS Naturals, FiniteSets

CONSTANTS Proc,         \* operating-system processes using the library
          Dir,          \* the names mkdtemp may return
          Body,         \* the threads, each as its body
          Main,         \* the main thread of every process
          Handler,      \* possible invocations of _signal_cleanup_all
          Finalizer,    \* possible runs of _finalizer_cleanup by the collector
          ProcOf,       \* the process of every activity
          Undeletable,  \* directories rmtree cannot remove (errors are swallowed)
          Dispositions, \* what the previous handler of a signal may do
          MaxSignals,   \* bound: signals delivered in a behaviour
          Crashes,      \* whether a process may be killed by SIGKILL
          Orphan,       \* holds a lock whose holder ended without releasing it
          Nil

Activity == Body \cup Handler \cup Finalizer

ASSUME ActivitiesDistinct ==
  /\ Body \cap Handler = {} /\ Body \cap Finalizer = {}
  /\ Handler \cap Finalizer = {}
  /\ Nil \notin Activity \cup Dir \cup Proc /\ Orphan \notin Activity \cup {Nil}
  /\ ProcOf \in [Activity -> Proc]

ASSUME MainAssumption ==
  /\ Main \subseteq Body
  /\ \A a, b \in Main : ProcOf[a] = ProcOf[b] => a = b

ASSUME EnvironmentAssumption ==
  /\ Undeletable \subseteq Dir
  /\ Dispositions \subseteq {"raise", "die", "return"}
  /\ MaxSignals \in Nat /\ Crashes \in BOOLEAN

VARIABLES
  fs,           \* the rvs_target_* directories that exist
  stale,        \* those whose mtime is older than the sweep's TTL
  owner,        \* the live process that made a directory
  target,       \* the UnifiedTarget of a directory
  armed,        \* directories whose weakref finalizer is alive
  active,       \* _ACTIVE_EPHEMERAL_DIRS of every process
  registryLock, \* _REGISTRY_LOCK: the activity that holds it
  trapped,      \* _SIGNALS_REGISTERED
  atexitSet,    \* _ATEXIT_REGISTERED
  sweepDone,    \* _OPPORTUNISTIC_SWEEP_DONE
  status,       \* of a process
  pc, dir, todo,\* of an activity: where it is, its directory, its work list
  under,        \* of a handler or finalizer: the activity it interrupted
  signals       \* signals delivered so far

fsVars   == <<fs, stale, owner>>
tgtVars  == <<target, armed>>
flagVars == <<trapped, atexitSet, sweepDone>>
frames   == <<dir, todo, under>>
vars == <<fsVars, tgtVars, active, registryLock, flagVars, status, pc, frames,
          signals>>

IngestLabels  == {"sweepCheck", "sweepNow", "sweepSnapshot", "sweepLocked",
                  "sweepScan", "atexitCheck", "atexitLocked", "trapSignals",
                  "mkdtemp", "register", "registerLocked", "extract"}
CleanupLabels == {"targetLock", "unregister", "unregisterLocked", "rmtree"}
ExitLabels    == {"exitFinalizers", "exitSnapshot", "exitLocked",
                  "exitRmtree", "exitDone"}
HandlerLabels == {"hAcquire", "hTry", "hList", "hClear", "hRmtree", "hForward",
                  "hRaise"}
Labels == {"idle"} \cup IngestLabels \cup CleanupLabels \cup ExitLabels
                   \cup HandlerLabels

\* Labels at which an activity is about to take _REGISTRY_LOCK and may block,
\* those inside the critical section, those whose frame holds a directory, and
\* those whose frame holds a list of directories.
AcquireLabels == {"sweepSnapshot", "register", "unregister", "exitSnapshot"}
LockedLabels  == {"sweepLocked", "atexitLocked", "registerLocked",
                  "unregisterLocked", "exitLocked"}
DirLabels     == {"register", "registerLocked", "extract", "unregister",
                  "unregisterLocked", "rmtree"}
TodoLabels    == {"sweepSnapshot", "sweepLocked", "sweepScan", "exitRmtree",
                  "hClear", "hRmtree"}

Types ==
  /\ fs \subseteq Dir /\ stale \subseteq fs
  /\ owner \in [Dir -> Proc \cup {Nil}]
  /\ target \in [Dir -> {"unborn", "none", "live", "cleaned",
                     "garbage", "collected"}]
  /\ armed \subseteq {d \in Dir : owner[d] # Nil}
  /\ active \in [Proc -> SUBSET Dir]
  /\ registryLock \in [Proc -> Activity \cup {Orphan, Nil}]
  /\ trapped \in [Proc -> BOOLEAN]
  /\ atexitSet \in [Proc -> BOOLEAN]
  /\ sweepDone \in [Proc -> BOOLEAN]
  /\ status \in [Proc -> {"running", "exiting", "exited", "killed"}]
  /\ pc \in [Activity -> Labels]
  /\ dir \in [Activity -> Dir \cup {Nil}]
  /\ todo \in [Activity -> SUBSET Dir]
  /\ under \in [Activity -> Activity \cup {Nil}]
  /\ signals \in 0..MaxSignals

\* A frame holds a directory, or a work list, exactly where the code's local
\* variables are live, and every kind of activity stays in its own code.
Frames ==
  /\ \A a \in Activity : (dir[a] # Nil) <=> (pc[a] \in DirLabels \cup {"targetLock"})
  /\ \A a \in Activity : todo[a] # {} => pc[a] \in TodoLabels
  /\ \A a \in Activity : pc[a] \in HandlerLabels => a \in Handler
  /\ \A a \in Activity : pc[a] \in IngestLabels \cup {"targetLock"} => a \in Body
  /\ \A a \in Activity : pc[a] \in ExitLabels => a \in Main
  /\ \A h \in Handler : pc[h] \in HandlerLabels \cup {"idle"}
  /\ \A h \in Handler : pc[h] # "idle" => under[h] \in Activity \ ({h} \cup (Body \ Main))
  /\ \A a \in Activity : under[a] \in Handler => pc[under[a]] # "idle"
  /\ \A a \in Activity : under[a] # Nil => ProcOf[under[a]] = ProcOf[a]
  /\ \A a \in Activity : dir[a] # Nil => owner[dir[a]] = ProcOf[a]
  /\ \A d \in Dir : target[d] = "unborn" => owner[d] = Nil
  /\ \A a \in Activity \ (Main \cup Handler) :
        status[ProcOf[a]] = "exiting" => pc[a] = "idle"

TypeOK == Types /\ Frames

Init ==
  /\ fs = {} /\ stale = {}
  /\ owner = [d \in Dir |-> Nil]
  /\ target = [d \in Dir |-> "unborn"]
  /\ armed = {}
  /\ active = [p \in Proc |-> {}]
  /\ registryLock = [p \in Proc |-> Nil]
  /\ trapped = [p \in Proc |-> FALSE]
  /\ atexitSet = [p \in Proc |-> FALSE]
  /\ sweepDone = [p \in Proc |-> FALSE]
  /\ status = [p \in Proc |-> "running"]
  /\ pc = [a \in Activity |-> "idle"]
  /\ dir = [a \in Activity |-> Nil]
  /\ todo = [a \in Activity |-> {}]
  /\ under = [a \in Activity |-> Nil]
  /\ signals = 0

-----------------------------------------------------------------------------
(* Running, locking, returning                                             *)

Alive(p) == status[p] \in {"running", "exiting"}

\* Only the topmost activity of a thread of a live process executes.
OnTop(a) == ~ \E b \in Activity : under[b] = a
Started(a) == a \in Body \/ pc[a] # "idle"
Running(a) == Alive(ProcOf[a]) /\ OnTop(a) /\ Started(a)

\* Signal handlers run on the main thread only; a finalizer runs wherever the
\* collector was triggered.
OnMainThread(a) == \/ a \in Main \cup Handler
                   \/ a \in Finalizer /\ under[a] \in Main \cup Handler

At(a, label) == Running(a) /\ pc[a] = label

Goto(a, label) == pc' = [pc EXCEPT ![a] = label]

\* `with _REGISTRY_LOCK` entered by a: it blocks while anyone holds the lock.
Lock(a, label) == /\ registryLock[ProcOf[a]] = Nil
                  /\ registryLock' = [registryLock EXCEPT ![ProcOf[a]] = a]
                  /\ Goto(a, label)

Unlock(a) == registryLock' = [registryLock EXCEPT ![ProcOf[a]] = Nil]

\* Where an activity goes when its current call returns.
AfterCall(a) == IF a \in Body /\ status[ProcOf[a]] = "exiting"
                THEN "exitFinalizers" ELSE "idle"

Return_KeepsDir(a) == Goto(a, AfterCall(a)) /\ UNCHANGED <<dir, under>>
Return(a) == /\ Goto(a, AfterCall(a))
             /\ dir' = [dir EXCEPT ![a] = Nil]
             /\ under' = [under EXCEPT ![a] = Nil]

\* _shutil_rmtree_helper: every error is swallowed, so a directory that cannot
\* be removed stays behind without a word.
Rmtree(d) == /\ fs' = fs \ ({d} \ Undeletable)
             /\ stale' = stale \ ({d} \ Undeletable)
             /\ UNCHANGED owner

-----------------------------------------------------------------------------
(* ingest_target on an APK: create_ephemeral_dir, then unpack              *)

StartIngest(a) ==
  /\ a \in Body /\ At(a, "idle") /\ status[ProcOf[a]] = "running"
  /\ Goto(a, "sweepCheck")
  /\ UNCHANGED <<fsVars, tgtVars, active, registryLock, flagVars, status,
                 frames, signals>>

\* _maybe_opportunistic_sweep: once per process, the flag set before sweeping.
SweepCheck(a) ==
  /\ At(a, "sweepCheck")
  /\ Goto(a, IF sweepDone[ProcOf[a]] THEN "atexitCheck" ELSE "sweepNow")
  /\ sweepDone' = [sweepDone EXCEPT ![ProcOf[a]] = TRUE]
  /\ UNCHANGED <<fsVars, tgtVars, active, registryLock, trapped, atexitSet,
                 status, frames, signals>>

\* now = time.time(): later ages are relative to this instant, so what is not
\* old enough now is never old enough for this sweep.
SweepNow(a) ==
  /\ At(a, "sweepNow")
  /\ todo' = [todo EXCEPT ![a] = stale]
  /\ Goto(a, "sweepSnapshot")
  /\ UNCHANGED <<fsVars, tgtVars, active, registryLock, flagVars, status, dir,
                 under, signals>>

SweepSnapshot(a) ==
  /\ At(a, "sweepSnapshot") /\ Lock(a, "sweepLocked")
  /\ UNCHANGED <<fsVars, tgtVars, active, flagVars, status, frames, signals>>

\* What the sweep skips: the directories of its own process.
SweepSpares_Nothing(p) == {}
SweepSpares(p) == active[p]

SweepLocked(a) ==
  /\ At(a, "sweepLocked")
  /\ todo' = [todo EXCEPT ![a] = @ \ SweepSpares(ProcOf[a])]
  /\ Unlock(a) /\ Goto(a, "sweepScan")
  /\ UNCHANGED <<fsVars, tgtVars, active, flagVars, status, dir, under, signals>>

\* One entry of the scandir loop, or its end (also by a swallowed OSError).
SweepScan(a) ==
  /\ At(a, "sweepScan")
  /\ \/ \E d \in todo[a] \cap stale :
          /\ Rmtree(d)
          /\ todo' = [todo EXCEPT ![a] = @ \ {d}]
          /\ UNCHANGED pc
     \/ /\ todo' = [todo EXCEPT ![a] = {}]
        /\ Goto(a, "atexitCheck")
        /\ UNCHANGED fsVars
  /\ UNCHANGED <<tgtVars, active, registryLock, flagVars, status, dir, under,
                 signals>>

\* _ensure_atexit_registered, double-checked under the registry lock.
AtexitCheck(a) ==
  /\ At(a, "atexitCheck")
  /\ IF atexitSet[ProcOf[a]]
     THEN Goto(a, "trapSignals") /\ UNCHANGED registryLock
     ELSE Lock(a, "atexitLocked")
  /\ UNCHANGED <<fsVars, tgtVars, active, flagVars, status, frames, signals>>

AtexitLocked(a) ==
  /\ At(a, "atexitLocked")
  /\ atexitSet' = [atexitSet EXCEPT ![ProcOf[a]] = TRUE]
  /\ Unlock(a) /\ Goto(a, "trapSignals")
  /\ UNCHANGED <<fsVars, tgtVars, active, trapped, sweepDone, status, frames,
                 signals>>

\* _register_signal_handlers does nothing off the main thread.
TrapSignals(a) ==
  /\ At(a, "trapSignals")
  /\ trapped' = [trapped EXCEPT ![ProcOf[a]] = @ \/ a \in Main]
  /\ Goto(a, "mkdtemp")
  /\ UNCHANGED <<fsVars, tgtVars, active, registryLock, atexitSet, sweepDone,
                 status, frames, signals>>

\* mkdtemp makes a directory of a fresh name, or raises.
Mkdtemp(a) ==
  /\ At(a, "mkdtemp")
  /\ \/ \E d \in Dir :
          /\ target[d] = "unborn"
          /\ fs' = fs \cup {d}
          /\ owner' = [owner EXCEPT ![d] = ProcOf[a]]
          /\ target' = [target EXCEPT ![d] = "none"]
          /\ dir' = [dir EXCEPT ![a] = d]
          /\ Goto(a, "register")
          /\ UNCHANGED stale
     \/ /\ Goto(a, "idle")
        /\ UNCHANGED <<fsVars, target, dir>>
  /\ UNCHANGED <<armed, active, registryLock, flagVars, status, todo, under,
                 signals>>

Register(a) ==
  /\ At(a, "register") /\ Lock(a, "registerLocked")
  /\ UNCHANGED <<fsVars, tgtVars, active, flagVars, status, frames, signals>>

RegisterLocked(a) ==
  /\ At(a, "registerLocked")
  /\ active' = [active EXCEPT ![ProcOf[a]] = @ \cup {dir[a]}]
  /\ Unlock(a) /\ Goto(a, "extract")
  /\ UNCHANGED <<fsVars, tgtVars, flagVars, status, frames, signals>>

\* extract_apk_container makes missing parents, so it brings a directory back
\* that was removed under it; then the UnifiedTarget takes the directory over,
\* or the except clause of ingest_target cleans it up.
Extract(a) ==
  /\ At(a, "extract")
  /\ \/ /\ fs' = fs \cup {dir[a]}
        /\ stale' = stale \ {dir[a]}
     \/ UNCHANGED <<fs, stale>>
  /\ \/ /\ target' = [target EXCEPT ![dir[a]] = "live"]
        /\ armed' = armed \cup {dir[a]}
        /\ dir' = [dir EXCEPT ![a] = Nil]
        /\ Goto(a, "idle")
     \/ /\ Goto(a, "unregister")
        /\ UNCHANGED <<tgtVars, dir>>
  /\ UNCHANGED <<owner, active, registryLock, flagVars, status, todo, under,
                 signals>>

-----------------------------------------------------------------------------
(* UnifiedTarget.cleanup, cleanup_ephemeral_dir and the finalizer           *)

\* A thread calls cleanup() (or leaves the `with` block) on a target it holds.
StartCleanup(a, d) ==
  /\ a \in Body /\ At(a, "idle") /\ status[ProcOf[a]] = "running"
  /\ owner[d] = ProcOf[a] /\ target[d] \in {"live", "cleaned"}
  /\ dir' = [dir EXCEPT ![a] = d]
  /\ Goto(a, "targetLock")
  /\ UNCHANGED <<fsVars, tgtVars, active, registryLock, flagVars, status, todo,
                 under, signals>>

\* self._lock of the target is held for the whole of cleanup().
TargetLocked_Never(d) == FALSE
TargetLocked(d) ==
  /\ target[d] = "cleaned"
  /\ \E b \in Body : dir[b] = d /\ pc[b] \in {"unregister", "unregisterLocked", "rmtree"}

TargetLock(a) ==
  /\ At(a, "targetLock") /\ ~TargetLocked(dir[a])
  /\ IF target[dir[a]] = "live"
     THEN /\ target' = [target EXCEPT ![dir[a]] = "cleaned"]
          /\ armed' = armed \ {dir[a]}
          /\ Goto(a, "unregister")
          /\ UNCHANGED <<dir, under>>
     ELSE Return(a) /\ UNCHANGED tgtVars
  /\ UNCHANGED <<fsVars, active, registryLock, flagVars, status, todo, signals>>

Unregister(a) ==
  /\ At(a, "unregister") /\ Lock(a, "unregisterLocked")
  /\ UNCHANGED <<fsVars, tgtVars, active, flagVars, status, frames, signals>>

\* The entry leaves the registry BEFORE the directory is removed.
UnregisterLocked(a) ==
  /\ At(a, "unregisterLocked")
  /\ active' = [active EXCEPT ![ProcOf[a]] = @ \ {dir[a]}]
  /\ Unlock(a) /\ Goto(a, "rmtree")
  /\ UNCHANGED <<fsVars, tgtVars, flagVars, status, frames, signals>>

RmtreeAndReturn_NoRemoval(a) ==
  /\ At(a, "rmtree") /\ Return(a)
  /\ UNCHANGED <<fsVars, tgtVars, active, registryLock, flagVars, status, todo,
                 signals>>
RmtreeAndReturn(a) ==
  /\ At(a, "rmtree")
  /\ Rmtree(dir[a]) /\ Return(a)
  /\ UNCHANGED <<tgtVars, active, registryLock, flagVars, status, todo, signals>>

\* The program drops its last reference to a target it never cleaned up.
Drop(d) ==
  /\ target[d] = "live" /\ owner[d] # Nil /\ status[owner[d]] = "running"
  /\ \A a \in Body : dir[a] # d
  /\ target' = [target EXCEPT ![d] = "garbage"]
  /\ UNCHANGED <<fsVars, armed, active, registryLock, flagVars, status, pc,
                 frames, signals>>

\* An activity waiting for a lock executes no bytecode.
Blocked(a) == \/ /\ \/ pc[a] \in AcquireLabels
                    \/ pc[a] = "atexitCheck" /\ ~atexitSet[ProcOf[a]]
                 /\ registryLock[ProcOf[a]] # Nil
              \/ pc[a] = "targetLock" /\ TargetLocked(dir[a])

\* The reference count drops to zero or the cycle collector runs, on top of
\* whatever activity is executing: inside a critical section too.
Collect(f, a, d) ==
  /\ f \in Finalizer /\ pc[f] = "idle" /\ a \notin Finalizer
  /\ ProcOf[a] = ProcOf[f] /\ Running(a) /\ ~Blocked(a)
  /\ status[ProcOf[f]] = "running"
  /\ target[d] = "garbage" /\ d \in armed /\ owner[d] = ProcOf[f]
  /\ armed' = armed \ {d}
  /\ target' = [target EXCEPT ![d] = "collected"]
  /\ dir' = [dir EXCEPT ![f] = d]
  /\ under' = [under EXCEPT ![f] = a]
  /\ Goto(f, "unregister")
  /\ UNCHANGED <<fsVars, active, registryLock, flagVars, status, todo, signals>>

-----------------------------------------------------------------------------
(* Interpreter exit and process death                                      *)

\* The main thread returns and every other thread has been joined.
StartExit_NoJoin(a) ==
  /\ a \in Main /\ At(a, "idle") /\ status[ProcOf[a]] = "running"
  /\ status' = [status EXCEPT ![ProcOf[a]] = "exiting"]
  /\ Goto(a, "exitFinalizers")
  /\ UNCHANGED <<fsVars, tgtVars, active, registryLock, flagVars, frames,
                 signals>>
StartExit(a) ==
  /\ a \in Main /\ Running(a) /\ status[ProcOf[a]] = "running"
  /\ \A b \in Activity : ProcOf[b] = ProcOf[a] => pc[b] = "idle"
  /\ status' = [status EXCEPT ![ProcOf[a]] = "exiting"]
  /\ Goto(a, "exitFinalizers")
  /\ UNCHANGED <<fsVars, tgtVars, active, registryLock, flagVars, frames,
                 signals>>

AtexitLabel(p) == IF atexitSet[p] THEN "exitSnapshot" ELSE "exitDone"

\* atexit callbacks run last in, first out: weakref's came after the registry's.
ExitFinalizers(a) ==
  /\ At(a, "exitFinalizers")
  /\ LET mine == {d \in armed : owner[d] = ProcOf[a]}
     IN \/ \E d \in mine :
             /\ armed' = armed \ {d}
             /\ target' = [target EXCEPT ![d] = "collected"]
             /\ dir' = [dir EXCEPT ![a] = d]
             /\ Goto(a, "unregister")
        \/ /\ mine = {}
           /\ Goto(a, AtexitLabel(ProcOf[a]))
           /\ UNCHANGED <<tgtVars, dir>>
  /\ UNCHANGED <<fsVars, active, registryLock, flagVars, status, todo, under,
                 signals>>

ExitSnapshot(a) ==
  /\ At(a, "exitSnapshot") /\ Lock(a, "exitLocked")
  /\ UNCHANGED <<fsVars, tgtVars, active, flagVars, status, frames, signals>>

\* _atexit_cleanup_all: copy and clear the registry, then remove one by one.
ExitLocked(a) ==
  /\ At(a, "exitLocked")
  /\ todo' = [todo EXCEPT ![a] = active[ProcOf[a]]]
  /\ active' = [active EXCEPT ![ProcOf[a]] = {}]
  /\ Unlock(a) /\ Goto(a, "exitRmtree")
  /\ UNCHANGED <<fsVars, tgtVars, flagVars, status, dir, under, signals>>

ExitRmtree(a) ==
  /\ At(a, "exitRmtree")
  /\ \/ \E d \in todo[a] :
          /\ Rmtree(d)
          /\ todo' = [todo EXCEPT ![a] = @ \ {d}]
          /\ UNCHANGED pc
     \/ /\ todo[a] = {}
        /\ Goto(a, "exitDone")
        /\ UNCHANGED <<fsVars, todo>>
  /\ UNCHANGED <<tgtVars, active, registryLock, flagVars, status, dir, under,
                 signals>>

\* All state of a process but the files it made goes with it.
ProcessGone(p, how) ==
  LET mine == {a \in Activity : ProcOf[a] = p} IN
  /\ status' = [status EXCEPT ![p] = how]
  /\ owner' = [d \in Dir |-> IF owner[d] = p THEN Nil ELSE owner[d]]
  /\ armed' = {d \in armed : owner[d] # p}
  /\ active' = [active EXCEPT ![p] = {}]
  /\ registryLock' = [registryLock EXCEPT ![p] = Nil]
  /\ trapped' = [trapped EXCEPT ![p] = FALSE]
  /\ atexitSet' = [atexitSet EXCEPT ![p] = FALSE]
  /\ sweepDone' = [sweepDone EXCEPT ![p] = FALSE]
  /\ pc' = [a \in Activity |-> IF a \in mine THEN "idle" ELSE pc[a]]
  /\ dir' = [a \in Activity |-> IF a \in mine THEN Nil ELSE dir[a]]
  /\ todo' = [a \in Activity |-> IF a \in mine THEN {} ELSE todo[a]]
  /\ under' = [a \in Activity |-> IF a \in mine THEN Nil ELSE under[a]]
  /\ UNCHANGED <<fs, stale, target>>

ExitDone(a) ==
  /\ At(a, "exitDone")
  /\ ProcessGone(ProcOf[a], "exited")
  /\ UNCHANGED signals

\* SIGKILL, or the machine taking the process away.
Kill(p) ==
  /\ Crashes /\ Alive(p)
  /\ ProcessGone(p, "killed")
  /\ UNCHANGED signals

\* The next run of the program.
Restart(p) ==
  /\ ~Alive(p)
  /\ status' = [status EXCEPT ![p] = "running"]
  /\ UNCHANGED <<fsVars, tgtVars, active, registryLock, flagVars, pc, frames,
                 signals>>

\* The TTL passes. A directory is not a day old before its maker has
\* registered it.
Age(d) ==
  /\ d \in fs \ stale
  /\ \A a \in Activity : dir[a] = d => pc[a] \notin {"register", "registerLocked"}
  /\ stale' = stale \cup {d}
  /\ UNCHANGED <<fs, owner, tgtVars, active, registryLock, flagVars, status, pc,
                 frames, signals>>

-----------------------------------------------------------------------------
(* SIGINT and SIGTERM                                                      *)

\* A trapped signal interrupts whatever tops the main thread, a blocked lock
\* acquisition and an earlier handler included.
Signal(h, a) ==
  /\ h \in Handler /\ pc[h] = "idle" /\ a # h
  /\ ProcOf[a] = ProcOf[h] /\ OnMainThread(a) /\ Running(a)
  /\ trapped[ProcOf[h]] /\ signals < MaxSignals
  /\ signals' = signals + 1
  /\ under' = [under EXCEPT ![h] = a]
  /\ Goto(h, "hAcquire")
  /\ UNCHANGED <<fsVars, tgtVars, active, registryLock, flagVars, status, dir,
                 todo>>

HAcquire_Blocking(h) ==
  /\ At(h, "hAcquire") /\ Lock(h, "hTry")
  /\ UNCHANGED <<fsVars, tgtVars, active, flagVars, status, frames, signals>>

\* acquire(blocking=False): the handler goes on without the lock if it must.
HAcquire(h) ==
  /\ At(h, "hAcquire")
  /\ IF registryLock[ProcOf[h]] = Nil
     THEN Lock(h, "hTry")
     ELSE Goto(h, "hTry") /\ UNCHANGED registryLock
  /\ UNCHANGED <<fsVars, tgtVars, active, flagVars, status, frames, signals>>

\* `try` is entered: until now no `finally` would have released the lock.
HTry(h) ==
  /\ At(h, "hTry") /\ Goto(h, "hList")
  /\ UNCHANGED <<fsVars, tgtVars, active, registryLock, flagVars, status, frames,
                 signals>>

HList_AfterClear(h) ==
  /\ At(h, "hList") /\ Goto(h, "hClear")
  /\ UNCHANGED <<fsVars, tgtVars, active, registryLock, flagVars, status, frames,
                 signals>>
HList(h) ==
  /\ At(h, "hList")
  /\ todo' = [todo EXCEPT ![h] = active[ProcOf[h]]]
  /\ Goto(h, "hClear")
  /\ UNCHANGED <<fsVars, tgtVars, active, registryLock, flagVars, status, dir,
                 under, signals>>

\* `finally: if acquired: release()`.
HandlerUnlock_Always(h) == Unlock(h)
HandlerUnlock_Never(h) == UNCHANGED registryLock
HandlerUnlock(h) == IF registryLock[ProcOf[h]] = h
                    THEN Unlock(h) ELSE UNCHANGED registryLock

HClear(h) ==
  /\ At(h, "hClear")
  /\ active' = [active EXCEPT ![ProcOf[h]] = {}]
  /\ HandlerUnlock(h) /\ Goto(h, "hRmtree")
  /\ UNCHANGED <<fsVars, tgtVars, flagVars, status, frames, signals>>

HRmtree(h) ==
  /\ At(h, "hRmtree")
  /\ \/ \E d \in todo[h] :
          /\ Rmtree(d)
          /\ todo' = [todo EXCEPT ![h] = @ \ {d}]
          /\ UNCHANGED pc
     \/ /\ todo[h] = {}
        /\ Goto(h, "hForward")
        /\ UNCHANGED <<fsVars, todo>>
  /\ UNCHANGED <<tgtVars, active, registryLock, flagVars, status, dir, under,
                 signals>>

\* Where an exception raised on top of a leaves it: an interrupted handler
\* passes it on, at exit the failed atexit callback is reported and the next one
\* runs, a body gives up its call, a finalizer's exception is only reported.
LastExitLabels == {"exitSnapshot", "exitLocked", "exitRmtree", "exitDone"}
Landing(a) ==
  IF a \in Handler THEN "hRaise"
  ELSE IF a \in Finalizer \/ status[ProcOf[a]] = "running" THEN "idle"
  ELSE IF pc[a] \in LastExitLabels THEN "exitDone" ELSE AtexitLabel(ProcOf[a])

\* The `with` and `finally` clauses of what is unwound give the registry lock
\* back; a handler that has acquired it and not entered its `try` keeps it.
GivenBack(victim) == IF pc[victim] = "hTry" THEN Orphan ELSE Nil

\* The exception leaves the handlers that ended (gone) and unwinds victim.
Unwind(victim, gone) ==
  /\ pc' = [a \in Activity |-> IF a = victim THEN Landing(a)
                               ELSE IF a \in gone THEN "idle" ELSE pc[a]]
  /\ dir' = [dir EXCEPT ![victim] = Nil]
  /\ todo' = [todo EXCEPT ![victim] = {}]
  /\ under' = [a \in Activity |->
                 IF a \in gone \/ (a = victim /\ victim \in Finalizer)
                 THEN Nil ELSE under[a]]
  /\ registryLock' = IF registryLock[ProcOf[victim]] = victim
                     THEN [registryLock EXCEPT ![ProcOf[victim]] = GivenBack(victim)]
                     ELSE registryLock
  /\ UNCHANGED <<fsVars, tgtVars, active, flagVars, status>>

\* The previous handler is called: it may raise (KeyboardInterrupt, SystemExit)
\* into the interrupted code, end the process, or return.
HForward(h) ==
  /\ At(h, "hForward")
  /\ \/ "raise" \in Dispositions /\ Unwind(under[h], {h})
     \/ "die" \in Dispositions /\ ProcessGone(ProcOf[h], "killed")
     \/ /\ "return" \in Dispositions
        /\ Return(h)
        /\ UNCHANGED <<fsVars, tgtVars, active, registryLock, flagVars, status,
                       todo>>
  /\ UNCHANGED signals

HRaise(h) ==
  /\ At(h, "hRaise") /\ Unwind(under[h], {h}) /\ UNCHANGED signals

\* A signal while _signal_cleanup_all is not installed.
UntrappedSignal(a) ==
  /\ OnMainThread(a) /\ Running(a) /\ ~trapped[ProcOf[a]]
  /\ signals < MaxSignals /\ signals' = signals + 1
  /\ \/ "raise" \in Dispositions /\ Unwind(a, {})
     \/ "die" \in Dispositions /\ ProcessGone(ProcOf[a], "killed")

-----------------------------------------------------------------------------
(* The specification                                                       *)

IngestStep(a) ==
  \/ SweepCheck(a) \/ SweepNow(a) \/ SweepSnapshot(a) \/ SweepLocked(a)
  \/ SweepScan(a) \/ AtexitCheck(a) \/ AtexitLocked(a) \/ TrapSignals(a)
  \/ Mkdtemp(a) \/ Register(a) \/ RegisterLocked(a) \/ Extract(a)
CleanupStep(a) ==
  TargetLock(a) \/ Unregister(a) \/ UnregisterLocked(a) \/ RmtreeAndReturn(a)
ExitStep(a) ==
  \/ ExitFinalizers(a) \/ ExitSnapshot(a) \/ ExitLocked(a) \/ ExitRmtree(a)
  \/ ExitDone(a)
HandlerStep(h) ==
  \/ HAcquire(h) \/ HTry(h) \/ HList(h) \/ HClear(h) \/ HRmtree(h)
  \/ HForward(h) \/ HRaise(h)

\* What an activity that has started goes on to do by itself.
Step(a) == IngestStep(a) \/ CleanupStep(a) \/ ExitStep(a) \/ HandlerStep(a)

Program == \E a \in Body : \/ StartIngest(a)
                           \/ StartExit(a)
                           \/ \E d \in Dir : StartCleanup(a, d)

Environment ==
  \/ \E d \in Dir : Drop(d) \/ Age(d)
  \/ \E p \in Proc : Kill(p) \/ Restart(p)
  \/ \E a \in Activity : UntrappedSignal(a)
  \/ \E a, h \in Activity : Signal(h, a)
  \/ \E a, f \in Activity, d \in Dir : Collect(f, a, d)

Next == Program \/ Environment \/ \E a \in Activity : Step(a)

Spec == Init /\ [][Next]_vars

\* A started activity is not starved: the interpreter schedules every thread
\* and runs a handler or finalizer to its end before the code below it.
FairSpec == Spec /\ \A a \in Activity : WF_vars(Step(a))

-----------------------------------------------------------------------------
(* Properties                                                              *)

\* _REGISTRY_LOCK is held by exactly the activity inside a critical section.
\* An exception that unwinds a `with`, a signal handler that could not take the
\* lock and a finalizer that runs in the middle of one must all leave the lock
\* with its holder: a release by anybody else lets two threads in.  Nobody ends
\* without releasing it unless a second signal interrupts a handler.
LockKept ==
  /\ \A a \in Activity : pc[a] \in LockedLabels => registryLock[ProcOf[a]] = a
  /\ \A p \in Proc : registryLock[p] \notin {Orphan, Nil} =>
        /\ ProcOf[registryLock[p]] = p
        /\ pc[registryLock[p]] \in LockedLabels \cup {"hTry", "hList", "hClear"}
LockDiscipline ==
  /\ LockKept
  /\ \A p \in Proc : registryLock[p] = Orphan => signals > 1

\* Somebody in the process will still remove d: the atexit registry, its
\* finalizer, or an activity that has it on its hands.
Accounted(d) ==
  \/ d \in active[owner[d]]
  \/ d \in armed
  \/ \E a \in Activity :
       /\ ProcOf[a] = owner[d]
       /\ \/ dir[a] = d /\ pc[a] \in DirLabels
          \/ d \in todo[a] /\ pc[a] \in {"hClear", "hRmtree", "exitRmtree"}

\* While no signal arrives, every directory of a live process is accounted for
\* at every instant, across ingestion failures, concurrent cleanups, dropped
\* targets and collections, unless rmtree failed on it.
NothingLost ==
  \A d \in fs : owner[d] # Nil => Accounted(d) \/ d \in Undeletable

\* An exit through the interpreter's own shutdown leaves no directory behind
\* (the promise of the six tiers), except what rmtree could not remove.
Exits(p) == status[p] = "exiting" /\ status'[p] = "exited"
CleanExit ==
  [][\A p \in Proc : Exits(p) =>
       \A d \in fs' : owner[d] = p => d \in Undeletable]_vars

\* A directory is taken from a live target only by its own cleanup: the sweep
\* of the process, which reads the clock, the registry and the file system at
\* three different instants, never takes one that another thread made.
LiveTargetKeepsDir ==
  \A d \in Dir : target[d] = "live" /\ owner[d] # Nil => d \in fs

\* When cleanup() returns (and is neither unwound nor killed) the directory is
\* gone, also for a caller that only waited for another thread's cleanup of the
\* same target.
CleanupReturns(a, d) ==
  /\ a \in Body /\ Running(a) /\ dir[a] = d
  /\ pc[a] \in {"targetLock", "rmtree"} /\ pc'[a] = "idle"
  /\ signals' = signals /\ status' = status
CleanupMeansGone ==
  [][\A a \in Activity, d \in Dir :
       CleanupReturns(a, d) => d \notin fs' \/ d \in Undeletable]_vars

\* The windows in which a directory has no record but an interruptible frame:
\* made and not yet registered, or taken off the registry and not yet removed.
InWindow(d) ==
  \E a \in Activity :
    /\ ProcOf[a] = owner[d]
    /\ \/ dir[a] = d /\ pc[a] \in {"register", "registerLocked", "rmtree"}
       \/ d \in todo[a] /\ pc[a] = "exitRmtree"

\* One signal whose previous handler raises loses a directory in these windows
\* and nowhere else: anywhere outside them the handler has removed it first.
LossOnlyInWindow ==
  [][\A d \in fs \cap fs' :
       (owner[d] # Nil /\ owner'[d] = owner[d] /\ Accounted(d) /\ ~Accounted(d)')
       => InWindow(d) \/ d \in Undeletable]_vars

\* A signal handler that has started returns, raises or ends the process,
\* whatever it interrupted: the holder of the registry lock included.
HandlerReturns ==
  \A h \in Handler : pc[h] # "idle" ~> pc[h] = "idle"

\* An interpreter that has begun to shut down gets to its end, unless a handler
\* has ended with the registry lock (ShutdownEnds).
ExitCompletes ==
  \A p \in Proc :
    status[p] = "exiting" ~> status[p] # "exiting" \/ registryLock[p] = Orphan

\* The "Deadlock-Free Signal Handlers" of Tier 5 (target_ingestion.py:12): an
\* interpreter that has begun to shut down gets to its end, whatever signals came.
ShutdownEnds == \A p \in Proc : status[p] = "exiting" ~> status[p] # "exiting"

=============================================================================
