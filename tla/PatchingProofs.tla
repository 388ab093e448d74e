--------------------------- MODULE PatchingProofs ---------------------------
(***************************************************************************)
(* Proofs about Patching, for all commands, binaries and edits.            *)
(***************************************************************************)
EXTENDS Patching, TLAPS

USE PatchAssumption
USE DEF Ended, Labels, Goto, At, Edits, Current, Finished

-----------------------------------------------------------------------------
(* Type correctness                                                        *)

\* Commands that are not plans have one edit, stay at it and are not validated
\* as plans are.
SingleStep ==
  \A c \in Command :
    /\ pc[c] = "idle" => step[c] = 1
    /\ pc[c] # "idle" /\ ~request[c].plan => step[c] = 1
    /\ pc[c] \in {"validate", "simulate"} => request[c].plan

TypeInv == TypeOK /\ SingleStep

\* What every step but Start leaves as it is.
LEMMA RequestType ==
  ASSUME TypeOK, NEW c \in Command, pc[c] # "idle"
  PROVE  /\ request[c] \in Requests
         /\ request[c] \in Request
         /\ request[c].plan \in BOOLEAN /\ request[c].dry \in BOOLEAN
         /\ Edits(c) \in Seq(Edit)
         /\ Len(Edits(c)) \in Nat
         /\ ~request[c].plan => Len(Edits(c)) = 1 /\ ~request[c].dry
<1>1. request[c] \in Requests
  BY DEF TypeOK
<1> QED
  BY <1>1 DEF Request

LEMMA CurrentType ==
  ASSUME TypeOK, NEW c \in Command, pc[c] # "idle", ~Finished(c)
  PROVE  Current(c) \in Edit
<1>1. Edits(c) \in Seq(Edit)
  BY RequestType
<1>2. step[c] \in 1..Len(Edits(c))
  BY RequestType DEF TypeOK
<1> QED
  BY <1>1, <1>2

LEMMA TypeInit == Init => TypeInv
  BY DEF Init, TypeInv, TypeOK, SingleStep, Blank

LEMMA TypeNext == TypeInv /\ [Next]_vars => TypeInv'
<1> SUFFICES ASSUME TypeInv, [Next]_vars PROVE TypeInv'
  OBVIOUS
<1> USE DEF TypeInv
<1>0. CASE UNCHANGED vars
  BY <1>0 DEF vars, TypeOK, SingleStep
<1>1. ASSUME NEW c \in Command, NEW r \in Requests, Start(c, r)
      PROVE  TypeInv'
  BY <1>1 DEF Start, TypeOK, SingleStep
<1>2. ASSUME NEW c \in Command, Validate(c)
      PROVE  TypeInv'
  BY <1>2 DEF Validate, TypeOK, SingleStep
<1>3. ASSUME NEW c \in Command, Simulate(c)
      PROVE  TypeInv'
  <2>1. /\ step[c] \in Nat \ {0} /\ Len(request[c].edits) \in Nat
        /\ ~request[c].plan => step[c] = 1 /\ Len(request[c].edits) = 1
    BY <1>3, RequestType DEF Simulate, TypeOK, SingleStep
  <2>2. step' \in [Command -> Nat \ {0}] /\ SingleStep'
    <3>1. step' \in [Command -> Nat \ {0}]
      BY <1>3, <2>1 DEF Simulate, TypeOK
    <3>2. request[c].plan /\ pc[c] = "simulate" /\ request' = request
      BY <1>3 DEF Simulate, SingleStep
    <3>3. /\ pc' \in {pc, [pc EXCEPT ![c] = "done"], [pc EXCEPT ![c] = "failed"]}
          /\ step' \in {step, [step EXCEPT ![c] = @ + 1]}
      BY <1>3 DEF Simulate
    <3>4. QED
      BY <3>1, <3>2, <3>3 DEF TypeOK, SingleStep
  <2>4. \A d \in Command : pc'[d] \in {"prepare", "writing", "verify"} =>
          step'[d] <= Len(request'[d].edits)
    BY <1>3, <2>1 DEF Simulate, TypeOK
  <2>5. QED
    BY <1>3, <2>2, <2>4 DEF Simulate, TypeOK
<1>4. ASSUME NEW c \in Command, Backup(c)
      PROVE  TypeInv'
  BY <1>4 DEF Backup, TypeOK, SingleStep, Blank
<1>5. ASSUME NEW c \in Command, Copied(c)
      PROVE  TypeInv'
  <2>1. /\ step[c] \in Nat \ {0} /\ Len(request[c].edits) \in Nat
        /\ ~request[c].plan => step[c] = 1 /\ Len(request[c].edits) = 1
    BY <1>5, RequestType DEF Copied, TypeOK, SingleStep
  <2>2. step' \in [Command -> Nat \ {0}] /\ SingleStep'
    BY <1>5, <2>1 DEF Copied, TypeOK, SingleStep
  <2>3. bak' \in [Site -> Byte \cup {Nil}]
    BY <1>5 DEF Copied, TypeOK
  <2>4. \A d \in Command : pc'[d] \in {"prepare", "writing", "verify"} =>
          step'[d] <= Len(request'[d].edits)
    <3>1. /\ pc'[c] \in {"prepare", "resolve", "failed"}
          /\ pc'[c] = "prepare" => ~request[c].plan
      BY <1>5 DEF Copied, TypeOK
    <3>2. \A d \in Command \ {c} : pc'[d] = pc[d]
      BY <1>5 DEF Copied, TypeOK
    <3>3. request' = request /\ step' = step
      BY <1>5 DEF Copied
    <3>4. pc'[c] = "prepare" => step[c] <= Len(request[c].edits)
      BY <2>1, <3>1
    <3>5. \A d \in Command : pc[d] \in {"prepare", "writing", "verify"} =>
            step[d] <= Len(request[d].edits)
      BY DEF TypeOK
    <3>6. QED
      BY <3>1, <3>2, <3>3, <3>4, <3>5
  <2>5. QED
    BY <1>5, <2>2, <2>3, <2>4 DEF Copied, TypeOK
<1>6. ASSUME NEW c \in Command, Resolve(c)
      PROVE  TypeInv'
  BY <1>6, RequestType DEF Resolve, TypeOK, SingleStep
<1>7. ASSUME NEW c \in Command, Prepare(c)
      PROVE  TypeInv'
  <2>1. /\ step[c] \in Nat \ {0} /\ Len(request[c].edits) \in Nat
        /\ ~request[c].plan => step[c] = 1 /\ Len(request[c].edits) = 1
    BY <1>7, RequestType DEF Prepare, TypeOK, SingleStep
  <2>2. step' \in [Command -> Nat \ {0}] /\ SingleStep'
    BY <1>7, <2>1 DEF Prepare, TypeOK, SingleStep
  <2>3. writer' \in [Command -> Edit \cup {Nil}]
    <3>1. Current(c) \in Edit
      BY <1>7, <2>1, CurrentType DEF Prepare, TypeOK
    <3>2. QED
      BY <1>7, <3>1 DEF Prepare, TypeOK
  <2>4. \A d \in Command : pc'[d] \in {"prepare", "writing", "verify"} =>
          step'[d] <= Len(request'[d].edits)
    BY <1>7, <2>1 DEF Prepare, TypeOK
  <2>5. QED
    BY <1>7, <2>2, <2>3, <2>4 DEF Prepare, TypeOK
<1>8. ASSUME NEW c \in Command, WriterExits(c)
      PROVE  TypeInv'
  BY <1>8 DEF WriterExits, TypeOK, SingleStep
<1>9. ASSUME NEW c \in Command, WriteTimeout(c)
      PROVE  TypeInv'
  BY <1>9 DEF WriteTimeout, TypeOK, SingleStep
<1>10. ASSUME NEW c \in Command, Verify(c)
      PROVE  TypeInv'
  <2>1. /\ step[c] \in Nat \ {0} /\ Len(request[c].edits) \in Nat
        /\ ~request[c].plan => step[c] = 1 /\ Len(request[c].edits) = 1
    BY <1>10, RequestType DEF Verify, TypeOK, SingleStep
  <2>2. step' \in [Command -> Nat \ {0}] /\ SingleStep'
    BY <1>10, <2>1 DEF Verify, TypeOK, SingleStep
  <2>4. \A d \in Command : pc'[d] \in {"prepare", "writing", "verify"} =>
          step'[d] <= Len(request'[d].edits)
    BY <1>10, <2>1 DEF Verify, TypeOK
  <2>5. QED
    BY <1>10, <2>2, <2>4 DEF Verify, TypeOK
<1>11. ASSUME NEW c \in Command, ReadFails(c)
      PROVE  TypeInv'
  BY <1>11 DEF ReadFails, TypeOK, SingleStep
<1>12. ASSUME NEW c \in Command, Write(c)
      PROVE  TypeInv'
  BY <1>12 DEF Write, TypeOK, SingleStep, Edit
<1>13. ASSUME NEW c \in Command, Kill(c)
      PROVE  TypeInv'
  BY <1>13 DEF Kill, TypeOK, SingleStep
<1> QED
  BY <1>0, <1>1, <1>2, <1>3, <1>4, <1>5, <1>6, <1>7, <1>8, <1>9, <1>10,
     <1>11, <1>12, <1>13 DEF Next, Run

LEMMA TypeInvariant == Spec => []TypeInv
  BY TypeInit, TypeNext, PTL DEF Spec

\* Every command is where its request allows it to be, and at one of its edits.
THEOREM TypeCorrect == Spec => []TypeOK
  BY TypeInvariant, PTL DEF TypeInv

-----------------------------------------------------------------------------
(* One command at a time, and who may write                                *)

Busy(c) == pc[c] \notin Ended \cup {"idle"}

\* Only the latest command is still running.
Serial ==
  /\ \A c \in Command : Busy(c) => latest = c
  /\ latest # Nil => pc[latest] # "idle"

\* A radare2 that has yet to write belongs to the edit a command waits for, or to
\* a command that was killed.
Writers ==
  \A c \in Command :
    writer[c] # Nil => /\ pc[c] \in {"writing", "killed"}
                       /\ pc[c] = "writing" => writer[c] = Current(c)

\* A plan that is malformed, or only tried, gets no further than that.
Refused ==
  \A c \in Command :
    /\ pc[c] = "simulate" => ~Malformed(c) /\ request[c].dry
    /\ Busy(c) /\ request[c].plan /\ (Malformed(c) \/ request[c].dry) =>
         pc[c] \in {"validate", "simulate"}

OrderInv == Serial /\ Writers /\ Refused

LEMMA OrderInit == Init => OrderInv
  BY DEF Init, OrderInv, Serial, Writers, Refused, Busy

\* An action that moves one busy command and starts no writer.
LEMMA MovePreservesSerial ==
  ASSUME TypeInv, Serial, NEW c \in Command, Busy(c),
         NEW l \in Labels \ {"idle"}, pc' = [pc EXCEPT ![c] = l],
         latest' = latest
  PROVE  Serial'
  BY DEF Serial, Busy, TypeInv, TypeOK

LEMMA SerialNext == TypeInv /\ Serial /\ [Next]_vars => Serial'
<1> SUFFICES ASSUME TypeInv, Serial, [Next]_vars PROVE Serial'
  OBVIOUS
<1>0. CASE UNCHANGED vars
  BY <1>0 DEF vars, Serial, Busy
<1>1. ASSUME NEW c \in Command, NEW r \in Requests, Start(c, r)
      PROVE  Serial'
  BY <1>1 DEF Start, Serial, Busy, TypeInv, TypeOK
<1>2. ASSUME NEW c \in Command, Run(c) \/ ReadFails(c) \/ Kill(c)
      PROVE  Serial'
  <2>1. Busy(c) /\ latest' = latest
    BY <1>2 DEF Busy, Run, ReadFails, Kill, Validate, Simulate, Backup, Copied,
                Resolve, Prepare, WriterExits, WriteTimeout, Verify
  <2>2. pc' = pc \/ \E l \in Labels \ {"idle"} : pc' = [pc EXCEPT ![c] = l]
    BY <1>2 DEF Run, ReadFails, Kill, Validate, Simulate, Backup, Copied,
                Resolve, Prepare, WriterExits, WriteTimeout, Verify
  <2>3. QED
    BY <2>1, <2>2, MovePreservesSerial DEF Serial, Busy
<1>3. ASSUME NEW c \in Command, Write(c)
      PROVE  Serial'
  BY <1>3 DEF Write, Serial, Busy
<1> QED
  BY <1>0, <1>1, <1>2, <1>3 DEF Next

LEMMA WritersNext == TypeInv /\ Writers /\ [Next]_vars => Writers'
<1> SUFFICES ASSUME TypeInv, Writers, [Next]_vars PROVE Writers'
  OBVIOUS
<1> USE DEF TypeInv, TypeOK, Writers
<1>0. CASE UNCHANGED vars
  BY <1>0 DEF vars
<1>1. ASSUME NEW c \in Command, NEW r \in Requests, Start(c, r)
      PROVE  Writers'
  BY <1>1 DEF Start
<1>2. ASSUME NEW c \in Command, Validate(c) \/ Backup(c) \/ Copied(c) \/ Resolve(c)
      PROVE  Writers'
  BY <1>2 DEF Validate, Backup, Copied, Resolve
<1>3. ASSUME NEW c \in Command, Simulate(c) \/ Verify(c)
      PROVE  Writers'
  <2>1. writer[c] = Nil
    BY <1>3 DEF Simulate, Verify
  <2>2. /\ \A d \in Command \ {c} : pc'[d] = pc[d] /\ step'[d] = step[d]
        /\ request' = request /\ writer' = writer
    BY <1>3 DEF Simulate, Verify
  <2>3. QED
    BY <2>1, <2>2
<1>4. ASSUME NEW c \in Command, Prepare(c)
      PROVE  Writers'
  BY <1>4 DEF Prepare
<1>5. ASSUME NEW c \in Command, WriterExits(c) \/ WriteTimeout(c)
      PROVE  Writers'
  BY <1>5 DEF WriterExits, WriteTimeout
<1>6. ASSUME NEW c \in Command, ReadFails(c) \/ Kill(c)
      PROVE  Writers'
  BY <1>6 DEF ReadFails, Kill
<1>7. ASSUME NEW c \in Command, Write(c)
      PROVE  Writers'
  BY <1>7 DEF Write
<1> QED
  BY <1>0, <1>1, <1>2, <1>3, <1>4, <1>5, <1>6, <1>7 DEF Next, Run

LEMMA RefusedNext == TypeInv /\ Refused /\ [Next]_vars => Refused'
<1> SUFFICES ASSUME TypeInv, Refused, [Next]_vars PROVE Refused'
  OBVIOUS
<1> USE DEF TypeInv, TypeOK, Refused, Busy, Malformed
<1>0. CASE UNCHANGED vars
  BY <1>0 DEF vars
<1>1. ASSUME NEW c \in Command, NEW r \in Requests, Start(c, r)
      PROVE  Refused'
  BY <1>1 DEF Start
<1>2. ASSUME NEW c \in Command, Run(c) \/ ReadFails(c) \/ Kill(c)
      PROVE  Refused'
  <2>1. /\ request' = request
        /\ \A d \in Command \ {c} : pc'[d] = pc[d]
    BY <1>2 DEF Run, ReadFails, Kill, Validate, Simulate, Backup, Copied,
                Resolve, Prepare, WriterExits, WriteTimeout, Verify
  <2>2. CASE Validate(c)
    BY <2>1, <2>2 DEF Validate
  <2>3. CASE Simulate(c)
    BY <2>1, <2>3 DEF Simulate
  <2>4. CASE ~Validate(c) /\ ~Simulate(c)
    <3>1. /\ Busy(c)
          /\ pc[c] \in {"validate", "simulate"} => pc'[c] \in {"failed", "killed"}
          /\ pc'[c] \notin {"validate", "simulate"}
      BY <1>2, <2>4 DEF Run, ReadFails, Kill, Backup, Copied, Resolve, Prepare,
                        WriterExits, WriteTimeout, Verify
    <3>2. QED
      BY <2>1, <3>1
  <2>5. QED
    BY <2>2, <2>3, <2>4
<1>3. ASSUME NEW c \in Command, Write(c)
      PROVE  Refused'
  BY <1>3 DEF Write
<1> QED
  BY <1>0, <1>1, <1>2, <1>3 DEF Next

LEMMA OrderInvariant == Spec => [](TypeInv /\ OrderInv)
<1>1. TypeInv /\ OrderInv /\ [Next]_vars => OrderInv'
  BY SerialNext, WritersNext, RefusedNext DEF OrderInv
<1> QED
  BY <1>1, TypeInvariant, OrderInit, PTL DEF Spec

\* A command that answered has stopped its radare2: what still changes the binary
\* is the command at work or the orphan of a killed one.
THEOREM NoneWritesLate == Spec => NoLateWrite
<1>1. OrderInv /\ [Next]_vars =>
        [file' # file =>
           \E c \in Command : pc[c] \in {"writing", "killed"} /\ writer[c] # Nil]_vars
  BY DEF OrderInv, Writers, Next, Run, Start, Validate, Simulate, Backup, Copied,
         Resolve, Prepare, WriterExits, WriteTimeout, Verify, ReadFails, Kill,
         Write, vars
<1> QED
  BY <1>1, OrderInvariant, PTL DEF Spec, NoLateWrite

\* A malformed plan and a dry run leave the binary and its backup alone, unless
\* the orphan of an earlier command interferes.
THEOREM RefusedUntouched == Spec => RefusedPlanUntouched
<1> DEFINE A == \A c \in Command :
                  pc[c] \notin Ended \cup {"idle"} /\ request[c].plan
                    /\ (Malformed(c) \/ request[c].dry) /\ Undisturbed(c) =>
                    file' = file /\ bak' = bak
<1>1. TypeInv /\ OrderInv /\ [Next]_vars => [A]_vars
  <2> SUFFICES ASSUME TypeInv, OrderInv, [Next]_vars, NEW c \in Command, Busy(c),
                      request[c].plan, Malformed(c) \/ request[c].dry, Undisturbed(c)
               PROVE  file' = file /\ bak' = bak
    BY DEF Busy
  <2>1. pc[c] \in {"validate", "simulate"}
    BY DEF OrderInv, Refused
  <2>2. ~\E d \in Command : Write(d)
    BY <2>1 DEF Write, OrderInv, Writers, Serial, Busy, Undisturbed
  <2>3. ~\E d \in Command : Backup(d) \/ Copied(d)
    BY <2>1 DEF Backup, Copied, OrderInv, Serial, Busy
  <2>4. QED
    BY <2>2, <2>3 DEF Next, Run, Start, Validate, Simulate, Resolve, Prepare,
         WriterExits, WriteTimeout, Verify, ReadFails, Kill, vars
<1> QED
  BY <1>1, OrderInvariant, PTL DEF Spec, RefusedPlanUntouched

-----------------------------------------------------------------------------
(* What the backup is good for                                             *)

BeforeBackup(c) ==
  pc[c] \in {"validate", "backup", "copying"} \/ (pc[c] = "resolve" /\ ~request[c].plan)
AfterBackup(c) ==
  \/ pc[c] \in {"prepare", "writing", "verify"}
  \/ pc[c] = "resolve" /\ request[c].plan
  \/ writer[c] # Nil

\* A command that keeps a backup writes only once the backup is complete.
BackupInv ==
  latest # Nil /\ KeepsBackup(request[latest]) /\ Undisturbed(latest) =>
    /\ file = base[latest] \/ bak = base[latest]
    /\ BeforeBackup(latest) => file = base[latest]
    /\ AfterBackup(latest) => bak = base[latest]

\* While no earlier command was killed, only the latest command does anything.
LEMMA OnlyLatestMoves ==
  ASSUME TypeInv, OrderInv, latest # Nil, Undisturbed(latest)', [Next]_vars,
         latest' = latest,
         NEW c \in Command, Run(c) \/ ReadFails(c) \/ Kill(c) \/ Write(c)
  PROVE  c = latest
<1>1. Busy(c) \/ writer[c] # Nil
  BY DEF Run, ReadFails, Kill, Write, Busy, Validate, Simulate, Backup, Copied,
         Resolve, Prepare, WriterExits, WriteTimeout, Verify
<1>2. CASE Busy(c)
  BY <1>2 DEF OrderInv, Serial
<1>3. CASE ~Busy(c)
  <2>1. pc[c] = "killed" /\ Write(c)
    BY <1>1, <1>3 DEF OrderInv, Writers, Busy, Run, ReadFails, Kill, Validate,
          Simulate, Backup, Copied, Resolve, Prepare, WriterExits, WriteTimeout, Verify
  <2>2. pc'[c] = "killed"
    BY <2>1 DEF Write
  <2>3. QED
    BY <2>2 DEF Undisturbed
<1> QED
  BY <1>2, <1>3

\* A command once killed stays killed.
LEMMA UndisturbedBefore ==
  ASSUME TypeInv, [Next]_vars, NEW c \in Command, Undisturbed(c)'
  PROVE  Undisturbed(c)
<1> SUFFICES ASSUME NEW d \in Command, pc[d] = "killed" PROVE pc'[d] = "killed"
  BY DEF Undisturbed
<1> QED
  BY DEF Next, Run, Start, Validate, Simulate, Backup, Copied, Resolve, Prepare,
         WriterExits, WriteTimeout, Verify, ReadFails, Kill, Write, vars, TypeInv,
         TypeOK

LEMMA BackupNext == TypeInv /\ OrderInv /\ BackupInv /\ [Next]_vars => BackupInv'
<1> SUFFICES ASSUME TypeInv, OrderInv, BackupInv, [Next]_vars,
                    latest' # Nil, KeepsBackup(request[latest])', Undisturbed(latest)'
             PROVE  /\ file' = base'[latest'] \/ bak' = base'[latest']
                    /\ BeforeBackup(latest)' => file' = base'[latest']
                    /\ AfterBackup(latest)' => bak' = base'[latest']
  BY DEF BackupInv
<1>0. CASE UNCHANGED vars
  BY <1>0 DEF vars, BackupInv, KeepsBackup, Undisturbed, BeforeBackup, AfterBackup
<1>1. ASSUME NEW c \in Command, NEW r \in Requests, Start(c, r)
      PROVE  /\ file' = base'[latest'] \/ bak' = base'[latest']
             /\ BeforeBackup(latest)' => file' = base'[latest']
             /\ AfterBackup(latest)' => bak' = base'[latest']
  <2>1. /\ latest' = c /\ file' = base'[c] /\ writer'[c] = Nil
        /\ request'[c] = r
        /\ pc'[c] = IF r.plan THEN "validate" ELSE "resolve"
    BY <1>1 DEF Start, TypeInv, TypeOK, OrderInv, Writers
  <2>2. QED
    BY <2>1 DEF AfterBackup
<1>2. ASSUME NEW c \in Command, Run(c) \/ ReadFails(c) \/ Kill(c) \/ Write(c)
      PROVE  /\ file' = base'[latest'] \/ bak' = base'[latest']
             /\ BeforeBackup(latest)' => file' = base'[latest']
             /\ AfterBackup(latest)' => bak' = base'[latest']
  <2>1. latest' = latest /\ base' = base /\ request' = request
    BY <1>2 DEF Run, ReadFails, Kill, Write, Validate, Simulate, Backup, Copied,
                Resolve, Prepare, WriterExits, WriteTimeout, Verify
  <2>2. c = latest
    BY <1>2, <2>1, OnlyLatestMoves
  <2>3. /\ KeepsBackup(request[c])
        /\ file = base[c] \/ bak = base[c]
        /\ BeforeBackup(c) => file = base[c]
        /\ AfterBackup(c) => bak = base[c]
    BY <2>1, <2>2, UndisturbedBefore DEF BackupInv
  <2>4. SUFFICES /\ file' = base[c] \/ bak' = base[c]
                 /\ BeforeBackup(c)' => file' = base[c]
                 /\ AfterBackup(c)' => bak' = base[c]
    BY <2>1, <2>2 DEF BeforeBackup, AfterBackup
  <2>5. writer[c] # Nil => pc[c] \in {"writing", "killed"}
    BY DEF OrderInv, Writers
  <2>6. pc[c] \in Labels /\ request[c] \in Request
    BY <1>2, <2>5, RequestType DEF TypeInv, TypeOK, Run, ReadFails, Kill, Write,
          Validate, Simulate, Backup, Copied, Resolve, Prepare, WriterExits,
          WriteTimeout, Verify
  <2> USE DEF BeforeBackup, AfterBackup, TypeInv, TypeOK
  <2>7. CASE Validate(c)
    <3>1. request[c].plan
      BY <2>7 DEF Validate, SingleStep
    <3>2. QED
      BY <2>3, <2>5, <2>7, <3>1 DEF Validate
  <2>8. CASE Simulate(c)
    BY <2>3, <2>5, <2>8 DEF Simulate, KeepsBackup, OrderInv, Refused, SingleStep
  <2>9. CASE Backup(c)
    BY <2>3, <2>5, <2>9 DEF Backup
  <2>10. CASE Copied(c)
    BY <2>3, <2>5, <2>10 DEF Copied
  <2>11. CASE Resolve(c)
    BY <2>3, <2>5, <2>6, <2>11 DEF Resolve, KeepsBackup, Request
  <2>12. CASE Prepare(c)
    BY <2>3, <2>5, <2>12 DEF Prepare
  <2>13. CASE WriterExits(c) \/ WriteTimeout(c)
    BY <2>3, <2>5, <2>13 DEF WriterExits, WriteTimeout
  <2>14. CASE Verify(c)
    BY <2>3, <2>5, <2>14 DEF Verify
  <2>15. CASE ReadFails(c) \/ Kill(c)
    BY <2>3, <2>5, <2>15 DEF ReadFails, Kill
  <2>16. CASE Write(c)
    BY <2>3, <2>5, <2>16 DEF Write
  <2>17. QED
    BY <1>2, <2>7, <2>8, <2>9, <2>10, <2>11, <2>12, <2>13, <2>14, <2>15, <2>16
       DEF Run
<1> QED
  BY <1>0, <1>1, <1>2 DEF Next

\* Until the next command starts, .bak undoes what a command did at whichever edit
\* it failed or was killed, the write of its orphan included.
THEOREM BackupRestores == Spec => []Restorable
<1>1. Init => BackupInv
  BY DEF Init, BackupInv
<1>2. BackupInv => Restorable
  BY DEF BackupInv, Restorable
<1> QED
  BY <1>1, <1>2, BackupNext, OrderInvariant, PTL DEF Spec

-----------------------------------------------------------------------------
(* What is reported as applied is on disk                                  *)

LEMMA AppliedNone ==
  ASSUME NEW content \in [Site -> Byte], NEW edits
  PROVE  Applied(content, edits, 0) = content
<1>1. \A s \in Site : {i \in 1..0 : edits[i].site = s} = {}
  OBVIOUS
<1> QED
  BY <1>1 DEF Applied

\* One more edit replaces one more site.
LEMMA AppliedStep ==
  ASSUME NEW content \in [Site -> Byte], NEW edits \in Seq(Edit),
         NEW k \in 1..Len(edits)
  PROVE  Applied(content, edits, k) =
           [Applied(content, edits, k - 1) EXCEPT ![edits[k].site] = edits[k].value]
<1> DEFINE touching(n, s) == {i \in 1..n : edits[i].site = s}
<1> DEFINE last(T) == CHOOSE i \in T : \A j \in T : j <= i
<1>1. edits[k] \in Edit /\ edits[k].site \in Site
  <2>1. edits[k] \in Edit
    OBVIOUS
  <2>2. QED
    BY <2>1 DEF Edit
<1>2. \A s \in Site \ {edits[k].site} : touching(k, s) = touching(k - 1, s)
  OBVIOUS
<1>3. last(touching(k, edits[k].site)) = k /\ touching(k, edits[k].site) # {}
  <2>1. k \in touching(k, edits[k].site)
    OBVIOUS
  <2>2. \A i \in touching(k, edits[k].site) : i \in Nat /\ i <= k
    OBVIOUS
  <2>3. \A i \in touching(k, edits[k].site) :
          (\A j \in touching(k, edits[k].site) : j <= i) <=> i = k
    BY <2>1, <2>2
  <2>4. QED
    BY <2>1, <2>3
<1>4. \A n : Applied(content, edits, n) =
        [s \in Site |-> IF touching(n, s) = {} THEN content[s]
                        ELSE edits[last(touching(n, s))].value]
  BY DEF Applied
<1> HIDE DEF touching, last
<1> QED
  BY <1>1, <1>2, <1>3, <1>4

\* The edits before the current one are on disk; while radare2 writes, and until
\* the verification, the current one may be too.
Progress(c) ==
  \/ file = Applied(base[c], Edits(c), step[c] - 1)
  \/ /\ pc[c] \in {"writing", "verify"} /\ writer[c] = Nil
     /\ file = Applied(base[c], Edits(c), step[c])

ProgressInv ==
  \A c \in Command :
    /\ Busy(c) => step[c] <= Len(Edits(c)) + 1
    /\ pc[c] = "validate" => step[c] = 1
    /\ Busy(c) /\ ~request[c].dry /\ Undisturbed(c) => Progress(c)

\* The verification tells the two apart.
LEMMA VerifiedMeansApplied ==
  ASSUME TypeInv, NEW c \in Command, pc[c] = "verify", Progress(c), Verified(c)
  PROVE  file = Applied(base[c], Edits(c), step[c])
<1>1. /\ step[c] \in 1..Len(Edits(c)) /\ Edits(c) \in Seq(Edit)
      /\ base[c] \in [Site -> Byte]
  BY RequestType DEF TypeInv, TypeOK
<1>2. CASE file = Applied(base[c], Edits(c), step[c] - 1)
  <2>1. file[Current(c).site] = Current(c).value
    BY DEF Verified
  <2>2. file = [file EXCEPT ![Current(c).site] = Current(c).value]
    BY <2>1 DEF TypeInv, TypeOK
  <2>3. Applied(base[c], Edits(c), step[c])
          = [Applied(base[c], Edits(c), step[c] - 1) EXCEPT ![Current(c).site] = Current(c).value]
    <3> DEFINE content == base[c]
               edits == Edits(c)
               k == step[c]
    <3>1. content \in [Site -> Byte] /\ edits \in Seq(Edit) /\ k \in 1..Len(edits)
      BY <1>1
    <3> HIDE DEF content, edits, k
    <3>2. Applied(content, edits, k)
            = [Applied(content, edits, k - 1) EXCEPT ![edits[k].site] = edits[k].value]
      BY <3>1, AppliedStep
    <3> QED
      BY <3>2, Zenon DEF content, edits, k, Current
  <2>4. QED
    BY <1>2, <2>2, <2>3, Zenon
<1> QED
  BY <1>2 DEF Progress

\* The bounds on step, which no other command matters for.
LEMMA StepBound ==
  ASSUME TypeInv, ProgressInv, [Next]_vars, NEW c \in Command
  PROVE  /\ Busy(c)' => step'[c] <= Len(Edits(c)') + 1
         /\ pc'[c] = "validate" => step'[c] = 1
<1>1. /\ Busy(c) => step[c] <= Len(Edits(c)) + 1
      /\ pc[c] = "validate" => step[c] = 1
      /\ pc[c] = "idle" => step[c] = 1
      /\ pc[c] \in {"prepare", "writing", "verify"} => step[c] <= Len(Edits(c))
      /\ step[c] \in Nat
  BY DEF ProgressInv, TypeInv, TypeOK, SingleStep
<1>2. Busy(c) => Len(Edits(c)) \in Nat
  BY RequestType DEF Busy, TypeInv
<1>0. CASE UNCHANGED vars
  BY <1>0, <1>1 DEF vars, Busy
<1>3. ASSUME NEW d \in Command, NEW r \in Requests, Start(d, r)
      PROVE  /\ Busy(c)' => step'[c] <= Len(Edits(c)') + 1
             /\ pc'[c] = "validate" => step'[c] = 1
  <2>1. Len(r.edits) \in Nat
    BY DEF Request
  <2>2. QED
    BY <1>1, <1>3, <2>1 DEF Start, Busy, TypeInv, TypeOK
<1>4. ASSUME NEW d \in Command, Run(d) \/ ReadFails(d) \/ Kill(d) \/ Write(d)
      PROVE  /\ Busy(c)' => step'[c] <= Len(Edits(c)') + 1
             /\ pc'[c] = "validate" => step'[c] = 1
  <2>1. CASE d # c
    <3>1. /\ step' = step \/ step' = [step EXCEPT ![d] = @ + 1]
          /\ pc' = pc \/ \E l \in Labels : pc' = [pc EXCEPT ![d] = l]
          /\ request' = request
      BY <1>4 DEF Run, ReadFails, Kill, Write, Validate, Simulate, Backup,
           Copied, Resolve, Prepare, WriterExits, WriteTimeout, Verify
    <3>2. pc'[c] = pc[c] /\ step'[c] = step[c]
      BY <2>1, <3>1 DEF TypeInv, TypeOK
    <3>3. QED
      BY <1>1, <3>1, <3>2 DEF Busy
  <2>2. CASE d = c
    <3>1. CASE Simulate(c) \/ Verify(c)
      <4>1. /\ request' = request /\ pc'[c] # "validate"
            /\ step'[c] = step[c] + 1 => step[c] <= Len(Edits(c))
            /\ step'[c] \in {step[c], step[c] + 1}
        <5>1. Busy(c) /\ (step' = step \/ step' = [step EXCEPT ![c] = @ + 1])
          BY <3>1 DEF Simulate, Verify, Busy
        <5>2. request' = request /\ pc'[c] # "validate"
          BY <3>1 DEF Simulate, Verify, TypeInv, TypeOK
        <5>3. step' # step => step[c] <= Len(Edits(c))
          BY <1>1, <1>2, <3>1, <5>1 DEF Simulate, Verify
        <5>4. QED
          BY <1>1, <5>1, <5>2, <5>3 DEF TypeInv, TypeOK
      <4>2. QED
        BY <1>1, <1>2, <3>1, <4>1 DEF Busy, Simulate, Verify
    <3>2. CASE ~(Simulate(c) \/ Verify(c))
      <4>1. /\ request' = request /\ step' = step
            /\ pc'[c] # "validate" \/ pc' = pc
            /\ Busy(c) \/ pc' = pc
        BY <1>4, <2>2, <3>2 DEF Run, ReadFails, Kill, Write, Validate, Backup,
             Copied, Resolve, Prepare, WriterExits, WriteTimeout, Busy, TypeInv, TypeOK
      <4>2. QED
        BY <1>1, <4>1 DEF Busy
    <3>3. QED
      BY <3>1, <3>2
  <2>3. QED
    BY <2>1, <2>2
<1> QED
  BY <1>0, <1>3, <1>4 DEF Next

LEMMA ProgressNext == TypeInv /\ OrderInv /\ ProgressInv /\ [Next]_vars => ProgressInv'
<1> SUFFICES ASSUME TypeInv, OrderInv, ProgressInv, [Next]_vars,
                    NEW c \in Command, Busy(c)', ~request'[c].dry, Undisturbed(c)'
             PROVE  Progress(c)'
  BY StepBound DEF ProgressInv
<1>0. CASE UNCHANGED vars
  BY <1>0 DEF vars, ProgressInv, Progress, Busy, Undisturbed
<1>1. ASSUME NEW d \in Command, NEW r \in Requests, Start(d, r)
      PROVE  Progress(c)'
  <2>1. d = c
    BY <1>1 DEF Start, Busy
  <2>2. file \in [Site -> Byte] /\ base'[c] = file /\ file' = file /\ step'[c] = 1
    BY <1>1, <2>1 DEF Start, TypeInv, TypeOK, SingleStep
  <2>3. file' = Applied(base'[c], Edits(c)', step'[c] - 1)
    BY <2>2, AppliedNone
  <2>4. QED
    BY <2>3 DEF Progress
<1>2. ASSUME NEW d \in Command, Run(d) \/ ReadFails(d) \/ Kill(d) \/ Write(d)
      PROVE  Progress(c)'
  <2>1. latest' = latest /\ base' = base /\ request' = request
    BY <1>2 DEF Run, ReadFails, Kill, Write, Validate, Simulate, Backup, Copied,
                Resolve, Prepare, WriterExits, WriteTimeout, Verify
  <2>2. Busy(c) /\ Progress(c) /\ latest = c
    <3>1. Busy(c)
      BY <1>2 DEF Busy, Run, ReadFails, Kill, Write, Validate, Simulate, Backup,
                Copied, Resolve, Prepare, WriterExits, WriteTimeout, Verify,
                TypeInv, TypeOK
    <3>2. QED
      BY <2>1, <3>1, UndisturbedBefore DEF ProgressInv, OrderInv, Serial
  <2>3. d = c
    <3>1. c # Nil
      OBVIOUS
    <3>2. QED
      BY <1>2, <2>1, <2>2, <3>1, OnlyLatestMoves
  <2>4. /\ writer[c] # Nil => pc[c] = "writing" /\ writer[c] = Current(c)
        /\ step[c] \in Nat \ {0}
        /\ base[c] \in [Site -> Byte]
    BY <2>2 DEF OrderInv, Writers, Busy, TypeInv, TypeOK
  <2>5. CASE Write(c)
    <3>1. pc[c] = "writing" /\ file = Applied(base[c], Edits(c), step[c] - 1)
      BY <2>2, <2>4, <2>5 DEF Write, Progress
    <3>2. /\ step[c] \in 1..Len(Edits(c)) /\ Edits(c) \in Seq(Edit)
          /\ writer[c] = Current(c)
      BY <2>4, <2>5, <3>1, RequestType DEF Write, TypeInv, TypeOK
    <3>3. /\ file' = file
             \/ file' = [file EXCEPT ![Current(c).site] = Current(c).value]
          /\ pc' = pc /\ step' = step /\ writer'[c] = Nil
      BY <2>5, <3>2 DEF Write, TypeInv, TypeOK
    <3>4. Applied(base[c], Edits(c), step[c]) =
            [Applied(base[c], Edits(c), step[c] - 1) EXCEPT
               ![Current(c).site] = Current(c).value]
      <4>1. \A e \in Seq(Edit) : \A k \in 1..Len(e) :
              Applied(base[c], e, k) =
                [Applied(base[c], e, k - 1) EXCEPT ![e[k].site] = e[k].value]
        BY <2>4, AppliedStep
      <4>2. QED
        BY <3>2, <4>1
    <3>5. \/ file' = Applied(base[c], Edits(c), step[c] - 1)
          \/ file' = Applied(base[c], Edits(c), step[c])
      BY <3>1, <3>3, <3>4
    <3>6. Edits(c)' = Edits(c) /\ base'[c] = base[c] /\ step'[c] = step[c]
      BY <2>1, <3>3
    <3>7. QED
      BY <3>1, <3>3, <3>5, <3>6 DEF Progress
  <2>6. CASE Verify(c)
    <3>1. Verified(c) /\ pc'[c] = "resolve" /\ step'[c] = step[c] + 1 /\ file' = file
      <4>1. pc'[c] \notin {"done", "failed"}
        BY <2>3 DEF Busy
      <4>2. QED
        BY <2>4, <2>6, <4>1 DEF Verify, TypeInv, TypeOK
    <3>2. file = Applied(base[c], Edits(c), step[c])
      BY <2>2, <2>6, <3>1, VerifiedMeansApplied DEF Verify
    <3>3. step'[c] - 1 = step[c]
      BY <2>4, <3>1
    <3>4. QED
      BY <2>1, <3>1, <3>2, <3>3 DEF Progress
  <2>7. CASE Simulate(c)
    BY <2>1, <2>7 DEF Simulate, OrderInv, Refused
  <2>8. CASE WriterExits(c)
    BY <2>1, <2>2, <2>8 DEF WriterExits, Progress, TypeInv, TypeOK
  <2>9. CASE Validate(c) \/ Backup(c) \/ Copied(c) \/ Resolve(c) \/ Prepare(c)
    <3>1. file = Applied(base[c], Edits(c), step[c] - 1)
      BY <2>2, <2>9 DEF Progress, Validate, Backup, Copied, Resolve, Prepare
    <3>2. file' = file /\ step' = step
      BY <2>9 DEF Validate, Backup, Copied, Resolve, Prepare
    <3>3. QED
      BY <2>1, <3>1, <3>2 DEF Progress
  <2>10. CASE WriteTimeout(c) \/ ReadFails(c) \/ Kill(c)
    BY <2>10 DEF WriteTimeout, ReadFails, Kill, Busy, TypeInv, TypeOK
  <2>11. QED
    BY <1>2, <2>3, <2>5, <2>6, <2>7, <2>8, <2>9, <2>10 DEF Run
<1> QED
  BY <1>0, <1>1, <1>2 DEF Next

\* A command that reports success has written every one of its edits, in order,
\* and nothing else, unless the orphan of an earlier command interferes.
THEOREM ReportsApplied == Spec => AppliedFaithfully
<1> DEFINE A == \A c \in Command :
                  pc[c] # "done" /\ pc'[c] = "done" /\ ~request[c].dry
                    /\ Undisturbed(c) =>
                    file' = Applied(base[c], Edits(c), Len(Edits(c)))
<1>1. Init => ProgressInv
  BY DEF Init, ProgressInv, Busy
<1>2. TypeInv /\ OrderInv /\ ProgressInv /\ [Next]_vars => [A]_vars
  <2> SUFFICES ASSUME TypeInv, OrderInv, ProgressInv, [Next]_vars, NEW c \in Command,
                      pc[c] # "done", pc'[c] = "done", ~request[c].dry, Undisturbed(c)
               PROVE  file' = Applied(base[c], Edits(c), Len(Edits(c)))
    OBVIOUS
  <2>1. Simulate(c) \/ Resolve(c) \/ Verify(c)
    BY DEF Next, Run, Start, Validate, Simulate, Backup, Copied, Resolve, Prepare,
         WriterExits, WriteTimeout, Verify, ReadFails, Kill, Write, vars, TypeInv,
         TypeOK
  <2>2. /\ Busy(c) /\ Progress(c) /\ step[c] <= Len(Edits(c)) + 1
        /\ file' = file /\ step[c] \in Nat /\ Len(Edits(c)) \in Nat
    BY <2>1, RequestType DEF Simulate, Resolve, Verify, Busy, ProgressInv, TypeInv,
                             TypeOK
  <2>3. CASE Simulate(c)
    BY <2>3 DEF Simulate, OrderInv, Refused
  <2>4. CASE Resolve(c)
    <3>1. step[c] - 1 = Len(Edits(c)) /\ pc[c] = "resolve"
      BY <2>2, <2>4 DEF Resolve, TypeInv, TypeOK
    <3>2. QED
      BY <2>2, <3>1 DEF Progress
  <2>5. CASE Verify(c)
    <3>1. Verified(c) /\ ~request[c].plan /\ pc[c] = "verify"
      BY <2>5 DEF Verify, TypeInv, TypeOK
    <3>2. step[c] = 1 /\ Len(Edits(c)) = 1
      BY <3>1, RequestType DEF TypeInv, SingleStep
    <3>3. QED
      BY <2>2, <3>1, <3>2, VerifiedMeansApplied
  <2>6. QED
    BY <2>1, <2>3, <2>4, <2>5
<1> QED
  BY <1>1, <1>2, ProgressNext, OrderInvariant, PTL DEF Spec, AppliedFaithfully

=============================================================================
