------------------------------ MODULE Patching ------------------------------
(***************************************************************************)
(* The commands of rvs that modify a binary: patch bytes, patch            *)
(* instruction, patch string and agent patch-plan (src/patch/*.rs,         *)
(* src/agent/patch_plan.rs), the radare2 processes that do the writing     *)
(* (src/r2/driver.rs) and the harness's watchdog over them                 *)
(* (execute_rvs_subprocess in rvs_agent_harness.py).                       *)
(*                                                                         *)
(* The binary is a function from patch sites to what radare2 reads there,  *)
(* which is a filler where nothing is mapped; an edit replaces one site.   *)
(* What can be wrong with an edit is its flaw:                             *)
(*   malformed    a field missing, an unknown type, an address or assembly *)
(*                text that validation refuses                             *)
(*   unresolved   the address names no symbol                              *)
(*   badhex       a hex string of odd length or with other characters      *)
(*   empty        no hex digits, or zero NOPs                              *)
(*   unencodable  assembly text that radare2 does not assemble             *)
(*   overflow     a string longer than the one it replaces                 *)
(* The commands run one after the other, as one harness issues them.       *)
(***************************************************************************)
EXTENDS Naturals, Sequences

CONSTANTS Command,   \* invocations of rvs
          Site,      \* places of the binary that edits name
          Byte,      \* what a site may hold
          Unmapped,  \* sites where radare2's writes have no effect
          Filler,    \* what it reads there (ff), which an edit may ask for as well
          Requests,  \* what may be asked of a command
          Initial,   \* the binary before the first command
          Nil

Type == {"bytes", "instruction", "nop", "string"}
Flaw == {"none", "malformed", "unresolved", "badhex", "empty", "unencodable",
         "overflow"}
Edit == [type : Type, site : Site, value : Byte, flaw : Flaw]
Request == [plan : BOOLEAN, dry : BOOLEAN, backup : BOOLEAN, edits : Seq(Edit)]

ASSUME PatchAssumption ==
  /\ Nil \notin Byte \cup Command \cup Edit \cup Requests
  /\ Unmapped \subseteq Site
  /\ Initial \in [Site -> Byte]
  /\ Requests \subseteq Request
  /\ \A r \in Requests : ~r.plan => Len(r.edits) = 1 /\ ~r.dry

ASSUME FillerAssumption == \A s \in Unmapped : Initial[s] = Filler

VARIABLES
  file,     \* the binary on disk, as radare2 reads it
  bak,      \* the contents of its .bak file, Blank if missing or incomplete
  request,  \* what a command was asked
  pc,       \* where it is
  step,     \* which of its edits it is at
  writer,   \* the edit that its `radare2 -w` has yet to write, or Nil
  base,     \* history: the binary when the command started
  latest    \* history: the command started last

vars == <<file, bak, request, pc, step, writer, base, latest>>

Blank == [s \in Site |-> Nil]

Ended == {"done", "failed", "killed"}
Labels == {"idle", "validate", "simulate", "backup", "copying", "resolve",
           "prepare", "writing", "verify"} \cup Ended

TypeOK ==
  /\ file \in [Site -> Byte]
  /\ bak \in [Site -> Byte \cup {Nil}]
  /\ pc \in [Command -> Labels]
  /\ request \in [Command -> Requests \cup {Nil}]
  /\ \A c \in Command : pc[c] # "idle" => request[c] # Nil
  /\ step \in [Command -> Nat \ {0}]
  /\ \A c \in Command : pc[c] \in {"prepare", "writing", "verify"} =>
       step[c] <= Len(request[c].edits)
  /\ writer \in [Command -> Edit \cup {Nil}]
  /\ base \in [Command -> [Site -> Byte]]
  /\ latest \in Command \cup {Nil}

Init ==
  /\ file = Initial
  /\ bak = Blank
  /\ request = [c \in Command |-> Nil]
  /\ pc = [c \in Command |-> "idle"]
  /\ step = [c \in Command |-> 1]
  /\ writer = [c \in Command |-> Nil]
  /\ base = [c \in Command |-> Initial]
  /\ latest = Nil

-----------------------------------------------------------------------------
(* Starting a command                                                      *)

Goto(c, label) == pc' = [pc EXCEPT ![c] = label]
At(c, label) == pc[c] = label

Edits(c) == request[c].edits
Current(c) == Edits(c)[step[c]]
Finished(c) == step[c] > Len(Edits(c))

Start(c, r) ==
  /\ At(c, "idle")
  /\ \A d \in Command : pc[d] \in Ended \cup {"idle"}
  /\ request' = [request EXCEPT ![c] = r]
  /\ base' = [base EXCEPT ![c] = file]
  /\ latest' = c
  /\ Goto(c, IF r.plan THEN "validate" ELSE "resolve")
  /\ UNCHANGED <<file, bak, step, writer>>

\* A plan is refused as a whole if the form of any of its steps is wrong.
Malformed(c) == \E i \in DOMAIN Edits(c) : Edits(c)[i].flaw = "malformed"

Validate_Last(c) ==
  /\ At(c, "validate")
  /\ Goto(c, IF Edits(c) # <<>> /\ Edits(c)[Len(Edits(c))].flaw = "malformed"
             THEN "failed"
             ELSE IF request[c].dry THEN "simulate" ELSE "backup")
  /\ UNCHANGED <<file, bak, request, step, writer, base, latest>>
Validate(c) ==
  /\ At(c, "validate")
  /\ Goto(c, IF Malformed(c) THEN "failed"
             ELSE IF request[c].dry THEN "simulate" ELSE "backup")
  /\ UNCHANGED <<file, bak, request, step, writer, base, latest>>

\* A dry run resolves and assembles, but lets an empty hex string and zero NOPs
\* pass, and whatever text the assembler answers.
Simulate(c) ==
  /\ At(c, "simulate")
  /\ IF Finished(c) THEN Goto(c, "done") /\ UNCHANGED step
     ELSE \/ /\ Current(c).flaw \notin {"unresolved", "badhex"}
             /\ step' = [step EXCEPT ![c] = @ + 1] /\ UNCHANGED pc
          \/ /\ Current(c).flaw \in {"unresolved", "badhex", "unencodable"}
             /\ Goto(c, "failed") /\ UNCHANGED step
  /\ UNCHANGED <<file, bak, request, writer, base, latest>>

-----------------------------------------------------------------------------
(* create_backup: the .bak file is truncated, then filled                  *)

Backup(c) ==
  /\ At(c, "backup")
  /\ \/ bak' = Blank /\ Goto(c, "copying")
     \/ bak' = bak   /\ Goto(c, "failed")
  /\ UNCHANGED <<file, request, step, writer, base, latest>>

Copied_ErrorIgnored(c) ==
  /\ At(c, "copying")
  /\ bak' \in {file, bak}
  /\ Goto(c, IF request[c].plan THEN "resolve" ELSE "prepare")
  /\ UNCHANGED <<file, request, step, writer, base, latest>>
Copied(c) ==
  /\ At(c, "copying")
  /\ \/ /\ bak' = file
        /\ Goto(c, IF request[c].plan THEN "resolve" ELSE "prepare")
     \/ bak' = bak /\ Goto(c, "failed")
  /\ UNCHANGED <<file, request, step, writer, base, latest>>

-----------------------------------------------------------------------------
(* One edit                                                                *)

\* What an edit is refused for before and after a backup would be taken; only
\* the single-string command is strict about the length.
RefusedEarly(c) ==
  \/ Current(c).flaw = "unresolved"
  \/ Current(c).type = "bytes" /\ Current(c).flaw \in {"badhex", "empty"}
  \/ Current(c).type = "string" /\ Current(c).flaw = "overflow" /\ ~request[c].plan
RefusedLate(c) ==
  \/ Current(c).type = "instruction" /\ Current(c).flaw \in {"malformed", "unencodable"}
  \/ Current(c).type = "nop" /\ Current(c).flaw = "empty"

Resolve(c) ==
  /\ At(c, "resolve")
  /\ Goto(c, IF Finished(c) THEN "done"
             ELSE IF RefusedEarly(c) THEN "failed"
             ELSE IF request[c].backup /\ ~request[c].plan THEN "backup"
             ELSE "prepare")
  /\ UNCHANGED <<file, bak, request, step, writer, base, latest>>

\* The last checks, the read of the original bytes, and the start of radare2 -w.
Prepare(c) ==
  /\ At(c, "prepare")
  /\ IF RefusedLate(c)
     THEN Goto(c, "failed") /\ UNCHANGED writer
     ELSE Goto(c, "writing") /\ writer' = [writer EXCEPT ![c] = Current(c)]
  /\ UNCHANGED <<file, bak, request, step, base, latest>>

\* radare2 writes, now or long after rvs is gone.  It reports nothing when the
\* address is not mapped.
Write(c) ==
  /\ writer[c] # Nil
  /\ file' = IF writer[c].site \in Unmapped THEN file
             ELSE [file EXCEPT ![writer[c].site] = writer[c].value]
  /\ writer' = [writer EXCEPT ![c] = Nil]
  /\ UNCHANGED <<bak, request, pc, step, base, latest>>

WriterExits(c) ==
  /\ At(c, "writing") /\ writer[c] = Nil
  /\ Goto(c, "verify")
  /\ UNCHANGED <<file, bak, request, step, writer, base, latest>>

\* execute_command_with_timeout kills radare2's process group and waits for it
\* before it returns the error; a write that failed has no effect.
WriteTimeout_NoKill(c) ==
  /\ At(c, "writing")
  /\ Goto(c, "failed")
  /\ UNCHANGED <<file, bak, request, step, writer, base, latest>>
WriteTimeout_Waits(c) ==
  /\ At(c, "writing") /\ writer[c] = Nil
  /\ Goto(c, "failed")
  /\ UNCHANGED <<file, bak, request, step, writer, base, latest>>
WriteTimeout(c) ==
  /\ At(c, "writing")
  /\ Goto(c, "failed")
  /\ writer' = [writer EXCEPT ![c] = Nil]
  /\ UNCHANGED <<file, bak, request, step, base, latest>>

\* verify_write, and the step to the next edit of a plan.  An edit that asks for the
\* filler where nothing is mapped reads back as written.
Verified_Always(c) == TRUE
Verified(c) == file[Current(c).site] = Current(c).value

Verify_NoBound(c) ==
  /\ At(c, "verify")
  /\ IF Verified(c) /\ request[c].plan
     THEN Goto(c, "prepare") /\ step' = [step EXCEPT ![c] = @ + 1]
     ELSE Goto(c, IF Verified(c) THEN "done" ELSE "failed") /\ UNCHANGED step
  /\ UNCHANGED <<file, bak, request, writer, base, latest>>
Verify(c) ==
  /\ At(c, "verify")
  /\ IF Verified(c) /\ request[c].plan
     THEN Goto(c, "resolve") /\ step' = [step EXCEPT ![c] = @ + 1]
     ELSE Goto(c, IF Verified(c) THEN "done" ELSE "failed") /\ UNCHANGED step
  /\ UNCHANGED <<file, bak, request, writer, base, latest>>

\* A radare2 that only reads fails or is killed at its timeout.
ReadFails(c) ==
  /\ pc[c] \in {"simulate", "resolve", "prepare", "verify"} /\ ~Finished(c)
  /\ Goto(c, "failed")
  /\ UNCHANGED <<file, bak, request, step, writer, base, latest>>

\* The harness's timeout kills the process group of rvs.  radare2 has a group
\* of its own, so one that is about to write lives on.
Kill(c) ==
  /\ pc[c] \notin Ended \cup {"idle"}
  /\ Goto(c, "killed")
  /\ UNCHANGED <<file, bak, request, step, writer, base, latest>>

-----------------------------------------------------------------------------
(* The specification                                                       *)

Run(c) ==
  \/ Validate(c) \/ Simulate(c) \/ Backup(c) \/ Copied(c) \/ Resolve(c)
  \/ Prepare(c) \/ WriterExits(c) \/ WriteTimeout(c) \/ Verify(c)

Next == \E c \in Command :
  \/ \E r \in Requests : Start(c, r)
  \/ Run(c) \/ ReadFails(c) \/ Write(c) \/ Kill(c)

Spec == Init /\ [][Next]_vars

\* rvs runs; radare2 need not.
FairSpec == Spec /\ \A c \in Command : WF_vars(Run(c))

-----------------------------------------------------------------------------
(* Properties                                                              *)

\* A binary after the first n of a sequence of edits.
Applied(content, edits, n) ==
  [s \in Site |->
     LET touching == {i \in 1..n : edits[i].site = s}
     IN IF touching = {} THEN content[s]
        ELSE edits[CHOOSE i \in touching : \A j \in touching : j <= i].value]

\* No earlier command was killed, so none has left a writer to interfere.
Undisturbed(c) == \A d \in Command \ {c} : pc[d] # "killed"

\* What is reported as applied is what is on disk: every edit of the command,
\* in order, on the binary it was started on, and nothing else; an edit where nothing
\* is mapped is reported only if it asks for what is read there anyway.
AppliedFaithfully ==
  [][\A c \in Command :
       pc[c] # "done" /\ pc'[c] = "done" /\ ~request[c].dry /\ Undisturbed(c) =>
         file' = Applied(base[c], Edits(c), Len(Edits(c)))]_vars

\* Until the next command starts, .bak undoes a command that was to keep a
\* backup, at whichever edit it failed or was killed.
KeepsBackup(r) == (r.plan /\ ~r.dry) \/ (~r.plan /\ r.backup)
Restorable ==
  latest # Nil /\ KeepsBackup(request[latest]) /\ Undisturbed(latest) =>
    file = base[latest] \/ bak = base[latest]

\* A plan with a malformed step anywhere, and a dry run, leave both files alone.
RefusedPlanUntouched ==
  [][\A c \in Command :
       pc[c] \notin Ended \cup {"idle"} /\ request[c].plan
         /\ (Malformed(c) \/ request[c].dry) /\ Undisturbed(c) =>
         file' = file /\ bak' = bak]_vars

\* A command that has answered, with whatever error, has left no writer behind:
\* afterwards only the orphan of a killed command can change the binary.
NoLateWrite ==
  [][file' # file =>
       \E c \in Command : pc[c] \in {"writing", "killed"} /\ writer[c] # Nil]_vars

\* patch-plan promises to apply a plan atomically: as a whole or not at all.
PlanAtomic ==
  \A c \in Command :
    pc[c] \in {"done", "failed"} /\ request[c].plan /\ ~request[c].dry /\ latest = c =>
      file \in {base[c], Applied(base[c], Edits(c), Len(Edits(c)))}

\* Every command answers, also when radare2 hangs.
CommandEnds ==
  \A c \in Command : (pc[c] # "idle") ~> (pc[c] \in Ended)

=============================================================================
