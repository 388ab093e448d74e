--------------------------- MODULE DebugSessions ---------------------------
(***************************************************************************)
(* The debug methods of RvsHarness (debug_spawn .. debug_kill), its three  *)
(* composite workflows over them (triage_crash, bypass_decision_gate,      *)
(* dump_decrypted_buffer) and the debug daemon they talk to.               *)
(*                                                                         *)
(* An agent is one harness process; it makes one call at a time.  All      *)
(* agents of a user share the daemon, which is not in the repository: what *)
(* it may do is read off the harness's handling of its answers.  A call is *)
(* a request, the daemon's doing, and the harness's handling of the reply. *)
(* The debug methods that only look (breakpoint, memory, registers without *)
(* --set, list-sessions) are the request "inspect"; registers with --set   *)
(* is "flip".                                                              *)
(***************************************************************************)
EXTENDS Naturals, FiniteSets

CONSTANTS Agent, Session, Nil,
          Asks,      \* the calls and workflows that each agent makes
          Branch,    \* kinds of conditional branches at gates
          MaxLate,   \* bound: requests that outlive their agent's patience
          MaxCrash   \* bound: ends of an agent's process

Workflow == {"triage", "bypass", "dump", "dump_triage"}
CallOps == {"spawn", "continue", "inspect", "flip", "step", "kill"}
Event == {"fresh", "breakpoint", "exited", "signaled", "stopped"}
Flag == {"set", "clear"}
Kind == {"ok", "unreadable", "error", "timeout"}
Verdict == {"none", "timeout", "raised", "crashed", "exited", "clean",
            "bypassed", "failed", "extracted"}
Request == [from : Agent, op : CallOps, session : Session \cup {Nil},
            value : Flag \cup {Nil}]
Reply == [kind : Kind, value : Session \cup Event \cup Flag \cup {Nil}]
Debuggee == [status : {"none", "live", "gone"}, maker : Agent \cup {Nil},
             event : Event, zf : Flag, zf0 : Flag]

ASSUME SessionAssumption ==
  /\ Nil \notin Agent \cup Session \cup Request \cup Reply
  /\ MaxLate \in Nat /\ MaxCrash \in Nat
  /\ Asks \in [Agent -> SUBSET {"spawn", "continue", "inspect", "flip", "step", "kill",
                                "triage", "bypass", "dump"}]
  /\ Branch \subseteq {"je", "jne", "jl", "jge", "jle", "jg", "other"}

VARIABLES
  active,    \* _active_debug_sessions of each agent
  recent,    \* its _most_recent_session_id
  flow,      \* what it executes: "idle", "call" or a workflow
  pc,        \* which reply it waits for
  sess,      \* sess_id of its workflow
  gate,      \* the branch its bypass workflow found
  verdict,   \* what its workflow has concluded so far
  request,   \* what it has sent, until it is answered
  reply,     \* what it got back, until it is handled
  debuggee,  \* the daemon's sessions
  late,      \* requests that rvs was killed over and the daemon may still serve
  crashes,   \* agent processes that have ended
  lost,      \* history: sessions whose id no agent was told, or has forgotten
  disturbed, \* history: sessions used by another agent's or a late request
  answered,  \* history: the reply the verdict rests on was a proper one
  before     \* history: sessions and default of an agent at its workflow's start,
             \* and the sessions since whose kill was not reported a success

agentVars == <<active, recent, flow, pc, sess, gate, verdict, answered, before>>
daemonVars == <<debuggee, late, lost, disturbed>>
vars == <<agentVars, request, reply, crashes, daemonVars>>

Labels == {"none", "check", "call", "call_spawn", "call_kill", "spawn", "breakpoint", "continue", "read",
           "flip", "step", "step_only", "memory", "kill"}
Sessionless == {"none", "check", "call", "call_spawn", "call_kill", "spawn"}

Types ==
  /\ active \in [Agent -> SUBSET Session]
  /\ recent \in [Agent -> Session \cup {Nil}]
  /\ flow \in [Agent -> {"idle", "call"} \cup Workflow]
  /\ pc \in [Agent -> Labels]
  /\ sess \in [Agent -> Session \cup {Nil}]
  /\ gate \in [Agent -> Branch \cup {Nil}]
  /\ verdict \in [Agent -> Verdict]
  /\ request \in [Agent -> Request \cup {Nil}]
  /\ reply \in [Agent -> Reply \cup {Nil}]
  /\ debuggee \in [Session -> Debuggee]
  /\ late \subseteq Request
  /\ crashes \in 0..MaxCrash
  /\ lost \subseteq Session /\ disturbed \subseteq Session
  /\ answered \in [Agent -> BOOLEAN]
  /\ before \in [Agent -> [active : SUBSET Session, recent : Session \cup {Nil},
                           unkilled : SUBSET Session]]

\* A workflow past its spawn has a session that the daemon made for it.
SessionHeld ==
  \A a \in Agent : pc[a] \in Labels \ Sessionless =>
    sess[a] # Nil /\ debuggee[sess[a]].maker = a

TypeOK == Types /\ SessionHeld

\* A session that has ended; what its debuggee did is forgotten.
Unused == [status |-> "none", maker |-> Nil, event |-> "fresh", zf |-> "clear",
           zf0 |-> "clear"]
Ended(d) == [Unused EXCEPT !.status = "gone", !.maker = d.maker]

Nothing == [active |-> {}, recent |-> Nil, unkilled |-> {}]

Init ==
  /\ active = [a \in Agent |-> {}]
  /\ recent = [a \in Agent |-> Nil]
  /\ flow = [a \in Agent |-> "idle"]
  /\ pc = [a \in Agent |-> "none"]
  /\ sess = [a \in Agent |-> Nil]
  /\ gate = [a \in Agent |-> Nil]
  /\ verdict = [a \in Agent |-> "none"]
  /\ request = [a \in Agent |-> Nil]
  /\ reply = [a \in Agent |-> Nil]
  /\ debuggee = [s \in Session |-> Unused]
  /\ late = {} /\ crashes = 0 /\ lost = {} /\ disturbed = {}
  /\ answered = [a \in Agent |-> FALSE]
  /\ before = [a \in Agent |-> Nothing]

-----------------------------------------------------------------------------
(* The daemon (external)                                                   *)

Live(s) == debuggee[s].status = "live"

\* A session the request may reach: the named one, or any when none is named.
Reached(r) == {s \in Session : Live(s) /\ r.session \in {s, Nil}}

\* What the request makes of a session.
Acted(d, r) ==
  CASE r.op = "continue" ->
         {[d EXCEPT !.event = e] : e \in {"exited", "signaled", "stopped"}}
         \cup {[d EXCEPT !.event = "breakpoint", !.zf = z, !.zf0 = z] : z \in Flag}
    [] r.op = "flip" -> {[d EXCEPT !.zf = r.value]}
    [] r.op = "kill" -> {Ended(d)}
    [] OTHER -> {d}

Content(d, r) ==
  CASE r.op = "continue" -> d.event
    [] r.op = "inspect" -> d.zf
    [] OTHER -> Nil

Answer(a, k, v) ==
  /\ reply' = [reply EXCEPT ![a] = [kind |-> k, value |-> IF k = "ok" THEN v ELSE Nil]]
  /\ request' = [request EXCEPT ![a] = Nil]

Make(s, r) ==
  /\ debuggee[s].status = "none"
  /\ debuggee' = [debuggee EXCEPT ![s].status = "live", ![s].maker = r.from]

Act(s, r) ==
  \E d \in Acted(debuggee[s], r) : debuggee' = [debuggee EXCEPT ![s] = d]

\* Whatever has been done, the answer may be unreadable, an error or too late.
ServeSpawn(a) ==
  /\ request[a] # Nil /\ request[a].op = "spawn"
  /\ \E s \in Session, k \in Kind :
       /\ Make(s, request[a])
       /\ Answer(a, k, s)
       /\ lost' = IF k = "ok" THEN lost ELSE lost \cup {s}
  /\ UNCHANGED <<agentVars, crashes, late, disturbed>>

ServeSession(a) ==
  /\ request[a] # Nil /\ request[a].op # "spawn"
  /\ \E s \in Reached(request[a]), k \in Kind :
       /\ Act(s, request[a])
       /\ Answer(a, k, Content(debuggee'[s], request[a]))
       /\ disturbed' = IF debuggee[s].maker = a THEN disturbed ELSE disturbed \cup {s}
  /\ UNCHANGED <<agentVars, crashes, late, lost>>

Refuse(a) ==
  /\ request[a] # Nil
  /\ Answer(a, "error", Nil)
  /\ UNCHANGED <<agentVars, crashes, daemonVars>>

ServeLate(r) ==
  /\ r \in late
  /\ late' = late \ {r}
  /\ \/ /\ r.op = "spawn"
        /\ \E s \in Session : Make(s, r) /\ lost' = lost \cup {s}
        /\ UNCHANGED disturbed
     \/ /\ r.op # "spawn"
        /\ \E s \in Reached(r) : Act(s, r) /\ disturbed' = disturbed \cup {s}
        /\ UNCHANGED lost
  /\ UNCHANGED <<agentVars, request, reply, crashes>>

\* The debuggee is killed from outside, or the daemon drops it.
SessionEnds(s) ==
  /\ Live(s)
  /\ debuggee' = [debuggee EXCEPT ![s] = Ended(debuggee[s])]
  /\ UNCHANGED <<agentVars, request, reply, crashes, late, lost, disturbed>>

\* The harness kills the rvs that waits for the daemon; the daemon may already
\* hold the request, and serve it later.  (Only those that make or end a session
\* are kept: the others change a session whose workflow has given up.)
Abandoned(r) ==
  IF r.op \in {"spawn", "kill"} /\ Cardinality(late) < MaxLate
  THEN {late, late \cup {r}} ELSE {late}

TimeOut_NotKill(a) ==
  /\ request[a] # Nil /\ request[a].op # "kill"
  /\ late' \in Abandoned(request[a])
  /\ Answer(a, "timeout", Nil)
  /\ UNCHANGED <<agentVars, crashes, debuggee, lost, disturbed>>
TimeOut(a) ==
  /\ request[a] # Nil
  /\ late' \in Abandoned(request[a])
  /\ Answer(a, "timeout", Nil)
  /\ UNCHANGED <<agentVars, crashes, debuggee, lost, disturbed>>

-----------------------------------------------------------------------------
(* One debug call                                                          *)

Send(a, op, s, v) ==
  /\ request' = [request EXCEPT
       ![a] = [from |-> a, op |-> op, session |-> s, value |-> v]]
  /\ reply' = [reply EXCEPT ![a] = Nil]

\* _resolve_debug_session
Resolved(a, s) == IF s # Nil THEN s ELSE recent[a]

\* The replies that run() reports as success; an unreadable one carries no data.
Success(a) == reply[a].kind \in {"ok", "unreadable"}

\* debug_spawn and debug_attach: the session is noted if the answer names it.
NoteSpawn(a) ==
  IF reply[a].kind = "ok"
  THEN /\ active' = [active EXCEPT ![a] = @ \cup {reply[a].value}]
       /\ recent' = [recent EXCEPT ![a] = reply[a].value]
  ELSE UNCHANGED <<active, recent>>

\* debug_kill: another session, whichever, becomes the default.
NoteKill_KeepsDefault(a, s) ==
  IF Success(a) /\ s # Nil
  THEN active' = [active EXCEPT ![a] = @ \ {s}] /\ UNCHANGED recent
  ELSE UNCHANGED <<active, recent>>
NoteKill_AnyAnswer(a, s) ==
  IF s # Nil
  THEN /\ active' = [active EXCEPT ![a] = @ \ {s}]
       /\ IF recent[a] = s
          THEN \E n \in active'[a] \cup {Nil} :
                 (n = Nil <=> active'[a] = {}) /\ recent' = [recent EXCEPT ![a] = n]
          ELSE UNCHANGED recent
  ELSE UNCHANGED <<active, recent>>
NoteKill(a, s) ==
  IF Success(a) /\ s # Nil
  THEN /\ active' = [active EXCEPT ![a] = @ \ {s}]
       /\ IF recent[a] = s
          THEN \E n \in active'[a] \cup {Nil} :
                 (n = Nil <=> active'[a] = {}) /\ recent' = [recent EXCEPT ![a] = n]
          ELSE UNCHANGED recent
  ELSE UNCHANGED <<active, recent>>

Call(a, op, s) ==
  /\ flow[a] = "idle"
  /\ flow' = [flow EXCEPT ![a] = "call"]
  /\ pc' = [pc EXCEPT ![a] = IF op = "spawn" THEN "call_spawn"
                             ELSE IF op = "kill" THEN "call_kill" ELSE "call"]
  /\ LET to == IF op = "spawn" THEN Nil ELSE Resolved(a, s)
     IN /\ sess' = [sess EXCEPT ![a] = to]
        /\ \E v \in IF op = "flip" THEN Flag ELSE {Nil} : Send(a, op, to, v)
  /\ UNCHANGED <<active, recent, gate, verdict, answered, before, crashes, daemonVars>>

\* What a call answers is its verdict when it returns; nobody keeps it.
Return(a) ==
  /\ flow' = [flow EXCEPT ![a] = "idle"]
  /\ pc' = [pc EXCEPT ![a] = "none"]
  /\ sess' = [sess EXCEPT ![a] = Nil]
  /\ gate' = [gate EXCEPT ![a] = Nil]
  /\ verdict' = [verdict EXCEPT ![a] = "none"]
  /\ reply' = [reply EXCEPT ![a] = Nil]
  /\ answered' = [answered EXCEPT ![a] = FALSE]
  /\ before' = [before EXCEPT ![a] = Nothing]
  /\ UNCHANGED request

CallReturns(a) ==
  /\ flow[a] = "call" /\ reply[a] # Nil
  /\ CASE pc[a] = "call_spawn" -> NoteSpawn(a)
       [] pc[a] = "call_kill" -> NoteKill(a, sess[a])
       [] OTHER -> UNCHANGED <<active, recent>>
  /\ Return(a)
  /\ UNCHANGED <<crashes, daemonVars>>

-----------------------------------------------------------------------------
(* The workflows up to their session                                       *)

Start(a, f) ==
  /\ flow[a] = "idle"
  /\ flow' = [flow EXCEPT ![a] = f]
  /\ pc' = [pc EXCEPT ![a] = "check"]
  /\ verdict' = [verdict EXCEPT ![a] = "none"]
  /\ before' = [before EXCEPT
       ![a] = [active |-> active[a], recent |-> recent[a], unkilled |-> {}]]
  /\ answered' = [answered EXCEPT ![a] = FALSE]
  /\ UNCHANGED <<active, recent, sess, gate, request, reply, crashes, daemonVars>>

\* kept are the sessions whose kill has not been confirmed
Spawn(a, f, g, kept) ==
  /\ flow' = [flow EXCEPT ![a] = f]
  /\ gate' = [gate EXCEPT ![a] = g]
  /\ pc' = [pc EXCEPT ![a] = "spawn"]
  /\ sess' = [sess EXCEPT ![a] = Nil]
  /\ verdict' = [verdict EXCEPT ![a] = "none"]
  /\ answered' = [answered EXCEPT ![a] = FALSE]
  /\ before' = [before EXCEPT ![a].unkilled = @ \cup kept]
  /\ Send(a, "spawn", Nil, Nil)

Refused(a) == Return(a) /\ UNCHANGED <<active, recent>>
Begins(a, f, g) == Spawn(a, f, g, {}) /\ UNCHANGED <<active, recent>>
Checks(a, f) == pc[a] = "check" /\ flow[a] = f /\ UNCHANGED <<crashes, daemonVars>>

\* The file is missing, cannot be read or is no program: nothing is started.
CheckTriage(a) ==
  Checks(a, "triage") /\ (Refused(a) \/ Begins(a, "triage", Nil))

\* The functions, their flow or a gate cannot be found; otherwise the first gate
\* that flow() reports is taken.
CheckBypass(a) ==
  Checks(a, "bypass") /\ (Refused(a) \/ \E g \in Branch : Begins(a, "bypass", g))

\* The address is refused; triage_crash may refuse the file, and then is skipped.
CheckDump(a) ==
  /\ Checks(a, "dump")
  /\ Refused(a) \/ \E f \in {"dump_triage", "dump"} : Begins(a, f, Nil)

\* triage_crash ends; inside dump_decrypted_buffer the outer workflow goes on
\* unless the target crashed or the exception passes through.
Conclude(a, v, kept) ==
  IF flow[a] = "dump_triage" /\ v \notin {"crashed", "raised"}
  THEN Spawn(a, "dump", Nil, kept)
  ELSE Return(a)

-----------------------------------------------------------------------------
(* The workflows from their session on                                     *)

Handles(a, label) == pc[a] = label /\ reply[a] # Nil

Then(a, label, op, v) ==
  /\ pc' = [pc EXCEPT ![a] = label]
  /\ Send(a, op, sess[a], v)

Triage(a) == flow[a] \in {"triage", "dump_triage"}

\* Without a session there is nothing to kill.  triage_crash looks for the id in
\* the data of an unreadable answer, which may be text.
SpawnFails(a) ==
  /\ Handles(a, "spawn") /\ reply[a].kind # "ok"
  /\ \/ ~Triage(a) /\ Conclude(a, "failed", {})
     \/ Triage(a) /\ Conclude(a, "spawn_failed", {})
     \/ Triage(a) /\ Success(a) /\ Conclude(a, "raised", {})
  /\ UNCHANGED <<active, recent, crashes, daemonVars>>

\* dump_decrypted_buffer sets a breakpoint if it found a symbol to stop at.
Spawned_AnyAnswer(a) ==
  /\ Handles(a, "spawn")
  /\ NoteSpawn(a)
  /\ sess' = [sess EXCEPT ![a] = reply[a].value]
  /\ pc' = [pc EXCEPT ![a] = "continue"]
  /\ Send(a, "continue", sess'[a], Nil)
  /\ UNCHANGED <<flow, gate, verdict, answered, before, crashes, daemonVars>>
Spawned(a) ==
  /\ Handles(a, "spawn") /\ reply[a].kind = "ok"
  /\ NoteSpawn(a)
  /\ sess' = [sess EXCEPT ![a] = reply[a].value]
  /\ LET set == /\ pc' = [pc EXCEPT ![a] = "breakpoint"]
               /\ Send(a, "inspect", sess'[a], Nil)
         go  == /\ pc' = [pc EXCEPT ![a] = "continue"]
               /\ Send(a, "continue", sess'[a], Nil)
     IN CASE Triage(a) -> go
          [] flow[a] = "bypass" -> set
          [] flow[a] = "dump" -> set \/ go
  /\ UNCHANGED <<flow, gate, verdict, answered, before, crashes, daemonVars>>

\* Nobody looks whether the breakpoint was set.
BreakpointSet(a) ==
  /\ Handles(a, "breakpoint")
  /\ Then(a, "continue", "continue", Nil)
  /\ UNCHANGED <<active, recent, flow, sess, gate, verdict, answered, before,
                 crashes, daemonVars>>

\* What triage_crash makes of the answer: an error without data has no status and
\* counts as no crash, data or an error that is null raises.
TriageVerdicts_StatusOnly(a) ==
  CASE reply[a].kind = "timeout" -> {"timeout"}
    [] reply[a].kind = "ok" /\ reply[a].value = "exited" -> {"exited"}
    [] OTHER -> {"clean"}
TriageVerdicts(a) ==
  CASE reply[a].kind = "timeout" -> {"timeout"}
    [] reply[a].kind = "unreadable" -> {"raised"}
    [] reply[a].kind = "error" -> {"clean", "raised"}
    [] reply[a].kind = "ok" /\ reply[a].value = "exited" -> {"exited"}
    [] reply[a].kind = "ok" /\ reply[a].value = "signaled" -> {"crashed"}
    [] OTHER -> {"clean"}

Concludes(a, v) == verdict' = [verdict EXCEPT ![a] = v]

TriageContinued_NoFinally(a) ==
  /\ Handles(a, "continue") /\ Triage(a) /\ reply[a].kind = "timeout"
  /\ Conclude(a, "timeout", {})
  /\ UNCHANGED <<active, recent, crashes, daemonVars>>
TriageContinued(a) ==
  /\ Handles(a, "continue") /\ Triage(a)
  /\ answered' = [answered EXCEPT ![a] = reply[a].kind = "ok"]
  /\ \E v \in TriageVerdicts(a) : Concludes(a, v)
  /\ Then(a, "kill", "kill", Nil)
  /\ UNCHANGED <<active, recent, flow, sess, gate, before, crashes, daemonVars>>

BypassContinued(a) ==
  /\ Handles(a, "continue") /\ flow[a] = "bypass"
  /\ IF reply[a].kind = "ok" /\ reply[a].value = "breakpoint"
     THEN Then(a, "read", "inspect", Nil) /\ UNCHANGED verdict
     ELSE Concludes(a, "failed") /\ Then(a, "kill", "kill", Nil)
  /\ UNCHANGED <<active, recent, flow, sess, gate, answered, before, crashes, daemonVars>>

\* Wherever the target stopped, the buffer is read.
DumpContinued(a) ==
  /\ Handles(a, "continue") /\ flow[a] = "dump"
  /\ Then(a, "memory", "inspect", Nil)
  /\ UNCHANGED <<active, recent, flow, sess, gate, verdict, answered, before,
                 crashes, daemonVars>>

Inverse(f) == IF f = "set" THEN "clear" ELSE "set"

\* rflags ^ 0x40; without an answer rflags are taken to be 0x202, ZF clear.
RegistersRead_SetsOnly(a) ==
  /\ Handles(a, "read")
  /\ answered' = [answered EXCEPT ![a] = reply[a].kind = "ok"]
  /\ Then(a, "flip", "flip", "set")
  /\ UNCHANGED <<active, recent, flow, sess, gate, verdict, before, crashes, daemonVars>>
RegistersRead(a) ==
  /\ Handles(a, "read")
  /\ answered' = [answered EXCEPT ![a] = reply[a].kind = "ok"]
  /\ LET zf == IF reply[a].kind = "ok" THEN reply[a].value ELSE "clear"
     IN Then(a, "flip", "flip", Inverse(zf))
  /\ UNCHANGED <<active, recent, flow, sess, gate, verdict, before, crashes, daemonVars>>

\* The step is taken whether or not the flags were set.
Flipped(a) ==
  /\ Handles(a, "flip")
  /\ Then(a, IF Success(a) THEN "step" ELSE "step_only", "step", Nil)
  /\ UNCHANGED <<active, recent, flow, sess, gate, verdict, answered, before,
                 crashes, daemonVars>>

Stepped(a) ==
  /\ Handles(a, "step") \/ Handles(a, "step_only")
  /\ Concludes(a, IF pc[a] = "step" /\ Success(a) THEN "bypassed" ELSE "failed")
  /\ Then(a, "kill", "kill", Nil)
  /\ UNCHANGED <<active, recent, flow, sess, gate, answered, before, crashes, daemonVars>>

\* An answer that holds no bytes is not a buffer.
MemoryRead(a) ==
  /\ Handles(a, "memory")
  /\ \/ reply[a].kind = "ok" /\ Concludes(a, "extracted")
     \/ Concludes(a, "failed")
  /\ Then(a, "kill", "kill", Nil)
  /\ UNCHANGED <<active, recent, flow, sess, gate, answered, before, crashes, daemonVars>>

\* The finally block; what it raises is swallowed.
Killed(a) ==
  /\ Handles(a, "kill")
  /\ NoteKill(a, sess[a])
  /\ Conclude(a, verdict[a], IF Success(a) THEN {} ELSE {sess[a]})
  /\ UNCHANGED <<crashes, daemonVars>>

-----------------------------------------------------------------------------
(* The specification                                                       *)

\* The agent's process ends without its finally blocks; the daemon goes on.
Crash(a) ==
  /\ crashes < MaxCrash
  /\ crashes' = crashes + 1
  /\ active' = [active EXCEPT ![a] = {}]
  /\ recent' = [recent EXCEPT ![a] = Nil]
  /\ flow' = [flow EXCEPT ![a] = "idle"]
  /\ pc' = [pc EXCEPT ![a] = "none"]
  /\ sess' = [sess EXCEPT ![a] = Nil]
  /\ gate' = [gate EXCEPT ![a] = Nil]
  /\ verdict' = [verdict EXCEPT ![a] = "none"]
  /\ request' = [request EXCEPT ![a] = Nil]
  /\ reply' = [reply EXCEPT ![a] = Nil]
  /\ late' \in IF request[a] = Nil THEN {late} ELSE Abandoned(request[a])
  /\ answered' = [answered EXCEPT ![a] = FALSE]
  /\ before' = [before EXCEPT ![a] = Nothing]
  /\ lost' = lost \cup {s \in Session : debuggee[s].maker = a}
  /\ UNCHANGED <<debuggee, disturbed>>

Step(a) ==
  \/ CallReturns(a) \/ CheckTriage(a) \/ CheckBypass(a) \/ CheckDump(a)
  \/ SpawnFails(a) \/ Spawned(a) \/ BreakpointSet(a) \/ TriageContinued(a)
  \/ BypassContinued(a) \/ DumpContinued(a) \/ RegistersRead(a) \/ Flipped(a)
  \/ Stepped(a) \/ MemoryRead(a) \/ Killed(a)

Daemon ==
  \/ \E a \in Agent : ServeSpawn(a) \/ ServeSession(a) \/ Refuse(a)
  \/ \E r \in late : ServeLate(r)
  \/ \E s \in Session : SessionEnds(s)

\* An agent may name any session that list-sessions shows.
Next ==
  \/ Daemon
  \/ \E a \in Agent :
       \/ \E op \in CallOps \cap Asks[a], s \in {t \in Session : Live(t)} \cup {Nil} :
            Call(a, op, s)
       \/ \E f \in Workflow \cap Asks[a] : Start(a, f)
       \/ Step(a) \/ TimeOut(a) \/ Crash(a)

Spec == Init /\ [][Next]_vars

\* The harness runs, and every run() has a time limit.
FairSpec == Spec /\ \A a \in Agent : WF_vars(Step(a)) /\ WF_vars(TimeOut(a))

-----------------------------------------------------------------------------
(* Properties                                                              *)

\* Every live session can still be named by the agent that made it, unless the
\* answer to its spawn never arrived or the agent's process has ended.
SessionsAccounted ==
  \A s \in Session : Live(s) =>
    \/ s \in lost
    \/ s \in active[debuggee[s].maker]
    \/ LET r == reply[debuggee[s].maker] IN r # Nil /\ r.kind = "ok" /\ r.value = s

\* The default session is one of the agent's own, and only an agent that has none
\* leaves the choice to the daemon, which knows the sessions of every agent.
DefaultIsOwn ==
  \A a \in Agent :
    /\ recent[a] # Nil => recent[a] \in active[a]
    /\ recent[a] = Nil => active[a] = {}
    /\ request[a] # Nil /\ request[a].op # "spawn" /\ request[a].session = Nil =>
         active[a] = {}

\* If a's workflow ends in this step, everything is as it was before it, but for the
\* sessions whose kill was not confirmed.
RestoredBy(a) ==
  flow[a] \in Workflow /\ flow'[a] = "idle" /\ crashes' = crashes =>
    LET unkilled == before[a].unkilled \cup
                    (IF pc[a] = "kill" /\ ~Success(a) THEN {sess[a]} ELSE {})
    IN /\ active'[a] = before[a].active \cup unkilled
       /\ unkilled = {} /\ (\A s, t \in before[a].active : s = t) =>
            recent'[a] = before[a].recent

\* Whatever fails, times out or raises in a workflow, its agent knows afterwards
\* the sessions it knew before and those whose kill was not confirmed, and the
\* default is the old one unless there were several to choose from.
WorkflowRestores == [][\A a \in Agent : RestoredBy(a)]_vars

Concluded(a, f) ==
  flow[a] \in f /\ pc[a] = "kill" /\ Live(sess[a]) /\ sess[a] \notin disturbed

\* triage_crash reports a crash only of a debuggee that crashed, and no crash only
\* of one that did not, provided its continue was answered and nobody else drove
\* the session.  (A refused continue is reported as no crash.)
VerdictFaithful ==
  \A a \in Agent : Concluded(a, {"triage", "dump_triage"}) =>
    LET crashed == debuggee[sess[a]].event = "signaled" IN
    /\ verdict[a] = "crashed" => crashed
    /\ verdict[a] \in {"clean", "exited"} /\ answered[a] => ~crashed

\* Whether a conditional jump is taken; less is SF # OF.
Taken(b, zf, less) ==
  CASE b = "je" -> zf = "set"
    [] b = "jne" -> zf = "clear"
    [] b = "jl" -> less
    [] b = "jge" -> ~less
    [] b = "jle" -> zf = "set" \/ less
    [] b = "jg" -> zf = "clear" /\ ~less
    [] OTHER -> FALSE

\* The branch of the patch plan; for other branches it only puts a nop before.
Inverted(b) ==
  CASE b = "je" -> "jne" [] b = "jne" -> "je" [] b = "jle" -> "jg"
    [] b = "jge" -> "jl" [] b = "jl" -> "jge" [] b = "jg" -> "jle"
    [] OTHER -> b

\* A gate reported as bypassed did go the other way, if the zero flag decides its
\* branch and the flags could be read; and the branch of the patch plan goes the
\* other way whatever the flags.  (Only ZF is flipped: a jl is reported bypassed
\* although it goes where it always went.)
BypassInverts ==
  \A a \in Agent : Concluded(a, {"bypass"}) /\ verdict[a] = "bypassed" =>
    LET d == debuggee[sess[a]] IN \A less \in BOOLEAN :
    /\ Taken(gate[a], "set", less) # Taken(gate[a], "clear", less) /\ answered[a] =>
         Taken(gate[a], d.zf, less) # Taken(gate[a], d.zf0, less)
    /\ gate[a] # "other" =>
         \A z \in Flag : Taken(Inverted(gate[a]), z, less) # Taken(gate[a], z, less)

\* Every call and every workflow returns, also when the daemon never answers.
CallEnds == \A a \in Agent : (flow[a] # "idle") ~> (flow[a] = "idle")

=============================================================================
