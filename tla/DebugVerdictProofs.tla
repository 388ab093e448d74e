------------------------ MODULE DebugVerdictProofs ------------------------
(***************************************************************************)
(* Proofs that the verdicts of the debug workflows rest on what the        *)
(* debuggee did: what an agent has heard of a session that nobody else     *)
(* drives is still so when it concludes.                                   *)
(***************************************************************************)
EXTENDS DebugSessionsProofs

\* What a workflow sends while it is at a label.
Sent == [breakpoint |-> "inspect", continue |-> "continue", read |-> "inspect", flip |-> "flip",
         step |-> "step", step_only |-> "step", memory |-> "inspect", kill |-> "kill"]

Course(a) ==
  /\ pc[a] \in DOMAIN Sent /\ request[a] # Nil => request[a].op = Sent[pc[a]]
  /\ flow[a] = "bypass" /\ pc[a] # "check" => gate[a] \in Branch

\* Nobody but a has driven its session, and it has not ended.
Own(a) == pc[a] \in DOMAIN Sent /\ Live(sess[a]) /\ sess[a] \notin disturbed

\* What a has heard of its session is still so, and is what its verdict rests on.
Evidence(a) ==
  Own(a) =>
    LET d == debuggee[sess[a]]  r == reply[a] IN
    /\ pc[a] = "continue" /\ r # Nil /\ r.kind = "ok" =>
         r.value = d.event /\ (d.event = "breakpoint" => d.zf = d.zf0)
    /\ pc[a] = "read" =>
         d.zf = d.zf0 /\ (r # Nil /\ r.kind = "ok" => r.value = d.zf)
    /\ pc[a] = "flip" /\ request[a] # Nil =>
         d.zf = d.zf0 /\ (answered[a] => request[a].value = Inverse(d.zf))
    /\ pc[a] = "flip" /\ r # Nil /\ Success(a) /\ answered[a] => d.zf # d.zf0
    /\ pc[a] = "step" /\ answered[a] => d.zf # d.zf0
    /\ pc[a] = "kill" =>
         /\ verdict[a] = "bypassed" /\ answered[a] => d.zf # d.zf0
         /\ verdict[a] = "crashed" => d.event = "signaled"
         /\ verdict[a] \in {"clean", "exited"} /\ answered[a] => d.event # "signaled"

EInv == \A a \in Agent : Course(a) /\ Evidence(a)

USE SessionAssumption DEF SpawnLabels, KillLabels, Labels, Sessionless, CallOps, Workflow, Kind,
        Flag, Event, agentVars, Sent

LEMMA InitKnows == Init => EInv
  BY DEF Init, EInv, Course, Evidence, Own

LEMMA OwnSession ==
  ASSUME IInv, NEW a \in Agent, pc[a] \in DOMAIN Sent
  PROVE  /\ sess[a] \in Session /\ debuggee[sess[a]].maker = a
         /\ debuggee[sess[a]].status # "none" /\ debuggee[sess[a]] \in Debuggee
<1>1. pc[a] \in Labels \ Sessionless
  OBVIOUS
<1>2. sess[a] \in Session \cup {Nil} /\ debuggee \in [Session -> Debuggee]
  BY DEF IInv, Types
<1>3. sess[a] # Nil /\ debuggee[sess[a]].status # "none" /\ debuggee[sess[a]].maker = a
  BY <1>1 DEF IInv, Made
<1> QED
  BY <1>2, <1>3

----------------------------------------------------------------------------
(* The daemon's steps.                                                     *)

\* An agent that hears nothing knows what it knew, if its session is as it was.
LEMMA KnowsOn ==
  ASSUME IInv, EInv, NEW a \in Agent, UNCHANGED agentVars,
         request'[a] = request[a], reply'[a] = reply[a], disturbed \subseteq disturbed',
         Own(a)' => debuggee'[sess[a]] = debuggee[sess[a]]
  PROVE  Course(a)' /\ Evidence(a)'
<1>1. Own(a)' => Own(a)
  BY DEF Own, Live
<1> QED
  BY <1>1 DEF EInv, Course, Evidence, Success

LEMMA ServeSpawnKnows ==
  ASSUME IInv, EInv, NEW a \in Agent, ServeSpawn(a)
  PROVE  EInv'
<1>1. PICK s \in Session, k \in Kind : Make(s, request[a]) /\ Answer(a, k, s)
  BY DEF ServeSpawn
<1>2. (pc[a] \notin DOMAIN Sent /\ flow[a] # "bypass") \/ pc[a] = "spawn"
  BY DEF ServeSpawn, IInv, Protocol
<1>3. request[a] \in Request /\ Types /\ Made
  BY DEF ServeSpawn, IInv, Types
<1>4. /\ \A t \in Session : t # s => debuggee'[t] = debuggee[t]
      /\ debuggee[s].status = "none"
  BY <1>1, <1>3, MakeMakes
<1>5. \A b \in Agent \ {a} : request'[b] = request[b] /\ reply'[b] = reply[b]
  BY <1>1, <1>3, AnswerTypes
<1>6. UNCHANGED agentVars /\ disturbed' = disturbed
  BY DEF ServeSpawn
<1>7. ASSUME NEW b \in Agent \ {a} PROVE Course(b)' /\ Evidence(b)'
  <2>1. Own(b)' => debuggee'[sess[b]] = debuggee[sess[b]]
    BY <1>4, <1>6, OwnSession DEF Own
  <2> QED
    BY <1>5, <1>6, <2>1, KnowsOn
<1>8. Course(a)' /\ Evidence(a)'
  BY <1>2, <1>6 DEF EInv, Course, Evidence, Own
<1> QED
  BY <1>7, <1>8 DEF EInv

\* What the daemon does to a session of the agent that asked, and says of it.
LEMMA ServedKnows ==
  ASSUME IInv, EInv, NEW a \in Agent, NEW s \in Reached(request[a]), NEW k \in Kind,
         request[a] # Nil, request[a].op # "spawn", UNCHANGED agentVars,
         Act(s, request[a]), Answer(a, k, Content(debuggee'[s], request[a])),
         disturbed \subseteq disturbed'
  PROVE  Course(a)' /\ Evidence(a)'
<1>1. request'[a] = Nil
  BY DEF Answer, IInv, Types
<1>2. Course(a)'
  BY <1>1 DEF EInv, Course
<1>3. ASSUME Own(a)' PROVE Evidence(a)'
  <2> DEFINE d == debuggee[s]
             e == debuggee'[s]
  <2>1. pc[a] \in DOMAIN Sent /\ request[a].session = sess[a] /\ sess[a] \in Session
        /\ request[a].op = Sent[pc[a]] /\ request[a] \in Request
    BY <1>3, OwnSession DEF Own, EInv, Course, IInv, Protocol, Types
  <2>2. s = sess[a] /\ Live(s)
    BY <2>1 DEF Reached
  <2>3. Own(a)
    BY <1>3, <2>1, <2>2 DEF Own
  <2>4. d \in Debuggee /\ e \in Acted(d, request[a])
    BY <2>1, <2>2 DEF Act, IInv, Types
  <2>5. reply'[a] = [kind |-> k, value |-> IF k = "ok" THEN Content(e, request[a]) ELSE Nil]
    BY DEF Answer, IInv, Types
  <2> DEFINE r == reply'[a]
  <2>6. r.kind = k /\ (k = "ok" => r.value = Content(e, request[a]))
    BY <2>5
  <2> HIDE DEF d, e, r
  <2>7. e = debuggee'[sess[a]] /\ d = debuggee[sess[a]] /\ r = reply'[a]
    BY <2>2 DEF d, e, r
  <2>8. CASE pc[a] = "continue"
    <3>1. \/ \E v \in {"exited", "signaled", "stopped"} : e = [d EXCEPT !.event = v]
          \/ \E z \in Flag : e = [d EXCEPT !.event = "breakpoint", !.zf = z, !.zf0 = z]
      BY <2>1, <2>4, <2>8 DEF Acted
    <3>2. e.event = "breakpoint" => e.zf = e.zf0
      <4>1. CASE \E v \in {"exited", "signaled", "stopped"} : e = [d EXCEPT !.event = v]
        BY <2>4, <4>1 DEF Debuggee
      <4>2. CASE \E z \in Flag : e = [d EXCEPT !.event = "breakpoint", !.zf = z, !.zf0 = z]
        BY <2>4, <4>2 DEF Debuggee
      <4> QED
        BY <3>1, <4>1, <4>2
    <3>3. Content(e, request[a]) = e.event
      BY <2>1, <2>8 DEF Content
    <3> QED
      BY <2>6, <2>7, <2>8, <3>2, <3>3 DEF Evidence
  <2>9. CASE pc[a] = "read"
    <3>1. e = d /\ Content(e, request[a]) = e.zf
      BY <2>1, <2>4, <2>9 DEF Acted, Content
    <3> QED
      BY <2>3, <2>6, <2>7, <2>9, <3>1 DEF EInv, Evidence
  <2>10. CASE pc[a] = "flip"
    <3>1. e = [d EXCEPT !.zf = request[a].value]
      BY <2>1, <2>4, <2>10 DEF Acted
    <3>2. e.zf = request[a].value /\ e.zf0 = d.zf0
      BY <2>4, <3>1 DEF Debuggee
    <3>3. answered[a] => request[a].value # d.zf0
      BY <2>3, <2>7, <2>10 DEF EInv, Evidence, Inverse
    <3> QED
      BY <1>1, <2>7, <2>10, <3>2, <3>3 DEF Evidence
  <2>11. CASE pc[a] = "step"
    <3>1. e = d
      BY <2>1, <2>4, <2>11 DEF Acted
    <3> QED
      BY <2>3, <2>7, <2>11, <3>1 DEF EInv, Evidence
  <2>12. CASE pc[a] = "kill"
    <3>1. e = Ended(d)
      BY <2>1, <2>4, <2>12 DEF Acted
    <3>2. e.status = "gone"
      BY <3>1 DEF Ended, Unused
    <3> QED
      BY <1>3, <2>7, <3>2 DEF Own, Live
  <2>13. CASE pc[a] \notin {"continue", "read", "flip", "step", "kill"}
    BY <2>13 DEF Evidence
  <2> QED
    BY <2>8, <2>9, <2>10, <2>11, <2>12, <2>13
<1> QED
  BY <1>2, <1>3 DEF Evidence

LEMMA ServeSessionKnows ==
  ASSUME IInv, EInv, NEW a \in Agent, ServeSession(a)
  PROVE  EInv'
<1>1. PICK s \in Reached(request[a]), k \in Kind :
        /\ Act(s, request[a]) /\ Answer(a, k, Content(debuggee'[s], request[a]))
        /\ disturbed' = IF debuggee[s].maker = a THEN disturbed ELSE disturbed \cup {s}
  BY DEF ServeSession
<1>2. /\ request[a] # Nil /\ request[a].op # "spawn" /\ UNCHANGED agentVars
      /\ request[a] \in Request /\ (request[a].op = "flip" => request[a].value \in Flag)
  BY DEF ServeSession, IInv, Types, Protocol
<1>3. s \in Session /\ Live(s)
  BY <1>1 DEF Reached
<1>4. /\ \A t \in Session : t # s => debuggee'[t] = debuggee[t]
      /\ \A t \in Session : debuggee'[t].maker = debuggee[t].maker
  BY <1>1, <1>2, <1>3, ActKeepsMaker DEF IInv
<1>5. \A b \in Agent \ {a} : request'[b] = request[b] /\ reply'[b] = reply[b]
  BY <1>1 DEF Answer, IInv, Types
<1>6. Course(a)' /\ Evidence(a)'
  BY <1>1, <1>2, ServedKnows
<1>7. ASSUME NEW b \in Agent \ {a} PROVE Course(b)' /\ Evidence(b)'
  <2>1. Own(b)' => sess[b] # s
    BY <1>1, <1>2, OwnSession DEF Own
  <2>2. Own(b)' => debuggee'[sess[b]] = debuggee[sess[b]]
    BY <1>2, <1>4, <2>1, OwnSession DEF Own
  <2> QED
    BY <1>1, <1>2, <1>5, <2>2, KnowsOn
<1> QED
  BY <1>6, <1>7 DEF EInv

\* An error or no answer tells nothing.
LEMMA BadAnswerKnows ==
  ASSUME IInv, EInv, NEW a \in Agent, NEW k \in {"error", "timeout"}, request[a] # Nil,
         Answer(a, k, Nil), UNCHANGED <<agentVars, debuggee, disturbed>>
  PROVE  EInv'
<1>1. /\ request'[a] = Nil /\ reply'[a].kind = k
      /\ \A b \in Agent \ {a} : request'[b] = request[b] /\ reply'[b] = reply[b]
  BY DEF Answer, IInv, Types
<1>2. \A b \in Agent \ {a} : Course(b)' /\ Evidence(b)'
  BY <1>1, KnowsOn
<1>3. Own(a)' => Own(a)
  BY DEF Own, Live
<1>4. Course(a)' /\ Evidence(a)'
  BY <1>1, <1>3 DEF EInv, Course, Evidence, Success
<1> QED
  BY <1>2, <1>4 DEF EInv

LEMMA DaemonKnows ==
  ASSUME IInv, EInv, Daemon
  PROVE  EInv'
<1>1. ASSUME NEW a \in Agent, Refuse(a) PROVE EInv'
  BY <1>1, BadAnswerKnows DEF Refuse, daemonVars
<1>2. ASSUME NEW r \in late, ServeLate(r) PROVE EInv'
  <2>1. /\ r \in Request /\ r.op # "flip" /\ UNCHANGED <<agentVars, request, reply>>
        /\ disturbed \subseteq disturbed'
    BY <1>2 DEF ServeLate, IInv, Types, OnlyEndsLate
  <2>2. PICK s \in Session :
          /\ \A t \in Session : t # s => debuggee'[t] = debuggee[t]
          /\ debuggee[s].status = "none" \/ s \in disturbed'
    <3>1. CASE r.op = "spawn"
      BY <1>2, <2>1, <3>1, MakeMakes DEF ServeLate, IInv
    <3>2. CASE r.op # "spawn"
      <4>1. PICK s \in Reached(r) : Act(s, r) /\ disturbed' = disturbed \cup {s}
        BY <1>2, <3>2 DEF ServeLate
      <4>2. s \in Session /\ Live(s)
        BY <4>1 DEF Reached
      <4> QED
        BY <2>1, <4>1, <4>2, ActKeepsMaker DEF IInv
    <3> QED
      BY <3>1, <3>2
  <2>3. \A a \in Agent : Own(a)' => debuggee'[sess[a]] = debuggee[sess[a]]
    BY <2>1, <2>2, OwnSession DEF Own
  <2> QED
    BY <2>1, <2>3, KnowsOn DEF EInv
<1>3. ASSUME NEW s \in Session, SessionEnds(s) PROVE EInv'
  <2>1. /\ debuggee' = [debuggee EXCEPT ![s] = Ended(debuggee[s])]
        /\ UNCHANGED <<agentVars, request, reply, disturbed>>
    BY <1>3 DEF SessionEnds
  <2>2. debuggee'[s].status = "gone" /\ \A t \in Session : t # s => debuggee'[t] = debuggee[t]
    BY <2>1 DEF IInv, Types, Ended, Unused
  <2>3. \A a \in Agent : Own(a)' => debuggee'[sess[a]] = debuggee[sess[a]]
    BY <2>1, <2>2, OwnSession DEF Own, Live
  <2> QED
    BY <2>1, <2>3, KnowsOn DEF EInv
<1> QED
  BY <1>1, <1>2, <1>3, ServeSpawnKnows, ServeSessionKnows DEF Daemon

----------------------------------------------------------------------------
(* The agents' steps.                                                      *)

\* What b knows is not touched.
Aside(b) ==
  /\ flow'[b] = flow[b] /\ pc'[b] = pc[b] /\ sess'[b] = sess[b] /\ gate'[b] = gate[b]
  /\ verdict'[b] = verdict[b] /\ answered'[b] = answered[b]
  /\ request'[b] = request[b] /\ reply'[b] = reply[b]

LEMMA AsideKnows ==
  ASSUME EInv, NEW a \in Agent, \A b \in Agent \ {a} : Aside(b),
         UNCHANGED <<debuggee, disturbed>>, Course(a)' /\ Evidence(a)'
  PROVE  EInv'
<1>1. ASSUME NEW b \in Agent \ {a} PROVE Course(b)' /\ Evidence(b)'
  <2>1. Own(b)' => Own(b)
    BY DEF Aside, Own, Live
  <2> QED
    BY <2>1 DEF EInv, Course, Evidence, Aside, Success
<1> QED
  BY <1>1 DEF EInv

\* An agent without a session in hand knows nothing.
LEMMA OutsideKnows ==
  ASSUME EInv, NEW a \in Agent, \A b \in Agent \ {a} : Aside(b),
         UNCHANGED <<debuggee, disturbed>>, pc'[a] \notin DOMAIN Sent,
         flow'[a] = "bypass" /\ pc'[a] # "check" => gate'[a] \in Branch
  PROVE  EInv'
  BY AsideKnows DEF Course, Evidence, Own

LEMMA ReturnKnows ==
  ASSUME IInv, EInv, NEW a \in Agent, Return(a), UNCHANGED <<debuggee, disturbed>>
  PROVE  EInv'
<1>1. /\ pc'[a] = "none" /\ flow'[a] = "idle" /\ \A b \in Agent \ {a} : Aside(b)
  BY DEF Return, Aside, IInv, Types
<1> QED
  BY <1>1, OutsideKnows

LEMMA SpawnKnows ==
  ASSUME IInv, EInv, NEW a \in Agent, NEW f, NEW g, NEW kept, Spawn(a, f, g, kept),
         f = "bypass" => g \in Branch, UNCHANGED <<debuggee, disturbed>>
  PROVE  EInv'
<1>1. /\ pc'[a] = "spawn" /\ flow'[a] = f /\ gate'[a] = g
      /\ \A b \in Agent \ {a} : Aside(b)
  BY DEF Spawn, Send, Aside, IInv, Types
<1> QED
  BY <1>1, OutsideKnows

LEMMA ConcludeKnows ==
  ASSUME IInv, EInv, NEW a \in Agent, NEW v, NEW kept, Conclude(a, v, kept),
         UNCHANGED <<debuggee, disturbed>>
  PROVE  EInv'
  BY ReturnKnows, SpawnKnows DEF Conclude

LEMMA ApproachKnows ==
  ASSUME IInv, EInv, NEW a \in Agent,
         CallReturns(a) \/ CheckTriage(a) \/ CheckBypass(a) \/ CheckDump(a) \/ SpawnFails(a)
           \/ Killed(a)
  PROVE  EInv'
<1>1. UNCHANGED <<debuggee, disturbed>>
  BY DEF CallReturns, CheckTriage, CheckBypass, CheckDump, Checks, SpawnFails, Killed, daemonVars
<1>2. ASSUME NEW f, NEW g, Begins(a, f, g), f = "bypass" => g \in Branch PROVE EInv'
  BY <1>1, <1>2, SpawnKnows DEF Begins
<1>3. CASE Return(a)
  BY <1>1, <1>3, ReturnKnows
<1>4. CASE SpawnFails(a) \/ Killed(a)
  BY <1>1, <1>4, ConcludeKnows DEF SpawnFails, Killed
<1> QED
  BY <1>2, <1>3, <1>4 DEF CallReturns, CheckTriage, CheckBypass, CheckDump, Refused

\* An agent that has handled an answer waits at l for the next.
Waits(a, l, op) ==
  /\ pc'[a] = l /\ request'[a].op = op /\ reply'[a] = Nil
  /\ \A b \in Agent \ {a} : Aside(b)
  /\ UNCHANGED <<debuggee, disturbed>>

LEMMA ThenWaits ==
  ASSUME IInv, NEW a \in Agent, NEW l, NEW op \in CallOps, NEW v \in Flag \cup {Nil},
         pc[a] \in DOMAIN Sent, Then(a, l, op, v),
         UNCHANGED <<active, recent, flow, sess, gate, before, crashes, daemonVars>>,
         UNCHANGED answered \/ answered' = [answered EXCEPT ![a] = reply[a].kind = "ok"],
         UNCHANGED verdict \/ \E w \in Verdict : Concludes(a, w)
  PROVE  Waits(a, l, op) /\ request'[a].value = v
<1>1. sess[a] \in Session
  BY OwnSession
<1>2. /\ request'[a].op = op /\ request'[a].value = v /\ reply'[a] = Nil
      /\ \A b \in Agent \ {a} : request'[b] = request[b] /\ reply'[b] = reply[b]
  BY <1>1, SendSends DEF Then, IInv, Types
<1>3. pc'[a] = l /\ \A b \in Agent \ {a} : Aside(b)
  BY <1>2 DEF Then, Aside, Concludes, IInv, Types
<1> QED
  BY <1>2, <1>3 DEF Waits, daemonVars

LEMMA WaitsKnow ==
  ASSUME EInv, NEW a \in Agent, NEW l \in DOMAIN Sent, Waits(a, l, Sent[l]),
         UNCHANGED <<flow, sess, gate>>, pc[a] \in DOMAIN Sent, Own(a) => Evidence(a)'
  PROVE  EInv'
<1>1. Own(a)' => Own(a)
  BY DEF Own, Live, Waits
<1>2. Course(a)' /\ Evidence(a)'
  BY <1>1 DEF EInv, Course, Evidence, Waits
<1> QED
  BY <1>2, AsideKnows DEF Waits

LEMMA MiddleKnows ==
  ASSUME IInv, EInv, NEW a \in Agent, Middle(a)
  PROVE  EInv'
<1> USE DEF Handles
<1>1. CASE BreakpointSet(a)
  <2>1. Waits(a, "continue", "continue")
    BY <1>1, ThenWaits DEF BreakpointSet
  <2>2. Evidence(a)'
    BY <2>1 DEF Waits, Evidence
  <2> QED
    BY <1>1, <2>1, <2>2, WaitsKnow DEF BreakpointSet
<1>2. CASE TriageContinued(a)
  <2>1. PICK v \in TriageVerdicts(a) : Concludes(a, v)
    BY <1>2 DEF TriageContinued
  <2>2. v \in Verdict
    BY DEF TriageVerdicts, Verdict
  <2>3. Waits(a, "kill", "kill")
    BY <1>2, <2>1, <2>2, ThenWaits DEF TriageContinued
  <2>4. verdict'[a] = v /\ answered'[a] = (reply[a].kind = "ok")
    BY <1>2, <2>1 DEF TriageContinued, Concludes, IInv, Types
  <2>5. /\ v # "bypassed" /\ (v = "crashed" => reply[a].kind = "ok" /\ reply[a].value = "signaled")
        /\ v \in {"clean", "exited"} /\ reply[a].kind = "ok" => reply[a].value # "signaled"
    BY DEF TriageVerdicts
  <2>6. Own(a) => Evidence(a)'
    BY <1>2, <2>3, <2>4, <2>5 DEF TriageContinued, EInv, Evidence, Waits
  <2> QED
    BY <1>2, <2>3, <2>6, WaitsKnow DEF TriageContinued
<1>3. CASE BypassContinued(a)
  <2>1. CASE reply[a].kind = "ok" /\ reply[a].value = "breakpoint"
    <3>1. Waits(a, "read", "inspect")
      BY <1>3, <2>1, ThenWaits DEF BypassContinued
    <3>2. Own(a) => Evidence(a)'
      BY <1>3, <2>1, <3>1 DEF BypassContinued, EInv, Evidence, Waits
    <3> QED
      BY <1>3, <3>1, <3>2, WaitsKnow DEF BypassContinued
  <2>2. CASE ~(reply[a].kind = "ok" /\ reply[a].value = "breakpoint")
    <3>1. Waits(a, "kill", "kill")
      BY <1>3, <2>2, ThenWaits DEF BypassContinued, Verdict
    <3>2. verdict'[a] = "failed"
      BY <1>3, <2>2 DEF BypassContinued, Concludes, IInv, Types
    <3>3. Evidence(a)'
      BY <3>1, <3>2 DEF Evidence, Waits
    <3> QED
      BY <1>3, <3>1, <3>3, WaitsKnow DEF BypassContinued
  <2> QED
    BY <2>1, <2>2
<1>4. CASE DumpContinued(a)
  <2>1. Waits(a, "memory", "inspect")
    BY <1>4, ThenWaits DEF DumpContinued
  <2>2. Evidence(a)'
    BY <2>1 DEF Waits, Evidence
  <2> QED
    BY <1>4, <2>1, <2>2, WaitsKnow DEF DumpContinued
<1>5. CASE RegistersRead(a)
  <2> DEFINE zf == IF reply[a].kind = "ok" THEN reply[a].value ELSE "clear"
  <2>1. Then(a, "flip", "flip", Inverse(zf)) /\ Inverse(zf) \in Flag
    BY <1>5 DEF RegistersRead, Inverse
  <2>2. Waits(a, "flip", "flip") /\ request'[a].value = Inverse(zf)
    BY <1>5, <2>1, ThenWaits DEF RegistersRead
  <2>3. answered'[a] = (reply[a].kind = "ok")
    BY <1>5 DEF RegistersRead, IInv, Types
  <2>4. Own(a) => Evidence(a)'
    BY <1>5, <2>2, <2>3 DEF RegistersRead, EInv, Evidence, Waits
  <2> QED
    BY <1>5, <2>2, <2>4, WaitsKnow DEF RegistersRead
<1>6. CASE Flipped(a)
  <2> DEFINE l == IF Success(a) THEN "step" ELSE "step_only"
  <2>1. Waits(a, l, "step")
    BY <1>6, ThenWaits DEF Flipped
  <2>2. Own(a) => Evidence(a)'
    BY <1>6, <2>1 DEF Flipped, EInv, Evidence, Waits
  <2> QED
    BY <1>6, <2>1, <2>2, WaitsKnow DEF Flipped
<1>7. CASE Stepped(a)
  <2> DEFINE v == IF pc[a] = "step" /\ Success(a) THEN "bypassed" ELSE "failed"
  <2>1. Waits(a, "kill", "kill")
    BY <1>7, ThenWaits DEF Stepped, Verdict
  <2>2. verdict'[a] = v /\ answered' = answered
    BY <1>7 DEF Stepped, Concludes, IInv, Types
  <2>3. Own(a) => Evidence(a)'
    BY <1>7, <2>1, <2>2 DEF Stepped, EInv, Evidence, Waits
  <2> QED
    BY <1>7, <2>1, <2>3, WaitsKnow DEF Stepped
<1>8. CASE MemoryRead(a)
  <2>1. Waits(a, "kill", "kill")
    BY <1>8, ThenWaits DEF MemoryRead, Verdict
  <2>2. verdict'[a] \in {"extracted", "failed"}
    BY <1>8 DEF MemoryRead, Concludes, IInv, Types
  <2>3. Evidence(a)'
    BY <2>1, <2>2 DEF Evidence, Waits
  <2> QED
    BY <1>8, <2>1, <2>3, WaitsKnow DEF MemoryRead
<1> QED
  BY <1>1, <1>2, <1>3, <1>4, <1>5, <1>6, <1>7, <1>8 DEF Middle

LEMMA SpawnedKnows ==
  ASSUME IInv, EInv, NEW a \in Agent, Spawned(a)
  PROVE  EInv'
<1>1. reply[a].value \in Session /\ sess'[a] = reply[a].value
      /\ \A b \in Agent \ {a} : sess'[b] = sess[b]
  BY DEF Spawned, Handles, IInv, Made, Types
<1>2. PICK l \in {"breakpoint", "continue"} :
        pc' = [pc EXCEPT ![a] = l] /\ Send(a, Sent[l], reply[a].value, Nil)
  <2>1. flow[a] \in Workflow
    BY DEF Spawned, Handles, IInv, Types, Protocol
  <2> QED
    BY <1>1, <2>1 DEF Spawned, Triage
<1>3. /\ request'[a].op = Sent[l] /\ request'[a].session = reply[a].value /\ reply'[a] = Nil
      /\ \A b \in Agent \ {a} : request'[b] = request[b] /\ reply'[b] = reply[b]
  BY <1>1, <1>2, SendSends DEF IInv
<1>4. /\ pc'[a] = l /\ \A b \in Agent \ {a} : pc'[b] = pc[b]
      /\ UNCHANGED <<flow, gate, verdict, answered, debuggee, disturbed>>
  BY <1>2 DEF Spawned, daemonVars, IInv, Types
<1>5. Course(a)' /\ Evidence(a)'
  BY <1>3, <1>4 DEF Spawned, Handles, EInv, Course, Evidence
<1> QED
  BY <1>1, <1>3, <1>4, <1>5, AsideKnows DEF Aside

LEMMA NextKnows ==
  ASSUME IInv, EInv, [Next]_vars
  PROVE  EInv'
<1>1. ASSUME NEW a \in Agent, NEW op \in CallOps, NEW s, Call(a, op, s) PROVE EInv'
  <2>1. /\ pc'[a] \in {"call", "call_spawn", "call_kill"} /\ flow'[a] = "call"
        /\ \A b \in Agent \ {a} : Aside(b)
    BY <1>1 DEF Call, Send, Aside, IInv, Types
  <2> QED
    BY <1>1, <2>1, OutsideKnows DEF Call, daemonVars
<1>2. ASSUME NEW a \in Agent, NEW f, Start(a, f) PROVE EInv'
  <2>1. pc'[a] = "check" /\ \A b \in Agent \ {a} : Aside(b)
    BY <1>2 DEF Start, Aside, IInv, Types
  <2> QED
    BY <1>2, <2>1, OutsideKnows DEF Start, daemonVars
<1>3. ASSUME NEW a \in Agent, Step(a) PROVE EInv'
  BY <1>3, MiddleKnows, SpawnedKnows, ApproachKnows DEF Step, Middle
<1>4. ASSUME NEW a \in Agent, TimeOut(a) PROVE EInv'
  BY <1>4, BadAnswerKnows DEF TimeOut
<1>5. ASSUME NEW a \in Agent, Crash(a) PROVE EInv'
  <2>1. pc'[a] = "none" /\ flow'[a] = "idle" /\ \A b \in Agent \ {a} : Aside(b)
    BY <1>5 DEF Crash, Aside, IInv, Types
  <2> QED
    BY <1>5, <2>1, OutsideKnows DEF Crash
<1>6. CASE UNCHANGED vars
  BY <1>6, KnowsOn DEF vars, daemonVars, EInv
<1> QED
  BY <1>1, <1>2, <1>3, <1>4, <1>5, <1>6, DaemonKnows DEF Next

----------------------------------------------------------------------------
(* The theorems.                                                           *)

\* The branches of the patch plans go the other way, whatever the flags.
LEMMA InvertedInverts ==
  \A b \in Branch \ {"other"}, z \in Flag, less \in BOOLEAN :
    Taken(Inverted(b), z, less) # Taken(b, z, less)
<1> TAKE b \in Branch \ {"other"}, z \in Flag, less \in BOOLEAN
<1>1. CASE b \in {"je", "jne"}
  <2>1. /\ Inverted("je") = "jne" /\ Inverted("jne") = "je"
        /\ Taken("je", z, less) = (z = "set") /\ Taken("jne", z, less) = (z = "clear")
    BY DEF Inverted, Taken
  <2> QED
    BY <1>1, <2>1
<1>2. CASE b \in {"jl", "jge"}
  <2>1. /\ Inverted("jl") = "jge" /\ Inverted("jge") = "jl"
        /\ Taken("jl", z, less) = less /\ Taken("jge", z, less) = ~less
    BY DEF Inverted, Taken
  <2> QED
    BY <1>2, <2>1
<1>3. CASE b \in {"jle", "jg"}
  <2>1. /\ Inverted("jle") = "jg" /\ Inverted("jg") = "jle"
        /\ Taken("jle", z, less) = (z = "set" \/ less)
        /\ Taken("jg", z, less) = (z = "clear" /\ ~less)
    BY DEF Inverted, Taken
  <2> QED
    BY <1>3, <2>1
<1> QED
  BY <1>1, <1>2, <1>3

LEMMA KnowledgeSuffices == IInv /\ EInv => VerdictFaithful /\ BypassInverts
<1> SUFFICES ASSUME IInv, EInv PROVE VerdictFaithful /\ BypassInverts
  OBVIOUS
<1>1. \A a \in Agent, f \in SUBSET Workflow : Concluded(a, f) => Own(a) /\ pc[a] = "kill"
  BY DEF Concluded, Own
<1>2. VerdictFaithful
  BY <1>1 DEF EInv, Evidence, VerdictFaithful
<1>3. BypassInverts
  <2> SUFFICES ASSUME NEW a \in Agent, Concluded(a, {"bypass"}), verdict[a] = "bypassed",
                      NEW less \in BOOLEAN
               PROVE  LET d == debuggee[sess[a]] IN
                      /\ Taken(gate[a], "set", less) # Taken(gate[a], "clear", less) /\ answered[a] =>
                           Taken(gate[a], d.zf, less) # Taken(gate[a], d.zf0, less)
                      /\ gate[a] # "other" =>
                           \A z \in Flag : Taken(Inverted(gate[a]), z, less) # Taken(gate[a], z, less)
    BY DEF BypassInverts
  <2> DEFINE d == debuggee[sess[a]]
  <2>1. Own(a) /\ pc[a] = "kill" /\ gate[a] \in Branch
    BY <1>1 DEF Concluded, EInv, Course
  <2>2. d.zf \in Flag /\ d.zf0 \in Flag
    BY <2>1, OwnSession DEF Own, Debuggee
  <2>3. answered[a] => d.zf # d.zf0
    BY <2>1 DEF EInv, Evidence
  <2> HIDE DEF d
  <2>4. Taken(gate[a], "set", less) # Taken(gate[a], "clear", less) /\ answered[a] =>
           Taken(gate[a], d.zf, less) # Taken(gate[a], d.zf0, less)
    BY <2>2, <2>3
  <2> QED
    BY <2>1, <2>4, InvertedInverts DEF d
<1> QED
  BY <1>2, <1>3

LEMMA KnowledgeHolds == Spec => [](IInv /\ EInv)
<1>1. IInv /\ EInv /\ [Next]_vars => IInv' /\ EInv'
  BY NextHolds, NextKnows
<1> QED
  BY InitHolds, InitKnows, <1>1, PTL DEF Spec

\* triage_crash reports a crash only of a debuggee that crashed, and no crash only of
\* one that did not, if its continue was answered and nobody else drove the session:
\* whatever the daemon, other agents and late requests do to the other sessions.
THEOREM VerdictsAreFaithful == Spec => []VerdictFaithful
  BY KnowledgeHolds, KnowledgeSuffices, PTL

\* A gate that bypass_decision_gate reports as bypassed did go the other way, if the
\* zero flag decides it and the flags could be read; the plan's branch always does.
THEOREM BypassesInvert == Spec => []BypassInverts
  BY KnowledgeHolds, KnowledgeSuffices, PTL
=============================================================================
