------------------------ MODULE DebugSessionsProofs ------------------------
(***************************************************************************)
(* Proofs about DebugSessions, for every set of agents and of sessions and *)
(* every number of late requests and of agents' ends.                      *)
(***************************************************************************)
EXTENDS DebugSessions, TLAPS

USE SessionAssumption

SpawnLabels == {"call_spawn", "spawn"}
KillLabels == {"call_kill", "kill"}

\* An agent has sent or got something only while it waits for it, never both.
Protocol ==
  \A a \in Agent :
    /\ pc[a] = "none" <=> flow[a] = "idle"
    /\ pc[a] \in {"call", "call_spawn", "call_kill"} <=> flow[a] = "call"
    /\ pc[a] \in {"none", "check"} => request[a] = Nil /\ reply[a] = Nil
    /\ reply[a] # Nil => request[a] = Nil
    /\ request[a] # Nil =>
         /\ request[a].from = a
         /\ request[a].op = "spawn" <=> pc[a] \in SpawnLabels
         /\ request[a].op = "kill" <=> pc[a] \in KillLabels
         /\ request[a].op # "spawn" => request[a].session = sess[a]
         /\ request[a].op = "flip" => request[a].value \in Flag

\* Only requests that make or end a session outlive their agent's patience.
OnlyEndsLate == \A r \in late : r.op \in {"spawn", "kill"}

\* The answer to a's spawn names s.
Names(a, s) ==
  pc[a] \in SpawnLabels /\ reply[a] # Nil /\ reply[a].kind = "ok" /\ reply[a].value = s

\* Sessions are the daemon's: it made those that answers name and agents note, each
\* for its agent, and those whose kill it reported are gone.
Made ==
  /\ \A s \in Session : debuggee[s].status # "none" => debuggee[s].maker \in Agent
  /\ \A a \in Agent :
       /\ \A s \in active[a] : debuggee[s].status # "none"
       /\ reply[a] # Nil /\ reply[a].kind = "ok" /\ pc[a] \in SpawnLabels =>
            /\ reply[a].value \in Session \ active[a]
            /\ debuggee[reply[a].value].status # "none"
            /\ debuggee[reply[a].value].maker = a
       /\ pc[a] \in Labels \ Sessionless =>
            sess[a] # Nil /\ debuggee[sess[a]].status # "none" /\ debuggee[sess[a]].maker = a
       /\ pc[a] \in KillLabels /\ reply[a] # Nil /\ Success(a) /\ sess[a] # Nil =>
            debuggee[sess[a]].status = "gone"

Accounted ==
  \A s \in Session : Live(s) =>
    s \in lost \/ s \in active[debuggee[s].maker] \/ Names(debuggee[s].maker, s)

Defaults ==
  \A a \in Agent :
    /\ recent[a] # Nil => recent[a] \in active[a]
    /\ recent[a] = Nil => active[a] = {}
    /\ pc[a] \in {"call", "call_kill"} /\ sess[a] = Nil => active[a] = {}

\* What a workflow has to restore, and how far it is from that.
Restoring ==
  \A a \in Agent : flow[a] \in Workflow =>
    LET known == before[a].active \cup before[a].unkilled IN
    /\ before[a].recent # Nil => before[a].recent \in before[a].active
    /\ before[a].recent = Nil => before[a].active = {}
    /\ pc[a] \in {"check", "spawn"} =>
         /\ active[a] = known
         /\ before[a].unkilled = {} /\ (\A s, t \in before[a].active : s = t) =>
              recent[a] = before[a].recent
    /\ pc[a] \notin {"check", "spawn"} =>
         active[a] = known \cup {sess[a]} /\ sess[a] \notin known /\ recent[a] = sess[a]

IInv == Types /\ Protocol /\ OnlyEndsLate /\ Made /\ Accounted /\ Defaults /\ Restoring

USE DEF SpawnLabels, KillLabels, Labels, Sessionless, CallOps, Workflow, Kind, Flag, Event,
        agentVars, daemonVars

----------------------------------------------------------------------------
LEMMA InitHolds == Init => IInv
<1> SUFFICES ASSUME Init PROVE IInv
  OBVIOUS
<1>1. Types
  BY DEF Init, Types, Unused, Nothing, Debuggee, Verdict
<1>2. Protocol /\ OnlyEndsLate /\ Defaults /\ Restoring
  BY DEF Init, Protocol, OnlyEndsLate, Defaults, Restoring
<1>3. Made /\ Accounted
  BY DEF Init, Made, Accounted, Unused, Live
<1> QED
  BY <1>1, <1>2, <1>3 DEF IInv

----------------------------------------------------------------------------
(* The daemon's steps change nothing of an agent but its request and reply. *)

\* What a request does to a session neither unmakes it nor gives it to another.
LEMMA ActKeepsMaker ==
  ASSUME Types, NEW s \in Session, NEW r \in Request, Live(s), Act(s, r),
         r.op = "flip" => r.value \in Flag
  PROVE  /\ debuggee' \in [Session -> Debuggee]
         /\ \A t \in Session : debuggee'[t].maker = debuggee[t].maker
         /\ \A t \in Session : t # s => debuggee'[t] = debuggee[t]
         /\ debuggee'[s].status \in {"live", "gone"}
         /\ r.op = "kill" => debuggee'[s].status = "gone"
<1>1. PICK d \in Acted(debuggee[s], r) : debuggee' = [debuggee EXCEPT ![s] = d]
  BY DEF Act
<1>2. debuggee[s] \in Debuggee /\ debuggee[s].status = "live"
  BY DEF Types, Live
<1>3. /\ d \in Debuggee /\ d.maker = debuggee[s].maker /\ d.status \in {"live", "gone"}
      /\ r.op = "kill" => d.status = "gone"
  <2>1. CASE r.op = "continue"
    <3>1. \/ \E e \in {"exited", "signaled", "stopped"} : d = [debuggee[s] EXCEPT !.event = e]
          \/ \E z \in Flag : d = [debuggee[s] EXCEPT !.event = "breakpoint", !.zf = z, !.zf0 = z]
      BY <1>1, <2>1 DEF Acted
    <3>2. CASE \E e \in {"exited", "signaled", "stopped"} : d = [debuggee[s] EXCEPT !.event = e]
      BY <1>2, <2>1, <3>2 DEF Debuggee
    <3>3. CASE \E z \in Flag : d = [debuggee[s] EXCEPT !.event = "breakpoint", !.zf = z, !.zf0 = z]
      BY <1>2, <2>1, <3>3 DEF Debuggee
    <3> QED
      BY <3>1, <3>2, <3>3
  <2>2. CASE r.op = "flip"
    BY <1>2, <2>2, <1>1 DEF Acted, Debuggee
  <2>3. CASE r.op = "kill"
    BY <1>2, <2>3, <1>1 DEF Acted, Debuggee, Ended, Unused
  <2>4. CASE r.op \notin {"continue", "flip", "kill"}
    BY <1>2, <2>4, <1>1 DEF Acted
  <2> QED
    BY <2>1, <2>2, <2>3, <2>4
<1> QED
  BY <1>1, <1>2, <1>3 DEF Types

LEMMA MakeMakes ==
  ASSUME Types, Made, NEW s \in Session, NEW r \in Request, Make(s, r)
  PROVE  /\ debuggee' \in [Session -> Debuggee]
         /\ \A t \in Session : t # s => debuggee'[t] = debuggee[t]
         /\ debuggee[s].status = "none" /\ debuggee'[s].status = "live"
         /\ debuggee'[s].maker = r.from
         /\ \A a \in Agent : s \notin active[a]
<1> DEFINE d == [debuggee[s] EXCEPT !.status = "live", !.maker = r.from]
<1>1. debuggee' = [debuggee EXCEPT ![s] = d] /\ debuggee[s].status = "none"
  BY DEF Make, Types
<1>2. d \in Debuggee /\ d.status = "live" /\ d.maker = r.from
  <2>1. debuggee[s] \in Debuggee /\ r.from \in Agent
    BY DEF Types, Request
  <2> QED
    BY <2>1 DEF Debuggee
<1> HIDE DEF d
<1> QED
  BY <1>1, <1>2 DEF Types, Made

LEMMA AnswerTypes ==
  ASSUME Types, NEW a \in Agent, NEW k \in Kind, NEW v \in Session \cup Event \cup Flag \cup {Nil},
         Answer(a, k, v)
  PROVE  /\ reply' \in [Agent -> Reply \cup {Nil}]
         /\ request' \in [Agent -> Request \cup {Nil}]
         /\ request'[a] = Nil /\ reply'[a] # Nil /\ reply'[a].kind = k
         /\ k = "ok" => reply'[a].value = v
         /\ \A b \in Agent \ {a} : reply'[b] = reply[b] /\ request'[b] = request[b]
  BY DEF Answer, Types, Reply

LEMMA RestoringKept ==
  ASSUME Restoring, Defaults, UNCHANGED agentVars
  PROVE  Restoring' /\ Defaults'
  BY DEF Restoring, Defaults

LEMMA ServeSpawnHolds ==
  ASSUME IInv, NEW a \in Agent, ServeSpawn(a)
  PROVE  IInv'
<1> USE DEF IInv
<1>1. PICK s \in Session, k \in Kind :
        /\ Make(s, request[a]) /\ Answer(a, k, s)
        /\ lost' = IF k = "ok" THEN lost ELSE lost \cup {s}
  BY DEF ServeSpawn
<1>2. request[a] \in Request /\ request[a].from = a /\ pc[a] \in SpawnLabels
  BY DEF ServeSpawn, Types, Protocol
<1> USE <1>1, <1>2, MakeMakes, AnswerTypes
<1>3. Types'
  BY DEF ServeSpawn, Types
<1>4. Protocol'
  BY DEF ServeSpawn, Protocol
<1>5. UNCHANGED agentVars /\ (\A t \in Session : t # s => debuggee'[t] = debuggee[t])
      /\ debuggee[s].status = "none" /\ debuggee'[s].status = "live" /\ debuggee'[s].maker = a
      /\ s \notin active[a]
  BY DEF ServeSpawn
<1>7. Made'
  <2>1. \A t \in Session : debuggee'[t].status # "none" => debuggee'[t].maker \in Agent
    BY <1>5 DEF Made
  <2>2. \A t \in Session : debuggee[t].status # "none" => debuggee'[t] = debuggee[t]
    BY <1>5
  <2>3. \A b \in Agent \ {a} : reply'[b] = reply[b]
    OBVIOUS
  <2> QED
    BY <1>5, <2>1, <2>2, <2>3 DEF Made, Types, Success
<1>6. Accounted'
  <2>1. \A t \in Session, b \in Agent : Names(b, t) => Names(b, t)'
    BY <1>5 DEF Names, Protocol, ServeSpawn
  <2>2. CASE k = "ok"
    <3>1. Names(a, s)'
      BY <1>5, <2>2 DEF Names
    <3> QED
      BY <1>5, <2>1, <2>2, <3>1 DEF Accounted, Live, Made
  <2>3. CASE k # "ok"
    BY <1>5, <2>1, <2>3 DEF Accounted, Live, Made
  <2> QED
    BY <2>2, <2>3
<1> QED
  BY <1>3, <1>4, <1>6, <1>7, RestoringKept DEF ServeSpawn, OnlyEndsLate

LEMMA ServeSessionHolds ==
  ASSUME IInv, NEW a \in Agent, ServeSession(a)
  PROVE  IInv'
<1> USE DEF IInv
<1>1. PICK s \in Reached(request[a]), k \in Kind :
        Act(s, request[a]) /\ Answer(a, k, Content(debuggee'[s], request[a]))
  BY DEF ServeSession
<1>2. /\ request[a] \in Request /\ request[a].op # "spawn" /\ pc[a] \notin SpawnLabels
      /\ request[a].session = sess[a] /\ (pc[a] \in KillLabels => request[a].op = "kill")
      /\ request[a].op = "flip" => request[a].value \in Flag
  BY DEF ServeSession, Types, Protocol
<1>3. s \in Session /\ Live(s) /\ sess[a] \in {s, Nil}
  BY <1>1, <1>2 DEF Reached
<1>4. /\ debuggee' \in [Session -> Debuggee]
      /\ \A t \in Session : debuggee'[t].maker = debuggee[t].maker
      /\ \A t \in Session : t # s => debuggee'[t] = debuggee[t]
      /\ debuggee'[s].status \in {"live", "gone"}
      /\ request[a].op = "kill" => debuggee'[s].status = "gone"
  BY <1>1, <1>2, <1>3, ActKeepsMaker
<1>5. Content(debuggee'[s], request[a]) \in Session \cup Event \cup Flag \cup {Nil}
  BY <1>3, <1>4 DEF Content, Debuggee
<1>6. /\ reply' \in [Agent -> Reply \cup {Nil}]
      /\ request' \in [Agent -> Request \cup {Nil}]
      /\ request'[a] = Nil
      /\ \A b \in Agent \ {a} : reply'[b] = reply[b] /\ request'[b] = request[b]
  BY <1>1, <1>5, AnswerTypes
<1>7. Types'
  <2>1. disturbed' \subseteq Session
    BY <1>3 DEF ServeSession, Types, Reached
  <2> QED
    BY <1>4, <1>6, <2>1 DEF ServeSession, Types
<1>8. Protocol'
  BY <1>6 DEF ServeSession, Protocol
<1>9. UNCHANGED agentVars
  BY DEF ServeSession
<1>10. Made'
  <2>1. \A t \in Session : /\ debuggee'[t].maker = debuggee[t].maker
                           /\ debuggee[t].status # "none" => debuggee'[t].status # "none"
                           /\ debuggee[t].status = "gone" => debuggee'[t].status = "gone"
    BY <1>3, <1>4 DEF Live
  <2>2. \A t \in Session : debuggee'[t].status # "none" => debuggee'[t].maker \in Agent
    BY <1>3, <1>4 DEF Made, Live
  <2>3. pc[a] \in KillLabels /\ sess[a] # Nil => debuggee'[sess[a]].status = "gone"
    BY <1>2, <1>3, <1>4
  <2>4. \A b \in Agent : active[b] \subseteq Session /\ sess[b] \in Session \cup {Nil}
    BY DEF Types
  <2> QED
    BY <1>2, <1>6, <1>9, <2>1, <2>2, <2>3, <2>4 DEF Made, Success
<1>11. Accounted'
  <2>1. \A t \in Session, b \in Agent : Names(b, t) => Names(b, t)'
    BY <1>2, <1>6, <1>9 DEF Names
  <2>2. \A t \in Session : Live(t)' => Live(t) /\ debuggee[t].maker \in Agent
    BY <1>3, <1>4 DEF Live, Made
  <2> QED
    BY <1>4, <1>9, <2>1, <2>2 DEF Accounted, ServeSession
<1> QED
  BY <1>7, <1>8, <1>10, <1>11, RestoringKept DEF ServeSession, OnlyEndsLate

\* An answer that names nothing and confirms nothing.
LEMMA AnsweredBadly ==
  ASSUME IInv, NEW a \in Agent, NEW k \in {"error", "timeout"}, request[a] # Nil,
         Answer(a, k, Nil), late' \subseteq Request, OnlyEndsLate',
         UNCHANGED <<agentVars, crashes, debuggee, lost, disturbed>>
  PROVE  IInv'
<1> USE AnswerTypes DEF IInv
<1>1. Types'
  BY DEF Types
<1>2. Protocol'
  BY DEF Protocol
<1>3. Made'
  BY DEF Made, Success
<1>4. Accounted'
  <2>1. \A s \in Session : Names(a, s) => FALSE
    BY DEF Names, Protocol
  <2>2. \A s \in Session, b \in Agent \ {a} : Names(b, s) => Names(b, s)'
    BY DEF Names
  <2>3. \A s \in Session : Live(s) => debuggee[s].maker \in Agent
    BY DEF Live, Made
  <2> QED
    BY <2>1, <2>2, <2>3 DEF Accounted, Live
<1> QED
  BY <1>1, <1>2, <1>3, <1>4, RestoringKept

LEMMA RefuseHolds ==
  ASSUME IInv, NEW a \in Agent, Refuse(a)
  PROVE  IInv'
  BY AnsweredBadly DEF Refuse, IInv, Types, OnlyEndsLate

LEMMA AbandonedTypes ==
  ASSUME Types, OnlyEndsLate, NEW r \in Request, NEW l \in Abandoned(r)
  PROVE  l \subseteq Request /\ \A q \in l : q.op \in {"spawn", "kill"}
  BY DEF Abandoned, Types, OnlyEndsLate

LEMMA TimeOutHolds ==
  ASSUME IInv, NEW a \in Agent, TimeOut(a)
  PROVE  IInv'
<1>1. request[a] \in Request
  BY DEF TimeOut, IInv, Types
<1>2. late' \subseteq Request /\ OnlyEndsLate'
  BY <1>1, AbandonedTypes DEF TimeOut, IInv, OnlyEndsLate
<1> QED
  BY <1>2, AnsweredBadly DEF TimeOut

LEMMA ServeLateHolds ==
  ASSUME IInv, NEW r \in late, ServeLate(r)
  PROVE  IInv'
<1> USE DEF IInv
<1>1. r \in Request /\ late' \subseteq Request /\ OnlyEndsLate' /\ r.op # "flip" /\ UNCHANGED <<agentVars, request, reply, crashes>>
  BY DEF ServeLate, Types, OnlyEndsLate
<1>2. CASE r.op = "spawn"
  <2>1. PICK s \in Session : Make(s, r) /\ lost' = lost \cup {s} /\ UNCHANGED disturbed
    BY <1>2 DEF ServeLate
  <2> USE <1>1, <2>1, MakeMakes
  <2>2. Types'
    BY DEF Types
  <2>3. Protocol'
    BY DEF Protocol
  <2>6. /\ \A t \in Session : t # s => debuggee'[t] = debuggee[t]
        /\ debuggee[s].status = "none" /\ debuggee'[s].maker = r.from
        /\ debuggee'[s].status = "live" /\ r.from \in Agent
    BY DEF Request
  <2>7. /\ \A t \in Session : debuggee'[t].status # "none" => debuggee'[t].maker \in Agent
        /\ \A t \in Session : debuggee[t].status # "none" => debuggee'[t] = debuggee[t]
    BY <2>6 DEF Made
  <2>8. \A b \in Agent : active[b] \subseteq Session /\ sess[b] \in Session \cup {Nil}
                         /\ (reply[b] # Nil => reply[b].kind \in Kind)
    BY DEF Types, Reply
  <2>4. Made'
    BY ONLY IInv, <1>1, <2>7, <2>8 DEF IInv, Made, Success
  <2>5. Accounted'
    BY <1>1, <2>1, <2>6 DEF Accounted, Names, Live
  <2> QED
    BY <2>2, <2>3, <2>4, <2>5, RestoringKept
<1>3. CASE r.op # "spawn"
  <2>1. PICK s \in Reached(r) : Act(s, r) /\ disturbed' = disturbed \cup {s} /\ UNCHANGED lost
    BY <1>3 DEF ServeLate
  <2>2. s \in Session /\ Live(s)
    BY <2>1 DEF Reached
  <2>7. /\ debuggee' \in [Session -> Debuggee]
        /\ \A t \in Session : debuggee'[t].maker = debuggee[t].maker
        /\ \A t \in Session : t # s => debuggee'[t] = debuggee[t]
        /\ debuggee'[s].status \in {"live", "gone"}
    BY <1>1, <2>1, <2>2, ActKeepsMaker
  <2> USE <1>1, <2>1, <2>2, <2>7
  <2>3. Types'
    BY DEF Types
  <2>4. Protocol'
    BY DEF Protocol
  <2>8. \A t \in Session : /\ debuggee[t].status # "none" <=> debuggee'[t].status # "none"
                           /\ debuggee[t].status = "gone" => debuggee'[t].status = "gone"
    BY DEF Live
  <2>9. \A b \in Agent : active[b] \subseteq Session /\ sess[b] \in Session \cup {Nil}
                         /\ (reply[b] # Nil => reply[b].kind \in Kind)
    BY DEF Types, Reply
  <2>5. Made'
    BY ONLY IInv, <1>1, <2>7, <2>8, <2>9 DEF IInv, Made, Success
  <2>6. Accounted'
    BY DEF Accounted, Names, Live
  <2> QED
    BY <2>3, <2>4, <2>5, <2>6, RestoringKept
<1> QED
  BY <1>2, <1>3

LEMMA SessionEndsHolds ==
  ASSUME IInv, NEW s \in Session, SessionEnds(s)
  PROVE  IInv'
<1> USE DEF IInv
<1>1. /\ debuggee' \in [Session -> Debuggee]
      /\ \A t \in Session : debuggee'[t].maker = debuggee[t].maker
      /\ \A t \in Session : t # s => debuggee'[t] = debuggee[t]
      /\ debuggee'[s].status = "gone"
  BY DEF SessionEnds, Ended, Unused, Types, Debuggee
<1>2. Types'
  BY <1>1 DEF SessionEnds, Types
<1>3. Protocol'
  BY DEF SessionEnds, Protocol
<1>4. Made'
  BY <1>1 DEF SessionEnds, Made, Types, Success, Live
<1>5. Accounted'
  BY <1>1 DEF SessionEnds, Accounted, Names, Live
<1> QED
  BY <1>2, <1>3, <1>4, <1>5, RestoringKept DEF SessionEnds, OnlyEndsLate

LEMMA DaemonHolds ==
  ASSUME IInv, Daemon
  PROVE  IInv' /\ UNCHANGED flow
<1>1. IInv'
  BY ServeSpawnHolds, ServeSessionHolds, RefuseHolds, ServeLateHolds, SessionEndsHolds DEF Daemon
<1>2. UNCHANGED flow
  BY DEF Daemon, ServeSpawn, ServeSession, Refuse, ServeLate, SessionEnds
<1> QED
  BY <1>1, <1>2

----------------------------------------------------------------------------
(* What an agent notes of its sessions when it handles an answer.          *)

\* It notes A and n, and they still account for all of its sessions.
Noted(a, A, n) ==
  /\ active' = [active EXCEPT ![a] = A] /\ recent' = [recent EXCEPT ![a] = n]
  /\ A \subseteq Session /\ n \in A \cup {Nil} /\ (n = Nil => A = {})
  /\ \A s \in A : debuggee[s].status # "none"
  /\ \A s \in Session : Live(s) /\ debuggee[s].maker = a => s \in A \cup lost

LEMMA NotedNothing ==
  ASSUME IInv, NEW a \in Agent, UNCHANGED <<active, recent>>, \A s \in Session : ~Names(a, s)
  PROVE  Noted(a, active[a], recent[a])
  BY DEF Noted, IInv, Types, Made, Accounted, Defaults

LEMMA NotedSpawn ==
  ASSUME IInv, NEW a \in Agent, pc[a] \in SpawnLabels, reply[a] # Nil, reply[a].kind = "ok",
         NoteSpawn(a)
  PROVE  Noted(a, active[a] \cup {reply[a].value}, reply[a].value)
<1>1. /\ reply[a].value \in Session /\ debuggee[reply[a].value].status # "none"
      /\ active[a] \subseteq Session
  BY DEF IInv, Made, Types
<1>2. \A s \in Session : Live(s) /\ debuggee[s].maker = a =>
        s \in lost \/ s \in active[a] \/ s = reply[a].value
  BY DEF IInv, Accounted, Names
<1> QED
  BY <1>1, <1>2 DEF Noted, NoteSpawn, IInv, Made, Types

LEMMA NotedKill ==
  ASSUME IInv, NEW a \in Agent, pc[a] \in KillLabels, reply[a] # Nil, NoteKill(a, sess[a])
  PROVE  \E A, n :
           /\ Noted(a, A, n)
           /\ ~Success(a) => A = active[a] /\ n = recent[a]
           /\ Success(a) /\ sess[a] # Nil => A = active[a] \ {sess[a]}
<1>1. \A s \in Session : ~Names(a, s)
  BY DEF Names
<1>2. CASE ~(Success(a) /\ sess[a] # Nil)
  <2>1. UNCHANGED <<active, recent>>
    BY <1>2 DEF NoteKill
  <2> QED
    BY <1>1, <1>2, <2>1, NotedNothing
<1>3. CASE Success(a) /\ sess[a] # Nil
  <2> DEFINE A == active[a] \ {sess[a]}
  <2>1. active' = [active EXCEPT ![a] = A]
    BY <1>3 DEF NoteKill
  <2>2. active'[a] = A
    BY <2>1 DEF IInv, Types
  <2>3. /\ A \subseteq Session /\ (\A s \in A : debuggee[s].status # "none")
        /\ \A s \in Session : Live(s) /\ debuggee[s].maker = a => s \in A \cup lost
    BY <1>1, <1>3 DEF IInv, Types, Made, Accounted, Live
  <2>4. PICK n \in A \cup {Nil} : (n = Nil => A = {}) /\ recent' = [recent EXCEPT ![a] = n]
    <3>1. CASE recent[a] = sess[a]
      BY <1>3, <2>2, <3>1 DEF NoteKill
    <3>2. CASE recent[a] # sess[a]
      <4>1. recent' = [recent EXCEPT ![a] = recent[a]]
        BY <1>3, <3>2 DEF NoteKill, IInv, Types
      <4>2. recent[a] \in A \cup {Nil} /\ (recent[a] = Nil => A = {})
        BY <3>2 DEF IInv, Defaults
      <4> QED
        BY <4>1, <4>2
    <3> QED
      BY <3>1, <3>2
  <2>5. Noted(a, A, n)
    BY <2>1, <2>3, <2>4 DEF Noted
  <2> QED
    BY <1>3, <2>5
<1> QED
  BY <1>2, <1>3

LEMMA NotedAccounts ==
  ASSUME IInv, NEW a \in Agent, NEW A, NEW n, Noted(a, A, n), UNCHANGED <<debuggee, lost>>,
         \A b \in Agent \ {a} : pc'[b] = pc[b] /\ reply'[b] = reply[b]
  PROVE  /\ Accounted'
         /\ active' \in [Agent -> SUBSET Session] /\ recent' \in [Agent -> Session \cup {Nil}]
         /\ active'[a] = A /\ recent'[a] = n
         /\ \A b \in Agent \ {a} : active'[b] = active[b] /\ recent'[b] = recent[b]
<1>1. /\ active' \in [Agent -> SUBSET Session] /\ recent' \in [Agent -> Session \cup {Nil}]
      /\ active'[a] = A /\ recent'[a] = n
      /\ \A b \in Agent \ {a} : active'[b] = active[b] /\ recent'[b] = recent[b]
  BY DEF Noted, IInv, Types
<1>2. \A s \in Session, b \in Agent \ {a} : Names(b, s) => Names(b, s)'
  BY DEF Names
<1>3. \A s \in Session : Live(s) => debuggee[s].maker \in Agent
  BY DEF IInv, Made, Live
<1>4. Accounted'
  BY <1>1, <1>2, <1>3 DEF Noted, IInv, Accounted, Live
<1> QED
  BY <1>1, <1>4

----------------------------------------------------------------------------
(* An agent sends, spawns and returns.                                     *)

\* A workflow that has its session goes on to its next request.
Moves(a, l, op, v) ==
  /\ pc[a] \in Labels \ Sessionless /\ reply[a] # Nil
  /\ pc' = [pc EXCEPT ![a] = l] /\ Send(a, op, sess[a], v)
  /\ gate' \in [Agent -> Branch \cup {Nil}] /\ verdict' \in [Agent -> Verdict]
  /\ answered' \in [Agent -> BOOLEAN]
  /\ UNCHANGED <<active, recent, flow, sess, before, crashes, daemonVars>>

LEMMA SendSends ==
  ASSUME Types, NEW a \in Agent, NEW op \in CallOps, NEW s \in Session \cup {Nil},
         NEW v \in Flag \cup {Nil}, Send(a, op, s, v)
  PROVE  /\ request' \in [Agent -> Request \cup {Nil}] /\ reply' \in [Agent -> Reply \cup {Nil}]
         /\ request'[a].from = a /\ request'[a].op = op /\ request'[a].session = s
         /\ request'[a].value = v /\ reply'[a] = Nil
         /\ \A b \in Agent \ {a} : request'[b] = request[b] /\ reply'[b] = reply[b]
  BY DEF Send, Types, Request

LEMMA MovesHolds ==
  ASSUME IInv, NEW a \in Agent, NEW l \in Labels \ Sessionless, NEW op \in CallOps,
         NEW v \in Flag \cup {Nil}, Moves(a, l, op, v),
         op # "spawn", op = "kill" <=> l = "kill", op = "flip" => v \in Flag
  PROVE  IInv' /\ UNCHANGED flow
<1> USE DEF IInv
<1>1. /\ request' \in [Agent -> Request \cup {Nil}] /\ reply' \in [Agent -> Reply \cup {Nil}]
      /\ request'[a].from = a /\ request'[a].op = op /\ request'[a].session = sess[a]
      /\ request'[a].value = v /\ reply'[a] = Nil
      /\ \A b \in Agent \ {a} : request'[b] = request[b] /\ reply'[b] = reply[b]
  BY SendSends DEF Moves, Types
<1>2. /\ pc' \in [Agent -> Labels] /\ pc'[a] = l /\ pc[a] \in Labels \ Sessionless
      /\ \A b \in Agent \ {a} : pc'[b] = pc[b]
      /\ UNCHANGED <<active, recent, flow, sess, before, crashes, daemonVars>>
  BY DEF Moves, Types
<1>3. Types'
  BY <1>1, <1>2 DEF Moves, Types
<1>4. Protocol' /\ OnlyEndsLate'
  BY <1>1, <1>2 DEF Protocol, OnlyEndsLate
<1>5. Made'
  BY <1>1, <1>2 DEF Made, Success
<1>6. Accounted'
  <2>1. \A s \in Session, b \in Agent : Names(b, s) => Names(b, s)'
    BY <1>1, <1>2 DEF Names
  <2>2. \A s \in Session : Live(s) => debuggee[s].maker \in Agent
    BY DEF Made, Live
  <2> QED
    BY <1>2, <2>1, <2>2 DEF Accounted, Live
<1>7. Defaults' /\ Restoring'
  BY <1>2 DEF Defaults, Restoring
<1> QED
  BY <1>2, <1>3, <1>4, <1>5, <1>6, <1>7

LEMMA ReturnHolds ==
  ASSUME IInv, NEW a \in Agent, Return(a), request[a] = Nil, NEW A, NEW n, Noted(a, A, n),
         UNCHANGED <<crashes, daemonVars>>
  PROVE  IInv'
<1> USE DEF IInv
<1>1. /\ pc'[a] = "none" /\ flow'[a] = "idle" /\ reply'[a] = Nil /\ request'[a] = Nil
      /\ sess'[a] = Nil
      /\ \A b \in Agent \ {a} : /\ pc'[b] = pc[b] /\ flow'[b] = flow[b] /\ sess'[b] = sess[b]
                               /\ reply'[b] = reply[b] /\ request'[b] = request[b]
                               /\ before'[b] = before[b]
  BY DEF Return, Types
<1>2. /\ Accounted'
      /\ active' \in [Agent -> SUBSET Session] /\ recent' \in [Agent -> Session \cup {Nil}]
      /\ active'[a] = A /\ recent'[a] = n
      /\ \A b \in Agent \ {a} : active'[b] = active[b] /\ recent'[b] = recent[b]
  BY <1>1, NotedAccounts
<1>3. Types'
  BY <1>2 DEF Return, Types, Nothing, Verdict
<1>4. Protocol' /\ OnlyEndsLate'
  BY <1>1 DEF Protocol, OnlyEndsLate
<1>5. Made'
  BY <1>1, <1>2 DEF Made, Success, Noted
<1>6. Defaults' /\ Restoring'
  BY <1>1, <1>2 DEF Defaults, Restoring, Noted
<1> QED
  BY <1>2, <1>3, <1>4, <1>5, <1>6

\* A workflow sends its spawn, having killed or kept what it spawned before.
LEMMA SpawnHolds ==
  ASSUME IInv, NEW a \in Agent, NEW f \in Workflow, NEW g \in Branch \cup {Nil},
         NEW kept \in SUBSET Session, Spawn(a, f, g, kept), flow[a] \in Workflow,
         NEW A, NEW n, Noted(a, A, n),
         A = before[a].active \cup before[a].unkilled \cup kept,
         before[a].unkilled \cup kept = {} /\ (\A s, t \in before[a].active : s = t) =>
           n = before[a].recent,
         UNCHANGED <<crashes, daemonVars>>
  PROVE  IInv'
<1> USE DEF IInv
<1>1. /\ request' \in [Agent -> Request \cup {Nil}] /\ reply' \in [Agent -> Reply \cup {Nil}]
      /\ request'[a].from = a /\ request'[a].op = "spawn" /\ reply'[a] = Nil
      /\ \A b \in Agent \ {a} : request'[b] = request[b] /\ reply'[b] = reply[b]
  BY SendSends DEF Spawn
<1>2. /\ pc'[a] = "spawn" /\ flow'[a] = f /\ sess'[a] = Nil
      /\ before'[a].active = before[a].active /\ before'[a].recent = before[a].recent
      /\ before'[a].unkilled = before[a].unkilled \cup kept
      /\ \A b \in Agent \ {a} : /\ pc'[b] = pc[b] /\ flow'[b] = flow[b] /\ sess'[b] = sess[b]
                               /\ before'[b] = before[b]
  BY DEF Spawn, Types
<1>3. /\ Accounted'
      /\ active' \in [Agent -> SUBSET Session] /\ recent' \in [Agent -> Session \cup {Nil}]
      /\ active'[a] = A /\ recent'[a] = n
      /\ \A b \in Agent \ {a} : active'[b] = active[b] /\ recent'[b] = recent[b]
  BY <1>1, <1>2, NotedAccounts
<1>4. Types'
  <2>1. before' \in [Agent -> [active : SUBSET Session, recent : Session \cup {Nil},
                             unkilled : SUBSET Session]]
    <3> DEFINE b == [before[a] EXCEPT !.unkilled = @ \cup kept]
    <3>1. b \in [active : SUBSET Session, recent : Session \cup {Nil}, unkilled : SUBSET Session]
      BY DEF Types
    <3>2. before' = [before EXCEPT ![a] = b]
      BY DEF Spawn, Types
    <3> HIDE DEF b
    <3> QED
      BY <3>1, <3>2 DEF Types
  <2>2. /\ flow' \in [Agent -> {"idle", "call"} \cup Workflow] /\ pc' \in [Agent -> Labels]
        /\ sess' \in [Agent -> Session \cup {Nil}] /\ gate' \in [Agent -> Branch \cup {Nil}]
        /\ verdict' \in [Agent -> Verdict] /\ answered' \in [Agent -> BOOLEAN]
    BY DEF Spawn, Types, Verdict
  <2> QED
    BY <1>1, <1>3, <2>1, <2>2 DEF Types
<1>5. Protocol' /\ OnlyEndsLate'
  BY <1>1, <1>2 DEF Protocol, OnlyEndsLate
<1>6. Made'
  BY <1>1, <1>2, <1>3 DEF Made, Success, Noted
<1>7. Defaults'
  BY <1>1, <1>2, <1>3 DEF Defaults, Noted
<1>8. Restoring'
  BY <1>2, <1>3 DEF Restoring
<1> QED
  BY <1>3, <1>4, <1>5, <1>6, <1>7, <1>8

----------------------------------------------------------------------------
(* The steps of an agent.                                                  *)

LEMMA OthersRestored ==
  ASSUME IInv, NEW a \in Agent, \A b \in Agent \ {a} : flow'[b] = flow[b]
  PROVE  \A b \in Agent \ {a} : RestoredBy(b)
  BY DEF RestoredBy

LEMMA FlowKept ==
  ASSUME UNCHANGED flow
  PROVE  \A b \in Agent : RestoredBy(b)
  BY DEF RestoredBy

LEMMA CallHolds ==
  ASSUME IInv, NEW a \in Agent, NEW op \in CallOps, NEW s \in Session \cup {Nil}, Call(a, op, s)
  PROVE  IInv' /\ \A b \in Agent : RestoredBy(b)
<1> USE DEF IInv
<1> DEFINE to == IF op = "spawn" THEN Nil ELSE Resolved(a, s)
<1>1. to \in Session \cup {Nil} /\ (to = Nil /\ op # "spawn" => active[a] = {})
  BY DEF Resolved, Types, Defaults
<1>2. PICK v \in IF op = "flip" THEN Flag ELSE {Nil} : Send(a, op, to, v)
  BY DEF Call
<1>3. sess' = [sess EXCEPT ![a] = to] /\ v \in Flag \cup {Nil} /\ (op = "flip" => v \in Flag)
  BY <1>2 DEF Call
<1> HIDE DEF to
<1>4. /\ request' \in [Agent -> Request \cup {Nil}] /\ reply' \in [Agent -> Reply \cup {Nil}]
      /\ request'[a].from = a /\ request'[a].op = op /\ request'[a].session = to
      /\ request'[a].value = v /\ reply'[a] = Nil
      /\ \A b \in Agent \ {a} : request'[b] = request[b] /\ reply'[b] = reply[b]
  BY <1>1, <1>2, <1>3, SendSends
<1>5. /\ pc'[a] \in {"call", "call_spawn", "call_kill"} /\ pc' \in [Agent -> Labels]
      /\ op = "spawn" <=> pc'[a] = "call_spawn"
      /\ op = "kill" <=> pc'[a] = "call_kill"
      /\ flow[a] = "idle" /\ flow'[a] = "call" /\ pc[a] = "none"
      /\ sess'[a] = to
      /\ \A b \in Agent \ {a} : pc'[b] = pc[b] /\ flow'[b] = flow[b] /\ sess'[b] = sess[b]
      /\ UNCHANGED <<active, recent, gate, verdict, answered, before, crashes, daemonVars>>
  BY <1>3 DEF Call, Types, Protocol
<1>6. Types'
  BY <1>1, <1>3, <1>4, <1>5 DEF Call, Types
<1>7. Protocol' /\ OnlyEndsLate'
  BY <1>3, <1>4, <1>5 DEF Protocol, OnlyEndsLate
<1>8. Made'
  BY <1>4, <1>5 DEF Made, Success
<1>9. Accounted'
  <2>1. \A t \in Session, b \in Agent : Names(b, t) => Names(b, t)'
    BY <1>4, <1>5 DEF Names
  <2>2. \A t \in Session : Live(t) => debuggee[t].maker \in Agent
    BY DEF Made, Live
  <2> QED
    BY <1>5, <2>1, <2>2 DEF Accounted, Live
<1>10. Defaults' /\ Restoring'
  BY <1>1, <1>5 DEF Defaults, Restoring
<1> QED
  BY <1>5, <1>6, <1>7, <1>8, <1>9, <1>10, OthersRestored DEF RestoredBy

LEMMA CallReturnsHolds ==
  ASSUME IInv, NEW a \in Agent, CallReturns(a)
  PROVE  IInv' /\ \A b \in Agent : RestoredBy(b)
<1>1. /\ flow[a] = "call" /\ pc[a] \in {"call", "call_spawn", "call_kill"} /\ reply[a] # Nil
      /\ request[a] = Nil /\ Return(a) /\ UNCHANGED <<crashes, daemonVars>>
  BY DEF CallReturns, IInv, Protocol
<1>2. \E A, n : Noted(a, A, n)
  <2>1. CASE pc[a] = "call_spawn" /\ reply[a].kind = "ok"
    BY <1>1, <2>1, NotedSpawn DEF CallReturns
  <2>2. CASE pc[a] = "call_spawn" /\ reply[a].kind # "ok"
    BY <2>2, NotedNothing DEF CallReturns, NoteSpawn, Names
  <2>3. CASE pc[a] = "call_kill"
    BY <1>1, <2>3, NotedKill DEF CallReturns
  <2>4. CASE pc[a] = "call"
    BY <2>4, NotedNothing DEF CallReturns, Names
  <2> QED
    BY <1>1, <2>1, <2>2, <2>3, <2>4
<1>3. IInv'
  BY <1>1, <1>2, ReturnHolds
<1>4. \A b \in Agent \ {a} : flow'[b] = flow[b]
  BY <1>1 DEF Return, IInv, Types
<1> QED
  BY <1>1, <1>3, <1>4, OthersRestored DEF RestoredBy

LEMMA StartHolds ==
  ASSUME IInv, NEW a \in Agent, NEW f \in {"triage", "bypass", "dump"}, Start(a, f)
  PROVE  IInv' /\ \A b \in Agent : RestoredBy(b)
<1> USE DEF IInv
<1>1. /\ pc[a] = "none" /\ flow[a] = "idle" /\ pc'[a] = "check" /\ flow'[a] = f
      /\ request[a] = Nil /\ reply[a] = Nil
      /\ before'[a] = [active |-> active[a], recent |-> recent[a], unkilled |-> {}]
      /\ \A b \in Agent \ {a} : pc'[b] = pc[b] /\ flow'[b] = flow[b] /\ before'[b] = before[b]
      /\ UNCHANGED <<active, recent, sess, gate, request, reply, crashes, daemonVars>>
  BY DEF Start, Types, Protocol
<1>2. Types'
  BY DEF Start, Types, Verdict
<1>3. Protocol' /\ OnlyEndsLate'
  BY <1>1 DEF Protocol, OnlyEndsLate
<1>4. Made'
  BY <1>1 DEF Made, Success
<1>5. Accounted'
  <2>1. \A t \in Session, b \in Agent : Names(b, t) => Names(b, t)'
    BY <1>1 DEF Names
  <2>2. \A t \in Session : Live(t) => debuggee[t].maker \in Agent
    BY DEF Made, Live
  <2> QED
    BY <1>1, <2>1, <2>2 DEF Accounted, Live
<1>6. Defaults' /\ Restoring'
  BY <1>1 DEF Defaults, Restoring
<1> QED
  BY <1>1, <1>2, <1>3, <1>4, <1>5, <1>6, OthersRestored DEF RestoredBy

\* A session whose kill the answer in hand does not confirm.
Unconfirmed(a) == IF pc[a] = "kill" /\ ~Success(a) THEN {sess[a]} ELSE {}

\* A workflow that ends has restored what it has to.
LEMMA ReturnRestores ==
  ASSUME IInv, NEW a \in Agent, Return(a), request[a] = Nil, NEW A, NEW n, Noted(a, A, n),
         UNCHANGED <<crashes, daemonVars>>, flow[a] \in Workflow,
         A = before[a].active \cup before[a].unkilled \cup Unconfirmed(a),
         before[a].unkilled \cup Unconfirmed(a) = {} /\ (\A s, t \in before[a].active : s = t) =>
           n = before[a].recent
  PROVE  IInv' /\ \A b \in Agent : RestoredBy(b)
<1>1. IInv'
  BY ReturnHolds
<1>2. \A b \in Agent \ {a} : flow'[b] = flow[b]
  BY DEF Return, IInv, Types
<1>3. active'[a] = A /\ recent'[a] = n
  BY DEF Noted, IInv, Types
<1>4. RestoredBy(a)
  BY <1>3 DEF RestoredBy, Unconfirmed
<1> QED
  BY <1>1, <1>2, <1>4, OthersRestored

\* A workflow that concludes without a session, or with one that it gives up.
LEMMA ConcludeHolds ==
  ASSUME IInv, NEW a \in Agent, NEW v, NEW kept, Conclude(a, v, kept), request[a] = Nil,
         NEW A, NEW n, Noted(a, A, n), UNCHANGED <<crashes, daemonVars>>, flow[a] \in Workflow,
         kept = Unconfirmed(a), kept \subseteq Session,
         A = before[a].active \cup before[a].unkilled \cup kept,
         before[a].unkilled \cup kept = {} /\ (\A s, t \in before[a].active : s = t) =>
           n = before[a].recent
  PROVE  IInv' /\ \A b \in Agent : RestoredBy(b)
<1>1. CASE flow[a] = "dump_triage" /\ v \notin {"crashed", "raised"}
  <2>1. Spawn(a, "dump", Nil, kept)
    BY <1>1 DEF Conclude
  <2>2. IInv'
    BY <2>1, SpawnHolds
  <2>3. flow'[a] = "dump" /\ \A b \in Agent \ {a} : flow'[b] = flow[b]
    BY <2>1 DEF Spawn, IInv, Types
  <2> QED
    BY <2>2, <2>3, OthersRestored DEF RestoredBy
<1>2. CASE ~(flow[a] = "dump_triage" /\ v \notin {"crashed", "raised"})
  <2>1. Return(a)
    BY <1>2 DEF Conclude
  <2> QED
    BY <2>1, ReturnRestores
<1> QED
  BY <1>1, <1>2

\* What a workflow without a session notes.
LEMMA Sessionlessly ==
  ASSUME IInv, NEW a \in Agent, flow[a] \in Workflow, pc[a] \in {"check", "spawn"},
         \A s \in Session : ~Names(a, s), UNCHANGED <<active, recent>>
  PROVE  /\ Noted(a, active[a], recent[a])
         /\ active[a] = before[a].active \cup before[a].unkilled \cup {}
         /\ before[a].unkilled = {} /\ (\A s, t \in before[a].active : s = t) =>
              recent[a] = before[a].recent
  BY NotedNothing DEF IInv, Restoring

LEMMA CheckHolds ==
  ASSUME IInv, NEW a \in Agent, CheckTriage(a) \/ CheckBypass(a) \/ CheckDump(a)
  PROVE  IInv' /\ \A b \in Agent : RestoredBy(b)
<1>1. /\ pc[a] = "check" /\ flow[a] \in Workflow /\ UNCHANGED <<crashes, daemonVars>>
      /\ UNCHANGED <<active, recent>> /\ request[a] = Nil /\ \A s \in Session : ~Names(a, s)
  BY DEF CheckTriage, CheckBypass, CheckDump, Checks, Refused, Begins, Names, IInv, Protocol
<1>2. /\ Noted(a, active[a], recent[a])
      /\ active[a] = before[a].active \cup before[a].unkilled \cup {}
      /\ before[a].unkilled = {} /\ (\A s, t \in before[a].active : s = t) =>
           recent[a] = before[a].recent
  BY <1>1, Sessionlessly
<1>5. Unconfirmed(a) = {}
  BY <1>1 DEF Unconfirmed
<1>3. CASE Return(a)
  BY <1>1, <1>2, <1>3, <1>5, ReturnRestores
<1>4. ASSUME NEW f \in Workflow, NEW g \in Branch \cup {Nil}, Spawn(a, f, g, {})
      PROVE  IInv' /\ \A b \in Agent : RestoredBy(b)
  <2>1. IInv'
    BY <1>1, <1>2, <1>4, SpawnHolds
  <2>2. flow'[a] = f /\ \A b \in Agent \ {a} : flow'[b] = flow[b]
    BY <1>4 DEF Spawn, IInv, Types
  <2> QED
    BY <2>1, <2>2, OthersRestored DEF RestoredBy
<1> QED
  BY <1>3, <1>4 DEF CheckTriage, CheckBypass, CheckDump, Refused, Begins

LEMMA SpawnFailsHolds ==
  ASSUME IInv, NEW a \in Agent, SpawnFails(a)
  PROVE  IInv' /\ \A b \in Agent : RestoredBy(b)
<1>1. /\ pc[a] = "spawn" /\ flow[a] \in Workflow /\ UNCHANGED <<crashes, daemonVars>>
      /\ UNCHANGED <<active, recent>> /\ request[a] = Nil /\ \A s \in Session : ~Names(a, s)
  BY DEF SpawnFails, Handles, Names, IInv, Protocol, Types
<1>2. PICK v : Conclude(a, v, {})
  BY DEF SpawnFails
<1>3. /\ Noted(a, active[a], recent[a])
      /\ active[a] = before[a].active \cup before[a].unkilled \cup {}
      /\ before[a].unkilled = {} /\ (\A s, t \in before[a].active : s = t) =>
           recent[a] = before[a].recent
  BY <1>1, Sessionlessly
<1>4. Unconfirmed(a) = {}
  BY <1>1 DEF Unconfirmed
<1> QED
  BY <1>1, <1>2, <1>3, <1>4, ConcludeHolds

LEMMA KilledHolds ==
  ASSUME IInv, NEW a \in Agent, Killed(a)
  PROVE  IInv' /\ \A b \in Agent : RestoredBy(b)
<1>1. /\ pc[a] = "kill" /\ flow[a] \in Workflow /\ reply[a] # Nil /\ request[a] = Nil
      /\ sess[a] \in Session /\ NoteKill(a, sess[a]) /\ UNCHANGED <<crashes, daemonVars>>
      /\ Conclude(a, verdict[a], IF Success(a) THEN {} ELSE {sess[a]})
  BY DEF Killed, Handles, IInv, Protocol, Made, Types
<1>2. PICK A, n : /\ Noted(a, A, n)
                  /\ ~Success(a) => A = active[a] /\ n = recent[a]
                  /\ Success(a) => A = active[a] \ {sess[a]}
  BY <1>1, NotedKill
<1> DEFINE kept == Unconfirmed(a)
<1>3. kept = (IF Success(a) THEN {} ELSE {sess[a]}) /\ kept \subseteq Session
  BY <1>1 DEF Unconfirmed
<1>4. active[a] = before[a].active \cup before[a].unkilled \cup {sess[a]}
      /\ sess[a] \notin before[a].active \cup before[a].unkilled
  BY <1>1 DEF IInv, Restoring
<1>5. A = before[a].active \cup before[a].unkilled \cup kept
  BY <1>1, <1>2, <1>3, <1>4
<1>6. before[a].unkilled \cup kept = {} /\ (\A s, t \in before[a].active : s = t) =>
        n = before[a].recent
  <2>1. /\ before[a].recent # Nil => before[a].recent \in before[a].active
        /\ before[a].recent = Nil => before[a].active = {}
    BY <1>1 DEF IInv, Restoring
  <2>2. n \in A \cup {Nil} /\ (n = Nil => A = {}) /\ A \subseteq Session
    BY <1>2 DEF Noted
  <2> QED
    BY <1>5, <2>1, <2>2
<1>7. Conclude(a, verdict[a], kept)
  BY <1>1, <1>3
<1> HIDE DEF kept
<1>8. kept = Unconfirmed(a)
  BY DEF kept
<1> QED
  BY <1>1, <1>2, <1>3, <1>5, <1>6, <1>7, <1>8, ConcludeHolds

LEMMA SpawnedHolds ==
  ASSUME IInv, NEW a \in Agent, Spawned(a)
  PROVE  IInv' /\ UNCHANGED flow
<1> USE DEF IInv
<1> DEFINE s == reply[a].value
<1>1. /\ pc[a] = "spawn" /\ reply[a] # Nil /\ reply[a].kind = "ok" /\ NoteSpawn(a)
      /\ sess' = [sess EXCEPT ![a] = s]
      /\ UNCHANGED <<flow, gate, verdict, answered, before, crashes, daemonVars>>
  BY DEF Spawned, Handles
<1>2. s \in Session \ active[a] /\ debuggee[s].status # "none" /\ debuggee[s].maker = a
  BY <1>1 DEF Made
<1>3. sess'[a] = s /\ \A b \in Agent \ {a} : sess'[b] = sess[b]
  BY <1>1 DEF Types
<1>4. PICK l \in {"breakpoint", "continue"}, op \in {"inspect", "continue"} :
        pc' = [pc EXCEPT ![a] = l] /\ Send(a, op, s, Nil)
  <2>1. flow[a] \in {"idle", "call"} \cup Workflow
    BY DEF Types
  <2>2. flow[a] \notin {"idle", "call"}
    BY <1>1 DEF Protocol
  <2> QED
    BY <1>3, <2>1, <2>2 DEF Spawned, Triage
<1> HIDE DEF s
<1>5. /\ request' \in [Agent -> Request \cup {Nil}] /\ reply' \in [Agent -> Reply \cup {Nil}]
      /\ request'[a].from = a /\ request'[a].op = op /\ request'[a].session = s
      /\ reply'[a] = Nil
      /\ \A b \in Agent \ {a} : request'[b] = request[b] /\ reply'[b] = reply[b]
  BY <1>2, <1>4, SendSends
<1>6. pc'[a] = l /\ (\A b \in Agent \ {a} : pc'[b] = pc[b]) /\ pc' \in [Agent -> Labels]
  BY <1>4 DEF Types
<1>7. Noted(a, active[a] \cup {s}, s)
  BY <1>1, NotedSpawn DEF s
<1>8. /\ Accounted'
      /\ active' \in [Agent -> SUBSET Session] /\ recent' \in [Agent -> Session \cup {Nil}]
      /\ active'[a] = active[a] \cup {s} /\ recent'[a] = s
      /\ \A b \in Agent \ {a} : active'[b] = active[b] /\ recent'[b] = recent[b]
  BY <1>1, <1>5, <1>6, <1>7, NotedAccounts
<1>9. Types'
  BY <1>1, <1>2, <1>5, <1>6, <1>8 DEF Types
<1>10. Protocol' /\ OnlyEndsLate'
  BY <1>1, <1>3, <1>4, <1>5, <1>6 DEF Protocol, OnlyEndsLate
<1>11. Made'
  BY <1>1, <1>2, <1>3, <1>4, <1>5, <1>6, <1>8 DEF Made, Success
<1>12. Defaults'
  BY <1>1, <1>2, <1>3, <1>6, <1>8 DEF Defaults
<1>13. Restoring'
  BY <1>1, <1>2, <1>3, <1>4, <1>6, <1>8 DEF Restoring
<1> QED
  BY <1>1, <1>8, <1>9, <1>10, <1>11, <1>12, <1>13

\* The steps in the middle of a workflow.
Middle(a) ==
  \/ BreakpointSet(a) \/ TriageContinued(a) \/ BypassContinued(a) \/ DumpContinued(a)
  \/ RegistersRead(a) \/ Flipped(a) \/ Stepped(a) \/ MemoryRead(a)

LEMMA Moving ==
  ASSUME IInv, NEW a \in Agent, NEW l, NEW op, NEW v,
         pc[a] \in Labels \ Sessionless, reply[a] # Nil, Then(a, l, op, v),
         UNCHANGED <<active, recent, flow, sess, gate, before, crashes, daemonVars>>,
         UNCHANGED answered \/ answered' = [answered EXCEPT ![a] = reply[a].kind = "ok"],
         UNCHANGED verdict \/ \E w \in Verdict : Concludes(a, w)
  PROVE  Moves(a, l, op, v)
<1>1. verdict' \in [Agent -> Verdict]
  BY DEF IInv, Types, Concludes
<1>2. gate' \in [Agent -> Branch \cup {Nil}] /\ answered' \in [Agent -> BOOLEAN]
  BY DEF IInv, Types
<1> QED
  BY <1>1, <1>2 DEF Then, Moves

LEMMA MiddleMoves ==
  ASSUME IInv, NEW a \in Agent, Middle(a)
  PROVE  \E l \in Labels \ Sessionless, op \in CallOps, v \in Flag \cup {Nil} :
           /\ Moves(a, l, op, v) /\ op # "spawn" /\ (op = "kill" <=> l = "kill")
           /\ op = "flip" => v \in Flag
<1> SUFFICES \E l \in Labels \ Sessionless, op \in CallOps, v \in Flag \cup {Nil} :
               /\ Then(a, l, op, v) /\ op # "spawn" /\ (op = "kill" <=> l = "kill")
               /\ op = "flip" => v \in Flag
               /\ pc[a] \in Labels \ Sessionless /\ reply[a] # Nil
               /\ UNCHANGED <<active, recent, flow, sess, gate, before, crashes, daemonVars>>
               /\ UNCHANGED answered \/ answered' = [answered EXCEPT ![a] = reply[a].kind = "ok"]
               /\ UNCHANGED verdict \/ \E w \in Verdict : Concludes(a, w)
  BY Moving
<1> USE DEF Handles
<1>1. CASE BreakpointSet(a)
  BY <1>1 DEF BreakpointSet
<1>2. CASE TriageContinued(a)
  <2>1. TriageVerdicts(a) \subseteq Verdict
    BY DEF TriageVerdicts, Verdict
  <2> QED
    BY <1>2, <2>1 DEF TriageContinued
<1>3. CASE BypassContinued(a)
  BY <1>3 DEF BypassContinued, Verdict
<1>4. CASE DumpContinued(a)
  BY <1>4 DEF DumpContinued
<1>5. CASE RegistersRead(a)
  BY <1>5 DEF RegistersRead, Inverse, IInv, Types
<1>6. CASE Flipped(a)
  BY <1>6 DEF Flipped
<1>7. CASE Stepped(a)
  BY <1>7 DEF Stepped, Verdict
<1>8. CASE MemoryRead(a)
  BY <1>8 DEF MemoryRead, Verdict
<1> QED
  BY <1>1, <1>2, <1>3, <1>4, <1>5, <1>6, <1>7, <1>8 DEF Middle

LEMMA CrashHolds ==
  ASSUME IInv, NEW a \in Agent, Crash(a)
  PROVE  IInv' /\ \A b \in Agent : RestoredBy(b)
<1> USE DEF IInv
<1>1. /\ pc'[a] = "none" /\ flow'[a] = "idle" /\ reply'[a] = Nil /\ request'[a] = Nil
      /\ sess'[a] = Nil /\ active'[a] = {} /\ recent'[a] = Nil
      /\ \A b \in Agent \ {a} : /\ pc'[b] = pc[b] /\ flow'[b] = flow[b] /\ sess'[b] = sess[b]
                               /\ reply'[b] = reply[b] /\ request'[b] = request[b]
                               /\ before'[b] = before[b]
                               /\ active'[b] = active[b] /\ recent'[b] = recent[b]
      /\ UNCHANGED <<debuggee, disturbed>>
  BY DEF Crash, Types
<1>2. late' \subseteq Request /\ OnlyEndsLate'
  BY AbandonedTypes DEF Crash, Types, OnlyEndsLate
<1>3. crashes' \in 0..MaxCrash /\ crashes' # crashes
  BY DEF Crash, Types
<1>4. Types'
  BY <1>2, <1>3 DEF Crash, Types, Nothing, Verdict
<1>5. Protocol'
  BY <1>1 DEF Protocol
<1>6. Made'
  BY <1>1 DEF Made, Success
<1>7. Accounted'
  <2>1. lost' = lost \cup {s \in Session : debuggee[s].maker = a}
    BY DEF Crash
  <2>2. \A t \in Session, b \in Agent \ {a} : Names(b, t) => Names(b, t)'
    BY <1>1 DEF Names
  <2>3. \A t \in Session : Live(t) => debuggee[t].maker \in Agent
    BY DEF Made, Live
  <2> QED
    BY <1>1, <2>1, <2>2, <2>3 DEF Accounted, Live
<1>8. Defaults' /\ Restoring'
  BY <1>1 DEF Defaults, Restoring
<1> QED
  BY <1>2, <1>3, <1>4, <1>5, <1>6, <1>7, <1>8 DEF RestoredBy

LEMMA StutterHolds ==
  ASSUME IInv, UNCHANGED vars
  PROVE  IInv' /\ UNCHANGED flow
  BY DEF vars, IInv, Types, Protocol, OnlyEndsLate, Made, Success, Accounted, Names, Live, Defaults,
         Restoring

LEMMA StepHolds ==
  ASSUME IInv, NEW a \in Agent, Step(a)
  PROVE  IInv' /\ \A b \in Agent : RestoredBy(b)
<1>1. CASE Middle(a)
  BY <1>1, MiddleMoves, MovesHolds, FlowKept
<1>2. CASE Spawned(a)
  BY <1>2, SpawnedHolds, FlowKept
<1>3. CASE ~Middle(a) /\ ~Spawned(a)
  BY <1>3, CallReturnsHolds, CheckHolds, SpawnFailsHolds, KilledHolds DEF Step, Middle
<1> QED
  BY <1>1, <1>2, <1>3

LEMMA NextHolds ==
  ASSUME IInv, [Next]_vars
  PROVE  IInv' /\ \A b \in Agent : RestoredBy(b)
<1>1. CASE Daemon
  BY <1>1, DaemonHolds, FlowKept
<1>2. ASSUME NEW a \in Agent, NEW op \in CallOps, NEW s \in Session \cup {Nil}, Call(a, op, s)
      PROVE  IInv' /\ \A b \in Agent : RestoredBy(b)
  BY <1>2, CallHolds
<1>3. ASSUME NEW a \in Agent, NEW f \in Workflow \cap Asks[a], Start(a, f)
      PROVE  IInv' /\ \A b \in Agent : RestoredBy(b)
  <2>1. f \in {"triage", "bypass", "dump"}
    OBVIOUS
  <2> QED
    BY <1>3, <2>1, StartHolds
<1>4. ASSUME NEW a \in Agent, Step(a) PROVE IInv' /\ \A b \in Agent : RestoredBy(b)
  BY <1>4, StepHolds
<1>5. ASSUME NEW a \in Agent, TimeOut(a) PROVE IInv' /\ \A b \in Agent : RestoredBy(b)
  <2>1. UNCHANGED flow
    BY <1>5 DEF TimeOut
  <2> QED
    BY <1>5, <2>1, TimeOutHolds, FlowKept
<1>6. ASSUME NEW a \in Agent, Crash(a) PROVE IInv' /\ \A b \in Agent : RestoredBy(b)
  BY <1>6, CrashHolds
<1>7. CASE UNCHANGED vars
  BY <1>7, StutterHolds, FlowKept
<1> QED
  BY <1>1, <1>2, <1>3, <1>4, <1>5, <1>6, <1>7 DEF Next

LEMMA InvariantSuffices == IInv => TypeOK /\ SessionsAccounted /\ DefaultIsOwn
<1> SUFFICES ASSUME IInv PROVE TypeOK /\ SessionsAccounted /\ DefaultIsOwn
  OBVIOUS
<1>1. TypeOK
  BY DEF IInv, Made, TypeOK, SessionHeld
<1>2. SessionsAccounted
  BY DEF IInv, Accounted, Names, SessionsAccounted
<1>3. DefaultIsOwn
  BY DEF IInv, Types, Protocol, Made, Defaults, DefaultIsOwn
<1> QED
  BY <1>1, <1>2, <1>3

----------------------------------------------------------------------------
(* The theorems.                                                           *)

\* Type correctness, and that a workflow past its spawn holds a session of its own.
THEOREM TypesHold == Spec => []TypeOK
<1>1. IInv /\ [Next]_vars => IInv'
  BY NextHolds
<1> QED
  BY InitHolds, <1>1, InvariantSuffices, PTL DEF Spec

\* Whatever daemon, late answers and ends of processes do, every live session can be
\* named by the agent that made it, unless the answer to its spawn never arrived or
\* the agent's process has ended (debug_spawn, debug_kill).
THEOREM SessionsAreAccounted == Spec => []SessionsAccounted
<1>1. IInv /\ [Next]_vars => IInv'
  BY NextHolds
<1> QED
  BY InitHolds, <1>1, InvariantSuffices, PTL DEF Spec

\* An agent with sessions of its own never leaves the choice to the daemon
\* (_resolve_debug_session, _most_recent_session_id).
THEOREM DefaultsAreOwn == Spec => []DefaultIsOwn
<1>1. IInv /\ [Next]_vars => IInv'
  BY NextHolds
<1> QED
  BY InitHolds, <1>1, InvariantSuffices, PTL DEF Spec

\* Every workflow, however it ends, leaves the sessions and the default as they were,
\* but for sessions whose kill was not confirmed (the finally blocks of triage_crash,
\* bypass_decision_gate and dump_decrypted_buffer).
THEOREM WorkflowsRestore == Spec => WorkflowRestores
<1>1. IInv /\ [Next]_vars => IInv'
  BY NextHolds
<1>2. IInv /\ [Next]_vars => [\A a \in Agent : RestoredBy(a)]_vars
  BY NextHolds
<1> QED
  BY InitHolds, <1>1, <1>2, PTL DEF Spec, WorkflowRestores
=============================================================================
