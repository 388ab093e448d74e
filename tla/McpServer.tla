----------------------------- MODULE McpServer -----------------------------
(***************************************************************************)
(* RvsHarness.serve_mcp: the loop that reads JSON-RPC requests, a line at  *)
(* a time, and writes their answers.  It runs in one thread of the process *)
(* whose other threads may call the same harness (Orchestration).          *)
(*                                                                         *)
(* A line is what it turns out to be, with or without an id of its own;    *)
(* one over which the parser itself gives up (nested too deep, or a number *)
(* of too many digits) ends the loop by an exception that nobody catches.  *)
(* A write may find that the client is gone.                               *)
(***************************************************************************)
EXTENDS Orchestration

CONSTANTS Server,   \* the thread that serves
          Lines,    \* the lines a client may send
          MaxLines  \* bound: lines of a client

LineKind == {"blank", "garbage", "unparsable", "no_request", "bad_method", "initialize", "ping", "tools_list",
             "bad_params", "tools_call", "unknown", "bad_tool"}

ASSUME McpAssumption ==
  /\ Server \in Threads /\ MaxLines \in Nat /\ Nil \notin Lines
  /\ Lines \subseteq [kind : LineKind, id : BOOLEAN, call : Call \cup {Nil}]
  /\ \A l \in Lines : l.kind = "tools_call" => l.call \in CallsOf[Server]

VARIABLES
  serving,  \* is the loop running?
  broken,   \* has a write found the pipe to the client broken?
  raised,   \* has the parser given up over a line?
  line,     \* the request in hand
  lines,    \* the number of lines read
  due,      \* history: the ids of the requests among them; an id is a line's number, or 0
  sent      \* history: the answers written, [id, result]

mcp == <<serving, broken, raised, line, lines, due, sent>>
mcpVars == <<vars, mcp>>

McpInit == Init /\ serving = TRUE /\ broken = FALSE /\ raised = FALSE
           /\ line = Nil /\ lines = 0 /\ due = <<>> /\ sent = <<>>

\* Blank lines, and requests without an id once they are known to be requests, are
\* passed over in silence.
Silent(l) == l.kind = "blank" \/ (~l.id /\ l.kind \notin {"garbage", "unparsable", "no_request"})

\* Of what json.loads may raise only JSONDecodeError is caught.
ReadLine ==
  /\ serving /\ line = Nil /\ lines < MaxLines
  /\ lines' = lines + 1
  /\ \E l \in Lines :
       /\ due' = IF Silent(l) THEN due ELSE Append(due, IF l.id THEN lines' ELSE 0)
       /\ line' = IF Silent(l) \/ l.kind = "unparsable" THEN Nil ELSE l
       /\ serving' = (l.kind # "unparsable") /\ raised' = (l.kind = "unparsable")
  /\ UNCHANGED <<vars, broken, sent>>

\* The input ends, or is not text.
InputEnds ==
  /\ serving /\ line = Nil
  /\ serving' = FALSE
  /\ UNCHANGED <<vars, broken, raised, line, lines, due, sent>>

\* Is the answer a result, given what execute_tool said of a tool call?
Result(l, ok) == l.kind \in {"initialize", "ping", "tools_list"} \/ (l.kind = "tools_call" /\ ok)

\* The answer is written; when the client is gone the loop ends.
Send_NoBreak(ok) ==
  /\ line' = Nil
  /\ \/ /\ sent' = Append(sent, [id |-> IF line.id THEN lines ELSE 0, result |-> Result(line, ok)])
        /\ UNCHANGED broken
     \/ broken' = TRUE /\ UNCHANGED sent
  /\ UNCHANGED <<serving, raised, lines, due>>
Send(ok) ==
  /\ line' = Nil
  /\ \/ /\ sent' = Append(sent, [id |-> IF line.id THEN lines ELSE 0, result |-> Result(line, ok)])
        /\ UNCHANGED <<serving, broken>>
     \/ serving' = FALSE /\ broken' = TRUE /\ UNCHANGED sent
  /\ UNCHANGED <<raised, lines, due>>

\* What the loop answers by itself.
Respond == line # Nil /\ line.kind # "tools_call" /\ Send(TRUE) /\ UNCHANGED vars

CallTool ==
  /\ line # Nil /\ line.kind = "tools_call" /\ call[Server] = Nil
  /\ Begin(Server, line.call)
  /\ UNCHANGED mcp

CallDone_Early ==
  /\ line # Nil /\ call[Server] # Nil
  /\ Send(reply[Server].ok)
  /\ call' = [call EXCEPT ![Server] = Nil] /\ reply' = [reply EXCEPT ![Server] = NoReply]
  /\ UNCHANGED <<flag, ctx, pc, saved, dir, calls, disturbed, crossed>>
\* execute_tool has returned: its envelope is the answer.
CallDone ==
  /\ line # Nil /\ call[Server] # Nil /\ pc[Server] = "idle"
  /\ Send(reply[Server].ok)
  /\ call' = [call EXCEPT ![Server] = Nil] /\ reply' = [reply EXCEPT ![Server] = NoReply]
  /\ UNCHANGED <<flag, ctx, pc, saved, dir, calls, disturbed, crossed>>

Serve == ReadLine \/ InputEnds \/ Respond \/ CallTool \/ CallDone

Agents ==
  /\ \/ Adopt
     \/ \E t \in Threads : Step(t)
     \/ \E t \in Threads \ {Server} : \E c \in CallsOf[t] : Begin(t, c)
  /\ UNCHANGED mcp

McpNext == Serve \/ Agents

McpSpec == McpInit /\ [][McpNext]_mcpVars

McpTypeOK ==
  /\ TypeOK
  /\ serving \in BOOLEAN /\ broken \in BOOLEAN /\ raised \in BOOLEAN
  /\ line \in Lines \cup {Nil}
  /\ lines \in 0 .. MaxLines /\ due \in Seq(0 .. MaxLines)
  /\ sent \in Seq([id : 0 .. MaxLines, result : BOOLEAN])

\* Every request that is read is answered once, in the order of arrival and under
\* its own id, and nothing else is; only the request in hand, the one over which the
\* client was found to be gone, or the one over which the parser gave up lacks its
\* answer (serve_mcp).
RepliesInOrder ==
  /\ Len(due) - Len(sent) = IF line # Nil \/ broken \/ raised THEN 1 ELSE 0
  /\ \A i \in DOMAIN sent : sent[i].id = due[i]
  /\ \A i, j \in DOMAIN due : i < j /\ due[i] # 0 /\ due[j] # 0 => due[i] < due[j]
=============================================================================
