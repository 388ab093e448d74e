--------------------------- MODULE Orchestration ---------------------------
(***************************************************************************)
(* Calls of the tools: RvsHarness.execute_tool, the query methods of the   *)
(* harness that route themselves through it, and the orchestrator session  *)
(* it opens over a package (NeutralBinaryOrchestrator).                    *)
(*                                                                         *)
(* The threads of a process share one harness.  Its _in_orchestration flag *)
(* tells the query methods that an orchestrator is calling them, so that   *)
(* they run rvs on the file they are given; it is saved, set and restored  *)
(* around a session.  A thread-local twin of it is never seen by others.   *)
(*                                                                         *)
(* A target is what its file holds: its type and, in the order of          *)
(* extraction, its components.  What rvs answers is left open.             *)
(***************************************************************************)
EXTENDS Naturals, Sequences, SequencesExt, ToolCatalog

CONSTANTS Threads, Nil,
          Targets,
          Holds,         \* [type, parts, broken] of each target
          AbiPreference, \* the ABIs from the most to the least preferred
          CallsOf,       \* the calls that each thread makes
          MaxCalls       \* bound: calls of each thread

DefaultAbi == "x86_64"

Part == [type : {"elf_so", "dex"}, abi : {"x86_64", "arm64-v8a", "armeabi-v7a", Nil}]
Call == [via : {"tool", "method"}, shape : {"object", "none", "other"}, tool : STRING,
         args : SUBSET STRING, target : Targets, abi : {"x86_64", "arm64-v8a", "armeabi-v7a", Nil},
         type : {"elf_so", "dex", Nil}, bad : BOOLEAN]

ASSUME OrchestrationAssumption ==
  /\ Holds \in [Targets -> [type : {"elf", "apk", "dex", "unknown"}, parts : Seq(Part),
                            broken : BOOLEAN]]
  /\ \A t \in Threads : CallsOf[t] \subseteq Call
  /\ \A t \in Threads : \A c \in CallsOf[t] : c.shape # "object" => c.args = {}
  /\ Nil \notin Part \cup Call \cup {"elf_so", "dex"}
  /\ MaxCalls \in [Threads -> Nat]

VARIABLES
  flag,     \* _in_orchestration of the harness
  ctx,      \* its thread-local twin
  pc,       \* what each thread is about to do
  call,     \* the call it makes
  saved,    \* prev_in_orch and prev_ctx
  dir,      \* do the extracted files of its session exist?
  reply,    \* its call's envelope
  calls,    \* calls made by each thread
  disturbed, \* history: two sessions were open at once, or a caller's own
             \* orchestrator was given the harness
  crossed    \* history: threads whose call was routed under another's session

vars == <<flag, ctx, pc, call, saved, dir, reply, calls, disturbed, crossed>>

Inside == {"ingest", "query", "close", "restore"}
OthersInside(t) == \E u \in Threads \ {t} : pc[u] \in Inside \cup {"enter"}

NoReply == [ok |-> FALSE, how |-> "none", on |-> Nil, neutral |-> FALSE, carried |-> {}]

Init ==
  /\ flag = FALSE /\ ctx = [t \in Threads |-> FALSE]
  /\ pc = [t \in Threads |-> "idle"]
  /\ call = [t \in Threads |-> Nil]
  /\ saved = [t \in Threads |-> [flag |-> FALSE, ctx |-> FALSE]]
  /\ dir = [t \in Threads |-> FALSE]
  /\ reply = [t \in Threads |-> NoReply]
  /\ calls = [t \in Threads |-> 0] /\ disturbed = FALSE /\ crossed = {}

----------------------------------------------------------------------------
(* Which component answers.                                                *)

\* A file whose machine is not known gets the ABI that is asked for.
Parts(target, default) ==
  [i \in DOMAIN Holds[target].parts |->
     IF Holds[target].type = "elf" /\ Holds[target].parts[i].abi = Nil
     THEN [Holds[target].parts[i] EXCEPT !.abi = default] ELSE Holds[target].parts[i]]

\* The first of the parts that is a wanted one.
First(parts, wanted) ==
  LET found == {i \in DOMAIN parts : parts[i] \in wanted}
  IN IF found = {} THEN Nil ELSE parts[CHOOSE i \in found : \A j \in found : i <= j]

\* Of the wanted ones, one with an ABI that is preferred to the others'.
PreferredIn(parts, wanted) ==
  LET known == First(AbiPreference, {c.abi : c \in ToSet(parts) \cap wanted})
  IN First(parts, IF known = Nil THEN wanted ELSE {c \in wanted : c.abi = known})

OfType(type) == {c \in Part : c.type = type}

GetComponent_AnyAbi(parts, abi, type) == PreferredIn(parts, OfType(type))
GetComponent(parts, abi, type) ==
  CASE type = "dex" -> First(parts, OfType(type))
    [] type # "dex" /\ abi # Nil -> First(parts, {c \in OfType(type) : c.abi = abi})
    [] OTHER -> PreferredIn(parts, OfType(type))

FirstOf(choices) == First(choices, Part)

Default(abi) == IF abi = Nil THEN DefaultAbi ELSE abi

\* The component that query() picks for a call.
Resolve(c) ==
  LET parts == Parts(c.target, Default(c.abi))
      native == GetComponent(parts, Nil, "elf_so")
      dex == GetComponent(parts, Nil, "dex")
  IN CASE c.type = "dex" -> dex
       [] c.type = "elf_so" -> GetComponent(parts, c.abi, "elf_so")
       [] c.type = Nil /\ c.abi # Nil -> GetComponent(parts, c.abi, "elf_so")
       [] c.type = Nil /\ c.abi = Nil /\ Holds[c.target].type = "apk" ->
            FirstOf(<<GetComponent(parts, DefaultAbi, "elf_so"), native, dex>>)
       [] c.type = Nil /\ c.abi = Nil /\ Holds[c.target].type = "dex" -> dex
       [] OTHER -> FirstOf(<<native>> \o parts)

\* agent_triage settles for any component, and for the package itself.
ResolveTriage(c) ==
  LET parts == Parts(c.target, Default(c.abi))
  IN FirstOf(<<GetComponent(parts, Default(c.abi), IF c.type = Nil THEN "elf_so" ELSE c.type)>>
             \o parts)

----------------------------------------------------------------------------
(* Which way a call goes.                                                  *)

Queries == DOMAIN OrchestratedReads

Package(target) == Holds[target].type \in {"apk", "dex"}

NeedsOrchestration(c) == Package(c.target) \/ c.args \cap Component # {}

Orchestrated(c) == NeedsOrchestration(c) /\ c.tool \in Queries \cup {"rvs_agent_triage"}

ReadsOf(c) ==
  IF ~Orchestrated(c) THEN DirectReads[c.tool]
  ELSE IF c.tool \in Queries THEN OrchestratedReads[c.tool] ELSE Reads({}, Component)

\* execute_tool answers these with an error of its own.
Refused(c) ==
  \/ c.shape = "other"
  \/ c.shape = "none" /\ c.tool \notin NoFileRequired
  \/ Incomplete(FileDemand(c.tool), c.args)
  \/ c.bad
  \/ c.tool \notin DOMAIN DirectReads
  \/ Incomplete(ReadsOf(c).demands, c.args)
  \/ ~Orchestrated(c) /\ Contradictory(c.tool, c.args)

Answer(c, ok, how, on, carried) ==
  [ok |-> ok, how |-> how, on |-> on,
   neutral |-> ok /\ how = "orchestrated" /\ "neutral" \in c.args,
   carried |-> carried]

Goto(t, l) == pc' = [pc EXCEPT ![t] = l]

\* The caller hears what `r` says.
Returns(t, r) == reply' = [reply EXCEPT ![t] = r] /\ Goto(t, "idle")

\* A thread calls execute_tool, or one of the query methods.
Begin(t, c) ==
  /\ pc[t] = "idle" /\ calls[t] < MaxCalls[t]
  /\ c.via = "method" => c.tool \in Queries
  /\ call' = [call EXCEPT ![t] = c] /\ calls' = [calls EXCEPT ![t] = @ + 1]
  /\ reply' = [reply EXCEPT ![t] = NoReply]
  /\ Goto(t, c.via)
  /\ crossed' = crossed \ {t}
  /\ UNCHANGED <<flag, ctx, saved, dir, disturbed>>

\* A query method outside orchestration hands a package, or a request for one of
\* its components or for neutral names, to execute_tool.
Route(t) ==
  /\ pc[t] = "method"
  /\ Goto(t, IF ~flag /\ ~ctx[t] /\ NeedsOrchestration(call[t]) THEN "tool" ELSE "run")
  /\ crossed' = (IF OthersInside(t) THEN crossed \cup {t} ELSE crossed)
  /\ UNCHANGED <<flag, ctx, call, saved, dir, reply, calls, disturbed>>

Check(t) ==
  /\ pc[t] = "tool"
  /\ IF Refused(call[t])
     THEN Returns(t, [NoReply EXCEPT !.how = "refused"])
     ELSE Goto(t, IF Orchestrated(call[t]) THEN "save" ELSE "run") /\ UNCHANGED reply
  /\ UNCHANGED <<flag, ctx, call, saved, dir, calls, disturbed, crossed>>

\* rvs runs on the file of the call, and what it says is the answer.
Run(t) ==
  /\ pc[t] = "run"
  /\ \E ok \in BOOLEAN : Returns(t, Answer(call[t], ok, "direct", Nil,
          IF ok THEN Carried(DirectReads[call[t].tool], call[t].tool, call[t].args) ELSE {}))
  /\ UNCHANGED <<flag, ctx, call, saved, dir, calls, disturbed, crossed>>

----------------------------------------------------------------------------
(* The session around an orchestrated call.                                *)

Save(t) ==
  /\ pc[t] = "save"
  /\ saved' = [saved EXCEPT ![t] = [flag |-> flag, ctx |-> ctx[t]]]
  /\ disturbed' = (disturbed \/ OthersInside(t))
  /\ Goto(t, "enter")
  /\ UNCHANGED <<flag, ctx, call, dir, reply, calls, crossed>>

Enter(t) ==
  /\ pc[t] = "enter"
  /\ flag' = TRUE /\ ctx' = [ctx EXCEPT ![t] = TRUE]
  /\ Goto(t, "ingest")
  /\ UNCHANGED <<call, saved, dir, reply, calls, disturbed, crossed>>

\* The constructor extracts the package, which raises when it is malformed, and
\* then marks the harness once more.
Ingest_NoFinally(t) ==
  /\ pc[t] = "ingest" /\ Holds[call[t].target].broken
  /\ Returns(t, [NoReply EXCEPT !.how = "error"])
  /\ UNCHANGED <<flag, ctx, call, saved, dir, calls, disturbed, crossed>>
Ingest(t) ==
  /\ pc[t] = "ingest"
  /\ IF Holds[call[t].target].broken
     THEN /\ reply' = [reply EXCEPT ![t] = [NoReply EXCEPT !.how = "error"]]
          /\ Goto(t, "restore") /\ UNCHANGED <<flag, dir>>
     ELSE /\ dir' = [dir EXCEPT ![t] = Holds[call[t].target].type = "apk"]
          /\ flag' = TRUE
          /\ Goto(t, "query") /\ UNCHANGED reply
  /\ UNCHANGED <<ctx, call, saved, calls, disturbed, crossed>>

\* Bytecode knows its metadata and its strings, no more.
Routable(c, part) == part.type = "dex" => c.tool \in DOMAIN DexCarries

\* The session itself uses the file and the names that choose the component.
HandedOn(c, part) ==
  LET read == Carried(ReadsOf(c), c.tool, c.args)
  IN CASE c.tool \notin Queries -> read
       [] c.tool \in Queries /\ part.type = "dex" -> read \cap ({"file"} \cup Component \cup DexCarries[c.tool])
       [] OTHER -> read \cap ({"file"} \cup Component \cup NativeCarries[c.tool])

\* query() and the neutralisation of what it returns; rvs or the DEX parser may
\* fail, and so may the neutralisation of an answer of an unexpected form.
Query(t) ==
  LET c == call[t] IN
  /\ pc[t] = "query"
  /\ \E ok \in BOOLEAN :
       LET on == IF c.tool = "rvs_agent_triage" THEN ResolveTriage(c) ELSE Resolve(c) IN
       /\ ok /\ c.tool \in Queries => on # Nil /\ Routable(c, on)
       /\ reply' = [reply EXCEPT ![t] =
                       Answer(c, ok, "orchestrated", on, IF ok THEN HandedOn(c, on) ELSE {})]
  /\ Goto(t, "close")
  /\ UNCHANGED <<flag, ctx, call, saved, dir, calls, disturbed, crossed>>

Close(t) ==
  /\ pc[t] = "close"
  /\ dir' = [dir EXCEPT ![t] = FALSE]
  /\ Goto(t, "restore")
  /\ UNCHANGED <<flag, ctx, call, saved, reply, calls, disturbed, crossed>>

Restore(t) ==
  /\ pc[t] = "restore"
  /\ flag' = saved[t].flag /\ ctx' = [ctx EXCEPT ![t] = saved[t].ctx]
  /\ Goto(t, "idle")
  /\ UNCHANGED <<call, saved, dir, reply, calls, disturbed, crossed>>

\* A caller opens an orchestrator of its own over this harness, which nothing
\* unmarks again.
Adopt ==
  /\ flag' = TRUE /\ disturbed' = TRUE
  /\ UNCHANGED <<ctx, pc, call, saved, dir, reply, calls, crossed>>

Step(t) ==
  \/ Route(t) \/ Check(t) \/ Run(t)
  \/ Save(t) \/ Enter(t) \/ Ingest(t) \/ Query(t) \/ Close(t) \/ Restore(t)

Next == Adopt \/ \E t \in Threads : Step(t) \/ \E c \in CallsOf[t] : Begin(t, c)

Spec == Init /\ [][Next]_vars

----------------------------------------------------------------------------
(* Properties.                                                             *)

TypeOK ==
  /\ flag \in BOOLEAN /\ ctx \in [Threads -> BOOLEAN]
  /\ pc \in [Threads -> {"idle", "method", "tool", "run", "save", "enter"} \cup Inside]
  /\ \A t \in Threads : call[t] \in CallsOf[t] \cup {Nil}
  /\ \A t \in Threads : pc[t] # "idle" => call[t] # Nil
  /\ saved \in [Threads -> [flag : BOOLEAN, ctx : BOOLEAN]]
  /\ dir \in [Threads -> BOOLEAN]
  /\ reply \in [Threads -> [ok : BOOLEAN, how : {"none", "refused", "error", "direct", "orchestrated"},
                            on : Part \cup {Nil}, neutral : BOOLEAN, carried : SUBSET STRING]]
  /\ calls \in [Threads -> Nat] /\ \A t \in Threads : calls[t] <= MaxCalls[t]
  /\ disturbed \in BOOLEAN /\ crossed \subseteq Threads

\* As long as sessions do not overlap and no caller lends the harness to an
\* orchestrator of its own, the harness is marked only while a session is open:
\* a call that is refused, raises or returns leaves no mark behind (the finally
\* clauses of execute_tool).  A thread's own mark never outlives its session.
FlagRestored ==
  /\ \A t \in Threads : ctx[t] => pc[t] \in Inside
  /\ ~disturbed /\ flag => \E t \in Threads : pc[t] \in Inside

\* A query that succeeded, and that no other session could have led astray.
Succeeded(t) ==
  ~disturbed /\ t \notin crossed /\ pc[t] = "idle" /\ reply[t].ok /\ call[t].tool \in Queries

\* When such a query's caller hears, the session's files are gone, names are neutral
\* exactly when the caller asked for that, and a package was opened: it is never
\* analysed as if it were a binary.
AnsweredTidily ==
  \A t \in Threads : Succeeded(t) =>
    /\ ~dir[t]
    /\ reply[t].neutral <=> "neutral" \in call[t].args
    /\ NeedsOrchestration(call[t]) => reply[t].how = "orchestrated"

\* What answers is a component of the package, of the type and the ABI that the
\* caller named.
AnsweredByComponent ==
  \A t \in Threads : Succeeded(t) /\ NeedsOrchestration(call[t]) =>
    LET c == call[t]  r == reply[t] IN
    /\ r.on \in ToSet(Parts(c.target, Default(c.abi)))
    /\ c.type # Nil => r.on.type = c.type
    /\ c.abi # Nil /\ r.on.type # "dex" => r.on.abi = c.abi

\* Under the same conditions as FlagRestored, and unless another thread's session
\* was open when its way was chosen, a query that succeeds answers what was asked
\* (execute_tool and query).
AnswersAsked == AnsweredTidily /\ AnsweredByComponent

\* What a call is owed: that each of its arguments arrives, but one that another makes
\* void, and but "compact", which is advertised and lost, for a workflow; bytecode has
\* one form of answer only.
Formless(c, on) ==
  c.tool \in DOMAIN WorkflowSchema \/ (c.tool \in Queries /\ on # Nil /\ on.type = "dex")
Owed(c, on) ==
  c.args \ (Void(c.tool, c.args) \cup (IF Formless(c, on) THEN {"compact"} ELSE {}))

\* A call that the schemas allow is not refused, and every argument it is owed is
\* carried to the command it stands for, whichever way the call goes.  The schema
\* of patch_instruction leaves out that one of its two ways is needed.
SchemaHonoured ==
  \A t \in Threads :
    LET c == call[t]  r == reply[t] IN
    pc[t] = "idle" /\ c # Nil /\ c.via = "tool" /\ c.tool \in Tools
      /\ c.shape # "other" /\ Advertised(c.tool, c.args) /\ ~c.bad /\ ~Contradictory(c.tool, c.args) =>
        /\ r.how # "refused"
        /\ r.ok => Owed(c, r.on) \subseteq r.carried
=============================================================================
