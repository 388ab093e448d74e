--------------------------- MODULE AnalysisPipeline ---------------------------
(* An agent reads a binary through the harness: it pages through a list by    *)
(* following the continuation hints, or it takes the blocks or the gates of a *)
(* function, from the harness or from an orchestrator, and has a control flow *)
(* graph, a state machine and the bodies of the loops made of them.           *)
(* Every call runs rvs afresh; the file does not change meanwhile.            *)
EXTENDS Paging, ControlFlow

CONSTANTS Functions,    \* the functions that may be asked for, as radare2 lists their blocks
          MaxList,      \* bound: entries in a list
          MaxLimit      \* bound: the largest limit an agent asks for

\* A function has blocks, the entry first; no instruction is in two of them, one
\* that ends with a return goes nowhere, and a branch that is not taken goes on
\* behind itself.
ASSUME FunctionAssumption ==
    /\ None \notin Functions
    /\ \A f \in Functions :
        /\ f \in Seq(Block) /\ f # << >>
        /\ \A i, j \in DOMAIN f :
            i # j => {f[i].addr, f[i].branch} \cap {f[j].addr, f[j].branch} = {}
        /\ \A i \in DOMAIN f :
            /\ f[i].op = "ret" => IsExitNode(f[i])
            /\ IsGate(f[i]) => f[i].addr <= f[i].branch /\ f[i].branch < f[i].fail

ASSUME BoundAssumption == MaxList \in Nat /\ MaxLimit \in Nat

VARIABLES walk,    \* the list being paged through: its last answer and what was seen so far
          subject, \* the function being looked at
          view,    \* what the agent has of it
          graph,
          fsm

vars == <<walk, subject, view, graph, fsm>>

List(n) == [i \in 1..n |-> i]

Init == walk = None /\ subject = None /\ view = None /\ graph = None /\ fsm = None

Fresh == walk = None /\ subject = None

-----------------------------------------------------------------------------
(* Paging *)

\* The first call of a listing tool.
Ask(kind, n, compact, limit, offset) ==
    /\ LET answer == ToolAnswer(kind, List(n), compact, limit, offset)
       IN  walk' = [kind |-> kind, size |-> n, compact |-> compact, limit |-> limit,
                    start |-> OffsetPassed(kind, offset), at |-> OffsetPassed(kind, offset),
                    seen |-> answer.items, answer |-> answer]
    /\ UNCHANGED <<subject, view, graph, fsm>>

\* The agent calls again with the limit and the offset of the hint. The tools
\* that take no offset have no way to.
FollowHint ==
    /\ walk # None
    /\ walk.answer.next.given
    /\ walk.kind \in ReadsOffset
    /\ LET hint   == walk.answer.next
           answer == ToolAnswer(walk.kind, List(walk.size), walk.compact, hint.limit, hint.offset)
       IN  walk' = [walk EXCEPT !.at = hint.offset, !.seen = @ \o answer.items, !.answer = answer]
    /\ UNCHANGED <<subject, view, graph, fsm>>

-----------------------------------------------------------------------------
(* One function *)

\* The page of blocks that a listing answers with: the tool takes no limit.
Listed(f, compact, ops) ==
    ToolAnswer("blocks", IF ops THEN f ELSE WithoutOps(f), compact, NoLimit, 0).items

\* What from_raw_flow takes its nodes from: blocks if there are any, else gates.
Blocks(bs, genuine) == [route |-> "blocks", blocks |-> bs, genuine |-> genuine]
Gates(flow) == [route |-> "gates", flow |-> flow]

Look(f, v) == subject' = f /\ view' = v

\* RvsHarness.disasm
Disasm(f, compact, ops) ==
    /\ Look(f, Blocks(Listed(f, compact, ops), TRUE))
    /\ UNCHANGED <<walk, graph, fsm>>

\* RvsHarness.flow
Flow(f) ==
    /\ Look(f, Gates(FlowOf(f)))
    /\ UNCHANGED <<walk, graph, fsm>>

\* NeutralBinaryOrchestrator.flow: blocks are fetched by a listing without
\* disassembly, or made up from the gates when that fails.
OrchestratedFlow(f, listed) ==
    /\ Look(f, IF listed THEN Blocks(Listed(f, TRUE, FALSE), TRUE)
               ELSE IF SynthBlocks(FlowOf(f)) # << >> THEN Blocks(SynthBlocks(FlowOf(f)), FALSE)
               ELSE Gates(FlowOf(f)))
    /\ UNCHANGED <<walk, graph, fsm>>

\* NeutralBinaryOrchestrator.cfg: the same blocks, made a graph on the spot.
OrchestratedCfg(f, listed) ==
    LET bs == IF listed THEN Listed(f, TRUE, FALSE) ELSE << >>
    IN  /\ Look(f, [route |-> "cfg", blocks |-> bs, genuine |-> TRUE])
        /\ graph' = GraphOfCfg(bs)
        /\ UNCHANGED <<walk, fsm>>

\* ControlFlowGraph.from_raw_flow
FromRawFlow ==
    /\ view # None /\ graph = None /\ view.route # "cfg"
    /\ graph' = IF view.route = "blocks" THEN GraphOfBlocks(view.blocks) ELSE GraphOfGates(view.flow)
    /\ UNCHANGED <<walk, subject, view, fsm>>

\* ControlFlowGraph.to_fsm
ToFsm ==
    /\ graph # None /\ fsm = None
    /\ fsm' = FsmOf(graph)
    /\ UNCHANGED <<walk, subject, view, graph>>

\* What an agent may begin with.
Start ==
    \/ \E kind \in Kinds, n \in 0..MaxList, compact \in BOOLEAN,
          limit \in 0..MaxLimit \cup {NoLimit}, offset \in 0..MaxList + 1 :
            Ask(kind, n, compact, limit, offset)
    \/ \E f \in Functions :
        \/ \E compact, ops \in BOOLEAN : Disasm(f, compact, ops)
        \/ Flow(f)
        \/ \E listed \in BOOLEAN : OrchestratedFlow(f, listed) \/ OrchestratedCfg(f, listed)

Next == (Fresh /\ Start) \/ FollowHint \/ FromRawFlow \/ ToFsm

Spec == Init /\ [][Next]_vars

-----------------------------------------------------------------------------
(* Properties *)

\* Type correctness: an answer never counts below zero or hints at nothing,
\* a graph has each node once, a machine only states it names.
TypeOK ==
    /\ walk # None =>
        /\ walk.answer.total \in Nat /\ Len(walk.answer.items) <= walk.answer.total
        /\ walk.compact => walk.answer.remaining \in 0..walk.answer.total
    /\ graph # None => IsInjective(graph.nodes)
    /\ fsm # None => ({fsm.initial} \cup fsm.terminal) \subseteq Range(fsm.states) \cup {None}

\* The pages that an agent gets by following the hints are consecutive pieces
\* of the list from where it began: none is missing or told twice, what an
\* answer says remains is what was not seen, there is a hint as long as
\* something remains, and each hint leads on (prune_functions to prune_xrefs;
\* the lists that rvs has cut already are the subject of WalkComplete).
PagesPartition ==
    walk # None /\ walk.compact /\ walk.kind \notin FridaKinds =>
        LET reached == walk.start + Len(walk.seen)
            hint    == walk.answer.next
        IN  /\ walk.seen = Slice(List(walk.size), walk.start, Len(walk.seen))
            /\ walk.answer.remaining = Remaining(walk.size, reached)
            /\ hint.given <=> walk.answer.remaining > 0
            /\ hint.given /\ hint.limit > 0 => hint.offset > walk.at

\* An agent that began at the start, followed every hint and has as many entries as
\* the answer counts in all has seen the list.
WalkComplete ==
    walk # None /\ walk.start = 0 /\ walk.kind \in ReadsOffset
        /\ ~walk.answer.next.given /\ Len(walk.seen) >= walk.answer.total =>
            walk.seen = List(walk.size)

\* The transitions out of a state.
Out(s) == {t \in Range(fsm.transitions) : t.source = s}

\* What the machine may do in a block that radare2 gives no target: nothing if
\* it ends the function, else run on into the block listed next.
RunsOn(bs, i) == \A t \in Out(bs[i].addr) : /\ i < Len(bs) /\ t.target = bs[i + 1].addr
                                            /\ t.predicate = Always

\* The gate of a conditional block decides between its two targets, and no
\* other block's transition depends on it.
DecidesAlone(b) ==
    \E g \in {t.predicate.of : t \in Out(b.addr)} :
        /\ {<<t.predicate, t.target>> : t \in Out(b.addr)}
             = {<<[of |-> g, nots |-> 0], b.jump>>, <<[of |-> g, nots |-> 1], b.fail>>}
        /\ \A t \in Range(fsm.transitions) : t.predicate.of = g => t.source = b.addr

\* A machine made of listed blocks starts in the entry block and moves from
\* each block as the program does: both ways out of a conditional block under
\* opposite predicates of its own, on to the target of any other, and no
\* further than the next block where radare2 knows no target; a return with a
\* known last instruction is terminal (from_raw_flow and from_cfg, whose
\* counter must pair the two edges of one block).
FsmFollowsProgram ==
    fsm # None /\ view.route = "blocks" =>
        LET bs == view.blocks
        IN  /\ Range(fsm.states) = Addrs(bs)
            /\ view.genuine => fsm.initial = subject[1].addr
            /\ \A i \in DOMAIN bs :
                LET b == bs[i]
                IN  CASE IsGate(b)       -> DecidesAlone(b)
                      [] b.jump # None /\ ~IsGate(b) ->
                            {<<t.predicate, t.target>> : t \in Out(b.addr)} = {<<Always, b.jump>>}
                      [] b.op = "ret"    -> Out(b.addr) = {} /\ b.addr \in fsm.terminal
                      [] OTHER           -> RunsOn(bs, i)

\* The nodes that each node leads to, along one edge or more: what is in every
\* set that has all that comes after the node and after the set.
After(g, ns) == {e.target : e \in {d \in Range(g.edges) : d.source \in ns}}

Leads(g) ==
    LET targets == {e.target : e \in Range(g.edges)}
    IN  [n \in Range(g.nodes) \cup {e.source : e \in Range(g.edges)} |->
            {m \in targets : \A C \in SUBSET targets : After(g, C \cup {n}) \subseteq C => m \in C}]

\* No loop escapes the detector: a block that can come back to itself is in the
\* body of a loop head on the same cycle, although heads are told by comparing
\* addresses and bodies by walking edges backwards; and every block of a body
\* leads to its head (from_raw_flow and _find_natural_loop_nodes).
LoopsCaught ==
    graph # None /\ view.route # "cfg" =>
        LET leads == Leads(graph)
        IN  /\ \A n \in Range(graph.nodes) :
                n \in leads[n] => \E h \in graph.heads : h \in leads[n] /\ n \in leads[h]
                                                      /\ n \in LoopBody(graph, h)
            /\ \A h \in graph.heads : \A n \in LoopBody(graph, h) :
                n = h \/ h \in leads[n]

=============================================================================
