----------------------------- MODULE ControlFlow -----------------------------
(* From basic blocks to a control flow graph and a state machine:             *)
(* ControlFlowGraph, FiniteStateMachine and the natural loops of the pattern  *)
(* detector in neutral_representation.py, the gates that rvs's agent flow     *)
(* reports, and the blocks and graph of the orchestrator's flow and cfg       *)
(* queries. A node is named by its address, as BB_<address> is.               *)
EXTENDS Naturals, Sequences, SequencesExt, FiniteSetsExt

CONSTANT None

\* A basic block: where it starts, where its last instruction is and of which
\* sort ("cond", "jmp", "ret", "other", or "" when it is not known), and the
\* two targets that radare2 gives.
Block == [addr : Nat, branch : Nat, op : {"cond", "jmp", "ret", "other", ""},
          jump : Nat \cup {None}, fail : Nat \cup {None}]

Addrs(blocks) == {blocks[i].addr : i \in DOMAIN blocks}

\* A listing without disassembly: targets are known, last instructions are not.
WithoutOps(blocks) == [i \in DOMAIN blocks |-> [blocks[i] EXCEPT !.op = ""]]

-----------------------------------------------------------------------------
(* rvs agent flow: conditional blocks as gates, the rest of the graph lost *)

IsGate(b) == b.jump # None /\ b.fail # None
IsExitNode(b) == b.jump = None /\ b.fail = None

\* A gate has the address of the branch instruction, not of its block.
GateOf(b) == [addr |-> b.branch, jump |-> b.jump, fail |-> b.fail]

\* The entries of a sequence at some of its places, in order.
Picked(s, places) == FlattenSeq([i \in DOMAIN s |-> IF i \in places THEN <<s[i]>> ELSE << >>])

FlowOf(blocks) ==
    LET gates == Picked(blocks, {i \in DOMAIN blocks : IsGate(blocks[i])})
        exits == Picked(blocks, {i \in DOMAIN blocks : IsExitNode(blocks[i])})
    IN  [entry |-> blocks[1].addr,
         gates |-> [i \in DOMAIN gates |-> GateOf(gates[i])],
         exits |-> [i \in DOMAIN exits |-> exits[i].addr]]

\* The stand-in blocks of the orchestrator when it cannot list the real ones.
SynthBlocks(flow) ==
    LET at(a) == [addr |-> a, branch |-> a, op |-> "", jump |-> None, fail |-> None]
    IN  [i \in DOMAIN flow.gates |-> at(flow.gates[i].addr)]
           \o [i \in DOMAIN flow.exits |-> at(flow.exits[i])]

-----------------------------------------------------------------------------
(* ControlFlowGraph *)

\* An edge's condition: None, or the gate it quotes and how often it is negated.
Edge(source, target, type, cond) ==
    [source |-> source, target |-> target, type |-> type, cond |-> cond]

IsExit(blocks, i) ==
    /\ IsExitNode(blocks[i])
    /\ blocks[i].op = "ret" \/ i = Len(blocks)

BlockEdges(blocks, i) ==
    LET b == blocks[i]
    IN  IF IsGate(b)
        THEN << Edge(b.addr, b.jump, "TAKEN", None), Edge(b.addr, b.fail, "NOT_TAKEN", None) >>
        ELSE IF b.jump # None
        THEN << Edge(b.addr, b.jump, IF b.op = "jmp" THEN "UNCONDITIONAL" ELSE "FALLTHROUGH", None) >>
        ELSE IF ~IsExit(blocks, i) /\ i < Len(blocks)
        THEN << Edge(b.addr, blocks[i + 1].addr, "FALLTHROUGH", None) >>
        ELSE << >>

\* Mutated: a block that jumps to itself is no loop head.
LoopHeads_Strict(nodes, edges) ==
    {e.target : e \in {d \in Range(edges) : {d.source, d.target} \subseteq Range(nodes)
                                              /\ d.target < d.source}}

\* A jump back, or in place, between two nodes makes its target a loop head.
LoopHeads(nodes, edges) ==
    {e.target : e \in {d \in Range(edges) : {d.source, d.target} \subseteq Range(nodes)
                                              /\ d.target <= d.source}}

GraphOfBlocks(blocks) ==
    LET nodes == [i \in DOMAIN blocks |-> blocks[i].addr]
        edges == FlattenSeq([i \in DOMAIN blocks |-> BlockEdges(blocks, i)])
    IN  [nodes |-> nodes, entries |-> {nodes[1]},
         exits |-> {nodes[i] : i \in {j \in DOMAIN blocks : IsExit(blocks, j)}},
         edges |-> edges, heads |-> LoopHeads(nodes, edges)]

\* Each entry where it occurs first.
Firsts(s) == Picked(s, {i \in DOMAIN s : \A j \in 1..i - 1 : s[j] # s[i]})

GateEdges(g) ==
    << Edge(g.addr, g.jump, "TAKEN", [of |-> g.addr, nots |-> 0]),
       Edge(g.addr, g.fail, "NOT_TAKEN", [of |-> g.addr, nots |-> 1]) >>

GraphOfGates(flow) ==
    LET ids   == FlattenSeq([i \in DOMAIN flow.gates |->
                    <<flow.gates[i].addr, flow.gates[i].jump, flow.gates[i].fail>>])
        nodes == Firsts(<<flow.entry>> \o ids \o flow.exits)
        edges == FlattenSeq([i \in DOMAIN flow.gates |-> GateEdges(flow.gates[i])])
    IN  [nodes |-> nodes, entries |-> {flow.entry}, exits |-> Range(flow.exits),
         edges |-> edges, heads |-> LoopHeads(nodes, edges)]

\* The orchestrator's own graph: it calls the type of an edge edge_type, which
\* the constructor does not read, so every edge becomes a fall-through; no node
\* is an entry, an exit or a loop head.
CfgEdges(b) ==
    (IF b.jump # None THEN << Edge(b.addr, b.jump, "FALLTHROUGH", None) >> ELSE << >>)
      \o (IF b.fail # None THEN << Edge(b.addr, b.fail, "FALLTHROUGH", None) >> ELSE << >>)

GraphOfCfg(blocks) ==
    [nodes |-> [i \in DOMAIN blocks |-> blocks[i].addr], entries |-> {}, exits |-> {},
     edges |-> FlattenSeq([i \in DOMAIN blocks |-> CfgEdges(blocks[i])]), heads |-> {}]

-----------------------------------------------------------------------------
(* FiniteStateMachine.from_cfg *)

\* Mutated: every conditional edge counts.
GateCount_Each(edges, i) == Cardinality({j \in 1..i : edges[j].type \in {"TAKEN", "NOT_TAKEN"}})

\* gate_counter when the edge at i has been seen.
GateCount(edges, i) == Cardinality({j \in 1..i : edges[j].type = "TAKEN"})

Always == [of |-> <<"TRUE">>, nots |-> 0]

\* The predicate of a transition: what it quotes and how often it is negated.
Predicate(edges, i) ==
    LET e == edges[i]
        named(n) == [of |-> <<"gate", GateCount(edges, i)>>, nots |-> n]
        quoted(n) == [of |-> <<"cond", e.cond.of>>, nots |-> e.cond.nots + n]
    IN  CASE e.type = "TAKEN"     -> IF e.cond = None THEN named(0) ELSE quoted(0)
          [] e.type = "NOT_TAKEN" -> IF e.cond = None THEN named(1) ELSE quoted(1)
          [] OTHER                -> Always

\* next(entry nodes), else the first state, else none (the literal S0).
InitialState(graph) ==
    IF graph.nodes = << >> THEN None
    ELSE IF graph.entries = {} THEN graph.nodes[1]
    ELSE graph.nodes[Min({i \in DOMAIN graph.nodes : graph.nodes[i] \in graph.entries})]

FsmOf(graph) ==
    [states      |-> graph.nodes,
     initial     |-> InitialState(graph),
     terminal    |-> IF graph.exits = {} /\ graph.nodes # << >>
                     THEN {Last(graph.nodes)} ELSE graph.exits,
     transitions |-> [i \in DOMAIN graph.edges |->
                        [source |-> graph.edges[i].source, target |-> graph.edges[i].target,
                         predicate |-> Predicate(graph.edges, i)]]]

-----------------------------------------------------------------------------
(* AlgorithmicPatternDetector._find_natural_loop_nodes *)

Sources(edges, n) ==
    LET into == Picked(edges, {i \in DOMAIN edges : edges[i].target = n})
    IN  [i \in DOMAIN into |-> into[i].source]

\* One turn of the walk: what is popped and not found yet is found, and the
\* sources of the edges into it are pushed.
Turn(edges, at) ==
    LET n == Last(at.stack)
    IN  IF n \in at.found THEN [at EXCEPT !.stack = Front(@)]
        ELSE [found |-> at.found \cup {n}, stack |-> Front(at.stack) \o Sources(edges, n)]

Grow(edges, body, pushed) ==
    LET nodes == body \cup Range(pushed) \cup {e.source : e \in Range(edges)}
        walked[at \in [found : SUBSET nodes, stack : Seq(nodes)]] ==
            IF at.stack = << >> THEN at.found ELSE walked[Turn(edges, at)]
    IN  walked[[found |-> body, stack |-> pushed]]

\* The walk back from every edge into the head but the not-taken ones; the
\* edges that enter the loop from outside are among them.
LoopBody(graph, head) ==
    Grow(graph.edges, {head},
         Sources(Picked(graph.edges, {i \in DOMAIN graph.edges : graph.edges[i].type # "NOT_TAKEN"}),
                 head))

=============================================================================
