------------------------- MODULE MCAnalysisPipeline -------------------------
(* Small instances of AnalysisPipeline: functions of up to three blocks with  *)
(* every choice of branches between them, pages of two and three entries.     *)
EXTENDS AnalysisPipeline

\* Three blocks at 2, 4 and 6; 8 is outside the function.
Places == <<2, 4, 6>>

\* The blocks that may start at a: conditional ones fall through to the next
\* address and have the branch as their only instruction or as their last.
BlocksAt(a) ==
    LET block(branch, op, jump, fail) ==
            [addr |-> a, branch |-> branch, op |-> op, jump |-> jump, fail |-> fail]
    IN  {block(br, "cond", j, a + 2) : br \in {a, a + 1}, j \in {2, 4, 6}}
          \cup {block(a + 1, "jmp", j, None) : j \in {2, 4, 6, 8}}
          \cup {block(a + 1, "other", j, None) : j \in {a + 2, None}}
          \cup {block(a, "ret", None, None)}

\* Listed by address, or with the block at 4 as the entry and the one at 2 last.
MCFunctions ==
    {<<b>> : b \in BlocksAt(2)}
      \cup (BlocksAt(2) \X BlocksAt(4))
      \cup (BlocksAt(2) \X BlocksAt(4) \X BlocksAt(6))
      \cup (BlocksAt(4) \X BlocksAt(6) \X BlocksAt(2))

MCUsualLimit == [k \in Kinds |-> IF k \in {"functions", "strings", "symbols", "frida_symbols", "classes"}
                                 THEN 3 ELSE 2]

=============================================================================
