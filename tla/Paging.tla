------------------------------- MODULE Paging -------------------------------
(* How lists reach an agent in pieces: the slicing of the prune_* functions   *)
(* of rvs_agent_harness.py, what each tool lets through to it, and the        *)
(* slicing that rvs does itself for the lists of a live process.              *)
(* An entry of a list is its place in it; what an entry says is left out.     *)
EXTENDS Integers, Sequences

CONSTANTS UsualLimit,   \* kind of list -> entries in a page when no limit is given
          NoLimit       \* the caller gave none

\* The lists rvs takes from a live process, which it slices before it answers.
FridaKinds == {"modules", "frida_symbols", "classes"}

Kinds == {"functions", "blocks", "strings", "symbols", "xrefs"} \cup FridaKinds

ASSUME UsualLimitAssumption == UsualLimit \in [Kinds -> Nat \ {0}]

NoHint == [limit |-> 0, offset |-> 0, given |-> FALSE]

Least(m, n) == IF m < n THEN m ELSE n

\* list[offset : offset + limit] of Python: short at the end, empty beyond it.
Slice(list, offset, limit) == SubSeq(list, offset + 1, Least(offset + limit, Len(list)))

\* max(0, total - reached); mutated: without the max.
Remaining_Plain(total, reached) == total - reached

Remaining(total, reached) == IF total > reached THEN total - reached ELSE 0

Hint(total, reached, limit) ==
    IF total > reached THEN [limit |-> limit, offset |-> reached, given |-> TRUE] ELSE NoHint

\* Mutated: the hint counts from the page, not from the list.
Page_HintOfPage(kind, list, limit, offset) ==
    LET size  == IF limit = NoLimit THEN UsualLimit[kind] ELSE limit
        items == Slice(list, offset, size)
    IN  [items     |-> items,
         total     |-> Len(list),
         remaining |-> Remaining(Len(list), offset + Len(items)),
         next      |-> Hint(Len(list), Len(items), size)]

\* The compact answer. The short form for a list that fits says the same as
\* the long one: nothing remains and there is no hint.
Page(kind, list, limit, offset) ==
    LET size    == IF limit = NoLimit THEN UsualLimit[kind] ELSE limit
        items   == Slice(list, offset, size)
        reached == offset + Len(items)
    IN  [items     |-> items,
         total     |-> Len(list),
         remaining |-> Remaining(Len(list), reached),
         next      |-> Hint(Len(list), reached, size)]

\* What rvs said as it is, when the agent asked for no compaction: its entries and
\* the length of the list they are from.
Uncut(items, total) == [items |-> items, total |-> total, next |-> NoHint]

-----------------------------------------------------------------------------
(* What the tools let through *)

ReadsLimit == Kinds \ {"blocks"}
ReadsOffset == {"functions", "symbols"} \cup FridaKinds

LimitPassed(kind, limit) ==
    IF kind \notin ReadsLimit THEN NoLimit
    ELSE IF \/ kind = "symbols" /\ limit = NoLimit
            \/ kind \in FridaKinds /\ limit \in {NoLimit, 0}
         THEN UsualLimit[kind]
         ELSE limit

OffsetPassed(kind, offset) == IF kind \in ReadsOffset THEN offset ELSE 0

\* The entries rvs prints: all, or for a live process those asked for. Only in full
\* it prints the length of the whole list as well.
RvsPrints(kind, list, limit, offset) ==
    IF kind \in FridaKinds THEN Slice(list, offset, limit) ELSE list

\* A tool's answer: in compact form what rvs printed is cut once more.
ToolAnswer(kind, list, compact, limit, offset) ==
    LET lim     == LimitPassed(kind, limit)
        off     == OffsetPassed(kind, offset)
        printed == RvsPrints(kind, list, lim, off)
    IN  IF compact THEN Page(kind, printed, lim, off) ELSE Uncut(printed, Len(list))

=============================================================================
