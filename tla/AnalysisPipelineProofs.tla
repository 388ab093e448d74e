----------------------- MODULE AnalysisPipelineProofs -----------------------
(***************************************************************************)
(* Proofs about AnalysisPipeline: about paging, for lists of every length, *)
(* every limit and offset and every number of pages; and about the graphs  *)
(* and machines made of a function, for functions of any number of blocks  *)
(* that branch in any way.                                                 *)
(***************************************************************************)
EXTENDS AnalysisPipeline, NaturalsInduction, WellFoundedInduction,
        SequenceTheorems, FiniteSetTheorems, TLAPS

USE BoundAssumption, UsualLimitAssumption

-----------------------------------------------------------------------------
(* Slices                                                                  *)

LEMMA ListIsSeq ==
  ASSUME NEW n \in Nat
  PROVE  List(n) \in Seq(Nat) /\ Len(List(n)) = n
  BY DEF List

LEMMA SliceType ==
  ASSUME NEW list \in Seq(Nat), NEW offset \in Nat, NEW limit \in Nat
  PROVE  /\ Slice(list, offset, limit) \in Seq(Nat)
         /\ Len(Slice(list, offset, limit)) \in Nat
         /\ Len(Slice(list, offset, limit)) <= limit
         /\ Len(Slice(list, offset, limit)) <= Len(list)
         /\ offset >= Len(list) => Len(Slice(list, offset, limit)) = 0
         /\ offset < Len(list) =>
              /\ offset + Len(Slice(list, offset, limit))
                   = Least(offset + limit, Len(list))
              /\ offset + Len(Slice(list, offset, limit)) <= Len(list)
              /\ limit > 0 => Len(Slice(list, offset, limit)) > 0
<1> DEFINE end == Least(offset + limit, Len(list))
<1>1. Len(list) \in Nat
  OBVIOUS
<1>2. /\ end \in Nat /\ end <= offset + limit /\ end <= Len(list)
      /\ end \in {offset + limit, Len(list)}
  BY <1>1 DEF Least
<1>3. \A i \in offset + 1 .. end : list[i] \in Nat
  BY <1>1, <1>2, ElementOfSeq
<1>4. Slice(list, offset, limit) = SubSeq(list, offset + 1, end)
  BY DEF Slice
<1> HIDE DEF end
<1>5. /\ Slice(list, offset, limit) \in Seq(Nat)
      /\ Len(Slice(list, offset, limit)) =
           IF offset + 1 <= end THEN end - (offset + 1) + 1 ELSE 0
  <2>1. offset + 1 \in Int /\ end \in Int
    BY <1>2
  <2> QED
    BY <1>3, <1>4, <2>1, SubSeqProperties
<1>6. /\ Len(Slice(list, offset, limit)) \in Nat
      /\ Len(Slice(list, offset, limit)) <= limit
      /\ Len(Slice(list, offset, limit)) <= Len(list)
      /\ offset >= Len(list) => Len(Slice(list, offset, limit)) = 0
  BY <1>1, <1>2, <1>5
<1>7. ASSUME offset < Len(list)
      PROVE  /\ offset + Len(Slice(list, offset, limit)) = end
             /\ end <= Len(list)
             /\ limit > 0 => Len(Slice(list, offset, limit)) > 0
  BY <1>1, <1>2, <1>5, <1>7
<1> QED
  BY <1>5, <1>6, <1>7 DEF end

\* A slice is told by where it begins and how long it is.
LEMMA SliceAgain ==
  ASSUME NEW list \in Seq(Nat), NEW offset \in Nat, NEW limit \in Nat
  PROVE  Slice(list, offset, limit)
           = Slice(list, offset, Len(Slice(list, offset, limit)))
<1> DEFINE items == Slice(list, offset, limit)
<1>1. Len(list) \in Nat /\ Len(items) \in Nat /\ items \in Seq(Nat)
  BY SliceType
<1>2. CASE offset < Len(list)
  <2>1. offset + Len(items) = Least(offset + limit, Len(list))
        /\ offset + Len(items) <= Len(list)
    BY <1>2, SliceType
  <2>2. Least(offset + Len(items), Len(list)) = offset + Len(items)
    BY <1>1, <2>1 DEF Least
  <2> QED
    BY <2>1, <2>2 DEF Slice
<1>3. CASE offset >= Len(list)
  <2>1. Len(items) = 0
    BY <1>3, SliceType
  <2>2. Len(Slice(list, offset, Len(items))) = 0
        /\ Slice(list, offset, Len(items)) \in Seq(Nat)
    BY <1>1, <1>3, SliceType
  <2> QED
    BY <1>1, <2>1, <2>2, EmptySeq
<1> QED
  BY <1>1, <1>2, <1>3

\* The next page, put behind what was seen, is the longer slice.
LEMMA SlicesJoin ==
  ASSUME NEW list \in Seq(Nat), NEW start \in Nat, NEW seen \in Nat,
         NEW limit \in Nat, start + seen < Len(list)
  PROVE  LET items == Slice(list, start + seen, limit)
         IN Slice(list, start, seen) \o items = Slice(list, start, seen + Len(items))
<1> DEFINE items == Slice(list, start + seen, limit)
           end == start + seen + Len(items)
<1>1. Len(list) \in Nat /\ start + seen \in Nat
  OBVIOUS
<1>2. /\ Len(items) \in Nat
      /\ start + seen + Len(items) = Least(start + seen + limit, Len(list))
      /\ start + seen + Len(items) <= Len(list)
  BY <1>1, SliceType
<1>3. Slice(list, start, seen) = SubSeq(list, start + 1, start + seen)
  BY <1>1 DEF Slice, Least
<1>4. items = SubSeq(list, start + seen + 1, end)
  BY <1>2 DEF Slice
<1>5. Least(start + (seen + Len(items)), Len(list)) = end
  BY <1>1, <1>2 DEF Least
<1>6. Slice(list, start, seen + Len(items)) = SubSeq(list, start + 1, end)
  BY <1>5 DEF Slice
<1> HIDE DEF items
<1>7. /\ start + 1 \in 1 .. Len(list) + 1
      /\ start + seen \in (start + 1) - 1 .. Len(list)
      /\ end \in start + seen .. Len(list)
  BY <1>1, <1>2
<1> HIDE DEF end
<1>8. SubSeq(list, start + 1, start + seen) \o SubSeq(list, start + seen + 1, end)
        = SubSeq(list, start + 1, end)
  BY <1>7, ConcatAdjacentSubSeq
<1> QED
  BY <1>3, <1>4, <1>6, <1>8 DEF items

\* A slice that reaches the end from the start is the list.
LEMMA WholeSlice ==
  ASSUME NEW n \in Nat, NEW m \in Nat, n <= m
  PROVE  Slice(List(n), 0, m) = List(n)
<1>1. Least(0 + m, n) = n
  BY DEF Least
<1> QED
  BY <1>1, ListIsSeq, SubSeqFull DEF Slice

-----------------------------------------------------------------------------
(* Answers                                                                 *)

\* A limit that a page can be cut by.
Limits == Nat \cup {NoLimit}

Size(kind, limit) == IF limit = NoLimit THEN UsualLimit[kind] ELSE limit

LEMMA PassedTypes ==
  ASSUME NEW kind \in Kinds, NEW limit \in Limits, NEW offset \in Nat
  PROVE  /\ LimitPassed(kind, limit) \in Limits
         /\ kind \in FridaKinds => LimitPassed(kind, limit) \in Nat
         /\ OffsetPassed(kind, offset) \in Nat
         /\ Size(kind, limit) \in Nat
<1>1. UsualLimit[kind] \in Nat
  OBVIOUS
<1>2. FridaKinds \subseteq ReadsLimit
  BY DEF FridaKinds, ReadsLimit, Kinds
<1> QED
  BY <1>1, <1>2 DEF LimitPassed, OffsetPassed, Size, Limits

\* What every answer says of itself adds up.
Sound(answer, compact) ==
  /\ answer.total \in Nat /\ Len(answer.items) <= answer.total
  /\ compact => answer.remaining \in 0..answer.total

LEMMA PageIsSound ==
  ASSUME NEW kind \in Kinds, NEW list \in Seq(Nat), NEW limit \in Limits,
         NEW offset \in Nat
  PROVE  Sound(Page(kind, list, limit, offset), TRUE)
<1> DEFINE items == Slice(list, offset, Size(kind, limit))
<1>1. Size(kind, limit) \in Nat
  BY PassedTypes
<1>2. Len(list) \in Nat /\ Len(items) \in Nat /\ Len(items) <= Len(list)
  BY <1>1, SliceType
<1>3. /\ Page(kind, list, limit, offset).items = items
      /\ Page(kind, list, limit, offset).total = Len(list)
      /\ Page(kind, list, limit, offset).remaining
           = Remaining(Len(list), offset + Len(items))
  BY DEF Page, Size
<1> HIDE DEF items
<1>4. Remaining(Len(list), offset + Len(items)) \in 0..Len(list)
  BY <1>2 DEF Remaining
<1> QED
  BY <1>2, <1>3, <1>4 DEF Sound

LEMMA AnswerIsSound ==
  ASSUME NEW kind \in Kinds, NEW n \in Nat, NEW compact \in BOOLEAN,
         NEW limit \in Limits, NEW offset \in Nat
  PROVE  Sound(ToolAnswer(kind, List(n), compact, limit, offset), compact)
<1> DEFINE lim == LimitPassed(kind, limit)
           off == OffsetPassed(kind, offset)
           printed == RvsPrints(kind, List(n), lim, off)
<1>1. lim \in Limits /\ off \in Nat /\ (kind \in FridaKinds => lim \in Nat)
  BY PassedTypes
<1> HIDE DEF lim, off
<1>2. printed \in Seq(Nat) /\ Len(List(n)) \in Nat /\ Len(printed) <= Len(List(n))
  BY <1>1, ListIsSeq, SliceType DEF RvsPrints
<1> HIDE DEF printed
<1>3. Sound(Uncut(printed, Len(List(n))), FALSE)
  BY <1>2 DEF Uncut, Sound
<1>4. Sound(Page(kind, printed, lim, off), TRUE)
  BY <1>1, <1>2, PageIsSound
<1> QED
  BY <1>3, <1>4 DEF ToolAnswer, printed, lim, off

\* A page cut from the whole list.
Cut(answer, list, offset, limit) ==
  /\ answer.items = Slice(list, offset, limit)
  /\ answer.remaining = Remaining(Len(list), offset + Len(answer.items))
  /\ answer.next = Hint(Len(list), offset + Len(answer.items), limit)

LEMMA AnswerIsCut ==
  ASSUME NEW kind \in Kinds, kind \notin FridaKinds, NEW n, NEW limit, NEW offset
  PROVE  Cut(ToolAnswer(kind, List(n), TRUE, limit, offset), List(n),
             OffsetPassed(kind, offset), Size(kind, LimitPassed(kind, limit)))
  BY DEF Cut, ToolAnswer, RvsPrints, Page, Size

-----------------------------------------------------------------------------
(* The invariant of a walk                                                 *)
(*                                                                         *)
(* PagesPartition speaks of what was seen and of the last answer; the next *)
(* page joins them only if the hint in that answer points to the end of    *)
(* what was seen, with the limit that the agent will repeat (Leads).       *)

\* What rvs said in full: of a live process the slice asked for, and the true total.
Whole(answer, seen, kind, size, start) ==
  /\ ~answer.next.given /\ answer.total = size
  /\ IF kind \in FridaKinds THEN \E m \in Nat : seen = Slice(List(size), start, m)
                             ELSE seen = List(size)

Walk ==
  walk # None =>
    /\ walk = [kind |-> walk.kind, size |-> walk.size, compact |-> walk.compact,
               limit |-> walk.limit, start |-> walk.start, at |-> walk.at,
               seen |-> walk.seen, answer |-> walk.answer]
    /\ walk.kind \in Kinds /\ walk.size \in Nat /\ walk.compact \in BOOLEAN
    /\ walk.start \in Nat /\ walk.at \in Nat
    /\ Sound(walk.answer, walk.compact)
    /\ walk.answer.next.given =>
         walk.answer.next.limit \in Nat /\ walk.answer.next.offset \in Nat
    /\ ~walk.compact => Whole(walk.answer, walk.seen, walk.kind, walk.size, walk.start)
    /\ walk.compact /\ walk.kind \notin FridaKinds =>
         /\ Len(walk.seen) \in Nat
         /\ walk.seen = Slice(List(walk.size), walk.start, Len(walk.seen))
         /\ walk.answer.remaining = Remaining(walk.size, walk.start + Len(walk.seen))
         /\ \E limit \in Nat :
              /\ walk.answer.next = Hint(walk.size, walk.start + Len(walk.seen), limit)
              /\ walk.size > walk.start + Len(walk.seen) /\ limit > 0 =>
                   walk.start + Len(walk.seen) > walk.at

LEMMA HintType ==
  ASSUME NEW total \in Nat, NEW reached \in Nat, NEW limit \in Nat
  PROVE  LET hint == Hint(total, reached, limit)
         IN /\ hint.given <=> total > reached
            /\ hint.given => hint.limit = limit /\ hint.offset = reached
            /\ hint.limit \in Nat /\ hint.offset \in Nat
  BY DEF Hint, NoHint

\* The hint of every answer is one that can be followed.
LEMMA AnswerHints ==
  ASSUME NEW kind \in Kinds, NEW n \in Nat, NEW compact \in BOOLEAN,
         NEW limit \in Limits, NEW offset \in Nat
  PROVE  LET next == ToolAnswer(kind, List(n), compact, limit, offset).next
         IN next.limit \in Nat /\ next.offset \in Nat
<1> DEFINE lim == LimitPassed(kind, limit)
           off == OffsetPassed(kind, offset)
           printed == RvsPrints(kind, List(n), lim, off)
           items == Slice(printed, off, Size(kind, lim))
<1>1. lim \in Limits /\ off \in Nat /\ (kind \in FridaKinds => lim \in Nat)
  BY PassedTypes
<1> HIDE DEF lim, off
<1>2. printed \in Seq(Nat) /\ Size(kind, lim) \in Nat
  BY <1>1, ListIsSeq, SliceType, PassedTypes DEF RvsPrints
<1> HIDE DEF printed
<1>3. Len(items) \in Nat /\ off + Len(items) \in Nat /\ Len(printed) \in Nat
  BY <1>1, <1>2, SliceType
<1>4. Page(kind, printed, lim, off).next
        = Hint(Len(printed), off + Len(items), Size(kind, lim))
  BY DEF Page, Size
<1> HIDE DEF items
<1>5. /\ Page(kind, printed, lim, off).next.limit \in Nat
      /\ Page(kind, printed, lim, off).next.offset \in Nat
  <2> DEFINE hint == Hint(Len(printed), off + Len(items), Size(kind, lim))
  <2>1. hint.limit \in Nat /\ hint.offset \in Nat
    BY <1>2, <1>3, HintType
  <2> QED
    BY <1>4, <2>1
<1>6. /\ Uncut(printed, Len(List(n))).next.limit \in Nat
      /\ Uncut(printed, Len(List(n))).next.offset \in Nat
  BY DEF Uncut, NoHint
<1> QED
  BY <1>5, <1>6 DEF ToolAnswer, printed, lim, off

LEMMA AnswerIsWhole ==
  ASSUME NEW kind \in Kinds, NEW n \in Nat, NEW limit \in Limits, NEW offset \in Nat
  PROVE  LET answer == ToolAnswer(kind, List(n), FALSE, limit, offset)
         IN  Whole(answer, answer.items, kind, n, OffsetPassed(kind, offset))
<1> DEFINE lim == LimitPassed(kind, limit)
           off == OffsetPassed(kind, offset)
           answer == ToolAnswer(kind, List(n), FALSE, limit, offset)
<1>1. kind \in FridaKinds => lim \in Nat
  BY PassedTypes
<1>2. answer = Uncut(RvsPrints(kind, List(n), lim, off), Len(List(n)))
  BY DEF ToolAnswer
<1>3. Len(List(n)) = n
  BY ListIsSeq
<1> HIDE DEF lim, off, answer
<1>4. ~answer.next.given /\ answer.total = n
  BY <1>2, <1>3 DEF Uncut, NoHint
<1>5. answer.items = IF kind \in FridaKinds THEN Slice(List(n), off, lim) ELSE List(n)
  BY <1>2 DEF Uncut, RvsPrints
<1>6. Whole(answer, answer.items, kind, n, off)
  BY <1>1, <1>4, <1>5 DEF Whole
<1> QED
  BY <1>6 DEF answer, off

LEMMA AskWalk ==
  ASSUME NEW kind \in Kinds, NEW n \in 0..MaxList, NEW compact \in BOOLEAN,
         NEW limit \in 0..MaxLimit \cup {NoLimit}, NEW offset \in 0..MaxList + 1,
         Ask(kind, n, compact, limit, offset)
  PROVE  Walk'
<1> DEFINE answer == ToolAnswer(kind, List(n), compact, limit, offset)
           off == OffsetPassed(kind, offset)
           lim == Size(kind, LimitPassed(kind, limit))
<1>1. n \in Nat /\ limit \in Limits /\ offset \in Nat
  BY DEF Limits
<1>2. off \in Nat /\ lim \in Nat
  BY <1>1, PassedTypes
<1>3. walk' = [kind |-> kind, size |-> n, compact |-> compact, limit |-> limit,
               start |-> off, at |-> off, seen |-> answer.items, answer |-> answer]
  BY DEF Ask
<1>4. Sound(answer, compact) /\ answer.next.limit \in Nat /\ answer.next.offset \in Nat
  BY <1>1, AnswerIsSound, AnswerHints
<1>5. ~compact => Whole(answer, answer.items, kind, n, off)
  BY <1>1, AnswerIsWhole
<1>6. ASSUME compact, kind \notin FridaKinds
      PROVE  /\ Len(answer.items) \in Nat
             /\ answer.items = Slice(List(n), off, Len(answer.items))
             /\ answer.remaining = Remaining(n, off + Len(answer.items))
             /\ answer.next = Hint(n, off + Len(answer.items), lim)
             /\ n > off + Len(answer.items) /\ lim > 0 => off + Len(answer.items) > off
  <2>1. Cut(answer, List(n), off, lim)
    BY <1>6, AnswerIsCut
  <2> HIDE DEF answer, off, lim
  <2>2. List(n) \in Seq(Nat) /\ Len(List(n)) = n
    BY <1>1, ListIsSeq
  <2>3. /\ Len(answer.items) \in Nat
        /\ off < n /\ lim > 0 => Len(answer.items) > 0
    BY <1>2, <2>1, <2>2, SliceType DEF Cut
  <2>4. answer.items = Slice(List(n), off, Len(answer.items))
    BY <1>2, <2>1, <2>2, SliceAgain DEF Cut
  <2>5. n > off + Len(answer.items) /\ lim > 0 => off + Len(answer.items) > off
    BY <1>1, <1>2, <2>3
  <2> QED
    BY <2>1, <2>2, <2>3, <2>4, <2>5 DEF Cut
<1> HIDE DEF answer, off, lim
<1> QED
  BY <1>1, <1>2, <1>3, <1>4, <1>5, <1>6 DEF Walk

LEMMA FollowWalk ==
  ASSUME Walk, FollowHint
  PROVE  Walk'
<1> DEFINE hint == walk.answer.next
           answer == ToolAnswer(walk.kind, List(walk.size), walk.compact,
                                hint.limit, hint.offset)
           n == walk.size
           reached == walk.start + Len(walk.seen)
           lim == Size(walk.kind, LimitPassed(walk.kind, hint.limit))
<1>1. /\ walk # None /\ hint.given /\ walk.kind \in ReadsOffset
      /\ walk' = [walk EXCEPT !.at = hint.offset, !.seen = @ \o answer.items,
                              !.answer = answer]
  BY DEF FollowHint
<1>2. /\ walk.kind \in Kinds /\ n \in Nat /\ walk.compact \in BOOLEAN
      /\ walk.start \in Nat /\ hint.limit \in Limits /\ hint.offset \in Nat
  BY <1>1 DEF Walk, Limits
<1>3. /\ Sound(answer, walk.compact) /\ answer.next.limit \in Nat /\ answer.next.offset \in Nat
  BY <1>2, AnswerIsSound, AnswerHints
<1>4. ASSUME walk.compact, walk.kind \notin FridaKinds
      PROVE  LET seen == walk.seen \o answer.items
             IN /\ Len(seen) \in Nat
                /\ seen = Slice(List(n), walk.start, Len(seen))
                /\ answer.remaining = Remaining(n, walk.start + Len(seen))
                /\ answer.next = Hint(n, walk.start + Len(seen), lim)
                /\ lim \in Nat
                /\ n > walk.start + Len(seen) /\ lim > 0 =>
                     walk.start + Len(seen) > hint.offset
  <2>1. /\ Len(walk.seen) \in Nat
        /\ walk.seen = Slice(List(n), walk.start, Len(walk.seen))
        /\ \E limit \in Nat : hint = Hint(n, reached, limit)
    BY <1>1, <1>4 DEF Walk
  <2>2. n > reached /\ hint.offset = reached /\ reached \in Nat
    BY <1>1, <1>2, <2>1, HintType
  <2>3. OffsetPassed(walk.kind, hint.offset) = reached /\ lim \in Nat
    BY <1>1, <1>2, <2>2, PassedTypes DEF OffsetPassed
  <2>4. Cut(answer, List(n), reached, lim)
    BY <1>2, <1>4, <2>3, AnswerIsCut
  <2>5. List(n) \in Seq(Nat) /\ Len(List(n)) = n
    BY <1>2, ListIsSeq
  <2> HIDE DEF answer, lim, hint, n
  <2>6. answer.items = Slice(List(n), reached, lim)
    BY <2>4 DEF Cut
  <2> DEFINE items == Slice(List(n), reached, lim)
  <2>7. /\ Len(items) \in Nat /\ items \in Seq(Nat)
        /\ lim > 0 => Len(items) > 0
    BY <2>2, <2>3, <2>5, SliceType
  <2>8. walk.seen \o items = Slice(List(n), walk.start, Len(walk.seen) + Len(items))
    <3>1. /\ walk.start + Len(walk.seen) < Len(List(n))
          /\ walk.start \in Nat /\ Len(walk.seen) \in Nat
      BY <1>2, <2>1, <2>2, <2>5
    <3>2. Slice(List(n), walk.start, Len(walk.seen)) \o items
            = Slice(List(n), walk.start, Len(walk.seen) + Len(items))
      BY <2>3, <2>5, <3>1, SlicesJoin
    <3> QED
      BY <2>1, <3>2
  <2>9. Len(walk.seen \o items) = Len(walk.seen) + Len(items)
    <3>1. walk.seen \in Seq(Nat)
      BY <1>2, <2>1, <2>5, SliceType
    <3> QED
      BY <2>7, <3>1, ConcatProperties
  <2> HIDE DEF items
  <2>10. reached + Len(items) = walk.start + Len(walk.seen \o items)
    BY <1>2, <2>1, <2>7, <2>9
  <2>11. lim > 0 => walk.start + Len(walk.seen \o items) > hint.offset
    BY <2>2, <2>7, <2>10
  <2> DEFINE seen == walk.seen \o items
  <2>12. answer.items = items
    BY <2>6 DEF items
  <2>13. Len(seen) \in Nat /\ seen = Slice(List(n), walk.start, Len(seen))
    <3>1. Len(seen) \in Nat /\ Len(seen) = Len(walk.seen) + Len(items)
      BY <2>1, <2>7, <2>9
    <3> QED
      BY <2>8, <3>1
  <2>14. /\ answer.remaining = Remaining(n, walk.start + Len(seen))
         /\ answer.next = Hint(n, walk.start + Len(seen), lim)
    BY <2>4, <2>5, <2>10, <2>12 DEF Cut
  <2>15. lim > 0 => walk.start + Len(seen) > hint.offset
    BY <2>11
  <2> HIDE DEF seen
  <2> QED
    BY <2>3, <2>12, <2>13, <2>14, <2>15 DEF seen
<1>5. walk.compact
  BY <1>1 DEF Walk, Whole
<1>6. walk' # None => /\ walk'.kind = walk.kind /\ walk'.size = n
                      /\ walk'.compact = walk.compact /\ walk'.start = walk.start
                      /\ walk'.at = hint.offset /\ walk'.answer = answer
                      /\ walk'.seen = walk.seen \o answer.items
                      /\ walk' = [kind |-> walk'.kind, size |-> walk'.size,
                                  compact |-> walk'.compact, limit |-> walk'.limit,
                                  start |-> walk'.start, at |-> walk'.at,
                                  seen |-> walk'.seen, answer |-> walk'.answer]
  <2>1. walk = [kind |-> walk.kind, size |-> n, compact |-> walk.compact,
                limit |-> walk.limit, start |-> walk.start, at |-> walk.at,
                seen |-> walk.seen, answer |-> walk.answer]
    BY <1>1 DEF Walk
  <2> HIDE DEF answer, lim, hint, n
  <2>2. walk' = [[kind |-> walk.kind, size |-> n, compact |-> walk.compact,
                  limit |-> walk.limit, start |-> walk.start, at |-> walk.at,
                  seen |-> walk.seen, answer |-> walk.answer]
                   EXCEPT !.at = hint.offset, !.seen = walk.seen \o answer.items,
                          !.answer = answer]
    BY <1>1, <2>1
  <2>3. walk' = [kind |-> walk.kind, size |-> n, compact |-> walk.compact,
                 limit |-> walk.limit, start |-> walk.start, at |-> hint.offset,
                 seen |-> walk.seen \o answer.items, answer |-> answer]
    BY <2>2
  <2> QED
    BY <2>3
<1> HIDE DEF answer, lim, hint, n
<1> QED
  BY <1>2, <1>3, <1>4, <1>5, <1>6 DEF Walk

-----------------------------------------------------------------------------
(* The theorems                                                            *)

LEMMA WalkInvariant == Spec => []Walk
<1>1. Init => Walk
  BY DEF Init, Walk
<1>2. ASSUME Walk, [Next]_vars PROVE Walk'
  <2>1. ASSUME walk' = walk PROVE Walk'
    BY <1>2, <2>1 DEF Walk
  <2>2. CASE Start
    <3>1. ASSUME NEW f \in Functions, NEW compact \in BOOLEAN, NEW ops \in BOOLEAN,
                 Disasm(f, compact, ops)
          PROVE  walk' = walk
      BY <3>1 DEF Disasm
    <3>2. ASSUME NEW f \in Functions, Flow(f) PROVE walk' = walk
      BY <3>2 DEF Flow
    <3>3. ASSUME NEW f \in Functions, NEW listed \in BOOLEAN,
                 OrchestratedFlow(f, listed) \/ OrchestratedCfg(f, listed)
          PROVE  walk' = walk
      BY <3>3 DEF OrchestratedFlow, OrchestratedCfg
    <3> QED
      BY <2>1, <2>2, <3>1, <3>2, <3>3, AskWalk DEF Start
  <2>3. CASE FollowHint
    BY <1>2, <2>3, FollowWalk
  <2>4. CASE FromRawFlow
    BY <2>1, <2>4 DEF FromRawFlow
  <2>5. CASE ToFsm
    BY <2>1, <2>5 DEF ToFsm
  <2>6. CASE UNCHANGED vars
    BY <2>1, <2>6 DEF vars
  <2> QED
    BY <1>2, <2>2, <2>3, <2>4, <2>5, <2>6 DEF Next
<1> QED
  BY <1>1, <1>2, PTL DEF Spec

\* The pages that an agent gets by following the hints of prune_functions to
\* prune_xrefs are consecutive pieces of the list, what an answer says remains is
\* what was not seen, and each hint leads on: for every list, limit and offset.
THEOREM PagesArePartition == Spec => []PagesPartition
<1>1. Walk => PagesPartition
  <2> SUFFICES ASSUME Walk, walk # None, walk.compact, walk.kind \notin FridaKinds
               PROVE  PagesPartition
    BY DEF PagesPartition
  <2> DEFINE reached == walk.start + Len(walk.seen)
  <2>1. /\ walk.size \in Nat /\ reached \in Nat /\ walk.at \in Nat
        /\ walk.seen = Slice(List(walk.size), walk.start, Len(walk.seen))
        /\ walk.answer.remaining = Remaining(walk.size, reached)
    BY DEF Walk
  <2>2. PICK limit \in Nat :
          /\ walk.answer.next = Hint(walk.size, reached, limit)
          /\ walk.size > reached /\ limit > 0 => reached > walk.at
    BY DEF Walk
  <2> DEFINE hint == Hint(walk.size, reached, limit)
  <2>3. /\ hint.given <=> walk.size > reached
        /\ hint.given => hint.limit = limit /\ hint.offset = reached
    <3>1. walk.size \in Nat /\ reached \in Nat
      BY <2>1
    <3> HIDE DEF reached
    <3> QED
      BY <3>1 DEF Hint, NoHint
  <2>4. /\ walk.answer.next.given <=> walk.size > reached
        /\ walk.answer.next.given =>
             walk.answer.next.limit = limit /\ walk.answer.next.offset = reached
    <3> HIDE DEF reached, hint
    <3>1. walk.answer.next = hint
      BY <2>2 DEF hint
    <3> QED
      BY <2>3, <3>1, Zenon
  <2>5. Remaining(walk.size, reached) > 0 <=> walk.size > reached
    BY <2>1 DEF Remaining
  <2> QED
    BY <2>1, <2>2, <2>3, <2>4, <2>5 DEF PagesPartition
<1> QED
  BY <1>1, WalkInvariant, PTL

\* An agent that began at the start, has no hint left and as many entries as the
\* answer counts has seen the whole list, if it was not sliced twice.
ListedWhole ==
  walk # None /\ walk.start = 0 /\ ~(walk.compact /\ walk.kind \in FridaKinds)
              /\ ~walk.answer.next.given /\ Len(walk.seen) >= walk.answer.total =>
    walk.seen = List(walk.size)

\* What WalkComplete asks holds of every answer but the compact lists of a live
\* process, which rvs has sliced before the harness does (src/frida/modules.rs): the
\* divergence that the run paging_frida shows is theirs alone.
THEOREM OtherListsAreWhole == Spec => []ListedWhole
<1>1. Walk => ListedWhole
  <2> SUFFICES ASSUME Walk, walk # None, walk.start = 0,
                      ~(walk.compact /\ walk.kind \in FridaKinds),
                      ~walk.answer.next.given, Len(walk.seen) >= walk.answer.total
               PROVE  walk.seen = List(walk.size)
    BY DEF ListedWhole
  <2>1. CASE ~walk.compact
    <3>1. /\ walk.size \in Nat /\ walk.answer.total = walk.size
          /\ Whole(walk.answer, walk.seen, walk.kind, walk.size, 0)
      BY <2>1 DEF Walk, Whole
    <3>2. CASE walk.kind \in FridaKinds
      <4>1. PICK m \in Nat : walk.seen = Slice(List(walk.size), 0, m)
        BY <3>1, <3>2 DEF Whole
      <4>2. List(walk.size) \in Seq(Nat) /\ Len(List(walk.size)) = walk.size
        BY <3>1, ListIsSeq
      <4>3. walk.size <= m
        <5>1. 0 < walk.size => 0 + Len(walk.seen) = Least(0 + m, walk.size)
          BY <4>1, <4>2, SliceType
        <5> QED
          BY <3>1, <5>1 DEF Least
      <4> QED
        BY <3>1, <4>1, <4>3, WholeSlice
    <3> QED
      BY <3>1, <3>2 DEF Whole
  <2>2. CASE walk.compact
    <3>1. /\ walk.size \in Nat /\ Len(walk.seen) \in Nat
          /\ walk.seen = Slice(List(walk.size), 0, Len(walk.seen))
          /\ \E limit \in Nat : walk.answer.next = Hint(walk.size, 0 + Len(walk.seen), limit)
      BY <2>2 DEF Walk
    <3>2. ~(walk.size > 0 + Len(walk.seen))
      <4>1. PICK limit \in Nat : walk.answer.next = Hint(walk.size, 0 + Len(walk.seen), limit)
        BY <3>1
      <4>2. 0 + Len(walk.seen) \in Nat
        BY <3>1
      <4>3. \A reached \in Nat : Hint(walk.size, reached, limit).given <=> walk.size > reached
        BY <3>1 DEF Hint, NoHint
      <4>4. Hint(walk.size, 0 + Len(walk.seen), limit).given <=> walk.size > 0 + Len(walk.seen)
        BY <4>2, <4>3
      <4> QED
        BY <4>1, <4>4, Zenon
    <3>3. walk.size <= Len(walk.seen)
      BY <3>1, <3>2
    <3> QED
      BY <3>1, <3>3, WholeSlice
  <2> QED
    BY <2>1, <2>2 DEF Walk
<1> QED
  BY <1>1, WalkInvariant, PTL

-----------------------------------------------------------------------------
(* Sequences laid end to end                                               *)

Below == {p \in Nat \X Nat : p[1] < p[2]}

\* A non-empty set of naturals has a least element.
LEMMA LeastNat ==
  ASSUME NEW U \in SUBSET Nat, U # {}
  PROVE  \E c \in U : \A y \in U : c <= y
<1>1. IsWellFoundedOn(Below, Nat)
  BY NatLessThanWellFounded DEF OpToRel, Below
<1>2. \E x \in U : \A y \in U : ~(<<y, x>> \in Below)
  BY <1>1, WFMin, Zenon
<1>3. PICK x \in U : \A y \in U : ~(<<y, x>> \in Below)
  BY <1>2
<1>4. \A y \in U : /\ <<y, x>> \in Nat \X Nat
                   /\ <<y, x>>[1] = y /\ <<y, x>>[2] = x
  OBVIOUS
<1>5. \A y \in U : ~(y < x)
  BY <1>3, <1>4 DEF Below
<1> QED
  BY <1>5

\* A set that has 0, and with a number the next one, has them all.
LEMMA EveryNat ==
  ASSUME NEW T, 0 \in T, \A n \in Nat : n \in T => n + 1 \in T
  PROVE  \A n \in Nat : n \in T
<1> DEFINE U == Nat \ T
<1>1. SUFFICES ASSUME U # {} PROVE FALSE
  OBVIOUS
<1>2. PICK c \in U : \A y \in U : c <= y
  <2>1. U \in SUBSET Nat
    OBVIOUS
  <2> QED
    BY <1>1, <2>1, LeastNat, Zenon
<1>3. c - 1 \in Nat /\ ~(c <= c - 1)
  BY <1>2
<1> QED
  BY <1>2, <1>3

\* sums[i] is the first i parts, laid end to end.
Sums(parts, sums, n) ==
  /\ 1 \in 1..n => sums[1] = parts[1]
  /\ \A i \in 1..n : i # 1 => sums[i] = sums[i - 1] \o parts[i]

\* before[i] entries come before the part at i.
Befores(parts, before) ==
  /\ before \in [1..Len(parts) + 1 -> Nat] /\ before[1] = 0
  /\ \A i \in 1..Len(parts) : before[i + 1] = before[i] + Len(parts[i])

\* The entries of flat are those of the first n parts, each at its place.
Lies(flat, parts, before, n) ==
  /\ Len(flat) = before[n + 1]
  /\ \A i \in 1..n : \A k \in 1..Len(parts[i]) :
       before[i] + k \in 1..Len(flat) /\ flat[before[i] + k] = parts[i][k]
  /\ \A p \in 1..Len(flat) : \E i \in 1..n : \E k \in 1..Len(parts[i]) : p = before[i] + k

LEMMA NextSum ==
  ASSUME NEW parts, NEW sums, NEW n \in Nat, Sums(parts, sums, n),
         NEW i \in 1..n, i + 1 \in 1..n
  PROVE  sums[i + 1] = sums[i] \o parts[i + 1]
<1>1. PICK j : j = i + 1
  OBVIOUS
<1>2. j \in 1..n /\ j # 1 /\ j - 1 = i
  BY <1>1
<1>3. sums[j] = sums[j - 1] \o parts[j]
  BY <1>2, Zenon DEF Sums
<1> QED
  BY <1>1, <1>2, <1>3, Zenon

LEMMA SumsExist ==
  ASSUME NEW S, NEW parts \in Seq(Seq(S))
  PROVE  \E sums \in [1..Len(parts) -> Seq(S)] : Sums(parts, sums, Len(parts))
<1> DEFINE T == {n \in Nat : n <= Len(parts) =>
                   \E sums \in [1..n -> Seq(S)] : Sums(parts, sums, n)}
<1>1. 0 \in T
  <2> DEFINE none == [i \in 1..0 |-> << >>]
  <2>1. none \in [1..0 -> Seq(S)] /\ Sums(parts, none, 0)
    BY DEF Sums
  <2> QED
    BY <2>1
<1>2. ASSUME NEW n \in Nat, n \in T PROVE n + 1 \in T
  <2> SUFFICES ASSUME n + 1 <= Len(parts)
               PROVE  \E sums \in [1..n + 1 -> Seq(S)] : Sums(parts, sums, n + 1)
    OBVIOUS
  <2>1. PICK sums \in [1..n -> Seq(S)] : Sums(parts, sums, n)
    BY <1>2
  <2>2. parts[n + 1] \in Seq(S)
    BY ElementOfSeq
  <2> DEFINE more == [i \in 1..n + 1 |-> IF i <= n THEN sums[i]
                         ELSE IF n = 0 THEN parts[1] ELSE sums[n] \o parts[n + 1]]
  <2>3. more \in [1..n + 1 -> Seq(S)]
    <3>1. CASE n = 0
      BY <2>2, <3>1
    <3>2. CASE n # 0
      <4>1. sums[n] \o parts[n + 1] \in Seq(S)
        BY <2>1, <2>2, <3>2, ConcatProperties
      <4> QED
        BY <2>1, <4>1, <3>2
    <3> QED
      BY <3>1, <3>2
  <2>4. ASSUME NEW i \in 1..n + 1, i # 1
        PROVE  more[i] = more[i - 1] \o parts[i]
    <3>1. i - 1 \in 1..n /\ more[i - 1] = sums[i - 1]
      BY <2>4
    <3>2. CASE i <= n
      <4>1. i \in 1..n /\ more[i] = sums[i]
        BY <3>2
      <4>2. sums[i] = sums[i - 1] \o parts[i]
        BY <2>1, <2>4, <4>1, Zenon DEF Sums
      <4> QED
        BY <3>1, <4>1, <4>2, Zenon
    <3>3. CASE i = n + 1
      <4>1. i - 1 = n /\ n + 1 \in 1..n + 1 /\ ~(n + 1 <= n) /\ n # 0
        BY <2>4, <3>3
      <4>2. more[n + 1] = sums[n] \o parts[n + 1]
        BY <4>1, Zenon
      <4> QED
        BY <3>1, <3>3, <4>1, <4>2, Zenon
    <3>4. i <= n \/ i = n + 1
      OBVIOUS
    <3> QED
      BY <3>2, <3>3, <3>4, Zenon
  <2>5. 1 \in 1..n + 1 => more[1] = parts[1]
    BY <2>1 DEF Sums
  <2> QED
    BY <2>3, <2>4, <2>5, Zenon DEF Sums
<1> HIDE DEF T
<1>3. Len(parts) \in T
  BY <1>1, <1>2, EveryNat, LenProperties
<1> QED
  BY <1>3 DEF T

LEMMA FlattenIsSum ==
  ASSUME NEW S, NEW parts \in Seq(Seq(S)), parts # << >>
  PROVE  \E sums \in [1..Len(parts) -> Seq(S)] :
           Sums(parts, sums, Len(parts)) /\ FlattenSeq(parts) = sums[Len(parts)]
<1> DEFINE n == Len(parts)
           Unfolds(g) == g = [i \in 1..Len(parts) |->
                                IF i = 1 THEN parts[i] ELSE g[i - 1] \o parts[i]]
           flatten == CHOOSE g : g = [i \in 1..Len(parts) |->
                                        IF i = 1 THEN parts[i] ELSE g[i - 1] \o parts[i]]
<1>0. n \in Nat
  BY LenProperties
<1>1. PICK sums \in [1..n -> Seq(S)] : Sums(parts, sums, n)
  BY SumsExist
<1>2. sums = [i \in 1..Len(parts) |-> IF i = 1 THEN parts[i] ELSE sums[i - 1] \o parts[i]]
  BY <1>1 DEF Sums
<1>3. flatten = [i \in 1..Len(parts) |-> IF i = 1 THEN parts[i] ELSE flatten[i - 1] \o parts[i]]
  BY <1>2, Zenon
<1>4. Len(parts) # 0
  BY EmptySeq
<1>5. FlattenSeq(parts) = flatten[Len(parts)]
  BY <1>4, Zenon DEF FlattenSeq
<1> HIDE DEF flatten
<1>6. Sums(parts, flatten, n)
  BY <1>3 DEF Sums
\* The two functions agree place by place.
<1> DEFINE T == {i \in Nat : i \in 1..n => flatten[i] = sums[i]}
<1>7. 0 \in T
  OBVIOUS
<1>8. ASSUME NEW i \in Nat, i \in T PROVE i + 1 \in T
  <2>1. CASE i + 1 \notin 1..n
    BY <2>1
  <2>2. CASE i + 1 \in 1..n /\ i = 0
    BY <1>1, <1>6, <2>2 DEF Sums
  <2>3. CASE i + 1 \in 1..n /\ i # 0
    <3>1. i \in 1..n
      BY <2>3
    <3>2. flatten[i] = sums[i]
      BY <1>8, <3>1
    <3>3. sums[i + 1] = sums[i] \o parts[i + 1] /\ flatten[i + 1] = flatten[i] \o parts[i + 1]
      BY <1>0, <1>1, <1>6, <2>3, <3>1, NextSum, Zenon
    <3>4. sums[i + 1] = flatten[i + 1]
      BY <3>2, <3>3, Zenon
    <3> QED
      BY <3>4
  <2> QED
    BY <2>1, <2>2, <2>3
<1> HIDE DEF T
<1>9. n \in T
  BY <1>7, <1>8, EveryNat, LenProperties
<1>10. n \in 1..n
  BY <1>4, LenProperties
<1> QED
  BY <1>1, <1>5, <1>9, <1>10 DEF T

\* What FlattenSeq computes.
LEMMA FlattenLies ==
  ASSUME NEW S, NEW parts \in Seq(Seq(S))
  PROVE  /\ FlattenSeq(parts) \in Seq(S)
         /\ \E before : /\ Befores(parts, before)
                        /\ Lies(FlattenSeq(parts), parts, before, Len(parts))
<1> DEFINE n == Len(parts)
<1>0. n \in Nat /\ \A i \in 1..n : parts[i] \in Seq(S) /\ Len(parts[i]) \in Nat
  BY ElementOfSeq, LenProperties
<1>1. CASE parts = << >>
  <2> DEFINE before == [i \in 1..n + 1 |-> 0]
  <2>1. n = 0 /\ FlattenSeq(parts) = << >>
    BY <1>1 DEF FlattenSeq
  <2>2. Befores(parts, before)
    BY <2>1 DEF Befores
  <2>3. Lies(<< >>, parts, before, n)
    BY <2>1 DEF Lies
  <2> QED
    BY <2>1, <2>2, <2>3
<1>2. CASE parts # << >>
  <2>1. PICK sums \in [1..n -> Seq(S)] :
          Sums(parts, sums, n) /\ FlattenSeq(parts) = sums[n]
    BY <1>2, FlattenIsSum
  <2>2. n \in 1..n
    BY <1>0, <1>2, EmptySeq
  <2>3. \A i \in 1..n : sums[i] \in Seq(S) /\ Len(sums[i]) \in Nat
    BY <2>1, LenProperties
  <2> DEFINE before == [i \in 1..n + 1 |-> IF i = 1 THEN 0 ELSE Len(sums[i - 1])]
  <2>4. ASSUME NEW i \in 1..n
        PROVE  /\ before[i] \in Nat /\ before[i + 1] \in Nat
               /\ before[i + 1] = before[i] + Len(parts[i])
               /\ before[i + 1] = Len(sums[i])
    <3>1. before[i + 1] = Len(sums[i]) /\ before[i + 1] \in Nat
      BY <1>0, <2>3
    <3>2. CASE i = 1
      BY <1>0, <2>1, <3>1, <3>2 DEF Sums
    <3>3. CASE i # 1
      <4>1. i - 1 \in 1..n /\ sums[i] = sums[i - 1] \o parts[i]
        <5>1. i - 1 \in 1..n
          BY <3>3
        <5> QED
          BY <2>1, <3>3, <5>1, Zenon DEF Sums
      <4>2. Len(sums[i]) = Len(sums[i - 1]) + Len(parts[i])
        BY <1>0, <2>3, <4>1, ConcatProperties
      <4>3. before[i] = Len(sums[i - 1])
        BY <3>3
      <4> QED
        BY <2>3, <3>1, <4>1, <4>2, <4>3
    <3> QED
      BY <3>2, <3>3
  <2>5. before \in [1..n + 1 -> Nat] /\ before[1] = 0
    <3>1. \A i \in 1..n + 1 : i # 1 => i - 1 \in 1..n
      BY <1>0
    <3> QED
      BY <1>0, <2>3, <3>1
  <2>6. Befores(parts, before)
    BY <2>4, <2>5 DEF Befores
  <2> HIDE DEF before
  <2> DEFINE T == {i \in Nat : i \in 1..n => Lies(sums[i], parts, before, i)}
  <2>7. 0 \in T
    OBVIOUS
  <2>8. ASSUME NEW i \in Nat, i \in T, i + 1 \in 1..n PROVE Lies(sums[i + 1], parts, before, i + 1)
    <3>1. CASE i = 0
      <4>1. sums[1] = parts[1]
        BY <2>1, <2>8, <3>1 DEF Sums
      <4>2. Len(sums[1]) = before[2] /\ before[1] = 0 /\ Len(parts[1]) \in Nat
        BY <1>0, <2>4, <2>5, <2>8, <3>1
      <4> QED
        BY <3>1, <4>1, <4>2 DEF Lies
    <3>2. CASE i # 0
      <4>1. i \in 1..n /\ sums[i + 1] = sums[i] \o parts[i + 1]
        <5>1. i \in 1..n
          BY <2>8, <3>2
        <5> QED
          BY <1>0, <2>1, <2>8, <5>1, NextSum, Zenon
      <4>2. Lies(sums[i], parts, before, i)
        BY <2>8, <4>1
      <4>3. /\ Len(sums[i + 1]) = Len(sums[i]) + Len(parts[i + 1])
            /\ \A p \in 1..Len(sums[i]) + Len(parts[i + 1]) : sums[i + 1][p] =
                 IF p <= Len(sums[i]) THEN sums[i][p] ELSE parts[i + 1][p - Len(sums[i])]
        BY <1>0, <2>3, <2>8, <4>1, ConcatProperties
      <4>4. /\ before[i + 1] = Len(sums[i]) /\ before[i + 1 + 1] = Len(sums[i + 1])
            /\ Len(sums[i]) \in Nat /\ Len(parts[i + 1]) \in Nat
        BY <1>0, <2>3, <2>4, <2>8, <4>1, Zenon
      <4> DEFINE l == Len(sums[i])
                 m == Len(parts[i + 1])
                 full == Len(sums[i + 1])
      <4>5. full = l + m /\ before[i + 1] = l /\ l \in Nat /\ m \in Nat
        BY <4>3, <4>4, Zenon
      <4>6. \A p \in 1..l + m : sums[i + 1][p] = IF p <= l THEN sums[i][p] ELSE parts[i + 1][p - l]
        BY <4>3, Zenon
      <4>7. ASSUME NEW j \in 1..i + 1, NEW k \in 1..Len(parts[j])
            PROVE  before[j] + k \in 1..full /\ sums[i + 1][before[j] + k] = parts[j][k]
        <5>1. CASE j = i + 1
          <6>1. k \in 1..m
            BY <5>1, Zenon
          <6> HIDE DEF l, m, full
          <6>2. PICK q : q = l + k
            OBVIOUS
          <6>3. q \in 1..full /\ q \in 1..l + m /\ ~(q <= l) /\ q - l = k
            BY <4>5, <6>1, <6>2
          <6>4. sums[i + 1][q] = parts[i + 1][q - l]
            BY <4>6, <6>3, Zenon
          <6> QED
            BY <4>5, <5>1, <6>2, <6>3, <6>4, Zenon
        <5>2. CASE j \in 1..i
          <6>1. before[j] + k \in 1..l /\ sums[i][before[j] + k] = parts[j][k]
            BY <4>2, <5>2, Zenon DEF Lies
          <6> HIDE DEF l, m, full
          <6>2. /\ before[j] + k \in 1..l + m /\ before[j] + k \in 1..full
                /\ before[j] + k <= l
            BY <4>5, <6>1
          <6> QED
            BY <4>6, <6>1, <6>2, Zenon
        <5>3. j \in 1..i \/ j = i + 1
          OBVIOUS
        <5> QED
          BY <5>1, <5>2, <5>3, Zenon
      <4>8. ASSUME NEW p \in 1..full
            PROVE  \E j \in 1..i + 1 : \E k \in 1..Len(parts[j]) : p = before[j] + k
        <5>0. p \in Nat /\ i \in 1..i + 1 /\ i + 1 \in 1..i + 1 /\ \A j \in 1..i : j \in 1..i + 1
          <6> HIDE DEF full
          <6> QED
            BY <4>5, <4>1
        <5>1. CASE p <= l
          <6>0. p \in 1..l
            <7> HIDE DEF l, full
            <7> QED
              BY <4>5, <5>1
          <6>1. PICK j \in 1..i : \E k \in 1..Len(parts[j]) : p = before[j] + k
            BY <4>2, <6>0, Zenon DEF Lies
          <6> QED
            BY <5>0, <6>1, Zenon
        <5>2. CASE ~(p <= l)
          <6>1. p - l \in 1..m /\ p = l + (p - l)
            <7> HIDE DEF l, m, full
            <7> QED
              BY <4>5, <5>2
          <6> QED
            BY <4>5, <5>0, <6>1, Zenon
        <5> QED
          BY <5>1, <5>2
      <4> QED
        BY <4>5, <4>4, <4>7, <4>8, Zenon DEF Lies
    <3> QED
      BY <3>1, <3>2
  <2>9. ASSUME NEW i \in Nat, i \in T PROVE i + 1 \in T
    <3>1. i + 1 \in 1..n => Lies(sums[i + 1], parts, before, i + 1)
      BY <2>8, <2>9, Zenon
    <3> QED
      BY <3>1
  <2> HIDE DEF T
  <2>10. n \in T
    BY <1>0, <2>7, <2>9, EveryNat
  <2>11. Lies(sums[n], parts, before, n)
    BY <2>2, <2>10 DEF T
  <2> QED
    BY <2>1, <2>2, <2>3, <2>6, <2>11
<1> QED
  BY <1>1, <1>2

\* A part begins after all of the earlier ones.
LEMMA BeforesRise ==
  ASSUME NEW S, NEW parts \in Seq(Seq(S)), NEW before, Befores(parts, before),
         NEW i \in 1..Len(parts), NEW j \in 1..Len(parts), i < j
  PROVE  before[i] + Len(parts[i]) <= before[j]
<1> DEFINE n == Len(parts)
           T == {d \in Nat : i + 1 + d \in 1..n + 1 => before[i + 1] <= before[i + 1 + d]}
<1>0. n \in Nat /\ \A k \in 1..n : Len(parts[k]) \in Nat
  BY ElementOfSeq, LenProperties
<1>1. before \in [1..n + 1 -> Nat] /\ \A k \in 1..n : before[k + 1] = before[k] + Len(parts[k])
  BY DEF Befores
<1>2. 0 \in T
  <2>1. i + 1 + 0 = i + 1 /\ i + 1 \in 1..n + 1
    BY <1>0
  <2>2. before[i + 1] \in Nat
    BY <1>1, <2>1
  <2> QED
    BY <2>1, <2>2
<1>3. ASSUME NEW d \in Nat, d \in T PROVE d + 1 \in T
  <2>1. SUFFICES ASSUME i + 1 + (d + 1) \in 1..n + 1
                 PROVE  before[i + 1] <= before[i + 1 + (d + 1)]
    OBVIOUS
  <2>2. PICK k : k = i + 1 + d
    OBVIOUS
  <2>3. k \in 1..n /\ k \in 1..n + 1 /\ i + 1 \in 1..n + 1 /\ k + 1 = i + 1 + (d + 1)
    BY <1>0, <2>1, <2>2
  <2>4. before[i + 1] <= before[k]
    BY <1>3, <2>2, <2>3
  <2>5. before[k + 1] = before[k] + Len(parts[k])
    BY <1>1, <2>3
  <2>6. before[i + 1] <= before[k + 1]
    <3>1. before[i + 1] \in Nat /\ before[k] \in Nat /\ Len(parts[k]) \in Nat
      BY <1>0, <1>1, <2>3
    <3> QED
      BY <2>4, <2>5, <3>1
  <2> QED
    BY <2>3, <2>6
<1> HIDE DEF T
<1>4. \A d \in Nat : d \in T
  BY <1>2, <1>3, EveryNat
<1>5. j - (i + 1) \in Nat /\ i + 1 + (j - (i + 1)) = j /\ j \in 1..n + 1
  BY <1>0
<1>6. before[i + 1] <= before[j]
  BY <1>4, <1>5 DEF T
<1> QED
  BY <1>1, <1>6

\* Every entry of flat is one of one part, and every entry of a part has its place.
Laid(flat, parts, before) ==
  /\ before \in [1..Len(parts) -> Nat]
  /\ \A i \in 1..Len(parts) : \A k \in 1..Len(parts[i]) :
       before[i] + k \in 1..Len(flat) /\ flat[before[i] + k] = parts[i][k]
  /\ \A p \in 1..Len(flat) : \E i \in 1..Len(parts) : \E k \in 1..Len(parts[i]) :
       p = before[i] + k
  /\ \A i, j \in 1..Len(parts) : \A k \in 1..Len(parts[i]), m \in 1..Len(parts[j]) :
       before[i] + k = before[j] + m => i = j /\ k = m

LEMMA FlattenLaid ==
  ASSUME NEW S, NEW parts \in Seq(Seq(S))
  PROVE  /\ FlattenSeq(parts) \in Seq(S)
         /\ \E before : Laid(FlattenSeq(parts), parts, before)
<1> DEFINE n == Len(parts)
<1>0. n \in Nat /\ \A i \in 1..n : Len(parts[i]) \in Nat
  BY ElementOfSeq, LenProperties
<1>1. PICK before : Befores(parts, before) /\ Lies(FlattenSeq(parts), parts, before, n)
  BY FlattenLies
<1> DEFINE at == [i \in 1..n |-> before[i]]
<1>2. at \in [1..n -> Nat] /\ \A i \in 1..n : at[i] = before[i] /\ before[i] \in Nat
  <2>1. before \in [1..n + 1 -> Nat]
    BY <1>1 DEF Befores
  <2>2. \A i \in 1..n : before[i] \in Nat
    <3>1. n \in Nat
      BY <1>0
    <3> HIDE DEF n
    <3>2. \A i \in 1..n : i \in 1..n + 1
      BY <3>1
    <3> QED
      BY <2>1, <3>2
  <2> QED
    BY <2>2, Zenon
<1>3. ASSUME NEW i \in 1..n, NEW j \in 1..n, NEW k \in 1..Len(parts[i]), NEW m \in 1..Len(parts[j]),
             before[i] + k = before[j] + m
      PROVE  i = j /\ k = m
  <2>1. CASE i < j
    <3>1. before[i] + Len(parts[i]) <= before[j]
      BY <1>1, <2>1, BeforesRise
    <3> QED
      BY <1>0, <1>2, <1>3, <3>1
  <2>2. CASE j < i
    <3>1. before[j] + Len(parts[j]) <= before[i]
      BY <1>1, <2>2, BeforesRise
    <3> QED
      BY <1>0, <1>2, <1>3, <3>1
  <2>3. CASE i = j
    <3>1. before[i] \in Nat /\ before[j] = before[i]
      BY <1>2, <2>3
    <3>2. k \in Nat /\ m \in Nat
      BY <1>0
    <3> QED
      BY <1>3, <2>3, <3>1, <3>2
  <2> QED
    BY <2>1, <2>2, <2>3
<1> HIDE DEF at
<1>4. Laid(FlattenSeq(parts), parts, at)
  <2>1. \A i \in 1..n : \A k \in 1..Len(parts[i]) :
          at[i] + k \in 1..Len(FlattenSeq(parts)) /\ FlattenSeq(parts)[at[i] + k] = parts[i][k]
    <3> TAKE i \in 1..n
    <3> TAKE k \in 1..Len(parts[i])
    <3>1. before[i] + k \in 1..Len(FlattenSeq(parts)) /\ FlattenSeq(parts)[before[i] + k] = parts[i][k]
      BY <1>1, Zenon DEF Lies
    <3> QED
      BY <1>2, <3>1
  <2>2. \A p \in 1..Len(FlattenSeq(parts)) :
          \E i \in 1..n : \E k \in 1..Len(parts[i]) : p = at[i] + k
    <3> TAKE p \in 1..Len(FlattenSeq(parts))
    <3>1. PICK i \in 1..n : \E k \in 1..Len(parts[i]) : p = before[i] + k
      BY <1>1, Zenon DEF Lies
    <3> QED
      BY <1>2, <3>1
  <2>3. \A i, j \in 1..n : \A k \in 1..Len(parts[i]), m \in 1..Len(parts[j]) :
          at[i] + k = at[j] + m => i = j /\ k = m
    <3> TAKE i, j \in 1..n
    <3> TAKE k \in 1..Len(parts[i]), m \in 1..Len(parts[j])
    <3>1. before[i] + k = before[j] + m => i = j /\ k = m
      BY <1>3
    <3> QED
      BY <1>2, <3>1
  <2> QED
    BY <1>2, <2>1, <2>2, <2>3, Zenon DEF Laid
<1> QED
  BY <1>4, FlattenLies

\* at says which entry of s each entry of picked is: those at the places, each once.
PickedAt(picked, s, places, at) ==
  /\ at \in [1..Len(picked) -> places]
  /\ \A p \in 1..Len(picked) : picked[p] = s[at[p]]
  /\ \A p, q \in 1..Len(picked) : at[p] = at[q] => p = q
  /\ \A i \in places : \E p \in 1..Len(picked) : at[p] = i

LEMMA PickedPlaces ==
  ASSUME NEW S, NEW s \in Seq(S), NEW places \in SUBSET (DOMAIN s)
  PROVE  /\ Picked(s, places) \in Seq(S)
         /\ \E at : PickedAt(Picked(s, places), s, places, at)
<1> DEFINE parts == [i \in DOMAIN s |-> IF i \in places THEN <<s[i]>> ELSE << >>]
           picked == Picked(s, places)
<1>0. DOMAIN s = 1..Len(s) /\ Len(s) \in Nat /\ \A i \in 1..Len(s) : s[i] \in S
  BY LenProperties, ElementOfSeq
<1>1. ASSUME NEW i \in 1..Len(s)
      PROVE  /\ parts[i] \in Seq(S)
             /\ i \in places => Len(parts[i]) = 1 /\ parts[i][1] = s[i]
             /\ i \notin places => Len(parts[i]) = 0
  BY <1>0
<1>2. parts \in Seq(Seq(S)) /\ Len(parts) = Len(s)
  BY <1>0, <1>1
<1>3. picked = FlattenSeq(parts)
  BY DEF Picked
<1> HIDE DEF parts, picked
<1>4. picked \in Seq(S)
  BY <1>2, <1>3, FlattenLaid
<1>5. PICK before : Laid(picked, parts, before)
  BY <1>2, <1>3, FlattenLaid
<1>6. \A p \in 1..Len(picked) : \E i \in places : p = before[i] + 1
  <2> TAKE p \in 1..Len(picked)
  <2>1. PICK i \in 1..Len(s) : \E k \in 1..Len(parts[i]) : p = before[i] + k
    BY <1>2, <1>5 DEF Laid
  <2>2. PICK k \in 1..Len(parts[i]) : p = before[i] + k
    BY <2>1
  <2>3. i \in places
    BY <1>1, <2>2
  <2>4. k = 1
    <3>1. Len(parts[i]) = 1
      BY <1>1, <2>3
    <3>2. k \in 1..1
      BY <3>1, Zenon
    <3> QED
      BY <3>2
  <2> QED
    BY <2>2, <2>3, <2>4
<1>7. \A i \in places : /\ i \in 1..Len(parts) /\ 1 \in 1..Len(parts[i])
                        /\ before[i] + 1 \in 1..Len(picked) /\ picked[before[i] + 1] = s[i]
  <2> TAKE i \in places
  <2>1. i \in 1..Len(parts) /\ 1 \in 1..Len(parts[i]) /\ parts[i][1] = s[i]
    BY <1>0, <1>1, <1>2
  <2> QED
    BY <1>5, <2>1, Zenon DEF Laid
<1> DEFINE at == [p \in 1..Len(picked) |-> CHOOSE i \in places : p = before[i] + 1]
<1>8. \A p \in 1..Len(picked) : at[p] \in places /\ p = before[at[p]] + 1
  BY <1>6, Zenon
<1>9. at \in [1..Len(picked) -> places]
  BY <1>8, Zenon
<1> HIDE DEF at
<1>10. \A p \in 1..Len(picked) : picked[p] = s[at[p]]
  BY <1>7, <1>8, Zenon
<1>11. \A p, q \in 1..Len(picked) : at[p] = at[q] => p = q
  BY <1>8, Zenon
<1>12. ASSUME NEW i \in places PROVE \E p \in 1..Len(picked) : at[p] = i
  <2>1. before[i] + 1 \in 1..Len(picked)
    BY <1>7
  <2>2. PICK p : p = before[i] + 1
    OBVIOUS
  <2>3. p = before[at[p]] + 1 /\ at[p] \in places /\ p \in 1..Len(picked)
    BY <1>8, <2>1, <2>2, Zenon
  <2>4. at[p] = i
    BY <1>5, <1>7, <2>2, <2>3, Zenon DEF Laid
  <2> QED
    BY <2>3, <2>4
<1>13. PickedAt(picked, s, places, at)
  BY <1>9, <1>10, <1>11, <1>12, Zenon DEF PickedAt
<1> QED
  BY <1>4, <1>13 DEF picked

\* The entries of a sequence, each once.
LEMMA FirstsAreAll ==
  ASSUME NEW S, NEW s \in Seq(S)
  PROVE  /\ Firsts(s) \in Seq(S) /\ IsInjective(Firsts(s))
         /\ Range(Firsts(s)) = Range(s)
<1> DEFINE places == {i \in DOMAIN s : \A j \in 1..i - 1 : s[j] # s[i]}
<1>0. DOMAIN s = 1..Len(s) /\ Len(s) \in Nat
  BY LenProperties
<1>1. PICK at : PickedAt(Firsts(s), s, places, at)
  BY PickedPlaces DEF Firsts
<1>2. Firsts(s) \in Seq(S)
  BY PickedPlaces DEF Firsts
<1>3. DOMAIN Firsts(s) = 1..Len(Firsts(s))
  BY <1>2, LenProperties
<1>4. ASSUME NEW p \in 1..Len(Firsts(s)), NEW q \in 1..Len(Firsts(s)), Firsts(s)[p] = Firsts(s)[q]
      PROVE  p = q
  <2>1. at[p] \in places /\ at[q] \in places /\ s[at[p]] = s[at[q]]
    BY <1>1, <1>4, Zenon DEF PickedAt
  <2>2. at[p] = at[q]
    BY <1>0, <2>1
  <2> QED
    BY <1>1, <2>2, Zenon DEF PickedAt
<1>5. ASSUME NEW i \in 1..Len(s) PROVE \E k \in places : s[k] = s[i]
  <2> DEFINE U == {k \in 1..Len(s) : s[k] = s[i]}
  <2>1. PICK k \in U : \A l \in U : k <= l
    <3>1. U \in SUBSET Nat /\ U # {}
      BY <1>0
    <3> QED
      BY <3>1, LeastNat, Zenon
  <2>2. k \in places
    BY <1>0, <2>1
  <2> QED
    BY <2>1, <2>2
<1>6. Range(Firsts(s)) \subseteq Range(s)
  BY <1>1, <1>3 DEF PickedAt, Range
<1>7. Range(s) \subseteq Range(Firsts(s))
  <2> SUFFICES ASSUME NEW i \in 1..Len(s) PROVE s[i] \in Range(Firsts(s))
    BY <1>0 DEF Range
  <2>1. PICK k \in places : s[k] = s[i]
    BY <1>5
  <2>2. PICK p \in 1..Len(Firsts(s)) : at[p] = k
    BY <1>1, <2>1, Zenon DEF PickedAt
  <2>3. Firsts(s)[p] = s[i]
    BY <1>1, <2>1, <2>2, Zenon DEF PickedAt
  <2> QED
    BY <1>3, <2>3, Zenon DEF Range
<1> QED
  BY <1>2, <1>3, <1>4, <1>6, <1>7 DEF IsInjective

-----------------------------------------------------------------------------
(* The machine of a listing                                                *)

\* What every list of blocks that an agent gets is like.
Listing(bs) ==
  /\ bs \in Seq(Block) /\ bs # << >>
  /\ \A i, j \in 1..Len(bs) : bs[i].addr = bs[j].addr => i = j
  /\ \A i \in 1..Len(bs) : bs[i].op = "ret" => IsExitNode(bs[i])
  /\ \A i \in 1..Len(bs) : IsGate(bs[i]) => bs[i].addr < bs[i].fail

BlockEdge == [source : Nat, target : Nat \cup {None},
              type : {"TAKEN", "NOT_TAKEN", "UNCONDITIONAL", "FALLTHROUGH"}, cond : {None}]

LEMMA GateCounts ==
  ASSUME NEW edges, NEW p \in Nat
  PROVE  /\ IsFiniteSet({j \in 1..p : edges[j].type = "TAKEN"}) /\ GateCount(edges, p) \in Nat
         /\ edges[p + 1].type # "TAKEN" => GateCount(edges, p + 1) = GateCount(edges, p)
<1>1. IsFiniteSet(1..p)
  BY FS_Interval
<1>2. IsFiniteSet({j \in 1..p : edges[j].type = "TAKEN"})
  BY <1>1, FS_Subset
<1>3. GateCount(edges, p) \in Nat
  BY <1>2, FS_CardinalityType DEF GateCount
<1>4. ASSUME edges[p + 1].type # "TAKEN"
      PROVE  GateCount(edges, p + 1) = GateCount(edges, p)
  <2>1. {j \in 1..p + 1 : edges[j].type = "TAKEN"} = {j \in 1..p : edges[j].type = "TAKEN"}
    BY <1>4
  <2> QED
    BY <2>1 DEF GateCount
<1> QED
  BY <1>2, <1>3, <1>4

\* No two taken edges are counted alike.
LEMMA TakenCountsDiffer ==
  ASSUME NEW edges, NEW p \in Nat, NEW q \in Nat, p < q, edges[q].type = "TAKEN"
  PROVE  GateCount(edges, p) # GateCount(edges, q)
<1> DEFINE upTo(i) == {j \in 1..i : edges[j].type = "TAKEN"}
<1>1. IsFiniteSet(upTo(q))
  BY GateCounts
<1>2. upTo(p) \in SUBSET upTo(q) /\ q \in upTo(q) /\ q \notin upTo(p)
  OBVIOUS
<1>3. Cardinality(upTo(q)) # Cardinality(upTo(p))
  BY <1>1, <1>2, FS_Subset
<1> QED
  BY <1>3 DEF GateCount

LEMMA EdgesOfBlock ==
  ASSUME NEW bs, Listing(bs), NEW i \in 1..Len(bs)
  PROVE  /\ BlockEdges(bs, i) \in Seq(BlockEdge)
         /\ \A k \in 1..Len(BlockEdges(bs, i)) : BlockEdges(bs, i)[k].source = bs[i].addr
         /\ IsGate(bs[i]) =>
              BlockEdges(bs, i) = << Edge(bs[i].addr, bs[i].jump, "TAKEN", None),
                                     Edge(bs[i].addr, bs[i].fail, "NOT_TAKEN", None) >>
         /\ ~IsGate(bs[i]) => \A k \in 1..Len(BlockEdges(bs, i)) :
              k = 1 /\ BlockEdges(bs, i)[k].type \in {"UNCONDITIONAL", "FALLTHROUGH"}
         /\ ~IsGate(bs[i]) /\ bs[i].jump # None =>
              Len(BlockEdges(bs, i)) = 1 /\ BlockEdges(bs, i)[1].target = bs[i].jump
         /\ bs[i].jump = None => \A k \in 1..Len(BlockEdges(bs, i)) :
              i < Len(bs) /\ BlockEdges(bs, i)[k].target = bs[i + 1].addr
         /\ bs[i].op = "ret" => Len(BlockEdges(bs, i)) = 0
<1>1. bs[i] \in Block /\ Len(bs) \in Nat /\ (i < Len(bs) => bs[i + 1] \in Block)
  BY ElementOfSeq, LenProperties DEF Listing
<1>2. /\ bs[i].addr \in Nat /\ bs[i].jump \in Nat \cup {None} /\ bs[i].fail \in Nat \cup {None}
      /\ i < Len(bs) => bs[i + 1].addr \in Nat
  BY <1>1 DEF Block
<1>3. CASE IsGate(bs[i])
  <2>1. BlockEdges(bs, i) = << Edge(bs[i].addr, bs[i].jump, "TAKEN", None),
                               Edge(bs[i].addr, bs[i].fail, "NOT_TAKEN", None) >>
    BY <1>3 DEF BlockEdges
  <2>2. bs[i].op # "ret" /\ bs[i].jump # None
    BY <1>3 DEF Listing, IsGate, IsExitNode
  <2>3. /\ Edge(bs[i].addr, bs[i].jump, "TAKEN", None) \in BlockEdge
        /\ Edge(bs[i].addr, bs[i].fail, "NOT_TAKEN", None) \in BlockEdge
        /\ Edge(bs[i].addr, bs[i].jump, "TAKEN", None).source = bs[i].addr
        /\ Edge(bs[i].addr, bs[i].fail, "NOT_TAKEN", None).source = bs[i].addr
    BY <1>2 DEF Edge, BlockEdge
  <2> QED
    BY <1>3, <2>1, <2>2, <2>3
<1>4. CASE ~IsGate(bs[i]) /\ bs[i].jump # None
  <2> DEFINE e == Edge(bs[i].addr, bs[i].jump,
                       IF bs[i].op = "jmp" THEN "UNCONDITIONAL" ELSE "FALLTHROUGH", None)
  <2>1. BlockEdges(bs, i) = <<e>>
    BY <1>4 DEF BlockEdges
  <2>2. bs[i].op # "ret"
    BY <1>4 DEF Listing, IsExitNode
  <2>3. e \in BlockEdge /\ e.source = bs[i].addr /\ e.target = bs[i].jump
                        /\ e.type \in {"UNCONDITIONAL", "FALLTHROUGH"}
    BY <1>2 DEF Edge, BlockEdge
  <2> HIDE DEF e
  <2> QED
    BY <1>4, <2>1, <2>2, <2>3
<1>5. CASE bs[i].jump = None
  <2>1. ~IsGate(bs[i])
    BY <1>5 DEF IsGate
  <2>2. CASE ~IsExit(bs, i) /\ i < Len(bs)
    <3> DEFINE e == Edge(bs[i].addr, bs[i + 1].addr, "FALLTHROUGH", None)
    <3>1. BlockEdges(bs, i) = <<e>>
      BY <1>5, <2>1, <2>2 DEF BlockEdges
    <3>2. bs[i].op # "ret"
      BY <2>2 DEF Listing, IsExit
    <3>3. e \in BlockEdge /\ e.source = bs[i].addr /\ e.target = bs[i + 1].addr
                          /\ e.type = "FALLTHROUGH"
      BY <1>2, <2>2 DEF Edge, BlockEdge
    <3> HIDE DEF e
    <3> QED
      BY <1>5, <2>1, <2>2, <3>1, <3>2, <3>3
  <2>3. CASE ~(~IsExit(bs, i) /\ i < Len(bs))
    <3>1. BlockEdges(bs, i) = << >>
      BY <1>5, <2>1, <2>3 DEF BlockEdges
    <3> QED
      BY <1>5, <2>1, <3>1
  <2> QED
    BY <2>2, <2>3
<1> QED
  BY <1>3, <1>4, <1>5

\* The transition that an edge becomes.
Move(edges, p) ==
  [source |-> edges[p].source, target |-> edges[p].target, predicate |-> Predicate(edges, p)]

\* The edges of the graph are those of its blocks, the ones of the block at i after
\* before[i] others; and the machine moves from a block by the block's own.
EdgesByBlock(bs, edges, before) ==
  /\ edges \in Seq(BlockEdge) /\ before \in [1..Len(bs) -> Nat]
  /\ Range(fsm.transitions) = {Move(edges, p) : p \in 1..Len(edges)}
  /\ \A i \in 1..Len(bs) :
       /\ \A k \in 1..Len(BlockEdges(bs, i)) :
            /\ before[i] + k \in 1..Len(edges)
            /\ edges[before[i] + k] = BlockEdges(bs, i)[k]
       /\ Out(bs[i].addr) = {Move(edges, before[i] + k) : k \in 1..Len(BlockEdges(bs, i))}
  /\ \A p \in 1..Len(edges) : \E i \in 1..Len(bs) : \E k \in 1..Len(BlockEdges(bs, i)) :
       p = before[i] + k /\ edges[p].source = bs[i].addr

LEMMA OutOfBlock ==
  ASSUME NEW bs, Listing(bs), fsm = FsmOf(GraphOfBlocks(bs))
  PROVE  \E edges, before : EdgesByBlock(bs, edges, before)
<1> DEFINE parts == [i \in DOMAIN bs |-> BlockEdges(bs, i)]
           edges == FlattenSeq(parts)
           n == Len(bs)
<1>0. n \in Nat /\ DOMAIN bs = 1..n
  BY LenProperties DEF Listing
<1>1. /\ parts \in Seq(Seq(BlockEdge)) /\ Len(parts) = n
      /\ \A i \in 1..n : parts[i] = BlockEdges(bs, i)
  BY <1>0, EdgesOfBlock
<1>2. edges = GraphOfBlocks(bs).edges
  BY DEF GraphOfBlocks
<1> HIDE DEF parts
<1>3. edges \in Seq(BlockEdge)
  BY <1>1, FlattenLaid
<1>4. PICK before : Laid(edges, parts, before)
  BY <1>1, FlattenLaid
<1> HIDE DEF edges, n
<1>5. before \in [1..n -> Nat]
  BY <1>1, <1>4, Zenon DEF Laid
<1>6. ASSUME NEW i \in 1..n, NEW k \in 1..Len(BlockEdges(bs, i))
      PROVE  before[i] + k \in 1..Len(edges) /\ edges[before[i] + k] = BlockEdges(bs, i)[k]
  <2>1. i \in 1..Len(parts) /\ k \in 1..Len(parts[i])
    BY <1>1
  <2>2. before[i] + k \in 1..Len(edges) /\ edges[before[i] + k] = parts[i][k]
    BY <1>4, <2>1, Zenon DEF Laid
  <2> QED
    BY <1>1, <2>2
<1>7. ASSUME NEW p \in 1..Len(edges)
      PROVE  \E i \in 1..n : \E k \in 1..Len(BlockEdges(bs, i)) :
               p = before[i] + k /\ edges[p].source = bs[i].addr
  <2>1. PICK i \in 1..Len(parts) : \E k \in 1..Len(parts[i]) : p = before[i] + k
    BY <1>4, Zenon DEF Laid
  <2>2. i \in 1..n /\ parts[i] = BlockEdges(bs, i)
    BY <1>1, <2>1
  <2>3. PICK k \in 1..Len(BlockEdges(bs, i)) : p = before[i] + k
    BY <2>1, <2>2, Zenon
  <2>4. edges[p].source = bs[i].addr
    BY <1>6, <2>2, <2>3, EdgesOfBlock DEF n
  <2> QED
    BY <2>2, <2>3, <2>4
<1>8. /\ DOMAIN fsm.transitions = 1..Len(edges)
      /\ \A p \in 1..Len(edges) : fsm.transitions[p] = Move(edges, p)
  <2>1. DOMAIN edges = 1..Len(edges)
    BY <1>3, LenProperties
  <2>2. fsm.transitions = [p \in DOMAIN edges |-> Move(edges, p)]
    BY <1>2 DEF FsmOf, Move
  <2> QED
    BY <2>1, <2>2
<1>9. Range(fsm.transitions) = {Move(edges, p) : p \in 1..Len(edges)}
  BY <1>8 DEF Range
<1>10. ASSUME NEW i \in 1..n
       PROVE  Out(bs[i].addr) = {Move(edges, before[i] + k) : k \in 1..Len(BlockEdges(bs, i))}
  <2>1. ASSUME NEW p \in 1..Len(edges), Move(edges, p).source = bs[i].addr
        PROVE  \E k \in 1..Len(BlockEdges(bs, i)) : p = before[i] + k
    <3>1. PICK j \in 1..n : \E k \in 1..Len(BlockEdges(bs, j)) :
                              p = before[j] + k /\ edges[p].source = bs[j].addr
      BY <1>7
    <3>2. bs[j].addr = bs[i].addr
      BY <2>1, <3>1 DEF Move
    <3>3. j = i
      BY <3>2, Zenon DEF Listing, n
    <3> QED
      BY <3>1, <3>3
  <2>2. ASSUME NEW k \in 1..Len(BlockEdges(bs, i))
        PROVE  /\ before[i] + k \in 1..Len(edges)
               /\ Move(edges, before[i] + k).source = bs[i].addr
    BY <1>6, EdgesOfBlock DEF Move, n
  <2>3. Out(bs[i].addr) = {t \in {Move(edges, p) : p \in 1..Len(edges)} : t.source = bs[i].addr}
    BY <1>9 DEF Out
  <2> QED
    BY <2>1, <2>2, <2>3, Zenon
<1> QED
  <2>1. \A i \in 1..n :
          /\ \A k \in 1..Len(BlockEdges(bs, i)) :
               /\ before[i] + k \in 1..Len(edges)
               /\ edges[before[i] + k] = BlockEdges(bs, i)[k]
          /\ Out(bs[i].addr) = {Move(edges, before[i] + k) : k \in 1..Len(BlockEdges(bs, i))}
    BY <1>6, <1>10, Zenon
  <2>2. \A p \in 1..Len(edges) : \E i \in 1..n : \E k \in 1..Len(BlockEdges(bs, i)) :
          p = before[i] + k /\ edges[p].source = bs[i].addr
    BY <1>7
  <2>3. EdgesByBlock(bs, edges, before)
    BY <1>3, <1>5, <1>9, <2>1, <2>2, Zenon DEF EdgesByBlock, n
  <2> QED
    BY <2>3, Zenon

\* The gate of a conditional block is its own: no other taken edge has its number.
LEMMA GatesDecide ==
  ASSUME NEW bs, Listing(bs), fsm = FsmOf(GraphOfBlocks(bs)),
         NEW i \in 1..Len(bs), IsGate(bs[i])
  PROVE  DecidesAlone(bs[i])
<1> DEFINE b == bs[i]
           own(j) == BlockEdges(bs, j)
<1>1. PICK edges, before : EdgesByBlock(bs, edges, before)
  BY OutOfBlock
<1>2. \A j \in 1..Len(bs) : before[j] \in Nat
  BY <1>1 DEF EdgesByBlock
<1>3. own(i) = << Edge(b.addr, b.jump, "TAKEN", None), Edge(b.addr, b.fail, "NOT_TAKEN", None) >>
      /\ Len(own(i)) = 2 /\ 1 \in 1..2 /\ 2 \in 1..2
  BY EdgesOfBlock
<1> DEFINE p == before[i] + 1
           q == before[i] + 2
<1>4. /\ p \in 1..Len(edges) /\ edges[p] = own(i)[1]
      /\ q \in 1..Len(edges) /\ edges[q] = own(i)[2]
  BY <1>1, <1>3, Zenon DEF EdgesByBlock
<1>5. /\ edges[p] = Edge(b.addr, b.jump, "TAKEN", None)
      /\ edges[q] = Edge(b.addr, b.fail, "NOT_TAKEN", None)
  BY <1>3, <1>4
<1>6. /\ edges[p].source = b.addr /\ edges[p].target = b.jump
      /\ edges[p].type = "TAKEN" /\ edges[p].cond = None
      /\ edges[q].source = b.addr /\ edges[q].target = b.fail
      /\ edges[q].type = "NOT_TAKEN" /\ edges[q].cond = None
  BY <1>5 DEF Edge
<1> DEFINE g == <<"gate", GateCount(edges, p)>>
<1>7. GateCount(edges, q) = GateCount(edges, p)
  <2>1. p \in Nat /\ q = p + 1
    BY <1>2
  <2> QED
    BY <1>6, <2>1, GateCounts
<1>8. /\ Predicate(edges, p) = [of |-> g, nots |-> 0]
      /\ Predicate(edges, q) = [of |-> g, nots |-> 1]
  BY <1>6, <1>7 DEF Predicate
<1> HIDE DEF p, q, g
<1>9. Out(b.addr) = {Move(edges, p), Move(edges, q)}
  <2>1. Out(b.addr) = {Move(edges, before[i] + k) : k \in 1..2}
    BY <1>1, <1>3 DEF EdgesByBlock
  <2>2. 1..2 = {1, 2}
    OBVIOUS
  <2> QED
    BY <2>1, <2>2, Zenon DEF p, q
<1>10. /\ Move(edges, p).predicate = [of |-> g, nots |-> 0] /\ Move(edges, p).target = b.jump
       /\ Move(edges, q).predicate = [of |-> g, nots |-> 1] /\ Move(edges, q).target = b.fail
       /\ Move(edges, p).predicate.of = g
  BY <1>6, <1>8 DEF Move
<1>11. ASSUME NEW r \in 1..Len(edges), Move(edges, r).predicate.of = g
       PROVE  Move(edges, r).source = b.addr
  <2>1. PICK j \in 1..Len(bs) : \E k \in 1..Len(own(j)) :
               r = before[j] + k /\ edges[r].source = bs[j].addr
    BY <1>1, Zenon DEF EdgesByBlock
  <2>2. PICK k \in 1..Len(own(j)) : r = before[j] + k
    BY <2>1
  <2>3. Move(edges, r).source = bs[j].addr
    BY <2>1 DEF Move
  <2>4. edges[r] = own(j)[k]
    BY <1>1, <2>2, Zenon DEF EdgesByBlock
  <2>5. CASE ~IsGate(bs[j])
    <3>1. edges[r].type \in {"UNCONDITIONAL", "FALLTHROUGH"}
      BY <2>4, <2>5, EdgesOfBlock
    <3>2. Predicate(edges, r) = Always
      BY <3>1 DEF Predicate
    <3>3. <<"TRUE">> = g
      BY <1>11, <3>2 DEF Move, Always
    <3> QED
      BY <3>3 DEF g
  <2>6. CASE IsGate(bs[j])
    <3>1. own(j) = << Edge(bs[j].addr, bs[j].jump, "TAKEN", None),
                      Edge(bs[j].addr, bs[j].fail, "NOT_TAKEN", None) >>
          /\ Len(own(j)) = 2
      BY <2>6, EdgesOfBlock
    <3> DEFINE s == before[j] + 1
               u == before[j] + 2
    <3>2. edges[s] = own(j)[1] /\ edges[u] = own(j)[2]
      <4>1. 1 \in 1..Len(own(j)) /\ 2 \in 1..Len(own(j))
        BY <3>1
      <4> QED
        BY <1>1, <4>1, Zenon DEF EdgesByBlock
    <3>3. /\ edges[s].type = "TAKEN" /\ edges[s].cond = None
          /\ edges[u].type = "NOT_TAKEN" /\ edges[u].cond = None
      BY <3>1, <3>2 DEF Edge
    <3>4. s \in Nat /\ u \in Nat /\ u = s + 1 /\ r \in {s, u}
      <4>1. k \in {1, 2}
        BY <3>1
      <4> QED
        BY <1>2, <2>2, <4>1
    <3>5. GateCount(edges, u) = GateCount(edges, s)
      BY <3>3, <3>4, GateCounts
    <3> HIDE DEF s, u
    <3>6. Predicate(edges, r).of = <<"gate", GateCount(edges, s)>>
      BY <3>3, <3>4, <3>5 DEF Predicate
    <3>7. GateCount(edges, s) = GateCount(edges, p)
      BY <1>11, <3>6 DEF Move, g
    <3>8. s = p
      <4>1. p \in Nat
        BY <1>2 DEF p
      <4>2. ~(s < p) /\ ~(p < s)
        BY <1>6, <3>3, <3>4, <3>7, <4>1, TakenCountsDiffer
      <4> QED
        BY <3>4, <4>1, <4>2
    <3>9. edges[p].source = bs[j].addr
      <4>1. own(j)[1].source = bs[j].addr
        BY <3>1 DEF Edge
      <4> QED
        BY <3>2, <3>8, <4>1
    <3> QED
      BY <1>6, <2>3, <3>9
  <2> QED
    BY <2>5, <2>6
<1>12. \A t \in Range(fsm.transitions) : t.predicate.of = g => t.source = b.addr
  BY <1>1, <1>11 DEF EdgesByBlock
<1>13. {<<t.predicate, t.target>> : t \in Out(b.addr)}
         = {<<[of |-> g, nots |-> 0], b.jump>>, <<[of |-> g, nots |-> 1], b.fail>>}
  BY <1>9, <1>10
<1>14. g \in {t.predicate.of : t \in Out(b.addr)}
  BY <1>9, <1>10
<1> QED
  BY <1>12, <1>13, <1>14, Zenon DEF DecidesAlone

\* The only way out of a block that decides nothing.
LEMMA OthersRun ==
  ASSUME NEW bs, Listing(bs), fsm = FsmOf(GraphOfBlocks(bs)),
         NEW i \in 1..Len(bs), ~IsGate(bs[i])
  PROVE  /\ bs[i].jump # None =>
              {<<t.predicate, t.target>> : t \in Out(bs[i].addr)} = {<<Always, bs[i].jump>>}
         /\ bs[i].jump = None => RunsOn(bs, i)
         /\ bs[i].op = "ret" => Out(bs[i].addr) = {}
<1> DEFINE own == BlockEdges(bs, i)
<1>1. PICK edges, before : EdgesByBlock(bs, edges, before)
  BY OutOfBlock
<1>2. Out(bs[i].addr) = {Move(edges, before[i] + k) : k \in 1..Len(own)}
  BY <1>1, Zenon DEF EdgesByBlock
<1>3. \A k \in 1..Len(own) : k = 1 /\ own[k].type \in {"UNCONDITIONAL", "FALLTHROUGH"}
  BY EdgesOfBlock
<1>4. \A k \in 1..Len(own) : edges[before[i] + k] = own[k]
  BY <1>1, Zenon DEF EdgesByBlock
<1>5. \A k \in 1..Len(own) : /\ Move(edges, before[i] + k).predicate = Always
                            /\ Move(edges, before[i] + k).target = own[k].target
  BY <1>3, <1>4 DEF Move, Predicate
<1>6. ASSUME bs[i].jump # None
      PROVE  {<<t.predicate, t.target>> : t \in Out(bs[i].addr)} = {<<Always, bs[i].jump>>}
  <2>1. 1..Len(own) = {1} /\ own[1].target = bs[i].jump
    BY <1>6, EdgesOfBlock
  <2> HIDE DEF own
  <2>2. Out(bs[i].addr) = {Move(edges, before[i] + 1)}
    BY <1>2, <2>1
  <2> QED
    BY <1>5, <2>1, <2>2
<1>7. ASSUME bs[i].jump = None PROVE RunsOn(bs, i)
  <2>1. \A k \in 1..Len(own) : i < Len(bs) /\ own[k].target = bs[i + 1].addr
    BY <1>7, EdgesOfBlock
  <2> QED
    BY <1>2, <1>5, <2>1 DEF RunsOn
<1>8. ASSUME bs[i].op = "ret" PROVE Out(bs[i].addr) = {}
  <2>1. 1..Len(own) = {}
    BY <1>8, EdgesOfBlock
  <2> QED
    BY <1>2, <2>1
<1> QED
  BY <1>6, <1>7, <1>8

-----------------------------------------------------------------------------
(* What an agent gets of a function                                        *)

\* The first blocks of a listing are a listing with the same entry.
LEMMA FrontOfListing ==
  ASSUME NEW bs, Listing(bs), NEW m \in 1..Len(bs)
  PROVE  /\ Listing(SubSeq(bs, 1, m)) /\ SubSeq(bs, 1, m)[1] = bs[1]
<1> DEFINE part == SubSeq(bs, 1, m)
<1>0. Len(bs) \in Nat /\ m \in Nat /\ \A i \in 1..m : i \in 1..Len(bs) /\ bs[i] \in Block
  BY LenProperties, ElementOfSeq DEF Listing
<1>1. part \in Seq(Block) /\ Len(part) = m /\ \A i \in 1..m : part[i] = bs[i]
  <2>1. \A i \in 1..m : bs[i] \in Block
    BY <1>0
  <2>2. /\ part \in Seq(Block)
        /\ Len(part) = (IF 1 <= m THEN m - 1 + 1 ELSE 0)
        /\ \A i \in 1..m - 1 + 1 : part[i] = bs[1 + i - 1]
    BY <1>0, <2>1, SubSeqProperties
  <2> QED
    BY <1>0, <2>2
<1> HIDE DEF part
<1>2. part # << >> /\ 1 \in 1..m
  BY <1>0, <1>1, EmptySeq
<1>3. \A i \in 1..m : i \in 1..Len(bs) /\ part[i] = bs[i]
  BY <1>0, <1>1
<1>4. Listing(part)
  <2>1. \A i, j \in 1..m : part[i].addr = part[j].addr => i = j
    BY <1>3, Zenon DEF Listing
  <2>2. \A i \in 1..m : part[i].op = "ret" => IsExitNode(part[i])
    BY <1>3, Zenon DEF Listing
  <2>3. \A i \in 1..m : IsGate(part[i]) => part[i].addr < part[i].fail
    BY <1>3, Zenon DEF Listing
  <2> QED
    BY <1>1, <1>2, <2>1, <2>2, <2>3 DEF Listing
<1> QED
  BY <1>2, <1>3, <1>4 DEF part

LEMMA FunctionIsListing ==
  ASSUME NEW f \in Functions
  PROVE  /\ Listing(f) /\ Listing(WithoutOps(f)) /\ WithoutOps(f)[1].addr = f[1].addr
<1> USE FunctionAssumption
<1>0. /\ f \in Seq(Block) /\ f # << >> /\ Len(f) \in Nat /\ DOMAIN f = 1..Len(f) /\ 1 \in 1..Len(f)
  BY LenProperties, EmptySeq
<1>1. \A i, j \in 1..Len(f) : f[i].addr = f[j].addr => i = j
  BY <1>0
<1>9. \A i \in 1..Len(f) : IsGate(f[i]) => f[i].addr < f[i].fail
  <2> SUFFICES ASSUME NEW i \in 1..Len(f), IsGate(f[i]) PROVE f[i].addr < f[i].fail
    OBVIOUS
  <2>1. f[i].addr <= f[i].branch /\ f[i].branch < f[i].fail
    BY <1>0
  <2>2. f[i].addr \in Nat /\ f[i].branch \in Nat /\ f[i].fail \in Nat
    <3>1. f[i] \in Block /\ f[i].fail # None
      BY <1>0, ElementOfSeq DEF IsGate
    <3> QED
      BY <3>1 DEF Block
  <2> QED
    BY <2>1, <2>2
<1>2. Listing(f)
  BY <1>0, <1>1, <1>9 DEF Listing
<1> DEFINE w == WithoutOps(f)
<1>3. ASSUME NEW i \in 1..Len(f)
      PROVE  [f[i] EXCEPT !.op = ""] \in Block /\ [f[i] EXCEPT !.op = ""].addr = f[i].addr
             /\ [f[i] EXCEPT !.op = ""].op # "ret"
             /\ [f[i] EXCEPT !.op = ""].jump = f[i].jump /\ [f[i] EXCEPT !.op = ""].fail = f[i].fail
  <2>1. f[i] \in Block
    BY <1>0, ElementOfSeq
  <2> QED
    BY <2>1 DEF Block
<1>4. w = [i \in 1..Len(f) |-> [f[i] EXCEPT !.op = ""]]
  BY <1>0 DEF WithoutOps
<1>5. w \in Seq(Block) /\ Len(w) = Len(f) /\ \A i \in 1..Len(f) : w[i] = [f[i] EXCEPT !.op = ""]
  <2>1. \A i \in 1..Len(f) : w[i] = [f[i] EXCEPT !.op = ""]
    BY <1>4
  <2>2. w \in [1..Len(f) -> Block]
    <3> DEFINE bare(i) == [f[i] EXCEPT !.op = ""]
    <3>1. \A i \in 1..Len(f) : bare(i) \in Block
      BY <1>3
    <3>2. w = [i \in 1..Len(f) |-> bare(i)]
      BY <1>4
    <3> HIDE DEF bare, w
    <3> QED
      BY <3>1, <3>2
  <2> HIDE DEF w
  <2> DEFINE n == Len(f)
  <2>3. n \in Nat /\ w \in [1..n -> Block]
    BY <1>0, <2>2
  <2> HIDE DEF n
  <2>4. w \in Seq(Block) /\ Len(w) = n
    BY <2>3
  <2> QED
    BY <2>1, <2>4 DEF n
<1> HIDE DEF w
<1>6. w # << >>
  BY <1>0, <1>5, EmptySeq
<1>7. \A i \in 1..Len(f) : /\ w[i].addr = f[i].addr /\ w[i].op # "ret"
                           /\ w[i].jump = f[i].jump /\ w[i].fail = f[i].fail
  BY <1>3, <1>5
<1>10. \A i \in 1..Len(f) : IsGate(w[i]) => w[i].addr < w[i].fail
  BY <1>7, <1>9 DEF IsGate
<1>8. Listing(w)
  BY <1>1, <1>5, <1>6, <1>7, <1>10 DEF Listing
<1> QED
  BY <1>0, <1>2, <1>7, <1>8 DEF w

\* A page of blocks is the first ones, at least the entry.
LEMMA PageIsFront ==
  ASSUME NEW bs, Listing(bs), NEW compact \in BOOLEAN
  PROVE  LET items == ToolAnswer("blocks", bs, compact, NoLimit, 0).items
         IN  Listing(items) /\ items[1] = bs[1]
<1> DEFINE size == UsualLimit["blocks"]
           m == Least(0 + size, Len(bs))
           items == ToolAnswer("blocks", bs, compact, NoLimit, 0).items
<1>0. /\ Len(bs) \in Nat \ {0} /\ "blocks" \in Kinds /\ "blocks" \notin FridaKinds
      /\ "blocks" \notin ReadsLimit /\ "blocks" \notin ReadsOffset
  BY EmptySeq DEF Listing, Kinds, FridaKinds, ReadsLimit, ReadsOffset
<1>1. size \in Nat \ {0}
  BY <1>0, UsualLimitAssumption
<1>2. m \in 1..Len(bs)
  BY <1>0, <1>1 DEF Least
<1>3. items = IF compact THEN SubSeq(bs, 1, m) ELSE bs
  BY <1>0 DEF ToolAnswer, LimitPassed, OffsetPassed, RvsPrints, Page, Uncut, Slice
<1> HIDE DEF m, items
<1>4. Listing(items) /\ items[1] = bs[1]
  BY <1>2, <1>3, FrontOfListing
<1> QED
  BY <1>4 DEF items

LEMMA ListedIsListing ==
  ASSUME NEW f \in Functions, NEW compact \in BOOLEAN, NEW ops \in BOOLEAN
  PROVE  Listing(Listed(f, compact, ops)) /\ Listed(f, compact, ops)[1].addr = f[1].addr
<1> DEFINE bs == IF ops THEN f ELSE WithoutOps(f)
<1>1. Listing(bs) /\ bs[1].addr = f[1].addr
  BY FunctionIsListing
<1> HIDE DEF bs
<1>2. Listing(ToolAnswer("blocks", bs, compact, NoLimit, 0).items)
      /\ ToolAnswer("blocks", bs, compact, NoLimit, 0).items[1] = bs[1]
  BY <1>1, PageIsFront
<1> QED
  BY <1>1, <1>2 DEF Listed, bs

\* The gates and the exits that rvs reports are at different addresses.
LEMMA FlowIsDistinct ==
  ASSUME NEW f \in Functions
  PROVE  LET flow == FlowOf(f)
         IN  /\ Len(flow.gates) \in Nat /\ DOMAIN flow.gates = 1..Len(flow.gates)
             /\ Len(flow.exits) \in Nat /\ DOMAIN flow.exits = 1..Len(flow.exits)
             /\ \A i \in 1..Len(flow.gates) :
                  /\ flow.gates[i].addr \in Nat
                  /\ flow.gates[i].jump \in Nat \cup {None}
                  /\ flow.gates[i].fail \in Nat /\ flow.gates[i].addr < flow.gates[i].fail
             /\ flow.exits \in Seq(Nat) /\ flow.entry \in Nat
             /\ \A i, j \in 1..Len(flow.gates) : flow.gates[i].addr = flow.gates[j].addr => i = j
             /\ \A i, j \in 1..Len(flow.exits) : flow.exits[i] = flow.exits[j] => i = j
             /\ \A i \in 1..Len(flow.gates), j \in 1..Len(flow.exits) :
                  flow.gates[i].addr # flow.exits[j]
<1> USE FunctionAssumption
<1>0. /\ f \in Seq(Block) /\ f # << >> /\ Len(f) \in Nat /\ DOMAIN f = 1..Len(f) /\ 1 \in 1..Len(f)
  BY LenProperties, EmptySeq
<1>1. \A i \in DOMAIN f : f[i] \in Block
  BY <1>0, ElementOfSeq
<1> DEFINE deciding == {i \in DOMAIN f : IsGate(f[i])}
           leaving == {i \in DOMAIN f : IsExitNode(f[i])}
           gates == Picked(f, deciding)
           exits == Picked(f, leaving)
           flow == FlowOf(f)
<1>2. deciding \in SUBSET (DOMAIN f) /\ leaving \in SUBSET (DOMAIN f)
  OBVIOUS
<1>3. flow = [entry |-> f[1].addr, gates |-> [i \in DOMAIN gates |-> GateOf(gates[i])],
              exits |-> [i \in DOMAIN exits |-> exits[i].addr]]
  BY DEF FlowOf
<1>4. ~ \E i \in DOMAIN f : i \in deciding /\ i \in leaving
  BY DEF IsGate, IsExitNode
<1>18. \A i \in deciding : i \in DOMAIN f /\ IsGate(f[i])
  OBVIOUS
<1> HIDE DEF deciding, leaving
<1>5. PICK gateAt : PickedAt(gates, f, deciding, gateAt)
  BY <1>0, <1>2, PickedPlaces
<1>6. PICK exitAt : PickedAt(exits, f, leaving, exitAt)
  BY <1>0, <1>2, PickedPlaces
<1>7. gates \in Seq(Block) /\ exits \in Seq(Block)
  BY <1>0, <1>2, PickedPlaces
<1> HIDE DEF gates, exits, flow
<1>8. /\ Len(gates) \in Nat /\ DOMAIN gates = 1..Len(gates)
      /\ Len(exits) \in Nat /\ DOMAIN exits = 1..Len(exits)
  BY <1>7, LenProperties
<1>9. /\ flow.entry = f[1].addr
      /\ flow.gates = [i \in 1..Len(gates) |-> GateOf(gates[i])]
      /\ flow.exits = [i \in 1..Len(exits) |-> exits[i].addr]
  BY <1>3, <1>8
<1>10. /\ Len(flow.gates) = Len(gates) /\ DOMAIN flow.gates = 1..Len(gates)
       /\ Len(flow.exits) = Len(exits) /\ DOMAIN flow.exits = 1..Len(exits)
  BY <1>8, <1>9
<1>11. ASSUME NEW i \in 1..Len(gates)
       PROVE  /\ gateAt[i] \in deciding /\ gateAt[i] \in DOMAIN f /\ gates[i] = f[gateAt[i]]
              /\ flow.gates[i].addr = f[gateAt[i]].branch
              /\ flow.gates[i].jump = f[gateAt[i]].jump /\ flow.gates[i].fail = f[gateAt[i]].fail
  <2>1. gateAt[i] \in deciding /\ gates[i] = f[gateAt[i]]
    BY <1>5 DEF PickedAt
  <2>2. flow.gates[i] = GateOf(gates[i])
    BY <1>9
  <2> QED
    BY <1>2, <2>1, <2>2 DEF GateOf
<1>12. ASSUME NEW i \in 1..Len(exits)
       PROVE  /\ exitAt[i] \in leaving /\ exitAt[i] \in DOMAIN f
              /\ flow.exits[i] = f[exitAt[i]].addr
  <2>1. exitAt[i] \in leaving /\ exits[i] = f[exitAt[i]]
    BY <1>6 DEF PickedAt
  <2>2. flow.exits[i] = exits[i].addr
    BY <1>9
  <2> QED
    BY <1>2, <2>1, <2>2
<1>13. \A i \in 1..Len(gates) :
         /\ flow.gates[i].addr \in Nat
         /\ flow.gates[i].jump \in Nat \cup {None}
         /\ flow.gates[i].fail \in Nat /\ flow.gates[i].addr < flow.gates[i].fail
  <2> TAKE i \in 1..Len(gates)
  <2>1. f[gateAt[i]] \in Block /\ IsGate(f[gateAt[i]]) /\ f[gateAt[i]].branch < f[gateAt[i]].fail
    BY <1>1, <1>11, <1>18
  <2>2. f[gateAt[i]].branch \in Nat /\ f[gateAt[i]].jump \in Nat \cup {None}
                                   /\ f[gateAt[i]].fail \in Nat
    BY <2>1 DEF Block, IsGate
  <2> QED
    BY <1>11, <2>1, <2>2, Zenon
<1>14. flow.exits \in Seq(Nat) /\ flow.entry \in Nat
  <2>1. \A i \in 1..Len(exits) : flow.exits[i] \in Nat
    BY <1>1, <1>12 DEF Block
  <2>2. flow.exits \in [1..Len(exits) -> Nat]
    BY <1>9, <2>1
  <2>3. flow.entry \in Nat
    BY <1>0, <1>1, <1>9 DEF Block
  <2>4. flow.exits \in Seq(Nat)
    <3>1. PICK m, e : m = Len(exits) /\ e = flow.exits
      OBVIOUS
    <3>2. m \in Nat /\ e \in [1..m -> Nat]
      BY <1>8, <2>2, <3>1
    <3>3. e \in Seq(Nat)
      BY <3>2
    <3> QED
      BY <3>1, <3>3, Zenon
  <2> QED
    BY <2>3, <2>4
<1>15. ASSUME NEW i \in 1..Len(gates), NEW j \in 1..Len(gates), flow.gates[i].addr = flow.gates[j].addr
       PROVE  i = j
  <2>1. gateAt[i] = gateAt[j]
    <3>1. f[gateAt[i]].branch = f[gateAt[j]].branch /\ gateAt[i] \in DOMAIN f /\ gateAt[j] \in DOMAIN f
      BY <1>11, <1>15
    <3> QED
      BY <3>1
  <2> QED
    BY <1>5, <2>1, Zenon DEF PickedAt
<1>16. ASSUME NEW i \in 1..Len(exits), NEW j \in 1..Len(exits), flow.exits[i] = flow.exits[j]
       PROVE  i = j
  <2>1. exitAt[i] = exitAt[j]
    <3>1. f[exitAt[i]].addr = f[exitAt[j]].addr /\ exitAt[i] \in DOMAIN f /\ exitAt[j] \in DOMAIN f
      BY <1>12, <1>16
    <3> QED
      BY <3>1
  <2> QED
    BY <1>6, <2>1, Zenon DEF PickedAt
<1>17. ASSUME NEW i \in 1..Len(gates), NEW j \in 1..Len(exits), flow.gates[i].addr = flow.exits[j]
       PROVE  FALSE
  <2>1. gateAt[i] # exitAt[j]
    BY <1>4, <1>11, <1>12
  <2>2. f[gateAt[i]].branch = f[exitAt[j]].addr /\ gateAt[i] \in DOMAIN f /\ exitAt[j] \in DOMAIN f
    BY <1>11, <1>12, <1>17
  <2> QED
    BY <2>1, <2>2
<1> QED
  BY <1>8, <1>10, <1>13, <1>14, <1>15, <1>16, <1>17 DEF flow

\* The blocks that the orchestrator makes up are a listing too.
LEMMA StandInsAreListing ==
  ASSUME NEW f \in Functions, SynthBlocks(FlowOf(f)) # << >>
  PROVE  Listing(SynthBlocks(FlowOf(f)))
<1> DEFINE flow == FlowOf(f)
           at(a) == [addr |-> a, branch |-> a, op |-> "", jump |-> None, fail |-> None]
           m == Len(flow.gates)
           n == Len(flow.exits)
           gates == [i \in DOMAIN flow.gates |-> at(flow.gates[i].addr)]
           exits == [i \in DOMAIN flow.exits |-> at(flow.exits[i])]
           bs == gates \o exits
<1>0. /\ m \in Nat /\ n \in Nat /\ DOMAIN flow.gates = 1..m /\ DOMAIN flow.exits = 1..n
      /\ \A i \in 1..m : flow.gates[i].addr \in Nat
      /\ \A i, j \in 1..m : flow.gates[i].addr = flow.gates[j].addr => i = j
      /\ \A i, j \in 1..n : flow.exits[i] = flow.exits[j] => i = j
      /\ \A i \in 1..m, j \in 1..n : flow.gates[i].addr # flow.exits[j]
  BY FlowIsDistinct
<1>1. \A i \in 1..n : flow.exits[i] \in Nat
  BY FlowIsDistinct, ElementOfSeq
<1>2. SynthBlocks(flow) = bs
  BY DEF SynthBlocks
<1>3. \A a \in Nat : at(a) \in Block /\ at(a).addr = a /\ at(a).op = "" /\ ~IsGate(at(a))
  BY DEF Block, IsGate
<1> HIDE DEF at, flow, m, n
<1>4. gates \in Seq(Block) /\ Len(gates) = m /\ \A i \in 1..m : gates[i] = at(flow.gates[i].addr)
  <2>1. gates \in [1..m -> Block] /\ \A i \in 1..m : gates[i] = at(flow.gates[i].addr)
    BY <1>0, <1>3
  <2> HIDE DEF gates
  <2> QED
    BY <1>0, <2>1
<1>5. exits \in Seq(Block) /\ Len(exits) = n /\ \A i \in 1..n : exits[i] = at(flow.exits[i])
  <2>1. exits \in [1..n -> Block] /\ \A i \in 1..n : exits[i] = at(flow.exits[i])
    BY <1>0, <1>1, <1>3
  <2> HIDE DEF exits
  <2> QED
    BY <1>0, <2>1
<1> HIDE DEF gates, exits
<1>6. /\ bs \in Seq(Block) /\ Len(bs) = m + n
      /\ \A i \in 1..m + n : bs[i] = IF i <= m THEN gates[i] ELSE exits[i - m]
  BY <1>4, <1>5, ConcatProperties
<1> HIDE DEF bs
<1>7. ASSUME NEW i \in 1..m + n
      PROVE  /\ i \in 1..m => bs[i].addr = flow.gates[i].addr /\ bs[i].op = "" /\ ~IsGate(bs[i])
             /\ i \notin 1..m => /\ i - m \in 1..n
                                 /\ bs[i].addr = flow.exits[i - m] /\ bs[i].op = "" /\ ~IsGate(bs[i])
  <2>1. CASE i \in 1..m
    <3>1. bs[i] = at(flow.gates[i].addr)
      BY <1>0, <1>4, <1>6, <2>1
    <3>2. flow.gates[i].addr \in Nat
      BY <1>0, <2>1
    <3>3. /\ at(flow.gates[i].addr).addr = flow.gates[i].addr
          /\ at(flow.gates[i].addr).op = "" /\ ~IsGate(at(flow.gates[i].addr))
      BY <1>3, <3>2
    <3> QED
      BY <2>1, <3>1, <3>3
  <2>2. CASE i \notin 1..m
    <3>1. i - m \in 1..n /\ ~(i <= m)
      BY <1>0, <2>2
    <3>2. bs[i] = at(flow.exits[i - m])
      BY <1>5, <1>6, <3>1
    <3> QED
      BY <1>1, <1>3, <2>2, <3>1, <3>2
  <2> QED
    BY <2>1, <2>2
<1>8. ASSUME NEW i \in 1..m + n, NEW j \in 1..m + n, bs[i].addr = bs[j].addr
      PROVE  i = j
  <2>1. CASE i \in 1..m /\ j \in 1..m
    BY <1>0, <1>7, <1>8, <2>1
  <2>2. CASE i \in 1..m /\ j \notin 1..m
    <3>1. j - m \in 1..n /\ flow.gates[i].addr = flow.exits[j - m]
      BY <1>7, <1>8, <2>2
    <3> QED
      BY <1>0, <2>2, <3>1
  <2>3. CASE i \notin 1..m /\ j \in 1..m
    <3>1. i - m \in 1..n /\ flow.gates[j].addr = flow.exits[i - m]
      BY <1>7, <1>8, <2>3
    <3> QED
      BY <1>0, <2>3, <3>1
  <2>4. CASE i \notin 1..m /\ j \notin 1..m
    <3>1. i - m \in 1..n /\ j - m \in 1..n /\ flow.exits[i - m] = flow.exits[j - m]
      BY <1>7, <1>8, <2>4
    <3>2. i - m = j - m
      BY <1>0, <3>1
    <3> QED
      BY <1>0, <3>2
  <2> QED
    BY <2>1, <2>2, <2>3, <2>4
<1>9. \A i \in 1..m + n : bs[i].op # "ret" /\ ~IsGate(bs[i])
  BY <1>7
<1>10. bs # << >>
  BY <1>2 DEF flow
<1> QED
  BY <1>2, <1>6, <1>8, <1>9, <1>10 DEF Listing, flow

\* A graph names each node once, and has its entry and its exits among them.
Tidy(g) ==
  /\ g.nodes \in Seq(Nat \cup {None}) /\ IsInjective(g.nodes)
  /\ g.entries \subseteq Range(g.nodes) /\ g.exits \subseteq Range(g.nodes)

LEMMA NodesOfListing ==
  ASSUME NEW bs, Listing(bs)
  PROVE  LET nodes == [i \in DOMAIN bs |-> bs[i].addr]
         IN  /\ nodes \in Seq(Nat \cup {None}) /\ IsInjective(nodes)
             /\ DOMAIN nodes = 1..Len(bs) /\ Len(nodes) = Len(bs) /\ nodes # << >>
             /\ Range(nodes) = Addrs(bs)
             /\ \A i \in 1..Len(bs) : nodes[i] = bs[i].addr /\ nodes[i] \in Range(nodes)
<1> DEFINE nodes == [i \in DOMAIN bs |-> bs[i].addr]
           n == Len(bs)
<1>0. n \in Nat /\ n # 0 /\ DOMAIN bs = 1..n /\ \A i \in 1..n : bs[i].addr \in Nat
  <2>1. n \in Nat /\ n # 0 /\ DOMAIN bs = 1..n
    BY LenProperties, EmptySeq DEF Listing
  <2>2. \A i \in 1..n : bs[i] \in Block
    BY ElementOfSeq DEF Listing
  <2> QED
    BY <2>1, <2>2 DEF Block
<1>1. nodes \in [1..n -> Nat \cup {None}] /\ \A i \in 1..n : nodes[i] = bs[i].addr
  BY <1>0
<1>2. Range(nodes) = Addrs(bs)
  BY DEF Range, Addrs
<1> HIDE DEF nodes
<1>3. nodes \in Seq(Nat \cup {None}) /\ Len(nodes) = n /\ DOMAIN nodes = 1..n
  <2> HIDE DEF n
  <2> QED
    BY <1>0, <1>1
<1>4. nodes # << >>
  BY <1>0, <1>3, EmptySeq
<1>5. IsInjective(nodes)
  BY <1>1, <1>3 DEF IsInjective, Listing
<1>6. \A i \in 1..n : nodes[i] \in Range(nodes)
  BY <1>3 DEF Range
<1> QED
  BY <1>1, <1>2, <1>3, <1>4, <1>5, <1>6 DEF nodes

LEMMA BlocksGraphIsTidy ==
  ASSUME NEW bs, Listing(bs)
  PROVE  Tidy(GraphOfBlocks(bs)) /\ Tidy(GraphOfCfg(bs))
<1> DEFINE nodes == [i \in DOMAIN bs |-> bs[i].addr]
<1>1. /\ nodes \in Seq(Nat \cup {None}) /\ IsInjective(nodes)
      /\ DOMAIN bs = 1..Len(bs) /\ 1 \in 1..Len(bs)
      /\ \A i \in 1..Len(bs) : nodes[i] \in Range(nodes)
  <2>1. DOMAIN bs = 1..Len(bs) /\ 1 \in 1..Len(bs)
    BY LenProperties, EmptySeq DEF Listing
  <2> QED
    BY <2>1, NodesOfListing, Zenon
<1>2. /\ GraphOfBlocks(bs).nodes = nodes /\ GraphOfBlocks(bs).entries = {nodes[1]}
      /\ GraphOfBlocks(bs).exits = {nodes[i] : i \in {j \in DOMAIN bs : IsExit(bs, j)}}
      /\ GraphOfCfg(bs).nodes = nodes /\ GraphOfCfg(bs).entries = {} /\ GraphOfCfg(bs).exits = {}
  BY DEF GraphOfBlocks, GraphOfCfg
<1> HIDE DEF nodes
<1> QED
  BY <1>1, <1>2 DEF Tidy

LEMMA EmptyCfgIsTidy == Tidy(GraphOfCfg(<< >>))
<1>1. /\ GraphOfCfg(<< >>).nodes = << >> /\ GraphOfCfg(<< >>).entries = {}
      /\ GraphOfCfg(<< >>).exits = {}
  BY DEF GraphOfCfg
<1>2. IsInjective(<< >>)
  BY DEF IsInjective
<1> QED
  BY <1>1, <1>2, EmptySeq DEF Tidy

LEMMA GatesGraphIsTidy ==
  ASSUME NEW f \in Functions
  PROVE  /\ Tidy(GraphOfGates(FlowOf(f)))
         /\ \A i \in 1..Len(FlowOf(f).gates) :
              FlowOf(f).gates[i].addr \in Range(GraphOfGates(FlowOf(f)).nodes)
<1> DEFINE flow == FlowOf(f)
           S == Nat \cup {None}
           parts == [i \in DOMAIN flow.gates |-> <<flow.gates[i].addr, flow.gates[i].jump,
                                                   flow.gates[i].fail>>]
           ids == FlattenSeq(parts)
           all == <<flow.entry>> \o ids \o flow.exits
           n == Len(flow.gates)
<1>0. /\ n \in Nat /\ DOMAIN flow.gates = 1..n
      /\ \A i \in 1..n : flow.gates[i].addr \in S /\ flow.gates[i].jump \in S /\ flow.gates[i].fail \in S
      /\ flow.exits \in Seq(Nat) /\ flow.entry \in S /\ Len(flow.exits) \in Nat
      /\ DOMAIN flow.exits = 1..Len(flow.exits)
  BY FlowIsDistinct
<1>1. /\ GraphOfGates(flow).nodes = Firsts(all) /\ GraphOfGates(flow).entries = {flow.entry}
      /\ GraphOfGates(flow).exits = Range(flow.exits)
  BY DEF GraphOfGates
<1> HIDE DEF flow
<1>2. parts \in Seq(Seq(S))
  <2>1. \A i \in 1..n : <<flow.gates[i].addr, flow.gates[i].jump, flow.gates[i].fail>> \in Seq(S)
    BY <1>0
  <2>2. parts \in [1..n -> Seq(S)]
    BY <1>0, <2>1
  <2> HIDE DEF parts, n, S
  <2> QED
    BY <1>0, <2>2
<1> HIDE DEF parts, S
<1>3. ids \in Seq(S)
  BY <1>2, FlattenLaid
<1>11. ASSUME NEW i \in 1..n PROVE \E k \in 1..Len(ids) : ids[k] = flow.gates[i].addr
  <2>1. PICK before : Laid(ids, parts, before)
    BY <1>2, FlattenLaid
  <2>2. i \in 1..Len(parts) /\ 1 \in 1..Len(parts[i]) /\ parts[i][1] = flow.gates[i].addr
    BY <1>0 DEF parts
  <2>3. before[i] + 1 \in 1..Len(ids) /\ ids[before[i] + 1] = parts[i][1]
    BY <2>1, <2>2, Zenon DEF Laid
  <2> QED
    BY <2>2, <2>3
<1> HIDE DEF ids
<1>4. <<flow.entry>> \in Seq(S) /\ Len(<<flow.entry>>) = 1 /\ flow.exits \in Seq(S)
  <2>1. Nat \subseteq S
    BY DEF S
  <2> QED
    BY <1>0, <2>1, SeqMonotonic
<1> DEFINE front == <<flow.entry>> \o ids
<1>5. /\ front \in Seq(S) /\ Len(front) = 1 + Len(ids) /\ Len(ids) \in Nat
      /\ front[1] = flow.entry
      /\ \A k \in 1..Len(ids) : k + 1 \in 1..Len(front) /\ front[k + 1] = ids[k]
  BY <1>3, <1>4, ConcatProperties, LenProperties
<1> HIDE DEF front
<1>6. /\ all \in Seq(S) /\ Len(all) = Len(front) + Len(flow.exits)
      /\ \A i \in 1..Len(front) + Len(flow.exits) :
           all[i] = IF i <= Len(front) THEN front[i] ELSE flow.exits[i - Len(front)]
  <2>1. all = front \o flow.exits
    BY DEF front
  <2> HIDE DEF all
  <2>2. front \in Seq(S) /\ flow.exits \in Seq(S)
    BY <1>4, <1>5
  <2>3. /\ (front \o flow.exits) \in Seq(S)
        /\ Len(front \o flow.exits) = Len(front) + Len(flow.exits)
        /\ \A i \in 1..Len(front) + Len(flow.exits) : (front \o flow.exits)[i] =
             IF i <= Len(front) THEN front[i] ELSE flow.exits[i - Len(front)]
    BY <2>2, ConcatProperties, Zenon
  <2> QED
    BY <2>1, <2>3, Zenon
<1> HIDE DEF all
<1>7. DOMAIN all = 1..Len(all) /\ Len(all) \in Nat /\ Len(front) \in Nat
  BY <1>5, <1>6, LenProperties
<1>8. flow.entry \in Range(all)
  <2>1. 1 \in 1..Len(all) /\ 1 <= Len(front)
    <3>1. PICK a, b, c : a = Len(all) /\ b = Len(front) /\ c = Len(flow.exits)
      OBVIOUS
    <3>2. a \in Nat /\ b \in Nat /\ c \in Nat /\ a = b + c /\ b >= 1
      <4>1. a \in Nat /\ b \in Nat
        BY <1>7, <3>1, Zenon
      <4>2. c \in Nat
        BY <1>0, <3>1, Zenon
      <4>3. a = b + c
        BY <1>6, <3>1, Zenon
      <4>4. PICK d \in Nat : Len(front) = 1 + d
        BY <1>5, Zenon
      <4>5. b >= 1
        BY <3>1, <4>4
      <4> QED
        BY <4>1, <4>2, <4>3, <4>5
    <3> QED
      BY <3>1, <3>2
  <2>2. all[1] = flow.entry
    BY <1>5, <1>6, <2>1
  <2> QED
    BY <1>7, <2>1, <2>2, Zenon DEF Range
<1>9. Range(flow.exits) \subseteq Range(all)
  <2> SUFFICES ASSUME NEW i \in 1..Len(flow.exits) PROVE flow.exits[i] \in Range(all)
    BY <1>0 DEF Range
  <2>1. PICK k : k = Len(front) + i
    OBVIOUS
  <2>2. k \in 1..Len(all) /\ ~(k <= Len(front)) /\ k - Len(front) = i
    BY <1>0, <1>6, <1>7, <2>1
  <2>3. all[k] = flow.exits[i]
    BY <1>6, <2>2
  <2> QED
    BY <1>7, <2>2, <2>3, Zenon DEF Range
<1>10. Firsts(all) \in Seq(S) /\ IsInjective(Firsts(all)) /\ Range(Firsts(all)) = Range(all)
  BY <1>6, FirstsAreAll
<1>12. ASSUME NEW i \in 1..n PROVE flow.gates[i].addr \in Range(all)
  <2>1. PICK k \in 1..Len(ids) : ids[k] = flow.gates[i].addr
    BY <1>11
  <2>2. PICK j : j = k + 1
    OBVIOUS
  <2>3. j \in 1..Len(front) /\ front[j] = flow.gates[i].addr
    BY <1>5, <2>1, <2>2
  <2>4. j \in 1..Len(front) + Len(flow.exits) /\ j <= Len(front)
    BY <1>0, <1>7, <2>3
  <2>5. j \in 1..Len(all) /\ all[j] = front[j]
    BY <1>6, <2>4
  <2> QED
    BY <1>7, <2>3, <2>5, Zenon DEF Range
<1>13. Tidy(GraphOfGates(flow))
  BY <1>1, <1>8, <1>9, <1>10 DEF Tidy, S
<1> QED
  BY <1>1, <1>10, <1>12, <1>13 DEF flow

\* The states that a machine names are states of it, if it has any.
LEMMA MachineOfTidy ==
  ASSUME NEW g, Tidy(g)
  PROVE  ({FsmOf(g).initial} \cup FsmOf(g).terminal) \subseteq Range(FsmOf(g).states) \cup {None}
<1>0. DOMAIN g.nodes = 1..Len(g.nodes) /\ Len(g.nodes) \in Nat
  BY LenProperties DEF Tidy
<1>1. /\ FsmOf(g).states = g.nodes /\ FsmOf(g).initial = InitialState(g)
      /\ FsmOf(g).terminal = IF g.exits = {} /\ g.nodes # << >> THEN {Last(g.nodes)} ELSE g.exits
  BY DEF FsmOf
<1>2. InitialState(g) \in Range(g.nodes) \cup {None}
  <2>1. CASE g.nodes = << >>
    BY <2>1 DEF InitialState
  <2>2. CASE g.nodes # << >> /\ g.entries = {}
    <3>1. 1 \in DOMAIN g.nodes
      BY <1>0, <2>2, EmptySeq DEF Tidy
    <3> QED
      BY <2>2, <3>1 DEF InitialState, Range
  <2>3. CASE g.nodes # << >> /\ g.entries # {}
    <3> DEFINE U == {i \in DOMAIN g.nodes : g.nodes[i] \in g.entries}
    <3>1. U # {} /\ U \in SUBSET Nat
      BY <1>0, <2>3 DEF Tidy, Range
    <3>2. \E c \in U : \A y \in U : c <= y
      BY <3>1, LeastNat, Zenon
    <3>3. Min(U) \in U
      BY <3>2, Zenon DEF Min
    <3> QED
      BY <2>3, <3>3 DEF InitialState, Range
  <2> QED
    BY <2>1, <2>2, <2>3
<1>3. g.nodes # << >> => Last(g.nodes) \in Range(g.nodes)
  <2> SUFFICES ASSUME g.nodes # << >> PROVE Last(g.nodes) \in Range(g.nodes)
    OBVIOUS
  <2>1. Len(g.nodes) \in DOMAIN g.nodes
    BY <1>0, EmptySeq DEF Tidy
  <2> QED
    BY <2>1 DEF Last, Range
<1> QED
  BY <1>1, <1>2, <1>3 DEF Tidy

LEMMA StartsInEntry ==
  ASSUME NEW bs, Listing(bs)
  PROVE  FsmOf(GraphOfBlocks(bs)).initial = bs[1].addr
<1> DEFINE nodes == [i \in DOMAIN bs |-> bs[i].addr]
           U == {i \in DOMAIN nodes : nodes[i] \in {nodes[1]}}
           g == GraphOfBlocks(bs)
<1>1. /\ nodes # << >> /\ DOMAIN nodes = 1..Len(bs) /\ Len(bs) \in Nat /\ 1 \in 1..Len(bs)
      /\ nodes[1] = bs[1].addr
  BY NodesOfListing, LenProperties, EmptySeq DEF Listing
<1>2. g.nodes = nodes /\ g.entries = {nodes[1]}
  BY DEF GraphOfBlocks
<1> HIDE DEF nodes, g
<1>3. 1 \in U /\ \A i \in U : 1 <= i
  BY <1>1
<1>4. Min(U) \in U /\ Min(U) <= 1
  BY <1>3, Zenon DEF Min
<1>5. Min(U) = 1
  BY <1>1, <1>4
<1>6. InitialState(g) = nodes[Min(U)]
  BY <1>1, <1>2 DEF InitialState
<1> QED
  BY <1>1, <1>5, <1>6 DEF FsmOf, g

-----------------------------------------------------------------------------
(* What was made of a function                                             *)

\* What the agent has of the function f.
SeenOf(v, f) ==
  \/ /\ v.route = "blocks" /\ Listing(v.blocks)
     /\ v.genuine => v.blocks[1].addr = f[1].addr
  \/ v.route = "gates" /\ v.flow = FlowOf(f)
  \/ v.route = "cfg" /\ (v.blocks = << >> \/ Listing(v.blocks))

\* The graph that is made of it.
GraphOf(v) ==
  IF v.route = "blocks" THEN GraphOfBlocks(v.blocks)
  ELSE IF v.route = "gates" THEN GraphOfGates(v.flow) ELSE GraphOfCfg(v.blocks)

\* Each is made of the one before, and nothing before a function was chosen.
Made ==
  /\ subject = None => view = None /\ graph = None /\ fsm = None
  /\ subject # None => subject \in Functions /\ SeenOf(view, subject)
  /\ graph # None => graph = GraphOf(view)
  /\ fsm # None => graph # None /\ fsm = FsmOf(graph)

LEMMA LookMade ==
  ASSUME Made, NEW f \in Functions, NEW v, subject = None,
         Look(f, v), SeenOf(v, f), fsm' = fsm,
         graph' = graph \/ graph' = GraphOf(v)
  PROVE  Made'
<1>1. f # None
  BY FunctionAssumption
<1>2. fsm = None /\ graph = None
  BY DEF Made
<1>3. subject' = f /\ view' = v /\ fsm' = None /\ (graph' = None \/ graph' = GraphOf(v))
  BY <1>2 DEF Look
<1>4. SeenOf(view', subject')
  BY <1>3
<1>5. graph' # None => graph' = GraphOf(view')
  BY <1>3
<1> QED
  BY <1>1, <1>3, <1>4, <1>5 DEF Made

LEMMA StartMade ==
  ASSUME Made, Fresh, Start
  PROVE  Made'
<1>0. subject = None
  BY DEF Fresh
<1>1. ASSUME NEW kind, NEW n, NEW compact, NEW limit, NEW offset,
             Ask(kind, n, compact, limit, offset)
      PROVE  Made'
  BY <1>1 DEF Ask, Made
<1>2. ASSUME NEW f \in Functions, NEW compact \in BOOLEAN, NEW ops \in BOOLEAN, Disasm(f, compact, ops)
      PROVE  Made'
  <2> DEFINE v == Blocks(Listed(f, compact, ops), TRUE)
  <2>1. SeenOf(v, f)
    BY ListedIsListing DEF SeenOf, Blocks
  <2>2. Look(f, v) /\ fsm' = fsm /\ graph' = graph
    BY <1>2 DEF Disasm
  <2> HIDE DEF v
  <2> QED
    BY <1>0, <2>1, <2>2, LookMade
<1>3. ASSUME NEW f \in Functions, Flow(f) PROVE Made'
  <2> DEFINE v == Gates(FlowOf(f))
  <2>1. SeenOf(v, f)
    BY DEF SeenOf, Gates
  <2>2. Look(f, v) /\ fsm' = fsm /\ graph' = graph
    BY <1>3 DEF Flow
  <2> HIDE DEF v
  <2> QED
    BY <1>0, <2>1, <2>2, LookMade
<1>4. ASSUME NEW f \in Functions, NEW listed \in BOOLEAN, OrchestratedFlow(f, listed)
      PROVE  Made'
  <2> DEFINE v == IF listed THEN Blocks(Listed(f, TRUE, FALSE), TRUE)
                  ELSE IF SynthBlocks(FlowOf(f)) # << >> THEN Blocks(SynthBlocks(FlowOf(f)), FALSE)
                  ELSE Gates(FlowOf(f))
  <2>1. SeenOf(v, f)
    <3>1. CASE listed
      BY <3>1, ListedIsListing DEF SeenOf, Blocks
    <3>2. CASE ~listed /\ SynthBlocks(FlowOf(f)) # << >>
      BY <3>2, StandInsAreListing DEF SeenOf, Blocks
    <3>3. CASE ~listed /\ SynthBlocks(FlowOf(f)) = << >>
      BY <3>3 DEF SeenOf, Gates
    <3> QED
      BY <3>1, <3>2, <3>3
  <2>2. Look(f, v) /\ fsm' = fsm /\ graph' = graph
    BY <1>4 DEF OrchestratedFlow
  <2> HIDE DEF v
  <2> QED
    BY <1>0, <2>1, <2>2, LookMade
<1>5. ASSUME NEW f \in Functions, NEW listed \in BOOLEAN, OrchestratedCfg(f, listed)
      PROVE  Made'
  <2> DEFINE bs == IF listed THEN Listed(f, TRUE, FALSE) ELSE << >>
             v == [route |-> "cfg", blocks |-> bs, genuine |-> TRUE]
  <2>1. bs = << >> \/ Listing(bs)
    BY ListedIsListing
  <2>2. Look(f, v) /\ fsm' = fsm /\ graph' = GraphOfCfg(bs)
    BY <1>5 DEF OrchestratedCfg
  <2> HIDE DEF bs
  <2>3. SeenOf(v, f) /\ GraphOf(v) = GraphOfCfg(bs)
    BY <2>1 DEF SeenOf, GraphOf
  <2> HIDE DEF v
  <2> QED
    BY <1>0, <2>2, <2>3, LookMade
<1> QED
  BY <1>1, <1>2, <1>3, <1>4, <1>5 DEF Start

LEMMA MadeInvariant == Spec => []Made
<1>1. Init => Made
  BY DEF Init, Made
<1>2. ASSUME Made, [Next]_vars PROVE Made'
  <2>1. CASE Fresh /\ Start
    BY <1>2, <2>1, StartMade
  <2>2. CASE FollowHint
    BY <1>2, <2>2 DEF FollowHint, Made
  <2>3. CASE FromRawFlow
    <3>1. subject # None /\ SeenOf(view, subject) /\ fsm = None
      BY <1>2, <2>3 DEF FromRawFlow, Made
    <3>2. graph' = GraphOf(view)
      BY <2>3, <3>1 DEF FromRawFlow, GraphOf, SeenOf
    <3> QED
      BY <1>2, <2>3, <3>1, <3>2 DEF FromRawFlow, Made
  <2>4. CASE ToFsm
    BY <1>2, <2>4 DEF ToFsm, Made
  <2>5. CASE UNCHANGED vars
    BY <1>2, <2>5 DEF vars, Made
  <2> QED
    BY <1>2, <2>1, <2>2, <2>3, <2>4, <2>5 DEF Next
<1> QED
  BY <1>1, <1>2, PTL DEF Spec

LEMMA GraphIsTidy ==
  ASSUME Made, graph # None
  PROVE  Tidy(graph)
<1>1. graph = GraphOf(view) /\ subject \in Functions /\ SeenOf(view, subject)
  BY DEF Made
<1>2. CASE view.route = "blocks" /\ Listing(view.blocks)
  BY <1>1, <1>2, BlocksGraphIsTidy DEF GraphOf
<1>3. CASE view.route = "gates" /\ view.flow = FlowOf(subject)
  BY <1>1, <1>3, GatesGraphIsTidy DEF GraphOf
<1>4. CASE view.route = "cfg" /\ (view.blocks = << >> \/ Listing(view.blocks))
  BY <1>1, <1>4, BlocksGraphIsTidy, EmptyCfgIsTidy DEF GraphOf
<1> QED
  BY <1>1, <1>2, <1>3, <1>4 DEF SeenOf

\* Answers that add up, graphs that have each node once on every route, and
\* machines that only name states of theirs: for every list and every function.
THEOREM TypeCorrect == Spec => []TypeOK
<1>1. Walk /\ Made => TypeOK
  <2> SUFFICES ASSUME Walk, Made PROVE TypeOK
    OBVIOUS
  <2>1. walk # None => Sound(walk.answer, walk.compact)
    BY DEF Walk
  <2>2. graph # None => Tidy(graph)
    BY GraphIsTidy
  <2>3. fsm # None => ({fsm.initial} \cup fsm.terminal) \subseteq Range(fsm.states) \cup {None}
    BY <2>2, MachineOfTidy DEF Made
  <2> QED
    BY <2>1, <2>2, <2>3 DEF TypeOK, Sound, Tidy
<1> QED
  BY <1>1, WalkInvariant, MadeInvariant, PTL

\* A machine made of listed blocks starts in the entry block and moves from each
\* block as the program does, for functions of any length whose blocks branch in
\* any way: the counter of from_cfg pairs the two edges of one block, and of no
\* other.
THEOREM MachineFollowsProgram == Spec => []FsmFollowsProgram
<1>1. Made => FsmFollowsProgram
  <2> SUFFICES ASSUME Made, fsm # None, view.route = "blocks" PROVE FsmFollowsProgram
    BY DEF FsmFollowsProgram
  <2> DEFINE bs == view.blocks
  <2>1. /\ graph # None /\ fsm = FsmOf(graph) /\ graph = GraphOf(view)
        /\ Listing(bs) /\ (view.genuine => bs[1].addr = subject[1].addr)
    BY DEF Made, SeenOf
  <2>2. fsm = FsmOf(GraphOfBlocks(bs))
    BY <2>1 DEF GraphOf
  <2> HIDE DEF bs
  <2>3. Range(fsm.states) = Addrs(bs)
    BY <2>1, <2>2, NodesOfListing DEF FsmOf, GraphOfBlocks
  <2>4. view.genuine => fsm.initial = subject[1].addr
    BY <2>1, <2>2, StartsInEntry
  <2>5. DOMAIN bs = 1..Len(bs)
    BY <2>1, LenProperties DEF Listing
  <2>6. ASSUME NEW i \in DOMAIN bs
        PROVE  CASE IsGate(bs[i]) -> DecidesAlone(bs[i])
                 [] bs[i].jump # None /\ ~IsGate(bs[i]) ->
                      {<<t.predicate, t.target>> : t \in Out(bs[i].addr)} = {<<Always, bs[i].jump>>}
                 [] bs[i].op = "ret" -> Out(bs[i].addr) = {} /\ bs[i].addr \in fsm.terminal
                 [] OTHER -> RunsOn(bs, i)
    <3>0. bs[i].op = "ret" => IsExitNode(bs[i])
      BY <2>1, <2>5 DEF Listing
    <3>1. CASE IsGate(bs[i])
      <4>1. DecidesAlone(bs[i]) /\ bs[i].op # "ret"
        BY <2>1, <2>2, <2>5, <3>0, <3>1, GatesDecide DEF IsGate, IsExitNode
      <4> QED
        BY <3>1, <4>1
    <3>2. CASE ~IsGate(bs[i]) /\ bs[i].jump # None
      <4>1. {<<t.predicate, t.target>> : t \in Out(bs[i].addr)} = {<<Always, bs[i].jump>>}
        BY <2>1, <2>2, <2>5, <3>2, OthersRun
      <4>2. bs[i].op # "ret"
        BY <3>0, <3>2 DEF IsExitNode
      <4> QED
        BY <3>2, <4>1, <4>2
    <3>3. CASE bs[i].jump = None /\ bs[i].op = "ret"
      <4>1. ~IsGate(bs[i])
        BY <3>3 DEF IsGate
      <4>2. Out(bs[i].addr) = {}
        BY <2>1, <2>2, <2>5, <3>3, <4>1, OthersRun
      <4>3. bs[i].addr \in fsm.terminal
        <5> DEFINE exits == {[k \in DOMAIN bs |-> bs[k].addr][j] : j \in {k \in DOMAIN bs : IsExit(bs, k)}}
        <5>1. GraphOfBlocks(bs).exits = exits
          BY DEF GraphOfBlocks
        <5>2. IsExit(bs, i)
          BY <3>0, <3>3 DEF IsExit
        <5>3. bs[i].addr \in exits
          BY <5>2
        <5> QED
          BY <2>2, <5>1, <5>3 DEF FsmOf
      <4> QED
        BY <3>3, <4>1, <4>2, <4>3
    <3>4. CASE bs[i].jump = None /\ bs[i].op # "ret"
      <4>1. ~IsGate(bs[i])
        BY <3>4 DEF IsGate
      <4>2. RunsOn(bs, i)
        BY <2>1, <2>2, <2>5, <3>4, <4>1, OthersRun
      <4> QED
        BY <3>4, <4>1, <4>2
    <3> QED
      BY <3>1, <3>2, <3>3, <3>4
  <2> QED
    BY <2>3, <2>4, <2>6 DEF FsmFollowsProgram, bs
<1> QED
  BY <1>1, MadeInvariant, PTL

-----------------------------------------------------------------------------
(* The detector's walk                                                     *)
(*                                                                         *)
(* The walk over a stack ends with the least set that has the head and is  *)
(* closed against the edges: each turn keeps the sets that suit it         *)
(* (TurnSuits) and finds a node or shortens the stack (WalkedIsLeast).     *)

\* A set that the walk does not leave: it has what is found and what is on the
\* stack, and with what was not found at first the sources of the edges into it.
Suits(edges, at, G) ==
  /\ at.found \subseteq G /\ Range(at.stack) \subseteq G
  /\ \A e \in Range(edges) : e.target \in G \ at.found => e.source \in G

LeastSuiting(edges, nodes, at) == {m \in nodes : \A G \in SUBSET nodes : Suits(edges, at, G) => m \in G}

WalkStates(nodes) == [found : SUBSET nodes, stack : Seq(nodes)]

LEMMA SourcesFound ==
  ASSUME NEW S, NEW edges \in Seq(S), NEW n
  PROVE  /\ Sources(edges, n) \in Seq({e.source : e \in Range(edges)})
         /\ Range(Sources(edges, n)) = {e.source : e \in {d \in Range(edges) : d.target = n}}
<1> DEFINE places == {i \in DOMAIN edges : edges[i].target = n}
           into == Picked(edges, places)
           srcs == [i \in DOMAIN into |-> into[i].source]
<1>0. DOMAIN edges = 1..Len(edges) /\ Len(edges) \in Nat
  BY LenProperties
<1>1. into \in Seq(S) /\ \E at : PickedAt(into, edges, places, at)
  BY PickedPlaces
<1>2. PICK at : PickedAt(into, edges, places, at)
  BY <1>1
<1>3. DOMAIN into = 1..Len(into) /\ Len(into) \in Nat
  BY <1>1, LenProperties
<1>4. srcs = Sources(edges, n)
  BY DEF Sources
<1> HIDE DEF into
<1>5. \A p \in 1..Len(into) : at[p] \in DOMAIN edges /\ edges[at[p]].target = n /\ into[p] = edges[at[p]]
  BY <1>2 DEF PickedAt
<1>6. \A i \in DOMAIN edges : edges[i].target = n => \E p \in 1..Len(into) : into[p] = edges[i]
  <2> SUFFICES ASSUME NEW i \in DOMAIN edges, edges[i].target = n
               PROVE  \E p \in 1..Len(into) : into[p] = edges[i]
    OBVIOUS
  <2>1. PICK p \in 1..Len(into) : at[p] = i
    BY <1>2 DEF PickedAt
  <2> QED
    BY <1>5, <2>1
<1>7. \A p \in 1..Len(into) : into[p] \in Range(edges) /\ into[p].target = n
  BY <1>5 DEF Range
<1>8. srcs \in Seq({e.source : e \in Range(edges)})
  BY <1>3, <1>7
<1>9. \A p \in 1..Len(into) : srcs[p] = into[p].source
  BY <1>3
<1>10. DOMAIN srcs = 1..Len(into)
  BY <1>3
<1> HIDE DEF srcs
<1>11. ASSUME NEW x \in Range(srcs) PROVE \E e \in Range(edges) : e.target = n /\ x = e.source
  <2>1. PICK p \in 1..Len(into) : srcs[p] = x
    BY <1>10 DEF Range
  <2> QED
    BY <1>7, <1>9, <2>1
<1>12. ASSUME NEW e \in Range(edges), e.target = n PROVE e.source \in Range(srcs)
  <2>1. PICK i \in DOMAIN edges : edges[i] = e
    BY DEF Range
  <2>2. PICK p \in 1..Len(into) : into[p] = e
    BY <1>6, <1>12, <2>1
  <2> QED
    BY <1>9, <1>10, <2>2 DEF Range
<1> QED
  BY <1>4, <1>8, <1>11, <1>12

LEMMA LastAndFront ==
  ASSUME NEW S, NEW s \in Seq(S), s # << >>
  PROVE  /\ Last(s) \in S /\ Front(s) \in Seq(S) /\ Len(Front(s)) = Len(s) - 1
         /\ Range(s) = Range(Front(s)) \cup {Last(s)}
<1> DEFINE f == Front(s)
           n == Len(s)
<1>1. n \in Nat /\ n # 0 /\ DOMAIN s = 1..n /\ n \in 1..n
  BY LenProperties, EmptySeq
<1>2. f \in Seq(S) /\ Len(f) = n - 1 /\ \A i \in 1..n - 1 : f[i] = s[i]
  BY <1>1 DEF Front
<1>3. DOMAIN f = 1..n - 1
  BY <1>2, LenProperties
<1>4. Last(s) = s[n] /\ s[n] \in S
  BY <1>1, ElementOfSeq DEF Last
<1> HIDE DEF f, n
<1>5. ASSUME NEW i \in 1..n PROVE s[i] \in Range(f) \cup {s[n]}
  <2>1. CASE i = n
    BY <2>1
  <2>2. CASE i # n
    <3>1. i \in 1..n - 1
      BY <1>1, <2>2
    <3> QED
      BY <1>2, <1>3, <3>1 DEF Range
  <2> QED
    BY <2>1, <2>2
<1>6. \A i \in 1..n - 1 : i \in 1..n
  BY <1>1
<1>7. Range(s) \subseteq Range(f) \cup {s[n]}
  BY <1>1, <1>5 DEF Range
<1>8. Range(f) \cup {s[n]} \subseteq Range(s)
  BY <1>1, <1>2, <1>3, <1>6 DEF Range
<1> QED
  BY <1>2, <1>4, <1>7, <1>8 DEF f, n

LEMMA TurnSuits ==
  ASSUME NEW S, NEW edges \in Seq(S), NEW nodes, \A e \in Range(edges) : e.source \in nodes,
         NEW at \in WalkStates(nodes), at.stack # << >>
  PROVE  /\ Turn(edges, at) \in WalkStates(nodes)
         /\ \A G : Suits(edges, Turn(edges, at), G) <=> Suits(edges, at, G)
<1> DEFINE n == Last(at.stack)
           front == Front(at.stack)
           srcs == Sources(edges, n)
<1>0. at.found \in SUBSET nodes /\ at.stack \in Seq(nodes)
      /\ at = [found |-> at.found, stack |-> at.stack]
  BY DEF WalkStates
<1>1. n \in nodes /\ front \in Seq(nodes) /\ Range(at.stack) = Range(front) \cup {n}
  BY <1>0, LastAndFront
<1>2. CASE n \in at.found
  <2>1. Turn(edges, at) = [found |-> at.found, stack |-> front]
    BY <1>0, <1>2 DEF Turn
  <2> QED
    BY <1>0, <1>1, <1>2, <2>1 DEF WalkStates, Suits
<1>3. CASE n \notin at.found
  <2>1. Turn(edges, at) = [found |-> at.found \cup {n}, stack |-> front \o srcs]
    BY <1>3 DEF Turn
  <2>2. srcs \in Seq({e.source : e \in Range(edges)})
        /\ Range(srcs) = {e.source : e \in {d \in Range(edges) : d.target = n}}
    BY SourcesFound
  <2>3. srcs \in Seq(nodes)
    BY <2>2, SeqMonotonic
  <2> HIDE DEF n, front, srcs
  <2>4. front \o srcs \in Seq(nodes) /\ Range(front \o srcs) = Range(front) \cup Range(srcs)
    BY <1>1, <2>3, ConcatProperties, RangeConcatenation
  <2>5. Turn(edges, at) \in WalkStates(nodes)
    BY <1>0, <1>1, <2>1, <2>4 DEF WalkStates
  <2>6. ASSUME NEW G PROVE Suits(edges, Turn(edges, at), G) <=> Suits(edges, at, G)
    <3> DEFINE t == Turn(edges, at)
    <3>1. t.found = at.found \cup {n} /\ Range(t.stack) = Range(front) \cup Range(srcs)
      BY <2>1, <2>4
    <3> HIDE DEF t
    <3>2. (t.found \subseteq G /\ Range(t.stack) \subseteq G) <=>
             (at.found \subseteq G /\ Range(at.stack) \subseteq G /\ Range(srcs) \subseteq G)
      BY <1>1, <3>1
    <3>3. Range(srcs) \subseteq G <=> \A e \in Range(edges) : e.target = n => e.source \in G
      BY <2>2
    <3>4. ASSUME Suits(edges, t, G) PROVE Suits(edges, at, G)
      BY <3>1, <3>2, <3>3, <3>4 DEF Suits
    <3>5. ASSUME Suits(edges, at, G) PROVE Suits(edges, t, G)
      <4>1. n \in G
        BY <1>1, <3>5 DEF Suits
      <4>2. Range(srcs) \subseteq G
        BY <1>3, <3>3, <3>5, <4>1 DEF Suits
      <4> QED
        BY <3>1, <3>2, <3>5, <4>2 DEF Suits
    <3> QED
      BY <3>4, <3>5 DEF t
  <2> QED
    BY <2>5, <2>6
<1> QED
  BY <1>2, <1>3

\* What the loop of the walk computes, as the function that Grow takes it for.
Walked(edges, nodes, w) ==
  w = [at \in WalkStates(nodes) |-> IF at.stack = << >> THEN at.found ELSE w[Turn(edges, at)]]

LEMMA WalkedExists ==
  ASSUME NEW S, NEW edges \in Seq(S), NEW nodes, \A e \in Range(edges) : e.source \in nodes
  PROVE  \E w : Walked(edges, nodes, w)
<1> DEFINE w == [at \in WalkStates(nodes) |-> LeastSuiting(edges, nodes, at)]
<1>1. ASSUME NEW at \in WalkStates(nodes), at.stack = << >>
      PROVE  LeastSuiting(edges, nodes, at) = at.found
  <2>1. at.found \in SUBSET nodes
    BY DEF WalkStates
  <2>2. Suits(edges, at, at.found)
    BY <1>1 DEF Suits, Range
  <2>3. \A G \in SUBSET nodes : Suits(edges, at, G) => at.found \subseteq G
    BY DEF Suits
  <2> QED
    BY <2>1, <2>2, <2>3 DEF LeastSuiting
<1>2. ASSUME NEW at \in WalkStates(nodes), at.stack # << >>
      PROVE  LeastSuiting(edges, nodes, at) = w[Turn(edges, at)]
  <2>1. /\ Turn(edges, at) \in WalkStates(nodes)
        /\ \A G : Suits(edges, Turn(edges, at), G) <=> Suits(edges, at, G)
    BY <1>2, TurnSuits
  <2>2. LeastSuiting(edges, nodes, at) = LeastSuiting(edges, nodes, Turn(edges, at))
    BY <2>1 DEF LeastSuiting
  <2> QED
    BY <2>1, <2>2
<1>3. Walked(edges, nodes, w)
  BY <1>1, <1>2 DEF Walked
<1> QED
  BY <1>3

LEMMA GrowIsWalked ==
  ASSUME NEW S, NEW edges \in Seq(S), NEW body, NEW pushed
  PROVE  \E w : /\ Walked(edges, body \cup Range(pushed) \cup {e.source : e \in Range(edges)}, w)
                /\ Grow(edges, body, pushed) = w[[found |-> body, stack |-> pushed]]
<1> DEFINE nodes == body \cup Range(pushed) \cup {e.source : e \in Range(edges)}
           w == CHOOSE w : Walked(edges, nodes, w)
<1>1. \E v : Walked(edges, nodes, v)
  BY WalkedExists
<1>2. Walked(edges, nodes, w)
  BY <1>1
<1>3. Grow(edges, body, pushed) = w[[found |-> body, stack |-> pushed]]
  BY Zenon DEF Grow, Walked, WalkStates
<1> QED
  BY <1>2, <1>3

\* Every turn finds one of finitely many nodes or shortens the stack, so the
\* walk ends, and it has found the least set that suits it.
LEMMA WalkedIsLeast ==
  ASSUME NEW S, NEW edges \in Seq(S), NEW nodes, \A e \in Range(edges) : e.source \in nodes,
         IsFiniteSet(nodes), NEW w, Walked(edges, nodes, w)
  PROVE  \A at \in WalkStates(nodes) : w[at] = LeastSuiting(edges, nodes, at)
<1> DEFINE Good(at) == w[at] = LeastSuiting(edges, nodes, at)
           left(at) == Cardinality(nodes \ at.found)
           T == {c \in Nat : \A at \in WalkStates(nodes) : left(at) = c => Good(at)}
<1>0. \A at \in WalkStates(nodes) : left(at) \in Nat /\ IsFiniteSet(nodes \ at.found)
  BY FS_Subset, FS_CardinalityType
<1>1. ASSUME NEW at \in WalkStates(nodes), at.stack = << >> PROVE Good(at)
  <2>1. w[at] = at.found
    BY <1>1 DEF Walked
  <2>2. at.found \in SUBSET nodes /\ Suits(edges, at, at.found)
        /\ \A G \in SUBSET nodes : Suits(edges, at, G) => at.found \subseteq G
    BY <1>1 DEF Suits, Range, WalkStates
  <2> QED
    BY <2>1, <2>2 DEF LeastSuiting
<1>2. ASSUME NEW at \in WalkStates(nodes), at.stack # << >>, Good(Turn(edges, at)) PROVE Good(at)
  <2>1. /\ Turn(edges, at) \in WalkStates(nodes)
        /\ \A G : Suits(edges, Turn(edges, at), G) <=> Suits(edges, at, G)
    BY <1>2, TurnSuits
  <2>2. w[at] = w[Turn(edges, at)]
    BY <1>2 DEF Walked
  <2> QED
    BY <1>2, <2>1, <2>2 DEF LeastSuiting
<1>3. ASSUME NEW at \in WalkStates(nodes), at.stack # << >>
      PROVE  /\ Turn(edges, at) \in WalkStates(nodes)
             /\ \/ left(Turn(edges, at)) = left(at)
                     /\ Len(Turn(edges, at).stack) = Len(at.stack) - 1
                \/ left(Turn(edges, at)) = left(at) - 1
  <2> DEFINE n == Last(at.stack)
             t == Turn(edges, at)
  <2>1. t \in WalkStates(nodes)
    BY <1>3, TurnSuits
  <2>2. n \in nodes /\ Len(Front(at.stack)) = Len(at.stack) - 1
    BY <1>3, LastAndFront DEF WalkStates
  <2>3. CASE n \in at.found
    <3>1. t.found = at.found /\ t.stack = Front(at.stack)
      BY <2>3 DEF Turn, WalkStates
    <3> QED
      BY <2>1, <2>2, <3>1
  <2>4. CASE n \notin at.found
    <3>1. t.found = at.found \cup {n}
      BY <2>4 DEF Turn, WalkStates
    <3>2. nodes \ t.found = (nodes \ at.found) \ {n} /\ n \in nodes \ at.found
      BY <2>2, <2>4, <3>1
    <3> DEFINE A == nodes \ at.found
    <3>3. IsFiniteSet(A) /\ n \in A /\ nodes \ t.found = A \ {n}
      BY <1>0, <3>2
    <3> HIDE DEF A, n, t
    <3>4. Cardinality(A \ {n}) = Cardinality(A) - 1
      BY <3>3, FS_RemoveElement
    <3>5. left(t) = left(at) - 1
      BY <3>3, <3>4 DEF A
    <3> QED
      BY <2>1, <3>5 DEF t
  <2> QED
    BY <2>3, <2>4
<1> HIDE DEF Good, left
<1>4. ASSUME NEW c \in Nat, \A at \in WalkStates(nodes) : left(at) = c - 1 => Good(at)
      PROVE  \A at \in WalkStates(nodes) : left(at) = c => Good(at)
  <2> DEFINE U == {k \in Nat : \A at \in WalkStates(nodes) :
                     left(at) = c /\ Len(at.stack) = k => Good(at)}
  <2>1. 0 \in U
    <3> SUFFICES ASSUME NEW at \in WalkStates(nodes), Len(at.stack) = 0 PROVE Good(at)
      OBVIOUS
    <3>1. at.stack = << >>
      BY EmptySeq DEF WalkStates
    <3> QED
      BY <1>1, <3>1
  <2>2. ASSUME NEW k \in Nat, k \in U PROVE k + 1 \in U
    <3> SUFFICES ASSUME NEW at \in WalkStates(nodes), left(at) = c, Len(at.stack) = k + 1
                 PROVE  Good(at)
      OBVIOUS
    <3>1. at.stack # << >>
      BY EmptySeq DEF WalkStates
    <3>2. Good(Turn(edges, at))
      BY <1>3, <1>4, <2>2, <3>1
    <3> QED
      BY <1>2, <3>1, <3>2
  <2>3. \A k \in Nat : k \in U
    <3> HIDE DEF U
    <3> QED
      BY <2>1, <2>2, EveryNat
  <2>4. \A at \in WalkStates(nodes) : Len(at.stack) \in Nat
    BY LenProperties DEF WalkStates
  <2> QED
    BY <2>3, <2>4
<1>5. \A c \in Nat : c \in T
  <2>1. 0 \in T
    <3>1. \A at \in WalkStates(nodes) : left(at) = 0 - 1 => Good(at)
      BY <1>0 DEF left
    <3> QED
      BY <1>4, <3>1
  <2>2. ASSUME NEW c \in Nat, c \in T PROVE c + 1 \in T
    <3>1. \A at \in WalkStates(nodes) : left(at) = (c + 1) - 1 => Good(at)
      BY <2>2
    <3> QED
      BY <1>4, <3>1
  <2> HIDE DEF T
  <2> QED
    BY <2>1, <2>2, EveryNat
<1> QED
  BY <1>0, <1>5 DEF Good, left

\* A set that holds the head and is closed against the edges, but for those into
\* the head, of which the not-taken ones do not count.
Encloses(g, head, G) ==
  /\ head \in G
  /\ \A e \in Range(g.edges) :
       /\ e.target = head /\ e.type # "NOT_TAKEN" => e.source \in G
       /\ e.target \in G \ {head} => e.source \in G

LEMMA SourcesAreFinite ==
  ASSUME NEW S, NEW edges \in Seq(S)
  PROVE  IsFiniteSet({e.source : e \in Range(edges)})
<1> DEFINE T == {e.source : e \in Range(edges)}
           f == [i \in 1..Len(edges) |-> edges[i].source]
<1>0. DOMAIN edges = 1..Len(edges) /\ Len(edges) \in Nat
  BY LenProperties
<1>1. IsFiniteSet(1..Len(edges))
  BY <1>0, FS_Interval
<1>2. f \in Surjection(1..Len(edges), T)
  BY <1>0 DEF Surjection, Range
<1> QED
  BY <1>1, <1>2, FS_Surjection

\* The detector's walk finds the least such set.
LEMMA LoopBodyIsLeast ==
  ASSUME NEW S, NEW g, g.edges \in Seq(S), NEW head
  PROVE  LET nodes == {head} \cup {e.source : e \in Range(g.edges)}
         IN  /\ LoopBody(g, head) \subseteq nodes
             /\ Encloses(g, head, LoopBody(g, head))
             /\ \A G \in SUBSET nodes : Encloses(g, head, G) => LoopBody(g, head) \subseteq G
<1> DEFINE places == {i \in DOMAIN g.edges : g.edges[i].type # "NOT_TAKEN"}
           back == Picked(g.edges, places)
           pushed == Sources(back, head)
           sources == {e.source : e \in Range(g.edges)}
           nodes == {head} \cup sources
           at == [found |-> {head}, stack |-> pushed]
           R == LoopBody(g, head)
<1>1. back \in Seq(S) /\ Range(back) = {e \in Range(g.edges) : e.type # "NOT_TAKEN"}
  <2>0. DOMAIN g.edges = 1..Len(g.edges)
    BY LenProperties
  <2>1. back \in Seq(S) /\ \E to : PickedAt(back, g.edges, places, to)
    BY PickedPlaces
  <2>2. PICK to : PickedAt(back, g.edges, places, to)
    BY <2>1
  <2>3. DOMAIN back = 1..Len(back)
    BY <2>1, LenProperties
  <2> HIDE DEF back
  <2>4. \A p \in 1..Len(back) : to[p] \in DOMAIN g.edges /\ back[p] = g.edges[to[p]]
                                /\ g.edges[to[p]].type # "NOT_TAKEN"
    BY <2>2 DEF PickedAt
  <2>5. ASSUME NEW e \in Range(back) PROVE e \in Range(g.edges) /\ e.type # "NOT_TAKEN"
    BY <2>3, <2>4 DEF Range
  <2>6. ASSUME NEW e \in Range(g.edges), e.type # "NOT_TAKEN" PROVE e \in Range(back)
    <3>1. PICK i \in DOMAIN g.edges : g.edges[i] = e
      BY DEF Range
    <3>2. PICK p \in 1..Len(back) : to[p] = i
      BY <2>2, <2>6, <3>1 DEF PickedAt
    <3> QED
      BY <2>3, <2>4, <3>1, <3>2 DEF Range
  <2> QED
    BY <2>1, <2>5, <2>6
<1> HIDE DEF back
<1>2. /\ pushed \in Seq(nodes)
      /\ Range(pushed) = {e.source : e \in {d \in Range(back) : d.target = head}}
  <2>1. /\ pushed \in Seq({e.source : e \in Range(back)})
        /\ Range(pushed) = {e.source : e \in {d \in Range(back) : d.target = head}}
    BY <1>1, SourcesFound
  <2>2. {e.source : e \in Range(back)} \subseteq nodes
    BY <1>1
  <2> QED
    BY <2>1, <2>2, SeqMonotonic
<1>3. R = Grow(g.edges, {head}, pushed)
  BY DEF LoopBody, back
<1> HIDE DEF pushed, R
<1>4. nodes = {head} \cup Range(pushed) \cup sources
  BY <1>1, <1>2
<1>5. at \in WalkStates(nodes)
  BY <1>2 DEF WalkStates
<1>6. IsFiniteSet(nodes)
  BY SourcesAreFinite, FS_Singleton, FS_Union
<1>7. \A e \in Range(g.edges) : e.source \in nodes
  OBVIOUS
<1> HIDE DEF nodes
<1>8. PICK w : Walked(g.edges, nodes, w) /\ R = w[at]
  <2>1. \E w : /\ Walked(g.edges, {head} \cup Range(pushed) \cup sources, w)
               /\ Grow(g.edges, {head}, pushed) = w[[found |-> {head}, stack |-> pushed]]
    BY GrowIsWalked
  <2> QED
    BY <1>3, <1>4, <2>1
<1>9. R = LeastSuiting(g.edges, nodes, at)
  BY <1>5, <1>6, <1>7, <1>8, WalkedIsLeast
<1>10. ASSUME NEW G PROVE Suits(g.edges, at, G) <=> Encloses(g, head, G)
  BY <1>1, <1>2 DEF Suits, Encloses
<1>11. Encloses(g, head, nodes)
  BY <1>7 DEF Encloses, nodes
<1>12. R \subseteq nodes /\ \A G \in SUBSET nodes : Encloses(g, head, G) => R \subseteq G
  BY <1>9, <1>10 DEF LeastSuiting
<1>13. \A m \in nodes : m \notin R => \E G \in SUBSET nodes : Encloses(g, head, G) /\ m \notin G
  BY <1>9, <1>10 DEF LeastSuiting
<1>14. Encloses(g, head, R)
  <2>1. head \in R
    BY <1>13 DEF Encloses, nodes
  <2>2. ASSUME NEW e \in Range(g.edges), e.source \notin R
        PROVE  /\ ~(e.target = head /\ e.type # "NOT_TAKEN")
               /\ e.target \notin R \ {head}
    <3>1. PICK G \in SUBSET nodes : Encloses(g, head, G) /\ e.source \notin G
      BY <1>7, <1>13, <2>2
    <3>2. R \subseteq G
      BY <1>12, <3>1
    <3> QED
      BY <3>1, <3>2 DEF Encloses
  <2> QED
    BY <2>1, <2>2 DEF Encloses
<1> QED
  BY <1>12, <1>14 DEF R, nodes

-----------------------------------------------------------------------------
(* What leads where                                                        *)

Targets(g) == {e.target : e \in Range(g.edges)}

Reach(g, n) == {m \in Targets(g) : \A C \in SUBSET Targets(g) :
                                      After(g, C \cup {n}) \subseteq C => m \in C}

LEMMA ReachIsLeast ==
  ASSUME NEW g, NEW n
  PROVE  /\ Reach(g, n) \subseteq Targets(g)
         /\ \A e \in Range(g.edges) : e.source \in Reach(g, n) \cup {n} => e.target \in Reach(g, n)
         /\ \A C \in SUBSET Targets(g) :
              (\A e \in Range(g.edges) : e.source \in C \cup {n} => e.target \in C)
                => Reach(g, n) \subseteq C
<1>1. \A C \in SUBSET Targets(g) : (\A e \in Range(g.edges) : e.source \in C \cup {n} => e.target \in C)
                                     <=> After(g, C \cup {n}) \subseteq C
  BY DEF After
<1>2. Reach(g, n) \subseteq Targets(g)
  BY DEF Reach
<1>3. \A C \in SUBSET Targets(g) : After(g, C \cup {n}) \subseteq C => Reach(g, n) \subseteq C
  BY DEF Reach
<1>4. ASSUME NEW e \in Range(g.edges), e.source \in Reach(g, n) \cup {n}
      PROVE  e.target \in Reach(g, n)
  <2>1. SUFFICES ASSUME NEW C \in SUBSET Targets(g), After(g, C \cup {n}) \subseteq C
                 PROVE  e.target \in C
    BY DEF Reach, Targets
  <2>2. e.source \in C \cup {n}
    BY <1>3, <1>4, <2>1
  <2> QED
    BY <1>1, <2>1, <2>2
<1> QED
  BY <1>1, <1>2, <1>3, <1>4

LEMMA ReachIsTransitive ==
  ASSUME NEW g, NEW n, NEW m \in Reach(g, n)
  PROVE  Reach(g, m) \subseteq Reach(g, n)
  BY ReachIsLeast

\* What is reached is a target of the node itself or of another that is reached.
LEMMA LastStep ==
  ASSUME NEW g, NEW n, NEW m \in Reach(g, n)
  PROVE  \E e \in Range(g.edges) : e.target = m /\ e.source \in Reach(g, n) \cup {n}
<1> DEFINE C == {x \in Reach(g, n) : \E e \in Range(g.edges) :
                   e.target = x /\ e.source \in Reach(g, n) \cup {n}}
<1>1. C \in SUBSET Targets(g) /\ C \subseteq Reach(g, n)
  BY ReachIsLeast
<1>2. \A e \in Range(g.edges) : e.source \in C \cup {n} => e.target \in C
  BY <1>1, ReachIsLeast
<1>3. Reach(g, n) \subseteq C
  BY <1>1, <1>2, ReachIsLeast
<1> QED
  BY <1>3

\* And what reaches something is the source of an edge.
LEMMA FirstStep ==
  ASSUME NEW g, NEW n, NEW m \in Reach(g, n)
  PROVE  \E e \in Range(g.edges) : e.source = n
<1> SUFFICES ASSUME \A e \in Range(g.edges) : e.source # n PROVE FALSE
  OBVIOUS
<1>1. {} \in SUBSET Targets(g) /\ \A e \in Range(g.edges) : e.source \in {} \cup {n} => e.target \in {}
  OBVIOUS
<1> QED
  BY <1>1, ReachIsLeast

-----------------------------------------------------------------------------
(* The loops of a graph                                                    *)

\* Edges leave nodes, those of a branch that is not taken go forward, and the
\* heads are the targets of the others that do not.
Drawn(g) ==
  /\ \E S : g.edges \in Seq(S)
  /\ \A e \in Range(g.edges) :
       /\ e.source \in Nat /\ e.source \in Range(g.nodes)
       /\ e.type = "NOT_TAKEN" => e.target \in Nat /\ e.source < e.target
  /\ g.heads = LoopHeads(g.nodes, g.edges)

LEMMA BodiesLeadToHead ==
  ASSUME NEW g, Drawn(g), NEW h, NEW n \in LoopBody(g, h), n # h
  PROVE  h \in Reach(g, n)
<1> DEFINE nodes == {h} \cup {e.source : e \in Range(g.edges)}
           G == {m \in nodes : m = h \/ h \in Reach(g, m)}
<1>1. PICK S : g.edges \in Seq(S)
  BY DEF Drawn
<1>2. \A m : \A e \in Range(g.edges) : e.source = m => e.target \in Reach(g, m)
  BY ReachIsLeast
<1>3. Encloses(g, h, G)
  <2>1. ASSUME NEW e \in Range(g.edges), e.target \in G PROVE e.source \in G
    <3>1. e.target \in Reach(g, e.source) /\ e.source \in nodes
      BY <1>2
    <3>2. h \in Reach(g, e.source)
      BY <2>1, <3>1, ReachIsTransitive
    <3> QED
      BY <3>1, <3>2
  <2> QED
    BY <2>1 DEF Encloses
<1>4. LoopBody(g, h) \subseteq G
  BY <1>1, <1>3, LoopBodyIsLeast
<1> QED
  BY <1>4

\* A node on a cycle is in the body of the head at the lowest address among the
\* nodes that it leads to and that lead to it.
LEMMA CyclesHaveHeads ==
  ASSUME NEW g, Drawn(g), NEW n, n \in Reach(g, n)
  PROVE  \E h \in g.heads : h \in Reach(g, n) /\ n \in Reach(g, h) /\ n \in LoopBody(g, h)
<1> DEFINE cycle == {m \in Reach(g, n) : n \in Reach(g, m)}
<1>1. PICK S : g.edges \in Seq(S)
  BY DEF Drawn
<1>2. \A m \in cycle : m \in Nat /\ m \in Range(g.nodes)
  <2> SUFFICES ASSUME NEW m \in cycle PROVE m \in Nat /\ m \in Range(g.nodes)
    OBVIOUS
  <2>1. PICK e \in Range(g.edges) : e.source = m
    BY FirstStep
  <2> QED
    BY <2>1 DEF Drawn
<1>3. PICK h \in cycle : \A m \in cycle : h <= m
  <2>1. cycle \in SUBSET Nat /\ cycle # {}
    BY <1>2
  <2> QED
    BY <2>1, LeastNat, Zenon
<1>4. h \in Reach(g, n) /\ n \in Reach(g, h) /\ h \in Nat /\ h \in Range(g.nodes)
  BY <1>2, <1>3
<1>5. Reach(g, h) = Reach(g, n)
  BY <1>4, ReachIsTransitive
<1>6. h \in g.heads
  <2>1. PICK e \in Range(g.edges) : e.target = h /\ e.source \in Reach(g, h) \cup {h}
    BY <1>4, <1>5, LastStep
  <2>2. h \in Reach(g, e.source)
    BY <2>1, ReachIsLeast
  <2>3. e.source \in cycle
    BY <1>4, <1>5, <2>1, <2>2, ReachIsTransitive
  <2>4. e.source \in Range(g.nodes) /\ h <= e.source
    BY <1>3, <2>3 DEF Drawn
  <2> QED
    BY <1>4, <2>1, <2>4 DEF Drawn, LoopHeads
<1> DEFINE R == LoopBody(g, h)
<1>7. Encloses(g, h, R)
  BY <1>1, LoopBodyIsLeast
<1> HIDE DEF R, cycle
<1>8. n \in R
  <2> SUFFICES ASSUME n \notin R PROVE FALSE
    OBVIOUS
  <2> DEFINE C == {m \in Reach(g, n) : m # h /\ (h \notin Reach(g, m) \/ m \notin R)}
  <2>1. ASSUME NEW e \in Range(g.edges), e.source \in C \cup {n} PROVE e.target \in C
    <3>1. e.target \in Reach(g, n) /\ e.target \in Reach(g, e.source)
      BY <2>1, ReachIsLeast
    <3>2. CASE h \notin Reach(g, e.source)
      BY <3>1, <3>2, ReachIsTransitive
    <3>3. CASE h \in Reach(g, e.source)
      <4>1. e.source \notin R /\ e.source \in Reach(g, n)
        BY <1>4, <2>1, <3>3
      <4>2. e.source \in cycle
        BY <1>4, <3>3, <4>1, ReachIsTransitive DEF cycle
      <4>3. e.target # h
        <5> SUFFICES ASSUME e.target = h PROVE FALSE
          OBVIOUS
        <5>1. e.type = "NOT_TAKEN"
          BY <1>7, <4>1 DEF Encloses
        <5>2. e.source \in Nat /\ e.source < h /\ h <= e.source
          BY <1>3, <4>2, <5>1 DEF Drawn
        <5> QED
          BY <1>4, <5>2
      <4>4. e.target \notin R
        BY <1>7, <4>1, <4>3 DEF Encloses
      <4> QED
        BY <3>1, <4>3, <4>4
    <3> QED
      BY <3>2, <3>3
  <2>2. C \in SUBSET Targets(g)
    BY ReachIsLeast
  <2>3. Reach(g, n) \subseteq C
    BY <2>1, <2>2, ReachIsLeast
  <2> QED
    BY <1>4, <2>3
<1> QED
  BY <1>4, <1>6, <1>8 DEF R

LEMMA BlocksAreDrawn ==
  ASSUME NEW bs, Listing(bs)
  PROVE  Drawn(GraphOfBlocks(bs))
<1> DEFINE parts == [i \in DOMAIN bs |-> BlockEdges(bs, i)]
           edges == FlattenSeq(parts)
           nodes == [i \in DOMAIN bs |-> bs[i].addr]
           n == Len(bs)
           g == GraphOfBlocks(bs)
<1>0. n \in Nat /\ DOMAIN bs = 1..n
  BY LenProperties DEF Listing
<1>1. /\ parts \in Seq(Seq(BlockEdge)) /\ Len(parts) = n
      /\ \A i \in 1..n : parts[i] = BlockEdges(bs, i)
  BY <1>0, EdgesOfBlock
<1>2. g.edges = edges /\ g.nodes = nodes /\ g.heads = LoopHeads(nodes, edges)
  BY DEF GraphOfBlocks
<1>3. \A i \in 1..n : bs[i].addr \in Nat /\ bs[i].addr \in Range(nodes)
  <2>1. \A i \in 1..n : bs[i].addr \in Range(nodes)
    BY NodesOfListing
  <2>2. \A i \in 1..n : bs[i] \in Block
    BY ElementOfSeq DEF Listing
  <2>3. \A i \in 1..n : bs[i].addr \in Nat
    BY <2>2 DEF Block
  <2> QED
    BY <2>1, <2>3
<1> HIDE DEF parts
<1>4. edges \in Seq(BlockEdge) /\ \E before : Laid(edges, parts, before)
  BY <1>1, FlattenLaid
<1>5. PICK before : Laid(edges, parts, before)
  BY <1>4
<1> HIDE DEF edges, nodes, g
<1>6. ASSUME NEW e \in Range(edges)
      PROVE  /\ e.source \in Nat /\ e.source \in Range(nodes)
             /\ e.type = "NOT_TAKEN" => e.target \in Nat /\ e.source < e.target
  <2>1. PICK p \in 1..Len(edges) : edges[p] = e
    BY <1>4, LenProperties DEF Range
  <2>2. PICK i \in 1..n : \E k \in 1..Len(parts[i]) : p = before[i] + k
    BY <1>1, <1>5, Zenon DEF Laid
  <2>3. PICK k \in 1..Len(parts[i]) : p = before[i] + k
    BY <2>2
  <2>4. edges[before[i] + k] = parts[i][k]
    BY <1>1, <1>5, Zenon DEF Laid
  <2>5. k \in 1..Len(BlockEdges(bs, i)) /\ e = BlockEdges(bs, i)[k]
    BY <1>1, <2>1, <2>3, <2>4
  <2>6. e.source = bs[i].addr
    BY <2>5, EdgesOfBlock
  <2>7. CASE IsGate(bs[i])
    <3>1. BlockEdges(bs, i) = << Edge(bs[i].addr, bs[i].jump, "TAKEN", None),
                                 Edge(bs[i].addr, bs[i].fail, "NOT_TAKEN", None) >>
      BY <2>7, EdgesOfBlock
    <3>2. e.type = "NOT_TAKEN" => e.target = bs[i].fail
      BY <2>5, <3>1 DEF Edge
    <3>3. bs[i].fail \in Nat /\ bs[i].addr < bs[i].fail
      <4>1. bs[i] \in Block /\ bs[i].fail # None /\ bs[i].addr < bs[i].fail
        BY <2>7, ElementOfSeq DEF Listing, IsGate
      <4> QED
        BY <4>1 DEF Block
    <3> QED
      BY <1>3, <2>6, <3>2, <3>3
  <2>8. CASE ~IsGate(bs[i])
    <3>1. e.type # "NOT_TAKEN"
      BY <2>5, <2>8, EdgesOfBlock
    <3> QED
      BY <1>3, <2>6, <3>1
  <2> QED
    BY <2>7, <2>8
<1> QED
  BY <1>2, <1>4, <1>6 DEF Drawn, g

LEMMA GatesAreDrawn ==
  ASSUME NEW f \in Functions
  PROVE  Drawn(GraphOfGates(FlowOf(f)))
<1> DEFINE flow == FlowOf(f)
           parts == [i \in DOMAIN flow.gates |-> GateEdges(flow.gates[i])]
           edges == FlattenSeq(parts)
           g == GraphOfGates(flow)
           n == Len(flow.gates)
           E == {GateEdges(flow.gates[i])[k] : i \in 1..n, k \in 1..2}
<1>0. /\ n \in Nat /\ DOMAIN flow.gates = 1..n
      /\ \A i \in 1..n : /\ flow.gates[i].addr \in Nat /\ flow.gates[i].fail \in Nat
                         /\ flow.gates[i].addr < flow.gates[i].fail
  BY FlowIsDistinct
<1>1. \A i \in 1..n : flow.gates[i].addr \in Range(g.nodes)
  BY GatesGraphIsTidy
<1>2. g.edges = edges /\ g.heads = LoopHeads(g.nodes, edges)
  BY DEF GraphOfGates
<1> HIDE DEF flow, g
<1>3. ASSUME NEW i \in 1..n
      PROVE  /\ Len(GateEdges(flow.gates[i])) = 2 /\ GateEdges(flow.gates[i]) \in Seq(E)
             /\ \A k \in 1..2 :
                  LET e == GateEdges(flow.gates[i])[k]
                  IN  /\ e.source = flow.gates[i].addr
                      /\ e.type = "NOT_TAKEN" => e.target = flow.gates[i].fail
  <2> DEFINE b == flow.gates[i]
             d == Edge(b.addr, b.jump, "TAKEN", [of |-> b.addr, nots |-> 0])
             e == Edge(b.addr, b.fail, "NOT_TAKEN", [of |-> b.addr, nots |-> 1])
  <2>1. GateEdges(b) = <<d, e>>
    BY DEF GateEdges
  <2>2. d.source = b.addr /\ d.type = "TAKEN" /\ e.source = b.addr /\ e.target = b.fail
    BY DEF Edge
  <2> HIDE DEF d, e
  <2>3. Len(GateEdges(b)) = 2 /\ GateEdges(b)[1] = d /\ GateEdges(b)[2] = e
    BY <2>1
  <2>4. d \in E /\ e \in E
    BY <2>3
  <2> HIDE DEF E
  <2>5. GateEdges(b) \in Seq(E)
    BY <2>1, <2>4
  <2>6. \A k \in 1..2 : k = 1 \/ k = 2
    OBVIOUS
  <2> QED
    BY <2>2, <2>3, <2>5, <2>6
<1> HIDE DEF E
<1>4. /\ parts \in Seq(Seq(E)) /\ Len(parts) = n
      /\ \A i \in 1..n : parts[i] = GateEdges(flow.gates[i])
  <2>1. parts \in [1..n -> Seq(E)] /\ \A i \in 1..n : parts[i] = GateEdges(flow.gates[i])
    BY <1>0, <1>3
  <2> HIDE DEF parts, n
  <2> QED
    BY <1>0, <2>1
<1> HIDE DEF parts
<1>5. edges \in Seq(E) /\ \E before : Laid(edges, parts, before)
  BY <1>4, FlattenLaid
<1>6. PICK before : Laid(edges, parts, before)
  BY <1>5
<1> HIDE DEF edges
<1>7. ASSUME NEW e \in Range(edges)
      PROVE  /\ e.source \in Nat /\ e.source \in Range(g.nodes)
             /\ e.type = "NOT_TAKEN" => e.target \in Nat /\ e.source < e.target
  <2>1. PICK p \in 1..Len(edges) : edges[p] = e
    BY <1>5, LenProperties DEF Range
  <2>2. PICK i \in 1..n : \E k \in 1..Len(parts[i]) : p = before[i] + k
    BY <1>4, <1>6, Zenon DEF Laid
  <2>3. PICK k \in 1..Len(parts[i]) : p = before[i] + k
    BY <2>2
  <2>4. edges[before[i] + k] = parts[i][k]
    BY <1>4, <1>6, Zenon DEF Laid
  <2>5. k \in 1..2 /\ e = GateEdges(flow.gates[i])[k]
    BY <1>3, <1>4, <2>1, <2>3, <2>4
  <2>6. e.source = flow.gates[i].addr /\ (e.type = "NOT_TAKEN" => e.target = flow.gates[i].fail)
    BY <1>3, <2>5
  <2> QED
    BY <1>0, <1>1, <2>6
<1> QED
  BY <1>2, <1>5, <1>7 DEF Drawn, g, flow

\* Of every function, listed or known by its gates: a block that can come back to
\* itself is in the body of a loop whose head is on the same cycle, and nothing
\* is in a body that does not lead to its head.
THEOREM LoopsAreCaught == Spec => []LoopsCaught
<1>1. Made => LoopsCaught
  <2> SUFFICES ASSUME Made, graph # None, view.route # "cfg" PROVE LoopsCaught
    BY DEF LoopsCaught
  <2> DEFINE g == graph
             leads == Leads(g)
             nodes == Range(g.nodes) \cup {e.source : e \in Range(g.edges)}
  <2>1. Drawn(g)
    <3>1. graph = GraphOf(view) /\ subject \in Functions /\ SeenOf(view, subject)
      BY DEF Made
    <3>2. CASE view.route = "blocks" /\ Listing(view.blocks)
      BY <3>1, <3>2, BlocksAreDrawn DEF GraphOf
    <3>3. CASE view.route = "gates" /\ view.flow = FlowOf(subject)
      BY <3>1, <3>3, GatesAreDrawn DEF GraphOf
    <3> QED
      BY <3>1, <3>2, <3>3 DEF SeenOf
  <2>2. \A n \in nodes : leads[n] = Reach(g, n)
    BY DEF Leads, Reach, Targets
  <2>3. PICK S : g.edges \in Seq(S)
    BY <2>1 DEF Drawn
  <2>4. \A h \in g.heads : h \in Range(g.nodes)
    BY <2>1 DEF Drawn, LoopHeads
  <2> HIDE DEF leads
  <2>5. ASSUME NEW n \in Range(g.nodes), n \in leads[n]
        PROVE  \E h \in g.heads : h \in leads[n] /\ n \in leads[h] /\ n \in LoopBody(g, h)
    <3>1. n \in Reach(g, n)
      BY <2>2, <2>5
    <3>2. PICK h \in g.heads : h \in Reach(g, n) /\ n \in Reach(g, h) /\ n \in LoopBody(g, h)
      BY <2>1, <3>1, CyclesHaveHeads
    <3> QED
      BY <2>2, <2>4, <3>2
  <2>6. ASSUME NEW h \in g.heads, NEW n \in LoopBody(g, h), n # h PROVE h \in leads[n]
    <3>1. h \in Reach(g, n)
      BY <2>1, <2>6, BodiesLeadToHead
    <3>2. n \in {h} \cup {e.source : e \in Range(g.edges)}
      BY <2>3, LoopBodyIsLeast
    <3> QED
      BY <2>2, <2>6, <3>1, <3>2
  <2> QED
    BY <2>5, <2>6 DEF LoopsCaught, leads
<1> QED
  BY <1>1, MadeInvariant, PTL

=============================================================================
