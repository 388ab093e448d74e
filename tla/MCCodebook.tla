----------------------------- MODULE MCCodebook -----------------------------
(* Small instances of Codebook: a function fn, a string with a space and the *)
(* same string with an underscore.                                           *)
EXTENDS Codebook

CONSTANTS fn, spaced, joined, h1, h2

Bare(c) == [deco |-> <<>>, core |-> c]

MCUnderscored == [c \in Core |-> IF c = spaced THEN joined ELSE c]
MCHashOf ==
  [n \in Name \cup {Clean(m, p) : m \in Name, p \in Prefix} |->
     IF n.core = fn THEN h1 ELSE h2]
\* h1 starts with a 2 and goes on with a letter, h2 starts with a letter.
MCDigits ==
  [k \in Kind |-> [h \in Hash |-> IF k # "ADDR" /\ h = h1 THEN 2 ELSE 0]]

SymFunction  == {Decorated("sym", Bare(fn))}
PlainStrings == {Bare(spaced), Decorated("str", Bare(fn))}
OneName      == {Bare(fn)}

\* The names of the run are those of the theorems about the bijection.
ASSUME UnambiguousAssumption == Unambiguous

AnyBooks     == {BookKeys, {"forward"}, {"reverse"}}
=============================================================================
