----------------------------- MODULE TokenBook -----------------------------
(***************************************************************************)
(* What a codebook promises: in every session a raw string that has been   *)
(* given a token keeps it, and no two raw strings share one.  This is the  *)
(* "1-to-1 bijective mapping" of the class comment of BijectiveCodebook.   *)
(***************************************************************************)
CONSTANT Session

VARIABLE map   \* map[s] : the tokens of the raw strings known to session s

OneToOne(f) == \A x, y \in DOMAIN f : f[x] = f[y] => x = y

Extends(g, f) == /\ DOMAIN f \subseteq DOMAIN g
                 /\ \A x \in DOMAIN f : g[x] = f[x]

Init == \A s \in Session : DOMAIN map[s] = {}

Learn == \A s \in Session : Extends(map'[s], map[s]) /\ OneToOne(map'[s])

Spec == Init /\ [][Learn]_map
=============================================================================
