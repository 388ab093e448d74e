----------------------------- MODULE MCPatching -----------------------------
(* Small instances of Patching: three sites, one of them not mapped, single  *)
(* commands and plans of up to two edits.                                    *)
EXTENDS Patching

CONSTANTS old, new, ff, s1, s2, s3

E(type, site, value, flaw) ==
  [type |-> type, site |-> site, value |-> value, flaw |-> flaw]

\* s3 is not mapped.  Every flaw at the type that can have it.
Good      == {E("bytes", s1, new, "none"), E("bytes", s2, new, "none")}
Undo      == E("bytes", s1, old, "none")
Nowhere   == E("instruction", s3, new, "none")
Filling   == E("bytes", s3, ff, "none")
Bad(t, f) == E(t, s1, new, f)
SingleEdits ==
  Good \cup {Undo, Nowhere, Filling, Bad("bytes", "badhex"), Bad("bytes", "unresolved"),
             Bad("instruction", "malformed"), Bad("instruction", "unencodable"),
             Bad("string", "overflow")}
PlanEdits ==
  Good \cup {Undo, Nowhere, Bad("instruction", "malformed"), Bad("nop", "empty")}
DryEdits ==
  {Nowhere, Bad("instruction", "malformed"), Bad("instruction", "unencodable"),
   Bad("nop", "empty"), Bad("bytes", "badhex")}

Singles  == [plan : {FALSE}, dry : {FALSE}, backup : BOOLEAN,
             edits : {<<e>> : e \in SingleEdits}]
Plans    == [plan : {TRUE}, dry : {FALSE}, backup : {TRUE},
             edits : {<<>>, <<Undo, Filling>>} \cup {<<d, e>> : d, e \in PlanEdits}]
DryPlans == [plan : {TRUE}, dry : {TRUE}, backup : {TRUE},
             edits : {<<Undo, e>> : e \in DryEdits}]

AllRequests == Singles \cup Plans \cup DryPlans

MCInitial == [s \in Site |-> IF s \in Unmapped THEN ff ELSE old]
=============================================================================
