----------------------------- MODULE MCUserData -----------------------------
(***************************************************************************)
(* Instances of UserData for TLC.                                          *)
(***************************************************************************)
EXTENDS UserData

CONSTANTS i1, i2, t1, o1, e1, d1, c1

None == {}
OneImport == {i1}
TwoImports == {i1, i2}
OneTool == {t1}
OneOev == {o1}
OneExisting == {e1}
OneDelete == {d1}
OneCron == {c1}

\* An import without geometry, everything else in the first table.
TwoTables == [l \in Layers |-> IF l = i1 THEN 2 ELSE 1]
OneTable == [l \in Layers |-> 1]
=============================================================================
