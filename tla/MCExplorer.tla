------------------------------ MODULE MCExplorer ------------------------------
(* Two documents at first of a group that the profile does not know, one   *)
(* below the other; room for one more.                                     *)
EXTENDS Explorer, TLC

CONSTANTS d1, d2, d3

MCDoc == {d1, d2, d3}
MCFavorite == {d1}
Row(state, type, group, parent) ==
    [state |-> state, type |-> type, group |-> group, parent |-> parent]
MCFirstDocs ==
    (d1 :> Row("live", "department", Foreign, None))
    @@ (d2 :> Row("live", "department", Foreign, d1))
    @@ (d3 :> Row("none", "private", None, None))

=============================================================================
