------------------------------ MODULE MCAdmin -------------------------------
(***************************************************************************)
(* Instances of AdminUsers: two founders and a third account, of which one *)
(* is the account of the seed, and two requests at a time.        *)
(***************************************************************************)
EXTENDS AdminUsers

CONSTANTS a1, a2, a3, r1, r2

Ask(ro, ac) == [role |-> ro, active |-> ac]

Rename     == Ask(Keep, Keep)
Demote     == Ask("user", Keep)
Deactivate == Ask(Keep, FALSE)

Removals   == {Rename, Demote, Deactivate, Delete}
OnlyDelete == {Delete}
=============================================================================
