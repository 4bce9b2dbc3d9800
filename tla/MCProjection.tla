------------------------------ MODULE MCProjection ------------------------------
(***************************************************************************)
(* Instances of Projection.  A call of each kind; the accounts and names   *)
(* differ in what happens to them, so there is no symmetry.                *)
(***************************************************************************)
EXTENDS Projection

CONSTANTS a1, a2, n1, n2, plain, bare, vouched

Named == After([op |-> "grant", who |-> a1, name |-> n1], Blank)
Parent == After([op |-> "subs", who |-> a1, list |-> {a2}],
                After([op |-> "set", who |-> a1, raw |-> vouched], Blank))

MCOrigins == {Named, Parent}

MCCalls == PalletCalls
=============================================================================
