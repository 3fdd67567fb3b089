---------------------------- MODULE MCController ----------------------------
(* One character (no screen offers a second one beside an open tab; two    *)
(* tabs come from sessions that the gateway lost), kinds of state that are *)
(* stored in different ways, and two clicks that are alike.                *)
EXTENDS Controller, TLC

CONSTANTS c1, k1, k2

MCChars == {c1}
MCKinds == {"status", "notice", "list"}
MCClicks == {k1, k2}
Symmetry == Permutations(MCClicks)
=============================================================================
