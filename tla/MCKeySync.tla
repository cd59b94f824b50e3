------------------------------ MODULE MCKeySync ------------------------------
(* Model-checking instances of KeySync: two cards with an access row each; or    *)
(* with two keys of the first card, one of which has two access rows.            *)
EXTENDS KeySync, TLC

CONSTANTS u1, u2, k1, k2, k3, a1, a2, a3, a4, p1, p2, b1

MCUid == {u1, u2}
MCKey == {k1, k2}
MCAccess == {a1, a2}
MCPush == {p1, p2}
MCBeat == {b1}
MCUidOf == (k1 :> u1) @@ (k2 :> u2)
RowPerKey == (a1 :> k1) @@ (a2 :> k2)

\* Two keys of one card, with two access rows for the first of them
ThreeKeys == {k1, k2, k3}
FourAccess == {a1, a2, a3, a4}
SameCardTwice == (k1 :> u1) @@ (k2 :> u1) @@ (k3 :> u2)
TwoRowsOneKey == (a1 :> k1) @@ (a2 :> k1) @@ (a3 :> k2) @@ (a4 :> k3)

PushSymmetry == Permutations(MCPush)
=============================================================================
