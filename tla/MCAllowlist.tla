----------------------------- MODULE MCAllowlist -----------------------------
(* Model-checking instance of Allowlist: two cards, both boots. *)
EXTENDS Allowlist
CONSTANTS u1, u2
MCUid == {u1, u2}
=============================================================================
