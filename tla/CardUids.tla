------------------------------ MODULE CardUids -------------------------------
(***************************************************************************)
(* What the server and the device both speak of: the sha256 hashes of card *)
(* uids, lists of them, and the absence of a list.  The order and the      *)
(* repetitions of a list are lost on both sides (config.py builds a set    *)
(* from it), so a list is a set.                                           *)
(***************************************************************************)

CONSTANTS
    Uid,   \* the card uid hashes
    None   \* no list: Python's None, no retained message

ASSUME NoneAssumption == \A list \in SUBSET Uid : list # None

List == SUBSET Uid
=============================================================================
