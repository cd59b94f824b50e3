---------------------------- MODULE AccessControl ----------------------------
(***************************************************************************)
(* What the key list of a device promises, whatever carries it there:      *)
(* administrators decide which uids are allowed, the device enforces some  *)
(* list of uids that were all allowed at some time, and while it is in     *)
(* service it always catches up with the current decision in the end.      *)
(***************************************************************************)
EXTENDS CardUids

VARIABLES
    allowed,    \* the uids allowed now
    granted,    \* the uids allowed now or before
    enforced,   \* the list a scan is decided by
    inService   \* whether the device still belongs to the workspace

vars == <<allowed, granted, enforced, inService>>

Init ==
    /\ allowed = {}
    /\ granted = {}
    /\ enforced = {}
    /\ inService = TRUE

Administer ==
    /\ allowed' \in List
    /\ granted' = granted \cup allowed'
    /\ UNCHANGED <<enforced, inService>>

Retire ==
    /\ inService' = FALSE
    /\ UNCHANGED <<allowed, granted, enforced>>

Apply ==
    /\ enforced' \in SUBSET granted
    /\ UNCHANGED <<allowed, granted, inService>>

CatchUp ==
    /\ inService /\ enforced # allowed
    /\ Apply
    /\ enforced' = allowed

Next == Administer \/ Retire \/ Apply

SafeSpec == Init /\ [][Next]_vars
Spec == SafeSpec /\ WF_vars(CatchUp)
=============================================================================
