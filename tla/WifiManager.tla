----------------------------- MODULE WifiManager -----------------------------
(***************************************************************************)
(* Reassociation with the access point: firmware/src/wifi_manager.py.      *)
(*                                                                         *)
(* wlan.connect() only asks the WiFi task of the chip to associate; that   *)
(* task goes on by itself while maintain(), called by the worker every     *)
(* 50 ms, looks at it.  maintain() first asks isconnected() and acts on    *)
(* the answer later: the task may act in between.  Time is counted in      *)
(* steps of five seconds.                                                  *)
(***************************************************************************)
EXTENDS Naturals

CONSTANTS
    Window,      \* _attempt_timeout_ms
    BackoffCap,  \* _backoff_cap_ms
    ResetAfter,  \* _radio_reset_after
    Settle,      \* _radio_settle_ms, rounded up
    MaxFaults    \* links lost and calls of connect() the driver refuses (a bound of the model)

WifiAssumption ==
    /\ {Window, BackoffCap, ResetAfter, Settle} \subseteq Nat \ {0} /\ Settle <= BackoffCap
    /\ MaxFaults \in Nat

VARIABLES
    radio,         \* the WiFi task: interface off, idle, associating, or up
    pc,            \* maintain(): not yet called, or isconnected() was false
    connecting, elapsed,  \* _connecting and the time since _attempt_started_ms
    wait, backoff, \* time until _next_attempt_ms; _backoff_ms
    failures,      \* _failures modulo ResetAfter
    resetPending,  \* _radio_reset_pending
    failed,        \* history: attempts that failed since the link was up or the radio off
    faults

stateVars == <<connecting, elapsed, wait, backoff, failures, resetPending>>
vars == <<radio, pc, stateVars, failed, faults>>

TypeOK ==
    /\ radio \in {"off", "idle", "trying", "up"}
    /\ pc \in {"tick", "down"}
    /\ connecting \in BOOLEAN /\ elapsed \in 0..Window
    /\ wait \in 0..BackoffCap /\ backoff \in 1..BackoffCap
    /\ failures \in 0..(ResetAfter - 1) /\ resetPending \in BOOLEAN
    /\ failed \in 0..(ResetAfter + 1) /\ faults \in 0..MaxFaults

\* Boot's connect() ends connected, or leaves its attempt to maintain().
Init ==
    /\ radio \in {"trying", "idle", "up"}
    /\ connecting = (radio # "up") /\ elapsed \in 0..Window
    /\ wait = 0 /\ backoff = 1 /\ failures = 0 /\ resetPending = FALSE
    /\ pc = "tick" /\ failed = 0 /\ faults = 0

-----------------------------------------------------------------------------
(* maintain() *)

FoundUp ==
    /\ pc = "tick" /\ radio = "up"
    /\ connecting' = FALSE /\ failures' = 0 /\ wait' = 0
    /\ backoff' = 1 /\ resetPending' = FALSE
    /\ failed' = 0
    /\ UNCHANGED <<radio, pc, elapsed, faults>>

FoundDown ==
    /\ pc = "tick" /\ radio # "up"
    /\ pc' = "down"
    /\ UNCHANGED <<radio, stateVars, failed, faults>>

ScheduleBackoff ==
    /\ wait' = backoff
    /\ backoff' = IF 2 * backoff > BackoffCap THEN BackoffCap ELSE 2 * backoff

Failed == failed' = IF failed > ResetAfter THEN failed ELSE failed + 1

\* Seeded fault: an association that outlives its window is left alone.
NotAborted == radio

\* disconnect() ends the association, or the link.
Aborted == IF radio = "off" THEN "off" ELSE "idle"

InFlight ==
    /\ pc = "down" /\ connecting /\ radio = "trying" /\ elapsed < Window
    /\ pc' = "tick"
    /\ UNCHANGED <<radio, stateVars, failed, faults>>

\* The window is over, or the task has given up, or it has succeeded since isconnected().
AttemptEnds ==
    /\ pc = "down" /\ connecting /\ ~(radio = "trying" /\ elapsed < Window)
    /\ radio' = IF radio = "trying" THEN Aborted ELSE radio
    /\ connecting' = FALSE
    /\ failures' = (failures + 1) % ResetAfter
    /\ ScheduleBackoff
    /\ resetPending' = (resetPending \/ failures' = 0)
    /\ Failed
    /\ pc' = "tick"
    /\ UNCHANGED <<elapsed, faults>>

BacksOff ==
    /\ pc = "down" /\ ~connecting /\ wait > 0
    /\ pc' = "tick"
    /\ UNCHANGED <<radio, stateVars, failed, faults>>

RadioOff ==
    /\ pc = "down" /\ ~connecting /\ wait = 0 /\ resetPending
    /\ radio' = "off" /\ resetPending' = FALSE /\ wait' = Settle
    /\ failed' = 0
    /\ pc' = "tick"
    /\ UNCHANGED <<connecting, elapsed, backoff, failures, faults>>

\* The interface is switched on if it is off; _next_attempt_ms stays in the past.
Connects ==
    /\ pc = "down" /\ ~connecting /\ wait = 0 /\ ~resetPending
    /\ radio \in {"off", "idle"}
    /\ radio' = "trying" /\ connecting' = TRUE /\ elapsed' = 0
    /\ pc' = "tick"
    /\ UNCHANGED <<wait, backoff, failures, resetPending, failed, faults>>

\* connect() refuses: it collides with an association or link of the task's own, or the driver
\* is in trouble.  The attempt is not counted in _failures.
ConnectRaises ==
    /\ pc = "down" /\ ~connecting /\ wait = 0 /\ ~resetPending
    /\ \/ radio \in {"trying", "up"} /\ UNCHANGED faults
       \/ faults < MaxFaults /\ faults' = faults + 1
    /\ radio' = Aborted
    /\ ScheduleBackoff
    /\ Failed
    /\ pc' = "tick"
    /\ UNCHANGED <<connecting, elapsed, failures, resetPending>>

Maintain ==
    \/ FoundUp \/ FoundDown \/ InFlight \/ AttemptEnds \/ BacksOff
    \/ RadioOff \/ Connects \/ ConnectRaises

-----------------------------------------------------------------------------
(* The WiFi task and time *)

Associates ==
    /\ radio = "trying" /\ radio' = "up"
    /\ UNCHANGED <<pc, stateVars, failed, faults>>

\* Wrong password, no access point.
GivesUp ==
    /\ radio = "trying" /\ radio' = "idle"
    /\ UNCHANGED <<pc, stateVars, failed, faults>>

\* The task may try to restore a lost link by itself.
LinkLost ==
    /\ radio = "up" /\ faults < MaxFaults
    /\ faults' = faults + 1
    /\ radio' \in {"idle", "trying"}
    /\ UNCHANGED <<pc, stateVars, failed>>

Tick ==
    /\ (connecting /\ elapsed < Window) \/ wait > 0
    /\ elapsed' = IF connecting /\ elapsed < Window THEN elapsed + 1 ELSE elapsed
    /\ wait' = IF wait > 0 THEN wait - 1 ELSE 0
    /\ UNCHANGED <<radio, pc, connecting, backoff, failures, resetPending, failed, faults>>

Next == Maintain \/ Associates \/ GivesUp \/ LinkLost \/ Tick

Spec == Init /\ [][Next]_vars

\* The worker's loop and time go on, and the access point does not refuse for ever.
Fairness == WF_vars(Maintain) /\ WF_vars(Tick) /\ SF_vars(Associates)

FairSpec == Spec /\ Fairness

-----------------------------------------------------------------------------
(* Properties *)

\* An attempt the manager has stopped counting on is no longer under way: the next connect()
\* cannot collide with it (_abort_attempt).
QuietWhileWaiting == connecting /\ ~connecting' => radio' # "trying"

\* The radio is switched off only after ResetAfter attempts failed in a row: an outage that is
\* over leaves nothing behind that would cut the next link's recovery short.
ResetEarned == (radio' = "off" /\ radio # "off") => failed >= ResetAfter

\* What no step does to the radio (wifi_manager.py:46-52, 147-157).
RadioLeftAlone == [][QuietWhileWaiting /\ ResetEarned]_vars

\* The link comes back for good once it is no longer lost, and connect() no longer refused.
Returns == <>[](radio = "up" /\ ~connecting /\ backoff = 1)
=============================================================================
