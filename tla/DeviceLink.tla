----------------------------- MODULE DeviceLink ------------------------------
(***************************************************************************)
(* The device's connection and the scans that wait for it:                 *)
(* firmware/src/mqtt_worker.py, mqtt_client.py and state.py.               *)
(*                                                                         *)
(* The reader thread puts every scan into a bounded queue.  The worker     *)
(* thread, sole owner of the MQTT socket, runs one loop: maintain() keeps  *)
(* the connection (reconnecting with a capped backoff), then up to         *)
(* _FLUSH_BATCH scans are popped and published.  A lock makes put and pop  *)
(* atomic, so the reader acts between any two steps of the worker.         *)
(*                                                                         *)
(* Scans are numbered in the order they were read.  Time is counted in     *)
(* steps of the first backoff, five seconds.                               *)
(***************************************************************************)
EXTENDS Naturals, Sequences

CONSTANTS
    Cap,         \* capacity of the queue
    FlushBatch,  \* scans published in one iteration of the loop
    BackoffCap,  \* the longest wait between two attempts
    MaxScans,    \* scans read (a bound of the model)
    MaxFaults    \* faults that happen (a bound of the model)

ASSUME LinkAssumption ==
    /\ Cap \in Nat \ {0} /\ FlushBatch \in Nat \ {0} /\ BackoffCap \in Nat \ {0}
    /\ MaxScans \in Nat /\ MaxFaults \in Nat

VARIABLES
    wifi,       \* the radio is associated
    broker,     \* the broker takes connections
    alive,      \* the device's connection still reaches the broker
    linked,     \* _client is not None: the device holds a connection
    online,     \* state.is_connected, what the reader's light shows
    wait,       \* time left until _next_reconnect_ms (0: an attempt may start)
    backoff,    \* _reconnect_backoff_ms
    pc,         \* the worker: at maintain(), in the flush loop, or publishing
    budget,     \* scans the flush loop may still pop
    holding,    \* the scan popped and not yet published (0: none)
    queue,      \* ScanQueue._items
    scans,      \* number of scans read
    delivered,  \* history: the scans the broker received, in order
    faults

netVars == <<wifi, broker, faults>>
linkVars == <<alive, linked, online, wait, backoff>>
loopVars == <<pc, budget, holding>>
scanVars == <<queue, scans, delivered>>
vars == <<netVars, linkVars, loopVars, scanVars>>

TypeOK ==
    /\ wifi \in BOOLEAN /\ broker \in BOOLEAN /\ faults \in 0..MaxFaults
    /\ alive \in BOOLEAN /\ linked \in BOOLEAN /\ online \in BOOLEAN
    /\ wait \in 0..BackoffCap /\ backoff \in 1..BackoffCap
    /\ pc \in {"maintain", "flush", "publish"}
    /\ budget \in 0..FlushBatch
    /\ holding \in 0..MaxScans
    /\ queue \in Seq(1..MaxScans)
    /\ scans \in 0..MaxScans
    /\ delivered \in Seq(1..MaxScans)

\* Boot tries to connect (connect_now) before the two threads start; a failed
\* attempt there schedules no backoff.
Booted(up) ==
    /\ alive' = up /\ linked' = up /\ online' = up
    /\ wait' = 0 /\ backoff' = 1
    /\ pc' = "maintain" /\ budget' = 0 /\ holding' = 0
    /\ queue' = <<>>

Init ==
    /\ wifi = TRUE /\ broker = TRUE /\ faults = 0
    /\ alive \in BOOLEAN /\ linked = alive /\ online = alive
    /\ wait = 0 /\ backoff = 1
    /\ pc = "maintain" /\ budget = 0 /\ holding = 0
    /\ queue = <<>> /\ scans = 0 /\ delivered = <<>>

-----------------------------------------------------------------------------
(* The reader thread *)

\* ScanQueue.put: append, and drop the oldest when the queue has outgrown its cap.
Scan ==
    /\ scans < MaxScans
    /\ scans' = scans + 1
    /\ LET items == Append(queue, scans + 1)
       IN  queue' = IF Len(items) > Cap THEN Tail(items) ELSE items
    /\ UNCHANGED <<netVars, linkVars, loopVars, delivered>>

-----------------------------------------------------------------------------
(* maintain(), at the head of the worker's loop *)

\* The loop asks is_connected() once and then flushes a batch, or nothing.
EnterFlush ==
    /\ pc' = "flush"
    /\ budget' = IF linked' THEN FlushBatch ELSE 0
    /\ UNCHANGED <<netVars, holding, scanVars>>

\* _lose tears the connection down and flips the flag.
Lose ==
    /\ alive' = FALSE /\ linked' = FALSE /\ online' = FALSE
    /\ UNCHANGED <<wait, backoff>>

LosesWifi ==
    /\ pc = "maintain" /\ linked /\ ~wifi
    /\ Lose
    /\ EnterFlush

\* check_msg, ping and heartbeat run without an exception: on a connection that is
\* dead, what they write is still being retransmitted.
FindsLinkUp ==
    /\ pc = "maintain" /\ linked /\ wifi
    /\ UNCHANGED linkVars
    /\ EnterFlush

\* One of the three raises.
FindsLinkDead ==
    /\ pc = "maintain" /\ linked /\ wifi /\ ~alive
    /\ Lose
    /\ EnterFlush

\* _try_reconnect without WiFi: the timers are reset.
AwaitsWifi ==
    /\ pc = "maintain" /\ ~linked /\ ~wifi
    /\ wait' = 0 /\ backoff' = 1
    /\ UNCHANGED <<alive, linked, online>>
    /\ EnterFlush

BacksOff ==
    /\ pc = "maintain" /\ ~linked /\ wifi /\ wait > 0
    /\ UNCHANGED linkVars
    /\ EnterFlush

\* Seeded fault: the backoff of the outage is kept.
ReconnectsAged ==
    /\ pc = "maintain" /\ ~linked /\ wifi /\ wait = 0 /\ broker
    /\ alive' = TRUE /\ linked' = TRUE /\ online' = TRUE
    /\ UNCHANGED <<wait, backoff>>
    /\ EnterFlush

\* Seeded fault: the flag is not set again.
ReconnectsSilently ==
    /\ pc = "maintain" /\ ~linked /\ wifi /\ wait = 0 /\ broker
    /\ alive' = TRUE /\ linked' = TRUE
    /\ wait' = 0 /\ backoff' = 1
    /\ UNCHANGED online
    /\ EnterFlush

\* _establish: connect, subscribe, heartbeat; then the flag and the timers.
Reconnects ==
    /\ pc = "maintain" /\ ~linked /\ wifi /\ wait = 0 /\ broker
    /\ alive' = TRUE /\ linked' = TRUE /\ online' = TRUE
    /\ wait' = 0 /\ backoff' = 1
    /\ EnterFlush

\* Seeded fault: the doubled backoff is not capped.
AttemptFailsUncapped ==
    /\ pc = "maintain" /\ ~linked /\ wifi /\ wait = 0 /\ ~broker
    /\ wait' = backoff
    /\ backoff' = 2 * backoff
    /\ UNCHANGED <<alive, linked, online>>
    /\ EnterFlush

\* Connecting, subscribing or the first heartbeat fails; no half-open client stays.
AttemptFails ==
    /\ pc = "maintain" /\ ~linked /\ wifi /\ wait = 0 /\ ~broker
    /\ wait' = backoff
    /\ backoff' = IF 2 * backoff > BackoffCap THEN BackoffCap ELSE 2 * backoff
    /\ UNCHANGED <<alive, linked, online>>
    /\ EnterFlush

Maintain ==
    \/ LosesWifi \/ FindsLinkUp \/ FindsLinkDead
    \/ AwaitsWifi \/ BacksOff \/ Reconnects \/ AttemptFails

-----------------------------------------------------------------------------
(* The flush loop *)

Pop ==
    /\ pc = "flush" /\ budget > 0 /\ queue # <<>>
    /\ pc' = "publish"
    /\ budget' = budget - 1
    /\ holding' = Head(queue)
    /\ queue' = Tail(queue)
    /\ UNCHANGED <<netVars, linkVars, scans, delivered>>

EndFlush ==
    /\ pc = "flush" /\ (budget = 0 \/ queue = <<>>)
    /\ pc' = "maintain" /\ budget' = 0
    /\ UNCHANGED <<netVars, linkVars, holding, scanVars>>

\* publish_scan raises nothing: the broker gets the scan, unless the connection is
\* dead or there is none.
PublishScan ==
    /\ pc = "publish"
    /\ pc' = "flush" /\ holding' = 0
    /\ delivered' = IF linked /\ alive THEN Append(delivered, holding) ELSE delivered
    /\ UNCHANGED <<netVars, linkVars, budget, queue, scans>>

\* Seeded fault: the loop goes on popping although the connection is gone.
PublishFailsGoesOn ==
    /\ pc = "publish" /\ linked /\ ~alive
    /\ linked' = FALSE
    /\ pc' = "flush" /\ holding' = 0
    /\ UNCHANGED <<netVars, alive, online, wait, backoff, budget, scanVars>>

\* Seeded fault: the scan goes back to the end of the queue.
PublishFailsRequeues ==
    /\ pc = "publish" /\ linked /\ ~alive
    /\ linked' = FALSE
    /\ pc' = "maintain" /\ budget' = 0 /\ holding' = 0
    /\ queue' = Append(queue, holding)
    /\ UNCHANGED <<netVars, alive, online, wait, backoff, scans, delivered>>

\* It raises: the client is dropped with _mark_disconnected, which leaves
\* is_connected alone, and the loop breaks.  The scan it held is gone.
PublishFails ==
    /\ pc = "publish" /\ linked /\ ~alive
    /\ linked' = FALSE
    /\ pc' = "maintain" /\ budget' = 0 /\ holding' = 0
    /\ UNCHANGED <<netVars, alive, online, wait, backoff, scanVars>>

Flush == Pop \/ EndFlush \/ PublishScan

-----------------------------------------------------------------------------
(* Time and the network *)

Tick ==
    /\ wait > 0
    /\ wait' = wait - 1
    /\ UNCHANGED <<netVars, alive, linked, online, backoff, loopVars, scanVars>>

Fault == faults < MaxFaults /\ faults' = faults + 1

\* A loss of WiFi that TCP survives and the worker never sees is no event.
WifiDrops ==
    /\ Fault /\ wifi
    /\ wifi' = FALSE /\ alive' = FALSE
    /\ UNCHANGED <<broker, linked, online, wait, backoff, loopVars, scanVars>>

BrokerStops ==
    /\ Fault /\ broker
    /\ broker' = FALSE /\ alive' = FALSE
    /\ UNCHANGED <<wifi, linked, online, wait, backoff, loopVars, scanVars>>

\* The connection dies on its way (a router, a session taken over).
LinkDies ==
    /\ Fault /\ alive
    /\ alive' = FALSE
    /\ UNCHANGED <<wifi, broker, linked, online, wait, backoff, loopVars, scanVars>>

WifiReturns ==
    /\ ~wifi /\ wifi' = TRUE
    /\ UNCHANGED <<broker, faults, linkVars, loopVars, scanVars>>

BrokerReturns ==
    /\ ~broker /\ broker' = TRUE
    /\ UNCHANGED <<wifi, faults, linkVars, loopVars, scanVars>>

\* A watchdog reset or power cut: the queue lives in RAM.
Reboot ==
    /\ Fault
    /\ \E up \in BOOLEAN : (up => wifi /\ broker) /\ Booted(up)
    /\ UNCHANGED <<wifi, broker, scans, delivered>>

-----------------------------------------------------------------------------
Next ==
    \/ Scan
    \/ Maintain
    \/ Flush \/ PublishFails
    \/ Tick
    \/ WifiDrops \/ BrokerStops \/ LinkDies \/ WifiReturns \/ BrokerReturns \/ Reboot

Spec == Init /\ [][Next]_vars

\* The worker never stops; outages end; and a dead connection is found out, since
\* heartbeats go on being written to it and TCP gives up retransmitting them.
Fairness ==
    /\ WF_vars(Maintain) /\ WF_vars(Flush) /\ WF_vars(Tick)
    /\ SF_vars(FindsLinkDead)
    /\ WF_vars(WifiReturns) /\ WF_vars(BrokerReturns)

FairSpec == Spec /\ Fairness

-----------------------------------------------------------------------------
(* Properties *)

\* The queue holds the newest scans, none missing between them: an overflow gives
\* up the oldest one, whatever the worker does meanwhile.
QueueIsNewest ==
    /\ Len(queue) <= Cap /\ Len(queue) <= scans
    /\ \A i \in 1..Len(queue) : queue[i] = scans - Len(queue) + i

\* The broker receives scans in the order they were read, each at most once,
\* across reconnects, overflows and failed publishes.
InOrderOnce == \A i, j \in 1..Len(delivered) : i < j => delivered[i] < delivered[j]

\* The path of a scan, through the queue to the broker (mqtt_worker.py:30-73).
ScansInOrder == QueueIsNewest /\ InOrderOnce

\* Scans stay queued while the device is offline: without a connection a scan
\* leaves the queue only by overflow or reboot.
OfflineScansKept ==
    [][(~linked /\ Len(queue') < Len(queue)) => faults' # faults]_vars

\* Every outage starts with the shortest wait, and no wait is longer than the cap.
BackoffFresh ==
    /\ wait <= backoff /\ backoff <= BackoffCap
    /\ linked => wait = 0 /\ backoff = 1

\* When the network is well again, the device comes back, says so, and the queue
\* drains.
ComesBack == <>[](linked /\ alive /\ online /\ queue = <<>>)

\* state.py: is_connected is True only while the MQTT link is up.  Looked at right
\* after maintain(), which had the chance to notice.
OnlineMeansLinked == (pc = "flush" /\ online) => linked

\* What the invariants and OfflineScansKept need to be inductive: their typing, and that delivered
\* scans come before the one being published and both before those that wait.
IInv ==
    /\ TypeOK /\ QueueIsNewest /\ InOrderOnce /\ BackoffFresh
    /\ holding <= scans - Len(queue)
    /\ (pc = "publish") <=> (holding # 0)
    /\ (pc = "publish" \/ budget > 0) => linked
    /\ (pc = "maintain") => budget = 0
    /\ \A i \in 1..Len(delivered) :
          /\ delivered[i] <= scans - Len(queue)
          /\ holding # 0 => delivered[i] < holding
=============================================================================
