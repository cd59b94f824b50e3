------------------------------- MODULE KeySync -------------------------------
(***************************************************************************)
(* A device's key list end to end: the rows and pushes of KeyServer, the   *)
(* MQTT broker, and the three copies of Allowlist on the device.           *)
(*                                                                         *)
(* The broker keeps the last cmd_sync as the retained message of the       *)
(* device's topic, hands it over when the device subscribes, and forwards  *)
(* a new one while the device is connected (at QoS 0: a message under way  *)
(* dies with the connection).  It forgets retained messages on a restart   *)
(* (mosquitto/entrypoint.sh sets persistence false).  The device's         *)
(* heartbeat carries a checksum of its list, and the server pushes again   *)
(* when it differs from the rows: that loop is what heals every loss.      *)
(***************************************************************************)
EXTENDS KeyServer, Allowlist, Sequences

CONSTANTS
    Beat,      \* heartbeats between device and handler at once (a bound)
    MaxInbox,  \* cmd_sync messages between broker and device at once (a bound)
    MaxFaults  \* how many faults happen (a bound)

ASSUME BoundAssumption == MaxInbox \in Nat \ {0} /\ MaxFaults \in Nat

VARIABLES
    retained,  \* the retained cmd_sync of the device's topic
    account,   \* whether the device has an account at the broker
    session,   \* whether the device is connected and subscribed
    inbox,     \* cmd_sync messages forwarded and not yet handled
    beat,      \* checksums in status messages the server has not yet compared
    faults     \* faults so far

brokerVars == <<retained, account, session, inbox, beat, faults>>
vars == <<serverVars, listVars, brokerVars>>

TypeOK ==
    /\ ServerTypeOK
    /\ ListTypeOK
    /\ retained \in {None} \cup List
    /\ account \in BOOLEAN
    /\ session \in BOOLEAN
    /\ inbox \in Seq(List) /\ Len(inbox) <= MaxInbox
    /\ beat \in [Beat -> {None} \cup List]
    /\ faults \in 0..MaxFaults

Init ==
    /\ ServerInit
    /\ ListInit
    /\ retained = None
    /\ account = TRUE
    /\ session = FALSE
    /\ inbox = <<>>
    /\ beat = [b \in Beat |-> None]
    /\ faults = 0

Fault == faults < MaxFaults /\ faults' = faults + 1

-----------------------------------------------------------------------------
(* Server to device *)

\* publishToDevice with retain: the broker replaces the retained message and
\* forwards a copy to a connected device.
Publish(p) ==
    /\ EndPush(p)
    /\ retained' = push[p].uids
    /\ IF session
       THEN Len(inbox) < MaxInbox /\ inbox' = Append(inbox, push[p].uids)
       ELSE UNCHANGED inbox
    /\ UNCHANGED <<listVars, account, session, beat, faults>>

\* Seeded fault: two overlapping subscriptions, so the retained message comes twice.
ConnectOverlapping ==
    /\ account /\ ~session /\ wpc = "idle"
    /\ session' = TRUE
    /\ inbox' = IF retained = None THEN <<>> ELSE <<retained, retained>>
    /\ UNCHANGED <<serverVars, listVars, retained, account, beat, faults>>

\* _establish: connect, subscribe to cmd/#, and receive what is retained.  The
\* heartbeat that follows is StartHeartbeat.
Connect ==
    /\ account /\ ~session /\ wpc = "idle"
    /\ session' = TRUE
    /\ inbox' = IF retained = None THEN <<>> ELSE <<retained>>
    /\ UNCHANGED <<serverVars, listVars, retained, account, beat, faults>>

\* The broker refuses a device without an account, which tries again later.
ConnectRefused == ~account /\ ~session /\ wpc = "idle" /\ UNCHANGED vars

\* check_msg dispatches the next cmd_sync to on_sync_keys.
DeliverSync ==
    /\ session /\ inbox # <<>>
    /\ SyncKeys(Head(inbox))
    /\ inbox' = Tail(inbox)
    /\ UNCHANGED <<serverVars, retained, account, session, beat, faults>>

-----------------------------------------------------------------------------
(* Device to server *)

\* (The bound on heartbeats under way is met here, never with the worker waiting.)
StartHeartbeat ==
    /\ session
    /\ \E b \in Beat : beat[b] = None
    /\ BeginHeartbeat
    /\ UNCHANGED <<serverVars, brokerVars>>

SendHeartbeat(b) ==
    /\ session /\ beat[b] = None
    /\ HeartbeatSent
    /\ beat' = [beat EXCEPT ![b] = checksum]
    /\ UNCHANGED <<serverVars, retained, account, session, inbox, faults>>

\* The publish raises because the connection is gone.
HeartbeatDropped ==
    /\ ~session
    /\ HeartbeatSent
    /\ UNCHANGED <<serverVars, brokerVars>>

\* Seeded fault: the comparison is skipped, every heartbeat is taken to match.
HandleHeartbeatBlind(b) ==
    /\ beat[b] # None
    /\ beat' = [beat EXCEPT ![b] = None]
    /\ UNCHANGED <<serverVars, listVars, retained, account, session, inbox, faults>>

\* handleHeartbeat compares the checksum with the rows, read in one query, and
\* pushes on a mismatch.
HandleHeartbeat(b) ==
    /\ beat[b] # None
    /\ beat' = [beat EXCEPT ![b] = None]
    /\ IF deviceRow = "deleted" \/ ChecksumMatches(beat[b])
       THEN UNCHANGED push
       ELSE \E p \in Push : StartPush(p)
    /\ UNCHANGED <<rowVars, listVars, retained, account, session, inbox, faults>>

-----------------------------------------------------------------------------
(* Faults *)

BreakSession == session' = FALSE /\ inbox' = <<>>

Disconnect ==
    /\ session
    /\ BreakSession
    /\ UNCHANGED <<serverVars, listVars, retained, account, beat>>

BrokerRestart ==
    /\ retained' = None
    /\ BreakSession
    /\ UNCHANGED <<serverVars, listVars, account, beat>>

DeviceReboot ==
    /\ Reboot
    /\ BreakSession
    /\ UNCHANGED <<serverVars, retained, account, beat>>

\* A status message is lost, or its handler rejects before the comparison.
LoseHeartbeat(b) ==
    /\ beat[b] # None
    /\ beat' = [beat EXCEPT ![b] = None]
    /\ UNCHANGED <<serverVars, listVars, retained, account, session, inbox>>

FailPush(p) ==
    /\ PushFails(p)
    /\ UNCHANGED <<listVars, retained, account, session, inbox, beat>>

FailSave ==
    /\ SaveFails
    /\ UNCHANGED <<serverVars, retained, account, session, inbox, beat>>

FaultStep ==
    /\ Fault
    /\ \/ Disconnect \/ BrokerRestart \/ DeviceReboot \/ FailSave
       \/ \E b \in Beat : LoseHeartbeat(b)
       \/ \E p \in Push : FailPush(p)

\* deleteDeviceMqttUser runs once the device row is deleted: the broker drops the
\* account and with it the connection.  Its errors are ignored, so it may as well
\* never happen.
Evict ==
    /\ deviceRow = "deleted" /\ account
    /\ account' = FALSE
    /\ BreakSession
    /\ UNCHANGED <<serverVars, listVars, retained, beat, faults>>

-----------------------------------------------------------------------------
EditStep == Edit /\ UNCHANGED <<listVars, brokerVars>>
PushStep(p) == (ServerRead(p) /\ UNCHANGED <<listVars, brokerVars>>) \/ Publish(p)
Worker == WorkerStep /\ UNCHANGED <<serverVars, brokerVars>>
Reader == ReaderStep /\ UNCHANGED <<serverVars, brokerVars>>

Next ==
    \/ EditStep
    \/ \E p \in Push : PushStep(p)
    \/ \E b \in Beat : SendHeartbeat(b) \/ HandleHeartbeat(b)
    \/ Connect \/ ConnectRefused \/ DeliverSync
    \/ StartHeartbeat \/ HeartbeatDropped \/ Evict
    \/ Worker \/ Reader
    \/ FaultStep

Spec == Init /\ [][Next]_vars

\* The worker's loop calls check_msg in every iteration and heartbeats only every
\* five seconds, so a waiting cmd_sync is handled however often heartbeats start.
Fairness ==
    /\ \A p \in Push : WF_vars(PushStep(p))
    /\ \A b \in Beat : WF_vars(HandleHeartbeat(b))
    /\ WF_vars(\E b \in Beat : SendHeartbeat(b))
    /\ WF_vars(Connect) /\ WF_vars(StartHeartbeat) /\ WF_vars(HeartbeatDropped)
    /\ SF_vars(DeliverSync)
    /\ WF_vars(Worker) /\ WF_vars(Reader)

FairSpec == Spec /\ Fairness

-----------------------------------------------------------------------------
(* Properties *)

\* No list on its way to the device, at the broker or on the device names a uid
\* the rows never admitted, although a push joins access rows and key rows it
\* read at different times.
NeverGrantedNeverListed ==
    /\ \A p \in Push : push[p].uids \subseteq granted
    /\ retained # None => retained \subseteq granted
    /\ \A i \in 1..Len(inbox) : inbox[i] \subseteq granted
    /\ flash \cup wlist \cup rlist \cup Enforced \subseteq granted

\* When requests and faults are over, a device that was not deleted ends up with
\* exactly the list the rows admit, whatever was lost, reordered or interrupted:
\* the convergence the teststand's many-keys test waits for.  And the exchange
\* dies down: a heartbeat with a matching checksum pushes no sync.
Settles == <>[](NoPushInFlight /\ (deviceRow = "live" => Enforced = Allowed))

\* Between what a push has read and what the rows say: no row order or tombstone
\* lets a uid into a list unless key and access were once live together.
RowsInOrder ==
    /\ Allowed \subseteq granted
    /\ \A a \in Access : accessRow[a] # "absent" => keyRow[KeyOf[a]] # "absent"
    /\ \A p \in Push : \A k \in push[p].keys :
          /\ keyRow[k] # "absent"
          /\ keyRow[k] = "live" => UidOf[k] \in granted

IInv == TypeOK /\ RowsInOrder /\ NeverGrantedNeverListed

\* The rows, the pushes, the broker and the device together keep the promise of
\* AccessControl.
Promise == INSTANCE AccessControl
             WITH allowed <- Allowed, enforced <- Enforced, inService <- deviceRow = "live"

KeepsPromise == Promise!Spec
=============================================================================
