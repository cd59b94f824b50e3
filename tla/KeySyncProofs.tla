---------------------------- MODULE KeySyncProofs ----------------------------
(***************************************************************************)
(* Proofs about KeySync for any cards, keys, access rows, bounds and boot: *)
(* type correctness, the invariant that no list names a uid that was never *)
(* granted, the refinement of AccessControl's safety part, and the copies  *)
(* of the list on the device.                                              *)
(***************************************************************************)
EXTENDS KeySync, SequenceTheorems, TLAPS

USE DEF List

-----------------------------------------------------------------------------
(* Type correctness, part by part: the rows and pushes, the device, the rest. *)

\* Every step of an administrator or of a push keeps the types of the server.
LEMMA ServerTypes ==
    ASSUME ServerTypeOK,
           \/ Edit
           \/ \E p \in Push : ServerRead(p) \/ EndPush(p) \/ PushFails(p)
           \/ \E p \in Push : StartPush(p) /\ UNCHANGED rowVars
           \/ UNCHANGED serverVars
    PROVE  ServerTypeOK'
<1> USE RowAssumption, EditAssumption
    DEF ServerTypeOK, PushState, RowState, rowVars, NoPush
<1>1. ASSUME NEW k \in Key, PutKey(k) \/ DeleteKey(k) PROVE ServerTypeOK'
  BY <1>1 DEF PutKey, DeleteKey, Request, Allowed, Admitting
<1>2. ASSUME NEW p \in Push, NEW a \in Access, PutAccess(p, a) \/ DeleteAccess(p, a)
      PROVE  ServerTypeOK'
  BY <1>2 DEF PutAccess, DeleteAccess, Request, StartPush, Allowed, Admitting
<1>3. ASSUME NEW p \in Push, ForceSync(p) PROVE ServerTypeOK'
  BY <1>3 DEF ForceSync, Request, StartPush
<1>4. CASE DeleteDevice
  BY <1>4 DEF DeleteDevice, Request
<1>5. ASSUME NEW p \in Push, ServerRead(p) PROVE ServerTypeOK'
  BY <1>5 DEF ServerRead, ReadDevice, ReadAccess, ReadKeys
<1>6. ASSUME NEW p \in Push, EndPush(p) \/ PushFails(p) PROVE ServerTypeOK'
  BY <1>6 DEF EndPush, PushFails
<1>7. ASSUME NEW p \in Push, StartPush(p), UNCHANGED rowVars PROVE ServerTypeOK'
  BY <1>7 DEF StartPush
<1>8. CASE UNCHANGED serverVars
  BY <1>8 DEF serverVars
<1> QED
  BY <1>1, <1>2, <1>3, <1>4, <1>5, <1>6, <1>7, <1>8 DEF Edit

\* Every step of the worker, of the reader and of a boot keeps the types of the
\* device, as long as the list that is synced is one.
LEMMA ListTypes ==
    ASSUME ListTypeOK,
           \/ \E keys \in List : SyncKeys(keys)
           \/ SaveFails \/ BeginHeartbeat \/ HeartbeatSent
           \/ WorkerStep \/ ReaderStep \/ Reboot
           \/ UNCHANGED listVars
    PROVE  ListTypeOK'
<1> USE DEF ListTypeOK
<1>1. CASE \E keys \in List : SyncKeys(keys)
  BY <1>1 DEF SyncKeys
<1>2. CASE SaveFails \/ BeginHeartbeat \/ HeartbeatSent
  BY <1>2 DEF SaveFails, BeginHeartbeat, HeartbeatSent
<1>3. CASE WorkerStep
  BY <1>3 DEF WorkerStep, SaveList, SwapRam, DropChecksum, WorkerLoads, WorkerAssigns, HashList
<1>4. CASE ReaderStep
  BY <1>4 DEF ReaderStep, ReaderFindsUnset, ReaderLoads, ReaderAssigns
<1>5. CASE Reboot
  BY <1>5 DEF Reboot, BootedWith
<1>6. CASE UNCHANGED listVars
  BY <1>6 DEF listVars
<1> QED
  BY <1>1, <1>2, <1>3, <1>4, <1>5, <1>6

-----------------------------------------------------------------------------
(* How a step of the composition acts on each of its parts. *)

\* Seen from the server, every step is an edit, a step of a push, the start of
\* one by a heartbeat, or nothing.
LEMMA ServerView ==
    ASSUME [Next]_vars
    PROVE  \/ Edit
           \/ \E p \in Push : ServerRead(p) \/ EndPush(p) \/ PushFails(p)
           \/ \E p \in Push : StartPush(p) /\ UNCHANGED rowVars
           \/ UNCHANGED serverVars
<1>1. CASE EditStep
  BY <1>1 DEF EditStep
<1>2. ASSUME NEW p \in Push, PushStep(p) PROVE ServerRead(p) \/ EndPush(p)
  BY <1>2 DEF PushStep, Publish
<1>3. ASSUME NEW b \in Beat, SendHeartbeat(b) PROVE UNCHANGED serverVars
  BY <1>3 DEF SendHeartbeat
<1>4. ASSUME NEW b \in Beat, HandleHeartbeat(b)
      PROVE  (\E p \in Push : StartPush(p) /\ UNCHANGED rowVars) \/ UNCHANGED serverVars
  BY <1>4 DEF HandleHeartbeat, serverVars, rowVars
<1>5. CASE Connect \/ ConnectRefused \/ DeliverSync \/ StartHeartbeat \/ HeartbeatDropped \/ Evict
  BY <1>5 DEF Connect, ConnectRefused, DeliverSync, StartHeartbeat, HeartbeatDropped, Evict, vars
<1>6. CASE Worker \/ Reader
  BY <1>6 DEF Worker, Reader
<1>7. CASE FaultStep
  BY <1>7 DEF FaultStep, Disconnect, BrokerRestart, DeviceReboot, FailSave, LoseHeartbeat, FailPush
<1>8. CASE UNCHANGED vars
  BY <1>8 DEF vars
<1> QED
  BY <1>1, <1>2, <1>3, <1>4, <1>5, <1>6, <1>7, <1>8 DEF Next

\* Seen from the device, every step is one of its threads', a list being handed
\* over, a boot, or nothing.
LEMMA ListView ==
    ASSUME TypeOK, [Next]_vars
    PROVE  \/ \E keys \in List : DeliverSync /\ SyncKeys(keys) /\ keys = inbox[1]
           \/ SaveFails \/ BeginHeartbeat \/ HeartbeatSent
           \/ WorkerStep \/ ReaderStep \/ Reboot
           \/ UNCHANGED listVars
<1>1. CASE DeliverSync
  <2>1. Head(inbox) \in List /\ Head(inbox) = inbox[1]
    BY <1>1 DEF DeliverSync, TypeOK
  <2> QED
    BY <1>1, <2>1 DEF DeliverSync
<1>2. CASE EditStep \/ Connect \/ ConnectRefused \/ Evict \/ StartHeartbeat \/ HeartbeatDropped
  BY <1>2 DEF EditStep, Connect, ConnectRefused, Evict, StartHeartbeat, HeartbeatDropped, vars
<1>3. ASSUME NEW p \in Push, PushStep(p) PROVE UNCHANGED listVars
  BY <1>3 DEF PushStep, Publish
<1>4. ASSUME NEW b \in Beat, SendHeartbeat(b) \/ HandleHeartbeat(b)
      PROVE  HeartbeatSent \/ UNCHANGED listVars
  BY <1>4 DEF SendHeartbeat, HandleHeartbeat
<1>5. CASE Worker \/ Reader
  BY <1>5 DEF Worker, Reader
<1>6. CASE FaultStep
  BY <1>6 DEF FaultStep, Disconnect, BrokerRestart, DeviceReboot, FailSave, LoseHeartbeat, FailPush
<1>7. CASE UNCHANGED vars
  BY <1>7 DEF vars
<1> QED
  BY <1>1, <1>2, <1>3, <1>4, <1>5, <1>6, <1>7 DEF Next

\* The broker's part of the type invariant.
BrokerTypeOK ==
    /\ retained \in {None} \cup List
    /\ account \in BOOLEAN
    /\ session \in BOOLEAN
    /\ inbox \in Seq(List) /\ Len(inbox) <= MaxInbox
    /\ beat \in [Beat -> {None} \cup List]
    /\ faults \in 0..MaxFaults

LEMMA BrokerTypes ==
    ASSUME TypeOK, [Next]_vars
    PROVE  BrokerTypeOK'
<1> USE BoundAssumption DEF BrokerTypeOK, TypeOK
<1>1. ASSUME NEW p \in Push, PushStep(p) PROVE BrokerTypeOK'
  <2>1. push[p].uids \in List
    BY DEF ServerTypeOK, PushState
  <2>2. CASE Publish(p) /\ session
    <3>1. inbox' = Append(inbox, push[p].uids) /\ Len(inbox) < MaxInbox
      BY <2>2 DEF Publish
    <3>2. inbox' \in Seq(List) /\ Len(inbox') = Len(inbox) + 1
      BY <2>1, <3>1, AppendProperties
    <3>3. Len(inbox') <= MaxInbox
      BY <3>1, <3>2
    <3>4. retained' \in List
      BY <2>1, <2>2 DEF Publish
    <3> QED
      BY <2>2, <3>2, <3>3, <3>4 DEF Publish
  <2>3. CASE Publish(p) /\ ~session
    BY <2>1, <2>3 DEF Publish
  <2> QED
    BY <1>1, <2>2, <2>3 DEF PushStep, brokerVars
<1>2. CASE Connect
  <2>1. inbox' \in Seq(List) /\ Len(inbox') <= MaxInbox
    <3>1. CASE retained = None
      <4>1. inbox' = <<>>
        BY <1>2, <3>1 DEF Connect
      <4> QED
        BY <4>1
    <3>2. CASE retained \in List
      <4>1. inbox' = <<retained>>
        BY <1>2, <3>2, NoneAssumption DEF Connect
      <4> QED
        BY <3>2, <4>1
    <3> QED
      BY <3>1, <3>2
  <2> QED
    BY <1>2, <2>1 DEF Connect
<1>3. CASE DeliverSync
  BY <1>3 DEF DeliverSync
<1>4. ASSUME NEW b \in Beat, SendHeartbeat(b) \/ HandleHeartbeat(b) PROVE BrokerTypeOK'
  BY <1>4 DEF SendHeartbeat, HandleHeartbeat, ListTypeOK
<1>5. CASE FaultStep \/ Evict
  <2>1. inbox' = <<>> \/ inbox' = inbox
    BY <1>5 DEF FaultStep, BreakSession, Disconnect, BrokerRestart, DeviceReboot, FailSave,
                LoseHeartbeat, FailPush, Evict
  <2>2. inbox' \in Seq(List) /\ Len(inbox') <= MaxInbox
    <3>1. CASE inbox' = <<>>
      BY <3>1
    <3> QED
      BY <2>1, <3>1
  <2>3. retained' \in {None} \cup List /\ account' \in BOOLEAN /\ session' \in BOOLEAN
    BY <1>5 DEF FaultStep, BreakSession, Disconnect, BrokerRestart, DeviceReboot, FailSave,
                LoseHeartbeat, FailPush, Evict
  <2>4. beat' \in [Beat -> {None} \cup List]
    BY <1>5 DEF FaultStep, BreakSession, Disconnect, BrokerRestart, DeviceReboot, FailSave,
                LoseHeartbeat, FailPush, Evict
  <2>5. faults' \in 0..MaxFaults
    BY <1>5 DEF FaultStep, Fault, Evict
  <2> QED
    BY <2>2, <2>3, <2>4, <2>5
<1>6. CASE EditStep \/ ConnectRefused \/ StartHeartbeat \/ HeartbeatDropped
           \/ Worker \/ Reader \/ UNCHANGED vars
  BY <1>6 DEF EditStep, ConnectRefused, StartHeartbeat, HeartbeatDropped, Worker, Reader,
              vars, brokerVars
<1> QED
  BY <1>1, <1>2, <1>3, <1>4, <1>5, <1>6 DEF Next

LEMMA TypeInit == Init => TypeOK
<1> SUFFICES ASSUME Init PROVE TypeOK
  OBVIOUS
<1>1. ServerTypeOK
  BY EditAssumption DEF Init, ServerInit, ServerTypeOK, PushState, NoPush, RowState
<1>2. ListTypeOK
  BY DEF Init, ListInit, ListTypeOK
<1>3. inbox \in Seq(List) /\ Len(inbox) <= MaxInbox
  <2>1. inbox = <<>>
    BY DEF Init
  <2> QED
    BY <2>1, BoundAssumption
<1>4. beat \in [Beat -> {None} \cup List] /\ faults \in 0..MaxFaults
  <2>1. beat = [b \in Beat |-> None] /\ faults = 0
    BY DEF Init
  <2> QED
    BY <2>1, BoundAssumption
<1>5. retained = None /\ account = TRUE /\ session = FALSE
  BY DEF Init
<1> QED
  BY <1>1, <1>2, <1>3, <1>4, <1>5 DEF TypeOK

LEMMA TypeStep == TypeOK /\ [Next]_vars => TypeOK'
<1> SUFFICES ASSUME TypeOK, [Next]_vars PROVE TypeOK'
  OBVIOUS
<1>1. ServerTypeOK'
  BY ServerView, ServerTypes DEF TypeOK
<1>2. ListTypeOK'
  BY ListView, ListTypes DEF TypeOK
<1>3. BrokerTypeOK'
  BY BrokerTypes
<1> QED
  BY <1>1, <1>2, <1>3 DEF TypeOK, BrokerTypeOK

\* The types hold in every reachable state, for any constants.
THEOREM Typing == Spec => []TypeOK
BY TypeInit, TypeStep, PTL DEF Spec

-----------------------------------------------------------------------------
(* The rows, the history and what the pushes have read. *)

\* What the pushes in flight hold was granted.
PushesGranted == \A p \in Push : push[p].uids \subseteq granted

\* granted only grows, and no row ever goes back to absent, nor from deleted to
\* live: what a push has read stays covered by the history.
LEMMA RowsMove ==
    ASSUME ServerTypeOK, [Next]_vars
    PROVE  /\ granted \subseteq granted'
           /\ \A k \in Key : keyRow[k] # "absent" =>
                 keyRow'[k] # "absent" /\ (keyRow'[k] = "live" => keyRow[k] = "live")
<1> USE DEF ServerTypeOK, RowState
<1>1. ASSUME NEW k \in Key, PutKey(k) \/ DeleteKey(k)
      PROVE  /\ granted \subseteq granted'
             /\ \A j \in Key : keyRow[j] # "absent" =>
                   keyRow'[j] # "absent" /\ (keyRow'[j] = "live" => keyRow[j] = "live")
  BY <1>1 DEF PutKey, DeleteKey
<1>2. ASSUME NEW p \in Push, NEW a \in Access, PutAccess(p, a) \/ DeleteAccess(p, a)
      PROVE  granted \subseteq granted' /\ keyRow' = keyRow
  BY <1>2 DEF PutAccess, KeyPosted, DeleteAccess
<1>3. ASSUME \/ \E p \in Push : ForceSync(p)
             \/ DeleteDevice
             \/ \E p \in Push : ServerRead(p) \/ EndPush(p) \/ PushFails(p)
             \/ \E p \in Push : StartPush(p) /\ UNCHANGED rowVars
             \/ UNCHANGED serverVars
      PROVE  granted' = granted /\ keyRow' = keyRow
  BY <1>3 DEF ForceSync, DeleteDevice, ServerRead, ReadDevice, ReadAccess, ReadKeys, EndPush,
              PushFails, rowVars, serverVars
<1> QED
  BY <1>1, <1>2, <1>3, ServerView DEF Edit

\* Every step keeps the admitting rows inside the history and the key of an access
\* row present.
LEMMA RowsStep ==
    ASSUME ServerTypeOK, RowsInOrder, [Next]_vars
    PROVE  /\ Allowed' \subseteq granted'
           /\ \A a \in Access : accessRow'[a] # "absent" => keyRow'[KeyOf[a]] # "absent"
<1> DEFINE Goal == /\ Allowed' \subseteq granted'
                   /\ \A a \in Access : accessRow'[a] # "absent" => keyRow'[KeyOf[a]] # "absent"
<1> USE RowAssumption DEF ServerTypeOK, RowState, RowsInOrder
<1>1. ASSUME NEW k \in Key, PutKey(k) PROVE Goal
  BY <1>1 DEF PutKey
<1>2. ASSUME NEW k \in Key, DeleteKey(k) PROVE Goal
  <2>1. Admitting' \subseteq Admitting /\ granted' = granted
    BY <1>2 DEF DeleteKey, Admitting
  <2> QED
    BY <1>2, <2>1 DEF DeleteKey, Allowed
<1>3. ASSUME NEW p \in Push, NEW a \in Access, PutAccess(p, a) PROVE Goal
  BY <1>3 DEF PutAccess, KeyPosted
<1>4. ASSUME NEW p \in Push, NEW a \in Access, DeleteAccess(p, a) PROVE Goal
  <2>1. Admitting' \subseteq Admitting /\ granted' = granted
    BY <1>4 DEF DeleteAccess, Admitting
  <2> QED
    BY <1>4, <2>1 DEF DeleteAccess, Allowed
<1>5. ASSUME \/ \E p \in Push : ForceSync(p)
             \/ DeleteDevice
             \/ \E p \in Push : ServerRead(p) \/ EndPush(p) \/ PushFails(p)
             \/ \E p \in Push : StartPush(p) /\ UNCHANGED rowVars
             \/ UNCHANGED serverVars
      PROVE  Goal
  <2>1. keyRow' = keyRow /\ accessRow' = accessRow /\ granted' = granted
    BY <1>5 DEF ForceSync, DeleteDevice, ServerRead, ReadDevice, ReadAccess, ReadKeys, EndPush,
                PushFails, rowVars, serverVars
  <2> QED
    BY <2>1 DEF Allowed, Admitting
<1> QED
  BY <1>1, <1>2, <1>3, <1>4, <1>5, ServerView DEF Edit

\* Every step keeps what a push has read covered: the keys it took from the access
\* rows, and the uids it took from those of them that were live.
LEMMA PushesStep ==
    ASSUME ServerTypeOK, RowsInOrder, PushesGranted, [Next]_vars
    PROVE  /\ \A p \in Push : \A k \in push'[p].keys :
                 /\ keyRow'[k] # "absent"
                 /\ keyRow'[k] = "live" => UidOf[k] \in granted'
           /\ PushesGranted'
<1> USE RowAssumption DEF ServerTypeOK, PushState
<1> DEFINE Held(keys) == \A k \in keys : /\ keyRow[k] # "absent"
                                         /\ keyRow[k] = "live" => UidOf[k] \in granted
           Covered(r) == Held(r.keys) /\ r.uids \subseteq granted
<1>1. \A p \in Push : Covered(push[p])
  BY DEF RowsInOrder, PushesGranted
<1>2. \A p \in Push : Covered(push'[p])
  <2>1. ASSUME NEW p \in Push, ReadAccess(p), NEW q \in Push PROVE Covered(push'[q])
    <3>1. CASE q # p
      BY <2>1, <3>1, <1>1 DEF ReadAccess
    <3>2. CASE q = p
      <4>1. /\ push'[p].keys = {KeyOf[a] : a \in {b \in Access : accessRow[b] = "live"}}
            /\ push'[p].uids = push[p].uids
        BY <2>1 DEF ReadAccess
      <4>2. ASSUME NEW a \in Access, accessRow[a] = "live", keyRow[KeyOf[a]] = "live"
            PROVE  UidOf[KeyOf[a]] \in granted
        BY <4>2 DEF RowsInOrder, Allowed, Admitting
      <4> QED
        BY <3>2, <4>1, <4>2, <1>1 DEF RowsInOrder
    <3> QED
      BY <3>1, <3>2
  <2>2. ASSUME NEW p \in Push, ReadKeys(p), NEW q \in Push PROVE Covered(push'[q])
    <3>1. CASE q # p
      BY <2>2, <3>1, <1>1 DEF ReadKeys
    <3>2. CASE q = p
      <4>1. /\ push'[p].keys = push[p].keys
            /\ push'[p].uids = {UidOf[k] : k \in {j \in push[p].keys : keyRow[j] = "live"}}
        BY <2>2 DEF ReadKeys
      <4> QED
        BY <3>2, <4>1, <1>1
    <3> QED
      BY <3>1, <3>2
  <2>3. ASSUME NEW p \in Push, ReadDevice(p) \/ EndPush(p) \/ PushFails(p) \/ StartPush(p),
               NEW q \in Push
        PROVE  Covered(push'[q])
    <3>1. \/ push'[q].keys = push[q].keys /\ push'[q].uids = push[q].uids
          \/ push'[q].keys = {} /\ push'[q].uids = {}
      BY <2>3 DEF ReadDevice, EndPush, PushFails, StartPush, NoPush
    <3> QED
      BY <3>1, <1>1
  <2>4. ASSUME push' = push, NEW q \in Push PROVE Covered(push'[q])
    BY <2>4, <1>1
  <2>5. \/ push' = push
        \/ \E p \in Push : ServerRead(p) \/ EndPush(p) \/ PushFails(p) \/ StartPush(p)
    <3>1. ASSUME NEW k \in Key, PutKey(k) \/ DeleteKey(k) PROVE push' = push
      BY <3>1 DEF PutKey, DeleteKey
    <3>2. ASSUME NEW p \in Push, NEW a \in Access, PutAccess(p, a) \/ DeleteAccess(p, a)
          PROVE  StartPush(p)
      BY <3>2 DEF PutAccess, DeleteAccess
    <3>3. ASSUME NEW p \in Push, ForceSync(p) PROVE StartPush(p)
      BY <3>3 DEF ForceSync
    <3>4. CASE DeleteDevice
      BY <3>4 DEF DeleteDevice
    <3> QED
      BY <3>1, <3>2, <3>3, <3>4, ServerView DEF Edit, serverVars
  <2> QED
    BY <2>1, <2>2, <2>3, <2>4, <2>5 DEF ServerRead
<1>3. ASSUME NEW p \in Push, NEW k \in push'[p].keys
      PROVE  keyRow'[k] # "absent" /\ (keyRow'[k] = "live" => UidOf[k] \in granted')
  <2>1. k \in Key
    BY ServerView, ServerTypes DEF ServerTypeOK, PushState
  <2> QED
    BY <1>2, <2>1, RowsMove
<1>4. PushesGranted'
  BY <1>2, RowsMove DEF PushesGranted
<1> QED
  BY <1>3, <1>4

-----------------------------------------------------------------------------
(* The lists at the broker and on the device. *)

\* A step of the device leaves every list it holds inside the history, provided
\* the list it is handed is inside.
LEMMA DeviceStep ==
    ASSUME TypeOK, NeverGrantedNeverListed, [Next]_vars
    PROVE  flash' \cup wlist' \cup rlist' \cup Enforced' \subseteq granted
<1> USE DEF Enforced, NeverGrantedNeverListed
<1>1. ASSUME NEW keys \in List, DeliverSync, SyncKeys(keys), keys = inbox[1]
      PROVE  flash' \cup wlist' \cup rlist' \cup Enforced' \subseteq granted
  <2>1. 1 \in 1..Len(inbox)
    BY <1>1 DEF DeliverSync, TypeOK
  <2>2. keys \subseteq granted
    BY <1>1, <2>1
  <2> QED
    BY <1>1, <2>2 DEF SyncKeys
<1>2. CASE SaveFails \/ BeginHeartbeat \/ HeartbeatSent
  BY <1>2 DEF SaveFails, BeginHeartbeat, HeartbeatSent
<1>3. CASE WorkerStep
  BY <1>3, NoneAssumption
     DEF WorkerStep, SaveList, SwapRam, DropChecksum, WorkerLoads, WorkerAssigns, HashList
<1>4. CASE ReaderStep
  BY <1>4 DEF ReaderStep, ReaderFindsUnset, ReaderLoads, ReaderAssigns
<1>5. CASE Reboot
  BY <1>5 DEF Reboot, BootedWith
<1>6. CASE UNCHANGED listVars
  BY <1>6 DEF listVars
<1> QED
  BY <1>1, <1>2, <1>3, <1>4, <1>5, <1>6, ListView

\* So does every step for the retained list and the lists under way.
LEMMA BrokerStep ==
    ASSUME TypeOK, NeverGrantedNeverListed, [Next]_vars
    PROVE  /\ retained' # None => retained' \subseteq granted
           /\ \A i \in 1..Len(inbox') : inbox'[i] \subseteq granted
<1> DEFINE Goal == /\ retained' # None => retained' \subseteq granted
                   /\ \A i \in 1..Len(inbox') : inbox'[i] \subseteq granted
<1> USE DEF NeverGrantedNeverListed, TypeOK
<1>1. ASSUME NEW p \in Push, Publish(p) PROVE Goal
  <2>1. retained' = push[p].uids /\ retained' \subseteq granted
    BY <1>1 DEF Publish
  <2>2. push[p].uids \in List
    BY DEF ServerTypeOK, PushState
  <2>3. CASE inbox' = inbox
    BY <2>1, <2>3
  <2>4. CASE inbox' = Append(inbox, push[p].uids)
    BY <2>1, <2>2, <2>4
  <2> QED
    BY <1>1, <2>3, <2>4 DEF Publish
<1>2. CASE Connect
  <2>1. CASE retained = None
    <3>1. inbox' = <<>> /\ retained' = None
      BY <1>2, <2>1 DEF Connect
    <3> QED
      BY <3>1
  <2>2. CASE retained # None
    <3>1. inbox' = <<retained>> /\ retained' = retained
      BY <1>2, <2>2 DEF Connect
    <3> QED
      BY <2>2, <3>1
  <2> QED
    BY <2>1, <2>2
<1>3. CASE DeliverSync
  BY <1>3 DEF DeliverSync
<1>4. CASE FaultStep \/ Evict
  <2>1. inbox' = <<>> \/ inbox' = inbox
    BY <1>4 DEF FaultStep, BreakSession, Disconnect, BrokerRestart, DeviceReboot, FailSave,
                LoseHeartbeat, FailPush, Evict
  <2>2. retained' = None \/ retained' = retained
    BY <1>4 DEF FaultStep, BreakSession, Disconnect, BrokerRestart, DeviceReboot, FailSave,
                LoseHeartbeat, FailPush, Evict
  <2>3. \A i \in 1..Len(inbox') : inbox'[i] \subseteq granted
    <3>1. CASE inbox' = <<>>
      BY <3>1
    <3> QED
      BY <2>1, <3>1
  <2> QED
    BY <2>2, <2>3
<1>5. ASSUME NEW b \in Beat, SendHeartbeat(b) \/ HandleHeartbeat(b)
      PROVE  inbox' = inbox /\ retained' = retained
  BY <1>5 DEF SendHeartbeat, HandleHeartbeat
<1>6. ASSUME \/ EditStep \/ ConnectRefused \/ StartHeartbeat \/ HeartbeatDropped
             \/ Worker \/ Reader \/ UNCHANGED vars
             \/ \E p \in Push : ServerRead(p) /\ UNCHANGED <<listVars, brokerVars>>
      PROVE  inbox' = inbox /\ retained' = retained
  BY <1>6 DEF EditStep, ConnectRefused, StartHeartbeat, HeartbeatDropped, Worker, Reader,
              vars, brokerVars
<1> QED
  BY <1>1, <1>2, <1>3, <1>4, <1>5, <1>6 DEF Next, PushStep

LEMMA InvInit == Init => IInv
<1> SUFFICES ASSUME Init PROVE IInv
  OBVIOUS
<1>1. RowsInOrder
  BY RowAssumption DEF Init, ServerInit, RowsInOrder, NoPush, Allowed, Admitting
<1>2. retained = None /\ inbox = <<>> /\ ListInit /\ ServerInit
  BY DEF Init
<1>3. \A i \in 1..Len(inbox) : inbox[i] \subseteq granted
  BY <1>2
<1>4. NeverGrantedNeverListed
  BY <1>2, <1>3 DEF ListInit, ServerInit, NoPush, NeverGrantedNeverListed, Enforced
<1> QED
  BY <1>1, <1>4, TypeInit DEF IInv

LEMMA InvStep == IInv /\ [Next]_vars => IInv'
<1> SUFFICES ASSUME TypeOK, RowsInOrder, NeverGrantedNeverListed, [Next]_vars PROVE IInv'
  BY DEF IInv
<1>1. ServerTypeOK /\ PushesGranted
  BY DEF TypeOK, PushesGranted, NeverGrantedNeverListed
<1>2. RowsInOrder'
  BY <1>1, RowsStep, PushesStep DEF RowsInOrder
<1>3. granted \subseteq granted'
  BY <1>1, RowsMove
<1>4. NeverGrantedNeverListed'
  <2>1. \A p \in Push : push'[p].uids \subseteq granted'
    BY <1>1, PushesStep DEF PushesGranted
  <2>2. retained' # None => retained' \subseteq granted'
    BY <1>3, BrokerStep
  <2>3. \A i \in 1..Len(inbox') : inbox'[i] \subseteq granted'
    BY <1>3, BrokerStep
  <2>4. flash' \cup wlist' \cup rlist' \cup Enforced' \subseteq granted'
    BY <1>3, DeviceStep
  <2> QED
    BY <2>1, <2>2, <2>3, <2>4 DEF NeverGrantedNeverListed
<1> QED
  BY <1>2, <1>4, TypeStep DEF IInv

\* In every reachable state, whatever the interleaving of edits, pushes, threads
\* and faults, no list anywhere names a uid that was never granted.
THEOREM OnlyGranted == Spec => []NeverGrantedNeverListed
<1>1. Spec => []IInv
  BY InvInit, InvStep, PTL DEF Spec
<1>2. IInv => NeverGrantedNeverListed
  BY DEF IInv
<1> QED
  BY <1>1, <1>2, PTL

-----------------------------------------------------------------------------
(* Refinement of AccessControl. *)

LEMMA PromiseInit == Init => Promise!Init
BY DEF Init, ServerInit, ListInit, Promise!Init, Allowed, Admitting, Enforced

\* granted takes in whatever becomes allowed.
LEMMA EditView ==
    ASSUME TypeOK, RowsInOrder, Edit
    PROVE  \/ /\ Allowed' \in List
              /\ granted' = granted \cup Allowed'
              /\ deviceRow' = deviceRow
           \/ /\ deviceRow' = "deleted"
              /\ Allowed' = Allowed /\ granted' = granted
<1> USE RowAssumption DEF TypeOK, ServerTypeOK, RowState, RowsInOrder
<1>0. Allowed' \in List
  BY DEF Allowed, Admitting
<1>1. ASSUME NEW k \in Key, PutKey(k) PROVE granted' = granted \cup Allowed' /\ deviceRow' = deviceRow
  BY <1>1 DEF PutKey
<1>2. ASSUME NEW p \in Push, NEW a \in Access, PutAccess(p, a)
      PROVE  granted' = granted \cup Allowed' /\ deviceRow' = deviceRow
  BY <1>2 DEF PutAccess
<1>3. ASSUME NEW k \in Key, DeleteKey(k)
      PROVE  granted' = granted \cup Allowed' /\ deviceRow' = deviceRow
  <2>1. Admitting' \subseteq Admitting /\ granted' = granted /\ deviceRow' = deviceRow
    BY <1>3 DEF DeleteKey, Admitting
  <2> QED
    BY <2>1 DEF Allowed
<1>4. ASSUME NEW p \in Push, NEW a \in Access, DeleteAccess(p, a)
      PROVE  granted' = granted \cup Allowed' /\ deviceRow' = deviceRow
  <2>1. Admitting' \subseteq Admitting /\ granted' = granted /\ deviceRow' = deviceRow
    BY <1>4 DEF DeleteAccess, Admitting
  <2> QED
    BY <2>1 DEF Allowed
<1>5. ASSUME NEW p \in Push, ForceSync(p)
      PROVE  granted' = granted \cup Allowed' /\ deviceRow' = deviceRow
  <2>1. UNCHANGED <<keyRow, accessRow, deviceRow, granted>>
    BY <1>5 DEF ForceSync
  <2> QED
    BY <2>1 DEF Allowed, Admitting
<1>6. CASE DeleteDevice
  BY <1>6 DEF DeleteDevice, Allowed, Admitting
<1> QED
  BY <1>0, <1>1, <1>2, <1>3, <1>4, <1>5, <1>6 DEF Edit

LEMMA PromiseStep == IInv /\ [Next]_vars => [Promise!Next]_Promise!vars
<1> SUFFICES ASSUME IInv, [Next]_vars PROVE [Promise!Next]_Promise!vars
  OBVIOUS
<1> USE DEF Promise!Next, Promise!vars
<1>1. CASE EditStep
  <2>1. Enforced' = Enforced
    BY <1>1 DEF EditStep, listVars, Enforced
  <2>2. Edit
    BY <1>1 DEF EditStep
  <2>3. \/ /\ Allowed' \in List /\ granted' = granted \cup Allowed'
           /\ deviceRow' = deviceRow
        \/ deviceRow' = "deleted" /\ Allowed' = Allowed /\ granted' = granted
    BY <2>2, EditView DEF IInv
  <2>4. CASE Allowed' \in List /\ granted' = granted \cup Allowed' /\ deviceRow' = deviceRow
    BY <2>1, <2>4 DEF Promise!Administer, Promise!List
  <2>5. CASE deviceRow' = "deleted" /\ Allowed' = Allowed /\ granted' = granted
    BY <2>1, <2>5 DEF Promise!Retire
  <2> QED
    BY <2>3, <2>4, <2>5
<1>2. CASE UNCHANGED <<keyRow, accessRow, deviceRow, granted>>
  <2>1. Allowed' = Allowed /\ granted' = granted /\ (deviceRow = "live")' = (deviceRow = "live")
    BY <1>2 DEF Allowed, Admitting
  <2>2. flash' \cup wlist' \cup rlist' \cup Enforced' \subseteq granted
    BY DeviceStep DEF IInv
  <2>3. Enforced' \in SUBSET granted
    BY <2>2
  <2> QED
    BY <2>1, <2>3 DEF Promise!Apply
<1>3. EditStep \/ UNCHANGED <<keyRow, accessRow, deviceRow, granted>>
  BY DEF Next, PushStep, Publish, EndPush, ServerRead, ReadDevice, ReadAccess, ReadKeys,
         SendHeartbeat, HandleHeartbeat, Connect, ConnectRefused, DeliverSync, StartHeartbeat,
         HeartbeatDropped, Evict, Worker, Reader, FaultStep, Disconnect, BrokerRestart,
         DeviceReboot, FailSave, LoseHeartbeat, FailPush, PushFails, vars, serverVars, rowVars
<1> QED
  BY <1>1, <1>2, <1>3

\* Every behaviour of the system is one AccessControl allows: the list a scan is
\* decided by only ever holds uids that were granted, and it changes on its own,
\* never together with a decision of the administrators.
THEOREM KeepsPromiseSafely == Spec => Promise!SafeSpec
<1>1. Spec => []IInv
  BY InvInit, InvStep, PTL DEF Spec
<1> QED
  BY <1>1, PromiseInit, PromiseStep, PTL DEF Spec, Promise!SafeSpec

-----------------------------------------------------------------------------
(* The copies of the list on the device. *)

\* What the worker holds to put into RAM is what the flash holds: only the worker
\* writes the file.
WorkerHolds == wpc \in {"swap", "assign"} => wlist = flash

\* With a boot that reached the broker, the list is in RAM from the start, so that
\* neither thread ever loads it lazily; RAM may differ from the flash between the
\* two writes of set_uids, the checksum from RAM until it is dropped.
CopyInv ==
    /\ ListTypeOK
    /\ ram # None
    /\ rpc = "idle" /\ wpc \notin {"load", "assign"}
    /\ WorkerHolds
    /\ (wpc # "swap" /\ ~saveFailed) => ram = flash
    /\ wpc # "drop" => checksum \in {None, ram}
    /\ wpc = "send" => checksum = ram

LEMMA CopyInit == ~OfflineBoot /\ ListInit => CopyInv
BY NoneAssumption DEF ListInit, CopyInv, ListTypeOK, WorkerHolds

LEMMA CopyStep == ~OfflineBoot /\ TypeOK /\ CopyInv /\ [Next]_vars => CopyInv'
<1> SUFFICES ASSUME ~OfflineBoot, TypeOK, CopyInv, [Next]_vars PROVE CopyInv'
  OBVIOUS
<1>1. ListTypeOK'
  BY ListView, ListTypes DEF CopyInv
<1> USE <1>1, NoneAssumption DEF CopyInv, ListTypeOK, WorkerHolds
<1>2. ASSUME NEW keys \in List, SyncKeys(keys) PROVE CopyInv'
  BY <1>2 DEF SyncKeys
<1>3. CASE SaveFails \/ BeginHeartbeat \/ HeartbeatSent
  BY <1>3 DEF SaveFails, BeginHeartbeat, HeartbeatSent
<1>4. CASE WorkerStep
  BY <1>4 DEF WorkerStep, SaveList, SwapRam, DropChecksum, WorkerLoads, WorkerAssigns, HashList
<1>5. CASE ReaderStep
  BY <1>5 DEF ReaderStep, ReaderFindsUnset, ReaderLoads, ReaderAssigns
<1>6. CASE Reboot
  BY <1>6 DEF Reboot, BootedWith
<1>7. CASE UNCHANGED listVars
  BY <1>7 DEF listVars
<1> QED
  BY <1>2, <1>3, <1>4, <1>5, <1>6, <1>7, ListView

\* A device that booted with a broker decides scans by the list on its flash, and
\* reports the checksum of that list, whenever neither thread is at the copies and
\* the last save went through: no interleaving of set_uids, a heartbeat and a
\* lookup, no failed save and no reset in between makes them differ
\* (config.py:279-323).
THEOREM CopiesStayEqual == ~OfflineBoot => (Spec => []CopiesAgree)
<1> SUFFICES ASSUME ~OfflineBoot PROVE Spec => []CopiesAgree
  OBVIOUS
<1>1. Init => CopyInv
  BY CopyInit DEF Init
<1>2. TypeOK /\ CopyInv /\ [Next]_vars => CopyInv'
  BY CopyStep
<1>3. CopyInv => CopiesAgree
  BY DEF CopyInv, CopiesAgree, InSync, ChecksumHonest, Enforced
<1> QED
  BY <1>1, <1>2, <1>3, Typing, PTL DEF Spec

LEMMA HoldsInit == Init => WorkerHolds
BY DEF Init, ListInit, WorkerHolds

LEMMA HoldsStep == TypeOK /\ WorkerHolds /\ [Next]_vars => WorkerHolds'
<1> SUFFICES ASSUME TypeOK, WorkerHolds, [Next]_vars PROVE WorkerHolds'
  OBVIOUS
<1> USE DEF WorkerHolds
<1>1. CASE \/ \E keys \in List : SyncKeys(keys)
           \/ SaveFails \/ BeginHeartbeat \/ HeartbeatSent
  BY <1>1 DEF SyncKeys, SaveFails, BeginHeartbeat, HeartbeatSent
<1>2. CASE WorkerStep
  BY <1>2 DEF WorkerStep, SaveList, SwapRam, DropChecksum, WorkerLoads, WorkerAssigns, HashList
<1>3. CASE ReaderStep
  BY <1>3 DEF ReaderStep, ReaderFindsUnset, ReaderLoads, ReaderAssigns
<1>4. CASE Reboot
  BY <1>4 DEF Reboot, BootedWith
<1>5. CASE UNCHANGED listVars
  BY <1>5 DEF listVars
<1> QED
  BY <1>1, <1>2, <1>3, <1>4, <1>5, ListView

\* A step that changes the list in RAM, with a boot of either kind, puts there what
\* is on the flash, unless it ends a lookup that read the file earlier.
LEMMA GainStep ==
    ASSUME TypeOK, WorkerHolds, [Next]_vars, ram # None, ram' # None
    PROVE  ram' \subseteq ram \cup flash' \/ rpc = "assign"
<1>1. CASE WorkerStep
  BY <1>1 DEF WorkerStep, WorkerHolds, SaveList, SwapRam, DropChecksum, WorkerLoads,
              WorkerAssigns, HashList
<1>2. CASE ReaderStep
  BY <1>2 DEF ReaderStep, ReaderFindsUnset, ReaderLoads, ReaderAssigns
<1>3. CASE Reboot
  BY <1>3 DEF Reboot, BootedWith
<1>4. CASE UNCHANGED ram
  BY <1>4
<1> QED
  BY <1>1, <1>2, <1>3, <1>4, ListView DEF SyncKeys, SaveFails, BeginHeartbeat, HeartbeatSent,
     listVars

\* Whatever the boot and the faults, a uid comes into the list a running device
\* decides by only from its flash: no failed save, heartbeat or lookup brings back
\* one that was withdrawn, save a first lookup overtaken by a push.
THEOREM NothingComesBack == Spec => GainsOnlyFromFlash
<1>1. Init => WorkerHolds
  BY HoldsInit
<1>2. TypeOK /\ WorkerHolds /\ [Next]_vars => WorkerHolds'
  BY HoldsStep
<1>3. TypeOK /\ WorkerHolds /\ [Next]_vars =>
         [(ram # None /\ ram' # None)
             => ram' \subseteq ram \cup flash' \/ rpc = "assign"]_listVars
  BY GainStep
<1> QED
  BY <1>1, <1>2, <1>3, Typing, PTL DEF Spec, GainsOnlyFromFlash
=============================================================================
