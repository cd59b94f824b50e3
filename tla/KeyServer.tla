------------------------------ MODULE KeyServer ------------------------------
(***************************************************************************)
(* The server's side of a device's key list: the rows an administrator     *)
(* edits (backend/src/entities, backend/src/db) and the pushes that carry  *)
(* them to the device (backend/src/devices).                               *)
(*                                                                         *)
(* One device is modelled: rows, topics and pushes of two devices never    *)
(* meet.  A push reads the device row, the access rows and the key rows in *)
(* three queries and publishes over a connection opened for it alone, with *)
(* nothing ordering it after an earlier push, so each query is a step of   *)
(* its own and pushes overtake each other.                                 *)
(***************************************************************************)
EXTENDS CardUids, FiniteSets, Naturals

CONSTANTS
    Key,      \* ids of the key rows
    Access,   \* ids of the keyAccess rows that name the device
    UidOf,    \* the uidHash of a key, set when the key is created
    KeyOf,    \* the keyId of an access row, set when the row is created
    Push,     \* pushes in flight at once (a bound of the model)
    MaxEdits  \* how many requests administrators send (a bound of the model)

ASSUME RowAssumption == UidOf \in [Key -> Uid] /\ KeyOf \in [Access -> Key]
ASSUME EditAssumption == MaxEdits \in Nat

VARIABLES
    keyRow,     \* per key row: absent, live, or deleted (rows are kept as tombstones)
    accessRow,  \* the same per access row
    deviceRow,  \* the device's own row
    push,       \* the pushDeviceSync calls in flight
    edits,      \* requests sent so far
    granted     \* history: every uid the rows have ever admitted

serverVars == <<keyRow, accessRow, deviceRow, push, edits, granted>>

RowState == {"absent", "live", "deleted"}
PushState == [pc : {"idle", "device", "access", "keys", "publish"},
              keys : SUBSET Key, uids : SUBSET Uid]
NoPush == [pc |-> "idle", keys |-> {}, uids |-> {}]

ServerTypeOK ==
    /\ keyRow \in [Key -> RowState]
    /\ accessRow \in [Access -> RowState]
    /\ deviceRow \in {"live", "deleted"}
    /\ push \in [Push -> PushState]
    /\ edits \in 0..MaxEdits
    /\ granted \in SUBSET Uid

\* The access rows that admit a card: neither they nor their key are deleted.
Admitting == {a \in Access : accessRow[a] = "live" /\ keyRow[KeyOf[a]] = "live"}

\* The uids the rows admit now.
Allowed == {UidOf[KeyOf[a]] : a \in Admitting}

\* handleHeartbeat digests one uid per admitting row, duplicates included, and
\* the device one per member of its set: the digests agree when the sets do and
\* no uid is listed twice.
ChecksumMatches(list) ==
    /\ list = Allowed
    /\ Cardinality(Admitting) = Cardinality(Allowed)

NoPushInFlight == \A p \in Push : push[p].pc = "idle"

ServerInit ==
    /\ keyRow = [k \in Key |-> "absent"]
    /\ accessRow = [a \in Access |-> "absent"]
    /\ deviceRow = "live"
    /\ push = [p \in Push |-> NoPush]
    /\ edits = 0
    /\ granted = {}

-----------------------------------------------------------------------------
(* Administrators' requests *)

Request == edits < MaxEdits /\ edits' = edits + 1

\* A push starts from its first query with nothing read.
StartPush(p) ==
    /\ push[p].pc = "idle"
    /\ push' = [push EXCEPT ![p].pc = "device"]

\* Unique indexes over the rows that are not deleted: one key per card, one access
\* row per device and key.  An insert that breaks one fails and changes nothing.
OnlyKeyOfCard(k) == \A j \in Key \ {k} : keyRow[j] = "live" => UidOf[j] # UidOf[k]
OnlyAccessToKey(a) == \A b \in Access \ {a} : accessRow[b] = "live" => KeyOf[b] # KeyOf[a]

\* createEntity upserts unless the row is deleted, in which case it answers 409.
PutKey(k) ==
    /\ Request
    /\ keyRow[k] # "deleted" /\ OnlyKeyOfCard(k)
    /\ keyRow' = [keyRow EXCEPT ![k] = "live"]
    /\ UNCHANGED <<accessRow, deviceRow, push>>
    /\ granted' = granted \cup Allowed'

\* The client posts an access row after the key it names: its outbox awaits the
\* POST of one row before it sends the next.
KeyPosted(a) == keyRow[KeyOf[a]] # "absent"

\* The commit of an access row starts a push (key-sync-reactions).
PutAccess(p, a) ==
    /\ Request
    /\ KeyPosted(a)
    /\ accessRow[a] # "deleted" /\ OnlyAccessToKey(a)
    /\ accessRow' = [accessRow EXCEPT ![a] = "live"]
    /\ StartPush(p)
    /\ UNCHANGED <<keyRow, deviceRow>>
    /\ granted' = granted \cup Allowed'

DeleteAccess(p, a) ==
    /\ Request
    /\ accessRow[a] = "live"
    /\ accessRow' = [accessRow EXCEPT ![a] = "deleted"]
    /\ StartPush(p)
    /\ UNCHANGED <<keyRow, deviceRow, granted>>

\* No reaction is registered for key rows: deleting a key pushes nothing.
DeleteKey(k) ==
    /\ Request
    /\ keyRow[k] = "live"
    /\ keyRow' = [keyRow EXCEPT ![k] = "deleted"]
    /\ UNCHANGED <<accessRow, deviceRow, push, granted>>

DeleteDevice ==
    /\ Request
    /\ deviceRow = "live"
    /\ deviceRow' = "deleted"
    /\ UNCHANGED <<keyRow, accessRow, push, granted>>

ForceSync(p) ==
    /\ Request
    /\ deviceRow = "live"
    /\ StartPush(p)
    /\ UNCHANGED <<keyRow, accessRow, deviceRow, granted>>

-----------------------------------------------------------------------------
(* pushDeviceSync *)

rowVars == <<keyRow, accessRow, deviceRow, edits, granted>>

ReadDevice(p) ==
    /\ push[p].pc = "device"
    /\ push' = [push EXCEPT ![p] =
                  IF deviceRow = "live" THEN [@ EXCEPT !.pc = "access"] ELSE NoPush]
    /\ UNCHANGED rowVars

ReadAccess(p) ==
    /\ push[p].pc = "access"
    /\ push' = [push EXCEPT ![p].pc = "keys",
                            ![p].keys = {KeyOf[a] : a \in {b \in Access : accessRow[b] = "live"}}]
    /\ UNCHANGED rowVars

\* Seeded fault: the deleted flag of the key rows is not looked at.
ReadKeysDeletedToo(p) ==
    /\ push[p].pc = "keys"
    /\ push' = [push EXCEPT ![p].pc = "publish",
                            ![p].uids = {UidOf[k] : k \in push[p].keys}]
    /\ UNCHANGED rowVars

ReadKeys(p) ==
    /\ push[p].pc = "keys"
    /\ push' = [push EXCEPT ![p].pc = "publish",
                            ![p].uids = {UidOf[k] : k \in {j \in push[p].keys : keyRow[j] = "live"}}]
    /\ UNCHANGED rowVars

\* The broker has the message; the push is over.
EndPush(p) ==
    /\ push[p].pc = "publish"
    /\ push' = [push EXCEPT ![p] = NoPush]
    /\ UNCHANGED rowVars

\* A query rejects or the broker cannot be reached: the caller logs the error
\* and nothing retries.
PushFails(p) ==
    /\ push[p].pc # "idle"
    /\ push' = [push EXCEPT ![p] = NoPush]
    /\ UNCHANGED rowVars

ServerRead(p) == ReadDevice(p) \/ ReadAccess(p) \/ ReadKeys(p)

Edit ==
    \/ \E k \in Key : PutKey(k) \/ DeleteKey(k)
    \/ \E p \in Push, a \in Access : PutAccess(p, a) \/ DeleteAccess(p, a)
    \/ \E p \in Push : ForceSync(p)
    \/ DeleteDevice
=============================================================================
