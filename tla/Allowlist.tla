------------------------------ MODULE Allowlist ------------------------------
(***************************************************************************)
(* The device's copy of the list of admitted uids: firmware/src/config.py. *)
(*                                                                         *)
(* The list lives three times on the device: in config.json on the flash,  *)
(* in the module global _allowed_uids, filled lazily, and as a cached      *)
(* checksum in _keys_checksum.  Two threads touch the three copies without *)
(* a lock: the reader thread looks a scanned card up, and the MQTT worker  *)
(* replaces the list when the server pushes one and reports the checksum   *)
(* on every heartbeat.  MicroPython may switch threads between any two     *)
(* statements, so one action is one statement that reads or writes a       *)
(* global or the file.                                                     *)
(*                                                                         *)
(* A list of uids is a set (config.py only ever builds a set from it), and *)
(* its sha256 checksum is the set itself: two lists have the same digest   *)
(* exactly when they are the same set.                                     *)
(***************************************************************************)
EXTENDS CardUids

CONSTANT OfflineBoot  \* whether the boot connection to the broker may fail

ASSUME OfflineBootAssumption == OfflineBoot \in BOOLEAN

VARIABLES
    flash,     \* allowed_users in config.json
    ram,       \* _allowed_uids
    checksum,  \* _keys_checksum
    wpc,       \* where the MQTT worker is in set_uids or publish_heartbeat
    wlist,     \* the list the worker holds in a local variable
    rpc,       \* where the reader is in _ensure_allowlist
    rlist,     \* the list the reader holds in a local variable
    saveFailed \* the last _save_config raised, so flash may be behind ram

listVars == <<flash, ram, checksum, wpc, wlist, rpc, rlist, saveFailed>>

ListTypeOK ==
    /\ flash \in List
    /\ ram \in {None} \cup List
    /\ checksum \in {None} \cup List
    /\ wpc \in {"idle", "save", "swap", "drop", "load", "assign", "hash", "send"}
    /\ wlist \in List
    /\ rpc \in {"idle", "load", "assign"}
    /\ rlist \in List
    /\ saveFailed \in BOOLEAN

\* The list a card scanned now is looked up in: is_user_allowed reads the RAM
\* copy, and fills it from the file first when there is none.
Enforced == IF ram = None THEN flash ELSE ram

-----------------------------------------------------------------------------
(* Boot *)

\* A boot connection that succeeded has published a heartbeat, which loaded the
\* list and cached its checksum before the two threads start.  After one that
\* failed, both are still unset.
BootedWith(list) ==
    \/ ram' = list /\ checksum' = list
    \/ OfflineBoot /\ ram' = None /\ checksum' = None

ListInit ==
    /\ flash = {}
    /\ \/ ram = flash /\ checksum = flash
       \/ OfflineBoot /\ ram = None /\ checksum = None
    /\ wpc = "idle" /\ wlist = {}
    /\ rpc = "idle" /\ rlist = {}
    /\ saveFailed = FALSE

\* A power cut, a watchdog reset or a reboot command: RAM is gone, the file has
\* the last content that was closed.
Reboot ==
    /\ BootedWith(flash)
    /\ wpc' = "idle" /\ wlist' = {}
    /\ rpc' = "idle" /\ rlist' = {}
    /\ saveFailed' = FALSE
    /\ UNCHANGED flash

-----------------------------------------------------------------------------
(* The worker thread in set_uids *)

\* cmd_sync arrived: on_sync_keys calls set_uids with the server's list.
SyncKeys(keys) ==
    /\ wpc = "idle"
    /\ wpc' = "save"
    /\ wlist' = keys
    /\ UNCHANGED <<flash, ram, checksum, rpc, rlist, saveFailed>>

SaveList ==
    /\ wpc = "save"
    /\ wpc' = "swap"
    /\ flash' = wlist
    /\ saveFailed' = FALSE
    /\ UNCHANGED <<ram, checksum, wlist, rpc, rlist>>

\* Seeded fault: the exception is swallowed inside _save_config.
SaveFailsSwallowed ==
    /\ wpc = "save"
    /\ wpc' = "swap"
    /\ flash' \in {flash, {}}
    /\ saveFailed' = TRUE
    /\ UNCHANGED <<ram, checksum, wlist, rpc, rlist>>

\* open() or json.dump raises: the file keeps its content, or was truncated and
\* load_config reads it as {}.  on_sync_keys logs the exception.
SaveFails ==
    /\ wpc = "save"
    /\ wpc' = "idle"
    /\ wlist' = {}
    /\ flash' \in {flash, {}}
    /\ saveFailed' = TRUE
    /\ UNCHANGED <<ram, checksum, rpc, rlist>>

\* Seeded fault: the new uids are merged into the set in RAM.
SwapRamMerging ==
    /\ wpc = "swap"
    /\ wpc' = "drop"
    /\ ram' = wlist \cup Enforced
    /\ UNCHANGED <<flash, checksum, wlist, rpc, rlist, saveFailed>>

SwapRam ==
    /\ wpc = "swap"
    /\ wpc' = "drop"
    /\ ram' = wlist
    /\ UNCHANGED <<flash, checksum, wlist, rpc, rlist, saveFailed>>

\* Seeded fault: the cached checksum is not invalidated.
DropChecksumForgotten ==
    /\ wpc = "drop"
    /\ wpc' = "idle"
    /\ wlist' = {}
    /\ UNCHANGED <<flash, ram, checksum, rpc, rlist, saveFailed>>

DropChecksum ==
    /\ wpc = "drop"
    /\ wpc' = "idle"
    /\ checksum' = None
    /\ wlist' = {}
    /\ UNCHANGED <<flash, ram, rpc, rlist, saveFailed>>

-----------------------------------------------------------------------------
(* The worker thread in publish_heartbeat *)

BeginHeartbeat ==
    /\ wpc = "idle"
    /\ wpc' = CASE checksum # None           -> "send"
                [] checksum = None /\ ram # None -> "hash"
                [] OTHER                     -> "load"
    /\ UNCHANGED <<flash, ram, checksum, wlist, rpc, rlist, saveFailed>>

WorkerLoads ==
    /\ wpc = "load"
    /\ wpc' = "assign"
    /\ wlist' = flash
    /\ UNCHANGED <<flash, ram, checksum, rpc, rlist, saveFailed>>

WorkerAssigns ==
    /\ wpc = "assign"
    /\ wpc' = "hash"
    /\ ram' = wlist
    /\ wlist' = {}
    /\ UNCHANGED <<flash, checksum, rpc, rlist, saveFailed>>

HashList ==
    /\ wpc = "hash"
    /\ wpc' = "send"
    /\ checksum' = ram
    /\ UNCHANGED <<flash, ram, wlist, rpc, rlist, saveFailed>>

\* The checksum leaves in the status message, or the publish fails.
HeartbeatSent ==
    /\ wpc = "send"
    /\ wpc' = "idle"
    /\ UNCHANGED <<flash, ram, checksum, wlist, rpc, rlist, saveFailed>>

-----------------------------------------------------------------------------
(* The reader thread in is_user_allowed *)

\* A lookup that finds the list in RAM changes nothing, so only the one that
\* finds it unset is an action.
ReaderFindsUnset ==
    /\ rpc = "idle" /\ ram = None
    /\ rpc' = "load"
    /\ UNCHANGED <<flash, ram, checksum, wpc, wlist, rlist, saveFailed>>

ReaderLoads ==
    /\ rpc = "load"
    /\ rpc' = "assign"
    /\ rlist' = flash
    /\ UNCHANGED <<flash, ram, checksum, wpc, wlist, saveFailed>>

ReaderAssigns ==
    /\ rpc = "assign"
    /\ rpc' = "idle"
    /\ ram' = rlist
    /\ rlist' = {}
    /\ UNCHANGED <<flash, checksum, wpc, wlist, saveFailed>>

-----------------------------------------------------------------------------
WorkerStep ==
    \/ SaveList \/ SwapRam \/ DropChecksum
    \/ WorkerLoads \/ WorkerAssigns \/ HashList

ReaderStep == ReaderFindsUnset \/ ReaderLoads \/ ReaderAssigns

ListNext ==
    \/ \E keys \in List : SyncKeys(keys)
    \/ SaveFails
    \/ BeginHeartbeat
    \/ HeartbeatSent
    \/ WorkerStep
    \/ ReaderStep
    \/ Reboot

ListSpec == ListInit /\ [][ListNext]_listVars

-----------------------------------------------------------------------------
(* Properties *)

\* With neither thread in the middle of a call, the list a scan is decided by is
\* the list on the flash, unless the last save failed: the comment on
\* _allowed_uids in config.py says the mutators keep it in sync.
InSync ==
    (wpc = "idle" /\ rpc = "idle" /\ ~saveFailed) => Enforced = flash

\* The checksum a heartbeat is about to carry is that of the list the device
\* enforces: the server decides from it whether the device has drifted.
ChecksumHonest == (wpc = "send" /\ rpc = "idle") => checksum = Enforced

\* The three copies of the list, on flash, in RAM and in the checksum, agree
\* whenever nobody is at them (config.py:279-323).
CopiesAgree == InSync /\ ChecksumHonest

\* A running device's RAM list gains a uid only if the uid is on the flash by
\* then: neither a failed save nor a lookup brings a withdrawn uid back.  The one
\* exception is a first lookup that read the file before the worker replaced it,
\* which needs a boot without a broker.
GainsOnlyFromFlash ==
    [][(ram # None /\ ram' # None)
        => ram' \subseteq ram \cup flash' \/ rpc = "assign"]_listVars
=============================================================================
