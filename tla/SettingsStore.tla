---------------------------- MODULE SettingsStore ----------------------------
(***************************************************************************)
(* The device's settings: firmware/src/config.py.  They live in NVS; the   *)
(* program uses a copy in RAM, loaded at boot, when settings of a legacy   *)
(* config.json are moved to NVS first.                                     *)
(*                                                                         *)
(* NVS takes keys one at a time.  The power may fail between any two       *)
(* writes, and a write may raise (no room left).  A key that is erased     *)
(* reads as its default.                                                   *)
(***************************************************************************)
EXTENDS Naturals

CONSTANTS
    Keys,        \* settings
    Secrets,     \* those the host cannot read
    Values,      \* values a setting may hold
    Default,     \* the default of every setting, "" for a secret
    Invalid,     \* a value validate() refuses
    Clear,       \* null, which clears a secret
    Template,    \* the "{{...}}" of a config.json never filled in
    Absent,      \* no entry
    PowerCuts    \* power failures (a bound of the model)

SettingsAssumption ==
    /\ Secrets \subseteq Keys /\ Default \in Values
    /\ {Invalid, Clear, Template, Absent} \cap Values = {}
    /\ PowerCuts \in Nat

VARIABLES
    nvs,      \* the entries, and those of them that survive a power failure for sure
    stored,
    json,     \* the settings in config.json
    ram,      \* _values
    pc,       \* off, migrating, migrated (not yet saved to config.json), on, writing
    todo,     \* keys still to be written, with their values
    changed,  \* keys written by this set_many()
    cuts,
    raised,   \* history: a write to NVS has raised
    goal      \* history: the settings before and after the last set_many(); once it is through,
              \* twice those after

vars == <<nvs, stored, json, ram, pc, todo, changed, cuts, raised, goal>>

Settings == [Keys -> Values]
NoWork == [k \in Keys |-> Absent]
Pending == {k \in Keys : todo[k] # Absent}

TypeOK ==
    /\ {nvs, stored} \subseteq [Keys -> Values \cup {Invalid, Absent}]
    /\ json \in [Keys -> Values \cup {Invalid, Template, Absent}]
    /\ ram \in Settings
    /\ pc \in {"off", "migrating", "migrated", "on", "writing"}
    /\ todo \in [Keys -> Values \cup {Absent}] /\ changed \subseteq Keys
    /\ cuts \in 0..PowerCuts /\ raised \in BOOLEAN
    /\ goal \in Settings \X Settings

-----------------------------------------------------------------------------
(* Boot *)

\* _load(): an entry that is missing or no longer valid reads as the default.
Loaded == [k \in Keys |-> IF nvs[k] \in Values THEN nvs[k] ELSE Default]

\* NVS may hold what an older firmware allowed.  The values of config.json are those wanted.
Init ==
    /\ nvs \in [Keys -> Values \cup {Absent, Invalid}] /\ stored = nvs
    /\ json \in [Keys -> Values \cup {Invalid, Template, Absent}]
    /\ ram = [k \in Keys |-> Default] /\ pc = "off"
    /\ todo = NoWork /\ changed = {} /\ cuts = 0 /\ raised = FALSE
    /\ \E want \in {[k \in Keys |-> IF json[k] \in Values THEN json[k] ELSE Loaded[k]]} :
           goal = <<want, want>>

\* config.json has settings, or _load() follows at once.
Boot ==
    /\ pc = "off"
    /\ IF \E k \in Keys : json[k] # Absent
       THEN /\ pc' = "migrating" /\ ram' = ram
            /\ todo' = [k \in Keys |-> IF json[k] \in Values THEN json[k] ELSE Absent]
       ELSE pc' = "on" /\ ram' = Loaded /\ todo' = NoWork
    /\ changed' = {}
    /\ UNCHANGED <<nvs, stored, json, cuts, raised, goal>>

MigrateKey(k) ==
    /\ pc = "migrating" /\ todo[k] # Absent
    /\ nvs' = [nvs EXCEPT ![k] = todo[k]]
    /\ todo' = [todo EXCEPT ![k] = Absent]
    /\ UNCHANGED <<stored, json, ram, pc, changed, cuts, raised, goal>>

Commit ==
    /\ pc = "migrating" /\ Pending = {}
    /\ pc' = "migrated" /\ stored' = nvs
    /\ UNCHANGED <<nvs, json, ram, todo, changed, cuts, raised, goal>>

\* Seeded fault: config.json keeps the settings.
KeepsLegacy == json

WithoutLegacy == NoWork

\* _save_config() without the settings, then _load().
MigrationSaved ==
    /\ pc = "migrated"
    /\ json' = WithoutLegacy
    /\ ram' = Loaded /\ pc' = "on"
    /\ UNCHANGED <<nvs, stored, todo, changed, cuts, raised, goal>>

-----------------------------------------------------------------------------
(* set_many() *)

\* What a request may hold for a key; Absent: the key is not in it.
Requested(k) == Values \cup {Invalid, Absent} \cup (IF k \in Secrets THEN {Clear} ELSE {})

\* For a secret "" (its default) leaves the value, null clears it.
Change(k, v) ==
    IF k \in Secrets /\ v = Default THEN Absent
    ELSE IF v = Clear THEN Default ELSE v

\* Every field is validated first; fields that do not change are skipped.
SetMany == \E req \in {r \in [Keys -> UNION {Requested(k) : k \in Keys}] :
                         \A k \in Keys : r[k] \in Requested(k)} :
    LET change == [k \in Keys |-> Change(k, req[k])]
        news   == [k \in Keys |-> IF change[k] = ram[k] THEN Absent ELSE change[k]]
    IN /\ pc = "on"
       /\ \A k \in Keys : req[k] # Invalid
       /\ news # NoWork
       /\ todo' = news /\ changed' = {}
       /\ goal' = <<ram, [k \in Keys |-> IF news[k] = Absent THEN ram[k] ELSE news[k]]>>
       /\ pc' = "writing"
       /\ UNCHANGED <<nvs, stored, json, ram, cuts, raised>>

RamMeanwhile(k) == ram

\* The default is written by erasing the key.
WriteKey(k) ==
    /\ pc = "writing" /\ todo[k] # Absent
    /\ nvs' = [nvs EXCEPT ![k] = IF todo[k] = Default THEN Absent ELSE todo[k]]
    /\ todo' = [todo EXCEPT ![k] = Absent]
    /\ changed' = changed \cup {k}
    /\ ram' = RamMeanwhile(k)
    /\ UNCHANGED <<stored, json, pc, cuts, raised, goal>>

\* _dispatch() raises; the request is answered "internal".
WriteRaises(k) ==
    /\ pc = "writing" /\ todo[k] \notin {Absent, Default}
    /\ pc' = "on" /\ todo' = NoWork /\ raised' = TRUE
    /\ UNCHANGED <<nvs, stored, json, ram, changed, cuts, goal>>

AfterCommit == nvs

Committed ==
    /\ pc = "writing" /\ Pending = {}
    /\ ram' = [k \in Keys |-> IF k \in changed THEN goal[2][k] ELSE ram[k]]
    /\ stored' = AfterCommit
    /\ goal' = <<goal[2], goal[2]>>
    /\ pc' = "on"
    /\ UNCHANGED <<nvs, json, todo, changed, cuts, raised>>

\* Entries written since the last commit may be kept or lost.
PowerCut ==
    /\ cuts < PowerCuts /\ cuts' = cuts + 1
    /\ pc # "off" /\ pc' = "off"
    /\ \E lost \in SUBSET Keys : nvs' = [k \in Keys |-> IF k \in lost THEN stored[k] ELSE nvs[k]]
    /\ stored' = nvs'
    /\ ram' = [k \in Keys |-> Default] /\ todo' = NoWork /\ changed' = {}
    /\ UNCHANGED <<json, raised, goal>>

Next ==
    \/ Boot \/ Commit \/ MigrationSaved
    \/ SetMany \/ Committed \/ PowerCut
    \/ \E k \in Keys : MigrateKey(k) \/ WriteKey(k) \/ WriteRaises(k)

Spec == Init /\ [][Next]_vars
-----------------------------------------------------------------------------
(* Properties *)

\* Settings that were saved, or moved from config.json, are the ones in use after every later
\* boot, wherever the power failed during the move: nothing is lost and no old value returns,
\* as long as no write raised (config.py:150-167, 208-219).
Durable == pc = "on" /\ goal[1] = goal[2] /\ ~raised => ram = goal[2]

\* What the running device uses is all or nothing of what set_many() was asked for, also when
\* a write raises, until the next power failure (config.py:183).
AllOrNothing == pc = "on" /\ cuts = 0 => ram \in {goal[1], goal[2]}

\* The settings in use are those that were saved (config.py:145-223).
SettingsHold == Durable /\ AllOrNothing
=============================================================================
