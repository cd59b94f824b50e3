----------------------------- MODULE DeviceProofs -----------------------------
(***************************************************************************)
(* Proofs about the parts of Device other than DeviceLink, for every       *)
(* window, backoff and number of attempts, all settings and any number of  *)
(* power failures, and every period, line and number of threads; and that  *)
(* side by side each of them behaves as alone.                             *)
(***************************************************************************)
EXTENDS Device, DeviceLinkProofs, Integers

-----------------------------------------------------------------------------
(* The WiFi manager *)

\* _failures counts no more than what failed in this outage, and the radio is to be reset only
\* after enough of that, between two attempts.
CountedInOutage ==
    /\ failures <= failed
    /\ resetPending => failures = 0 /\ failed >= ResetAfter /\ ~connecting

WifiInv == Wifi!TypeOK /\ CountedInOutage

\* The counter that wraps at n.
LEMMA Wraps ==
    ASSUME NEW n \in Nat \ {0}, NEW k \in 0..(n - 1)
    PROVE  (k + 1) % n = IF k + 1 < n THEN k + 1 ELSE 0
<1>1. CASE k + 1 < n
  BY <1>1
<1>2. CASE k + 1 = n
  BY <1>2
<1> QED
  BY <1>1, <1>2

LEMMA WifiBounds ==
    ASSUME Wifi!WifiAssumption
    PROVE  /\ Window \in Nat /\ RetryCap \in Nat /\ ResetAfter \in Nat /\ Settle \in Nat
           /\ RetryCap > 0 /\ ResetAfter > 0 /\ Settle <= RetryCap
           /\ WifiFaults \in Nat
BY DEF Wifi!WifiAssumption

LEMMA WifiInvInit == ASSUME Wifi!WifiAssumption, Wifi!Init PROVE WifiInv
<1>1. connecting \in BOOLEAN /\ resetPending \in BOOLEAN /\ ~resetPending
  BY Zenon DEF Wifi!Init
<1>2. Wifi!TypeOK
  BY <1>1, WifiBounds DEF Wifi!Init, Wifi!TypeOK
<1>3. CountedInOutage
  BY <1>1 DEF Wifi!Init, CountedInOutage
<1> QED
  BY <1>2, <1>3 DEF WifiInv

\* A failed attempt or call waits and is counted in the outage.
LEMMA FailedView ==
    ASSUME Wifi!WifiAssumption, Wifi!TypeOK, Wifi!ScheduleBackoff, Wifi!Failed
    PROVE  /\ pause' \in 0..RetryCap /\ nextPause' \in 1..RetryCap
           /\ failed' \in 0..(ResetAfter + 1)
           /\ failed' >= failed
           /\ failed' > ResetAfter \/ failed' = failed + 1
BY WifiBounds DEF Wifi!TypeOK, Wifi!ScheduleBackoff, Wifi!Failed

LEMMA WifiInvStep == ASSUME Wifi!WifiAssumption, WifiInv, [Wifi!Next]_Wifi!vars PROVE WifiInv'
<1> USE WifiBounds DEF WifiInv, Wifi!TypeOK, CountedInOutage, Wifi!stateVars
<1>1. CASE Wifi!FoundUp \/ Wifi!FoundDown \/ Wifi!InFlight \/ Wifi!BacksOff
  <2>1. connecting' \in BOOLEAN /\ resetPending' \in BOOLEAN
    BY <1>1, Zenon DEF Wifi!FoundUp, Wifi!FoundDown, Wifi!InFlight, Wifi!BacksOff
  <2>2. Wifi!TypeOK'
    BY <1>1, <2>1 DEF Wifi!FoundUp, Wifi!FoundDown, Wifi!InFlight, Wifi!BacksOff
  <2>3. CountedInOutage'
    BY <1>1 DEF Wifi!FoundUp, Wifi!FoundDown, Wifi!InFlight, Wifi!BacksOff
  <2> QED
    BY <2>2, <2>3
<1>2. CASE Wifi!AttemptEnds
  <2>1. /\ pause' \in 0..RetryCap /\ nextPause' \in 1..RetryCap
        /\ failed' \in 0..(ResetAfter + 1)
        /\ failed' > ResetAfter \/ failed' = failed + 1
    BY <1>2, FailedView DEF Wifi!AttemptEnds
  <2>2. failures' = IF failures + 1 < ResetAfter THEN failures + 1 ELSE 0
    BY <1>2, Wraps DEF Wifi!AttemptEnds
  <2>3. call' = "tick" /\ radio' \in {radio, "idle"} /\ UNCHANGED <<elapsed, trouble>>
    BY <1>2 DEF Wifi!AttemptEnds, Wifi!Aborted
  <2>4. /\ connecting /\ connecting' \in BOOLEAN /\ ~connecting'
        /\ resetPending' \in BOOLEAN /\ (resetPending' => resetPending \/ failures' = 0)
    BY <1>2, Zenon DEF Wifi!AttemptEnds
  <2>5. Wifi!TypeOK'
    BY <2>1, <2>2, <2>3, <2>4
  <2>6. CountedInOutage'
    BY <2>1, <2>2, <2>3, <2>4
  <2> QED
    BY <2>5, <2>6
<1>3. CASE Wifi!RadioOff \/ Wifi!Connects
  <2>1. /\ connecting' \in BOOLEAN /\ resetPending' \in BOOLEAN /\ ~resetPending'
    <3>1. CASE Wifi!RadioOff
      BY <3>1, Zenon DEF Wifi!RadioOff
    <3>2. CASE Wifi!Connects
      <4>1. connecting' = TRUE /\ ~resetPending /\ resetPending' = resetPending
        BY <3>2 DEF Wifi!Connects
      <4> QED
        BY <4>1, Zenon
    <3> QED
      BY <1>3, <3>1, <3>2
  <2>2. /\ call' = "tick" /\ radio' \in {"off", "trying"}
        /\ pause' \in {pause, Settle} /\ elapsed' \in {elapsed, 0}
        /\ UNCHANGED <<nextPause, failures, trouble>>
        /\ failed' = failed \/ (failed' = 0 /\ failures = 0)
    BY <1>3 DEF Wifi!RadioOff, Wifi!Connects
  <2>3. Wifi!TypeOK'
    BY <2>1, <2>2
  <2>4. CountedInOutage'
    BY <2>1, <2>2
  <2> QED
    BY <2>3, <2>4
<1>4. CASE Wifi!ConnectRaises
  <2>1. /\ pause' \in 0..RetryCap /\ nextPause' \in 1..RetryCap
        /\ failed' \in 0..(ResetAfter + 1)
        /\ failed' >= failed
    BY <1>4, FailedView DEF Wifi!ConnectRaises
  <2>2. /\ call' = "tick" /\ radio' \in {"off", "idle"} /\ ~resetPending
        /\ trouble' \in 0..WifiFaults
        /\ UNCHANGED <<connecting, elapsed, failures, resetPending>>
    BY <1>4 DEF Wifi!ConnectRaises, Wifi!Aborted
  <2> QED
    BY <2>1, <2>2
<1>5. CASE Wifi!Associates \/ Wifi!GivesUp \/ Wifi!LinkLost
  BY <1>5 DEF Wifi!Associates, Wifi!GivesUp, Wifi!LinkLost
<1>6. CASE Wifi!Tick
  BY <1>6 DEF Wifi!Tick
<1>7. CASE UNCHANGED Wifi!vars
  BY <1>7 DEF Wifi!vars
<1> QED
  BY <1>1, <1>2, <1>3, <1>4, <1>5, <1>6, <1>7 DEF Wifi!Next, Wifi!Maintain

LEMMA WifiInvariance == Wifi!Spec => []WifiInv
<1>1. Wifi!Init => WifiInv
  BY WifiConstants, WifiInvInit
<1>2. WifiInv /\ [Wifi!Next]_Wifi!vars => WifiInv'
  BY WifiConstants, WifiInvStep
<1> QED
  BY <1>1, <1>2, PTL DEF Wifi!Spec

\* Only AttemptEnds and FoundUp give up an attempt: one aborts it, the other found it up.
LEMMA QuietStep == ASSUME WifiInv, [Wifi!Next]_Wifi!vars PROVE Wifi!QuietWhileWaiting
<1> SUFFICES ASSUME connecting, ~connecting' PROVE radio' # "trying"
  BY DEF Wifi!QuietWhileWaiting
<1>1. CASE Wifi!FoundUp \/ Wifi!AttemptEnds
  BY <1>1 DEF Wifi!FoundUp, Wifi!AttemptEnds, Wifi!Aborted
<1>2. CASE \/ Wifi!FoundDown \/ Wifi!InFlight \/ Wifi!BacksOff
           \/ Wifi!RadioOff \/ Wifi!Connects \/ Wifi!ConnectRaises
  BY <1>2 DEF Wifi!FoundDown, Wifi!InFlight, Wifi!BacksOff, Wifi!RadioOff, Wifi!Connects,
     Wifi!ConnectRaises, Wifi!stateVars
<1>3. CASE Wifi!Associates \/ Wifi!GivesUp \/ Wifi!LinkLost \/ Wifi!Tick \/ UNCHANGED Wifi!vars
  BY <1>3 DEF Wifi!Associates, Wifi!GivesUp, Wifi!LinkLost, Wifi!Tick, Wifi!vars, Wifi!stateVars
<1> QED
  BY <1>1, <1>2, <1>3 DEF Wifi!Next, Wifi!Maintain

\* Only RadioOff switches the radio off.
LEMMA ResetStep == ASSUME WifiInv, [Wifi!Next]_Wifi!vars PROVE Wifi!ResetEarned
<1> SUFFICES ASSUME radio' = "off", radio # "off" PROVE failed >= ResetAfter
  BY DEF Wifi!ResetEarned
<1>1. CASE Wifi!RadioOff
  BY <1>1 DEF Wifi!RadioOff, WifiInv, CountedInOutage
<1>2. CASE Wifi!FoundUp \/ Wifi!AttemptEnds \/ Wifi!Connects \/ Wifi!ConnectRaises
  BY <1>2 DEF Wifi!FoundUp, Wifi!AttemptEnds, Wifi!Connects, Wifi!ConnectRaises, Wifi!Aborted
<1>3. CASE Wifi!FoundDown \/ Wifi!InFlight \/ Wifi!BacksOff \/ Wifi!Tick \/ UNCHANGED Wifi!vars
  BY <1>3 DEF Wifi!FoundDown, Wifi!InFlight, Wifi!BacksOff, Wifi!Tick, Wifi!vars
<1>4. CASE Wifi!Associates \/ Wifi!GivesUp \/ Wifi!LinkLost
  BY <1>4 DEF Wifi!Associates, Wifi!GivesUp, Wifi!LinkLost
<1> QED
  BY <1>1, <1>2, <1>3, <1>4 DEF Wifi!Next, Wifi!Maintain

\* An attempt the manager stops counting on is no longer under way, and the radio is switched off
\* only after ResetAfter failures of the same outage, for all times and counts
\* (wifi_manager.py:46-52, 147-157).
THEOREM RadioOnlyWhenEarned == Wifi!Spec => RadioLeftAlone
<1>1. WifiInv /\ [Wifi!Next]_Wifi!vars => [Wifi!QuietWhileWaiting /\ Wifi!ResetEarned]_wifiVars
  BY QuietStep, ResetStep DEF wifiVars, Wifi!vars, Wifi!stateVars
<1> QED
  BY <1>1, WifiInvariance, PTL DEF Wifi!Spec, RadioLeftAlone

-----------------------------------------------------------------------------
(* The settings *)


\* What the entry of a key reads as.
Reads(entries, k) == IF entries[k] \in Values THEN entries[k] ELSE Default

\* A device that has booted has no settings left in config.json; one that is off has lost what
\* was not committed.
Phases ==
    /\ store \in {"on", "writing"} => \A k \in Keys : json[k] = Absent
    /\ store \in {"off", "migrated"} => stored = nvs
    /\ store \in {"off", "migrating", "migrated"} /\ cuts = 0 => ~raised /\ goal[1] = goal[2]

\* Until the boot is over the settings wanted are those of config.json, or those of NVS for the
\* keys it does not set; the latter are never touched, so neither entry can be the wrong one.
Wanted ==
    store \in {"off", "migrating", "migrated"} /\ ~raised /\ goal[1] = goal[2] =>
       \A k \in Keys : IF json[k] \in Values THEN goal[2][k] = json[k]
                       ELSE goal[2][k] = Reads(nvs, k) /\ goal[2][k] = Reads(stored, k)

\* What is left to move is what config.json holds, and what is not left has been moved.
Moving ==
    /\ store = "migrating" => \A k \in Keys : todo[k] # Absent => todo[k] = json[k]
    /\ store = "migrating" =>
          \A k \in Keys : json[k] \in Values /\ todo[k] = Absent => nvs[k] = json[k]
    /\ store = "migrated" => \A k \in Keys : json[k] \in Values => nvs[k] = json[k]

\* Between requests NVS reads as RAM, and everything is committed.
AtRest ==
    store = "on" /\ ~raised => stored = nvs /\ \A k \in Keys : ram[k] = Reads(nvs, k)

\* During a request RAM is as before, and NVS as before but for the keys already written.
Saving ==
    store = "writing" =>
       /\ goal[1] = ram /\ goal[1] # goal[2]
       /\ \A k \in Keys :
             /\ todo[k] # Absent => todo[k] = goal[2][k]
             /\ todo[k] = Absent /\ k \notin changed => goal[2][k] = ram[k]
             /\ ~raised => Reads(nvs, k) = IF k \in changed THEN goal[2][k] ELSE ram[k]

StoreInv == Store!TypeOK /\ Phases /\ Wanted /\ Moving /\ AtRest /\ Saving /\ Store!SettingsHold

-----------------------------------------------------------------------------
(* Typing *)

LEMMA Distinct ==
    ASSUME Store!SettingsAssumption
    PROVE  /\ Default \in Values /\ Absent \notin Values /\ Invalid \notin Values
           /\ Clear \notin Values /\ Template \notin Values /\ PowerCuts \in Nat
BY DEF Store!SettingsAssumption

\* What set_many() changes, and the settings it is after.
News(req) ==
    [k \in Keys |-> IF Store!Change(k, req[k]) = ram[k] THEN Absent ELSE Store!Change(k, req[k])]

LEMMA SetManyView ==
    ASSUME Store!SettingsAssumption, Store!TypeOK, Store!SetMany
    PROVE  \E news \in [Keys -> Values \cup {Absent}] :
              /\ \A k \in Keys : news[k] # ram[k]
              /\ \E k \in Keys : news[k] # Absent
              /\ store = "on" /\ store' = "writing"
              /\ todo' = news /\ changed' = {}
              /\ goal' = <<ram, [k \in Keys |-> IF news[k] = Absent THEN ram[k] ELSE news[k]]>>
              /\ UNCHANGED <<nvs, stored, json, ram, cuts, raised>>
<1>1. PICK req \in [Keys -> UNION {Store!Requested(k) : k \in Keys}] :
        /\ \A k \in Keys : req[k] \in Store!Requested(k) /\ req[k] # Invalid
        /\ News(req) # Store!NoWork
        /\ store = "on" /\ store' = "writing"
        /\ todo' = News(req) /\ changed' = {}
        /\ goal' = <<ram, [k \in Keys |-> IF News(req)[k] = Absent THEN ram[k] ELSE News(req)[k]]>>
        /\ UNCHANGED <<nvs, stored, json, ram, cuts, raised>>
  BY DEF Store!SetMany, News
<1>2. ASSUME NEW k \in Keys PROVE Store!Change(k, req[k]) \in Values \cup {Absent}
  BY <1>1, Distinct DEF Store!Change, Store!Requested
<1>3. News(req) \in [Keys -> Values \cup {Absent}]
  BY <1>2 DEF News
<1>4. \A k \in Keys : News(req)[k] # ram[k]
  BY Distinct DEF News, Store!TypeOK, Store!Settings
<1>5. \E k \in Keys : News(req)[k] # Absent
  <2> SUFFICES ASSUME \A k \in Keys : News(req)[k] = Absent PROVE FALSE
    OBVIOUS
  <2>1. News(req) = Store!NoWork
    BY <1>3 DEF Store!NoWork
  <2> QED
    BY <1>1, <2>1
<1> QED
  BY <1>1, <1>3, <1>4, <1>5

LEMMA StoreTypeInit == ASSUME Store!SettingsAssumption, Store!Init PROVE Store!TypeOK
<1>1. PICK want \in {[k \in Keys |-> IF json[k] \in Values THEN json[k] ELSE Store!Loaded[k]]} :
        goal = <<want, want>>
  BY DEF Store!Init
<1>2. goal \in Store!Settings \X Store!Settings
  BY <1>1, Distinct DEF Store!Loaded, Store!Settings
<1>3. ram \in Store!Settings /\ todo \in [Keys -> Values \cup {Absent}]
  BY Distinct DEF Store!Init, Store!Settings, Store!NoWork
<1>4. {nvs, stored} \subseteq [Keys -> Values \cup {Invalid, Absent}]
  BY DEF Store!Init
<1>5. cuts \in 0..PowerCuts
  BY Distinct DEF Store!Init
<1>6. raised \in BOOLEAN
  BY Zenon DEF Store!Init
<1> QED
  BY <1>2, <1>3, <1>4, <1>5, <1>6 DEF Store!Init, Store!TypeOK

LEMMA StoreTypeStep ==
    ASSUME Store!SettingsAssumption, StoreInv, [Store!Next]_Store!vars
    PROVE  Store!TypeOK'
<1> USE Distinct DEF StoreInv, Store!TypeOK, Store!Settings, Store!NoWork
<1>1. CASE Store!Boot
  BY <1>1 DEF Store!Boot, Store!Loaded
<1>2. CASE Store!SetMany
  BY <1>2, SetManyView
<1>3. CASE Store!Commit
  BY <1>3 DEF Store!Commit
<1>4. CASE Store!MigrationSaved
  BY <1>4 DEF Store!MigrationSaved, Store!WithoutLegacy, Store!Loaded
<1>5. CASE Store!Committed
  BY <1>5 DEF Store!Committed, Store!AfterCommit
<1>6. CASE Store!PowerCut
  BY <1>6 DEF Store!PowerCut
<1>7. ASSUME NEW k \in Keys, Store!MigrateKey(k) PROVE Store!TypeOK'
  BY <1>7 DEF Store!MigrateKey
<1>8. ASSUME NEW k \in Keys, Store!WriteKey(k) PROVE Store!TypeOK'
  BY <1>8 DEF Store!WriteKey, Store!RamMeanwhile
<1>9. ASSUME NEW k \in Keys, Store!WriteRaises(k) PROVE Store!TypeOK'
  BY <1>9 DEF Store!WriteRaises
<1>10. CASE UNCHANGED Store!vars
  BY <1>10 DEF Store!vars
<1> QED
  BY <1>1, <1>2, <1>3, <1>4, <1>5, <1>6, <1>7, <1>8, <1>9, <1>10 DEF Store!Next

-----------------------------------------------------------------------------
(* The invariant is kept *)

LEMMA StoreInvInit == ASSUME Store!SettingsAssumption, Store!Init PROVE StoreInv
<1>1. Store!TypeOK
  BY StoreTypeInit
<1>2. /\ store = "off" /\ stored = nvs /\ ~raised
      /\ goal[1] = goal[2]
      /\ \A k \in Keys : goal[2][k] = IF json[k] \in Values THEN json[k] ELSE Store!Loaded[k]
  BY DEF Store!Init
<1>3. Phases /\ Moving /\ AtRest /\ Saving /\ Store!SettingsHold
  BY <1>2
  DEF Phases, Moving, AtRest, Saving, Store!SettingsHold, Store!Durable, Store!AllOrNothing
<1>4. Wanted
  BY <1>2 DEF Wanted, Store!Loaded, Reads
<1> QED
  BY <1>1, <1>3, <1>4 DEF StoreInv

LEMMA BootKept ==
    ASSUME Store!SettingsAssumption, StoreInv, Store!TypeOK', Store!Boot
    PROVE  StoreInv'
<1> USE DEF StoreInv
<1>1. store = "off" /\ changed' = {} /\ UNCHANGED <<nvs, stored, json, cuts, raised, goal>>
  BY DEF Store!Boot
<1>2. CASE \E k \in Keys : json[k] # Absent
  <2>1. /\ store' = "migrating" /\ ram' = ram
        /\ \A k \in Keys : todo'[k] = IF json[k] \in Values THEN json[k] ELSE Absent
    BY <1>2 DEF Store!Boot
  <2>2. Moving'
    BY <1>1, <2>1, Distinct DEF Moving
  <2>3. Phases' /\ Wanted' /\ AtRest' /\ Saving' /\ Store!SettingsHold'
    BY <1>1, <2>1
    DEF Phases, Wanted, Reads, AtRest, Saving, Store!SettingsHold, Store!Durable,
        Store!AllOrNothing
  <2> QED
    BY <2>2, <2>3
<1>3. CASE \A k \in Keys : json[k] = Absent
  <2>1. store' = "on" /\ ram' = Store!Loaded
    BY <1>3 DEF Store!Boot
  <2>2. \A k \in Keys : ram'[k] = Reads(nvs, k)
    BY <2>1 DEF Store!Loaded, Reads
  <2>3. Phases' /\ Wanted' /\ Moving' /\ Saving'
    BY <1>1, <1>3, <2>1 DEF Phases, Wanted, Moving, Saving
  <2>4. AtRest'
    BY <1>1, <2>1, <2>2 DEF Phases, AtRest, Reads
  <2>5. goal[1] = goal[2] /\ ~raised => ram' = goal[2]
    <3> SUFFICES ASSUME goal[1] = goal[2], ~raised PROVE ram' = goal[2]
      OBVIOUS
    <3>1. \A k \in Keys : goal[2][k] = Store!Loaded[k]
      BY <1>1, <1>3, Distinct DEF Wanted, Reads, Store!Loaded
    <3>2. Store!Loaded \in Store!Settings /\ goal[2] \in Store!Settings
      BY Distinct DEF Store!TypeOK, Store!Loaded, Store!Settings
    <3> QED
      BY <2>1, <3>1, <3>2 DEF Store!Settings
  <2>6. Store!SettingsHold'
    BY <1>1, <2>1, <2>5 DEF Phases, Store!SettingsHold, Store!Durable, Store!AllOrNothing
  <2> QED
    BY <2>3, <2>4, <2>6
<1> QED
  BY <1>2, <1>3

LEMMA MoveKept ==
    ASSUME Store!SettingsAssumption, StoreInv, Store!TypeOK', NEW k \in Keys, Store!MigrateKey(k)
    PROVE  StoreInv'
<1> USE DEF StoreInv
<1>1. /\ store = "migrating" /\ todo[k] # Absent
      /\ nvs' = [nvs EXCEPT ![k] = todo[k]]
      /\ todo' = [todo EXCEPT ![k] = Absent]
      /\ UNCHANGED <<stored, json, ram, store, changed, cuts, raised, goal>>
  BY DEF Store!MigrateKey
<1>2. json[k] \in Values /\ todo[k] = json[k]
  BY <1>1, Distinct DEF Moving, Store!TypeOK
<1>3. Moving'
  BY <1>1, <1>2 DEF Moving, Store!TypeOK
<1>4. Wanted'
  BY <1>1, <1>2 DEF Wanted, Reads, Store!TypeOK
<1>5. Phases' /\ AtRest' /\ Saving' /\ Store!SettingsHold'
  BY <1>1 DEF Phases, AtRest, Saving, Store!SettingsHold, Store!Durable, Store!AllOrNothing
<1> QED
  BY <1>3, <1>4, <1>5

LEMMA CommitKept ==
    ASSUME Store!SettingsAssumption, StoreInv, Store!TypeOK', Store!Commit \/ Store!MigrationSaved
    PROVE  StoreInv'
<1> USE DEF StoreInv
<1>1. CASE Store!Commit
  <2>1. /\ store = "migrating" /\ store' = "migrated" /\ stored' = nvs
        /\ \A k \in Keys : todo[k] = Absent
        /\ UNCHANGED <<nvs, json, ram, todo, changed, cuts, raised, goal>>
    BY <1>1 DEF Store!Commit, Store!Pending
  <2>2. Phases' /\ AtRest' /\ Saving' /\ Moving' /\ Store!SettingsHold'
    BY <2>1 DEF Phases, AtRest, Saving, Moving, Store!SettingsHold, Store!Durable,
       Store!AllOrNothing
  <2>3. Wanted'
    BY <2>1 DEF Wanted, Reads
  <2> QED
    BY <2>2, <2>3
<1>2. CASE Store!MigrationSaved
  <2>1. /\ store = "migrated" /\ store' = "on" /\ ram' = Store!Loaded
        /\ \A k \in Keys : json'[k] = Absent
        /\ UNCHANGED <<nvs, stored, todo, changed, cuts, raised, goal>>
    BY <1>2 DEF Store!MigrationSaved, Store!WithoutLegacy, Store!NoWork
  <2>2. \A k \in Keys : ram'[k] = Reads(nvs, k)
    BY <2>1 DEF Store!Loaded, Reads
  <2>3. Phases' /\ Wanted' /\ Moving' /\ Saving'
    BY <2>1 DEF Phases, Wanted, Moving, Saving
  <2>4. AtRest'
    BY <2>1, <2>2 DEF Phases, AtRest, Reads
  <2>5. goal[1] = goal[2] /\ ~raised => ram' = goal[2]
    <3> SUFFICES ASSUME goal[1] = goal[2], ~raised PROVE ram' = goal[2]
      OBVIOUS
    <3>1. \A k \in Keys : goal[2][k] = Store!Loaded[k]
      BY <2>1 DEF Wanted, Moving, Reads, Store!Loaded
    <3>2. Store!Loaded \in Store!Settings /\ goal[2] \in Store!Settings
      BY Distinct DEF Store!TypeOK, Store!Loaded, Store!Settings
    <3> QED
      BY <2>1, <3>1, <3>2 DEF Store!Settings
  <2>6. Store!SettingsHold'
    BY <2>1, <2>5 DEF Phases, Store!SettingsHold, Store!Durable, Store!AllOrNothing
  <2> QED
    BY <2>3, <2>4, <2>6
<1> QED
  BY <1>1, <1>2

LEMMA RequestKept ==
    ASSUME Store!SettingsAssumption, StoreInv, Store!TypeOK', Store!SetMany
    PROVE  StoreInv'
<1> USE DEF StoreInv
<1>1. PICK news \in [Keys -> Values \cup {Absent}] :
        /\ \A k \in Keys : news[k] # ram[k]
        /\ \E k \in Keys : news[k] # Absent
        /\ store = "on" /\ store' = "writing"
        /\ todo' = news /\ changed' = {}
        /\ goal' = <<ram, [k \in Keys |-> IF news[k] = Absent THEN ram[k] ELSE news[k]]>>
        /\ UNCHANGED <<nvs, stored, json, ram, cuts, raised>>
  BY SetManyView
<1>2. \A k \in Keys : goal'[2][k] = IF news[k] = Absent THEN ram[k] ELSE news[k]
  BY <1>1
<1>3. goal'[1] = ram /\ goal'[1] # goal'[2]
  BY <1>1, <1>2
<1>4. Saving'
  BY <1>1, <1>2, <1>3 DEF Saving, AtRest, Reads
<1>5. Phases' /\ Wanted' /\ Moving' /\ AtRest' /\ Store!SettingsHold'
  BY <1>1
  DEF Phases, Wanted, Moving, AtRest, Store!SettingsHold, Store!Durable, Store!AllOrNothing
<1> QED
  BY <1>4, <1>5

LEMMA WriteKept ==
    ASSUME Store!SettingsAssumption, StoreInv, Store!TypeOK', NEW k \in Keys,
           Store!WriteKey(k) \/ Store!WriteRaises(k)
    PROVE  StoreInv'
<1> USE DEF StoreInv
<1>1. CASE Store!WriteKey(k)
  <2>1. /\ store = "writing" /\ todo[k] # Absent
        /\ nvs' = [nvs EXCEPT ![k] = IF todo[k] = Default THEN Absent ELSE todo[k]]
        /\ todo' = [todo EXCEPT ![k] = Absent]
        /\ changed' = changed \cup {k}
        /\ UNCHANGED <<stored, json, ram, store, cuts, raised, goal>>
    BY <1>1 DEF Store!WriteKey, Store!RamMeanwhile
  <2>2. todo[k] \in Values /\ todo[k] = goal[2][k] /\ Reads(nvs', k) = goal[2][k]
    BY <2>1, Distinct DEF Store!TypeOK, Saving, Reads
  <2>3. \A j \in Keys : j # k => nvs'[j] = nvs[j] /\ todo'[j] = todo[j]
    BY <2>1 DEF Store!TypeOK
  <2>4. Saving'
    BY <2>1, <2>2, <2>3 DEF Saving, Reads, Store!TypeOK
  <2>5. Phases' /\ Wanted' /\ Moving' /\ AtRest' /\ Store!SettingsHold'
    BY <2>1 DEF Phases, Wanted, Moving, AtRest, Store!SettingsHold, Store!Durable,
       Store!AllOrNothing
  <2> QED
    BY <2>4, <2>5
<1>2. CASE Store!WriteRaises(k)
  <2>1. /\ store = "writing" /\ store' = "on" /\ raised' = TRUE
        /\ UNCHANGED <<nvs, stored, json, ram, changed, cuts, goal>>
    BY <1>2 DEF Store!WriteRaises
  <2> QED
    BY <2>1
    DEF Phases, Wanted, Moving, AtRest, Saving, Store!SettingsHold, Store!Durable,
        Store!AllOrNothing
<1> QED
  BY <1>1, <1>2

LEMMA SavedKept ==
    ASSUME Store!SettingsAssumption, StoreInv, Store!TypeOK', Store!Committed
    PROVE  StoreInv'
<1> USE DEF StoreInv
<1>1. /\ store = "writing" /\ store' = "on"
      /\ \A k \in Keys : todo[k] = Absent
      /\ \A k \in Keys : ram'[k] = IF k \in changed THEN goal[2][k] ELSE ram[k]
      /\ stored' = nvs
      /\ goal'[1] = goal[2] /\ goal'[2] = goal[2]
      /\ UNCHANGED <<nvs, json, todo, changed, cuts, raised>>
  BY DEF Store!Committed, Store!Pending, Store!AfterCommit
<1>2. \A k \in Keys : ram'[k] = goal[2][k]
  BY <1>1 DEF Saving
<1>3. ram' = goal'[2]
  <2>1. ram' \in [Keys -> Values] /\ goal[2] \in [Keys -> Values]
    BY DEF Store!TypeOK, Store!Settings
  <2> QED
    BY <1>1, <1>2, <2>1
<1>4. AtRest'
  BY <1>1 DEF Saving, AtRest, Reads
<1>5. Phases' /\ Wanted' /\ Moving' /\ Saving'
  BY <1>1 DEF Phases, Wanted, Moving, Saving
<1>6. Store!SettingsHold'
  BY <1>3 DEF Store!SettingsHold, Store!Durable, Store!AllOrNothing
<1> QED
  BY <1>4, <1>5, <1>6

LEMMA CutKept ==
    ASSUME Store!SettingsAssumption, StoreInv, Store!TypeOK', Store!PowerCut
    PROVE  StoreInv'
<1> USE DEF StoreInv
<1>1. PICK lost \in SUBSET Keys :
        nvs' = [k \in Keys |-> IF k \in lost THEN stored[k] ELSE nvs[k]]
  BY DEF Store!PowerCut
<1>2. /\ store # "off" /\ store' = "off" /\ stored' = nvs' /\ cuts' = cuts + 1
      /\ UNCHANGED <<json, raised, goal>>
  BY DEF Store!PowerCut
<1>3. cuts' # 0
  BY <1>2 DEF Store!TypeOK
<1>4. Phases' /\ Moving' /\ AtRest' /\ Saving' /\ Store!SettingsHold'
  BY <1>2, <1>3
  DEF Phases, Moving, AtRest, Saving, Store!SettingsHold, Store!Durable, Store!AllOrNothing
<1>5. Wanted'
  <2> SUFFICES ASSUME ~raised, goal[1] = goal[2], NEW k \in Keys
               PROVE  IF json[k] \in Values THEN goal[2][k] = json[k]
                      ELSE goal[2][k] = Reads(nvs', k)
    BY <1>2 DEF Wanted, Reads
  <2>1. nvs'[k] = stored[k] \/ nvs'[k] = nvs[k]
    BY <1>1
  <2>2. CASE store \in {"migrating", "migrated"}
    BY <2>1, <2>2 DEF Wanted, Reads
  <2>3. CASE store = "on"
    BY <2>1, <2>3, Distinct DEF Phases, AtRest, Reads, Store!SettingsHold, Store!Durable
  <2>4. CASE store = "writing"
    BY <2>4 DEF Saving
  <2> QED
    BY <1>2, <2>2, <2>3, <2>4 DEF Store!TypeOK
<1> QED
  BY <1>4, <1>5

LEMMA StoreInvariance == Store!Spec => []StoreInv
<1>1. StoreInv /\ [Store!Next]_Store!vars => StoreInv'
  <2> USE StoreConstants
  <2> SUFFICES ASSUME StoreInv, [Store!Next]_Store!vars PROVE StoreInv'
    OBVIOUS
  <2>1. Store!TypeOK'
    BY StoreTypeStep
  <2>2. CASE UNCHANGED Store!vars
    BY <2>2
    DEF Store!vars, StoreInv, Store!TypeOK, Phases, Wanted, Moving, AtRest, Saving, Reads,
        Store!SettingsHold, Store!Durable,
        Store!AllOrNothing
  <2> QED
    BY <2>1, <2>2, BootKept, MoveKept, CommitKept, RequestKept, WriteKept, SavedKept, CutKept
    DEF Store!Next
<1>2. Store!Init => StoreInv
  BY StoreConstants, StoreInvInit
<1> QED
  BY <1>1, <1>2, PTL DEF Store!Spec

\* Settings saved, or moved from config.json, are the ones in use after every later boot, and a
\* request is all or nothing in RAM, for all settings and any number of power failures
\* (config.py:145-223).
THEOREM SavedIsUsed == Store!Spec => []SettingsHold
<1>1. StoreInv => SettingsHold
  BY DEF StoreInv, SettingsHold
<1> QED
  BY <1>1, StoreInvariance, PTL

-----------------------------------------------------------------------------
(* The log and the uptime. *)

LEMMA HealthBounds ==
    /\ Period \in Nat /\ Horizon \in Nat /\ MaxGap \in Nat /\ MaxBytes \in Nat
    /\ LongestLine \in Nat /\ Sizes \subseteq 1..LongestLine /\ MaxStuck \in Nat
    /\ MaxBytes > 0 /\ Period > 0 /\ Period \div 2 \in Nat
    /\ MaxGap < Period \div 2 /\ 2 * (Period \div 2) <= Period
    /\ Nobody \notin Threads
<1>1. /\ Period \in Nat /\ Horizon \in Nat /\ MaxGap \in Nat /\ MaxBytes \in Nat
      /\ LongestLine \in Nat /\ Sizes \subseteq 1..LongestLine /\ MaxStuck \in Nat
      /\ MaxBytes > 0 /\ MaxGap < Period \div 2 /\ Nobody \notin Threads
  BY HealthConstants DEF Health!HealthLogAssumption
<1>2. Period \div 2 \in Nat /\ 2 * (Period \div 2) <= Period
  BY <1>1
<1> QED
  BY <1>1, <1>2

\* A number is known by its quotient and its remainder.
LEMMA RemainderIs ==
    ASSUME NEW n \in Nat \ {0}, NEW q \in Int, NEW r \in 0..(n - 1)
    PROVE  (q * n + r) % n = r
<1> DEFINE x == q * n + r
           d == q - x \div n
<1>1. x \in Int /\ x \div n \in Int /\ x % n \in 0..(n - 1) /\ x = n * (x \div n) + (x % n)
  OBVIOUS
<1>2. d \in Int /\ d * n = (x % n) - r
  BY <1>1
<1>3. d <= 0
  <2> SUFFICES ASSUME d >= 1 PROVE FALSE
    BY <1>2
  <2>1. d * n >= n
    BY <1>2
  <2> QED
    BY <1>1, <1>2, <2>1
<1>4. d >= 0
  <2> SUFFICES ASSUME d <= -1 PROVE FALSE
    BY <1>2
  <2>1. d * n <= -n
    BY <1>2
  <2> QED
    BY <1>1, <1>2, <2>1
<1>5. d * n = 0
  BY <1>2, <1>3, <1>4
<1> QED
  BY <1>1, <1>2, <1>5

\* A tick counter that wraps, read some time less than its period later.
LEMMA TicksLater ==
    ASSUME NEW n \in Nat \ {0}, NEW u \in Nat, NEW d \in 0..(n - 1)
    PROVE  (u + d) % n = IF (u % n) + d < n THEN (u % n) + d ELSE (u % n) + d - n
<1>1. u \div n \in Int /\ u % n \in 0..(n - 1) /\ u = (u \div n) * n + (u % n)
  OBVIOUS
<1> DEFINE q == u \div n
           r == u % n
<1> HIDE DEF q, r
<1>2. q \in Int /\ r \in 0..(n - 1) /\ u = q * n + r
  BY <1>1 DEF q, r
<1>3. CASE r + d < n
  <2>1. u + d = q * n + (r + d) /\ r + d \in 0..(n - 1)
    BY <1>2, <1>3
  <2>2. (q * n + (r + d)) % n = r + d
    BY <1>2, <2>1, RemainderIs
  <2> QED
    BY <1>3, <2>1, <2>2 DEF r
<1>4. CASE r + d >= n
  <2>1. u + d = (q + 1) * n + (r + d - n) /\ r + d - n \in 0..(n - 1) /\ q + 1 \in Int
    BY <1>2, <1>4
  <2>2. ((q + 1) * n + (r + d - n)) % n = r + d - n
    BY <2>1, RemainderIs
  <2> QED
    BY <1>2, <1>4, <2>1, <2>2 DEF r
<1> QED
  BY <1>2, <1>3, <1>4

\* ticks_diff() of two readings is the time between them, if that is less than half a period.
LEMMA DiffIsTime ==
    ASSUME NEW u \in Nat, NEW d \in 0..MaxGap
    PROVE  Health!TicksDiff((u + d) % Period, u % Period) = d
<1> DEFINE n == Period
           h == Period \div 2
           r == u % Period
<1>1. n \in Nat \ {0} /\ h \in Nat /\ MaxGap < h /\ 2 * h <= n /\ MaxGap \in Nat
  BY HealthBounds
<1>2. r \in 0..(n - 1)
  BY <1>1
<1> HIDE DEF n, h, r
<1>3. d \in 0..(n - 1) /\ d + h \in 0..(n - 1)
  BY <1>1
<1>4. (u + d) % n = IF r + d < n THEN r + d ELSE r + d - n
  BY <1>1, <1>3, TicksLater DEF n, r
<1>5. (((u + d) % n) - r + h) % n = d + h
  <2>1. CASE r + d < n
    <3>1. ((u + d) % n) - r + h = 0 * n + (d + h)
      BY <1>1, <1>2, <1>3, <1>4, <2>1
    <3>2. (0 * n + (d + h)) % n = d + h
      BY <1>1, <1>3, RemainderIs
    <3> QED
      BY <3>1, <3>2
  <2>2. CASE r + d >= n
    <3>1. ((u + d) % n) - r + h = (-1) * n + (d + h)
      BY <1>1, <1>2, <1>3, <1>4, <2>2
    <3>2. ((-1) * n + (d + h)) % n = d + h
      BY <1>1, <1>3, RemainderIs
    <3> QED
      BY <3>1, <3>2
  <2> QED
    BY <1>1, <1>2, <1>3, <2>1, <2>2
<1>6. (d + h) - h = d
  BY <1>1, <1>3
<1> QED
  BY <1>5, <1>6 DEF Health!TicksDiff, n, h, r

\* What the lines add that a rotation did not make room for.
Overrun == LongestLine * stuck

LEMMA OverrunGrows ==
  ASSUME LongestLine \in Nat, NEW n \in Nat
  PROVE  LongestLine * n \in Nat /\ LongestLine * (n + 1) = LongestLine * n + LongestLine
  OBVIOUS

LEMMA OneIsEnough ==
  ASSUME NEW n \in Nat, NEW m \in Nat, n >= MaxBytes
  PROVE  n + m >= MaxBytes
  BY HealthBounds

\* The accumulator was last read when the counter stood at lastTicks; before the line is appended
\* a rotation has made room, or is one of those that could not; the full log is there until it is
\* the backup.
HealthInv ==
    /\ Health!TypeOK /\ Health!LogHolds
    /\ lastTicks = uptime % Period
    /\ lock # Nobody /\ stage = "append" => log < MaxBytes + Overrun
    /\ lock # Nobody /\ stage = "rename" => log >= MaxBytes
    /\ lock = Nobody => stage = "rotate"

LEMMA HealthInvInit == Health!Init => HealthInv
<1> SUFFICES ASSUME Health!Init PROVE HealthInv
  OBVIOUS
<1> USE HealthBounds DEF Health!Init, Health!NoEntry
<1>1. 0 % Period = 0
  <2>1. (0 * Period + 0) % Period = 0
    BY RemainderIs
  <2> QED
    BY <2>1
<1>2. lastTicks = uptime % Period
  BY <1>1
<1>3. dropped \in BOOLEAN /\ unrenamed \in BOOLEAN /\ ~dropped
  BY Zenon
<1>4. Health!TypeOK
  BY <1>3 DEF Health!TypeOK
<1>5. Health!LogHolds
  <2>1. Health!Slack \in Nat
    BY OverrunGrows DEF Health!Slack
  <2> QED
    BY <1>3, <2>1 DEF Health!LogHolds, Health!UptimeTrue, Health!KeepsLatest, Health!FilesBounded
<1> QED
  BY <1>2, <1>4, <1>5 DEF HealthInv

LEMMA HealthInvStep == HealthInv /\ [Health!Next]_Health!vars => HealthInv'
<1> SUFFICES ASSUME HealthInv, [Health!Next]_Health!vars PROVE HealthInv'
  OBVIOUS
<1> USE HealthBounds
    DEF HealthInv, Health!TypeOK, Health!LogHolds, Health!UptimeTrue, Health!KeepsLatest,
        Health!FilesBounded, Health!NoEntry
<1>0. Overrun \in Nat /\ Health!Slack = Overrun + LongestLine
  BY OverrunGrows DEF Overrun, Health!Slack
<1>a. ASSUME UNCHANGED stuck
      PROVE  Overrun' = Overrun /\ Health!Slack' = Health!Slack
  BY <1>a DEF Overrun, Health!Slack
<1>1. CASE Health!Tick
  BY <1>1, <1>a, <1>0 DEF Health!Tick
<1>2. ASSUME NEW t \in Threads, Health!Stamp(t) PROVE HealthInv'
  <2>1. Health!TicksDiff(time % Period, uptime % Period) = time - uptime
    <3>1. uptime + (time - uptime) = time /\ time - uptime \in 0..MaxGap
      OBVIOUS
    <3> QED
      BY <3>1, DiffIsTime
  <2>2. uptime' = time /\ lastTicks' = time % Period
    BY <1>2, <2>1 DEF Health!Stamp, Health!UptimeNow
  <2>3. lastTicks' \in 0..(Period - 1)
    BY <2>2
  <2> QED
    BY <1>2, <1>a, <1>0, <2>2, <2>3 DEF Health!Stamp
<1>3. ASSUME NEW t \in Threads, Health!Locks(t) PROVE HealthInv'
  BY <1>3, <1>a, <1>0 DEF Health!Locks
<1>4. CASE Health!RotateBegins
  <2>0. UNCHANGED stuck
    BY <1>4 DEF Health!RotateBegins
  <2>1. CASE Health!Full
    <3>1. dropped' \in BOOLEAN
      BY <1>4, <2>1, Zenon DEF Health!RotateBegins
    <3>2. /\ stage' = "rename" /\ log' = log /\ log >= MaxBytes
          /\ UNCHANGED <<time, lastTicks, uptime, unrenamed, stamp, lock>> /\ lock # Nobody
      BY <1>4, <2>1 DEF Health!RotateBegins, Health!Full, Health!RemovesBackup
    <3>3. backup' = 0 \/ backup' = backup
      BY <1>4, <2>1 DEF Health!RotateBegins, Health!RemovesBackup
    <3>4. backup' \in Nat /\ backup' < MaxBytes + Health!Slack
      BY <3>3, <1>0
    <3>5. Health!KeepsLatest'
      <4>1. log' \in Nat /\ log' >= MaxBytes
        BY <3>2
      <4>2. log' + backup' >= MaxBytes
        BY <3>4, <4>1, OneIsEnough
      <4> QED
        BY <4>2
    <3>6. Health!FilesBounded'
      BY <3>2, <3>4, <2>0, <1>a
    <3>7. Health!UptimeTrue' /\ Health!TypeOK'
      BY <3>1, <3>2, <3>4, <2>0
    <3> QED
      BY <3>2, <3>5, <3>6, <3>7
  <2>2. CASE ~Health!Full
    BY <1>4, <2>2, <2>0, <1>a, <1>0 DEF Health!RotateBegins, Health!Full
  <2> QED
    BY <2>1, <2>2
<1>5. CASE Health!RotateEnds
  <2>1. /\ log >= MaxBytes /\ stage = "rename" /\ stage' = "append"
        /\ UNCHANGED <<time, lastTicks, uptime, stamp, lock>> /\ lock # Nobody
    BY <1>5 DEF Health!RotateEnds
  <2>2. CASE /\ log' = 0 /\ backup' = log
             /\ dropped' = (dropped \/ backup > 0) /\ UNCHANGED <<unrenamed, stuck>>
    <3>1. dropped' \in BOOLEAN
      BY <2>2, Zenon
    <3>2. log' = 0 /\ backup' = log /\ UNCHANGED <<unrenamed, stuck>>
      BY <2>2
    <3> QED
      BY <2>1, <3>1, <3>2, <1>a, <1>0
  <2>3. CASE Health!RemovesLog /\ dropped' = TRUE /\ unrenamed' = TRUE /\ UNCHANGED stuck
    BY <2>1, <2>3, <1>a, <1>0 DEF Health!RemovesLog
  <2>4. CASE stuck < MaxStuck /\ stuck' = stuck + 1 /\ UNCHANGED <<log, backup, dropped, unrenamed>>
    <3>1. Overrun' = Overrun + LongestLine /\ Health!Slack' = Overrun' + LongestLine
      BY <2>4, OverrunGrows DEF Overrun, Health!Slack
    <3>2. stuck' \in 0..MaxStuck
      BY <2>4
    <3>3. dropped' \in BOOLEAN /\ unrenamed' \in BOOLEAN /\ log' = log /\ backup' = backup
      BY <2>4
    <3>4. Health!KeepsLatest'
      BY <2>1, <3>3
    <3>5. Health!FilesBounded'
      BY <3>1, <3>3, <1>0
    <3>6. log' < MaxBytes + Overrun'
      BY <3>1, <3>3, <1>0
    <3> QED
      BY <2>1, <3>2, <3>3, <3>4, <3>5, <3>6
  <2> QED
    BY <1>5, <2>2, <2>3, <2>4 DEF Health!RotateEnds
<1>6. CASE Health!Append
  <2>1. PICK size \in Sizes \cup {0} : log' = log + size
    BY <1>6 DEF Health!Append
  <2>2. size \in 0..LongestLine
    BY <2>1
  <2> QED
    BY <1>6, <1>a, <1>0, <2>1, <2>2 DEF Health!Append
<1>7. CASE Health!PowerCut
  <2>1. 0 % Period = 0
    <3>1. (0 * Period + 0) % Period = 0
      BY RemainderIs
    <3> QED
      BY <3>1
  <2> QED
    BY <1>7, <1>a, <1>0, <2>1 DEF Health!PowerCut
<1>8. CASE UNCHANGED Health!vars
  BY <1>8, <1>a, <1>0 DEF Health!vars
<1> QED
  BY <1>1, <1>2, <1>3, <1>4, <1>5, <1>6, <1>7, <1>8 DEF Health!Next

\* What the log says and keeps: uptime is the time since boot however often the counter has
\* wrapped, the latest entries survive every rotation and power failure while a full file can be
\* renamed, and a file outgrows its limit by less than a line, and by a line more for every rotation
\* that could neither rename nor delete it, for all periods, lines and threads (health_log.py:59-118).
THEOREM LogIsTrue == Health!Spec => []LogHolds
<1>1. HealthInv => LogHolds
  BY DEF HealthInv, LogHolds
<1> QED
  BY <1>1, HealthInvInit, HealthInvStep, PTL DEF Health!Spec

-----------------------------------------------------------------------------
(* Side by side *)

LEMMA PartStep ==
    ASSUME [PartNext]_partVars
    PROVE  /\ [Next]_vars /\ [Wifi!Next]_Wifi!vars
           /\ [Store!Next]_Store!vars /\ [Health!Next]_Health!vars
<1> USE DEF wifiVars, storeVars, healthVars, Wifi!vars, Wifi!stateVars, Store!vars, Health!vars
<1>1. CASE LinkRuns(Next)
  BY <1>1 DEF LinkRuns
<1>2. CASE WifiRuns(Wifi!Next)
  BY <1>2 DEF WifiRuns
<1>3. CASE StoreRuns(Store!Next)
  BY <1>3 DEF StoreRuns
<1>4. CASE HealthRuns(Health!Next)
  BY <1>4 DEF HealthRuns
<1>5. CASE UNCHANGED partVars
  BY <1>5 DEF partVars
<1> QED
  BY <1>1, <1>2, <1>3, <1>4, <1>5 DEF PartNext

\* Side by side, as they are model-checked, each part does only what it does alone: what is proved
\* of the parts holds of the behaviours the runs check.
THEOREM DeviceParts == PartSpec => Spec /\ Wifi!Spec /\ Store!Spec /\ Health!Spec
<1>1. PartInit => Init /\ Wifi!Init /\ Store!Init /\ Health!Init
  BY DEF PartInit, WifiRests, StoreRests
<1> QED
  BY <1>1, PartStep, PTL DEF PartSpec, Spec, Wifi!Spec, Store!Spec, Health!Spec

\* Every variable of the connection, the WiFi manager, the settings and the log keeps its type.
THEOREM DeviceTyping == PartSpec => []AllTypesOK
<1>1. Spec => []TypeOK
  BY LinkTyping
<1>2. Health!Spec => []HealthInv
  BY HealthInvInit, HealthInvStep, PTL DEF Health!Spec
<1>3. TypeOK /\ WifiInv /\ StoreInv /\ HealthInv => AllTypesOK
  BY DEF AllTypesOK, WifiInv, StoreInv, HealthInv
<1> QED
  BY <1>1, <1>2, <1>3, DeviceParts, WifiInvariance, StoreInvariance, PTL
=============================================================================
