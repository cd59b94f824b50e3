------------------------------- MODULE Device --------------------------------
(***************************************************************************)
(* Four parts of the firmware side by side: the connection and the scans   *)
(* that wait for it, the WiFi manager, the settings store, and the log.    *)
(* They share no state: a behaviour belongs to one of them, and the others *)
(* rest.                                                                   *)
(***************************************************************************)
EXTENDS DeviceLink

CONSTANTS
    Window, RetryCap, ResetAfter, Settle, WifiFaults,          \* of WifiManager
    Keys, Secrets, Values, Default, Invalid, Clear, Template, Absent, PowerCuts,  \* SettingsStore
    Threads, Nobody, Period, Horizon, MaxGap, MaxBytes, Sizes, LongestLine, MaxStuck  \* HealthLog

VARIABLES
    part,                                                      \* which of them runs
    radio, call, connecting, elapsed, pause, nextPause, failures, resetPending, failed, trouble,
    nvs, stored, json, ram, store, todo, changed, cuts, raised, goal,
    time, lastTicks, uptime, log, backup, dropped, unrenamed, stuck, stamp, lock, stage

wifiVars == <<radio, call, connecting, elapsed, pause, nextPause, failures, resetPending, failed,
              trouble>>
storeVars == <<nvs, stored, json, ram, store, todo, changed, cuts, raised, goal>>
healthVars == <<time, lastTicks, uptime, log, backup, dropped, unrenamed, stuck, stamp, lock, stage>>

Wifi == INSTANCE WifiManager WITH
    BackoffCap <- RetryCap, MaxFaults <- WifiFaults,
    pc <- call, wait <- pause, backoff <- nextPause, faults <- trouble

Store == INSTANCE SettingsStore WITH pc <- store

Health == INSTANCE HealthLog WITH failed <- unrenamed

ASSUME WifiConstants == Wifi!WifiAssumption
ASSUME StoreConstants == Store!SettingsAssumption
ASSUME HealthConstants == Health!HealthLogAssumption

-----------------------------------------------------------------------------

\* At rest: one initial state of each part.
WifiRests == Wifi!Init /\ radio = "up" /\ elapsed = 0
StoreRests == Store!Init /\ nvs = Store!NoWork /\ json = Store!NoWork

PartInit ==
    /\ Init /\ Health!Init
    /\ part \in {"link", "wifi", "store", "health"}
    /\ IF part = "wifi" THEN Wifi!Init ELSE WifiRests
    /\ IF part = "store" THEN Store!Init ELSE StoreRests

LinkRuns(A) == part = "link" /\ A /\ UNCHANGED <<part, wifiVars, storeVars, healthVars>>
WifiRuns(A) == part = "wifi" /\ A /\ UNCHANGED <<part, vars, storeVars, healthVars>>
StoreRuns(A) == part = "store" /\ A /\ UNCHANGED <<part, vars, wifiVars, healthVars>>
HealthRuns(A) == part = "health" /\ A /\ UNCHANGED <<part, vars, wifiVars, storeVars>>

PartNext ==
    \/ LinkRuns(Next) \/ WifiRuns(Wifi!Next) \/ StoreRuns(Store!Next) \/ HealthRuns(Health!Next)

partVars == <<part, vars, wifiVars, storeVars, healthVars>>

\* The fairness of DeviceLink and of WifiManager
PartFairness ==
    /\ WF_vars(LinkRuns(Maintain)) /\ WF_vars(LinkRuns(Flush)) /\ WF_vars(LinkRuns(Tick))
    /\ SF_vars(LinkRuns(FindsLinkDead))
    /\ WF_vars(LinkRuns(WifiReturns)) /\ WF_vars(LinkRuns(BrokerReturns))
    /\ WF_wifiVars(WifiRuns(Wifi!Maintain)) /\ WF_wifiVars(WifiRuns(Wifi!Tick))
    /\ SF_wifiVars(WifiRuns(Wifi!Associates))

PartSpec == PartInit /\ [][PartNext]_partVars /\ PartFairness

-----------------------------------------------------------------------------
(* The properties of the parts *)

\* The states of all four parts are well-formed.
AllTypesOK == TypeOK /\ Wifi!TypeOK /\ Store!TypeOK /\ Health!TypeOK

\* No attempt WifiManager has stopped counting on is under way, and the radio is switched off only
\* after enough failed attempts of this outage (wifi_manager.py:46-52, 109-118, 147-157).
RadioLeftAlone == [][Wifi!QuietWhileWaiting /\ Wifi!ResetEarned]_wifiVars

\* Settings that were saved survive power failures and the move from config.json, and the running
\* device uses all or nothing of a set (config.py:145-223).
SettingsHold == Store!SettingsHold

\* Uptime is the time since boot however often the counter wraps; a rotation never loses the latest
\* entries while files can be renamed, and a file outgrows its limit by less than a line, and a
\* line for every rotation that could do nothing to it (health_log.py:59-118).
LogHolds == Health!LogHolds

\* Whatever broke, WiFi comes back for good, and the connection to the broker, which also drains
\* the queue of scans (wifi_manager.py:100-170, mqtt_client.py:260-325).
DeviceReturns == (part = "link" => ComesBack) /\ (part = "wifi" => Wifi!Returns)
=============================================================================
