-------------------------------- MODULE Pages --------------------------------
(***************************************************************************)
(* Three pages of the web client side by side: setting a device up over    *)
(* USB, the MQTT viewer, and the access side of the device page.  They are *)
(* open one at a time and share no state that is modelled: a behaviour     *)
(* belongs to one of them, and the others rest.                            *)
(***************************************************************************)
EXTENDS SerialSetup

CONSTANTS
    Topics, All, Subtopics, Trigger, Cap, MaxClients, MaxHeard, MaxSent,  \* of MqttViewer
    Cards, Names, Keys, None                                              \* of DevicePage

VARIABLES
    part,                                                      \* which of them runs
    status, current, conn, first, subs, field, asked, shown, heard, contract, subtopic, payload,
    result, sent, timers,
    card, label, access, outbox, lastScan, there, window, name, typedFor, meant, deleting, selected

viewerVars == <<status, current, conn, first, subs, field, asked, shown, heard, contract, subtopic,
                payload, result, sent, timers>>
accessVars == <<card, label, access, outbox, lastScan, there, window, name, typedFor, meant,
                deleting, selected>>

Viewer == INSTANCE MqttViewer

Door == INSTANCE DevicePage WITH page <- window

ASSUME ViewerConstants == Viewer!ViewerAssumption
ASSUME DoorConstants == Door!PageAssumption

-----------------------------------------------------------------------------

\* At rest: one initial state.
SetupRests == Init /\ dev = "gone" /\ saved = (CHOOSE v \in Values \ Refused : TRUE)

PartInit ==
    /\ Viewer!Init /\ Door!Init
    /\ part \in {"setup", "viewer", "access"}
    /\ IF part = "setup" THEN Init ELSE SetupRests

SetupRuns(A) == part = "setup" /\ A /\ UNCHANGED <<part, viewerVars, accessVars>>
ViewerRuns(A) == part = "viewer" /\ A /\ UNCHANGED <<part, vars, accessVars>>
DoorRuns(A) == part = "access" /\ A /\ UNCHANGED <<part, vars, viewerVars>>

PartNext == SetupRuns(Next) \/ ViewerRuns(Viewer!Next) \/ DoorRuns(Door!Next)

partVars == <<part, vars, viewerVars, accessVars>>

\* The fairness of SerialSetup
PartFairness ==
    /\ WF_vars(SetupRuns(SessionStep)) /\ WF_vars(SetupRuns(TaskStep))
    /\ WF_vars(SetupRuns(TimesOut)) /\ WF_vars(SetupRuns(CloseEnds))
    /\ WF_vars(SetupRuns(DeviceReads \/ DeviceReadsOld))
    /\ WF_vars(SetupRuns(Resets)) /\ WF_vars(SetupRuns(Boots))

PartSpec == PartInit /\ [][PartNext]_partVars /\ PartFairness

-----------------------------------------------------------------------------
(* The properties of the parts *)

\* The states of all three pages are well-formed.
AllTypesOK == TypeOK /\ Viewer!TypeOK /\ Door!TypeOK

\* The viewer's status, clients, subscriptions, list and payload are what the user was told or asked
\* for (MqttPage.tsx:64-156).
ViewerIsTrue == Viewer!ViewerIsTrue

\* No second key of a card is made from a stale scan, the callout is there until the card scanned
\* last may open the device (DeviceDetailPage.tsx:44-76), and a second access row of a key is only
\* made for a device chosen before (KeysPage.tsx:58).
AccessIsRight == Door!AccessIsRight
=============================================================================
