------------------------------ MODULE PagesProofs -----------------------------
(***************************************************************************)
(* Proofs about the parts of Pages, for all settings and any number of     *)
(* tries, requests and restarts, any topics, clients and messages, and any *)
(* cards and keys; and that side by side each of them behaves as alone.    *)
(***************************************************************************)
EXTENDS Pages, TLAPS

-----------------------------------------------------------------------------
(* The MQTT viewer *)

\* The topic asked for is subscribed, or will be by the listener that made the client.
ToBeHeard == current # 0 => asked \in subs[current] \cup {first[current]}

ViewerInv ==
    Viewer!TypeOK /\ Viewer!ViewerIsTrue /\ ToBeHeard /\ sent + timers <= MaxSent

LEMMA ViewerBounds ==
    /\ All \in Topics /\ Trigger \in Subtopics /\ Cap \in Nat /\ Cap > 0
    /\ MaxClients \in Nat /\ MaxHeard \in Nat /\ MaxSent \in Nat
    /\ Viewer!Clients = 1..MaxClients
BY ViewerConstants DEF Viewer!ViewerAssumption, Viewer!Clients

LEMMA ViewerInit == ASSUME Viewer!Init PROVE ViewerInv
<1>1. contract \in BOOLEAN
  BY Zenon DEF Viewer!Init
<1>2. Viewer!TypeOK
  <2>1. /\ conn \in [Viewer!Clients -> Viewer!Live \cup {"unused", "ended", "gone"}]
        /\ first \in [Viewer!Clients -> Topics] /\ subs \in [Viewer!Clients -> SUBSET Topics]
        /\ {field, asked} \subseteq Topics
    BY ViewerBounds DEF Viewer!Init
  <2>2. shown \in Seq(1..MaxHeard) /\ Len(shown) <= Cap /\ heard \in 0..MaxHeard
    BY ViewerBounds DEF Viewer!Init
  <2>3. /\ status \in {"idle", "connecting", "connected", "error"}
        /\ current \in {0} \cup Viewer!Clients
        /\ subtopic \in Subtopics /\ payload \in Subtopics \cup {"custom"}
        /\ result \in {"blank", "unconnected", "sending", "error", "published"}
        /\ {sent, timers} \subseteq 0..MaxSent
    BY ViewerBounds DEF Viewer!Init
  <2> QED
    BY <1>1, <2>1, <2>2, <2>3 DEF Viewer!TypeOK
<1>3. Viewer!ShowsNewest
  <2>1. (IF heard < Cap THEN heard ELSE Cap) = 0
    BY ViewerBounds DEF Viewer!Init
  <2>2. [i \in 1..0 |-> heard + 1 - i] = <<>>
    OBVIOUS
  <2> QED
    BY <2>1, <2>2 DEF Viewer!Init, Viewer!ShowsNewest
<1>4. ToBeHeard /\ Viewer!ConnectedIsTrue /\ Viewer!NoClientLeft /\ Viewer!HearsWhatWasAsked
  BY DEF Viewer!Init, ToBeHeard, Viewer!ConnectedIsTrue, Viewer!NoClientLeft,
         Viewer!HearsWhatWasAsked, Viewer!Live
<1>5. Viewer!PayloadFits
  BY DEF Viewer!Init, Viewer!PayloadFits
<1> QED
  BY <1>2, <1>3, <1>4, <1>5, ViewerBounds DEF ViewerInv, Viewer!ViewerIsTrue, Viewer!Init

\* The clients and their subscriptions, whatever a step does to the rest.
ConnTypes ==
    /\ status \in {"idle", "connecting", "connected", "error"}
    /\ current \in {0} \cup Viewer!Clients
    /\ conn \in [Viewer!Clients -> Viewer!Live \cup {"unused", "ended", "gone"}]
    /\ first \in [Viewer!Clients -> Topics] /\ subs \in [Viewer!Clients -> SUBSET Topics]
    /\ {field, asked} \subseteq Topics

ConnInv ==
    /\ ConnTypes /\ ToBeHeard
    /\ Viewer!ConnectedIsTrue /\ Viewer!NoClientLeft /\ Viewer!HearsWhatWasAsked

\* The list of messages
ListInv ==
    /\ heard \in 0..MaxHeard /\ shown \in Seq(1..MaxHeard) /\ Len(shown) <= Cap
    /\ Viewer!ShowsNewest

\* The message that is written
WriteInv ==
    /\ contract \in BOOLEAN /\ subtopic \in Subtopics /\ payload \in Subtopics \cup {"custom"}
    /\ Viewer!PayloadFits

\* Its way out
SendInv ==
    /\ result \in {"blank", "unconnected", "sending", "error", "published"}
    /\ {sent, timers} \subseteq 0..MaxSent /\ sent + timers <= MaxSent

LEMMA ViewerViews ==
    /\ ViewerInv <=> ConnInv /\ ListInv /\ WriteInv /\ SendInv
    /\ ViewerInv' <=> ConnInv' /\ ListInv' /\ WriteInv' /\ SendInv'
BY DEF ViewerInv, Viewer!TypeOK, Viewer!ViewerIsTrue, ConnInv, ConnTypes, ListInv, WriteInv,
       SendInv

LEMMA EndedClients ==
    ASSUME ConnInv
    PROVE  /\ Viewer!Ended \in [Viewer!Clients -> Viewer!Live \cup {"unused", "ended", "gone"}]
           /\ \A c \in Viewer!Clients : Viewer!Ended[c] \notin Viewer!Live
BY DEF ConnInv, ConnTypes, Viewer!Ended, Viewer!NoClientLeft, Viewer!Live

LEMMA ConnStep == ASSUME ConnInv, [Viewer!Next]_Viewer!vars PROVE ConnInv'
<1> USE ViewerBounds DEF ConnInv, ConnTypes, ToBeHeard, Viewer!ConnectedIsTrue,
        Viewer!NoClientLeft, Viewer!HearsWhatWasAsked, Viewer!Live
<1>1. CASE Viewer!HandleConnect
  <2>1. PICK c \in Viewer!Clients :
          /\ conn' = [Viewer!Ended EXCEPT ![c] = "opening"] /\ current' = c
          /\ first' = [first EXCEPT ![c] = field]
    BY <1>1 DEF Viewer!HandleConnect
  <2>2. status' = "connecting" /\ asked' = field /\ UNCHANGED <<subs, field>>
    BY <1>1 DEF Viewer!HandleConnect
  <2>3. ConnTypes' /\ ToBeHeard'
    BY <2>1, <2>2, EndedClients
  <2>4. Viewer!NoClientLeft'
    BY <2>1, EndedClients
  <2> QED
    BY <2>2, <2>3, <2>4
<1>2. CASE Viewer!HandleDisconnect
  BY <1>2, EndedClients DEF Viewer!HandleDisconnect
<1>3. CASE Viewer!HandleResubscribe
  BY <1>3 DEF Viewer!HandleResubscribe, Viewer!Resubscribed
<1>4. CASE Viewer!EditTopic \/ Viewer!Leave
  BY <1>4 DEF Viewer!EditTopic, Viewer!Leave, Viewer!connVars
<1>5. ASSUME NEW c \in Viewer!Clients,
             Viewer!OnConnect(c) \/ Viewer!OnError(c) \/ Viewer!OnClose(c) \/ Viewer!Reconnects(c)
      PROVE  ConnInv'
  <2>1. CASE Viewer!OnConnect(c)
    BY <2>1 DEF Viewer!OnConnect
  <2>2. CASE Viewer!OnError(c)
    BY <2>2 DEF Viewer!OnError
  <2>3. CASE Viewer!OnClose(c)
    BY <2>3 DEF Viewer!OnClose, Viewer!StatusClosed
  <2>4. CASE Viewer!Reconnects(c)
    BY <2>4 DEF Viewer!Reconnects
  <2> QED
    BY <1>5, <2>1, <2>2, <2>3, <2>4
<1>6. CASE UNCHANGED <<Viewer!connVars, field>>
  BY <1>6 DEF Viewer!connVars
<1> QED
  BY <1>1, <1>2, <1>3, <1>4, <1>5, <1>6
  DEF Viewer!Next, Viewer!OnMessage, Viewer!SelectSubtopic, Viewer!ToggleContract,
      Viewer!EditPayload, Viewer!HandlePublish, Viewer!PublishEnds, Viewer!TimerClears,
      Viewer!vars

LEMMA ListStep == ASSUME ListInv, [Viewer!Next]_Viewer!vars PROVE ListInv'
<1> USE ViewerBounds
<1>1. CASE Viewer!Cleared
  BY <1>1 DEF ListInv, Viewer!Cleared, Viewer!ShowsNewest
<1>2. ASSUME NEW c \in Viewer!Clients, Viewer!OnMessage(c)
      PROVE  ListInv'
  <2>1. /\ heard' = heard + 1 /\ heard < MaxHeard
        /\ shown' = Viewer!Newest(<<heard'>> \o shown)
    BY <1>2 DEF Viewer!OnMessage
  <2> DEFINE n == IF heard < Cap THEN heard ELSE Cap
             longer == <<heard + 1>> \o shown
  <2>2. heard \in Nat /\ n \in Nat /\ shown = [i \in 1..n |-> heard + 1 - i]
    BY DEF ListInv, Viewer!ShowsNewest
  <2>3. /\ longer \in Seq(1..MaxHeard) /\ Len(longer) = n + 1
        /\ \A i \in 1..(n + 1) : longer[i] = heard + 2 - i
    <3>1. Len(shown) = n /\ \A i \in 1..n : shown[i] = heard + 1 - i
      BY <2>2
    <3>2. shown \in Seq(1..MaxHeard) /\ heard + 1 \in 1..MaxHeard
      BY <2>1, <2>2 DEF ListInv
    <3>3. longer \in Seq(1..MaxHeard) /\ Len(longer) = n + 1
      BY <2>2, <3>1, <3>2
    <3> HIDE DEF n
    <3>4. \A i \in 1..(n + 1) : longer[i] = IF i = 1 THEN heard + 1 ELSE shown[i - 1]
      BY <2>2, <3>1, <3>2
    <3>5. ASSUME NEW i \in 1..(n + 1) PROVE longer[i] = heard + 2 - i
      <4>1. CASE i = 1
        BY <2>2, <3>4, <4>1
      <4>2. CASE i # 1
        <5>1. i - 1 \in 1..n /\ i \in Nat
          BY <2>2, <4>2
        <5>2. longer[i] = heard + 1 - (i - 1)
          BY <3>1, <3>4, <4>2, <5>1
        <5> QED
          BY <2>2, <5>1, <5>2
      <4> QED
        BY <4>1, <4>2
    <3> QED
      BY <3>3, <3>5
  <2> DEFINE m == IF heard' < Cap THEN heard' ELSE Cap
  <2>4. m \in Nat /\ (n + 1 <= Cap => m = n + 1) /\ (n + 1 > Cap => m = Cap)
    BY <2>1, <2>2
  <2>5. /\ shown' \in Seq(1..MaxHeard) /\ Len(shown') = m
        /\ \A i \in 1..m : shown'[i] = heard + 2 - i
    <3> HIDE DEF n, m, longer
    <3>1. shown' = IF Len(longer) > Cap THEN SubSeq(longer, 1, Cap) ELSE longer
      BY <2>1 DEF Viewer!Newest, longer
    <3>2. CASE n + 1 <= Cap
      BY <2>2, <2>3, <2>4, <3>1, <3>2
    <3>3. CASE n + 1 > Cap
      BY <2>2, <2>3, <2>4, <3>1, <3>3
    <3> QED
      BY <2>2, <3>2, <3>3
  <2>6. shown' = [i \in 1..m |-> heard' + 1 - i]
    <3> HIDE DEF m, n
    <3>1. shown' = [i \in 1..m |-> shown'[i]]
      BY <2>4, <2>5
    <3>2. ASSUME NEW i \in 1..m PROVE shown'[i] = heard' + 1 - i
      <4>1. i \in Nat /\ shown'[i] = heard + 2 - i
        BY <2>4, <2>5
      <4> QED
        BY <2>1, <2>2, <4>1
    <3> QED
      BY <3>1, <3>2
  <2>7. m <= Cap /\ heard' \in 0..MaxHeard
    BY <2>1, <2>2
  <2> QED
    BY <2>5, <2>6, <2>7 DEF ListInv, Viewer!ShowsNewest
<1>3. CASE UNCHANGED Viewer!listVars
  BY <1>3 DEF ListInv, Viewer!ShowsNewest, Viewer!listVars
<1> QED
  BY <1>1, <1>2, <1>3
  DEF Viewer!Next, Viewer!HandleConnect, Viewer!HandleDisconnect, Viewer!HandleResubscribe,
      Viewer!EditTopic, Viewer!Leave, Viewer!OnConnect, Viewer!OnError, Viewer!OnClose,
      Viewer!Reconnects, Viewer!SelectSubtopic, Viewer!ToggleContract, Viewer!EditPayload,
      Viewer!HandlePublish, Viewer!PublishEnds, Viewer!TimerClears, Viewer!vars

LEMMA WriteStep == ASSUME WriteInv, [Viewer!Next]_Viewer!vars PROVE WriteInv'
<1>1. CASE Viewer!SelectSubtopic
  <2>1. contract = TRUE /\ contract' = contract
    BY <1>1, Zenon DEF WriteInv, Viewer!SelectSubtopic
  <2> QED
    BY <1>1, <2>1 DEF WriteInv, Viewer!PayloadFits, Viewer!SelectSubtopic, Viewer!Preset
<1>2. CASE Viewer!ToggleContract
  <2>1. contract' \in BOOLEAN
    BY <1>2, Zenon DEF Viewer!ToggleContract
  <2> QED
    BY <1>2, <2>1 DEF WriteInv, Viewer!PayloadFits, Viewer!ToggleContract, Viewer!Preset
<1>3. CASE Viewer!EditPayload
  BY <1>3 DEF WriteInv, Viewer!PayloadFits, Viewer!EditPayload
<1>4. CASE Viewer!Leave
  <2>1. contract' \in BOOLEAN
    BY <1>4, Zenon DEF Viewer!Leave
  <2> QED
    BY <1>4, <2>1, ViewerBounds DEF WriteInv, Viewer!PayloadFits, Viewer!Leave
<1>5. CASE UNCHANGED Viewer!writeVars
  BY <1>5 DEF WriteInv, Viewer!PayloadFits, Viewer!writeVars
<1> QED
  BY <1>1, <1>2, <1>3, <1>4, <1>5
  DEF Viewer!Next, Viewer!HandleConnect, Viewer!HandleDisconnect, Viewer!HandleResubscribe,
      Viewer!EditTopic, Viewer!OnConnect, Viewer!OnError, Viewer!OnClose, Viewer!OnMessage,
      Viewer!Reconnects, Viewer!HandlePublish, Viewer!PublishEnds, Viewer!TimerClears,
      Viewer!formVars, Viewer!vars

LEMMA SendStep == ASSUME SendInv, [Viewer!Next]_Viewer!vars PROVE SendInv'
<1> USE ViewerBounds DEF SendInv
<1>1. CASE Viewer!HandlePublish \/ Viewer!PublishEnds \/ Viewer!TimerClears \/ Viewer!Leave
  <2>1. CASE Viewer!HandlePublish
    BY <2>1 DEF Viewer!HandlePublish
  <2>2. CASE Viewer!PublishEnds
    BY <2>2 DEF Viewer!PublishEnds
  <2>3. CASE Viewer!TimerClears
    BY <2>3 DEF Viewer!TimerClears
  <2>4. CASE Viewer!Leave
    BY <2>4 DEF Viewer!Leave
  <2> QED
    BY <1>1, <2>1, <2>2, <2>3, <2>4
<1>2. CASE UNCHANGED Viewer!sendVars
  BY <1>2 DEF Viewer!sendVars
<1> QED
  BY <1>1, <1>2
  DEF Viewer!Next, Viewer!HandleConnect, Viewer!HandleDisconnect, Viewer!HandleResubscribe,
      Viewer!EditTopic, Viewer!OnConnect, Viewer!OnError, Viewer!OnClose, Viewer!OnMessage,
      Viewer!Reconnects, Viewer!SelectSubtopic, Viewer!ToggleContract, Viewer!EditPayload,
      Viewer!formVars, Viewer!vars

LEMMA ViewerInvariance == Viewer!Spec => []ViewerInv
<1>1. ViewerInv /\ [Viewer!Next]_Viewer!vars => ViewerInv'
  BY ViewerViews, ConnStep, ListStep, WriteStep, SendStep
<1>2. Viewer!Init => ViewerInv
  BY ViewerInit
<1> QED
  BY <1>1, <1>2, PTL DEF Viewer!Spec

\* For any number of clients and topics and every length of the list, the viewer's "connected" is
\* true of its own client, which hears what the user asked for last; the list is the newest
\* messages; and what is published was written for its subtopic (MqttPage.tsx:64-156).
THEOREM ViewerTellsTruth == Viewer!Spec => []ViewerIsTrue
<1>1. ViewerInv => ViewerIsTrue
  BY DEF ViewerInv, ViewerIsTrue
<1> QED
  BY <1>1, ViewerInvariance, PTL

-----------------------------------------------------------------------------
(* The access side of the device page *)

\* The id of a key is used once; the key a scan came with, if it is still there, is the card's.
ScansAndKeys ==
    /\ \A k \in Keys : label[k] = None => access[k] = 0
    /\ lastScan # Door!NoScan => lastScan.card \in Cards
    /\ lastScan.key # None =>
          label[lastScan.key] # None /\ card[lastScan.key] \in {None, lastScan.card}

\* Only keys that are there can be chosen.
ChosenKeys == \A k \in selected : card[k] # None

DoorInv == Door!TypeOK /\ ScansAndKeys /\ ChosenKeys /\ Door!OneKeyPerCard

LEMMA NoneIsNothing == None \notin Cards /\ None \notin Names /\ None \notin Keys
BY DoorConstants DEF Door!PageAssumption

\* However old the scan is, the page finds the keys its card has now.
LEMMA FindsKeys ==
    ASSUME DoorInv, lastScan # Door!NoScan
    PROVE  Door!ScannedKey = Door!KeysOf(lastScan.card)
<1> USE NoneIsNothing DEF DoorInv, Door!TypeOK, ScansAndKeys, ChosenKeys, Door!OneKeyPerCard
<1>1. lastScan.card \in Cards /\ lastScan.key \in Keys \cup {None}
  OBVIOUS
<1>2. CASE lastScan.key # None /\ card[lastScan.key] # None
  <2>1. lastScan.key \in Keys /\ card[lastScan.key] = lastScan.card
    BY <1>1, <1>2
  <2>2. Door!KeysOf(lastScan.card) = {lastScan.key}
    BY <1>1, <1>2, <2>1 DEF Door!KeysOf
  <2> QED
    BY <1>2, <2>2 DEF Door!ScannedKey
<1>3. CASE ~(lastScan.key # None /\ card[lastScan.key] # None)
  <2> DEFINE found == Door!KeysOf(lastScan.card)
  <2>1. \A k, l \in found : k = l
    BY <1>1 DEF Door!KeysOf
  <2>2. Door!ScannedKey = IF found = {} THEN {} ELSE {CHOOSE k \in found : TRUE}
    BY <1>3 DEF Door!ScannedKey
  <2> HIDE DEF found
  <2>3. CASE found # {}
    <3>1. (CHOOSE k \in found : TRUE) \in found
      BY <2>3
    <3> QED
      BY <2>1, <2>2, <3>1, <2>3 DEF found
  <2> QED
    BY <2>2, <2>3 DEF found
<1> QED
  BY <1>2, <1>3

LEMMA DoorInit == ASSUME Door!Init PROVE DoorInv
<1>1. there \in BOOLEAN
  BY Zenon DEF Door!Init
<1> QED
  BY <1>1, NoneIsNothing
  DEF Door!Init, DoorInv, Door!TypeOK, ScansAndKeys, ChosenKeys, Door!OneKeyPerCard,
      Door!NoScan, Door!Row

LEMMA DoorStep == ASSUME DoorInv, [Door!Next]_Door!vars PROVE DoorInv'
<1> USE NoneIsNothing
    DEF DoorInv, Door!TypeOK, ScansAndKeys, ChosenKeys, Door!OneKeyPerCard, Door!NoScan
<1>1. CASE Door!TypeName
  BY <1>1 DEF Door!TypeName, Door!storeVars, Door!ScannedKey, Door!LastUnauth
<1>2. CASE Door!HandleAddKey
  <2>1. PICK k \in Keys :
          /\ card[k] = None /\ label[k] = None
          /\ card' = [card EXCEPT ![k] = lastScan.card]
          /\ label' = [label EXCEPT ![k] = name]
          /\ access' = [access EXCEPT ![k] = @ + 1]
          /\ outbox' = outbox \o << <<"key", k>>, <<"access", k>> >>
          /\ meant' = [meant EXCEPT ![k] = typedFor]
    BY <1>2 DEF Door!HandleAddKey
  <2>2. /\ name' = None /\ typedFor' = None /\ name \in Names
        /\ UNCHANGED <<lastScan, there, window, deleting, selected>>
    BY <1>2 DEF Door!HandleAddKey, Door!CanAdd
  <2>3. lastScan # Door!NoScan /\ Door!KeysOf(lastScan.card) = {}
    BY <1>2, FindsKeys DEF Door!HandleAddKey, Door!CanAdd, Door!LastUnauth
  <2>4. outbox' \in Seq(Door!Row)
    BY <2>1 DEF Door!Row
  <2>5. Door!TypeOK'
    BY <2>1, <2>2, <2>3, <2>4
  <2>6. Door!OneKeyPerCard' /\ ScansAndKeys' /\ ChosenKeys'
    BY <2>1, <2>2, <2>3 DEF Door!KeysOf
  <2> QED
    BY <2>5, <2>6
<1>3. ASSUME NEW k \in Keys, Door!Grants(k), card[k] # None, selected' \in SUBSET selected
      PROVE  DoorInv'
  <2>1. label[k] # None
    BY <1>3
  <2>2. outbox' \in Seq(Door!Row)
    BY <1>3 DEF Door!Row, Door!Grants
  <2>3. /\ access' = [access EXCEPT ![k] = access[k] + 1] /\ access[k] + 1 \in Nat
        /\ UNCHANGED <<card, label, lastScan, there, window, name, typedFor, deleting, meant>>
    BY <1>3 DEF Door!Grants
  <2> QED
    BY <1>3, <2>1, <2>2, <2>3
<1>4. CASE Door!HandleGrantKey
  <2>1. PICK k \in Door!ScannedKey : Door!Grants(k)
    BY <1>4 DEF Door!HandleGrantKey
  <2>2. lastScan # Door!NoScan /\ UNCHANGED selected
    BY <1>4 DEF Door!HandleGrantKey, Door!LastUnauth
  <2>3. k \in Keys /\ card[k] = lastScan.card /\ lastScan.card \in Cards
    BY <2>1, <2>2, FindsKeys DEF Door!KeysOf
  <2> QED
    BY <1>3, <2>1, <2>2, <2>3
<1>5. ASSUME NEW k \in Keys, Door!AttachDevice(k)
      PROVE  DoorInv'
  BY <1>3, <1>5 DEF Door!AttachDevice, ChosenKeys
<1>6. ASSUME NEW k \in Keys,
             Door!HandleRemoveKey(k) \/ Door!OtherRevokes(k) \/ Door!OtherGrants(k)
      PROVE  DoorInv'
  <2>1. PICK n \in Nat : access' = [access EXCEPT ![k] = n] /\ (access[k] > 0 \/ card[k] # None)
    <3>1. CASE Door!OtherGrants(k)
      BY <3>1 DEF Door!OtherGrants
    <3>2. CASE Door!HandleRemoveKey(k) \/ Door!OtherRevokes(k)
      <4>1. Door!Granted(k) /\ access' = [access EXCEPT ![k] = @ - 1]
        BY <3>2 DEF Door!HandleRemoveKey, Door!OtherRevokes
      <4>2. access[k] \in Nat /\ access[k] > 0
        BY <4>1 DEF Door!Granted
      <4>3. access[k] - 1 \in Nat
        BY <4>2
      <4> DEFINE n == access[k] - 1
      <4>4. access' = [access EXCEPT ![k] = n] /\ n \in Nat
        BY <4>1, <4>3, Zenon
      <4> HIDE DEF n
      <4> QED
        BY <4>2, <4>4, Zenon
    <3> QED
      BY <1>6, <3>1, <3>2
  <2>2. UNCHANGED <<card, label, outbox, lastScan, there, window, name, typedFor, deleting,
                    selected, meant>>
    BY <1>6 DEF Door!HandleRemoveKey, Door!OtherRevokes, Door!OtherGrants, Door!formVars
  <2> QED
    BY <2>1, <2>2
<1>7. ASSUME NEW k \in Keys, Door!DeleteKey(k) \/ Door!OtherDeletes(k)
      PROVE  DoorInv'
  <2>1. card' = [card EXCEPT ![k] = None] /\ selected' = selected \ {k}
    BY <1>7 DEF Door!DeleteKey, Door!OtherDeletes, Door!Removes
  <2>2. UNCHANGED <<label, access, outbox, lastScan, there, window, name, typedFor, deleting,
                    meant>>
    BY <1>7 DEF Door!DeleteKey, Door!OtherDeletes, Door!Removes
  <2>3. Door!TypeOK'
    BY <2>1, <2>2
  <2>4. ScansAndKeys' /\ ChosenKeys' /\ Door!OneKeyPerCard'
    BY <2>1, <2>2
  <2> QED
    BY <2>3, <2>4
<1>8. ASSUME NEW k \in Keys, NEW c \in Cards, Door!OtherAdds(k, c)
      PROVE  DoorInv'
  <2>1. PICK n \in Names : label' = [label EXCEPT ![k] = n]
    BY <1>8 DEF Door!OtherAdds
  <2> QED
    BY <1>8, <2>1 DEF Door!OtherAdds, Door!KeysOf, Door!formVars
<1>9. ASSUME NEW c \in Cards, Door!ScanArrives(c)
      PROVE  DoorInv'
  <2> DEFINE known == {k \in Door!KeysOf(c) : Door!Posted(<<"key", k>>)}
  <2>1. lastScan' = [card |-> c, key |-> IF known = {} THEN None ELSE CHOOSE k \in known : TRUE]
    BY <1>9 DEF Door!ScanArrives
  <2>2. known \subseteq Keys /\ \A k \in known : card[k] = c
    BY DEF Door!KeysOf
  <2> HIDE DEF known
  <2>3. known # {} => (CHOOSE k \in known : TRUE) \in known
    OBVIOUS
  <2>4. lastScan'.card = c /\ (lastScan'.key = None \/ lastScan'.key \in known)
    BY <2>1, <2>3
  <2>5. UNCHANGED <<card, label, access, outbox, there, window, name, typedFor, deleting, selected,
                    meant>>
    BY <1>9 DEF Door!ScanArrives, Door!formVars
  <2>6. lastScan' \in [card : Cards \cup {None}, key : Keys \cup {None}]
    BY <2>1, <2>2, <2>3
  <2>7. Door!TypeOK' /\ Door!OneKeyPerCard'
    BY <2>5, <2>6
  <2>8. ScansAndKeys' /\ ChosenKeys'
    BY <2>2, <2>4, <2>5
  <2> QED
    BY <2>7, <2>8
<1>10. CASE Door!Confirms \/ Door!Leave \/ Door!Open \/ (\E k \in Keys : Door!SelectDevice(k))
  BY <1>10
  DEF Door!Confirms, Door!Leave, Door!Open, Door!SelectDevice, Door!Closes, Door!storeVars,
      Door!formVars
<1>11. CASE Door!HandleDelete \/ Door!DeviceDeleted
  <2>1. there' \in BOOLEAN
    BY <1>11, Zenon DEF Door!HandleDelete, Door!DeviceDeleted
  <2> QED
    BY <1>11, <2>1 DEF Door!HandleDelete, Door!DeviceDeleted, Door!Closes, Door!formVars
<1>12. CASE Door!OutboxPosted
  BY <1>12 DEF Door!OutboxPosted, Door!formVars
<1>13. CASE UNCHANGED Door!vars
  BY <1>13 DEF Door!vars, Door!storeVars, Door!formVars
<1> QED
  BY <1>1, <1>2, <1>4, <1>5, <1>6, <1>7, <1>8, <1>9, <1>10, <1>11, <1>12, <1>13 DEF Door!Next

LEMMA DoorInvariance == Door!Spec => []DoorInv
<1> QED
  BY DoorInit, DoorStep, PTL DEF Door!Spec

\* For any number of cards, keys and admins: the page never makes a second key of a card, and its
\* callout is true of the card scanned last, however stale the scan is (DeviceDetailPage.tsx:44-76).
LEMMA CalloutStaysTrue == Door!Spec => [](Door!OneKeyPerCard /\ Door!CalloutTrue)
<1>1. DoorInv => Door!CalloutTrue
  <2> SUFFICES ASSUME DoorInv, lastScan # Door!NoScan PROVE Door!CalloutTrue
    BY DEF Door!CalloutTrue, Door!LastUnauth
  <2>1. Door!ScannedKey = Door!KeysOf(lastScan.card)
    BY FindsKeys
  <2> QED
    BY <2>1 DEF Door!CalloutTrue, Door!LastUnauth, Door!KeysOf, Door!Allowed
<1>2. DoorInv => Door!OneKeyPerCard /\ Door!CalloutTrue
  BY <1>1 DEF DoorInv
<1> QED
  BY <1>2, DoorInvariance, PTL

\* Nor does it grant what is granted, unless the device was chosen on the keys page before
\* (DeviceDetailPage.tsx:49-52, KeysPage.tsx:58).
LEMMA NoSecondAccess == Door!Spec => Door!SecondOnlyIfChosen
<1> DEFINE Fits == \A k \in Keys : access'[k] > access[k] /\ access[k] > 0 => k \in selected
<1>1. ASSUME DoorInv, [Door!Next]_Door!vars PROVE Fits
  <2> SUFFICES ASSUME NEW k \in Keys, access'[k] > access[k], access[k] > 0 PROVE k \in selected
    OBVIOUS
  <2>1. access \in [Keys -> Nat]
    BY <1>1 DEF DoorInv, Door!TypeOK
  <2>2. ASSUME NEW l \in Keys, access' = [access EXCEPT ![l] = @ + 1] PROVE k = l
    BY <2>1, <2>2
  <2>3. CASE Door!HandleAddKey
    <3>1. PICK l \in Keys : label[l] = None /\ access' = [access EXCEPT ![l] = @ + 1]
      BY <2>3 DEF Door!HandleAddKey
    <3>2. k = l /\ access[l] = 0
      BY <1>1, <2>2, <3>1 DEF DoorInv, ScansAndKeys
    <3> QED
      BY <3>2
  <2>4. CASE Door!HandleGrantKey
    <3>1. PICK l \in Door!ScannedKey : access' = [access EXCEPT ![l] = @ + 1]
      BY <2>4 DEF Door!HandleGrantKey, Door!Grants
    <3>2. lastScan # Door!NoScan /\ l \notin Door!Allowed
      BY <2>4, <3>1 DEF Door!HandleGrantKey, Door!LastUnauth
    <3>3. l \in Keys /\ card[l] = lastScan.card /\ lastScan.card # None
      BY <1>1, <3>1, <3>2, FindsKeys, NoneIsNothing DEF Door!KeysOf, DoorInv, ScansAndKeys
    <3>4. k = l /\ ~(access[l] > 0)
      BY <2>2, <3>1, <3>2, <3>3 DEF Door!Allowed
    <3> QED
      BY <3>4
  <2>5. ASSUME NEW l \in Keys, Door!AttachDevice(l) PROVE k \in selected
    BY <2>2, <2>5 DEF Door!AttachDevice, Door!Grants
  <2>6. ASSUME NEW l \in Keys, Door!OtherGrants(l) PROVE FALSE
    BY <2>1, <2>6 DEF Door!OtherGrants
  <2>7. ASSUME NEW l \in Keys, Door!HandleRemoveKey(l) \/ Door!OtherRevokes(l) PROVE FALSE
    BY <2>1, <2>7 DEF Door!HandleRemoveKey, Door!OtherRevokes
  <2>8. ASSUME UNCHANGED access PROVE FALSE
    BY <2>1, <2>8
  <2>9. CASE \E l \in Keys : \/ Door!DeleteKey(l) \/ Door!OtherDeletes(l) \/ Door!SelectDevice(l)
                           \/ \E c \in Cards : Door!OtherAdds(l, c)
    BY <2>8, <2>9
    DEF Door!DeleteKey, Door!OtherDeletes, Door!Removes, Door!SelectDevice, Door!OtherAdds,
        Door!storeVars
  <2>10. CASE \/ Door!TypeName \/ Door!Confirms \/ Door!HandleDelete \/ Door!Leave \/ Door!Open
              \/ Door!OutboxPosted \/ Door!DeviceDeleted \/ UNCHANGED Door!vars
              \/ \E c \in Cards : Door!ScanArrives(c)
    BY <2>8, <2>10
    DEF Door!TypeName, Door!Confirms, Door!HandleDelete, Door!Leave, Door!Open,
        Door!OutboxPosted, Door!DeviceDeleted, Door!ScanArrives, Door!storeVars, Door!vars
  <2> QED
    BY <1>1, <2>3, <2>4, <2>5, <2>6, <2>7, <2>9, <2>10 DEF Door!Next
<1> QED
  BY <1>1, DoorInvariance, PTL DEF Door!Spec, Door!SecondOnlyIfChosen

\* For any number of cards, keys and admins, what is stale on a page makes no second key of a card,
\* and no second access row but for a device that was chosen before (DeviceDetailPage.tsx:44-76,
\* KeysPage.tsx:58).
THEOREM AccessStaysRight == Door!Spec => AccessIsRight
BY CalloutStaysTrue, NoSecondAccess DEF AccessIsRight, Door!AccessIsRight

-----------------------------------------------------------------------------
(* Setting a device up over USB: the invariant *)

Requests == ToSet(toDev)
Answers == ToSet(toPage)

\* A session that is over has no requests; one the page holds is not over; a task keeps the page
\* from being ready, and goes on only in an open session.
SessionInv ==
    /\ open # "open" => pending = {} /\ toDev = <<>> /\ toPage = <<>> /\ oldToPage = <<>>
    /\ dev = "gone" => open # "open"
    /\ open = "closed" => ~ref
    /\ task # "none" => phase # "ready"
    /\ phase = "ready" => ref
    /\ Awaits[task] # {} /\ Answered => open = "open"
    /\ task \in {"reopen", "detach"} => open # "open"

\* No two lines under way have one identifier.
Once(lines) ==
    \A i, j \in DOMAIN lines : i # j /\ lines[i].id # 0 => lines[i].id # lines[j].id

\* What the device answers, as far as the page can tell.
WellMade(m) ==
    /\ m.cmd # "set" => m.ok
    /\ m.cmd = "get" => m.data \in Values
    /\ m.cmd = "set" /\ m.ok => m.data \in {"kept", "changed"}

\* A request that is pending, its line, and the answer to it.
LineInv ==
    /\ nextId > 0
    /\ \A p \in pending : 0 < p.id /\ p.id < nextId
    /\ \A m \in Requests : 0 < m.id /\ m.id < nextId /\ (m.cmd = "set" => m.val \in Values)
    /\ \A m \in Answers : m.id < nextId /\ WellMade(m) /\ (m.id = 0 => ~m.ok)
    /\ \A p \in pending, m \in Requests \cup Answers : p.id = m.id => p.cmd = m.cmd
    /\ Once(toDev) /\ Once(toPage)
    /\ \A m \in Requests, n \in Answers : m.id # n.id

\* Requests of earlier sessions
OldInv == \A m \in ToSet(oldToDev) : m.cmd = "set" => m.val \in Values

\* What a task goes on with
Kept == IF task = "reread" THEN {"set"} ELSE {}

\* The task waits for its own requests, each asked once, and has answers to the others.
TaskInv ==
    /\ \A p \in pending : p.cmd \in Awaits[task] \cup {"poll"}
    /\ \A p, q \in pending : p.cmd = q.cmd /\ p.cmd # "poll" => p = q
    /\ \A g \in got : ~g.late => g.asked = g.cmd /\ WellMade(g)
    /\ \A g \in got, p \in pending : g.asked # p.cmd
    /\ \A g, h \in got : g.asked = h.asked => g = h
    /\ task # "reopen" => \A g \in got : g.asked \in Awaits[task] \cup Kept

\* A save that is read back has worked.
SetWorked == task = "reread" => \A g \in got : g.asked = "set" => g.ok

\* What holds without crashes and late answers.  Of earlier sessions the device has only polls left,
\* and those while no session is open ...
NoneOld ==
    /\ open = "open" => oldToDev = <<>> /\ oldToPage = <<>>
    /\ \A m \in ToSet(oldToDev) : m.cmd = "poll"
    /\ \A g \in got : ~g.late

\* ... every line is about a request that is pending ...
NoOrphans == \A m \in Requests \cup Answers : m.id # 0 => \E p \in pending : p.id = m.id

Heard == Answers \cup got
Naming == task \in {"info", "reinfo"}

\* ... the device runs whenever somebody waits for it ...
DeviceRuns ==
    open = "open" =>
        /\ ~Naming /\ task # "reboot" => dev = "on"
        /\ Naming /\ Heard # {} => dev = "on"
        /\ task = "reboot" => IF \E m \in Heard : m.cmd = "reboot"
                              THEN dev # "on" \/ running = saved
                              ELSE dev = "on"

\* ... every request but a save and those for the name has its line, and no task has lost one ...
NoneLost ==
    open = "open" =>
        /\ ~Naming => \A c \in Awaits[task] \ {"set"} : Has(c) \/ \E p \in pending : p.cmd = c
        /\ \A p \in pending : p.cmd \notin {"poll", "set", "info"} => UnderWay(p)

\* The answer to a request that changed the settings.
Applied(m) == m.cmd = "set" /\ m.ok /\ m.data = "changed"

\* ... the settings shown are the device's unless an answer that says otherwise is under way ...
AsShown ==
    open = "open" =>
        /\ \A m \in Heard : m.cmd = "get" => m.data = saved
        /\ Naming \/ task \in {"load", "reread"} \/ values = saved \/ \E m \in Heard : Applied(m)

\* ... and the same goes for the wish for a reboot.
Announced ==
    dev = "on" /\ saved # running =>
        rebootRequired \/ (open = "open" /\ \E m \in Heard : Applied(m))

Clean == dev # "hung" /\ NoneOld /\ NoOrphans /\ DeviceRuns /\ NoneLost /\ AsShown /\ Announced

CleanInv == faults = 0 => Clean

Sound == TypeOK /\ SessionInv /\ LineInv /\ OldInv /\ TaskInv /\ SetWorked

SetupInv == Sound /\ CleanInv

-----------------------------------------------------------------------------
(* Lines *)

LEMMA SerialBounds ==
    /\ Refused \subseteq Values /\ TooLong \subseteq Values /\ Values \ Refused # {}
    /\ Nothing \notin Values
    /\ Tries \in Nat /\ MaxId \in Nat /\ MaxFaults \in Nat /\ Plugs \in Nat
BY SerialAssumption

LEMMA AwaitsOf ==
    /\ DOMAIN Awaits = {"info", "reinfo", "load", "refresh", "set", "reread", "reboot", "none",
                        "fill", "detach", "reopen"}
    /\ Awaits["info"] = {"info"} /\ Awaits["reinfo"] = {"info"}
    /\ Awaits["load"] = {"schema", "get", "status"} /\ Awaits["refresh"] = {"get", "status"}
    /\ Awaits["set"] = {"set"} /\ Awaits["reread"] = {"get"} /\ Awaits["reboot"] = {"reboot"}
    /\ Awaits["none"] = {} /\ Awaits["fill"] = {} /\ Awaits["detach"] = {}
    /\ Awaits["reopen"] = {}
BY DEF Awaits

LEMMA HeadAndTail ==
    ASSUME NEW S, NEW s \in Seq(S), s # <<>>
    PROVE  /\ Head(s) \in S /\ Tail(s) \in Seq(S)
           /\ ToSet(s) = {Head(s)} \cup ToSet(Tail(s))
           /\ Once(s) => Once(Tail(s))
           /\ Once(s) => \A m \in ToSet(Tail(s)) : m.id # 0 => m.id # Head(s).id
<1>1. /\ Tail(s) \in Seq(S) /\ Head(s) \in S /\ Head(s) = s[1] /\ Len(s) \in Nat /\ Len(s) > 0
      /\ Len(Tail(s)) = Len(s) - 1 /\ \A i \in 1..Len(Tail(s)) : Tail(s)[i] = s[i + 1]
      /\ DOMAIN s = 1..Len(s) /\ DOMAIN Tail(s) = 1..(Len(s) - 1)
  OBVIOUS
<1> DEFINE r == Tail(s)
           n == Len(s)
<1> HIDE DEF r, n
<1>2. /\ n \in Nat /\ n > 0 /\ DOMAIN s = 1..n /\ DOMAIN r = 1..(n - 1)
      /\ \A i \in 1..(n - 1) : r[i] = s[i + 1]
  BY <1>1 DEF r, n
<1>3. ToSet(s) = {s[1]} \cup ToSet(r)
  <2>1. ASSUME NEW i \in 1..n PROVE s[i] \in {s[1]} \cup ToSet(r)
    <3>1. CASE i # 1
      <4>1. i - 1 \in 1..(n - 1) /\ r[i - 1] = s[i]
        BY <1>2, <3>1
      <4> QED
        BY <1>2, <4>1 DEF ToSet
    <3> QED
      BY <3>1
  <2>2. ASSUME NEW i \in 1..(n - 1) PROVE r[i] \in ToSet(s)
    BY <1>2 DEF ToSet
  <2>3. s[1] \in ToSet(s)
    BY <1>2 DEF ToSet
  <2> QED
    BY <1>2, <2>1, <2>2, <2>3 DEF ToSet
<1>4. Once(s) => Once(r)
  <2> SUFFICES ASSUME Once(s), NEW i \in 1..(n - 1), NEW j \in 1..(n - 1), i # j, r[i].id # 0
               PROVE  r[i].id # r[j].id
    BY <1>2 DEF Once
  <2>1. i + 1 \in 1..n /\ j + 1 \in 1..n /\ i + 1 # j + 1
    BY <1>2
  <2>2. \A a, b \in 1..n : a # b /\ s[a].id # 0 => s[a].id # s[b].id
    BY <1>2 DEF Once
  <2>3. r[i] = s[i + 1] /\ r[j] = s[j + 1]
    BY <1>2
  <2> QED
    BY <2>1, <2>2, <2>3
<1>5. ASSUME Once(s), NEW i \in 1..(n - 1), r[i].id # 0 PROVE r[i].id # s[1].id
  <2>1. i + 1 \in 1..n /\ i + 1 # 1 /\ 1 \in 1..n
    BY <1>2
  <2> QED
    BY <1>2, <1>5, <2>1 DEF Once
<1>6. Once(s) => \A m \in ToSet(r) : m.id # 0 => m.id # s[1].id
  BY <1>2, <1>5 DEF ToSet
<1> QED
  BY <1>1, <1>3, <1>4, <1>6 DEF r

LEMMA Appended ==
    ASSUME NEW S, NEW s \in Seq(S), NEW x \in S
    PROVE  /\ Append(s, x) \in Seq(S) /\ ToSet(Append(s, x)) = ToSet(s) \cup {x}
           /\ Once(s) /\ (x.id # 0 => \A m \in ToSet(s) : m.id # x.id) => Once(Append(s, x))
<1> DEFINE r == Append(s, x)
           n == Len(s)
<1>1. /\ r \in Seq(S) /\ n \in Nat /\ DOMAIN s = 1..n /\ DOMAIN r = 1..(n + 1)
      /\ \A i \in 1..n : r[i] = s[i]
      /\ r[n + 1] = x
  OBVIOUS
<1> HIDE DEF r, n
<1>2. \A i \in 1..(n + 1) : i \in 1..n \/ i = n + 1
  BY <1>1
<1>3. ToSet(r) = ToSet(s) \cup {x}
  <2>1. \A i \in 1..n : i \in 1..(n + 1)
    BY <1>1
  <2>2. n + 1 \in 1..(n + 1)
    BY <1>1
  <2> QED
    BY <1>1, <1>2, <2>1, <2>2 DEF ToSet
<1>4. ASSUME Once(s), x.id # 0 => \A m \in ToSet(s) : m.id # x.id,
             NEW i \in 1..(n + 1), NEW j \in 1..(n + 1), i # j, r[i].id # 0
      PROVE  r[i].id # r[j].id
  <2>1. \A k \in 1..n : s[k] \in ToSet(s)
    BY <1>1 DEF ToSet
  <2>2. CASE i \in 1..n /\ j \in 1..n
    BY <1>1, <1>4, <2>2 DEF Once
  <2>3. CASE i \in 1..n /\ j = n + 1
    BY <1>1, <1>4, <2>1, <2>3
  <2>4. CASE i = n + 1 /\ j \in 1..n
    BY <1>1, <1>4, <2>1, <2>4
  <2> QED
    BY <1>2, <1>4, <2>2, <2>3, <2>4
<1>5. Once(s) /\ (x.id # 0 => \A m \in ToSet(s) : m.id # x.id) => Once(r)
  BY <1>1, <1>4 DEF Once
<1> QED
  BY <1>1, <1>3, <1>5 DEF r

LEMMA NoLines == ToSet(<<>>) = {} /\ Once(<<>>)
BY DEF ToSet, Once

LEMMA OneLine == \A m : ToSet(<<m>>) = {m} /\ Once(<<m>>)
BY DEF ToSet, Once

LEMMA Concatenated ==
    ASSUME NEW S, NEW s \in Seq(S), NEW t \in Seq(S)
    PROVE  /\ s \o t \in Seq(S) /\ ToSet(s \o t) = ToSet(s) \cup ToSet(t)
           /\ Once(s) /\ Once(t) /\ (\A m \in ToSet(s), n \in ToSet(t) : m.id # n.id)
              => Once(s \o t)
<1> DEFINE r == s \o t
           n == Len(s)
           k == Len(t)
<1>1. /\ r \in Seq(S) /\ n \in Nat /\ k \in Nat /\ DOMAIN s = 1..n /\ DOMAIN t = 1..k
      /\ DOMAIN r = 1..(n + k)
      /\ \A i \in 1..(n + k) : r[i] = IF i <= n THEN s[i] ELSE t[i - n]
  OBVIOUS
<1> HIDE DEF r, n, k
<1>2. \A i \in 1..n : i \in 1..(n + k) /\ r[i] = s[i]
  BY <1>1
<1>3. \A j \in 1..k : j + n \in 1..(n + k) /\ r[j + n] = t[j]
  <2> SUFFICES ASSUME NEW j \in 1..k PROVE j + n \in 1..(n + k) /\ r[j + n] = t[j]
    OBVIOUS
  <2>1. j + n \in 1..(n + k) /\ ~(j + n <= n) /\ (j + n) - n = j
    BY <1>1
  <2> QED
    BY <1>1, <2>1
<1>4. \A i \in 1..(n + k) : i \in 1..n \/ \E j \in 1..k : i = j + n
  <2> SUFFICES ASSUME NEW i \in 1..(n + k), i \notin 1..n PROVE i - n \in 1..k /\ i = (i - n) + n
    BY <1>1
  <2> QED
    BY <1>1
<1>5. ToSet(r) = ToSet(s) \cup ToSet(t)
  <2>1. ToSet(r) \subseteq ToSet(s) \cup ToSet(t)
    <3> SUFFICES ASSUME NEW i \in 1..(n + k) PROVE r[i] \in ToSet(s) \cup ToSet(t)
      BY <1>1 DEF ToSet
    <3>1. CASE i \in 1..n
      BY <1>1, <1>2, <3>1 DEF ToSet
    <3>2. ASSUME NEW j \in 1..k, i = j + n PROVE r[i] \in ToSet(t)
      BY <1>1, <1>3, <3>2 DEF ToSet
    <3> QED
      BY <1>4, <3>1, <3>2
  <2>2. ToSet(s) \subseteq ToSet(r)
    BY <1>1, <1>2 DEF ToSet
  <2>3. ToSet(t) \subseteq ToSet(r)
    BY <1>1, <1>3 DEF ToSet
  <2> QED
    BY <2>1, <2>2, <2>3
<1>6. ASSUME Once(s), Once(t), \A m \in ToSet(s), p \in ToSet(t) : m.id # p.id
      PROVE  Once(r)
  <2>1. /\ \A i \in 1..n : s[i] \in ToSet(s)
        /\ \A i \in 1..k : t[i] \in ToSet(t)
    BY <1>1 DEF ToSet
  <2> SUFFICES ASSUME NEW i \in 1..(n + k), NEW j \in 1..(n + k), i # j, r[i].id # 0
               PROVE  r[i].id # r[j].id
    BY <1>1 DEF Once
  <2>2. CASE i \in 1..n /\ j \in 1..n
    BY <1>1, <1>2, <1>6, <2>2 DEF Once
  <2>3. CASE i \in 1..n /\ j \notin 1..n
    BY <1>2, <1>3, <1>4, <1>6, <2>1, <2>3
  <2>4. CASE i \notin 1..n /\ j \in 1..n
    BY <1>2, <1>3, <1>4, <1>6, <2>1, <2>4
  <2>5. CASE i \notin 1..n /\ j \notin 1..n
    <3>1. PICK a \in 1..k, b \in 1..k : i = a + n /\ j = b + n
      BY <1>4, <2>5
    <3>2. a # b /\ r[i] = t[a] /\ r[j] = t[b]
      BY <1>3, <3>1
    <3>3. \A p, q \in 1..k : p # q /\ t[p].id # 0 => t[p].id # t[q].id
      BY <1>1, <1>6 DEF Once
    <3> QED
      BY <3>2, <3>3
  <2> QED
    BY <2>2, <2>3, <2>4, <2>5
<1> QED
  BY <1>1, <1>5, <1>6 DEF r

-----------------------------------------------------------------------------
(* What a step does to the lines *)

\* Requests are given up, or lines on the way to the device are lost.
Drops == /\ pending' \subseteq pending /\ toDev' \in {toDev, <<>>}
         /\ UNCHANGED <<toPage, nextId>>

Clears == pending' = {} /\ toDev' = <<>> /\ toPage' = <<>> /\ nextId' = nextId

Asks == \E cmds \in Seq(Commands), val \in Values \cup {Nothing} :
           Ask(cmds, val) /\ \A i \in DOMAIN cmds : cmds[i] = "set" => val \in Values

LEMMA Programs ==
    /\ {<<"info">>, <<"poll">>, <<"set">>, <<"get">>, <<"reboot">>, <<"get", "status">>,
        <<"schema", "get", "status">>} \subseteq Seq(Commands)
    /\ \A cmds \in {<<"info">>, <<"poll">>, <<"get">>, <<"reboot">>, <<"get", "status">>,
                    <<"schema", "get", "status">>} :
          \A i \in DOMAIN cmds : cmds[i] # "set"
BY DEF Commands

LEMMA AskSteps ==
    ASSUME Refresh \/ Save \/ Reboot \/ Poll \/ InfoAgain \/ GotInfo \/ WasSet
    PROVE  Asks
<1>1. CASE Refresh
  <2>1. Ask(<<"get", "status">>, Nothing)
    BY <1>1 DEF Refresh, Begins
  <2> QED
    BY <2>1, Programs DEF Asks
<1>2. CASE Save
  <2>1. PICK v \in Values : Ask(<<"set">>, v)
    BY <1>2 DEF Save, Begins
  <2> QED
    BY <2>1, Programs DEF Asks
<1>3. CASE Reboot
  <2>1. Ask(<<"reboot">>, Nothing)
    BY <1>3 DEF Reboot, Begins
  <2> QED
    BY <2>1, Programs DEF Asks
<1>4. CASE Poll
  <2>1. Ask(<<"poll">>, Nothing)
    BY <1>4 DEF Poll
  <2> QED
    BY <2>1, Programs DEF Asks
<1>5. CASE InfoAgain
  <2>1. Ask(<<"info">>, Nothing)
    BY <1>5 DEF InfoAgain
  <2> QED
    BY <2>1, Programs DEF Asks
<1>6. CASE GotInfo
  <2>1. Ask(<<"schema", "get", "status">>, Nothing)
    BY <1>6 DEF GotInfo
  <2> QED
    BY <2>1, Programs DEF Asks
<1>7. CASE WasSet
  <2>1. Ask(<<"get">>, Nothing)
    BY <1>7 DEF WasSet
  <2> QED
    BY <2>1, Programs DEF Asks
<1> QED
  BY <1>1, <1>2, <1>3, <1>4, <1>5, <1>6, <1>7

LEMMA WireStep ==
    ASSUME [Next]_vars
    PROVE  Drops \/ Clears \/ Asks \/ Opens \/ DeviceReads \/ PageReads
<1>1. CASE Refresh \/ Save \/ Reboot \/ Poll \/ InfoAgain \/ GotInfo \/ WasSet
  BY <1>1, AskSteps
<1>2. CASE InfoGivesUp \/ RebootAnswered \/ Disconnect \/ Unplug
  BY <1>2 DEF InfoGivesUp, RebootAnswered, Disconnect, Unplug, Closes, Ended, wire, Clears, Drops
<1>3. CASE Connect \/ Reopen
  BY <1>3 DEF Connect, Reopen, wire, Drops
<1>4. CASE TimesOut \/ CloseEnds \/ TaskFails \/ PageReadsOld \/ DeviceReadsOld
  BY <1>4
  DEF TimesOut, CanTimeOut, CloseEnds, TaskFails, PageReadsOld, Hears, DeviceReadsOld, Drops
<1>5. CASE ConnectFails \/ Shown \/ Detached \/ Saved \/ Filled \/ ReopenLater \/ ReopenFails
           \/ FillFromServer
  BY <1>5 DEF ConnectFails, Shown, Detached, Saved, Filled, ReopenLater, ReopenFails,
              FillFromServer, EndsHere, wire, Drops
<1>6. CASE Resets \/ Crashes \/ Boots \/ PlugIn
  BY <1>6 DEF Resets, Crashes, Boots, PlugIn, wire, Drops
<1>7. CASE UNCHANGED vars
  BY <1>7 DEF vars, wire, Drops
<1> QED
  BY <1>1, <1>2, <1>3, <1>4, <1>5, <1>6, <1>7
  DEF Next, SessionStep, TaskStep, Click, Device

\* A request gets an identifier of its own.
LEMMA Asked ==
    ASSUME NEW cmds \in Seq(Commands), NEW val \in Values \cup {Nothing}, Ask(cmds, val),
           nextId \in Nat, nextId > 0, toDev \in Seq(Request)
    PROVE  LET n == Len(cmds)
           IN /\ n \in Nat /\ nextId' = nextId + n
              /\ pending' = pending \cup {[id |-> nextId + i - 1, cmd |-> cmds[i]] : i \in 1..n}
              /\ Requests' = Requests \cup
                    {[id |-> nextId + i - 1, cmd |-> cmds[i], val |-> val] : i \in 1..n}
              /\ toDev' \in Seq(Request)
              /\ Once(toDev) /\ (\A m \in Requests : m.id < nextId) => Once(toDev')
              /\ UNCHANGED <<toPage, open, old>>
<1> DEFINE n == Len(cmds)
           new == [i \in 1..n |-> [id |-> nextId + i - 1, cmd |-> cmds[i], val |-> val]]
<1>1. n \in Nat /\ DOMAIN cmds = 1..n /\ \A i \in 1..n : cmds[i] \in Commands
  OBVIOUS
<1> HIDE DEF n
<1>2. \A i \in 1..n : nextId + i - 1 \in Nat /\ nextId + i - 1 >= nextId
  BY <1>1
<1>3. \A i \in 1..n : [id |-> nextId + i - 1, cmd |-> cmds[i], val |-> val] \in Request
  BY <1>1, <1>2 DEF Request
<1>4. new \in Seq(Request)
  BY <1>1, <1>3
<1>5. /\ toDev' = toDev \o new /\ nextId' = nextId + n /\ UNCHANGED <<toPage, open, old>>
      /\ pending' = pending \cup {[id |-> nextId + i - 1, cmd |-> cmds[i]] : i \in 1..n}
  BY <1>1 DEF Ask, IdOf, n
<1>6. /\ ToSet(new) = {[id |-> nextId + i - 1, cmd |-> cmds[i], val |-> val] : i \in 1..n}
      /\ \A m \in ToSet(new) : m.id >= nextId
  BY <1>2 DEF ToSet
<1>7. Once(new)
  BY <1>1, <1>2 DEF Once
<1> HIDE DEF new
<1>8. toDev' \in Seq(Request) /\ Requests' = Requests \cup ToSet(new)
  BY <1>4, <1>5, Concatenated DEF Requests
<1>9. ASSUME Once(toDev), \A m \in Requests : m.id < nextId
      PROVE  Once(toDev')
  <2>1. \A m \in ToSet(toDev), k \in ToSet(new) : m.id # k.id
    <3> SUFFICES ASSUME NEW m \in ToSet(toDev), NEW k \in ToSet(new) PROVE m.id # k.id
      OBVIOUS
    <3>1. m.id < nextId /\ k.id >= nextId
      BY <1>6, <1>9 DEF Requests
    <3>2. m \in Request /\ k \in Request
      BY <1>4 DEF ToSet
    <3> QED
      BY <3>1, <3>2 DEF Request
  <2> QED
    BY <1>4, <1>5, <1>7, <1>9, <2>1, Concatenated
<1> QED
  BY <1>1, <1>5, <1>6, <1>8, <1>9 DEF n

\* What the device makes of a line.
LEMMA WhatIsAnswered ==
    ASSUME NEW m \in Request, m.cmd = "set" => m.val \in Values, saved \in Values \ Refused
    PROVE  LET a == Answer(m) IN
           /\ a \in Response /\ a.cmd = m.cmd /\ WellMade(a)
           /\ a.id = m.id \/ (a.id = 0 /\ ~a.ok /\ m.cmd = "set")
           /\ a.cmd = "get" => a.data = saved
           /\ m.cmd = "set" /\ Accepts(m.val) /\ m.val # saved => Applied(a)
           /\ m.id # 0 /\ m.cmd # "set" => a.id = m.id
<1> USE SerialBounds
<1>1. CASE m.cmd = "set" /\ m.val \in TooLong
  BY <1>1 DEF Answer, Reply, Request, Response, Data, WellMade, Accepts
<1>2. CASE m.cmd = "set" /\ m.val \notin TooLong /\ m.val \in Refused
  BY <1>2 DEF Answer, Reply, Request, Response, Data, WellMade, Accepts
<1>3. CASE m.cmd = "set" /\ m.val \notin TooLong /\ m.val \notin Refused
  BY <1>3 DEF Answer, Reply, Request, Response, Data, WellMade, Accepts, Applied
<1>4. CASE m.cmd # "set"
  BY <1>4 DEF Answer, Reply, Request, Response, Data, WellMade, Accepts
<1> QED
  BY <1>1, <1>2, <1>3, <1>4

-----------------------------------------------------------------------------
(* Types, and the lines under way *)

DeviceTypes ==
    /\ dev \in {"gone", "booting", "on", "resetting", "hung"}
    /\ plugs \in 0..Plugs /\ faults \in 0..MaxFaults
    /\ saved \in Values \ Refused /\ running \in Values \ Refused

WireTypes ==
    /\ toDev \in Seq(Request) /\ toPage \in Seq(Response)
    /\ open \in {"closed", "open", "closing"} /\ nextId \in Nat
    /\ pending \in SUBSET [id : Nat, cmd : Commands] /\ \A p \in pending : p.id < nextId

PageTypes ==
    /\ phase \in {"idle", "connecting", "ready", "busy"} /\ task \in DOMAIN Awaits
    /\ {ref, rebootRequired, port} \subseteq BOOLEAN /\ left \in 0..Tries
    /\ values \in Values \cup {Nothing, "other"} /\ got \in SUBSET Taken

OldTypes == oldToDev \in Seq(Request) /\ oldToPage \in Seq(Response)

LEMMA TypeViews ==
    /\ TypeOK <=> DeviceTypes /\ WireTypes /\ OldTypes /\ PageTypes
    /\ TypeOK' <=> DeviceTypes' /\ WireTypes' /\ OldTypes' /\ PageTypes'
<1>1. /\ {toDev, oldToDev} \subseteq Seq(Request) <=>
            toDev \in Seq(Request) /\ oldToDev \in Seq(Request)
      /\ {toPage, oldToPage} \subseteq Seq(Response) <=>
            toPage \in Seq(Response) /\ oldToPage \in Seq(Response)
  OBVIOUS
<1>2. /\ {toDev, oldToDev}' \subseteq Seq(Request) <=>
            toDev' \in Seq(Request) /\ oldToDev' \in Seq(Request)
      /\ {toPage, oldToPage}' \subseteq Seq(Response) <=>
            toPage' \in Seq(Response) /\ oldToPage' \in Seq(Response)
  OBVIOUS
<1> QED
  BY <1>1, <1>2 DEF TypeOK, DeviceTypes, WireTypes, OldTypes, PageTypes

LEMMA SetupStart == ASSUME Init PROVE SetupInv
<1>1. {ref, rebootRequired, port} \subseteq BOOLEAN
  <2>1. ref \in BOOLEAN /\ rebootRequired \in BOOLEAN /\ port \in BOOLEAN
    BY Zenon DEF Init
  <2> QED
    BY <2>1
<1>2. DeviceTypes
  BY SerialBounds DEF Init, DeviceTypes
<1>3. WireTypes
  BY DEF Init, WireTypes
<1>4. PageTypes
  BY <1>1, SerialBounds, AwaitsOf DEF Init, PageTypes
<1>5. /\ Requests = {} /\ Answers = {} /\ Once(toDev) /\ Once(toPage)
      /\ ToSet(oldToDev) = {}
  BY NoLines DEF Init, Requests, Answers
<1>6. SessionInv
  BY AwaitsOf DEF Init, SessionInv
<1>7. LineInv
  BY <1>5 DEF Init, LineInv
<1>8. TaskInv
  BY DEF Init, TaskInv
<1>9. CleanInv
  BY <1>5, AwaitsOf
  DEF Init, CleanInv, Clean, NoneOld, NoOrphans, DeviceRuns, Naming, Heard, NoneLost, AsShown,
      Announced
<1>10. SetWorked
  BY DEF Init, SetWorked
<1>11. OldTypes /\ OldInv
  BY <1>5 DEF Init, OldTypes, OldInv
<1> QED
  BY <1>2, <1>3, <1>4, <1>6, <1>7, <1>8, <1>9, <1>10, <1>11, TypeViews DEF SetupInv, Sound

LEMMA OpenTyped == ASSUME [Next]_vars, WireTypes PROVE open' \in {"closed", "open", "closing"}
<1> USE DEF WireTypes
<1>1. CASE SessionStep
  BY <1>1 DEF SessionStep, PageReads, PageReadsOld, Hears, TimesOut, CloseEnds
<1>2. CASE TaskStep
  BY <1>2
  DEF TaskStep, TaskFails, InfoAgain, InfoGivesUp, ConnectFails, GotInfo, Shown, Detached,
      WasSet, Saved, Filled, RebootAnswered, Reopen, ReopenLater, ReopenFails, EndsHere, Closes,
      Ended, Opens, Ask, wire
<1>3. CASE Click \/ Poll
  BY <1>3
  DEF Click, Poll, Connect, Disconnect, Refresh, Save, FillFromServer, Reboot, Begins, Ask, wire,
      Closes, Ended, Opens
<1>4. CASE Device
  BY <1>4 DEF Device, DeviceReads, DeviceReadsOld, Resets, Crashes, Boots, Unplug, PlugIn, wire, Ended
<1>5. CASE UNCHANGED vars
  BY <1>5 DEF vars, wire
<1> QED
  BY <1>1, <1>2, <1>3, <1>4, <1>5 DEF Next

\* The request that is answered is the one the line is about.
LEMMA LineStep ==
    ASSUME DeviceTypes, WireTypes, LineInv, [Next]_vars
    PROVE  WireTypes' /\ LineInv'
<1> SUFFICES /\ LineInv' /\ nextId' \in Nat
             /\ toDev' \in Seq(Request) /\ toPage' \in Seq(Response)
             /\ pending' \in SUBSET [id : Nat, cmd : Commands]
  BY OpenTyped DEF WireTypes, LineInv
<1>1. /\ toDev \in Seq(Request) /\ toPage \in Seq(Response) /\ nextId \in Nat
      /\ pending \in SUBSET [id : Nat, cmd : Commands]
      /\ Requests \subseteq Request /\ Answers \subseteq Response
  BY DEF WireTypes, Requests, Answers, ToSet
<1>2. ASSUME toDev' = <<>> PROVE Requests' = {} /\ Once(toDev') /\ toDev' \in Seq(Request)
  BY <1>2, NoLines DEF Requests
<1>3. ASSUME toPage' = <<>> PROVE Answers' = {} /\ Once(toPage') /\ toPage' \in Seq(Response)
  BY <1>3, NoLines DEF Answers
<1>4. CASE Drops
  <2>1. /\ pending' \subseteq pending /\ nextId' = nextId /\ toPage' = toPage
        /\ Answers' = Answers
    BY <1>4 DEF Drops, Answers
  <2>2. Requests' \subseteq Requests /\ toDev' \in Seq(Request) /\ Once(toDev')
    BY <1>1, <1>2, <1>4 DEF Drops, Requests, LineInv
  <2> QED
    BY <1>1, <2>1, <2>2 DEF LineInv
<1>5. CASE Clears
  BY <1>1, <1>2, <1>3, <1>5 DEF Clears, LineInv
<1>6. CASE Asks
  <2>1. PICK cmds \in Seq(Commands), val \in Values \cup {Nothing} :
           Ask(cmds, val) /\ \A i \in DOMAIN cmds : cmds[i] = "set" => val \in Values
    BY <1>6 DEF Asks
  <2> DEFINE n == Len(cmds)
  <2>2. /\ n \in Nat /\ DOMAIN cmds = 1..n /\ \A i \in 1..n : cmds[i] \in Commands
    OBVIOUS
  <2>3. CASE nextId > 0
    <3>1. /\ nextId' = nextId + n
          /\ pending' = pending \cup {[id |-> nextId + i - 1, cmd |-> cmds[i]] : i \in 1..n}
          /\ Requests' = Requests \cup
                {[id |-> nextId + i - 1, cmd |-> cmds[i], val |-> val] : i \in 1..n}
          /\ toDev' \in Seq(Request) /\ Once(toDev') /\ toPage' = toPage
      BY <1>1, <2>1, <2>3, Asked DEF LineInv
    <3> HIDE DEF n
    <3>2. \A i \in 1..n : /\ nextId + i - 1 \in Nat /\ nextId + i - 1 >= nextId
                          /\ nextId + i - 1 < nextId' /\ nextId + i - 1 > 0
      BY <1>1, <2>2, <2>3, <3>1
    <3>3. Answers' = Answers
      BY <3>1 DEF Answers
    <3>4. ASSUME NEW p \in pending'
          PROVE  /\ p \in [id : Nat, cmd : Commands] /\ 0 < p.id /\ p.id < nextId'
                 /\ \A m \in Requests' \cup Answers' : p.id = m.id => p.cmd = m.cmd
      <4>1. CASE p \in pending
        <5>1. p.id < nextId /\ p.id \in Nat /\ 0 < p.id /\ p.id < nextId'
          BY <1>1, <2>2, <3>1, <4>1 DEF LineInv
        <5>2. ASSUME NEW m \in Requests', m \notin Requests PROVE p.id # m.id
          BY <1>1, <3>1, <3>2, <5>1, <5>2
        <5>3. \A m \in Requests \cup Answers : p.id = m.id => p.cmd = m.cmd
          BY <4>1 DEF LineInv
        <5> QED
          BY <1>1, <3>3, <4>1, <5>1, <5>2, <5>3
      <4>2. CASE p \notin pending
        <5>1. PICK i \in 1..n : p = [id |-> nextId + i - 1, cmd |-> cmds[i]]
          BY <3>1, <4>2
        <5>2. p.id = nextId + i - 1 /\ p.cmd = cmds[i] /\ p.id \in Nat
          BY <3>2, <5>1
        <5>3. ASSUME NEW m \in Requests \cup Answers PROVE p.id # m.id
          <6>1. m.id \in Nat /\ m.id < nextId
            BY <1>1 DEF LineInv, Request, Response
          <6> QED
            BY <1>1, <3>2, <5>2, <6>1
        <5>4. ASSUME NEW m \in Requests', m \notin Requests, p.id = m.id PROVE p.cmd = m.cmd
          <6>1. PICK j \in 1..n : m = [id |-> nextId + j - 1, cmd |-> cmds[j], val |-> val]
            BY <3>1, <5>4
          <6>2. i = j
            BY <1>1, <2>2, <5>2, <5>4, <6>1
          <6> QED
            BY <5>2, <6>1, <6>2
        <5> QED
          BY <2>2, <3>2, <3>3, <5>1, <5>2, <5>3, <5>4
      <4> QED
        BY <4>1, <4>2
    <3>5. ASSUME NEW m \in Requests'
          PROVE  /\ 0 < m.id /\ m.id < nextId' /\ (m.cmd = "set" => m.val \in Values)
                 /\ \A a \in Answers' : m.id # a.id
      <4>1. CASE m \in Requests
        <5>1. m.id \in Nat
          BY <1>1, <4>1 DEF Request
        <5> QED
          BY <1>1, <2>2, <3>1, <3>3, <4>1, <5>1 DEF LineInv
      <4>2. CASE m \notin Requests
        <5>1. PICK i \in 1..n : m = [id |-> nextId + i - 1, cmd |-> cmds[i], val |-> val]
          BY <3>1, <4>2
        <5>2. m.id = nextId + i - 1 /\ m.cmd = cmds[i] /\ m.val = val
          BY <5>1
        <5>3. \A a \in Answers : a.id \in Nat /\ a.id < nextId
          BY <1>1 DEF LineInv, Response
        <5>4. m.id >= nextId /\ 0 < m.id /\ m.id < nextId'
          BY <3>2, <5>2
        <5>5. \A a \in Answers' : m.id # a.id
          BY <1>1, <3>3, <5>3, <5>4
        <5>6. m.cmd = "set" => m.val \in Values
          BY <2>1, <2>2, <5>2
        <5> QED
          BY <5>4, <5>5, <5>6
      <4> QED
        BY <4>1, <4>2
    <3>6. \A m \in Answers' : m.id < nextId' /\ WellMade(m) /\ (m.id = 0 => ~m.ok)
      <4>1. \A m \in Answers : m.id \in Nat
        BY <1>1 DEF Response
      <4> QED
        BY <1>1, <2>2, <3>1, <3>3, <4>1 DEF LineInv
    <3>7. nextId' \in Nat
      BY <1>1, <2>2, <3>1
    <3>8. Once(toPage') /\ toPage' \in Seq(Response)
      BY <1>1, <3>1 DEF LineInv
    <3>9. LineInv'
      <4>1. nextId' > 0
        BY <1>1, <2>2, <2>3, <3>1
      <4>2. /\ \A p \in pending' : 0 < p.id /\ p.id < nextId'
            /\ \A p \in pending', m \in Requests' \cup Answers' : p.id = m.id => p.cmd = m.cmd
        BY <3>4
      <4>3. /\ \A m \in Requests' :
                  0 < m.id /\ m.id < nextId' /\ (m.cmd = "set" => m.val \in Values)
            /\ \A m \in Requests', a \in Answers' : m.id # a.id
        BY <3>5
      <4> QED
        BY <3>1, <3>6, <3>8, <4>1, <4>2, <4>3 DEF LineInv
    <3> QED
      BY <3>1, <3>4, <3>7, <3>8, <3>9
  <2>4. nextId > 0
    BY DEF LineInv
  <2> QED
    BY <2>3, <2>4
<1>7. CASE Opens
  <2> DEFINE m == [id |-> 1, cmd |-> "info", val |-> Nothing]
  <2>1. /\ m \in Request /\ m.id = 1 /\ m.cmd = "info"
    BY DEF Request, Commands
  <2>2. toDev' = <<m>> /\ toPage' = <<>> /\ nextId' = 2 /\ pending' = {[id |-> 1, cmd |-> "info"]}
    BY <1>7 DEF Opens
  <2>3. Requests' = {m} /\ Once(toDev') /\ toDev' \in Seq(Request)
    BY <2>1, <2>2, OneLine DEF Requests
  <2>4. pending' \in SUBSET [id : Nat, cmd : Commands]
    BY <2>2 DEF Commands
  <2> HIDE DEF m
  <2> QED
    BY <1>3, <2>1, <2>2, <2>3, <2>4 DEF LineInv
<1>8. CASE DeviceReads
  <2> DEFINE m == Head(toDev)
             a == Answer(m)
  <2>1. /\ toDev # <<>> /\ toDev' = Tail(toDev) /\ toPage' = Append(toPage, a)
        /\ nextId' = nextId /\ pending' = pending
    BY <1>8 DEF DeviceReads
  <2>2. /\ m \in Request /\ toDev' \in Seq(Request) /\ Once(toDev')
        /\ Requests = {m} \cup Requests'
        /\ \A k \in Requests' : k.id # m.id
    <3>1. /\ m \in Request /\ Tail(toDev) \in Seq(Request)
          /\ Requests = {m} \cup ToSet(Tail(toDev)) /\ Once(Tail(toDev))
          /\ \A k \in ToSet(Tail(toDev)) : k.id # 0 => k.id # m.id
      BY <1>1, <2>1, HeadAndTail DEF LineInv, Requests
    <3>2. Requests' = ToSet(Tail(toDev))
      BY <2>1 DEF Requests
    <3> QED
      BY <2>1, <3>1, <3>2 DEF LineInv
  <2>3. /\ 0 < m.id /\ m.id < nextId /\ (m.cmd = "set" => m.val \in Values)
        /\ \A k \in Answers : m.id # k.id
    BY <2>2 DEF LineInv
  <2>4. /\ a \in Response /\ a.cmd = m.cmd /\ WellMade(a)
        /\ a.id = m.id \/ (a.id = 0 /\ ~a.ok)
    BY <2>2, <2>3, WhatIsAnswered DEF DeviceTypes
  <2> HIDE DEF m, a
  <2>5. a.id # 0 => \A k \in Answers : k.id # a.id
    BY <2>3, <2>4
  <2>6. toPage' \in Seq(Response) /\ Answers' = Answers \cup {a} /\ Once(toPage')
    BY <1>1, <2>1, <2>4, <2>5, Appended DEF LineInv, Answers
  <2>7. a.id < nextId
    BY <1>1, <2>2, <2>3, <2>4 DEF Request
  <2>8. \A k \in Requests' : k.id # a.id
    BY <2>2, <2>3, <2>4 DEF LineInv
  <2>9. ASSUME NEW p \in pending, p.id = a.id PROVE p.cmd = a.cmd
    BY <2>2, <2>4, <2>9 DEF LineInv
  <2>10. m \in Requests /\ Requests' \subseteq Requests
    BY <2>2
  <2> QED
    BY <1>1, <2>1, <2>2, <2>4, <2>6, <2>7, <2>8, <2>9, <2>10 DEF LineInv
<1>9. CASE PageReads
  <2>1. /\ toPage # <<>> /\ toPage' = Tail(toPage) /\ pending' \subseteq pending
        /\ toDev' = toDev /\ nextId' = nextId
    BY <1>9 DEF PageReads, Hears
  <2>2. toPage' \in Seq(Response) /\ Answers' \subseteq Answers /\ Once(toPage')
    <3>1. /\ Tail(toPage) \in Seq(Response) /\ Answers = {Head(toPage)} \cup ToSet(Tail(toPage))
          /\ Once(Tail(toPage))
      BY <1>1, <2>1, HeadAndTail DEF LineInv, Answers
    <3> QED
      BY <2>1, <3>1 DEF Answers
  <2>3. Requests' = Requests /\ Once(toDev')
    BY <2>1 DEF Requests, LineInv
  <2> QED
    BY <1>1, <2>1, <2>2, <2>3 DEF LineInv
<1> QED
  BY <1>4, <1>5, <1>6, <1>7, <1>8, <1>9, WireStep

-----------------------------------------------------------------------------
(* The session *)

LEMMA NotBoth == ~(Answered /\ Broken)
BY DEF Answered, Broken

LEMMA AnswerOf ==
    ASSUME NEW c, Has(c)
    PROVE  \E g \in got : g.asked = c /\ AnswerTo(c) = g.data
BY DEF Has, AnswerTo

LEMMA DeviceStep ==
    ASSUME [Next]_vars
    PROVE  \/ DeviceReads \/ DeviceReadsOld \/ Resets \/ Crashes \/ Boots \/ Unplug \/ PlugIn
           \/ UNCHANGED <<dev, saved, running, plugs>>
              /\ \/ faults' = faults
                 \/ TimesOut /\ faults < MaxFaults /\ faults' = faults + 1
                 \/ Opens
<1> USE DEF device, wire
<1>1. CASE SessionStep
  BY <1>1 DEF SessionStep, PageReads, PageReadsOld, Hears, TimesOut, CloseEnds
<1>2. CASE TaskStep
  BY <1>2
  DEF TaskStep, TaskFails, InfoAgain, InfoGivesUp, ConnectFails, GotInfo, Shown, Detached,
      WasSet, Saved, Filled, RebootAnswered, Reopen, ReopenLater, ReopenFails, EndsHere
<1>3. CASE Click \/ Poll
  BY <1>3
  DEF Click, Poll, Connect, Disconnect, Refresh, Save, FillFromServer, Reboot, Begins
<1>4. CASE Device
  BY <1>4 DEF Device
<1>5. CASE UNCHANGED vars
  BY <1>5 DEF vars
<1> QED
  BY <1>1, <1>2, <1>3, <1>4, <1>5 DEF Next

LEMMA DeviceTypesStep ==
    ASSUME DeviceTypes, WireTypes, OldTypes, LineInv, OldInv, [Next]_vars
    PROVE  DeviceTypes'
<1> USE SerialBounds DEF DeviceTypes
<1>1. CASE DeviceReads
  <2> DEFINE m == Head(toDev)
  <2>1. /\ saved' = (IF m.cmd = "set" /\ Accepts(m.val) THEN m.val ELSE saved)
        /\ dev' = (IF m.cmd = "reboot" THEN "resetting" ELSE dev)
        /\ UNCHANGED <<running, plugs, faults>> /\ toDev # <<>>
    BY <1>1 DEF DeviceReads, Dispatch
  <2>2. m \in Requests
    BY <2>1, HeadAndTail DEF WireTypes, Requests
  <2>3. m.cmd = "set" => m.val \in Values
    BY <2>2 DEF LineInv
  <2> QED
    BY <2>1, <2>3 DEF Accepts
<1>2. CASE Resets \/ Boots \/ Unplug
  BY <1>2 DEF Resets, Boots, Unplug
<1>3. CASE Crashes
  BY <1>3 DEF Crashes
<1>4. CASE PlugIn
  BY <1>4 DEF PlugIn
<1>5. CASE DeviceReadsOld
  <2> DEFINE m == Head(oldToDev)
  <2>1. /\ saved' = (IF m.cmd = "set" /\ Accepts(m.val) THEN m.val ELSE saved)
        /\ dev' = (IF m.cmd = "reboot" THEN "resetting" ELSE dev)
        /\ UNCHANGED <<running, plugs, faults>> /\ oldToDev # <<>>
    BY <1>5 DEF DeviceReadsOld, Dispatch
  <2>2. m \in ToSet(oldToDev)
    BY <2>1, HeadAndTail DEF OldTypes
  <2>3. m.cmd = "set" => m.val \in Values
    BY <2>2 DEF OldInv
  <2> QED
    BY <2>1, <2>3 DEF Accepts
<1>6. Opens => faults' \in 0..MaxFaults
  BY DEF Opens
<1> QED
  BY <1>1, <1>2, <1>3, <1>4, <1>5, <1>6, DeviceStep

\* What is left of the sessions that are over
LEMMA OldStep ==
    ASSUME [Next]_vars
    PROVE  /\ UNCHANGED oldToDev \/ oldToDev' = <<>> \/ Closes \/ DeviceReadsOld
           /\ UNCHANGED oldToPage \/ oldToPage' = <<>> \/ PageReadsOld \/ DeviceReadsOld
<1> USE DEF wire, old
<1>1. CASE PageReads \/ TimesOut \/ CloseEnds
  BY <1>1 DEF PageReads, Hears, TimesOut, CloseEnds
<1>6. CASE PageReadsOld
  <2>1. UNCHANGED oldToDev
    BY <1>6 DEF PageReadsOld, Hears
  <2> QED
    BY <1>6, <2>1
<1>2. CASE TaskStep
  BY <1>2
  DEF TaskStep, TaskFails, InfoAgain, InfoGivesUp, ConnectFails, GotInfo, Shown, Detached,
      WasSet, Saved, Filled, RebootAnswered, Reopen, ReopenLater, ReopenFails, EndsHere, Closes,
      Ended, Opens, Ask
<1>3. CASE Click \/ Poll
  BY <1>3
  DEF Click, Poll, Connect, Disconnect, Refresh, Save, FillFromServer, Reboot, Begins, Ask,
      Closes, Ended, Opens
<1>4. CASE Device
  BY <1>4 DEF Device, DeviceReads, Resets, Crashes, Boots, Unplug, PlugIn, Ended
<1>5. CASE UNCHANGED vars
  BY <1>5 DEF vars
<1> QED
  BY <1>1, <1>2, <1>3, <1>4, <1>5, <1>6 DEF Next, SessionStep

LEMMA OldTypesStep ==
    ASSUME DeviceTypes, WireTypes, OldTypes, LineInv, OldInv, [Next]_vars
    PROVE  OldTypes' /\ OldInv'
<1>1. oldToDev' \in Seq(Request) /\ OldInv'
  <2>1. CASE UNCHANGED oldToDev
    BY <2>1 DEF OldTypes, OldInv
  <2>2. CASE oldToDev' = <<>>
    <3>1. ToSet(oldToDev') = {}
      BY <2>2, NoLines
    <3> QED
      BY <2>2, <3>1 DEF OldInv
  <2>3. CASE Closes
    <3>1. oldToDev' = <<>> \/ oldToDev' = oldToDev \o toDev
      BY <2>3 DEF Closes
    <3>2. CASE oldToDev' = oldToDev \o toDev
      <4>1. /\ oldToDev' \in Seq(Request)
            /\ ToSet(oldToDev \o toDev) = ToSet(oldToDev) \cup Requests
        BY <3>2, Concatenated DEF OldTypes, WireTypes, Requests
      <4> QED
        BY <3>2, <4>1 DEF OldInv, LineInv
    <3> QED
      BY <2>2, <3>1, <3>2
  <2>4. CASE DeviceReadsOld
    <3>1. oldToDev # <<>> /\ oldToDev' = Tail(oldToDev)
      BY <2>4 DEF DeviceReadsOld
    <3>2. /\ Tail(oldToDev) \in Seq(Request)
          /\ ToSet(oldToDev) = {Head(oldToDev)} \cup ToSet(Tail(oldToDev))
      BY <3>1, HeadAndTail DEF OldTypes
    <3> QED
      BY <3>1, <3>2 DEF OldInv
  <2> QED
    BY <2>1, <2>2, <2>3, <2>4, OldStep
<1>2. oldToPage' \in Seq(Response)
  <2>1. UNCHANGED oldToPage => oldToPage' \in Seq(Response)
    BY DEF OldTypes
  <2>2. oldToPage' = <<>> => oldToPage' \in Seq(Response)
    OBVIOUS
  <2>3. CASE PageReadsOld
    BY <2>3, HeadAndTail DEF PageReadsOld, OldTypes
  <2>4. CASE DeviceReadsOld
    <3> DEFINE m == Head(oldToDev)
    <3>1. /\ oldToDev # <<>>
          /\ oldToPage' = oldToPage \/ oldToPage' = Append(oldToPage, Answer(m))
      BY <2>4 DEF DeviceReadsOld
    <3>2. m \in Request /\ m \in ToSet(oldToDev)
      BY <3>1, HeadAndTail DEF OldTypes
    <3>3. Answer(m) \in Response
      BY <3>2, WhatIsAnswered DEF OldInv, DeviceTypes
    <3> HIDE DEF m
    <3> QED
      BY <3>1, <3>3 DEF OldTypes
  <2> QED
    BY <2>1, <2>2, <2>3, <2>4, OldStep
<1> QED
  BY <1>1, <1>2 DEF OldTypes

\* What SessionInv says of all but the answers.
Coming ==
    /\ open # "open" => pending = {} /\ toDev = <<>> /\ toPage = <<>> /\ oldToPage = <<>>
    /\ dev = "gone" => open # "open"
    /\ open = "closed" => ~ref
    /\ task # "none" => phase # "ready"
    /\ phase = "ready" => ref
    /\ task \in {"reopen", "detach"} => open # "open"

LEMMA ComingStep ==
    ASSUME SessionInv, [Next]_vars
    PROVE  Coming'
<1> USE AwaitsOf DEF SessionInv, Coming, device, page, wire, old
<1>1. CASE PageReads \/ PageReadsOld
  BY <1>1 DEF PageReads, PageReadsOld, Hears
<1>2. CASE TimesOut
  BY <1>2 DEF TimesOut, CanTimeOut
<1>3. CASE CloseEnds
  BY <1>3 DEF CloseEnds, Told
<1>4. CASE TaskFails
  BY <1>4 DEF TaskFails, Ends, PhaseAfter
<1>5. CASE InfoAgain
  BY <1>5 DEF InfoAgain, Ask, InInfo
<1>6. CASE InfoGivesUp
  BY <1>6 DEF InfoGivesUp, Closes, Ended, InInfo
<1>7. CASE ConnectFails \/ Shown \/ ReopenFails \/ Filled
  BY <1>7 DEF ConnectFails, Shown, ReopenFails, Filled, EndsHere, Ends, PhaseAfter
<1>8. CASE GotInfo
  BY <1>8 DEF GotInfo, InInfo, Ask
<1>9. CASE Detached \/ Saved
  BY <1>9 DEF Detached, Saved, Ends, PhaseAfter
<1>10. CASE WasSet
  BY <1>10 DEF WasSet, Ask
<1>11. CASE RebootAnswered
  BY <1>11 DEF RebootAnswered, Closes, Ended
<1>12. CASE Reopen
  BY <1>12 DEF Reopen, Opens
<1>13. CASE ReopenLater
  BY <1>13 DEF ReopenLater
<1>14. CASE Connect
  BY <1>14 DEF Connect, Free, Opens
<1>15. CASE Disconnect
  BY <1>15 DEF Disconnect, Free, Closes, Ended
<1>16. CASE Refresh \/ Save \/ Reboot
  BY <1>16 DEF Refresh, Save, Reboot, Begins, Free, Ask
<1>17. CASE FillFromServer
  BY <1>17 DEF FillFromServer, Free
<1>18. CASE Poll
  BY <1>18 DEF Poll, Free, Ask
<1>19. CASE DeviceReads \/ DeviceReadsOld
  BY <1>19 DEF DeviceReads, DeviceReadsOld, Dispatch
<1>20. CASE Resets \/ Crashes \/ Boots
  BY <1>20 DEF Resets, Crashes, Boots
<1>21. CASE Unplug
  BY <1>21 DEF Unplug, Ended
<1>22. CASE PlugIn
  BY <1>22 DEF PlugIn
<1>23. CASE UNCHANGED vars
  BY <1>23 DEF vars
<1> QED
  BY <1>1, <1>2, <1>3, <1>4, <1>5, <1>6, <1>7, <1>8, <1>9, <1>10, <1>11, <1>12, <1>13, <1>14,
     <1>15, <1>16, <1>17, <1>18, <1>19, <1>20, <1>21, <1>22, <1>23
  DEF Next, SessionStep, TaskStep, Click, Device

\* The steps that go on with something the page waits for
LEMMA GoingOn ==
    ASSUME [Next]_vars
    PROVE  \/ open' = "open" \/ Awaits[task'] = {}
           \/ /\ UNCHANGED <<task, got>>
              /\ open' = open \/ Broken \/ ~Ready \/ open # "open"
           \/ (GotInfo \/ WasSet) /\ open' = open
<1> USE AwaitsOf DEF page, wire
<1>1. CASE PageReads \/ PageReadsOld
  BY <1>1 DEF PageReads, PageReadsOld, Hears
<1>2. CASE TimesOut
  BY <1>2 DEF TimesOut
<1>3. CASE CloseEnds
  BY <1>3 DEF CloseEnds
<1>4. CASE TaskFails \/ ConnectFails \/ Shown \/ ReopenFails \/ Filled \/ Detached \/ Saved
  BY <1>4 DEF TaskFails, ConnectFails, Shown, ReopenFails, Filled, EndsHere, Detached, Saved, Ends
<1>5. CASE InfoAgain
  BY <1>5 DEF InfoAgain, Ask
<1>6. CASE InfoGivesUp
  BY <1>6 DEF InfoGivesUp
<1>8. CASE GotInfo \/ WasSet
  BY <1>8 DEF GotInfo, WasSet, Ask
<1>11. CASE RebootAnswered \/ ReopenLater \/ Disconnect \/ FillFromServer
  BY <1>11 DEF RebootAnswered, ReopenLater, Disconnect, FillFromServer
<1>12. CASE Reopen \/ Connect
  BY <1>12 DEF Reopen, Connect, Opens
<1>16. CASE Refresh \/ Save \/ Reboot
  BY <1>16 DEF Refresh, Save, Reboot, Begins, Ask
<1>18. CASE Poll
  BY <1>18 DEF Poll, Ask
<1>19. CASE DeviceReads \/ DeviceReadsOld \/ Resets \/ Crashes \/ Boots \/ PlugIn
  BY <1>19 DEF DeviceReads, DeviceReadsOld, Resets, Crashes, Boots, PlugIn
<1>21. CASE Unplug
  BY <1>21 DEF Unplug
<1>23. CASE UNCHANGED vars
  BY <1>23 DEF vars
<1> QED
  BY <1>1, <1>2, <1>3, <1>4, <1>5, <1>6, <1>8, <1>11, <1>12, <1>16, <1>18, <1>19, <1>21, <1>23
  DEF Next, SessionStep, TaskStep, Click, Device

LEMMA SessionInvStep ==
    ASSUME SessionInv, [Next]_vars
    PROVE  SessionInv'
<1> SUFFICES ASSUME Awaits[task'] # {}, Answered', open' # "open" PROVE FALSE
  BY ComingStep DEF Coming, SessionInv
<1>1. CASE /\ UNCHANGED <<task, got>>
           /\ open' = open \/ Broken \/ ~Ready \/ open # "open"
  <2>1. Answered /\ Awaits[task] # {}
    BY <1>1 DEF Answered, Has, AllOk, InInfo
  <2>2. open = "open" /\ Ready
    BY <2>1 DEF SessionInv, Ready
  <2> QED
    BY <1>1, <2>1, <2>2, NotBoth
<1>2. CASE (GotInfo \/ WasSet) /\ open' = open
  <2>1. Answered /\ Awaits[task] # {}
    BY <1>2, AwaitsOf DEF GotInfo, WasSet, InInfo
  <2> QED
    BY <1>2, <2>1 DEF SessionInv
<1> QED
  BY <1>1, <1>2, GoingOn

-----------------------------------------------------------------------------
(* The task and its answers *)

LEMMA NoPollAwaited == ASSUME PageTypes PROVE "poll" \notin Awaits[task]
<1> USE AwaitsOf
<1>1. CASE task \in {"info", "reinfo", "load", "refresh", "set", "reread", "reboot"}
  BY <1>1
<1>2. CASE task \in {"none", "fill", "detach", "reopen"}
  BY <1>2
<1> QED
  BY <1>1, <1>2 DEF PageTypes

\* Nothing is pending but polls once a task has all its answers.
LEMMA OnlyPolls ==
    ASSUME TaskInv, Answered \/ Awaits[task] = {}
    PROVE  \A p \in pending : p.cmd = "poll"
BY DEF TaskInv, Answered, Has

\* Nothing is pending but polls when a task cannot get the device's name.
LEMMA NotNamed ==
    ASSUME TaskInv, InInfo, Broken
    PROVE  \A p \in pending : p.cmd = "poll"
<1>1. Awaits[task] = {"info"} /\ Kept = {} /\ task # "reopen"
  BY AwaitsOf DEF InInfo, Kept
<1>2. CASE got = {}
  <2>1. AllOk /\ ~Has("info")
    BY <1>2 DEF AllOk, Has
  <2>2. ~\E p \in pending : p.cmd = "info"
    BY <1>1, <2>1 DEF Broken
  <2> QED
    BY <1>1, <2>2 DEF TaskInv
<1>3. CASE got # {}
  <2>1. PICK g \in got : g.asked = "info"
    BY <1>1, <1>3 DEF TaskInv
  <2> QED
    BY <1>1, <2>1 DEF TaskInv
<1> QED
  BY <1>2, <1>3

\* New requests beside polls
LEMMA AskedOnce ==
    ASSUME WireTypes, LineInv, NEW cmds \in Seq(Commands), NEW val \in Values \cup {Nothing},
           Ask(cmds, val), \A i, j \in DOMAIN cmds : cmds[i] = cmds[j] => i = j,
           \A p \in pending : p.cmd = "poll"
    PROVE  /\ \A p \in pending' : p.cmd = "poll" \/ \E i \in DOMAIN cmds : p.cmd = cmds[i]
           /\ \A p, q \in pending' : p.cmd = q.cmd /\ p.cmd # "poll" => p = q
<1> DEFINE n == Len(cmds)
<1>1. n \in Nat /\ DOMAIN cmds = 1..n
  OBVIOUS
<1>2. pending' = pending \cup {[id |-> nextId + i - 1, cmd |-> cmds[i]] : i \in 1..n}
  BY Asked DEF WireTypes, LineInv
<1> HIDE DEF n
<1>3. ASSUME NEW p \in pending', p.cmd # "poll"
      PROVE  \E i \in 1..n : p = [id |-> nextId + i - 1, cmd |-> cmds[i]]
  BY <1>2, <1>3
<1>4. ASSUME NEW p \in pending', NEW q \in pending', p.cmd = q.cmd, p.cmd # "poll"
      PROVE  p = q
  <2>1. PICK i \in 1..n : p = [id |-> nextId + i - 1, cmd |-> cmds[i]]
    BY <1>3, <1>4
  <2>2. PICK j \in 1..n : q = [id |-> nextId + j - 1, cmd |-> cmds[j]]
    BY <1>3, <1>4
  <2>3. cmds[i] = cmds[j]
    BY <1>4, <2>1, <2>2
  <2>4. i = j
    BY <1>1, <2>3
  <2> QED
    BY <2>1, <2>2, <2>4
<1> QED
  BY <1>1, <1>3, <1>4

LEMMA OneByOne ==
    /\ \A i, j \in DOMAIN <<"info">> : i = j
    /\ \A i, j \in DOMAIN <<"set">> : i = j
    /\ \A i, j \in DOMAIN <<"get">> : i = j
    /\ \A i, j \in DOMAIN <<"reboot">> : i = j
    /\ \A i, j \in DOMAIN <<"get", "status">> :
          <<"get", "status">>[i] = <<"get", "status">>[j] => i = j
    /\ \A i, j \in DOMAIN <<"schema", "get", "status">> :
          <<"schema", "get", "status">>[i] = <<"schema", "get", "status">>[j] => i = j
    /\ \A i \in DOMAIN <<"info">> : <<"info">>[i] = "info"
    /\ \A i \in DOMAIN <<"set">> : <<"set">>[i] = "set"
    /\ \A i \in DOMAIN <<"get">> : <<"get">>[i] = "get"
    /\ \A i \in DOMAIN <<"reboot">> : <<"reboot">>[i] = "reboot"
    /\ \A i \in DOMAIN <<"poll">> : <<"poll">>[i] = "poll"
    /\ \A i \in DOMAIN <<"get", "status">> : <<"get", "status">>[i] \in {"get", "status"}
    /\ \A i \in DOMAIN <<"schema", "get", "status">> :
          <<"schema", "get", "status">>[i] \in {"schema", "get", "status"}
OBVIOUS

\* The requests of a task are those it awaits.
LEMMA AsksForTask ==
    ASSUME WireTypes, LineInv, TaskInv,
           Refresh \/ Save \/ Reboot \/ InfoAgain \/ GotInfo \/ WasSet
    PROVE  /\ \A p \in pending' : p.cmd \in Awaits[task'] \cup {"poll"}
           /\ \A p, q \in pending' : p.cmd = q.cmd /\ p.cmd # "poll" => p = q
<1> DEFINE Right(cmds, val) ==
             /\ cmds \in Seq(Commands) /\ val \in Values \cup {Nothing}
             /\ Ask(cmds, val)
             /\ \A i, j \in DOMAIN cmds : cmds[i] = cmds[j] => i = j
             /\ \A i \in DOMAIN cmds : cmds[i] \in Awaits[task']
             /\ \A p \in pending : p.cmd = "poll"
<1>1. ASSUME NEW cmds, NEW val, Right(cmds, val)
      PROVE  /\ \A p \in pending' : p.cmd \in Awaits[task'] \cup {"poll"}
             /\ \A p, q \in pending' : p.cmd = q.cmd /\ p.cmd # "poll" => p = q
  BY <1>1, AskedOnce
<1>2. CASE Refresh
  <2>1. Ask(<<"get", "status">>, Nothing) /\ task' = "refresh" /\ task = "none"
    BY <1>2 DEF Refresh, Begins, Free
  <2>2. \A p \in pending : p.cmd = "poll"
    BY <2>1, OnlyPolls, AwaitsOf
  <2>3. Awaits[task'] = {"get", "status"}
    BY <2>1, AwaitsOf
  <2> HIDE DEF Right
  <2>4. Right(<<"get", "status">>, Nothing)
    BY <2>1, <2>2, <2>3, Programs, OneByOne DEF Right
  <2> QED
    BY <1>1, <2>4
<1>3. CASE Save
  <2>1. PICK v \in Values : Ask(<<"set">>, v) /\ task' = "set" /\ task = "none"
    BY <1>3 DEF Save, Begins, Free
  <2>2. \A p \in pending : p.cmd = "poll"
    BY <2>1, OnlyPolls, AwaitsOf
  <2>3. Awaits[task'] = {"set"}
    BY <2>1, AwaitsOf
  <2> HIDE DEF Right
  <2>4. Right(<<"set">>, v)
    BY <2>1, <2>2, <2>3, Programs, OneByOne DEF Right
  <2> QED
    BY <1>1, <2>4
<1>4. CASE Reboot
  <2>1. Ask(<<"reboot">>, Nothing) /\ task' = "reboot" /\ task = "none"
    BY <1>4 DEF Reboot, Begins, Free
  <2>2. \A p \in pending : p.cmd = "poll"
    BY <2>1, OnlyPolls, AwaitsOf
  <2>3. Awaits[task'] = {"reboot"}
    BY <2>1, AwaitsOf
  <2> HIDE DEF Right
  <2>4. Right(<<"reboot">>, Nothing)
    BY <2>1, <2>2, <2>3, Programs, OneByOne DEF Right
  <2> QED
    BY <1>1, <2>4
<1>5. CASE InfoAgain
  <2>1. Ask(<<"info">>, Nothing) /\ task' = task /\ InInfo
    BY <1>5 DEF InfoAgain
  <2>2. \A p \in pending : p.cmd = "poll"
    BY <1>5, NotNamed DEF InfoAgain
  <2>3. Awaits[task'] = {"info"}
    BY <2>1, AwaitsOf DEF InInfo
  <2> HIDE DEF Right
  <2>4. Right(<<"info">>, Nothing)
    BY <2>1, <2>2, <2>3, Programs, OneByOne DEF Right
  <2> QED
    BY <1>1, <2>4
<1>6. CASE GotInfo
  <2>1. Ask(<<"schema", "get", "status">>, Nothing) /\ task' = "load"
    BY <1>6 DEF GotInfo
  <2>2. \A p \in pending : p.cmd = "poll"
    BY <1>6, OnlyPolls DEF GotInfo
  <2>3. Awaits[task'] = {"schema", "get", "status"}
    BY <2>1, AwaitsOf
  <2> HIDE DEF Right
  <2>4. Right(<<"schema", "get", "status">>, Nothing)
    BY <2>1, <2>2, <2>3, Programs, OneByOne DEF Right
  <2> QED
    BY <1>1, <2>4
<1>7. CASE WasSet
  <2>1. Ask(<<"get">>, Nothing) /\ task' = "reread"
    BY <1>7 DEF WasSet
  <2>2. \A p \in pending : p.cmd = "poll"
    BY <1>7, OnlyPolls DEF WasSet
  <2>3. Awaits[task'] = {"get"}
    BY <2>1, AwaitsOf
  <2> HIDE DEF Right
  <2>4. Right(<<"get">>, Nothing)
    BY <2>1, <2>2, <2>3, Programs, OneByOne DEF Right
  <2> QED
    BY <1>1, <2>4
<1> QED
  BY <1>2, <1>3, <1>4, <1>5, <1>6, <1>7

\* An answer that is read: whoever asked is told, and is pending no more.
LEMMA ReadsAnswer ==
    ASSUME WireTypes, LineInv, PageReads
    PROVE  LET m == Head(toPage)
               new == [asked |-> m.cmd, cmd |-> m.cmd, ok |-> m.ok, data |-> m.data,
                       late |-> FALSE]
           IN /\ m \in Answers /\ m \in Response /\ WellMade(m)
              /\ \A p \in pending : p.id = m.id => p.cmd = m.cmd
              /\ pending' = {p \in pending : p.id # m.id}
              /\ \A g \in got' :
                    \/ g \in got
                    \/ m.cmd \in Awaits[task] /\ (\E p \in pending : p.id = m.id) /\ g = new
              /\ got \subseteq got'
              /\ \A p \in pending : p.id = m.id /\ p.cmd \in Awaits[task] => new \in got'
<1> DEFINE m == Head(toPage)
<1>1. /\ toPage # <<>>
      /\ pending' = {p \in pending : p.id # m.id}
      /\ got' = got \cup {[asked |-> p.cmd, cmd |-> m.cmd, ok |-> m.ok, data |-> m.data,
                           late |-> FALSE] :
                           p \in {q \in pending : q.id = m.id /\ q.cmd \in Awaits[task]}}
  BY DEF PageReads, Hears
<1>2. m \in Answers /\ m \in Response
  BY <1>1, HeadAndTail DEF WireTypes, Answers
<1> HIDE DEF m
<1>3. /\ WellMade(m) /\ \A p \in pending : p.id = m.id => p.cmd = m.cmd
  BY <1>2 DEF LineInv
<1> QED
  BY <1>1, <1>2, <1>3 DEF m

\* An answer of an earlier session: whoever has that identifier now is told.
LEMMA ReadsOldAnswer ==
    ASSUME OldTypes, PageReadsOld
    PROVE  LET m == Head(oldToPage)
           IN /\ m \in Response
              /\ pending' = {p \in pending : p.id # m.id}
              /\ \A g \in got' :
                    \/ g \in got
                    \/ \E p \in pending :
                          /\ p.id = m.id /\ p.cmd \in Awaits[task]
                          /\ g = [asked |-> p.cmd, cmd |-> m.cmd, ok |-> m.ok, data |-> m.data,
                                  late |-> TRUE]
<1> DEFINE m == Head(oldToPage)
<1>1. /\ oldToPage # <<>>
      /\ pending' = {p \in pending : p.id # m.id}
      /\ got' = got \cup {[asked |-> p.cmd, cmd |-> m.cmd, ok |-> m.ok, data |-> m.data,
                           late |-> TRUE] :
                           p \in {q \in pending : q.id = m.id /\ q.cmd \in Awaits[task]}}
  BY DEF PageReadsOld, Hears
<1>2. m \in Response
  BY <1>1, HeadAndTail DEF OldTypes
<1> HIDE DEF m
<1> QED
  BY <1>1, <1>2 DEF m

\* The steps that go on with the task as it is, end it, or start over.
SameTask == UNCHANGED <<task, got>> /\ pending' \subseteq pending

Over ==
    /\ task' \in {"none", "fill", "detach"} /\ got' = {}
    /\ \A p \in pending' : p \in pending /\ p.cmd = "poll"

StartsOver == task' \in {"info", "reinfo"} /\ got' = {} /\ pending' = {[id |-> 1, cmd |-> "info"]}

LEMMA TaskViews ==
    ASSUME TaskInv, SessionInv, [Next]_vars
    PROVE  \/ SameTask \/ Over \/ StartsOver \/ PageReads \/ PageReadsOld \/ Poll
           \/ Refresh \/ Save \/ Reboot \/ InfoAgain \/ GotInfo \/ WasSet
           \/ task' = "reopen" /\ pending' = {} /\ got' = got
<1>1. CASE TimesOut \/ CloseEnds \/ InfoGivesUp
  BY <1>1 DEF TimesOut, CanTimeOut, CloseEnds, InfoGivesUp, Closes, Ended, SameTask, page
<1>2. CASE DeviceReads \/ DeviceReadsOld \/ Resets \/ Crashes \/ Boots \/ Unplug \/ PlugIn
  BY <1>2 DEF DeviceReads, DeviceReadsOld, Resets, Crashes, Boots, Unplug, PlugIn, SameTask, page,
              wire, Ended
<1>3. CASE TaskFails
  BY <1>3 DEF TaskFails, Over, Ends, TaskInv
<1>4. CASE Shown \/ Saved
  <2>1. \A p \in pending : p.cmd = "poll"
    BY <1>4, OnlyPolls DEF Shown, Saved
  <2> QED
    BY <1>4, <2>1 DEF Shown, Saved, EndsHere, Ends, Over, wire
<1>5. CASE ConnectFails
  BY <1>5 DEF ConnectFails, EndsHere, Ends, Over, wire, SessionInv
<1>6. CASE Detached \/ Filled \/ ReopenFails
  <2>1. \A p \in pending : p.cmd = "poll"
    BY <1>6, OnlyPolls, AwaitsOf DEF Detached, Filled, ReopenFails
  <2> QED
    BY <1>6, <2>1 DEF Detached, Filled, ReopenFails, EndsHere, Ends, Over, wire
<1>7. CASE Disconnect \/ FillFromServer
  <2>1. task = "none"
    BY <1>7 DEF Disconnect, FillFromServer, Free
  <2>2. got = {} /\ \A p \in pending : p.cmd = "poll"
    BY <2>1, OnlyPolls, AwaitsOf DEF TaskInv, Kept
  <2> QED
    BY <1>7, <2>2 DEF Disconnect, FillFromServer, Closes, Ended, Over, wire
<1>8. CASE Connect \/ Reopen
  BY <1>8 DEF Connect, Reopen, Opens, StartsOver, SameTask, wire
<1>9. CASE RebootAnswered \/ ReopenLater
  BY <1>9 DEF RebootAnswered, ReopenLater, Closes, Ended, SessionInv, wire
<1>10. CASE UNCHANGED vars
  BY <1>10 DEF vars, SameTask, page, wire
<1> QED
  BY <1>1, <1>2, <1>3, <1>4, <1>5, <1>6, <1>7, <1>8, <1>9, <1>10
  DEF Next, SessionStep, TaskStep, Click, Device

LEMMA TaskInvStep ==
    ASSUME WireTypes, OldTypes, PageTypes, SessionInv, LineInv, TaskInv, [Next]_vars
    PROVE  TaskInv'
<1>1. CASE SameTask
  BY <1>1 DEF SameTask, TaskInv, Kept
<1>2. CASE Over
  BY <1>2 DEF Over, TaskInv
<1>3. CASE StartsOver
  BY <1>3, AwaitsOf DEF StartsOver, TaskInv
<1>4. CASE PageReads
  <2> DEFINE m == Head(toPage)
             new == [asked |-> m.cmd, cmd |-> m.cmd, ok |-> m.ok, data |-> m.data,
                     late |-> FALSE]
  <2>1. /\ WellMade(m) /\ pending' = {p \in pending : p.id # m.id}
        /\ \A p \in pending : p.id = m.id => p.cmd = m.cmd
        /\ \A g \in got' :
              g \in got \/ (g = new /\ m.cmd \in Awaits[task] /\ \E p \in pending : p.id = m.id)
    BY <1>4, ReadsAnswer
  <2>2. task' = task
    BY <1>4 DEF PageReads, Hears
  <2>3. WellMade(new) /\ new.asked = m.cmd /\ new.cmd = m.cmd
    BY <2>1 DEF WellMade
  <2> HIDE DEF m, new
  <2>4. ASSUME NEW p \in pending, p.id = m.id, m.cmd \in Awaits[task]
        PROVE  /\ \A q \in pending' : q.cmd # m.cmd
               /\ \A g \in got : g.asked # m.cmd
    <3>1. p.cmd = m.cmd /\ p.cmd # "poll"
      BY <2>1, <2>4, NoPollAwaited
    <3> QED
      BY <2>1, <2>4, <3>1 DEF TaskInv
  <2> QED
    BY <2>1, <2>2, <2>3, <2>4 DEF TaskInv, Kept
<1>5. CASE Poll
  <2>1. Ask(<<"poll">>, Nothing) /\ UNCHANGED <<task, got>> /\ task = "none"
    BY <1>5 DEF Poll, Free, page
  <2>2. got = {} /\ \A p \in pending : p.cmd = "poll"
    BY <2>1, OnlyPolls, AwaitsOf DEF TaskInv, Kept
  <2>3. \A p \in pending' : p.cmd = "poll"
    <3>1. DOMAIN <<"poll">> = {1} /\ <<"poll">> \in Seq(Commands)
      BY Programs
    <3> QED
      BY <2>1, <2>2, <3>1, OneByOne, AskedOnce
  <2> QED
    BY <2>1, <2>2, <2>3 DEF TaskInv
<1>6. CASE Refresh \/ Save \/ Reboot \/ InfoAgain \/ GotInfo
  <2>1. got' = {}
    <3>1. CASE InfoAgain
      BY <3>1 DEF InfoAgain
    <3> QED
      BY <1>6, <3>1 DEF Refresh, Save, Reboot, Begins, GotInfo
  <2> QED
    BY <1>6, <2>1, AsksForTask DEF TaskInv
<1>7. CASE WasSet
  <2>1. got' = got /\ task = "set" /\ task' = "reread"
    BY <1>7 DEF WasSet
  <2>2. \A g \in got : g.asked = "set"
    BY <2>1, AwaitsOf DEF TaskInv, Kept
  <2>3. Awaits[task'] = {"get"} /\ Kept' = {"set"}
    BY <2>1, AwaitsOf DEF Kept
  <2> QED
    BY <1>7, <2>1, <2>2, <2>3, AsksForTask DEF TaskInv
<1>8. CASE task' = "reopen" /\ pending' = {} /\ got' = got
  BY <1>8 DEF TaskInv
<1>9. CASE PageReadsOld
  <2> DEFINE m == Head(oldToPage)
             new(p) == [asked |-> p.cmd, cmd |-> m.cmd, ok |-> m.ok, data |-> m.data,
                        late |-> TRUE]
  <2>1. /\ pending' = {p \in pending : p.id # m.id}
        /\ \A g \in got' :
              g \in got \/ \E p \in pending : p.id = m.id /\ p.cmd \in Awaits[task] /\ g = new(p)
    BY <1>9, ReadsOldAnswer
  <2>2. task' = task
    BY <1>9 DEF PageReadsOld, Hears
  <2>3. \A p : new(p).asked = p.cmd /\ new(p).late
    OBVIOUS
  <2> HIDE DEF m, new
  <2>4. \A g \in got' : ~g.late => g.asked = g.cmd /\ WellMade(g)
    BY <2>1, <2>3 DEF TaskInv
  <2>5. ASSUME NEW p \in pending, p.id = m.id, p.cmd \in Awaits[task]
        PROVE  /\ \A q \in pending : q.cmd = p.cmd => q = p
               /\ \A q \in pending' : q.cmd # p.cmd
               /\ \A g \in got : g.asked # p.cmd
    <3>1. p.cmd # "poll"
      BY <2>5, NoPollAwaited
    <3> QED
      BY <2>1, <2>5, <3>1 DEF TaskInv
  <2>6. \A g \in got', p \in pending' : g.asked # p.cmd
    BY <2>1, <2>3, <2>5 DEF TaskInv
  <2>7. ASSUME NEW g \in got', NEW h \in got', g.asked = h.asked PROVE g = h
    <3>1. CASE g \in got /\ h \in got
      BY <2>7, <3>1 DEF TaskInv
    <3>2. ASSUME NEW p \in pending, p.id = m.id, p.cmd \in Awaits[task], g = new(p) PROVE g = h
      <4>1. h \notin got
        BY <2>3, <2>5, <2>7, <3>2
      <4>2. PICK q \in pending : q.cmd \in Awaits[task] /\ h = new(q)
        BY <2>1, <4>1
      <4>3. q = p
        BY <2>3, <2>5, <2>7, <3>2, <4>2
      <4> QED
        BY <3>2, <4>2, <4>3
    <3>3. ASSUME NEW p \in pending, p.id = m.id, p.cmd \in Awaits[task], h = new(p), g \in got
          PROVE  FALSE
      BY <2>3, <2>5, <2>7, <3>3
    <3> QED
      BY <2>1, <3>1, <3>2, <3>3
  <2>8. task' # "reopen" => \A g \in got' : g.asked \in Awaits[task'] \cup Kept'
    BY <2>1, <2>2, <2>3 DEF TaskInv, Kept
  <2>9. /\ \A p \in pending' : p.cmd \in Awaits[task'] \cup {"poll"}
        /\ \A p, q \in pending' : p.cmd = q.cmd /\ p.cmd # "poll" => p = q
    BY <2>1, <2>2 DEF TaskInv
  <2> QED
    BY <2>4, <2>6, <2>7, <2>8, <2>9 DEF TaskInv
<1> QED
  BY <1>1, <1>2, <1>3, <1>4, <1>5, <1>6, <1>7, <1>8, <1>9, TaskViews

-----------------------------------------------------------------------------
(* The page *)

Flags == ref \in BOOLEAN /\ rebootRequired \in BOOLEAN /\ port \in BOOLEAN

LEMMA FlagsAre ==
    /\ {ref, rebootRequired, port} \subseteq BOOLEAN <=> Flags
    /\ {ref, rebootRequired, port}' \subseteq BOOLEAN <=> Flags'
BY Zenon DEF Flags

LEMMA PageStep ==
    ASSUME [Next]_vars
    PROVE  /\ UNCHANGED ref \/ ref' = FALSE \/ ref' = TRUE
           /\ UNCHANGED port \/ port' = FALSE \/ port' = TRUE
           /\ UNCHANGED rebootRequired \/ RebootAnswered \/ Saved
           /\ UNCHANGED values \/ Shown \/ Saved
           /\ \/ UNCHANGED left \/ left' = Tries
              \/ (InfoAgain \/ Reopen) /\ left > 0 /\ left' = left - 1
           /\ UNCHANGED got \/ got' = {} \/ PageReads \/ PageReadsOld
           /\ UNCHANGED task \/ task' \in DOMAIN Awaits
           /\ UNCHANGED phase \/ phase' \in {"idle", "connecting", "ready", "busy"}
<1> USE AwaitsOf DEF page, EndsHere, Ends, PhaseAfter
<1>1. CASE PageReads
  BY <1>1 DEF PageReads, Hears
<1>25. CASE PageReadsOld
  BY <1>25 DEF PageReadsOld, Hears
<1>2. CASE TimesOut
  BY <1>2 DEF TimesOut
<1>3. CASE CloseEnds
  BY <1>3 DEF CloseEnds, Told
<1>4. CASE TaskFails
  BY <1>4 DEF TaskFails
<1>5. CASE InfoAgain
  BY <1>5 DEF InfoAgain, InInfo
<1>6. CASE InfoGivesUp
  BY <1>6 DEF InfoGivesUp, InInfo
<1>7. CASE ConnectFails \/ ReopenFails \/ Filled
  BY <1>7 DEF ConnectFails, ReopenFails, Filled
<1>8. CASE Shown
  BY <1>8 DEF Shown
<1>9. CASE GotInfo
  BY <1>9 DEF GotInfo, InInfo
<1>10. CASE Detached
  BY <1>10 DEF Detached
<1>11. CASE Saved
  BY <1>11 DEF Saved
<1>12. CASE WasSet
  BY <1>12 DEF WasSet
<1>13. CASE RebootAnswered
  BY <1>13 DEF RebootAnswered
<1>14. CASE Reopen
  BY <1>14 DEF Reopen
<1>15. CASE ReopenLater
  BY <1>15 DEF ReopenLater
<1>16. CASE Connect
  BY <1>16 DEF Connect
<1>17. CASE Disconnect
  BY <1>17 DEF Disconnect
<1>18. CASE Refresh
  BY <1>18 DEF Refresh, Begins
<1>19. CASE Save
  BY <1>19 DEF Save, Begins
<1>20. CASE Reboot
  BY <1>20 DEF Reboot, Begins
<1>21. CASE FillFromServer
  BY <1>21 DEF FillFromServer
<1>22. CASE Poll
  BY <1>22 DEF Poll
<1>23. CASE Device
  BY <1>23 DEF Device, DeviceReads, DeviceReadsOld, Resets, Crashes, Boots, Unplug, PlugIn
<1>24. CASE UNCHANGED vars
  BY <1>24 DEF vars
<1> QED
  BY <1>1, <1>2, <1>3, <1>4, <1>5, <1>6, <1>7, <1>8, <1>9, <1>10, <1>11, <1>12, <1>13, <1>14,
     <1>15, <1>16, <1>17, <1>18, <1>19, <1>20, <1>21, <1>22, <1>23, <1>24, <1>25
  DEF Next, SessionStep, TaskStep, Click

LEMMA PageTypesStep ==
    ASSUME WireTypes, OldTypes, PageTypes, LineInv, TaskInv, [Next]_vars
    PROVE  PageTypes'
<1>1. Flags'
  <2>1. Flags
    BY FlagsAre DEF PageTypes
  <2>2. ref' \in BOOLEAN /\ port' \in BOOLEAN
    BY <2>1, PageStep, Zenon DEF Flags
  <2>3. rebootRequired' \in BOOLEAN
    <3>1. CASE RebootAnswered
      <4>1. rebootRequired' = FALSE
        BY <3>1 DEF RebootAnswered
      <4> QED
        BY <4>1, Zenon
    <3>2. CASE Saved
      <4>1. rebootRequired' = Needs
        BY <3>2, Zenon DEF Saved
      <4>2. Needs \in BOOLEAN
        BY <2>1, Zenon DEF Needs
      <4> QED
        BY <4>1, <4>2
    <3> QED
      BY <2>1, <3>1, <3>2, PageStep, Zenon DEF Flags
  <2> QED
    BY <2>2, <2>3, Zenon DEF Flags
<1>2. /\ phase' \in {"idle", "connecting", "ready", "busy"} /\ task' \in DOMAIN Awaits
  BY PageStep DEF PageTypes
<1>3. left' \in 0..Tries
  <2>1. left' = left \/ left' = Tries \/ (left > 0 /\ left' = left - 1)
    BY PageStep
  <2>2. left \in 0..Tries /\ Tries \in Nat
    BY SerialBounds DEF PageTypes
  <2> QED
    BY <2>1, <2>2
<1>4. values' \in Values \cup {Nothing, "other"}
  <2>1. Shown \/ Saved => values' = ReadBack
    BY DEF Shown, Saved
  <2>2. ReadBack \in Values \cup {"other"}
    BY DEF ReadBack
  <2> QED
    BY <2>1, <2>2, PageStep DEF PageTypes
<1>5. got' \in SUBSET Taken
  <2>1. CASE PageReads
    <3> DEFINE m == Head(toPage)
    <3>1. /\ m \in Response
          /\ \A g \in got' :
                g \in got \/ g = [asked |-> m.cmd, cmd |-> m.cmd, ok |-> m.ok, data |-> m.data,
                                late |-> FALSE]
      BY <2>1, ReadsAnswer
    <3> HIDE DEF m
    <3>2. [asked |-> m.cmd, cmd |-> m.cmd, ok |-> m.ok, data |-> m.data, late |-> FALSE] \in Taken
      BY <3>1 DEF Response, Taken
    <3> QED
      BY <3>1, <3>2 DEF PageTypes
  <2>2. CASE PageReadsOld
    <3> DEFINE m == Head(oldToPage)
    <3>1. /\ m \in Response
          /\ \A g \in got' :
                g \in got \/ \E p \in pending :
                    g = [asked |-> p.cmd, cmd |-> m.cmd, ok |-> m.ok, data |-> m.data,
                         late |-> TRUE]
      BY <2>2, ReadsOldAnswer
    <3> HIDE DEF m
    <3>2. ASSUME NEW p \in pending
          PROVE  [asked |-> p.cmd, cmd |-> m.cmd, ok |-> m.ok, data |-> m.data,
                  late |-> TRUE] \in Taken
      <4>1. p.cmd \in Commands
        BY DEF WireTypes
      <4> QED
        BY <3>1, <4>1 DEF Response, Taken
    <3> QED
      BY <3>1, <3>2 DEF PageTypes
  <2> QED
    BY <2>1, <2>2, PageStep DEF PageTypes
<1> QED
  BY <1>1, <1>2, <1>3, <1>4, <1>5, FlagsAre DEF PageTypes

LEMMA SetWorkedStep ==
    ASSUME SessionInv, WireTypes, OldTypes, LineInv, TaskInv, SetWorked, [Next]_vars
    PROVE  SetWorked'
<1> SUFFICES ASSUME task' = "reread" PROVE \A g \in got' : g.asked = "set" => g.ok
  BY DEF SetWorked
<1>1. CASE UNCHANGED <<task, got>>
  BY <1>1 DEF SetWorked
<1>2. CASE PageReads \/ PageReadsOld
  <2>1. task = "reread" /\ Awaits[task] = {"get"}
    BY <1>2, AwaitsOf DEF PageReads, PageReadsOld, Hears
  <2>2. CASE PageReads
    BY <2>1, <2>2, ReadsAnswer DEF SetWorked
  <2>3. CASE PageReadsOld
    BY <2>1, <2>3, ReadsOldAnswer DEF SetWorked
  <2> QED
    BY <1>2, <2>2, <2>3
<1>3. CASE WasSet
  BY <1>3 DEF WasSet, Answered, AllOk
<1>4. UNCHANGED <<task, got>> \/ PageReads \/ PageReadsOld \/ WasSet
  <2>1. \/ SameTask \/ Over \/ StartsOver \/ PageReads \/ PageReadsOld \/ Poll
        \/ Refresh \/ Save \/ Reboot \/ InfoAgain \/ GotInfo \/ WasSet
        \/ task' = "reopen" /\ pending' = {} /\ got' = got
    BY TaskViews
  <2> QED
    BY <2>1 DEF SameTask, Over, StartsOver, Poll, page, Refresh, Save, Reboot, Begins, InfoAgain,
                GotInfo
<1> QED
  BY <1>1, <1>2, <1>3, <1>4

LEMMA SoundStep == ASSUME Sound, [Next]_vars PROVE Sound'
<1>1. /\ DeviceTypes /\ WireTypes /\ OldTypes /\ PageTypes
      /\ SessionInv /\ LineInv /\ OldInv /\ TaskInv /\ SetWorked
  BY TypeViews DEF Sound
<1>2. DeviceTypes' /\ WireTypes' /\ LineInv' /\ OldTypes' /\ OldInv'
  BY <1>1, DeviceTypesStep, LineStep, OldTypesStep
<1>3. PageTypes' /\ TaskInv' /\ SessionInv' /\ SetWorked'
  BY <1>1, PageTypesStep, TaskInvStep, SessionInvStep, SetWorkedStep
<1> QED
  BY <1>2, <1>3, TypeViews DEF Sound

-----------------------------------------------------------------------------
(* Without crashes and late answers *)

\* A line is about a request of the task, or a poll.
LEMMA LineOfTask ==
    ASSUME LineInv, TaskInv, NoOrphans, NEW m \in Requests \cup Answers, m.id # 0
    PROVE  /\ \E p \in pending : p.id = m.id /\ p.cmd = m.cmd
           /\ m.cmd \in Awaits[task] \cup {"poll"}
<1>1. PICK p \in pending : p.id = m.id
  BY DEF NoOrphans
<1>2. p.cmd = m.cmd
  BY <1>1 DEF LineInv
<1> QED
  BY <1>1, <1>2 DEF TaskInv

LEMMA AnswersHaveIds ==
    ASSUME LineInv, NEW m \in Answers
    PROVE  /\ m.cmd # "set" => m.id # 0
           /\ m.ok => m.id # 0
BY DEF LineInv, WellMade

\* With nothing pending but polls, no answer under way says anything of the settings.
LEMMA Quiet ==
    ASSUME LineInv, TaskInv, NoOrphans, \A p \in pending : p.cmd = "poll"
    PROVE  \A m \in Answers : (m.cmd = "poll" \/ ~m.ok) /\ m.cmd # "get" /\ ~Applied(m)
<1> SUFFICES ASSUME NEW m \in Answers
             PROVE  (m.cmd = "poll" \/ ~m.ok) /\ m.cmd # "get" /\ ~Applied(m)
  OBVIOUS
<1>1. CASE m.id # 0
  BY <1>1, LineOfTask DEF Applied
<1>2. CASE m.id = 0
  BY <1>2, AnswersHaveIds DEF Applied
<1> QED
  BY <1>1, <1>2

\* Nothing but a save can fail.
LEMMA OnlySaveFails ==
    ASSUME PageTypes, TaskInv, SetWorked, NoneOld, NoneLost, open = "open", Broken, ~Naming
    PROVE  /\ task = "set" /\ \A p \in pending : p.cmd # "set"
           /\ \A g \in got : ~Applied(g)
<1>1. CASE task = "set"
  <2>1. Awaits[task] = {"set"} /\ \A g \in got : g.asked = "set" /\ g.cmd = "set"
    BY <1>1, AwaitsOf DEF TaskInv, Kept, NoneOld
  <2>2. CASE AllOk
    BY <1>1, <2>1, <2>2 DEF Broken, Has, Applied
  <2>3. CASE ~AllOk
    <3>1. PICK h \in got : ~h.ok
      BY <1>1, <2>3 DEF AllOk, InInfo
    <3> QED
      BY <1>1, <2>1, <3>1 DEF TaskInv, Applied
  <2> QED
    BY <2>2, <2>3
<1>2. CASE task # "set"
  <2>1. "set" \notin Awaits[task]
    <3>1. CASE task \in {"info", "reinfo", "load", "refresh", "reread", "reboot"}
      BY <3>1, AwaitsOf
    <3>2. CASE task \notin {"info", "reinfo", "load", "refresh", "reread", "reboot"}
      BY <1>2, <3>2, AwaitsOf DEF Broken, PageTypes
    <3> QED
      BY <3>1, <3>2
  <2>2. \A c \in Awaits[task] : Has(c) \/ \E p \in pending : p.cmd = c
    BY <2>1 DEF NoneLost
  <2>3. AllOk
    <3>1. CASE task = "reread"
      <4>1. ~InInfo /\ Awaits[task] = {"get"} /\ Kept = {"set"}
        BY <3>1, AwaitsOf DEF InInfo, Kept
      <4> QED
        BY <3>1, <4>1 DEF SetWorked, TaskInv, AllOk, WellMade, NoneOld
    <3>2. CASE task # "reread"
      <4>1. task # "reopen" /\ Kept = {}
        BY <3>2, AwaitsOf DEF Broken, Kept
      <4> QED
        BY <2>1, <4>1 DEF TaskInv, AllOk, WellMade, NoneOld, InInfo, Naming
    <3> QED
      BY <3>1, <3>2
  <2> QED
    BY <2>2, <2>3 DEF Broken
<1> QED
  BY <1>1, <1>2

\* Requests asked when nothing but polls is pending
LEMMA AsksCleanly ==
    ASSUME WireTypes, LineInv, TaskInv, NoOrphans,
           NoneOld, got' = got \/ got' = {},
           NEW cmds \in Seq(Commands), NEW val \in Values \cup {Nothing}, Ask(cmds, val),
           \A p \in pending : p.cmd = "poll"
    PROVE  /\ NoOrphans' /\ NoneOld' /\ Answers' = Answers /\ open' = open
           /\ \A i \in DOMAIN cmds : \E p \in pending' : p.cmd = cmds[i]
           /\ \A p \in pending' : p.cmd # "poll" => UnderWay(p)'
<1> DEFINE n == Len(cmds)
<1>1. n \in Nat /\ DOMAIN cmds = 1..n
  OBVIOUS
<1>2. /\ pending' = pending \cup {[id |-> nextId + i - 1, cmd |-> cmds[i]] : i \in 1..n}
      /\ Requests' = Requests \cup
            {[id |-> nextId + i - 1, cmd |-> cmds[i], val |-> val] : i \in 1..n}
      /\ UNCHANGED <<toPage, open, oldToDev, oldToPage>>
  BY Asked DEF WireTypes, LineInv, old
<1> HIDE DEF n
<1>3. Answers' = Answers
  BY <1>2 DEF Answers
<1>4. NoOrphans'
  <2> SUFFICES ASSUME NEW m \in Requests' \cup Answers', m.id # 0
               PROVE  \E p \in pending' : p.id = m.id
    BY DEF NoOrphans
  <2>1. CASE m \in Requests \cup Answers
    BY <1>2, <2>1 DEF NoOrphans
  <2>2. CASE m \notin Requests \cup Answers
    <3>1. PICK i \in 1..n : m = [id |-> nextId + i - 1, cmd |-> cmds[i], val |-> val]
      BY <1>2, <1>3, <2>2
    <3>2. [id |-> nextId + i - 1, cmd |-> cmds[i]] \in pending'
      BY <1>2
    <3> QED
      BY <3>1, <3>2
  <2> QED
    BY <2>1, <2>2
<1>5. ASSUME NEW i \in 1..n PROVE \E p \in pending' : p.cmd = cmds[i]
  <2>1. [id |-> nextId + i - 1, cmd |-> cmds[i]] \in pending'
    BY <1>2
  <2> QED
    BY <2>1
<1>6. ASSUME NEW p \in pending', p.cmd # "poll" PROVE UnderWay(p)'
  <2>1. PICK i \in 1..n : p = [id |-> nextId + i - 1, cmd |-> cmds[i]]
    BY <1>2, <1>6
  <2>2. [id |-> nextId + i - 1, cmd |-> cmds[i], val |-> val] \in Requests'
    BY <1>2
  <2> QED
    BY <2>1, <2>2 DEF UnderWay, Requests
<1>7. NoneOld'
  BY <1>2 DEF NoneOld
<1> QED
  BY <1>1, <1>2, <1>3, <1>4, <1>5, <1>6, <1>7

-----------------------------------------------------------------------------
(* Steps with the session open *)

\* The page does something that concerns neither the device nor the lines.
Rests ==
    /\ UNCHANGED <<dev, saved, running, wire, got, values, rebootRequired>>
    /\ task' = task \/ {task, task'} \subseteq {"none", "fill"}

LEMMA RestsCleanly == ASSUME Clean, open = "open", Rests PROVE Clean'
<1>1. /\ Heard' = Heard /\ Requests' = Requests /\ Answers' = Answers
      /\ UNCHANGED <<dev, saved, running, open, pending, got, values, rebootRequired, old>>
      /\ \A p : UnderWay(p)' = UnderWay(p)
      /\ \A c : Has(c)' = Has(c)
  BY DEF Rests, Heard, Requests, Answers, wire, UnderWay, Has
<1>2. CASE task' = task
  BY <1>1, <1>2
  DEF Clean, NoneOld, old, NoOrphans, DeviceRuns, NoneLost, AsShown, Announced, Naming
<1>3. CASE {task, task'} \subseteq {"none", "fill"}
  <2>1. /\ ~Naming /\ ~Naming' /\ task \notin {"reboot", "load", "reread"} /\ task' # "reboot"
        /\ Awaits[task'] = {}
    BY <1>3, AwaitsOf DEF Naming
  <2> QED
    BY <1>1, <2>1 DEF Clean, NoneOld, old, NoOrphans, DeviceRuns, NoneLost, AsShown, Announced
<1> QED
  BY <1>2, <1>3 DEF Rests

LEMMA TimesOutCleanly ==
    ASSUME PageTypes, TaskInv, Clean, open = "open", TimesOut, faults' = faults, faults = 0
    PROVE  Clean'
<1>1. PICK p \in pending : pending' = pending \ {p} /\ ~UnderWay(p)
  BY DEF TimesOut, CanTimeOut, Clean
<1>2. /\ UNCHANGED <<dev, saved, running, page, toDev, toPage, oldToDev, oldToPage, open>>
      /\ Heard' = Heard /\ Requests' = Requests /\ Answers' = Answers
  BY DEF TimesOut, Heard, Requests, Answers, page, old
<1>3. NoOrphans'
  BY <1>1, <1>2 DEF Clean, NoOrphans, UnderWay, Requests, Answers
<1>4. NoneLost'
  <2>1. \A c : Has(c)' = Has(c)
    BY <1>2 DEF page, Has
  <2>2. \A q : UnderWay(q)' = UnderWay(q)
    BY <1>2 DEF UnderWay
  <2>3. p.cmd \in {"poll", "set", "info"}
    BY <1>1 DEF Clean, NoneLost
  <2>4. ~Naming => "info" \notin Awaits[task] /\ "poll" \notin Awaits[task]
    <3>1. CASE task \in {"load", "refresh", "set", "reread", "reboot"}
      BY <3>1, AwaitsOf
    <3>2. CASE task \in {"none", "fill", "detach", "reopen"}
      BY <3>2, AwaitsOf
    <3> QED
      BY <3>1, <3>2, AwaitsOf DEF Naming, PageTypes
  <2>5. ~Naming => \A c \in Awaits[task] \ {"set"} : p.cmd # c
    BY <2>3, <2>4
  <2>6. task' = task /\ open' = open /\ (Naming' <=> Naming)
    BY <1>2 DEF page, Naming
  <2>7. ~Naming => \A c \in Awaits[task] \ {"set"} : Has(c) \/ \E q \in pending' : q.cmd = c
    BY <1>1, <2>5 DEF Clean, NoneLost
  <2> QED
    BY <1>1, <2>1, <2>2, <2>6, <2>7 DEF Clean, NoneLost
<1> QED
  BY <1>2, <1>3, <1>4 DEF Clean, NoneOld, DeviceRuns, AsShown, Announced, Naming, page

LEMMA FailsCleanly ==
    ASSUME PageTypes, LineInv, TaskInv, SetWorked, Clean, open = "open", TaskFails
    PROVE  Clean'
<1>1. Broken /\ ~Naming
  BY DEF TaskFails, Naming
<1>2. /\ task = "set" /\ \A p \in pending : p.cmd # "set"
      /\ \A g \in got : ~Applied(g)
  BY <1>1, OnlySaveFails DEF Clean
<1>3. \A p \in pending : p.cmd = "poll"
  BY <1>2, AwaitsOf DEF TaskInv
<1>4. /\ UNCHANGED <<dev, saved, running, toDev, toPage, oldToDev, oldToPage, open>>
      /\ UNCHANGED <<values, rebootRequired, pending>>
      /\ task' = "none" /\ got' = {}
  BY <1>2, <1>3, AwaitsOf DEF TaskFails, Ends, device, old
<1>5. \A m \in Answers : m.cmd # "get" /\ ~Applied(m)
  BY <1>3, Quiet DEF Clean
<1>6. Requests' = Requests /\ Answers' = Answers /\ Heard' = Answers
  BY <1>4 DEF Requests, Answers, Heard
<1>7. \A m \in Heard : ~Applied(m)
  BY <1>2, <1>5 DEF Heard
<1>8. values' = saved' /\ dev' = "on"
  BY <1>2, <1>4, <1>7 DEF Clean, AsShown, DeviceRuns, Naming
<1>9. saved' # running' => rebootRequired'
  BY <1>4, <1>7, <1>8 DEF Clean, Announced
<1>10. ~Naming' /\ task' # "reboot" /\ Awaits[task'] = {}
  BY <1>4, AwaitsOf DEF Naming
<1> QED
  BY <1>3, <1>4, <1>5, <1>6, <1>8, <1>9, <1>10
  DEF Clean, NoneOld, NoOrphans, DeviceRuns, NoneLost, AsShown, Announced

\* What the answers say, when nothing but polls is pending
LEMMA HeardOnly ==
    ASSUME LineInv, TaskInv, Clean, \A p \in pending : p.cmd = "poll"
    PROVE  /\ \A m \in Heard : m.cmd = "get" \/ Applied(m) => m \in got
           /\ got = {} => \A m \in Heard : m.cmd # "get" /\ ~Applied(m)
BY Quiet DEF Clean, Heard

\* The page begins a task, or a poll.
LEMMA BeginsCleanly ==
    ASSUME WireTypes, LineInv, TaskInv, Clean, open = "open",
           Refresh \/ Save \/ Reboot \/ Poll
    PROVE  Clean'
<1>1. PICK cmds \in Seq(Commands), val \in Values \cup {Nothing} :
        /\ Ask(cmds, val)
        /\ \/ task' = "refresh" /\ cmds = <<"get", "status">>
           \/ task' = "set"
           \/ task' = "reboot" /\ cmds = <<"reboot">>
           \/ task' = "none"
  BY Programs DEF Refresh, Save, Reboot, Poll, Begins, page, Free
<1>2. /\ task = "none" /\ UNCHANGED <<dev, saved, running, values, rebootRequired>>
      /\ got' = {} \/ got' = got
  BY DEF Refresh, Save, Reboot, Poll, Begins, page, device, Free
<1>3. got = {} /\ \A p \in pending : p.cmd = "poll"
  BY <1>2, OnlyPolls, AwaitsOf DEF TaskInv, Kept
<1>4. /\ NoOrphans' /\ NoneOld' /\ Answers' = Answers /\ open' = open
      /\ \A i \in DOMAIN cmds : \E p \in pending' : p.cmd = cmds[i]
      /\ \A p \in pending' : p.cmd # "poll" => UnderWay(p)'
  BY <1>1, <1>2, <1>3, AsksCleanly DEF Clean
<1>5. Heard' = Heard /\ \A m \in Heard : m.cmd # "get" /\ ~Applied(m)
  BY <1>2, <1>3, <1>4, HeardOnly DEF Heard
<1>6. dev' = "on" /\ values' = saved'
  BY <1>2, <1>5 DEF Clean, DeviceRuns, AsShown, Naming
<1>7. saved' # running' => rebootRequired'
  BY <1>2, <1>5, <1>6 DEF Clean, Announced
<1>8. ~Naming' /\ \A c \in Awaits[task'] \ {"set"} : \E p \in pending' : p.cmd = c
  <2>1. CASE task' = "refresh" /\ cmds = <<"get", "status">>
    <3>1. cmds[1] = "get" /\ cmds[2] = "status" /\ 1 \in DOMAIN cmds /\ 2 \in DOMAIN cmds
      BY <2>1
    <3> QED
      BY <1>4, <2>1, <3>1, AwaitsOf DEF Naming
  <2>2. CASE task' = "reboot" /\ cmds = <<"reboot">>
    <3>1. cmds[1] = "reboot" /\ 1 \in DOMAIN cmds
      BY <2>2
    <3> QED
      BY <1>4, <2>2, <3>1, AwaitsOf DEF Naming
  <2>3. CASE task' \in {"set", "none"}
    BY <2>3, AwaitsOf DEF Naming
  <2> QED
    BY <1>1, <2>1, <2>2, <2>3
<1>9. \A m \in Heard : m.cmd # "reboot"
  <2> SUFFICES ASSUME NEW m \in Answers PROVE m.cmd # "reboot"
    BY <1>3 DEF Heard
  <2>1. (m.cmd = "poll" \/ ~m.ok)
    BY <1>3, Quiet DEF Clean
  <2> QED
    BY <2>1 DEF LineInv, WellMade
<1> QED
  BY <1>4, <1>5, <1>6, <1>7, <1>8, <1>9
  DEF Clean, DeviceRuns, NoneLost, AsShown, Announced

\* The page asks for the name again, or for what the device has.
LEMMA InfoAgainCleanly ==
    ASSUME WireTypes, LineInv, TaskInv, Clean, open = "open", InfoAgain
    PROVE  Clean'
<1>1. /\ Ask(<<"info">>, Nothing) /\ InInfo /\ Broken /\ task' = task /\ got' = got
      /\ UNCHANGED <<dev, saved, running, values, rebootRequired>>
  BY DEF InfoAgain, device
<1>2. \A p \in pending : p.cmd = "poll"
  BY <1>1, NotNamed
<1>3. /\ <<"info">> \in Seq(Commands) /\ Nothing \in Values \cup {Nothing}
  BY Programs
<1>4. /\ NoOrphans' /\ NoneOld' /\ Answers' = Answers /\ open' = open
      /\ \A p \in pending' : p.cmd # "poll" => UnderWay(p)'
  BY <1>1, <1>2, <1>3, AsksCleanly DEF Clean
<1>5. Heard' = Heard /\ Naming' /\ Naming /\ task' # "reboot"
  BY <1>1, <1>4 DEF Heard, Naming, InInfo
<1> QED
  BY <1>1, <1>4, <1>5 DEF Clean, DeviceRuns, NoneLost, AsShown, Announced

LEMMA GotInfoCleanly ==
    ASSUME WireTypes, LineInv, TaskInv, Clean, open = "open", GotInfo
    PROVE  Clean'
<1> DEFINE cmds == <<"schema", "get", "status">>
<1>1. /\ Ask(cmds, Nothing) /\ InInfo /\ Answered /\ task' = "load" /\ got' = {}
      /\ UNCHANGED <<dev, saved, running, values, rebootRequired>>
  BY DEF GotInfo, device
<1>2. /\ cmds \in Seq(Commands) /\ Nothing \in Values \cup {Nothing} /\ DOMAIN cmds = 1..3
      /\ cmds[1] = "schema" /\ cmds[2] = "get" /\ cmds[3] = "status"
      /\ 1 \in 1..3 /\ 2 \in 1..3 /\ 3 \in 1..3
  BY Programs
<1> HIDE DEF cmds
<1>3. \A p \in pending : p.cmd = "poll"
  BY <1>1, OnlyPolls
<1>4. /\ NoOrphans' /\ NoneOld' /\ Answers' = Answers /\ open' = open
      /\ \A i \in DOMAIN cmds : \E p \in pending' : p.cmd = cmds[i]
      /\ \A p \in pending' : p.cmd # "poll" => UnderWay(p)'
  BY <1>1, <1>2, <1>3, AsksCleanly DEF Clean
<1>5. Heard' = Answers /\ \A m \in Answers : m.cmd # "get" /\ ~Applied(m)
  BY <1>1, <1>3, <1>4, Quiet DEF Clean, Heard
<1>6. \A m \in Heard : ~Applied(m)
  BY <1>1, <1>5, AwaitsOf DEF TaskInv, Kept, InInfo, Applied, Heard, Clean, NoneOld
<1>7. dev = "on"
  <2>1. Has("info")
    BY <1>1, AwaitsOf DEF InInfo, Answered
  <2>2. Heard # {} /\ Naming
    BY <1>1, <2>1 DEF Has, Heard, InInfo, Naming
  <2> QED
    BY <2>2 DEF Clean, DeviceRuns
<1>8. saved' # running' => rebootRequired'
  BY <1>1, <1>6, <1>7 DEF Clean, Announced
<1>9. ~Naming' /\ \A c \in Awaits[task'] : \E p \in pending' : p.cmd = c
  BY <1>1, <1>2, <1>4, AwaitsOf DEF Naming
<1> QED
  BY <1>1, <1>4, <1>5, <1>7, <1>8, <1>9
  DEF Clean, DeviceRuns, NoneLost, AsShown, Announced

LEMMA WasSetCleanly ==
    ASSUME WireTypes, LineInv, TaskInv, Clean, open = "open", WasSet
    PROVE  Clean'
<1>1. /\ Ask(<<"get">>, Nothing) /\ task = "set" /\ Answered /\ task' = "reread" /\ got' = got
      /\ UNCHANGED <<dev, saved, running, values, rebootRequired>>
  BY DEF WasSet, device
<1>2. /\ <<"get">> \in Seq(Commands) /\ Nothing \in Values \cup {Nothing}
      /\ 1 \in DOMAIN <<"get">> /\ <<"get">>[1] = "get"
  BY Programs
<1>3. \A p \in pending : p.cmd = "poll"
  BY <1>1, OnlyPolls
<1>4. /\ NoOrphans' /\ NoneOld' /\ Answers' = Answers /\ open' = open
      /\ \E p \in pending' : p.cmd = "get"
      /\ \A p \in pending' : p.cmd # "poll" => UnderWay(p)'
  BY <1>1, <1>2, <1>3, AsksCleanly DEF Clean
<1>5. Heard' = Heard /\ \A m \in Heard : m.cmd # "get"
  <2>1. \A g \in got : g.cmd = "set"
    BY <1>1, AwaitsOf DEF TaskInv, Kept, Clean, NoneOld
  <2> QED
    BY <1>1, <1>3, <1>4, <2>1, HeardOnly DEF Heard
<1>6. dev = "on" /\ ~Naming' /\ Awaits[task'] = {"get"}
  BY <1>1, AwaitsOf DEF Clean, DeviceRuns, Naming
<1> QED
  BY <1>1, <1>4, <1>5, <1>6 DEF Clean, DeviceRuns, NoneLost, AsShown, Announced

\* The settings read back, by a load, a refresh or after a save
LEMMA ReadsSettings ==
    ASSUME TaskInv, NoneOld, Shown \/ Saved
    PROVE  /\ values' = AnswerTo("get") /\ AnswerTo("get") \in Values
           /\ \E g \in got : g.cmd = "get" /\ g.data = AnswerTo("get")
<1>1. values' = ReadBack /\ "get" \in Awaits[task] /\ Answered
  BY AwaitsOf DEF Shown, Saved
<1>2. PICK g \in got : g.asked = "get" /\ AnswerTo("get") = g.data
  BY <1>1, AnswerOf DEF Answered
<1>3. g.cmd = "get" /\ g.data \in Values
  BY <1>2 DEF TaskInv, NoneOld, WellMade
<1> QED
  BY <1>1, <1>2, <1>3 DEF ReadBack

\* What the page shows at the end of a load, a refresh or a save
LEMMA ShowsCleanly ==
    ASSUME LineInv, TaskInv, Clean, open = "open", Shown \/ Saved
    PROVE  Clean'
<1>1. /\ UNCHANGED <<dev, saved, running, wire>>
      /\ task' = "none" /\ got' = {} /\ Answered /\ values' = AnswerTo("get")
      /\ task \in {"load", "refresh", "reread"}
  BY ReadsSettings DEF Clean, Shown, Saved, EndsHere, Ends, device
<1>2. \A p \in pending : p.cmd = "poll"
  BY <1>1, OnlyPolls
<1>3. UNCHANGED <<toDev, toPage, oldToDev, oldToPage, open, pending>>
  BY <1>1 DEF wire, old
<1>4. Requests' = Requests /\ Answers' = Answers /\ Heard' = Answers
  BY <1>1, <1>3 DEF Requests, Answers, Heard
<1>5. \A m \in Answers : m.cmd # "get" /\ ~Applied(m)
  BY <1>2, Quiet DEF Clean
<1>6. values' = saved
  <2>1. \E g \in got : g.cmd = "get" /\ g.data = AnswerTo("get")
    BY ReadsSettings DEF Clean
  <2> QED
    BY <1>1, <2>1 DEF Clean, AsShown, Heard
<1>7. dev = "on" /\ ~Naming' /\ Awaits[task'] = {} /\ task' # "reboot"
  BY <1>1, AwaitsOf DEF Clean, DeviceRuns, Naming
<1>8. saved # running => rebootRequired'
  <2> SUFFICES ASSUME saved # running PROVE rebootRequired'
    OBVIOUS
  <2>1. rebootRequired \/ \E g \in got : Applied(g)
    BY <1>5, <1>7 DEF Clean, Announced, Heard
  <2>2. CASE Shown
    <3>1. \A g \in got : g.cmd # "set"
      BY <2>2, AwaitsOf DEF Shown, TaskInv, Kept, Clean, NoneOld
    <3> QED
      BY <2>1, <2>2, <3>1 DEF Shown, EndsHere, Applied
  <2>3. CASE Saved
    <3>1. rebootRequired' = (rebootRequired \/ AnswerTo("set") = "changed")
      BY <2>3 DEF Saved, Needs
    <3>2. ASSUME NEW g \in got, Applied(g) PROVE AnswerTo("set") = "changed"
      <4>1. g.asked = "set" /\ g.data = "changed"
        BY <3>2 DEF Applied, TaskInv, Clean, NoneOld
      <4>2. PICK h \in got : h.asked = "set" /\ AnswerTo("set") = h.data
        BY <4>1, AnswerOf DEF Has
      <4> QED
        BY <4>1, <4>2 DEF TaskInv
    <3> QED
      BY <2>1, <3>1, <3>2
  <2> QED
    BY <2>2, <2>3
<1> QED
  BY <1>1, <1>2, <1>3, <1>4, <1>5, <1>6, <1>7, <1>8
  DEF Clean, NoneOld, NoOrphans, DeviceRuns, NoneLost, AsShown, Announced

\* The page reads an answer: whatever it says is known to the task now.
LEMMA ReadsCleanly ==
    ASSUME WireTypes, PageTypes, LineInv, TaskInv, Clean, open = "open", PageReads
    PROVE  Clean'
<1> DEFINE m == Head(toPage)
           new == [asked |-> m.cmd, cmd |-> m.cmd, ok |-> m.ok, data |-> m.data, late |-> FALSE]
<1>1. /\ UNCHANGED <<dev, saved, running, toDev, open, task, values, rebootRequired>>
      /\ UNCHANGED <<oldToDev, oldToPage>>
      /\ toPage' = Tail(toPage) /\ toPage # <<>>
  BY DEF PageReads, Hears, device
<1>2. /\ m \in Answers /\ WellMade(m)
      /\ \A p \in pending : p.id = m.id => p.cmd = m.cmd
      /\ pending' = {p \in pending : p.id # m.id}
      /\ \A g \in got' : g \in got \/ (m.cmd \in Awaits[task] /\ g = new)
      /\ got \subseteq got'
      /\ \A p \in pending : p.id = m.id /\ p.cmd \in Awaits[task] => new \in got'
  BY ReadsAnswer
<1>3. /\ new.asked = m.cmd /\ new.cmd = m.cmd /\ new.ok = m.ok /\ new.data = m.data
      /\ ~new.late
  OBVIOUS
<1>4. /\ Requests' = Requests /\ Answers = {m} \cup Answers'
      /\ \A k \in Answers' : k.id # 0 => k.id # m.id
  <2>1. /\ Answers = {m} \cup ToSet(Tail(toPage))
        /\ \A k \in ToSet(Tail(toPage)) : k.id # 0 => k.id # m.id
    BY <1>1, HeadAndTail DEF WireTypes, LineInv, Answers
  <2> QED
    BY <1>1, <2>1 DEF Requests, Answers
<1> HIDE DEF m, new
<1>5. NoOrphans'
  <2> SUFFICES ASSUME NEW k \in Requests' \cup Answers', k.id # 0
               PROVE  \E p \in pending' : p.id = k.id
    BY DEF NoOrphans
  <2>1. PICK p \in pending : p.id = k.id
    BY <1>4 DEF Clean, NoOrphans
  <2>2. k.id # m.id
    BY <1>2, <1>4 DEF LineInv
  <2> QED
    BY <1>2, <2>1, <2>2
<1>6. m.ok => m.cmd = "poll" \/ new \in got'
  <2> SUFFICES ASSUME m.ok, m.cmd # "poll" PROVE new \in got'
    OBVIOUS
  <2>1. m.id # 0
    BY <1>2, AnswersHaveIds
  <2>2. PICK p \in pending : p.id = m.id /\ p.cmd = m.cmd
    BY <1>2, <2>1, LineOfTask DEF Clean
  <2>3. p.cmd \in Awaits[task]
    BY <2>2 DEF TaskInv
  <2> QED
    BY <1>2, <2>2, <2>3
<1>7. /\ \A g \in Heard' : g \in Heard \/ g = new
      /\ \A g \in Heard : g \in Heard' \/ g = m
  BY <1>2, <1>4 DEF Heard
<1>8. /\ (\E g \in Heard' : g.cmd = "reboot") <=> (\E g \in Heard : g.cmd = "reboot")
      /\ (\E g \in Heard : Applied(g)) => \E g \in Heard' : Applied(g)
  <2>1. (\E g \in Heard' : g.cmd = "reboot") => \E g \in Heard : g.cmd = "reboot"
    BY <1>2, <1>3, <1>7 DEF Heard
  <2>2. m.cmd = "reboot" => \E g \in Heard' : g.cmd = "reboot"
    BY <1>2, <1>3, <1>6 DEF WellMade, Heard
  <2>3. Applied(m) => \E g \in Heard' : Applied(g)
    <3>1. Applied(m) => Applied(new) /\ new \in got'
      BY <1>3, <1>6 DEF Applied
    <3> QED
      BY <3>1 DEF Heard
  <2> QED
    BY <1>7, <2>1, <2>2, <2>3
<1>9. DeviceRuns'
  <2>1. Heard # {}
    BY <1>2 DEF Heard
  <2>2. Naming' <=> Naming
    BY <1>1 DEF Naming
  <2>3. /\ ~Naming /\ task # "reboot" => dev = "on"
        /\ Naming => dev = "on"
        /\ task = "reboot" => IF \E g \in Heard : g.cmd = "reboot"
                              THEN dev # "on" \/ running = saved
                              ELSE dev = "on"
    BY <2>1 DEF Clean, DeviceRuns
  <2> QED
    BY <1>1, <1>8, <2>2, <2>3 DEF DeviceRuns
<1>10. NoneLost'
  <2>1. ASSUME NEW c \in Awaits[task] \ {"set"}, ~Naming
        PROVE  Has(c)' \/ \E p \in pending' : p.cmd = c
    <3>1. CASE Has(c)
      BY <1>2, <3>1 DEF Has
    <3>2. ASSUME NEW p \in pending, p.cmd = c PROVE Has(c)' \/ \E q \in pending' : q.cmd = c
      <4>1. CASE p.id = m.id
        BY <1>2, <1>3, <3>2, <4>1 DEF Has
      <4>2. CASE p.id # m.id
        BY <1>2, <3>2, <4>2
      <4> QED
        BY <4>1, <4>2
    <3> QED
      BY <2>1, <3>1, <3>2 DEF Clean, NoneLost
  <2>2. ASSUME NEW p \in pending', p.cmd \notin {"poll", "set", "info"}
        PROVE  UnderWay(p)'
    <3>1. PICK k \in Requests \cup Answers : k.id = p.id
      BY <1>2, <2>2 DEF Clean, NoneLost, UnderWay, Requests, Answers
    <3>2. k # m
      BY <1>2, <3>1
    <3> QED
      BY <1>4, <3>1, <3>2 DEF UnderWay, Requests, Answers
  <2> QED
    BY <1>1, <2>1, <2>2 DEF NoneLost, Naming
<1>11. AsShown'
  <2>1. \A g \in Heard' : g.cmd = "get" => g.data = saved
    BY <1>2, <1>3, <1>7 DEF Clean, AsShown, Heard
  <2> QED
    BY <1>1, <1>8, <2>1 DEF Clean, AsShown, Naming
<1>12. Announced'
  BY <1>1, <1>8 DEF Clean, Announced
<1>13. NoneOld'
  BY <1>1, <1>2, <1>3 DEF Clean, NoneOld
<1> QED
  BY <1>1, <1>5, <1>9, <1>10, <1>11, <1>12, <1>13 DEF Clean

LEMMA AnswersCleanly ==
    ASSUME DeviceTypes, WireTypes, PageTypes, LineInv, TaskInv, Clean, open = "open", DeviceReads
    PROVE  Clean'
<1> DEFINE m == Head(toDev)
           a == Answer(m)
<1>1. /\ UNCHANGED <<running, open, task, got, pending, values, rebootRequired>>
      /\ UNCHANGED <<oldToDev, oldToPage>>
      /\ toDev # <<>> /\ dev = "on" /\ toDev' = Tail(toDev) /\ toPage' = Append(toPage, a)
      /\ dev' = (IF m.cmd = "reboot" THEN "resetting" ELSE "on")
      /\ saved' = (IF m.cmd = "set" /\ Accepts(m.val) THEN m.val ELSE saved)
  BY DEF DeviceReads, Dispatch, page, old
<1>2. /\ m \in Request /\ m \in Requests /\ Requests = {m} \cup Requests'
  <2>1. m \in Request /\ Requests = {m} \cup ToSet(Tail(toDev))
    BY <1>1, HeadAndTail DEF WireTypes, Requests
  <2> QED
    BY <1>1, <2>1 DEF Requests
<1>3. /\ a \in Response /\ a.cmd = m.cmd /\ WellMade(a)
      /\ a.id = m.id \/ (a.id = 0 /\ ~a.ok /\ m.cmd = "set")
      /\ a.cmd = "get" => a.data = saved
      /\ m.cmd = "set" /\ Accepts(m.val) /\ m.val # saved => Applied(a)
      /\ m.id # 0 /\ m.cmd # "set" => a.id = m.id
  BY <1>2, WhatIsAnswered DEF DeviceTypes, LineInv
<1> HIDE DEF a
<1>4. Answers' = Answers \cup {a}
  BY <1>1, <1>3, Appended DEF WireTypes, Answers
<1> HIDE DEF m
<1>5. m.id # 0 /\ m.cmd \in Awaits[task] \cup {"poll"}
  BY <1>2, LineOfTask DEF Clean, LineInv
<1>6. Heard' = Heard \cup {a}
  BY <1>1, <1>4 DEF Heard
<1>7. NoOrphans'
  <2> SUFFICES ASSUME NEW k \in Requests' \cup Answers', k.id # 0
               PROVE  \E p \in pending : p.id = k.id
    BY <1>1 DEF NoOrphans
  <2>1. k \in Requests \cup Answers \/ k.id = m.id
    BY <1>2, <1>3, <1>4
  <2> QED
    BY <1>2, <2>1 DEF Clean, NoOrphans
<1>8. m.cmd = "reboot" => task = "reboot"
  <2>1. CASE task \in {"info", "reinfo", "load", "refresh", "set", "reread"}
    BY <1>5, <2>1, AwaitsOf
  <2>2. CASE task \in {"none", "fill", "detach", "reopen"}
    BY <1>5, <2>2, AwaitsOf
  <2> QED
    BY <2>1, <2>2, AwaitsOf DEF PageTypes
<1>9. m.cmd = "set" => task = "set"
  <2>1. CASE task \in {"info", "reinfo", "load", "refresh", "reboot", "reread"}
    BY <1>5, <2>1, AwaitsOf
  <2>2. CASE task \in {"none", "fill", "detach", "reopen"}
    BY <1>5, <2>2, AwaitsOf
  <2> QED
    BY <2>1, <2>2, AwaitsOf DEF PageTypes
<1>10. DeviceRuns'
  <2>1. ~Naming /\ task # "reboot" => dev' = "on"
    BY <1>1, <1>8
  <2>2. Naming => dev' = "on"
    BY <1>1, <1>8 DEF Naming
  <2>3. CASE task = "reboot"
    <3>1. m.cmd # "set" /\ saved' = saved
      BY <1>1, <1>9, <2>3
    <3>2. CASE m.cmd = "reboot"
      BY <1>1, <1>3, <1>6, <3>2, <2>3 DEF DeviceRuns, Naming
    <3>3. CASE m.cmd # "reboot"
      <4>1. (\E k \in Heard' : k.cmd = "reboot") <=> \E k \in Heard : k.cmd = "reboot"
        BY <1>3, <1>6, <3>3
      <4> QED
        BY <1>1, <2>3, <3>1, <3>3, <4>1 DEF Clean, DeviceRuns, Naming
    <3> QED
      BY <3>2, <3>3
  <2>4. CASE task # "reboot"
    BY <1>1, <2>1, <2>2, <2>4 DEF DeviceRuns, Naming
  <2> QED
    BY <2>3, <2>4
<1>11. NoneLost'
  <2>1. ASSUME NEW p \in pending, p.cmd \notin {"poll", "set", "info"} PROVE UnderWay(p)'
    <3>1. PICK k \in Requests \cup Answers : k.id = p.id
      BY <1>1, <2>1 DEF Clean, NoneLost, UnderWay, Requests, Answers
    <3>2. CASE k = m
      <4>1. m.cmd = p.cmd /\ a.id = p.id
        BY <1>2, <1>3, <1>5, <2>1, <3>1, <3>2 DEF LineInv
      <4> QED
        BY <1>4, <4>1 DEF UnderWay, Answers
    <3>3. CASE k # m
      BY <1>2, <1>4, <3>1, <3>3 DEF UnderWay, Requests, Answers
    <3> QED
      BY <3>2, <3>3
  <2> QED
    BY <1>1, <2>1 DEF Clean, NoneLost, Naming, Has
<1>12. AsShown' /\ Announced'
  <2>1. CASE saved' = saved
    <3>1. \A k \in Heard' : k.cmd = "get" => k.data = saved'
      BY <1>1, <1>3, <1>6, <2>1 DEF Clean, AsShown
    <3> QED
      BY <1>1, <1>6, <2>1, <3>1 DEF Clean, AsShown, Announced, Naming
  <2>2. CASE saved' # saved
    <3>1. m.cmd = "set" /\ Applied(a) /\ task = "set" /\ a.cmd = "set"
      BY <1>1, <1>3, <1>9, <2>2
    <3>2. Awaits[task] = {"set"}
      BY <3>1, AwaitsOf
    <3>3. \A g \in got : g.cmd = "set"
      BY <3>1, <3>2 DEF TaskInv, Kept, Clean, NoneOld
    <3>4. \A k \in Answers : k.cmd # "get"
      BY <3>2, LineOfTask, AnswersHaveIds DEF Clean
    <3>5. \A k \in Heard' : k.cmd # "get"
      BY <1>6, <3>1, <3>3, <3>4 DEF Heard
    <3> QED
      BY <1>1, <1>6, <3>1, <3>5 DEF AsShown, Announced
  <2> QED
    BY <2>1, <2>2
<1>13. NoneOld'
  BY <1>1 DEF Clean, NoneOld
<1> QED
  BY <1>1, <1>7, <1>10, <1>11, <1>12, <1>13 DEF Clean

\* The device boots, after a reboot that was asked for or under somebody who asks for its name.
LEMMA RestartsCleanly ==
    ASSUME PageTypes, LineInv, TaskInv, Clean, open = "open", Resets \/ Boots
    PROVE  Clean'
<1>1. /\ UNCHANGED <<saved, toPage, oldToPage, open, task, got, pending, values, rebootRequired>>
      /\ UNCHANGED oldToDev \/ oldToDev' = <<>>
      /\ dev # "on" /\ (toDev' = toDev \/ toDev' = <<>>)
      /\ \/ dev' = "booting" /\ running' = running
         \/ dev' = "on" /\ running' = saved
      /\ (dev = "resetting" /\ dev' = "booting") \/ (dev = "booting" /\ dev' = "on")
  <2>1. CASE Resets
    BY <2>1 DEF Resets, page
  <2>2. CASE Boots
    BY <2>2 DEF Boots, page
  <2> QED
    BY <2>1, <2>2
<1>2. Answers' = Answers /\ Requests' \subseteq Requests /\ Heard' = Heard
  <2>1. Answers' = Answers /\ Heard' = Heard
    BY <1>1 DEF Answers, Heard
  <2>2. toDev' = <<>> => Requests' = {}
    BY NoLines DEF Requests
  <2>3. toDev' = toDev => Requests' = Requests
    BY DEF Requests
  <2> QED
    BY <1>1, <2>1, <2>2, <2>3
<1>3. /\ Naming \/ task = "reboot"
      /\ Naming => Heard = {}
      /\ task = "reboot" => \E m \in Heard : m.cmd = "reboot"
  BY <1>1 DEF Clean, DeviceRuns
<1>4. NoOrphans'
  BY <1>1, <1>2 DEF Clean, NoOrphans
<1>5. DeviceRuns'
  BY <1>1, <1>2, <1>3 DEF DeviceRuns, Naming
<1>6. NoneLost'
  <2>1. ASSUME NEW p \in pending, p.cmd \notin {"poll", "set", "info"} PROVE UnderWay(p)'
    <3>1. task = "reboot" /\ p.cmd = "reboot"
      BY <1>3, <2>1, AwaitsOf DEF TaskInv, Naming
    <3>2. PICK m \in Heard : m.cmd = "reboot"
      BY <1>3, <3>1
    <3>3. m \in Answers
      BY <3>1, <3>2 DEF TaskInv, Heard, Clean, NoneOld
    <3>4. PICK q \in pending : q.id = m.id /\ q.cmd = "reboot"
      BY <3>2, <3>3, LineOfTask, AnswersHaveIds DEF Clean
    <3>5. p = q
      BY <3>1, <3>4 DEF TaskInv
    <3> QED
      BY <1>2, <3>3, <3>4, <3>5 DEF UnderWay, Answers
  <2> QED
    BY <1>1, <2>1 DEF Clean, NoneLost, Naming, Has
<1>7. AsShown' /\ Announced'
  BY <1>1, <1>2 DEF Clean, AsShown, Announced, Naming
<1>8. NoneOld'
  <2>1. oldToDev = <<>>
    BY DEF Clean, NoneOld
  <2> QED
    BY <1>1, <2>1 DEF Clean, NoneOld
<1> QED
  BY <1>1, <1>4, <1>5, <1>6, <1>7, <1>8 DEF Clean

-----------------------------------------------------------------------------
(* Steps with the session closed, and all steps *)

LEMMA OpenStep ==
    ASSUME SessionInv, [Next]_vars
    PROVE  \/ open' = open
           \/ CloseEnds
           \/ open = "open" /\ open' = "closing" /\ (InfoGivesUp \/ RebootAnswered \/ Disconnect)
           \/ open = "open" /\ open' = "closing" /\ Unplug
           \/ /\ open = "closed" /\ open' = "open" /\ Opens
              /\ task' \in {"info", "reinfo"} /\ got' = {}
              /\ UNCHANGED <<dev, saved, running, values, rebootRequired>>
<1> USE DEF wire
<1>1. CASE SessionStep
  BY <1>1 DEF SessionStep, PageReads, PageReadsOld, Hears, TimesOut
<1>2. CASE TaskFails \/ InfoAgain \/ ConnectFails \/ GotInfo \/ Shown \/ Detached \/ WasSet
           \/ Saved \/ Filled \/ ReopenLater \/ ReopenFails
  BY <1>2
  DEF TaskFails, InfoAgain, ConnectFails, GotInfo, Shown, Detached, WasSet, Saved, Filled,
      ReopenLater, ReopenFails, EndsHere, Ask
<1>3. CASE InfoGivesUp
  BY <1>3 DEF InfoGivesUp, Closes, Ended
<1>4. CASE RebootAnswered
  <2>1. open = "open" /\ open' = "closing"
    BY <1>4, AwaitsOf DEF RebootAnswered, Closes, Ended, SessionInv
  <2> QED
    BY <1>4, <2>1
<1>5. CASE Disconnect \/ Unplug
  BY <1>5 DEF Disconnect, Unplug, Closes, Ended
<1>6. CASE Connect \/ Reopen
  <2>1. Opens => open' = "open"
    BY DEF Opens
  <2> QED
    BY <1>6, <2>1 DEF Connect, Reopen, device
<1>7. CASE Refresh \/ Save \/ Reboot \/ FillFromServer \/ Poll
  BY <1>7 DEF Refresh, Save, Reboot, FillFromServer, Begins, Poll, Ask
<1>8. CASE DeviceReads \/ DeviceReadsOld \/ Resets \/ Crashes \/ Boots \/ PlugIn
  BY <1>8 DEF DeviceReads, DeviceReadsOld, Resets, Crashes, Boots, PlugIn
<1>9. CASE UNCHANGED vars
  BY <1>9 DEF vars
<1> QED
  BY <1>1, <1>2, <1>3, <1>4, <1>5, <1>6, <1>7, <1>8, <1>9 DEF Next, TaskStep, Click, Device

\* Once the session is closed all that is left is the wish for a reboot.
LEMMA ClosesCleanly ==
    ASSUME Sound, Clean, [Next]_vars, SessionInv', open' # "open", dev' # "hung"
    PROVE  Clean'
<1>1. SessionInv /\ LineInv /\ TaskInv /\ OldTypes /\ WireTypes
  BY TypeViews DEF Sound
<1>2. Requests' = {} /\ Answers' = {}
  <2>1. toDev' = <<>> /\ toPage' = <<>>
    BY DEF SessionInv
  <2> QED
    BY <2>1, NoLines DEF Requests, Answers
<1>4. ASSUME DeviceReadsOld PROVE UNCHANGED <<dev, saved, running>> /\ NoneOld'
  <2> DEFINE m == Head(oldToDev)
  <2>1. /\ oldToDev # <<>> /\ oldToDev' = Tail(oldToDev) /\ UNCHANGED <<running, got, open>>
        /\ saved' = (IF m.cmd = "set" /\ Accepts(m.val) THEN m.val ELSE saved)
        /\ dev' = (IF m.cmd = "reboot" THEN "resetting" ELSE dev)
    BY <1>4 DEF DeviceReadsOld, Dispatch, page
  <2>2. m \in ToSet(oldToDev) /\ ToSet(oldToDev') \subseteq ToSet(oldToDev)
    BY <1>1, <2>1, HeadAndTail DEF OldTypes
  <2>3. m.cmd = "poll"
    BY <2>2 DEF Clean, NoneOld
  <2> HIDE DEF m
  <2> QED
    BY <2>1, <2>2, <2>3 DEF Clean, NoneOld
\* A session that is open is closed with nothing pending but polls.
<1>5. InfoGivesUp \/ RebootAnswered \/ Disconnect => \A p \in pending : p.cmd = "poll"
  <2>1. InfoGivesUp => \A p \in pending : p.cmd = "poll"
    BY <1>1, NotNamed DEF InfoGivesUp
  <2>2. RebootAnswered => \A p \in pending : p.cmd = "poll"
    BY <1>1, OnlyPolls DEF RebootAnswered
  <2>3. Disconnect => \A p \in pending : p.cmd = "poll"
    BY <1>1, OnlyPolls, AwaitsOf DEF Disconnect, Free
  <2> QED
    BY <2>1, <2>2, <2>3
<1>6. ASSUME Closes, open = "open", open' # open PROVE \A m \in ToSet(oldToDev') : m.cmd = "poll"
  <2>1. ~Unplug => \A p \in pending : p.cmd = "poll"
    BY <1>1, <1>5, <1>6, OpenStep DEF CloseEnds
  <2>2. CASE Unplug
    <3>1. oldToDev' = <<>>
      BY <2>2 DEF Unplug
    <3>2. ToSet(oldToDev') = {}
      BY <3>1, NoLines
    <3> QED
      BY <3>2
  <2>3. CASE ~Unplug
    <3>1. oldToDev' = oldToDev \o toDev
      BY <1>6 DEF Closes, Clean
    <3>2. ToSet(oldToDev \o toDev) = ToSet(oldToDev) \cup Requests
      BY <1>1, Concatenated DEF OldTypes, WireTypes, Requests
    <3>3. ASSUME NEW m \in Requests PROVE m.cmd = "poll"
      BY <1>1, <2>1, <2>3, LineOfTask DEF Clean, LineInv
    <3> QED
      BY <3>1, <3>2, <3>3 DEF Clean, NoneOld
  <2> QED
    BY <2>2, <2>3
<1>7. NoneOld'
  <2>1. \A g \in got' : ~g.late
    <3>1. got' = got \/ got' = {} \/ PageReads \/ PageReadsOld
      BY PageStep
    <3>2. ~PageReads /\ ~PageReadsOld
      BY <1>1 DEF PageReads, PageReadsOld, Hears
    <3> QED
      BY <3>1, <3>2 DEF Clean, NoneOld
  <2>2. CASE UNCHANGED oldToDev
    BY <2>1, <2>2 DEF Clean, NoneOld
  <2>3. CASE oldToDev' = <<>>
    <3>1. ToSet(oldToDev') = {}
      BY <2>3, NoLines
    <3> QED
      BY <2>1, <3>1 DEF NoneOld
  <2>4. CASE Closes /\ open = "open"
    <3>1. \A m \in ToSet(oldToDev') : m.cmd = "poll"
      BY <1>6, <2>4
    <3> QED
      BY <2>1, <3>1 DEF NoneOld
  <2>5. CASE Closes /\ open # "open"
    <3>1. oldToDev' = <<>> \/ oldToDev' = oldToDev \o toDev
      BY <2>5 DEF Closes
    <3>2. oldToDev' = oldToDev \o toDev => UNCHANGED oldToDev
      <4>1. toDev = <<>> /\ oldToDev \in Seq(Request)
        BY <1>1, <2>5 DEF SessionInv, OldTypes
      <4> QED
        BY <4>1
    <3> QED
      BY <2>2, <2>3, <3>1, <3>2
  <2> QED
    BY <1>4, <2>2, <2>3, <2>4, <2>5, OldStep
<1>3. ASSUME dev' = "on", saved' # running' PROVE rebootRequired'
  <2>1. ~DeviceReads
    <3> SUFFICES ASSUME DeviceReads PROVE FALSE
      OBVIOUS
    <3>1. toDev # <<>> /\ open' = open
      BY DEF DeviceReads
    <3> QED
      BY <1>1, <3>1 DEF SessionInv
  <2>2. UNCHANGED <<dev, saved, running>>
    BY <1>3, <1>4, <2>1, DeviceStep DEF Resets, Crashes, Boots, Unplug, PlugIn
  <2>3. ~Unplug
    BY <1>3 DEF Unplug
  <2>4. ~RebootAnswered
    <3> SUFFICES ASSUME RebootAnswered PROVE FALSE
      OBVIOUS
    <3>1. task = "reboot" /\ Answered /\ Awaits[task] = {"reboot"}
      BY AwaitsOf DEF RebootAnswered
    <3>2. open = "open" /\ \E g \in got : g.cmd = "reboot"
      BY <1>1, <3>1 DEF SessionInv, Answered, Has, TaskInv, Clean, NoneOld
    <3> QED
      BY <1>3, <2>2, <3>1, <3>2 DEF Clean, DeviceRuns, Heard
  <2>5. ~Saved
    <3> SUFFICES ASSUME Saved PROVE FALSE
      OBVIOUS
    <3>1. task = "reread" /\ Answered /\ open' = open
      BY DEF Saved, wire
    <3> QED
      BY <1>1, <3>1, AwaitsOf DEF SessionInv
  <2>6. rebootRequired' = rebootRequired
    BY <2>4, <2>5, PageStep
  <2>7. CASE open = "open"
    <3>1. InfoGivesUp \/ Disconnect
      BY <1>1, <2>3, <2>4, <2>7, OpenStep DEF CloseEnds
    <3>2. \A g \in got : ~Applied(g)
      <4>1. CASE InfoGivesUp
        BY <1>1, <4>1, AwaitsOf
        DEF InfoGivesUp, InInfo, TaskInv, Kept, Clean, NoneOld, Applied
      <4>2. CASE Disconnect
        <5>1. task = "none"
          BY <4>2 DEF Disconnect, Free
        <5> QED
          BY <1>1, <5>1, AwaitsOf DEF TaskInv, Kept
      <4> QED
        BY <3>1, <4>1, <4>2
    <3>3. \A m \in Heard : ~Applied(m)
      BY <1>1, <1>5, <3>1, <3>2, HeardOnly
    <3> QED
      BY <1>3, <2>2, <2>6, <3>3 DEF Clean, Announced
  <2>8. CASE open # "open"
    BY <1>3, <2>2, <2>6, <2>8 DEF Clean, Announced
  <2> QED
    BY <2>7, <2>8
<1> QED
  BY <1>2, <1>3, <1>7 DEF Clean, NoOrphans, DeviceRuns, NoneLost, AsShown, Announced

LEMMA OpensCleanly ==
    ASSUME SessionInv, Clean, faults' = 0, open # "open", open' = "open", Opens,
           task' \in {"info", "reinfo"}, got' = {},
           UNCHANGED <<dev, saved, running, values, rebootRequired>>
    PROVE  Clean'
<1>1. /\ toDev' = <<[id |-> 1, cmd |-> "info", val |-> Nothing]>> /\ toPage' = <<>>
      /\ pending' = {[id |-> 1, cmd |-> "info"]}
  BY DEF Opens
<1>2. Requests' = {[id |-> 1, cmd |-> "info", val |-> Nothing]} /\ Answers' = {} /\ Heard' = {}
  BY <1>1, NoLines, OneLine DEF Requests, Answers, Heard
<1>3. Naming' /\ task' # "reboot"
  BY DEF Naming
<1>4. NoOrphans'
  BY <1>1, <1>2 DEF NoOrphans
<1>5. DeviceRuns' /\ NoneLost' /\ AsShown'
  BY <1>1, <1>2, <1>3 DEF DeviceRuns, NoneLost, AsShown
<1>6. Announced'
  BY DEF Clean, Announced
<1>7. NoneOld'
  <2>1. oldToDev' = <<>> /\ oldToPage' = <<>>
    BY DEF Opens, old, SessionInv
  <2>2. ToSet(oldToDev') = {}
    BY <2>1, NoLines
  <2> QED
    BY <2>1, <2>2 DEF NoneOld
<1> QED
  BY <1>4, <1>5, <1>6, <1>7 DEF Clean

\* The steps that keep the session open
LEMMA StaysOpen ==
    ASSUME Sound, NoneOld, [Next]_vars, open = "open", open' = "open"
    PROVE  \/ PageReads \/ TimesOut \/ TaskFails \/ InfoAgain \/ GotInfo \/ Shown \/ WasSet
           \/ Saved \/ Refresh \/ Save \/ Reboot \/ Poll \/ DeviceReads \/ Resets \/ Boots
           \/ Crashes \/ Rests
<1>1. SessionInv /\ TaskInv
  BY DEF Sound
<1>2. CASE CloseEnds \/ InfoGivesUp \/ RebootAnswered \/ Disconnect \/ Unplug \/ Reopen
           \/ Detached \/ ReopenFails \/ ConnectFails \/ ReopenLater
  BY <1>2 DEF CloseEnds, InfoGivesUp, RebootAnswered, Disconnect, Unplug, Closes, Ended, Reopen,
              Detached, ReopenFails, ConnectFails, ReopenLater
<1>3. CASE PlugIn
  BY <1>1, <1>3 DEF PlugIn, SessionInv
<1>4. CASE Filled
  <2>1. got = {} /\ task = "fill"
    BY <1>1, <1>4, AwaitsOf DEF Filled, TaskInv, Kept
  <2> QED
    BY <1>4, <2>1 DEF Filled, EndsHere, Ends, Rests, device
<1>5. CASE FillFromServer
  BY <1>5 DEF FillFromServer, Free, Rests, device
<1>6. CASE Connect
  BY <1>6 DEF Connect, Opens, Rests, device
<1>7. CASE UNCHANGED vars
  BY <1>7 DEF vars, Rests, device, page
<1>8. ~PageReadsOld /\ ~DeviceReadsOld
  BY DEF NoneOld, PageReadsOld, DeviceReadsOld
<1> QED
  BY <1>2, <1>3, <1>4, <1>5, <1>6, <1>7, <1>8 DEF Next, SessionStep, TaskStep, Click, Device

LEMMA CleanInvStep == ASSUME SetupInv, Sound', [Next]_vars PROVE CleanInv'
<1> SUFFICES ASSUME faults' = 0 PROVE Clean'
  BY DEF CleanInv
<1>1. /\ DeviceTypes /\ WireTypes /\ PageTypes /\ LineInv /\ TaskInv /\ SetWorked
      /\ SessionInv /\ Sound /\ CleanInv /\ SessionInv'
  BY TypeViews DEF SetupInv, Sound
<1>2. faults \in Nat
  BY <1>1, SerialBounds DEF DeviceTypes
<1>3. faults = 0 /\ faults' = faults /\ ~Crashes
  <2>1. faults' = faults \/ faults' = faults + 1 \/ faults' = 1
    BY DeviceStep
    DEF DeviceReads, DeviceReadsOld, Resets, Crashes, Boots, Unplug, PlugIn, Opens
  <2>2. Crashes => faults' = faults + 1
    BY DEF Crashes
  <2> QED
    BY <1>2, <2>1, <2>2
<1>4. Clean
  BY <1>1, <1>3 DEF CleanInv
<1>5. dev' # "hung"
  BY <1>3, <1>4, DeviceStep DEF Clean, DeviceReads, DeviceReadsOld, Dispatch, Resets, Boots, Unplug,
                                   PlugIn
<1>6. CASE open' # "open"
  BY <1>1, <1>4, <1>5, <1>6, ClosesCleanly
<1>7. CASE open # "open" /\ open' = "open"
  <2>1. /\ Opens /\ task' \in {"info", "reinfo"} /\ got' = {}
        /\ UNCHANGED <<dev, saved, running, values, rebootRequired>>
    BY <1>1, <1>7, OpenStep DEF CloseEnds
  <2> QED
    BY <1>1, <1>4, <1>7, <2>1, OpensCleanly
<1>8. CASE open = "open" /\ open' = "open"
  <2>1. CASE Rests
    BY <1>4, <1>8, <2>1, RestsCleanly
  <2>2. CASE PageReads
    BY <1>1, <1>4, <1>8, <2>2, ReadsCleanly
  <2>3. CASE TimesOut
    BY <1>1, <1>3, <1>4, <1>8, <2>3, TimesOutCleanly
  <2>4. CASE TaskFails
    BY <1>1, <1>4, <1>8, <2>4, FailsCleanly
  <2>5. CASE InfoAgain
    BY <1>1, <1>4, <1>8, <2>5, InfoAgainCleanly
  <2>6. CASE GotInfo
    BY <1>1, <1>4, <1>8, <2>6, GotInfoCleanly
  <2>7. CASE Shown \/ Saved
    BY <1>1, <1>4, <1>8, <2>7, ShowsCleanly
  <2>8. CASE WasSet
    BY <1>1, <1>4, <1>8, <2>8, WasSetCleanly
  <2>9. CASE Refresh \/ Save \/ Reboot \/ Poll
    BY <1>1, <1>4, <1>8, <2>9, BeginsCleanly
  <2>10. CASE DeviceReads
    BY <1>1, <1>4, <1>8, <2>10, AnswersCleanly
  <2>11. CASE Resets \/ Boots
    BY <1>1, <1>4, <1>8, <2>11, RestartsCleanly
  <2>12. NoneOld
    BY <1>4 DEF Clean
  <2> QED
    BY <1>1, <1>3, <1>8, <2>1, <2>2, <2>3, <2>4, <2>5, <2>6, <2>7, <2>8, <2>9, <2>10, <2>11,
       <2>12, StaysOpen
<1> QED
  BY <1>6, <1>7, <1>8

LEMMA SetupInvariant == Spec => []SetupInv
<1>1. Init => SetupInv
  BY SetupStart
<1>2. SetupInv /\ [Next]_vars => SetupInv'
  BY SoundStep, CleanInvStep DEF SetupInv
<1> QED
  BY <1>1, <1>2, PTL DEF Spec

\* The lines, the requests and the page's state have their types (device-serial.ts,
\* device-hardware.tsx).
THEOREM SetupTyping == Spec => []TypeOK
<1>1. SetupInv => TypeOK
  BY DEF SetupInv, Sound
<1> QED
  BY <1>1, SetupInvariant, PTL

\* The page never says "connected" of a session that is closed, whatever the order in which the
\* cable is pulled, the session's close ends and the task is over (device-hardware.tsx:105-199).
THEOREM ConnectedTruly == Spec => []ConnectedIsTrue
<1>1. SetupInv => ConnectedIsTrue
  BY DEF SetupInv, Sound, SessionInv, ConnectedIsTrue
<1> QED
  BY <1>1, SetupInvariant, PTL

\* An answer of the session's own is only ever taken for the answer to the request it answers,
\* however late it comes, whatever else the device answers meanwhile, to this session or an earlier
\* one, and however often it restarts; and every answer is, as long as no session is opened to a
\* device that has yet to read lines of an earlier one, no answer misses its time limit and nothing
\* crashes (device-serial.ts:96-176).
THEOREM AnswersAreMatched == Spec => []Matched
<1>1. SetupInv => Matched
  BY DEF SetupInv, Sound, TypeOK, TaskInv, Matched, CleanInv, Clean, NoneOld
<1> QED
  BY <1>1, SetupInvariant, PTL

\* A page at rest shows the settings its device has stored, and asks for a reboot whenever the
\* device does not use them yet.
THEOREM PageTellsTruth == Spec => []PageIsTrue
<1>1. ASSUME SetupInv, faults = 0, task = "none", phase = "ready", open = "open"
      PROVE  values = saved /\ (dev = "on" /\ saved # running => rebootRequired)
  <2>1. LineInv /\ TaskInv /\ Clean
    BY <1>1 DEF SetupInv, Sound, CleanInv
  <2>2. got = {} /\ \A p \in pending : p.cmd = "poll"
    BY <1>1, <2>1, OnlyPolls, AwaitsOf DEF TaskInv, Kept
  <2>3. \A m \in Heard : ~Applied(m)
    BY <2>1, <2>2, HeardOnly
  <2> QED
    BY <1>1, <2>1, <2>3 DEF Clean, AsShown, Announced, Naming
<1>2. SetupInv => PageIsTrue
  BY <1>1 DEF PageIsTrue, ShowsDevice, RebootIsAsked
<1> QED
  BY <1>2, SetupInvariant, PTL

-----------------------------------------------------------------------------
(* Side by side *)

LEMMA PartStep ==
    ASSUME [PartNext]_partVars
    PROVE  [Next]_vars /\ [Viewer!Next]_Viewer!vars /\ [Door!Next]_Door!vars
<1> USE DEF viewerVars, accessVars, Viewer!vars, Viewer!connVars, Viewer!listVars,
            Viewer!writeVars, Viewer!sendVars, Viewer!formVars,
            Door!vars, Door!storeVars, Door!formVars
<1>1. CASE SetupRuns(Next)
  BY <1>1 DEF SetupRuns
<1>2. CASE ViewerRuns(Viewer!Next)
  BY <1>2 DEF ViewerRuns
<1>3. CASE DoorRuns(Door!Next)
  BY <1>3 DEF DoorRuns
<1>4. CASE UNCHANGED partVars
  BY <1>4 DEF partVars
<1> QED
  BY <1>1, <1>2, <1>3, <1>4 DEF PartNext

\* Side by side, as they are model-checked, each page does only what it does alone: what is proved
\* of the pages holds of the behaviours the runs check.
THEOREM PagesParts == PartSpec => Spec /\ Viewer!Spec /\ Door!Spec
<1>1. PartInit => Init /\ Viewer!Init /\ Door!Init
  BY DEF PartInit, SetupRests
<1> QED
  BY <1>1, PartStep, PTL DEF PartSpec, Spec, Viewer!Spec, Door!Spec

\* Every variable of the three pages keeps its type.
THEOREM PagesTyping == PartSpec => []AllTypesOK
<1>1. TypeOK /\ ViewerInv /\ DoorInv => AllTypesOK
  BY DEF AllTypesOK, ViewerInv, DoorInv
<1> QED
  BY <1>1, PagesParts, SetupTyping, ViewerInvariance, DoorInvariance, PTL
=============================================================================
