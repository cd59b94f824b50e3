----------------------------- MODULE MqttViewer ------------------------------
(***************************************************************************)
(* The MQTT viewer page, client/src/pages/MqttPage.tsx: clients of mqtt.js *)
(* that come and go, whose listeners outlive the connection they were      *)
(* installed for, and the message that is written and published.           *)
(*                                                                         *)
(* What mqtt.js does is external: a client that is not ended reconnects by *)
(* itself and renews its subscriptions first; after end(true) its "close"  *)
(* event may come at any later time, and no other event does.              *)
(***************************************************************************)
EXTENDS Naturals, Sequences

CONSTANTS
    Topics,      \* what "Subscribe to" may hold; All, "#", is one of them
    All,
    Subtopics,   \* SUBTOPICS of the contract
    Trigger,     \* the one selected at first
    Cap,         \* messages kept
    MaxClients, MaxHeard, MaxSent
                 \* bounds: clients created, messages heard since the list was cleared, and
                 \* messages published whose callback or timer is still to come

ViewerAssumption ==
    /\ All \in Topics /\ Trigger \in Subtopics /\ Cap \in Nat \ {0}
    /\ {MaxClients, MaxHeard, MaxSent} \subseteq Nat

VARIABLES
    status, current,  \* status, and clientRef: 0 for none
    conn,             \* the connection of each client
    first,            \* subscribeTopic as the "connect" listener of each client captured it
    subs,             \* what each client subscribes to, again after a reconnect
    field,            \* subscribeTopic
    asked,            \* history: the topic the user connected or subscribed with last
    shown, heard,     \* messages; history: how many came since the list was cleared
    contract, subtopic,  \* "Use contract builder" and the subtopic selected
    payload,          \* what the payload was written for: a subtopic, or "custom"
    result,           \* publishStatus, "blank" if empty
    sent, timers      \* callbacks of publish() that are to come, and timers that will clear it

connVars == <<status, current, conn, first, subs, asked>>
listVars == <<shown, heard>>
writeVars == <<contract, subtopic, payload>>
sendVars == <<result, sent, timers>>
formVars == <<writeVars, sendVars>>
vars == <<connVars, field, listVars, formVars>>

Clients == 1..MaxClients
Live == {"opening", "up", "waiting"}

TypeOK ==
    /\ status \in {"idle", "connecting", "connected", "error"} /\ current \in {0} \cup Clients
    /\ conn \in [Clients -> Live \cup {"unused", "ended", "gone"}]
    /\ first \in [Clients -> Topics] /\ subs \in [Clients -> SUBSET Topics]
    /\ {field, asked} \subseteq Topics
    /\ heard \in 0..MaxHeard /\ shown \in Seq(1..MaxHeard) /\ Len(shown) <= Cap
    /\ contract \in BOOLEAN /\ subtopic \in Subtopics /\ payload \in Subtopics \cup {"custom"}
    /\ result \in {"blank", "unconnected", "sending", "error", "published"}
    /\ {sent, timers} \subseteq 0..MaxSent

Init ==
    /\ status = "idle" /\ current = 0
    /\ conn = [c \in Clients |-> "unused"]
    /\ first = [c \in Clients |-> All] /\ subs = [c \in Clients |-> {}]
    /\ field = All /\ asked = All
    /\ shown = <<>> /\ heard = 0
    /\ contract = TRUE /\ subtopic = Trigger /\ payload = Trigger
    /\ result = "blank" /\ sent = 0 /\ timers = 0

-----------------------------------------------------------------------------
(* Buttons *)

Cleared == shown' = <<>> /\ heard' = 0

\* clientRef.current?.end(true); a client that waits to reconnect has nothing to close.
Ended ==
    [c \in Clients |-> IF c # current THEN conn[c]
                       ELSE IF conn[c] \in {"opening", "up"} THEN "ended" ELSE "gone"]

\* The button is there unless the page is connected.
HandleConnect ==
    /\ status # "connected"
    /\ \E c \in Clients :
          /\ conn[c] = "unused" /\ \A d \in 1..(c - 1) : conn[d] # "unused"
          /\ conn' = [Ended EXCEPT ![c] = "opening"]
          /\ current' = c
          /\ first' = [first EXCEPT ![c] = field]
    /\ status' = "connecting" /\ asked' = field
    /\ Cleared
    /\ UNCHANGED <<subs, field, formVars>>

HandleDisconnect ==
    /\ status = "connected"
    /\ conn' = Ended /\ current' = 0 /\ status' = "idle"
    /\ UNCHANGED <<first, subs, asked, field, listVars, formVars>>

\* Whatever the old topic was, "#" is dropped.
Resubscribed(old) == (old \ {All}) \cup {field}

HandleResubscribe ==
    /\ status = "connected"
    /\ subs' = [subs EXCEPT ![current] = Resubscribed(subs[current])]
    /\ asked' = field
    /\ Cleared
    /\ UNCHANGED <<status, current, conn, first, field, formVars>>

EditTopic ==
    /\ field' \in Topics
    /\ UNCHANGED <<connVars, listVars, formVars>>

\* The page is left, its client ended; whoever comes back finds a new one.
Leave ==
    /\ conn' = [c \in Clients |-> IF conn[c] = "unused" THEN "unused" ELSE "gone"]
    /\ status' = "idle" /\ current' = 0
    /\ field' = All /\ asked' = All
    /\ Cleared
    /\ contract' = TRUE /\ subtopic' = Trigger /\ payload' = Trigger
    /\ result' = "blank" /\ sent' = 0 /\ timers' = 0
    /\ UNCHANGED <<first, subs>>

-----------------------------------------------------------------------------
(* Listeners, of any client *)

OnConnect(c) ==
    /\ conn[c] = "opening" /\ conn' = [conn EXCEPT ![c] = "up"]
    /\ status' = "connected"
    /\ subs' = [subs EXCEPT ![c] = @ \cup {first[c]}]
    /\ UNCHANGED <<current, first, asked, field, listVars, formVars>>

\* The broker cannot be reached and the client will try again, or the broker refuses it.
OnError(c) ==
    /\ \/ conn[c] \in {"opening", "up"} /\ conn' = [conn EXCEPT ![c] = "waiting"]
       \/ conn[c] = "opening" /\ conn' = [conn EXCEPT ![c] = "gone"]
    /\ status' = "error"
    /\ UNCHANGED <<current, first, subs, asked, field, listVars, formVars>>

\* Seeded fault: only an error shows that the connection is gone.
StatusKept == status

StatusClosed == IF status = "connected" THEN "idle" ELSE status

OnClose(c) ==
    /\ \/ conn[c] \in {"opening", "up"} /\ conn' = [conn EXCEPT ![c] = "waiting"]
       \/ conn[c] = "ended" /\ conn' = [conn EXCEPT ![c] = "gone"]
    /\ status' = StatusClosed
    /\ UNCHANGED <<current, first, subs, asked, field, listVars, formVars>>

Reconnects(c) ==
    /\ conn[c] = "waiting" /\ conn' = [conn EXCEPT ![c] = "opening"]
    /\ UNCHANGED <<status, current, first, subs, asked, field, listVars, formVars>>

Newest(s) == IF Len(s) > Cap THEN SubSeq(s, 1, Cap) ELSE s

OnMessage(c) ==
    /\ conn[c] = "up" /\ heard < MaxHeard
    /\ heard' = heard + 1
    /\ shown' = Newest(<<heard'>> \o shown)
    /\ UNCHANGED <<connVars, field, formVars>>

-----------------------------------------------------------------------------
(* Publishing *)

\* The effect of [selectedSubtopic, useContract]
Preset(on) == IF on THEN subtopic' ELSE payload

SelectSubtopic ==
    /\ contract
    /\ subtopic' \in Subtopics \ {subtopic} /\ payload' = Preset(contract)
    /\ UNCHANGED <<connVars, field, listVars, contract, sendVars>>

ToggleContract ==
    /\ contract' = ~contract /\ subtopic' = subtopic /\ payload' = Preset(contract')
    /\ UNCHANGED <<connVars, field, listVars, sendVars>>

EditPayload ==
    /\ payload' = IF contract THEN subtopic ELSE "custom"
    /\ UNCHANGED <<connVars, field, listVars, contract, subtopic, sendVars>>

HandlePublish ==
    /\ \/ status # "connected" /\ result' = "unconnected" /\ sent' = sent
       \/ status = "connected" /\ sent + timers < MaxSent
          /\ result' = "sending" /\ sent' = sent + 1
    /\ UNCHANGED <<connVars, field, listVars, writeVars, timers>>

\* The callback of publish(), whatever the page shows by now
PublishEnds ==
    /\ sent > 0 /\ sent' = sent - 1
    /\ \/ result' = "error" /\ timers' = timers
       \/ result' = "published" /\ timers' = timers + 1
    /\ UNCHANGED <<connVars, field, listVars, writeVars>>

\* Three seconds after some success
TimerClears ==
    /\ timers > 0 /\ timers' = timers - 1 /\ result' = "blank"
    /\ UNCHANGED <<connVars, field, listVars, writeVars, sent>>

Next ==
    \/ HandleConnect \/ HandleDisconnect \/ HandleResubscribe \/ EditTopic \/ Leave
    \/ \E c \in Clients : OnConnect(c) \/ OnError(c) \/ OnClose(c) \/ Reconnects(c) \/ OnMessage(c)
    \/ SelectSubtopic \/ ToggleContract \/ EditPayload
    \/ HandlePublish \/ PublishEnds \/ TimerClears

Spec == Init /\ [][Next]_vars

-----------------------------------------------------------------------------
(* Properties *)

\* "Connected" is never the word of a client that is gone or waits to reconnect, whichever
\* listeners of earlier clients still fire (MqttPage.tsx:92-104).
ConnectedIsTrue == status = "connected" => current # 0 /\ conn[current] = "up"

\* No client but the page's own goes on reconnecting behind it (MqttPage.tsx:70-75, 81, 120).
NoClientLeft == \A c \in Clients : conn[c] \in Live => c = current

\* The topic the user asked for last is subscribed as long as the page is connected, through
\* reconnects that run the first listener again (MqttPage.tsx:94, 130-131).
HearsWhatWasAsked == status = "connected" => asked \in subs[current]

\* The list holds the newest messages since it was cleared, newest first (MqttPage.tsx:107-115).
ShowsNewest ==
    shown = [i \in 1..(IF heard < Cap THEN heard ELSE Cap) |-> heard + 1 - i]

\* What is published to a subtopic was written for it: neither the payload of another subtopic
\* nor one written for a custom topic goes out under it (MqttPage.tsx:64-68, 142).
PayloadFits == contract => payload = subtopic

\* What the viewer says, hears and publishes (MqttPage.tsx:64-156).
ViewerIsTrue ==
    ConnectedIsTrue /\ NoClientLeft /\ HearsWhatWasAsked /\ ShowsNewest /\ PayloadFits
=============================================================================
