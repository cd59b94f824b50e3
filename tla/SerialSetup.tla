----------------------------- MODULE SerialSetup -----------------------------
(***************************************************************************)
(* Setting a device up over USB: the page client/src/pages/devices/        *)
(* device-hardware.tsx, its serial session client/src/client/              *)
(* device-serial.ts, and firmware/src/serial_cfg.py at the other end.      *)
(*                                                                         *)
(* The page runs one task at a time: it asks, waits for the answers, each  *)
(* with a time limit, and goes on or ends with an error.  Meanwhile the    *)
(* device may restart or be unplugged, which closes the session under the  *)
(* task.  What the device has not read when a session ends it reads later, *)
(* and answers into the next one.  The settings of a device are one value; *)
(* SettingsStore has what set_many() does with them.                       *)
(***************************************************************************)
EXTENDS Naturals, Sequences, SequencesExt

CONSTANTS
    Values,     \* contents of the settings
    Refused,    \* those of them the device does not accept
    TooLong,    \* those whose request is longer than MAX_LINE
    Tries,      \* requests and port openings that fit in the page's deadlines
    MaxId,      \* requests of a session, but for those a task goes on with (a bound of the model)
    MaxFaults,  \* crashes, and answers that come after the page's time limit or into a later
                \* session (a bound of the model)
    Plugs,      \* times the device is plugged in again (a bound of the model)
    Nothing     \* no settings shown yet

ASSUME SerialAssumption ==
    /\ Refused \cup TooLong \subseteq Values /\ Values \ Refused # {} /\ Nothing \notin Values
    /\ {Tries, MaxId, MaxFaults, Plugs} \subseteq Nat

VARIABLES
    dev,            \* the device: gone (unplugged), booting, on, resetting (reboot was asked), hung
    saved, running, \* its settings: saved, and those it booted with
    plugs,
    faults,         \* crashes, and answers that came too late
    toDev, toPage,  \* lines under way
    oldToDev, oldToPage, \* those of sessions that are over, ahead of them
    open,           \* DeviceSerial: closed, open, or in close()
    nextId, pending,\* its requests: records of id and command
    ref,            \* serialRef holds the session
    phase, task,    \* what the page is doing; task: "none" or the promise run() waits for
    got,            \* answers the task has: records of the command asked, the answer's, its data
    left,           \* of Tries
    values,         \* the settings shown as stored
    rebootRequired,
    port            \* the page has a port

device == <<dev, saved, running, plugs, faults>>
page   == <<ref, phase, task, got, left, values, rebootRequired, port>>
old    == <<oldToDev, oldToPage>>
wire   == <<toDev, toPage, old, open, nextId, pending>>
vars   == <<device, page, wire>>

Commands == {"info", "schema", "get", "status", "set", "reboot", "poll"}
Awaits == [info |-> {"info"}, reinfo |-> {"info"}, load |-> {"schema", "get", "status"},
           refresh |-> {"get", "status"}, set |-> {"set"}, reread |-> {"get"},
           reboot |-> {"reboot"}, none |-> {}, fill |-> {}, detach |-> {}, reopen |-> {}]

\* Lines: a request, and an answer, to "set" by what it did.
Request == [id : Nat, cmd : Commands, val : Values \cup {Nothing}]
Data == Values \cup {Nothing, "kept", "changed"}
Response == [id : Nat, cmd : Commands, ok : BOOLEAN, data : Data]

\* What the task takes for an answer; late: it is one to a request of an earlier session.
Taken == [asked : Commands, cmd : Commands, ok : BOOLEAN, data : Data, late : BOOLEAN]

TypeOK ==
    /\ dev \in {"gone", "booting", "on", "resetting", "hung"}
    /\ plugs \in 0..Plugs /\ faults \in 0..MaxFaults
    /\ saved \in Values \ Refused /\ running \in Values \ Refused
    /\ {toDev, oldToDev} \subseteq Seq(Request) /\ {toPage, oldToPage} \subseteq Seq(Response)
    /\ open \in {"closed", "open", "closing"} /\ nextId \in Nat
    /\ pending \in SUBSET [id : Nat, cmd : Commands] /\ \A p \in pending : p.id < nextId
    /\ phase \in {"idle", "connecting", "ready", "busy"} /\ task \in DOMAIN Awaits
    /\ {ref, rebootRequired, port} \subseteq BOOLEAN /\ left \in 0..Tries
    /\ values \in Values \cup {Nothing, "other"} /\ got \in SUBSET Taken

Init ==
    /\ dev \in {"gone", "booting", "on"} /\ plugs = 0 /\ faults = 0
    /\ saved \in Values \ Refused /\ running = saved
    /\ toDev = <<>> /\ toPage = <<>> /\ oldToDev = <<>> /\ oldToPage = <<>>
    /\ open = "closed" /\ nextId = 1 /\ pending = {}
    /\ ref = FALSE /\ phase = "idle" /\ task = "none" /\ got = {} /\ left = 0
    /\ values = Nothing /\ rebootRequired = FALSE /\ port = FALSE

-----------------------------------------------------------------------------
(* serial_cfg.py *)

Reply(m, ok, data) == [id |-> m.id, cmd |-> m.cmd, ok |-> ok, data |-> data]

\* A line that was too long is answered without an id.
Answer(m) ==
    IF m.cmd = "set" /\ m.val \in TooLong THEN Reply([m EXCEPT !.id = 0], FALSE, Nothing)
    ELSE IF m.cmd = "set" /\ m.val \in Refused THEN Reply(m, FALSE, Nothing)
    ELSE Reply(m, TRUE, CASE m.cmd = "get" -> saved
                          [] m.cmd = "set" -> IF m.val = saved THEN "kept" ELSE "changed"
                          [] OTHER -> Nothing)

\* Seeded fault: the settings are not validated.
AcceptsAll(v) == TRUE

Accepts(v) == v \notin Refused \cup TooLong

\* _dispatch()
Dispatch(m) ==
    /\ dev = "on"
    /\ saved' = IF m.cmd = "set" /\ Accepts(m.val) THEN m.val ELSE saved
    /\ dev' = IF m.cmd = "reboot" THEN "resetting" ELSE dev

DeviceReads ==
    /\ toDev # <<>> /\ oldToDev = <<>> /\ Dispatch(Head(toDev))
    /\ toPage' = Append(toPage, Answer(Head(toDev)))
    /\ toDev' = Tail(toDev)
    /\ UNCHANGED <<running, plugs, faults, old, open, nextId, pending, page>>

\* Its input survives the end of a session; what it answers while nobody listens is lost.
DeviceReadsOld ==
    /\ oldToDev # <<>> /\ Dispatch(Head(oldToDev))
    /\ oldToPage' = IF open = "open" THEN Append(oldToPage, Answer(Head(oldToDev))) ELSE oldToPage
    /\ oldToDev' = Tail(oldToDev)
    /\ UNCHANGED <<running, plugs, faults, toDev, toPage, open, nextId, pending, page>>

-----------------------------------------------------------------------------
(* The session *)

Has(cmd) == \E g \in got : g.asked = cmd
AnswerTo(cmd) == (CHOOSE g \in got : g.asked = cmd).data
InInfo == task \in {"info", "reinfo"}
\* An answer without the protocol's version is none to "info".
AllOk == \A g \in got : g.ok /\ (InInfo => g.cmd = "info")
Answered == (\A cmd \in Awaits[task] : Has(cmd)) /\ AllOk
\* Something awaited was rejected: Promise.all rejects at once.
Broken == Awaits[task] # {} /\
          (~AllOk \/ \E cmd \in Awaits[task] : ~Has(cmd) /\ ~\E p \in pending : p.cmd = cmd)

\* The task goes on before any other event of the page.
Ready == Awaits[task] # {} /\ (Answered \/ Broken)

\* Everything pending is rejected, nothing is heard any more; the rest of close() takes a while.
Ended == open' = "closing" /\ pending' = {} /\ toDev' = <<>> /\ toPage' = <<>> /\ oldToPage' = <<>>

\* close() of a session whose device is there: what was written is flushed.  A device that hangs
\* reads none of it, now or later.
Closes == Ended /\ oldToDev' = IF dev = "hung" THEN <<>> ELSE oldToDev \o toDev

\* A session and its first request; identifiers start at 1 again.  Lines the device has left of an
\* earlier one make it a late device, that is, a fault.
Opens ==
    /\ open' = "open" /\ nextId' = 2 /\ pending' = {[id |-> 1, cmd |-> "info"]}
    /\ toDev' = <<[id |-> 1, cmd |-> "info", val |-> Nothing]>> /\ toPage' = <<>>
    /\ faults' = IF oldToDev # <<>> /\ faults = 0 THEN 1 ELSE faults
    /\ faults' <= MaxFaults
    /\ UNCHANGED old

\* Seeded fault: the identifier is not counted up.
SameId(i) == nextId

IdOf(i) == nextId + i - 1

\* request(), for a sequence of commands at once
Ask(cmds, val) ==
    /\ pending' = pending \cup {[id |-> IdOf(i), cmd |-> cmds[i]] : i \in DOMAIN cmds}
    /\ toDev' = toDev \o [i \in DOMAIN cmds |-> [id |-> IdOf(i), cmd |-> cmds[i], val |-> val]]
    /\ nextId' = nextId + Len(cmds)
    /\ UNCHANGED <<toPage, old, open>>

\* onLine(): an answer nobody waits for any more is dropped.
Hears(m, late) ==
    /\ open = "open" /\ ~Ready
    /\ pending' = {p \in pending : p.id # m.id}
    /\ got' = got \cup
           {[asked |-> p.cmd, cmd |-> m.cmd, ok |-> m.ok, data |-> m.data, late |-> late] :
               p \in {q \in pending : q.id = m.id /\ q.cmd \in Awaits[task]}}
    /\ UNCHANGED <<device, toDev, oldToDev, open, nextId,
                   ref, phase, task, left, values, rebootRequired, port>>

PageReads ==
    /\ toPage # <<>> /\ oldToPage = <<>> /\ Hears(Head(toPage), FALSE)
    /\ toPage' = Tail(toPage) /\ UNCHANGED oldToPage

PageReadsOld ==
    /\ oldToPage # <<>> /\ Hears(Head(oldToPage), TRUE)
    /\ oldToPage' = Tail(oldToPage) /\ UNCHANGED toPage

UnderWay(p) == \E m \in ToSet(toDev) \cup ToSet(toPage) : m.id = p.id

\* Seeded fault: a request has no time limit.
NeverTimesOut == {}

CanTimeOut == pending

TimesOut == \E p \in CanTimeOut :
    /\ ~Ready
    /\ pending' = pending \ {p}
    /\ IF dev # "hung" /\ UnderWay(p) THEN faults < MaxFaults /\ faults' = faults + 1
       ELSE faults' = faults
    /\ UNCHANGED <<dev, saved, running, plugs, page, toDev, toPage, old, open, nextId>>

\* onDisconnect, of the session the page holds
Told == ref' = FALSE /\ phase' = IF ref THEN "idle" ELSE phase

CloseEnds ==
    /\ open = "closing" /\ open' = "closed" /\ (~Ready \/ InInfo)
    /\ Told
    /\ UNCHANGED <<device, toDev, toPage, old, nextId, pending,
                   task, got, left, values, rebootRequired, port>>

-----------------------------------------------------------------------------
(* run() *)

Free == task = "none" /\ phase \in {"idle", "ready"}

\* The buttons of the settings form, disabled while the page is busy
Begins(name, cmds, val) ==
    /\ Free /\ phase = "ready" /\ open = "open" /\ nextId <= MaxId
    /\ phase' = "busy" /\ task' = name /\ got' = {}
    /\ Ask(cmds, val)
    /\ UNCHANGED <<device, ref, left, values, rebootRequired, port>>

\* Seeded fault: a task that is over leaves the page connected.
StaysReady == "ready"

PhaseAfter == IF ref' THEN "ready" ELSE "idle"

Ends == task' = "none" /\ got' = {} /\ phase' = PhaseAfter

EndsHere == Ends /\ UNCHANGED <<device, wire, ref, left, rebootRequired, port>>

\* An error is shown.  What else the task asked is nobody's any more.
TaskFails ==
    /\ task \notin {"info", "reinfo"} /\ Broken
    /\ pending' = {p \in pending : p.cmd \notin Awaits[task]}
    /\ ref' = ref /\ values' = values /\ Ends
    /\ UNCHANGED <<device, toDev, toPage, old, open, nextId, left, rebootRequired, port>>

-----------------------------------------------------------------------------
(* Connecting *)

\* The user picks a port; another program may have it open.
Connect ==
    /\ Free /\ ~port /\ dev # "gone"
    /\ port' = TRUE
    /\ \/ /\ open = "closed" /\ Opens
          /\ phase' = "connecting" /\ task' = "info" /\ got' = {} /\ left' = Tries
       \/ UNCHANGED <<faults, wire, phase, task, got, left>>
    /\ UNCHANGED <<dev, saved, running, plugs, ref, values, rebootRequired>>

\* waitReady() asks again when nothing was answered, until its deadline.
InfoAgain ==
    /\ InInfo /\ Broken /\ got = {} /\ open = "open" /\ left > 0
    /\ left' = left - 1
    /\ Ask(<<"info">>, Nothing)
    /\ UNCHANGED <<device, ref, phase, task, got, values, rebootRequired, port>>

\* Then, or when it got another answer, connectDevice() closes the session.
InfoGivesUp ==
    /\ InInfo /\ Broken /\ open = "open" /\ (left = 0 \/ task = "reinfo" \/ got # {})
    /\ Closes
    /\ UNCHANGED <<device, nextId, page>>

ConnectFails ==
    /\ task = "info" /\ Broken /\ open # "open"
    /\ ref' = ref /\ values' = values /\ EndsHere

\* load()
GotInfo ==
    /\ InInfo /\ Answered
    /\ ref' = TRUE /\ task' = "load" /\ got' = {}
    /\ Ask(<<"schema", "get", "status">>, Nothing)
    /\ UNCHANGED <<device, phase, left, values, rebootRequired, port>>

\* The settings that were read; the answer to another request shows none of them.
ReadBack == IF AnswerTo("get") \in Values THEN AnswerTo("get") ELSE "other"

\* load() and handleRefresh() end alike.
Shown ==
    /\ task \in {"load", "refresh"} /\ Answered
    /\ ref' = ref /\ values' = ReadBack /\ EndsHere

Disconnect ==
    /\ Free /\ port
    /\ phase' = IF ref THEN "busy" ELSE "connecting"
    /\ ref' = FALSE /\ task' = "detach" /\ got' = {}
    /\ IF open = "open" THEN Closes /\ nextId' = nextId ELSE UNCHANGED wire
    /\ UNCHANGED <<device, left, values, rebootRequired, port>>

Detached ==
    /\ task = "detach" /\ open = "closed"
    /\ port' = FALSE /\ ref' = ref /\ Ends
    /\ UNCHANGED <<device, wire, left, values, rebootRequired>>

-----------------------------------------------------------------------------
(* The other buttons *)

Refresh == Begins("refresh", <<"get", "status">>, Nothing)

Poll ==
    /\ Free /\ phase = "ready" /\ open = "open" /\ nextId <= MaxId
    /\ Ask(<<"poll">>, Nothing)
    /\ UNCHANGED <<device, page>>

\* The fields that differ from those shown are sent, and a secret that was typed, which the page
\* cannot compare.
Save == values # Nothing /\ \E v \in Values : Begins("set", <<"set">>, v)

WasSet ==
    /\ task = "set" /\ Answered
    /\ task' = "reread"
    /\ Ask(<<"get">>, Nothing)
    /\ UNCHANGED <<device, ref, phase, got, left, values, rebootRequired, port>>

\* Seeded fault: a save that needs no reboot hides the wish of an earlier one.
LastNeeds == AnswerTo("set") = "changed"

Needs == rebootRequired \/ AnswerTo("set") = "changed"

Saved ==
    /\ task = "reread" /\ Answered
    /\ values' = ReadBack /\ rebootRequired' = Needs
    /\ ref' = ref /\ Ends
    /\ UNCHANGED <<device, wire, left, port>>

\* The draft is filled with new broker credentials; see Credentials for what the server does.
FillFromServer ==
    /\ Free /\ phase = "ready"
    /\ phase' = "busy" /\ task' = "fill"
    /\ UNCHANGED <<device, wire, ref, got, left, values, rebootRequired, port>>

Filled == task = "fill" /\ ref' = ref /\ values' = values /\ EndsHere

Reboot == Begins("reboot", <<"reboot">>, Nothing)

\* handleReboot() drops the session and waits for the device to come back.
RebootAnswered ==
    /\ task = "reboot" /\ Answered
    /\ ref' = FALSE /\ rebootRequired' = FALSE
    /\ task' = "reopen" /\ left' = Tries
    /\ Closes
    /\ UNCHANGED <<device, nextId, phase, got, values, port>>

\* reconnectAfterReset(): every half second, the old port and any that looks like it
Reopen ==
    /\ task = "reopen" /\ open = "closed" /\ left > 0
    /\ left' = left - 1
    /\ \/ dev \in {"booting", "on"} /\ Opens /\ task' = "reinfo" /\ got' = {}
       \/ UNCHANGED <<faults, wire, task, got>>
    /\ UNCHANGED <<dev, saved, running, plugs, ref, phase, values, rebootRequired, port>>

ReopenLater ==
    /\ task = "reinfo" /\ Broken /\ open # "open"
    /\ task' = "reopen"
    /\ UNCHANGED <<device, wire, ref, phase, got, left, values, rebootRequired, port>>

ReopenFails ==
    /\ task = "reopen" /\ open = "closed" /\ left = 0
    /\ ref' = ref /\ values' = values /\ EndsHere

-----------------------------------------------------------------------------
(* The device and its cable *)

\* Two hundred milliseconds after the answer
Resets ==
    /\ dev = "resetting" /\ dev' = "booting" /\ toDev' = <<>> /\ oldToDev' = <<>>
    /\ UNCHANGED <<saved, running, plugs, faults, toPage, oldToPage, open, nextId, pending, page>>

\* It restarts, or answers nothing any more.
Crashes ==
    /\ dev = "on" /\ faults < MaxFaults /\ faults' = faults + 1
    /\ dev' \in {"booting", "hung"} /\ toDev' = <<>> /\ oldToDev' = <<>>
    /\ UNCHANGED <<saved, running, plugs, toPage, oldToPage, open, nextId, pending, page>>

\* What came before the reader thread runs may be lost.
Boots ==
    /\ dev = "booting" /\ dev' = "on" /\ running' = saved
    /\ UNCHANGED <<toDev, oldToDev>> \/ (toDev' = <<>> /\ oldToDev' = <<>>)
    /\ UNCHANGED <<saved, plugs, faults, toPage, oldToPage, open, nextId, pending, page>>

Unplug ==
    /\ dev # "gone" /\ dev' = "gone" /\ ~Ready
    /\ oldToDev' = <<>>
    /\ IF open = "open" THEN Ended ELSE UNCHANGED <<toDev, toPage, oldToPage, open, pending>>
    /\ UNCHANGED <<saved, running, plugs, faults, nextId, page>>

\* It may be another one.
PlugIn ==
    /\ dev = "gone" /\ plugs < Plugs /\ plugs' = plugs + 1
    /\ dev' = "booting" /\ saved' \in Values \ Refused
    /\ UNCHANGED <<running, faults, wire, page>>

SessionStep == PageReads \/ PageReadsOld \/ TimesOut \/ CloseEnds
TaskStep ==
    \/ TaskFails \/ InfoAgain \/ InfoGivesUp \/ ConnectFails \/ GotInfo \/ Shown \/ Detached
    \/ WasSet \/ Saved \/ Filled \/ RebootAnswered \/ Reopen \/ ReopenLater \/ ReopenFails
Click == Connect \/ Disconnect \/ Refresh \/ Save \/ FillFromServer \/ Reboot
Device == DeviceReads \/ DeviceReadsOld \/ Resets \/ Crashes \/ Boots \/ Unplug \/ PlugIn

Next == SessionStep \/ TaskStep \/ Click \/ Poll \/ Device

Spec == Init /\ [][Next]_vars

\* The browser runs its callbacks and timers, and a device that is not hung its reader thread.
Fairness ==
    /\ WF_vars(SessionStep) /\ WF_vars(TaskStep)
    /\ WF_vars(TimesOut) /\ WF_vars(CloseEnds)
    /\ WF_vars(DeviceReads \/ DeviceReadsOld) /\ WF_vars(Resets) /\ WF_vars(Boots)

FairSpec == Spec /\ Fairness

-----------------------------------------------------------------------------
(* Properties *)

\* The page never shows a device as connected whose session is closed: a cable pulled under a
\* task, and the task's own end, in either order, leave it idle.
ConnectedIsTrue == phase = "ready" => ref /\ open # "closed"

\* A session's answers are never taken for answers to its other requests, however late they come
\* and whatever was asked since; nor are those to an earlier session, if none of its lines were left
\* when this one was opened (device-serial.ts:55, 99-119).
Matched == \A g \in got : g.asked # g.cmd => g.late /\ faults > 0


\* What a page at rest shows as stored is what the device it is connected to has stored, after
\* reboots, refused saves, and another device on the same cable.
ShowsDevice == faults = 0 /\ task = "none" /\ phase = "ready" /\ open = "open" => values = saved

\* Settings the device does not use yet are announced by "Reboot to apply".
RebootIsAsked ==
    faults = 0 /\ task = "none" /\ phase = "ready" /\ open = "open" /\ dev = "on" /\ saved # running
        => rebootRequired

\* A page at rest tells the truth about its device (device-hardware.tsx:105-199).
PageIsTrue == ShowsDevice /\ RebootIsAsked

\* No task hangs: whatever becomes of the device, the buttons come back.
Settles == task # "none" ~> task = "none"
=============================================================================
