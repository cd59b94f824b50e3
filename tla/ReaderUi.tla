------------------------------ MODULE ReaderUi -------------------------------
(***************************************************************************)
(* The reader's two threads around light, buzzer, output pin and           *)
(* machine_active: firmware/src/prismo_main.py, reader_ui.py, reader.py,   *)
(* buzzer.py and the PN532 calls they make.                                *)
(*                                                                         *)
(* A method of ReaderUI is the sequence of its statements; a thread holds  *)
(* the statements it has left to run, so that the other thread acts        *)
(* between any two of them unless the lock forbids it.  Statements that    *)
(* sleep take the time Duration gives, in units of 500 ms; the others take *)
(* none, and time passes only when no thread can run.                      *)
(***************************************************************************)
EXTENDS Naturals, Sequences

CONSTANTS
    Cards,       \* cards that may be held to the reader
    NoCard,
    Modes,       \* values of config.DEVICE_MODE
    Success, Error, Sound, Poll, Pause,  \* how long the sleeps take
    Attempt,     \* one attempt of reader.init that fails, its two-second wake-up included
    Attempts,    \* the most attempts reader.init makes
    Gap,         \* HELD_CARD_GAP_MS
    Watchdog     \* the timeout of WDT

\* Two polls fit into the gap (prismo_main.py:24-26, reader.py:61).
ASSUME UiAssumption ==
    /\ NoCard \notin Cards
    /\ Modes \subseteq {"door", "machine"}
    /\ {Success, Error, Sound, Poll, Pause, Attempt, Attempts, Gap, Watchdog} \subseteq Nat
    /\ 2 * Poll < Gap

VARIABLES
    mode,      \* config.DEVICE_MODE, read once at boot
    todo,      \* statements each thread has left to run
    spent,     \* time each thread has slept in the first of them
    lock,      \* holder of ui_lock, or "free"
    pin,       \* success_pin
    active,    \* ui.machine_active
    released,  \* history: a success signal has ended since the machine was switched on
    light,
    connected, \* state.is_connected
    heldUid, age, \* _held_uid, and the ticks since _held_seen_ms, Gap at most
    card,      \* the card on the reader
    missed,    \* the last poll missed it
    scanned,   \* scans taken since it was put there
    starved,   \* time since wdt.feed() or boot
    fed        \* history: the main loop has come to wdt.feed() since boot

uiVars == <<lock, pin, active, light, released>>
cardVars == <<card, missed, scanned>>
heldVars == <<heldUid, age>>
wdtVars == <<starved, fed>>
vars == <<mode, todo, spent, uiVars, connected, heldVars, cardVars, wdtVars>>

Threads == {"reader", "worker"}

\* Statements that take time: how long at most.
Duration == [opened |-> Success, denied |-> Error, sound |-> Sound, poll |-> Poll,
             pause |-> Pause, init |-> Attempt]

Statements == DOMAIN Duration \cup
    {"acquire", "release", "decide", "latch", "unlatch", "pinOn", "pinOff", "green", "red",
     "ready", "mark", "feed", "nap"}

TypeOK ==
    /\ mode \in Modes /\ todo \in [Threads -> Seq(Statements)]
    /\ spent \in [Threads -> Nat]
    /\ lock \in Threads \cup {"free"}
    /\ pin \in BOOLEAN /\ active \in BOOLEAN /\ released \in BOOLEAN
    /\ connected \in BOOLEAN /\ fed \in BOOLEAN
    /\ light \in {"green", "red", "online", "offline"}
    /\ heldUid \in Cards \cup {NoCard} /\ age \in 0..Gap
    /\ card \in Cards \cup {NoCard} /\ missed \in BOOLEAN
    /\ scanned \in Nat /\ starved \in 0..Watchdog

-----------------------------------------------------------------------------
(* The methods of ReaderUI *)

SuccessSignal == <<"green", "pinOn", "sound", "opened", "pinOff", "ready">>

ErrorSignal == <<"red", "sound", "denied", "ready">>

MachineOn == <<"latch", "pinOn", "green", "sound">>

MachineOff == <<"unlatch", "pinOff", "sound", "ready">>

\* The actions of cmd_trigger, whatever the device's mode.
Actions == {"success", "error", "on", "off"}

Signal == [success |-> SuccessSignal, error |-> ErrorSignal, on |-> MachineOn, off |-> MachineOff]

\* Seeded fault: the worker takes the lock only for half of its commands.
OnTriggerUnlocked(a) == Signal[a] \o <<"nap">>

\* on_trigger, then the worker's sleep between two iterations of its loop.
OnTrigger(a) == <<"acquire">> \o Signal[a] \o <<"release", "nap">>

\* Seeded fault: the card is not marked again after the signal.
OnKeyReadUnmarked == <<"acquire", "decide", "release", "pause", "feed", "poll">>

\* on_key_read once a card counts as a new scan, then the rest of the main loop.
OnKeyRead == <<"acquire", "decide", "release", "pause", "mark", "feed", "poll">>

\* The signal of a scan, chosen under the lock.
ScanSignal(allowed) ==
    CASE mode = "machine" /\ active             -> MachineOff
      [] mode = "door" /\ allowed               -> SuccessSignal
      [] mode = "machine" /\ ~active /\ allowed -> MachineOn
      [] OTHER                                  -> ErrorSignal

IdleLight == IF connected THEN "online" ELSE "offline"

\* reader.init: attempt after attempt, unless one succeeds.
ReaderInit == [i \in 1..Attempts |-> "init"]

\* Boot: the pin is released, the machine off, the watchdog armed, the worker started.
Booted ==
    /\ todo' = [reader |-> ReaderInit, worker |-> <<>>]
    /\ spent' = [t \in Threads |-> 0]
    /\ lock' = "free" /\ pin' = FALSE /\ active' = FALSE /\ released' = FALSE
    /\ connected' \in BOOLEAN /\ light' = IF connected' THEN "online" ELSE "offline"
    /\ heldUid' = NoCard /\ age' = 0
    /\ starved' = 0 /\ fed' = FALSE
    /\ scanned' = 0

Init ==
    /\ mode \in Modes
    /\ todo = [reader |-> ReaderInit, worker |-> <<>>]
    /\ spent = [t \in Threads |-> 0]
    /\ lock = "free" /\ pin = FALSE /\ active = FALSE /\ released = FALSE
    /\ connected \in BOOLEAN /\ light = IdleLight
    /\ heldUid = NoCard /\ age = 0
    /\ card = NoCard /\ missed = FALSE /\ scanned = 0
    /\ starved = 0 /\ fed = FALSE

-----------------------------------------------------------------------------
(* Running a statement *)

Doing(t, s) == todo[t] # <<>> /\ Head(todo[t]) = s

Goes(t, rest) ==
    /\ todo' = [todo EXCEPT ![t] = rest]
    /\ spent' = [spent EXCEPT ![t] = 0]

Acquire(t) ==
    /\ Doing(t, "acquire") /\ lock = "free"
    /\ lock' = t
    /\ Goes(t, Tail(todo[t]))
    /\ UNCHANGED <<pin, active, light, released, connected, heldVars, cardVars, wdtVars>>

Release(t) ==
    /\ Doing(t, "release")
    /\ lock' = "free"
    /\ Goes(t, Tail(todo[t]))
    /\ UNCHANGED <<pin, active, light, released, connected, heldVars, cardVars, wdtVars>>

\* Whether the card is allowed was looked up before; which signal follows is decided now.
Decide ==
    /\ Doing("reader", "decide")
    /\ \E allowed \in BOOLEAN : Goes("reader", ScanSignal(allowed) \o Tail(todo["reader"]))
    /\ UNCHANGED <<uiVars, connected, heldVars, cardVars, wdtVars>>

Outputs == {"latch", "unlatch", "pinOn", "pinOff", "green", "red", "ready"}

Output(t) ==
    /\ \E s \in Outputs :
          /\ Doing(t, s)
          /\ active' = (s = "latch" \/ (active /\ s # "unlatch"))
          /\ pin' = (s = "pinOn" \/ (pin /\ s # "pinOff"))
          /\ released' = ((s = "pinOff" /\ active) \/ (released /\ s \notin {"latch", "unlatch"}))
          /\ light' = CASE s \in {"green", "red"} -> s
                        [] s = "ready"           -> IdleLight
                        [] OTHER                 -> light
    /\ Goes(t, Tail(todo[t]))
    /\ UNCHANGED <<lock, connected, heldVars, cardVars, wdtVars>>

\* The end of a sleep.
Wakes(t) ==
    /\ \E s \in DOMAIN Duration \ {"poll"} : Doing(t, s) /\ spent[t] = Duration[s]
    /\ Goes(t, Tail(todo[t]))
    /\ UNCHANGED <<uiVars, connected, heldVars, cardVars, wdtVars>>

\* Seeded fault: the worker feeds the watchdog, too.
NapFeeding ==
    /\ Doing("worker", "nap")
    /\ ~(Doing("reader", "acquire") /\ lock = "free")
    /\ starved' = 0 /\ UNCHANGED fed
    /\ Goes("worker", <<>>)
    /\ UNCHANGED <<uiVars, connected, heldVars, cardVars>>

\* Seeded fault: the worker goes on to the next command without a sleep.
NapSkipped ==
    /\ Doing("worker", "nap")
    /\ Goes("worker", <<>>)
    /\ UNCHANGED <<uiVars, connected, heldVars, cardVars, wdtVars>>

\* The worker's sleep is long enough for a reader that waits for the lock to take it.
Nap ==
    /\ Doing("worker", "nap")
    /\ ~(Doing("reader", "acquire") /\ lock = "free")
    /\ Goes("worker", <<>>)
    /\ UNCHANGED <<uiVars, connected, heldVars, cardVars, wdtVars>>

Mark(uid) == heldUid' = uid /\ age' = 0

MarkAgain ==
    /\ Doing("reader", "mark")
    /\ Mark(heldUid)
    /\ Goes("reader", Tail(todo["reader"]))
    /\ UNCHANGED <<uiVars, connected, cardVars, wdtVars>>

\* The ticks wrap: after six days without a card the difference is negative for another six.
\* The model ends before.
IsCardHeld(uid) == uid = heldUid /\ age < Gap

\* No card was found in time, or the one on the reader was missed, once at most.
ReadsNothing ==
    /\ Doing("reader", "poll") /\ spent["reader"] = Poll
    /\ card # NoCard => ~missed
    /\ missed' = (card # NoCard)
    /\ Goes("reader", <<"feed", "poll">>)
    /\ UNCHANGED <<uiVars, connected, heldVars, card, scanned, wdtVars>>

\* read_uid returns the card, at the earliest some time into the poll, so that a card
\* that stays there is not read without end at one moment.
ReadsCard ==
    /\ Doing("reader", "poll") /\ spent["reader"] > 0 /\ card # NoCard
    /\ missed' = FALSE
    /\ IF mode = "machine" THEN Mark(card) ELSE UNCHANGED heldVars
    /\ UNCHANGED <<uiVars, connected, card, wdtVars>>

\* on_key_read returns at once when the card is held; only in machine mode it asks.
Held == mode = "machine" /\ IsCardHeld(card)

ReadsHeldCard ==
    /\ Held /\ ReadsCard
    /\ UNCHANGED scanned
    /\ Goes("reader", <<"feed", "poll">>)

\* A card that stays counts its scans up to two.
ReadsNewCard ==
    /\ ~Held /\ ReadsCard
    /\ scanned' = IF scanned < 2 THEN scanned + 1 ELSE scanned
    /\ Goes("reader", OnKeyRead)

Feed ==
    /\ Doing("reader", "feed")
    /\ starved' = 0 /\ fed' = TRUE
    /\ Goes("reader", Tail(todo["reader"]))
    /\ UNCHANGED <<uiVars, connected, heldVars, cardVars>>

\* An attempt succeeds; one that fails is followed by the next (Wakes), and after the last
\* one init returns None and the script ends.
ReaderComesUp ==
    /\ Doing("reader", "init")
    /\ Goes("reader", <<"poll">>)
    /\ UNCHANGED <<uiVars, connected, heldVars, cardVars, wdtVars>>

\* The SPI bus fails and init returns None at once, or the driver raises at a poll (a bad frame,
\* two cards, no ACK) and nothing catches it: the script ends.
ReaderDies ==
    /\ Doing("reader", "poll") \/ (todo["reader"] = ReaderInit /\ spent["reader"] = 0)
    /\ Goes("reader", <<>>)
    /\ UNCHANGED <<uiVars, connected, heldVars, cardVars, wdtVars>>

Command(a) ==
    /\ todo["worker"] = <<>>
    /\ Goes("worker", OnTrigger(a))
    /\ UNCHANGED <<uiVars, connected, heldVars, cardVars, wdtVars>>

\* set_connected, on the worker thread; the light is not touched.
LinkChanges ==
    /\ todo["worker"] = <<>>
    /\ connected' = ~connected
    /\ UNCHANGED <<todo, spent, uiVars, heldVars, cardVars, wdtVars>>

-----------------------------------------------------------------------------
(* Cards, time and power *)

PlaceCard ==
    /\ card = NoCard
    /\ card' \in Cards
    /\ scanned' = 0 /\ missed' = FALSE
    /\ UNCHANGED <<todo, spent, uiVars, connected, heldVars, wdtVars>>

RemoveCard ==
    /\ card # NoCard
    /\ card' = NoCard /\ scanned' = 0 /\ missed' = FALSE
    /\ UNCHANGED <<todo, spent, uiVars, connected, heldVars, wdtVars>>

\* Seeded fault: the watchdog is never armed.
NotArmed == TRUE

Armed == starved < Watchdog

\* A thread sleeps, waits for the lock, or has nothing to do.
Waits(t) ==
    \/ todo[t] = <<>>
    \/ Doing(t, "acquire") /\ lock # "free"
    \/ \E s \in DOMAIN Duration : Doing(t, s) /\ spent[t] < Duration[s]

Tick ==
    /\ \A t \in Threads : Waits(t)
    /\ Armed
    /\ starved' = starved + 1 /\ UNCHANGED fed
    /\ spent' = [t \in Threads |->
                   IF todo[t] # <<>> /\ Head(todo[t]) \in DOMAIN Duration
                   THEN spent[t] + 1 ELSE 0]
    /\ age' = IF age < Gap THEN age + 1 ELSE age
    /\ UNCHANGED <<todo, uiVars, connected, heldUid, cardVars>>

WatchdogBites == starved = Watchdog /\ Booted /\ UNCHANGED <<card, missed>>

PowerCut == Booted /\ UNCHANGED <<card, missed>>

ThreadStep(t) == Acquire(t) \/ Release(t) \/ Output(t) \/ Wakes(t)

ReaderStep ==
    \/ ThreadStep("reader") \/ Decide \/ MarkAgain
    \/ ReadsNothing \/ ReadsHeldCard \/ ReadsNewCard \/ Feed

WorkerStep == ThreadStep("worker") \/ Nap

\* No step changes the mode.
InMode(step) == step /\ UNCHANGED mode

Next == InMode(
    \/ ReaderStep \/ WorkerStep
    \/ ReaderComesUp \/ ReaderDies \/ LinkChanges
    \/ \E a \in Actions : Command(a)
    \/ PlaceCard \/ RemoveCard
    \/ Tick \/ WatchdogBites \/ PowerCut)

Spec == Init /\ [][Next]_vars

\* Both threads are scheduled; time passes; the watchdog and a sound reader are hardware.
Fairness ==
    /\ SF_vars(InMode(ReaderComesUp))
    /\ WF_vars(InMode(ReaderStep)) /\ WF_vars(InMode(WorkerStep))
    /\ WF_vars(InMode(Tick)) /\ WF_vars(InMode(WatchdogBites))

FairSpec == Spec /\ Fairness

-----------------------------------------------------------------------------
(* Properties *)

\* Whenever nobody is at the output, the pin is on exactly while the machine is switched on and no
\* success signal has ended since: whichever of scans, commands and resets came in between, a door
\* that was not switched on is closed.
OutputFollows == lock = "free" => (pin <=> active /\ ~released)

\* A signal runs its time undisturbed by the other thread: the output is on and the light
\* green while a door is open, the light red and the output as it was while a card is denied.
SignalUndisturbed ==
    \A t \in Threads :
        /\ Doing(t, "opened") => pin /\ light = "green"
        /\ Doing(t, "denied") => light = "red" /\ (pin <=> active /\ ~released)

\* Nothing but the signal or the machine it belongs to is at the output (reader_ui.py:28-55,
\* prismo_main.py:51-87).
OutputIsRight == OutputFollows /\ SignalUndisturbed

\* prismo_main.py:24: a card left on the reader is one scan, one missed poll
\* notwithstanding, however long signals and waiting for the lock take.
OneScanPerVisit == mode = "machine" => scanned <= 1

\* prismo_main.py:124-128: once the main loop has come round, only one that has ended starves the
\* watchdog, though a scan may have to wait out a trigger's signal before its own.
FedInTime == starved = Watchdog => todo["reader"] = <<>> \/ ~fed

\* A reader that died, or failed to come up, is tried again until it polls.
ReaderReturns == []<>Doing("reader", "poll")
=============================================================================
