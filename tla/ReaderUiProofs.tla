--------------------------- MODULE ReaderUiProofs ----------------------------
(***************************************************************************)
(* Proofs about ReaderUi, for all sets of cards and all durations: the     *)
(* variables keep their types, the output and the light are what the       *)
(* signal under way or the machine asks for, a card left on the reader is  *)
(* one scan, and the watchdog is fed in time wherever it leaves time.      *)
(*                                                                         *)
(* The invariant lists what a thread may have left to run and, at each     *)
(* statement of a signal, what holds of output and light and how long ago  *)
(* the watchdog was fed.                                                   *)
(***************************************************************************)
EXTENDS ReaderUi, SequenceTheorems, TLAPS

-----------------------------------------------------------------------------
(* The invariant *)

\* What a thread runs after its signal.
AfterSignal == [reader |-> <<"release", "pause", "mark", "feed", "poll">>,
                worker |-> <<"release", "nap">>]

\* The time since the last feed, once there was one.
Since == IF fed THEN starved ELSE 0

\* The longest signal
Longest == Sound + (IF Error < Success THEN Success ELSE Error)

\* The watchdog leaves time to read a card, and for two signals one after the other.
TimesFit == Poll + 2 * Longest + Pause < Watchdog

\* Nobody is at the output.
Settled == pin <=> active /\ ~released

\* The watchdog's time, e after a signal began.  The worker's counts when the reader waits for it.
InTime(t, e) ==
    IF t = "reader" THEN Since <= Poll + Longest + e + spent[t]
    ELSE Doing("reader", "acquire") => Since <= Poll + e + spent[t]

\* Thread t has rest left of its signal, which took e so far.
At(t, rest, e) == todo[t] = rest \o AfterSignal[t] /\ InTime(t, e)

\* The four signals, statement by statement: what is left of one says what output and light are.
Opens(t) ==
    \/ At(t, SuccessSignal, 0) /\ Settled
    \/ At(t, <<"pinOn", "sound", "opened", "pinOff", "ready">>, 0) /\ light = "green"
    \/ At(t, <<"sound", "opened", "pinOff", "ready">>, 0) /\ pin /\ light = "green"
    \/ At(t, <<"opened", "pinOff", "ready">>, Sound) /\ pin /\ light = "green"
    \/ At(t, <<"pinOff", "ready">>, Longest)

Denies(t) ==
    \/ At(t, ErrorSignal, 0)
    \/ At(t, <<"sound", "denied", "ready">>, 0) /\ light = "red"
    \/ At(t, <<"denied", "ready">>, Sound) /\ light = "red"
    \/ At(t, <<"ready">>, Longest)

SwitchesOn(t) ==
    \/ At(t, MachineOn, 0)
    \/ At(t, <<"pinOn", "green", "sound">>, 0) /\ active /\ ~released
    \/ At(t, <<"green", "sound">>, 0) /\ Settled /\ pin
    \/ At(t, <<"sound">>, 0) /\ Settled /\ pin

SwitchesOff(t) ==
    \/ At(t, MachineOff, 0)
    \/ At(t, <<"pinOff", "sound", "ready">>, 0) /\ ~active
    \/ At(t, <<"sound", "ready">>, 0) /\ Settled

\* What the holder of the lock may have left of a signal, whatever the mode.
Signals(t) ==
    \/ Denies(t) /\ Settled
    \/ At(t, <<>>, Longest) /\ Settled
    \/ Opens(t) \/ SwitchesOn(t) \/ SwitchesOff(t)

\* The reader with the lock: which signal it runs is decided under it.
ReaderHolds ==
    \/ Signals("reader")
    \/ /\ todo["reader"] = <<"decide">> \o AfterSignal["reader"]
       /\ Since <= Poll + Longest
       /\ Settled

\* The reader without the lock: it is dead, comes up, polls, waits for the lock or feeds.
ReaderOut ==
    \/ todo["reader"] = <<>>
    \/ ~fed /\ \E n \in 1..Attempts : todo["reader"] = [i \in 1..n |-> "init"]
    \/ todo["reader"] = <<"poll">> /\ Since <= spent["reader"]
    \/ todo["reader"] = OnKeyRead /\ Since <= Poll + Longest
    \/ /\ todo["reader"] = <<"pause", "mark", "feed", "poll">>
       /\ Since <= Poll + 2 * Longest + spent["reader"]
    \/ /\ todo["reader"] \in {<<"mark", "feed", "poll">>, <<"feed", "poll">>}
       /\ Since <= Poll + 2 * Longest + Pause

\* The worker without the lock: it is idle or about to run a trigger, or naps.
WorkerOut ==
    \/ /\ todo["worker"] = <<>> \/ \E a \in Actions : todo["worker"] = OnTrigger(a)
       /\ Doing("reader", "acquire") => Since <= Poll
    \/ todo["worker"] = <<"nap">>

\* No statement takes longer than it may.
Paced ==
    \A t \in Threads :
       spent[t] > 0 => \E s \in DOMAIN Duration : Doing(t, s) /\ spent[t] <= Duration[s]

\* Who holds the lock runs a signal, the other one does not, and a free lock means that nobody
\* is at the output.
UiInv ==
    /\ TypeOK /\ Paced
    /\ IF lock = "reader" THEN ReaderHolds ELSE ReaderOut
    /\ IF lock = "worker" THEN Signals("worker") ELSE WorkerOut
    /\ lock = "free" => Settled

\* The poll that missed the card.
Allowance == IF missed THEN Poll ELSE 0

\* A card that was scanned is the one that is held, and was seen within the gap.
ScanInv ==
    /\ Doing("reader", "init") => scanned = 0
    /\ mode = "machine" /\ scanned > 0 =>
          /\ scanned = 1 /\ card = heldUid /\ card # NoCard
          /\ Doing("reader", "poll") => age <= spent["reader"] + Allowance
          /\ Doing("reader", "feed") => age <= Allowance
          /\ missed => \E s \in {"poll", "feed"} : Doing("reader", s) \/ todo["reader"] = <<>>

-----------------------------------------------------------------------------
(* Times and programs *)

LEMMA Times ==
    /\ Success \in Nat /\ Error \in Nat /\ Sound \in Nat /\ Poll \in Nat /\ Pause \in Nat
    /\ Attempt \in Nat /\ Attempts \in Nat /\ Gap \in Nat /\ Watchdog \in Nat
    /\ Longest \in Nat
    /\ Sound <= Longest /\ Sound + Success <= Longest /\ Sound + Error <= Longest
    /\ 2 * Poll < Gap
<1>1. /\ Success \in Nat /\ Error \in Nat /\ Sound \in Nat /\ Poll \in Nat /\ Pause \in Nat
      /\ Attempt \in Nat /\ Attempts \in Nat /\ Gap \in Nat /\ Watchdog \in Nat
      /\ 2 * Poll < Gap
  BY UiAssumption
<1> QED
  BY <1>1 DEF Longest

LEMMA SinceTyped == TypeOK => Since \in Nat /\ Since <= starved
BY DEF Since, TypeOK

LEMMA SinceKept == UNCHANGED wdtVars => UNCHANGED <<Since, fed>>
BY DEF Since, wdtVars

LEMMA Durations ==
    /\ DOMAIN Duration = {"opened", "denied", "sound", "poll", "pause", "init"}
    /\ Duration["opened"] = Success /\ Duration["denied"] = Error /\ Duration["sound"] = Sound
    /\ Duration["poll"] = Poll /\ Duration["pause"] = Pause /\ Duration["init"] = Attempt
    /\ \A s \in DOMAIN Duration : Duration[s] \in Nat
    /\ Statements = {"opened", "denied", "sound", "poll", "pause", "init",
                     "acquire", "release", "decide", "latch", "unlatch", "pinOn", "pinOff",
                     "green", "red", "ready", "mark", "feed", "nap"}
BY Times DEF Duration, Statements

\* The statements of a signal, one after the other, whatever follows it
LEMMA OpeningRuns ==
    ASSUME NEW R \in Seq(Statements)
    PROVE  /\ Head(SuccessSignal \o R) = "green"
           /\ Tail(SuccessSignal \o R) = <<"pinOn", "sound", "opened", "pinOff", "ready">> \o R
           /\ Head(<<"pinOn", "sound", "opened", "pinOff", "ready">> \o R) = "pinOn"
           /\ Tail(<<"pinOn", "sound", "opened", "pinOff", "ready">> \o R)
                = <<"sound", "opened", "pinOff", "ready">> \o R
           /\ Head(<<"sound", "opened", "pinOff", "ready">> \o R) = "sound"
           /\ Tail(<<"sound", "opened", "pinOff", "ready">> \o R)
                = <<"opened", "pinOff", "ready">> \o R
           /\ Head(<<"opened", "pinOff", "ready">> \o R) = "opened"
           /\ Tail(<<"opened", "pinOff", "ready">> \o R) = <<"pinOff", "ready">> \o R
           /\ Head(<<"pinOff", "ready">> \o R) = "pinOff"
           /\ Tail(<<"pinOff", "ready">> \o R) = <<"ready">> \o R
BY DEF SuccessSignal

LEMMA DenialRuns ==
    ASSUME NEW R \in Seq(Statements)
    PROVE  /\ Head(ErrorSignal \o R) = "red"
           /\ Tail(ErrorSignal \o R) = <<"sound", "denied", "ready">> \o R
           /\ Head(<<"sound", "denied", "ready">> \o R) = "sound"
           /\ Tail(<<"sound", "denied", "ready">> \o R) = <<"denied", "ready">> \o R
           /\ Head(<<"denied", "ready">> \o R) = "denied"
           /\ Tail(<<"denied", "ready">> \o R) = <<"ready">> \o R
           /\ Head(<<"ready">> \o R) = "ready"
           /\ Tail(<<"ready">> \o R) = <<>> \o R
BY DEF ErrorSignal

LEMMA SwitchOnRuns ==
    ASSUME NEW R \in Seq(Statements)
    PROVE  /\ Head(MachineOn \o R) = "latch"
           /\ Tail(MachineOn \o R) = <<"pinOn", "green", "sound">> \o R
           /\ Head(<<"pinOn", "green", "sound">> \o R) = "pinOn"
           /\ Tail(<<"pinOn", "green", "sound">> \o R) = <<"green", "sound">> \o R
           /\ Head(<<"green", "sound">> \o R) = "green"
           /\ Tail(<<"green", "sound">> \o R) = <<"sound">> \o R
           /\ Head(<<"sound">> \o R) = "sound"
           /\ Tail(<<"sound">> \o R) = <<>> \o R
BY DEF MachineOn

LEMMA SwitchOffRuns ==
    ASSUME NEW R \in Seq(Statements)
    PROVE  /\ Head(MachineOff \o R) = "unlatch"
           /\ Tail(MachineOff \o R) = <<"pinOff", "sound", "ready">> \o R
           /\ Head(<<"pinOff", "sound", "ready">> \o R) = "pinOff"
           /\ Tail(<<"pinOff", "sound", "ready">> \o R) = <<"sound", "ready">> \o R
           /\ Head(<<"sound", "ready">> \o R) = "sound"
           /\ Tail(<<"sound", "ready">> \o R) = <<"ready">> \o R
BY DEF MachineOff

LEMMA InitRuns ==
    ASSUME NEW n \in Nat, n # 0
    PROVE  Tail([i \in 1..n |-> "init"]) = [i \in 1..(n - 1) |-> "init"]
OBVIOUS

LEMMA AfterRuns ==
    /\ \A t \in Threads : AfterSignal[t] \in Seq(Statements) /\ AfterSignal[t] # <<>>
    /\ \A t \in Threads : Head(AfterSignal[t]) = "release"
    /\ \A t \in Threads : <<>> \o AfterSignal[t] = AfterSignal[t]
    /\ Tail(AfterSignal["reader"]) = <<"pause", "mark", "feed", "poll">>
    /\ Tail(AfterSignal["worker"]) = <<"nap">>
BY Durations DEF AfterSignal, Threads

LEMMA ProgramsTyped ==
    /\ SuccessSignal \in Seq(Statements) /\ ErrorSignal \in Seq(Statements)
    /\ MachineOn \in Seq(Statements) /\ MachineOff \in Seq(Statements)
    /\ OnKeyRead \in Seq(Statements) /\ ReaderInit \in Seq(Statements)
    /\ \A a \in Actions :
          Signal[a] \in Seq(Statements) /\ OnTrigger(a) \in Seq(Statements)
    /\ \A allowed \in BOOLEAN : ScanSignal(allowed) \in Seq(Statements)
<1>1. SuccessSignal \in Seq(Statements) /\ ErrorSignal \in Seq(Statements)
  BY Durations DEF SuccessSignal, ErrorSignal
<1>2. MachineOn \in Seq(Statements) /\ MachineOff \in Seq(Statements)
  BY Durations DEF MachineOn, MachineOff
<1>3. OnKeyRead \in Seq(Statements)
  BY Durations DEF OnKeyRead
<1>4. ReaderInit \in Seq(Statements)
  BY Times, Durations DEF ReaderInit
<1>5. ASSUME NEW a \in Actions
      PROVE  Signal[a] \in Seq(Statements) /\ OnTrigger(a) \in Seq(Statements)
  <2>1. a \in {"success", "error", "on", "off"}
    BY DEF Actions
  <2>2. Signal[a] \in Seq(Statements)
    BY <1>1, <1>2, <2>1 DEF Signal
  <2>3. <<"acquire">> \in Seq(Statements) /\ <<"release", "nap">> \in Seq(Statements)
    BY Durations
  <2> QED
    BY <2>2, <2>3, ConcatProperties DEF OnTrigger
<1>6. ASSUME NEW allowed \in BOOLEAN PROVE ScanSignal(allowed) \in Seq(Statements)
  BY <1>1, <1>2 DEF ScanSignal
<1> QED
  BY <1>1, <1>2, <1>3, <1>4, <1>5, <1>6

\* A method that takes the lock goes on with its signal.
LEMMA Acquired ==
    /\ Tail(OnKeyRead) = <<"decide">> \o AfterSignal["reader"] /\ Head(OnKeyRead) = "acquire"
    /\ Head(<<"decide">> \o AfterSignal["reader"]) = "decide"
    /\ Tail(<<"decide">> \o AfterSignal["reader"]) = AfterSignal["reader"]
    /\ \A a \in Actions :
          /\ Head(OnTrigger(a)) = "acquire" /\ OnTrigger(a) # <<>>
          /\ Tail(OnTrigger(a)) = Signal[a] \o AfterSignal["worker"]
<1>1. Tail(OnKeyRead) = <<"decide">> \o AfterSignal["reader"] /\ Head(OnKeyRead) = "acquire"
  BY DEF OnKeyRead, AfterSignal
<1>2. /\ Head(<<"decide">> \o AfterSignal["reader"]) = "decide"
      /\ Tail(<<"decide">> \o AfterSignal["reader"]) = AfterSignal["reader"]
  BY AfterRuns DEF Threads
<1>3. ASSUME NEW a \in Actions
      PROVE  /\ Head(OnTrigger(a)) = "acquire" /\ OnTrigger(a) # <<>>
             /\ Tail(OnTrigger(a)) = Signal[a] \o AfterSignal["worker"]
  <2> DEFINE S == Signal[a]
  <2>1. S \in Seq(Statements)
    BY ProgramsTyped
  <2> HIDE DEF S
  <2>2. /\ Head((<<"acquire">> \o S) \o <<"release", "nap">>) = "acquire"
        /\ (<<"acquire">> \o S) \o <<"release", "nap">> # <<>>
    BY <2>1, Durations
  <2>3. Tail((<<"acquire">> \o S) \o <<"release", "nap">>) = S \o <<"release", "nap">>
    BY <2>1, Durations
  <2>4. AfterSignal["worker"] = <<"release", "nap">>
    BY DEF AfterSignal
  <2> QED
    BY <2>2, <2>3, <2>4 DEF OnTrigger, S
<1> QED
  BY <1>1, <1>2, <1>3
-----------------------------------------------------------------------------
(* Typing *)

LEMMA GoesTo ==
    ASSUME TypeOK, NEW t \in Threads, NEW rest \in Seq(Statements), Goes(t, rest)
    PROVE  /\ todo' \in [Threads -> Seq(Statements)] /\ spent' \in [Threads -> Nat]
           /\ todo'[t] = rest /\ spent'[t] = 0
           /\ \A u \in Threads : u # t => todo'[u] = todo[u] /\ spent'[u] = spent[u]
BY DEF TypeOK, Goes

\* A thread that goes on to its next statement
LEMMA GoesOn ==
    ASSUME TypeOK, NEW t \in Threads, NEW s, Doing(t, s), Goes(t, Tail(todo[t]))
    PROVE  /\ todo' \in [Threads -> Seq(Statements)] /\ spent' \in [Threads -> Nat]
           /\ todo'[t] = Tail(todo[t]) /\ spent'[t] = 0
           /\ \A u \in Threads : u # t => todo'[u] = todo[u] /\ spent'[u] = spent[u]
<1>1. todo[t] \in Seq(Statements) /\ todo[t] # <<>>
  BY DEF TypeOK, Doing
<1>2. Tail(todo[t]) \in Seq(Statements)
  BY <1>1, HeadTailProperties
<1> QED
  BY <1>2, GoesTo

LEMMA TwoThreads ==
    ASSUME NEW X, NEW a \in X, NEW b \in X
    PROVE  [reader |-> a, worker |-> b] \in [Threads -> X]
BY DEF Threads

LEMMA TypeInit == ASSUME Init PROVE TypeOK
<1>1. /\ mode \in Modes /\ lock \in Threads \cup {"free"}
      /\ light \in {"green", "red", "online", "offline"}
      /\ heldUid \in Cards \cup {NoCard} /\ age \in 0..Gap
      /\ card \in Cards \cup {NoCard} /\ scanned \in Nat /\ starved \in 0..Watchdog
      /\ spent \in [Threads -> Nat]
  BY Times DEF Init, IdleLight
<1>2. /\ pin \in BOOLEAN /\ active \in BOOLEAN /\ connected \in BOOLEAN /\ missed \in BOOLEAN
      /\ released \in BOOLEAN /\ fed \in BOOLEAN
  BY Zenon DEF Init
<1>3. todo \in [Threads -> Seq(Statements)]
  <2>1. todo = [reader |-> ReaderInit, worker |-> <<>>] /\ <<>> \in Seq(Statements)
    BY DEF Init
  <2> QED
    BY <2>1, ProgramsTyped, TwoThreads
<1> QED
  BY <1>1, <1>2, <1>3 DEF TypeOK

LEMMA BootTyped ==
    ASSUME Booted
    PROVE  /\ todo' \in [Threads -> Seq(Statements)] /\ spent' \in [Threads -> Nat]
           /\ lock' = "free" /\ pin' = FALSE /\ active' = FALSE /\ connected' \in BOOLEAN
           /\ light' \in {"online", "offline"} /\ heldUid' = NoCard /\ age' = 0
           /\ scanned' = 0 /\ starved' = 0
<1>1. todo' = [reader |-> ReaderInit, worker |-> <<>>] /\ <<>> \in Seq(Statements)
  BY DEF Booted
<1>2. todo' \in [Threads -> Seq(Statements)]
  BY <1>1, ProgramsTyped, TwoThreads
<1> QED
  BY <1>2 DEF Booted

LEMMA TypeThread ==
    ASSUME TypeOK, NEW t \in Threads, ThreadStep(t), UNCHANGED mode PROVE TypeOK'
<1> USE DEF heldVars, cardVars, uiVars, wdtVars
<1>1. CASE Acquire(t)
  <2>1. todo' \in [Threads -> Seq(Statements)] /\ spent' \in [Threads -> Nat]
    BY <1>1, GoesOn DEF Acquire
  <2> QED
    BY <1>1, <2>1 DEF Acquire, TypeOK
<1>2. CASE Release(t)
  <2>1. todo' \in [Threads -> Seq(Statements)] /\ spent' \in [Threads -> Nat]
    BY <1>2, GoesOn DEF Release
  <2> QED
    BY <1>2, <2>1 DEF Release, TypeOK
<1>3. CASE Output(t)
  <2>1. todo' \in [Threads -> Seq(Statements)] /\ spent' \in [Threads -> Nat]
    BY <1>3, GoesOn DEF Output
  <2>2. pin' \in BOOLEAN /\ active' \in BOOLEAN /\ released' \in BOOLEAN
    BY <1>3, Zenon DEF Output
  <2>3. light' \in {"green", "red", "online", "offline"}
    BY <1>3 DEF Output, TypeOK, IdleLight
  <2> QED
    BY <1>3, <2>1, <2>2, <2>3 DEF Output, TypeOK
<1>4. CASE Wakes(t)
  <2>1. todo' \in [Threads -> Seq(Statements)] /\ spent' \in [Threads -> Nat]
    BY <1>4, GoesOn DEF Wakes
  <2> QED
    BY <1>4, <2>1 DEF Wakes, TypeOK
<1> QED
  BY <1>1, <1>2, <1>3, <1>4 DEF ThreadStep

LEMMA TypeStep == ASSUME TypeOK, [Next]_vars PROVE TypeOK'
<1> USE DEF heldVars, cardVars, uiVars, wdtVars
<1>1. "reader" \in Threads /\ "worker" \in Threads
  BY DEF Threads
<1>2. ASSUME UNCHANGED <<uiVars, connected, scanned, card, mode>>,
             heldUid' \in Cards \cup {NoCard}, age' \in 0..Gap, missed' \in BOOLEAN,
             starved' \in 0..Watchdog, fed' \in BOOLEAN,
             NEW t \in Threads, NEW rest \in Seq(Statements), Goes(t, rest)
      PROVE  TypeOK'
  <2>1. todo' \in [Threads -> Seq(Statements)] /\ spent' \in [Threads -> Nat]
    BY <1>2, GoesTo
  <2> QED
    BY <1>2, <2>1 DEF TypeOK
<1>3. CASE InMode(Decide)
  <2>1. PICK allowed \in BOOLEAN : Goes("reader", ScanSignal(allowed) \o Tail(todo["reader"]))
    BY <1>3 DEF InMode, Decide
  <2>2. todo["reader"] \in Seq(Statements) /\ todo["reader"] # <<>>
    BY <1>1, <1>3 DEF InMode, Decide, Doing, TypeOK
  <2>3. ScanSignal(allowed) \o Tail(todo["reader"]) \in Seq(Statements)
    BY <2>2, ProgramsTyped, HeadTailProperties, ConcatProperties
  <2> QED
    BY <1>1, <1>2, <1>3, <2>1, <2>3 DEF InMode, Decide, TypeOK
<1>4. CASE InMode(MarkAgain) \/ InMode(Feed)
  <2>1. todo["reader"] \in Seq(Statements) /\ todo["reader"] # <<>>
    BY <1>1, <1>4 DEF InMode, MarkAgain, Feed, Doing, TypeOK
  <2>2. Tail(todo["reader"]) \in Seq(Statements)
    BY <2>1, HeadTailProperties
  <2>3. /\ Goes("reader", Tail(todo["reader"])) /\ UNCHANGED <<uiVars, connected, cardVars, mode>>
        /\ heldUid' = heldUid /\ age' \in {age, 0} /\ starved' \in {starved, 0}
    BY <1>4 DEF InMode, MarkAgain, Feed, Mark
  <2>4. heldUid' \in Cards \cup {NoCard} /\ age' \in 0..Gap /\ starved' \in 0..Watchdog
    BY <2>3, Times DEF TypeOK
  <2>5. fed' \in BOOLEAN /\ missed' \in BOOLEAN /\ UNCHANGED <<uiVars, connected, scanned, card, mode>>
    <3>1. fed' \in BOOLEAN
      BY <1>4, Zenon DEF InMode, MarkAgain, Feed, TypeOK
    <3> QED
      BY <2>3, <3>1, Zenon DEF TypeOK
  <2> QED
    BY <1>1, <1>2, <2>2, <2>3, <2>4, <2>5
<1>5. CASE InMode(ReadsNothing) \/ InMode(ReadsHeldCard)
  <2>1. <<"feed", "poll">> \in Seq(Statements)
    BY Durations
  <2>2. missed' \in BOOLEAN
    BY <1>5, Zenon DEF InMode, ReadsNothing, ReadsHeldCard, ReadsCard
  <2>3. /\ Goes("reader", <<"feed", "poll">>)
        /\ UNCHANGED <<uiVars, connected, card, scanned, wdtVars, mode>>
        /\ heldUid' \in {heldUid, card} /\ age' \in {age, 0}
    BY <1>5 DEF InMode, ReadsNothing, ReadsHeldCard, ReadsCard, Mark
  <2>4. heldUid' \in Cards \cup {NoCard} /\ age' \in 0..Gap /\ starved' \in 0..Watchdog
    BY <2>3, Times DEF TypeOK
  <2>5. fed' \in BOOLEAN
    BY <2>3, Zenon DEF TypeOK
  <2> QED
    BY <1>1, <1>2, <2>1, <2>2, <2>3, <2>4, <2>5
<1>6. CASE InMode(ReadsNewCard)
  <2>1. todo' \in [Threads -> Seq(Statements)] /\ spent' \in [Threads -> Nat]
    BY <1>1, <1>6, GoesTo, ProgramsTyped DEF InMode, ReadsNewCard
  <2>2. scanned' \in Nat
    BY <1>6 DEF InMode, ReadsNewCard, TypeOK
  <2>3. missed' \in BOOLEAN
    BY <1>6, Zenon DEF InMode, ReadsNewCard, ReadsCard
  <2>4. /\ UNCHANGED <<uiVars, connected, card, wdtVars, mode>>
        /\ heldUid' \in {heldUid, card} /\ age' \in {age, 0}
    BY <1>6 DEF InMode, ReadsNewCard, ReadsCard, Mark
  <2> QED
    BY <2>1, <2>2, <2>3, <2>4, Times DEF TypeOK
<1>7. CASE InMode(Nap \/ ReaderComesUp \/ ReaderDies)
  <2>1. <<>> \in Seq(Statements) /\ <<"poll">> \in Seq(Statements)
    BY Durations
  <2> QED
    BY <1>1, <1>2, <1>7, <2>1 DEF InMode, Nap, ReaderComesUp, ReaderDies, TypeOK
<1>8. ASSUME NEW a \in Actions, InMode(Command(a)) PROVE TypeOK'
  <2>1. OnTrigger(a) \in Seq(Statements)
    BY ProgramsTyped DEF TypeOK
  <2> QED
    BY <1>1, <1>2, <1>8, <2>1 DEF InMode, Command, TypeOK
<1>9. CASE InMode(LinkChanges \/ PlaceCard \/ RemoveCard)
  <2>1. connected' \in BOOLEAN /\ missed' \in BOOLEAN
    BY <1>9, Zenon DEF InMode, LinkChanges, PlaceCard, RemoveCard, TypeOK
  <2> QED
    BY <1>9, <2>1 DEF InMode, LinkChanges, PlaceCard, RemoveCard, TypeOK
<1>10. CASE InMode(Tick)
  <2>1. spent' \in [Threads -> Nat]
    BY <1>10 DEF InMode, Tick, TypeOK
  <2>2. starved' \in 0..Watchdog /\ age' \in 0..Gap
    BY <1>10, Times DEF InMode, Tick, Armed, TypeOK
  <2> QED
    BY <1>10, <2>1, <2>2 DEF InMode, Tick, TypeOK
<1>11. CASE InMode(WatchdogBites \/ PowerCut)
  <2>1. Booted /\ UNCHANGED <<card, missed, mode>>
    BY <1>11 DEF InMode, WatchdogBites, PowerCut
  <2>2. /\ pin' \in BOOLEAN /\ active' \in BOOLEAN /\ connected' \in BOOLEAN
        /\ released' \in BOOLEAN /\ fed' \in BOOLEAN
    BY <2>1, Zenon DEF Booted
  <2> QED
    BY <2>1, <2>2, BootTyped, Times DEF TypeOK
<1>12. CASE InMode(ThreadStep("reader") \/ ThreadStep("worker"))
  BY <1>1, <1>12, TypeThread DEF InMode
<1>13. CASE UNCHANGED vars
  BY <1>13 DEF vars, TypeOK
<1> QED
  BY <1>3, <1>4, <1>5, <1>6, <1>7, <1>8, <1>9, <1>10, <1>11, <1>12, <1>13
  DEF Next, InMode, ReaderStep, WorkerStep

-----------------------------------------------------------------------------
(* A thread within its signal *)

\* Its next statement belongs to the signal or ends it.
InSignal == Outputs \cup {"sound", "opened", "denied", "release"}

LEMMA SignalHeads ==
    ASSUME NEW t \in Threads, Signals(t)
    PROVE  /\ todo[t] # <<>> /\ Head(todo[t]) \in InSignal
           /\ Head(todo[t]) = "opened" => pin /\ light = "green"
           /\ Head(todo[t]) = "denied" => light = "red" /\ Settled
           /\ Head(todo[t]) = "release" =>
                 Settled /\ todo[t] = AfterSignal[t] /\ InTime(t, Longest)
<1> DEFINE R == AfterSignal[t]
<1>1. R \in Seq(Statements) /\ R # <<>> /\ <<>> \o R = R /\ Head(R) = "release"
  BY AfterRuns
<1>2. ASSUME NEW S \in Seq(Statements) PROVE S \o R # <<>>
  BY <1>1
<1> HIDE DEF R
<1>3. CASE Denies(t) /\ Settled
  <2>1. /\ ErrorSignal \in Seq(Statements) /\ <<"sound", "denied", "ready">> \in Seq(Statements)
        /\ <<"denied", "ready">> \in Seq(Statements) /\ <<"ready">> \in Seq(Statements)
    BY Durations DEF ErrorSignal
  <2>2. \/ todo[t] = ErrorSignal \o R
        \/ todo[t] = <<"sound", "denied", "ready">> \o R /\ light = "red"
        \/ todo[t] = <<"denied", "ready">> \o R /\ light = "red"
        \/ todo[t] = <<"ready">> \o R
    BY <1>3 DEF Denies, At, R
  <2> QED
    BY <1>1, <1>2, <1>3, <2>1, <2>2, DenialRuns DEF InSignal, Outputs
<1>4. CASE At(t, <<>>, Longest) /\ Settled
  BY <1>1, <1>4 DEF At, R, InSignal
<1>5. CASE Opens(t)
  <2>1. /\ SuccessSignal \in Seq(Statements)
        /\ <<"pinOn", "sound", "opened", "pinOff", "ready">> \in Seq(Statements)
        /\ <<"sound", "opened", "pinOff", "ready">> \in Seq(Statements)
        /\ <<"opened", "pinOff", "ready">> \in Seq(Statements)
        /\ <<"pinOff", "ready">> \in Seq(Statements)
    BY Durations DEF SuccessSignal
  <2>2. \/ todo[t] = SuccessSignal \o R
        \/ todo[t] = <<"pinOn", "sound", "opened", "pinOff", "ready">> \o R
        \/ todo[t] = <<"sound", "opened", "pinOff", "ready">> \o R
        \/ todo[t] = <<"opened", "pinOff", "ready">> \o R /\ pin /\ light = "green"
        \/ todo[t] = <<"pinOff", "ready">> \o R
    BY <1>5 DEF Opens, At, R
  <2> QED
    <3>1. todo[t] # <<>>
      BY <1>2, <2>1, <2>2
    <3>2. \/ Head(todo[t]) \in {"green", "pinOn", "sound", "pinOff"}
          \/ Head(todo[t]) = "opened" /\ pin /\ light = "green"
      BY <1>1, <2>2, OpeningRuns
    <3> QED
      BY <3>1, <3>2 DEF InSignal, Outputs
<1>6. CASE SwitchesOn(t)
  <2>1. /\ MachineOn \in Seq(Statements) /\ <<"pinOn", "green", "sound">> \in Seq(Statements)
        /\ <<"green", "sound">> \in Seq(Statements) /\ <<"sound">> \in Seq(Statements)
    BY Durations DEF MachineOn
  <2>2. \/ todo[t] = MachineOn \o R
        \/ todo[t] = <<"pinOn", "green", "sound">> \o R
        \/ todo[t] = <<"green", "sound">> \o R
        \/ todo[t] = <<"sound">> \o R
    BY <1>6 DEF SwitchesOn, At, R
  <2> QED
    BY <1>1, <1>2, <2>1, <2>2, SwitchOnRuns DEF InSignal, Outputs
<1>7. CASE SwitchesOff(t)
  <2>1. /\ MachineOff \in Seq(Statements) /\ <<"pinOff", "sound", "ready">> \in Seq(Statements)
        /\ <<"sound", "ready">> \in Seq(Statements)
    BY Durations DEF MachineOff
  <2>2. \/ todo[t] = MachineOff \o R
        \/ todo[t] = <<"pinOff", "sound", "ready">> \o R
        \/ todo[t] = <<"sound", "ready">> \o R
    BY <1>7 DEF SwitchesOff, At, R
  <2> QED
    BY <1>1, <1>2, <2>1, <2>2, SwitchOffRuns DEF InSignal, Outputs
<1> QED
  BY <1>3, <1>4, <1>5, <1>6, <1>7 DEF Signals

\* What may be left of a signal, the statement that ends it not counted
Rests ==
    {SuccessSignal, <<"pinOn", "sound", "opened", "pinOff", "ready">>,
     <<"sound", "opened", "pinOff", "ready">>, <<"opened", "pinOff", "ready">>,
     <<"pinOff", "ready">>, ErrorSignal, <<"sound", "denied", "ready">>, <<"denied", "ready">>,
     <<"ready">>, MachineOn, <<"pinOn", "green", "sound">>, <<"green", "sound">>, <<"sound">>,
     MachineOff, <<"pinOff", "sound", "ready">>, <<"sound", "ready">>, <<>>}

LEMMA RestHeads ==
    ASSUME NEW t \in Threads, NEW rest \in Rests
    PROVE  Head(rest \o AfterSignal[t]) \in InSignal
<1>1. AfterSignal[t] \in Seq(Statements)
  BY AfterRuns
<1>2. CASE rest \in {SuccessSignal, <<"pinOn", "sound", "opened", "pinOff", "ready">>,
                    <<"sound", "opened", "pinOff", "ready">>, <<"opened", "pinOff", "ready">>,
                    <<"pinOff", "ready">>}
  BY <1>1, <1>2, OpeningRuns DEF InSignal, Outputs
<1>3. CASE rest \in {ErrorSignal, <<"sound", "denied", "ready">>, <<"denied", "ready">>,
                      <<"ready">>}
  BY <1>1, <1>3, DenialRuns DEF InSignal, Outputs
<1>4. CASE rest \in {MachineOn, <<"pinOn", "green", "sound">>, <<"green", "sound">>, <<"sound">>}
  BY <1>1, <1>4, SwitchOnRuns DEF InSignal, Outputs
<1>5. CASE rest \in {MachineOff, <<"pinOff", "sound", "ready">>, <<"sound", "ready">>}
  BY <1>1, <1>5, SwitchOffRuns DEF InSignal, Outputs
<1>6. CASE rest = <<>>
  BY <1>6, AfterRuns DEF InSignal
<1> QED
  BY <1>2, <1>3, <1>4, <1>5, <1>6 DEF Rests

\* While others run, a signal is where it was; its time goes on.
LEMMA SignalRests ==
    ASSUME NEW t \in Threads, Signals(t),
           UNCHANGED <<mode, pin, active, light, released>>, todo'[t] = todo[t],
           \A e \in Nat : InTime(t, e) => InTime(t, e)'
    PROVE  Signals(t)'
<1>1. \A rest, e : e \in Nat /\ At(t, rest, e) => At(t, rest, e)'
  BY DEF At
<1>2. 0 \in Nat /\ Sound \in Nat /\ Longest \in Nat
  BY Times
<1>3. Settled => Settled'
  BY DEF Settled
<1> HIDE DEF At, Settled
<1>4. Denies(t) => Denies(t)'
  BY <1>1, <1>2 DEF Denies
<1>5. Opens(t) => Opens(t)'
  BY <1>1, <1>2, <1>3 DEF Opens
<1>6. SwitchesOn(t) => SwitchesOn(t)'
  BY <1>1, <1>2, <1>3 DEF SwitchesOn
<1>7. SwitchesOff(t) => SwitchesOff(t)'
  BY <1>1, <1>2, <1>3 DEF SwitchesOff
<1> QED
  BY <1>1, <1>2, <1>3, <1>4, <1>5, <1>6, <1>7 DEF Signals

\* What one statement of it does, if it takes no time ...
LEMMA OneOutput ==
    ASSUME TypeOK, Paced, NEW t \in Threads, NEW rest, NEW e \in Nat, At(t, rest, e),
           Output(t) \/ Wakes(t), Head(todo[t]) \in Outputs
    PROVE  /\ todo'[t] = Tail(todo[t]) /\ InTime(t, e)'
           /\ active \in BOOLEAN /\ active' \in BOOLEAN /\ pin' \in BOOLEAN
           /\ Head(todo[t]) = "latch" => active' = TRUE /\ ~released'
           /\ Head(todo[t]) = "unlatch" => active' = FALSE
           /\ Head(todo[t]) = "pinOff" => Settled'
           /\ Head(todo[t]) \notin {"latch", "unlatch", "pinOff"} => released' = released
           /\ Head(todo[t]) \notin {"latch", "unlatch"} => active' = active
           /\ Head(todo[t]) = "pinOn" => pin' = TRUE
           /\ Head(todo[t]) = "pinOff" => pin' = FALSE
           /\ Head(todo[t]) \notin {"pinOn", "pinOff"} => pin' = pin
           /\ Head(todo[t]) \in {"green", "red"} => light' = Head(todo[t])
           /\ Head(todo[t]) \notin {"green", "red", "ready"} => light' = light
<1>1. Output(t) /\ Doing(t, Head(todo[t]))
  BY Durations DEF Output, Wakes, Doing, Outputs
<1>2. Goes(t, Tail(todo[t])) /\ Since' = Since
  BY <1>1, SinceKept DEF Output
<1>3. /\ todo'[t] = Tail(todo[t]) /\ spent'[t] = 0
      /\ \A u \in Threads : u # t => todo'[u] = todo[u]
  BY <1>1, <1>2, GoesOn
<1>4. t = "worker" => (Doing("reader", "acquire")' <=> Doing("reader", "acquire"))
  BY <1>3 DEF Threads, Doing
<1>5. Since \in Nat /\ spent[t] \in Nat
  BY SinceTyped DEF TypeOK
<1>6. spent[t] = 0
  BY <1>5, Durations DEF Paced, Outputs, Doing
<1>7. InTime(t, e)'
  BY <1>2, <1>3, <1>4, <1>5, <1>6, Times DEF At, InTime, Threads
<1>8. /\ active' = (Head(todo[t]) = "latch" \/ (active /\ Head(todo[t]) # "unlatch"))
      /\ pin' = (Head(todo[t]) = "pinOn" \/ (pin /\ Head(todo[t]) # "pinOff"))
      /\ released' = (\/ Head(todo[t]) = "pinOff" /\ active
                      \/ released /\ Head(todo[t]) \notin {"latch", "unlatch"})
  BY <1>1, Zenon DEF Output, Doing
<1>9. active \in BOOLEAN /\ pin \in BOOLEAN /\ released \in BOOLEAN
  BY DEF TypeOK
<1>10. active' \in BOOLEAN /\ pin' \in BOOLEAN
  BY <1>8, Zenon
<1>12. Head(todo[t]) = "latch" => ~released'
  BY <1>8
<1>13. Head(todo[t]) = "pinOff" => Settled'
  BY <1>8, <1>9 DEF Settled
<1>14. Head(todo[t]) \notin {"latch", "unlatch", "pinOff"} => released' = released
  BY <1>8, <1>9, Zenon
<1>11. /\ Head(todo[t]) \in {"green", "red"} => light' = Head(todo[t])
       /\ Head(todo[t]) \notin {"green", "red", "ready"} => light' = light
  BY <1>1 DEF Output, Doing
<1> QED
  BY <1>3, <1>7, <1>8, <1>9, <1>10, <1>11, <1>12, <1>13, <1>14

\* ... and if it sleeps.
LEMMA OneSleep ==
    ASSUME TypeOK, Paced, NEW t \in Threads, NEW rest, NEW e \in Nat, At(t, rest, e),
           Output(t) \/ Wakes(t), NEW s \in DOMAIN Duration, Head(todo[t]) = s,
           NEW f \in Nat, e + Duration[s] <= f
    PROVE  todo'[t] = Tail(todo[t]) /\ InTime(t, f)' /\ UNCHANGED <<active, pin, light, released>>
<1>1. Wakes(t) /\ Doing(t, s) /\ spent[t] = Duration[s]
  BY Durations DEF Output, Wakes, Doing, Outputs
<1>2. Goes(t, Tail(todo[t])) /\ Since' = Since
  BY <1>1, SinceKept DEF Wakes
<1>3. /\ todo'[t] = Tail(todo[t]) /\ spent'[t] = 0
      /\ \A u \in Threads : u # t => todo'[u] = todo[u]
  BY <1>1, <1>2, GoesOn
<1>4. t = "worker" => (Doing("reader", "acquire")' <=> Doing("reader", "acquire"))
  BY <1>3 DEF Threads, Doing
<1>5. Since \in Nat /\ spent[t] \in Nat
  BY SinceTyped DEF TypeOK
<1>6. PICK d \in Nat : d = spent[t] /\ e + d <= f
  BY <1>1, <1>5
<1>7. InTime(t, f)'
  BY <1>2, <1>3, <1>4, <1>5, <1>6, Times DEF At, InTime, Threads
<1> QED
  BY <1>1, <1>3, <1>7 DEF Wakes, uiVars

\* Statement after statement, each signal keeps to its table.
LEMMA OpeningKept ==
    ASSUME TypeOK, Paced, NEW t \in Threads, Output(t) \/ Wakes(t), mode' = mode,
           Opens(t)
    PROVE  Signals(t)'
<1> DEFINE R == AfterSignal[t]
<1>1. R \in Seq(Statements)
  BY AfterRuns
<1>2. 0 \in Nat /\ Sound \in Nat /\ Longest \in Nat
  BY Times
<1> HIDE DEF R
<1>3. CASE At(t, SuccessSignal, 0) /\ Settled
  <2>1. /\ Head(todo[t]) = "green"
        /\ Tail(todo[t]) = <<"pinOn", "sound", "opened", "pinOff", "ready">> \o R
    BY <1>1, <1>3, OpeningRuns DEF At, R
  <2>2. At(t, <<"pinOn", "sound", "opened", "pinOff", "ready">>, 0)'
    BY <1>2, <1>3, <2>1, OneOutput DEF Outputs, At, R
  <2>3. light' = "green"
    BY <1>2, <1>3, <2>1, OneOutput DEF Outputs
  <2> QED
    BY <2>2, <2>3 DEF Signals, Opens
<1>4. CASE At(t, <<"pinOn", "sound", "opened", "pinOff", "ready">>, 0) /\ light = "green"
  <2>1. Head(todo[t]) = "pinOn" /\ Tail(todo[t]) = <<"sound", "opened", "pinOff", "ready">> \o R
    BY <1>1, <1>4, OpeningRuns DEF At, R
  <2>2. At(t, <<"sound", "opened", "pinOff", "ready">>, 0)'
    BY <1>2, <1>4, <2>1, OneOutput DEF Outputs, At, R
  <2>3. pin' /\ light' = "green"
    BY <1>2, <1>4, <2>1, OneOutput DEF Outputs
  <2> QED
    BY <2>2, <2>3 DEF Signals, Opens
<1>5. CASE At(t, <<"sound", "opened", "pinOff", "ready">>, 0) /\ pin /\ light = "green"
  <2>1. Head(todo[t]) = "sound" /\ Tail(todo[t]) = <<"opened", "pinOff", "ready">> \o R
    BY <1>1, <1>5, OpeningRuns DEF At, R
  <2>2. "sound" \in DOMAIN Duration /\ 0 + Duration["sound"] <= Sound
    BY <1>2, Durations, Times
  <2>3. At(t, <<"opened", "pinOff", "ready">>, Sound)'
    BY <1>2, <1>5, <2>1, <2>2, OneSleep DEF At, R
  <2>4. pin' /\ light' = "green"
    BY <1>2, <1>5, <2>1, <2>2, OneSleep
  <2> QED
    BY <2>3, <2>4 DEF Signals, Opens
<1>6. CASE At(t, <<"opened", "pinOff", "ready">>, Sound) /\ pin /\ light = "green"
  <2>1. Head(todo[t]) = "opened" /\ Tail(todo[t]) = <<"pinOff", "ready">> \o R
    BY <1>1, <1>6, OpeningRuns DEF At, R
  <2>2. "opened" \in DOMAIN Duration /\ Sound + Duration["opened"] <= Longest
    BY <1>2, Durations, Times
  <2>3. At(t, <<"pinOff", "ready">>, Longest)'
    BY <1>2, <1>6, <2>1, <2>2, OneSleep DEF At, R
  <2> QED
    BY <2>3 DEF Signals, Opens
<1>7. CASE At(t, <<"pinOff", "ready">>, Longest)
  <2>1. Head(todo[t]) = "pinOff" /\ Tail(todo[t]) = <<"ready">> \o R
    BY <1>1, <1>7, OpeningRuns DEF At, R
  <2>2. At(t, <<"ready">>, Longest)'
    BY <1>2, <1>7, <2>1, OneOutput DEF Outputs, At, R
  <2>3. Settled'
    BY <1>2, <1>7, <2>1, OneOutput DEF Outputs
  <2> QED
    BY <2>2, <2>3 DEF Signals, Denies
<1> QED
  BY <1>3, <1>4, <1>5, <1>6, <1>7 DEF Opens

LEMMA DenialKept ==
    ASSUME TypeOK, Paced, NEW t \in Threads, Output(t) \/ Wakes(t), mode' = mode,
           Denies(t), Settled
    PROVE  Signals(t)'
<1> DEFINE R == AfterSignal[t]
<1>1. R \in Seq(Statements)
  BY AfterRuns
<1>2. 0 \in Nat /\ Sound \in Nat /\ Longest \in Nat
  BY Times
<1> HIDE DEF R
<1>3. CASE At(t, ErrorSignal, 0)
  <2>1. Head(todo[t]) = "red" /\ Tail(todo[t]) = <<"sound", "denied", "ready">> \o R
    BY <1>1, <1>3, DenialRuns DEF At, R
  <2>2. At(t, <<"sound", "denied", "ready">>, 0)'
    BY <1>2, <1>3, <2>1, OneOutput DEF Outputs, At, R
  <2>3. light' = "red" /\ UNCHANGED <<pin, active, released>>
    BY <1>2, <1>3, <2>1, OneOutput DEF Outputs
  <2> QED
    BY <2>2, <2>3 DEF Signals, Denies, Settled
<1>4. CASE At(t, <<"sound", "denied", "ready">>, 0) /\ light = "red"
  <2>1. Head(todo[t]) = "sound" /\ Tail(todo[t]) = <<"denied", "ready">> \o R
    BY <1>1, <1>4, DenialRuns DEF At, R
  <2>2. "sound" \in DOMAIN Duration /\ 0 + Duration["sound"] <= Sound
    BY <1>2, Durations, Times
  <2>3. At(t, <<"denied", "ready">>, Sound)'
    BY <1>2, <1>4, <2>1, <2>2, OneSleep DEF At, R
  <2>4. light' = "red" /\ UNCHANGED <<pin, active, released>>
    BY <1>2, <1>4, <2>1, <2>2, OneSleep
  <2> QED
    BY <2>3, <2>4 DEF Signals, Denies, Settled
<1>5. CASE At(t, <<"denied", "ready">>, Sound) /\ light = "red"
  <2>1. Head(todo[t]) = "denied" /\ Tail(todo[t]) = <<"ready">> \o R
    BY <1>1, <1>5, DenialRuns DEF At, R
  <2>2. "denied" \in DOMAIN Duration /\ Sound + Duration["denied"] <= Longest
    BY <1>2, Durations, Times
  <2>3. At(t, <<"ready">>, Longest)'
    BY <1>2, <1>5, <2>1, <2>2, OneSleep DEF At, R
  <2>4. UNCHANGED <<pin, active, released>>
    BY <1>2, <1>5, <2>1, <2>2, OneSleep
  <2> QED
    BY <2>3, <2>4 DEF Signals, Denies, Settled
<1>6. CASE At(t, <<"ready">>, Longest)
  <2>1. Head(todo[t]) = "ready" /\ Tail(todo[t]) = <<>> \o R
    BY <1>1, <1>6, DenialRuns DEF At, R
  <2>2. At(t, <<>>, Longest)'
    BY <1>2, <1>6, <2>1, OneOutput DEF Outputs, At, R
  <2>3. UNCHANGED <<pin, active, released>>
    BY <1>2, <1>6, <2>1, OneOutput DEF Outputs
  <2> QED
    BY <2>2, <2>3 DEF Signals, Denies, Settled
<1> QED
  BY <1>3, <1>4, <1>5, <1>6 DEF Denies

LEMMA SwitchOnKept ==
    ASSUME TypeOK, Paced, NEW t \in Threads, Output(t) \/ Wakes(t), mode' = mode,
           SwitchesOn(t)
    PROVE  Signals(t)'
<1> DEFINE R == AfterSignal[t]
<1>1. R \in Seq(Statements)
  BY AfterRuns
<1>2. 0 \in Nat /\ Sound \in Nat /\ Longest \in Nat
  BY Times
<1> HIDE DEF R
<1>3. CASE At(t, MachineOn, 0)
  <2>1. Head(todo[t]) = "latch" /\ Tail(todo[t]) = <<"pinOn", "green", "sound">> \o R
    BY <1>1, <1>3, SwitchOnRuns DEF At, R
  <2>2. At(t, <<"pinOn", "green", "sound">>, 0)'
    BY <1>2, <1>3, <2>1, OneOutput DEF Outputs, At, R
  <2>3. active' /\ ~released'
    BY <1>2, <1>3, <2>1, OneOutput DEF Outputs
  <2> QED
    BY <2>2, <2>3 DEF Signals, SwitchesOn
<1>4. CASE At(t, <<"pinOn", "green", "sound">>, 0) /\ active /\ ~released
  <2>1. Head(todo[t]) = "pinOn" /\ Tail(todo[t]) = <<"green", "sound">> \o R
    BY <1>1, <1>4, SwitchOnRuns DEF At, R
  <2>2. At(t, <<"green", "sound">>, 0)'
    BY <1>2, <1>4, <2>1, OneOutput DEF Outputs, At, R
  <2>3. Settled' /\ pin'
    BY <1>2, <1>4, <2>1, OneOutput DEF Outputs, Settled
  <2> QED
    BY <2>2, <2>3 DEF Signals, SwitchesOn
<1>5. CASE At(t, <<"green", "sound">>, 0) /\ Settled /\ pin
  <2>1. Head(todo[t]) = "green" /\ Tail(todo[t]) = <<"sound">> \o R
    BY <1>1, <1>5, SwitchOnRuns DEF At, R
  <2>2. At(t, <<"sound">>, 0)'
    BY <1>2, <1>5, <2>1, OneOutput DEF Outputs, At, R
  <2>3. Settled' /\ pin'
    BY <1>2, <1>5, <2>1, OneOutput DEF Outputs, Settled
  <2> QED
    BY <2>2, <2>3 DEF Signals, SwitchesOn
<1>6. CASE At(t, <<"sound">>, 0) /\ Settled /\ pin
  <2>1. Head(todo[t]) = "sound" /\ Tail(todo[t]) = <<>> \o R
    BY <1>1, <1>6, SwitchOnRuns DEF At, R
  <2>2. "sound" \in DOMAIN Duration /\ 0 + Duration["sound"] <= Longest
    BY <1>2, Durations, Times
  <2>3. At(t, <<>>, Longest)'
    BY <1>2, <1>6, <2>1, <2>2, OneSleep DEF At, R
  <2>4. Settled'
    BY <1>2, <1>6, <2>1, <2>2, OneSleep DEF Settled
  <2> QED
    BY <2>3, <2>4 DEF Signals, SwitchesOn
<1> QED
  BY <1>3, <1>4, <1>5, <1>6 DEF SwitchesOn

LEMMA SwitchOffKept ==
    ASSUME TypeOK, Paced, NEW t \in Threads, Output(t) \/ Wakes(t), mode' = mode,
           SwitchesOff(t)
    PROVE  Signals(t)'
<1> DEFINE R == AfterSignal[t]
<1>1. R \in Seq(Statements)
  BY AfterRuns
<1>2. 0 \in Nat /\ Sound \in Nat /\ Longest \in Nat
  BY Times
<1> HIDE DEF R
<1>3. CASE At(t, MachineOff, 0)
  <2>1. Head(todo[t]) = "unlatch" /\ Tail(todo[t]) = <<"pinOff", "sound", "ready">> \o R
    BY <1>1, <1>3, SwitchOffRuns DEF At, R
  <2>2. At(t, <<"pinOff", "sound", "ready">>, 0)'
    BY <1>2, <1>3, <2>1, OneOutput DEF Outputs, At, R
  <2>3. ~active'
    BY <1>2, <1>3, <2>1, OneOutput DEF Outputs
  <2> QED
    BY <2>2, <2>3 DEF Signals, SwitchesOff
<1>4. CASE At(t, <<"pinOff", "sound", "ready">>, 0) /\ ~active
  <2>1. Head(todo[t]) = "pinOff" /\ Tail(todo[t]) = <<"sound", "ready">> \o R
    BY <1>1, <1>4, SwitchOffRuns DEF At, R
  <2>2. At(t, <<"sound", "ready">>, 0)'
    BY <1>2, <1>4, <2>1, OneOutput DEF Outputs, At, R
  <2>3. Settled'
    BY <1>2, <1>4, <2>1, OneOutput DEF Outputs
  <2> QED
    BY <2>2, <2>3 DEF Signals, SwitchesOff
<1>5. CASE At(t, <<"sound", "ready">>, 0) /\ Settled
  <2>1. Head(todo[t]) = "sound" /\ Tail(todo[t]) = <<"ready">> \o R
    BY <1>1, <1>5, SwitchOffRuns DEF At, R
  <2>2. "sound" \in DOMAIN Duration /\ 0 + Duration["sound"] <= Longest
    BY <1>2, Durations, Times
  <2>3. At(t, <<"ready">>, Longest)'
    BY <1>2, <1>5, <2>1, <2>2, OneSleep DEF At, R
  <2>4. Settled'
    BY <1>2, <1>5, <2>1, <2>2, OneSleep DEF Settled
  <2> QED
    BY <2>3, <2>4 DEF Signals, Denies
<1> QED
  BY <1>3, <1>4, <1>5 DEF SwitchesOff

LEMMA SignalRuns ==
    ASSUME TypeOK, Paced, NEW t \in Threads, Signals(t), Output(t) \/ Wakes(t), mode' = mode
    PROVE  Signals(t)'
<1>1. CASE Denies(t) /\ Settled
  BY <1>1, DenialKept
<1>2. CASE At(t, <<>>, Longest) /\ Settled
  <2>1. Head(todo[t]) = "release"
    BY <1>2, AfterRuns DEF At
  <2> QED
    BY <2>1, Durations DEF Output, Wakes, Outputs, Doing
<1>3. CASE Opens(t)
  BY <1>3, OpeningKept
<1>4. CASE SwitchesOn(t) \/ SwitchesOff(t)
  BY <1>4, SwitchOnKept, SwitchOffKept
<1> QED
  BY <1>1, <1>2, <1>3, <1>4 DEF Signals

\* How far its sleeps are into the signal
LEMMA SignalTimes ==
    ASSUME NEW t \in Threads, Signals(t), Head(todo[t]) \in DOMAIN Duration
    PROVE  \E e \in Nat : InTime(t, e) /\ e + Duration[Head(todo[t])] <= Longest
<1> DEFINE R == AfterSignal[t]
<1>1. R \in Seq(Statements) /\ <<>> \o R = R /\ Head(R) = "release"
  BY AfterRuns
<1> HIDE DEF R
<1>2. /\ 0 \in Nat /\ 0 + Duration["sound"] <= Longest
      /\ Sound \in Nat /\ Sound + Duration["opened"] <= Longest
      /\ Sound + Duration["denied"] <= Longest
  BY Times, Durations
<1>3. CASE Denies(t)
  <2>1. \/ Head(todo[t]) \in {"red", "ready"}
        \/ Head(todo[t]) = "sound" /\ InTime(t, 0)
        \/ Head(todo[t]) = "denied" /\ InTime(t, Sound)
    BY <1>1, <1>3, DenialRuns DEF Denies, At, R
  <2> QED
    BY <1>2, <2>1, Durations
<1>4. CASE At(t, <<>>, Longest)
  BY <1>1, <1>4, Durations DEF At, R
<1>5. CASE Opens(t)
  <2>1. \/ Head(todo[t]) \in {"green", "pinOn", "pinOff"}
        \/ Head(todo[t]) = "sound" /\ InTime(t, 0)
        \/ Head(todo[t]) = "opened" /\ InTime(t, Sound)
    BY <1>1, <1>5, OpeningRuns DEF Opens, At, R
  <2> QED
    BY <1>2, <2>1, Durations
<1>6. CASE SwitchesOn(t)
  <2>1. \/ Head(todo[t]) \in {"latch", "pinOn", "green"}
        \/ Head(todo[t]) = "sound" /\ InTime(t, 0)
    BY <1>1, <1>6, SwitchOnRuns DEF SwitchesOn, At, R
  <2> QED
    BY <1>2, <2>1, Durations
<1>7. CASE SwitchesOff(t)
  <2>1. \/ Head(todo[t]) \in {"unlatch", "pinOff"}
        \/ Head(todo[t]) = "sound" /\ InTime(t, 0)
    BY <1>1, <1>7, SwitchOffRuns DEF SwitchesOff, At, R
  <2> QED
    BY <1>2, <2>1, Durations
<1> QED
  BY <1>3, <1>4, <1>5, <1>6, <1>7 DEF Signals

-----------------------------------------------------------------------------
(* A thread outside its signal *)

LEMMA ReaderOutHeads ==
    ASSUME ReaderOut, NEW s, Doing("reader", s)
    PROVE  \/ /\ s = "init"
              /\ ~fed /\ \E n \in 1..Attempts : todo["reader"] = [i \in 1..n |-> "init"]
           \/ s = "poll" /\ todo["reader"] = <<"poll">> /\ Since <= spent["reader"]
           \/ s = "acquire" /\ todo["reader"] = OnKeyRead /\ Since <= Poll + Longest
           \/ /\ s = "pause" /\ todo["reader"] = <<"pause", "mark", "feed", "poll">>
              /\ Since <= Poll + 2 * Longest + spent["reader"]
           \/ /\ s = "mark" /\ todo["reader"] = <<"mark", "feed", "poll">>
              /\ Since <= Poll + 2 * Longest + Pause
           \/ /\ s = "feed" /\ todo["reader"] = <<"feed", "poll">>
              /\ Since <= Poll + 2 * Longest + Pause
<1>1. ASSUME NEW n \in 1..Attempts, todo["reader"] = [i \in 1..n |-> "init"]
      PROVE  s = "init"
  BY <1>1 DEF Doing
<1>2. todo["reader"] # <<>> /\ s = Head(todo["reader"])
  BY DEF Doing
<1>3. todo["reader"] = OnKeyRead => s = "acquire"
  BY <1>2, Acquired
<1>4. /\ Head(<<"poll">>) = "poll" /\ Head(<<"pause", "mark", "feed", "poll">>) = "pause"
      /\ Head(<<"mark", "feed", "poll">>) = "mark" /\ Head(<<"feed", "poll">>) = "feed"
  OBVIOUS
<1>5. CASE ~fed /\ \E n \in 1..Attempts : todo["reader"] = [i \in 1..n |-> "init"]
  BY <1>1, <1>5
<1>6. CASE todo["reader"] = <<"poll">> /\ Since <= spent["reader"]
  BY <1>2, <1>4, <1>6
<1>7. CASE todo["reader"] = OnKeyRead /\ Since <= Poll + Longest
  BY <1>3, <1>7
<1>8. CASE /\ todo["reader"] = <<"pause", "mark", "feed", "poll">>
           /\ Since <= Poll + 2 * Longest + spent["reader"]
  BY <1>2, <1>4, <1>8
<1>9. CASE /\ todo["reader"] \in {<<"mark", "feed", "poll">>, <<"feed", "poll">>}
           /\ Since <= Poll + 2 * Longest + Pause
  BY <1>2, <1>4, <1>9
<1> QED
  BY <1>2, <1>5, <1>6, <1>7, <1>8, <1>9 DEF ReaderOut

LEMMA TryingHeads ==
    ASSUME ReaderOut, Doing("reader", "init")
    PROVE  ~fed /\ \E n \in 1..Attempts : todo["reader"] = [i \in 1..n |-> "init"]
<1>1. "init" \notin {"poll", "acquire", "pause", "mark", "feed"}
  OBVIOUS
<1> QED
  BY <1>1, ReaderOutHeads, Zenon

LEMMA ReaderHoldsHeads ==
    ASSUME ReaderHolds
    PROVE  /\ todo["reader"] # <<>>
           /\ \/ Head(todo["reader"]) \in InSignal /\ Signals("reader")
              \/ /\ Head(todo["reader"]) = "decide"
                 /\ todo["reader"] = <<"decide">> \o AfterSignal["reader"]
                 /\ Since <= Poll + Longest /\ Settled
<1>1. CASE Signals("reader")
  BY <1>1, SignalHeads DEF Threads
<1>2. CASE /\ todo["reader"] = <<"decide">> \o AfterSignal["reader"]
           /\ Since <= Poll + Longest
           /\ Settled
  <2>1. <<"decide">> \o AfterSignal["reader"] # <<>>
    BY AfterRuns, Durations DEF Threads
  <2> QED
    BY <1>2, <2>1, Acquired
<1> QED
  BY <1>1, <1>2 DEF ReaderHolds

LEMMA WorkerOutHeads ==
    ASSUME WorkerOut, mode \in Modes, NEW s, Doing("worker", s)
    PROVE  \/ s = "acquire" /\ \E a \in Actions : todo["worker"] = OnTrigger(a)
           \/ s = "nap" /\ todo["worker"] = <<"nap">>
<1>1. todo["worker"] # <<>> /\ s = Head(todo["worker"])
  BY DEF Doing
<1>2. \A a \in Actions : Head(OnTrigger(a)) = "acquire"
  BY Acquired
<1> QED
  BY <1>1, <1>2 DEF WorkerOut

\* Which thread is where tells who has the lock.
LEMMA WhoHolds ==
    ASSUME UiInv
    PROVE  /\ \A s : Doing("reader", s) /\ s \notin InSignal \cup {"decide"} =>
                 lock # "reader" /\ ReaderOut
           /\ \A s : Doing("reader", s) /\ s \in InSignal =>
                 lock = "reader" /\ Signals("reader")
           /\ Doing("reader", "decide") =>
                 /\ lock = "reader" /\ Since <= Poll + Longest /\ Settled
                 /\ todo["reader"] = <<"decide">> \o AfterSignal["reader"]
           /\ \A s : Doing("worker", s) /\ s \notin InSignal => lock # "worker" /\ WorkerOut
           /\ \A s : Doing("worker", s) /\ s \in InSignal => lock = "worker" /\ Signals("worker")
<1>1. /\ lock = "reader" => ReaderHolds
      /\ lock # "reader" => ReaderOut
      /\ lock = "worker" => Signals("worker")
      /\ lock # "worker" => WorkerOut
  BY DEF UiInv
<1>2. ASSUME ReaderOut, NEW s, Doing("reader", s)
      PROVE  s \in {"init", "poll", "acquire", "pause", "mark", "feed"}
  BY <1>2, ReaderOutHeads
<1>3. ASSUME ReaderHolds, NEW s, Doing("reader", s)
      PROVE  \/ s \in InSignal /\ Signals("reader")
             \/ /\ s = "decide" /\ todo["reader"] = <<"decide">> \o AfterSignal["reader"]
                /\ Since <= Poll + Longest /\ Settled
  BY <1>3, ReaderHoldsHeads DEF Doing
<1>4. ASSUME WorkerOut, NEW s, Doing("worker", s)
      PROVE  s \in {"acquire", "nap"}
  BY <1>4, WorkerOutHeads DEF UiInv, TypeOK
<1>5. ASSUME Signals("worker"), NEW s, Doing("worker", s)
      PROVE  s \in InSignal
  BY <1>5, SignalHeads DEF Doing, Threads
<1>6. InSignal \cap {"init", "poll", "acquire", "pause", "mark", "feed", "nap", "decide"} = {}
  BY DEF InSignal, Outputs
<1> QED
  BY <1>1, <1>2, <1>3, <1>4, <1>5, <1>6

-----------------------------------------------------------------------------
(* What a step leaves alone *)

\* The worker stays where it is while the reader moves, and is not made to keep it waiting.
LEMMA WorkerRests ==
    ASSUME UiInv, UNCHANGED <<mode, pin, active, light, released>>,
           todo'["worker"] = todo["worker"], spent'["worker"] = spent["worker"],
           Since' \in Nat, Since' <= Since,
           Doing("reader", "acquire")' => Doing("reader", "acquire") \/ Since' <= Poll
    PROVE  IF lock = "worker" THEN Signals("worker")' ELSE WorkerOut'
<1>1. Since \in Nat /\ spent["worker"] \in Nat /\ "worker" \in Threads
  BY SinceTyped DEF UiInv, TypeOK, Threads
<1>2. CASE lock = "worker"
  <2>1. Signals("worker")
    BY <1>2 DEF UiInv
  <2>2. \A e \in Nat : InTime("worker", e) => InTime("worker", e)'
    BY <1>1, Times DEF InTime
  <2> QED
    BY <1>1, <1>2, <2>1, <2>2, SignalRests
<1>3. CASE lock # "worker"
  <2>1. WorkerOut
    BY <1>3 DEF UiInv
  <2> QED
    BY <1>1, <1>3, <2>1, Times DEF WorkerOut
<1> QED
  BY <1>2, <1>3

\* The reader stays where it is while the worker moves.
LEMMA ReaderRests ==
    ASSUME UiInv, UNCHANGED <<mode, pin, active, light, released, Since, fed>>,
           todo'["reader"] = todo["reader"], spent'["reader"] = spent["reader"]
    PROVE  IF lock = "reader" THEN ReaderHolds' ELSE ReaderOut'
<1>1. CASE lock = "reader"
  <2>1. ReaderHolds
    BY <1>1 DEF UiInv
  <2>2. CASE Signals("reader")
    <3>1. \A e \in Nat : InTime("reader", e) => InTime("reader", e)'
      BY DEF InTime
    <3> QED
      BY <1>1, <2>2, <3>1, SignalRests DEF Threads, ReaderHolds
  <2>3. CASE ~Signals("reader")
    BY <1>1, <2>1, <2>3 DEF ReaderHolds, Settled
  <2> QED
    BY <2>2, <2>3
<1>2. CASE lock # "reader"
  <2>1. ReaderOut
    BY <1>2 DEF UiInv
  <2> QED
    BY <1>2, <2>1 DEF ReaderOut
<1> QED
  BY <1>1, <1>2

\* A thread that goes on starts its next statement.
LEMMA PaceKept ==
    ASSUME TypeOK, Paced, NEW t \in Threads, NEW rest, Goes(t, rest)
    PROVE  /\ Paced' /\ todo'[t] = rest /\ spent'[t] = 0
           /\ \A u \in Threads : u # t => todo'[u] = todo[u] /\ spent'[u] = spent[u]
<1>1. /\ todo'[t] = rest /\ spent'[t] = 0
      /\ \A u \in Threads : u # t => todo'[u] = todo[u] /\ spent'[u] = spent[u]
  BY DEF TypeOK, Goes
<1>2. Paced'
  BY <1>1 DEF Paced, Doing
<1> QED
  BY <1>1, <1>2

-----------------------------------------------------------------------------
(* The invariant is kept *)

LEMMA FreshReader ==
    \/ ReaderInit = <<>>
    \/ Attempts \in 1..Attempts /\ ReaderInit = [i \in 1..Attempts |-> "init"]
<1>1. CASE Attempts = 0
  BY <1>1 DEF ReaderInit
<1>2. CASE Attempts # 0
  BY <1>2, Times DEF ReaderInit
<1> QED
  BY <1>1, <1>2

LEMMA UiInit == ASSUME Init PROVE UiInv
<1>1. TypeOK
  BY TypeInit
<1>2. /\ todo["reader"] = ReaderInit /\ todo["worker"] = <<>> /\ Since = 0 /\ ~fed /\ lock = "free"
      /\ pin = FALSE /\ active = FALSE /\ \A t \in Threads : spent[t] = 0
  BY DEF Init, Since
<1>3. ReaderOut
  BY <1>2, FreshReader DEF ReaderOut, Threads
<1>4. WorkerOut
  BY <1>2, Times DEF WorkerOut
<1>5. Paced
  BY <1>2 DEF Paced
<1> QED
  BY <1>1, <1>2, <1>3, <1>4, <1>5 DEF UiInv, Settled

LEMMA BootKept == ASSUME TypeOK', Booted PROVE UiInv'
<1>2. /\ todo'["reader"] = ReaderInit /\ todo'["worker"] = <<>> /\ Since' = 0 /\ ~fed' /\ lock' = "free"
      /\ pin' = FALSE /\ active' = FALSE /\ \A t \in Threads : spent'[t] = 0
  BY DEF Booted, Since
<1>3. ReaderOut'
  BY <1>2, FreshReader DEF ReaderOut, Threads
<1>4. WorkerOut'
  BY <1>2, Times DEF WorkerOut
<1>5. Paced'
  BY <1>2 DEF Paced
<1> QED
  BY <1>2, <1>3, <1>4, <1>5 DEF UiInv, Settled

\* The reader moves without the lock.
LEMMA ReaderMoves ==
    ASSUME UiInv, TypeOK', lock # "reader", NEW rest, Goes("reader", rest),
           UNCHANGED <<mode, lock, pin, active, light, released>>, Since' <= Since,
           ReaderOut', rest # <<>> /\ Head(rest) = "acquire" => Since' <= Poll
    PROVE  UiInv'
<1>1. /\ Paced' /\ todo'["reader"] = rest
      /\ todo'["worker"] = todo["worker"] /\ spent'["worker"] = spent["worker"]
  BY PaceKept DEF UiInv, Threads
<1>2. Doing("reader", "acquire")' => Since' <= Poll
  BY <1>1 DEF Doing
<1>3. Since' \in Nat
  BY DEF TypeOK, Since
<1>4. IF lock = "worker" THEN Signals("worker")' ELSE WorkerOut'
  BY <1>1, <1>2, <1>3, WorkerRests
<1> QED
  BY <1>1, <1>4 DEF UiInv, Settled

\* The worker moves without the lock.
LEMMA WorkerMoves ==
    ASSUME UiInv, TypeOK', lock # "worker", NEW rest, Goes("worker", rest),
           UNCHANGED <<mode, lock, pin, active, light, released, Since, fed>>, WorkerOut'
    PROVE  UiInv'
<1>1. Paced' /\ todo'["reader"] = todo["reader"] /\ spent'["reader"] = spent["reader"]
  BY PaceKept DEF UiInv, Threads
<1>2. IF lock = "reader" THEN ReaderHolds' ELSE ReaderOut'
  BY <1>1, ReaderRests
<1> QED
  BY <1>1, <1>2 DEF UiInv, Settled

\* Nobody moves.
LEMMA NobodyMoves ==
    ASSUME UiInv, TypeOK', UNCHANGED <<mode, todo, spent, uiVars, Since, fed>>
    PROVE  UiInv'
<1>1. Since \in Nat
  BY SinceTyped DEF UiInv, TypeOK
<1>2. Doing("reader", "acquire")' => Doing("reader", "acquire")
  BY DEF Doing
<1>3. IF lock = "worker" THEN Signals("worker")' ELSE WorkerOut'
  BY <1>1, <1>2, WorkerRests DEF uiVars
<1>4. IF lock = "reader" THEN ReaderHolds' ELSE ReaderOut'
  BY ReaderRests DEF uiVars
<1>5. Paced'
  BY DEF UiInv, Paced, Doing
<1> QED
  BY <1>3, <1>4, <1>5 DEF UiInv, Settled, uiVars

LEMMA AcquireKept ==
    ASSUME UiInv, TypeOK', NEW t \in Threads, Acquire(t), mode' = mode
    PROVE  UiInv'
<1>1. /\ Doing(t, "acquire") /\ lock = "free" /\ lock' = t /\ Goes(t, Tail(todo[t]))
      /\ UNCHANGED <<pin, active, light, released, Since, fed>>
  BY SinceKept DEF Acquire
<1>2. /\ Paced' /\ todo'[t] = Tail(todo[t]) /\ spent'[t] = 0
      /\ \A u \in Threads : u # t => todo'[u] = todo[u] /\ spent'[u] = spent[u]
  BY <1>1, PaceKept DEF UiInv
<1>3. Settled /\ Settled' /\ Since \in Nat
  BY <1>1, SinceTyped DEF UiInv, TypeOK, Settled
<1>4. CASE t = "reader"
  <2>1. ReaderOut /\ "acquire" \notin InSignal
    BY <1>1, <1>4 DEF UiInv, InSignal, Outputs
  <2>2. todo["reader"] = OnKeyRead /\ Since <= Poll + Longest
    BY <1>1, <1>4, <2>1, ReaderOutHeads
  <2>3. todo'["reader"] = <<"decide">> \o AfterSignal["reader"]
    BY <1>2, <1>4, <2>2, Acquired
  <2>4. ReaderHolds'
    BY <1>1, <1>3, <2>2, <2>3 DEF ReaderHolds
  <2>5. ~Doing("reader", "acquire")'
    BY <2>3, Acquired DEF Doing
  <2>6. WorkerOut'
    BY <1>1, <1>2, <1>3, <1>4, <2>5, WorkerRests DEF Threads
  <2> QED
    BY <1>1, <1>2, <1>4, <2>4, <2>6 DEF UiInv
<1>5. CASE t = "worker"
  <2>1. WorkerOut /\ mode \in Modes
    BY <1>1 DEF UiInv, TypeOK
  <2>2. PICK a \in Actions : todo["worker"] = OnTrigger(a)
    BY <1>1, <1>5, <2>1, WorkerOutHeads
  <2>3. todo'["worker"] = Signal[a] \o AfterSignal["worker"]
    BY <1>2, <1>5, <2>1, <2>2, Acquired
  <2>4. a \in {"success", "error", "on", "off"}
    BY DEF Actions
  <2>5. Doing("worker", "acquire") /\ todo["worker"] # <<>> /\ todo["worker"] # <<"nap">>
    BY <1>1, <1>5 DEF Doing
  <2>6. Doing("reader", "acquire")' => Since <= Poll
    BY <1>2, <1>5, <2>1, <2>5 DEF WorkerOut, Doing, Threads
  <2>7. InTime("worker", 0)'
    BY <1>1, <1>2, <1>3, <1>5, <2>6, Times DEF InTime
  <2>8. At("worker", Signal[a], 0)'
    BY <2>3, <2>7 DEF At
  <2>9. Signals("worker")'
    BY <1>3, <2>4, <2>8 DEF Signals, Opens, Denies, SwitchesOn, SwitchesOff, Signal
  <2>10. ReaderOut'
    BY <1>1, <1>2, <1>5, ReaderRests DEF Threads
  <2> QED
    BY <1>1, <1>2, <1>5, <2>9, <2>10 DEF UiInv
<1> QED
  BY <1>4, <1>5 DEF Threads

LEMMA ReleaseKept ==
    ASSUME UiInv, TypeOK', NEW t \in Threads, Release(t), mode' = mode
    PROVE  UiInv'
<1>1. /\ Doing(t, "release") /\ lock' = "free" /\ Goes(t, Tail(todo[t]))
      /\ UNCHANGED <<pin, active, light, released, Since, fed>>
  BY SinceKept DEF Release
<1>2. /\ Paced' /\ todo'[t] = Tail(todo[t]) /\ spent'[t] = 0
      /\ \A u \in Threads : u # t => todo'[u] = todo[u] /\ spent'[u] = spent[u]
  BY <1>1, PaceKept DEF UiInv
<1>3. lock = t /\ Signals(t)
  BY <1>1, WhoHolds DEF InSignal, Threads
<1>4. Settled /\ todo[t] = AfterSignal[t] /\ InTime(t, Longest)
  BY <1>1, <1>3, SignalHeads DEF Doing
<1>5. spent[t] = 0 /\ Since \in Nat
  <2>1. spent[t] \in Nat /\ Since \in Nat
    BY SinceTyped DEF UiInv, TypeOK
  <2>2. ~\E s \in DOMAIN Duration : Doing(t, s)
    BY <1>1, Durations DEF Doing
  <2> QED
    BY <2>1, <2>2 DEF UiInv, Paced
<1>6. CASE t = "reader"
  <2>1. ReaderOut'
    <3>1. todo'["reader"] = <<"pause", "mark", "feed", "poll">>
      BY <1>2, <1>4, <1>6, AfterRuns
    <3>2. Since' <= Poll + 2 * Longest + spent'["reader"]
      BY <1>1, <1>2, <1>4, <1>5, <1>6, Times DEF InTime
    <3> QED
      BY <3>1, <3>2 DEF ReaderOut
  <2>2. ~Doing("reader", "acquire")'
    BY <1>2, <1>4, <1>6, AfterRuns DEF Doing
  <2>3. WorkerOut'
    BY <1>1, <1>2, <1>3, <1>5, <1>6, <2>2, WorkerRests DEF Threads
  <2> QED
    BY <1>1, <1>2, <1>4, <2>1, <2>3 DEF UiInv, Settled
<1>7. CASE t = "worker"
  <2>1. WorkerOut'
    BY <1>2, <1>4, <1>7, AfterRuns DEF WorkerOut
  <2>2. ReaderOut'
    BY <1>1, <1>2, <1>3, <1>7, ReaderRests DEF Threads
  <2> QED
    BY <1>1, <1>2, <1>4, <2>1, <2>2 DEF UiInv, Settled
<1> QED
  BY <1>6, <1>7 DEF Threads

\* Outputs and the ends of sleeps
LEMMA RunKept ==
    ASSUME UiInv, TypeOK', NEW t \in Threads, Output(t) \/ Wakes(t), mode' = mode
    PROVE  UiInv'
<1>1. /\ Goes(t, Tail(todo[t])) /\ UNCHANGED <<lock, Since, fed>>
      /\ todo[t] # <<>> /\ Since \in Nat /\ TypeOK /\ Paced
  BY SinceTyped, SinceKept DEF Output, Wakes, Doing, UiInv, TypeOK, uiVars
<1>2. /\ Paced' /\ todo'[t] = Tail(todo[t]) /\ spent'[t] = 0
      /\ \A u \in Threads : u # t => todo'[u] = todo[u] /\ spent'[u] = spent[u]
  BY <1>1, PaceKept
<1>3. CASE lock = t /\ Signals(t)
  <2>1. Signals(t)'
    BY <1>1, <1>3, SignalRuns DEF UiInv
  <2>2. CASE t = "reader"
    <3>1. WorkerOut
      BY <1>3, <2>2 DEF UiInv
    <3>2. ~Doing("reader", "acquire")'
      <4>1. \E rest \in Rests : todo'["reader"] = rest \o AfterSignal["reader"]
        BY <2>1, <2>2 DEF Signals, Denies, Opens, SwitchesOn, SwitchesOff, At, Rests
      <4> QED
        BY <4>1, RestHeads DEF Doing, InSignal, Outputs, Threads
    <3>3. WorkerOut'
      BY <1>1, <1>2, <2>2, <3>1, <3>2 DEF WorkerOut, Threads
    <3> QED
      BY <1>1, <1>2, <1>3, <2>1, <2>2, <3>3 DEF UiInv, ReaderHolds
  <2>3. CASE t = "worker"
    <3>1. ReaderOut
      BY <1>3, <2>3 DEF UiInv
    <3>2. ReaderOut'
      BY <1>1, <1>2, <2>3, <3>1 DEF ReaderOut, Threads
    <3> QED
      BY <1>1, <1>2, <1>3, <2>1, <2>3, <3>2 DEF UiInv
  <2> QED
    BY <2>2, <2>3 DEF Threads
<1>4. CASE ~(lock = t /\ Signals(t))
  <2>1. PICK s :
          /\ Doing(t, s)
          /\ s \in Outputs \/ (s \in DOMAIN Duration \ {"poll"} /\ spent[t] = Duration[s])
    BY DEF Output, Wakes
  <2>2. s \in {"init", "pause"} /\ t = "reader" /\ lock # "reader" /\ ReaderOut
    <3>1. s \in InSignal \cup {"init", "pause"} /\ s # "decide"
      BY <2>1, Durations DEF InSignal, Outputs
    <3>2. s \notin InSignal
      BY <1>4, <2>1, WhoHolds DEF Threads
    <3>3. t # "worker"
      <4> SUFFICES ASSUME t = "worker" PROVE FALSE
        OBVIOUS
      <4>1. WorkerOut /\ mode \in Modes
        BY <2>1, <3>2, WhoHolds DEF UiInv, TypeOK
      <4> QED
        BY <2>1, <3>1, <3>2, <4>1, WorkerOutHeads
    <3> QED
      BY <2>1, <3>1, <3>2, <3>3, WhoHolds DEF Threads
  <2>3. /\ UNCHANGED <<pin, active, light, released>> /\ spent["reader"] = Duration[s]
    BY <2>1, <2>2, Durations DEF Output, Wakes, Outputs, Doing, uiVars
  <2>4. CASE s = "init"
    <3>1. PICK n \in 1..Attempts : todo["reader"] = [i \in 1..n |-> "init"] /\ ~fed
      BY <2>1, <2>2, <2>4, TryingHeads
    <3>2. todo'["reader"] = [i \in 1..(n - 1) |-> "init"]
      <4>1. n \in Nat /\ n # 0
        BY Times
      <4>2. Tail([i \in 1..n |-> "init"]) = [i \in 1..(n - 1) |-> "init"]
        BY <4>1, InitRuns
      <4> QED
        BY <1>2, <2>2, <3>1, <4>2
    <3>3. ~fed'
      BY <1>1, <3>1
    <3>4. CASE n = 1
      <4>1. todo'["reader"] = <<>>
        BY <3>2, <3>4
      <4> QED
        BY <1>1, <1>2, <2>2, <2>3, <4>1, ReaderMoves DEF ReaderOut
    <3>5. CASE n # 1
      <4>1. n - 1 \in 1..Attempts
        BY <3>5, Times
      <4>2. ReaderOut'
        BY <3>2, <3>3, <4>1 DEF ReaderOut
      <4>3. Head(todo'["reader"]) = "init"
        BY <3>2, <4>1
      <4> QED
        BY <1>1, <1>2, <2>2, <2>3, <4>2, <4>3, ReaderMoves
    <3> QED
      BY <3>4, <3>5
  <2>5. CASE s = "pause"
    <3>1. /\ todo["reader"] = <<"pause", "mark", "feed", "poll">>
          /\ Since <= Poll + 2 * Longest + spent["reader"]
      BY <2>1, <2>2, <2>5, ReaderOutHeads
    <3>2. todo'["reader"] = <<"mark", "feed", "poll">>
      BY <1>2, <2>2, <3>1
    <3>3. ReaderOut'
      BY <1>1, <2>3, <2>5, <3>1, <3>2, Durations, Times DEF ReaderOut
    <3> QED
      BY <1>1, <1>2, <2>2, <2>3, <3>2, <3>3, ReaderMoves
  <2> QED
    BY <2>2, <2>4, <2>5
<1> QED
  BY <1>3, <1>4

LEMMA DecideKept ==
    ASSUME UiInv, TypeOK', Decide, mode' = mode
    PROVE  UiInv'
<1>1. PICK S \in Rests :
        /\ Goes("reader", S \o Tail(todo["reader"]))
        /\ S \in {SuccessSignal, ErrorSignal, MachineOn, MachineOff}
  <2>1. PICK allowed \in BOOLEAN : Goes("reader", ScanSignal(allowed) \o Tail(todo["reader"]))
    BY DEF Decide
  <2>2. ScanSignal(allowed) \in Rests
    BY DEF ScanSignal, Rests
  <2>3. ScanSignal(allowed) \in {SuccessSignal, ErrorSignal, MachineOn, MachineOff}
    BY DEF ScanSignal
  <2> QED
    BY <2>1, <2>2, <2>3
<1>2. /\ Doing("reader", "decide") /\ UNCHANGED <<lock, pin, active, light, released, Since, fed>>
      /\ TypeOK /\ Paced /\ mode \in Modes /\ Since \in Nat
  BY SinceTyped, SinceKept DEF Decide, UiInv, TypeOK, uiVars
<1>3. /\ lock = "reader" /\ Since <= Poll + Longest /\ Settled
      /\ todo["reader"] = <<"decide">> \o AfterSignal["reader"]
  BY <1>2, WhoHolds
<1>4. /\ Paced' /\ todo'["reader"] = S \o AfterSignal["reader"]
      /\ spent'["reader"] = 0
      /\ todo'["worker"] = todo["worker"] /\ spent'["worker"] = spent["worker"]
  BY <1>1, <1>2, <1>3, PaceKept, Acquired DEF Threads
<1>5. InTime("reader", 0)'
  BY <1>2, <1>3, <1>4, Times DEF InTime
<1>6. At("reader", S, 0)'
  BY <1>4, <1>5 DEF At
<1>7. Settled'
  BY <1>2, <1>3 DEF Settled
<1>8. Signals("reader")'
  BY <1>1, <1>6, <1>7 DEF Signals, Opens, Denies, SwitchesOn, SwitchesOff
<1>9. ~Doing("reader", "acquire")'
  BY <1>4, RestHeads DEF Doing, InSignal, Outputs, Threads
<1>10. WorkerOut'
  BY <1>2, <1>3, <1>4, <1>9, WorkerRests
<1> QED
  BY <1>2, <1>3, <1>4, <1>8, <1>10 DEF UiInv, ReaderHolds

\* The rest of the main loop
LEMMA LoopKept ==
    ASSUME UiInv, TypeOK', mode' = mode,
           \/ MarkAgain \/ Feed \/ ReadsNothing \/ ReadsHeldCard \/ ReadsNewCard
           \/ ReaderComesUp \/ ReaderDies
    PROVE  UiInv'
<1> USE DEF uiVars, heldVars, cardVars
<1>1. TypeOK /\ Since \in Nat /\ spent["reader"] \in Nat
  BY SinceTyped DEF UiInv, TypeOK, Threads
<1>2. "poll" \notin InSignal \cup {"decide"} /\ "mark" \notin InSignal \cup {"decide"}
      /\ "feed" \notin InSignal \cup {"decide"} /\ "init" \notin InSignal \cup {"decide"}
  BY DEF InSignal, Outputs
<1>3. CASE MarkAgain
  <2>1. /\ Doing("reader", "mark") /\ Goes("reader", Tail(todo["reader"]))
        /\ UNCHANGED <<lock, pin, active, light, released, Since, fed>>
    BY <1>3, SinceKept DEF MarkAgain
  <2>2. lock # "reader" /\ ReaderOut
    BY <1>2, <2>1, WhoHolds
  <2>3. todo["reader"] = <<"mark", "feed", "poll">> /\ Since <= Poll + 2 * Longest + Pause
    BY <2>1, <2>2, ReaderOutHeads
  <2>4. Goes("reader", <<"feed", "poll">>) /\ Head(<<"feed", "poll">>) = "feed"
    BY <2>1, <2>3
  <2>5. todo'["reader"] = <<"feed", "poll">>
    BY <1>1, <2>1, <2>4 DEF TypeOK, Goes, Threads
  <2>6. ReaderOut'
    BY <2>1, <2>3, <2>5 DEF ReaderOut
  <2> QED
    BY <1>1, <2>1, <2>2, <2>4, <2>6, ReaderMoves
<1>4. CASE Feed
  <2>1. /\ Doing("reader", "feed") /\ Goes("reader", Tail(todo["reader"])) /\ Since' = 0
        /\ UNCHANGED <<lock, pin, active, light, released>>
    BY <1>4 DEF Feed, Since
  <2>2. lock # "reader" /\ ReaderOut
    BY <1>2, <2>1, WhoHolds
  <2>3. todo["reader"] = <<"feed", "poll">>
    BY <2>1, <2>2, ReaderOutHeads
  <2>4. Goes("reader", <<"poll">>) /\ Head(<<"poll">>) = "poll"
    BY <2>1, <2>3
  <2>5. todo'["reader"] = <<"poll">> /\ spent'["reader"] = 0
    BY <1>1, <2>1, <2>4 DEF TypeOK, Goes, Threads
  <2>6. ReaderOut'
    BY <2>1, <2>5, Times DEF ReaderOut
  <2> QED
    BY <1>1, <2>1, <2>2, <2>4, <2>6, ReaderMoves
<1>5. CASE ReadsNothing \/ ReadsHeldCard \/ ReadsNewCard
  <2>1. /\ Doing("reader", "poll") /\ UNCHANGED <<lock, pin, active, light, released, Since, fed>>
        /\ Goes("reader", <<"feed", "poll">>) \/ Goes("reader", OnKeyRead)
    BY <1>5, SinceKept DEF ReadsNothing, ReadsHeldCard, ReadsNewCard, ReadsCard
  <2>2. lock # "reader" /\ ReaderOut
    BY <1>2, <2>1, WhoHolds
  <2>3. Since <= spent["reader"]
    BY <2>1, <2>2, ReaderOutHeads
  <2>4. spent["reader"] <= Poll
    BY <1>1, <2>1, Durations, Times DEF UiInv, Paced, Doing, Threads
  <2>5. Since <= Poll
    BY <1>1, <2>3, <2>4, Times
  <2>6. CASE Goes("reader", <<"feed", "poll">>)
    <3>1. todo'["reader"] = <<"feed", "poll">> /\ Head(<<"feed", "poll">>) = "feed"
      BY <1>1, <2>6 DEF TypeOK, Goes, Threads
    <3>2. ReaderOut'
      BY <1>1, <2>1, <2>5, <3>1, Times DEF ReaderOut
    <3> QED
      BY <1>1, <2>1, <2>2, <2>6, <3>1, <3>2, ReaderMoves
  <2>7. CASE Goes("reader", OnKeyRead)
    <3>1. todo'["reader"] = OnKeyRead
      BY <1>1, <2>7 DEF TypeOK, Goes, Threads
    <3>2. ReaderOut'
      BY <1>1, <2>1, <2>5, <3>1, Times DEF ReaderOut
    <3> QED
      BY <1>1, <2>1, <2>2, <2>5, <2>7, <3>2, ReaderMoves
  <2> QED
    BY <2>1, <2>6, <2>7
<1>6. CASE ReaderComesUp
  <2>1. /\ Doing("reader", "init") /\ Goes("reader", <<"poll">>)
        /\ UNCHANGED <<lock, pin, active, light, released, Since, fed>>
    BY <1>6, SinceKept DEF ReaderComesUp
  <2>2. lock # "reader" /\ ReaderOut
    BY <1>2, <2>1, WhoHolds
  <2>3. ~fed
    BY <2>1, <2>2, TryingHeads
  <2>5. Since' = 0
    BY <2>1, <2>3 DEF Since
  <2>6. /\ todo'["reader"] = <<"poll">> /\ spent'["reader"] = 0 /\ Head(<<"poll">>) = "poll"
    BY <1>1, <2>1 DEF TypeOK, Goes, Threads
  <2>7. ReaderOut'
    BY <2>1, <2>5, <2>6, Times DEF ReaderOut
  <2> QED
    BY <1>1, <2>1, <2>2, <2>6, <2>7, ReaderMoves
<1>7. CASE ReaderDies
  <2>1. /\ Doing("reader", "poll") \/ todo["reader"] = ReaderInit
        /\ Goes("reader", <<>>) /\ UNCHANGED <<lock, pin, active, light, released, Since, fed>>
    BY <1>7, SinceKept DEF ReaderDies
  <2>2. lock # "reader"
    <3>1. CASE Doing("reader", "poll")
      BY <1>2, <3>1, WhoHolds
    <3>2. CASE todo["reader"] = ReaderInit
      <4>1. todo["reader"] = <<>> \/ (todo["reader"] # <<>> /\ Head(todo["reader"]) = "init")
        BY <3>2, FreshReader, Times
      <4>2. ReaderHolds => todo["reader"] # <<>> /\ Head(todo["reader"]) \in InSignal \cup {"decide"}
        BY ReaderHoldsHeads
      <4> QED
        BY <1>2, <4>1, <4>2 DEF UiInv
    <3> QED
      BY <2>1, <3>1, <3>2
  <2>3. todo'["reader"] = <<>>
    BY <1>1, <2>1 DEF TypeOK, Goes, Threads
  <2>4. ReaderOut'
    BY <2>3 DEF ReaderOut
  <2> QED
    BY <1>1, <2>1, <2>2, <2>4, ReaderMoves
<1> QED
  BY <1>3, <1>4, <1>5, <1>6, <1>7

LEMMA NapKept ==
    ASSUME UiInv, TypeOK', Nap, mode' = mode
    PROVE  UiInv'
<1>1. /\ Doing("worker", "nap") /\ ~(Doing("reader", "acquire") /\ lock = "free")
      /\ Goes("worker", <<>>) /\ UNCHANGED <<lock, pin, active, light, released, Since, fed>>
  BY SinceKept DEF Nap, uiVars
<1>2. lock # "worker"
  BY <1>1, WhoHolds DEF InSignal, Outputs
<1>3. /\ todo'["worker"] = <<>> /\ todo'["reader"] = todo["reader"]
      /\ lock \in {"reader", "worker", "free"}
  BY <1>1 DEF UiInv, TypeOK, Goes, Threads
<1>4. ~Doing("reader", "acquire")'
  <2>1. ~Doing("reader", "acquire")
    BY <1>1, <1>2, <1>3, WhoHolds DEF InSignal, Outputs
  <2> QED
    BY <1>3, <2>1 DEF Doing
<1>5. WorkerOut'
  BY <1>3, <1>4 DEF WorkerOut
<1> QED
  BY <1>1, <1>2, <1>5, WorkerMoves

LEMMA CommandKept ==
    ASSUME UiInv, TypeOK', NEW a \in Actions, Command(a), mode' = mode
    PROVE  UiInv'
<1>1. /\ todo["worker"] = <<>> /\ Goes("worker", OnTrigger(a))
      /\ UNCHANGED <<lock, pin, active, light, released, Since, fed>>
  BY SinceKept DEF Command, uiVars
<1>2. lock # "worker" /\ WorkerOut
  <2>1. Signals("worker") => todo["worker"] # <<>>
    BY SignalHeads DEF Threads
  <2> QED
    BY <1>1, <2>1 DEF UiInv
<1>3. /\ todo'["worker"] = OnTrigger(a) /\ todo'["reader"] = todo["reader"]
  BY <1>1 DEF UiInv, TypeOK, Goes, Threads
<1>4. Doing("reader", "acquire")' => Since' <= Poll
  BY <1>1, <1>2, <1>3 DEF WorkerOut, Doing
<1>5. WorkerOut'
  BY <1>3, <1>4 DEF WorkerOut
<1> QED
  BY <1>1, <1>2, <1>5, WorkerMoves

\* What a thread sleeps in
LEMMA TickTimes ==
    ASSUME TypeOK, Tick, NEW t \in Threads
    PROVE  /\ todo[t] # <<>> /\ Head(todo[t]) \in DOMAIN Duration =>
                 spent'[t] = spent[t] + 1 /\ spent[t] < Duration[Head(todo[t])]
           /\ ~(todo[t] # <<>> /\ Head(todo[t]) \in DOMAIN Duration) =>
                 /\ spent'[t] = 0
                 /\ todo[t] = <<>> \/ (Head(todo[t]) = "acquire" /\ lock # "free")
<1>1. Waits(t) /\ spent' = [u \in Threads |->
                   IF todo[u] # <<>> /\ Head(todo[u]) \in DOMAIN Duration
                   THEN spent[u] + 1 ELSE 0]
  BY DEF Tick
<1>2. spent'[t] = IF todo[t] # <<>> /\ Head(todo[t]) \in DOMAIN Duration THEN spent[t] + 1 ELSE 0
  BY <1>1
<1>3. "acquire" \notin DOMAIN Duration
  BY Durations
<1> QED
  BY <1>1, <1>2, <1>3 DEF Waits, Doing

LEMMA TickKept ==
    ASSUME UiInv, TypeOK', Tick, mode' = mode
    PROVE  UiInv'
<1>1. /\ UNCHANGED <<todo, lock, pin, active, light, released>> /\ UNCHANGED fed
      /\ Since' \in {Since, Since + 1}
      /\ TypeOK /\ Paced /\ Since \in Nat
      /\ \A t \in Threads : spent[t] \in Nat /\ spent'[t] \in Nat
  <2>1. TypeOK /\ Paced /\ Since \in Nat
    BY SinceTyped DEF UiInv
  <2>2. UNCHANGED <<todo, lock, pin, active, light, released>> /\ UNCHANGED fed
    BY DEF Tick, uiVars
  <2>3. starved' = starved + 1
    BY DEF Tick
  <2>4. Since' \in {Since, Since + 1}
    BY <2>2, <2>3 DEF Since
  <2>5. \A t \in Threads : spent[t] \in Nat /\ spent'[t] \in Nat
    BY <2>1 DEF TypeOK
  <2> QED
    BY <2>1, <2>2, <2>4, <2>5
<1>2. /\ \A t \in Threads : \A s : Doing(t, s)' <=> Doing(t, s)
      /\ "reader" \in Threads /\ "worker" \in Threads
  BY <1>1 DEF Doing, Threads
<1>3. Paced'
  <2> SUFFICES ASSUME NEW t \in Threads, spent'[t] > 0
               PROVE  \E s \in DOMAIN Duration : Doing(t, s) /\ spent'[t] <= Duration[s]
    BY <1>2 DEF Paced
  <2>1. todo[t] # <<>> /\ Head(todo[t]) \in DOMAIN Duration
    BY <1>1, TickTimes
  <2>2. spent'[t] = spent[t] + 1 /\ spent[t] < Duration[Head(todo[t])]
    BY <1>1, <2>1, TickTimes
  <2>3. Duration[Head(todo[t])] \in Nat
    BY <2>1, Durations
  <2>4. spent'[t] <= Duration[Head(todo[t])]
    BY <1>1, <2>2, <2>3
  <2> QED
    BY <2>1, <2>4 DEF Doing
<1>4. ASSUME NEW t \in Threads, todo[t] # <<>>, Head(todo[t]) \in InSignal
      PROVE  Head(todo[t]) \in DOMAIN Duration /\ spent'[t] = spent[t] + 1
  BY <1>1, <1>4, TickTimes DEF InSignal, Outputs
<1>5. \A t \in Threads : Signals(t) => Signals(t)'
  <2> SUFFICES ASSUME NEW t \in Threads, Signals(t) PROVE Signals(t)'
    OBVIOUS
  <2>1. spent'[t] = spent[t] + 1
    BY <1>4, SignalHeads
  <2>2. \A e \in Nat : InTime(t, e) => InTime(t, e)'
    BY <1>1, <1>2, <2>1, Times DEF InTime
  <2> QED
    BY <1>1, <2>2, SignalRests
<1>6. lock = "reader" => ReaderHolds'
  <2> SUFFICES ASSUME lock = "reader" PROVE ReaderHolds'
    OBVIOUS
  <2>1. ReaderHolds
    BY DEF UiInv
  <2>2. todo["reader"] # <<>> /\ Head(todo["reader"]) # "decide"
    BY <1>1, <1>2, <2>1, TickTimes, ReaderHoldsHeads, Durations
  <2>3. Signals("reader")
    BY <2>1, <2>2, ReaderHoldsHeads
  <2> QED
    BY <1>2, <1>5, <2>3 DEF ReaderHolds
<1>7. ASSUME lock = "worker"
      PROVE  Since + 1 <= Poll + Longest \/ ~Doing("reader", "acquire")
  <2>1. Signals("worker")
    BY <1>7 DEF UiInv
  <2>2. /\ Head(todo["worker"]) \in DOMAIN Duration
        /\ spent["worker"] < Duration[Head(todo["worker"])]
    BY <1>1, <1>2, <1>4, <2>1, SignalHeads, TickTimes
  <2>3. PICK e \in Nat : InTime("worker", e) /\ e + Duration[Head(todo["worker"])] <= Longest
    BY <1>2, <2>1, <2>2, SignalTimes
  <2>4. PICK d \in Nat : d = Duration[Head(todo["worker"])]
    BY <2>2, Durations
  <2> QED
    BY <1>1, <1>2, <2>2, <2>3, <2>4, Times DEF InTime
<1>8. lock # "reader" => ReaderOut'
  <2> SUFFICES ASSUME lock # "reader" PROVE ReaderOut'
    OBVIOUS
  <2>1. ReaderOut
    BY DEF UiInv
  <2>2. CASE todo["reader"] = <<>>
    BY <1>1, <2>2 DEF ReaderOut
  <2>3. CASE todo["reader"] # <<>>
    <3> DEFINE s == Head(todo["reader"])
    <3>1. Doing("reader", s)
      BY <2>3 DEF Doing
    <3>2. \/ s \in DOMAIN Duration /\ spent'["reader"] = spent["reader"] + 1
          \/ s = "acquire" /\ lock # "free"
      BY <1>1, <1>2, <2>3, TickTimes
    <3>3. s \notin {"mark", "feed"}
      BY <3>2, Durations
    <3> HIDE DEF s
    <3>4. CASE s = "acquire"
      <4>1. todo["reader"] = OnKeyRead
        BY <2>1, <3>1, <3>4, ReaderOutHeads
      <4>2. lock = "worker"
        BY <1>1, <3>2, <3>4, Durations DEF TypeOK, Threads
      <4>3. Since' <= Poll + Longest
        BY <1>1, <1>7, <3>1, <3>4, <4>2, Times
      <4> QED
        BY <1>1, <4>1, <4>3 DEF ReaderOut
    <3>5. CASE s = "init"
      <4>1. ~fed /\ \E n \in 1..Attempts : todo["reader"] = [i \in 1..n |-> "init"]
        <5>1. Doing("reader", "init")
          BY <3>1, <3>5
        <5> QED
          BY <2>1, <5>1, TryingHeads
      <4> QED
        BY <1>1, <4>1 DEF ReaderOut
    <3>6. CASE s \in {"poll", "pause"}
      <4>1. spent'["reader"] = spent["reader"] + 1
        BY <3>2, <3>6
      <4>2. \/ todo["reader"] = <<"poll">> /\ Since <= spent["reader"]
            \/ /\ todo["reader"] = <<"pause", "mark", "feed", "poll">>
               /\ Since <= Poll + 2 * Longest + spent["reader"]
        BY <2>1, <3>1, <3>6, ReaderOutHeads
      <4>3. \/ todo'["reader"] = <<"poll">> /\ Since' <= spent'["reader"]
            \/ /\ todo'["reader"] = <<"pause", "mark", "feed", "poll">>
               /\ Since' <= Poll + 2 * Longest + spent'["reader"]
        BY <1>1, <1>2, <4>1, <4>2, Times
      <4> QED
        BY <4>3 DEF ReaderOut
    <3> QED
      BY <2>1, <3>1, <3>3, <3>4, <3>5, <3>6, ReaderOutHeads
  <2> QED
    BY <2>2, <2>3
<1>9. lock # "worker" => WorkerOut'
  <2> SUFFICES ASSUME lock # "worker" PROVE WorkerOut'
    OBVIOUS
  <2>1. WorkerOut
    BY DEF UiInv
  <2>2. ~Doing("reader", "acquire")
    <3> SUFFICES ASSUME Doing("reader", "acquire") PROVE FALSE
      OBVIOUS
    <3>1. lock # "reader" /\ lock # "free"
      BY <1>1, <1>2, TickTimes, WhoHolds, Durations DEF Doing, InSignal, Outputs
    <3> QED
      BY <1>1, <3>1 DEF TypeOK, Threads
  <2> QED
    BY <1>1, <1>2, <2>1, <2>2 DEF WorkerOut
<1>10. lock = "worker" => Signals("worker")'
  BY <1>2, <1>5 DEF UiInv
<1>11. lock = "free" => Settled'
  BY <1>1 DEF UiInv, Settled
<1> QED
  BY <1>1, <1>3, <1>6, <1>8, <1>9, <1>10, <1>11 DEF UiInv

LEMMA UiStep == ASSUME UiInv, [Next]_vars PROVE UiInv'
<1>1. TypeOK /\ TypeOK'
  BY TypeStep DEF UiInv
<1>2. ASSUME NEW t \in Threads, InMode(ThreadStep(t)) PROVE UiInv'
  BY <1>1, <1>2, AcquireKept, ReleaseKept, RunKept DEF InMode, ThreadStep
<1>3. CASE InMode(ReaderStep)
  BY <1>1, <1>2, <1>3, DecideKept, LoopKept DEF InMode, ReaderStep, Threads
<1>4. CASE InMode(WorkerStep)
  BY <1>1, <1>2, <1>4, NapKept DEF InMode, WorkerStep, Threads
<1>5. CASE InMode(ReaderComesUp \/ ReaderDies)
  BY <1>1, <1>5, LoopKept DEF InMode
<1>6. ASSUME NEW a \in Actions, InMode(Command(a)) PROVE UiInv'
  BY <1>1, <1>6, CommandKept DEF InMode
<1>7. CASE InMode(LinkChanges \/ PlaceCard \/ RemoveCard)
  BY <1>1, <1>7, NobodyMoves, SinceKept DEF InMode, LinkChanges, PlaceCard, RemoveCard
<1>8. CASE InMode(Tick)
  BY <1>1, <1>8, TickKept DEF InMode
<1>9. CASE InMode(WatchdogBites \/ PowerCut)
  BY <1>1, <1>9, BootKept DEF InMode, WatchdogBites, PowerCut
<1>10. CASE UNCHANGED vars
  BY <1>1, <1>10, NobodyMoves, SinceKept DEF vars
<1> QED
  BY <1>3, <1>4, <1>5, <1>6, <1>7, <1>8, <1>9, <1>10 DEF Next, InMode

LEMMA UiInvariance == Spec => []UiInv
BY UiInit, UiStep, PTL DEF Spec

-----------------------------------------------------------------------------
(* What follows *)

\* Every variable keeps its type, for all sets of cards and all durations.
THEOREM UiTyping == Spec => []TypeOK
<1>1. UiInv => TypeOK
  BY DEF UiInv
<1> QED
  BY <1>1, UiInvariance, PTL

\* Whichever scans and commands, whatever the device's mode, and whichever power cuts and resets
\* fall between one another: nobody at the output, the pin is on exactly while the machine is
\* switched on and no success signal has ended since; an opened door's pin stays on and a denied
\* card leaves it alone to the end of the signal (reader_ui.py:28-55, prismo_main.py:51-87).
THEOREM OutputInvariance == Spec => []OutputIsRight
<1>1. UiInv => OutputIsRight
  <2> SUFFICES ASSUME UiInv PROVE OutputIsRight
    OBVIOUS
  <2>1. OutputFollows
    BY DEF OutputFollows, UiInv, Settled
  <2>2. ASSUME NEW t \in Threads, NEW s \in {"opened", "denied"}, Doing(t, s)
        PROVE  /\ s = "opened" => pin /\ light = "green"
               /\ s = "denied" => light = "red" /\ Settled
    <3>1. Signals(t)
      BY <2>2, WhoHolds DEF InSignal, Threads
    <3> QED
      BY <2>2, <3>1, SignalHeads DEF Doing
  <2>3. SignalUndisturbed
    BY <2>2 DEF SignalUndisturbed, Settled
  <2> QED
    BY <2>1, <2>3 DEF OutputIsRight
<1> QED
  BY <1>1, UiInvariance, PTL

\* Once the main loop has come round, the watchdog bites only when it has ended, if it leaves the
\* time to read a card and to wait out a trigger's signal before its own (prismo_main.py:124-128).
\* The firmware's times leave it: half a second, two signals of 5.5 s and a second are less than 20.
THEOREM WatchdogIsFed == TimesFit => (Spec => []FedInTime)
<1> SUFFICES ASSUME TimesFit PROVE Spec => []FedInTime
  OBVIOUS
<1>1. UiInv => FedInTime
  <2> SUFFICES ASSUME UiInv, todo["reader"] # <<>> PROVE Since < Watchdog
    BY Times DEF FedInTime, UiInv, TypeOK, Since
  <2> DEFINE s == Head(todo["reader"])
  <2>1. /\ Doing("reader", s) /\ Since \in Nat /\ spent["reader"] \in Nat
        /\ "reader" \in Threads
    BY SinceTyped DEF Doing, UiInv, TypeOK, Threads
  <2>2. IF s \in DOMAIN Duration THEN spent["reader"] <= Duration[s] ELSE spent["reader"] = 0
    <3>1. \A r : Doing("reader", r) => r = s
      BY DEF Doing
    <3> QED
      BY <2>1, <3>1, Durations DEF UiInv, Paced
  <2>3. Since <= Poll + 2 * Longest + Pause
    <3>1. CASE lock # "reader"
      <4>1. ReaderOut
        BY <3>1 DEF UiInv
      <4>2. CASE s = "init"
        BY <2>1, <4>1, <4>2, TryingHeads, Times DEF Since
      <4>3. CASE s \in {"poll", "pause"}
        <5>1. \/ s = "poll" /\ Since <= spent["reader"]
              \/ s = "pause" /\ Since <= Poll + 2 * Longest + spent["reader"]
          BY <2>1, <4>1, <4>3, ReaderOutHeads
        <5> QED
          BY <2>1, <2>2, <5>1, Durations, Times
      <4>4. CASE s \notin {"init", "poll", "pause"}
        <5>1. Since <= Poll + Longest \/ Since <= Poll + 2 * Longest + Pause
          BY <2>1, <4>1, <4>4, ReaderOutHeads
        <5> QED
          BY <2>1, <5>1, Times
      <4> QED
        BY <4>2, <4>3, <4>4
    <3>2. CASE lock = "reader"
      <4>1. ReaderHolds
        BY <3>2 DEF UiInv
      <4>2. CASE s = "decide"
        <5>1. Since <= Poll + Longest
          BY <2>1, <4>1, <4>2, WhoHolds
        <5> QED
          BY <2>1, <5>1, Times
      <4>3. CASE s # "decide"
        <5>1. Signals("reader")
          BY <4>1, <4>3, ReaderHoldsHeads
        <5>2. PICK e \in Nat : InTime("reader", e) /\ e + spent["reader"] <= Longest
          <6>1. CASE s \in DOMAIN Duration
            <7>1. PICK e \in Nat : InTime("reader", e) /\ e + Duration[s] <= Longest
              BY <2>1, <5>1, <6>1, SignalTimes
            <7>2. PICK d \in Nat : d = Duration[s] /\ spent["reader"] <= d
              BY <2>2, <6>1, Durations
            <7> QED
              BY <2>1, <7>1, <7>2, Times
          <6>2. CASE s \notin DOMAIN Duration
            <7>1. PICK e \in {0, Sound, Longest} : InTime("reader", e)
              BY <5>1 DEF Signals, Denies, Opens, SwitchesOn, SwitchesOff, At
            <7>2. e \in Nat /\ e <= Longest
              BY <7>1, Times
            <7>3. spent["reader"] = 0
              BY <2>2, <6>2
            <7>4. e + spent["reader"] <= Longest
              BY <7>2, <7>3
            <7> QED
              BY <7>1, <7>2, <7>4
          <6> QED
            BY <6>1, <6>2
        <5> QED
          BY <2>1, <5>2, Times DEF InTime
      <4> QED
        BY <4>2, <4>3
    <3> QED
      BY <3>1, <3>2
  <2> QED
    BY <2>1, <2>3, Times DEF TimesFit
<1> QED
  BY <1>1, UiInvariance, PTL

-----------------------------------------------------------------------------
(* One scan per visit *)

\* Nothing changes for the reader and the card.
LEMMA ScanRests ==
    ASSUME ScanInv, UNCHANGED <<mode, cardVars, heldVars>>,
           todo'["reader"] = todo["reader"], spent'["reader"] = spent["reader"]
    PROVE  ScanInv'
BY DEF ScanInv, Allowance, Doing, cardVars, heldVars

\* The reader goes on away from its poll.
LEMMA ScanGoesOn ==
    ASSUME ScanInv, UNCHANGED <<mode, cardVars, heldVars>>,
           NEW s, Doing("reader", s), s \notin {"poll", "feed"},
           \A r \in {"poll", "feed", "init"} : ~Doing("reader", r)'
    PROVE  ScanInv'
<1>1. todo["reader"] # <<>> /\ ~Doing("reader", "poll") /\ ~Doing("reader", "feed")
  BY DEF Doing
<1> QED
  BY <1>1 DEF ScanInv, cardVars, heldVars

\* With the lock, it is not at its poll.
LEMMA HoldsElsewhere ==
    ASSUME ReaderHolds'
    PROVE  \A r \in {"poll", "feed", "init"} : ~Doing("reader", r)'
<1>1. CASE Signals("reader")'
  <2>1. \E rest \in Rests : todo'["reader"] = rest \o AfterSignal["reader"]
    BY <1>1 DEF Signals, Denies, Opens, SwitchesOn, SwitchesOff, At, Rests
  <2> QED
    BY <2>1, RestHeads DEF Doing, InSignal, Outputs, Threads
<1>2. CASE todo'["reader"] = <<"decide">> \o AfterSignal["reader"]
  BY <1>2, Acquired DEF Doing
<1> QED
  BY <1>1, <1>2 DEF ReaderHolds

LEMMA ScanThread ==
    ASSUME UiInv, UiInv', ScanInv, ThreadStep("reader") \/ Decide, mode' = mode
    PROVE  ScanInv'
<1>1. UNCHANGED <<cardVars, heldVars>>
  BY DEF ThreadStep, Decide, Acquire, Release, Output, Wakes
<1>2. PICK s : Doing("reader", s) /\ s \notin {"poll", "feed"}
  BY Durations DEF ThreadStep, Decide, Acquire, Release, Output, Wakes, Outputs
<1>3. CASE lock' = "reader"
  <2>1. ReaderHolds'
    BY <1>3 DEF UiInv
  <2> QED
    BY <1>1, <1>2, <2>1, HoldsElsewhere, ScanGoesOn
<1>4. CASE lock' # "reader"
  <2>1. CASE Release("reader")
    <3>1. Doing("reader", "release") /\ todo'["reader"] = Tail(todo["reader"])
      BY <2>1 DEF Release, Goes, UiInv, TypeOK, Threads
    <3>2. todo["reader"] = AfterSignal["reader"]
      BY <3>1, WhoHolds, SignalHeads DEF InSignal, Threads, Doing
    <3>3. todo'["reader"] = <<"pause", "mark", "feed", "poll">>
      BY <3>1, <3>2, AfterRuns
    <3>4. \A r \in {"poll", "feed", "init"} : ~Doing("reader", r)'
      BY <3>3 DEF Doing
    <3> QED
      BY <1>1, <1>2, <3>4, ScanGoesOn
  <2>2. CASE ~Release("reader")
    <3>1. /\ Output("reader") \/ Wakes("reader")
          /\ lock # "reader" /\ todo'["reader"] = Tail(todo["reader"])
      BY <1>4, <2>2, WhoHolds
      DEF ThreadStep, Decide, Acquire, Output, Wakes, Goes, uiVars, UiInv, TypeOK, Threads
    <3>2. ReaderOut
      BY <3>1 DEF UiInv
    <3>3. s \in {"init", "pause"}
      <4>1. \E r : Doing("reader", r) /\ (r \in Outputs \/ r \in DOMAIN Duration \ {"poll"})
        BY <3>1 DEF Output, Wakes
      <4>2. s \in Outputs \/ s \in DOMAIN Duration \ {"poll"}
        BY <1>2, <4>1 DEF Doing
      <4>3. s \notin InSignal
        BY <1>2, <3>1, WhoHolds
      <4> QED
        BY <4>2, <4>3, Durations DEF InSignal
    <3>4. CASE s = "init"
      BY <1>1, <1>2, <3>4 DEF ScanInv, cardVars
    <3>5. CASE s = "pause"
      <4>1. todo["reader"] = <<"pause", "mark", "feed", "poll">>
        BY <1>2, <3>2, <3>5, ReaderOutHeads
      <4>2. todo'["reader"] = <<"mark", "feed", "poll">>
        BY <3>1, <4>1
      <4>3. \A r \in {"poll", "feed", "init"} : ~Doing("reader", r)'
        BY <4>2 DEF Doing
      <4> QED
        BY <1>1, <1>2, <4>3, ScanGoesOn
    <3> QED
      BY <3>3, <3>4, <3>5
  <2> QED
    BY <2>1, <2>2
<1> QED
  BY <1>3, <1>4

LEMMA ScanLoop ==
    ASSUME UiInv, ScanInv, mode' = mode,
           \/ MarkAgain \/ Feed \/ ReadsNothing \/ ReadsHeldCard \/ ReadsNewCard
           \/ ReaderComesUp \/ ReaderDies
    PROVE  ScanInv'
<1>1. /\ spent["reader"] \in Nat /\ age \in Nat /\ scanned \in Nat /\ TypeOK
      /\ "reader" \in Threads
  BY Times DEF UiInv, TypeOK, Threads
<1>2. ASSUME NEW rest, Goes("reader", rest)
      PROVE  todo'["reader"] = rest /\ spent'["reader"] = 0
  BY <1>1, <1>2 DEF Goes, TypeOK
<1>3. /\ Allowance \in {0, Poll} /\ (missed => Allowance = Poll) /\ (~missed => Allowance = 0)
  BY DEF Allowance
<1>4. Doing("reader", "poll") => spent["reader"] <= Poll
  <2> SUFFICES ASSUME Doing("reader", "poll"), spent["reader"] > 0
               PROVE  spent["reader"] <= Poll
    BY <1>1, Times
  <2>1. PICK s \in DOMAIN Duration : Doing("reader", s) /\ spent["reader"] <= Duration[s]
    BY <1>1 DEF UiInv, Paced
  <2>2. s = "poll"
    BY <2>1 DEF Doing
  <2> QED
    BY <2>1, <2>2, Durations
<1>5. CASE MarkAgain
  <2>1. /\ Doing("reader", "mark") /\ Goes("reader", Tail(todo["reader"]))
        /\ heldUid' = heldUid /\ age' = 0 /\ UNCHANGED <<card, missed, scanned>>
    BY <1>5 DEF MarkAgain, Mark, cardVars
  <2>2. ReaderOut
    BY <2>1, WhoHolds DEF InSignal, Outputs
  <2>3. todo["reader"] = <<"mark", "feed", "poll">>
    BY <2>1, <2>2, ReaderOutHeads
  <2>4. todo'["reader"] = <<"feed", "poll">>
    BY <1>2, <2>1, <2>3
  <2>5. Allowance' \in {0, Poll}
    BY DEF Allowance
  <2>6. Doing("reader", "feed")' /\ ~Doing("reader", "poll")' /\ ~Doing("reader", "init")'
    BY <2>4 DEF Doing
  <2> QED
    BY <2>1, <2>5, <2>6, Times DEF ScanInv
<1>6. CASE Feed
  <2>1. /\ Doing("reader", "feed") /\ Goes("reader", Tail(todo["reader"]))
        /\ UNCHANGED <<heldUid, age, card, missed, scanned>>
    BY <1>6 DEF Feed, cardVars, heldVars
  <2>2. ReaderOut
    BY <2>1, WhoHolds DEF InSignal, Outputs
  <2>3. todo["reader"] = <<"feed", "poll">>
    BY <2>1, <2>2, ReaderOutHeads
  <2>4. todo'["reader"] = <<"poll">> /\ spent'["reader"] = 0
    BY <1>2, <2>1, <2>3
  <2>5. Doing("reader", "poll")' /\ ~Doing("reader", "feed")' /\ ~Doing("reader", "init")'
    BY <2>4 DEF Doing
  <2>6. Allowance' = Allowance
    BY <2>1 DEF Allowance
  <2> QED
    BY <1>1, <1>3, <2>1, <2>4, <2>5, <2>6, Times DEF ScanInv
<1>7. CASE ReadsNothing
  <2>1. /\ Doing("reader", "poll") /\ spent["reader"] = Poll /\ (card # NoCard => ~missed)
        /\ missed' = (card # NoCard) /\ Goes("reader", <<"feed", "poll">>)
        /\ UNCHANGED <<heldUid, age, card, scanned>>
    BY <1>7 DEF ReadsNothing, heldVars
  <2>2. todo'["reader"] = <<"feed", "poll">>
    BY <1>2, <2>1
  <2>3. Doing("reader", "feed")' /\ ~Doing("reader", "poll")' /\ ~Doing("reader", "init")'
    BY <2>2 DEF Doing
  <2>4. card # NoCard => Allowance = 0 /\ Allowance' = Poll
    BY <2>1 DEF Allowance
  <2> QED
    BY <1>1, <2>1, <2>3, <2>4, Times DEF ScanInv
<1>8. CASE ReadsHeldCard
  <2>1. /\ card # NoCard /\ missed' = FALSE /\ heldUid' = card /\ age' = 0
        /\ Goes("reader", <<"feed", "poll">>) /\ UNCHANGED <<card, scanned>>
    BY <1>8 DEF ReadsHeldCard, ReadsCard, Held, Mark
  <2>2. todo'["reader"] = <<"feed", "poll">>
    BY <1>2, <2>1
  <2>3. Doing("reader", "feed")' /\ ~Doing("reader", "poll")' /\ ~Doing("reader", "init")'
    BY <2>2 DEF Doing
  <2>4. Allowance' = 0
    BY <2>1 DEF Allowance
  <2> QED
    BY <2>1, <2>3, <2>4 DEF ScanInv
<1>9. CASE ReadsNewCard
  <2>1. /\ Doing("reader", "poll") /\ card # NoCard /\ ~missed' /\ card' = card /\ ~Held
        /\ mode = "machine" => heldUid' = card
        /\ scanned' = IF scanned < 2 THEN scanned + 1 ELSE scanned
        /\ Goes("reader", OnKeyRead)
    BY <1>9 DEF ReadsNewCard, ReadsCard, Mark
  <2>2. todo'["reader"] = OnKeyRead
    BY <1>2, <2>1
  <2>3. ~Doing("reader", "feed")' /\ ~Doing("reader", "poll")' /\ ~Doing("reader", "init")'
    BY <2>2, Acquired DEF Doing
  <2>4. ASSUME mode = "machine" PROVE scanned = 0
    <3> SUFFICES ASSUME scanned > 0 PROVE FALSE
      BY <1>1
    <3>1. card = heldUid /\ age <= spent["reader"] + Allowance
      BY <2>1, <2>4 DEF ScanInv
    <3>2. age < Gap
      BY <1>1, <1>3, <1>4, <2>1, <3>1, Times
    <3> QED
      BY <2>1, <2>4, <3>1, <3>2 DEF Held, IsCardHeld
  <2> QED
    BY <2>1, <2>3, <2>4 DEF ScanInv
<1>10. CASE ReaderComesUp
  <2>1. Doing("reader", "init") /\ Goes("reader", <<"poll">>) /\ scanned' = scanned
    BY <1>10 DEF ReaderComesUp, cardVars
  <2> QED
    BY <2>1 DEF ScanInv
<1>11. CASE ReaderDies
  <2>1. Goes("reader", <<>>) /\ UNCHANGED <<heldUid, age, card, missed, scanned>>
    BY <1>11 DEF ReaderDies, cardVars, heldVars
  <2>2. todo'["reader"] = <<>>
    BY <1>2, <2>1
  <2> QED
    BY <2>1, <2>2 DEF ScanInv, Doing
<1> QED
  BY <1>5, <1>6, <1>7, <1>8, <1>9, <1>10, <1>11

LEMMA ScanTick ==
    ASSUME UiInv, ScanInv, Tick, mode' = mode
    PROVE  ScanInv'
<1>1. /\ UNCHANGED <<todo, heldUid, card, missed, scanned>> /\ TypeOK
      /\ age \in Nat /\ age' <= age + 1 /\ age' \in Nat /\ spent["reader"] \in Nat
      /\ "reader" \in Threads
  BY Times DEF Tick, cardVars, UiInv, TypeOK, Threads
<1>2. ~Doing("reader", "feed")
  BY <1>1, TickTimes, Durations DEF Doing
<1>3. Doing("reader", "poll") => spent'["reader"] = spent["reader"] + 1
  BY <1>1, TickTimes, Durations DEF Doing
<1>4. \A s : Doing("reader", s)' <=> Doing("reader", s)
  BY <1>1 DEF Doing
<1>5. Allowance' = Allowance /\ Allowance \in Nat
  BY <1>1, Times DEF Allowance
<1>6. Doing("reader", "poll") /\ age <= spent["reader"] + Allowance
         => age' <= spent'["reader"] + Allowance
  BY <1>1, <1>3, <1>5
<1> QED
  BY <1>1, <1>2, <1>4, <1>5, <1>6 DEF ScanInv

LEMMA ScanStep == ASSUME UiInv, UiInv', ScanInv, [Next]_vars PROVE ScanInv'
<1>1. TypeOK
  BY DEF UiInv
<1>2. CASE InMode(ReaderStep \/ ReaderComesUp \/ ReaderDies)
  BY <1>2, ScanThread, ScanLoop DEF InMode, ReaderStep
<1>3. CASE InMode(WorkerStep) \/ \E a \in Actions : InMode(Command(a))
  <2>1. /\ UNCHANGED <<mode, cardVars, heldVars>> /\ \E rest : Goes("worker", rest)
    BY <1>3
    DEF InMode, WorkerStep, ThreadStep, Acquire, Release, Output, Wakes, Nap, Command
  <2>2. todo'["reader"] = todo["reader"] /\ spent'["reader"] = spent["reader"]
    BY <1>1, <2>1 DEF Goes, TypeOK, Threads
  <2> QED
    BY <2>1, <2>2, ScanRests
<1>4. CASE InMode(LinkChanges) \/ UNCHANGED vars
  BY <1>4, ScanRests DEF InMode, LinkChanges, vars
<1>5. CASE InMode(PlaceCard \/ RemoveCard \/ WatchdogBites \/ PowerCut)
  BY <1>5 DEF InMode, PlaceCard, RemoveCard, WatchdogBites, PowerCut, Booted, ScanInv
<1>6. CASE InMode(Tick)
  BY <1>6, ScanTick DEF InMode
<1> QED
  BY <1>2, <1>3, <1>4, <1>5, <1>6 DEF Next, InMode

\* A card left on a machine's reader is one scan, one missed poll notwithstanding, however long
\* signals and waiting for the lock take (prismo_main.py:24-51).
THEOREM OneScan == Spec => []OneScanPerVisit
<1>1. Init => ScanInv
  BY DEF Init, ScanInv
<1>2. ScanInv /\ UiInv /\ UiInv' /\ [Next]_vars => ScanInv'
  BY ScanStep
<1>3. UiInv /\ ScanInv => OneScanPerVisit
  BY DEF UiInv, TypeOK, ScanInv, OneScanPerVisit
<1> QED
  BY <1>1, <1>2, <1>3, UiInvariance, PTL DEF Spec
=============================================================================
