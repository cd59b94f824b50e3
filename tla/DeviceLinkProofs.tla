--------------------------- MODULE DeviceLinkProofs ---------------------------
(***************************************************************************)
(* Proofs about DeviceLink: its typing, the order of the scans, the        *)
(* backoff, and that nothing leaves the queue of an offline device, for    *)
(* every capacity, batch size, cap of the backoff and number of faults.    *)
(***************************************************************************)
EXTENDS DeviceLink, SequenceTheorems, TLAPS

(* The worker's steps by what they touch. *)

\* maintain() moves no scan.
LEMMA MaintainView ==
    ASSUME Maintain
    PROVE  /\ pc = "maintain" /\ pc' = "flush"
           /\ budget' = IF linked' THEN FlushBatch ELSE 0
           /\ UNCHANGED <<netVars, holding, scanVars>>
BY DEF Maintain, LosesWifi, FindsLinkUp, FindsLinkDead, AwaitsWifi, BacksOff, Reconnects,
       AttemptFails, EnterFlush

\* What it makes of the flags.
LEMMA MaintainFlags ==
    ASSUME TypeOK, Maintain
    PROVE  alive' \in BOOLEAN /\ linked' \in BOOLEAN /\ online' \in BOOLEAN
<1>1. alive \in BOOLEAN /\ linked \in BOOLEAN /\ online \in BOOLEAN
  BY DEF TypeOK
<1> QED
  BY <1>1 DEF Maintain, LosesWifi, FindsLinkUp, FindsLinkDead, AwaitsWifi, BacksOff, Reconnects,
              AttemptFails, Lose, linkVars

\* What it makes of the timers.
LEMMA MaintainTimers ==
    ASSUME wait \in 0..BackoffCap, backoff \in 1..BackoffCap, Maintain
    PROVE  /\ wait' \in 0..BackoffCap /\ backoff' \in 1..BackoffCap
           /\ BackoffFresh => BackoffFresh'
<1> USE LinkAssumption DEF BackoffFresh, linkVars
<1>1. CASE LosesWifi \/ FindsLinkDead
  BY <1>1 DEF LosesWifi, FindsLinkDead, Lose
<1>2. CASE FindsLinkUp \/ BacksOff
  BY <1>2 DEF FindsLinkUp, BacksOff
<1>3. CASE AwaitsWifi \/ Reconnects
  BY <1>3 DEF AwaitsWifi, Reconnects
<1>4. CASE AttemptFails
  <2>1. wait' = backoff /\ ~linked'
    BY <1>4 DEF AttemptFails
  <2>2. backoff' = BackoffCap \/ (backoff' = 2 * backoff /\ 2 * backoff <= BackoffCap)
    BY <1>4 DEF AttemptFails
  <2> QED
    BY <2>1, <2>2
<1> QED
  BY <1>1, <1>2, <1>3, <1>4 DEF Maintain

-----------------------------------------------------------------------------
(* Typing *)

LEMMA TypeInit == Init => TypeOK
BY LinkAssumption DEF Init, TypeOK

\* The flags and the numbers apart: a leaf deals with one or the other.
Flags ==
    /\ wifi \in BOOLEAN /\ broker \in BOOLEAN
    /\ alive \in BOOLEAN /\ linked \in BOOLEAN /\ online \in BOOLEAN

LEMMA FlagsStep == TypeOK /\ [Next]_vars => Flags'
<1> SUFFICES ASSUME TypeOK, [Next]_vars PROVE Flags'
  OBVIOUS
<1>0. Flags
  BY DEF Flags, TypeOK
<1> USE DEF Flags, vars, netVars, linkVars
<1>1. CASE Maintain
  BY <1>0, <1>1, MaintainView, MaintainFlags
<1>2. CASE Scan \/ Flush \/ PublishFails \/ Tick \/ UNCHANGED vars
  BY <1>0, <1>2 DEF Scan, Flush, Pop, EndFlush, PublishScan, PublishFails, Tick
<1>3. CASE WifiDrops \/ BrokerStops \/ LinkDies \/ WifiReturns \/ BrokerReturns \/ Reboot
  BY <1>0, <1>3 DEF WifiDrops, BrokerStops, LinkDies, WifiReturns, BrokerReturns, Reboot, Booted
<1> QED
  BY <1>1, <1>2, <1>3 DEF Next

Numbers ==
    /\ faults \in 0..MaxFaults
    /\ wait \in 0..BackoffCap /\ backoff \in 1..BackoffCap
    /\ budget \in 0..FlushBatch
    /\ holding \in 0..MaxScans
    /\ scans \in 0..MaxScans
    /\ pc \in {"maintain", "flush", "publish"}
    /\ queue \in Seq(1..MaxScans)
    /\ delivered \in Seq(1..MaxScans)

\* put: with room the scan goes behind the others, else the first one leaves.
LEMMA PutView ==
    ASSUME Numbers, Scan
    PROVE  /\ queue' \in Seq(1..MaxScans)
           /\ \/ /\ Len(queue) + 1 <= Cap
                 /\ Len(queue') = Len(queue) + 1
                 /\ \A i \in 1..Len(queue) : queue'[i] = queue[i]
                 /\ queue'[Len(queue) + 1] = scans + 1
              \/ /\ Len(queue) + 1 > Cap
                 /\ Len(queue') = Len(queue)
                 /\ \A i \in 1..(Len(queue) - 1) : queue'[i] = queue[i + 1]
                 /\ queue'[Len(queue)] = scans + 1
<1> DEFINE items == Append(queue, scans + 1)
<1>1. queue \in Seq(1..MaxScans) /\ scans + 1 \in 1..MaxScans /\ Len(queue) \in Nat
  BY LinkAssumption DEF Scan, Numbers
<1>2. /\ items \in Seq(1..MaxScans) /\ items # <<>> /\ Len(items) = Len(queue) + 1
      /\ \A i \in 1..Len(queue) : items[i] = queue[i]
      /\ items[Len(queue) + 1] = scans + 1
  BY <1>1, AppendProperties
<1>3. queue' = IF Len(items) > Cap THEN Tail(items) ELSE items
  BY DEF Scan
<1> HIDE DEF items
<1>4. CASE Len(items) > Cap
  <2>1. /\ Tail(items) \in Seq(1..MaxScans) /\ Len(Tail(items)) = Len(items) - 1
        /\ \A i \in 1..Len(Tail(items)) : Tail(items)[i] = items[i + 1]
    BY <1>2, HeadTailProperties
  <2>2. queue' = Tail(items) /\ Len(queue') = Len(queue)
    BY <1>1, <1>2, <1>3, <1>4, <2>1
  <2>3. \A i \in 1..Len(queue) : queue'[i] = items[i + 1]
    BY <2>1, <2>2
  <2>4. \A i \in 1..(Len(queue) - 1) : queue'[i] = queue[i + 1]
    BY <1>1, <1>2, <2>3
  <2>5. Len(queue) >= 1
    BY <1>1, <1>2, <1>4, LinkAssumption
  <2>6. queue'[Len(queue)] = scans + 1
    BY <1>1, <1>2, <2>3, <2>5
  <2> QED
    BY <1>2, <1>4, <2>1, <2>2, <2>4, <2>6
<1>5. CASE ~(Len(items) > Cap)
  BY <1>1, <1>2, <1>3, <1>5, LinkAssumption
<1> QED
  BY <1>4, <1>5

\* pop: the first scan is held, the others move up.
LEMMA PopView ==
    ASSUME Numbers, Pop
    PROVE  /\ queue' \in Seq(1..MaxScans)
           /\ Len(queue) \in Nat \ {0} /\ Len(queue') = Len(queue) - 1
           /\ holding' = queue[1] /\ holding' \in 1..MaxScans
           /\ \A i \in 1..(Len(queue) - 1) : queue'[i] = queue[i + 1]
<1>1. queue \in Seq(1..MaxScans) /\ queue # <<>>
  BY DEF Pop, Numbers
<1>2. holding' = Head(queue) /\ queue' = Tail(queue)
  BY DEF Pop
<1>3. Len(queue) \in Nat \ {0} /\ Head(queue) = queue[1]
  BY <1>1
<1> QED
  BY <1>1, <1>2, <1>3, HeadTailProperties

\* Typing needs that a scan is held whenever one is published.
LEMMA NumbersStep ==
    ASSUME Numbers, pc = "publish" => holding # 0, [Next]_vars
    PROVE  Numbers'
<1> USE LinkAssumption DEF vars, netVars, linkVars, loopVars, scanVars
<1>1. CASE Scan
  BY <1>1, PutView DEF Scan, Numbers
<1>2. CASE Maintain
  <2>1. budget' \in 0..FlushBatch
    BY <1>2, MaintainView
  <2>2. wait' \in 0..BackoffCap /\ backoff' \in 1..BackoffCap
    BY <1>2, MaintainTimers DEF Numbers
  <2> QED
    BY <1>2, <2>1, <2>2, MaintainView DEF Numbers
<1>3. CASE Pop
  BY <1>3, PopView DEF Pop, Numbers
<1>4. CASE PublishScan
  <2>1. holding \in 1..MaxScans /\ delivered \in Seq(1..MaxScans)
    BY <1>4 DEF PublishScan, Numbers
  <2>2. delivered' = delivered \/ delivered' = Append(delivered, holding)
    BY <1>4 DEF PublishScan
  <2>3. delivered' \in Seq(1..MaxScans)
    BY <2>1, <2>2
  <2> QED
    BY <1>4, <2>3 DEF PublishScan, Numbers
<1>5. CASE EndFlush \/ PublishFails
  BY <1>5 DEF EndFlush, PublishFails, Numbers
<1>6. CASE Tick
  BY <1>6 DEF Tick, Numbers
<1>7. CASE WifiDrops \/ BrokerStops \/ LinkDies
  BY <1>7 DEF WifiDrops, BrokerStops, LinkDies, Fault, Numbers
<1>8. CASE WifiReturns \/ BrokerReturns \/ UNCHANGED vars
  BY <1>8 DEF WifiReturns, BrokerReturns, Numbers
<1>9. CASE Reboot
  BY <1>9 DEF Reboot, Booted, Fault, Numbers
<1> QED
  BY <1>1, <1>2, <1>3, <1>4, <1>5, <1>6, <1>7, <1>8, <1>9 DEF Next, Flush

LEMMA TypeStep ==
    ASSUME TypeOK, pc = "publish" => holding # 0, [Next]_vars
    PROVE  TypeOK'
<1>1. TypeOK <=> Flags /\ Numbers
  BY DEF TypeOK, Flags, Numbers
<1>2. Flags'
  BY FlagsStep
<1>3. Numbers'
  BY <1>1, NumbersStep
<1> QED
  BY <1>2, <1>3 DEF TypeOK, Flags, Numbers

-----------------------------------------------------------------------------
(* The scans *)

\* Steps that leave the scans and the worker's hold on one alone.
LEMMA StillView ==
    ASSUME [Next]_vars, ~Scan, ~Pop, ~PublishScan, ~PublishFails, ~Reboot
    PROVE  UNCHANGED <<queue, scans, delivered, holding>>
<1> USE DEF vars, loopVars, scanVars
<1>1. CASE Maintain
  BY <1>1, MaintainView
<1>2. CASE EndFlush \/ Tick \/ UNCHANGED vars
  BY <1>2 DEF EndFlush, Tick
<1>3. CASE WifiDrops \/ BrokerStops \/ LinkDies \/ WifiReturns \/ BrokerReturns
  BY <1>3 DEF WifiDrops, BrokerStops, LinkDies, WifiReturns, BrokerReturns
<1> QED
  BY <1>1, <1>2, <1>3 DEF Next, Flush

LEMMA QueueStep == IInv /\ [Next]_vars => QueueIsNewest'
<1> SUFFICES ASSUME IInv, [Next]_vars PROVE QueueIsNewest'
  OBVIOUS
<1>1. Numbers /\ QueueIsNewest
  BY DEF IInv, TypeOK, Numbers
<1>2. Len(queue) \in Nat /\ scans \in Nat
  BY <1>1, LinkAssumption DEF Numbers
<1>3. CASE Scan
  <2>1. scans' = scans + 1
    BY <1>3 DEF Scan
  <2>2. /\ Len(queue) <= Cap /\ Len(queue) <= scans
        /\ \A i \in 1..Len(queue) : queue[i] = scans - Len(queue) + i
    BY <1>1 DEF QueueIsNewest
  <2>3. CASE /\ Len(queue) + 1 <= Cap
             /\ Len(queue') = Len(queue) + 1
             /\ \A i \in 1..Len(queue) : queue'[i] = queue[i]
             /\ queue'[Len(queue) + 1] = scans + 1
    <3>1. ASSUME NEW i \in 1..Len(queue') PROVE queue'[i] = scans' - Len(queue') + i
      <4>1. i \in 1..Len(queue) \/ i = Len(queue) + 1
        BY <1>2, <2>3
      <4> QED
        BY <1>2, <2>1, <2>2, <2>3, <4>1
    <3> QED
      BY <1>2, <2>1, <2>2, <2>3, <3>1 DEF QueueIsNewest
  <2>4. CASE /\ Len(queue) + 1 > Cap
             /\ Len(queue') = Len(queue)
             /\ \A i \in 1..(Len(queue) - 1) : queue'[i] = queue[i + 1]
             /\ queue'[Len(queue)] = scans + 1
    <3>1. ASSUME NEW i \in 1..Len(queue') PROVE queue'[i] = scans' - Len(queue') + i
      <4>1. (i \in 1..(Len(queue) - 1) /\ i + 1 \in 1..Len(queue)) \/ i = Len(queue)
        BY <1>2, <2>4
      <4>2. CASE i \in 1..(Len(queue) - 1) /\ i + 1 \in 1..Len(queue)
        <5>1. queue'[i] = queue[i + 1]
          BY <2>4, <4>2
        <5>2. queue[i + 1] = scans - Len(queue) + (i + 1)
          BY <2>2, <4>2
        <5> QED
          BY <1>2, <2>1, <2>4, <4>2, <5>1, <5>2
      <4>3. CASE i = Len(queue)
        BY <1>2, <2>1, <2>4, <4>3
      <4> QED
        BY <4>1, <4>2, <4>3
    <3> QED
      BY <1>2, <2>1, <2>2, <2>4, <3>1 DEF QueueIsNewest
  <2> QED
    BY <1>1, <1>3, <2>3, <2>4, PutView
<1>4. CASE Pop
  <2>1. scans' = scans
    BY <1>4 DEF Pop
  <2>2. /\ Len(queue) <= Cap /\ Len(queue) <= scans
        /\ \A i \in 1..Len(queue) : queue[i] = scans - Len(queue) + i
    BY <1>1 DEF QueueIsNewest
  <2>3. /\ Len(queue') = Len(queue) - 1
        /\ \A i \in 1..(Len(queue) - 1) : queue'[i] = queue[i + 1]
    BY <1>1, <1>4, PopView
  <2>4. ASSUME NEW i \in 1..Len(queue') PROVE queue'[i] = scans' - Len(queue') + i
    <3>1. i \in 1..(Len(queue) - 1) /\ i + 1 \in 1..Len(queue)
      BY <1>2, <2>3
    <3> QED
      BY <1>2, <2>1, <2>2, <2>3, <3>1
  <2> QED
    BY <1>2, <2>1, <2>2, <2>3, <2>4, LinkAssumption DEF QueueIsNewest
<1>5. CASE PublishScan \/ PublishFails
  <2>1. queue' = queue /\ scans' = scans
    BY <1>5 DEF PublishScan, PublishFails, scanVars
  <2> QED
    BY <1>1, <2>1 DEF QueueIsNewest
<1>6. CASE Reboot
  <2>1. queue' = <<>> /\ scans' = scans
    BY <1>6 DEF Reboot, Booted
  <2>2. Len(queue') = 0
    BY <2>1
  <2> QED
    BY <1>2, <2>1, <2>2, LinkAssumption DEF QueueIsNewest
<1>7. CASE ~Scan /\ ~Pop /\ ~PublishScan /\ ~PublishFails /\ ~Reboot
  BY <1>1, <1>7, StillView DEF QueueIsNewest
<1> QED
  BY <1>3, <1>4, <1>5, <1>6, <1>7

\* The scans that have left the queue are those numbered up to scans - Len(queue):
\* delivered ones come in order below it, the held one last.
Ordered ==
    /\ InOrderOnce
    /\ holding <= scans - Len(queue)
    /\ \A i \in 1..Len(delivered) :
          /\ delivered[i] <= scans - Len(queue)
          /\ holding # 0 => delivered[i] < holding

LEMMA OrderStep == IInv /\ [Next]_vars => Ordered'
<1> SUFFICES ASSUME IInv, [Next]_vars PROVE Ordered'
  OBVIOUS
<1>1. Numbers /\ QueueIsNewest /\ Ordered
  BY DEF IInv, TypeOK, Numbers, Ordered
<1>2. /\ Len(queue) \in Nat /\ scans \in Nat /\ holding \in Nat /\ Len(delivered) \in Nat
      /\ \A i \in 1..Len(delivered) : delivered[i] \in Nat
  BY <1>1, LinkAssumption DEF Numbers
<1>3. CASE Scan
  <2>1. scans' = scans + 1 /\ holding' = holding /\ delivered' = delivered
    BY <1>3 DEF Scan, loopVars
  <2>2. Len(queue') \in Nat /\ Len(queue') <= Len(queue) + 1
    BY <1>1, <1>2, <1>3, PutView
  <2>3. scans' - Len(queue') >= scans - Len(queue)
    BY <1>2, <2>1, <2>2
  <2> QED
    BY <1>1, <1>2, <2>1, <2>2, <2>3 DEF Ordered, InOrderOnce
<1>4. CASE Pop
  <2>1. scans' = scans /\ delivered' = delivered
    BY <1>4 DEF Pop
  <2>2. Len(queue) >= 1 /\ Len(queue') = Len(queue) - 1 /\ holding' = queue[1]
    BY <1>1, <1>4, PopView
  <2>3. holding' = scans - Len(queue) + 1
    BY <1>1, <1>2, <2>2 DEF QueueIsNewest
  <2> QED
    BY <1>1, <1>2, <2>1, <2>2, <2>3 DEF Ordered, InOrderOnce
<1>5. CASE PublishScan
  <2>1. queue' = queue /\ scans' = scans /\ holding' = 0 /\ holding # 0
    BY <1>5 DEF PublishScan, IInv
  <2>2. CASE delivered' = delivered
    BY <1>1, <1>2, <2>1, <2>2 DEF Ordered, InOrderOnce
  <2>3. CASE delivered' = Append(delivered, holding)
    <3>1. delivered \in Seq(1..MaxScans) /\ holding \in 1..MaxScans
      BY <1>1, <2>1 DEF Numbers
    <3>2. /\ Len(delivered') = Len(delivered) + 1
          /\ \A i \in 1..Len(delivered) : delivered'[i] = delivered[i]
          /\ delivered'[Len(delivered) + 1] = holding
      BY <2>3, <3>1, AppendProperties
    <3>3. \A i \in 1..Len(delivered') : delivered'[i] <= scans - Len(queue)
      BY <1>1, <1>2, <3>2 DEF Ordered
    <3>4. ASSUME NEW i \in 1..Len(delivered'), NEW j \in 1..Len(delivered'), i < j
          PROVE  delivered'[i] < delivered'[j]
      <4>1. i \in 1..Len(delivered) /\ (j \in 1..Len(delivered) \/ j = Len(delivered) + 1)
        BY <1>2, <3>2, <3>4
      <4>2. CASE j \in 1..Len(delivered)
        BY <1>1, <3>2, <3>4, <4>1, <4>2 DEF Ordered, InOrderOnce
      <4>3. CASE j = Len(delivered) + 1
        BY <1>1, <2>1, <3>2, <4>1, <4>3 DEF Ordered
      <4> QED
        BY <4>1, <4>2, <4>3
    <3> QED
      BY <1>1, <1>2, <2>1, <3>3, <3>4 DEF Ordered, InOrderOnce
  <2> QED
    BY <1>5, <2>2, <2>3 DEF PublishScan
<1>6. CASE PublishFails
  <2>1. queue' = queue /\ scans' = scans /\ holding' = 0 /\ delivered' = delivered
    BY <1>6 DEF PublishFails, scanVars
  <2> QED
    BY <1>1, <1>2, <2>1 DEF Ordered, InOrderOnce
<1>7. CASE Reboot
  <2>1. queue' = <<>> /\ scans' = scans /\ holding' = 0 /\ delivered' = delivered
    BY <1>7 DEF Reboot, Booted
  <2>2. Len(queue') = 0
    BY <2>1
  <2> QED
    BY <1>1, <1>2, <2>1, <2>2 DEF Ordered, InOrderOnce
<1>8. CASE ~Scan /\ ~Pop /\ ~PublishScan /\ ~PublishFails /\ ~Reboot
  BY <1>1, <1>8, StillView DEF Ordered, InOrderOnce
<1> QED
  BY <1>3, <1>4, <1>5, <1>6, <1>7, <1>8

-----------------------------------------------------------------------------
(* The worker and its connection *)

\* A scan is held exactly while it is published, and the flush loop only runs on a
\* connection that was held when it began.
InLoop ==
    /\ (pc = "publish") <=> (holding # 0)
    /\ (pc = "publish" \/ budget > 0) => linked
    /\ (pc = "maintain") => budget = 0

LEMMA LoopStep == IInv /\ [Next]_vars => InLoop'
<1> SUFFICES ASSUME IInv, [Next]_vars PROVE InLoop'
  OBVIOUS
<1>1. Numbers /\ InLoop
  BY DEF IInv, TypeOK, Numbers, InLoop
<1> USE DEF InLoop, vars, netVars, linkVars, loopVars, scanVars
<1>2. CASE Maintain
  BY <1>1, <1>2, MaintainView, LinkAssumption
<1>3. CASE Pop
  <2>1. holding' # 0
    BY <1>1, <1>3, PopView
  <2> QED
    BY <1>1, <1>3, <2>1 DEF Pop
<1>4. CASE EndFlush \/ PublishScan \/ PublishFails
  BY <1>1, <1>4 DEF EndFlush, PublishScan, PublishFails
<1>5. CASE Scan \/ Tick \/ UNCHANGED vars
  BY <1>1, <1>5 DEF Scan, Tick
<1>6. CASE WifiDrops \/ BrokerStops \/ LinkDies \/ WifiReturns \/ BrokerReturns
  BY <1>1, <1>6 DEF WifiDrops, BrokerStops, LinkDies, WifiReturns, BrokerReturns
<1>7. CASE Reboot
  BY <1>7 DEF Reboot, Booted
<1> QED
  BY <1>2, <1>3, <1>4, <1>5, <1>6, <1>7 DEF Next, Flush

LEMMA BackoffStep == IInv /\ [Next]_vars => BackoffFresh'
<1> SUFFICES ASSUME IInv, [Next]_vars PROVE BackoffFresh'
  OBVIOUS
<1>1. BackoffFresh /\ wait \in 0..BackoffCap /\ backoff \in 1..BackoffCap
  BY DEF IInv, TypeOK
<1> USE DEF vars, linkVars
<1>2. CASE Maintain
  BY <1>1, <1>2, MaintainTimers
<1>3. CASE Tick
  BY <1>1, <1>3, LinkAssumption DEF Tick, BackoffFresh
<1>4. CASE PublishFails
  BY <1>1, <1>4 DEF PublishFails, BackoffFresh
<1>5. CASE Scan \/ Flush \/ UNCHANGED vars
  BY <1>1, <1>5 DEF Scan, Flush, Pop, EndFlush, PublishScan, BackoffFresh
<1>6. CASE WifiDrops \/ BrokerStops \/ LinkDies \/ WifiReturns \/ BrokerReturns
  BY <1>1, <1>6 DEF WifiDrops, BrokerStops, LinkDies, WifiReturns, BrokerReturns, BackoffFresh
<1>7. CASE Reboot
  BY <1>7, LinkAssumption DEF Reboot, Booted, BackoffFresh
<1> QED
  BY <1>2, <1>3, <1>4, <1>5, <1>6, <1>7 DEF Next

-----------------------------------------------------------------------------
(* The theorems *)

LEMMA InvInit == Init => IInv
<1> SUFFICES ASSUME Init PROVE IInv
  OBVIOUS
<1>1. /\ queue = <<>> /\ delivered = <<>> /\ scans = 0 /\ holding = 0
      /\ Len(queue) = 0 /\ Len(delivered) = 0
  BY DEF Init
<1>2. Numbers
  BY <1>1, LinkAssumption DEF Init, Numbers
<1>3. Flags
  BY DEF Init, Flags
<1>4. QueueIsNewest /\ Ordered
  BY <1>1, LinkAssumption DEF QueueIsNewest, Ordered, InOrderOnce
<1>5. BackoffFresh
  BY LinkAssumption DEF Init, BackoffFresh
<1>6. InLoop
  BY DEF Init, InLoop
<1> QED
  BY <1>2, <1>3, <1>4, <1>5, <1>6 DEF IInv, TypeOK, Flags, Numbers, Ordered, InLoop

LEMMA InvStep == IInv /\ [Next]_vars => IInv'
<1> SUFFICES ASSUME IInv, [Next]_vars PROVE IInv'
  OBVIOUS
<1>1. TypeOK'
  BY TypeStep DEF IInv
<1>2. QueueIsNewest' /\ Ordered' /\ InLoop' /\ BackoffFresh'
  BY QueueStep, OrderStep, LoopStep, BackoffStep
<1> QED
  BY <1>1, <1>2 DEF IInv, Ordered, InLoop

\* The variables keep their types in every reachable state, for every capacity and
\* however many scans and faults there are.
THEOREM LinkTyping == Spec => []TypeOK
<1>1. IInv => TypeOK
  BY DEF IInv
<1> QED
  BY <1>1, InvInit, InvStep, PTL DEF Spec

\* The queue always holds the newest scans without a gap: what ScanQueue drops when
\* it is full is the oldest scan, whenever the worker pops.
THEOREM NewestQueued == Spec => []QueueIsNewest
<1>1. IInv => QueueIsNewest
  BY DEF IInv
<1> QED
  BY <1>1, InvInit, InvStep, PTL DEF Spec

\* The broker receives each scan at most once and in the order of reading.
THEOREM QueueAndBrokerInOrder == Spec => []ScansInOrder
<1>1. IInv => ScansInOrder
  BY DEF IInv, ScansInOrder
<1> QED
  BY <1>1, InvInit, InvStep, PTL DEF Spec

\* Every outage begins with the shortest wait between two attempts and none exceeds
\* the cap, whatever length the caps have.
THEOREM ShortestWaitFirst == Spec => []BackoffFresh
<1>1. IInv => BackoffFresh
  BY DEF IInv
<1> QED
  BY <1>1, InvInit, InvStep, PTL DEF Spec

\* A step that takes a scan from the queue of an offline device is a reboot: the
\* flush loop never pops without a connection.
LEMMA OfflineStep ==
    ASSUME IInv, [Next]_vars, ~linked, Len(queue') < Len(queue)
    PROVE  faults' # faults
<1>1. Numbers /\ InLoop
  BY DEF IInv, TypeOK, Numbers, InLoop
<1>2. Len(queue) \in Nat
  BY <1>1 DEF Numbers
<1>3. ~Pop
  BY <1>1 DEF Pop, InLoop
<1>4. ~Scan
  BY <1>1, <1>2, PutView
<1>5. ~PublishScan /\ ~PublishFails
  BY <1>2 DEF PublishScan, PublishFails, scanVars
<1>6. Reboot
  BY <1>2, <1>3, <1>4, <1>5, StillView
<1> QED
  BY <1>1, <1>6 DEF Reboot, Fault, Numbers

\* Scans stay queued while the device is offline.
THEOREM ScansWaitOffline == Spec => OfflineScansKept
<1>1. IInv /\ [Next]_vars => [(~linked /\ Len(queue') < Len(queue)) => faults' # faults]_vars
  BY OfflineStep
<1> QED
  BY <1>1, InvInit, InvStep, PTL DEF Spec, OfflineScansKept
=============================================================================
