----------------------------- MODULE ReplicaSync ------------------------------
(***************************************************************************)
(* The copies of a workspace that browsers keep: backend/src/index.ts and  *)
(* db/snapshot.ts on the server, client/src/store/sync-client.ts,          *)
(* entity-store.ts and sync-outbox.ts in the browser.                      *)
(*                                                                         *)
(* A socket carries batches of changes in order.  A browser that connects  *)
(* asks for what it misses since lastSeq and sets batches aside until the  *)
(* answer comes.  What it creates itself it shows at once and posts from   *)
(* an outbox, one request at a time.  The server reads the answer to a     *)
(* resync with two statements, each of which sees what is committed by     *)
(* then, and sends it after a third reply.                                 *)
(***************************************************************************)
EXTENDS Workspace

CONSTANTS
    Browser,
    Draft,      \* the content of a row a browser shows before the server has it
    MaxFaults   \* faults that happen (a bound of the model)

ASSUME BrowserAssumption == Draft \notin Nat /\ MaxFaults \in Nat

VARIABLES
    conn,       \* the socket is in the workspace's room
    chan,       \* messages on their way to the browser
    sync,       \* the resync the server is answering
    ready,      \* sync-client's ready: batches are applied as they come
    loaded,     \* the store's ready: a snapshot has been shown
    queue,      \* batches set aside until the answer comes
    records,    \* EntityStore.records
    lastSeq,    \* EntityStore.lastSeq
    outbox,     \* SyncOutbox.pending
    post,       \* the request of flush() for the head of the outbox
    faults

linkVars == <<conn, chan, sync>>
pageVars == <<ready, loaded, queue, records, lastSeq>>
boxVars == <<outbox, post>>
vars == <<rowVars, linkVars, pageVars, boxVars, faults>>

ResultKind == {"delta", "snapshot"}
SyncState == [pc : {"none", "asked", "seqRead", "rowsRead"}, seq : Nat, changes : Change]
NoSync == [pc |-> "none", seq |-> 0, changes |-> [i \in Id |-> Same]]
PostState == [pc : {"idle", "sent", "committed", "ok", "refused", "failed"}, seq : Nat]
Post(pc) == [pc |-> pc, seq |-> 0]
InFlight == {"sent", "committed", "ok", "refused"}
Listed(list) == {list[k] : k \in DOMAIN list}

\* A socket that is gone leaves nothing behind: nothing on the way, nothing set
\* aside, no answer pending.  No row is in an outbox twice, and a request is under
\* way only for a row that is there.
TypeOK ==
    /\ RowsTypeOK
    /\ conn \in [Browser -> BOOLEAN]
    /\ chan \in [Browser -> Seq(Message({"batch"} \cup ResultKind))]
    /\ sync \in [Browser -> SyncState]
    /\ ready \in [Browser -> BOOLEAN] /\ loaded \in [Browser -> BOOLEAN]
    /\ queue \in [Browser -> SUBSET Message({"batch"})]
    /\ records \in [Browser -> [Id -> Version \cup {Draft}]]
    /\ lastSeq \in [Browser -> Nat]
    /\ outbox \in [Browser -> Seq(Id)]
    /\ post \in [Browser -> PostState]
    /\ faults \in 0..MaxFaults
    /\ \A b \in Browser :
          /\ ~conn[b] => ~ready[b] /\ chan[b] = <<>> /\ queue[b] = {} /\ sync[b] = NoSync
          /\ ready[b] => queue[b] = {} /\ sync[b] = NoSync
          /\ post[b].pc \in InFlight => outbox[b] # <<>>
          /\ \A k, l \in DOMAIN outbox[b] : outbox[b][k] = outbox[b][l] => k = l

Init ==
    /\ RowsInit
    /\ conn = [b \in Browser |-> FALSE]
    /\ chan = [b \in Browser |-> <<>>]
    /\ sync = [b \in Browser |-> NoSync]
    /\ ready = [b \in Browser |-> FALSE]
    /\ loaded = [b \in Browser |-> FALSE]
    /\ queue = [b \in Browser |-> {}]
    /\ records = [b \in Browser |-> [i \in Id |-> Gone]]
    /\ lastSeq = [b \in Browser |-> 0]
    /\ outbox = [b \in Browser |-> <<>>]
    /\ post = [b \in Browser |-> Post("idle")]
    /\ faults = 0

-----------------------------------------------------------------------------
(* The server *)

\* The reply to a COMMIT: the batch goes to every socket of the room, then the
\* request that caused it is answered.
Broadcast ==
    \E k \in DOMAIN unsent :
        /\ InOrder => k = 1
        /\ unsent' = SubSeq(unsent, 1, k - 1) \o SubSeq(unsent, k + 1, Len(unsent))
        /\ chan' = [b \in Browser |-> IF conn[b] THEN Append(chan[b], unsent[k]) ELSE chan[b]]
        /\ post' = [b \in Browser |->
              IF post[b] = [pc |-> "committed", seq |-> unsent[k].seq] THEN Post("ok") ELSE post[b]]
        /\ UNCHANGED <<seq, row, selected, edits, conn, sync, pageVars, outbox, faults>>

\* lastSeq does not change before the answer, so it is the seq that was asked for.
ReadSeq(b) ==
    /\ sync[b].pc = "asked"
    /\ sync' = [sync EXCEPT ![b].pc = "seqRead", ![b].seq = seq]
    /\ UNCHANGED <<rowVars, conn, chan, pageVars, boxVars, faults>>

\* Seeded fault: a delta without tombstones.
AnswerLiveRows(b) ==
    {i \in Id : row[i].rev > lastSeq[b] /\ row[i].state = "live"}

\* The rows an answer carries: those written since, tombstones too; or, to a
\* browser that has nothing, those that are there.
Answer(b) ==
    IF lastSeq[b] > 0 THEN {i \in Id : row[i].rev > lastSeq[b]}
    ELSE {i \in Id : row[i].state = "live"}

ReadRows(b) ==
    /\ sync[b].pc = "seqRead"
    /\ sync' = [sync EXCEPT ![b].pc = "rowsRead", ![b].changes =
          [i \in Id |-> IF i \in Answer(b) THEN Shown(i) ELSE Same]]
    /\ UNCHANGED <<rowVars, conn, chan, pageVars, boxVars, faults>>

\* Seeded fault: the answer claims the seq of the time it is sent.
SendResultLate(b) ==
    /\ sync[b].pc = "rowsRead"
    /\ chan' = [chan EXCEPT ![b] = Append(@,
          [kind |-> IF lastSeq[b] > 0 THEN "delta" ELSE "snapshot",
           seq |-> seq, changes |-> sync[b].changes])]
    /\ sync' = [sync EXCEPT ![b] = NoSync]
    /\ UNCHANGED <<rowVars, conn, pageVars, boxVars, faults>>

SendResult(b) ==
    /\ sync[b].pc = "rowsRead"
    /\ chan' = [chan EXCEPT ![b] = Append(@,
          [kind |-> IF lastSeq[b] > 0 THEN "delta" ELSE "snapshot",
           seq |-> sync[b].seq, changes |-> sync[b].changes])]
    /\ sync' = [sync EXCEPT ![b] = NoSync]
    /\ UNCHANGED <<rowVars, conn, pageVars, boxVars, faults>>

\* POST /api/entities for the head of the outbox: the row is written and the reply
\* to COMMIT awaited; or the row was deleted and the answer is 409; or the insert
\* breaks a unique index (the card has a key already, the access row is there) and
\* the transaction is rolled back.
ServePost(b) ==
    /\ post[b].pc = "sent"
    /\ \/ CreateEntity(Head(outbox[b])) /\ post' = [post EXCEPT ![b] = [pc |-> "committed", seq |-> seq + 1]]
       \/ CreateRefused(Head(outbox[b])) /\ post' = [post EXCEPT ![b] = Post("refused")]
       \/ UNCHANGED rowVars /\ post' = [post EXCEPT ![b] = Post("refused")]
    /\ UNCHANGED <<linkVars, pageVars, outbox, faults>>

-----------------------------------------------------------------------------
(* The browser *)

\* flush() posts the head of the outbox, unless a loop is running already.
NextPost(pending) == IF pending = <<>> THEN Post("idle") ELSE Post("sent")
Flush(b, pending) == IF post[b].pc \in InFlight THEN post[b] ELSE NextPost(pending)

Apply(old, changes) == [i \in Id |-> IF changes[i] = Same THEN old[i] ELSE changes[i]]

Connect(b) ==
    /\ ~conn[b]
    /\ conn' = [conn EXCEPT ![b] = TRUE]
    /\ sync' = [sync EXCEPT ![b].pc = "asked"]
    /\ UNCHANGED <<rowVars, chan, pageVars, boxVars, faults>>

ReceiveBatch(b) ==
    /\ chan[b] # <<>> /\ Head(chan[b]).kind = "batch"
    /\ chan' = [chan EXCEPT ![b] = Tail(@)]
    /\ LET batch == Head(chan[b])
       IN  IF ready[b]
             THEN /\ records' = [records EXCEPT ![b] = Apply(@, batch.changes)]
                  /\ lastSeq' = [lastSeq EXCEPT ![b] = batch.seq]
                  /\ UNCHANGED queue
             ELSE /\ queue' = [queue EXCEPT ![b] = @ \cup {batch}]
                  /\ UNCHANGED <<records, lastSeq>>
    /\ UNCHANGED <<rowVars, conn, sync, ready, loaded, boxVars, faults>>

\* Seeded fault: batches set aside are thrown away.
NoneAside(b, result) == {}

\* The batches set aside that the answer does not cover.
Aside(b, result) == {batch \in queue[b] : batch.seq > result.seq}

\* What applying a set of batches in the order of their seq does to the records.
InSeqOrder(old, batches) ==
    [i \in Id |->
        LET writing == {batch \in batches : batch.changes[i] # Same}
        IN  IF writing = {} THEN old[i]
            ELSE (CHOOSE batch \in writing : \A other \in writing : other.seq <= batch.seq).changes[i]]

Newest(s, batches) ==
    IF batches = {} THEN s
    ELSE (CHOOSE batch \in batches : \A other \in batches : other.seq <= batch.seq).seq

ReceiveResult(b) ==
    /\ chan[b] # <<>> /\ Head(chan[b]).kind \in ResultKind
    /\ chan' = [chan EXCEPT ![b] = Tail(@)]
    /\ LET result == Head(chan[b])
           empty == [i \in Id |-> Gone]
           base == Apply(IF result.kind = "snapshot" THEN empty ELSE records[b], result.changes)
       IN  /\ records' = [records EXCEPT ![b] = InSeqOrder(base, Aside(b, result))]
           /\ lastSeq' = [lastSeq EXCEPT ![b] = Newest(result.seq, Aside(b, result))]
           /\ loaded' = [loaded EXCEPT ![b] = @ \/ result.kind = "snapshot"]
    /\ queue' = [queue EXCEPT ![b] = {}]
    /\ ready' = [ready EXCEPT ![b] = TRUE]
    /\ post' = [post EXCEPT ![b] = Flush(b, outbox[b])]
    /\ UNCHANGED <<rowVars, conn, sync, outbox, faults>>

\* Ids that nobody has used.
Fresh == {i \in Id : row[i].state = "absent" /\ \A b \in Browser : i \notin Listed(outbox[b])}

\* A page that shows the workspace saves a draft with a new id.
Put(b) ==
    /\ Edit
    /\ loaded[b]
    /\ \E i \in Fresh :
          /\ records' = [records EXCEPT ![b][i] = Draft]
          /\ outbox' = [outbox EXCEPT ![b] = Append(@, i)]
          /\ post' = [post EXCEPT ![b] = Flush(b, Append(outbox[b], i))]
    /\ UNCHANGED <<seq, row, selected, unsent, linkVars, ready, loaded, queue, lastSeq, faults>>

\* Seeded fault: the loop ends after one request.
PostedOnce(b) ==
    /\ post[b].pc = "ok"
    /\ outbox' = [outbox EXCEPT ![b] = Tail(@)]
    /\ post' = [post EXCEPT ![b] = Post("idle")]
    /\ UNCHANGED <<rowVars, linkVars, pageVars, faults>>

Posted(b) ==
    /\ post[b].pc = "ok"
    /\ outbox' = [outbox EXCEPT ![b] = Tail(@)]
    /\ post' = [post EXCEPT ![b] = NextPost(Tail(outbox[b]))]
    /\ UNCHANGED <<rowVars, linkVars, pageVars, faults>>

\* Seeded fault: a refused row goes to the end of the outbox.
RefusedGoesOn(b) ==
    /\ post[b].pc = "refused"
    /\ outbox' = [outbox EXCEPT ![b] = Append(Tail(@), Head(@))]
    /\ post' = [post EXCEPT ![b] = Post("sent")]
    /\ UNCHANGED <<rowVars, linkVars, pageVars, faults>>

Refused(b) ==
    /\ post[b].pc = "refused"
    /\ post' = [post EXCEPT ![b] = Post("failed")]
    /\ UNCHANGED <<rowVars, linkVars, pageVars, outbox, faults>>

-----------------------------------------------------------------------------
(* Faults *)

Fault == faults < MaxFaults /\ faults' = faults + 1

\* Seeded fault: 'disconnect' leaves ready as it is.
DisconnectedReady(browsers) ==
    /\ conn' = [b \in Browser |-> conn[b] /\ b \notin browsers]
    /\ chan' = [b \in Browser |-> IF b \in browsers THEN <<>> ELSE chan[b]]
    /\ sync' = [b \in Browser |-> IF b \in browsers THEN NoSync ELSE sync[b]]
    /\ queue' = [b \in Browser |-> IF b \in browsers THEN {} ELSE queue[b]]
    /\ UNCHANGED ready

\* The 'disconnect' handler of these browsers, and their sockets on the server.
Disconnected(browsers) ==
    /\ conn' = [b \in Browser |-> conn[b] /\ b \notin browsers]
    /\ chan' = [b \in Browser |-> IF b \in browsers THEN <<>> ELSE chan[b]]
    /\ sync' = [b \in Browser |-> IF b \in browsers THEN NoSync ELSE sync[b]]
    /\ ready' = [b \in Browser |-> ready[b] /\ b \notin browsers]
    /\ queue' = [b \in Browser |-> IF b \in browsers THEN {} ELSE queue[b]]

Drop(b) ==
    /\ Fault
    /\ conn[b]
    /\ Disconnected({b})
    /\ UNCHANGED <<rowVars, loaded, records, lastSeq, boxVars>>

\* A restart of the server process loses the broadcasts that were to come.
ServerCrash ==
    /\ Fault
    /\ selected' = {} /\ unsent' = <<>>
    /\ Disconnected(Browser)
    /\ post' = [b \in Browser |-> IF post[b].pc \in InFlight THEN Post("failed") ELSE post[b]]
    /\ UNCHANGED <<seq, row, edits, loaded, records, lastSeq, outbox>>

Reload(b) ==
    /\ Fault
    /\ Disconnected({b})
    /\ loaded' = [loaded EXCEPT ![b] = FALSE]
    /\ records' = [records EXCEPT ![b] = [i \in Id |-> Gone]]
    /\ lastSeq' = [lastSeq EXCEPT ![b] = 0]
    /\ outbox' = [outbox EXCEPT ![b] = <<>>]
    /\ post' = [post EXCEPT ![b] = Post("idle")]
    /\ UNCHANGED rowVars

\* A request or its answer is lost, whether or not the row was written.
PostLost(b) ==
    /\ Fault
    /\ post[b].pc \in InFlight
    /\ post' = [post EXCEPT ![b] = Post("failed")]
    /\ UNCHANGED <<rowVars, linkVars, pageVars, outbox>>

-----------------------------------------------------------------------------
ServerStep(b) == ReadSeq(b) \/ ReadRows(b) \/ SendResult(b) \/ ServePost(b)
BrowserStep(b) == Connect(b) \/ ReceiveBatch(b) \/ ReceiveResult(b) \/ Posted(b) \/ Refused(b)

Next ==
    \/ RequestStep(Fresh) /\ UNCHANGED <<linkVars, pageVars, boxVars, faults>>
    \/ Broadcast
    \/ \E b \in Browser : ServerStep(b) \/ BrowserStep(b) \/ Put(b)
    \/ \E b \in Browser : Drop(b) \/ Reload(b) \/ PostLost(b)
    \/ ServerCrash

Spec == Init /\ [][Next]_vars

\* Replies and messages arrive, an await is resumed, and a client that has lost
\* its socket keeps reconnecting.  Nobody has to make changes or faults.
Fairness ==
    /\ WF_vars(Broadcast)
    /\ WF_vars(UNCHANGED <<linkVars, pageVars, boxVars, faults>> /\ \E i \in Id : UpdateRow(i))
    /\ \A b \in Browser :
          /\ WF_vars(ReadSeq(b) \/ ReadRows(b) \/ SendResult(b))
          /\ WF_vars(ServePost(b))
          /\ WF_vars(Connect(b))
          /\ WF_vars(ReceiveBatch(b) \/ ReceiveResult(b))
          /\ WF_vars(Posted(b) \/ Refused(b))

FairSpec == Spec /\ Fairness

-----------------------------------------------------------------------------
(* Properties *)

\* The rows a browser is not about to post itself.
Settled(b) == Id \ Listed(outbox[b])

\* lastSeq never claims too much, connected or not: what is written up to lastSeq
\* is shown as it is, so a delta since lastSeq is all a browser ever misses.
DeltaSuffices ==
    \A b \in Browser : \A i \in Settled(b) :
        row[i].rev \in 1..lastSeq[b] => records[b][i] = Shown(i)

\* Without the reconnect banner, and with nothing on its way, a page shows the rows.
BannerIsTheOnlySignal ==
    \A b \in Browser : ready[b] /\ chan[b] = <<>> /\ unsent = <<>> =>
        \A i \in Settled(b) : records[b][i] = Shown(i)

\* Rows a page creates reach the server in the order they were created, so that no
\* access row is there before its key: behind the head nothing was ever written.
PostedInOrder ==
    \A b \in Browser : \A k \in DOMAIN outbox[b] :
        k > 1 => row[outbox[b][k]].state = "absent"

\* Once changes and faults stop, every browser is connected and shows the rows.
Converges ==
    \A b \in Browser : <>[](ready[b] /\ \A i \in Settled(b) : records[b][i] = Shown(i))

\* And its outbox is empty, or the last attempt to post the head has failed.
UploadsEnd ==
    \A b \in Browser : <>[](outbox[b] = <<>> \/ post[b].pc = "failed")
=============================================================================
