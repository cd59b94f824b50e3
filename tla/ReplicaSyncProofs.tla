--------------------------- MODULE ReplicaSyncProofs ---------------------------
(***************************************************************************)
(* Proofs about ReplicaSync, for any number of rows, browsers, edits and   *)
(* faults: that what pages create reaches the server in the order in which *)
(* it was created, and its typing, for replies to COMMIT in any order;     *)
(* and, for replies in order, that a delta since lastSeq is all a browser  *)
(* misses, and that a page without a reconnect banner shows the rows.      *)
(***************************************************************************)
EXTENDS ReplicaSync, TLAPS

BoxTypeOK ==
    /\ seq \in Nat
    /\ row \in [Id -> [state : RowState, rev : Nat]]
    /\ outbox \in [Browser -> Seq(Id)]
    /\ post \in [Browser -> PostState]

\* A request under way is for a row that is there.
HeadPosted == \A b \in Browser : post[b].pc \in InFlight => outbox[b] # <<>>

\* No row is in two places of an outbox, or in two outboxes.
OneOwner ==
    \A b, c \in Browser : \A k \in DOMAIN outbox[b], l \in DOMAIN outbox[c] :
       outbox[b][k] = outbox[c][l] => b = c /\ k = l

BoxInv == BoxTypeOK /\ HeadPosted /\ OneOwner /\ PostedInOrder

-----------------------------------------------------------------------------
LEMMA InitBox == ASSUME Init PROVE BoxInv
<1>1. BoxTypeOK
  BY DEF Init, RowsInit, BoxTypeOK, RowState, PostState, Post
<1>2. \A b \in Browser : outbox[b] = <<>> /\ post[b].pc = "idle"
  BY DEF Init, Post
<1>3. HeadPosted /\ OneOwner /\ PostedInOrder
  BY <1>2 DEF HeadPosted, OneOwner, PostedInOrder, InFlight
<1> QED
  BY <1>1, <1>3 DEF BoxInv

\* Rows stay absent but for one, which no outbox holds behind its head.
LEMMA RowsKept ==
    ASSUME BoxInv, BoxTypeOK', HeadPosted', outbox' = outbox, NEW i \in Id,
           \A j \in Id \ {i} : row[j].state = "absent" => row'[j].state = "absent",
           \/ \A b \in Browser : i \notin Listed(outbox[b])
           \/ \E b \in Browser : outbox[b] # <<>> /\ i = Head(outbox[b])
           \/ row[i].state = "absent" => row'[i].state = "absent"
    PROVE  BoxInv'
<1>1. OneOwner'
  BY DEF BoxInv, OneOwner
<1>2. PostedInOrder'
  <2> SUFFICES ASSUME NEW c \in Browser, NEW k \in DOMAIN outbox[c], k > 1
               PROVE  row'[outbox[c][k]].state = "absent"
    BY DEF PostedInOrder
  <2>1. row[outbox[c][k]].state = "absent" /\ outbox[c][k] \in Id /\ outbox[c] \in Seq(Id)
    BY DEF BoxInv, PostedInOrder, BoxTypeOK
  <2>2. CASE outbox[c][k] = i
    <3>1. i \in Listed(outbox[c])
      BY <2>2 DEF Listed
    <3>2. ASSUME NEW b \in Browser, outbox[b] # <<>>, i = Head(outbox[b]) PROVE FALSE
      <4>1. outbox[b] \in Seq(Id) /\ 1 \in DOMAIN outbox[b] /\ outbox[b][1] = i
        BY <3>2 DEF BoxInv, BoxTypeOK
      <4> QED
        BY <2>2, <4>1 DEF BoxInv, OneOwner
    <3> QED
      BY <2>1, <2>2, <3>1, <3>2
  <2> QED
    BY <2>1, <2>2
<1> QED
  BY <1>1, <1>2 DEF BoxInv

\* Neither rows nor outboxes change.
LEMMA PostsKept ==
    ASSUME BoxInv, UNCHANGED <<seq, row, outbox>>, post' \in [Browser -> PostState], HeadPosted'
    PROVE  BoxInv'
BY DEF BoxInv, BoxTypeOK, OneOwner, PostedInOrder

-----------------------------------------------------------------------------
LEMMA MutateView ==
    ASSUME BoxTypeOK, NEW i \in Id, NEW s \in RowState, Mutate(i, s)
    PROVE  /\ seq' \in Nat
           /\ row' \in [Id -> [state : RowState, rev : Nat]]
           /\ \A j \in Id \ {i} : row'[j] = row[j]
           /\ row'[i].state = s
BY DEF BoxTypeOK, Mutate

LEMMA RequestKept ==
    ASSUME BoxInv, RequestStep(Fresh), UNCHANGED <<outbox, post>> PROVE BoxInv'
<1>1. BoxTypeOK
  BY DEF BoxInv
<1>2. HeadPosted'
  BY DEF BoxInv, HeadPosted
<1>3. ASSUME NEW i \in Fresh, RecordAction(i) PROVE BoxInv'
  <2>1. i \in Id /\ \A b \in Browser : i \notin Listed(outbox[b])
    BY DEF Fresh
  <2>2. Mutate(i, "live")
    BY <1>3 DEF RecordAction
  <2>3. /\ BoxTypeOK'
        /\ \A j \in Id \ {i} : row'[j] = row[j]
    BY <1>1, <2>1, <2>2, MutateView DEF RowState, BoxTypeOK
  <2> QED
    BY <1>2, <2>1, <2>3, RowsKept
<1>4. ASSUME NEW i \in Id, DeleteEntity(i) PROVE BoxInv'
  <2>1. row[i].state = "live" /\ Mutate(i, "deleted")
    BY <1>4 DEF DeleteEntity
  <2>2. /\ BoxTypeOK'
        /\ \A j \in Id \ {i} : row'[j] = row[j]
    BY <1>1, <2>1, MutateView DEF RowState, BoxTypeOK
  <2> QED
    BY <1>2, <2>1, <2>2, RowsKept
<1>5. ASSUME NEW i \in Id, SelectRow(i) PROVE BoxInv'
  <2>1. UNCHANGED <<seq, row>>
    BY <1>5 DEF SelectRow
  <2> QED
    BY <1>1, <1>2, <2>1, PostsKept DEF BoxTypeOK
<1>6. ASSUME NEW i \in Id, UpdateRow(i) PROVE BoxInv'
  <2>1. Mutate(i, row[i].state) /\ row[i].state \in RowState
    BY <1>1, <1>6 DEF UpdateRow, BoxTypeOK
  <2>2. /\ BoxTypeOK'
        /\ \A j \in Id \ {i} : row'[j] = row[j]
        /\ row'[i].state = row[i].state
    BY <1>1, <2>1, MutateView DEF BoxTypeOK
  <2> QED
    BY <1>2, <2>2, RowsKept
<1> QED
  BY <1>3, <1>4, <1>5, <1>6 DEF RequestStep

LEMMA ServeKept == ASSUME BoxInv, NEW b \in Browser, ServePost(b) PROVE BoxInv'
<1>1. BoxTypeOK /\ HeadPosted
  BY DEF BoxInv
<1>2. post[b].pc = "sent" /\ outbox' = outbox
  BY DEF ServePost, linkVars, pageVars
<1>3. outbox[b] \in Seq(Id) /\ outbox[b] # <<>> /\ Head(outbox[b]) \in Id
  BY <1>1, <1>2 DEF HeadPosted, InFlight, BoxTypeOK
<1>4. CASE CreateEntity(Head(outbox[b])) /\ post' = [post EXCEPT ![b] = [pc |-> "committed", seq |-> seq + 1]]
  <2>1. Mutate(Head(outbox[b]), "live")
    BY <1>4 DEF CreateEntity
  <2>2. post' \in [Browser -> PostState] /\ \A c \in Browser : c # b => post'[c] = post[c]
    BY <1>1, <1>4 DEF BoxTypeOK, PostState
  <2>3. /\ BoxTypeOK'
        /\ \A j \in Id \ {Head(outbox[b])} : row'[j] = row[j]
    BY <1>1, <1>2, <1>3, <2>1, <2>2, MutateView DEF RowState, BoxTypeOK
  <2>4. HeadPosted'
    BY <1>1, <1>2, <1>3, <2>2 DEF HeadPosted
  <2> QED
    BY <1>2, <1>3, <2>3, <2>4, RowsKept
<1>5. CASE /\ CreateRefused(Head(outbox[b])) \/ UNCHANGED rowVars
           /\ post' = [post EXCEPT ![b] = Post("refused")]
  <2>1. row' = row /\ seq' \in Nat
    BY <1>1, <1>5 DEF CreateRefused, MutateNothing, rowVars, BoxTypeOK
  <2>2. post' \in [Browser -> PostState] /\ \A c \in Browser : c # b => post'[c] = post[c]
    BY <1>1, <1>5 DEF BoxTypeOK, PostState, Post
  <2>3. BoxTypeOK' /\ HeadPosted'
    BY <1>1, <1>2, <1>3, <2>1, <2>2 DEF BoxTypeOK, HeadPosted
  <2> QED
    BY <1>2, <1>3, <2>1, <2>3, RowsKept
<1> QED
  BY <1>4, <1>5 DEF ServePost

\* A new row goes behind the others.
LEMMA PutKept == ASSUME BoxInv, NEW b \in Browser, Put(b) PROVE BoxInv'
<1>1. PICK i \in Fresh :
        /\ outbox' = [outbox EXCEPT ![b] = Append(@, i)]
        /\ post' = [post EXCEPT ![b] = Flush(b, Append(outbox[b], i))]
        /\ UNCHANGED <<seq, row>>
  BY DEF Put
<1>2. BoxTypeOK
  BY DEF BoxInv
<1>3. /\ i \in Id /\ row[i].state = "absent"
      /\ \A c \in Browser : \A k \in DOMAIN outbox[c] : outbox[c][k] # i
  BY DEF Fresh, Listed
<1>4. /\ \A c \in Browser : outbox[c] \in Seq(Id)
      /\ outbox'[b] = Append(outbox[b], i) /\ \A c \in Browser \ {b} : outbox'[c] = outbox[c]
  BY <1>1, <1>2 DEF BoxTypeOK
<1>5. post'[b] \in PostState /\ \A c \in Browser \ {b} : post'[c] = post[c]
  BY <1>1, <1>2 DEF BoxTypeOK, Flush, NextPost, Post, PostState
<1>6. BoxTypeOK'
  BY <1>1, <1>2, <1>3, <1>4, <1>5 DEF BoxTypeOK
<1>7. HeadPosted'
  BY <1>4, <1>5 DEF BoxInv, HeadPosted
<1>8. ASSUME NEW c \in Browser, NEW k \in DOMAIN outbox'[c]
      PROVE  \/ k \in DOMAIN outbox[c] /\ outbox'[c][k] = outbox[c][k]
             \/ c = b /\ k = Len(outbox[b]) + 1 /\ outbox'[c][k] = i
  BY <1>4, <1>8
<1>9. OneOwner'
  <2> SUFFICES ASSUME NEW c \in Browser, NEW d \in Browser,
                      NEW k \in DOMAIN outbox'[c], NEW l \in DOMAIN outbox'[d],
                      outbox'[c][k] = outbox'[d][l]
               PROVE  c = d /\ k = l
    BY DEF OneOwner
  <2> QED
    BY <1>3, <1>8 DEF BoxInv, OneOwner
<1>10. PostedInOrder'
  <2> SUFFICES ASSUME NEW c \in Browser, NEW k \in DOMAIN outbox'[c], k > 1
               PROVE  row[outbox'[c][k]].state = "absent"
    BY <1>1 DEF PostedInOrder
  <2> QED
    BY <1>3, <1>8 DEF BoxInv, PostedInOrder
<1> QED
  BY <1>6, <1>7, <1>9, <1>10 DEF BoxInv

\* The head leaves, or all do.
LEMMA ShorterKept ==
    ASSUME BoxInv, NEW b \in Browser, Posted(b) \/ Reload(b)
    PROVE  BoxInv'
<1>1. /\ UNCHANGED <<seq, row>>
      /\ \/ /\ post[b].pc = "ok" /\ outbox' = [outbox EXCEPT ![b] = Tail(@)]
            /\ post' = [post EXCEPT ![b] = NextPost(Tail(outbox[b]))]
         \/ /\ outbox' = [outbox EXCEPT ![b] = <<>>]
            /\ post' = [post EXCEPT ![b] = Post("idle")]
  BY DEF Posted, Reload, rowVars
<1>2. BoxTypeOK /\ HeadPosted
  BY DEF BoxInv
<1>3. /\ \A c \in Browser : outbox[c] \in Seq(Id)
      /\ \A c \in Browser \ {b} : outbox'[c] = outbox[c] /\ post'[c] = post[c]
  BY <1>1, <1>2 DEF BoxTypeOK
<1>4. \/ outbox[b] # <<>> /\ outbox'[b] = Tail(outbox[b]) /\ post'[b] = NextPost(outbox'[b])
      \/ outbox'[b] = <<>> /\ post'[b] = Post("idle")
  BY <1>1, <1>2 DEF BoxTypeOK, HeadPosted, InFlight
<1>5. BoxTypeOK'
  <2>1. outbox'[b] \in Seq(Id)
    <3>1. CASE outbox[b] # <<>> /\ outbox'[b] = Tail(outbox[b])
      BY <1>3, <3>1
    <3>2. CASE outbox'[b] = <<>>
      BY <3>2
    <3> QED
      BY <1>4, <3>1, <3>2
  <2>2. post'[b] \in PostState
    BY <1>4 DEF NextPost, Post, PostState
  <2>3. outbox' \in [Browser -> Seq(Id)]
    BY <1>1, <1>2, <1>3, <2>1 DEF BoxTypeOK
  <2>4. post' \in [Browser -> PostState]
    BY <1>1, <1>2, <1>3, <2>2 DEF BoxTypeOK
  <2> QED
    BY <1>1, <1>2, <2>3, <2>4 DEF BoxTypeOK
<1>6. HeadPosted'
  BY <1>2, <1>3, <1>4 DEF HeadPosted, NextPost, Post, InFlight
<1>7. ASSUME NEW c \in Browser, NEW k \in DOMAIN outbox'[c]
      PROVE  \/ c # b /\ k \in DOMAIN outbox[c] /\ outbox'[c][k] = outbox[c][k]
             \/ c = b /\ k \in Nat /\ k + 1 \in DOMAIN outbox[c] /\ outbox'[c][k] = outbox[c][k + 1]
  <2>1. CASE c # b
    BY <1>3, <1>7, <2>1
  <2>2. CASE c = b /\ outbox[b] # <<>> /\ outbox'[b] = Tail(outbox[b])
    BY <1>3, <1>7, <2>2
  <2>3. CASE c = b /\ outbox'[b] = <<>>
    BY <1>7, <2>3
  <2> QED
    BY <1>4, <2>1, <2>2, <2>3
<1>8. OneOwner'
  <2> SUFFICES ASSUME NEW c \in Browser, NEW d \in Browser,
                      NEW k \in DOMAIN outbox'[c], NEW l \in DOMAIN outbox'[d],
                      outbox'[c][k] = outbox'[d][l]
               PROVE  c = d /\ k = l
    BY DEF OneOwner
  <2> QED
    BY <1>7 DEF BoxInv, OneOwner
<1>9. PostedInOrder'
  <2> SUFFICES ASSUME NEW c \in Browser, NEW k \in DOMAIN outbox'[c], k > 1
               PROVE  row[outbox'[c][k]].state = "absent"
    BY <1>1 DEF PostedInOrder
  <2> QED
    BY <1>7 DEF BoxInv, PostedInOrder
<1> QED
  BY <1>5, <1>6, <1>8, <1>9 DEF BoxInv

LEMMA OtherKept ==
    ASSUME BoxInv, UNCHANGED <<seq, row, outbox>>,
           post' \in [Browser -> PostState],
           \A b \in Browser : \/ post'[b].pc \notin InFlight
                              \/ post[b].pc \in InFlight
                              \/ outbox[b] # <<>>
    PROVE  BoxInv'
<1>1. HeadPosted'
  BY DEF BoxInv, HeadPosted
<1> QED
  BY <1>1, PostsKept

LEMMA BoxStep == ASSUME BoxInv, [Next]_vars PROVE BoxInv'
<1>1. BoxTypeOK /\ \A b \in Browser : post[b] \in PostState
  BY DEF BoxInv, BoxTypeOK
<1>2. CASE RequestStep(Fresh) /\ UNCHANGED <<linkVars, pageVars, boxVars, faults>>
  BY <1>2, RequestKept DEF boxVars
<1>3. CASE Broadcast
  <2>1. PICK k \in DOMAIN unsent :
          /\ post' = [b \in Browser |->
                IF post[b] = [pc |-> "committed", seq |-> unsent[k].seq] THEN Post("ok") ELSE post[b]]
          /\ UNCHANGED <<seq, row, outbox>>
    BY <1>3 DEF Broadcast
  <2>2. \A b \in Browser : post'[b] = post[b] \/ (post'[b] = Post("ok") /\ post[b].pc = "committed")
    BY <2>1
  <2>3. post' \in [Browser -> PostState]
    BY <1>1, <2>1 DEF Post, PostState
  <2> QED
    BY <2>1, <2>2, <2>3, OtherKept DEF InFlight
<1>4. ASSUME NEW b \in Browser, ReadSeq(b) \/ ReadRows(b) \/ SendResult(b) \/ Connect(b) \/ ReceiveBatch(b)
                                \/ Drop(b)
      PROVE  BoxInv'
  <2>1. UNCHANGED <<seq, row, outbox, post>>
    BY <1>4 DEF ReadSeq, ReadRows, SendResult, Connect, ReceiveBatch, Drop, rowVars, boxVars
  <2> QED
    BY <1>1, <2>1, OtherKept DEF BoxTypeOK
<1>5. ASSUME NEW b \in Browser, ReceiveResult(b) PROVE BoxInv'
  <2>1. UNCHANGED <<seq, row, outbox>> /\ post' = [post EXCEPT ![b] = Flush(b, outbox[b])]
    BY <1>5 DEF ReceiveResult, rowVars
  <2>2. Flush(b, outbox[b]) \in PostState
    BY <1>1 DEF Flush, NextPost, Post, PostState
  <2>3. post[b].pc \in InFlight \/ Flush(b, outbox[b]).pc \notin InFlight \/ outbox[b] # <<>>
    BY DEF Flush, NextPost, Post, InFlight
  <2>4. /\ post' \in [Browser -> PostState] /\ post'[b] = Flush(b, outbox[b])
        /\ \A c \in Browser \ {b} : post'[c] = post[c]
    BY <1>1, <2>1, <2>2 DEF BoxTypeOK
  <2> QED
    BY <2>1, <2>3, <2>4, OtherKept
<1>6. ASSUME NEW b \in Browser, Refused(b) \/ PostLost(b) PROVE BoxInv'
  <2>1. UNCHANGED <<seq, row, outbox>> /\ post' = [post EXCEPT ![b] = Post("failed")]
    BY <1>6 DEF Refused, PostLost, rowVars
  <2>2. /\ post' \in [Browser -> PostState]
        /\ \A c \in Browser : post'[c] = post[c] \/ post'[c].pc = "failed"
    BY <1>1, <2>1 DEF BoxTypeOK, Post, PostState
  <2> QED
    BY <2>1, <2>2, OtherKept DEF InFlight
<1>7. CASE ServerCrash
  <2>1. /\ UNCHANGED <<seq, row, outbox>>
        /\ post' = [b \in Browser |-> IF post[b].pc \in InFlight THEN Post("failed") ELSE post[b]]
    BY <1>7 DEF ServerCrash
  <2>2. /\ post' \in [Browser -> PostState]
        /\ \A c \in Browser : post'[c] = post[c] \/ post'[c].pc = "failed"
    BY <1>1, <2>1 DEF Post, PostState
  <2> QED
    BY <2>1, <2>2, OtherKept DEF InFlight
<1>8. CASE UNCHANGED vars
  <2>1. UNCHANGED <<seq, row, outbox, post>>
    BY <1>8 DEF vars, rowVars, boxVars
  <2> QED
    BY <1>1, <2>1, OtherKept DEF BoxTypeOK
<1> QED
  BY <1>2, <1>3, <1>4, <1>5, <1>6, <1>7, <1>8, ServeKept, PutKept, ShorterKept
  DEF Next, ServerStep, BrowserStep

LEMMA BoxInvariance == Spec => []BoxInv
BY InitBox, BoxStep, PTL DEF Spec

\* Rows a page creates reach the server in the order they were created, for any number of pages
\* that post at once, are reloaded or lose their answers (sync-outbox.ts:16-43).
THEOREM OutboxInOrder == Spec => []PostedInOrder
<1>1. BoxInv => PostedInOrder
  BY DEF BoxInv
<1> QED
  BY <1>1, BoxInvariance, PTL

-----------------------------------------------------------------------------
(* Typing *)

LinkTypeOK ==
    /\ selected \subseteq Id
    /\ edits \in 0..MaxEdits /\ faults \in 0..MaxFaults
    /\ unsent \in Seq(Message({"batch"}))
    /\ conn \in [Browser -> BOOLEAN]
    /\ chan \in [Browser -> Seq(Message({"batch"} \cup ResultKind))]
    /\ sync \in [Browser -> SyncState]
    /\ \A b \in Browser :
          ~conn[b] => ~ready[b] /\ chan[b] = <<>> /\ queue[b] = {} /\ sync[b] = NoSync

PageTypeOK ==
    /\ ready \in [Browser -> BOOLEAN] /\ loaded \in [Browser -> BOOLEAN]
    /\ queue \in [Browser -> SUBSET Message({"batch"})]
    /\ records \in [Browser -> [Id -> Version \cup {Draft}]]
    /\ lastSeq \in [Browser -> Nat]
    /\ \A b \in Browser : ready[b] => queue[b] = {} /\ sync[b] = NoSync

\* Only one answer is on its way, to a browser that waits for it.
Waiting ==
    \A b \in Browser : \A k \in DOMAIN chan[b] :
       chan[b][k].kind \in ResultKind =>
          /\ ~ready[b] /\ sync[b] = NoSync
          /\ \A l \in DOMAIN chan[b] : chan[b][l].kind \in ResultKind => l = k

LEMMA TypeParts == ASSUME BoxInv, LinkTypeOK, PageTypeOK PROVE TypeOK
<1>1. RowsTypeOK
  BY DEF BoxInv, BoxTypeOK, LinkTypeOK, RowsTypeOK
<1>2. \A b \in Browser : \A k, l \in DOMAIN outbox[b] : outbox[b][k] = outbox[b][l] => k = l
  BY DEF BoxInv, OneOwner
<1>3. \A b \in Browser : post[b].pc \in InFlight => outbox[b] # <<>>
  BY DEF BoxInv, HeadPosted
<1>4. outbox \in [Browser -> Seq(Id)] /\ post \in [Browser -> PostState]
  BY DEF BoxInv, BoxTypeOK
<1> QED
  BY <1>1, <1>2, <1>3, <1>4 DEF LinkTypeOK, PageTypeOK, TypeOK

LEMMA AppendType ==
    ASSUME NEW S, NEW list \in Seq(S), NEW e \in S
    PROVE  Append(list, e) \in Seq(S)
OBVIOUS

LEMMA NoSyncType == NoSync \in SyncState
BY WorkspaceAssumption DEF NoSync, SyncState, Change, Version

LEMMA BatchType ==
    ASSUME NEW s \in Nat, NEW i \in Id, NEW v \in Nat
    PROVE  Batch(s, i, v) \in Message({"batch"})
BY DEF Batch, Message, Change, Version

\* A batch is lost or goes out, the others wait on.
LEMMA UnsentType ==
    ASSUME LinkTypeOK, NEW k \in DOMAIN unsent
    PROVE  /\ unsent[k] \in Message({"batch"})
           /\ unsent[k] \in Message({"batch"} \cup ResultKind)
           /\ SubSeq(unsent, 1, k - 1) \o SubSeq(unsent, k + 1, Len(unsent))
                 \in Seq(Message({"batch"}))
<1>1. unsent \in Seq(Message({"batch"})) /\ k \in 1..Len(unsent)
  BY DEF LinkTypeOK
<1>2. unsent[k] \in Message({"batch"})
  BY <1>1
<1>3. SubSeq(unsent, 1, k - 1) \in Seq(Message({"batch"}))
  BY <1>1
<1>4. SubSeq(unsent, k + 1, Len(unsent)) \in Seq(Message({"batch"}))
  BY <1>1
<1> QED
  BY <1>2, <1>3, <1>4 DEF Message

\* Seen from the sockets and pages, a write appends a batch of its own.
LEMMA MutateUnsent ==
    ASSUME BoxTypeOK, LinkTypeOK, NEW i \in Id, NEW s \in RowState, Mutate(i, s)
    PROVE  unsent' \in Seq(Message({"batch"}))
<1>1. unsent' = Append(unsent, Batch(seq + 1, i, IF s = "live" THEN seq + 1 ELSE Gone))
  BY DEF Mutate
<1>2. Batch(seq + 1, i, IF s = "live" THEN seq + 1 ELSE Gone) \in Message({"batch"})
  BY BatchType DEF BoxTypeOK, Gone
<1> QED
  BY <1>1, <1>2 DEF LinkTypeOK

LEMMA RequestType ==
    ASSUME BoxTypeOK, LinkTypeOK, PageTypeOK, RequestStep(Fresh),
           UNCHANGED <<linkVars, pageVars, boxVars, faults>>
    PROVE  LinkTypeOK' /\ PageTypeOK'
<1>1. PageTypeOK'
  BY DEF PageTypeOK, linkVars, pageVars
<1>2. /\ selected' \subseteq Id /\ edits' \in 0..MaxEdits
      /\ unsent' \in Seq(Message({"batch"}))
  <2>1. ASSUME NEW i \in Fresh, RecordAction(i)
        PROVE  selected' = selected /\ Edit /\ unsent' \in Seq(Message({"batch"}))
    BY <2>1, MutateUnsent DEF RecordAction, Fresh, RowState
  <2>2. ASSUME NEW i \in Id, DeleteEntity(i)
        PROVE  selected' = selected /\ Edit /\ unsent' \in Seq(Message({"batch"}))
    BY <2>2, MutateUnsent DEF DeleteEntity, RowState
  <2>3. ASSUME NEW i \in Id, SelectRow(i)
        PROVE  selected' \subseteq Id /\ Edit /\ unsent' \in Seq(Message({"batch"}))
    BY <2>3 DEF SelectRow, LinkTypeOK
  <2>4. ASSUME NEW i \in Id, UpdateRow(i)
        PROVE  selected' \subseteq Id /\ edits' = edits /\ unsent' \in Seq(Message({"batch"}))
    <3>1. Mutate(i, row[i].state) /\ row[i].state \in RowState
      BY <2>4 DEF UpdateRow, BoxTypeOK
    <3> QED
      BY <2>4, <3>1, MutateUnsent DEF UpdateRow, LinkTypeOK
  <2>5. Edit => edits' \in 0..MaxEdits
    BY WorkspaceAssumption DEF Edit, LinkTypeOK
  <2> QED
    BY <2>1, <2>2, <2>3, <2>4, <2>5 DEF RequestStep, LinkTypeOK
<1> QED
  BY <1>1, <1>2 DEF LinkTypeOK, linkVars, pageVars

LEMMA AnswerType ==
    ASSUME BoxTypeOK, NEW b \in Browser
    PROVE  [i \in Id |-> IF i \in Answer(b) THEN Shown(i) ELSE Same] \in Change
BY DEF BoxTypeOK, Change, Version, Shown, Gone

\* The server's steps for one socket.
LEMMA ServerType ==
    ASSUME BoxInv, LinkTypeOK, PageTypeOK, NEW b \in Browser, ServerStep(b)
    PROVE  LinkTypeOK' /\ PageTypeOK'
<1> USE DEF BoxInv
<1>1. CASE ReadSeq(b) \/ ReadRows(b)
  <2>1. /\ UNCHANGED <<rowVars, conn, chan, pageVars, boxVars, faults>>
        /\ sync[b].pc \in {"asked", "seqRead"}
    BY <1>1 DEF ReadSeq, ReadRows
  <2>2. /\ sync' \in [Browser -> SyncState]
        /\ \A c \in Browser \ {b} : sync'[c] = sync[c]
    <3>1. CASE ReadSeq(b)
      <4>1. /\ sync' = [sync EXCEPT ![b] = [@ EXCEPT !.pc = "seqRead", !.seq = seq]]
            /\ sync \in [Browser -> SyncState]
        BY <3>1 DEF ReadSeq, LinkTypeOK
      <4>2. [sync[b] EXCEPT !.pc = "seqRead", !.seq = seq] \in SyncState
        BY <4>1 DEF SyncState, BoxTypeOK
      <4> QED
        BY <4>1, <4>2
    <3>2. CASE ReadRows(b)
      <4> DEFINE changes == [i \in Id |-> IF i \in Answer(b) THEN Shown(i) ELSE Same]
      <4>1. /\ sync' = [sync EXCEPT ![b] = [@ EXCEPT !.pc = "rowsRead", !.changes = changes]]
            /\ sync \in [Browser -> SyncState]
        BY <3>2 DEF ReadRows, LinkTypeOK
      <4>2. [sync[b] EXCEPT !.pc = "rowsRead", !.changes = changes] \in SyncState
        BY <4>1, AnswerType DEF SyncState
      <4> QED
        BY <4>1, <4>2
    <3> QED
      BY <1>1, <3>1, <3>2
  <2>3. conn[b] /\ ~ready[b]
    BY <2>1 DEF LinkTypeOK, PageTypeOK, NoSync
  <2> QED
    BY <2>1, <2>2, <2>3 DEF LinkTypeOK, PageTypeOK, rowVars, pageVars
<1>2. CASE SendResult(b)
  <2>1. /\ UNCHANGED <<rowVars, conn, pageVars, boxVars, faults>>
        /\ sync[b].pc = "rowsRead" /\ sync' = [sync EXCEPT ![b] = NoSync]
        /\ chan' = [chan EXCEPT ![b] = Append(@,
              [kind |-> IF lastSeq[b] > 0 THEN "delta" ELSE "snapshot",
               seq |-> sync[b].seq, changes |-> sync[b].changes])]
    BY <1>2 DEF SendResult
  <2>2. [kind |-> IF lastSeq[b] > 0 THEN "delta" ELSE "snapshot",
         seq |-> sync[b].seq, changes |-> sync[b].changes] \in Message({"batch"} \cup ResultKind)
    BY DEF LinkTypeOK, SyncState, Message, ResultKind
  <2>3. /\ chan' \in [Browser -> Seq(Message({"batch"} \cup ResultKind))]
        /\ \A c \in Browser \ {b} : chan'[c] = chan[c]
    BY <2>1, <2>2, AppendType DEF LinkTypeOK
  <2>4. sync' \in [Browser -> SyncState] /\ \A c \in Browser : sync'[c] \in {sync[c], NoSync}
    BY <2>1, NoSyncType DEF LinkTypeOK
  <2>5. conn[b]
    BY <2>1 DEF LinkTypeOK, NoSync
  <2> QED
    BY <2>1, <2>3, <2>4, <2>5 DEF LinkTypeOK, PageTypeOK, rowVars, pageVars
<1>3. CASE ServePost(b)
  <2>1. UNCHANGED <<linkVars, pageVars, outbox, faults>> /\ post[b].pc = "sent"
    BY <1>3 DEF ServePost
  <2>2. selected' = selected /\ edits' = edits
    BY <1>3 DEF ServePost, CreateEntity, CreateRefused, rowVars
  <2>3. outbox[b] # <<>> /\ Head(outbox[b]) \in Id
    BY <2>1 DEF HeadPosted, InFlight, BoxTypeOK
  <2>4. unsent' \in Seq(Message({"batch"}))
    <3>1. CASE CreateEntity(Head(outbox[b]))
      BY <2>3, <3>1, MutateUnsent DEF CreateEntity, RowState
    <3>2. CASE CreateRefused(Head(outbox[b])) \/ UNCHANGED rowVars
      BY <3>2 DEF CreateRefused, MutateNothing, rowVars, LinkTypeOK
    <3> QED
      BY <1>3, <3>1, <3>2 DEF ServePost
  <2> QED
    BY <2>1, <2>2, <2>4 DEF LinkTypeOK, PageTypeOK, linkVars, pageVars
<1> QED
  BY <1>1, <1>2, <1>3 DEF ServerStep

LEMMA BroadcastType ==
    ASSUME LinkTypeOK, PageTypeOK, Broadcast PROVE LinkTypeOK' /\ PageTypeOK'
<1>1. PICK k \in DOMAIN unsent :
        /\ unsent' = SubSeq(unsent, 1, k - 1) \o SubSeq(unsent, k + 1, Len(unsent))
        /\ chan' = [b \in Browser |-> IF conn[b] THEN Append(chan[b], unsent[k]) ELSE chan[b]]
        /\ UNCHANGED <<selected, edits, conn, sync, pageVars, faults>>
  BY DEF Broadcast
<1>2. /\ chan' \in [Browser -> Seq(Message({"batch"} \cup ResultKind))]
      /\ \A b \in Browser : ~conn[b] => chan'[b] = chan[b]
  <2>1. ASSUME NEW b \in Browser
        PROVE  (IF conn[b] THEN Append(chan[b], unsent[k]) ELSE chan[b])
                  \in Seq(Message({"batch"} \cup ResultKind))
    <3>1. chan[b] \in Seq(Message({"batch"} \cup ResultKind))
      BY DEF LinkTypeOK
    <3>2. Append(chan[b], unsent[k]) \in Seq(Message({"batch"} \cup ResultKind))
      BY <3>1, UnsentType, AppendType
    <3> QED
      BY <3>1, <3>2
  <2> QED
    BY <1>1, <2>1
<1> QED
  BY <1>1, <1>2, UnsentType DEF LinkTypeOK, PageTypeOK, pageVars

\* A finite set of batches has a newest one.  That is an invariant here, as sets grow by one
\* batch at a time.
HasNewest(batches) ==
    batches # {} => \E batch \in batches : \A other \in batches : other.seq <= batch.seq

Writing(batches, i) == {batch \in batches : batch.changes[i] # Same}

NewestKnown ==
    \A b \in Browser : HasNewest(queue[b]) /\ \A i \in Id : HasNewest(Writing(queue[b], i))

LEMMA NewestAdded ==
    ASSUME NEW batches, \A m \in batches : m.seq \in Nat, NEW e, e.seq \in Nat, HasNewest(batches)
    PROVE  HasNewest(batches \cup {e})
<1>1. CASE batches = {}
  BY <1>1 DEF HasNewest
<1>2. CASE batches # {}
  <2>1. PICK m \in batches : \A o \in batches : o.seq <= m.seq
    BY <1>2 DEF HasNewest
  <2>2. CASE e.seq <= m.seq
    BY <2>1, <2>2 DEF HasNewest
  <2>3. CASE m.seq < e.seq
    <3>1. \A o \in batches : o.seq <= e.seq
      BY <2>1, <2>3
    <3> QED
      BY <3>1 DEF HasNewest
  <2> QED
    BY <2>1, <2>2, <2>3
<1> QED
  BY <1>1, <1>2

\* Those newer than an answer have a newest one, too.
LEMMA NewestLeft ==
    ASSUME NEW batches, \A m \in batches : m.seq \in Nat, NEW n \in Nat, HasNewest(batches)
    PROVE  HasNewest({m \in batches : m.seq > n})
<1> SUFFICES ASSUME NEW e \in batches, e.seq > n
             PROVE  \E m \in {m \in batches : m.seq > n} :
                       \A o \in {o \in batches : o.seq > n} : o.seq <= m.seq
  BY DEF HasNewest
<1>1. PICK m \in batches : \A o \in batches : o.seq <= m.seq
  BY DEF HasNewest
<1> QED
  BY <1>1

LEMMA AsideNewest ==
    ASSUME PageTypeOK, NewestKnown, NEW b \in Browser, NEW result, result.seq \in Nat
    PROVE  /\ Aside(b, result) \subseteq Message({"batch"})
           /\ HasNewest(Aside(b, result))
           /\ \A i \in Id : HasNewest(Writing(Aside(b, result), i))
<1>1. queue[b] \subseteq Message({"batch"}) /\ \A m \in queue[b] : m.seq \in Nat
  BY DEF PageTypeOK, Message
<1>2. HasNewest(Aside(b, result))
  BY <1>1, NewestLeft DEF NewestKnown, Aside
<1>3. ASSUME NEW i \in Id PROVE HasNewest(Writing(Aside(b, result), i))
  <2>1. HasNewest(Writing(queue[b], i))
    BY DEF NewestKnown
  <2>2. \A m \in Writing(queue[b], i) : m.seq \in Nat
    BY <1>1 DEF Writing
  <2>3. HasNewest({m \in Writing(queue[b], i) : m.seq > result.seq})
    BY <2>1, <2>2, NewestLeft
  <2>4. {m \in Writing(queue[b], i) : m.seq > result.seq} = Writing(Aside(b, result), i)
    BY DEF Writing, Aside
  <2> QED
    BY <2>3, <2>4
<1> QED
  BY <1>1, <1>2, <1>3 DEF Aside

\* What the answer and the batches set aside make of a row and of lastSeq.
LEMMA NewestIs ==
    ASSUME NEW batches \in SUBSET Message({"batch"}), HasNewest(batches), NEW n \in Nat
    PROVE  /\ Newest(n, batches) \in Nat
           /\ batches = {} => Newest(n, batches) = n
           /\ batches # {} => \E m \in batches : Newest(n, batches) = m.seq
           /\ \A m \in batches : m.seq <= Newest(n, batches)
<1>1. CASE batches = {}
  BY <1>1 DEF Newest
<1>2. CASE batches # {}
  <2> DEFINE top == CHOOSE m \in batches : \A o \in batches : o.seq <= m.seq
  <2>1. \E m \in batches : \A o \in batches : o.seq <= m.seq
    BY <1>2 DEF HasNewest
  <2>2. top \in batches /\ \A o \in batches : o.seq <= top.seq
    BY <2>1
  <2>3. Newest(n, batches) = top.seq
    BY <1>2 DEF Newest
  <2>4. top.seq \in Nat
    BY <2>2 DEF Message
  <2> QED
    BY <1>2, <2>2, <2>3, <2>4
<1> QED
  BY <1>1, <1>2

LEMMA InSeqOrderIs ==
    ASSUME NEW batches \in SUBSET Message({"batch"}), NEW old, NEW i \in Id,
           HasNewest(Writing(batches, i))
    PROVE  /\ Writing(batches, i) = {} => InSeqOrder(old, batches)[i] = old[i]
           /\ Writing(batches, i) # {} =>
                 \E m \in Writing(batches, i) :
                    /\ \A o \in Writing(batches, i) : o.seq <= m.seq
                    /\ InSeqOrder(old, batches)[i] = m.changes[i]
                    /\ m.changes[i] \in Nat
<1>1. Writing(batches, i) = {m \in batches : m.changes[i] # Same}
  BY DEF Writing
<1>2. CASE Writing(batches, i) = {}
  BY <1>1, <1>2 DEF InSeqOrder
<1>3. CASE Writing(batches, i) # {}
  <2> DEFINE top == CHOOSE m \in Writing(batches, i) : \A o \in Writing(batches, i) : o.seq <= m.seq
  <2>1. \E m \in Writing(batches, i) : \A o \in Writing(batches, i) : o.seq <= m.seq
    BY <1>3 DEF HasNewest
  <2>2. top \in Writing(batches, i) /\ \A o \in Writing(batches, i) : o.seq <= top.seq
    BY <2>1
  <2>3. InSeqOrder(old, batches)[i] = top.changes[i]
    BY <1>1, <1>3 DEF InSeqOrder
  <2>4. top.changes[i] \in Nat
    BY <2>2 DEF Writing, Message, Change, Version
  <2> QED
    BY <1>3, <2>2, <2>3, <2>4
<1> QED
  BY <1>2, <1>3

\* What the arrival of a message does.
LEMMA TailType ==
    ASSUME NEW S, NEW list \in Seq(S), list # <<>>
    PROVE  Head(list) \in S /\ Tail(list) \in Seq(S)
OBVIOUS

LEMMA MessageIs ==
    ASSUME NEW m \in Message({"batch"} \cup ResultKind)
    PROVE  /\ m.kind \in {"batch"} \cup ResultKind /\ m.seq \in Nat /\ m.changes \in Change
           /\ m.kind = "batch" => m \in Message({"batch"})
BY DEF Message

LEMMA ApplyType ==
    ASSUME NEW S, NEW old \in [Id -> S], NEW changes \in Change, Nat \subseteq S
    PROVE  Apply(old, changes) \in [Id -> S]
BY DEF Apply, Change, Version

LEMMA BatchArrives ==
    ASSUME LinkTypeOK, PageTypeOK, NewestKnown, NEW b \in Browser, ReceiveBatch(b)
    PROVE  LinkTypeOK' /\ PageTypeOK' /\ NewestKnown'
<1> DEFINE batch == Head(chan[b])
<1>1. /\ chan[b] # <<>> /\ batch.kind = "batch" /\ chan' = [chan EXCEPT ![b] = Tail(@)]
      /\ \/ /\ ready[b]
            /\ records' = [records EXCEPT ![b] = Apply(@, batch.changes)]
            /\ lastSeq' = [lastSeq EXCEPT ![b] = batch.seq]
            /\ queue' = queue
         \/ /\ ~ready[b]
            /\ queue' = [queue EXCEPT ![b] = @ \cup {batch}]
            /\ records' = records /\ lastSeq' = lastSeq
      /\ UNCHANGED <<rowVars, conn, sync, ready, loaded, boxVars, faults>>
  BY DEF ReceiveBatch
<1>2. /\ chan[b] \in Seq(Message({"batch"} \cup ResultKind)) /\ conn[b]
  BY <1>1 DEF LinkTypeOK
<1>3. batch \in Message({"batch"}) /\ Tail(chan[b]) \in Seq(Message({"batch"} \cup ResultKind))
  BY <1>1, <1>2, TailType, MessageIs
<1>4. LinkTypeOK'
  <2>1. chan' \in [Browser -> Seq(Message({"batch"} \cup ResultKind))]
    BY <1>1, <1>3 DEF LinkTypeOK
  <2>2. \A c \in Browser \ {b} : chan'[c] = chan[c] /\ queue'[c] = queue[c]
    BY <1>1 DEF LinkTypeOK, PageTypeOK
  <2> QED
    BY <1>1, <1>2, <2>1, <2>2 DEF LinkTypeOK, rowVars
<1>5. PageTypeOK' /\ NewestKnown'
  <2>1. CASE ready[b]
    <3>1. records' \in [Browser -> [Id -> Version \cup {Draft}]]
      <4>1. records[b] \in [Id -> Version \cup {Draft}] /\ batch.changes \in Change
        BY <1>3 DEF PageTypeOK, Message
      <4>2. Apply(records[b], batch.changes) \in [Id -> Version \cup {Draft}]
        BY <4>1, ApplyType DEF Version
      <4> QED
        BY <1>1, <2>1, <4>2 DEF PageTypeOK
    <3>2. lastSeq' \in [Browser -> Nat]
      BY <1>1, <1>3, <2>1 DEF PageTypeOK, Message
    <3> QED
      BY <1>1, <2>1, <3>1, <3>2 DEF PageTypeOK, NewestKnown, Writing
  <2>2. CASE ~ready[b]
    <3>1. /\ queue'[b] = queue[b] \cup {batch} /\ queue[b] \subseteq Message({"batch"})
          /\ \A c \in Browser \ {b} : queue'[c] = queue[c]
      BY <1>1, <2>2 DEF PageTypeOK
    <3>2. queue' \in [Browser -> SUBSET Message({"batch"})]
      BY <1>1, <1>3, <2>2 DEF PageTypeOK
    <3>3. PageTypeOK'
      BY <1>1, <2>2, <3>1, <3>2 DEF PageTypeOK
    <3>4. (\A m \in queue[b] : m.seq \in Nat) /\ batch.seq \in Nat
      BY <1>3, <3>1 DEF Message
    <3>5. HasNewest(queue'[b])
      BY <3>1, <3>4, NewestAdded DEF NewestKnown
    <3>6. ASSUME NEW i \in Id PROVE HasNewest(Writing(queue'[b], i))
      <4>1. CASE batch.changes[i] = Same
        <5>1. Writing(queue'[b], i) = Writing(queue[b], i)
          BY <3>1, <4>1 DEF Writing
        <5> QED
          BY <5>1 DEF NewestKnown
      <4>2. CASE batch.changes[i] # Same
        <5>1. Writing(queue'[b], i) = Writing(queue[b], i) \cup {batch}
          BY <3>1, <4>2 DEF Writing
        <5>2. HasNewest(Writing(queue[b], i)) /\ \A m \in Writing(queue[b], i) : m.seq \in Nat
          BY <3>4 DEF NewestKnown, Writing
        <5>3. HasNewest(Writing(queue[b], i) \cup {batch})
          BY <3>4, <5>2, NewestAdded
        <5> QED
          BY <5>1, <5>3
      <4> QED
        BY <4>1, <4>2
    <3>7. NewestKnown'
      BY <3>1, <3>5, <3>6 DEF NewestKnown
    <3> QED
      BY <3>3, <3>7
  <2> QED
    BY <2>1, <2>2
<1> QED
  BY <1>4, <1>5

LEMMA NoneIsNewest == HasNewest({}) /\ \A i \in Id : HasNewest(Writing({}, i))
BY DEF HasNewest, Writing

LEMMA ResultArrives ==
    ASSUME LinkTypeOK, PageTypeOK, NewestKnown, Waiting, NEW b \in Browser, ReceiveResult(b)
    PROVE  LinkTypeOK' /\ PageTypeOK' /\ NewestKnown'
<1> DEFINE result == Head(chan[b])
           empty == [i \in Id |-> Gone]
           start == IF result.kind = "snapshot" THEN empty ELSE records[b]
           base == Apply(start, result.changes)
<1>1. /\ chan[b] # <<>> /\ chan' = [chan EXCEPT ![b] = Tail(@)]
      /\ records' = [records EXCEPT ![b] = InSeqOrder(base, Aside(b, result))]
      /\ lastSeq' = [lastSeq EXCEPT ![b] = Newest(result.seq, Aside(b, result))]
      /\ loaded' = [loaded EXCEPT ![b] = @ \/ result.kind = "snapshot"]
      /\ queue' = [queue EXCEPT ![b] = {}]
      /\ ready' = [ready EXCEPT ![b] = TRUE]
      /\ UNCHANGED <<rowVars, conn, sync, outbox, faults>>
      /\ result.kind \in ResultKind
  BY DEF ReceiveResult
<1>2. chan[b] \in Seq(Message({"batch"} \cup ResultKind)) /\ conn[b]
  BY <1>1 DEF LinkTypeOK
<1>3. /\ result.seq \in Nat /\ result.changes \in Change
      /\ Tail(chan[b]) \in Seq(Message({"batch"} \cup ResultKind))
  BY <1>1, <1>2, TailType, MessageIs
<1>4. LinkTypeOK'
  <2>1. chan' \in [Browser -> Seq(Message({"batch"} \cup ResultKind))]
    BY <1>1, <1>3 DEF LinkTypeOK
  <2>2. \A c \in Browser \ {b} : /\ chan'[c] = chan[c] /\ queue'[c] = queue[c]
                                 /\ ready'[c] = ready[c]
    BY <1>1 DEF LinkTypeOK, PageTypeOK
  <2> QED
    BY <1>1, <1>2, <2>1, <2>2 DEF LinkTypeOK, rowVars
<1>5. /\ Aside(b, result) \in SUBSET Message({"batch"})
      /\ HasNewest(Aside(b, result))
      /\ \A i \in Id : HasNewest(Writing(Aside(b, result), i))
  BY <1>3, AsideNewest
<1>6. lastSeq' \in [Browser -> Nat]
  BY <1>1, <1>3, <1>5, NewestIs DEF PageTypeOK
<1>7. base \in [Id -> Version \cup {Draft}]
  <2>1. start \in [Id -> Version \cup {Draft}]
    BY DEF PageTypeOK, Version, Gone
  <2> QED
    BY <1>3, <2>1, ApplyType DEF Version
<1>8. records' \in [Browser -> [Id -> Version \cup {Draft}]]
  <2>1. ASSUME NEW i \in Id PROVE InSeqOrder(base, Aside(b, result))[i] \in Version \cup {Draft}
    BY <1>5, <1>7, InSeqOrderIs DEF Version
  <2>2. InSeqOrder(base, Aside(b, result)) \in [Id -> Version \cup {Draft}]
    BY <2>1 DEF InSeqOrder
  <2> QED
    BY <1>1, <2>2 DEF PageTypeOK
<1>9. loaded' \in [Browser -> BOOLEAN] /\ ready' \in [Browser -> BOOLEAN]
  BY <1>1 DEF PageTypeOK
<1>10. /\ queue' \in [Browser -> SUBSET Message({"batch"})] /\ queue'[b] = {}
       /\ \A c \in Browser \ {b} : queue'[c] = queue[c] /\ ready'[c] = ready[c]
  BY <1>1 DEF PageTypeOK
<1>11. sync[b] = NoSync
  BY <1>1, <1>2 DEF Waiting
<1>12. PageTypeOK'
  BY <1>1, <1>6, <1>8, <1>9, <1>10, <1>11 DEF PageTypeOK
<1>13. NewestKnown'
  <2>1. ASSUME NEW c \in Browser
        PROVE  HasNewest(queue'[c]) /\ \A i \in Id : HasNewest(Writing(queue'[c], i))
    <3>1. CASE c = b
      BY <1>10, <3>1, NoneIsNewest
    <3>2. CASE c # b
      BY <1>10, <3>2 DEF NewestKnown
    <3> QED
      BY <3>1, <3>2
  <2> QED
    BY <2>1 DEF NewestKnown
<1> QED
  BY <1>4, <1>12, <1>13

\* A socket goes up or down.
LEMMA ConnectType ==
    ASSUME LinkTypeOK, PageTypeOK, NEW b \in Browser, Connect(b)
    PROVE  LinkTypeOK' /\ PageTypeOK'
<1>1. /\ ~conn[b] /\ conn' = [conn EXCEPT ![b] = TRUE]
      /\ sync' = [sync EXCEPT ![b] = [@ EXCEPT !.pc = "asked"]]
      /\ UNCHANGED <<rowVars, chan, pageVars, boxVars, faults>>
  BY DEF Connect, LinkTypeOK
<1>2. [sync[b] EXCEPT !.pc = "asked"] \in SyncState
  BY DEF LinkTypeOK, SyncState
<1>3. sync' \in [Browser -> SyncState] /\ \A c \in Browser \ {b} : sync'[c] = sync[c]
  BY <1>1, <1>2 DEF LinkTypeOK
<1>4. conn' \in [Browser -> BOOLEAN] /\ conn'[b] /\ \A c \in Browser \ {b} : conn'[c] = conn[c]
  BY <1>1 DEF LinkTypeOK
<1>5. ~ready[b]
  BY <1>1 DEF LinkTypeOK
<1> QED
  BY <1>1, <1>3, <1>4, <1>5 DEF LinkTypeOK, PageTypeOK, rowVars, pageVars

LEMMA DisconnectedType ==
    ASSUME LinkTypeOK, PageTypeOK, NewestKnown, NEW browsers \in SUBSET Browser,
           Disconnected(browsers)
    PROVE  /\ conn' \in [Browser -> BOOLEAN]
           /\ chan' \in [Browser -> Seq(Message({"batch"} \cup ResultKind))]
           /\ sync' \in [Browser -> SyncState]
           /\ ready' \in [Browser -> BOOLEAN]
           /\ queue' \in [Browser -> SUBSET Message({"batch"})]
           /\ \A b \in Browser :
                 \/ /\ ~conn'[b] /\ ~ready'[b] /\ chan'[b] = <<>> /\ queue'[b] = {}
                    /\ sync'[b] = NoSync
                 \/ /\ conn'[b] = conn[b] /\ ready'[b] = ready[b] /\ chan'[b] = chan[b]
                    /\ queue'[b] = queue[b] /\ sync'[b] = sync[b]
           /\ \A b \in browsers : ~conn'[b] /\ ~ready'[b]
           /\ NewestKnown'
<1> USE DEF Disconnected
<1>1. conn' \in [Browser -> BOOLEAN] /\ ready' \in [Browser -> BOOLEAN]
  BY DEF LinkTypeOK, PageTypeOK
<1>2. chan' \in [Browser -> Seq(Message({"batch"} \cup ResultKind))]
  <2>1. <<>> \in Seq(Message({"batch"} \cup ResultKind))
    OBVIOUS
  <2>2. \A b \in Browser : chan[b] \in Seq(Message({"batch"} \cup ResultKind))
    BY DEF LinkTypeOK
  <2> QED
    BY <2>1, <2>2
<1>3. sync' \in [Browser -> SyncState]
  BY NoSyncType DEF LinkTypeOK
<1>4. queue' \in [Browser -> SUBSET Message({"batch"})]
  BY DEF PageTypeOK
<1>5. ASSUME NEW b \in Browser
      PROVE  \/ /\ ~conn'[b] /\ ~ready'[b] /\ chan'[b] = <<>> /\ queue'[b] = {}
                /\ sync'[b] = NoSync
             \/ /\ conn'[b] = conn[b] /\ ready'[b] = ready[b] /\ chan'[b] = chan[b]
                /\ queue'[b] = queue[b] /\ sync'[b] = sync[b]
  <2>1. CASE b \in browsers
    BY <2>1
  <2>2. CASE b \notin browsers
    BY <2>2 DEF LinkTypeOK, PageTypeOK
  <2> QED
    BY <2>1, <2>2
<1>6. \A b \in browsers : ~conn'[b] /\ ~ready'[b]
  OBVIOUS
<1>7. NewestKnown'
  <2>1. ASSUME NEW b \in Browser
        PROVE  HasNewest(queue'[b]) /\ \A i \in Id : HasNewest(Writing(queue'[b], i))
    <3>1. CASE queue'[b] = {}
      BY <3>1, NoneIsNewest
    <3>2. CASE queue'[b] = queue[b]
      BY <3>2 DEF NewestKnown
    <3> QED
      BY <1>5, <3>1, <3>2
  <2> QED
    BY <2>1 DEF NewestKnown
<1> QED
  BY <1>1, <1>2, <1>3, <1>4, <1>5, <1>6, <1>7

LEMMA FaultType ==
    ASSUME LinkTypeOK, PageTypeOK, NewestKnown,
           \/ ServerCrash
           \/ \E b \in Browser : Drop(b) \/ Reload(b) \/ PostLost(b)
    PROVE  LinkTypeOK' /\ PageTypeOK' /\ NewestKnown'
<1>1. Fault => faults' \in 0..MaxFaults
  BY BrowserAssumption DEF Fault, LinkTypeOK
<1>2. CASE ServerCrash
  <2>1. /\ Fault /\ Disconnected(Browser) /\ selected' = {} /\ unsent' = <<>>
        /\ UNCHANGED <<seq, row, edits, loaded, records, lastSeq, outbox>>
    BY <1>2 DEF ServerCrash
  <2>2. unsent' \in Seq(Message({"batch"}))
    BY <2>1
  <2> QED
    BY <1>1, <2>1, <2>2, DisconnectedType DEF LinkTypeOK, PageTypeOK
<1>3. ASSUME NEW b \in Browser, Drop(b) PROVE LinkTypeOK' /\ PageTypeOK' /\ NewestKnown'
  <2>1. Fault /\ Disconnected({b}) /\ UNCHANGED <<rowVars, loaded, records, lastSeq, boxVars>>
    BY <1>3 DEF Drop
  <2> QED
    BY <1>1, <2>1, DisconnectedType DEF LinkTypeOK, PageTypeOK, rowVars
<1>4. ASSUME NEW b \in Browser, Reload(b) PROVE LinkTypeOK' /\ PageTypeOK' /\ NewestKnown'
  <2>1. /\ Fault /\ Disconnected({b}) /\ UNCHANGED rowVars
        /\ loaded' = [loaded EXCEPT ![b] = FALSE]
        /\ records' = [records EXCEPT ![b] = [i \in Id |-> Gone]]
        /\ lastSeq' = [lastSeq EXCEPT ![b] = 0]
    BY <1>4 DEF Reload
  <2>2. records' \in [Browser -> [Id -> Version \cup {Draft}]]
    <3>1. [i \in Id |-> Gone] \in [Id -> Version \cup {Draft}]
      BY DEF Gone, Version
    <3> QED
      BY <2>1, <3>1 DEF PageTypeOK
  <2>3. lastSeq' \in [Browser -> Nat] /\ loaded' \in [Browser -> BOOLEAN]
    BY <2>1 DEF PageTypeOK
  <2> QED
    BY <1>1, <2>1, <2>2, <2>3, DisconnectedType DEF LinkTypeOK, PageTypeOK, rowVars
<1>5. ASSUME NEW b \in Browser, PostLost(b) PROVE LinkTypeOK' /\ PageTypeOK' /\ NewestKnown'
  <2>1. Fault /\ UNCHANGED <<rowVars, linkVars, pageVars, outbox>>
    BY <1>5 DEF PostLost
  <2> QED
    BY <1>1, <2>1 DEF LinkTypeOK, PageTypeOK, NewestKnown, rowVars, linkVars, pageVars
<1> QED
  BY <1>2, <1>3, <1>4, <1>5

\* A draft, and the answers to posts.
LEMMA DraftType ==
    ASSUME LinkTypeOK, PageTypeOK, NEW b \in Browser, Put(b) \/ Posted(b) \/ Refused(b)
    PROVE  LinkTypeOK' /\ PageTypeOK'
<1>1. CASE Put(b)
  <2>1. PICK i \in Id : records' = [records EXCEPT ![b] = [@ EXCEPT ![i] = Draft]]
    BY <1>1 DEF Put, Fresh, PageTypeOK
  <2>2. /\ Edit
        /\ UNCHANGED <<seq, row, selected, unsent, linkVars, ready, loaded, queue, lastSeq, faults>>
    BY <1>1 DEF Put
  <2>3. records' \in [Browser -> [Id -> Version \cup {Draft}]]
    <3>1. [records[b] EXCEPT ![i] = Draft] \in [Id -> Version \cup {Draft}]
      BY DEF PageTypeOK
    <3> QED
      BY <2>1, <3>1 DEF PageTypeOK
  <2>4. edits' \in 0..MaxEdits
    BY <2>2, WorkspaceAssumption DEF Edit, LinkTypeOK
  <2> QED
    BY <2>2, <2>3, <2>4 DEF LinkTypeOK, PageTypeOK, linkVars
<1>2. CASE Posted(b) \/ Refused(b)
  <2>1. UNCHANGED <<rowVars, linkVars, pageVars, faults>>
    BY <1>2 DEF Posted, Refused
  <2> QED
    BY <2>1 DEF LinkTypeOK, PageTypeOK, rowVars, linkVars, pageVars
<1> QED
  BY <1>1, <1>2

LEMMA AppendIs ==
    ASSUME NEW S, NEW list \in Seq(S), NEW e
    PROVE  /\ DOMAIN Append(list, e) = DOMAIN list \cup {Len(list) + 1}
           /\ Append(list, e)[Len(list) + 1] = e
           /\ \A k \in DOMAIN list : Append(list, e)[k] = list[k]
OBVIOUS

LEMMA TailIs ==
    ASSUME NEW S, NEW list \in Seq(S), list # <<>>
    PROVE  /\ \A k \in DOMAIN Tail(list) :
                 k \in Nat /\ k > 0 /\ k + 1 \in DOMAIN list /\ Tail(list)[k] = list[k + 1]
           /\ \A k \in DOMAIN list :
                 k = 1 \/ (k \in Nat /\ k > 1 /\ k - 1 \in DOMAIN Tail(list) /\ Tail(list)[k - 1] = list[k])
           /\ 1 \in DOMAIN list /\ Head(list) = list[1]
OBVIOUS

\* Seen from one browser: what it waits for.
WaitsFor(list, open, answer) ==
    \A k \in DOMAIN list : list[k].kind \in ResultKind =>
       open /\ answer = NoSync /\ \A l \in DOMAIN list : list[l].kind \in ResultKind => l = k

LEMMA WaitingStep ==
    ASSUME LinkTypeOK, PageTypeOK, Waiting, BoxInv, [Next]_vars PROVE Waiting'
<1>1. Waiting = \A b \in Browser : WaitsFor(chan[b], ~ready[b], sync[b])
  BY DEF Waiting, WaitsFor
<1>2. SUFFICES ASSUME NEW b \in Browser PROVE WaitsFor(chan'[b], ~ready'[b], sync'[b])
  BY DEF Waiting, WaitsFor
<1>3. WaitsFor(chan[b], ~ready[b], sync[b]) /\ chan[b] \in Seq(Message({"batch"} \cup ResultKind))
  BY <1>1 DEF LinkTypeOK
<1>4. CASE chan'[b] = chan[b] /\ ready'[b] = ready[b] /\ sync'[b] = sync[b]
  BY <1>3, <1>4
<1>5. CASE chan'[b] = <<>>
  BY <1>5 DEF WaitsFor
<1>6. CASE chan'[b] = chan[b] /\ sync[b] # NoSync
  BY <1>3, <1>6 DEF WaitsFor
<1>7. ASSUME NEW m, m.kind = "batch", chan'[b] = Append(chan[b], m), ready'[b] = ready[b],
             sync'[b] = sync[b]
      PROVE  WaitsFor(chan'[b], ~ready'[b], sync'[b])
  BY <1>3, <1>7, AppendIs DEF WaitsFor, ResultKind
<1>8. ASSUME NEW m, chan'[b] = Append(chan[b], m), ~ready'[b], sync[b] # NoSync, sync'[b] = NoSync
      PROVE  WaitsFor(chan'[b], ~ready'[b], sync'[b])
  BY <1>3, <1>8, AppendIs DEF WaitsFor
<1>9. ASSUME chan[b] # <<>>, chan'[b] = Tail(chan[b]), sync'[b] = sync[b],
             ready'[b] = ready[b] \/ Head(chan[b]).kind \in ResultKind
      PROVE  WaitsFor(chan'[b], ~ready'[b], sync'[b])
  <2> SUFFICES ASSUME NEW k \in DOMAIN chan'[b], chan'[b][k].kind \in ResultKind
               PROVE  /\ ~ready'[b] /\ sync'[b] = NoSync
                      /\ \A l \in DOMAIN chan'[b] : chan'[b][l].kind \in ResultKind => l = k
    BY DEF WaitsFor
  <2>1. k \in Nat /\ k > 0 /\ k + 1 \in DOMAIN chan[b] /\ chan[b][k + 1].kind \in ResultKind
    BY <1>3, <1>9, TailIs
  <2>2. Head(chan[b]).kind \notin ResultKind
    BY <1>3, <1>9, <2>1, TailIs DEF WaitsFor
  <2>3. ASSUME NEW l \in DOMAIN chan'[b], chan'[b][l].kind \in ResultKind PROVE l = k
    <3>1. l \in Nat /\ l + 1 \in DOMAIN chan[b] /\ chan[b][l + 1].kind \in ResultKind
      BY <1>3, <1>9, <2>3, TailIs
    <3>2. l + 1 = k + 1
      BY <1>3, <2>1, <3>1 DEF WaitsFor
    <3> QED
      BY <2>1, <3>1, <3>2
  <2> QED
    BY <1>3, <1>9, <2>1, <2>2, <2>3 DEF WaitsFor
<1>10. CASE UNCHANGED <<chan, ready, sync>>
  BY <1>4, <1>10
<1>11. CASE Broadcast
  <2>1. PICK k \in DOMAIN unsent :
          /\ chan' = [c \in Browser |-> IF conn[c] THEN Append(chan[c], unsent[k]) ELSE chan[c]]
          /\ UNCHANGED <<ready, sync>>
    BY <1>11 DEF Broadcast, pageVars
  <2>2. unsent[k].kind = "batch"
    BY UnsentType DEF Message
  <2> QED
    BY <1>4, <1>7, <2>1, <2>2
<1>12. ASSUME NEW c \in Browser, Connect(c) PROVE WaitsFor(chan'[b], ~ready'[b], sync'[b])
  <2>1. UNCHANGED <<chan, ready>> /\ ~conn[c] /\ sync' = [sync EXCEPT ![c].pc = "asked"]
    BY <1>12 DEF Connect, pageVars
  <2>2. CASE b = c
    BY <1>5, <2>1, <2>2 DEF LinkTypeOK
  <2>3. CASE b # c
    BY <1>4, <2>1, <2>3 DEF LinkTypeOK
  <2> QED
    BY <2>2, <2>3
<1>13. ASSUME NEW c \in Browser, ReadSeq(c) \/ ReadRows(c)
       PROVE  WaitsFor(chan'[b], ~ready'[b], sync'[b])
  <2>1. /\ UNCHANGED <<chan, ready>> /\ sync[c].pc # "none"
        /\ \E new : sync' = [sync EXCEPT ![c] = new]
    BY <1>13 DEF ReadSeq, ReadRows, pageVars
  <2>2. CASE b = c
    BY <1>6, <2>1, <2>2 DEF NoSync
  <2>3. CASE b # c
    BY <1>4, <2>1, <2>3 DEF LinkTypeOK
  <2> QED
    BY <2>2, <2>3
<1>14. ASSUME NEW c \in Browser, SendResult(c) PROVE WaitsFor(chan'[b], ~ready'[b], sync'[b])
  <2>1. /\ ready' = ready /\ sync[c].pc = "rowsRead" /\ sync' = [sync EXCEPT ![c] = NoSync]
        /\ \E m : chan' = [chan EXCEPT ![c] = Append(@, m)]
    BY <1>14 DEF SendResult, pageVars
  <2>2. CASE b = c
    <3>1. sync[b] # NoSync /\ ~ready[b]
      BY <2>1, <2>2 DEF NoSync, PageTypeOK
    <3>2. sync'[b] = NoSync /\ \E m : chan'[b] = Append(chan[b], m)
      BY <2>1, <2>2 DEF LinkTypeOK
    <3> QED
      BY <1>8, <2>1, <3>1, <3>2
  <2>3. CASE b # c
    BY <1>4, <2>1, <2>3 DEF LinkTypeOK
  <2> QED
    BY <2>2, <2>3
<1>15. ASSUME NEW c \in Browser, ReceiveBatch(c) \/ ReceiveResult(c)
       PROVE  WaitsFor(chan'[b], ~ready'[b], sync'[b])
  <2>1. /\ chan[c] # <<>> /\ chan' = [chan EXCEPT ![c] = Tail(@)] /\ sync' = sync
        /\ \/ ready' = ready
           \/ Head(chan[c]).kind \in ResultKind /\ ready' = [ready EXCEPT ![c] = TRUE]
    BY <1>15 DEF ReceiveBatch, ReceiveResult
  <2>2. CASE b = c
    BY <1>9, <2>1, <2>2 DEF LinkTypeOK
  <2>3. CASE b # c
    BY <1>4, <2>1, <2>3 DEF LinkTypeOK, PageTypeOK
  <2> QED
    BY <2>2, <2>3
<1>16. ASSUME NEW browsers \in SUBSET Browser, Disconnected(browsers)
       PROVE  WaitsFor(chan'[b], ~ready'[b], sync'[b])
  <2>1. CASE b \in browsers
    BY <1>5, <1>16, <2>1 DEF Disconnected
  <2>2. CASE b \notin browsers
    <3>1. chan'[b] = chan[b] /\ ready'[b] = ready[b] /\ sync'[b] = sync[b]
      BY <1>16, <2>2 DEF Disconnected, PageTypeOK
    <3> QED
      BY <1>4, <3>1
  <2> QED
    BY <2>1, <2>2
<1>17. ASSUME NEW c \in Browser, ServePost(c) \/ Posted(c) \/ Refused(c) \/ Put(c) \/ PostLost(c)
       PROVE  UNCHANGED <<chan, ready, sync>>
  BY <1>17 DEF ServePost, Posted, Refused, Put, PostLost, linkVars, pageVars
<1>18. ASSUME NEW c \in Browser, Drop(c) \/ Reload(c) PROVE Disconnected({c})
  BY <1>18 DEF Drop, Reload
<1>19. ServerCrash => Disconnected(Browser)
  BY DEF ServerCrash
<1>20. CASE RequestStep(Fresh) /\ UNCHANGED <<linkVars, pageVars, boxVars, faults>>
  BY <1>10, <1>20 DEF linkVars, pageVars
<1>21. CASE UNCHANGED vars
  BY <1>10, <1>21 DEF vars, linkVars, pageVars
<1> QED
  BY <1>10, <1>11, <1>12, <1>13, <1>14, <1>15, <1>16, <1>17, <1>18, <1>19, <1>20, <1>21
  DEF Next, ServerStep, BrowserStep

TypeInv == BoxInv /\ LinkTypeOK /\ PageTypeOK /\ Waiting /\ NewestKnown

LEMMA InitType == ASSUME Init PROVE TypeInv
<1>1. /\ conn = [b \in Browser |-> FALSE] /\ chan = [b \in Browser |-> <<>>]
      /\ sync = [b \in Browser |-> NoSync] /\ ready = [b \in Browser |-> FALSE]
      /\ loaded = [b \in Browser |-> FALSE] /\ queue = [b \in Browser |-> {}]
      /\ records = [b \in Browser |-> [i \in Id |-> Gone]] /\ lastSeq = [b \in Browser |-> 0]
      /\ selected = {} /\ unsent = <<>> /\ edits = 0 /\ faults = 0
  BY DEF Init, RowsInit
<1>2. LinkTypeOK
  <2>1. unsent \in Seq(Message({"batch"})) /\ edits \in 0..MaxEdits /\ faults \in 0..MaxFaults
    BY <1>1, WorkspaceAssumption, BrowserAssumption
  <2>2. chan \in [Browser -> Seq(Message({"batch"} \cup ResultKind))]
    <3>1. <<>> \in Seq(Message({"batch"} \cup ResultKind))
      OBVIOUS
    <3> QED
      BY <1>1, <3>1
  <2>3. sync \in [Browser -> SyncState]
    BY <1>1, NoSyncType
  <2> QED
    BY <1>1, <2>1, <2>2, <2>3 DEF LinkTypeOK
<1>3. PageTypeOK
  <2>1. [i \in Id |-> Gone] \in [Id -> Version \cup {Draft}]
    BY DEF Gone, Version
  <2>2. queue \in [Browser -> SUBSET Message({"batch"})]
    BY <1>1
  <2> QED
    BY <1>1, <2>1, <2>2 DEF PageTypeOK
<1>4. Waiting
  BY <1>1 DEF Waiting
<1>5. NewestKnown
  BY <1>1, NoneIsNewest DEF NewestKnown
<1> QED
  BY <1>2, <1>3, <1>4, <1>5, InitBox DEF TypeInv

LEMMA TypeStep == ASSUME TypeInv, [Next]_vars PROVE TypeInv'
<1>1. BoxInv /\ BoxTypeOK /\ LinkTypeOK /\ PageTypeOK /\ Waiting /\ NewestKnown
  BY DEF TypeInv, BoxInv
<1>2. BoxInv' /\ Waiting'
  BY <1>1, BoxStep, WaitingStep
<1>3. ASSUME queue' = queue PROVE NewestKnown'
  BY <1>1, <1>3 DEF NewestKnown
<1>4. CASE RequestStep(Fresh) /\ UNCHANGED <<linkVars, pageVars, boxVars, faults>>
  BY <1>1, <1>2, <1>3, <1>4, RequestType DEF TypeInv, pageVars
<1>5. CASE Broadcast
  BY <1>1, <1>2, <1>3, <1>5, BroadcastType DEF TypeInv, Broadcast, pageVars
<1>6. ASSUME NEW b \in Browser, ServerStep(b) PROVE TypeInv'
  <2>1. queue' = queue
    BY <1>6 DEF ServerStep, ReadSeq, ReadRows, SendResult, ServePost, pageVars
  <2> QED
    BY <1>1, <1>2, <1>3, <1>6, <2>1, ServerType DEF TypeInv
<1>7. ASSUME NEW b \in Browser, Connect(b) PROVE TypeInv'
  BY <1>1, <1>2, <1>3, <1>7, ConnectType DEF TypeInv, Connect, pageVars
<1>8. ASSUME NEW b \in Browser, ReceiveBatch(b) \/ ReceiveResult(b) PROVE TypeInv'
  BY <1>1, <1>2, <1>8, BatchArrives, ResultArrives DEF TypeInv
<1>9. ASSUME NEW b \in Browser, Put(b) \/ Posted(b) \/ Refused(b) PROVE TypeInv'
  <2>1. queue' = queue
    BY <1>9 DEF Put, Posted, Refused, pageVars
  <2> QED
    BY <1>1, <1>2, <1>3, <1>9, <2>1, DraftType DEF TypeInv
<1>10. CASE ServerCrash \/ \E b \in Browser : Drop(b) \/ Reload(b) \/ PostLost(b)
  BY <1>1, <1>2, <1>10, FaultType DEF TypeInv
<1>11. CASE UNCHANGED vars
  <2>1. LinkTypeOK' /\ PageTypeOK'
    BY <1>1, <1>11 DEF LinkTypeOK, PageTypeOK, vars, rowVars, linkVars, pageVars
  <2> QED
    BY <1>2, <1>3, <1>11, <2>1 DEF TypeInv, vars, pageVars
<1> QED
  BY <1>4, <1>5, <1>6, <1>7, <1>8, <1>9, <1>10, <1>11 DEF Next, BrowserStep

\* Every variable keeps its type, and a socket that is gone leaves nothing behind: nothing on
\* its way, nothing set aside, no answer pending (sync-client.ts:98-104).
THEOREM ReplicaTyping == Spec => []TypeOK
<1>1. TypeInv => TypeOK
  BY TypeParts DEF TypeInv
<1> QED
  BY <1>1, InitType, TypeStep, PTL DEF Spec

-----------------------------------------------------------------------------
(* A delta is all a browser misses.  The operators below are about values, *)
(* so that the lemmas about them need no state.                            *)

ShownOf(r) == IF r.state = "live" THEN r.rev ELSE Gone

Coming(list) == {m \in Listed(list) : m.kind = "batch"}

\* The batches a browser is going to apply: set aside, on their way, not sent yet.
Under(aside, list, later) == aside \cup Coming(list) \cup Listed(later)

Ascending(list) ==
    \A k, l \in DOMAIN list :
       k < l /\ list[k].kind = "batch" /\ list[l].kind = "batch" => list[k].seq < list[l].seq

Earlier(batches, others) == \A m \in batches, n \in others : m.seq < n.seq

InLine(aside, list, later) ==
    /\ Ascending(list) /\ Ascending(later)
    /\ Earlier(aside, Coming(list)) /\ Earlier(aside, Listed(later))
    /\ Earlier(Coming(list), Listed(later))

\* A batch tells the row it was sent for as it is, unless that was written again.
Valid(m, rows, s) ==
    /\ m.seq <= s
    /\ \A i \in Id : /\ rows[i].rev = m.seq => m.changes[i] = ShownOf(rows[i])
                     /\ rows[i].rev < m.seq => m.changes[i] = Same

\* What was written after n is in a batch that is still to be applied.
Covers(rows, under, n) ==
    \A i \in Id : rows[i].rev > n => \E m \in under : m.seq = rows[i].rev

BatchesTrue(rows, s, under) == \A m \in under : Valid(m, rows, s) /\ Covers(rows, under, m.seq)

\* What was written up to n is shown as it is.
ShownUpTo(rows, old, n) == \A i \in Id : rows[i].rev \in 1..n => old[i] = ShownOf(rows[i])

\* What an answer is applied to, and what it is called.
Start(old, last) == IF last > 0 THEN old ELSE [i \in Id |-> Gone]
KindOf(last) == IF last > 0 THEN "delta" ELSE "snapshot"

AnswerTrue(rows, s, under, start, n, changes) ==
    n <= s /\ Covers(rows, under, n) /\ ShownUpTo(rows, Apply(start, changes), n)

RowsTrue ==
    /\ \A i \in Id : row[i].rev <= seq /\ (row[i].state = "absent" => row[i].rev = 0)
    /\ \A i \in selected : row[i].state # "absent"

UnderWay(b) == Under(queue[b], chan[b], unsent)

DeltaAt(b) ==
    /\ InLine(queue[b], chan[b], unsent)
    /\ BatchesTrue(row, seq, UnderWay(b))
    /\ sync[b].pc \in {"seqRead", "rowsRead"} =>
          sync[b].seq <= seq /\ Covers(row, UnderWay(b), sync[b].seq)
    /\ sync[b].pc = "rowsRead" =>
          AnswerTrue(row, seq, UnderWay(b), Start(records[b], lastSeq[b]), sync[b].seq, sync[b].changes)
    /\ \A m \in Listed(chan[b]) : m.kind \in ResultKind =>
          /\ m.kind = KindOf(lastSeq[b])
          /\ AnswerTrue(row, seq, UnderWay(b), Start(records[b], lastSeq[b]), m.seq, m.changes)
    /\ lastSeq[b] <= seq
    /\ ShownUpTo(row, records[b], lastSeq[b])
    /\ ready[b] => Covers(row, UnderWay(b), lastSeq[b])

DeltaInv == RowsTrue /\ \A b \in Browser : DeltaAt(b)

\* Sequences seen as sets of messages.
AnyMessage == Message({"batch"} \cup ResultKind)

LEMMA ListedAppend ==
    ASSUME NEW S, NEW list \in Seq(S), NEW e
    PROVE  Listed(Append(list, e)) = Listed(list) \cup {e}
<1>1. ASSUME NEW m \in Listed(Append(list, e)) PROVE m \in Listed(list) \cup {e}
  BY AppendIs DEF Listed
<1>2. ASSUME NEW m \in Listed(list) \cup {e} PROVE m \in Listed(Append(list, e))
  BY AppendIs DEF Listed
<1> QED
  BY <1>1, <1>2

LEMMA ListedTail ==
    ASSUME NEW S, NEW list \in Seq(S), list # <<>>
    PROVE  /\ Listed(list) = Listed(Tail(list)) \cup {Head(list)}
           /\ Head(list) \in Listed(list)
<1>1. ASSUME NEW m \in Listed(list) PROVE m \in Listed(Tail(list)) \cup {Head(list)}
  <2>1. PICK k \in DOMAIN list : m = list[k]
    BY DEF Listed
  <2> QED
    BY <2>1, TailIs DEF Listed
<1>2. ASSUME NEW m \in Listed(Tail(list)) \cup {Head(list)} PROVE m \in Listed(list)
  BY TailIs DEF Listed
<1> QED
  BY <1>1, <1>2

LEMMA ListedType ==
    ASSUME NEW S, NEW list \in Seq(S) PROVE Listed(list) \subseteq S
BY DEF Listed

LEMMA ComingAppend ==
    ASSUME NEW S, NEW list \in Seq(S), NEW e
    PROVE  /\ e.kind = "batch" => Coming(Append(list, e)) = Coming(list) \cup {e}
           /\ e.kind # "batch" => Coming(Append(list, e)) = Coming(list)
BY ListedAppend DEF Coming

LEMMA ComingTail ==
    ASSUME NEW S, NEW list \in Seq(S), list # <<>>
    PROVE  /\ Head(list).kind = "batch" => Coming(list) = Coming(Tail(list)) \cup {Head(list)}
           /\ Head(list).kind # "batch" => Coming(list) = Coming(Tail(list))
BY ListedTail DEF Coming

LEMMA AscendingAppend ==
    ASSUME NEW S, NEW list \in Seq(S), NEW e, Ascending(list),
           e.kind = "batch" => \A m \in Coming(list) : m.seq < e.seq
    PROVE  Ascending(Append(list, e))
<1> DEFINE longer == Append(list, e)
<1> SUFFICES ASSUME NEW k \in DOMAIN longer, NEW l \in DOMAIN longer, k < l,
                    longer[k].kind = "batch", longer[l].kind = "batch"
             PROVE  longer[k].seq < longer[l].seq
  BY DEF Ascending
<1>1. k \in DOMAIN list /\ longer[k] = list[k]
  OBVIOUS
<1>2. CASE l \in DOMAIN list
  <2>1. longer[l] = list[l]
    BY <1>2
  <2> QED
    BY <1>1, <1>2, <2>1 DEF Ascending
<1>3. CASE l = Len(list) + 1
  <2>1. longer[l] = e
    BY <1>3
  <2>2. list[k] \in Coming(list)
    BY <1>1 DEF Coming, Listed
  <2> QED
    BY <1>1, <2>1, <2>2
<1> QED
  BY <1>2, <1>3

LEMMA AscendingTail ==
    ASSUME NEW S, NEW list \in Seq(S), list # <<>>, Ascending(list)
    PROVE  /\ Ascending(Tail(list))
           /\ Head(list).kind = "batch" => \A m \in Coming(Tail(list)) : Head(list).seq < m.seq
<1>1. Ascending(Tail(list))
  <2> SUFFICES ASSUME NEW k \in DOMAIN Tail(list), NEW l \in DOMAIN Tail(list), k < l,
                      Tail(list)[k].kind = "batch", Tail(list)[l].kind = "batch"
               PROVE  Tail(list)[k].seq < Tail(list)[l].seq
    BY DEF Ascending
  <2>1. /\ k \in Nat /\ k + 1 \in DOMAIN list /\ Tail(list)[k] = list[k + 1]
        /\ l \in Nat /\ l + 1 \in DOMAIN list /\ Tail(list)[l] = list[l + 1]
    BY TailIs
  <2> QED
    BY <2>1 DEF Ascending
<1>2. ASSUME Head(list).kind = "batch", NEW m \in Coming(Tail(list))
      PROVE  Head(list).seq < m.seq
  <2>1. PICK k \in DOMAIN Tail(list) : m = Tail(list)[k] /\ m.kind = "batch"
    BY DEF Coming, Listed
  <2>2. k \in Nat /\ k > 0 /\ k + 1 \in DOMAIN list /\ m = list[k + 1]
    BY <2>1, TailIs
  <2>3. 1 \in DOMAIN list /\ Head(list) = list[1] /\ 1 < k + 1
    BY <2>2, TailIs
  <2> QED
    BY <1>2, <2>1, <2>2, <2>3 DEF Ascending
<1> QED
  BY <1>1, <1>2

LEMMA UnderType ==
    ASSUME NEW aside \in SUBSET Message({"batch"}), NEW list \in Seq(AnyMessage),
           NEW later \in Seq(Message({"batch"}))
    PROVE  /\ Under(aside, list, later) \subseteq Message({"batch"})
           /\ Coming(list) \subseteq Message({"batch"})
           /\ Listed(later) \subseteq Message({"batch"})
           /\ Coming(later) = Listed(later)
           /\ \A m \in Under(aside, list, later) : m.seq \in Nat
<1>1. Listed(list) \subseteq AnyMessage /\ Listed(later) \subseteq Message({"batch"})
  BY ListedType
<1>2. Coming(list) \subseteq Message({"batch"})
  BY <1>1 DEF AnyMessage, Coming, Message
<1>3. Coming(later) = Listed(later)
  BY <1>1 DEF Coming, Message
<1>4. Under(aside, list, later) \subseteq Message({"batch"})
  BY <1>1, <1>2 DEF Under
<1>5. \A m \in Under(aside, list, later) : m.seq \in Nat
  BY <1>4 DEF Message
<1> QED
  BY <1>1, <1>2, <1>3, <1>4, <1>5

\* Nothing newer than n may leave the batches that cover what was written after n.
LEMMA CoversLess ==
    ASSUME NEW rows, NEW under, NEW fewer, NEW n, Covers(rows, under, n),
           \A m \in under : m.seq > n => m \in fewer
    PROVE  Covers(rows, fewer, n)
BY DEF Covers

LEMMA TrueLess ==
    ASSUME NEW rows, NEW s, NEW under, NEW fewer \in SUBSET under, BatchesTrue(rows, s, under),
           \A m \in fewer, o \in under : o.seq > m.seq => o \in fewer
    PROVE  BatchesTrue(rows, s, fewer)
BY CoversLess DEF BatchesTrue

\* A transaction that writes no row.
LEMMA LaterTrue ==
    ASSUME NEW rows, NEW s \in Nat, NEW t \in Nat, s <= t, NEW under, \A m \in under : m.seq \in Nat,
           BatchesTrue(rows, s, under)
    PROVE  BatchesTrue(rows, t, under)
BY DEF BatchesTrue, Valid

\* A transaction that writes row i: its batch covers it, older ones do not mention what they
\* do not know.
Written(rows, i, state, s) == [rows EXCEPT ![i] = [state |-> state, rev |-> s + 1]]
News(i, state, s) == Batch(s + 1, i, IF state = "live" THEN s + 1 ELSE Gone)

LEMMA WrittenIs ==
    ASSUME NEW rows \in [Id -> [state : RowState, rev : Nat]], NEW s \in Nat, NEW i \in Id,
           NEW state \in RowState
    PROVE  /\ Written(rows, i, state, s)[i].rev = s + 1
           /\ ShownOf(Written(rows, i, state, s)[i]) = News(i, state, s).changes[i]
           /\ \A j \in Id \ {i} : /\ Written(rows, i, state, s)[j] = rows[j]
                                  /\ News(i, state, s).changes[j] = Same
           /\ News(i, state, s).seq = s + 1 /\ News(i, state, s).kind = "batch"
           /\ News(i, state, s) \in Message({"batch"})
<1>1. News(i, state, s) \in Message({"batch"})
  BY BatchType DEF News, Gone
<1> QED
  BY <1>1 DEF Written, ShownOf, News, Batch

LEMMA CoversWrite ==
    ASSUME NEW rows \in [Id -> [state : RowState, rev : Nat]], NEW s \in Nat, NEW i \in Id,
           NEW state \in RowState, NEW under, NEW n, Covers(rows, under, n)
    PROVE  Covers(Written(rows, i, state, s), under \cup {News(i, state, s)}, n)
<1> DEFINE new == Written(rows, i, state, s)
<1> SUFFICES ASSUME NEW j \in Id, new[j].rev > n
             PROVE  \E m \in under \cup {News(i, state, s)} : m.seq = new[j].rev
  BY DEF Covers
<1>1. CASE j = i
  BY <1>1, WrittenIs
<1>2. CASE j # i
  BY <1>2, WrittenIs DEF Covers
<1> QED
  BY <1>1, <1>2

LEMMA ShownWrite ==
    ASSUME NEW rows \in [Id -> [state : RowState, rev : Nat]], NEW s \in Nat, NEW i \in Id,
           NEW state \in RowState, NEW old, NEW n \in Nat, n <= s, ShownUpTo(rows, old, n)
    PROVE  ShownUpTo(Written(rows, i, state, s), old, n)
<1> DEFINE new == Written(rows, i, state, s)
<1> SUFFICES ASSUME NEW j \in Id, new[j].rev \in 1..n PROVE old[j] = ShownOf(new[j])
  BY DEF ShownUpTo
<1>1. new[i].rev = s + 1 /\ \A k \in Id \ {i} : new[k] = rows[k]
  BY WrittenIs
<1>2. j # i
  BY <1>1
<1> QED
  BY <1>1, <1>2 DEF ShownUpTo

LEMMA TrueWrite ==
    ASSUME NEW rows \in [Id -> [state : RowState, rev : Nat]], NEW s \in Nat, NEW i \in Id,
           NEW state \in RowState, \A j \in Id : rows[j].rev <= s,
           NEW under, \A m \in under : m.seq \in Nat, BatchesTrue(rows, s, under)
    PROVE  BatchesTrue(Written(rows, i, state, s), s + 1, under \cup {News(i, state, s)})
<1> DEFINE new == Written(rows, i, state, s)
           news == News(i, state, s)
<1>1. /\ new[i].rev = s + 1 /\ ShownOf(new[i]) = news.changes[i] /\ news.seq = s + 1
      /\ \A j \in Id \ {i} : new[j] = rows[j] /\ news.changes[j] = Same
  BY WrittenIs
<1>2. ASSUME NEW j \in Id PROVE new[j].rev <= s + 1 /\ new[j].rev \in Nat
  BY <1>1
<1>3. Valid(news, new, s + 1)
  <2>1. ASSUME NEW j \in Id \ {i} PROVE new[j].rev < s + 1
    <3>1. new[j] = rows[j] /\ rows[j].rev <= s /\ rows[j].rev \in Nat
      BY <1>1
    <3> QED
      BY <3>1
  <2> QED
    BY <1>1, <2>1 DEF Valid
<1>4. Covers(new, under \cup {news}, news.seq)
  BY <1>1, <1>2 DEF Covers
<1>5. ASSUME NEW m \in under PROVE Valid(m, new, s + 1) /\ Covers(new, under \cup {news}, m.seq)
  <2>1. m.seq \in Nat /\ m.seq <= s /\ Valid(m, rows, s) /\ Covers(rows, under, m.seq)
    BY DEF BatchesTrue, Valid
  <2>2. Covers(new, under \cup {news}, m.seq)
    BY <2>1, CoversWrite
  <2>3. Valid(m, new, s + 1)
    <3>1. ASSUME NEW j \in Id
          PROVE  /\ new[j].rev = m.seq => m.changes[j] = ShownOf(new[j])
                 /\ new[j].rev < m.seq => m.changes[j] = Same
      <4>1. CASE j = i
        BY <1>1, <2>1, <4>1
      <4>2. CASE j # i
        BY <1>1, <2>1, <4>2 DEF Valid
      <4> QED
        BY <4>1, <4>2
    <3> QED
      BY <2>1, <3>1 DEF Valid
  <2> QED
    BY <2>2, <2>3
<1> QED
  BY <1>3, <1>4, <1>5 DEF BatchesTrue

LEMMA AnswerWrite ==
    ASSUME NEW rows \in [Id -> [state : RowState, rev : Nat]], NEW s \in Nat, NEW i \in Id,
           NEW state \in RowState, NEW under, NEW start, NEW n \in Nat, NEW changes,
           AnswerTrue(rows, s, under, start, n, changes)
    PROVE  AnswerTrue(Written(rows, i, state, s), s + 1, under \cup {News(i, state, s)},
                      start, n, changes)
<1>1. n <= s /\ Covers(rows, under, n) /\ ShownUpTo(rows, Apply(start, changes), n)
  BY DEF AnswerTrue
<1>2. Covers(Written(rows, i, state, s), under \cup {News(i, state, s)}, n)
  BY <1>1, CoversWrite
<1>3. ShownUpTo(Written(rows, i, state, s), Apply(start, changes), n)
  BY <1>1, ShownWrite
<1>4. n <= s + 1
  BY <1>1
<1> QED
  BY <1>2, <1>3, <1>4 DEF AnswerTrue

\* The rows an answer carries, read at once, are right for any seq read before.
LEMMA ReadTrue ==
    ASSUME NEW rows \in [Id -> [state : RowState, rev : Nat]], NEW s \in Nat, NEW under,
           NEW n \in Nat, n <= s, Covers(rows, under, n),
           NEW old, NEW last \in Nat, ShownUpTo(rows, old, last),
           NEW changes, NEW answer,
           answer = IF last > 0 THEN {i \in Id : rows[i].rev > last}
                    ELSE {i \in Id : rows[i].state = "live"},
           changes = [i \in Id |-> IF i \in answer THEN ShownOf(rows[i]) ELSE Same]
    PROVE  AnswerTrue(rows, s, under, Start(old, last), n, changes)
<1>1. ASSUME NEW i \in Id, rows[i].rev \in 1..n
      PROVE  Apply(Start(old, last), changes)[i] = ShownOf(rows[i])
  <2>1. ShownOf(rows[i]) # Same
    BY WorkspaceAssumption DEF ShownOf, Gone
  <2>2. Apply(Start(old, last), changes)[i]
           = IF i \in answer THEN ShownOf(rows[i]) ELSE Start(old, last)[i]
    BY <2>1 DEF Apply
  <2>3. CASE i \in answer
    BY <2>2, <2>3
  <2>4. CASE i \notin answer /\ last > 0
    <3>1. rows[i].rev \in 1..last
      BY <1>1, <2>4
    <3> QED
      BY <2>2, <2>4, <3>1 DEF ShownUpTo, Start
  <2>5. CASE i \notin answer /\ ~(last > 0)
    BY <2>2, <2>5 DEF Start, ShownOf
  <2> QED
    BY <2>3, <2>4, <2>5
<1> QED
  BY <1>1 DEF AnswerTrue, ShownUpTo

\* A batch arrives and is set aside.
LEMMA AsideLine ==
    ASSUME NEW aside \in SUBSET Message({"batch"}), NEW list \in Seq(AnyMessage), list # <<>>,
           NEW later \in Seq(Message({"batch"})), InLine(aside, list, later),
           Head(list).kind = "batch"
    PROVE  /\ InLine(aside \cup {Head(list)}, Tail(list), later)
           /\ Under(aside \cup {Head(list)}, Tail(list), later) = Under(aside, list, later)
<1>1. /\ Coming(list) = Coming(Tail(list)) \cup {Head(list)}
      /\ Ascending(Tail(list)) /\ \A m \in Coming(Tail(list)) : Head(list).seq < m.seq
  BY ComingTail, AscendingTail DEF InLine
<1>2. Earlier(aside \cup {Head(list)}, Coming(Tail(list)))
  BY <1>1 DEF InLine, Earlier
<1>3. /\ Earlier(aside \cup {Head(list)}, Listed(later)) /\ Earlier(Coming(Tail(list)), Listed(later))
  BY <1>1 DEF InLine, Earlier
<1> QED
  BY <1>1, <1>2, <1>3 DEF InLine, Under

\* What was set aside leaves, and the first message; or nothing was set aside.
LEMMA ShorterLine ==
    ASSUME NEW aside \in SUBSET Message({"batch"}), NEW list \in Seq(AnyMessage), list # <<>>,
           NEW later \in Seq(Message({"batch"})), InLine(aside, list, later)
    PROVE  /\ InLine({}, Tail(list), later)
           /\ Under({}, Tail(list), later) \subseteq Under(aside, list, later)
           /\ \A m \in Under({}, Tail(list), later), o \in Under(aside, list, later) :
                 o.seq > m.seq => o \in Under({}, Tail(list), later)
<1>1. /\ Coming(Tail(list)) \subseteq Coming(list)
      /\ \A o \in Coming(list) : \/ o \in Coming(Tail(list))
                                 \/ o = Head(list) /\ o.kind = "batch"
  BY ComingTail, ListedTail DEF Coming
<1>2. Ascending(Tail(list)) /\ (Head(list).kind = "batch" => \A m \in Coming(Tail(list)) : Head(list).seq < m.seq)
  BY AscendingTail DEF InLine
<1>3. InLine({}, Tail(list), later)
  BY <1>1, <1>2 DEF InLine, Earlier
<1>4. ASSUME NEW m \in Under({}, Tail(list), later), NEW o \in Under(aside, list, later), o.seq > m.seq
      PROVE  o \in Under({}, Tail(list), later)
  <2>1. m \in Coming(Tail(list)) \cup Listed(later)
    BY DEF Under
  <2>2. m.seq \in Nat /\ o.seq \in Nat
    <3>1. m \in Under(aside, list, later)
      BY <1>1 DEF Under
    <3> QED
      BY <3>1, UnderType
  <2>3. CASE o \in aside
    <3>1. o.seq < m.seq
      BY <1>1, <2>1, <2>3 DEF InLine, Earlier
    <3> QED
      BY <1>4, <2>2, <3>1
  <2>4. CASE o = Head(list) /\ o.kind = "batch"
    <3>1. o \in Coming(list)
      BY <2>4, ListedTail DEF Coming
    <3>2. o.seq < m.seq
      BY <1>2, <2>1, <2>4, <3>1 DEF InLine, Earlier
    <3> QED
      BY <1>4, <2>2, <3>2
  <2> QED
    BY <1>1, <2>3, <2>4 DEF Under
<1>5. Under({}, Tail(list), later) \subseteq Under(aside, list, later)
  BY <1>1 DEF Under
<1> QED
  BY <1>3, <1>4, <1>5

\* A page that is up applies a batch as it comes.
LEMMA ApplyTrue ==
    ASSUME NEW rows \in [Id -> [state : RowState, rev : Nat]], NEW s \in Nat,
           NEW list \in Seq(AnyMessage), list # <<>>, NEW later \in Seq(Message({"batch"})),
           InLine({}, list, later), Head(list).kind = "batch",
           BatchesTrue(rows, s, Under({}, list, later)),
           NEW old, NEW last \in Nat, ShownUpTo(rows, old, last),
           Covers(rows, Under({}, list, later), last)
    PROVE  /\ ShownUpTo(rows, Apply(old, Head(list).changes), Head(list).seq)
           /\ Covers(rows, Under({}, Tail(list), later), Head(list).seq)
           /\ Head(list).seq <= s
<1> DEFINE m == Head(list)
<1>1. m \in Under({}, list, later) /\ m.seq \in Nat
  <2>1. m \in Under({}, list, later)
    BY ListedTail DEF Under, Coming
  <2> QED
    BY <2>1, UnderType
<1>2. Valid(m, rows, s) /\ Covers(rows, Under({}, list, later), m.seq)
  BY <1>1 DEF BatchesTrue
<1> \A o \in Under({}, list, later) : o.seq \in Nat
  BY UnderType
<1>3. \A o \in Under({}, list, later) : o.seq >= m.seq /\ (o.seq > m.seq => o \in Under({}, Tail(list), later))
  <2> SUFFICES ASSUME NEW o \in Under({}, list, later)
               PROVE  \/ o = m
                      \/ o.seq > m.seq /\ o \in Under({}, Tail(list), later)
    <3>1. \A o \in Under({}, list, later) : o = m => o.seq >= m.seq /\ ~(o.seq > m.seq)
      BY <1>1
    <3>2. ASSUME NEW o \in Under({}, list, later), o.seq > m.seq PROVE o.seq >= m.seq
      BY <1>1, <3>2
    <3> QED
      BY <3>1, <3>2
  <2> SUFFICES ASSUME o # m PROVE o.seq > m.seq /\ o \in Under({}, Tail(list), later)
    OBVIOUS
  <2>1. o \in Coming(Tail(list)) \cup Listed(later) /\ m \in Coming(list)
    BY ComingTail, ListedTail DEF Under, Coming
  <2>2. m.seq < o.seq
    BY <2>1, AscendingTail DEF InLine, Earlier
  <2>3. o.seq \in Nat
    BY UnderType
  <2> QED
    BY <1>1, <2>1, <2>2, <2>3 DEF Under
<1>4. Covers(rows, Under({}, Tail(list), later), m.seq)
  BY <1>2, <1>3, CoversLess
<1>5. ASSUME NEW i \in Id, rows[i].rev \in 1..m.seq
      PROVE  Apply(old, m.changes)[i] = ShownOf(rows[i])
  <2>1. ShownOf(rows[i]) # Same
    BY WorkspaceAssumption DEF ShownOf, Gone
  <2>2. CASE rows[i].rev = m.seq
    BY <1>2, <2>1, <2>2 DEF Valid, Apply
  <2>3. CASE rows[i].rev < m.seq
    <3>1. m.changes[i] = Same /\ Apply(old, m.changes)[i] = old[i]
      BY <1>2, <2>3 DEF Valid, Apply
    <3>2. ~(rows[i].rev > last)
      BY <1>1, <1>3, <2>3 DEF Covers
    <3> QED
      BY <1>5, <3>1, <3>2 DEF ShownUpTo
  <2> QED
    BY <1>1, <1>5, <2>2, <2>3
<1> QED
  BY <1>2, <1>4, <1>5 DEF ShownUpTo, Valid

\* The answer arrives, and what was set aside and is newer goes on top of it.
LEMMA ResultTrue ==
    ASSUME NEW rows \in [Id -> [state : RowState, rev : Nat]], NEW s \in Nat,
           NEW aside \in SUBSET Message({"batch"}), NEW list \in Seq(AnyMessage), list # <<>>,
           NEW later \in Seq(Message({"batch"})), InLine(aside, list, later),
           Head(list).kind # "batch", BatchesTrue(rows, s, Under(aside, list, later)),
           NEW start, AnswerTrue(rows, s, Under(aside, list, later), start, Head(list).seq, Head(list).changes),
           NEW late, late = {batch \in aside : batch.seq > Head(list).seq},
           HasNewest(late), \A i \in Id : HasNewest(Writing(late, i))
    PROVE  LET n == Newest(Head(list).seq, late)
           IN  /\ ShownUpTo(rows, InSeqOrder(Apply(start, Head(list).changes), late), n)
               /\ Covers(rows, Under({}, Tail(list), later), n)
               /\ n <= s
<1> DEFINE m == Head(list)
           n == Newest(m.seq, late)
           base == Apply(start, m.changes)
           under == Under(aside, list, later)
<1>1. /\ m.seq \in Nat /\ m.seq <= s /\ Covers(rows, under, m.seq) /\ ShownUpTo(rows, base, m.seq)
  <2>1. m \in AnyMessage
    BY TailType
  <2> QED
    BY <2>1 DEF AnswerTrue, AnyMessage, Message
<1>2. late \in SUBSET Message({"batch"}) /\ late \subseteq under
  BY DEF Under
<1>3. /\ n \in Nat /\ (late = {} => n = m.seq) /\ (late # {} => \E w \in late : n = w.seq)
      /\ \A w \in late : w.seq <= n /\ w.seq \in Nat
  BY <1>1, <1>2, NewestIs, UnderType
<1>4. m.seq <= n /\ n <= s
  <2>1. CASE late = {}
    BY <1>1, <1>3, <2>1
  <2>2. CASE late # {}
    <3>1. PICK w \in late : n = w.seq
      BY <1>3, <2>2
    <3>2. w.seq > m.seq /\ w.seq <= s
      BY <1>2 DEF BatchesTrue, Valid
    <3> QED
      BY <1>1, <1>3, <3>1, <3>2
  <2> QED
    BY <2>1, <2>2
<1>5. ASSUME NEW o \in under, o.seq > m.seq
      PROVE  (o.seq > n => o \in Under({}, Tail(list), later)) /\ (o.seq <= n => o \in late)
  <2>1. o \in aside => o \in late
    BY <1>5
  <2>2. o \in aside \/ o \in Coming(list) \cup Listed(later)
    BY DEF Under
  <2>3. Coming(list) = Coming(Tail(list))
    BY ComingTail
  <2>4. o \in aside \/ o \in Under({}, Tail(list), later)
    BY <2>2, <2>3 DEF Under
  <2>5. o.seq \in Nat
    BY UnderType
  <2>6. ASSUME o \notin aside PROVE o.seq > n
    <3>1. CASE late = {}
      BY <1>3, <1>5, <3>1
    <3>2. CASE late # {}
      <4>1. PICK w \in late : n = w.seq
        BY <1>3, <3>2
      <4>2. w.seq < o.seq
        BY <2>2, <2>6, <4>1 DEF InLine, Earlier
      <4> QED
        BY <1>3, <2>5, <4>1, <4>2
    <3> QED
      BY <3>1, <3>2
  <2>7. o \in late => o.seq <= n
    BY <1>3
  <2> QED
    BY <1>3, <2>1, <2>4, <2>5, <2>6, <2>7
<1>6. Covers(rows, Under({}, Tail(list), later), n)
  <2> SUFFICES ASSUME NEW i \in Id, rows[i].rev > n
               PROVE  \E o \in Under({}, Tail(list), later) : o.seq = rows[i].rev
    BY DEF Covers
  <2>1. rows[i].rev > m.seq
    BY <1>1, <1>3, <1>4
  <2>2. PICK o \in under : o.seq = rows[i].rev
    BY <1>1, <2>1 DEF Covers
  <2> QED
    BY <1>5, <2>1, <2>2
<1>7. ASSUME NEW i \in Id, rows[i].rev \in 1..n
      PROVE  InSeqOrder(base, late)[i] = ShownOf(rows[i])
  <2>1. ShownOf(rows[i]) # Same
    BY WorkspaceAssumption DEF ShownOf, Gone
  <2>2. ASSUME rows[i].rev > m.seq
        PROVE  \E o \in Writing(late, i) : o.seq = rows[i].rev
    <3>1. PICK o \in under : o.seq = rows[i].rev
      BY <1>1, <2>2 DEF Covers
    <3>2. o \in late
      BY <1>5, <1>7, <2>2, <3>1
    <3>3. o.changes[i] = ShownOf(rows[i])
      BY <3>1 DEF BatchesTrue, Valid
    <3> QED
      BY <2>1, <3>1, <3>2, <3>3 DEF Writing
  <2>3. CASE Writing(late, i) = {}
    <3>1. InSeqOrder(base, late)[i] = base[i]
      BY <1>2, <2>3, InSeqOrderIs
    <3>2. rows[i].rev \in 1..m.seq
      <4>1. ~(rows[i].rev > m.seq)
        BY <2>2, <2>3
      <4>2. n \in Nat
        BY <1>3
      <4>3. rows[i].rev \in Nat /\ rows[i].rev >= 1
        BY <1>7, <4>2
      <4> QED
        BY <1>1, <4>1, <4>3
    <3> QED
      BY <1>1, <3>1, <3>2 DEF ShownUpTo
  <2>4. CASE Writing(late, i) # {}
    <3>1. PICK w \in Writing(late, i) :
             /\ \A o \in Writing(late, i) : o.seq <= w.seq
             /\ InSeqOrder(base, late)[i] = w.changes[i]
             /\ w.changes[i] \in Nat
      BY <1>2, <2>4, InSeqOrderIs
    <3>2. w \in late /\ w.seq \in Nat /\ w.seq > m.seq /\ Valid(w, rows, s)
      BY <1>2, <1>3 DEF Writing, BatchesTrue
    <3>3. ~(rows[i].rev < w.seq)
      BY <3>1, <3>2, WorkspaceAssumption DEF Valid
    <3>4. ~(rows[i].rev > w.seq)
      BY <1>1, <2>2, <3>1, <3>2
    <3>5. rows[i].rev = w.seq
      BY <3>2, <3>3, <3>4
    <3> QED
      BY <3>1, <3>2, <3>5 DEF Valid
  <2> QED
    BY <2>3, <2>4
<1> QED
  BY <1>4, <1>6, <1>7 DEF ShownUpTo

\* The steps, seen from browser b.
ViewType(b) ==
    /\ seq \in Nat /\ row \in [Id -> [state : RowState, rev : Nat]]
    /\ queue[b] \in SUBSET Message({"batch"}) /\ chan[b] \in Seq(AnyMessage)
    /\ unsent \in Seq(Message({"batch"})) /\ sync[b] \in SyncState
    /\ lastSeq[b] \in Nat /\ ready[b] \in BOOLEAN
    /\ ~conn[b] => ~ready[b] /\ chan[b] = <<>> /\ queue[b] = {} /\ sync[b] = NoSync
    /\ ready[b] => queue[b] = {} /\ sync[b] = NoSync

PageKept(b) == UNCHANGED <<ready[b], records[b], lastSeq[b]>>
AtKept(b) == PageKept(b) /\ UNCHANGED <<queue[b], chan[b]>>

LEMMA ViewTyped == ASSUME TypeInv, NEW b \in Browser PROVE ViewType(b)
<1>1. seq \in Nat /\ row \in [Id -> [state : RowState, rev : Nat]]
  BY DEF TypeInv, BoxInv, BoxTypeOK
<1>2. /\ chan[b] \in Seq(AnyMessage) /\ unsent \in Seq(Message({"batch"})) /\ sync[b] \in SyncState
      /\ ~conn[b] => ~ready[b] /\ chan[b] = <<>> /\ queue[b] = {} /\ sync[b] = NoSync
  BY DEF TypeInv, LinkTypeOK, AnyMessage
<1>3. /\ queue[b] \in SUBSET Message({"batch"}) /\ lastSeq[b] \in Nat /\ ready[b] \in BOOLEAN
      /\ ready[b] => queue[b] = {} /\ sync[b] = NoSync
  BY DEF TypeInv, PageTypeOK
<1> QED
  BY <1>1, <1>2, <1>3 DEF ViewType

LEMMA UnderWayType ==
    ASSUME NEW b, ViewType(b)
    PROVE  /\ UnderWay(b) \subseteq Message({"batch"}) /\ \A m \in UnderWay(b) : m.seq \in Nat
           /\ Coming(chan[b]) \subseteq Message({"batch"}) /\ Listed(unsent) \subseteq Message({"batch"})
           /\ Listed(chan[b]) \subseteq AnyMessage /\ \A m \in Listed(chan[b]) : m.seq \in Nat
<1>1. Listed(chan[b]) \subseteq AnyMessage
  BY ListedType DEF ViewType
<1> QED
  BY <1>1, UnderType DEF ViewType, UnderWay, AnyMessage, Message

\* No row is written, and nothing arrives.
LEMMA SameAt ==
    ASSUME NEW b, ViewType(b), DeltaAt(b), row' = row, unsent' = unsent, seq' \in {seq, seq + 1},
           AtKept(b), sync'[b] = sync[b] \/ sync'[b].pc \in {"none", "asked"}
    PROVE  DeltaAt(b)'
<1>1. UnderWay(b)' = UnderWay(b) /\ \A m \in UnderWay(b) : m.seq \in Nat
  BY UnderWayType DEF UnderWay, AtKept
<1>2. BatchesTrue(row, seq', UnderWay(b))
  BY <1>1, LaterTrue DEF DeltaAt, ViewType
<1>3. ASSUME NEW n \in Nat, NEW changes,
             AnswerTrue(row, seq, UnderWay(b), Start(records[b], lastSeq[b]), n, changes)
      PROVE  AnswerTrue(row, seq', UnderWay(b), Start(records[b], lastSeq[b]), n, changes)
  BY <1>3 DEF AnswerTrue, ViewType
<1>4. \A m \in Listed(chan[b]) : m.seq \in Nat
  BY UnderWayType
<1>5. sync[b].seq \in Nat
  BY DEF ViewType, SyncState
<1>6. lastSeq[b] <= seq' /\ (sync[b].seq <= seq => sync[b].seq <= seq')
  BY <1>5 DEF DeltaAt, ViewType
<1>7. \A m \in Listed(chan[b]) : m.kind \in ResultKind =>
          /\ m.kind = KindOf(lastSeq[b])
          /\ AnswerTrue(row, seq', UnderWay(b), Start(records[b], lastSeq[b]), m.seq, m.changes)
  BY <1>3, <1>4 DEF DeltaAt
<1>8. sync[b].pc = "rowsRead" =>
          AnswerTrue(row, seq', UnderWay(b), Start(records[b], lastSeq[b]), sync[b].seq, sync[b].changes)
  BY <1>3, <1>5 DEF DeltaAt
<1> QED
  BY <1>1, <1>2, <1>6, <1>7, <1>8 DEF DeltaAt, AtKept, PageKept

\* A row is written.
LEMMA WriteAt ==
    ASSUME NEW b, ViewType(b), DeltaAt(b), RowsTrue, NEW i \in Id, NEW state \in RowState,
           Mutate(i, state), AtKept(b), sync'[b] = sync[b]
    PROVE  DeltaAt(b)'
<1>1. /\ row' = Written(row, i, state, seq) /\ seq' = seq + 1
      /\ unsent' = Append(unsent, News(i, state, seq))
  BY DEF Mutate, Written, News
<1>2. /\ seq \in Nat /\ row \in [Id -> [state : RowState, rev : Nat]]
      /\ News(i, state, seq).seq = seq + 1 /\ \A j \in Id : row[j].rev <= seq
  BY WrittenIs DEF ViewType, RowsTrue
<1>3. /\ Listed(unsent)' = Listed(unsent) \cup {News(i, state, seq)}
      /\ Coming(unsent) = Listed(unsent)
  BY <1>1, ListedAppend, UnderType DEF ViewType
<1>4. UnderWay(b)' = UnderWay(b) \cup {News(i, state, seq)}
  BY <1>3 DEF UnderWay, Under, AtKept
<1>5. /\ \A m \in UnderWay(b) : m.seq <= seq /\ m.seq \in Nat
      /\ queue[b] \subseteq UnderWay(b) /\ Coming(chan[b]) \subseteq UnderWay(b)
      /\ Listed(unsent) \subseteq UnderWay(b)
  BY UnderWayType DEF DeltaAt, BatchesTrue, Valid, UnderWay, Under
<1>6. \A m \in UnderWay(b) : m.seq < News(i, state, seq).seq
  BY <1>2, <1>5
<1>7. InLine(queue[b], chan[b], unsent')
  <2>1. Ascending(unsent')
    BY <1>1, <1>3, <1>5, <1>6, AscendingAppend DEF DeltaAt, InLine, ViewType
  <2>2. Earlier(queue[b], Listed(unsent')) /\ Earlier(Coming(chan[b]), Listed(unsent'))
    BY <1>3, <1>5, <1>6 DEF DeltaAt, InLine, Earlier
  <2> QED
    BY <2>1, <2>2 DEF DeltaAt, InLine
<1>8. BatchesTrue(row', seq', UnderWay(b)')
  <2>1. BatchesTrue(row, seq, UnderWay(b)) /\ \A m \in UnderWay(b) : m.seq \in Nat
    BY <1>5 DEF DeltaAt
  <2>2. BatchesTrue(Written(row, i, state, seq), seq + 1, UnderWay(b) \cup {News(i, state, seq)})
    BY <1>2, <2>1, TrueWrite
  <2> QED
    BY <1>1, <1>4, <2>2
<1>9. ASSUME NEW n \in Nat, Covers(row, UnderWay(b), n) PROVE Covers(row', UnderWay(b)', n)
  BY <1>1, <1>2, <1>4, <1>9, CoversWrite
<1>10. ASSUME NEW n \in Nat, NEW changes,
              AnswerTrue(row, seq, UnderWay(b), Start(records[b], lastSeq[b]), n, changes)
       PROVE  AnswerTrue(row', seq', UnderWay(b)', Start(records[b], lastSeq[b]), n, changes)
  BY <1>1, <1>2, <1>4, <1>10, AnswerWrite
<1>11. ShownUpTo(row', records[b], lastSeq[b])
  BY <1>1, <1>2, ShownWrite DEF DeltaAt, ViewType
<1>12. sync[b].seq \in Nat /\ lastSeq[b] \in Nat /\ \A m \in Listed(chan[b]) : m.seq \in Nat
  BY UnderWayType DEF ViewType, SyncState
<1>13. lastSeq[b] <= seq' /\ (sync[b].seq <= seq => sync[b].seq <= seq')
  BY <1>1, <1>2, <1>12 DEF DeltaAt
<1>14. sync[b].pc \in {"seqRead", "rowsRead"} =>
          sync[b].seq <= seq' /\ Covers(row', UnderWay(b)', sync[b].seq)
  BY <1>9, <1>12, <1>13 DEF DeltaAt
<1>15. sync[b].pc = "rowsRead" =>
          AnswerTrue(row', seq', UnderWay(b)', Start(records[b], lastSeq[b]), sync[b].seq, sync[b].changes)
  BY <1>10, <1>12 DEF DeltaAt
<1>16. \A m \in Listed(chan[b]) : m.kind \in ResultKind =>
          /\ m.kind = KindOf(lastSeq[b])
          /\ AnswerTrue(row', seq', UnderWay(b)', Start(records[b], lastSeq[b]), m.seq, m.changes)
  BY <1>10, <1>12 DEF DeltaAt
<1>17. ready[b] => Covers(row', UnderWay(b)', lastSeq[b])
  BY <1>9, <1>12 DEF DeltaAt
<1> QED
  BY <1>7, <1>8, <1>11, <1>13, <1>14, <1>15, <1>16, <1>17 DEF DeltaAt, AtKept, PageKept

\* A browser without a socket.
LEMMA AloneAt ==
    ASSUME NEW b, ViewType(b), DeltaAt(b), UNCHANGED <<seq, row>>,
           \/ unsent' = unsent
           \/ unsent' = <<>>
           \/ unsent # <<>> /\ unsent' = Tail(unsent),
           queue'[b] = {}, chan'[b] = <<>>, sync'[b] = NoSync, ~ready'[b],
           UNCHANGED <<records[b], lastSeq[b]>> \/ lastSeq'[b] = 0
    PROVE  DeltaAt(b)'
<1>1. Listed(<<>>) = {} /\ Coming(<<>>) = {} /\ Ascending(<<>>)
  BY DEF Listed, Coming, Ascending
<1>2. UnderWay(b)' = Listed(unsent')
  BY <1>1 DEF UnderWay, Under
<1>3. /\ Ascending(unsent) /\ BatchesTrue(row, seq, UnderWay(b)) /\ unsent \in Seq(Message({"batch"}))
      /\ \A m \in UnderWay(b) : m.seq \in Nat
      /\ Earlier(queue[b], Listed(unsent)) /\ Earlier(Coming(chan[b]), Listed(unsent))
  BY UnderWayType DEF DeltaAt, InLine, ViewType
<1>4. Ascending(unsent')
  BY <1>1, <1>3, AscendingTail
<1>5. /\ Listed(unsent') \subseteq Listed(unsent)
      /\ \A m \in Listed(unsent'), o \in Listed(unsent) : o.seq > m.seq => o \in Listed(unsent')
  <2>1. CASE unsent' = unsent
    BY <2>1
  <2>2. CASE unsent' = <<>>
    BY <1>1, <2>2
  <2>3. CASE unsent # <<>> /\ unsent' = Tail(unsent)
    <3>1. Listed(unsent) = Listed(unsent') \cup {Head(unsent)} /\ Head(unsent) \in Listed(unsent)
      BY <1>3, <2>3, ListedTail
    <3>2. /\ Listed(unsent) \subseteq Message({"batch"})
          /\ \A m \in Listed(unsent) : m.seq \in Nat /\ m.kind = "batch"
      BY <1>3, ListedType DEF Message
    <3>3. Coming(unsent') = Listed(unsent')
      BY <3>1, <3>2 DEF Coming
    <3>4. \A m \in Listed(unsent') : Head(unsent).seq < m.seq
      BY <1>3, <2>3, <3>1, <3>2, <3>3, AscendingTail
    <3>5. ASSUME NEW m \in Listed(unsent'), Head(unsent).seq > m.seq PROVE FALSE
      BY <3>1, <3>2, <3>4, <3>5
    <3> QED
      BY <3>1, <3>5
  <2> QED
    BY <2>1, <2>2, <2>3
<1>6. BatchesTrue(row, seq, Listed(unsent'))
  <2>1. Listed(unsent) \subseteq UnderWay(b)
    BY DEF UnderWay, Under
  <2>2. ASSUME NEW m \in Listed(unsent'), NEW o \in UnderWay(b), o.seq > m.seq
        PROVE  o \in Listed(unsent')
    <3>1. m \in Listed(unsent) /\ m.seq \in Nat /\ o.seq \in Nat
      BY <1>3, <1>5, <2>1
    <3>2. o \in queue[b] \cup Coming(chan[b]) => o.seq < m.seq
      BY <1>3, <3>1 DEF Earlier
    <3>3. o \in queue[b] \cup Coming(chan[b]) \/ o \in Listed(unsent)
      BY DEF UnderWay, Under
    <3> QED
      BY <1>5, <2>2, <3>1, <3>2, <3>3
  <2> QED
    BY <1>3, <1>5, <2>1, <2>2, TrueLess
<1>7. InLine({}, <<>>, unsent')
  BY <1>1, <1>4 DEF InLine, Earlier
<1>8. lastSeq'[b] <= seq /\ ShownUpTo(row, records'[b], lastSeq'[b])
  BY DEF DeltaAt, ShownUpTo, ViewType
<1>9. NoSync.pc = "none"
  BY DEF NoSync
<1> QED
  BY <1>1, <1>2, <1>6, <1>7, <1>8, <1>9 DEF DeltaAt

\* The next batch goes out to a browser with a socket.
LEMMA BroadcastAt ==
    ASSUME NEW b, ViewType(b), DeltaAt(b), UNCHANGED <<seq, row>>,
           unsent # <<>>, unsent' = Tail(unsent), chan'[b] = Append(chan[b], Head(unsent)),
           PageKept(b), UNCHANGED <<queue[b], sync[b]>>
    PROVE  DeltaAt(b)'
<1> DEFINE m == Head(unsent)
<1>1. /\ unsent \in Seq(Message({"batch"})) /\ chan[b] \in Seq(AnyMessage)
      /\ InLine(queue[b], chan[b], unsent)
  BY DEF ViewType, DeltaAt
<1>2. /\ Listed(unsent) = Listed(unsent') \cup {m} /\ m \in Listed(unsent) /\ m.kind = "batch"
      /\ Coming(unsent') = Listed(unsent')
  <2>1. Listed(unsent) = Listed(unsent') \cup {m} /\ m \in Listed(unsent)
    BY <1>1, ListedTail
  <2>2. \A o \in Listed(unsent) : o.kind = "batch"
    BY <1>1, ListedType DEF Message
  <2> QED
    BY <2>1, <2>2 DEF Coming
<1>3. Coming(chan[b])' = Coming(chan[b]) \cup {m} /\ Listed(chan[b])' = Listed(chan[b]) \cup {m}
  BY <1>1, <1>2, ComingAppend, ListedAppend
<1>4. UnderWay(b)' = UnderWay(b)
  BY <1>2, <1>3 DEF UnderWay, Under
<1>5. Ascending(unsent') /\ \A o \in Listed(unsent') : m.seq < o.seq
  BY <1>1, <1>2, AscendingTail DEF InLine
<1>6. Ascending(chan'[b])
  BY <1>1, <1>2, AscendingAppend DEF InLine, Earlier
<1>7. InLine(queue[b], chan'[b], unsent')
  BY <1>1, <1>2, <1>3, <1>5, <1>6 DEF InLine, Earlier
<1>8. m.kind \notin ResultKind
  BY <1>2 DEF ResultKind
<1> QED
  BY <1>3, <1>4, <1>7, <1>8 DEF DeltaAt, PageKept

\* The server answers a resync.
LEMMA AnswerAt ==
    ASSUME NEW b \in Browser, ViewType(b), DeltaAt(b), RowsTrue, sync \in [Browser -> SyncState],
           chan \in [Browser -> Seq(AnyMessage)],
           ReadSeq(b) \/ ReadRows(b) \/ SendResult(b)
    PROVE  DeltaAt(b)'
<1>1. UNCHANGED <<seq, row, unsent, ready, records, lastSeq, queue>>
  BY DEF ReadSeq, ReadRows, SendResult, rowVars, pageVars
<1>2. CASE ReadSeq(b)
  <2>1. chan' = chan /\ sync'[b].pc = "seqRead" /\ sync'[b].seq = seq
    BY <1>2 DEF ReadSeq, SyncState
  <2>2. UnderWay(b)' = UnderWay(b)
    BY <1>1, <2>1 DEF UnderWay
  <2>3. Covers(row, UnderWay(b), seq) /\ seq <= seq
    BY DEF Covers, RowsTrue, ViewType
  <2> QED
    BY <1>1, <2>1, <2>2, <2>3 DEF DeltaAt
<1>3. CASE ReadRows(b)
  <2> DEFINE changes == [i \in Id |-> IF i \in Answer(b) THEN Shown(i) ELSE Same]
  <2>1. /\ chan' = chan /\ sync[b].pc = "seqRead" /\ sync'[b].pc = "rowsRead"
        /\ sync'[b].seq = sync[b].seq /\ sync'[b].changes = changes
    BY <1>3 DEF ReadRows, SyncState
  <2>2. UnderWay(b)' = UnderWay(b)
    BY <1>1, <2>1 DEF UnderWay
  <2>3. sync[b].seq \in Nat /\ sync[b].seq <= seq /\ Covers(row, UnderWay(b), sync[b].seq)
    BY <2>1 DEF DeltaAt, ViewType, SyncState
  <2>4. changes = [i \in Id |-> IF i \in Answer(b) THEN ShownOf(row[i]) ELSE Same]
    BY DEF Shown, ShownOf
  <2>5. Answer(b) = IF lastSeq[b] > 0 THEN {i \in Id : row[i].rev > lastSeq[b]}
                    ELSE {i \in Id : row[i].state = "live"}
    BY DEF Answer
  <2>6. AnswerTrue(row, seq, UnderWay(b), Start(records[b], lastSeq[b]), sync[b].seq, changes)
    BY <2>3, <2>4, <2>5, ReadTrue DEF DeltaAt, ViewType
  <2> QED
    BY <1>1, <2>1, <2>2, <2>3, <2>6 DEF DeltaAt
<1>4. CASE SendResult(b)
  <2> DEFINE m == [kind |-> IF lastSeq[b] > 0 THEN "delta" ELSE "snapshot",
                   seq |-> sync[b].seq, changes |-> sync[b].changes]
  <2>1. /\ chan'[b] = Append(chan[b], m) /\ sync[b].pc = "rowsRead" /\ sync'[b] = NoSync
    BY <1>4 DEF SendResult
  <2>2. m.kind = KindOf(lastSeq[b]) /\ m.kind # "batch"
    BY DEF KindOf
  <2>3. Coming(chan[b])' = Coming(chan[b]) /\ Listed(chan[b])' = Listed(chan[b]) \cup {m}
    BY <2>1, <2>2, ComingAppend, ListedAppend DEF ViewType
  <2>4. UnderWay(b)' = UnderWay(b)
    BY <1>1, <2>3 DEF UnderWay, Under
  <2>5. Ascending(chan'[b])
    BY <2>1, <2>2, AscendingAppend DEF ViewType, DeltaAt, InLine
  <2>6. InLine(queue[b], chan'[b], unsent)
    BY <2>3, <2>5 DEF DeltaAt, InLine
  <2>7. AnswerTrue(row, seq, UnderWay(b), Start(records[b], lastSeq[b]), m.seq, m.changes)
    BY <2>1 DEF DeltaAt
  <2>8. sync'[b].pc = "none"
    BY <2>1 DEF NoSync
  <2> QED
    BY <1>1, <2>2, <2>3, <2>4, <2>6, <2>7, <2>8 DEF DeltaAt
<1> QED
  BY <1>2, <1>3, <1>4

\* A message arrives.
LEMMA BatchAt ==
    ASSUME TypeInv, NEW b \in Browser, DeltaAt(b), ReceiveBatch(b) PROVE DeltaAt(b)'
<1> DEFINE m == Head(chan[b])
<1>1. /\ chan[b] # <<>> /\ m.kind = "batch" /\ chan'[b] = Tail(chan[b])
      /\ UNCHANGED <<seq, row, unsent, sync, ready>>
      /\ \/ /\ ready[b] /\ queue' = queue
            /\ records'[b] = Apply(records[b], m.changes) /\ lastSeq'[b] = m.seq
         \/ /\ ~ready[b] /\ queue'[b] = queue[b] \cup {m}
            /\ records' = records /\ lastSeq' = lastSeq
  BY DEF ReceiveBatch, TypeInv, LinkTypeOK, PageTypeOK, rowVars
<1>2. ViewType(b)
  BY ViewTyped
<1>3. /\ seq \in Nat /\ row \in [Id -> [state : RowState, rev : Nat]]
      /\ queue[b] \in SUBSET Message({"batch"}) /\ chan[b] \in Seq(AnyMessage)
      /\ unsent \in Seq(Message({"batch"})) /\ lastSeq[b] \in Nat
  BY <1>2 DEF ViewType
<1>4. Listed(chan[b]) = Listed(chan[b])' \cup {m} /\ m \in Listed(chan[b])
  BY <1>1, <1>3, ListedTail
<1>5. CASE ~ready[b]
  <2>1. InLine(queue[b], chan[b], unsent)' /\ UnderWay(b)' = UnderWay(b)
    BY <1>1, <1>3, <1>5, AsideLine DEF DeltaAt, UnderWay
  <2> QED
    BY <1>1, <1>4, <1>5, <2>1 DEF DeltaAt
<1>6. CASE ready[b]
  <2>1. queue[b] = {} /\ queue'[b] = {} /\ sync'[b] = NoSync
    BY <1>1, <1>2, <1>6 DEF ViewType
  <2>2. \A o \in Listed(chan[b]) : o.kind \notin ResultKind
    BY <1>6 DEF TypeInv, Waiting, Listed
  <2>3. InLine(queue[b], chan[b], unsent) /\ BatchesTrue(row, seq, Under({}, chan[b], unsent))
    BY <2>1 DEF DeltaAt, UnderWay
  <2>4. /\ ShownUpTo(row, Apply(records[b], m.changes), m.seq)
        /\ Covers(row, Under({}, Tail(chan[b]), unsent), m.seq)
        /\ m.seq <= seq
    BY <1>1, <1>3, <1>6, <2>1, <2>3, ApplyTrue DEF DeltaAt, UnderWay
  <2>5. /\ InLine({}, Tail(chan[b]), unsent)
        /\ BatchesTrue(row, seq, Under({}, Tail(chan[b]), unsent))
    <3>1. /\ InLine({}, Tail(chan[b]), unsent)
          /\ Under({}, Tail(chan[b]), unsent) \subseteq Under({}, chan[b], unsent)
          /\ \A n \in Under({}, Tail(chan[b]), unsent), o \in Under({}, chan[b], unsent) :
                o.seq > n.seq => o \in Under({}, Tail(chan[b]), unsent)
      BY <1>1, <1>3, <2>1, <2>3, ShorterLine
    <3> QED
      BY <2>3, <3>1, TrueLess
  <2>6. NoSync.pc = "none"
    BY DEF NoSync
  <2> QED
    BY <1>1, <1>4, <1>6, <2>1, <2>2, <2>4, <2>5, <2>6 DEF DeltaAt, UnderWay
<1> QED
  BY <1>5, <1>6

LEMMA ResultAt ==
    ASSUME TypeInv, NEW b \in Browser, DeltaAt(b), ReceiveResult(b) PROVE DeltaAt(b)'
<1> DEFINE m == Head(chan[b])
           late == Aside(b, m)
           n == Newest(m.seq, late)
           shown == InSeqOrder(Apply(Start(records[b], lastSeq[b]), m.changes), late)
<1>1. /\ chan[b] # <<>> /\ m.kind \in ResultKind /\ chan'[b] = Tail(chan[b])
      /\ UNCHANGED <<seq, row, unsent, sync>>
      /\ queue'[b] = {} /\ ready'[b] = TRUE /\ lastSeq'[b] = n
      /\ records'[b] = InSeqOrder(Apply(IF m.kind = "snapshot" THEN [i \in Id |-> Gone]
                                        ELSE records[b], m.changes), late)
  BY DEF ReceiveResult, TypeInv, LinkTypeOK, PageTypeOK, rowVars
<1>2. /\ seq \in Nat /\ row \in [Id -> [state : RowState, rev : Nat]]
      /\ queue[b] \in SUBSET Message({"batch"}) /\ chan[b] \in Seq(AnyMessage)
      /\ unsent \in Seq(Message({"batch"})) /\ lastSeq[b] \in Nat
  BY ViewTyped DEF ViewType
<1>3. /\ Listed(chan[b]) = Listed(chan[b])' \cup {m} /\ m \in Listed(chan[b])
      /\ m.kind # "batch" /\ m.seq \in Nat
  <2>1. Listed(chan[b]) \subseteq AnyMessage
    BY <1>2, ListedType
  <2> QED
    BY <1>1, <1>2, <2>1, ListedTail DEF AnyMessage, Message, ResultKind
<1>4. sync[b] = NoSync /\ \A o \in Listed(chan'[b]) : o.kind \notin ResultKind
  <2>1. 1 \in DOMAIN chan[b] /\ chan[b][1] = m
    BY <1>1, <1>2, TailIs
  <2>2. ASSUME NEW k \in DOMAIN chan'[b], chan'[b][k].kind \in ResultKind PROVE FALSE
    <3>1. k \in Nat /\ k > 0 /\ k + 1 \in DOMAIN chan[b] /\ chan[b][k + 1].kind \in ResultKind
      BY <1>1, <1>2, <2>2, TailIs
    <3>2. k + 1 = 1
      BY <1>1, <2>1, <3>1 DEF TypeInv, Waiting
    <3> QED
      BY <3>1, <3>2
  <2> QED
    BY <1>1, <2>1, <2>2 DEF TypeInv, Waiting, Listed
<1>5. /\ m.kind = KindOf(lastSeq[b])
      /\ AnswerTrue(row, seq, UnderWay(b), Start(records[b], lastSeq[b]), m.seq, m.changes)
  BY <1>1, <1>3 DEF DeltaAt
<1>6. records'[b] = shown
  BY <1>1, <1>5 DEF KindOf, Start
<1>7. /\ late = {batch \in queue[b] : batch.seq > m.seq}
      /\ HasNewest(late) /\ \A i \in Id : HasNewest(Writing(late, i))
  BY <1>3, AsideNewest DEF Aside, TypeInv
<1>8. InLine(queue[b], chan[b], unsent) /\ BatchesTrue(row, seq, Under(queue[b], chan[b], unsent))
  BY DEF DeltaAt, UnderWay
<1>9. /\ ShownUpTo(row, shown, n) /\ Covers(row, Under({}, Tail(chan[b]), unsent), n) /\ n <= seq
  BY <1>1, <1>2, <1>3, <1>5, <1>7, <1>8, ResultTrue DEF UnderWay
<1>10. /\ InLine({}, Tail(chan[b]), unsent)
       /\ BatchesTrue(row, seq, Under({}, Tail(chan[b]), unsent))
  <2>1. /\ InLine({}, Tail(chan[b]), unsent)
        /\ Under({}, Tail(chan[b]), unsent) \subseteq Under(queue[b], chan[b], unsent)
        /\ \A k \in Under({}, Tail(chan[b]), unsent), o \in Under(queue[b], chan[b], unsent) :
              o.seq > k.seq => o \in Under({}, Tail(chan[b]), unsent)
    BY <1>1, <1>2, <1>8, ShorterLine
  <2> QED
    BY <1>8, <2>1, TrueLess
<1>11. NoSync.pc = "none"
  BY DEF NoSync
<1> QED
  BY <1>1, <1>4, <1>6, <1>9, <1>10, <1>11 DEF DeltaAt, UnderWay

\* A draft of a row that nobody has written.
LEMMA PutAt ==
    ASSUME NEW b, ViewType(b), DeltaAt(b), RowsTrue, UNCHANGED <<seq, row, unsent>>,
           UNCHANGED <<queue[b], chan[b], sync[b], ready[b], lastSeq[b]>>,
           NEW i \in Id, row[i].state = "absent",
           \A j \in Id \ {i} : records'[b][j] = records[b][j]
    PROVE  DeltaAt(b)'
<1>1. UnderWay(b)' = UnderWay(b) /\ row[i].rev = 0
  BY DEF UnderWay, RowsTrue
<1>2. ASSUME NEW n, ShownUpTo(row, records[b], n) PROVE ShownUpTo(row, records'[b], n)
  BY <1>1, <1>2 DEF ShownUpTo
<1>3. ASSUME NEW n, NEW changes,
             AnswerTrue(row, seq, UnderWay(b), Start(records[b], lastSeq[b]), n, changes)
      PROVE  AnswerTrue(row, seq, UnderWay(b), Start(records'[b], lastSeq[b]), n, changes)
  <2>1. ASSUME NEW j \in Id, row[j].rev \in 1..n
        PROVE  Apply(Start(records'[b], lastSeq[b]), changes)[j]
                  = Apply(Start(records[b], lastSeq[b]), changes)[j]
    BY <1>1, <2>1 DEF Apply, Start
  <2> QED
    BY <1>3, <2>1 DEF AnswerTrue, ShownUpTo
<1> QED
  BY <1>1, <1>2, <1>3 DEF DeltaAt

\* Requests: what they do to rows.
LEMMA RowsWrite ==
    ASSUME BoxTypeOK, RowsTrue, NEW i \in Id, NEW state \in RowState \ {"absent"}, Mutate(i, state),
           selected' \subseteq selected
    PROVE  RowsTrue'
<1>1. /\ seq \in Nat /\ seq' = seq + 1 /\ row'[i].rev = seq + 1 /\ row'[i].state = state
      /\ \A j \in Id \ {i} : row'[j] = row[j] /\ row[j].rev \in Nat
  BY DEF BoxTypeOK, Mutate
<1>2. ASSUME NEW j \in Id PROVE row'[j].rev <= seq' /\ (row'[j].state = "absent" => row'[j].rev = 0)
  <2>1. CASE j = i
    BY <1>1, <2>1
  <2>2. CASE j # i
    BY <1>1, <2>2 DEF RowsTrue
  <2> QED
    BY <2>1, <2>2
<1>3. ASSUME NEW j \in selected', j \in Id PROVE row'[j].state # "absent"
  BY <1>1, <1>3 DEF RowsTrue
<1>4. ASSUME NEW j \in selected', j \notin Id PROVE row'[j].state # "absent"
  BY <1>4 DEF Mutate, RowsTrue, BoxTypeOK
<1> QED
  BY <1>2, <1>3, <1>4 DEF RowsTrue

LEMMA RequestDelta ==
    ASSUME TypeInv, DeltaInv, RequestStep(Fresh), UNCHANGED <<linkVars, pageVars>> PROVE DeltaInv'
<1>1. BoxTypeOK /\ RowsTrue /\ selected \subseteq Id
  BY DEF TypeInv, BoxInv, DeltaInv, LinkTypeOK
<1>2. \A b \in Browser : ViewType(b) /\ DeltaAt(b) /\ AtKept(b) /\ sync'[b] = sync[b]
  BY ViewTyped DEF DeltaInv, AtKept, PageKept, linkVars, pageVars
<1>3. ASSUME NEW i \in Id, NEW state \in RowState \ {"absent"}, Mutate(i, state),
             selected' \subseteq selected
      PROVE  DeltaInv'
  BY <1>1, <1>2, <1>3, RowsWrite, WriteAt DEF DeltaInv
<1>4. ASSUME NEW i \in Fresh, RecordAction(i) PROVE DeltaInv'
  BY <1>3, <1>4 DEF RecordAction, Fresh, RowState
<1>5. ASSUME NEW i \in Id, DeleteEntity(i) PROVE DeltaInv'
  BY <1>3, <1>5 DEF DeleteEntity, RowState
<1>6. ASSUME NEW i \in Id, SelectRow(i) PROVE DeltaInv'
  <2>1. /\ UNCHANGED <<seq, row, unsent>> /\ row[i].state = "live"
        /\ selected' = selected \cup {i}
    BY <1>6 DEF SelectRow
  <2>2. RowsTrue'
    BY <1>1, <2>1 DEF RowsTrue
  <2>3. \A b \in Browser : DeltaAt(b)'
    BY <1>2, <2>1, SameAt
  <2> QED
    BY <2>2, <2>3 DEF DeltaInv
<1>7. ASSUME NEW i \in Id, UpdateRow(i) PROVE DeltaInv'
  <2>1. row[i].state \in RowState \ {"absent"}
    BY <1>1, <1>7 DEF UpdateRow, RowsTrue, BoxTypeOK
  <2>2. Mutate(i, row[i].state) /\ selected' \subseteq selected
    BY <1>7 DEF UpdateRow
  <2> QED
    BY <1>3, <2>1, <2>2
<1> QED
  BY <1>4, <1>5, <1>6, <1>7 DEF RequestStep

LEMMA ServeDelta ==
    ASSUME TypeInv, DeltaInv, NEW b \in Browser, ServePost(b) PROVE DeltaInv'
<1>1. BoxTypeOK /\ RowsTrue /\ selected \subseteq Id /\ HeadPosted /\ seq \in Nat
  BY DEF TypeInv, BoxInv, DeltaInv, LinkTypeOK, BoxTypeOK
<1>2. /\ UNCHANGED <<linkVars, pageVars>> /\ outbox[b] # <<>>
      /\ \/ CreateEntity(Head(outbox[b]))
         \/ CreateRefused(Head(outbox[b])) \/ UNCHANGED rowVars
  BY <1>1 DEF ServePost, HeadPosted, InFlight
<1>3. \A c \in Browser : ViewType(c) /\ DeltaAt(c) /\ AtKept(c) /\ sync'[c] = sync[c]
  BY <1>2, ViewTyped DEF DeltaInv, AtKept, PageKept, linkVars, pageVars
<1>4. CASE CreateEntity(Head(outbox[b]))
  <2>1. Head(outbox[b]) \in Id
    BY <1>1, <1>2 DEF BoxTypeOK
  <2>2. Mutate(Head(outbox[b]), "live") /\ selected' = selected /\ "live" \in RowState \ {"absent"}
    BY <1>4 DEF CreateEntity, RowState
  <2> QED
    BY <1>1, <1>3, <2>1, <2>2, RowsWrite, WriteAt DEF DeltaInv
<1>5. CASE CreateRefused(Head(outbox[b])) \/ UNCHANGED rowVars
  <2>1. UNCHANGED <<row, unsent, selected>> /\ seq' \in {seq, seq + 1}
    BY <1>5 DEF CreateRefused, MutateNothing, rowVars
  <2>2. RowsTrue'
    <3>1. ASSUME NEW j \in Id PROVE row[j].rev <= seq'
      <4>1. row[j].rev \in Nat /\ row[j].rev <= seq
        BY <1>1 DEF RowsTrue, BoxTypeOK
      <4> QED
        BY <1>1, <2>1, <4>1
    <3> QED
      BY <1>1, <2>1, <3>1 DEF RowsTrue
  <2>3. \A c \in Browser : DeltaAt(c)'
    BY <1>3, <2>1, SameAt
  <2> QED
    BY <2>2, <2>3 DEF DeltaInv
<1> QED
  BY <1>2, <1>4, <1>5

\* A step of one browser that writes no row.
LEMMA OneDelta ==
    ASSUME TypeInv, DeltaInv, NEW b \in Browser, UNCHANGED <<seq, row, unsent>>,
           selected' = selected, DeltaAt(b)',
           \A c \in Browser \ {b} : AtKept(c) /\ sync'[c] = sync[c]
    PROVE  DeltaInv'
<1>1. RowsTrue'
  BY DEF DeltaInv, RowsTrue
<1>2. ASSUME NEW c \in Browser PROVE DeltaAt(c)'
  <2>1. CASE c = b
    BY <2>1
  <2>2. CASE c # b
    BY <2>2, SameAt, ViewTyped DEF DeltaInv
  <2> QED
    BY <2>1, <2>2
<1> QED
  BY <1>1, <1>2 DEF DeltaInv

LEMMA BroadcastDelta == ASSUME InOrder, TypeInv, DeltaInv, Broadcast PROVE DeltaInv'
<1>1. /\ 1 \in DOMAIN unsent
      /\ unsent' = SubSeq(unsent, 1, 0) \o SubSeq(unsent, 2, Len(unsent))
      /\ chan' = [b \in Browser |-> IF conn[b] THEN Append(chan[b], unsent[1]) ELSE chan[b]]
      /\ UNCHANGED <<seq, row, selected, sync, pageVars>>
  BY DEF Broadcast
<1>2. unsent \in Seq(Message({"batch"}))
  BY DEF TypeInv, LinkTypeOK
<1>3. unsent # <<>> /\ unsent[1] = Head(unsent)
  BY <1>1, <1>2
<1>4. unsent' = Tail(unsent)
  <2>1. SubSeq(unsent, 1, 0) = <<>>
    BY <1>2
  <2>2. SubSeq(unsent, 2, Len(unsent)) = Tail(unsent)
    BY <1>2, <1>3
  <2>3. Tail(unsent) \in Seq(Message({"batch"}))
    BY <1>2, <1>3
  <2>4. <<>> \o Tail(unsent) = Tail(unsent)
    BY <2>3
  <2> QED
    BY <1>1, <2>1, <2>2, <2>4
<1>5. RowsTrue'
  BY <1>1 DEF DeltaInv, RowsTrue
<1>6. ASSUME NEW b \in Browser PROVE DeltaAt(b)'
  <2>1. ViewType(b) /\ DeltaAt(b)
    BY ViewTyped DEF DeltaInv
  <2>2. PageKept(b) /\ UNCHANGED <<queue[b], sync[b]>>
    BY <1>1 DEF PageKept, pageVars
  <2>3. CASE conn[b]
    BY <1>1, <1>3, <1>4, <2>1, <2>2, <2>3, BroadcastAt
  <2>4. CASE ~conn[b]
    BY <1>1, <1>3, <1>4, <2>1, <2>2, <2>4, AloneAt DEF ViewType, PageKept
  <2> QED
    BY <2>3, <2>4
<1> QED
  BY <1>5, <1>6 DEF DeltaInv

LEMMA FaultDelta ==
    ASSUME TypeInv, DeltaInv, ServerCrash \/ \E b \in Browser : Drop(b) \/ Reload(b)
    PROVE  DeltaInv'
<1>1. PICK browsers \in SUBSET Browser :
        /\ Disconnected(browsers) /\ UNCHANGED <<seq, row>> /\ selected' \subseteq selected
        /\ unsent' = unsent \/ (browsers = Browser /\ unsent' = <<>>)
        /\ \A b \in Browser : \/ UNCHANGED <<records[b], lastSeq[b]>>
                              \/ b \in browsers /\ lastSeq'[b] = 0
  <2>1. CASE ServerCrash
    BY <2>1 DEF ServerCrash
  <2>2. ASSUME NEW b \in Browser, Drop(b)
        PROVE  /\ Disconnected({b}) /\ UNCHANGED <<seq, row, selected, unsent, records, lastSeq>>
    BY <2>2 DEF Drop, rowVars
  <2>3. ASSUME NEW b \in Browser, Reload(b)
        PROVE  /\ Disconnected({b}) /\ UNCHANGED <<seq, row, selected, unsent>>
               /\ lastSeq'[b] = 0
               /\ \A c \in Browser \ {b} : UNCHANGED <<records[c], lastSeq[c]>>
    BY <2>3 DEF Reload, rowVars, TypeInv, PageTypeOK
  <2> QED
    BY <2>1, <2>2, <2>3
<1>2. RowsTrue'
  BY <1>1 DEF DeltaInv, RowsTrue
<1>3. ASSUME NEW b \in Browser PROVE DeltaAt(b)'
  <2>1. ViewType(b) /\ DeltaAt(b)
    BY ViewTyped DEF DeltaInv
  <2>2. CASE b \in browsers
    <3>1. queue'[b] = {} /\ chan'[b] = <<>> /\ sync'[b] = NoSync /\ ~ready'[b]
      BY <1>1, <2>2 DEF Disconnected
    <3> QED
      BY <1>1, <2>1, <3>1, AloneAt
  <2>3. CASE b \notin browsers
    <3>1. AtKept(b) /\ sync'[b] = sync[b] /\ unsent' = unsent
      BY <1>1, <2>1, <2>3 DEF Disconnected, AtKept, PageKept, ViewType
    <3> QED
      BY <1>1, <2>1, <3>1, SameAt
  <2> QED
    BY <2>2, <2>3
<1> QED
  BY <1>2, <1>3 DEF DeltaInv

LEMMA InitDelta == ASSUME Init PROVE DeltaInv
<1>1. /\ seq = 0 /\ selected = {} /\ unsent = <<>>
      /\ row = [i \in Id |-> [state |-> "absent", rev |-> 0]]
      /\ \A b \in Browser : chan[b] = <<>> /\ queue[b] = {} /\ sync[b].pc = "none"
                            /\ ~ready[b] /\ lastSeq[b] = 0
  BY DEF Init, RowsInit, NoSync
<1>2. RowsTrue
  BY <1>1 DEF RowsTrue
<1>3. ASSUME NEW b \in Browser PROVE DeltaAt(b)
  <2>1. Listed(<<>>) = {} /\ Coming(<<>>) = {} /\ Ascending(<<>>)
    BY DEF Listed, Coming, Ascending
  <2> QED
    BY <1>1, <2>1 DEF DeltaAt, UnderWay, Under, InLine, Earlier, BatchesTrue, ShownUpTo
<1> QED
  BY <1>2, <1>3 DEF DeltaInv

LEMMA DeltaStep == ASSUME InOrder, TypeInv, DeltaInv, [Next]_vars PROVE DeltaInv'
<1>1. /\ BoxTypeOK /\ LinkTypeOK /\ PageTypeOK
      /\ \A b \in Browser : ViewType(b) /\ DeltaAt(b)
  BY ViewTyped DEF TypeInv, BoxInv, DeltaInv
<1>2. CASE RequestStep(Fresh) /\ UNCHANGED <<linkVars, pageVars, boxVars, faults>>
  BY <1>2, RequestDelta
<1>3. ASSUME NEW b \in Browser, ReadSeq(b) \/ ReadRows(b) \/ SendResult(b) PROVE DeltaInv'
  <2>1. UNCHANGED <<seq, row, unsent, selected, queue, ready, records, lastSeq>>
    BY <1>3 DEF ReadSeq, ReadRows, SendResult, rowVars, pageVars
  <2>2. \A c \in Browser \ {b} : sync'[c] = sync[c] /\ chan'[c] = chan[c]
    BY <1>1, <1>3 DEF ReadSeq, ReadRows, SendResult, LinkTypeOK
  <2>3. DeltaAt(b)'
    BY <1>1, <1>3, AnswerAt DEF DeltaInv, LinkTypeOK, AnyMessage
  <2> QED
    BY <2>1, <2>2, <2>3, OneDelta DEF AtKept, PageKept
<1>4. ASSUME NEW b \in Browser, Connect(b) PROVE DeltaInv'
  <2>1. /\ UNCHANGED <<seq, row, unsent, selected, chan, queue, ready, records, lastSeq>>
        /\ sync' = [sync EXCEPT ![b] = [@ EXCEPT !.pc = "asked"]]
    BY <1>1, <1>4 DEF Connect, rowVars, pageVars, LinkTypeOK
  <2>2. sync'[b].pc = "asked" /\ \A c \in Browser \ {b} : sync'[c] = sync[c]
    BY <1>1, <2>1 DEF LinkTypeOK, SyncState
  <2>3. DeltaAt(b)'
    BY <1>1, <2>1, <2>2, SameAt DEF AtKept, PageKept
  <2> QED
    BY <2>1, <2>2, <2>3, OneDelta DEF AtKept, PageKept
<1>5. ASSUME NEW b \in Browser, ReceiveBatch(b) \/ ReceiveResult(b) PROVE DeltaInv'
  <2>1. UNCHANGED <<seq, row, unsent, selected, sync>>
    BY <1>5 DEF ReceiveBatch, ReceiveResult, rowVars
  <2>2. \A c \in Browser \ {b} :
           UNCHANGED <<chan[c], queue[c], ready[c], records[c], lastSeq[c]>>
    <3>1. CASE ReceiveBatch(b)
      BY <1>1, <3>1 DEF ReceiveBatch, LinkTypeOK, PageTypeOK
    <3>2. CASE ReceiveResult(b)
      BY <1>1, <3>2 DEF ReceiveResult, LinkTypeOK, PageTypeOK
    <3> QED
      BY <1>5, <3>1, <3>2
  <2>3. DeltaAt(b)'
    BY <1>1, <1>5, BatchAt, ResultAt
  <2> QED
    BY <2>1, <2>2, <2>3, OneDelta DEF AtKept, PageKept
<1>6. ASSUME NEW b \in Browser, Put(b) PROVE DeltaInv'
  <2>1. PICK i \in Fresh : records' = [records EXCEPT ![b][i] = Draft]
    BY <1>6 DEF Put
  <2>2. UNCHANGED <<seq, row, selected, unsent, conn, chan, sync, ready, queue, lastSeq>>
    BY <1>6 DEF Put, linkVars
  <2>3. /\ i \in Id /\ row[i].state = "absent" /\ \A c \in Browser \ {b} : records'[c] = records[c]
        /\ \A j \in Id \ {i} : records'[b][j] = records[b][j]
    BY <1>1, <2>1 DEF Fresh, PageTypeOK
  <2>4. DeltaAt(b)'
    BY <1>1, <2>2, <2>3, PutAt DEF DeltaInv
  <2> QED
    BY <2>2, <2>3, <2>4, OneDelta DEF AtKept, PageKept
<1>7. CASE UNCHANGED <<rowVars, linkVars, pageVars>>
  <2>1. \A b \in Browser : AtKept(b) /\ sync'[b] = sync[b]
    BY <1>7 DEF linkVars, pageVars, AtKept, PageKept
  <2>2. UNCHANGED <<seq, row, unsent, selected>>
    BY <1>7 DEF rowVars
  <2>3. RowsTrue' /\ \A b \in Browser : DeltaAt(b)'
    BY <1>1, <2>1, <2>2, SameAt DEF DeltaInv, RowsTrue
  <2> QED
    BY <2>3 DEF DeltaInv
<1>8. ASSUME NEW b \in Browser, Posted(b) \/ Refused(b) \/ PostLost(b)
      PROVE  UNCHANGED <<rowVars, linkVars, pageVars>>
  BY <1>8 DEF Posted, Refused, PostLost
<1>9. UNCHANGED vars => UNCHANGED <<rowVars, linkVars, pageVars>>
  BY DEF vars
<1>10. Broadcast => DeltaInv'
  BY BroadcastDelta
<1>11. ASSUME NEW b \in Browser, ServePost(b) PROVE DeltaInv'
  BY <1>11, ServeDelta
<1>12. ServerCrash \/ (\E b \in Browser : Drop(b) \/ Reload(b)) => DeltaInv'
  BY FaultDelta
<1> QED
  BY <1>2, <1>3, <1>4, <1>5, <1>6, <1>7, <1>8, <1>9, <1>10, <1>11, <1>12
  DEF Next, ServerStep, BrowserStep

\* Replies to COMMIT in order, lastSeq never claims too much, for any number of rows, pages,
\* faults and writes: what is written up to lastSeq is shown as it is, connected or not, so that
\* a delta since lastSeq is all a page has to ask for (sync-client.ts:64-96, snapshot.ts:20-53).
THEOREM DeltaIsEnough == InOrder => (Spec => []DeltaSuffices)
<1> SUFFICES ASSUME InOrder PROVE Spec => []DeltaSuffices
  OBVIOUS
<1>1. DeltaInv => DeltaSuffices
  BY DEF DeltaInv, DeltaAt, ShownUpTo, DeltaSuffices, Settled, Shown, ShownOf
<1>2. Init => TypeInv /\ DeltaInv
  BY InitType, InitDelta
<1>3. TypeInv /\ DeltaInv /\ [Next]_vars => TypeInv' /\ DeltaInv'
  BY TypeStep, DeltaStep
<1> QED
  BY <1>1, <1>2, <1>3, PTL DEF Spec

-----------------------------------------------------------------------------
(* A page that is up and has nothing to come shows the rows.               *)

Messages(b) == Listed(chan[b]) \cup queue[b] \cup Listed(unsent)

\* Changes say nothing of rows that were not written.
Silent(rows, changes) == \A i \in Id : rows[i].rev = 0 => changes[i] = Same

\* Only a page that has a row in its outbox shows something before it is written.
Hidden(rows, old, list) == \A i \in Id : rows[i].rev = 0 => old[i] = Gone \/ i \in Listed(list)

\* The head of an outbox leaves it once its row is written.
HeadWritten(b) == post[b].pc \in {"committed", "ok"} => row[Head(outbox[b])].rev > 0

GoneAt(b) ==
    /\ \A m \in Messages(b) : Silent(row, m.changes)
    /\ sync[b].pc = "rowsRead" => Silent(row, sync[b].changes)
    /\ Hidden(row, records[b], outbox[b])
    /\ HeadWritten(b)

GoneInv ==
    /\ \A i \in Id : row[i].rev = 0 => row[i].state = "absent"
    /\ \A b \in Browser : GoneAt(b)

LEMMA RemovedIs ==
    ASSUME NEW S, NEW list \in Seq(S), NEW k \in DOMAIN list
    PROVE  /\ list[k] \in Listed(list)
           /\ Listed(SubSeq(list, 1, k - 1) \o SubSeq(list, k + 1, Len(list))) \subseteq Listed(list)
<1> DEFINE T == Listed(list)
<1>1. list \in Seq(T) /\ k \in 1..Len(list)
  BY DEF Listed
<1> HIDE DEF T
<1>2. SubSeq(list, 1, k - 1) \in Seq(T) /\ SubSeq(list, k + 1, Len(list)) \in Seq(T)
  BY <1>1
<1>3. SubSeq(list, 1, k - 1) \o SubSeq(list, k + 1, Len(list)) \in Seq(T)
  BY <1>2
<1>4. Listed(SubSeq(list, 1, k - 1) \o SubSeq(list, k + 1, Len(list))) \subseteq T
  BY <1>3, ListedType
<1> QED
  BY <1>4 DEF T, Listed

\* What was not written is as it was, and a new batch says nothing of it.
LEMMA MutateSilent ==
    ASSUME BoxTypeOK, LinkTypeOK, NEW i \in Id, NEW state \in RowState, Mutate(i, state)
    PROVE  /\ \A j \in Id : row'[j].rev = 0 => row'[j] = row[j]
           /\ \A m \in Listed(unsent') : m \in Listed(unsent) \/ Silent(row', m.changes)
           /\ row'[i].rev > 0
<1>1. /\ row' = Written(row, i, state, seq) /\ unsent' = Append(unsent, News(i, state, seq))
  BY DEF Mutate, Written, News
<1>2. /\ row'[i].rev = seq + 1 /\ seq + 1 > 0
      /\ \A j \in Id \ {i} : row'[j] = row[j] /\ News(i, state, seq).changes[j] = Same
  <2>1. seq \in Nat /\ row \in [Id -> [state : RowState, rev : Nat]]
    BY DEF BoxTypeOK
  <2>2. /\ Written(row, i, state, seq)[i].rev = seq + 1
        /\ \A j \in Id \ {i} : /\ Written(row, i, state, seq)[j] = row[j]
                               /\ News(i, state, seq).changes[j] = Same
    BY <2>1, WrittenIs
  <2> QED
    BY <1>1, <2>1, <2>2
<1>3. Silent(row', News(i, state, seq).changes)
  BY <1>2 DEF Silent
<1>4. Listed(unsent') = Listed(unsent) \cup {News(i, state, seq)}
  BY <1>1, ListedAppend DEF LinkTypeOK
<1> QED
  BY <1>2, <1>3, <1>4

RowsKnown ==
    /\ \A j \in Id : row'[j].rev = 0 => row'[j] = row[j]
    /\ \A m \in Listed(unsent') : m \in Listed(unsent) \/ Silent(row', m.changes)

LEMMA RowsKnownStep == ASSUME TypeInv, [Next]_vars PROVE RowsKnown
<1>1. BoxTypeOK /\ LinkTypeOK /\ HeadPosted
  BY DEF TypeInv, BoxInv
<1>2. ASSUME NEW i \in Id, NEW state \in RowState, Mutate(i, state) PROVE RowsKnown
  BY <1>1, <1>2, MutateSilent DEF RowsKnown
<1>3. CASE UNCHANGED <<row, unsent>>
  BY <1>3 DEF RowsKnown
<1>4. CASE RequestStep(Fresh)
  <2>1. ASSUME NEW i \in Fresh, RecordAction(i) PROVE RowsKnown
    BY <1>2, <2>1 DEF RecordAction, Fresh, RowState
  <2>2. ASSUME NEW i \in Id, DeleteEntity(i) PROVE RowsKnown
    BY <1>2, <2>2 DEF DeleteEntity, RowState
  <2>3. ASSUME NEW i \in Id, SelectRow(i) PROVE RowsKnown
    BY <1>3, <2>3 DEF SelectRow
  <2>4. ASSUME NEW i \in Id, UpdateRow(i) PROVE RowsKnown
    <3>1. Mutate(i, row[i].state) /\ row[i].state \in RowState
      BY <1>1, <2>4 DEF UpdateRow, BoxTypeOK
    <3> QED
      BY <1>2, <3>1
  <2> QED
    BY <1>4, <2>1, <2>2, <2>3, <2>4 DEF RequestStep
<1>5. ASSUME NEW b \in Browser, ServePost(b) PROVE RowsKnown
  <2>1. Head(outbox[b]) \in Id
    BY <1>1, <1>5 DEF ServePost, HeadPosted, InFlight, BoxTypeOK
  <2>2. CreateEntity(Head(outbox[b])) => RowsKnown
    BY <1>2, <2>1 DEF CreateEntity, RowState
  <2>3. CreateRefused(Head(outbox[b])) \/ UNCHANGED rowVars => RowsKnown
    BY <1>3 DEF CreateRefused, MutateNothing, rowVars
  <2> QED
    BY <1>5, <2>2, <2>3 DEF ServePost
<1>6. CASE Broadcast
  <2>1. PICK k \in DOMAIN unsent :
          unsent' = SubSeq(unsent, 1, k - 1) \o SubSeq(unsent, k + 1, Len(unsent)) /\ row' = row
    BY <1>6 DEF Broadcast
  <2>2. Listed(unsent') \subseteq Listed(unsent)
    BY <1>1, <2>1, RemovedIs DEF LinkTypeOK
  <2> QED
    BY <2>1, <2>2 DEF RowsKnown
<1>7. CASE ServerCrash
  <2>1. row' = row /\ Listed(unsent') = {}
    BY <1>7 DEF ServerCrash, Listed
  <2> QED
    BY <2>1 DEF RowsKnown
<1>8. ASSUME NEW b \in Browser,
             \/ ReadSeq(b) \/ ReadRows(b) \/ SendResult(b) \/ BrowserStep(b)
             \/ Put(b) \/ Drop(b) \/ Reload(b) \/ PostLost(b)
      PROVE  UNCHANGED <<row, unsent>>
  BY <1>8 DEF ReadSeq, ReadRows, SendResult, BrowserStep, Connect, ReceiveBatch, ReceiveResult,
              Posted, Refused, Put, Drop, Reload, PostLost, rowVars
<1>9. UNCHANGED vars => UNCHANGED <<row, unsent>>
  BY DEF vars, rowVars
<1> QED
  BY <1>3, <1>4, <1>5, <1>6, <1>7, <1>8, <1>9 DEF Next, ServerStep

\* A message a browser is going to read comes from the server's batches or answers.
LEMMA MessagesStep ==
    ASSUME TypeInv, GoneInv, [Next]_vars, NEW b \in Browser
    PROVE  /\ \A m \in Messages(b)' : Silent(row', m.changes)
           /\ sync'[b].pc = "rowsRead" => Silent(row', sync'[b].changes)
<1>1. /\ RowsKnown /\ GoneAt(b) /\ LinkTypeOK /\ PageTypeOK /\ chan[b] \in Seq(AnyMessage)
      /\ ViewType(b)
  BY RowsKnownStep, ViewTyped DEF TypeInv, GoneInv, LinkTypeOK, AnyMessage
<1>2. ASSUME NEW changes, Silent(row, changes) PROVE Silent(row', changes)
  BY <1>1, <1>2 DEF RowsKnown, Silent
<1>3. \A m \in Listed(unsent') \cup Messages(b) : Silent(row', m.changes)
  <2>1. \A m \in Messages(b) : Silent(row', m.changes)
    BY <1>1, <1>2 DEF GoneAt
  <2> QED
    BY <1>1, <2>1 DEF RowsKnown, Messages
<1>4. sync[b].pc = "rowsRead" => Silent(row', sync[b].changes)
  BY <1>1, <1>2 DEF GoneAt
<1>5. ASSUME \A m \in Listed(chan'[b]) \cup queue'[b] : m \in Messages(b) \/ Silent(row', m.changes),
             sync'[b] = sync[b] \/ (sync'[b].pc = "rowsRead" => Silent(row', sync'[b].changes))
      PROVE  /\ \A m \in Messages(b)' : Silent(row', m.changes)
             /\ sync'[b].pc = "rowsRead" => Silent(row', sync'[b].changes)
  BY <1>3, <1>4, <1>5 DEF Messages
<1>6. Listed(chan[b]) \subseteq Messages(b) /\ queue[b] \subseteq Messages(b) /\ Listed(unsent) \subseteq Messages(b)
  BY DEF Messages
<1>7. CASE UNCHANGED <<chan[b], queue[b], sync[b]>>
  BY <1>5, <1>6, <1>7
<1>8. CASE UNCHANGED <<chan, queue, sync>>
  BY <1>7, <1>8
<1>9. CASE Broadcast
  <2>1. PICK k \in DOMAIN unsent :
          /\ chan' = [c \in Browser |-> IF conn[c] THEN Append(chan[c], unsent[k]) ELSE chan[c]]
          /\ UNCHANGED <<queue, sync>>
    BY <1>9 DEF Broadcast, pageVars
  <2>2. unsent[k] \in Listed(unsent)
    BY DEF Listed
  <2>3. Listed(chan'[b]) \subseteq Listed(chan[b]) \cup {unsent[k]}
    <3>1. CASE conn[b]
      BY <1>1, <2>1, <3>1, ListedAppend
    <3>2. CASE ~conn[b]
      BY <2>1, <3>2
    <3> QED
      BY <3>1, <3>2
  <2> QED
    BY <1>5, <1>6, <2>1, <2>2, <2>3
<1>10. ASSUME NEW c \in Browser,
              \/ Connect(c) \/ ReadSeq(c) \/ ReadRows(c) \/ SendResult(c)
              \/ ReceiveBatch(c) \/ ReceiveResult(c),
              b # c
       PROVE  UNCHANGED <<chan[b], queue[b], sync[b]>>
  <2>1. \/ UNCHANGED <<chan, queue>> /\ \E new : sync' = [sync EXCEPT ![c] = new]
        \/ queue' = queue /\ sync' = [sync EXCEPT ![c] = NoSync]
              /\ \E new : chan' = [chan EXCEPT ![c] = new]
        \/ /\ sync' = sync /\ chan' = [chan EXCEPT ![c] = Tail(@)]
           /\ queue' = queue \/ \E new : queue' = [queue EXCEPT ![c] = new]
    <3>1. CASE Connect(c)
      BY <1>1, <3>1 DEF Connect, pageVars, LinkTypeOK
    <3>2. CASE ReadSeq(c) \/ ReadRows(c)
      BY <1>1, <3>2 DEF ReadSeq, ReadRows, pageVars, LinkTypeOK
    <3>3. CASE SendResult(c)
      BY <3>3 DEF SendResult, pageVars
    <3>4. CASE ReceiveBatch(c) \/ ReceiveResult(c)
      BY <3>4 DEF ReceiveBatch, ReceiveResult
    <3> QED
      BY <1>10, <3>1, <3>2, <3>3, <3>4
  <2> QED
    BY <1>1, <1>10, <2>1 DEF LinkTypeOK, PageTypeOK
<1>11. CASE Connect(b) \/ ReadSeq(b)
  <2>1. UNCHANGED <<chan, queue>> /\ sync'[b].pc \in {"asked", "seqRead"}
    BY <1>1, <1>11 DEF Connect, ReadSeq, pageVars, LinkTypeOK, SyncState
  <2> QED
    BY <1>5, <1>6, <2>1
<1>12. CASE ReadRows(b)
  <2> DEFINE changes == [i \in Id |-> IF i \in Answer(b) THEN Shown(i) ELSE Same]
  <2>1. UNCHANGED <<chan, queue, row>> /\ sync'[b].changes = changes
    BY <1>1, <1>12 DEF ReadRows, rowVars, pageVars, LinkTypeOK, SyncState
  <2>2. Silent(row, changes)
    BY <1>1 DEF Silent, Answer, GoneInv, ViewType
  <2> QED
    BY <1>5, <1>6, <2>1, <2>2
<1>13. CASE SendResult(b)
  <2>1. /\ queue' = queue /\ sync'[b] = NoSync
        /\ \E kind, n : chan'[b] = Append(chan[b], [kind |-> kind, seq |-> n, changes |-> sync[b].changes])
        /\ sync[b].pc = "rowsRead"
    BY <1>1, <1>13 DEF SendResult, pageVars, LinkTypeOK
  <2>2. \A m \in Listed(chan'[b]) : m \in Listed(chan[b]) \/ m.changes = sync[b].changes
    BY <1>1, <2>1, ListedAppend
  <2> QED
    BY <1>4, <1>5, <1>6, <2>1, <2>2 DEF NoSync
<1>14. CASE ReceiveBatch(b) \/ ReceiveResult(b)
  <2>1. /\ chan[b] # <<>> /\ chan'[b] = Tail(chan[b]) /\ sync' = sync
        /\ queue'[b] \in {queue[b], queue[b] \cup {Head(chan[b])}, {}}
    <3>1. CASE ReceiveBatch(b)
      BY <1>1, <3>1 DEF ReceiveBatch, LinkTypeOK, PageTypeOK
    <3>2. CASE ReceiveResult(b)
      BY <1>1, <3>2 DEF ReceiveResult, LinkTypeOK, PageTypeOK
    <3> QED
      BY <1>14, <3>1, <3>2
  <2>2. Listed(chan'[b]) \subseteq Listed(chan[b]) /\ Head(chan[b]) \in Listed(chan[b])
    BY <1>1, <2>1, ListedTail
  <2> QED
    BY <1>5, <1>6, <2>1, <2>2
<1>15. ASSUME NEW browsers \in SUBSET Browser, Disconnected(browsers)
       PROVE  /\ \A m \in Messages(b)' : Silent(row', m.changes)
              /\ sync'[b].pc = "rowsRead" => Silent(row', sync'[b].changes)
  <2>1. CASE b \in browsers
    <3>1. Listed(chan'[b]) = {} /\ queue'[b] = {} /\ sync'[b].pc = "none"
      BY <1>15, <2>1 DEF Disconnected, Listed, NoSync
    <3> QED
      BY <1>5, <3>1
  <2>2. CASE b \notin browsers
    BY <1>7, <1>15, <2>2 DEF Disconnected
  <2> QED
    BY <2>1, <2>2
<1>16. ASSUME NEW c \in Browser, ServePost(c) \/ Posted(c) \/ Refused(c) \/ Put(c) \/ PostLost(c)
       PROVE  UNCHANGED <<chan, queue, sync>>
  BY <1>16 DEF ServePost, Posted, Refused, Put, PostLost, linkVars, pageVars
<1>17. ASSUME NEW c \in Browser, Drop(c) \/ Reload(c) PROVE Disconnected({c})
  BY <1>17 DEF Drop, Reload
<1>18. ServerCrash => Disconnected(Browser)
  BY DEF ServerCrash
<1>19. RequestStep(Fresh) /\ UNCHANGED <<linkVars, pageVars, boxVars, faults>> => UNCHANGED <<chan, queue, sync>>
  BY DEF linkVars, pageVars
<1>20. UNCHANGED vars => UNCHANGED <<chan, queue, sync>>
  BY DEF vars, linkVars, pageVars
<1>21. ASSUME NEW c \in Browser,
              \/ Connect(c) \/ ReadSeq(c) \/ ReadRows(c) \/ SendResult(c)
              \/ ReceiveBatch(c) \/ ReceiveResult(c)
       PROVE  /\ \A m \in Messages(b)' : Silent(row', m.changes)
              /\ sync'[b].pc = "rowsRead" => Silent(row', sync'[b].changes)
  <2>1. CASE b # c
    BY <1>7, <1>10, <1>21, <2>1
  <2>2. CASE b = c
    BY <1>11, <1>12, <1>13, <1>14, <1>21, <2>2
  <2> QED
    BY <2>1, <2>2
<1> QED
  BY <1>8, <1>9, <1>15, <1>16, <1>17, <1>18, <1>19, <1>20, <1>21
  DEF Next, ServerStep, BrowserStep

LEMMA HiddenStep ==
    ASSUME TypeInv, GoneInv, [Next]_vars, NEW b \in Browser
    PROVE  Hidden(row', records'[b], outbox'[b])
<1>1. /\ RowsKnown /\ GoneAt(b) /\ PageTypeOK /\ BoxTypeOK /\ HeadPosted /\ ViewType(b)
      /\ Hidden(row, records[b], outbox[b])
  BY RowsKnownStep, ViewTyped DEF TypeInv, BoxInv, GoneInv, GoneAt
<1>2. ASSUME \A i \in Id : row'[i].rev = 0 =>
                \/ records'[b][i] = Gone \/ i \in Listed(outbox'[b])
                \/ records'[b][i] = records[b][i] /\ (i \in Listed(outbox[b]) => i \in Listed(outbox'[b]))
      PROVE  Hidden(row', records'[b], outbox'[b])
  BY <1>1, <1>2 DEF Hidden, RowsKnown
<1>3. CASE UNCHANGED <<records[b], outbox[b]>>
  BY <1>2, <1>3
<1>4. CASE UNCHANGED <<records, outbox>>
  BY <1>3, <1>4
<1>5. CASE ReceiveBatch(b)
  <2>1. /\ chan[b] # <<>> /\ UNCHANGED <<row, outbox>>
        /\ records'[b] = records[b] \/ records'[b] = Apply(records[b], Head(chan[b]).changes)
    BY <1>1, <1>5 DEF ReceiveBatch, PageTypeOK, rowVars, boxVars
  <2>2. Silent(row, Head(chan[b]).changes)
    BY <1>1, <2>1, ListedTail DEF GoneAt, Messages, ViewType
  <2>3. \A i \in Id : row[i].rev = 0 => records'[b][i] = records[b][i]
    BY <2>1, <2>2 DEF Silent, Apply
  <2> QED
    BY <1>2, <2>1, <2>3
<1>6. CASE ReceiveResult(b)
  <2> DEFINE m == Head(chan[b])
             start == IF m.kind = "snapshot" THEN [i \in Id |-> Gone] ELSE records[b]
             late == Aside(b, m)
  <2>1. /\ chan[b] # <<>> /\ UNCHANGED <<row, outbox>>
        /\ records'[b] = InSeqOrder(Apply(start, m.changes), late)
    BY <1>1, <1>6 DEF ReceiveResult, PageTypeOK, rowVars
  <2>2. Silent(row, m.changes) /\ \A w \in late : Silent(row, w.changes)
    BY <1>1, <2>1, ListedTail DEF GoneAt, Messages, ViewType, Aside
  <2>3. ASSUME NEW i \in Id, row[i].rev = 0 PROVE records'[b][i] = start[i]
    <3>1. {w \in late : w.changes[i] # Same} = {}
      BY <2>2, <2>3 DEF Silent
    <3>2. InSeqOrder(Apply(start, m.changes), late)[i] = Apply(start, m.changes)[i]
      BY <3>1 DEF InSeqOrder
    <3> QED
      BY <2>1, <2>2, <2>3, <3>2 DEF Silent, Apply
  <2>4. \A i \in Id : start[i] = Gone \/ start[i] = records[b][i]
    OBVIOUS
  <2> QED
    BY <1>2, <2>1, <2>3, <2>4
<1>7. CASE Put(b)
  <2>1. PICK i \in Fresh : /\ records' = [records EXCEPT ![b][i] = Draft]
                           /\ outbox' = [outbox EXCEPT ![b] = Append(@, i)]
    BY <1>7 DEF Put
  <2>2. /\ \A j \in Id \ {i} : records'[b][j] = records[b][j]
        /\ outbox'[b] = Append(outbox[b], i) /\ outbox[b] \in Seq(Id)
    BY <1>1, <2>1 DEF PageTypeOK, BoxTypeOK
  <2>3. Listed(outbox'[b]) = Listed(outbox[b]) \cup {i}
    BY <2>2, ListedAppend
  <2> QED
    BY <1>2, <2>2, <2>3
<1>8. CASE Posted(b)
  <2>1. /\ post[b].pc = "ok" /\ UNCHANGED <<row, records>> /\ outbox[b] # <<>>
        /\ outbox'[b] = Tail(outbox[b]) /\ outbox[b] \in Seq(Id)
    BY <1>1, <1>8 DEF Posted, rowVars, pageVars, HeadPosted, InFlight, BoxTypeOK
  <2>2. row[Head(outbox[b])].rev > 0
    BY <1>1, <2>1 DEF GoneAt, HeadWritten
  <2>3. Listed(outbox[b]) = Listed(outbox'[b]) \cup {Head(outbox[b])}
    BY <2>1, ListedTail
  <2> QED
    BY <1>2, <2>1, <2>2, <2>3
<1>9. CASE Reload(b)
  <2>1. \A i \in Id : records'[b][i] = Gone
    BY <1>1, <1>9 DEF Reload, PageTypeOK
  <2> QED
    BY <1>2, <2>1
<1>10. ASSUME NEW c \in Browser, b # c,
              ReceiveBatch(c) \/ ReceiveResult(c) \/ Put(c) \/ Posted(c) \/ Reload(c)
       PROVE  UNCHANGED <<records[b], outbox[b]>>
  <2>1. CASE ReceiveBatch(c) \/ ReceiveResult(c)
    <3>1. outbox' = outbox /\ (records' = records \/ \E new : records' = [records EXCEPT ![c] = new])
      <4>1. CASE ReceiveBatch(c)
        BY <4>1 DEF ReceiveBatch, boxVars
      <4>2. CASE ReceiveResult(c)
        BY <4>2 DEF ReceiveResult
      <4> QED
        BY <2>1, <4>1, <4>2
    <3> QED
      BY <1>1, <1>10, <3>1 DEF PageTypeOK
  <2>2. CASE Put(c)
    BY <1>1, <1>10, <2>2 DEF Put, PageTypeOK, BoxTypeOK
  <2>3. CASE Posted(c)
    BY <1>1, <1>10, <2>3 DEF Posted, pageVars, PageTypeOK, BoxTypeOK
  <2>4. CASE Reload(c)
    BY <1>1, <1>10, <2>4 DEF Reload, PageTypeOK, BoxTypeOK
  <2> QED
    BY <1>10, <2>1, <2>2, <2>3, <2>4
<1>11. ASSUME NEW c \in Browser,
              ReceiveBatch(c) \/ ReceiveResult(c) \/ Put(c) \/ Posted(c) \/ Reload(c)
       PROVE  Hidden(row', records'[b], outbox'[b])
  <2>1. CASE b # c
    BY <1>3, <1>10, <1>11, <2>1
  <2>2. CASE b = c
    BY <1>5, <1>6, <1>7, <1>8, <1>9, <1>11, <2>2
  <2> QED
    BY <2>1, <2>2
<1>12. ASSUME NEW c \in Browser,
              ServerStep(c) \/ Connect(c) \/ Refused(c) \/ Drop(c) \/ PostLost(c)
       PROVE  UNCHANGED <<records, outbox>>
  BY <1>12 DEF ServerStep, ReadSeq, ReadRows, SendResult, ServePost, Connect, Refused, Drop,
               PostLost, pageVars, boxVars
<1>13. Broadcast \/ ServerCrash => UNCHANGED <<records, outbox>>
  BY DEF Broadcast, ServerCrash, pageVars
<1>14. UNCHANGED <<linkVars, pageVars, boxVars, faults>> => UNCHANGED <<records, outbox>>
  BY DEF pageVars, boxVars
<1>15. UNCHANGED vars => UNCHANGED <<records, outbox>>
  BY DEF vars, pageVars, boxVars
<1> QED
  BY <1>4, <1>11, <1>12, <1>13, <1>14, <1>15 DEF Next, BrowserStep

LEMMA HeadStep ==
    ASSUME TypeInv, GoneInv, [Next]_vars, NEW b \in Browser PROVE HeadWritten(b)'
<1>1. /\ RowsKnown /\ HeadWritten(b) /\ BoxTypeOK /\ HeadPosted /\ outbox[b] \in Seq(Id)
      /\ row \in [Id -> [state : RowState, rev : Nat]]
      /\ row' \in [Id -> [state : RowState, rev : Nat]]
  BY RowsKnownStep, TypeStep DEF TypeInv, BoxInv, BoxTypeOK, GoneInv, GoneAt
<1>2. ASSUME post'[b].pc \in {"committed", "ok"} =>
                /\ post[b].pc \in {"committed", "ok"}
                /\ Head(outbox'[b]) = Head(outbox[b])
      PROVE  HeadWritten(b)'
  <2>1. SUFFICES ASSUME post'[b].pc \in {"committed", "ok"}
                 PROVE  row'[Head(outbox[b])].rev > 0
    BY <1>2 DEF HeadWritten
  <2>2. row[Head(outbox[b])].rev > 0 /\ Head(outbox[b]) \in Id
    BY <1>1, <1>2, <2>1 DEF HeadWritten, HeadPosted, InFlight
  <2>3. row'[Head(outbox[b])].rev \in Nat
    BY <1>1, <2>2
  <2> QED
    BY <1>1, <2>2, <2>3 DEF RowsKnown
<1>3. CASE UNCHANGED <<post[b], outbox[b]>>
  BY <1>2, <1>3
<1>4. CASE post'[b].pc \notin {"committed", "ok"}
  BY <1>4 DEF HeadWritten
<1>5. CASE UNCHANGED <<post, outbox>>
  BY <1>3, <1>5
<1>6. CASE Broadcast
  <2>1. outbox' = outbox /\ (post'[b] = post[b] \/ post[b].pc = "committed")
    BY <1>6 DEF Broadcast
  <2> QED
    BY <1>2, <2>1
<1>7. CASE ServePost(b)
  <2>1. outbox' = outbox /\ post \in [Browser -> PostState]
    BY <1>1, <1>7 DEF ServePost, BoxTypeOK
  <2>2. CASE CreateEntity(Head(outbox[b]))
    <3>1. Head(outbox[b]) \in Id /\ Mutate(Head(outbox[b]), "live") /\ LinkTypeOK
      BY <1>1, <1>7, <2>2 DEF ServePost, CreateEntity, HeadPosted, InFlight, TypeInv
    <3>2. row'[Head(outbox[b])].rev > 0
      BY <1>1, <3>1, MutateSilent DEF RowState
    <3> QED
      BY <2>1, <3>2 DEF HeadWritten
  <2>3. CASE post' = [post EXCEPT ![b] = Post("refused")]
    BY <1>4, <2>1, <2>3 DEF Post
  <2> QED
    BY <1>7, <2>2, <2>3 DEF ServePost
<1>8. CASE ReceiveResult(b)
  <2>1. outbox' = outbox /\ post'[b] = Flush(b, outbox[b])
    BY <1>1, <1>8 DEF ReceiveResult, BoxTypeOK
  <2>2. post'[b] = post[b] \/ post'[b].pc \in {"idle", "sent"}
    BY <2>1 DEF Flush, NextPost, Post
  <2> QED
    BY <1>3, <1>4, <2>1, <2>2
<1>9. CASE Put(b)
  <2>1. PICK i \in Id : outbox'[b] = Append(outbox[b], i) /\ post'[b] = Flush(b, Append(outbox[b], i))
    BY <1>1, <1>9 DEF Put, Fresh, BoxTypeOK
  <2>2. \/ post'[b] = post[b] /\ post[b].pc \in InFlight
        \/ post'[b].pc \in {"idle", "sent"}
    BY <2>1 DEF Flush, NextPost, Post
  <2>3. CASE post'[b] = post[b] /\ post[b].pc \in InFlight
    <3>1. Head(Append(outbox[b], i)) = Head(outbox[b])
      BY <1>1, <2>3 DEF HeadPosted
    <3> QED
      BY <1>2, <2>1, <2>3, <3>1
  <2> QED
    BY <1>4, <2>2, <2>3
<1>10. CASE Posted(b) \/ Refused(b) \/ PostLost(b) \/ Reload(b)
  <2>1. post'[b].pc \in {"idle", "sent", "failed"}
    BY <1>1, <1>10 DEF Posted, Refused, PostLost, Reload, NextPost, Post, BoxTypeOK
  <2> QED
    BY <1>4, <2>1
<1>11. CASE ServerCrash
  <2>1. outbox' = outbox /\ (post'[b] = post[b] \/ post'[b].pc = "failed")
    BY <1>11 DEF ServerCrash, Post
  <2> QED
    BY <1>3, <1>4, <2>1
<1>12. ASSUME NEW c \in Browser, b # c,
              \/ ServePost(c) \/ ReceiveResult(c) \/ Put(c) \/ Posted(c) \/ Refused(c)
              \/ PostLost(c) \/ Reload(c)
       PROVE  UNCHANGED <<post[b], outbox[b]>>
  BY <1>1, <1>12 DEF ServePost, ReceiveResult, Put, Posted, Refused, PostLost, Reload, BoxTypeOK
<1>13. ASSUME NEW c \in Browser,
              \/ ServePost(c) \/ ReceiveResult(c) \/ Put(c) \/ Posted(c) \/ Refused(c)
              \/ PostLost(c) \/ Reload(c)
       PROVE  HeadWritten(b)'
  <2>1. CASE b # c
    BY <1>3, <1>12, <1>13, <2>1
  <2>2. CASE b = c
    BY <1>7, <1>8, <1>9, <1>10, <1>13, <2>2
  <2> QED
    BY <2>1, <2>2
<1>14. ASSUME NEW c \in Browser,
              \/ ReadSeq(c) \/ ReadRows(c) \/ SendResult(c) \/ Connect(c) \/ ReceiveBatch(c)
              \/ Drop(c)
       PROVE  UNCHANGED <<post, outbox>>
  BY <1>14 DEF ReadSeq, ReadRows, SendResult, Connect, ReceiveBatch, Drop, boxVars
<1>15. UNCHANGED <<linkVars, pageVars, boxVars, faults>> => UNCHANGED <<post, outbox>>
  BY DEF boxVars
<1>16. UNCHANGED vars => UNCHANGED <<post, outbox>>
  BY DEF vars, boxVars
<1> QED
  BY <1>5, <1>6, <1>11, <1>13, <1>14, <1>15, <1>16 DEF Next, ServerStep, BrowserStep

LEMMA InitGone == ASSUME Init PROVE GoneInv
<1>1. /\ \A i \in Id : row[i].state = "absent"
      /\ \A b \in Browser : /\ chan[b] = <<>> /\ queue[b] = {} /\ sync[b].pc = "none"
                            /\ \A i \in Id : records[b][i] = Gone
                            /\ post[b].pc = "idle"
      /\ unsent = <<>>
  BY DEF Init, RowsInit, NoSync, Post
<1>2. Listed(<<>>) = {}
  BY DEF Listed
<1> QED
  BY <1>1, <1>2 DEF GoneInv, GoneAt, Messages, Hidden, HeadWritten

LEMMA GoneStep == ASSUME TypeInv, GoneInv, [Next]_vars PROVE GoneInv'
<1>1. \A i \in Id : row'[i].rev = 0 => row'[i].state = "absent"
  BY RowsKnownStep DEF RowsKnown, GoneInv
<1>2. ASSUME NEW b \in Browser PROVE GoneAt(b)'
  <2>1. /\ \A m \in Messages(b)' : Silent(row', m.changes)
        /\ sync'[b].pc = "rowsRead" => Silent(row', sync'[b].changes)
    BY MessagesStep
  <2>2. Hidden(row', records'[b], outbox'[b]) /\ HeadWritten(b)'
    BY HiddenStep, HeadStep
  <2> QED
    BY <2>1, <2>2 DEF GoneAt
<1> QED
  BY <1>1, <1>2 DEF GoneInv

LEMMA BannerView ==
    ASSUME TypeInv, DeltaInv, GoneInv, NEW b \in Browser, ready[b], chan[b] = <<>>, unsent = <<>>,
           NEW i \in Settled(b)
    PROVE  records[b][i] = Shown(i)
<1>1. /\ i \in Id /\ i \notin Listed(outbox[b]) /\ queue[b] = {}
      /\ row[i].rev \in Nat /\ lastSeq[b] \in Nat
  BY ViewTyped DEF Settled, ViewType
<1>2. UnderWay(b) = {}
  BY <1>1 DEF UnderWay, Under, Coming, Listed
<1>3. row[i].rev <= lastSeq[b]
  BY <1>1, <1>2 DEF DeltaInv, DeltaAt, Covers
<1>4. CASE row[i].rev = 0
  <2>1. records[b][i] = Gone /\ row[i].state = "absent"
    BY <1>1, <1>4 DEF GoneInv, GoneAt, Hidden
  <2> QED
    BY <2>1 DEF Shown
<1>5. CASE row[i].rev > 0
  BY <1>1, <1>3, <1>5 DEF DeltaInv, DeltaAt, ShownUpTo, Shown, ShownOf
<1> QED
  BY <1>1, <1>4, <1>5

\* Replies to COMMIT in order, a page that shows no reconnect banner and has nothing on its way
\* shows the rows as they are, but for those it is about to post itself: there is no silent gap
\* (sync-client.ts:64-96, sync-outbox.ts:16-43).
THEOREM NoSilentGap == InOrder => (Spec => []BannerIsTheOnlySignal)
<1> SUFFICES ASSUME InOrder PROVE Spec => []BannerIsTheOnlySignal
  OBVIOUS
<1>1. TypeInv /\ DeltaInv /\ GoneInv => BannerIsTheOnlySignal
  BY BannerView DEF BannerIsTheOnlySignal
<1>2. Init => TypeInv /\ DeltaInv /\ GoneInv
  BY InitType, InitDelta, InitGone
<1>3. TypeInv /\ DeltaInv /\ GoneInv /\ [Next]_vars => TypeInv' /\ DeltaInv' /\ GoneInv'
  BY TypeStep, DeltaStep, GoneStep
<1> QED
  BY <1>1, <1>2, <1>3, PTL DEF Spec
=============================================================================
