------------------------------ MODULE Workspace -------------------------------
(***************************************************************************)
(* The rows of a workspace and the batches that tell browsers of a change: *)
(* backend/src/db/mutate.ts, pg.ts, entities.ts, entities/entity-service.ts*)
(* and the other callers of mutate().                                      *)
(*                                                                         *)
(* mutate() increments workspace.seq first, which locks the workspace row  *)
(* until COMMIT: transactions commit one by one, in the order of their     *)
(* seq, so a transaction is a single step.  The process learns of a commit *)
(* by the reply to COMMIT, and broadcasts then: a batch waits in `unsent`. *)
(* The content of a row is named by the seq that wrote it.                 *)
(***************************************************************************)
EXTENDS Naturals, Sequences

CONSTANTS
    Id,         \* ids of rows
    Same,       \* stands for a row that a message does not mention
    InOrder,    \* whether replies to COMMIT arrive in the order of the commits
    MaxEdits    \* requests and device reports (a bound of the model)

ASSUME WorkspaceAssumption == Same \notin Nat /\ InOrder \in BOOLEAN /\ MaxEdits \in Nat

VARIABLES
    seq,        \* workspace.seq
    row,        \* the rows, deleted ones included, with updated_rev
    selected,   \* rows a handler has selected and is about to update
    unsent,     \* batches of commits whose broadcast has not happened yet
    edits

rowVars == <<seq, row, selected, unsent, edits>>

Gone == 0
Version == Nat
RowState == {"absent", "live", "deleted"}
Batch(s, id, version) == [kind |-> "batch", seq |-> s,
    changes |-> [i \in Id |-> IF i = id THEN version ELSE Same]]
Change == [Id -> Version \cup {Same}]
Message(kinds) == [kind : kinds, seq : Nat, changes : Change]

RowsTypeOK ==
    /\ seq \in Nat
    /\ row \in [Id -> [state : RowState, rev : Nat]]
    /\ selected \subseteq Id
    /\ unsent \in Seq(Message({"batch"}))
    /\ edits \in 0..MaxEdits

\* What a browser that is up to date shows of a row.
Shown(i) == IF row[i].state = "live" THEN row[i].rev ELSE Gone

RowsInit ==
    /\ seq = 0
    /\ row = [i \in Id |-> [state |-> "absent", rev |-> 0]]
    /\ selected = {} /\ unsent = <<>> /\ edits = 0

\* A transaction that writes one row; deleted rows are announced as deletes.
Mutate(i, state) ==
    /\ seq' = seq + 1
    /\ row' = [row EXCEPT ![i] = [state |-> state, rev |-> seq + 1]]
    /\ unsent' = Append(unsent, Batch(seq + 1, i, IF state = "live" THEN seq + 1 ELSE Gone))

\* A transaction that writes none still commits, without a batch.
MutateNothing ==
    /\ seq' = seq + 1
    /\ UNCHANGED <<row, unsent>>

-----------------------------------------------------------------------------
(* What callers of mutate() do *)

Edit == edits < MaxEdits /\ edits' = edits + 1

\* The server adds a row of its own, the record of a scan or a trigger.
RecordAction(i) ==
    /\ Edit
    /\ row[i].state = "absent"
    /\ Mutate(i, "live")
    /\ UNCHANGED selected

DeleteEntity(i) ==
    /\ Edit
    /\ row[i].state = "live"
    /\ Mutate(i, "deleted")
    /\ UNCHANGED selected

\* A heartbeat or a trigger finds the device row ...
SelectRow(i) ==
    /\ Edit
    /\ row[i].state = "live"
    /\ selected' = selected \cup {i}
    /\ UNCHANGED <<seq, row, unsent>>

\* ... and updates it later, whether or not it has been deleted meanwhile.
UpdateRow(i) ==
    /\ i \in selected
    /\ Mutate(i, row[i].state)
    /\ selected' = selected \ {i}
    /\ UNCHANGED edits

\* INSERT ... ON CONFLICT DO UPDATE WHERE deleted = false: a row that exists is
\* overwritten, one that was deleted is left alone.
CreateEntity(i) ==
    /\ row[i].state # "deleted"
    /\ Mutate(i, "live")
    /\ UNCHANGED <<selected, edits>>

CreateRefused(i) ==
    /\ row[i].state = "deleted"
    /\ MutateNothing
    /\ UNCHANGED <<selected, edits>>

\* Requests and reports; `fresh` are the ids nobody has used (they are random).
RequestStep(fresh) ==
    \/ \E i \in fresh : RecordAction(i)
    \/ \E i \in Id : DeleteEntity(i) \/ SelectRow(i) \/ UpdateRow(i)
=============================================================================
