----------------------------- MODULE Credentials -----------------------------
(***************************************************************************)
(* The broker account of one device: backend/src/devices/mqtt-admin.ts,    *)
(* called by generateMqttCredentials (device-service.ts) and, when the     *)
(* device is deleted, by key-sync-reactions.ts.                            *)
(*                                                                         *)
(* sendDynSecCommands opens an admin session of its own, sends one batch   *)
(* of commands, and waits ten seconds for the answers.  The broker runs a  *)
(* batch in one go.  A password is named by the request it is made for.    *)
(***************************************************************************)
CONSTANTS
    Gens,     \* requests for new credentials
    Nobody    \* "no account", and the deletion's session

CredentialsAssumption == Nobody \notin Gens

VARIABLES
    exists,   \* the device's row is not deleted
    account,  \* whose password the broker accepts
    pc,       \* a request: not made, dropping the old account, creating the new one, over
    wire,     \* batches sent and not yet run: <<session's owner, command>>
    answer,   \* what the session of an owner has heard: nothing yet, or its outcome
    made,     \* history: passwords the broker has accepted at some time
    last,     \* history: the password handed out last, nothing having begun since
    calm      \* history: the request, or the deletion, that began last began when nothing else was
              \* under way, and has not given up on a batch of its own that still was

vars == <<exists, account, pc, wire, answer, made, last, calm>>

Owners == Gens \cup {Nobody}
Batches == Owners \X {"delete", "create"}

TypeOK ==
    /\ exists \in BOOLEAN
    /\ account \in Owners
    /\ pc \in [Gens -> {"new", "dropping", "creating", "done", "failed"}]
    /\ wire \subseteq Batches
    /\ answer \in [Owners -> {"none", "ok", "error"}]
    /\ made \subseteq Gens /\ last \in Owners /\ calm \in BOOLEAN

Init ==
    /\ exists = TRUE /\ account = Nobody
    /\ pc = [g \in Gens |-> "new"] /\ wire = {}
    /\ answer = [o \in Owners |-> "none"]
    /\ made = {} /\ last = Nobody /\ calm = TRUE

-----------------------------------------------------------------------------
(* One admin session *)

\* The broker cannot be reached, or the batch leaves.
Sends(o, command) ==
    \/ answer' = [answer EXCEPT ![o] = "error"] /\ wire' = wire
    \/ answer' = [answer EXCEPT ![o] = "none"] /\ wire' = wire \cup {<<o, command>>}

\* createClient fails on an account that exists, deleteClient on one that does not.
Succeeds(b) == (b[2] = "create") = (account = Nobody)

Runs(b) == IF b[2] = "delete" THEN Nobody ELSE IF account = Nobody THEN b[1] ELSE account

\* Seeded fault: answers are not matched by correlationData.
AnyAnswer(b) == TRUE

\* The session that sent the batch is still open: a session hears the answers to its own.
Awaited(b) == IF b[1] = Nobody THEN TRUE
              ELSE pc[b[1]] = (IF b[2] = "delete" THEN "dropping" ELSE "creating")

\* The answer may be lost.
BrokerRuns == \E b \in wire :
    /\ account' = Runs(b)
    /\ wire' = wire \ {b}
    /\ \/ answer' = answer
       \/ Awaited(b) /\ answer' = [answer EXCEPT ![b[1]] = IF Succeeds(b) THEN "ok" ELSE "error"]
    /\ made' = made \cup ({account'} \ {Nobody})
    /\ UNCHANGED <<exists, pc, last, calm>>

BatchLost == \E b \in wire :
    /\ wire' = wire \ {b}
    /\ UNCHANGED <<exists, account, pc, answer, made, last, calm>>

-----------------------------------------------------------------------------
(* Requests *)

NoneAtWork == wire = {} /\ \A g \in Gens : pc[g] \notin {"dropping", "creating"}

Begins == calm' = NoneAtWork

\* A session ends with the broker's answer, or by its timer, after which its batch may still
\* arrive.
EndsOf(o) == calm' = (calm /\ \A b \in wire : b[1] # o)

\* POST /api/devices/:id/token, of a device that is found
Generate(g) ==
    /\ pc[g] = "new" /\ exists
    /\ Begins
    /\ pc' = [pc EXCEPT ![g] = "dropping"]
    /\ Sends(g, "delete")
    /\ last' = Nobody
    /\ UNCHANGED <<exists, account, made>>

\* Whatever the outcome, a missing account being one.
Dropped(g) ==
    /\ pc[g] = "dropping" /\ EndsOf(g)
    /\ pc' = [pc EXCEPT ![g] = "creating"]
    /\ Sends(g, "create")
    /\ UNCHANGED <<exists, account, made, last>>

Created(g) ==
    /\ pc[g] = "creating" /\ answer[g] = "ok"
    /\ pc' = [pc EXCEPT ![g] = "done"]
    /\ last' = g
    /\ UNCHANGED <<exists, account, wire, answer, made, calm>>

\* Seeded fault: the account is created again when no answer came.
CreatesAgain(g) ==
    /\ pc[g] = "creating" /\ answer[g] # "ok" /\ EndsOf(g)
    /\ Sends(g, "create")
    /\ UNCHANGED <<exists, account, pc, made, last>>

NotCreated(g) ==
    /\ pc[g] = "creating" /\ answer[g] # "ok" /\ EndsOf(g)
    /\ pc' = [pc EXCEPT ![g] = "failed"]
    /\ UNCHANGED <<exists, account, wire, answer, made, last>>

\* The reaction to the deletion; its outcome is ignored.
DeleteDevice ==
    /\ exists /\ exists' = FALSE
    /\ Begins
    /\ Sends(Nobody, "delete")
    /\ last' = Nobody
    /\ UNCHANGED <<account, pc, made>>

Next ==
    \/ BrokerRuns \/ BatchLost \/ DeleteDevice
    \/ \E g \in Gens : Generate(g) \/ Dropped(g) \/ Created(g) \/ NotCreated(g)

Spec == Init /\ [][Next]_vars

-----------------------------------------------------------------------------
(* Properties *)

\* The credentials handed out last are the ones the device can use, until the next request, or
\* the deletion of the device, begins; whatever became of requests before, so long as this one
\* met none of them and nothing of theirs that was late (mqtt-admin.ts:100-112).
HandedOutWorks == calm /\ last # Nobody => account = last

\* A request never hands out a password the broker refused, whoever else is at it
\* (mqtt-admin.ts:66-90).
DoneMeansMade == \A g \in Gens : pc[g] = "done" => g \in made

\* When the broker has dropped the account of a deleted device, nobody can use it any more, if no
\* request was under way at the deletion (key-sync-reactions.ts:21-23).
DeletedIsClean == calm /\ ~exists /\ answer[Nobody] = "ok" => account = Nobody

\* The broker's account is what an administrator was told it is (mqtt-admin.ts:66-137).
AccountAsTold == HandedOutWorks /\ DoneMeansMade /\ DeletedIsClean

\* A password that has stopped working never works again, whatever requests overlap and whatever
\* batches are late (mqtt-admin.ts:105-137).
StaysRevoked == [][\A g \in made : account # g => account' # g]_vars
=============================================================================
