------------------------------- MODULE Backend -------------------------------
(***************************************************************************)
(* Three parts of the backend side by side: sign-in, activity and hooks,   *)
(* and broker accounts.  They share no state that either changes under the *)
(* other: a behaviour belongs to one of them, and the others rest.         *)
(***************************************************************************)
EXTENDS SignIn

CONSTANTS
    Events, Hooks, Hosts,   \* of Activity
    Gens, Nobody            \* of Credentials

VARIABLES
    part,                                                      \* which of them runs
    mode, kind, stage, isOn, sent, hook, host, todo, removed, posts,
    exists, account, pc, wire, answer, accepted, last, calm

activityVars == <<mode, kind, stage, isOn, sent, hook, host, todo, removed, posts>>
adminVars == <<exists, account, pc, wire, answer, accepted, last, calm>>

Log == INSTANCE Activity

Admin == INSTANCE Credentials WITH made <- accepted

ASSUME AdminConstants == Admin!CredentialsAssumption

-----------------------------------------------------------------------------

\* At rest: one initial state.
LogRests ==
    /\ Log!Init /\ mode = "door"
    /\ host = [h \in Hooks |-> CHOOSE x \in Hosts \cap Log!FormHosts : TRUE]

PartInit ==
    /\ Init /\ Admin!Init
    /\ part \in {"sign-in", "activity", "credentials"}
    /\ IF part = "activity" THEN Log!Init ELSE LogRests

SignInRuns(A) == part = "sign-in" /\ A /\ UNCHANGED <<part, activityVars, adminVars>>
LogRuns(A) == part = "activity" /\ A /\ UNCHANGED <<part, vars, adminVars>>
AdminRuns(A) == part = "credentials" /\ A /\ UNCHANGED <<part, vars, activityVars>>

PartNext == SignInRuns(Next) \/ LogRuns(Log!Next) \/ AdminRuns(Admin!Next)

partVars == <<part, vars, activityVars, adminVars>>

\* The fairness of SignIn and of Activity
PartFairness ==
    /\ \A t \in Tabs :
          /\ WF_vars(SignInRuns(AsksMe(t) \/ MeAnswered(t)))
          /\ WF_vars(SignInRuns(BackendStep(t) \/ SignedIn(t) \/ SignInFails(t)))
    /\ \A e \in Events :
          WF_activityVars(LogRuns(Log!ReadsHooks(e))) /\ WF_activityVars(LogRuns(Log!Posts(e)))

PartSpec == PartInit /\ [][PartNext]_partVars /\ PartFairness

-----------------------------------------------------------------------------
(* The properties of the parts *)

\* The states of all three parts are well-formed.
AllTypesOK == TypeOK /\ Log!TypeOK /\ Admin!TypeOK

\* No hook is told of a command the broker did not take, of an opening after its removal, or of one
\* opening twice (device-service.ts:73-84, discord-hook.ts:29-53).
HooksHearRight == Log!HooksHearRight

\* A password is handed out only if the broker took it, the one shown last opens the broker, and a
\* deletion that was answered leaves no account behind (mqtt-admin.ts:66-137).
AccountAsTold == Admin!AccountAsTold

\* A password that has stopped working never works again, of two requests at once and of late
\* batches too (mqtt-admin.ts:105-137).
StaysRevoked == Admin!StaysRevoked
=============================================================================
