---------------------------- MODULE BackendProofs -----------------------------
(***************************************************************************)
(* Proofs about the parts of Backend other than SignIn, for all sets of    *)
(* events, hooks and hosts, and any number of requests for credentials;    *)
(* and that side by side each of them behaves as alone.                    *)
(***************************************************************************)
EXTENDS Backend, SignInProofs

-----------------------------------------------------------------------------
(* Activity and hooks *)

\* Nothing is posted before the hooks are read.
NotYetTold ==
    \A e \in Events, h \in Hooks :
       stage[e] \in {"none", "switching", "publishing", "recording", "recorded"}
          => posts[<<e, h>>] = 0

\* A hook that is still to be told has heard nothing, and was there when the event was recorded.
Owed == \A e \in Events : \A h \in todo[e] : posts[<<e, h>>] = 0 /\ h \notin removed[e]

\* A command gets past its publishing only when the broker took it.
SentBeforeRecorded ==
    \A e \in Events :
       stage[e] \in {"recording", "recorded", "posting"} /\ kind[e] \in Log!Commands => e \in sent

\* A removed hook does not come back.
StaysRemoved == \A e \in Events : \A h \in removed[e] : hook[h] = "removed"

LogInv ==
    Log!TypeOK /\ NotYetTold /\ Owed /\ SentBeforeRecorded /\ StaysRemoved /\ Log!HooksHearRight

-----------------------------------------------------------------------------
(* Typing *)

LEMMA LogTypeInit == ASSUME Log!Init PROVE Log!TypeOK
BY DEF Log!Init, Log!TypeOK, Log!FormHosts, Log!Commands, Log!Scans

LEMMA LogTypeStep == ASSUME Log!TypeOK, [Log!Next]_Log!vars PROVE Log!TypeOK'
<1> USE DEF Log!TypeOK
<1>1. ASSUME NEW e \in Events, Log!EventStep(e) PROVE Log!TypeOK'
  <2>1. CASE Log!Switches(e)
    BY <2>1 DEF Log!Switches, Log!hookVars
  <2>2. CASE Log!Publishes(e) \/ Log!Fails(e) \/ Log!RecordFails(e)
    BY <2>2
    DEF Log!Publishes, Log!Fails, Log!RecordFails, Log!Unsent, Log!commandVars, Log!hookVars
  <2>3. CASE Log!Records(e)
    BY <2>3 DEF Log!Records, Log!commandVars, Log!hookVars
  <2>4. CASE Log!ReadsHooks(e)
    BY <2>4 DEF Log!ReadsHooks, Log!HooksToTell, Log!hookVars, Log!commandVars
  <2>5. CASE Log!Posts(e)
    <3>1. PICK h \in todo[e], ok \in BOOLEAN :
            /\ stage[e] = "posting"
            /\ posts' = [posts EXCEPT ![<<e, h>>] = @ + 1]
            /\ todo' = [todo EXCEPT ![e] = todo[e] \ {h}]
            /\ UNCHANGED <<Log!commandVars, kind, stage, Log!hookVars, removed>>
      BY <2>5 DEF Log!Posts, Log!Rest
    <3>2. posts' \in [Events \X Hooks -> Nat]
      BY <3>1
    <3> QED
      BY <3>1, <3>2 DEF Log!commandVars, Log!hookVars
  <2>6. CASE Log!Finishes(e) \/ Log!PostThrows(e)
    BY <2>6 DEF Log!Finishes, Log!PostThrows, Log!commandVars, Log!hookVars
  <2> QED
    BY <1>1, <2>1, <2>2, <2>3, <2>4, <2>5, <2>6 DEF Log!EventStep
<1>2. ASSUME NEW e \in Events, NEW k \in Log!Offered, Log!Presses(e, k) PROVE Log!TypeOK'
  BY <1>2
  DEF Log!Presses, Log!Offered, Log!FirstStage, Log!Commands, Log!commandVars, Log!hookVars
<1>3. ASSUME NEW e \in Events, NEW k \in Log!Scans, Log!ScanArrives(e, k) PROVE Log!TypeOK'
  BY <1>3 DEF Log!ScanArrives, Log!Scans, Log!commandVars, Log!hookVars
<1>4. CASE Log!Restart
  BY <1>4 DEF Log!Restart, Log!Dropped, Log!commandVars, Log!hookVars
<1>5. ASSUME NEW h \in Hooks, Log!AddsHook(h) \/ Log!RemovesHook(h) PROVE Log!TypeOK'
  BY <1>5 DEF Log!AddsHook, Log!RemovesHook, Log!commandVars
<1>6. CASE UNCHANGED Log!vars
  BY <1>6 DEF Log!vars, Log!commandVars, Log!hookVars
<1> QED
  BY <1>1, <1>2, <1>3, <1>4, <1>5, <1>6 DEF Log!Next

-----------------------------------------------------------------------------
(* The invariant is kept *)

LEMMA LogInvInit == ASSUME Log!Init PROVE LogInv
<1>1. Log!TypeOK
  BY LogTypeInit
<1> QED
  BY <1>1
  DEF Log!Init, LogInv, NotYetTold, Owed, SentBeforeRecorded, StaysRemoved,
      Log!HooksHearRight, Log!ToldWasSent, Log!RemovedHookSilent, Log!ToldOnce

\* Steps that post nothing and give nobody anything to do: what is left to show of them is what
\* they do to the stages, the commands and the hooks.
LEMMA QuietStep ==
    ASSUME LogInv, Log!TypeOK', posts' = posts,
           \A e \in Events : todo'[e] \subseteq todo[e],
           \A e \in Events :
              removed'[e] = removed[e] \/ (todo'[e] = {} /\ stage[e] = "recording"),
           sent \subseteq sent',
           NotYetTold', SentBeforeRecorded', StaysRemoved',
           \A e \in Events : kind'[e] = kind[e] \/ stage[e] = "none"
    PROVE  LogInv'
<1>1. Owed'
  <2> SUFFICES ASSUME NEW e \in Events, NEW h \in todo'[e]
               PROVE  posts[<<e, h>>] = 0 /\ h \notin removed'[e]
    BY DEF Owed
  <2> QED
    BY DEF LogInv, Owed
<1>2. Log!ToldWasSent'
  <2> SUFFICES ASSUME NEW e \in Events, NEW h \in Hooks,
                      posts[<<e, h>>] > 0, kind'[e] \in Log!Commands
               PROVE  e \in sent'
    BY DEF Log!ToldWasSent
  <2>1. stage[e] # "none"
    BY DEF LogInv, NotYetTold
  <2> QED
    BY <2>1 DEF LogInv, Log!HooksHearRight, Log!ToldWasSent
<1>3. Log!RemovedHookSilent'
  <2> SUFFICES ASSUME NEW e \in Events, NEW h \in Hooks, posts[<<e, h>>] > 0
               PROVE  h \notin removed'[e]
    BY DEF Log!RemovedHookSilent
  <2>1. stage[e] # "recording"
    BY DEF LogInv, NotYetTold
  <2> QED
    BY <2>1 DEF LogInv, Log!HooksHearRight, Log!RemovedHookSilent
<1>4. Log!ToldOnce'
  BY DEF LogInv, Log!HooksHearRight, Log!ToldOnce
<1> QED
  BY <1>1, <1>2, <1>3, <1>4 DEF LogInv, Log!HooksHearRight

\* An event that is handled or given up, before any hook is told or after the last one.
LEMMA EventKept ==
    ASSUME LogInv, Log!TypeOK', NEW e \in Events,
           \/ Log!Switches(e) \/ Log!Publishes(e) \/ Log!Records(e) \/ Log!Finishes(e)
           \/ Log!Fails(e) \/ Log!RecordFails(e) \/ Log!PostThrows(e)
    PROVE  LogInv'
<1> USE DEF Log!commandVars, Log!hookVars
<1>1. Log!TypeOK
  BY DEF LogInv
<1>2. CASE Log!Switches(e) \/ Log!Publishes(e)
  <2>1. /\ UNCHANGED <<kind, hook, todo, removed, posts>>
        /\ sent \subseteq sent'
        /\ \/ stage[e] = "switching" /\ stage' = [stage EXCEPT ![e] = "publishing"]
           \/ stage[e] = "publishing" /\ stage' = [stage EXCEPT ![e] = "recording"] /\ e \in sent'
    BY <1>2 DEF Log!Switches, Log!Publishes
  <2>2. NotYetTold' /\ SentBeforeRecorded' /\ StaysRemoved'
    BY <1>1, <2>1 DEF LogInv, Log!TypeOK, NotYetTold, SentBeforeRecorded, StaysRemoved
  <2> QED
    BY <2>1, <2>2, QuietStep
<1>3. CASE Log!Fails(e) \/ Log!RecordFails(e) \/ Log!Finishes(e) \/ Log!PostThrows(e)
  <2>1. /\ UNCHANGED <<kind, sent, hook, removed, posts>>
        /\ \A d \in Events : todo'[d] \subseteq todo[d]
        /\ \A d \in Events : stage'[d] = stage[d] \/ stage'[d] \in {"failed", "done"}
    BY <1>1, <1>3
    DEF Log!Fails, Log!RecordFails, Log!Finishes, Log!PostThrows, Log!Unsent, Log!TypeOK
  <2>2. NotYetTold' /\ SentBeforeRecorded' /\ StaysRemoved'
    BY <2>1 DEF LogInv, NotYetTold, SentBeforeRecorded, StaysRemoved
  <2> QED
    BY <2>1, <2>2, QuietStep
<1>4. CASE Log!Records(e)
  <2>1. /\ stage[e] = "recording" /\ UNCHANGED <<kind, sent, hook, todo, posts>>
        /\ stage' = [stage EXCEPT ![e] = IF Log!IsOpening(kind[e]) THEN "recorded" ELSE "done"]
        /\ removed' = [removed EXCEPT ![e] = {h \in Hooks : hook[h] = "removed"}]
    BY <1>4 DEF Log!Records
  <2>2. todo[e] = {}
    BY <1>1, <2>1 DEF Log!TypeOK
  <2>3. NotYetTold'
    BY <1>1, <2>1 DEF LogInv, Log!TypeOK, NotYetTold
  <2>4. SentBeforeRecorded'
    BY <1>1, <2>1 DEF LogInv, Log!TypeOK, SentBeforeRecorded
  <2>5. StaysRemoved'
    BY <1>1, <2>1 DEF LogInv, Log!TypeOK, StaysRemoved
  <2>6. \A d \in Events : removed'[d] = removed[d] \/ (todo'[d] = {} /\ stage[d] = "recording")
    BY <1>1, <2>1, <2>2 DEF Log!TypeOK
  <2> QED
    BY <2>1, <2>3, <2>4, <2>5, <2>6, QuietStep
<1> QED
  BY <1>2, <1>3, <1>4

\* An event begins, all of them end, or the form of the hooks is used.
LEMMA OtherKept ==
    ASSUME LogInv, Log!TypeOK',
           \/ \E e \in Events, k \in Log!Offered \cup Log!Scans :
                 Log!Presses(e, k) \/ Log!ScanArrives(e, k)
           \/ Log!Restart
           \/ \E h \in Hooks : Log!AddsHook(h) \/ Log!RemovesHook(h)
           \/ UNCHANGED Log!vars
    PROVE  LogInv'
<1> USE DEF Log!commandVars, Log!hookVars
<1>1. Log!TypeOK
  BY DEF LogInv
<1>2. ASSUME NEW e \in Events, NEW k, Log!Presses(e, k) \/ Log!ScanArrives(e, k) PROVE LogInv'
  <2>1. /\ stage[e] = "none" /\ UNCHANGED <<sent, hook, todo, removed, posts>>
        /\ kind' = [kind EXCEPT ![e] = k]
        /\ \/ stage' = [stage EXCEPT ![e] = Log!FirstStage(k)]
           \/ stage' = [stage EXCEPT ![e] = "recording"] /\ k \in Log!Scans
    BY <1>2 DEF Log!Presses, Log!ScanArrives
  <2>2. NotYetTold' /\ StaysRemoved'
    BY <1>1, <2>1 DEF LogInv, Log!TypeOK, NotYetTold, StaysRemoved
  <2>3. SentBeforeRecorded'
    BY <1>1, <2>1
    DEF LogInv, Log!TypeOK, SentBeforeRecorded, Log!FirstStage, Log!Scans, Log!Commands
  <2>4. \A d \in Events : kind'[d] = kind[d] \/ stage[d] = "none"
    BY <1>1, <2>1 DEF Log!TypeOK
  <2> QED
    BY <2>1, <2>2, <2>3, <2>4, QuietStep
<1>3. CASE Log!Restart
  <2>1. /\ UNCHANGED <<kind, sent, hook, removed, posts>>
        /\ \A d \in Events : todo'[d] = {}
        /\ \A d \in Events : stage'[d] = stage[d] \/ stage'[d] = "failed"
    BY <1>3 DEF Log!Restart, Log!Dropped
  <2>2. NotYetTold' /\ SentBeforeRecorded' /\ StaysRemoved'
    BY <2>1 DEF LogInv, NotYetTold, SentBeforeRecorded, StaysRemoved
  <2> QED
    BY <2>1, <2>2, QuietStep
<1>4. ASSUME NEW h \in Hooks, Log!AddsHook(h) \/ Log!RemovesHook(h) PROVE LogInv'
  <2>1. /\ UNCHANGED <<kind, sent, stage, todo, removed, posts>>
        /\ \A g \in Hooks : hook[g] = "removed" => hook'[g] = "removed"
    BY <1>1, <1>4 DEF Log!AddsHook, Log!RemovesHook, Log!TypeOK
  <2>2. StaysRemoved'
    BY <1>1, <2>1 DEF LogInv, Log!TypeOK, StaysRemoved
  <2>3. NotYetTold' /\ SentBeforeRecorded'
    BY <2>1 DEF LogInv, NotYetTold, SentBeforeRecorded
  <2> QED
    BY <2>1, <2>2, <2>3, QuietStep
<1>5. CASE UNCHANGED Log!vars
  <2>1. UNCHANGED <<kind, sent, hook, stage, todo, removed, posts>>
    BY <1>5 DEF Log!vars
  <2>2. NotYetTold' /\ SentBeforeRecorded' /\ StaysRemoved'
    BY <2>1 DEF LogInv, NotYetTold, SentBeforeRecorded, StaysRemoved
  <2> QED
    BY <2>1, <2>2, QuietStep
<1> QED
  BY <1>2, <1>3, <1>4, <1>5

LEMMA ReadKept == ASSUME LogInv, Log!TypeOK', NEW e \in Events, Log!ReadsHooks(e) PROVE LogInv'
<1>1. /\ stage[e] = "recorded" /\ UNCHANGED <<kind, sent, hook, removed, posts>>
      /\ todo' = [todo EXCEPT ![e] = Log!HooksToTell]
      /\ stage' = [stage EXCEPT ![e] = "posting"]
  BY DEF Log!ReadsHooks, Log!commandVars, Log!hookVars
<1>2. \A h \in Log!HooksToTell : h \in Hooks /\ posts[<<e, h>>] = 0 /\ h \notin removed[e]
  BY <1>1 DEF Log!HooksToTell, LogInv, NotYetTold, StaysRemoved
<1>3. Owed'
  BY <1>1, <1>2 DEF LogInv, Log!TypeOK, Owed
<1>4. NotYetTold' /\ SentBeforeRecorded' /\ StaysRemoved'
  BY <1>1 DEF LogInv, Log!TypeOK, NotYetTold, SentBeforeRecorded, StaysRemoved
<1>5. Log!HooksHearRight'
  BY <1>1 DEF LogInv, Log!HooksHearRight, Log!ToldWasSent, Log!RemovedHookSilent, Log!ToldOnce
<1> QED
  BY <1>3, <1>4, <1>5 DEF LogInv

LEMMA PostKept == ASSUME LogInv, Log!TypeOK', NEW e \in Events, Log!Posts(e) PROVE LogInv'
<1>1. PICK h \in todo[e] :
        /\ stage[e] = "posting"
        /\ posts' = [posts EXCEPT ![<<e, h>>] = @ + 1]
        /\ todo' = [todo EXCEPT ![e] = todo[e] \ {h}]
        /\ UNCHANGED <<kind, stage, sent, hook, removed>>
  BY DEF Log!Posts, Log!Rest, Log!commandVars, Log!hookVars
<1>2. h \in Hooks /\ posts[<<e, h>>] = 0 /\ h \notin removed[e]
  BY <1>1 DEF LogInv, Log!TypeOK, Owed
<1>3. /\ posts'[<<e, h>>] = 1
      /\ \A d \in Events, g \in Hooks : d # e \/ g # h => posts'[<<d, g>>] = posts[<<d, g>>]
  BY <1>1, <1>2 DEF LogInv, Log!TypeOK
<1>4. \A d \in Events : \A g \in todo'[d] : g \in todo[d] /\ (d # e \/ g # h)
  BY <1>1 DEF LogInv, Log!TypeOK
<1>5. Owed'
  <2> SUFFICES ASSUME NEW d \in Events, NEW g \in todo'[d]
               PROVE  posts'[<<d, g>>] = 0 /\ g \notin removed[d]
    BY <1>1 DEF Owed
  <2>1. g \in todo[d] /\ g \in Hooks /\ (d # e \/ g # h)
    BY <1>4 DEF LogInv, Log!TypeOK
  <2> QED
    BY <1>3, <2>1 DEF LogInv, Owed
<1>6. NotYetTold' /\ SentBeforeRecorded' /\ StaysRemoved'
  BY <1>1, <1>3 DEF LogInv, NotYetTold, SentBeforeRecorded, StaysRemoved
<1>7. kind[e] \in Log!Commands => e \in sent
  BY <1>1 DEF LogInv, SentBeforeRecorded
<1>8. Log!ToldWasSent' /\ Log!RemovedHookSilent' /\ Log!ToldOnce'
  <2> SUFFICES ASSUME NEW d \in Events, NEW g \in Hooks, posts'[<<d, g>>] > 0
               PROVE  /\ kind[d] \in Log!Commands => d \in sent
                      /\ g \notin removed[d]
                      /\ posts'[<<d, g>>] <= 1
    <3>1. posts'[<<e, h>>] = 1 /\ \A d \in Events, g \in Hooks : posts'[<<d, g>>] \in Nat
      BY <1>3 DEF Log!TypeOK
    <3> QED
      BY <1>1, <3>1 DEF Log!ToldWasSent, Log!RemovedHookSilent, Log!ToldOnce
  <2>1. CASE d = e /\ g = h
    BY <1>2, <1>3, <1>7, <2>1
  <2>2. CASE d # e \/ g # h
    BY <1>3, <2>2
    DEF LogInv, Log!HooksHearRight, Log!ToldWasSent, Log!RemovedHookSilent, Log!ToldOnce
  <2> QED
    BY <2>1, <2>2
<1> QED
  BY <1>5, <1>6, <1>8 DEF LogInv, Log!HooksHearRight

LEMMA LogInvariance == Log!Spec => []LogInv
<1>1. Log!Init => LogInv
  BY LogInvInit
<1>2. LogInv /\ [Log!Next]_Log!vars => LogInv'
  <2> SUFFICES ASSUME LogInv, [Log!Next]_Log!vars PROVE LogInv'
    OBVIOUS
  <2>1. Log!TypeOK'
    BY LogTypeStep DEF LogInv
  <2> QED
    BY <2>1, EventKept, ReadKept, PostKept, OtherKept DEF Log!Next, Log!EventStep
<1> QED
  BY <1>1, <1>2, PTL DEF Log!Spec

\* Hooks hear only of commands the broker took, nothing when they were removed before the opening
\* was recorded, and of each opening once, for all sets of events, hooks and hosts
\* (discord-hook.ts:25-54).
THEOREM HooksAreTrue == Log!Spec => []HooksHearRight
<1>1. LogInv => HooksHearRight
  BY DEF LogInv, HooksHearRight
<1> QED
  BY <1>1, LogInvariance, PTL

-----------------------------------------------------------------------------
(* The broker account *)

\* A request has an admin session open.
Active(g) == pc[g] \in {"dropping", "creating"}

\* While all is calm there is one request, or the deletion, at a time: the batches under way are
\* of the session that is open, which has not heard of them yet.
OneAtATime ==
    calm =>
      /\ \A b \in wire :
            IF b[1] = Nobody THEN ~exists /\ b[2] = "delete"
            ELSE /\ pc[b[1]] = (IF b[2] = "delete" THEN "dropping" ELSE "creating")
                 /\ answer[b[1]] = "none"
      /\ \A g \in Gens :
            Active(g) => exists /\ last = Nobody /\ \A h \in Gens : Active(h) => h = g
      /\ \A g \in Gens : pc[g] = "creating" /\ answer[g] = "ok" => account = g
      /\ last # Nobody => wire = {} /\ \A g \in Gens : ~Active(g)

\* A request that is told of its success, and so one that is done, made its account.
Made ==
    \A g \in Gens : pc[g] = "done" \/ (pc[g] = "creating" /\ answer[g] = "ok") => g \in accepted

AdminInv == Admin!TypeOK /\ OneAtATime /\ Made /\ Admin!HandedOutWorks /\ Admin!DeletedIsClean

-----------------------------------------------------------------------------
(* The invariant is kept *)

LEMMA AdminInvInit == ASSUME Admin!CredentialsAssumption, Admin!Init PROVE AdminInv
BY DEF Admin!CredentialsAssumption, Admin!Init, AdminInv, Admin!TypeOK, OneAtATime, Made,
   Active, Admin!HandedOutWorks,
       Admin!DeletedIsClean, Admin!Owners, Admin!Batches

\* What a batch is, and what comes of the account when the broker runs it.
LEMMA BatchRun ==
    ASSUME Admin!CredentialsAssumption, Admin!TypeOK, NEW b \in wire
    PROVE  /\ b[1] \in Admin!Owners /\ b[2] \in {"delete", "create"} /\ b = <<b[1], b[2]>>
           /\ Admin!Runs(b) \in Admin!Owners
           /\ b[2] = "delete" => Admin!Runs(b) = Nobody
           /\ b[2] = "create" /\ Admin!Succeeds(b) => Admin!Runs(b) = b[1]
<1>1. b \in Admin!Owners \X {"delete", "create"}
  BY DEF Admin!TypeOK, Admin!Batches
<1>2. b[1] \in Admin!Owners /\ b[2] \in {"delete", "create"} /\ b = <<b[1], b[2]>>
  BY <1>1
<1> QED
  BY <1>2 DEF Admin!TypeOK, Admin!Runs, Admin!Succeeds, Admin!Owners

\* Sending leaves one batch more under way, or tells its session of an error.
LEMMA SendsType ==
    ASSUME Admin!TypeOK, NEW o \in Admin!Owners, NEW c \in {"delete", "create"}, Admin!Sends(o, c)
    PROVE  /\ wire' \subseteq Admin!Batches
           /\ answer' \in [Admin!Owners -> {"none", "ok", "error"}]
           /\ answer'[o] # "ok"
           /\ \A p \in Admin!Owners : p # o => answer'[p] = answer[p]
           /\ \A b \in wire' : b \in wire \/ (b = <<o, c>> /\ answer'[o] = "none")
BY DEF Admin!TypeOK, Admin!Sends, Admin!Batches

LEMMA RunKept ==
    ASSUME Admin!CredentialsAssumption, AdminInv, Admin!BrokerRuns
    PROVE  AdminInv'
<1>1. PICK b \in wire :
        /\ account' = Admin!Runs(b)
        /\ wire' = wire \ {b}
        /\ \/ answer' = answer
           \/ /\ Admin!Awaited(b)
              /\ answer' = [answer EXCEPT ![b[1]] = IF Admin!Succeeds(b) THEN "ok" ELSE "error"]
        /\ accepted' = accepted \cup ({account'} \ {Nobody})
        /\ UNCHANGED <<exists, pc, last, calm>>
  BY DEF Admin!BrokerRuns
<1>2. /\ b[1] \in Admin!Owners /\ b[2] \in {"delete", "create"}
      /\ Admin!Runs(b) \in Admin!Owners
      /\ b[2] = "delete" => Admin!Runs(b) = Nobody
      /\ b[2] = "create" /\ Admin!Succeeds(b) => Admin!Runs(b) = b[1]
  BY BatchRun DEF AdminInv
<1>3. Admin!TypeOK'
  BY <1>1, <1>2 DEF AdminInv, Admin!TypeOK, Admin!Owners
<1>4. \A o \in Admin!Owners : answer'[o] # answer[o] =>
         /\ o = b[1] /\ Admin!Awaited(b)
         /\ answer'[o] = "ok" => Admin!Succeeds(b)
  BY <1>1, <1>2 DEF AdminInv, Admin!TypeOK
<1>5. Made'
  <2> SUFFICES ASSUME NEW g \in Gens,
                      pc[g] = "done" \/ (pc[g] = "creating" /\ answer'[g] = "ok")
               PROVE  g \in accepted'
    BY <1>1 DEF Made
  <2>1. CASE pc[g] = "done" \/ (pc[g] = "creating" /\ answer[g] = "ok")
    BY <1>1, <2>1 DEF AdminInv, Made
  <2>2. CASE pc[g] = "creating" /\ answer[g] # "ok" /\ answer'[g] = "ok"
    <3>1. g = b[1] /\ Admin!Succeeds(b) /\ b[2] = "create"
      BY <1>2, <1>4, <2>2 DEF Admin!Awaited, Admin!Owners, Admin!CredentialsAssumption
    <3> QED
      BY <1>1, <1>2, <3>1 DEF Admin!CredentialsAssumption
  <2> QED
    BY <2>1, <2>2
<1>6. ASSUME calm
      PROVE  /\ OneAtATime' /\ Admin!HandedOutWorks' /\ Admin!DeletedIsClean'
  <2>1. last = Nobody
    BY <1>1, <1>6 DEF AdminInv, OneAtATime
  <2>2. CASE b[1] = Nobody
    <3>1. ~exists /\ b[2] = "delete" /\ account' = Nobody /\ \A g \in Gens : ~Active(g)
      BY <1>1, <1>2, <1>6, <2>2 DEF AdminInv, OneAtATime
    <3>2. \A g \in Gens : answer'[g] = answer[g]
      BY <1>4, <2>2 DEF Admin!CredentialsAssumption, Admin!Owners
    <3>3. \A d \in wire' : d[1] = Nobody /\ d[2] = "delete"
      <4> SUFFICES ASSUME NEW d \in wire PROVE d[1] = Nobody /\ d[2] = "delete"
        BY <1>1
      <4>1. d[1] \in Admin!Owners /\ d[2] \in {"delete", "create"}
        BY BatchRun DEF AdminInv
      <4> QED
        BY <1>6, <3>1, <4>1 DEF AdminInv, OneAtATime, Active, Admin!Owners
    <3>4. OneAtATime'
      BY <1>1, <2>1, <3>1, <3>2, <3>3 DEF OneAtATime, Active
    <3> QED
      BY <1>1, <2>1, <3>1, <3>4 DEF Admin!HandedOutWorks, Admin!DeletedIsClean
  <2>3. CASE b[1] # Nobody
    <3>1. /\ b[1] \in Gens /\ exists /\ Active(b[1])
          /\ \A h \in Gens : Active(h) => h = b[1]
          /\ pc[b[1]] = (IF b[2] = "delete" THEN "dropping" ELSE "creating")
      BY <1>1, <1>2, <1>6, <2>3 DEF AdminInv, OneAtATime, Admin!Owners, Active
    <3>2. \A d \in wire' : d \in wire /\ d[1] # b[1]
      <4> SUFFICES ASSUME NEW d \in wire, d # b, d[1] = b[1] PROVE FALSE
        BY <1>1
      <4>1. d = <<d[1], d[2]>> /\ b = <<b[1], b[2]>>
            /\ d[2] \in {"delete", "create"}
        BY BatchRun DEF AdminInv
      <4>2. pc[d[1]] = (IF d[2] = "delete" THEN "dropping" ELSE "creating")
        BY <1>6, <2>3 DEF AdminInv, OneAtATime
      <4> QED
        BY <1>2, <3>1, <4>1, <4>2
    <3>3. \A d \in wire' : answer'[d[1]] = answer[d[1]]
      BY <1>4, <3>2, BatchRun DEF AdminInv
    <3>4. \A g \in Gens : pc[g] = "creating" /\ answer'[g] = "ok" => account' = g
      <4> SUFFICES ASSUME NEW g \in Gens, pc[g] = "creating", answer'[g] = "ok" PROVE account' = g
        OBVIOUS
      <4>1. g = b[1] /\ b[2] = "create"
        BY <1>2, <3>1 DEF Active
      <4>2. answer[g] = "none"
        BY <1>1, <1>6, <2>3, <4>1 DEF AdminInv, OneAtATime
      <4> QED
        BY <1>1, <1>2, <1>4, <4>1, <4>2 DEF Admin!Owners
    <3>5. OneAtATime'
      BY <1>1, <1>6, <2>1, <3>2, <3>3, <3>4 DEF AdminInv, OneAtATime, Active
    <3> QED
      BY <1>1, <2>1, <3>1, <3>5 DEF Admin!HandedOutWorks, Admin!DeletedIsClean
  <2> QED
    BY <2>2, <2>3
<1>7. CASE ~calm
  BY <1>1, <1>3, <1>5, <1>7 DEF AdminInv, OneAtATime, Admin!HandedOutWorks, Admin!DeletedIsClean
<1> QED
  BY <1>3, <1>5, <1>6, <1>7 DEF AdminInv

LEMMA LossKept == ASSUME AdminInv, Admin!BatchLost PROVE AdminInv'
<1>1. /\ wire' \subseteq wire
      /\ UNCHANGED <<exists, account, pc, answer, accepted, last, calm>>
  BY DEF Admin!BatchLost
<1>2. Admin!TypeOK' /\ Made' /\ Admin!HandedOutWorks' /\ Admin!DeletedIsClean'
  BY <1>1 DEF AdminInv, Admin!TypeOK, Made, Admin!HandedOutWorks, Admin!DeletedIsClean
<1>3. OneAtATime'
  BY <1>1 DEF AdminInv, OneAtATime, Active
<1> QED
  BY <1>2, <1>3 DEF AdminInv

LEMMA GenerateKept ==
    ASSUME Admin!CredentialsAssumption, AdminInv, NEW g \in Gens, Admin!Generate(g)
    PROVE  AdminInv'
<1>1. /\ exists /\ Admin!Begins /\ Admin!Sends(g, "delete") /\ pc' = [pc EXCEPT ![g] = "dropping"]
      /\ last' = Nobody /\ UNCHANGED <<exists, account, accepted>>
  BY DEF Admin!Generate
<1>2. /\ wire' \subseteq Admin!Batches
      /\ answer' \in [Admin!Owners -> {"none", "ok", "error"}]
      /\ \A p \in Admin!Owners : p # g => answer'[p] = answer[p]
      /\ \A b \in wire' : b \in wire \/ (b = <<g, "delete">> /\ answer'[g] = "none")
  BY <1>1, SendsType DEF AdminInv, Admin!Owners
<1>3. Admin!TypeOK'
  BY <1>1, <1>2 DEF AdminInv, Admin!TypeOK, Admin!Begins, Admin!NoneAtWork, Admin!Owners
<1>4. Made'
  BY <1>1, <1>2 DEF AdminInv, Admin!TypeOK, Made, Admin!Owners
<1>5. Admin!HandedOutWorks' /\ Admin!DeletedIsClean'
  BY <1>1 DEF Admin!HandedOutWorks, Admin!DeletedIsClean
<1>6. ASSUME calm' PROVE OneAtATime'
  <2>1. wire = {} /\ \A h \in Gens : ~Active(h)
    BY <1>1, <1>6 DEF Admin!Begins, Admin!NoneAtWork, Active
  <2>2. \A b \in wire' : b = <<g, "delete">> /\ answer'[g] = "none"
    BY <1>2, <2>1
  <2>3. pc'[g] = "dropping" /\ \A h \in Gens : h # g => pc'[h] = pc[h]
    BY <1>1 DEF AdminInv, Admin!TypeOK
  <2>4. \A b \in wire' : b[1] = g /\ b[2] = "delete" /\ b[1] # Nobody
    BY <2>2 DEF Admin!CredentialsAssumption
  <2>5. \A h \in Gens : Active(h)' => h = g
    BY <2>1, <2>3 DEF Active
  <2> QED
    BY <1>1, <2>2, <2>3, <2>4, <2>5 DEF OneAtATime, Active
<1> QED
  BY <1>3, <1>4, <1>5, <1>6 DEF AdminInv, OneAtATime

LEMMA DroppedKept ==
    ASSUME Admin!CredentialsAssumption, AdminInv, NEW g \in Gens, Admin!Dropped(g)
    PROVE  AdminInv'
<1>1. /\ pc[g] = "dropping" /\ Admin!EndsOf(g) /\ Admin!Sends(g, "create")
      /\ pc' = [pc EXCEPT ![g] = "creating"]
      /\ UNCHANGED <<exists, account, accepted, last>>
  BY DEF Admin!Dropped
<1>2. /\ wire' \subseteq Admin!Batches
      /\ answer' \in [Admin!Owners -> {"none", "ok", "error"}]
      /\ answer'[g] # "ok"
      /\ \A p \in Admin!Owners : p # g => answer'[p] = answer[p]
      /\ \A b \in wire' : b \in wire \/ (b = <<g, "create">> /\ answer'[g] = "none")
  BY <1>1, SendsType DEF AdminInv, Admin!Owners
<1>3. Admin!TypeOK'
  BY <1>1, <1>2 DEF AdminInv, Admin!TypeOK, Admin!EndsOf, Admin!Owners
<1>4. Made'
  BY <1>1, <1>2 DEF AdminInv, Admin!TypeOK, Made, Admin!Owners
<1>5. ASSUME calm' PROVE OneAtATime' /\ Admin!HandedOutWorks' /\ Admin!DeletedIsClean'
  <2>1. calm /\ (\A b \in wire : b[1] # g)
    BY <1>1, <1>5 DEF Admin!EndsOf
  <2>2. /\ exists /\ last = Nobody /\ \A h \in Gens : Active(h) => h = g
    BY <1>1, <2>1 DEF AdminInv, OneAtATime, Active
  <2>3. wire = {}
    <3> SUFFICES ASSUME NEW b \in wire PROVE FALSE
      OBVIOUS
    <3>1. b[1] \in Admin!Owners /\ b[2] \in {"delete", "create"}
      BY BatchRun DEF AdminInv
    <3> QED
      BY <2>1, <2>2, <3>1 DEF AdminInv, OneAtATime, Active, Admin!Owners
  <2>4. \A b \in wire' : b = <<g, "create">> /\ answer'[g] = "none"
    BY <1>2, <2>3
  <2>5. \A h \in Gens : Active(h)' => h = g
    BY <1>1, <2>2 DEF AdminInv, Admin!TypeOK, Active
  <2> QED
    BY <1>1, <1>2, <2>2, <2>4, <2>5
    DEF AdminInv, Admin!TypeOK, OneAtATime, Active, Admin!HandedOutWorks, Admin!DeletedIsClean,
        Admin!CredentialsAssumption
<1> QED
  BY <1>3, <1>4, <1>5 DEF AdminInv, OneAtATime, Admin!HandedOutWorks, Admin!DeletedIsClean

LEMMA EndKept ==
    ASSUME Admin!CredentialsAssumption, AdminInv, NEW g \in Gens,
           Admin!Created(g) \/ Admin!NotCreated(g)
    PROVE  AdminInv'
<1>1. /\ pc[g] = "creating" /\ UNCHANGED <<exists, account, wire, answer, accepted>>
      /\ \/ answer[g] = "ok" /\ pc' = [pc EXCEPT ![g] = "done"] /\ last' = g /\ calm' = calm
         \/ Admin!EndsOf(g) /\ pc' = [pc EXCEPT ![g] = "failed"] /\ last' = last
  BY DEF Admin!Created, Admin!NotCreated
<1>2. Admin!TypeOK'
  BY <1>1 DEF AdminInv, Admin!TypeOK, Admin!EndsOf, Admin!Owners
<1>3. Made'
  BY <1>1 DEF AdminInv, Admin!TypeOK, Made
<1>4. ASSUME calm' PROVE OneAtATime' /\ Admin!HandedOutWorks' /\ Admin!DeletedIsClean'
  <2>1. calm /\ (answer[g] = "ok" \/ \A b \in wire : b[1] # g)
    BY <1>1, <1>4 DEF Admin!EndsOf
  <2>2. /\ exists /\ last = Nobody /\ \A h \in Gens : Active(h) => h = g
    BY <1>1, <2>1 DEF AdminInv, OneAtATime, Active
  <2>3. wire = {}
    <3> SUFFICES ASSUME NEW b \in wire PROVE FALSE
      OBVIOUS
    <3>1. b[1] \in Admin!Owners /\ b[2] \in {"delete", "create"}
      BY BatchRun DEF AdminInv
    <3>2. b[1] \in Gens /\ Active(b[1]) /\ answer[b[1]] = "none"
      BY <2>1, <2>2, <3>1 DEF AdminInv, OneAtATime, Active, Admin!Owners
    <3> QED
      BY <2>1, <2>2, <3>2
  <2>4. \A h \in Gens : ~Active(h)'
    BY <1>1, <2>2 DEF AdminInv, Admin!TypeOK, Active
  <2>5. answer[g] = "ok" => account = g
    BY <1>1, <2>1 DEF AdminInv, OneAtATime
  <2> QED
    BY <1>1, <2>2, <2>3, <2>4, <2>5
    DEF OneAtATime, Active, Admin!HandedOutWorks, Admin!DeletedIsClean,
        Admin!CredentialsAssumption
<1> QED
  BY <1>2, <1>3, <1>4 DEF AdminInv, OneAtATime, Admin!HandedOutWorks, Admin!DeletedIsClean

LEMMA DeleteKept ==
    ASSUME Admin!CredentialsAssumption, AdminInv, Admin!DeleteDevice
    PROVE  AdminInv'
<1>1. /\ exists' = FALSE /\ Admin!Begins /\ Admin!Sends(Nobody, "delete")
      /\ last' = Nobody /\ UNCHANGED <<account, pc, accepted>>
  BY DEF Admin!DeleteDevice
<1>2. /\ wire' \subseteq Admin!Batches
      /\ answer' \in [Admin!Owners -> {"none", "ok", "error"}]
      /\ answer'[Nobody] # "ok"
      /\ \A p \in Admin!Owners : p # Nobody => answer'[p] = answer[p]
      /\ \A b \in wire' : b \in wire \/ b = <<Nobody, "delete">>
  BY <1>1, SendsType DEF AdminInv, Admin!Owners
<1>3. Admin!TypeOK'
  BY <1>1, <1>2 DEF AdminInv, Admin!TypeOK, Admin!Begins, Admin!NoneAtWork, Admin!Owners
<1>4. Made'
  BY <1>1, <1>2 DEF AdminInv, Made, Admin!Owners, Admin!CredentialsAssumption
<1>5. Admin!HandedOutWorks' /\ Admin!DeletedIsClean'
  BY <1>1, <1>2 DEF Admin!HandedOutWorks, Admin!DeletedIsClean
<1>6. ASSUME calm' PROVE OneAtATime'
  <2>1. wire = {} /\ \A h \in Gens : ~Active(h)
    BY <1>1, <1>6 DEF Admin!Begins, Admin!NoneAtWork, Active
  <2>2. \A b \in wire' : b[1] = Nobody /\ b[2] = "delete"
    BY <1>2, <2>1
  <2>3. \A h \in Gens : ~Active(h)'
    BY <1>1, <2>1 DEF Active
  <2> QED
    BY <1>1, <2>2, <2>3 DEF OneAtATime, Active
<1> QED
  BY <1>3, <1>4, <1>5, <1>6 DEF AdminInv, OneAtATime

LEMMA AdminInvariance == Admin!Spec => []AdminInv
<1>1. Admin!Init => AdminInv
  BY AdminConstants, AdminInvInit
<1>2. AdminInv /\ [Admin!Next]_Admin!vars => AdminInv'
  <2> SUFFICES ASSUME AdminInv, [Admin!Next]_Admin!vars PROVE AdminInv'
    OBVIOUS
  <2>1. CASE UNCHANGED Admin!vars
    BY <2>1
    DEF Admin!vars, AdminInv, Admin!TypeOK, OneAtATime, Active, Made,
        Admin!HandedOutWorks, Admin!DeletedIsClean
  <2> QED
    BY <2>1, AdminConstants, RunKept, LossKept, GenerateKept, DroppedKept, EndKept, DeleteKept
    DEF Admin!Next
<1> QED
  BY <1>1, <1>2, PTL DEF Admin!Spec

\* For any number of requests and whatever of their batches and answers is lost, late or overlaps, a
\* password that was handed out was accepted by the broker.  The last one still opens it, and an
\* answered deletion leaves no account, if the request or the deletion met no other and nothing late,
\* whatever happened before (mqtt-admin.ts:66-137).
THEOREM ToldIsTrue == Admin!Spec => []AccountAsTold
<1>1. AdminInv => AccountAsTold
  BY DEF AdminInv, Made, AccountAsTold, Admin!AccountAsTold, Admin!DoneMeansMade
<1> QED
  BY <1>1, AdminInvariance, PTL

\* The account of a request is created once: its batch is sent once, and run once.
CreatedOnce ==
    /\ account \in accepted \cup {Nobody}
    /\ \A g \in Gens :
          /\ pc[g] \in {"new", "dropping"} => <<g, "create">> \notin wire /\ g \notin accepted
          /\ <<g, "create">> \in wire => g \notin accepted

\* The steps of requests, but for the batches they send
LEMMA RequestsOnce ==
    ASSUME Admin!CredentialsAssumption, AdminInv, CreatedOnce, NEW g \in Gens,
           Admin!Generate(g) \/ Admin!Dropped(g) \/ Admin!Created(g) \/ Admin!NotCreated(g)
    PROVE  CreatedOnce' /\ account' = account
<1>1. /\ UNCHANGED <<account, accepted>>
      /\ \/ pc[g] = "new" /\ pc' = [pc EXCEPT ![g] = "dropping"] /\ Admin!Sends(g, "delete")
         \/ pc[g] = "dropping" /\ pc' = [pc EXCEPT ![g] = "creating"] /\ Admin!Sends(g, "create")
         \/ pc[g] = "creating" /\ wire' = wire
            /\ (pc' = [pc EXCEPT ![g] = "done"] \/ pc' = [pc EXCEPT ![g] = "failed"])
  BY DEF Admin!Generate, Admin!Dropped, Admin!Created, Admin!NotCreated
<1>2. /\ pc'[g] \in {"dropping", "creating", "done", "failed"}
      /\ pc'[g] = "dropping" => pc[g] = "new"
      /\ \A h \in Gens : h # g => pc'[h] = pc[h]
  BY <1>1 DEF AdminInv, Admin!TypeOK
<1>3. \A h \in Gens : <<h, "create">> \in wire' =>
         <<h, "create">> \in wire \/ (h = g /\ pc[g] = "dropping")
  BY <1>1 DEF Admin!Sends
<1>4. pc'[g] = "dropping" => \A h \in Gens : <<h, "create">> \in wire' => <<h, "create">> \in wire
  BY <1>2, <1>3
<1> QED
  BY <1>1, <1>2, <1>3, <1>4 DEF CreatedOnce

\* Running a batch makes at most the account it is for.
LEMMA RunOnce ==
    ASSUME Admin!CredentialsAssumption, AdminInv, CreatedOnce, Admin!BrokerRuns
    PROVE  CreatedOnce' /\ \A g \in accepted : account # g => account' # g
<1>1. PICK b \in wire :
        /\ account' = Admin!Runs(b) /\ wire' = wire \ {b}
        /\ accepted' = accepted \cup ({account'} \ {Nobody})
        /\ UNCHANGED pc
  BY DEF Admin!BrokerRuns
<1>2. b[1] \in Admin!Owners /\ b[2] \in {"delete", "create"} /\ b = <<b[1], b[2]>>
  BY BatchRun DEF AdminInv
<1>3. CASE account' = account \/ account' = Nobody
  BY <1>1, <1>3 DEF CreatedOnce, AdminInv, Admin!TypeOK, Admin!CredentialsAssumption
<1>4. CASE account' # account /\ account' # Nobody
  <2>1. b[2] = "create" /\ account' = b[1] /\ b[1] \in Gens
    BY <1>1, <1>2, <1>4 DEF Admin!Runs, Admin!Owners
  <2>2. b = <<account', "create">> /\ account' \in Gens
    BY <1>2, <2>1
  <2>3. /\ account' \notin accepted /\ pc[account'] \notin {"new", "dropping"}
        /\ accepted' = accepted \cup {account'}
    BY <1>1, <1>4, <2>2 DEF CreatedOnce
  <2>4. <<account', "create">> \notin wire'
    BY <1>1, <2>2
  <2>5. \A g \in Gens : <<g, "create">> \in wire' => <<g, "create">> \in wire /\ g # account'
    BY <1>1, <2>4
  <2>6. \A g \in Gens : <<g, "create">> \in wire' => g \notin accepted'
    BY <2>3, <2>5 DEF CreatedOnce
  <2>7. \A g \in Gens : pc'[g] \in {"new", "dropping"} =>
           <<g, "create">> \notin wire' /\ g \notin accepted'
    BY <1>1, <2>3, <2>5 DEF CreatedOnce
  <2> QED
    BY <2>3, <2>6, <2>7 DEF CreatedOnce
<1> QED
  BY <1>3, <1>4

\* A password that has stopped working never works again, for any number of requests, overlapping
\* or not, and whatever of their batches and answers is lost or late (mqtt-admin.ts:105-137).
THEOREM RevokedForGood == Admin!Spec => StaysRevoked
<1> DEFINE Stays == \A g \in accepted : account # g => account' # g
<1>1. Admin!Init => CreatedOnce
  BY DEF Admin!Init, CreatedOnce
<1>2. AdminInv /\ CreatedOnce /\ [Admin!Next]_Admin!vars
         => CreatedOnce' /\ [Stays]_Admin!vars
  <2> SUFFICES ASSUME AdminInv, CreatedOnce, [Admin!Next]_Admin!vars PROVE CreatedOnce' /\ Stays
    OBVIOUS
  <2>1. CASE UNCHANGED Admin!vars
    BY <2>1 DEF Admin!vars, CreatedOnce
  <2>2. CASE Admin!BatchLost
    BY <2>2 DEF Admin!BatchLost, CreatedOnce
  <2>3. CASE Admin!DeleteDevice
    <3>1. UNCHANGED <<account, pc, accepted>> /\ Admin!Sends(Nobody, "delete")
      BY <2>3 DEF Admin!DeleteDevice
    <3>2. \A g \in Gens : <<g, "create">> \in wire' => <<g, "create">> \in wire
      BY <3>1 DEF Admin!Sends
    <3> QED
      BY <3>1, <3>2 DEF CreatedOnce
  <2>4. CASE Admin!BrokerRuns
    BY <2>4, AdminConstants, RunOnce
  <2>5. ASSUME NEW g \in Gens,
               Admin!Generate(g) \/ Admin!Dropped(g) \/ Admin!Created(g) \/ Admin!NotCreated(g)
        PROVE  CreatedOnce' /\ Stays
    BY <2>5, AdminConstants, RequestsOnce
  <2> QED
    BY <2>1, <2>2, <2>3, <2>4, <2>5 DEF Admin!Next
<1> QED
  BY <1>1, <1>2, AdminInvariance, PTL DEF Admin!Spec, StaysRevoked, Admin!StaysRevoked

-----------------------------------------------------------------------------
(* Side by side *)

LEMMA PartStep ==
    ASSUME [PartNext]_partVars
    PROVE  [Next]_vars /\ [Log!Next]_Log!vars /\ [Admin!Next]_Admin!vars
<1> USE DEF activityVars, adminVars, Log!vars, Log!commandVars, Log!hookVars, Admin!vars
<1>1. CASE SignInRuns(Next)
  BY <1>1 DEF SignInRuns
<1>2. CASE LogRuns(Log!Next)
  BY <1>2 DEF LogRuns
<1>3. CASE AdminRuns(Admin!Next)
  BY <1>3 DEF AdminRuns
<1>4. CASE UNCHANGED partVars
  BY <1>4 DEF partVars
<1> QED
  BY <1>1, <1>2, <1>3, <1>4 DEF PartNext

\* Side by side, as they are model-checked, each part does only what it does alone: what is proved
\* of the parts holds of the behaviours the runs check.
THEOREM BackendParts == PartSpec => Spec /\ Log!Spec /\ Admin!Spec
<1>1. PartInit => Init /\ Log!Init /\ Admin!Init
  BY DEF PartInit, LogRests
<1> QED
  BY <1>1, PartStep, PTL DEF PartSpec, Spec, Log!Spec, Admin!Spec

\* Every variable of accounts, pages, events, hooks and the broker account keeps its type.
THEOREM BackendTyping == PartSpec => []AllTypesOK
<1>1. TypeOK /\ LogInv /\ AdminInv => AllTypesOK
  BY DEF AllTypesOK, LogInv, AdminInv
<1> QED
  BY <1>1, BackendParts, SignInTyping, LogInvariance, AdminInvariance, PTL
=============================================================================
