------------------------------ MODULE Activity -------------------------------
(***************************************************************************)
(* What happens at a device becomes a row of deviceActivity, and a row     *)
(* that says the door was opened is told to the Discord hooks of the       *)
(* device: device-service.ts, scan-listener.ts, db/actions.ts, db/hooks.ts *)
(* and hooks/discord-hook.ts of the backend, device-actions.tsx and        *)
(* device-hooks.tsx of the browser.  One device.  Every event is handled   *)
(* on its own, so their steps interleave; a row is written, and the        *)
(* handlers of the change are called, in one step (mutate).                *)
(***************************************************************************)
EXTENDS Naturals, FiniteSets

CONSTANTS
    Events, Hooks,   \* bounds: scans and commands that happen, hooks that are added
    Hosts            \* the hosts of the URLs users paste

VARIABLES
    mode,      \* mode of the device
    kind,      \* what each event is
    stage,     \* how far it has come
    isOn,      \* modeParams.isOn
    sent,      \* history: commands the broker took
    hook,      \* the hooks: "new", "active" or "removed"
    host,      \* host of each hook's URL
    todo,      \* hooks an event is still to be posted to
    removed,   \* history: hooks that were removed before the event was recorded
    posts      \* how often each event was posted to each hook

commandVars == <<mode, isOn, sent>>
hookVars == <<hook, host>>
vars == <<commandVars, kind, stage, hookVars, todo, removed, posts>>

Commands == {"success", "error", "on", "off"}
Scans == {"allowed", "denied"}

\* DISCORD_WEBHOOK_PATTERN, and DISCORD_HOSTS of the backend
FormHosts == {"discord.com", "discordapp.com", "canary.discord.com", "ptb.discord.com",
              "canary.discordapp.com", "ptb.discordapp.com"}
DiscordHosts == {"discord.com", "discordapp.com", "canary.discord.com", "ptb.discord.com"}

TypeOK ==
    /\ mode \in {"door", "machine"} /\ isOn \in BOOLEAN
    /\ kind \in [Events -> Commands \cup Scans \cup {"sync", "none"}]
    /\ stage \in [Events -> {"none", "switching", "publishing", "recording", "recorded",
                             "posting", "done", "failed"}]
    /\ sent \subseteq Events
    /\ hook \in [Hooks -> {"new", "active", "removed"}] /\ host \in [Hooks -> FormHosts]
    /\ todo \in [Events -> SUBSET Hooks] /\ \A e \in Events : todo[e] # {} => stage[e] = "posting"
    /\ removed \in [Events -> SUBSET Hooks]
    /\ posts \in [Events \X Hooks -> Nat]

Init ==
    /\ mode \in {"door", "machine"} /\ isOn = FALSE
    /\ kind = [e \in Events |-> "none"] /\ stage = [e \in Events |-> "none"]
    /\ sent = {}
    /\ hook = [h \in Hooks |-> "new"] /\ host \in [Hooks -> Hosts \cap FormHosts]
    /\ todo = [e \in Events |-> {}] /\ removed = [e \in Events |-> {}]
    /\ posts = [p \in Events \X Hooks |-> 0]

-----------------------------------------------------------------------------
(* Commands and scans *)

\* The buttons of DeviceActions
Offered == IF mode = "door" THEN {"success", "error", "sync"} ELSE {"on", "off", "sync"}

FirstStage(k) == IF k \in {"on", "off"} THEN "switching" ELSE "publishing"

\* A button is pressed; requireAuth lets the request through, and the device is found.
Presses(e, k) ==
    /\ stage[e] = "none" /\ k \in Offered
    /\ kind' = [kind EXCEPT ![e] = k]
    /\ stage' = [stage EXCEPT ![e] = FirstStage(k)]
    /\ UNCHANGED <<commandVars, hookVars, todo, removed, posts>>

\* A scan arrives, and its device is found.
ScanArrives(e, k) ==
    /\ stage[e] = "none" /\ k \in Scans
    /\ kind' = [kind EXCEPT ![e] = k]
    /\ stage' = [stage EXCEPT ![e] = "recording"]
    /\ UNCHANGED <<commandVars, hookVars, todo, removed, posts>>

\* isOn is stored before the command goes out.
Switches(e) ==
    /\ stage[e] = "switching"
    /\ isOn' = (kind[e] = "on")
    /\ stage' = [stage EXCEPT ![e] = "publishing"]
    /\ UNCHANGED <<mode, sent, kind, hookVars, todo, removed, posts>>

\* The broker takes the message, whether or not the device is there to hear it.
Publishes(e) ==
    /\ stage[e] = "publishing"
    /\ sent' = sent \cup {e}
    /\ stage' = [stage EXCEPT ![e] = "recording"]
    /\ UNCHANGED <<mode, isOn, kind, hookVars, todo, removed, posts>>

Unsent == "failed"

\* A query or the publishing fails, and the request is answered with 500.
Fails(e) ==
    /\ stage[e] \in {"switching", "publishing"}
    /\ stage' = [stage EXCEPT ![e] = Unsent]
    /\ UNCHANGED <<commandVars, kind, hookVars, todo, removed, posts>>

RecordFails(e) ==
    /\ stage[e] = "recording"
    /\ stage' = [stage EXCEPT ![e] = "failed"]
    /\ UNCHANGED <<commandVars, kind, hookVars, todo, removed, posts>>

\* notifyDoorOpened's "opened"
IsOpening(k) == k = "allowed" \/ k \in Commands

Records(e) ==
    /\ stage[e] = "recording"
    /\ stage' = [stage EXCEPT ![e] = IF IsOpening(kind[e]) THEN "recorded" ELSE "done"]
    /\ removed' = [removed EXCEPT ![e] = {h \in Hooks : hook[h] = "removed"}]
    /\ UNCHANGED <<commandVars, kind, hookVars, todo, posts>>

-----------------------------------------------------------------------------
(* Discord *)

\* Seeded fault: the rows of removed hooks are read as well.
EveryHook == {h \in Hooks : hook[h] # "new"}

\* The query of notifyDoorOpened, and the URLs that isDiscordWebhookUrl lets through
HooksToTell == {h \in Hooks : hook[h] = "active" /\ host[h] \in DiscordHosts}

ReadsHooks(e) ==
    /\ stage[e] = "recorded"
    /\ todo' = [todo EXCEPT ![e] = HooksToTell]
    /\ stage' = [stage EXCEPT ![e] = "posting"]
    /\ UNCHANGED <<commandVars, kind, hookVars, removed, posts>>

\* Seeded fault: what Discord does not take ends the loop.
RestGivenUp(e, h, ok) == IF ok THEN todo[e] \ {h} ELSE {}

\* Whatever Discord answers, the hook was told, and the next one is.
Rest(e, h, ok) == todo[e] \ {h}

Posts(e) == \E h \in todo[e], ok \in BOOLEAN :
    /\ stage[e] = "posting"
    /\ posts' = [posts EXCEPT ![<<e, h>>] = @ + 1]
    /\ todo' = [todo EXCEPT ![e] = Rest(e, h, ok)]
    /\ UNCHANGED <<commandVars, kind, stage, hookVars, removed>>

Finishes(e) ==
    /\ stage[e] = "posting" /\ todo[e] = {}
    /\ stage' = [stage EXCEPT ![e] = "done"]
    /\ UNCHANGED <<commandVars, kind, hookVars, todo, removed, posts>>

\* fetch throws, and the hooks that would have come next are not told.
PostThrows(e) ==
    /\ stage[e] = "posting" /\ todo[e] # {}
    /\ todo' = [todo EXCEPT ![e] = {}]
    /\ stage' = [stage EXCEPT ![e] = "failed"]
    /\ UNCHANGED <<commandVars, kind, hookVars, removed, posts>>

Dropped == [e \in Events |-> {}]

\* Nothing that was under way is taken up again.
Restart ==
    /\ stage' = [e \in Events |-> IF stage[e] \in {"none", "done"} THEN stage[e] ELSE "failed"]
    /\ todo' = Dropped
    /\ UNCHANGED <<commandVars, kind, hookVars, removed, posts>>

-----------------------------------------------------------------------------
(* The form of DeviceHooks *)

AddsHook(h) ==
    /\ hook[h] = "new" /\ hook' = [hook EXCEPT ![h] = "active"]
    /\ UNCHANGED <<commandVars, kind, stage, host, todo, removed, posts>>

RemovesHook(h) ==
    /\ hook[h] = "active" /\ hook' = [hook EXCEPT ![h] = "removed"]
    /\ UNCHANGED <<commandVars, kind, stage, host, todo, removed, posts>>

EventStep(e) ==
    \/ Switches(e) \/ Publishes(e) \/ Fails(e) \/ RecordFails(e) \/ Records(e)
    \/ ReadsHooks(e) \/ Posts(e) \/ Finishes(e) \/ PostThrows(e)

Next ==
    \/ \E e \in Events :
          \/ EventStep(e)
          \/ \E k \in Offered : Presses(e, k)
          \/ \E k \in Scans : ScanArrives(e, k)
    \/ Restart
    \/ \E h \in Hooks : AddsHook(h) \/ RemovesHook(h)

Spec == Init /\ [][Next]_vars

\* The handlers run on to their end as the queries and posts they wait for are answered.
FairSpec == Spec /\ \A e \in Events : WF_vars(ReadsHooks(e)) /\ WF_vars(Posts(e))

-----------------------------------------------------------------------------
(* Properties *)

\* Nobody is told of a command that the broker did not take (device-service.ts:73-84).
ToldWasSent ==
    \A e \in Events, h \in Hooks : posts[<<e, h>>] > 0 /\ kind[e] \in Commands => e \in sent

\* A hook that was removed before the door was opened hears nothing more, whatever was still
\* under way when it was removed (discord-hook.ts:29-37).
RemovedHookSilent ==
    \A e \in Events, h \in Hooks : posts[<<e, h>>] > 0 => h \notin removed[e]

\* An opening is told once to a hook, also if Discord refuses it or the backend restarts
\* (discord-hook.ts:39-53).
ToldOnce == \A e \in Events, h \in Hooks : posts[<<e, h>>] <= 1

\* What a hook may hear (discord-hook.ts:25-54).
HooksHearRight == ToldWasSent /\ RemovedHookSilent /\ ToldOnce

\* A hook the backend posts to, and that is there when an opening is recorded, is told of it
\* whatever Discord answered to the others, unless it is removed or the handler is cut off
\* (discord-hook.ts:25-54).  "Posts to a Discord channel whenever this door is opened."
\* (device-hooks.tsx:26)
ToldOf(e, h) ==
    stage[e] = "recorded" /\ hook[h] = "active" /\ host[h] \in DiscordHosts
        ~> posts[<<e, h>>] > 0 \/ hook[h] = "removed" \/ stage[e] = "failed"

Told == \A e \in Events, h \in Hooks : ToldOf(e, h)
=============================================================================
