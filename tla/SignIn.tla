------------------------------- MODULE SignIn --------------------------------
(***************************************************************************)
(* Login, sessions and workspaces: routes/auth.ts, workspace-service.ts    *)
(* and require-auth.ts of the backend, App.tsx and GoogleCallback.tsx of   *)
(* the browser.  The tabs of a browser share one cookie; a page keeps the  *)
(* workspace it was told when it was loaded.  Each query of the backend    *)
(* commits alone, so the steps of two logins interleave, and any of them   *)
(* may fail.                                                               *)
(*                                                                         *)
(* A page is loaded, and has asked who is signed in, before it calls the   *)
(* backend with the token Google sent it back with; SendsToken is both.    *)
(***************************************************************************)
EXTENDS Naturals, Sequences, FiniteSets, SequencesExt

CONSTANTS
    Users, Tabs, Browser,      \* accounts, tabs, and the browser of a tab
    Workspaces,                \* bound: the workspaces that can be created
    None

ASSUME SignInAssumption == None \notin Users \cup Workspaces /\ DOMAIN Browser = Tabs

VARIABLES
    known,      \* accounts that have a row in "user"
    members,    \* "user".workspaces
    made,       \* rows of workspace
    login,      \* POST /google of each tab: where the handler is, for whom, and what it created
    cookie,     \* session of each browser: whose it is
    page,       \* what each tab shows
    me,         \* GET /me of each tab: the user found, or None
    who, shown, \* user and workspaceId of the page
    loaded,     \* the workspaces whose rows the store of the page holds
    written     \* history: if this step wrote a row, who signed the request, the page's workspace and
                \* the row's

serverVars == <<known, members, made, login>>
pageVars == <<page, me, who, shown, loaded>>
vars == <<serverVars, cookie, pageVars, written>>

Sessions == {Browser[t] : t \in Tabs}
NoRow == [by |-> None, page |-> None, row |-> None]
Idle == [at |-> "idle", user |-> None, made |-> None]

TypeOK ==
    /\ known \subseteq Users /\ made \subseteq Workspaces
    /\ members \in [Users -> Seq(Workspaces)]
    /\ login \in [Tabs -> [at : {"idle", "begun", "lacking", "made", "ready"},
                           user : Users \cup {None}, made : Workspaces \cup {None}]]
    /\ cookie \in [Sessions -> Users \cup {None}]
    /\ page \in [Tabs -> {"loading", "anon", "authed", "callback", "error"}]
    /\ me \in [Tabs -> Users \cup {None}] /\ who \in [Tabs -> Users \cup {None}]
    /\ shown \in [Tabs -> Workspaces \cup {None}]
    /\ loaded \in [Tabs -> SUBSET Workspaces]
    /\ written \in {NoRow} \cup [by : Users, page : Workspaces, row : Workspaces]

Init ==
    /\ known = {} /\ members = [u \in Users |-> <<>>] /\ made = {}
    /\ login = [t \in Tabs |-> Idle]
    /\ cookie = [b \in Sessions |-> None]
    /\ page = [t \in Tabs |-> "loading"] /\ me = [t \in Tabs |-> None]
    /\ who = [t \in Tabs |-> None] /\ shown = [t \in Tabs |-> None]
    /\ loaded = [t \in Tabs |-> {}]
    /\ written = NoRow

-----------------------------------------------------------------------------
(* The backend *)

NoWrite == written' = NoRow

\* getWorkspaceForUser
Home(u) == IF members[u] = <<>> THEN None ELSE Head(members[u])

\* Seeded fault: the header is trusted.
ResolvedAsAsked(u, requested) == requested

\* resolveWorkspace: what X-Workspace, or the auth of the socket, asks for
Resolved(u, requested) == IF requested \in ToSet(members[u]) THEN requested ELSE None

\* What ensureUserAndMembership finds, the row of the account made or renewed.
Found(u) == IF Home(u) = None THEN "lacking" ELSE "ready"

LooksUp(t) ==
    LET u == login[t].user IN
    /\ login[t].at = "begun"
    /\ login' = [login EXCEPT ![t].at = Found(u)]
    /\ known' = known \cup {u}
    /\ UNCHANGED <<members, made, cookie, pageVars>> /\ NoWrite

InsertsWorkspace(t) ==
    /\ login[t].at = "lacking"
    /\ \E w \in Workspaces \ made :
          /\ made' = made \cup {w}
          /\ login' = [login EXCEPT ![t].at = "made", ![t].made = w]
    /\ UNCHANGED <<known, members, cookie, pageVars>> /\ NoWrite

\* Seeded faults: a list is put into the list; workspaces = $1 || workspaces.
Nested(s, w) == Append(s, <<w>>)
Prepended(s, w) == <<w>> \o s

\* workspaces = workspaces || $1
Joined(s, w) == Append(s, w)

AddsMembership(t) ==
    /\ login[t].at = "made"
    /\ members' = [members EXCEPT ![login[t].user] = Joined(@, login[t].made)]
    /\ login' = [login EXCEPT ![t].at = "ready"]
    /\ UNCHANGED <<known, made, cookie, pageVars>> /\ NoWrite

-----------------------------------------------------------------------------
(* Pages *)

Forget(t) ==
    /\ me' = [me EXCEPT ![t] = None]
    /\ who' = [who EXCEPT ![t] = None] /\ shown' = [shown EXCEPT ![t] = None]
    /\ loaded' = [loaded EXCEPT ![t] = {}]

Loads(t, p) == page' = [page EXCEPT ![t] = p] /\ Forget(t)

\* Opened again, or left in the middle of a login that the backend goes on with
Reload(t) ==
    /\ page[t] # "loading" /\ Loads(t, "loading")
    /\ UNCHANGED <<serverVars, cookie>> /\ NoWrite

AsksMe(t) ==
    /\ page[t] = "loading" /\ me[t] = None
    /\ me' = [me EXCEPT ![t] = cookie[Browser[t]]]
    /\ page' = [page EXCEPT ![t] = IF me'[t] = None THEN "anon" ELSE "loading"]
    /\ UNCHANGED <<serverVars, cookie, who, shown, loaded>> /\ NoWrite

MeAnswered(t) ==
    /\ page[t] = "loading" /\ me[t] # None
    /\ \/ /\ page' = [page EXCEPT ![t] = "authed"]
          /\ who' = [who EXCEPT ![t] = me[t]] /\ shown' = [shown EXCEPT ![t] = Home(me[t])]
       \/ page' = [page EXCEPT ![t] = "anon"] /\ UNCHANGED <<who, shown>>
    /\ UNCHANGED <<serverVars, cookie, me, loaded>> /\ NoWrite

\* The way to Google and back; bound: one POST /google of a tab at a time.
SendsToken(t, u) ==
    /\ page[t] \in {"anon", "authed", "error"} /\ login[t].at = "idle"
    /\ Loads(t, "callback")
    /\ login' = [login EXCEPT ![t] = [Idle EXCEPT !.at = "begun", !.user = u]]
    /\ UNCHANGED <<known, members, made, cookie>> /\ NoWrite

\* A page that has gone does not read the answer; its browser may keep the cookie.
SignedIn(t) ==
    /\ login[t].at = "ready"
    /\ login' = [login EXCEPT ![t] = Idle]
    /\ \/ cookie' = [cookie EXCEPT ![Browser[t]] = login[t].user]
       \/ page[t] # "callback" /\ UNCHANGED cookie
    /\ IF page[t] = "callback" THEN Loads(t, "loading") ELSE UNCHANGED pageVars
    /\ UNCHANGED <<known, members, made>> /\ NoWrite

\* Seeded fault: an answer that is not ok is not shown.
FailureUnseen(t) == page[t]

Failure(t) == IF page[t] = "callback" THEN "error" ELSE page[t]

\* The token is refused, or a query fails: what was committed stays.
SignInFails(t) ==
    /\ login[t].at # "idle"
    /\ login' = [login EXCEPT ![t] = Idle]
    /\ page' = [page EXCEPT ![t] = Failure(t)]
    /\ UNCHANGED <<known, members, made, cookie, me, who, shown, loaded>> /\ NoWrite

\* The form of the sidebar; the browser's other tabs hear nothing of it.
SignsOut(t) ==
    /\ page[t] = "authed"
    /\ cookie' = [cookie EXCEPT ![Browser[t]] = None]
    /\ Loads(t, "loading")
    /\ UNCHANGED <<serverVars>> /\ NoWrite

-----------------------------------------------------------------------------
(* What a signed-in page does *)

\* connectSync, or a socket that comes back: the resync that follows loads the rows of the
\* room it joins.
SocketJoins(t) ==
    LET u == cookie[Browser[t]]
        w == Resolved(u, shown[t])
    IN
    /\ page[t] = "authed" /\ u # None /\ w # None
    /\ loaded' = [loaded EXCEPT ![t] = @ \cup {w}]
    /\ UNCHANGED <<serverVars, cookie, page, me, who, shown>> /\ NoWrite

\* A request that requireAuth lets through, and the row it writes
Writes(t) ==
    LET u == cookie[Browser[t]]
        w == Resolved(u, shown[t])
    IN
    /\ page[t] = "authed" /\ u # None /\ w # None
    /\ written' = [by |-> u, page |-> shown[t], row |-> w]
    /\ UNCHANGED <<serverVars, cookie, pageVars>>

BackendStep(t) == LooksUp(t) \/ InsertsWorkspace(t) \/ AddsMembership(t)

Next == \E t \in Tabs :
    \/ BackendStep(t) \/ SignedIn(t) \/ SignInFails(t)
    \/ Reload(t) \/ AsksMe(t) \/ MeAnswered(t) \/ SignsOut(t)
    \/ \E u \in Users : SendsToken(t, u)
    \/ SocketJoins(t) \/ Writes(t)

Spec == Init /\ [][Next]_vars

\* Queries and fetches end, with an answer or an error; the user need not do anything.  A
\* login that finds no workspace left to create ends by failing.
FairSpec ==
    /\ Spec
    /\ \A t \in Tabs :
          /\ WF_vars(AsksMe(t) \/ MeAnswered(t))
          /\ WF_vars(BackendStep(t) \/ SignedIn(t) \/ SignInFails(t))

-----------------------------------------------------------------------------
(* Properties *)

\* Whoever is shown as signed in has a workspace: the cookie is only given once the membership
\* is there, whatever step of an earlier login failed (workspace-service.ts:30-41).
SignedInHasWorkspace == \A t \in Tabs : page[t] = "authed" => shown[t] # None

\* All pages of an account show one workspace, also when two first logins raced and both made
\* one (workspace-service.ts:30-40, routes/auth.ts:65).
PagesAgree ==
    \A t, v \in Tabs :
        page[t] = "authed" /\ page[v] = "authed" /\ who[t] = who[v] => shown[t] = shown[v]

\* An account that is shown as signed in has one home (workspace-service.ts:4-44).
HomeIsOne == SignedInHasWorkspace /\ PagesAgree

\* The store of a page never holds rows of another workspace than the one it was loaded for,
\* though its socket comes back under whatever cookie the browser has by then
\* (root-store.ts:26-27, index.ts:50-59).
OneWorkspaceShown == \A t \in Tabs : loaded[t] \subseteq {shown[t]}

\* A row is written to the workspace its page showed, by an account that is a member of it, also
\* from a page whose cookie has become another account's (require-auth.ts:18-31).
WritesStayHome ==
    written # NoRow => written.page = written.row /\ written.row \in ToSet(members[written.by])

\* Rows stay in their workspace, both ways (require-auth.ts:18-31, index.ts:50-59).
RowsStayHome == OneWorkspaceShown /\ WritesStayHome

\* No page stays at "Loading..." or "Authenticating with Google..." (App.tsx:36-49,
\* GoogleCallback.tsx:25-51).
SettlesIn(t) == page[t] \in {"loading", "callback"} ~> page[t] \in {"anon", "authed", "error"}

Settles == \A t \in Tabs : SettlesIn(t)
=============================================================================
