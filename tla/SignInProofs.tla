----------------------------- MODULE SignInProofs -----------------------------
(***************************************************************************)
(* Proofs about SignIn for any accounts, tabs, browsers and workspaces:    *)
(* its typing, that nobody is signed in without a workspace, that pages    *)
(* of an account agree, and that a page neither shows nor writes rows of   *)
(* another workspace than its own.                                         *)
(***************************************************************************)
EXTENDS SignIn, SequenceTheorems, TLAPS

USE SignInAssumption

-----------------------------------------------------------------------------
(* Lists of workspaces *)

\* A membership that is added leaves the first one first and all others there.
LEMMA JoinedList ==
    ASSUME NEW s \in Seq(Workspaces), NEW w \in Workspaces
    PROVE  /\ Joined(s, w) \in Seq(Workspaces)
           /\ Joined(s, w) # <<>>
           /\ s # <<>> => Head(Joined(s, w)) = Head(s)
           /\ ToSet(s) \subseteq ToSet(Joined(s, w))
<1>1. Joined(s, w) \in Seq(Workspaces) /\ Len(Joined(s, w)) = Len(s) + 1
  BY DEF Joined
<1>2. \A i \in 1..Len(s) : Joined(s, w)[i] = s[i]
  BY DEF Joined
<1>3. Joined(s, w) # <<>>
  BY <1>1
<1>4. s # <<>> => Head(Joined(s, w)) = Head(s)
  BY <1>1, <1>2
<1>5. ToSet(s) \subseteq ToSet(Joined(s, w))
  BY <1>1, <1>2 DEF ToSet
<1> QED
  BY <1>1, <1>3, <1>4, <1>5

\* The workspace of an account that has one is a workspace, and not None.
LEMMA HomeType ==
    ASSUME TypeOK, NEW u \in Users
    PROVE  Home(u) \in Workspaces \cup {None} /\ (members[u] # <<>> <=> Home(u) # None)
<1>1. members[u] \in Seq(Workspaces)
  BY DEF TypeOK
<1>2. members[u] # <<>> => Head(members[u]) \in Workspaces
  BY <1>1
<1> QED
  BY <1>2 DEF Home

-----------------------------------------------------------------------------
(* The inductive invariant *)

\* A login knows whom it is for, what it made, and at its end that the account has a workspace.
Logins == \A t \in Tabs :
    /\ login[t].at # "idle" => login[t].user \in Users
    /\ login[t].at = "made" => login[t].made \in Workspaces
    /\ login[t].at = "ready" => Home(login[t].user) # None

\* Whoever has a cookie, or was found by GET /me, has a workspace.
Cookies == \A b \in Sessions : cookie[b] # None => Home(cookie[b]) # None
Answers == \A t \in Tabs : me[t] # None => Home(me[t]) # None

\* A page shows its account's first workspace, and another page holds no rows.
Pages == \A t \in Tabs :
    IF page[t] = "authed"
    THEN who[t] \in Users /\ shown[t] = Home(who[t]) /\ shown[t] # None /\ loaded[t] \subseteq {shown[t]}
    ELSE loaded[t] = {}

IInv == TypeOK /\ Logins /\ Cookies /\ Answers /\ Pages /\ WritesStayHome

\* The kinds of steps: the backend's, those of a page, and those of a socket or a request.
LEMMA StepKinds ==
    ASSUME Next
    PROVE  \E t \in Tabs :
              \/ LooksUp(t) \/ InsertsWorkspace(t) \/ AddsMembership(t)
              \/ SignedIn(t) \/ SignInFails(t)
              \/ Reload(t) \/ AsksMe(t) \/ MeAnswered(t) \/ SignsOut(t)
              \/ \E u \in Users : SendsToken(t, u)
              \/ SocketJoins(t) \/ Writes(t)
BY DEF Next, BackendStep

\* No step takes a workspace from an account or puts another one first.
LEMMA HomeStays ==
    ASSUME TypeOK, Logins, [Next]_vars
    PROVE  /\ members' \in [Users -> Seq(Workspaces)]
           /\ \A u \in Users :
                 /\ Home(u) # None => Home(u)' = Home(u)
                 /\ ToSet(members[u]) \subseteq ToSet(members'[u])
<1>1. CASE \E t \in Tabs : AddsMembership(t)
  <2> PICK t \in Tabs : AddsMembership(t)
    BY <1>1
  <2> DEFINE v == login[t].user
             w == login[t].made
  <2>1. v \in Users /\ w \in Workspaces
    BY DEF AddsMembership, Logins
  <2>2. members \in [Users -> Seq(Workspaces)]
    BY DEF TypeOK
  <2>3. members' = [members EXCEPT ![v] = Joined(members[v], w)]
    BY DEF AddsMembership
  <2>4. /\ Joined(members[v], w) \in Seq(Workspaces)
        /\ Joined(members[v], w) # <<>>
        /\ members[v] # <<>> => Head(Joined(members[v], w)) = Head(members[v])
        /\ ToSet(members[v]) \subseteq ToSet(Joined(members[v], w))
    BY <2>1, <2>2, JoinedList
  <2> HIDE DEF v, w
  <2>5. members' \in [Users -> Seq(Workspaces)]
    BY <2>1, <2>2, <2>3, <2>4
  <2>6. ASSUME NEW u \in Users
        PROVE  /\ Home(u) # None => Home(u)' = Home(u)
               /\ ToSet(members[u]) \subseteq ToSet(members'[u])
    <3>1. CASE u = v
      BY <2>1, <2>2, <2>3, <2>4, <2>5, <3>1 DEF Home
    <3>2. CASE u # v
      BY <2>1, <2>2, <2>3, <2>5, <3>2 DEF Home
    <3> QED
      BY <3>1, <3>2
  <2> QED
    BY <2>5, <2>6
<1>2. CASE UNCHANGED members
  BY <1>2 DEF TypeOK, Home
<1> QED
  BY <1>1, <1>2, StepKinds DEF LooksUp, InsertsWorkspace, SignedIn, SignInFails, Reload, AsksMe,
     MeAnswered, SignsOut, SendsToken, SocketJoins, Writes, serverVars, vars

\* What an account asks for and gets is its own, and what it asked for.
LEMMA ResolvedHolds ==
    ASSUME TypeOK, NEW u \in Users, NEW w
    PROVE  /\ Resolved(u, w) \in Workspaces \cup {None}
           /\ Resolved(u, w) # None => Resolved(u, w) = w /\ w \in ToSet(members[u])
<1>1. ToSet(members[u]) \subseteq Workspaces
  BY DEF TypeOK, ToSet
<1> QED
  BY <1>1 DEF Resolved

-----------------------------------------------------------------------------
(* The invariant holds at first and is kept *)

LEMMA InitIInv == Init => IInv
<1> SUFFICES ASSUME Init PROVE IInv
  OBVIOUS
<1>1. TypeOK
  BY DEF Init, TypeOK, Idle
<1>2. Logins /\ Cookies /\ Answers /\ Pages /\ WritesStayHome
  BY DEF Init, Idle, Logins, Cookies, Answers, Pages, WritesStayHome, Sessions
<1> QED
  BY <1>1, <1>2 DEF IInv

\* Every part of the state but members keeps its type.
LEMMA TypeKept ==
    ASSUME IInv, [Next]_vars
    PROVE  TypeOK'
<1> USE DEF IInv
<1> DEFINE Rest == /\ known' \subseteq Users /\ made' \subseteq Workspaces
                   /\ login' \in [Tabs -> [at : {"idle", "begun", "lacking", "made", "ready"},
                                          user : Users \cup {None}, made : Workspaces \cup {None}]]
                   /\ cookie' \in [Sessions -> Users \cup {None}]
                   /\ page' \in [Tabs -> {"loading", "anon", "authed", "callback", "error"}]
                   /\ me' \in [Tabs -> Users \cup {None}] /\ who' \in [Tabs -> Users \cup {None}]
                   /\ shown' \in [Tabs -> Workspaces \cup {None}]
                   /\ loaded' \in [Tabs -> SUBSET Workspaces]
                   /\ written' \in {NoRow} \cup [by : Users, page : Workspaces, row : Workspaces]
<1>1. members' \in [Users -> Seq(Workspaces)]
  BY HomeStays
<1>2. Rest
  <2>1. ASSUME NEW t \in Tabs, LooksUp(t) PROVE Rest
    BY <2>1 DEF LooksUp, Found, TypeOK, Logins, pageVars, NoWrite
  <2>2. ASSUME NEW t \in Tabs, InsertsWorkspace(t) PROVE Rest
    <3>1. PICK w \in Workspaces \ made :
             /\ made' = made \cup {w}
             /\ login' = [login EXCEPT ![t].at = "made", ![t].made = w]
      BY <2>2 DEF InsertsWorkspace
    <3>2. login[t] \in [at : {"idle", "begun", "lacking", "made", "ready"},
                       user : Users \cup {None}, made : Workspaces \cup {None}]
      BY DEF TypeOK
    <3>3. login' = [login EXCEPT ![t] = [login[t] EXCEPT !.at = "made", !.made = w]]
      BY <3>1, <3>2 DEF TypeOK
    <3>4. login' \in [Tabs -> [at : {"idle", "begun", "lacking", "made", "ready"},
                             user : Users \cup {None}, made : Workspaces \cup {None}]]
      BY <3>2, <3>3 DEF TypeOK
    <3> QED
      BY <2>2, <3>1, <3>4 DEF InsertsWorkspace, TypeOK, pageVars, NoWrite
  <2>3. ASSUME NEW t \in Tabs, AddsMembership(t) PROVE Rest
    BY <2>3 DEF AddsMembership, TypeOK, pageVars, NoWrite
  <2>4. ASSUME NEW t \in Tabs, SignedIn(t) PROVE Rest
    <3>1. login[t].user \in Users /\ Browser[t] \in Sessions
      BY <2>4 DEF SignedIn, Logins, Sessions
    <3> QED
      BY <2>4, <3>1 DEF SignedIn, TypeOK, pageVars, NoWrite, Loads, Forget, Idle
  <2>5. ASSUME NEW t \in Tabs, SignInFails(t) PROVE Rest
    BY <2>5 DEF SignInFails, Failure, Idle, TypeOK, NoWrite
  <2>6. ASSUME NEW t \in Tabs, Reload(t) PROVE Rest
    BY <2>6 DEF Reload, Loads, Forget, TypeOK, serverVars, NoWrite
  <2>7. ASSUME NEW t \in Tabs, AsksMe(t) PROVE Rest
    <3>1. cookie[Browser[t]] \in Users \cup {None}
      BY DEF TypeOK, Sessions
    <3> QED
      BY <2>7, <3>1 DEF AsksMe, TypeOK, serverVars, NoWrite
  <2>8. ASSUME NEW t \in Tabs, MeAnswered(t) PROVE Rest
    <3>1. me[t] \in Users /\ Home(me[t]) \in Workspaces \cup {None}
      BY <2>8, HomeType DEF MeAnswered, TypeOK
    <3>2. /\ page' \in [Tabs -> {"loading", "anon", "authed", "callback", "error"}]
          /\ who' \in [Tabs -> Users \cup {None}] /\ shown' \in [Tabs -> Workspaces \cup {None}]
      <4>1. CASE UNCHANGED <<who, shown>> /\ page' = [page EXCEPT ![t] = "anon"]
        BY <4>1 DEF TypeOK
      <4>2. CASE /\ page' = [page EXCEPT ![t] = "authed"]
                 /\ who' = [who EXCEPT ![t] = me[t]] /\ shown' = [shown EXCEPT ![t] = Home(me[t])]
        BY <3>1, <4>2 DEF TypeOK
      <4> QED
        BY <2>8, <4>1, <4>2 DEF MeAnswered
    <3>3. UNCHANGED <<known, members, made, login, cookie, me, loaded>> /\ written' = NoRow
      BY <2>8 DEF MeAnswered, serverVars, NoWrite
    <3> QED
      BY <3>2, <3>3 DEF TypeOK
  <2>9. ASSUME NEW t \in Tabs, SignsOut(t) PROVE Rest
    BY <2>9 DEF SignsOut, Loads, Forget, TypeOK, Sessions, serverVars, NoWrite
  <2>10. ASSUME NEW t \in Tabs, NEW u \in Users, SendsToken(t, u) PROVE Rest
    BY <2>10 DEF SendsToken, Loads, Forget, Idle, TypeOK, NoWrite
  <2>11. ASSUME NEW t \in Tabs, SocketJoins(t) PROVE Rest
    <3>1. cookie[Browser[t]] \in Users
      BY <2>11 DEF SocketJoins, TypeOK, Sessions
    <3>2. Resolved(cookie[Browser[t]], shown[t]) \in Workspaces
      BY <2>11, <3>1, ResolvedHolds DEF SocketJoins
    <3> QED
      BY <2>11, <3>2 DEF SocketJoins, TypeOK, serverVars, NoWrite
  <2>12. ASSUME NEW t \in Tabs, Writes(t) PROVE Rest
    <3>1. cookie[Browser[t]] \in Users
      BY <2>12 DEF Writes, TypeOK, Sessions
    <3>2. /\ Resolved(cookie[Browser[t]], shown[t]) \in Workspaces
          /\ shown[t] \in Workspaces
      BY <2>12, <3>1, ResolvedHolds DEF Writes
    <3> QED
      BY <2>12, <3>1, <3>2 DEF Writes, TypeOK, serverVars, pageVars
  <2>13. CASE UNCHANGED vars
    BY <2>13 DEF vars, serverVars, pageVars, TypeOK
  <2> HIDE DEF Rest
  <2> QED
    BY <2>1, <2>2, <2>3, <2>4, <2>5, <2>6, <2>7, <2>8, <2>9, <2>10, <2>11, <2>12, <2>13, StepKinds
<1> QED
  BY <1>1, <1>2 DEF TypeOK, Sessions

\* A step keeps the homes of the accounts that sessions, logins and pages rely on.
LEMMA LoginsKept ==
    ASSUME IInv, [Next]_vars
    PROVE  Logins'
<1> USE DEF IInv
<1>1. \A u \in Users : Home(u) # None => Home(u)' # None
  BY HomeStays
<1>2. \A v \in Tabs : login[v] \in [at : {"idle", "begun", "lacking", "made", "ready"},
                                  user : Users \cup {None}, made : Workspaces \cup {None}]
  BY DEF TypeOK
<1> SUFFICES ASSUME NEW v \in Tabs
             PROVE  /\ login'[v].at # "idle" => login'[v].user \in Users
                    /\ login'[v].at = "made" => login'[v].made \in Workspaces
                    /\ login'[v].at = "ready" => Home(login[v].user)' # None
  BY DEF Logins
<1> DEFINE Good == /\ login'[v].at # "idle" => login'[v].user \in Users
                   /\ login'[v].at = "made" => login'[v].made \in Workspaces
                   /\ login'[v].at = "ready" => Home(login[v].user)' # None
<1>3. CASE login'[v] = login[v]
  BY <1>1, <1>3 DEF Logins
<1>4. CASE login'[v].at = "idle"
  BY <1>4
<1>5. CASE LooksUp(v)
  <2>1. login'[v].at = Found(login[v].user) /\ login'[v].user = login[v].user /\ login[v].user \in Users
    BY <1>2, <1>5 DEF LooksUp, Logins, TypeOK
  <2> QED
    BY <1>1, <2>1 DEF Found
<1>6. CASE InsertsWorkspace(v)
  <2>1. PICK w \in Workspaces : login' = [login EXCEPT ![v].at = "made", ![v].made = w]
    BY <1>6 DEF InsertsWorkspace
  <2>2. login'[v] = [login[v] EXCEPT !.at = "made", !.made = w]
    BY <1>2, <2>1 DEF TypeOK
  <2>3. login[v].user \in Users
    BY <1>6 DEF InsertsWorkspace, Logins
  <2> QED
    BY <1>2, <2>2, <2>3
<1>7. CASE AddsMembership(v)
  <2>1. /\ login'[v].at = "ready" /\ login'[v].user = login[v].user /\ login[v].user \in Users
        /\ login[v].made \in Workspaces
    BY <1>2, <1>7 DEF AddsMembership, Logins, TypeOK
  <2>2. members[login[v].user] \in Seq(Workspaces)
    BY <2>1 DEF TypeOK
  <2>3. members'[login[v].user] = Joined(members[login[v].user], login[v].made)
    BY <1>7, <2>1 DEF AddsMembership, TypeOK
  <2>4. members'[login[v].user] # <<>> /\ members'[login[v].user] \in Seq(Workspaces)
    BY <2>1, <2>2, <2>3, JoinedList
  <2>5. Home(login[v].user)' # None
    BY <2>1, <2>4 DEF Home
  <2> QED
    BY <2>1, <2>5
<1>8. CASE \E u \in Users : SendsToken(v, u)
  BY <1>8 DEF SendsToken, Idle, TypeOK
<1> QED
  <2>1. ASSUME NEW t \in Tabs, t # v, LooksUp(t) \/ InsertsWorkspace(t) \/ AddsMembership(t)
                                   \/ SignedIn(t) \/ SignInFails(t)
                                   \/ \E u \in Users : SendsToken(t, u)
        PROVE login'[v] = login[v]
    BY <2>1 DEF LooksUp, InsertsWorkspace, AddsMembership, SignedIn, SignInFails, SendsToken, TypeOK
  <2>2. ASSUME SignedIn(v) \/ SignInFails(v) PROVE login'[v].at = "idle"
    BY <2>2 DEF SignedIn, SignInFails, Idle, TypeOK
  <2>3. ASSUME NEW t \in Tabs, Reload(t) \/ AsksMe(t) \/ MeAnswered(t) \/ SignsOut(t)
                            \/ SocketJoins(t) \/ Writes(t)
        PROVE login'[v] = login[v]
    BY <2>3 DEF Reload, AsksMe, MeAnswered, SignsOut, SocketJoins, Writes, serverVars
  <2>4. CASE UNCHANGED vars
    BY <1>3, <2>4 DEF vars, serverVars
  <2> QED
    BY <1>3, <1>4, <1>5, <1>6, <1>7, <1>8, <2>1, <2>2, <2>3, <2>4, StepKinds

LEMMA SessionsKept ==
    ASSUME IInv, [Next]_vars
    PROVE  Cookies' /\ Answers'
<1> USE DEF IInv
<1>1. \A u \in Users : Home(u) # None => Home(u)' # None
  BY HomeStays
<1>2. ASSUME NEW b \in Sessions, cookie'[b] # None PROVE Home(cookie[b])' # None
  <2>1. cookie[b] \in Users \cup {None}
    BY DEF TypeOK
  <2>2. CASE cookie'[b] = cookie[b]
    BY <1>1, <1>2, <2>1, <2>2 DEF Cookies
  <2>3. CASE cookie'[b] # cookie[b]
    <3>1. PICK t \in Tabs : SignedIn(t) \/ SignsOut(t)
      BY <2>3, StepKinds DEF LooksUp, InsertsWorkspace, AddsMembership, SignInFails, Reload, AsksMe,
         MeAnswered, SendsToken, SocketJoins, Writes, serverVars, vars
    <3>2. CASE SignsOut(t)
      BY <1>2, <2>3, <3>2 DEF SignsOut, TypeOK
    <3>3. CASE SignedIn(t)
      <4>1. cookie'[b] = login[t].user /\ login[t].user \in Users /\ Home(login[t].user) # None
        BY <2>3, <3>3 DEF SignedIn, Logins, TypeOK
      <4> QED
        BY <1>1, <4>1
    <3> QED
      BY <3>1, <3>2, <3>3
  <2> QED
    BY <2>2, <2>3
<1>3. ASSUME NEW v \in Tabs, me'[v] # None PROVE Home(me[v])' # None
  <2>1. me[v] \in Users \cup {None}
    BY DEF TypeOK
  <2>2. CASE me'[v] = me[v]
    BY <1>1, <1>3, <2>1, <2>2 DEF Answers
  <2>3. CASE me'[v] # me[v]
    <3>1. AsksMe(v)
      <4>1. ASSUME NEW t \in Tabs, UNCHANGED me \/ me' = [me EXCEPT ![t] = None] PROVE FALSE
        BY <1>3, <2>3, <4>1 DEF TypeOK
      <4>2. ASSUME NEW t \in Tabs, AsksMe(t) PROVE t = v
        BY <2>3, <4>2 DEF AsksMe, TypeOK
      <4>3. ASSUME NEW t \in Tabs, SignedIn(t) \/ Reload(t) \/ SignsOut(t)
                                \/ \E u \in Users : SendsToken(t, u)
            PROVE  UNCHANGED me \/ me' = [me EXCEPT ![t] = None]
        BY <4>3 DEF SignedIn, Reload, SignsOut, SendsToken, Loads, Forget, pageVars
      <4>4. ASSUME NEW t \in Tabs, LooksUp(t) \/ InsertsWorkspace(t) \/ AddsMembership(t)
                                \/ SignInFails(t) \/ MeAnswered(t) \/ SocketJoins(t) \/ Writes(t)
            PROVE  UNCHANGED me
        BY <4>4 DEF LooksUp, InsertsWorkspace, AddsMembership, SignInFails, MeAnswered, SocketJoins,
           Writes, pageVars
      <4>5. ~UNCHANGED vars
        BY <2>3 DEF vars, pageVars
      <4> QED
        BY <4>1, <4>2, <4>3, <4>4, <4>5, StepKinds
    <3>2. me'[v] = cookie[Browser[v]] /\ Browser[v] \in Sessions
      BY <3>1 DEF AsksMe, TypeOK, Sessions
    <3>3. me'[v] \in Users /\ Home(cookie[Browser[v]]) # None
      BY <1>3, <3>2 DEF Cookies, TypeOK
    <3> QED
      BY <1>1, <3>2, <3>3
  <2> QED
    BY <2>2, <2>3
<1> QED
  BY <1>2, <1>3 DEF Cookies, Answers

\* A page that is signed in shows its account's first workspace, and holds rows of no other.
LEMMA PagesKept ==
    ASSUME IInv, [Next]_vars
    PROVE  Pages'
<1> USE DEF IInv
<1> DEFINE HomeNext(u) == IF members'[u] = <<>> THEN None ELSE Head(members'[u])
<1>1. \A u \in Users : Home(u) # None => HomeNext(u) = Home(u)
  BY HomeStays DEF Home
<1> DEFINE Good(v) == IF page'[v] = "authed"
                      THEN /\ who'[v] \in Users /\ shown'[v] = HomeNext(who'[v]) /\ shown'[v] # None
                           /\ loaded'[v] \subseteq {shown'[v]}
                      ELSE loaded'[v] = {}
           Same(v) == /\ page'[v] = page[v] /\ who'[v] = who[v] /\ shown'[v] = shown[v]
                      /\ loaded'[v] = loaded[v]
           Bare(v) == page'[v] # "authed" /\ loaded'[v] = {}
<1>2. ASSUME NEW v \in Tabs, Same(v) PROVE Good(v)
  <2>1. CASE page[v] = "authed"
    <3>1. who[v] \in Users /\ shown[v] = Home(who[v]) /\ HomeNext(who[v]) = Home(who[v])
      BY <1>1, <2>1 DEF Pages
    <3> QED
      BY <1>2, <2>1, <3>1 DEF Pages
  <2>2. CASE page[v] # "authed"
    BY <1>2, <2>2 DEF Pages
  <2> QED
    BY <2>1, <2>2
<1>3. ASSUME NEW v \in Tabs, Bare(v) PROVE Good(v)
  BY <1>3
<1>4. ASSUME NEW v \in Tabs, NEW t \in Tabs, UNCHANGED <<page, who, shown, loaded>> PROVE Same(v)
  BY <1>4
<1>5. ASSUME NEW v \in Tabs, NEW t \in Tabs, NEW p \in {"loading", "callback"}, Loads(t, p)
      PROVE  Same(v) \/ Bare(v)
  BY <1>5 DEF Loads, Forget, TypeOK
<1>6. ASSUME NEW v \in Tabs, NEW t \in Tabs, SignInFails(t) PROVE Same(v) \/ Bare(v)
  BY <1>6 DEF SignInFails, Failure, Pages, TypeOK
<1>7. ASSUME NEW v \in Tabs, NEW t \in Tabs, AsksMe(t) PROVE Same(v) \/ Bare(v)
  BY <1>7 DEF AsksMe, Pages, TypeOK
<1>8. ASSUME NEW v \in Tabs, NEW t \in Tabs, MeAnswered(t) PROVE Same(v) \/ Good(v)
  <2>1. CASE v # t
    BY <1>8, <2>1 DEF MeAnswered, TypeOK
  <2>2. CASE v = t
    <3>1. /\ me[v] \in Users /\ Home(me[v]) # None /\ HomeNext(me[v]) = Home(me[v])
          /\ loaded'[v] = {}
      BY <1>1, <1>8, <2>2 DEF MeAnswered, TypeOK, Answers, Pages
    <3>2. CASE page' = [page EXCEPT ![t] = "anon"]
      BY <2>2, <3>1, <3>2 DEF TypeOK
    <3>3. CASE /\ page' = [page EXCEPT ![t] = "authed"]
               /\ who' = [who EXCEPT ![t] = me[t]] /\ shown' = [shown EXCEPT ![t] = Home(me[t])]
      <4>1. who'[v] = me[v] /\ shown'[v] = Home(me[v])
        BY <2>2, <3>3 DEF TypeOK
      <4> QED
        BY <2>2, <3>1, <3>3, <4>1 DEF TypeOK
    <3> QED
      BY <1>8, <3>2, <3>3 DEF MeAnswered
  <2> QED
    BY <2>1, <2>2
<1>9. ASSUME NEW v \in Tabs, NEW t \in Tabs, SocketJoins(t) PROVE Good(v)
  <2>1. Same(v) \/ (v = t /\ loaded'[v] = loaded[v] \cup {shown[v]})
    <3>1. cookie[Browser[t]] \in Users
      BY <1>9 DEF SocketJoins, TypeOK, Sessions
    <3>2. Resolved(cookie[Browser[t]], shown[t]) = shown[t]
      BY <1>9, <3>1, ResolvedHolds DEF SocketJoins
    <3> QED
      BY <1>9, <3>2 DEF SocketJoins, TypeOK
  <2>2. CASE v = t /\ loaded'[v] = loaded[v] \cup {shown[v]}
    <3>1. page[v] = "authed" /\ UNCHANGED <<page, who, shown, members>>
      BY <1>9, <2>2 DEF SocketJoins, serverVars
    <3> QED
      BY <2>2, <3>1 DEF Pages, Home
  <2> QED
    BY <1>2, <2>1, <2>2
<1>10. ASSUME NEW v \in Tabs PROVE Good(v)
  <2>1. ASSUME NEW t \in Tabs, LooksUp(t) \/ InsertsWorkspace(t) \/ AddsMembership(t) \/ Writes(t)
        PROVE  UNCHANGED <<page, who, shown, loaded>>
    BY <2>1 DEF LooksUp, InsertsWorkspace, AddsMembership, Writes, pageVars
  <2>2. ASSUME NEW t \in Tabs, SignedIn(t) \/ Reload(t) \/ SignsOut(t)
                            \/ \E u \in Users : SendsToken(t, u)
        PROVE  \/ UNCHANGED <<page, who, shown, loaded>>
               \/ \E p \in {"loading", "callback"} : Loads(t, p)
    <3>1. ASSUME SignedIn(t)
          PROVE  UNCHANGED <<page, who, shown, loaded>> \/ Loads(t, "loading")
      BY <3>1 DEF SignedIn, pageVars
    <3>2. ASSUME Reload(t) \/ SignsOut(t) PROVE Loads(t, "loading")
      BY <3>2 DEF Reload, SignsOut
    <3>3. ASSUME \E u \in Users : SendsToken(t, u) PROVE Loads(t, "callback")
      BY <3>3 DEF SendsToken
    <3> QED
      BY <2>2, <3>1, <3>2, <3>3
  <2>3. CASE UNCHANGED vars
    BY <1>2, <2>3 DEF vars, pageVars
  <2> HIDE DEF Good, Same, Bare
  <2> QED
    BY <1>2, <1>3, <1>4, <1>5, <1>6, <1>7, <1>8, <1>9, <2>1, <2>2, <2>3, StepKinds
<1> QED
  BY <1>10 DEF Pages, Home

LEMMA WritesKept ==
    ASSUME IInv, [Next]_vars
    PROVE  WritesStayHome'
<1> USE DEF IInv
<1>1. CASE written' = written
  <2>1. CASE written # NoRow
    <3>1. written.by \in Users
      BY <2>1 DEF TypeOK
    <3>2. ToSet(members[written.by]) \subseteq ToSet(members'[written.by])
      BY <3>1, HomeStays
    <3> QED
      BY <1>1, <2>1, <3>2 DEF WritesStayHome
  <2>2. CASE written = NoRow
    BY <1>1, <2>2 DEF WritesStayHome
  <2> QED
    BY <2>1, <2>2
<1>2. CASE written' = NoRow
  BY <1>2 DEF WritesStayHome
<1>3. ASSUME NEW t \in Tabs, Writes(t) PROVE WritesStayHome'
  <2>1. cookie[Browser[t]] \in Users
    BY <1>3 DEF Writes, TypeOK, Sessions
  <2>2. /\ Resolved(cookie[Browser[t]], shown[t]) = shown[t]
        /\ shown[t] \in ToSet(members[cookie[Browser[t]]])
    BY <1>3, <2>1, ResolvedHolds DEF Writes
  <2>3. UNCHANGED members /\ written' = [by |-> cookie[Browser[t]], page |-> shown[t], row |-> shown[t]]
    BY <1>3, <2>2 DEF Writes, serverVars
  <2> QED
    BY <2>2, <2>3 DEF WritesStayHome
<1> QED
  BY <1>1, <1>2, <1>3, StepKinds DEF LooksUp, InsertsWorkspace, AddsMembership, SignedIn,
     SignInFails, Reload, AsksMe, MeAnswered, SignsOut, SendsToken, SocketJoins, NoWrite, vars

-----------------------------------------------------------------------------
(* Theorems *)

LEMMA Invariance == Spec => []IInv
<1>1. IInv /\ [Next]_vars => IInv'
  BY TypeKept, LoginsKept, SessionsKept, PagesKept, WritesKept DEF IInv
<1> QED
  BY <1>1, InitIInv, PTL DEF Spec

\* Every variable keeps its type, for any number of accounts, tabs, browsers and workspaces.
THEOREM SignInTyping == Spec => []TypeOK
<1>1. IInv => TypeOK
  BY DEF IInv
<1> QED
  BY <1>1, Invariance, PTL

\* Nobody is shown as signed in without a workspace, and all pages of one account show the same,
\* whatever logins raced or failed, in any number of tabs and browsers
\* (workspace-service.ts:30-41).
THEOREM OneHome == Spec => []HomeIsOne
<1>1. IInv => HomeIsOne
  <2>1. IInv => SignedInHasWorkspace
    BY DEF IInv, Pages, SignedInHasWorkspace
  <2>2. IInv => PagesAgree
    BY DEF IInv, Pages, PagesAgree
  <2> QED
    BY <2>1, <2>2 DEF HomeIsOne
<1> QED
  BY <1>1, Invariance, PTL

\* The store of a page holds rows of the workspace it was loaded for and of no other, and the page
\* writes to the workspace it shows, only for an account that is a member of it
\* (root-store.ts:26-27, require-auth.ts:18-31).
THEOREM NoForeignRows == Spec => []RowsStayHome
<1>1. IInv => RowsStayHome
  <2>1. IInv => OneWorkspaceShown
    BY DEF IInv, Pages, OneWorkspaceShown
  <2> QED
    BY <2>1 DEF IInv, RowsStayHome
<1> QED
  BY <1>1, Invariance, PTL
=============================================================================
