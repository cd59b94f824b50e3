------------------------------ MODULE MCBackend ------------------------------
(***************************************************************************)
(* Model-checking instance of Backend.                                     *)
(*                                                                         *)
(* SignIn: two tabs of one browser, two accounts, two workspaces.          *)
(* Activity: two scans or commands, two hooks, a host the backend accepts  *)
(* and one that only the form does.                                        *)
(* Credentials: two requests.                                              *)
(***************************************************************************)
EXTENDS Backend

CONSTANTS t1, t2, u1, u2, w1, w2

\* Two tabs of one browser
SameBrowser == [t \in {t1, t2} |-> "b1"]

\* Settles, of a behaviour of SignIn: no page stays at its loading text (App.tsx:36-49,
\* GoogleCallback.tsx:25-51).  The tabs are alike, so it is checked of one.
PagesSettle == part = "sign-in" => SettlesIn(t1)

\* Every hook of an accepted host is told of an opening that is recorded while it is there,
\* unless it is removed or the handler is cut off (discord-hook.ts:25-54).  Events are alike, and
\* hooks differ by their hosts, which they take in all ways: it is checked of one of each.
Told == Log!ToldOf("e1", "h1")
=============================================================================
