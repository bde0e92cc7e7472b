------------------------------- MODULE Sessions -------------------------------
(***************************************************************************)
(* The session of a browser: tabs that hold an access token in memory      *)
(* (stores/auth.ts), one refresh cookie shared by all of them, apiFetch    *)
(* with its single-flight tryRefresh (lib/api.ts), the sign-in form, the   *)
(* OAuth callback and the logout, against the server that rotates refresh  *)
(* tokens and revokes a user's family on reuse (internal/auth).            *)
(*                                                                         *)
(* A call is one request of a tab; a conn is one POST /api/auth/refresh.   *)
(* An access token is only live or expired; a page load loses it.          *)
(***************************************************************************)
EXTENDS Naturals, FiniteSets

CONSTANTS Tabs, Users,
          Calls,      \* request slots of the tabs
          TabOf,      \* the tab a slot belongs to
          Conns,      \* refresh requests that can be on their way at once
          MaxTokens,  \* bound: refresh tokens the server issues
          MaxActs,    \* bound: requests sent, page loads and expiries
          None

ASSUME SessionsAssumption ==
  /\ None \notin Users \cup Tabs \cup Conns \cup Nat
  /\ TabOf \in [Calls -> Tabs]
  /\ MaxTokens \in Nat \ {0}
  /\ MaxActs \in Nat

Tokens == 1..MaxTokens

VARIABLES
  auth,       \* per tab: the user and access token of the zustand store
  boot,       \* per tab: App shows the spinner until its first refresh settles
  refreshing, \* per tab: the conn behind the module's promise, or None
  cookie,     \* the refresh cookie of the browser
  token,      \* the refresh_tokens table
  conn,       \* the refresh requests
  call,       \* the other requests
  acts,       \* what the users and the clock did so far (bound)
  torn        \* history: an answer was lost, two tabs presented one cookie,
              \* or somebody signed out

vars == <<auth, boot, refreshing, cookie, token, conn, call, acts, torn>>

-----------------------------------------------------------------------------
SignedOut == [user |-> None, live |-> FALSE]
NoCall == [kind |-> "none", st |-> "idle", live |-> FALSE, again |-> FALSE,
           tok |-> None, user |-> None]
NoConn == [st |-> "free", tab |-> None, tok |-> None, new |-> None]
NoRow  == [st |-> "none", user |-> None, login |-> None]

\* Requests of signed-in pages: apiFetch (and streamPOST of useChat, which does
\* the same), the fetches of useDocuments that do not sign out, and the upload.
PageKinds == {"api", "raw", "upload"}
\* Requests that answer with a session: the form and the OAuth callback.
SignInKinds == {"login", "code"}
Kinds == PageKinds \cup SignInKinds \cup {"logout"}

\* A row is locked while a rotation has updated it and not committed, and doomed
\* when a revocation waits for that lock.
Held == {"locked", "doomed"}
Unrevoked == {"usable"} \cup Held
Rows == [st : {"none", "spent"} \cup Unrevoked,
         user : Users \cup {None}, login : Tokens \cup {None}]
ConnStates == [st : {"free", "sent", "read", "rotating", "yes", "no"},
               tab : Tabs \cup {None}, tok : Tokens \cup {None}, new : Tokens \cup {None}]
CallStates == [kind : Kinds \cup {"none"},
               st : {"idle", "out", "denied", "waiting", "refused", "granted", "done"},
               live : BOOLEAN, again : BOOLEAN,
               tok : Tokens \cup {None}, user : Users \cup {None}]

TypeOK ==
  /\ auth \in [Tabs -> [user : Users \cup {None}, live : BOOLEAN]]
  /\ boot \in [Tabs -> BOOLEAN]
  /\ refreshing \in [Tabs -> Conns \cup {None}]
  /\ cookie \in Tokens \cup {None}
  /\ token \in [Tokens -> Rows]
  /\ conn \in [Conns -> ConnStates]
  /\ call \in [Calls -> CallStates]
  /\ acts \in 0..MaxActs
  /\ torn \in BOOLEAN

\* What App's routes show: the spinner, the pages behind RequireAuth, or the
\* sign-in form (a signed-in tab is redirected away from it).
Page(t) == IF boot[t] THEN "spinner"
           ELSE IF auth[t].user # None THEN "app" ELSE "login"

Act == acts < MaxActs /\ acts' = acts + 1

FreeToken(k) == token[k].st = "none" /\ \A j \in Tokens : j < k => token[j].st # "none"

-----------------------------------------------------------------------------
(* The server                                                              *)

\* RevokeFamily(user): every token of the user that is not revoked. It waits for
\* the row a rotation holds locked, and revokes it if that rotation is rolled
\* back; the row the rotation is about to insert is not in its snapshot.
RevokeFamily(u) ==
  token' = [k \in Tokens |->
              IF token[k].user # u THEN token[k]
              ELSE IF token[k].st = "usable" THEN [token[k] EXCEPT !.st = "spent"]
              ELSE IF token[k].st \in Held THEN [token[k] EXCEPT !.st = "doomed"]
              ELSE token[k]]

\* handleRefresh up to the read of the token: no cookie is a 401, a revoked or
\* rotated token revokes the family. A reader still sees a locked row unrevoked.
RefreshGet(c) ==
  /\ conn[c].st = "sent"
  /\ LET k == conn[c].tok IN
     IF k = None
     THEN conn' = [conn EXCEPT ![c].st = "no"] /\ UNCHANGED token
     ELSE IF token[k].st \in Unrevoked
          THEN conn' = [conn EXCEPT ![c].st = "read"] /\ UNCHANGED token
          ELSE conn' = [conn EXCEPT ![c].st = "no"] /\ RevokeFamily(token[k].user)
  /\ UNCHANGED <<auth, boot, refreshing, cookie, call, acts, torn>>

\* MUTANT: the UPDATE without "AND revoked_at IS NULL AND replaced_by IS NULL".
RotateUnconditionally(c) ==
  /\ conn[c].st = "read"
  /\ token' = [token EXCEPT ![conn[c].tok].st = "locked"]
  /\ conn' = [conn EXCEPT ![c].st = "rotating"]
  /\ UNCHANGED <<auth, boot, refreshing, cookie, call, acts, torn>>

\* Rotate's UPDATE: it waits for a lock, marks the row if it is still
\* unrevoked, and otherwise finds no row, which revokes the family.
RotateUpdate(c) ==
  /\ conn[c].st = "read"
  /\ token[conn[c].tok].st \notin Held
  /\ LET k == conn[c].tok IN
     IF token[k].st = "usable"
     THEN /\ token' = [token EXCEPT ![k].st = "locked"]
          /\ conn' = [conn EXCEPT ![c].st = "rotating"]
     ELSE RevokeFamily(token[k].user) /\ conn' = [conn EXCEPT ![c].st = "no"]
  /\ UNCHANGED <<auth, boot, refreshing, cookie, call, acts, torn>>

\* Rotate's INSERT and commit: the successor belongs to the same login.
RotateCommit(c) ==
  /\ conn[c].st = "rotating"
  /\ \E n \in Tokens :
       /\ FreeToken(n)
       /\ token' = [token EXCEPT ![conn[c].tok].st = "spent",
                                 ![n] = [token[conn[c].tok] EXCEPT !.st = "usable"]]
       /\ conn' = [conn EXCEPT ![c].st = "yes", ![c].new = n]
  /\ UNCHANGED <<auth, boot, refreshing, cookie, call, acts, torn>>

\* A statement of the refresh fails (the read, the user's row, the transaction,
\* which is then rolled back): a 401 with the token as it was and no revocation.
RefreshFails(c) ==
  /\ conn[c].st \in {"sent", "read", "rotating"}
  /\ token' = IF conn[c].st # "rotating" THEN token
              ELSE [token EXCEPT ![conn[c].tok].st =
                      IF token[conn[c].tok].st = "doomed" THEN "spent" ELSE "usable"]
  /\ conn' = [conn EXCEPT ![c].st = "no"]
  /\ UNCHANGED <<auth, boot, refreshing, cookie, call, acts, torn>>

\* A sign-in request is served: good credentials or an unspent code issue a
\* token that starts a login of its own, anything else is a 401.
ServeSignIn(r) ==
  /\ call[r].st = "out" /\ call[r].kind \in SignInKinds
  /\ \/ \E n \in Tokens :
          /\ FreeToken(n) /\ ~call[r].again
          /\ token' = [token EXCEPT ![n] = [st |-> "usable", user |-> call[r].user,
                                            login |-> n]]
          /\ call' = [call EXCEPT ![r].st = "granted", ![r].tok = n]
     \/ call' = [call EXCEPT ![r].st = "denied"] /\ UNCHANGED token
  /\ UNCHANGED <<auth, boot, refreshing, cookie, conn, acts, torn>>

\* handleLogout revokes the family of the cookie's user and is never refused.
ServeLogout(r) ==
  /\ call[r].st = "out" /\ call[r].kind = "logout"
  /\ IF call[r].tok = None THEN UNCHANGED token
     ELSE RevokeFamily(token[call[r].tok].user)
  /\ call' = [call EXCEPT ![r].st = "done"]
  /\ torn' = TRUE
  /\ UNCHANGED <<auth, boot, refreshing, cookie, conn, acts>>

\* A page's request: the middleware accepts a live access token, whose answer
\* (or failure of another kind) ends the call, and answers 401 to an expired one.
ServePage(r) ==
  /\ call[r].st = "out" /\ call[r].kind \in PageKinds
  /\ call' = [call EXCEPT ![r] = IF call[r].live THEN NoCall
                                 ELSE [call[r] EXCEPT !.st = "denied"]]
  /\ UNCHANGED <<auth, boot, refreshing, cookie, token, conn, acts, torn>>

-----------------------------------------------------------------------------
(* tryRefresh: the promise, and how it settles                             *)

\* The conn a new promise of tab t sends: it carries the cookie of now.
Sent(t) == [st |-> "sent", tab |-> t, tok |-> cookie, new |-> None]

\* Another tab already presents the same cookie.
SharedCookie(t) == \E c \in Conns : /\ conn[c].st # "free" /\ conn[c].tab # t
                                    /\ conn[c].tok = cookie /\ cookie # None

\* MUTANT: every 401 sends a refresh of its own.
RefreshEachTime(t) ==
  \E c \in Conns :
    /\ conn[c].st = "free"
    /\ conn' = [conn EXCEPT ![c] = Sent(t)]
    /\ refreshing' = [refreshing EXCEPT ![t] = c]
    /\ torn' = (torn \/ SharedCookie(t))

\* `refreshing ??= fetch(...)`: a promise on its way is joined, otherwise one
\* is started.
TryRefresh(t) ==
  \/ /\ refreshing[t] # None
     /\ UNCHANGED <<conn, refreshing, torn>>
  \/ /\ refreshing[t] = None
     /\ \E c \in Conns :
          /\ conn[c].st = "free"
          /\ conn' = [conn EXCEPT ![c] = Sent(t)]
          /\ refreshing' = [refreshing EXCEPT ![t] = c]
          /\ torn' = (torn \/ SharedCookie(t))

\* MUTANT: the promise resolves only its first caller.
SettleOne(t, ok) ==
  LET waiting == {r \in Calls : TabOf[r] = t /\ call[r].st = "waiting"}
      first == IF waiting = {} THEN None ELSE CHOOSE r \in waiting : TRUE IN
  /\ refreshing' = [refreshing EXCEPT ![t] = None]
  /\ boot' = [boot EXCEPT ![t] = FALSE]
  /\ call' = [r \in Calls |->
       IF r # first THEN call[r]
       ELSE IF ok THEN [call[r] EXCEPT !.st = "out", !.live = TRUE, !.again = TRUE]
            ELSE [call[r] EXCEPT !.st = "refused"]]

\* The promise of tab t settles, and with it every call that awaits it: TRUE
\* resends them with the new access token, FALSE leaves them with their 401.
Settle(t, ok) ==
  /\ refreshing' = [refreshing EXCEPT ![t] = None]
  /\ boot' = [boot EXCEPT ![t] = FALSE]
  /\ call' = [r \in Calls |->
       IF TabOf[r] # t \/ call[r].st # "waiting" THEN call[r]
       ELSE IF ok THEN [call[r] EXCEPT !.st = "out", !.live = TRUE, !.again = TRUE]
            ELSE [call[r] EXCEPT !.st = "refused"]]

\* The answer of a refresh reaches its tab: the cookie first, then setAuth.
RefreshAnswered(c) ==
  /\ conn[c].st \in {"yes", "no"} /\ refreshing[conn[c].tab] = c
  /\ LET t == conn[c].tab IN
     IF conn[c].st = "yes"
     THEN /\ cookie' = conn[c].new
          /\ auth' = [auth EXCEPT ![t] = [user |-> token[conn[c].new].user, live |-> TRUE]]
          /\ Settle(t, TRUE)
     ELSE UNCHANGED <<cookie, auth>> /\ Settle(t, FALSE)
  /\ conn' = [conn EXCEPT ![c] = NoConn]
  /\ UNCHANGED <<token, acts, torn>>

\* MUTANT: no catch, the promise of a lost request never settles.
RefreshLostSilently(c) ==
  /\ conn[c].st \in {"sent", "read", "yes", "no"} /\ refreshing[conn[c].tab] = c
  /\ conn' = [conn EXCEPT ![c] = NoConn]
  /\ torn' = TRUE
  /\ UNCHANGED <<auth, boot, refreshing, cookie, token, call, acts>>

\* The request or its answer is lost: `.catch(() => false)`.
RefreshLost(c) ==
  /\ conn[c].st \in {"sent", "read", "yes", "no"} /\ refreshing[conn[c].tab] = c
  /\ Settle(conn[c].tab, FALSE)
  /\ conn' = [conn EXCEPT ![c] = NoConn]
  /\ torn' = TRUE
  /\ UNCHANGED <<auth, cookie, token, acts>>

\* The answer to a page that is gone: the browser closed the connection.
RefreshOrphaned(c) ==
  /\ conn[c].st \in {"yes", "no"} /\ refreshing[conn[c].tab] # c
  /\ conn' = [conn EXCEPT ![c] = NoConn]
  /\ UNCHANGED <<auth, boot, refreshing, cookie, token, call, acts, torn>>

-----------------------------------------------------------------------------
(* The calls of a tab                                                      *)

Out(t, k, tok, user) == [kind |-> k, st |-> "out", live |-> auth[t].live,
                         again |-> FALSE, tok |-> tok, user |-> user]

\* A page behind RequireAuth sends a request.
SendPage(r, k) ==
  LET t == TabOf[r] IN
  /\ Act /\ Page(t) = "app" /\ call[r].st = "idle"
  /\ call' = [call EXCEPT ![r] = Out(t, k, None, None)]
  /\ UNCHANGED <<auth, boot, refreshing, cookie, token, conn, torn>>

\* onSubmit of the form: its button is disabled while a submit is pending.
SubmitAuthForm(r, u) ==
  LET t == TabOf[r] IN
  /\ Act /\ Page(t) = "login" /\ call[r].st = "idle"
  /\ \A q \in Calls : TabOf[q] = t => call[q].kind \notin SignInKinds
  /\ call' = [call EXCEPT ![r] = Out(t, "login", None, u)]
  /\ UNCHANGED <<auth, boot, refreshing, cookie, token, conn, torn>>

\* Both logouts (sidebar and settings) send the cookie of now.
Logout(r) ==
  LET t == TabOf[r] IN
  /\ Act /\ Page(t) = "app" /\ call[r].st = "idle"
  /\ call' = [call EXCEPT ![r] = Out(t, "logout", cookie, None)]
  /\ UNCHANGED <<auth, boot, refreshing, cookie, token, conn, torn>>

\* A 401: the first goes through tryRefresh. A second one ends an apiFetch
\* (which signs the tab out) and a raw fetch; the upload tries again.
OnDenied(r) ==
  LET t == TabOf[r] IN
  /\ call[r].st = "denied"
  /\ IF call[r].again /\ call[r].kind # "upload"
     THEN /\ call' = [call EXCEPT ![r].st = "refused"]
          /\ UNCHANGED <<conn, refreshing, torn>>
     ELSE TryRefresh(t) /\ call' = [call EXCEPT ![r].st = "waiting"]
  /\ UNCHANGED <<auth, boot, cookie, token, acts>>

\* The 401 that remains: apiFetch and the upload clear the store, a raw fetch
\* only reports it.
OnRefused(r) ==
  /\ call[r].st = "refused"
  /\ auth' = IF call[r].kind = "raw" THEN auth
             ELSE [auth EXCEPT ![TabOf[r]] = SignedOut]
  /\ call' = [call EXCEPT ![r] = NoCall]
  /\ UNCHANGED <<boot, refreshing, cookie, token, conn, acts, torn>>

\* MUTANT: setAuth is handed the token where it takes the user.
SwappedSetAuth(r) ==
  /\ call[r].st = "granted"
  /\ cookie' = call[r].tok
  /\ auth' = [auth EXCEPT ![TabOf[r]] = [user |-> call[r].tok, live |-> TRUE]]
  /\ call' = [call EXCEPT ![r] = NoCall]
  /\ UNCHANGED <<boot, refreshing, token, conn, acts, torn>>

\* A session arrives: the cookie is set, setAuth stores the user.
OnGranted(r) ==
  /\ call[r].st = "granted"
  /\ cookie' = call[r].tok
  /\ auth' = [auth EXCEPT ![TabOf[r]] = [user |-> call[r].user, live |-> TRUE]]
  /\ call' = [call EXCEPT ![r] = NoCall]
  /\ UNCHANGED <<boot, refreshing, token, conn, acts, torn>>

\* The logout ends, answered (the cookie is deleted) or lost: the store is
\* cleared regardless.
OnLoggedOut(r) ==
  /\ call[r].kind = "logout" /\ call[r].st \in {"out", "done"}
  /\ \/ call[r].st = "done" /\ cookie' = None
     \/ cookie' = cookie
  /\ auth' = [auth EXCEPT ![TabOf[r]] = SignedOut]
  /\ call' = [call EXCEPT ![r] = NoCall]
  /\ torn' = TRUE
  /\ UNCHANGED <<boot, refreshing, token, conn, acts>>

\* A sign-in or page answer is lost: the caller reports an error.
CallLost(r) ==
  /\ call[r].st \in {"out", "granted"} /\ call[r].kind # "logout"
  /\ call' = [call EXCEPT ![r] = NoCall]
  /\ UNCHANGED <<auth, boot, refreshing, cookie, token, conn, acts, torn>>

\* The access token of a tab expires, also for what it already sent.
Expire(t) ==
  /\ Act /\ auth[t].live
  /\ auth' = [auth EXCEPT ![t].live = FALSE]
  /\ call' = [r \in Calls |-> IF TabOf[r] = t THEN [call[r] EXCEPT !.live = FALSE]
                              ELSE call[r]]
  /\ UNCHANGED <<boot, refreshing, cookie, token, conn, torn>>

-----------------------------------------------------------------------------
(* Page loads                                                              *)

\* Whatever the page held is gone: its store, its promise and its calls.
DropPage(t, kept) ==
  /\ auth' = [auth EXCEPT ![t] = SignedOut]
  /\ call' = [r \in Calls |-> IF TabOf[r] = t /\ r \notin DOMAIN kept THEN NoCall
                              ELSE IF r \in DOMAIN kept THEN kept[r] ELSE call[r]]

\* A page is loaded: App shows the spinner and awaits its first tryRefresh.
LoadPage(t) ==
  /\ Act
  /\ DropPage(t, <<>>)
  /\ boot' = [boot EXCEPT ![t] = TRUE]
  /\ \E c \in Conns :
       /\ conn[c].st = "free"
       /\ conn' = [conn EXCEPT ![c] = Sent(t)]
       /\ refreshing' = [refreshing EXCEPT ![t] = c]
  /\ torn' = (torn \/ refreshing[t] # None \/ SharedCookie(t))
  /\ UNCHANGED <<cookie, token>>

\* The provider redirects to /auth/callback: no first refresh, the code is
\* exchanged at once.
LoadCallback(r, u) ==
  LET t == TabOf[r] IN
  /\ Act
  /\ DropPage(t, [q \in {r} |-> [Out(t, "code", None, u) EXCEPT !.live = FALSE]])
  /\ boot' = [boot EXCEPT ![t] = FALSE]
  /\ refreshing' = [refreshing EXCEPT ![t] = None]
  /\ torn' = (torn \/ refreshing[t] # None)
  /\ UNCHANGED <<cookie, token, conn>>

-----------------------------------------------------------------------------
\* Every tab is on the sign-in form and nobody has signed in yet.
Init ==
  /\ auth = [t \in Tabs |-> SignedOut]
  /\ boot = [t \in Tabs |-> FALSE]
  /\ refreshing = [t \in Tabs |-> None]
  /\ cookie = None
  /\ token = [k \in Tokens |-> NoRow]
  /\ conn = [c \in Conns |-> NoConn]
  /\ call = [r \in Calls |-> NoCall]
  /\ acts = 0
  /\ torn = FALSE

ServerStep ==
  \/ \E c \in Conns : RefreshGet(c) \/ RotateUpdate(c) \/ RotateCommit(c)
  \/ \E r \in Calls : ServeSignIn(r) \/ ServeLogout(r) \/ ServePage(r)

TabStep ==
  \/ \E c \in Conns : RefreshAnswered(c) \/ RefreshOrphaned(c)
  \/ \E r \in Calls : OnDenied(r) \/ OnRefused(r) \/ OnGranted(r) \/ OnLoggedOut(r)

Environment ==
  \/ \E c \in Conns : RefreshFails(c) \/ RefreshLost(c)
  \/ \E r \in Calls : CallLost(r)
  \/ \E t \in Tabs : Expire(t) \/ LoadPage(t)
  \/ \E r \in Calls : \/ \E k \in PageKinds : SendPage(r, k)
                      \/ \E u \in Users : SubmitAuthForm(r, u) \/ LoadCallback(r, u)
                      \/ Logout(r)

Next == ServerStep \/ TabStep \/ Environment

Spec == Init /\ [][Next]_vars

\* The server answers what it received and the browser delivers answers; what
\* users, the clock and the network do is not fair.
FairSpec == Spec /\ WF_vars(ServerStep) /\ WF_vars(TabStep)

-----------------------------------------------------------------------------
(* Properties                                                              *)

\* However many requests present the cookie of a login, at once or late, one
\* login has at most one refresh token that can still be rotated: Rotate's
\* UPDATE lets one of them through.
OneUsablePerLogin ==
  \A j, k \in Tokens :
    /\ token[j].st \in Unrevoked /\ token[k].st \in Unrevoked
    /\ token[j].login = token[k].login
    => j = k

\* What the single flight is for: as long as no answer is lost, no two tabs
\* present one cookie and nobody signs out, the cookie can be rotated, or its
\* successor is on its way to the tab. Requests of one tab that all meet an
\* expired access token never sign their user out.
CookieStaysUsable ==
  ~torn /\ cookie # None =>
    \/ token[cookie].st \in {"usable", "locked"}
    \/ \E c \in Conns : /\ conn[c].st = "yes" /\ conn[c].tok = cookie
                        /\ refreshing[conn[c].tab] = c

\* A call that awaits the promise, and the spinner, wait for a request that is
\* on its way for this very page: no settled or dropped promise is awaited.
WaitersHaveAPromise ==
  \A t \in Tabs :
    /\ refreshing[t] # None => /\ conn[refreshing[t]].st # "free"
                               /\ conn[refreshing[t]].tab = t
    /\ boot[t] => refreshing[t] # None
    /\ \A r \in Calls : TabOf[r] = t /\ call[r].st = "waiting" => refreshing[t] # None

\* Every request of a page ends, whatever the refresh it waits for comes to.
CallsSettle == \A r \in Calls : call[r].st # "idle" ~> call[r].st = "idle"

\* The comment of uploadWithProgress: a 401 retries once, like apiFetch. An
\* upload that was sent again and meets a 401 is not sent a third time.
UploadRetriesOnce ==
  [][\A r \in Calls : call[r].kind = "upload" /\ call[r].again /\ call[r].st = "denied"
        => call'[r].st # "waiting"]_vars

=============================================================================
