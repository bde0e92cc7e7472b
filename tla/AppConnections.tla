---------------------------- MODULE AppConnections ----------------------------
(***************************************************************************)
(* How a user connects an app (a calendar, GitHub, a built-in MCP app) and *)
(* disconnects it: the cards of the settings, of a chat and of the         *)
(* credentials dialog, the OAuth dialog with its popup window, and the     *)
(* handlers behind them. An app is connected through either of two tables: *)
(* a credential of its provider, or an MCP server linked to it. No handler *)
(* uses a transaction, so every statement is an action of its own.         *)
(*                                                                         *)
(* A stamp is the number of the act that caused something. MCP servers and *)
(* credentials that a user adds or deletes by hand are left out: ListPages *)
(* has those.                                                              *)
(***************************************************************************)
EXTENDS Naturals, Sequences, FiniteSets

CONSTANTS Providers, \* apps with OAuth: google_calendar, github, slack
          Builtin,   \* apps of the catalog without: web_fetch, code_runner
          Calendar,  \* google_calendar, which a chat's card connects in its own way
          Cards,     \* where the cards are: "settings", "vault", or a provider's in a chat
          Reqs,      \* requests that can be out at once
          MaxActs,   \* bound: what the user does, and answers that are lost
          None

ASSUME AppConnectionsAssumption ==
  /\ Reqs \subseteq Nat /\ MaxActs \in Nat
  /\ None \notin Nat \cup {"on", "off", "hollow"}
  /\ Cards \subseteq {"settings", "vault"} \cup Providers

VARIABLES
  page,     \* where the card is
  env,      \* whether the server's environment has the providers' client ids
  cred,     \* server: a provider's credentials, the last updated first
  server,   \* server: an app's row of mcp_servers, linked or no longer
  cache,    \* the queries of the providers and of the servers
  dialog,   \* OAuthPopupDialog
  timers,   \* its intervals: the stamps of the popups they look at
  window,   \* the window at the provider, a popup or the page itself
  cookie,   \* the sealed state of the last start
  req,      \* the requests
  acts,
  behind,   \* history: the queries that were not told of a change, or told wrong
  doubled,  \* history: the providers that once had two credentials
  said      \* history: what the last statement about an app made of it

vars == <<page, env, cred, server, cache, dialog, timers, window, cookie, req, acts,
          behind, doubled, said>>
tables == <<cred, server, doubled, said>>
client == <<cache, dialog, timers, behind>>
outside == <<window, cookie>>

-----------------------------------------------------------------------------
Apps == Providers \cup Builtin
Stamps == 0..MaxActs
Queries == {"providers", "servers"}
ConfigName == "oauth_config"
Credential == [id : Stamps, name : {ConfigName, "token"}, holds : {"client", "token"},
               of : Apps]
Facts == [configured : BOOLEAN, connected : BOOLEAN]
Snapshots == [Apps -> Facts]
Answers == [data : Snapshots \cup {None}, out : {"no", "sent", "half", "read"},
            got : Snapshots \cup {None}]
Empty == [data |-> None, out |-> "no", got |-> None]
Dialogs == [open : BOOLEAN, app : Providers \cup {None}, typed : Providers \cup {None},
            busy : BOOLEAN, since : Stamps]
Shut == [open |-> FALSE, app |-> None, typed |-> None, busy |-> FALSE, since |-> 0]
Windows == [open : BOOLEAN, whole : BOOLEAN, app : Providers \cup {None}, at : Stamps,
            watch : SUBSET Stamps, stage : {"none", "asks", "writes", "done"},
            row : Stamps \cup {None}]
NoWindow == [open |-> FALSE, whole |-> FALSE, app |-> None, at |-> 0, watch |-> {},
             stage |-> "none", row |-> None]
Kinds == {"link", "unlink", "disconnect", "config", "token", "start", "leave"}
Steps == {"first", "second", "third", "fourth"}
\* slip: one of its statements has failed, and the handler went on.
Requests == [st : Steps \cup {"free", "ok", "failed"},
             kind : Kinds \cup {"none"}, app : Apps \cup {None}, of : Apps \cup {None},
             row : Stamps \cup {None}, at : Stamps, old : BOOLEAN, crossed : BOOLEAN,
             slip : BOOLEAN]
NoReq == [st |-> "free", kind |-> "none", app |-> None, of |-> None, row |-> None,
          at |-> 0, old |-> FALSE, crossed |-> FALSE, slip |-> FALSE]

TypeOK ==
  /\ page \in Cards /\ env \in BOOLEAN
  /\ cred \in [Providers -> Seq(Credential)]
  /\ \A p \in Providers : \A i, j \in DOMAIN cred[p] : cred[p][i].name = cred[p][j].name => i = j
  /\ server \in [Apps -> {"none", "linked", "loose"}]
  /\ cache \in [Queries -> Answers] /\ dialog \in Dialogs /\ timers \subseteq Stamps
  /\ window \in Windows /\ cookie \in Stamps \cup {None} /\ req \in [Reqs -> Requests]
  /\ acts \in Stamps /\ behind \subseteq Queries
  /\ doubled \subseteq Providers /\ said \in [Apps -> {"on", "off", "hollow", None}]

Act == acts < MaxActs /\ acts' = acts + 1

-----------------------------------------------------------------------------
(* What the tables say                                                     *)

Rows(p) == {cred[p][i] : i \in DOMAIN cred[p]}

\* GetCredentialByProvider: whichever row of the provider was updated last, the
\* one with its client credentials included.
Newest(p) == IF cred[p] = <<>> THEN None ELSE Head(cred[p]).id

\* DeleteCredential: the row with the id, if it is still there.
Without(c, id) ==
  LET hits == {i \in DOMAIN c : c[i].id = id}
      at == CHOOSE i \in hits : TRUE IN
  IF hits = {} THEN c ELSE [i \in 1..(Len(c) - 1) |-> c[IF i < at THEN i ELSE i + 1]]

\* MUTANT: a credential is added, not updated.
PutAgain(c, x) == <<x>> \o c

\* CreateCredential, UpdateCredential: a name the user has already is an error,
\* which the handlers ignore.
Put(c, x) ==
  LET rest == Without(c, x.id) IN
  IF \E i \in DOMAIN rest : rest[i].name = x.name THEN c ELSE <<x>> \o rest

\* UpdateCredential of a row that may be gone by now.
Rewrite(p, id, name, holds, of) ==
  IF \E x \in Rows(p) : x.id = id
  THEN LET old == CHOOSE x \in Rows(p) : x.id = id IN
       Put(cred[p], [id |-> id, name |-> IF name = None THEN old.name ELSE name,
                     holds |-> holds, of |-> of])
  ELSE cred[p]

\* handleToolOAuthProviders: any credential of the provider connects it, and a
\* configuration counts by its name.
Configured(a) == a \in Providers /\ (env \/ \E x \in Rows(a) : x.name = ConfigName)
HasCredential(a) == a \in Providers /\ cred[a] # <<>>
Linked(a) == server[a] = "linked"
Connected(a) == HasCredential(a) \/ Linked(a)

\* resolveOAuthProviderConfig, which looks into the row.
Resolves(p) == env \/ \E x \in Rows(p) : x.name = ConfigName /\ x.holds = "client"

-----------------------------------------------------------------------------
(* The two queries                                                         *)

Fetched(q) == IF q.out = "no" THEN [q EXCEPT !.out = "sent"] ELSE q
Refetched(q) == IF q.data = None THEN Fetched(q) ELSE [q EXCEPT !.out = "sent", !.got = None]

\* The queries `ks` are asked again. One whose first answer is still out is not,
\* and that answer may be behind.
Reask(ks) ==
  /\ cache' = [k \in Queries |-> IF k \in ks THEN Refetched(cache[k]) ELSE cache[k]]
  /\ behind' = (behind \ ks) \cup {k \in ks : cache[k].data = None /\ cache[k].out # "no"}

\* The page is not on its way to a provider.
Loaded == ~(window.open /\ window.whole)

\* What the handler of a query says, its reads taken together.
Snapshot(k) ==
  [a \in Apps |-> [configured |-> k = "providers" /\ Configured(a),
                   connected |-> Linked(a) \/ (k = "providers" /\ HasCredential(a))]]

\* The providers' handler reads the credentials before the servers.
ReadCredentials ==
  /\ cache["providers"].out = "sent"
  /\ cache' = [cache EXCEPT !["providers"].out = "half",
        !["providers"].got = [a \in Apps |-> [configured |-> Configured(a),
                                              connected |-> HasCredential(a)]]]
  /\ UNCHANGED <<page, env, tables, dialog, timers, behind, outside, req, acts>>

ReadServers(k) ==
  LET partly == cache[k].got
      both == k = "providers" IN
  /\ cache[k].out = IF both THEN "half" ELSE "sent"
  /\ cache' = [cache EXCEPT ![k].out = "read",
        ![k].got = [a \in Apps |-> [configured |-> both /\ partly[a].configured,
                                    connected |-> Linked(a) \/ (both /\ partly[a].connected)]]]
  /\ UNCHANGED <<page, env, tables, dialog, timers, behind, outside, req, acts>>

\* The handler ignores the errors of its reads, and answers 200 all the same: with
\* no credential, or without the servers it could not look for.
MisreadCredentials ==
  /\ Act /\ cache["providers"].out = "sent"
  /\ cache' = [cache EXCEPT !["providers"].out = "half",
        !["providers"].got = [a \in Apps |-> [configured |-> a \in Providers /\ env,
                                              connected |-> FALSE]]]
  /\ behind' = behind \cup {"providers"}
  /\ UNCHANGED <<page, env, tables, dialog, timers, outside, req>>

MisreadServers(blind) ==
  LET partly == cache["providers"].got IN
  /\ Act /\ blind # {} /\ cache["providers"].out = "half"
  /\ cache' = [cache EXCEPT !["providers"].out = "read",
        !["providers"].got = [a \in Apps |->
           [configured |-> partly[a].configured,
            connected |-> partly[a].connected \/ (a \notin blind /\ Linked(a))]]]
  /\ behind' = behind \cup {"providers"}
  /\ UNCHANGED <<page, env, tables, dialog, timers, outside, req>>

\* What a card shows: of a provider, what the providers' query says; of another
\* app, what the list of servers does.
QueryOf(a) == IF a \in Providers THEN "providers" ELSE "servers"
Says(q, a) == q.data # None /\ q.data[a].connected
ShownConnected(a) == Says(cache[QueryOf(a)], a)
ShownConfigured(a) == cache["providers"].data # None /\ cache["providers"].data[a].configured

\* The two faces of a chat's card have a dialog each: a new one knows nothing
\* of what was typed, nor that the one before waits for a popup.
Remounted(d) == [d EXCEPT !.typed = None, !.busy = FALSE, !.since = acts]

Arrive(k) ==
  LET new == [data |-> cache[k].got, out |-> "no", got |-> None] IN
  /\ cache[k].out = "read"
  /\ cache' = [cache EXCEPT ![k] = new]
  /\ dialog' = IF page \in Providers /\ k = "providers" /\ Says(new, page) # ShownConnected(page)
               THEN Remounted(dialog) ELSE dialog
  /\ UNCHANGED <<page, env, tables, timers, behind, outside, req, acts>>

FetchFails(k) ==
  /\ Act /\ cache[k].out # "no"
  /\ cache' = [cache EXCEPT ![k].out = "no", ![k].got = None]
  /\ behind' = behind \cup {k}
  /\ UNCHANGED <<page, env, tables, dialog, timers, outside, req>>

\* The tab is looked at again: its queries are stale at once, and asked again
\* unless they are being asked.
Refocus ==
  /\ Act /\ Loaded
  /\ cache' = [k \in Queries |-> Fetched(cache[k])]
  /\ behind' = {k \in behind : cache[k].out # "no"}
  /\ UNCHANGED <<page, env, tables, dialog, timers, outside, req>>

-----------------------------------------------------------------------------
(* What the user does                                                      *)

Hook(kind) == IF kind \in {"config", "token"} THEN {"config", "token"} ELSE {kind}

\* A hook, and a flag that is set while a request is out, only know of the last.
Send(q, kind, a, of) ==
  /\ req[q].st = "free" /\ \A p \in Reqs : p < q => req[p].st # "free"
  /\ req' = [p \in Reqs |->
       IF p = q THEN [NoReq EXCEPT !.st = "first", !.kind = kind, !.app = a, !.of = of,
                                   !.at = acts + 1]
       ELSE [req[p] EXCEPT !.old = @ \/ req[p].kind \in Hook(kind)]]

\* isPending, and variables
Waiting(kind, a) ==
  \E q \in Reqs : req[q].kind = kind /\ req[q].app = a /\ ~req[q].old

\* The dialog that is mounted now sent it.
Mine(at) == at > dialog.since

\* openOAuthPopup, and the two buttons of a chat's card.
OpenDialog(a) ==
  /\ Act /\ Loaded /\ ~dialog.open
  /\ page = a \/ (page = "settings" /\ ~ShownConnected(a))
  /\ dialog' = [dialog EXCEPT !.open = TRUE, !.app = a]
  /\ UNCHANGED <<page, env, tables, cache, timers, behind, outside, req>>

\* Nothing that was typed is forgotten.
CloseDialog ==
  /\ Act /\ Loaded /\ dialog.open
  /\ dialog' = [dialog EXCEPT !.open = FALSE]
  /\ UNCHANGED <<page, env, tables, cache, timers, behind, outside, req>>

\* The fields of the client's id and secret.
TypeClient ==
  /\ Act /\ Loaded /\ dialog.open /\ ~ShownConfigured(dialog.app) /\ dialog.typed # dialog.app
  /\ dialog' = [dialog EXCEPT !.typed = dialog.app]
  /\ UNCHANGED <<page, env, tables, cache, timers, behind, outside, req>>

\* handleStartOAuth: what was typed is saved first, the fields shown or not.
StartOAuth(q) ==
  /\ Act /\ Loaded /\ dialog.open /\ ~dialog.busy
  /\ ShownConfigured(dialog.app) \/ dialog.typed # None
  /\ Send(q, IF dialog.typed # None THEN "config" ELSE "start", dialog.app, dialog.typed)
  /\ dialog' = [dialog EXCEPT !.busy = TRUE]
  /\ UNCHANGED <<page, env, tables, cache, timers, behind, outside>>

\* handleSaveToken
SaveToken(q) ==
  /\ Act /\ Loaded /\ dialog.open
  /\ \A p \in Reqs : req[p].kind \in Hook("token") => req[p].old \/ ~Mine(req[p].at)
  /\ Send(q, "token", dialog.app, dialog.app)
  /\ UNCHANGED <<page, env, tables, client, outside>>

\* handleOneClickLink of a chat's card, and the settings' built-in apps.
Link(q, a) ==
  /\ Act /\ Loaded /\ ~dialog.open /\ ~ShownConnected(a) /\ ~Waiting("link", a)
  /\ (page = "settings" /\ a \in Builtin) \/ (page = a /\ a # Calendar)
  /\ Send(q, "link", a, None)
  /\ UNCHANGED <<page, env, tables, client, outside>>

\* The settings' Disconnect.
Unlink(q, a) ==
  /\ Act /\ Loaded /\ ~dialog.open /\ page = "settings"
  /\ ShownConnected(a) /\ ~Waiting("unlink", a)
  /\ Send(q, "unlink", a, None)
  /\ UNCHANGED <<page, env, tables, client, outside>>

\* handleDisconnectOAuth of the credentials dialog.
Disconnect(q, a) ==
  /\ Act /\ Loaded /\ page = "vault" /\ ShownConnected(a)
  /\ Send(q, "disconnect", a, None)
  /\ UNCHANGED <<page, env, tables, client, outside>>

\* handleConnectOAuth of the credentials dialog, handleConnect of a chat's card:
\* the page itself goes to the provider. A card of a provider that is not known
\* yet takes it for configured.
Connect(q, a) ==
  /\ Act /\ Loaded /\ ~dialog.open /\ ~ShownConnected(a) /\ ~Waiting("leave", a)
  /\ \/ page = "vault" /\ ShownConfigured(a)
     \/ page = a /\ a # Calendar /\ (ShownConfigured(a) \/ cache["providers"].data = None)
  /\ Send(q, "leave", a, None)
  /\ UNCHANGED <<page, env, tables, client, outside>>

-----------------------------------------------------------------------------
(* The handlers, a statement at a time                                     *)

Running(p) == req[p].st \in Steps \ {"first"}

\* What an answer that is about an app says of it. "hollow": the app is said to be
\* disconnected after a statement that failed.
Word(kind, slip) ==
  CASE kind \in {"link", "token"} /\ ~slip -> "on"
    [] kind \in {"unlink", "disconnect"} -> IF slip THEN "hollow" ELSE "off"
    [] OTHER -> None

\* Request q's next statement has run, after which it is at `st`. Two requests
\* about an app that run at once have crossed, and neither's answer says what is
\* so.
Ran(q, st, row, slip) ==
  LET a == req[q].app
      others == {p \in Reqs \ {q} : Running(p) /\ req[p].app = a}
      crossed == req[q].crossed \/ others # {} \/ (window.stage = "writes" /\ window.app = a) IN
  /\ req' = [p \in Reqs |->
       IF p = q THEN [req[q] EXCEPT !.st = st, !.row = row, !.crossed = crossed, !.slip = slip]
       ELSE [req[p] EXCEPT !.crossed = @ \/ p \in others]]
  /\ said' = [said EXCEPT ![a] =
       IF st = "ok" /\ ~crossed THEN Word(req[q].kind, slip) ELSE None]
  /\ UNCHANGED <<page, env, client, outside>>
Statement(q, st, row) == Ran(q, st, row, req[q].slip) /\ UNCHANGED acts

Store(p, c) ==
  /\ cred' = [cred EXCEPT ![p] = c]
  /\ doubled' = IF Len(c) > 1 THEN doubled \cup {p} ELSE doubled

\* UnlinkApp: the row stays, and keeps its name.
UnlinkApp(q) ==
  LET a == req[q].app
      last == req[q].kind = "disconnect" IN
  /\ \/ last /\ req[q].st = "third"
     \/ req[q].kind \in {"link", "unlink"} /\ req[q].st = "first"
  /\ server' = [server EXCEPT ![a] = IF @ = "linked" THEN "loose" ELSE @]
  /\ Statement(q, IF last THEN "ok" ELSE "second", None)
  /\ UNCHANGED <<cred, doubled>>

\* GetCredentialByProvider of unlink, disconnect and config.
ReadNewest(q) ==
  LET a == req[q].app IN
  /\ \/ req[q].kind = "unlink" /\ req[q].st = "second"
     \/ req[q].kind \in {"disconnect", "token"} /\ req[q].st = "first"
  /\ Statement(q, IF req[q].kind = "unlink" THEN "third" ELSE "second",
               IF a \in Providers THEN Newest(a) ELSE None)
  /\ UNCHANGED <<cred, server, doubled>>

\* MUTANT: unlinking an app leaves its credentials.
DeleteKeptByUnlink(q) ==
  LET a == req[q].app
      unlink == req[q].kind = "unlink" IN
  /\ \/ unlink /\ req[q].st = "third"
     \/ req[q].kind = "disconnect" /\ req[q].st = "second"
  /\ cred' = IF a \in Providers /\ ~unlink
             THEN [cred EXCEPT ![a] = Without(@, req[q].row)] ELSE cred
  /\ Statement(q, IF unlink THEN "ok" ELSE "third", None)
  /\ UNCHANGED <<server, doubled>>

\* DeleteCredential of the one row that was read.
DeleteCredential(q) ==
  LET a == req[q].app
      unlink == req[q].kind = "unlink" IN
  /\ \/ unlink /\ req[q].st = "third"
     \/ req[q].kind = "disconnect" /\ req[q].st = "second"
  /\ cred' = IF a \in Providers THEN [cred EXCEPT ![a] = Without(@, req[q].row)] ELSE cred
  /\ Statement(q, IF unlink THEN "ok" ELSE "third", None)
  /\ UNCHANGED <<server, doubled>>

\* handleLinkCatalogApp's Create: the name is the app's, so a row that was
\* unlinked is in the way.
CreateServer(q) ==
  LET a == req[q].app
      new == server[a] = "none" IN
  /\ req[q].kind = "link" /\ req[q].st = "second"
  /\ server' = [server EXCEPT ![a] = IF new THEN "linked" ELSE @]
  /\ Statement(q, IF new THEN "ok" ELSE "third", None)
  /\ UNCHANGED <<cred, doubled>>

\* ByApp after that, which looks for a row that is linked ...
FindServer(q) ==
  /\ req[q].kind = "link" /\ req[q].st = "third"
  /\ Statement(q, IF Linked(req[q].app) THEN "fourth" ELSE "failed", None)
  /\ UNCHANGED <<cred, server, doubled>>

\* ... and its Update, which links the row again if it no longer is.
UpdateServer(q) ==
  /\ req[q].kind = "link" /\ req[q].st = "fourth"
  /\ server' = [server EXCEPT ![req[q].app] = "linked"]
  /\ Statement(q, "ok", None)
  /\ UNCHANGED <<cred, doubled>>

\* handleConfigureToolOAuth with a token: the data of whatever row was read.
WriteToken(q) ==
  LET p == req[q].app
      id == req[q].row IN
  /\ req[q].kind = "token" /\ req[q].st = "second"
  /\ Store(p, IF id = None THEN Put(cred[p], [id |-> req[q].at, name |-> "token",
                                              holds |-> "token", of |-> p])
              ELSE Rewrite(p, id, None, "token", p))
  /\ Statement(q, "ok", None)
  /\ UNCHANGED server

\* handleConfigureToolOAuth with a client's id and secret.
ReadConfig(q) ==
  LET found == {x \in Rows(req[q].app) : x.name = ConfigName} IN
  /\ req[q].kind = "config" /\ req[q].st = "first"
  /\ Statement(q, "second", IF found = {} THEN None ELSE (CHOOSE x \in found : TRUE).id)
  /\ UNCHANGED <<cred, server, doubled>>

WriteConfig(q) ==
  LET p == req[q].app
      id == req[q].row IN
  /\ req[q].kind = "config" /\ req[q].st = "second"
  /\ Store(p, IF id = None THEN Put(cred[p], [id |-> req[q].at, name |-> ConfigName,
                                              holds |-> "client", of |-> req[q].of])
              ELSE Rewrite(p, id, None, "client", req[q].of))
  /\ Statement(q, "ok", None)
  /\ UNCHANGED server

\* handleToolOAuthStart
StartAnswers(q) ==
  /\ req[q].kind \in {"start", "leave"} /\ req[q].st = "first"
  /\ req' = [req EXCEPT ![q].st = IF Resolves(req[q].app) THEN "ok" ELSE "failed"]
  /\ UNCHANGED <<page, env, tables, client, outside, acts>>

ServerStep(q) ==
  \/ UnlinkApp(q) \/ ReadNewest(q) \/ DeleteCredential(q) \/ CreateServer(q) \/ FindServer(q)
  \/ UpdateServer(q) \/ WriteToken(q) \/ ReadConfig(q) \/ WriteConfig(q) \/ StartAnswers(q)

\* A statement fails. No handler looks at the error of one that changes a table,
\* and a look-up that fails has found nothing: all go on, to the same answer, but
\* for the look-up of a link.
Onward(kind, st) ==
  CASE st = "first" -> "second"
    [] st = "second" -> IF kind \in {"config", "token"} THEN "ok" ELSE "third"
    [] st = "third" -> IF kind = "link" THEN "failed" ELSE "ok"
    [] OTHER -> "ok"
StatementFails(q) ==
  /\ Act /\ req[q].st \in Steps /\ req[q].kind \notin {"start", "leave"}
  /\ Ran(q, Onward(req[q].kind, req[q].st), None, TRUE)
  /\ UNCHANGED <<cred, server, doubled>>

\* The request, or its answer, is lost; or the connection is, and the handler's
\* context ends with the statement it has reached. Or a start is refused.
Lose(q) ==
  /\ Act /\ req[q].st \in Steps \cup {"ok"}
  /\ req' = [req EXCEPT ![q].st = "failed"]
  /\ behind' = IF req[q].st = "first" THEN behind ELSE Queries
  /\ UNCHANGED <<page, env, tables, cache, dialog, timers, outside>>

-----------------------------------------------------------------------------
(* Answers                                                                 *)

Done(q) == req' = [req EXCEPT ![q] = NoReq]
Answered(q, kinds) == req[q].st = "ok" /\ req[q].kind \in kinds

\* MUTANT: unlinking an app only asks for the servers again.
ReaskedByLink(kind) ==
  CASE kind = "link" -> Queries [] kind = "unlink" -> {"servers"} [] OTHER -> {"providers"}

\* onSuccess of useLinkCatalogApp and of useUnlinkCatalogApp.
Reasked(kind) == IF kind \in {"link", "unlink"} THEN Queries ELSE {"providers"}

OnLinked(q) ==
  /\ Answered(q, {"link", "unlink"})
  /\ Reask(Reasked(req[q].kind)) /\ Done(q)
  /\ UNCHANGED <<page, env, tables, dialog, timers, outside, acts>>

\* onSuccess of useDisconnectToolOAuth, and of useConfigureToolOAuth with a
\* token, which closes the dialog, whatever it is open for.
OnTokenOrDisconnect(q) ==
  /\ Answered(q, {"token", "disconnect"})
  /\ Reask(Reasked(req[q].kind)) /\ Done(q)
  /\ dialog' = IF req[q].kind = "token" THEN [dialog EXCEPT !.open = FALSE] ELSE dialog
  /\ UNCHANGED <<page, env, tables, timers, outside, acts>>

\* handleStartOAuth goes on.
OnConfigured(q) ==
  /\ Answered(q, {"config"})
  /\ Reask(Reasked("config"))
  /\ req' = [req EXCEPT ![q].st = "first", ![q].kind = "start",
                     ![q].crossed = FALSE, ![q].slip = FALSE]
  /\ UNCHANGED <<page, env, tables, dialog, timers, outside, acts>>

\* MUTANT: without a popup, nothing is waited for.
Intervals(at, popup) == IF popup THEN timers \cup {at} ELSE timers

\* launchOAuthPopup looks at its popup every second, if it got one or not.
IntervalsOf(at, popup) == timers \cup {at}

\* launchOAuthPopup: all popups are one window by name; a new one may be blocked.
OnStarted(q) ==
  LET at == req[q].at IN
  /\ Answered(q, {"start"}) /\ Done(q)
  /\ cookie' = at
  /\ \E popup \in {window.open, TRUE} :
       /\ timers' = IntervalsOf(at, popup)
       /\ window' = IF popup
            THEN [open |-> TRUE, whole |-> FALSE, app |-> req[q].app, at |-> at, stage |-> "asks",
                  watch |-> {at} \cup IF window.open THEN window.watch ELSE {}, row |-> None]
            ELSE window
  /\ UNCHANGED <<page, env, tables, cache, dialog, behind, acts>>

\* window.location.href: the other requests are cut off, and their contexts end
\* with the statement they have reached; a popup that is open is left to itself.
OnLeave(q) ==
  /\ Answered(q, {"leave"})
  /\ cookie' = req[q].at
  /\ window' = [open |-> TRUE, whole |-> TRUE, app |-> req[q].app, at |-> req[q].at,
                stage |-> "asks", watch |-> {}, row |-> None]
  /\ req' = [p \in Reqs |-> NoReq]
  /\ UNCHANGED <<page, env, tables, client, acts>>

\* A toast; setAuthorizing and setConnecting. A link that failed may have
\* unlinked its app, and nothing is asked for again.
OnFailed(q) ==
  /\ req[q].st = "failed"
  /\ req' = [p \in Reqs |-> IF p = q THEN NoReq
       ELSE [req[p] EXCEPT !.old = @ \/ (req[q].kind = "leave" /\ req[p].kind = "leave")]]
  /\ dialog' = IF req[q].kind \in {"config", "start"} /\ Mine(req[q].at)
               THEN [dialog EXCEPT !.busy = FALSE] ELSE dialog
  /\ behind' = IF req[q].kind = "link" THEN Queries ELSE behind
  /\ UNCHANGED <<page, env, tables, cache, timers, outside, acts>>

AnswerStep(q) ==
  \/ OnLinked(q) \/ OnTokenOrDisconnect(q) \/ OnConfigured(q) \/ OnStarted(q) \/ OnLeave(q)
  \/ OnFailed(q)

\* The interval of a popup that is closed, or never was: the dialog is closed,
\* whatever it is open for by now.
TimerFires(at) ==
  /\ Loaded /\ at \in timers /\ ~(window.open /\ at \in window.watch)
  /\ timers' = timers \ {at}
  /\ dialog' = [dialog EXCEPT !.open = FALSE, !.busy = @ /\ ~Mine(at)]
  /\ UNCHANGED <<page, env, tables, cache, behind, outside, req, acts>>

-----------------------------------------------------------------------------
(* The window at the provider                                              *)

\* handleToolOAuthCallback up to the row it will write: the user may deny it,
\* the cookie may be another start's, the client may be unknown by now. A look-up
\* that fails has found no row.
CallbackReads ==
  LET p == window.app IN
  /\ window.open /\ window.stage = "asks"
  /\ \E goes \in {FALSE, cookie = window.at /\ Resolves(p)}, row \in {Newest(p), None} :
       /\ window' = [window EXCEPT !.stage = IF goes THEN "writes" ELSE "done",
                                   !.row = IF goes THEN row ELSE None]
       /\ cookie' = IF goes THEN cookie ELSE None
       /\ req' = [q \in Reqs |->
            [req[q] EXCEPT !.crossed = @ \/ (goes /\ Running(q) /\ req[q].app = p)]]
  /\ UNCHANGED <<page, env, tables, client, acts>>

\* ... and the row, whose name becomes the provider's, or not, if that fails.
\* Nothing tells the page.
CallbackWrites ==
  LET p == window.app
      id == window.row IN
  /\ window.open /\ window.stage = "writes"
  /\ \/ Store(p, IF id = None THEN Put(cred[p], [id |-> window.at, name |-> "token",
                                                 holds |-> "token", of |-> p])
                 ELSE Rewrite(p, id, "token", "token", p))
     \/ UNCHANGED <<cred, doubled>>
  /\ said' = [said EXCEPT ![p] = None]
  /\ behind' = IF window.whole THEN behind ELSE behind \cup {"providers"}
  /\ window' = [window EXCEPT !.stage = "done", !.row = None] /\ cookie' = None
  /\ UNCHANGED <<page, env, server, cache, dialog, timers, req, acts>>

\* The user closes the popup.
CloseWindow ==
  /\ Act /\ window.open /\ ~window.whole /\ window.stage # "writes"
  /\ window' = NoWindow
  /\ UNCHANGED <<page, env, tables, client, cookie, req>>

\* The page is loaded again, after the provider sent it back or the user did.
Return ==
  /\ window.open /\ window.whole /\ window.stage # "writes"
  /\ window' = NoWindow
  /\ cache' = [k \in Queries |-> Fetched(Empty)] /\ behind' = {}
  /\ dialog' = [Shut EXCEPT !.since = acts] /\ timers' = {}
  /\ UNCHANGED <<page, env, tables, cookie, req, acts>>

-----------------------------------------------------------------------------
\* The page was opened, and its lists have arrived.
Init ==
  /\ page \in Cards /\ env \in BOOLEAN
  /\ cred = [p \in Providers |-> <<>>]
  /\ server = [a \in Apps |-> "none"]
  /\ cache = [k \in Queries |-> [Empty EXCEPT !.data = Snapshot(k)]]
  /\ dialog = Shut /\ timers = {} /\ window = NoWindow /\ cookie = None
  /\ req = [q \in Reqs |-> NoReq]
  /\ acts = 0 /\ behind = {} /\ doubled = {} /\ said = [a \in Apps |-> None]

UserStep ==
  \/ Refocus \/ CloseDialog \/ TypeClient \/ CloseWindow
  \/ \E a \in Providers : OpenDialog(a)
  \/ \E q \in Reqs :
       \/ StartOAuth(q) \/ SaveToken(q)
       \/ \E a \in Apps : Link(q, a) \/ Unlink(q, a)
       \/ \E a \in Providers : Disconnect(q, a) \/ Connect(q, a)

FetchStep ==
  \/ ReadCredentials \/ MisreadCredentials \/ \E blind \in SUBSET Providers : MisreadServers(blind)
  \/ \E k \in Queries : ReadServers(k) \/ Arrive(k) \/ FetchFails(k)

Next ==
  \/ UserStep \/ FetchStep \/ CallbackReads \/ CallbackWrites \/ Return
  \/ \E q \in Reqs : ServerStep(q) \/ StatementFails(q) \/ AnswerStep(q) \/ Lose(q)
  \/ \E at \in Stamps : TimerFires(at)

\* The server goes on, answers arrive, an interval fires.
Fairness ==
  /\ WF_vars(\E q \in Reqs : ServerStep(q)) /\ WF_vars(\E q \in Reqs : AnswerStep(q))
  /\ WF_vars(\E at \in Stamps : TimerFires(at))

Spec == Init /\ [][Next]_vars /\ Fairness

-----------------------------------------------------------------------------
(* Properties                                                              *)

\* What a page shows of every app when nothing is on its way is what the tables
\* say, unless it could not be told, or its last answer was read wrong: every
\* mutation asks for what it changes, also when one of its statements fails, and
\* a fetch that read half of it is not the last.
QuietCardIsCurrent ==
  (Loaded /\ \A q \in Reqs : req[q].st = "free") =>
    \A a \in Apps :
      LET q == cache[QueryOf(a)] IN
      (q.out = "no" /\ q.data # None /\ QueryOf(a) \notin behind) =>
        q.data[a] = Snapshot(QueryOf(a))[a]

\* An app that was disconnected is, through whichever table it was connected,
\* unless it had two credentials; one that was connected is. Requests and
\* callbacks about it that ran at the same time aside, and those one of whose
\* statements failed (OkMeansDisconnected).
SaidIsSo ==
  \A a \in Apps :
    /\ said[a] = "on" => Connected(a)
    /\ (said[a] = "off" /\ a \notin doubled) => ~Connected(a)

\* "Opening Authorization Popup" does not stay: the popup is there, or the
\* button comes back.
AuthorizingEnds == (dialog.busy /\ ~window.open) ~> (~dialog.busy \/ window.open)

\* "expected github to be disconnected after unlink" (tool_oauth_test.go): an app is
\* disconnected when the answer says ok. Not so: the handlers say ok whatever
\* becomes of their statements.
OkMeansDisconnected ==
  \A a \in Apps : (said[a] \in {"off", "hollow"} /\ a \notin doubled) => ~Connected(a)

\* Not so (TLC refutes them): linking an app when nothing else is out succeeds;
\* an app that has only its client credentials is not connected; an app that
\* was disconnected is not connected; the client credentials of a provider are
\* those the user typed for it.
LinkAloneSucceeds ==
  \A q \in Reqs : (req[q].kind = "link" /\ req[q].st = "third") => req[q].crossed
ConfiguredIsNotConnected ==
  \A p \in Providers : (\A x \in Rows(p) : x.holds = "client") => ~HasCredential(p)
DisconnectedIsNotConnected == \A a \in Apps : said[a] = "off" => ~Connected(a)
ConfigsAreTheirOwn == \A p \in Providers : \A x \in Rows(p) : x.of = p

=============================================================================
