# Herbie / Golem: a TLA+ verification of the assistant

The repository is a self-hosted chat assistant: a Go backend (`src/backend`), a
React client (`src/frontend`), PostgreSQL, an object store and a vector store.
Users chat with a model that may call tools, some of them only after an approval;
*bots* do the same in the background, on demand or on a cron schedule; *workflows*
run graphs of nodes; *documents* are chunked and embedded for retrieval; *apps*
are connected with OAuth.

This directory models the parts whose correctness depends on interleavings,
failures, stale copies and restarts, on the server and in the browser. It is read
next to the code: `PROJECT.json` maps every definition to the lines it stands for.

## 1. The system

### 1.1 Components

| component | state it keeps | operations | interacts with |
|---|---|---|---|
| **Bot run queue** (`httpapi/botrunner.go`, `bot_runs.go`, `storage/bot_runs.go`, `pending_calls.go`) | table `bot_runs`, table `pending_tool_calls`; in memory: slot channel, cancel and resume registries, one goroutine per run | claim, execute, park, resume, settle; create, cancel, approve; recover | agent, chat persistence, routine scheduler, bots and conversations (deletion) |
| **Process lifecycle** (`cmd/server/main.go`) | parent context | start, SIGTERM, shutdown with a deadline | HTTP server, runner |
| **Routine scheduler** (`botroutines.go`, `storage/bot_routines.go`) | table `bot_routines` with `last_run_at` | tick, list, due check, fire, stamp; CRUD, run now | queue (enqueues, shares its wake channel), conversations |
| **Chat turns and approvals** (`chat.go`, `approvals.go`, `messages.go`, `sse.go`) | messages, pending calls, usage rows | send, stream, pause on approval, resume, persist, compact, regenerate | agent, queue (same `pending_tool_calls`) |
| **Browser sessions** (`auth/service.go`, `auth/refresh.go`, `storage/refresh_tokens.go`; `lib/api.ts`, `stores/auth.ts`, `App.tsx`) | refresh tokens in families, a cookie; an access token and a shared promise per tab | sign in, rotate, detect reuse, revoke, sign out; refresh once and retry after a 401 | tabs sharing one cookie; every page |
| **Conversation pages** (`ChatPage.tsx`, `ProjectWorkspacePage.tsx`, `useChat.ts`, `useConversations.ts`, `sse.ts`) | thread, pending calls, status, the active stream; cached details | send, edit, regenerate, stop, decide, delete, switch, new chat | chat turns, over a stream |
| **Workflow editor** (`WorkflowCanvasPage.tsx`, `WorkflowsPage.tsx`, inspector, palette, settings) | canvas, unsaved mark, drawer, dialog copy, results; cached rows | draw, save, toggle, settings, test run; create, clone, delete | workflow handlers |
| **Bot pages** (`BotPage.tsx`, `RunCard.tsx`, `TaskComposer.tsx`, `RoutineFormDialog.tsx`, `useBots.ts`) | tab, forms; polled lists | enqueue, cancel, decide; routines | queue and scheduler |
| **List pages and settings** (`BotsPage`, `ProjectsPage`, `PreferencesPage`, `SettingsDialog`, `MCPServersDialog`, `CredentialsDialog`, `DocumentsPage`, `AppSidebar`) | a cached list, a form, a delete dialog | create, change, delete, toggle, upload; offline and back | one table each |
| **Tool pages** (`ToolsPage.tsx`, `toolForm.ts`, `ToolEditorDialog.tsx`; `httpapi/tools.go`, `chat/toolconfig.go`) | tool rows with masked secrets, the editor's copy | edit, validate, save, duplicate, install, toggle, delete | agent (tools) |
| **App connections** (`OAuthPopupDialog.tsx`, `AppConnectCard.tsx`, catalog and credential hooks; `tool_oauth.go`, `mcp.go`) | tables of credentials and of MCP servers, OAuth state cookie; dialog, popup, intervals | link, unlink, disconnect, token, client credentials, authorize, callback | provider |
| **Documents and retrieval** (`documents.go`, `rag/*`, `weaviate/client.go`, `storage/objectstore.go`) | document rows, objects, vectors | upload, extract, chunk, embed, index, delete, search | three stores without a common transaction |
| **Workflow engine** (`workflow/*.go`) | graph, node outputs, run rows | run, branch, join, settle | HTTP client, model, sandboxed evaluation |
| **Agent and tools** (`chat/agent.go`, `toolexec.go`, `compact.go`) | the turn's messages | model and tool loop, deferral of gated calls | model provider, tool back ends |
| **OAuth login, MCP transport, credentials at rest, shares, profiles, usage, audit, admin, web search, presentation** | one table each, or none | single statements, reports, I/O, rendering | all |

How they interact. The browser talks to the server by requests whose answers may be
refused, lost or late, and by streams of frames; it keeps the server's rows in
react-query caches that are told by invalidation or polling that they are stale.
On the server the handlers, the claim loop, the scheduler and the goroutines of runs
share tables statement by statement: almost nothing is a transaction.

### 1.2 What is hard here, and what makes each part correct

* **Queue.** The claim loop, the workers, three kinds of requests, deletion and
  shutdown interleave on two tables and three in-memory registries. Slots must be
  given back once; a decision must wake its run whichever of "flip, notify" and
  "register, look" comes first; a dead process must leave only rows the next boot
  picks up.
* **Routines.** `last_run_at` is the only guard against firing an occurrence twice,
  it is written after the run is queued, from a list read before. An occurrence
  must be fired or deliberately skipped, once.
* **Chat turns.** A call must be decided once and acted on at most once although
  no lock spans the reading of the pending calls, the flips and the resume; every
  answer must belong to its call although the provider's ids repeat.
* **Sessions.** A refresh token is used once; requests that meet an expired access
  token together must share one refresh, or the second of them is taken for reuse and
  signs the user out; nobody may wait for a promise that is gone.
* **Conversation pages.** Frames, aborts and refusals of an old stream arrive after
  the page went on to something else; every end of a stream must give the composer
  back; a decision must reach the agent as it was made.
* **Editors and lists.** A refetch replaces what the user sees, an answer may be of
  an earlier state, an invalidation may meet a fetch that has read before the
  change, and a form may be submitted while its save is out. A page on which nothing
  is out must show what the server has.
* **Bot pages.** The approval panel shows a cached question while the run may
  already ask another one, and polling stops when the cache says so.
* **Tools.** A PATCH reads, merges and writes a whole row; a masked secret travels
  to the form and back; the rules of validation are written twice.
* **Apps.** Connected means a row in either of two tables, changed by handlers of
  several statements whose errors are dropped, by an OAuth callback in another window,
  and shown from two queries.

The full list of hazards, each at its line and with the properties that cover it,
is in `PROJECT.json`.

## 2. Modules

| module | models |
|---|---|
| `BotRunQueue`, `MCBotRunQueue`, `ServerProofs` | queue, registries, requests, process; TLC instances; theorems |
| `Routines`, `MCRoutines`, `BotProofs` | the routine scheduler, run-now and the routine requests of one bot |
| `ApprovalLedger` | what approvals promise: a call is asked for, decided, acted on, in this order and once |
| `ChatTurns`, `MCChatTurns`, `ChatTurnsProofs` | the turns of a plain conversation over pauses, edits and deletions, and what is stored of them; implements `ApprovalLedger` |
| `Sessions`, `MCSessions`, `ServerProofs` | token rotation against tabs, retries, expiry, sign-outs and lost answers |
| `ChatClient`, `MCChatClient`, `ChatClientProofs` | the two pages that hold a conversation, their streams and their caches |
| `WorkflowEditor`, `MCWorkflowEditor`, `WorkflowEditorProofs` | list and canvas of workflows, with saves, test runs and reloads |
| `BotPages`, `MCBotPages`, `BotProofs` | a bot's page over its polled runs and routines |
| `ListPages`, `MCListPages`, `ListPagesProofs` | nine pages and dialogs over a cached list: one machine, parameterised by what their controls are guarded by |
| `ToolPages`, `MCToolPages`, `ToolPagesProofs` | the tool editor, its validation, and the handlers that merge |
| `AppConnections`, `MCAppConnections`, `AppConnectionsProofs` | cards, OAuth dialog, popup, callback, and the handlers statement by statement |

Server and client meet at their interface. `ChatClient` has the chat handlers as
one accepted or refused turn and `ChatTurns` has what happens inside them;
`BotPages` has the queue as the states a row goes through and `BotRunQueue` and
`Routines` have how; `Sessions`, `ToolPages` and `AppConnections` have both sides in
one module, since what is hard there lies between them.

### 2.1 `BotRunQueue` and the code

State. `status` and `convOf` are the rows of `bot_runs`, in `created_at` order;
`pending` is the set of calls of a conversation still `pending` in
`pending_tool_calls` and `asks` makes their ids fresh as the agent's are; `site`
tells whether the conversation or its bot was deleted. `claiming`, `slots` are
the claim loop's, `worker` says which statement of `execute` a goroutine is
about to do, `pauses` is its local counter, `ctxDone` whether a user's cancel
ended its context. `cancels` and `resumes` are the maps of `botRunner`, `woken`
the resume channels that are closed. `request` is how far each HTTP request in
flight is. `lost` and `forsaken` are history variables no guard reads: they
name the two exceptions the properties have to make (section 4).

Actions. One per statement of the code that reads or writes shared state:

| code | actions |
|---|---|
| `StartBotRunner`, `RecoverRunning` | `StartRunner` |
| SIGTERM; end of the process and the next boot | `Stop`, `Restart` |
| `loop`, `ClaimNext` | `TakeSlot`, `Claim`, `ClaimNothing`, `ClaimLost` |
| `execute`: before the agent | `ClearPending`, `SetupFails`, `SetupDone` |
| `execute`: the agent returned | `AgentSucceeds`, `AgentFails`, `AgentPausesTooOften`, `AgentPauses` |
| `execute`: the pause | `SetWaiting`, `Register`, `CheckFails`, `CheckDecided`, `CheckUndecided`, `Wakes`, `ParkEnds` |
| `execute`: the defers and the goroutine's release | `Exit` |
| `handleCreateBotTask` | `CreateTask`, `CreateCheck`, `CreateInsert` |
| `handleCancelBotRun`, `CancelBotRun` | `CancelRun`, `CancelQueued`, `CancelLive` |
| `handleBotRunApprovals`, `NotifyBotRunResume` | `ApproveRun`, `ApproveRead`, `ApproveFlip`, `ApproveBounces`, `Notify` |
| `handleDeleteConversation`, `handleDeleteBot` | `DeleteConversation`, `DeleteBot` |

Abstractions. Messages, tools, tokens, the activity journal and usage totals are
left out: no status depends on them. The agent's answer is a free choice of
success, failure, or 1..`MaxCalls` calls to approve. A request that is refused, or
fails before it wrote anything, changes nothing and is not an action. A database
call may fail `MaxFaults` times; where an error is only logged the failing call
is an alternative of the same action. The order of two inserts' commits is
taken to be that of their `created_at`, and `SKIP LOCKED` never skips because one
process has one claim loop. A routine's enqueue (`fireRoutine`) has the steps of
`CreateTask` as far as this module can see, so it is one more request here.

### 2.2 `Routines` and the code

State. `stored` and `row` are the rows of `bot_routines` of one bot in
`created_at` order (`last` is `last_run_at`, or `created_at` before the first
firing), `convs` the bot's conversations, `undecided` those with undecided calls,
`runs` the number of live `bot_runs` rows per conversation and `trigger_source`,
`astray` that of the goroutines that go on under a row a late cancel has finished,
`revived` that of the rows such a goroutine made live again when it parked.
`listed` is the part of `fireDueRoutines`' slice that is still to be walked, with
the rows as they were *read*; `fire` holds the locals of one `fireRoutine` per
actor (the scheduler, or a handler in `handleRunRoutineNow`, which runs the same
sequence of calls), `edit` those of a handler that writes a row. `clock` is the
time. `fired`, `again` and `unstamped` are history variables no guard reads.

| code | actions |
|---|---|
| `ListEnabled`; the loop of `fireDueRoutines` | `List`; `Consider` |
| `routineConversation` | `Resolve`, `Open` |
| the guards of `fireRoutine` and `handleRunRoutineNow` | `CheckPending`, `CheckActive` |
| `BotRuns.Create`; `time.Now()`; `SetLastRun` | `CreateRun`; `ReadClock`; `Stamp` |
| `handleRunRoutineNow` up to there | `RunNow` |
| `handleCreateRoutine`, `Create` | `CreateRoutine`, `InsertRoutine` |
| `handleUpdateRoutine`, `Update` | `UpdateRoutine`, `WriteRoutine` |
| `handleDeleteRoutine` | `DeleteRoutine` |
| the queue, as a routine sees it | `RunAsks`, `CallsDecided`, `RunEnds`, `RevivedEnds` |
| `handleCancelBotRun`'s shortcut on a row claimed meanwhile; what its goroutine does | `CancelledLate`; `AstrayEnds`, `Revives` |
| the clock; the process | `Tick`; `Restart` |

Abstractions. A cron schedule with its timezone is the set of instants it names
(`NextOccurrence` is `sched.Next`), the empty set for one that never occurs, or
`Unparsable`. Wake-ups of the loop are left out: a walk may start at any time. A
stamp is two steps because the time is read before the statement runs. A failing
call is `GivesUp`, which also covers a client that hangs up. `BotRuns.Create` may also
succeed and report an error. Names and prompts, the
bot's archived flag (the requests look at it, the scheduler does not) and the
deletion of bots and conversations are left out. The order of two clock readings
is that of the database's clock, which is taken to be the process's.

### 2.3 `ChatTurns` and the code

State. `rows` is the table `messages` of one conversation; a row's position `at`
is its place in the order of `created_at`, `source` the row its message was stored
as for the first time (a history field: nothing but `NoMessageTwice` reads it).
`pending` holds the ids in `pending_tool_calls` with status `pending`. `turn` has,
per request in flight, the statement its handler is about to run and the locals
it will use there: the row an edit keeps, the calls that were decided, the history
that was read, what the agent returned, and `idMap` and `unanswered` of
`persistRunMessages`. `resumed`, `again`, `cut` and `unstored` are history
variables no guard reads.

`Ledger` is `ApprovalLedger` seen through this state: `asked` are the pending calls
the conversation stored itself, `granted` the calls whose decision a handler carries
between its flip and the end of its resume (`Granted`), `acted` those the agent was
resumed on. `KeepsLedger` says that every step of the handlers is one of the ledger's
(a pause asks, a flip decides one call, a resume or a hang-up ends the decisions it
holds) or none.

| code | actions |
|---|---|
| `handleSendMessage`, `blockedByPendingApproval` | `Send`, `AddPrompt` |
| `handleEditMessage` | `Edit`, `EditContent`, `Truncate` |
| `handleRegenerate` | `Regenerate`, `FindPrompt`, `Truncate` |
| `handleDeleteMessage` | `DeleteMessage` |
| `runTurn`, `settleRun` | `Run` |
| `handleApprovals` | `Approve`, `Flip`, `Reload`, `Resume` |
| `persistRunMessages`, one row each | `Store`, `StoreFails` |
| `pauseRun`, `parkPending` | `Park` |
| a client that hangs up, the end of the process, a failing call that ends a request | `Hangup` |

Abstractions. A call's id is the pair of the row its message was stored as and its
place in the message: `persistRunMessages` draws a random one there, and a draw is
taken never to repeat. The provider's own id has 0 for the row, since it starts
again in every answer. What the agent (golem) returns is external and a free choice
of `Continuations`: nothing, an answer, or calls to approve, each with or without
a finished tool exchange before; nothing of it can be stored before the agent
returns. A deferred resume answers those decided calls its history leaves
unanswered and fails without any, which is golem's contract as the code's comments
give it. The payload of a message is what `mustJSON` writes (`Encoded`) or what
the `jsonb` column prints (`Printed`); the two differ in every message, by the space
after each colon and comma. Compaction keeps some end of the history. The lookup
and the delete of `DeleteMessage` are one step: what a delete takes that comes
later than its lookup is what the deletion of the oldest of these rows takes.
Contents, images, streaming, titles, usage, cost and sources are left out.

### 2.4 `Sessions` and the code

State. `auth` and `boot` are the zustand store and App's spinner per tab,
`refreshing` the module variable of `api.ts`, `cookie` the browser's, `token` the
table `refresh_tokens` with the login each row descends from. `conn` are the
`/api/auth/refresh` requests with the statement their handler has reached, `call`
the other requests of a tab.

| code | actions |
|---|---|
| `handleRefresh`, `Service.Refresh`, `Rotate` (read, guarded update, insert and commit) | `RefreshGet`, `RotateUpdate`, `RotateCommit`; `RefreshFails` with the rollback |
| `handleLogin`, the exchange of an OAuth code; `handleLogout`; the middleware | `ServeSignIn`; `ServeLogout`; `ServePage` |
| `tryRefresh` and how its promise settles | `TryRefresh`, `Settle`, `RefreshAnswered`, `RefreshLost`, `RefreshOrphaned` |
| `apiFetch`, `streamPOST`, raw fetches, `uploadWithProgress` | `SendPage`, `OnDenied`, `OnRefused` |
| sign-in form, callback page, logouts | `SubmitAuthForm`, `LoadCallback`, `OnGranted`, `Logout`, `OnLoggedOut` |
| page load, expiry, network | `LoadPage`, `Expire`, `CallLost` |

Abstractions. An access token is live or expired; refresh tokens do not expire by
time; a row locked by a rotation is `locked` until its commit, and `doomed` when a
revocation waits for that lock, which matters if the rotation is rolled back. `torn` records what
may end a session rightly: a lost refresh, two tabs with one cookie, a logout.

### 2.5 `ChatClient` and the code

State. `thread`, `pending`, `status` and `active` (the controller in `abortRef`) are
`useChat`'s; `selected`, `seeded`, `fresh`, `creating`, `doomed` the pages'; `cache` and
`fetch` the conversation details; `run` the streamed requests with the frames still
to be read; `gone` those the page let go of (an abort closes the browser's side) and the
server may still serve, `loose` the calls of the approvals among them (history); `rows`, `asked`,
`executed` the server's side.

| code | actions |
|---|---|
| `submit`, `createConversation`, `send` | `Submit`, `SubmitNew`, `Created`, `NotCreated` |
| `saveEdit`, `regenerateLast`, `decide`, `stop` | `SaveEdit`, `RegenerateLast`, `Decide`, `Stop` |
| `consumeStream`, and the ends of `start` | `OnFrame`, `OnStreamEnd`, `OnRefused`, `OnBroken`, `OnAborted` |
| selecting, new chat, the effects of the route | `Select`, `NewChat`, `PickFirst`, `DetailArrives` |
| deleting a message | `AskDelete`, `CancelDelete`, `DeleteMessage`, `ServeDelete`, `DeleteAnswered` |
| the handlers | `Serve`, `ServeGone`, `Refuse`, `ServerDeletes` |

Abstractions. A message is its id, role, streaming mark and error; frames that only
decorate one are left out. The two pages are one module, since they share the hook;
what their controls look at is an operator per control (`ChatComposer`,
`ProjectComposer`, ...).

### 2.6 `WorkflowEditor` and the code

State. `row` are the server's workflows, `detail` and `list` the two queries with
their fetches, `canvas` React Flow's nodes and edges with the results shown on
them, `form` the inspector's copy, `settings` the dialog's, `test` the run request,
`results` the page's `nodeResults`.

| code | actions |
|---|---|
| `onNodesChange`, `onConnect`, `handleAddNode`, `handleDeleteNode`, `handleUpdateNodeConfig` | `Touch`, `OnConnect`, `HandleAddNode`, `HandleDeleteNode`, `HandleUpdateNodeConfig`, `Click` |
| `handleSave`, `handleToggleActive`, the settings dialog | `HandleSave`, `HandleToggleActive`, `SaveSettings` |
| `handleTestWorkflow`, `handleRunWorkflow` | `HandleTestWorkflow`, `ServeRun`, `RunAnswered` |
| the list page | `HandleCreateCustom`, `HandleUseTemplate`, `ConfirmDelete`, `Created`, `OpenCanvas`, `BackToList` |
| queries, refetch on focus, handlers, answers | `Read`, `DetailArrives`, `ListArrives`, `Focus`, `Serve`, `Fail`, `Lose`, `Answer` |
| a fetch that fails after its retries; the error screen, which unmounts the canvas | `FetchFails`; `DetailFails` |

A row's `updatedAt` has seconds: after a write it may be another (`at`), and then a refetch
replaces the canvas although nothing else differs, or the same.

### 2.7 `BotPages` and the code

State. `run` and `routine` are the server's; a run's `home` is the conversation it is in
(a task opens a fresh one, the routine's runs share theirs), and it is `late` when it was
cancelled while a goroutine works on it. `list`, `detail`, `routines` the queries
of `useBots.ts`, `tab`, `form` and `asking` the page's; `ran` are the calls that were
executed.

| code | actions |
|---|---|
| `TaskComposer`, `RunCard` | `SubmitTask`, `HandleCancel`, `HandleDecide` |
| routines panel and form | `HandleRunNow`, `HandleToggle`, `OpenForm`, `TypeForm`, `CloseForm`, `SubmitForm`, `AskDelete`, `HandleDelete` |
| polling and queries | `PollList`, `PollDetail`, `ReadList`, `ListArrives`, `DetailArrives`, `RoutinesArrive`, `FetchFails` |
| handlers and hooks | `Serve`, `Refuse`, `Lose`, `Succeeded`, `Failed` |
| `handleCancelBotRun`, its read and its shortcut | `ReadQueued`, `SettleQueued` |
| the runner; the process; other tabs and the scheduler | `RunnerMoves`; `ServerRestarts`; `Elsewhere` |

### 2.8 `ListPages` and the code

State. `row` are the rows of the page's table, `list` its query, `form` and `draft`
the form that is open and what a closed one keeps, `asking` the delete dialog, `req`
the requests with the row their control was *meant* for and the row they name.

The pages differ in their controls only, and these are sets named after the
components (`BotFormDialog`, `MemoryForm`, `AddServer`, ...) of the guards they have:
whether the form covers the list, whether Enter submits past a disabled button,
whether a dialog closes at the click or at the answer, and so on. The actions are
those of the machine: `OpenForm`, `Type`, `CancelForm`, `Submit`, `Ask`, `Unask`,
`ConfirmDelete`, `Remove`, `Flip`, `ClearAll`, `Upload`, `Retry`; `Start`, `Serve`,
`Ingested`, `FinalizeFails`, `Refuse`, `Lose`, `Succeeded`, `Failed`; `Read`, `Arrive`, `FetchFails`,
`Poll`; `GoOffline`, `GoOnline`. The documents page is in the model although `App.tsx`
sends its route to the projects.

### 2.9 `ToolPages` and the code

State. `tools` are the rows, `list` the masked copy the page has, `form`, `details`
and `asking` its dialogs, `req` the requests with who waits for their answer: the page's
hooks, something else (the settings, an earlier visit of the page), or nobody. A header's
value is `none`, a `secret` of an earlier session, `typed` now, `long` (typed, over the
server's limits, as a bad key or one header too many is), or the `mask` itself. A tool's
URL, method, parameters, body and description are reduced to what the rules on both
sides tell apart: a URL may be read by one parser only, a description be blank, fit or
be over its limit, and `fits` stands for the limits of parameters and body.

| code | actions |
|---|---|
| the editor's tabs | `EndpointTab`, `AddMissingPathParams`, `ParamsTab`, `HeadersTab`, `SettingsTab`, `CancelEditor` |
| the page, templates, details | `NewTool`, `EditTool`, `Duplicate`, `CustomizeTemplate`, `Inspect`, `AskDelete`, ... |
| `toolForm.ts` against `toolconfig.go` | `ValidateForm`, `Validate`, and the conversions in `SaveTool` |
| the switches | `Toggle`, `ToggleInDetails`, `ToggleInSettings` |
| handlers | `CreateTool`, `PatchRead`, `PatchWrite`, `DeleteTool`, `ServerFails`, `ListArrives` |
| the page is left and opened again; a request the browser gives up, which the server may still serve | `Leave`; `LoseConnection`, `Unheard` |

### 2.10 `AppConnections` and the code

State. `cred` are a provider's rows of `credentials`, the last updated first, and
`server` an app's row of `mcp_servers`; `cache` the queries of providers and servers;
`dialog` and `timers` the OAuth dialog and its intervals; `window` the popup or the
page at the provider; `cookie` the sealed state of the last start; `env` whether the
server's environment has client ids. A request's `slip` says that one of its statements
failed and the handler went on.

| code | actions |
|---|---|
| cards and dialog | `Link`, `Unlink`, `Disconnect`, `Connect`, `OpenDialog`, `CloseDialog`, `TypeClient`, `StartOAuth`, `SaveToken` |
| handlers, one action per statement | `UnlinkApp`, `ReadNewest`, `DeleteCredential`, `CreateServer`, `FindServer`, `UpdateServer`, `WriteToken`, `ReadConfig`, `WriteConfig`, `StartAnswers` |
| the errors the handlers drop: of a statement, of the reads behind the providers' query | `StatementFails`; `MisreadCredentials`, `MisreadServers` |
| `handleToolOAuthCallback` | `CallbackReads`, `CallbackWrites` |
| popup, redirect and interval | `OnStarted`, `OnLeave`, `Return`, `CloseWindow`, `TimerFires` |
| queries and answers | `ReadCredentials`, `ReadServers`, `Arrive`, `FetchFails`, `Refocus`, `OnLinked`, `OnTokenOrDisconnect`, `OnConfigured`, `OnFailed`, `Lose` |

When the page is left for the provider, the other requests are cut off at the
statement their handler has reached. Servers and credentials that are toggled or
deleted by hand are in `ListPages`.

### 2.11 Conventions of the client's modules

A query is a record of what is cached (`data`), whether a fetch is out and whether
the server has read for it already (`out`), and what it read (`got`): an answer that
was fixed before a change may arrive after it. An invalidated query starts its
fetch again, unless it is the first one, which goes on; queries no mounted component
reads are not fetched. A mutation hook keeps the per-call callbacks of its latest
call only, while the hook's own `onSuccess` runs for every answer on whatever page.
While offline, mutations are paused, and a render replaces the options of a paused
one. What a user types is a stamp, the number of the act that typed it, so that two
texts are equal only if they are the same text. Requests use the lowest free slot.

## 3. Model checking

Every configuration is used with the module `MC...` of its name.

| run | properties | what it shows | distinct states |
|---|---|---|---|
| `queue` | `QueueTypeOK`, `NoLostWakeup`, `RowsHaveTheirWorker` | one run, two requests, two pauses, a failing call, a restart: no live row is stranded and no wake-up lost but for a failed write | 1,484,267 |
| `queue_liveness` | `OnlyParkedRunsBlock`, `CancelledRunsEnd` | two runs on one slot, deletions, a failing call, a restart: only a parked run or a lost write blocks, and a cancelled run ends | 126,985 |
| `routines` | `RoutinesTypeOK`, `FiredOnce`, `OneRoutineRun`, `DueIsConsumed` | two routines, one request or late cancel, a failing call or restart: an occurrence is fired once unless its stamp was lost, one run the scheduler queued per conversation, and what is due is fired or skipped | 153,598 |
| `chat_turns` | `TypeOK`, `AnswersHaveTheirCall`, `PendingIsStored`, `KeepsLedger` | two tabs and three requests on one conversation: the handlers implement the ledger of approvals, each answer belongs to its call, what is pending can be found | 1,761,328 |
| `sessions` | `TypeOK`, `OneUsablePerLogin`, `CookieStaysUsable`, `WaitersHaveAPromise`, `CallsSettle` | two tabs with one cookie and three requests of every kind, with refreshes that fail and are rolled back: one usable token per login, the single flight keeps a tab signed in, every request ends | 220,090 |
| `chat_client` | `TypeOK`, `NewChatIsBlank`, `DeniedCallsDoNotRun`, `BusyHasItsRun` | both pages, two conversations, two streams, requests served after the page let go of them: nothing of an old chat in a new one, a call denied in the workspace is not executed, a page that runs waits for a run that is out | 3,485,333 |
| `workflows` | `TypeOK`, `ResultsAreOfOneRun`, `QuietPageIsCurrent`, `TestEnds` | list and canvas with two changes out, refetches that fail or succeed and a test run: results are of one run, a quiet page shows the stored row, the test button comes back | 1,514,968 |
| `bots` | `TypeOK`, `OnlyShownCallsRun`, `RunsAreFollowed` | a run with two pauses that goes on without the page, late cancels, a restart: only calls that were shown and approved run, and what the page shows catches up | 141,647 |
| `list_pages` | `TypeOK`, `NoDoubleCreate`, `QuietListIsCurrent` | nine pages, two requests out, network going and coming: one submit makes one row, a quiet list is the server's | 906,820 |
| `tools` | `TypeOK`, `ClientMirrorsServer`, `SavesStick`, `SecretsSurvive` | the editor, three switches and the merging PATCH: the client's rules mirror the server's but for sizes and parsers, saves nothing else raced with stay, masked secrets survive | 885,971 |
| `apps` | `TypeOK`, `QuietCardIsCurrent`, `SaidIsSo`, `AuthorizingEnds` | two providers and a built-in app, two requests with failing statements, popup and callback: a quiet card is what the tables say, and what a request said whose statements ran is so | 523,149 |
| `web_deny` | `DenyMeansDeny` | violated: section 3.3 | |

Each property of a passing run has a mutant of the code's model (the definitions
commented as mutants, listed in `PROJECT.json`) that the same run refutes.

Deadlock is not checked in any run: the system stops legitimately, when users ask
for nothing more or after SIGTERM.

### 3.1 Bounds

*Queue.* Two requests are the fewest that can race for one run's calls; two calls
the fewest that can be decided in part; two pauses let a notification of the first
reach the second; one failing call lets every single write fail at every place it
can; one restart lets a process die in every state. `queue_liveness` has two runs
of one conversation on one slot, the fewest of which one can block the other.
`queue` has one run: with two, states pass ten million; that its invariants hold
for every number of runs, slots and requests is proved (section 4).

*Routines.* Two routines are the fewest of which one can hold up the other; one
request can run a routine, change it or hold a stale stamp; the one schedule names the
one instant, and `MaxTime + 1` stands for all later occurrences, which are never
due. One failing call or restart
puts the exception of `FiredOnce` within reach. The safety properties are
proved for all instants and schedules; only `DueIsConsumed` rests on the bound.

*Chat turns.* Two tabs are the fewest that can race, and they are alike (symmetry).
Three requests are a prompt and two decisions in a row, a prompt and two tabs that
decide, or a deletion between pause and decision. Seven rows hold a turn with a
tool exchange that pauses, its resume with what is replayed, and the beginning of
what follows. One failing insert falls on every row of every run.

*The client.* `MaxActs` bounds what users, and where it says so the network's
failures and the clock, do; everything else runs freely. Two requests out are the
fewest of which one can overtake the other, and with them a third act (or a fourth)
is what makes one stale: open, change, submit, submit again. In `Sessions` two tabs
share the cookie, one of them has two requests (the single flight), and two refreshes
race at once, each of which can be the other's reuse; what a third one would add is
covered by the proofs. Four tokens are as many as four acts can cause. In `ChatClient` two
conversations, one of them old, and two streams let a stream be late for another
chat; ten ids are what a send, an approval that is given up, a denial and their late answers
use. In `WorkflowEditor` one workflow is
enough for every pair of requests about one row, also a deleted one whose name is
used again; the two nodes are a trigger and one that can be drawn, deleted and
configured. In `BotPages` one run with two pauses has an old and a new question, and two
acts are what starts something and what disturbs it. The code can queue a task beside a
live run (each opens a conversation of its own), and so can the model; the instance has
one run, since the page decides and polls each card by its own run and only the list is
shared, and since its graph is searched for cycles. The theorems are about any number.
`ListPages` has one row at first and room for two new ones, and five acts reach an
edit of one row while another is deleted, offline and back. `ToolPages` has two
header keys, so that one can be renamed to the other, and three rows for a copy and
a template. `AppConnections` has one app whose card behaves differently in a chat
(the calendar), one that does not, and one without OAuth; four acts connect and
disconnect an app while another request is out, or fail a statement or a read of one.

### 3.2 Fairness

`StartRunner`, the claim loop, each goroutine and each handler in flight are weakly
fair: Go schedules every runnable goroutine, and the calls they wait for end (the
agent under `BotTaskTimeout`, database calls under their contexts). The claim
loop's `select` has the poll ticker, so it needs no notification to go on. In
`Routines` the scheduler is weakly fair: its ticker always fires again, its calls
end, and after the end of a process the next one goes on; failures are bounded by
`MaxFaults`, so `DueIsConsumed` is about failures that stop at some time.

In the client's modules what the server owes an accepted request, the delivery of an
answer or of its failure, and intervals of the page are weakly fair: a request of a
browser ends, if only with an error, and `setInterval` and react-query's polling fire
again. Where the answer or the refusal is the environment's choice, the fair action
is their disjunction, so that fairness never makes requests succeed (`TestStep`,
`RequestStep`). `ServePage` of `Sessions` answers what it received, and
`CallsSettle` holds whether refreshes succeed, fail or get lost.

Users, SIGTERM, restarts, lost answers and the clock are not fair: nobody has to do
anything. Strong fairness is not assumed anywhere. `ChatTurns`, `ListPages` and
`ToolPages` have no liveness property. `ChatClient` has a safety property instead of one:
the end of a run that is out needs only that its request and the page go on, so what the
code has to get right is that a page never runs without one (`BusyHasItsRun`).

### 3.3 A denial that approves

`decide(false)`, the Deny button of the chat page's approval card, sends
`approved: true` with the reason "user denied" (`ChatPage.tsx:473`): `handleApprovals`
records an approval and the resumed agent executes the call. The README of the repository
promises an approve or deny card, the project workspace sends `approved: false`, and the
test of the bots' card expects that (`RunCard.test.tsx:85`). `web_deny` shows it;
`DeniedCallsDoNotRun`, which holds, is the same statement for the workspace.

### 3.4 Statements the code does not keep

These are definitions of the modules without a run. TLC refutes each of them, at the
bounds of its module's configuration unless another is given, when it is put in place
of the configuration's properties.

* `BotRunQueue!TerminalIsFinal`: a cancel of a queued run reads the status and settles
  the row in a second, unconditional statement; a claim may lie in between
  (`bot_runs.go:257`, `storage/bot_runs.go:176`). A finished row changes again.
* `Routines!AloneOnConversation` is what follows from it. The handler settles a row it
  read as queued ("no worker owns the row", `bot_runs.go:258`) and that was claimed in
  between; its goroutine goes on, and if its agent asks for approvals,
  `SetWaitingApproval` writes without looking at the status
  (`storage/bot_runs.go:160`): the row is live again. In between the routine has found
  its conversation free and queued a run: two live runs, where
  `HasActiveForConversation` is "used to keep one live run per bot conversation"
  (`storage/bot_runs.go:206`). `OneRoutineRun`, which holds, is about the runs the
  scheduler queued and nobody cancelled late.
* `BotRunQueue!OneLiveRunPerConversation` (two runs): the check for an active run and
  the insert are two statements (`bot_runs.go:155`).
* `BotRunQueue!DecidedRunsAreWoken`: two approvals requests can each flip some of a
  run's calls and both fail half-way (`bot_runs.go:379`); nobody notifies the run, it
  stays parked with everything decided, and a retry is refused.
* `BotRunQueue!ParkedRunIsLiveWork` (with deletions): deleting a conversation or a bot
  leaves the goroutine of its parked run, and its slot, behind
  (`conversations.go:337`, `bots.go:410`).
* `Routines!FiresOnlyOccurrences` (with a schedule that names no instant): a schedule
  such as `0 0 30 2 *` is accepted; its next occurrence is the zero time, which
  `fireDueRoutines` takes for due at every tick (`botroutines.go:158`).
* `ChatTurns!NoMessageTwice`: a resume tells the rows it replays by comparing Go's
  JSON of a message with what the `jsonb` column prints, which never agree
  (`chat.go:1148`, `approvals.go:156`): every resume stores the paused messages once
  more, under fresh call ids. The tests use a fake store that returns the bytes it
  was given.
* `Sessions!UploadRetriesOnce`: an upload that meets a 401 again after its refresh is
  sent again without limit (`useDocuments.ts:70`).
* `ChatClient!PlaceholdersSettle`: a refused or broken stream leaves its placeholder
  streaming (`useChat.ts:184`, the branch for errors other than an abort).
* `WorkflowEditor!TestRunsWhatIsShown`: the test run does not wait for the save before
  it (`WorkflowCanvasPage.tsx:222`).
* `ListPages!BotRequestsNameTheirRow`: a delete that is paused offline takes the row of
  the next dialog (`BotsPage.tsx:123`). On the other pages the statement holds
  (`RequestsNameTheirRow`, a theorem of `ListPagesProofs`).
* `ToolPages!StoredToolsAreValid`: `handlePatchTool` validates the stored headers and
  merges the request's afterwards (`tools.go:184`). An over-long value, a bad key or a
  seventeenth header is stored, and from then on every PATCH of the tool is refused,
  the switch's included. The form leaves these limits to the server, which
  "re-validates and stays authoritative" (`toolForm.ts:98`).
* `AppConnections!OkMeansDisconnected`: the handlers that disconnect and unlink take a
  failing lookup for no row, drop the errors of the delete and of `UnlinkApp`, and
  answer ok (`tool_oauth.go:693`, `mcp.go:150`). The page says "Disconnected"
  (`CredentialsDialog.tsx:73`) of an app that is connected; the handlers' test expects
  it "to be disconnected after unlink" (`tool_oauth_test.go:207`). `SaidIsSo`, which
  holds, is about requests whose statements all ran.
* `AppConnections!LinkAloneSucceeds`: linking inserts a server whose name is unique,
  unlinking only clears its app, so that linking again fails (`mcp.go:94`).
  `ConfiguredIsNotConnected`: client credentials alone count as a connection.
  `DisconnectedIsNotConnected` and `ConfigsAreTheirOwn` (five acts, the settings' cards,
  no built-in app): a second credential survives a disconnect, and client credentials
  typed for one provider are stored for another the dialog was reopened for.

The properties that hold set some things apart, and these the code does lose. Each is
a history variable, defined by what happened and never by what the property says:

* `forsaken` and `lost` (`BotRunQueue`): section 4.1. So `NoLostWakeup` does not show that
  a request that fails half-way, or two that decide disjoint calls, wake their run.
* `unstamped` (`Routines`): a crash or a failure between a run and its stamp, and a delayed
  older stamp, do fire an occurrence twice.
* `cut`, `unstored` (`ChatTurns`): a message deleted under a run that continues it leaves
  answers and calls without it.
* `torn` (`Sessions`): a lost refresh may sign the user out.
* `typing` (`WorkflowEditor`): a change of the canvas while a save of it is out is taken
  for saved, and a refetch overwrites it.
* `lost`, `early` (`ListPages`): answers that never came, among them the 500 of an upload
  whose row is stored (`documents.go:161`): its page does not ask for the list again.
* `loose` (`ToolPages`): an update sent while another was out that the page does not wait
  for. `isPending` belongs to a mount of the page and to the latest call of its hook; the
  settings' and the details' switches look at nothing, and a request the browser gave up
  may still be served. Two such PATCHes undo one another (`tools.go:144`).
* `loose` (`ChatClient`): Approve, Stop, and the card comes back, since the detail is
  fetched again before the server has flipped the calls; Deny. Stop only closed the browser's
  side (`useChat.ts:60`): the approval may be served after all, and the denied call is
  executed.
* `behind` (`AppConnections`): a change its query was not told of, or a 200 put together
  from a read that failed (`tool_oauth.go:163`, `:189`), which shows a connected app as
  disconnected until something asks again. `doubled`: a provider had two credentials.
  `slip`: a statement failed, see `OkMeansDisconnected`.
* `crossed` (`ChatClient`): below.

A duplicate is created with the mask for the value of every header that was not typed
anew, and `handleCreateTool` stores it (`tools.go:89`); a PATCH never does.
`SecretsSurvive` does not count the mask of such a copy as a secret.

`DeniedCallsDoNotRun` needs `~crossed` beyond the bounds of its run: the proof of the
statement without it failed, and TLC then found why (four acts, sixteen ids). Two
submits of a new chat, both before the first creation is answered, open two runs of
one page: `submit` of the workspace awaits the creation and does not look again
(`ProjectWorkspacePage.tsx`), and `useChat` keeps one controller and one status. The
card of one run is shown while the other streams; Approve is posted; the other run
ends with an error, which shows the card again; Deny; then the approval is served. The
denied call is executed. `OnlyCreationsCross` proves that this is the only way to
two runs of one page.

## 4. Proofs

Each theorem holds for every value of the constants that satisfies the module's
assumption (numbers are numbers; there is a slot, a call, a conversation; `None` is nobody's name).

Every invariant that a run checks is a theorem of its specification, and so is the
refinement of `ApprovalLedger`.

Two proof modules are about two components each, whose specifications they extend
side by side; no theorem speaks of both. `ServerProofs` has `BotRunQueue` and
`Sessions`, `BotProofs` has `Routines` and `BotPages`. That is why the queue and the
scheduler name their specification after themselves (`QueueInit`, `QueueSpec`,
`RoutinesTypeOK` and so on).

### 4.1 `ServerProofs`: the queue

`QueueTypeCorrect` and four more prove the five invariants of `BotRunQueue` for every number
of runs, conversations, slots, pauses, calls, requests, faults and restarts,
from `ConstantsAssumption` alone (which asks only that these are numbers, that
there is a conversation and at least one slot and call). Theorems: `QueueTypeCorrect`,
`SlotsAccounted`, `RowsOwned`, `RegistriesExact`, `WakeupsArrive`, each
`QueueSpec => []...`, all from `QueueInvariance`.

The inductive invariant `QueueInv` adds three facts to the five:

* `OffIsIdle`: a runner that is off has no goroutine and no claim in progress.
  Without it `StartRunner`, which queues every live row again, could queue the row
  of a goroutine.
* `AbsentIsIdle`: a row not inserted yet has no goroutine, so that an insert makes
  a queued row without one.
* `WokenIsUnregistered`: a closed channel is not in the registry. Without it a
  notification could be taken for the one of a later pause.

The proof that a step preserves `QueueInv` is one lemma per invariant with one case
per action. Slots need cardinalities of finite sets: `WorkersKept` and
`RequestsTakeNoSlot` leave `Claim`, `Exit` and `Restart` as the only cases where the
set of goroutines changes. `NoLostWakeup` goes by who can empty a parked run's
set of undecided calls: a flip of the last call by a request that goes on to
notify it, or a step that puts the run into `forsaken`.

The two exceptions. `lost` holds rows whose settling, claiming or recovering write
failed: the code drops these errors, and nothing but a restart picks such rows up.
`forsaken` holds parked runs whose calls disappeared without a notification due to
*them*: deleted by another run's fresh start or with the conversation, decided on
behalf of another run of the conversation, or by a request that failed half-way.
Both are empty in a run without failing calls and with one run per conversation,
except for the half-way request, which is a finding of its own.

### 4.2 `BotProofs`: the scheduler

Proved for every number of routines, requests in flight and instants, and every
set of schedules, from `ConstantsAssumption`: `RoutinesTypeCorrect`, `FiresOnce`
(`FiredOnce`) and `OneRunAtATime` (`OneRoutineRun`), all from `RoutinesInvariance`.

`FiredOnce` speaks of what happened; the code prevents it by what it reads. `RoutinesInv`
closes the gap with

* `FiringsShown`, the heart of the argument: unless a stamp was lost, every
  occurrence that was fired is at or before `last_run_at` or about to be stamped;
  the copy on the scheduler's list is no older; and an occurrence in hand is
  later than all that were fired. The last part needs that `sched.Next` is
  *strictly* later (lemma `NextAfterLast`, which takes the minimum of a set of
  instants from the well-foundedness of the numbers);
* `OnTime`: the occurrence in hand is not later than the clock, nor than the stamp
  that was read from it, so that stamping shows it;
* `KnownRoutines`: only created routines are listed or recorded, so that an insert
  starts without a past, and a routine in hand is off the list, so that no stale
  copy of it is left;
* `AloneWhenCreating`: between the scheduler's look at the conversation and its
  insert there is no live run with trigger `routine`, since nobody else queues
  one. A revived run does not count as one: `Revives` may come after that look, which
  is what `AloneOnConversation` says.

The proof has a lemma for all steps that leave the scheduler, its list and what it
fired alone or only help (`HarmlessKeepsInv`), and one for each step of the
scheduler. `unstamped` names the exception: routines whose stamp failed, was lost
with the process, or was overwritten by an older one a request read before.

### 4.3 `BotProofs`: the page

`PageTypeCorrect` and `ShownCallsOnly` (`OnlyShownCallsRun`), from `BotPagesAssumption` and
`NoneIsNoRow` (`undefined` is no row). A run executes what the queue's row was approved
for, and a row is approved by a request; `ApprovalsClicked` says that an approval on its
way names calls that were on the card of that run at the click. The types need
`RunsKnown`: what the list, a detail or a request names is a run of the server, whatever
was answered late or lost. No number of pauses, runs or polls enters.

### 4.4 `ChatTurnsProofs`

Proved for every number of tabs, rows, requests and failing inserts, from
`ConstantsAssumption`: `TypeCorrect`, `ActsOnce` (`ActedOnce`), `AnswersBelong`
(`AnswersHaveTheirCall`) and `PendingFound` (`PendingIsStored`), all from
`Invariance`. `IInv` adds to these

* `RowsNumbered`: a call's id names its row, so that two assistant rows never share
  a call;
* `AnswersSeen`: a tool row answers a call of an earlier row that is or was there,
  from which `AnswersHaveTheirCall` follows with `RowsNumbered`;
* `AllReady`: what a handler holds between two statements can be stored. For a run
  that is being stored (`Storable`), each tool message answers a call that `idMap`
  has, or that an assistant message still to be stored will put there, and no two
  of them the same of the provider's ids. It needs the shape of what the agent
  returns (`ContinuationForms`) and that a replayed history answers only stored
  ids (`ResumedMessages`);
* `OneHolder`: a stored id is held by one handler, or pending, or was resumed on,
  and never two of these. `SetStatus` moves it from pending to a handler only if it
  was still pending, which is what makes `ActedOnce` hold although the check, the
  flips and the resume share no lock.

The lemmas `Typed`, `Held` and `HoldersKept` have one case per
action; `StoreStep` is the heart of `Held`: the rest of the messages can be stored
after the first.

The refinement. `LedgerStaysApart` is the ledger's own guarantee, that a call is asked
for, decided or acted on, never two of these; `OneStageAtATime` is the same of the
handlers, since they keep the ledger. `LedgerKept` is `Spec => KeepsLedger`:
`LedgerStep` shows, from `IInv` and action by action, that a step of the handlers maps
to one of the ledger's or changes nothing of it (`LedgerStutters`). Three facts carry
it. `OneHolder` makes what a pause parks new to the ledger. `DecidedByOne` says that
what a handler carries from its flips is carried by no other, so that a flip adds one
call to `granted`. `LedgerSettles` says that a handler that ends, by a resume, a
hang-up or a failing call, takes all it carried out of `granted`, and acts on part
of it.
The ledger is about the calls that have a stored row's id (`Own`): the provider's own
ids, which are parked when a row could not be stored, repeat, and no resume finds
them.

### 4.5 `ServerProofs`: the sessions

`SessionTypes`, `RotationSerialised` (`OneUsablePerLogin`), `PromiseIsAlive`
(`WaitersHaveAPromise`) and `SingleFlight` (`CookieStaysUsable`), from
`SessionsAssumption`. They hold for any number of tabs, requests, refreshes at once
and tokens; none of the invariants is inductive alone.

`Basics` is inductive whatever is lost. `OneUsablePerLogin` needs `LocksHeld` (a
rotation holds the lock of its row, and no other rotation does), so that the row it
spends at its commit is the login's one usable row, and `LoginsIssued`, so that a
sign-in starts a login nobody has. `WaitersHaveAPromise` needs `ConnsKnown`: an answer
names the tab whose promise it settles.

`Lineage` is inductive as long as nothing was torn, and is what makes a cookie
safe: what a request presents can be rotated until this request rotates it and is
presented by no other (`Presented`); every request on its way is awaited by its tab
(`FlightsAwaited`), so that a tab that starts one has none; a token on its way to the
browser is usable, differs from the cookie and from what is presented
(`ArrivalsFresh`), and from any other on its way (`ArrivalsDiffer`); a cookie that nobody
presents is usable (`Rests`). Two requests of one tab with one cookie would break
`Presented`: here the proof uses `refreshing ??=`.

The steps are split once (`StepKinds`): those that only move calls are `Quiet`, a
page load and a 401 that finds no promise are `Starting`, and each of the others has
its lemma about what it writes (`GetReads`, `UpdateLocks`, `CommitReplaces`,
`SignInIssues`, `SettleEnds`).

### 4.6 `ChatClientProofs`

`TypeCorrect`, `NewChatsAreBlank` (`NewChatIsBlank`), `DeniedCallsStayDenied`
(`DeniedCallsDoNotRun`), `ComposerIsGivenBack` (`BusyHasItsRun`) and
`OnlyCreationsCross`, from `ChatClientAssumption`, for any number of conversations,
messages and streams. `BusyHasItsRun` is inductive by itself, also where runs cross.

`OneRun` is the heart: as long as no creation crossed another run, an open run of the
page is the one `abortRef` holds, the status is running and a conversation is selected.
So at most one is open, and a new chat, which has no conversation yet, has none.
`ApprovalsStand` says that an approval that is posted has not been denied since; it
needs `OneRun`, because a denial takes a card, and a card needs a page that is not
running. What the page let go of is the other half: `GoneKnown` says that the calls an
abandoned approval names are in `loose`, so that serving it late executes no denied call
outside. Threads are sequences that are cut, appended to and mapped: the lemmas about
them (`BeforeTyped`, `LastUserTyped`, `EmptyStays`) use the well-foundedness of the
numbers for the last message of a role.

### 4.7 `ListPagesProofs`

`TypeCorrect`, `OneRowForOneForm` (`NoDoubleCreate`), `QuietListsAreCurrent`
(`QuietListIsCurrent`) and `RequestsNameRows` (`RequestsNameTheirRow`), from
`ListPagesAssumption`, for every subset of the nine pages and any number of rows and
requests.

`NoDoubleCreate` is not inductive: `Births` adds where a text can be. What a form still
holds, open or closed, is in no row, unless the create that wrote it is about to be
answered, which closes that form and blanks what it held (`HeldIsUnborn`); a create that
was not served is in no row (`UnservedIsUnborn`), and no two creates carry one text
(`OwnTexts`). The step that could break it is a second submit: `NewFormsWait` shows, from
the table of controls and page by page, that a form for new rows waits for its save,
and so do not the Enter key of the rename dialog and the uploads, which make no row
from a form. Every step that sends no create and makes no row is `Quiet`, and
`QuietKeeps` says once why those are harmless.

`QuietListIsCurrent` follows from `ListFollows`: a list that is shown or was read is
the server's, or an answered change is on its way whose success fetches it again.

### 4.8 `ToolPagesProofs`

`TypeCorrect`, `RulesMirrored` (`ClientMirrorsServer`), `SavesAreKept` (`SavesStick`) and
`SecretsAreKept` (`SecretsSurvive`), from `ToolPagesAssumption`, for any number of tools,
headers and requests.

`RulesMirrored` is a fact about two operators: `RulesAgree` compares `ValidateForm` with
`Validate`, limits included, for every name, shape and set of headers, and names where they
differ (`ServerRefusesMore`, `ClientRefusesMore`). The other two rest on one update at a
time (`OneUpdate`): while nothing is `loose`, whatever update is out is the latest call of
the mounted page's hook, which the page's own controls wait for. So what a PATCH has read is still
current when it writes (`UpdatesCurrent`: it keeps the stored secrets, a toggle
carries the stored tool, and what a save has written is stored). `PageMasked` is the
invariant of the mask: no stored secret reaches the list, the details or the editor, so
that a header of a form is a mask, typed or empty.

### 4.9 `WorkflowEditorProofs`

`TypeCorrect`, `OneRunsResults` (`ResultsAreOfOneRun`) and `QuietPagesAreCurrent`
(`QuietPageIsCurrent`), from `WorkflowEditorAssumption` and `NoneIsNoRow`, for any sets of
workflows and nodes, graphs of any shape and any number of requests. The last two follow
from `Invariance`, the induction over `IInv`.

`ResultsAreOfOneRun` is inductive with two facts the first attempt at its proof lacked:
the types of what a run answers, and `TestOnCanvas`, that a test run that is out
belongs to a page that is open. Without it a run could answer into the list. The page
keeps it because the run's state is its own and goes with it (`Mount`).

`QuietPageIsCurrent` is a consequence of four facts. `FetchComes`: as long as the
page's row is not the stored one, an update that was applied is about to be
answered or the row is being read again. `DrawnIsShown`: a canvas that is not marked
unsaved is what the page was given, or the stored graph, which is on its way
(`GraphComes`). That needs `SavesAgree`: `handleSave` and `handleTestWorkflow` may have
saves out together, served in any order, and these all carry one graph, that of
the canvas. `RequestsFit`: an update is of the page that is open, since a page that is left
with a request out is set apart by `lost`.

### 4.10 `AppConnectionsProofs`

`TypeCorrect`, `QuietCardsAreCurrent` (`QuietCardIsCurrent`) and `WhatIsSaidIsSo`
(`SaidIsSo`), from `AppConnectionsAssumption`, for any sets of providers, built-in apps,
cards and requests, all from `Invariance`.

No handler here uses a transaction, so both proofs go by what a request between two
statements knows. `UncrossedKnow`: a request that no other request or callback about its
app has crossed, and none of whose statements failed, still has the newest credential it
read, and what it deleted or unlinked is gone. `CallbackCrosses`: a callback between its
own two statements has crossed every request about its provider. With `DoublesKnown` (a
second credential of a provider is recorded in `doubled`) a disconnect that ends leaves
nothing behind. `TypeOK` has the unique index, that no two credentials of one provider
have one name: the lemmas `WithoutIs`, `PutIs` and `RewriteIs` say what the statements
on `workflow_credentials` keep of it.

`CardsFollow` is the client's half: a query that is not known to be behind follows the
tables, in what it shows, in what it has read in full and in what it has read in half (a
read that failed puts it behind), or a request on its way is going to have it asked
again (`Told`). It covers the handler of the providers' query, whose two reads a link
may separate, and the refetch that finds a fetch already out. `LeftAlone` has the page
that is left for the provider's: it has no requests, and comes back with empty queries.

### 4.11 What is only model-checked

Liveness: fairness and `ENABLED` are beyond the prover. These are
`OnlyParkedRunsBlock`, `CancelledRunsEnd`, `DueIsConsumed`, `CallsSettle`, `TestEnds`,
`RunsAreFollowed` and `AuthorizingEnds`. The statements of section 3.4 and
`DenyMeansDeny` are refuted.

## 5. Not modelled

* Access tokens, password hashing and sealing: library cryptography without state.
* OAuth login: a redirect that ends in one statement; its session is `Sessions`' login.
* MCP transport, web search, agent and tool implementations, cron and document
  parsing, embedding and the vector store: I/O against external services, or
  sequential text processing. What the agent returns is a free choice.
* The workflow engine's traversal: sequential; the editor sees a result per node.
* The chat path's approvals endpoint on a bot's conversation: `ChatTurns` has plain
  conversations, `BotRunQueue` bots', and what both handlers do to one conversation is
  not composed. The state of the product of the two is out of TLC's reach.
* Usage, cost, audit, admin, shares, profiles, memories and files of a bot:
  single statements, append-only records and reports.
* Rendering, layout, filters, voice input, attachments, the landing and usage
  pages: they show data or text and keep no state a property could be about.
