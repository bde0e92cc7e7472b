------------------------------- MODULE BotPages -------------------------------
(***************************************************************************)
(* A bot's page in the browser: its Runs tab (TaskComposer, RunCard with   *)
(* the approval panel) and its Routines tab (list, form and delete         *)
(* dialogs), over the cached queries of useBots.ts and their polling, with *)
(* the server's runs and one routine as far as the page sees them          *)
(* (BotRunQueue and Routines model that side in detail).                   *)
(*                                                                         *)
(* The calls a run asks for when it parks for the n-th time are the number *)
(* n. What a user types is a stamp, the number of the act that typed it.   *)
(***************************************************************************)
EXTENDS Naturals, FiniteSets

CONSTANTS Runs,      \* runs the bot can have, numbers
          MaxParks,  \* bound: how often a run parks
          Reqs,      \* requests that change something and can be out at once
          MaxActs,   \* bound: what users and the network's failures do
          None

ASSUME BotPagesAssumption ==
  /\ Runs \subseteq Nat /\ Reqs \subseteq Nat /\ MaxParks \in Nat /\ MaxActs \in Nat
  /\ None \notin Nat

VARIABLES
  run,       \* server: the bot's runs
  routine,   \* server: its routine
  ran,       \* server: calls that were executed
  list,      \* cache: ["bot-runs", bot], and its request
  detail,    \* cache: ["bot-run", id] of every run, and its request
  routines,  \* cache: ["bot-routines", bot], and its request
  tab,       \* the tab of the page, or "away"
  form,      \* RoutineFormDialog, with `editing` of the panel
  asking,    \* pendingDelete: the delete dialog is open
  req,       \* the POST, PATCH and DELETE requests that are out
  acts,
  approved,  \* history: the calls an Approve was clicked under
  mine,      \* history: runs this page queued while its list was loaded
  lost       \* history: a request or its answer was lost

server == <<run, routine, ran>>
cache  == <<list, detail, routines>>
panel  == <<form, asking>>
hist   == <<approved, mine, lost>>
vars   == <<server, cache, tab, panel, req, acts, hist>>

-----------------------------------------------------------------------------
Stamps == 0..(MaxActs + 1)
Calls == 1..MaxParks
Tabs == {"runs", "routines", "workspace"}
Statuses == {"queued", "running", "waiting_approval", "succeeded", "failed", "cancelled"}

\* isRunActive
ActiveRunStatuses == {"queued", "running", "waiting_approval"}
RunActive(st) == st \in ActiveRunStatuses

\* `home` is the conversation of a run: a fresh one, or the routine's. `late`
\* says that a worker goes on under a row that was settled as cancelled.
RunRows == [st : Statuses, asked : SUBSET Calls, parks : 0..MaxParks,
            home : {"fresh", "routine"}, late : BOOLEAN]
Details == [st : Statuses, asked : SUBSET Calls]

\* `undefined` is no row and no status.
ASSUME NoneIsNoRow == None \notin RunRows /\ None \notin Statuses

RoutineRows == [there : BOOLEAN, on : BOOLEAN, text : Stamps]
Queries(D) == [data : D \cup {None}, out : {"no", "sent", "read"}, got : D \cup {None}]
NoQuery == [data |-> None, out |-> "no", got |-> None]

Kinds == {"enqueue", "cancel", "resolve", "runNow", "create", "update", "toggle", "delete"}
ReqRows == [st : {"free", "sent", "read", "ok", "failed", "lost"}, kind : Kinds \cup {"none"},
            run : Runs \cup {None}, calls : SUBSET Calls, ok : BOOLEAN,
            text : Stamps, bad : BOOLEAN, alive : BOOLEAN]
NoReq == [st |-> "free", kind |-> "none", run |-> None, calls |-> {}, ok |-> FALSE,
          text |-> 0, bad |-> FALSE, alive |-> FALSE]
Forms == [open : BOOLEAN, editing : BOOLEAN, text : Stamps, bad : BOOLEAN, error : BOOLEAN]
Closed == [open |-> FALSE, editing |-> FALSE, text |-> 0, bad |-> FALSE, error |-> FALSE]

TypeOK ==
  /\ run \in [Runs -> RunRows \cup {None}] /\ routine \in RoutineRows
  /\ ran \subseteq Runs \X Calls /\ approved \subseteq Runs \X Calls
  /\ list \in Queries([Runs -> Statuses \cup {None}])
  /\ detail \in [Runs -> Queries(Details)]
  /\ routines \in Queries(RoutineRows)
  /\ tab \in Tabs \cup {"away"}
  /\ form \in Forms /\ asking \in BOOLEAN
  /\ req \in [Reqs -> ReqRows]
  /\ acts \in Stamps /\ mine \subseteq Runs /\ lost \in BOOLEAN

-----------------------------------------------------------------------------
Act == acts < MaxActs /\ acts' = acts + 1

(* The query cache and the polls                                           *)

Here == tab # "away"

\* A fetch that is out serves a new reader as well.
Fetched(q) == IF q.out = "no" THEN [q EXCEPT !.out = "sent"] ELSE q

\* An invalidated query starts its fetch again, unless it is the first one.
Refetched(q) == IF q.data = None THEN Fetched(q) ELSE [q EXCEPT !.out = "sent", !.got = None]

Listed(i) == list.data # None /\ list.data[i] # None

ShownActive(i) == Listed(i) /\ RunActive(list.data[i])

\* `data.runs.some(isRunActive) ?? false`, what disables the composer.
AnyActive == \E i \in Runs : ShownActive(i)

\* Whether RunCard's useBotRun is enabled: its card is there and says so.
CardWaits(t, rows, i) == t = "runs" /\ rows # None /\ rows[i] = "waiting_approval"

\* The cards of a new list or a newly opened tab: those that begin to wait
\* mount their detail query, which fetches.
Cards(t, rows) ==
  detail' = [i \in Runs |->
    IF CardWaits(t, rows, i) /\ ~CardWaits(tab, list.data, i)
    THEN Fetched(detail[i]) ELSE detail[i]]

\* MUTANT: a list that polls while a run works, but not while one waits.
PollWhileWorking(rows) == \E i \in Runs : rows[i] \in {"queued", "running"}

\* botRunsPollInterval: every three seconds while any run is in flight.
BotRunsPoll(rows) == \E i \in Runs : RunActive(rows[i])

PollList ==
  /\ Here /\ list.data # None /\ list.out = "no" /\ BotRunsPoll(list.data)
  /\ list' = Fetched(list)
  /\ UNCHANGED <<server, detail, routines, tab, panel, req, acts, hist>>

\* useBotRun's interval, for as long as the card waits.
PollDetail(i) ==
  /\ CardWaits(tab, list.data, i) /\ detail[i].data # None /\ detail[i].out = "no"
  /\ detail[i].data.st \in {"running", "waiting_approval"}
  /\ detail' = [detail EXCEPT ![i] = Fetched(@)]
  /\ UNCHANGED <<server, list, routines, tab, panel, req, acts, hist>>

Snapshot == [i \in Runs |-> IF run[i] = None THEN None ELSE run[i].st]

ReadList ==
  /\ list.out = "sent"
  /\ list' = [list EXCEPT !.out = "read", !.got = Snapshot]
  /\ UNCHANGED <<server, detail, routines, tab, panel, req, acts, hist>>

Arrived(d) == [data |-> d, out |-> "no", got |-> None]

ListArrives ==
  /\ list.out = "read"
  /\ list' = Arrived(list.got) /\ Cards(tab, list.got)
  /\ UNCHANGED <<server, routines, tab, panel, req, acts, hist>>

\* handleGetBotRun lists the calls of a run that waits, and of no other.
Answered(row) ==
  [st |-> row.st, asked |-> IF row.st = "waiting_approval" THEN row.asked ELSE {}]

\* The other two are read and answered in one step.
DetailArrives(i) ==
  /\ detail[i].out = "sent"
  /\ detail' = [detail EXCEPT ![i] = Arrived(Answered(run[i]))]
  /\ UNCHANGED <<server, list, routines, tab, panel, req, acts, hist>>

\* `editing` and pendingDelete hold the row they were opened with, not this.
RoutinesArrive ==
  /\ routines.out = "sent"
  /\ routines' = Arrived(routine)
  /\ UNCHANGED <<server, list, detail, tab, panel, req, acts, hist>>

\* A fetch fails, its retries too: what was cached stays.
Dropped(q) == [q EXCEPT !.out = "no", !.got = None]

FetchFails ==
  /\ Act /\ lost' = TRUE
  /\ \/ /\ list.out # "no" /\ list' = Dropped(list)
        /\ UNCHANGED <<detail, routines>>
     \/ \E i \in Runs :
          /\ detail[i].out # "no"
          /\ detail' = [detail EXCEPT ![i] = Dropped(@)]
          /\ UNCHANGED <<list, routines>>
     \/ /\ routines.out # "no" /\ routines' = Dropped(routines)
        /\ UNCHANGED <<list, detail>>
  /\ UNCHANGED <<server, tab, panel, req, approved, mine>>

-----------------------------------------------------------------------------
(* The page and its tabs                                                   *)

\* The hooks of a panel that is gone have no callbacks any more; those of the
\* cache run on.
Runners == {"enqueue", "cancel", "resolve"}
Dead(t) == [r \in Reqs |->
  IF (t # "runs" /\ req[r].kind \in Runners) \/ (t # "routines" /\ req[r].kind \notin Runners)
  THEN [req[r] EXCEPT !.alive = FALSE] ELSE req[r]]

\* A tab is opened, from another one or from another page; the runs query
\* belongs to the page and is fetched when the page is mounted.
OpenTab(t) ==
  /\ Act /\ t # tab /\ tab' = t
  /\ list' = IF Here THEN list ELSE Fetched(list)
  /\ Cards(t, list.data)
  /\ routines' = IF t = "routines" THEN Fetched(routines) ELSE routines
  /\ form' = Closed /\ asking' = FALSE
  /\ req' = Dead(t)
  /\ UNCHANGED <<server, hist>>

\* Another page: the sidebar, the chat button, a run's conversation.
Leave ==
  /\ Act /\ Here /\ tab' = "away"
  /\ form' = Closed /\ asking' = FALSE
  /\ req' = Dead("away")
  /\ UNCHANGED <<server, cache, hist>>

-----------------------------------------------------------------------------
(* Requests                                                                *)

\* isPending of a hook: its request is out and its component still there.
Pending(kinds, i) ==
  \E r \in Reqs : req[r].kind \in kinds /\ req[r].alive /\ req[r].run = i

Send(r, q) ==
  /\ req[r].st = "free" /\ \A s \in Reqs : s < r => req[s].st # "free"
  /\ req' = [req EXCEPT ![r] = q]

Request(kind, i, calls, ok, text, bad) ==
  [st |-> "sent", kind |-> kind, run |-> i, calls |-> calls, ok |-> ok,
   text |-> text, bad |-> bad, alive |-> TRUE]

Sent(kind, i) == Request(kind, i, {}, FALSE, 0, FALSE)

\* TaskComposer.submit, with a task typed: its guard is the button's too.
SubmitTask(r) ==
  /\ Act /\ tab = "runs" /\ ~AnyActive /\ ~Pending({"enqueue"}, None)
  /\ Send(r, Sent("enqueue", None))
  /\ UNCHANGED <<server, cache, tab, panel, hist>>

\* RunCard.handleCancel: the button of an active card.
HandleCancel(r, i) ==
  /\ Act /\ tab = "runs" /\ ShownActive(i) /\ ~Pending({"cancel"}, i)
  /\ Send(r, Sent("cancel", i))
  /\ UNCHANGED <<server, cache, tab, panel, hist>>

\* The calls of the approval panel: the cached detail's, while the card waits.
ShownCalls(i) ==
  IF CardWaits(tab, list.data, i) /\ detail[i].data # None THEN detail[i].data.asked ELSE {}

\* MUTANT: a decision without call ids, for whatever the run asks by then.
AnyDecision(i) == Calls

\* The decisions name the calls that are shown.
Decisions(i) == ShownCalls(i)

\* RunCard.handleDecide: one decision for every call that is shown.
HandleDecide(r, i, ok) ==
  /\ Act /\ ShownCalls(i) # {} /\ ~Pending({"resolve"}, i)
  /\ Send(r, Request("resolve", i, Decisions(i), ok, 0, FALSE))
  /\ approved' = IF ok THEN approved \cup ({i} \X ShownCalls(i)) ELSE approved
  /\ UNCHANGED <<server, cache, tab, panel, mine, lost>>

\* The rows of the routine list and their buttons are there.
RowShown == tab = "routines" /\ routines.data # None /\ routines.data.there

\* RoutinesPanel.handleRunNow: one button is busy, then all are.
HandleRunNow(r) ==
  /\ Act /\ RowShown /\ ~form.open /\ ~asking /\ ~Pending({"runNow"}, None)
  /\ Send(r, Sent("runNow", None))
  /\ UNCHANGED <<server, cache, tab, panel, hist>>

\* RoutinesPanel.handleToggle sends the opposite of what is shown. The hook is
\* the list's own: the form has another instance of it.
HandleToggle(r) ==
  /\ Act /\ RowShown /\ ~form.open /\ ~asking /\ ~Pending({"toggle"}, None)
  /\ Send(r, Request("toggle", None, {}, ~routines.data.on, 0, FALSE))
  /\ UNCHANGED <<server, cache, tab, panel, hist>>

\* The effect on [open, routine]: the form is seeded, and the error cleared.
Seeded(editing, text) ==
  [open |-> TRUE, editing |-> editing, text |-> text, bad |-> FALSE, error |-> FALSE]

OpenForm(editing) ==
  /\ Act /\ tab = "routines" /\ ~form.open /\ ~asking
  /\ editing => RowShown
  /\ form' = Seeded(editing, IF editing THEN routines.data.text ELSE 0)
  /\ UNCHANGED <<server, cache, tab, asking, req, hist>>

\* A field is typed; the schedule may be one the server refuses.
TypeForm ==
  /\ Act /\ form.open
  /\ \E bad \in BOOLEAN : form' = [form EXCEPT !.text = acts + 1, !.bad = bad]
  /\ UNCHANGED <<server, cache, tab, asking, req, hist>>

\* Cancel, Escape, or a click outside: never disabled. The fields stay.
Saves == {"create", "update"}
CloseForm ==
  /\ form.open
  /\ form' = [form EXCEPT !.open = FALSE]
  /\ UNCHANGED <<server, cache, tab, asking, req, acts, hist>>

\* handleSubmit clears the error and sends all fields: it creates or updates.
SubmitForm(r) ==
  LET kind == IF form.editing THEN "update" ELSE "create" IN
  /\ Act /\ form.open /\ form.text # 0 /\ ~Pending({kind}, None)
  /\ form' = [form EXCEPT !.error = FALSE]
  /\ Send(r, Request(kind, None, {}, FALSE, form.text, form.bad))
  /\ UNCHANGED <<server, cache, tab, asking, hist>>

\* The trash button opens the dialog; its Cancel closes it.
AskDelete ==
  /\ Act /\ ~form.open
  /\ asking' = ~asking /\ (asking' => RowShown)
  /\ UNCHANGED <<server, cache, tab, form, req, hist>>

\* RoutinesPanel.handleDelete
HandleDelete(r) ==
  /\ Act /\ asking /\ ~Pending({"delete"}, None)
  /\ Send(r, Sent("delete", None))
  /\ UNCHANGED <<server, cache, tab, panel, hist>>

-----------------------------------------------------------------------------
(* The server, seen from the page                                          *)

\* MUTANT: a status the page has no name for.
NewRunPending(home) ==
  [st |-> "pending", asked |-> {}, parks |-> 0, home |-> home, late |-> FALSE]

NewRun(home) ==
  [st |-> "queued", asked |-> {}, parks |-> 0, home |-> home, late |-> FALSE]

\* HasActiveForConversation, of the routine's conversation.
RoutineBusy ==
  \E i \in Runs : run[i] # None /\ run[i].home = "routine" /\ RunActive(run[i].st)

\* A task opens a conversation of its own and is queued whatever else runs; the
\* routine waits for the last run of its conversation.
Queues(i, home) ==
  /\ home = "routine" => routine.there /\ ~RoutineBusy
  /\ run[i] = None /\ \A j \in Runs : j < i => run[j] # None
  /\ run' = [run EXCEPT ![i] = NewRun(home)]

Done(r) == req' = [req EXCEPT ![r].st = "ok"]

\* handleCreateBotTask and handleRunRoutineNow
ServeQueue(r) ==
  /\ req[r].kind \in {"enqueue", "runNow"}
  /\ \E i \in Runs :
       /\ Queues(i, IF req[r].kind = "runNow" THEN "routine" ELSE "fresh")
       /\ mine' = IF list.data # None THEN mine \cup {i} ELSE mine
  /\ UNCHANGED <<routine, ran, approved>>

\* handleCancelBotRun of a run that has a worker: its context is cancelled, and
\* the worker settles the row when it comes to it.
ServeCancel(r) ==
  /\ req[r].kind = "cancel"
  /\ run[req[r].run].st \in {"running", "waiting_approval"}
  /\ UNCHANGED <<server, approved, mine>>

\* A queued one it settles itself, with a statement of its own.
ReadQueued(r) ==
  /\ req[r].st = "sent" /\ req[r].kind = "cancel" /\ run[req[r].run].st = "queued"
  /\ req' = [req EXCEPT ![r].st = "read"]
  /\ UNCHANGED <<server, cache, tab, panel, acts, hist>>

\* SetFinished asks for no status: a run that was claimed meanwhile is settled
\* under its worker.
Worked(row) == row.st \in {"running", "waiting_approval"} \/ row.late

SetCancelled(i) ==
  run' = [run EXCEPT ![i] = [@ EXCEPT !.st = "cancelled", !.late = Worked(run[i])]]

SettleQueued(r) ==
  /\ req[r].st = "read" /\ req[r].kind = "cancel"
  /\ SetCancelled(req[r].run) /\ Done(r)
  /\ UNCHANGED <<routine, ran, cache, tab, panel, acts, hist>>

\* handleBotRunApprovals: the decisions name exactly the calls that wait.
ServeResolve(r) ==
  LET i == req[r].run IN
  /\ req[r].kind = "resolve" /\ run[i].st = "waiting_approval" /\ run[i].asked # {}
  /\ run[i].asked \subseteq req[r].calls
  /\ run' = [run EXCEPT ![i].asked = {}]
  /\ ran' = IF req[r].ok THEN ran \cup ({i} \X run[i].asked) ELSE ran
  /\ UNCHANGED <<routine, approved, mine>>

\* The handlers of a routine: what is gone or badly scheduled is refused.
ServeRoutine(r) ==
  /\ \/ /\ req[r].kind = "create" /\ ~req[r].bad /\ ~routine.there
        /\ routine' = [there |-> TRUE, on |-> TRUE, text |-> req[r].text]
     \/ /\ req[r].kind = "update" /\ ~req[r].bad /\ routine.there
        /\ routine' = [routine EXCEPT !.text = req[r].text]
     \/ /\ req[r].kind = "toggle" /\ routine.there
        /\ routine' = [routine EXCEPT !.on = req[r].ok]
     \/ /\ req[r].kind = "delete" /\ routine.there
        /\ routine' = [routine EXCEPT !.there = FALSE]
  /\ UNCHANGED <<run, ran, approved, mine>>

Serve(r) ==
  /\ req[r].st = "sent"
  /\ ServeQueue(r) \/ ServeCancel(r) \/ ServeResolve(r) \/ ServeRoutine(r)
  /\ Done(r)
  /\ UNCHANGED <<cache, tab, panel, acts, lost>>

\* A refusal of the server (400, 404, 409), or an error of it.
Refuse(r) ==
  /\ req[r].st \in {"sent", "read"}
  /\ req' = [req EXCEPT ![r].st = "failed"]
  /\ UNCHANGED <<server, cache, tab, panel, acts, hist>>

\* The answer of a request that was served does not arrive.
Lose(r) ==
  /\ Act /\ req[r].st = "ok" /\ lost' = TRUE
  /\ req' = [req EXCEPT ![r].st = "lost"]
  /\ UNCHANGED <<server, cache, tab, panel, approved, mine>>

\* The row is written by the run's worker, if it has one.
Writes(i, st, asked, parks) ==
  run' = [run EXCEPT ![i] =
    [@ EXCEPT !.st = st, !.asked = asked, !.parks = parks, !.late = FALSE]]

\* The runner claims a run, and its worker parks it on new calls or settles it.
\* No statement asks what the row says, and a row that waits says so until it
\* parks again or ends; a run that still waits for an answer ends by a failure
\* or a cancel.
RunnerMoves(i) ==
  /\ run[i] # None
  /\ \/ run[i].st = "queued" /\ Writes(i, "running", {}, run[i].parks)
     \/ /\ Worked(run[i]) /\ (run[i].st = "waiting_approval" => run[i].asked = {})
        /\ run[i].parks < MaxParks
        /\ Writes(i, "waiting_approval", {run[i].parks + 1}, run[i].parks + 1)
     \/ /\ Worked(run[i])
        /\ \E end \in {"succeeded", "failed", "cancelled"} :
             /\ run[i].st = "waiting_approval" /\ end = "succeeded" => run[i].asked = {}
             /\ Writes(i, end, run[i].asked, run[i].parks)
  /\ UNCHANGED <<routine, ran, cache, tab, panel, req, acts, hist>>

\* The server is restarted: RecoverRunning queues again what was at work, and
\* no worker is left.
ServerRestarts ==
  /\ Act
  /\ run' = [i \in Runs |->
       IF run[i] = None THEN None
       ELSE [run[i] EXCEPT !.st = IF @ \in {"running", "waiting_approval"} THEN "queued" ELSE @,
                           !.late = FALSE]]
  /\ UNCHANGED <<routine, ran, cache, tab, panel, req, hist>>

\* Somebody else acts on the bot: another tab or the API decides or cancels
\* what it read as queued, a task comes in, the scheduler queues a run.
Elsewhere ==
  /\ Act
  /\ \/ \E i \in Runs : /\ run[i] # None /\ run[i].st = "waiting_approval"
                        /\ run' = [run EXCEPT ![i].asked = {}]
     \/ \E i \in Runs : run[i] # None /\ SetCancelled(i)
     \/ \E i \in Runs, home \in {"fresh", "routine"} : Queues(i, home)
  /\ UNCHANGED <<routine, ran, cache, tab, panel, req, hist>>

-----------------------------------------------------------------------------
(* Answers                                                                 *)

\* MUTANT: a run of a routine is left to the existing polling of the list.
ReaskEnqueuedOnly(kind) == kind \in Runners

\* The mutations whose onSuccess invalidates the runs.
ReasksRuns(kind) == kind \in Runners \cup {"runNow"}

\* onSuccess of the hooks: the cache is invalidated whoever is still there.
Invalidates(r) ==
  LET kind == req[r].kind IN
  /\ list' = IF ReasksRuns(kind) /\ Here THEN Refetched(list) ELSE list
  /\ detail' = [i \in Runs |->
       IF kind = "resolve" /\ req[r].run = i /\ CardWaits(tab, list.data, i)
       THEN Refetched(detail[i]) ELSE detail[i]]
  /\ routines' = IF kind \notin Runners /\ tab = "routines" THEN Refetched(routines)
                 ELSE routines

\* The per-call callbacks, for a panel that is still there: a save closes the
\* form that is open by now, a delete the dialog.
Succeeded(r) ==
  /\ req[r].st = "ok" /\ Invalidates(r)
  /\ form' = IF req[r].kind \in Saves /\ req[r].alive THEN [form EXCEPT !.open = FALSE] ELSE form
  /\ asking' = IF req[r].kind = "delete" /\ req[r].alive THEN FALSE ELSE asking
  /\ req' = [req EXCEPT ![r] = NoReq]
  /\ UNCHANGED <<server, tab, acts, hist>>

\* A failure is toasted; the refusal of a schedule is also shown in the form.
Failed(r) ==
  /\ req[r].st \in {"failed", "lost"}
  /\ form' = IF req[r].st = "failed" /\ req[r].bad /\ req[r].alive
             THEN [form EXCEPT !.error = TRUE] ELSE form
  /\ req' = [req EXCEPT ![r] = NoReq]
  /\ UNCHANGED <<server, cache, tab, asking, acts, hist>>

-----------------------------------------------------------------------------
\* The page was opened, on its first tab, and perhaps another one clicked; the
\* bot may have a task in its queue.
Init ==
  /\ \E queued \in SUBSET {i \in Runs : \A j \in Runs : i <= j} :
       run = [i \in Runs |-> IF i \in queued THEN NewRun("fresh") ELSE None]
  /\ routine = [there |-> TRUE, on |-> TRUE, text |-> 1]
  /\ ran = {}
  /\ tab \in {"runs", "routines"}
  /\ list = Fetched(NoQuery) /\ detail = [i \in Runs |-> NoQuery]
  /\ routines = IF tab = "routines" THEN Fetched(NoQuery) ELSE NoQuery
  /\ form = Closed /\ asking = FALSE
  /\ req = [r \in Reqs |-> NoReq]
  /\ acts = 0 /\ approved = {} /\ mine = {} /\ lost = FALSE

UserStep ==
  \/ Leave \/ TypeForm \/ CloseForm \/ AskDelete
  \/ \E t \in Tabs : OpenTab(t)
  \/ \E editing \in BOOLEAN : OpenForm(editing)
  \/ \E r \in Reqs :
       \/ SubmitTask(r) \/ HandleRunNow(r) \/ HandleToggle(r) \/ SubmitForm(r) \/ HandleDelete(r)
       \/ \E i \in Runs : HandleCancel(r, i) \/ \E ok \in BOOLEAN : HandleDecide(r, i, ok)

RequestStep == \E r \in Reqs :
  Serve(r) \/ ReadQueued(r) \/ SettleQueued(r) \/ Refuse(r) \/ Succeeded(r) \/ Failed(r)

ListStep == ReadList \/ ListArrives

Next ==
  \/ UserStep \/ RequestStep \/ FetchFails \/ Elsewhere \/ ServerRestarts
  \/ \E r \in Reqs : Lose(r)
  \/ PollList \/ ListStep \/ RoutinesArrive
  \/ \E i \in Runs : RunnerMoves(i) \/ PollDetail(i) \/ DetailArrives(i)

Spec == Init /\ [][Next]_vars

\* Requests and fetches are answered, and the intervals fire. Neither the
\* user nor the runner has to do anything.
FairSpec ==
  /\ Spec
  /\ WF_vars(RequestStep) /\ WF_vars(ListStep) /\ WF_vars(PollList)
  /\ \A i \in Runs : WF_vars(DetailArrives(i)) /\ WF_vars(PollDetail(i))

-----------------------------------------------------------------------------
(* Properties                                                              *)

\* A call of a run is only executed when an Approve was clicked under it: the
\* panel shows a cached question while the run may already ask another one.
OnlyShownCallsRun == ran \subseteq approved

\* A run that was queued from this page comes up in its list, although nothing
\* polls a list without active runs.
QueuedRunIsShown ==
  \A i \in Runs : i \in mine ~> ~Here \/ lost \/ list.data = None \/ Listed(i)

\* What the page shows of a run that goes on without it catches up: a run that
\* ended, and is not revived, is not shown as active for ever, and the approval
\* panel not with calls that nobody waits for any more.
RunsAreFollowed ==
  \A i \in Runs :
    /\ (Here /\ ShownActive(i) /\ ~RunActive(run[i].st))
         ~> (~Here \/ ~ShownActive(i) \/ RunActive(run[i].st))
    /\ \A n \in Calls :
         (n \in ShownCalls(i) /\ n \notin run[i].asked) ~> (n \notin ShownCalls(i))

=============================================================================
