----------------------------- MODULE BotRunQueue -----------------------------
(***************************************************************************)
(* The background bot run queue of the Go backend.                         *)
(*                                                                         *)
(* The table bot_runs holds one row per run and outlives the process.  One *)
(* server process drains it: a claim loop takes a slot, claims the oldest  *)
(* queued row and starts a worker goroutine for it (execute).  A worker    *)
(* whose agent asks for an approval-gated tool call stores the calls in    *)
(* pending_tool_calls, marks its row waiting_approval and parks, holding   *)
(* its slot, until a request decides the calls and wakes it.  Requests     *)
(* create, cancel and approve runs concurrently with all of that; the      *)
(* process may be asked to stop, may crash and may be restarted; rows may  *)
(* be deleted under a worker; single database writes may fail.             *)
(*                                                                         *)
(* Runs are numbered in the order of created_at.  A worker step between    *)
(* two accesses to shared state is one action.  What a run says (messages, *)
(* tools, tokens, activity) is abstracted: no status depends on it.        *)
(***************************************************************************)
EXTENDS Integers, FiniteSets

CONSTANTS
  MaxRuns,      \* rows that can be created
  Convs,        \* bot conversations, each with a bot of its own
  Concurrency,  \* BOT_RUNNER_CONCURRENCY: the slots of the claim loop
  MaxPauses,    \* maxBotPauseCycles
  MaxCalls,     \* most calls one pause asks about
  Requests,     \* HTTP requests in flight at once
  MaxFaults,    \* bound: failing database calls
  MaxRestarts,  \* bound: process restarts
  Deletable     \* conversations that a user may delete, or whose bot

ASSUME ConstantsAssumption ==
  /\ MaxRuns \in Nat
  /\ Convs # {}
  /\ Concurrency \in Nat \ {0}
  /\ MaxPauses \in Nat
  /\ MaxCalls \in Nat \ {0}
  /\ MaxFaults \in Nat
  /\ MaxRestarts \in Nat
  /\ Deletable \subseteq Convs

VARIABLES
  status,    \* bot_runs.status per run, "absent" before the insert
  convOf,    \* bot_runs.conversation_id
  pending,   \* rows of pending_tool_calls still 'pending', per conversation
  asks,      \* pauses stored so far per conversation: makes call ids unique
  site,      \* "ok", or what was deleted: "botGone", "convGone"
  runner,    \* the server's runner: "off", "on", or "stopping"
  claiming,  \* whether the claim loop is between taking a slot and its claim
  slots,     \* tokens in the slot channel
  worker,    \* where the run's goroutine is, "none" if there is none
  pauses,    \* approval cycles of this goroutine
  cancels,   \* botRunner.cancels: runs with a registered cancel function
  resumes,   \* botRunner.resumes: runs with a registered resume channel
  woken,     \* runs whose current resume channel is closed
  ctxDone,   \* runs whose own context a user's cancel has ended
  request,   \* how far each HTTP request is
  faults,    \* failed database calls so far
  restarts,  \* restarts so far
  lost,      \* history: live rows whose settling or recovering write failed
  forsaken   \* history: parked runs whose calls went away without a wake-up

dbVars      == <<status, convOf, pending, asks, site>>
runnerVars  == <<runner, claiming, slots>>
workerVars  == <<worker, pauses, ctxDone>>
regVars     == <<cancels, resumes, woken>>
historyVars == <<faults, restarts, lost, forsaken>>
queueVars == <<dbVars, runnerVars, workerVars, regVars, request, historyVars>>

Runs     == 1 .. MaxRuns
CallIds  == Nat \X (1 .. MaxCalls)
Live     == {"queued", "running", "waiting_approval"}
Terminal == {"succeeded", "failed", "cancelled"}
Statuses == {"absent", "deleted"} \cup Live \cup Terminal

\* A worker between setResume and the end of its wait.
Waiting   == {"check", "parked"}
\* A worker after setCancel and before its deferred clearCancel.
Executing == {"agent", "parking", "register"} \cup Waiting \cup {"done"}
Steps     == {"none", "claimed", "setup"} \cup Executing

Idle        == [at |-> "idle"]
Request     == {Idle}
  \cup [at : {"createCheck", "createInsert"}, conv : Convs]
  \cup [at : {"cancelQueued", "cancelLive", "approveRead"}, run : Runs]
  \cup [at : {"flip", "notify"}, run : Runs, todo : SUBSET CallIds, flipped : BOOLEAN]

RunsIn(c)  == {r \in Runs : status[r] # "absent" /\ convOf[r] = c}
Workers    == {r \in Runs : worker[r] # "none"}
Parked(c)  == {r \in RunsIn(c) : worker[r] = "parked"}
Undecided(r) == pending[convOf[r]]

QueueTypeOK ==
  /\ status   \in [Runs -> Statuses]
  /\ convOf   \in [Runs -> Convs]
  /\ pending  \in [Convs -> SUBSET CallIds]
  /\ asks     \in [Convs -> Nat]
  /\ site     \in [Convs -> {"ok", "botGone", "convGone"}]
  /\ runner   \in {"off", "on", "stopping"}
  /\ claiming \in BOOLEAN
  /\ slots    \in 0 .. Concurrency
  /\ worker   \in [Runs -> Steps]
  /\ pauses   \in [Runs -> 0 .. MaxPauses]
  /\ cancels  \subseteq Runs
  /\ resumes  \subseteq Runs
  /\ woken    \subseteq Runs
  /\ ctxDone  \subseteq Runs
  /\ request  \in [Requests -> Request]
  /\ faults   \in 0 .. MaxFaults
  /\ restarts \in 0 .. MaxRestarts
  /\ lost     \subseteq Runs
  /\ forsaken \subseteq Runs

QueueInit ==
  /\ status   = [r \in Runs |-> "absent"]
  /\ convOf   = [r \in Runs |-> CHOOSE c \in Convs : TRUE]
  /\ pending  = [c \in Convs |-> {}]
  /\ asks     = [c \in Convs |-> 0]
  /\ site     = [c \in Convs |-> "ok"]
  /\ runner   = "off"
  /\ claiming = FALSE
  /\ slots    = 0
  /\ worker   = [r \in Runs |-> "none"]
  /\ pauses   = [r \in Runs |-> 0]
  /\ cancels  = {}
  /\ resumes  = {}
  /\ woken    = {}
  /\ ctxDone  = {}
  /\ request  = [q \in Requests |-> Idle]
  /\ faults   = 0
  /\ restarts = 0
  /\ lost     = {}
  /\ forsaken = {}

-----------------------------------------------------------------------------
(* Database calls.  A failing one uses up the bound MaxFaults. *)

Fault == faults < MaxFaults /\ faults' = faults + 1

\* The row's UPDATE, which finds nothing once the row is deleted.
Set(r, s) == status' = [status EXCEPT ![r] = IF @ = "deleted" THEN @ ELSE s]

\* A worker's SetFinished on the settle context, its error dropped; what is
\* left of the goroutine is its deferred clean-up.
SettleRow(r, s) ==
  /\ worker' = [worker EXCEPT ![r] = "done"]
  /\ \/ Set(r, s) /\ UNCHANGED <<faults, lost>>
     \/ Fault /\ lost' = lost \cup {r} /\ UNCHANGED status

\* A worker that sees the parent context done leaves the row for the next boot.
Leave(r) ==
  /\ worker' = [worker EXCEPT ![r] = "done"]
  /\ UNCHANGED <<status, faults, lost>>

-----------------------------------------------------------------------------
(* The process. *)

\* Mutant: recovery forgets the runs that were parked.
RecoveredRunningOnly == [r \in Runs |-> IF status[r] = "running" THEN "queued" ELSE status[r]]

\* RecoverRunning: every row a dead process left live is queued again.
Recovered == [r \in Runs |-> IF status[r] \in {"running", "waiting_approval"}
                             THEN "queued" ELSE status[r]]

\* StartBotRunner, called after the HTTP server began to serve.  A failed
\* recovery is only logged.
StartRunner ==
  /\ runner = "off"
  /\ runner' = "on"
  /\ \/ /\ status' = Recovered
        /\ lost' = {}
        /\ UNCHANGED faults
     \/ /\ Fault
        /\ lost' = lost \cup {r \in Runs : Recovered[r] # status[r]}
        /\ UNCHANGED status
  /\ UNCHANGED <<convOf, pending, asks, site, claiming, slots, workerVars, regVars,
                 request, restarts, forsaken>>

\* SIGTERM ends the parent context; requests in flight may still finish.
Stop ==
  /\ runner = "on"
  /\ runner' = "stopping"
  /\ UNCHANGED <<dbVars, claiming, slots, workerVars, regVars, request, historyVars>>

\* The process ends, by a crash or after Stop, and a new one starts: only the
\* database survives.
Restart ==
  /\ restarts < MaxRestarts
  /\ restarts' = restarts + 1
  /\ runner' = "off"
  /\ claiming' = FALSE
  /\ slots' = 0
  /\ worker' = [r \in Runs |-> "none"]
  /\ pauses' = [r \in Runs |-> 0]
  /\ cancels' = {} /\ resumes' = {} /\ woken' = {} /\ ctxDone' = {}
  /\ request' = [q \in Requests |-> Idle]
  /\ forsaken' = {}
  /\ UNCHANGED <<dbVars, faults, lost>>

-----------------------------------------------------------------------------
(* The claim loop. *)

\* The select returns on a wake or on the poll ticker, so always sooner or
\* later, and may prefer them to a stopped context; the loop goes on only if it
\* gets a slot.
TakeSlot ==
  /\ runner # "off" /\ ~claiming /\ slots < Concurrency
  /\ claiming' = TRUE
  /\ slots' = slots + 1
  /\ UNCHANGED <<dbVars, runner, workerVars, regVars, request, historyVars>>

Queued == {r \in Runs : status[r] = "queued"}
Oldest(r) == r \in Queued /\ \A q \in Queued : r <= q

\* ClaimNext takes the oldest queued row and the worker keeps the slot.
Claim(r) ==
  /\ claiming /\ runner = "on" /\ Oldest(r)
  /\ status' = [status EXCEPT ![r] = "running"]
  /\ worker' = [worker EXCEPT ![r] = "claimed"]
  /\ claiming' = FALSE
  /\ UNCHANGED <<convOf, pending, asks, site, runner, slots, pauses, ctxDone,
                 regVars, request, historyVars>>

\* Mutant: the error path keeps the slot.
ClaimNothingKeepsSlot ==
  /\ claiming
  /\ claiming' = FALSE
  /\ \/ /\ Queued = {} \/ runner = "stopping"
        /\ slots' = slots - 1
        /\ UNCHANGED faults
     \/ Fault /\ UNCHANGED slots
  /\ UNCHANGED <<dbVars, runner, workerVars, regVars, request, restarts, lost, forsaken>>

\* An empty queue, an error, or the stopped context: the slot goes back.
ClaimNothing ==
  /\ claiming
  /\ claiming' = FALSE
  /\ slots' = slots - 1
  /\ \/ (Queued = {} \/ runner = "stopping") /\ UNCHANGED faults
     \/ Fault
  /\ UNCHANGED <<dbVars, runner, workerVars, regVars, request, restarts, lost, forsaken>>

\* The claim commits but its answer is lost: the row is running without a
\* worker.
ClaimLost(r) ==
  /\ claiming /\ Oldest(r)
  /\ Fault
  /\ status' = [status EXCEPT ![r] = "running"]
  /\ lost' = lost \cup {r}
  /\ claiming' = FALSE
  /\ slots' = slots - 1
  /\ UNCHANGED <<convOf, pending, asks, site, runner, workerVars, regVars,
                 request, restarts, forsaken>>

LoopStep == TakeSlot \/ ClaimNothing \/ \E r \in Runs : Claim(r) \/ ClaimLost(r)

-----------------------------------------------------------------------------
(* A worker: execute, from the claim to the release of its slot. *)

Go(r, step) == worker' = [worker EXCEPT ![r] = step]

\* A fresh start drops the undecided calls of its conversation; a failure is
\* only logged.  A worker parked on those calls is left without a wake-up.
ClearPending(r) ==
  /\ worker[r] = "claimed"
  /\ Go(r, "setup")
  /\ \/ /\ runner # "stopping"
        /\ pending' = [pending EXCEPT ![convOf[r]] = {}]
        /\ forsaken' = IF Undecided(r) = {} THEN forsaken
                       ELSE forsaken \cup Parked(convOf[r])
        /\ UNCHANGED faults
     \/ runner = "stopping" /\ UNCHANGED <<pending, forsaken, faults>>
     \/ Fault /\ UNCHANGED <<pending, forsaken>>
  /\ UNCHANGED <<status, convOf, asks, site, runnerVars, pauses, ctxDone, regVars,
                 request, restarts, lost>>

\* Conversation, tools, task message or history could not be had.
SetupFails(r) ==
  /\ worker[r] = "setup"
  /\ IF runner = "stopping" THEN Leave(r) ELSE SettleRow(r, "failed")
  /\ UNCHANGED <<convOf, pending, asks, site, runnerVars, pauses, ctxDone, regVars,
                 request, restarts, forsaken>>

\* The task is stored and the cancel function registered: the agent runs.
SetupDone(r) ==
  /\ worker[r] = "setup" /\ site[convOf[r]] # "convGone"
  /\ Go(r, "agent")
  /\ cancels' = cancels \cup {r}
  /\ UNCHANGED <<dbVars, runnerVars, pauses, ctxDone, resumes, woken, request, historyVars>>

\* Run or RunDeferred returns an answer, also when it was cancelled meanwhile.
AgentSucceeds(r) ==
  /\ worker[r] = "agent"
  /\ SettleRow(r, "succeeded")
  /\ UNCHANGED <<convOf, pending, asks, site, runnerVars, pauses, ctxDone, regVars,
                 request, restarts, forsaken>>

\* It returns an error: settleFailure.  A Canceled or DeadlineExceeded cause,
\* the user's or any timeout's, is "cancelled".
AgentFails(r) ==
  /\ worker[r] = "agent"
  /\ IF runner = "stopping" THEN Leave(r)
     ELSE \E s \in {"failed", "cancelled"} : SettleRow(r, s)
  /\ UNCHANGED <<convOf, pending, asks, site, runnerVars, pauses, ctxDone, regVars,
                 request, restarts, forsaken>>

\* It returns calls to approve, once too often: "too many approval cycles".
AgentPausesTooOften(r) ==
  /\ worker[r] = "agent" /\ pauses[r] = MaxPauses
  /\ SettleRow(r, "failed")
  /\ UNCHANGED <<convOf, pending, asks, site, runnerVars, pauses, ctxDone, regVars,
                 request, restarts, forsaken>>

\* Mutant: the cap is checked after the pause is counted and let through.
AgentPausesUncapped(r) ==
  LET c == convOf[r] IN
  /\ worker[r] = "agent"
  /\ pauses' = [pauses EXCEPT ![r] = @ + 1]
  /\ Go(r, "parking")
  /\ asks' = [asks EXCEPT ![c] = @ + 1]
  /\ pending' = [pending EXCEPT ![c] = @ \cup {<<asks[c] + 1, 1>>}]
  /\ UNCHANGED <<status, convOf, site, runnerVars, ctxDone, regVars, request, faults,
                 restarts, lost, forsaken>>

\* It returns calls to approve.  Pending.Add stores them under fresh ids, or
\* fails and is only logged.
AgentPauses(r) ==
  LET c == convOf[r] IN
  /\ worker[r] = "agent" /\ pauses[r] < MaxPauses
  /\ pauses' = [pauses EXCEPT ![r] = @ + 1]
  /\ Go(r, "parking")
  /\ \/ /\ site[c] # "convGone"
        /\ asks' = [asks EXCEPT ![c] = @ + 1]
        /\ \E n \in 1 .. MaxCalls :
             pending' = [pending EXCEPT ![c] = @ \cup {<<asks[c] + 1, i>> : i \in 1 .. n}]
        /\ UNCHANGED faults
     \/ site[c] = "convGone" /\ UNCHANGED <<pending, asks, faults>>
     \/ Fault /\ UNCHANGED <<pending, asks>>
  /\ UNCHANGED <<status, convOf, site, runnerVars, ctxDone, regVars, request,
                 restarts, lost, forsaken>>

\* SetWaitingApproval, its error only logged.
SetWaiting(r) ==
  /\ worker[r] = "parking"
  /\ Go(r, "register")
  /\ \/ Set(r, "waiting_approval") /\ UNCHANGED faults
     \/ Fault /\ UNCHANGED status
  /\ UNCHANGED <<convOf, pending, asks, site, runnerVars, pauses, ctxDone, regVars,
                 request, restarts, lost, forsaken>>

\* A new, open resume channel is registered before the calls are looked at.
Register(r) ==
  /\ worker[r] = "register"
  /\ Go(r, "check")
  /\ resumes' = resumes \cup {r}
  /\ woken' = woken \ {r}
  /\ UNCHANGED <<dbVars, runnerVars, pauses, ctxDone, cancels, request, historyVars>>

\* The look at the calls fails, as it must on a done context: settleFailure.
CheckFails(r) ==
  /\ worker[r] = "check"
  /\ resumes' = resumes \ {r}
  /\ \/ runner = "stopping" /\ Leave(r)
     \/ runner # "stopping" /\ r \in ctxDone /\ SettleRow(r, "cancelled")
     \/ /\ runner # "stopping" /\ r \notin ctxDone
        /\ Fault
        /\ Set(r, "failed") /\ Go(r, "done") /\ UNCHANGED lost
  /\ UNCHANGED <<convOf, pending, asks, site, runnerVars, pauses, ctxDone, cancels, woken,
                 request, restarts, forsaken>>

ContextLive(r) == runner # "stopping" /\ r \notin ctxDone

\* Everything is decided: the agent runs on.  The row keeps its status.
CheckDecided(r) ==
  /\ worker[r] = "check" /\ ContextLive(r) /\ Undecided(r) = {}
  /\ Go(r, "agent")
  /\ resumes' = resumes \ {r}
  /\ UNCHANGED <<dbVars, runnerVars, pauses, ctxDone, cancels, woken, request, historyVars>>

CheckUndecided(r) ==
  /\ worker[r] = "check" /\ ContextLive(r) /\ Undecided(r) # {}
  /\ Go(r, "parked")
  /\ UNCHANGED <<dbVars, runnerVars, pauses, ctxDone, regVars, request, historyVars>>

\* Mutant: a premature wake goes back to the wait without a new registration.
WakesUnregistered(r) ==
  /\ worker[r] = "parked" /\ r \in woken
  /\ Go(r, "check")
  /\ woken' = woken \ {r}
  /\ forsaken' = forsaken \ {r}
  /\ UNCHANGED <<dbVars, runnerVars, pauses, ctxDone, cancels, resumes, request, faults,
                 restarts, lost>>

\* The resume channel is closed: register anew and look again.
Wakes(r) ==
  /\ worker[r] = "parked" /\ r \in woken
  /\ Go(r, "register")
  /\ forsaken' = forsaken \ {r}
  /\ UNCHANGED <<dbVars, runnerVars, pauses, ctxDone, regVars, request, faults,
                 restarts, lost>>

\* Mutant: the wait watches the parent context only.
ParkEndsOnShutdownOnly(r) ==
  /\ worker[r] = "parked" /\ runner = "stopping"
  /\ resumes' = resumes \ {r}
  /\ forsaken' = forsaken \ {r}
  /\ Leave(r)
  /\ UNCHANGED <<convOf, pending, asks, site, runnerVars, pauses, ctxDone, cancels, woken,
                 request, restarts>>

\* Mutant: leaving the wait keeps the resume channel registered.
ParkEndsRegistered(r) ==
  /\ worker[r] = "parked" /\ ~ContextLive(r)
  /\ forsaken' = forsaken \ {r}
  /\ IF runner = "stopping" THEN Leave(r) ELSE SettleRow(r, "cancelled")
  /\ UNCHANGED <<convOf, pending, asks, site, runnerVars, pauses, ctxDone, regVars,
                 request, restarts>>

\* The context ends under a parked run: a user's cancel, or the shutdown.
ParkEnds(r) ==
  /\ worker[r] = "parked" /\ ~ContextLive(r)
  /\ resumes' = resumes \ {r}
  /\ forsaken' = forsaken \ {r}
  /\ IF runner = "stopping" THEN Leave(r) ELSE SettleRow(r, "cancelled")
  /\ UNCHANGED <<convOf, pending, asks, site, runnerVars, pauses, ctxDone, cancels, woken,
                 request, restarts>>

\* Mutant: the slot is not given back.
ExitKeepsSlot(r) ==
  /\ worker[r] = "done"
  /\ Go(r, "none")
  /\ cancels' = cancels \ {r}
  /\ woken' = woken \ {r}
  /\ ctxDone' = ctxDone \ {r}
  /\ pauses' = [pauses EXCEPT ![r] = 0]
  /\ UNCHANGED <<dbVars, runner, claiming, slots, resumes, request, historyVars>>

\* The deferred clearCancel, and the slot released.
Exit(r) ==
  /\ worker[r] = "done"
  /\ Go(r, "none")
  /\ slots' = slots - 1
  /\ cancels' = cancels \ {r}
  /\ woken' = woken \ {r}
  /\ ctxDone' = ctxDone \ {r}
  /\ pauses' = [pauses EXCEPT ![r] = 0]
  /\ UNCHANGED <<dbVars, runner, claiming, resumes, request, historyVars>>

WorkerStep(r) ==
  \/ ClearPending(r) \/ SetupFails(r) \/ SetupDone(r)
  \/ AgentSucceeds(r) \/ AgentFails(r) \/ AgentPausesTooOften(r) \/ AgentPauses(r)
  \/ SetWaiting(r) \/ Register(r)
  \/ CheckFails(r) \/ CheckDecided(r) \/ CheckUndecided(r)
  \/ Wakes(r) \/ ParkEnds(r) \/ Exit(r)

-----------------------------------------------------------------------------
(* Requests.  One that is refused, or fails before it wrote anything, changes *)
(* nothing and is not an action. *)

At(q, step) == request[q].at = step

\* handleCreateBotTask: bot and conversation exist, no call is undecided ...
CreateTask(q, c) ==
  /\ request[q] = Idle
  /\ site[c] = "ok" /\ pending[c] = {}
  /\ request' = [request EXCEPT ![q] = [at |-> "createCheck", conv |-> c]]
  /\ UNCHANGED <<dbVars, runnerVars, workerVars, regVars, historyVars>>

\* ... HasActiveForConversation is false, or the request ends with 409 ...
CreateCheck(q) ==
  /\ At(q, "createCheck")
  /\ LET c == request[q].conv IN
     request' = [request EXCEPT ![q] =
                   IF \E r \in RunsIn(c) : status[r] \in Live
                   THEN Idle ELSE [at |-> "createInsert", conv |-> c]]
  /\ UNCHANGED <<dbVars, runnerVars, workerVars, regVars, historyVars>>

\* ... and Create inserts the row, unless what it refers to was deleted.
CreateInsert(q) ==
  /\ At(q, "createInsert")
  /\ request' = [request EXCEPT ![q] = Idle]
  /\ \/ /\ site[request[q].conv] = "ok"
        /\ \E r \in Runs :
             /\ status[r] = "absent" /\ \A p \in Runs : status[p] = "absent" => r <= p
             /\ status' = [status EXCEPT ![r] = "queued"]
             /\ convOf' = [convOf EXCEPT ![r] = request[q].conv]
     \/ site[request[q].conv] # "ok" /\ UNCHANGED <<status, convOf>>
  /\ UNCHANGED <<pending, asks, site, runnerVars, workerVars, regVars, historyVars>>

\* handleCancelBotRun reads the row and picks a way by its status ...
CancelRun(q, r) ==
  /\ request[q] = Idle /\ status[r] \in Live
  /\ request' = [request EXCEPT ![q] =
       [at |-> IF status[r] = "queued" THEN "cancelQueued" ELSE "cancelLive", run |-> r]]
  /\ UNCHANGED <<dbVars, runnerVars, workerVars, regVars, historyVars>>

\* ... for a queued one SetFinished, whatever became of the row since ...
CancelQueued(q) ==
  /\ At(q, "cancelQueued")
  /\ request' = [request EXCEPT ![q] = Idle]
  /\ Set(request[q].run, "cancelled")
  /\ UNCHANGED <<convOf, pending, asks, site, runnerVars, workerVars, regVars, historyVars>>

\* ... for a live one CancelBotRun, which finds a registered function or not.
CancelLive(q) ==
  LET r == request[q].run IN
  /\ At(q, "cancelLive")
  /\ request' = [request EXCEPT ![q] = Idle]
  /\ cancels' = cancels \ {r}
  /\ ctxDone' = ctxDone \cup ({r} \cap cancels)
  /\ UNCHANGED <<dbVars, runnerVars, worker, pauses, resumes, woken, historyVars>>

\* handleBotRunApprovals: the run is waiting ...
ApproveRun(q, r) ==
  /\ request[q] = Idle /\ status[r] = "waiting_approval"
  /\ request' = [request EXCEPT ![q] = [at |-> "approveRead", run |-> r]]
  /\ UNCHANGED <<dbVars, runnerVars, workerVars, regVars, historyVars>>

\* ... the request decides every undecided call, or is refused ...
ApproveRead(q) ==
  /\ At(q, "approveRead")
  /\ LET r == request[q].run IN
     request' = [request EXCEPT ![q] =
       IF Undecided(r) = {} THEN Idle
       ELSE [at |-> "flip", run |-> r, todo |-> Undecided(r), flipped |-> FALSE]]
  /\ UNCHANGED <<dbVars, runnerVars, workerVars, regVars, historyVars>>

\* Mutant: the request ends with its last flip and notifies nobody.
ApproveFlipSilently(q) ==
  LET r == request[q].run
      c == convOf[r]
      todo == request[q].todo
  IN
  /\ At(q, "flip")
  /\ \E id \in todo \cap pending[c] :
       /\ pending' = [pending EXCEPT ![c] = @ \ {id}]
       /\ request' = [request EXCEPT ![q] =
            IF todo = {id} THEN Idle
            ELSE [at |-> "flip", run |-> r, todo |-> todo \ {id}, flipped |-> TRUE]]
       /\ forsaken' = IF pending[c] = {id} THEN forsaken \cup (Parked(c) \ {r}) ELSE forsaken
  /\ UNCHANGED <<status, convOf, asks, site, runnerVars, workerVars, regVars,
                 faults, restarts, lost>>

\* ... SetStatus flips one call after the other, in the order of a Go map ...
ApproveFlip(q) ==
  LET r == request[q].run
      c == convOf[r]
      todo == request[q].todo
  IN
  /\ At(q, "flip")
  /\ \E id \in todo \cap pending[c] :
       /\ pending' = [pending EXCEPT ![c] = @ \ {id}]
       /\ request' = [request EXCEPT ![q] =
            [at |-> IF todo = {id} THEN "notify" ELSE "flip", run |-> r,
             todo |-> todo \ {id}, flipped |-> TRUE]]
       /\ forsaken' = IF pending[c] = {id} THEN forsaken \cup (Parked(c) \ {r}) ELSE forsaken
  /\ UNCHANGED <<status, convOf, asks, site, runnerVars, workerVars, regVars,
                 faults, restarts, lost>>

\* ... a call that is no longer undecided, or a failing write, ends the
\* request with a 500: what it flipped stays flipped and nobody is notified ...
ApproveBounces(q) ==
  LET c == convOf[request[q].run]
      todo == request[q].todo
  IN
  /\ At(q, "flip")
  /\ request' = [request EXCEPT ![q] = Idle]
  /\ \/ ~(todo \subseteq pending[c]) /\ UNCHANGED <<pending, faults>>
     \/ Fault /\ UNCHANGED pending
     \/ /\ Fault
        /\ \E id \in todo \cap pending[c] :
             pending' = [pending EXCEPT ![c] = @ \ {id}]
  /\ forsaken' = IF pending'[c] = {} /\ (request[q].flipped \/ pending[c] # {})
                 THEN forsaken \cup Parked(c) ELSE forsaken
  /\ UNCHANGED <<status, convOf, asks, site, runnerVars, workerVars, regVars,
                 restarts, lost>>

\* ... and NotifyBotRunResume closes the registered channel.
Notify(q) ==
  LET r == request[q].run IN
  /\ At(q, "notify")
  /\ request' = [request EXCEPT ![q] = Idle]
  /\ resumes' = resumes \ {r}
  /\ woken' = woken \cup ({r} \cap resumes)
  /\ UNCHANGED <<dbVars, runnerVars, workerVars, cancels, historyVars>>

RequestStep(q) ==
  \/ CreateCheck(q) \/ CreateInsert(q)
  \/ CancelQueued(q) \/ CancelLive(q)
  \/ ApproveRead(q) \/ ApproveFlip(q) \/ ApproveBounces(q) \/ Notify(q)

RequestStart(q) ==
  \/ \E c \in Convs : CreateTask(q, c)
  \/ \E r \in Runs : CancelRun(q, r) \/ ApproveRun(q, r)

\* handleDeleteConversation: its runs and calls go with it.
DeleteConversation(c) ==
  /\ c \in Deletable /\ site[c] # "convGone"
  /\ site' = [site EXCEPT ![c] = "convGone"]
  /\ status' = [r \in Runs |-> IF r \in RunsIn(c) THEN "deleted" ELSE status[r]]
  /\ pending' = [pending EXCEPT ![c] = {}]
  /\ forsaken' = IF pending[c] = {} THEN forsaken ELSE forsaken \cup Parked(c)
  /\ UNCHANGED <<convOf, asks, runnerVars, workerVars, regVars, request, faults,
                 restarts, lost>>

\* handleDeleteBot: its runs go, its conversation and the calls stay.
DeleteBot(c) ==
  /\ c \in Deletable /\ site[c] = "ok"
  /\ site' = [site EXCEPT ![c] = "botGone"]
  /\ status' = [r \in Runs |-> IF r \in RunsIn(c) THEN "deleted" ELSE status[r]]
  /\ UNCHANGED <<convOf, pending, asks, runnerVars, workerVars, regVars, request,
                 historyVars>>

-----------------------------------------------------------------------------
QueueNext ==
  \/ StartRunner \/ Stop \/ Restart
  \/ LoopStep
  \/ \E r \in Runs : WorkerStep(r)
  \/ \E q \in Requests : RequestStart(q) \/ RequestStep(q)
  \/ \E c \in Convs : DeleteConversation(c) \/ DeleteBot(c)

\* Goroutines and handlers that can move do move; model and tool calls return.
\* Users need not do anything, and nobody has to restart the process.
QueueFairness ==
  /\ WF_queueVars(StartRunner)
  /\ WF_queueVars(LoopStep)
  /\ \A r \in Runs : WF_queueVars(WorkerStep(r))
  /\ \A q \in Requests : WF_queueVars(RequestStep(q))

QueueSpec == QueueInit /\ [][QueueNext]_queueVars

QueueFairSpec == QueueSpec /\ QueueFairness

-----------------------------------------------------------------------------
(* Properties. *)

\* Every token in the slot channel is accounted for by one goroutine or by the
\* claim loop in the middle of a claim, so that runs executing or parked never
\* exceed the concurrency and no way out of execute leaks a slot.
SlotAccounting ==
  /\ slots = Cardinality(Workers) + (IF claiming THEN 1 ELSE 0)
  /\ Cardinality(Workers) <= Concurrency

\* A queued row has no goroutine, and a live row has one, unless the process is
\* on its way down or a failed write left the row behind.
RowsHaveTheirWorker ==
  \A r \in Runs :
    /\ status[r] = "queued" => worker[r] = "none"
    /\ /\ runner = "on"
       /\ status[r] \in {"running", "waiting_approval"}
       /\ worker[r] \in {"none", "done"}
       => r \in lost

\* CancelBotRun and NotifyBotRunResume only ever reach a goroutine that is
\* there to see it: no entry of either registry outlives its goroutine, and
\* whoever waits with an open channel can be found.
RegistriesFollowWorkers ==
  /\ cancels \subseteq {r \in Runs : worker[r] \in Executing}
  /\ resumes \subseteq {r \in Runs : worker[r] \in Waiting}
  /\ {r \in Runs : worker[r] \in Waiting} \subseteq resumes \cup woken

\* No lost wake-up: once the last call of a parked run is decided, the request
\* that decided it is still on its way to notify the run, or has notified it.
\* Excepted are the runs whose calls went away in another manner: decided by a
\* request that failed half-way, decided for or deleted by another run of the
\* conversation, deleted with the conversation.
NoLostWakeup ==
  \A r \in Runs :
    worker[r] = "parked" /\ Undecided(r) = {} /\ r \notin woken =>
      \/ r \in forsaken
      \/ \E q \in Requests : /\ request[q].at \in {"flip", "notify"}
                             /\ request[q].run = r
                             /\ request[q].flipped

\* A run stays live for ever only while the runner is down, a write was lost, or
\* some run is parked on calls that nobody decides (or whose wake-up is lost)
\* and holds its slot.
OnlyParkedRunsBlock ==
  \A r \in Runs :
    <>[](status[r] \in Live) =>
      <>[](\/ runner # "on" \/ lost # {}
           \/ \E q \in Runs : /\ worker[q] = "parked"
                              /\ Undecided(q) # {} \/ q \in forsaken)

\* A cancel that reached a goroutine ends it, whatever it is doing.
CancelledRunsEnd ==
  \A r \in Runs : r \in ctxDone ~> worker[r] = "none"

-----------------------------------------------------------------------------
(* What the code's comments promise beyond that. *)

\* "no worker owns the row, so the handler settles it directly instead of
\* racing a claim" (bot_runs.go:258): a finished row stays as it is.
TerminalIsFinal ==
  [][\A r \in Runs : status[r] \in Terminal => status'[r] \in {status[r], "deleted"}]_queueVars

\* "One live run per bot conversation" (bot_runs.go:150).
OneLiveRunPerConversation ==
  \A c \in Convs : Cardinality({r \in RunsIn(c) : status[r] \in Live}) <= 1

\* "a decision flip + notify ... necessarily overlaps a live registration, so
\* it closes the channel instead of being dropped" (botrunner.go:468): a run
\* whose calls were all decided by approvals requests is woken.
DecidedRunsAreWoken ==
  \A r \in Runs :
    worker[r] = "parked" /\ Undecided(r) = {} /\ r \notin woken =>
      \E q \in Requests : request[q].at \in {"flip", "notify"} /\ request[q].run = r

\* "parked runs hold their slot - a parked run is still live work"
\* (botrunner.go:54): a goroutine waits only for a run that still waits.
ParkedRunIsLiveWork ==
  \A r \in Runs : worker[r] = "parked" => status[r] \in Live
=============================================================================
