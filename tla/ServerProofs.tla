----------------------------- MODULE ServerProofs -----------------------------
(***************************************************************************)
(* Proofs about the two components whose state is the server's own, for    *)
(* every value of the constants: the queue of bot runs, and the sessions   *)
(* with their tabs. They are specifications of their own, and no theorem   *)
(* speaks of both.                                                         *)
(***************************************************************************)
EXTENDS BotRunQueue, Sessions, FiniteSetTheorems, TLAPS

-----------------------------------------------------------------------------
(* The queue                                                               *)

USE ConstantsAssumption

\* A runner that is off has no goroutine.
OffIsIdle == runner = "off" => ~claiming /\ \A r \in Runs : worker[r] = "none"

\* A row that was never inserted has no goroutine.
AbsentIsIdle == \A r \in Runs : status[r] = "absent" => worker[r] = "none"

\* A closed resume channel is out of the registry.
WokenIsUnregistered == resumes \cap woken = {}

QueueInv ==
  /\ QueueTypeOK
  /\ OffIsIdle
  /\ AbsentIsIdle
  /\ WokenIsUnregistered
  /\ SlotAccounting
  /\ RowsHaveTheirWorker
  /\ RegistriesFollowWorkers
  /\ NoLostWakeup

-----------------------------------------------------------------------------
(* The queue: slots. *)

\* Whoever holds a slot is counted in slots.
LEMMA SlotHeld ==
  ASSUME QueueTypeOK, SlotAccounting
  PROVE  /\ IsFiniteSet(Workers)
         /\ Cardinality(Workers) \in Nat
         /\ claiming => slots >= 1
         /\ \A r \in Runs : worker[r] # "none" => slots >= 1
<1>1. IsFiniteSet(Runs)
  BY FS_Interval DEF Runs
<1>2. IsFiniteSet(Workers)
  BY <1>1, FS_Subset DEF Workers
<1>3. Cardinality(Workers) \in Nat
  BY <1>2, FS_CardinalityType
<1>4. ASSUME NEW r \in Runs, worker[r] # "none" PROVE Cardinality(Workers) >= 1
  <2>1. r \in Workers
    BY <1>4 DEF Workers
  <2>2. Cardinality(Workers) # 0
    BY <2>1, <1>2, FS_EmptySet
  <2> QED
    BY <2>2, <1>3
<1> QED
  BY <1>2, <1>3, <1>4 DEF SlotAccounting, QueueTypeOK

\* A step of a goroutine other than its last keeps the set of goroutines.
LEMMA WorkersKept ==
  ASSUME QueueTypeOK, NEW r \in Runs, WorkerStep(r), ~Exit(r)
  PROVE  Workers' = Workers /\ slots' = slots /\ claiming' = claiming
<1> USE DEF QueueTypeOK, Workers, Runs, Go, SettleRow, Leave, runnerVars
<1>1. CASE ClearPending(r) \/ SetupFails(r) \/ SetupDone(r)
  BY <1>1 DEF ClearPending, SetupFails, SetupDone
<1>2. CASE AgentSucceeds(r) \/ AgentFails(r) \/ AgentPausesTooOften(r) \/ AgentPauses(r)
  BY <1>2 DEF AgentSucceeds, AgentFails, AgentPausesTooOften, AgentPauses
<1>3. CASE SetWaiting(r) \/ Register(r) \/ CheckDecided(r) \/ CheckUndecided(r)
  BY <1>3 DEF SetWaiting, Register, CheckDecided, CheckUndecided
<1>4. CASE CheckFails(r) \/ Wakes(r) \/ ParkEnds(r)
  BY <1>4 DEF CheckFails, Wakes, ParkEnds
<1> QED
  BY <1>1, <1>2, <1>3, <1>4 DEF WorkerStep

\* Requests and deletions touch neither goroutines nor slots.
LEMMA RequestsTakeNoSlot ==
  ASSUME \/ \E q \in Requests : RequestStart(q) \/ RequestStep(q)
         \/ \E c \in Convs : DeleteConversation(c) \/ DeleteBot(c)
  PROVE  UNCHANGED <<worker, pauses, runner, claiming, slots>>
<1> USE DEF runnerVars, workerVars
<1>1. ASSUME NEW q \in Requests, RequestStart(q)
      PROVE  UNCHANGED <<worker, pauses, runner, claiming, slots>>
  BY <1>1 DEF RequestStart, CreateTask, CancelRun, ApproveRun
<1>2. ASSUME NEW q \in Requests, RequestStep(q)
      PROVE  UNCHANGED <<worker, pauses, runner, claiming, slots>>
  BY <1>2 DEF RequestStep, CreateCheck, CreateInsert, CancelQueued, CancelLive,
              ApproveRead, ApproveFlip, ApproveBounces, Notify
<1>3. ASSUME NEW c \in Convs, DeleteConversation(c) \/ DeleteBot(c)
      PROVE  UNCHANGED <<worker, pauses, runner, claiming, slots>>
  BY <1>3 DEF DeleteConversation, DeleteBot
<1> QED
  BY <1>1, <1>2, <1>3

LEMMA SlotAccountingStep ==
  ASSUME QueueInv, QueueTypeOK', [QueueNext]_queueVars
  PROVE  SlotAccounting'
<1> USE DEF QueueInv, QueueTypeOK
<1>0. /\ IsFiniteSet(Workers)
      /\ Cardinality(Workers) \in Nat
      /\ claiming => slots >= 1
      /\ \A r \in Runs : worker[r] # "none" => slots >= 1
  BY SlotHeld
<1>1. ASSUME Workers' = Workers, slots' = slots, claiming' = claiming
      PROVE  SlotAccounting'
  BY <1>1 DEF SlotAccounting
<1>2. CASE StartRunner \/ Stop
  BY <1>1, <1>2 DEF StartRunner, Stop, Workers, Runs, runnerVars, workerVars
<1>3. CASE Restart
  <2>1. Workers' = {}
    BY <1>3 DEF Restart, Workers, Runs
  <2> QED
    BY <1>3, <2>1, FS_EmptySet DEF Restart, SlotAccounting
<1>4. CASE TakeSlot
  BY <1>0, <1>4 DEF TakeSlot, SlotAccounting, Workers, Runs, workerVars
<1>5. CASE ClaimNothing
  BY <1>0, <1>5 DEF ClaimNothing, SlotAccounting, Workers, Runs, workerVars
<1>6. ASSUME NEW r \in Runs, ClaimLost(r)
      PROVE  SlotAccounting'
  BY <1>0, <1>6 DEF ClaimLost, SlotAccounting, Workers, Runs, workerVars
<1>7. ASSUME NEW r \in Runs, Claim(r)
      PROVE  SlotAccounting'
  <2>1. r \notin Workers
    BY <1>7 DEF Claim, Oldest, Queued, RowsHaveTheirWorker, Workers
  <2>2. Workers' = Workers \cup {r}
    BY <1>7 DEF Claim, Workers, Runs
  <2>3. Cardinality(Workers') = Cardinality(Workers) + 1
    BY <1>0, <2>1, <2>2, FS_AddElement
  <2> QED
    BY <1>0, <1>7, <2>3 DEF Claim, SlotAccounting
<1>8. ASSUME NEW r \in Runs, Exit(r)
      PROVE  SlotAccounting'
  <2>1. r \in Workers /\ Workers' = Workers \ {r}
    BY <1>8 DEF Exit, Go, Workers, Runs
  <2>2. Cardinality(Workers') = Cardinality(Workers) - 1
    BY <1>0, <2>1, FS_RemoveElement
  <2> QED
    BY <1>0, <1>8, <2>2 DEF Exit, SlotAccounting
<1>9. ASSUME NEW r \in Runs, WorkerStep(r), ~Exit(r)
      PROVE  SlotAccounting'
  BY <1>1, <1>9, WorkersKept
<1>10. CASE \/ \E q \in Requests : RequestStart(q) \/ RequestStep(q)
            \/ \E c \in Convs : DeleteConversation(c) \/ DeleteBot(c)
  BY <1>1, <1>10, RequestsTakeNoSlot DEF Workers, Runs
<1>11. CASE UNCHANGED queueVars
  BY <1>1, <1>11 DEF queueVars, runnerVars, workerVars, Workers, Runs
<1> QED
  BY <1>2, <1>3, <1>4, <1>5, <1>6, <1>7, <1>8, <1>9, <1>10, <1>11 DEF QueueNext, LoopStep

-----------------------------------------------------------------------------
(* The queue: types. *)

\* No request in flight is a state of the requests.
LEMMA NoRequests == [q \in Requests |-> Idle] \in [Requests -> Request]
<1>1. Idle \in Request
  BY DEF Request
<1> QED
  BY <1>1

LEMMA TypeOKStep ==
  ASSUME QueueInv, [QueueNext]_queueVars
  PROVE  QueueTypeOK'
<1> USE DEF QueueInv, QueueTypeOK, dbVars, runnerVars, workerVars, regVars, historyVars
<1>0. /\ claiming => slots >= 1
      /\ \A r \in Runs : worker[r] # "none" => slots >= 1
  BY SlotHeld
<1>1. CASE StartRunner
  <2>1. Recovered \in [Runs -> Statuses]
    BY DEF Recovered, Statuses, Live
  <2>2. faults' \in 0 .. MaxFaults /\ status' \in [Runs -> Statuses] /\ lost' \subseteq Runs
    BY <1>1, <2>1 DEF StartRunner, Fault
  <2> QED
    BY <1>1, <2>2 DEF StartRunner
<1>2. CASE Stop
  BY <1>2 DEF Stop
<1>3. CASE Restart
  <2>1. worker' \in [Runs -> Steps] /\ pauses' \in [Runs -> 0 .. MaxPauses]
    BY <1>3 DEF Restart, Steps
  <2>2. request' \in [Requests -> Request]
    <3>1. request' = [q \in Requests |-> Idle]
      BY <1>3 DEF Restart
    <3> HIDE DEF QueueInv, QueueTypeOK
    <3> QED
      BY <3>1, NoRequests, Zenon
  <2>3. /\ restarts' \in 0 .. MaxRestarts
        /\ runner' \in {"off", "on", "stopping"}
        /\ slots' \in 0 .. Concurrency
    BY <1>3 DEF Restart
  <2>4. claiming' \in BOOLEAN
    BY <1>3 DEF Restart
  <2>5. /\ cancels' \subseteq Runs /\ resumes' \subseteq Runs /\ woken' \subseteq Runs
        /\ ctxDone' \subseteq Runs /\ forsaken' \subseteq Runs
    <3> HIDE DEF QueueInv, QueueTypeOK
    <3> QED
      BY <1>3, Zenon DEF Restart
  <2>6. UNCHANGED <<dbVars, faults, lost>>
    BY <1>3 DEF Restart
  <2> QED
    BY <2>1, <2>2, <2>3, <2>4, <2>5, <2>6
<1>4. CASE TakeSlot
  BY <1>4 DEF TakeSlot
<1>5. CASE ClaimNothing
  <2>1. faults' \in 0 .. MaxFaults /\ slots' \in 0 .. Concurrency
    BY <1>0, <1>5 DEF ClaimNothing, Fault
  <2> QED
    BY <1>5, <2>1 DEF ClaimNothing
<1>6. ASSUME NEW r \in Runs, Claim(r)
      PROVE  QueueTypeOK'
  BY <1>6 DEF Claim, Steps, Statuses, Live
<1>7. ASSUME NEW r \in Runs, ClaimLost(r)
      PROVE  QueueTypeOK'
  <2>1. faults' \in 0 .. MaxFaults /\ slots' \in 0 .. Concurrency
    BY <1>0, <1>7 DEF ClaimLost, Fault
  <2>2. status' \in [Runs -> Statuses]
    BY <1>7 DEF ClaimLost, Statuses, Live
  <2> QED
    BY <1>7, <2>1, <2>2 DEF ClaimLost
<1>8. ASSUME NEW r \in Runs, WorkerStep(r)
      PROVE  QueueTypeOK'
  <2> USE DEF Go, Fault, Steps, Executing, Waiting
  <2>1. CASE ClearPending(r)
    BY <2>1 DEF ClearPending, Parked, RunsIn, Undecided
  <2>2. CASE SetupFails(r)
    BY <2>2 DEF SetupFails, SettleRow, Set, Leave, Statuses, Terminal
  <2>3. CASE SetupDone(r)
    BY <2>3 DEF SetupDone
  <2>4. CASE AgentSucceeds(r)
    BY <2>4 DEF AgentSucceeds, SettleRow, Set, Statuses, Terminal
  <2>5. CASE AgentFails(r)
    BY <2>5 DEF AgentFails, SettleRow, Set, Leave, Statuses, Terminal
  <2>6. CASE AgentPausesTooOften(r)
    BY <2>6 DEF AgentPausesTooOften, SettleRow, Set, Statuses, Terminal
  <2>7. CASE AgentPauses(r)
    BY <2>7 DEF AgentPauses, CallIds
  <2>8. CASE SetWaiting(r)
    BY <2>8 DEF SetWaiting, Set, Statuses, Live
  <2>9. CASE Register(r)
    BY <2>9 DEF Register
  <2>10. CASE CheckFails(r)
    BY <2>10 DEF CheckFails, SettleRow, Set, Leave, Statuses, Terminal
  <2>11. CASE CheckDecided(r) \/ CheckUndecided(r) \/ Wakes(r)
    BY <2>11 DEF CheckDecided, CheckUndecided, Wakes
  <2>12. CASE ParkEnds(r)
    BY <2>12 DEF ParkEnds, SettleRow, Set, Leave, Statuses, Terminal
  <2>13. CASE Exit(r)
    BY <1>0, <2>13 DEF Exit
  <2> QED
    BY <1>8, <2>1, <2>2, <2>3, <2>4, <2>5, <2>6, <2>7, <2>8, <2>9, <2>10, <2>11,
       <2>12, <2>13 DEF WorkerStep
<1>9. ASSUME NEW q \in Requests, RequestStart(q)
      PROVE  QueueTypeOK'
  <2>1. ASSUME NEW c \in Convs, CreateTask(q, c)
        PROVE  QueueTypeOK'
    BY <2>1 DEF CreateTask, Request
  <2>2. ASSUME NEW r \in Runs, CancelRun(q, r) \/ ApproveRun(q, r)
        PROVE  QueueTypeOK'
    BY <2>2 DEF CancelRun, ApproveRun, Request
  <2> QED
    BY <1>9, <2>1, <2>2 DEF RequestStart
<1>10. ASSUME NEW q \in Requests, RequestStep(q)
       PROVE  QueueTypeOK'
  <2> USE DEF At, Request, Idle
  <2>1. CASE CreateCheck(q)
    BY <2>1 DEF CreateCheck
  <2>2. CASE CreateInsert(q)
    BY <2>2 DEF CreateInsert, Statuses, Live
  <2>3. CASE CancelQueued(q)
    BY <2>3 DEF CancelQueued, Set, Statuses, Terminal
  <2>4. CASE CancelLive(q)
    BY <2>4 DEF CancelLive
  <2>5. CASE ApproveRead(q)
    BY <2>5 DEF ApproveRead, Undecided
  <2>6. CASE ApproveFlip(q)
    BY <2>6 DEF ApproveFlip, Parked, RunsIn
  <2>7. CASE ApproveBounces(q)
    BY <2>7 DEF ApproveBounces, Parked, RunsIn, Fault
  <2>8. CASE Notify(q)
    BY <2>8 DEF Notify
  <2> QED
    BY <1>10, <2>1, <2>2, <2>3, <2>4, <2>5, <2>6, <2>7, <2>8 DEF RequestStep
<1>11. ASSUME NEW c \in Convs, DeleteConversation(c) \/ DeleteBot(c)
       PROVE  QueueTypeOK'
  <2>1. status' \in [Runs -> Statuses]
    BY <1>11 DEF DeleteConversation, DeleteBot, Statuses
  <2>2. forsaken' \subseteq Runs
    BY <1>11 DEF DeleteConversation, DeleteBot, Parked, RunsIn
  <2> QED
    BY <1>11, <2>1, <2>2 DEF DeleteConversation, DeleteBot
<1>12. CASE UNCHANGED queueVars
  BY <1>12 DEF queueVars
<1> QED
  BY <1>1, <1>2, <1>3, <1>4, <1>5, <1>6, <1>7, <1>8, <1>9, <1>10, <1>11, <1>12
     DEF QueueNext, LoopStep

-----------------------------------------------------------------------------
(* The queue: rows and their goroutines. *)

\* What a goroutine's last write and what its steps leave of the row.
LEMMA IdleStep ==
  ASSUME QueueInv, QueueTypeOK', [QueueNext]_queueVars
  PROVE  OffIsIdle' /\ AbsentIsIdle'
<1> USE DEF QueueInv, QueueTypeOK, OffIsIdle, AbsentIsIdle, dbVars, runnerVars, workerVars
<1>1. CASE StartRunner \/ Stop \/ Restart
  BY <1>1 DEF StartRunner, Stop, Restart, Recovered
<1>2. CASE TakeSlot \/ ClaimNothing
  BY <1>2 DEF TakeSlot, ClaimNothing
<1>3. ASSUME NEW r \in Runs, Claim(r) \/ ClaimLost(r)
      PROVE  OffIsIdle' /\ AbsentIsIdle'
  BY <1>3 DEF Claim, ClaimLost
<1>4. ASSUME NEW r \in Runs, WorkerStep(r)
      PROVE  OffIsIdle' /\ AbsentIsIdle'
  <2> USE DEF Go, Set, SettleRow, Leave
  <2>1. CASE ClearPending(r) \/ SetupFails(r) \/ SetupDone(r)
    BY <2>1 DEF ClearPending, SetupFails, SetupDone
  <2>2. CASE AgentSucceeds(r) \/ AgentFails(r) \/ AgentPausesTooOften(r) \/ AgentPauses(r)
    BY <2>2 DEF AgentSucceeds, AgentFails, AgentPausesTooOften, AgentPauses
  <2>3. CASE SetWaiting(r) \/ Register(r) \/ CheckDecided(r) \/ CheckUndecided(r)
    BY <2>3 DEF SetWaiting, Register, CheckDecided, CheckUndecided
  <2>4. CASE CheckFails(r) \/ Wakes(r) \/ ParkEnds(r) \/ Exit(r)
    BY <2>4 DEF CheckFails, Wakes, ParkEnds, Exit
  <2> QED
    BY <1>4, <2>1, <2>2, <2>3, <2>4 DEF WorkerStep
<1>5. ASSUME NEW q \in Requests, RequestStart(q) \/ RequestStep(q)
      PROVE  OffIsIdle' /\ AbsentIsIdle'
  <2>1. UNCHANGED <<worker, pauses, runner, claiming, slots>>
    BY <1>5, RequestsTakeNoSlot
  <2>2. \A r \in Runs : status'[r] = "absent" => status[r] = "absent"
    BY <1>5 DEF RequestStart, CreateTask, CancelRun, ApproveRun,
                RequestStep, CreateCheck, CreateInsert, CancelQueued, CancelLive,
                ApproveRead, ApproveFlip, ApproveBounces, Notify, Set
  <2> QED
    BY <2>1, <2>2
<1>6. ASSUME NEW c \in Convs, DeleteConversation(c) \/ DeleteBot(c)
      PROVE  OffIsIdle' /\ AbsentIsIdle'
  BY <1>6 DEF DeleteConversation, DeleteBot
<1>7. CASE UNCHANGED queueVars
  BY <1>7 DEF queueVars
<1> QED
  BY <1>1, <1>2, <1>3, <1>4, <1>5, <1>6, <1>7 DEF QueueNext, LoopStep

LEMMA RowsStep ==
  ASSUME QueueInv, QueueTypeOK', [QueueNext]_queueVars
  PROVE  RowsHaveTheirWorker'
<1> USE DEF QueueInv, QueueTypeOK, RowsHaveTheirWorker, dbVars, runnerVars, workerVars, historyVars
<1>1. CASE StartRunner
  BY <1>1 DEF StartRunner, Recovered, OffIsIdle
<1>2. CASE Stop \/ Restart \/ TakeSlot \/ ClaimNothing
  BY <1>2 DEF Stop, Restart, TakeSlot, ClaimNothing
<1>3. ASSUME NEW r \in Runs, Claim(r) \/ ClaimLost(r)
      PROVE  RowsHaveTheirWorker'
  BY <1>3 DEF Claim, ClaimLost
<1>4. ASSUME NEW r \in Runs, WorkerStep(r)
      PROVE  RowsHaveTheirWorker'
  <2> USE DEF Go, Set, SettleRow, Leave
  <2>1. CASE ClearPending(r) \/ SetupFails(r) \/ SetupDone(r)
    BY <2>1 DEF ClearPending, SetupFails, SetupDone
  <2>2. CASE AgentSucceeds(r) \/ AgentFails(r) \/ AgentPausesTooOften(r) \/ AgentPauses(r)
    BY <2>2 DEF AgentSucceeds, AgentFails, AgentPausesTooOften, AgentPauses
  <2>3. CASE SetWaiting(r) \/ Register(r) \/ CheckDecided(r) \/ CheckUndecided(r)
    BY <2>3 DEF SetWaiting, Register, CheckDecided, CheckUndecided
  <2>4. CASE CheckFails(r) \/ Wakes(r) \/ ParkEnds(r) \/ Exit(r)
    BY <2>4 DEF CheckFails, Wakes, ParkEnds, Exit
  <2> QED
    BY <1>4, <2>1, <2>2, <2>3, <2>4 DEF WorkerStep
<1>5. ASSUME NEW q \in Requests, RequestStart(q) \/ RequestStep(q)
      PROVE  RowsHaveTheirWorker'
  <2>1. UNCHANGED <<worker, pauses, runner, claiming, slots>>
    BY <1>5, RequestsTakeNoSlot
  <2>2. UNCHANGED lost
    BY <1>5 DEF RequestStart, CreateTask, CancelRun, ApproveRun,
                RequestStep, CreateCheck, CreateInsert, CancelQueued, CancelLive,
                ApproveRead, ApproveFlip, ApproveBounces, Notify
  <2>3. \A r \in Runs : \/ status'[r] \in {status[r], "cancelled"}
                        \/ status[r] = "absent" /\ status'[r] = "queued"
    BY <1>5 DEF RequestStart, CreateTask, CancelRun, ApproveRun,
                RequestStep, CreateCheck, CreateInsert, CancelQueued, CancelLive,
                ApproveRead, ApproveFlip, ApproveBounces, Notify, Set
  <2> QED
    BY <2>1, <2>2, <2>3 DEF AbsentIsIdle
<1>6. ASSUME NEW c \in Convs, DeleteConversation(c) \/ DeleteBot(c)
      PROVE  RowsHaveTheirWorker'
  BY <1>6 DEF DeleteConversation, DeleteBot
<1>7. CASE UNCHANGED queueVars
  BY <1>7 DEF queueVars
<1> QED
  BY <1>1, <1>2, <1>3, <1>4, <1>5, <1>6, <1>7 DEF QueueNext, LoopStep

-----------------------------------------------------------------------------
(* The queue: the registries. *)

LEMMA RegistriesStep ==
  ASSUME QueueInv, QueueTypeOK', [QueueNext]_queueVars
  PROVE  WokenIsUnregistered' /\ RegistriesFollowWorkers'
<1> USE DEF QueueInv, QueueTypeOK, WokenIsUnregistered, RegistriesFollowWorkers,
            runnerVars, workerVars, regVars, Executing, Waiting
<1> DEFINE Goal == WokenIsUnregistered' /\ RegistriesFollowWorkers'
<1>1. CASE StartRunner \/ Stop \/ Restart \/ TakeSlot \/ ClaimNothing
  BY <1>1 DEF StartRunner, Stop, Restart, TakeSlot, ClaimNothing
<1>2. ASSUME NEW r \in Runs, Claim(r) \/ ClaimLost(r)
      PROVE  Goal
  BY <1>2 DEF Claim, ClaimLost, Oldest, Queued, RowsHaveTheirWorker
<1>3. ASSUME NEW r \in Runs, WorkerStep(r)
      PROVE  Goal
  <2> USE DEF Go, SettleRow, Leave
  <2>1. CASE ClearPending(r) \/ SetupFails(r) \/ SetupDone(r)
    BY <2>1 DEF ClearPending, SetupFails, SetupDone
  <2>2. CASE AgentSucceeds(r) \/ AgentFails(r) \/ AgentPausesTooOften(r) \/ AgentPauses(r)
    BY <2>2 DEF AgentSucceeds, AgentFails, AgentPausesTooOften, AgentPauses
  <2>3. CASE SetWaiting(r) \/ Register(r)
    BY <2>3 DEF SetWaiting, Register
  <2>4. CASE CheckDecided(r) \/ CheckUndecided(r)
    BY <2>4 DEF CheckDecided, CheckUndecided
  <2>5. CASE CheckFails(r)
    BY <2>5 DEF CheckFails
  <2>6. CASE Wakes(r)
    BY <2>6 DEF Wakes
  <2>7. CASE ParkEnds(r)
    BY <2>7 DEF ParkEnds
  <2>8. CASE Exit(r)
    BY <2>8 DEF Exit
  <2> QED
    BY <1>3, <2>1, <2>2, <2>3, <2>4, <2>5, <2>6, <2>7, <2>8 DEF WorkerStep
<1>4. ASSUME NEW q \in Requests, RequestStart(q) \/ RequestStep(q)
      PROVE  Goal
  <2>1. UNCHANGED <<worker, pauses, runner, claiming, slots>>
    BY <1>4, RequestsTakeNoSlot
  <2>2. /\ cancels' \subseteq cancels
        /\ resumes' \subseteq resumes
        /\ woken \subseteq woken'
        /\ resumes' \cup woken' = resumes \cup woken
        /\ resumes' \cap woken' = {}
    BY <1>4 DEF RequestStart, CreateTask, CancelRun, ApproveRun,
                RequestStep, CreateCheck, CreateInsert, CancelQueued, CancelLive,
                ApproveRead, ApproveFlip, ApproveBounces, Notify
  <2> QED
    BY <2>1, <2>2
<1>5. ASSUME NEW c \in Convs, DeleteConversation(c) \/ DeleteBot(c)
      PROVE  Goal
  BY <1>5 DEF DeleteConversation, DeleteBot
<1>6. CASE UNCHANGED queueVars
  BY <1>6 DEF queueVars
<1> QED
  BY <1>1, <1>2, <1>3, <1>4, <1>5, <1>6 DEF QueueNext, LoopStep

-----------------------------------------------------------------------------
(* The queue: wake-ups. *)

LEMMA WorkerWakeups ==
  ASSUME QueueInv, NEW r \in Runs, WorkerStep(r)
  PROVE  NoLostWakeup'
<1> USE DEF QueueInv, QueueTypeOK, NoLostWakeup, Undecided, Go, SettleRow, Leave,
            dbVars, runnerVars, workerVars, regVars, historyVars
<1>1. CASE ClearPending(r)
  <2>1. \A p \in Runs : worker[p] = "parked" /\ convOf[p] = convOf[r] => p \in Parked(convOf[r])
    BY DEF Parked, RunsIn, AbsentIsIdle
  <2> QED
    BY <1>1, <2>1 DEF ClearPending
<1>2. CASE SetupFails(r) \/ SetupDone(r)
  BY <1>2 DEF SetupFails, SetupDone
<1>3. CASE AgentSucceeds(r) \/ AgentFails(r) \/ AgentPausesTooOften(r)
  BY <1>3 DEF AgentSucceeds, AgentFails, AgentPausesTooOften
<1>4. CASE AgentPauses(r)
  <2>1. \A c \in Convs : pending[c] \subseteq pending'[c]
    BY <1>4 DEF AgentPauses
  <2> QED
    BY <1>4, <2>1 DEF AgentPauses
<1>5. CASE SetWaiting(r) \/ Register(r)
  BY <1>5 DEF SetWaiting, Register
<1>6. CASE CheckDecided(r) \/ CheckUndecided(r)
  BY <1>6 DEF CheckDecided, CheckUndecided
<1>7. CASE CheckFails(r)
  BY <1>7 DEF CheckFails
<1>8. CASE Wakes(r) \/ ParkEnds(r)
  BY <1>8 DEF Wakes, ParkEnds
<1>9. CASE Exit(r)
  BY <1>9 DEF Exit
<1> QED
  BY <1>1, <1>2, <1>3, <1>4, <1>5, <1>6, <1>7, <1>8, <1>9 DEF WorkerStep

LEMMA RequestWakeups ==
  ASSUME QueueInv, NEW q \in Requests, RequestStart(q) \/ RequestStep(q)
  PROVE  NoLostWakeup'
<1> USE DEF QueueInv, QueueTypeOK, NoLostWakeup, Undecided, At,
            dbVars, runnerVars, workerVars, regVars, historyVars
<1>1. CASE RequestStart(q)
  BY <1>1 DEF RequestStart, CreateTask, CancelRun, ApproveRun, Idle
<1>2. CASE CreateCheck(q) \/ CreateInsert(q)
  BY <1>2 DEF CreateCheck, CreateInsert, AbsentIsIdle
<1>3. CASE CancelQueued(q) \/ CancelLive(q) \/ ApproveRead(q)
  BY <1>3 DEF CancelQueued, CancelLive, ApproveRead
<1>4. CASE ApproveFlip(q)
  BY <1>4 DEF ApproveFlip, Parked, RunsIn, AbsentIsIdle
<1>5. CASE ApproveBounces(q)
  BY <1>5 DEF ApproveBounces, Parked, RunsIn, AbsentIsIdle, Fault
<1>6. CASE Notify(q)
  BY <1>6 DEF Notify, RegistriesFollowWorkers, Waiting
<1> QED
  BY <1>1, <1>2, <1>3, <1>4, <1>5, <1>6 DEF RequestStep

LEMMA WakeupStep ==
  ASSUME QueueInv, [QueueNext]_queueVars
  PROVE  NoLostWakeup'
<1> USE DEF QueueInv, QueueTypeOK, NoLostWakeup, Undecided,
            dbVars, runnerVars, workerVars, regVars, historyVars
<1>1. CASE StartRunner \/ Stop \/ Restart \/ TakeSlot \/ ClaimNothing
  BY <1>1 DEF StartRunner, Stop, Restart, TakeSlot, ClaimNothing
<1>2. ASSUME NEW r \in Runs, Claim(r) \/ ClaimLost(r)
      PROVE  NoLostWakeup'
  BY <1>2 DEF Claim, ClaimLost
<1>3. ASSUME NEW r \in Runs, WorkerStep(r)
      PROVE  NoLostWakeup'
  BY <1>3, WorkerWakeups
<1>4. ASSUME NEW q \in Requests, RequestStart(q) \/ RequestStep(q)
      PROVE  NoLostWakeup'
  BY <1>4, RequestWakeups
<1>5. ASSUME NEW c \in Convs, DeleteConversation(c) \/ DeleteBot(c)
      PROVE  NoLostWakeup'
  BY <1>5 DEF DeleteConversation, DeleteBot, Parked, RunsIn, AbsentIsIdle
<1>6. CASE UNCHANGED queueVars
  BY <1>6 DEF queueVars
<1> QED
  BY <1>1, <1>2, <1>3, <1>4, <1>5, <1>6 DEF QueueNext, LoopStep

-----------------------------------------------------------------------------
(* The queue: the theorems. *)

LEMMA InitIInv == QueueInit => QueueInv
<1> SUFFICES ASSUME QueueInit PROVE QueueInv
  OBVIOUS
<1> USE DEF QueueInit
<1>1. QueueTypeOK
  <2>1. request \in [Requests -> Request]
    BY NoRequests, Zenon
  <2>2. convOf \in [Runs -> Convs]
    BY ConstantsAssumption
  <2>3. worker \in [Runs -> Steps] /\ status \in [Runs -> Statuses]
    BY DEF Statuses, Steps
  <2>4. /\ pending \in [Convs -> SUBSET CallIds]
        /\ asks \in [Convs -> Nat]
        /\ site \in [Convs -> {"ok", "botGone", "convGone"}]
        /\ pauses \in [Runs -> 0 .. MaxPauses]
    OBVIOUS
  <2>5. /\ runner \in {"off", "on", "stopping"}
        /\ slots \in 0 .. Concurrency
        /\ faults \in 0 .. MaxFaults
        /\ restarts \in 0 .. MaxRestarts
    OBVIOUS
  <2>6. /\ cancels \subseteq Runs /\ resumes \subseteq Runs /\ woken \subseteq Runs
        /\ ctxDone \subseteq Runs /\ lost \subseteq Runs /\ forsaken \subseteq Runs
    BY Zenon
  <2>7. claiming \in BOOLEAN
    OBVIOUS
  <2> HIDE DEF QueueInit
  <2> QED
    BY <2>1, <2>2, <2>3, <2>4, <2>5, <2>6, <2>7 DEF QueueTypeOK
<1>2. SlotAccounting
  <2>1. Workers = {}
    BY DEF Workers, Runs
  <2> QED
    BY <2>1, FS_EmptySet DEF SlotAccounting
<1>3. OffIsIdle /\ AbsentIsIdle /\ WokenIsUnregistered
  BY DEF OffIsIdle, AbsentIsIdle, WokenIsUnregistered
<1>4. RowsHaveTheirWorker /\ RegistriesFollowWorkers /\ NoLostWakeup
  BY DEF RowsHaveTheirWorker, RegistriesFollowWorkers, NoLostWakeup, Executing, Waiting
<1> QED
  BY <1>1, <1>2, <1>3, <1>4 DEF QueueInv

\* What the slots, the registries and the wake-ups of the bot runner rest on
\* holds of the queue: the conjunction QueueInv is inductive.
THEOREM QueueInvariance == QueueSpec => []QueueInv
<1>1. ASSUME QueueInv, [QueueNext]_queueVars
      PROVE  QueueInv'
  BY <1>1, TypeOKStep, SlotAccountingStep, IdleStep, RowsStep, RegistriesStep, WakeupStep
     DEF QueueInv
<1> QED
  BY <1>1, InitIInv, PTL DEF QueueSpec

\* Every variable has its type; in particular the pause counter of execute stays
\* within maxBotPauseCycles and the slot channel within its capacity.
THEOREM QueueTypeCorrect == QueueSpec => []QueueTypeOK
BY QueueInvariance, PTL DEF QueueInv

\* No way through loop and execute leaks a slot or gives one back twice.
THEOREM SlotsAccounted == QueueSpec => []SlotAccounting
BY QueueInvariance, PTL DEF QueueInv

\* No live row is left without a goroutine, whatever crashes, cancels and
\* deletions come in between, unless a write that settles it failed.
THEOREM RowsOwned == QueueSpec => []RowsHaveTheirWorker
BY QueueInvariance, PTL DEF QueueInv

\* The registries of CancelBotRun and NotifyBotRunResume are exact.
THEOREM RegistriesExact == QueueSpec => []RegistriesFollowWorkers
BY QueueInvariance, PTL DEF QueueInv

\* The resume channel registered before the look at the calls loses no wake-up.
THEOREM WakeupsArrive == QueueSpec => []NoLostWakeup
BY QueueInvariance, PTL DEF QueueInv

HIDE ConstantsAssumption

-----------------------------------------------------------------------------
(* Sessions                                                                *)

USE SessionsAssumption DEF Tokens

-----------------------------------------------------------------------------
(* What the server and the tabs keep, whatever gets lost.                  *)

USE DEF Held, Unrevoked

\* Every token descends from a login whose own token was issued.
LoginsIssued ==
  \A k \in Tokens :
    token[k].st # "none" => /\ token[k].login \in Tokens
                            /\ token[token[k].login].st # "none"

\* A refresh request belongs to a tab, and knows what its handler has read.
ConnsKnown ==
  \A c \in Conns :
    /\ conn[c].st # "free" => conn[c].tab \in Tabs
    /\ conn[c].st \in {"read", "rotating"} => conn[c].tok \in Tokens
    /\ conn[c].st = "yes" => conn[c].new \in Tokens

\* A rotation holds the lock of its row, and nobody else does.
LocksHeld ==
  \A c \in Conns :
    conn[c].st = "rotating" =>
      /\ token[conn[c].tok].st \in Held
      /\ \A d \in Conns : conn[d].st = "rotating" /\ conn[d].tok = conn[c].tok => d = c

Basics == /\ TypeOK /\ LoginsIssued /\ ConnsKnown /\ LocksHeld
          /\ OneUsablePerLogin /\ WaitersHaveAPromise

LEMMA BasicsInit == Init => Basics
<1> SUFFICES ASSUME Init PROVE Basics
  OBVIOUS
<1> USE DEF Init, SignedOut, NoCall, NoConn, NoRow
<1>1. TypeOK
  <2>1. NoRow \in Rows /\ NoConn \in ConnStates /\ NoCall \in CallStates
    BY DEF Rows, ConnStates, CallStates, Kinds
  <2>2. SignedOut \in [user : Users \cup {None}, live : BOOLEAN]
    OBVIOUS
  <2> HIDE DEF SignedOut, NoRow, NoConn, NoCall
  <2>3. auth \in [Tabs -> [user : Users \cup {None}, live : BOOLEAN]]
    BY <2>2
  <2>4. boot \in [Tabs -> BOOLEAN] /\ refreshing \in [Tabs -> Conns \cup {None}]
    OBVIOUS
  <2>5. cookie \in Tokens \cup {None} /\ acts \in 0..MaxActs
    OBVIOUS
  <2>6. token \in [Tokens -> Rows]
    BY <2>1
  <2>7. conn \in [Conns -> ConnStates]
    BY <2>1
  <2>8. call \in [Calls -> CallStates]
    BY <2>1
  <2>9. torn \in BOOLEAN
    OBVIOUS
  <2> QED
    BY <2>3, <2>4, <2>5, <2>6, <2>7, <2>8, <2>9 DEF TypeOK
<1>2. LoginsIssued /\ ConnsKnown /\ LocksHeld
  BY DEF LoginsIssued, ConnsKnown, LocksHeld
<1>3. OneUsablePerLogin /\ WaitersHaveAPromise
  BY DEF OneUsablePerLogin, WaitersHaveAPromise
<1> QED
  BY <1>1, <1>2, <1>3 DEF Basics

\* Types of the records the actions build.
LEMMA RowMoves ==
  ASSUME token \in [Tokens -> Rows], NEW k \in Tokens,
         NEW s \in {"none", "usable", "locked", "doomed", "spent"}
  PROVE  [token EXCEPT ![k].st = s] \in [Tokens -> Rows]
<1>1. [token[k] EXCEPT !.st = s] \in Rows
  BY DEF Rows
<1> QED
  BY <1>1

LEMMA FamilyTyped ==
  ASSUME token \in [Tokens -> Rows], NEW u, RevokeFamily(u)
  PROVE  token' \in [Tokens -> Rows]
<1>1. \A k \in Tokens : /\ token[k] \in Rows
                        /\ [token[k] EXCEPT !.st = "spent"] \in Rows
                        /\ [token[k] EXCEPT !.st = "doomed"] \in Rows
  BY DEF Rows
<1> QED
  BY <1>1 DEF RevokeFamily

LEMMA ConnMoves ==
  ASSUME conn \in [Conns -> ConnStates], NEW c \in Conns,
         NEW s \in {"free", "sent", "read", "rotating", "yes", "no"}
  PROVE  [conn EXCEPT ![c].st = s] \in [Conns -> ConnStates]
<1>1. [conn[c] EXCEPT !.st = s] \in ConnStates
  BY DEF ConnStates
<1> QED
  BY <1>1

LEMMA CallMoves ==
  ASSUME call \in [Calls -> CallStates], NEW r \in Calls,
         NEW s \in {"idle", "out", "denied", "waiting", "refused", "granted", "done"}
  PROVE  [call EXCEPT ![r].st = s] \in [Calls -> CallStates]
<1>1. [call[r] EXCEPT !.st = s] \in CallStates
  BY DEF CallStates
<1> QED
  BY <1>1

LEMMA Blank == NoConn \in ConnStates /\ NoCall \in CallStates
BY DEF NoConn, NoCall, ConnStates, CallStates

LEMMA SentTyped ==
  ASSUME cookie \in Tokens \cup {None}, conn \in [Conns -> ConnStates],
         NEW c \in Conns, NEW t \in Tabs
  PROVE  [conn EXCEPT ![c] = Sent(t)] \in [Conns -> ConnStates]
<1>1. Sent(t) \in ConnStates
  BY DEF Sent, ConnStates
<1> QED
  BY <1>1

LEMMA OutTyped ==
  ASSUME auth \in [Tabs -> [user : Users \cup {None}, live : BOOLEAN]],
         NEW t \in Tabs, NEW k \in Kinds, NEW u \in Users \cup {None},
         NEW n \in Tokens \cup {None}
  PROVE  Out(t, k, n, u) \in CallStates
<1>1. auth[t].live \in BOOLEAN
  OBVIOUS
<1> QED
  BY <1>1 DEF Out, CallStates

LEMMA ConnAnswered ==
  ASSUME NEW x \in ConnStates, NEW n \in Tokens
  PROVE  [x EXCEPT !.st = "yes", !.new = n] \in ConnStates
BY DEF ConnStates

LEMMA CallGranted ==
  ASSUME NEW x \in CallStates, NEW n \in Tokens
  PROVE  [x EXCEPT !.st = "granted", !.tok = n] \in CallStates
BY DEF CallStates

LEMMA CallExpired ==
  ASSUME NEW x \in CallStates
  PROVE  [x EXCEPT !.live = FALSE] \in CallStates
BY DEF CallStates

LEMMA TabSignedIn ==
  ASSUME NEW f \in [Tabs -> [user : Users \cup {None}, live : BOOLEAN]], NEW t \in Tabs
  PROVE  [f EXCEPT ![t].live = FALSE] \in [Tabs -> [user : Users \cup {None}, live : BOOLEAN]]
<1>1. [f[t] EXCEPT !.live = FALSE] \in [user : Users \cup {None}, live : BOOLEAN]
  OBVIOUS
<1> QED
  BY <1>1

\* A promise settles its waiting calls and nothing else.
LEMMA SettleTyped ==
  ASSUME call \in [Calls -> CallStates], NEW t \in Tabs, NEW ok \in BOOLEAN,
         Settle(t, ok)
  PROVE  call' \in [Calls -> CallStates]
<1>1. \A r \in Calls :
        /\ call[r] \in CallStates
        /\ [call[r] EXCEPT !.st = "out", !.live = TRUE, !.again = TRUE] \in CallStates
        /\ [call[r] EXCEPT !.st = "refused"] \in CallStates
  BY DEF CallStates
<1> QED
  BY <1>1 DEF Settle

\* Types are kept: an action puts into each variable what belongs there.
LEMMA Typed == ASSUME Basics, [Next]_vars PROVE TypeOK'
<1> USE DEF Basics, TypeOK
<1>1. ASSUME NEW c \in Conns, RefreshGet(c) PROVE TypeOK'
  <2>1. conn' \in [Conns -> ConnStates]
    <3>1. conn' = [conn EXCEPT ![c].st = "no"] \/ conn' = [conn EXCEPT ![c].st = "read"]
      BY <1>1 DEF RefreshGet
    <3>2. [conn EXCEPT ![c].st = "no"] \in [Conns -> ConnStates]
      BY ConnMoves
    <3>3. [conn EXCEPT ![c].st = "read"] \in [Conns -> ConnStates]
      BY ConnMoves
    <3> QED
      BY <3>1, <3>2, <3>3
  <2>2. token' \in [Tokens -> Rows]
    <3>1. token' = token \/ \E u : RevokeFamily(u)
      BY <1>1 DEF RefreshGet
    <3> QED
      BY <3>1, FamilyTyped
  <2>3. UNCHANGED <<auth, boot, refreshing, cookie, call, acts, torn>>
    BY <1>1 DEF RefreshGet, RevokeFamily
  <2> QED
    BY <2>1, <2>2, <2>3
<1>2. ASSUME NEW c \in Conns, RotateUpdate(c) PROVE TypeOK'
  <2>1. conn' \in [Conns -> ConnStates]
    <3>1. conn' = [conn EXCEPT ![c].st = "no"] \/ conn' = [conn EXCEPT ![c].st = "rotating"]
      BY <1>2 DEF RotateUpdate
    <3>2. [conn EXCEPT ![c].st = "no"] \in [Conns -> ConnStates]
      BY ConnMoves
    <3>3. [conn EXCEPT ![c].st = "rotating"] \in [Conns -> ConnStates]
      BY ConnMoves
    <3> QED
      BY <3>1, <3>2, <3>3
  <2>2. token' \in [Tokens -> Rows]
    <3>1. conn[c].tok \in Tokens
      BY <1>2 DEF RotateUpdate, ConnsKnown
    <3>2. token' = [token EXCEPT ![conn[c].tok].st = "locked"] \/ \E u : RevokeFamily(u)
      BY <1>2 DEF RotateUpdate
    <3>3. [token EXCEPT ![conn[c].tok].st = "locked"] \in [Tokens -> Rows]
      BY <3>1, RowMoves
    <3>4. (\E u : RevokeFamily(u)) => token' \in [Tokens -> Rows]
      BY FamilyTyped
    <3> QED
      BY <3>2, <3>3, <3>4
  <2>3. UNCHANGED <<auth, boot, refreshing, cookie, call, acts, torn>>
    BY <1>2 DEF RotateUpdate, RevokeFamily
  <2> QED
    BY <2>1, <2>2, <2>3
<1>3. ASSUME NEW c \in Conns, RotateCommit(c) PROVE TypeOK'
  <2>1. conn' \in [Conns -> ConnStates]
    <3>1. \A n \in Tokens : [conn[c] EXCEPT !.st = "yes", !.new = n] \in ConnStates
      BY ConnAnswered
    <3>2. PICK n \in Tokens : conn' = [conn EXCEPT ![c].st = "yes", ![c].new = n]
      BY <1>3 DEF RotateCommit
    <3>3. conn' = [conn EXCEPT ![c] = [conn[c] EXCEPT !.st = "yes", !.new = n]]
      BY <3>2
    <3> QED
      BY <3>1, <3>3
  <2>2. token' \in [Tokens -> Rows]
    <3>1. conn[c].tok \in Tokens
      BY <1>3 DEF RotateCommit, ConnsKnown
    <3>2. /\ [token[conn[c].tok] EXCEPT !.st = "usable"] \in Rows
          /\ [token[conn[c].tok] EXCEPT !.st = "spent"] \in Rows
      <4>1. \A x \in Rows : /\ [x EXCEPT !.st = "usable"] \in Rows
                            /\ [x EXCEPT !.st = "spent"] \in Rows
        BY DEF Rows
      <4> QED
        BY <3>1, <4>1
    <3>3. PICK n \in Tokens :
            token' = [token EXCEPT ![conn[c].tok].st = "spent",
                                   ![n] = [token[conn[c].tok] EXCEPT !.st = "usable"]]
      BY <1>3 DEF RotateCommit
    <3>4. \A k \in Tokens : token'[k] \in Rows
      <4> TAKE k \in Tokens
      <4>1. CASE k = n
        BY <4>1, <3>1, <3>2, <3>3
      <4>2. CASE k # n /\ k = conn[c].tok
        BY <4>2, <3>1, <3>2, <3>3
      <4>3. CASE k # n /\ k # conn[c].tok
        BY <4>3, <3>1, <3>3
      <4> QED
        BY <4>1, <4>2, <4>3
    <3> QED
      BY <3>3, <3>4
  <2>3. UNCHANGED <<auth, boot, refreshing, cookie, call, acts, torn>>
    BY <1>3 DEF RotateCommit
  <2> QED
    BY <2>1, <2>2, <2>3
<1>4. ASSUME NEW r \in Calls, ServeSignIn(r) PROVE TypeOK'
  <2>1. token' \in [Tokens -> Rows]
    <3>1. \A n \in Tokens : [st |-> "usable", user |-> call[r].user, login |-> n] \in Rows
      BY DEF Rows, CallStates
    <3> QED
      BY <1>4, <3>1 DEF ServeSignIn
  <2>2. call' \in [Calls -> CallStates]
    <3>1. \A n \in Tokens : [call[r] EXCEPT !.st = "granted", !.tok = n] \in CallStates
      BY CallGranted
    <3>2. CASE call' = [call EXCEPT ![r].st = "denied"]
      BY <3>2, CallMoves
    <3>3. ASSUME NEW n \in Tokens, call' = [call EXCEPT ![r].st = "granted", ![r].tok = n]
          PROVE  call' \in [Calls -> CallStates]
      <4>1. call' = [call EXCEPT ![r] = [call[r] EXCEPT !.st = "granted", !.tok = n]]
        BY <3>3
      <4> QED
        BY <4>1, <3>1
    <3> QED
      BY <1>4, <3>2, <3>3 DEF ServeSignIn
  <2>3. UNCHANGED <<auth, boot, refreshing, cookie, conn, acts, torn>>
    BY <1>4 DEF ServeSignIn
  <2> QED
    BY <2>1, <2>2, <2>3
<1>5. ASSUME NEW r \in Calls, ServeLogout(r) PROVE TypeOK'
  <2>1. token' \in [Tokens -> Rows]
    BY <1>5, FamilyTyped DEF ServeLogout
  <2>2. call' \in [Calls -> CallStates]
    BY <1>5, CallMoves DEF ServeLogout
  <2>3. torn' \in BOOLEAN
    BY <1>5 DEF ServeLogout, RevokeFamily
  <2>4. UNCHANGED <<auth, boot, refreshing, cookie, conn, acts>>
    BY <1>5 DEF ServeLogout, RevokeFamily
  <2> QED
    BY <2>1, <2>2, <2>3, <2>4
<1>6. ASSUME NEW r \in Calls, ServePage(r) PROVE TypeOK'
  <2>1. call' \in [Calls -> CallStates]
    BY <1>6, CallMoves, Blank DEF ServePage
  <2>2. UNCHANGED <<auth, boot, refreshing, cookie, token, conn, acts, torn>>
    BY <1>6 DEF ServePage
  <2> QED
    BY <2>1, <2>2
<1>7. ASSUME NEW c \in Conns, RefreshAnswered(c) PROVE TypeOK'
  <2>1. cookie' \in Tokens \cup {None}
    BY <1>7 DEF RefreshAnswered, Settle, ConnsKnown
  <2>2. auth' \in [Tabs -> [user : Users \cup {None}, live : BOOLEAN]]
    <3>1. CASE conn[c].st = "yes"
      <4>1. conn[c].new \in Tokens
        BY <3>1 DEF ConnsKnown
      <4>2. [user |-> token[conn[c].new].user, live |-> TRUE] \in [user : Users \cup {None}, live : BOOLEAN]
        BY <4>1 DEF Rows
      <4> QED
        BY <1>7, <3>1, <4>2 DEF RefreshAnswered
    <3> QED
      BY <1>7, <3>1 DEF RefreshAnswered
  <2>3. refreshing' \in [Tabs -> Conns \cup {None}]
    BY <1>7 DEF RefreshAnswered, Settle, ConnsKnown
  <2>4. boot' \in [Tabs -> BOOLEAN]
    BY <1>7 DEF RefreshAnswered, Settle, ConnsKnown
  <2>5. call' \in [Calls -> CallStates]
    BY <1>7, SettleTyped DEF RefreshAnswered, ConnsKnown
  <2>6. conn' \in [Conns -> ConnStates]
    BY <1>7, Blank DEF RefreshAnswered
  <2>7. UNCHANGED <<token, acts, torn>>
    BY <1>7 DEF RefreshAnswered, Settle
  <2> QED
    BY <2>1, <2>2, <2>3, <2>4, <2>5, <2>6, <2>7
<1>8. ASSUME NEW c \in Conns, RefreshOrphaned(c) PROVE TypeOK'
  <2>1. conn' \in [Conns -> ConnStates]
    BY <1>8, Blank DEF RefreshOrphaned
  <2>2. UNCHANGED <<auth, boot, refreshing, cookie, token, call, acts, torn>>
    BY <1>8 DEF RefreshOrphaned
  <2> QED
    BY <2>1, <2>2
<1>9. ASSUME NEW c \in Conns, RefreshLost(c) PROVE TypeOK'
  <2>1. refreshing' \in [Tabs -> Conns \cup {None}]
    BY <1>9 DEF RefreshLost, Settle, ConnsKnown
  <2>2. boot' \in [Tabs -> BOOLEAN]
    BY <1>9 DEF RefreshLost, Settle, ConnsKnown
  <2>3. call' \in [Calls -> CallStates]
    BY <1>9, SettleTyped DEF RefreshLost, ConnsKnown
  <2>4. conn' \in [Conns -> ConnStates]
    BY <1>9, Blank DEF RefreshLost
  <2>5. torn' \in BOOLEAN
    BY <1>9 DEF RefreshLost, Settle, ConnsKnown
  <2>6. UNCHANGED <<auth, cookie, token, acts>>
    BY <1>9 DEF RefreshLost, Settle
  <2> QED
    BY <2>1, <2>2, <2>3, <2>4, <2>5, <2>6
<1>10. ASSUME NEW r \in Calls, OnDenied(r) PROVE TypeOK'
  <2>1. call' \in [Calls -> CallStates]
    <3>1. call' = [call EXCEPT ![r].st = "refused"] \/ call' = [call EXCEPT ![r].st = "waiting"]
      BY <1>10 DEF OnDenied
    <3>2. [call EXCEPT ![r].st = "refused"] \in [Calls -> CallStates]
      BY CallMoves
    <3>3. [call EXCEPT ![r].st = "waiting"] \in [Calls -> CallStates]
      BY CallMoves
    <3> QED
      BY <3>1, <3>2, <3>3
  <2>2. conn' \in [Conns -> ConnStates]
    BY <1>10, SentTyped DEF OnDenied, TryRefresh
  <2>3. refreshing' \in [Tabs -> Conns \cup {None}]
    BY <1>10 DEF OnDenied, TryRefresh
  <2>4. torn' \in BOOLEAN
    BY <1>10 DEF OnDenied, TryRefresh, SharedCookie
  <2>5. UNCHANGED <<auth, boot, cookie, token, acts>>
    BY <1>10 DEF OnDenied, TryRefresh
  <2> QED
    BY <2>1, <2>2, <2>3, <2>4, <2>5
<1>11. ASSUME NEW r \in Calls, OnRefused(r) PROVE TypeOK'
  <2>1. auth' \in [Tabs -> [user : Users \cup {None}, live : BOOLEAN]]
    BY <1>11 DEF OnRefused, SignedOut
  <2>2. call' \in [Calls -> CallStates]
    BY <1>11, Blank DEF OnRefused
  <2>3. UNCHANGED <<boot, refreshing, cookie, token, conn, acts, torn>>
    BY <1>11 DEF OnRefused
  <2> QED
    BY <2>1, <2>2, <2>3
<1>12. ASSUME NEW r \in Calls, OnGranted(r) PROVE TypeOK'
  <2>1. cookie' \in Tokens \cup {None}
    BY <1>12 DEF OnGranted, CallStates
  <2>2. auth' \in [Tabs -> [user : Users \cup {None}, live : BOOLEAN]]
    <3>1. [user |-> call[r].user, live |-> TRUE] \in [user : Users \cup {None}, live : BOOLEAN]
      BY DEF CallStates
    <3> QED
      BY <1>12, <3>1 DEF OnGranted
  <2>3. call' \in [Calls -> CallStates]
    BY <1>12, Blank DEF OnGranted
  <2>4. UNCHANGED <<boot, refreshing, token, conn, acts, torn>>
    BY <1>12 DEF OnGranted
  <2> QED
    BY <2>1, <2>2, <2>3, <2>4
<1>13. ASSUME NEW r \in Calls, OnLoggedOut(r) PROVE TypeOK'
  <2>1. cookie' \in Tokens \cup {None}
    BY <1>13 DEF OnLoggedOut
  <2>2. auth' \in [Tabs -> [user : Users \cup {None}, live : BOOLEAN]]
    BY <1>13 DEF OnLoggedOut, SignedOut
  <2>3. call' \in [Calls -> CallStates]
    BY <1>13, Blank DEF OnLoggedOut
  <2>4. torn' \in BOOLEAN
    BY <1>13 DEF OnLoggedOut
  <2>5. UNCHANGED <<boot, refreshing, token, conn, acts>>
    BY <1>13 DEF OnLoggedOut
  <2> QED
    BY <2>1, <2>2, <2>3, <2>4, <2>5
<1>14. ASSUME NEW r \in Calls, CallLost(r) PROVE TypeOK'
  <2>1. call' \in [Calls -> CallStates]
    BY <1>14, Blank DEF CallLost
  <2>2. UNCHANGED <<auth, boot, refreshing, cookie, token, conn, acts, torn>>
    BY <1>14 DEF CallLost
  <2> QED
    BY <2>1, <2>2
<1>15. ASSUME NEW t \in Tabs, Expire(t) PROVE TypeOK'
  <2>1. acts' \in 0..MaxActs
    BY <1>15 DEF Expire, Act
  <2>2. auth' \in [Tabs -> [user : Users \cup {None}, live : BOOLEAN]]
    BY <1>15, TabSignedIn DEF Expire
  <2>3. call' \in [Calls -> CallStates]
    <3>1. \A r \in Calls : call[r] \in CallStates /\ [call[r] EXCEPT !.live = FALSE] \in CallStates
      BY CallExpired
    <3> QED
      BY <1>15, <3>1 DEF Expire
  <2>4. UNCHANGED <<boot, refreshing, cookie, token, conn, torn>>
    BY <1>15 DEF Expire, Act
  <2> QED
    BY <2>1, <2>2, <2>3, <2>4
<1>16. ASSUME NEW t \in Tabs, LoadPage(t) PROVE TypeOK'
  <2>1. acts' \in 0..MaxActs
    BY <1>16 DEF LoadPage, Act, DropPage
  <2>2. auth' \in [Tabs -> [user : Users \cup {None}, live : BOOLEAN]]
    BY <1>16 DEF LoadPage, Act, DropPage, SignedOut
  <2>3. call' \in [Calls -> CallStates]
    BY <1>16, Blank DEF LoadPage, DropPage
  <2>4. boot' \in [Tabs -> BOOLEAN]
    BY <1>16 DEF LoadPage, Act, DropPage
  <2>5. conn' \in [Conns -> ConnStates]
    BY <1>16, SentTyped DEF LoadPage
  <2>6. refreshing' \in [Tabs -> Conns \cup {None}]
    BY <1>16 DEF LoadPage, Act, DropPage
  <2>7. torn' \in BOOLEAN
    BY <1>16 DEF LoadPage, Act, DropPage, SharedCookie
  <2>8. UNCHANGED <<cookie, token>>
    BY <1>16 DEF LoadPage, Act, DropPage
  <2> QED
    BY <2>1, <2>2, <2>3, <2>4, <2>5, <2>6, <2>7, <2>8
<1>17. ASSUME NEW r \in Calls, NEW k \in PageKinds, SendPage(r, k) PROVE TypeOK'
  <2>1. acts' \in 0..MaxActs
    BY <1>17 DEF SendPage, Act
  <2>2. call' \in [Calls -> CallStates]
    BY <1>17, OutTyped DEF SendPage, Kinds
  <2>3. UNCHANGED <<auth, boot, refreshing, cookie, token, conn, torn>>
    BY <1>17 DEF SendPage, Act
  <2> QED
    BY <2>1, <2>2, <2>3
<1>18. ASSUME NEW r \in Calls, NEW u \in Users, SubmitAuthForm(r, u) PROVE TypeOK'
  <2>1. acts' \in 0..MaxActs
    BY <1>18 DEF SubmitAuthForm, Act
  <2>2. call' \in [Calls -> CallStates]
    BY <1>18, OutTyped DEF SubmitAuthForm, Kinds, SignInKinds
  <2>3. UNCHANGED <<auth, boot, refreshing, cookie, token, conn, torn>>
    BY <1>18 DEF SubmitAuthForm, Act
  <2> QED
    BY <2>1, <2>2, <2>3
<1>19. ASSUME NEW r \in Calls, NEW u \in Users, LoadCallback(r, u) PROVE TypeOK'
  <2>1. acts' \in 0..MaxActs
    BY <1>19 DEF LoadCallback, Act, DropPage
  <2>2. auth' \in [Tabs -> [user : Users \cup {None}, live : BOOLEAN]]
    BY <1>19 DEF LoadCallback, Act, DropPage, SignedOut
  <2>3. call' \in [Calls -> CallStates]
    <3>1. [Out(TabOf[r], "code", None, u) EXCEPT !.live = FALSE] \in CallStates
      BY OutTyped, CallExpired DEF Kinds, SignInKinds
    <3> HIDE DEF Out, CallStates
    <3>2. \A q \in Calls : call'[q] \in CallStates
      BY <1>19, <3>1, Blank DEF LoadCallback, DropPage
    <3> QED
      BY <1>19, <3>2 DEF LoadCallback, DropPage
  <2>4. boot' \in [Tabs -> BOOLEAN]
    BY <1>19 DEF LoadCallback, Act, DropPage
  <2>5. refreshing' \in [Tabs -> Conns \cup {None}]
    BY <1>19 DEF LoadCallback, Act, DropPage
  <2>6. torn' \in BOOLEAN
    BY <1>19 DEF LoadCallback, Act, DropPage
  <2>7. UNCHANGED <<cookie, token, conn>>
    BY <1>19 DEF LoadCallback, Act, DropPage
  <2> QED
    BY <2>1, <2>2, <2>3, <2>4, <2>5, <2>6, <2>7
<1>20. ASSUME NEW r \in Calls, Logout(r) PROVE TypeOK'
  <2>1. acts' \in 0..MaxActs
    BY <1>20 DEF Logout, Act
  <2>2. call' \in [Calls -> CallStates]
    BY <1>20, OutTyped DEF Logout, Kinds
  <2>3. UNCHANGED <<auth, boot, refreshing, cookie, token, conn, torn>>
    BY <1>20 DEF Logout, Act
  <2> QED
    BY <2>1, <2>2, <2>3
<1>21. CASE UNCHANGED vars
  BY <1>21 DEF vars
<1>22. ASSUME NEW c \in Conns, RefreshFails(c) PROVE TypeOK'
  <2>1. conn' \in [Conns -> ConnStates]
    BY <1>22, ConnMoves DEF RefreshFails
  <2>2. token' \in [Tokens -> Rows]
    <3>1. CASE conn[c].st # "rotating"
      BY <1>22, <3>1 DEF RefreshFails
    <3>2. CASE conn[c].st = "rotating"
      <4>1. conn[c].tok \in Tokens
        BY <3>2 DEF ConnsKnown
      <4>2. /\ [token EXCEPT ![conn[c].tok].st = "usable"] \in [Tokens -> Rows]
            /\ [token EXCEPT ![conn[c].tok].st = "spent"] \in [Tokens -> Rows]
        BY <4>1, RowMoves
      <4>3. CASE token[conn[c].tok].st = "doomed"
        BY <1>22, <3>2, <4>2, <4>3 DEF RefreshFails
      <4>4. CASE token[conn[c].tok].st # "doomed"
        BY <1>22, <3>2, <4>2, <4>4 DEF RefreshFails
      <4> QED
        BY <4>3, <4>4
    <3> QED
      BY <3>1, <3>2
  <2>3. UNCHANGED <<auth, boot, refreshing, cookie, call, acts, torn>>
    BY <1>22 DEF RefreshFails
  <2> QED
    BY <2>1, <2>2, <2>3
<1> QED
  BY <1>1, <1>2, <1>3, <1>4, <1>5, <1>6, <1>7, <1>8, <1>9, <1>10, <1>11, <1>12, <1>13,
     <1>14, <1>15, <1>16, <1>17, <1>18, <1>19, <1>20, <1>21, <1>22
     DEF Next, ServerStep, TabStep, Environment

-----------------------------------------------------------------------------
(* Tokens: one usable token per login.                                     *)

\* What every action but the two that insert a row does to the table.
NoNewToken ==
  \A k \in Tokens :
    /\ token'[k].login = token[k].login
    /\ \/ token'[k].st = token[k].st
       \/ token[k].st \in Unrevoked /\ token'[k].st \in Unrevoked \cup {"spent"}

LEMMA FamilySpends ==
  ASSUME TypeOK, NEW u, RevokeFamily(u)
  PROVE  /\ NoNewToken
         /\ \A k \in Tokens : token[k].st \in Held => token'[k].st \in Held
<1>1. \A k \in Tokens : /\ [token[k] EXCEPT !.st = "spent"].st = "spent"
                        /\ [token[k] EXCEPT !.st = "spent"].login = token[k].login
  BY DEF TypeOK, Rows
<1> QED
  BY <1>1 DEF RevokeFamily, NoNewToken

LEMMA NoNewTokenKeeps ==
  ASSUME LoginsIssued, OneUsablePerLogin, NoNewToken
  PROVE  LoginsIssued' /\ OneUsablePerLogin'
BY DEF LoginsIssued, OneUsablePerLogin, NoNewToken

\* handleRefresh's read of the token: it goes on, or answers 401.
LEMMA GetReads ==
  ASSUME Basics, NEW c \in Conns, RefreshGet(c)
  PROVE  /\ NoNewToken
         /\ \A k \in Tokens : token[k].st \in Held => token'[k].st \in Held
         /\ conn[c].st = "sent" /\ conn'[c].st \in {"read", "no"}
         /\ conn'[c].tab = conn[c].tab /\ conn'[c].tok = conn[c].tok
         /\ \A d \in Conns : d # c => conn'[d] = conn[d]
         /\ conn'[c].st = "read" => conn[c].tok \in Tokens
         /\ conn[c].tok = None => UNCHANGED token
         /\ conn[c].tok # None /\ token[conn[c].tok].st = "usable"
              => UNCHANGED token /\ conn'[c].st = "read"
<1>1. conn[c] \in ConnStates /\ (conn[c].tok = None \/ conn[c].tok \in Tokens)
  BY DEF Basics, TypeOK, ConnStates
<1>2. \A s \in {"read", "no"} :
        /\ [conn[c] EXCEPT !.st = s].st = s
        /\ [conn[c] EXCEPT !.st = s].tab = conn[c].tab
        /\ [conn[c] EXCEPT !.st = s].tok = conn[c].tok
  BY <1>1 DEF ConnStates
<1>3. UNCHANGED token => /\ NoNewToken
                         /\ \A k \in Tokens : token[k].st \in Held => token'[k].st \in Held
  BY DEF NoNewToken
<1>4. CASE conn[c].tok = None
  <2>1. conn' = [conn EXCEPT ![c] = [conn[c] EXCEPT !.st = "no"]] /\ UNCHANGED token
    BY <1>4 DEF RefreshGet
  <2>2. /\ conn'[c] = [conn[c] EXCEPT !.st = "no"]
        /\ \A d \in Conns : d # c => conn'[d] = conn[d]
    BY <2>1 DEF Basics, TypeOK
  <2>3. conn'[c].st = "no" /\ conn'[c].tab = conn[c].tab /\ conn'[c].tok = conn[c].tok
    BY <1>2, <2>2
  <2> QED
    BY <1>3, <1>4, <2>1, <2>2, <2>3 DEF RefreshGet
<1>5. CASE conn[c].tok # None /\ token[conn[c].tok].st \in Unrevoked
  <2>1. conn' = [conn EXCEPT ![c] = [conn[c] EXCEPT !.st = "read"]] /\ UNCHANGED token
    BY <1>5 DEF RefreshGet
  <2>2. /\ conn'[c] = [conn[c] EXCEPT !.st = "read"]
        /\ \A d \in Conns : d # c => conn'[d] = conn[d]
    BY <2>1 DEF Basics, TypeOK
  <2>3. conn'[c].st = "read" /\ conn'[c].tab = conn[c].tab /\ conn'[c].tok = conn[c].tok
    BY <1>2, <2>2
  <2> QED
    BY <1>1, <1>3, <1>5, <2>1, <2>2, <2>3 DEF RefreshGet
<1>6. CASE conn[c].tok # None /\ token[conn[c].tok].st \notin Unrevoked
  <2>1. /\ conn' = [conn EXCEPT ![c] = [conn[c] EXCEPT !.st = "no"]]
        /\ RevokeFamily(token[conn[c].tok].user)
    BY <1>6 DEF RefreshGet
  <2>2. /\ conn'[c] = [conn[c] EXCEPT !.st = "no"]
        /\ \A d \in Conns : d # c => conn'[d] = conn[d]
    BY <2>1 DEF Basics, TypeOK
  <2>3. conn'[c].st = "no" /\ conn'[c].tab = conn[c].tab /\ conn'[c].tok = conn[c].tok
    BY <1>2, <2>2
  <2>4. /\ NoNewToken
        /\ \A k \in Tokens : token[k].st \in Held => token'[k].st \in Held
    BY <2>1, FamilySpends DEF Basics
  <2> QED
    BY <1>6, <2>2, <2>3, <2>4 DEF RefreshGet
<1> QED
  BY <1>4, <1>5, <1>6

\* Rotate's UPDATE either locks the row of a request that has read it, or
\* revokes a family.
LEMMA UpdateLocks ==
  ASSUME Basics, NEW c \in Conns, RotateUpdate(c)
  PROVE  /\ NoNewToken
         /\ \A k \in Tokens : token[k].st \in Held => token'[k].st \in Held
         /\ conn[c].st = "read" /\ conn[c].tok \in Tokens
         /\ conn'[c].st \in {"rotating", "no"}
         /\ conn'[c].tab = conn[c].tab /\ conn'[c].tok = conn[c].tok
         /\ \A d \in Conns : d # c => conn'[d] = conn[d]
         /\ token[conn[c].tok].st # "usable" => conn'[c].st = "no"
         /\ token[conn[c].tok].st = "usable" =>
              /\ conn'[c].st = "rotating" /\ token'[conn[c].tok].st = "locked"
              /\ \A k \in Tokens : k # conn[c].tok => token'[k] = token[k]
<1> DEFINE j == conn[c].tok
<1>1. j \in Tokens /\ conn[c].st = "read" /\ conn[c] \in ConnStates
  BY DEF RotateUpdate, Basics, ConnsKnown, TypeOK
<1>2. \A k \in Tokens : /\ [token[k] EXCEPT !.st = "locked"].st = "locked"
                        /\ [token[k] EXCEPT !.st = "locked"].login = token[k].login
  BY DEF Basics, TypeOK, Rows
<1>3. \A s \in {"rotating", "no"} :
        /\ [conn[c] EXCEPT !.st = s].st = s
        /\ [conn[c] EXCEPT !.st = s].tab = conn[c].tab
        /\ [conn[c] EXCEPT !.st = s].tok = j
  BY <1>1 DEF ConnStates
<1>4. CASE token[j].st = "usable"
  <2>1. /\ token' = [token EXCEPT ![j] = [token[j] EXCEPT !.st = "locked"]]
        /\ conn' = [conn EXCEPT ![c] = [conn[c] EXCEPT !.st = "rotating"]]
    BY <1>4 DEF RotateUpdate
  <2>2. /\ \A k \in Tokens : k # j => token'[k] = token[k]
        /\ \A d \in Conns : d # c => conn'[d] = conn[d]
    BY <2>1 DEF Basics, TypeOK
  <2>3. /\ token'[j] = [token[j] EXCEPT !.st = "locked"]
        /\ conn'[c] = [conn[c] EXCEPT !.st = "rotating"]
    BY <1>1, <2>1 DEF Basics, TypeOK
  <2>4. /\ token'[j].st = "locked" /\ token'[j].login = token[j].login
    BY <1>1, <1>2, <2>3
  <2>5. conn'[c].st = "rotating" /\ conn'[c].tab = conn[c].tab /\ conn'[c].tok = j
    BY <1>3, <2>3
  <2>6. NoNewToken
    BY <1>4, <2>2, <2>4 DEF NoNewToken
  <2> QED
    BY <1>1, <1>4, <2>2, <2>4, <2>5, <2>6
<1>5. CASE token[j].st # "usable"
  <2>1. RevokeFamily(token[j].user) /\ conn' = [conn EXCEPT ![c] = [conn[c] EXCEPT !.st = "no"]]
    BY <1>5 DEF RotateUpdate
  <2>2. /\ conn'[c] = [conn[c] EXCEPT !.st = "no"]
        /\ \A d \in Conns : d # c => conn'[d] = conn[d]
    BY <2>1 DEF Basics, TypeOK
  <2>3. conn'[c].st = "no" /\ conn'[c].tab = conn[c].tab /\ conn'[c].tok = j
    BY <1>3, <2>2
  <2>4. /\ NoNewToken
        /\ \A k \in Tokens : token[k].st \in Held => token'[k].st \in Held
    BY <2>1, FamilySpends DEF Basics
  <2> QED
    BY <1>1, <1>5, <2>2, <2>3, <2>4
<1> QED
  BY <1>4, <1>5

\* Rotate's commit: the successor takes the place of the row it spends.
LEMMA CommitReplaces ==
  ASSUME Basics, NEW c \in Conns, RotateCommit(c)
  PROVE  \E n \in Tokens :
           /\ token[n].st = "none" /\ n # conn[c].tok /\ conn[c].tok \in Tokens
           /\ token'[n].st = "usable" /\ token'[n].login = token[conn[c].tok].login
           /\ token'[n].user = token[conn[c].tok].user
           /\ token'[conn[c].tok].st = "spent"
           /\ token'[conn[c].tok].login = token[conn[c].tok].login
           /\ \A k \in Tokens : k # n /\ k # conn[c].tok => token'[k] = token[k]
           /\ conn'[c].st = "yes" /\ conn'[c].new = n
           /\ conn'[c].tab = conn[c].tab /\ conn'[c].tok = conn[c].tok
           /\ \A d \in Conns : d # c => conn'[d] = conn[d]
<1> USE DEF Basics
<1> DEFINE k == conn[c].tok
<1>1. k \in Tokens /\ token[k].st \in Held
  BY DEF RotateCommit, ConnsKnown, LocksHeld
<1>2. PICK n \in Tokens :
        /\ FreeToken(n)
        /\ token' = [token EXCEPT ![k].st = "spent", ![n] = [token[k] EXCEPT !.st = "usable"]]
        /\ conn' = [conn EXCEPT ![c].st = "yes", ![c].new = n]
  BY DEF RotateCommit
<1>3. token[n].st = "none" /\ n # k
  BY <1>1, <1>2 DEF FreeToken
<1>4. /\ token'[k] = [token[k] EXCEPT !.st = "spent"]
      /\ token'[n] = [token[k] EXCEPT !.st = "usable"]
      /\ \A j \in Tokens : j # n /\ j # k => token'[j] = token[j]
  BY <1>1, <1>2, <1>3 DEF TypeOK
<1>5. /\ token'[k].st = "spent" /\ token'[k].login = token[k].login
      /\ token'[n].st = "usable" /\ token'[n].login = token[k].login
      /\ token'[n].user = token[k].user
  BY <1>1, <1>4 DEF TypeOK, Rows
<1>6. conn' = [conn EXCEPT ![c] = [conn[c] EXCEPT !.st = "yes", !.new = n]]
  BY <1>2
<1>7. /\ conn'[c] = [conn[c] EXCEPT !.st = "yes", !.new = n]
      /\ \A d \in Conns : d # c => conn'[d] = conn[d]
  BY <1>6 DEF TypeOK
<1>8. /\ conn'[c].st = "yes" /\ conn'[c].new = n
      /\ conn'[c].tab = conn[c].tab /\ conn'[c].tok = k
  BY <1>7 DEF TypeOK, ConnStates
<1> QED
  BY <1>1, <1>3, <1>4, <1>5, <1>7, <1>8

\* A refresh that fails gives back the lock it holds and answers 401.
LEMMA FailReleases ==
  ASSUME Basics, NEW c \in Conns, RefreshFails(c)
  PROVE  /\ NoNewToken
         /\ conn[c].st \in {"sent", "read", "rotating"} /\ conn'[c].st = "no"
         /\ conn'[c].tab = conn[c].tab /\ conn'[c].tok = conn[c].tok
         /\ \A d \in Conns : d # c => conn'[d] = conn[d]
         /\ conn[c].st # "rotating" => UNCHANGED token
         /\ conn[c].st = "rotating" =>
              /\ conn[c].tok \in Tokens
              /\ \A k \in Tokens : k # conn[c].tok => token'[k] = token[k]
              /\ token[conn[c].tok].st = "locked" => token'[conn[c].tok].st = "usable"
<1> USE DEF Basics
<1> DEFINE j == conn[c].tok
<1>1. conn' = [conn EXCEPT ![c] = [conn[c] EXCEPT !.st = "no"]]
  BY DEF RefreshFails
<1>2. conn'[c] = [conn[c] EXCEPT !.st = "no"] /\ \A d \in Conns : d # c => conn'[d] = conn[d]
  BY <1>1 DEF TypeOK
<1>3. conn'[c].st = "no" /\ conn'[c].tab = conn[c].tab /\ conn'[c].tok = j
  BY <1>2 DEF TypeOK, ConnStates
<1>4. CASE conn[c].st # "rotating"
  BY <1>2, <1>3, <1>4 DEF RefreshFails, NoNewToken
<1>5. CASE conn[c].st = "rotating"
  <2>1. j \in Tokens /\ token[j].st \in Held
    BY <1>5 DEF ConnsKnown, LocksHeld
  <2> DEFINE s == IF token[j].st = "doomed" THEN "spent" ELSE "usable"
  <2>2. token' = [token EXCEPT ![j] = [token[j] EXCEPT !.st = s]]
    BY <1>5 DEF RefreshFails
  <2>3. /\ token'[j] = [token[j] EXCEPT !.st = s]
        /\ \A k \in Tokens : k # j => token'[k] = token[k]
    BY <2>1, <2>2 DEF TypeOK
  <2>4. token'[j].st = s /\ token'[j].login = token[j].login
    BY <2>1, <2>3 DEF TypeOK, Rows
  <2>5. NoNewToken
    BY <2>1, <2>3, <2>4 DEF NoNewToken, Unrevoked
  <2> QED
    BY <1>2, <1>3, <1>5, <2>1, <2>3, <2>4, <2>5
<1> QED
  BY <1>4, <1>5 DEF RefreshFails

\* A sign-in inserts at most one row, whose login is its own.
LEMMA SignInIssues ==
  ASSUME Basics, NEW r \in Calls, ServeSignIn(r)
  PROVE  \/ /\ UNCHANGED token
            /\ call' = [call EXCEPT ![r].st = "denied"]
         \/ \E n \in Tokens :
              /\ token[n].st = "none" /\ token'[n].st = "usable" /\ token'[n].login = n
              /\ \A k \in Tokens : k # n => token'[k] = token[k]
              /\ call' = [call EXCEPT ![r].st = "granted", ![r].tok = n]
<1>1. CASE UNCHANGED token /\ call' = [call EXCEPT ![r].st = "denied"]
  BY <1>1
<1>2. ASSUME NEW n \in Tokens, FreeToken(n),
             token' = [token EXCEPT ![n] = [st |-> "usable", user |-> call[r].user,
                                            login |-> n]],
             call' = [call EXCEPT ![r].st = "granted", ![r].tok = n]
      PROVE  /\ token[n].st = "none" /\ token'[n].st = "usable" /\ token'[n].login = n
             /\ \A k \in Tokens : k # n => token'[k] = token[k]
  BY <1>2 DEF FreeToken, Basics, TypeOK
<1> QED
  BY <1>1, <1>2 DEF ServeSignIn

\* A new promise: a free request now carries the cookie for the tab.
Starts(t, c) ==
  /\ conn[c].st = "free"
  /\ conn'[c].st = "sent" /\ conn'[c].tab = t /\ conn'[c].tok = cookie
  /\ \A d \in Conns : d # c => conn'[d] = conn[d]
  /\ refreshing'[t] = c
  /\ \A s \in Tabs : s # t => refreshing'[s] = refreshing[s]
  /\ torn' = (torn \/ refreshing[t] # None \/ SharedCookie(t))

LEMMA PromiseStarts ==
  ASSUME TypeOK, NEW t \in Tabs, NEW c \in Conns, conn[c].st = "free",
         conn' = [conn EXCEPT ![c] = Sent(t)],
         refreshing' = [refreshing EXCEPT ![t] = c],
         torn' = (torn \/ refreshing[t] # None \/ SharedCookie(t))
  PROVE  Starts(t, c)
<1>1. conn'[c] = Sent(t) /\ \A d \in Conns : d # c => conn'[d] = conn[d]
  BY DEF TypeOK
<1>2. refreshing'[t] = c /\ \A s \in Tabs : s # t => refreshing'[s] = refreshing[s]
  BY DEF TypeOK
<1> QED
  BY <1>1, <1>2 DEF Starts, Sent

\* The tab of a request is free of it once it is answered or lost.
LEMMA ConnEnds ==
  ASSUME TypeOK, NEW c \in Conns, conn' = [conn EXCEPT ![c] = NoConn]
  PROVE  conn'[c].st = "free" /\ \A d \in Conns : d # c => conn'[d] = conn[d]
BY DEF TypeOK, NoConn

\* Settling a promise: the tab has none, and none of its calls waits for it.
LEMMA SettleEnds ==
  ASSUME TypeOK, NEW t \in Tabs, NEW ok \in BOOLEAN, Settle(t, ok)
  PROVE  /\ refreshing'[t] = None /\ ~boot'[t]
         /\ \A s \in Tabs : s # t => refreshing'[s] = refreshing[s] /\ boot'[s] = boot[s]
         /\ \A r \in Calls : /\ TabOf[r] = t => call'[r].st # "waiting"
                             /\ TabOf[r] # t => call'[r] = call[r]
                             /\ call'[r].st = "granted" => call'[r] = call[r]
<1>1. /\ refreshing'[t] = None /\ ~boot'[t]
      /\ \A s \in Tabs : s # t => refreshing'[s] = refreshing[s] /\ boot'[s] = boot[s]
  BY DEF Settle, TypeOK
<1>2. \A r \in Calls :
        /\ [call[r] EXCEPT !.st = "out", !.live = TRUE, !.again = TRUE].st = "out"
        /\ [call[r] EXCEPT !.st = "refused"].st = "refused"
  BY DEF TypeOK, CallStates
<1>3. \A r \in Calls : /\ TabOf[r] = t => call'[r].st # "waiting"
                       /\ TabOf[r] # t => call'[r] = call[r]
                       /\ call'[r].st = "granted" => call'[r] = call[r]
  BY <1>2 DEF Settle
<1> QED
  BY <1>1, <1>3

-----------------------------------------------------------------------------
(* The steps, by what they do to the session.                              *)

\* A step of the calls alone: nothing is granted by it, and a call that starts
\* to wait joins a promise.
Quiet ==
  /\ UNCHANGED <<token, conn, cookie, refreshing, boot, torn>>
  /\ \A r \in Calls :
       /\ call'[r].st = "granted" => call[r].st = "granted" /\ call'[r].tok = call[r].tok
       /\ call'[r].st = "waiting" => call[r].st = "waiting" \/ refreshing[TabOf[r]] # None

\* A step that starts a promise of tab t.
Starting(t, c) ==
  /\ Starts(t, c)
  /\ UNCHANGED <<token, cookie>>
  /\ \A s \in Tabs : s # t => boot'[s] = boot[s]
  /\ \A r \in Calls :
       /\ call'[r].st = "granted" => call[r].st = "granted" /\ call'[r].tok = call[r].tok
       /\ call'[r].st = "waiting" => call[r].st = "waiting" \/ TabOf[r] = t

\* The calls of a dropped page are idle, those of the others stay.
LEMMA DroppedCalls ==
  ASSUME TypeOK, NEW t \in Tabs, DropPage(t, <<>>)
  PROVE  \A r \in Calls : call'[r] = IF TabOf[r] = t THEN NoCall ELSE call[r]
BY DEF DropPage, TypeOK

LEMMA QuietSteps ==
  ASSUME Basics,
         \/ \E r \in Calls : ServePage(r) \/ OnRefused(r) \/ CallLost(r) \/ Logout(r)
         \/ \E r \in Calls : \/ \E k \in PageKinds : SendPage(r, k)
                             \/ \E u \in Users : SubmitAuthForm(r, u)
         \/ \E t \in Tabs : Expire(t)
  PROVE  Quiet
<1> USE DEF Basics
<1>1. NoCall.st = "idle"
  BY DEF NoCall
<1>2. ASSUME NEW r \in Calls, NEW x, call' = [call EXCEPT ![r] = x],
             x.st \notin {"granted", "waiting"}
      PROVE  \A q \in Calls :
               /\ call'[q].st = "granted" => call[q].st = "granted" /\ call'[q].tok = call[q].tok
               /\ call'[q].st = "waiting" => call[q].st = "waiting" \/ refreshing[TabOf[q]] # None
  BY <1>2 DEF TypeOK
<1>3. ASSUME NEW r \in Calls, OnRefused(r) \/ CallLost(r) PROVE Quiet
  BY <1>1, <1>2, <1>3 DEF Quiet, OnRefused, CallLost
<1>4. ASSUME NEW r \in Calls, ServePage(r) PROVE Quiet
  <2>1. [call[r] EXCEPT !.st = "denied"].st = "denied"
    BY DEF TypeOK, CallStates
  <2>2. \E x : call' = [call EXCEPT ![r] = x] /\ x.st \notin {"granted", "waiting"}
    BY <1>1, <1>4, <2>1 DEF ServePage
  <2> QED
    BY <1>2, <1>4, <2>2 DEF Quiet, ServePage
<1>5. \A t, k, n, u : Out(t, k, n, u).st = "out"
  BY DEF Out
<1>6. ASSUME NEW r \in Calls, Logout(r) PROVE Quiet
  BY <1>2, <1>5, <1>6 DEF Quiet, Logout
<1>7. ASSUME NEW r \in Calls, NEW k \in PageKinds, SendPage(r, k) PROVE Quiet
  BY <1>2, <1>5, <1>7 DEF Quiet, SendPage
<1>8. ASSUME NEW r \in Calls, NEW u \in Users, SubmitAuthForm(r, u) PROVE Quiet
  BY <1>2, <1>5, <1>8 DEF Quiet, SubmitAuthForm
<1>9. ASSUME NEW t \in Tabs, Expire(t) PROVE Quiet
  <2>1. \A r \in Calls : /\ [call[r] EXCEPT !.live = FALSE].st = call[r].st
                         /\ [call[r] EXCEPT !.live = FALSE].tok = call[r].tok
    BY DEF TypeOK, CallStates
  <2>2. \A r \in Calls : call'[r].st = call[r].st /\ call'[r].tok = call[r].tok
    BY <1>9, <2>1 DEF Expire
  <2> QED
    BY <1>9, <2>2 DEF Quiet, Expire
<1> QED
  BY <1>3, <1>4, <1>6, <1>7, <1>8, <1>9

\* A 401 that is refused or joins the promise is quiet, another starts one.
LEMMA DeniedSteps ==
  ASSUME Basics, NEW r \in Calls, OnDenied(r)
  PROVE  Quiet \/ \E t \in Tabs, c \in Conns : Starting(t, c)
<1> USE DEF Basics
<1> DEFINE t == TabOf[r]
<1>1. t \in Tabs
  OBVIOUS
<1>2. /\ [call[r] EXCEPT !.st = "refused"].st = "refused"
      /\ [call[r] EXCEPT !.st = "waiting"].st = "waiting"
  BY DEF TypeOK, CallStates
<1>3. CASE call[r].again /\ call[r].kind # "upload"
  <2>1. call' = [call EXCEPT ![r] = [call[r] EXCEPT !.st = "refused"]]
    BY <1>3 DEF OnDenied
  <2>2. call'[r].st = "refused" /\ \A q \in Calls : q # r => call'[q] = call[q]
    BY <1>2, <2>1 DEF TypeOK
  <2> QED
    BY <1>3, <2>2 DEF Quiet, OnDenied
<1>4. CASE ~(call[r].again /\ call[r].kind # "upload")
  <2>1. /\ TryRefresh(t)
        /\ call' = [call EXCEPT ![r] = [call[r] EXCEPT !.st = "waiting"]]
    BY <1>4 DEF OnDenied
  <2>2. call'[r].st = "waiting" /\ \A q \in Calls : q # r => call'[q] = call[q]
    BY <1>2, <2>1 DEF TypeOK
  <2>3. CASE refreshing[t] # None
    BY <2>1, <2>2, <2>3 DEF Quiet, OnDenied, TryRefresh
  <2>4. CASE refreshing[t] = None
    <3>1. PICK c \in Conns : /\ conn[c].st = "free"
                             /\ conn' = [conn EXCEPT ![c] = Sent(t)]
                             /\ refreshing' = [refreshing EXCEPT ![t] = c]
                             /\ torn' = (torn \/ SharedCookie(t))
      BY <2>1, <2>4 DEF TryRefresh
    <3>2. Starts(t, c)
      BY <1>1, <2>4, <3>1, PromiseStarts
    <3>3. Starting(t, c)
      BY <2>2, <3>2 DEF Starting, OnDenied
    <3> QED
      BY <1>1, <3>3
  <2> QED
    BY <2>3, <2>4
<1> QED
  BY <1>3, <1>4

LEMMA LoadSteps ==
  ASSUME Basics, NEW t \in Tabs, LoadPage(t)
  PROVE  \E c \in Conns : Starting(t, c)
<1> USE DEF Basics
<1>1. PICK c \in Conns : /\ conn[c].st = "free"
                         /\ conn' = [conn EXCEPT ![c] = Sent(t)]
                         /\ refreshing' = [refreshing EXCEPT ![t] = c]
  BY DEF LoadPage
<1>2. Starts(t, c)
  BY <1>1, PromiseStarts DEF LoadPage
<1>3. \A r \in Calls : call'[r] = IF TabOf[r] = t THEN NoCall ELSE call[r]
  BY DroppedCalls DEF LoadPage
<1>4. \A s \in Tabs : s # t => boot'[s] = boot[s]
  BY DEF LoadPage, TypeOK
<1>5. \A r \in Calls :
        /\ call'[r].st = "granted" => call[r].st = "granted" /\ call'[r].tok = call[r].tok
        /\ call'[r].st = "waiting" => call[r].st = "waiting" \/ TabOf[r] = t
  BY <1>3 DEF NoCall
<1> QED
  BY <1>2, <1>4, <1>5 DEF Starting, LoadPage

\* The callback's page has no promise and one call of its own.
LEMMA CallbackSteps ==
  ASSUME Basics, NEW r \in Calls, NEW u \in Users, LoadCallback(r, u)
  PROVE  LET t == TabOf[r] IN
         /\ UNCHANGED <<token, cookie, conn>>
         /\ refreshing'[t] = None /\ ~boot'[t]
         /\ \A s \in Tabs : s # t => refreshing'[s] = refreshing[s] /\ boot'[s] = boot[s]
         /\ torn' = (torn \/ refreshing[t] # None)
         /\ \A q \in Calls :
              /\ call'[q].st = "granted" => call[q].st = "granted" /\ call'[q].tok = call[q].tok
              /\ call'[q].st = "waiting" => call[q].st = "waiting" /\ TabOf[q] # t
<1> USE DEF Basics
<1> DEFINE t == TabOf[r]
           mine == [Out(t, "code", None, u) EXCEPT !.live = FALSE]
<1>1. t \in Tabs
  OBVIOUS
<1>2. mine.st = "out" /\ NoCall.st = "idle"
  BY DEF Out, NoCall
<1>3. \A q \in Calls : call'[q] = IF q = r THEN mine
                                  ELSE IF TabOf[q] = t THEN NoCall ELSE call[q]
  <2> HIDE DEF mine
  <2>1. DropPage(t, [q \in {r} |-> mine])
    BY DEF LoadCallback, mine
  <2> QED
    BY <2>1 DEF DropPage
<1> HIDE DEF mine
<1>4. /\ refreshing'[t] = None /\ ~boot'[t]
      /\ \A s \in Tabs : s # t => refreshing'[s] = refreshing[s] /\ boot'[s] = boot[s]
  BY <1>1 DEF LoadCallback, TypeOK
<1>5. \A q \in Calls :
        /\ call'[q].st = "granted" => call[q].st = "granted" /\ call'[q].tok = call[q].tok
        /\ call'[q].st = "waiting" => call[q].st = "waiting" /\ TabOf[q] # t
  BY <1>2, <1>3
<1> QED
  BY <1>4, <1>5 DEF LoadCallback

LEMMA StepKinds ==
  ASSUME Basics, [Next]_vars
  PROVE  \/ Quiet
         \/ \E t \in Tabs, c \in Conns : Starting(t, c)
         \/ \E c \in Conns : \/ RefreshGet(c) \/ RotateUpdate(c) \/ RotateCommit(c)
                             \/ RefreshAnswered(c) \/ RefreshOrphaned(c) \/ RefreshLost(c)
                             \/ RefreshFails(c)
         \/ \E r \in Calls : \/ ServeSignIn(r) \/ ServeLogout(r)
                             \/ OnGranted(r) \/ OnLoggedOut(r)
         \/ \E r \in Calls, u \in Users : LoadCallback(r, u)
<1>1. CASE UNCHANGED vars
  BY <1>1 DEF vars, Quiet
<1>2. CASE Next
  BY <1>2, QuietSteps, DeniedSteps, LoadSteps DEF Next, ServerStep, TabStep, Environment
<1> QED
  BY <1>1, <1>2

-----------------------------------------------------------------------------
(* One usable token per login, and no awaited promise without a request.   *)

LEMMA AnswerEffects ==
  ASSUME Basics, NEW c \in Conns,
         RefreshAnswered(c) \/ RefreshOrphaned(c) \/ RefreshLost(c)
  PROVE  /\ UNCHANGED token
         /\ conn[c].st # "rotating" /\ conn'[c].st = "free"
         /\ \A d \in Conns : d # c => conn'[d] = conn[d]
BY ConnEnds DEF Basics, RefreshAnswered, RefreshOrphaned, RefreshLost

\* A row is inserted for a login that has none usable: a rotation spends the
\* one it holds locked, a sign-in starts a login of its own.
LEMMA TokensKept ==
  ASSUME Basics, [Next]_vars
  PROVE  LoginsIssued' /\ OneUsablePerLogin'
<1> USE DEF Basics
<1>1. CASE UNCHANGED token
  BY <1>1 DEF LoginsIssued, OneUsablePerLogin
<1>2. CASE NoNewToken
  BY <1>2, NoNewTokenKeeps
<1>3. ASSUME NEW c \in Conns, RotateCommit(c) PROVE LoginsIssued' /\ OneUsablePerLogin'
  <2> DEFINE k == conn[c].tok
  <2>1. token[k].st \in Held
    BY <1>3 DEF RotateCommit, LocksHeld
  <2>2. PICK n \in Tokens :
          /\ token[n].st = "none" /\ n # k /\ k \in Tokens
          /\ token'[n].st = "usable" /\ token'[n].login = token[k].login
          /\ token'[k].st = "spent" /\ token'[k].login = token[k].login
          /\ \A j \in Tokens : j # n /\ j # k => token'[j] = token[j]
    BY <1>3, CommitReplaces
  <2>3. LoginsIssued'
    BY <2>1, <2>2 DEF LoginsIssued
  <2>4. OneUsablePerLogin'
    BY <2>1, <2>2 DEF OneUsablePerLogin
  <2> QED
    BY <2>3, <2>4
<1>4. ASSUME NEW r \in Calls, ServeSignIn(r) PROVE LoginsIssued' /\ OneUsablePerLogin'
  <2>1. ASSUME NEW n \in Tokens, token[n].st = "none", token'[n].st = "usable",
               token'[n].login = n, \A k \in Tokens : k # n => token'[k] = token[k]
        PROVE  LoginsIssued' /\ OneUsablePerLogin'
    <3>1. LoginsIssued'
      BY <2>1 DEF LoginsIssued
    <3>2. OneUsablePerLogin'
      BY <2>1 DEF LoginsIssued, OneUsablePerLogin
    <3> QED
      BY <3>1, <3>2
  <2> QED
    BY <1>1, <1>4, <2>1, SignInIssues
<1>5. ASSUME NEW r \in Calls, ServeLogout(r) PROVE LoginsIssued' /\ OneUsablePerLogin'
  BY <1>1, <1>2, <1>5, FamilySpends DEF ServeLogout
<1>6. ASSUME NEW c \in Conns, RefreshGet(c) \/ RotateUpdate(c) \/ RefreshFails(c)
      PROVE  LoginsIssued' /\ OneUsablePerLogin'
  BY <1>2, <1>6, GetReads, UpdateLocks, FailReleases
<1> QED
  BY <1>1, <1>3, <1>4, <1>5, <1>6, StepKinds, AnswerEffects, CallbackSteps
     DEF Quiet, Starting, OnGranted, OnLoggedOut

\* A request keeps its tab and its token; only the one that marked a row holds it.
LEMMA ConnsKept ==
  ASSUME Basics, [Next]_vars
  PROVE  ConnsKnown' /\ LocksHeld'
<1> USE DEF Basics
<1>1. CASE UNCHANGED <<conn, token>>
  BY <1>1 DEF ConnsKnown, LocksHeld
<1>2. ASSUME NEW c \in Conns, RefreshGet(c) PROVE ConnsKnown' /\ LocksHeld'
  <2>1. ConnsKnown'
    BY <1>2, GetReads DEF ConnsKnown
  <2>2. \A d \in Conns : conn'[d].st = "rotating" => /\ conn[d].st = "rotating"
                                                     /\ conn'[d].tok = conn[d].tok
                                                     /\ token'[conn[d].tok].st \in Held
    BY <1>2, GetReads DEF LocksHeld, ConnsKnown
  <2> QED
    BY <2>1, <2>2 DEF LocksHeld
<1>3. ASSUME NEW c \in Conns, RotateUpdate(c) PROVE ConnsKnown' /\ LocksHeld'
  <2>1. ConnsKnown'
    BY <1>3, UpdateLocks DEF ConnsKnown
  <2>2. \A d \in Conns : conn'[d].st = "rotating" /\ d # c =>
          /\ conn[d].st = "rotating" /\ conn'[d].tok = conn[d].tok
          /\ token[conn[d].tok].st \in Held /\ token'[conn[d].tok].st \in Held
    BY <1>3, UpdateLocks DEF LocksHeld, ConnsKnown
  <2>3. conn'[c].st = "rotating" => /\ conn'[c].tok = conn[c].tok
                                    /\ token[conn[c].tok].st = "usable"
                                    /\ token'[conn[c].tok].st \in Held
    BY <1>3, UpdateLocks
  <2> QED
    BY <2>1, <2>2, <2>3 DEF LocksHeld
<1>4. ASSUME NEW c \in Conns, RotateCommit(c) PROVE ConnsKnown' /\ LocksHeld'
  <2>1. PICK n \in Tokens :
          /\ token[n].st = "none" /\ n # conn[c].tok
          /\ \A k \in Tokens : k # n /\ k # conn[c].tok => token'[k] = token[k]
          /\ conn'[c].st = "yes" /\ conn'[c].new = n /\ conn'[c].tab = conn[c].tab
          /\ \A d \in Conns : d # c => conn'[d] = conn[d]
    BY <1>4, CommitReplaces
  <2>2. conn[c].st = "rotating"
    BY <1>4 DEF RotateCommit
  <2>3. ConnsKnown'
    BY <2>1, <2>2 DEF ConnsKnown
  <2>4. \A d \in Conns : conn'[d].st = "rotating" =>
          /\ conn'[d] = conn[d] /\ conn[d].tok \in Tokens
          /\ token[conn[d].tok].st \in Held /\ conn[d].tok # conn[c].tok
    BY <2>1, <2>2 DEF LocksHeld, ConnsKnown
  <2>5. \A d \in Conns : conn'[d].st = "rotating" => token'[conn[d].tok].st \in Held
    BY <2>1, <2>4
  <2> QED
    BY <2>3, <2>4, <2>5 DEF LocksHeld
<1>5. ASSUME NEW c \in Conns, RefreshAnswered(c) \/ RefreshOrphaned(c) \/ RefreshLost(c)
      PROVE  ConnsKnown' /\ LocksHeld'
  BY <1>5, AnswerEffects DEF ConnsKnown, LocksHeld
<1>6. ASSUME NEW t \in Tabs, NEW c \in Conns, Starting(t, c) PROVE ConnsKnown' /\ LocksHeld'
  <2>1. UNCHANGED token /\ conn'[c].st = "sent" /\ conn'[c].tab = t
        /\ \A d \in Conns : d # c => conn'[d] = conn[d]
    BY <1>6 DEF Starting, Starts
  <2> QED
    BY <2>1 DEF ConnsKnown, LocksHeld
<1>7. ASSUME NEW r \in Calls, ServeSignIn(r) PROVE ConnsKnown' /\ LocksHeld'
  <2>1. UNCHANGED conn /\ \A k \in Tokens : token[k].st \in Held => token'[k].st \in Held
    BY <1>7, SignInIssues DEF ServeSignIn
  <2> QED
    BY <2>1 DEF ConnsKnown, LocksHeld
<1>8. ASSUME NEW r \in Calls, ServeLogout(r) PROVE ConnsKnown' /\ LocksHeld'
  <2>1. UNCHANGED conn /\ \A k \in Tokens : token[k].st \in Held => token'[k].st \in Held
    BY <1>8, FamilySpends DEF ServeLogout
  <2> QED
    BY <2>1 DEF ConnsKnown, LocksHeld
<1>9. ASSUME NEW c \in Conns, RefreshFails(c) PROVE ConnsKnown' /\ LocksHeld'
  <2>1. ConnsKnown'
    BY <1>9, FailReleases DEF ConnsKnown
  <2>2. \A d \in Conns : conn'[d].st = "rotating" =>
          d # c /\ conn'[d] = conn[d] /\ conn[d].tok \in Tokens /\ token[conn[d].tok].st \in Held
    BY <1>9, FailReleases DEF LocksHeld, ConnsKnown
  <2>3. \A d \in Conns : conn'[d].st = "rotating" => token'[conn[d].tok] = token[conn[d].tok]
    BY <1>9, <2>2, FailReleases DEF LocksHeld
  <2> QED
    BY <2>1, <2>2, <2>3 DEF LocksHeld
<1> QED
  BY <1>1, <1>2, <1>3, <1>4, <1>5, <1>6, <1>7, <1>8, <1>9, StepKinds, CallbackSteps
     DEF Quiet, OnGranted, OnLoggedOut

\* A promise is dropped with everything that awaits it, a request is given up
\* only when no tab's promise is behind it.
LEMMA WaitersKept == ASSUME Basics, [Next]_vars PROVE WaitersHaveAPromise'
<1> USE DEF Basics
<1>1. TypeOK'
  BY Typed
<1>2. CASE Quiet
  BY <1>2 DEF Quiet, WaitersHaveAPromise
<1>3. ASSUME NEW t \in Tabs, NEW c \in Conns, Starting(t, c) PROVE WaitersHaveAPromise'
  <2>1. \A s \in Tabs : s # t => refreshing'[s] # c
    BY <1>3 DEF Starting, Starts, WaitersHaveAPromise
  <2>2. c # None
    OBVIOUS
  <2> QED
    BY <1>3, <2>1, <2>2, <1>1 DEF TypeOK, Starting, Starts, WaitersHaveAPromise
<1>4. ASSUME NEW c \in Conns,
             RefreshGet(c) \/ RotateUpdate(c) \/ RotateCommit(c) \/ RefreshFails(c)
      PROVE  WaitersHaveAPromise'
  <2>1. /\ conn[c].st # "free" /\ conn'[c].st # "free" /\ conn'[c].tab = conn[c].tab
        /\ \A d \in Conns : d # c => conn'[d] = conn[d]
    BY <1>4, GetReads, UpdateLocks, CommitReplaces, FailReleases DEF RotateCommit
  <2>2. UNCHANGED <<boot, refreshing, call>>
    BY <1>4 DEF RefreshGet, RotateUpdate, RotateCommit, RefreshFails
  <2> QED
    BY <2>1, <2>2 DEF TypeOK, WaitersHaveAPromise
<1>5. ASSUME NEW c \in Conns, RefreshAnswered(c) \/ RefreshLost(c) PROVE WaitersHaveAPromise'
  <2> DEFINE t == conn[c].tab
  <2>1. t \in Tabs /\ refreshing[t] = c
    BY <1>5 DEF RefreshAnswered, RefreshLost, ConnsKnown
  <2>2. \E ok \in BOOLEAN : Settle(t, ok)
    BY <1>5 DEF RefreshAnswered, RefreshLost
  <2>3. \A s \in Tabs : s # t => refreshing[s] # c
    BY <2>1 DEF WaitersHaveAPromise
  <2>4. /\ refreshing'[t] = None /\ ~boot'[t]
        /\ \A s \in Tabs : s # t => refreshing'[s] = refreshing[s] /\ boot'[s] = boot[s]
        /\ \A r \in Calls : /\ TabOf[r] = t => call'[r].st # "waiting"
                            /\ TabOf[r] # t => call'[r] = call[r]
    BY <2>1, <2>2, SettleEnds
  <2>5. \A d \in Conns : d # c => conn'[d] = conn[d]
    BY <1>5, AnswerEffects
  <2> DEFINE Alive(s) ==
        /\ refreshing'[s] # None => /\ conn'[refreshing'[s]].st # "free"
                                    /\ conn'[refreshing'[s]].tab = s
        /\ boot'[s] => refreshing'[s] # None
        /\ \A r \in Calls : TabOf[r] = s /\ call'[r].st = "waiting" => refreshing'[s] # None
  <2>6. Alive(t)
    BY <2>4
  <2>7. ASSUME NEW s \in Tabs, s # t PROVE Alive(s)
    <3>1. refreshing'[s] = refreshing[s] /\ boot'[s] = boot[s] /\ refreshing[s] # c
      BY <2>3, <2>4, <2>7
    <3>2. refreshing[s] # None => conn'[refreshing[s]] = conn[refreshing[s]]
      BY <2>5, <3>1 DEF TypeOK
    <3>3. \A r \in Calls : TabOf[r] = s => call'[r] = call[r]
      BY <2>4, <2>7
    <3> QED
      BY <3>1, <3>2, <3>3 DEF WaitersHaveAPromise
  <2> QED
    BY <2>6, <2>7 DEF WaitersHaveAPromise
<1>6. ASSUME NEW c \in Conns, RefreshOrphaned(c) PROVE WaitersHaveAPromise'
  <2>1. \A s \in Tabs : refreshing[s] # c
    BY <1>6 DEF RefreshOrphaned, WaitersHaveAPromise
  <2>2. UNCHANGED <<boot, refreshing, call>>
    BY <1>6 DEF RefreshOrphaned
  <2> QED
    BY <1>6, <2>1, <2>2, AnswerEffects DEF TypeOK, WaitersHaveAPromise
<1>7. ASSUME NEW r \in Calls,
             ServeSignIn(r) \/ ServeLogout(r) \/ OnGranted(r) \/ OnLoggedOut(r)
      PROVE  WaitersHaveAPromise'
  <2>1. UNCHANGED <<boot, refreshing, conn>>
    BY <1>7 DEF ServeSignIn, ServeLogout, OnGranted, OnLoggedOut
  <2>2. ASSUME NEW x, call' = [call EXCEPT ![r] = x], x.st # "waiting"
        PROVE  WaitersHaveAPromise'
    BY <2>1, <2>2 DEF TypeOK, WaitersHaveAPromise
  <2>3. /\ NoCall.st = "idle" /\ [call[r] EXCEPT !.st = "done"].st = "done"
        /\ [call[r] EXCEPT !.st = "denied"].st = "denied"
        /\ \A n \in Tokens : [call[r] EXCEPT !.st = "granted", !.tok = n].st = "granted"
    BY DEF NoCall, TypeOK, CallStates
  <2>4. CASE OnGranted(r) \/ OnLoggedOut(r)
    BY <2>2, <2>3, <2>4 DEF OnGranted, OnLoggedOut
  <2>5. CASE ServeLogout(r)
    BY <2>2, <2>3, <2>5 DEF ServeLogout
  <2>6. CASE ServeSignIn(r)
    <3>1. CASE call' = [call EXCEPT ![r].st = "denied"]
      BY <2>2, <2>3, <3>1
    <3>2. ASSUME NEW n \in Tokens, call' = [call EXCEPT ![r].st = "granted", ![r].tok = n]
          PROVE  WaitersHaveAPromise'
      <4>1. call' = [call EXCEPT ![r] = [call[r] EXCEPT !.st = "granted", !.tok = n]]
        BY <3>2
      <4> QED
        BY <2>2, <2>3, <4>1
    <3> QED
      BY <2>6, <3>1, <3>2 DEF ServeSignIn
  <2> QED
    BY <1>7, <2>4, <2>5, <2>6
<1>8. ASSUME NEW r \in Calls, NEW u \in Users, LoadCallback(r, u) PROVE WaitersHaveAPromise'
  BY <1>8, CallbackSteps DEF TypeOK, WaitersHaveAPromise
<1> QED
  BY <1>2, <1>3, <1>4, <1>5, <1>6, <1>7, <1>8, StepKinds

LEMMA BasicsKept == Basics /\ [Next]_vars => Basics'
BY Typed, TokensKept, ConnsKept, WaitersKept DEF Basics

LEMMA BasicsAlways == Spec => []Basics
<1>1. Init => Basics
  BY BasicsInit
<1>2. Basics /\ [Next]_vars => Basics'
  BY BasicsKept
<1> QED
  BY <1>1, <1>2, PTL DEF Spec

\* Every reachable state of the tabs, the requests and the token table is
\* well-typed.
THEOREM SessionTypes == Spec => []TypeOK
<1>1. Basics => TypeOK
  BY DEF Basics
<1> QED
  BY <1>1, BasicsAlways, PTL

\* Rotate's UPDATE serialises the requests that present one cookie: at most one
\* token of a login can still be rotated, whatever is lost, reloaded or reused.
THEOREM RotationSerialised == Spec => []OneUsablePerLogin
<1>1. Basics => OneUsablePerLogin
  BY DEF Basics
<1> QED
  BY <1>1, BasicsAlways, PTL

\* tryRefresh never leaves a call, or the spinner of App, waiting for a promise
\* whose request is over.
THEOREM PromiseIsAlive == Spec => []WaitersHaveAPromise
<1>1. Basics => WaitersHaveAPromise
  BY DEF Basics
<1> QED
  BY <1>1, BasicsAlways, PTL

-----------------------------------------------------------------------------
(* The cookie while nothing is lost, shared or signed out.                 *)

InFlight(c) == conn[c].st # "free"

\* A token on its way to the browser, to become its cookie.
Arriving(k) ==
  \/ \E c \in Conns : conn[c].st = "yes" /\ conn[c].new = k
  \/ \E r \in Calls : call[r].st = "granted" /\ call[r].tok = k

FlightsAwaited == \A c \in Conns : InFlight(c) => refreshing[conn[c].tab] = c

\* What a request presents can be rotated until the request itself rotates it,
\* and no other request presents it.
Presented ==
  \A c \in Conns : InFlight(c) =>
    /\ conn[c].st \in {"sent", "read"} /\ conn[c].tok # None
         => token[conn[c].tok].st = "usable"
    /\ conn[c].st = "yes" => conn[c].tok # None /\ token[conn[c].tok].st = "spent"
    /\ conn[c].st = "no" /\ conn[c].tok # None => token[conn[c].tok].st = "usable"
    /\ conn[c].st = "rotating" => token[conn[c].tok].st = "locked"
    /\ \A d \in Conns : InFlight(d) /\ conn[c].tok # None /\ conn[d].tok = conn[c].tok
                        => d = c

\* What arrives can be rotated, and nobody has it yet.
ArrivalsFresh ==
  \A k \in Tokens : Arriving(k) =>
    /\ token[k].st = "usable" /\ k # cookie
    /\ \A c \in Conns : InFlight(c) => conn[c].tok # k

ArrivalsDiffer ==
  /\ \A c, d \in Conns :
       conn[c].st = "yes" /\ conn[d].st = "yes" /\ conn[c].new = conn[d].new => c = d
  /\ \A r, q \in Calls :
       call[r].st = "granted" /\ call[q].st = "granted" /\ call[r].tok = call[q].tok => r = q
  /\ \A c \in Conns, r \in Calls :
       conn[c].st = "yes" /\ call[r].st = "granted" => conn[c].new # call[r].tok

\* A cookie that no request presents can be rotated.
Rests ==
  cookie # None /\ (\A c \in Conns : InFlight(c) => conn[c].tok # cookie)
    => token[cookie].st = "usable"

Lineage == FlightsAwaited /\ Presented /\ ArrivalsFresh /\ ArrivalsDiffer /\ Rests

\* The cookie and what the requests present were issued.
LEMMA Issued ==
  ASSUME Basics, Lineage
  PROVE  /\ cookie # None => token[cookie].st # "none"
         /\ \A c \in Conns : InFlight(c) /\ conn[c].tok # None
                               => token[conn[c].tok].st # "none"
<1> USE DEF Basics, Lineage
<1>1. \A c \in Conns : InFlight(c) /\ conn[c].tok # None => token[conn[c].tok].st # "none"
  BY DEF TypeOK, ConnStates, InFlight, Presented, LocksHeld
<1>2. cookie # None => token[cookie].st # "none"
  BY <1>1 DEF Rests
<1> QED
  BY <1>1, <1>2

\* A step that leaves tokens, requests and cookie alone and grants nothing.
LEMMA StillLineage ==
  ASSUME Lineage, ConnsKnown, UNCHANGED <<token, conn, cookie>>,
         \A t \in Tabs : refreshing'[t] = refreshing[t],
         \A r \in Calls : call'[r].st = "granted" => /\ call[r].st = "granted"
                                                     /\ call'[r].tok = call[r].tok
  PROVE  Lineage'
<1> USE DEF Lineage, InFlight
<1>1. FlightsAwaited'
  BY DEF FlightsAwaited, ConnsKnown
<1>2. Presented' /\ Rests'
  BY DEF Presented, Rests
<1>3. \A k \in Tokens : Arriving(k)' => Arriving(k)
  BY DEF Arriving
<1>4. ArrivalsFresh'
  BY <1>3 DEF ArrivalsFresh
<1>5. ArrivalsDiffer'
  BY DEF ArrivalsDiffer
<1> QED
  BY <1>1, <1>2, <1>4, <1>5

\* A promise that shares its cookie with no other presents the one at rest.
LEMMA StartKeepsLineage ==
  ASSUME Basics, Lineage, ~torn', NEW t \in Tabs, NEW c \in Conns, Starting(t, c)
  PROVE  Lineage'
<1> USE DEF Basics, Lineage, InFlight
<1>1. /\ UNCHANGED <<token, cookie>>
      /\ conn[c].st = "free"
      /\ conn'[c].st = "sent" /\ conn'[c].tab = t /\ conn'[c].tok = cookie
      /\ \A d \in Conns : d # c => conn'[d] = conn[d]
      /\ refreshing'[t] = c
      /\ \A s \in Tabs : s # t => refreshing'[s] = refreshing[s]
      /\ refreshing[t] = None /\ ~SharedCookie(t)
      /\ \A r \in Calls : call'[r].st = "granted" => /\ call[r].st = "granted"
                                                     /\ call'[r].tok = call[r].tok
  BY DEF Starting, Starts, TypeOK
<1>2. \A d \in Conns : InFlight(d) => conn[d].tab \in Tabs /\ conn[d].tab # t
  BY <1>1 DEF FlightsAwaited, ConnsKnown
<1>3. \A d \in Conns : InFlight(d) /\ cookie # None => conn[d].tok # cookie
  BY <1>1, <1>2 DEF SharedCookie
<1>4. cookie # None => token[cookie].st = "usable"
  BY <1>3 DEF Rests
<1>5. FlightsAwaited'
  BY <1>1, <1>2 DEF FlightsAwaited
<1>6. Presented'
  BY <1>1, <1>3, <1>4 DEF Presented
<1>7. \A k \in Tokens : Arriving(k)' => Arriving(k)
  BY <1>1 DEF Arriving
<1>8. ArrivalsFresh'
  BY <1>1, <1>7 DEF ArrivalsFresh
<1>9. ArrivalsDiffer'
  BY <1>1 DEF ArrivalsDiffer
<1>10. Rests'
  BY <1>1 DEF Rests
<1> QED
  BY <1>5, <1>6, <1>8, <1>9, <1>10

\* The token that is read is usable, or there is no cookie at all.
LEMMA GetKeepsLineage ==
  ASSUME Basics, Lineage, NEW c \in Conns, RefreshGet(c)
  PROVE  Lineage'
<1> USE DEF Basics, Lineage, InFlight
<1>1. /\ conn[c].st = "sent"
      /\ conn'[c].tab = conn[c].tab /\ conn'[c].tok = conn[c].tok
      /\ \A d \in Conns : d # c => conn'[d] = conn[d]
      /\ conn'[c].st \in {"read", "no"}
      /\ conn[c].tok = None => UNCHANGED token
      /\ conn[c].tok # None /\ token[conn[c].tok].st = "usable"
           => UNCHANGED token /\ conn'[c].st = "read"
      /\ conn'[c].st = "read" => conn[c].tok \in Tokens
      /\ None \notin Tokens
  BY GetReads
<1>2. conn[c].tok # None => token[conn[c].tok].st = "usable"
  BY <1>1 DEF Presented
<1>3. /\ UNCHANGED <<token, cookie, call, refreshing>>
      /\ conn'[c].st = "no" => conn[c].tok = None
  BY <1>1, <1>2 DEF RefreshGet
<1>4. FlightsAwaited'
  BY <1>1, <1>3 DEF FlightsAwaited
<1>5. Presented'
  BY <1>1, <1>2, <1>3 DEF Presented
<1>6. \A k \in Tokens : Arriving(k)' => Arriving(k)
  BY <1>1, <1>3 DEF Arriving
<1>7. ArrivalsFresh'
  BY <1>1, <1>3, <1>6 DEF ArrivalsFresh
<1>8. ArrivalsDiffer'
  BY <1>1, <1>3 DEF ArrivalsDiffer
<1>9. Rests'
  BY <1>1, <1>3 DEF Rests
<1> QED
  BY <1>4, <1>5, <1>7, <1>8, <1>9

\* The row that is marked is presented by this request and by nobody else.
LEMMA UpdateKeepsLineage ==
  ASSUME Basics, Lineage, NEW c \in Conns, RotateUpdate(c)
  PROVE  Lineage'
<1> USE DEF Basics, Lineage, InFlight
<1> DEFINE j == conn[c].tok
<1>1. conn[c].st = "read" /\ j \in Tokens /\ j # None
  BY UpdateLocks
<1>2. token[j].st = "usable"
  BY <1>1 DEF Presented
<1>3. /\ conn'[c].st = "rotating" /\ token'[j].st = "locked"
      /\ \A k \in Tokens : k # j => token'[k] = token[k]
      /\ conn'[c].tab = conn[c].tab /\ conn'[c].tok = j
      /\ \A d \in Conns : d # c => conn'[d] = conn[d]
  BY <1>2, UpdateLocks
<1>4. UNCHANGED <<cookie, call, refreshing>>
  BY DEF RotateUpdate
<1>5. FlightsAwaited'
  BY <1>1, <1>3, <1>4 DEF FlightsAwaited
<1>6. \A d \in Conns : InFlight(d) /\ d # c /\ conn[d].tok # None =>
        conn[d].tok # j /\ token'[conn[d].tok] = token[conn[d].tok]
  BY <1>1, <1>3 DEF Presented, TypeOK, ConnStates
<1>7. Presented'
  <2>1. \A d \in Conns : conn[d].st = "rotating" => conn[d].tok # None
    BY DEF ConnsKnown
  <2> QED
    BY <1>1, <1>3, <1>6, <2>1 DEF Presented
<1>8. \A k \in Tokens : Arriving(k)' => Arriving(k)
  BY <1>3, <1>4 DEF Arriving
<1>9. ArrivalsFresh'
  BY <1>1, <1>3, <1>4, <1>8 DEF ArrivalsFresh
<1>10. ArrivalsDiffer'
  BY <1>1, <1>3, <1>4 DEF ArrivalsDiffer
<1>11. ASSUME cookie # None, \A d \in Conns : InFlight(d)' => conn'[d].tok # cookie
       PROVE  token'[cookie].st = "usable"
  <2>1. cookie \in Tokens
    BY <1>11 DEF TypeOK
  <2>2. cookie # j
    BY <1>3, <1>11
  <2>3. \A d \in Conns : InFlight(d) => conn[d].tok # cookie
    BY <1>1, <1>3, <1>11
  <2>4. token[cookie].st = "usable"
    BY <1>11, <2>3 DEF Rests
  <2> QED
    BY <1>3, <2>1, <2>2, <2>4
<1>12. Rests'
  BY <1>4, <1>11 DEF Rests
<1> QED
  BY <1>5, <1>7, <1>9, <1>10, <1>12

\* A refresh that fails leaves what it presented as it was before.
LEMMA FailKeepsLineage ==
  ASSUME Basics, Lineage, NEW c \in Conns, RefreshFails(c)
  PROVE  Lineage'
<1> USE DEF Basics, Lineage, InFlight
<1> DEFINE j == conn[c].tok
<1>1. /\ conn[c].st \in {"sent", "read", "rotating"} /\ conn'[c].st = "no"
      /\ conn'[c].tab = conn[c].tab /\ conn'[c].tok = j
      /\ \A d \in Conns : d # c => conn'[d] = conn[d]
  BY FailReleases
<1>2. UNCHANGED <<cookie, call, refreshing>>
  BY DEF RefreshFails
<1>3. /\ \A k \in Tokens : k # j => token'[k] = token[k]
      /\ j # None => token'[j].st = "usable"
  BY <1>1, FailReleases DEF Presented
<1>4. FlightsAwaited'
  BY <1>1, <1>2 DEF FlightsAwaited
<1>5. \A d \in Conns : InFlight(d) /\ d # c /\ conn[d].tok # None =>
        conn[d].tok # j /\ token'[conn[d].tok] = token[conn[d].tok]
  BY <1>1, <1>3 DEF Presented, TypeOK, ConnStates
<1>6. \A d \in Conns : conn[d].st = "rotating" => conn[d].tok # None
  BY DEF ConnsKnown
<1>7. Presented'
  BY <1>1, <1>3, <1>5, <1>6 DEF Presented
<1>8. \A k \in Tokens : Arriving(k)' => Arriving(k)
  BY <1>1, <1>2 DEF Arriving
<1>9. ArrivalsFresh'
  BY <1>1, <1>2, <1>3, <1>8 DEF ArrivalsFresh
<1>10. ArrivalsDiffer'
  BY <1>1, <1>2 DEF ArrivalsDiffer
<1>11. ASSUME cookie # None, \A d \in Conns : InFlight(d)' => conn'[d].tok # cookie
       PROVE  token'[cookie].st = "usable"
  <2>1. cookie \in Tokens /\ cookie # j
    BY <1>1, <1>11 DEF TypeOK
  <2>2. \A d \in Conns : InFlight(d) => conn[d].tok # cookie
    BY <1>1, <1>11
  <2> QED
    BY <1>3, <1>11, <2>1, <2>2 DEF Rests
<1>12. Rests'
  BY <1>2, <1>11 DEF Rests
<1> QED
  BY <1>4, <1>7, <1>9, <1>10, <1>12

\* The successor is a row nobody had: not the cookie, not presented, not arriving.
LEMMA CommitKeepsLineage ==
  ASSUME Basics, Lineage, NEW c \in Conns, RotateCommit(c)
  PROVE  Lineage'
<1> USE DEF Basics, Lineage, InFlight
<1> DEFINE j == conn[c].tok
<1>1. conn[c].st = "rotating" /\ token[j].st \in Held
  BY DEF RotateCommit, LocksHeld
<1>2. PICK n \in Tokens :
        /\ token[n].st = "none" /\ n # j /\ j \in Tokens
        /\ token'[n].st = "usable" /\ token'[j].st = "spent"
        /\ \A k \in Tokens : k # n /\ k # j => token'[k] = token[k]
        /\ conn'[c].st = "yes" /\ conn'[c].new = n
        /\ conn'[c].tab = conn[c].tab /\ conn'[c].tok = j
        /\ \A d \in Conns : d # c => conn'[d] = conn[d]
  BY CommitReplaces
<1>3. UNCHANGED <<cookie, call, refreshing>>
  BY DEF RotateCommit
<1>4. /\ j # None
      /\ cookie # n
      /\ \A d \in Conns : InFlight(d) => conn[d].tok # n
  BY <1>2, Issued
<1>5. FlightsAwaited'
  BY <1>1, <1>2, <1>3 DEF FlightsAwaited
<1>6. \A d \in Conns : InFlight(d) /\ d # c /\ conn[d].tok # None =>
        conn[d].tok # j /\ token'[conn[d].tok] = token[conn[d].tok]
  BY <1>1, <1>2, <1>4 DEF Presented, TypeOK, ConnStates
<1>7. Presented'
  <2>1. \A d \in Conns : conn[d].st = "rotating" => conn[d].tok # None
    BY DEF ConnsKnown
  <2> QED
    BY <1>1, <1>2, <1>4, <1>6, <2>1 DEF Presented
<1>8. \A k \in Tokens : Arriving(k)' => Arriving(k) \/ k = n
  BY <1>2, <1>3 DEF Arriving
<1>9. ArrivalsFresh'
  <2>1. \A k \in Tokens : Arriving(k) => token'[k] = token[k]
    BY <1>1, <1>2 DEF ArrivalsFresh
  <2> QED
    BY <1>1, <1>2, <1>3, <1>4, <1>8, <2>1 DEF ArrivalsFresh
<1>10. ArrivalsDiffer'
  <2>1. /\ \A d \in Conns : conn[d].st = "yes" => conn[d].new # n
        /\ \A r \in Calls : call[r].st = "granted" => call[r].tok # n
    BY <1>2 DEF ArrivalsFresh, Arriving
  <2> QED
    BY <1>1, <1>2, <1>3, <2>1 DEF ArrivalsDiffer
<1>11. Rests'
  <2> SUFFICES ASSUME cookie # None, \A d \in Conns : conn'[d].st # "free" => conn'[d].tok # cookie
               PROVE  token'[cookie].st = "usable"
    BY <1>3 DEF Rests
  <2>1. cookie # j /\ \A d \in Conns : InFlight(d) => conn[d].tok # cookie
    BY <1>1, <1>2
  <2> QED
    BY <1>2, <1>4, <2>1 DEF Rests, TypeOK
<1> QED
  BY <1>5, <1>7, <1>9, <1>10, <1>11

LEMMA SignInKeepsLineage ==
  ASSUME Basics, Lineage, NEW r \in Calls, ServeSignIn(r)
  PROVE  Lineage'
<1> USE DEF Basics, Lineage, InFlight
<1>1. UNCHANGED <<cookie, conn, refreshing>>
  BY DEF ServeSignIn
<1>2. CASE UNCHANGED token /\ call' = [call EXCEPT ![r].st = "denied"]
  <2>1. [call[r] EXCEPT !.st = "denied"].st = "denied"
    BY DEF TypeOK, CallStates
  <2>2. \A q \in Calls : call'[q].st = "granted" => call'[q] = call[q]
    BY <1>2, <2>1 DEF TypeOK
  <2> QED
    BY <1>1, <1>2, <2>2, StillLineage
<1>3. ASSUME NEW n \in Tokens, token[n].st = "none", token'[n].st = "usable",
             \A k \in Tokens : k # n => token'[k] = token[k],
             call' = [call EXCEPT ![r].st = "granted", ![r].tok = n]
      PROVE  Lineage'
  <2>1. /\ cookie # n
        /\ \A d \in Conns : InFlight(d) => conn[d].tok # n
    BY <1>3, Issued
  <2>2. /\ \A d \in Conns : conn[d].st = "yes" => conn[d].new # n
        /\ \A q \in Calls : call[q].st = "granted" => call[q].tok # n
    BY <1>3 DEF ArrivalsFresh, Arriving
  <2>3. call' = [call EXCEPT ![r] = [call[r] EXCEPT !.st = "granted", !.tok = n]]
    BY <1>3
  <2>4. /\ [call[r] EXCEPT !.st = "granted", !.tok = n].st = "granted"
        /\ [call[r] EXCEPT !.st = "granted", !.tok = n].tok = n
    BY DEF TypeOK, CallStates
  <2>5. /\ call'[r].st = "granted" /\ call'[r].tok = n
        /\ \A q \in Calls : q # r => call'[q] = call[q]
    BY <2>3, <2>4 DEF TypeOK
  <2>6. FlightsAwaited'
    BY <1>1 DEF FlightsAwaited
  <2>7. \A d \in Conns : InFlight(d) /\ conn[d].tok # None =>
          token'[conn[d].tok] = token[conn[d].tok]
    BY <1>3, <2>1 DEF TypeOK, ConnStates
  <2>8. Presented'
    <3>1. \A d \in Conns : conn[d].st = "rotating" => conn[d].tok # None
      BY DEF ConnsKnown
    <3> QED
      BY <1>1, <2>7, <3>1 DEF Presented
  <2>9. \A k \in Tokens : Arriving(k)' => Arriving(k) \/ k = n
    BY <1>1, <2>5 DEF Arriving
  <2>10. ArrivalsFresh'
    BY <1>1, <1>3, <2>1, <2>9 DEF ArrivalsFresh
  <2>11. ArrivalsDiffer'
    BY <1>1, <2>2, <2>5 DEF ArrivalsDiffer
  <2>12. Rests'
    BY <1>1, <1>3, <2>1 DEF Rests, TypeOK
  <2> QED
    BY <2>6, <2>8, <2>10, <2>11, <2>12
<1> QED
  BY <1>2, <1>3, SignInIssues

\* The cookie a sign-in leaves behind is one nobody presents.
LEMMA GrantedKeepsLineage ==
  ASSUME Basics, Lineage, NEW r \in Calls, OnGranted(r)
  PROVE  Lineage'
<1> USE DEF Basics, Lineage, InFlight
<1>1. /\ UNCHANGED <<token, conn, refreshing>>
      /\ call[r].st = "granted" /\ cookie' = call[r].tok
  BY DEF OnGranted
<1>2. /\ call'[r].st # "granted"
      /\ \A q \in Calls : q # r => call'[q] = call[q]
  BY DEF OnGranted, NoCall, TypeOK
<1>3. FlightsAwaited' /\ Presented'
  BY <1>1 DEF FlightsAwaited, Presented
<1>4. \A k \in Tokens : Arriving(k)' => Arriving(k) /\ k # call[r].tok
  BY <1>1, <1>2 DEF Arriving, ArrivalsDiffer
<1>5. ArrivalsFresh'
  BY <1>1, <1>4 DEF ArrivalsFresh
<1>6. ArrivalsDiffer'
  BY <1>1, <1>2 DEF ArrivalsDiffer
<1>7. call[r].tok \in Tokens \cup {None}
  BY DEF TypeOK, CallStates
<1>8. Rests'
  BY <1>1, <1>7 DEF Rests, ArrivalsFresh, Arriving
<1> QED
  BY <1>3, <1>5, <1>6, <1>8

\* An answer to the only request of its tab: the successor replaces the cookie.
LEMMA AnswerKeepsLineage ==
  ASSUME Basics, Lineage, NEW c \in Conns, RefreshAnswered(c)
  PROVE  Lineage'
<1> USE DEF Basics, Lineage, InFlight
<1> DEFINE t == conn[c].tab
<1>1. t \in Tabs /\ refreshing[t] = c /\ conn[c].st \in {"yes", "no"} /\ UNCHANGED token
  BY DEF RefreshAnswered, ConnsKnown
<1>2. conn'[c].st = "free" /\ \A d \in Conns : d # c => conn'[d] = conn[d]
  BY AnswerEffects
<1>3. PICK ok \in BOOLEAN : Settle(t, ok)
  BY DEF RefreshAnswered
<1>4. /\ \A s \in Tabs : s # t => refreshing'[s] = refreshing[s]
      /\ \A r \in Calls : call'[r].st = "granted" => call'[r] = call[r]
  BY <1>1, <1>3, SettleEnds
<1>5. FlightsAwaited'
  BY <1>1, <1>2, <1>4 DEF FlightsAwaited, ConnsKnown
<1>6. Presented'
  BY <1>1, <1>2 DEF Presented
<1>7. ArrivalsDiffer'
  BY <1>2, <1>4 DEF ArrivalsDiffer
<1>8. CASE conn[c].st = "yes"
  <2>1. cookie' = conn[c].new /\ conn[c].new \in Tokens
    BY <1>8 DEF RefreshAnswered, ConnsKnown
  <2>2. \A k \in Tokens : Arriving(k)' => Arriving(k) /\ k # conn[c].new
    BY <1>2, <1>4, <1>8 DEF Arriving, ArrivalsDiffer
  <2>3. ArrivalsFresh'
    BY <1>1, <1>2, <2>1, <2>2 DEF ArrivalsFresh
  <2>4. Rests'
    BY <1>1, <1>8, <2>1 DEF Rests, ArrivalsFresh, Arriving
  <2> QED
    BY <1>5, <1>6, <1>7, <2>3, <2>4
<1>9. CASE conn[c].st = "no"
  <2>1. /\ cookie' = cookie
        /\ conn[c].tok # None => token[conn[c].tok].st = "usable"
    BY <1>9 DEF RefreshAnswered, Presented
  <2>2. \A k \in Tokens : Arriving(k)' => Arriving(k)
    BY <1>2, <1>4 DEF Arriving
  <2>3. ArrivalsFresh'
    BY <1>1, <1>2, <2>1, <2>2 DEF ArrivalsFresh
  <2>4. Rests'
    BY <1>1, <1>2, <2>1 DEF Rests
  <2> QED
    BY <1>5, <1>6, <1>7, <2>3, <2>4
<1> QED
  BY <1>1, <1>8, <1>9

LEMMA LineageKept ==
  ASSUME Basics, ~torn => Lineage, [Next]_vars
  PROVE  ~torn' => Lineage'
<1> SUFFICES ASSUME ~torn' PROVE Lineage'
  OBVIOUS
<1>1. CASE Quiet
  BY <1>1, StillLineage DEF Quiet, Basics
<1>2. ASSUME NEW t \in Tabs, NEW c \in Conns, Starting(t, c) PROVE Lineage'
  BY <1>2, StartKeepsLineage DEF Starting, Starts, Basics, TypeOK
<1>3. ASSUME NEW c \in Conns,
             RefreshGet(c) \/ RotateUpdate(c) \/ RotateCommit(c) \/ RefreshFails(c)
      PROVE  Lineage'
  <2>1. ~torn
    BY <1>3 DEF RefreshGet, RotateUpdate, RotateCommit, RefreshFails
  <2> QED
    BY <1>3, <2>1, GetKeepsLineage, UpdateKeepsLineage, CommitKeepsLineage, FailKeepsLineage
<1>4. ASSUME NEW c \in Conns, RefreshAnswered(c) \/ RefreshOrphaned(c) \/ RefreshLost(c)
      PROVE  Lineage'
  <2>1. ~RefreshLost(c)
    BY DEF RefreshLost
  <2>2. ~torn
    BY <1>4, <2>1 DEF RefreshAnswered, RefreshOrphaned
  <2>3. ~RefreshOrphaned(c)
    BY <2>2 DEF RefreshOrphaned, Lineage, FlightsAwaited, InFlight
  <2> QED
    BY <1>4, <2>1, <2>2, <2>3, AnswerKeepsLineage
<1>5. ASSUME NEW r \in Calls,
             ServeSignIn(r) \/ ServeLogout(r) \/ OnGranted(r) \/ OnLoggedOut(r)
      PROVE  Lineage'
  <2>1. ~torn /\ ~ServeLogout(r) /\ ~OnLoggedOut(r)
    BY <1>5 DEF ServeSignIn, ServeLogout, OnGranted, OnLoggedOut
  <2> QED
    BY <1>5, <2>1, SignInKeepsLineage, GrantedKeepsLineage
<1>6. ASSUME NEW r \in Calls, NEW u \in Users, LoadCallback(r, u) PROVE Lineage'
  <2> DEFINE t == TabOf[r]
  <2>1. /\ UNCHANGED <<token, cookie, conn>>
        /\ refreshing'[t] = None
        /\ \A s \in Tabs : s # t => refreshing'[s] = refreshing[s]
        /\ torn' = (torn \/ refreshing[t] # None)
        /\ \A q \in Calls : call'[q].st = "granted" => /\ call[q].st = "granted"
                                                       /\ call'[q].tok = call[q].tok
    BY <1>6, CallbackSteps
  <2>2. ~torn /\ refreshing[t] = None
    BY <2>1 DEF Basics, TypeOK
  <2> QED
    BY <2>1, <2>2, StillLineage DEF Basics
<1> QED
  BY <1>1, <1>2, <1>3, <1>4, <1>5, <1>6, StepKinds

LEMMA LineageInit == Init => Lineage
BY DEF Init, Lineage, FlightsAwaited, Presented, ArrivalsFresh, ArrivalsDiffer,
       Rests, Arriving, InFlight, NoConn, NoCall

\* The single flight: while no answer is lost, no two tabs present one cookie
\* and nobody signs out, the browser's cookie can be rotated or its successor
\* is on its way to the tab that asked.
THEOREM SingleFlight == Spec => []CookieStaysUsable
<1>1. Basics /\ (~torn => Lineage) => CookieStaysUsable
  BY DEF Basics, TypeOK, LocksHeld, Lineage, FlightsAwaited, Presented, Rests,
         InFlight, ConnStates, CookieStaysUsable
<1>2. Init => Basics /\ (~torn => Lineage)
  BY BasicsInit, LineageInit
<1>3. Basics /\ (~torn => Lineage) /\ [Next]_vars => (Basics /\ (~torn => Lineage))'
  BY BasicsKept, LineageKept
<1> QED
  BY <1>1, <1>2, <1>3, PTL DEF Spec

===============================================================================
