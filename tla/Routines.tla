------------------------------- MODULE Routines -------------------------------
(***************************************************************************)
(* The routine scheduler of the Go backend, for the routines of one bot.   *)
(*                                                                         *)
(* The table bot_routines holds a cron schedule per routine and, in        *)
(* last_run_at, when it last fired.  Every tick the scheduler lists the    *)
(* enabled routines and walks through the list: a routine whose next       *)
(* occurrence after last_run_at is due is fired, that is, a bot run is     *)
(* queued unless the bot's conversation is busy, and last_run_at is        *)
(* stamped with the time.  Requests create, change, delete and "run now"   *)
(* routines meanwhile, the clock goes on between any two steps, single     *)
(* database calls may fail, and the process may die and be restarted.      *)
(* What becomes of a run is BotRunQueue's; here a run is a live row, or a  *)
(* goroutine whose row a cancel has finished.                              *)
(*                                                                         *)
(* Time is a number of instants.  A schedule is the set of instants it     *)
(* names up to MaxTime; one that names any names later ones too.  A cron   *)
(* expression may also name none at all (30 February) or, in a row written *)
(* by older code, no longer parse.                                         *)
(***************************************************************************)
EXTENDS Integers, FiniteSetsExt

CONSTANTS
  MaxRoutines,        \* routines that can be created
  MaxRoutinesPerBot,  \* MAX_ROUTINES_PER_BOT
  Schedules,          \* schedules the parser accepts
  Unparsable,         \* a schedule or timezone it does not accept any more
  Handlers,           \* HTTP requests in flight at once
  MaxTime,            \* bound: the last instant
  MaxRequests,        \* bound: requests that users send
  MaxFaults           \* bound: failing database calls and deaths of the process

Scheduler == "scheduler"

ASSUME ConstantsAssumption ==
  /\ MaxRoutines \in Nat \ {0}
  /\ MaxRoutinesPerBot \in Nat \ {0}
  /\ MaxTime \in Nat
  /\ \A s \in Schedules : s \subseteq 1 .. MaxTime
  /\ Unparsable \notin Schedules
  /\ Scheduler \notin Handlers
  /\ IsFiniteSet(Handlers)
  /\ MaxRequests \in Nat
  /\ MaxFaults \in Nat

VARIABLES
  clock,     \* the time
  stored,    \* per routine: "absent", "stored" or "deleted"
  row,       \* its row of bot_routines; last is last_run_at, else created_at
  convs,     \* the bot's conversations
  undecided, \* those with undecided tool calls
  runs,      \* live bot runs per conversation and trigger_source
  astray,    \* goroutines per conversation that run on under a cancelled row
  revived,   \* rows per conversation that such a goroutine made live again
  listed,    \* what is left of the scheduler's list, as it was read
  fire,      \* how far the scheduler, or a run-now request, is with firing
  edit,      \* how far a request that writes a row is
  requests,  \* requests so far
  faults,    \* failed database calls and deaths of the process so far
  fired,     \* history: occurrences the scheduler queued a run for
  again,     \* history: routines it did so twice for one occurrence
  unstamped  \* history: routines whose last_run_at does not show a firing

tableVars   == <<stored, row>>
runVars     == <<runs, astray, revived>>
convVars    == <<convs, undecided, runVars>>
boundVars   == <<requests, faults>>
historyVars == <<fired, again, unstamped>>
routinesVars == <<clock, tableVars, convVars, listed, fire, edit, boundVars, historyVars>>

Ids      == 1 .. MaxRoutines
Actors   == {Scheduler} \cup Handlers
Convs    == 1 .. Cardinality(Handlers) + 1
Time     == 0 .. MaxTime
Triggers == {"routine", "manual"}
Row      == [schedule : Schedules \cup {Unparsable}, enabled : BOOLEAN, last : Time]

\* Before, at and after the checks of fireRoutine and handleRunRoutineNow.
Checking == {"resolve", "open", "pending", "active", "create"}
Stamping == {"now", "stamp"}
Fire     == [at : {"idle"} \cup Checking \cup Stamping, id : Ids, occ : Time,
             conv : Convs, now : Time]
NoFire   == [at |-> "idle", id |-> 1, occ |-> 0, conv |-> 1, now |-> 0]

NoEdit   == [at |-> "idle"]
Edit     == {NoEdit} \cup [at : {"insert"}, schedule : Schedules]
            \cup [at : {"write"}, id : Ids, schedule : Schedules \cup {Unparsable},
                  enabled : BOOLEAN]

Stored   == {r \in Ids : stored[r] = "stored"}
Busy(k)  == revived[k] > 0 \/ \E g \in Triggers : runs[k][g] > 0

RoutinesTypeOK ==
  /\ clock \in Time
  /\ stored \in [Ids -> {"absent", "stored", "deleted"}]
  /\ row \in [Ids -> Row]
  /\ convs \subseteq Convs
  /\ undecided \subseteq convs
  /\ runs \in [Convs -> [Triggers -> Nat]]
  /\ astray \in [Convs -> Nat] /\ revived \in [Convs -> Nat]
  /\ DOMAIN listed \subseteq Ids /\ \A r \in DOMAIN listed : listed[r] \in Row
  /\ fire \in [Actors -> Fire]
  /\ edit \in [Handlers -> Edit]
  /\ requests \in 0 .. MaxRequests
  /\ faults \in 0 .. MaxFaults
  /\ fired \subseteq Ids \X Time
  /\ again \subseteq Ids
  /\ unstamped \subseteq Ids

\* Older processes may have left rows of any kind behind.
RoutinesInit ==
  /\ clock = 0
  /\ \E n \in 0 .. MaxRoutines :
       stored = [r \in Ids |-> IF r <= n THEN "stored" ELSE "absent"]
  /\ row \in [Ids -> {[schedule |-> s, enabled |-> TRUE, last |-> 0] :
                      s \in Schedules \cup {Unparsable}}]
  /\ \A r \in Ids \ Stored : row[r].schedule = Unparsable
  /\ convs = {} /\ undecided = {}
  /\ runs = [k \in Convs |-> [g \in Triggers |-> 0]]
  /\ astray = [k \in Convs |-> 0] /\ revived = [k \in Convs |-> 0]
  /\ listed = <<>>
  /\ fire = [a \in Actors |-> NoFire]
  /\ edit = [q \in Handlers |-> NoEdit]
  /\ requests = 0 /\ faults = 0
  /\ fired = {} /\ again = {} /\ unstamped = {}

\* Users send requests and database calls fail within their bounds.
Asks  == requests < MaxRequests /\ requests' = requests + 1
Fault == faults < MaxFaults /\ faults' = faults + 1

-----------------------------------------------------------------------------
(* When a routine is due. *)

\* Mutant: an occurrence at the very time of the last run counts as next.
NextOccurrenceInclusive(w) ==
  LET later == {t \in w.schedule : t >= w.last}
  IN  IF w.schedule = {} THEN 0 ELSE IF later = {} THEN MaxTime + 1 ELSE Min(later)

\* sched.Next(last): the first instant after last that the schedule names, and
\* the zero time, which is before every other, if it names none at all.
NextOccurrence(w) ==
  LET later == {t \in w.schedule : t > w.last}
  IN  IF w.schedule = {} THEN 0 ELSE IF later = {} THEN MaxTime + 1 ELSE Min(later)

Parses(w) == w.schedule # Unparsable
Due(w)    == Parses(w) /\ NextOccurrence(w) <= clock

-----------------------------------------------------------------------------
(* The scheduler's walk. *)

\* ListEnabled, in the order of created_at, which is that of the ids.
List ==
  /\ fire[Scheduler].at = "idle" /\ DOMAIN listed = {}
  /\ listed' = [r \in {x \in Stored : row[x].enabled} |-> row[r]]
  /\ UNCHANGED <<clock, tableVars, convVars, fire, edit, boundVars, historyVars>>

\* Mutant: a schedule that does not parse ends the walk.
ConsiderAborts(r) ==
  /\ fire[Scheduler].at = "idle"
  /\ r \in DOMAIN listed /\ \A x \in DOMAIN listed : r <= x
  /\ listed' = IF Parses(listed[r]) THEN [x \in DOMAIN listed \ {r} |-> listed[x]] ELSE <<>>
  /\ fire' = IF Due(listed[r])
             THEN [fire EXCEPT ![Scheduler] =
                     [NoFire EXCEPT !.at = "resolve", !.id = r, !.occ = NextOccurrence(listed[r])]]
             ELSE fire
  /\ UNCHANGED <<clock, tableVars, convVars, edit, boundVars, historyVars>>

\* The next routine of the list: passed over, or fired if it is due by what was
\* read of it then.
Consider(r) ==
  /\ fire[Scheduler].at = "idle"
  /\ r \in DOMAIN listed /\ \A x \in DOMAIN listed : r <= x
  /\ listed' = [x \in DOMAIN listed \ {r} |-> listed[x]]
  /\ fire' = IF Due(listed[r])
             THEN [fire EXCEPT ![Scheduler] =
                     [NoFire EXCEPT !.at = "resolve", !.id = r, !.occ = NextOccurrence(listed[r])]]
             ELSE fire
  /\ UNCHANGED <<clock, tableVars, convVars, edit, boundVars, historyVars>>

-----------------------------------------------------------------------------
(* Firing: fireRoutine by the scheduler, handleRunRoutineNow by a request. *)

At(a, step)   == fire[a].at = step
Goes(a, step) == fire' = [fire EXCEPT ![a].at = step]

\* An error before the run is queued ends the firing without a stamp.
GivesUp(a) == Fault /\ fire' = [fire EXCEPT ![a] = NoFire]

\* handleRunRoutineNow: the routine is there.  (The requests, not the scheduler,
\* look whether the bot is archived; one that is refused is not an action.)
RunNow(q, r) ==
  /\ Asks /\ At(q, "idle") /\ edit[q] = NoEdit
  /\ r \in Stored
  /\ fire' = [fire EXCEPT ![q] = [NoFire EXCEPT !.at = "resolve", !.id = r]]
  /\ UNCHANGED <<clock, tableVars, convVars, listed, edit, faults, historyVars>>

\* The run goes to conversation k.
Settles(a, k) == fire' = [fire EXCEPT ![a] = [@ EXCEPT !.at = "pending", !.conv = k]]

\* routineConversation: the bot's latest conversation, or a new one.
Resolve(a) ==
  /\ At(a, "resolve")
  /\ \/ /\ \E k \in convs : Settles(a, k)
        /\ UNCHANGED <<convs, faults>>
     \/ /\ convs = {}
        /\ Goes(a, "open")
        /\ UNCHANGED <<convs, faults>>
     \/ GivesUp(a) /\ UNCHANGED convs
  /\ UNCHANGED <<clock, tableVars, undecided, runVars, listed, edit, requests, historyVars>>

\* Both find no conversation: each opens one.
Open(a) ==
  /\ At(a, "open")
  /\ \/ /\ \E k \in Convs \ convs :
             /\ \A j \in Convs \ convs : k <= j
             /\ convs' = convs \cup {k}
             /\ Settles(a, k)
        /\ UNCHANGED faults
     \/ GivesUp(a) /\ UNCHANGED convs
  /\ UNCHANGED <<clock, tableVars, undecided, runVars, listed, edit, requests, historyVars>>

\* The scheduler stamps an occurrence it skips; a request is refused.
Skips(a) == IF a = Scheduler THEN Goes(a, "now") ELSE fire' = [fire EXCEPT ![a] = NoFire]

\* Pending.ForConversation: nothing is queued behind undecided calls ...
CheckPending(a) ==
  /\ At(a, "pending")
  /\ \/ fire[a].conv \in undecided /\ Skips(a) /\ UNCHANGED faults
     \/ fire[a].conv \notin undecided /\ Goes(a, "active") /\ UNCHANGED faults
     \/ GivesUp(a)
  /\ UNCHANGED <<clock, tableVars, convVars, listed, edit, requests, historyVars>>

\* Mutant: the check sees only the runs a user started.
CheckActiveManualOnly(a) ==
  /\ At(a, "active")
  /\ \/ runs[fire[a].conv]["manual"] > 0 /\ Skips(a) /\ UNCHANGED faults
     \/ runs[fire[a].conv]["manual"] = 0 /\ Goes(a, "create") /\ UNCHANGED faults
     \/ GivesUp(a)
  /\ UNCHANGED <<clock, tableVars, convVars, listed, edit, requests, historyVars>>

\* ... HasActiveForConversation: nor behind a live run.
CheckActive(a) ==
  /\ At(a, "active")
  /\ \/ Busy(fire[a].conv) /\ Skips(a) /\ UNCHANGED faults
     \/ ~Busy(fire[a].conv) /\ Goes(a, "create") /\ UNCHANGED faults
     \/ GivesUp(a)
  /\ UNCHANGED <<clock, tableVars, convVars, listed, edit, requests, historyVars>>

Queue(a) ==
  LET g == IF a = Scheduler THEN "routine" ELSE "manual"
  IN  runs' = [runs EXCEPT ![fire[a].conv][g] = @ + 1]

\* The scheduler's firings as the properties see them; the zero time is no
\* occurrence.
Records(a) ==
  LET f == <<fire[a].id, fire[a].occ>>
  IN  IF a = Scheduler /\ fire[a].occ # 0
      THEN /\ fired' = fired \cup {f}
           /\ again' = IF f \in fired THEN again \cup {fire[a].id} ELSE again
      ELSE UNCHANGED <<fired, again>>

\* The routines without a stamp once the one that a still owes is lost.
StampLost(a, firings) ==
  IF <<fire[a].id, fire[a].occ>> \in firings THEN unstamped \cup {fire[a].id} ELSE unstamped

\* BotRuns.Create, which may also fail, or have its answer lost.
CreateRun(a) ==
  /\ At(a, "create")
  /\ \/ Queue(a) /\ Records(a) /\ Goes(a, "now") /\ UNCHANGED <<faults, unstamped>>
     \/ GivesUp(a) /\ UNCHANGED <<runs, historyVars>>
     \/ Queue(a) /\ Records(a) /\ GivesUp(a) /\ unstamped' = StampLost(a, fired')
  /\ UNCHANGED <<clock, tableVars, convs, undecided, astray, revived, listed, edit, requests>>

\* time.Now() ...
ReadClock(a) ==
  /\ At(a, "now")
  /\ fire' = [fire EXCEPT ![a].at = "stamp", ![a].now = clock]
  /\ UNCHANGED <<clock, tableVars, convVars, listed, edit, boundVars, historyVars>>

\* Mutant: last_run_at takes the occurrence that is next, not the time.
StampNext(a) ==
  LET r == fire[a].id IN
  /\ At(a, "stamp")
  /\ \/ /\ r \in Stored
        /\ row' = [row EXCEPT ![r].last =
             IF ~Parses(row[r]) THEN fire[a].now
             ELSE NextOccurrence([row[r] EXCEPT !.last = fire[a].now])]
        /\ unstamped' = IF fire[a].now < row[r].last THEN unstamped \cup {r} ELSE unstamped
        /\ fire' = [fire EXCEPT ![a] = NoFire]
        /\ UNCHANGED faults
     \/ /\ r \notin Stored
        /\ fire' = [fire EXCEPT ![a] = NoFire]
        /\ UNCHANGED <<row, unstamped, faults>>
     \/ GivesUp(a) /\ unstamped' = StampLost(a, fired) /\ UNCHANGED row
  /\ UNCHANGED <<clock, stored, convVars, listed, edit, requests, fired, again>>

\* ... is what SetLastRun writes, whatever last_run_at is by now.  A failure is
\* ignored.
Stamp(a) ==
  LET r == fire[a].id IN
  /\ At(a, "stamp")
  /\ \/ /\ r \in Stored
        /\ row' = [row EXCEPT ![r].last = fire[a].now]
        /\ unstamped' = IF fire[a].now < row[r].last THEN unstamped \cup {r} ELSE unstamped
        /\ fire' = [fire EXCEPT ![a] = NoFire]
        /\ UNCHANGED faults
     \/ /\ r \notin Stored
        /\ fire' = [fire EXCEPT ![a] = NoFire]
        /\ UNCHANGED <<row, unstamped, faults>>
     \/ GivesUp(a) /\ unstamped' = StampLost(a, fired) /\ UNCHANGED row
  /\ UNCHANGED <<clock, stored, convVars, listed, edit, requests, fired, again>>

FireStep(a) ==
  \/ Resolve(a) \/ Open(a) \/ CheckPending(a) \/ CheckActive(a)
  \/ CreateRun(a) \/ ReadClock(a) \/ Stamp(a)

-----------------------------------------------------------------------------
(* Requests that write a row. *)

\* handleCreateRoutine: the bot is below its limit ...
CreateRoutine(q, s) ==
  /\ Asks /\ At(q, "idle") /\ edit[q] = NoEdit
  /\ Cardinality(Stored) < MaxRoutinesPerBot
  /\ edit' = [edit EXCEPT ![q] = [at |-> "insert", schedule |-> s]]
  /\ UNCHANGED <<clock, tableVars, convVars, listed, fire, faults, historyVars>>

\* ... and Create inserts an enabled row.
InsertRoutine(q) ==
  /\ edit[q].at = "insert"
  /\ edit' = [edit EXCEPT ![q] = NoEdit]
  /\ \E r \in Ids :
       /\ stored[r] = "absent" /\ \A x \in Ids : stored[x] = "absent" => r <= x
       /\ stored' = [stored EXCEPT ![r] = "stored"]
       /\ row' = [row EXCEPT ![r] = [schedule |-> edit[q].schedule, enabled |-> TRUE,
                                    last |-> clock]]
  /\ UNCHANGED <<clock, convVars, listed, fire, boundVars, historyVars>>

\* handleUpdateRoutine: Update reads the row and lays the patch over it ...
UpdateRoutine(q, r) ==
  /\ Asks /\ At(q, "idle") /\ edit[q] = NoEdit
  /\ r \in Stored
  /\ \E s \in Schedules \cup {row[r].schedule}, b \in BOOLEAN :
       edit' = [edit EXCEPT ![q] = [at |-> "write", id |-> r, schedule |-> s, enabled |-> b]]
  /\ UNCHANGED <<clock, tableVars, convVars, listed, fire, faults, historyVars>>

\* ... and writes every column but last_run_at back.
WriteRoutine(q) ==
  LET e == edit[q] IN
  /\ e.at = "write"
  /\ edit' = [edit EXCEPT ![q] = NoEdit]
  /\ row' = IF e.id \in Stored
            THEN [row EXCEPT ![e.id] = [@ EXCEPT !.schedule = e.schedule, !.enabled = e.enabled]]
            ELSE row
  /\ UNCHANGED <<clock, stored, convVars, listed, fire, boundVars, historyVars>>

DeleteRoutine(r) ==
  /\ Asks /\ r \in Stored
  /\ stored' = [stored EXCEPT ![r] = "deleted"]
  /\ UNCHANGED <<clock, row, convVars, listed, fire, edit, faults, historyVars>>

-----------------------------------------------------------------------------
(* The queue, the clock and the process. *)

\* A run asks for approvals, somebody decides them, the run ends.
RunAsks(k) ==
  /\ k \in convs \ undecided /\ (Busy(k) \/ astray[k] > 0)
  /\ undecided' = undecided \cup {k}
  /\ UNCHANGED <<clock, tableVars, convs, runVars, listed, fire, edit, boundVars, historyVars>>

CallsDecided(k) ==
  /\ k \in undecided
  /\ undecided' = undecided \ {k}
  /\ UNCHANGED <<clock, tableVars, convs, runVars, listed, fire, edit, boundVars, historyVars>>

RunEnds(k, g) ==
  /\ runs[k][g] > 0
  /\ runs' = [runs EXCEPT ![k][g] = @ - 1]
  /\ UNCHANGED <<clock, tableVars, convs, undecided, astray, revived, listed, fire, edit,
                 boundVars, historyVars>>

RevivedEnds(k) ==
  /\ revived[k] > 0
  /\ revived' = [revived EXCEPT ![k] = @ - 1]
  /\ UNCHANGED <<clock, tableVars, convs, undecided, runs, astray, listed, fire, edit,
                 boundVars, historyVars>>

\* handleCancelBotRun read the row as queued and writes 'cancelled' after it was
\* claimed: the goroutine goes on.
CancelledLate(k) ==
  /\ Asks
  /\ \/ /\ \E g \in Triggers : runs[k][g] > 0 /\ runs' = [runs EXCEPT ![k][g] = @ - 1]
        /\ UNCHANGED revived
     \/ revived[k] > 0 /\ revived' = [revived EXCEPT ![k] = @ - 1] /\ UNCHANGED runs
  /\ astray' = [astray EXCEPT ![k] = @ + 1]
  /\ UNCHANGED <<clock, tableVars, convs, undecided, listed, fire, edit, faults, historyVars>>

\* It settles its row, which stays finished, or parks: SetWaitingApproval makes
\* the row live again, whatever its status is.
AstrayEnds(k) ==
  /\ astray[k] > 0
  /\ astray' = [astray EXCEPT ![k] = @ - 1]
  /\ UNCHANGED <<clock, tableVars, convs, undecided, runs, revived, listed, fire, edit,
                 boundVars, historyVars>>

Revives(k) ==
  /\ astray[k] > 0
  /\ astray' = [astray EXCEPT ![k] = @ - 1]
  /\ revived' = [revived EXCEPT ![k] = @ + 1]
  /\ UNCHANGED <<clock, tableVars, convs, undecided, runs, listed, fire, edit,
                 boundVars, historyVars>>

Tick ==
  /\ clock < MaxTime
  /\ clock' = clock + 1
  /\ UNCHANGED <<tableVars, convVars, listed, fire, edit, boundVars, historyVars>>

\* The process dies or is stopped, and a new one starts: RecoverRunning queues
\* every live row again.
Restart ==
  /\ Fault
  /\ astray' = [k \in Convs |-> 0]
  /\ listed' = <<>>
  /\ fire' = [a \in Actors |-> NoFire]
  /\ edit' = [q \in Handlers |-> NoEdit]
  /\ unstamped' = IF fire[Scheduler].at \in Stamping THEN StampLost(Scheduler, fired)
                                                     ELSE unstamped
  /\ UNCHANGED <<clock, tableVars, convs, undecided, runs, revived, requests, fired, again>>

-----------------------------------------------------------------------------
SchedulerStep == List \/ (\E r \in Ids : Consider(r)) \/ FireStep(Scheduler)

HandlerStep(q) ==
  \/ FireStep(q) \/ InsertRoutine(q) \/ WriteRoutine(q)
  \/ \E r \in Ids : RunNow(q, r) \/ UpdateRoutine(q, r)
  \/ \E s \in Schedules : CreateRoutine(q, s)

BotStep ==
  \/ \E r \in Ids : DeleteRoutine(r)
  \/ \E k \in Convs : \/ RunAsks(k) \/ CallsDecided(k) \/ \E g \in Triggers : RunEnds(k, g)
                      \/ RevivedEnds(k) \/ CancelledLate(k) \/ AstrayEnds(k) \/ Revives(k)

RoutinesNext == SchedulerStep \/ (\E q \in Handlers : HandlerStep(q)) \/ BotStep \/ Tick \/ Restart

RoutinesSpec == RoutinesInit /\ [][RoutinesNext]_routinesVars

\* The scheduler's goroutine runs whenever it can: its ticker always comes
\* again, and its database calls end.
RoutinesFairSpec == RoutinesSpec /\ WF_routinesVars(SchedulerStep)

-----------------------------------------------------------------------------
(* Properties. *)

\* The scheduler queues no two runs for one occurrence of a routine, unless
\* last_run_at never showed the first: its stamp was lost with a failing call
\* or with the process, or an older one, delayed on its way, overwrote it.
FiredOnce == again \subseteq unstamped

\* The scheduler keeps at most one live run of its own in a conversation, over
\* all routines of the bot, ticks and requests, whatever requests do meanwhile.
\* Apart from these are the runs that parked after a late cancel had finished
\* them: they are live beside the one that was queued since.
OneRoutineRun == \A k \in Convs : runs[k]["routine"] <= 1

\* An enabled routine that is due does not stay so: it is fired or skipped with
\* a stamp, and neither other routines, nor unparsable ones, nor a busy
\* conversation, nor a failing call keep the scheduler from it.
DueIsConsumed ==
  \A r \in Ids, t \in 1 .. MaxTime :
    LET due == /\ r \in Stored /\ row[r].enabled
               /\ Due(row[r]) /\ NextOccurrence(row[r]) = t
    IN  due ~> ~due

-----------------------------------------------------------------------------
(* What the code's comments promise beyond that. *)

\* "fires every one whose next occurrence is due" (botroutines.go:115): the
\* scheduler queues a run only for an instant the routine's schedule names.
FiresOnlyOccurrences ==
  At(Scheduler, "create") => fire[Scheduler].occ # 0

\* HasActiveForConversation is "used to keep one live run per bot conversation"
\* (storage/bot_runs.go:206), and fireRoutine queues "no new work while a run is
\* live on the conversation" (botroutines.go:200): no run that was cancelled late
\* and parked is live beside a run of the scheduler.
AloneOnConversation ==
  \A k \in Convs : revived[k] > 0 => runs[k]["routine"] = 0
===============================================================================
