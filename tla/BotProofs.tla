------------------------------ MODULE BotProofs ------------------------------
(***************************************************************************)
(* Proofs about what is around a bot, for every value of the constants:    *)
(* the scheduler that fires its routines, and the page that shows it. They *)
(* are specifications of their own, and no theorem speaks of both.         *)
(***************************************************************************)
EXTENDS BotPages, Routines, FiniteSetTheorems, WellFoundedInduction, TLAPS

-----------------------------------------------------------------------------
(* The scheduler                                                           *)

USE ConstantsAssumption

\* What the scheduler is about to do.
Firing == fire[Scheduler]

\* Only routines that were created are listed, fired or recorded, and the one
\* that is being fired is no longer on the list.
KnownRoutines ==
  /\ \A r \in DOMAIN listed : stored[r] # "absent"
  /\ \A r \in Ids, t \in Time : <<r, t>> \in fired => stored[r] # "absent"
  /\ Firing.at # "idle" => Firing.id \notin DOMAIN listed /\ stored[Firing.id] # "absent"

\* The scheduler fires what is due, and its stamp is no older than that.
OnTime ==
  /\ Firing.occ <= clock
  /\ Firing.at = "stamp" => Firing.occ <= Firing.now

\* last_run_at shows every firing, or is about to; so does the copy on the list;
\* and an occurrence about to be fired was not fired before.
FiringsShown ==
  \A r \in Ids \ unstamped, t \in Time : <<r, t>> \in fired =>
    /\ stored[r] = "stored" =>
         \/ row[r].last >= t
         \/ Firing.at \in Stamping /\ Firing.id = r /\ Firing.occ = t
    /\ r \in DOMAIN listed => listed[r].last >= t
    /\ Firing.at \in Checking /\ Firing.id = r => Firing.occ = 0 \/ t < Firing.occ

\* Past its checks the scheduler has no live run of its own in the conversation.
AloneWhenCreating == Firing.at = "create" => runs[Firing.conv]["routine"] = 0

RoutinesInv ==
  /\ RoutinesTypeOK
  /\ KnownRoutines
  /\ OnTime
  /\ FiringsShown
  /\ AloneWhenCreating
  /\ FiredOnce
  /\ OneRoutineRun

-----------------------------------------------------------------------------
(* The scheduler: constants and the next occurrence. *)

LEMMA Domains ==
  /\ Cardinality(Handlers) \in Nat
  /\ 1 \in Convs /\ 1 \in Ids /\ 0 \in Time
  /\ Scheduler \in Actors /\ Handlers \subseteq Actors
  /\ NoFire \in Fire
  /\ NoEdit \in Edit
<1>1. Cardinality(Handlers) \in Nat
  BY FS_CardinalityType
<1> QED
  BY <1>1 DEF Convs, Ids, Time, Actors, NoFire, Fire, NoEdit, Edit

\* Min of a set of numbers is what its name says.
LEMMA MinOfNumbers ==
  ASSUME NEW S \in SUBSET Nat, S # {}
  PROVE  Min(S) \in S /\ \A n \in S : Min(S) <= n
<1>1. PICK m \in S : \A n \in S : <<n, m>> \notin OpToRel(<, Nat)
  BY WFMin, NatLessThanWellFounded, Zenon
<1>2. \A n \in S : ~ (n < m)
  BY <1>1, Zenon DEF OpToRel
<1>3. \A n \in S : m <= n
  BY <1>2
<1> QED
  BY <1>3 DEF Min

\* The next occurrence lies after the last run, or there is none.
LEMMA NextAfterLast ==
  ASSUME NEW w \in Row, Parses(w)
  PROVE  /\ NextOccurrence(w) \in 0 .. MaxTime + 1
         /\ NextOccurrence(w) = 0 \/ w.last < NextOccurrence(w)
<1> DEFINE later == {t \in w.schedule : t > w.last}
<1>1. w.schedule \in Schedules /\ w.last \in Time
  BY DEF Row, Parses
<1>2. later \in SUBSET Nat /\ later \subseteq 1 .. MaxTime
  BY <1>1
<1>3. CASE later = {}
  BY <1>1, <1>3 DEF NextOccurrence, Time
<1>4. CASE later # {}
  <2>1. Min(later) \in later
    BY <1>2, <1>4, MinOfNumbers
  <2>2. w.schedule # {}
    BY <1>4
  <2>3. NextOccurrence(w) = Min(later)
    BY <1>4, <2>2, Zenon DEF NextOccurrence
  <2>4. Min(later) \in 1 .. MaxTime /\ w.last < Min(later)
    BY <1>2, <2>1
  <2> QED
    BY <2>3, <2>4
<1> QED
  BY <1>3, <1>4

LEMMA InitIInv == RoutinesInit => RoutinesInv
<1> SUFFICES ASSUME RoutinesInit PROVE RoutinesInv
  OBVIOUS
<1> USE Domains DEF RoutinesInit
<1>1. RoutinesTypeOK
  <2>1. row \in [Ids -> Row]
    <3> DEFINE OldRows == {[schedule |-> s, enabled |-> TRUE, last |-> 0] :
                             s \in Schedules \cup {Unparsable}}
    <3>1. TRUE \in BOOLEAN /\ 0 \in Time
      OBVIOUS
    <3>2. ASSUME NEW s \in Schedules \cup {Unparsable}
          PROVE  [schedule |-> s, enabled |-> TRUE, last |-> 0] \in Row
      BY <3>1, Zenon DEF Row
    <3>3. OldRows \subseteq Row
      BY <3>2, Zenon
    <3>4. row \in [Ids -> OldRows]
      BY Zenon
    <3> HIDE DEF RoutinesInit, OldRows
    <3> QED
      BY <3>3, <3>4
  <2>2. stored \in [Ids -> {"absent", "stored", "deleted"}]
    BY DEF Ids
  <2>3. runs \in [Convs -> [Triggers -> Nat]]
    OBVIOUS
  <2>4. fire \in [Actors -> Fire] /\ edit \in [Handlers -> Edit]
    BY Zenon
  <2>5. DOMAIN listed = {}
    OBVIOUS
  <2>6. /\ clock \in Time /\ requests \in 0 .. MaxRequests /\ faults \in 0 .. MaxFaults
    BY DEF Time
  <2> QED
    BY <2>1, <2>2, <2>3, <2>4, <2>5, <2>6 DEF RoutinesTypeOK
<1>2. Firing = NoFire
  BY DEF Firing
<1>3. KnownRoutines /\ OnTime /\ FiringsShown /\ AloneWhenCreating
  BY <1>2 DEF KnownRoutines, OnTime, FiringsShown, AloneWhenCreating, NoFire
<1>4. FiredOnce /\ OneRoutineRun
  BY DEF FiredOnce, OneRoutineRun, Triggers
<1> QED
  BY <1>1, <1>3, <1>4 DEF RoutinesInv

-----------------------------------------------------------------------------
(* The scheduler: types. *)

LEMMA TypeOKFireStep ==
  ASSUME RoutinesTypeOK, NEW a \in Actors, FireStep(a)
  PROVE  RoutinesTypeOK'
<1> USE Domains DEF RoutinesTypeOK, tableVars, convVars, runVars, boundVars, historyVars
<1>0. fire[a] \in Fire
  OBVIOUS
<1>1. ASSUME GivesUp(a) PROVE fire' \in [Actors -> Fire] /\ faults' \in 0 .. MaxFaults
  BY <1>1 DEF GivesUp, Fault
<1>2. ASSUME NEW step \in {"idle"} \cup Checking \cup Stamping, Goes(a, step)
      PROVE  fire' \in [Actors -> Fire]
  BY <1>0, <1>2 DEF Goes, Fire
<1>21. ASSUME NEW k \in Convs, Settles(a, k)
       PROVE  fire' \in [Actors -> Fire]
  <2>1. [fire[a] EXCEPT !.at = "pending", !.conv = k] \in Fire
    BY <1>0 DEF Fire, Checking
  <2> QED
    BY <1>21, <2>1 DEF Settles
<1>3. CASE Resolve(a)
  BY <1>1, <1>2, <1>21, <1>3 DEF Resolve, Checking
<1>4. CASE Open(a)
  <2>1. CASE GivesUp(a)
    BY <1>1, <1>4, <2>1 DEF Open
  <2>2. ASSUME NEW k \in Convs \ convs, convs' = convs \cup {k}, Settles(a, k)
        PROVE  fire' \in [Actors -> Fire] /\ convs' \subseteq Convs /\ undecided \subseteq convs'
    BY <1>21, <2>2
  <2> QED
    BY <1>4, <2>1, <2>2 DEF Open
<1>5. ASSUME Skips(a) PROVE fire' \in [Actors -> Fire]
  BY <1>2, <1>5 DEF Skips, Stamping
<1>6. CASE CheckPending(a)
  BY <1>1, <1>2, <1>5, <1>6 DEF CheckPending, Checking
<1>7. CASE CheckActive(a)
  BY <1>1, <1>2, <1>5, <1>7 DEF CheckActive, Checking
<1>8. CASE CreateRun(a)
  <2>1. ASSUME Queue(a) PROVE runs' \in [Convs -> [Triggers -> Nat]]
    BY <1>0, <2>1 DEF Queue, Triggers, Fire
  <2>2. ASSUME Records(a) PROVE fired' \subseteq Ids \X Time /\ again' \subseteq Ids
    BY <1>0, <2>2 DEF Records, Fire
  <2>3. StampLost(a, fired') \subseteq Ids
    BY <1>0 DEF StampLost, Fire
  <2> QED
    BY <1>1, <1>2, <1>8, <2>1, <2>2, <2>3 DEF CreateRun, Stamping
<1>9. CASE ReadClock(a)
  BY <1>0, <1>9 DEF ReadClock, Fire, Stamping
<1>10. CASE Stamp(a)
  <2>1. StampLost(a, fired) \subseteq Ids
    BY <1>0 DEF StampLost, Fire
  <2>2. fire[a].id \in Ids /\ fire[a].now \in Time
    BY <1>0 DEF Fire
  <2>3. [row EXCEPT ![fire[a].id].last = fire[a].now] \in [Ids -> Row]
    BY <2>2 DEF Row
  <2>4. [fire EXCEPT ![a] = NoFire] \in [Actors -> Fire]
    OBVIOUS
  <2> QED
    BY <1>1, <1>10, <2>1, <2>2, <2>3, <2>4 DEF Stamp
<1> QED
  BY <1>3, <1>4, <1>6, <1>7, <1>8, <1>9, <1>10 DEF FireStep

LEMMA TypeOKHandlerStep ==
  ASSUME RoutinesTypeOK, NEW q \in Handlers, HandlerStep(q)
  PROVE  RoutinesTypeOK'
<1> USE Domains DEF RoutinesTypeOK, tableVars, convVars, runVars, boundVars, historyVars
<1>1. CASE FireStep(q)
  BY <1>1, TypeOKFireStep
<1>2. ASSUME NEW r \in Ids, RunNow(q, r)
      PROVE  RoutinesTypeOK'
  <2>1. [NoFire EXCEPT !.at = "resolve", !.id = r] \in Fire
    BY DEF Fire, Checking, NoFire
  <2>2. fire' \in [Actors -> Fire]
    BY <1>2, <2>1 DEF RunNow
  <2> QED
    BY <1>2, <2>2 DEF RunNow, Asks
<1>3. ASSUME NEW s \in Schedules, CreateRoutine(q, s)
      PROVE  RoutinesTypeOK'
  BY <1>3 DEF CreateRoutine, Asks, Edit
<1>4. CASE InsertRoutine(q)
  <2>1. edit[q].schedule \in Schedules
    BY <1>4 DEF InsertRoutine, Edit, NoEdit
  <2> QED
    BY <1>4, <2>1 DEF InsertRoutine, Row
<1>5. ASSUME NEW r \in Ids, UpdateRoutine(q, r)
      PROVE  RoutinesTypeOK'
  <2>1. row[r].schedule \in Schedules \cup {Unparsable}
    BY DEF Row
  <2> QED
    BY <1>5, <2>1 DEF UpdateRoutine, Asks, Edit
<1>6. CASE WriteRoutine(q)
  <2>1. /\ edit[q].id \in Ids
        /\ edit[q].schedule \in Schedules \cup {Unparsable}
        /\ edit[q].enabled \in BOOLEAN
    BY <1>6 DEF WriteRoutine, Edit, NoEdit
  <2> DEFINE e == edit[q]
             new == [row[e.id] EXCEPT !.schedule = e.schedule, !.enabled = e.enabled]
  <2>2. row[e.id] \in Row
    BY <2>1
  <2>3. new \in Row
    BY <2>1, <2>2 DEF Row
  <2>4. row' = row \/ row' = [row EXCEPT ![e.id] = new]
    BY <1>6 DEF WriteRoutine
  <2>5. row' \in [Ids -> Row]
    <3> HIDE DEF new
    <3> QED
      BY <2>1, <2>3, <2>4
  <2> QED
    BY <1>6, <2>5 DEF WriteRoutine
<1> QED
  BY <1>1, <1>2, <1>3, <1>4, <1>5, <1>6 DEF HandlerStep

LEMMA TypeOKStep ==
  ASSUME RoutinesTypeOK, [RoutinesNext]_routinesVars
  PROVE  RoutinesTypeOK'
<1> USE Domains DEF RoutinesTypeOK, tableVars, convVars, runVars, boundVars, historyVars
<1>1. CASE List
  BY <1>1 DEF List, Stored
<1>2. ASSUME NEW r \in Ids, Consider(r)
      PROVE  RoutinesTypeOK'
  <2>1. ASSUME Due(listed[r]) PROVE NextOccurrence(listed[r]) \in Time
    BY <1>2, <2>1, NextAfterLast DEF Consider, Due, Time
  <2>2. fire' \in [Actors -> Fire]
    BY <1>2, <2>1 DEF Consider, Fire, Checking, NoFire
  <2>3. DOMAIN listed' \subseteq Ids /\ \A x \in DOMAIN listed' : listed'[x] \in Row
    BY <1>2 DEF Consider
  <2> QED
    BY <1>2, <2>2, <2>3 DEF Consider
<1>3. CASE FireStep(Scheduler)
  BY <1>3, TypeOKFireStep
<1>4. ASSUME NEW q \in Handlers, HandlerStep(q)
      PROVE  RoutinesTypeOK'
  BY <1>4, TypeOKHandlerStep
<1>5. CASE BotStep
  <2>1. ASSUME NEW r \in Ids, DeleteRoutine(r)
        PROVE  RoutinesTypeOK'
    BY <2>1 DEF DeleteRoutine, Asks
  <2>2. ASSUME NEW k \in Convs, RunAsks(k) \/ CallsDecided(k)
        PROVE  RoutinesTypeOK'
    BY <2>2 DEF RunAsks, CallsDecided
  <2>3. ASSUME NEW k \in Convs, NEW g \in Triggers, RunEnds(k, g)
        PROVE  RoutinesTypeOK'
    BY <2>3 DEF RunEnds
  <2>4. ASSUME NEW k \in Convs, NEW u \in [Convs -> Nat], u[k] > 0
        PROVE  [u EXCEPT ![k] = @ - 1] \in [Convs -> Nat] /\ u[k] \in Nat
    BY <2>4
  <2>5. ASSUME NEW k \in Convs, RevivedEnds(k) \/ AstrayEnds(k) \/ Revives(k)
        PROVE  RoutinesTypeOK'
    BY <2>4, <2>5 DEF RevivedEnds, AstrayEnds, Revives
  <2>6. ASSUME NEW k \in Convs, CancelledLate(k)
        PROVE  RoutinesTypeOK'
    <3>1. ASSUME NEW g \in Triggers, runs[k][g] > 0, runs' = [runs EXCEPT ![k][g] = @ - 1]
          PROVE  runs' \in [Convs -> [Triggers -> Nat]]
      BY <3>1
    <3>2. runs' \in [Convs -> [Triggers -> Nat]]
      BY <2>6, <3>1 DEF CancelledLate
    <3>3. revived' \in [Convs -> Nat]
      BY <2>4, <2>6 DEF CancelledLate
    <3>4. astray' \in [Convs -> Nat] /\ requests' \in 0 .. MaxRequests
      BY <2>6 DEF CancelledLate, Asks
    <3> QED
      BY <2>6, <3>2, <3>3, <3>4 DEF CancelledLate
  <2> QED
    BY <1>5, <2>1, <2>2, <2>3, <2>5, <2>6 DEF BotStep
<1>6. CASE Tick
  BY <1>6 DEF Tick, Time
<1>7. CASE Restart
  <2>1. StampLost(Scheduler, fired) \subseteq Ids
    BY DEF StampLost, Fire
  <2>2. fire' \in [Actors -> Fire] /\ edit' \in [Handlers -> Edit]
    BY <1>7, Zenon DEF Restart
  <2>3. DOMAIN listed' = {} /\ astray' \in [Convs -> Nat]
    BY <1>7 DEF Restart
  <2> QED
    BY <1>7, <2>1, <2>2, <2>3 DEF Restart, Fault
<1>8. CASE UNCHANGED routinesVars
  BY <1>8 DEF routinesVars
<1> QED
  BY <1>1, <1>2, <1>3, <1>4, <1>5, <1>6, <1>7, <1>8 DEF RoutinesNext, SchedulerStep

-----------------------------------------------------------------------------
(* The scheduler: requests. *)

\* As far as the scheduler is concerned, a request may only create routines,
\* switch or reschedule them, and stamp them: later, or for all to see earlier.
HarmlessToScheduler ==
  /\ Firing' = Firing
  /\ UNCHANGED <<clock, listed, fired, again>>
  /\ unstamped \subseteq unstamped'
  /\ \A r \in Ids : stored[r] # "absent" => stored'[r] \in {stored[r], "deleted"}
  /\ \A r \in Ids \ unstamped' : stored[r] = "stored" => row'[r].last >= row[r].last
  /\ \A k \in Convs : runs'[k]["routine"] <= runs[k]["routine"]

LEMMA HandlerFiresHarmlessly ==
  ASSUME RoutinesTypeOK, NEW q \in Handlers, FireStep(q)
  PROVE  HarmlessToScheduler
<1> USE Domains DEF RoutinesTypeOK, Firing, tableVars, convVars, runVars, historyVars
<1>1. q # Scheduler /\ fire[q] \in Fire
  OBVIOUS
<1>2. \A r \in Ids : row[r].last \in Time /\ row[r].last >= row[r].last
  BY DEF Row, Time
<1>3. \A k \in Convs : runs[k]["routine"] <= runs[k]["routine"]
  BY DEF Triggers
<1>4. CASE Resolve(q) \/ Open(q)
  BY <1>1, <1>2, <1>3, <1>4 DEF Resolve, Open, Settles, Goes, GivesUp, HarmlessToScheduler
<1>5. CASE CheckPending(q) \/ CheckActive(q) \/ ReadClock(q)
  BY <1>1, <1>2, <1>3, <1>5
     DEF CheckPending, CheckActive, ReadClock, Skips, Goes, GivesUp, HarmlessToScheduler
<1>6. CASE CreateRun(q)
  <2>1. Firing' = Firing
    BY <1>1, <1>6 DEF CreateRun, Goes, GivesUp
  <2>2. UNCHANGED <<fired, again>>
    BY <1>1, <1>6 DEF CreateRun, Records
  <2>3. unstamped \subseteq unstamped'
    BY <1>6 DEF CreateRun, StampLost
  <2>4. \A k \in Convs : runs'[k]["routine"] = runs[k]["routine"]
    <3>1. ASSUME runs' = [runs EXCEPT ![fire[q].conv]["manual"] = @ + 1]
          PROVE  \A k \in Convs : runs'[k]["routine"] = runs[k]["routine"]
      BY <3>1 DEF Triggers
    <3>2. Queue(q) => runs' = [runs EXCEPT ![fire[q].conv]["manual"] = @ + 1]
      BY <1>1 DEF Queue
    <3>3. Queue(q) \/ runs' = runs
      BY <1>6 DEF CreateRun
    <3> QED
      BY <3>1, <3>2, <3>3
  <2> QED
    BY <1>2, <1>3, <1>6, <2>1, <2>2, <2>3, <2>4 DEF CreateRun, HarmlessToScheduler
<1>7. CASE Stamp(q)
  <2>1. Firing' = Firing
    BY <1>1, <1>7 DEF Stamp, GivesUp
  <2>2. unstamped \subseteq unstamped'
    BY <1>7 DEF Stamp, StampLost
  <2>3. fire[q].id \in Ids /\ fire[q].now \in Time
    BY <1>1 DEF Fire
  <2>4. \A r \in Ids \ unstamped' : stored[r] = "stored" => row'[r].last >= row[r].last
    BY <1>2, <1>7, <2>3 DEF Stamp, Time, Row
  <2> QED
    BY <1>3, <1>7, <2>1, <2>2, <2>4 DEF Stamp, HarmlessToScheduler
<1> QED
  BY <1>4, <1>5, <1>6, <1>7 DEF FireStep

LEMMA RequestsAreHarmless ==
  ASSUME RoutinesTypeOK, (\E q \in Handlers : HandlerStep(q)) \/ BotStep
  PROVE  HarmlessToScheduler
<1> USE Domains DEF RoutinesTypeOK, Firing, tableVars, convVars, runVars, boundVars, historyVars,
                    HarmlessToScheduler
<1>2. \A r \in Ids : row[r].last \in Time /\ row[r].last >= row[r].last
  BY DEF Row, Time
<1>3. \A k \in Convs : runs[k]["routine"] <= runs[k]["routine"]
  BY DEF Triggers
<1>4. ASSUME NEW q \in Handlers, FireStep(q)
      PROVE  HarmlessToScheduler
  BY <1>4, HandlerFiresHarmlessly
<1>5. ASSUME NEW q \in Handlers, NEW r \in Ids, RunNow(q, r)
      PROVE  HarmlessToScheduler
  BY <1>2, <1>3, <1>5 DEF RunNow
<1>6. ASSUME NEW q \in Handlers, NEW r \in Ids, UpdateRoutine(q, r)
      PROVE  HarmlessToScheduler
  BY <1>2, <1>3, <1>6 DEF UpdateRoutine
<1>7. ASSUME NEW q \in Handlers, NEW s \in Schedules, CreateRoutine(q, s)
      PROVE  HarmlessToScheduler
  BY <1>2, <1>3, <1>7 DEF CreateRoutine
<1>8. ASSUME NEW q \in Handlers, InsertRoutine(q)
      PROVE  HarmlessToScheduler
  BY <1>2, <1>3, <1>8 DEF InsertRoutine
<1>9. ASSUME NEW q \in Handlers, WriteRoutine(q)
      PROVE  HarmlessToScheduler
  <2>1. edit[q].id \in Ids
    BY <1>9 DEF WriteRoutine, Edit, NoEdit
  <2>2. \A r \in Ids : row'[r].last = row[r].last
    BY <1>9, <2>1 DEF WriteRoutine, Row
  <2> QED
    BY <1>2, <1>3, <1>9, <2>2 DEF WriteRoutine
<1>10. ASSUME NEW r \in Ids, DeleteRoutine(r)
       PROVE  HarmlessToScheduler
  BY <1>2, <1>3, <1>10 DEF DeleteRoutine
<1>11. ASSUME NEW k \in Convs, RunAsks(k) \/ CallsDecided(k)
       PROVE  HarmlessToScheduler
  BY <1>2, <1>3, <1>11 DEF RunAsks, CallsDecided
<1>12. ASSUME NEW k \in Convs, NEW g \in Triggers, RunEnds(k, g)
       PROVE  HarmlessToScheduler
  <2>1. \A j \in Convs : runs'[j]["routine"] <= runs[j]["routine"]
    BY <1>12 DEF RunEnds, Triggers
  <2> QED
    BY <1>2, <1>12, <2>1 DEF RunEnds
<1>13. ASSUME NEW k \in Convs, RevivedEnds(k) \/ AstrayEnds(k) \/ Revives(k)
       PROVE  HarmlessToScheduler
  BY <1>2, <1>3, <1>13 DEF RevivedEnds, AstrayEnds, Revives
<1>14. ASSUME NEW k \in Convs, CancelledLate(k)
       PROVE  HarmlessToScheduler
  <2>1. \A j \in Convs : runs'[j]["routine"] <= runs[j]["routine"]
    BY <1>14 DEF CancelledLate, Triggers
  <2> QED
    BY <1>2, <1>14, <2>1 DEF CancelledLate
<1> QED
  BY <1>4, <1>5, <1>6, <1>7, <1>8, <1>9, <1>10, <1>11, <1>12, <1>13, <1>14
     DEF HandlerStep, BotStep

\* What is harmless to the scheduler preserves the invariant.
LEMMA HarmlessKeepsInv ==
  ASSUME RoutinesInv, RoutinesTypeOK', HarmlessToScheduler
  PROVE  RoutinesInv'
<1> USE DEF RoutinesInv, HarmlessToScheduler
<1>1. Firing \in Fire
  BY Domains DEF RoutinesTypeOK, Firing
<1>2. KnownRoutines'
  BY <1>1 DEF KnownRoutines, RoutinesTypeOK, Fire
<1>3. OnTime'
  BY DEF OnTime
<1>4. FiringsShown'
  <2> SUFFICES ASSUME NEW r \in Ids \ unstamped', NEW t \in Time, <<r, t>> \in fired
               PROVE  /\ stored'[r] = "stored" =>
                           \/ row'[r].last >= t
                           \/ Firing.at \in Stamping /\ Firing.id = r /\ Firing.occ = t
                      /\ r \in DOMAIN listed => listed[r].last >= t
                      /\ Firing.at \in Checking /\ Firing.id = r =>
                           Firing.occ = 0 \/ t < Firing.occ
    BY DEF FiringsShown
  <2>1. r \in Ids \ unstamped /\ stored[r] # "absent"
    BY DEF KnownRoutines
  <2>2. stored'[r] = "stored" => stored[r] = "stored" /\ row'[r].last >= row[r].last
    BY <2>1
  <2>3. row[r].last \in Time /\ row'[r].last \in Time
    BY DEF RoutinesTypeOK, Row
  <2>4. stored'[r] = "stored" =>
          \/ row'[r].last >= t
          \/ Firing.at \in Stamping /\ Firing.id = r /\ Firing.occ = t
    BY <2>1, <2>2, <2>3 DEF FiringsShown, Time
  <2> QED
    BY <2>1, <2>4 DEF FiringsShown
<1>5. AloneWhenCreating'
  BY <1>1 DEF AloneWhenCreating, RoutinesTypeOK, Fire, Triggers
<1>6. FiredOnce'
  BY DEF FiredOnce
<1>7. OneRoutineRun'
  BY DEF OneRoutineRun, RoutinesTypeOK, Triggers
<1> QED
  BY <1>2, <1>3, <1>4, <1>5, <1>6, <1>7

-----------------------------------------------------------------------------
(* The scheduler. *)

LEMMA ListKeepsInv ==
  ASSUME RoutinesInv, RoutinesTypeOK', List
  PROVE  RoutinesInv'
<1> USE DEF RoutinesInv, List, convVars, runVars, tableVars, historyVars, boundVars
<1>1. Firing' = Firing /\ Firing.at = "idle"
  BY DEF Firing
<1>2. DOMAIN listed' \subseteq Stored /\ \A r \in DOMAIN listed' : listed'[r] = row[r]
  OBVIOUS
<1>3. KnownRoutines' /\ OnTime'
  BY <1>1, <1>2 DEF KnownRoutines, OnTime, Stored
<1>4. FiringsShown'
  BY <1>1, <1>2 DEF FiringsShown, Stored, Checking, Stamping
<1>5. AloneWhenCreating' /\ FiredOnce' /\ OneRoutineRun'
  BY <1>1 DEF AloneWhenCreating, FiredOnce, OneRoutineRun
<1> QED
  BY <1>3, <1>4, <1>5

LEMMA ConsiderKeepsInv ==
  ASSUME RoutinesInv, RoutinesTypeOK', NEW r \in Ids, Consider(r)
  PROVE  RoutinesInv'
<1> USE DEF RoutinesInv, convVars, runVars, tableVars, historyVars, boundVars
<1>1. /\ Firing.at = "idle" /\ r \in DOMAIN listed
      /\ DOMAIN listed' = DOMAIN listed \ {r}
      /\ \A x \in DOMAIN listed' : listed'[x] = listed[x]
      /\ UNCHANGED <<clock, stored, row, runs, fired, again, unstamped>>
  BY DEF Consider, Firing
<1>2. CASE ~ Due(listed[r])
  <2>1. Firing' = Firing
    BY <1>2 DEF Consider, Firing
  <2>2. KnownRoutines' /\ OnTime'
    BY <1>1, <2>1 DEF KnownRoutines, OnTime
  <2>3. FiringsShown'
    BY <1>1, <2>1 DEF FiringsShown
  <2>4. AloneWhenCreating' /\ FiredOnce' /\ OneRoutineRun'
    BY <1>1, <2>1 DEF AloneWhenCreating, FiredOnce, OneRoutineRun
  <2> QED
    BY <2>2, <2>3, <2>4
<1>3. CASE Due(listed[r])
  <2> DEFINE o == NextOccurrence(listed[r])
  <2>1. listed[r] \in Row /\ clock \in Time
    BY <1>1 DEF RoutinesTypeOK
  <2>2. /\ o \in 0 .. MaxTime + 1 /\ o <= clock
        /\ o = 0 \/ listed[r].last < o
    BY <1>3, <2>1, NextAfterLast DEF Due
  <2>3. /\ Firing'.at = "resolve" /\ Firing'.id = r /\ Firing'.occ = o
    BY <1>3, Domains DEF Consider, Firing, RoutinesTypeOK, NoFire
  <2> HIDE DEF o
  <2>4. KnownRoutines'
    BY <1>1, <2>3 DEF KnownRoutines
  <2>5. OnTime'
    BY <1>1, <2>2, <2>3 DEF OnTime
  <2>6. FiringsShown'
    <3> SUFFICES ASSUME NEW x \in Ids \ unstamped, NEW t \in Time, <<x, t>> \in fired
                 PROVE  /\ stored[x] = "stored" => row[x].last >= t
                        /\ x \in DOMAIN listed' => listed'[x].last >= t
                        /\ r = x => o = 0 \/ t < o
      BY <1>1, <2>3 DEF FiringsShown
    <3>1. stored[x] = "stored" => row[x].last >= t
      BY <1>1 DEF FiringsShown, Stamping
    <3>2. x \in DOMAIN listed => listed[x].last >= t
      BY DEF FiringsShown
    <3>3. listed[r].last \in Time
      BY <2>1 DEF Row
    <3> QED
      BY <1>1, <2>2, <3>1, <3>2, <3>3 DEF Time
  <2>7. AloneWhenCreating' /\ FiredOnce' /\ OneRoutineRun'
    BY <1>1, <2>3 DEF AloneWhenCreating, FiredOnce, OneRoutineRun
  <2> QED
    BY <2>4, <2>5, <2>6, <2>7
<1> QED
  BY <1>2, <1>3

\* Steps of a firing that neither queue a run nor write a stamp.
LEMMA CheckingKeepsInv ==
  ASSUME RoutinesInv, RoutinesTypeOK',
         \/ Resolve(Scheduler) \/ Open(Scheduler) \/ CheckPending(Scheduler)
         \/ CheckActive(Scheduler) \/ ReadClock(Scheduler)
  PROVE  RoutinesInv'
<1> USE Domains DEF RoutinesInv, convVars, runVars, tableVars, historyVars, boundVars
<1>1. Firing \in Fire
  BY DEF RoutinesTypeOK, Firing
<1>2. /\ UNCHANGED <<clock, listed, stored, row, runs, fired, again, unstamped>>
      /\ Firing.at \in Checking \cup {"now"}
      /\ \/ Firing'.at = "idle" /\ Firing'.occ = 0 /\ Firing.at \in Checking
         \/ /\ Firing'.id = Firing.id /\ Firing'.occ = Firing.occ
            /\ \/ Firing.at \in Checking /\ Firing'.at \in Checking \ {"create"}
               \/ /\ Firing.at = "active" /\ Firing'.at = "create"
                  /\ Firing'.conv = Firing.conv /\ ~Busy(Firing.conv)
               \/ Firing.at \in Checking /\ Firing'.at = "now"
               \/ Firing.at = "now" /\ Firing'.at = "stamp" /\ Firing'.now = clock
  <2> USE <1>1 DEF RoutinesTypeOK, Firing, Checking, NoFire
  <2>6. ASSUME GivesUp(Scheduler) PROVE Firing'.at = "idle" /\ Firing'.occ = 0
    BY <2>6 DEF GivesUp
  <2>7. ASSUME NEW step, Goes(Scheduler, step)
        PROVE  /\ Firing'.id = Firing.id /\ Firing'.occ = Firing.occ
               /\ Firing'.conv = Firing.conv /\ Firing'.at = step
    BY <2>7 DEF Goes, Fire
  <2>8. Skips(Scheduler) => Goes(Scheduler, "now")
    BY DEF Skips
  <2>9. ASSUME NEW k, Settles(Scheduler, k)
        PROVE  Firing'.id = Firing.id /\ Firing'.occ = Firing.occ /\ Firing'.at = "pending"
    BY <2>9 DEF Settles, Fire
  <2>1. CASE Resolve(Scheduler)
    BY <2>1, <2>6, <2>7, <2>9 DEF Resolve, At
  <2>2. CASE Open(Scheduler)
    BY <2>2, <2>6, <2>9 DEF Open, At
  <2>3. CASE CheckPending(Scheduler)
    BY <2>3, <2>6, <2>7, <2>8 DEF CheckPending, At
  <2>4. CASE CheckActive(Scheduler)
    BY <2>4, <2>6, <2>7, <2>8 DEF CheckActive, At
  <2>5. CASE ReadClock(Scheduler)
    BY <2>5 DEF ReadClock, At, Fire
  <2> QED
    BY <2>1, <2>2, <2>3, <2>4, <2>5
<1>3. KnownRoutines'
  BY <1>2 DEF KnownRoutines, Checking
<1>4. OnTime'
  BY <1>2 DEF OnTime, Checking, RoutinesTypeOK, Time
<1>5. FiringsShown'
  BY <1>2 DEF FiringsShown, Checking, Stamping
<1>6. AloneWhenCreating'
  BY <1>1, <1>2 DEF AloneWhenCreating, Busy, Triggers, Checking, RoutinesTypeOK, Fire
<1>7. FiredOnce' /\ OneRoutineRun'
  BY <1>2 DEF FiredOnce, OneRoutineRun
<1> QED
  BY <1>3, <1>4, <1>5, <1>6, <1>7

LEMMA CreateKeepsInv ==
  ASSUME RoutinesInv, RoutinesTypeOK', CreateRun(Scheduler)
  PROVE  RoutinesInv'
<1> USE Domains DEF RoutinesInv, convVars, runVars, tableVars, historyVars, boundVars
<1> DEFINE pair == <<Firing.id, Firing.occ>>
<1>1. /\ Firing \in Fire /\ Firing.at = "create" /\ Firing.at \in Checking
      /\ Firing.id \in Ids /\ Firing.occ \in Time /\ Firing.conv \in Convs
  BY DEF RoutinesTypeOK, Firing, CreateRun, At, Checking, Fire
<1>2. UNCHANGED <<clock, listed, stored, row>>
  BY DEF CreateRun
<1>3. CASE GivesUp(Scheduler) /\ UNCHANGED <<runs, historyVars>>
  <2>1. Firing'.at = "idle" /\ Firing'.occ = 0
    BY <1>3 DEF GivesUp, Firing, NoFire, RoutinesTypeOK
  <2>2. KnownRoutines' /\ OnTime'
    BY <1>2, <1>3, <2>1 DEF KnownRoutines, OnTime, RoutinesTypeOK, Time
  <2>3. FiringsShown'
    BY <1>1, <1>2, <1>3, <2>1 DEF FiringsShown, Checking, Stamping
  <2>4. AloneWhenCreating' /\ FiredOnce' /\ OneRoutineRun'
    BY <1>3, <2>1 DEF AloneWhenCreating, FiredOnce, OneRoutineRun
  <2> QED
    BY <2>2, <2>3, <2>4
<1>4. CASE /\ Queue(Scheduler) /\ Records(Scheduler)
           /\ \/ Goes(Scheduler, "now") /\ UNCHANGED unstamped
              \/ GivesUp(Scheduler) /\ unstamped' = StampLost(Scheduler, fired')
  <2>1. OneRoutineRun'
    BY <1>1, <1>4 DEF OneRoutineRun, AloneWhenCreating, Queue, Triggers, RoutinesTypeOK, Firing
  <2>2. \/ Firing.occ # 0 /\ fired' = fired \cup {pair}
        \/ Firing.occ = 0 /\ fired' = fired
    BY <1>4 DEF Records, Firing
  <2>3. \/ /\ Firing'.at = "now" /\ Firing'.id = Firing.id /\ Firing'.occ = Firing.occ
           /\ unstamped' = unstamped
        \/ /\ Firing'.at = "idle" /\ Firing'.occ = 0
           /\ unstamped \subseteq unstamped'
           /\ Firing.occ # 0 => Firing.id \in unstamped'
    <3>1. CASE Goes(Scheduler, "now") /\ UNCHANGED unstamped
      BY <1>1, <3>1 DEF Goes, Firing, RoutinesTypeOK, Fire
    <3>2. CASE GivesUp(Scheduler) /\ unstamped' = StampLost(Scheduler, fired')
      BY <1>1, <2>2, <3>2 DEF GivesUp, StampLost, Firing, RoutinesTypeOK, NoFire
    <3> QED
      BY <1>4, <3>1, <3>2
  <2>4. KnownRoutines'
    BY <1>1, <1>2, <2>2, <2>3 DEF KnownRoutines, Checking
  <2>5. OnTime'
    BY <1>1, <1>2, <2>3 DEF OnTime, RoutinesTypeOK, Time
  <2>6. FiredOnce'
    <3>1. CASE pair \in fired /\ Firing.occ # 0
      <4>1. Firing.id \in unstamped
        BY <1>1, <3>1 DEF FiringsShown, Time
      <4> QED
        BY <1>4, <2>3, <3>1, <4>1 DEF FiredOnce, Records, Firing
    <3>2. CASE ~ (pair \in fired /\ Firing.occ # 0)
      BY <1>4, <2>3, <3>2 DEF FiredOnce, Records, Firing
    <3> QED
      BY <3>1, <3>2
  <2>7. FiringsShown'
    <3> SUFFICES ASSUME NEW r \in Ids \ unstamped', NEW t \in Time, <<r, t>> \in fired'
                 PROVE  /\ stored[r] = "stored" =>
                             \/ row[r].last >= t
                             \/ Firing'.at \in Stamping /\ Firing'.id = r /\ Firing'.occ = t
                        /\ r \in DOMAIN listed => listed[r].last >= t
                        /\ ~ (Firing'.at \in Checking /\ Firing'.id = r)
      BY <1>2, <2>3 DEF FiringsShown
    <3>1. ~ (Firing'.at \in Checking)
      BY <2>3 DEF Checking
    <3>2. CASE <<r, t>> \in fired
      BY <1>1, <2>3, <3>1, <3>2 DEF FiringsShown, Checking, Stamping
    <3>3. CASE <<r, t>> \notin fired
      <4>1. r = Firing.id /\ t = Firing.occ /\ Firing.occ # 0
        BY <2>2, <3>3
      <4>2. r \notin DOMAIN listed
        BY <1>1, <4>1 DEF KnownRoutines
      <4> QED
        BY <2>3, <3>1, <4>1, <4>2 DEF Stamping
    <3> QED
      BY <3>2, <3>3
  <2>8. AloneWhenCreating'
    BY <2>3 DEF AloneWhenCreating
  <2> QED
    BY <2>1, <2>4, <2>5, <2>6, <2>7, <2>8
<1> QED
  BY <1>3, <1>4 DEF CreateRun

LEMMA StampKeepsInv ==
  ASSUME RoutinesInv, RoutinesTypeOK', Stamp(Scheduler)
  PROVE  RoutinesInv'
<1> USE Domains DEF RoutinesInv, convVars, runVars, tableVars, historyVars, boundVars
<1>1. /\ Firing \in Fire /\ Firing.at = "stamp" /\ Firing.at \in Stamping
      /\ Firing.id \in Ids /\ Firing.occ \in Time /\ Firing.now \in Time
  BY DEF RoutinesTypeOK, Firing, Stamp, At, Stamping, Fire
<1>2. UNCHANGED <<clock, listed, stored, runs, fired, again>>
  BY DEF Stamp
<1>3. Firing'.at = "idle" /\ Firing'.occ = 0
  BY DEF Stamp, GivesUp, Firing, NoFire, RoutinesTypeOK
<1>4. unstamped \subseteq unstamped'
  BY DEF Stamp, StampLost
<1>5. KnownRoutines' /\ OnTime'
  BY <1>2, <1>3 DEF KnownRoutines, OnTime, RoutinesTypeOK, Time
<1>6. FiringsShown'
  <2> SUFFICES ASSUME NEW r \in Ids \ unstamped', NEW t \in Time, <<r, t>> \in fired
               PROVE  /\ stored[r] = "stored" => row'[r].last >= t
                      /\ r \in DOMAIN listed => listed[r].last >= t
    BY <1>2, <1>3 DEF FiringsShown, Checking, Stamping
  <2>1. r \in Ids \ unstamped
    BY <1>4
  <2>2. row[r].last \in Time
    BY DEF RoutinesTypeOK, Row
  <2>3. CASE r # Firing.id
    <3>1. row'[r] = row[r]
      BY <2>3 DEF Stamp, Firing, RoutinesTypeOK
    <3> QED
      BY <2>1, <2>3, <3>1 DEF FiringsShown
  <2>4. CASE r = Firing.id /\ row'[r].last = Firing.now /\ ~ (Firing.now < row[r].last)
    BY <1>1, <2>1, <2>2, <2>4 DEF FiringsShown, OnTime, Time
  <2>5. CASE r = Firing.id /\ row' = row /\ (stored[r] # "stored" \/ <<r, Firing.occ>> \notin fired)
    BY <2>1, <2>5 DEF FiringsShown
  <2>6. ASSUME Firing.id \in Stored,
               row' = [row EXCEPT ![Firing.id].last = Firing.now],
               unstamped' = IF Firing.now < row[Firing.id].last
                            THEN unstamped \cup {Firing.id} ELSE unstamped,
               r = Firing.id
        PROVE  row'[r].last = Firing.now /\ ~ (Firing.now < row[r].last)
    <3>1. ~ (Firing.now < row[r].last)
      BY <2>6
    <3>2. row[r] \in Row
      BY DEF RoutinesTypeOK
    <3>3. row'[r] = [row[r] EXCEPT !.last = Firing.now]
      BY <2>6 DEF RoutinesTypeOK
    <3> QED
      BY <3>1, <3>2, <3>3 DEF Row
  <2>7. ASSUME Firing.id \notin Stored, r = Firing.id
        PROVE  stored[r] # "stored"
    BY <2>7 DEF Stored
  <2>8. ASSUME unstamped' = StampLost(Scheduler, fired), r = Firing.id
        PROVE  <<r, Firing.occ>> \notin fired
    BY <2>8 DEF StampLost, Firing
  <2>9. \/ /\ Firing.id \in Stored
           /\ row' = [row EXCEPT ![Firing.id].last = Firing.now]
           /\ unstamped' = IF Firing.now < row[Firing.id].last
                           THEN unstamped \cup {Firing.id} ELSE unstamped
        \/ Firing.id \notin Stored /\ row' = row
        \/ unstamped' = StampLost(Scheduler, fired) /\ row' = row
    BY DEF Stamp, Firing
  <2> QED
    BY <2>3, <2>4, <2>5, <2>6, <2>7, <2>8, <2>9
<1>7. AloneWhenCreating' /\ FiredOnce' /\ OneRoutineRun'
  BY <1>2, <1>3, <1>4 DEF AloneWhenCreating, FiredOnce, OneRoutineRun
<1> QED
  BY <1>5, <1>6, <1>7

LEMMA RestartKeepsInv ==
  ASSUME RoutinesInv, RoutinesTypeOK', Restart
  PROVE  RoutinesInv'
<1> USE Domains DEF RoutinesInv, convVars, runVars, tableVars, historyVars, boundVars
<1>1. UNCHANGED <<clock, stored, row, runs, fired, again>> /\ DOMAIN listed' = {}
  BY DEF Restart
<1>2. Firing'.at = "idle" /\ Firing'.occ = 0
  BY DEF Restart, Firing, NoFire
<1>3. /\ unstamped \subseteq unstamped'
      /\ \A r \in Ids, t \in Time :
           /\ <<r, t>> \in fired /\ r \notin unstamped'
           /\ Firing.at \in Stamping /\ Firing.id = r
           => Firing.occ # t
  BY DEF Restart, StampLost, Firing
<1>4. KnownRoutines' /\ OnTime'
  BY <1>1, <1>2 DEF KnownRoutines, OnTime, RoutinesTypeOK, Time
<1>5. FiringsShown'
  BY <1>1, <1>2, <1>3 DEF FiringsShown, Checking, Stamping
<1>6. AloneWhenCreating' /\ FiredOnce' /\ OneRoutineRun'
  BY <1>1, <1>2, <1>3 DEF AloneWhenCreating, FiredOnce, OneRoutineRun
<1> QED
  BY <1>4, <1>5, <1>6

-----------------------------------------------------------------------------
(* The scheduler: the theorems. *)

\* What FiredOnce and OneRoutineRun rest on holds of the scheduler: the
\* conjunction RoutinesInv is inductive.
THEOREM RoutinesInvariance == RoutinesSpec => []RoutinesInv
<1>1. ASSUME RoutinesInv, [RoutinesNext]_routinesVars
      PROVE  RoutinesInv'
  <2>0. RoutinesTypeOK'
    BY <1>1, TypeOKStep DEF RoutinesInv
  <2>1. CASE FireStep(Scheduler)
    BY <1>1, <2>0, <2>1, CheckingKeepsInv, CreateKeepsInv, StampKeepsInv DEF FireStep
  <2>2. CASE List \/ \E r \in Ids : Consider(r)
    BY <1>1, <2>0, <2>2, ListKeepsInv, ConsiderKeepsInv
  <2>3. CASE (\E q \in Handlers : HandlerStep(q)) \/ BotStep
    <3>1. HarmlessToScheduler
      BY <1>1, <2>3, RequestsAreHarmless DEF RoutinesInv
    <3> QED
      BY <1>1, <2>0, <3>1, HarmlessKeepsInv
  <2>4. CASE Tick
    <3> USE <1>1, <2>0, <2>4 DEF RoutinesInv, Tick, Firing, tableVars, convVars, runVars, boundVars, historyVars
    <3>1. Firing.occ \in Time /\ clock \in Time
      BY DEF RoutinesTypeOK, Fire, Actors
    <3>2. OnTime'
      BY <3>1 DEF OnTime, Time
    <3> QED
      BY <3>2 DEF KnownRoutines, FiringsShown, AloneWhenCreating, FiredOnce, OneRoutineRun
  <2>5. CASE Restart
    BY <1>1, <2>0, <2>5, RestartKeepsInv
  <2>6. CASE UNCHANGED routinesVars
    BY <1>1, <2>0, <2>6 DEF routinesVars, RoutinesInv, KnownRoutines, OnTime, FiringsShown, AloneWhenCreating,
       FiredOnce, OneRoutineRun, Firing, tableVars, convVars, runVars, boundVars, historyVars
  <2> QED
    BY <1>1, <2>1, <2>2, <2>3, <2>4, <2>5, <2>6 DEF RoutinesNext, SchedulerStep
<1> QED
  BY <1>1, InitIInv, PTL DEF RoutinesSpec

\* Every variable has its type, for any routines, schedules and requests.
THEOREM RoutinesTypeCorrect == RoutinesSpec => []RoutinesTypeOK
BY RoutinesInvariance, PTL DEF RoutinesInv

\* last_run_at keeps the scheduler from firing an occurrence twice, with any
\* number of routines and of requests in flight, unless a stamp was lost.
THEOREM FiresOnce == RoutinesSpec => []FiredOnce
BY RoutinesInvariance, PTL DEF RoutinesInv

\* The look at the conversation keeps the scheduler to one live run there, beside
\* those a late cancel had finished and that parked afterwards.
THEOREM OneRunAtATime == RoutinesSpec => []OneRoutineRun
BY RoutinesInvariance, PTL DEF RoutinesInv

HIDE ConstantsAssumption

-----------------------------------------------------------------------------
(* The page                                                                *)

USE BotPagesAssumption, NoneIsNoRow

-----------------------------------------------------------------------------
(* What the page knows is there: rows are never deleted under it.          *)

\* A run that is listed, that a list on its way will show, whose detail is
\* fetched or that a request names, is a run of the server.
RunsKnown ==
  /\ \A i \in Runs : Listed(i) => run[i] # None
  /\ list.got # None => \A i \in Runs : list.got[i] # None => run[i] # None
  /\ \A i \in Runs : detail[i].out # "no" => run[i] # None
  /\ \A r \in Reqs : req[r].kind \in {"cancel", "resolve"} =>
       req[r].run \in Runs /\ run[req[r].run] # None

\* An approval on its way to the server names calls that were clicked.
ApprovalsClicked ==
  \A r \in Reqs : req[r].kind = "resolve" /\ req[r].ok =>
    {req[r].run} \X req[r].calls \subseteq approved

PageInv == TypeOK /\ RunsKnown /\ ApprovalsClicked /\ OnlyShownCallsRun

-----------------------------------------------------------------------------
(* The records the actions build                                           *)

LEMMA QueryTyped ==
  ASSUME NEW D, NEW q \in Queries(D)
  PROVE  /\ Fetched(q) \in Queries(D) /\ Refetched(q) \in Queries(D)
         /\ Dropped(q) \in Queries(D)
         /\ Fetched(q).data = q.data /\ Refetched(q).data = q.data /\ Dropped(q).data = q.data
         /\ Fetched(q).got = q.got /\ Refetched(q).got \in {q.got, None}
         /\ Dropped(q).got = None /\ Dropped(q).out = "no"
BY DEF Queries, Fetched, Refetched, Dropped

LEMMA ArrivedTyped ==
  ASSUME NEW D, NEW d \in D \cup {None}
  PROVE  /\ Arrived(d) \in Queries(D)
         /\ Arrived(d).data = d /\ Arrived(d).got = None /\ Arrived(d).out = "no"
BY DEF Queries, Arrived

LEMMA NewRunTyped == \A home \in {"fresh", "routine"} : NewRun(home) \in RunRows
BY DEF NewRun, RunRows, Statuses, Calls

LEMMA RunMoved ==
  ASSUME NEW x \in RunRows, NEW s \in Statuses, NEW late \in BOOLEAN
  PROVE  [x EXCEPT !.st = s, !.late = late] \in RunRows
BY DEF RunRows

LEMMA RunAnswered ==
  ASSUME NEW x \in RunRows
  PROVE  [x EXCEPT !.asked = {}] \in RunRows
BY DEF RunRows

LEMMA RunRewritten ==
  ASSUME NEW x \in RunRows, NEW s \in Statuses, NEW asked \in SUBSET Calls,
         NEW parks \in 0..MaxParks
  PROVE  [x EXCEPT !.st = s, !.asked = asked, !.parks = parks, !.late = FALSE] \in RunRows
BY DEF RunRows

LEMMA RoutineTyped ==
  ASSUME NEW x \in RoutineRows, NEW t \in Stamps, NEW b \in BOOLEAN
  PROVE  /\ [there |-> TRUE, on |-> TRUE, text |-> t] \in RoutineRows
         /\ [x EXCEPT !.text = t] \in RoutineRows
         /\ [x EXCEPT !.on = b] \in RoutineRows
         /\ [x EXCEPT !.there = FALSE] \in RoutineRows
BY DEF RoutineRows

\* A step that writes a run writes a row, and takes none away.
RunsGrow ==
  /\ run' \in [Runs -> RunRows \cup {None}]
  /\ \A i \in Runs : run[i] # None => run'[i] # None

LEMMA RunWritten ==
  ASSUME run \in [Runs -> RunRows \cup {None}], NEW i \in Runs, NEW x \in RunRows,
         run' = [run EXCEPT ![i] = x]
  PROVE  RunsGrow
BY DEF RunsGrow

LEMMA CancelWritten ==
  ASSUME run \in [Runs -> RunRows \cup {None}], NEW i \in Runs, run[i] # None, SetCancelled(i)
  PROVE  RunsGrow
<1>1. run[i] \in RunRows
  OBVIOUS
<1>2. Worked(run[i]) \in BOOLEAN
  BY <1>1 DEF Worked, RunRows
<1>3. [run[i] EXCEPT !.st = "cancelled", !.late = Worked(run[i])] \in RunRows
  BY <1>1, <1>2, RunMoved DEF Statuses
<1>4. run' = [run EXCEPT ![i] = [run[i] EXCEPT !.st = "cancelled", !.late = Worked(run[i])]]
  BY DEF SetCancelled
<1> QED
  BY <1>3, <1>4, RunWritten

LEMMA WorkerWritten ==
  ASSUME run \in [Runs -> RunRows \cup {None}], NEW i \in Runs, run[i] # None,
         NEW s \in Statuses, NEW asked \in SUBSET Calls, NEW parks \in 0..MaxParks,
         Writes(i, s, asked, parks)
  PROVE  RunsGrow
<1>1. run[i] \in RunRows
  OBVIOUS
<1>2. [run[i] EXCEPT !.st = s, !.asked = asked, !.parks = parks, !.late = FALSE] \in RunRows
  BY <1>1, RunRewritten
<1>3. run' = [run EXCEPT ![i] =
        [run[i] EXCEPT !.st = s, !.asked = asked, !.parks = parks, !.late = FALSE]]
  BY DEF Writes
<1> QED
  BY <1>2, <1>3, RunWritten

LEMMA RunQueued ==
  ASSUME run \in [Runs -> RunRows \cup {None}], NEW i \in Runs,
         NEW home \in {"fresh", "routine"}, Queues(i, home)
  PROVE  RunsGrow
BY NewRunTyped, RunWritten DEF Queues

LEMMA AskedCleared ==
  ASSUME run \in [Runs -> RunRows \cup {None}], NEW i \in Runs, run[i] # None,
         run' = [run EXCEPT ![i].asked = {}]
  PROVE  RunsGrow
<1>1. run[i] \in RunRows
  OBVIOUS
<1>2. run' = [run EXCEPT ![i] = [run[i] EXCEPT !.asked = {}]]
  OBVIOUS
<1> QED
  BY <1>1, <1>2, RunAnswered, RunWritten

-----------------------------------------------------------------------------
(* The server's side of a step                                             *)

\* The rows keep their types, runs are only added, clicks are only added, and
\* whatever is executed was clicked.
ServerKept ==
  /\ RunsGrow /\ routine' \in RoutineRows /\ mine' \subseteq Runs
  /\ ran' \subseteq Runs \X Calls /\ approved' \subseteq Runs \X Calls
  /\ approved \subseteq approved' /\ ran' \subseteq approved'

LEMMA ServerUnchanged ==
  ASSUME PageInv, UNCHANGED <<run, routine, ran, approved, mine>>
  PROVE  ServerKept
BY DEF PageInv, TypeOK, OnlyShownCallsRun, ServerKept, RunsGrow

LEMMA ServerServes ==
  ASSUME PageInv, NEW r \in Reqs, Serve(r)
  PROVE  ServerKept
<1> USE DEF PageInv, TypeOK, OnlyShownCallsRun
<1>1. CASE ServeQueue(r)
  <2>1. PICK i \in Runs : /\ Queues(i, IF req[r].kind = "runNow" THEN "routine" ELSE "fresh")
                          /\ mine' = IF list.data # None THEN mine \cup {i} ELSE mine
    BY <1>1 DEF ServeQueue
  <2>2. RunsGrow
    BY <2>1, RunQueued
  <2> QED
    BY <1>1, <2>1, <2>2 DEF ServeQueue, ServerKept
<1>2. CASE ServeCancel(r)
  BY <1>2 DEF ServeCancel, server, ServerKept, RunsGrow
<1>3. CASE ServeResolve(r)
  <2> DEFINE i == req[r].run
  <2>1. i \in Runs /\ run[i] # None
    BY <1>3 DEF ServeResolve, RunsKnown
  <2>2. RunsGrow
    BY <1>3, <2>1, AskedCleared DEF ServeResolve
  <2>3. run[i] \in RunRows
    BY <2>1
  <2>4. run[i].asked \subseteq Calls
    BY <2>3 DEF RunRows
  <2>5. ran' \subseteq Runs \X Calls
    <3>1. {i} \X run[i].asked \subseteq Runs \X Calls
      BY <2>1, <2>4
    <3> QED
      BY <1>3, <3>1 DEF ServeResolve
  <2>6. ran' \subseteq approved
    <3>1. CASE req[r].ok
      <4>1. {i} \X req[r].calls \subseteq approved
        BY <1>3, <3>1 DEF ServeResolve, ApprovalsClicked
      <4>2. {i} \X run[i].asked \subseteq approved
        BY <1>3, <4>1 DEF ServeResolve
      <4> QED
        BY <1>3, <4>2 DEF ServeResolve
    <3>2. CASE ~req[r].ok
      BY <1>3, <3>2 DEF ServeResolve
    <3> QED
      BY <3>1, <3>2
  <2> QED
    BY <1>3, <2>2, <2>5, <2>6 DEF ServeResolve, ServerKept
<1>4. CASE ServeRoutine(r)
  <2>1. req[r] \in ReqRows
    OBVIOUS
  <2>2. req[r].text \in Stamps /\ req[r].ok \in BOOLEAN
    BY <2>1 DEF ReqRows
  <2>3. routine' \in RoutineRows
    <3> DEFINE t == req[r].text
               b == req[r].ok
    <3>1. t \in Stamps /\ b \in BOOLEAN /\ routine \in RoutineRows
      BY <2>2
    <3>2. \/ routine' = [there |-> TRUE, on |-> TRUE, text |-> t]
          \/ routine' = [routine EXCEPT !.text = t]
          \/ routine' = [routine EXCEPT !.on = b]
          \/ routine' = [routine EXCEPT !.there = FALSE]
      BY <1>4 DEF ServeRoutine
    <3> HIDE DEF t, b, PageInv, TypeOK
    <3> QED
      BY <3>1, <3>2, RoutineTyped
  <2> QED
    BY <1>4, <2>3 DEF ServeRoutine, ServerKept, RunsGrow
<1> QED
  BY <1>1, <1>2, <1>3, <1>4 DEF Serve

LEMMA ServerCancels ==
  ASSUME PageInv, NEW r \in Reqs, ReadQueued(r) \/ SettleQueued(r)
  PROVE  ServerKept
<1> USE DEF PageInv, TypeOK, OnlyShownCallsRun
<1>1. CASE ReadQueued(r)
  BY <1>1 DEF ReadQueued, server, hist, ServerKept, RunsGrow
<1>2. CASE SettleQueued(r)
  <2>1. req[r].run \in Runs /\ run[req[r].run] # None
    BY <1>2 DEF SettleQueued, RunsKnown
  <2>2. RunsGrow
    BY <1>2, <2>1, CancelWritten DEF SettleQueued
  <2> QED
    BY <1>2, <2>2 DEF SettleQueued, ServerKept, hist
<1> QED
  BY <1>1, <1>2

LEMMA RunMoves ==
  ASSUME PageInv, NEW i \in Runs, RunnerMoves(i)
  PROVE  RunsGrow
<1> USE DEF PageInv, TypeOK
<1>1. run[i] # None /\ run[i] \in RunRows
  BY DEF RunnerMoves
<1>2. run[i].asked \in SUBSET Calls /\ run[i].parks \in 0..MaxParks
  BY <1>1 DEF RunRows
<1>3. CASE Writes(i, "running", {}, run[i].parks)
  BY <1>1, <1>2, <1>3, WorkerWritten DEF Statuses
<1>4. CASE /\ run[i].parks < MaxParks
           /\ Writes(i, "waiting_approval", {run[i].parks + 1}, run[i].parks + 1)
  <2>1. run[i].parks + 1 \in 1..MaxParks
    BY <1>2, <1>4
  <2>2. {run[i].parks + 1} \in SUBSET Calls /\ run[i].parks + 1 \in 0..MaxParks
    BY <2>1 DEF Calls
  <2> QED
    BY <1>1, <1>4, <2>2, WorkerWritten DEF Statuses
<1>5. CASE \E end \in {"succeeded", "failed", "cancelled"} :
             Writes(i, end, run[i].asked, run[i].parks)
  BY <1>1, <1>2, <1>5, WorkerWritten DEF Statuses
<1> QED
  BY <1>3, <1>4, <1>5 DEF RunnerMoves

LEMMA RunsRestart ==
  ASSUME PageInv, ServerRestarts
  PROVE  RunsGrow
<1> DEFINE requeued(i) ==
      IF run[i].st \in {"running", "waiting_approval"} THEN "queued" ELSE run[i].st
<1>1. run' = [i \in Runs |->
        IF run[i] = None THEN None ELSE [run[i] EXCEPT !.st = requeued(i), !.late = FALSE]]
  BY DEF ServerRestarts
<1>2. ASSUME NEW i \in Runs, run[i] # None
      PROVE  [run[i] EXCEPT !.st = requeued(i), !.late = FALSE] \in RunRows
  <2>1. run[i] \in RunRows
    BY <1>2 DEF PageInv, TypeOK
  <2>2. requeued(i) \in Statuses
    BY <2>1 DEF RunRows, Statuses
  <2> HIDE DEF requeued
  <2> QED
    BY <2>1, <2>2, RunMoved
<1> HIDE DEF requeued
<1>3. run' \in [Runs -> RunRows \cup {None}]
  BY <1>1, <1>2
<1>4. ASSUME NEW i \in Runs, run[i] # None PROVE run'[i] # None
  BY <1>1, <1>2, <1>4, NoneIsNoRow
<1> QED
  BY <1>3, <1>4 DEF RunsGrow

LEMMA ServerMoves ==
  ASSUME PageInv, Elsewhere \/ ServerRestarts \/ \E i \in Runs : RunnerMoves(i)
  PROVE  ServerKept
<1> USE DEF PageInv, TypeOK, OnlyShownCallsRun
<1>1. RunsGrow
  <2>1. ASSUME Elsewhere PROVE RunsGrow
    <3>1. CASE \E i \in Runs : run[i] # None /\ run' = [run EXCEPT ![i].asked = {}]
      BY <3>1, AskedCleared
    <3>2. CASE \E i \in Runs : run[i] # None /\ SetCancelled(i)
      BY <3>2, CancelWritten
    <3>3. CASE \E i \in Runs, home \in {"fresh", "routine"} : Queues(i, home)
      BY <3>3, RunQueued
    <3> QED
      BY <2>1, <3>1, <3>2, <3>3 DEF Elsewhere
  <2> QED
    BY <2>1, RunMoves, RunsRestart
<1> QED
  BY <1>1 DEF ServerKept, RunnerMoves, ServerRestarts, Elsewhere, hist

LEMMA ServerClicked ==
  ASSUME PageInv, NEW r \in Reqs, NEW i \in Runs, NEW ok \in BOOLEAN, HandleDecide(r, i, ok)
  PROVE  /\ ServerKept /\ Decisions(i) \subseteq Calls /\ run[i] # None
         /\ ok => {i} \X Decisions(i) \subseteq approved'
<1> USE DEF PageInv, TypeOK
<1>1. ShownCalls(i) \subseteq Calls
  <2>1. CASE detail[i].data # None
    <3>1. detail[i].data \in Details
      BY <2>1 DEF Queries
    <3> QED
      BY <3>1 DEF ShownCalls, Details
  <2> QED
    BY <2>1 DEF ShownCalls
<1>2. {i} \X ShownCalls(i) \subseteq Runs \X Calls
  BY <1>1
<1>3. approved \subseteq approved' /\ approved' \subseteq Runs \X Calls
  BY <1>2 DEF HandleDecide
<1>4. CardWaits(tab, list.data, i)
  BY DEF HandleDecide, ShownCalls
<1>5. Listed(i)
  BY <1>4 DEF CardWaits, Listed, Statuses
<1>6. run[i] # None
  BY <1>5 DEF RunsKnown
<1>7. ran' \subseteq approved'
  BY <1>3 DEF HandleDecide, server, OnlyShownCallsRun
<1>8. RunsGrow /\ routine' \in RoutineRows /\ mine' \subseteq Runs /\ ran' \subseteq Runs \X Calls
  BY DEF HandleDecide, server, RunsGrow
<1> QED
  BY <1>1, <1>3, <1>6, <1>7, <1>8 DEF HandleDecide, Decisions, ServerKept

-----------------------------------------------------------------------------
(* The requests of a step                                                  *)

LEMMA SentTyped ==
  ASSUME NEW k \in Kinds, NEW i \in Runs \cup {None}
  PROVE  Sent(k, i) \in ReqRows /\ Sent(k, i).kind = k /\ Sent(k, i).run = i
BY DEF Sent, Request, ReqRows, Stamps

LEMMA FreeTyped == NoReq \in ReqRows /\ NoReq.kind = "none"
BY DEF NoReq, ReqRows, Stamps

LEMMA ReqMoved ==
  ASSUME NEW x \in ReqRows, NEW s \in {"read", "ok", "failed", "lost"}
  PROVE  LET y == [x EXCEPT !.st = s]
             z == [x EXCEPT !.alive = FALSE]
         IN  /\ y \in ReqRows /\ y.kind = x.kind /\ y.run = x.run
             /\ y.calls = x.calls /\ y.ok = x.ok
             /\ z \in ReqRows /\ z.kind = x.kind /\ z.run = x.run
             /\ z.calls = x.calls /\ z.ok = x.ok
<1> DEFINE y == [x EXCEPT !.st = s]
           z == [x EXCEPT !.alive = FALSE]
<1>1. y \in ReqRows /\ y.kind = x.kind /\ y.run = x.run /\ y.calls = x.calls /\ y.ok = x.ok
  BY DEF ReqRows
<1>2. z \in ReqRows /\ z.kind = x.kind /\ z.run = x.run /\ z.calls = x.calls /\ z.ok = x.ok
  BY DEF ReqRows
<1> QED
  BY <1>1, <1>2

RequestsKept ==
  /\ req' \in [Reqs -> ReqRows]
  /\ \A r \in Reqs : req'[r].kind \in {"cancel", "resolve"} =>
       req'[r].run \in Runs /\ run'[req'[r].run] # None
  /\ ApprovalsClicked'

\* What names no run it did not name before is as good as before.
SameRequest(x, y) ==
  /\ x.kind = y.kind /\ x.run = y.run /\ x.calls = y.calls /\ x.ok = y.ok

Harmless(x, y) ==
  /\ y \in ReqRows
  /\ y.kind \in {"cancel", "resolve"} => SameRequest(x, y)

LEMMA HarmlessKept ==
  ASSUME PageInv, ServerKept, DOMAIN req' = Reqs, req' = [r \in Reqs |-> req'[r]],
         \A r \in Reqs : Harmless(req[r], req'[r])
  PROVE  RequestsKept
<1>1. req' \in [Reqs -> ReqRows]
  BY DEF Harmless
<1>2. ASSUME NEW r \in Reqs, req'[r].kind \in {"cancel", "resolve"}
      PROVE  req'[r].run \in Runs /\ run'[req'[r].run] # None
  <2>1. SameRequest(req[r], req'[r])
    BY <1>2 DEF Harmless
  <2>2. req[r].run \in Runs /\ run[req[r].run] # None
    BY <1>2, <2>1 DEF SameRequest, PageInv, RunsKnown
  <2> QED
    BY <2>1, <2>2 DEF SameRequest, ServerKept, RunsGrow
<1>3. ASSUME NEW r \in Reqs, req'[r].kind = "resolve", req'[r].ok
      PROVE  {req'[r].run} \X req'[r].calls \subseteq approved'
  <2>1. SameRequest(req[r], req'[r])
    BY <1>3 DEF Harmless
  <2>2. {req[r].run} \X req[r].calls \subseteq approved
    BY <1>3, <2>1 DEF SameRequest, PageInv, ApprovalsClicked
  <2> QED
    BY <2>1, <2>2 DEF SameRequest, ServerKept
<1> QED
  BY <1>1, <1>2, <1>3 DEF RequestsKept, ApprovalsClicked

LEMMA RequestsUnchanged ==
  ASSUME PageInv, ServerKept, UNCHANGED req
  PROVE  RequestsKept
<1>1. \A r \in Reqs : Harmless(req[r], req'[r])
  BY DEF Harmless, SameRequest, PageInv, TypeOK
<1>2. req' = [r \in Reqs |-> req'[r]]
  BY DEF PageInv, TypeOK
<1> QED
  BY <1>1, <1>2, HarmlessKept

\* One request is replaced by another one.
LEMMA RequestWritten ==
  ASSUME PageInv, ServerKept, NEW r \in Reqs, NEW q, Harmless(req[r], q),
         req' = [req EXCEPT ![r] = q]
  PROVE  RequestsKept
<1>1. \A s \in Reqs : req'[s] = IF s = r THEN q ELSE req[s]
  BY DEF PageInv, TypeOK
<1>2. \A s \in Reqs : Harmless(req[s], req[s])
  BY DEF Harmless, SameRequest, PageInv, TypeOK
<1>3. req' = [s \in Reqs |-> req'[s]]
  BY DEF PageInv, TypeOK
<1> QED
  BY <1>1, <1>2, <1>3, HarmlessKept

LEMMA RequestMoved ==
  ASSUME PageInv, ServerKept, NEW r \in Reqs, NEW s \in {"read", "ok", "failed", "lost"},
         req' = [req EXCEPT ![r].st = s]
  PROVE  RequestsKept
<1>1. req[r] \in ReqRows
  BY DEF PageInv, TypeOK
<1>2. Harmless(req[r], [req[r] EXCEPT !.st = s])
  BY <1>1, ReqMoved DEF Harmless, SameRequest
<1>3. req' = [req EXCEPT ![r] = [req[r] EXCEPT !.st = s]]
  OBVIOUS
<1> QED
  BY <1>2, <1>3, RequestWritten

LEMMA RequestFreed ==
  ASSUME PageInv, ServerKept, NEW r \in Reqs, req' = [req EXCEPT ![r] = NoReq]
  PROVE  RequestsKept
<1>1. Harmless(req[r], NoReq)
  BY FreeTyped DEF Harmless
<1> QED
  BY <1>1, RequestWritten

LEMMA RequestsDied ==
  ASSUME PageInv, ServerKept, NEW t, req' = Dead(t)
  PROVE  RequestsKept
<1>1. ASSUME NEW r \in Reqs PROVE Harmless(req[r], req'[r])
  <2>1. req[r] \in ReqRows
    BY DEF PageInv, TypeOK
  <2>2. Harmless(req[r], req[r]) /\ Harmless(req[r], [req[r] EXCEPT !.alive = FALSE])
    BY <2>1, ReqMoved DEF Harmless, SameRequest
  <2> QED
    BY <2>2 DEF Dead
<1>2. req' = [r \in Reqs |-> req'[r]]
  BY DEF Dead
<1> QED
  BY <1>1, <1>2, HarmlessKept

\* A request of the user's: one that names no run, or one it was shown.
LEMMA RequestSent ==
  ASSUME PageInv, ServerKept, NEW r \in Reqs, NEW q \in ReqRows, Send(r, q),
         \/ q.kind \notin {"cancel", "resolve"}
         \/ /\ q.run \in Runs /\ run[q.run] # None
            /\ q.kind = "resolve" /\ q.ok => {q.run} \X q.calls \subseteq approved'
  PROVE  RequestsKept
<1>1. req' = [req EXCEPT ![r] = q]
  BY DEF Send
<1>2. CASE q.kind \notin {"cancel", "resolve"}
  <2>1. Harmless(req[r], q)
    BY <1>2 DEF Harmless
  <2> QED
    BY <1>1, <2>1, RequestWritten
<1>3. CASE /\ q.run \in Runs /\ run[q.run] # None
           /\ q.kind = "resolve" /\ q.ok => {q.run} \X q.calls \subseteq approved'
  <2>1. req \in [Reqs -> ReqRows]
    BY DEF PageInv, TypeOK
  <2>2. req' \in [Reqs -> ReqRows]
    BY <1>1, <2>1
  <2>3. \A s \in Reqs : req'[s] = IF s = r THEN q ELSE req[s]
    BY <1>1, <2>1
  <2>4. \A i \in Runs : run[i] # None => run'[i] # None
    BY DEF ServerKept, RunsGrow
  <2>5. ASSUME NEW s \in Reqs, req'[s].kind \in {"cancel", "resolve"}
        PROVE  req'[s].run \in Runs /\ run'[req'[s].run] # None
    <3>1. CASE s = r
      BY <1>3, <2>3, <2>4, <3>1
    <3>2. CASE s # r
      BY <2>3, <2>4, <2>5, <3>2 DEF PageInv, RunsKnown
    <3> QED
      BY <3>1, <3>2
  <2>6. ASSUME NEW s \in Reqs, req'[s].kind = "resolve", req'[s].ok
        PROVE  {req'[s].run} \X req'[s].calls \subseteq approved'
    <3>1. CASE s = r
      BY <1>3, <2>3, <2>6, <3>1
    <3>2. CASE s # r
      <4>1. {req[s].run} \X req[s].calls \subseteq approved
        BY <2>3, <2>6, <3>2 DEF PageInv, ApprovalsClicked
      <4> QED
        BY <2>3, <3>2, <4>1 DEF ServerKept
    <3> QED
      BY <3>1, <3>2
  <2> QED
    BY <2>2, <2>5, <2>6 DEF RequestsKept, ApprovalsClicked
<1> QED
  BY <1>2, <1>3

-----------------------------------------------------------------------------
(* The cache of a step                                                     *)

ListKept ==
  /\ list' \in Queries([Runs -> Statuses \cup {None}])
  /\ \A i \in Runs : list'.data # None /\ list'.data[i] # None => run'[i] # None
  /\ list'.got # None => \A i \in Runs : list'.got[i] # None => run'[i] # None

DetailKept ==
  /\ detail' \in [Runs -> Queries(Details)]
  /\ \A i \in Runs : detail'[i].out # "no" => run'[i] # None

CacheKept == ListKept /\ DetailKept /\ routines' \in Queries(RoutineRows)

\* A card of a list that is cached or on its way is a run of the server.
LEMMA CardsKnown ==
  ASSUME PageInv, NEW t, NEW rows \in {list.data, list.got}, NEW i \in Runs, CardWaits(t, rows, i)
  PROVE  run[i] # None
<1>1. rows # None /\ rows[i] # None
  BY DEF CardWaits, Statuses
<1> QED
  BY <1>1 DEF PageInv, RunsKnown, Listed

LEMMA ListReasked ==
  ASSUME PageInv, ServerKept, list' \in {list, Fetched(list), Refetched(list), Dropped(list)}
  PROVE  ListKept
<1>1. list \in Queries([Runs -> Statuses \cup {None}])
  BY DEF PageInv, TypeOK
<1>2. /\ list' \in Queries([Runs -> Statuses \cup {None}])
      /\ list'.data = list.data /\ list'.got \in {list.got, None}
  BY <1>1, QueryTyped
<1>3. \A i \in Runs : run[i] # None => run'[i] # None
  BY DEF ServerKept, RunsGrow
<1>4. ASSUME NEW i \in Runs, list'.data # None, list'.data[i] # None
      PROVE  run'[i] # None
  BY <1>2, <1>3, <1>4 DEF PageInv, RunsKnown, Listed
<1>5. ASSUME list'.got # None, NEW i \in Runs, list'.got[i] # None
      PROVE  run'[i] # None
  BY <1>2, <1>3, <1>5 DEF PageInv, RunsKnown
<1> QED
  BY <1>2, <1>4, <1>5 DEF ListKept

LEMMA ListRead ==
  ASSUME PageInv, ReadList
  PROVE  ListKept
<1>1. list \in Queries([Runs -> Statuses \cup {None}])
  BY DEF PageInv, TypeOK
<1>2. Snapshot \in [Runs -> Statuses \cup {None}]
  <2>1. ASSUME NEW i \in Runs, run[i] # None PROVE run[i].st \in Statuses
    <3>1. run[i] \in RunRows
      BY <2>1 DEF PageInv, TypeOK
    <3> QED
      BY <3>1 DEF RunRows
  <2> QED
    BY <2>1 DEF Snapshot
<1>3. \A i \in Runs : Snapshot[i] # None => run[i] # None
  BY DEF Snapshot
<1> HIDE DEF Snapshot
<1>4. /\ list' \in Queries([Runs -> Statuses \cup {None}])
      /\ list'.data = list.data /\ list'.got = Snapshot
  BY <1>1, <1>2 DEF ReadList, Queries
<1>5. UNCHANGED run
  BY DEF ReadList, server
<1>6. ASSUME NEW i \in Runs, list'.data # None, list'.data[i] # None
      PROVE  run'[i] # None
  BY <1>4, <1>5, <1>6 DEF PageInv, RunsKnown, Listed
<1> QED
  BY <1>3, <1>4, <1>5, <1>6 DEF ListKept

LEMMA ListShown ==
  ASSUME PageInv, ListArrives
  PROVE  ListKept
<1>1. list \in Queries([Runs -> Statuses \cup {None}])
  BY DEF PageInv, TypeOK
<1>2. list.got \in [Runs -> Statuses \cup {None}] \cup {None}
  BY <1>1 DEF Queries
<1>3. /\ list' \in Queries([Runs -> Statuses \cup {None}])
      /\ list'.data = list.got /\ list'.got = None
  BY <1>2, ArrivedTyped DEF ListArrives
<1>4. UNCHANGED run
  BY DEF ListArrives, server
<1>5. ASSUME NEW i \in Runs, list'.data # None, list'.data[i] # None
      PROVE  run'[i] # None
  BY <1>3, <1>4, <1>5 DEF PageInv, RunsKnown
<1> QED
  BY <1>3, <1>5 DEF ListKept

\* What may become of a detail query: a fetch is started only for a run that
\* the server has.
LEMMA DetailsWritten ==
  ASSUME PageInv, ServerKept, detail' = [i \in Runs |-> detail'[i]],
         \A i \in Runs :
           \/ detail'[i] = detail[i]
           \/ detail'[i] = Dropped(detail[i])
           \/ detail'[i] \in {Fetched(detail[i]), Refetched(detail[i])} /\ run[i] # None
  PROVE  DetailKept
<1>1. ASSUME NEW i \in Runs
      PROVE  /\ detail'[i] \in Queries(Details)
             /\ detail'[i].out # "no" => run'[i] # None
  <2>1. detail[i] \in Queries(Details)
    BY DEF PageInv, TypeOK
  <2>2. run[i] # None => run'[i] # None
    BY DEF ServerKept, RunsGrow
  <2>3. detail[i].out # "no" => run[i] # None
    BY DEF PageInv, RunsKnown
  <2>4. CASE detail'[i] = detail[i]
    BY <2>1, <2>2, <2>3, <2>4
  <2>5. CASE detail'[i] = Dropped(detail[i])
    BY <2>1, <2>5, QueryTyped
  <2>6. CASE detail'[i] \in {Fetched(detail[i]), Refetched(detail[i])} /\ run[i] # None
    BY <2>1, <2>2, <2>6, QueryTyped
  <2> QED
    BY <2>4, <2>5, <2>6
<1> QED
  BY <1>1 DEF DetailKept

LEMMA DetailsUnchanged ==
  ASSUME PageInv, ServerKept, UNCHANGED detail
  PROVE  DetailKept
<1>1. detail' = [i \in Runs |-> detail'[i]]
  BY DEF PageInv, TypeOK
<1> QED
  BY <1>1, DetailsWritten

LEMMA DetailWritten ==
  ASSUME PageInv, ServerKept, NEW i \in Runs, NEW q, detail' = [detail EXCEPT ![i] = q],
         q = Dropped(detail[i]) \/ (q \in {Fetched(detail[i]), Refetched(detail[i])} /\ run[i] # None)
  PROVE  DetailKept
<1>1. /\ \A j \in Runs : detail'[j] = IF j = i THEN q ELSE detail[j]
      /\ detail' = [j \in Runs |-> detail'[j]]
  BY DEF PageInv, TypeOK
<1> QED
  BY <1>1, DetailsWritten

LEMMA DetailsOfCards ==
  ASSUME PageInv, ServerKept, NEW t, NEW rows \in {list.data, list.got}, Cards(t, rows)
  PROVE  DetailKept
<1>1. ASSUME NEW i \in Runs
      PROVE  \/ detail'[i] = detail[i]
             \/ detail'[i] = Fetched(detail[i]) /\ run[i] # None
  BY CardsKnown DEF Cards
<1>2. detail' = [i \in Runs |-> detail'[i]]
  BY DEF Cards
<1> QED
  BY <1>1, <1>2, DetailsWritten

LEMMA DetailShown ==
  ASSUME PageInv, NEW i \in Runs, DetailArrives(i)
  PROVE  DetailKept
<1> DEFINE d == Answered(run[i])
<1>1. run[i] # None
  BY DEF DetailArrives, PageInv, RunsKnown
<1>2. run[i] \in RunRows
  BY <1>1 DEF PageInv, TypeOK
<1>3. d \in Details
  BY <1>2 DEF Answered, RunRows, Details
<1>4. detail' = [detail EXCEPT ![i] = Arrived(d)] /\ UNCHANGED run
  BY DEF DetailArrives, server
<1> HIDE DEF d
<1>5. Arrived(d) \in Queries(Details) /\ Arrived(d).out = "no"
  BY <1>3, ArrivedTyped
<1> QED
  BY <1>4, <1>5 DEF DetailKept, PageInv, TypeOK, RunsKnown

LEMMA RoutinesReasked ==
  ASSUME PageInv, routines' \in {routines, Fetched(routines), Refetched(routines), Dropped(routines)}
  PROVE  routines' \in Queries(RoutineRows)
<1>1. routines \in Queries(RoutineRows)
  BY DEF PageInv, TypeOK
<1> QED
  BY <1>1, QueryTyped

LEMMA CacheUnchanged ==
  ASSUME PageInv, ServerKept, UNCHANGED cache
  PROVE  CacheKept
BY ListReasked, DetailsUnchanged, RoutinesReasked DEF CacheKept, cache

-----------------------------------------------------------------------------
(* The steps                                                               *)

PanelKept ==
  /\ tab' \in Tabs \cup {"away"} /\ form' \in Forms /\ asking' \in BOOLEAN
  /\ acts' \in Stamps /\ lost' \in BOOLEAN

LEMMA AllKept ==
  ASSUME ServerKept, RequestsKept, CacheKept, PanelKept
  PROVE  PageInv'
BY DEF ServerKept, RunsGrow, RequestsKept, CacheKept, ListKept, DetailKept, PanelKept,
       PageInv, TypeOK, RunsKnown, Listed, OnlyShownCallsRun

LEMMA ActTyped ==
  ASSUME PageInv, Act \/ UNCHANGED acts
  PROVE  acts' \in Stamps /\ (Act => acts + 1 \in Stamps)
BY DEF PageInv, TypeOK, Act, Stamps

LEMMA FormTyped ==
  ASSUME NEW x \in Forms, NEW t \in Stamps, NEW b \in BOOLEAN
  PROVE  /\ Closed \in Forms /\ Seeded(b, t) \in Forms
         /\ [x EXCEPT !.open = FALSE] \in Forms
         /\ [x EXCEPT !.error = b] \in Forms
         /\ [x EXCEPT !.text = t, !.bad = b] \in Forms
<1>1. Closed \in Forms /\ Seeded(b, t) \in Forms
  BY DEF Closed, Seeded, Forms, Stamps
<1>2. [x EXCEPT !.open = FALSE] \in Forms
  BY DEF Forms
<1>3. [x EXCEPT !.error = b] \in Forms
  BY DEF Forms
<1>4. [x EXCEPT !.text = t, !.bad = b] \in Forms
  BY DEF Forms
<1> QED
  BY <1>1, <1>2, <1>3, <1>4

\* Lemmas for the frame of a step: what is unchanged is as good as before.
LEMMA PanelUnchanged ==
  ASSUME PageInv, UNCHANGED <<tab, form, asking>>, Act \/ UNCHANGED acts, lost' \in {lost, TRUE}
  PROVE  PanelKept
BY ActTyped DEF PanelKept, PageInv, TypeOK

LEMMA FetchSteps ==
  ASSUME PageInv,
         \/ PollList \/ ReadList \/ ListArrives \/ RoutinesArrive
         \/ \E i \in Runs : PollDetail(i) \/ DetailArrives(i)
  PROVE  PageInv'
<1>1. /\ ServerKept /\ RequestsKept /\ PanelKept
  BY ServerUnchanged, RequestsUnchanged, PanelUnchanged
  DEF PollList, ReadList, ListArrives, RoutinesArrive, PollDetail, DetailArrives,
      server, panel, hist
<1>2. CASE PollList
  <2>1. ListKept /\ DetailKept /\ routines' = routines
    BY <1>1, <1>2, ListReasked, DetailsUnchanged DEF PollList
  <2> QED
    BY <1>1, <2>1, AllKept, RoutinesReasked DEF CacheKept
<1>3. CASE ReadList
  <2>1. ListKept /\ DetailKept /\ routines' = routines
    BY <1>1, <1>3, ListRead, DetailsUnchanged DEF ReadList
  <2> QED
    BY <1>1, <2>1, AllKept, RoutinesReasked DEF CacheKept
<1>4. CASE ListArrives
  <2>1. ListKept /\ DetailKept /\ routines' = routines
    BY <1>1, <1>4, ListShown, DetailsOfCards DEF ListArrives
  <2> QED
    BY <1>1, <2>1, AllKept, RoutinesReasked DEF CacheKept
<1>5. CASE RoutinesArrive
  <2>1. ListKept /\ DetailKept
    BY <1>1, <1>5, ListReasked, DetailsUnchanged DEF RoutinesArrive
  <2>2. routines' \in Queries(RoutineRows)
    BY <1>5, ArrivedTyped DEF RoutinesArrive, PageInv, TypeOK
  <2> QED
    BY <1>1, <2>1, <2>2, AllKept DEF CacheKept
<1>6. ASSUME NEW i \in Runs, PollDetail(i) PROVE PageInv'
  <2>1. run[i] # None
    BY <1>6, CardsKnown DEF PollDetail
  <2>2. ListKept /\ DetailKept /\ routines' = routines
    BY <1>1, <1>6, <2>1, ListReasked, DetailWritten DEF PollDetail
  <2> QED
    BY <1>1, <2>2, AllKept, RoutinesReasked DEF CacheKept
<1>7. ASSUME NEW i \in Runs, DetailArrives(i) PROVE PageInv'
  <2>1. ListKept /\ DetailKept /\ routines' = routines
    BY <1>1, <1>7, ListReasked, DetailShown DEF DetailArrives
  <2> QED
    BY <1>1, <2>1, AllKept, RoutinesReasked DEF CacheKept
<1> QED
  BY <1>2, <1>3, <1>4, <1>5, <1>6, <1>7

LEMMA FetchFailsStep ==
  ASSUME PageInv, FetchFails
  PROVE  PageInv'
<1>1. /\ ServerKept /\ RequestsKept /\ PanelKept
  BY ServerUnchanged, RequestsUnchanged, PanelUnchanged DEF FetchFails, server, panel
<1>2. ListKept /\ routines' \in Queries(RoutineRows)
  <2>1. list' \in {list, Dropped(list)} /\ routines' \in {routines, Dropped(routines)}
    BY DEF FetchFails
  <2> QED
    BY <1>1, <2>1, ListReasked, RoutinesReasked
<1>3. DetailKept
  <2>1. CASE UNCHANGED detail
    BY <1>1, <2>1, DetailsUnchanged
  <2>2. CASE \E i \in Runs : detail' = [detail EXCEPT ![i] = Dropped(@)]
    BY <1>1, <2>2, DetailWritten
  <2> QED
    BY <2>1, <2>2 DEF FetchFails
<1> QED
  BY <1>1, <1>2, <1>3, AllKept DEF CacheKept

LEMMA TabSteps ==
  ASSUME PageInv, Leave \/ \E t \in Tabs : OpenTab(t)
  PROVE  PageInv'
<1>1. ServerKept
  BY ServerUnchanged DEF Leave, OpenTab, server, hist
<1>2. RequestsKept
  BY <1>1, RequestsDied DEF Leave, OpenTab
<1>3. PanelKept
  BY ActTyped, FormTyped DEF Leave, OpenTab, hist, PanelKept, PageInv, TypeOK
<1>4. CASE Leave
  BY <1>1, <1>2, <1>3, <1>4, CacheUnchanged, AllKept DEF Leave
<1>5. ASSUME NEW t \in Tabs, OpenTab(t) PROVE PageInv'
  <2>1. ListKept /\ DetailKept
    BY <1>1, <1>5, ListReasked, DetailsOfCards DEF OpenTab
  <2>2. routines' \in Queries(RoutineRows)
    BY <1>5, RoutinesReasked DEF OpenTab
  <2> QED
    BY <1>1, <1>2, <1>3, <2>1, <2>2, AllKept DEF CacheKept
<1> QED
  BY <1>4, <1>5

LEMMA ButtonSteps ==
  ASSUME PageInv, NEW r \in Reqs,
         \/ SubmitTask(r) \/ HandleRunNow(r) \/ HandleToggle(r) \/ HandleDelete(r)
         \/ \E i \in Runs : HandleCancel(r, i)
  PROVE  PageInv'
<1>1. ServerKept
  BY ServerUnchanged
  DEF SubmitTask, HandleRunNow, HandleToggle, HandleDelete, HandleCancel, server, hist
<1>2. CacheKept
  BY <1>1, CacheUnchanged
  DEF SubmitTask, HandleRunNow, HandleToggle, HandleDelete, HandleCancel
<1>3. PanelKept
  BY PanelUnchanged
  DEF SubmitTask, HandleRunNow, HandleToggle, HandleDelete, HandleCancel, panel, hist
<1>4. RequestsKept
  <2>1. CASE SubmitTask(r) \/ HandleRunNow(r) \/ HandleDelete(r)
    BY <1>1, <2>1, SentTyped, RequestSent DEF SubmitTask, HandleRunNow, HandleDelete, Kinds
  <2>2. CASE HandleToggle(r)
    <3>1. RowShown /\ Send(r, Request("toggle", None, {}, ~routines.data.on, 0, FALSE))
      BY <2>2 DEF HandleToggle
    <3>2. routines.data \in RoutineRows
      BY <3>1 DEF RowShown, PageInv, TypeOK, Queries
    <3> DEFINE on == ~routines.data.on
    <3>3. on \in BOOLEAN /\ 0 \in Stamps
      BY DEF Stamps
    <3> HIDE DEF on
    <3>4. Request("toggle", None, {}, on, 0, FALSE) \in ReqRows
          /\ Request("toggle", None, {}, on, 0, FALSE).kind = "toggle"
      <4>1. "toggle" \in Kinds /\ None \in Runs \cup {None} /\ {} \in SUBSET Calls
            /\ FALSE \in BOOLEAN
        BY DEF Kinds
      <4> QED
        BY <3>3, <4>1 DEF Request, ReqRows
    <3> QED
      BY <1>1, <3>1, <3>4, RequestSent DEF on
  <2>3. ASSUME NEW i \in Runs, HandleCancel(r, i) PROVE RequestsKept
    <3>1. ShownActive(i) /\ Send(r, Sent("cancel", i))
      BY <2>3 DEF HandleCancel
    <3>2. run[i] # None
      BY <3>1 DEF ShownActive, PageInv, RunsKnown
    <3> DEFINE q == Sent("cancel", i)
    <3>3. q \in ReqRows /\ q.kind = "cancel" /\ q.run = i
      BY SentTyped DEF Kinds
    <3>4. Send(r, q)
      BY <3>1
    <3> HIDE DEF q
    <3> QED
      BY <1>1, <3>2, <3>3, <3>4, RequestSent
  <2> QED
    BY <2>1, <2>2, <2>3
<1> QED
  BY <1>1, <1>2, <1>3, <1>4, AllKept

LEMMA DecideStep ==
  ASSUME PageInv, NEW r \in Reqs, NEW i \in Runs, NEW ok \in BOOLEAN, HandleDecide(r, i, ok)
  PROVE  PageInv'
<1>1. /\ ServerKept /\ Decisions(i) \subseteq Calls /\ run[i] # None
      /\ ok => {i} \X Decisions(i) \subseteq approved'
  BY ServerClicked
<1>2. CacheKept
  BY <1>1, CacheUnchanged DEF HandleDecide
<1>3. PanelKept
  BY PanelUnchanged DEF HandleDecide, panel
<1>4. RequestsKept
  <2> DEFINE q == Request("resolve", i, Decisions(i), ok, 0, FALSE)
  <2>1. Send(r, q)
    BY DEF HandleDecide
  <2>2. /\ q \in ReqRows /\ q.kind = "resolve" /\ q.run = i /\ q.calls = Decisions(i)
        /\ q.ok = ok
    <3>1. "resolve" \in Kinds /\ i \in Runs \cup {None} /\ Decisions(i) \in SUBSET Calls
          /\ FALSE \in BOOLEAN /\ 0 \in Stamps
      BY <1>1 DEF Kinds, Stamps
    <3> QED
      BY <3>1 DEF Request, ReqRows
  <2> HIDE DEF q
  <2> QED
    BY <1>1, <2>1, <2>2, RequestSent
<1> QED
  BY <1>1, <1>2, <1>3, <1>4, AllKept

LEMMA FormSteps ==
  ASSUME PageInv,
         \/ TypeForm \/ CloseForm \/ AskDelete
         \/ \E editing \in BOOLEAN : OpenForm(editing)
  PROVE  PageInv'
<1>1. ServerKept /\ RequestsKept /\ CacheKept
  BY ServerUnchanged, RequestsUnchanged, CacheUnchanged
  DEF TypeForm, CloseForm, AskDelete, OpenForm, server, hist
<1>2. form \in Forms /\ acts' \in Stamps /\ (Act => acts + 1 \in Stamps)
  BY ActTyped DEF TypeForm, CloseForm, AskDelete, OpenForm, PageInv, TypeOK
<1>3. form' \in Forms
  <2>1. CASE TypeForm
    <3>1. PICK bad \in BOOLEAN : form' = [form EXCEPT !.text = acts + 1, !.bad = bad]
      BY <2>1 DEF TypeForm
    <3>2. acts + 1 \in Stamps
      BY <1>2, <2>1 DEF TypeForm
    <3> QED
      BY <1>2, <3>1, <3>2, FormTyped
  <2>2. CASE CloseForm
    BY <1>2, <2>2, FormTyped DEF CloseForm, Stamps
  <2>3. CASE AskDelete
    BY <1>2, <2>3 DEF AskDelete
  <2>4. ASSUME NEW editing \in BOOLEAN, OpenForm(editing) PROVE form' \in Forms
    <3> DEFINE t == IF editing THEN routines.data.text ELSE 0
    <3>1. t \in Stamps
      <4>1. CASE editing
        <5>1. routines.data \in RoutineRows
          BY <2>4, <4>1 DEF OpenForm, RowShown, PageInv, TypeOK, Queries
        <5> QED
          BY <4>1, <5>1 DEF RoutineRows
      <4>2. CASE ~editing
        BY <4>2 DEF Stamps
      <4> QED
        BY <4>1, <4>2
    <3>2. form' = Seeded(editing, t)
      BY <2>4 DEF OpenForm
    <3> HIDE DEF t
    <3> QED
      BY <1>2, <3>1, <3>2, FormTyped
  <2> QED
    BY <2>1, <2>2, <2>3, <2>4
<1>4. tab' \in Tabs \cup {"away"} /\ asking' \in BOOLEAN /\ lost' \in BOOLEAN
  BY DEF TypeForm, CloseForm, AskDelete, OpenForm, hist, PageInv, TypeOK
<1> QED
  BY <1>1, <1>2, <1>3, <1>4, AllKept DEF PanelKept

LEMMA SubmitStep ==
  ASSUME PageInv, NEW r \in Reqs, SubmitForm(r)
  PROVE  PageInv'
<1>1. ServerKept
  BY ServerUnchanged DEF SubmitForm, server, hist
<1>2. CacheKept
  BY <1>1, CacheUnchanged DEF SubmitForm
<1>3. form \in Forms
  BY DEF PageInv, TypeOK
<1>4. PanelKept
  BY <1>3, ActTyped, FormTyped DEF SubmitForm, hist, PanelKept, PageInv, TypeOK, Stamps
<1>5. RequestsKept
  <2> DEFINE kind == IF form.editing THEN "update" ELSE "create"
             q == Request(kind, None, {}, FALSE, form.text, form.bad)
  <2>1. form.text \in Stamps /\ form.bad \in BOOLEAN
    BY <1>3 DEF Forms
  <2>2. kind \in Kinds /\ kind \notin {"cancel", "resolve"}
    BY DEF Kinds
  <2>3. Send(r, q)
    BY DEF SubmitForm
  <2> HIDE DEF kind
  <2>4. q \in ReqRows /\ q.kind = kind
    <3>1. None \in Runs \cup {None} /\ {} \in SUBSET Calls /\ FALSE \in BOOLEAN
      OBVIOUS
    <3> QED
      BY <2>1, <2>2, <3>1 DEF Request, ReqRows
  <2> HIDE DEF q
  <2> QED
    BY <1>1, <2>2, <2>3, <2>4, RequestSent
<1> QED
  BY <1>1, <1>2, <1>4, <1>5, AllKept

LEMMA RequestSteps ==
  ASSUME PageInv, NEW r \in Reqs,
         \/ Serve(r) \/ ReadQueued(r) \/ SettleQueued(r) \/ Refuse(r) \/ Lose(r)
         \/ Succeeded(r) \/ Failed(r)
  PROVE  PageInv'
<1>1. CASE Serve(r)
  <2>1. ServerKept
    BY <1>1, ServerServes
  <2>2. RequestsKept
    BY <1>1, <2>1, RequestMoved DEF Serve, Done
  <2>3. CacheKept /\ PanelKept
    BY <1>1, <2>1, CacheUnchanged, PanelUnchanged DEF Serve, panel
  <2> QED
    BY <2>1, <2>2, <2>3, AllKept
<1>2. CASE Refuse(r) \/ Lose(r)
  <2>1. ServerKept
    BY <1>2, ServerUnchanged DEF Refuse, Lose, server, hist
  <2>2. RequestsKept
    BY <1>2, <2>1, RequestMoved DEF Refuse, Lose
  <2>3. CacheKept /\ PanelKept
    BY <1>2, <2>1, CacheUnchanged, PanelUnchanged DEF Refuse, Lose, panel, hist
  <2> QED
    BY <2>1, <2>2, <2>3, AllKept
<1>3. CASE Succeeded(r)
  <2>1. ServerKept
    BY <1>3, ServerUnchanged DEF Succeeded, server, hist
  <2>2. RequestsKept
    BY <1>3, <2>1, RequestFreed DEF Succeeded
  <2>3. ListKept /\ routines' \in Queries(RoutineRows)
    <3>1. list' \in {list, Refetched(list)} /\ routines' \in {routines, Refetched(routines)}
      BY <1>3 DEF Succeeded, Invalidates
    <3> QED
      BY <2>1, <3>1, ListReasked, RoutinesReasked
  <2>4. DetailKept
    <3>1. ASSUME NEW i \in Runs
          PROVE  \/ detail'[i] = detail[i]
                 \/ detail'[i] = Refetched(detail[i]) /\ run[i] # None
      BY <1>3, CardsKnown DEF Succeeded, Invalidates
    <3>2. detail' = [i \in Runs |-> detail'[i]]
      BY <1>3 DEF Succeeded, Invalidates
    <3> QED
      BY <2>1, <3>1, <3>2, DetailsWritten
  <2>5. PanelKept
    <3>1. form \in Forms /\ asking \in BOOLEAN
      BY DEF PageInv, TypeOK
    <3>2. form' \in Forms /\ asking' \in BOOLEAN
      <4>1. [form EXCEPT !.open = FALSE] \in Forms
        BY <3>1 DEF Forms
      <4> QED
        BY <1>3, <3>1, <4>1 DEF Succeeded
    <3> QED
      BY <1>3, <3>2 DEF Succeeded, hist, PanelKept, PageInv, TypeOK
  <2> QED
    BY <2>1, <2>2, <2>3, <2>4, <2>5, AllKept DEF CacheKept
<1>4. CASE Failed(r)
  <2>1. ServerKept
    BY <1>4, ServerUnchanged DEF Failed, server, hist
  <2>2. RequestsKept
    BY <1>4, <2>1, RequestFreed DEF Failed
  <2>3. CacheKept
    BY <1>4, <2>1, CacheUnchanged DEF Failed
  <2>4. PanelKept
    <3>1. form \in Forms
      BY DEF PageInv, TypeOK
    <3>2. form' \in Forms
      <4>1. [form EXCEPT !.error = TRUE] \in Forms
        BY <3>1 DEF Forms
      <4> QED
        BY <1>4, <3>1, <4>1 DEF Failed
    <3> QED
      BY <1>4, <3>2 DEF Failed, hist, PanelKept, PageInv, TypeOK
  <2> QED
    BY <2>1, <2>2, <2>3, <2>4, AllKept
<1>5. CASE ReadQueued(r) \/ SettleQueued(r)
  <2>1. ServerKept
    BY <1>5, ServerCancels
  <2>2. RequestsKept
    BY <1>5, <2>1, RequestMoved DEF ReadQueued, SettleQueued, Done
  <2>3. CacheKept /\ PanelKept
    BY <1>5, <2>1, CacheUnchanged, PanelUnchanged DEF ReadQueued, SettleQueued, panel, hist
  <2> QED
    BY <2>1, <2>2, <2>3, AllKept
<1> QED
  BY <1>1, <1>2, <1>3, <1>4, <1>5

LEMMA OthersStep ==
  ASSUME PageInv, Elsewhere \/ ServerRestarts \/ \E i \in Runs : RunnerMoves(i)
  PROVE  PageInv'
<1>1. ServerKept
  BY ServerMoves
<1>2. RequestsKept /\ CacheKept /\ PanelKept
  BY <1>1, RequestsUnchanged, CacheUnchanged, PanelUnchanged
  DEF Elsewhere, RunnerMoves, ServerRestarts, panel, hist
<1> QED
  BY <1>1, <1>2, AllKept

LEMMA Initially == Init => PageInv
<1> SUFFICES ASSUME Init PROVE PageInv
  OBVIOUS
<1>1. NoQuery \in Queries([Runs -> Statuses \cup {None}]) /\ NoQuery \in Queries(RoutineRows)
      /\ NoQuery \in Queries(Details)
  BY DEF NoQuery, Queries
<1>2. NoQuery.data = None /\ NoQuery.got = None /\ NoQuery.out = "no"
  BY DEF NoQuery
<1>3. list \in Queries([Runs -> Statuses \cup {None}]) /\ list.data = None /\ list.got = None
  BY <1>1, <1>2, QueryTyped DEF Init
<1>4. routines \in Queries(RoutineRows)
  BY <1>1, QueryTyped DEF Init
<1>5. detail \in [Runs -> Queries(Details)] /\ \A i \in Runs : detail[i].out = "no"
  BY <1>1, <1>2 DEF Init
<1>6. routine \in RoutineRows /\ acts \in Stamps
  BY DEF Init, RoutineRows, Stamps
<1>7. form \in Forms
  BY DEF Init, Closed, Forms, Stamps
<1>8. req \in [Reqs -> ReqRows] /\ \A r \in Reqs : req[r].kind = "none"
  BY FreeTyped DEF Init
<1>11. run \in [Runs -> RunRows \cup {None}]
  BY NewRunTyped DEF Init
<1>9. TypeOK
  BY <1>3, <1>4, <1>5, <1>6, <1>7, <1>8, <1>11 DEF Init, TypeOK, Tabs
<1>10. RunsKnown /\ ApprovalsClicked
  BY <1>3, <1>5, <1>8 DEF RunsKnown, ApprovalsClicked, Listed
<1> QED
  BY <1>9, <1>10 DEF PageInv, OnlyShownCallsRun, Init

LEMMA EveryStep == PageInv /\ [Next]_vars => PageInv'
<1> SUFFICES ASSUME PageInv, [Next]_vars PROVE PageInv'
  OBVIOUS
<1>1. CASE UserStep
  BY <1>1, TabSteps, FormSteps, ButtonSteps, DecideStep, SubmitStep DEF UserStep
<1>2. CASE RequestStep \/ \E r \in Reqs : Lose(r)
  BY <1>2, RequestSteps DEF RequestStep
<1>3. CASE FetchFails
  BY <1>3, FetchFailsStep
<1>4. CASE Elsewhere \/ ServerRestarts \/ \E i \in Runs : RunnerMoves(i)
  BY <1>4, OthersStep
<1>5. CASE \/ PollList \/ ListStep \/ RoutinesArrive
           \/ \E i \in Runs : PollDetail(i) \/ DetailArrives(i)
  BY <1>5, FetchSteps DEF ListStep
<1>6. CASE UNCHANGED vars
  <2>1. ServerKept
    BY <1>6, ServerUnchanged DEF vars, server, hist
  <2>2. RequestsKept /\ CacheKept /\ PanelKept
    BY <1>6, <2>1, RequestsUnchanged, CacheUnchanged, PanelUnchanged DEF vars, panel, hist
  <2> QED
    BY <2>1, <2>2, AllKept
<1> QED
  BY <1>1, <1>2, <1>3, <1>4, <1>5, <1>6 DEF Next

-----------------------------------------------------------------------------
(* The page: the theorems                                                  *)

\* Every variable of the page keeps its type, and no handler ever reads a run
\* that the server does not have.
THEOREM PageTypeCorrect == Spec => []TypeOK
<1>1. PageInv => TypeOK
  BY DEF PageInv
<1> QED
  BY <1>1, Initially, EveryStep, PTL DEF Spec

\* However stale the approval panel is, a call of a run is only executed when
\* an Approve was clicked while the panel showed that call.
THEOREM ShownCallsOnly == Spec => []OnlyShownCallsRun
<1>1. PageInv => OnlyShownCallsRun
  BY DEF PageInv
<1> QED
  BY <1>1, Initially, EveryStep, PTL DEF Spec

=============================================================================
