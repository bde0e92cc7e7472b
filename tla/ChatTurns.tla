------------------------------ MODULE ChatTurns ------------------------------
(***************************************************************************)
(* The turns of one plain conversation: sending, editing and regenerating  *)
(* messages, pausing on calls that need an approval, resuming, deleting.   *)
(*                                                                         *)
(* Each request is a handler with its own goroutine and shares only the    *)
(* tables messages and pending_tool_calls with the others.  The model and  *)
(* its tool loop (golem) are external: a run takes the stored history and  *)
(* returns messages, of which the handler stores the new ones, row by row, *)
(* giving every tool call a fresh id.  A run that pauses leaves its calls  *)
(* in pending_tool_calls; deciding them runs the agent again on the        *)
(* history from the last user message on.  A client that hangs up, or the  *)
(* end of the process, leaves a handler's remaining statements undone.     *)
(***************************************************************************)
EXTENDS Integers, FiniteSetsExt

CONSTANTS
  Tabs,          \* requests in flight at once
  MaxRows,       \* bound: rows inserted into messages
  MaxRequests,   \* bound: requests
  MaxFaults      \* bound: failing inserts into messages

ASSUME ConstantsAssumption ==
  /\ MaxRows \in Nat
  /\ MaxRequests \in Nat
  /\ MaxFaults \in Nat

VARIABLES
  rows,      \* the table messages
  next,      \* created_at of the row inserted next
  pending,   \* ids in pending_tool_calls with status 'pending'
  turn,      \* per request: the locals of its handler
  requests,  \* requests so far
  faults,    \* failed inserts so far
  resumed,   \* history: calls a run was resumed on with a decision
  again,     \* history: those it happened to twice
  cut,       \* history: calls whose row was deleted
  unstored   \* history: calls parked by a run that could not store its rows

historyVars == <<resumed, again, cut, unstored>>
vars == <<rows, next, pending, turn, requests, faults, historyVars>>

\* A call's id: the j-th of its message, made when that message was stored as
\* row number at; 0 is the provider's own id, which repeats in every answer
\* (call-1, call-2, ...).
MaxCalls == 2
Calls    == Nat \X (1 .. MaxCalls)
Raw(j)   == <<0, j>>

\* A message, as the agent returns it (at orders the answer's) and as a row holds
\* it (at orders the table).  source is the row a message was first stored as, 0
\* for a new one; calls are those an assistant makes, or the one a tool answers.
Message == [at : Nat, role : {"user", "assistant", "tool"}, source : Nat,
            calls : SUBSET Calls]

\* What a handler holds.  after: the row it keeps; calls: the decided ones; left:
\* those still to record; todo: messages to store; ids and open: idMap and the
\* keys of unanswered; asks: the calls it pauses on.
Idle == [at |-> "idle"]
Turn == {Idle}
        \cup [at : {"prompt", "look", "run"}]
        \cup [at : {"edit", "resend", "truncate"}, after : Nat]
        \cup {t \in [at : {"flip"}, calls : SUBSET Calls, left : SUBSET Calls] :
                t.left \subseteq t.calls}
        \cup [at : {"reload"}, calls : SUBSET Calls]
        \cup [at : {"resume"}, calls : SUBSET Calls, history : SUBSET Message]
        \cup [at : {"store"}, todo : SUBSET Message, ids : SUBSET (Calls \X Calls),
              open : SUBSET Calls, asks : SUBSET Calls]
        \cup [at : {"park"}, calls : SUBSET Calls]

Init ==
  /\ rows = {} /\ next = 1
  /\ pending = {}
  /\ turn = [q \in Tabs |-> Idle]
  /\ requests = 0 /\ faults = 0
  /\ resumed = {} /\ again = {} /\ cut = {} /\ unstored = {}

-----------------------------------------------------------------------------
(* The tables.                                                             *)

Of(S, role) == {r \in S : r.role = role}

CallsIn(S) == UNION {r.calls : r \in Of(S, "assistant")}

Insert(role, source, calls) ==
  /\ next <= MaxRows
  /\ rows' = rows \cup {[at |-> next, role |-> role,
                         source |-> IF source = 0 THEN next ELSE source, calls |-> calls]}
  /\ next' = next + 1

\* Rows go from position p on, whatever calls of them are pending.
DeleteFrom(p) ==
  /\ rows' = {r \in rows : r.at < p}
  /\ cut' = cut \cup CallsIn({r \in rows : r.at >= p})
  /\ UNCHANGED <<next, pending, faults, resumed, again, unstored>>

\* The position of the conversation's last user message.
LastUser(S) == {u.at : u \in {v \in Of(S, "user") : \A w \in Of(S, "user") : w.at <= v.at}}

Goes(q, t) == turn' = [turn EXCEPT ![q] = t]

At(q, site) == turn[q].at = site

Asked(q) == At(q, "idle") /\ requests < MaxRequests /\ requests' = requests + 1

\* A request that writes no row of its own accord.
Tables == <<rows, next, pending, faults, historyVars>>

-----------------------------------------------------------------------------
(* Sending, editing, regenerating and deleting.                            *)

\* POST messages: refused while calls are pending.
Send(q) ==
  /\ Asked(q) /\ pending = {}
  /\ Goes(q, [at |-> "prompt"])
  /\ UNCHANGED Tables

\* The prompt is stored before the agent runs.
AddPrompt(q) ==
  /\ At(q, "prompt")
  /\ Insert("user", 0, {})
  /\ Goes(q, [at |-> "run"])
  /\ UNCHANGED <<pending, requests, faults, historyVars>>

\* PATCH a message: the target is looked up after the pending check.
Edit(q, u) ==
  /\ Asked(q) /\ pending = {}
  /\ u \in Of(rows, "user")
  /\ Goes(q, [at |-> "edit", after |-> u.at])
  /\ UNCHANGED Tables

\* UpdateContent finds the row no more when a delete came first.
EditContent(q) ==
  /\ At(q, "edit")
  /\ Goes(q, IF \E r \in rows : r.at = turn[q].after
             THEN [at |-> "resend", after |-> turn[q].after] ELSE Idle)
  /\ UNCHANGED <<Tables, requests>>

\* POST regenerate.
Regenerate(q) ==
  /\ Asked(q) /\ pending = {}
  /\ Goes(q, [at |-> "look"])
  /\ UNCHANGED Tables

FindPrompt(q) ==
  /\ At(q, "look")
  /\ Goes(q, Idle) \/ \E p \in LastUser(rows) : Goes(q, [at |-> "truncate", after |-> p])
  /\ UNCHANGED <<Tables, requests>>

\* DeleteAfter, of an edit or a regeneration; the edit looks for its row again,
\* the regeneration has kept its prompt.
Truncate(q) ==
  /\ At(q, "resend") \/ At(q, "truncate")
  /\ DeleteFrom(turn[q].after + 1)
  /\ Goes(q, IF At(q, "truncate") \/ \E r \in rows : r.at = turn[q].after
             THEN [at |-> "run"] ELSE Idle)
  /\ UNCHANGED requests

\* DELETE a message, and all after it: pending calls are neither looked at nor
\* removed.
DeleteMessage(q, m) ==
  /\ Asked(q) /\ m \in rows
  /\ DeleteFrom(m.at)
  /\ UNCHANGED turn

-----------------------------------------------------------------------------
(* The agent.  Messages it adds after position n, and the calls it pauses  *)
(* on: an answer, with or without a tool exchange before; a failure whose  *)
(* partial evidence is stored; calls that need an approval.                *)

New(n, role, calls) == [at |-> n, role |-> role, source |-> 0, calls |-> calls]

Answer(n) == [todo |-> {New(n, "assistant", {})}, asks |-> {}]

Ask(n, calls) == [todo |-> {New(n, "assistant", calls)}, asks |-> calls]

Exchange(n) == {New(n, "assistant", {Raw(1)}), New(n + 1, "tool", {Raw(1)})}

Ends(n) == {Answer(n)} \cup {Ask(n, {Raw(i) : i \in 1 .. j}) : j \in 1 .. MaxCalls}

Continuations(n) ==
  Ends(n)
  \cup {[todo |-> {}, asks |-> {}], [todo |-> Exchange(n), asks |-> {}]}
  \cup {[e EXCEPT !.todo = @ \cup Exchange(n)] : e \in Ends(n + 2)}

Storing(todo, ids, open, asks) ==
  [at |-> "store", todo |-> todo, ids |-> ids, open |-> open, asks |-> asks]

Stores(q, messages, asks) ==
  Goes(q, IF messages = {} THEN Idle ELSE Storing(messages, {}, {}, asks))

\* runTurn: the history goes in and comes out unchanged, and is told from the new
\* messages by the position of the prompt.
Run(q) ==
  /\ At(q, "run")
  /\ \E c \in Continuations(1) : Stores(q, c.todo, c.asks)
  /\ UNCHANGED <<Tables, requests>>

-----------------------------------------------------------------------------
(* Approvals.                                                              *)

Flipping(calls, left) == [at |-> "flip", calls |-> calls, left |-> left]

\* All pending calls of the conversation, whichever run asked for them, must be
\* decided in one request.
Approve(q) ==
  /\ Asked(q) /\ pending # {}
  /\ Goes(q, Flipping(pending, pending))
  /\ UNCHANGED Tables

\* Mutant: SetStatus without its condition on the status.
FlipAny(q) ==
  /\ At(q, "flip")
  /\ \E c \in turn[q].left :
       /\ pending' = pending \ {c}
       /\ LET left == turn[q].left \ {c}
          IN  Goes(q, IF left = {} THEN [at |-> "reload", calls |-> turn[q].calls]
                      ELSE Flipping(turn[q].calls, left))
  /\ UNCHANGED <<rows, next, requests, faults, historyVars>>

\* SetStatus, in the order of a map: a call that another request has decided
\* since ends this one with an error, the earlier ones decided.
Flip(q) ==
  /\ At(q, "flip")
  /\ \E c \in turn[q].left :
       /\ pending' = pending \ {c}
       /\ LET left == turn[q].left \ {c}
          IN  Goes(q, IF c \notin pending THEN Idle
                      ELSE IF left = {} THEN [at |-> "reload", calls |-> turn[q].calls]
                      ELSE Flipping(turn[q].calls, left))
  /\ UNCHANGED <<rows, next, requests, faults, historyVars>>

\* pausedRunHistory, of which maybeCompact may keep the end only.
Reload(q) ==
  /\ At(q, "reload")
  /\ \E first \in rows :
       /\ \A p \in LastUser(rows) : p <= first.at
       /\ Goes(q, [at |-> "resume", calls |-> turn[q].calls,
                   history |-> {r \in rows : r.at >= first.at}])
  /\ UNCHANGED <<Tables, requests>>

\* Calls of a history that no message of it answers.
Unanswered(S) == CallsIn(S) \ UNION {r.calls : r \in Of(S, "tool")}

\* The payload of a message as mustJSON writes it, and as the column data (jsonb)
\* prints it, with a space after every colon and comma.
Encoded(m) == [spaced |-> FALSE, payload |-> m]
Printed(m) == [spaced |-> TRUE, payload |-> m]

\* The replayed messages that are no stored row's payload.
Unknown(history) ==
  {m \in history \ Of(history, "user") : Encoded(m) \notin {Printed(r) : r \in history}}

\* RunDeferred: answers the decided calls the history leaves unanswered, and goes
\* on; without any, it fails.  What it returns begins with the history.
Resume(q) ==
  /\ At(q, "resume")
  /\ LET history == turn[q].history
         acts    == turn[q].calls \cap Unanswered(history)
         answers == {New(next, "tool", {c}) : c \in acts}
     IN  /\ \/ acts = {} /\ Goes(q, Idle)
            \/ acts # {} /\ \E c \in Continuations(next + 1) :
                 Stores(q, Unknown(history) \cup answers \cup c.todo, c.asks)
         /\ resumed' = resumed \cup acts
         /\ again' = again \cup (acts \cap resumed)
  /\ UNCHANGED <<rows, next, pending, requests, faults, cut, unstored>>

-----------------------------------------------------------------------------
(* Storing what the agent returned.                                        *)

\* Every call of an assistant message gets the id of the row it is stored as.
Renamed(calls) == {<<next, c[2]>> : c \in calls}

\* idMap after message m.
IdsAfter(t, m) ==
  IF m.role # "assistant" THEN t.ids
  ELSE {p \in t.ids : p[1] \notin m.calls} \cup {<<c, <<next, c[2]>>>> : c \in m.calls}

\* Mutant: a call without a stored id gets the map's zero value.
MappedOrZero(ids, c) ==
  {p[2] : p \in {x \in ids : x[1] = c}} \cup IF \E p \in ids : p[1] = c THEN {} ELSE {<<0, 0>>}

\* The id a call has by now: the stored one, or the one it came with.
Mapped(ids, c) == {p[2] : p \in {x \in ids : x[1] = c}} \cup ({c} \ {p[1] : p \in ids})

\* Mutant: the provider's ids are stored.
StoredRaw(t, m) == m.calls

\* The calls of message m as its row holds them.
StoredCalls(t, m) ==
  IF m.role = "assistant" THEN Renamed(m.calls)
  ELSE UNION {IF c \in t.open THEN Mapped(t.ids, c) ELSE {c} : c \in m.calls}

\* unanswered after message m.
OpenAfter(t, m) == IF m.role = "assistant" THEN t.open \cup m.calls ELSE t.open \ m.calls

\* Mutant: the provider's ids are parked.
ToParkRaw(ids, asks) == asks

\* The ids of the calls a run asks for.
ToPark(ids, asks) == UNION {Mapped(ids, c) : c \in asks}

\* After the last row: a run that asks parks its calls.
Stored(q, t) ==
  Goes(q, IF t.todo # {} THEN t
          ELSE IF t.asks = {} THEN Idle
          ELSE [at |-> "park", calls |-> ToPark(t.ids, t.asks)])

First(S) == {m \in S : \A o \in S : m.at <= o.at}

\* persistRunMessages, one row.
Store(q) ==
  /\ At(q, "store")
  /\ \E m \in First(turn[q].todo) :
       /\ Insert(m.role, m.source, StoredCalls(turn[q], m))
       /\ Stored(q, Storing(turn[q].todo \ {m}, IdsAfter(turn[q], m),
                            OpenAfter(turn[q], m), turn[q].asks))
  /\ UNCHANGED <<pending, requests, faults, historyVars>>

\* A row that cannot be inserted ends the storing, not the pause.
StoreFails(q) ==
  /\ At(q, "store") /\ faults < MaxFaults
  /\ faults' = faults + 1 /\ next' = next + 1
  /\ \E m \in First(turn[q].todo) :
       LET t == Storing({}, IdsAfter(turn[q], m), {}, turn[q].asks)
       IN  /\ Stored(q, t)
           /\ unstored' = unstored \cup ToPark(t.ids, t.asks)
  /\ UNCHANGED <<rows, pending, requests, resumed, again, cut>>

\* pauseRun, parkPending: one transaction, whose failure is only logged (Hangup).
Park(q) ==
  /\ At(q, "park")
  /\ pending' = pending \cup turn[q].calls
  /\ Goes(q, Idle)
  /\ UNCHANGED <<rows, next, requests, faults, historyVars>>

\* The client hangs up, the process ends, or a call fails that ends the request.
Hangup(q) ==
  /\ ~ At(q, "idle")
  /\ Goes(q, Idle)
  /\ UNCHANGED <<Tables, requests>>

Next ==
  \E q \in Tabs :
    \/ Send(q) \/ AddPrompt(q)
    \/ (\E u \in rows : Edit(q, u)) \/ EditContent(q)
    \/ Regenerate(q) \/ FindPrompt(q)
    \/ Truncate(q)
    \/ \E m \in rows : DeleteMessage(q, m)
    \/ Run(q)
    \/ Approve(q) \/ Flip(q) \/ Reload(q) \/ Resume(q)
    \/ Store(q) \/ StoreFails(q) \/ Park(q)
    \/ Hangup(q)

Spec == Init /\ [][Next]_vars

-----------------------------------------------------------------------------
(* Properties.                                                             *)

\* Every variable has its type; in particular every id in pending_tool_calls is
\* one that a run gave its call (pauseRun, parkPending).
TypeOK ==
  /\ rows \subseteq Message /\ \A r \in rows : r.at < next
  /\ next \in Nat
  /\ pending \subseteq Calls
  /\ turn \in [Tabs -> Turn]
  /\ requests \in 0 .. MaxRequests /\ faults \in 0 .. MaxFaults
  /\ resumed \subseteq Calls /\ again \subseteq Calls
  /\ cut \subseteq Calls /\ unstored \subseteq Calls

\* A decision makes the agent act once: however two tabs that decide the same
\* calls interleave (handleApprovals), no call is resumed on twice.
ActedOnce == again = {}

\* Call ids are unique in a conversation although the provider's are not
\* (persistRunMessages): each answer belongs to exactly one call, made before it,
\* unless a delete took that call's row away under a run that was being stored.
AnswersHaveTheirCall ==
  \A t \in Of(rows, "tool") :
    \/ t.calls \subseteq cut
    \/ \E a \in Of(rows, "assistant") :
         /\ a.at < t.at /\ t.calls \subseteq a.calls
         /\ \A b \in Of(rows, "assistant") \ {a} : b.calls \cap t.calls = {}

\* What a user is asked to decide is a call the history holds (pauseRun keys it by
\* the id of the stored row), so that the resume finds it; a deleted row and a run
\* whose rows could not be stored are the exceptions.
PendingIsStored == pending \subseteq CallsIn(rows) \cup cut \cup unstored

\* The comment at approvals.go:150: a resume skips the rows that already exist. No
\* message of a run is stored twice.
NoMessageTwice == \A r, s \in rows : r.source = s.source => r = s

-----------------------------------------------------------------------------
(* What is promised: the ledger of the calls that have a stored row's id.  *)
(* (The provider's own ids, parked when a row could not be stored, repeat, *)
(* and no resume finds them.)                                              *)

Own == {c \in Calls : c[1] # 0}

\* The calls a request has decided and not yet resumed the agent on.
Decided(t) ==
  IF t.at = "flip" THEN t.calls \ t.left
  ELSE IF t.at \in {"reload", "resume"} THEN t.calls
  ELSE {}

Granted == UNION {Decided(turn[q]) : q \in Tabs}

Ledger == INSTANCE ApprovalLedger
  WITH asked <- pending \cap Own, granted <- Granted \cap Own, acted <- resumed

\* However requests that park, decide, resume and hang up interleave
\* (handleApprovals, RunDeferred), every call is asked for, decided and acted on at
\* most once and in this order.
KeepsLedger == Ledger!Spec
=============================================================================
