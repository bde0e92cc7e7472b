-------------------------- MODULE ChatTurnsProofs --------------------------
(* Proofs about the chat turns, for every value of their constants. *)
EXTENDS ChatTurns, TLAPS

USE ConstantsAssumption

\* The calls of rows there are or were.
Seen == CallsIn(rows) \cup cut

\* A call's id names the row it was stored as, and rows are told by their number.
RowsNumbered ==
  /\ next >= 1
  /\ \A r \in rows : r.at > 0
  /\ \A r, s \in rows : r.at = s.at => r = s
  /\ \A a \in Of(rows, "assistant") : \A c \in a.calls : c[1] = a.at
  /\ \A c \in Seen : 0 < c[1] /\ c[1] < next

\* A tool row answers one call, of an earlier row.
AnswersSeen ==
  \A t \in Of(rows, "tool") : \E c \in Seen : t.calls = {c} /\ c[1] < t.at

\* The ids an idMap knows, and those it gives.
Names(ids)   == {p[1] : p \in ids}
Targets(ids) == {p[2] : p \in ids}

\* A run that stores its messages: the ids it mapped are stored, what a tool
\* message answers is or will be mapped, or is an id already; so are the calls
\* it asks for, which are the provider's.
Storable(todo, ids, open, asks, seen) ==
  /\ \A p, r \in ids : p[1] = r[1] => p = r
  /\ Targets(ids) \subseteq seen
  /\ open \subseteq Names(ids)
  /\ \A m \in Of(todo, "tool") : \E c \in m.calls :
       /\ m.calls = {c}
       /\ \/ c \in open \cup seen
          \/ \E a \in Of(todo, "assistant") : a.at < m.at /\ c \in a.calls
  /\ \A m, n \in Of(todo, "tool") : m.calls = n.calls => m = n \/ m.calls \subseteq seen
  /\ \A m \in todo : m.role # "user"
  /\ asks \subseteq Names(ids) \cup CallsIn(todo)
  /\ asks \cap Own = {}

\* What a handler holds comes from rows that are or were there.
Ready(t, seen, excused) ==
  /\ t.at = "resume" =>
       /\ CallsIn(t.history) \subseteq seen
       /\ \A m \in Of(t.history, "tool") : \E c \in seen : m.calls = {c}
  /\ t.at = "store" => Storable(t.todo, t.ids, t.open, t.asks, seen)
  /\ t.at = "park" => t.calls \subseteq seen \cup excused

\* Every handler is ready.
AllReady == \A q \in Tabs : Ready(turn[q], Seen, unstored)

\* The calls a handler alone may still park or resume on.
Mine(t) ==
  IF t.at = "store" THEN Targets(t.ids)
  ELSE IF t.at = "flip" THEN t.calls \ t.left
  ELSE IF t.at \in {"park", "reload", "resume"} THEN t.calls
  ELSE {}

\* A stored id is with one handler, or pending, or was resumed on.
OneHolder ==
  /\ \A q \in Tabs : \A c \in Mine(turn[q]) \cap Own :
       /\ c \notin pending \cup resumed
       /\ \A p \in Tabs : c \in Mine(turn[p]) => p = q
  /\ pending \cap resumed \cap Own = {}
  /\ \A c \in pending \cup resumed : c[1] < next
  /\ \A q \in Tabs : \A c \in Mine(turn[q]) : c[1] < next

\* The inductive invariant.
IInv ==
  /\ TypeOK
  /\ RowsNumbered
  /\ AnswersSeen
  /\ AllReady
  /\ PendingIsStored
  /\ OneHolder
  /\ ActedOnce

-----------------------------------------------------------------------------
(* What the operators return.                                              *)

\* The fields of a handler's record.
LEMMA TurnForms ==
  ASSUME NEW t \in Turn
  PROVE  /\ t.at \in {"edit", "resend", "truncate"} => t.after \in Nat
         /\ t.at = "flip" => t.calls \subseteq Calls /\ t.left \subseteq Calls /\ t.left \subseteq t.calls
         /\ t.at \in {"park", "reload", "resume"} => t.calls \subseteq Calls
         /\ t.at = "resume" => t.history \subseteq Message
         /\ t.at = "store" => /\ t.todo \subseteq Message
                              /\ t.ids \subseteq Calls \X Calls
                              /\ t.open \subseteq Calls
                              /\ t.asks \subseteq Calls
  BY DEF Turn, Idle

\* Each form is a handler's.
LEMMA TurnsMade ==
  /\ Idle \in Turn
  /\ \A site \in {"prompt", "look", "run"} : [at |-> site] \in Turn
  /\ \A site \in {"edit", "resend", "truncate"}, p \in Nat : [at |-> site, after |-> p] \in Turn
  /\ \A site \in {"reload", "park"}, S \in SUBSET Calls : [at |-> site, calls |-> S] \in Turn
  /\ \A S, L \in SUBSET Calls : L \subseteq S => Flipping(S, L) \in Turn
  /\ \A S \in SUBSET Calls, H \in SUBSET Message :
       [at |-> "resume", calls |-> S, history |-> H] \in Turn
  /\ \A M \in SUBSET Message, ids \in SUBSET (Calls \X Calls), open, asks \in SUBSET Calls :
       Storing(M, ids, open, asks) \in Turn
  BY DEF Turn, Flipping, Storing

\* The provider's ids are no row's, and an id is a pair.
LEMMA RawCalls ==
  /\ \A j \in 1 .. MaxCalls : Raw(j) \in Calls \ Own
  /\ 1 \in 1 .. MaxCalls
  /\ \A c \in Calls : c[1] \in Nat /\ c[2] \in 1 .. MaxCalls /\ c = <<c[1], c[2]>>
  BY DEF Raw, Calls, Own, MaxCalls

\* A message the agent adds is a message.
LEMMA NewMessage ==
  ASSUME NEW n \in Nat, NEW role \in {"user", "assistant", "tool"}, NEW calls \in SUBSET Calls
  PROVE  New(n, role, calls) \in Message
  BY DEF New, Message

\* An answer or a question is one new message.
LEMMA EndForms ==
  ASSUME NEW n \in Nat, NEW e \in Ends(n)
  PROVE  /\ e = [todo |-> e.todo, asks |-> e.asks]
         /\ \A m \in e.todo : m \in Message /\ m.role = "assistant" /\ m.at = n
         /\ e.asks \subseteq CallsIn(e.todo)
         /\ e.asks \subseteq Calls \ Own
<1>1. CASE e = Answer(n)
  BY <1>1, NewMessage DEF Answer, New, CallsIn, Of
<1>2. ASSUME NEW j \in 1 .. MaxCalls, e = Ask(n, {Raw(i) : i \in 1 .. j})
      PROVE  /\ e = [todo |-> e.todo, asks |-> e.asks]
             /\ \A m \in e.todo : m \in Message /\ m.role = "assistant" /\ m.at = n
             /\ e.asks \subseteq CallsIn(e.todo)
             /\ e.asks \subseteq Calls \ Own
  <2> DEFINE S == {Raw(i) : i \in 1 .. j}
  <2>1. S \subseteq Calls \ Own
    <3>1. 1 .. j \subseteq 1 .. MaxCalls
      BY DEF MaxCalls
    <3> QED
      BY <3>1, RawCalls
  <2> HIDE DEF S
  <2>2. e = [todo |-> {New(n, "assistant", S)}, asks |-> S]
    BY <1>2 DEF Ask, S
  <2>3. New(n, "assistant", S) \in Message
    BY <2>1, NewMessage
  <2> QED
    BY <2>1, <2>2, <2>3 DEF New, CallsIn, Of
<1> QED
  BY <1>1, <1>2 DEF Ends

\* What the agent adds: a tool message answers the provider's first call, made by
\* an earlier message, and there is at most one.
LEMMA ContinuationForms ==
  ASSUME NEW n \in Nat, NEW c \in Continuations(n)
  PROVE  /\ c.todo \subseteq Message
         /\ \A m \in c.todo : m.role # "user" /\ m.at >= n
         /\ \A m \in Of(c.todo, "tool") :
              /\ m.calls = {Raw(1)}
              /\ \E a \in Of(c.todo, "assistant") : a.at < m.at /\ Raw(1) \in a.calls
         /\ \A m, k \in Of(c.todo, "tool") : m = k
         /\ c.asks \subseteq CallsIn(c.todo)
         /\ c.asks \subseteq Calls \ Own
<1> DEFINE Good(d) ==
      /\ d.todo \subseteq Message
      /\ \A m \in d.todo : m.role # "user" /\ m.at >= n
      /\ \A m \in Of(d.todo, "tool") :
           /\ m.calls = {Raw(1)}
           /\ \E a \in Of(d.todo, "assistant") : a.at < m.at /\ Raw(1) \in a.calls
      /\ \A m, k \in Of(d.todo, "tool") : m = k
      /\ d.asks \subseteq CallsIn(d.todo)
      /\ d.asks \subseteq Calls \ Own
<1>1. ASSUME NEW e \in Ends(n) PROVE Good(e)
  BY <1>1, EndForms DEF Of
<1>2. Good([todo |-> {}, asks |-> {}])
  BY DEF Of, CallsIn
<1> DEFINE ask == New(n, "assistant", {Raw(1)})  answer == New(n + 1, "tool", {Raw(1)})
<1>3. /\ Exchange(n) = {ask, answer}
      /\ Exchange(n) \subseteq Message
      /\ ask.at = n /\ ask.role = "assistant" /\ ask.calls = {Raw(1)}
      /\ answer.at = n + 1 /\ answer.role = "tool" /\ answer.calls = {Raw(1)}
  BY RawCalls, NewMessage DEF Exchange, New
<1> HIDE DEF ask, answer
<1>4. Good([todo |-> Exchange(n), asks |-> {}])
  BY <1>3 DEF Of, CallsIn
<1>5. ASSUME NEW e \in Ends(n + 2) PROVE Good([e EXCEPT !.todo = @ \cup Exchange(n)])
  <2> DEFINE d == [e EXCEPT !.todo = @ \cup Exchange(n)]
  <2>1. /\ e = [todo |-> e.todo, asks |-> e.asks]
        /\ \A m \in e.todo : m \in Message /\ m.role = "assistant" /\ m.at = n + 2
        /\ e.asks \subseteq CallsIn(e.todo)
        /\ e.asks \subseteq Calls \ Own
    BY EndForms
  <2>2. d.todo = e.todo \cup Exchange(n) /\ d.asks = e.asks
    BY <2>1
  <2> HIDE DEF d
  <2>3. Of(d.todo, "tool") = {answer}
    BY <1>3, <2>1, <2>2 DEF Of
  <2>4. ask \in Of(d.todo, "assistant")
    BY <1>3, <2>2 DEF Of
  <2>5. CallsIn(e.todo) \subseteq CallsIn(d.todo)
    BY <2>2 DEF CallsIn, Of
  <2>6. d.todo \subseteq Message /\ \A m \in d.todo : m.role # "user" /\ m.at >= n
    <3>1. ask.role # "user" /\ answer.role # "user" /\ ask.at >= n /\ answer.at >= n
      BY <1>3
    <3> QED
      BY <1>3, <2>1, <2>2, <3>1
  <2>7. ask.at < answer.at /\ Raw(1) \in ask.calls /\ answer.calls = {Raw(1)}
    BY <1>3
  <2>8. Good(d)
    BY <2>1, <2>2, <2>3, <2>4, <2>5, <2>6, <2>7
  <2> QED
    BY <2>8 DEF d
<1>6. Good(c)
  <2> HIDE DEF Good
  <2> QED
    BY <1>1, <1>2, <1>4, <1>5 DEF Continuations
<1> QED
  BY <1>6

-----------------------------------------------------------------------------
(* Storing one message.                                                    *)

\* What an id is mapped to is a stored id or the id itself.
LEMMA MappedCalls ==
  ASSUME NEW ids \in SUBSET (Calls \X Calls), NEW c \in Calls
  PROVE  /\ Mapped(ids, c) \subseteq Targets(ids) \cup {c}
         /\ c \in Names(ids) => Mapped(ids, c) \subseteq Targets(ids)
         /\ c \notin Names(ids) => Mapped(ids, c) = {c}
         /\ (\A p, r \in ids : p[1] = r[1] => p = r) => \E d \in Calls : Mapped(ids, c) = {d}
<1>1. ASSUME c \notin Names(ids) PROVE Mapped(ids, c) = {c}
  BY <1>1 DEF Mapped, Names
<1>2. ASSUME NEW p \in ids, p[1] = c, \A s, r \in ids : s[1] = r[1] => s = r
      PROVE  Mapped(ids, c) = {p[2]} /\ p[2] \in Calls
  BY <1>2 DEF Mapped
<1>3. c \in Names(ids) => \E p \in ids : p[1] = c
  BY DEF Names
<1>4. c \in Names(ids) => Mapped(ids, c) \subseteq Targets(ids)
  BY DEF Mapped, Names, Targets
<1> QED
  BY <1>1, <1>2, <1>3, <1>4

\* What a run parks: the ids its calls were stored under.
LEMMA ParkedCalls ==
  ASSUME NEW ids \in SUBSET (Calls \X Calls), NEW asks \in SUBSET Calls
  PROVE  /\ ToPark(ids, asks) \subseteq Targets(ids) \cup asks
         /\ ToPark(ids, asks) \subseteq Calls
         /\ asks \subseteq Names(ids) => ToPark(ids, asks) \subseteq Targets(ids)
<1>1. Targets(ids) \subseteq Calls
  BY DEF Targets
<1>2. \A c \in asks : /\ Mapped(ids, c) \subseteq Targets(ids) \cup {c}
                      /\ c \in Names(ids) => Mapped(ids, c) \subseteq Targets(ids)
  BY MappedCalls
<1> QED
  BY <1>1, <1>2 DEF ToPark

\* The ids a row gives to its calls, and idMap after it.
LEMMA IdsAdded ==
  ASSUME NEW t \in Turn, t.at = "store", NEW m \in t.todo, next \in Nat
  PROVE  /\ m \in Message
         /\ Renamed(m.calls) \subseteq Calls
         /\ \A c \in Renamed(m.calls) : c[1] = next
         /\ IdsAfter(t, m) \subseteq Calls \X Calls
         /\ OpenAfter(t, m) \subseteq Calls
         /\ m.role # "assistant" => IdsAfter(t, m) = t.ids
         /\ m.role = "assistant" =>
              /\ Targets(IdsAfter(t, m)) \subseteq Targets(t.ids) \cup Renamed(m.calls)
              /\ Names(IdsAfter(t, m)) = Names(t.ids) \cup m.calls
              /\ (\A p, r \in t.ids : p[1] = r[1] => p = r)
                   => \A p, r \in IdsAfter(t, m) : p[1] = r[1] => p = r
<1>1. m \in Message /\ m.calls \subseteq Calls
  BY TurnForms DEF Message
<1>2. /\ Renamed(m.calls) \subseteq Calls
      /\ \A c \in Renamed(m.calls) : c[1] = next
  BY <1>1 DEF Renamed, Calls
<1>3. OpenAfter(t, m) \subseteq Calls
  BY <1>1, TurnForms DEF OpenAfter
<1> DEFINE kept  == {p \in t.ids : p[1] \notin m.calls}
           added == {<<c, <<next, c[2]>>>> : c \in m.calls}
<1>4. /\ kept \subseteq t.ids /\ \A p \in kept : p[1] \notin m.calls
      /\ \A p \in t.ids : p[1] \in m.calls \/ p \in kept
      /\ t.ids \subseteq Calls \X Calls
  BY TurnForms
<1>5. /\ \A p \in added : p[1] \in m.calls /\ p = <<p[1], <<next, p[1][2]>>>>
      /\ \A p \in added : p[2] \in Renamed(m.calls)
      /\ \A c \in m.calls : <<c, <<next, c[2]>>>> \in added
  BY DEF Renamed
<1>6. added \subseteq Calls \X Calls
  BY <1>1, <1>2, <1>5
<1>7. m.role = "assistant" => IdsAfter(t, m) = kept \cup added
  BY DEF IdsAfter
<1>8. m.role # "assistant" => IdsAfter(t, m) = t.ids
  BY DEF IdsAfter
<1> HIDE DEF kept, added
<1>9. IdsAfter(t, m) \subseteq Calls \X Calls
  BY <1>4, <1>6, <1>7, <1>8
<1>10. Targets(kept \cup added) \subseteq Targets(t.ids) \cup Renamed(m.calls)
  BY <1>4, <1>5 DEF Targets
<1>11. Names(kept \cup added) = Names(t.ids) \cup m.calls
  <2>1. Names(kept \cup added) \subseteq Names(t.ids) \cup m.calls
    BY <1>4, <1>5 DEF Names
  <2>2. Names(t.ids) \subseteq Names(kept \cup added)
    <3>1. ASSUME NEW p \in t.ids PROVE p[1] \in Names(kept \cup added)
      <4>1. CASE p \in kept
        BY <4>1 DEF Names
      <4>2. CASE p[1] \in m.calls
        <5>1. <<p[1], <<next, p[1][2]>>>> \in added
          BY <4>2, <1>5
        <5> QED
          BY <5>1 DEF Names
      <4> QED
        BY <4>1, <4>2, <1>4
    <3> QED
      BY <3>1 DEF Names
  <2>3. m.calls \subseteq Names(kept \cup added)
    <3>1. ASSUME NEW c \in m.calls PROVE c \in Names(kept \cup added)
      <4>1. <<c, <<next, c[2]>>>> \in added
        BY <1>5
      <4> QED
        BY <4>1 DEF Names
    <3> QED
      BY <3>1
  <2> QED
    BY <2>1, <2>2, <2>3
<1>12. ASSUME \A p, r \in t.ids : p[1] = r[1] => p = r
       PROVE  \A p, r \in kept \cup added : p[1] = r[1] => p = r
  BY <1>12, <1>4, <1>5
<1> QED
  BY <1>1, <1>2, <1>3, <1>7, <1>8, <1>9, <1>10, <1>11, <1>12

\* The calls of the new row: of an assistant, the new ids; of a tool, the id of
\* a call that was seen.
LEMMA RowCalls ==
  ASSUME NEW t \in Turn, t.at = "store", NEW m \in First(t.todo), next \in Nat,
         NEW seen \in SUBSET Calls, Storable(t.todo, t.ids, t.open, t.asks, seen)
  PROVE  /\ m \in t.todo /\ m.role # "user"
         /\ StoredCalls(t, m) \subseteq Calls
         /\ m.role = "assistant" => StoredCalls(t, m) = Renamed(m.calls)
         /\ m.role = "tool" => \E c \in seen : StoredCalls(t, m) = {c}
<1>1. m \in t.todo /\ \A o \in t.todo : m.at <= o.at
  BY DEF First
<1>2. m \in Message /\ Renamed(m.calls) \subseteq Calls /\ m.role # "user"
  BY <1>1, IdsAdded DEF Storable
<1>3. m.role = "assistant" => StoredCalls(t, m) = Renamed(m.calls)
  BY DEF StoredCalls
<1>4. ASSUME m.role = "tool" PROVE \E c \in seen : StoredCalls(t, m) = {c}
  <2>1. PICK c \in m.calls :
          /\ m.calls = {c}
          /\ \/ c \in t.open \cup seen
             \/ \E a \in Of(t.todo, "assistant") : a.at < m.at /\ c \in a.calls
    BY <1>1, <1>4 DEF Storable, Of
  <2>2. c \in t.open \cup seen
    <3>1. \A a \in t.todo : a \in Message /\ a.at \in Nat /\ m.at \in Nat
      BY <1>2, TurnForms DEF Message
    <3> QED
      BY <1>1, <2>1, <3>1 DEF Of
  <2>3. StoredCalls(t, m) = IF c \in t.open THEN Mapped(t.ids, c) ELSE {c}
    BY <1>4, <2>1 DEF StoredCalls
  <2>4. c \in Calls
    BY <1>2, <2>1 DEF Message
  <2>5. ASSUME c \in t.open PROVE \E d \in seen : Mapped(t.ids, c) = {d}
    <3>1. c \in Names(t.ids) /\ Targets(t.ids) \subseteq seen
      BY <2>5 DEF Storable
    <3>2. \E d \in Calls : Mapped(t.ids, c) = {d}
      BY <2>4, MappedCalls, TurnForms DEF Storable
    <3>3. Mapped(t.ids, c) \subseteq Targets(t.ids)
      BY <2>4, <3>1, MappedCalls, TurnForms
    <3> QED
      BY <3>1, <3>2, <3>3
  <2> QED
    BY <2>2, <2>3, <2>5
<1>5. StoredCalls(t, m) \subseteq Calls
  <2>1. m.role \in {"assistant", "tool"}
    BY <1>2 DEF Message
  <2> QED
    BY <1>2, <1>3, <1>4, <2>1
<1> QED
  BY <1>1, <1>2, <1>3, <1>4, <1>5

\* The rest of the messages can be stored after the first.
LEMMA StoreStep ==
  ASSUME NEW t \in Turn, t.at = "store", NEW m \in First(t.todo), next \in Nat,
         NEW seen \in SUBSET Calls, Storable(t.todo, t.ids, t.open, t.asks, seen),
         NEW more \in SUBSET Calls, seen \subseteq more,
         m.role = "assistant" => Renamed(m.calls) \subseteq more
  PROVE  Storable(t.todo \ {m}, IdsAfter(t, m), OpenAfter(t, m), t.asks, more)
<1> DEFINE rest == t.todo \ {m}  ids == IdsAfter(t, m)  open == OpenAfter(t, m)
<1>1. m \in t.todo /\ m \in Message /\ m.role # "user"
  BY IdsAdded, RowCalls DEF First
<1>2. /\ \A p, r \in ids : p[1] = r[1] => p = r
      /\ Targets(ids) \subseteq more
  <2>1. m.role = "assistant" \/ ids = t.ids
    BY <1>1, IdsAdded
  <2> QED
    BY <1>1, <2>1, IdsAdded DEF Storable
<1>3. open \subseteq Names(ids)
  BY <1>1, IdsAdded DEF Storable, OpenAfter
<1>4. ASSUME NEW k \in Of(rest, "tool")
      PROVE  \E c \in k.calls :
               /\ k.calls = {c}
               /\ \/ c \in open \cup more
                  \/ \E a \in Of(rest, "assistant") : a.at < k.at /\ c \in a.calls
  <2>1. k \in Of(t.todo, "tool") /\ k # m
    BY DEF Of
  <2>2. PICK c \in k.calls :
          /\ k.calls = {c}
          /\ \/ c \in t.open \cup seen
             \/ \E a \in Of(t.todo, "assistant") : a.at < k.at /\ c \in a.calls
    BY <2>1 DEF Storable
  <2>3. CASE c \in seen
    BY <2>2, <2>3
  <2>4. CASE c \in t.open /\ c \notin seen
    <3>1. CASE m.role = "assistant"
      BY <2>2, <2>4, <3>1 DEF OpenAfter
    <3>2. CASE m.role = "tool"
      <4>1. m \in Of(t.todo, "tool")
        BY <1>1, <3>2 DEF Of
      <4>2. m.calls # k.calls
        BY <2>1, <2>2, <2>4, <4>1 DEF Storable
      <4>3. PICK d \in m.calls : m.calls = {d}
        BY <4>1 DEF Storable
      <4>4. c \in open
        BY <2>2, <2>4, <3>2, <4>2, <4>3 DEF OpenAfter
      <4> QED
        BY <2>2, <4>4
    <3> QED
      BY <1>1, <3>1, <3>2 DEF Message
  <2>5. CASE \E a \in Of(t.todo, "assistant") : a.at < k.at /\ c \in a.calls
    <3>1. PICK a \in Of(t.todo, "assistant") : a.at < k.at /\ c \in a.calls
      BY <2>5
    <3>2. CASE a = m
      BY <2>2, <3>1, <3>2 DEF OpenAfter, Of
    <3>3. CASE a # m
      <4>1. a \in Of(rest, "assistant")
        BY <3>1, <3>3 DEF Of
      <4> QED
        BY <2>2, <3>1, <4>1
    <3> QED
      BY <3>2, <3>3
  <2> QED
    BY <2>2, <2>3, <2>4, <2>5
<1>5. \A k, n \in Of(rest, "tool") : k.calls = n.calls => k = n \/ k.calls \subseteq more
  BY DEF Storable, Of
<1>6. \A k \in rest : k.role # "user"
  BY DEF Storable
<1>7. t.asks \subseteq Names(ids) \cup CallsIn(rest)
  <2>1. Names(t.ids) \subseteq Names(ids)
    BY <1>1, IdsAdded
  <2>2. ASSUME NEW a \in Of(t.todo, "assistant")
        PROVE  a.calls \subseteq Names(ids) \cup CallsIn(rest)
    <3>1. CASE a = m
      BY <1>1, <2>2, <3>1, IdsAdded DEF Of
    <3>2. CASE a # m
      <4>1. a \in Of(rest, "assistant")
        BY <2>2, <3>2 DEF Of
      <4> QED
        BY <4>1 DEF CallsIn
    <3> QED
      BY <3>1, <3>2
  <2>3. CallsIn(t.todo) \subseteq Names(ids) \cup CallsIn(rest)
    BY <2>2 DEF CallsIn
  <2> QED
    BY <2>1, <2>3 DEF Storable
<1>8. t.asks \cap Own = {}
  BY DEF Storable
<1> HIDE DEF rest, ids, open
<1>9. Storable(rest, ids, open, t.asks, more)
  BY <1>2, <1>3, <1>4, <1>5, <1>6, <1>7, <1>8 DEF Storable
<1> QED
  BY <1>9 DEF rest, ids, open

-----------------------------------------------------------------------------
(* Types.                                                                  *)

\* The calls of messages are calls.
LEMMA CallsTyped ==
  ASSUME NEW S \in SUBSET Message
  PROVE  CallsIn(S) \subseteq Calls
  BY DEF CallsIn, Of, Message

\* A handler goes from one form to another, and the other handlers stay.
LEMMA Going ==
  ASSUME turn \in [Tabs -> Turn], NEW q \in Tabs, NEW t \in Turn, Goes(q, t)
  PROVE  /\ turn' \in [Tabs -> Turn]
         /\ turn'[q] = t
         /\ \A p \in Tabs \ {q} : turn'[p] = turn[p]
  BY DEF Goes

\* Where a handler goes that stored its messages, or some of them.
LEMMA StoredForms ==
  ASSUME NEW q \in Tabs, NEW todo \in SUBSET Message, NEW ids \in SUBSET (Calls \X Calls),
         NEW open \in SUBSET Calls, NEW asks \in SUBSET Calls,
         Stored(q, Storing(todo, ids, open, asks))
  PROVE  \E t \in Turn :
           /\ Goes(q, t)
           /\ \/ t = Storing(todo, ids, open, asks)
              \/ t = Idle
              \/ todo = {} /\ t = [at |-> "park", calls |-> ToPark(ids, asks)]
<1> DEFINE t == IF todo # {} THEN Storing(todo, ids, open, asks)
                ELSE IF asks = {} THEN Idle
                ELSE [at |-> "park", calls |-> ToPark(ids, asks)]
<1>1. Goes(q, t)
  BY DEF Stored, Storing
<1>2. t \in Turn
  BY TurnsMade, ParkedCalls
<1> QED
  BY <1>1, <1>2

\* Where a handler goes with what the agent returned.
LEMMA StoresForms ==
  ASSUME NEW q \in Tabs, NEW todo \in SUBSET Message, NEW asks \in SUBSET Calls,
         Stores(q, todo, asks)
  PROVE  \E t \in Turn : Goes(q, t) /\ t \in {Idle, Storing(todo, {}, {}, asks)}
<1> DEFINE t == IF todo = {} THEN Idle ELSE Storing(todo, {}, {}, asks)
<1>1. Goes(q, t)
  BY DEF Stores
<1>2. t \in Turn
  BY TurnsMade
<1> QED
  BY <1>1, <1>2

\* The messages a resumed run returns.
LEMMA ResumedMessages ==
  ASSUME NEW H \in SUBSET Message, NEW acts \in SUBSET Calls, next \in Nat,
         NEW c \in Continuations(next + 1)
  PROVE  /\ {New(next, "tool", {d}) : d \in acts} \subseteq Message
         /\ Unknown(H) \subseteq H \ Of(H, "user")
         /\ Unknown(H) \cup {New(next, "tool", {d}) : d \in acts} \cup c.todo \subseteq Message
<1>1. \A d \in acts : New(next, "tool", {d}) \in Message
  BY NewMessage
<1>2. Unknown(H) \subseteq H \ Of(H, "user")
  BY DEF Unknown
<1>3. c.todo \subseteq Message
  BY ContinuationForms
<1> QED
  BY <1>1, <1>2, <1>3

\* An insert keeps the types.
LEMMA InsertTyped ==
  ASSUME TypeOK, NEW role \in {"user", "assistant", "tool"}, NEW source \in Nat,
         NEW calls \in SUBSET Calls, Insert(role, source, calls)
  PROVE  /\ rows' \subseteq Message /\ \A r \in rows' : r.at < next'
         /\ next' \in Nat
<1> DEFINE new == [at |-> next, role |-> role,
                   source |-> IF source = 0 THEN next ELSE source, calls |-> calls]
<1>1. new \in Message /\ new.at = next
  BY DEF Message, TypeOK
<1>2. rows' = rows \cup {new} /\ next' = next + 1
  BY DEF Insert
<1> HIDE DEF new
<1>3. \A r \in rows : r.at \in Nat /\ r.at < next
  BY DEF TypeOK, Message
<1> QED
  BY <1>1, <1>2, <1>3 DEF TypeOK

\* A delete keeps the types.
LEMMA DeleteTyped ==
  ASSUME TypeOK, NEW p \in Nat, DeleteFrom(p)
  PROVE  /\ rows' \subseteq rows
         /\ cut' \subseteq Calls
         /\ UNCHANGED <<next, pending, faults, resumed, again, unstored>>
<1>1. CallsIn({r \in rows : r.at >= p}) \subseteq Calls
  BY CallsTyped DEF TypeOK
<1> QED
  BY <1>1 DEF TypeOK, DeleteFrom

\* Every step keeps the types (TypeOK).
LEMMA Typed ==
  ASSUME TypeOK, [Next]_vars
  PROVE  TypeOK'
<1> USE DEF TypeOK
<1>0. CASE UNCHANGED vars
  BY <1>0 DEF vars, historyVars
<1>q. SUFFICES ASSUME NEW q \in Tabs,
                 \/ Send(q) \/ AddPrompt(q)
                 \/ (\E u \in rows : Edit(q, u)) \/ EditContent(q)
                 \/ Regenerate(q) \/ FindPrompt(q)
                 \/ Truncate(q)
                 \/ \E m \in rows : DeleteMessage(q, m)
                 \/ Run(q)
                 \/ Approve(q) \/ Flip(q) \/ Reload(q) \/ Resume(q)
                 \/ Store(q) \/ StoreFails(q) \/ Park(q)
                 \/ Hangup(q)
          PROVE TypeOK'
  BY <1>0 DEF Next
<1> DEFINE Same == UNCHANGED <<rows, next, pending, faults, resumed, again, cut, unstored>>
<1>t. turn[q] \in Turn /\ \A r \in rows : r \in Message /\ r.at \in Nat
  BY DEF Message
\* A step of a handler alone.
<1>s. ASSUME Same, requests' \in 0 .. MaxRequests, NEW t \in Turn, Goes(q, t) PROVE TypeOK'
  <2>1. turn' \in [Tabs -> Turn]
    BY <1>s, Going
  <2> QED
    BY <1>s, <2>1
<1>a. ASSUME Asked(q) PROVE requests' \in 0 .. MaxRequests
  BY <1>a DEF Asked
<1>1. CASE Send(q)
  BY <1>1, <1>s, <1>a, TurnsMade DEF Send, Tables, historyVars
<1>2. CASE AddPrompt(q)
  <2>1. turn' \in [Tabs -> Turn]
    BY <1>2, Going, TurnsMade DEF AddPrompt
  <2>2. Insert("user", 0, {}) /\ UNCHANGED <<pending, requests, faults, resumed, again, cut, unstored>>
    BY <1>2 DEF AddPrompt, historyVars
  <2> QED
    BY <2>1, <2>2, InsertTyped
<1>3. CASE \E u \in rows : Edit(q, u)
  <2>1. PICK u \in rows : Edit(q, u)
    BY <1>3
  <2>2. [at |-> "edit", after |-> u.at] \in Turn
    BY <1>t, TurnsMade
  <2> QED
    BY <2>1, <2>2, <1>s, <1>a DEF Edit, Tables, historyVars
<1>4. CASE EditContent(q)
  <2>1. turn[q].after \in Nat
    BY <1>4, <1>t, TurnForms DEF EditContent, At
  <2> DEFINE t == IF \E r \in rows : r.at = turn[q].after
                  THEN [at |-> "resend", after |-> turn[q].after] ELSE Idle
  <2>2. t \in Turn
    BY <2>1, TurnsMade
  <2>3. Goes(q, t) /\ Same /\ requests' = requests
    BY <1>4 DEF EditContent, Tables, historyVars
  <2> HIDE DEF t
  <2> QED
    BY <2>2, <2>3, <1>s
<1>5. CASE Regenerate(q)
  BY <1>5, <1>s, <1>a, TurnsMade DEF Regenerate, Tables, historyVars
<1>6. CASE FindPrompt(q)
  <2>1. Same /\ requests' = requests
    BY <1>6 DEF FindPrompt, Tables, historyVars
  <2>2. \A p \in LastUser(rows) : p \in Nat
    BY <1>t DEF LastUser, Of
  <2>3. ASSUME NEW p \in LastUser(rows), Goes(q, [at |-> "truncate", after |-> p]) PROVE TypeOK'
    <3>1. [at |-> "truncate", after |-> p] \in Turn
      BY <2>2, TurnsMade
    <3> QED
      BY <2>1, <2>3, <3>1, <1>s
  <2>4. ASSUME Goes(q, Idle) PROVE TypeOK'
    BY <2>1, <2>4, <1>s, TurnsMade
  <2> QED
    BY <1>6, <2>3, <2>4 DEF FindPrompt
<1>7. CASE Truncate(q)
  <2> DEFINE t == IF At(q, "truncate") \/ \E r \in rows : r.at = turn[q].after
                  THEN [at |-> "run"] ELSE Idle
  <2>t. t \in Turn /\ Goes(q, t)
    BY <1>7, TurnsMade DEF Truncate
  <2>1. turn' \in [Tabs -> Turn]
    <3> HIDE DEF t
    <3> QED
      BY <2>t, Going
  <2>2. turn[q].after + 1 \in Nat /\ DeleteFrom(turn[q].after + 1) /\ requests' = requests
    BY <1>7, <1>t, TurnForms DEF Truncate, At
  <2> QED
    BY <2>1, <2>2, DeleteTyped
<1>8. CASE \E m \in rows : DeleteMessage(q, m)
  <2>1. PICK m \in rows : DeleteMessage(q, m)
    BY <1>8
  <2>2. m.at \in Nat /\ DeleteFrom(m.at) /\ turn' = turn /\ requests' \in 0 .. MaxRequests
    BY <2>1, <1>t, <1>a DEF DeleteMessage
  <2> QED
    BY <2>2, DeleteTyped
<1>9. CASE Run(q)
  <2>1. PICK c \in Continuations(1) : Stores(q, c.todo, c.asks)
    BY <1>9 DEF Run
  <2>2. c.todo \subseteq Message /\ c.asks \subseteq Calls
    BY ContinuationForms
  <2>3. Same /\ requests' = requests
    BY <1>9 DEF Run, Tables, historyVars
  <2> QED
    BY <2>1, <2>2, <2>3, <1>s, StoresForms
<1>10. CASE Approve(q)
  BY <1>10, <1>s, <1>a, TurnsMade DEF Approve, Tables, historyVars
<1>11. CASE Flip(q)
  <2>1. turn[q].calls \subseteq Calls /\ turn[q].left \subseteq turn[q].calls
    BY <1>11, <1>t, TurnForms DEF Flip, At
  <2>2. PICK c \in turn[q].left :
          /\ pending' = pending \ {c}
          /\ Goes(q, IF c \notin pending THEN Idle
                     ELSE IF turn[q].left \ {c} = {} THEN [at |-> "reload", calls |-> turn[q].calls]
                     ELSE Flipping(turn[q].calls, turn[q].left \ {c}))
    BY <1>11 DEF Flip
  <2>3. (IF c \notin pending THEN Idle
         ELSE IF turn[q].left \ {c} = {} THEN [at |-> "reload", calls |-> turn[q].calls]
         ELSE Flipping(turn[q].calls, turn[q].left \ {c})) \in Turn
    BY <2>1, TurnsMade
  <2>4. turn' \in [Tabs -> Turn]
    BY <2>2, <2>3, Going
  <2>5. UNCHANGED <<rows, next, requests, faults, resumed, again, cut, unstored>>
    BY <1>11 DEF Flip, historyVars
  <2> QED
    BY <2>2, <2>4, <2>5
<1>12. CASE Reload(q)
  <2>1. PICK first \in rows :
          Goes(q, [at |-> "resume", calls |-> turn[q].calls,
                   history |-> {r \in rows : r.at >= first.at}])
    BY <1>12 DEF Reload
  <2>2. turn[q].calls \subseteq Calls
    BY <1>12, <1>t, TurnForms DEF Reload, At
  <2>3. [at |-> "resume", calls |-> turn[q].calls,
         history |-> {r \in rows : r.at >= first.at}] \in Turn
    BY <2>2, <1>t, TurnsMade
  <2>4. Same /\ requests' = requests
    BY <1>12 DEF Reload, Tables, historyVars
  <2> QED
    BY <2>1, <2>3, <2>4, <1>s
<1>13. CASE Resume(q)
  <2> DEFINE H == turn[q].history
             acts == turn[q].calls \cap Unanswered(H)
             answers == {New(next, "tool", {c}) : c \in acts}
  <2>1. H \subseteq Message /\ acts \subseteq Calls
    BY <1>13, <1>t, TurnForms DEF Resume, At
  <2>2. /\ \/ Goes(q, Idle)
           \/ \E c \in Continuations(next + 1) : Stores(q, Unknown(H) \cup answers \cup c.todo, c.asks)
        /\ resumed' = resumed \cup acts
        /\ again' = again \cup (acts \cap resumed)
        /\ UNCHANGED <<rows, next, pending, requests, faults, cut, unstored>>
    BY <1>13 DEF Resume
  <2>3. ASSUME NEW c \in Continuations(next + 1)
        PROVE  Unknown(H) \cup answers \cup c.todo \in SUBSET Message /\ c.asks \in SUBSET Calls
    <3>1. next + 1 \in Nat /\ next \in Nat
      OBVIOUS
    <3>2. c.asks \subseteq Calls
      BY <3>1, ContinuationForms
    <3> HIDE DEF H, acts
    <3>3. Unknown(H) \cup answers \cup c.todo \subseteq Message
      BY <2>1, <3>1, ResumedMessages, Zenon
    <3> QED
      BY <3>2, <3>3
  <2> HIDE DEF H, acts, answers
  <2>4. turn' \in [Tabs -> Turn]
    <3>1. CASE Goes(q, Idle)
      BY <3>1, Going, TurnsMade
    <3>2. ASSUME NEW c \in Continuations(next + 1),
                 Stores(q, Unknown(H) \cup answers \cup c.todo, c.asks)
          PROVE  turn' \in [Tabs -> Turn]
      <4>1. PICK t \in Turn : Goes(q, t)
        BY <2>3, <3>2, StoresForms
      <4> QED
        BY <4>1, Going
    <3> QED
      BY <2>2, <3>1, <3>2
  <2> QED
    BY <2>1, <2>2, <2>4
<1>14. CASE Store(q)
  <2>1. PICK m \in First(turn[q].todo) :
          /\ Insert(m.role, m.source, StoredCalls(turn[q], m))
          /\ Stored(q, Storing(turn[q].todo \ {m}, IdsAfter(turn[q], m),
                               OpenAfter(turn[q], m), turn[q].asks))
    BY <1>14 DEF Store
  <2>2. turn[q].at = "store" /\ m \in turn[q].todo
    BY <1>14 DEF Store, At, First
  <2>3. /\ m \in Message
        /\ IdsAfter(turn[q], m) \subseteq Calls \X Calls
        /\ OpenAfter(turn[q], m) \subseteq Calls
    BY <2>2, IdsAdded
  <2>4. turn[q].asks \subseteq Calls /\ turn[q].todo \ {m} \subseteq Message
    BY <2>2, <1>t, TurnForms
  <2>5. PICK t \in Turn : Goes(q, t)
    BY <2>1, <2>3, <2>4, StoredForms
  <2>6. StoredCalls(turn[q], m) \subseteq Calls
    <3>1. \A c \in m.calls : c \in Calls /\ Mapped(turn[q].ids, c) \subseteq Calls
      <4>1. m.calls \subseteq Calls /\ turn[q].ids \in SUBSET (Calls \X Calls)
        BY <2>2, <2>3, TurnForms DEF Message
      <4>2. Targets(turn[q].ids) \subseteq Calls
        BY <4>1 DEF Targets
      <4> QED
        BY <4>1, <4>2, MappedCalls
    <3>2. Renamed(m.calls) \subseteq Calls
      BY <2>2, IdsAdded
    <3> QED
      BY <3>1, <3>2 DEF StoredCalls
  <2>7. m.role \in {"user", "assistant", "tool"} /\ m.source \in Nat
    BY <2>3 DEF Message
  <2>8. rows' \subseteq Message /\ (\A r \in rows' : r.at < next') /\ next' \in Nat
    BY <2>1, <2>6, <2>7, InsertTyped
  <2>9. turn' \in [Tabs -> Turn]
    BY <2>5, Going
  <2>10. UNCHANGED <<pending, requests, faults, resumed, again, cut, unstored>>
    BY <1>14 DEF Store, historyVars
  <2> QED
    BY <2>8, <2>9, <2>10
<1>15. CASE StoreFails(q)
  <2>1. PICK m \in First(turn[q].todo) :
          /\ Stored(q, Storing({}, IdsAfter(turn[q], m), {}, turn[q].asks))
          /\ unstored' = unstored \cup ToPark(IdsAfter(turn[q], m), turn[q].asks)
    BY <1>15 DEF StoreFails, Storing
  <2>2. turn[q].at = "store" /\ m \in turn[q].todo
    BY <1>15 DEF StoreFails, At, First
  <2>3. IdsAfter(turn[q], m) \subseteq Calls \X Calls /\ turn[q].asks \subseteq Calls
    BY <2>2, IdsAdded, TurnForms
  <2>4. PICK t \in Turn : Goes(q, t)
    BY <2>1, <2>3, StoredForms
  <2>5. turn' \in [Tabs -> Turn]
    BY <2>4, Going
  <2>6. unstored' \subseteq Calls
    BY <2>1, <2>3, ParkedCalls
  <2>7. /\ faults < MaxFaults /\ faults' = faults + 1 /\ next' = next + 1
        /\ UNCHANGED <<rows, pending, requests, resumed, again, cut>>
    BY <1>15 DEF StoreFails
  <2>8. \A r \in rows : r.at < next + 1
    BY <1>t
  <2> QED
    BY <2>5, <2>6, <2>7, <2>8
<1>16. CASE Park(q)
  <2>1. turn[q].calls \subseteq Calls /\ turn' \in [Tabs -> Turn]
    BY <1>16, <1>t, TurnForms, Going, TurnsMade DEF Park, At
  <2> QED
    BY <1>16, <2>1 DEF Park, historyVars
<1>17. CASE Hangup(q)
  BY <1>17, <1>s, TurnsMade DEF Hangup, Tables, historyVars
<1> HIDE DEF Same
<1> QED
  BY <1>q, <1>1, <1>2, <1>3, <1>4, <1>5, <1>6, <1>7, <1>8, <1>9, <1>10, <1>11,
     <1>12, <1>13, <1>14, <1>15, <1>16, <1>17

-----------------------------------------------------------------------------
(* Rows and their numbers.                                                 *)

\* What is said of a row is said of all rows, and of seen calls.
LEMMA InsertNumbered ==
  ASSUME TypeOK, RowsNumbered, AnswersSeen, cut' = cut,
         NEW role \in {"user", "assistant", "tool"}, NEW source \in Nat,
         NEW calls \in SUBSET Calls, Insert(role, source, calls),
         role = "assistant" => \A c \in calls : c[1] = next,
         role = "tool" => \E c \in Seen : calls = {c}
  PROVE  /\ RowsNumbered' /\ AnswersSeen' /\ next' >= next
         /\ Seen \subseteq Seen'
         /\ role = "assistant" => calls \subseteq Seen'
<1> DEFINE new == [at |-> next, role |-> role,
                   source |-> IF source = 0 THEN next ELSE source, calls |-> calls]
<1>1. new.at = next /\ new.role = role /\ new.calls = calls
  OBVIOUS
<1>2. rows' = rows \cup {new} /\ next' = next + 1
  BY DEF Insert
<1> HIDE DEF new
<1>3. next \in Nat /\ next >= 1 /\ \A r \in rows : r.at \in Nat /\ r.at < next
  BY DEF TypeOK, Message, RowsNumbered
<1>4. CallsIn(rows') = CallsIn(rows) \cup (IF role = "assistant" THEN calls ELSE {})
  BY <1>1, <1>2 DEF CallsIn, Of
<1>5. Seen \subseteq Seen' /\ (role = "assistant" => calls \subseteq Seen')
  BY <1>4 DEF Seen
<1>6. RowsNumbered'
  <2>1. (next >= 1)' /\ (\A r \in rows : r.at > 0)'
    BY <1>1, <1>2, <1>3 DEF RowsNumbered
  <2>2. (\A r, s \in rows : r.at = s.at => r = s)'
    BY <1>1, <1>2, <1>3 DEF RowsNumbered
  <2>3. (\A a \in Of(rows, "assistant") : \A c \in a.calls : c[1] = a.at)'
    BY <1>1, <1>2 DEF RowsNumbered, Of
  <2>4. (\A c \in Seen : 0 < c[1] /\ c[1] < next)'
    <3>1. ASSUME NEW c \in Seen' PROVE c \in Seen \/ c[1] = next
      BY <1>4, <3>1 DEF Seen
    <3>2. \A c \in Seen : c[1] \in Nat
      BY CallsTyped, RawCalls DEF Seen, TypeOK
    <3>3. ASSUME NEW c \in Seen' PROVE 0 < c[1] /\ c[1] < next + 1
      <4>1. CASE c \in Seen
        BY <1>3, <3>2, <4>1 DEF RowsNumbered
      <4>2. CASE c[1] = next
        BY <1>3, <4>2
      <4> QED
        BY <3>1, <3>3, <4>1, <4>2
    <3> QED
      BY <1>2, <3>3
  <2> QED
    BY <2>1, <2>2, <2>3, <2>4 DEF RowsNumbered
<1>7. AnswersSeen'
  <2>1. ASSUME NEW t \in Of(rows', "tool") PROVE \E c \in Seen' : t.calls = {c} /\ c[1] < t.at
    <3>1. CASE t = new
      BY <1>1, <1>5, <2>1, <3>1 DEF RowsNumbered, Of
    <3>2. CASE t \in rows
      <4>1. t \in Of(rows, "tool")
        BY <2>1, <3>2 DEF Of
      <4> QED
        BY <4>1, <1>5 DEF AnswersSeen
    <3> QED
      BY <1>2, <2>1, <3>1, <3>2 DEF Of
  <2> QED
    BY <2>1 DEF AnswersSeen
<1>8. next' >= next
  BY <1>2, <1>3
<1> QED
  BY <1>5, <1>6, <1>7, <1>8

\* A delete keeps what is said of rows, and puts the calls that go into cut.
LEMMA DeleteNumbered ==
  ASSUME TypeOK, RowsNumbered, AnswersSeen, NEW p \in Nat, DeleteFrom(p)
  PROVE  /\ RowsNumbered' /\ AnswersSeen' /\ next' >= next
         /\ Seen \subseteq Seen'
<1>1. /\ rows' = {r \in rows : r.at < p}
      /\ cut' = cut \cup CallsIn({r \in rows : r.at >= p})
      /\ next' = next /\ next \in Nat
  BY DEF DeleteFrom, TypeOK
<1>2. \A r \in rows : r.at \in Nat
  BY DEF TypeOK, Message
<1>3. CallsIn(rows) = CallsIn(rows') \cup CallsIn({r \in rows : r.at >= p})
  <2>1. rows = rows' \cup {r \in rows : r.at >= p}
    BY <1>1, <1>2
  <2> HIDE <1>1
  <2> DEFINE above == {r \in rows : r.at >= p}
  <2>2. rows = rows' \cup above
    BY <2>1
  <2> HIDE DEF above
  <2>3. CallsIn(rows) = CallsIn(rows') \cup CallsIn(above)
    BY <2>2 DEF CallsIn, Of
  <2> QED
    BY <2>3 DEF above
<1>4. Seen' = Seen
  BY <1>1, <1>3 DEF Seen
<1>5. rows' \subseteq rows
  BY <1>1
<1>6. RowsNumbered'
  BY <1>1, <1>4, <1>5 DEF RowsNumbered, Of
<1>7. AnswersSeen'
  BY <1>4, <1>5 DEF AnswersSeen, Of
<1> QED
  BY <1>1, <1>4, <1>6, <1>7

\* So does a step that leaves the table alone.
LEMMA NumberedKept ==
  ASSUME TypeOK, RowsNumbered, AnswersSeen, UNCHANGED <<rows, cut>>,
         next' \in Nat, next' >= next
  PROVE  RowsNumbered' /\ AnswersSeen' /\ Seen' = Seen
<1>1. Seen' = Seen
  BY DEF Seen
<1>2. \A c \in Seen : c[1] \in Nat
  BY CallsTyped, RawCalls DEF Seen, TypeOK
<1>3. next \in Nat
  BY DEF TypeOK
<1> QED
  BY <1>1, <1>2, <1>3 DEF RowsNumbered, AnswersSeen, Of

-----------------------------------------------------------------------------
(* What handlers hold.                                                     *)

\* A handler stays ready as more calls are seen and excused.
LEMMA ReadyGrows ==
  ASSUME NEW t, NEW seen, NEW excused, NEW more, NEW excuses,
         Ready(t, seen, excused), seen \subseteq more, excused \subseteq excuses
  PROVE  Ready(t, more, excuses)
<1>1. t.at = "store" /\ Storable(t.todo, t.ids, t.open, t.asks, seen)
        => Storable(t.todo, t.ids, t.open, t.asks, more)
  BY DEF Storable
<1> QED
  BY <1>1 DEF Ready

\* Forms that hold nothing to store.
LEMMA EasilyReady ==
  ASSUME NEW t, NEW seen, NEW excused, t.at \notin {"resume", "store", "park"}
  PROVE  Ready(t, seen, excused)
  BY DEF Ready

\* When a handler that stores is ready.
LEMMA StoringReady ==
  ASSUME NEW todo, NEW ids, NEW open, NEW asks, NEW seen, NEW excused,
         Storable(todo, ids, open, asks, seen)
  PROVE  Ready(Storing(todo, ids, open, asks), seen, excused)
  BY DEF Ready, Storing

\* With one handler moving, the others stay ready.
LEMMA OthersReady ==
  ASSUME AllReady, Seen \subseteq Seen', unstored \subseteq unstored',
         turn \in [Tabs -> Turn], NEW q \in Tabs, NEW t \in Turn, Goes(q, t),
         Ready(t, Seen', unstored')
  PROVE  AllReady'
<1>1. ASSUME NEW p \in Tabs PROVE Ready(turn'[p], Seen', unstored')
  <2>1. CASE p = q
    BY <2>1, Going
  <2>2. CASE p # q
    BY <2>2, Going, ReadyGrows DEF AllReady
  <2> QED
    BY <2>1, <2>2
<1> QED
  BY <1>1 DEF AllReady

\* The handler with messages a run returned: what it adds, the answers of a
\* resume and the history it was resumed on.
LEMMA ReturnedReady ==
  ASSUME NEW n \in Nat, NEW c \in Continuations(n), NEW old \in SUBSET Message,
         NEW seen \in SUBSET Calls,
         \A m \in old : m.role # "user",
         \A m \in Of(old, "tool") : \E d \in seen : m.calls = {d}
  PROVE  Storable(old \cup c.todo, {}, {}, c.asks, seen)
<1> DEFINE todo == old \cup c.todo
<1>1. /\ c.todo \subseteq Message
      /\ \A m \in c.todo : m.role # "user" /\ m.at >= n
      /\ \A m \in Of(c.todo, "tool") :
           /\ m.calls = {Raw(1)}
           /\ \E a \in Of(c.todo, "assistant") : a.at < m.at /\ Raw(1) \in a.calls
      /\ \A m, k \in Of(c.todo, "tool") : m = k
      /\ c.asks \subseteq CallsIn(c.todo)
      /\ c.asks \subseteq Calls \ Own
  BY ContinuationForms
<1>2. \A m \in Of(todo, "tool") : m \in Of(old, "tool") \/ m \in Of(c.todo, "tool")
  BY DEF Of
<1>3. Of(c.todo, "assistant") \subseteq Of(todo, "assistant")
  BY DEF Of
<1>4. CallsIn(c.todo) \subseteq CallsIn(todo)
  BY <1>3 DEF CallsIn
<1>5. Targets({}) = {} /\ Names({}) = {}
  BY DEF Targets, Names
<1>6. \A m \in todo : m.role # "user"
  BY <1>1
<1> HIDE DEF todo
<1>7. ASSUME NEW m \in Of(todo, "tool")
      PROVE  \E d \in m.calls :
               /\ m.calls = {d}
               /\ \/ d \in {} \cup seen
                  \/ \E a \in Of(todo, "assistant") : a.at < m.at /\ d \in a.calls
  <2>1. CASE m \in Of(old, "tool")
    BY <2>1
  <2>2. CASE m \in Of(c.todo, "tool")
    BY <1>1, <1>3, <2>2
  <2> QED
    BY <1>2, <2>1, <2>2
<1>8. \A m, k \in Of(todo, "tool") : m.calls = k.calls => m = k \/ m.calls \subseteq seen
  <2>1. ASSUME NEW m \in Of(todo, "tool"), NEW k \in Of(todo, "tool"), m.calls = k.calls
        PROVE  m = k \/ m.calls \subseteq seen
    <3>1. CASE m \in Of(old, "tool")
      BY <3>1
    <3>2. CASE k \in Of(old, "tool")
      BY <2>1, <3>2
    <3>3. CASE m \in Of(c.todo, "tool") /\ k \in Of(c.todo, "tool")
      BY <1>1, <3>3
    <3> QED
      BY <1>2, <3>1, <3>2, <3>3
  <2> QED
    BY <2>1
<1>9. c.asks \subseteq Names({}) \cup CallsIn(todo) /\ c.asks \cap Own = {}
  BY <1>1, <1>4
<1>10. Storable(todo, {}, {}, c.asks, seen)
  BY <1>5, <1>6, <1>7, <1>8, <1>9 DEF Storable
<1> QED
  BY <1>10 DEF todo

\* What the handler of q may do.
Handled(q) ==
  \/ Send(q) \/ AddPrompt(q)
  \/ (\E u \in rows : Edit(q, u)) \/ EditContent(q)
  \/ Regenerate(q) \/ FindPrompt(q)
  \/ Truncate(q)
  \/ \E m \in rows : DeleteMessage(q, m)
  \/ Run(q)
  \/ Approve(q) \/ Flip(q) \/ Reload(q) \/ Resume(q)
  \/ Store(q) \/ StoreFails(q) \/ Park(q)
  \/ Hangup(q)

\* Calls seen stay seen, and what is held or pending is of those.
LEMMA Held ==
  ASSUME TypeOK, RowsNumbered, AnswersSeen, AllReady, PendingIsStored, [Next]_vars
  PROVE  RowsNumbered' /\ AnswersSeen' /\ AllReady' /\ PendingIsStored'
<1> DEFINE Goal == RowsNumbered' /\ AnswersSeen' /\ AllReady' /\ PendingIsStored'
<1>t. /\ turn \in [Tabs -> Turn] /\ \A p \in Tabs : turn[p] \in Turn
      /\ next \in Nat
      /\ \A r \in rows : r \in Message /\ r.at \in Nat
      /\ Seen \subseteq Calls
  BY CallsTyped DEF TypeOK, Message, Seen
<1>r. ASSUME NEW p \in Tabs PROVE Ready(turn[p], Seen, unstored)
  BY DEF AllReady
<1>p. ASSUME Seen \subseteq Seen', unstored \subseteq unstored', pending' \subseteq pending
      PROVE  PendingIsStored'
  BY <1>p DEF PendingIsStored, Seen
\* The tables stay.
<1>k. ASSUME UNCHANGED <<rows, next, cut>>
      PROVE  RowsNumbered' /\ AnswersSeen' /\ Seen' = Seen
  BY <1>k, <1>t, NumberedKept
<1>0. CASE UNCHANGED vars
  <2>1. UNCHANGED <<rows, next, pending, turn, cut, unstored>>
    BY <1>0 DEF vars, historyVars
  <2>2. RowsNumbered' /\ AnswersSeen' /\ Seen' = Seen
    BY <2>1, <1>k
  <2>3. AllReady'
    BY <2>1, <2>2 DEF AllReady
  <2> QED
    BY <2>1, <2>2, <2>3, <1>p
<1>q. SUFFICES ASSUME NEW q \in Tabs, Handled(q) PROVE Goal
  BY <1>0 DEF Next, Handled
\* A step of a handler alone, to a form that is ready.
<1>s. ASSUME UNCHANGED <<rows, next, cut, unstored>>, pending' \subseteq pending,
             NEW t \in Turn, Goes(q, t), Ready(t, Seen, unstored)
      PROVE  Goal
  <2>1. RowsNumbered' /\ AnswersSeen' /\ Seen' = Seen
    BY <1>s, <1>k
  <2>2. AllReady'
    BY <1>s, <1>t, <2>1, OthersReady
  <2> QED
    BY <1>s, <2>1, <2>2, <1>p
<1>e. ASSUME UNCHANGED <<rows, next, cut, unstored>>, pending' \subseteq pending,
             NEW t \in Turn, Goes(q, t), t.at \notin {"resume", "store", "park"}
      PROVE  Goal
  BY <1>e, <1>s, EasilyReady
<1>i. Idle \in Turn /\ Idle.at = "idle"
  BY TurnsMade DEF Idle
\* Rows are deleted.
<1>d. ASSUME NEW p \in Nat, DeleteFrom(p), NEW t \in Turn, Goes(q, t),
             t.at \notin {"resume", "store", "park"}
      PROVE  Goal
  <2>1. RowsNumbered' /\ AnswersSeen' /\ Seen \subseteq Seen'
    BY <1>d, DeleteNumbered
  <2>2. pending' = pending /\ unstored' = unstored
    BY <1>d DEF DeleteFrom
  <2>3. AllReady'
    BY <1>d, <1>t, <2>1, <2>2, OthersReady, EasilyReady
  <2> QED
    BY <2>1, <2>2, <2>3, <1>p
<1> HIDE DEF Goal
<1>1. CASE Send(q)
  BY <1>1, <1>e, TurnsMade DEF Send, Tables, historyVars
<1>2. CASE AddPrompt(q)
  <2>1. /\ Insert("user", 0, {}) /\ cut' = cut
        /\ Goes(q, [at |-> "run"])
        /\ UNCHANGED <<pending, unstored>>
    BY <1>2 DEF AddPrompt, historyVars
  <2>2. RowsNumbered' /\ AnswersSeen' /\ Seen \subseteq Seen'
    BY <2>1, InsertNumbered
  <2>3. Ready([at |-> "run"], Seen', unstored')
    BY EasilyReady
  <2>4. AllReady'
    BY <2>1, <2>2, <2>3, <1>t, OthersReady, TurnsMade
  <2> QED
    BY <2>1, <2>2, <2>4, <1>p DEF Goal
<1>3. CASE \E u \in rows : Edit(q, u)
  <2>1. PICK u \in rows : Edit(q, u)
    BY <1>3
  <2>2. [at |-> "edit", after |-> u.at] \in Turn
    BY <1>t, TurnsMade
  <2> QED
    BY <2>1, <2>2, <1>e DEF Edit, Tables, historyVars
<1>4. CASE EditContent(q)
  <2>1. turn[q].after \in Nat
    BY <1>4, <1>t, TurnForms DEF EditContent, At
  <2>2. UNCHANGED <<rows, next, cut, unstored>> /\ pending' \subseteq pending
    BY <1>4 DEF EditContent, Tables, historyVars
  <2>3. CASE Goes(q, [at |-> "resend", after |-> turn[q].after])
    BY <2>1, <2>2, <2>3, <1>e, TurnsMade
  <2>4. CASE Goes(q, Idle)
    BY <2>2, <2>4, <1>e, <1>i
  <2> QED
    BY <1>4, <2>3, <2>4 DEF EditContent
<1>5. CASE Regenerate(q)
  BY <1>5, <1>e, TurnsMade DEF Regenerate, Tables, historyVars
<1>6. CASE FindPrompt(q)
  <2>1. UNCHANGED <<rows, next, cut, unstored>> /\ pending' \subseteq pending
    BY <1>6 DEF FindPrompt, Tables, historyVars
  <2>2. \A p \in LastUser(rows) : p \in Nat
    BY <1>t DEF LastUser, Of
  <2>3. ASSUME NEW p \in LastUser(rows), Goes(q, [at |-> "truncate", after |-> p]) PROVE Goal
    BY <2>1, <2>2, <2>3, <1>e, TurnsMade
  <2>4. CASE Goes(q, Idle)
    BY <2>1, <2>4, <1>e, <1>i
  <2> QED
    BY <1>6, <2>3, <2>4 DEF FindPrompt
<1>7. CASE Truncate(q)
  <2>1. turn[q].after + 1 \in Nat /\ DeleteFrom(turn[q].after + 1)
    BY <1>7, <1>t, TurnForms DEF Truncate, At
  <2>2. CASE Goes(q, [at |-> "run"])
    BY <2>1, <2>2, <1>d, TurnsMade
  <2>3. CASE Goes(q, Idle)
    BY <2>1, <2>3, <1>d, <1>i
  <2> QED
    BY <1>7, <2>2, <2>3 DEF Truncate
<1>8. CASE \E m \in rows : DeleteMessage(q, m)
  <2>1. PICK m \in rows : DeleteMessage(q, m)
    BY <1>8
  <2>2. DeleteFrom(m.at) /\ turn' = turn /\ At(q, "idle")
    BY <2>1 DEF DeleteMessage, Asked
  <2>3. Goes(q, turn[q])
    BY <2>2, <1>t DEF Goes
  <2> QED
    BY <2>2, <2>3, <1>t, <1>d DEF At
<1>9. CASE Run(q)
  <2>1. PICK c \in Continuations(1) : Stores(q, c.todo, c.asks)
    BY <1>9 DEF Run
  <2>2. c.todo \subseteq Message /\ c.asks \subseteq Calls
    BY ContinuationForms
  <2>3. PICK t \in Turn : Goes(q, t) /\ t \in {Idle, Storing(c.todo, {}, {}, c.asks)}
    BY <2>1, <2>2, StoresForms
  <2>4. Storable({} \cup c.todo, {}, {}, c.asks, Seen)
    BY <1>t, ReturnedReady DEF Of
  <2>5. Ready(t, Seen, unstored)
    BY <2>3, <2>4 DEF Ready, Storing, Idle
  <2>6. UNCHANGED <<rows, next, cut, unstored>> /\ pending' \subseteq pending
    BY <1>9 DEF Run, Tables, historyVars
  <2> QED
    BY <2>3, <2>5, <2>6, <1>s
<1>10. CASE Approve(q)
  <2>1. Flipping(pending, pending) \in Turn /\ Flipping(pending, pending).at = "flip"
    BY TurnsMade DEF TypeOK, Flipping
  <2> QED
    BY <1>10, <2>1, <1>e DEF Approve, Tables, historyVars
<1>11. CASE Flip(q)
  <2>1. turn[q].calls \subseteq Calls /\ turn[q].left \subseteq turn[q].calls
    BY <1>11, <1>t, TurnForms DEF Flip, At
  <2>2. PICK c \in turn[q].left :
          /\ pending' = pending \ {c}
          /\ Goes(q, IF c \notin pending THEN Idle
                     ELSE IF turn[q].left \ {c} = {} THEN [at |-> "reload", calls |-> turn[q].calls]
                     ELSE Flipping(turn[q].calls, turn[q].left \ {c}))
    BY <1>11 DEF Flip
  <2> DEFINE t == IF c \notin pending THEN Idle
                  ELSE IF turn[q].left \ {c} = {} THEN [at |-> "reload", calls |-> turn[q].calls]
                  ELSE Flipping(turn[q].calls, turn[q].left \ {c})
  <2>3. t \in Turn
    BY <2>1, TurnsMade
  <2>4. t.at \notin {"resume", "store", "park"}
    BY DEF Idle, Flipping
  <2>5. UNCHANGED <<rows, next, cut, unstored>> /\ pending' \subseteq pending /\ Goes(q, t)
    BY <1>11, <2>2 DEF Flip, historyVars
  <2> HIDE DEF t
  <2> QED
    BY <2>3, <2>4, <2>5, <1>e
<1>12. CASE Reload(q)
  <2>1. PICK first \in rows :
          Goes(q, [at |-> "resume", calls |-> turn[q].calls,
                   history |-> {r \in rows : r.at >= first.at}])
    BY <1>12 DEF Reload
  <2> DEFINE H == {r \in rows : r.at >= first.at}
             t == [at |-> "resume", calls |-> turn[q].calls, history |-> H]
  <2>2. t \in Turn
    <3>1. turn[q].calls \subseteq Calls
      BY <1>12, <1>t, TurnForms DEF Reload, At
    <3> QED
      BY <3>1, <1>t, TurnsMade
  <2>3. H \subseteq rows /\ t.at = "resume" /\ t.history = H
    OBVIOUS
  <2> HIDE DEF H
  <2>4. CallsIn(H) \subseteq Seen
    BY <2>3 DEF Seen, CallsIn, Of
  <2>5. \A m \in Of(H, "tool") : \E c \in Seen : m.calls = {c}
    BY <2>3 DEF AnswersSeen, Of
  <2>6. Ready(t, Seen, unstored)
    BY <2>3, <2>4, <2>5 DEF Ready
  <2>7. UNCHANGED <<rows, next, cut, unstored>> /\ pending' \subseteq pending /\ Goes(q, t)
    BY <1>12, <2>1 DEF Reload, Tables, historyVars, H
  <2> HIDE DEF t
  <2> QED
    BY <2>2, <2>6, <2>7, <1>s
<1>13. CASE Resume(q)
  <2> DEFINE H == turn[q].history
             acts == turn[q].calls \cap Unanswered(H)
             answers == {New(next, "tool", {c}) : c \in acts}
  <2>1. turn[q].at = "resume" /\ H \subseteq Message /\ acts \subseteq Calls /\ acts \subseteq CallsIn(H)
    BY <1>13, <1>t, TurnForms DEF Resume, At, Unanswered
  <2>2. /\ \/ Goes(q, Idle)
           \/ \E c \in Continuations(next + 1) : Stores(q, Unknown(H) \cup answers \cup c.todo, c.asks)
        /\ UNCHANGED <<rows, next, cut, unstored>> /\ pending' \subseteq pending
    BY <1>13 DEF Resume
  <2>3. /\ CallsIn(H) \subseteq Seen
        /\ \A m \in Of(H, "tool") : \E c \in Seen : m.calls = {c}
    BY <2>1, <1>r DEF Ready
  <2>4. /\ \A m \in answers : m \in Message /\ m.role = "tool" /\ \E c \in Seen : m.calls = {c}
    <3>1. \A c \in acts : c \in Seen /\ c \in Calls
      BY <2>1, <2>3
    <3> HIDE DEF acts
    <3>2. \A c \in acts : New(next, "tool", {c}) \in Message
      BY <1>t, <3>1, NewMessage
    <3> QED
      BY <3>1, <3>2 DEF New
  <2>5. Unknown(H) \subseteq H \ Of(H, "user")
    BY DEF Unknown
  <2> HIDE DEF H, acts, answers
  <2> DEFINE old == Unknown(H) \cup answers
  <2>6. /\ old \in SUBSET Message
        /\ \A m \in old : m.role # "user"
        /\ \A m \in Of(old, "tool") : \E d \in Seen : m.calls = {d}
    BY <2>1, <2>3, <2>4, <2>5 DEF Of
  <2> HIDE DEF old
  <2>7. ASSUME NEW c \in Continuations(next + 1), Stores(q, old \cup c.todo, c.asks)
        PROVE  Goal
    <3>1. next + 1 \in Nat
      BY <1>t
    <3>2. old \cup c.todo \subseteq Message /\ c.asks \subseteq Calls
      BY <2>6, <3>1, ContinuationForms
    <3>3. PICK t \in Turn : Goes(q, t) /\ t \in {Idle, Storing(old \cup c.todo, {}, {}, c.asks)}
      BY <2>7, <3>2, StoresForms
    <3>4. Storable(old \cup c.todo, {}, {}, c.asks, Seen)
      BY <1>t, <2>6, <3>1, ReturnedReady
    <3>5. Ready(t, Seen, unstored)
      BY <3>3, <3>4, <1>i, EasilyReady, StoringReady
    <3> QED
      BY <2>2, <3>3, <3>5, <1>s
  <2>8. CASE Goes(q, Idle)
    BY <2>2, <2>8, <1>e, <1>i
  <2> QED
    BY <2>2, <2>7, <2>8 DEF old
<1>14. CASE Store(q)
  <2>1. PICK m \in First(turn[q].todo) :
          /\ Insert(m.role, m.source, StoredCalls(turn[q], m))
          /\ Stored(q, Storing(turn[q].todo \ {m}, IdsAfter(turn[q], m),
                               OpenAfter(turn[q], m), turn[q].asks))
    BY <1>14 DEF Store
  <2> DEFINE t == turn[q]  rest == t.todo \ {m}  ids == IdsAfter(t, m)  open == OpenAfter(t, m)
  <2>2. /\ t \in Turn /\ t.at = "store" /\ m \in t.todo
        /\ UNCHANGED <<pending, cut, unstored>>
    BY <1>14, <1>t DEF Store, At, First, historyVars
  <2>3. Storable(t.todo, t.ids, t.open, t.asks, Seen)
    BY <2>2, <1>r DEF Ready
  <2>4. /\ m \in Message /\ m.role # "user"
        /\ StoredCalls(t, m) \subseteq Calls
        /\ m.role = "assistant" => StoredCalls(t, m) = Renamed(m.calls)
        /\ m.role = "tool" => \E c \in Seen : StoredCalls(t, m) = {c}
    <3>1. m \in Message
      BY <2>2, <1>t, IdsAdded
    <3>2. m \in First(t.todo)
      BY <2>1
    <3> HIDE DEF t
    <3> QED
      BY <2>2, <2>3, <3>1, <3>2, <1>t, RowCalls
  <2>5. \A c \in Renamed(m.calls) : c[1] = next
    BY <2>2, <1>t, IdsAdded
  <2>6. m.role \in {"user", "assistant", "tool"} /\ m.source \in Nat
    BY <2>4 DEF Message
  <2>7. /\ RowsNumbered' /\ AnswersSeen' /\ Seen \subseteq Seen'
        /\ m.role = "assistant" => Renamed(m.calls) \subseteq Seen'
    BY <2>1, <2>2, <2>4, <2>5, <2>6, InsertNumbered
  <2>8. Seen' \subseteq Calls
    <3>1. TypeOK'
      BY Typed
    <3> QED
      BY <3>1, CallsTyped DEF TypeOK, Seen
  <2>9. Storable(rest, ids, open, t.asks, Seen')
    BY <2>2, <2>3, <2>7, <2>8, <1>t, StoreStep
  <2>10. /\ rest \subseteq Message /\ ids \subseteq Calls \X Calls
         /\ open \subseteq Calls /\ t.asks \subseteq Calls
    BY <2>2, <1>t, TurnForms, IdsAdded
  <2>11. PICK u \in Turn :
           /\ Goes(q, u)
           /\ \/ u = Storing(rest, ids, open, t.asks)
              \/ u = Idle
              \/ rest = {} /\ u = [at |-> "park", calls |-> ToPark(ids, t.asks)]
    BY <2>1, <2>10, StoredForms
  <2> HIDE DEF t, rest, ids, open
  <2>12. Ready(u, Seen', unstored')
    <3>1. CASE u = Storing(rest, ids, open, t.asks)
      BY <2>9, <3>1 DEF Ready, Storing
    <3>2. CASE u = Idle
      BY <3>2, <1>i, EasilyReady
    <3>3. CASE rest = {} /\ u = [at |-> "park", calls |-> ToPark(ids, t.asks)]
      <4>1. t.asks \subseteq Names(ids) /\ Targets(ids) \subseteq Seen'
        BY <2>9, <3>3 DEF Storable, CallsIn, Of
      <4>2. ToPark(ids, t.asks) \subseteq Seen'
        BY <2>10, <4>1, ParkedCalls
      <4> QED
        BY <3>3, <4>2 DEF Ready
    <3> QED
      BY <2>11, <3>1, <3>2, <3>3
  <2>13. AllReady'
    BY <2>2, <2>7, <2>11, <2>12, <1>t, OthersReady
  <2> QED
    BY <2>2, <2>7, <2>13, <1>p DEF Goal
<1>15. CASE StoreFails(q)
  <2>1. PICK m \in First(turn[q].todo) :
          /\ Stored(q, Storing({}, IdsAfter(turn[q], m), {}, turn[q].asks))
          /\ unstored' = unstored \cup ToPark(IdsAfter(turn[q], m), turn[q].asks)
    BY <1>15 DEF StoreFails, Storing
  <2> DEFINE ids == IdsAfter(turn[q], m)  asks == turn[q].asks
  <2>2. turn[q].at = "store" /\ m \in turn[q].todo
    BY <1>15 DEF StoreFails, At, First
  <2>3. ids \subseteq Calls \X Calls /\ asks \subseteq Calls
    BY <2>2, <1>t, IdsAdded, TurnForms
  <2>4. PICK u \in Turn :
          /\ Goes(q, u)
          /\ \/ u = Storing({}, ids, {}, asks)
             \/ u = Idle
             \/ u = [at |-> "park", calls |-> ToPark(ids, asks)]
    BY <2>1, <2>3, StoredForms
  <2>5. u # Storing({}, ids, {}, asks)
    <3>1. Goes(q, IF asks = {} THEN Idle ELSE [at |-> "park", calls |-> ToPark(ids, asks)])
      BY <2>1 DEF Stored, Storing
    <3>2. (IF asks = {} THEN Idle ELSE [at |-> "park", calls |-> ToPark(ids, asks)]) \in Turn
      BY <2>3, TurnsMade, ParkedCalls
    <3>3. u = IF asks = {} THEN Idle ELSE [at |-> "park", calls |-> ToPark(ids, asks)]
      BY <2>4, <3>1, <3>2, <1>t, Going
    <3> QED
      BY <3>3 DEF Idle, Storing
  <2>6. Ready(u, Seen, unstored')
    BY <2>1, <2>4, <2>5 DEF Ready, Idle
  <2>7. next' = next + 1 /\ UNCHANGED <<rows, cut, pending>>
    BY <1>15 DEF StoreFails
  <2>8. RowsNumbered' /\ AnswersSeen' /\ Seen' = Seen
    BY <2>7, <1>t, NumberedKept
  <2>9. unstored \subseteq unstored'
    BY <2>1
  <2>10. AllReady'
    BY <2>4, <2>6, <2>8, <2>9, <1>t, OthersReady
  <2> QED
    BY <2>7, <2>8, <2>9, <2>10, <1>p DEF Goal
<1>16. CASE Park(q)
  <2>1. /\ turn[q].at = "park" /\ pending' = pending \cup turn[q].calls
        /\ Goes(q, Idle) /\ UNCHANGED <<rows, next, cut, unstored>>
    BY <1>16 DEF Park, At, historyVars
  <2>2. turn[q].calls \subseteq Seen \cup unstored
    BY <2>1, <1>r DEF Ready
  <2>3. RowsNumbered' /\ AnswersSeen' /\ Seen' = Seen
    BY <2>1, <1>k
  <2>4. AllReady'
    BY <2>1, <2>3, <1>t, <1>i, OthersReady, EasilyReady
  <2>5. PendingIsStored'
    BY <2>1, <2>2, <2>3 DEF PendingIsStored, Seen
  <2> QED
    BY <2>3, <2>4, <2>5 DEF Goal
<1>17. CASE Hangup(q)
  BY <1>17, <1>e, <1>i DEF Hangup, Tables, historyVars
<1> QED
  BY <1>q, <1>1, <1>2, <1>3, <1>4, <1>5, <1>6, <1>7, <1>8, <1>9, <1>10, <1>11,
     <1>12, <1>13, <1>14, <1>15, <1>16, <1>17 DEF Handled

-----------------------------------------------------------------------------
(* Every stored id has one holder.                                         *)

\* One handler moves: what it holds it held, or it is new, or it was pending.
LEMMA HolderStep ==
  ASSUME TypeOK, OneHolder, NEW q \in Tabs, NEW t \in Turn, Goes(q, t),
         next' >= next, next' \in Nat,
         \A c \in Mine(t) : c[1] < next',
         \A c \in Mine(t) \cap Own :
           /\ c \in Mine(turn[q]) \/ c[1] = next \/ c \in pending
           /\ c \notin pending' \cup resumed',
         \A c \in pending' \cup resumed' : c[1] < next',
         \A c \in (pending' \cup resumed') \cap Own : c \in pending \cup resumed \cup Mine(turn[q]),
         pending' \cap resumed' \cap Own = {}
  PROVE  OneHolder'
<1>t. /\ turn' \in [Tabs -> Turn] /\ turn'[q] = t
      /\ \A p \in Tabs \ {q} : turn'[p] = turn[p]
  BY Going DEF TypeOK
<1>1. ASSUME NEW p \in Tabs, NEW c \in Mine(turn[p]) PROVE c[1] \in Nat /\ next \in Nat /\ c[1] < next
  <2>1. c \in Calls
    <3>1. turn[p] \in Turn
      BY DEF TypeOK
    <3> QED
      BY <1>1, <3>1, TurnForms DEF Mine, Targets
  <2> QED
    BY <1>1, <2>1, RawCalls DEF OneHolder, TypeOK
<1>2. ASSUME NEW p \in Tabs \ {q}, NEW c \in Mine(turn[p]) \cap Own
      PROVE  /\ c \notin pending' \cup resumed'
             /\ c \notin Mine(t)
  <2>1. c \notin pending \cup resumed /\ c \notin Mine(turn[q])
    BY <1>2 DEF OneHolder
  <2>2. c[1] # next
    BY <1>1, <1>2
  <2> QED
    BY <1>2, <2>1, <2>2
<1>3. ASSUME NEW p \in Tabs, NEW c \in Mine(turn'[p]) \cap Own
      PROVE  /\ c \notin pending' \cup resumed'
             /\ \A o \in Tabs : c \in Mine(turn'[o]) => o = p
  <2>1. CASE p = q
    BY <1>t, <1>2, <1>3, <2>1
  <2>2. CASE p # q
    <3>1. c \in Mine(turn[p]) \cap Own
      BY <1>t, <1>3, <2>2
    <3> QED
      BY <1>t, <1>2, <2>2, <3>1 DEF OneHolder
  <2> QED
    BY <2>1, <2>2
<1>4. ASSUME NEW p \in Tabs, NEW c \in Mine(turn'[p]) PROVE c[1] < next'
  <2>1. CASE p = q
    BY <1>t, <1>4, <2>1
  <2>2. CASE p # q
    BY <1>t, <1>1, <1>4, <2>2
  <2> QED
    BY <2>1, <2>2
<1> QED
  BY <1>3, <1>4 DEF OneHolder

\* The ids a handler maps while it stores are its own or new.
LEMMA MinesStored ==
  ASSUME TypeOK, OneHolder, NEW q \in Tabs, turn[q].at = "store",
         NEW m \in turn[q].todo, turn[q].asks \cap Own = {}
  PROVE  /\ \A c \in Targets(IdsAfter(turn[q], m)) :
              c \in Mine(turn[q]) \/ (c[1] = next /\ c \in Calls)
         /\ \A c \in ToPark(IdsAfter(turn[q], m), turn[q].asks) :
              c \in Targets(IdsAfter(turn[q], m)) \/ c \in Calls \ Own
<1>1. turn[q] \in Turn /\ next \in Nat
  BY DEF TypeOK
<1>2. \A c \in Targets(turn[q].ids) : c \in Mine(turn[q])
  BY DEF Mine
<1>3. \A c \in Targets(IdsAfter(turn[q], m)) : c \in Targets(turn[q].ids) \/ c \in Renamed(m.calls)
  BY <1>1, IdsAdded
<1>4. \A c \in Renamed(m.calls) : c[1] = next /\ c \in Calls
  BY <1>1, IdsAdded
<1>5. IdsAfter(turn[q], m) \subseteq Calls \X Calls /\ turn[q].asks \subseteq Calls
  BY <1>1, IdsAdded, TurnForms
<1>6. ToPark(IdsAfter(turn[q], m), turn[q].asks) \subseteq Targets(IdsAfter(turn[q], m)) \cup turn[q].asks
  BY <1>5, ParkedCalls
<1>7. \A c \in turn[q].asks : c \in Calls \ Own
  BY <1>5
<1>8. \A c \in Targets(IdsAfter(turn[q], m)) :
        c \in Mine(turn[q]) \/ (c[1] = next /\ c \in Calls)
  <2>1. ASSUME NEW c \in Targets(IdsAfter(turn[q], m))
        PROVE  c \in Mine(turn[q]) \/ (c[1] = next /\ c \in Calls)
    <3>1. CASE c \in Targets(turn[q].ids)
      BY <1>2, <3>1
    <3>2. CASE c \in Renamed(m.calls)
      BY <1>4, <3>2
    <3> QED
      BY <1>3, <2>1, <3>1, <3>2
  <2> QED
    BY <2>1
<1> QED
  BY <1>6, <1>7, <1>8

\* Every step keeps a stored id with one holder and acted on once (OneHolder, ActedOnce).
LEMMA HoldersKept ==
  ASSUME TypeOK, RowsNumbered, AllReady, OneHolder, ActedOnce, [Next]_vars
  PROVE  OneHolder' /\ ActedOnce'
<1> DEFINE Goal == OneHolder' /\ ActedOnce'
<1>t. /\ turn \in [Tabs -> Turn] /\ \A p \in Tabs : turn[p] \in Turn
      /\ next \in Nat /\ next >= 1
      /\ \A r \in rows : r \in Message /\ r.at \in Nat
      /\ pending \subseteq Calls /\ resumed \subseteq Calls
      /\ Seen \subseteq Calls
  BY CallsTyped DEF TypeOK, Message, Seen, RowsNumbered
<1>h. /\ pending \cap resumed \cap Own = {}
      /\ \A c \in pending \cup resumed : c[1] < next
      /\ \A p \in Tabs : \A c \in Mine(turn[p]) : c[1] < next
      /\ \A p \in Tabs : \A c \in Mine(turn[p]) \cap Own : c \notin pending \cup resumed
  BY DEF OneHolder
<1>c. \A c \in Calls : c[1] \in Nat /\ (c \notin Own => c[1] = 0)
  BY RawCalls DEF Own
<1>0. CASE UNCHANGED vars
  BY <1>0 DEF vars, historyVars, OneHolder, ActedOnce
<1>q. SUFFICES ASSUME NEW q \in Tabs, Handled(q) PROVE Goal
  BY <1>0 DEF Next, Handled
<1>m. \A c \in Mine(turn[q]) : c \in Calls /\ c[1] < next
  <2>1. turn[q] \in Turn
    BY <1>t
  <2>2. \A c \in Mine(turn[q]) : c \in Calls
    BY <2>1, TurnForms DEF Mine, Targets
  <2> QED
    BY <2>2, <1>h
\* A step that neither parks nor decides, to a form that holds no more.
<1>s. ASSUME UNCHANGED <<pending, resumed, again>>, next' \in {next, next + 1},
             NEW t \in Turn, Goes(q, t), Mine(t) \subseteq Mine(turn[q])
      PROVE  Goal
  <2>1. next' \in Nat /\ next' >= next
    BY <1>s, <1>t
  <2>2. \A c \in Mine(t) : c[1] < next'
    BY <1>s, <1>m, <1>t, <1>c, <2>1
  <2>3. \A c \in pending' \cup resumed' : c[1] < next'
    BY <1>s, <1>h, <1>t, <1>c, <2>1
  <2>4. \A c \in Mine(t) \cap Own :
          c \in Mine(turn[q]) /\ c \notin pending' \cup resumed'
    BY <1>s, <1>h
  <2>5. OneHolder'
    BY <1>s, <1>h, <2>1, <2>2, <2>3, <2>4, HolderStep
  <2> QED
    BY <1>s, <2>5 DEF ActedOnce
<1>e. ASSUME UNCHANGED <<pending, resumed, again>>, next' \in {next, next + 1},
             NEW t \in Turn, Goes(q, t), t.at \notin {"store", "flip", "park", "reload", "resume"}
      PROVE  Goal
  <2>1. Mine(t) = {}
    BY <1>e DEF Mine
  <2> QED
    BY <1>e, <2>1, <1>s
<1>i. Idle \in Turn /\ Idle.at = "idle" /\ Mine(Idle) = {}
  BY TurnsMade DEF Idle, Mine
<1> HIDE DEF Goal
<1>1. CASE Send(q)
  BY <1>1, <1>e, TurnsMade DEF Send, Tables, historyVars
<1>2. CASE AddPrompt(q)
  BY <1>2, <1>e, TurnsMade DEF AddPrompt, Insert, historyVars
<1>3. CASE \E u \in rows : Edit(q, u)
  <2>1. PICK u \in rows : Edit(q, u)
    BY <1>3
  <2>2. [at |-> "edit", after |-> u.at] \in Turn
    BY <1>t, TurnsMade
  <2> QED
    BY <2>1, <2>2, <1>e DEF Edit, Tables, historyVars
<1>4. CASE EditContent(q)
  <2>1. turn[q].after \in Nat
    BY <1>4, <1>t, TurnForms DEF EditContent, At
  <2>2. UNCHANGED <<next, pending, resumed, again>>
    BY <1>4 DEF EditContent, Tables, historyVars
  <2>3. CASE Goes(q, [at |-> "resend", after |-> turn[q].after])
    BY <2>1, <2>2, <2>3, <1>e, TurnsMade
  <2>4. CASE Goes(q, Idle)
    BY <2>2, <2>4, <1>e, <1>i
  <2> QED
    BY <1>4, <2>3, <2>4 DEF EditContent
<1>5. CASE Regenerate(q)
  BY <1>5, <1>e, TurnsMade DEF Regenerate, Tables, historyVars
<1>6. CASE FindPrompt(q)
  <2>1. UNCHANGED <<next, pending, resumed, again>>
    BY <1>6 DEF FindPrompt, Tables, historyVars
  <2>2. \A p \in LastUser(rows) : p \in Nat
    BY <1>t DEF LastUser, Of
  <2>3. ASSUME NEW p \in LastUser(rows), Goes(q, [at |-> "truncate", after |-> p]) PROVE Goal
    BY <2>1, <2>2, <2>3, <1>e, TurnsMade
  <2>4. CASE Goes(q, Idle)
    BY <2>1, <2>4, <1>e, <1>i
  <2> QED
    BY <1>6, <2>3, <2>4 DEF FindPrompt
<1>7. CASE Truncate(q)
  <2>1. UNCHANGED <<next, pending, resumed, again>>
    BY <1>7 DEF Truncate, DeleteFrom
  <2>2. CASE Goes(q, [at |-> "run"])
    BY <2>1, <2>2, <1>e, TurnsMade
  <2>3. CASE Goes(q, Idle)
    BY <2>1, <2>3, <1>e, <1>i
  <2> QED
    BY <1>7, <2>2, <2>3 DEF Truncate
<1>8. CASE \E m \in rows : DeleteMessage(q, m)
  <2>1. turn' = turn /\ UNCHANGED <<next, pending, resumed, again>>
    BY <1>8 DEF DeleteMessage, DeleteFrom
  <2> QED
    BY <2>1 DEF OneHolder, ActedOnce, Goal
<1>9. CASE Run(q)
  <2>1. PICK c \in Continuations(1) : Stores(q, c.todo, c.asks)
    BY <1>9 DEF Run
  <2>2. c.todo \subseteq Message /\ c.asks \subseteq Calls
    BY ContinuationForms
  <2>3. PICK t \in Turn : Goes(q, t) /\ t \in {Idle, Storing(c.todo, {}, {}, c.asks)}
    BY <2>1, <2>2, StoresForms
  <2>4. Mine(t) = {}
    BY <2>3, <1>i DEF Mine, Storing, Targets
  <2>5. UNCHANGED <<next, pending, resumed, again>>
    BY <1>9 DEF Run, Tables, historyVars
  <2> QED
    BY <2>3, <2>4, <2>5, <1>s
<1>10. CASE Approve(q)
  <2>1. Flipping(pending, pending) \in Turn
    BY <1>t, TurnsMade
  <2>2. Mine(Flipping(pending, pending)) = {}
    BY DEF Mine, Flipping
  <2> QED
    BY <1>10, <2>1, <2>2, <1>s DEF Approve, Tables, historyVars
<1>11. CASE Flip(q)
  <2>1. /\ turn[q].calls \subseteq Calls /\ turn[q].left \subseteq turn[q].calls
        /\ Mine(turn[q]) = turn[q].calls \ turn[q].left
    BY <1>11, <1>t, TurnForms DEF Flip, At, Mine
  <2>2. PICK c \in turn[q].left :
          /\ pending' = pending \ {c}
          /\ Goes(q, IF c \notin pending THEN Idle
                     ELSE IF turn[q].left \ {c} = {} THEN [at |-> "reload", calls |-> turn[q].calls]
                     ELSE Flipping(turn[q].calls, turn[q].left \ {c}))
    BY <1>11 DEF Flip
  <2> DEFINE t == IF c \notin pending THEN Idle
                  ELSE IF turn[q].left \ {c} = {} THEN [at |-> "reload", calls |-> turn[q].calls]
                  ELSE Flipping(turn[q].calls, turn[q].left \ {c})
  <2>3. t \in Turn /\ Goes(q, t)
    BY <2>1, <2>2, TurnsMade
  <2>4. \A d \in Mine(t) : d \in Mine(turn[q]) \/ (d = c /\ c \in pending)
    <3>1. CASE c \notin pending
      BY <3>1, <1>i
    <3>2. CASE c \in pending /\ turn[q].left \ {c} = {}
      BY <2>1, <3>2 DEF Mine
    <3>3. CASE c \in pending /\ turn[q].left \ {c} # {}
      BY <2>1, <3>3 DEF Mine, Flipping
    <3> QED
      BY <3>1, <3>2, <3>3
  <2>5. UNCHANGED <<next, resumed, again>>
    BY <1>11 DEF Flip, historyVars
  <2> HIDE DEF t
  <2>6. \A d \in Mine(t) : d[1] < next'
    BY <2>4, <2>5, <1>h
  <2>7. \A d \in Mine(t) \cap Own :
          /\ d \in Mine(turn[q]) \/ d[1] = next \/ d \in pending
          /\ d \notin pending' \cup resumed'
    BY <2>2, <2>4, <2>5, <1>h
  <2>8. OneHolder'
    BY <2>2, <2>3, <2>5, <2>6, <2>7, <1>h, <1>t, HolderStep
  <2> QED
    BY <2>5, <2>8 DEF ActedOnce, Goal
<1>12. CASE Reload(q)
  <2>1. PICK first \in rows :
          Goes(q, [at |-> "resume", calls |-> turn[q].calls,
                   history |-> {r \in rows : r.at >= first.at}])
    BY <1>12 DEF Reload
  <2> DEFINE t == [at |-> "resume", calls |-> turn[q].calls,
                   history |-> {r \in rows : r.at >= first.at}]
  <2>2. t \in Turn
    <3>1. turn[q].calls \subseteq Calls
      BY <1>12, <1>t, TurnForms DEF Reload, At
    <3> QED
      BY <3>1, <1>t, TurnsMade
  <2>3. Mine(t) = Mine(turn[q])
    BY <1>12 DEF Mine, Reload, At
  <2>4. UNCHANGED <<next, pending, resumed, again>>
    BY <1>12 DEF Reload, Tables, historyVars
  <2> QED
    BY <2>1, <2>2, <2>3, <2>4, <1>s
<1>13. CASE Resume(q)
  <2> DEFINE H == turn[q].history
             acts == turn[q].calls \cap Unanswered(H)
             answers == {New(next, "tool", {c}) : c \in acts}
  <2>1. /\ turn[q].at = "resume" /\ H \subseteq Message
        /\ acts \subseteq Calls /\ acts \subseteq CallsIn(H)
        /\ acts \subseteq Mine(turn[q])
    BY <1>13, <1>t, TurnForms DEF Resume, At, Unanswered, Mine
  <2>2. /\ \/ Goes(q, Idle)
           \/ \E c \in Continuations(next + 1) : Stores(q, Unknown(H) \cup answers \cup c.todo, c.asks)
        /\ resumed' = resumed \cup acts
        /\ again' = again \cup (acts \cap resumed)
        /\ UNCHANGED <<next, pending>>
    BY <1>13 DEF Resume
  <2>3. acts \subseteq Own
    <3>1. CallsIn(H) \subseteq Seen
      BY <2>1 DEF AllReady, Ready
    <3>2. \A c \in Seen : c \in Calls /\ c[1] # 0
      BY <1>t, <1>c DEF RowsNumbered
    <3> QED
      BY <2>1, <3>1, <3>2 DEF Own
  <2>4. ASSUME NEW c \in Continuations(next + 1)
        PROVE  Unknown(H) \cup answers \cup c.todo \in SUBSET Message /\ c.asks \in SUBSET Calls
    <3>1. next + 1 \in Nat
      BY <1>t
    <3>2. c.asks \subseteq Calls
      BY <3>1, ContinuationForms
    <3> HIDE DEF H, acts
    <3>3. Unknown(H) \cup answers \cup c.todo \subseteq Message
      BY <1>t, <2>1, ResumedMessages, Zenon
    <3> QED
      BY <3>2, <3>3
  <2> HIDE DEF H, acts, answers
  <2>5. PICK t \in Turn : Goes(q, t) /\ Mine(t) = {}
    <3>1. CASE Goes(q, Idle)
      BY <3>1, <1>i
    <3>2. ASSUME NEW c \in Continuations(next + 1),
                 Stores(q, Unknown(H) \cup answers \cup c.todo, c.asks)
          PROVE  \E t \in Turn : Goes(q, t) /\ Mine(t) = {}
      <4> DEFINE todo == Unknown(H) \cup answers \cup c.todo
      <4>1. todo \in SUBSET Message /\ c.asks \in SUBSET Calls /\ Stores(q, todo, c.asks)
        BY <2>4, <3>2
      <4> HIDE DEF todo
      <4>2. PICK t \in Turn : Goes(q, t) /\ t \in {Idle, Storing(todo, {}, {}, c.asks)}
        BY <4>1, StoresForms
      <4>3. Mine(Storing(todo, {}, {}, c.asks)) = {}
        BY DEF Mine, Storing, Targets
      <4> QED
        BY <4>2, <4>3, <1>i
    <3> QED
      BY <2>2, <3>1, <3>2
  <2>6. \A c \in acts : c \notin pending \cup resumed
    BY <2>1, <2>3, <1>h
  <2>7. \A c \in pending' \cup resumed' : c[1] < next'
    BY <2>1, <2>2, <1>h
  <2>8. pending' \cap resumed' \cap Own = {}
    BY <2>2, <2>6, <1>h
  <2>9. \A c \in (pending' \cup resumed') \cap Own : c \in pending \cup resumed \cup Mine(turn[q])
    BY <2>1, <2>2
  <2>10. OneHolder'
    BY <2>2, <2>5, <2>7, <2>8, <2>9, <1>t, HolderStep
  <2>11. again' = {}
    BY <2>2, <2>6 DEF ActedOnce
  <2> QED
    BY <2>10, <2>11 DEF ActedOnce, Goal
\* What a handler holds after it stored a message.
<1>a. ASSUME UNCHANGED <<pending, resumed, again>>, next' = next + 1,
             turn[q].at = "store", NEW m \in turn[q].todo, NEW t \in Turn, Goes(q, t),
             NEW todo, NEW open,
             t \in {Storing(todo, IdsAfter(turn[q], m), open, turn[q].asks), Idle,
                    [at |-> "park", calls |-> ToPark(IdsAfter(turn[q], m), turn[q].asks)]}
      PROVE  Goal
  <2>1. turn[q].asks \cap Own = {}
    BY <1>a DEF AllReady, Ready, Storable
  <2>2. /\ \A c \in Targets(IdsAfter(turn[q], m)) :
              c \in Mine(turn[q]) \/ (c[1] = next /\ c \in Calls)
        /\ \A c \in ToPark(IdsAfter(turn[q], m), turn[q].asks) :
              c \in Targets(IdsAfter(turn[q], m)) \/ c \in Calls \ Own
    BY <1>a, <2>1, MinesStored
  <2>3. \A c \in Mine(t) : \/ c \in Targets(IdsAfter(turn[q], m))
                           \/ c \in ToPark(IdsAfter(turn[q], m), turn[q].asks)
    BY <1>a, <1>i DEF Mine, Storing
  <2>4. \A c \in Mine(t) : c \in Mine(turn[q]) \/ (c[1] = next /\ c \in Calls) \/ c \in Calls \ Own
    BY <2>2, <2>3
  <2>5. next' \in Nat /\ next' >= next /\ next < next' /\ 0 < next'
    BY <1>a, <1>t
  <2>6. \A c \in Mine(t) : c[1] < next'
    BY <1>a, <1>m, <1>c, <1>t, <2>4, <2>5
  <2>7. \A c \in pending' \cup resumed' : c[1] < next'
    BY <1>a, <1>h, <1>c, <1>t, <2>5
  <2>8. \A c \in Mine(t) \cap Own :
          /\ c \in Mine(turn[q]) \/ c[1] = next \/ c \in pending
          /\ c \notin pending' \cup resumed'
    <3>1. \A c \in pending \cup resumed : c[1] # next
      BY <1>h, <1>c, <1>t
    <3> QED
      BY <1>a, <1>h, <2>4, <3>1
  <2>9. OneHolder'
    BY <1>a, <1>h, <2>5, <2>6, <2>7, <2>8, HolderStep
  <2> QED
    BY <1>a, <2>9 DEF ActedOnce, Goal
<1>14. CASE Store(q)
  <2>1. PICK m \in First(turn[q].todo) :
          /\ Insert(m.role, m.source, StoredCalls(turn[q], m))
          /\ Stored(q, Storing(turn[q].todo \ {m}, IdsAfter(turn[q], m),
                               OpenAfter(turn[q], m), turn[q].asks))
    BY <1>14 DEF Store
  <2>2. /\ turn[q].at = "store" /\ m \in turn[q].todo
        /\ UNCHANGED <<pending, resumed, again>> /\ next' = next + 1
    BY <1>14, <2>1 DEF Store, At, First, Insert, historyVars
  <2>3. /\ turn[q].todo \ {m} \subseteq Message /\ IdsAfter(turn[q], m) \subseteq Calls \X Calls
        /\ OpenAfter(turn[q], m) \subseteq Calls /\ turn[q].asks \subseteq Calls
    BY <2>2, <1>t, TurnForms, IdsAdded
  <2>4. PICK t \in Turn :
          /\ Goes(q, t)
          /\ t \in {Storing(turn[q].todo \ {m}, IdsAfter(turn[q], m), OpenAfter(turn[q], m), turn[q].asks),
                    Idle, [at |-> "park", calls |-> ToPark(IdsAfter(turn[q], m), turn[q].asks)]}
    BY <2>1, <2>3, StoredForms
  <2> DEFINE todo == turn[q].todo \ {m}  open == OpenAfter(turn[q], m)
  <2>5. t \in {Storing(todo, IdsAfter(turn[q], m), open, turn[q].asks), Idle,
               [at |-> "park", calls |-> ToPark(IdsAfter(turn[q], m), turn[q].asks)]}
    BY <2>4
  <2> HIDE DEF todo, open
  <2> QED
    BY <2>2, <2>4, <2>5, <1>a
<1>15. CASE StoreFails(q)
  <2>1. PICK m \in First(turn[q].todo) :
          Stored(q, Storing({}, IdsAfter(turn[q], m), {}, turn[q].asks))
    BY <1>15 DEF StoreFails
  <2>2. /\ turn[q].at = "store" /\ m \in turn[q].todo
        /\ UNCHANGED <<pending, resumed, again>> /\ next' = next + 1
    BY <1>15 DEF StoreFails, At, First
  <2>3. IdsAfter(turn[q], m) \subseteq Calls \X Calls /\ turn[q].asks \subseteq Calls
    BY <2>2, <1>t, TurnForms, IdsAdded
  <2>4. PICK t \in Turn :
          /\ Goes(q, t)
          /\ t \in {Storing({}, IdsAfter(turn[q], m), {}, turn[q].asks),
                    Idle, [at |-> "park", calls |-> ToPark(IdsAfter(turn[q], m), turn[q].asks)]}
    BY <2>1, <2>3, StoredForms
  <2> QED
    BY <2>2, <2>4, <1>a
<1>16. CASE Park(q)
  <2>1. /\ Mine(turn[q]) = turn[q].calls
        /\ pending' = pending \cup turn[q].calls
        /\ Goes(q, Idle) /\ UNCHANGED <<next, resumed, again>>
    BY <1>16 DEF Park, At, Mine, historyVars
  <2>2. pending' \cap resumed' \cap Own = {}
    BY <2>1, <1>h
  <2>3. \A c \in pending' \cup resumed' : c[1] < next'
    BY <2>1, <1>h
  <2>4. \A c \in (pending' \cup resumed') \cap Own : c \in pending \cup resumed \cup Mine(turn[q])
    BY <2>1
  <2>5. OneHolder'
    BY <2>1, <2>2, <2>3, <2>4, <1>t, <1>i, HolderStep
  <2> QED
    BY <2>1, <2>5 DEF ActedOnce, Goal
<1>17. CASE Hangup(q)
  BY <1>17, <1>e, <1>i DEF Hangup, Tables, historyVars
<1> QED
  BY <1>q, <1>1, <1>2, <1>3, <1>4, <1>5, <1>6, <1>7, <1>8, <1>9, <1>10, <1>11,
     <1>12, <1>13, <1>14, <1>15, <1>16, <1>17 DEF Handled

-----------------------------------------------------------------------------
(* Theorems.                                                               *)

\* The invariant holds at first.
LEMMA Initially == Init => IInv
<1> SUFFICES ASSUME Init PROVE IInv
  OBVIOUS
<1>1. \A q \in Tabs : turn[q] = Idle
  BY DEF Init
<1>2. Seen = {} /\ rows = {} /\ pending = {} /\ resumed = {} /\ again = {}
  BY DEF Init, Seen, CallsIn, Of
<1>3. TypeOK
  BY TurnsMade DEF Init, TypeOK
<1>4. RowsNumbered /\ AnswersSeen /\ PendingIsStored /\ ActedOnce
  BY <1>2 DEF Init, RowsNumbered, AnswersSeen, PendingIsStored, ActedOnce, Of
<1>5. AllReady
  BY <1>1 DEF AllReady, Ready, Idle
<1>6. OneHolder
  <2>1. \A q \in Tabs : Mine(turn[q]) = {}
    BY <1>1 DEF Mine, Idle
  <2> QED
    BY <1>2, <2>1 DEF OneHolder
<1> QED
  BY <1>3, <1>4, <1>5, <1>6 DEF IInv

\* Every step keeps it.
LEMMA Inductive == IInv /\ [Next]_vars => IInv'
<1> SUFFICES ASSUME IInv, [Next]_vars PROVE IInv'
  OBVIOUS
<1>1. TypeOK'
  BY Typed DEF IInv
<1>2. RowsNumbered' /\ AnswersSeen' /\ AllReady' /\ PendingIsStored'
  BY Held DEF IInv
<1>3. OneHolder' /\ ActedOnce'
  BY HoldersKept DEF IInv
<1> QED
  BY <1>1, <1>2, <1>3 DEF IInv

\* The invariants of this module hold in every behaviour of the handlers.
THEOREM Invariance == Spec => []IInv
  BY Initially, Inductive, PTL DEF Spec

\* The tables and the handlers' locals have their types: what pauseRun parks is a
\* call's id, also when the row of the call could not be stored.
THEOREM TypeCorrect == Spec => []TypeOK
<1>1. IInv => TypeOK
  BY DEF IInv
<1> QED
  BY <1>1, Invariance, PTL

\* handleApprovals: any number of requests that decide the same calls resume a run
\* on each of them at most once.
THEOREM ActsOnce == Spec => []ActedOnce
<1>1. IInv => ActedOnce
  BY DEF IInv
<1> QED
  BY <1>1, Invariance, PTL

\* pauseRun, parkPending: what is pending is a stored call, but for deleted rows and
\* failed inserts.
THEOREM PendingFound == Spec => []PendingIsStored
<1>1. IInv => PendingIsStored
  BY DEF IInv
<1> QED
  BY <1>1, Invariance, PTL

\* persistRunMessages: every tool row answers one call of one earlier row, however
\* often the provider's ids repeat, unless that row was deleted.
THEOREM AnswersBelong == Spec => []AnswersHaveTheirCall
<1>1. IInv => AnswersHaveTheirCall
  <2> SUFFICES ASSUME IInv, NEW t \in Of(rows, "tool"), ~ (t.calls \subseteq cut)
               PROVE  \E a \in Of(rows, "assistant") :
                        /\ a.at < t.at /\ t.calls \subseteq a.calls
                        /\ \A b \in Of(rows, "assistant") \ {a} : b.calls \cap t.calls = {}
    BY DEF AnswersHaveTheirCall
  <2>1. PICK c \in Seen : t.calls = {c} /\ c[1] < t.at
    BY DEF IInv, AnswersSeen
  <2>2. PICK a \in Of(rows, "assistant") : c \in a.calls
    BY <2>1 DEF Seen, CallsIn
  <2>3. a.at = c[1]
    BY <2>2 DEF IInv, RowsNumbered
  <2>4. ASSUME NEW b \in Of(rows, "assistant") \ {a} PROVE c \notin b.calls
    <3>1. b \in rows /\ a \in rows /\ b # a
      BY <2>4 DEF Of
    <3>2. b.at # a.at
      BY <3>1 DEF IInv, RowsNumbered
    <3> QED
      BY <2>3, <2>4, <3>2 DEF IInv, RowsNumbered
  <2> QED
    BY <2>1, <2>2, <2>3, <2>4
<1> QED
  BY <1>1, Invariance, PTL

-----------------------------------------------------------------------------
(* The ledger of approvals.                                                *)

\* What one handler has decided is its own, and its step changes nobody else's.
LEMMA DecidedByOne ==
  ASSUME IInv, NEW q \in Tabs, NEW t, Goes(q, t)
  PROVE  /\ Decided(turn[q]) \cap Own \subseteq Granted \cap Own
         /\ Granted' \cap Own = ((Granted \cap Own) \ Decided(turn[q])) \cup (Decided(t) \cap Own)
<1>t. /\ turn' \in [Tabs -> {turn[p] : p \in Tabs} \cup {t}] /\ turn'[q] = t
      /\ \A p \in Tabs \ {q} : turn'[p] = turn[p]
  BY DEF IInv, TypeOK, Goes
<1>d. \A p \in Tabs : Decided(turn[p]) \subseteq Mine(turn[p])
  BY DEF Decided, Mine
<1>1. \A p \in Tabs \ {q} : \A c \in Decided(turn[p]) \cap Own : c \notin Decided(turn[q])
  BY <1>d DEF IInv, OneHolder
<1>2. Granted' = UNION {Decided(turn'[p]) : p \in Tabs}
  BY DEF Granted, Decided
<1>3. ASSUME NEW c \in Own
      PROVE  c \in Granted' <=> (c \in Granted /\ c \notin Decided(turn[q])) \/ c \in Decided(t)
  <2>1. CASE c \in Granted'
    <3>1. PICK p \in Tabs : c \in Decided(turn'[p])
      BY <1>2, <2>1
    <3> QED
      BY <1>t, <1>1, <2>1, <3>1 DEF Granted
  <2>2. ASSUME c \in Granted, c \notin Decided(turn[q]) PROVE c \in Granted'
    <3>1. PICK p \in Tabs \ {q} : c \in Decided(turn[p])
      BY <2>2 DEF Granted
    <3> QED
      BY <1>t, <1>2, <3>1
  <2>3. CASE c \in Decided(t)
    BY <1>t, <1>2, <2>3
  <2> QED
    BY <2>1, <2>2, <2>3
<1> QED
  BY <1>3 DEF Granted

\* A step that parks and decides nothing settles what it held, or stutters.
LEMMA LedgerSettles ==
  ASSUME IInv, NEW q \in Tabs, NEW t, Goes(q, t), pending' \cap Own = pending \cap Own,
         Decided(t) \subseteq Decided(turn[q]),
         NEW acts \in SUBSET ((Decided(turn[q]) \ Decided(t)) \cap Own),
         resumed' = resumed \cup acts
  PROVE  Ledger!Act
<1> DEFINE S == (Decided(turn[q]) \ Decided(t)) \cap Own
<1>1. S \in SUBSET (Granted \cap Own) /\ acts \in SUBSET S
  BY DecidedByOne
<1>2. Granted' \cap Own = (Granted \cap Own) \ S
  BY DecidedByOne
<1> QED
  BY <1>1, <1>2 DEF Ledger!Act

\* Most steps leave the ledger's sets alone.
LEMMA LedgerStutters ==
  ASSUME IInv, NEW q \in Tabs, NEW t, Goes(q, t), UNCHANGED <<pending, resumed>>,
         Decided(t) \subseteq Decided(turn[q])
  PROVE  Ledger!Act
<1>1. {} \in SUBSET ((Decided(turn[q]) \ Decided(t)) \cap Own) /\ resumed' = resumed \cup {}
  OBVIOUS
<1> QED
  BY <1>1, LedgerSettles

\* Every step of a handler is one of the ledger's, or changes nothing of it.
LEMMA LedgerStep ==
  ASSUME IInv, [Next]_vars
  PROVE  [Ledger!Next]_(Ledger!vars)
<1> DEFINE Goal == [Ledger!Next]_(Ledger!vars)
<1>t. /\ \A p \in Tabs : turn[p] \in Turn
      /\ \A p \in Tabs : turn[p].at \notin {"flip", "reload", "resume"} => Decided(turn[p]) = {}
  BY DEF IInv, TypeOK, Decided
<1>0. CASE UNCHANGED vars
  <2>1. UNCHANGED <<pending, turn, resumed>>
    BY <1>0 DEF vars, historyVars
  <2> QED
    BY <2>1 DEF Ledger!vars, Granted, Decided
<1>q. SUFFICES ASSUME NEW q \in Tabs, Handled(q) PROVE Goal
  BY <1>0 DEF Next, Handled
<1>e. ASSUME UNCHANGED <<pending, resumed>>, NEW t, Goes(q, t), Decided(t) = {} PROVE Goal
  BY <1>e, LedgerStutters DEF Ledger!Next
<1>i. Decided(Idle) = {}
  BY DEF Decided, Idle
<1> HIDE DEF Goal
<1>1. CASE Send(q)
  BY <1>1, <1>e DEF Send, Tables, historyVars, Decided
<1>2. CASE AddPrompt(q)
  BY <1>2, <1>e DEF AddPrompt, historyVars, Decided
<1>3. CASE \E u \in rows : Edit(q, u)
  BY <1>3, <1>e DEF Edit, Tables, historyVars, Decided
<1>4. CASE EditContent(q)
  <2>1. UNCHANGED <<pending, resumed>>
    BY <1>4 DEF EditContent, Tables, historyVars
  <2> QED
    BY <1>4, <2>1, <1>e, <1>i DEF EditContent, Decided
<1>5. CASE Regenerate(q)
  BY <1>5, <1>e DEF Regenerate, Tables, historyVars, Decided
<1>6. CASE FindPrompt(q)
  <2>1. UNCHANGED <<pending, resumed>>
    BY <1>6 DEF FindPrompt, Tables, historyVars
  <2>2. \A p : Decided([at |-> "truncate", after |-> p]) = {}
    BY DEF Decided
  <2> QED
    BY <1>6, <2>1, <2>2, <1>e, <1>i DEF FindPrompt
<1>7. CASE Truncate(q)
  <2>1. UNCHANGED <<pending, resumed>>
    BY <1>7 DEF Truncate, DeleteFrom
  <2>2. Decided([at |-> "run"]) = {}
    BY DEF Decided
  <2> QED
    BY <1>7, <2>1, <2>2, <1>e, <1>i DEF Truncate
<1>8. CASE \E m \in rows : DeleteMessage(q, m)
  <2>1. UNCHANGED <<pending, turn, resumed>>
    BY <1>8 DEF DeleteMessage, DeleteFrom
  <2> QED
    BY <2>1 DEF Goal, Ledger!vars, Granted, Decided
<1>9. CASE Run(q)
  <2>1. PICK c \in Continuations(1) : Stores(q, c.todo, c.asks)
    BY <1>9 DEF Run
  <2>2. UNCHANGED <<pending, resumed>>
    BY <1>9 DEF Run, Tables, historyVars
  <2>3. Decided(Storing(c.todo, {}, {}, c.asks)) = {}
    BY DEF Decided, Storing
  <2> QED
    BY <2>1, <2>2, <2>3, <1>e, <1>i DEF Stores
<1>10. CASE Approve(q)
  <2>1. Decided(Flipping(pending, pending)) = {}
    BY DEF Decided, Flipping
  <2> QED
    BY <1>10, <2>1, <1>e DEF Approve, Tables, historyVars
<1>11. CASE Flip(q)
  <2>1. /\ turn[q].at = "flip" /\ turn[q].left \subseteq turn[q].calls
        /\ turn[q].calls \subseteq Calls
        /\ Decided(turn[q]) = turn[q].calls \ turn[q].left
    BY <1>11, <1>t, TurnForms DEF Flip, At, Decided
  <2>2. PICK c \in turn[q].left :
          /\ pending' = pending \ {c}
          /\ Goes(q, IF c \notin pending THEN Idle
                     ELSE IF turn[q].left \ {c} = {} THEN [at |-> "reload", calls |-> turn[q].calls]
                     ELSE Flipping(turn[q].calls, turn[q].left \ {c}))
    BY <1>11 DEF Flip
  <2>3. resumed' = resumed
    BY <1>11 DEF Flip, historyVars
  \* Another request has decided the call.
  <2>4. CASE c \notin pending
    <3>1. pending' = pending /\ Goes(q, Idle)
      BY <2>2, <2>4
    <3> QED
      BY <3>1, <2>3, <1>e, <1>i
  <2>5. CASE c \in pending
    <3>1. PICK t : Goes(q, t) /\ Decided(t) = Decided(turn[q]) \cup {c}
      <4>1. CASE turn[q].left \ {c} = {}
        <5>1. Decided([at |-> "reload", calls |-> turn[q].calls]) = turn[q].calls
          BY DEF Decided
        <5> QED
          BY <2>1, <2>2, <2>5, <4>1, <5>1
      <4>2. CASE turn[q].left \ {c} # {}
        <5>1. Decided(Flipping(turn[q].calls, turn[q].left \ {c}))
                = turn[q].calls \ (turn[q].left \ {c})
          BY DEF Decided, Flipping
        <5> QED
          BY <2>1, <2>2, <2>5, <4>2, <5>1
      <4> QED
        BY <4>1, <4>2
    <3>2. Granted' \cap Own = (Granted \cap Own) \cup ({c} \cap Own)
      BY <3>1, DecidedByOne
    <3>3. CASE c \in Own
      <4>1. Ledger!Decide
        BY <2>2, <2>3, <2>5, <3>2, <3>3 DEF Ledger!Decide
      <4> QED
        BY <4>1 DEF Goal, Ledger!Next
    <3>4. CASE c \notin Own
      BY <2>2, <2>3, <3>2, <3>4 DEF Goal, Ledger!vars
    <3> QED
      BY <3>3, <3>4
  <2> QED
    BY <2>4, <2>5
<1>12. CASE Reload(q)
  <2>1. UNCHANGED <<pending, resumed>> /\ turn[q].at = "reload"
    BY <1>12 DEF Reload, Tables, historyVars, At
  <2>2. PICK first \in rows :
          Goes(q, [at |-> "resume", calls |-> turn[q].calls,
                   history |-> {r \in rows : r.at >= first.at}])
    BY <1>12 DEF Reload
  <2>3. Decided([at |-> "resume", calls |-> turn[q].calls,
                 history |-> {r \in rows : r.at >= first.at}]) = Decided(turn[q])
    BY <2>1 DEF Decided
  <2> QED
    BY <2>1, <2>2, <2>3, LedgerStutters DEF Goal, Ledger!Next
<1>13. CASE Resume(q)
  <2> DEFINE H == turn[q].history
             acts == turn[q].calls \cap Unanswered(H)
             answers == {New(next, "tool", {c}) : c \in acts}
  <2>1. /\ turn[q].at = "resume" /\ Decided(turn[q]) = turn[q].calls
        /\ acts \subseteq CallsIn(H) /\ acts \subseteq Decided(turn[q])
        /\ resumed' = resumed \cup acts /\ pending' = pending
    BY <1>13 DEF Resume, At, Unanswered, Decided
  <2>2. acts \subseteq Own
    <3>1. CallsIn(H) \subseteq Seen
      BY <2>1 DEF IInv, AllReady, Ready
    <3>2. Seen \subseteq Calls
      BY CallsTyped DEF IInv, TypeOK, Seen
    <3>3. \A c \in Seen : c \in Calls /\ c[1] # 0
      BY <3>2, RawCalls DEF IInv, RowsNumbered
    <3> QED
      BY <2>1, <3>1, <3>3 DEF Own
  <2>3. PICK t : Goes(q, t) /\ Decided(t) = {}
    <3>1. CASE Goes(q, Idle)
      BY <3>1, <1>i
    <3>2. ASSUME NEW c \in Continuations(next + 1),
                 Stores(q, Unknown(H) \cup answers \cup c.todo, c.asks)
          PROVE  \E t : Goes(q, t) /\ Decided(t) = {}
      <4> DEFINE todo == Unknown(H) \cup answers \cup c.todo
      <4>1. Stores(q, todo, c.asks)
        BY <3>2
      <4> HIDE DEF todo
      <4>2. Decided(Storing(todo, {}, {}, c.asks)) = {}
        BY DEF Decided, Storing
      <4> QED
        BY <4>1, <4>2, <1>i DEF Stores
    <3>3. \/ Goes(q, Idle)
          \/ \E c \in Continuations(next + 1) : Stores(q, Unknown(H) \cup answers \cup c.todo, c.asks)
      BY <1>13 DEF Resume
    <3> QED
      BY <3>1, <3>2, <3>3
  <2> HIDE DEF acts
  <2>4. Ledger!Act
    BY <2>1, <2>2, <2>3, LedgerSettles
  <2> QED
    BY <2>4 DEF Goal, Ledger!Next
<1>14. CASE Store(q)
  <2>1. /\ UNCHANGED <<pending, resumed>>
        /\ \E T : Stored(q, T) /\ Decided(T) = {}
    BY <1>14 DEF Store, historyVars, Decided, Storing
  <2>2. \A S : Decided([at |-> "park", calls |-> S]) = {}
    BY DEF Decided
  <2> QED
    BY <2>1, <2>2, <1>e, <1>i DEF Stored
<1>15. CASE StoreFails(q)
  <2>1. /\ UNCHANGED <<pending, resumed>>
        /\ \E T : Stored(q, T) /\ Decided(T) = {}
    BY <1>15 DEF StoreFails, Decided, Storing
  <2>2. \A S : Decided([at |-> "park", calls |-> S]) = {}
    BY DEF Decided
  <2> QED
    BY <2>1, <2>2, <1>e, <1>i DEF Stored
<1>16. CASE Park(q)
  <2>1. /\ turn[q].at = "park" /\ Mine(turn[q]) = turn[q].calls /\ Decided(turn[q]) = {}
        /\ pending' = pending \cup turn[q].calls
        /\ Goes(q, Idle) /\ resumed' = resumed
    BY <1>16 DEF Park, At, Mine, Decided, historyVars
  <2>2. Granted' \cap Own = Granted \cap Own
    BY <2>1, <1>i, DecidedByOne
  <2>3. ASSUME NEW c \in Granted \cap Own PROVE c \notin pending \cup turn[q].calls
    <3>1. PICK p \in Tabs : c \in Decided(turn[p])
      BY <2>3 DEF Granted
    <3>2. c \in Mine(turn[p]) /\ p # q
      BY <2>1, <3>1 DEF Decided, Mine
    <3> QED
      BY <2>1, <2>3, <3>2 DEF IInv, OneHolder
  <2>4. (pending \cup turn[q].calls) \cap Own \cap resumed = {}
    BY <2>1 DEF IInv, OneHolder
  <2>5. Ledger!Ask
    BY <2>1, <2>2, <2>3, <2>4 DEF Ledger!Ask
  <2> QED
    BY <2>5 DEF Goal, Ledger!Next
<1>17. CASE Hangup(q)
  BY <1>17, <1>e, <1>i DEF Hangup, Tables, historyVars
<1> QED
  BY <1>q, <1>1, <1>2, <1>3, <1>4, <1>5, <1>6, <1>7, <1>8, <1>9, <1>10, <1>11,
     <1>12, <1>13, <1>14, <1>15, <1>16, <1>17 DEF Handled

\* handleApprovals, RunDeferred: the handlers implement the ledger, for any number of
\* requests: a call is asked for, decided and acted on at most once, in this order.
THEOREM LedgerKept == Spec => KeepsLedger
<1>1. Init => Ledger!Init
  <2> SUFFICES ASSUME Init PROVE Ledger!Init
    OBVIOUS
  <2>1. pending = {} /\ resumed = {} /\ \A q \in Tabs : Decided(turn[q]) = {}
    BY DEF Init, Decided, Idle
  <2> QED
    BY <2>1 DEF Ledger!Init, Granted
<1>2. IInv /\ [Next]_vars => [Ledger!Next]_(Ledger!vars)
  BY LedgerStep
<1> QED
  BY <1>1, <1>2, Invariance, PTL DEF Spec, KeepsLedger, Ledger!Spec

\* The ledger's own guarantee.
LEMMA LedgerStaysApart == Ledger!Spec => []Ledger!Apart
<1>1. Ledger!Init => Ledger!Apart
  BY DEF Ledger!Init, Ledger!Apart
<1>2. Ledger!Apart /\ [Ledger!Next]_(Ledger!vars) => Ledger!Apart'
  <2> SUFFICES ASSUME Ledger!Apart, [Ledger!Next]_(Ledger!vars) PROVE Ledger!Apart'
    OBVIOUS
  <2>1. CASE Ledger!Ask
    BY <2>1 DEF Ledger!Ask, Ledger!Apart
  <2>2. CASE Ledger!Decide
    BY <2>2 DEF Ledger!Decide, Ledger!Apart
  <2>3. CASE Ledger!Act
    BY <2>3 DEF Ledger!Act, Ledger!Apart
  <2>4. CASE UNCHANGED Ledger!vars
    BY <2>4 DEF Ledger!vars, Ledger!Apart
  <2> QED
    BY <2>1, <2>2, <2>3, <2>4 DEF Ledger!Next
<1> QED
  BY <1>1, <1>2, PTL DEF Ledger!Spec

\* What handleApprovals and RunDeferred have of it: no call is pending and decided, or
\* decided or pending and acted on, whatever is sent, parked and resumed meanwhile.
THEOREM OneStageAtATime == Spec => []Ledger!Apart
BY LedgerKept, LedgerStaysApart, PTL DEF KeepsLedger
=============================================================================
