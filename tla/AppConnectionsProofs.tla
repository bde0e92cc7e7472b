-------------------------- MODULE AppConnectionsProofs --------------------------
(***************************************************************************)
(* What the cards of the apps promise, for every set of providers, apps    *)
(* and cards, every number of requests and every bound: a card with        *)
(* nothing on its way is what the tables say, and an app that was          *)
(* connected or disconnected is so.                                        *)
(*                                                                         *)
(* Neither is inductive: no handler uses a transaction. A request that     *)
(* nothing has crossed knows what its earlier statements made of its app;  *)
(* and a query that does not say what the tables do has a request on its   *)
(* way whose answer asks it again, or has read nothing yet.                *)
(***************************************************************************)
EXTENDS AppConnections, SequenceTheorems, TLAPS

USE AppConnectionsAssumption

\* A request that is out has a kind and an app, and a change of a credential or
\* a start a provider's.
KindsKnown ==
  \A q \in Reqs :
    /\ req[q].st = "free" <=> req[q].kind = "none"
    /\ req[q].st # "free" => req[q].app \in Apps
    /\ req[q].kind \in {"disconnect", "config", "token", "start", "leave"} => req[q].app \in Providers
    /\ req[q].kind = "config" => req[q].of \in Providers
    /\ req[q].kind \in {"start", "leave"} => req[q].st \in {"first", "ok", "failed"}

\* An open dialog is about a provider, and so is a window at one.
DialogKnown ==
  /\ dialog.open => dialog.app \in Providers
  /\ window.stage # "none" => window.app \in Providers

\* Only the providers' query has read half, and what was read is there.
ReadsKnown ==
  \A k \in Queries : /\ cache[k].out \in {"half", "read"} => cache[k].got \in Snapshots
                     /\ cache[k].out = "half" => k = "providers"

\* A page that is on its way to a provider has no requests.
LeftAlone == ~Loaded => \A q \in Reqs : req[q].st = "free"

\* A provider with two credentials is known to have had them.
DoublesKnown == \A p \in Providers : Len(cred[p]) > 1 => p \in doubled

\* While a callback is between its two statements, every request about its
\* provider that is between two of its own has crossed it.
CallbackCrosses ==
  window.stage = "writes" => \A q \in Reqs : Running(q) /\ req[q].app = window.app => req[q].crossed

\* What a request that nothing has crossed, and none of whose statements failed,
\* knows of its app, and has done to it.
Knows(q) ==
  LET a == req[q].app
      at(kind, sts) == req[q].kind = kind /\ req[q].st \in sts IN
  /\ at("token", {"second"}) \/ at("disconnect", {"second"}) => req[q].row = Newest(a)
  /\ at("unlink", {"second", "third"}) => ~Linked(a)
  /\ at("unlink", {"third"}) /\ a \in Providers => req[q].row = Newest(a)
  /\ at("disconnect", {"third"}) /\ a \notin doubled => cred[a] = <<>>
UncrossedKnow == \A q \in Reqs : ~req[q].crossed /\ ~req[q].slip => Knows(q)

\* Request q may have changed what the query k says, and its answer has it
\* asked again, or known to be behind.
Telling(q, k) ==
  LET kinds == IF k = "providers" THEN {"link", "unlink", "disconnect", "config", "token"}
               ELSE {"link", "unlink"} IN
  \/ req[q].kind \in kinds /\ req[q].st \in {"second", "third", "fourth", "ok"}
  \/ req[q].kind = "link" /\ req[q].st = "failed"
Told(k) == \E q \in Reqs : Telling(q, k)

\* The apps whose cards show what the query k says.
AppsOf(k) == {a \in Apps : QueryOf(a) = k}

\* What the query k says is what the tables do, and so is what it has read.
Follows(k) ==
  /\ cache[k].out = "no" /\ cache[k].data # None =>
       \A a \in AppsOf(k) : cache[k].data[a] = Snapshot(k)[a]
  /\ cache[k].out = "half" =>
       \A a \in AppsOf(k) : cache[k].got[a] = [configured |-> Configured(a),
                                               connected |-> HasCredential(a)]
  /\ cache[k].out = "read" =>
       \A a \in AppsOf(k) : cache[k].got[a] = Snapshot(k)[a]

\* A query that is not behind does, unless a change is still to be told.
CardsFollow == Loaded => \A k \in Queries \ behind : Told(k) \/ Follows(k)

IInv ==
  /\ TypeOK
  /\ KindsKnown
  /\ DialogKnown
  /\ ReadsKnown
  /\ LeftAlone
  /\ DoublesKnown
  /\ CallbackCrosses
  /\ UncrossedKnow
  /\ CardsFollow
  /\ SaidIsSo

-----------------------------------------------------------------------------
(* Values                                                                  *)

LEMMA Blanks ==
  /\ 0 \in Stamps /\ Stamps \subseteq Nat
  /\ NoReq \in Requests /\ Shut \in Dialogs /\ NoWindow \in Windows /\ Empty \in Answers
BY DEF Stamps, NoReq, Requests, Steps, Shut, Dialogs, NoWindow, Windows, Empty, Answers

\* A table of credentials in which no name is used twice.
Table(c) ==
  /\ c \in Seq(Credential)
  /\ \A i, j \in DOMAIN c : c[i].name = c[j].name => i = j

LEMMA NoRows == Table(<<>>)
BY DEF Table

\* Deleting a row keeps the others; of a single row nothing is left.
LEMMA WithoutIs ==
  ASSUME NEW c, Table(c), NEW id
  PROVE  /\ Table(Without(c, id)) /\ Len(Without(c, id)) <= Len(c)
         /\ Len(c) <= 1 /\ (c # <<>> => c[1].id = id) => Without(c, id) = <<>>
<1> DEFINE hits == {i \in DOMAIN c : c[i].id = id}
           at == CHOOSE i \in hits : TRUE
           w == [i \in 1..(Len(c) - 1) |-> c[IF i < at THEN i ELSE i + 1]]
<1>1. c \in Seq(Credential) /\ Len(c) \in Nat /\ DOMAIN c = 1..Len(c)
      /\ \A i \in DOMAIN c : c[i] \in Credential
  BY DEF Table
<1>2. Without(c, id) = IF hits = {} THEN c ELSE w
  BY DEF Without
<1>3. CASE hits = {}
  <2>1. Without(c, id) = c
    BY <1>2, <1>3
  <2>2. c # <<>> => 1 \in DOMAIN c
    BY <1>1
  <2> QED
    BY <1>1, <1>3, <2>1, <2>2
<1>4. CASE hits # {}
  <2>1. at \in 1..Len(c)
    BY <1>1, <1>4
  <2>2. Len(c) - 1 \in Nat
    BY <1>1, <2>1
  <2> DEFINE from(i) == IF i < at THEN i ELSE i + 1
  <2> HIDE DEF at
  <2>3. \A i \in 1..(Len(c) - 1) : from(i) \in 1..Len(c)
    BY <1>1, <2>1
  <2>4. \A i, j \in 1..(Len(c) - 1) : from(i) = from(j) => i = j
    BY <1>1, <2>1
  <2>5. w = [i \in 1..(Len(c) - 1) |-> c[from(i)]]
    OBVIOUS
  <2> HIDE DEF from, w
  <2>6. \A i \in 1..(Len(c) - 1) : w[i] = c[from(i)] /\ w[i] \in Credential
    BY <1>1, <2>3, <2>5
  <2>7. w \in Seq(Credential) /\ Len(w) = Len(c) - 1 /\ DOMAIN w = 1..(Len(c) - 1)
    BY <2>2, <2>5, <2>6
  <2>8. Table(w)
    <3>1. ASSUME NEW i \in DOMAIN w, NEW j \in DOMAIN w, w[i].name = w[j].name
          PROVE  i = j
      <4>1. /\ from(i) \in DOMAIN c /\ from(j) \in DOMAIN c
            /\ c[from(i)].name = c[from(j)].name
        BY <1>1, <2>3, <2>6, <2>7, <3>1
      <4>2. from(i) = from(j)
        BY <4>1 DEF Table
      <4> QED
        BY <2>4, <2>7, <4>2
    <3> QED
      BY <2>7, <3>1 DEF Table
  <2>9. Len(c) <= 1 => w = <<>>
    BY <1>1, <2>2, <2>7
  <2> QED
    BY <1>1, <1>2, <1>4, <2>7, <2>8, <2>9
<1> QED
  BY <1>3, <1>4

\* A row is added or updated, or its name is in use: the table is not empty.
LEMMA PutIs ==
  ASSUME NEW c, Table(c), NEW x \in Credential
  PROVE  Table(Put(c, x)) /\ Put(c, x) # <<>>
<1> DEFINE rest == Without(c, x.id)
           new == <<x>> \o rest
<1>1. Table(rest) /\ Len(rest) <= Len(c)
  BY WithoutIs
<1>2. rest \in Seq(Credential) /\ Len(rest) \in Nat /\ DOMAIN rest = 1..Len(rest)
  BY <1>1 DEF Table
<1>3. CASE \E i \in DOMAIN rest : rest[i].name = x.name
  <2>1. Put(c, x) = c
    BY <1>3 DEF Put
  <2>2. Len(c) > 0
    BY <1>1, <1>2, <1>3 DEF Table
  <2> QED
    BY <2>1, <2>2
<1>4. CASE ~ \E i \in DOMAIN rest : rest[i].name = x.name
  <2>1. Put(c, x) = new
    BY <1>4 DEF Put
  <2> HIDE DEF rest
  <2>2. new \in Seq(Credential) /\ Len(new) = Len(rest) + 1 /\ DOMAIN new = 1..(Len(rest) + 1)
    BY <1>2
  <2>3. new[1] = x /\ \A i \in DOMAIN new : i # 1 => i - 1 \in DOMAIN rest /\ new[i] = rest[i - 1]
    BY <1>2, <2>2
  <2> HIDE DEF new
  <2>4. ASSUME NEW i \in DOMAIN new, NEW j \in DOMAIN new, new[i].name = new[j].name
        PROVE  i = j
    <3>1. CASE i = 1 \/ j = 1
      BY <1>4, <2>3, <2>4, <3>1
    <3>2. CASE i # 1 /\ j # 1
      <4>1. rest[i - 1].name = rest[j - 1].name /\ i - 1 \in DOMAIN rest /\ j - 1 \in DOMAIN rest
        BY <2>3, <2>4, <3>2
      <4>2. i - 1 = j - 1
        BY <1>1, <4>1 DEF Table
      <4> QED
        BY <1>2, <2>2, <4>2
    <3> QED
      BY <3>1, <3>2
  <2> QED
    BY <2>1, <2>2, <2>4 DEF Table
<1> QED
  BY <1>3, <1>4

\* The row that was updated last.
LEMMA NewestIs ==
  ASSUME TypeOK, NEW p \in Providers
  PROVE  /\ Table(cred[p]) /\ Newest(p) \in Stamps \cup {None}
         /\ cred[p] = <<>> <=> Newest(p) = None
         /\ cred[p] # <<>> => Newest(p) = cred[p][1].id /\ cred[p][1] \in Rows(p)
<1>1. cred[p] \in Seq(Credential)
  BY DEF TypeOK
<1>2. CASE cred[p] # <<>>
  <2>1. 1 \in DOMAIN cred[p] /\ cred[p][1] \in Credential /\ Head(cred[p]) = cred[p][1]
    BY <1>1, <1>2
  <2>2. cred[p][1].id \in Stamps
    BY <2>1 DEF Credential
  <2>3. cred[p][1].id # None
    BY <2>2, Blanks
  <2> QED
    BY <1>2, <2>1, <2>2, <2>3 DEF Newest, Rows, Table, TypeOK
<1>3. CASE cred[p] = <<>>
  BY <1>3 DEF Newest, Table, TypeOK
<1> QED
  BY <1>2, <1>3

\* A row is rewritten, if it is still there.
LEMMA RewriteIs ==
  ASSUME TypeOK, NEW p \in Providers, NEW id \in Stamps, NEW name \in {"token", None},
         NEW holds \in {"client", "token"}, NEW of \in Apps
  PROVE  /\ Table(Rewrite(p, id, name, holds, of))
         /\ (\E x \in Rows(p) : x.id = id) => Rewrite(p, id, name, holds, of) # <<>>
<1>1. Table(cred[p])
  BY NewestIs
<1>2. CASE \E x \in Rows(p) : x.id = id
  <2> DEFINE old == CHOOSE x \in Rows(p) : x.id = id
             new == [id |-> id, name |-> IF name = None THEN old.name ELSE name,
                     holds |-> holds, of |-> of]
  <2>1. old \in Rows(p)
    BY <1>2
  <2>2. Rows(p) \subseteq Credential
    BY <1>1 DEF Rows, Table
  <2>3. new \in Credential
    BY <2>1, <2>2 DEF Credential
  <2>4. Rewrite(p, id, name, holds, of) = Put(cred[p], new)
    BY <1>2 DEF Rewrite
  <2> HIDE DEF new
  <2> QED
    BY <1>1, <2>3, <2>4, PutIs
<1>3. CASE ~ \E x \in Rows(p) : x.id = id
  BY <1>1, <1>3 DEF Rewrite
<1> QED
  BY <1>2, <1>3

\* A token or a client is written: to the row that was read, or to a new one.
LEMMA WriteIs ==
  ASSUME TypeOK, NEW p \in Providers, NEW id \in Stamps \cup {None}, NEW name \in {"token", None},
         NEW x \in Credential
  PROVE  LET c == IF id = None THEN Put(cred[p], x) ELSE Rewrite(p, id, name, x.holds, x.of) IN
         /\ Table(c)
         /\ id = Newest(p) => c # <<>>
<1>1. x.holds \in {"client", "token"} /\ x.of \in Apps
  BY DEF Credential
<1>2. CASE id = None
  BY <1>2, NewestIs, PutIs
<1>3. CASE id # None
  <2>1. id = Newest(p) => \E y \in Rows(p) : y.id = id
    BY <1>3, NewestIs
  <2> QED
    BY <1>1, <1>3, <2>1, RewriteIs
<1> QED
  BY <1>2, <1>3

LEMMA FetchedType ==
  ASSUME NEW q \in Answers
  PROVE  Fetched(q) \in Answers /\ Refetched(q) \in Answers
BY DEF Fetched, Refetched, Answers

\* What a query says is about every app.
LEMMA SnapshotType == ASSUME NEW k PROVE Snapshot(k) \in Snapshots
<1>1. \A a \in Apps : (k = "providers" /\ Configured(a)) \in BOOLEAN
  BY Zenon DEF Configured
<1>2. \A a \in Apps : (Linked(a) \/ (k = "providers" /\ HasCredential(a))) \in BOOLEAN
  BY Zenon DEF Linked, HasCredential
<1> QED
  BY <1>1, <1>2 DEF Snapshot, Snapshots, Facts

-----------------------------------------------------------------------------
(* Types                                                                   *)

TypeInv == TypeOK /\ KindsKnown /\ DialogKnown /\ ReadsKnown

LEMMA TypeInit == Init => TypeInv
<1> SUFFICES ASSUME Init PROVE TypeInv
  OBVIOUS
<1> USE Blanks DEF Init
<1>1. \A p \in Providers : cred[p] = <<>>
  OBVIOUS
<1>2. cred \in [Providers -> Seq(Credential)]
  OBVIOUS
<1>3. cache \in [Queries -> Answers]
  <2>1. \A k \in Queries : [Empty EXCEPT !.data = Snapshot(k)] \in Answers
    BY SnapshotType DEF Empty, Answers
  <2> QED
    BY <2>1
<1>4. TypeOK
  <2>1. /\ server \in [Apps -> {"none", "linked", "loose"}]
        /\ said \in [Apps -> {"on", "off", "hollow", None}]
        /\ req \in [Reqs -> Requests] /\ dialog \in Dialogs /\ window \in Windows
        /\ timers \subseteq Stamps /\ cookie \in Stamps \cup {None} /\ acts \in Stamps
        /\ behind \subseteq Queries /\ doubled \subseteq Providers
    OBVIOUS
  <2>2. \A p \in Providers : \A i, j \in DOMAIN cred[p] :
          cred[p][i].name = cred[p][j].name => i = j
    <3> SUFFICES ASSUME NEW p \in Providers, NEW i \in DOMAIN cred[p]
                 PROVE  FALSE
      OBVIOUS
    <3>1. DOMAIN cred[p] = {}
      BY <1>1
    <3> QED
      BY <3>1
  <2>3. page \in Cards /\ env \in BOOLEAN
    OBVIOUS
  <2> HIDE DEF Init
  <2> QED
    BY <1>2, <1>3, <2>1, <2>2, <2>3 DEF TypeOK
<1>5. KindsKnown /\ DialogKnown
  BY DEF KindsKnown, DialogKnown, NoReq, Shut, NoWindow
<1>6. ReadsKnown
  BY DEF ReadsKnown, Empty
<1> QED
  BY <1>4, <1>5, <1>6 DEF TypeInv

\* What can be sent: its kind and what it is about.
Sendable(kind, a, of) ==
  /\ kind \in Kinds /\ a \in Apps /\ of \in Apps \cup {None}
  /\ kind \in {"disconnect", "config", "token", "start", "leave"} => a \in Providers
  /\ kind = "config" => of \in Providers

LEMMA SendIs ==
  ASSUME TypeInv, NEW q \in Reqs, NEW kind, NEW a, NEW of, Send(q, kind, a, of),
         Sendable(kind, a, of), acts + 1 \in Stamps
  PROVE  /\ req' \in [Reqs -> Requests] /\ KindsKnown' /\ req[q].st = "free"
         /\ req'[q].st = "first" /\ req'[q].kind = kind
         /\ \A p \in Reqs \ {q} :
              /\ req'[p].st = req[p].st /\ req'[p].kind = req[p].kind /\ req'[p].app = req[p].app
              /\ req'[p].row = req[p].row /\ req'[p].crossed = req[p].crossed
              /\ req'[p].slip = req[p].slip
<1> DEFINE v == [NoReq EXCEPT !.st = "first", !.kind = kind, !.app = a, !.of = of, !.at = acts + 1]
           w(p) == [req[p] EXCEPT !.old = @ \/ req[p].kind \in Hook(kind)]
<1>1. /\ v \in Requests /\ v.st = "first" /\ v.kind = kind /\ v.app = a /\ v.of = of
  BY DEF Sendable, NoReq, Requests, Steps
<1>2. ASSUME NEW p \in Reqs
      PROVE  /\ w(p) \in Requests /\ w(p).st = req[p].st /\ w(p).kind = req[p].kind
             /\ w(p).app = req[p].app /\ w(p).row = req[p].row /\ w(p).crossed = req[p].crossed
             /\ w(p).of = req[p].of /\ w(p).slip = req[p].slip
  <2>1. req[p] \in Requests
    BY DEF TypeInv, TypeOK
  <2>2. (req[p].old \/ req[p].kind \in Hook(kind)) \in BOOLEAN
    BY Zenon
  <2>3. w(p) = [req[p] EXCEPT !.old = (req[p].old \/ req[p].kind \in Hook(kind))]
    BY <2>1 DEF Requests
  <2> QED
    BY <2>1, <2>2, <2>3 DEF Requests
<1>3. req' = [p \in Reqs |-> IF p = q THEN v ELSE w(p)] /\ req[q].st = "free"
  BY DEF Send
<1> HIDE DEF v, w
<1>4. req' \in [Reqs -> Requests] /\ req'[q] = v /\ \A p \in Reqs \ {q} : req'[p] = w(p)
  BY <1>1, <1>2, <1>3
<1>5. kind # "none"
  BY DEF Sendable, Kinds
<1>6. KindsKnown'
  <2>1. ASSUME NEW p \in Reqs
        PROVE  /\ req'[p].st = "free" <=> req'[p].kind = "none"
               /\ req'[p].st # "free" => req'[p].app \in Apps
               /\ req'[p].kind \in {"disconnect", "config", "token", "start", "leave"}
                    => req'[p].app \in Providers
               /\ req'[p].kind = "config" => req'[p].of \in Providers
               /\ req'[p].kind \in {"start", "leave"} => req'[p].st \in {"first", "ok", "failed"}
    <3>1. CASE p = q
      BY <1>1, <1>4, <1>5, <3>1 DEF Sendable
    <3>2. CASE p # q
      <4>1. req'[p] = w(p)
        BY <1>4, <3>2
      <4>2. /\ w(p).st = req[p].st /\ w(p).kind = req[p].kind
            /\ w(p).app = req[p].app /\ w(p).of = req[p].of
        BY <1>2
      <4>3. /\ req[p].st = "free" <=> req[p].kind = "none"
            /\ req[p].st # "free" => req[p].app \in Apps
            /\ req[p].kind \in {"disconnect", "config", "token", "start", "leave"}
                 => req[p].app \in Providers
            /\ req[p].kind = "config" => req[p].of \in Providers
            /\ req[p].kind \in {"start", "leave"} => req[p].st \in {"first", "ok", "failed"}
        BY DEF TypeInv, KindsKnown
      <4> QED
        BY <4>1, <4>2, <4>3
    <3> QED
      BY <3>1, <3>2
  <2> QED
    BY <2>1 DEF KindsKnown
<1> QED
  BY <1>1, <1>2, <1>3, <1>4, <1>6

\* What the user sends.
Sends ==
  \E q \in Reqs : \/ StartOAuth(q) \/ SaveToken(q)
                  \/ \E a \in Apps : Link(q, a) \/ Unlink(q, a)
                  \/ \E a \in Providers : Disconnect(q, a) \/ Connect(q, a)

LEMMA SendsAre ==
  ASSUME TypeInv, Sends
  PROVE  /\ \E q \in Reqs : \E kind, a, of : Send(q, kind, a, of) /\ Sendable(kind, a, of)
         /\ Loaded /\ acts' \in Stamps /\ acts + 1 \in Stamps
         /\ UNCHANGED <<page, env, cred, server, doubled, said, cache, timers, behind, window,
                        cookie>>
         /\ dialog' \in Dialogs /\ dialog'.open = dialog.open /\ dialog'.app = dialog.app
<1> DEFINE Some == \E q \in Reqs : \E kind, a, of : Send(q, kind, a, of) /\ Sendable(kind, a, of)
           Same == UNCHANGED <<page, env, cred, server, doubled, said, cache, timers, behind,
                               window, cookie>>
<1> USE DEF tables, client, outside
<1>1. dialog \in Dialogs /\ acts \in Stamps /\ (dialog.open => dialog.app \in Providers)
  BY DEF TypeInv, TypeOK, DialogKnown
<1>2. dialog.typed \in Providers \cup {None} /\ Providers \subseteq Apps
  BY <1>1 DEF Dialogs, Apps
<1>3. Loaded /\ Act
  BY DEF Sends, StartOAuth, SaveToken, Link, Unlink, Disconnect, Connect
<1>4. acts' \in Stamps /\ acts + 1 \in Stamps
  BY <1>1, <1>3 DEF Act, Stamps
<1>5. ASSUME NEW q \in Reqs, StartOAuth(q) PROVE Some
  <2>1. CASE dialog.typed # None
    <3>1. Send(q, "config", dialog.app, dialog.typed) /\ Sendable("config", dialog.app, dialog.typed)
      BY <1>1, <1>2, <1>5, <2>1 DEF StartOAuth, Sendable, Kinds
    <3> QED
      BY <3>1
  <2>2. CASE dialog.typed = None
    <3>1. Send(q, "start", dialog.app, None) /\ Sendable("start", dialog.app, None)
      BY <1>1, <1>2, <1>5, <2>2 DEF StartOAuth, Sendable, Kinds
    <3> QED
      BY <3>1
  <2> QED
    BY <2>1, <2>2
<1>6. ASSUME NEW q \in Reqs, SaveToken(q) PROVE Some
  <2>1. Send(q, "token", dialog.app, dialog.app) /\ Sendable("token", dialog.app, dialog.app)
    BY <1>1, <1>2, <1>6 DEF SaveToken, Sendable, Kinds
  <2> QED
    BY <2>1
<1>7. ASSUME NEW q \in Reqs, NEW a \in Apps, Link(q, a) PROVE Some
  <2>1. Send(q, "link", a, None) /\ Sendable("link", a, None)
    BY <1>7 DEF Link, Sendable, Kinds
  <2> QED
    BY <2>1
<1>8. ASSUME NEW q \in Reqs, NEW a \in Apps, Unlink(q, a) PROVE Some
  <2>1. Send(q, "unlink", a, None) /\ Sendable("unlink", a, None)
    BY <1>8 DEF Unlink, Sendable, Kinds
  <2> QED
    BY <2>1
<1>9. ASSUME NEW q \in Reqs, NEW a \in Providers, Disconnect(q, a) PROVE Some
  <2>1. Send(q, "disconnect", a, None) /\ Sendable("disconnect", a, None)
    BY <1>2, <1>9 DEF Disconnect, Sendable, Kinds
  <2> QED
    BY <2>1
<1>10. ASSUME NEW q \in Reqs, NEW a \in Providers, Connect(q, a) PROVE Some
  <2>1. Send(q, "leave", a, None) /\ Sendable("leave", a, None)
    BY <1>2, <1>10 DEF Connect, Sendable, Kinds
  <2> QED
    BY <2>1
<1>11. Some
  BY <1>5, <1>6, <1>7, <1>8, <1>9, <1>10 DEF Sends
<1>12. Same /\ (dialog' = dialog \/ dialog' = [dialog EXCEPT !.busy = TRUE])
  BY DEF Sends, StartOAuth, SaveToken, Link, Unlink, Disconnect, Connect
<1>13. dialog' \in Dialogs /\ dialog'.open = dialog.open /\ dialog'.app = dialog.app
  BY <1>1, <1>12 DEF Dialogs
<1> QED
  BY <1>3, <1>4, <1>11, <1>12, <1>13

LEMMA SendsType ==
  ASSUME TypeInv, Sends
  PROVE  TypeInv'
<1>0. PICK q \in Reqs : \E kind, a, of : Send(q, kind, a, of) /\ Sendable(kind, a, of)
  BY SendsAre
<1>1. PICK kind, a, of : Send(q, kind, a, of) /\ Sendable(kind, a, of)
  BY <1>0
<1>2. /\ acts' \in Stamps /\ acts + 1 \in Stamps
      /\ UNCHANGED <<page, env, cred, server, doubled, said, cache, timers, behind, window, cookie>>
      /\ dialog' \in Dialogs /\ dialog'.open = dialog.open /\ dialog'.app = dialog.app
  BY SendsAre
<1>3. req' \in [Reqs -> Requests] /\ KindsKnown'
  BY <1>1, <1>2, SendIs
<1> QED
  BY <1>2, <1>3 DEF TypeInv, TypeOK, DialogKnown, ReadsKnown

\* The others that run about its app while request q does, and whether q has
\* been crossed.
Others(q) == {p \in Reqs \ {q} : Running(p) /\ req[p].app = req[q].app}
Crossed(q) == \/ req[q].crossed \/ Others(q) # {}
              \/ window.stage = "writes" /\ window.app = req[q].app
Moves(q, st, row, slip) ==
  [p \in Reqs |-> IF p = q THEN [req[q] EXCEPT !.st = st, !.row = row, !.crossed = Crossed(q),
                                              !.slip = slip]
                  ELSE [req[p] EXCEPT !.crossed = @ \/ p \in Others(q)]]

\* What a statement of request q does to the requests.
MovedOn(q, st, row, slip) ==
  /\ req' \in [Reqs -> Requests] /\ KindsKnown'
  /\ req'[q].st = st /\ req'[q].row = row /\ req'[q].crossed = Crossed(q) /\ req'[q].slip = slip
  /\ \A p \in Reqs : /\ req'[p].kind = req[p].kind /\ req'[p].app = req[p].app
                     /\ p # q => /\ req'[p].st = req[p].st /\ req'[p].row = req[p].row
                                 /\ req'[p].crossed = (req[p].crossed \/ p \in Others(q))
                                 /\ req'[p].slip = req[p].slip

\* A request moves on, and knows a row or is crossed.
LEMMA ReqMoves ==
  ASSUME TypeInv, NEW q \in Reqs, req[q].st # "free",
         NEW st \in Steps \cup {"ok", "failed"},
         NEW row \in Stamps \cup {None}, NEW slip \in BOOLEAN,
         req[q].kind \in {"start", "leave"} => st \in {"first", "ok", "failed"},
         req' = Moves(q, st, row, slip)
  PROVE  MovedOn(q, st, row, slip)
<1> DEFINE v == [req[q] EXCEPT !.st = st, !.row = row, !.crossed = Crossed(q), !.slip = slip]
           w(p) == [req[p] EXCEPT !.crossed = @ \/ p \in Others(q)]
<1>0. (\A p \in Reqs : req[p] \in Requests) /\ Crossed(q) \in BOOLEAN
  BY Zenon DEF TypeInv, TypeOK, Crossed
<1>1. /\ v \in Requests /\ v.st = st /\ v.row = row /\ v.crossed = Crossed(q) /\ v.slip = slip
      /\ v.kind = req[q].kind /\ v.app = req[q].app /\ v.of = req[q].of
  BY <1>0 DEF Requests, Steps
<1>2. ASSUME NEW p \in Reqs
      PROVE  /\ w(p) \in Requests /\ w(p).st = req[p].st /\ w(p).row = req[p].row
             /\ w(p).crossed = (req[p].crossed \/ p \in Others(q)) /\ w(p).slip = req[p].slip
             /\ w(p).kind = req[p].kind /\ w(p).app = req[p].app /\ w(p).of = req[p].of
  <2>1. (req[p].crossed \/ p \in Others(q)) \in BOOLEAN
    BY Zenon
  <2>2. w(p) = [req[p] EXCEPT !.crossed = (req[p].crossed \/ p \in Others(q))]
    BY <1>0 DEF Requests
  <2> QED
    BY <1>0, <2>1, <2>2 DEF Requests
<1> HIDE DEF v, w
<1>3. req' = [p \in Reqs |-> IF p = q THEN v ELSE w(p)]
  BY DEF v, w, Moves
<1>4. req' \in [Reqs -> Requests] /\ req'[q] = v /\ \A p \in Reqs \ {q} : req'[p] = w(p)
  BY <1>1, <1>2, <1>3
<1>5. KindsKnown'
  <2>1. ASSUME NEW p \in Reqs
        PROVE  /\ req'[p].st = "free" <=> req'[p].kind = "none"
               /\ req'[p].st # "free" => req'[p].app \in Apps
               /\ req'[p].kind \in {"disconnect", "config", "token", "start", "leave"}
                    => req'[p].app \in Providers
               /\ req'[p].kind = "config" => req'[p].of \in Providers
               /\ req'[p].kind \in {"start", "leave"} => req'[p].st \in {"first", "ok", "failed"}
    <3>1. CASE p = q
      BY <1>1, <1>4, <3>1 DEF TypeInv, KindsKnown, Steps
    <3>2. CASE p # q
      <4>1. req'[p] = w(p)
        BY <1>4, <3>2
      <4>2. /\ w(p).st = req[p].st /\ w(p).kind = req[p].kind
            /\ w(p).app = req[p].app /\ w(p).of = req[p].of
        BY <1>2
      <4> QED
        BY <4>1, <4>2 DEF TypeInv, KindsKnown
    <3> QED
      BY <3>1, <3>2
  <2> QED
    BY <2>1 DEF KindsKnown
<1> QED
  BY <1>1, <1>2, <1>4, <1>5 DEF MovedOn

\* What the tables have of an app stays.
SameOf(b) ==
  /\ server'[b] = server[b]
  /\ b \in Providers => cred'[b] = cred[b]
  /\ b \in doubled' <=> b \in doubled

\* What request q's statement does to the requests, and to what was said.
Moved(q, st, row, slip) ==
  LET a == req[q].app IN
  /\ req' \in [Reqs -> Requests] /\ KindsKnown' /\ said' \in [Apps -> {"on", "off", "hollow", None}]
  /\ req'[q].st = st /\ req'[q].row = row /\ req'[q].slip = slip
  /\ \A p \in Reqs : /\ req'[p].kind = req[p].kind /\ req'[p].app = req[p].app
                     /\ req[p].crossed => req'[p].crossed
                     /\ p # q => /\ req'[p].st = req[p].st /\ req'[p].row = req[p].row
                                 /\ req'[p].slip = req[p].slip
                     /\ p # q /\ Running(p) /\ req[p].app = a => req'[p].crossed
  /\ window.stage = "writes" /\ window.app = a => req'[q].crossed
  /\ \A b \in Apps \ {a} : said'[b] = said[b]
  /\ said'[a] # None =>
       st = "ok" /\ ~req[q].crossed /\ ~req'[q].crossed /\ said'[a] = Word(req[q].kind, slip)
  /\ UNCHANGED <<page, env, cache, dialog, timers, behind, window, cookie>>

LEMMA RanIs ==
  ASSUME TypeInv, NEW q \in Reqs, req[q].st # "free",
         NEW st \in Steps \cup {"ok", "failed"}, NEW row \in Stamps \cup {None},
         NEW slip \in BOOLEAN,
         req[q].kind \in {"start", "leave"} => st \in {"first", "ok", "failed"},
         Ran(q, st, row, slip)
  PROVE  Moved(q, st, row, slip)
<1> DEFINE a == req[q].app
           word == IF st = "ok" /\ ~Crossed(q) THEN Word(req[q].kind, slip) ELSE None
<1>1. /\ req' = Moves(q, st, row, slip)
      /\ said' = [said EXCEPT ![a] = word]
      /\ UNCHANGED <<page, env, cache, dialog, timers, behind, window, cookie>>
  BY DEF Ran, Moves, Crossed, Others, client, outside
<1>3. \A p \in Reqs \ {q} : p \in Others(q) <=> Running(p) /\ req[p].app = a
  BY DEF Others
<1>4. /\ Crossed(q) <=> \/ req[q].crossed \/ Others(q) # {}
                        \/ window.stage = "writes" /\ window.app = a
      /\ a \in Apps
  BY DEF TypeInv, KindsKnown, Crossed
<1>5. /\ word \in {"on", "off", "hollow", None}
      /\ word # None => st = "ok" /\ ~Crossed(q) /\ word = Word(req[q].kind, slip)
  BY DEF Word
<1> HIDE DEF word
<1>6. /\ req' \in [Reqs -> Requests] /\ KindsKnown'
      /\ req'[q].st = st /\ req'[q].row = row /\ req'[q].crossed = Crossed(q)
      /\ req'[q].slip = slip
      /\ \A p \in Reqs : /\ req'[p].kind = req[p].kind /\ req'[p].app = req[p].app
                         /\ p # q => /\ req'[p].st = req[p].st /\ req'[p].row = req[p].row
                                     /\ req'[p].crossed = (req[p].crossed \/ p \in Others(q))
                                     /\ req'[p].slip = req[p].slip
  <2> HIDE DEF a
  <2>1. req' = Moves(q, st, row, slip)
    BY <1>1
  <2>2. MovedOn(q, st, row, slip)
    BY <2>1, ReqMoves
  <2> QED
    BY <2>2 DEF MovedOn
<1>7. /\ said' \in [Apps -> {"on", "off", "hollow", None}] /\ said'[a] = word
      /\ \A b \in Apps \ {a} : said'[b] = said[b]
  BY <1>1, <1>4, <1>5 DEF TypeInv, TypeOK
<1>8. \A p \in Reqs : /\ req[p].crossed => req'[p].crossed
                      /\ p # q /\ Running(p) /\ req[p].app = a => req'[p].crossed
  <2>1. ASSUME NEW p \in Reqs, p # q
        PROVE  /\ req[p].crossed => req'[p].crossed
               /\ Running(p) /\ req[p].app = a => req'[p].crossed
    <3>1. req'[p].crossed = (req[p].crossed \/ p \in Others(q))
      BY <1>6, <2>1
    <3>2. Running(p) /\ req[p].app = a => p \in Others(q)
      BY <1>3, <2>1
    <3> QED
      BY <3>1, <3>2
  <2> QED
    BY <1>4, <1>6, <2>1
<1>9. /\ window.stage = "writes" /\ window.app = a => req'[q].crossed
      /\ ~req'[q].crossed => ~req[q].crossed
  BY <1>4, <1>6
<1>10. said'[a] # None =>
         st = "ok" /\ ~req[q].crossed /\ ~req'[q].crossed /\ said'[a] = Word(req[q].kind, slip)
  BY <1>5, <1>6, <1>7, <1>9
<1>11. \A p \in Reqs : /\ req'[p].kind = req[p].kind /\ req'[p].app = req[p].app
                       /\ p # q => /\ req'[p].st = req[p].st /\ req'[p].row = req[p].row
                                   /\ req'[p].slip = req[p].slip
  BY <1>6
<1> QED
  BY <1>1, <1>6, <1>7, <1>8, <1>9, <1>10, <1>11 DEF Moved

LEMMA StatementIs ==
  ASSUME TypeInv, NEW q \in Reqs, req[q].st # "free",
         NEW st \in Steps \cup {"ok", "failed"}, NEW row \in Stamps \cup {None},
         req[q].kind \in {"start", "leave"} => st \in {"first", "ok", "failed"},
         Statement(q, st, row)
  PROVE  Moved(q, st, row, req[q].slip) /\ acts' \in Stamps
<1>1. req[q].slip \in BOOLEAN /\ acts \in Stamps
  BY DEF TypeInv, TypeOK, Requests
<1>2. Ran(q, st, row, req[q].slip) /\ acts' = acts
  BY DEF Statement
<1> QED
  BY <1>1, <1>2, RanIs

\* What any statement of request q leaves, and who it crosses.
Left(q) ==
  LET a == req[q].app IN
  /\ \A p \in Reqs : /\ req'[p].kind = req[p].kind /\ req'[p].app = req[p].app
                     /\ req[p].crossed => req'[p].crossed
                     /\ p # q => /\ req'[p].st = req[p].st /\ req'[p].row = req[p].row
                                 /\ req'[p].slip = req[p].slip
                     /\ p # q /\ Running(p) /\ req[p].app = a => req'[p].crossed \/ SameOf(a)
  /\ window.stage = "writes" /\ window.app = a /\ Running(q)' => req'[q].crossed
  /\ \A b \in Apps \ {a} : said'[b] = said[b]
  /\ UNCHANGED <<page, env, cache, dialog, timers, behind, window, cookie>>

\* A handler's statement: only the rows of its app change, and who runs at the
\* same time about it is crossed.
Local(q) ==
  LET a == req[q].app IN
  /\ TypeInv' /\ DoublesKnown'
  /\ Left(q)
  /\ req[q].st # "free" /\ req'[q].st # "free"
  /\ \A b \in Apps \ {a} : SameOf(b)
  /\ ~req'[q].crossed /\ ~req'[q].slip => Knows(q)'
  /\ said'[a] = "on" => Connected(a)'
  /\ said'[a] = "off" /\ a \notin doubled' => ~Connected(a)'
  /\ \A k \in Queries : /\ Telling(q, k) => Telling(q, k)'
                        /\ Telling(q, k)' \/ \A b \in AppsOf(k) : SameOf(b)

\* The tables as a statement about the app a may leave them.
Tables(a) ==
  /\ server' \in [Apps -> {"none", "linked", "loose"}]
  /\ cred' \in [Providers -> Seq(Credential)] /\ \A p \in Providers : Table(cred'[p])
  /\ doubled' \subseteq Providers /\ DoublesKnown'
  /\ \A b \in Apps \ {a} : SameOf(b)

LEMMA LocalIs ==
  ASSUME TypeInv, NEW q \in Reqs, req[q].st # "free", NEW st, NEW row, NEW slip, st # "free",
         Moved(q, st, row, slip), acts' \in Stamps, Tables(req[q].app),
         \/ /\ req[q].kind \in {"link", "unlink", "disconnect", "config", "token"}
            /\ st \in {"second", "third", "fourth", "ok"}
         \/ req[q].kind = "link" /\ st = "failed",
         ~req'[q].crossed /\ ~req'[q].slip => Knows(q)',
         said'[req[q].app] = "on" => Connected(req[q].app)',
         said'[req[q].app] = "off" /\ req[q].app \notin doubled' => ~Connected(req[q].app)'
  PROVE  Local(q)
<1> DEFINE a == req[q].app
<1>1. TypeOK'
  BY DEF Moved, Tables, Table, TypeInv, TypeOK
<1>2. TypeInv'
  BY <1>1 DEF Moved, TypeInv, DialogKnown, ReadsKnown
<1>3. req'[q].st = st /\ req'[q].kind = req[q].kind
  BY DEF Moved
<1>4. req[q].kind \in Kinds /\ (req[q].kind \in {"disconnect", "config", "token"} => a \in Providers)
  BY DEF TypeInv, TypeOK, KindsKnown, Requests
<1>5. ASSUME NEW k \in Queries
      PROVE  /\ Telling(q, k) => Telling(q, k)'
             /\ Telling(q, k)' \/ \A b \in AppsOf(k) : SameOf(b)
  <2>1. Telling(q, k) => Telling(q, k)'
    BY <1>3 DEF Telling
  <2>2. CASE k = "providers" \/ req[q].kind \in {"link", "unlink"}
    BY <1>3, <2>1, <2>2 DEF Telling
  <2>3. CASE k = "servers" /\ a \in Providers
    <3>1. a \notin AppsOf(k) /\ AppsOf(k) \subseteq Apps
      BY <2>3 DEF AppsOf, QueryOf
    <3> QED
      BY <2>1, <3>1 DEF Tables
  <2> QED
    BY <1>4, <2>2, <2>3 DEF Queries
<1>6. Left(q)
  BY DEF Moved, Left
<1> QED
  BY <1>2, <1>3, <1>5, <1>6 DEF Local, Tables

\* A statement that only reads.
LEMMA ReadOnly ==
  ASSUME TypeInv, DoublesKnown, NEW a \in Apps, UNCHANGED <<cred, server, doubled>>
  PROVE  Tables(a)
BY DEF Tables, Table, SameOf, TypeInv, TypeOK, DoublesKnown

LEMMA FreeKinds ==
  ASSUME TypeInv, NEW q \in Reqs, req[q].kind # "none"
  PROVE  /\ req[q].st # "free" /\ req[q].app \in Apps /\ req[q] \in Requests
         /\ req[q].kind \in {"disconnect", "config", "token"} => req[q].app \in Providers
BY DEF TypeInv, TypeOK, KindsKnown

LEMMA SaidNone == None \notin {"on", "off", "hollow"}
OBVIOUS

LEMMA UnlinkAppIs ==
  ASSUME TypeInv, DoublesKnown, UncrossedKnow, NEW q \in Reqs, UnlinkApp(q)
  PROVE  Local(q)
<1> DEFINE a == req[q].app
           st == IF req[q].kind = "disconnect" THEN "ok" ELSE "second"
<1>1. /\ \/ req[q].kind = "disconnect" /\ req[q].st = "third"
         \/ req[q].kind \in {"link", "unlink"} /\ req[q].st = "first"
      /\ server' = [server EXCEPT ![a] = IF @ = "linked" THEN "loose" ELSE @]
      /\ Statement(q, st, None) /\ UNCHANGED <<cred, doubled>>
  BY DEF UnlinkApp
<1>2. a \in Apps /\ req[q].st # "free" /\ (req[q].kind = "disconnect" => a \in Providers)
  BY <1>1, FreeKinds
<1>3. Moved(q, st, None, req[q].slip) /\ acts' \in Stamps
  BY <1>1, <1>2, StatementIs DEF Steps
<1>4. /\ server' \in [Apps -> {"none", "linked", "loose"}] /\ server'[a] # "linked"
      /\ \A b \in Apps \ {a} : server'[b] = server[b]
  BY <1>1, <1>2 DEF TypeInv, TypeOK
<1>5. Tables(a)
  BY <1>1, <1>4 DEF Tables, Table, SameOf, TypeInv, TypeOK, DoublesKnown
<1>6. req'[q].kind = req[q].kind /\ req'[q].app = a /\ req'[q].st = st
  BY <1>3 DEF Moved
<1>7. Knows(q)'
  BY <1>1, <1>4, <1>6 DEF Knows, Linked
<1>8. said'[a] \in {"on", "off"} =>
        req[q].kind = "disconnect" /\ ~req[q].crossed /\ ~req[q].slip /\ said'[a] = "off"
  BY <1>1, <1>3, SaidNone DEF Moved, Word
<1>9. said'[a] = "off" /\ a \notin doubled' => ~Connected(a)'
  <2>1. said'[a] = "off" /\ a \notin doubled' => cred[a] = <<>>
    BY <1>1, <1>8 DEF UncrossedKnow, Knows
  <2> QED
    BY <1>1, <1>4, <1>6, <2>1 DEF Connected, Linked, HasCredential
<1> QED
  BY <1>1, <1>2, <1>3, <1>5, <1>7, <1>8, <1>9, LocalIs

LEMMA ReadNewestIs ==
  ASSUME TypeInv, DoublesKnown, UncrossedKnow, NEW q \in Reqs, ReadNewest(q)
  PROVE  Local(q)
<1> DEFINE a == req[q].app
           st == IF req[q].kind = "unlink" THEN "third" ELSE "second"
           row == IF a \in Providers THEN Newest(a) ELSE None
<1>1. /\ \/ req[q].kind = "unlink" /\ req[q].st = "second"
         \/ req[q].kind \in {"disconnect", "token"} /\ req[q].st = "first"
      /\ Statement(q, st, row) /\ UNCHANGED <<cred, server, doubled>>
  BY DEF ReadNewest
<1>2. a \in Apps /\ req[q].st # "free" /\ (req[q].kind # "unlink" => a \in Providers)
  BY <1>1, FreeKinds
<1>3. row \in Stamps \cup {None}
  BY NewestIs DEF TypeInv
<1>4. Moved(q, st, row, req[q].slip) /\ acts' \in Stamps
  BY <1>1, <1>2, <1>3, StatementIs DEF Steps
<1>5. Tables(a)
  BY <1>1, <1>2, ReadOnly
<1>6. req'[q].kind = req[q].kind /\ req'[q].app = a /\ req'[q].st = st /\ req'[q].row = row
      /\ (~req'[q].crossed => ~req[q].crossed) /\ req'[q].slip = req[q].slip
  BY <1>4 DEF Moved
<1>7. Newest(a)' = Newest(a) /\ Linked(a)' = Linked(a)
  BY <1>1, <1>6 DEF Newest, Linked
<1>8. ~req'[q].crossed /\ ~req'[q].slip => Knows(q)'
  <2>1. ~req'[q].crossed /\ ~req'[q].slip /\ req[q].kind = "unlink" => ~Linked(a)
    BY <1>1, <1>6 DEF UncrossedKnow, Knows
  <2> QED
    BY <1>1, <1>2, <1>6, <1>7, <2>1 DEF Knows
<1>9. said'[a] = None
  BY <1>1, <1>4 DEF Moved
<1> QED
  BY <1>1, <1>2, <1>4, <1>5, <1>8, <1>9, SaidNone, LocalIs

LEMMA DeleteCredentialIs ==
  ASSUME TypeInv, DoublesKnown, UncrossedKnow, NEW q \in Reqs, DeleteCredential(q)
  PROVE  Local(q)
<1> DEFINE a == req[q].app
           st == IF req[q].kind = "unlink" THEN "ok" ELSE "third"
           c == Without(cred[a], req[q].row)
<1>1. /\ \/ req[q].kind = "unlink" /\ req[q].st = "third"
         \/ req[q].kind = "disconnect" /\ req[q].st = "second"
      /\ cred' = IF a \in Providers THEN [cred EXCEPT ![a] = c] ELSE cred
      /\ Statement(q, st, None) /\ UNCHANGED <<server, doubled>>
  BY DEF DeleteCredential
<1>2. a \in Apps /\ req[q].st # "free" /\ (req[q].kind # "unlink" => a \in Providers)
  BY <1>1, FreeKinds
<1>3. Moved(q, st, None, req[q].slip) /\ acts' \in Stamps
  BY <1>1, <1>2, StatementIs DEF Steps
<1>4. /\ cred \in [Providers -> Seq(Credential)] /\ \A p \in Providers : Table(cred[p])
      /\ server \in [Apps -> {"none", "linked", "loose"}] /\ doubled \subseteq Providers
  BY DEF TypeInv, TypeOK, Table
<1>5. a \in Providers => /\ Table(c) /\ Len(c) <= Len(cred[a]) /\ Len(c) \in Nat
                         /\ Len(cred[a]) \in Nat /\ c \in Seq(Credential)
                         /\ Len(cred[a]) <= 1 /\ req[q].row = Newest(a) => c = <<>>
  <2>1. ASSUME a \in Providers
        PROVE  /\ Table(c) /\ Len(c) <= Len(cred[a])
               /\ Len(cred[a]) <= 1 /\ req[q].row = Newest(a) => c = <<>>
    <3>1. cred[a] # <<>> => Newest(a) = cred[a][1].id
      BY <2>1, NewestIs DEF TypeInv
    <3> QED
      BY <1>4, <2>1, <3>1, WithoutIs
  <2> QED
    BY <1>4, <2>1 DEF Table
<1> HIDE DEF c
<1>6. cred' \in [Providers -> Seq(Credential)]
      /\ (a \in Providers => cred'[a] = c)
      /\ \A p \in Providers : p # a => cred'[p] = cred[p]
  BY <1>1, <1>4, <1>5
<1>7. Tables(a)
  <2>1. \A p \in Providers : Table(cred'[p])
    BY <1>4, <1>5, <1>6
  <2>2. DoublesKnown'
    <3>1. ASSUME NEW p \in Providers, Len(cred'[p]) > 1 PROVE p \in doubled'
      <4>1. Len(cred[p]) > 1
        BY <1>4, <1>5, <1>6, <3>1
      <4> QED
        BY <1>1, <4>1 DEF DoublesKnown
    <3> QED
      BY <3>1 DEF DoublesKnown
  <2> QED
    BY <1>1, <1>4, <1>6, <2>1, <2>2 DEF Tables, SameOf
<1>8. req'[q].kind = req[q].kind /\ req'[q].app = a /\ req'[q].st = st
      /\ (~req'[q].crossed => ~req[q].crossed) /\ req'[q].slip = req[q].slip
  BY <1>3 DEF Moved
<1>9. ~req[q].crossed /\ ~req[q].slip /\ a \in Providers /\ a \notin doubled' => cred'[a] = <<>>
  <2>1. ~req[q].crossed /\ ~req[q].slip /\ a \in Providers => req[q].row = Newest(a)
    BY <1>1 DEF UncrossedKnow, Knows
  <2>2. a \in Providers /\ a \notin doubled' => Len(cred[a]) <= 1
    BY <1>1, <1>5 DEF DoublesKnown
  <2> QED
    BY <1>5, <1>6, <2>1, <2>2
<1>10. ~req'[q].crossed /\ ~req'[q].slip => Knows(q)'
  BY <1>1, <1>2, <1>8, <1>9 DEF Knows
<1>11. said'[a] \in {"on", "off"} =>
         req[q].kind = "unlink" /\ ~req[q].crossed /\ ~req[q].slip /\ said'[a] = "off"
  BY <1>1, <1>3, SaidNone DEF Moved, Word
<1>12. said'[a] = "off" /\ a \notin doubled' => ~Connected(a)'
  <2>1. said'[a] = "off" => ~Linked(a)
    BY <1>1, <1>11 DEF UncrossedKnow, Knows
  <2> QED
    BY <1>1, <1>2, <1>8, <1>9, <1>11, <2>1 DEF Connected, Linked, HasCredential
<1> QED
  BY <1>1, <1>2, <1>3, <1>7, <1>10, <1>11, <1>12, LocalIs

LEMMA CreateServerIs ==
  ASSUME TypeInv, DoublesKnown, NEW q \in Reqs, CreateServer(q)
  PROVE  Local(q)
<1> DEFINE a == req[q].app
           st == IF server[a] = "none" THEN "ok" ELSE "third"
<1>1. /\ req[q].kind = "link" /\ req[q].st = "second"
      /\ server' = [server EXCEPT ![a] = IF server[a] = "none" THEN "linked" ELSE @]
      /\ Statement(q, st, None) /\ UNCHANGED <<cred, doubled>>
  BY DEF CreateServer
<1>2. a \in Apps /\ req[q].st # "free"
  BY <1>1, FreeKinds
<1>3. Moved(q, st, None, req[q].slip) /\ acts' \in Stamps
  BY <1>1, <1>2, StatementIs DEF Steps
<1>4. /\ server' \in [Apps -> {"none", "linked", "loose"}]
      /\ st = "ok" => server'[a] = "linked"
      /\ \A b \in Apps \ {a} : server'[b] = server[b]
  BY <1>1, <1>2 DEF TypeInv, TypeOK
<1>5. Tables(a)
  BY <1>1, <1>4 DEF Tables, Table, SameOf, TypeInv, TypeOK, DoublesKnown
<1>6. req'[q].kind = "link" /\ req'[q].app = a
  BY <1>1, <1>3 DEF Moved
<1>7. Knows(q)'
  BY <1>6 DEF Knows
<1>8. said'[a] \in {"on", "off"} => said'[a] = "on" /\ Connected(a)'
  BY <1>1, <1>3, <1>4, <1>6, SaidNone DEF Moved, Word, Connected, Linked
<1> QED
  BY <1>1, <1>2, <1>3, <1>5, <1>7, <1>8, LocalIs

LEMMA FindServerIs ==
  ASSUME TypeInv, DoublesKnown, NEW q \in Reqs, FindServer(q)
  PROVE  Local(q)
<1> DEFINE a == req[q].app
           st == IF Linked(a) THEN "fourth" ELSE "failed"
<1>1. /\ req[q].kind = "link" /\ req[q].st = "third"
      /\ Statement(q, st, None) /\ UNCHANGED <<cred, server, doubled>>
  BY DEF FindServer
<1>2. a \in Apps /\ req[q].st # "free"
  BY <1>1, FreeKinds
<1>3. Moved(q, st, None, req[q].slip) /\ acts' \in Stamps
  BY <1>1, <1>2, StatementIs DEF Steps
<1>4. Tables(a)
  BY <1>1, <1>2, ReadOnly
<1>5. req'[q].kind = "link"
  BY <1>1, <1>3 DEF Moved
<1>6. Knows(q)'
  BY <1>5 DEF Knows
<1>7. said'[a] = None
  BY <1>3 DEF Moved
<1> QED
  BY <1>1, <1>2, <1>3, <1>4, <1>6, <1>7, SaidNone, LocalIs

LEMMA UpdateServerIs ==
  ASSUME TypeInv, DoublesKnown, NEW q \in Reqs, UpdateServer(q)
  PROVE  Local(q)
<1> DEFINE a == req[q].app
<1>1. /\ req[q].kind = "link" /\ req[q].st = "fourth"
      /\ server' = [server EXCEPT ![a] = "linked"]
      /\ Statement(q, "ok", None) /\ UNCHANGED <<cred, doubled>>
  BY DEF UpdateServer
<1>2. a \in Apps /\ req[q].st # "free"
  BY <1>1, FreeKinds
<1>3. Moved(q, "ok", None, req[q].slip) /\ acts' \in Stamps
  BY <1>1, <1>2, StatementIs DEF Steps
<1>4. /\ server' \in [Apps -> {"none", "linked", "loose"}] /\ server'[a] = "linked"
      /\ \A b \in Apps \ {a} : server'[b] = server[b]
  BY <1>1, <1>2 DEF TypeInv, TypeOK
<1>5. Tables(a)
  BY <1>1, <1>4 DEF Tables, Table, SameOf, TypeInv, TypeOK, DoublesKnown
<1>6. req'[q].kind = "link" /\ req'[q].app = a
  BY <1>1, <1>3 DEF Moved
<1>7. Knows(q)'
  BY <1>6 DEF Knows
<1>8. said'[a] \in {"on", "off"} => said'[a] = "on" /\ Connected(a)'
  BY <1>1, <1>3, <1>4, <1>6, SaidNone DEF Moved, Word, Connected, Linked
<1> QED
  BY <1>1, <1>2, <1>3, <1>5, <1>7, <1>8, LocalIs

\* The rows of a provider are written.
LEMMA StoreIs ==
  ASSUME TypeInv, DoublesKnown, NEW p \in Providers, NEW c, Table(c), Store(p, c),
         UNCHANGED server
  PROVE  Tables(p) /\ cred'[p] = c
<1>1. /\ cred' = [cred EXCEPT ![p] = c]
      /\ doubled' = IF Len(c) > 1 THEN doubled \cup {p} ELSE doubled
  BY DEF Store
<1>2. /\ cred \in [Providers -> Seq(Credential)] /\ \A o \in Providers : Table(cred[o])
      /\ server \in [Apps -> {"none", "linked", "loose"}] /\ doubled \subseteq Providers
  BY DEF TypeInv, TypeOK, Table
<1>3. c \in Seq(Credential)
  BY DEF Table
<1>4. /\ cred' \in [Providers -> Seq(Credential)] /\ cred'[p] = c
      /\ \A o \in Providers : o # p => cred'[o] = cred[o]
  BY <1>1, <1>2, <1>3
<1>5. \A o \in Providers : Table(cred'[o])
  BY <1>2, <1>4
<1>6. doubled' \subseteq Providers /\ \A b : b # p => (b \in doubled' <=> b \in doubled)
  BY <1>1, <1>2
<1>7. DoublesKnown'
  <2>1. ASSUME NEW o \in Providers, Len(cred'[o]) > 1 PROVE o \in doubled'
    <3>1. CASE o = p
      BY <1>1, <1>4, <2>1, <3>1
    <3>2. CASE o # p
      BY <1>4, <1>6, <2>1, <3>2 DEF DoublesKnown
    <3> QED
      BY <3>1, <3>2
  <2> QED
    BY <2>1 DEF DoublesKnown
<1> QED
  BY <1>2, <1>4, <1>5, <1>6, <1>7 DEF Tables, SameOf

LEMMA WriteTokenIs ==
  ASSUME TypeInv, DoublesKnown, UncrossedKnow, NEW q \in Reqs, WriteToken(q)
  PROVE  Local(q)
<1> DEFINE p == req[q].app
           x == [id |-> req[q].at, name |-> "token", holds |-> "token", of |-> p]
           c == IF req[q].row = None THEN Put(cred[p], x)
                ELSE Rewrite(p, req[q].row, None, x.holds, x.of)
<1>1. /\ req[q].kind = "token" /\ req[q].st = "second"
      /\ Store(p, c) /\ Statement(q, "ok", None) /\ UNCHANGED server
  BY DEF WriteToken
<1>2. p \in Apps /\ p \in Providers /\ req[q].st # "free" /\ req[q] \in Requests
  BY <1>1, FreeKinds
<1>3. Moved(q, "ok", None, req[q].slip) /\ acts' \in Stamps
  BY <1>1, <1>2, StatementIs DEF Steps
<1>4. x \in Credential /\ req[q].row \in Stamps \cup {None}
  BY <1>2 DEF Requests, Credential
<1> HIDE DEF x
<1>5. Table(c) /\ (req[q].row = Newest(p) => c # <<>>)
  BY <1>2, <1>4, WriteIs DEF TypeInv
<1> HIDE DEF c
<1>6. Tables(p) /\ cred'[p] = c
  BY <1>1, <1>2, <1>5, StoreIs
<1>7. req'[q].kind = "token" /\ req'[q].app = p /\ req'[q].st = "ok"
  BY <1>1, <1>3 DEF Moved
<1>8. Knows(q)'
  BY <1>7 DEF Knows
<1>9. said'[p] \in {"on", "off"} => said'[p] = "on" /\ ~req[q].crossed /\ ~req[q].slip
  BY <1>1, <1>3, SaidNone DEF Moved, Word
<1>10. said'[p] \in {"on", "off"} => Connected(p)'
  <2>1. ~req[q].crossed /\ ~req[q].slip => req[q].row = Newest(p)
    BY <1>1 DEF UncrossedKnow, Knows
  <2> QED
    BY <1>2, <1>5, <1>6, <1>7, <1>9, <2>1 DEF Connected, HasCredential
<1> QED
  BY <1>1, <1>2, <1>3, <1>6, <1>8, <1>9, <1>10, LocalIs

LEMMA ReadConfigIs ==
  ASSUME TypeInv, DoublesKnown, NEW q \in Reqs, ReadConfig(q)
  PROVE  Local(q)
<1> DEFINE a == req[q].app
           found == {x \in Rows(a) : x.name = ConfigName}
           row == IF found = {} THEN None ELSE (CHOOSE x \in found : TRUE).id
<1>1. /\ req[q].kind = "config" /\ req[q].st = "first"
      /\ Statement(q, "second", row) /\ UNCHANGED <<cred, server, doubled>>
  BY DEF ReadConfig
<1>2. a \in Apps /\ a \in Providers /\ req[q].st # "free"
  BY <1>1, FreeKinds
<1>3. row \in Stamps \cup {None}
  <2>1. \A x \in Rows(a) : x.id \in Stamps
    <3>1. \A i \in DOMAIN cred[a] : cred[a][i] \in Credential
      BY <1>2 DEF TypeInv, TypeOK
    <3> QED
      BY <3>1 DEF Rows, Credential
  <2> QED
    BY <2>1
<1> HIDE DEF row
<1>4. Moved(q, "second", row, req[q].slip) /\ acts' \in Stamps
  BY <1>1, <1>2, <1>3, StatementIs DEF Steps
<1>5. Tables(a)
  BY <1>1, <1>2, ReadOnly
<1>6. req'[q].kind = "config"
  BY <1>1, <1>4 DEF Moved
<1>7. Knows(q)'
  BY <1>6 DEF Knows
<1>8. said'[a] = None
  BY <1>4 DEF Moved
<1> QED
  BY <1>1, <1>2, <1>4, <1>5, <1>7, <1>8, SaidNone, LocalIs

LEMMA WriteConfigIs ==
  ASSUME TypeInv, DoublesKnown, NEW q \in Reqs, WriteConfig(q)
  PROVE  Local(q)
<1> DEFINE p == req[q].app
           x == [id |-> req[q].at, name |-> ConfigName, holds |-> "client", of |-> req[q].of]
           c == IF req[q].row = None THEN Put(cred[p], x)
                ELSE Rewrite(p, req[q].row, None, x.holds, x.of)
<1>1. /\ req[q].kind = "config" /\ req[q].st = "second"
      /\ Store(p, c) /\ Statement(q, "ok", None) /\ UNCHANGED server
  BY DEF WriteConfig
<1>2. p \in Apps /\ p \in Providers /\ req[q].st # "free" /\ req[q] \in Requests
      /\ req[q].of \in Providers
  BY <1>1, FreeKinds DEF TypeInv, KindsKnown
<1>3. Moved(q, "ok", None, req[q].slip) /\ acts' \in Stamps
  BY <1>1, <1>2, StatementIs DEF Steps
<1>4. x \in Credential /\ req[q].row \in Stamps \cup {None}
  BY <1>2 DEF Requests, Credential, Apps
<1> HIDE DEF x
<1>5. Table(c)
  BY <1>2, <1>4, WriteIs DEF TypeInv
<1> HIDE DEF c
<1>6. Tables(p)
  BY <1>1, <1>2, <1>5, StoreIs
<1>7. req'[q].kind = "config"
  BY <1>1, <1>3 DEF Moved
<1>8. Knows(q)'
  BY <1>7 DEF Knows
<1>9. said'[p] = None
  BY <1>1, <1>3 DEF Moved, Word
<1> QED
  BY <1>1, <1>2, <1>3, <1>6, <1>8, <1>9, SaidNone, LocalIs

\* A statement that fails changes nothing, and its request knows nothing more.
LEMMA StatementFailsIs ==
  ASSUME TypeInv, DoublesKnown, NEW q \in Reqs, StatementFails(q)
  PROVE  Local(q)
<1> DEFINE a == req[q].app
           st == Onward(req[q].kind, req[q].st)
<1>1. /\ req[q].st \in Steps /\ req[q].kind \notin {"start", "leave"} /\ Act
      /\ Ran(q, st, None, TRUE) /\ UNCHANGED <<cred, server, doubled>>
  BY DEF StatementFails
<1>2. a \in Apps /\ req[q].st # "free" /\ req[q].kind \in Kinds
  BY <1>1 DEF TypeInv, TypeOK, KindsKnown, Requests, Steps
<1>3. /\ st \in {"second", "third", "fourth", "ok", "failed"}
      /\ st = "failed" => req[q].kind = "link"
  BY DEF Onward
<1> HIDE DEF st
<1>4. Moved(q, st, None, TRUE)
  BY <1>1, <1>2, <1>3, RanIs DEF Steps
<1>5. acts' \in Stamps
  BY <1>1 DEF TypeInv, TypeOK, Act, Stamps
<1>6. Tables(a)
  BY <1>1, <1>2, ReadOnly
<1>7. req'[q].slip /\ said'[a] \notin {"on", "off"}
  BY <1>4, SaidNone DEF Moved, Word
<1> QED
  BY <1>1, <1>2, <1>3, <1>4, <1>5, <1>6, <1>7, LocalIs DEF Kinds

\* handleToolOAuthStart only looks into the tables.
LEMMA StartAnswersIs ==
  ASSUME TypeInv, DoublesKnown, SaidIsSo, NEW q \in Reqs, StartAnswers(q)
  PROVE  Local(q)
<1> DEFINE a == req[q].app
           st == IF Resolves(a) THEN "ok" ELSE "failed"
<1>1. /\ req[q].kind \in {"start", "leave"} /\ req[q].st = "first"
      /\ req' = [req EXCEPT ![q].st = st]
      /\ UNCHANGED <<page, env, cred, server, doubled, said, cache, dialog, timers, behind, window,
                     cookie, acts>>
  BY DEF StartAnswers, tables, client, outside
<1>2. a \in Apps /\ req[q].st # "free" /\ req[q] \in Requests /\ req \in [Reqs -> Requests]
  BY <1>1, FreeKinds DEF TypeInv, TypeOK
<1> HIDE DEF st
<1>3. [req[q] EXCEPT !.st = st] \in Requests /\ st \in {"ok", "failed"}
  BY <1>2 DEF Requests, st
<1>4. /\ req' \in [Reqs -> Requests] /\ req'[q] = [req[q] EXCEPT !.st = st]
      /\ \A p \in Reqs : p # q => req'[p] = req[p]
  BY <1>1, <1>2, <1>3
<1>5. /\ req'[q].kind = req[q].kind /\ req'[q].app = a /\ req'[q].row = req[q].row
      /\ req'[q].of = req[q].of /\ req'[q].crossed = req[q].crossed /\ req'[q].st = st
  BY <1>2, <1>4 DEF Requests
<1>6. KindsKnown'
  <2>1. ASSUME NEW p \in Reqs
        PROVE  /\ req'[p].st = "free" <=> req'[p].kind = "none"
               /\ req'[p].st # "free" => req'[p].app \in Apps
               /\ req'[p].kind \in {"disconnect", "config", "token", "start", "leave"}
                    => req'[p].app \in Providers
               /\ req'[p].kind = "config" => req'[p].of \in Providers
               /\ req'[p].kind \in {"start", "leave"} => req'[p].st \in {"first", "ok", "failed"}
    <3>1. CASE p = q
      BY <1>1, <1>3, <1>5, <3>1 DEF TypeInv, KindsKnown
    <3>2. CASE p # q
      BY <1>4, <3>2 DEF TypeInv, KindsKnown
    <3> QED
      BY <3>1, <3>2
  <2> QED
    BY <2>1 DEF KindsKnown
<1>7. TypeInv' /\ DoublesKnown'
  BY <1>1, <1>4, <1>6 DEF TypeInv, TypeOK, DialogKnown, ReadsKnown, DoublesKnown
<1>8. \A b \in Apps : SameOf(b)
  BY <1>1 DEF SameOf
<1>9. \A k \in Queries : ~Telling(q, k) /\ \A b \in AppsOf(k) : SameOf(b)
  BY <1>1, <1>8 DEF Telling, AppsOf
<1>10. Connected(a)' = Connected(a)
  BY <1>1, <1>5 DEF Connected, Linked, HasCredential
<1>11. Left(q)
  BY <1>1, <1>2, <1>3, <1>4, <1>5, <1>8 DEF Left, Running, Steps
<1>12. Knows(q)' /\ acts' \in Stamps
  BY <1>1, <1>5 DEF Knows, TypeInv, TypeOK
<1>13. said'[a] = said[a] /\ doubled' = doubled
  BY <1>1
<1>14. /\ said'[a] = "on" => Connected(a)'
       /\ said'[a] = "off" /\ a \notin doubled' => ~Connected(a)'
  BY <1>2, <1>10, <1>13 DEF SaidIsSo
<1> QED
  BY <1>2, <1>3, <1>5, <1>7, <1>8, <1>9, <1>11, <1>12, <1>14 DEF Local

LEMMA ServerStepIs ==
  ASSUME TypeInv, DoublesKnown, UncrossedKnow, SaidIsSo, NEW q \in Reqs,
         ServerStep(q) \/ StatementFails(q)
  PROVE  Local(q)
BY UnlinkAppIs, ReadNewestIs, DeleteCredentialIs, CreateServerIs, FindServerIs, UpdateServerIs,
   WriteTokenIs, ReadConfigIs, WriteConfigIs, StartAnswersIs, StatementFailsIs DEF ServerStep

-----------------------------------------------------------------------------
(* The page, its queries and its dialog                                    *)

LEMMA ActIs == ASSUME TypeInv, Act PROVE acts' \in Stamps /\ acts' = acts + 1
BY DEF TypeInv, TypeOK, Act, Stamps

\* What leaves the requests and the tables alone.
Quiet == UNCHANGED <<page, env, cred, server, doubled, said, req>>

\* A query that is asked has read nothing.
LEMMA AskedAre ==
  ASSUME TypeInv, NEW k \in Queries
  PROVE  /\ Fetched(cache[k]) \in Answers /\ Refetched(cache[k]) \in Answers
         /\ Fetched(cache[k]) = cache[k] \/ Fetched(cache[k]).out = "sent"
         /\ Refetched(cache[k]) = cache[k] \/ Refetched(cache[k]).out = "sent"
         /\ cache[k].out = "no" \/ cache[k].data # None => Refetched(cache[k]).out = "sent"
         /\ cache[k].out = "no" => Fetched(cache[k]).out = "sent"
         /\ cache[k].out # "no" => Fetched(cache[k]) = cache[k]
<1>1. cache[k] \in Answers
  BY DEF TypeInv, TypeOK
<1> QED
  BY <1>1, FetchedType DEF Fetched, Refetched, Answers

\* All queries that are not `ks` stay, and the others are asked, or known to be
\* behind.
LEMMA ReaskIs ==
  ASSUME TypeInv, NEW ks \in SUBSET Queries, Reask(ks)
  PROVE  /\ cache' \in [Queries -> Answers] /\ ReadsKnown' /\ behind' \subseteq Queries
         /\ \A k \in Queries \ behind' : \/ cache'[k].out = "sent"
                                         \/ k \notin ks /\ k \notin behind /\ cache'[k] = cache[k]
<1>1. \A k \in Queries : cache'[k] = IF k \in ks THEN Refetched(cache[k]) ELSE cache[k]
  BY DEF Reask
<1>2. behind' = (behind \ ks) \cup {k \in ks : cache[k].data = None /\ cache[k].out # "no"}
  BY DEF Reask
<1>3. cache' \in [Queries -> Answers]
  <2>1. \A k \in Queries : (IF k \in ks THEN Refetched(cache[k]) ELSE cache[k]) \in Answers
    BY AskedAre DEF TypeInv, TypeOK
  <2> QED
    BY <2>1 DEF Reask
<1>4. \A k \in Queries : cache'[k] = cache[k] \/ cache'[k].out = "sent"
  BY <1>1, AskedAre
<1>5. ReadsKnown'
  BY <1>4 DEF ReadsKnown, TypeInv
<1>6. behind' \subseteq Queries
  BY <1>2 DEF TypeInv, TypeOK
<1>7. ASSUME NEW k \in Queries \ behind'
      PROVE  \/ cache'[k].out = "sent"
             \/ k \notin ks /\ k \notin behind /\ cache'[k] = cache[k]
  <2>1. CASE k \in ks
    <3>1. cache[k].out = "no" \/ cache[k].data # None
      BY <1>2, <1>7, <2>1
    <3> QED
      BY <1>1, <2>1, <3>1, AskedAre
  <2>2. CASE k \notin ks
    BY <1>1, <1>2, <1>7, <2>2
  <2> QED
    BY <2>1, <2>2
<1> QED
  BY <1>3, <1>5, <1>6, <1>7

\* What a card follows stays so when the tables of its apps do.
LEMMA FollowsStays ==
  ASSUME NEW k \in Queries, cache'[k] = cache[k], env' = env, \A b \in AppsOf(k) : SameOf(b),
         Follows(k)
  PROVE  Follows(k)'
<1>1. \A b \in AppsOf(k) : /\ b \in Apps /\ b \in AppsOf(k)'
                           /\ (b \in Providers => cred'[b] = cred[b]) /\ server'[b] = server[b]
  BY DEF AppsOf, QueryOf, SameOf
<1>2. AppsOf(k)' = AppsOf(k)
  BY DEF AppsOf, QueryOf
<1>3. ASSUME NEW b \in AppsOf(k)
      PROVE  /\ Linked(b)' = Linked(b) /\ HasCredential(b)' = HasCredential(b)
             /\ Configured(b)' = Configured(b)
  BY <1>1, <1>3 DEF Linked, HasCredential, Configured, Rows
<1>4. ASSUME NEW b \in AppsOf(k)
      PROVE  Snapshot(k)'[b] = Snapshot(k)[b]
  BY <1>1, <1>3, <1>4 DEF Snapshot
<1> QED
  BY <1>2, <1>3, <1>4 DEF Follows

\* A query that has read nothing, and is asked, follows.
LEMMA SentFollows == ASSUME NEW k, cache'[k].out = "sent" PROVE Follows(k)'
BY DEF Follows

\* The telling requests stay.
LEMMA ToldStays ==
  ASSUME NEW k, req' = req, Told(k)
  PROVE  Told(k)'
BY DEF Told, Telling

\* The steps of the page that only touch its queries and its dialog.
PageStep ==
  \/ Refocus \/ CloseDialog \/ TypeClient \/ \E a \in Providers : OpenDialog(a)
  \/ FetchStep \/ \E at \in Stamps : TimerFires(at)

LEMMA PageSteps ==
  ASSUME TypeInv, PageStep
  PROVE  Quiet /\ UNCHANGED <<window, cookie>> /\ acts' \in Stamps
<1> USE DEF tables, outside
<1>1. acts' = acts \/ Act
  BY DEF PageStep, FetchStep, Refocus, CloseDialog, TypeClient, OpenDialog, ReadCredentials,
         ReadServers, Arrive, FetchFails, TimerFires, MisreadCredentials, MisreadServers
<1>2. acts' \in Stamps
  BY <1>1, ActIs DEF TypeInv, TypeOK
<1>3. Quiet /\ UNCHANGED <<window, cookie>>
  BY DEF PageStep, FetchStep, Refocus, CloseDialog, TypeClient, OpenDialog, ReadCredentials,
         ReadServers, Arrive, FetchFails, TimerFires, Quiet, MisreadCredentials,
         MisreadServers
<1> QED
  BY <1>2, <1>3

\* The dialog that is typed into, opened or closed.
LEMMA DialogStepIs ==
  ASSUME TypeInv, \/ CloseDialog \/ TypeClient \/ \E a \in Providers : OpenDialog(a)
                  \/ \E at \in Stamps : TimerFires(at)
  PROVE  /\ dialog' \in Dialogs /\ (dialog'.open => dialog'.app \in Providers)
         /\ UNCHANGED <<cache, behind>> /\ timers' \subseteq Stamps
<1>1. dialog \in Dialogs /\ timers \subseteq Stamps /\ (dialog.open => dialog.app \in Providers)
  BY DEF TypeInv, TypeOK, DialogKnown
<1>2. CASE CloseDialog
  BY <1>1, <1>2 DEF CloseDialog, Dialogs
<1>3. CASE TypeClient
  BY <1>1, <1>3 DEF TypeClient, Dialogs
<1>4. CASE \E a \in Providers : OpenDialog(a)
  BY <1>1, <1>4 DEF OpenDialog, Dialogs
<1>5. CASE \E at \in Stamps : TimerFires(at)
  <2>1. PICK at \in Stamps : TimerFires(at)
    BY <1>5
  <2> DEFINE busy == dialog.busy /\ ~Mine(at)
  <2>2. busy \in BOOLEAN
    BY Zenon
  <2>3. dialog' = [dialog EXCEPT !.open = FALSE, !.busy = busy]
    BY <1>1, <2>1 DEF TimerFires, Dialogs
  <2> HIDE DEF busy
  <2>4. dialog' \in Dialogs /\ dialog'.open = FALSE
    BY <1>1, <2>2, <2>3 DEF Dialogs
  <2> QED
    BY <1>1, <2>1, <2>4 DEF TimerFires
<1> QED
  BY <1>2, <1>3, <1>4, <1>5

\* What is read of the tables.
LEMMA FetchStepIs ==
  ASSUME TypeInv, FetchStep
  PROVE  /\ cache' \in [Queries -> Answers] /\ ReadsKnown' /\ behind' \subseteq Queries
         /\ timers' = timers
         /\ dialog' \in Dialogs /\ dialog'.open = dialog.open /\ dialog'.app = dialog.app
<1>1. /\ cache \in [Queries -> Answers] /\ dialog \in Dialogs /\ behind \subseteq Queries
      /\ acts \in Stamps /\ "providers" \in Queries /\ "servers" \in Queries
      /\ \A k \in Queries : cache[k] \in Answers
  BY DEF TypeInv, TypeOK, Queries
<1>2. CASE ReadCredentials
  <2> DEFINE got == [a \in Apps |-> [configured |-> Configured(a), connected |-> HasCredential(a)]]
             v == [cache["providers"] EXCEPT !.out = "half", !.got = got]
  <2>1. got \in Snapshots
    <3>1. \A a \in Apps : Configured(a) \in BOOLEAN /\ HasCredential(a) \in BOOLEAN
      BY Zenon DEF Configured, HasCredential
    <3> QED
      BY <3>1 DEF Snapshots, Facts
  <2>2. cache' = [cache EXCEPT !["providers"] = v]
    BY <1>1, <1>2 DEF ReadCredentials, Answers
  <2> HIDE DEF got
  <2>3. v \in Answers /\ v.out = "half" /\ v.got = got
    BY <1>1, <2>1 DEF Answers
  <2> HIDE DEF v
  <2>4. /\ cache' \in [Queries -> Answers] /\ cache'["providers"] = v
        /\ \A k \in Queries : k # "providers" => cache'[k] = cache[k]
    BY <1>1, <2>2, <2>3
  <2>5. ReadsKnown'
    BY <2>1, <2>3, <2>4 DEF ReadsKnown, TypeInv
  <2> QED
    BY <1>1, <1>2, <2>4, <2>5 DEF ReadCredentials
<1>3. CASE \E k \in Queries : ReadServers(k)
  <2>1. PICK k \in Queries : ReadServers(k)
    BY <1>3
  <2> DEFINE got == [a \in Apps |->
                       [configured |-> k = "providers" /\ cache[k].got[a].configured,
                        connected |-> Linked(a) \/ (k = "providers" /\ cache[k].got[a].connected)]]
             v == [cache[k] EXCEPT !.out = "read", !.got = got]
  <2>2. got \in Snapshots
    <3>1. \A a \in Apps :
            /\ (k = "providers" /\ cache[k].got[a].configured) \in BOOLEAN
            /\ (Linked(a) \/ (k = "providers" /\ cache[k].got[a].connected)) \in BOOLEAN
      BY Zenon DEF Linked
    <3> QED
      BY <3>1 DEF Snapshots, Facts
  <2>3. cache' = [cache EXCEPT ![k] = v]
    BY <1>1, <2>1 DEF ReadServers, Answers
  <2> HIDE DEF got
  <2>4. v \in Answers /\ v.out = "read" /\ v.got = got
    BY <1>1, <2>2 DEF Answers
  <2> HIDE DEF v
  <2>5. /\ cache' \in [Queries -> Answers] /\ cache'[k] = v
        /\ \A j \in Queries : j # k => cache'[j] = cache[j]
    BY <1>1, <2>3, <2>4
  <2>6. ReadsKnown'
    BY <2>2, <2>4, <2>5 DEF ReadsKnown, TypeInv
  <2> QED
    BY <1>1, <2>1, <2>5, <2>6 DEF ReadServers
<1>4. CASE \E k \in Queries : Arrive(k)
  <2>1. PICK k \in Queries : Arrive(k)
    BY <1>4
  <2> DEFINE v == [data |-> cache[k].got, out |-> "no", got |-> None]
  <2>2. v \in Answers /\ v.out = "no"
    BY <1>1 DEF Answers
  <2>3. /\ cache' = [cache EXCEPT ![k] = v] /\ UNCHANGED <<timers, behind>>
        /\ dialog' = dialog \/ dialog' = Remounted(dialog)
    BY <2>1 DEF Arrive
  <2> HIDE DEF v
  <2>4. /\ cache' \in [Queries -> Answers] /\ cache'[k] = v
        /\ \A j \in Queries : j # k => cache'[j] = cache[j]
    BY <1>1, <2>2, <2>3
  <2>5. ReadsKnown'
    BY <2>2, <2>4 DEF ReadsKnown, TypeInv
  <2>6. dialog' \in Dialogs /\ dialog'.open = dialog.open /\ dialog'.app = dialog.app
    BY <1>1, <2>3 DEF Remounted, Dialogs
  <2> QED
    BY <1>1, <2>3, <2>4, <2>5, <2>6
<1>5. CASE \E k \in Queries : FetchFails(k)
  <2>1. PICK k \in Queries : FetchFails(k)
    BY <1>5
  <2> DEFINE v == [cache[k] EXCEPT !.out = "no", !.got = None]
  <2>2. v \in Answers /\ v.out = "no"
    BY <1>1 DEF Answers
  <2>3. /\ cache' = [cache EXCEPT ![k] = v] /\ UNCHANGED <<timers, dialog>>
        /\ behind' = behind \cup {k}
    BY <1>1, <2>1 DEF FetchFails, Answers
  <2> HIDE DEF v
  <2>4. /\ cache' \in [Queries -> Answers] /\ cache'[k] = v
        /\ \A j \in Queries : j # k => cache'[j] = cache[j]
    BY <1>1, <2>2, <2>3
  <2>5. ReadsKnown'
    BY <2>2, <2>4 DEF ReadsKnown, TypeInv
  <2> QED
    BY <1>1, <2>3, <2>4, <2>5
<1>6. CASE MisreadCredentials
  <2> DEFINE got == [a \in Apps |-> [configured |-> a \in Providers /\ env, connected |-> FALSE]]
             v == [cache["providers"] EXCEPT !.out = "half", !.got = got]
  <2>1. got \in Snapshots
    <3>1. \A a \in Apps : (a \in Providers /\ env) \in BOOLEAN
      BY Zenon
    <3> QED
      BY <3>1 DEF Snapshots, Facts
  <2>2. cache' = [cache EXCEPT !["providers"] = v]
    BY <1>1, <1>6 DEF MisreadCredentials, Answers
  <2> HIDE DEF got
  <2>3. v \in Answers /\ v.out = "half" /\ v.got = got
    BY <1>1, <2>1 DEF Answers
  <2> HIDE DEF v
  <2>4. /\ cache' \in [Queries -> Answers] /\ cache'["providers"] = v
        /\ \A k \in Queries : k # "providers" => cache'[k] = cache[k]
    BY <1>1, <2>2, <2>3
  <2>5. ReadsKnown'
    BY <2>1, <2>3, <2>4 DEF ReadsKnown, TypeInv
  <2> QED
    BY <1>1, <1>6, <2>4, <2>5 DEF MisreadCredentials
<1>7. CASE \E blind \in SUBSET Providers : MisreadServers(blind)
  <2>1. PICK blind \in SUBSET Providers : MisreadServers(blind)
    BY <1>7
  <2> DEFINE partly == cache["providers"].got
             sees(a) == partly[a].connected \/ (a \notin blind /\ Linked(a))
             got == [a \in Apps |-> [configured |-> partly[a].configured, connected |-> sees(a)]]
             v == [cache["providers"] EXCEPT !.out = "read", !.got = got]
  <2>2. cache["providers"].out = "half" /\ cache["providers"].got \in Snapshots
    BY <1>1, <2>1 DEF MisreadServers, ReadsKnown, TypeInv
  <2>3. got \in Snapshots
    <3>1. \A a \in Apps : sees(a) \in BOOLEAN
      BY Zenon DEF Linked
    <3> HIDE DEF sees
    <3>2. \A a \in Apps : partly[a].configured \in BOOLEAN
      BY <2>2 DEF Snapshots, Facts
    <3> QED
      BY <3>1, <3>2 DEF Snapshots, Facts
  <2>4. cache' = [cache EXCEPT !["providers"] = v]
    BY <1>1, <2>1 DEF MisreadServers, Answers
  <2> HIDE DEF got
  <2>5. v \in Answers /\ v.out = "read" /\ v.got = got
    BY <1>1, <2>3 DEF Answers
  <2> HIDE DEF v
  <2>6. /\ cache' \in [Queries -> Answers] /\ cache'["providers"] = v
        /\ \A k \in Queries : k # "providers" => cache'[k] = cache[k]
    BY <1>1, <2>4, <2>5
  <2>7. ReadsKnown'
    BY <2>3, <2>5, <2>6 DEF ReadsKnown, TypeInv
  <2> QED
    BY <1>1, <2>1, <2>6, <2>7 DEF MisreadServers
<1> QED
  BY <1>2, <1>3, <1>4, <1>5, <1>6, <1>7 DEF FetchStep

LEMMA PageStepType ==
  ASSUME TypeInv, PageStep
  PROVE  TypeInv'
<1>1. Quiet /\ UNCHANGED <<window, cookie>> /\ acts' \in Stamps
  BY PageSteps
<1>2. CASE Refocus
  <2>1. cache' = [k \in Queries |-> Fetched(cache[k])] /\ behind' \subseteq behind
        /\ UNCHANGED <<dialog, timers>>
    BY <1>2 DEF Refocus
  <2>2. cache' \in [Queries -> Answers]
    BY <2>1, AskedAre
  <2>3. ReadsKnown'
    <3>1. \A k \in Queries : cache'[k] = cache[k] \/ cache'[k].out = "sent"
      BY <2>1, AskedAre
    <3> QED
      BY <3>1 DEF ReadsKnown, TypeInv
  <2> QED
    BY <1>1, <2>1, <2>2, <2>3 DEF TypeInv, TypeOK, DialogKnown, KindsKnown, Quiet
<1>3. CASE \/ CloseDialog \/ TypeClient \/ \E a \in Providers : OpenDialog(a)
           \/ \E at \in Stamps : TimerFires(at)
  <2>1. /\ dialog' \in Dialogs /\ (dialog'.open => dialog'.app \in Providers)
        /\ UNCHANGED <<cache, behind>> /\ timers' \subseteq Stamps
    BY <1>3, DialogStepIs
  <2> QED
    BY <1>1, <2>1 DEF TypeInv, TypeOK, DialogKnown, KindsKnown, ReadsKnown, Quiet
<1>4. CASE FetchStep
  <2>1. /\ cache' \in [Queries -> Answers] /\ ReadsKnown' /\ behind' \subseteq Queries
        /\ timers' = timers
        /\ dialog' \in Dialogs /\ dialog'.open = dialog.open /\ dialog'.app = dialog.app
    BY <1>4, FetchStepIs
  <2> QED
    BY <1>1, <2>1 DEF TypeInv, TypeOK, DialogKnown, KindsKnown, Quiet
<1> QED
  BY <1>2, <1>3, <1>4 DEF PageStep

\* What the page does and reads leaves what is not behind as the tables are.
LEMMA PageStepFollows ==
  ASSUME TypeInv, CardsFollow, PageStep
  PROVE  CardsFollow'
<1>1. Quiet /\ UNCHANGED <<window, cookie>>
  BY PageSteps
<1>2. (\A b : SameOf(b)) /\ env' = env /\ req' = req
  BY <1>1 DEF Quiet, SameOf
<1>3. Loaded' = Loaded
  BY <1>1 DEF Loaded
<1>4. ASSUME NEW k \in Queries, k \notin behind, Loaded, cache'[k] = cache[k]
      PROVE  Told(k)' \/ Follows(k)'
  BY <1>2, <1>4, FollowsStays, ToldStays DEF CardsFollow
<1>5. ASSUME NEW k \in Queries, k \notin behind, Loaded, Told(k)
      PROVE  Told(k)'
  BY <1>2, <1>5, ToldStays
<1> SUFFICES ASSUME Loaded, NEW k \in Queries, k \notin behind'
             PROVE  Told(k)' \/ Follows(k)'
  BY <1>3 DEF CardsFollow
<1>6. CASE Refocus
  <2>1. cache'[k] = Fetched(cache[k]) /\ behind' = {j \in behind : cache[j].out # "no"}
    BY <1>6 DEF Refocus
  <2>2. CASE cache[k].out = "no"
    <3>1. cache'[k].out = "sent"
      BY <2>1, <2>2, AskedAre
    <3> QED
      BY <3>1, SentFollows
  <2>3. CASE cache[k].out # "no"
    <3>1. cache'[k] = cache[k] /\ k \notin behind
      BY <2>1, <2>3, AskedAre
    <3> QED
      BY <1>4, <3>1
  <2> QED
    BY <2>2, <2>3
<1>7. CASE \/ CloseDialog \/ TypeClient \/ \E a \in Providers : OpenDialog(a)
           \/ \E at \in Stamps : TimerFires(at)
  <2>1. UNCHANGED <<cache, behind>>
    BY <1>7, DialogStepIs
  <2> QED
    BY <1>4, <2>1
<1> USE DEF tables, outside
<1>8. CASE ReadCredentials
  <2>1. behind' = behind /\ \A j \in Queries : j # "providers" => cache'[j] = cache[j]
    BY <1>8 DEF ReadCredentials, TypeInv, TypeOK
  <2>2. CASE k = "providers"
    <3>1. /\ cache'[k].out = "half"
          /\ \A a \in Apps : cache'[k].got[a] = [configured |-> Configured(a),
                                                 connected |-> HasCredential(a)]
      BY <1>8, <2>2 DEF ReadCredentials, TypeInv, TypeOK, Answers
    <3>2. \A a \in AppsOf(k) : /\ a \in Apps /\ Configured(a)' = Configured(a)
                               /\ HasCredential(a)' = HasCredential(a)
      BY <1>1 DEF AppsOf, Configured, HasCredential, Rows, Quiet
    <3>3. AppsOf(k)' = AppsOf(k)
      BY DEF AppsOf, QueryOf
    <3> QED
      BY <3>1, <3>2, <3>3 DEF Follows
  <2>3. CASE k # "providers"
    BY <1>4, <2>1, <2>3
  <2> QED
    BY <2>2, <2>3
<1>9. CASE \E j \in Queries : ReadServers(j)
  <2>1. PICK j \in Queries : ReadServers(j)
    BY <1>9
  <2>2. behind' = behind /\ \A i \in Queries : i # j => cache'[i] = cache[i]
    BY <2>1 DEF ReadServers, TypeInv, TypeOK
  <2>3. CASE k = j /\ ~Told(k)
    <3>1. Follows(k)
      BY <2>2, <2>3 DEF CardsFollow
    <3>2. /\ cache'[k].out = "read" /\ cache[k].out = IF k = "providers" THEN "half" ELSE "sent"
          /\ \A a \in Apps : cache'[k].got[a] =
               [configured |-> k = "providers" /\ cache[k].got[a].configured,
                connected |-> Linked(a) \/ (k = "providers" /\ cache[k].got[a].connected)]
      BY <2>1, <2>3 DEF ReadServers, TypeInv, TypeOK, Answers
    <3>3. ASSUME NEW a \in AppsOf(k)
          PROVE  cache'[k].got[a] = Snapshot(k)[a]
      <4>1. a \in Apps
        BY DEF AppsOf
      <4>2. Snapshot(k)[a] = [configured |-> k = "providers" /\ Configured(a),
                              connected |-> Linked(a) \/ (k = "providers" /\ HasCredential(a))]
        BY <4>1 DEF Snapshot
      <4>3. CASE k = "providers"
        <5>1. cache[k].got[a] = [configured |-> Configured(a), connected |-> HasCredential(a)]
          BY <3>1, <3>2, <4>3 DEF Follows
        <5>2. cache[k].got[a].configured = Configured(a) /\ cache[k].got[a].connected = HasCredential(a)
          BY <5>1
        <5> QED
          BY <3>2, <4>1, <4>2, <5>2
      <4>4. CASE k # "providers"
        <5>1. cache'[k].got[a] = [configured |-> FALSE, connected |-> Linked(a)]
          <6>1. (k = "providers" /\ cache[k].got[a].configured) = FALSE
            BY <4>4
          <6>2. (Linked(a) \/ (k = "providers" /\ cache[k].got[a].connected)) = Linked(a)
            BY <4>4 DEF Linked
          <6> QED
            BY <3>2, <4>1, <6>1, <6>2
        <5>2. Snapshot(k)[a] = [configured |-> FALSE, connected |-> Linked(a)]
          <6>1. (k = "providers" /\ Configured(a)) = FALSE
            BY <4>4
          <6>2. (Linked(a) \/ (k = "providers" /\ HasCredential(a))) = Linked(a)
            BY <4>4 DEF Linked
          <6> QED
            BY <4>2, <6>1, <6>2
        <5> QED
          BY <5>1, <5>2
      <4> QED
        BY <4>3, <4>4
    <3>4. AppsOf(k)' = AppsOf(k) /\ Snapshot(k)' = Snapshot(k)
      BY <1>1 DEF AppsOf, QueryOf, Snapshot, Configured, HasCredential, Linked, Rows, Quiet
    <3> QED
      BY <3>2, <3>3, <3>4 DEF Follows
  <2>4. CASE k = j /\ Told(k)
    BY <1>5, <2>2, <2>4
  <2>5. CASE k # j
    BY <1>4, <2>2, <2>5
  <2> QED
    BY <2>3, <2>4, <2>5
<1>10. CASE \E j \in Queries : Arrive(j)
  <2>1. PICK j \in Queries : Arrive(j)
    BY <1>10
  <2>2. behind' = behind /\ \A i \in Queries : i # j => cache'[i] = cache[i]
    BY <2>1 DEF Arrive, TypeInv, TypeOK
  <2>3. CASE k = j /\ ~Told(k)
    <3>1. Follows(k)
      BY <2>2, <2>3 DEF CardsFollow
    <3>2. cache[k].out = "read" /\ cache'[k].out = "no" /\ cache'[k].data = cache[k].got
      BY <2>1, <2>3 DEF Arrive, TypeInv, TypeOK
    <3>3. \A a \in AppsOf(k) : cache'[k].data[a] = Snapshot(k)[a]
      BY <3>1, <3>2 DEF Follows
    <3>4. AppsOf(k)' = AppsOf(k) /\ Snapshot(k)' = Snapshot(k)
      BY <1>1 DEF AppsOf, QueryOf, Snapshot, Configured, HasCredential, Linked, Rows, Quiet
    <3> QED
      BY <3>2, <3>3, <3>4 DEF Follows
  <2>4. CASE k = j /\ Told(k)
    BY <1>5, <2>2, <2>4
  <2>5. CASE k # j
    BY <1>4, <2>2, <2>5
  <2> QED
    BY <2>3, <2>4, <2>5
<1>11. CASE \E j \in Queries : FetchFails(j)
  <2>1. PICK j \in Queries : FetchFails(j)
    BY <1>11
  <2>2. k # j /\ k \notin behind /\ cache'[k] = cache[k]
    BY <2>1 DEF FetchFails, TypeInv, TypeOK
  <2> QED
    BY <1>4, <2>2
<1>12. CASE MisreadCredentials \/ \E blind \in SUBSET Providers : MisreadServers(blind)
  <2>1. /\ behind' = behind \cup {"providers"}
        /\ \A j \in Queries : j # "providers" => cache'[j] = cache[j]
    BY <1>12 DEF MisreadCredentials, MisreadServers, TypeInv, TypeOK
  <2> QED
    BY <1>4, <2>1
<1> QED
  BY <1>6, <1>7, <1>8, <1>9, <1>10, <1>11, <1>12 DEF PageStep, FetchStep

-----------------------------------------------------------------------------
(* Answers                                                                 *)

\* Request q ends, or waits for its first statement again; the others stay as
\* they are.
Ends(q) ==
  /\ req' \in [Reqs -> Requests] /\ KindsKnown' /\ ~Running(q)'
  /\ \A p \in Reqs \ {q} :
       /\ req'[p].kind = req[p].kind /\ req'[p].app = req[p].app /\ req'[p].st = req[p].st
       /\ req'[p].row = req[p].row /\ req'[p].crossed = req[p].crossed
       /\ req'[p].slip = req[p].slip

LEMMA EndsIs ==
  ASSUME TypeInv, NEW q \in Reqs, NEW v \in Requests, req' = [req EXCEPT ![q] = v],
         v.st \in {"free", "first", "ok", "failed"},
         v.st = "free" <=> v.kind = "none",
         v.st # "free" => v.app \in Apps,
         v.kind \in {"disconnect", "config", "token", "start", "leave"} => v.app \in Providers,
         v.kind = "config" => v.of \in Providers
  PROVE  Ends(q) /\ req'[q] = v
<1>1. req \in [Reqs -> Requests] /\ KindsKnown
  BY DEF TypeInv, TypeOK
<1>2. req' \in [Reqs -> Requests] /\ req'[q] = v /\ \A p \in Reqs : p # q => req'[p] = req[p]
  BY <1>1
<1>3. KindsKnown'
  <2>1. ASSUME NEW p \in Reqs
        PROVE  /\ req'[p].st = "free" <=> req'[p].kind = "none"
               /\ req'[p].st # "free" => req'[p].app \in Apps
               /\ req'[p].kind \in {"disconnect", "config", "token", "start", "leave"}
                    => req'[p].app \in Providers
               /\ req'[p].kind = "config" => req'[p].of \in Providers
               /\ req'[p].kind \in {"start", "leave"} => req'[p].st \in {"first", "ok", "failed"}
    <3>1. CASE p = q
      BY <1>2, <3>1
    <3>2. CASE p # q
      BY <1>1, <1>2, <3>2 DEF KindsKnown
    <3> QED
      BY <3>1, <3>2
  <2> QED
    BY <2>1 DEF KindsKnown
<1> QED
  BY <1>2, <1>3 DEF Ends, Running, Steps

LEMMA DoneIs ==
  ASSUME TypeInv, NEW q \in Reqs, Done(q)
  PROVE  Ends(q) /\ req'[q] = NoReq
<1>1. NoReq \in Requests /\ NoReq.st = "free" /\ NoReq.kind = "none"
  BY Blanks DEF NoReq
<1>2. req' = [req EXCEPT ![q] = NoReq]
  BY DEF Done
<1> HIDE DEF NoReq
<1> QED
  BY <1>1, <1>2, EndsIs

LEMMA OnLinkedIs ==
  ASSUME TypeInv, NEW q \in Reqs, OnLinked(q)
  PROVE  /\ TypeInv' /\ Ends(q)
         /\ UNCHANGED <<page, env, cred, server, doubled, said, window>> /\ req[q].st # "free"
<1>1. /\ req[q].st = "ok" /\ Reask(Reasked(req[q].kind)) /\ Done(q)
      /\ UNCHANGED <<page, env, cred, server, doubled, said, dialog, timers, window, cookie, acts>>
  BY DEF OnLinked, Answered, tables, outside
<1>2. Reasked(req[q].kind) \in SUBSET Queries
  BY DEF Reasked, Queries
<1>3. cache' \in [Queries -> Answers] /\ ReadsKnown' /\ behind' \subseteq Queries
  BY <1>1, <1>2, ReaskIs
<1>4. Ends(q)
  BY <1>1, DoneIs
<1>5. req' \in [Reqs -> Requests] /\ KindsKnown'
  BY <1>4 DEF Ends
<1>6. TypeInv'
  BY <1>1, <1>3, <1>5 DEF TypeInv, TypeOK, DialogKnown
<1> QED
  BY <1>1, <1>4, <1>6

LEMMA OnTokenOrDisconnectIs ==
  ASSUME TypeInv, NEW q \in Reqs, OnTokenOrDisconnect(q)
  PROVE  /\ TypeInv' /\ Ends(q)
         /\ UNCHANGED <<page, env, cred, server, doubled, said, window>> /\ req[q].st # "free"
<1>1. /\ req[q].st = "ok" /\ Reask(Reasked(req[q].kind)) /\ Done(q)
      /\ UNCHANGED <<page, env, cred, server, doubled, said, timers, window, cookie, acts>>
      /\ dialog' = dialog \/ dialog' = [dialog EXCEPT !.open = FALSE]
  BY DEF OnTokenOrDisconnect, Answered, tables, outside
<1>2. Reasked(req[q].kind) \in SUBSET Queries
  BY DEF Reasked, Queries
<1>3. cache' \in [Queries -> Answers] /\ ReadsKnown' /\ behind' \subseteq Queries
  BY <1>1, <1>2, ReaskIs
<1>4. Ends(q)
  BY <1>1, DoneIs
<1>5. req' \in [Reqs -> Requests] /\ KindsKnown'
  BY <1>4 DEF Ends
<1>6. dialog' \in Dialogs /\ (dialog'.open => dialog'.app \in Providers)
  BY <1>1 DEF TypeInv, TypeOK, DialogKnown, Dialogs
<1>7. TypeInv'
  BY <1>1, <1>3, <1>5, <1>6 DEF TypeInv, TypeOK, DialogKnown
<1> QED
  BY <1>1, <1>4, <1>7

LEMMA OnConfiguredIs ==
  ASSUME TypeInv, NEW q \in Reqs, OnConfigured(q)
  PROVE  /\ TypeInv' /\ Ends(q)
         /\ UNCHANGED <<page, env, cred, server, doubled, said, window>> /\ req[q].st # "free"
<1> DEFINE v == [req[q] EXCEPT !.st = "first", !.kind = "start", !.crossed = FALSE,
                         !.slip = FALSE]
<1>1. /\ req[q].st = "ok" /\ req[q].kind = "config" /\ Reask(Reasked("config"))
      /\ req' = [req EXCEPT ![q].st = "first", ![q].kind = "start",
                         ![q].crossed = FALSE, ![q].slip = FALSE]
      /\ UNCHANGED <<page, env, cred, server, doubled, said, dialog, timers, window, cookie, acts>>
  BY DEF OnConfigured, Answered, tables, outside
<1>2. Reasked("config") \in SUBSET Queries
  BY DEF Reasked, Queries
<1>3. cache' \in [Queries -> Answers] /\ ReadsKnown' /\ behind' \subseteq Queries
  BY <1>1, <1>2, ReaskIs
<1>4. req[q] \in Requests /\ req \in [Reqs -> Requests] /\ req[q].app \in Apps
      /\ req[q].app \in Providers
  BY <1>1 DEF TypeInv, TypeOK, KindsKnown
<1>5. /\ v \in Requests /\ v.st = "first" /\ v.kind = "start" /\ v.app = req[q].app
  BY <1>4 DEF Requests, Kinds, Steps
<1>6. req' = [req EXCEPT ![q] = v]
  BY <1>1, <1>4 DEF Requests
<1> HIDE DEF v
<1>7. Ends(q)
  BY <1>4, <1>5, <1>6, EndsIs
<1>8. req' \in [Reqs -> Requests] /\ KindsKnown'
  BY <1>7 DEF Ends
<1>9. TypeInv'
  BY <1>1, <1>3, <1>8 DEF TypeInv, TypeOK, DialogKnown
<1> QED
  BY <1>1, <1>7, <1>9

\* A popup is opened, or blocked.
LEMMA OnStartedIs ==
  ASSUME TypeInv, NEW q \in Reqs, OnStarted(q)
  PROVE  /\ TypeInv' /\ Ends(q)
         /\ UNCHANGED <<page, env, cred, server, doubled, said>> /\ req[q].st # "free"
         /\ window' = window \/ (window'.stage = "asks" /\ ~window'.whole)
<1> DEFINE at == req[q].at
           w == [open |-> TRUE, whole |-> FALSE, app |-> req[q].app, at |-> at, stage |-> "asks",
                 watch |-> {at} \cup IF window.open THEN window.watch ELSE {}, row |-> None]
<1>1. /\ req[q].st = "ok" /\ req[q].kind = "start" /\ Done(q) /\ cookie' = at
      /\ UNCHANGED <<page, env, cred, server, doubled, said, cache, dialog, behind, acts>>
      /\ timers' = timers \cup {at} /\ (window' = window \/ window' = w)
  BY DEF OnStarted, Answered, tables, IntervalsOf
<1>2. req[q] \in Requests /\ req[q].app \in Providers
  BY <1>1 DEF TypeInv, TypeOK, KindsKnown
<1>3. at \in Stamps /\ window \in Windows
  BY <1>2 DEF Requests, TypeInv, TypeOK
<1>4. w \in Windows /\ w.stage = "asks" /\ ~w.whole /\ w.app \in Providers
  <2>1. ({at} \cup IF window.open THEN window.watch ELSE {}) \subseteq Stamps
    BY <1>3 DEF Windows
  <2> QED
    BY <1>2, <1>3, <2>1 DEF Windows
<1> HIDE DEF w
<1>5. Ends(q)
  BY <1>1, DoneIs
<1>6. req' \in [Reqs -> Requests] /\ KindsKnown'
  BY <1>5 DEF Ends
<1>7. window' \in Windows /\ (window'.stage # "none" => window'.app \in Providers)
  BY <1>1, <1>3, <1>4 DEF TypeInv, DialogKnown
<1>8. TypeInv'
  BY <1>1, <1>3, <1>6, <1>7 DEF TypeInv, TypeOK, DialogKnown, ReadsKnown
<1> QED
  BY <1>1, <1>4, <1>5, <1>8

LEMMA OnFailedIs ==
  ASSUME TypeInv, NEW q \in Reqs, OnFailed(q)
  PROVE  /\ TypeInv' /\ Ends(q)
         /\ UNCHANGED <<page, env, cred, server, doubled, said, window>> /\ req[q].st # "free"
<1> DEFINE w(p) == [req[p] EXCEPT !.old = @ \/ (req[q].kind = "leave" /\ req[p].kind = "leave")]
<1>1. /\ req[q].st = "failed" /\ req' = [p \in Reqs |-> IF p = q THEN NoReq ELSE w(p)]
      /\ UNCHANGED <<page, env, cred, server, doubled, said, cache, timers, window, cookie, acts>>
      /\ dialog' = dialog \/ dialog' = [dialog EXCEPT !.busy = FALSE]
      /\ behind' = Queries \/ behind' = behind
  BY DEF OnFailed, tables, outside
<1>2. ASSUME NEW p \in Reqs
      PROVE  /\ w(p) \in Requests /\ w(p).st = req[p].st /\ w(p).row = req[p].row
             /\ w(p).crossed = req[p].crossed /\ w(p).slip = req[p].slip
             /\ w(p).kind = req[p].kind /\ w(p).app = req[p].app /\ w(p).of = req[p].of
  <2>1. req[p] \in Requests
    BY DEF TypeInv, TypeOK
  <2> DEFINE old == req[p].old \/ (req[q].kind = "leave" /\ req[p].kind = "leave")
  <2>2. old \in BOOLEAN
    BY Zenon
  <2>3. w(p) = [req[p] EXCEPT !.old = old]
    BY <2>1 DEF Requests
  <2> HIDE DEF old
  <2> QED
    BY <2>1, <2>2, <2>3 DEF Requests
<1>3. NoReq \in Requests /\ NoReq.st = "free" /\ NoReq.kind = "none"
  BY Blanks DEF NoReq
<1> HIDE DEF w, NoReq
<1>4. req' \in [Reqs -> Requests] /\ req'[q] = NoReq /\ \A p \in Reqs : p # q => req'[p] = w(p)
  BY <1>1, <1>2, <1>3
<1>5. KindsKnown'
  <2>1. ASSUME NEW p \in Reqs
        PROVE  /\ req'[p].st = "free" <=> req'[p].kind = "none"
               /\ req'[p].st # "free" => req'[p].app \in Apps
               /\ req'[p].kind \in {"disconnect", "config", "token", "start", "leave"}
                    => req'[p].app \in Providers
               /\ req'[p].kind = "config" => req'[p].of \in Providers
               /\ req'[p].kind \in {"start", "leave"} => req'[p].st \in {"first", "ok", "failed"}
    <3>1. CASE p = q
      BY <1>3, <1>4, <3>1
    <3>2. CASE p # q
      BY <1>2, <1>4, <3>2 DEF TypeInv, KindsKnown
    <3> QED
      BY <3>1, <3>2
  <2> QED
    BY <2>1 DEF KindsKnown
<1>6. Ends(q)
  BY <1>2, <1>3, <1>4, <1>5 DEF Ends, Running, Steps
<1>7. dialog' \in Dialogs /\ (dialog'.open => dialog'.app \in Providers)
  BY <1>1 DEF TypeInv, TypeOK, DialogKnown, Dialogs
<1>8. TypeInv'
  BY <1>1, <1>4, <1>5, <1>7 DEF TypeInv, TypeOK, DialogKnown, ReadsKnown
<1> QED
  BY <1>1, <1>6, <1>8

LEMMA LoseIs ==
  ASSUME TypeInv, NEW q \in Reqs, Lose(q)
  PROVE  /\ TypeInv' /\ Ends(q)
         /\ UNCHANGED <<page, env, cred, server, doubled, said, window>> /\ req[q].st # "free"
         /\ req'[q].st = "failed"
<1> DEFINE v == [req[q] EXCEPT !.st = "failed"]
<1>1. /\ req[q].st \in Steps \cup {"ok"} /\ req' = [req EXCEPT ![q].st = "failed"] /\ Act
      /\ UNCHANGED <<page, env, cred, server, doubled, said, cache, dialog, timers, window, cookie>>
      /\ behind' = Queries \/ behind' = behind
  BY DEF Lose, tables, outside
<1>2. /\ req[q] \in Requests /\ req \in [Reqs -> Requests] /\ req[q].app \in Apps
      /\ req[q].kind # "none"
      /\ req[q].kind \in {"disconnect", "config", "token", "start", "leave"} => req[q].app \in Providers
      /\ req[q].kind = "config" => req[q].of \in Providers
  BY <1>1 DEF TypeInv, TypeOK, KindsKnown, Steps
<1>3. /\ v \in Requests /\ v.st = "failed" /\ v.kind = req[q].kind /\ v.app = req[q].app
      /\ v.of = req[q].of
  BY <1>2 DEF Requests
<1>4. req' = [req EXCEPT ![q] = v]
  BY <1>1, <1>2 DEF Requests
<1> HIDE DEF v
<1>5. Ends(q) /\ req'[q] = v
  BY <1>2, <1>3, <1>4, EndsIs
<1>6. req' \in [Reqs -> Requests] /\ KindsKnown'
  BY <1>5 DEF Ends
<1>7. acts' \in Stamps
  BY <1>1, ActIs
<1>8. TypeInv'
  BY <1>1, <1>6, <1>7 DEF TypeInv, TypeOK, DialogKnown, ReadsKnown
<1> QED
  BY <1>1, <1>3, <1>5, <1>8 DEF Steps

\* window.location.href: all requests are cut off.
LEMMA OnLeaveIs ==
  ASSUME TypeInv, NEW q \in Reqs, OnLeave(q)
  PROVE  /\ TypeInv' /\ (\A p \in Reqs : req'[p] = NoReq) /\ ~Loaded' /\ window'.stage = "asks"
         /\ UNCHANGED <<cred, server, doubled, said>>
<1> DEFINE w == [open |-> TRUE, whole |-> TRUE, app |-> req[q].app, at |-> req[q].at,
                 stage |-> "asks", watch |-> {}, row |-> None]
<1>1. /\ req[q].st = "ok" /\ req[q].kind = "leave" /\ req' = [p \in Reqs |-> NoReq]
      /\ cookie' = req[q].at /\ window' = w
      /\ UNCHANGED <<page, env, cred, server, doubled, said, cache, dialog, timers, behind, acts>>
  BY DEF OnLeave, Answered, tables, client
<1>2. req[q] \in Requests /\ req[q].app \in Providers
  BY <1>1 DEF TypeInv, TypeOK, KindsKnown
<1>3. req[q].at \in Stamps
  BY <1>2 DEF Requests
<1>4. w \in Windows /\ w.stage = "asks" /\ w.open /\ w.whole /\ w.app \in Providers
  BY <1>2, <1>3 DEF Windows
<1>5. NoReq \in Requests /\ NoReq.st = "free" /\ NoReq.kind = "none"
  BY Blanks DEF NoReq
<1> HIDE DEF w, NoReq
<1>6. req' \in [Reqs -> Requests] /\ \A p \in Reqs : req'[p] = NoReq
  BY <1>1, <1>5
<1>7. KindsKnown'
  BY <1>5, <1>6 DEF KindsKnown
<1>8. TypeInv'
  BY <1>1, <1>3, <1>4, <1>6, <1>7 DEF TypeInv, TypeOK, DialogKnown, ReadsKnown
<1> QED
  BY <1>1, <1>4, <1>6, <1>8 DEF Loaded

-----------------------------------------------------------------------------
(* The window at the provider                                              *)

\* The callback crosses every request about its provider that runs, before it
\* writes.
LEMMA CallbackReadsIs ==
  ASSUME TypeInv, CallbackReads
  PROVE  /\ TypeInv' /\ Loaded' = Loaded
         /\ UNCHANGED <<page, env, cred, server, doubled, said, cache, behind>>
         /\ \A q \in Reqs : /\ req'[q].kind = req[q].kind /\ req'[q].app = req[q].app
                            /\ req'[q].st = req[q].st /\ req'[q].row = req[q].row
                            /\ req[q].crossed => req'[q].crossed
                            /\ req'[q].slip = req[q].slip
         /\ window'.stage = "writes" =>
              \A q \in Reqs : Running(q) /\ req[q].app = window'.app => req'[q].crossed
<1> DEFINE p == window.app
<1>1. /\ window \in Windows /\ window.stage = "asks" /\ p \in Providers
      /\ req \in [Reqs -> Requests] /\ \A q \in Reqs : req[q] \in Requests
  BY DEF CallbackReads, TypeInv, TypeOK, DialogKnown
<1>2. Newest(p) \in Stamps \cup {None}
  BY <1>1, NewestIs DEF TypeInv
<1>3. PICK goes \in {FALSE, cookie = window.at /\ Resolves(p)}, row \in {Newest(p), None} :
        /\ window' = [window EXCEPT !.stage = IF goes THEN "writes" ELSE "done",
                                    !.row = IF goes THEN row ELSE None]
        /\ cookie' = IF goes THEN cookie ELSE None
        /\ req' = [q \in Reqs |->
             [req[q] EXCEPT !.crossed = @ \/ (goes /\ Running(q) /\ req[q].app = p)]]
  BY DEF CallbackReads
<1>4. UNCHANGED <<page, env, cred, server, doubled, said, cache, dialog, timers, behind, acts>>
  BY DEF CallbackReads, tables, client
<1>5. goes \in BOOLEAN
  BY Zenon DEF Resolves
<1>6. /\ window' \in Windows /\ window'.open = window.open /\ window'.whole = window.whole
      /\ window'.app = p /\ (window'.stage = "writes" => goes)
  BY <1>1, <1>2, <1>3, <1>5 DEF Windows
<1> DEFINE crossed(q) == req[q].crossed \/ (goes /\ Running(q) /\ req[q].app = p)
           w(q) == [req[q] EXCEPT !.crossed = crossed(q)]
<1>7. ASSUME NEW q \in Reqs
      PROVE  /\ w(q) \in Requests /\ w(q).st = req[q].st /\ w(q).row = req[q].row
             /\ w(q).crossed = crossed(q) /\ w(q).slip = req[q].slip
             /\ w(q).kind = req[q].kind /\ w(q).app = req[q].app /\ w(q).of = req[q].of
  <2>1. crossed(q) \in BOOLEAN
    BY Zenon
  <2> HIDE DEF crossed
  <2> QED
    BY <1>1, <2>1 DEF Requests
<1>8. req' = [q \in Reqs |-> w(q)]
  BY <1>1, <1>3 DEF Requests
<1>9. \A q \in Reqs : crossed(q) <=> req[q].crossed \/ (goes /\ Running(q) /\ req[q].app = p)
  OBVIOUS
<1> HIDE DEF crossed, w
<1>10. req' \in [Reqs -> Requests] /\ \A q \in Reqs : req'[q] = w(q)
  BY <1>7, <1>8
<1>11. KindsKnown'
  BY <1>7, <1>10 DEF TypeInv, KindsKnown
<1>12. cookie' \in Stamps \cup {None}
  BY <1>3 DEF TypeInv, TypeOK
<1>13. TypeInv'
  BY <1>1, <1>4, <1>6, <1>10, <1>11, <1>12 DEF TypeInv, TypeOK, DialogKnown, ReadsKnown
<1>14. Loaded' = Loaded
  BY <1>6 DEF Loaded
<1>15. ASSUME NEW q \in Reqs
       PROVE  /\ req'[q].kind = req[q].kind /\ req'[q].app = req[q].app
              /\ req'[q].st = req[q].st /\ req'[q].row = req[q].row
              /\ req[q].crossed => req'[q].crossed
              /\ req'[q].slip = req[q].slip
              /\ window'.stage = "writes" /\ Running(q) /\ req[q].app = window'.app => req'[q].crossed
  BY <1>6, <1>7, <1>9, <1>10
<1> QED
  BY <1>4, <1>13, <1>14, <1>15

\* ... and writes: only its provider's rows change, and nothing is said of it.
LEMMA CallbackWritesIs ==
  ASSUME TypeInv, DoublesKnown, CallbackWrites
  PROVE  /\ TypeInv' /\ Tables(window.app) /\ window.app \in Providers /\ Loaded' = Loaded
         /\ UNCHANGED <<page, env, cache, req>> /\ window'.stage = "done"
         /\ said'[window.app] = None /\ \A a \in Apps \ {window.app} : said'[a] = said[a]
         /\ behind' = IF window.whole THEN behind ELSE behind \cup {"providers"}
<1> DEFINE p == window.app
           x == [id |-> window.at, name |-> "token", holds |-> "token", of |-> p]
           c == IF window.row = None THEN Put(cred[p], x)
                ELSE Rewrite(p, window.row, "token", x.holds, x.of)
<1>1. /\ window.open /\ window.stage = "writes" /\ said' = [said EXCEPT ![p] = None]
      /\ Store(p, c) \/ UNCHANGED <<cred, doubled>>
      /\ window' = [window EXCEPT !.stage = "done", !.row = None] /\ cookie' = None
      /\ behind' = IF window.whole THEN behind ELSE behind \cup {"providers"}
      /\ UNCHANGED <<page, env, server, cache, dialog, timers, req, acts>>
  BY DEF CallbackWrites
<1>2. /\ window \in Windows /\ p \in Providers /\ p \in Apps
      /\ said \in [Apps -> {"on", "off", "hollow", None}]
  BY <1>1 DEF TypeInv, TypeOK, DialogKnown, Apps
<1>3. x \in Credential /\ window.row \in Stamps \cup {None}
  BY <1>2 DEF Windows, Credential
<1> HIDE DEF x
<1>4. Table(c)
  BY <1>2, <1>3, WriteIs DEF TypeInv
<1> HIDE DEF c
<1>5. Tables(p)
  <2>1. CASE Store(p, c)
    BY <1>1, <1>2, <1>4, <2>1, StoreIs
  <2>2. CASE UNCHANGED <<cred, doubled>>
    BY <1>1, <1>2, <2>2, ReadOnly
  <2> QED
    BY <1>1, <2>1, <2>2
<1>6. /\ window' \in Windows /\ window'.open = window.open /\ window'.whole = window.whole
      /\ window'.app = p /\ window'.stage = "done"
  BY <1>1, <1>2 DEF Windows
<1>7. /\ said' \in [Apps -> {"on", "off", "hollow", None}] /\ said'[p] = None
      /\ \A a \in Apps \ {p} : said'[a] = said[a]
  BY <1>1, <1>2
<1>8. behind' \subseteq Queries
  BY <1>1 DEF TypeInv, TypeOK, Queries
<1>9. TypeOK'
  BY <1>1, <1>5, <1>6, <1>7, <1>8 DEF Tables, Table, TypeInv, TypeOK
<1>10. TypeInv'
  BY <1>1, <1>2, <1>6, <1>9 DEF TypeInv, DialogKnown, ReadsKnown, KindsKnown
<1> QED
  BY <1>1, <1>2, <1>5, <1>6, <1>7, <1>10 DEF Loaded

\* The window closes, and the page is loaded again if it was the window.
LEMMA WindowEnds ==
  ASSUME TypeInv, CloseWindow \/ Return
  PROVE  /\ TypeInv' /\ Quiet /\ Loaded' /\ window'.stage = "none"
         /\ \/ Loaded /\ UNCHANGED <<cache, behind>>
            \/ \A k \in Queries : cache'[k].out = "sent"
<1>1. NoWindow \in Windows /\ NoWindow.stage = "none" /\ ~NoWindow.open
  BY Blanks DEF NoWindow
<1>2. CASE CloseWindow
  <2>1. /\ Loaded /\ Quiet /\ window' = NoWindow /\ Act
        /\ UNCHANGED <<cache, dialog, timers, behind, cookie>>
    BY <1>2 DEF CloseWindow, Loaded, Quiet, tables, client
  <2>2. acts' \in Stamps
    BY <2>1, ActIs
  <2> QED
    BY <1>1, <2>1, <2>2 DEF TypeInv, TypeOK, DialogKnown, ReadsKnown, KindsKnown, Quiet, Loaded
<1>3. CASE Return
  <2>1. /\ Quiet /\ window' = NoWindow /\ timers' = {} /\ behind' = {}
        /\ cache' = [k \in Queries |-> Fetched(Empty)] /\ dialog' = [Shut EXCEPT !.since = acts]
        /\ UNCHANGED <<cookie, acts>>
    BY <1>3 DEF Return, Quiet, tables
  <2>2. Fetched(Empty) \in Answers /\ Fetched(Empty).out = "sent"
    BY Blanks, FetchedType DEF Fetched, Empty
  <2>3. cache' \in [Queries -> Answers] /\ \A k \in Queries : cache'[k].out = "sent"
    BY <2>1, <2>2
  <2>4. dialog' \in Dialogs /\ ~dialog'.open
    BY <2>1, Blanks DEF TypeInv, TypeOK, Dialogs, Shut
  <2>5. ReadsKnown'
    BY <2>3 DEF ReadsKnown
  <2>6. behind' \subseteq Queries /\ timers' \subseteq Stamps
    BY <2>1
  <2> QED
    BY <1>1, <2>1, <2>3, <2>4, <2>5, <2>6
       DEF TypeInv, TypeOK, DialogKnown, KindsKnown, Quiet, Loaded
<1> QED
  BY <1>2, <1>3

-----------------------------------------------------------------------------
(* Every step                                                              *)

\* Whatever runs after the step ran before it, and has done no more.
RunOn ==
  \A p \in Reqs : Running(p)' =>
    /\ Running(p) /\ req'[p].kind = req[p].kind /\ req'[p].app = req[p].app
    /\ req'[p].st = req[p].st /\ req'[p].row = req[p].row /\ (req[p].crossed => req'[p].crossed)
    /\ req'[p].slip = req[p].slip

\* A step that leaves the tables alone.
LEMMA TablesStay ==
  ASSUME IInv, UNCHANGED <<cred, server, doubled, said>>, RunOn
  PROVE  DoublesKnown' /\ UncrossedKnow' /\ SaidIsSo'
<1>1. DoublesKnown' /\ SaidIsSo'
  BY DEF IInv, DoublesKnown, SaidIsSo, Connected, HasCredential, Linked
<1>2. ASSUME NEW p \in Reqs, ~req'[p].crossed, ~req'[p].slip
      PROVE  Knows(p)'
  <2>1. CASE Running(p)'
    <3>1. Knows(p) /\ Running(p) /\ req'[p].kind = req[p].kind /\ req'[p].app = req[p].app
          /\ req'[p].st = req[p].st /\ req'[p].row = req[p].row
      BY <1>2, <2>1 DEF IInv, UncrossedKnow, RunOn
    <3> QED
      BY <3>1 DEF Knows, Newest, Linked
  <2>2. CASE ~Running(p)'
    BY <2>2 DEF Knows, Running, Steps
  <2> QED
    BY <2>1, <2>2
<1> QED
  BY <1>1, <1>2 DEF UncrossedKnow

LEMMA CrossesStay ==
  ASSUME IInv, RunOn,
         window'.stage = "writes" => window.stage = "writes" /\ window'.app = window.app
  PROVE  CallbackCrosses'
BY DEF IInv, CallbackCrosses, RunOn

LEMMA PageStepSafe ==
  ASSUME IInv, PageStep
  PROVE  IInv'
<1>1. TypeInv
  BY DEF IInv, TypeInv
<1>2. Quiet /\ UNCHANGED <<window, cookie>>
  BY <1>1, PageSteps
<1>3. UNCHANGED <<cred, server, doubled, said, req, window>>
  BY <1>2 DEF Quiet
<1>4. RunOn
  BY <1>3 DEF RunOn, Running
<1>5. DoublesKnown' /\ UncrossedKnow' /\ SaidIsSo' /\ CallbackCrosses'
  BY <1>3, <1>4, TablesStay, CrossesStay
<1>6. LeftAlone'
  BY <1>3 DEF IInv, LeftAlone, Loaded
<1>7. CardsFollow'
  BY <1>1, PageStepFollows DEF IInv
<1>8. TypeInv'
  BY <1>1, PageStepType
<1> QED
  BY <1>5, <1>6, <1>7, <1>8 DEF IInv, TypeInv

LEMMA SendsSafe ==
  ASSUME IInv, Sends
  PROVE  IInv'
<1>1. TypeInv
  BY DEF IInv, TypeInv
<1>2. PICK q \in Reqs : \E kind, a, of : Send(q, kind, a, of) /\ Sendable(kind, a, of)
  BY <1>1, SendsAre
<1>3. PICK kind, a, of : Send(q, kind, a, of) /\ Sendable(kind, a, of)
  BY <1>2
<1>4. /\ Loaded /\ acts + 1 \in Stamps
      /\ UNCHANGED <<page, env, cred, server, doubled, said, cache, timers, behind, window>>
  BY <1>1, SendsAre
<1>5. /\ req[q].st = "free" /\ req'[q].st = "first" /\ req'[q].kind = kind
      /\ \A p \in Reqs \ {q} :
           /\ req'[p].st = req[p].st /\ req'[p].kind = req[p].kind /\ req'[p].app = req[p].app
           /\ req'[p].row = req[p].row /\ req'[p].crossed = req[p].crossed
           /\ req'[p].slip = req[p].slip
  BY <1>1, <1>3, <1>4, SendIs
<1>6. RunOn
  BY <1>5 DEF RunOn, Running, Steps
<1>7. DoublesKnown' /\ UncrossedKnow' /\ SaidIsSo' /\ CallbackCrosses'
  BY <1>4, <1>6, TablesStay, CrossesStay
<1>8. LeftAlone'
  BY <1>4 DEF LeftAlone, Loaded
<1>9. CardsFollow'
  <2> SUFFICES ASSUME NEW k \in Queries, k \notin behind
               PROVE  Told(k)' \/ Follows(k)'
    BY <1>4 DEF CardsFollow
  <2>1. Told(k) => Told(k)'
    <3>1. ASSUME NEW p \in Reqs, Telling(p, k) PROVE Telling(p, k)'
      BY <1>5, <3>1 DEF Telling
    <3> QED
      BY <3>1 DEF Told
  <2>2. \A b : SameOf(b)
    BY <1>4 DEF SameOf
  <2>3. Follows(k) => Follows(k)'
    BY <1>4, <2>2, FollowsStays
  <2> QED
    BY <1>4, <2>1, <2>3 DEF IInv, CardsFollow
<1>10. TypeInv'
  BY <1>1, SendsType
<1> QED
  BY <1>7, <1>8, <1>9, <1>10 DEF IInv, TypeInv

LEMMA ServerStepSafe ==
  ASSUME IInv, NEW q \in Reqs, ServerStep(q) \/ StatementFails(q)
  PROVE  IInv'
<1> DEFINE a == req[q].app
<1>1. TypeInv
  BY DEF IInv, TypeInv
<1>2. Local(q)
  BY <1>1, ServerStepIs DEF IInv
<1>3. /\ TypeInv' /\ DoublesKnown' /\ req[q].st # "free" /\ req'[q].st # "free"
      /\ \A b \in Apps \ {a} : SameOf(b) /\ said'[b] = said[b]
      /\ ~req'[q].crossed /\ ~req'[q].slip => Knows(q)'
      /\ said'[a] = "on" => Connected(a)'
      /\ said'[a] = "off" /\ a \notin doubled' => ~Connected(a)'
      /\ UNCHANGED <<page, env, cache, dialog, timers, behind, window, cookie>>
  BY <1>2 DEF Local, Left
<1>4. \A p \in Reqs : /\ req'[p].kind = req[p].kind /\ req'[p].app = req[p].app
                      /\ req[p].crossed => req'[p].crossed
                      /\ p # q => /\ req'[p].st = req[p].st /\ req'[p].row = req[p].row
                                  /\ req'[p].slip = req[p].slip
                      /\ p # q /\ Running(p) /\ req[p].app = a => req'[p].crossed \/ SameOf(a)
  BY <1>2 DEF Local, Left
<1>5. window.stage = "writes" /\ window.app = a /\ Running(q)' => req'[q].crossed
  BY <1>2 DEF Local, Left
<1>6. \A k \in Queries : /\ Telling(q, k) => Telling(q, k)'
                         /\ Telling(q, k)' \/ \A b \in AppsOf(k) : SameOf(b)
  BY <1>2 DEF Local
<1>7. a \in Apps /\ req'[q].app = a
  BY <1>1, <1>3, <1>4 DEF TypeInv, KindsKnown
<1>8. Loaded /\ Loaded'
  BY <1>3 DEF IInv, LeftAlone, Loaded
<1>9. UncrossedKnow'
  <2>1. ASSUME NEW p \in Reqs, p # q, ~req'[p].crossed, ~req'[p].slip, Running(p)
        PROVE  Knows(p)'
    <3>1. Knows(p) /\ req[p].app \in Apps
      BY <1>1, <1>4, <2>1 DEF IInv, UncrossedKnow, TypeInv, KindsKnown, Running, Steps
    <3>2. SameOf(req[p].app)
      BY <1>3, <1>4, <2>1, <3>1
    <3> DEFINE b == req[p].app
    <3>3. /\ req'[p].app = b /\ req'[p].kind = req[p].kind /\ req'[p].st = req[p].st
          /\ req'[p].row = req[p].row
      BY <1>4, <2>1
    <3>4. /\ server'[b] = server[b] /\ (b \in Providers => cred'[b] = cred[b])
          /\ (b \in doubled' <=> b \in doubled)
      BY <3>2 DEF SameOf
    <3>5. req[p].kind \in {"token", "disconnect"} => b \in Providers
      BY <1>1, <2>1 DEF TypeInv, KindsKnown
    <3> QED
      BY <3>1, <3>3, <3>4, <3>5 DEF Knows, Newest, Linked
  <2>2. ASSUME NEW p \in Reqs, p # q, ~Running(p)
        PROVE  Knows(p)'
    BY <1>4, <2>2 DEF Knows, Running, Steps
  <2> QED
    BY <1>3, <2>1, <2>2 DEF UncrossedKnow
<1>10. CallbackCrosses'
  BY <1>3, <1>4, <1>5 DEF IInv, CallbackCrosses, Running
<1>11. SaidIsSo'
  <2>1. ASSUME NEW b \in Apps, b # a
        PROVE  /\ said'[b] = "on" => Connected(b)'
               /\ (said'[b] = "off" /\ b \notin doubled') => ~Connected(b)'
    <3>1. SameOf(b) /\ said'[b] = said[b]
      BY <1>3, <2>1
    <3> QED
      BY <3>1 DEF IInv, SaidIsSo, SameOf, Connected, HasCredential, Linked
  <2>2. Connected(a)' => \A b \in {a} : Connected(b)'
    BY <1>7 DEF Connected, HasCredential, Linked
  <2>3. (~Connected(a))' => \A b \in {a} : ~Connected(b)'
    BY <1>7 DEF Connected, HasCredential, Linked
  <2> QED
    BY <1>3, <2>1, <2>2, <2>3 DEF SaidIsSo
<1>12. CardsFollow'
  <2> SUFFICES ASSUME NEW k \in Queries, k \notin behind
               PROVE  Told(k)' \/ Follows(k)'
    BY <1>3, <1>8 DEF CardsFollow
  <2>1. Told(k) => Told(k)'
    <3>1. ASSUME NEW p \in Reqs, Telling(p, k) PROVE Telling(p, k)'
      <4>1. CASE p = q
        BY <1>6, <3>1, <4>1
      <4>2. CASE p # q
        BY <1>4, <3>1, <4>2 DEF Telling
      <4> QED
        BY <4>1, <4>2
    <3> QED
      BY <3>1 DEF Told
  <2>2. CASE Telling(q, k)'
    BY <2>2 DEF Told
  <2>3. CASE \A b \in AppsOf(k) : SameOf(b)
    <3>1. Follows(k) => Follows(k)'
      BY <1>3, <2>3, FollowsStays
    <3> QED
      BY <1>8, <2>1, <3>1 DEF IInv, CardsFollow
  <2> QED
    BY <1>6, <2>2, <2>3
<1>13. LeftAlone'
  BY <1>8 DEF LeftAlone
<1> QED
  BY <1>3, <1>9, <1>10, <1>11, <1>12, <1>13 DEF IInv, TypeInv

\* An answer that is no news for the query k.
LEMMA NoNews ==
  ASSUME IInv, NEW q \in Reqs, Ends(q), UNCHANGED <<cred, server, doubled, env>>, Loaded,
         NEW k \in Queries, k \notin behind, cache'[k] = cache[k], ~Telling(q, k)
  PROVE  Told(k)' \/ Follows(k)'
<1>1. Told(k) => Told(k)'
  <2>1. ASSUME NEW p \in Reqs, Telling(p, k) PROVE Telling(p, k)'
    BY <2>1 DEF Telling, Ends
  <2> QED
    BY <2>1 DEF Told
<1>2. \A b : SameOf(b)
  BY DEF SameOf
<1>3. Follows(k) => Follows(k)'
  BY <1>2, FollowsStays
<1> QED
  BY <1>1, <1>3 DEF IInv, CardsFollow

LEMMA AnswerSafe ==
  ASSUME IInv, NEW q \in Reqs, TypeInv', Ends(q), UNCHANGED <<cred, server, doubled, said>>,
         req[q].st # "free",
         window' = window \/ (window'.stage = "asks" /\ ~window'.whole),
         Loaded => CardsFollow'
  PROVE  IInv'
<1>1. Loaded /\ Loaded'
  BY DEF IInv, LeftAlone, Loaded
<1>2. RunOn
  BY DEF Ends, RunOn, Running
<1>3. DoublesKnown' /\ UncrossedKnow' /\ SaidIsSo'
  BY <1>2, TablesStay
<1>4. CallbackCrosses'
  <2>1. window'.stage = "writes" => window.stage = "writes" /\ window'.app = window.app
    OBVIOUS
  <2> QED
    BY <1>2, <2>1, CrossesStay
<1>5. LeftAlone'
  BY <1>1 DEF LeftAlone
<1> QED
  BY <1>1, <1>3, <1>4, <1>5 DEF IInv, TypeInv

LEMMA OnLinkedSafe == ASSUME IInv, NEW q \in Reqs, OnLinked(q) PROVE IInv'
<1>1. TypeInv
  BY DEF IInv, TypeInv
<1>2. /\ TypeInv' /\ Ends(q)
      /\ UNCHANGED <<page, env, cred, server, doubled, said, window>> /\ req[q].st # "free"
  BY <1>1, OnLinkedIs
<1>3. req[q].kind \in {"link", "unlink"} /\ Reask(Reasked(req[q].kind))
  BY DEF OnLinked, Answered
<1>4. Reask(Queries)
  BY <1>3 DEF Reasked
<1>5. \A k \in Queries \ behind' : cache'[k].out = "sent"
  BY <1>1, <1>4, ReaskIs
<1>6. CardsFollow'
  BY <1>5, SentFollows DEF CardsFollow
<1> QED
  BY <1>2, <1>6, AnswerSafe

LEMMA OnTokenOrDisconnectSafe ==
  ASSUME IInv, NEW q \in Reqs, OnTokenOrDisconnect(q)
  PROVE  IInv'
<1>1. TypeInv
  BY DEF IInv, TypeInv
<1>2. /\ TypeInv' /\ Ends(q)
      /\ UNCHANGED <<page, env, cred, server, doubled, said, window>> /\ req[q].st # "free"
  BY <1>1, OnTokenOrDisconnectIs
<1>3. req[q].kind \in {"token", "disconnect"} /\ Reask(Reasked(req[q].kind))
  BY DEF OnTokenOrDisconnect, Answered
<1>4. Reask({"providers"})
  BY <1>3 DEF Reasked
<1>5. \A k \in Queries \ behind' :
        \/ cache'[k].out = "sent"
        \/ k # "providers" /\ k \notin behind /\ cache'[k] = cache[k]
  <2>1. {"providers"} \in SUBSET Queries
    BY DEF Queries
  <2> QED
    BY <1>1, <1>4, <2>1, ReaskIs
<1>6. ASSUME Loaded, NEW k \in Queries, k \notin behind' PROVE Told(k)' \/ Follows(k)'
  <2>1. CASE cache'[k].out = "sent"
    BY <2>1, SentFollows
  <2>2. CASE k # "providers" /\ k \notin behind /\ cache'[k] = cache[k]
    <3>1. ~Telling(q, k)
      BY <1>3, <2>2 DEF Telling
    <3> QED
      BY <1>2, <1>6, <2>2, <3>1, NoNews
  <2> QED
    BY <1>5, <1>6, <2>1, <2>2
<1>7. Loaded => CardsFollow'
  BY <1>6 DEF CardsFollow
<1> QED
  BY <1>2, <1>7, AnswerSafe

LEMMA OnConfiguredSafe == ASSUME IInv, NEW q \in Reqs, OnConfigured(q) PROVE IInv'
<1>1. TypeInv
  BY DEF IInv, TypeInv
<1>2. /\ TypeInv' /\ Ends(q)
      /\ UNCHANGED <<page, env, cred, server, doubled, said, window>> /\ req[q].st # "free"
  BY <1>1, OnConfiguredIs
<1>3. req[q].kind = "config" /\ Reask({"providers"})
  BY DEF OnConfigured, Answered, Reasked
<1>4. \A k \in Queries \ behind' :
        \/ cache'[k].out = "sent"
        \/ k # "providers" /\ k \notin behind /\ cache'[k] = cache[k]
  <2>1. {"providers"} \in SUBSET Queries
    BY DEF Queries
  <2> QED
    BY <1>1, <1>3, <2>1, ReaskIs
<1>5. ASSUME Loaded, NEW k \in Queries, k \notin behind' PROVE Told(k)' \/ Follows(k)'
  <2>1. CASE cache'[k].out = "sent"
    BY <2>1, SentFollows
  <2>2. CASE k # "providers" /\ k \notin behind /\ cache'[k] = cache[k]
    <3>1. ~Telling(q, k)
      BY <1>3, <2>2 DEF Telling
    <3> QED
      BY <1>2, <1>5, <2>2, <3>1, NoNews
  <2> QED
    BY <1>4, <1>5, <2>1, <2>2
<1>6. Loaded => CardsFollow'
  BY <1>5 DEF CardsFollow
<1> QED
  BY <1>2, <1>6, AnswerSafe

LEMMA OnStartedSafe == ASSUME IInv, NEW q \in Reqs, OnStarted(q) PROVE IInv'
<1>1. TypeInv
  BY DEF IInv, TypeInv
<1>2. /\ TypeInv' /\ Ends(q)
      /\ UNCHANGED <<page, env, cred, server, doubled, said>> /\ req[q].st # "free"
      /\ window' = window \/ (window'.stage = "asks" /\ ~window'.whole)
  BY <1>1, OnStartedIs
<1>3. req[q].kind = "start" /\ UNCHANGED <<cache, behind>>
  BY DEF OnStarted, Answered
<1>4. \A k \in Queries : ~Telling(q, k)
  BY <1>3 DEF Telling
<1>5. Loaded => CardsFollow'
  <2>1. ASSUME Loaded, NEW k \in Queries \ behind' PROVE Told(k)' \/ Follows(k)'
    BY <1>2, <1>3, <1>4, <2>1, NoNews
  <2> QED
    BY <2>1 DEF CardsFollow
<1> QED
  BY <1>2, <1>5, AnswerSafe

LEMMA OnFailedSafe == ASSUME IInv, NEW q \in Reqs, OnFailed(q) PROVE IInv'
<1>1. TypeInv
  BY DEF IInv, TypeInv
<1>2. /\ TypeInv' /\ Ends(q)
      /\ UNCHANGED <<page, env, cred, server, doubled, said, window>> /\ req[q].st # "free"
  BY <1>1, OnFailedIs
<1>3. /\ req[q].st = "failed" /\ cache' = cache
      /\ behind' = IF req[q].kind = "link" THEN Queries ELSE behind
  BY DEF OnFailed
<1>4. Loaded => CardsFollow'
  <2>1. ASSUME Loaded, NEW k \in Queries \ behind' PROVE Told(k)' \/ Follows(k)'
    <3>1. req[q].kind # "link" /\ k \notin behind
      BY <1>3
    <3>2. ~Telling(q, k)
      BY <1>3, <3>1 DEF Telling
    <3> QED
      BY <1>2, <1>3, <2>1, <3>1, <3>2, NoNews
  <2> QED
    BY <2>1 DEF CardsFollow
<1> QED
  BY <1>2, <1>4, AnswerSafe

LEMMA LoseSafe == ASSUME IInv, NEW q \in Reqs, Lose(q) PROVE IInv'
<1>1. TypeInv
  BY DEF IInv, TypeInv
<1>2. /\ TypeInv' /\ Ends(q)
      /\ UNCHANGED <<page, env, cred, server, doubled, said, window>> /\ req[q].st # "free"
  BY <1>1, LoseIs
<1>3. /\ cache' = cache
      /\ behind' = IF req[q].st = "first" THEN behind ELSE Queries
  BY DEF Lose
<1>4. Loaded => CardsFollow'
  <2>1. ASSUME Loaded, NEW k \in Queries \ behind' PROVE Told(k)' \/ Follows(k)'
    <3>1. req[q].st = "first" /\ k \notin behind
      BY <1>3
    <3>2. ~Telling(q, k)
      BY <3>1 DEF Telling
    <3> QED
      BY <1>2, <1>3, <2>1, <3>1, <3>2, NoNews
  <2> QED
    BY <2>1 DEF CardsFollow
<1> QED
  BY <1>2, <1>4, AnswerSafe

LEMMA OnLeaveSafe == ASSUME IInv, NEW q \in Reqs, OnLeave(q) PROVE IInv'
<1>1. TypeInv
  BY DEF IInv, TypeInv
<1>2. /\ TypeInv' /\ (\A p \in Reqs : req'[p] = NoReq) /\ ~Loaded' /\ window'.stage = "asks"
      /\ UNCHANGED <<cred, server, doubled, said>>
  BY <1>1, OnLeaveIs
<1>3. \A p \in Reqs : ~Running(p)' /\ req'[p].st = "free"
  BY <1>2 DEF Running, NoReq, Steps
<1>4. RunOn
  BY <1>3 DEF RunOn
<1>5. DoublesKnown' /\ UncrossedKnow' /\ SaidIsSo'
  BY <1>2, <1>4, TablesStay
<1>6. CallbackCrosses' /\ LeftAlone' /\ CardsFollow'
  BY <1>2, <1>3 DEF CallbackCrosses, LeftAlone, CardsFollow
<1> QED
  BY <1>2, <1>5, <1>6 DEF IInv, TypeInv

LEMMA CallbackReadsSafe == ASSUME IInv, CallbackReads PROVE IInv'
<1>1. TypeInv
  BY DEF IInv, TypeInv
<1>2. /\ TypeInv' /\ Loaded' = Loaded
      /\ UNCHANGED <<page, env, cred, server, doubled, said, cache, behind>>
      /\ \A q \in Reqs : /\ req'[q].kind = req[q].kind /\ req'[q].app = req[q].app
                         /\ req'[q].st = req[q].st /\ req'[q].row = req[q].row
                         /\ req[q].crossed => req'[q].crossed
                         /\ req'[q].slip = req[q].slip
      /\ window'.stage = "writes" =>
           \A q \in Reqs : Running(q) /\ req[q].app = window'.app => req'[q].crossed
  BY <1>1, CallbackReadsIs
<1>3. RunOn
  BY <1>2 DEF RunOn, Running
<1>4. DoublesKnown' /\ UncrossedKnow' /\ SaidIsSo'
  BY <1>2, <1>3, TablesStay
<1>5. CallbackCrosses'
  BY <1>2 DEF CallbackCrosses, Running
<1>6. LeftAlone'
  BY <1>2 DEF IInv, LeftAlone
<1>7. CardsFollow'
  <2>1. ASSUME NEW k \in Queries PROVE Told(k) => Told(k)'
    <3>1. ASSUME NEW p \in Reqs, Telling(p, k) PROVE Telling(p, k)'
      BY <1>2, <3>1 DEF Telling
    <3> QED
      BY <3>1 DEF Told
  <2>2. \A b : SameOf(b)
    BY <1>2 DEF SameOf
  <2>3. \A k \in Queries : Follows(k) => Follows(k)'
    BY <1>2, <2>2, FollowsStays
  <2> QED
    BY <1>2, <2>1, <2>3 DEF IInv, CardsFollow
<1> QED
  BY <1>2, <1>4, <1>5, <1>6, <1>7 DEF IInv, TypeInv

LEMMA CallbackWritesSafe == ASSUME IInv, CallbackWrites PROVE IInv'
<1> DEFINE a == window.app
<1>1. TypeInv
  BY DEF IInv, TypeInv
<1>2. /\ TypeInv' /\ Tables(a) /\ a \in Providers /\ Loaded' = Loaded
      /\ UNCHANGED <<page, env, cache, req>> /\ window'.stage = "done"
      /\ said'[a] = None /\ \A b \in Apps \ {a} : said'[b] = said[b]
      /\ behind' = IF window.whole THEN behind ELSE behind \cup {"providers"}
  BY <1>1, CallbackWritesIs DEF IInv
<1>3. DoublesKnown' /\ \A b \in Apps \ {a} : SameOf(b)
  BY <1>2 DEF Tables
<1>4. UncrossedKnow'
  <2>1. ASSUME NEW p \in Reqs, ~req[p].crossed, ~req[p].slip, Running(p)
        PROVE  Knows(p)'
    <3>1. window.stage = "writes"
      BY DEF CallbackWrites
    <3> DEFINE b == req[p].app
    <3>2. Knows(p) /\ b \in Apps /\ b # a
      BY <1>1, <2>1, <3>1
         DEF IInv, UncrossedKnow, CallbackCrosses, TypeInv, KindsKnown, Running, Steps
    <3>3. /\ server'[b] = server[b] /\ (b \in Providers => cred'[b] = cred[b])
          /\ (b \in doubled' <=> b \in doubled)
      BY <1>3, <3>2 DEF SameOf
    <3>4. req[p].kind \in {"token", "disconnect"} => b \in Providers
      BY <1>1 DEF TypeInv, KindsKnown
    <3>5. req' = req
      BY <1>2
    <3> QED
      BY <3>2, <3>3, <3>4, <3>5 DEF Knows, Newest, Linked
  <2>2. ASSUME NEW p \in Reqs, ~Running(p)
        PROVE  Knows(p)'
    BY <1>2, <2>2 DEF Knows, Running, Steps
  <2> QED
    BY <1>2, <2>1, <2>2 DEF UncrossedKnow
<1>5. SaidIsSo'
  <2>1. ASSUME NEW b \in Apps, b # a
        PROVE  /\ said'[b] = "on" => Connected(b)'
               /\ (said'[b] = "off" /\ b \notin doubled') => ~Connected(b)'
    <3>1. SameOf(b) /\ said'[b] = said[b]
      BY <1>2, <1>3, <2>1
    <3> QED
      BY <3>1 DEF IInv, SaidIsSo, SameOf, Connected, HasCredential, Linked
  <2>2. said'[a] # "on" /\ said'[a] # "off"
    BY <1>2
  <2> QED
    BY <2>1, <2>2 DEF SaidIsSo
<1>6. CallbackCrosses'
  BY <1>2 DEF CallbackCrosses
<1>7. LeftAlone'
  BY <1>2 DEF IInv, LeftAlone
<1>8. CardsFollow'
  <2> SUFFICES ASSUME Loaded, NEW k \in Queries, k \notin behind'
               PROVE  Told(k)' \/ Follows(k)'
    BY <1>2 DEF CardsFollow
  <2>1. ~window.whole
    BY DEF CallbackWrites, Loaded
  <2>2. k = "servers" /\ k \notin behind
    BY <1>2, <2>1 DEF Queries
  <2>3. Told(k) => Told(k)'
    BY <1>2, ToldStays
  <2>4. \A b \in AppsOf(k) : SameOf(b)
    BY <1>2, <1>3, <2>2 DEF AppsOf, QueryOf
  <2>5. Follows(k) => Follows(k)'
    BY <1>2, <2>4, FollowsStays
  <2> QED
    BY <2>2, <2>3, <2>5 DEF IInv, CardsFollow
<1> QED
  BY <1>2, <1>3, <1>4, <1>5, <1>6, <1>7, <1>8 DEF IInv, TypeInv

LEMMA WindowSafe == ASSUME IInv, CloseWindow \/ Return PROVE IInv'
<1>1. TypeInv
  BY DEF IInv, TypeInv
<1>2. /\ TypeInv' /\ Quiet /\ Loaded' /\ window'.stage = "none"
      /\ \/ Loaded /\ UNCHANGED <<cache, behind>>
         \/ \A k \in Queries : cache'[k].out = "sent"
  BY <1>1, WindowEnds
<1>3. UNCHANGED <<env, cred, server, doubled, said, req>>
  BY <1>2 DEF Quiet
<1>4. RunOn
  BY <1>3 DEF RunOn, Running
<1>5. DoublesKnown' /\ UncrossedKnow' /\ SaidIsSo'
  BY <1>3, <1>4, TablesStay
<1>6. CallbackCrosses' /\ LeftAlone'
  BY <1>2 DEF CallbackCrosses, LeftAlone
<1>7. CardsFollow'
  <2>1. CASE Loaded /\ UNCHANGED <<cache, behind>>
    <3>1. \A b : SameOf(b)
      BY <1>3 DEF SameOf
    <3>2. \A k \in Queries : (Told(k) => Told(k)') /\ (Follows(k) => Follows(k)')
      BY <1>3, <2>1, <3>1, ToldStays, FollowsStays
    <3> QED
      BY <2>1, <3>2 DEF IInv, CardsFollow
  <2>2. CASE \A k \in Queries : cache'[k].out = "sent"
    BY <2>2, SentFollows DEF CardsFollow
  <2> QED
    BY <1>2, <2>1, <2>2
<1> QED
  BY <1>2, <1>5, <1>6, <1>7 DEF IInv, TypeInv

LEMMA IInvInit == Init => IInv
<1> SUFFICES ASSUME Init PROVE IInv
  OBVIOUS
<1>1. TypeInv
  BY TypeInit
<1>2. (\A q \in Reqs : req[q] = NoReq) /\ window = NoWindow
  BY DEF Init
<1>3. LeftAlone /\ CallbackCrosses /\ UncrossedKnow
  BY <1>2 DEF LeftAlone, CallbackCrosses, UncrossedKnow, Knows, NoReq, NoWindow
<1>4. DoublesKnown
  BY DEF Init, DoublesKnown
<1>5. SaidIsSo
  BY DEF Init, SaidIsSo
<1>6. CardsFollow
  <2>1. \A k \in Queries : cache[k].out = "no" /\ cache[k].data = Snapshot(k)
    BY DEF Init, Empty
  <2> QED
    BY <2>1 DEF CardsFollow, Follows
<1> QED
  BY <1>1, <1>3, <1>4, <1>5, <1>6 DEF IInv, TypeInv

LEMMA IInvStep == IInv /\ [Next]_vars => IInv'
<1> SUFFICES ASSUME IInv, [Next]_vars PROVE IInv'
  OBVIOUS
<1>1. CASE UNCHANGED vars
  <2>1. /\ UNCHANGED <<page, env, cred, server, cache, dialog, timers, window, cookie, req, acts>>
        /\ UNCHANGED <<behind, doubled, said>>
    BY <1>1 DEF vars
  <2>2. TypeOK' /\ KindsKnown' /\ DialogKnown' /\ ReadsKnown'
    BY <2>1 DEF IInv, TypeOK, KindsKnown, DialogKnown, ReadsKnown
  <2>3. RunOn
    BY <2>1 DEF RunOn, Running
  <2>4. DoublesKnown' /\ UncrossedKnow' /\ SaidIsSo' /\ CallbackCrosses'
    BY <2>1, <2>3, TablesStay, CrossesStay
  <2>5. Loaded' = Loaded
    BY <2>1 DEF Loaded
  <2>6. LeftAlone'
    BY <2>1, <2>5 DEF IInv, LeftAlone
  <2>7. \A b : SameOf(b)
    BY <2>1 DEF SameOf
  <2>8. \A k \in Queries : (Told(k) => Told(k)') /\ (Follows(k) => Follows(k)')
    BY <2>1, <2>7, ToldStays, FollowsStays
  <2>9. CardsFollow'
    BY <2>1, <2>5, <2>8 DEF IInv, CardsFollow
  <2> QED
    BY <2>2, <2>4, <2>6, <2>9 DEF IInv
<1>2. CASE PageStep
  BY <1>2, PageStepSafe
<1>3. CASE Sends
  BY <1>3, SendsSafe
<1>4. CASE CloseWindow \/ Return
  BY <1>4, WindowSafe
<1>5. CASE CallbackReads
  BY <1>5, CallbackReadsSafe
<1>6. CASE CallbackWrites
  BY <1>6, CallbackWritesSafe
<1>7. CASE \E q \in Reqs : ServerStep(q) \/ StatementFails(q)
  BY <1>7, ServerStepSafe
<1>8. CASE \E q \in Reqs : AnswerStep(q)
  BY <1>8, OnLinkedSafe, OnTokenOrDisconnectSafe, OnConfiguredSafe, OnStartedSafe, OnLeaveSafe,
     OnFailedSafe DEF AnswerStep
<1>9. CASE \E q \in Reqs : Lose(q)
  BY <1>9, LoseSafe
<1>10. Next => \/ PageStep \/ Sends \/ CloseWindow \/ Return \/ CallbackReads \/ CallbackWrites
               \/ \E q \in Reqs : ServerStep(q) \/ StatementFails(q) \/ AnswerStep(q)
                                 \/ Lose(q)
  BY DEF Next, UserStep, PageStep, Sends
<1> QED
  BY <1>1, <1>2, <1>3, <1>4, <1>5, <1>6, <1>7, <1>8, <1>9, <1>10

-----------------------------------------------------------------------------
(* Theorems                                                                *)

\* Every part of the inductive invariant holds in every state.
THEOREM Invariance == Spec => []IInv
BY IInvInit, IInvStep, PTL DEF Spec

\* Every variable has its type: a provider's credentials have different names,
\* the popups an interval looks at are those of acts, and so on.
THEOREM TypeCorrect == Spec => []TypeOK
<1>1. IInv => TypeOK
  BY DEF IInv
<1> QED
  BY <1>1, Invariance, PTL

\* A card with nothing on its way is what the tables say, unless its query is
\* known to be behind.
THEOREM QuietCardsAreCurrent == Spec => []QuietCardIsCurrent
<1>1. IInv => QuietCardIsCurrent
  <2> SUFFICES ASSUME IInv, Loaded, \A q \in Reqs : req[q].st = "free", NEW a \in Apps,
                      cache[QueryOf(a)].out = "no", cache[QueryOf(a)].data # None,
                      QueryOf(a) \notin behind
               PROVE  cache[QueryOf(a)].data[a] = Snapshot(QueryOf(a))[a]
    BY DEF QuietCardIsCurrent
  <2>1. QueryOf(a) \in Queries /\ a \in AppsOf(QueryOf(a))
    BY DEF QueryOf, Queries, AppsOf
  <2>2. ~Told(QueryOf(a))
    BY DEF Told, Telling
  <2> QED
    BY <2>1, <2>2 DEF IInv, CardsFollow, Follows
<1> QED
  BY <1>1, Invariance, PTL

\* What the last statement about an app made of it is so.
THEOREM WhatIsSaidIsSo == Spec => []SaidIsSo
<1>1. IInv => SaidIsSo
  BY DEF IInv
<1> QED
  BY <1>1, Invariance, PTL

=============================================================================
