--------------------------- MODULE ListPagesProofs ---------------------------
(***************************************************************************)
(* What the list pages promise, for every set of pages, rows and requests  *)
(* and every bound: what is typed once becomes one row, a page with        *)
(* nothing out shows the rows the server has, and a request names the row  *)
(* its control was about (everywhere but on the bots' page).               *)
(*                                                                         *)
(* The invariants are not inductive as they stand. Two facts carry them.   *)
(* A text that a form still holds is in no row, unless the create that     *)
(* wrote it is about to be answered, which closes the form and blanks what *)
(* it held; and a request that was not served yet holds a text of its own  *)
(* that is in no row. A list that is behind the server has an answered     *)
(* change on its way, whose success fetches the list again.                *)
(***************************************************************************)
EXTENDS ListPages, TLAPS

USE ListPagesAssumption

\* The inductive invariant, in parts.

\* A free request is blank in kind, and only changes of a row name one.
KindKnown(q) ==
  /\ req[q].st # "free" => req[q].kind \in Kinds
  /\ req[q].st = "free" => req[q].kind = "none"
  /\ req[q].kind \in {"none", "create", "clear"} => req[q].meant = None /\ req[q].row = None

TypeInv == TypeOK /\ \A q \in Reqs : KindKnown(q)

Creates(q) == req[q].kind = "create"
Done(q) == req[q].st \in {"stored", "ok"}
Unserved(q) == req[q].st \in {"paused", "sent"}
Typing == form.open /\ form.of = None

\* The text t is what a new form, open or closed, still holds.
Held(t) == t = draft \/ (Typing /\ t = form.text)

\* Only a page with a form for new rows holds a text, and it creates one row
\* at a time.
NewForms ==
  /\ Typing => Is("new")
  /\ draft # 0 => Is("new")
  /\ \A q \in Reqs : Creates(q) => Is("new") \/ Is("upload")
  /\ Is("new") => \A p, q \in Reqs : Creates(p) /\ Creates(q) => p = q

\* No stamp is of an act that is still to come.
StampsUsed ==
  /\ \A r \in Rows : row[r].born <= acts
  /\ \A t \in Stamps : Held(t) => t <= acts
  /\ \A q \in Reqs : Creates(q) => req[q].text <= acts

OwnTexts ==
  \A p, q \in Reqs : Creates(p) /\ Creates(q) /\ req[p].text = req[q].text => p = q

\* A text that is held and is in a row: the create that wrote it is served.
HeldIsUnborn ==
  ~lost => \A r \in Rows : row[r].born # 0 /\ Held(row[r].born)
                             => \E q \in Reqs : Creates(q) /\ Done(q)

\* What was not served yet is in no row.
UnservedIsUnborn ==
  ~lost => \A q \in Reqs : Creates(q) /\ Unserved(q)
                             => \A r \in Rows : row[r].born = 0 \/ row[r].born # req[q].text

Births == NewForms /\ StampsUsed /\ OwnTexts /\ HeldIsUnborn /\ UnservedIsUnborn /\ NoDoubleCreate

\* A list that is behind has an answered change on its way.
Changing == \E q \in Reqs : Done(q)
ListFollows ==
  ~lost /\ ~early =>
    /\ list.data # None /\ list.out = "no" => list.data = Snapshot \/ Changing
    /\ list.out = "read" => list.got = Snapshot \/ Changing

-----------------------------------------------------------------------------
(* The pages and what they offer                                           *)

\* A page whose form makes new rows waits for its save, uploads nothing, and
\* is not the documents'.
LEMMA NewFormsWait ==
  ASSUME page \in Pages, Is("new")
  PROVE  ~Is("enter") /\ ~Is("upload") /\ page # "documents"
<1>1. page \in {"bots", "projects", "memories", "settings", "servers", "credentials",
                "documents", "chats", "instructions"}
  OBVIOUS
<1>2. CASE page = "bots"
  BY <1>2 DEF Is, Controls, BotsView, BotCard, BotFormDialog, BotDelete
<1>3. CASE page = "projects"
  BY <1>3 DEF Is, Controls, ProjectsView, ProjectCard, CreateProject, EditProject, ProjectDelete
<1>4. CASE page = "memories"
  BY <1>4 DEF Is, Controls, MemoryForm, MemoryList
<1>5. CASE page = "settings"
  BY <1>5 DEF Is, Controls, SettingsMemories
<1>6. CASE page = "servers"
  BY <1>6 DEF Is, Controls, AddServer, ServerList
<1>7. CASE page = "credentials"
  BY <1>7 DEF Is, Controls, AddCredential, CredentialList
<1>8. CASE page = "documents"
  BY <1>8 DEF Is, Controls, DocumentsView, DocumentList, DocumentDelete
<1>9. CASE page = "chats"
  BY <1>9 DEF Is, Controls, ChatMenu, RenameDialog, ChatDelete
<1>10. CASE page = "instructions"
  BY <1>10 DEF Is, Controls, Instructions
<1> QED BY <1>1, <1>2, <1>3, <1>4, <1>5, <1>6, <1>7, <1>8, <1>9, <1>10

-----------------------------------------------------------------------------
(* Types                                                                   *)

\* A step changes the page never, and its kind of controls neither.
LEMMA SameControls == ASSUME NEW c, page' = page PROVE Is(c)' <=> Is(c)
BY DEF Is, Controls

\* One request is written as a whole.
LEMMA ReqWritten ==
  ASSUME TypeInv, NEW q \in Reqs, NEW v \in ReqRows, req' = [req EXCEPT ![q] = v],
         v.st # "free" => v.kind \in Kinds,
         v.st = "free" => v.kind = "none",
         v.kind \in {"none", "create", "clear"} => v.meant = None /\ v.row = None
  PROVE  /\ req' \in [Reqs -> ReqRows] /\ req'[q] = v
         /\ \A p \in Reqs \ {q} : req'[p] = req[p]
         /\ \A p \in Reqs : KindKnown(p)'
BY DEF TypeInv, TypeOK, KindKnown

\* One request moves on.
LEMMA ReqMoved ==
  ASSUME TypeInv, NEW q \in Reqs, NEW s \in {"paused", "sent", "stored", "ok", "failed"},
         req[q].st # "free", req' = [req EXCEPT ![q].st = s]
  PROVE  /\ req' \in [Reqs -> ReqRows]
         /\ req'[q].st = s /\ req'[q].kind = req[q].kind /\ req'[q].meant = req[q].meant
         /\ req'[q].row = req[q].row /\ req'[q].text = req[q].text
         /\ \A p \in Reqs \ {q} : req'[p] = req[p]
         /\ \A p \in Reqs : KindKnown(p)'
<1>1. req \in [Reqs -> ReqRows] /\ KindKnown(q) /\ \A p \in Reqs : KindKnown(p)
  BY DEF TypeInv, TypeOK
<1> DEFINE v == [req[q] EXCEPT !.st = s]
<1>2. /\ v \in ReqRows /\ v.st = s /\ v.kind = req[q].kind /\ v.meant = req[q].meant
      /\ v.row = req[q].row /\ v.text = req[q].text
  BY <1>1 DEF ReqRows
<1>3. req' = [req EXCEPT ![q] = v]
  BY <1>1
<1>4. KindKnown(q)
  BY <1>1
<1>5. v.kind \in Kinds /\ (v.kind \in {"none", "create", "clear"} => v.meant = None /\ v.row = None)
  BY <1>2, <1>4 DEF KindKnown
<1> HIDE DEF v
<1>6. /\ req' \in [Reqs -> ReqRows] /\ req'[q] = v
      /\ \A p \in Reqs \ {q} : req'[p] = req[p]
      /\ \A p \in Reqs : KindKnown(p)'
  BY <1>2, <1>3, <1>5, ReqWritten
<1> QED BY <1>2, <1>6

\* What the server sends is a list of rows.
LEMMA SnapshotType == ASSUME row \in Lists PROVE Snapshot \in Lists
<1>1. NoRow \in Row
  BY DEF NoRow, Row, Stamps
<1> QED BY <1>1 DEF Snapshot, Lists

\* Asking again keeps what is shown, and starts a fetch.
LEMMA QueryType ==
  ASSUME list \in Queries
  PROVE  /\ Fetched(list) \in Queries /\ Refetched(list) \in Queries
         /\ Fetched(list).data = list.data /\ Refetched(list).data = list.data
         /\ Fetched(list).out # "no" /\ Refetched(list).out # "no"
         /\ list.data # None => Refetched(list).out = "sent"
         /\ list.out = "no" => Fetched(list).out = "sent"
BY DEF Queries, Fetched, Refetched

\* A new request.
LEMMA SendType ==
  ASSUME TypeInv, Act, NEW q \in Reqs, NEW kind \in Kinds, NEW r \in Rows \cup {None},
         NEW text \in Stamps, Send(q, kind, r, text),
         kind \in {"create", "clear"} => r = None
  PROVE  /\ req' \in [Reqs -> ReqRows] /\ req[q].st = "free"
         /\ req'[q].st \in {"sent", "paused"} /\ req'[q].kind = kind
         /\ req'[q].meant = r /\ req'[q].text = text
         /\ (req'[q].st = "sent" => req'[q].row = r)
         /\ \A p \in Reqs \ {q} : req'[p] = req[p]
         /\ \A p \in Reqs : KindKnown(p)'
<1> DEFINE v == [st |-> IF online THEN "sent" ELSE "paused", kind |-> kind, meant |-> r,
                 row |-> IF online THEN r ELSE None, text |-> text, at |-> acts + 1]
<1>1. acts + 1 \in Stamps
  BY DEF Act, TypeInv, TypeOK, Stamps
<1>2. v \in ReqRows
  BY <1>1 DEF ReqRows
<1>3. req' = [req EXCEPT ![q] = v] /\ req[q].st = "free"
  BY DEF Send
<1>4. kind # "none"
  BY DEF Kinds
<1>5. req' \in [Reqs -> ReqRows] /\ req'[q] = v /\ (\A p \in Reqs \ {q} : req'[p] = req[p])
      /\ \A p \in Reqs : KindKnown(p)'
  <2>1. v.st # "free" /\ v.kind \in Kinds
    OBVIOUS
  <2>2. v.kind \in {"none", "create", "clear"} => v.meant = None /\ v.row = None
    BY <1>4
  <2> HIDE DEF v
  <2> QED BY <1>2, <1>3, <2>1, <2>2, ReqWritten
<1> QED BY <1>3, <1>5

\* A free request.
LEMMA FreedType ==
  ASSUME TypeInv, NEW q \in Reqs, req' = [req EXCEPT ![q] = NoReq]
  PROVE  /\ req' \in [Reqs -> ReqRows] /\ req'[q] = NoReq
         /\ \A p \in Reqs \ {q} : req'[p] = req[p]
         /\ \A p \in Reqs : KindKnown(p)'
<1>1. NoReq \in ReqRows /\ NoReq.st = "free" /\ NoReq.kind = "none" /\ NoReq.meant = None
      /\ NoReq.row = None
  BY DEF NoReq, ReqRows, Stamps
<1> QED BY <1>1, ReqWritten

\* What the page does to its forms, and what becomes of the network.
LEMMA FormTypes ==
  ASSUME TypeInv,
         \/ Type \/ CancelForm \/ Unask \/ GoOffline \/ GoOnline
         \/ (\E r \in Rows \cup {None} : OpenForm(r)) \/ (\E r \in Rows : Ask(r))
  PROVE  TypeInv'
<1> USE DEF TypeInv, TypeOK, KindKnown
<1>0. acts < MaxActs => acts + 1 \in Stamps
  BY DEF Stamps
<1>1. CASE Type
  BY <1>0, <1>1 DEF Type, Act, Forms
<1>2. CASE CancelForm
  BY <1>2 DEF CancelForm, Forms, Closed, Stamps
<1>3. CASE Unask
  BY <1>3 DEF Unask
<1>4. CASE GoOffline \/ GoOnline
  BY <1>0, <1>4 DEF GoOffline, GoOnline, Act
<1>5. ASSUME NEW r \in Rows \cup {None}, OpenForm(r) PROVE TypeInv'
  <2>1. draft' \in Stamps /\ form' \in Forms
    <3>1. CASE r = None
      BY <1>5, <3>1 DEF OpenForm, Forms, Stamps
    <3>2. CASE r # None
      <4>1. list.data \in Lists
        BY <1>5, <3>2 DEF OpenForm, Shown, Queries
      <4>2. list.data[r].text \in Stamps
        BY <3>2, <4>1 DEF Lists, Row
      <4> QED BY <1>5, <3>2, <4>2 DEF OpenForm, Forms
    <3> QED BY <3>1, <3>2
  <2> QED BY <1>0, <1>5, <2>1 DEF OpenForm, Act
<1>6. ASSUME NEW r \in Rows, Ask(r) PROVE TypeInv'
  BY <1>0, <1>6 DEF Ask, Act
<1> QED BY <1>1, <1>2, <1>3, <1>4, <1>5, <1>6

\* The fetches of the list.
LEMMA FetchTypes ==
  ASSUME TypeInv, Read \/ Arrive \/ FetchFails \/ Retry \/ Poll
  PROVE  TypeInv'
<1>1. list \in Queries /\ row \in Lists /\ Snapshot \in Lists
  BY SnapshotType DEF TypeInv, TypeOK
<1>2. list' \in Queries
  <2>1. CASE Read
    BY <1>1, <2>1 DEF Read, Queries
  <2>2. CASE Arrive
    BY <1>1, <2>2 DEF Arrive, Queries
  <2>3. CASE FetchFails
    BY <1>1, <2>3 DEF FetchFails, Queries
  <2>4. CASE Retry \/ Poll
    BY <1>1, <2>4, QueryType DEF Retry, Poll
  <2> QED BY <2>1, <2>2, <2>3, <2>4
<1>3. acts' \in Stamps
  BY DEF TypeInv, TypeOK, Read, Arrive, FetchFails, Retry, Poll, Act, Stamps
<1>4. online' = online /\ early' = early /\ lost' \in BOOLEAN
  <2>1. CASE FetchFails
    BY <2>1 DEF FetchFails
  <2>2. CASE ~FetchFails
    BY <2>2 DEF TypeInv, TypeOK, Read, Arrive, Retry, Poll
  <2> QED BY <2>1, <2>2
<1>5. UNCHANGED <<page, row, form, draft, asking, req>>
  BY DEF Read, Arrive, FetchFails, Retry, Poll
<1> QED BY <1>2, <1>3, <1>4, <1>5 DEF TypeInv, TypeOK, KindKnown

\* A control sends the request q, and leaves the rest of the page alone.
Sends(q) ==
  \/ Submit(q) \/ Upload(q) \/ ConfirmDelete(q) \/ ClearAll(q)
  \/ \E r \in Rows : Remove(q, r) \/ Flip(q, r)

\* What a control sends: a kind, the row it is about, and a text.
LEMMA SendsOne ==
  ASSUME TypeInv, NEW q \in Reqs, Sends(q)
  PROVE  /\ \E kind \in Kinds, r \in Rows \cup {None}, text \in Stamps :
              /\ Send(q, kind, r, text)
              /\ kind \in {"create", "clear"} => r = None
         /\ Act /\ asking' \in {asking, None}
         /\ UNCHANGED <<page, row, list, form, draft, online, lost, early>>
<1> USE DEF TypeInv, TypeOK
<1>0. Act => acts + 1 \in Stamps /\ 0 \in Stamps
  BY DEF Act, Stamps
<1>1. CASE Submit(q)
  <2>1. form \in Forms
    OBVIOUS
  <2>2. form.of \in Rows \cup {None} /\ form.text \in Stamps
    BY <2>1 DEF Forms
  <2>3. CASE form.of = None
    BY <1>1, <2>2, <2>3 DEF Submit, Kinds
  <2>4. CASE form.of # None
    BY <1>1, <2>2, <2>4 DEF Submit, Kinds
  <2> QED BY <2>3, <2>4
<1>2. CASE Upload(q)
  BY <1>0, <1>2 DEF Upload, Kinds
<1>3. CASE ConfirmDelete(q)
  BY <1>0, <1>3 DEF ConfirmDelete, Kinds
<1>4. CASE ClearAll(q)
  BY <1>0, <1>4 DEF ClearAll, Kinds
<1>5. ASSUME NEW r \in Rows, Remove(q, r) PROVE Send(q, "delete", r, 0)
  BY <1>5 DEF Remove
<1>6. ASSUME NEW r \in Rows, Flip(q, r) PROVE Send(q, "flip", r, 0)
  BY <1>6 DEF Flip
<1>7. CASE \E r \in Rows : Remove(q, r) \/ Flip(q, r)
  BY <1>0, <1>5, <1>6, <1>7 DEF Kinds, Remove, Flip
<1> QED BY <1>1, <1>2, <1>3, <1>4, <1>7 DEF Sends

LEMMA SendTypes ==
  ASSUME TypeInv, NEW q \in Reqs, Sends(q)
  PROVE  TypeInv'
<1>1. PICK kind \in Kinds, r \in Rows \cup {None}, text \in Stamps :
        Send(q, kind, r, text) /\ (kind \in {"create", "clear"} => r = None)
  BY SendsOne
<1>2. Act /\ asking' \in {asking, None}
      /\ UNCHANGED <<page, row, list, form, draft, online, lost, early>>
  BY SendsOne
<1>3. req' \in [Reqs -> ReqRows] /\ \A p \in Reqs : KindKnown(p)'
  BY <1>1, <1>2, SendType
<1>4. acts' \in Stamps
  BY <1>2 DEF Act, TypeInv, TypeOK, Stamps
<1> QED BY <1>2, <1>3, <1>4 DEF TypeInv, TypeOK

\* Rows keep their type, and what was born with them, when they are changed,
\* cleared or ingested.
LEMMA RowsKeep ==
  ASSUME TypeInv, NEW q \in Reqs,
         \/ req[q].st = "sent" /\ (Changed(q) \/ Cleared(q))
         \/ Ingested(q)
  PROVE  row' \in Lists /\ \A r \in Rows : row'[r].born = row[r].born
<1>1. row \in [Rows -> Row] /\ KindKnown(q) /\ req[q] \in ReqRows
  BY DEF TypeInv, TypeOK, Lists
<1>2. CASE req[q].st = "sent" /\ Changed(q)
  <2> DEFINE r == req[q].row
  <2>1. r \in Rows /\ r # None
    BY <1>1, <1>2 DEF Changed, ReqRows
  <2>2. req[q].kind \in {"update", "flip", "delete"} /\ req[q].text \in Stamps
    BY <1>1, <1>2, <2>1 DEF KindKnown, Kinds, ReqRows
  <2>3. CASE req[q].kind = "update"
    <3>1. row' = [row EXCEPT ![r].text = req[q].text]
      BY <1>2, <2>3 DEF Changed
    <3> QED BY <1>1, <2>1, <2>2, <3>1 DEF Row, Lists
  <2>4. CASE req[q].kind = "flip"
    <3>1. row' = [row EXCEPT ![r].on = ~row[r].on]
      BY <1>2, <2>4 DEF Changed
    <3>2. (~row[r].on) \in BOOLEAN
      OBVIOUS
    <3> DEFINE b == ~row[r].on
    <3>3. b \in BOOLEAN /\ row' = [row EXCEPT ![r].on = b]
      BY <3>1, <3>2
    <3> HIDE DEF b
    <3> QED BY <1>1, <2>1, <3>3 DEF Row, Lists
  <2>5. CASE req[q].kind = "delete"
    <3>1. row' = [row EXCEPT ![r].st = "gone"]
      BY <1>2, <2>5 DEF Changed
    <3> QED BY <1>1, <2>1, <3>1 DEF Row, Lists
  <2> QED BY <2>2, <2>3, <2>4, <2>5
<1>3. CASE req[q].st = "sent" /\ Cleared(q)
  <2>1. row' = [r \in Rows |-> IF Here(r) THEN [row[r] EXCEPT !.st = "gone"] ELSE row[r]]
    BY <1>3 DEF Cleared
  <2> QED BY <1>1, <2>1 DEF Row, Lists
<1>4. CASE Ingested(q)
  <2> DEFINE yes == TRUE
  <2>1. row' = [r \in Rows |-> IF row[r].born = req[q].text THEN [row[r] EXCEPT !.on = yes]
                              ELSE row[r]]
    BY <1>4 DEF Ingested
  <2>2. yes \in BOOLEAN
    OBVIOUS
  <2> HIDE DEF yes
  <2> QED BY <1>1, <2>1, <2>2 DEF Row, Lists
<1> QED BY <1>2, <1>3, <1>4

\* A created row is a row, and it is born with the text of its request.
LEMMA RowBorn ==
  ASSUME TypeInv, NEW q \in Reqs, Created(q)
  PROVE  /\ row' \in Lists
         /\ \E r \in Rows : /\ row'[r].born = req[q].text
                            /\ \A s \in Rows \ {r} : row'[s] = row[s]
<1>1. row \in [Rows -> Row] /\ req[q].text \in Stamps
  BY DEF TypeInv, TypeOK, Lists, ReqRows
<1>2. PICK r \in Rows : row' = [row EXCEPT ![r] = [st |-> "here", text |-> req[q].text,
                                                 on |-> page # "documents", born |-> req[q].text]]
  BY DEF Created
<1> DEFINE v == [st |-> "here", text |-> req[q].text, on |-> page # "documents",
                 born |-> req[q].text]
<1>3. v \in Row /\ v.born = req[q].text
  <2> DEFINE b == page # "documents"
  <2>1. b \in BOOLEAN
    OBVIOUS
  <2> HIDE DEF b
  <2>2. [st |-> "here", text |-> req[q].text, on |-> b, born |-> req[q].text] \in Row
    BY <1>1, <2>1 DEF Row
  <2> QED BY <2>2 DEF b
<1>4. row' = [row EXCEPT ![r] = v]
  BY <1>2
<1> HIDE DEF v
<1> QED BY <1>1, <1>3, <1>4 DEF Lists

\* The request q moves on: it is sent, served, refused, ingested, or its
\* answer is lost.
Moves(q) == Serve(q) \/ Ingested(q) \/ FinalizeFails(q) \/ Refuse(q) \/ Lose(q)

LEMMA MovesOne ==
  ASSUME TypeInv, NEW q \in Reqs, Moves(q)
  PROVE  /\ req[q].st \in {"sent", "stored", "ok"}
         /\ \E s \in {"stored", "ok", "failed"} : req' = [req EXCEPT ![q].st = s]
         /\ UNCHANGED <<page, list, form, draft, asking, online, early>>
BY DEF Moves, Serve, Created, Changed, Cleared, Ingested, Refuse, Lose, FinalizeFails

LEMMA MoveTypes ==
  ASSUME TypeInv, NEW q \in Reqs, Moves(q)
  PROVE  TypeInv'
<1>1. req' \in [Reqs -> ReqRows] /\ \A p \in Reqs : KindKnown(p)'
  BY MovesOne, ReqMoved
<1>2. UNCHANGED <<page, list, form, draft, asking, online, early>>
  BY MovesOne
<1>3. row' \in Lists
  <2>1. CASE req[q].st = "sent" /\ Created(q)
    BY <2>1, RowBorn
  <2>2. CASE (req[q].st = "sent" /\ (Changed(q) \/ Cleared(q))) \/ Ingested(q)
    BY <2>2, RowsKeep
  <2>3. CASE Refuse(q) \/ Lose(q) \/ FinalizeFails(q)
    BY <2>3 DEF Refuse, Lose, FinalizeFails, TypeInv, TypeOK
  <2> QED BY <2>1, <2>2, <2>3 DEF Moves, Serve
<1>4. acts' \in Stamps
  BY DEF Moves, Serve, Ingested, Refuse, Lose, FinalizeFails, Act, TypeInv, TypeOK, Stamps
<1>5. lost' \in BOOLEAN
  <2>1. CASE Lose(q) \/ FinalizeFails(q)
    BY <2>1 DEF Lose, FinalizeFails
  <2>2. CASE ~Lose(q) /\ ~FinalizeFails(q)
    BY <2>2 DEF Moves, Serve, Ingested, Refuse, TypeInv, TypeOK
  <2> QED BY <2>1, <2>2
<1> QED BY <1>1, <1>2, <1>3, <1>4, <1>5 DEF TypeInv, TypeOK

\* A paused request is sent, for the row its hook names by now.
LEMMA StartSends ==
  ASSUME TypeInv, NEW q \in Reqs, Start(q)
  PROVE  /\ req' \in [Reqs -> ReqRows] /\ (\A p \in Reqs : KindKnown(p)')
         /\ req[q].st = "paused" /\ req'[q].st = "sent" /\ req'[q].kind = req[q].kind
         /\ req'[q].text = req[q].text /\ req'[q].meant = req[q].meant
         /\ (~BindsLate(req[q].kind) => req'[q].row = req[q].meant)
         /\ \A p \in Reqs \ {q} : req'[p] = req[p]
<1>1. req \in [Reqs -> ReqRows] /\ KindKnown(q) /\ form \in Forms /\ asking \in Rows \cup {None}
  BY DEF TypeInv, TypeOK
<1> DEFINE target == IF BindsLate(req[q].kind) THEN Rendered(req[q].kind) ELSE req[q].meant
           moved == [req[q] EXCEPT !.st = "sent"]
           v == [moved EXCEPT !.row = target]
<1>2. target \in Rows \cup {None}
  BY <1>1 DEF Rendered, Forms, ReqRows
<1>3. req[q].st = "paused" /\ req' = [req EXCEPT ![q].st = "sent", ![q].row = target]
  BY DEF Start
<1>4. req[q].kind \in {"none", "create", "clear"} => target = None
  BY <1>1 DEF KindKnown, BindsLate
<1>5. ~BindsLate(req[q].kind) => target = req[q].meant
  OBVIOUS
<1> HIDE DEF target
<1>6. /\ moved \in ReqRows /\ moved.st = "sent" /\ moved.kind = req[q].kind
      /\ moved.meant = req[q].meant /\ moved.text = req[q].text
  BY <1>1 DEF ReqRows
<1>7. req' = [req EXCEPT ![q] = v]
  BY <1>1, <1>3
<1> HIDE DEF moved
<1>8. /\ v \in ReqRows /\ v.st = "sent" /\ v.kind = req[q].kind /\ v.row = target
      /\ v.meant = req[q].meant /\ v.text = req[q].text
  BY <1>2, <1>6 DEF ReqRows
<1>9. v.kind \in Kinds
      /\ (v.kind \in {"none", "create", "clear"} => v.meant = None /\ v.row = None)
  BY <1>1, <1>3, <1>4, <1>8 DEF KindKnown
<1> HIDE DEF v
<1>10. /\ req' \in [Reqs -> ReqRows] /\ req'[q] = v
       /\ \A p \in Reqs \ {q} : req'[p] = req[p]
       /\ \A p \in Reqs : KindKnown(p)'
  BY <1>7, <1>8, <1>9, ReqWritten
<1> QED BY <1>3, <1>5, <1>8, <1>10

LEMMA StartTypes ==
  ASSUME TypeInv, NEW q \in Reqs, Start(q)
  PROVE  TypeInv'
<1>1. req' \in [Reqs -> ReqRows] /\ \A p \in Reqs : KindKnown(p)'
  BY StartSends
<1>2. UNCHANGED <<page, row, list, form, draft, asking, online, acts, lost, early>>
  BY DEF Start
<1> QED BY <1>1, <1>2 DEF TypeInv, TypeOK

\* What is left of the page when an answer was handled.
LEMMA Answered ==
  ASSUME TypeInv, NEW q \in Reqs, Succeeded(q)
  PROVE  /\ form' \in {form, Closed} /\ asking' \in {asking, None} /\ draft' \in {draft, 0}
         /\ (req[q].kind = "create" /\ page # "documents" => AfterCreate)
         /\ list' = Refetched(list)
         /\ req[q].st = "ok" /\ req' = [req EXCEPT ![q] = NoReq]
         /\ UNCHANGED <<page, row, online, acts, lost>>
<1>1. req[q].kind \in Kinds /\ req[q].st = "ok" /\ req' = [req EXCEPT ![q] = NoReq]
      /\ UNCHANGED <<page, row, online, acts, lost>>
  BY DEF Succeeded, TypeInv, KindKnown
<1>2. list' = Refetched(list)
  BY <1>1 DEF Succeeded, Reasks
<1>3. CASE req[q].kind = "create" /\ page # "documents"
  BY <1>1, <1>2, <1>3 DEF Succeeded, AfterCreate
<1>4. CASE req[q].kind = "update" /\ Latest(q)
  BY <1>1, <1>2, <1>4 DEF Succeeded, AfterUpdate
<1>5. CASE req[q].kind = "delete"
  BY <1>1, <1>2, <1>5 DEF Succeeded, AfterDelete
<1>6. CASE /\ ~(req[q].kind = "create" /\ page # "documents")
           /\ ~(req[q].kind = "update" /\ Latest(q)) /\ req[q].kind # "delete"
  BY <1>1, <1>2, <1>6 DEF Succeeded
<1> QED BY <1>3, <1>4, <1>5, <1>6

LEMMA AnswerTypes ==
  ASSUME TypeInv, NEW q \in Reqs, Succeeded(q) \/ Failed(q)
  PROVE  TypeInv'
<1>0. req' = [req EXCEPT ![q] = NoReq]
  BY DEF Succeeded, Failed
<1>1. req' \in [Reqs -> ReqRows] /\ \A p \in Reqs : KindKnown(p)'
  BY <1>0, FreedType
<1>2. CASE Succeeded(q)
  <2>0. Closed \in Forms /\ 0 \in Stamps
    BY DEF Closed, Forms, Stamps
  <2>1. form' \in Forms /\ asking' \in Rows \cup {None} /\ draft' \in Stamps
    BY <1>2, <2>0, Answered DEF TypeInv, TypeOK
  <2>2. list' \in Queries
    BY <1>2, Answered, QueryType DEF TypeInv, TypeOK
  <2>3. UNCHANGED <<page, row, online, acts, lost>>
    BY <1>2 DEF Succeeded
  <2>4. early' \in BOOLEAN
    BY <1>2 DEF Succeeded
  <2> QED BY <1>1, <2>1, <2>2, <2>3, <2>4 DEF TypeInv, TypeOK
<1>3. CASE Failed(q)
  BY <1>1, <1>3 DEF Failed, TypeInv, TypeOK
<1> QED BY <1>2, <1>3

-----------------------------------------------------------------------------
(* The actions, by what they leave alone                                   *)

FormSteps ==
  \/ Type \/ CancelForm \/ Unask \/ GoOffline \/ GoOnline
  \/ (\E r \in Rows \cup {None} : OpenForm(r)) \/ (\E r \in Rows : Ask(r))
FetchSteps == Read \/ Arrive \/ FetchFails \/ Retry \/ Poll

LEMMA NextCases ==
  ASSUME Next
  PROVE  \/ FormSteps \/ FetchSteps
         \/ \E q \in Reqs : Sends(q) \/ Start(q) \/ Moves(q) \/ Succeeded(q) \/ Failed(q)
<1>1. CASE UserStep
  BY <1>1 DEF UserStep, FormSteps, FetchSteps, Sends
<1>2. CASE RequestStep
  BY <1>2 DEF RequestStep, Moves
<1>3. CASE \/ Read \/ Arrive \/ FetchFails \/ Poll \/ GoOffline \/ GoOnline
           \/ \E q \in Reqs : Lose(q)
  BY <1>3 DEF FormSteps, FetchSteps, Moves
<1> QED BY <1>1, <1>2, <1>3 DEF Next

LEMMA TypeInit == Init => TypeInv
<1> SUFFICES ASSUME Init PROVE TypeInv
  OBVIOUS
<1>1. NoReq \in ReqRows /\ NoReq.st = "free" /\ NoReq.kind = "none" /\ NoReq.meant = None
      /\ NoReq.row = None
  BY DEF NoReq, ReqRows, Stamps
<1>2. req \in [Reqs -> ReqRows] /\ \A q \in Reqs : KindKnown(q)
  BY <1>1 DEF Init, KindKnown
<1>3. row \in Lists
  <2> DEFINE yes == TRUE
             first == [[NoRow EXCEPT !.st = "here"] EXCEPT !.on = yes]
  <2>1. NoRow \in Row
    BY DEF NoRow, Row, Stamps
  <2>2. yes \in BOOLEAN /\ first = [NoRow EXCEPT !.st = "here", !.on = TRUE]
    BY DEF NoRow
  <2> HIDE DEF yes
  <2>3. first \in Row
    BY <2>1, <2>2 DEF Row
  <2> HIDE DEF first
  <2> QED BY <2>1, <2>2, <2>3 DEF Init, Lists
<1>4. list \in Queries
  BY DEF Init, Fetched, Queries
<1>5. form \in Forms /\ draft \in Stamps /\ acts \in Stamps
  BY DEF Init, Forms, Closed, Stamps
<1>6. page \in Pages /\ asking \in Rows \cup {None}
  BY DEF Init
<1>7. {online, lost, early} \subseteq BOOLEAN
  BY DEF Init
<1> QED BY <1>2, <1>3, <1>4, <1>5, <1>6, <1>7 DEF TypeInv, TypeOK

LEMMA TypeStep == TypeInv /\ [Next]_vars => TypeInv'
<1> SUFFICES ASSUME TypeInv, [Next]_vars PROVE TypeInv'
  OBVIOUS
<1>1. CASE FormSteps
  BY <1>1, FormTypes DEF FormSteps
<1>2. CASE FetchSteps
  BY <1>2, FetchTypes DEF FetchSteps
<1>3. ASSUME NEW q \in Reqs, Sends(q) \/ Start(q) \/ Moves(q) \/ Succeeded(q) \/ Failed(q)
      PROVE  TypeInv'
  BY <1>3, SendTypes, StartTypes, MoveTypes, AnswerTypes
<1>4. CASE UNCHANGED vars
  BY <1>4 DEF vars, TypeInv, TypeOK, KindKnown
<1> QED BY <1>1, <1>2, <1>3, <1>4, NextCases

\* What the pages, their requests and the server hold is always of its type.
THEOREM TypeCorrect == Spec => []TypeOK
<1>1. Spec => []TypeInv
  BY TypeInit, TypeStep, PTL DEF Spec
<1>2. TypeInv => TypeOK
  BY DEF TypeInv
<1> QED BY <1>1, <1>2, PTL

-----------------------------------------------------------------------------
(* One row for what is typed once                                          *)

\* A step that creates nothing and sends no create: what a form holds after it
\* is what one held before, or is new; and a create that leaves the answered
\* ones leaves no form that holds something.
Quiet ==
  /\ page' = page /\ acts' >= acts /\ (lost => lost')
  /\ \A r \in Rows : row'[r].born = row[r].born
  /\ \A p \in Reqs : Creates(p)' => /\ Creates(p) /\ req'[p].text = req[p].text
                                    /\ Unserved(p)' => Unserved(p)
  /\ ~lost' /\ ~(draft' = 0 /\ ~Typing')
       => \A p \in Reqs : Creates(p) /\ Done(p) => Creates(p)' /\ Done(p)'
  /\ Typing' => Typing \/ Is("new")
  /\ draft' # 0 => draft' = draft \/ Typing
  /\ \A t \in Stamps : Held(t)' /\ t # 0 => Held(t) \/ (t > acts /\ t <= acts')

LEMMA QuietKeeps == ASSUME TypeInv, TypeInv', Births, Quiet PROVE Births'
<1> USE DEF Births
<1>0. page \in Pages /\ page' = page /\ acts \in Nat /\ acts' \in Nat /\ acts' >= acts
      /\ lost \in BOOLEAN /\ (lost => lost') /\ draft' \in Stamps /\ form' \in Forms
  BY DEF Quiet, TypeInv, TypeOK, Stamps
<1>1. NewForms'
  <2>1. \A c : Is(c)' <=> Is(c)
    BY <1>0, SameControls
  <2> QED BY <2>1 DEF NewForms, Quiet
<1>2. StampsUsed'
  <2>1. \A r \in Rows : row'[r].born <= acts'
    <3> TAKE r \in Rows
    <3>1. row[r].born \in Nat /\ row[r].born <= acts /\ row'[r].born = row[r].born
      BY DEF Quiet, StampsUsed, TypeInv, TypeOK, Lists, Row, Stamps
    <3> QED BY <1>0, <3>1
  <2>2. \A t \in Stamps : Held(t)' => t <= acts'
    <3> TAKE t \in Stamps
    <3>1. Held(t)' => t = 0 \/ t <= acts \/ t <= acts'
      BY DEF Quiet, StampsUsed
    <3> QED BY <1>0, <3>1 DEF Stamps
  <2>3. \A p \in Reqs : Creates(p)' => req'[p].text <= acts'
    <3> TAKE p \in Reqs
    <3>1. req[p].text \in Nat
      BY DEF TypeInv, TypeOK, ReqRows, Stamps
    <3>2. Creates(p)' => req'[p].text = req[p].text /\ req[p].text <= acts
      BY DEF Quiet, StampsUsed
    <3> QED BY <1>0, <3>1, <3>2
  <2> QED BY <2>1, <2>2, <2>3 DEF StampsUsed, Stamps
<1>3. OwnTexts'
  BY DEF OwnTexts, Quiet
<1>4. HeldIsUnborn'
  <2> SUFFICES ASSUME ~lost', NEW r \in Rows, row'[r].born # 0, Held(row[r].born)'
               PROVE  \E p \in Reqs : Creates(p)' /\ Done(p)'
    BY DEF HeldIsUnborn
  <2>1. row'[r].born = row[r].born /\ row[r].born \in Stamps /\ row[r].born <= acts
    BY DEF Quiet, StampsUsed, TypeInv, TypeOK, Lists, Row
  <2>2. Held(row[r].born)
    BY <1>0, <2>1 DEF Quiet, Stamps
  <2>3. PICK p \in Reqs : Creates(p) /\ Done(p)
    BY <1>0, <2>1, <2>2 DEF HeldIsUnborn
  <2>4. ~(draft' = 0 /\ ~Typing')
    BY DEF Held
  <2> QED BY <2>3, <2>4 DEF Quiet
<1>5. UnservedIsUnborn'
  BY <1>0 DEF UnservedIsUnborn, Quiet
<1>6. NoDoubleCreate'
  BY <1>0 DEF NoDoubleCreate, Quiet
<1> QED BY <1>1, <1>2, <1>3, <1>4, <1>5, <1>6

\* The step touches no request and no row.
LEMMA FormsQuiet ==
  ASSUME TypeInv, TypeInv', FormSteps
  PROVE  Quiet
<1> USE DEF TypeInv, TypeOK
<1>1. UNCHANGED <<page, row, list, req, early, lost>>
  BY DEF FormSteps, Type, CancelForm, Unask, GoOffline, GoOnline, OpenForm, Ask
<1>2. acts' \in Nat /\ acts \in Nat /\ acts' >= acts
  <2>1. acts \in Nat /\ acts' \in {acts, acts + 1}
    BY DEF FormSteps, Type, CancelForm, Unask, GoOffline, GoOnline, OpenForm, Ask, Act, Stamps
  <2> QED BY <2>1
<1>3. /\ (Typing' => Typing \/ Is("new")) /\ (draft' # 0 => draft' = draft \/ Typing)
      /\ \A t \in Stamps : Held(t)' /\ t # 0 => Held(t) \/ (t > acts /\ t <= acts')
  <2>1. CASE Type
    <3>1. /\ draft' = draft /\ form'.of = form.of /\ form'.text = acts + 1 /\ acts' = acts + 1
          /\ form.open /\ form'.open = form.open
      BY <2>1 DEF Type, Act, Forms
    <3>2. \A t \in Stamps : Held(t)' /\ t # 0 => Held(t) \/ (t > acts /\ t <= acts')
      BY <1>2, <3>1 DEF Held, Typing
    <3> QED BY <3>1, <3>2 DEF Typing
  <2>2. CASE CancelForm
    BY <2>2 DEF CancelForm, Closed, Held, Typing
  <2>3. CASE Unask \/ GoOffline \/ GoOnline \/ \E r \in Rows : Ask(r)
    <3>1. form' = form /\ draft' = draft
      BY <2>3 DEF Unask, GoOffline, GoOnline, Ask
    <3> QED BY <3>1 DEF Held, Typing
  <2>4. ASSUME NEW r \in Rows \cup {None}, OpenForm(r)
        PROVE  /\ (Typing' => Typing \/ Is("new")) /\ (draft' # 0 => draft' = draft \/ Typing)
               /\ \A t \in Stamps : Held(t)' /\ t # 0 => Held(t)
    BY <2>4 DEF OpenForm, Held, Typing
  <2> QED BY <2>1, <2>2, <2>3, <2>4 DEF FormSteps
<1>4. \A p \in Reqs : /\ Creates(p)' <=> Creates(p)
                      /\ Unserved(p)' <=> Unserved(p)
                      /\ Done(p)' <=> Done(p)
  BY <1>1 DEF Creates, Unserved, Done
<1> QED BY <1>1, <1>2, <1>3, <1>4 DEF Quiet

\* The step touches no form.
LEMMA SameForms ==
  ASSUME TypeInv, UNCHANGED <<form, draft>>
  PROVE  /\ Typing' => Typing
         /\ draft' # 0 => draft' = draft
         /\ \A t \in Stamps : Held(t)' => Held(t)
BY DEF Typing, Held

LEMMA FetchesQuiet ==
  ASSUME TypeInv, TypeInv', FetchSteps
  PROVE  Quiet
<1>1. UNCHANGED <<page, row, req, form, draft>>
  BY DEF FetchSteps, Read, Arrive, FetchFails, Retry, Poll
<1>2. acts \in Nat /\ acts' >= acts
  <2>1. acts \in Nat /\ acts' \in {acts, acts + 1}
    BY DEF FetchSteps, Read, Arrive, FetchFails, Retry, Poll, Act, TypeInv, TypeOK, Stamps
  <2> QED BY <2>1
<1>3. lost => lost'
  BY DEF FetchSteps, Read, Arrive, FetchFails, Retry, Poll
<1>4. \A p \in Reqs : /\ Creates(p)' <=> Creates(p)
                      /\ Unserved(p)' <=> Unserved(p)
                      /\ Done(p)' <=> Done(p)
  BY <1>1 DEF Creates, Unserved, Done
<1> QED BY <1>1, <1>2, <1>3, <1>4, SameForms DEF Quiet

\* A request that does not create a row moves, or a create moves but makes none.
LEMMA MovesQuiet ==
  ASSUME TypeInv, TypeInv', NEW q \in Reqs, Start(q) \/ Moves(q),
         ~(Serve(q) /\ Created(q))
  PROVE  Quiet
<1>1. UNCHANGED <<page, form, draft>>
  BY MovesOne DEF Start
<1>2. acts \in Nat /\ acts' >= acts /\ (lost => lost')
  <2>1. acts \in Nat /\ acts' \in {acts, acts + 1} /\ (lost => lost')
    BY DEF Start, Moves, Serve, Ingested, Refuse, Lose, FinalizeFails, Act, TypeInv, TypeOK, Stamps
  <2> QED BY <2>1
<1>3. \A r \in Rows : row'[r].born = row[r].born
  <2>1. CASE Ingested(q) \/ (req[q].st = "sent" /\ (Changed(q) \/ Cleared(q)))
    BY <2>1, RowsKeep
  <2>2. CASE Start(q) \/ Refuse(q) \/ Lose(q) \/ FinalizeFails(q)
    BY <2>2 DEF Start, Refuse, Lose, FinalizeFails
  <2> QED BY <2>1, <2>2 DEF Moves, Serve
<1>4. /\ req'[q].kind = req[q].kind /\ req'[q].text = req[q].text
      /\ \A p \in Reqs \ {q} : req'[p] = req[p]
  <2>1. CASE Start(q)
    BY <2>1, StartSends
  <2>2. CASE Moves(q)
    BY <2>2, MovesOne, ReqMoved
  <2> QED BY <2>1, <2>2
<1>5. (Unserved(q)' => Unserved(q)) /\ (Done(q) => Done(q)' \/ lost')
  <2>1. CASE Start(q)
    BY <2>1, StartSends DEF Unserved, Done
  <2>2. CASE Ingested(q)
    <3>1. req'[q].st = "ok"
      BY <2>2 DEF Ingested, TypeInv, TypeOK, ReqRows
    <3> QED BY <3>1 DEF Unserved, Done
  <2>3. CASE Serve(q) \/ Refuse(q)
    BY <2>3, MovesOne, ReqMoved DEF Serve, Refuse, Moves, Unserved, Done
  <2>4. CASE Lose(q) \/ FinalizeFails(q)
    BY <2>4, MovesOne, ReqMoved DEF Lose, FinalizeFails, Moves, Unserved, Done
  <2> QED BY <2>1, <2>2, <2>3, <2>4 DEF Moves
<1>6. \A p \in Reqs : /\ Creates(p)' => /\ Creates(p) /\ req'[p].text = req[p].text
                                        /\ Unserved(p)' => Unserved(p)
                      /\ ~lost' /\ Creates(p) /\ Done(p) => Creates(p)' /\ Done(p)'
  <2> TAKE p \in Reqs
  <2>1. CASE p = q
    BY <1>4, <1>5, <2>1 DEF Creates
  <2>2. CASE p # q
    BY <1>4, <2>2 DEF Creates, Unserved, Done
  <2> QED BY <2>1, <2>2
<1> QED BY <1>1, <1>2, <1>3, <1>6, SameForms DEF Quiet

\* An answered create closes the form of new rows, and blanks what it held.
LEMMA AnswersQuiet ==
  ASSUME TypeInv, TypeInv', Births, NEW q \in Reqs, Succeeded(q) \/ Failed(q)
  PROVE  Quiet
<1>1. /\ req' = [req EXCEPT ![q] = NoReq] /\ UNCHANGED <<page, row, acts, lost>>
  BY DEF Succeeded, Failed
<1>2. ~Creates(q)' /\ \A p \in Reqs \ {q} : req'[p] = req[p]
  BY <1>1, FreedType DEF Creates, NoReq
<1>3. acts \in Nat /\ page \in Pages
  BY DEF TypeInv, TypeOK, Stamps
<1>4. \A p \in Reqs : Creates(p)' => /\ Creates(p) /\ req'[p].text = req[p].text
                                     /\ Unserved(p)' => Unserved(p)
  BY <1>2 DEF Creates, Unserved
<1>5. Creates(q) /\ Done(q) => draft' = 0 /\ ~Typing'
  <2> SUFFICES ASSUME Creates(q), Done(q) PROVE draft' = 0 /\ ~Typing'
    OBVIOUS
  <2>1. Succeeded(q)
    BY DEF Failed, Done
  <2>2. CASE page # "documents"
    BY <2>1, <2>2, Answered DEF Creates, AfterCreate, Closed, Typing
  <2>3. CASE page = "documents"
    <3>1. ~Is("new")
      BY <1>3, <2>3, NewFormsWait
    <3>2. draft = 0 /\ ~Typing
      BY <3>1 DEF Births, NewForms
    <3> QED BY <2>1, <3>2, Answered DEF Closed, Typing
  <2> QED BY <2>2, <2>3
<1>6. ~(draft' = 0 /\ ~Typing')
        => \A p \in Reqs : Creates(p) /\ Done(p) => Creates(p)' /\ Done(p)'
  BY <1>2, <1>5 DEF Creates, Done
<1>7. /\ Typing' => Typing
      /\ draft' # 0 => draft' = draft
      /\ \A t \in Stamps : Held(t)' /\ t # 0 => Held(t)
  <2>1. CASE Succeeded(q)
    <3>1. form' \in {form, Closed} /\ draft' \in {draft, 0}
      BY <2>1, Answered
    <3> QED BY <3>1 DEF Typing, Held, Closed
  <2>2. CASE Failed(q)
    BY <2>2, SameForms DEF Failed
  <2> QED BY <2>1, <2>2
<1> QED BY <1>1, <1>3, <1>4, <1>6, <1>7 DEF Quiet

\* A create is sent by the form of new rows, which waits for its save, or it
\* uploads a file, whose stamp is new.
LEMMA CreateSent ==
  ASSUME TypeInv, NewForms, NEW q \in Reqs, Sends(q), Creates(q)'
  PROVE  \/ /\ Typing /\ Is("new") /\ req'[q].text = form.text
            /\ \A p \in Reqs : ~Creates(p)
         \/ Is("upload") /\ req'[q].text = acts + 1
<1>1. Act /\ acts + 1 \in Stamps /\ 0 \in Stamps /\ page \in Pages
      /\ form.of \in Rows \cup {None} /\ form.text \in Stamps /\ asking \in Rows \cup {None}
  BY SendsOne DEF Act, TypeInv, TypeOK, Stamps, Forms
<1>2. ASSUME NEW kind \in Kinds, NEW r \in Rows \cup {None}, NEW text \in Stamps,
             Send(q, kind, r, text), kind \in {"create", "clear"} => r = None
      PROVE  kind = "create" /\ req'[q].text = text
  BY <1>1, <1>2, SendType DEF Creates
<1>3. CASE Submit(q)
  <2>1. CASE form.of = None
    <3>1. Typing /\ Is("new")
      BY <1>3, <2>1 DEF Submit, Typing, NewForms
    <3>2. ~Pending("create")
      BY <1>1, <1>3, <2>1, <3>1, NewFormsWait DEF Submit
    <3>3. \A p \in Reqs : ~Creates(p)
      BY <3>2 DEF Pending, Creates, TypeInv, KindKnown
    <3>4. Send(q, "create", form.of, form.text)
      BY <1>3, <2>1 DEF Submit
    <3>5. req'[q].text = form.text
      BY <1>1, <1>2, <2>1, <3>4 DEF Kinds
    <3> QED BY <3>1, <3>3, <3>5
  <2>2. CASE form.of # None
    <3>1. Send(q, "update", form.of, form.text)
      BY <1>3, <2>2 DEF Submit
    <3> QED BY <1>1, <1>2, <3>1 DEF Kinds
  <2> QED BY <2>1, <2>2
<1>4. CASE Upload(q)
  <2>1. Send(q, "create", None, acts + 1) /\ Is("upload")
    BY <1>4 DEF Upload
  <2> QED BY <1>1, <1>2, <2>1 DEF Kinds
<1>5. CASE ConfirmDelete(q)
  BY <1>1, <1>2, <1>5 DEF ConfirmDelete, Kinds
<1>6. CASE ClearAll(q)
  BY <1>1, <1>2, <1>6 DEF ClearAll, Kinds
<1>7. ASSUME NEW r \in Rows, Remove(q, r) \/ Flip(q, r) PROVE FALSE
  <2>1. \E kind \in {"delete", "flip"} : Send(q, kind, r, 0)
    BY <1>7 DEF Remove, Flip
  <2> QED BY <1>1, <1>2, <2>1 DEF Kinds
<1> QED BY <1>3, <1>4, <1>5, <1>6, <1>7 DEF Sends

\* What a control sends holds a text of its own, which is in no row.
LEMMA SendsBirths ==
  ASSUME TypeInv, TypeInv', Births, NEW q \in Reqs, Sends(q)
  PROVE  Births'
<1>1. /\ acts' = acts + 1 /\ acts \in Nat /\ page \in Pages /\ form.text \in Stamps
      /\ UNCHANGED <<page, row, form, draft, lost>>
  BY SendsOne DEF Act, TypeInv, TypeOK, Stamps, Forms
<1>2. /\ req[q].st = "free" /\ req'[q].st \in {"sent", "paused"}
      /\ \A p \in Reqs \ {q} : req'[p] = req[p]
  BY SendsOne, SendType
<1>3. ~Creates(q)
  BY <1>2 DEF Creates, TypeInv, KindKnown
<1>4. CASE ~Creates(q)'
  <2>1. \A p \in Reqs : /\ Creates(p)' => /\ Creates(p) /\ req'[p].text = req[p].text
                                          /\ Unserved(p)' => Unserved(p)
                        /\ Creates(p) /\ Done(p) => Creates(p)' /\ Done(p)'
    BY <1>2, <1>3, <1>4 DEF Creates, Unserved, Done
  <2>2. Quiet
    BY <1>1, <2>1, SameForms DEF Quiet
  <2> QED BY <2>2, QuietKeeps
<1>5. CASE Creates(q)'
  <2> DEFINE t == req'[q].text
  <2>1. t \in Stamps /\ t <= acts'
    <3>1. req'[q].text \in Stamps
      BY DEF TypeInv, TypeOK, ReqRows
    <3>2. form.text \in Nat /\ (Typing => form.text <= acts)
      BY <1>1 DEF Births, StampsUsed, Held, Stamps
    <3> QED BY <1>1, <1>5, <3>1, <3>2, CreateSent DEF Births
  <2>2. \A c : Is(c)' <=> Is(c)
    BY <1>1, SameControls
  <2>3. NewForms'
    <3>1. Is("upload") => ~Is("new")
      BY <1>1, NewFormsWait
    <3>2. (\A p \in Reqs : ~Creates(p)) \/ ~Is("new")
      BY <1>5, <3>1, CreateSent DEF Births
    <3>3. Is("new") \/ Is("upload")
      BY <1>5, CreateSent DEF Births
    <3> QED BY <1>1, <1>2, <2>2, <3>2, <3>3 DEF Births, NewForms, Creates, Typing
  <2>4. \A p \in Reqs \ {q} : Creates(p)' => Creates(p) /\ req[p].text # t
    <3> TAKE p \in Reqs \ {q}
    <3>1. Creates(p) => req[p].text <= acts /\ req[p].text \in Nat
      BY DEF Births, StampsUsed, TypeInv, TypeOK, ReqRows, Stamps
    <3>2. Creates(p)' => Creates(p)
      BY <1>2 DEF Creates
    <3> QED BY <1>1, <1>5, <3>1, <3>2, CreateSent DEF Births
  <2>5. OwnTexts'
    BY <1>2, <2>4 DEF Births, OwnTexts, Creates
  <2>6. ~lost => \A r \in Rows : row[r].born = 0 \/ row[r].born # t
    <3> SUFFICES ASSUME ~lost, NEW r \in Rows, row[r].born # 0, row[r].born = t PROVE FALSE
      OBVIOUS
    <3>1. row[r].born <= acts /\ row[r].born \in Nat
      BY DEF Births, StampsUsed, TypeInv, TypeOK, Lists, Row, Stamps
    <3>2. Typing /\ t = form.text /\ \A p \in Reqs : ~Creates(p)
      BY <1>1, <1>5, <3>1, CreateSent DEF Births
    <3>3. Held(row[r].born)
      BY <3>2 DEF Held
    <3> QED BY <3>2, <3>3 DEF Births, HeldIsUnborn
  <2>7. UnservedIsUnborn'
    <3> SUFFICES ASSUME ~lost', NEW p \in Reqs, Creates(p)', Unserved(p)', NEW r \in Rows
                 PROVE  row'[r].born = 0 \/ row'[r].born # req'[p].text
      BY DEF UnservedIsUnborn
    <3>1. CASE p = q
      BY <1>1, <2>6, <3>1
    <3>2. CASE p # q
      <4>1. Creates(p) /\ Unserved(p) /\ req'[p] = req[p]
        BY <1>2, <3>2 DEF Creates, Unserved
      <4> QED BY <1>1, <4>1 DEF Births, UnservedIsUnborn
    <3> QED BY <3>1, <3>2
  <2>8. HeldIsUnborn'
    <3> SUFFICES ASSUME ~lost', NEW r \in Rows, row'[r].born # 0, Held(row[r].born)'
                 PROVE  \E p \in Reqs : Creates(p)' /\ Done(p)'
      BY DEF HeldIsUnborn
    <3>1. Held(row[r].born) /\ row[r].born # 0 /\ ~lost
      BY <1>1 DEF Held, Typing
    <3>2. PICK p \in Reqs : Creates(p) /\ Done(p)
      BY <3>1 DEF Births, HeldIsUnborn
    <3>3. p # q
      BY <1>3, <3>2
    <3> QED BY <1>2, <3>2, <3>3 DEF Creates, Done
  <2>9. StampsUsed'
    <3>1. \A r \in Rows : row'[r].born <= acts'
      <4> TAKE r \in Rows
      <4>1. row[r].born <= acts /\ row[r].born \in Nat
        BY DEF Births, StampsUsed, TypeInv, TypeOK, Lists, Row, Stamps
      <4> QED BY <1>1, <4>1
    <3>2. \A u \in Stamps : Held(u)' => u <= acts'
      <4> TAKE u \in Stamps
      <4>1. Held(u)' => Held(u)
        BY <1>1 DEF Held, Typing
      <4>2. Held(u) => u <= acts
        BY DEF Births, StampsUsed
      <4> QED BY <1>1, <4>1, <4>2 DEF Stamps
    <3>3. \A p \in Reqs : Creates(p)' => req'[p].text <= acts'
      <4> TAKE p \in Reqs
      <4>1. CASE p = q
        BY <2>1, <4>1
      <4>2. CASE p # q
        <5>1. Creates(p)' => Creates(p) /\ req'[p] = req[p]
          BY <1>2, <4>2 DEF Creates
        <5>2. Creates(p) => req[p].text <= acts /\ req[p].text \in Nat
          BY DEF Births, StampsUsed, TypeInv, TypeOK, ReqRows, Stamps
        <5> QED BY <1>1, <5>1, <5>2
      <4> QED BY <4>1, <4>2
    <3> QED BY <3>1, <3>2, <3>3 DEF StampsUsed, Stamps
  <2>10. NoDoubleCreate'
    BY <1>1 DEF Births, NoDoubleCreate
  <2> QED BY <2>3, <2>5, <2>7, <2>8, <2>9, <2>10 DEF Births
<1> QED BY <1>4, <1>5

\* A row is born with a text that no other row was born with.
LEMMA CreatedBirths ==
  ASSUME TypeInv, TypeInv', Births, NEW q \in Reqs, Serve(q), Created(q)
  PROVE  Births'
<1>1. /\ UNCHANGED <<page, form, draft, acts, lost>> /\ Creates(q) /\ Unserved(q)
      /\ page \in Pages /\ acts \in Nat
  BY DEF Serve, Created, Creates, Unserved, TypeInv, TypeOK, Stamps
<1>2. /\ req'[q].st \in {"stored", "ok"} /\ req'[q].kind = req[q].kind
      /\ req'[q].text = req[q].text /\ \A p \in Reqs \ {q} : req'[p] = req[p]
  <2>1. \E s \in {"stored", "ok"} : req' = [req EXCEPT ![q].st = s]
    BY DEF Created
  <2> QED BY <1>1, <2>1, ReqMoved DEF Unserved
<1>3. PICK r \in Rows : row'[r].born = req[q].text /\ \A s \in Rows \ {r} : row'[s] = row[s]
  BY RowBorn
<1>4. Creates(q)' /\ Done(q)' /\ ~Unserved(q)'
  BY <1>1, <1>2 DEF Creates, Done, Unserved
<1>5. \A p \in Reqs : /\ Creates(p)' <=> Creates(p)
                      /\ req'[p].text = req[p].text
                      /\ Unserved(p)' => Unserved(p)
  BY <1>1, <1>2, <1>4 DEF Creates, Unserved
<1>6. NewForms'
  <2>1. \A c : Is(c)' <=> Is(c)
    BY <1>1, SameControls
  <2> QED BY <1>1, <1>5, <2>1 DEF Births, NewForms, Typing
<1>7. OwnTexts'
  BY <1>5 DEF Births, OwnTexts
<1>8. StampsUsed'
  BY <1>1, <1>3, <1>5 DEF Births, StampsUsed, Held, Typing
<1>9. HeldIsUnborn'
  BY <1>4 DEF HeldIsUnborn
<1>10. UnservedIsUnborn'
  <2> SUFFICES ASSUME ~lost', NEW p \in Reqs, Creates(p)', Unserved(p)', NEW s \in Rows
               PROVE  row'[s].born = 0 \/ row'[s].born # req'[p].text
    BY DEF UnservedIsUnborn
  <2>1. p # q /\ Creates(p) /\ Unserved(p) /\ req'[p].text = req[p].text /\ ~lost
    BY <1>1, <1>4, <1>5
  <2>2. req[p].text # req[q].text
    BY <1>1, <2>1 DEF Births, OwnTexts
  <2> QED BY <1>3, <2>1, <2>2 DEF Births, UnservedIsUnborn
<1>11. NoDoubleCreate'
  <2> SUFFICES ASSUME ~lost', NEW s \in Rows, NEW u \in Rows, row'[s].born # 0,
                      row'[s].born = row'[u].born
               PROVE  s = u
    BY DEF NoDoubleCreate
  <2>1. \A v \in Rows : row[v].born = 0 \/ row[v].born # req[q].text
    BY <1>1 DEF Births, UnservedIsUnborn
  <2> QED BY <1>1, <1>3, <2>1 DEF Births, NoDoubleCreate
<1> QED BY <1>6, <1>7, <1>8, <1>9, <1>10, <1>11 DEF Births

LEMMA BirthsInit == Init => Births
<1> SUFFICES ASSUME Init PROVE Births
  OBVIOUS
<1>1. \A q \in Reqs : req[q].kind = "none"
  BY DEF Init, NoReq
<1>2. ~Typing /\ draft = 0 /\ acts = 0
  BY DEF Init, Closed, Typing
<1>3. \A r \in Rows : row[r].born = 0
  BY DEF Init, NoRow
<1>4. \A t \in Stamps : Held(t) => t = 0
  BY <1>2 DEF Held
<1>5. \A q \in Reqs : req[q].kind # "create"
  BY <1>1
<1> HIDE DEF Held, Typing
<1>6. NewForms
  BY <1>2, <1>5 DEF NewForms, Creates
<1>7. StampsUsed
  BY <1>2, <1>3, <1>4, <1>5 DEF StampsUsed, Creates
<1>8. OwnTexts
  BY <1>2, <1>4, <1>5 DEF OwnTexts, Creates
<1>9. HeldIsUnborn
  BY <1>3 DEF HeldIsUnborn
<1>10. UnservedIsUnborn
  BY <1>3 DEF UnservedIsUnborn
<1>11. NoDoubleCreate
  BY <1>3 DEF NoDoubleCreate
<1> QED BY <1>6, <1>7, <1>8, <1>9, <1>10, <1>11 DEF Births

LEMMA BirthsStep == TypeInv /\ TypeInv' /\ Births /\ [Next]_vars => Births'
<1> SUFFICES ASSUME TypeInv, TypeInv', Births, [Next]_vars PROVE Births'
  OBVIOUS
<1>1. CASE FormSteps
  BY <1>1, FormsQuiet, QuietKeeps
<1>2. CASE FetchSteps
  BY <1>2, FetchesQuiet, QuietKeeps
<1>3. ASSUME NEW q \in Reqs, Sends(q) \/ Start(q) \/ Moves(q) \/ Succeeded(q) \/ Failed(q)
      PROVE  Births'
  <2>1. CASE Sends(q)
    BY <2>1, SendsBirths
  <2>2. CASE Serve(q) /\ Created(q)
    BY <2>2, CreatedBirths
  <2>3. CASE (Start(q) \/ Moves(q)) /\ ~(Serve(q) /\ Created(q))
    BY <2>3, MovesQuiet, QuietKeeps
  <2>4. CASE Succeeded(q) \/ Failed(q)
    BY <2>4, AnswersQuiet, QuietKeeps
  <2> QED BY <1>3, <2>1, <2>2, <2>3, <2>4
<1>4. CASE UNCHANGED vars
  <2>1. Quiet
    <3>1. \A p \in Reqs : /\ Creates(p)' <=> Creates(p)
                          /\ Unserved(p)' <=> Unserved(p)
                          /\ Done(p)' <=> Done(p)
      BY <1>4 DEF vars, Creates, Unserved, Done
    <3>2. acts \in Nat
      BY DEF TypeInv, TypeOK, Stamps
    <3> QED BY <1>4, <3>1, <3>2, SameForms DEF vars, Quiet
  <2> QED BY <2>1, QuietKeeps
<1> QED BY <1>1, <1>2, <1>3, <1>4, NextCases

\* What a user typed once becomes one row, whatever of the page is left open,
\* kept or opened again while its request is out.
THEOREM OneRowForOneForm == Spec => []NoDoubleCreate
<1>1. Spec => []TypeInv
  BY TypeInit, TypeStep, PTL DEF Spec
<1>2. Spec => []Births
  BY <1>1, BirthsInit, BirthsStep, PTL DEF Spec
<1>3. Births => NoDoubleCreate
  BY DEF Births
<1> QED BY <1>2, <1>3, PTL

-----------------------------------------------------------------------------
(* A quiet page shows the server's rows                                    *)

\* The row the server sends is the same as long as its rows are.
LEMMA SameSnapshot == ASSUME row' = row PROVE Snapshot' = Snapshot
BY DEF Snapshot, Here

\* A step that changes neither the rows, the list nor what is answered.
LEMMA ListStays ==
  ASSUME ListFollows, UNCHANGED <<row, list, early>>, lost => lost',
         \A p \in Reqs : ~lost' => (Done(p) => Done(p)')
  PROVE  ListFollows'
<1>1. Snapshot' = Snapshot
  BY SameSnapshot
<1>2. ~lost' /\ Changing => Changing'
  BY DEF Changing
<1> QED BY <1>1, <1>2 DEF ListFollows

LEMMA ListInit == Init => ListFollows
BY DEF Init, ListFollows, Fetched

LEMMA ListStep == TypeInv /\ ListFollows /\ [Next]_vars => ListFollows'
<1> SUFFICES ASSUME TypeInv, ListFollows, [Next]_vars PROVE ListFollows'
  OBVIOUS
<1>0. list \in Queries
  BY DEF TypeInv, TypeOK
<1>1. CASE FormSteps
  <2>1. UNCHANGED <<row, list, req, early, lost>>
    BY <1>1 DEF FormSteps, Type, CancelForm, Unask, GoOffline, GoOnline, OpenForm, Ask
  <2> QED BY <2>1, ListStays DEF Done
<1>2. CASE FetchSteps
  <2>1. UNCHANGED <<row, req, early>> /\ (lost => lost')
    BY <1>2 DEF FetchSteps, Read, Arrive, FetchFails, Retry, Poll
  <2>2. Snapshot' = Snapshot /\ (Changing' <=> Changing)
    BY <2>1, SameSnapshot DEF Changing, Done
  <2>3. CASE Read
    <3>1. list'.out = "read" /\ list'.got = Snapshot
      BY <1>0, <2>3 DEF Read, Queries
    <3> QED BY <2>2, <3>1 DEF ListFollows
  <2>4. CASE Arrive
    <3>1. list.out = "read" /\ list'.data = list.got /\ list'.out = "no"
      BY <2>4 DEF Arrive
    <3> QED BY <2>1, <2>2, <3>1 DEF ListFollows
  <2>5. CASE FetchFails
    BY <2>5 DEF FetchFails, ListFollows
  <2>6. CASE Retry \/ Poll
    <3>1. list'.out = "sent"
      BY <1>0, <2>6, QueryType DEF Retry, Poll
    <3> QED BY <3>1 DEF ListFollows
  <2> QED BY <1>2, <2>3, <2>4, <2>5, <2>6 DEF FetchSteps
<1>3. ASSUME NEW q \in Reqs, Sends(q) PROVE ListFollows'
  <2>1. UNCHANGED <<row, list, early, lost>>
    BY <1>3, SendsOne
  <2>2. req[q].st = "free" /\ \A p \in Reqs \ {q} : req'[p] = req[p]
    BY <1>3, SendsOne, SendType
  <2> QED BY <2>1, <2>2, ListStays DEF Done
<1>4. ASSUME NEW q \in Reqs, Start(q) PROVE ListFollows'
  <2>1. UNCHANGED <<row, list, early, lost>>
    BY <1>4 DEF Start
  <2>2. req[q].st = "paused" /\ \A p \in Reqs \ {q} : req'[p] = req[p]
    BY <1>4, StartSends
  <2> QED BY <2>1, <2>2, ListStays DEF Done
<1>5. ASSUME NEW q \in Reqs, Moves(q) PROVE ListFollows'
  <2>1. UNCHANGED <<list, early>>
    BY <1>5, MovesOne
  <2>2. CASE Serve(q) \/ Ingested(q)
    <3>1. req[q].st # "free" /\ \E s \in {"stored", "ok"} : req' = [req EXCEPT ![q].st = s]
      BY <2>2 DEF Serve, Created, Changed, Cleared, Ingested
    <3>2. Done(q)'
      BY <3>1, ReqMoved DEF Done
    <3> QED BY <2>1, <3>2 DEF ListFollows, Changing
  <2>3. CASE Refuse(q)
    <3>1. UNCHANGED <<row, lost>> /\ req[q].st = "sent" /\ req' = [req EXCEPT ![q].st = "failed"]
      BY <2>3 DEF Refuse
    <3>2. \A p \in Reqs \ {q} : req'[p] = req[p]
      BY <3>1, ReqMoved
    <3> QED BY <2>1, <3>1, <3>2, ListStays DEF Done
  <2>4. CASE Lose(q) \/ FinalizeFails(q)
    BY <2>4 DEF Lose, FinalizeFails, ListFollows
  <2> QED BY <1>5, <2>2, <2>3, <2>4 DEF Moves
<1>6. ASSUME NEW q \in Reqs, Succeeded(q) PROVE ListFollows'
  <2>1. list' = Refetched(list) /\ early' = (early \/ list.data = None)
    BY <1>6, Answered DEF Succeeded
  <2>2. CASE list.data = None
    BY <2>1, <2>2 DEF ListFollows
  <2>3. CASE list.data # None
    <3>1. list'.out = "sent"
      BY <1>0, <2>1, <2>3, QueryType
    <3> QED BY <3>1 DEF ListFollows
  <2> QED BY <2>2, <2>3
<1>7. ASSUME NEW q \in Reqs, Failed(q) PROVE ListFollows'
  <2>1. UNCHANGED <<row, list, early, lost>> /\ req[q].st = "failed"
        /\ req' = [req EXCEPT ![q] = NoReq]
    BY <1>7 DEF Failed
  <2>2. \A p \in Reqs \ {q} : req'[p] = req[p]
    BY <2>1, FreedType
  <2> QED BY <2>1, <2>2, ListStays DEF Done
<1>8. CASE UNCHANGED vars
  BY <1>8, ListStays DEF vars, Done
<1> QED BY <1>1, <1>2, <1>3, <1>4, <1>5, <1>6, <1>7, <1>8, NextCases

\* When nothing is out any more, the page shows the rows the server has.
THEOREM QuietListsAreCurrent == Spec => []QuietListIsCurrent
<1>1. Spec => []TypeInv
  BY TypeInit, TypeStep, PTL DEF Spec
<1>2. Spec => []ListFollows
  BY <1>1, ListInit, ListStep, PTL DEF Spec
<1>3. ListFollows => QuietListIsCurrent
  BY DEF ListFollows, QuietListIsCurrent, Changing, Done
<1> QED BY <1>2, <1>3, PTL

-----------------------------------------------------------------------------
(* A request names the row its control was about                           *)

LEMMA NamesInit == Init => RequestsNameTheirRow
BY DEF Init, NoReq, RequestsNameTheirRow, NamesItsRow

LEMMA NamesStep ==
  TypeInv /\ RequestsNameTheirRow /\ [Next]_vars => RequestsNameTheirRow'
<1> SUFFICES ASSUME TypeInv, RequestsNameTheirRow, [Next]_vars, page' # "bots",
                    NEW p \in Reqs
             PROVE  NamesItsRow(p)'
  BY DEF RequestsNameTheirRow
<1>1. CASE FormSteps \/ FetchSteps \/ UNCHANGED vars
  <2>1. UNCHANGED <<page, req>>
    BY <1>1 DEF FormSteps, Type, CancelForm, Unask, GoOffline, GoOnline, OpenForm, Ask,
                FetchSteps, Read, Arrive, FetchFails, Retry, Poll, vars
  <2> QED BY <2>1 DEF RequestsNameTheirRow, NamesItsRow
<1>2. ASSUME NEW q \in Reqs, Sends(q) \/ Start(q) \/ Moves(q) \/ Succeeded(q) \/ Failed(q)
      PROVE  NamesItsRow(p)'
  <2>1. page' = page
    BY <1>2, SendsOne, MovesOne DEF Start, Succeeded, Failed
  <2>2. NamesItsRow(p)
    BY <2>1 DEF RequestsNameTheirRow
  <2>3. CASE Sends(q)
    <3>1. PICK kind \in Kinds, r \in Rows \cup {None}, text \in Stamps :
            Send(q, kind, r, text) /\ (kind \in {"create", "clear"} => r = None)
      BY <2>3, SendsOne
    <3>2. Act
      BY <2>3, SendsOne
    <3> QED BY <2>2, <3>1, <3>2, SendType DEF NamesItsRow
  <2>4. CASE Start(q)
    <3>1. ~BindsLate(req[q].kind)
      BY <2>1 DEF BindsLate
    <3> QED BY <2>2, <2>4, <3>1, StartSends DEF NamesItsRow
  <2>5. CASE Moves(q)
    <3>1. req[q].st \in {"sent", "stored", "ok"}
          /\ \E s \in {"stored", "ok", "failed"} : req' = [req EXCEPT ![q].st = s]
      BY <2>5, MovesOne
    <3> QED BY <2>2, <3>1, ReqMoved DEF NamesItsRow
  <2>6. CASE Succeeded(q) \/ Failed(q)
    <3>1. req' = [req EXCEPT ![q] = NoReq]
      BY <2>6 DEF Succeeded, Failed
    <3> QED BY <2>2, <3>1, FreedType DEF NamesItsRow, NoReq
  <2> QED BY <1>2, <2>3, <2>4, <2>5, <2>6
<1> QED BY <1>1, <1>2, NextCases

\* On every page but the bots', whose hooks take the row that is rendered when
\* a request leaves, a request names the row its control was about.
THEOREM RequestsNameRows == Spec => []RequestsNameTheirRow
<1>1. Spec => []TypeInv
  BY TypeInit, TypeStep, PTL DEF Spec
<1> QED BY <1>1, NamesInit, NamesStep, PTL DEF Spec

=============================================================================
