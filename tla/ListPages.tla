------------------------------ MODULE ListPages ------------------------------
(***************************************************************************)
(* The pages and dialogs that show a cached list of the user's rows and    *)
(* change it: bots, projects, memories (in the preferences and in the      *)
(* settings), MCP servers, credentials, documents, the chats of the        *)
(* sidebar, and the one row of custom instructions. They run one machine,  *)
(* a form, a delete dialog and requests over a query of react-query, and   *)
(* differ in what their controls are guarded by and in what they keep;     *)
(* `page` is the one that is open.                                         *)
(*                                                                         *)
(* What a user types is a stamp, the number of the act that typed it; 0 is *)
(* what the rows held at first, and the blank of a new form.               *)
(***************************************************************************)
EXTENDS Naturals, FiniteSets

CONSTANTS Pages,    \* the pages of this instance
          Rows,     \* ids of rows, numbers
          Present,  \* how many of them are there at first
          Reqs,     \* requests that change something and can be out at once
          MaxActs,  \* bound: what users and the network do
          None

ASSUME ListPagesAssumption ==
  /\ Rows \subseteq Nat /\ Reqs \subseteq Nat /\ {Present, MaxActs} \subseteq Nat
  /\ None \notin Nat
  /\ Pages \subseteq {"bots", "projects", "memories", "settings", "servers",
                      "credentials", "documents", "chats", "instructions"}

VARIABLES
  page,
  row,     \* server: the rows
  list,    \* cache: the page's query, and its request
  form,    \* the form that is open, and the row it is about
  draft,   \* what a form that keeps its fields holds while it is closed
  asking,  \* pendingDelete: the row of the delete dialog
  req,     \* the POST, PATCH and DELETE requests
  online,
  acts,
  lost,    \* history: a request, an answer or a fetch was lost, or an upload
           \* failed although its row was stored
  early    \* history: a change was answered before the first list arrived

vars == <<page, row, list, form, draft, asking, req, online, acts, lost, early>>

-----------------------------------------------------------------------------
(* What the pages offer, and by what it is guarded:                        *)
(*   new, edit     buttons that open the form for a new or a listed row    *)
(*   modal         the form is a dialog that covers the list               *)
(*   cancel        the form can be left; keeps: its fields are still there *)
(*   enter         the Enter key submits although the button is disabled   *)
(*   stays         the form stays open after a save                        *)
(*   ask           delete asks first; atOnce: its dialog closes at the     *)
(*                 click; askBusy: its button waits for a delete           *)
(*   remove        delete at the click; removeBusy: one at a time          *)
(*   flip, clear, upload   what else there is                              *)
(*   retry         a list that failed to load can be asked for again       *)

BotsView       == {"new", "retry"}
BotCard        == {"edit", "ask"}
BotFormDialog  == {"modal", "cancel"}
BotDelete      == {"askBusy"}

ProjectsView   == {"new", "retry"}
ProjectCard    == {"edit", "ask"}
CreateProject  == {"modal", "cancel", "keeps"}
EditProject    == {"modal", "cancel"}
ProjectDelete  == {"askBusy"}

MemoryForm     == {"new", "keeps"}
MemoryList     == {"retry", "remove", "removeBusy", "clear"}
SettingsMemories == {"new", "keeps", "remove", "clear"}

AddServer      == {"new", "cancel", "keeps"}
ServerList     == {"remove", "flip"}

AddCredential  == {"new", "cancel", "keeps"}
CredentialList == {"remove"}

\* The page is there, but App.tsx sends /documents to the projects.
DocumentsView  == {"upload", "retry"}
DocumentList   == {"ask"}
DocumentDelete == {"atOnce"}

ChatMenu       == {"edit", "ask"}
RenameDialog   == {"modal", "cancel", "enter"}
ChatDelete     == {"askBusy"}

Instructions   == {"edit", "retry", "stays"}

Controls ==
  [bots         |-> BotsView \cup BotCard \cup BotFormDialog \cup BotDelete,
   projects     |-> ProjectsView \cup ProjectCard \cup CreateProject \cup EditProject
                    \cup ProjectDelete,
   memories     |-> MemoryForm \cup MemoryList,
   settings     |-> SettingsMemories,
   servers      |-> AddServer \cup ServerList,
   credentials  |-> AddCredential \cup CredentialList,
   documents    |-> DocumentsView \cup DocumentList \cup DocumentDelete,
   chats        |-> ChatMenu \cup RenameDialog \cup ChatDelete,
   instructions |-> Instructions]

Is(control) == control \in Controls[page]

-----------------------------------------------------------------------------
Stamps == 0..MaxActs
Row == [st : {"none", "here", "gone"}, text : Stamps, on : BOOLEAN, born : Stamps]
NoRow == [st |-> "none", text |-> 0, on |-> FALSE, born |-> 0]
Lists == [Rows -> Row]
Closed == [open |-> FALSE, of |-> None, text |-> 0]
Kinds == {"create", "update", "delete", "flip", "clear"}
NoReq == [st |-> "free", kind |-> "none", meant |-> None, row |-> None, text |-> 0, at |-> 0]
Queries == [data : Lists \cup {None}, out : {"no", "sent", "read"}, got : Lists \cup {None}]
Forms == [open : BOOLEAN, of : Rows \cup {None}, text : Stamps]
ReqRows == [st : {"free", "paused", "sent", "stored", "ok", "failed"}, kind : Kinds \cup {"none"},
            meant : Rows \cup {None}, row : Rows \cup {None}, text : Stamps, at : Stamps]

TypeOK ==
  /\ page \in Pages /\ row \in Lists /\ list \in Queries /\ form \in Forms
  /\ draft \in Stamps /\ asking \in Rows \cup {None} /\ req \in [Reqs -> ReqRows]
  /\ acts \in Stamps /\ {online, lost, early} \subseteq BOOLEAN

Act == acts < MaxActs /\ acts' = acts + 1

-----------------------------------------------------------------------------
(* The list                                                                *)

Here(r) == row[r].st = "here"
Snapshot == [r \in Rows |-> IF Here(r) THEN row[r] ELSE NoRow]
Shown(r) == list.data # None /\ list.data[r].st = "here"

Fetched(q) == IF q.out = "no" THEN [q EXCEPT !.out = "sent"] ELSE q

\* An invalidated query starts its fetch again, unless it is the first one.
Refetched(q) == IF q.data = None THEN Fetched(q) ELSE [q EXCEPT !.out = "sent", !.got = None]

Read ==
  /\ online /\ list.out = "sent"
  /\ list' = [list EXCEPT !.out = "read", !.got = Snapshot]
  /\ UNCHANGED <<page, row, form, draft, asking, req, online, acts, lost, early>>

\* The row of an open form or dialog is a copy that the new list leaves alone.
Arrive ==
  /\ list.out = "read"
  /\ list' = [data |-> list.got, out |-> "no", got |-> None]
  /\ UNCHANGED <<page, row, form, draft, asking, req, online, acts, lost, early>>

FetchFails ==
  /\ Act /\ list.out # "no" /\ lost' = TRUE
  /\ list' = [list EXCEPT !.out = "no", !.got = None]
  /\ UNCHANGED <<page, row, form, draft, asking, req, online, early>>

Retry ==
  /\ Is("retry") /\ list.data = None /\ list.out = "no"
  /\ list' = Fetched(list)
  /\ UNCHANGED <<page, row, form, draft, asking, req, online, acts, lost, early>>

\* pollIntervalFor: every two seconds while a document is processed.
Processing(r) == page = "documents" /\ Shown(r) /\ ~list.data[r].on

Poll ==
  /\ list.out = "no" /\ \E r \in Rows : Processing(r)
  /\ list' = Fetched(list)
  /\ UNCHANGED <<page, row, form, draft, asking, req, online, acts, lost, early>>

-----------------------------------------------------------------------------
(* Forms and dialogs                                                       *)

\* No dialog covers the list.
Free == asking = None /\ ~(form.open /\ Is("modal"))

\* A form is seeded with its row, or as a new one: blank, or with what was
\* left in it.
OpenForm(r) ==
  /\ Act /\ Free /\ ~form.open
  /\ IF r = None THEN Is("new") ELSE Is("edit") /\ Shown(r)
  /\ form' = [open |-> TRUE, of |-> r, text |-> IF r = None THEN draft ELSE list.data[r].text]
  /\ draft' = IF r = None THEN 0 ELSE draft
  /\ UNCHANGED <<page, row, list, asking, req, online, lost, early>>

Type ==
  /\ Act /\ form.open
  /\ form' = [form EXCEPT !.text = acts + 1]
  /\ UNCHANGED <<page, row, list, draft, asking, req, online, lost, early>>

CancelForm ==
  /\ form.open /\ Is("cancel")
  /\ form' = Closed
  /\ draft' = IF Is("keeps") /\ form.of = None THEN form.text ELSE draft
  /\ UNCHANGED <<page, row, list, asking, req, online, acts, lost, early>>

Ask(r) ==
  /\ Act /\ Free /\ Is("ask") /\ Shown(r)
  /\ asking' = r
  /\ UNCHANGED <<page, row, list, form, draft, req, online, lost, early>>

Unask ==
  /\ asking # None /\ asking' = None
  /\ UNCHANGED <<page, row, list, form, draft, req, online, acts, lost, early>>

-----------------------------------------------------------------------------
(* Requests                                                                *)

\* isPending of a hook.
Pending(kind) == \E q \in Reqs : req[q].st # "free" /\ req[q].kind = kind

\* mutate: offline it is paused, and its mutationFn has not run.
Send(q, kind, r, text) ==
  /\ req[q].st = "free" /\ \A p \in Reqs : p < q => req[p].st # "free"
  /\ req' = [req EXCEPT ![q] =
       [st |-> IF online THEN "sent" ELSE "paused", kind |-> kind, meant |-> r,
        row |-> IF online THEN r ELSE None, text |-> text, at |-> acts + 1]]

\* MUTANT: no form waits for its save.
SubmitAgain(q) ==
  LET kind == IF form.of = None THEN "create" ELSE "update" IN
  /\ Act /\ form.open /\ asking = None
  /\ IF kind = "create" THEN form.text # 0
     ELSE Is("stays") => list.data[form.of].text # form.text
  /\ Send(q, kind, form.of, form.text)
  /\ UNCHANGED <<page, row, list, form, draft, asking, online, lost, early>>

\* handleSubmit, handleCreate, handleAdd, handleUpdate, confirmRename,
\* saveInstructions: nothing without a name, one save of a hook at a time.
Submit(q) ==
  LET kind == IF form.of = None THEN "create" ELSE "update" IN
  /\ Act /\ form.open /\ asking = None
  /\ Is("enter") \/ ~Pending(kind)
  /\ IF kind = "create" THEN form.text # 0
     ELSE Is("stays") => list.data[form.of].text # form.text
  /\ Send(q, kind, form.of, form.text)
  /\ UNCHANGED <<page, row, list, form, draft, asking, online, lost, early>>

\* DocumentsPage.pick: files are uploaded as they are picked or dropped, by an
\* XHR that is no mutation: offline it fails at once.
Upload(q) ==
  /\ Act /\ Free /\ Is("upload") /\ online
  /\ Send(q, "create", None, acts + 1)
  /\ UNCHANGED <<page, row, list, form, draft, asking, online, lost, early>>

\* The Delete button of the dialog.
ConfirmDelete(q) ==
  /\ Act /\ asking # None
  /\ Is("askBusy") => ~Pending("delete")
  /\ Send(q, "delete", asking, 0)
  /\ asking' = IF Is("atOnce") THEN None ELSE asking
  /\ UNCHANGED <<page, row, list, form, draft, online, lost, early>>

\* Delete at the click.
Remove(q, r) ==
  /\ Act /\ Free /\ Is("remove") /\ Shown(r)
  /\ Is("removeBusy") => ~Pending("delete")
  /\ Send(q, "delete", r, 0)
  /\ UNCHANGED <<page, row, list, form, draft, asking, online, lost, early>>

\* The power button of a server: the toggle names no wanted state.
Flip(q, r) ==
  /\ Act /\ Free /\ Is("flip") /\ Shown(r)
  /\ Send(q, "flip", r, 0)
  /\ UNCHANGED <<page, row, list, form, draft, asking, online, lost, early>>

\* handleClearAll, and the confirm() it asks.
ClearAll(q) ==
  /\ Act /\ Free /\ Is("clear") /\ (\E r \in Rows : Shown(r)) /\ ~Pending("clear")
  /\ Send(q, "clear", None, 0)
  /\ UNCHANGED <<page, row, list, form, draft, asking, online, lost, early>>

\* MUTANT: all hooks take their id from the render.
BindsAll(kind) == kind \in {"update", "delete"}

\* The hooks whose mutationFn takes its id from the render: useUpdateBot(id)
\* and useDeleteBot(id). A mutation that is paused is given the mutationFn of
\* every later render.
BindsLate(kind) == page = "bots" /\ kind \in {"update", "delete"}

\* What that id is by now: of the form's row, or of the delete dialog's.
Rendered(kind) == IF kind = "update" THEN form.of ELSE asking

\* The network is back: a paused request is sent.
Start(q) ==
  /\ online /\ req[q].st = "paused"
  /\ req' = [req EXCEPT ![q].st = "sent",
                        ![q].row = IF BindsLate(req[q].kind) THEN Rendered(req[q].kind)
                                   ELSE req[q].meant]
  /\ UNCHANGED <<page, row, list, form, draft, asking, online, acts, lost, early>>

-----------------------------------------------------------------------------
(* The server                                                              *)

\* Names of servers and credentials are unique for a user.
Taken(text) == page \in {"servers", "credentials"} /\ \E r \in Rows : Here(r) /\ row[r].text = text

\* An uploaded document is processed before its POST is answered.
Created(q) ==
  /\ req[q].kind = "create" /\ ~Taken(req[q].text)
  /\ \E r \in Rows :
       /\ row[r].st = "none" /\ \A s \in Rows : s < r => row[s].st # "none"
       /\ row' = [row EXCEPT ![r] = [st |-> "here", text |-> req[q].text,
                                    on |-> page # "documents", born |-> req[q].text]]
  /\ req' = [req EXCEPT ![q].st = IF page = "documents" THEN "stored" ELSE "ok"]

\* An UPDATE or a DELETE by id: what is not there is a 404.
Changed(q) ==
  LET r == req[q].row IN
  /\ r # None /\ Here(r)
  /\ row' = CASE req[q].kind = "update" -> [row EXCEPT ![r].text = req[q].text]
             [] req[q].kind = "flip"   -> [row EXCEPT ![r].on = ~@]
             [] req[q].kind = "delete" -> [row EXCEPT ![r].st = "gone"]
  /\ req' = [req EXCEPT ![q].st = "ok"]

Cleared(q) ==
  /\ req[q].kind = "clear"
  /\ row' = [r \in Rows |-> IF Here(r) THEN [row[r] EXCEPT !.st = "gone"] ELSE row[r]]
  /\ req' = [req EXCEPT ![q].st = "ok"]

Serve(q) ==
  /\ req[q].st = "sent" /\ (Created(q) \/ Changed(q) \/ Cleared(q))
  /\ UNCHANGED <<page, list, form, draft, asking, online, acts, lost, early>>

Ingested(q) ==
  /\ req[q].st = "stored"
  /\ row' = [r \in Rows |-> IF row[r].born = req[q].text THEN [row[r] EXCEPT !.on = TRUE]
                            ELSE row[r]]
  /\ req' = [req EXCEPT ![q].st = "ok"]
  /\ UNCHANGED <<page, list, form, draft, asking, online, acts, lost, early>>

\* The status cannot be written: a 500, and the row stays, still processed.
FinalizeFails(q) ==
  /\ req[q].st = "stored" /\ lost' = TRUE
  /\ req' = [req EXCEPT ![q].st = "failed"]
  /\ UNCHANGED <<page, row, list, form, draft, asking, online, acts, early>>

\* The server refuses, or fails.
Refuse(q) ==
  /\ req[q].st = "sent"
  /\ req' = [req EXCEPT ![q].st = "failed"]
  /\ UNCHANGED <<page, row, list, form, draft, asking, online, acts, lost, early>>

\* The answer does not arrive.
Lose(q) ==
  /\ Act /\ req[q].st = "ok" /\ lost' = TRUE
  /\ req' = [req EXCEPT ![q].st = "failed"]
  /\ UNCHANGED <<page, row, list, form, draft, asking, online, early>>

GoOffline ==
  /\ Act /\ online /\ online' = FALSE
  /\ UNCHANGED <<page, row, list, form, draft, asking, req, lost, early>>

GoOnline ==
  /\ ~online /\ online' = TRUE
  /\ UNCHANGED <<page, row, list, form, draft, asking, req, acts, lost, early>>

-----------------------------------------------------------------------------
(* Answers                                                                 *)

\* MUTANT: a hook that leaves the list as it is.
ReasksSaved(kind) == kind \in {"create", "update", "delete", "clear"}

\* onSuccess of the hooks: every one of them invalidates the list.
Reasks(kind) == kind \in Kinds

\* A hook keeps the callbacks of its last call only.
Latest(q) == \A p \in Reqs : req[p].kind = req[q].kind => req[p].at <= req[q].at

\* MUTANT: the fields are cleared to null, as the draft of the instructions is.
AfterCreateNull ==
  /\ form' = IF page = "projects" \/ form.of = None \/ Is("modal") THEN Closed ELSE form
  /\ draft' = None
  /\ asking' = IF page = "projects" THEN None ELSE asking

\* What a created row closes: its form, or whatever form the dialog shows. A
\* new project also opens its own page, with no dialog left on this one.
AfterCreate ==
  /\ form' = IF page = "projects" \/ form.of = None \/ Is("modal") THEN Closed ELSE form
  /\ draft' = 0
  /\ asking' = IF page = "projects" THEN None ELSE asking

\* An updated row closes the form, not only if it is about that row.
AfterUpdate ==
  /\ form' = IF Is("stays") \/ (form.of = None /\ page # "bots") THEN form ELSE Closed
  /\ UNCHANGED <<draft, asking>>

\* A deleted row closes the delete dialog, not only if it is about that row.
AfterDelete ==
  /\ asking' = IF Is("askBusy") THEN None ELSE asking
  /\ UNCHANGED <<form, draft>>

Succeeded(q) ==
  /\ req[q].st = "ok"
  /\ list' = IF Reasks(req[q].kind) THEN Refetched(list) ELSE list
  /\ early' = (early \/ list.data = None)
  /\ CASE req[q].kind = "create" /\ page # "documents" -> AfterCreate
       [] req[q].kind = "update" /\ Latest(q) -> AfterUpdate
       [] req[q].kind = "delete" -> AfterDelete
       [] OTHER -> UNCHANGED <<form, draft, asking>>
  /\ req' = [req EXCEPT ![q] = NoReq]
  /\ UNCHANGED <<page, row, online, acts, lost>>

\* A failure is toasted, and forms and dialogs stay as they are.
Failed(q) ==
  /\ req[q].st = "failed"
  /\ req' = [req EXCEPT ![q] = NoReq]
  /\ UNCHANGED <<page, row, list, form, draft, asking, online, acts, lost, early>>

-----------------------------------------------------------------------------
Init ==
  /\ page \in Pages
  /\ row = [r \in Rows |-> IF Cardinality({s \in Rows : s < r}) < Present
                           THEN [NoRow EXCEPT !.st = "here", !.on = TRUE] ELSE NoRow]
  /\ list = Fetched([data |-> None, out |-> "no", got |-> None])
  /\ form = Closed /\ draft = 0 /\ asking = None
  /\ req = [q \in Reqs |-> NoReq]
  /\ online = TRUE /\ acts = 0 /\ lost = FALSE /\ early = FALSE

UserStep ==
  \/ Type \/ CancelForm \/ Unask \/ Retry
  \/ \E r \in Rows \cup {None} : OpenForm(r)
  \/ \E r \in Rows : Ask(r)
  \/ \E q \in Reqs :
       \/ Submit(q) \/ Upload(q) \/ ConfirmDelete(q) \/ ClearAll(q)
       \/ \E r \in Rows : Remove(q, r) \/ Flip(q, r)

RequestStep ==
  \E q \in Reqs : \/ Start(q) \/ Serve(q) \/ Ingested(q) \/ FinalizeFails(q) \/ Refuse(q)
                 \/ Succeeded(q) \/ Failed(q)

Next ==
  \/ UserStep \/ RequestStep
  \/ Read \/ Arrive \/ FetchFails \/ Poll \/ GoOffline \/ GoOnline
  \/ \E q \in Reqs : Lose(q)

Spec == Init /\ [][Next]_vars

-----------------------------------------------------------------------------
(* Properties                                                              *)

\* What a user typed once becomes one row: a form that stays open while its
\* save is out, keeps its fields, or is opened again, never creates a second.
\* Set apart: an answer that was lost, after which nobody knows.
NoDoubleCreate ==
  lost \/ \A r, s \in Rows : row[r].born # 0 /\ row[r].born = row[s].born => r = s

\* When nothing is out any more, the page shows the rows the server has,
\* whatever was sent in which order. Set apart: lost answers, a change that is
\* answered while the first list is on its way, which nothing fetches again, and
\* an upload whose 500 leaves its row, which its page does not ask for either.
QuietListIsCurrent ==
  (\A q \in Reqs : req[q].st = "free") /\ list.out = "no" /\ list.data # None
    => lost \/ early \/ list.data = Snapshot

\* A request that was sent names the row its control was about when it was
\* used: the confirmed delete of one row never deletes another one.
NamesItsRow(q) == req[q].st \in {"free", "paused"} \/ req[q].row = req[q].meant
RequestsNameTheirRow == page # "bots" => \A q \in Reqs : NamesItsRow(q)

\* The same for the bots, whose hooks are bound to the row that is rendered.
BotRequestsNameTheirRow == \A q \in Reqs : NamesItsRow(q)

=============================================================================
