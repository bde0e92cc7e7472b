------------------------------ MODULE ToolPages ------------------------------
(***************************************************************************)
(* The tools page in the browser: the cards and templates of ToolsPage,    *)
(* the details dialog, the editor with its four tabs, and the conversions  *)
(* and the validation of toolForm.ts, against the handlers of tools.go,    *)
(* which read a tool, merge a PATCH into it and write the whole row.       *)
(*                                                                         *)
(* Headers are shown masked: the value of a header is "none", a "secret"   *)
(* of an earlier session, "typed" now, "long" if it was typed now and is   *)
(* beyond the server's limits on headers, or the "mask" itself. What else  *)
(* a tool is made of is a shape: who takes its URL, whether the URL uses   *)
(* the one placeholder, the method, the parameters, the body, and whether  *)
(* its sizes are within the server's limits.                               *)
(*                                                                         *)
(* A request is heard of by the visit of the page that sent it (`by` is    *)
(* "page"), by the hooks of an earlier visit or of the settings dialog     *)
(* ("other"), or, its connection being lost, by nobody.                    *)
(***************************************************************************)
EXTENDS Naturals, Sequences, FiniteSets

CONSTANTS Ids,      \* ids of tools, numbers; 1 is there at first
          Keys,     \* header keys
          OldKeys,  \* those of the first tool
          Reqs,     \* requests that can be out at once
          MaxActs,  \* bound: what the user does, and answers that are lost
          None

ASSUME ToolPagesAssumption ==
  /\ Ids \subseteq Nat /\ Reqs \subseteq Nat /\ MaxActs \in Nat /\ None \notin Nat
  /\ OldKeys \subseteq Keys

VARIABLES
  tools,    \* server: the rows of tools
  list,     \* cache: ["tools"], loaded, and whether a fetch is out
  form,     \* the editor: `form`, `editing`, editorOpen
  details,  \* inspectingTool: the row as it was listed when it was opened
  asking,   \* deleting: the row of the delete dialog
  req,      \* the requests
  acts,
  kept,     \* history: the body of the last answered save of a tool
  loose     \* history: an update was sent while one was out that did not hold it up

vars == <<tools, list, form, details, asking, req, acts, kept, loose>>

-----------------------------------------------------------------------------
Names == {"", "Bad", "tool", "tool_copy", "mine", "mine_copy", "template", "template_copy"}
Values == {"none", "secret", "typed", "long", "mask"}
Params == [name : {"", "p"}, in : {"path", "query"}]
ParamLists == UNION {[1..n -> Params] : n \in 0..2}

\* Who takes the URL: both, the client's new URL() alone (a missing slash, a bad
\* escape, more than 2048 bytes), the server's url.Parse alone (the port 99999),
\* or neither.
Urls == {"http", "lenient", "strict", "no"}
Sizes == {"blank", "fits", "over"}
Shapes == [url : Urls, uses : BOOLEAN, post : BOOLEAN, params : ParamLists,
           body : {"none", "blank", "text", "json", "uses"},
           about : Sizes,     \* the description
           fits : BOOLEAN]    \* at most 16 parameters, and a body of 8192 bytes
Bodies == [name : Names, shape : Shapes, heads : [Keys -> Values], on : BOOLEAN]
Rows == [st : {"none", "here", "gone"}, body : Bodies]

Plain == [url |-> "http", uses |-> FALSE, post |-> FALSE, params |-> <<>>, body |-> "none",
          about |-> "fits", fits |-> TRUE]
Blank == [Plain EXCEPT !.url = "no", !.about = "blank"]
NoHeads == [k \in Keys |-> "none"]

\* emptyForm, and a template's tool: a GET without headers.
EmptyForm == [name |-> "", shape |-> Blank, heads |-> NoHeads, on |-> TRUE]
FormFromTemplate == [name |-> "template", shape |-> Plain, heads |-> NoHeads, on |-> TRUE]

NoRow == [st |-> "none", body |-> EmptyForm]
Closed == [open |-> FALSE, of |-> None, body |-> EmptyForm]
NoDetails == [of |-> None, body |-> EmptyForm]
NoReq == [st |-> "free", kind |-> "none", of |-> None, body |-> EmptyForm, by |-> "nobody",
          last |-> FALSE]

Lists == [data : [Ids -> Rows], out : BOOLEAN]
Forms == [open : BOOLEAN, of : Ids \cup {None}, body : Bodies]
Details == [of : Ids \cup {None}, body : Bodies]
ReqRows == [st : {"free", "sent", "read", "ok", "failed"},
            kind : {"none", "create", "install", "save", "toggle", "delete"},
            of : Ids \cup {None}, body : Bodies, by : {"page", "other", "nobody"},
            last : BOOLEAN]

TypeOK ==
  /\ tools \in [Ids -> Rows] /\ list \in Lists
  /\ form \in Forms /\ details \in Details /\ asking \in Ids \cup {None}
  /\ req \in [Reqs -> ReqRows]
  /\ acts \in 0..MaxActs /\ kept \in [Ids -> Bodies \cup {None}] /\ loose \in BOOLEAN

Act == acts < MaxActs /\ acts' = acts + 1

-----------------------------------------------------------------------------
(* toolForm.ts and toolconfig.go                                           *)

Declared(sh) == \E i \in DOMAIN sh.params : sh.params[i].name = "p"
DeclaredIn(sh, place) == \E i \in DOMAIN sh.params : sh.params[i] = [name |-> "p", in |-> place]

\* Every parameter has a name, and none is declared twice.
ParamsOK(sh) ==
  \A i \in DOMAIN sh.params :
    /\ sh.params[i].name # ""
    /\ \A j \in DOMAIN sh.params : sh.params[j].name = sh.params[i].name => i = j

\* The placeholder of the URL is a path parameter, and the other way round.
UrlOK(sh) == sh.uses <=> DeclaredIn(sh, "path")

\* MUTANT: a path parameter that the URL does not use is let through.
ValidateLoosely(name, sh) ==
  /\ name \notin {"", "Bad"} /\ ParamsOK(sh) /\ (sh.uses => DeclaredIn(sh, "path"))
  /\ sh.url \in {"http", "lenient"}
  /\ sh.body \in {"none", "blank"} \/ (sh.post /\ (sh.body = "uses" => Declared(sh)))

\* validateForm: it has no limits on sizes, and a body that is blank or no JSON
\* is not looked at.
ValidateForm(name, sh) ==
  /\ name \notin {"", "Bad"} /\ ParamsOK(sh) /\ UrlOK(sh)
  /\ sh.url \in {"http", "lenient"}
  /\ sh.body \in {"none", "blank"} \/ (sh.post /\ (sh.body = "uses" => Declared(sh)))

HeadersFit(heads) == \A k \in Keys : heads[k] # "long"

\* ToolConfig.Validate
Validate(name, sh, heads) ==
  /\ name \notin {"", "Bad"} /\ ParamsOK(sh) /\ UrlOK(sh)
  /\ sh.url \in {"http", "strict"}
  /\ \/ sh.body = "none"
     \/ sh.post /\ sh.body \in {"json", "uses"} /\ (sh.body = "uses" => Declared(sh))
  /\ sh.about = "fits" /\ sh.fits /\ HeadersFit(heads)

\* toToolDTO: every value of a header is masked.
Masked(body) ==
  [body EXCEPT !.heads = [k \in Keys |-> IF body.heads[k] = "none" THEN "none" ELSE "mask"]]

\* MUTANT: a copy of a copy keeps the suffix it has.
CopyAgain(name) == name \o "_copy"

\* formFromDuplicate's name.
CopyName(name) ==
  CASE name \in {"tool", "tool_copy"} -> "tool_copy"
    [] name \in {"mine", "mine_copy"} -> "mine_copy"
    [] OTHER -> "template_copy"

\* MUTANT: the mask is stored like any other value.
MergedAll(row, patch) ==
  [patch EXCEPT !.heads =
     [k \in Keys |-> IF patch.heads[k] = "none" THEN row.heads[k] ELSE patch.heads[k]]]

\* handlePatchTool: a header that is masked or missing keeps the stored value.
Merged(row, patch) ==
  [patch EXCEPT !.heads =
     [k \in Keys |-> IF patch.heads[k] \in {"none", "mask"} THEN row.heads[k]
                     ELSE patch.heads[k]]]

-----------------------------------------------------------------------------
(* The page                                                                *)

Here(i) == tools[i].st = "here"
Listed(i) == list.data[i].st = "here"
NoDialog == ~form.open /\ details.of = None /\ asking = None

\* Where the buttons of a tool are: on its card, or in its details.
At(i) == IF details.of # None THEN details.of = i ELSE NoDialog /\ Listed(i)
Seen(i) == IF details.of # None THEN details.body ELSE list.data[i].body

\* openEditor: whatever the form held is replaced.
OpenEditor(of, body) ==
  /\ Act /\ form' = [open |-> TRUE, of |-> of, body |-> body]
  /\ details' = NoDetails
  /\ UNCHANGED <<tools, list, asking, req, kept, loose>>

NewTool == NoDialog /\ OpenEditor(None, EmptyForm)
CustomizeTemplate == NoDialog /\ OpenEditor(None, FormFromTemplate)
EditTool(i) == At(i) /\ OpenEditor(i, Seen(i))
Duplicate(i) == At(i) /\ OpenEditor(None, [Seen(i) EXCEPT !.name = CopyName(@)])

\* The row is kept as it is listed now.
Inspect(i) ==
  /\ Act /\ NoDialog /\ Listed(i)
  /\ details' = [of |-> i, body |-> list.data[i].body]
  /\ UNCHANGED <<tools, list, form, asking, req, kept, loose>>

CloseDetails ==
  /\ details.of # None /\ details' = NoDetails
  /\ UNCHANGED <<tools, list, form, asking, req, acts, kept, loose>>

AskDelete(i) ==
  /\ Act /\ At(i)
  /\ asking' = i /\ details' = NoDetails
  /\ UNCHANGED <<tools, list, form, req, kept, loose>>

CancelDelete ==
  /\ asking # None /\ asking' = None
  /\ UNCHANGED <<tools, list, form, details, req, acts, kept, loose>>

-----------------------------------------------------------------------------
(* The editor: what its tabs let a user do to the form                     *)

Fill(body) ==
  /\ Act /\ form.open /\ form' = [form EXCEPT !.body = body]
  /\ UNCHANGED <<tools, list, details, asking, req, kept, loose>>

\* Endpoint & Basics: the name and the description, or the method and the URL.
EndpointTab ==
  \/ \E name \in {form.body.name, "", "Bad", "mine"}, about \in Sizes :
       Fill([form.body EXCEPT !.name = name, !.shape.about = about])
  \/ \E url \in Urls, uses, post \in BOOLEAN :
       Fill([form.body EXCEPT !.shape.url = url, !.shape.uses = uses, !.shape.post = post])

\* autoAddAllMissingPathParams: a name that is declared as something else is
\* missing, and is not added.
AddMissingPathParams ==
  /\ form.body.shape.uses /\ ~Declared(form.body.shape) /\ Len(form.body.shape.params) < 2
  /\ Fill([form.body EXCEPT !.shape.params = Append(@, [name |-> "p", in |-> "path"])])

\* Parameters & Body: rows are added, changed and removed; the body is only
\* shown for the methods that have one.
ParamsTab ==
  \/ \E params \in ParamLists, fits \in BOOLEAN :
       Fill([form.body EXCEPT !.shape.params = params, !.shape.fits = fits])
  \/ \E body \in {"none", "blank", "text", "json", "uses"}, fits \in BOOLEAN :
       /\ form.body.shape.post
       /\ Fill([form.body EXCEPT !.shape.body = body, !.shape.fits = fits])

\* Headers & Auth: keys are typed over, values are typed over, rows are added
\* and removed. A masked value stays with its row, not with its key.
HeadersTab ==
  \E heads \in [Keys -> {"none", "typed", "long", "mask"}] :
    /\ Cardinality({k \in Keys : heads[k] = "mask"})
         <= Cardinality({k \in Keys : form.body.heads[k] = "mask"})
    /\ Fill([form.body EXCEPT !.heads = heads])

\* Agent Settings.
SettingsTab == Fill([form.body EXCEPT !.on = ~@])

CancelEditor ==
  /\ form.open /\ form' = [form EXCEPT !.open = FALSE]
  /\ UNCHANGED <<tools, list, details, asking, req, acts, kept, loose>>

-----------------------------------------------------------------------------
(* Requests                                                                *)

\* The requests of one hook: a hook only knows of its last one. That of the
\* settings dialog holds nothing up.
HookOf(kind) ==
  CASE kind \in {"create", "install"} -> "useCreateTool"
    [] kind \in {"save", "toggle"} -> "useUpdateTool"
    [] OTHER -> "useDeleteTool"

Send(q, kind, of, body) ==
  /\ req[q].st = "free" /\ \A p \in Reqs : p < q => req[p].st # "free"
  /\ req' = [p \in Reqs |->
       IF p = q THEN [st |-> "sent", kind |-> kind, of |-> of, body |-> body, by |-> "page",
                      last |-> TRUE]
       ELSE [req[p] EXCEPT !.last = @ /\ HookOf(req[p].kind) # HookOf(kind)]]

Updates == {"save", "toggle"}
UpdateOut(p) == req[p].st # "free" /\ req[p].kind \in Updates
Watched(p) == req[p].by = "page" /\ req[p].last

\* isPending of a hook of this visit
Pending(hook) == \E q \in Reqs : req[q].st # "free" /\ Watched(q) /\ HookOf(req[q].kind) = hook
Creating == Pending("useCreateTool")
Updating == Pending("useUpdateTool")
Deleting == Pending("useDeleteTool")

\* An update is out that this visit's hook does not know of: of the visit
\* before, of the settings, a forgotten one of its own, or one whose connection
\* was lost and which the server may still serve.
Unwatched == \E p \in Reqs : UpdateOut(p) /\ ~Watched(p)

\* handleSave of the editor, and handleSaveTool of the page.
SaveTool(q) ==
  /\ Act /\ form.open /\ ~Creating /\ ~Updating
  /\ form.body.shape.about # "blank" /\ ValidateForm(form.body.name, form.body.shape)
  /\ IF form.of = None THEN Send(q, "create", None, form.body) /\ UNCHANGED <<kept, loose>>
     ELSE /\ Send(q, "save", form.of, form.body)
          /\ kept' = [kept EXCEPT ![form.of] = None] /\ loose' = (loose \/ Unwatched)
  /\ UNCHANGED <<tools, list, form, details, asking>>

\* handleAddTemplateDirectly: the button of a card waits for its own request,
\* the one of the preview dialog does not.
AddTemplateDirectly(q) ==
  /\ Act /\ NoDialog
  /\ Send(q, "install", None, FormFromTemplate)
  /\ UNCHANGED <<tools, list, form, details, asking, kept, loose>>

\* MUTANT: the switch of a card does not wait for the update that is out.
ToggleAnytime(q, i) ==
  /\ Act /\ NoDialog /\ Listed(i)
  /\ Send(q, "toggle", i, [list.data[i].body EXCEPT !.on = ~@])
  /\ loose' = (loose \/ Unwatched)
  /\ UNCHANGED <<tools, list, form, details, asking, kept>>

\* The switch of a card: a PATCH of `enabled` alone.
Toggle(q, i) ==
  /\ Act /\ NoDialog /\ Listed(i) /\ ~Updating
  /\ Send(q, "toggle", i, [list.data[i].body EXCEPT !.on = ~@])
  /\ loose' = (loose \/ Unwatched)
  /\ UNCHANGED <<tools, list, form, details, asking, kept>>

\* The switch of the details dialog is never disabled, and its dialog shows
\* the row as it was.
ToggleInDetails(q, i) ==
  /\ Act /\ details.of = i
  /\ Send(q, "toggle", i, [details.body EXCEPT !.on = ~@])
  /\ loose' = (loose \/ Updating \/ Unwatched)
  /\ UNCHANGED <<tools, list, form, details, asking, kept>>

\* The switch in the settings dialog: the same list, another hook, and never
\* disabled.
ToggleInSettings(q, i) ==
  /\ Act /\ NoDialog /\ Listed(i) /\ req[q].st = "free"
  /\ req' = [req EXCEPT ![q] =
       [st |-> "sent", kind |-> "toggle", of |-> i,
        body |-> [list.data[i].body EXCEPT !.on = ~@], by |-> "other", last |-> FALSE]]
  /\ loose' = (loose \/ Updating \/ Unwatched)
  /\ UNCHANGED <<tools, list, form, details, asking, kept>>

ConfirmDelete(q) ==
  /\ Act /\ asking # None /\ ~Deleting
  /\ Send(q, "delete", asking, EmptyForm)
  /\ UNCHANGED <<tools, list, form, details, asking, kept, loose>>

-----------------------------------------------------------------------------
(* The server                                                              *)

Answer(q, st) == req' = [req EXCEPT ![q].st = st]

\* "tools_user_id_name_key"
Taken(name, i) == \E j \in Ids \ {i} : Here(j) /\ tools[j].body.name = name

\* handleCreateTool stores the headers it is sent, the mask among them.
CreateTool(q) ==
  LET body == req[q].body IN
  /\ req[q].st = "sent" /\ req[q].kind \in {"create", "install"}
  /\ IF ~Validate(body.name, body.shape, body.heads) \/ Taken(body.name, None)
     THEN Answer(q, "failed") /\ UNCHANGED tools
     ELSE /\ Answer(q, "ok")
          /\ \E i \in Ids :
               /\ tools[i].st = "none" /\ \A j \in Ids : j < i => tools[j].st # "none"
               /\ tools' = [tools EXCEPT ![i] = [st |-> "here", body |-> body]]
  /\ UNCHANGED <<list, form, details, asking, acts, kept, loose>>

\* handlePatchTool up to the merge: the request goes on with the merged row,
\* which is checked with the headers it had.
PatchRead(q) ==
  LET old == tools[req[q].of].body
      new == IF req[q].kind = "toggle" THEN [old EXCEPT !.on = req[q].body.on]
             ELSE Merged(old, req[q].body) IN
  /\ req[q].st = "sent" /\ req[q].kind \in Updates
  /\ req' = IF Here(req[q].of) /\ Validate(new.name, new.shape, old.heads)
            THEN [req EXCEPT ![q].st = "read", ![q].body = new]
            ELSE [req EXCEPT ![q].st = "failed"]
  /\ UNCHANGED <<tools, list, form, details, asking, acts, kept, loose>>

\* Tools.Update writes every column.
PatchWrite(q) ==
  LET i == req[q].of IN
  /\ req[q].st = "read"
  /\ IF Here(i) /\ ~Taken(req[q].body.name, i)
     THEN tools' = [tools EXCEPT ![i].body = req[q].body] /\ Answer(q, "ok")
     ELSE UNCHANGED tools /\ Answer(q, "failed")
  /\ UNCHANGED <<list, form, details, asking, acts, kept, loose>>

DeleteTool(q) ==
  LET i == req[q].of IN
  /\ req[q].st = "sent" /\ req[q].kind = "delete"
  /\ tools' = [tools EXCEPT ![i].st = "gone"]
  /\ Answer(q, IF Here(i) THEN "ok" ELSE "failed")
  /\ UNCHANGED <<list, form, details, asking, acts, kept, loose>>

\* A statement fails, of a handler that has read or of one that has not.
ServerFails(q) ==
  /\ Act /\ req[q].st \in {"sent", "read"}
  /\ Answer(q, "failed")
  /\ UNCHANGED <<tools, list, form, details, asking, kept, loose>>

-----------------------------------------------------------------------------
(* Answers                                                                 *)

\* The connection is lost: the page has its error, and the server goes on.
LoseConnection(q) ==
  /\ Act /\ req[q].st # "free" /\ req[q].by # "nobody"
  /\ req' = [req EXCEPT ![q].by = "nobody"]
  /\ UNCHANGED <<tools, list, form, details, asking, kept, loose>>

\* What the server answers then is heard by nobody.
Unheard(q) ==
  /\ req[q].st \in {"ok", "failed"} /\ req[q].by = "nobody"
  /\ req' = [req EXCEPT ![q] = NoReq]
  /\ UNCHANGED <<tools, list, form, details, asking, acts, kept, loose>>

\* The page is left for another and opened again: nothing is open, its hooks
\* are new, and its query asks again.
Leave ==
  /\ Act
  /\ form' = Closed /\ details' = NoDetails /\ asking' = None
  /\ list' = [list EXCEPT !.out = TRUE]
  /\ req' = [q \in Reqs |-> IF req[q].by = "page" THEN [req[q] EXCEPT !.by = "other"]
                            ELSE req[q]]
  /\ UNCHANGED <<tools, kept, loose>>

\* The hooks invalidate the list. A save closes the editor of its visit,
\* whatever it shows by then; a delete the dialog.
Succeeded(q) ==
  /\ req[q].st = "ok" /\ req[q].by # "nobody"
  /\ list' = [list EXCEPT !.out = TRUE]
  /\ form' = IF req[q].kind \in {"create", "save"} /\ req[q].by = "page"
             THEN [form EXCEPT !.open = FALSE] ELSE form
  /\ asking' = IF req[q].kind = "delete" /\ req[q].by = "page" THEN None ELSE asking
  /\ kept' = IF req[q].kind = "save" THEN [kept EXCEPT ![req[q].of] = req[q].body] ELSE kept
  /\ req' = [req EXCEPT ![q] = NoReq]
  /\ UNCHANGED <<tools, details, acts, loose>>

\* A failure is toasted; the editor stays open.
Failed(q) ==
  /\ req[q].st = "failed" /\ req[q].by # "nobody"
  /\ req' = [req EXCEPT ![q] = NoReq]
  /\ UNCHANGED <<tools, list, form, details, asking, acts, kept, loose>>

\* handleListTools; the open dialogs keep the rows they have.
ListArrives ==
  /\ list.out
  /\ list' = [out |-> FALSE,
              data |-> [i \in Ids |-> IF Here(i) THEN [tools[i] EXCEPT !.body = Masked(@)]
                                      ELSE NoRow]]
  /\ UNCHANGED <<tools, form, details, asking, req, acts, kept, loose>>

-----------------------------------------------------------------------------
First == [name |-> "tool", shape |-> Plain,
          heads |-> [k \in Keys |-> IF k \in OldKeys THEN "secret" ELSE "none"], on |-> TRUE]

\* The page was opened, and its list has arrived.
Init ==
  /\ tools = [i \in Ids |-> IF i = 1 THEN [st |-> "here", body |-> First] ELSE NoRow]
  /\ list = [out |-> FALSE,
             data |-> [i \in Ids |-> IF i = 1 THEN [st |-> "here", body |-> Masked(First)]
                                     ELSE NoRow]]
  /\ form = Closed /\ details = NoDetails /\ asking = None
  /\ req = [q \in Reqs |-> NoReq]
  /\ acts = 0 /\ kept = [i \in Ids |-> None] /\ loose = FALSE

EditorStep ==
  \/ EndpointTab \/ AddMissingPathParams \/ ParamsTab \/ HeadersTab \/ SettingsTab
  \/ CancelEditor

PageStep ==
  \/ NewTool \/ CustomizeTemplate \/ CloseDetails \/ CancelDelete \/ Leave
  \/ \E i \in Ids : EditTool(i) \/ Duplicate(i) \/ Inspect(i) \/ AskDelete(i)

RequestStep ==
  \E q \in Reqs :
    \/ SaveTool(q) \/ AddTemplateDirectly(q) \/ ConfirmDelete(q)
    \/ \E i \in Ids : Toggle(q, i) \/ ToggleInDetails(q, i) \/ ToggleInSettings(q, i)
    \/ CreateTool(q) \/ PatchRead(q) \/ PatchWrite(q) \/ DeleteTool(q) \/ ServerFails(q)
    \/ LoseConnection(q) \/ Unheard(q) \/ Succeeded(q) \/ Failed(q)

Next == EditorStep \/ PageStep \/ RequestStep \/ ListArrives

Spec == Init /\ [][Next]_vars

-----------------------------------------------------------------------------
(* Properties                                                              *)

\* Where the server's rules are not in the "client-side mirror of the backend
\* authoring rules" of validateForm, and the other way round: sizes, the body's
\* JSON, and two parsers' reading of a URL.
ServerRefusesMore(b) ==
  \/ b.shape.url = "lenient" \/ b.shape.body \in {"blank", "text"}
  \/ b.shape.about # "fits" \/ ~b.shape.fits \/ ~HeadersFit(b.heads)
ClientRefusesMore(b) == b.shape.url = "strict"

\* On whatever the editor holds, the two sets of rules agree but for those:
\* names, parameters, placeholders and methods are judged alike.
ClientMirrorsServer ==
  LET b == form.body IN
  /\ Validate(b.name, b.shape, b.heads) /\ ~ValidateForm(b.name, b.shape) => ClientRefusesMore(b)
  /\ ValidateForm(b.name, b.shape) /\ ~Validate(b.name, b.shape, b.heads) => ServerRefusesMore(b)

\* "The server re-validates and stays authoritative" (toolForm.ts): what is
\* stored keeps the server's rules.
StoredToolsAreValid ==
  \A i \in Ids : Here(i) => Validate(tools[i].body.name, tools[i].body.shape, tools[i].body.heads)

\* An answered save stays saved: name, new secrets, until the tool is saved
\* again, although every PATCH writes the whole row it has read. Set apart are
\* updates sent while one was out that the page could not wait for: the
\* switches of the details and of the settings wait for nothing, and no visit
\* knows of the updates of the one before, or of those that lost their
\* connection. That the page's own switches and saves wait for each other is
\* what protects the rest.
SavesStick ==
  \A i \in Ids :
    ~loose /\ kept[i] # None /\ Here(i) =>
      /\ tools[i].body.name = kept[i].name /\ tools[i].body.shape = kept[i].shape
      /\ tools[i].body.heads = kept[i].heads

\* toolForm.ts: "sending the mask back means 'keep the stored secret'". No step
\* replaces a stored secret but by one that was typed, and none forgets it.
SecretsSurvive ==
  [][\A i \in Ids, k \in Keys :
       LET old == tools[i].body.heads[k]  new == tools'[i].body.heads[k] IN
       ~loose /\ Here(i) /\ tools'[i].st = "here" /\ old \in {"secret", "typed", "long"}
         => new \in {old, "typed", "long"}]_vars

=============================================================================
