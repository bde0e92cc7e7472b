---------------------------- MODULE WorkflowEditor ----------------------------
(***************************************************************************)
(* The workflow pages in the browser: WorkflowsPage (list, templates,      *)
(* create, delete) and WorkflowCanvasPage with its palette, inspector and  *)
(* settings dialog, over useWorkflows' cached queries and the server's     *)
(* rows.                                                                   *)
(*                                                                         *)
(* A graph is the set of its nodes, what each is configured with, and its  *)
(* edges. What a user types is a stamp: a fresh number per keystroke. A    *)
(* node has two fields, its title and one for all of its parameters.       *)
(***************************************************************************)
EXTENDS Naturals, FiniteSets

CONSTANTS Flows,    \* workflows that can come to exist
          Nodes,    \* node ids
          Start,    \* the manual trigger of a blank workflow
          Reqs,     \* requests that change something and can be out at once
          MaxActs,  \* bound: what the user does, selecting and navigating apart,
                    \* and fetches that fail
          None

ASSUME WorkflowEditorAssumption ==
  /\ Start \in Nodes /\ MaxActs \in Nat
  /\ None \notin Flows \cup Nodes

VARIABLES
  row,      \* server: the workflows
  detail,   \* cache: ["workflows", id], and its request
  list,     \* cache: ["workflows"], and its request
  req,      \* the PATCH, POST and DELETE requests that are out
  page,     \* the list (None) or the workflow of the canvas
  canvas,   \* nodes and edges of React Flow, with the results shown on them
  unsaved,  \* hasUnsavedChanges
  sel,      \* selectedNodeId
  form,     \* the inspector's own copy of title and parameters, or None
  settings, \* the settings dialog's own copy, or None before it is mounted
  test,     \* the run request of handleTestWorkflow, or None
  results,  \* nodeResults: per node the run its result is of, or None
  cloning,  \* cloningId: the template whose clone the list page waits for, or None
  acts,
  lost,     \* history: an answer was lost, or a page left with requests out
  typing    \* history: the canvas changed while a save of it was out

cache  == <<detail, list>>
drawn  == <<canvas, unsaved, sel, form>>
hist   == <<lost, typing>>
vars   == <<row, cache, req, page, drawn, settings, test, results, cloning, acts, hist>>

-----------------------------------------------------------------------------
Stamps == 0..MaxActs
Config == [title : Stamps, body : Stamps]
Graphs == [nodes : SUBSET Nodes, conf : [Nodes -> Config], edges : SUBSET (Nodes \X Nodes)]
Meta   == [active : BOOLEAN, about : Stamps]

\* A workflow, and its updatedAt, which has seconds: a change may leave it as it
\* was, or make the row another one for the cache.
Rows == [graph : Graphs, meta : Meta, at : BOOLEAN]

\* `undefined` is no row.
ASSUME NoneIsNoRow == None \notin Rows

\* A node as the palette and the templates have it.
Default == [title |-> 0, body |-> 0]
Empty == [nodes |-> {}, conf |-> [n \in Nodes |-> Default], edges |-> {}]
NoMeta == [active |-> FALSE, about |-> 0]
NoResults == [n \in Nodes |-> None]
Bare(g) == [graph |-> g, on |-> NoResults]

\* handleCreateCustom's blank workflow and a template of the gallery.
Blank == [Empty EXCEPT !.nodes = {Start}]
Templates == {[Empty EXCEPT !.nodes = {Start, n}, !.edges = {<<Start, n>>}] :
                n \in Nodes \ {Start}}

\* The parameters of all node types are one field here, the title is another.
Fields == {"title", "body"}

Updates == {"graph", "active", "settings"}
Creations == {"create", "clone"}
Kinds == Updates \cup Creations \cup {"delete"}
Requests == [st : {"free", "sent", "ok", "failed"}, kind : Kinds \cup {"none"},
             flow : Flows \cup {None}, graph : Graphs, meta : Meta, shown : BOOLEAN]
NoReq == [st |-> "free", kind |-> "none", flow |-> None, graph |-> Empty,
          meta |-> NoMeta, shown |-> FALSE]
NoQuery == [data |-> None, out |-> "no", got |-> None, bad |-> FALSE]

\* `bad`: the last fetch of the query failed, or was a 404.
Queries == [data : Rows \cup {None}, out : {"no", "sent", "read"}, got : Rows \cup {None},
            bad : BOOLEAN]
Results == [Nodes -> Stamps \cup {None}]

\* A run of the test that is done has used a stored graph.
Tests == [st : {"sent", "failed"}, meant : Graphs, used : {None}]
           \cup [st : {"done"}, meant : Graphs, used : Graphs]

TypeOK ==
  /\ row \in [Flows -> Rows \cup {None}]
  /\ detail \in [Flows -> Queries]
  /\ list \in [data : (SUBSET Flows) \cup {None}, out : {"no", "sent"}, got : {None},
               bad : {FALSE}]
  /\ req \in [Reqs -> Requests]
  /\ page \in Flows \cup {None} /\ sel \in Nodes \cup {None}
  /\ canvas \in [graph : Graphs, on : Results]
  /\ form \in Config \cup {None} /\ unsaved \in BOOLEAN
  /\ settings \in Meta \cup {None} /\ test \in Tests \cup {None} /\ results \in Results
  /\ cloning \in Graphs \cup {None} /\ acts \in Stamps
  /\ lost \in BOOLEAN /\ typing \in BOOLEAN

-----------------------------------------------------------------------------
Act == acts < MaxActs /\ acts' = acts + 1

(* The query cache (TanStack Query, as the hooks use it)                   *)

Shown(f) == detail[f].data

\* The canvas is there, and no error screen instead of it.
Ready == page # None /\ Shown(page) # None /\ ~detail[page].bad
Listed == page = None /\ list.data # None
G == canvas.graph

\* A card of the list, and a node of the canvas with its result.
Card(f) == Listed /\ f \in list.data
Badge(n) == canvas.on[n]

\* A fetch that is out serves a new reader as well.
Fetched(q) == IF q.out = "no" THEN [q EXCEPT !.out = "sent"] ELSE q

\* An invalidated query starts its fetch again, whatever it has read, unless
\* it is the first one.
Refetched(q) == IF q.data = None THEN Fetched(q) ELSE [q EXCEPT !.out = "sent", !.got = None]

\* invalidateQueries(["workflows"]) reaches every key that begins with it, and
\* fetches those that a mounted page reads.
Invalidated ==
  /\ detail' = [f \in Flows |-> IF page = f THEN Refetched(detail[f]) ELSE detail[f]]
  /\ list'   = IF page = None THEN Refetched(list) ELSE list

\* The window gets the focus: what is mounted is fetched again.
Focus ==
  /\ Act /\ Invalidated
  /\ UNCHANGED <<row, cloning, req, page, drawn, settings, test, results, hist>>

-----------------------------------------------------------------------------
(* The canvas                                                              *)

\* NodeInspector is mounted while the selected node exists. Its copy is taken
\* when it is mounted, never again: it has no key. An error screen unmounts it.
Drawer(s, g) ==
  IF s \notin g.nodes THEN None ELSE IF form = None THEN g.conf[s] ELSE form

\* The drawer stays mounted when the selection goes from node to node.
Selects(s, g) == sel' = s /\ form' = Drawer(s, g)

\* The results that nodes of the graph have.
On(g, res) == [n \in Nodes |-> IF n \in g.nodes THEN res[n] ELSE None]

\* The drawer's output tab of a node.
Output(n) == On(G, results)[n]

\* MUTANT: the effect that initializes the canvas forgets the results.
LoadedBare(g) == Bare(g)

\* What the load effect puts on the canvas: the graph, and on its nodes the
\* results of the render it runs in.
Loaded(g) == [graph |-> g, on |-> On(g, results)]

\* The effect on [workflow]: everything on the canvas is replaced, edits too.
Load(g) ==
  /\ canvas' = Loaded(g)
  /\ unsaved' = FALSE

Saving == \E r \in Reqs : req[r].kind = "graph"

\* An edit on the canvas by the user or by React Flow.
Draw(g, s) ==
  /\ Act /\ Ready
  /\ canvas' = [graph |-> g, on |-> On(g, canvas.on)]
  /\ unsaved' = TRUE
  /\ Selects(s, g)
  /\ typing' = (typing \/ Saving)
  /\ UNCHANGED <<row, cloning, cache, req, page, settings, test, results, lost>>

\* onNodesChange, onEdgesChange: measured, moved or selected, nothing the
\* graph here can tell; the page is unsaved all the same.
Touch == ~unsaved /\ Draw(G, sel)

\* A trigger has no handle that an edge could end at.
Handles(a, b) == {a, b} \subseteq G.nodes /\ b # Start

OnConnect(a, b) ==
  /\ Handles(a, b) /\ <<a, b>> \notin G.edges
  /\ Draw([G EXCEPT !.edges = @ \cup {<<a, b>>}], sel)

\* What the palette adds: a node whose id was never used.
Palette == {n \in Nodes : n \notin G.nodes /\ results[n] = None}

\* The new node is selected.
HandleAddNode(n) ==
  /\ n \in Palette
  /\ Draw([G EXCEPT !.nodes = @ \cup {n}], n)

\* The node, what it was configured with, and its edges.
Without(g, n) == [g EXCEPT !.nodes = @ \ {n}, !.conf[n] = Default,
                           !.edges = {e \in @ : e[1] # n /\ e[2] # n}]

HandleDeleteNode == sel \in G.nodes /\ Draw(Without(G, sel), None)

\* A click on a node or on the pane, or the drawer's close button.
Click(n) ==
  /\ Ready /\ n # sel /\ n \in G.nodes \cup {None}
  /\ Selects(n, G)
  /\ UNCHANGED <<row, cloning, cache, req, page, canvas, unsaved, settings, test, results, acts,
                 lost, typing>>

\* handleNameChange and updateConfig: the drawer's copy with one field typed.
UpdateConfig(field) == [form EXCEPT ![field] = acts + 1]

\* The selected node with what the drawer sends.
Configured(copy) == [canvas EXCEPT !.graph.conf[sel] = copy]

\* A field of the drawer is typed, and all of its copy goes to the node.
HandleUpdateNodeConfig(field) ==
  /\ Act /\ Ready /\ form # None
  /\ form' = UpdateConfig(field)
  /\ canvas' = Configured(form')
  /\ unsaved' = TRUE
  /\ typing' = (typing \/ Saving)
  /\ UNCHANGED <<row, cloning, cache, req, page, sel, settings, test, results, lost>>

-----------------------------------------------------------------------------
(* Requests                                                                *)

\* The mutation hook a request was sent with.
Hook(kind) == CASE kind \in Updates   -> "update"
                [] kind \in Creations -> "create"
                [] OTHER               -> kind

\* A hook keeps the callbacks of its latest call only.
Send(r, kind, f, g, m) ==
  /\ req[r].st = "free"
  /\ req' = [q \in Reqs |->
       IF q = r THEN [st |-> "sent", kind |-> kind, flow |-> f, graph |-> g, meta |-> m,
                      shown |-> TRUE]
       ELSE [req[q] EXCEPT !.shown = @ /\ Hook(req[q].kind) # Hook(kind)]]

Pending(hook) == \E r \in Reqs : req[r].shown /\ Hook(req[r].kind) = hook

\* The toolbar's buttons, when they are enabled.
SaveButton == Ready /\ unsaved /\ ~Pending("update")
TestButton == Ready /\ test = None

HandleSave(r) ==
  /\ Act /\ SaveButton
  /\ Send(r, "graph", page, G, NoMeta)
  /\ UNCHANGED <<row, cloning, cache, page, drawn, settings, test, results, hist>>

\* handleToggleActive, on the canvas and on a card of the list (which shows
\* the same row).
HandleToggleActive(r, f) ==
  /\ Act
  /\ Card(f) \/ (Ready /\ f = page)
  /\ \E on \in BOOLEAN :
       /\ page = f => on = ~Shown(f).meta.active
       /\ Send(r, "active", f, Empty, [NoMeta EXCEPT !.active = on])
  /\ UNCHANGED <<row, cloning, cache, page, drawn, settings, test, results, hist>>

\* The settings form: the copy taken when the page was opened, with a name, a
\* trigger or a webhook typed.
SettingsForm == [settings EXCEPT !.about = acts + 1]

\* The dialog writes its whole copy. It is closed, not unmounted.
SaveSettings(r) ==
  /\ Act /\ Ready /\ settings # None
  /\ settings' = SettingsForm
  /\ Send(r, "settings", page, Empty, settings')
  /\ UNCHANGED <<row, cloning, cache, page, drawn, test, results, hist>>

\* handleTestWorkflow: the results are cleared, an unsaved graph is saved, and
\* the run is posted without waiting for that.
HandleTestWorkflow(r) ==
  /\ Act /\ TestButton
  /\ test' = [st |-> "sent", meant |-> G, used |-> None]
  /\ results' = NoResults
  /\ canvas' = Bare(G)
  /\ IF unsaved THEN Send(r, "graph", page, G, NoMeta) ELSE UNCHANGED req
  /\ UNCHANGED <<row, cloning, cache, page, unsaved, sel, form, settings, hist>>

\* The create dialog's button waits for the creation that is out, a template's
\* only for its own clone.
CreateDialog == page = None /\ ~Pending("create")
UseButton(t) == page = None /\ cloning # t

Create(r, kind, g) ==
  /\ Act
  /\ Send(r, kind, None, g, [active |-> TRUE, about |-> 0])
  /\ UNCHANGED <<row, cache, page, drawn, settings, test, results, hist>>

HandleCreateCustom(r, g) == CreateDialog /\ Create(r, "create", g) /\ UNCHANGED cloning
HandleUseTemplate(r, t)  == UseButton(t) /\ Create(r, "clone", t) /\ cloning' = t

\* confirmDelete of the card that is pending.
DeleteDialog(f) == Card(f) /\ ~Pending("delete")

ConfirmDelete(r, f) ==
  /\ Act /\ DeleteDialog(f)
  /\ Send(r, "delete", f, Empty, NoMeta)
  /\ UNCHANGED <<row, cloning, cache, page, drawn, settings, test, results, hist>>

\* MUTANT: a deleted workflow keeps its row, without a graph.
SoftDeleted(q, at) ==
  IF q.kind = "delete" THEN [row[q.flow] EXCEPT !.graph = None] ELSE row[q.flow]

\* What handlePatchWorkflow stores: the fields of the request, the others stay
\* but for the time.
Patched(q, at) ==
  CASE q.kind = "graph"    -> [row[q.flow] EXCEPT !.graph = q.graph, !.at = at]
    [] q.kind = "active"   -> [row[q.flow] EXCEPT !.meta.active = q.meta.active, !.at = at]
    [] q.kind = "settings" -> [row[q.flow] EXCEPT !.meta = q.meta, !.at = at]
    [] q.kind = "delete"   -> None

\* Ids of workflows are never used twice; a name of Flows is, once nothing
\* refers to the deleted one.
Unused(f) == /\ row[f] = None /\ page # f
             /\ detail[f] = NoQuery /\ \A r \in Reqs : req[r].flow # f

Serve(r) ==
  /\ req[r].st = "sent"
  /\ \/ /\ Hook(req[r].kind) = "create"
        /\ \E f \in Flows :
             /\ Unused(f)
             /\ row' = [row EXCEPT ![f] = [graph |-> req[r].graph, meta |-> req[r].meta,
                                           at |-> FALSE]]
             /\ req' = [req EXCEPT ![r].st = "ok", ![r].flow = f]
     \/ /\ Hook(req[r].kind) # "create" /\ row[req[r].flow] # None
        /\ \E at \in BOOLEAN : row' = [row EXCEPT ![req[r].flow] = Patched(req[r], at)]
        /\ req' = [req EXCEPT ![r].st = "ok"]
  /\ UNCHANGED <<cloning, cache, page, drawn, settings, test, results, acts, hist>>

\* The request is refused or does not reach the server, or its answer is lost
\* after it was applied.
Fail(r) ==
  /\ req[r].st = "sent"
  /\ req' = [req EXCEPT ![r].st = "failed"]
  /\ UNCHANGED <<row, cloning, cache, page, drawn, settings, test, results, acts, hist>>

Lose(r) ==
  /\ req[r].st = "ok" /\ req[r].shown
  /\ req' = [req EXCEPT ![r].st = "failed"] /\ lost' = TRUE
  /\ UNCHANGED <<row, cloning, cache, page, drawn, settings, test, results, acts, typing>>

\* MUTANT: the hooks invalidate what the page reads only when nothing of the
\* same hook is out any more.
InvalidatedLast(r) ==
  IF \E q \in Reqs \ {r} : req[q].st # "free" THEN UNCHANGED cache ELSE Invalidated

\* onSuccess of the hooks: after every answer, on whatever page.
OnMutated(r) == Invalidated

\* A page is mounted: its own state is new, and what is out of the old page
\* loses its callbacks.
Mount(p) ==
  /\ page' = p
  /\ sel' = None /\ form' = None /\ results' = NoResults /\ test' = None /\ cloning' = None
  /\ unsaved' = FALSE /\ typing' = FALSE
  /\ lost' = \/ lost
             \/ \E f \in Flows : detail[f].out # "no"
             \/ \E r \in Reqs : Hook(req[r].kind) \notin {"none", "create"}
  /\ canvas' = Bare(IF p = None \/ Shown(p) = None THEN Empty ELSE Shown(p).graph)
  /\ settings' = IF p = None \/ Shown(p) = None \/ detail[p].bad THEN None ELSE Shown(p).meta

\* An answer. A save that still has its callbacks clears the unsaved mark, a
\* clone the template's.
Answer(r) ==
  /\ req[r].st \in {"ok", "failed"}
  /\ ~(Hook(req[r].kind) = "create" /\ req[r].shown /\ req[r].st = "ok")
  /\ IF req[r].st = "ok" THEN OnMutated(r) ELSE UNCHANGED cache
  /\ unsaved' = (unsaved /\ ~(req[r].st = "ok" /\ req[r].kind = "graph" /\ req[r].shown))
  /\ cloning' = IF req[r].kind = "clone" /\ req[r].shown THEN None ELSE cloning
  /\ req' = [req EXCEPT ![r] = NoReq]
  /\ UNCHANGED <<row, page, canvas, sel, form, settings, test, results, acts, hist>>

\* A creation the list page still waits for goes on to the new canvas.
Created(r) ==
  /\ Hook(req[r].kind) = "create" /\ req[r].shown /\ req[r].st = "ok"
  /\ Mount(req[r].flow)
  /\ detail' = [detail EXCEPT ![req[r].flow] = Fetched(@)]
  /\ list' = Refetched(list)
  /\ req' = [q \in Reqs |-> IF q = r THEN NoReq ELSE [req[q] EXCEPT !.shown = FALSE]]
  /\ UNCHANGED <<row, acts>>

-----------------------------------------------------------------------------
(* The test run                                                            *)

\* handleRunWorkflow loads the row as it is.
ServeRun ==
  /\ test # None /\ test.st = "sent"
  /\ \/ /\ row[page] # None
        /\ test' = [test EXCEPT !.st = "done", !.used = row[page].graph]
     \/ test' = [test EXCEPT !.st = "failed"]
  /\ UNCHANGED <<row, cloning, cache, req, page, drawn, settings, results, acts, hist>>

\* MUTANT: only an answer clears isRunning, an error does not.
DoneOnly == test.st = "done"

\* The finally of handleTestWorkflow: after an answer and after an error.
Settles == test.st \in {"done", "failed"}

\* The answer gives each node of the graph that ran its result, and the effect
\* on [nodeResults] puts them on the canvas.
RunAnswered ==
  /\ test # None /\ Settles
  /\ IF test.st = "done"
     THEN /\ results' = [n \in Nodes |-> IF n \in test.used.nodes THEN acts ELSE None]
          /\ canvas' = [canvas EXCEPT !.on = On(G, results')]
     ELSE UNCHANGED <<results, canvas>>
  /\ test' = None
  /\ UNCHANGED <<row, cloning, cache, req, page, unsaved, sel, form, settings, acts, hist>>

-----------------------------------------------------------------------------
(* Queries and navigation                                                  *)

\* The row, or None for a 404.
Read(f) ==
  /\ detail[f].out = "sent"
  /\ detail' = [detail EXCEPT ![f].out = "read", ![f].got = row[f]]
  /\ UNCHANGED <<row, cloning, list, req, page, drawn, settings, test, results, acts, hist>>

ListArrives ==
  /\ list.out = "sent"
  /\ list' = [NoQuery EXCEPT !.data = {f \in Flows : row[f] # None}]
  /\ UNCHANGED <<row, cloning, detail, req, page, drawn, settings, test, results, acts, hist>>

\* The detail arrives. Data that is deeply equal to the cached is the cached
\* object, and no effect runs; what an error screen had unmounted is mounted.
DetailArrives(f) ==
  LET got == detail[f].got
      new == got # Shown(f) IN
  /\ detail[f].out = "read" /\ got # None
  /\ detail' = [detail EXCEPT ![f] = [NoQuery EXCEPT !.data = got]]
  /\ IF page = f
     THEN /\ IF new THEN Load(got.graph) ELSE UNCHANGED <<canvas, unsaved>>
          /\ form' = Drawer(sel, canvas'.graph)
          /\ settings' = IF settings = None THEN got.meta ELSE settings
     ELSE UNCHANGED <<canvas, unsaved, form, settings>>
  /\ UNCHANGED <<row, cloning, list, req, page, sel, test, results, acts, lost, typing>>

\* The fetch fails, its retries too.
FetchFails(f) ==
  /\ Act /\ detail[f].out = "sent"
  /\ detail' = [detail EXCEPT ![f].out = "read", ![f].got = None]
  /\ UNCHANGED <<row, cloning, list, req, page, drawn, settings, test, results, hist>>

\* An error keeps the data, and what is drawn, behind an error screen that has
\* neither drawer nor dialog.
DetailFails(f) ==
  /\ detail[f].out = "read" /\ detail[f].got = None
  /\ detail' = [detail EXCEPT ![f] = [NoQuery EXCEPT !.data = Shown(f), !.bad = TRUE]]
  /\ form' = IF page = f THEN None ELSE form
  /\ settings' = IF page = f THEN None ELSE settings
  /\ UNCHANGED <<row, cloning, list, req, page, canvas, unsaved, sel, test, results, acts, lost,
                 typing>>

\* From a card of the list.
OpenCanvas(f) ==
  /\ Card(f)
  /\ Mount(f)
  /\ detail' = [detail EXCEPT ![f] = Fetched(@)]
  /\ req' = [r \in Reqs |-> [req[r] EXCEPT !.shown = FALSE]]
  /\ UNCHANGED <<row, list, acts>>

BackToList ==
  /\ Act /\ page # None
  /\ Mount(None)
  /\ list' = Fetched(list)
  /\ req' = [r \in Reqs |-> [req[r] EXCEPT !.shown = FALSE]]
  /\ UNCHANGED <<row, detail>>

-----------------------------------------------------------------------------
Init ==
  /\ row \in {[f \in Flows |-> IF f = g THEN [graph |-> t, meta |-> NoMeta, at |-> FALSE]
                                ELSE None] : g \in Flows, t \in Templates}
  /\ detail = [f \in Flows |-> NoQuery]
  /\ list = [NoQuery EXCEPT !.out = "sent"]
  /\ req = [r \in Reqs |-> NoReq] /\ page = None
  /\ canvas = Bare(Empty)
  /\ unsaved = FALSE /\ sel = None /\ form = None /\ settings = None
  /\ test = None /\ results = NoResults /\ cloning = None /\ acts = 0
  /\ lost = FALSE /\ typing = FALSE

UserStep ==
  \/ Touch \/ HandleDeleteNode \/ BackToList
  \/ \E a, b \in Nodes : OnConnect(a, b)
  \/ \E n \in Nodes : HandleAddNode(n)
  \/ \E n \in Nodes \cup {None} : Click(n)
  \/ \E field \in Fields : HandleUpdateNodeConfig(field)
  \/ \E r \in Reqs : \/ HandleSave(r) \/ SaveSettings(r) \/ HandleTestWorkflow(r)
                     \/ \E g \in {Blank} \cup Templates : HandleCreateCustom(r, g)
                     \/ \E t \in Templates : HandleUseTemplate(r, t)
                     \/ \E f \in Flows : HandleToggleActive(r, f) \/ ConfirmDelete(r, f)
  \/ \E f \in Flows : OpenCanvas(f)

ReqStep(r) == Serve(r) \/ Fail(r) \/ Answer(r) \/ Created(r)

QueryStep == \/ ListArrives
             \/ \E f \in Flows : Read(f) \/ DetailArrives(f) \/ DetailFails(f)

TestStep == ServeRun \/ RunAnswered

Next == \/ UserStep \/ QueryStep \/ TestStep \/ Focus
        \/ \E r \in Reqs : ReqStep(r) \/ Lose(r)
        \/ \E f \in Flows : FetchFails(f)

Spec == Init /\ [][Next]_vars

\* The run request is answered or fails, and the page handles it.
FairSpec == Spec /\ WF_vars(TestStep)

-----------------------------------------------------------------------------
(* Properties                                                              *)

\* Every node of the canvas shows the result its drawer shows, what the latest
\* test run reported of it and nothing while one is running: no reload of the
\* graph, and no edit, leaves a node with the result of an earlier run or
\* without its own.
ResultsAreOfOneRun == \A n \in Nodes : Badge(n) = Output(n)

\* When nothing is out any more, the page shows the stored row: the answer to
\* every change makes it read the row again, whatever it was reading before.
\* Set apart: lost answers, changes typed into a save that is out, and a page
\* left with requests out (the first fetch of the next one is not started
\* again by their answers, and keeps what it read before them).
QuietPageIsCurrent ==
  /\ Ready /\ ~lost /\ ~typing /\ detail[page].out = "no"
  /\ \A r \in Reqs : req[r].st = "free"
  => /\ Shown(page) = row[page]
     /\ ~unsaved => G = Shown(page).graph

\* The Test Workflow button comes back.
TestEnds == (test # None) ~> (test = None)

\* handleTestWorkflow: "First save if unsaved". The run uses the graph that
\* was on the canvas when it was asked for.
TestRunsWhatIsShown == test # None /\ test.st = "done" => test.used = test.meant

=============================================================================
