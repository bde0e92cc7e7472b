------------------------- MODULE WorkflowEditorProofs -------------------------
(***************************************************************************)
(* What the workflow pages promise, for every set of workflows, nodes and  *)
(* requests and every bound: a node of the canvas shows the result of the  *)
(* latest test run and of no other, and a page with nothing out shows the  *)
(* stored row.                                                             *)
(*                                                                         *)
(* The second is not inductive. It rests on what a page may wait for: as   *)
(* long as its row is not what it shows, an applied update is about to be  *)
(* answered, or the row is being read again; and a canvas that is not      *)
(* marked unsaved but differs from what the page was given is the stored   *)
(* graph, which is on its way. Saves that are out together could undo      *)
(* that, but they all carry the graph of the canvas.                       *)
(***************************************************************************)
EXTENDS WorkflowEditor, TLAPS

USE WorkflowEditorAssumption, NoneIsNoRow

\* The inductive invariant, in parts.

\* The request that is out is an update of the graph.
SavesGraph(r) == req[r].kind = "graph"

\* A request that is out has a kind, and one that changes a workflow has its id.
KindsKnown ==
  \A r \in Reqs : /\ req[r].st = "free" <=> req[r].kind = "none"
                  /\ req[r].kind \in Updates \cup {"delete"} => req[r].flow \in Flows

\* A test run belongs to a canvas.
TestOnCanvas == test # None => page # None

\* As long as no page was left with a request out, an update is of the page's
\* workflow and a deletion of the list's.
RequestsFit ==
  ~lost => \A r \in Reqs :
    /\ req[r].kind \in {"graph", "settings"} => page # None
    /\ req[r].kind = "delete" => page = None
    /\ req[r].kind \in Updates /\ page # None => req[r].flow = page /\ Shown(page) # None

\* The page shows its row, is about to read it again, or an error screen is
\* there or comes.
FetchComes ==
  page # None /\ ~lost =>
    \/ \E r \in Reqs : req[r].st = "ok" /\ req[r].kind \in Updates
    \/ detail[page].out = "sent"
    \/ detail[page].out = "read" /\ detail[page].got \in {row[page], None}
    \/ detail[page].out = "no" /\ (Shown(page) = row[page] \/ detail[page].bad)

\* Saves that are out together were sent with one graph, that of an unsaved
\* canvas, and an applied one is stored.
SavesAgree ==
  ~lost /\ ~typing => \A r \in Reqs : SavesGraph(r) =>
    /\ \A q \in Reqs : SavesGraph(q) => req[q].graph = req[r].graph
    /\ unsaved => req[r].graph = G
    /\ req[r].st = "ok" => row[page] # None /\ row[page].graph = req[r].graph

\* The canvas has a graph of the cache, be it behind an error screen.
HasGraph == page # None /\ Shown(page) # None

\* The stored graph is that of the canvas, and is on its way to the page, or
\* the error screen waits for the next fetch.
GraphComes ==
  /\ row[page] # None /\ row[page].graph = G
  /\ \A r \in Reqs : SavesGraph(r) => req[r].graph = G
  /\ \/ detail[page].out = "sent"
     \/ detail[page].out = "read" /\ (detail[page].got # None => detail[page].got.graph = G)
     \/ detail[page].out = "no" /\ detail[page].bad

\* A canvas without the unsaved mark is the graph the page was given, or the
\* stored one that comes.
DrawnIsShown == HasGraph /\ ~lost /\ ~typing /\ ~unsaved => G = Shown(page).graph \/ GraphComes

IInv ==
  /\ TypeOK
  /\ KindsKnown
  /\ TestOnCanvas
  /\ RequestsFit
  /\ FetchComes
  /\ SavesAgree
  /\ DrawnIsShown
  /\ ResultsAreOfOneRun

-----------------------------------------------------------------------------
(* Values                                                                  *)

LEMMA StampsAreNumbers == Stamps \subseteq Nat /\ 0 \in Stamps
BY DEF Stamps

\* What nothing was typed into.
LEMMA Blanks ==
  /\ Default \in Config /\ NoMeta \in Meta /\ Empty \in Graphs /\ Blank \in Graphs
  /\ Templates \subseteq Graphs /\ NoResults \in Results
  /\ NoReq \in Requests /\ NoQuery \in Queries
<1>1. Default \in Config /\ NoMeta \in Meta
  BY StampsAreNumbers DEF Default, Config, NoMeta, Meta
<1>2. Empty \in Graphs
  BY <1>1 DEF Empty, Graphs
<1>3. Blank \in Graphs
  BY <1>2 DEF Blank, Graphs, Empty
<1>4. ASSUME NEW n \in Nodes
      PROVE  [Empty EXCEPT !.nodes = {Start, n}, !.edges = {<<Start, n>>}] \in Graphs
  <2>1. {Start, n} \subseteq Nodes /\ {<<Start, n>>} \subseteq Nodes \X Nodes
    OBVIOUS
  <2> QED
    BY <1>2, <2>1 DEF Graphs, Empty
<1>5. Templates \subseteq Graphs
  BY <1>4 DEF Templates
<1>6. NoResults \in Results
  BY DEF NoResults, Results
<1>7. NoReq \in Requests
  BY <1>1, <1>2 DEF NoReq, Requests
<1>8. NoQuery \in Queries
  BY DEF NoQuery, Queries
<1> QED
  BY <1>1, <1>2, <1>3, <1>5, <1>6, <1>7, <1>8

\* A canvas has results for its own nodes only.
LEMMA OnType == ASSUME NEW g, NEW res \in Results PROVE On(g, res) \in Results
BY DEF On, Results

LEMMA BareType == ASSUME NEW g \in Graphs PROVE Bare(g) \in [graph : Graphs, on : Results]
BY Blanks DEF Bare

\* Deleting a node leaves a graph.
LEMMA WithoutType ==
  ASSUME NEW g \in Graphs, NEW n \in Nodes
  PROVE  Without(g, n) \in Graphs
<1>1. [g.conf EXCEPT ![n] = Default] \in [Nodes -> Config]
  BY Blanks DEF Graphs
<1>2. {e \in g.edges : e[1] # n /\ e[2] # n} \subseteq Nodes \X Nodes
  BY DEF Graphs
<1>3. g.nodes \ {n} \subseteq Nodes
  BY DEF Graphs
<1> QED
  BY <1>1, <1>2, <1>3, Blanks DEF Without, Graphs

\* The drawer holds nothing, its own copy or the node's.
LEMMA DrawerType ==
  ASSUME form \in Config \cup {None}, NEW g \in Graphs, NEW s
  PROVE  Drawer(s, g) \in Config \cup {None}
BY DEF Drawer, Graphs

LEMMA HookIs ==
  ASSUME NEW k \in Kinds \cup {"none"}
  PROVE  /\ Hook(k) = "update" <=> k \in Updates
         /\ Hook(k) = "create" <=> k \in Creations
         /\ Hook(k) = "delete" <=> k = "delete"
         /\ Hook(k) = "none" <=> k = "none"
BY DEF Hook, Kinds, Updates, Creations

LEMMA FetchedType ==
  ASSUME NEW q \in Queries
  PROVE  /\ Fetched(q) \in Queries /\ Refetched(q) \in Queries
         /\ Fetched(q).data = q.data /\ Refetched(q).data = q.data
BY DEF Fetched, Refetched, Queries

Lists == [data : (SUBSET Flows) \cup {None}, out : {"no", "sent"}, got : {None}, bad : {FALSE}]

LEMMA FetchedList ==
  ASSUME NEW q \in Lists
  PROVE  Fetched(q) \in Lists /\ Refetched(q) \in Lists
BY DEF Fetched, Refetched, Lists

-----------------------------------------------------------------------------
(* Types                                                                   *)

\* The two queries stay queries.
LEMMA InvalidatedType ==
  ASSUME TypeOK, Invalidated
  PROVE  detail' \in [Flows -> Queries] /\ list' \in Lists
BY FetchedType, FetchedList DEF TypeOK, Invalidated, Lists

\* One request is sent, and all others are as they were but for their callbacks.
LEMMA SendType ==
  ASSUME TypeOK, NEW r \in Reqs, NEW k \in Kinds, NEW f \in Flows \cup {None},
         NEW g \in Graphs, NEW m \in Meta, Send(r, k, f, g, m)
  PROVE  /\ req' \in [Reqs -> Requests] /\ req[r].st = "free"
         /\ req'[r] = [st |-> "sent", kind |-> k, flow |-> f, graph |-> g, meta |-> m,
                       shown |-> TRUE]
         /\ \A q \in Reqs \ {r} :
              /\ req'[q].st = req[q].st /\ req'[q].kind = req[q].kind
              /\ req'[q].flow = req[q].flow /\ req'[q].graph = req[q].graph
              /\ req'[q].shown => req[q].shown /\ Hook(req[q].kind) # Hook(k)
<1> DEFINE v == [st |-> "sent", kind |-> k, flow |-> f, graph |-> g, meta |-> m, shown |-> TRUE]
           w(q) == [req[q] EXCEPT !.shown = @ /\ Hook(req[q].kind) # Hook(k)]
<1>1. v \in Requests
  BY DEF Requests
<1>2. ASSUME NEW q \in Reqs
      PROVE  /\ w(q) \in Requests
             /\ w(q).st = req[q].st /\ w(q).kind = req[q].kind
             /\ w(q).flow = req[q].flow /\ w(q).graph = req[q].graph
             /\ w(q).shown => req[q].shown /\ Hook(req[q].kind) # Hook(k)
  <2>1. req[q] \in Requests
    BY DEF TypeOK
  <2>2. (req[q].shown /\ Hook(req[q].kind) # Hook(k)) \in BOOLEAN
    BY Zenon
  <2>3. w(q) = [req[q] EXCEPT !.shown = (req[q].shown /\ Hook(req[q].kind) # Hook(k))]
    BY <2>1 DEF Requests
  <2> QED
    BY <2>1, <2>2, <2>3 DEF Requests
<1>3. req' = [q \in Reqs |-> IF q = r THEN v ELSE w(q)] /\ req[r].st = "free"
  BY DEF Send
<1> HIDE DEF v, w
<1>4. req' \in [Reqs -> Requests] /\ req'[r] = v
  BY <1>1, <1>2, <1>3
<1>5. \A q \in Reqs \ {r} : req'[q] = w(q)
  BY <1>3
<1> QED
  BY <1>2, <1>3, <1>4, <1>5 DEF v

\* Drawing leaves a canvas with a drawer that fits it.
LEMMA DrawType ==
  ASSUME TypeOK, NEW g \in Graphs, NEW s \in Nodes \cup {None}, Draw(g, s)
  PROVE  TypeOK'
<1>1. canvas' \in [graph : Graphs, on : Results]
  <2>1. On(g, canvas.on) \in Results
    BY OnType DEF TypeOK
  <2> QED
    BY <2>1 DEF Draw
<1>2. form' \in Config \cup {None} /\ sel' \in Nodes \cup {None}
  BY DrawerType DEF Draw, Selects, TypeOK
<1>3. acts' \in Stamps
  BY DEF Draw, Act, TypeOK, Stamps
<1>4. typing' \in BOOLEAN /\ unsaved' \in BOOLEAN
  BY Zenon DEF Draw, TypeOK
<1> QED
  BY <1>1, <1>2, <1>3, <1>4 DEF Draw, TypeOK, cache

LEMMA EditType ==
  ASSUME TypeOK,
         \/ Touch \/ HandleDeleteNode
         \/ \E a, b \in Nodes : OnConnect(a, b)
         \/ \E n \in Nodes : HandleAddNode(n)
  PROVE  \E g \in Graphs, s \in Nodes \cup {None} :
           /\ Draw(g, s)
           /\ \A n \in g.nodes : n \in G.nodes \/ results[n] = None
<1>1. G \in Graphs /\ sel \in Nodes \cup {None}
  BY DEF TypeOK, G
<1>2. CASE Touch
  BY <1>1, <1>2 DEF Touch
<1>3. CASE HandleDeleteNode
  <2>1. sel \in Nodes /\ Draw(Without(G, sel), None)
    BY <1>1, <1>3 DEF HandleDeleteNode, Graphs
  <2>2. Without(G, sel) \in Graphs
    BY <1>1, <2>1, WithoutType
  <2>3. Without(G, sel).nodes \subseteq G.nodes
    BY <1>1 DEF Without, Graphs
  <2> QED
    BY <2>1, <2>2, <2>3
<1>4. ASSUME NEW a \in Nodes, NEW b \in Nodes, OnConnect(a, b)
      PROVE  \E g \in Graphs, s \in Nodes \cup {None} :
               Draw(g, s) /\ \A n \in g.nodes : n \in G.nodes \/ results[n] = None
  <2> DEFINE g == [G EXCEPT !.edges = @ \cup {<<a, b>>}]
  <2>1. g \in Graphs /\ g.nodes = G.nodes
    BY <1>1 DEF Graphs
  <2>2. Draw(g, sel)
    BY <1>4 DEF OnConnect
  <2> QED
    BY <1>1, <2>1, <2>2
<1>5. ASSUME NEW m \in Nodes, HandleAddNode(m)
      PROVE  \E g \in Graphs, s \in Nodes \cup {None} :
               Draw(g, s) /\ \A n \in g.nodes : n \in G.nodes \/ results[n] = None
  <2> DEFINE g == [G EXCEPT !.nodes = @ \cup {m}]
  <2>1. g \in Graphs /\ g.nodes = G.nodes \cup {m}
    BY <1>1 DEF Graphs
  <2>2. Draw(g, m) /\ results[m] = None
    BY <1>5 DEF HandleAddNode, Palette
  <2> QED
    BY <2>1, <2>2
<1> QED
  BY <1>2, <1>3, <1>4, <1>5

LEMMA ClickType ==
  ASSUME TypeOK, NEW n \in Nodes \cup {None}, Click(n)
  PROVE  TypeOK'
<1>1. form' \in Config \cup {None} /\ sel' \in Nodes \cup {None}
  BY DrawerType DEF Click, Selects, TypeOK, G
<1> QED
  BY <1>1 DEF Click, TypeOK, cache

\* What the drawer sends.
LEMMA ConfiguredType ==
  ASSUME TypeOK, NEW field \in Fields, HandleUpdateNodeConfig(field)
  PROVE  /\ TypeOK' /\ canvas'.on = canvas.on /\ canvas'.graph.nodes = canvas.graph.nodes
<1>1. acts + 1 \in Stamps /\ acts' \in Stamps
  BY DEF HandleUpdateNodeConfig, Act, TypeOK, Stamps
<1>2. form' \in Config
  <2>1. form \in Config /\ form' = [form EXCEPT ![field] = acts + 1]
    BY DEF HandleUpdateNodeConfig, UpdateConfig, TypeOK
  <2>2. field = "title" \/ field = "body"
    BY DEF Fields
  <2> QED
    BY <1>1, <2>1, <2>2 DEF Config
<1>3. /\ canvas' \in [graph : Graphs, on : Results]
      /\ canvas'.on = canvas.on /\ canvas'.graph.nodes = canvas.graph.nodes
  <2>1. canvas \in [graph : Graphs, on : Results]
    BY DEF TypeOK
  <2>2. canvas.graph.conf \in [Nodes -> Config]
    BY <2>1 DEF Graphs
  <2>3. [canvas.graph.conf EXCEPT ![sel] = form'] \in [Nodes -> Config]
    BY <1>2, <2>2
  <2>4. canvas' = [canvas EXCEPT !.graph.conf[sel] = form']
    BY DEF HandleUpdateNodeConfig, Configured
  <2>5. canvas' = [canvas EXCEPT !.graph = [canvas.graph EXCEPT !.conf =
                                              [canvas.graph.conf EXCEPT ![sel] = form']]]
    BY <2>4
  <2>6. /\ [canvas.graph EXCEPT !.conf = [canvas.graph.conf EXCEPT ![sel] = form']] \in Graphs
        /\ [canvas.graph EXCEPT !.conf = [canvas.graph.conf EXCEPT ![sel] = form']].nodes
             = canvas.graph.nodes
    BY <2>1, <2>3 DEF Graphs
  <2> HIDE <2>4
  <2> QED
    BY <2>1, <2>5, <2>6
<1>4. typing' \in BOOLEAN /\ unsaved' \in BOOLEAN
  BY Zenon DEF HandleUpdateNodeConfig, TypeOK
<1> QED
  BY <1>1, <1>2, <1>3, <1>4 DEF HandleUpdateNodeConfig, TypeOK, cache

\* The requests that are sent, with what they carry.
LEMMA SendsType ==
  ASSUME TypeOK, NEW r \in Reqs, NEW k \in Kinds, NEW f \in Flows \cup {None},
         NEW g \in Graphs, NEW m \in Meta, Send(r, k, f, g, m), Act,
         settings' \in Meta \cup {None}, cloning' \in Graphs \cup {None},
         UNCHANGED <<row, cache, page, drawn, test, results, hist>>
  PROVE  TypeOK'
<1>1. req' \in [Reqs -> Requests]
  BY SendType
<1>2. acts' \in Stamps
  BY DEF Act, TypeOK, Stamps
<1> QED
  BY <1>1, <1>2 DEF TypeOK, cache, drawn, hist

LEMMA SaveType ==
  ASSUME TypeOK, NEW r \in Reqs, HandleSave(r)
  PROVE  TypeOK'
<1>1. page \in Flows \cup {None} /\ G \in Graphs /\ "graph" \in Kinds
  BY DEF TypeOK, G, Kinds, Updates
<1>2. settings' \in Meta \cup {None} /\ cloning' \in Graphs \cup {None}
  BY DEF HandleSave, TypeOK
<1> QED
  BY <1>1, <1>2, Blanks, SendsType DEF HandleSave

LEMMA ToggleType ==
  ASSUME TypeOK, NEW r \in Reqs, NEW f \in Flows, HandleToggleActive(r, f)
  PROVE  TypeOK'
<1>1. PICK on \in BOOLEAN : Send(r, "active", f, Empty, [NoMeta EXCEPT !.active = on])
  BY DEF HandleToggleActive
<1>2. [NoMeta EXCEPT !.active = on] \in Meta
  BY Blanks DEF Meta
<1>3. settings' \in Meta \cup {None} /\ cloning' \in Graphs \cup {None} /\ "active" \in Kinds
  BY DEF HandleToggleActive, TypeOK, Kinds, Updates
<1> QED
  BY <1>1, <1>2, <1>3, Blanks, SendsType DEF HandleToggleActive

LEMMA SettingsType ==
  ASSUME TypeOK, NEW r \in Reqs, SaveSettings(r)
  PROVE  TypeOK' /\ settings' \in Meta
<1>1. acts + 1 \in Stamps
  BY DEF SaveSettings, Act, TypeOK, Stamps
<1>2. settings' \in Meta
  BY <1>1 DEF SaveSettings, SettingsForm, TypeOK, Meta
<1>3. page \in Flows \cup {None} /\ cloning' \in Graphs \cup {None} /\ "settings" \in Kinds
  BY DEF SaveSettings, TypeOK, Kinds, Updates
<1> QED
  BY <1>2, <1>3, Blanks, SendsType DEF SaveSettings

LEMMA TestType ==
  ASSUME TypeOK, NEW r \in Reqs, HandleTestWorkflow(r)
  PROVE  TypeOK'
<1>1. page \in Flows \cup {None} /\ G \in Graphs /\ "graph" \in Kinds
  BY DEF TypeOK, G, Kinds, Updates
<1>2. req' \in [Reqs -> Requests]
  BY <1>1, Blanks, SendType DEF HandleTestWorkflow, TypeOK
<1>3. test' \in Tests
  BY <1>1 DEF HandleTestWorkflow, Tests
<1>4. canvas' \in [graph : Graphs, on : Results] /\ results' \in Results
  BY <1>1, Blanks, BareType DEF HandleTestWorkflow
<1>5. acts' \in Stamps
  BY DEF HandleTestWorkflow, Act, TypeOK, Stamps
<1> QED
  BY <1>2, <1>3, <1>4, <1>5 DEF HandleTestWorkflow, TypeOK, cache, hist

LEMMA CreateType ==
  ASSUME TypeOK, NEW r \in Reqs, NEW g \in {Blank} \cup Templates,
         HandleCreateCustom(r, g) \/ (g \in Templates /\ HandleUseTemplate(r, g))
  PROVE  TypeOK'
<1>1. PICK k \in Creations : Create(r, k, g) /\ cloning' \in Graphs \cup {None}
  BY Blanks DEF HandleCreateCustom, HandleUseTemplate, Creations, TypeOK
<1>2. [active |-> TRUE, about |-> 0] \in Meta /\ g \in Graphs /\ k \in Kinds
  BY Blanks, StampsAreNumbers DEF Meta, Kinds
<1>3. settings' \in Meta \cup {None}
  BY <1>1 DEF Create, TypeOK
<1> QED
  BY <1>1, <1>2, <1>3, SendsType DEF Create

LEMMA DeleteType ==
  ASSUME TypeOK, NEW r \in Reqs, NEW f \in Flows, ConfirmDelete(r, f)
  PROVE  TypeOK'
<1>1. settings' \in Meta \cup {None} /\ cloning' \in Graphs \cup {None} /\ "delete" \in Kinds
  BY DEF ConfirmDelete, TypeOK, Kinds
<1> QED
  BY <1>1, Blanks, SendsType DEF ConfirmDelete

\* What the server stores of a request.
LEMMA PatchedIs ==
  ASSUME TypeOK, NEW r \in Reqs, req[r].kind \in Updates \cup {"delete"},
         row[req[r].flow] \in Rows, NEW at \in BOOLEAN
  PROVE  /\ Patched(req[r], at) \in Rows \cup {None}
         /\ req[r].kind \in Updates => Patched(req[r], at) \in Rows
         /\ req[r].kind = "graph" => Patched(req[r], at).graph = req[r].graph
         /\ req[r].kind \in {"active", "settings"} =>
              Patched(req[r], at).graph = row[req[r].flow].graph
<1>1. req[r].graph \in Graphs /\ req[r].meta \in Meta
  BY DEF TypeOK, Requests
<1>2. CASE req[r].kind = "graph"
  BY <1>1, <1>2 DEF Patched, Rows
<1>3. CASE req[r].kind = "active"
  BY <1>1, <1>3 DEF Patched, Rows, Meta
<1>4. CASE req[r].kind = "settings"
  BY <1>1, <1>4 DEF Patched, Rows
<1>5. CASE req[r].kind = "delete"
  BY <1>5 DEF Patched, Updates
<1> QED
  BY <1>2, <1>3, <1>4, <1>5 DEF Updates

\* A request is served: it creates a row, or changes or deletes that of its
\* workflow.
Stores(r) ==
  /\ req[r].kind \in Updates \cup {"delete"} /\ req[r].flow \in Flows
  /\ row[req[r].flow] \in Rows
  /\ \E at \in BOOLEAN :
       /\ row' = [row EXCEPT ![req[r].flow] = Patched(req[r], at)]
       /\ Patched(req[r], at) \in Rows \cup {None}
  /\ req' = [req EXCEPT ![r].st = "ok"]
Inserts(r) ==
  /\ req[r].kind \in Creations
  /\ \E f \in Flows :
       /\ Unused(f)
       /\ row' = [row EXCEPT ![f] = [graph |-> req[r].graph, meta |-> req[r].meta, at |-> FALSE]]
       /\ req' = [req EXCEPT ![r].st = "ok", ![r].flow = f]

LEMMA ServeIs ==
  ASSUME TypeOK, KindsKnown, NEW r \in Reqs, Serve(r)
  PROVE  req[r].st = "sent" /\ (Stores(r) \/ Inserts(r))
<1>1. /\ req[r].st = "sent" /\ req[r].kind \in Kinds
      /\ req[r].kind \in Updates \cup {"delete"} => req[r].flow \in Flows
  BY DEF Serve, KindsKnown, TypeOK, Requests
<1>2. CASE req[r].kind \in Creations
  BY <1>1, <1>2, HookIs DEF Serve, Inserts
<1>3. CASE req[r].kind \in Updates \cup {"delete"}
  <2>1. req[r].kind \notin Creations
    BY <1>3 DEF Creations, Updates
  <2>2. Hook(req[r].kind) # "create"
    BY <1>1, <2>1, HookIs
  <2>3. row[req[r].flow] \in Rows
    BY <1>1, <1>3, <2>2 DEF Serve, TypeOK
  <2> QED
    BY <1>1, <1>3, <2>2, <2>3, PatchedIs DEF Serve, Stores
<1> QED
  BY <1>1, <1>2, <1>3 DEF Kinds

\* Only the state of one request changes, and a creation learns its id.
LEMMA ReqMoves ==
  ASSUME TypeOK, KindsKnown, NEW r \in Reqs, NEW s \in {"sent", "ok", "failed"},
         NEW f \in Flows \cup {None}, req[r].st # "free",
         f = req[r].flow \/ (f \in Flows /\ req[r].kind \in Creations),
         req' = [req EXCEPT ![r].st = s, ![r].flow = f]
  PROVE  /\ req' \in [Reqs -> Requests] /\ KindsKnown'
         /\ req'[r].st = s /\ req'[r].flow = f
         /\ \A q \in Reqs : /\ req'[q].kind = req[q].kind /\ req'[q].graph = req[q].graph
                            /\ req'[q].shown = req[q].shown
                            /\ q # r => req'[q] = req[q]
<1> DEFINE v == [req[r] EXCEPT !.st = s, !.flow = f]
<1>1. req \in [Reqs -> Requests]
  BY DEF TypeOK
<1>2. /\ v \in Requests /\ v.st = s /\ v.flow = f /\ v.kind = req[r].kind
      /\ v.graph = req[r].graph /\ v.shown = req[r].shown
  BY <1>1 DEF Requests
<1>3. req' = [req EXCEPT ![r] = v]
  BY <1>1
<1> HIDE DEF v
<1>4. req' \in [Reqs -> Requests] /\ req'[r] = v /\ \A q \in Reqs \ {r} : req'[q] = req[q]
  BY <1>1, <1>2, <1>3
<1>5. KindsKnown'
  BY <1>2, <1>4 DEF KindsKnown, Updates, Creations
<1> QED
  BY <1>2, <1>4, <1>5

LEMMA ReqMoved ==
  ASSUME TypeOK, KindsKnown, NEW r \in Reqs, NEW s \in {"sent", "ok", "failed"},
         req[r].st # "free", req' = [req EXCEPT ![r].st = s]
  PROVE  /\ req' \in [Reqs -> Requests] /\ KindsKnown' /\ req'[r].st = s
         /\ \A q \in Reqs : /\ req'[q].kind = req[q].kind /\ req'[q].graph = req[q].graph
                            /\ req'[q].shown = req[q].shown /\ req'[q].flow = req[q].flow
                            /\ q # r => req'[q] = req[q]
<1>1. req \in [Reqs -> Requests] /\ req[r].flow \in Flows \cup {None}
  BY DEF TypeOK, Requests
<1>2. req' = [req EXCEPT ![r].st = s, ![r].flow = req[r].flow]
  <2>1. [req[r] EXCEPT !.st = s] = [req[r] EXCEPT !.st = s, !.flow = req[r].flow]
    BY <1>1 DEF Requests
  <2> QED
    BY <1>1, <2>1
<1> HIDE <1>2
<1>3. /\ req' \in [Reqs -> Requests] /\ KindsKnown'
      /\ req'[r].st = s /\ req'[r].flow = req[r].flow
      /\ \A q \in Reqs : /\ req'[q].kind = req[q].kind /\ req'[q].graph = req[q].graph
                         /\ req'[q].shown = req[q].shown
                         /\ q # r => req'[q] = req[q]
  <2> DEFINE f == req[r].flow
  <2>1. f \in Flows \cup {None} /\ req' = [req EXCEPT ![r].st = s, ![r].flow = f]
    BY <1>1, <1>2
  <2> HIDE DEF f
  <2>2. f = req[r].flow
    BY DEF f
  <2> QED
    BY <2>1, <2>2, ReqMoves
<1> QED
  BY <1>3

LEMMA ServeType ==
  ASSUME TypeOK, KindsKnown, NEW r \in Reqs, Serve(r)
  PROVE  TypeOK' /\ KindsKnown'
<1>0. req[r].st = "sent" /\ (Stores(r) \/ Inserts(r))
  BY ServeIs
<1>1. row' \in [Flows -> Rows \cup {None}] /\ req' \in [Reqs -> Requests] /\ KindsKnown'
  <2>1. CASE Stores(r)
    <3>1. row' \in [Flows -> Rows \cup {None}]
      BY <2>1 DEF Stores, TypeOK
    <3>2. req[r].st # "free" /\ req' = [req EXCEPT ![r].st = "ok"]
      BY <1>0, <2>1 DEF Stores
    <3>3. req' \in [Reqs -> Requests] /\ KindsKnown'
      BY <3>2, ReqMoved
    <3> QED
      BY <3>1, <3>3
  <2>2. CASE Inserts(r)
    <3>1. PICK f \in Flows :
            /\ row' = [row EXCEPT ![f] = [graph |-> req[r].graph, meta |-> req[r].meta,
                                          at |-> FALSE]]
            /\ req' = [req EXCEPT ![r].st = "ok", ![r].flow = f]
      BY <2>2 DEF Inserts
    <3>2. [graph |-> req[r].graph, meta |-> req[r].meta, at |-> FALSE] \in Rows
      BY DEF TypeOK, Requests, Rows
    <3>3. row' \in [Flows -> Rows \cup {None}]
      BY <3>1, <3>2 DEF TypeOK
    <3>4. req[r].kind \in Creations
      BY <2>2 DEF Inserts
    <3> QED
      BY <1>0, <3>1, <3>3, <3>4, ReqMoves
  <2> QED
    BY <1>0, <2>1, <2>2
<1> QED
  BY <1>1 DEF Serve, TypeOK, cache, drawn, hist

LEMMA FailType ==
  ASSUME TypeOK, KindsKnown, NEW r \in Reqs, Fail(r) \/ Lose(r)
  PROVE  TypeOK' /\ KindsKnown'
<1>1. req[r].st # "free" /\ req' = [req EXCEPT ![r].st = "failed"]
  BY DEF Fail, Lose
<1>2. req' \in [Reqs -> Requests] /\ KindsKnown'
  BY <1>1, ReqMoved
<1>3. lost' \in BOOLEAN
  BY Zenon DEF Fail, Lose, TypeOK, hist
<1> QED
  BY <1>2, <1>3 DEF Fail, Lose, TypeOK, cache, drawn, hist

\* A request is over.
LEMMA ReqFreed ==
  ASSUME TypeOK, KindsKnown, NEW r \in Reqs, req' = [req EXCEPT ![r] = NoReq]
  PROVE  /\ req' \in [Reqs -> Requests] /\ KindsKnown'
         /\ req'[r] = NoReq /\ \A q \in Reqs \ {r} : req'[q] = req[q]
<1>1. req' \in [Reqs -> Requests] /\ req'[r] = NoReq /\ \A q \in Reqs \ {r} : req'[q] = req[q]
  BY Blanks DEF TypeOK
<1>2. NoReq.st = "free" /\ NoReq.kind = "none" /\ "none" \notin Updates \cup {"delete"}
  BY DEF NoReq, Updates
<1> QED
  BY <1>1, <1>2 DEF KindsKnown

LEMMA AnswerType ==
  ASSUME TypeOK, KindsKnown, NEW r \in Reqs, Answer(r)
  PROVE  TypeOK' /\ KindsKnown'
<1>1. req' \in [Reqs -> Requests] /\ KindsKnown'
  BY ReqFreed DEF Answer
<1>2. detail' \in [Flows -> Queries] /\ list' \in Lists
  BY InvalidatedType DEF Answer, OnMutated, cache, TypeOK, Lists
<1>3. unsaved' \in BOOLEAN
  BY Zenon DEF Answer, TypeOK
<1>4. cloning' \in Graphs \cup {None}
  BY DEF Answer, TypeOK
<1> QED
  BY <1>1, <1>2, <1>3, <1>4 DEF Answer, TypeOK, Lists, hist

\* A page is mounted.
LEMMA MountType ==
  ASSUME TypeOK, NEW p \in Flows \cup {None}, Mount(p)
  PROVE  /\ page' \in Flows \cup {None} /\ sel' \in Nodes \cup {None}
         /\ canvas' \in [graph : Graphs, on : Results]
         /\ form' \in Config \cup {None} /\ unsaved' \in BOOLEAN
         /\ settings' \in Meta \cup {None} /\ test' \in Tests \cup {None} /\ results' \in Results
         /\ cloning' \in Graphs \cup {None} /\ lost' \in BOOLEAN /\ typing' \in BOOLEAN
<1>1. CASE p = None \/ Shown(p) = None
  <2>1. canvas' = Bare(Empty) /\ settings' = None
    BY <1>1 DEF Mount
  <2> QED
    BY <2>1, Blanks, BareType DEF Mount
<1>2. CASE p # None /\ Shown(p) # None
  <2>1. Shown(p) \in Rows
    BY <1>2 DEF Shown, TypeOK, Queries
  <2>2. canvas' = Bare(Shown(p).graph) /\ settings' \in {Shown(p).meta, None}
    BY <1>2 DEF Mount
  <2>3. canvas' \in [graph : Graphs, on : Results] /\ settings' \in Meta \cup {None}
    BY <2>1, <2>2, BareType DEF Rows
  <2> QED
    BY <2>3, Blanks DEF Mount
<1> QED
  BY <1>1, <1>2

\* A page that is left takes the callbacks of its requests with it.
LEMMA ReqsHidden ==
  ASSUME TypeOK, KindsKnown, NEW S \in SUBSET Reqs,
         req' = [q \in Reqs |-> IF q \in S THEN NoReq ELSE [req[q] EXCEPT !.shown = FALSE]]
  PROVE  req' \in [Reqs -> Requests] /\ KindsKnown'
<1>1. ASSUME NEW q \in Reqs
      PROVE  /\ [req[q] EXCEPT !.shown = FALSE] \in Requests
             /\ [req[q] EXCEPT !.shown = FALSE].st = req[q].st
             /\ [req[q] EXCEPT !.shown = FALSE].kind = req[q].kind
             /\ [req[q] EXCEPT !.shown = FALSE].flow = req[q].flow
  <2>1. req[q] \in Requests
    BY DEF TypeOK
  <2> QED
    BY <2>1 DEF Requests
<1>2. req' \in [Reqs -> Requests]
  BY <1>1, Blanks
<1>3. NoReq.st = "free" /\ NoReq.kind = "none" /\ "none" \notin Updates \cup {"delete"}
  BY DEF NoReq, Updates
<1> QED
  BY <1>1, <1>2, <1>3 DEF KindsKnown

LEMMA CreatedType ==
  ASSUME TypeOK, KindsKnown, NEW r \in Reqs, Created(r)
  PROVE  TypeOK' /\ KindsKnown'
<1>1. req[r].flow \in Flows \cup {None} /\ Mount(req[r].flow)
  BY DEF Created, TypeOK, Requests
<1>2. detail' \in [Flows -> Queries] /\ list' \in Lists
  BY FetchedType, FetchedList DEF Created, TypeOK, Lists
<1>3. req' = [q \in Reqs |-> IF q \in {r} THEN NoReq ELSE [req[q] EXCEPT !.shown = FALSE]]
  BY DEF Created
<1>4. req' \in [Reqs -> Requests] /\ KindsKnown'
  BY <1>3, ReqsHidden
<1> QED
  BY <1>1, <1>2, <1>4, MountType DEF Created, TypeOK, Lists

LEMMA GoType ==
  ASSUME TypeOK, KindsKnown, BackToList \/ \E f \in Flows : OpenCanvas(f)
  PROVE  TypeOK' /\ KindsKnown'
<1>1. PICK p \in Flows \cup {None} : Mount(p)
  BY DEF BackToList, OpenCanvas
<1>2. detail' \in [Flows -> Queries] /\ list' \in Lists
  <2>0. list \in Lists
    BY DEF TypeOK, Lists
  <2>1. CASE BackToList
    BY <2>0, <2>1, FetchedList DEF BackToList, TypeOK
  <2>2. ASSUME NEW f \in Flows, OpenCanvas(f)
        PROVE  detail' \in [Flows -> Queries] /\ list' \in Lists
    BY <2>0, <2>2, FetchedType DEF OpenCanvas, TypeOK
  <2> QED
    BY <2>1, <2>2
<1>3. PICK S \in SUBSET Reqs :
        req' = [q \in Reqs |-> IF q \in S THEN NoReq ELSE [req[q] EXCEPT !.shown = FALSE]]
  <2>1. req' = [q \in Reqs |-> [req[q] EXCEPT !.shown = FALSE]]
    BY DEF BackToList, OpenCanvas
  <2>2. \A q \in Reqs : q \notin {}
    OBVIOUS
  <2> WITNESS {} \in SUBSET Reqs
  <2> QED
    BY <2>1, <2>2
<1>4. req' \in [Reqs -> Requests] /\ KindsKnown'
  BY <1>3, ReqsHidden
<1>5. row' = row /\ acts' \in Stamps
  BY DEF BackToList, OpenCanvas, Act, Stamps, TypeOK
<1> QED
  BY <1>1, <1>2, <1>4, <1>5, MountType DEF TypeOK, Lists

LEMMA RunType ==
  ASSUME TypeOK, TestOnCanvas, TestStep
  PROVE  TypeOK'
<1>1. CASE ServeRun
  <2>1. test \in Tests /\ test.st = "sent"
    BY <1>1 DEF ServeRun, TypeOK
  <2>2. test.meant \in Graphs /\ test.used = None /\ DOMAIN test = {"st", "meant", "used"}
    BY <2>1 DEF Tests
  <2>3. CASE row[page] # None /\ test' = [test EXCEPT !.st = "done", !.used = row[page].graph]
    <3>1. page \in Flows
      BY <1>1 DEF ServeRun, TestOnCanvas, TypeOK
    <3>2. row[page] \in Rows
      BY <2>3, <3>1 DEF TypeOK
    <3>3. row[page].graph \in Graphs
      BY <3>2 DEF Rows
    <3>4. test' \in Tests
      BY <2>1, <2>2, <2>3, <3>3 DEF Tests
    <3> QED
      BY <1>1, <3>4 DEF ServeRun, TypeOK, cache, drawn, hist
  <2>4. CASE test' = [test EXCEPT !.st = "failed"]
    <3>1. test' \in Tests
      BY <2>1, <2>2, <2>4 DEF Tests
    <3> QED
      BY <1>1, <3>1 DEF ServeRun, TypeOK, cache, drawn, hist
  <2> QED
    BY <1>1, <2>3, <2>4 DEF ServeRun
<1>2. CASE RunAnswered
  <2>1. results' \in Results
    BY <1>2 DEF RunAnswered, TypeOK, Results
  <2>2. canvas' \in [graph : Graphs, on : Results]
    BY <1>2, <2>1, OnType DEF RunAnswered, TypeOK
  <2> QED
    BY <1>2, <2>1, <2>2 DEF RunAnswered, TypeOK, cache, hist
<1> QED
  BY <1>1, <1>2 DEF TestStep

\* The detail that arrives.
LEMMA ArrivesType ==
  ASSUME TypeOK, NEW f \in Flows, DetailArrives(f)
  PROVE  TypeOK'
<1> DEFINE got == detail[f].got
           new == got # Shown(f)
<1>1. got \in Rows
  BY DEF TypeOK, Queries, DetailArrives
<1>2. detail' \in [Flows -> Queries]
  <2>1. [NoQuery EXCEPT !.data = got] \in Queries
    BY <1>1 DEF NoQuery, Queries
  <2> QED
    BY <2>1 DEF DetailArrives, TypeOK
<1>3. CASE page = f
  <2>1. got.graph \in Graphs /\ got.meta \in Meta
    BY <1>1 DEF Rows
  <2>2. canvas' \in [graph : Graphs, on : Results] /\ unsaved' \in BOOLEAN
    <3>1. CASE new
      <4>1. canvas' = Loaded(got.graph) /\ unsaved' = FALSE
        BY <1>3, <3>1 DEF DetailArrives, Load
      <4> QED
        BY <2>1, <4>1, OnType DEF Loaded, TypeOK
    <3>2. CASE ~new
      BY <1>3, <3>2 DEF DetailArrives, TypeOK
    <3> QED
      BY <3>1, <3>2
  <2>3. form' \in Config \cup {None}
    BY <1>3, <2>2, DrawerType DEF DetailArrives, TypeOK
  <2>4. settings' \in Meta \cup {None}
    BY <1>3, <2>1 DEF DetailArrives, TypeOK
  <2> QED
    BY <1>2, <2>2, <2>3, <2>4 DEF DetailArrives, TypeOK
<1>4. CASE page # f
  BY <1>2, <1>4 DEF DetailArrives, TypeOK
<1> QED
  BY <1>3, <1>4

\* The fetch that fails, and its error screen.
LEMMA FailsType ==
  ASSUME TypeOK, NEW f \in Flows, FetchFails(f) \/ DetailFails(f)
  PROVE  TypeOK'
<1>1. CASE FetchFails(f)
  <2>1. [detail[f] EXCEPT !.out = "read", !.got = None] \in Queries
    BY DEF TypeOK, Queries
  <2>2. detail' = [detail EXCEPT ![f] = [detail[f] EXCEPT !.out = "read", !.got = None]]
    BY <1>1 DEF FetchFails, TypeOK
  <2>3. detail' \in [Flows -> Queries] /\ acts' \in Stamps
    BY <1>1, <2>1, <2>2 DEF FetchFails, Act, TypeOK, Stamps
  <2> QED
    BY <1>1, <2>3 DEF FetchFails, TypeOK, drawn, hist
<1>2. CASE DetailFails(f)
  <2>1. [NoQuery EXCEPT !.data = Shown(f), !.bad = TRUE] \in Queries
    BY DEF NoQuery, Queries, Shown, TypeOK
  <2>2. detail' \in [Flows -> Queries]
    BY <1>2, <2>1 DEF DetailFails, TypeOK
  <2>3. form' \in Config \cup {None} /\ settings' \in Meta \cup {None}
    BY <1>2 DEF DetailFails, TypeOK
  <2> QED
    BY <1>2, <2>2, <2>3 DEF DetailFails, TypeOK
<1> QED
  BY <1>1, <1>2

LEMMA QueryType ==
  ASSUME TypeOK, QueryStep \/ Focus
  PROVE  TypeOK'
<1>1. CASE ListArrives
  <2>1. list' \in Lists
    BY <1>1 DEF ListArrives, NoQuery, Lists
  <2> QED
    BY <1>1, <2>1 DEF ListArrives, TypeOK, Lists, drawn, hist
<1>2. ASSUME NEW f \in Flows, Read(f)
      PROVE  TypeOK'
  <2>1. [detail[f] EXCEPT !.out = "read", !.got = row[f]] \in Queries
    BY DEF TypeOK, Queries
  <2>2. detail' = [detail EXCEPT ![f] = [detail[f] EXCEPT !.out = "read", !.got = row[f]]]
    BY <1>2 DEF Read, TypeOK
  <2>3. detail' \in [Flows -> Queries]
    BY <2>1, <2>2 DEF TypeOK
  <2> QED
    BY <1>2, <2>3 DEF Read, TypeOK, drawn, hist
<1>3. ASSUME NEW f \in Flows, DetailArrives(f)
      PROVE  TypeOK'
  BY <1>3, ArrivesType
<1>5. ASSUME NEW f \in Flows, DetailFails(f)
      PROVE  TypeOK'
  BY <1>5, FailsType
<1>4. CASE Focus
  <2>1. acts' \in Stamps
    BY <1>4 DEF Focus, Act, TypeOK, Stamps
  <2> QED
    BY <1>4, <2>1, InvalidatedType DEF Focus, TypeOK, Lists, drawn, hist
<1> QED
  BY <1>1, <1>2, <1>3, <1>4, <1>5 DEF QueryStep

\* Sending gives a request its kind and, but for creations, its workflow.
LEMMA SendKnown ==
  ASSUME TypeOK, KindsKnown, NEW r \in Reqs, NEW k \in Kinds, NEW f \in Flows \cup {None},
         NEW g \in Graphs, NEW m \in Meta, Send(r, k, f, g, m),
         k \in Updates \cup {"delete"} => f \in Flows
  PROVE  KindsKnown'
<1>0. /\ req'[r] = [st |-> "sent", kind |-> k, flow |-> f, graph |-> g, meta |-> m,
                    shown |-> TRUE]
      /\ \A q \in Reqs \ {r} : /\ req'[q].st = req[q].st /\ req'[q].kind = req[q].kind
                               /\ req'[q].flow = req[q].flow
  BY SendType
<1>1. k # "none"
  BY DEF Kinds, Updates, Creations
<1>2. ASSUME NEW q \in Reqs
      PROVE  /\ req'[q].st = "free" <=> req'[q].kind = "none"
             /\ req'[q].kind \in Updates \cup {"delete"} => req'[q].flow \in Flows
  <2>1. CASE q = r
    BY <1>0, <1>1, <2>1
  <2>2. CASE q # r
    BY <1>0, <2>2 DEF KindsKnown
  <2> QED
    BY <2>1, <2>2
<1> QED
  BY <1>2 DEF KindsKnown

\* What the user sends.
Sends ==
  \E r \in Reqs : \/ HandleSave(r) \/ SaveSettings(r) \/ HandleTestWorkflow(r)
                  \/ \E g \in {Blank} \cup Templates : HandleCreateCustom(r, g)
                  \/ \E t \in Templates : HandleUseTemplate(r, t)
                  \/ \E f \in Flows : HandleToggleActive(r, f) \/ ConfirmDelete(r, f)

\* It is sent from a page that is loaded, from a card or from a dialog of the
\* list.
SentFrom(k, f, g) ==
  \/ k \in {"graph", "settings"} /\ f = page /\ Ready
  \/ k = "active" /\ f \in Flows /\ (page = None \/ (f = page /\ Ready))
  \/ k = "delete" /\ f \in Flows /\ page = None
  \/ k \in Creations /\ f = None /\ page = None
Sent(r) ==
  \E k \in Kinds, f \in Flows \cup {None}, g \in Graphs, m \in Meta :
    Send(r, k, f, g, m) /\ SentFrom(k, f, g) /\ (k = "graph" => unsaved /\ g = G)

LEMMA SendsAre ==
  ASSUME TypeOK, Sends
  PROVE  /\ TypeOK'
         /\ UNCHANGED <<row, cache, page, unsaved, typing, lost>> /\ G' = G
         /\ \/ canvas' = canvas /\ results' = results
            \/ results' = NoResults /\ canvas' = Bare(G)
         /\ (\E r \in Reqs : Sent(r)) \/ (~unsaved /\ UNCHANGED req)
<1> DEFINE Goal == /\ TypeOK'
                   /\ UNCHANGED <<row, cache, page, unsaved, typing, lost>> /\ G' = G
                   /\ \/ canvas' = canvas /\ results' = results
                      \/ results' = NoResults /\ canvas' = Bare(G)
                   /\ (\E r \in Reqs : Sent(r)) \/ (~unsaved /\ UNCHANGED req)
<1>0. /\ page \in Flows \cup {None} /\ G \in Graphs /\ Empty \in Graphs /\ NoMeta \in Meta
      /\ {"graph", "active", "settings", "delete"} \subseteq Kinds /\ Creations \subseteq Kinds
  BY Blanks DEF TypeOK, G, Kinds, Updates
<1>1. ASSUME NEW r \in Reqs, HandleSave(r) PROVE Goal
  <2>1. Sent(r)
    BY <1>0, <1>1 DEF HandleSave, SaveButton, Sent, SentFrom
  <2> QED
    BY <1>1, <2>1, SaveType DEF HandleSave, drawn, hist, G
<1>2. ASSUME NEW r \in Reqs, SaveSettings(r) PROVE Goal
  <2>1. settings' \in Meta
    BY <1>2, SettingsType
  <2>2. Sent(r)
    BY <1>0, <1>2, <2>1 DEF SaveSettings, Sent, SentFrom
  <2> QED
    BY <1>2, <2>2, SettingsType DEF SaveSettings, drawn, hist, G
<1>3. ASSUME NEW r \in Reqs, HandleTestWorkflow(r) PROVE Goal
  <2>1. unsaved => Sent(r)
    BY <1>0, <1>3 DEF HandleTestWorkflow, TestButton, Sent, SentFrom
  <2>2. ~unsaved => UNCHANGED req
    BY <1>3 DEF HandleTestWorkflow
  <2>3. G' = G
    BY <1>3 DEF HandleTestWorkflow, G, Bare
  <2> QED
    BY <1>3, <2>1, <2>2, <2>3, TestType DEF HandleTestWorkflow, hist, TypeOK
<1>4. ASSUME NEW r \in Reqs, NEW g \in {Blank} \cup Templates,
             HandleCreateCustom(r, g) \/ (g \in Templates /\ HandleUseTemplate(r, g))
      PROVE  Goal
  <2>1. PICK k \in Creations : Create(r, k, g) /\ page = None
    BY <1>4 DEF HandleCreateCustom, HandleUseTemplate, CreateDialog, UseButton, Creations
  <2>2. [active |-> TRUE, about |-> 0] \in Meta /\ g \in Graphs
    BY Blanks, StampsAreNumbers DEF Meta
  <2>3. k # "graph"
    BY DEF Creations
  <2>4. Sent(r)
    BY <1>0, <2>1, <2>2, <2>3 DEF Create, Sent, SentFrom
  <2> QED
    BY <1>4, <2>1, <2>4, CreateType DEF Create, drawn, hist, G
<1>5. ASSUME NEW r \in Reqs, NEW f \in Flows, HandleToggleActive(r, f) PROVE Goal
  <2>1. PICK on \in BOOLEAN : Send(r, "active", f, Empty, [NoMeta EXCEPT !.active = on])
    BY <1>5 DEF HandleToggleActive
  <2>2. [NoMeta EXCEPT !.active = on] \in Meta
    BY Blanks DEF Meta
  <2>3. page = None \/ (f = page /\ Ready)
    BY <1>5 DEF HandleToggleActive, Card, Listed
  <2>4. Sent(r)
    BY <1>0, <2>1, <2>2, <2>3 DEF Sent, SentFrom
  <2> QED
    BY <1>5, <2>4, ToggleType DEF HandleToggleActive, drawn, hist, G
<1>6. ASSUME NEW r \in Reqs, NEW f \in Flows, ConfirmDelete(r, f) PROVE Goal
  <2>1. Sent(r)
    BY <1>0, <1>6 DEF ConfirmDelete, DeleteDialog, Card, Listed, Sent, SentFrom
  <2> QED
    BY <1>6, <2>1, DeleteType DEF ConfirmDelete, drawn, hist, G
<1> HIDE DEF Goal
<1>7. Goal
  BY <1>1, <1>2, <1>3, <1>4, <1>5, <1>6 DEF Sends
<1> QED
  BY <1>7 DEF Goal

TypeInv == TypeOK /\ KindsKnown /\ TestOnCanvas

LEMMA TypeInit == Init => TypeInv
<1> SUFFICES ASSUME Init PROVE TypeInv
  OBVIOUS
<1> USE Blanks DEF Init
<1>1. row \in [Flows -> Rows \cup {None}]
  <2>1. PICK g \in Flows, t \in Templates :
          row = [f \in Flows |-> IF f = g THEN [graph |-> t, meta |-> NoMeta, at |-> FALSE]
                                ELSE None]
    OBVIOUS
  <2>2. [graph |-> t, meta |-> NoMeta, at |-> FALSE] \in Rows
    BY <2>1 DEF Rows
  <2> QED
    BY <2>1, <2>2
<1>2. detail \in [Flows -> Queries] /\ req \in [Reqs -> Requests]
  OBVIOUS
<1>3. list \in Lists
  BY DEF NoQuery, Lists
<1>4. canvas \in [graph : Graphs, on : Results] /\ results \in Results
  BY BareType
<1>5. acts \in Stamps
  BY StampsAreNumbers
<1>6. TypeOK
  BY <1>1, <1>2, <1>3, <1>4, <1>5 DEF TypeOK, Lists
<1>7. KindsKnown
  BY DEF KindsKnown, NoReq, Updates
<1> QED
  BY <1>6, <1>7 DEF TypeInv, TestOnCanvas

LEMMA TypeStep ==
  ASSUME TypeInv, [Next]_vars
  PROVE  TypeInv'
<1> USE DEF TypeInv
<1>1. ASSUME NEW g \in Graphs, NEW s \in Nodes \cup {None}, Draw(g, s)
      PROVE  TypeInv'
  BY <1>1, DrawType DEF Draw, KindsKnown, TestOnCanvas
<1>2. ASSUME NEW n \in Nodes \cup {None}, Click(n)
      PROVE  TypeInv'
  BY <1>2, ClickType DEF Click, KindsKnown, TestOnCanvas
<1>3. ASSUME NEW field \in Fields, HandleUpdateNodeConfig(field)
      PROVE  TypeInv'
  BY <1>3, ConfiguredType DEF HandleUpdateNodeConfig, KindsKnown, TestOnCanvas
<1>4. CASE Sends
  <2>1. TypeOK' /\ page' = page /\ ((\E r \in Reqs : Sent(r)) \/ UNCHANGED req)
    BY <1>4, SendsAre
  <2>2. KindsKnown'
    <3>1. ASSUME NEW r \in Reqs, Sent(r) PROVE KindsKnown'
      <4>1. PICK k \in Kinds, f \in Flows \cup {None}, g \in Graphs, m \in Meta :
              Send(r, k, f, g, m) /\ SentFrom(k, f, g)
        BY <3>1 DEF Sent
      <4>2. k \in Updates \cup {"delete"} => f \in Flows
        BY <4>1 DEF SentFrom, Ready, TypeOK, Updates, Creations
      <4> QED
        BY <4>1, <4>2, SendKnown
    <3> QED
      BY <2>1, <3>1 DEF KindsKnown
  <2>3. TestOnCanvas'
    <3>1. test' = test \/ page # None
      BY <1>4 DEF Sends, HandleSave, SaveSettings, HandleTestWorkflow, TestButton, Ready,
                  HandleCreateCustom, HandleUseTemplate, Create, HandleToggleActive, ConfirmDelete
    <3> QED
      BY <2>1, <3>1 DEF TestOnCanvas
  <2> QED
    BY <2>1, <2>2, <2>3
<1>5. CASE BackToList \/ \E f \in Flows : OpenCanvas(f)
  <2>1. test' = None
    BY <1>5 DEF BackToList, OpenCanvas, Mount
  <2> QED
    BY <1>5, <2>1, GoType DEF TestOnCanvas
<1>6. ASSUME NEW r \in Reqs, ReqStep(r) \/ Lose(r)
      PROVE  TypeInv'
  <2>1. TypeOK' /\ KindsKnown'
    BY <1>6, ServeType, FailType, AnswerType, CreatedType DEF ReqStep
  <2>2. (test' = test /\ page' = page) \/ test' = None
    BY <1>6 DEF ReqStep, Serve, Fail, Lose, Answer, Created, Mount
  <2> QED
    BY <2>1, <2>2 DEF TestOnCanvas
<1>7. CASE TestStep
  BY <1>7, RunType DEF TestStep, ServeRun, RunAnswered, KindsKnown, TestOnCanvas
<1>8. CASE QueryStep \/ Focus
  BY <1>8, QueryType
     DEF QueryStep, ListArrives, Read, DetailArrives, DetailFails, Focus, KindsKnown,
         TestOnCanvas
<1>9. CASE UNCHANGED vars
  BY <1>9 DEF vars, cache, drawn, hist, TypeOK, KindsKnown, TestOnCanvas
<1>10. CASE Touch \/ HandleDeleteNode \/ (\E a, b \in Nodes : OnConnect(a, b))
              \/ \E n \in Nodes : HandleAddNode(n)
  BY <1>1, <1>10, EditType
<1>11. ASSUME NEW f \in Flows, FetchFails(f)
       PROVE  TypeInv'
  BY <1>11, FailsType DEF FetchFails, KindsKnown, TestOnCanvas
<1> QED
  BY <1>2, <1>3, <1>4, <1>5, <1>6, <1>7, <1>8, <1>9, <1>10, <1>11 DEF Next, UserStep, Sends

\* Every variable of the workflow pages, of their cache and of the server's
\* rows has its type, for every set of workflows, nodes and requests.
THEOREM TypeCorrect == Spec => []TypeOK
<1>1. Init => TypeInv
  BY TypeInit
<1>2. TypeInv /\ [Next]_vars => TypeInv'
  BY TypeStep
<1>3. TypeInv => TypeOK
  BY DEF TypeInv
<1> QED
  BY <1>1, <1>2, <1>3, PTL DEF Spec

-----------------------------------------------------------------------------
(* A node shows the result of its latest run                               *)

LEMMA ResultsInit == Init => ResultsAreOfOneRun
BY Blanks DEF Init, ResultsAreOfOneRun, Badge, Output, On, Bare, NoResults, G, Empty

LEMMA ResultsStep ==
  ASSUME TypeInv, ResultsAreOfOneRun, [Next]_vars
  PROVE  ResultsAreOfOneRun'
<1> USE DEF TypeInv
<1>0. /\ canvas \in [graph : Graphs, on : Results] /\ results \in Results
      /\ \A n \in Nodes : canvas.on[n] = IF n \in G.nodes THEN results[n] ELSE None
  BY DEF TypeOK, ResultsAreOfOneRun, Badge, Output, On
<1>1. ASSUME NEW g \in Graphs, NEW s \in Nodes \cup {None}, Draw(g, s),
             \A n \in g.nodes : n \in G.nodes \/ results[n] = None
      PROVE  ResultsAreOfOneRun'
  <2>1. canvas'.graph = g /\ canvas'.on = On(g, canvas.on) /\ results' = results
    BY <1>1 DEF Draw
  <2>2. ASSUME NEW n \in Nodes
        PROVE  On(g, canvas.on)[n] = IF n \in g.nodes THEN results[n] ELSE None
    BY <1>0, <1>1 DEF On
  <2> QED
    BY <2>1, <2>2 DEF ResultsAreOfOneRun, Badge, Output, On, G
<1>2. CASE UNCHANGED <<canvas, results>>
  BY <1>2 DEF ResultsAreOfOneRun, Badge, Output, On, G
<1>3. ASSUME NEW field \in Fields, HandleUpdateNodeConfig(field)
      PROVE  ResultsAreOfOneRun'
  <2>1. /\ canvas'.on = canvas.on /\ canvas'.graph.nodes = canvas.graph.nodes
        /\ results' = results
    BY <1>3, ConfiguredType DEF HandleUpdateNodeConfig
  <2> QED
    BY <1>0, <2>1 DEF ResultsAreOfOneRun, Badge, Output, On, G
<1>4. ASSUME NEW g, canvas' = Bare(g), results' = NoResults
      PROVE  ResultsAreOfOneRun'
  BY <1>4 DEF ResultsAreOfOneRun, Badge, Output, On, Bare, NoResults
<1>5. ASSUME NEW g, canvas' = Loaded(g), results' = results
      PROVE  ResultsAreOfOneRun'
  BY <1>5 DEF ResultsAreOfOneRun, Badge, Output, On, Loaded, G
<1>6. CASE Sends
  BY <1>2, <1>4, <1>6, SendsAre
<1>7. ASSUME NEW p, Mount(p) PROVE ResultsAreOfOneRun'
  <2>1. results' = NoResults /\ \E g : canvas' = Bare(g)
    BY <1>7 DEF Mount
  <2> QED
    BY <1>4, <2>1
<1>8. ASSUME NEW r \in Reqs, ReqStep(r) \/ Lose(r)
      PROVE  ResultsAreOfOneRun'
  BY <1>2, <1>7, <1>8 DEF ReqStep, Serve, Fail, Lose, Answer, Created, drawn
<1>9. CASE RunAnswered
  <2>1. CASE UNCHANGED <<results, canvas>>
    BY <1>2, <2>1
  <2>2. CASE canvas' = [canvas EXCEPT !.on = On(G, results')]
    <3>1. canvas'.graph = canvas.graph /\ canvas'.on = On(G, results')
      BY <1>0, <2>2
    <3> QED
      BY <3>1 DEF ResultsAreOfOneRun, Badge, Output, On, G
  <2> QED
    BY <1>9, <2>1, <2>2 DEF RunAnswered
<1>10. ASSUME NEW f \in Flows, DetailArrives(f)
       PROVE  ResultsAreOfOneRun'
  BY <1>2, <1>5, <1>10 DEF DetailArrives, Load, drawn
<1>11. CASE Touch \/ HandleDeleteNode \/ (\E a, b \in Nodes : OnConnect(a, b))
              \/ \E n \in Nodes : HandleAddNode(n)
  BY <1>1, <1>11, EditType
<1>12. CASE BackToList \/ \E f \in Flows : OpenCanvas(f)
  BY <1>7, <1>12 DEF BackToList, OpenCanvas
<1>13. CASE \/ ServeRun \/ ListArrives \/ Focus \/ UNCHANGED vars
            \/ \E f \in Flows : Read(f) \/ FetchFails(f) \/ DetailFails(f)
            \/ \E n \in Nodes \cup {None} : Click(n)
  BY <1>2, <1>13
     DEF ServeRun, ListArrives, Focus, Read, FetchFails, DetailFails, Click, vars, drawn
<1> QED
  BY <1>3, <1>6, <1>8, <1>9, <1>10, <1>11, <1>12, <1>13
     DEF Next, UserStep, QueryStep, TestStep, Sends

-----------------------------------------------------------------------------
(* The page and its row                                                    *)

\* What the page shows, what is coming and what is out: four invariants about
\* the page and its row.
PageInv == RequestsFit /\ FetchComes /\ SavesAgree /\ DrawnIsShown

\* Nothing is promised of a page after an answer was lost.
LEMMA LostIsFree == ASSUME lost' = TRUE PROVE PageInv'
BY DEF PageInv, RequestsFit, FetchComes, SavesAgree, DrawnIsShown

LEMMA PageInit == Init => PageInv
<1> SUFFICES ASSUME Init PROVE PageInv
  OBVIOUS
<1>1. page = None /\ \A r \in Reqs : req[r].kind = "none"
  BY DEF Init, NoReq
<1> QED
  BY <1>1 DEF PageInv, RequestsFit, FetchComes, SavesAgree, DrawnIsShown, SavesGraph, Updates,
              HasGraph

\* A step that leaves the row, the queries and the requests alone: nothing is
\* drawn, or what is drawn is unsaved.
LEMMA StillPage ==
  ASSUME PageInv, UNCHANGED <<row, detail, req, page, lost>>,
         \/ UNCHANGED <<unsaved, typing>> /\ G' = G
         \/ unsaved' = TRUE /\ typing' = (typing \/ Saving)
  PROVE  PageInv'
<1> USE DEF PageInv
<1>1. RequestsFit' /\ FetchComes'
  BY DEF RequestsFit, FetchComes, Shown
<1>2. CASE UNCHANGED <<unsaved, typing>> /\ G' = G
  BY <1>1, <1>2 DEF SavesAgree, DrawnIsShown, GraphComes, SavesGraph, HasGraph, Shown
<1>3. CASE unsaved' = TRUE /\ typing' = (typing \/ Saving)
  <2>1. SavesAgree'
    BY <1>3 DEF SavesAgree, SavesGraph, Saving
  <2>2. DrawnIsShown'
    BY <1>3 DEF DrawnIsShown
  <2> QED
    BY <1>1, <2>1, <2>2
<1> QED
  BY <1>2, <1>3

\* What is sent fits the page, and a save carries the canvas.
LEMMA SentPage ==
  ASSUME TypeInv, PageInv, NEW r \in Reqs, Sent(r),
         UNCHANGED <<row, detail, page, unsaved, typing, lost>>, G' = G
  PROVE  PageInv'
<1> USE DEF TypeInv, PageInv
<1>1. PICK k \in Kinds, f \in Flows \cup {None}, g \in Graphs, m \in Meta :
        Send(r, k, f, g, m) /\ SentFrom(k, f, g) /\ (k = "graph" => unsaved /\ g = G)
  BY DEF Sent
<1>2. /\ req[r].st = "free"
      /\ req'[r].st = "sent" /\ req'[r].kind = k /\ req'[r].flow = f /\ req'[r].graph = g
      /\ \A q \in Reqs \ {r} :
           /\ req'[q].st = req[q].st /\ req'[q].kind = req[q].kind
           /\ req'[q].flow = req[q].flow /\ req'[q].graph = req[q].graph
  <2>1. /\ req[r].st = "free"
        /\ req'[r] = [st |-> "sent", kind |-> k, flow |-> f, graph |-> g, meta |-> m,
                      shown |-> TRUE]
        /\ \A q \in Reqs \ {r} :
             /\ req'[q].st = req[q].st /\ req'[q].kind = req[q].kind
             /\ req'[q].flow = req[q].flow /\ req'[q].graph = req[q].graph
    BY <1>1, SendType
  <2> QED
    BY <2>1
<1>3. RequestsFit'
  <2>1. /\ k \in {"graph", "settings"} => page # None
        /\ k = "delete" => page = None
        /\ k \in Updates /\ page # None => f = page /\ Shown(page) # None
    BY <1>1 DEF SentFrom, Ready, Updates, Creations
  <2> QED
    BY <1>2, <2>1 DEF RequestsFit, Shown
<1>4. FetchComes'
  <2>1. ASSUME NEW q \in Reqs, req[q].st = "ok", req[q].kind \in Updates
        PROVE  req'[q].st = "ok" /\ req'[q].kind \in Updates
    BY <1>2, <2>1
  <2> QED
    BY <2>1 DEF FetchComes, Shown
<1>5. SavesAgree'
  <2>1. CASE k = "graph"
    <3>1. ASSUME ~lost, ~typing, NEW q \in Reqs, req'[q].kind = "graph"
          PROVE  /\ req'[q].graph = G
                 /\ req'[q].st = "ok" => row[page] # None /\ row[page].graph = req'[q].graph
      <4>1. CASE q = r
        BY <1>1, <1>2, <2>1, <4>1
      <4>2. CASE q # r
        BY <1>1, <1>2, <2>1, <3>1, <4>2 DEF SavesAgree, SavesGraph
      <4> QED
        BY <4>1, <4>2
    <3> QED
      BY <3>1 DEF SavesAgree, SavesGraph
  <2>2. CASE k # "graph"
    <3>1. \A q \in Reqs : SavesGraph(q)' => q # r /\ SavesGraph(q)
      BY <1>2, <2>2 DEF SavesGraph
    <3> QED
      BY <1>2, <3>1 DEF SavesAgree
  <2> QED
    BY <2>1, <2>2
<1>6. DrawnIsShown'
  <2>1. ~unsaved => \A q \in Reqs : SavesGraph(q)' => q # r /\ SavesGraph(q)
    BY <1>1, <1>2 DEF SavesGraph
  <2> QED
    BY <1>2, <2>1 DEF DrawnIsShown, GraphComes, HasGraph, Shown
<1> QED
  BY <1>3, <1>4, <1>5, <1>6

\* A page that is mounted with nothing out reads its row.
LEMMA MountPage ==
  ASSUME TypeInv, NEW p \in Flows \cup {None}, Mount(p),
         p # None => detail' = [detail EXCEPT ![p] = Fetched(@)],
         \A q \in Reqs : req'[q].kind \in {req[q].kind, "none"}
  PROVE  PageInv'
<1> USE DEF TypeInv
<1>1. CASE lost'
  BY <1>1 DEF PageInv, RequestsFit, FetchComes, SavesAgree, DrawnIsShown
<1>2. CASE ~lost'
  <2>1. /\ \A f \in Flows : detail[f].out = "no"
        /\ \A q \in Reqs : Hook(req[q].kind) \in {"none", "create"}
    BY <1>2 DEF Mount
  <2>2. \A q \in Reqs : req[q].kind \in Creations \cup {"none"}
    BY <2>1, HookIs DEF TypeOK, Requests
  <2>3. \A q \in Reqs : req'[q].kind \notin Updates \cup {"delete"}
    BY <2>2 DEF Updates, Creations
  <2>4. RequestsFit' /\ SavesAgree'
    BY <2>3 DEF RequestsFit, SavesAgree, SavesGraph, Updates
  <2>5. CASE p = None
    <3>1. page' = None
      BY <2>5 DEF Mount
    <3> QED
      BY <2>4, <3>1 DEF PageInv, FetchComes, DrawnIsShown, HasGraph
  <2>6. CASE p # None
    <3>1. detail'[p] = Fetched(detail[p]) /\ detail[p].out = "no"
      BY <2>1, <2>6 DEF TypeOK
    <3>2. detail'[p].out = "sent" /\ detail'[p].data = detail[p].data
      BY <3>1 DEF Fetched, TypeOK, Queries
    <3>3. page' = p
      BY DEF Mount
    <3>4. Shown(p) # None => canvas'.graph = Shown(p).graph
      BY <2>6 DEF Mount, Bare
    <3> QED
      BY <2>4, <3>2, <3>3, <3>4 DEF PageInv, FetchComes, DrawnIsShown, HasGraph, Shown, G
  <2> QED
    BY <2>5, <2>6
<1> QED
  BY <1>1, <1>2

\* As long as no answer was lost, serving a request changes the row of the open
\* page only by an update that was sent from it.
LEMMA ServedRow ==
  ASSUME TypeInv, RequestsFit, NEW r \in Reqs, Serve(r), ~lost, page # None
  PROVE  \/ row'[page] = row[page]
         \/ /\ req[r].kind \in Updates /\ row[page] # None /\ row'[page] # None
            /\ req[r].kind = "graph" => row'[page].graph = req[r].graph
            /\ req[r].kind # "graph" => row'[page].graph = row[page].graph
<1> USE DEF TypeInv
<1>1. page \in Flows
  BY DEF TypeOK
<1>2. CASE Stores(r)
  <2>1. req[r].kind # "delete"
    BY DEF RequestsFit
  <2>2. req[r].kind \in Updates /\ req[r].flow = page /\ row[page] \in Rows
    BY <1>2, <2>1 DEF Stores, RequestsFit
  <2>3. PICK at \in BOOLEAN : row'[page] = Patched(req[r], at)
    BY <1>1, <1>2, <2>2 DEF Stores, TypeOK
  <2> QED
    BY <2>2, <2>3, PatchedIs DEF Updates
<1>3. CASE Inserts(r)
  BY <1>1, <1>3 DEF Inserts, Unused, TypeOK
<1> QED
  BY <1>2, <1>3, ServeIs

LEMMA ServePage ==
  ASSUME TypeInv, PageInv, NEW r \in Reqs, Serve(r)
  PROVE  PageInv'
<1> USE DEF TypeInv, PageInv
<1>1. UNCHANGED <<detail, page, canvas, unsaved, lost, typing>>
  BY DEF Serve, cache, drawn, hist
<1>2. /\ req[r].st = "sent" /\ req'[r].st = "ok"
      /\ req[r].kind \notin Creations => req'[r].flow = req[r].flow
      /\ \A q \in Reqs : /\ req'[q].kind = req[q].kind /\ req'[q].graph = req[q].graph
                         /\ q # r => req'[q] = req[q]
  <2>1. CASE Stores(r)
    <3>1. req' = [req EXCEPT ![r].st = "ok"] /\ req[r].st = "sent"
      BY <2>1, ServeIs DEF Stores
    <3> QED
      BY <3>1, ReqMoved
  <2>2. CASE Inserts(r)
    <3>1. PICK f \in Flows : req' = [req EXCEPT ![r].st = "ok", ![r].flow = f]
      BY <2>2 DEF Inserts
    <3>2. req[r].st = "sent" /\ req[r].kind \in Creations
      BY <2>2, ServeIs DEF Inserts
    <3> QED
      BY <3>1, <3>2, ReqMoves
  <2> QED
    BY <2>1, <2>2, ServeIs
<1>3. RequestsFit'
  <2>1. \A q \in Reqs : req[q].kind \in Updates => req'[q].flow = req[q].flow
    BY <1>2 DEF Updates, Creations
  <2> QED
    BY <1>1, <1>2, <2>1 DEF RequestsFit, Shown
<1>4. FetchComes'
  <2> SUFFICES ASSUME page # None, ~lost,
                      ~ \E q \in Reqs : req'[q].st = "ok" /\ req'[q].kind \in Updates
               PROVE  \/ detail[page].out = "sent"
                      \/ detail[page].out = "read" /\ detail[page].got \in {row'[page], None}
                      \/ /\ detail[page].out = "no"
                         /\ Shown(page) = row'[page] \/ detail[page].bad
    BY <1>1 DEF FetchComes, Shown
  <2>1. row'[page] = row[page]
    BY <1>2, ServedRow
  <2>2. ~ \E q \in Reqs : req[q].st = "ok" /\ req[q].kind \in Updates
    BY <1>2
  <2> QED
    BY <2>1, <2>2 DEF FetchComes
<1>5. SavesAgree'
  <2> SUFFICES ASSUME ~lost, ~typing, NEW q \in Reqs, req[q].kind = "graph"
               PROVE  /\ \A p \in Reqs : req[p].kind = "graph" => req[p].graph = req[q].graph
                      /\ unsaved => req[q].graph = G
                      /\ req'[q].st = "ok" => row'[page] # None /\ row'[page].graph = req[q].graph
    BY <1>1, <1>2 DEF SavesAgree, SavesGraph, G
  <2>1. /\ \A p \in Reqs : req[p].kind = "graph" => req[p].graph = req[q].graph
        /\ unsaved => req[q].graph = G
        /\ req[q].st = "ok" => row[page] # None /\ row[page].graph = req[q].graph
    BY DEF SavesAgree, SavesGraph
  <2>2. page # None
    BY DEF RequestsFit
  <2>3. CASE q = r
    <3>1. req[r].kind \notin Creations /\ req[r].kind \in Updates \cup {"delete"}
      BY <2>3 DEF Creations, Updates
    <3>2. Stores(r)
      BY <3>1, ServeIs DEF Inserts
    <3>3. req[r].flow = page /\ page \in Flows /\ row[page] \in Rows
      BY <2>2, <2>3, <3>1, <3>2 DEF RequestsFit, Stores, Updates
    <3>4. PICK at \in BOOLEAN : row'[page] = Patched(req[r], at)
      BY <3>2, <3>3 DEF Stores, TypeOK
    <3>5. row'[page] \in Rows /\ row'[page].graph = req[r].graph
      BY <2>3, <3>1, <3>3, <3>4, PatchedIs DEF Updates
    <3> QED
      BY <2>1, <2>3, <3>5
  <2>4. CASE q # r
    BY <1>2, <2>1, <2>2, <2>4, ServedRow
  <2> QED
    BY <2>3, <2>4
<1>6. DrawnIsShown'
  <2> SUFFICES ASSUME HasGraph, ~lost, GraphComes
               PROVE  GraphComes'
    BY <1>1 DEF DrawnIsShown, HasGraph, Shown, G
  <2>1. row'[page] # None /\ row'[page].graph = G
    BY ServedRow DEF GraphComes, HasGraph, SavesGraph
  <2> QED
    BY <1>1, <1>2, <2>1 DEF GraphComes, SavesGraph, G
<1> QED
  BY <1>3, <1>4, <1>5, <1>6

LEMMA FailPage ==
  ASSUME TypeInv, PageInv, NEW r \in Reqs, Fail(r) \/ Lose(r)
  PROVE  PageInv'
<1> USE DEF TypeInv, PageInv
<1>1. CASE Lose(r)
  BY <1>1, LostIsFree DEF Lose
<1>2. CASE Fail(r)
  <2>1. UNCHANGED <<row, detail, page, canvas, unsaved, lost, typing>>
    BY <1>2 DEF Fail, cache, drawn, hist
  <2>2. /\ req[r].st = "sent" /\ req'[r].st = "failed"
        /\ \A q \in Reqs : /\ req'[q].kind = req[q].kind /\ req'[q].graph = req[q].graph
                           /\ req'[q].flow = req[q].flow
                           /\ q # r => req'[q] = req[q]
    BY <1>2, ReqMoved DEF Fail
  <2>3. RequestsFit'
    BY <2>1, <2>2 DEF RequestsFit, Shown
  <2>4. FetchComes'
    BY <2>1, <2>2 DEF FetchComes, Shown
  <2>5. SavesAgree'
    <3>1. \A q \in Reqs : req'[q].st = "ok" => req[q].st = "ok"
      BY <2>2
    <3> QED
      BY <2>1, <2>2, <3>1 DEF SavesAgree, SavesGraph, G
  <2>6. DrawnIsShown'
    BY <2>1, <2>2 DEF DrawnIsShown, GraphComes, SavesGraph, HasGraph, Shown, G
  <2> QED
    BY <2>3, <2>4, <2>5, <2>6
<1> QED
  BY <1>1, <1>2

\* An invalidated page that shows its row reads it again, whatever it was
\* reading; one whose first fetch is out waits for that.
LEMMA InvalidatedPage ==
  ASSUME TypeInv, Invalidated, page # None
  PROVE  /\ detail'[page].data = detail[page].data
         /\ Shown(page) # None => detail'[page].out = "sent"
         /\ Shown(page) = None => detail'[page].out = "sent" \/ detail'[page] = detail[page]
         /\ detail[page].out # "read" => detail'[page].out = "sent"
<1>1. page \in Flows /\ detail[page] \in Queries
  BY DEF TypeInv, TypeOK
<1>2. detail'[page] = Refetched(detail[page])
  BY <1>1 DEF Invalidated
<1> QED
  BY <1>1, <1>2 DEF Refetched, Fetched, Queries, Shown

LEMMA InvalidatedKeeps ==
  ASSUME TypeInv, RequestsFit, FetchComes, Invalidated, UNCHANGED <<row, page, lost>>
  PROVE  FetchComes'
<1> SUFFICES ASSUME page # None, ~lost
             PROVE  detail'[page].out = "sent"
                    \/ (detail'[page].out = "read" /\ detail'[page].got \in {row[page], None})
  BY DEF FetchComes, Shown
<1>1. CASE Shown(page) # None
  BY <1>1, InvalidatedPage
<1>2. CASE Shown(page) = None
  <2>1. \A q \in Reqs : req[q].kind \notin Updates
    BY <1>2 DEF RequestsFit
  <2> QED
    BY <1>2, <2>1, InvalidatedPage DEF FetchComes
<1> QED
  BY <1>1, <1>2

\* An answer: the page reads its row again, and the canvas whose save was
\* answered is the stored graph.
LEMMA AnswerPage ==
  ASSUME TypeInv, PageInv, NEW r \in Reqs, Answer(r)
  PROVE  PageInv'
<1> USE DEF TypeInv, PageInv
<1>1. UNCHANGED <<row, page, canvas, lost, typing>>
  BY DEF Answer, hist
<1>2. /\ req'[r].kind = "none" /\ req'[r].st = "free"
      /\ \A q \in Reqs \ {r} : req'[q] = req[q]
  BY ReqFreed DEF Answer, NoReq
<1>3. page # None => detail'[page].data = detail[page].data
  BY InvalidatedPage DEF Answer, OnMutated, cache
<1>4. unsaved' => unsaved
  BY DEF Answer
<1>5. RequestsFit'
  BY <1>1, <1>2, <1>3 DEF RequestsFit, Shown, Updates
<1>6. FetchComes'
  <2>1. CASE req[r].st = "ok"
    BY <1>1, <2>1, InvalidatedKeeps DEF Answer, OnMutated
  <2>2. CASE req[r].st # "ok"
    BY <1>1, <1>2, <2>2 DEF Answer, FetchComes, Shown, cache
  <2> QED
    BY <2>1, <2>2
<1>7. SavesAgree'
  <2>1. \A q \in Reqs : SavesGraph(q)' => q # r /\ SavesGraph(q)
    BY <1>2 DEF SavesGraph
  <2> QED
    BY <1>1, <1>2, <1>4, <2>1 DEF SavesAgree, G
<1>8. DrawnIsShown'
  <2> SUFFICES ASSUME HasGraph, ~lost, ~typing, ~unsaved', G # Shown(page).graph
               PROVE  GraphComes'
    BY <1>1, <1>3 DEF DrawnIsShown, HasGraph, Shown, G
  <2>1. page # None /\ Shown(page) # None
    BY DEF HasGraph
  <2>2. \A q \in Reqs : SavesGraph(q)' => SavesGraph(q) /\ req'[q] = req[q]
    BY <1>2 DEF SavesGraph
  <2>3. CASE ~unsaved
    <3>1. GraphComes
      BY <2>3 DEF DrawnIsShown
    <3>2. req[r].st = "ok" => detail'[page].out = "sent"
      BY <2>1, InvalidatedPage DEF Answer, OnMutated
    <3>3. req[r].st # "ok" => detail' = detail
      BY DEF Answer, cache
    <3> QED
      BY <1>1, <2>2, <3>1, <3>2, <3>3 DEF GraphComes, G
  <2>4. CASE unsaved
    <3>1. req[r].st = "ok" /\ SavesGraph(r)
      BY <2>4 DEF Answer, SavesGraph
    <3>2. /\ row[page] # None /\ row[page].graph = G
          /\ \A q \in Reqs : SavesGraph(q) => req[q].graph = G
      BY <2>4, <3>1 DEF SavesAgree
    <3>3. detail'[page].out = "sent"
      BY <2>1, <3>1, InvalidatedPage DEF Answer, OnMutated
    <3> QED
      BY <1>1, <2>2, <3>2, <3>3 DEF GraphComes, G
  <2> QED
    BY <2>3, <2>4 DEF TypeOK
<1> QED
  BY <1>5, <1>6, <1>7, <1>8

LEMMA FocusPage ==
  ASSUME TypeInv, PageInv, Focus
  PROVE  PageInv'
<1> USE DEF TypeInv, PageInv
<1>1. UNCHANGED <<row, req, page, canvas, unsaved, lost, typing>> /\ Invalidated
  BY DEF Focus, drawn, hist
<1>2. page # None => detail'[page].data = detail[page].data
  BY <1>1, InvalidatedPage
<1>3. RequestsFit'
  BY <1>1, <1>2 DEF RequestsFit, Shown
<1>4. FetchComes'
  BY <1>1, InvalidatedKeeps
<1>5. SavesAgree'
  BY <1>1 DEF SavesAgree, SavesGraph, G
<1>6. DrawnIsShown'
  <2>1. HasGraph /\ GraphComes => GraphComes'
    BY <1>1, InvalidatedPage DEF HasGraph, GraphComes, SavesGraph, G
  <2> QED
    BY <1>1, <1>2, <2>1 DEF DrawnIsShown, HasGraph, Shown, G
<1> QED
  BY <1>3, <1>4, <1>5, <1>6

\* The server answers a fetch with its row, or the fetch fails.
LEMMA ReadPage ==
  ASSUME TypeInv, PageInv, NEW f \in Flows, Read(f) \/ FetchFails(f)
  PROVE  PageInv'
<1> USE DEF TypeInv, PageInv
<1>1. UNCHANGED <<row, req, page, canvas, unsaved, lost, typing>>
  BY DEF Read, FetchFails, drawn, hist
<1>2. /\ \A g \in Flows : detail'[g].data = detail[g].data
      /\ \A g \in Flows \ {f} : detail'[g] = detail[g]
      /\ detail'[f].out = "read" /\ detail'[f].got \in {row[f], None}
  BY DEF Read, FetchFails, TypeOK, Queries
<1>3. page \in Flows \cup {None}
  BY DEF TypeOK
<1>4. RequestsFit'
  BY <1>1, <1>2, <1>3 DEF RequestsFit, Shown
<1>5. FetchComes'
  BY <1>1, <1>2, <1>3 DEF FetchComes, Shown
<1>6. SavesAgree'
  BY <1>1 DEF SavesAgree, SavesGraph, G
<1>7. DrawnIsShown'
  <2>1. HasGraph /\ GraphComes => GraphComes'
    BY <1>1, <1>2, <1>3 DEF HasGraph, GraphComes, SavesGraph, G
  <2> QED
    BY <1>1, <1>2, <1>3, <2>1 DEF DrawnIsShown, HasGraph, Shown, G
<1> QED
  BY <1>4, <1>5, <1>6, <1>7

\* What another page reads leaves this one alone.
LEMMA OthersPage ==
  ASSUME TypeInv, PageInv, NEW f \in Flows, page # f,
         \A g \in Flows \ {f} : detail'[g] = detail[g],
         UNCHANGED <<row, req, page, canvas, unsaved, lost, typing>>
  PROVE  PageInv'
<1> USE DEF TypeInv, PageInv
<1>1. page # None => detail'[page] = detail[page]
  BY DEF TypeOK
<1>2. RequestsFit' /\ FetchComes' /\ SavesAgree'
  BY <1>1 DEF RequestsFit, FetchComes, SavesAgree, SavesGraph, Shown, G
<1>3. DrawnIsShown'
  BY <1>1 DEF DrawnIsShown, GraphComes, SavesGraph, HasGraph, Shown, G
<1> QED
  BY <1>2, <1>3

\* What the page reads is drawn, unless it is what the page shows.
LEMMA ArrivesPage ==
  ASSUME TypeInv, PageInv, NEW f \in Flows, DetailArrives(f)
  PROVE  PageInv'
<1> USE DEF TypeInv, PageInv
<1> DEFINE got == detail[f].got
           new == got # Shown(f)
<1>1. UNCHANGED <<row, req, page, lost, typing>> /\ detail[f].out = "read" /\ got # None
  BY DEF DetailArrives
<1>2. /\ \A g \in Flows \ {f} : detail'[g] = detail[g]
      /\ detail'[f].out = "no" /\ detail'[f].data = got
  BY DEF DetailArrives, NoQuery, TypeOK
<1>3. CASE page = f
  <2>1. RequestsFit'
    BY <1>1, <1>2, <1>3 DEF RequestsFit, Shown
  <2>2. FetchComes'
    BY <1>1, <1>2, <1>3 DEF FetchComes, Shown
  <2>3. CASE new
    <3>1. canvas'.graph = got.graph /\ unsaved' = FALSE
      BY <1>3, <2>3 DEF DetailArrives, Load, Loaded
    <3>2. SavesAgree'
      BY <1>1, <3>1 DEF SavesAgree, SavesGraph
    <3>3. DrawnIsShown'
      BY <1>1, <1>2, <1>3, <2>3, <3>1 DEF DrawnIsShown, Shown, G
    <3> QED
      BY <2>1, <2>2, <3>2, <3>3
  <2>4. CASE ~new
    <3>1. UNCHANGED <<canvas, unsaved>>
      BY <1>3, <2>4 DEF DetailArrives
    <3>2. SavesAgree'
      BY <1>1, <3>1 DEF SavesAgree, SavesGraph, G
    <3>3. GraphComes => G = Shown(page).graph
      BY <1>1, <1>3, <2>4 DEF GraphComes
    <3>4. DrawnIsShown'
      BY <1>1, <1>2, <1>3, <2>4, <3>1, <3>3 DEF DrawnIsShown, HasGraph, Shown, G
    <3> QED
      BY <2>1, <2>2, <3>2, <3>4
  <2> QED
    BY <2>3, <2>4
<1>4. CASE page # f
  <2>1. UNCHANGED <<canvas, unsaved>>
    BY <1>4 DEF DetailArrives
  <2> QED
    BY <1>1, <1>2, <1>4, <2>1, OthersPage
<1> QED
  BY <1>3, <1>4

\* An error screen keeps what was drawn.
LEMMA FailsPage ==
  ASSUME TypeInv, PageInv, NEW f \in Flows, DetailFails(f)
  PROVE  PageInv'
<1> USE DEF TypeInv, PageInv
<1>1. /\ UNCHANGED <<row, req, page, canvas, unsaved, lost, typing>>
      /\ detail[f].out = "read" /\ detail[f].got = None
  BY DEF DetailFails
<1>2. /\ \A g \in Flows \ {f} : detail'[g] = detail[g]
      /\ detail'[f].out = "no" /\ detail'[f].data = Shown(f) /\ detail'[f].bad = TRUE
  BY DEF DetailFails, NoQuery, TypeOK
<1>3. CASE page = f
  <2>1. RequestsFit' /\ FetchComes'
    BY <1>1, <1>2, <1>3 DEF RequestsFit, FetchComes, Shown
  <2>2. SavesAgree'
    BY <1>1 DEF SavesAgree, SavesGraph, G
  <2>3. GraphComes => GraphComes'
    BY <1>1, <1>2, <1>3 DEF GraphComes, SavesGraph, G
  <2>4. DrawnIsShown'
    BY <1>1, <1>2, <1>3, <2>3 DEF DrawnIsShown, HasGraph, Shown, G
  <2> QED
    BY <2>1, <2>2, <2>4
<1>4. CASE page # f
  BY <1>1, <1>2, <1>4, OthersPage
<1> QED
  BY <1>3, <1>4

LEMMA HiddenKind ==
  ASSUME NEW q \in Requests
  PROVE  [q EXCEPT !.shown = FALSE].kind = q.kind
BY DEF Requests

LEMMA PageStep ==
  ASSUME TypeInv, PageInv, [Next]_vars
  PROVE  PageInv'
<1> USE DEF TypeInv
<1>1. CASE Touch \/ HandleDeleteNode \/ (\E a, b \in Nodes : OnConnect(a, b))
             \/ \E n \in Nodes : HandleAddNode(n)
  <2>1. PICK g \in Graphs, s \in Nodes \cup {None} : Draw(g, s)
    BY <1>1, EditType
  <2> QED
    BY <2>1, StillPage DEF Draw, cache
<1>2. ASSUME NEW field \in Fields, HandleUpdateNodeConfig(field)
      PROVE  PageInv'
  BY <1>2, StillPage DEF HandleUpdateNodeConfig, cache
<1>3. CASE Sends
  <2>1. CASE \E r \in Reqs : Sent(r)
    BY <1>3, <2>1, SendsAre, SentPage DEF cache
  <2>2. CASE UNCHANGED req
    BY <1>3, <2>2, SendsAre, StillPage DEF cache
  <2> QED
    BY <1>3, <2>1, <2>2, SendsAre
<1>4. CASE BackToList
  <2>1. Mount(None) /\ \A q \in Reqs : req'[q] = [req[q] EXCEPT !.shown = FALSE]
    BY <1>4 DEF BackToList
  <2>2. \A q \in Reqs : req'[q].kind = req[q].kind
    BY <2>1, HiddenKind DEF TypeOK
  <2> QED
    BY <2>1, <2>2, MountPage
<1>5. ASSUME NEW f \in Flows, OpenCanvas(f)
      PROVE  PageInv'
  <2>1. /\ Mount(f) /\ detail' = [detail EXCEPT ![f] = Fetched(@)]
        /\ \A q \in Reqs : req'[q] = [req[q] EXCEPT !.shown = FALSE]
    BY <1>5 DEF OpenCanvas
  <2>2. \A q \in Reqs : req'[q].kind = req[q].kind
    BY <2>1, HiddenKind DEF TypeOK
  <2> QED
    BY <2>1, <2>2, MountPage
<1>6. ASSUME NEW r \in Reqs, Created(r)
      PROVE  PageInv'
  <2>1. /\ Mount(req[r].flow) /\ detail' = [detail EXCEPT ![req[r].flow] = Fetched(@)]
        /\ \A q \in Reqs : req'[q] = IF q = r THEN NoReq ELSE [req[q] EXCEPT !.shown = FALSE]
    BY <1>6 DEF Created
  <2>2. ASSUME NEW q \in Reqs PROVE req'[q].kind \in {req[q].kind, "none"}
    <3>1. NoReq.kind = "none" /\ [req[q] EXCEPT !.shown = FALSE].kind = req[q].kind
      BY HiddenKind DEF TypeOK, NoReq
    <3> QED
      BY <2>1, <3>1
  <2>3. req[r].flow \in Flows \cup {None}
    BY DEF TypeOK, Requests
  <2> QED
    BY <2>1, <2>2, <2>3, MountPage
<1>7. ASSUME NEW r \in Reqs, Serve(r) \/ Fail(r) \/ Lose(r) \/ Answer(r)
      PROVE  PageInv'
  BY <1>7, ServePage, FailPage, AnswerPage
<1>8. CASE ServeRun \/ RunAnswered
  <2>1. UNCHANGED <<row, detail, req, page, lost, unsaved, typing>>
    BY <1>8 DEF ServeRun, RunAnswered, cache, drawn, hist
  <2>2. G' = G
    BY <1>8 DEF ServeRun, RunAnswered, drawn, G, TypeOK
  <2> QED
    BY <2>1, <2>2, StillPage
<1>9. CASE \/ ListArrives \/ UNCHANGED vars \/ \E n \in Nodes \cup {None} : Click(n)
  BY <1>9, StillPage DEF ListArrives, Click, vars, cache, drawn, hist, G
<1>10. CASE Focus
  BY <1>10, FocusPage
<1>11. ASSUME NEW f \in Flows,
              Read(f) \/ FetchFails(f) \/ DetailArrives(f) \/ DetailFails(f)
       PROVE  PageInv'
  BY <1>11, ReadPage, ArrivesPage, FailsPage
<1> QED
  BY <1>1, <1>2, <1>3, <1>4, <1>5, <1>6, <1>7, <1>8, <1>9, <1>10, <1>11
     DEF Next, UserStep, ReqStep, QueryStep, TestStep, Sends

-----------------------------------------------------------------------------
(* The theorems                                                            *)

\* With nothing out, the page shows the stored row and its graph.
LEMMA QuietFollows == TypeInv /\ PageInv => QuietPageIsCurrent
<1> SUFFICES ASSUME TypeInv, PageInv, Ready, ~lost, ~typing, detail[page].out = "no",
                    \A r \in Reqs : req[r].st = "free"
             PROVE  /\ Shown(page) = row[page]
                    /\ ~unsaved => G = Shown(page).graph
  BY DEF QuietPageIsCurrent
<1>1. Shown(page) = row[page]
  BY DEF PageInv, FetchComes, Ready, Updates
<1>2. ~unsaved => G = Shown(page).graph
  BY DEF PageInv, DrawnIsShown, GraphComes, HasGraph, Ready
<1> QED
  BY <1>1, <1>2

\* The conjunction of the invariants, those of the page and its row among
\* them, is inductive.
THEOREM Invariance == Spec => []IInv
<1>1. Init => TypeInv /\ PageInv /\ ResultsAreOfOneRun
  BY TypeInit, PageInit, ResultsInit
<1>2. TypeInv /\ PageInv /\ ResultsAreOfOneRun /\ [Next]_vars
        => TypeInv' /\ PageInv' /\ ResultsAreOfOneRun'
  BY TypeStep, PageStep, ResultsStep
<1>3. IInv <=> TypeInv /\ PageInv /\ ResultsAreOfOneRun
  BY DEF IInv, TypeInv, PageInv
<1> QED
  BY <1>1, <1>2, <1>3, PTL DEF Spec

\* No reload of the graph, no edit and no test run leaves a node of the canvas
\* with the result of an earlier run, or without its own, for graphs of any
\* size and any number of requests out.
THEOREM OneRunsResults == Spec => []ResultsAreOfOneRun
<1>1. IInv => ResultsAreOfOneRun
  BY DEF IInv
<1> QED
  BY <1>1, Invariance, PTL

\* However fetches, saves, toggles and their answers cross, a canvas page with
\* nothing out shows the row the server has, and without the unsaved mark it
\* shows that row's graph.
THEOREM QuietPagesAreCurrent == Spec => []QuietPageIsCurrent
<1>1. IInv => QuietPageIsCurrent
  BY QuietFollows DEF IInv, TypeInv, PageInv
<1> QED
  BY <1>1, Invariance, PTL

=============================================================================
