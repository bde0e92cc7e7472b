---------------------------- MODULE ToolPagesProofs ----------------------------
(* Proofs about the tools page, for every value of the constants.          *)
EXTENDS ToolPages, SequenceTheorems, TLAPS

USE ToolPagesAssumption

-----------------------------------------------------------------------------
(* The inductive invariant                                                 *)

\* What the page shows, edits or remembers is a tool that was there.
PageKnown ==
  /\ \A i \in Ids : Listed(i) => tools[i].st # "none"
  /\ form.of # None => tools[form.of].st # "none"
  /\ details.of # None => tools[details.of].st # "none"
  /\ \A i \in Ids : kept[i] # None => tools[i].st # "none"

NoSecret(body) == \A k \in Keys : body.heads[k] # "secret"

\* No stored secret reaches the page: it shows masks and what was typed.
PageMasked ==
  /\ \A i \in Ids : NoSecret(list.data[i].body)
  /\ NoSecret(form.body) /\ NoSecret(details.body)

Out(q) == req[q].st # "free"
Upd(q) == Out(q) /\ req[q].kind \in Updates

\* One update at a time while nothing is loose: the page waits for those it
\* knows of, and `loose` records that one was sent beside the others.
OneUpdate == ~loose => \A p, q \in Reqs : Upd(p) /\ Upd(q) => p = q

\* `new` loses no secret of `old` but to one that was typed.
Keeps(old, new) ==
  \A k \in Keys : old.heads[k] \in {"secret", "typed", "long"}
                => new.heads[k] \in {old.heads[k], "typed", "long"}

\* Two bodies that differ in their switch at most.
SameTool(a, b) == a.name = b.name /\ a.shape = b.shape /\ a.heads = b.heads

\* What a request names, and what it carries.
Named(q) ==
  /\ Upd(q) => req[q].of \in Ids /\ tools[req[q].of].st # "none"
  /\ Out(q) /\ req[q].kind = "delete" => req[q].of \in Ids
  /\ req[q].st = "read" => req[q].kind \in Updates
  /\ req[q].st = "sent" => NoSecret(req[q].body)

\* An update between its read and its write carries what is stored but for
\* its own change, and a save that was written is what is stored.
Current(q) ==
  ~loose /\ Upd(q) =>
    /\ req[q].kind = "save" /\ req[q].st \in {"sent", "read"} => kept[req[q].of] = None
    /\ Here(req[q].of) =>
         /\ req[q].st = "read" => Keeps(tools[req[q].of].body, req[q].body)
         /\ req[q].st = "read" /\ req[q].kind = "toggle"
              => SameTool(req[q].body, tools[req[q].of].body)
         /\ req[q].st = "ok" /\ req[q].kind = "save"
              => SameTool(tools[req[q].of].body, req[q].body)

RequestsKnown == \A q \in Reqs : Named(q)
UpdatesCurrent == \A q \in Reqs : Current(q)

IInv ==
  /\ TypeOK /\ PageKnown /\ PageMasked /\ OneUpdate
  /\ RequestsKnown /\ UpdatesCurrent /\ SavesStick

-----------------------------------------------------------------------------
(* The records the actions build                                           *)

LEMMA ParamAdded ==
  ASSUME NEW ps \in ParamLists, Len(ps) < 2
  PROVE  Append(ps, [name |-> "p", in |-> "path"]) \in ParamLists
<1> DEFINE x == [name |-> "p", in |-> "path"]
<1>1. x \in Params
  BY DEF Params
<1>2. PICK n \in 0..2 : ps \in [1..n -> Params]
  BY DEF ParamLists
<1> HIDE DEF x
<1>3. ps \in Seq(Params) /\ Len(ps) = n
  BY <1>2
<1>4. Append(ps, x) \in Seq(Params) /\ Len(Append(ps, x)) = n + 1
  BY <1>1, <1>3
<1>5. Append(ps, x) \in [1..(n + 1) -> Params]
  BY <1>4, LenProperties
<1>6. n + 1 \in 0..2
  BY <1>3
<1> QED
  BY <1>5, <1>6 DEF ParamLists, x

LEMMA ParamsTyped ==
  ASSUME NEW b \in Bodies, NEW ps \in ParamLists,
         NEW body \in {"none", "blank", "text", "json", "uses"},
         NEW fits \in BOOLEAN
  PROVE  /\ [b EXCEPT !.shape.params = ps] \in Bodies
         /\ [b EXCEPT !.shape.params = ps].heads = b.heads
         /\ [b EXCEPT !.shape.params = ps, !.shape.fits = fits] \in Bodies
         /\ [b EXCEPT !.shape.params = ps, !.shape.fits = fits].heads = b.heads
         /\ [b EXCEPT !.shape.body = body, !.shape.fits = fits] \in Bodies
         /\ [b EXCEPT !.shape.body = body, !.shape.fits = fits].heads = b.heads
<1> DEFINE sh == b.shape
           s1 == [sh EXCEPT !.params = ps]
           s2 == [s1 EXCEPT !.fits = fits]
           s3 == [[sh EXCEPT !.body = body] EXCEPT !.fits = fits]
<1>1. sh \in Shapes
  BY DEF Bodies
<1>2. s1 \in Shapes /\ s2 \in Shapes /\ s3 \in Shapes
  BY <1>1 DEF Shapes
<1>3. /\ [b EXCEPT !.shape.params = ps] = [b EXCEPT !.shape = s1]
      /\ [b EXCEPT !.shape.params = ps, !.shape.fits = fits] = [b EXCEPT !.shape = s2]
      /\ [b EXCEPT !.shape.body = body, !.shape.fits = fits] = [b EXCEPT !.shape = s3]
  BY DEF Bodies
<1>4. ASSUME NEW x \in Shapes
      PROVE  [b EXCEPT !.shape = x] \in Bodies /\ [b EXCEPT !.shape = x].heads = b.heads
  BY DEF Bodies
<1> HIDE DEF s1, s2, s3
<1> QED
  BY <1>2, <1>3, <1>4

LEMMA NameTyped ==
  ASSUME NEW b \in Bodies, NEW name \in Names, NEW about \in Sizes
  PROVE  /\ [b EXCEPT !.name = name, !.shape.about = about] \in Bodies
         /\ [b EXCEPT !.name = name, !.shape.about = about].heads = b.heads
<1> DEFINE sh == b.shape
           c == [b EXCEPT !.name = name]
           s1 == [sh EXCEPT !.about = about]
<1>1. s1 \in Shapes
  BY DEF Bodies, Shapes
<1>2. c \in Bodies /\ c.heads = b.heads /\ c.shape = sh
  BY DEF Bodies
<1>3. [b EXCEPT !.name = name, !.shape.about = about] = [c EXCEPT !.shape = s1]
  BY DEF Bodies
<1> HIDE DEF s1, c
<1>4. [c EXCEPT !.shape = s1] \in Bodies /\ [c EXCEPT !.shape = s1].heads = c.heads
  BY <1>1, <1>2 DEF Bodies
<1> QED
  BY <1>2, <1>3, <1>4

LEMMA UrlTyped ==
  ASSUME NEW b \in Bodies, NEW url \in Urls, NEW uses \in BOOLEAN, NEW post \in BOOLEAN
  PROVE  /\ [b EXCEPT !.shape.url = url, !.shape.uses = uses, !.shape.post = post] \in Bodies
         /\ [b EXCEPT !.shape.url = url, !.shape.uses = uses, !.shape.post = post].heads = b.heads
<1> DEFINE sh == b.shape
           s2 == [[[sh EXCEPT !.url = url] EXCEPT !.uses = uses] EXCEPT !.post = post]
<1>1. s2 \in Shapes
  BY DEF Bodies, Shapes
<1>2. [b EXCEPT !.shape.url = url, !.shape.uses = uses, !.shape.post = post]
        = [b EXCEPT !.shape = s2]
  BY DEF Bodies
<1> HIDE DEF s2
<1>3. [b EXCEPT !.shape = s2] \in Bodies /\ [b EXCEPT !.shape = s2].heads = b.heads
  BY <1>1 DEF Bodies
<1> QED
  BY <1>2, <1>3

LEMMA HeadsTyped ==
  ASSUME NEW b \in Bodies, NEW heads \in [Keys -> Values]
  PROVE  /\ [b EXCEPT !.heads = heads] \in Bodies
         /\ [b EXCEPT !.heads = heads].heads = heads
BY DEF Bodies

LEMMA SwitchTyped ==
  ASSUME NEW b \in Bodies, NEW on \in BOOLEAN
  PROVE  /\ [b EXCEPT !.on = on] \in Bodies
         /\ SameTool([b EXCEPT !.on = on], b)
         /\ [b EXCEPT !.on = ~@] \in Bodies
         /\ SameTool([b EXCEPT !.on = ~@], b)
BY DEF Bodies, SameTool

LEMMA CopyTyped ==
  ASSUME NEW b \in Bodies
  PROVE  /\ [b EXCEPT !.name = CopyName(@)] \in Bodies
         /\ [b EXCEPT !.name = CopyName(@)].heads = b.heads
BY DEF Bodies, CopyName, Names

LEMMA MaskedTyped ==
  ASSUME NEW b \in Bodies
  PROVE  Masked(b) \in Bodies /\ NoSecret(Masked(b))
BY DEF Bodies, Masked, Values, NoSecret

\* A merge keeps what is stored but for values that were typed.
LEMMA MergedTyped ==
  ASSUME NEW old \in Bodies, NEW patch \in Bodies
  PROVE  /\ Merged(old, patch) \in Bodies
         /\ NoSecret(patch) => Keeps(old, Merged(old, patch))
BY DEF Bodies, Merged, Values, NoSecret, Keeps

LEMMA EmptyTyped ==
  /\ EmptyForm \in Bodies /\ NoSecret(EmptyForm)
  /\ FormFromTemplate \in Bodies /\ NoSecret(FormFromTemplate)
<1>1. <<>> \in ParamLists
  BY DEF ParamLists
<1>2. Plain \in Shapes /\ Blank \in Shapes
  BY <1>1 DEF Plain, Blank, Shapes, Urls, Sizes
<1>3. NoHeads \in [Keys -> Values] /\ \A k \in Keys : NoHeads[k] = "none"
  BY DEF NoHeads, Values
<1>4. EmptyForm \in Bodies /\ FormFromTemplate \in Bodies
  BY <1>2, <1>3 DEF EmptyForm, FormFromTemplate, Bodies, Names
<1>5. NoSecret(EmptyForm) /\ NoSecret(FormFromTemplate)
  BY <1>3 DEF EmptyForm, FormFromTemplate, NoSecret
<1> QED
  BY <1>4, <1>5

LEMMA FirstTyped == First \in Bodies
<1>1. <<>> \in ParamLists
  BY DEF ParamLists
<1>2. Plain \in Shapes
  BY <1>1 DEF Plain, Shapes, Urls, Sizes
<1> QED
  BY <1>2 DEF First, Bodies, Names, Values

LEMMA NothingTyped ==
  /\ NoRow \in Rows /\ Closed \in Forms /\ NoDetails \in Details /\ NoReq \in ReqRows
BY EmptyTyped DEF NoRow, Rows, Closed, Forms, NoDetails, Details, NoReq, ReqRows

-----------------------------------------------------------------------------
(* The two sets of rules                                                   *)

\* The rules of the client and of the server agree on every form, but for the
\* server's sizes and JSON and for URLs that only one parser takes.
LEMMA RulesAgree ==
  ASSUME NEW b \in Bodies
  PROVE  /\ Validate(b.name, b.shape, b.heads) /\ ~ValidateForm(b.name, b.shape)
              => ClientRefusesMore(b)
         /\ ValidateForm(b.name, b.shape) /\ ~Validate(b.name, b.shape, b.heads)
              => ServerRefusesMore(b)
<1> DEFINE sh == b.shape
<1>1. /\ sh.url \in {"http", "lenient", "strict", "no"} /\ sh.about \in Sizes
      /\ sh.body \in {"none", "blank", "text", "json", "uses"}
  BY DEF Bodies, Shapes, Urls
<1>2. ASSUME Validate(b.name, sh, b.heads), sh.url # "strict" PROVE ValidateForm(b.name, sh)
  BY <1>1, <1>2 DEF Validate, ValidateForm
<1>3. ASSUME ValidateForm(b.name, sh), sh.url # "lenient", sh.body \notin {"blank", "text"},
             sh.about = "fits", sh.fits, HeadersFit(b.heads)
      PROVE  Validate(b.name, sh, b.heads)
  BY <1>1, <1>3 DEF Validate, ValidateForm
<1> QED
  BY <1>2, <1>3 DEF ClientRefusesMore, ServerRefusesMore

-----------------------------------------------------------------------------
(* The page                                                                *)

\* A step of the page leaves requests and server alone, and shows or edits
\* what was there, masked.
PageMoves ==
  /\ form' \in Forms /\ details' \in Details /\ asking' \in Ids \cup {None}
  /\ acts' \in 0..MaxActs
  /\ form'.of # None => tools[form'.of].st # "none"
  /\ details'.of # None => tools[details'.of].st # "none"
  /\ NoSecret(form'.body) /\ NoSecret(details'.body)
  /\ UNCHANGED <<tools, list, req, kept, loose>>

LEMMA ActTyped == TypeOK /\ Act => acts' \in 0..MaxActs
BY DEF TypeOK, Act

LEMMA SeenIsKnown ==
  ASSUME IInv, NEW i \in Ids, At(i)
  PROVE  Seen(i) \in Bodies /\ NoSecret(Seen(i)) /\ tools[i].st # "none"
<1> USE DEF IInv, TypeOK, PageKnown, PageMasked
<1>1. CASE details.of # None
  BY <1>1 DEF At, Seen, Details
<1>2. CASE details.of = None
  <2>1. list.data[i] \in Rows
    BY DEF Lists
  <2> QED
    BY <1>2, <2>1 DEF At, Seen, Rows
<1> QED
  BY <1>1, <1>2

LEMMA EditorOpens ==
  ASSUME IInv, NEW of \in Ids \cup {None}, of # None => tools[of].st # "none",
         NEW body \in Bodies, NoSecret(body), OpenEditor(of, body)
  PROVE  PageMoves
<1> DEFINE yes == TRUE
<1>1. form' = [open |-> yes, of |-> of, body |-> body] /\ yes \in BOOLEAN
  BY DEF OpenEditor
<1> HIDE DEF yes
<1>2. form' \in Forms /\ form'.of = of /\ form'.body = body
  BY <1>1 DEF Forms
<1>3. details' \in Details /\ details'.of = None /\ NoSecret(details'.body)
  BY NothingTyped, EmptyTyped DEF OpenEditor, NoDetails
<1> QED
  BY <1>2, <1>3, ActTyped DEF OpenEditor, PageMoves, IInv, TypeOK

LEMMA FormFilled ==
  ASSUME IInv, NEW body \in Bodies, NoSecret(body), Fill(body)
  PROVE  PageMoves
<1>1. form' \in Forms /\ form'.of = form.of /\ form'.body = body
  BY DEF Fill, IInv, TypeOK, Forms
<1> QED
  BY <1>1, ActTyped DEF Fill, PageMoves, IInv, TypeOK, PageKnown, PageMasked

LEMMA EditorMoves ==
  ASSUME IInv, EditorStep
  PROVE  PageMoves
<1> DEFINE b == form.body
<1>1. b \in Bodies /\ NoSecret(b)
  BY DEF IInv, TypeOK, Forms, PageMasked
<1>2. CASE EndpointTab
  <2>1. b.name \in Names
    BY <1>1 DEF Bodies
  <2> HIDE DEF b
  <2>2. ASSUME NEW name \in {b.name, "", "Bad", "mine"}, NEW about \in Sizes,
               Fill([b EXCEPT !.name = name, !.shape.about = about])
        PROVE  PageMoves
    <3> DEFINE n == [b EXCEPT !.name = name, !.shape.about = about]
    <3>1. name \in Names
      BY <2>1 DEF Names
    <3>2. n \in Bodies /\ n.heads = b.heads
      BY <1>1, <3>1, NameTyped
    <3>3. Fill(n)
      BY <2>2
    <3> HIDE DEF n
    <3> QED
      BY <1>1, <3>2, <3>3, FormFilled DEF NoSecret
  <2>3. ASSUME NEW url \in Urls, NEW uses \in BOOLEAN, NEW post \in BOOLEAN,
               Fill([b EXCEPT !.shape.url = url, !.shape.uses = uses, !.shape.post = post])
        PROVE  PageMoves
    <3> DEFINE n == [b EXCEPT !.shape.url = url, !.shape.uses = uses, !.shape.post = post]
    <3>1. n \in Bodies /\ n.heads = b.heads
      BY <1>1, UrlTyped
    <3>2. Fill(n)
      BY <2>3
    <3> HIDE DEF n
    <3> QED
      BY <1>1, <3>1, <3>2, FormFilled DEF NoSecret
  <2> QED
    BY <1>2, <2>2, <2>3 DEF EndpointTab, b
<1>3. CASE AddMissingPathParams
  <2> DEFINE ps == Append(b.shape.params, [name |-> "p", in |-> "path"])
  <2>1. b.shape.params \in ParamLists
    BY <1>1 DEF Bodies, Shapes
  <2>2. ps \in ParamLists
    BY <1>3, <2>1, ParamAdded DEF AddMissingPathParams
  <2>3. Fill([b EXCEPT !.shape.params = ps])
    BY <1>3 DEF AddMissingPathParams
  <2> HIDE DEF b, ps
  <2>4. [b EXCEPT !.shape.params = ps] \in Bodies /\ NoSecret([b EXCEPT !.shape.params = ps])
    BY <1>1, <2>2, ParamsTyped DEF NoSecret
  <2> QED
    BY <2>3, <2>4, FormFilled
<1>4. CASE ParamsTab
  <2> HIDE DEF b
  <2>1. ASSUME NEW ps \in ParamLists, NEW fits \in BOOLEAN,
               Fill([b EXCEPT !.shape.params = ps, !.shape.fits = fits])
        PROVE  PageMoves
    <3> DEFINE n == [b EXCEPT !.shape.params = ps, !.shape.fits = fits]
    <3>1. n \in Bodies /\ n.heads = b.heads
      BY <1>1, ParamsTyped
    <3>2. Fill(n)
      BY <2>1
    <3> HIDE DEF n
    <3> QED
      BY <1>1, <3>1, <3>2, FormFilled DEF NoSecret
  <2>2. ASSUME NEW body \in {"none", "blank", "text", "json", "uses"}, NEW fits \in BOOLEAN,
               Fill([b EXCEPT !.shape.body = body, !.shape.fits = fits])
        PROVE  PageMoves
    <3> DEFINE n == [b EXCEPT !.shape.body = body, !.shape.fits = fits]
    <3>1. <<>> \in ParamLists
      BY DEF ParamLists
    <3>2. n \in Bodies /\ n.heads = b.heads
      BY <1>1, <3>1, ParamsTyped
    <3>3. Fill(n)
      BY <2>2
    <3> HIDE DEF n
    <3> QED
      BY <1>1, <3>2, <3>3, FormFilled DEF NoSecret
  <2> QED
    BY <1>4, <2>1, <2>2 DEF ParamsTab, b
<1>5. CASE HeadersTab
  <2>1. PICK heads \in [Keys -> {"none", "typed", "long", "mask"}] :
          Fill([b EXCEPT !.heads = heads])
    BY <1>5 DEF HeadersTab
  <2> HIDE DEF b
  <2>2. heads \in [Keys -> Values] /\ \A k \in Keys : heads[k] # "secret"
    BY DEF Values
  <2>3. [b EXCEPT !.heads = heads] \in Bodies /\ NoSecret([b EXCEPT !.heads = heads])
    BY <1>1, <2>2, HeadsTyped DEF NoSecret
  <2> QED
    BY <2>1, <2>3, FormFilled
<1>6. CASE SettingsTab
  <2>1. Fill([b EXCEPT !.on = ~@])
    BY <1>6 DEF SettingsTab
  <2> HIDE DEF b
  <2> DEFINE n == [b EXCEPT !.on = ~@]
  <2>2. n \in Bodies /\ n.heads = b.heads
    BY <1>1, SwitchTyped DEF SameTool
  <2>3. NoSecret(n)
    BY <1>1, <2>2 DEF NoSecret
  <2> QED
    BY <2>1, <2>2, <2>3, FormFilled
<1>7. CASE CancelEditor
  <2> DEFINE no == FALSE
  <2>1. form' = [form EXCEPT !.open = no] /\ no \in BOOLEAN
    BY <1>7 DEF CancelEditor
  <2> HIDE DEF no
  <2>2. form' \in Forms /\ form'.of = form.of /\ form'.body = form.body
    BY <2>1 DEF IInv, TypeOK, Forms
  <2> QED
    BY <1>7, <2>2 DEF CancelEditor, PageMoves, IInv, TypeOK, PageKnown, PageMasked
<1> QED
  BY <1>2, <1>3, <1>4, <1>5, <1>6, <1>7 DEF EditorStep

LEMMA PageStepMoves ==
  ASSUME IInv, PageStep, ~Leave
  PROVE  PageMoves
<1> USE EmptyTyped
<1>1. CASE NewTool
  BY <1>1, EditorOpens DEF NewTool
<1>2. CASE CustomizeTemplate
  BY <1>2, EditorOpens DEF CustomizeTemplate
<1>3. CASE CloseDetails
  <2>1. details' \in Details /\ details'.of = None /\ NoSecret(details'.body)
    BY <1>3, NothingTyped DEF CloseDetails, NoDetails
  <2> QED
    BY <1>3, <2>1 DEF CloseDetails, PageMoves, IInv, TypeOK, PageKnown, PageMasked
<1>4. CASE CancelDelete
  BY <1>4 DEF CancelDelete, PageMoves, IInv, TypeOK, PageKnown, PageMasked
<1>5. ASSUME NEW i \in Ids, EditTool(i) PROVE PageMoves
  BY <1>5, SeenIsKnown, EditorOpens DEF EditTool
<1>6. ASSUME NEW i \in Ids, Duplicate(i) PROVE PageMoves
  <2> DEFINE b == Seen(i)
             n == [b EXCEPT !.name = CopyName(@)]
  <2>1. b \in Bodies /\ NoSecret(b) /\ OpenEditor(None, n)
    BY <1>6, SeenIsKnown DEF Duplicate
  <2> HIDE DEF b
  <2>2. n \in Bodies /\ NoSecret(n)
    BY <2>1, CopyTyped DEF NoSecret
  <2> QED
    BY <2>1, <2>2, EditorOpens
<1>7. ASSUME NEW i \in Ids, Inspect(i) PROVE PageMoves
  <2>1. list.data[i] \in Rows
    BY DEF IInv, TypeOK, Lists
  <2>2. details' \in Details /\ details'.of = i /\ details'.body = list.data[i].body
    BY <1>7, <2>1 DEF Inspect, Details, Rows
  <2> QED
    BY <1>7, <2>2, ActTyped DEF Inspect, PageMoves, IInv, TypeOK, PageKnown, PageMasked
<1>8. ASSUME NEW i \in Ids, AskDelete(i) PROVE PageMoves
  <2>1. details' \in Details /\ details'.of = None /\ NoSecret(details'.body)
    BY <1>8, NothingTyped DEF AskDelete, NoDetails
  <2> QED
    BY <1>8, <2>1, ActTyped DEF AskDelete, PageMoves, IInv, TypeOK, PageKnown, PageMasked
<1> QED
  BY <1>1, <1>2, <1>3, <1>4, <1>5, <1>6, <1>7, <1>8 DEF PageStep

LEMMA PageKeeps ==
  ASSUME IInv, PageMoves
  PROVE  IInv'
<1> USE DEF IInv, PageMoves
<1>1. TypeOK'
  BY DEF TypeOK
<1>2. PageKnown' /\ PageMasked'
  BY DEF PageKnown, PageMasked, Listed
<1>3. OneUpdate'
  BY DEF OneUpdate, Upd, Out
<1>4. RequestsKnown' /\ UpdatesCurrent'
  BY DEF RequestsKnown, UpdatesCurrent, Named, Current, Upd, Out, Here
<1>5. SavesStick'
  BY DEF SavesStick, Here
<1> QED
  BY <1>1, <1>2, <1>3, <1>4, <1>5

-----------------------------------------------------------------------------
(* Requests                                                                *)

Kinds == {"create", "install", "save", "toggle", "delete"}

\* A request that a step does not touch, but for knowing it is the last.
SameReq(p) ==
  /\ req'[p].st = req[p].st /\ req'[p].kind = req[p].kind
  /\ req'[p].of = req[p].of /\ req'[p].body = req[p].body

\* A tool that was there is never as if it had not been.
ToolsStay == \A i \in Ids : tools[i].st # "none" => tools'[i].st # "none"

LEMMA NamedStays ==
  ASSUME ToolsStay, NEW p \in Reqs, Named(p), SameReq(p)
  PROVE  Named(p)'
BY DEF ToolsStay, Named, SameReq, Upd, Out

\* What is true of an update stays so while its tool is not written, and not
\* taken for saved.
LEMMA CurrentStays ==
  ASSUME NEW p \in Reqs, Named(p), Current(p), SameReq(p), loose => loose',
         ~loose' /\ Upd(p) =>
           /\ Here(req[p].of)' => Here(req[p].of) /\ tools'[req[p].of].body = tools[req[p].of].body
           /\ kept[req[p].of] = None => kept'[req[p].of] = None
  PROVE  Current(p)'
BY DEF Current, Named, SameReq, Upd, Out, Here

\* Fewer updates.
LEMMA OneStays ==
  ASSUME OneUpdate, loose => loose', \A p \in Reqs : Upd(p)' => Upd(p)
  PROVE  OneUpdate'
BY DEF OneUpdate

\* What the page knows and shows, while the page does not change.
LEMMA PageStays ==
  ASSUME IInv, ToolsStay, UNCHANGED <<list, details>>,
         form'.of = form.of, form'.body = form.body,
         \A i \in Ids : kept'[i] # None => tools[i].st # "none"
  PROVE  PageKnown' /\ PageMasked'
<1>1. form.of \in Ids \cup {None} /\ details.of \in Ids \cup {None}
  BY DEF IInv, TypeOK, Forms, Details
<1> QED
  BY <1>1 DEF IInv, ToolsStay, PageKnown, PageMasked, Listed, NoSecret

\* While no update is pending and none is unwatched, none is out.
LEMMA NoneUpdating ==
  ASSUME ~Updating, ~Unwatched, NEW p \in Reqs
  PROVE  ~Upd(p)
BY DEF Updating, Unwatched, UpdateOut, Pending, Upd, Out, HookOf, Updates

-----------------------------------------------------------------------------
(* Sending                                                                 *)

\* A request more, and the others as they were.
Sent(q, kind, of, body) ==
  /\ req' \in [Reqs -> ReqRows] /\ ~Out(q)
  /\ req'[q].st = "sent" /\ req'[q].kind = kind /\ req'[q].of = of /\ req'[q].body = body
  /\ \A p \in Reqs \ {q} : SameReq(p)

LEMMA SendWrites ==
  ASSUME TypeOK, NEW q \in Reqs, NEW kind \in Kinds, NEW of \in Ids \cup {None},
         NEW body \in Bodies, Send(q, kind, of, body)
  PROVE  Sent(q, kind, of, body)
<1>1. ASSUME NEW p \in Reqs, p # q
      PROVE  req'[p] \in ReqRows /\ SameReq(p)
  <2> DEFINE b == req[p].last /\ HookOf(req[p].kind) # HookOf(kind)
  <2>1. req'[p] = [req[p] EXCEPT !.last = b]
    BY <1>1 DEF Send
  <2>2. req[p] \in ReqRows
    BY DEF TypeOK
  <2>3. b \in BOOLEAN
    OBVIOUS
  <2> HIDE DEF b
  <2> QED
    BY <2>1, <2>2, <2>3 DEF ReqRows, SameReq
<1>2. req'[q] = [st |-> "sent", kind |-> kind, of |-> of, body |-> body, by |-> "page",
                 last |-> TRUE]
  BY DEF Send
<1>3. req'[q] \in ReqRows /\ req'[q].st = "sent" /\ req'[q].kind = kind /\ req'[q].of = of
      /\ req'[q].body = body
  BY <1>2 DEF ReqRows, Kinds
<1>4. req' \in [Reqs -> ReqRows]
  <2>1. req' = [p \in Reqs |-> req'[p]]
    BY DEF Send
  <2> QED
    BY <2>1, <1>1, <1>3
<1>5. ~Out(q)
  BY DEF Send, Out
<1> QED
  BY <1>1, <1>3, <1>4, <1>5 DEF Sent

LEMMA SettingsWrite ==
  ASSUME TypeOK, NEW q \in Reqs, NEW of \in Ids, NEW body \in Bodies, req[q].st = "free",
         req' = [req EXCEPT ![q] = [st |-> "sent", kind |-> "toggle", of |-> of,
                                    body |-> body, by |-> "other", last |-> FALSE]]
  PROVE  Sent(q, "toggle", of, body)
<1> DEFINE r == [st |-> "sent", kind |-> "toggle", of |-> of, body |-> body, by |-> "other",
                 last |-> FALSE]
<1>1. r \in ReqRows /\ r.st = "sent" /\ r.kind = "toggle" /\ r.of = of /\ r.body = body
  BY DEF ReqRows
<1>2. req' = [req EXCEPT ![q] = r]
  OBVIOUS
<1> HIDE DEF r
<1>3. req' \in [Reqs -> ReqRows] /\ req'[q] = r /\ \A p \in Reqs \ {q} : req'[p] = req[p]
  BY <1>1, <1>2 DEF TypeOK
<1> QED
  BY <1>1, <1>3 DEF Sent, SameReq, Out

\* A request is sent: a masked body, for a tool that was there, and an update
\* only while none is out, unless that is what `loose` records.
LEMMA SendKeeps ==
  ASSUME IInv, NEW q \in Reqs, NEW kind \in Kinds, NEW of \in Ids \cup {None},
         NEW body \in Bodies, NoSecret(body), Sent(q, kind, of, body), Act,
         kind \in Updates => of \in Ids /\ tools[of].st # "none",
         kind = "delete" => of \in Ids,
         kind = "save" => kept' = [kept EXCEPT ![of] = None],
         kind # "save" => kept' = kept,
         loose' \in BOOLEAN, loose => loose',
         ~loose' /\ kind \in Updates => ~Updating /\ ~Unwatched,
         UNCHANGED <<tools, list, form, details, asking>>
  PROVE  IInv'
<1> USE DEF IInv
<1>1. /\ req' \in [Reqs -> ReqRows] /\ ~Out(q)
      /\ req'[q].st = "sent" /\ req'[q].kind = kind /\ req'[q].of = of
      /\ req'[q].body = body
      /\ \A p \in Reqs \ {q} : SameReq(p)
  BY DEF Sent
<1>2. /\ kept' \in [Ids -> Bodies \cup {None}]
      /\ \A i \in Ids : kept'[i] \in {kept[i], None}
      /\ kind = "save" => kept'[of] = None
  BY DEF TypeOK, Updates
<1>3. TypeOK'
  BY <1>1, <1>2, ActTyped DEF TypeOK
<1>4. ToolsStay
  BY DEF ToolsStay
<1>5. PageKnown' /\ PageMasked'
  BY <1>2, <1>4, PageStays DEF PageKnown
<1>6. OneUpdate'
  <2>1. CASE kind \in Updates
    <3>1. ~loose' => \A p \in Reqs : Upd(p)' => p = q
      BY <1>1, <2>1, NoneUpdating DEF SameReq, Upd, Out
    <3> QED
      BY <1>1, <3>1 DEF OneUpdate
  <2>2. CASE kind \notin Updates
    <3>1. ASSUME NEW p \in Reqs, Upd(p)' PROVE Upd(p)
      <4>1. p # q
        BY <1>1, <2>2, <3>1 DEF Upd
      <4> QED
        BY <1>1, <3>1, <4>1 DEF SameReq, Upd, Out
    <3> QED
      BY <3>1, OneStays
  <2> QED
    BY <2>1, <2>2
<1>7. ASSUME NEW p \in Reqs PROVE Named(p)' /\ Current(p)'
  <2>1. CASE p = q
    <3>1. Named(p)'
      BY <1>1, <2>1 DEF Named, Upd, Out
    <3>2. Current(p)'
      BY <1>1, <1>2, <2>1 DEF Current
    <3> QED
      BY <3>1, <3>2
  <2>2. CASE p # q
    <3>1. SameReq(p) /\ Named(p) /\ Current(p)
      BY <1>1, <2>2 DEF RequestsKnown, UpdatesCurrent
    <3>2. Upd(p) /\ kept[req[p].of] = None => kept'[req[p].of] = None
      BY <1>2, <3>1 DEF Named
    <3>3. Named(p)'
      BY <1>4, <3>1, NamedStays
    <3>4. Upd(p) => /\ Here(req[p].of)' => Here(req[p].of)
                    /\ tools'[req[p].of].body = tools[req[p].of].body
      BY <3>1 DEF Here, SameReq
    <3> QED
      BY <3>1, <3>2, <3>3, <3>4, CurrentStays
  <2> QED
    BY <2>1, <2>2
<1>8. SavesStick'
  <2>1. ASSUME NEW i \in Ids, kept'[i] # None PROVE kept'[i] = kept[i] /\ kept[i] # None
    BY <1>2, <2>1
  <2> QED
    BY <2>1 DEF SavesStick, Here
<1> QED
  BY <1>3, <1>5, <1>6, <1>7, <1>8 DEF RequestsKnown, UpdatesCurrent

\* What the three switches send.
LEMMA SwitchKeeps ==
  ASSUME IInv, NEW q \in Reqs, NEW i \in Ids, tools[i].st # "none", NEW b \in Bodies,
         NoSecret(b), Act, NEW n, n = [b EXCEPT !.on = ~@],
         n \in Bodies => Sent(q, "toggle", i, n),
         loose' = (loose \/ Updating \/ Unwatched) \/ (loose' = (loose \/ Unwatched) /\ ~Updating),
         UNCHANGED <<tools, list, form, details, asking, kept>>
  PROVE  IInv'
<1>1. n \in Bodies /\ n.heads = b.heads
  BY SwitchTyped DEF SameTool
<1>2. loose \in BOOLEAN
  BY DEF IInv, TypeOK
<1>3. loose' \in BOOLEAN /\ (loose => loose') /\ (~loose' => ~Updating /\ ~Unwatched)
  BY <1>2, Zenon
<1>4. NoSecret(n)
  BY <1>1 DEF NoSecret
<1>5. "toggle" \in Kinds /\ "toggle" # "save" /\ "toggle" # "delete"
  BY DEF Kinds
<1> QED
  BY <1>1, <1>3, <1>4, <1>5, SendKeeps

LEMMA RequestsSent ==
  ASSUME IInv, NEW q \in Reqs,
         \/ SaveTool(q) \/ AddTemplateDirectly(q) \/ ConfirmDelete(q)
         \/ \E i \in Ids : Toggle(q, i) \/ ToggleInDetails(q, i) \/ ToggleInSettings(q, i)
  PROVE  IInv'
<1> USE DEF Kinds, Updates
<1>0. loose \in BOOLEAN /\ form.of \in Ids \cup {None} /\ asking \in Ids \cup {None} /\ TypeOK
  BY DEF IInv, TypeOK, Forms
<1>1. CASE SaveTool(q)
  <2>1. form.body \in Bodies /\ NoSecret(form.body)
    BY DEF IInv, TypeOK, Forms, PageMasked
  <2>2. CASE form.of = None
    <3>1. Sent(q, "create", None, form.body)
      BY <1>0, <1>1, <2>1, <2>2, SendWrites DEF SaveTool
    <3> QED
      BY <1>0, <1>1, <2>1, <2>2, <3>1, SendKeeps DEF SaveTool
  <2>3. CASE form.of # None
    <3>1. tools[form.of].st # "none"
      BY <2>3 DEF IInv, PageKnown
    <3>2. Sent(q, "save", form.of, form.body)
      BY <1>0, <1>1, <2>1, <2>3, SendWrites DEF SaveTool
    <3>3. ~Updating /\ loose' = (loose \/ Unwatched)
      BY <1>1, <2>3 DEF SaveTool
    <3>4. loose' \in BOOLEAN /\ (loose => loose') /\ (~loose' => ~Updating /\ ~Unwatched)
      BY <1>0, <3>3, Zenon
    <3>5. /\ Act /\ kept' = [kept EXCEPT ![form.of] = None]
          /\ UNCHANGED <<tools, list, form, details, asking>>
      BY <1>1, <2>3 DEF SaveTool
    <3> QED
      BY <1>0, <2>1, <2>3, <3>1, <3>2, <3>4, <3>5, SendKeeps
  <2> QED
    BY <2>2, <2>3
<1>2. CASE AddTemplateDirectly(q)
  <2>1. Sent(q, "install", None, FormFromTemplate)
    BY <1>0, <1>2, EmptyTyped, SendWrites DEF AddTemplateDirectly
  <2> QED
    BY <1>0, <1>2, <2>1, EmptyTyped, SendKeeps DEF AddTemplateDirectly
<1>3. CASE ConfirmDelete(q)
  <2>1. Sent(q, "delete", asking, EmptyForm)
    BY <1>0, <1>3, EmptyTyped, SendWrites DEF ConfirmDelete
  <2> QED
    BY <1>0, <1>3, <2>1, EmptyTyped, SendKeeps DEF ConfirmDelete
<1>4. ASSUME NEW i \in Ids, Listed(i)
      PROVE  list.data[i].body \in Bodies /\ NoSecret(list.data[i].body) /\ tools[i].st # "none"
  BY <1>4 DEF Listed, IInv, TypeOK, Lists, Rows, PageKnown, PageMasked
<1>5. ASSUME NEW i \in Ids, Toggle(q, i) PROVE IInv'
  <2> DEFINE b == list.data[i].body
             n == [b EXCEPT !.on = ~@]
  <2>1. b \in Bodies /\ NoSecret(b) /\ tools[i].st # "none"
    BY <1>4, <1>5 DEF Toggle
  <2>2. Act /\ ~Updating /\ Send(q, "toggle", i, n) /\ loose' = (loose \/ Unwatched)
        /\ UNCHANGED <<tools, list, form, details, asking, kept>>
    BY <1>5 DEF Toggle
  <2>3. n = [b EXCEPT !.on = ~@]
    OBVIOUS
  <2> HIDE DEF b, n
  <2>4. n \in Bodies => Sent(q, "toggle", i, n)
    BY <1>0, <2>2, SendWrites
  <2> QED
    BY <2>1, <2>2, <2>3, <2>4, SwitchKeeps
<1>6. ASSUME NEW i \in Ids, ToggleInDetails(q, i) PROVE IInv'
  <2> DEFINE b == details.body
             n == [b EXCEPT !.on = ~@]
  <2>1. b \in Bodies /\ NoSecret(b) /\ tools[i].st # "none"
    BY <1>6 DEF ToggleInDetails, IInv, TypeOK, Details, PageKnown, PageMasked
  <2>2. Act /\ loose' = (loose \/ Updating \/ Unwatched) /\ Send(q, "toggle", i, n)
        /\ UNCHANGED <<tools, list, form, details, asking, kept>>
    BY <1>6 DEF ToggleInDetails
  <2>3. n = [b EXCEPT !.on = ~@]
    OBVIOUS
  <2> HIDE DEF b, n
  <2>4. n \in Bodies => Sent(q, "toggle", i, n)
    BY <1>0, <2>2, SendWrites
  <2> QED
    BY <2>1, <2>2, <2>3, <2>4, SwitchKeeps
<1>7. ASSUME NEW i \in Ids, ToggleInSettings(q, i) PROVE IInv'
  <2> DEFINE b == list.data[i].body
             n == [b EXCEPT !.on = ~@]
  <2>1. b \in Bodies /\ NoSecret(b) /\ tools[i].st # "none"
    BY <1>4, <1>7 DEF ToggleInSettings
  <2>2. /\ Act /\ loose' = (loose \/ Updating \/ Unwatched) /\ req[q].st = "free"
        /\ req' = [req EXCEPT ![q] = [st |-> "sent", kind |-> "toggle", of |-> i,
                                      body |-> n, by |-> "other", last |-> FALSE]]
        /\ UNCHANGED <<tools, list, form, details, asking, kept>>
    BY <1>7 DEF ToggleInSettings
  <2>3. n = [b EXCEPT !.on = ~@]
    OBVIOUS
  <2> HIDE DEF b, n
  <2>4. n \in Bodies => Sent(q, "toggle", i, n)
    BY <1>0, <2>2, SettingsWrite
  <2> QED
    BY <2>1, <2>2, <2>3, <2>4, SwitchKeeps
<1> QED
  BY <1>1, <1>2, <1>3, <1>5, <1>6, <1>7

-----------------------------------------------------------------------------
(* The server                                                              *)

\* What a handler does to its request: a status, and for a merge a body.
Answered(q, st, body) ==
  /\ req' \in [Reqs -> ReqRows]
  /\ req'[q].st = st /\ req'[q].kind = req[q].kind /\ req'[q].of = req[q].of
  /\ req'[q].body = body /\ req'[q].last = req[q].last
  /\ \A p \in Reqs \ {q} : req'[p] = req[p]

LEMMA ReqWritten ==
  ASSUME TypeOK, NEW q \in Reqs, NEW r \in ReqRows, req' = [req EXCEPT ![q] = r]
  PROVE  /\ req' \in [Reqs -> ReqRows] /\ req'[q] = r
         /\ \A p \in Reqs \ {q} : req'[p] = req[p]
BY DEF TypeOK

LEMMA AnswerWrites ==
  ASSUME TypeOK, NEW q \in Reqs, NEW st \in {"read", "ok", "failed"}, Answer(q, st)
  PROVE  Answered(q, st, req[q].body)
<1> DEFINE r == req[q]
           s == [r EXCEPT !.st = st]
<1>1. r \in ReqRows
  BY DEF TypeOK
<1>2. /\ s \in ReqRows /\ s.st = st /\ s.kind = r.kind /\ s.of = r.of /\ s.body = r.body
      /\ s.last = r.last
  BY <1>1 DEF ReqRows
<1>3. req' = [req EXCEPT ![q] = s]
  BY DEF Answer, TypeOK
<1> HIDE DEF r, s
<1>4. req' \in [Reqs -> ReqRows] /\ req'[q] = s /\ \A p \in Reqs \ {q} : req'[p] = req[p]
  BY <1>2, <1>3, ReqWritten
<1> QED
  BY <1>2, <1>4 DEF Answered, r

LEMMA MergeWrites ==
  ASSUME TypeOK, NEW q \in Reqs, NEW body \in Bodies,
         req' = [req EXCEPT ![q].st = "read", ![q].body = body]
  PROVE  Answered(q, "read", body)
<1> DEFINE r == req[q]
           s == [r EXCEPT !.st = "read"]
           t == [s EXCEPT !.body = body]
<1>1. r \in ReqRows
  BY DEF TypeOK
<1>2. /\ s \in ReqRows /\ s.st = "read" /\ s.kind = r.kind /\ s.of = r.of /\ s.body = r.body
      /\ s.last = r.last
  BY <1>1 DEF ReqRows
<1>3. req' = [req EXCEPT ![q] = t]
  BY DEF TypeOK
<1>4. /\ t \in ReqRows /\ t.st = s.st /\ t.kind = s.kind /\ t.of = s.of /\ t.body = body
      /\ t.last = s.last
  <2> HIDE DEF s
  <2> QED
    BY <1>2 DEF ReqRows
<1> HIDE DEF r, s, t
<1>5. req' \in [Reqs -> ReqRows] /\ req'[q] = t /\ \A p \in Reqs \ {q} : req'[p] = req[p]
  BY <1>3, <1>4, ReqWritten
<1> QED
  BY <1>2, <1>4, <1>5 DEF Answered, r

\* What no handler does: the page, and the histories.
PageApart == UNCHANGED <<list, form, details, asking, kept, loose>>

\* A handler that keeps the tools' types, takes none away and leaves those
\* that other updates are at alone.
LEMMA AnswerKeeps ==
  ASSUME IInv, NEW q \in Reqs, Out(q), NEW st \in {"read", "ok", "failed"}, NEW body \in Bodies,
         Answered(q, st, body), PageApart, acts' \in 0..MaxActs,
         tools' \in [Ids -> Rows], ToolsStay,
         \A p \in Reqs \ {q} : ~loose /\ Upd(p) =>
           (tools'[req[p].of].st = "here"
              => Here(req[p].of) /\ tools'[req[p].of].body = tools[req[p].of].body),
         Named(q)', Current(q)', SavesStick'
  PROVE  IInv'
<1> USE DEF IInv
<1>1. TypeOK'
  BY DEF TypeOK, Answered, PageApart
<1>2. PageKnown' /\ PageMasked'
  BY PageStays DEF PageApart, PageKnown
<1>3. OneUpdate'
  <2>1. ASSUME NEW p \in Reqs, Upd(p)' PROVE Upd(p)
    BY <2>1 DEF Upd, Out, Answered
  <2> QED
    BY <2>1, OneStays DEF PageApart
<1>4. ASSUME NEW p \in Reqs PROVE Named(p)' /\ Current(p)'
  <2>1. CASE p = q
    BY <2>1
  <2>2. CASE p # q
    <3>1. SameReq(p) /\ Named(p) /\ Current(p)
      BY <2>2 DEF RequestsKnown, UpdatesCurrent, Answered, SameReq
    <3>2. Named(p)'
      BY <3>1, NamedStays
    <3>3. ~loose' /\ Upd(p) =>
            /\ Here(req[p].of)' => Here(req[p].of)
                                   /\ tools'[req[p].of].body = tools[req[p].of].body
            /\ kept[req[p].of] = None => kept'[req[p].of] = None
      BY <2>2, <3>1 DEF PageApart, SameReq, Here
    <3>4. loose => loose'
      BY DEF PageApart
    <3> QED
      BY <3>1, <3>2, <3>3, <3>4, CurrentStays
  <2> QED
    BY <2>1, <2>2
<1> QED
  BY <1>1, <1>2, <1>3, <1>4 DEF RequestsKnown, UpdatesCurrent

LEMMA CreateKeeps ==
  ASSUME IInv, NEW q \in Reqs, CreateTool(q)
  PROVE  IInv'
<1> USE DEF IInv
<1> DEFINE b == req[q].body
<1>1. b \in Bodies /\ acts' \in 0..MaxActs /\ Out(q) /\ PageApart
  BY DEF TypeOK, ReqRows, CreateTool, Out, PageApart
<1>2. PICK st \in {"ok", "failed"} : Answer(q, st)
  BY DEF CreateTool
<1>3. Answered(q, st, b)
  BY <1>2, AnswerWrites
<1>4. Named(q)' /\ Current(q)'
  BY <1>3 DEF CreateTool, Answered, Named, Current, Upd, Out, Updates
<1>5. CASE UNCHANGED tools
  <2>1. tools' \in [Ids -> Rows] /\ ToolsStay /\ SavesStick'
    BY <1>1, <1>5 DEF TypeOK, ToolsStay, SavesStick, Here, PageApart
  <2> QED
    BY <1>1, <1>3, <1>4, <1>5, <2>1, AnswerKeeps DEF Here
<1>6. ASSUME NEW i \in Ids, tools[i].st = "none",
             tools' = [tools EXCEPT ![i] = [st |-> "here", body |-> b]]
      PROVE  IInv'
  <2>1. [st |-> "here", body |-> b] \in Rows
    BY <1>1 DEF Rows
  <2>2. tools' \in [Ids -> Rows] /\ \A j \in Ids \ {i} : tools'[j] = tools[j]
    BY <1>6, <2>1 DEF TypeOK
  <2>3. ToolsStay
    BY <1>6, <2>2 DEF ToolsStay
  <2>4. SavesStick'
    BY <1>1, <1>6, <2>2 DEF SavesStick, PageKnown, Here, PageApart
  <2>5. ASSUME NEW p \in Reqs, Upd(p)
        PROVE  req[p].of \in Ids \ {i}
    BY <1>6, <2>5 DEF RequestsKnown, Named
  <2> QED
    BY <1>1, <1>3, <1>4, <2>2, <2>3, <2>4, <2>5, AnswerKeeps DEF Here
<1> QED
  BY <1>5, <1>6 DEF CreateTool

LEMMA ReadKeeps ==
  ASSUME IInv, NEW q \in Reqs, PatchRead(q)
  PROVE  IInv'
<1> USE DEF IInv
<1> DEFINE i == req[q].of
           old == tools[i].body
           patch == req[q].body
           new == IF req[q].kind = "toggle" THEN [old EXCEPT !.on = patch.on]
                  ELSE Merged(old, patch)
<1>1. req[q].st = "sent" /\ req[q].kind \in {"save", "toggle"} /\ Upd(q)
  BY DEF PatchRead, Upd, Out, Updates
<1>2. i \in Ids /\ NoSecret(patch)
  BY <1>1 DEF RequestsKnown, Named
<1>3. old \in Bodies /\ patch \in Bodies /\ patch.on \in BOOLEAN
  BY <1>2 DEF TypeOK, Rows, ReqRows, Bodies
<1>4. new \in Bodies /\ Keeps(old, new) /\ (req[q].kind = "toggle" => SameTool(new, old))
  <2> HIDE DEF old, patch
  <2>1. CASE req[q].kind = "toggle"
    <3> DEFINE on == patch.on
               n == [old EXCEPT !.on = on]
    <3>1. n \in Bodies /\ SameTool(n, old)
      BY <1>3, SwitchTyped
    <3>2. new = n
      BY <2>1
    <3>3. Keeps(old, n)
      BY <3>1 DEF SameTool, Keeps
    <3> QED
      BY <3>1, <3>2, <3>3
  <2>2. CASE req[q].kind # "toggle"
    BY <1>2, <1>3, <2>2, MergedTyped
  <2> QED
    BY <2>1, <2>2
<1>5. /\ UNCHANGED tools /\ acts' \in 0..MaxActs /\ PageApart
      /\ \/ req' = [req EXCEPT ![q].st = "read", ![q].body = new]
         \/ Answer(q, "failed")
  BY DEF PatchRead, TypeOK, PageApart, Answer
<1>6. tools' \in [Ids -> Rows] /\ ToolsStay /\ SavesStick'
  BY <1>5 DEF TypeOK, ToolsStay, SavesStick, Here, PageApart
<1>7. CASE req' = [req EXCEPT ![q].st = "read", ![q].body = new]
  <2> HIDE DEF new
  <2>1. Answered(q, "read", new)
    BY <1>4, <1>7, MergeWrites
  <2>2. Named(q)'
    BY <1>1, <1>2, <1>5, <2>1 DEF Answered, RequestsKnown, Named, Upd, Out
  <2>3. Current(q)'
    BY <1>1, <1>4, <1>5, <2>1 DEF Answered, PageApart, UpdatesCurrent, Current, Upd, Out, Here
  <2> QED
    BY <1>1, <1>4, <1>5, <1>6, <2>1, <2>2, <2>3, AnswerKeeps DEF Here, Upd
<1>8. CASE Answer(q, "failed")
  <2>1. Answered(q, "failed", patch)
    BY <1>8, AnswerWrites
  <2>2. Named(q)'
    BY <1>1, <1>2, <1>5, <2>1 DEF Answered, RequestsKnown, Named, Upd, Out
  <2>3. Current(q)'
    BY <2>1 DEF Answered, Current
  <2> QED
    BY <1>1, <1>3, <1>5, <1>6, <2>1, <2>2, <2>3, AnswerKeeps DEF Here, Upd
<1> QED
  BY <1>5, <1>7, <1>8

\* While nothing is loose, the update that writes is the only one, so that
\* nothing else was read before it or saved after it.
LEMMA WriteKeeps ==
  ASSUME IInv, NEW q \in Reqs, PatchWrite(q)
  PROVE  IInv'
<1> USE DEF IInv
<1> DEFINE i == req[q].of
           b == req[q].body
<1>1. req[q].st = "read" /\ req[q].kind \in {"save", "toggle"} /\ Upd(q)
  BY DEF PatchWrite, RequestsKnown, Named, Upd, Out, Updates
<1>2. i \in Ids /\ tools[i].st # "none" /\ b \in Bodies
  BY <1>1 DEF RequestsKnown, Named, TypeOK, ReqRows
<1>3. acts' \in 0..MaxActs /\ PageApart
  BY DEF PatchWrite, TypeOK, PageApart
<1>4. CASE Here(i) /\ tools' = [tools EXCEPT ![i].body = b] /\ Answer(q, "ok")
  <2>1. Answered(q, "ok", b)
    BY <1>4, AnswerWrites
  <2>2. /\ tools' \in [Ids -> Rows] /\ tools'[i].body = b /\ tools'[i].st = "here"
        /\ \A j \in Ids \ {i} : tools'[j] = tools[j]
    BY <1>2, <1>4 DEF TypeOK, Rows, Here
  <2>3. ToolsStay
    BY <2>2 DEF ToolsStay
  <2>4. Named(q)'
    BY <1>1, <1>2, <2>1, <2>2 DEF Answered, Named, Upd, Out
  <2>5. Current(q)'
    BY <2>1, <2>2 DEF Answered, Current, SameTool
  <2>6. ~loose => kept[i] = None \/ SameTool(b, tools[i].body)
    BY <1>1, <1>4 DEF UpdatesCurrent, Current
  <2>7. SavesStick'
    BY <1>3, <1>4, <2>2, <2>6 DEF SavesStick, SameTool, Here, PageApart
  <2>8. ~loose => \A p \in Reqs \ {q} : ~Upd(p)
    BY <1>1 DEF OneUpdate
  <2> QED
    BY <1>1, <1>2, <1>3, <2>1, <2>2, <2>3, <2>4, <2>5, <2>7, <2>8, AnswerKeeps DEF Upd
<1>5. CASE UNCHANGED tools /\ Answer(q, "failed")
  <2>1. Answered(q, "failed", b)
    BY <1>5, AnswerWrites
  <2>2. tools' \in [Ids -> Rows] /\ ToolsStay /\ SavesStick'
    BY <1>3, <1>5 DEF TypeOK, ToolsStay, SavesStick, Here, PageApart
  <2>3. Named(q)'
    BY <1>1, <1>2, <1>5, <2>1 DEF Answered, Named, Upd, Out
  <2>4. Current(q)'
    BY <2>1 DEF Answered, Current
  <2> QED
    BY <1>1, <1>2, <1>3, <1>5, <2>1, <2>2, <2>3, <2>4, AnswerKeeps DEF Here, Upd
<1> QED
  BY <1>4, <1>5 DEF PatchWrite

LEMMA DeleteKeeps ==
  ASSUME IInv, NEW q \in Reqs, DeleteTool(q)
  PROVE  IInv'
<1> USE DEF IInv
<1> DEFINE i == req[q].of
           b == req[q].body
<1>1. i \in Ids /\ Out(q) /\ b \in Bodies /\ acts' \in 0..MaxActs /\ PageApart
  BY DEF DeleteTool, RequestsKnown, Named, Out, TypeOK, ReqRows, PageApart
<1>2. PICK st \in {"ok", "failed"} : Answer(q, st)
  BY DEF DeleteTool
<1>3. Answered(q, st, b)
  BY <1>2, AnswerWrites
<1>4. /\ tools' \in [Ids -> Rows] /\ tools'[i].st = "gone"
      /\ \A j \in Ids \ {i} : tools'[j] = tools[j]
  BY <1>1 DEF DeleteTool, TypeOK, Rows
<1>5. ToolsStay /\ SavesStick'
  BY <1>1, <1>4 DEF ToolsStay, SavesStick, Here, PageApart
<1>6. Named(q)' /\ Current(q)'
  BY <1>3 DEF DeleteTool, Answered, Named, Current, Upd, Out, Updates, RequestsKnown
<1>7. ASSUME NEW p \in Reqs, Upd(p), tools'[req[p].of].st = "here"
      PROVE  Here(req[p].of) /\ tools'[req[p].of].body = tools[req[p].of].body
  BY <1>4, <1>7 DEF RequestsKnown, Named, Here
<1> QED
  BY <1>1, <1>3, <1>4, <1>5, <1>6, <1>7, AnswerKeeps

LEMMA ServerFailsKeeps ==
  ASSUME IInv, NEW q \in Reqs, ServerFails(q)
  PROVE  IInv'
<1> USE DEF IInv
<1> DEFINE b == req[q].body
<1>1. b \in Bodies /\ Out(q) /\ PageApart /\ acts' \in 0..MaxActs /\ UNCHANGED tools
  BY ActTyped DEF ServerFails, Out, TypeOK, ReqRows, PageApart
<1>2. Answered(q, "failed", b)
  BY AnswerWrites DEF ServerFails
<1>3. tools' \in [Ids -> Rows] /\ ToolsStay /\ SavesStick'
  BY <1>1 DEF TypeOK, ToolsStay, SavesStick, Here, PageApart
<1>4. Named(q)'
  BY <1>1, <1>2 DEF Answered, RequestsKnown, Named, Upd, Out
<1>5. Current(q)'
  BY <1>2 DEF Answered, Current
<1> QED
  BY <1>1, <1>2, <1>3, <1>4, <1>5, AnswerKeeps DEF Here

\* Who hears of a request changes none of its other parts.
HeardElsewhere ==
  /\ req' \in [Reqs -> ReqRows] /\ \A p \in Reqs : SameReq(p)
  /\ UNCHANGED <<tools, kept, loose>>

LEMMA ByWritten ==
  ASSUME NEW r \in ReqRows, NEW by \in {"page", "other", "nobody"}
  PROVE  /\ [r EXCEPT !.by = by] \in ReqRows
         /\ [r EXCEPT !.by = by].st = r.st /\ [r EXCEPT !.by = by].kind = r.kind
         /\ [r EXCEPT !.by = by].of = r.of /\ [r EXCEPT !.by = by].body = r.body
BY DEF ReqRows

LEMMA HeardKeeps ==
  ASSUME IInv, HeardElsewhere
  PROVE  OneUpdate' /\ RequestsKnown' /\ UpdatesCurrent' /\ SavesStick'
<1> USE DEF IInv, HeardElsewhere
<1>1. OneUpdate'
  BY DEF OneUpdate, SameReq, Upd, Out
<1>2. ASSUME NEW p \in Reqs PROVE Named(p)' /\ Current(p)'
  <2>1. Named(p) /\ Current(p) /\ SameReq(p) /\ ToolsStay
    BY DEF RequestsKnown, UpdatesCurrent, ToolsStay
  <2> QED
    BY <2>1, NamedStays, CurrentStays DEF Here, SameReq
<1>3. SavesStick'
  BY DEF SavesStick, Here
<1> QED
  BY <1>1, <1>2, <1>3 DEF RequestsKnown, UpdatesCurrent

LEMMA LoseConnectionKeeps ==
  ASSUME IInv, NEW q \in Reqs, LoseConnection(q)
  PROVE  IInv'
<1> USE DEF IInv
<1> DEFINE r == req[q]
           s == [r EXCEPT !.by = "nobody"]
<1>1. r \in ReqRows /\ req' = [req EXCEPT ![q] = s]
  BY DEF LoseConnection, TypeOK
<1>2. s \in ReqRows /\ s.st = r.st /\ s.kind = r.kind /\ s.of = r.of /\ s.body = r.body
  BY <1>1, ByWritten
<1> HIDE DEF s
<1>3. HeardElsewhere
  BY <1>1, <1>2, ReqWritten DEF HeardElsewhere, SameReq, LoseConnection
<1>4. UNCHANGED <<tools, list, form, details, asking, kept, loose>> /\ acts' \in 0..MaxActs
  BY ActTyped DEF LoseConnection
<1>5. TypeOK'
  BY <1>3, <1>4 DEF TypeOK, HeardElsewhere
<1>6. PageKnown' /\ PageMasked'
  BY <1>4 DEF PageKnown, PageMasked, Listed, NoSecret
<1> QED
  BY <1>3, <1>5, <1>6, HeardKeeps

LEMMA LeaveKeeps ==
  ASSUME IInv, Leave
  PROVE  IInv'
<1> USE DEF IInv
<1> DEFINE yes == TRUE
<1>1. ASSUME NEW p \in Reqs PROVE req'[p] \in ReqRows /\ SameReq(p)
  <2> DEFINE r == req[p]
             s == [r EXCEPT !.by = "other"]
  <2>1. r \in ReqRows /\ req'[p] = IF r.by = "page" THEN s ELSE r
    BY DEF Leave, TypeOK
  <2>2. s \in ReqRows /\ s.st = r.st /\ s.kind = r.kind /\ s.of = r.of /\ s.body = r.body
    BY <2>1, ByWritten
  <2> HIDE DEF s
  <2> QED
    BY <2>1, <2>2 DEF SameReq
<1>2. req' \in [Reqs -> ReqRows]
  <2>1. req' = [p \in Reqs |-> req'[p]]
    BY DEF Leave
  <2> QED
    BY <1>1, <2>1
<1>3. HeardElsewhere
  BY <1>1, <1>2 DEF HeardElsewhere, Leave
<1>4. /\ form' = Closed /\ details' = NoDetails /\ asking' = None /\ acts' \in 0..MaxActs
      /\ list' = [list EXCEPT !.out = yes] /\ yes \in BOOLEAN /\ UNCHANGED <<tools, kept, loose>>
  BY ActTyped DEF Leave
<1> HIDE DEF yes
<1>5. list' \in Lists /\ list'.data = list.data
  BY <1>4 DEF TypeOK, Lists
<1>6. TypeOK'
  BY <1>2, <1>4, <1>5, NothingTyped DEF TypeOK
<1>7. PageKnown' /\ PageMasked'
  BY <1>4, <1>5, EmptyTyped DEF PageKnown, PageMasked, Listed, NoSecret, Closed, NoDetails
<1> QED
  BY <1>3, <1>6, <1>7, HeardKeeps

-----------------------------------------------------------------------------
(* Answers                                                                 *)

\* A request is over. What the others are at, the tools, is left alone; what
\* counts as saved may have been added to by the only update.
LEMMA EndKeeps ==
  ASSUME IInv, NEW q \in Reqs, Out(q), req' = [req EXCEPT ![q] = NoReq],
         UNCHANGED <<tools, loose>>,
         TypeOK', PageKnown', PageMasked', SavesStick',
         kept' = kept \/ (Upd(q) /\ \E body \in Bodies : kept' = [kept EXCEPT ![req[q].of] = body])
  PROVE  IInv'
<1> USE DEF IInv
<1>1. req'[q] = NoReq /\ \A p \in Reqs \ {q} : req'[p] = req[p]
  BY NothingTyped, ReqWritten
<1>2. NoReq.st = "free" /\ NoReq.kind = "none"
  BY DEF NoReq
<1>3. OneUpdate'
  <2>1. ASSUME NEW p \in Reqs, Upd(p)' PROVE Upd(p)
    BY <1>1, <1>2, <2>1 DEF Upd, Out
  <2> QED
    BY <2>1, OneStays
<1>4. ASSUME NEW p \in Reqs PROVE Named(p)' /\ Current(p)'
  <2>1. CASE p = q
    BY <1>1, <1>2, <2>1 DEF Named, Current, Upd, Out
  <2>2. CASE p # q
    <3>1. SameReq(p) /\ Named(p) /\ Current(p) /\ ToolsStay
      BY <1>1, <2>2 DEF RequestsKnown, UpdatesCurrent, SameReq, ToolsStay
    <3>2. Named(p)'
      BY <3>1, NamedStays
    <3>3. ~loose' /\ Upd(p) =>
            /\ Here(req[p].of)' => Here(req[p].of)
                                   /\ tools'[req[p].of].body = tools[req[p].of].body
            /\ kept[req[p].of] = None => kept'[req[p].of] = None
      <4>1. ~loose' /\ Upd(p) => ~Upd(q)
        BY <2>2 DEF OneUpdate
      <4> QED
        BY <3>1, <4>1 DEF SameReq, Here
    <3> QED
      BY <3>1, <3>2, <3>3, CurrentStays
  <2> QED
    BY <2>1, <2>2
<1> QED
  BY <1>3, <1>4 DEF RequestsKnown, UpdatesCurrent

LEMMA SucceededKeeps ==
  ASSUME IInv, NEW q \in Reqs, Succeeded(q)
  PROVE  IInv'
<1> USE DEF IInv
<1> DEFINE i == req[q].of
           b == req[q].body
           yes == TRUE
           no == FALSE
<1>1. Out(q) /\ b \in Bodies
  BY DEF Succeeded, Out, TypeOK, ReqRows
<1>2. /\ list' = [list EXCEPT !.out = yes]
      /\ form' = [form EXCEPT !.open = no] \/ form' = form
      /\ yes \in BOOLEAN /\ no \in BOOLEAN
  BY DEF Succeeded
<1> HIDE DEF yes, no
<1>3. list' \in Lists /\ list'.data = list.data
  BY <1>2 DEF TypeOK, Lists
<1>4. form' \in Forms /\ form'.of = form.of /\ form'.body = form.body
  BY <1>2 DEF TypeOK, Forms
<1>5. /\ req' = [req EXCEPT ![q] = NoReq] /\ req' \in [Reqs -> ReqRows]
      /\ asking' \in Ids \cup {None} /\ UNCHANGED <<tools, details, acts, loose>>
  BY NothingTyped, ReqWritten DEF Succeeded, TypeOK
<1>6. CASE req[q].kind = "save"
  <2>1. Upd(q) /\ i \in Ids /\ tools[i].st # "none"
    BY <1>1, <1>6 DEF RequestsKnown, Named, Upd, Updates
  <2>2. kept' = [kept EXCEPT ![i] = b] /\ kept' \in [Ids -> Bodies \cup {None}]
    BY <1>1, <1>6, <2>1 DEF Succeeded, TypeOK
  <2>3. TypeOK'
    BY <1>3, <1>4, <1>5, <2>2 DEF TypeOK
  <2>4. kept'[i] = b /\ \A j \in Ids \ {i} : kept'[j] = kept[j]
    BY <2>1, <2>2 DEF TypeOK
  <2>5. PageKnown' /\ PageMasked'
    BY <1>3, <1>4, <1>5, <2>1, <2>4 DEF PageKnown, PageMasked, Listed, NoSecret
  <2>6. ~loose /\ Here(i) => SameTool(tools[i].body, b)
    BY <1>6, <2>1 DEF Succeeded, UpdatesCurrent, Current
  <2>7. SavesStick'
    BY <1>5, <2>4, <2>6 DEF SavesStick, SameTool, Here
  <2> QED
    BY <1>1, <1>5, <2>1, <2>2, <2>3, <2>5, <2>7, EndKeeps
<1>7. CASE req[q].kind # "save"
  <2>1. kept' = kept
    BY <1>7 DEF Succeeded
  <2>2. TypeOK'
    BY <1>3, <1>4, <1>5, <2>1 DEF TypeOK
  <2>3. PageKnown' /\ PageMasked'
    BY <1>3, <1>4, <1>5, <2>1 DEF PageKnown, PageMasked, Listed, NoSecret
  <2>4. SavesStick'
    BY <1>5, <2>1 DEF SavesStick, Here
  <2> QED
    BY <1>1, <1>5, <2>1, <2>2, <2>3, <2>4, EndKeeps
<1> QED
  BY <1>6, <1>7

LEMMA FailedKeeps ==
  ASSUME IInv, NEW q \in Reqs, Failed(q) \/ Unheard(q)
  PROVE  IInv'
<1> USE DEF IInv
<1>1. Out(q) /\ req' = [req EXCEPT ![q] = NoReq] /\ req' \in [Reqs -> ReqRows]
      /\ UNCHANGED <<tools, list, form, details, asking, acts, kept, loose>>
  BY NothingTyped, ReqWritten DEF Failed, Unheard, Out
<1>2. TypeOK'
  BY <1>1 DEF TypeOK
<1>3. PageKnown' /\ PageMasked' /\ SavesStick'
  BY <1>1 DEF PageKnown, PageMasked, SavesStick, Listed, Here, NoSecret
<1> QED
  BY <1>1, <1>2, <1>3, EndKeeps

LEMMA ListKeeps ==
  ASSUME IInv, ListArrives
  PROVE  IInv'
<1> USE DEF IInv
<1> DEFINE seen(i) == IF Here(i) THEN [tools[i] EXCEPT !.body = Masked(@)] ELSE NoRow
           no == FALSE
<1>1. ASSUME NEW i \in Ids
      PROVE  /\ seen(i) \in Rows /\ NoSecret(seen(i).body)
             /\ seen(i).st = "here" => tools[i].st # "none"
  <2> DEFINE t == tools[i]
             m == Masked(t.body)
  <2>1. t \in Rows /\ t.body \in Bodies
    BY DEF TypeOK, Rows
  <2>2. m \in Bodies /\ NoSecret(m)
    BY <2>1, MaskedTyped
  <2> HIDE DEF m
  <2>3. [t EXCEPT !.body = m] \in Rows /\ [t EXCEPT !.body = m].body = m
    BY <2>1, <2>2 DEF Rows
  <2>4. Here(i) => seen(i) = [t EXCEPT !.body = m]
    BY DEF m
  <2>5. NoRow \in Rows /\ NoSecret(NoRow.body) /\ NoRow.st = "none"
    BY NothingTyped, EmptyTyped DEF NoRow
  <2>6. Here(i) => tools[i].st # "none"
    BY DEF Here
  <2> QED
    BY <2>2, <2>3, <2>4, <2>5, <2>6
<1>2. list' = [out |-> no, data |-> [i \in Ids |-> seen(i)]] /\ no \in BOOLEAN
  BY DEF ListArrives
<1>3. UNCHANGED <<tools, form, details, asking, req, acts, kept, loose>>
  BY DEF ListArrives
<1> HIDE DEF seen, no
<1>4. list' \in Lists /\ \A i \in Ids : list'.data[i] = seen(i)
  BY <1>1, <1>2 DEF Lists
<1>5. TypeOK'
  BY <1>3, <1>4 DEF TypeOK
<1>6. PageKnown' /\ PageMasked'
  BY <1>1, <1>3, <1>4 DEF PageKnown, PageMasked, Listed, NoSecret
<1>7. OneUpdate' /\ RequestsKnown' /\ UpdatesCurrent' /\ SavesStick'
  BY <1>3 DEF OneUpdate, RequestsKnown, UpdatesCurrent, SavesStick, Named, Current, Upd, Out, Here
<1> QED
  BY <1>5, <1>6, <1>7

-----------------------------------------------------------------------------
(* The theorems                                                            *)

LEMMA Starts == Init => IInv
<1> SUFFICES ASSUME Init PROVE IInv
  OBVIOUS
<1> DEFINE first == [st |-> "here", body |-> First]
           shown == [st |-> "here", body |-> Masked(First)]
           no == FALSE
<1>1. first \in Rows /\ shown \in Rows /\ NoSecret(shown.body) /\ first.st = "here"
  BY FirstTyped, MaskedTyped DEF Rows
<1>2. NoRow \in Rows /\ NoRow.st = "none" /\ NoSecret(NoRow.body)
  BY NothingTyped, EmptyTyped DEF NoRow
<1>3. /\ tools = [i \in Ids |-> IF i = 1 THEN first ELSE NoRow]
      /\ list = [out |-> no, data |-> [i \in Ids |-> IF i = 1 THEN shown ELSE NoRow]]
      /\ no \in BOOLEAN
  BY DEF Init
<1> HIDE DEF first, shown, no
<1>4. tools \in [Ids -> Rows] /\ list \in Lists
  BY <1>1, <1>2, <1>3 DEF Lists
<1>5. /\ \A i \in Ids : list.data[i] = IF i = 1 THEN shown ELSE NoRow
      /\ \A i \in Ids : tools[i] = IF i = 1 THEN first ELSE NoRow
  BY <1>3
<1>6. TypeOK
  <2>1. form \in Forms /\ details \in Details /\ req \in [Reqs -> ReqRows]
    BY NothingTyped DEF Init
  <2>2. kept \in [Ids -> Bodies \cup {None}] /\ loose \in BOOLEAN
    BY DEF Init
  <2>3. acts \in 0..MaxActs /\ asking \in Ids \cup {None}
    BY DEF Init
  <2> QED
    BY <1>4, <2>1, <2>2, <2>3 DEF TypeOK
<1>7. PageKnown /\ PageMasked
  BY <1>1, <1>2, <1>5, EmptyTyped DEF Init, PageKnown, PageMasked, Listed, Closed, NoDetails
<1>8. \A q \in Reqs : req[q].st = "free" /\ ~Upd(q)
  BY DEF Init, NoReq, Upd, Out
<1>9. OneUpdate /\ RequestsKnown /\ UpdatesCurrent
  BY <1>8 DEF OneUpdate, RequestsKnown, UpdatesCurrent, Named, Current, Out
<1>10. SavesStick
  BY DEF Init, SavesStick
<1> QED
  BY <1>6, <1>7, <1>9, <1>10 DEF IInv

LEMMA EveryStep == IInv /\ [Next]_vars => IInv'
<1> SUFFICES ASSUME IInv, [Next]_vars PROVE IInv'
  OBVIOUS
<1>1. CASE EditorStep
  BY <1>1, EditorMoves, PageKeeps
<1>2. CASE PageStep
  BY <1>2, PageStepMoves, PageKeeps, LeaveKeeps
<1>3. ASSUME NEW q \in Reqs,
             \/ SaveTool(q) \/ AddTemplateDirectly(q) \/ ConfirmDelete(q)
             \/ \E i \in Ids : Toggle(q, i) \/ ToggleInDetails(q, i) \/ ToggleInSettings(q, i)
      PROVE  IInv'
  BY <1>3, RequestsSent
<1>4. ASSUME NEW q \in Reqs,
             CreateTool(q) \/ PatchRead(q) \/ PatchWrite(q) \/ DeleteTool(q) \/ ServerFails(q)
      PROVE  IInv'
  BY <1>4, CreateKeeps, ReadKeeps, WriteKeeps, DeleteKeeps, ServerFailsKeeps
<1>5. ASSUME NEW q \in Reqs, LoseConnection(q) \/ Unheard(q) \/ Succeeded(q) \/ Failed(q)
      PROVE  IInv'
  BY <1>5, LoseConnectionKeeps, SucceededKeeps, FailedKeeps
<1>6. CASE ListArrives
  BY <1>6, ListKeeps
<1>7. CASE UNCHANGED vars
  <2>1. /\ form' = form /\ details' = details /\ asking' = asking /\ acts' = acts
        /\ UNCHANGED <<tools, list, req, kept, loose>>
    BY <1>7 DEF vars
  <2>2. PageMoves
    BY <2>1 DEF PageMoves, IInv, TypeOK, PageKnown, PageMasked
  <2> QED
    BY <2>2, PageKeeps
<1> QED
  BY <1>1, <1>2, <1>3, <1>4, <1>5, <1>6, <1>7 DEF Next, RequestStep

LEMMA Inductive == Spec => []IInv
<1> QED
  BY Starts, EveryStep, PTL DEF Spec

\* Every variable of the page and of the server keeps its type.
THEOREM TypeCorrect == Spec => []TypeOK
<1>1. IInv => TypeOK
  BY DEF IInv
<1> QED
  BY <1>1, Inductive, PTL

\* validateForm mirrors ToolConfig.Validate on whatever the editor holds, but
\* for the sizes, the JSON and the URLs that are named.
THEOREM RulesMirrored == Spec => []ClientMirrorsServer
<1>1. IInv => ClientMirrorsServer
  <2> SUFFICES ASSUME IInv PROVE ClientMirrorsServer
    OBVIOUS
  <2>1. form.body \in Bodies
    BY DEF IInv, TypeOK, Forms
  <2> QED
    BY <2>1, RulesAgree DEF ClientMirrorsServer
<1> QED
  BY <1>1, Inductive, PTL

\* An answered save stays saved although every PATCH writes the row it read.
THEOREM SavesAreKept == Spec => []SavesStick
<1>1. IInv => SavesStick
  BY DEF IInv
<1> QED
  BY <1>1, Inductive, PTL

\* No step replaces a stored secret but by one that was typed.
THEOREM SecretsAreKept == Spec => SecretsSurvive
<1> DEFINE Survive ==
      \A i \in Ids, k \in Keys :
        LET old == tools[i].body.heads[k]  new == tools'[i].body.heads[k] IN
        ~loose /\ Here(i) /\ tools'[i].st = "here" /\ old \in {"secret", "typed", "long"}
          => new \in {old, "typed", "long"}
<1>1. IInv /\ [Next]_vars => [Survive]_vars
  <2> SUFFICES ASSUME IInv, [Next]_vars PROVE Survive
    OBVIOUS
  <2>1. CASE tools' = tools
    BY <2>1
  <2>2. ASSUME NEW q \in Reqs, CreateTool(q) PROVE Survive
    <3>1. CASE tools' = tools
      BY <3>1
    <3>2. ASSUME NEW i \in Ids, tools[i].st = "none",
                 tools' = [tools EXCEPT ![i] = [st |-> "here", body |-> req[q].body]]
          PROVE  Survive
      <4>1. \A j \in Ids : Here(j) => tools'[j] = tools[j]
        BY <3>2 DEF IInv, TypeOK, Here
      <4> QED
        BY <4>1
    <3> QED
      BY <2>2, <3>1, <3>2 DEF CreateTool
  <2>3. ASSUME NEW q \in Reqs, PatchWrite(q) PROVE Survive
    <3> DEFINE i == req[q].of
    <3>1. req[q].st = "read" /\ Upd(q) /\ i \in Ids
      BY <2>3 DEF PatchWrite, IInv, RequestsKnown, Named, Upd, Out
    <3>2. CASE Here(i) /\ tools' = [tools EXCEPT ![i].body = req[q].body]
      <4>1. ~loose => Keeps(tools[i].body, req[q].body)
        BY <3>1, <3>2 DEF IInv, UpdatesCurrent, Current
      <4>2. tools'[i].body = req[q].body /\ \A j \in Ids \ {i} : tools'[j] = tools[j]
        BY <3>1, <3>2 DEF IInv, TypeOK, Rows
      <4> QED
        BY <4>1, <4>2 DEF Keeps
    <3>3. CASE tools' = tools
      BY <3>3
    <3> QED
      BY <2>3, <3>2, <3>3 DEF PatchWrite
  <2>4. ASSUME NEW q \in Reqs, DeleteTool(q) PROVE Survive
    <3>1. \A j \in Ids : tools'[j].body = tools[j].body
      BY <2>4 DEF DeleteTool, IInv, TypeOK, Rows
    <3> QED
      BY <3>1
  <2>5. CASE EditorStep \/ PageStep
    BY <2>5, EditorMoves, PageStepMoves, <2>1 DEF PageMoves, Leave
  <2>6. ASSUME NEW q \in Reqs,
               \/ SaveTool(q) \/ AddTemplateDirectly(q) \/ ConfirmDelete(q)
               \/ \E i \in Ids : Toggle(q, i) \/ ToggleInDetails(q, i) \/ ToggleInSettings(q, i)
        PROVE  tools' = tools
    BY <2>6 DEF SaveTool, AddTemplateDirectly, ConfirmDelete, Toggle, ToggleInDetails,
                ToggleInSettings
  <2>7. ASSUME NEW q \in Reqs,
               \/ PatchRead(q) \/ ServerFails(q) \/ LoseConnection(q) \/ Unheard(q)
               \/ Succeeded(q) \/ Failed(q)
        PROVE  tools' = tools
    BY <2>7 DEF PatchRead, ServerFails, LoseConnection, Unheard, Succeeded, Failed
  <2>8. ListArrives \/ UNCHANGED vars => tools' = tools
    BY DEF ListArrives, vars
  <2> QED
    BY <2>1, <2>2, <2>3, <2>4, <2>5, <2>6, <2>7, <2>8 DEF Next, RequestStep
<1> QED
  BY <1>1, Inductive, PTL DEF Spec, SecretsSurvive

=============================================================================
