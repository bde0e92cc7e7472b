--------------------------- MODULE ChatClientProofs ---------------------------
(* Proofs about the pages that hold a conversation, for every value of the *)
(* constants.                                                              *)
EXTENDS ChatClient, SequenceTheorems, WellFoundedInduction, TLAPS

USE ChatClientAssumption DEF sent

-----------------------------------------------------------------------------
(* Helpers on threads                                                      *)

Lesser == OpToRel(<, Nat)

LEMMA LesserMeans ==
  ASSUME NEW x \in Nat, NEW y \in Nat
  PROVE  <<y, x>> \in Lesser <=> y < x
BY DEF Lesser, OpToRel

LEMMA LesserIsWellFounded == IsWellFoundedOn(Lesser, Nat)
BY NatLessThanWellFounded DEF Lesser

\* A non-empty set of positions has a last one.
LEMMA LastExists ==
  ASSUME NEW n \in Nat, NEW S, S \subseteq 0..n, S # {}
  PROVE  \E i \in S : \A j \in S : j <= i
<1> DEFINE T == {n - i : i \in S}
<1>1. \A i \in S : i \in 0..n /\ n - i \in Nat
  OBVIOUS
<1>2. T \subseteq Nat /\ T # {}
  <2>1. PICK i \in S : TRUE
    OBVIOUS
  <2>2. n - i \in T
    OBVIOUS
  <2>3. T \subseteq Nat
    BY <1>1
  <2> QED
    BY <2>2, <2>3
<1> HIDE DEF T
<1>3. PICK x \in T : \A y \in T : ~(<<y, x>> \in Lesser)
  BY <1>2, LesserIsWellFounded, WFMin
<1>4. \A y \in T : ~(y < x)
  BY <1>2, <1>3, LesserMeans
<1>5. PICK i \in S : x = n - i
  BY DEF T
<1>6. \A j \in S : n - j \in T
  BY DEF T
<1> QED
  BY <1>1, <1>4, <1>5, <1>6

LEMMA UpToTyped ==
  ASSUME NEW s \in Seq(Msgs), NEW n \in 0..Len(s)
  PROVE  UpTo(s, n) \in Seq(Msgs)
<1>1. \A i \in 1..n : s[i] \in Msgs
  BY LenProperties, ElementOfSeq
<1> QED
  BY <1>1, SubSeqProperties, LenProperties DEF UpTo

LEMMA MessageTyped ==
  ASSUME NEW id \in Ids, NEW role \in {"user", "assistant"}
  PROVE  /\ Message(id, role) \in Msgs /\ Placeholder(id) \in Msgs
         /\ Message(id, role).id = id
BY DEF Message, Placeholder, Msgs

LEMMA IndexTyped ==
  ASSUME NEW s \in Seq(Msgs), NEW id, NEW i \in IndexOf(s, id)
  PROVE  i \in 1..Len(s) /\ s[i] \in Msgs /\ s[i].id = id /\ id \in Ids
<1>1. i \in 1..Len(s) /\ s[i].id = id
  BY LenProperties DEF IndexOf
<1>2. s[i] \in Msgs
  BY <1>1, ElementOfSeq
<1> QED
  BY <1>1, <1>2 DEF Msgs

LEMMA BeforeTyped ==
  ASSUME NEW s \in Seq(Msgs), NEW id
  PROVE  Before(s, id) \in Seq(Msgs)
<1>1. CASE IndexOf(s, id) # {}
  <2> DEFINE i == CHOOSE i \in IndexOf(s, id) : TRUE
  <2>1. i \in IndexOf(s, id)
    BY <1>1
  <2> HIDE DEF i
  <2>2. i \in 1..Len(s)
    BY <2>1, IndexTyped
  <2>3. i - 1 \in 0..Len(s)
    BY <2>2, LenProperties
  <2>4. UpTo(s, i - 1) \in Seq(Msgs)
    BY <2>3, UpToTyped
  <2> QED
    BY <1>1, <2>4 DEF Before, i
<1> QED
  BY <1>1 DEF Before

\* Nothing is cut from an empty thread, and nothing in it settles.
LEMMA EmptyStays ==
  ASSUME NEW id
  PROVE  Before(<<>>, id) = <<>> /\ Settled(<<>>, id) = <<>>
BY DEF Before, IndexOf, Settled

LEMMA LastUserTyped ==
  ASSUME NEW s \in Seq(Msgs)
  PROVE  LastUser(s) \in 0..Len(s)
<1> DEFINE us == {i \in DOMAIN s : s[i].role = "user"}
<1>1. Len(s) \in Nat /\ DOMAIN s = 1..Len(s)
  BY LenProperties
<1>2. us \subseteq 0..Len(s)
  BY <1>1
<1>3. CASE us # {}
  <2>1. \E i \in us : \A j \in us : j <= i
    <3> HIDE DEF us
    <3> QED
      BY <1>1, <1>2, <1>3, LastExists
  <2>2. (CHOOSE i \in us : \A j \in us : j <= i) \in us
    <3> HIDE DEF us
    <3> QED
      BY <2>1
  <2>3. LastUser(s) = CHOOSE i \in us : \A j \in us : j <= i
    BY <1>3 DEF LastUser
  <2> HIDE DEF us
  <2> QED
    BY <1>2, <2>2, <2>3
<1>4. CASE us = {}
  BY <1>1, <1>4 DEF LastUser
<1> QED
  BY <1>3, <1>4

\* What a stream does to its placeholder keeps a thread a thread.
LEMMA ThreadMapped ==
  ASSUME NEW s \in Seq(Msgs), NEW id, NEW new \in Ids
  PROVE  /\ Settled(s, id) \in Seq(Msgs) /\ Failed(s, id) \in Seq(Msgs)
         /\ Renamed(s, id, new) \in Seq(Msgs)
<1>1. Len(s) \in Nat /\ DOMAIN s = 1..Len(s) /\ \A i \in 1..Len(s) : s[i] \in Msgs
  BY LenProperties, ElementOfSeq
<1>2. \A m \in Msgs : [m EXCEPT !.streaming = FALSE] \in Msgs
  BY DEF Msgs
<1>3. \A m \in Msgs : [m EXCEPT !.streaming = FALSE, !.error = TRUE] \in Msgs
  BY DEF Msgs
<1>4. \A m \in Msgs : [m EXCEPT !.id = new, !.streaming = FALSE] \in Msgs
  BY DEF Msgs
<1>5. Settled(s, id) \in [1..Len(s) -> Msgs]
  BY <1>1, <1>2 DEF Settled
<1>6. Failed(s, id) \in [1..Len(s) -> Msgs]
  BY <1>1, <1>3 DEF Failed
<1>7. Renamed(s, id, new) \in [1..Len(s) -> Msgs]
  BY <1>1, <1>4 DEF Renamed
<1> QED
  BY <1>1, <1>5, <1>6, <1>7, IsASeq

-----------------------------------------------------------------------------
(* Types, by groups of variables                                           *)

\* A request that is out names its conversation.
RunsNameConvs == \A r \in Runs : run[r].st # "free" => run[r].conv \in Convs

\* So does one that was let go of, and the calls it approves are noted.
GoneKnown == \A q \in gone : q.conv \in Convs /\ (q.ok => q.calls \subseteq loose)

Types == TypeOK /\ RunsNameConvs /\ GoneKnown

ChatTyped ==
  /\ thread \in Seq(Msgs) /\ pending \subseteq Ids
  /\ status \in {"idle", "running", "error"} /\ active \in Runs \cup {None}

RunsTyped == run \in [Runs -> RunRows] /\ RunsNameConvs

ServerTyped ==
  /\ rows \in [Convs -> Seq(Msgs) \cup {None}] /\ asked \in [Convs -> SUBSET Ids]
  /\ executed \subseteq Ids /\ nextId \in 1..(MaxIds + 1)

PageTyped ==
  /\ page \in Pages /\ selected \in Convs \cup {None} /\ fresh \in BOOLEAN
  /\ seeded \in Convs \cup {None} /\ creating \in Nat /\ doomed \in Ids \cup {None}
  /\ del \in Deletions \cup {None}

RestTyped ==
  /\ cache \in [Convs -> Seq(Msgs) \cup {None}] /\ fetch \subseteq Convs
  /\ denied \subseteq Ids /\ acts \in 0..MaxActs /\ crossed \in BOOLEAN

GoneTyped == gone \subseteq RunRows /\ GoneKnown /\ loose \subseteq Ids

\* Everything but what the page let go of.
StateTyped == ChatTyped /\ RunsTyped /\ ServerTyped /\ PageTyped /\ RestTyped

LEMMA TypesSplit ==
  /\ Types => ChatTyped /\ RunsTyped /\ ServerTyped /\ PageTyped /\ RestTyped
  /\ ChatTyped' /\ RunsTyped' /\ ServerTyped' /\ PageTyped' /\ RestTyped' => StateTyped'
BY DEF Types, TypeOK, ChatTyped, RunsTyped, ServerTyped, PageTyped, RestTyped, StateTyped

LEMMA TypesJoin ==
  /\ Types <=> StateTyped /\ GoneTyped
  /\ Types' <=> StateTyped' /\ GoneTyped'
BY DEF Types, TypeOK, StateTyped, GoneTyped, ChatTyped, RunsTyped, ServerTyped, PageTyped, RestTyped

LEMMA FreeTyped == NoRun \in RunRows /\ NoRun.st = "free"
<1>1. <<>> \in Seq(Frames)
  BY EmptySeq
<1> QED
  BY <1>1 DEF NoRun, RunRows

LEMMA PostedTyped ==
  ASSUME NEW k \in Kinds, NEW c \in Convs, NEW slot \in Ids, NEW target \in Ids \cup {None},
         NEW calls \in SUBSET Ids, NEW ok \in BOOLEAN
  PROVE  LET q == Posted(k, c, slot, target, calls, ok)
         IN  /\ q \in RunRows /\ q.st = "posted" /\ q.conv = c /\ q.kind = k
             /\ q.calls = calls /\ q.ok = ok
<1>1. <<>> \in Seq(Frames)
  BY EmptySeq
<1> QED
  BY <1>1 DEF Posted, RunRows

LEMMA RunMoved ==
  ASSUME NEW x \in RunRows, NEW s \in {"refused", "aborted"}
  PROVE  LET y == [x EXCEPT !.st = s]
         IN  y \in RunRows /\ y.st = s /\ y.conv = x.conv
BY DEF RunRows

LEMMA FrameTyped ==
  ASSUME NEW n \in Ids
  PROVE  /\ [event |-> "done", ref |-> n] \in Frames
         /\ [event |-> "approval_request", ref |-> n] \in Frames
         /\ [event |-> "error", ref |-> None] \in Frames
BY DEF Frames

LEMMA AnsweredTyped ==
  ASSUME NEW x \in RunRows, NEW f \in Frames
  PROVE  Answered(x, f) \in RunRows /\ Answered(x, f).conv = x.conv
         /\ Answered(x, f).st = "open"
<1>1. <<f>> \in Seq(Frames)
  OBVIOUS
<1> DEFINE fs == <<f>>
<1> HIDE DEF fs
<1>2. LET y == [x EXCEPT !.st = "open", !.frames = fs]
      IN  y \in RunRows /\ y.conv = x.conv /\ y.st = "open"
  BY <1>1 DEF RunRows, fs
<1> QED
  BY <1>2 DEF Answered, fs

LEMMA ConsumedTyped ==
  ASSUME NEW x \in RunRows, x.frames # <<>>
  PROVE  LET f == Head(x.frames)
             y == Consumed(x, f)
         IN  y \in RunRows /\ y.conv = x.conv /\ y.st = x.st /\ f \in Frames
<1> DEFINE f == Head(x.frames)
           fs == Tail(x.frames)
           slot == IF f.event = "done" THEN f.ref ELSE x.slot
           bad == x.failed \/ f.event = "error"
<1>1. x.frames \in Seq(Frames) /\ x.slot \in Ids \cup {None} /\ x.failed \in BOOLEAN
  BY DEF RunRows
<1>2. f \in Frames /\ fs \in Seq(Frames)
  BY <1>1, HeadTailProperties
<1> HIDE DEF f, fs
<1>3. slot \in Ids \cup {None} /\ bad \in BOOLEAN
  BY <1>1, <1>2 DEF Frames
<1>4. Consumed(x, f) = [x EXCEPT !.frames = fs, !.slot = slot, !.failed = bad]
  BY DEF Consumed, fs
<1> HIDE DEF slot, bad
<1>5. Consumed(x, f) \in RunRows /\ Consumed(x, f).conv = x.conv /\ Consumed(x, f).st = x.st
  BY <1>2, <1>3, <1>4 DEF RunRows
<1> QED
  BY <1>2, <1>5 DEF f

LEMMA RunWritten ==
  ASSUME RunsTyped, NEW r \in Runs, NEW q \in RunRows, q.st # "free" => q.conv \in Convs,
         run' = [run EXCEPT ![r] = q]
  PROVE  RunsTyped'
BY DEF RunsTyped, RunsNameConvs

LEMMA StatusWritten ==
  ASSUME RunsTyped, NEW r \in Runs, NEW s \in {"refused", "aborted"},
         run[r].st # "free", run' = [run EXCEPT ![r].st = s]
  PROVE  RunsTyped'
<1>1. run[r] \in RunRows /\ run[r].conv \in Convs
  BY DEF RunsTyped, RunsNameConvs
<1>2. run' = [run EXCEPT ![r] = [run[r] EXCEPT !.st = s]]
  OBVIOUS
<1> QED
  BY <1>1, <1>2, RunMoved, RunWritten

LEMMA AbortedTyped ==
  ASSUME RunsTyped, active \in Runs \cup {None}, run' = Aborted
  PROVE  RunsTyped'
<1>1. CASE UNCHANGED run
  BY <1>1 DEF RunsTyped, RunsNameConvs
<1>2. CASE active # None /\ ~Open(active)
  <2>1. run' = [run EXCEPT ![active].st = run[active].st]
    BY <1>2 DEF Aborted
  <2>2. UNCHANGED run
    BY <1>2, <2>1 DEF RunsTyped, RunRows
  <2> QED
    BY <1>1, <2>2
<1>3. CASE active # None /\ Open(active)
  <2>1. run' = [run EXCEPT ![active].st = "aborted"] /\ run[active].st # "free"
    BY <1>3 DEF Aborted, Open
  <2> QED
    BY <1>3, <2>1, StatusWritten
<1> QED
  BY <1>1, <1>2, <1>3 DEF Aborted

\* The beginning of a run, for whatever is sent.
LEMMA BeginTyped ==
  ASSUME Types, NEW k \in Kinds, NEW c \in Convs, NEW shown \in Seq(Msgs), NEW slot \in Ids,
         NEW target \in Ids \cup {None}, NEW calls \in SUBSET Ids, NEW ok \in BOOLEAN,
         Begin(k, c, shown, slot, target, calls, ok)
  PROVE  ChatTyped' /\ RunsTyped' /\ crossed' \in BOOLEAN
<1>1. ChatTyped /\ RunsTyped /\ crossed \in BOOLEAN
  BY TypesSplit DEF RestTyped
<1>2. PICK r \in Runs : run' = [run EXCEPT ![r] = Posted(k, c, slot, target, calls, ok)]
  BY DEF Begin
<1>3. RunsTyped'
  <2> DEFINE q == Posted(k, c, slot, target, calls, ok)
  <2>1. q \in RunRows /\ q.conv = c
    BY PostedTyped
  <2> HIDE DEF q
  <2> QED
    BY <1>1, <1>2, <2>1, RunWritten DEF q
<1>4. ChatTyped'
  BY <1>1 DEF Begin, ChatTyped
<1> QED
  BY <1>1, <1>3, <1>4 DEF Begin

-----------------------------------------------------------------------------
(* Types: what the user does                                               *)

LEMMA SendTyped ==
  ASSUME Types, NEW c \in Convs, SendIn(c)
  PROVE  ChatTyped' /\ RunsTyped' /\ crossed' \in BOOLEAN /\ nextId' \in 1..(MaxIds + 1)
<1> DEFINE shown == thread \o <<Message(nextId, "user"), Placeholder(nextId + 1)>>
           no == FALSE
           none == None
<1>1. thread \in Seq(Msgs) /\ nextId \in 1..(MaxIds + 1) /\ nextId + 2 <= MaxIds + 1
  BY DEF Types, TypeOK, SendIn, Fresh
<1>2. nextId \in Ids /\ nextId + 1 \in Ids /\ nextId' \in 1..(MaxIds + 1)
  BY <1>1 DEF Ids, SendIn
<1>3. Message(nextId, "user") \in Msgs /\ Placeholder(nextId + 1) \in Msgs
  BY <1>2, MessageTyped
<1>4. shown \in Seq(Msgs)
  <2>1. <<Message(nextId, "user"), Placeholder(nextId + 1)>> \in Seq(Msgs)
    BY <1>3
  <2> QED
    BY <1>1, <2>1, ConcatProperties
<1>5. Begin("send", c, shown, nextId + 1, none, {}, no)
  BY DEF SendIn
<1>6. no \in BOOLEAN /\ {} \in SUBSET Ids /\ "send" \in Kinds /\ none \in Ids \cup {None}
  BY DEF Kinds
<1> HIDE DEF shown, no, none
<1> QED
  BY <1>2, <1>4, <1>5, <1>6, BeginTyped

LEMMA SubmitTypes ==
  ASSUME Types, Submit \/ Created
  PROVE  StateTyped'
<1>1. PICK c \in Convs : SendIn(c)
  BY DEF Submit, Created, Types, TypeOK
<1>2. ChatTyped' /\ RunsTyped' /\ crossed' \in BOOLEAN /\ nextId' \in 1..(MaxIds + 1)
  BY <1>1, SendTyped
<1>3. ServerTyped /\ PageTyped /\ RestTyped
  BY TypesSplit
<1>4. CASE Submit
  BY <1>2, <1>3, <1>4, TypesSplit DEF Submit, ui, Act, ServerTyped, PageTyped, RestTyped
<1>5. CASE Created
  <2>1. <<>> \in Seq(Msgs)
    BY EmptySeq
  <2>2. ServerTyped'
    <3>1. PICK d \in Convs : rows' = [rows EXCEPT ![d] = <<>>]
      BY <1>5 DEF Created
    <3>2. rows' \in [Convs -> Seq(Msgs) \cup {None}]
      BY <1>3, <2>1, <3>1 DEF ServerTyped
    <3> QED
      BY <1>2, <1>3, <1>5, <3>2 DEF Created, ServerTyped
  <2>3. PageTyped'
    <3>1. creating \in Nat /\ creating > 0 /\ creating' = creating - 1
      BY <1>3, <1>5 DEF Created, PageTyped
    <3>2. creating' \in Nat
      BY <3>1
    <3>3. selected' \in Convs /\ seeded' \in Convs
      BY <1>5 DEF Created
    <3> QED
      BY <1>3, <1>5, <3>2, <3>3 DEF Created, PageTyped
  <2>4. RestTyped'
    BY <1>2, <1>3, <1>5 DEF Created, RestTyped, Want
  <2> QED
    BY <1>2, <2>2, <2>3, <2>4, TypesSplit
<1> QED
  BY <1>4, <1>5

LEMMA EditTypes ==
  ASSUME Types, NEW id \in Ids, SaveEdit(id)
  PROVE  StateTyped'
<1> DEFINE no == FALSE
<1>1. thread \in Seq(Msgs) /\ nextId \in 1..(MaxIds + 1) /\ selected \in Convs
      /\ nextId + 1 <= MaxIds + 1
  BY DEF Types, TypeOK, SaveEdit, Fresh
<1>2. nextId \in Ids /\ nextId' \in 1..(MaxIds + 1)
  BY <1>1 DEF Ids, SaveEdit
<1>3. PICK i \in IndexOf(thread, id) :
        Begin("edit", selected, Append(UpTo(thread, i), Placeholder(nextId)), nextId, id, {}, FALSE)
  BY DEF SaveEdit
<1> DEFINE shown == Append(UpTo(thread, i), Placeholder(nextId))
<1>4. shown \in Seq(Msgs)
  <2>1. i \in 0..Len(thread)
    BY <1>1, <1>3, IndexTyped, LenProperties
  <2>2. UpTo(thread, i) \in Seq(Msgs)
    BY <1>1, <2>1, UpToTyped
  <2>3. Placeholder(nextId) \in Msgs
    BY <1>2, MessageTyped
  <2> QED
    BY <2>2, <2>3, AppendProperties
<1>5. Begin("edit", selected, shown, nextId, id, {}, no)
  BY <1>3
<1>6. no \in BOOLEAN /\ {} \in SUBSET Ids /\ "edit" \in Kinds /\ id \in Ids \cup {None}
  BY DEF Kinds
<1> HIDE DEF shown, no
<1>7. ChatTyped' /\ RunsTyped' /\ crossed' \in BOOLEAN
  BY <1>1, <1>2, <1>4, <1>5, <1>6, BeginTyped
<1>8. ServerTyped /\ PageTyped /\ RestTyped
  BY TypesSplit
<1> QED
  BY <1>2, <1>7, <1>8, TypesSplit DEF SaveEdit, ui, Act, ServerTyped, PageTyped, RestTyped

LEMMA RegenerateTypes ==
  ASSUME Types, RegenerateLast
  PROVE  StateTyped'
<1> DEFINE no == FALSE
           none == None
           shown == IF LastUser(thread) = 0 THEN thread
                    ELSE Append(UpTo(thread, LastUser(thread)), Placeholder(nextId))
<1>1. thread \in Seq(Msgs) /\ nextId \in 1..(MaxIds + 1) /\ selected \in Convs
      /\ nextId + 1 <= MaxIds + 1
  BY DEF Types, TypeOK, RegenerateLast, Fresh
<1>2. nextId \in Ids /\ nextId' \in 1..(MaxIds + 1)
  BY <1>1 DEF Ids, RegenerateLast
<1>4. shown \in Seq(Msgs)
  <2>1. LastUser(thread) \in 0..Len(thread)
    BY <1>1, LastUserTyped
  <2>2. UpTo(thread, LastUser(thread)) \in Seq(Msgs)
    BY <1>1, <2>1, UpToTyped
  <2>3. Placeholder(nextId) \in Msgs
    BY <1>2, MessageTyped
  <2> QED
    BY <1>1, <2>2, <2>3, AppendProperties
<1>5. Begin("regenerate", selected, shown, nextId, none, {}, no)
  BY DEF RegenerateLast
<1>6. no \in BOOLEAN /\ {} \in SUBSET Ids /\ "regenerate" \in Kinds /\ none \in Ids \cup {None}
  BY DEF Kinds
<1> HIDE DEF shown, no, none
<1>7. ChatTyped' /\ RunsTyped' /\ crossed' \in BOOLEAN
  BY <1>1, <1>2, <1>4, <1>5, <1>6, BeginTyped
<1>8. ServerTyped /\ PageTyped /\ RestTyped
  BY TypesSplit
<1> QED
  BY <1>2, <1>7, <1>8, TypesSplit DEF RegenerateLast, ui, Act, ServerTyped, PageTyped, RestTyped

LEMMA DecideTypes ==
  ASSUME Types, NEW ok \in BOOLEAN, Decide(ok)
  PROVE  StateTyped'
<1> DEFINE shown == Append(thread, Placeholder(nextId))
           said == Approved(ok)
           none == None
<1>1. thread \in Seq(Msgs) /\ nextId \in 1..(MaxIds + 1) /\ selected \in Convs
      /\ nextId + 1 <= MaxIds + 1 /\ pending \in SUBSET Ids
  BY DEF Types, TypeOK, Decide, Fresh
<1>2. nextId \in Ids /\ nextId' \in 1..(MaxIds + 1)
  BY <1>1 DEF Ids, Decide
<1>4. shown \in Seq(Msgs)
  <2>3. Placeholder(nextId) \in Msgs
    BY <1>2, MessageTyped
  <2> QED
    BY <1>1, <2>3, AppendProperties
<1>5. Begin("resolve", selected, shown, nextId, none, pending, said)
  BY DEF Decide
<1>6. said \in BOOLEAN /\ "resolve" \in Kinds /\ none \in Ids \cup {None}
  BY DEF Kinds, Approved
<1> HIDE DEF shown, said, none
<1>7. ChatTyped' /\ RunsTyped' /\ crossed' \in BOOLEAN
  BY <1>1, <1>2, <1>4, <1>5, <1>6, BeginTyped
<1>8. ServerTyped /\ PageTyped /\ RestTyped
  BY TypesSplit
<1>9. denied' \subseteq Ids
  BY <1>1, <1>8 DEF Decide, RestTyped
<1> QED
  BY <1>2, <1>7, <1>8, <1>9, TypesSplit DEF Decide, ui, Act, ServerTyped, PageTyped, RestTyped

LEMMA DialogTypes ==
  ASSUME Types,
         \/ SubmitNew \/ NotCreated \/ CancelDelete \/ DeleteMessage
         \/ \E id \in Ids : AskDelete(id)
  PROVE  StateTyped'
<1>1. ChatTyped /\ RunsTyped /\ ServerTyped /\ PageTyped /\ RestTyped
  BY TypesSplit
<1>2. ChatTyped' /\ RunsTyped' /\ ServerTyped'
  BY <1>1 DEF SubmitNew, NotCreated, CancelDelete, DeleteMessage, AskDelete, chat, srv,
              ChatTyped, RunsTyped, RunsNameConvs, ServerTyped
<1>3. RestTyped'
  BY <1>1 DEF SubmitNew, NotCreated, CancelDelete, DeleteMessage, AskDelete, Act, RestTyped
<1>4. PageTyped'
  <2>1. CASE DeleteMessage
    <3>1. selected \in Convs /\ doomed \in Ids
      BY <1>1, <2>1 DEF DeleteMessage, PageTyped
    <3>2. del' \in Deletions
      BY <2>1, <3>1 DEF DeleteMessage, Deletions
    <3> QED
      BY <1>1, <2>1, <3>2 DEF DeleteMessage, PageTyped
  <2>2. CASE SubmitNew \/ NotCreated \/ CancelDelete \/ \E id \in Ids : AskDelete(id)
    BY <1>1, <2>2 DEF SubmitNew, NotCreated, CancelDelete, AskDelete, PageTyped
  <2> QED
    BY <2>1, <2>2
<1> QED
  BY <1>2, <1>3, <1>4, TypesSplit

LEMMA StopTypes ==
  ASSUME Types, Stop
  PROVE  StateTyped'
<1>1. ChatTyped /\ RunsTyped /\ ServerTyped /\ PageTyped /\ RestTyped
  BY TypesSplit
<1>2. RunsTyped'
  BY <1>1, AbortedTyped DEF Stop, Abort, ChatTyped
<1> QED
  BY <1>1, <1>2, TypesSplit
  DEF Stop, Act, ui, chat, srv, ChatTyped, ServerTyped, PageTyped, RestTyped

-----------------------------------------------------------------------------
(* Types: what the server does                                             *)

\* The history a run answers to is a thread.
LEMMA BaseTyped ==
  ASSUME Types, NEW q, q.conv \in Convs, Accepts(q), nextId \in Ids
  PROVE  Base(q) \in Seq(Msgs)
<1> DEFINE h == rows[q.conv]
           t == q.target
<1>1. h \in Seq(Msgs)
  BY DEF Accepts, Types, TypeOK
<1>2. CASE q.kind = "send"
  <2>1. Message(nextId, "user") \in Msgs
    BY MessageTyped
  <2> QED
    BY <1>1, <1>2, <2>1, AppendProperties DEF Base
<1>3. CASE q.kind = "edit"
  <2>1. PICK i \in IndexOf(h, t) : TRUE
    BY <1>3 DEF Accepts
  <2> HIDE DEF h, t
  <2>2. t \in Ids
    BY <1>1, <2>1, IndexTyped
  <2>3. Message(t, "user") \in Msgs /\ Before(h, t) \in Seq(Msgs)
    BY <1>1, <2>2, MessageTyped, BeforeTyped
  <2>4. Append(Before(h, t), Message(t, "user")) \in Seq(Msgs)
    BY <2>3, AppendProperties
  <2> QED
    BY <1>3, <2>4 DEF Base, h, t
<1>4. CASE q.kind = "regenerate"
  <2> HIDE DEF h
  <2>1. UpTo(h, LastUser(h)) \in Seq(Msgs)
    BY <1>1, LastUserTyped, UpToTyped
  <2> QED
    BY <1>4, <2>1 DEF Base, h
<1>5. CASE q.kind \notin {"send", "edit", "regenerate"}
  BY <1>1, <1>5 DEF Base
<1> QED
  BY <1>2, <1>3, <1>4, <1>5

LEMMA TurnTyped ==
  ASSUME Types, NEW q \in RunRows, q.conv \in Convs, NEW f \in Frames, Turn(q, f)
  PROVE  ServerTyped'
<1> DEFINE c == q.conv
           n == nextId + 1
<1>1. ServerTyped
  BY TypesSplit
<1>2. nextId \in Ids /\ n \in Ids /\ nextId' \in 1..(MaxIds + 1)
  <2>1. nextId \in 1..(MaxIds + 1) /\ nextId + 2 <= MaxIds + 1 /\ nextId' = nextId + 2
    BY <1>1 DEF Turn, Fresh, ServerTyped
  <2> QED
    BY <2>1 DEF Ids
<1>3. Base(q) \in Seq(Msgs)
  BY <1>2, BaseTyped DEF Turn
<1>4. Append(Base(q), Message(n, "assistant")) \in Seq(Msgs)
  BY <1>2, <1>3, MessageTyped, AppendProperties
<1>5. executed' \subseteq Ids
  <2>1. q.calls \subseteq Ids
    BY DEF RunRows
  <2> QED
    BY <1>1, <2>1 DEF Turn, ServerTyped
<1>6. /\ \E m \in Seq(Msgs) : rows' = [rows EXCEPT ![c] = m]
      /\ \E s \in SUBSET Ids : asked' = [asked EXCEPT ![c] = s]
  <2>1. {} \in SUBSET Ids /\ {n} \in SUBSET Ids
    BY <1>2
  <2> QED
    BY <1>3, <1>4, <2>1 DEF Turn
<1> QED
  BY <1>1, <1>2, <1>5, <1>6 DEF ServerTyped

LEMMA ServeTypes ==
  ASSUME Types, NEW r \in Runs, Serve(r)
  PROVE  StateTyped'
<1>1. ChatTyped /\ RunsTyped /\ ServerTyped /\ PageTyped /\ RestTyped
  BY TypesSplit
<1>2. run[r].conv \in Convs /\ run[r] \in RunRows
  BY <1>1 DEF Serve, RunsTyped, RunsNameConvs
<1>3. PICK f \in Frames : Turn(run[r], f) /\ run' = [run EXCEPT ![r] = Answered(@, f)]
  BY DEF Serve
<1>4. ServerTyped'
  BY <1>2, <1>3, TurnTyped
<1>5. RunsTyped'
  <2>1. Answered(run[r], f) \in RunRows /\ Answered(run[r], f).conv \in Convs
    BY <1>2, AnsweredTyped
  <2> QED
    BY <1>1, <1>3, <2>1, RunWritten
<1> QED
  BY <1>1, <1>4, <1>5, TypesSplit DEF Serve, ui, chat, ChatTyped, PageTyped, RestTyped

LEMMA ServeGoneTypes ==
  ASSUME Types, NEW q \in gone, ServeGone(q)
  PROVE  StateTyped'
<1>1. ChatTyped /\ RunsTyped /\ ServerTyped /\ PageTyped /\ RestTyped
  BY TypesSplit
<1>2. q \in RunRows /\ q.conv \in Convs
  BY DEF Types, TypeOK, GoneKnown
<1>3. ServerTyped'
  BY <1>2, TurnTyped DEF ServeGone
<1>4. ChatTyped' /\ RunsTyped'
  BY <1>1 DEF ServeGone, chat, ChatTyped, RunsTyped, RunsNameConvs
<1>5. PageTyped' /\ RestTyped'
  BY <1>1 DEF ServeGone, ui, PageTyped, RestTyped
<1> QED
  BY <1>3, <1>4, <1>5, TypesSplit

LEMMA RefuseTypes ==
  ASSUME Types, NEW r \in Runs, Refuse(r)
  PROVE  StateTyped'
<1>1. ChatTyped /\ RunsTyped /\ ServerTyped /\ PageTyped /\ RestTyped
  BY TypesSplit
<1>2. RunsTyped'
  BY <1>1, StatusWritten DEF Refuse
<1> QED
  BY <1>1, <1>2, TypesSplit
  DEF Refuse, ui, chat, srv, ChatTyped, ServerTyped, PageTyped, RestTyped

LEMMA ServerDeletesTypes ==
  ASSUME Types, NEW c \in Convs, ServerDeletes(c) \/ ServeDelete
  PROVE  StateTyped'
<1>1. ChatTyped /\ RunsTyped /\ ServerTyped /\ PageTyped /\ RestTyped
  BY TypesSplit
<1>2. ChatTyped' /\ RunsTyped'
  BY <1>1 DEF ServerDeletes, ServeDelete, chat, ChatTyped, RunsTyped, RunsNameConvs
<1>3. RestTyped'
  BY <1>1 DEF ServerDeletes, ServeDelete, Act, RestTyped
<1>4. CASE ServerDeletes(c)
  <2>1. ServerTyped'
    BY <1>1, <1>4 DEF ServerDeletes, ServerTyped
  <2>2. PageTyped'
    BY <1>1, <1>4 DEF ServerDeletes, ui, PageTyped
  <2> QED
    BY <1>2, <1>3, <2>1, <2>2, TypesSplit
<1>5. CASE ServeDelete
  <2>1. del \in Deletions
    BY <1>1, <1>5 DEF ServeDelete, PageTyped
  <2>2. del' \in Deletions
    BY <1>5, <2>1 DEF ServeDelete, Deletions
  <2>3. PageTyped'
    BY <1>1, <1>5, <2>2 DEF ServeDelete, PageTyped
  <2>4. rows' \in [Convs -> Seq(Msgs) \cup {None}]
    <3> DEFINE d == del.conv
    <3>1. d \in Convs /\ rows \in [Convs -> Seq(Msgs) \cup {None}]
      BY <1>1, <2>1 DEF Deletions, ServerTyped
    <3>2. CASE UNCHANGED rows
      BY <3>1, <3>2
    <3>3. CASE rows[d] # None /\ rows' = [rows EXCEPT ![d] = Before(rows[d], del.id)]
      <4>1. rows[d] \in Seq(Msgs)
        BY <3>1, <3>3
      <4>2. Before(rows[d], del.id) \in Seq(Msgs)
        BY <4>1, BeforeTyped
      <4> QED
        BY <3>1, <3>3, <4>2
    <3> QED
      BY <1>5, <3>2, <3>3 DEF ServeDelete
  <2>5. ServerTyped'
    BY <1>1, <1>5, <2>4 DEF ServeDelete, ServerTyped
  <2> QED
    BY <1>2, <1>3, <2>3, <2>5, TypesSplit
<1> QED
  BY <1>4, <1>5

-----------------------------------------------------------------------------
(* Types: what the page does with a stream                                 *)

LEMMA FrameTypes ==
  ASSUME Types, NEW r \in Runs, OnFrame(r)
  PROVE  StateTyped'
<1> DEFINE f == Head(run[r].frames)
           slot == run[r].slot
<1>1. ChatTyped /\ RunsTyped /\ ServerTyped /\ PageTyped /\ RestTyped
  BY TypesSplit
<1>2. run[r].st = "open" /\ run[r].frames # <<>> /\ run[r] \in RunRows /\ run[r].conv \in Convs
  BY <1>1 DEF OnFrame, RunsTyped, RunsNameConvs
<1>3. /\ Consumed(run[r], f) \in RunRows /\ Consumed(run[r], f).conv \in Convs
      /\ f \in Frames
  BY <1>2, ConsumedTyped
<1>4. /\ run' = [run EXCEPT ![r] = Consumed(run[r], f)]
      /\ thread' = Applied(thread, slot, f)
      /\ pending' = CASE f.event = "approval_request" -> {f.ref}
                      [] f.event = "done" -> {}
                      [] OTHER -> pending
  BY DEF OnFrame
<1> HIDE DEF f, slot
<1>5. RunsTyped'
  BY <1>1, <1>3, <1>4, RunWritten
<1>6. pending' \subseteq Ids
  BY <1>1, <1>3, <1>4 DEF Frames, ChatTyped
<1>7. thread' \in Seq(Msgs)
  <2>1. thread \in Seq(Msgs)
    BY <1>1 DEF ChatTyped
  <2>2. CASE f.event = "done"
    <3>1. f.ref \in Ids
      BY <1>3, <2>2 DEF Frames
    <3> QED
      BY <1>4, <2>1, <2>2, <3>1, ThreadMapped DEF Applied
  <2>3. CASE f.event = "error"
    <3>1. 1 \in Ids
      BY DEF Ids
    <3> QED
      BY <1>4, <2>1, <2>3, <3>1, ThreadMapped DEF Applied
  <2>4. CASE f.event \notin {"done", "error"}
    BY <1>4, <2>1, <2>4 DEF Applied
  <2> QED
    BY <2>2, <2>3, <2>4
<1>8. ChatTyped'
  BY <1>1, <1>6, <1>7 DEF OnFrame, ChatTyped
<1> QED
  BY <1>1, <1>5, <1>8, TypesSplit DEF OnFrame, ui, srv, ServerTyped, PageTyped, RestTyped

LEMMA EndTypes ==
  ASSUME Types, NEW r \in Runs,
         OnStreamEnd(r) \/ OnRefused(r) \/ OnBroken(r) \/ OnAborted(r)
  PROVE  StateTyped'
<1>1. ChatTyped /\ RunsTyped /\ ServerTyped /\ PageTyped /\ RestTyped
  BY TypesSplit
<1>2. RunsTyped'
  BY <1>1, FreeTyped, RunWritten DEF OnStreamEnd, OnRefused, OnBroken, OnAborted
<1>3. thread \in Seq(Msgs) /\ 1 \in Ids
  BY <1>1 DEF ChatTyped, Ids
<1>4. Settled(thread, run[r].slot) \in Seq(Msgs)
  BY <1>3, ThreadMapped
<1>5. ChatTyped'
  BY <1>1, <1>4 DEF OnStreamEnd, OnRefused, OnBroken, OnAborted, ChatTyped
<1>6. ServerTyped' /\ PageTyped' /\ RestTyped'
  BY <1>1 DEF OnStreamEnd, OnRefused, OnBroken, OnAborted, ui, srv, ServerTyped, PageTyped, RestTyped
<1> QED
  BY <1>2, <1>5, <1>6, TypesSplit

-----------------------------------------------------------------------------
(* Types: selecting and seeding                                            *)

LEMMA BlankTyped ==
  ASSUME Types, Blank
  PROVE  ChatTyped' /\ RunsTyped' /\ selected' = None /\ seeded' = None
<1>1. ChatTyped /\ RunsTyped
  BY TypesSplit
<1>2. RunsTyped'
  BY <1>1, AbortedTyped DEF Blank, Reset, Abort, ChatTyped
<1>3. <<>> \in Seq(Msgs)
  BY EmptySeq
<1> QED
  BY <1>2, <1>3 DEF Blank, Reset, ChatTyped

LEMMA SeedTyped ==
  ASSUME Types, NEW c \in Convs, NEW detail \in Seq(Msgs) \cup {None}, Seed(c, detail)
  PROVE  thread' \in Seq(Msgs) /\ seeded' \in Convs \cup {None}
BY DEF Seed, Types, TypeOK

LEMMA SelectTypes ==
  ASSUME Types, NEW c \in Convs, Select(c)
  PROVE  StateTyped'
<1>1. ChatTyped /\ RunsTyped /\ ServerTyped /\ PageTyped /\ RestTyped
  BY TypesSplit
<1>2. cache[c] \in Seq(Msgs) \cup {None}
  BY <1>1 DEF RestTyped
<1>3. thread' \in Seq(Msgs) /\ seeded' \in Convs \cup {None}
  BY <1>2, SeedTyped DEF Select
<1>4. ChatTyped' /\ RunsTyped' /\ ServerTyped'
  BY <1>1, <1>3 DEF Select, srv, ChatTyped, RunsTyped, RunsNameConvs, ServerTyped
<1>5. PageTyped'
  BY <1>1, <1>3 DEF Select, PageTyped
<1>6. RestTyped'
  BY <1>1 DEF Select, Act, Want, RestTyped
<1> QED
  BY <1>4, <1>5, <1>6, TypesSplit

LEMMA PickFirstTypes ==
  ASSUME Types, PickFirst
  PROVE  StateTyped'
<1>1. ChatTyped /\ RunsTyped /\ ServerTyped /\ PageTyped /\ RestTyped
  BY TypesSplit
<1>2. PICK c \in Convs : selected' = c /\ Seed(c, cache[c]) /\ fetch' = Want(c)
  BY DEF PickFirst
<1>3. cache[c] \in Seq(Msgs) \cup {None}
  BY <1>1 DEF RestTyped
<1>4. thread' \in Seq(Msgs) /\ seeded' \in Convs \cup {None}
  BY <1>2, <1>3, SeedTyped
<1>5. ChatTyped' /\ RunsTyped' /\ ServerTyped'
  BY <1>1, <1>4 DEF PickFirst, srv, ChatTyped, RunsTyped, RunsNameConvs, ServerTyped
<1>6. PageTyped'
  BY <1>1, <1>2, <1>4 DEF PickFirst, PageTyped
<1>7. RestTyped'
  BY <1>1, <1>2 DEF PickFirst, Want, RestTyped
<1> QED
  BY <1>5, <1>6, <1>7, TypesSplit

LEMMA NewChatTypes ==
  ASSUME Types, NewChat
  PROVE  StateTyped'
<1>1. ServerTyped /\ PageTyped /\ RestTyped
  BY TypesSplit
<1>2. ChatTyped' /\ RunsTyped' /\ selected' = None /\ seeded' = None
  BY BlankTyped DEF NewChat
<1> QED
  BY <1>1, <1>2, TypesSplit DEF NewChat, Act, srv, ServerTyped, PageTyped, RestTyped

LEMMA DetailTypes ==
  ASSUME Types, NEW c \in Convs, DetailArrives(c)
  PROVE  StateTyped'
<1>1. ChatTyped /\ RunsTyped /\ ServerTyped /\ PageTyped /\ RestTyped
  BY TypesSplit
<1>2. cache' \in [Convs -> Seq(Msgs) \cup {None}] /\ fetch' \subseteq Convs
  BY <1>1 DEF DetailArrives, ServerTyped, RestTyped
<1>3. /\ ChatTyped' /\ RunsTyped'
      /\ selected' \in Convs \cup {None} /\ seeded' \in Convs \cup {None}
  <2>1. CASE Blank
    BY <2>1, BlankTyped
  <2>2. CASE ~Blank
    <3>1. Seed(c, cache'[c]) \/ UNCHANGED <<seeded, thread>>
      BY <2>2 DEF DetailArrives
    <3>2. cache'[c] \in Seq(Msgs) \cup {None}
      BY <1>2
    <3>3. thread' \in Seq(Msgs) /\ seeded' \in Convs \cup {None}
      BY <1>1, <3>1, <3>2, SeedTyped DEF ChatTyped, PageTyped
    <3>4. UNCHANGED <<selected, pending, status, active, run>>
      BY <2>2 DEF DetailArrives
    <3> QED
      BY <1>1, <3>3, <3>4 DEF ChatTyped, RunsTyped, RunsNameConvs, PageTyped
  <2> QED
    BY <2>1, <2>2
<1>4. ServerTyped' /\ PageTyped'
  BY <1>1, <1>3 DEF DetailArrives, srv, ServerTyped, PageTyped
<1>5. RestTyped'
  BY <1>1, <1>2 DEF DetailArrives, RestTyped
<1> QED
  BY <1>3, <1>4, <1>5, TypesSplit

LEMMA DeletedTypes ==
  ASSUME Types, DeleteAnswered
  PROVE  StateTyped'
<1>1. ChatTyped /\ RunsTyped /\ ServerTyped /\ PageTyped /\ RestTyped
  BY TypesSplit
<1>2. del \in Deletions
  BY <1>1 DEF DeleteAnswered, PageTyped
<1>3. Before(thread, del.id) \in Seq(Msgs) /\ del.conv \in Convs
  BY <1>1, <1>2, BeforeTyped DEF ChatTyped, Deletions
<1>4. ChatTyped' /\ RunsTyped' /\ ServerTyped'
  BY <1>1, <1>3 DEF DeleteAnswered, srv, ChatTyped, RunsTyped, RunsNameConvs, ServerTyped
<1>5. PageTyped' /\ RestTyped'
  BY <1>1, <1>3 DEF DeleteAnswered, PageTyped, RestTyped, Want
<1> QED
  BY <1>4, <1>5, TypesSplit

LEMMA TypesInit == Init => Types
<1> SUFFICES ASSUME Init PROVE Types
  OBVIOUS
<1>1. run = [r \in Runs |-> NoRun]
  BY DEF Init
<1>2. RunsTyped
  BY <1>1, FreeTyped DEF RunsTyped, RunsNameConvs
<1>3. 1 \in Ids /\ 2 \in Ids /\ 3 \in 1..(MaxIds + 1)
  BY DEF Ids
<1>4. <<>> \in Seq(Msgs) /\ OneTurn \in Seq(Msgs)
  <2>1. Message(1, "user") \in Msgs /\ Message(2, "assistant") \in Msgs
    BY <1>3, MessageTyped
  <2> QED
    BY <2>1, EmptySeq DEF OneTurn
<1>5. ChatTyped /\ PageTyped
  BY <1>4 DEF Init, ChatTyped, PageTyped
<1>8. GoneTyped
  BY DEF Init, GoneTyped, GoneKnown
<1>7. RestTyped
  <2>1. cache \in [Convs -> Seq(Msgs) \cup {None}] /\ fetch \subseteq Convs /\ denied \subseteq Ids
    BY DEF Init
  <2>2. acts \in 0..MaxActs
    BY DEF Init
  <2>3. crossed \in BOOLEAN
    BY DEF Init
  <2> QED
    BY <2>1, <2>2, <2>3 DEF RestTyped
<1>6. ServerTyped
  BY <1>3, <1>4 DEF Init, ServerTyped
<1> QED
  BY <1>2, <1>5, <1>6, <1>7, <1>8, TypesJoin DEF StateTyped

\* A request is let go of as it was posted, and forgotten once it is served.
LEMMA LetGoTyped ==
  ASSUME Types, NEW r \in Runs, LetGo(r)
  PROVE  GoneTyped' /\ loose \subseteq loose'
<1>1. GoneTyped /\ run[r] \in RunRows
  BY TypesJoin DEF Types, TypeOK
<1>2. run[r].st = "posted" => run[r].conv \in Convs
  BY DEF Types, RunsNameConvs
<1>3. run[r].calls \subseteq Ids
  BY <1>1 DEF RunRows
<1> QED
  BY <1>1, <1>2, <1>3 DEF LetGo, GoneTyped, GoneKnown

LEMMA AbortLetsGo ==
  ASSUME Types, Abort
  PROVE  GoneTyped' /\ loose \subseteq loose'
<1>1. CASE active = None
  BY <1>1, TypesJoin DEF Abort, GoneTyped, GoneKnown
<1>2. CASE active # None
  BY <1>2, LetGoTyped DEF Abort, Types, TypeOK
<1> QED
  BY <1>1, <1>2

GoneNext == [Next]_vars => GoneTyped' /\ loose \subseteq loose'

LEMMA GoneTypes == Types => GoneNext
<1> SUFFICES ASSUME Types, [Next]_vars PROVE GoneTyped' /\ loose \subseteq loose'
  BY DEF GoneNext
<1>1. CASE Abort
  BY <1>1, AbortLetsGo
<1>2. ASSUME NEW r \in Runs, LetGo(r) PROVE GoneTyped' /\ loose \subseteq loose'
  BY <1>2, LetGoTyped
<1>3. ASSUME NEW q \in gone, ServeGone(q) PROVE GoneTyped' /\ loose \subseteq loose'
  BY <1>3, TypesJoin DEF ServeGone, GoneTyped, GoneKnown
<1>4. CASE UNCHANGED <<gone, loose>>
  BY <1>4, TypesJoin DEF GoneTyped, GoneKnown
<1>5. CASE UserStep
  <2>1. CASE Stop \/ NewChat
    BY <1>1, <2>1 DEF Stop, NewChat, Blank, Reset
  <2>2. CASE \/ Submit \/ RegenerateLast \/ (\E id \in Ids : SaveEdit(id))
             \/ \E ok \in BOOLEAN : Decide(ok)
    BY <1>4, <2>2 DEF Submit, SendIn, RegenerateLast, SaveEdit, Decide, Begin
  <2>3. CASE \/ SubmitNew \/ DeleteMessage \/ CancelDelete
             \/ (\E id \in Ids : AskDelete(id))
             \/ \E c \in Convs : Select(c) \/ ServerDeletes(c)
    BY <1>4, <2>3 DEF SubmitNew, DeleteMessage, CancelDelete, AskDelete, Select, ServerDeletes
  <2> QED
    BY <1>5, <2>1, <2>2, <2>3 DEF UserStep
<1>6. ASSUME NEW r \in Runs, RunStep(r) \/ OnBroken(r)
      PROVE  GoneTyped' /\ loose \subseteq loose'
  <2>1. CASE Refuse(r)
    BY <1>2, <1>4, <2>1 DEF Refuse
  <2>2. CASE ~Refuse(r)
    BY <1>4, <1>6, <2>2 DEF RunStep, Serve, OnFrame, OnStreamEnd, OnRefused, OnAborted, OnBroken
  <2> QED
    BY <2>1, <2>2
<1>7. CASE Created \/ NotCreated \/ PickFirst \/ ServeDelete \/ DeleteAnswered
  BY <1>4, <1>7 DEF Created, SendIn, Begin, NotCreated, PickFirst, ServeDelete, DeleteAnswered
<1>8. ASSUME NEW c \in Convs, DetailArrives(c)
      PROVE  GoneTyped' /\ loose \subseteq loose'
  BY <1>1, <1>4, <1>8 DEF DetailArrives, Blank, Reset
<1>9. CASE UNCHANGED vars
  BY <1>4, <1>9 DEF vars
<1> QED
  BY <1>3, <1>5, <1>6, <1>7, <1>8, <1>9 DEF Next

LEMMA TypesNext == Types /\ [Next]_vars => Types'
<1> SUFFICES ASSUME Types, [Next]_vars PROVE Types'
  OBVIOUS
<1>1. ASSUME UserStep PROVE StateTyped'
  BY <1>1, SubmitTypes, DialogTypes, RegenerateTypes, StopTypes, NewChatTypes, EditTypes,
     DecideTypes, SelectTypes, ServerDeletesTypes DEF UserStep
<1>2. ASSUME NEW r \in Runs, RunStep(r) \/ OnBroken(r) PROVE StateTyped'
  BY <1>2, ServeTypes, RefuseTypes, FrameTypes, EndTypes DEF RunStep
<1>3. ASSUME Created \/ NotCreated \/ PickFirst \/ DeleteAnswered PROVE StateTyped'
  BY <1>3, SubmitTypes, DialogTypes, PickFirstTypes, DeletedTypes
<1>4. ASSUME ServeDelete PROVE StateTyped'
  <2>1. del \in Deletions
    BY <1>4, TypesSplit DEF ServeDelete, PageTyped
  <2>2. del.conv \in Convs
    BY <2>1 DEF Deletions
  <2> QED
    BY <1>4, <2>2, ServerDeletesTypes
<1>5. ASSUME NEW c \in Convs, DetailArrives(c) PROVE StateTyped'
  BY <1>5, DetailTypes
<1>6. ASSUME UNCHANGED vars PROVE StateTyped'
  BY <1>6, TypesSplit
  DEF vars, ui, chat, srv, ChatTyped, RunsTyped, RunsNameConvs, ServerTyped, PageTyped, RestTyped
<1>7. ASSUME NEW q \in gone, ServeGone(q) PROVE StateTyped'
  BY <1>7, ServeGoneTypes
<1>8. StateTyped'
  BY <1>1, <1>2, <1>3, <1>4, <1>5, <1>6, <1>7 DEF Next
<1> QED
  BY <1>8, GoneTypes, TypesJoin DEF GoneNext

\* Every variable of the page keeps its type: the calls that are pending and
\* every message of the thread have ids of the right kind, whichever frames,
\* answers and deletions arrive in whichever order.
THEOREM TypeCorrect == Spec => []TypeOK
<1>1. Types => TypeOK
  BY DEF Types
<1> QED
  BY <1>1, TypesInit, TypesNext, PTL DEF Spec

-----------------------------------------------------------------------------
(* One run at a time                                                       *)

\* Unless two runs were open at once, the open one is the one of abortRef, the
\* page is running, and it is in a conversation.
OneRun == ~crossed => \A r \in Runs : Open(r) => active = r /\ Running /\ selected # None

\* What an approval on its way approves has not been denied since.
ApprovalsStand ==
  page = "project" /\ ~crossed =>
    \A r \in Runs : run[r].st = "posted" /\ run[r].ok => run[r].calls \cap denied = {}

IInv == OneRun /\ NewChatIsBlank /\ ApprovalsStand /\ DeniedCallsDoNotRun

LEMMA IInvInit == Init => IInv
BY DEF Init, IInv, OneRun, NewChatIsBlank, ApprovalsStand, DeniedCallsDoNotRun, Open, NoRun

LEMMA CrossedIsFree == crossed' => IInv'
BY DEF IInv, OneRun, NewChatIsBlank, ApprovalsStand, DeniedCallsDoNotRun

\* A run begins: unless two of them meet, nothing else is open.
LEMMA BeginKeeps ==
  ASSUME Types, IInv, NEW k, NEW c, NEW shown, NEW slot, NEW target, NEW calls,
         NEW ok \in BOOLEAN, Begin(k, c, shown, slot, target, calls, ok),
         page' = page, selected' # None, executed' = executed,
         page = "project" /\ ~crossed => executed \cap denied' \subseteq loose,
         page = "project" /\ ok => calls \cap denied' = {}
  PROVE  IInv'
<1>1. CASE crossed'
  BY <1>1, CrossedIsFree
<1>2. CASE ~crossed'
  <2> DEFINE q == Posted(k, c, slot, target, calls, ok)
  <2>1. PICK r \in Runs : run' = [run EXCEPT ![r] = q] /\ active' = r
    BY DEF Begin
  <2>2. status' = "running" /\ ~crossed /\ \A p \in Runs : ~Open(p)
    BY <1>2 DEF Begin
  <2>3. q.calls = calls /\ q.ok = ok
    BY DEF Posted
  <2> HIDE DEF q
  <2>4. \A p \in Runs : run'[p] = IF p = r THEN q ELSE run[p]
    BY <2>1 DEF Types, TypeOK
  <2>5. OneRun'
    <3>1. ASSUME NEW p \in Runs, Open(p)' PROVE p = r
      BY <2>2, <2>4, <3>1 DEF Open
    <3> QED
      BY <2>1, <2>2, <3>1 DEF OneRun, Running
  <2>6. NewChatIsBlank'
    BY DEF NewChatIsBlank
  <2>7. ApprovalsStand'
    <3>1. ASSUME page = "project", NEW p \in Runs, run'[p].st = "posted", run'[p].ok
          PROVE  run'[p].calls \cap denied' = {}
      <4>1. p = r
        BY <2>2, <2>4, <3>1 DEF Open
      <4> QED
        BY <2>3, <2>4, <3>1, <4>1
    <3> QED
      BY <3>1 DEF ApprovalsStand
  <2>8. DeniedCallsDoNotRun'
    BY <2>2 DEF Begin, DeniedCallsDoNotRun
  <2> QED
    BY <2>5, <2>6, <2>7, <2>8 DEF IInv
<1> QED
  BY <1>1, <1>2

\* A step that leaves the runs and what was decided alone, and a blank page
\* blank.
LEMMA QuietKeeps ==
  ASSUME IInv, UNCHANGED <<page, run, active, status, executed, denied, crossed>>,
         loose \subseteq loose',
         \/ selected' # None
         \/ /\ selected' = selected /\ pending' = pending
            /\ thread = <<>> => thread' = <<>>
  PROVE  IInv'
<1>1. OneRun'
  BY DEF IInv, OneRun, NewChatIsBlank, Open, Running
<1>2. NewChatIsBlank'
  BY DEF IInv, NewChatIsBlank
<1>3. ApprovalsStand' /\ DeniedCallsDoNotRun'
  BY DEF IInv, ApprovalsStand, DeniedCallsDoNotRun
<1> QED
  BY <1>1, <1>2, <1>3 DEF IInv

LEMMA SendKeeps ==
  ASSUME Types, IInv, NEW c \in Convs, SendIn(c), page' = page, selected' # None,
         UNCHANGED <<executed, denied>>
  PROVE  IInv'
<1> DEFINE no == FALSE
           shown == thread \o <<Message(nextId, "user"), Placeholder(nextId + 1)>>
<1>1. Begin("send", c, shown, nextId + 1, None, {}, no)
  BY DEF SendIn
<1>2. page = "project" /\ ~crossed => executed \cap denied' \subseteq loose
  BY DEF IInv, DeniedCallsDoNotRun
<1>3. no \in BOOLEAN /\ ~no
  OBVIOUS
<1> HIDE DEF no, shown
<1> QED
  BY <1>1, <1>2, <1>3, BeginKeeps

LEMMA SubmitKeeps ==
  ASSUME Types, IInv, Submit \/ Created
  PROVE  IInv'
<1>1. PICK c \in Convs : SendIn(c) /\ selected' \in Convs
  BY DEF Submit, Created, ui, Types, TypeOK
<1> QED
  BY <1>1, SendKeeps DEF Submit, Created

LEMMA EditKeeps ==
  ASSUME Types, IInv, RegenerateLast \/ \E id \in Ids : SaveEdit(id)
  PROVE  IInv'
<1> DEFINE no == FALSE
<1>1. PICK k, c, shown, slot, target : Begin(k, c, shown, slot, target, {}, no)
  BY DEF RegenerateLast, SaveEdit
<1>2. page = "project" /\ ~crossed => executed \cap denied' \subseteq loose
  BY DEF IInv, DeniedCallsDoNotRun, RegenerateLast, SaveEdit
<1>3. no \in BOOLEAN /\ ~no
  OBVIOUS
<1>4. page' = page /\ selected' # None /\ executed' = executed
  BY DEF RegenerateLast, SaveEdit, ui
<1> HIDE DEF no
<1> QED
  BY <1>1, <1>2, <1>3, <1>4, BeginKeeps

\* A decision: a denial denies what was not executed, an approval approves
\* what it no longer denies.
LEMMA DecideKeeps ==
  ASSUME Types, IInv, NEW ok \in BOOLEAN, Decide(ok)
  PROVE  IInv'
<1> DEFINE said == Approved(ok)
           shown == Append(thread, Placeholder(nextId))
<1>1. Begin("resolve", selected, shown, nextId, None, pending, said)
  BY DEF Decide
<1>2. page' = page /\ selected' # None /\ executed' = executed
  BY DEF Decide, ui
<1>3. page = "project" /\ ~crossed => executed \cap denied' \subseteq loose
  BY DEF IInv, DeniedCallsDoNotRun, Decide
<1>4. page = "project" /\ said => pending \cap denied' = {}
  BY DEF Decide, Approved
<1>5. said \in BOOLEAN
  BY DEF Approved
<1> HIDE DEF said, shown
<1> QED
  BY <1>1, <1>2, <1>3, <1>4, <1>5, BeginKeeps

LEMMA DialogKeeps ==
  ASSUME Types, IInv,
         \/ SubmitNew \/ NotCreated \/ CancelDelete \/ DeleteMessage
         \/ \E id \in Ids : AskDelete(id)
         \/ ServeDelete \/ DeleteAnswered \/ PickFirst
         \/ \E c \in Convs : Select(c) \/ ServerDeletes(c)
  PROVE  IInv'
<1>1. UNCHANGED <<page, run, loose, active, status, executed, denied, crossed>>
  BY DEF SubmitNew, NotCreated, CancelDelete, DeleteMessage, AskDelete, ServeDelete,
     DeleteAnswered, PickFirst, Select, ServerDeletes, chat, srv
<1>2. \/ selected' # None
      \/ selected' = selected /\ pending' = pending /\ (thread = <<>> => thread' = <<>>)
  <2>1. CASE DeleteAnswered
    BY <2>1, EmptyStays DEF DeleteAnswered
  <2>2. CASE PickFirst \/ \E c \in Convs : Select(c)
    BY <2>2 DEF PickFirst, Select
  <2>3. CASE \/ SubmitNew \/ NotCreated \/ CancelDelete \/ DeleteMessage
             \/ ServeDelete \/ \E id \in Ids : AskDelete(id)
             \/ \E c \in Convs : ServerDeletes(c)
    BY <2>3 DEF SubmitNew, NotCreated, CancelDelete, DeleteMessage, AskDelete, ServeDelete,
       ServerDeletes, chat, ui
  <2> QED
    BY <2>1, <2>2, <2>3
<1> QED
  BY <1>1, <1>2, QuietKeeps

\* reset() aborts the run of abortRef, which is the only one.
LEMMA AbortedOpens ==
  ASSUME Types, IInv, ~crossed, run' = Aborted
  PROVE  /\ \A r \in Runs : ~Open(r)'
         /\ \A r \in Runs : run'[r].st # "posted"
<1>1. run \in [Runs -> RunRows]
  BY DEF Types, TypeOK
<1>2. ASSUME NEW r \in Runs, Open(r) PROVE active = r
  BY <1>2 DEF IInv, OneRun
<1>3. ASSUME NEW r \in Runs, r # active PROVE run'[r] = run[r] /\ ~Open(r)
  BY <1>1, <1>2, <1>3 DEF Aborted
<1>4. ASSUME active \in Runs PROVE run'[active].st \notin {"posted", "refused", "open"}
  <2>1. run[active] \in RunRows
    BY <1>1, <1>4
  <2>2. run'[active].st = IF Open(active) THEN "aborted" ELSE run[active].st
    BY <1>1, <1>4, <2>1 DEF Aborted, RunRows
  <2> QED
    BY <2>2 DEF Open
<1> QED
  BY <1>3, <1>4 DEF Open

LEMMA BlankKeeps ==
  ASSUME Types, IInv, Blank, UNCHANGED <<page, executed, denied, crossed>>
  PROVE  IInv'
<1>1. CASE crossed'
  BY <1>1, CrossedIsFree
<1>2. CASE ~crossed'
  <2>1. (\A r \in Runs : ~Open(r)') /\ (\A r \in Runs : run'[r].st # "posted")
    BY <1>2, AbortedOpens DEF Blank, Reset, Abort
  <2>2. OneRun' /\ ApprovalsStand'
    BY <2>1 DEF OneRun, ApprovalsStand
  <2>3. NewChatIsBlank'
    BY DEF Blank, Reset, NewChatIsBlank
  <2>4. DeniedCallsDoNotRun'
    BY AbortLetsGo DEF Blank, Reset, IInv, DeniedCallsDoNotRun
  <2> QED
    BY <2>2, <2>3, <2>4 DEF IInv
<1> QED
  BY <1>1, <1>2

LEMMA StopKeeps ==
  ASSUME Types, IInv, Stop
  PROVE  IInv'
<1>1. CASE crossed'
  BY <1>1, CrossedIsFree
<1>2. CASE ~crossed'
  <2>1. (\A r \in Runs : ~Open(r)') /\ (\A r \in Runs : run'[r].st # "posted")
    BY <1>2, AbortedOpens DEF Stop, Abort
  <2>2. OneRun' /\ ApprovalsStand'
    BY <2>1 DEF OneRun, ApprovalsStand
  <2>3. NewChatIsBlank' /\ DeniedCallsDoNotRun'
    BY AbortLetsGo DEF Stop, IInv, NewChatIsBlank, DeniedCallsDoNotRun, ui, chat, srv
  <2> QED
    BY <2>2, <2>3 DEF IInv
<1> QED
  BY <1>1, <1>2

LEMMA DetailKeeps ==
  ASSUME Types, IInv, NEW c \in Convs, DetailArrives(c)
  PROVE  IInv'
<1>1. UNCHANGED <<page, executed, denied, crossed>>
  BY DEF DetailArrives, srv
<1>2. CASE Blank
  BY <1>1, <1>2, BlankKeeps
<1>3. CASE ~Blank
  <2>1. UNCHANGED <<selected, pending, status, active, run, loose>>
    BY <1>3 DEF DetailArrives
  <2>2. selected' # None \/ thread' = thread
    BY <1>3, <2>1 DEF DetailArrives
  <2> QED
    BY <1>1, <2>1, <2>2, QuietKeeps
<1> QED
  BY <1>2, <1>3

\* One run moves on or ends: none is opened, and no request is put back.
LEMMA RunMoves ==
  ASSUME Types, IInv, ~crossed, NEW r \in Runs, NEW q, run' = [run EXCEPT ![r] = q],
         q.st # "posted", q.st \in {"open", "refused"} => Open(r),
         UNCHANGED <<page, active, selected, denied, crossed>>,
         (\E p \in Runs : Open(p)') => status' = status,
         selected = None /\ ~Open(r) =>
           /\ thread = <<>> => thread' = <<>>
           /\ pending' = pending
           /\ status = "idle" => status' = "idle",
         page = "project" => executed' \cap denied \subseteq loose'
  PROVE  IInv'
<1>1. \A p \in Runs : run'[p] = IF p = r THEN q ELSE run[p]
  BY DEF Types, TypeOK
<1>2. \A p \in Runs : Open(p)' => Open(p)
  BY <1>1 DEF Open
<1>3. OneRun'
  BY <1>2 DEF IInv, OneRun, Running
<1>4. NewChatIsBlank'
  <2>1. selected = None => ~Open(r)
    BY DEF IInv, OneRun
  <2> QED
    BY <2>1 DEF IInv, NewChatIsBlank
<1>5. ApprovalsStand'
  BY <1>1 DEF IInv, ApprovalsStand
<1>6. DeniedCallsDoNotRun'
  BY DEF DeniedCallsDoNotRun
<1> QED
  BY <1>3, <1>4, <1>5, <1>6 DEF IInv

\* The server executes what a standing approval approves.
LEMMA ServeKeeps ==
  ASSUME Types, IInv, NEW r \in Runs, Serve(r)
  PROVE  IInv'
<1>1. CASE crossed'
  BY <1>1, CrossedIsFree
<1>2. CASE ~crossed'
  <2>1. run[r].st = "posted" /\ Open(r) /\ run[r] \in RunRows /\ ~crossed
    BY <1>2 DEF Serve, Open, Types, TypeOK
  <2>2. PICK f \in Frames : Turn(run[r], f) /\ run' = [run EXCEPT ![r] = Answered(run[r], f)]
    BY DEF Serve
  <2> DEFINE q == Answered(run[r], f)
  <2>3. q.st = "open"
    BY <2>1, AnsweredTyped
  <2>4. page = "project" => executed' \cap denied \subseteq loose'
    <3>1. ASSUME page = "project" PROVE executed \cap denied \subseteq loose
      BY <2>1, <3>1 DEF IInv, DeniedCallsDoNotRun
    <3>2. ASSUME page = "project", run[r].ok PROVE run[r].calls \cap denied = {}
      BY <2>1, <3>2 DEF IInv, ApprovalsStand
    <3> QED
      BY <2>2, <3>1, <3>2 DEF Serve, Turn
  <2>5. UNCHANGED <<page, active, selected, denied, crossed, status>>
    BY DEF Serve, ui, chat
  <2> HIDE DEF q
  <2> QED
    BY <2>1, <2>2, <2>3, <2>4, <2>5, RunMoves DEF q
<1> QED
  BY <1>1, <1>2

\* A request nobody waits for executes what was noted when it was let go of.
LEMMA ServeGoneKeeps ==
  ASSUME Types, IInv, NEW q \in gone, ServeGone(q)
  PROVE  IInv'
<1>1. q.ok => q.calls \subseteq loose
  BY DEF Types, GoneKnown
<1>2. \/ executed' = executed
      \/ q.ok /\ executed' = executed \cup q.calls
  BY DEF ServeGone, Turn
<1>3. DeniedCallsDoNotRun'
  BY <1>1, <1>2 DEF ServeGone, IInv, DeniedCallsDoNotRun
<1>4. OneRun' /\ NewChatIsBlank' /\ ApprovalsStand'
  BY DEF ServeGone, ui, chat, IInv, OneRun, NewChatIsBlank, ApprovalsStand, Open, Running
<1> QED
  BY <1>3, <1>4 DEF IInv

LEMMA StreamKeeps ==
  ASSUME Types, IInv, NEW r \in Runs, Refuse(r) \/ OnFrame(r)
  PROVE  IInv'
<1>1. CASE crossed'
  BY <1>1, CrossedIsFree
<1>2. CASE ~crossed'
  <2>1. Open(r) /\ run[r] \in RunRows
    BY DEF Refuse, OnFrame, Open, Types, TypeOK
  <2>2. UNCHANGED <<page, active, selected, denied, executed, crossed, status>>
    BY DEF Refuse, OnFrame, ui, chat, srv
  <2>3. page = "project" => executed' \cap denied \subseteq loose'
    <3>1. loose \subseteq loose'
      BY LetGoTyped DEF Refuse, OnFrame
    <3> QED
      BY <1>2, <2>2, <3>1 DEF IInv, DeniedCallsDoNotRun
  <2>4. \E q : run' = [run EXCEPT ![r] = q] /\ q.st # "posted"
    <3>1. CASE Refuse(r)
      <4>1. run' = [run EXCEPT ![r] = [run[r] EXCEPT !.st = "refused"]]
        BY <3>1 DEF Refuse
      <4>2. [run[r] EXCEPT !.st = "refused"].st = "refused"
        BY <2>1, RunMoved
      <4> QED
        BY <4>1, <4>2
    <3>2. CASE OnFrame(r)
      <4>1. /\ run' = [run EXCEPT ![r] = Consumed(run[r], Head(run[r].frames))]
            /\ run[r].st = "open" /\ run[r].frames # <<>>
        BY <3>2 DEF OnFrame
      <4>2. Consumed(run[r], Head(run[r].frames)).st = "open"
        BY <2>1, <4>1, ConsumedTyped
      <4> QED
        BY <4>1, <4>2
    <3> QED
      BY <3>1, <3>2
  <2> QED
    BY <1>2, <2>1, <2>2, <2>3, <2>4, RunMoves
<1> QED
  BY <1>1, <1>2

LEMMA EndKeeps ==
  ASSUME Types, IInv, NEW r \in Runs,
         OnStreamEnd(r) \/ OnRefused(r) \/ OnBroken(r) \/ OnAborted(r)
  PROVE  IInv'
<1>1. CASE crossed'
  BY <1>1, CrossedIsFree
<1>2. CASE ~crossed'
  <2>1. UNCHANGED <<page, active, selected, denied, executed, crossed, pending>>
    BY DEF OnStreamEnd, OnRefused, OnBroken, OnAborted, ui, srv
  <2>2. page = "project" => executed' \cap denied \subseteq loose'
    BY <1>2, <2>1 DEF OnStreamEnd, OnRefused, OnBroken, OnAborted, IInv, DeniedCallsDoNotRun
  <2>3. run' = [run EXCEPT ![r] = NoRun] /\ NoRun.st = "free"
    BY FreeTyped DEF OnStreamEnd, OnRefused, OnBroken, OnAborted
  <2>4. \A p \in Runs : Open(p) => active = p
    BY <1>2, <2>1 DEF IInv, OneRun
  <2>5. (\E p \in Runs : Open(p)') => status' = status
    <3>1. ASSUME NEW p \in Runs, Open(p)' PROVE p # r /\ Open(p)
      <4>1. run'[p] = IF p = r THEN NoRun ELSE run[p]
        BY <2>3 DEF Types, TypeOK
      <4> QED
        BY <2>3, <3>1, <4>1 DEF Open
    <3>2. ASSUME NEW p \in Runs, Open(p)' PROVE ~Open(r) /\ active # r
      BY <2>4, <3>1, <3>2
    <3>3. ASSUME NEW p \in Runs, Open(p)' PROVE OnAborted(r)
      BY <3>2, <3>3 DEF Open, OnStreamEnd, OnRefused, OnBroken
    <3> QED
      BY <3>2, <3>3 DEF OnAborted
  <2>6. ~Open(r) => OnAborted(r)
    BY DEF Open, OnStreamEnd, OnRefused, OnBroken
  <2>7. ~Open(r) => /\ thread = <<>> => thread' = <<>>
                    /\ status = "idle" => status' = "idle"
    BY <2>6, EmptyStays DEF OnAborted
  <2> QED
    BY <1>2, <2>1, <2>2, <2>3, <2>5, <2>7, RunMoves
<1> QED
  BY <1>1, <1>2

LEMMA EveryStep == Types /\ IInv /\ [Next]_vars => IInv'
<1> SUFFICES ASSUME Types, IInv, [Next]_vars PROVE IInv'
  OBVIOUS
<1>1. CASE UserStep
  <2>1. CASE NewChat
    BY <2>1, BlankKeeps DEF NewChat, srv
  <2> QED
    BY <1>1, <2>1, SubmitKeeps, DialogKeeps, EditKeeps, StopKeeps, DecideKeeps DEF UserStep
<1>2. ASSUME NEW r \in Runs, RunStep(r) \/ OnBroken(r) PROVE IInv'
  BY <1>2, ServeKeeps, StreamKeeps, EndKeeps DEF RunStep
<1>3. CASE Created \/ NotCreated \/ PickFirst \/ ServeDelete \/ DeleteAnswered
  BY <1>3, SubmitKeeps, DialogKeeps
<1>4. ASSUME NEW c \in Convs, DetailArrives(c) PROVE IInv'
  BY <1>4, DetailKeeps
<1>5. CASE UNCHANGED vars
  BY <1>5, QuietKeeps DEF vars, ui, chat, srv
<1>6. ASSUME NEW q \in gone, ServeGone(q) PROVE IInv'
  BY <1>6, ServeGoneKeeps
<1> QED
  BY <1>1, <1>2, <1>3, <1>4, <1>5, <1>6 DEF Next

LEMMA Safety == Spec => [](Types /\ IInv)
BY TypesInit, TypesNext, IInvInit, EveryStep, PTL DEF Spec

\* A new chat stays blank, however late the frames, the end and the abort of
\* the run it left arrive.
THEOREM NewChatsAreBlank == Spec => []NewChatIsBlank
<1>1. IInv => NewChatIsBlank
  BY DEF IInv
<1> QED
  BY <1>1, Safety, PTL

\* A call that was denied in the workspace is never executed, unless two runs
\* of the page were open at once.
THEOREM DeniedCallsStayDenied == Spec => []DeniedCallsDoNotRun
<1>1. IInv => DeniedCallsDoNotRun
  BY DEF IInv
<1> QED
  BY <1>1, Safety, PTL

-----------------------------------------------------------------------------
(* The composer                                                            *)

LEMMA BeginIsBusy ==
  ASSUME TypeOK, NEW k, NEW c, NEW shown, NEW slot, NEW target, NEW calls, NEW ok,
         Begin(k, c, shown, slot, target, calls, ok)
  PROVE  BusyHasItsRun'
<1>1. PICK r \in Runs : /\ run' = [run EXCEPT ![r] = Posted(k, c, slot, target, calls, ok)]
                        /\ active' = r
  BY DEF Begin
<1>2. run'[r].st = "posted"
  BY <1>1 DEF TypeOK, Posted
<1> QED
  BY <1>1, <1>2 DEF BusyHasItsRun

LEMMA BlankIsIdle == ASSUME Blank PROVE BusyHasItsRun'
BY DEF Blank, Reset, BusyHasItsRun, Running

\* Stop leaves the page running until the abort arrives: the run stays out.
LEMMA StopStaysBusy ==
  ASSUME TypeOK, BusyHasItsRun, Stop
  PROVE  BusyHasItsRun'
<1>1. active \in Runs /\ Open(active) /\ run \in [Runs -> RunRows] /\ active' = active
  BY DEF Stop, TypeOK, chat
<1>2. run' = [run EXCEPT ![active].st = "aborted"]
  BY <1>1 DEF Stop, Abort, Aborted
<1>3. run'[active].st = "aborted"
  <2>1. run[active] \in RunRows
    BY <1>1
  <2> QED
    BY <1>1, <1>2, <2>1 DEF RunRows
<1> QED
  BY <1>1, <1>3 DEF BusyHasItsRun

\* A run that moves on is still out.
LEMMA MoveStaysBusy ==
  ASSUME TypeOK, BusyHasItsRun, NEW r \in Runs, Serve(r) \/ Refuse(r) \/ OnFrame(r)
  PROVE  BusyHasItsRun'
<1>1. run \in [Runs -> RunRows] /\ run[r] \in RunRows
  BY DEF TypeOK
<1>2. PICK q : run' = [run EXCEPT ![r] = q] /\ q.st # "free"
  <2>1. CASE Serve(r)
    BY <1>1, <2>1, AnsweredTyped DEF Serve
  <2>2. CASE Refuse(r)
    BY <1>1, <2>2, RunMoved DEF Refuse
  <2>3. CASE OnFrame(r)
    <3>1. Consumed(run[r], Head(run[r].frames)).st = "open"
      BY <1>1, <2>3, ConsumedTyped DEF OnFrame
    <3> QED
      BY <2>3, <3>1 DEF OnFrame
  <2> QED
    BY <2>1, <2>2, <2>3
<1>3. active' = active /\ status' = status
  BY DEF Serve, Refuse, OnFrame, chat
<1>4. \A p \in Runs : run[p].st # "free" => run'[p].st # "free"
  BY <1>1, <1>2
<1> QED
  BY <1>3, <1>4 DEF BusyHasItsRun, Running, TypeOK

\* A run that ends takes the page out of running if it is the page's own; the
\* end of another one leaves the page's own run out, or the page idle.
LEMMA EndReleases ==
  ASSUME TypeOK, BusyHasItsRun, NEW r \in Runs,
         OnStreamEnd(r) \/ OnRefused(r) \/ OnBroken(r) \/ OnAborted(r)
  PROVE  BusyHasItsRun'
<1>1. run' = [run EXCEPT ![r] = NoRun] /\ run \in [Runs -> RunRows] /\ active' = active
  BY DEF OnStreamEnd, OnRefused, OnBroken, OnAborted, TypeOK
<1>2. Running' => active # r /\ Running
  BY DEF OnStreamEnd, OnRefused, OnBroken, OnAborted, Running
<1> QED
  BY <1>1, <1>2 DEF BusyHasItsRun

LEMMA BusyStep == Types /\ BusyHasItsRun /\ [Next]_vars => BusyHasItsRun'
<1> SUFFICES ASSUME TypeOK, BusyHasItsRun, [Next]_vars PROVE BusyHasItsRun'
  BY DEF Types
<1>1. CASE \/ Submit \/ RegenerateLast \/ Created \/ (\E id \in Ids : SaveEdit(id))
           \/ \E ok \in BOOLEAN : Decide(ok)
  <2>1. PICK k, c, shown, slot, target, calls, ok : Begin(k, c, shown, slot, target, calls, ok)
    <3>1. CASE Submit
      BY <3>1 DEF Submit, SendIn
    <3>2. CASE RegenerateLast
      BY <3>2 DEF RegenerateLast
    <3>3. CASE \E id \in Ids : SaveEdit(id)
      BY <3>3 DEF SaveEdit
    <3>4. CASE \E ok \in BOOLEAN : Decide(ok)
      BY <3>4 DEF Decide
    <3>5. CASE Created
      BY <3>5 DEF Created, SendIn
    <3> QED
      BY <1>1, <3>1, <3>2, <3>3, <3>4, <3>5
  <2> QED
    BY <2>1, BeginIsBusy
<1>2. CASE \/ SubmitNew \/ NotCreated \/ DeleteMessage \/ CancelDelete \/ PickFirst
           \/ ServeDelete \/ DeleteAnswered \/ (\E id \in Ids : AskDelete(id))
           \/ (\E c \in Convs : Select(c) \/ ServerDeletes(c))
           \/ (\E q \in gone : ServeGone(q)) \/ UNCHANGED vars
  <2>1. UNCHANGED <<run, active, status>>
    BY <1>2 DEF SubmitNew, NotCreated, DeleteMessage, CancelDelete, PickFirst, ServeDelete,
       DeleteAnswered, AskDelete, Select, ServerDeletes, ServeGone, vars, chat
  <2> QED
    BY <2>1 DEF BusyHasItsRun, Running
<1>3. CASE NewChat
  BY <1>3, BlankIsIdle DEF NewChat
<1>4. CASE UserStep
  BY <1>1, <1>2, <1>3, <1>4, StopStaysBusy DEF UserStep
<1>5. ASSUME NEW c \in Convs, DetailArrives(c) PROVE BusyHasItsRun'
  <2>1. Blank \/ UNCHANGED <<run, active, status>>
    BY <1>5 DEF DetailArrives
  <2> QED
    BY <2>1, BlankIsIdle DEF BusyHasItsRun, Running
<1>6. ASSUME NEW r \in Runs, RunStep(r) \/ OnBroken(r) PROVE BusyHasItsRun'
  BY <1>6, MoveStaysBusy, EndReleases DEF RunStep
<1> QED
  BY <1>1, <1>2, <1>4, <1>5, <1>6 DEF Next

\* A page that is running waits for a run of its own that is still out: no end
\* of a stream, refusal or abort leaves the composer disabled behind it.
THEOREM ComposerIsGivenBack == Spec => []BusyHasItsRun
<1>1. Init => BusyHasItsRun
  BY DEF Init, BusyHasItsRun, Running
<1> QED
  BY <1>1, Safety, BusyStep, PTL DEF Spec

-----------------------------------------------------------------------------
(* How two runs meet                                                       *)

LEMMA AloneWhenIdle ==
  ASSUME IInv, ~crossed, ~Running,
         NEW k, NEW c, NEW shown, NEW slot, NEW target, NEW calls, NEW ok,
         Begin(k, c, shown, slot, target, calls, ok)
  PROVE  ~crossed'
<1>1. \A r \in Runs : ~Open(r)
  BY DEF IInv, OneRun
<1> QED
  BY <1>1 DEF Begin

LEMMA UserNeverCrosses ==
  ASSUME IInv, ~crossed,
         \/ Submit \/ RegenerateLast \/ (\E id \in Ids : SaveEdit(id))
         \/ \E ok \in BOOLEAN : Decide(ok)
  PROVE  ~crossed'
<1>1. ~Running
  BY DEF Submit, RegenerateLast, SaveEdit, Decide, ChatUserButtons, ChatCard, ProjectCard, Blocked
<1>2. PICK k, c, shown, slot, target, calls, ok : Begin(k, c, shown, slot, target, calls, ok)
  <2>1. CASE Submit
    BY <2>1 DEF Submit, SendIn
  <2>2. CASE RegenerateLast
    BY <2>2 DEF RegenerateLast
  <2>3. CASE \E id \in Ids : SaveEdit(id)
    BY <2>3 DEF SaveEdit
  <2>4. CASE \E ok \in BOOLEAN : Decide(ok)
    BY <2>4 DEF Decide
  <2> QED
    BY <2>1, <2>2, <2>3, <2>4
<1> QED
  BY <1>1, <1>2, AloneWhenIdle

CrossedByCreation == ~crossed /\ crossed' => Created

LEMMA OthersNeverCross ==
  ASSUME IInv, [Next]_vars
  PROVE  CrossedByCreation
<1> SUFFICES ASSUME ~crossed, ~Created PROVE ~crossed'
  BY DEF CrossedByCreation
<1>1. CASE \/ Submit \/ RegenerateLast \/ (\E id \in Ids : SaveEdit(id))
           \/ \E ok \in BOOLEAN : Decide(ok)
  BY <1>1, UserNeverCrosses
<1>2. CASE \/ SubmitNew \/ Stop \/ NewChat \/ DeleteMessage \/ CancelDelete
           \/ (\E id \in Ids : AskDelete(id))
           \/ \E c \in Convs : Select(c) \/ ServerDeletes(c)
  BY <1>2 DEF SubmitNew, Stop, NewChat, DeleteMessage, CancelDelete, AskDelete, Select,
     ServerDeletes
<1>3. CASE UserStep
  BY <1>1, <1>2, <1>3 DEF UserStep
<1>4. ASSUME NEW r \in Runs, RunStep(r) \/ OnBroken(r) PROVE ~crossed'
  BY <1>4 DEF RunStep, Serve, Refuse, OnFrame, OnStreamEnd, OnRefused, OnAborted, OnBroken
<1>5. CASE NotCreated \/ PickFirst \/ ServeDelete \/ DeleteAnswered
  BY <1>5 DEF NotCreated, PickFirst, ServeDelete, DeleteAnswered
<1>6. ASSUME NEW c \in Convs, DetailArrives(c) PROVE ~crossed'
  BY <1>6 DEF DetailArrives
<1>7. CASE UNCHANGED vars
  BY <1>7 DEF vars
<1>8. ASSUME NEW q \in gone, ServeGone(q) PROVE ~crossed'
  BY <1>8 DEF ServeGone
<1> QED
  BY <1>3, <1>4, <1>5, <1>6, <1>7, <1>8 DEF Next

\* Two runs are only ever open at once because a conversation was created
\* while another one streamed: submit() of a new chat awaits the creation and
\* does not look again. Nothing else that a user does reaches it, so nothing
\* else takes the two guarantees above away.
THEOREM OnlyCreationsCross == Spec => [][CrossedByCreation]_vars
<1>1. Types /\ IInv /\ [Next]_vars => [CrossedByCreation]_vars
  BY OthersNeverCross
<1> QED
  BY <1>1, Safety, PTL DEF Spec

=============================================================================
