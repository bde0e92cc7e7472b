------------------------------ MODULE ChatClient ------------------------------
(***************************************************************************)
(* The two pages that hold a conversation in the browser: ChatPage and     *)
(* ProjectWorkspacePage, with the useChat hook they share, the cached      *)
(* conversation detail they seed their thread from, and the server as far  *)
(* as the page sees it (ChatTurns models its side in detail).              *)
(*                                                                         *)
(* A run is one streamed POST (send, edit, regenerate, resolve). Its       *)
(* answer is a queue of frames; the page consumes the head. Message texts, *)
(* traces and token counts are left out; a message is its id, its role,    *)
(* whether it is still streaming and whether it shows an error.            *)
(***************************************************************************)
EXTENDS Naturals, Sequences, FiniteSets

CONSTANTS Convs,      \* conversations that can come to exist
          Old,        \* the one that is there from the start, with one turn
          Runs,       \* streamed requests that can be open at once
          Pages,      \* which of the two pages are considered
          MaxIds,     \* bound: message and call ids
          MaxActs,    \* bound: what the user does
          None

ASSUME ChatClientAssumption ==
  /\ Pages \subseteq {"chat", "project"}
  /\ Old \subseteq Convs /\ Cardinality(Old) <= 1
  /\ MaxIds \in Nat \ (0..1) /\ MaxActs \in Nat
  /\ None \notin Convs /\ None \notin Runs /\ None \notin Nat

VARIABLES
  page,      \* the page that is mounted
  selected,  \* the conversation of the route (or of the workspace), or None
  fresh,     \* the workspace was opened with ?c=new
  seeded,    \* seededRef: whose detail the thread was last set from
  thread,    \* useChat: messages
  pending,   \* useChat: the calls that wait for a decision
  status,    \* useChat: idle, running, error
  active,    \* useChat: the run of abortRef, or None
  run,       \* the open runs
  gone,      \* requests the page let go of and the server may still serve
  loose,     \* history: the calls of the approvals among them
  creating,  \* createConversation calls of submit() that are awaited
  doomed,    \* pendingMessageDelete: the message of the open dialog, or None
  del,       \* the delete-message request that is open, or None
  cache,     \* the cached detail per conversation, or None
  fetch,     \* conversations whose detail is requested
  rows,      \* server: the messages per conversation, None if it is missing
  asked,     \* server: the calls a conversation is parked on
  executed,  \* server: calls that ran
  denied,    \* history: calls the user's last decision denied before they ran
  nextId, acts,
  crossed    \* history: two runs of this page were open at once

ui   == <<selected, fresh, seeded, creating, doomed, del>>
chat == <<thread, pending, status, active>>
srv  == <<rows, asked, executed, nextId>>
sent == <<run, gone, loose>>
vars == <<page, ui, chat, sent, cache, fetch, srv, denied, acts, crossed>>

-----------------------------------------------------------------------------
Ids == 1..MaxIds
Msgs == [id : Ids, role : {"user", "assistant"}, streaming : BOOLEAN, error : BOOLEAN]
\* delta, trace, sources, usage and title frames only decorate a message.
Frames == [event : {"approval_request", "done"}, ref : Ids]
          \cup [event : {"error"}, ref : {None}]
Kinds == {"send", "edit", "regenerate", "resolve"}
RunRows == [st : {"free", "posted", "refused", "open", "aborted"},
            kind : Kinds \cup {"none"}, conv : Convs \cup {None},
            slot : Ids \cup {None}, target : Ids \cup {None},
            calls : SUBSET Ids, ok : BOOLEAN, frames : Seq(Frames), failed : BOOLEAN]
NoRun == [st |-> "free", kind |-> "none", conv |-> None, slot |-> None,
          target |-> None, calls |-> {}, ok |-> FALSE, frames |-> <<>>,
          failed |-> FALSE]
Deletions == [conv : Convs, id : Ids, st : {"sent", "ok", "missing"}]

TypeOK ==
  /\ page \in Pages /\ selected \in Convs \cup {None} /\ fresh \in BOOLEAN
  /\ seeded \in Convs \cup {None}
  /\ thread \in Seq(Msgs) /\ pending \subseteq Ids
  /\ status \in {"idle", "running", "error"} /\ active \in Runs \cup {None}
  /\ run \in [Runs -> RunRows] /\ gone \subseteq RunRows /\ loose \subseteq Ids
  /\ creating \in Nat /\ doomed \in Ids \cup {None}
  /\ del \in Deletions \cup {None}
  /\ cache \in [Convs -> Seq(Msgs) \cup {None}] /\ rows \in [Convs -> Seq(Msgs) \cup {None}]
  /\ asked \in [Convs -> SUBSET Ids]
  /\ fetch \subseteq Convs
  /\ executed \subseteq Ids /\ denied \subseteq Ids
  /\ nextId \in 1..(MaxIds + 1) /\ acts \in 0..MaxActs /\ crossed \in BOOLEAN

-----------------------------------------------------------------------------
(* Helpers                                                                 *)

Act == acts < MaxActs /\ acts' = acts + 1

\* Ids are taken from one counter; n more of them are within the bound.
Fresh(n) == nextId + n <= MaxIds + 1

Open(r) == run[r].st \in {"posted", "refused", "open"}
Running == status = "running"

\* blockInteraction of the message list.
Blocked == Running \/ pending # {}

Message(id, role) == [id |-> id, role |-> role, streaming |-> FALSE, error |-> FALSE]
Placeholder(id)   == [Message(id, "assistant") EXCEPT !.streaming = TRUE]

IndexOf(s, id) == {i \in DOMAIN s : s[i].id = id}
UpTo(s, n) == SubSeq(s, 1, n)

\* Everything before the message with this id, the whole thread if it is gone.
Before(s, id) ==
  IF IndexOf(s, id) = {} THEN s ELSE UpTo(s, (CHOOSE i \in IndexOf(s, id) : TRUE) - 1)

\* Up to and including the last message of the user; 0 if there is none.
LastUser(s) ==
  LET us == {i \in DOMAIN s : s[i].role = "user"} IN
  IF us = {} THEN 0 ELSE CHOOSE i \in us : \A j \in us : j <= i

\* What a stream changes of its own placeholder, found by its id.
Settled(s, id) ==
  [i \in DOMAIN s |-> IF s[i].id = id THEN [s[i] EXCEPT !.streaming = FALSE] ELSE s[i]]

Failed(s, id) ==
  [i \in DOMAIN s |-> IF s[i].id = id
                      THEN [s[i] EXCEPT !.streaming = FALSE, !.error = TRUE] ELSE s[i]]

Renamed(s, id, new) ==
  [i \in DOMAIN s |-> IF s[i].id = id
                      THEN [s[i] EXCEPT !.id = new, !.streaming = FALSE] ELSE s[i]]

\* abortRef.current?.abort(): only the run of the ref is aborted.
Aborted == IF active = None THEN run
           ELSE [run EXCEPT ![active].st = IF Open(active) THEN "aborted" ELSE @]

\* Only the browser's side is closed by that: what was posted may be on its way,
\* or with a handler that has not noticed.
LetGo(r) ==
  /\ gone' = IF run[r].st = "posted" THEN gone \cup {run[r]} ELSE gone
  /\ loose' = IF run[r].st = "posted" /\ run[r].ok THEN loose \cup run[r].calls ELSE loose

Abort ==
  /\ run' = Aborted
  /\ IF active = None THEN UNCHANGED <<gone, loose>> ELSE LetGo(active)

\* reset(): abort, forget the controller, blank the thread.
Reset ==
  /\ Abort
  /\ active' = None /\ thread' = <<>> /\ pending' = {} /\ status' = "idle"

\* The effect that seeds the thread: only when the thread was not already
\* seeded from this conversation, and only once its detail is in the cache.
Seed(c, detail) ==
  IF detail # None /\ seeded # c
  THEN seeded' = c /\ thread' = detail
  ELSE UNCHANGED <<seeded, thread>>

\* A query that becomes active or is invalidated is fetched again.
Want(c) == fetch \cup {c}

-----------------------------------------------------------------------------
(* What the pages show, and so what the user can do                        *)

\* ChatPage: the empty state with its suggestions; the box a message is edited
\* in; the buttons under a message of the user and under an answer; the card of
\* the pending calls; the composer, whose text field is disabled.
Suggestions          == page = "chat" /\ thread = <<>>
EditBox(m)           == page = "chat" /\ m.role = "user" /\ ~Blocked
ChatUserButtons(m)   == page = "chat" /\ m.role = "user" /\ ~Blocked
ChatAnswerButtons(m) == page = "chat" /\ m.role = "assistant" /\ ~m.streaming /\ ~Blocked
ChatCard             == page = "chat" /\ pending # {} /\ ~Running
ChatComposer         == page = "chat" /\ ~Blocked

\* ProjectWorkspacePage: an answer with an error has no buttons, nothing is
\* edited, and the text field takes Enter at any time: submit() looks again.
ProjectUserButtons(m)   == page = "project" /\ m.role = "user" /\ ~Blocked
ProjectAnswerButtons(m) == /\ page = "project" /\ m.role = "assistant"
                           /\ ~m.streaming /\ ~m.error /\ ~Blocked
ProjectCard             == page = "project" /\ pending # {} /\ ~Running
ProjectComposer         == page = "project"

AnswerButtons(m) == ChatAnswerButtons(m) \/ ProjectAnswerButtons(m)
Deletable(m)     == AnswerButtons(m) \/ ChatUserButtons(m) \/ ProjectUserButtons(m)

\* Where another conversation can be chosen: the sidebar's chats and the
\* palette on the chat page, the switcher of the workspace and the project's
\* entry in the sidebar. What they list comes from queries of their own.
SidebarChats(c)    == page = "chat" /\ rows[c] # None
CommandPalette(c)  == page = "chat" /\ rows[c] # None
ProjectSwitcher(c) == page = "project" /\ rows[c] # None
SidebarProject(c)  == page = "project" /\ rows[c] # None

-----------------------------------------------------------------------------
(* Runs: send, edit, regenerate, resolve                                   *)

\* Each begins the same way: a new controller in abortRef, the trace cleared,
\* and the POST. Only resolve keeps the pending calls.
Posted(kind, c, slot, target, calls, ok) ==
  [st |-> "posted", kind |-> kind, conv |-> c, slot |-> slot, target |-> target,
   calls |-> calls, ok |-> ok, frames |-> <<>>, failed |-> FALSE]

Begin(kind, c, shown, slot, target, calls, ok) ==
  \E r \in Runs :
    /\ run[r].st = "free"
    /\ run' = [run EXCEPT ![r] = Posted(kind, c, slot, target, calls, ok)]
    /\ UNCHANGED <<gone, loose>>
    /\ active' = r
    /\ thread' = shown
    /\ pending' = IF kind = "resolve" THEN pending ELSE {}
    /\ status' = "running"
    /\ crossed' = (crossed \/ \E q \in Runs : Open(q))

\* send(): the user's message gets an id of the page's own, which the server
\* never learns.
SendIn(c) ==
  /\ Fresh(2)
  /\ Begin("send", c, thread \o <<Message(nextId, "user"), Placeholder(nextId + 1)>>,
           nextId + 1, None, {}, FALSE)
  /\ nextId' = nextId + 2

\* submit() of an existing conversation.
Submit ==
  /\ Act /\ selected # None /\ ~Blocked
  /\ ChatComposer \/ ProjectComposer \/ Suggestions
  /\ SendIn(selected)
  /\ UNCHANGED <<page, ui, cache, fetch, rows, asked, executed, denied>>

\* submit() of a new chat awaits the creation first. Nothing marks the page as
\* running in the meantime: Enter and the suggestions submit once more.
SubmitNew ==
  /\ Act /\ selected = None /\ ~Blocked /\ creating < 2
  /\ ChatComposer \/ ProjectComposer \/ Suggestions
  /\ creating' = creating + 1
  /\ UNCHANGED <<page, selected, fresh, seeded, doomed, del, chat, sent, cache, fetch, srv,
                 denied, crossed>>

\* Ids of conversations are never used twice; a name of Convs is, once nothing
\* refers to the deleted one.
Unused(c) ==
  /\ rows[c] = None /\ cache[c] = None /\ c \notin fetch /\ selected # c /\ seeded # c
  /\ \A r \in Runs : run[r].conv # c
  /\ \A q \in gone : q.conv # c
  /\ del # None => del.conv # c

\* The creation is answered: the page marks the conversation as seeded, goes
\* to it and sends.
Created ==
  /\ creating > 0
  /\ \E c \in Convs :
       /\ Unused(c)
       /\ rows' = [rows EXCEPT ![c] = <<>>]
       /\ SendIn(c)
       /\ selected' = c /\ seeded' = c
       /\ fetch' = Want(c)
  /\ creating' = creating - 1
  /\ fresh' = FALSE
  /\ UNCHANGED <<page, doomed, del, cache, asked, executed, denied, acts>>

\* The creation fails: submit's catch shows the error, the text is gone.
NotCreated ==
  /\ creating > 0 /\ creating' = creating - 1
  /\ UNCHANGED <<page, selected, fresh, seeded, doomed, del, chat, sent, cache, fetch, srv,
                 denied, acts, crossed>>

\* saveEdit(): the thread is cut after the message.
SaveEdit(id) ==
  /\ Act /\ selected # None /\ Fresh(1)
  /\ \E i \in IndexOf(thread, id) :
       /\ ChatUserButtons(thread[i]) /\ EditBox(thread[i])
       /\ Begin("edit", selected, Append(UpTo(thread, i), Placeholder(nextId)),
                nextId, id, {}, FALSE)
  /\ nextId' = nextId + 1
  /\ UNCHANGED <<page, ui, cache, fetch, rows, asked, executed, denied>>

\* regenerateLast(): the button of the last answer, or the chat page's
\* shortcut, which also works where there is nothing to answer (the thread is
\* then left as it is).
RegenerateLast ==
  /\ Act /\ selected # None /\ ~Blocked /\ Fresh(1)
  /\ \/ page = "chat"
     \/ thread # <<>> /\ AnswerButtons(thread[Len(thread)])
  /\ LET shown == IF LastUser(thread) = 0 THEN thread
                  ELSE Append(UpTo(thread, LastUser(thread)), Placeholder(nextId))
     IN Begin("regenerate", selected, shown, nextId, None, {}, FALSE)
  /\ nextId' = nextId + 1
  /\ UNCHANGED <<page, ui, cache, fetch, rows, asked, executed, denied>>

\* MUTANT: the workspace sends "approved: true" for both buttons, as ChatPage does.
AlwaysApproved(ok) == TRUE

\* What decide() writes into every decision: the workspace the user's choice,
\* the chat page the constant true (a denial only adds a reason).
Approved(ok) == IF page = "chat" THEN TRUE ELSE ok

\* decide(): the card's two buttons.
Decide(ok) ==
  /\ Act /\ selected # None /\ (ChatCard \/ ProjectCard) /\ Fresh(1)
  /\ Begin("resolve", selected, Append(thread, Placeholder(nextId)), nextId, None, pending,
           Approved(ok))
  /\ denied' = IF ok THEN denied \ pending ELSE denied \cup (pending \ executed)
  /\ nextId' = nextId + 1
  /\ UNCHANGED <<page, ui, cache, fetch, rows, asked, executed>>

\* stop(): the square button and Escape.
Stop ==
  /\ Act /\ Running /\ active # None /\ Open(active)
  /\ Abort
  /\ UNCHANGED <<page, ui, chat, cache, fetch, srv, denied, crossed>>

-----------------------------------------------------------------------------
(* The server, seen from the page                                          *)

\* What the history must be for a request to be accepted: a parked
\* conversation takes decisions and nothing else.
Accepts(q) ==
  /\ rows[q.conv] # None
  /\ q.kind = "resolve" <=> asked[q.conv] # {}
  /\ q.kind = "resolve" => q.calls = asked[q.conv]
  /\ q.kind = "edit" => IndexOf(rows[q.conv], q.target) # {}
  /\ q.kind = "regenerate" => LastUser(rows[q.conv]) > 0

\* The history a run answers to.
Base(q) ==
  LET h == rows[q.conv] IN
  CASE q.kind = "send"       -> Append(h, Message(nextId, "user"))
    [] q.kind = "edit"       -> Append(Before(h, q.target), Message(q.target, "user"))
    [] q.kind = "regenerate" -> UpTo(h, LastUser(h))
    [] OTHER                 -> h

Answered(q, f) == [q EXCEPT !.st = "open", !.frames = <<f>>]

\* The turn of an accepted request, and its frame: an answer, stored before its
\* done frame; a question, stored before its frame; or an error after the
\* stream began.
Turn(q, f) ==
  /\ Accepts(q) /\ Fresh(2) /\ nextId' = nextId + 2
  /\ executed' = IF q.ok THEN executed \cup q.calls ELSE executed
  /\ \/ /\ f = [event |-> "done", ref |-> nextId + 1]
        /\ rows' = [rows EXCEPT ![q.conv] = Append(Base(q), Message(nextId + 1, "assistant"))]
        /\ asked' = [asked EXCEPT ![q.conv] = {}]
     \/ /\ f = [event |-> "approval_request", ref |-> nextId + 1]
        /\ rows' = [rows EXCEPT ![q.conv] = Base(q)]
        /\ asked' = [asked EXCEPT ![q.conv] = {nextId + 1}]
     \/ /\ f = [event |-> "error", ref |-> None]
        /\ rows' = [rows EXCEPT ![q.conv] = Base(q)]
        /\ asked' = [asked EXCEPT ![q.conv] = {}]

Serve(r) ==
  /\ run[r].st = "posted"
  /\ \E f \in Frames : Turn(run[r], f) /\ run' = [run EXCEPT ![r] = Answered(@, f)]
  /\ UNCHANGED <<page, ui, chat, gone, loose, cache, fetch, denied, acts, crossed>>

\* A request the page has let go of is served all the same; nobody reads.
ServeGone(q) ==
  /\ \E f \in Frames : Turn(q, f)
  /\ gone' = gone \ {q}
  /\ UNCHANGED <<page, ui, chat, run, loose, cache, fetch, denied, acts, crossed>>

\* A refusal (400, 404, 409), a failed refresh, an error of the server: no
\* stream. Without a connection the request may have got through.
Refuse(r) ==
  /\ run[r].st = "posted"
  /\ run' = [run EXCEPT ![r].st = "refused"]
  /\ UNCHANGED <<gone, loose>> \/ LetGo(r)
  /\ UNCHANGED <<page, ui, chat, cache, fetch, srv, denied, acts, crossed>>

\* Another tab, the sidebar or the API deletes a conversation.
ServerDeletes(c) ==
  /\ Act /\ rows[c] # None
  /\ rows' = [rows EXCEPT ![c] = None] /\ asked' = [asked EXCEPT ![c] = {}]
  /\ UNCHANGED <<page, ui, chat, sent, cache, fetch, executed, nextId, denied, crossed>>

-----------------------------------------------------------------------------
(* consumeStream and start                                                 *)

\* MUTANT: both frames that end an answer carry the message's stored id over.
EitherRenames(s, slot, f) ==
  IF f.event \in {"done", "error"} THEN Renamed(s, slot, f.ref) ELSE s

\* What a frame does to the message it streams into.
Applied(s, slot, f) ==
  CASE f.event = "done"  -> Renamed(s, slot, f.ref)
    [] f.event = "error" -> Failed(s, slot)
    [] OTHER -> s

Consumed(q, f) ==
  [q EXCEPT !.frames = Tail(@),
            !.slot = IF f.event = "done" THEN f.ref ELSE @,
            !.failed = @ \/ f.event = "error"]

\* One frame. done and error find the placeholder by its id; the calls go to
\* the hook, whatever conversation is selected by now.
OnFrame(r) ==
  /\ run[r].st = "open" /\ run[r].frames # <<>>
  /\ LET f == Head(run[r].frames) IN
     /\ pending' = CASE f.event = "approval_request" -> {f.ref}
                     [] f.event = "done" -> {}
                     [] OTHER -> pending
     /\ thread' = Applied(thread, run[r].slot, f)
     /\ run' = [run EXCEPT ![r] = Consumed(@, f)]
  /\ UNCHANGED <<page, ui, gone, loose, status, active, cache, fetch, srv, denied, acts, crossed>>

\* The stream ends: the placeholder settles and the status follows, whatever
\* run the page is in by now.
OnStreamEnd(r) ==
  /\ run[r].st = "open" /\ run[r].frames = <<>>
  /\ thread' = Settled(thread, run[r].slot)
  /\ status' = IF run[r].failed THEN "error" ELSE "idle"
  /\ run' = [run EXCEPT ![r] = NoRun]
  /\ UNCHANGED <<page, ui, gone, loose, pending, active, cache, fetch, srv, denied, acts, crossed>>

\* start's catch, other errors: the status, if this is still the active run.
\* The placeholder is left as it is.
OnRefused(r) ==
  /\ run[r].st = "refused"
  /\ status' = IF active = r THEN "error" ELSE status
  /\ run' = [run EXCEPT ![r] = NoRun]
  /\ UNCHANGED <<page, ui, gone, loose, thread, pending, active, cache, fetch, srv, denied, acts,
                 crossed>>

\* The connection breaks in the middle of a stream: the same branch.
OnBroken(r) ==
  /\ run[r].st = "open"
  /\ status' = IF active = r THEN "error" ELSE status
  /\ run' = [run EXCEPT ![r] = NoRun]
  /\ UNCHANGED <<page, ui, gone, loose, thread, pending, active, cache, fetch, srv, denied, acts,
                 crossed>>

\* MUTANT: the AbortError branch settles the placeholder but not the status.
AbortedKeepsStatus(r) ==
  /\ run[r].st = "aborted"
  /\ thread' = IF active = r THEN Settled(thread, run[r].slot) ELSE thread
  /\ run' = [run EXCEPT ![r] = NoRun]
  /\ UNCHANGED <<page, ui, gone, loose, pending, status, active, cache, fetch, srv, denied, acts,
                 crossed>>

\* start's catch, AbortError: only the controller that is still active settles
\* its run.
OnAborted(r) ==
  /\ run[r].st = "aborted"
  /\ IF active = r
     THEN thread' = Settled(thread, run[r].slot) /\ status' = "idle"
     ELSE UNCHANGED <<thread, status>>
  /\ run' = [run EXCEPT ![r] = NoRun]
  /\ UNCHANGED <<page, ui, gone, loose, pending, active, cache, fetch, srv, denied, acts, crossed>>

-----------------------------------------------------------------------------
(* Selecting, seeding, deleting                                            *)

\* A conversation is selected (sidebar, palette, workspace menu). Neither page
\* resets its chat: what streams goes on, what is pending stays.
Select(c) ==
  /\ Act /\ c # selected
  /\ \/ SidebarChats(c) \/ CommandPalette(c)
     \/ ProjectSwitcher(c) \/ SidebarProject(c)
  /\ selected' = c
  /\ Seed(c, cache[c])
  /\ fetch' = Want(c)
  /\ fresh' = FALSE
  /\ UNCHANGED <<page, pending, status, active, sent, creating, doomed, del, cache, srv, denied,
                 crossed>>

\* MUTANT: a new chat blanks the thread and leaves the run of the old one.
BlankOnly ==
  /\ selected' = None /\ seeded' = None
  /\ thread' = <<>> /\ pending' = {} /\ status' = "idle"
  /\ UNCHANGED <<sent, active>>

\* startNewChat, handleStartNewChat, and the effects of a route without a
\* conversation: the page goes back to an empty chat.
Blank == selected' = None /\ seeded' = None /\ Reset

NewChat ==
  /\ Act /\ selected # None
  /\ Blank
  /\ fresh' = (page = "project")
  /\ UNCHANGED <<page, creating, doomed, del, cache, fetch, srv, denied, crossed>>

\* The workspace opens the project's first conversation unless the link asks
\* for a new one.
PickFirst ==
  /\ page = "project" /\ selected = None /\ ~fresh
  /\ \E c \in Convs :
       /\ rows[c] # None
       /\ selected' = c /\ Seed(c, cache[c]) /\ fetch' = Want(c)
  /\ UNCHANGED <<page, fresh, pending, status, active, sent, creating, doomed, del, cache, srv,
                 denied, acts, crossed>>

\* The detail arrives: it is cached and seeds the page it is still for. A
\* conversation that is gone sends the chat page back to /chat.
DetailArrives(c) ==
  /\ c \in fetch
  /\ fetch' = fetch \ {c}
  /\ cache' = [cache EXCEPT ![c] = IF rows[c] = None THEN @ ELSE rows[c]]
  /\ IF rows[c] = None /\ selected = c /\ page = "chat" THEN Blank
     ELSE /\ IF selected = c THEN Seed(c, cache'[c]) ELSE UNCHANGED <<seeded, thread>>
          /\ UNCHANGED <<selected, pending, status, active, sent>>
  /\ UNCHANGED <<page, fresh, creating, doomed, del, srv, denied, acts, crossed>>

\* The button under a message opens the dialog; the dialog can be closed.
AskDelete(id) ==
  /\ acts < MaxActs /\ doomed = None
  /\ \E i \in IndexOf(thread, id) : Deletable(thread[i])
  /\ doomed' = id
  /\ UNCHANGED <<page, selected, fresh, seeded, creating, del, chat, sent, cache, fetch, srv,
                 denied, acts, crossed>>

CancelDelete ==
  /\ doomed # None /\ doomed' = None
  /\ UNCHANGED <<page, selected, fresh, seeded, creating, del, chat, sent, cache, fetch, srv,
                 denied, acts, crossed>>

\* confirmDeleteMessage(): the message of the dialog, in the conversation that
\* is selected by now.
DeleteMessage ==
  /\ Act /\ doomed # None /\ selected # None /\ del = None
  /\ del' = [conv |-> selected, id |-> doomed, st |-> "sent"]
  /\ UNCHANGED <<page, selected, fresh, seeded, creating, doomed, chat, sent, cache, fetch,
                 srv, denied, crossed>>

\* The server deletes the message and everything after it, or has no such id:
\* a message sent from this page is known to it under another one.
ServeDelete ==
  /\ del # None /\ del.st = "sent"
  /\ LET found == rows[del.conv] # None /\ IndexOf(rows[del.conv], del.id) # {} IN
     /\ del' = [del EXCEPT !.st = IF found THEN "ok" ELSE "missing"]
     /\ rows' = IF found THEN [rows EXCEPT ![del.conv] = Before(@, del.id)] ELSE rows
  /\ UNCHANGED <<page, selected, fresh, seeded, creating, doomed, chat, sent, cache, fetch, asked,
                 executed, nextId, denied, acts, crossed>>

\* The answer cuts the thread that is shown by now, closes the dialog and
\* invalidates the detail.
DeleteAnswered ==
  /\ del # None /\ del.st # "sent"
  /\ thread' = IF del.st = "ok" THEN Before(thread, del.id) ELSE thread
  /\ fetch' = IF del.st = "ok" /\ selected = del.conv THEN Want(del.conv) ELSE fetch
  /\ del' = None
  /\ doomed' = IF del.st = "ok" THEN None ELSE doomed
  /\ UNCHANGED <<page, selected, fresh, seeded, creating, pending, status, active, sent,
                 cache, srv, denied, acts, crossed>>

-----------------------------------------------------------------------------
OneTurn == <<Message(1, "user"), Message(2, "assistant")>>

Init ==
  /\ page \in Pages
  /\ selected = None /\ fresh = FALSE /\ seeded = None
  /\ thread = <<>> /\ pending = {} /\ status = "idle" /\ active = None
  /\ run = [r \in Runs |-> NoRun] /\ gone = {} /\ loose = {}
  /\ creating = 0 /\ doomed = None /\ del = None
  /\ cache = [c \in Convs |-> None]
  /\ fetch = {}
  /\ rows = [c \in Convs |-> IF c \in Old THEN OneTurn ELSE None]
  /\ asked = [c \in Convs |-> {}]
  /\ executed = {} /\ denied = {}
  /\ nextId = 3 /\ acts = 0 /\ crossed = FALSE

UserStep ==
  \/ Submit \/ SubmitNew \/ RegenerateLast \/ Stop \/ NewChat
  \/ DeleteMessage \/ CancelDelete
  \/ \E id \in Ids : SaveEdit(id) \/ AskDelete(id)
  \/ \E ok \in BOOLEAN : Decide(ok)
  \/ \E c \in Convs : Select(c) \/ ServerDeletes(c)

\* How a run goes on and ends.
RunStep(r) == \/ Serve(r) \/ Refuse(r) \/ OnFrame(r) \/ OnStreamEnd(r) \/ OnRefused(r)
              \/ OnAborted(r)

Next ==
  \/ UserStep
  \/ \E r \in Runs : RunStep(r) \/ OnBroken(r)
  \/ Created \/ NotCreated \/ PickFirst \/ ServeDelete \/ DeleteAnswered
  \/ \E c \in Convs : DetailArrives(c)
  \/ \E q \in gone : ServeGone(q)

Spec == Init /\ [][Next]_vars

-----------------------------------------------------------------------------
(* Properties                                                              *)

\* What was sent on behalf of the old conversation never shows up in a new
\* chat: its thread is empty, nothing waits for a decision and the status is
\* idle, however late the frames and the abort of the old run arrive.
NewChatIsBlank ==
  selected = None /\ ~crossed => thread = <<>> /\ pending = {} /\ status = "idle"

\* A call the user denied in the workspace is never executed, whatever was
\* retried, refused or cut in between, unless the user approved it first and the
\* page let that approval go before it was answered: the card then comes back,
\* and the denial is later than an approval that may still be served. (With two
\* runs open the end of the other one shows the card again while an approval is
\* still on its way.)
DeniedCallsDoNotRun == page = "project" /\ ~crossed => executed \cap denied \subseteq loose

\* README: tool calls wait for "interactive Approve/Deny approval cards". On
\* either page a denied call is not executed.
DenyMeansDeny == executed \cap denied = {}

\* useChat: start "drives one streaming request to completion and settles the
\* assistant placeholder". Without an open request no message is streaming.
PlaceholdersSettle ==
  (\A r \in Runs : run[r].st = "free") => \A i \in DOMAIN thread : ~thread[i].streaming

\* A page that is running waits for its own run, the one of abortRef, and that
\* run is still out: however a stream came to its end (answer, question, error,
\* refusal, abort) and whichever run was begun, left or cut meanwhile, the
\* composer, which running disables, is never taken for a run that is over.
BusyHasItsRun == Running => active # None /\ run[active].st # "free"

=============================================================================
