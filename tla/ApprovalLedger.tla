--------------------------- MODULE ApprovalLedger ---------------------------
(***************************************************************************)
(* What the approvals of a conversation promise: a call that needs a       *)
(* decision is asked for, decided by one request, and acted on at most     *)
(* once, by the agent that request resumes.  A decision may be lost on its *)
(* way (the client hangs up, a second request decided another call of the  *)
(* same pause); it is not repeated, and no call comes back once it was     *)
(* acted on.                                                               *)
(*                                                                         *)
(* ChatTurns implements this although no lock or transaction spans the     *)
(* reading of the pending calls, the flips and the resume.                 *)
(***************************************************************************)
VARIABLES
  asked,    \* calls that wait for a decision
  granted,  \* calls whose decision a request carries to the agent
  acted     \* calls the agent was resumed on

vars == <<asked, granted, acted>>

Init == asked = {} /\ granted = {} /\ acted = {}

\* A run pauses on calls nobody has decided.
Ask ==
  /\ asked \subseteq asked' /\ asked' \cap (granted \cup acted) = {}
  /\ UNCHANGED <<granted, acted>>

\* A request decides a call.
Decide ==
  \E c \in asked :
    /\ asked' = asked \ {c}
    /\ granted' = granted \cup {c}
    /\ UNCHANGED acted

\* A request resumes the agent on some of the calls it has decided, and is done
\* with all of them.
Act ==
  \E S \in SUBSET granted : \E T \in SUBSET S :
    /\ granted' = granted \ S
    /\ acted' = acted \cup T
    /\ UNCHANGED asked

Next == Ask \/ Decide \/ Act

Spec == Init /\ [][Next]_vars

\* A call is asked for, decided or acted on, one at a time: approvals.go decides
\* each call once and RunDeferred acts on each decision once.
Apart ==
  /\ asked \cap (granted \cup acted) = {}
  /\ granted \cap acted = {}
=============================================================================
