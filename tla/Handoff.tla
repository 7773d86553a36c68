------------------------------ MODULE Handoff ------------------------------
(***************************************************************************)
(* From a selection to a handoff (src/src/closure.rs, delta.rs,            *)
(* handoff.rs, capability.rs), as operators over one context of the store: *)
(* the selection is closed over parent edges and covers critical           *)
(* candidates, the events the recipient knows are taken out, and the rest  *)
(* is bound to the recipient's head together with the list of what was     *)
(* left out and with a flag on what the recipient cannot act on.           *)
(*                                                                         *)
(* A source reference is the event it names.  An event that is missing or  *)
(* belongs to another context makes every one of these calls fail, so the  *)
(* two are one case here: not Held.                                        *)
(***************************************************************************)
EXTENDS Integers, FiniteSets, FiniteSetsExt, Sequences

CONSTANTS
  EventId,       \* event addresses, whether stored or not
  Held,          \* the events of the context the store holds
  Parents,       \* event -> its parents
  Critical,      \* the events whose kind the critical policy lists
  Uncovered,     \* the events whose kind no capability of the recipient covers
  PayloadBytes,  \* event -> the size of its canonical payload
  MaxEvents, MaxBytes,   \* ClosureLimits
  None           \* the head of a cold-start recipient

\* What the store guarantees of the events it holds (see ContextStore).
ASSUME HeldAssumption ==
  /\ Parents \in [EventId -> SUBSET EventId]
  /\ Held \subseteq EventId
  /\ \A e \in Held : Parents[e] \subseteq Held

ASSUME HandoffConstants ==
  /\ Critical \subseteq EventId /\ Uncovered \subseteq EventId
  /\ PayloadBytes \in [EventId -> Nat]
  /\ MaxEvents \in Nat \ {0} /\ MaxBytes \in Nat \ {0}
  /\ None \notin EventId

Weight(S) == MapThenSumSet(LAMBDA e : PayloadBytes[e], S)

ParentClosed(S) == \A e \in S : Parents[e] \subseteq S

\* The selected events and all their ancestors (what load_closure_nodes and
\* close_over collect when neither a limit nor a missing event stops them).
ParentClosure(S) ==
  {a \in EventId : \A T \in SUBSET EventId : S \subseteq T /\ ParentClosed(T) => a \in T}

WithinLimits(S) == Cardinality(S) <= MaxEvents /\ Weight(S) <= MaxBytes

----------------------------------------------------------------------------
(* closure.rs *)

\* close_selection succeeds.  The limits bind the parent closure; critical
\* candidates are looked at after it.
Closable(selected, candidates) ==
  /\ selected \subseteq Held
  /\ WithinLimits(ParentClosure(selected))
  /\ (candidates \ ParentClosure(selected)) \subseteq Held

\* Fault: what the selected events stand on is left out.
CloseSelectionShallow(selected, candidates) == selected \cup (candidates \cap Critical)

\* The references of the closed selection.
CloseSelection(selected, candidates) ==
  ParentClosure(selected) \cup (candidates \cap Critical)

ClosedSelections ==
  {CloseSelection(p[1], p[2]) :
     p \in {q \in (SUBSET EventId) \X (SUBSET EventId) : Closable(q[1], q[2])}}

----------------------------------------------------------------------------
(* delta.rs *)

ColdStart == [head |-> None, closure |-> {}]

\* RecipientState::at_head and cold_start.
Recognised(head) ==
  head # None => head \in Held /\ WithinLimits(ParentClosure({head}))

RecipientAt(head) ==
  IF head = None THEN ColdStart
  ELSE [head |-> head, closure |-> ParentClosure({head})]

\* compute_delta: the references outside the recipient's closure.
ComputeDelta(closed, recipient) == closed \ recipient.closure

----------------------------------------------------------------------------
(* handoff.rs *)

\* Handoff::from_delta, and with_omission for every event of omitted.
FromDelta(closed, recipient) ==
  [head |-> recipient.head, known |-> recipient.closure,
   events |-> ComputeDelta(closed, recipient), omissions |-> {}, flags |-> {},
   reIncluded |-> << >>]

WithOmissions(h, omitted) == [h EXCEPT !.omissions = @ \cup (omitted \ h.events)]

\* shape_handoff (capability.rs): an uncertainty note for every event offered
\* that the recipient has no capability for.
ShapeHandoff(h) == [h EXCEPT !.flags = @ \cup (h.events \cap Uncovered)]

\* Handoff::verify_valid against the head the recipient states.
VerifyValid(h, stated) == h.head = stated

\* Faults: a source that was never listed is accepted; an omission stays
\* listed although it is offered.
CanFollowUpAny(h, closed, recipient, e) ==
  VerifyValid(h, recipient.head) /\ e \in ComputeDelta(closed, recipient)

FollowUpKeepingOmissions(h, closed, recipient, e) ==
  [FromDelta(closed, recipient) EXCEPT
     !.omissions = h.omissions, !.flags = h.flags, !.reIncluded = Append(h.reIncluded, e)]

\* Handoff::challenge and Handoff::follow_up succeed: the handoff is valid
\* for the recipient given, the event is a listed omission, and the new
\* delta really holds it.
CanFollowUp(h, closed, recipient, e) ==
  /\ VerifyValid(h, recipient.head)
  /\ e \in h.omissions
  /\ e \in closed
  /\ e \in ComputeDelta(closed, recipient)

FollowUp(h, closed, recipient, e) ==
  LET next == FromDelta(closed, recipient) IN
  [next EXCEPT !.omissions = h.omissions \ next.events,
               !.flags = h.flags,
               !.reIncluded = Append(h.reIncluded, e)]
=============================================================================
