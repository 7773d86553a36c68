------------------------------ MODULE Exchange ------------------------------
(***************************************************************************)
(* What one store sends another outside the sync protocol: bundle files    *)
(* (cli.rs, Store::export_bundle and import_bundle), receipts (receipt.rs, *)
(* cli.rs), summaries (summary.rs) and handoffs (Selection, Handoff).      *)
(* Each is made by a process that reads the store in several snapshots     *)
(* while branches move, then lies around as a file, and is used at the     *)
(* other store at any time, in any order, any number of times, or never.   *)
(*                                                                         *)
(* ContextStore is the sender's store, Recipient another instance of it.   *)
(***************************************************************************)
EXTENDS Projections

CONSTANTS
  Ctx, Genesis,    \* the context shared, and its genesis
  Peer,            \* the recipient's name for the sender
  Asked,           \* the heads users ask an export for
  KnownToUser,     \* the heads users say the recipient knows
  Referenced,      \* the sets of events receipts are issued for
  Tasks,           \* the tasks sources are selected for (Selection)
  CandidateSets,   \* the candidates users name
  Critical, Uncovered, PayloadBytes, MaxEvents, MaxBytes,   \* (Handoff)
  MaxCandidates, MaxSelected, MaxSelectedBytes,             \* (Selection)
  MaxMade          \* bound: artefacts made

ASSUME ExchangeAssumption ==
  /\ Ctx \in ContextId /\ Peer \in PeerName
  /\ Genesis \in EventId /\ Body[Genesis].context = Ctx
  /\ Body[Genesis].kind = "context.genesis"
  /\ \A e \in EventId : Body[e].kind = "context.genesis" => Body[e].parents = {}
  /\ \A c \in ContextId : \E e \in EventId : Body[e].kind = "context.genesis" /\ Body[e].context = c
  /\ Asked \subseteq (SUBSET EventId) \ {{}}
  /\ KnownToUser \subseteq SUBSET EventId /\ Referenced \subseteq SUBSET EventId
  /\ CandidateSets \subseteq SUBSET EventId
  /\ Tasks \subseteq [text : {"blank", "no terms", "terms"}, matches : SUBSET EventId]
  /\ MaxCandidates \in Nat /\ MaxSelected \in Nat /\ MaxSelectedBytes \in Nat
  /\ MaxMade \in Nat

VARIABLES
  rExpected, rActive, rAuthors, rEvents, rLocalRef, rRemoteRef,
  job,        \* the process at work on the sender's store
  files,      \* the bundle files written, each with what was asked for
  receipts,   \* the receipts issued
  summaries,  \* the summaries built
  handoffs    \* the handoffs made, each with what was selected and from what

recipientVars == <<rExpected, rActive, rAuthors, rEvents, rLocalRef, rRemoteRef>>
made == <<files, receipts, summaries, handoffs>>
vars == <<storeVars, recipientVars, job, made>>

Recipient == INSTANCE ContextStore WITH
  expected <- rExpected, active <- rActive, authors <- rAuthors,
  events <- rEvents, localRef <- rLocalRef, remoteRef <- rRemoteRef

\* Selecting and handing over, from what the sender's store holds by then.
Offer == INSTANCE Selection WITH
  Held <- {e \in events : Body[e].context = Ctx}, Stored <- events,
  Parents <- [e \in EventId |-> Body[e].parents]

NoRefs == [n \in RefName |-> None]
NoJob == [at |-> "idle", asked |-> {}, known |-> {}, refs |-> NoRefs,
          heads |-> {}, todo |-> {}, covered |-> {}]

Room == Cardinality(files) + Cardinality(receipts) + Cardinality(summaries)
          + Cardinality(handoffs) < MaxMade

Begin(start) == job.at = "idle" /\ Room /\ job' = start

----------------------------------------------------------------------------
(* contextmesh bundle export: the branches are read in one transaction, the *)
(* events in another.                                                       *)

ReadBranches(asked, known) ==
  /\ Ctx \in active
  /\ Begin([NoJob EXCEPT !.at = "export", !.asked = asked, !.known = known,
                         !.refs = localRef[Ctx]])
  /\ UNCHANGED <<storeVars, recipientVars, made>>

Bundle ==
  [context |-> Ctx, events |-> Difference(job.asked, job.known), refs |-> job.refs]

\* Store::export_bundle projects both sets of heads and refuses a head it
\* does not hold; every advertised head must be stored.
Exportable ==
  \A h \in job.asked \cup job.known \cup SnapshotHeads(job.refs) : StoredIn(h, Ctx)

WriteBundle ==
  /\ job.at = "export" /\ Exportable
  /\ files' = files \cup {[bundle |-> Bundle, asked |-> job.asked, known |-> job.known]}
  /\ job' = NoJob
  /\ UNCHANGED <<storeVars, recipientVars, receipts, summaries, handoffs>>

\* contextmesh bundle import, whichever file.
ImportFile(f) ==
  /\ Recipient!ImportBundle(Peer, f.bundle)
  /\ UNCHANGED <<storeVars, job, made>>

----------------------------------------------------------------------------
(* contextmesh ob-receipt *)

Present(e, stored) == e \in stored /\ Body[e].context = Ctx

\* SignedReceiptV1::verify_against_dag has no finding: one lookup per event
\* and one for the recipient's head.  Lookups are transactions of their own,
\* but what a lookup found stays there, so one step stands for them all.
ReceiptVerifies(r, stored) == \A e \in r.events \cup {r.head} : Present(e, stored)

\* Fault: the recipient's head is not looked up before issuing.
IssueReceiptAnyHead(r) ==
  /\ job.at = "idle" /\ Room
  /\ \A e \in r.events : Present(e, events)
  /\ receipts' = receipts \cup {r}
  /\ UNCHANGED <<storeVars, recipientVars, job, files, summaries, handoffs>>

\* The receipt is signed first, but written only if it verifies here.
IssueReceipt(r) ==
  /\ job.at = "idle" /\ Room
  /\ ReceiptVerifies(r, events)
  /\ receipts' = receipts \cup {r}
  /\ UNCHANGED <<storeVars, recipientVars, job, files, summaries, handoffs>>

----------------------------------------------------------------------------
(* Summaries *)

Finish(level, heads, covered) ==
  /\ summaries' = summaries \cup {[level |-> level, heads |-> heads, covered |-> covered]}
  /\ job' = NoJob
  /\ UNCHANGED <<storeVars, recipientVars, files, receipts, handoffs>>

\* Summary::event
SummarizeEvent(e) ==
  /\ job.at = "idle" /\ Room /\ StoredIn(e, Ctx)
  /\ Finish("event", {e}, {e})

\* Summary::ref_summary reads the branch, Summary::project lists them all;
\* the walks follow in transactions of their own.
ReadHeads(names) ==
  LET heads == {localRef[Ctx][n] : n \in names} \ {None} IN
  /\ heads # {}
  /\ Begin([NoJob EXCEPT !.at = "walk", !.heads = heads, !.todo = heads,
                         !.refs = [n \in RefName |-> IF n \in names THEN localRef[Ctx][n]
                                                                    ELSE None]])
  /\ UNCHANGED <<storeVars, recipientVars, made>>

\* Fault: the walk starts at the head the branch has by now.
WalkCurrent(h) ==
  LET now == localRef[Ctx][CHOOSE n \in RefName : job.refs[n] = h] IN
  /\ job.at = "walk" /\ h \in job.todo
  /\ Offer!Recognised(now)
  /\ job' = [job EXCEPT !.todo = @ \ {h}, !.covered = @ \cup Offer!RecipientAt(now).closure]
  /\ UNCHANGED <<storeVars, recipientVars, made>>

\* RecipientState::at_head for one of the heads listed.
Walk(h) ==
  /\ job.at = "walk" /\ h \in job.todo
  /\ Offer!Recognised(h)
  /\ job' = [job EXCEPT !.todo = @ \ {h}, !.covered = @ \cup Offer!RecipientAt(h).closure]
  /\ UNCHANGED <<storeVars, recipientVars, made>>

FinishWalks ==
  /\ job.at = "walk" /\ job.todo = {}
  /\ Finish("walks", job.heads, job.covered)

\* Summary::verify_against_dag; the content address is taken to hold.
SummaryVerifies(s, stored) == \A e \in s.covered : Present(e, stored)

----------------------------------------------------------------------------
(* Handoffs: select sources for a task, close the selection, and offer what *)
(* the recipient lacks at the head it stated; each call reads for itself.   *)

SelectFor(task, candidates) ==
  LET selection == Offer!SelectSources(task, candidates) IN
  /\ selection.outcome \in Offer!Selected
  /\ Begin([NoJob EXCEPT !.at = "close", !.asked = candidates,
                         !.heads = selection.references])
  /\ UNCHANGED <<storeVars, recipientVars, made>>

CloseOver ==
  /\ job.at = "close" /\ Offer!Closable(job.heads, job.asked)
  /\ job' = [job EXCEPT !.at = "offer",
                        !.covered = Offer!CloseSelection(job.heads, job.asked)]
  /\ UNCHANGED <<storeVars, recipientVars, made>>

\* at_head, compute_delta, from_delta and shape_handoff.
HandOff(head) ==
  /\ job.at = "offer" /\ Offer!Recognised(head)
  /\ handoffs' = handoffs \cup
       {[selected |-> job.heads, candidates |-> job.asked,
         handoff |-> Offer!ShapeHandoff(Offer!FromDelta(job.covered, Offer!RecipientAt(head)))]}
  /\ job' = NoJob
  /\ UNCHANGED <<storeVars, recipientVars, files, receipts, summaries>>

\* Any of these processes ends early: a head that is not held, a limit, an
\* error of the store, or a kill.  Nothing was written.
GiveUp ==
  /\ job.at # "idle" /\ job' = NoJob
  /\ UNCHANGED <<storeVars, recipientVars, made>>

----------------------------------------------------------------------------
(* The sender's store goes on *)

\* Fault: the event need not extend the branch it is put on.
AppendUntied(e, n) ==
  /\ Body[e].context = Ctx
  /\ AdmitAndMove(e, Ctx, n, localRef[Ctx][n], e)

\* append and merge, whose interior is BranchWriters.
AppendEvent(e, n) == ExtendBranch(Ctx, n, e)

SenderWorks ==
  /\ \/ \E e \in EventId, n \in RefName : AppendEvent(e, n)
     \/ \E n \in RefName, e \in EventId : CreateBranch(Ctx, n, e)
  /\ UNCHANGED <<recipientVars, job, made>>

----------------------------------------------------------------------------
\* The sender has created the context on a branch, and holds the genesis it
\* pinned for every other context; the recipient has pinned the genesis of
\* this one (join_context).
ExchangeInit ==
  /\ expected \in {pinned \in [ContextId -> EventId] :
       /\ pinned[Ctx] = Genesis
       /\ \A c \in ContextId : /\ Body[pinned[c]].context = c
                               /\ Body[pinned[c]].kind = "context.genesis"}
  /\ events = {expected[c] : c \in ContextId}
  /\ active = ContextId
  /\ authors = [c \in ContextId |-> AuthorId]
  /\ localRef \in {[c \in ContextId |-> IF c = Ctx THEN [NoRefs EXCEPT ![n] = Genesis]
                                                   ELSE NoRefs] : n \in RefName}
  /\ remoteRef = [p \in PeerName |-> [c \in ContextId |-> NoRefs]]
  /\ rExpected = [c \in ContextId |-> IF c = Ctx THEN Genesis ELSE None]
  /\ rAuthors = [c \in ContextId |-> IF c = Ctx THEN AuthorId ELSE {}]
  /\ rActive = {} /\ rEvents = {}
  /\ rLocalRef = [c \in ContextId |-> NoRefs]
  /\ rRemoteRef = remoteRef
  /\ job = NoJob /\ files = {} /\ receipts = {} /\ summaries = {} /\ handoffs = {}

ExchangeNext ==
  \/ SenderWorks
  \/ \E asked \in Asked, known \in KnownToUser : ReadBranches(asked, known)
  \/ WriteBundle
  \/ \E f \in files : ImportFile(f)
  \/ \E es \in Referenced, h \in EventId : IssueReceipt([events |-> es, head |-> h])
  \/ \E e \in EventId : SummarizeEvent(e)
  \/ \E names \in {{n} : n \in RefName} \cup {RefName} : ReadHeads(names)
  \/ \E h \in EventId : Walk(h)
  \/ FinishWalks
  \/ \E task \in Tasks, candidates \in CandidateSets : SelectFor(task, candidates)
  \/ CloseOver
  \/ \E head \in EventId \cup {None} : HandOff(head)
  \/ GiveUp

ExchangeSpec == ExchangeInit /\ [][ExchangeNext]_vars

----------------------------------------------------------------------------
(* Properties *)

Before(heads) == UNION {Ancestors[h] : h \in heads}

\* A file can be imported whatever was imported before it and however often,
\* and however the branches moved while it was made, as long as the recipient
\* holds the heads its maker said it knows, and its maker asked for every
\* branch the file advertises (spec-oa-03: the caller is responsible for a
\* known frontier that the receiver has).
FileImportable ==
  \A f \in files :
    LET b == f.bundle IN
    /\ f.known \subseteq rEvents
    /\ SnapshotHeads(b.refs) \subseteq Before(f.asked) \cup rEvents
    => /\ Recipient!WellFormedBundle(b) /\ Recipient!ImportableEvents(b)
       /\ SnapshotHeads(b.refs) \subseteq rEvents \cup EventsOf(b)

\* Files imported late, twice or out of order may set the peer's refs back,
\* but never name a head the sender's branch did not have: each lies in the
\* history of that branch.
NeverAhead ==
  \A n \in RefName :
    LET head == rRemoteRef[Peer][Ctx][n] IN
    head # None => localRef[Ctx][n] # None /\ head \in Ancestors[localRef[Ctx][n]]

\* A receipt verifies for good at the store that issued it, and a store where
\* it verifies holds everything the events and the recipient's head stand on.
ReceiptsHold ==
  \A r \in receipts :
    /\ ReceiptVerifies(r, events)
    /\ \A stored \in {events, rEvents} :
         ReceiptVerifies(r, stored) => Before(r.events \cup {r.head}) \subseteq stored

\* A summary is of one instant although every branch is walked in a snapshot
\* of its own: it covers the histories of the heads as they were listed and
\* nothing that was added meanwhile.  It verifies for good at its store, and
\* where it verifies elsewhere these histories are complete.
SummaryExact ==
  \A s \in summaries :
    /\ s.covered = IF s.level = "event" THEN s.heads ELSE Before(s.heads)
    /\ SummaryVerifies(s, events)
    /\ SummaryVerifies(s, rEvents) => Before(s.heads) \subseteq rEvents

\* A handoff is usable wherever the head it was made for is held, whenever it
\* arrives: what it takes for known is there; what was selected, with all it
\* stands on, and every critical candidate is offered or known; and the events
\* offered could be admitted, except that a critical one outside the selected
\* history may stand on events that are neither offered nor known.
OfferUsable ==
  \A o \in handoffs :
    LET h == o.handoff
        selected == Before(o.selected)
    IN  h.head \in rEvents \cup {None} =>
          /\ h.known \subseteq rEvents
          /\ selected \cup (o.candidates \cap Critical) \subseteq h.known \cup h.events
          /\ \A e \in h.events : e \in selected \/ e \notin Critical =>
               Body[e].parents \subseteq rEvents \cup h.events
=============================================================================
