--------------------------- MODULE ExchangeProofs ---------------------------
(***************************************************************************)
(* What artefacts are worth, for every history, any number of branches and *)
(* artefacts and every order of use: files never put a peer ahead of the   *)
(* peer, receipts keep verifying, and summaries are of one instant.        *)
(*                                                                         *)
(* All of it rests on two facts: what a store holds is closed under        *)
(* parents, and the sender's branches only move to descendants.            *)
(***************************************************************************)
EXTENDS Exchange, ContextStoreProofs, ListingProofs

\* What the sender's store holds of the shared context.
Shared == {e \in events : Body[e].context = Ctx}

\* Refs that name, branch by branch, something the sender's branch has.
Behind(refs) ==
  /\ refs \in RefSnapshot
  /\ \A n \in RefName : refs[n] # None =>
       localRef[Ctx][n] # None /\ refs[n] \in Ancestors[localRef[Ctx][n]]

Stores ==
  /\ localRef \in [ContextId -> RefSnapshot]
  /\ events \subseteq EventId /\ Closed(Shared)
  /\ \A n \in RefName : localRef[Ctx][n] # None => localRef[Ctx][n] \in Shared
  /\ Closed(rEvents)
  /\ rRemoteRef \in [PeerName -> [ContextId -> RefSnapshot]]

Fields == {"at", "asked", "known", "refs", "heads", "todo", "covered"}

Jobs ==
  /\ job = [f \in Fields |-> job[f]]
  /\ job.at = "export" => Behind(job.refs)
  /\ job.at = "walk" =>
       /\ job.heads \subseteq Shared /\ job.todo \subseteq job.heads
       /\ job.covered = Before(job.heads \ job.todo)
  /\ job.at \in {"close", "offer"} =>
       job.heads \in SUBSET EventId /\ job.asked \in SUBSET EventId
  /\ job.at = "offer" => job.covered = Before(job.heads) \cup (job.asked \cap Critical)

Files == \A f \in files : f.bundle.context = Ctx /\ Behind(f.bundle.refs)

Peers == Behind(rRemoteRef[Peer][Ctx])

Receipts == \A r \in receipts : r.events \cup {r.head} \subseteq Shared

Summaries == \A s \in summaries :
  /\ s.heads \subseteq Shared
  /\ s.covered = IF s.level = "event" THEN s.heads ELSE Before(s.heads)

\* A handoff takes the history of its head for known, and offers the rest of
\* what was selected, of what that stands on, and of the critical candidates.
Offers == \A o \in handoffs :
  LET h == o.handoff IN
  /\ o.selected \in SUBSET EventId
  /\ h.head \in EventId \cup {None}
  /\ h.known = IF h.head = None THEN {} ELSE Ancestors[h.head]
  /\ h.events = (Before(o.selected) \cup (o.candidates \cap Critical)) \ h.known

ExchangeInv == Stores /\ Jobs /\ Files /\ Peers /\ Receipts /\ Summaries /\ Offers

----------------------------------------------------------------------------
(* Histories *)

\* A closed set that holds some events holds all they stand on.
LEMMA HistoryWithin ==
  ASSUME NEW S, Closed(S), NEW heads \in SUBSET EventId, heads \subseteq S
  PROVE  Before(heads) \subseteq S
<1>1. S \cap EventId \in SUBSET EventId /\ Closed(S \cap EventId)
  BY ParentsAreEvents DEF Closed
<1> QED
  BY <1>1, AncestorsLeast DEF Before

\* A head is in its own history.
LEMMA HeadsInHistory ==
  ASSUME NEW heads \in SUBSET EventId
  PROVE  heads \subseteq Before(heads)
BY AncestorsReflexive DEF Before

\* No refs at all are a snapshot of refs.
LEMMA NoRefsTyped == NoRefs \in RefSnapshot
BY DEF NoRefs, RefSnapshot, Optional

\* Closing a selection over parents (Handoff) adds what it stands on.
LEMMA ClosureIsHistory ==
  ASSUME NEW S \in SUBSET EventId
  PROVE  Offer!ParentClosure(S) = Before(S)
<1>1. \A T \in SUBSET EventId : Offer!ParentClosed(T) <=> Closed(T)
  BY DEF Offer!ParentClosed, Closed
<1>2. Before(S) \in SUBSET EventId /\ S \subseteq Before(S) /\ Closed(Before(S))
  BY AncestorsType, HeadsInHistory, AncestorsClosed DEF Before, Closed
<1>3. \A T \in SUBSET EventId : S \subseteq T /\ Closed(T) => Before(S) \subseteq T
  BY HistoryWithin
<1> QED
  BY <1>1, <1>2, <1>3 DEF Offer!ParentClosure

\* The history a recipient at some head is taken to know is that of the head.
LEMMA KnownIsHistory ==
  ASSUME NEW h \in EventId
  PROVE  Offer!RecipientAt(h).closure = Ancestors[h]
<1>1. h # None
  BY NoneAssumption
<1>2. Offer!RecipientAt(h).closure = Before({h})
  BY <1>1, ClosureIsHistory DEF Offer!RecipientAt
<1> QED
  BY <1>2 DEF Before

----------------------------------------------------------------------------
(* The sender's store *)

\* A branch moves from nothing, or to an event with the old head as a parent.
Forward ==
  \A n \in RefName : localRef[Ctx][n] # None =>
    /\ localRef'[Ctx][n] # None
    /\ Ancestors[localRef[Ctx][n]] \subseteq Ancestors[localRef'[Ctx][n]]

\* An append moves its branch to a child of its head.
LEMMA AppendEffect ==
  ASSUME Stores, NEW e \in EventId, NEW n \in RefName, AppendEvent(e, n)
  PROVE  /\ events' = events \cup {e} /\ Body[e].context = Ctx
         /\ \A p \in Body[e].parents : p \in Shared
         /\ localRef' = [localRef EXCEPT ![Ctx][n] = e]
         /\ localRef[Ctx][n] \in Body[e].parents
  BY DEF AppendEvent, ExtendBranch, MutationMatches, AdmitAndMove, Admissible, Acceptable,
         StoreEvent, MoveRef, Shared

\* What the sender's own work does to its store.
LEMMA SenderEffect ==
  ASSUME Stores, SenderWorks
  PROVE  /\ localRef' \in [ContextId -> RefSnapshot]
         /\ events' \subseteq EventId /\ Shared \subseteq Shared' /\ Closed(Shared)'
         /\ \A n \in RefName : localRef'[Ctx][n] # None => localRef'[Ctx][n] \in Shared'
         /\ Forward
<1>0. /\ localRef \in [ContextId -> RefSnapshot] /\ events \subseteq EventId /\ Closed(Shared)
      /\ \A n \in RefName : localRef[Ctx][n] # None => localRef[Ctx][n] \in Shared
      /\ Ctx \in ContextId
  BY ExchangeAssumption DEF Stores
<1>1. ASSUME NEW e \in EventId, NEW n \in RefName,
             localRef' = [localRef EXCEPT ![Ctx][n] = e]
      PROVE  /\ localRef' \in [ContextId -> RefSnapshot]
             /\ localRef'[Ctx][n] = e
             /\ \A m \in RefName : m # n => localRef'[Ctx][m] = localRef[Ctx][m]
  BY <1>0, <1>1 DEF RefSnapshot, Optional
<1>2. ASSUME NEW e \in EventId, NEW n \in RefName, AppendEvent(e, n)
      PROVE  /\ localRef' \in [ContextId -> RefSnapshot]
             /\ events' \subseteq EventId /\ Shared \subseteq Shared' /\ Closed(Shared)'
             /\ \A m \in RefName : localRef'[Ctx][m] # None => localRef'[Ctx][m] \in Shared'
             /\ Forward
  <2>1. /\ events' = events \cup {e} /\ Body[e].context = Ctx
        /\ \A p \in Body[e].parents : p \in Shared
        /\ localRef' = [localRef EXCEPT ![Ctx][n] = e]
        /\ localRef[Ctx][n] \in Body[e].parents
    BY <1>2, AppendEffect
  <2>2. Shared' = Shared \cup {e}
    BY <2>1 DEF Shared
  <2>3. Closed(Shared)'
    BY <1>0, <2>1, <2>2 DEF Closed
  <2>4. Forward
    <3>1. Ancestors[localRef[Ctx][n]] \subseteq Ancestors[e]
      BY <2>1, ParentHistory
    <3> QED
      BY <1>1, <2>1, <3>1, NoneAssumption DEF Forward
  <2>5. ASSUME NEW m \in RefName, localRef'[Ctx][m] # None
        PROVE  localRef'[Ctx][m] \in Shared'
    <3>1. localRef'[Ctx][m] \in {e, localRef[Ctx][m]}
      BY <1>1, <2>1
    <3> QED
      BY <1>0, <2>2, <2>5, <3>1
  <2>6. localRef' \in [ContextId -> RefSnapshot] /\ events' \subseteq EventId
    BY <1>0, <1>1, <2>1
  <2> QED
    BY <2>2, <2>3, <2>4, <2>5, <2>6
<1>3. ASSUME NEW e \in EventId, NEW n \in RefName, CreateBranch(Ctx, n, e)
      PROVE  /\ localRef' \in [ContextId -> RefSnapshot]
             /\ events' \subseteq EventId /\ Shared \subseteq Shared' /\ Closed(Shared)'
             /\ \A m \in RefName : localRef'[Ctx][m] # None => localRef'[Ctx][m] \in Shared'
             /\ Forward
  <2>1. /\ events' = events /\ e \in Shared /\ localRef[Ctx][n] = None
        /\ localRef' = [localRef EXCEPT ![Ctx][n] = e]
    BY <1>3 DEF CreateBranch, StoredIn, MoveRef, Shared
  <2>2. Shared' = Shared
    BY <2>1 DEF Shared
  <2>3. Forward
    BY <1>1, <2>1 DEF Forward
  <2>4. ASSUME NEW m \in RefName, localRef'[Ctx][m] # None
        PROVE  localRef'[Ctx][m] \in Shared'
    <3>1. localRef'[Ctx][m] \in {e, localRef[Ctx][m]}
      BY <1>1, <2>1
    <3> QED
      BY <1>0, <2>1, <2>2, <2>4, <3>1
  <2>5. localRef' \in [ContextId -> RefSnapshot] /\ events' \subseteq EventId
    BY <1>0, <1>1, <2>1
  <2>6. Closed(Shared)'
    BY <1>0, <2>2 DEF Closed
  <2> QED
    BY <2>2, <2>3, <2>4, <2>5, <2>6
<1> QED
  BY <1>2, <1>3 DEF SenderWorks

\* The sender's own work keeps the invariant.
LEMMA SenderInv ==
  ASSUME ExchangeInv, SenderWorks
  PROVE  ExchangeInv'
<1>1. /\ localRef' \in [ContextId -> RefSnapshot]
      /\ events' \subseteq EventId /\ Shared \subseteq Shared' /\ Closed(Shared)'
      /\ \A n \in RefName : localRef'[Ctx][n] # None => localRef'[Ctx][n] \in Shared'
      /\ Forward
  BY SenderEffect DEF ExchangeInv
<1>2. UNCHANGED <<recipientVars, job, files, receipts, summaries, handoffs>>
  BY DEF SenderWorks, made
<1>3. /\ Stores'
  BY <1>1, <1>2 DEF ExchangeInv, Stores, recipientVars, Closed
<1>4. \A refs \in RefSnapshot :
        (\A n \in RefName : refs[n] # None =>
           localRef[Ctx][n] # None /\ refs[n] \in Ancestors[localRef[Ctx][n]])
        => \A n \in RefName : refs[n] # None =>
             localRef'[Ctx][n] # None /\ refs[n] \in Ancestors[localRef'[Ctx][n]]
  BY <1>1 DEF Forward
<1>5. Jobs'
  BY <1>1, <1>2, <1>4 DEF ExchangeInv, Jobs, Behind
<1>6. Files' /\ Peers'
  BY <1>2, <1>4 DEF ExchangeInv, Files, Peers, Behind, recipientVars
<1>7. Receipts' /\ Summaries' /\ Offers'
  BY <1>1, <1>2 DEF ExchangeInv, Receipts, Summaries, Offers
<1> QED
  BY <1>3, <1>5, <1>6, <1>7 DEF ExchangeInv

----------------------------------------------------------------------------
(* The recipient's store *)

\* An import stores events only with or after their parents.
LEMMA ImportEffect ==
  ASSUME ExchangeInv, NEW f \in files, ImportFile(f)
  PROVE  /\ Closed(rEvents)'
         /\ rRemoteRef' \in [PeerName -> [ContextId -> RefSnapshot]]
         /\ Peers'
<1> DEFINE b == f.bundle
           new == Recipient!EventsOf(b)
<1>1. /\ b.context = Ctx /\ Behind(b.refs) /\ Behind(rRemoteRef[Peer][Ctx])
      /\ Ctx \in ContextId /\ Peer \in PeerName
      /\ rRemoteRef \in [PeerName -> [ContextId -> RefSnapshot]]
      /\ Closed(rEvents)
  BY ExchangeAssumption DEF ExchangeInv, Files, Peers, Stores
<1>2. /\ Recipient!ImportableEvents(b)
      /\ rEvents' = rEvents \cup new
      /\ rRemoteRef' = Recipient!ImportedRefs(Peer, b)
      /\ UNCHANGED storeVars
  BY DEF ImportFile, Recipient!ImportBundle
<1>3. Closed(rEvents)'
  <2>1. ASSUME NEW i \in DOMAIN b.events, NEW p \in Body[b.events[i]].parents
        PROVE  p \in rEvents \cup new
    BY <1>2, <2>1 DEF Recipient!ImportableEvents, Recipient!Acceptable,
                     Recipient!Earlier, Recipient!EventsOf
  <2> QED
    BY <1>1, <1>2, <2>1 DEF Closed, Recipient!EventsOf
<1>4. /\ rRemoteRef' \in [PeerName -> [ContextId -> RefSnapshot]]
      /\ Behind(rRemoteRef'[Peer][Ctx])
  <2> DEFINE refs == [n \in RefName |-> IF b.refs[n] = None THEN rRemoteRef[Peer][Ctx][n]
                                                            ELSE b.refs[n]]
  <2>1. rRemoteRef' = [rRemoteRef EXCEPT ![Peer][Ctx] = refs]
    BY <1>1, <1>2 DEF Recipient!ImportedRefs
  <2>2. refs \in RefSnapshot
    BY <1>1 DEF Behind, RefSnapshot
  <2>3. Behind(refs)
    BY <1>1, <2>2 DEF Behind
  <2> HIDE DEF refs
  <2>4. rRemoteRef'[Peer][Ctx] = refs
    BY <1>1, <2>1
  <2> QED
    BY <1>1, <2>1, <2>2, <2>3, <2>4
<1>5. Peers'
  BY <1>2, <1>4 DEF Peers, Behind, storeVars
<1> QED
  BY <1>3, <1>4, <1>5

\* An import at the recipient keeps the invariant.
LEMMA ImportInv ==
  ASSUME ExchangeInv, NEW f \in files, ImportFile(f)
  PROVE  ExchangeInv'
<1>1. /\ Closed(rEvents)'
      /\ rRemoteRef' \in [PeerName -> [ContextId -> RefSnapshot]]
      /\ Peers'
  BY ImportEffect
<1>2. UNCHANGED <<storeVars, job, made>>
  BY DEF ImportFile, Recipient!ImportBundle
<1>3. Stores'
  BY <1>1, <1>2 DEF ExchangeInv, Stores, Shared, storeVars
<1>4. Jobs' /\ Files'
  BY <1>2 DEF ExchangeInv, Jobs, Files, Behind, Shared, storeVars, made
<1>5. Receipts' /\ Summaries' /\ Offers'
  BY <1>2 DEF ExchangeInv, Receipts, Summaries, Offers, Shared, storeVars, made
<1> QED
  BY <1>1, <1>3, <1>4, <1>5 DEF ExchangeInv

----------------------------------------------------------------------------
(* Making artefacts.  These steps leave both stores alone. *)

Still == UNCHANGED <<storeVars, recipientVars>>

\* A step that leaves both stores alone keeps what is said of them.
LEMMA StillStores ==
  ASSUME ExchangeInv, Still
  PROVE  /\ Stores' /\ Peers' /\ Shared' = Shared
         /\ localRef' = localRef
BY DEF ExchangeInv, Still, Stores, Peers, Behind, Shared, Closed, storeVars, recipientVars

\* A process that starts or ends has the shape of a job.
LEMMA NoJobShape == NoJob = [f \in Fields |-> NoJob[f]] /\ NoJob.at = "idle"
BY DEF NoJob, Fields

\* A process that has ended holds nothing.
LEMMA IdleInv ==
  ASSUME ExchangeInv, Still, job' = NoJob
  PROVE  Jobs'
BY NoJobShape DEF Jobs

\* Branches read for a file are what the branches have.
LEMMA ReadBranchesInv ==
  ASSUME ExchangeInv, NEW asked \in Asked, NEW known \in KnownToUser,
         ReadBranches(asked, known)
  PROVE  ExchangeInv'
<1>1. Still /\ UNCHANGED made
  BY DEF ReadBranches, Still
<1>2. /\ job' = [f \in Fields |-> job'[f]] /\ job'.at = "export"
      /\ job'.refs = localRef[Ctx]
  BY DEF ReadBranches, Begin, NoJob, Fields
<1>3. Behind(localRef[Ctx])
  <2>1. Ctx \in ContextId /\ localRef \in [ContextId -> RefSnapshot]
    BY ExchangeAssumption DEF ExchangeInv, Stores
  <2>2. localRef[Ctx] \in RefSnapshot
    BY <2>1
  <2>3. ASSUME NEW n \in RefName, localRef[Ctx][n] # None
        PROVE  localRef[Ctx][n] \in Ancestors[localRef[Ctx][n]]
    <3>1. localRef[Ctx][n] \in Shared /\ events \subseteq EventId
      BY <2>3 DEF ExchangeInv, Stores
    <3> QED
      BY <3>1, AncestorsReflexive DEF Shared
  <2> QED
    BY <2>2, <2>3 DEF Behind
<1>4. Jobs'
  BY <1>1, <1>2, <1>3, StillStores DEF Jobs, Behind
<1> QED
  BY <1>1, <1>4, StillStores DEF ExchangeInv, Files, Receipts, Summaries, Offers, Behind, made

\* By the time the file is written they may have moved on, but only forward.
LEMMA WriteBundleInv ==
  ASSUME ExchangeInv, WriteBundle
  PROVE  ExchangeInv'
<1>1. /\ Still /\ UNCHANGED <<receipts, summaries, handoffs>> /\ job' = NoJob
      /\ files' = files \cup {[bundle |-> Bundle, asked |-> job.asked, known |-> job.known]}
  BY DEF WriteBundle, Still
<1>2. Bundle.context = Ctx /\ Behind(Bundle.refs)
  BY DEF WriteBundle, Bundle, ExchangeInv, Jobs
<1>3. Files'
  BY <1>1, <1>2, StillStores DEF ExchangeInv, Files, Behind
<1> QED
  BY <1>1, <1>3, IdleInv, StillStores DEF ExchangeInv, Receipts, Summaries, Offers

\* A receipt issued speaks of stored events.
LEMMA IssueReceiptInv ==
  ASSUME ExchangeInv, NEW r, IssueReceipt(r)
  PROVE  ExchangeInv'
<1>1. /\ Still /\ UNCHANGED <<job, files, summaries, handoffs>>
      /\ receipts' = receipts \cup {r} /\ ReceiptVerifies(r, events)
  BY DEF IssueReceipt, Still
<1>2. r.events \cup {r.head} \subseteq Shared
  BY <1>1 DEF ReceiptVerifies, Present, Shared
<1>3. Receipts'
  BY <1>1, <1>2, StillStores DEF ExchangeInv, Receipts
<1> QED
  BY <1>1, <1>3, StillStores DEF ExchangeInv, Jobs, Files, Summaries, Offers, Behind

\* A summary finished covers what was walked.
LEMMA FinishInv ==
  ASSUME ExchangeInv, NEW level, NEW heads \in SUBSET Shared, NEW covered,
         covered = IF level = "event" THEN heads ELSE Before(heads),
         Finish(level, heads, covered)
  PROVE  ExchangeInv'
<1>1. /\ Still /\ UNCHANGED <<files, receipts, handoffs>> /\ job' = NoJob
      /\ summaries' = summaries \cup {[level |-> level, heads |-> heads, covered |-> covered]}
  BY DEF Finish, Still
<1>2. Summaries'
  BY <1>1, StillStores DEF ExchangeInv, Summaries
<1> QED
  BY <1>1, <1>2, IdleInv, StillStores DEF ExchangeInv, Files, Receipts, Offers, Behind

\* The heads listed for a summary are stored.
LEMMA ReadHeadsInv ==
  ASSUME ExchangeInv, NEW names \in SUBSET RefName, ReadHeads(names)
  PROVE  ExchangeInv'
<1> DEFINE heads == {localRef[Ctx][n] : n \in names} \ {None}
<1>1. Still /\ UNCHANGED made
  BY DEF ReadHeads, Still
<1>2. /\ job' = [f \in Fields |-> job'[f]] /\ job'.at = "walk"
      /\ job'.heads = heads /\ job'.todo = heads /\ job'.covered = {}
  BY DEF ReadHeads, Begin, NoJob, Fields
<1>3. heads \subseteq Shared
  BY DEF ExchangeInv, Stores
<1>4. Before(heads \ heads) = {}
  BY DEF Before
<1> HIDE DEF heads
<1>5. Jobs'
  BY <1>1, <1>2, <1>3, <1>4, StillStores DEF Jobs
<1> QED
  BY <1>1, <1>5, StillStores DEF ExchangeInv, Files, Receipts, Summaries, Offers, Behind, made

\* A walk adds exactly the history of its head.
LEMMA WalkInv ==
  ASSUME ExchangeInv, NEW h \in EventId, Walk(h)
  PROVE  ExchangeInv'
<1>1. Still /\ UNCHANGED made
  BY DEF Walk, Still
<1>2. /\ job = [f \in Fields |-> job[f]] /\ job.at = "walk" /\ h \in job.todo
      /\ job.heads \subseteq Shared /\ job.todo \subseteq job.heads
      /\ job.covered = Before(job.heads \ job.todo)
  BY DEF Walk, ExchangeInv, Jobs
<1>3. job' = [job EXCEPT !.todo = @ \ {h}, !.covered = @ \cup Ancestors[h]]
  BY KnownIsHistory DEF Walk
<1>4. /\ job' = [f \in Fields |-> job'[f]] /\ job'.at = "walk"
      /\ job'.heads = job.heads /\ job'.todo = job.todo \ {h}
      /\ job'.covered = job.covered \cup Ancestors[h]
  BY <1>2, <1>3 DEF Fields
<1>5. Before(job.heads \ (job.todo \ {h})) = Before(job.heads \ job.todo) \cup Ancestors[h]
  <2>1. job.heads \ (job.todo \ {h}) = (job.heads \ job.todo) \cup {h}
    BY <1>2
  <2> QED
    BY <2>1 DEF Before
<1>6. Jobs'
  BY <1>1, <1>2, <1>4, <1>5, StillStores DEF Jobs
<1> QED
  BY <1>1, <1>6, StillStores DEF ExchangeInv, Files, Receipts, Summaries, Offers, Behind, made

\* What is selected are events.
LEMMA SelectForInv ==
  ASSUME ExchangeInv, NEW task \in Tasks, NEW candidates \in CandidateSets,
         SelectFor(task, candidates)
  PROVE  ExchangeInv'
<1> DEFINE selected == Offer!SelectSources(task, candidates).references
<1>1. Still /\ UNCHANGED made
  BY DEF SelectFor, Still
<1>2. /\ job' = [f \in Fields |-> job'[f]] /\ job'.at = "close"
      /\ job'.heads = selected /\ job'.asked = candidates
  BY DEF SelectFor, Begin, NoJob, Fields
<1>3. selected \subseteq candidates
  BY DEF Offer!SelectSources, Offer!Selects, Offer!Refuses
<1>4. candidates \in SUBSET EventId
  BY ExchangeAssumption
<1> HIDE DEF selected
<1>5. Jobs'
  BY <1>2, <1>3, <1>4 DEF Jobs
<1> QED
  BY <1>1, <1>5, StillStores DEF ExchangeInv, Files, Receipts, Summaries, Offers, Behind, made

\* Closing a selection adds its history and the critical candidates.
LEMMA CloseOverInv ==
  ASSUME ExchangeInv, CloseOver
  PROVE  ExchangeInv'
<1>1. Still /\ UNCHANGED made
  BY DEF CloseOver, Still
<1>2. /\ job = [f \in Fields |-> job[f]] /\ job.at = "close"
      /\ job.heads \in SUBSET EventId /\ job.asked \in SUBSET EventId
  BY DEF CloseOver, ExchangeInv, Jobs
<1>3. job' = [job EXCEPT !.at = "offer",
                         !.covered = Before(job.heads) \cup (job.asked \cap Critical)]
  BY <1>2, ClosureIsHistory DEF CloseOver, Offer!CloseSelection
<1>4. /\ job' = [f \in Fields |-> job'[f]] /\ job'.at = "offer"
      /\ job'.heads = job.heads /\ job'.asked = job.asked
      /\ job'.covered = Before(job.heads) \cup (job.asked \cap Critical)
  BY <1>2, <1>3 DEF Fields
<1>5. Jobs'
  BY <1>2, <1>4 DEF Jobs
<1> QED
  BY <1>1, <1>5, StillStores DEF ExchangeInv, Files, Receipts, Summaries, Offers, Behind, made

\* A handoff offers what of these its head does not have.
LEMMA HandOffInv ==
  ASSUME ExchangeInv, NEW head \in EventId \cup {None}, HandOff(head)
  PROVE  ExchangeInv'
<1> DEFINE recipient == Offer!RecipientAt(head)
           h == Offer!ShapeHandoff(Offer!FromDelta(job.covered, recipient))
           o == [selected |-> job.heads, candidates |-> job.asked, handoff |-> h]
<1>1. /\ Still /\ UNCHANGED <<files, receipts, summaries>> /\ job' = NoJob
      /\ handoffs' = handoffs \cup {o}
  BY DEF HandOff, Still
<1>2. /\ job.heads \in SUBSET EventId
      /\ job.covered = Before(job.heads) \cup (job.asked \cap Critical)
  BY DEF HandOff, ExchangeInv, Jobs
<1>3. recipient.head = head /\ recipient.closure = IF head = None THEN {} ELSE Ancestors[head]
  <2>1. CASE head = None
    BY <2>1 DEF Offer!RecipientAt, Offer!ColdStart
  <2>2. CASE head # None
    BY <2>2, KnownIsHistory DEF Offer!RecipientAt
  <2> QED
    BY <2>1, <2>2
<1>4. /\ h.head = recipient.head /\ h.known = recipient.closure
      /\ h.events = job.covered \ recipient.closure
  BY DEF Offer!ShapeHandoff, Offer!FromDelta, Offer!ComputeDelta
<1>5. o.selected = job.heads /\ o.candidates = job.asked /\ o.handoff = h
  OBVIOUS
<1> HIDE DEF recipient, h, o
<1>6. Offers'
  BY <1>1, <1>2, <1>3, <1>4, <1>5 DEF ExchangeInv, Offers
<1> QED
  BY <1>1, <1>6, IdleInv, StillStores DEF ExchangeInv, Files, Receipts, Summaries, Behind

\* A process that ends early leaves nothing.
LEMMA GiveUpInv ==
  ASSUME ExchangeInv, GiveUp
  PROVE  ExchangeInv'
<1>1. Still /\ UNCHANGED made /\ job' = NoJob
  BY DEF GiveUp, Still
<1> QED
  BY <1>1, IdleInv, StillStores
     DEF ExchangeInv, Files, Receipts, Summaries, Offers, Behind, made

----------------------------------------------------------------------------
\* The inductive invariant holds at first.
LEMMA InitExchangeInv == ExchangeInit => ExchangeInv
<1> SUFFICES ASSUME ExchangeInit PROVE ExchangeInv
  OBVIOUS
<1> USE DEF ExchangeInit
<1>0. /\ Ctx \in ContextId /\ Peer \in PeerName /\ Genesis \in EventId
      /\ Body[Genesis].context = Ctx /\ Body[Genesis].kind = "context.genesis"
      /\ \A e \in EventId : Body[e].kind = "context.genesis" => Body[e].parents = {}
  BY ExchangeAssumption
<1>1. Closed(Shared) /\ events \subseteq EventId /\ Genesis \in Shared
  <2>1. /\ events \subseteq EventId /\ expected[Ctx] = Genesis
        /\ \A e \in events : Body[e].kind = "context.genesis"
    OBVIOUS
  <2> QED
    BY <1>0, <2>1 DEF Shared, Closed
<1>2. PICK n \in RefName :
        localRef = [c \in ContextId |-> IF c = Ctx THEN [NoRefs EXCEPT ![n] = Genesis] ELSE NoRefs]
  OBVIOUS
<1>3. [NoRefs EXCEPT ![n] = Genesis] \in RefSnapshot
  BY <1>0, NoRefsTyped DEF RefSnapshot, Optional
<1>4. /\ localRef \in [ContextId -> RefSnapshot]
      /\ localRef[Ctx] = [NoRefs EXCEPT ![n] = Genesis]
  BY <1>0, <1>2, <1>3, NoRefsTyped
<1>5. \A m \in RefName : localRef[Ctx][m] # None => localRef[Ctx][m] = Genesis
  BY <1>4 DEF NoRefs
<1>6. rRemoteRef = [p \in PeerName |-> [c \in ContextId |-> NoRefs]]
  OBVIOUS
<1>7. Stores
  BY <1>1, <1>4, <1>5, <1>6, NoRefsTyped DEF Stores, Closed
<1>8. Peers
  BY <1>0, <1>6, NoRefsTyped DEF Peers, Behind, NoRefs
<1>9. Jobs
  BY NoJobShape DEF Jobs
<1> QED
  BY <1>7, <1>8, <1>9 DEF ExchangeInv, Files, Receipts, Summaries, Offers

\* Every step keeps the inductive invariant.
LEMMA NextExchangeInv == ExchangeInv /\ [ExchangeNext]_vars => ExchangeInv'
<1> SUFFICES ASSUME ExchangeInv, [ExchangeNext]_vars PROVE ExchangeInv'
  OBVIOUS
<1>1. CASE SenderWorks
  BY <1>1, SenderInv
<1>2. ASSUME NEW asked \in Asked, NEW known \in KnownToUser, ReadBranches(asked, known)
      PROVE  ExchangeInv'
  BY <1>2, ReadBranchesInv
<1>3. CASE WriteBundle
  BY <1>3, WriteBundleInv
<1>4. ASSUME NEW f \in files, ImportFile(f) PROVE ExchangeInv'
  BY <1>4, ImportInv
<1>5. ASSUME NEW es \in Referenced, NEW h \in EventId,
             IssueReceipt([events |-> es, head |-> h])
      PROVE  ExchangeInv'
  BY <1>5, IssueReceiptInv
<1>6. ASSUME NEW e \in EventId, SummarizeEvent(e) PROVE ExchangeInv'
  <2>1. Finish("event", {e}, {e}) /\ {e} \in SUBSET Shared
    BY <1>6 DEF SummarizeEvent, StoredIn, Shared
  <2> QED
    BY <2>1, FinishInv
<1>7. ASSUME NEW names \in SUBSET RefName, ReadHeads(names) PROVE ExchangeInv'
  BY <1>7, ReadHeadsInv
<1>8. ASSUME NEW h \in EventId, Walk(h) PROVE ExchangeInv'
  BY <1>8, WalkInv
<1>9. CASE FinishWalks
  <2>1. /\ Finish("walks", job.heads, job.covered) /\ job.heads \in SUBSET Shared
        /\ job.covered = Before(job.heads)
    BY <1>9 DEF FinishWalks, ExchangeInv, Jobs
  <2> QED
    BY <2>1, FinishInv
<1>10. ASSUME NEW task \in Tasks, NEW candidates \in CandidateSets,
              SelectFor(task, candidates)
       PROVE  ExchangeInv'
  BY <1>10, SelectForInv
<1>11. CASE CloseOver
  BY <1>11, CloseOverInv
<1>12. ASSUME NEW head \in EventId \cup {None}, HandOff(head) PROVE ExchangeInv'
  BY <1>12, HandOffInv
<1>13. CASE GiveUp
  BY <1>13, GiveUpInv
<1>14. CASE UNCHANGED vars
  BY <1>14 DEF vars, storeVars, recipientVars, made, ExchangeInv, Stores, Jobs, Files,
               Peers, Receipts, Summaries, Offers, Behind, Shared, Closed
<1>15. \A names \in {{n} : n \in RefName} \cup {RefName} : names \in SUBSET RefName
  OBVIOUS
<1> QED
  BY <1>1, <1>2, <1>3, <1>4, <1>5, <1>6, <1>7, <1>8, <1>9, <1>10, <1>11, <1>12,
     <1>13, <1>14, <1>15
     DEF ExchangeNext

\* The invariant holds throughout.
THEOREM ExchangeSafe == ExchangeSpec => []ExchangeInv
<1> QED
  BY InitExchangeInv, NextExchangeInv, PTL DEF ExchangeSpec

(* Whatever files are imported, in whatever order and however often, the    *)
(* peer's refs name something its branches had (import_bundle, bundle.rs).  *)
THEOREM FilesNeverAhead == ExchangeSpec => []NeverAhead
<1>1. ExchangeInv => NeverAhead
  BY DEF ExchangeInv, Peers, Behind, NeverAhead
<1> QED
  BY <1>1, ExchangeSafe, PTL

(* A receipt verifies for good where it was issued, and where it verifies,  *)
(* everything it speaks of stands on complete histories (receipt.rs).       *)
THEOREM ReceiptsKeep == ExchangeSpec => []ReceiptsHold
<1>1. ASSUME ExchangeInv PROVE ReceiptsHold
  <2>1. SUFFICES ASSUME NEW r \in receipts
                 PROVE  /\ ReceiptVerifies(r, events)
                        /\ \A stored \in {events, rEvents} : ReceiptVerifies(r, stored)
                             => Before(r.events \cup {r.head}) \subseteq stored
    BY DEF ReceiptsHold
  <2> DEFINE named == r.events \cup {r.head}
  <2>2. /\ named \subseteq Shared /\ Shared \subseteq events /\ named \in SUBSET EventId
        /\ Closed(Shared) /\ Closed(rEvents)
    BY <1>1 DEF ExchangeInv, Receipts, Stores, Shared
  <2>3. ReceiptVerifies(r, events)
    BY <2>2 DEF ReceiptVerifies, Present, Shared
  <2>4. Before(named) \subseteq events
    BY <2>2, HistoryWithin
  <2>5. ASSUME ReceiptVerifies(r, rEvents) PROVE Before(named) \subseteq rEvents
    <3>1. named \subseteq rEvents
      BY <2>5 DEF ReceiptVerifies, Present
    <3> QED
      BY <2>2, <3>1, HistoryWithin
  <2> QED
    BY <2>3, <2>4, <2>5
<1> QED
  BY <1>1, ExchangeSafe, PTL

(* A summary covers exactly what its heads stood on when they were listed,  *)
(* however the branches moved while it was made, and verifies for good      *)
(* (Summary::project, Summary::verify_against_dag, summary.rs).             *)
THEOREM SummariesExact == ExchangeSpec => []SummaryExact
<1>1. ASSUME ExchangeInv PROVE SummaryExact
  <2>1. SUFFICES ASSUME NEW s \in summaries
                 PROVE  /\ s.covered = IF s.level = "event" THEN s.heads ELSE Before(s.heads)
                        /\ SummaryVerifies(s, events)
                        /\ SummaryVerifies(s, rEvents) => Before(s.heads) \subseteq rEvents
    BY DEF SummaryExact
  <2>2. /\ s.heads \subseteq Shared /\ Shared \subseteq events /\ s.heads \in SUBSET EventId
        /\ s.covered = IF s.level = "event" THEN s.heads ELSE Before(s.heads)
        /\ Closed(Shared) /\ Closed(rEvents)
    BY <1>1 DEF ExchangeInv, Summaries, Stores, Shared
  <2>3. s.covered \subseteq Shared /\ s.heads \subseteq s.covered
    BY <2>2, HistoryWithin, HeadsInHistory
  <2>4. SummaryVerifies(s, events)
    BY <2>3 DEF SummaryVerifies, Present, Shared
  <2>5. ASSUME SummaryVerifies(s, rEvents) PROVE Before(s.heads) \subseteq rEvents
    <3>1. s.heads \subseteq rEvents
      BY <2>3, <2>5 DEF SummaryVerifies, Present
    <3> QED
      BY <2>2, <3>1, HistoryWithin
  <2> QED
    BY <2>2, <2>4, <2>5
<1> QED
  BY <1>1, ExchangeSafe, PTL

(* A handoff is usable wherever its head is held, whenever it arrives: only *)
(* what a critical candidate outside the selected history stands on may be  *)
(* missing (close_selection, closure.rs; compute_delta, delta.rs).          *)
THEOREM OffersUsable == ExchangeSpec => []OfferUsable
<1>1. ASSUME ExchangeInv PROVE OfferUsable
  <2>1. SUFFICES ASSUME NEW o \in handoffs, o.handoff.head \in rEvents \cup {None}
                 PROVE  LET h == o.handoff  selected == Before(o.selected) IN
                        /\ h.known \subseteq rEvents
                        /\ selected \cup (o.candidates \cap Critical) \subseteq h.known \cup h.events
                        /\ \A e \in h.events : e \in selected \/ e \notin Critical =>
                             Body[e].parents \subseteq rEvents \cup h.events
    BY DEF OfferUsable
  <2> DEFINE h == o.handoff
             selected == Before(o.selected)
  <2>2. /\ o.selected \in SUBSET EventId /\ h.head \in EventId \cup {None}
        /\ h.known = IF h.head = None THEN {} ELSE Ancestors[h.head]
        /\ h.events = (selected \cup (o.candidates \cap Critical)) \ h.known
        /\ Closed(rEvents)
    BY <1>1 DEF ExchangeInv, Offers, Stores
  <2>3. h.known \subseteq rEvents
    <3>1. CASE h.head = None
      BY <2>2, <3>1
    <3>2. CASE h.head # None
      <4>1. {h.head} \in SUBSET EventId /\ {h.head} \subseteq rEvents
        BY <2>1, <2>2, <3>2
      <4>2. Before({h.head}) \subseteq rEvents
        BY <2>2, <4>1, HistoryWithin
      <4> QED
        BY <2>2, <3>2, <4>2 DEF Before
    <3> QED
      BY <3>1, <3>2
  <2>4. Closed(selected)
    BY <2>2, AncestorsClosed DEF Before, Closed
  <2> HIDE DEF h, selected
  <2>5. ASSUME NEW e \in h.events, e \in selected \/ e \notin Critical
        PROVE  Body[e].parents \subseteq rEvents \cup h.events
    <3>1. e \in selected
      BY <2>2, <2>5
    <3>2. Body[e].parents \subseteq selected
      BY <2>4, <3>1 DEF Closed
    <3> QED
      BY <2>2, <2>3, <3>2
  <2>6. selected \cup (o.candidates \cap Critical) \subseteq h.known \cup h.events
    BY <2>2
  <2> QED
    BY <2>3, <2>5, <2>6 DEF h, selected
<1> QED
  BY <1>1, ExchangeSafe, PTL

----------------------------------------------------------------------------
(* Bundle files: that one can be imported needs more than where its refs    *)
(* point.  It lists what its maker asked for and did not say was known,     *)
(* each event after its parents, and both stores know only one root.        *)

\* The context's only root is the genesis everyone pinned.
OneGenesis(S) ==
  \A e \in S : Body[e].parents = {} \/ Body[e].kind = "context.genesis" => e = Genesis

\* The recipient holds events of this context only, admits any author's, and
\* has it active exactly when it holds anything.
RecipientSound ==
  /\ rEvents \subseteq {e \in EventId : Body[e].context = Ctx}
  /\ rExpected[Ctx] = Genesis /\ rAuthors[Ctx] = AuthorId
  /\ Ctx \in rActive <=> rEvents # {}

\* A file holds what its maker asked for and did not say was known, and all
\* of that was stored when it was written.
Plans ==
  /\ job.at = "export" => job.asked \in SUBSET EventId /\ job.known \in SUBSET EventId
  /\ \A f \in files : /\ f.asked \subseteq Shared /\ f.known \subseteq Shared
                      /\ f.bundle.events = Difference(f.asked, f.known)

FilesInv == OneGenesis(Shared) /\ OneGenesis(rEvents) /\ RecipientSound /\ Plans

\* What a file lists is what the known heads lack of the asked ones.
LEMMA DifferenceIsRest ==
  ASSUME NEW R \in SUBSET EventId, NEW K \in SUBSET EventId
  PROVE  /\ Difference(R, K) \in Seq(EventId)
         /\ IsRest(Difference(R, K), Before(R), Before(K), Parents)
<1> DEFINE s == Projected[R]
           plan == Difference(R, K)
<1>1. /\ s \in Seq(EventId) /\ ListedIn(s) = Before(R)
      /\ \A i, j \in DOMAIN s : s[i] = s[j] => i = j
      /\ \A i \in DOMAIN s : \A q \in Body[s[i]].parents : \E j \in 1..(i - 1) : s[j] = q
  <2>1. s \in Seq(EventId) /\ ListsOnce(s, Before(R), Parents)
    BY ProjectedAssumption DEF Before
  <2> HIDE DEF s
  <2>2. \A i \in DOMAIN s : Parents[s[i]] = Body[s[i]].parents
    BY <2>1 DEF Parents
  <2>3. /\ ListedIn(s) = Before(R)
        /\ \A i, j \in DOMAIN s : s[i] = s[j] => i = j
        /\ \A i \in DOMAIN s : \A q \in Parents[s[i]] : \E j \in 1..(i - 1) : s[j] = q
    BY <2>1 DEF ListsOnce
  <2>4. ASSUME NEW i \in DOMAIN s, NEW q \in Body[s[i]].parents
        PROVE  \E j \in 1..(i - 1) : s[j] = q
    BY <2>2, <2>3
  <2> QED
    BY <2>1, <2>3, <2>4
<1>2. \A e \in EventId : Parents[e] = Body[e].parents /\ Parents[e] \subseteq EventId
  BY ParentsAreEvents DEF Parents
<1>3. plan = Kept(s, EventId \ Before(K))
  BY ProjectedAssumption DEF Before, Difference, ListsOnce
<1> HIDE DEF plan, s
<1>4. DOMAIN s = 1..Len(s) /\ \A i \in 1..Len(s) : s[i] \in EventId
  BY <1>1
<1>5. /\ \A i, j \in 1..Len(s) : s[i] = s[j] => i = j
      /\ \A i \in 1..Len(s) : \A q \in Parents[s[i]] : \E j \in 1..(i - 1) : s[j] = q
      /\ \A e \in EventId : Parents[e] \subseteq EventId
  BY <1>1, <1>2, <1>4
<1>6. /\ Kept(s, EventId \ Before(K)) \in Seq(EventId)
      /\ IsRest(Kept(s, EventId \ Before(K)), ListedIn(s), Before(K), Parents)
  BY <1>1, <1>5, KeptRest
<1>7. plan \in Seq(EventId) /\ IsRest(plan, Before(R), Before(K), Parents)
  BY <1>1, <1>3, <1>6
<1> QED
  BY <1>7 DEF plan

\* The sender's own work adds no second root.
LEMMA SenderKeepsRoot ==
  ASSUME Stores, FilesInv, SenderWorks
  PROVE  FilesInv'
<1>1. Shared \subseteq Shared' /\ UNCHANGED <<recipientVars, job, files>>
  BY SenderEffect DEF SenderWorks, made
<1>2. OneGenesis(Shared')
  <2>1. ASSUME NEW e \in EventId, NEW n \in RefName, AppendEvent(e, n)
        PROVE  OneGenesis(Shared')
    <3>1. events' = events \cup {e} /\ Body[e].parents # {}
      BY <2>1, AppendEffect
    <3>2. Body[e].kind # "context.genesis"
      BY <2>1, <3>1 DEF AppendEvent, ExtendBranch, AdmitAndMove, Admissible, Acceptable, IsGenesis
    <3> QED
      BY <3>1, <3>2 DEF FilesInv, OneGenesis, Shared
  <2>2. ASSUME NEW e \in EventId, NEW n \in RefName, CreateBranch(Ctx, n, e)
        PROVE  OneGenesis(Shared')
    BY <2>2 DEF CreateBranch, FilesInv, OneGenesis, Shared
  <2> QED
    BY <2>1, <2>2 DEF SenderWorks
<1>3. OneGenesis(rEvents)' /\ RecipientSound'
  BY <1>1 DEF FilesInv, OneGenesis, RecipientSound, recipientVars
<1>4. Plans'
  BY <1>1 DEF FilesInv, Plans
<1> QED
  BY <1>2, <1>3, <1>4 DEF FilesInv, OneGenesis

\* An import brings events of the context, and the genesis as the only root.
LEMMA ImportKeepsRoot ==
  ASSUME ExchangeInv, FilesInv, NEW f \in files, ImportFile(f)
  PROVE  FilesInv'
<1> DEFINE b == f.bundle
           new == Recipient!EventsOf(b)
<1>1. /\ b.context = Ctx /\ b.events = Difference(f.asked, f.known)
      /\ f.asked \in SUBSET EventId /\ f.known \in SUBSET EventId
  BY DEF ExchangeInv, Stores, Files, FilesInv, Plans, Shared
<1>2. b.events \in Seq(EventId)
  BY <1>1, DifferenceIsRest
<1>3. /\ Recipient!WellFormedBundle(b) /\ Recipient!ImportableEvents(b)
      /\ rEvents' = rEvents \cup new
      /\ rActive' = IF new = {} THEN rActive ELSE rActive \cup {b.context}
      /\ UNCHANGED <<rExpected, rAuthors, storeVars, job, made>>
  BY DEF ImportFile, Recipient!ImportBundle
<1>4. ASSUME NEW e \in new
      PROVE  /\ e \in EventId /\ Body[e].context = Ctx
             /\ Body[e].parents = {} \/ Body[e].kind = "context.genesis" => e = Genesis
  <2>1. PICK i \in DOMAIN b.events : e = b.events[i]
    BY DEF Recipient!EventsOf
  <2>2. e \in EventId
    BY <1>2, <2>1
  <2>3. Body[e].context = Ctx
    BY <1>1, <1>3, <2>1 DEF Recipient!WellFormedBundle
  <2>4. rExpected[Ctx] = Genesis
    BY DEF FilesInv, RecipientSound
  <2>5. \/ e = Genesis
        \/ Body[e].parents # {} /\ Body[e].kind # "context.genesis"
    BY <1>1, <1>3, <2>1, <2>4
       DEF Recipient!ImportableEvents, Recipient!Acceptable, Recipient!IsGenesis
  <2> QED
    BY <2>2, <2>3, <2>5
<1>5. Shared' = Shared /\ job' = job /\ files' = files
  BY <1>3 DEF Shared, storeVars, made
<1> HIDE DEF new, b
<1>6. OneGenesis(rEvents')
  BY <1>3, <1>4 DEF FilesInv, OneGenesis
<1>7. RecipientSound'
  <2>1. rEvents' \subseteq {e \in EventId : Body[e].context = Ctx}
    BY <1>3, <1>4 DEF FilesInv, RecipientSound
  <2>2. Ctx \in rActive' <=> rEvents' # {}
    BY <1>1, <1>3 DEF FilesInv, RecipientSound
  <2> QED
    BY <1>3, <2>1, <2>2 DEF FilesInv, RecipientSound
<1>8. Plans'
  BY <1>5 DEF FilesInv, Plans
<1>9. OneGenesis(Shared')
  BY <1>5 DEF FilesInv
<1> QED
  BY <1>6, <1>7, <1>8, <1>9 DEF FilesInv, OneGenesis

\* A step that leaves both stores and the files alone, and starts no export.
LEMMA OtherStepsKeep ==
  ASSUME FilesInv, Still, files' = files, job' = job \/ job'.at # "export"
  PROVE  FilesInv'
<1>1. Shared' = Shared
  BY DEF Still, Shared, storeVars
<1>2. Plans'
  BY <1>1 DEF FilesInv, Plans
<1>3. OneGenesis(rEvents)' /\ RecipientSound'
  BY DEF FilesInv, OneGenesis, RecipientSound, Still, recipientVars
<1> QED
  BY <1>1, <1>2, <1>3 DEF FilesInv, OneGenesis

\* What a file asks for and calls known is stored when it is written.
LEMMA WriteKeepsPlans ==
  ASSUME ExchangeInv, FilesInv, WriteBundle
  PROVE  FilesInv'
<1> DEFINE f == [bundle |-> Bundle, asked |-> job.asked, known |-> job.known]
<1>1. /\ Still /\ files' = files \cup {f} /\ job' = NoJob
      /\ job.asked \in SUBSET EventId /\ job.known \in SUBSET EventId
      /\ job.asked \subseteq Shared /\ job.known \subseteq Shared
  BY DEF WriteBundle, Still, FilesInv, Plans, Exportable, StoredIn, Shared
<1>2. /\ f.asked = job.asked /\ f.known = job.known
      /\ f.bundle.events = Difference(f.asked, f.known)
  BY DEF Bundle
<1> HIDE DEF f
<1>3. Shared' = Shared
  BY <1>1 DEF Still, Shared, storeVars
<1>4. Plans'
  BY <1>1, <1>2, <1>3, NoJobShape DEF FilesInv, Plans
<1>5. OneGenesis(rEvents)' /\ RecipientSound'
  BY <1>1 DEF FilesInv, OneGenesis, RecipientSound, Still, recipientVars
<1> QED
  BY <1>3, <1>4, <1>5 DEF FilesInv, OneGenesis

\* An export asks for events.
LEMMA ReadKeepsPlans ==
  ASSUME FilesInv, NEW asked \in Asked, NEW known \in KnownToUser,
         ReadBranches(asked, known)
  PROVE  FilesInv'
<1>1. /\ Still /\ files' = files /\ job'.asked = asked /\ job'.known = known
      /\ asked \in SUBSET EventId /\ known \in SUBSET EventId
  BY ExchangeAssumption DEF ReadBranches, Begin, NoJob, Still, made
<1>2. Shared' = Shared
  BY <1>1 DEF Still, Shared, storeVars
<1>3. Plans'
  BY <1>1, <1>2 DEF FilesInv, Plans
<1>4. OneGenesis(rEvents)' /\ RecipientSound'
  BY <1>1 DEF FilesInv, OneGenesis, RecipientSound, Still, recipientVars
<1> QED
  BY <1>2, <1>3, <1>4 DEF FilesInv, OneGenesis

\* It holds before anything was exchanged.
LEMMA InitFilesInv == ExchangeInit => FilesInv
<1> SUFFICES ASSUME ExchangeInit PROVE FilesInv
  OBVIOUS
<1>1. /\ Ctx \in ContextId /\ Genesis \in EventId
      /\ rEvents = {} /\ rActive = {} /\ rExpected[Ctx] = Genesis /\ rAuthors[Ctx] = AuthorId
      /\ files = {} /\ job.at = "idle"
  BY ExchangeAssumption, NoJobShape DEF ExchangeInit
<1>2. Shared = {Genesis}
  <2>1. /\ events = {expected[c] : c \in ContextId} /\ expected[Ctx] = Genesis
        /\ \A c \in ContextId : Body[expected[c]].context = c
    BY DEF ExchangeInit
  <2> QED
    BY <1>1, <2>1 DEF Shared
<1> QED
  BY <1>1, <1>2 DEF FilesInv, OneGenesis, RecipientSound, Plans

\* Every step keeps what files rest on.
LEMMA NextFilesInv == ExchangeInv /\ FilesInv /\ [ExchangeNext]_vars => FilesInv'
<1> SUFFICES ASSUME ExchangeInv, FilesInv, [ExchangeNext]_vars PROVE FilesInv'
  OBVIOUS
<1>1. CASE SenderWorks
  BY <1>1, SenderKeepsRoot DEF ExchangeInv
<1>2. ASSUME NEW asked \in Asked, NEW known \in KnownToUser, ReadBranches(asked, known)
      PROVE  FilesInv'
  BY <1>2, ReadKeepsPlans
<1>3. CASE WriteBundle
  BY <1>3, WriteKeepsPlans
<1>4. ASSUME NEW f \in files, ImportFile(f) PROVE FilesInv'
  BY <1>4, ImportKeepsRoot
<1>5. ASSUME NEW r, IssueReceipt(r) PROVE FilesInv'
  BY <1>5, OtherStepsKeep DEF IssueReceipt, Still
<1>6. ASSUME NEW level, NEW heads, NEW covered, Finish(level, heads, covered) PROVE FilesInv'
  BY <1>6, NoJobShape, OtherStepsKeep DEF Finish, Still
<1>7. ASSUME NEW names, ReadHeads(names) PROVE FilesInv'
  <2>1. Still /\ files' = files /\ job'.at = "walk"
    BY <1>7 DEF ReadHeads, Begin, NoJob, Still, made
  <2> QED
    BY <2>1, OtherStepsKeep
<1>8. ASSUME NEW h, Walk(h) PROVE FilesInv'
  <2>1. Still /\ files' = files /\ job = [f \in Fields |-> job[f]] /\ job.at = "walk"
    BY <1>8 DEF Walk, Still, made, ExchangeInv, Jobs
  <2>2. job'.at = "walk"
    BY <1>8, <2>1 DEF Walk, Fields
  <2> QED
    BY <2>1, <2>2, OtherStepsKeep
<1>9. ASSUME NEW task, NEW candidates, SelectFor(task, candidates) PROVE FilesInv'
  <2>1. Still /\ files' = files /\ job'.at = "close"
    BY <1>9 DEF SelectFor, Begin, NoJob, Still, made
  <2> QED
    BY <2>1, OtherStepsKeep
<1>10. CASE CloseOver
  <2>1. Still /\ files' = files /\ job = [f \in Fields |-> job[f]]
    BY <1>10 DEF CloseOver, Still, made, ExchangeInv, Jobs
  <2>2. job'.at = "offer"
    BY <1>10, <2>1 DEF CloseOver, Fields
  <2> QED
    BY <2>1, <2>2, OtherStepsKeep
<1>11. ASSUME NEW head, HandOff(head) PROVE FilesInv'
  BY <1>11, NoJobShape, OtherStepsKeep DEF HandOff, Still
<1>12. CASE GiveUp
  BY <1>12, NoJobShape, OtherStepsKeep DEF GiveUp, Still, made
<1>13. CASE UNCHANGED vars
  BY <1>13, OtherStepsKeep DEF vars, Still, made
<1> QED
  BY <1>1, <1>2, <1>3, <1>4, <1>5, <1>6, <1>7, <1>8, <1>9, <1>10, <1>11, <1>12, <1>13
     DEF ExchangeNext, SummarizeEvent, FinishWalks

\* The first event a store of a context ever takes is the genesis.
LEMMA FirstIsGenesis ==
  ASSUME NEW S \in SUBSET EventId, Closed(S), OneGenesis(S), S # {}
  PROVE  Genesis \in S
<1>1. PICK e \in S : Body[e].parents \cap S = {}
  BY HashingAssumption
<1>2. Body[e].parents = {}
  BY <1>1 DEF Closed
<1> QED
  BY <1>2 DEF OneGenesis

\* A file is importable where what its maker called known is held: each of
\* its events finds its parents, and the genesis comes first if it is new.
LEMMA FileFits ==
  ASSUME ExchangeInv, FilesInv, NEW f \in files, f.known \subseteq rEvents,
         SnapshotHeads(f.bundle.refs) \subseteq Before(f.asked) \cup rEvents
  PROVE  /\ Recipient!WellFormedBundle(f.bundle) /\ Recipient!ImportableEvents(f.bundle)
         /\ SnapshotHeads(f.bundle.refs) \subseteq rEvents \cup EventsOf(f.bundle)
<1> DEFINE b == f.bundle
           plan == b.events
<1>1. /\ b.context = Ctx /\ plan = Difference(f.asked, f.known)
      /\ f.asked \in SUBSET EventId /\ f.known \in SUBSET EventId
      /\ f.asked \subseteq Shared /\ Shared \in SUBSET EventId /\ Closed(Shared)
      /\ OneGenesis(Shared)
  BY DEF ExchangeInv, Stores, Files, FilesInv, Plans, Shared
<1>2. plan \in Seq(EventId) /\ IsRest(plan, Before(f.asked), Before(f.known), Parents)
  BY <1>1, DifferenceIsRest
<1>3. Before(f.asked) \subseteq Shared
  BY <1>1, HistoryWithin
<1>4. /\ rEvents \in SUBSET EventId /\ Closed(rEvents) /\ OneGenesis(rEvents)
      /\ rExpected[Ctx] = Genesis /\ rAuthors[Ctx] = AuthorId
      /\ Ctx \in rActive <=> rEvents # {}
      /\ Before(f.known) \subseteq rEvents
  BY HistoryWithin DEF ExchangeInv, Stores, FilesInv, RecipientSound
<1> HIDE DEF plan
<1>5. /\ DOMAIN plan = 1..Len(plan) /\ Len(plan) \in Nat
      /\ \A i \in 1..Len(plan) : plan[i] \in EventId /\ plan[i] \in Shared
      /\ \A i, j \in 1..Len(plan) : plan[i] = plan[j] => i = j
  BY <1>2, <1>3 DEF IsRest
<1>6. \A i \in 1..Len(plan) : \A p \in Body[plan[i]].parents :
        p \in rEvents \/ \E j \in 1..(i - 1) : plan[j] = p
  BY <1>2, <1>4, <1>5 DEF IsRest, Parents
<1>7. \A i \in 1..Len(plan) : Recipient!Earlier(plan, i) = {plan[j] : j \in 1..(i - 1)}
  BY <1>5 DEF Recipient!Earlier
<1>8. \A i \in 1..Len(plan) : \/ plan[i] = Genesis
                              \/ /\ Body[plan[i]].parents # {}
                                 /\ Body[plan[i]].kind # "context.genesis"
  BY <1>1, <1>5 DEF OneGenesis
<1>9. rEvents = {} /\ 1 \in 1..Len(plan) => plan[1] = Genesis
  <2>1. SUFFICES ASSUME rEvents = {}, 1 \in 1..Len(plan) PROVE Body[plan[1]].parents = {}
    BY <1>1, <1>5 DEF OneGenesis
  <2>2. \A p \in Body[plan[1]].parents : \E j \in 1..(1 - 1) : plan[j] = p
    BY <1>6, <2>1
  <2>3. 1..(1 - 1) = {}
    OBVIOUS
  <2> QED
    BY <2>2, <2>3
<1>10. rEvents # {} => Genesis \in rEvents
  BY <1>4, FirstIsGenesis
<1>11. Recipient!WellFormedBundle(b)
  <2>1. ASSUME NEW i \in 1..Len(plan)
        PROVE  /\ plan[i] \notin Recipient!Earlier(plan, i)
               /\ Body[plan[i]].context = b.context
    BY <1>1, <1>5, <1>7 DEF Shared
  <2>2. ASSUME NEW i \in 1..Len(plan), NEW j \in 1..Len(plan), plan[j] \in Body[plan[i]].parents
        PROVE  j < i
    <3>1. Parents[plan[i]] = Body[plan[i]].parents
      BY <1>5 DEF Parents
    <3>2. plan[j] \notin Before(f.known)
      BY <1>2 DEF IsRest
    <3>3. PICK k \in 1..(i - 1) : plan[k] = plan[j]
      BY <1>2, <2>2, <3>1, <3>2 DEF IsRest
    <3>4. k \in 1..Len(plan) /\ k < i
      BY <1>5
    <3> QED
      BY <1>5, <3>3, <3>4
  <2> QED
    BY <1>5, <2>1, <2>2 DEF Recipient!WellFormedBundle, plan
<1>12. Recipient!ImportableEvents(b)
  <2>1. ASSUME NEW i \in 1..Len(plan)
        PROVE  Recipient!Acceptable(plan[i], Ctx, rEvents \cup Recipient!Earlier(plan, i),
                                    Ctx \in rActive \/ i > 1)
    <3>1. Body[plan[i]].author \in rAuthors[Ctx]
      BY <1>4, <1>5, BodyAssumption DEF EventBody
    <3>2. \A p \in Body[plan[i]].parents :
            p \in rEvents \cup Recipient!Earlier(plan, i) /\ Body[p].context = Ctx
      <4>1. \A p \in Body[plan[i]].parents : p \in Shared
        BY <1>1, <1>5 DEF Closed
      <4> QED
        BY <1>6, <1>7, <4>1 DEF Shared
    <3>3. Recipient!IsGenesis(Genesis, Ctx)
      BY <1>4, ExchangeAssumption DEF Recipient!IsGenesis
    <3>4. plan[i] = Genesis \/ Ctx \in rActive \/ i > 1
      BY <1>4, <1>9
    <3>5. (Ctx \in rActive \/ i > 1) /\ plan[i] = Genesis
            => plan[i] \in rEvents \cup Recipient!Earlier(plan, i)
      <4>1. CASE Ctx \in rActive
        BY <1>4, <1>10, <4>1
      <4>2. CASE i > 1 /\ rEvents = {}
        <5>1. 1 \in 1..Len(plan) /\ 1 \in 1..(i - 1)
          BY <1>5, <4>2
        <5> QED
          BY <1>7, <1>9, <4>2, <5>1
      <4> QED
        BY <1>4, <4>1, <4>2
    <3>6. Recipient!IsGenesis(plan[i], Ctx) => plan[i] = Genesis
      BY <1>4 DEF Recipient!IsGenesis
    <3> QED
      BY <1>8, <3>1, <3>2, <3>3, <3>4, <3>5, <3>6 DEF Recipient!Acceptable
  <2>2. Genesis # None
    BY ExchangeAssumption, NoneAssumption
  <2>3. rEvents = {} => plan = << >> \/ plan[1] \notin rEvents
    OBVIOUS
  <2> QED
    BY <1>1, <1>4, <1>5, <2>1, <2>2, <2>3 DEF Recipient!ImportableEvents, plan
<1>13. Before(f.asked) \subseteq rEvents \cup EventsOf(b)
  <2>1. ASSUME NEW a \in Before(f.asked), a \notin rEvents
        PROVE  a \in EventsOf(b)
    <3>1. PICK i \in 1..Len(plan) : plan[i] = a
      BY <1>2, <1>4, <2>1 DEF IsRest
    <3> QED
      BY <1>5, <3>1 DEF EventsOf, plan
  <2> QED
    BY <2>1
<1> QED
  BY <1>11, <1>12, <1>13

(* A file can be imported whatever was imported before it and however often *)
(* and however the branches moved while it was made, wherever its maker's   *)
(* word about the known heads holds (export_bundle, import_bundle).         *)
THEOREM FilesImportable == ExchangeSpec => []FileImportable
<1>1. ExchangeInv /\ FilesInv => FileImportable
  BY FileFits DEF FileImportable
<1>2. ExchangeInv /\ FilesInv /\ [ExchangeNext]_vars => (ExchangeInv /\ FilesInv)'
  BY NextExchangeInv, NextFilesInv
<1> QED
  BY <1>1, <1>2, InitExchangeInv, InitFilesInv, PTL DEF ExchangeSpec
=============================================================================
