------------------------ MODULE BranchWritersProofs ------------------------
(***************************************************************************)
(* Proofs that racing, retrying writers lose no acknowledged event, for    *)
(* every number of writers, branches and identities and every event graph. *)
(*                                                                         *)
(* The argument: a submission moves a branch only from the parent that its *)
(* event was signed on (or finds it already at that event), so every head  *)
(* is an ancestor of the next one (RefsForward).  Acknowledged events are  *)
(* therefore carried along in the history of their branch, and since       *)
(* addresses are hashes, a head that has the history of an event signed on *)
(* it cannot be expected successfully again (OneWinner).                   *)
(***************************************************************************)
EXTENDS BranchWriters, ContextStoreProofs

WritersInv ==
  /\ StoreInv
  /\ WritersTypeOK
  /\ \A a \in acked : a.expected \in Body[a.event].parents
  /\ AckedStaysInHistory
  /\ AckedLinear
  /\ OneWinner
  /\ NoOrphans

----------------------------------------------------------------------------
\* The inductive invariant holds at first.
LEMMA InitWritersInv == WritersInit => WritersInv
<1> SUFFICES ASSUME WritersInit PROVE WritersInv
  OBVIOUS
<1> USE DEF WritersInit
<1>1. StoreInv
  BY InitStoreInv
<1>2. WritersTypeOK
  BY <1>1, WriterAssumption DEF WritersTypeOK, StoreInv, Optional
<1>3. acked = {} /\ events = {}
  BY DEF Init
<1> QED
  BY <1>1, <1>2, <1>3 DEF WritersInv, AckedStaysInHistory, AckedLinear,
                          OneWinner, NoOrphans

\* What a writer submits: a step of the store, its own event becoming the
\* head of its branch, from the parent it expected or from that event itself.
LEMMA SubmitEffect ==
  ASSUME WritersInv, NEW w \in Writer, pc[w] = "sent", Submit(w)
  PROVE  LET n == target[w]  e == signed[w] IN
         /\ e \in EventId /\ n \in RefName /\ seen[w] \in Body[e].parents
         /\ Body[e].context = Ctx
         /\ BranchHead(n) \in {e, seen[w]}
         /\ MoveRef(Ctx, n, e) /\ StoreEvent(e)
         /\ Next
<1>1. /\ signed[w] \in EventId /\ target[w] \in RefName
      /\ seen[w] \in Optional(EventId) /\ seen[w] \in Body[signed[w]].parents
  BY DEF WritersInv, WritersTypeOK
<1>2. Next
  BY <1>1, WriterAssumption DEF Next, Submit
<1> QED
  BY <1>1, <1>2 DEF Submit, AdmitAndMove, MutationMatches, RefCanMove, BranchHead

\* Every step of the writers and operators is a step of the store.
LEMMA StepsOfTheStore ==
  ASSUME WritersInv, [WritersNext]_vars
  PROVE  [Next]_storeVars
<1>1. CASE OperatorStep
  BY <1>1, WriterAssumption DEF OperatorStep, Next
<1>2. ASSUME NEW w \in Writer, pc[w] = "sent", Submit(w) PROVE Next
  BY <1>2, SubmitEffect
<1>3. ASSUME NEW w \in Writer, WriterStep(w)
      PROVE  (pc[w] = "sent" /\ Submit(w)) \/ UNCHANGED storeVars
  BY <1>3 DEF WriterStep, ReadHead, Sign, CommitAcknowledged,
              CommitIndeterminate, Refused, Retry, GiveUp
<1> QED
  BY <1>1, <1>2, <1>3 DEF WritersNext, vars

\* A submission moves a branch to a descendant of its head.
LEMMA SubmitForward ==
  ASSUME WritersInv, NEW w \in Writer, pc[w] = "sent", Submit(w)
  PROVE  RefsForward
<1>1. BranchHead(target[w]) \in Ancestors[signed[w]]
  BY SubmitEffect, AncestorsReflexive, AncestorsClosed DEF Closed
<1>2. StoreInv
  BY DEF WritersInv
<1> QED
  BY <1>1, <1>2, SubmitEffect, MoveForward, WriterAssumption DEF BranchHead

\* So does every step: branches only move forward.
LEMMA ForwardStep ==
  ASSUME WritersInv, [WritersNext]_vars
  PROVE  RefsForward
<1> USE DEF WritersInv
<1>1. CASE UNCHANGED localRef
  BY <1>1, AncestorsReflexive DEF RefsForward, StoreInv, TypeOK, RefSnapshot,
                                 Optional
<1>2. ASSUME NEW g \in EventId, NEW n \in RefName, CreateContext(g, n)
      PROVE  RefsForward
  <2>1. Body[g].context \in ContextId
    BY BodyAssumption DEF EventBody
  <2>2. localRef[Body[g].context][n] = None
    BY <1>2, <2>1, NoneAssumption
       DEF StoreInv, CreateContext, OneRoot, RefsResolve, StoredIn, TypeOK
  <2> QED
    BY <1>2, <2>1, <2>2, MoveForward DEF CreateContext, MoveRef
<1>3. ASSUME NEW n \in RefName, NEW e \in EventId, CreateBranch(Ctx, n, e)
      PROVE  RefsForward
  BY <1>3, MoveForward, WriterAssumption DEF CreateBranch
<1>4. ASSUME NEW w \in Writer, WriterStep(w)
      PROVE  (pc[w] = "sent" /\ Submit(w)) \/ UNCHANGED localRef
  BY <1>4 DEF WriterStep, ReadHead, Sign, CommitAcknowledged,
              CommitIndeterminate, Refused, Retry, GiveUp, storeVars
<1>5. CASE OperatorStep
  BY <1>1, <1>2, <1>3, <1>5 DEF OperatorStep, AuthorizeAuthor
<1> QED
  BY <1>1, <1>4, <1>5, SubmitForward DEF WritersNext, vars, storeVars

----------------------------------------------------------------------------
\* Every step keeps the types of the writers' own variables.
LEMMA TypeStep ==
  ASSUME WritersInv, [WritersNext]_vars, TypeOK'
  PROVE  WritersTypeOK'
<1> USE DEF WritersInv, WritersTypeOK
<1>1. CASE UNCHANGED writerVars
  BY <1>1 DEF writerVars
<1>2. ASSUME NEW w \in Writer, NEW n \in RefName, ReadHead(w, n)
      PROVE  WritersTypeOK'
  <2>1. BranchHead(n) \in EventId
    BY <1>2, WriterAssumption DEF ReadHead, BranchHead, TypeOK, RefSnapshot, Optional
  <2> QED
    BY <1>2, <2>1 DEF ReadHead, Optional
<1>3. ASSUME NEW w \in Writer, NEW e \in EventId, Sign(w, e)
      PROVE  WritersTypeOK'
  BY <1>3 DEF Sign, AppendBody, MergeBody, Optional
<1>4. ASSUME NEW w \in Writer, CommitAcknowledged(w) PROVE WritersTypeOK'
  BY <1>4 DEF CommitAcknowledged, Ack
<1>5. ASSUME NEW w \in Writer,
             CommitIndeterminate(w) \/ Refused(w) \/ Retry(w) \/ GiveUp(w)
      PROVE  WritersTypeOK'
  BY <1>5 DEF CommitIndeterminate, Refused, Retry, GiveUp
<1> QED
  BY <1>1, <1>2, <1>3, <1>4, <1>5
     DEF WritersNext, WriterStep, OperatorStep, vars

\* An acknowledged event is carried along by forward moves.
LEMMA CarriedAlong ==
  ASSUME WritersInv, RefsForward, NEW a \in acked
  PROVE  BranchHead(a.name)' \in EventId
         /\ a.event \in Ancestors[BranchHead(a.name)']
<1>1. a.name \in RefName /\ Ctx \in ContextId
  BY WriterAssumption DEF WritersInv, WritersTypeOK, Ack
<1>2. BranchHead(a.name) # None /\ a.event \in Ancestors[BranchHead(a.name)]
  BY DEF WritersInv, AckedStaysInHistory
<1> QED
  BY <1>1, <1>2, AncestorsTransitive DEF RefsForward, BranchHead

\* Every step keeps what is acknowledged in the history of its branch, in line, and
\* with one winner per head.
LEMMA AckStep ==
  ASSUME WritersInv, [WritersNext]_vars, RefsForward
  PROVE  /\ (\A a \in acked : a.expected \in Body[a.event].parents)'
         /\ AckedStaysInHistory' /\ AckedLinear' /\ OneWinner'
<1> USE DEF WritersInv
<1>1. CASE acked' = acked
  BY <1>1, CarriedAlong, NoneAssumption DEF AckedStaysInHistory, AckedLinear, OneWinner
<1>2. ASSUME NEW w \in Writer, CommitAcknowledged(w)
      PROVE  /\ (\A a \in acked : a.expected \in Body[a.event].parents)'
             /\ AckedStaysInHistory' /\ AckedLinear' /\ OneWinner'
  <2> DEFINE n == target[w]  e == signed[w]
             new == [name |-> n, expected |-> seen[w], event |-> e]
  <2>1. /\ e \in EventId /\ n \in RefName /\ seen[w] \in Body[e].parents
        /\ BranchHead(n) \in {e, seen[w]} /\ MoveRef(Ctx, n, e)
    BY <1>2, SubmitEffect DEF CommitAcknowledged
  <2>2. acked' = acked \cup {new}
    BY <1>2 DEF CommitAcknowledged
  <2>3. localRef'[Ctx][n] = e
    <3>1. localRef \in [ContextId -> RefSnapshot]
      BY DEF StoreInv, TypeOK
    <3> HIDE DEF n, e
    <3> QED
      BY <2>1, <3>1, WriterAssumption DEF MoveRef, RefSnapshot
  <2>4. new.name = n /\ new.expected = seen[w] /\ new.event = e
    OBVIOUS
  <2>5. \A a \in acked : a.name = n => a.event \in Ancestors[e]
    BY <2>3, CarriedAlong DEF BranchHead
  <2>6. \A a \in acked :
          /\ a.name = n /\ a.expected = seen[w]
          /\ Body[a.event].parents = {a.expected} /\ Body[e].parents = {seen[w]}
          => a.event = e
    <3> SUFFICES ASSUME NEW a \in acked, a.name = n, a.expected = seen[w],
                        Body[e].parents = {seen[w]}, a.event # e
                 PROVE  FALSE
      OBVIOUS
    <3>1. a.event \in EventId /\ seen[w] \in Body[a.event].parents
      BY DEF WritersTypeOK, Ack
    <3>2. a.event \in Ancestors[seen[w]]
      BY <2>1, <2>5, AncestorsUnfold
    <3> QED
      BY <3>1, <3>2, Acyclic
  <2> HIDE DEF n, e, new
  <2>7. (\A a \in acked : a.expected \in Body[a.event].parents)'
    BY <2>1, <2>2, <2>4
  <2>8. AckedStaysInHistory'
    <3> SUFFICES ASSUME NEW a \in acked'
                 PROVE  BranchHead(a.name)' # None
                        /\ a.event \in Ancestors[BranchHead(a.name)']
      BY DEF AckedStaysInHistory
    <3>1. CASE a \in acked
      BY <3>1, CarriedAlong, NoneAssumption
    <3>2. CASE a = new
      BY <2>1, <2>3, <2>4, <3>2, AncestorsReflexive, NoneAssumption DEF BranchHead
    <3> QED
      BY <2>2, <3>1, <3>2
  <2>9. AckedLinear'
    BY <2>1, <2>2, <2>4, <2>5, AncestorsReflexive DEF AckedLinear
  <2>10. OneWinner'
    BY <2>2, <2>4, <2>6 DEF OneWinner
  <2> QED
    BY <2>7, <2>8, <2>9, <2>10
<1>3. acked' = acked \/ \E w \in Writer : CommitAcknowledged(w)
  BY DEF WritersNext, WriterStep, OperatorStep, vars, writerVars, ReadHead,
         Sign, CommitIndeterminate, Refused, Retry, GiveUp
<1> QED
  BY <1>1, <1>2, <1>3

\* A stored event is either old, and carried along, or the new head of the
\* branch whose transaction stored it.
LEMMA OrphanStep ==
  ASSUME WritersInv, [WritersNext]_vars, RefsForward, StoreInv'
  PROVE  NoOrphans'
<1> USE DEF WritersInv
<1>1. \A e \in events' \ events : \E n \in RefName :
        localRef'[Body[e].context][n] = e
  <2>1. CASE events' = events
    BY <2>1
  <2>2. ASSUME NEW g \in EventId, NEW n \in RefName, CreateContext(g, n)
        PROVE  events' = events \cup {g} /\ localRef'[Body[g].context][n] = g
    BY <2>2, BodyAssumption
       DEF EventBody, CreateContext, StoreInv, TypeOK, RefSnapshot
  <2>3. ASSUME NEW w \in Writer, pc[w] = "sent", Submit(w)
        PROVE  /\ events' = events \cup {signed[w]} /\ target[w] \in RefName
               /\ localRef'[Body[signed[w]].context][target[w]] = signed[w]
    BY <2>3, SubmitEffect, WriterAssumption
       DEF StoreEvent, MoveRef, StoreInv, TypeOK, RefSnapshot
  <2>4. \/ events' = events
        \/ \E g \in EventId, n \in RefName : CreateContext(g, n)
        \/ \E w \in Writer : pc[w] = "sent" /\ Submit(w)
    BY DEF WritersNext, WriterStep, OperatorStep, vars, storeVars, ReadHead,
           Sign, CommitAcknowledged, CommitIndeterminate, Refused, Retry,
           GiveUp, CreateBranch, AuthorizeAuthor
  <2> QED
    BY <2>1, <2>2, <2>3, <2>4
<1> SUFFICES ASSUME NEW e \in events'
             PROVE  \E n \in RefName :
                      /\ localRef'[Body[e].context][n] # None
                      /\ e \in Ancestors[localRef'[Body[e].context][n]]
  BY DEF NoOrphans
<1>2. e \in EventId /\ Body[e].context \in ContextId
  BY BodyAssumption DEF EventBody, StoreInv, TypeOK
<1>3. CASE e \in events
  <2>1. PICK n \in RefName : /\ localRef[Body[e].context][n] # None
                             /\ e \in Ancestors[localRef[Body[e].context][n]]
    BY <1>3 DEF NoOrphans
  <2> QED
    BY <1>2, <2>1, AncestorsTransitive, NoneAssumption DEF RefsForward
<1>4. CASE e \notin events
  BY <1>1, <1>2, <1>4, AncestorsReflexive, NoneAssumption
<1> QED
  BY <1>3, <1>4

\* Every step keeps the inductive invariant.
LEMMA NextWritersInv == WritersInv /\ [WritersNext]_vars => WritersInv'
<1> SUFFICES ASSUME WritersInv, [WritersNext]_vars PROVE WritersInv'
  OBVIOUS
<1>1. StoreInv'
  BY StepsOfTheStore, NextStoreInv DEF WritersInv
<1>2. RefsForward
  BY ForwardStep
<1>3. WritersTypeOK'
  BY <1>1, TypeStep DEF StoreInv
<1> QED
  BY <1>1, <1>2, <1>3, AckStep, OrphanStep DEF WritersInv

----------------------------------------------------------------------------
\* The inductive invariant holds in every reachable state.
LEMMA WritersSafety == WritersSpec => []WritersInv
<1> QED
  BY InitWritersInv, NextWritersInv, PTL DEF WritersSpec

\* No lost update: an event whose commit was acknowledged on a branch stays
\* in the history of that branch (Store::append, Store::merge, store.rs:830).
THEOREM NoLostUpdate == WritersSpec => []AckedStaysInHistory
<1>1. WritersInv => AckedStaysInHistory
  BY DEF WritersInv
<1> QED
  BY WritersSafety, <1>1, PTL

\* The heads acknowledged on one branch are ordered by ancestry.
THEOREM LinearHistory == WritersSpec => []AckedLinear
<1>1. WritersInv => AckedLinear
  BY DEF WritersInv
<1> QED
  BY WritersSafety, <1>1, PTL

\* Compare-and-swap admits one append per expected head, whatever retries
\* and lost acknowledgements (store.rs:844-882).
THEOREM SingleWinner == WritersSpec => []OneWinner
<1>1. WritersInv => OneWinner
  BY DEF WritersInv
<1> QED
  BY WritersSafety, <1>1, PTL

\* A refused or abandoned writer leaves no event outside every branch.
THEOREM LosersLeaveNothing == WritersSpec => []NoOrphans
<1>1. WritersInv => NoOrphans
  BY DEF WritersInv
<1> QED
  BY WritersSafety, <1>1, PTL

\* append, merge and create_branch only move branches forward.
THEOREM ForwardOnly == WritersSpec => BranchDescends
<1>1. WritersInv /\ [WritersNext]_vars =>
        [\A n \in RefName : BranchHead(n) # None =>
           BranchHead(n) \in Ancestors[BranchHead(n)']]_vars
  BY ForwardStep, WriterAssumption DEF RefsForward, BranchHead
<1> QED
  BY WritersSafety, <1>1, PTL DEF WritersSpec, BranchDescends
----------------------------------------------------------------------------
(* The writers implement AtomicWriters: the store and the acknowledgements  *)
(* are its variables.                                                       *)

\* The steps of the store are the same in both specifications.
LEMMA SameSteps ==
  /\ \A c \in ContextId, n \in RefName, e \in EventId :
       /\ ExtendBranch(c, n, e) => Atomic!ExtendBranch(c, n, e)
       /\ CreateContext(e, n) => Atomic!CreateContext(e, n)
       /\ CreateBranch(c, n, e) => Atomic!CreateBranch(c, n, e)
  /\ \A c \in ContextId, a \in AuthorId : AuthorizeAuthor(c, a) => Atomic!AuthorizeAuthor(c, a)
  /\ Init => Atomic!Init
<1>1. ASSUME NEW c \in ContextId, NEW n \in RefName, NEW e \in EventId
      PROVE  Admissible(e) = Atomic!Admissible(e)
  BY DEF Admissible, Acceptable, IsGenesis, Atomic!Admissible, Atomic!Acceptable, Atomic!IsGenesis
<1>2. ASSUME NEW c \in ContextId, NEW n \in RefName, NEW e \in EventId, ExtendBranch(c, n, e)
      PROVE  Atomic!ExtendBranch(c, n, e)
  <2>1. /\ localRef[c][n] \in Body[e].parents /\ MutationMatches(e, c, e) /\ Admissible(e)
        /\ RefCanMove(c, n, localRef[c][n], e) /\ StoreEvent(e) /\ MoveRef(c, n, e)
    BY <1>2 DEF ExtendBranch, AdmitAndMove
  <2>2. Atomic!MutationMatches(e, c, e) /\ Atomic!RefCanMove(c, n, localRef[c][n], e)
    BY <2>1 DEF MutationMatches, RefCanMove, Atomic!MutationMatches, Atomic!RefCanMove
  <2>3. Atomic!StoreEvent(e) /\ Atomic!MoveRef(c, n, e)
    BY <2>1 DEF StoreEvent, MoveRef, Atomic!StoreEvent, Atomic!MoveRef
  <2> QED
    BY <1>1, <2>1, <2>2, <2>3 DEF Atomic!ExtendBranch, Atomic!AdmitAndMove
<1>3. ASSUME NEW n \in RefName, NEW e \in EventId, CreateContext(e, n)
      PROVE  Atomic!CreateContext(e, n)
  BY <1>3 DEF CreateContext, Atomic!CreateContext
<1>4. ASSUME NEW c \in ContextId, NEW n \in RefName, NEW e \in EventId, CreateBranch(c, n, e)
      PROVE  Atomic!CreateBranch(c, n, e)
  BY <1>4 DEF CreateBranch, StoredIn, MoveRef, Atomic!CreateBranch, Atomic!StoredIn, Atomic!MoveRef
<1>5. ASSUME NEW c \in ContextId, NEW a \in AuthorId, AuthorizeAuthor(c, a)
      PROVE  Atomic!AuthorizeAuthor(c, a)
  BY <1>5 DEF AuthorizeAuthor, Atomic!AuthorizeAuthor
<1>6. Init => Atomic!Init
  BY DEF Init, Atomic!Init
<1> QED
  BY <1>2, <1>3, <1>4, <1>5, <1>6

\* A submission extends the branch, or finds its event at the head and
\* changes nothing: the first submission of it had taken effect.
LEMMA SubmitIsAtomic ==
  ASSUME WritersInv, NEW w \in Writer, pc[w] = "sent", Submit(w)
  PROVE  \/ BranchHead(target[w]) = seen[w] /\ ExtendBranch(Ctx, target[w], signed[w])
         \/ BranchHead(target[w]) = signed[w] /\ UNCHANGED storeVars
<1> DEFINE n == target[w]   e == signed[w]
<1>1. /\ e \in EventId /\ n \in RefName /\ seen[w] \in Body[e].parents
      /\ Body[e].context = Ctx /\ BranchHead(n) \in {e, seen[w]}
      /\ MoveRef(Ctx, n, e) /\ StoreEvent(e)
  BY SubmitEffect
<1>2. Ctx \in ContextId /\ localRef \in [ContextId -> RefSnapshot] /\ localRef[Ctx] \in [RefName -> Optional(EventId)]
  BY WriterAssumption DEF WritersInv, StoreInv, TypeOK, RefSnapshot
<1>3. AdmitAndMove(e, Ctx, n, seen[w], e)
  BY DEF Submit
<1> HIDE DEF n, e
<1>4. CASE BranchHead(n) = seen[w]
  BY <1>1, <1>3, <1>4 DEF ExtendBranch, BranchHead, n, e
<1>5. CASE BranchHead(n) = e
  <2>1. localRef[Ctx][n] = e
    BY <1>5 DEF BranchHead
  <2>2. e \in events
    BY <1>1, <1>2, <2>1, NoneAssumption DEF WritersInv, StoreInv, RefsResolve, StoredIn
  <2>3. Ctx \in active
    <3>1. Admissible(e) /\ Body[e].parents # {}
      BY <1>1, <1>3 DEF AdmitAndMove
    <3> QED
      BY <1>1, <3>1 DEF Admissible, Acceptable, IsGenesis
  <2>4. localRef' = localRef
    BY <1>1, <1>2, <2>1 DEF MoveRef
  <2>5. UNCHANGED <<expected, active, authors, events, remoteRef>>
    BY <1>1, <2>2, <2>3 DEF StoreEvent
  <2> QED
    BY <1>5, <2>4, <2>5 DEF storeVars, n, e
<1> QED
  BY <1>1, <1>4, <1>5

\* Every step of a writer or an operator is a step of AtomicWriters, or
\* changes nothing of it.
LEMMA StepsAreAtomic ==
  ASSUME WritersInv, [WritersNext]_vars
  PROVE  [Atomic!AtomicNext]_(Atomic!atomicVars)
<1> USE WriterAssumption
<1>1. CASE OperatorStep
  <2>1. Atomic!Manage
    BY <1>1, SameSteps DEF OperatorStep, writerVars, Atomic!Manage
  <2> QED
    BY <2>1 DEF Atomic!AtomicNext
<1>2. CASE UNCHANGED <<storeVars, acked>>
  BY <1>2 DEF storeVars, Atomic!atomicVars, Atomic!storeVars
<1>3. ASSUME NEW w \in Writer, pc[w] = "sent", Submit(w),
             \/ acked' = acked
             \/ acked' = acked \cup {[name |-> target[w], expected |-> seen[w], event |-> signed[w]]}
      PROVE  [Atomic!AtomicNext]_(Atomic!atomicVars)
  <2> DEFINE n == target[w]   e == signed[w]   head == seen[w]
  <2>1. e \in EventId /\ n \in RefName /\ head \in Body[e].parents
    BY <1>3, SubmitEffect
  <2>2. acked' \in {acked, acked \cup {Atomic!Answer(n, head, e)}}
    BY <1>3 DEF Atomic!Answer
  <2>3. \/ localRef[Ctx][n] = head /\ ExtendBranch(Ctx, n, e)
        \/ localRef[Ctx][n] = e /\ UNCHANGED storeVars
    BY <1>3, SubmitIsAtomic DEF BranchHead
  <2> HIDE DEF n, e, head
  <2>4. CASE localRef[Ctx][n] = head /\ ExtendBranch(Ctx, n, e)
    <3>1. Atomic!Write(n, e)
      BY <2>1, <2>2, <2>4, SameSteps DEF Atomic!Write
    <3> QED
      BY <2>1, <3>1 DEF Atomic!AtomicNext
  <2>5. CASE localRef[Ctx][n] = e /\ UNCHANGED storeVars
    <3>1. CASE acked' = acked
      BY <1>2, <2>5, <3>1
    <3>2. CASE acked' # acked
      <4>1. Atomic!Confirm(n, e)
        BY <2>1, <2>2, <2>5, <3>2 DEF Atomic!Confirm, storeVars, Atomic!storeVars
      <4> QED
        BY <2>1, <4>1 DEF Atomic!AtomicNext
    <3> QED
      BY <3>1, <3>2
  <2> QED
    BY <2>3, <2>4, <2>5
<1>4. ASSUME NEW w \in Writer, WriterStep(w)
      PROVE  \/ UNCHANGED <<storeVars, acked>>
             \/ /\ pc[w] = "sent" /\ Submit(w)
                /\ \/ acked' = acked
                   \/ acked' = acked \cup {[name |-> target[w], expected |-> seen[w],
                                            event |-> signed[w]]}
  BY <1>4 DEF WriterStep, ReadHead, Sign, CommitAcknowledged,
              CommitIndeterminate, Refused, Retry, GiveUp
<1> QED
  BY <1>1, <1>2, <1>3, <1>4 DEF WritersNext, vars, writerVars

\* Concurrent, retrying writers have the effect of whole appends and merges,
\* each on the head its branch has at that moment, and are told of an event
\* only while it is the head.  This is what lets Invocation, PullSync and
\* Exchange take an append for one step (ExtendBranch).
THEOREM WritersImplementAtomic == WritersSpec => WritersAtomic
<1>1. WritersInit => Atomic!Init /\ acked = {}
  BY SameSteps DEF WritersInit
<1>2. WritersInv /\ [WritersNext]_vars => [Atomic!AtomicNext]_(Atomic!atomicVars)
  BY StepsAreAtomic
<1> QED
  BY WritersSafety, <1>1, <1>2, PTL DEF WritersSpec, WritersAtomic, Atomic!AtomicSpec
=============================================================================
