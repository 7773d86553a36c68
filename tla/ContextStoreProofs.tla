------------------------- MODULE ContextStoreProofs -------------------------
(***************************************************************************)
(* Proofs, for every set of contexts, authors, events, names and peers and *)
(* every event graph, of the safety properties of ContextStore.            *)
(*                                                                         *)
(* StoreInv is inductive as it stands.  Each operation changes the rows in *)
(* one of a few ways, so the induction step is proved once per way: a      *)
(* policy row is added (PolicyStep), a batch of accepted events is stored  *)
(* (EventStep), or only refs move (RefStep).                               *)
(***************************************************************************)
EXTENDS StoreVerification, TLAPS

StoreInv == TypeOK /\ AncestryClosed /\ OneRoot /\ AuthorsVetted /\ RefsResolve

(***************************************************************************)
(* Ancestry: an event is its own ancestor, the ancestors of an event form  *)
(* a closed set, and they lie in every closed set that holds the event.    *)
(***************************************************************************)
LEMMA AncestorsReflexive == \A e \in EventId : e \in Ancestors[e]
  BY DEF Ancestors

\* An ancestor is an event.
LEMMA AncestorsType == \A e \in EventId : Ancestors[e] \subseteq EventId
  BY DEF Ancestors

\* A parent is an event.
LEMMA ParentsAreEvents == \A e \in EventId : Body[e].parents \subseteq EventId
  BY BodyAssumption DEF EventBody

\* The ancestors of an event are closed under parents.
LEMMA AncestorsClosed == \A e \in EventId : Closed(Ancestors[e])
<1> SUFFICES ASSUME NEW e \in EventId, NEW a \in Ancestors[e],
                    NEW p \in Body[a].parents
             PROVE  p \in Ancestors[e]
  BY DEF Closed
<1>1. a \in EventId /\ p \in EventId
  BY AncestorsType, ParentsAreEvents
<1>2. ASSUME NEW S \in SUBSET EventId, e \in S, Closed(S)
      PROVE  p \in S
  <2>1. a \in S
    BY <1>2 DEF Ancestors
  <2> QED
    BY <2>1, <1>2 DEF Closed
<1> QED
  BY <1>1, <1>2 DEF Ancestors

\* They are the least such set that holds the event.
LEMMA AncestorsLeast ==
  \A S \in SUBSET EventId : Closed(S) => \A e \in S : Ancestors[e] \subseteq S
  BY DEF Ancestors

\* Ancestry is transitive.
LEMMA AncestorsTransitive ==
  \A e \in EventId : \A a \in Ancestors[e] : Ancestors[a] \subseteq Ancestors[e]
  BY AncestorsClosed, AncestorsLeast, AncestorsType

\* A parent's history is part of its child's.
LEMMA ParentHistory ==
  \A e \in EventId : \A p \in Body[e].parents : Ancestors[p] \subseteq Ancestors[e]
<1> TAKE e \in EventId
<1> TAKE p \in Body[e].parents
<1>1. p \in Ancestors[e]
  BY AncestorsReflexive, AncestorsClosed DEF Closed
<1> QED
  BY <1>1, AncestorsTransitive

\* The history of an event is the event and the history of its parents.
LEMMA AncestorsUnfold ==
  ASSUME NEW e \in EventId, NEW a \in Ancestors[e], a # e
  PROVE  \E p \in Body[e].parents : a \in Ancestors[p]
<1> DEFINE S == {e} \cup UNION {Ancestors[p] : p \in Body[e].parents}
<1>1. S \in SUBSET EventId
  BY ParentsAreEvents, AncestorsType
<1>2. Closed(S)
  <2> SUFFICES ASSUME NEW x \in S PROVE Body[x].parents \subseteq S
    BY DEF Closed
  <2>1. CASE x = e
    BY <2>1, AncestorsReflexive, ParentsAreEvents
  <2>2. CASE x # e
    <3>1. PICK p \in Body[e].parents : x \in Ancestors[p]
      BY <2>2
    <3> QED
      BY <3>1, AncestorsClosed, ParentsAreEvents DEF Closed
  <2> QED
    BY <2>1, <2>2
<1>3. Ancestors[e] \subseteq S
  BY <1>1, <1>2, AncestorsLeast
<1> QED
  BY <1>3

\* No event is in the history of one of its parents: consider the events of
\* that history which have it in theirs, and take one without a parent among
\* them.
LEMMA Acyclic ==
  ASSUME NEW e \in EventId, NEW p \in Body[e].parents
  PROVE  e \notin Ancestors[p]
<1> SUFFICES ASSUME e \in Ancestors[p] PROVE FALSE
  OBVIOUS
<1> DEFINE S == {y \in EventId : e \in Ancestors[y] /\ y \in Ancestors[p]}
<1>1. p \in EventId /\ S \in SUBSET EventId /\ p \in S
  BY ParentsAreEvents, AncestorsReflexive
<1>2. PICK y \in S : Body[y].parents \cap S = {}
  BY <1>1, HashingAssumption
<1>3. Body[y].parents \subseteq Ancestors[p]
  BY <1>1, AncestorsClosed DEF Closed
<1>4. CASE y = e
  BY <1>1, <1>2, <1>4
<1>5. CASE y # e
  <2>1. PICK q \in Body[y].parents : e \in Ancestors[q]
    BY <1>5, AncestorsUnfold
  <2>2. q \in S
    BY <1>3, <2>1, ParentsAreEvents
  <2> QED
    BY <1>2, <2>1, <2>2
<1> QED
  BY <1>4, <1>5

\* Two events in each other's history are one event.
LEMMA Antisymmetric ==
  ASSUME NEW e \in EventId, NEW a \in Ancestors[e], e \in Ancestors[a]
  PROVE  a = e
<1> SUFFICES ASSUME a # e PROVE FALSE
  OBVIOUS
<1>1. PICK p \in Body[e].parents : a \in Ancestors[p]
  BY AncestorsUnfold
<1>2. e \in Ancestors[p]
  BY <1>1, AncestorsTransitive, ParentsAreEvents
<1> QED
  BY <1>2, Acyclic

----------------------------------------------------------------------------
\* The empty store satisfies the inductive invariant.
LEMMA InitStoreInv == Init => StoreInv
<1> SUFFICES ASSUME Init PROVE StoreInv
  OBVIOUS
<1> USE DEF Init
<1>1. TypeOK
  BY DEF TypeOK, RefSnapshot, Optional
<1>2. AncestryClosed /\ OneRoot /\ AuthorsVetted
  BY DEF AncestryClosed, OneRoot, AuthorsVetted
<1>3. RefsResolve
  BY DEF RefsResolve
<1> QED
  BY <1>1, <1>2, <1>3 DEF StoreInv

(***************************************************************************)
(* A step that leaves events and refs alone, keeps the policy of every     *)
(* active context and only adds authors.                                   *)
(***************************************************************************)
LEMMA PolicyStep ==
  ASSUME StoreInv, UNCHANGED <<active, events, localRef, remoteRef>>,
         expected' \in [ContextId -> Optional(EventId)],
         authors' \in [ContextId -> SUBSET AuthorId],
         \A c \in ContextId : expected[c] # None => expected'[c] = expected[c],
         \A c \in ContextId : authors[c] \subseteq authors'[c]
                                \/ expected[c] = None
  PROVE  StoreInv'
<1> USE DEF StoreInv
<1>1. TypeOK'
  BY DEF TypeOK
<1>2. AncestryClosed' /\ RefsResolve'
  BY DEF AncestryClosed, RefsResolve, StoredIn
<1>3. \A c \in active : c \in ContextId /\ expected[c] # None
                          /\ expected'[c] = expected[c]
  BY NoneAssumption DEF TypeOK, OneRoot
<1>4. OneRoot'
  BY <1>3 DEF OneRoot, IsGenesis
<1>5. AuthorsVetted'
  BY <1>3 DEF AuthorsVetted, OneRoot
<1> QED
  BY <1>1, <1>2, <1>4, <1>5

(***************************************************************************)
(* A step that stores the set new of events of context c, each acceptable  *)
(* when its turn came: its author is listed, its parents are stored with   *)
(* it, and it is either the pinned genesis or not a root at all.           *)
(***************************************************************************)
LEMMA EventStep ==
  ASSUME StoreInv, NEW c \in ContextId, NEW new \in SUBSET EventId,
         expected[c] # None,
         \A e \in new : /\ Body[e].context = c
                        /\ Body[e].author \in authors[c]
                        /\ \A p \in Body[e].parents :
                             p \in events \cup new /\ Body[p].context = c
                        /\ \/ IsGenesis(e, c)
                           \/ Body[e].parents # {} /\ Body[e].kind # "context.genesis",
         c \in active \/ \E e \in new : IsGenesis(e, c),
         events' = events \cup new, active' = active \cup {c},
         UNCHANGED <<expected, authors>>,
         localRef' \in [ContextId -> RefSnapshot],
         remoteRef' \in [PeerName -> [ContextId -> RefSnapshot]],
         RefsResolve'
  PROVE  StoreInv'
<1> USE DEF StoreInv
<1>1. TypeOK'
  BY DEF TypeOK
<1>2. AncestryClosed'
  BY DEF AncestryClosed
<1>3. \A d \in active' : expected'[d] \in events'
  BY DEF OneRoot, IsGenesis
<1>4. \A e \in events' :
        /\ Body[e].context \in active'
        /\ Body[e].parents = {} \/ Body[e].kind = "context.genesis"
             => IsGenesis(e, Body[e].context)'
  BY DEF OneRoot, IsGenesis
<1>5. \A d \in active' : IsGenesis(expected[d], d) /\ Body[expected[d]].context = d
  BY DEF OneRoot, IsGenesis
<1>6. OneRoot'
  BY <1>3, <1>4, <1>5 DEF OneRoot, IsGenesis
<1>7. AuthorsVetted'
  BY DEF AuthorsVetted
<1> QED
  BY <1>1, <1>2, <1>6, <1>7

\* A step that moves refs only.
LEMMA RefStep ==
  ASSUME StoreInv, UNCHANGED <<expected, active, authors, events>>,
         localRef' \in [ContextId -> RefSnapshot],
         remoteRef' \in [PeerName -> [ContextId -> RefSnapshot]],
         RefsResolve'
  PROVE  StoreInv'
<1> USE DEF StoreInv
<1>1. TypeOK'
  BY DEF TypeOK
<1>2. AncestryClosed' /\ OneRoot' /\ AuthorsVetted'
  BY DEF AncestryClosed, OneRoot, AuthorsVetted, IsGenesis
<1> QED
  BY <1>1, <1>2

----------------------------------------------------------------------------
\* Moving one local ref to a stored event keeps every ref resolvable, while
\* events are only added.
LEMMA MoveRefResolves ==
  ASSUME TypeOK, RefsResolve, NEW c \in ContextId, NEW n \in RefName,
         NEW head \in EventId, MoveRef(c, n, head), UNCHANGED remoteRef,
         events \subseteq events', head \in events', Body[head].context = c
  PROVE  localRef' \in [ContextId -> RefSnapshot] /\ RefsResolve'
<1>1. localRef' \in [ContextId -> RefSnapshot]
  BY DEF TypeOK, MoveRef, RefSnapshot, Optional
<1>2. RefsResolve'
  <2> SUFFICES ASSUME NEW d \in ContextId, NEW m \in RefName
               PROVE  (/\ localRef[d][m] # None => StoredIn(localRef[d][m], d)
                       /\ \A p \in PeerName :
                            remoteRef[p][d][m] # None
                              => StoredIn(remoteRef[p][d][m], d))'
    BY DEF RefsResolve
  <2>1. (localRef'[d][m] = head /\ d = c) \/ localRef'[d][m] = localRef[d][m]
    BY DEF TypeOK, MoveRef, RefSnapshot
  <2> QED
    BY <2>1 DEF RefsResolve, StoredIn
<1> QED
  BY <1>1, <1>2

\* Admitting an event is storing a batch of one accepted event.
LEMMA AdmitStores ==
  ASSUME StoreInv, NEW e \in EventId, Admissible(e), StoreEvent(e),
         localRef' \in [ContextId -> RefSnapshot], RefsResolve'
  PROVE  StoreInv'
<1> DEFINE c == Body[e].context  new == {e}
<1>1. c \in ContextId /\ new \in SUBSET EventId
  BY BodyAssumption DEF EventBody
<1>2. /\ expected[c] # None /\ Body[e].author \in authors[c]
      /\ \A p \in Body[e].parents : p \in events /\ Body[p].context = c
      /\ \/ IsGenesis(e, c)
         \/ Body[e].parents # {} /\ Body[e].kind # "context.genesis"
      /\ c \in active \/ IsGenesis(e, c)
  BY DEF Admissible, Acceptable
<1>3. remoteRef' \in [PeerName -> [ContextId -> RefSnapshot]]
  BY DEF StoreEvent, StoreInv, TypeOK
<1>4. events' = events \cup new /\ active' = active \cup {c}
      /\ UNCHANGED <<expected, authors>>
  BY DEF StoreEvent
<1>5. \A d \in new : /\ Body[d].context = c
                     /\ Body[d].author \in authors[c]
                     /\ \A p \in Body[d].parents :
                          p \in events \cup new /\ Body[p].context = c
                     /\ \/ IsGenesis(d, c)
                        \/ Body[d].parents # {} /\ Body[d].kind # "context.genesis"
  BY <1>2
<1>6. c \in active \/ \E d \in new : IsGenesis(d, c)
  BY <1>2
<1> HIDE DEF c, new
<1> QED
  BY ONLY StoreInv, RefsResolve', localRef' \in [ContextId -> RefSnapshot],
     <1>1, <1>2, <1>3, <1>4, <1>5, <1>6, EventStep

\* A created context had no row, so nothing of it was stored before.
LEMMA CreateStores ==
  ASSUME StoreInv, NEW g \in EventId, NEW n \in RefName, CreateContext(g, n)
  PROVE  StoreInv'
<1> DEFINE c == Body[g].context
<1> USE DEF StoreInv
<1>1. c \in ContextId /\ Body[g].author \in AuthorId
  BY BodyAssumption DEF EventBody
<1>2. /\ expected[c] = None /\ c \notin active
      /\ \A e \in events : Body[e].context # c
  BY NoneAssumption DEF CreateContext, OneRoot, TypeOK
<1>3. /\ Body[g].parents = {} /\ Body[g].kind = "context.genesis"
      /\ events' = events \cup {g} /\ active' = active \cup {c}
      /\ UNCHANGED remoteRef /\ MoveRef(c, n, g)
  BY DEF CreateContext, MoveRef
<1>4. /\ expected'[c] = g /\ authors'[c] = {Body[g].author}
      /\ \A d \in ContextId \ {c} : expected'[d] = expected[d]
                                   /\ authors'[d] = authors[d]
  BY <1>1 DEF CreateContext, TypeOK
<1>5. localRef' \in [ContextId -> RefSnapshot] /\ RefsResolve'
  BY <1>1, <1>3, MoveRefResolves
<1>6. TypeOK'
  BY <1>1, <1>3, <1>5 DEF CreateContext, TypeOK, Optional
<1>7. AncestryClosed'
  BY <1>3 DEF AncestryClosed
<1>8. \A e \in events : Body[e].context \in ContextId \ {c}
  BY <1>2, BodyAssumption DEF EventBody, TypeOK
<1> HIDE DEF c
<1>9. AuthorsVetted'
  <2> SUFFICES ASSUME NEW e \in events'
               PROVE  Body[e].author \in authors'[Body[e].context]
    BY DEF AuthorsVetted
  <2>1. CASE e \in events
    BY <1>4, <1>8, <2>1 DEF AuthorsVetted
  <2>2. CASE e = g
    BY <1>4, <2>2 DEF c
  <2> QED
    BY <1>3, <2>1, <2>2
<1>10. OneRoot'
  <2>1. \A d \in active' : /\ expected'[d] \in events'
                            /\ IsGenesis(expected[d], d)'
                            /\ Body[expected'[d]].context = d
    BY <1>2, <1>3, <1>4 DEF OneRoot, IsGenesis, TypeOK, c
  <2>2. ASSUME NEW e \in events'
        PROVE  /\ Body[e].context \in active'
               /\ Body[e].parents = {} \/ Body[e].kind = "context.genesis"
                    => IsGenesis(e, Body[e].context)'
    <3>1. CASE e \in events
      BY <1>3, <1>4, <1>8, <3>1 DEF OneRoot, IsGenesis
    <3>2. CASE e = g
      BY <1>3, <1>4, <3>2 DEF IsGenesis, c
    <3> QED
      BY <1>3, <3>1, <3>2
  <2> QED
    BY <2>1, <2>2 DEF OneRoot
<1> QED
  BY <1>5, <1>6, <1>7, <1>9, <1>10

\* Importing a bundle is storing a batch of accepted events.
LEMMA ImportStores ==
  ASSUME StoreInv, NEW p \in PeerName, NEW b \in Bundles, ImportBundle(p, b)
  PROVE  StoreInv'
<1> DEFINE c == b.context  new == EventsOf(b)
<1> USE DEF StoreInv
<1>1. /\ c \in ContextId /\ b.events \in Seq(EventId)
      /\ b.refs \in RefSnapshot
  BY BundlesAssumption
<1>2. new \in SUBSET EventId
  BY <1>1 DEF EventsOf
<1>3. ASSUME NEW e \in new
      PROVE  /\ Body[e].context = c
             /\ Body[e].author \in authors[c]
             /\ \A q \in Body[e].parents :
                  q \in events \cup new /\ Body[q].context = c
             /\ \/ IsGenesis(e, c)
                \/ Body[e].parents # {} /\ Body[e].kind # "context.genesis"
  <2>1. PICK i \in DOMAIN b.events : e = b.events[i]
    BY DEF EventsOf
  <2>2. Earlier(b.events, i) \subseteq new
    BY <1>1, <2>1 DEF EventsOf, Earlier
  <2>3. Acceptable(e, c, events \cup Earlier(b.events, i), c \in active \/ i > 1)
    BY <2>1 DEF ImportBundle, ImportableEvents
  <2>4. Body[e].context = c
    BY <2>1 DEF ImportBundle, WellFormedBundle
  <2> QED
    BY <2>2, <2>3, <2>4 DEF Acceptable
<1>4. UNCHANGED <<expected, authors, localRef>> /\ events' = events \cup new
      /\ expected[c] # None
  BY DEF ImportBundle, ImportableEvents
<1>5. remoteRef' \in [PeerName -> [ContextId -> RefSnapshot]]
  <2>1. [n \in RefName |-> IF b.refs[n] = None THEN remoteRef[p][c][n]
                                              ELSE b.refs[n]] \in RefSnapshot
    BY <1>1 DEF TypeOK, RefSnapshot
  <2> QED
    BY <1>1, <2>1 DEF TypeOK, ImportBundle, ImportedRefs
<1>6. RefsResolve'
  <2>1. ASSUME NEW d \in ContextId, NEW n \in RefName
        PROVE  (localRef[d][n] # None => StoredIn(localRef[d][n], d))'
    BY <1>4 DEF RefsResolve, StoredIn
  <2>2. ASSUME NEW d \in ContextId, NEW n \in RefName, NEW q \in PeerName,
               remoteRef'[q][d][n] # None
        PROVE  StoredIn(remoteRef[q][d][n], d)'
    <3>1. \/ remoteRef'[q][d][n] = remoteRef[q][d][n]
          \/ d = c /\ remoteRef'[q][d][n] \in SnapshotHeads(b.refs)
      BY <1>1, <2>2 DEF ImportBundle, ImportedRefs, TypeOK, SnapshotHeads
    <3>2. \A head \in SnapshotHeads(b.refs) : StoredIn(head, c)'
      BY DEF ImportBundle, StoredIn
    <3> QED
      BY <1>4, <2>2, <3>1, <3>2 DEF RefsResolve, StoredIn
  <2> QED
    BY <2>1, <2>2 DEF RefsResolve
<1>7. CASE new = {}
  BY <1>4, <1>5, <1>6, <1>7, RefStep DEF ImportBundle, TypeOK
<1>8. CASE new # {}
  <2>1. active' = active \cup {c}
    BY <1>8 DEF ImportBundle
  <2>2. c \in active \/ \E e \in new : IsGenesis(e, c)
    <3>1. 1 \in DOMAIN b.events /\ b.events[1] \in new
      BY <1>1, <1>8 DEF EventsOf
    <3>2. Acceptable(b.events[1], c, events \cup Earlier(b.events, 1),
                     c \in active \/ 1 > 1)
      BY <3>1 DEF ImportBundle, ImportableEvents
    <3> QED
      BY <3>1, <3>2 DEF Acceptable
  <2> HIDE DEF c, new
  <2> QED
    BY <1>1, <1>2, <1>3, <1>4, <1>5, <1>6, <2>1, <2>2, EventStep DEF TypeOK
<1> QED
  BY <1>7, <1>8

----------------------------------------------------------------------------
(* Branches that move forward: every head is in the history of the next.   *)

RefsForward ==
  \A c \in ContextId, n \in RefName : localRef[c][n] # None =>
    localRef'[c][n] \in EventId /\ localRef[c][n] \in Ancestors[localRef'[c][n]]

\* Moving a ref from an ancestor of the new head moves it forward.
LEMMA MoveForward ==
  ASSUME StoreInv, NEW c \in ContextId, NEW n \in RefName, NEW e \in EventId,
         MoveRef(c, n, e),
         localRef[c][n] # None => localRef[c][n] \in Ancestors[e]
  PROVE  RefsForward
<1> SUFFICES ASSUME NEW d \in ContextId, NEW m \in RefName, localRef[d][m] # None
             PROVE  /\ localRef'[d][m] \in EventId
                    /\ localRef[d][m] \in Ancestors[localRef'[d][m]]
  BY DEF RefsForward
<1>1. localRef \in [ContextId -> RefSnapshot] /\ localRef[d][m] \in EventId
  BY DEF StoreInv, TypeOK, RefSnapshot, Optional
<1>2. CASE d = c /\ m = n
  BY <1>1, <1>2 DEF MoveRef, RefSnapshot
<1>3. CASE ~(d = c /\ m = n)
  <2>1. localRef'[d][m] = localRef[d][m]
    BY <1>1, <1>3 DEF MoveRef, RefSnapshot
  <2> QED
    BY <1>1, <2>1, AncestorsReflexive
<1> QED
  BY <1>2, <1>3

----------------------------------------------------------------------------
\* Every transaction keeps the inductive invariant.
LEMMA NextStoreInv == StoreInv /\ [Next]_storeVars => StoreInv'
<1> SUFFICES ASSUME StoreInv, [Next]_storeVars PROVE StoreInv'
  OBVIOUS
<1>0. TypeOK /\ RefsResolve
  BY DEF StoreInv
<1>1. ASSUME NEW p \in Provisions, ProvisionContext(p) PROVE StoreInv'
  <2>1. p.context \in ContextId /\ p.genesis \in EventId
        /\ p.authors \in SUBSET AuthorId
    BY ProvisionsAssumption
  <2>2. expected' \in [ContextId -> Optional(EventId)]
        /\ authors' \in [ContextId -> SUBSET AuthorId]
    BY <1>0, <1>1, <2>1 DEF ProvisionContext, TypeOK, Optional
  <2>3. \A c \in ContextId : /\ expected[c] # None => expected'[c] = expected[c]
                             /\ authors[c] \subseteq authors'[c] \/ expected[c] = None
    BY <1>0, <1>1, <2>1 DEF ProvisionContext, TypeOK
  <2> QED
    BY <1>1, <2>2, <2>3, PolicyStep DEF ProvisionContext
<1>2. ASSUME NEW c \in ContextId, NEW a \in AuthorId, AuthorizeAuthor(c, a)
      PROVE  StoreInv'
  <2>1. authors' \in [ContextId -> SUBSET AuthorId]
        /\ \A d \in ContextId : authors[d] \subseteq authors'[d]
    BY <1>0, <1>2 DEF AuthorizeAuthor, TypeOK
  <2> QED
    BY <1>0, <1>2, <2>1, PolicyStep DEF AuthorizeAuthor, TypeOK
<1>3. ASSUME NEW g \in EventId, NEW n \in RefName, CreateContext(g, n)
      PROVE  StoreInv'
  BY <1>3, CreateStores
<1>4. ASSUME NEW e \in EventId, Admit(e) PROVE StoreInv'
  <2>1. Admissible(e) /\ StoreEvent(e) /\ UNCHANGED <<localRef, remoteRef>>
    BY <1>4 DEF Admit, StoreEvent
  <2>2. RefsResolve' /\ localRef' \in [ContextId -> RefSnapshot]
    BY <1>0, <2>1 DEF RefsResolve, StoredIn, StoreEvent, TypeOK
  <2> QED
    BY <2>1, <2>2, AdmitStores
<1>5. ASSUME NEW e \in EventId, NEW c \in ContextId, NEW n \in RefName,
             NEW x \in Optional(EventId), NEW h \in EventId,
             AdmitAndMove(e, c, n, x, h)
      PROVE  StoreInv'
  <2>1. /\ Admissible(e) /\ StoreEvent(e) /\ MoveRef(c, n, e)
        /\ UNCHANGED remoteRef /\ Body[e].context = c
    BY <1>5 DEF AdmitAndMove, MutationMatches, StoreEvent
  <2>2. localRef' \in [ContextId -> RefSnapshot] /\ RefsResolve'
    BY <1>0, <2>1, MoveRefResolves DEF StoreEvent
  <2> QED
    BY <2>1, <2>2, AdmitStores
<1>6. ASSUME NEW c \in ContextId, NEW n \in RefName, NEW e \in EventId,
             CreateBranch(c, n, e)
      PROVE  StoreInv'
  <2>1. localRef' \in [ContextId -> RefSnapshot] /\ RefsResolve'
    BY <1>0, <1>6, MoveRefResolves DEF CreateBranch, StoredIn
  <2> QED
    BY <1>0, <1>6, <2>1, RefStep DEF CreateBranch, TypeOK
<1>7. ASSUME NEW p \in PeerName, NEW c \in ContextId, NEW n \in RefName,
             NEW e \in EventId, SetRemoteRef(p, c, n, e)
      PROVE  StoreInv'
  <2>1. remoteRef' \in [PeerName -> [ContextId -> RefSnapshot]]
    BY <1>0, <1>7 DEF SetRemoteRef, TypeOK, RefSnapshot, Optional
  <2>2. RefsResolve'
    BY <1>0, <1>7 DEF SetRemoteRef, TypeOK, RefSnapshot, RefsResolve, StoredIn
  <2> QED
    BY <1>0, <1>7, <2>1, <2>2, RefStep DEF SetRemoteRef, TypeOK
<1>8. ASSUME NEW p \in PeerName, NEW b \in Bundles,
             ReplaceRemoteRefs(p, b.context, b.refs)
      PROVE  StoreInv'
  <2>0. b.context \in ContextId /\ b.refs \in RefSnapshot
    BY BundlesAssumption
  <2>1. remoteRef' \in [PeerName -> [ContextId -> RefSnapshot]]
    BY <1>0, <1>8, <2>0 DEF ReplaceRemoteRefs, TypeOK
  <2>2. RefsResolve'
    BY <1>0, <1>8, <2>0 DEF ReplaceRemoteRefs, TypeOK, RefsResolve, StoredIn,
                            SnapshotHeads
  <2> QED
    BY <1>0, <1>8, <2>1, <2>2, RefStep DEF ReplaceRemoteRefs, TypeOK
<1>9. ASSUME NEW p \in PeerName, NEW b \in Bundles, ImportBundle(p, b)
      PROVE  StoreInv'
  BY <1>9, ImportStores
<1>10. CASE UNCHANGED storeVars
  BY <1>0, <1>10, RefStep DEF storeVars, TypeOK, RefsResolve, StoredIn
<1> QED
  BY <1>1, <1>2, <1>3, <1>4, <1>5, <1>6, <1>7, <1>8, <1>9, <1>10 DEF Next

----------------------------------------------------------------------------
(***************************************************************************)
(* The main safety theorem of the store: types, closed ancestry, a single  *)
(* pinned root per active context, vetted authors and resolvable refs, in  *)
(* every reachable state (store.rs, dag.rs, bundle.rs, store/sync.rs).     *)
(***************************************************************************)
THEOREM StoreSafety == Spec => []StoreInv
<1> QED
  BY InitStoreInv, NextStoreInv, PTL DEF Spec

\* Every column always holds a value of its type.
THEOREM TypeCorrect == Spec => []TypeOK
<1>1. StoreInv => TypeOK
  BY DEF StoreInv
<1> QED
  BY StoreSafety, <1>1, PTL

(***************************************************************************)
(* Every stored event descends from the genesis its context pins: take a   *)
(* parentless ancestor of the event, which exists because addresses are    *)
(* hashes; it is stored, so it can only be the genesis.                    *)
(***************************************************************************)
LEMMA InvRooted == StoreInv => HistoryRooted
<1> SUFFICES ASSUME StoreInv, NEW e \in events
             PROVE  /\ expected[Body[e].context] \in Ancestors[e]
                    /\ Ancestors[e] \subseteq events
  BY DEF HistoryRooted
<1> DEFINE c == Body[e].context
           Same == {a \in events : Body[a].context = c}
<1> USE DEF StoreInv
<1>1. e \in EventId /\ Same \subseteq EventId
  BY DEF TypeOK
<1>2. Closed(Same)
  BY DEF AncestryClosed, Closed
<1>3. Ancestors[e] \subseteq Same
  BY <1>1, <1>2, AncestorsLeast
<1>4. PICK r \in Ancestors[e] : Body[r].parents \cap Ancestors[e] = {}
  BY <1>1, HashingAssumption, AncestorsReflexive, AncestorsType
<1>5. Body[r].parents = {}
  BY <1>1, <1>4, AncestorsClosed DEF Closed
<1>6. r = expected[c]
  BY <1>3, <1>5 DEF OneRoot, IsGenesis
<1> QED
  BY <1>3, <1>6

\* The history of every stored event is stored and starts at the genesis its
\* context was provisioned with.
THEOREM Rooted == Spec => []HistoryRooted
<1> QED
  BY StoreSafety, InvRooted, PTL

----------------------------------------------------------------------------
(***************************************************************************)
(* Action properties.  A context without a row has no authors either, so   *)
(* the operations that write a first policy only add to the author lists.  *)
(***************************************************************************)
AuthorsNeedPolicy == \A c \in ContextId : expected[c] = None => authors[c] = {}

Grows ==
  /\ events \subseteq events' /\ active \subseteq active'
  /\ \A c \in ContextId :
       /\ authors[c] \subseteq authors'[c]
       /\ expected[c] # None => expected'[c] = expected[c]

\* No transaction removes anything.
LEMMA NextGrows == TypeOK /\ AuthorsNeedPolicy /\ [Next]_storeVars => Grows
<1> SUFFICES ASSUME TypeOK, AuthorsNeedPolicy, [Next]_storeVars PROVE Grows
  OBVIOUS
<1>1. ASSUME NEW p \in Provisions, ProvisionContext(p) PROVE Grows
  BY <1>1 DEF ProvisionContext, TypeOK, AuthorsNeedPolicy, Grows
<1>2. ASSUME NEW c \in ContextId, NEW a \in AuthorId, AuthorizeAuthor(c, a)
      PROVE  Grows
  BY <1>2 DEF AuthorizeAuthor, TypeOK, Grows
<1>3. ASSUME NEW g \in EventId, NEW n \in RefName, CreateContext(g, n)
      PROVE  Grows
  BY <1>3 DEF CreateContext, TypeOK, AuthorsNeedPolicy, Grows
<1>4. ASSUME NEW e \in EventId, StoreEvent(e) PROVE Grows
  BY <1>4 DEF StoreEvent, Grows
<1>5. ASSUME NEW p \in PeerName, NEW b \in Bundles, ImportBundle(p, b)
      PROVE  Grows
  BY <1>5 DEF ImportBundle, Grows
<1>6. CASE UNCHANGED <<expected, active, authors, events>>
  BY <1>6 DEF Grows
<1>7. \/ \E p \in Provisions : ProvisionContext(p)
      \/ \E c \in ContextId, a \in AuthorId : AuthorizeAuthor(c, a)
      \/ \E g \in EventId, n \in RefName : CreateContext(g, n)
      \/ \E e \in EventId : StoreEvent(e)
      \/ \E p \in PeerName, b \in Bundles : ImportBundle(p, b)
      \/ UNCHANGED <<expected, active, authors, events>>
  BY DEF Next, storeVars, Admit, AdmitAndMove, CreateBranch, SetRemoteRef,
         ReplaceRemoteRefs
<1> QED
  BY <1>1, <1>2, <1>3, <1>4, <1>5, <1>6, <1>7

\* No transaction lists authors of a context without a row.
LEMMA NextAuthorsNeedPolicy ==
  StoreInv /\ AuthorsNeedPolicy /\ [Next]_storeVars => AuthorsNeedPolicy'
<1> SUFFICES ASSUME StoreInv, AuthorsNeedPolicy, [Next]_storeVars,
                    NEW d \in ContextId, expected'[d] = None
             PROVE  authors'[d] = {}
  BY DEF AuthorsNeedPolicy
<1>0. TypeOK
  BY DEF StoreInv
<1>1. ASSUME NEW p \in Provisions, ProvisionContext(p) PROVE authors'[d] = {}
  BY <1>0, <1>1, ProvisionsAssumption, NoneAssumption
     DEF ProvisionContext, TypeOK, AuthorsNeedPolicy
<1>2. ASSUME NEW c \in ContextId, NEW a \in AuthorId, AuthorizeAuthor(c, a)
      PROVE  authors'[d] = {}
  BY <1>0, <1>2 DEF AuthorizeAuthor, TypeOK, AuthorsNeedPolicy
<1>3. ASSUME NEW g \in EventId, NEW n \in RefName, CreateContext(g, n)
      PROVE  authors'[d] = {}
  BY <1>0, <1>3, NoneAssumption DEF CreateContext, TypeOK, AuthorsNeedPolicy
<1>4. CASE UNCHANGED <<expected, authors>>
  BY <1>4 DEF AuthorsNeedPolicy
<1>5. \/ \E p \in Provisions : ProvisionContext(p)
      \/ \E c \in ContextId, a \in AuthorId : AuthorizeAuthor(c, a)
      \/ \E g \in EventId, n \in RefName : CreateContext(g, n)
      \/ UNCHANGED <<expected, authors>>
  BY DEF Next, storeVars, Admit, AdmitAndMove, StoreEvent, CreateBranch,
         SetRemoteRef, ReplaceRemoteRefs, ImportBundle
<1> QED
  BY <1>1, <1>2, <1>3, <1>4, <1>5

\* Nothing of the append-only tables is ever removed or rewritten: the
\* triggers of store.rs:66-113 never fire on the program's own operations.
THEOREM NothingRemoved == Spec => AppendOnly
<1>1. Init => AuthorsNeedPolicy
  BY DEF Init, AuthorsNeedPolicy
<1>2. StoreInv => TypeOK
  BY DEF StoreInv
<1>3. Spec => []AuthorsNeedPolicy
  BY <1>1, NextAuthorsNeedPolicy, StoreSafety, PTL DEF Spec
<1>4. TypeOK /\ AuthorsNeedPolicy /\ [Next]_storeVars => [Grows]_storeVars
  BY NextGrows
<1> QED
  BY <1>2, <1>3, <1>4, StoreSafety, PTL DEF Spec, AppendOnly, Grows

\* Whatever arrives from a peer moves no local branch, and no operation
\* deletes one.
THEOREM PeersMoveNoBranch == Spec => LocalRefsSafe
<1> DEFINE Safe == \A c \in ContextId, n \in RefName :
             localRef'[c][n] # localRef[c][n]
               => localRef'[c][n] # None /\ UNCHANGED remoteRef
<1>1. ASSUME TypeOK, [Next]_storeVars PROVE Safe
  <2>1. ASSUME NEW c \in ContextId, NEW n \in RefName, NEW e \in EventId,
               MoveRef(c, n, e), UNCHANGED remoteRef
        PROVE  Safe
    BY <1>1, <2>1, NoneAssumption DEF MoveRef, TypeOK, RefSnapshot
  <2>2. CASE UNCHANGED localRef
    BY <2>2
  <2>3. \/ \E c \in ContextId, n \in RefName, e \in EventId :
             MoveRef(c, n, e) /\ UNCHANGED remoteRef
        \/ UNCHANGED localRef
    <3>1. ASSUME NEW g \in EventId, NEW n \in RefName, CreateContext(g, n)
          PROVE  \E c \in ContextId : MoveRef(c, n, g) /\ UNCHANGED remoteRef
      BY <3>1, BodyAssumption DEF CreateContext, MoveRef, EventBody
    <3>2. ASSUME NEW e \in EventId, NEW c \in ContextId, NEW n \in RefName,
                 NEW x \in Optional(EventId), NEW h \in EventId,
                 AdmitAndMove(e, c, n, x, h)
          PROVE  MoveRef(c, n, h) /\ UNCHANGED remoteRef
      BY <3>2 DEF AdmitAndMove, StoreEvent
    <3>3. ASSUME NEW c \in ContextId, NEW n \in RefName, NEW e \in EventId,
                 CreateBranch(c, n, e)
          PROVE  MoveRef(c, n, e) /\ UNCHANGED remoteRef
      BY <3>3 DEF CreateBranch
    <3> QED
      BY <1>1, <3>1, <3>2, <3>3
         DEF Next, storeVars, ProvisionContext, AuthorizeAuthor, Admit,
             SetRemoteRef, ReplaceRemoteRefs, ImportBundle
  <2> HIDE DEF Safe
  <2> QED
    BY <2>1, <2>2, <2>3
<1>2. TypeOK /\ [Next]_storeVars => [Safe]_storeVars
  BY <1>1
<1> QED
  BY <1>2, TypeCorrect, PTL DEF Spec, LocalRefsSafe

----------------------------------------------------------------------------
(***************************************************************************)
(* Full verification.  Tables that are typed and in which the scan finds   *)
(* nothing are sound, whatever produced them: their rows hold the parents  *)
(* of each event, so a history leads down to an event without parents, and *)
(* that one is the genesis its context pins.                               *)
(***************************************************************************)
Row == [context : ContextId, author : AuthorId, kind : Kind, wire : EventId \cup {Unreadable}]

RowsTyped(f) == DOMAIN f \subseteq EventId /\ f \in [DOMAIN f -> Row]

\* What the columns of any store hold, damaged or not.
ColumnsTyped(t) == RowsTyped(t.rows)

\* A category of findings is empty if nothing is found.
LEMMA NothingFound ==
  ASSUME NEW category, NEW S, Finding(category, S) = {}
  PROVE  S = {}
BY DEF Finding

\* The row of an address holds its event.
Holds(t, e) ==
  /\ e \in Decoded(t) /\ Signed(t, e) = Body[e]
  /\ t.rows[e] = RowOf(e) /\ t.rows[e].context = Body[e].context
  /\ t.edges[e] = EdgesOf[e]
  /\ <<Body[e].context, Body[e].author>> \in t.authors

\* A row in which nothing is found holds the event of its address.
LEMMA RowSound ==
  ASSUME NEW t, ColumnsTyped(t), Valid(t), NEW e \in DOMAIN t.rows
  PROVE  Holds(t, e)
<1>1. RowFindings(t) = {} /\ EdgeFindings(t) = {}
  BY DEF Valid
<1>2. /\ DOMAIN t.rows \ Decoded(t) = {}
      /\ {id \in Decoded(t) : t.rows[id].wire # id} = {}
      /\ {id \in Decoded(t) : ~ColumnsMatch(t, id)} = {}
      /\ {id \in Decoded(t) : ~Authorized(t, id)} = {}
  <2>1. /\ Finding("wire", DOMAIN t.rows \ Decoded(t)) = {}
        /\ Finding("identity", {id \in Decoded(t) : t.rows[id].wire # id}) = {}
        /\ Finding("columns", {id \in Decoded(t) : ~ColumnsMatch(t, id)}) = {}
        /\ Finding("authorization", {id \in Decoded(t) : ~Authorized(t, id)}) = {}
    BY <1>1, Zenon DEF RowFindings
  <2> QED
    BY <2>1, NothingFound, Zenon
<1>3. {id \in Decoded(t) : t.edges[id] # EdgesOf[t.rows[id].wire]} = {}
  BY <1>1, NothingFound DEF EdgeFindings
<1>4. e \in Decoded(t) /\ t.rows[e].wire = e /\ ColumnsMatch(t, e) /\ Authorized(t, e)
  BY <1>2
<1>5. t.rows[e] \in Row
  BY DEF ColumnsTyped, RowsTyped
<1>6. t.rows[e] = RowOf(e)
  BY <1>4, <1>5 DEF Row, RowOf, ColumnsMatch, Signed
<1>7. Signed(t, e) = Body[e] /\ t.rows[e].context = Body[e].context
  BY <1>4, <1>6 DEF Signed, RowOf
<1> QED
  BY <1>3, <1>4, <1>6, <1>7 DEF Authorized, Holds

\* Rows in which nothing is found hold the parents of their events, in the
\* same context.
LEMMA ParentsSound ==
  ASSUME NEW t, ColumnsTyped(t), Valid(t), NEW e \in DOMAIN t.rows, NEW p \in Body[e].parents
  PROVE  p \in DOMAIN t.rows /\ Body[p].context = Body[e].context
<1> DEFINE missing == {id \in Decoded(t) : ~(Signed(t, id).parents \subseteq Decoded(t))}
           strange == {id \in Decoded(t) :
                         \E q \in Signed(t, id).parents \cap Decoded(t) :
                           Signed(t, q).context # Signed(t, id).context}
<1>1. Finding("parent missing", missing) = {} /\ Finding("parent context", strange) = {}
  BY DEF Valid, ParentFindings
<1> HIDE DEF missing, strange
<1>2. missing = {} /\ strange = {}
  BY <1>1, NothingFound
<1>3. e \in Decoded(t) /\ Signed(t, e) = Body[e]
  BY RowSound DEF Holds
<1>4. p \in Decoded(t)
  BY <1>2, <1>3 DEF missing
<1>5. p \in DOMAIN t.rows
  BY <1>4 DEF Decoded
<1>6. Signed(t, p) = Body[p]
  BY <1>5, RowSound DEF Holds
<1> QED
  BY <1>2, <1>3, <1>4, <1>5, <1>6 DEF strange

\* A context whose rows hold an event is active and pins the root they have.
LEMMA RootSound ==
  ASSUME NEW t, ColumnsTyped(t), Valid(t), NEW e \in DOMAIN t.rows, Body[e].parents = {}
  PROVE  Body[e].context \in DOMAIN t.contexts /\ t.contexts[Body[e].context].genesis = e
<1> DEFINE c == Body[e].context
<1>1. e \in Decoded(t) /\ Signed(t, e) = Body[e] /\ t.rows[e].context = c
  BY RowSound DEF Holds
<1>2. c \in DOMAIN t.contexts
  BY <1>1 DEF Valid, SchemaFindings, ForeignKeys
<1>3. Misplaced(t) = {}
  BY NothingFound DEF Valid, GenesisFindings
<1>4. t.contexts[c].isActive /\ t.contexts[c].expected = e
  BY <1>1, <1>2, <1>3 DEF Misplaced
<1>5. {d \in DOMAIN t.contexts :
         t.contexts[d].genesis # IF t.contexts[d].isActive THEN t.contexts[d].expected
                                                           ELSE None} = {}
  BY NothingFound DEF Valid, ContextFindings
<1> QED
  BY <1>2, <1>4, <1>5

\* The history of an event in the rows leads to the pinned genesis of its
\* context.
LEMMA RowsRooted ==
  ASSUME NEW t, ColumnsTyped(t), Valid(t), NEW e \in DOMAIN t.rows
  PROVE  /\ Ancestors[e] \subseteq DOMAIN t.rows
         /\ Body[e].context \in DOMAIN t.contexts
         /\ t.contexts[Body[e].context].genesis \in Ancestors[e]
<1> DEFINE Same == {a \in DOMAIN t.rows : Body[a].context = Body[e].context}
<1>1. e \in EventId /\ Same \in SUBSET EventId /\ e \in Same
  BY DEF ColumnsTyped, RowsTyped
<1>2. Closed(Same)
  BY ParentsSound DEF Closed
<1>3. Ancestors[e] \subseteq Same
  BY <1>1, <1>2, AncestorsLeast
<1>4. PICK r \in Ancestors[e] : Body[r].parents \cap Ancestors[e] = {}
  BY <1>1, HashingAssumption, AncestorsReflexive, AncestorsType
<1>5. Body[r].parents = {}
  BY <1>1, <1>4, AncestorsClosed DEF Closed
<1>6. r \in DOMAIN t.rows /\ Body[r].context = Body[e].context
  BY <1>3
<1> QED
  BY <1>3, <1>5, <1>6, RootSound

\* A report without findings means what it is taken to mean, for any tables
\* (verify.rs, Store::verify_full).
THEOREM ValidMeansSound ==
  ASSUME NEW t, ColumnsTyped(t), Valid(t)
  PROVE  Sound(t)
<1>1. ASSUME NEW e \in DOMAIN t.rows
      PROVE  LET c == Body[e].context IN
             /\ t.rows[e] = [context |-> c, author |-> Body[e].author,
                             kind |-> Body[e].kind, wire |-> e]
             /\ t.edges[e] = EdgesOf[e]
             /\ <<c, Body[e].author>> \in t.authors
             /\ Ancestors[e] \subseteq DOMAIN t.rows
             /\ c \in DOMAIN t.contexts /\ t.contexts[c].genesis \in Ancestors[e]
  <2>1. Holds(t, e)
    BY RowSound
  <2> QED
    BY <2>1, RowsRooted DEF RowOf, Holds
<1>2. ASSUME NEW ref \in t.locals \cup t.remotes
      PROVE  ref[2] \in DOMAIN t.rows /\ Body[ref[2]].context = ref[1]
  <2>1. /\ {r \in t.locals : ~Resolves(t, r)} = {}
        /\ {r \in t.remotes : ~Resolves(t, r)} = {}
    BY NothingFound DEF Valid, RefFindings
  <2>2. Resolves(t, ref)
    BY <2>1
  <2>3. ref[2] \in DOMAIN t.rows /\ Signed(t, ref[2]).context = ref[1]
    BY <2>2 DEF Resolves, Decoded
  <2> QED
    BY <2>3, RowSound DEF Holds
<1> QED
  BY <1>1, <1>2 DEF Sound

----------------------------------------------------------------------------
(* Damage *)

\* A record with the columns of a store's tables.
SixTables(t) ==
  t = [contexts |-> t.contexts, authors |-> t.authors, rows |-> t.rows, edges |-> t.edges,
       locals |-> t.locals, remotes |-> t.remotes]

\* The tables the transactions keep are six tables of the right types.
LEMMA TablesTyped == TypeOK => ColumnsTyped(TablesNow) /\ SixTables(TablesNow)
<1> SUFFICES ASSUME TypeOK PROVE ColumnsTyped(TablesNow) /\ SixTables(TablesNow)
  OBVIOUS
<1>0. TablesNow = Tables
  BY DEF TablesNow
<1>1. SixTables(Tables)
  BY DEF SixTables, Tables
<1>2. Tables.rows = [e \in events |-> RowOf(e)]
  BY DEF Tables, RowOf
<1>3. events \subseteq EventId
  BY DEF TypeOK
<1>4. \A e \in events : RowOf(e) \in Row
  BY <1>3, BodyAssumption DEF RowOf, Row, EventBody
<1>5. DOMAIN Tables.rows = events /\ Tables.rows \in [events -> Row]
  BY <1>2, <1>4
<1> QED
  BY <1>0, <1>1, <1>3, <1>5 DEF ColumnsTyped, RowsTyped

\* A row dropped or put at an address leaves typed rows.
LEMMA DropPutTyped ==
  ASSUME NEW f, RowsTyped(f), NEW x \in EventId, NEW row \in Row
  PROVE  RowsTyped(Drop(f, x)) /\ RowsTyped(Put(f, x, row))
BY DEF RowsTyped, Drop, Put

\* However a row is changed, its columns hold what columns can hold.
LEMMA ChangedRowsTyped ==
  ASSUME NEW f, RowsTyped(f), NEW g \in ChangedRows(f)
  PROVE  RowsTyped(g)
<1>1. DOMAIN f \subseteq EventId /\ \A id \in DOMAIN f : f[id] \in Row
  BY DEF RowsTyped
<1>2. ASSUME NEW id \in DOMAIN f, NEW row \in Row, g = [f EXCEPT ![id] = row]
      PROVE  RowsTyped(g)
  BY <1>2 DEF RowsTyped
<1>3. CASE g \in KeyChanges(f, EventId)
  <2>1. CASE g \in {Drop(f, x) : x \in DOMAIN f}
    BY <1>1, <2>1, DropPutTyped
  <2>2. CASE g \in {Put(Drop(f, x), y, f[x]) : x \in DOMAIN f, y \in EventId \ DOMAIN f}
    <3>1. PICK x \in DOMAIN f, y \in EventId : g = Put(Drop(f, x), y, f[x])
      BY <2>2
    <3>2. RowsTyped(Drop(f, x)) /\ f[x] \in Row
      BY <1>1, DropPutTyped
    <3> QED
      BY <3>1, <3>2, DropPutTyped
  <2> QED
    BY <1>3, <2>1, <2>2 DEF KeyChanges
<1>4. CASE g \in {[f EXCEPT ![id].context = c] : id \in DOMAIN f, c \in ContextId}
  <2>1. PICK id \in DOMAIN f, c \in ContextId : g = [f EXCEPT ![id] = [f[id] EXCEPT !.context = c]]
    BY <1>4
  <2>2. [f[id] EXCEPT !.context = c] \in Row
    BY <1>1 DEF Row
  <2> QED
    BY <1>2, <2>1, <2>2
<1>5. CASE g \in {[f EXCEPT ![id].author = a] : id \in DOMAIN f, a \in AuthorId}
  <2>1. PICK id \in DOMAIN f, a \in AuthorId : g = [f EXCEPT ![id] = [f[id] EXCEPT !.author = a]]
    BY <1>5
  <2>2. [f[id] EXCEPT !.author = a] \in Row
    BY <1>1 DEF Row
  <2> QED
    BY <1>2, <2>1, <2>2
<1>6. CASE g \in {[f EXCEPT ![id].kind = k] : id \in DOMAIN f, k \in Kind}
  <2>1. PICK id \in DOMAIN f, k \in Kind : g = [f EXCEPT ![id] = [f[id] EXCEPT !.kind = k]]
    BY <1>6
  <2>2. [f[id] EXCEPT !.kind = k] \in Row
    BY <1>1 DEF Row
  <2> QED
    BY <1>2, <2>1, <2>2
<1>7. CASE g \in {[f EXCEPT ![id].wire = w] : id \in DOMAIN f, w \in EventId \cup {Unreadable}}
  <2>1. PICK id \in DOMAIN f, w \in EventId \cup {Unreadable} :
          g = [f EXCEPT ![id] = [f[id] EXCEPT !.wire = w]]
    BY <1>7
  <2>2. [f[id] EXCEPT !.wire = w] \in Row
    BY <1>1 DEF Row
  <2> QED
    BY <1>2, <2>1, <2>2
<1>8. CASE g \in {Put(f, id, RowOf(w)) : id \in EventId \ DOMAIN f, w \in EventId}
  <2>1. PICK id \in EventId, w \in EventId : g = Put(f, id, RowOf(w))
    BY <1>8
  <2>2. RowOf(w) \in Row
    BY BodyAssumption DEF RowOf, Row, EventBody
  <2> QED
    BY <2>1, <2>2, DropPutTyped
<1> QED
  BY <1>3, <1>4, <1>5, <1>6, <1>7, <1>8 DEF ChangedRows

\* Whatever single row of any table of a store the program wrote is dropped,
\* added or changed in any column, by anything else, the store is still sound
\* or full verification says that it is not.
THEOREM NoDamageMissed == Spec => []DamageFound
<1>1. ASSUME NEW d, ColumnsTyped(d) PROVE Caught(d)
  BY <1>1, ValidMeansSound DEF Caught
<1>2. TypeOK => DamageFound
  <2> SUFFICES ASSUME TypeOK PROVE DamageFound
    OBVIOUS
  <2> DEFINE t == TablesNow
  <2>1. ColumnsTyped(t) /\ SixTables(t)
    BY TablesTyped
  <2> HIDE DEF t
  <2>3. ASSUME NEW f \in ChangedRows(t.rows) PROVE Caught([t EXCEPT !.rows = f])
    <3>1. [t EXCEPT !.rows = f].rows = f
      BY <2>1 DEF SixTables
    <3>2. ColumnsTyped([t EXCEPT !.rows = f])
      BY <2>1, <3>1, ChangedRowsTyped DEF ColumnsTyped
    <3> QED
      BY <1>1, <3>2
  <2>4. ASSUME NEW f PROVE Caught([t EXCEPT !.contexts = f])
    <3>1. [t EXCEPT !.contexts = f].rows = t.rows
      BY <2>1 DEF SixTables
    <3> QED
      BY <1>1, <2>1, <3>1 DEF ColumnsTyped
  <2>5. ASSUME NEW id, NEW S PROVE Caught([t EXCEPT !.edges[id] = S])
    <3>1. [t EXCEPT !.edges[id] = S].rows = t.rows
      BY <2>1 DEF SixTables
    <3> QED
      BY <1>1, <2>1, <3>1 DEF ColumnsTyped
  <2>6. ASSUME NEW id, NEW child, NEW edge
        PROVE  Caught([t EXCEPT !.edges[id] = @ \ {edge}, !.edges[child] = @ \cup {edge}])
    <3>1. [t EXCEPT !.edges[id] = @ \ {edge}, !.edges[child] = @ \cup {edge}].rows = t.rows
      BY <2>1 DEF SixTables
    <3> QED
      BY <1>1, <2>1, <3>1 DEF ColumnsTyped
  <2>7. ASSUME NEW S
        PROVE  /\ Caught([t EXCEPT !.authors = S])
               /\ Caught([t EXCEPT !.locals = S])
               /\ Caught([t EXCEPT !.remotes = S])
    <3>1. /\ [t EXCEPT !.authors = S].rows = t.rows
          /\ [t EXCEPT !.locals = S].rows = t.rows
          /\ [t EXCEPT !.remotes = S].rows = t.rows
      BY <2>1 DEF SixTables
    <3> QED
      BY <1>1, <2>1, <3>1 DEF ColumnsTyped
  <2>8. ASSUME NEW d \in EventChanges(t) PROVE Caught(d)
    <3>1. CASE d \in {[t EXCEPT !.rows = Drop(@, id), !.edges[id] = {}] : id \in DOMAIN t.rows}
      <4>1. PICK id \in DOMAIN t.rows : d = [t EXCEPT !.rows = Drop(@, id), !.edges[id] = {}]
        BY <3>1
      <4>2. d.rows = Drop(t.rows, id) /\ id \in EventId
        BY <2>1, <4>1 DEF SixTables, ColumnsTyped, RowsTyped
      <4>3. RowsTyped(d.rows)
        BY <2>1, <4>2 DEF ColumnsTyped, RowsTyped, Drop
      <4> QED
        BY <1>1, <4>3 DEF ColumnsTyped
    <3>2. CASE d \in {[t EXCEPT !.rows = Put(@, e, RowOf(e)), !.edges[e] = EdgesOf[e]] :
                         e \in EventId \ DOMAIN t.rows}
      <4>1. PICK e \in EventId :
              d = [t EXCEPT !.rows = Put(@, e, RowOf(e)), !.edges[e] = EdgesOf[e]]
        BY <3>2
      <4>2. d.rows = Put(t.rows, e, RowOf(e))
        BY <2>1, <4>1 DEF SixTables
      <4>3. RowOf(e) \in Row
        BY BodyAssumption DEF RowOf, Row, EventBody
      <4> QED
        BY <1>1, <2>1, <4>2, <4>3, DropPutTyped DEF ColumnsTyped
    <3> QED
      BY <3>1, <3>2 DEF EventChanges
  <2> QED
    BY <2>3, <2>4, <2>5, <2>6, <2>7, <2>8, Zenon DEF DamageFound, t
<1> QED
  BY <1>2, TypeCorrect, PTL

----------------------------------------------------------------------------
(* No false alarm *)

\* A context with a row has authors, and only such a context has.
PolicyHasAuthors == \A c \in ContextId : expected[c] # None => authors[c] # {}

\* A policy row is only ever written with authors.
LEMMA NextPolicyHasAuthors ==
  StoreInv /\ PolicyHasAuthors /\ [Next]_storeVars => PolicyHasAuthors'
<1> SUFFICES ASSUME StoreInv, PolicyHasAuthors, [Next]_storeVars,
                    NEW d \in ContextId, expected'[d] # None
             PROVE  authors'[d] # {}
  BY DEF PolicyHasAuthors
<1>0. TypeOK
  BY DEF StoreInv
<1>1. ASSUME NEW p \in Provisions, ProvisionContext(p) PROVE authors'[d] # {}
  BY <1>0, <1>1, ProvisionsAssumption
     DEF ProvisionContext, ValidAuthors, TypeOK, PolicyHasAuthors
<1>2. ASSUME NEW c \in ContextId, NEW a \in AuthorId, AuthorizeAuthor(c, a)
      PROVE  authors'[d] # {}
  BY <1>0, <1>2 DEF AuthorizeAuthor, TypeOK, PolicyHasAuthors
<1>3. ASSUME NEW g \in EventId, NEW n \in RefName, CreateContext(g, n)
      PROVE  authors'[d] # {}
  BY <1>0, <1>3 DEF CreateContext, TypeOK, PolicyHasAuthors
<1>4. CASE UNCHANGED <<expected, authors>>
  BY <1>4 DEF PolicyHasAuthors
<1>5. \/ \E p \in Provisions : ProvisionContext(p)
      \/ \E c \in ContextId, a \in AuthorId : AuthorizeAuthor(c, a)
      \/ \E g \in EventId, n \in RefName : CreateContext(g, n)
      \/ UNCHANGED <<expected, authors>>
  BY DEF Next, storeVars, Admit, AdmitAndMove, StoreEvent, CreateBranch,
         SetRemoteRef, ReplaceRemoteRefs, ImportBundle
<1> QED
  BY <1>1, <1>2, <1>3, <1>4, <1>5

\* What is in the tables of a store the program wrote.
TablesHold(t) ==
  /\ DOMAIN t.rows = events /\ Decoded(t) = events
  /\ \A e \in events : Holds(t, e) /\ t.rows[e].wire = e
  /\ \A e \in EventId \ events : t.edges[e] = {}
  /\ DOMAIN t.edges = EventId
  /\ DOMAIN t.contexts = {c \in ContextId : expected[c] # None}
  /\ \A c \in DOMAIN t.contexts :
       /\ t.contexts[c].expected = expected[c] /\ t.contexts[c].isActive = (c \in active)
       /\ t.contexts[c].genesis = IF c \in active THEN expected[c] ELSE None
  /\ \A c \in ContextId : \A a \in authors[c] : <<c, a>> \in t.authors
  /\ \A pair \in t.authors : pair[1] \in ContextId /\ pair[2] \in authors[pair[1]]
  /\ \A ref \in t.locals \cup t.remotes : StoredIn(ref[2], ref[1])

\* What verification reads in the tables of a sound store.
LEMMA TablesRead == StoreInv => TablesHold(Tables)
<1> SUFFICES ASSUME StoreInv PROVE TablesHold(Tables)
  OBVIOUS
<1> DEFINE t == Tables
<1>0. /\ events \subseteq EventId /\ authors \in [ContextId -> SUBSET AuthorId]
      /\ \A e \in events : Body[e].context \in ContextId /\ Body[e].author \in AuthorId
  BY BodyAssumption DEF StoreInv, TypeOK, EventBody
<1>1. /\ t.rows = [e \in events |-> RowOf(e)]
      /\ t.edges = [e \in EventId |-> IF e \in events THEN EdgesOf[e] ELSE {}]
      /\ t.authors = {pair \in ContextId \X AuthorId : pair[2] \in authors[pair[1]]}
      /\ t.contexts = [c \in {x \in ContextId : expected[x] # None} |->
                         [expected |-> expected[c], isActive |-> c \in active,
                          genesis |-> IF c \in active THEN expected[c] ELSE None]]
      /\ t.locals = {ref \in ContextId \X EventId :
                       \E n \in RefName : localRef[ref[1]][n] = ref[2]}
      /\ t.remotes = {ref \in ContextId \X EventId :
                        \E p \in PeerName, n \in RefName : remoteRef[p][ref[1]][n] = ref[2]}
  BY DEF Tables, RowOf
<1> HIDE DEF t
<1>2. ASSUME NEW e \in events PROVE Holds(t, e) /\ t.rows[e].wire = e
  <2>1. /\ t.rows[e] = RowOf(e) /\ t.edges[e] = EdgesOf[e]
        /\ t.rows[e].wire = e /\ t.rows[e].context = Body[e].context
    BY <1>0, <1>1 DEF RowOf
  <2>2. Body[e].author \in authors[Body[e].context]
    BY DEF StoreInv, AuthorsVetted
  <2>3. e # Unreadable
    BY <1>0, VerificationAssumption
  <2> QED
    BY <1>0, <1>1, <2>1, <2>2, <2>3 DEF Holds, Decoded, Signed
<1>3. Decoded(t) = events /\ DOMAIN t.rows = events
  BY <1>0, <1>1, <1>2, VerificationAssumption DEF Decoded
<1>4. ASSUME NEW ref \in t.locals \cup t.remotes PROVE StoredIn(ref[2], ref[1])
  BY <1>1, NoneAssumption DEF StoreInv, RefsResolve
<1>5. /\ \A c \in ContextId : \A a \in authors[c] : <<c, a>> \in t.authors
      /\ \A pair \in t.authors : pair[1] \in ContextId /\ pair[2] \in authors[pair[1]]
  BY <1>0, <1>1
<1>6. /\ DOMAIN t.contexts = {c \in ContextId : expected[c] # None}
      /\ \A c \in DOMAIN t.contexts :
           /\ t.contexts[c].expected = expected[c] /\ t.contexts[c].isActive = (c \in active)
           /\ t.contexts[c].genesis = IF c \in active THEN expected[c] ELSE None
  BY <1>1
<1>7. DOMAIN t.edges = EventId /\ \A e \in EventId \ events : t.edges[e] = {}
  BY <1>1
<1> QED
  BY <1>2, <1>3, <1>4, <1>5, <1>6, <1>7 DEF TablesHold, t

\* What a row says of its event.
RowFacts(t, id) ==
  /\ t.rows[id].wire = id /\ ColumnsMatch(t, id) /\ Authorized(t, id)
  /\ Signed(t, id) = Body[id] /\ t.edges[id] = EdgesOf[id]

\* What it reads in one row of them.
LEMMA RowsRead ==
  ASSUME NEW t, TablesHold(t), NEW id \in events
  PROVE  RowFacts(t, id)
<1>1. Holds(t, id) /\ t.rows[id].wire = id
  BY DEF TablesHold
<1>2. /\ t.rows[id].context = Body[id].context /\ t.rows[id].author = Body[id].author
      /\ t.rows[id].kind = Body[id].kind
  BY <1>1 DEF Holds, RowOf
<1> QED
  BY <1>1, <1>2 DEF RowFacts, Holds, ColumnsMatch, Authorized

\* The tables agree with each other.
LEMMA SchemaClean ==
  ASSUME StoreInv, PolicyHasAuthors, AuthorsNeedPolicy, NEW t, TablesHold(t)
  PROVE  SchemaFindings(t) = {} /\ ContextFindings(t) = {} /\ AuthorFindings(t) = {}
<1>1. \A e \in events : Body[e].context \in DOMAIN t.contexts
  <2> TAKE e \in events
  <2>1. Body[e].context \in active /\ Body[e].context \in ContextId
    BY BodyAssumption DEF StoreInv, OneRoot, TypeOK, EventBody
  <2>2. expected[Body[e].context] \in EventId
    BY <2>1 DEF StoreInv, OneRoot, TypeOK
  <2> QED
    BY <2>1, <2>2, NoneAssumption DEF TablesHold
<1>2. \A pair \in t.authors : pair[1] \in DOMAIN t.contexts
  BY DEF TablesHold, AuthorsNeedPolicy
<1>3. \A id \in DOMAIN t.rows : t.rows[id].context \in DOMAIN t.contexts
  BY <1>1 DEF TablesHold, Holds
<1>4. ASSUME NEW id \in DOMAIN t.edges, t.edges[id] # {}, NEW edge \in t.edges[id]
      PROVE  id \in DOMAIN t.rows /\ edge[2] \in DOMAIN t.rows
  <2>1. id \in events /\ t.edges[id] = EdgesOf[id] /\ id \in EventId
    BY <1>4 DEF TablesHold, Holds
  <2>2. edge[2] \in Body[id].parents
    BY <1>4, <2>1 DEF EdgesOf
  <2> QED
    BY <2>1, <2>2 DEF StoreInv, AncestryClosed, TablesHold
<1>5. \A ref \in t.locals \cup t.remotes :
        ref[1] \in DOMAIN t.contexts /\ ref[2] \in DOMAIN t.rows
  BY <1>1 DEF TablesHold, StoredIn
<1>6. ForeignKeys(t)
  <2>1. \A id \in DOMAIN t.edges : t.edges[id] # {} =>
          id \in DOMAIN t.rows /\ \A edge \in t.edges[id] : edge[2] \in DOMAIN t.rows
    BY <1>4
  <2> QED
    BY <1>2, <1>3, <1>5, <2>1 DEF ForeignKeys
<1>7. ContextFindings(t) = {}
  <2>1. ASSUME NEW c \in DOMAIN t.contexts
        PROVE  t.contexts[c].genesis = IF t.contexts[c].isActive THEN t.contexts[c].expected
                                                                ELSE None
    <3>1. CASE c \in active
      BY <3>1 DEF TablesHold
    <3>2. CASE c \notin active
      BY <3>2 DEF TablesHold
    <3> QED
      BY <3>1, <3>2
  <2> QED
    BY <2>1 DEF ContextFindings, Finding
<1>8. AuthorFindings(t) = {}
  <2>1. ASSUME NEW c \in DOMAIN t.contexts PROVE \E pair \in t.authors : pair[1] = c
    <3>1. c \in ContextId /\ authors[c] # {}
      BY DEF TablesHold, PolicyHasAuthors
    <3>2. PICK a \in authors[c] : TRUE
      BY <3>1
    <3>3. <<c, a>> \in t.authors /\ <<c, a>>[1] = c
      BY <3>1 DEF TablesHold
    <3> QED
      BY <3>3
  <2> QED
    BY <2>1 DEF AuthorFindings, Finding
<1> QED
  BY <1>6, <1>7, <1>8 DEF SchemaFindings

\* The rows hold what they are addressed by.
LEMMA RowsClean ==
  ASSUME StoreInv, NEW t, TablesHold(t)
  PROVE  RowFindings(t) = {} /\ EdgeFindings(t) = {} /\ ParentFindings(t) = {}
<1>0. events \subseteq EventId
  BY DEF StoreInv, TypeOK
<1>1. \A id \in events : /\ t.rows[id].wire = id /\ ColumnsMatch(t, id) /\ Authorized(t, id)
                         /\ Signed(t, id) = Body[id] /\ t.edges[id] = EdgesOf[id]
  BY RowsRead DEF RowFacts
<1>2. RowFindings(t) = {}
  BY <1>1 DEF RowFindings, Finding, TablesHold
<1>3. EdgeFindings(t) = {}
  BY <1>1 DEF EdgeFindings, Finding, TablesHold
<1>4. ParentFindings(t) = {}
  <2>1. \A id \in events : Signed(t, id).parents \subseteq events
    BY <1>1 DEF StoreInv, AncestryClosed
  <2>2. \A id \in events : \A p \in Signed(t, id).parents \cap events :
          Signed(t, p).context = Signed(t, id).context
    BY <1>1 DEF StoreInv, AncestryClosed
  <2>3. Decoded(t) = events
    BY DEF TablesHold
  <2>4. {id \in Decoded(t) : ~(Signed(t, id).parents \subseteq Decoded(t))} = {}
    BY <2>1, <2>3
  <2>5. {id \in Decoded(t) : \E p \in Signed(t, id).parents \cap Decoded(t) :
                              Signed(t, p).context # Signed(t, id).context} = {}
    BY <2>2, <2>3
  <2>6. Finding("parent missing", {}) = {} /\ Finding("parent context", {}) = {}
    BY DEF Finding
  <2> QED
    BY <2>4, <2>5, <2>6 DEF ParentFindings
<1> QED
  BY <1>2, <1>3, <1>4

\* Each active context has its one root, and no history a cycle.
LEMMA GraphClean ==
  ASSUME StoreInv, NEW t, TablesHold(t)
  PROVE  GenesisFindings(t) = {} /\ CycleFindings(t) = {}
<1>0. events \subseteq EventId
  BY DEF StoreInv, TypeOK
<1>1. \A id \in events : Signed(t, id) = Body[id]
  BY DEF TablesHold, Holds
<1>2. Rootless(t) = {}
  <2> SUFFICES ASSUME NEW c \in DOMAIN t.contexts, t.contexts[c].isActive
               PROVE  LET g == t.contexts[c].expected IN
                      /\ g \in Decoded(t) /\ t.contexts[c].genesis = g
                      /\ Signed(t, g).context = c
                      /\ Signed(t, g).kind = "context.genesis" /\ Signed(t, g).parents = {}
    BY DEF Rootless
  <2>1. c \in active /\ t.contexts[c].expected = expected[c] /\ t.contexts[c].genesis = expected[c]
    BY DEF TablesHold
  <2>2. expected[c] \in events /\ IsGenesis(expected[c], c) /\ Body[expected[c]].context = c
    BY <2>1 DEF StoreInv, OneRoot
  <2> QED
    BY <1>1, <2>1, <2>2 DEF IsGenesis, TablesHold
<1>3. Misplaced(t) = {}
  <2> SUFFICES ASSUME NEW id \in events
               PROVE  LET c == Body[id].context IN
                      /\ ~(c \in DOMAIN t.contexts /\ ~t.contexts[c].isActive)
                      /\ Body[id].parents = {} \/ Body[id].kind = "context.genesis" =>
                           c \in DOMAIN t.contexts /\ t.contexts[c].expected = id
    BY <1>1 DEF Misplaced, TablesHold
  <2> DEFINE c == Body[id].context
  <2>1. c \in active /\ c \in ContextId
    BY <1>0, BodyAssumption DEF StoreInv, OneRoot, EventBody
  <2>2. expected[c] \in EventId
    BY <2>1 DEF StoreInv, OneRoot, TypeOK
  <2>3. c \in DOMAIN t.contexts /\ t.contexts[c].isActive /\ t.contexts[c].expected = expected[c]
    BY <2>1, <2>2, NoneAssumption DEF TablesHold
  <2>4. Body[id].parents = {} \/ Body[id].kind = "context.genesis" => expected[c] = id
    BY DEF StoreInv, OneRoot, IsGenesis
  <2> QED
    BY <2>3, <2>4
<1>4. ~HasCycle(t)
  <2> DEFINE inner == (UNION {Signed(t, id).parents : id \in Decoded(t)}) \cap Decoded(t)
  <2>1. inner \subseteq events
    BY DEF TablesHold
  <2> HIDE DEF inner
  <2>2. ASSUME NEW S \in SUBSET inner, S # {}
        PROVE  \E id \in S : Signed(t, id).parents \cap S = {}
    <3>1. PICK id \in S : Body[id].parents \cap S = {}
      BY <1>0, <2>1, <2>2, HashingAssumption
    <3> QED
      BY <1>1, <2>1, <3>1
  <2> QED
    BY <2>2 DEF HasCycle, inner
<1> QED
  BY <1>2, <1>3, <1>4 DEF GenesisFindings, Finding, CycleFindings

\* The history of a stored event is stored in its context.
LEMMA HistoryOfContext ==
  ASSUME StoreInv, NEW e \in events
  PROVE  \A a \in Ancestors[e] : StoredIn(a, Body[e].context)
<1> DEFINE Same == {a \in events : Body[a].context = Body[e].context}
<1>1. Same \in SUBSET EventId /\ e \in Same
  BY DEF StoreInv, TypeOK
<1>2. Closed(Same)
  BY DEF StoreInv, AncestryClosed, Closed
<1> QED
  BY <1>1, <1>2, AncestorsLeast DEF StoredIn

\* Every ref resolves, and what it stands on loads.
LEMMA RefsClean ==
  ASSUME StoreInv, NEW t, TablesHold(t)
  PROVE  /\ RefFindings(t) = {}
         /\ \A finding \in ProjectionFindings(t) :
              /\ finding[1] = "projection limit"
              /\ Cardinality(Ancestors[finding[2][2]]) > ProjectionEvents
<1>0. events \subseteq EventId
  BY DEF StoreInv, TypeOK
<1>1. \A id \in events : /\ t.rows[id].wire = id /\ ColumnsMatch(t, id)
                         /\ Signed(t, id) = Body[id] /\ t.edges[id] = EdgesOf[id]
  BY RowsRead DEF RowFacts
<1>2. \A ref \in t.locals \cup t.remotes : Resolves(t, ref)
  BY <1>1 DEF Resolves, TablesHold, StoredIn
<1>3. RefFindings(t) = {}
  BY <1>2 DEF RefFindings, Finding
<1>4. ASSUME NEW ref \in t.locals \cup t.remotes, NEW id \in Ancestors[ref[2]]
      PROVE  Loads(t, ref[1], id)
  <2>1. ref[2] \in events /\ Body[ref[2]].context = ref[1]
    BY DEF TablesHold, StoredIn
  <2>2. id \in events /\ Body[id].context = ref[1]
    BY <2>1, HistoryOfContext DEF StoredIn
  <2> QED
    BY <1>1, <2>2 DEF Loads, Validated, TablesHold
<1> DEFINE resolved == {ref \in t.locals \cup t.remotes : Resolves(t, ref)}
           broken == {ref \in resolved : \E id \in Ancestors[ref[2]] : ~Loads(t, ref[1], id)}
<1>5. broken = {}
  BY <1>4
<1>6. ProjectionFindings(t) =
        Finding("event wire", broken)
          \cup Finding("projection limit",
                 {ref \in resolved \ broken : Cardinality(Ancestors[ref[2]]) > ProjectionEvents})
  BY DEF ProjectionFindings
<1> HIDE DEF resolved, broken
<1>7. ASSUME NEW finding \in ProjectionFindings(t)
      PROVE  /\ finding[1] = "projection limit"
             /\ Cardinality(Ancestors[finding[2][2]]) > ProjectionEvents
  <2>1. PICK ref \in resolved : /\ finding = <<"projection limit", ref>>
                                /\ Cardinality(Ancestors[ref[2]]) > ProjectionEvents
    BY <1>5, <1>6 DEF Finding
  <2> QED
    BY <2>1
<1> QED
  BY <1>3, <1>7

\* Whatever the transactions and their callers did, full verification reports
\* nothing but histories over the limit it was given (verify.rs).
THEOREM NoFalseAlarm == Spec => []VerifiesClean
<1>1. Init => AuthorsNeedPolicy /\ PolicyHasAuthors
  BY DEF Init, AuthorsNeedPolicy, PolicyHasAuthors
<1>2. Spec => [](AuthorsNeedPolicy /\ PolicyHasAuthors)
  BY <1>1, NextAuthorsNeedPolicy, NextPolicyHasAuthors, StoreSafety, PTL DEF Spec
<1>3. ASSUME StoreInv, AuthorsNeedPolicy, PolicyHasAuthors PROVE VerifiesClean
  <2>1. TablesHold(Tables)
    BY <1>3, TablesRead
  <2>2. VerifyFull(Tables) = ProjectionFindings(Tables)
    BY <1>3, <2>1, SchemaClean, RowsClean, GraphClean, RefsClean DEF VerifyFull
  <2> QED
    BY <1>3, <2>1, <2>2, RefsClean DEF VerifiesClean
<1> QED
  BY <1>2, <1>3, StoreSafety, PTL
=============================================================================
