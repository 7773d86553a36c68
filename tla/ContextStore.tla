--------------------------- MODULE ContextStore ---------------------------
(***************************************************************************)
(* The transactional event store of contextmesh (src/src/store.rs,         *)
(* store/dag.rs, store/bundle.rs, store/sync.rs): contexts with a pinned   *)
(* genesis and an append-only author list, immutable signed events whose   *)
(* parents are stored first, local branch refs moved by compare-and-swap,  *)
(* and remote-tracking refs kept per peer.                                 *)
(*                                                                         *)
(* Every write runs in one IMMEDIATE transaction behind the store's write  *)
(* gate (Store::write), and an error rolls it back, so each operation is   *)
(* one action and a refused call is a stuttering step.  What a caller does *)
(* between reading and writing is modelled in BranchWriters, Invocation    *)
(* and PullSync, which are built from the operators below.                 *)
(***************************************************************************)
EXTENDS Integers, Sequences, FiniteSets

CONSTANTS
  ContextId,   \* context identifiers
  AuthorId,    \* signing identities
  EventId,     \* content addresses of all signed events that can exist
  RefName,     \* branch names
  PeerName,    \* remote peer namespaces
  Body,        \* EventId -> the signed body the address commits to
  Provisions,  \* the context policies operators may provision
  Bundles,     \* the bundles peers may offer
  None         \* SQL NULL / a ref or context that does not exist

Kind == {"context.genesis", "context.merge", "agent.request",
         "agent.response", "agent.error", "note"}

EventBody == [context : ContextId, author : AuthorId, kind : Kind,
              parents : SUBSET EventId]

Optional(S) == S \cup {None}

RefSnapshot == [RefName -> Optional(EventId)]

(***************************************************************************)
(* An event's address is a hash of its body: the body is a function of the *)
(* address, and an event can only name parents signed before it, so every  *)
(* non-empty set of events has a member with no parent in the set.         *)
(***************************************************************************)
ASSUME BodyAssumption == Body \in [EventId -> EventBody]

ASSUME HashingAssumption ==
  \A S \in SUBSET EventId :
    S # {} => \E e \in S : Body[e].parents \cap S = {}

ASSUME NoneAssumption == None \notin EventId

ASSUME ProvisionsAssumption ==
  Provisions \subseteq [context : ContextId, genesis : EventId,
                        authors : SUBSET AuthorId]

ASSUME BundlesAssumption ==
  Bundles \subseteq [context : ContextId, events : Seq(EventId),
                     refs : RefSnapshot]

VARIABLES
  expected,   \* contexts.expected_genesis_id, None while there is no row
  active,     \* contexts whose row has state = 1
  authors,    \* authorized_authors
  events,     \* events (and, with them, parent_edges)
  localRef,   \* local_refs
  remoteRef   \* remote_refs

storeVars == <<expected, active, authors, events, localRef, remoteRef>>

----------------------------------------------------------------------------
(* Ancestry.  A set of events is closed when it holds the parents of its   *)
(* members; the ancestors of an event (itself included) are the least      *)
(* closed set around it, what Store::project returns for one head.         *)

Closed(S) == \A e \in S : Body[e].parents \subseteq S

Ancestors == [e \in EventId |->
  {a \in EventId : \A S \in SUBSET EventId : e \in S /\ Closed(S) => a \in S}]

----------------------------------------------------------------------------
(* Contexts and authors *)

ValidAuthors(as) == as # {}

\* The insertion provision_context and join_context share: a context that
\* already has a row is compared with the request and never changed.
ProvisionContext(p) ==
  /\ ValidAuthors(p.authors)
  /\ expected[p.context] = None
  /\ expected' = [expected EXCEPT ![p.context] = p.genesis]
  /\ authors' = [authors EXCEPT ![p.context] = p.authors]
  /\ UNCHANGED <<active, events, localRef, remoteRef>>

AuthorizeAuthor(c, a) ==
  /\ expected[c] # None
  /\ authors' = [authors EXCEPT ![c] = @ \cup {a}]
  /\ UNCHANGED <<expected, active, events, localRef, remoteRef>>

\* A fresh random context: its genesis, its first author and its first
\* branch are written in one transaction.
CreateContext(g, n) ==
  LET c == Body[g].context IN
  /\ Body[g].kind = "context.genesis" /\ Body[g].parents = {}
  /\ expected[c] = None
  /\ expected' = [expected EXCEPT ![c] = g]
  /\ active' = active \cup {c}
  /\ authors' = [authors EXCEPT ![c] = {Body[g].author}]
  /\ events' = events \cup {g}
  /\ localRef' = [localRef EXCEPT ![c][n] = g]
  /\ UNCHANGED remoteRef

----------------------------------------------------------------------------
(* Admission *)

IsGenesis(e, c) ==
  e = expected[c] /\ Body[e].kind = "context.genesis" /\ Body[e].parents = {}

\* Fault: the author is not looked up.
AcceptableAnyAuthor(e, c, stored, isActive) ==
  /\ IsGenesis(e, c) \/ (isActive /\ Body[e].parents # {})
  /\ \A p \in Body[e].parents : p \in stored /\ Body[p].context = c

\* Whether event e may enter context c, given the events stored so far and
\* whether the context is active: a pending context takes its pinned genesis
\* and nothing else, an active one takes no second root.
Acceptable(e, c, stored, isActive) ==
  /\ \/ IsGenesis(e, c)
     \/ isActive /\ Body[e].parents # {} /\ Body[e].kind # "context.genesis"
  /\ Body[e].author \in authors[c]
  /\ \A p \in Body[e].parents : p \in stored /\ Body[p].context = c
  /\ isActive /\ IsGenesis(e, c) => e \in stored

Admissible(e) ==
  LET c == Body[e].context
  IN  expected[c] # None /\ Acceptable(e, c, events, c \in active)

\* The rows one accepted event writes: itself, and the activation of its
\* context when it is the pinned genesis of a pending one.
StoreEvent(e) ==
  /\ events' = events \cup {e}
  /\ active' = active \cup {Body[e].context}
  /\ UNCHANGED <<expected, authors, remoteRef>>

\* Faults: the expectation is ignored, or read as "the ref exists".
RefCanMoveBlind(c, n, expect, head) == TRUE

RefCanMoveIfExists(c, n, expect, head) ==
  localRef[c][n] = None <=> expect = None

\* apply_ref_mutation: a ref already at the new head counts as applied
\* whatever was expected, otherwise the expectation must be the current head
\* (None: the ref must not exist).
RefCanMove(c, n, expect, head) == localRef[c][n] \in {head, expect}

\* Fault: the context's other branches are deleted with the moved one.
MoveRefDroppingOthers(c, n, head) ==
  localRef' = [localRef EXCEPT ![c] = [m \in {n} |-> head]]

MoveRef(c, n, head) == localRef' = [localRef EXCEPT ![c][n] = head]

\* Store::admit with RefMutation::None.
Admit(e) ==
  /\ Admissible(e)
  /\ StoreEvent(e)
  /\ UNCHANGED localRef

MutationMatches(e, c, head) == c = Body[e].context /\ head = e

\* Fault: a stale expectation leaves the inserted event in place.
AdmitAndMoveKeepingEvent(e, c, n, expect, head) ==
  /\ MutationMatches(e, c, head)
  /\ Admissible(e)
  /\ StoreEvent(e)
  /\ IF RefCanMove(c, n, expect, head) THEN MoveRef(c, n, head)
                                       ELSE UNCHANGED localRef

\* Store::admit with RefMutation::CompareAndSwap: a stale expectation undoes
\* the insertion too.
AdmitAndMove(e, c, n, expect, head) ==
  /\ MutationMatches(e, c, head)
  /\ Admissible(e)
  /\ RefCanMove(c, n, expect, head)
  /\ StoreEvent(e)
  /\ MoveRef(c, n, head)

\* append or merge on the head that the branch has when the transaction runs.
\* The caller has read a head, and signed on it, before: BranchWriters shows
\* that what it submits either does this or changes nothing.
ExtendBranch(c, n, e) ==
  /\ localRef[c][n] \in Body[e].parents
  /\ AdmitAndMove(e, c, n, localRef[c][n], e)

StaleHead(e, n, expect) ==
  Admissible(e) /\ ~RefCanMove(Body[e].context, n, expect, e)

----------------------------------------------------------------------------
(* Branches and remote-tracking refs *)

StoredIn(e, c) == e \in events /\ Body[e].context = c

CreateBranch(c, n, from) ==
  /\ StoredIn(from, c)
  /\ localRef[c][n] = None
  /\ MoveRef(c, n, from)
  /\ UNCHANGED <<expected, active, authors, events, remoteRef>>

SetRemoteRef(p, c, n, head) ==
  /\ StoredIn(head, c)
  /\ remoteRef' = [remoteRef EXCEPT ![p][c][n] = head]
  /\ UNCHANGED <<expected, active, authors, events, localRef>>

SnapshotHeads(refs) == {refs[n] : n \in RefName} \ {None}

\* Replaces the whole namespace of one peer and context, deletions included.
ReplaceRemoteRefs(p, c, refs) ==
  /\ c \in active
  /\ \A head \in SnapshotHeads(refs) : StoredIn(head, c)
  /\ remoteRef' = [remoteRef EXCEPT ![p][c] = refs]
  /\ UNCHANGED <<expected, active, authors, events, localRef>>

----------------------------------------------------------------------------
(* Bundle import *)

Earlier(es, i) == {es[j] : j \in {k \in DOMAIN es : k < i}}

\* BundleV1::from_parts: distinct events of one context, and a parent that is
\* in the bundle comes before its child.
WellFormedBundle(b) ==
  \A i \in DOMAIN b.events :
    /\ b.events[i] \notin Earlier(b.events, i)
    /\ Body[b.events[i]].context = b.context
    /\ \A j \in DOMAIN b.events :
         b.events[j] \in Body[b.events[i]].parents => j < i

\* Fault: only the first event of the bundle is checked.
ImportableFirstEvent(b) ==
  /\ expected[b.context] # None
  /\ b.events # << >> =>
       Acceptable(b.events[1], b.context, events, b.context \in active)

\* The events are taken in order, each against what the store and the bundle
\* hold before it; a pending context is activated by its first event.
ImportableEvents(b) ==
  /\ expected[b.context] # None
  /\ b.context \notin active /\ b.events # << >> => b.events[1] \notin events
  /\ \A i \in DOMAIN b.events :
       Acceptable(b.events[i], b.context, events \cup Earlier(b.events, i),
                  b.context \in active \/ i > 1)

EventsOf(b) == {b.events[i] : i \in DOMAIN b.events}

ImportedRefs(p, b) ==
  [remoteRef EXCEPT ![p][b.context] =
     [n \in RefName |-> IF b.refs[n] = None THEN remoteRef[p][b.context][n]
                                            ELSE b.refs[n]]]

ImportBundle(p, b) ==
  /\ WellFormedBundle(b)
  /\ ImportableEvents(b)
  /\ events' = events \cup EventsOf(b)
  /\ active' = IF EventsOf(b) = {} THEN active ELSE active \cup {b.context}
  /\ \A head \in SnapshotHeads(b.refs) :
       head \in events' /\ Body[head].context = b.context
  /\ remoteRef' = ImportedRefs(p, b)
  /\ UNCHANGED <<expected, authors, localRef>>

----------------------------------------------------------------------------
Init ==
  /\ expected = [c \in ContextId |-> None]
  /\ active = {}
  /\ authors = [c \in ContextId |-> {}]
  /\ events = {}
  /\ localRef = [c \in ContextId |-> [n \in RefName |-> None]]
  /\ remoteRef = [p \in PeerName |-> [c \in ContextId |->
                                        [n \in RefName |-> None]]]

Next ==
  \/ \E p \in Provisions : ProvisionContext(p)
  \/ \E c \in ContextId, a \in AuthorId : AuthorizeAuthor(c, a)
  \/ \E g \in EventId, n \in RefName : CreateContext(g, n)
  \/ \E e \in EventId : Admit(e)
  \/ \E e \in EventId, c \in ContextId, n \in RefName,
        x \in Optional(EventId), h \in EventId : AdmitAndMove(e, c, n, x, h)
  \/ \E c \in ContextId, n \in RefName, e \in EventId : CreateBranch(c, n, e)
  \/ \E p \in PeerName, c \in ContextId, n \in RefName, e \in EventId :
        SetRemoteRef(p, c, n, e)
  \/ \E p \in PeerName, b \in Bundles : ReplaceRemoteRefs(p, b.context, b.refs)
  \/ \E p \in PeerName, b \in Bundles : ImportBundle(p, b)

Spec == Init /\ [][Next]_storeVars

----------------------------------------------------------------------------
(* Properties *)

\* Every column holds a value of its type.
TypeOK ==
  /\ expected \in [ContextId -> Optional(EventId)]
  /\ active \subseteq ContextId
  /\ authors \in [ContextId -> SUBSET AuthorId]
  /\ events \subseteq EventId
  /\ localRef \in [ContextId -> RefSnapshot]
  /\ remoteRef \in [PeerName -> [ContextId -> RefSnapshot]]

\* Admission and import take an event only after its parents and only into
\* their context (store.rs:330-334, bundle.rs:341), so what is stored is
\* closed under parents and no edge crosses contexts.
AncestryClosed ==
  \A e \in events : \A p \in Body[e].parents :
    p \in events /\ Body[p].context = Body[e].context

\* A context is active exactly when its pinned genesis is stored, and the
\* genesis is the only stored event without parents or of the genesis kind:
\* whichever of admit, create_context and import_bundle activates it.
OneRoot ==
  /\ \A c \in active : expected[c] \in events
  /\ \A e \in events :
       /\ Body[e].context \in active
       /\ Body[e].parents = {} \/ Body[e].kind = "context.genesis"
            => IsGenesis(e, Body[e].context)
  /\ \A c \in active : IsGenesis(expected[c], c) /\ Body[expected[c]].context = c

\* No event of an author outside the context's list is ever stored, whatever
\* bundle or retry brought it (store.rs:329, bundle.rs:340).
AuthorsVetted == \A e \in events : Body[e].author \in authors[Body[e].context]

\* Every local and remote-tracking ref names a stored event of its own
\* context (the check list_local_refs and local_ref fail closed on).
RefsResolve ==
  \A c \in ContextId, n \in RefName :
    /\ localRef[c][n] # None => StoredIn(localRef[c][n], c)
    /\ \A p \in PeerName :
         remoteRef[p][c][n] # None => StoredIn(remoteRef[p][c][n], c)

\* Every stored event descends from the genesis its context was provisioned
\* with, and all of its history is stored: a projection of any stored head
\* terminates at the pinned root and never meets a missing parent.
HistoryRooted ==
  \A e \in events :
    expected[Body[e].context] \in Ancestors[e] /\ Ancestors[e] \subseteq events

\* The triggers of the schema: events, authors and activations are only ever
\* added, and a context's pinned genesis never changes.
AppendOnly == [][
  /\ events \subseteq events' /\ active \subseteq active'
  /\ \A c \in ContextId :
       /\ authors[c] \subseteq authors'[c]
       /\ expected[c] # None => expected'[c] = expected[c]]_storeVars

\* No local branch disappears, and a step that touches what is known of a
\* peer (set_remote_ref, import_bundle, replace_remote_ref_snapshot) moves
\* no local branch (README: remote-tracking refs never move local refs).
LocalRefsSafe == [][
  \A c \in ContextId, n \in RefName :
    localRef'[c][n] # localRef[c][n]
      => localRef'[c][n] # None /\ UNCHANGED remoteRef]_storeVars
=============================================================================
