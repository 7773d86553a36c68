------------------------------ MODULE PullSync ------------------------------
(***************************************************************************)
(* Pull synchronization (sync.rs PullClient::pull, http.rs get_refs and    *)
(* post_export, store/sync.rs) between a serving store and a client store. *)
(*                                                                         *)
(* A pull takes a snapshot of the server's branches, reads its own known   *)
(* heads, fetches the missing history page by page, imports each page, and *)
(* finally replaces the peer's remote-tracking refs.  Every HTTP request   *)
(* is answered from one read snapshot of the server; between requests the  *)
(* server's branches move and it may import events itself, local writers   *)
(* work on the client, other pulls run, and a pull may die at any step.    *)
(* ContextStore is the client's store, Server another instance of it.      *)
(***************************************************************************)
EXTENDS Projections

CONSTANTS
  Puller,       \* pulls that may run against the same client store
  Peer,         \* the namespace they write
  Ctx, Genesis, \* the context, and the genesis the client pinned
  ClientAuthors,\* the authors the client lists when it joins
  PageEvents,   \* events per page
  MaxPages,     \* PullLimits.max_pages
  MaxKnown,     \* MAX_BUNDLE_REFS: heads one request may name
  MaxAborts     \* bound of the model: pulls that die for outside reasons

ASSUME PullAssumption ==
  /\ Ctx \in ContextId /\ Peer \in PeerName
  /\ Genesis \in EventId /\ Body[Genesis].context = Ctx
  /\ Body[Genesis].kind = "context.genesis" /\ Body[Genesis].parents = {}
  /\ ClientAuthors \subseteq AuthorId /\ ClientAuthors # {}
  /\ PageEvents \in Nat \ {0} /\ MaxPages \in Nat /\ MaxKnown \in Nat
  /\ MaxAborts \in Nat
  /\ None \notin RefSnapshot /\ \A S \in SUBSET EventId : None # S

VARIABLES
  sExpected, sActive, sAuthors, sEvents, sLocalRef, sRemoteRef,
  pull,    \* the state of each pull
  aborts   \* outside failures so far

serverVars == <<sExpected, sActive, sAuthors, sEvents, sLocalRef, sRemoteRef>>
vars == <<storeVars, serverVars, pull, aborts>>

Server == INSTANCE ContextStore WITH
  expected <- sExpected, active <- sActive, authors <- sAuthors,
  events <- sEvents, localRef <- sLocalRef, remoteRef <- sRemoteRef

NoRefs == [n \in RefName |-> None]

\* GET /v1/refs: the branches by name (RefSnapshot).
Published == sLocalRef[Ctx]

\* cursor: None, or the next offset with the plan fingerprint, which here is
\* the only part of the hashed fields that can change between requests.
NoCursor == [offset |-> 0, plan |-> None]

NoPull == [at |-> "idle", refs |-> NoRefs, known |-> {}, cursor |-> NoCursor,
           page |-> << >>, next |-> NoCursor, complete |-> FALSE, pages |-> 0]

----------------------------------------------------------------------------
(* One page: the request, and the server's answer from one snapshot *)

Requested(p) == SnapshotHeads(pull[p].refs)

ExportRequest(p) ==
  [requested |-> Requested(p), known |-> pull[p].known, cursor |-> pull[p].cursor]

EffectiveKnown(r) == {h \in r.known : Server!StoredIn(h, Ctx)}

\* The missing events, in the order of the projection.
Plan(r) == Difference(r.requested, EffectiveKnown(r))

\* Fault: the cursor's fingerprint is not compared.
ContinuesAnyPlan(r) == TRUE

ContinuesPlan(r) == r.cursor.plan \in {None, EffectiveKnown(r)}

\* Answered with pagination_conflict, never with a guess.
PaginationConflict(r) ==
  LET from == r.cursor.offset  length == Len(Plan(r)) IN
  \/ from > length \/ (from = length /\ from # 0)
  \/ ~ContinuesPlan(r)

\* Where the page that starts at an offset ends (ExportPage).
PageEnd(from, plan) ==
  IF from + PageEvents < Len(plan) THEN from + PageEvents ELSE Len(plan)

\* Fault: the page before the last one already counts as complete.
LastPageEarly(end, plan) == end + 1 >= Len(plan)

LastPage(end, plan) == end = Len(plan)

NextCursor(r, end) == [offset |-> end, plan |-> EffectiveKnown(r)]

\* Complete exactly if there is no next cursor.
ExportResponse(r) ==
  LET plan == Plan(r)
      end == PageEnd(r.cursor.offset, plan)
      complete == LastPage(end, plan)
  IN  [page |-> SubSeq(plan, r.cursor.offset + 1, end), complete |-> complete,
       next |-> IF complete THEN NoCursor ELSE NextCursor(r, end)]

----------------------------------------------------------------------------
(* The client *)

GetRefs(p) ==
  /\ pull[p].at = "idle"
  /\ Ctx \in sActive
  /\ pull' = [pull EXCEPT ![p].at = "refs", ![p].refs = Published]
  /\ UNCHANGED <<storeVars, serverVars, aborts>>

\* The known frontier is read in two transactions.
ReadLocalRefs(p) ==
  /\ pull[p].at = "refs"
  /\ pull' = [pull EXCEPT ![p].at = "local",
                          ![p].known = SnapshotHeads(localRef[Ctx])]
  /\ UNCHANGED <<storeVars, serverVars, aborts>>

Known(p) == pull[p].known \cup SnapshotHeads(remoteRef[Peer][Ctx])

ReadRemoteRefs(p) ==
  /\ pull[p].at = "local"
  /\ Cardinality(Known(p)) <= MaxKnown
  /\ pull' = [pull EXCEPT
       ![p].at = IF Requested(p) = {} THEN "transferred" ELSE "export",
       ![p].known = Known(p)]
  /\ UNCHANGED <<storeVars, serverVars, aborts>>

Export(p) ==
  LET answer == ExportResponse(ExportRequest(p)) IN
  /\ pull[p].at = "export"
  /\ pull[p].pages < MaxPages
  /\ ~PaginationConflict(ExportRequest(p))
  /\ pull' = [pull EXCEPT
       ![p].at = "page", ![p].page = answer.page,
       ![p].complete = answer.complete, ![p].next = answer.next]
  /\ UNCHANGED <<storeVars, serverVars, aborts>>

\* The client's own account of the pages: the next one starts where this one
\* ends, further on, in the same plan.
Continues(p) ==
  LET from == pull[p].cursor  next == pull[p].next IN
  pull[p].complete \/ /\ next.offset = from.offset + Len(pull[p].page)
                      /\ next.offset > from.offset
                      /\ from.plan \in {None, next.plan}

PageBundle(p) == [context |-> Ctx, events |-> pull[p].page, refs |-> NoRefs]

\* Fault: the page moves the refs whose heads it completes.
ImportPageWithRefs(p) ==
  LET refs == [n \in RefName |->
                 IF pull[p].refs[n] \in events \cup EventsOf(PageBundle(p))
                 THEN pull[p].refs[n] ELSE None]
  IN  ImportBundle(Peer, [PageBundle(p) EXCEPT !.refs = refs])

ImportPage(p) == ImportBundle(Peer, PageBundle(p))

PageImported(p) ==
  /\ pull[p].at = "page"
  /\ Continues(p)
  /\ ImportPage(p)
  /\ pull' = [pull EXCEPT
       ![p].at = IF pull[p].complete THEN "transferred" ELSE "export",
       ![p].cursor = pull[p].next, ![p].next = NoCursor,
       ![p].page = << >>, ![p].pages = @ + 1]
  /\ UNCHANGED <<serverVars, aborts>>

\* Fault: a later pull continues from the cursor of the one that failed.
RestartFromCursor(p) ==
  pull' = [pull EXCEPT ![p] = [NoPull EXCEPT !.cursor = pull[p].cursor]]

Restart(p) == pull' = [pull EXCEPT ![p] = NoPull]

ReplaceRefs(p) ==
  /\ pull[p].at = "transferred"
  /\ ReplaceRemoteRefs(Peer, Ctx, pull[p].refs)
  /\ Restart(p)
  /\ UNCHANGED <<serverVars, aborts>>

Importable(b) == WellFormedBundle(b) /\ ImportableEvents(b)

PageAccepted(p) == Continues(p) /\ Importable(PageBundle(p))

\* The pull returns an error: a limit, a conflict, or a store that refuses.
PullFails(p) ==
  /\ \/ pull[p].at = "local" /\ Cardinality(Known(p)) > MaxKnown
     \/ pull[p].at = "export" /\ pull[p].pages >= MaxPages
     \/ pull[p].at = "export" /\ PaginationConflict(ExportRequest(p))
     \/ pull[p].at = "page" /\ ~PageAccepted(p)
     \/ pull[p].at = "transferred" /\ Ctx \notin active
  /\ Restart(p)
  /\ UNCHANGED <<storeVars, serverVars, aborts>>

PullStep(p) ==
  \/ GetRefs(p) \/ ReadLocalRefs(p) \/ ReadRemoteRefs(p)
  \/ Export(p) \/ PageImported(p) \/ ReplaceRefs(p) \/ PullFails(p)

\* Lost or late responses, timeouts, crashes of the client or the server.
Abort(p) ==
  /\ pull[p].at # "idle" /\ aborts < MaxAborts
  /\ aborts' = aborts + 1
  /\ Restart(p)
  /\ UNCHANGED <<storeVars, serverVars>>

----------------------------------------------------------------------------
(* What both stores do meanwhile *)

\* Fault: the event need not extend the branch it is put on.
ServerAppendUntied(e, n) ==
  /\ Body[e].context = Ctx
  /\ Server!AdmitAndMove(e, Ctx, n, sLocalRef[Ctx][n], e)

ServerAppend(e, n) == Server!ExtendBranch(Ctx, n, e)

\* The server pulls from the client, or imports its bundle: no branch moves.
ServerReceives(e) ==
  /\ e \in events /\ Body[e].context = Ctx
  /\ Server!Admit(e)

ServerStep ==
  /\ \/ \E e \in EventId, n \in RefName : ServerAppend(e, n)
     \/ \E n \in RefName, e \in EventId : Server!CreateBranch(Ctx, n, e)
     \/ \E e \in EventId : ServerReceives(e)
  /\ UNCHANGED <<storeVars, pull, aborts>>

ClientAppend(e, n) == ExtendBranch(Ctx, n, e)

ClientStep ==
  /\ \/ \E e \in EventId, n \in RefName : ClientAppend(e, n)
     \/ \E n \in RefName, e \in EventId : CreateBranch(Ctx, n, e)
     \/ \E a \in AuthorId : AuthorizeAuthor(Ctx, a)
  /\ UNCHANGED <<serverVars, pull, aborts>>

----------------------------------------------------------------------------
\* The server has created the context on a branch (create_context); the
\* client has pinned the genesis and its authors (join_context).
PullInit ==
  /\ expected = [c \in ContextId |-> IF c = Ctx THEN Genesis ELSE None]
  /\ authors = [c \in ContextId |-> IF c = Ctx THEN ClientAuthors ELSE {}]
  /\ active = {} /\ events = {}
  /\ localRef = [c \in ContextId |-> NoRefs]
  /\ remoteRef = [p \in PeerName |-> [c \in ContextId |-> NoRefs]]
  /\ sExpected = expected
  /\ sAuthors = [c \in ContextId |-> IF c = Ctx THEN AuthorId ELSE {}]
  /\ sActive = {Ctx} /\ sEvents = {Genesis}
  /\ sLocalRef \in {[c \in ContextId |-> IF c = Ctx
                       THEN [NoRefs EXCEPT ![n] = Genesis] ELSE NoRefs] :
                    n \in RefName}
  /\ sRemoteRef = remoteRef
  /\ pull = [p \in Puller |-> NoPull]
  /\ aborts = 0

PullNext ==
  \/ ServerStep
  \/ ClientStep
  \/ \E p \in Puller : PullStep(p) \/ Abort(p)

PullSpec == PullInit /\ [][PullNext]_vars

\* The client pulls again and again and the server answers; nothing is
\* assumed of the writers.
FairPullSpec == PullSpec /\ \A p \in Puller : WF_vars(PullStep(p))

----------------------------------------------------------------------------
(* Properties *)

\* Whatever the server has imported since an earlier page and whatever other
\* pulls have stored on the client, a page whose authors the client lists is
\* accepted: it continues the one before, no parent is skipped, and the
\* genesis comes first
\* (spec-oa-04: any parent omitted from a page is already known or earlier).
PagesImportable ==
  \A p \in Puller :
    /\ pull[p].at = "page"
    /\ \A e \in EventsOf(PageBundle(p)) : Body[e].author \in authors[Ctx]
    => PageAccepted(p)

\* When the last page is in, the whole history of every head of the snapshot
\* is stored, although the server never sent what it believed known.
CompletePull ==
  \A p \in Puller : pull[p].at = "transferred" =>
    \A head \in Requested(p) : Ancestors[head] \subseteq events

Mirror == INSTANCE Tracking WITH
  Snapshots <- RefSnapshot, BranchTables <- RefSnapshot,
  published <- Published, mirror <- remoteRef[Peer][Ctx],
  branches <- localRef[Ctx],
  taken <- [p \in Puller |-> IF pull[p].at = "idle" THEN None ELSE pull[p].refs]

\* Pulling implements tracking: the refs kept for the peer jump from one
\* complete snapshot to another, each the one a running pull took from the
\* peer, never a mixture, and pulls and the client's own branches never move
\* each other.
MirrorsPeer == Mirror!Spec

\* One client pulling from a peer never sees a branch of the peer go back.
MirrorForward == [][
  \A n \in RefName :
    LET old == remoteRef[Peer][Ctx][n]  new == remoteRef'[Peer][Ctx][n]
    IN  old # None => new # None /\ old \in Ancestors[new]]_vars

\* Once the peer's branches are at rest the client catches up, whatever
\* failed before.
Converges == <>[](remoteRef[Peer][Ctx] = Published)
=============================================================================
