--------------------------- MODULE PullSyncProofs ---------------------------
(***************************************************************************)
(* Pulling implements Tracking, for any number of pulls, any universe of   *)
(* events and branches and any limits: the mapping sends a pull to the     *)
(* snapshot it carries.                                                    *)
(***************************************************************************)
EXTENDS PullSync, ContextStoreProofs, ListingProofs

\* The stages of a pull.
Stages == {"idle", "refs", "local", "export", "page", "transferred"}

Fields == {"at", "refs", "known", "cursor", "page", "next", "complete", "pages"}

\* What a pull record always is; the plan and the page it carries do not
\* matter to the mapping.
PullShape ==
  /\ pull = [p \in Puller |-> pull[p]]
  /\ \A p \in Puller :
       /\ pull[p] = [f \in Fields |-> pull[p][f]]
       /\ pull[p].at \in Stages /\ pull[p].refs \in RefSnapshot

RefTables ==
  /\ sLocalRef \in [ContextId -> RefSnapshot]
  /\ localRef \in [ContextId -> RefSnapshot]
  /\ remoteRef \in [PeerName -> [ContextId -> RefSnapshot]]

TrackInv == RefTables /\ PullShape

TakenBy == [p \in Puller |-> IF pull[p].at = "idle" THEN None ELSE pull[p].refs]

\* No branch is a snapshot too.
LEMMA NoRefsType == NoRefs \in RefSnapshot
  BY DEF NoRefs, RefSnapshot, Optional

\* A ref table stays one when a branch is moved to an event.
LEMMA MoveType ==
  ASSUME NEW t \in [ContextId -> RefSnapshot], NEW c \in ContextId,
         NEW n \in RefName, NEW e \in EventId
  PROVE  [t EXCEPT ![c][n] = e] \in [ContextId -> RefSnapshot]
  BY DEF RefSnapshot, Optional

\* What changing the stage of one pull does to the records.
LEMMA Moves ==
  ASSUME PullShape, NEW p \in Puller, NEW r,
         r = [f \in Fields |-> r[f]], r.at \in Stages, r.refs \in RefSnapshot,
         pull' = [pull EXCEPT ![p] = r]
  PROVE  /\ PullShape'
         /\ pull'[p] = r
         /\ \A q \in Puller : q # p => pull'[q] = pull[q]
  BY DEF PullShape

\* A pull that restarts gives its snapshot up.
LEMMA RestartTaken ==
  ASSUME PullShape, NEW p \in Puller, Restart(p)
  PROVE  PullShape' /\ TakenBy' = [TakenBy EXCEPT ![p] = None]
<1>1. NoPull = [f \in Fields |-> NoPull[f]]
  BY DEF NoPull, Fields
<1>2. NoPull.at \in Stages /\ NoPull.refs \in RefSnapshot /\ NoPull.at = "idle"
  BY NoRefsType DEF NoPull, Stages
<1>3. /\ PullShape' /\ pull'[p] = NoPull
      /\ \A q \in Puller : q # p => pull'[q] = pull[q]
  BY <1>1, <1>2, Moves DEF Restart
<1>4. QED
  BY <1>2, <1>3 DEF TakenBy

\* Between its snapshot and its end a pull keeps the snapshot.
LEMMA CarriesTaken ==
  ASSUME PullShape, NEW p \in Puller, pull[p].at # "idle",
         NEW r, r = [f \in Fields |-> r[f]], r.refs = pull[p].refs,
         r.at \in Stages \ {"idle"}, pull' = [pull EXCEPT ![p] = r]
  PROVE  PullShape' /\ TakenBy' = TakenBy
<1>1. pull[p].refs \in RefSnapshot /\ r.at \in Stages
  BY DEF PullShape
<1>2. /\ PullShape' /\ pull'[p] = r
      /\ \A q \in Puller : q # p => pull'[q] = pull[q]
  BY <1>1, Moves
<1>3. QED
  BY <1>2 DEF TakenBy

\* Fetching the refs takes the snapshot that is published.
LEMMA FirstTaken ==
  ASSUME TrackInv, NEW p \in Puller, GetRefs(p), Ctx \in ContextId
  PROVE  PullShape' /\ TakenBy' = [TakenBy EXCEPT ![p] = Published]
<1> DEFINE r == [pull[p] EXCEPT !.at = "refs", !.refs = Published]
<1>1. pull' = [pull EXCEPT ![p] = r]
  BY DEF GetRefs, TrackInv, PullShape
<1>2. /\ r = [f \in Fields |-> r[f]] /\ r.at = "refs" /\ r.refs = Published
  BY DEF TrackInv, PullShape, Fields
<1>3. r.at \in Stages /\ r.refs \in RefSnapshot
  BY <1>2 DEF TrackInv, RefTables, Published, Stages
<1> HIDE DEF r
<1>4. /\ PullShape' /\ pull'[p] = r
      /\ \A q \in Puller : q # p => pull'[q] = pull[q]
  BY <1>1, <1>2, <1>3, Moves DEF TrackInv
<1>5. QED
  BY <1>2, <1>4 DEF TakenBy

\* The steps in between.
LEMMA MiddleSteps ==
  ASSUME PullShape, NEW p \in Puller,
         \/ ReadLocalRefs(p) \/ ReadRemoteRefs(p) \/ Export(p) \/ PageImported(p)
  PROVE  PullShape' /\ TakenBy' = TakenBy
<1>0. /\ pull[p] = [f \in Fields |-> pull[p][f]]
      /\ pull = [q \in Puller |-> pull[q]]
  BY DEF PullShape
<1>1. CASE ReadLocalRefs(p)
  <2> DEFINE r == [pull[p] EXCEPT !.at = "local",
                                  !.known = SnapshotHeads(localRef[Ctx])]
  <2>1. /\ pull' = [pull EXCEPT ![p] = r]
        /\ pull[p].at # "idle"
    BY <1>0, <1>1 DEF ReadLocalRefs
  <2>2. /\ r = [f \in Fields |-> r[f]] /\ r.refs = pull[p].refs
        /\ r.at \in Stages \ {"idle"}
    BY <1>0 DEF Fields, Stages
  <2> HIDE DEF r
  <2>3. QED BY <2>1, <2>2, CarriesTaken
<1>2. CASE ReadRemoteRefs(p)
  <2> DEFINE a == IF Requested(p) = {} THEN "transferred" ELSE "export"
             r == [pull[p] EXCEPT !.at = a, !.known = Known(p)]
  <2>1. /\ pull' = [pull EXCEPT ![p] = r]
        /\ pull[p].at # "idle"
    BY <1>0, <1>2 DEF ReadRemoteRefs
  <2>2. /\ r = [f \in Fields |-> r[f]] /\ r.refs = pull[p].refs
        /\ r.at \in Stages \ {"idle"}
    BY <1>0 DEF Fields, Stages
  <2> HIDE DEF r
  <2>3. QED BY <2>1, <2>2, CarriesTaken
<1>3. CASE Export(p)
  <2> DEFINE answer == ExportResponse(ExportRequest(p))
             r == [pull[p] EXCEPT !.at = "page", !.page = answer.page,
                     !.complete = answer.complete, !.next = answer.next]
  <2>0. /\ pull' = [pull EXCEPT ![p].at = "page", ![p].page = answer.page,
                       ![p].complete = answer.complete, ![p].next = answer.next]
        /\ pull[p].at # "idle"
    BY <1>3 DEF Export
  <2> HIDE DEF answer
  <2>1. pull' = [pull EXCEPT ![p] = r]
    BY <1>0, <2>0
  <2>2. /\ r = [f \in Fields |-> r[f]] /\ r.refs = pull[p].refs
        /\ r.at \in Stages \ {"idle"}
    BY <1>0 DEF Fields, Stages
  <2> HIDE DEF r
  <2>3. QED BY <2>0, <2>1, <2>2, CarriesTaken
<1>4. CASE PageImported(p)
  <2> DEFINE a == IF pull[p].complete THEN "transferred" ELSE "export"
             r == [pull[p] EXCEPT !.at = a, !.cursor = pull[p].next,
                     !.next = NoCursor, !.page = << >>, !.pages = @ + 1]
  <2>1. /\ pull' = [pull EXCEPT ![p] = r]
        /\ pull[p].at # "idle"
    BY <1>0, <1>4 DEF PageImported
  <2>2. /\ r = [f \in Fields |-> r[f]] /\ r.refs = pull[p].refs
        /\ r.at \in Stages \ {"idle"}
    BY <1>0 DEF Fields, Stages
  <2> HIDE DEF r
  <2>3. QED BY <2>1, <2>2, CarriesTaken
<1>5. QED BY <1>1, <1>2, <1>3, <1>4

----------------------------------------------------------------------------
(* The ref tables of the two stores *)

Typed(table) == table \in [ContextId -> RefSnapshot]

\* The peer's own work moves branches of the peer only.
LEMMA ServerMoves ==
  ASSUME RefTables, ServerStep
  PROVE  /\ Typed(sLocalRef')
         /\ localRef' = localRef /\ remoteRef' = remoteRef /\ pull' = pull
<1>1. localRef' = localRef /\ remoteRef' = remoteRef /\ pull' = pull
  BY DEF ServerStep, storeVars
<1>2. Typed(sLocalRef) /\ Ctx \in ContextId
  BY PullAssumption DEF RefTables, Typed
<1>3. CASE \E e \in EventId, n \in RefName : ServerAppend(e, n)
  <2>1. PICK e \in EventId, n \in RefName : ServerAppend(e, n)
    BY <1>3
  <2>2. sLocalRef' = [sLocalRef EXCEPT ![Ctx][n] = e]
    BY <2>1 DEF ServerAppend, Server!ExtendBranch, Server!MutationMatches,
           Server!AdmitAndMove, Server!MoveRef
  <2>3. QED
    BY <1>1, <1>2, <2>2, MoveType DEF Typed
<1>4. CASE \E n \in RefName, e \in EventId : Server!CreateBranch(Ctx, n, e)
  <2>1. PICK n \in RefName, e \in EventId : Server!CreateBranch(Ctx, n, e)
    BY <1>4
  <2>2. sLocalRef' = [sLocalRef EXCEPT ![Ctx][n] = e]
    BY <2>1 DEF Server!CreateBranch, Server!MoveRef
  <2>3. QED
    BY <1>1, <1>2, <2>2, MoveType DEF Typed
<1>5. CASE \E e \in EventId : ServerReceives(e)
  <2>1. sLocalRef' = sLocalRef
    BY <1>5 DEF ServerReceives, Server!Admit
  <2>2. QED
    BY <1>1, <1>2, <2>1
<1>6. QED
  BY <1>1, <1>3, <1>4, <1>5 DEF ServerStep

\* Local work moves local branches only.
LEMMA ClientMoves ==
  ASSUME RefTables, ClientStep
  PROVE  /\ Typed(localRef')
         /\ remoteRef' = remoteRef /\ sLocalRef' = sLocalRef /\ pull' = pull
<1>1. sLocalRef' = sLocalRef /\ pull' = pull
  BY DEF ClientStep, serverVars
<1>2. Typed(localRef) /\ Ctx \in ContextId
  BY PullAssumption DEF RefTables, Typed
<1>3. CASE \E e \in EventId, n \in RefName : ClientAppend(e, n)
  <2>1. PICK e \in EventId, n \in RefName : ClientAppend(e, n)
    BY <1>3
  <2>2. localRef' = [localRef EXCEPT ![Ctx][n] = e] /\ remoteRef' = remoteRef
    BY <2>1 DEF ClientAppend, ExtendBranch, MutationMatches, AdmitAndMove, StoreEvent, MoveRef
  <2>3. QED
    BY <1>1, <1>2, <2>2, MoveType DEF Typed
<1>4. CASE \E n \in RefName, e \in EventId : CreateBranch(Ctx, n, e)
  <2>1. PICK n \in RefName, e \in EventId : CreateBranch(Ctx, n, e)
    BY <1>4
  <2>2. localRef' = [localRef EXCEPT ![Ctx][n] = e] /\ remoteRef' = remoteRef
    BY <2>1 DEF CreateBranch, MoveRef
  <2>3. QED
    BY <1>1, <1>2, <2>2, MoveType DEF Typed
<1>5. CASE \E a \in AuthorId : AuthorizeAuthor(Ctx, a)
  <2>1. localRef' = localRef /\ remoteRef' = remoteRef
    BY <1>5 DEF AuthorizeAuthor
  <2>2. QED
    BY <1>1, <1>2, <2>1
<1>6. QED
  BY <1>3, <1>4, <1>5 DEF ClientStep

\* A page carries no refs, so importing it moves none.
LEMMA ImportMovesNoRef ==
  ASSUME RefTables, NEW p \in Puller, PageImported(p)
  PROVE  localRef' = localRef /\ remoteRef' = remoteRef /\ sLocalRef' = sLocalRef
<1> DEFINE b == PageBundle(p)
<1>1. /\ localRef' = localRef /\ sLocalRef' = sLocalRef
      /\ remoteRef' = ImportedRefs(Peer, b)
  BY DEF PageImported, ImportPage, ImportBundle, serverVars
<1>2. b.context = Ctx /\ b.refs = NoRefs
  BY DEF PageBundle
<1>3. Peer \in PeerName /\ Ctx \in ContextId
  BY PullAssumption
<1> HIDE DEF b
<1>4. remoteRef[Peer][Ctx] = [n \in RefName |-> remoteRef[Peer][Ctx][n]]
  BY <1>3 DEF RefTables, RefSnapshot
<1>5. ImportedRefs(Peer, b) = [remoteRef EXCEPT ![Peer][Ctx] = remoteRef[Peer][Ctx]]
  BY <1>2, <1>4 DEF ImportedRefs, NoRefs
<1>6. [remoteRef EXCEPT ![Peer][Ctx] = remoteRef[Peer][Ctx]] = remoteRef
  BY <1>3 DEF RefTables
<1>7. QED
  BY <1>1, <1>5, <1>6

\* The final transaction makes the peer's refs the snapshot of the pull.
LEMMA ReplaceMirrors ==
  ASSUME RefTables, PullShape, NEW p \in Puller, ReplaceRefs(p)
  PROVE  /\ localRef' = localRef /\ sLocalRef' = sLocalRef
         /\ remoteRef' \in [PeerName -> [ContextId -> RefSnapshot]]
         /\ remoteRef'[Peer][Ctx] = pull[p].refs
<1>1. /\ localRef' = localRef /\ sLocalRef' = sLocalRef
      /\ remoteRef' = [remoteRef EXCEPT ![Peer][Ctx] = pull[p].refs]
  BY DEF ReplaceRefs, ReplaceRemoteRefs, serverVars
<1>2. /\ Peer \in PeerName /\ Ctx \in ContextId
      /\ pull[p].refs \in RefSnapshot
  BY PullAssumption DEF PullShape
<1>3. QED
  BY <1>1, <1>2 DEF RefTables

----------------------------------------------------------------------------
(* The refinement *)

\* The initial states map to initial states of Tracking.
LEMMA InitTracks == PullInit => TrackInv /\ Mirror!Init
<1> SUFFICES ASSUME PullInit PROVE TrackInv /\ Mirror!Init
  OBVIOUS
<1>0. NoRefs \in RefSnapshot /\ Genesis \in EventId /\ Ctx \in ContextId
      /\ Peer \in PeerName
  BY NoRefsType, PullAssumption
<1>1. \A n \in RefName : [NoRefs EXCEPT ![n] = Genesis] \in RefSnapshot
  BY <1>0 DEF RefSnapshot, Optional
<1>2. Typed(sLocalRef) /\ Typed(localRef)
  BY <1>0, <1>1 DEF PullInit, Typed
<1>3. remoteRef \in [PeerName -> [ContextId -> RefSnapshot]]
  BY <1>0 DEF PullInit
<1>4. PullShape
  BY <1>0 DEF PullInit, PullShape, NoPull, Fields, Stages
<1>5. TakenBy = [p \in Puller |-> None]
  BY DEF PullInit, TakenBy, NoPull
<1>6. Published \in RefSnapshot /\ localRef[Ctx] \in RefSnapshot
  BY <1>0, <1>2 DEF Published, Typed
<1>7. remoteRef[Peer][Ctx] = NoRefs
  BY <1>0 DEF PullInit
<1>8. Mirror!Init
  BY <1>5, <1>6, <1>7 DEF Mirror!Init, TakenBy
<1>9. QED
  BY <1>2, <1>3, <1>4, <1>8 DEF TrackInv, RefTables, Typed

\* Every step of the pulls, of the peer and of the local writers is a step
\* of tracking or changes nothing that tracking sees.
LEMMA StepTracks ==
  ASSUME TrackInv, [PullNext]_vars
  PROVE  TrackInv' /\ [Mirror!Next]_(Mirror!vars)
<1>0. RefTables /\ PullShape /\ Peer \in PeerName /\ Ctx \in ContextId
  BY PullAssumption DEF TrackInv
<1>1. CASE ServerStep
  <2>1. /\ Typed(sLocalRef')
        /\ localRef' = localRef /\ remoteRef' = remoteRef /\ pull' = pull
    BY <1>0, <1>1, ServerMoves
  <2>2. TrackInv'
    BY <1>0, <2>1 DEF TrackInv, RefTables, PullShape, Typed
  <2>3. Published' \in RefSnapshot
    BY <1>0, <2>1 DEF Published, Typed
  <2>4. Mirror!Publish
    BY <2>1, <2>3 DEF Mirror!Publish
  <2>5. QED
    BY <2>2, <2>4 DEF Mirror!Next
<1>2. CASE ClientStep
  <2>1. /\ Typed(localRef')
        /\ remoteRef' = remoteRef /\ sLocalRef' = sLocalRef /\ pull' = pull
    BY <1>0, <1>2, ClientMoves
  <2>2. TrackInv'
    BY <1>0, <2>1 DEF TrackInv, RefTables, PullShape, Typed
  <2>3. localRef'[Ctx] \in RefSnapshot
    BY <1>0, <2>1 DEF Typed
  <2>4. Mirror!WorkLocally
    BY <2>1, <2>3 DEF Mirror!WorkLocally, Published
  <2>5. QED
    BY <2>2, <2>4 DEF Mirror!Next
<1>3. ASSUME NEW p \in Puller, PullStep(p)
      PROVE  TrackInv' /\ [Mirror!Next]_(Mirror!vars)
  <2>1. CASE GetRefs(p)
    <3>1. PullShape' /\ TakenBy' = [TakenBy EXCEPT ![p] = Published]
      BY <1>0, <2>1, FirstTaken DEF TrackInv
    <3>2. sLocalRef' = sLocalRef /\ localRef' = localRef /\ remoteRef' = remoteRef
      BY <2>1 DEF GetRefs, storeVars, serverVars
    <3>3. TakenBy[p] = None
      BY <2>1 DEF GetRefs, TakenBy
    <3>4. Mirror!Take(p)
      BY <3>1, <3>2, <3>3 DEF Mirror!Take, TakenBy, Published
    <3>5. TrackInv'
      BY <1>0, <3>1, <3>2 DEF TrackInv, RefTables
    <3>6. QED
      BY <3>4, <3>5 DEF Mirror!Next
  <2>2. CASE \/ ReadLocalRefs(p) \/ ReadRemoteRefs(p) \/ Export(p)
             \/ PageImported(p)
    <3>1. PullShape' /\ TakenBy' = TakenBy
      BY <1>0, <2>2, MiddleSteps
    <3>2. sLocalRef' = sLocalRef /\ localRef' = localRef /\ remoteRef' = remoteRef
      BY <1>0, <2>2, ImportMovesNoRef
         DEF ReadLocalRefs, ReadRemoteRefs, Export, storeVars, serverVars
    <3>3. UNCHANGED Mirror!vars
      BY <3>1, <3>2 DEF Mirror!vars, TakenBy, Published
    <3>4. QED
      BY <1>0, <3>1, <3>2, <3>3 DEF TrackInv, RefTables
  <2>3. CASE ReplaceRefs(p)
    <3>1. PullShape' /\ TakenBy' = [TakenBy EXCEPT ![p] = None]
      BY <1>0, <2>3, RestartTaken DEF ReplaceRefs
    <3>2. /\ localRef' = localRef /\ sLocalRef' = sLocalRef
          /\ remoteRef' \in [PeerName -> [ContextId -> RefSnapshot]]
          /\ remoteRef'[Peer][Ctx] = pull[p].refs
      BY <1>0, <2>3, ReplaceMirrors
    <3>3. TakenBy[p] = pull[p].refs /\ TakenBy[p] # None
      BY <1>0, <2>3, PullAssumption DEF ReplaceRefs, TakenBy, PullShape
    <3>4. Mirror!Finish(p)
      BY <3>1, <3>2, <3>3 DEF Mirror!Finish, TakenBy, Published
    <3>5. TrackInv'
      BY <1>0, <3>1, <3>2 DEF TrackInv, RefTables
    <3>6. QED
      BY <3>4, <3>5 DEF Mirror!Next
  <2>4. CASE PullFails(p)
    <3>1. PullShape' /\ TakenBy' = [TakenBy EXCEPT ![p] = None]
      BY <1>0, <2>4, RestartTaken DEF PullFails
    <3>2. sLocalRef' = sLocalRef /\ localRef' = localRef /\ remoteRef' = remoteRef
      BY <2>4 DEF PullFails, storeVars, serverVars
    <3>3. Mirror!GiveUp(p)
      BY <3>1, <3>2 DEF Mirror!GiveUp, TakenBy, Published
    <3>4. QED
      BY <1>0, <3>1, <3>2, <3>3 DEF TrackInv, RefTables, Mirror!Next
  <2>5. QED
    BY <1>3, <2>1, <2>2, <2>3, <2>4 DEF PullStep
<1>4. ASSUME NEW p \in Puller, Abort(p)
      PROVE  TrackInv' /\ [Mirror!Next]_(Mirror!vars)
  <2>1. PullShape' /\ TakenBy' = [TakenBy EXCEPT ![p] = None]
    BY <1>0, <1>4, RestartTaken DEF Abort
  <2>2. sLocalRef' = sLocalRef /\ localRef' = localRef /\ remoteRef' = remoteRef
    BY <1>4 DEF Abort, storeVars, serverVars
  <2>3. Mirror!GiveUp(p)
    BY <2>1, <2>2 DEF Mirror!GiveUp, TakenBy, Published
  <2>4. QED
    BY <1>0, <2>1, <2>2, <2>3 DEF TrackInv, RefTables, Mirror!Next
<1>5. CASE UNCHANGED vars
  <2>1. /\ sLocalRef' = sLocalRef /\ localRef' = localRef
        /\ remoteRef' = remoteRef /\ pull' = pull
    BY <1>5 DEF vars, storeVars, serverVars
  <2>2. TrackInv' /\ UNCHANGED Mirror!vars
    BY <1>0, <2>1 DEF TrackInv, RefTables, PullShape, Mirror!vars, Published
  <2>3. QED
    BY <2>2
<1>6. QED
  BY <1>1, <1>2, <1>3, <1>4, <1>5 DEF PullNext

\* Pulling implements tracking.
THEOREM PullTracks == PullSpec => MirrorsPeer
<1>1. PullInit => TrackInv /\ Mirror!Init
  BY InitTracks
<1>2. TrackInv /\ [PullNext]_vars => TrackInv' /\ [Mirror!Next]_(Mirror!vars)
  BY StepTracks
<1>3. QED
  BY <1>1, <1>2, PTL DEF PullSpec, MirrorsPeer, Mirror!Spec

----------------------------------------------------------------------------
(* The transfer *)

\* A store of the context: closed under parents, and its only root is the
\* genesis.
Connected(S) ==
  /\ S \subseteq {e \in EventId : Body[e].context = Ctx}
  /\ Closed(S)
  /\ \A e \in S : Body[e].parents = {} \/ Body[e].kind = "context.genesis" => e = Genesis

ServerSound ==
  /\ Connected(sEvents) /\ Genesis \in sEvents /\ sExpected[Ctx] = Genesis
  /\ \A n \in RefName : sLocalRef[Ctx][n] \in sEvents \cup {None}

ClientSound ==
  /\ Connected(events) /\ expected[Ctx] = Genesis
  /\ Ctx \in active <=> events # {}
  /\ \A n \in RefName : /\ localRef[Ctx][n] \in events \cup {None}
                        /\ remoteRef[Peer][Ctx][n] \in events \cup {None}

\* The client has the first n events of what a pull is missing beyond K.
HasFirst(p, K, n) ==
  /\ n \in 0..Len(Difference(Requested(p), K))
  /\ \A i \in 1..n : Difference(Requested(p), K)[i] \in events

\* The page a pull carries is the next of the plan K.
CarriesPage(p, K) ==
  LET plan == Difference(Requested(p), K)
      from == pull[p].cursor.offset
      end == PageEnd(from, plan)
  IN  /\ K \in SUBSET pull[p].known /\ pull[p].cursor.plan \in {None, K}
      /\ HasFirst(p, K, from)
      /\ pull[p].page = SubSeq(plan, from + 1, end)
      /\ pull[p].complete = (end = Len(plan))
      /\ pull[p].next = IF end = Len(plan) THEN NoCursor ELSE [offset |-> end, plan |-> K]

\* Where a pull has got to: what it asks for is on the server, what it called
\* known is on the client, and so is what the pages so far held.
Transfer(p) ==
  /\ pull[p].at # "idle" => Requested(p) \subseteq sEvents
  /\ pull[p].at \in {"local", "export", "page"} => pull[p].known \subseteq events
  /\ pull[p].at \in {"idle", "refs", "local"} => pull[p].cursor = NoCursor
  /\ pull[p].at = "export" =>
       \/ pull[p].cursor = NoCursor
       \/ /\ pull[p].cursor.plan \in SUBSET pull[p].known
          /\ HasFirst(p, pull[p].cursor.plan, pull[p].cursor.offset)
  /\ pull[p].at = "page" => \E K \in SUBSET EventId : CarriesPage(p, K)
  /\ pull[p].at = "transferred" =>
       \A head \in Requested(p) : Ancestors[head] \subseteq events

TransferInv == ServerSound /\ ClientSound /\ \A p \in Puller : Transfer(p)

\* A plan: what the requested heads have and the known ones lack, each event
\* once, and everything an event of the plan stands on is known or before it.
HistoryOf(S) == UNION {Ancestors[e] : e \in S}

IsPlan(plan, R, K) ==
  /\ plan \in Seq(EventId)
  /\ \A i \in 1..Len(plan) : plan[i] \in HistoryOf(R) \ HistoryOf(K)
  /\ \A a \in HistoryOf(R) \ HistoryOf(K) : \E i \in 1..Len(plan) : plan[i] = a
  /\ \A i, j \in 1..Len(plan) : plan[i] = plan[j] => i = j
  /\ \A i \in 1..Len(plan) : \A q \in Body[plan[i]].parents :
       q \in HistoryOf(K) \/ \E j \in 1..(i - 1) : plan[j] = q

\* What the server answers with is a plan for the heads asked for and known.
LEMMA DifferenceIsPlan ==
  ASSUME NEW R \in SUBSET EventId, NEW K \in SUBSET EventId
  PROVE  IsPlan(Difference(R, K), R, K)
<1> DEFINE plan == Difference(R, K)
           s == Projected[R]
           P == [e \in EventId |-> Body[e].parents]
<1>1. /\ s \in Seq(EventId) /\ ListedIn(s) = HistoryOf(R)
      /\ \A i, j \in DOMAIN s : s[i] = s[j] => i = j
      /\ \A i \in DOMAIN s : \A q \in Body[s[i]].parents : \E j \in 1..(i - 1) : s[j] = q
  <2>1. s \in Seq(EventId) /\ ListsOnce(s, HistoryOf(R), Parents)
    BY ProjectedAssumption DEF HistoryOf
  <2> HIDE DEF s
  <2>2. \A i \in DOMAIN s : Parents[s[i]] = Body[s[i]].parents
    BY <2>1 DEF Parents
  <2>3. /\ ListedIn(s) = HistoryOf(R)
        /\ \A i, j \in DOMAIN s : s[i] = s[j] => i = j
        /\ \A i \in DOMAIN s : \A q \in Parents[s[i]] : \E j \in 1..(i - 1) : s[j] = q
    BY <2>1 DEF ListsOnce
  <2>4. ASSUME NEW i \in DOMAIN s, NEW q \in Body[s[i]].parents
        PROVE  \E j \in 1..(i - 1) : s[j] = q
    BY <2>2, <2>3
  <2> QED
    BY <2>1, <2>3, <2>4
<1>2. \A e \in EventId : P[e] = Body[e].parents /\ P[e] \subseteq EventId
  BY ParentsAreEvents
<1>3. plan \in Seq(EventId) /\ IsRest(plan, HistoryOf(R), HistoryOf(K), P)
  <2>1. plan = Kept(s, EventId \ HistoryOf(K))
    BY ProjectedAssumption DEF HistoryOf, Difference, ListsOnce
  <2> HIDE DEF plan, s, P
  <2>2. DOMAIN s = 1..Len(s) /\ \A i \in 1..Len(s) : s[i] \in EventId
    BY <1>1
  <2>3. /\ \A i, j \in 1..Len(s) : s[i] = s[j] => i = j
        /\ \A i \in 1..Len(s) : \A q \in P[s[i]] : \E j \in 1..(i - 1) : s[j] = q
        /\ \A e \in EventId : P[e] \subseteq EventId
    BY <1>1, <1>2, <2>2
  <2>4. /\ Kept(s, EventId \ HistoryOf(K)) \in Seq(EventId)
        /\ IsRest(Kept(s, EventId \ HistoryOf(K)), ListedIn(s), HistoryOf(K), P)
    BY <1>1, <2>3, KeptRest
  <2> QED
    BY <1>1, <2>1, <2>4
<1> HIDE DEF plan, s, P
<1>4. \A i \in 1..Len(plan) : P[plan[i]] = Body[plan[i]].parents
  BY <1>2, <1>3
<1>5. IsPlan(plan, R, K)
  BY <1>3, <1>4 DEF IsRest, IsPlan
<1> QED
  BY <1>5 DEF plan

\* What is stored has its history stored, down to the genesis.
LEMMA HistoryIn ==
  ASSUME NEW S, Connected(S), NEW h \in S
  PROVE  Ancestors[h] \subseteq S
BY AncestorsLeast DEF Connected

\* A non-empty part of the context that is closed under parents holds the genesis.
LEMMA GenesisIn ==
  ASSUME NEW S, Connected(S), S # {}
  PROVE  Genesis \in S
<1>1. PICK e \in S : Body[e].parents \cap S = {}
  BY HashingAssumption DEF Connected
<1>2. Body[e].parents = {}
  BY <1>1 DEF Connected, Closed
<1> QED
  BY <1>2 DEF Connected

\* A store stays connected when it takes events with their parents.
LEMMA ConnectedAdd ==
  ASSUME NEW S, Connected(S), NEW new \in SUBSET EventId,
         \A e \in new : /\ Body[e].context = Ctx
                        /\ Body[e].parents \subseteq S \cup new
                        /\ \/ e = Genesis
                           \/ Body[e].parents # {} /\ Body[e].kind # "context.genesis"
  PROVE  Connected(S \cup new)
BY DEF Connected, Closed

\* What one admitted event adds.
LEMMA ConnectedAdmit ==
  ASSUME NEW S, Connected(S), NEW e \in EventId, Body[e].context = Ctx,
         \A p \in Body[e].parents : p \in S,
         \/ e = Genesis
         \/ Body[e].parents # {} /\ Body[e].kind # "context.genesis"
  PROVE  Connected(S \cup {e})
BY ConnectedAdd

----------------------------------------------------------------------------
(* The stores move on *)

\* The server's own work keeps its store sound and takes nothing out.
LEMMA ServerKeeps ==
  ASSUME RefTables, ServerSound, ClientSound, ServerStep
  PROVE  ServerSound' /\ sEvents \subseteq sEvents' /\ UNCHANGED <<storeVars, pull>>
<1>0. UNCHANGED <<storeVars, pull>>
  BY DEF ServerStep
<1>1. sLocalRef[Ctx] \in RefSnapshot /\ Ctx \in ContextId
  BY PullAssumption DEF RefTables
<1>2. ASSUME NEW e \in EventId, Body[e].context = Ctx, Server!Admissible(e),
             Server!StoreEvent(e),
             \/ sLocalRef' = sLocalRef
             \/ \E n \in RefName : sLocalRef' = [sLocalRef EXCEPT ![Ctx][n] = e]
      PROVE  ServerSound' /\ sEvents \subseteq sEvents'
  <2>1. sEvents' = sEvents \cup {e} /\ sExpected' = sExpected
    BY <1>2 DEF Server!StoreEvent
  <2>2. Connected(sEvents \cup {e})
    BY <1>2, ConnectedAdmit
       DEF Server!Admissible, Server!Acceptable, Server!IsGenesis, ServerSound
  <2>3. Connected(sEvents')
    BY <2>1, <2>2
  <2>4. ASSUME NEW m \in RefName PROVE sLocalRef'[Ctx][m] \in sEvents' \cup {None}
    <3>1. sLocalRef[Ctx][m] \in sEvents' \cup {None}
      BY <2>1 DEF ServerSound
    <3>2. sLocalRef'[Ctx][m] \in {sLocalRef[Ctx][m], e}
      <4>1. CASE sLocalRef' = sLocalRef
        BY <4>1
      <4>2. ASSUME NEW n \in RefName, sLocalRef' = [sLocalRef EXCEPT ![Ctx][n] = e]
            PROVE  sLocalRef'[Ctx][m] \in {sLocalRef[Ctx][m], e}
        BY <1>1, <4>2 DEF RefTables, RefSnapshot
      <4> QED
        BY <1>2, <4>1, <4>2
    <3> QED
      BY <2>1, <3>1, <3>2
  <2> QED
    BY <2>1, <2>3, <2>4 DEF ServerSound
<1>3. CASE \E e \in EventId, n \in RefName : ServerAppend(e, n)
  <2>1. PICK e \in EventId, n \in RefName : ServerAppend(e, n)
    BY <1>3
  <2> QED
    BY <1>0, <1>2, <2>1 DEF ServerAppend, Server!ExtendBranch, Server!MutationMatches,
           Server!AdmitAndMove, Server!MoveRef
<1>4. CASE \E n \in RefName, e \in EventId : Server!CreateBranch(Ctx, n, e)
  <2>1. PICK n \in RefName, e \in EventId : Server!CreateBranch(Ctx, n, e)
    BY <1>4
  <2>2. /\ sLocalRef' = [sLocalRef EXCEPT ![Ctx][n] = e] /\ e \in sEvents
        /\ sEvents' = sEvents /\ sExpected' = sExpected
    BY <2>1 DEF Server!CreateBranch, Server!MoveRef, Server!StoredIn
  <2>3. \A m \in RefName : sLocalRef'[Ctx][m] \in sEvents' \cup {None}
    BY <1>1, <2>2 DEF ServerSound, RefTables, RefSnapshot
  <2> QED
    BY <1>0, <2>2, <2>3 DEF ServerSound, Connected
<1>5. CASE \E e \in EventId : ServerReceives(e)
  <2>1. PICK e \in EventId : ServerReceives(e)
    BY <1>5
  <2> QED
    BY <1>0, <1>2, <2>1 DEF ServerReceives, Server!Admit
<1> QED
  BY <1>3, <1>4, <1>5 DEF ServerStep

\* So does the work of the client's own writers.
LEMMA ClientKeeps ==
  ASSUME RefTables, ClientSound, ClientStep
  PROVE  ClientSound' /\ events \subseteq events' /\ UNCHANGED <<serverVars, pull>>
<1>0. UNCHANGED <<serverVars, pull>>
  BY DEF ClientStep
<1>1. /\ localRef[Ctx] \in RefSnapshot /\ remoteRef[Peer][Ctx] \in RefSnapshot
      /\ Ctx \in ContextId /\ Peer \in PeerName
  BY PullAssumption DEF RefTables
<1>2. CASE \E e \in EventId, n \in RefName : ClientAppend(e, n)
  <2>1. PICK e \in EventId, n \in RefName : ClientAppend(e, n)
    BY <1>2
  <2>2. /\ events' = events \cup {e} /\ expected' = expected /\ remoteRef' = remoteRef
        /\ active' = active \cup {Ctx} /\ localRef' = [localRef EXCEPT ![Ctx][n] = e]
    BY <2>1 DEF ClientAppend, ExtendBranch, MutationMatches, AdmitAndMove, StoreEvent, MoveRef
  <2>3. Connected(events \cup {e})
    BY <2>1, ConnectedAdmit
       DEF ClientAppend, ExtendBranch, MutationMatches, AdmitAndMove, Admissible, Acceptable, IsGenesis, ClientSound
  <2>4. Connected(events')
    BY <2>2, <2>3
  <2>5. \A m \in RefName : localRef'[Ctx][m] \in events' \cup {None}
    BY <1>1, <2>2 DEF ClientSound, RefTables, RefSnapshot
  <2>6. \A m \in RefName : remoteRef'[Peer][Ctx][m] \in events' \cup {None}
    BY <2>2 DEF ClientSound
  <2>7. Ctx \in active' /\ events' # {} /\ expected'[Ctx] = Genesis
    BY <2>2 DEF ClientSound
  <2> QED
    BY <1>0, <2>2, <2>4, <2>5, <2>6, <2>7 DEF ClientSound
<1>3. CASE \E n \in RefName, e \in EventId : CreateBranch(Ctx, n, e)
  <2>1. PICK n \in RefName, e \in EventId : CreateBranch(Ctx, n, e)
    BY <1>3
  <2>2. /\ localRef' = [localRef EXCEPT ![Ctx][n] = e] /\ e \in events
        /\ UNCHANGED <<expected, active, events, remoteRef>>
    BY <2>1 DEF CreateBranch, MoveRef, StoredIn
  <2>3. \A m \in RefName : localRef'[Ctx][m] \in events' \cup {None}
    BY <1>1, <2>2 DEF ClientSound, RefTables, RefSnapshot
  <2> QED
    BY <1>0, <2>2, <2>3 DEF ClientSound, Connected
<1>4. CASE \E a \in AuthorId : AuthorizeAuthor(Ctx, a)
  <2>1. UNCHANGED <<expected, active, events, localRef, remoteRef>>
    BY <1>4 DEF AuthorizeAuthor
  <2> QED
    BY <1>0, <2>1 DEF ClientSound, Connected
<1> QED
  BY <1>2, <1>3, <1>4 DEF ClientStep

\* Replacing the peer's refs names stored events only.
LEMMA ReplaceKeeps ==
  ASSUME RefTables, PullShape, ClientSound, NEW p \in Puller, ReplaceRefs(p)
  PROVE  ClientSound' /\ UNCHANGED <<events, serverVars>>
<1>1. /\ UNCHANGED <<expected, active, events, localRef, serverVars>>
      /\ remoteRef' = [remoteRef EXCEPT ![Peer][Ctx] = pull[p].refs]
      /\ \A head \in SnapshotHeads(pull[p].refs) : head \in events
  BY DEF ReplaceRefs, ReplaceRemoteRefs, StoredIn
<1>2. Ctx \in ContextId /\ Peer \in PeerName
  BY PullAssumption
<1>3. remoteRef'[Peer][Ctx] = pull[p].refs
  BY <1>1, <1>2 DEF RefTables
<1>4. \A n \in RefName : remoteRef'[Peer][Ctx][n] \in events' \cup {None}
  BY <1>1, <1>3 DEF SnapshotHeads
<1> QED
  BY <1>1, <1>4 DEF ClientSound, Connected

\* Importing a page keeps the client's store sound and adds the page.
LEMMA ImportKeeps ==
  ASSUME RefTables, ClientSound, NEW p \in Puller, PageImported(p),
         pull[p].page \in Seq(EventId)
  PROVE  /\ ClientSound' /\ events \subseteq events' /\ UNCHANGED serverVars
         /\ \A i \in 1..Len(pull[p].page) : pull[p].page[i] \in events'
<1> DEFINE b == PageBundle(p)
           new == EventsOf(b)
<1>1. /\ WellFormedBundle(b) /\ ImportableEvents(b) /\ events' = events \cup new
      /\ active' = IF new = {} THEN active ELSE active \cup {b.context}
      /\ UNCHANGED <<expected, serverVars>>
  BY DEF PageImported, ImportPage, ImportBundle
<1>2. b.context = Ctx /\ b.events = pull[p].page
  BY DEF PageBundle
<1>3. DOMAIN b.events = 1..Len(pull[p].page)
  BY <1>2
<1> HIDE DEF b
<1>4. new \in SUBSET EventId /\ \A i \in 1..Len(pull[p].page) : pull[p].page[i] \in new
  BY <1>2, <1>3 DEF EventsOf
<1>5. ASSUME NEW e \in new
      PROVE  /\ Body[e].context = Ctx /\ Body[e].parents \subseteq events \cup new
             /\ \/ e = Genesis
                \/ Body[e].parents # {} /\ Body[e].kind # "context.genesis"
  <2>1. PICK i \in DOMAIN b.events : e = b.events[i]
    BY DEF EventsOf
  <2>2. Acceptable(e, Ctx, events \cup Earlier(b.events, i), Ctx \in active \/ i > 1)
    BY <1>1, <1>2, <2>1 DEF ImportableEvents
  <2>3. Earlier(b.events, i) \subseteq new
    BY DEF Earlier, EventsOf
  <2>4. Body[e].context = Ctx
    BY <1>1, <1>2, <2>1 DEF WellFormedBundle
  <2> QED
    BY <2>2, <2>3, <2>4 DEF Acceptable, IsGenesis, ClientSound
<1> HIDE DEF new
<1>6. Connected(events \cup new)
  BY <1>4, <1>5, ConnectedAdd DEF ClientSound
<1>7. Connected(events')
  BY <1>1, <1>6
<1>8. Ctx \in active' <=> events' # {}
  BY <1>1, <1>2 DEF ClientSound
<1>9. UNCHANGED <<localRef, remoteRef>>
  BY ImportMovesNoRef
<1> QED
  BY <1>1, <1>4, <1>7, <1>8, <1>9 DEF ClientSound

----------------------------------------------------------------------------
(* One pull *)

\* The plan a pull works on, as a list.
LEMMA RequestedType ==
  ASSUME PullShape, NEW p \in Puller
  PROVE  Requested(p) \in SUBSET EventId
BY DEF PullShape, Requested, SnapshotHeads, RefSnapshot, Optional

\* A pull that does not move stays where it is while the stores grow.
LEMMA Stays ==
  ASSUME NEW p \in Puller, Transfer(p), pull'[p] = pull[p],
         events \subseteq events', sEvents \subseteq sEvents'
  PROVE  Transfer(p)'
<1>1. Requested(p)' = Requested(p)
  BY DEF Requested
<1>2. pull[p].at # "idle" => Requested(p) \subseteq sEvents'
  BY DEF Transfer
<1>3. pull[p].at \in {"local", "export", "page"} => pull[p].known \subseteq events'
  BY DEF Transfer
<1>4. \A K, n : HasFirst(p, K, n) => HasFirst(p, K, n)'
  BY <1>1 DEF HasFirst
<1>5. \A K : CarriesPage(p, K) => CarriesPage(p, K)'
  BY <1>1, <1>4 DEF CarriesPage
<1>6. pull[p].at = "transferred" =>
        \A head \in Requested(p) : Ancestors[head] \subseteq events'
  BY DEF Transfer
<1>7. pull[p].at \in {"idle", "refs", "local"} => pull[p].cursor = NoCursor
  BY DEF Transfer
<1>8. pull[p].at = "export" =>
        \/ pull[p].cursor = NoCursor
        \/ /\ pull[p].cursor.plan \in SUBSET pull[p].known
           /\ HasFirst(p, pull[p].cursor.plan, pull[p].cursor.offset)
  BY DEF Transfer
<1>9. pull[p].at = "page" => \E K \in SUBSET EventId : CarriesPage(p, K)
  BY DEF Transfer
<1>10. (pull[p].at = "export" =>
        \/ pull[p].cursor = NoCursor
        \/ /\ pull[p].cursor.plan \in SUBSET pull[p].known
           /\ HasFirst(p, pull[p].cursor.plan, pull[p].cursor.offset))'
  <2> SUFFICES ASSUME pull[p].at = "export", pull[p].cursor # NoCursor
               PROVE  /\ pull[p].cursor.plan \in SUBSET pull[p].known
                      /\ HasFirst(p, pull[p].cursor.plan, pull[p].cursor.offset)'
    BY DEF NoCursor
  <2> QED
    BY <1>1, <1>8 DEF HasFirst
<1> QED
  BY <1>1, <1>2, <1>3, <1>5, <1>6, <1>7, <1>9, <1>10 DEF Transfer, NoCursor

\* A pull that is over carries nothing.
LEMMA Ended ==
  ASSUME NEW p \in Puller, pull'[p] = NoPull
  PROVE  Transfer(p)'
BY DEF Transfer, NoPull

\* The cut of a plan into pages.
LEMMA PageCut ==
  ASSUME NEW plan \in Seq(EventId), NEW from \in 0..Len(plan)
  PROVE  LET end == PageEnd(from, plan)
             page == SubSeq(plan, from + 1, end)
         IN  /\ end \in from..Len(plan)
             /\ end # Len(plan) => end = from + PageEvents
             /\ page \in Seq(EventId) /\ Len(page) = end - from
             /\ \A i \in 1..Len(page) : page[i] = plan[from + i]
<1> DEFINE end == PageEnd(from, plan)  page == SubSeq(plan, from + 1, end)
<1>0. Len(plan) \in Nat /\ from \in Nat /\ PageEvents \in Nat \ {0}
  BY PullAssumption
<1>1. end \in from..Len(plan) /\ (end # Len(plan) => end = from + PageEvents)
  BY <1>0 DEF PageEnd
<1> HIDE DEF end
<1>2. /\ page \in Seq(EventId) /\ Len(page) = end - from
      /\ \A i \in 1..Len(page) : page[i] = plan[from + i]
  <2>1. from + 1 \in 1..(Len(plan) + 1) /\ end \in from..Len(plan) /\ end \in Int
    BY <1>0, <1>1
  <2>2. ASSUME NEW i \in (from + 1)..end PROVE plan[i] \in EventId
    BY <1>0, <2>1
  <2>3. page = [i \in 1..(end - from) |-> plan[from + i]]
    BY <1>0, <2>1
  <2> HIDE DEF page
  <2>4. ASSUME NEW i \in 1..(end - from) PROVE plan[from + i] \in EventId
    BY <1>0, <2>1, <2>2
  <2>5. end - from \in Nat
    BY <1>0, <2>1
  <2> QED
    BY <2>3, <2>4, <2>5
<1> HIDE DEF page
<1> QED
  BY <1>1, <1>2 DEF end, page

\* The first steps of a pull: what it asks for is on the server, what it
\* calls known is stored.
LEMMA StartKeeps ==
  ASSUME PullShape, ServerSound, ClientSound, NEW p \in Puller, Transfer(p),
         GetRefs(p) \/ ReadLocalRefs(p) \/ ReadRemoteRefs(p)
  PROVE  Transfer(p)'
<1>0. /\ pull = [q \in Puller |-> pull[q]] /\ pull[p] = [f \in Fields |-> pull[p][f]]
      /\ UNCHANGED <<storeVars, serverVars>>
  BY DEF PullShape, GetRefs, ReadLocalRefs, ReadRemoteRefs
<1>1. CASE GetRefs(p)
  <2>1. /\ pull'[p].at = "refs" /\ pull'[p].refs = Published /\ pull[p].at = "idle"
        /\ pull'[p].cursor = pull[p].cursor
    BY <1>0, <1>1 DEF GetRefs, Fields
  <2>2. SnapshotHeads(Published) \subseteq sEvents
    BY DEF SnapshotHeads, Published, ServerSound
  <2>3. Requested(p)' \subseteq sEvents'
    BY <1>0, <2>1, <2>2 DEF Requested, serverVars
  <2>4. pull'[p].cursor = NoCursor
    BY <2>1 DEF Transfer
  <2> QED
    BY <2>1, <2>3, <2>4 DEF Transfer, NoCursor
<1>2. CASE ReadLocalRefs(p)
  <2>1. /\ pull'[p].at = "local" /\ pull'[p].refs = pull[p].refs /\ pull[p].at = "refs"
        /\ pull'[p].cursor = pull[p].cursor
        /\ pull'[p].known = SnapshotHeads(localRef[Ctx])
    BY <1>0, <1>2 DEF ReadLocalRefs, Fields
  <2>2. SnapshotHeads(localRef[Ctx]) \subseteq events
    BY DEF SnapshotHeads, ClientSound
  <2>3. Requested(p)' \subseteq sEvents' /\ pull'[p].known \subseteq events'
    BY <1>0, <2>1, <2>2 DEF Requested, Transfer, serverVars, storeVars
  <2>4. pull'[p].cursor = NoCursor
    BY <2>1 DEF Transfer
  <2> QED
    BY <2>1, <2>3, <2>4 DEF Transfer, NoCursor
<1>3. CASE ReadRemoteRefs(p)
  <2>1. /\ pull'[p].at = IF Requested(p) = {} THEN "transferred" ELSE "export"
        /\ pull'[p].refs = pull[p].refs /\ pull[p].at = "local"
        /\ pull'[p].cursor = pull[p].cursor /\ pull'[p].known = Known(p)
    BY <1>0, <1>3 DEF ReadRemoteRefs, Fields
  <2>2. Known(p) \subseteq events
    BY <2>1 DEF SnapshotHeads, ClientSound, Known, Transfer
  <2>3. Requested(p)' = Requested(p)
    BY <2>1 DEF Requested
  <2>4. Requested(p)' \subseteq sEvents' /\ pull'[p].known \subseteq events'
    BY <1>0, <2>1, <2>2, <2>3 DEF Transfer, serverVars, storeVars
  <2>5. pull'[p].cursor = NoCursor
    BY <2>1 DEF Transfer
  <2> QED
    BY <2>1, <2>3, <2>4, <2>5 DEF Transfer, NoCursor
<1> QED
  BY <1>1, <1>2, <1>3

\* The server's answer is the next page of one plan.
LEMMA ExportKeeps ==
  ASSUME PullShape, ClientSound, NEW p \in Puller, Transfer(p), Export(p)
  PROVE  Transfer(p)'
<1> DEFINE r == ExportRequest(p)
           K == EffectiveKnown(r)
           plan == Difference(Requested(p), K)
           from == pull[p].cursor.offset
           end == PageEnd(from, plan)
<1>0. /\ pull = [q \in Puller |-> pull[q]] /\ pull[p] = [f \in Fields |-> pull[p][f]]
      /\ UNCHANGED <<storeVars, serverVars>>
  BY DEF PullShape, Export
<1>1. /\ r.requested = Requested(p) /\ r.known = pull[p].known /\ r.cursor = pull[p].cursor
  BY DEF ExportRequest
<1>2. pull[p].at = "export" /\ ~PaginationConflict(r)
  BY DEF Export
<1>3. /\ ExportResponse(r).page = SubSeq(plan, from + 1, end)
      /\ ExportResponse(r).complete = (end = Len(plan))
      /\ ExportResponse(r).next = IF end = Len(plan) THEN NoCursor
                                  ELSE [offset |-> end, plan |-> K]
  BY <1>1 DEF ExportResponse, Plan, LastPage, NextCursor
<1>4. /\ pull'[p].at = "page" /\ pull'[p].page = SubSeq(plan, from + 1, end)
      /\ pull'[p].complete = (end = Len(plan))
      /\ pull'[p].next = IF end = Len(plan) THEN NoCursor
                         ELSE [offset |-> end, plan |-> K]
      /\ pull'[p].refs = pull[p].refs /\ pull'[p].known = pull[p].known
      /\ pull'[p].cursor = pull[p].cursor
  BY <1>0, <1>3 DEF Export, Fields
<1>5. K \in SUBSET pull[p].known
  BY <1>1 DEF EffectiveKnown
<1>6. pull[p].known \in SUBSET EventId
  BY <1>2 DEF Transfer, ClientSound, Connected
<1>7. pull[p].cursor.plan \in {None, K}
  BY <1>1, <1>2 DEF PaginationConflict, ContinuesPlan
<1> HIDE DEF r, K
<1>8. HasFirst(p, K, from)
  <2>1. CASE pull[p].cursor = NoCursor
    <3>1. from = 0 /\ plan \in Seq(EventId)
      <4>1. Requested(p) \in SUBSET EventId /\ K \in SUBSET EventId
        BY <1>5, <1>6, RequestedType
      <4> QED
        BY <2>1, <4>1, DifferenceIsPlan DEF NoCursor, IsPlan
    <3> QED
      BY <3>1 DEF HasFirst
  <2>2. CASE pull[p].cursor # NoCursor
    <3>1. /\ pull[p].cursor.plan \in SUBSET pull[p].known
          /\ HasFirst(p, pull[p].cursor.plan, from)
      BY <1>2, <2>2 DEF Transfer
    <3>2. pull[p].cursor.plan # None
      BY <1>6, <3>1, PullAssumption
    <3> QED
      BY <1>7, <3>1, <3>2
  <2> QED
    BY <2>1, <2>2
<1>9. Requested(p)' = Requested(p) /\ events' = events /\ sEvents' = sEvents
  BY <1>0, <1>4 DEF Requested, storeVars, serverVars
<1>10. (\E J \in SUBSET EventId : CarriesPage(p, J))'
  <2>1. HasFirst(p, K, from) /\ Requested(p)' = Requested(p) /\ events' = events
    BY <1>8, <1>9
  <2>2. PICK J \in SUBSET EventId : J = K
    BY <1>5, <1>6
  <2> HIDE DEF plan, from, end
  <2>3. HasFirst(p, J, pull[p].cursor.offset)'
    BY <1>4, <2>1, <2>2 DEF HasFirst, from
  <2>4. CarriesPage(p, J)'
    BY <1>4, <1>5, <1>7, <1>9, <2>2, <2>3 DEF CarriesPage, plan, from, end
  <2> QED
    BY <2>4
<1> QED
  BY <1>2, <1>4, <1>9, <1>10 DEF Transfer

\* Importing the page brings the transfer one page further, or ends it.
LEMMA PageKeeps ==
  ASSUME RefTables, PullShape, ClientSound, NEW p \in Puller, Transfer(p),
         PageImported(p)
  PROVE  /\ Transfer(p)' /\ ClientSound' /\ events \subseteq events'
         /\ UNCHANGED serverVars
<1> DEFINE page == pull[p].page  next == pull[p].next  from == pull[p].cursor.offset
<1>0. /\ pull = [q \in Puller |-> pull[q]] /\ pull[p] = [f \in Fields |-> pull[p][f]]
      /\ pull[p].at = "page"
  BY DEF PullShape, PageImported
<1>1. /\ pull'[p].at = IF pull[p].complete THEN "transferred" ELSE "export"
      /\ pull'[p].cursor = next /\ pull'[p].refs = pull[p].refs
      /\ pull'[p].known = pull[p].known
  BY <1>0 DEF PageImported, Fields
<1>2. PICK K \in SUBSET EventId : CarriesPage(p, K)
  BY <1>0 DEF Transfer
<1> DEFINE plan == Difference(Requested(p), K)
           end == PageEnd(from, plan)
<1>3. /\ K \in SUBSET pull[p].known /\ HasFirst(p, K, from)
      /\ page = SubSeq(plan, from + 1, end) /\ pull[p].complete = (end = Len(plan))
      /\ next = IF end = Len(plan) THEN NoCursor ELSE [offset |-> end, plan |-> K]
  BY <1>2 DEF CarriesPage
<1>a. IsPlan(plan, Requested(p), K)
  BY RequestedType, DifferenceIsPlan
<1>4. plan \in Seq(EventId)
  BY <1>a DEF IsPlan
<1>5. from \in 0..Len(plan) /\ \A i \in 1..from : plan[i] \in events
  BY <1>3 DEF HasFirst
<1>b. end = PageEnd(from, plan)
  OBVIOUS
<1> HIDE DEF page, next, from, plan, end
<1>6. /\ end \in from..Len(plan) /\ page \in Seq(EventId) /\ Len(page) = end - from
      /\ \A i \in 1..Len(page) : page[i] = plan[from + i]
  BY <1>3, <1>4, <1>5, PageCut DEF end
<1>c. end \in Nat
  BY <1>5, <1>6
<1>d. PICK last \in Nat : last = end
  BY <1>c
<1>7. /\ ClientSound' /\ events \subseteq events' /\ UNCHANGED serverVars
      /\ \A i \in 1..Len(page) : page[i] \in events'
  BY <1>6, ImportKeeps DEF page
<1>8. ASSUME NEW i \in 1..end PROVE plan[i] \in events'
  <2>1. CASE i <= from
    BY <1>5, <1>6, <1>7, <2>1
  <2>2. CASE i > from
    <3>1. i - from \in 1..Len(page) /\ from + (i - from) = i
      BY <1>5, <1>6, <2>2
    <3> QED
      BY <1>6, <1>7, <3>1
  <2> QED
    BY <1>5, <1>6, <2>1, <2>2
<1>9. Requested(p)' = Requested(p)
  BY <1>1 DEF Requested
<1>10. Requested(p)' \subseteq sEvents' /\ pull'[p].known \subseteq events'
  BY <1>0, <1>1, <1>7, <1>9 DEF Transfer, serverVars
<1>11. CASE pull[p].complete
  <2>1. end = Len(plan)
    BY <1>3, <1>11
  <2>2. K \subseteq events
    BY <1>0, <1>3 DEF Transfer
  <2>3. HistoryOf(K) \subseteq events
    BY <2>2, HistoryIn DEF ClientSound, HistoryOf
  <2>4. HistoryOf(Requested(p)) \subseteq events'
    BY <1>7, <1>8, <1>a, <2>1, <2>3 DEF IsPlan
  <2> QED
    BY <1>1, <1>7, <1>9, <1>10, <1>11, <2>4 DEF Transfer, HistoryOf
<1>12. CASE ~pull[p].complete
  <2>1. next = [offset |-> end, plan |-> K] /\ pull'[p].at = "export"
    BY <1>1, <1>3, <1>12
  <2>2. HasFirst(p, K, last)'
    BY <1>4, <1>5, <1>6, <1>8, <1>9, <1>d DEF HasFirst, plan
  <2>3. pull'[p].cursor.plan = K /\ pull'[p].cursor.offset = last
    BY <1>1, <1>d, <2>1
  <2>4. pull'[p].cursor.plan \in SUBSET pull'[p].known
    BY <1>1, <1>3, <2>3
  <2>5. (pull[p].cursor.plan \in SUBSET pull[p].known
          /\ HasFirst(p, pull[p].cursor.plan, pull[p].cursor.offset))'
    BY <2>2, <2>3, <2>4 DEF HasFirst
  <2> QED
    BY <1>7, <1>10, <2>1, <2>5 DEF Transfer
<1> QED
  BY <1>11, <1>12

\* A page of a pull is accepted if the client lists its authors.
LEMMA PageFits ==
  ASSUME PullShape, ServerSound, ClientSound, NEW p \in Puller, Transfer(p),
         pull[p].at = "page",
         \A e \in EventsOf(PageBundle(p)) : Body[e].author \in authors[Ctx]
  PROVE  PageAccepted(p)
<1> DEFINE R == Requested(p)
           b == PageBundle(p)
           page == pull[p].page  next == pull[p].next  from == pull[p].cursor.offset
<1>1. PICK K \in SUBSET EventId : CarriesPage(p, K)
  BY DEF Transfer
<1> DEFINE plan == Difference(R, K)
           end == PageEnd(from, plan)
<1>2. R \in SUBSET EventId /\ R \subseteq sEvents /\ K \subseteq events
  BY <1>1, RequestedType DEF Transfer, CarriesPage
<1>3. IsPlan(plan, R, K)
  BY <1>2, DifferenceIsPlan
<1>4. /\ pull[p].cursor.plan \in {None, K} /\ from \in 0..Len(plan)
      /\ \A i \in 1..from : plan[i] \in events
      /\ page = SubSeq(plan, from + 1, end) /\ pull[p].complete = (end = Len(plan))
      /\ next = IF end = Len(plan) THEN NoCursor ELSE [offset |-> end, plan |-> K]
  BY <1>1 DEF CarriesPage, HasFirst
<1>5. plan \in Seq(EventId)
  BY <1>3 DEF IsPlan
<1>6. b.context = Ctx /\ b.events = page
  BY DEF PageBundle
<1> HIDE DEF R, b, page, next, from, plan
<1>7. /\ end \in from..Len(plan) /\ page \in Seq(EventId) /\ Len(page) = end - from
      /\ end # Len(plan) => end = from + PageEvents
      /\ \A i \in 1..Len(page) : page[i] = plan[from + i]
  BY <1>4, <1>5, PageCut
<1> HIDE DEF end
<1>8. from \in Nat /\ end \in Nat /\ Len(plan) \in Nat /\ DOMAIN page = 1..Len(page)
  BY <1>4, <1>5, <1>7
<1>9. HistoryOf(R) \subseteq sEvents /\ HistoryOf(K) \subseteq events
  BY <1>2, HistoryIn DEF HistoryOf, ServerSound, ClientSound
<1>10. Continues(p)
  <2>1. CASE end = Len(plan)
    BY <1>4, <2>1 DEF Continues
  <2>2. CASE end # Len(plan)
    <3>1. next.offset = end /\ next.plan = K
      BY <1>4, <2>2
    <3>2. end = from + Len(page) /\ end > from
      BY <1>7, <1>8, <2>2, PullAssumption
    <3> QED
      BY <1>4, <3>1, <3>2 DEF Continues, page, next, from
  <2> QED
    BY <2>1, <2>2
<1>11. ASSUME NEW i \in 1..Len(page)
       PROVE  /\ page[i] \in sEvents /\ from + i \in 1..Len(plan)
              /\ \A q \in Body[page[i]].parents :
                   q \in events \cup Earlier(page, i)
  <2>1. from + i \in 1..Len(plan) /\ page[i] = plan[from + i]
    BY <1>7, <1>8
  <2>2. plan[from + i] \in HistoryOf(R)
    BY <1>3, <2>1 DEF IsPlan
  <2>3. ASSUME NEW q \in Body[page[i]].parents, q \notin events
        PROVE  q \in Earlier(page, i)
    <3>1. PICK j \in 1..((from + i) - 1) : plan[j] = q
      BY <1>3, <1>9, <2>1, <2>3 DEF IsPlan
    <3>2. j > from
      BY <1>4, <1>8, <2>3, <3>1
    <3>3. j - from \in 1..Len(page) /\ j - from < i /\ from + (j - from) = j
      BY <1>8, <3>1, <3>2
    <3>4. page[j - from] = q
      BY <1>7, <3>1, <3>3
    <3> QED
      BY <1>8, <3>3, <3>4 DEF Earlier
  <2> QED
    BY <1>9, <2>1, <2>2, <2>3
<1>12. \A i, j \in 1..Len(page) : page[i] = page[j] => i = j
  <2> SUFFICES ASSUME NEW i \in 1..Len(page), NEW j \in 1..Len(page), page[i] = page[j]
               PROVE  i = j
    OBVIOUS
  <2>1. from + i \in 1..Len(plan) /\ from + j \in 1..Len(plan) /\ plan[from + i] = plan[from + j]
    BY <1>7, <1>11
  <2>2. from + i = from + j
    BY <1>3, <2>1 DEF IsPlan
  <2> QED
    BY <1>8, <2>2
<1>13. \A i \in 1..Len(page) : page[i] \notin Earlier(page, i)
  BY <1>8, <1>12 DEF Earlier
<1>14. WellFormedBundle(b)
  <2> SUFFICES ASSUME NEW i \in 1..Len(page)
               PROVE  /\ page[i] \notin Earlier(page, i) /\ Body[page[i]].context = Ctx
                      /\ \A j \in 1..Len(page) : page[j] \in Body[page[i]].parents => j < i
    BY <1>6, <1>8 DEF WellFormedBundle
  <2>1. Body[page[i]].context = Ctx
    BY <1>11 DEF ServerSound, Connected
  <2>2. ASSUME NEW j \in 1..Len(page), page[j] \in Body[page[i]].parents
        PROVE  j < i
    <3>1. from + i \in 1..Len(plan) /\ from + j \in 1..Len(plan)
      BY <1>11
    <3>2. page[i] = plan[from + i] /\ page[j] = plan[from + j]
      BY <1>7
    <3>3. page[j] \notin HistoryOf(K)
      BY <1>3, <3>1, <3>2 DEF IsPlan
    <3>4. PICK k \in 1..((from + i) - 1) : plan[k] = page[j]
      <4>1. \A q \in Body[plan[from + i]].parents :
              q \in HistoryOf(K) \/ \E k \in 1..((from + i) - 1) : plan[k] = q
        BY <1>3, <3>1 DEF IsPlan
      <4>2. page[j] \in Body[plan[from + i]].parents
        BY <2>2, <3>2
      <4> QED
        BY <3>3, <4>1, <4>2
    <3>5. k \in 1..Len(plan) /\ k < from + i
      BY <1>8, <3>1
    <3>6. k = from + j
      BY <1>3, <3>1, <3>2, <3>4, <3>5 DEF IsPlan
    <3> QED
      BY <1>8, <3>5, <3>6
  <2> QED
    BY <1>13, <2>1, <2>2
<1>15. expected[Ctx] # None
  BY PullAssumption, NoneAssumption DEF ClientSound
<1>16. Ctx \notin active => events = {} /\ from = 0 /\ K = {} /\ HistoryOf(K) = {}
  BY <1>2, <1>4, <1>8 DEF ClientSound, HistoryOf
<1>17. Ctx \notin active /\ page # << >> => page[1] = Genesis /\ page[1] \notin events
  <2> SUFFICES ASSUME Ctx \notin active, page # << >>
               PROVE  page[1] = Genesis /\ page[1] \notin events
    OBVIOUS
  <2>1. Len(page) # 0 /\ Len(page) \in Nat
    BY <1>7
  <2>2. 1 \in 1..Len(page)
    BY <2>1
  <2>3. page[1] = plan[1] /\ 1 \in 1..Len(plan)
    BY <1>7, <1>8, <1>11, <1>16, <2>2
  <2>4. Body[plan[1]].parents = {}
    BY <1>3, <1>16, <2>3 DEF IsPlan
  <2>5. plan[1] = Genesis
    BY <1>11, <2>2, <2>3, <2>4 DEF ServerSound, Connected
  <2> QED
    BY <1>16, <2>3, <2>5
<1>18. ASSUME NEW i \in 1..Len(page)
       PROVE  Acceptable(page[i], Ctx, events \cup Earlier(page, i), Ctx \in active \/ i > 1)
  <2> DEFINE e == page[i]
  <2>1. e \in sEvents /\ Body[e].context = Ctx /\ e \in EventId
    BY <1>11 DEF ServerSound, Connected
  <2>2. Body[e].author \in authors[Ctx]
    BY <1>6, <1>8 DEF EventsOf, b
  <2>3. \A q \in Body[e].parents : q \in events \cup Earlier(page, i) /\ Body[q].context = Ctx
    <3>1. Body[e].parents \subseteq sEvents
      BY <2>1 DEF ServerSound, Connected, Closed
    <3> QED
      BY <1>11, <3>1 DEF ServerSound, Connected
  <2>4. i > 1 \/ i = 1
    BY <1>8
  <2>5. \/ IsGenesis(e, Ctx)
        \/ /\ Ctx \in active \/ i > 1
           /\ Body[e].parents # {} /\ Body[e].kind # "context.genesis"
    <3>1. CASE e = Genesis
      BY <3>1, PullAssumption DEF IsGenesis, ClientSound
    <3>2. CASE e # Genesis
      <4>1. Body[e].parents # {} /\ Body[e].kind # "context.genesis"
        BY <2>1, <3>2 DEF ServerSound, Connected
      <4>2. Ctx \in active \/ i > 1
        BY <1>17, <2>4, <3>2
      <4> QED
        BY <4>1, <4>2
    <3> QED
      BY <3>1, <3>2
  <2>6. ASSUME Ctx \in active \/ i > 1, IsGenesis(e, Ctx)
        PROVE  e \in events \cup Earlier(page, i)
    <3>1. e = Genesis
      BY <2>6 DEF IsGenesis, ClientSound
    <3>2. CASE Ctx \in active
      BY <3>1, <3>2, GenesisIn DEF ClientSound
    <3>3. CASE Ctx \notin active
      <4>1. i > 1 /\ page # << >> /\ 1 \in 1..Len(page)
        BY <1>8, <2>6, <3>3
      <4>2. page[1] = e
        BY <1>17, <3>1, <3>3, <4>1
      <4> QED
        BY <1>8, <4>1, <4>2 DEF Earlier
    <3> QED
      BY <3>2, <3>3
  <2> HIDE DEF e
  <2> QED
    BY <2>2, <2>3, <2>5, <2>6 DEF Acceptable, e
<1>19. ImportableEvents(b)
  BY <1>6, <1>8, <1>15, <1>17, <1>18 DEF ImportableEvents
<1> QED
  BY <1>10, <1>14, <1>19 DEF PageAccepted, Importable, b

----------------------------------------------------------------------------
(* Every run of the transfer *)

\* The transfer's invariant holds at first.
LEMMA InitTransfer == PullInit => TransferInv
<1> SUFFICES ASSUME PullInit PROVE TransferInv
  OBVIOUS
<1>0. /\ Ctx \in ContextId /\ Peer \in PeerName /\ Genesis \in EventId
      /\ Body[Genesis].context = Ctx /\ Body[Genesis].parents = {}
  BY PullAssumption
<1>1. Connected({Genesis}) /\ Connected({})
  BY <1>0 DEF Connected, Closed
<1>2. expected[Ctx] = Genesis /\ sExpected[Ctx] = Genesis
  BY <1>0 DEF PullInit
<1>3. sEvents = {Genesis} /\ events = {} /\ active = {}
  BY DEF PullInit
<1>4. \A n \in RefName : sLocalRef[Ctx][n] \in {Genesis, None}
  BY <1>0 DEF PullInit, NoRefs
<1>5. \A n \in RefName : localRef[Ctx][n] = None /\ remoteRef[Peer][Ctx][n] = None
  BY <1>0 DEF PullInit, NoRefs
<1>6. \A p \in Puller : Transfer(p)
  BY DEF PullInit, NoPull, Transfer
<1> QED
  BY <1>1, <1>2, <1>3, <1>4, <1>5, <1>6 DEF TransferInv, ServerSound, ClientSound

\* A step leaves every pull but its own alone.
LEMMA OthersStay ==
  ASSUME PullShape, NEW p \in Puller, NEW q \in Puller, q # p, PullStep(p) \/ Abort(p)
  PROVE  pull'[q] = pull[q]
BY DEF PullShape, PullStep, Abort, GetRefs, ReadLocalRefs, ReadRemoteRefs, Export,
       PageImported, ReplaceRefs, PullFails, Restart

\* What one step of one pull does.
LEMMA PullStepKeeps ==
  ASSUME TrackInv, TransferInv, NEW p \in Puller, PullStep(p) \/ Abort(p)
  PROVE  /\ ServerSound' /\ ClientSound' /\ Transfer(p)'
         /\ events \subseteq events' /\ sEvents \subseteq sEvents'
<1>0. RefTables /\ PullShape /\ ServerSound /\ ClientSound /\ Transfer(p)
  BY DEF TrackInv, TransferInv
<1>1. UNCHANGED serverVars => ServerSound' /\ sEvents \subseteq sEvents'
  BY <1>0 DEF ServerSound, Connected, serverVars
<1>2. UNCHANGED storeVars => ClientSound' /\ events \subseteq events'
  BY <1>0 DEF ClientSound, Connected, storeVars
<1>3. CASE GetRefs(p) \/ ReadLocalRefs(p) \/ ReadRemoteRefs(p)
  <2>1. UNCHANGED <<storeVars, serverVars>>
    BY <1>3 DEF GetRefs, ReadLocalRefs, ReadRemoteRefs
  <2> QED
    BY <1>0, <1>1, <1>2, <1>3, <2>1, StartKeeps
<1>4. CASE Export(p)
  <2>1. UNCHANGED <<storeVars, serverVars>>
    BY <1>4 DEF Export
  <2> QED
    BY <1>0, <1>1, <1>2, <1>4, <2>1, ExportKeeps
<1>5. CASE PageImported(p)
  BY <1>0, <1>1, <1>5, PageKeeps
<1>6. CASE ReplaceRefs(p)
  <2>1. ClientSound' /\ events' = events /\ UNCHANGED serverVars
    BY <1>0, <1>6, ReplaceKeeps
  <2>2. pull'[p] = NoPull
    BY <1>0, <1>6 DEF ReplaceRefs, Restart, PullShape
  <2> QED
    BY <1>1, <2>1, <2>2, Ended
<1>7. CASE PullFails(p) \/ Abort(p)
  <2>1. UNCHANGED <<storeVars, serverVars>> /\ pull'[p] = NoPull
    BY <1>0, <1>7 DEF PullFails, Abort, Restart, PullShape
  <2> QED
    BY <1>1, <1>2, <2>1, Ended
<1> QED
  BY <1>3, <1>4, <1>5, <1>6, <1>7 DEF PullStep

\* Every step keeps the transfer's invariant.
LEMMA StepTransfer ==
  ASSUME TrackInv, TransferInv, [PullNext]_vars
  PROVE  TransferInv'
<1>0. RefTables /\ ServerSound /\ ClientSound /\ \A p \in Puller : Transfer(p)
  BY DEF TrackInv, TransferInv
<1>1. CASE ServerStep
  <2>1. /\ ServerSound' /\ sEvents \subseteq sEvents' /\ UNCHANGED storeVars
        /\ pull' = pull
    BY <1>0, <1>1, ServerKeeps
  <2>2. ClientSound' /\ events \subseteq events'
    BY <1>0, <2>1 DEF ClientSound, Connected, storeVars
  <2>3. \A p \in Puller : Transfer(p)'
    BY <1>0, <2>1, <2>2, Stays
  <2> QED
    BY <2>1, <2>2, <2>3 DEF TransferInv
<1>2. CASE ClientStep
  <2>1. ClientSound' /\ events \subseteq events' /\ UNCHANGED serverVars /\ pull' = pull
    BY <1>0, <1>2, ClientKeeps
  <2>2. ServerSound' /\ sEvents \subseteq sEvents'
    BY <1>0, <2>1 DEF ServerSound, Connected, serverVars
  <2>3. \A p \in Puller : Transfer(p)'
    BY <1>0, <2>1, <2>2, Stays
  <2> QED
    BY <2>1, <2>2, <2>3 DEF TransferInv
<1>3. ASSUME NEW p \in Puller, PullStep(p) \/ Abort(p)
      PROVE  TransferInv'
  <2>1. /\ ServerSound' /\ ClientSound' /\ Transfer(p)'
        /\ events \subseteq events' /\ sEvents \subseteq sEvents'
    BY <1>3, PullStepKeeps
  <2>2. ASSUME NEW q \in Puller, q # p PROVE Transfer(q)'
    <3>1. pull'[q] = pull[q]
      BY <1>3, <2>2, OthersStay DEF TrackInv
    <3> QED
      BY <1>0, <2>1, <3>1, Stays
  <2> QED
    BY <2>1, <2>2 DEF TransferInv
<1>4. CASE UNCHANGED vars
  <2>1. UNCHANGED <<storeVars, serverVars, pull>>
    BY <1>4 DEF vars
  <2>2. ServerSound' /\ sEvents \subseteq sEvents'
    BY <1>0, <2>1 DEF ServerSound, Connected, serverVars
  <2>3. ClientSound' /\ events \subseteq events'
    BY <1>0, <2>1 DEF ClientSound, Connected, storeVars
  <2>4. \A p \in Puller : Transfer(p)'
    BY <1>0, <2>1, <2>2, <2>3, Stays
  <2> QED
    BY <2>2, <2>3, <2>4 DEF TransferInv
<1> QED
  BY <1>1, <1>2, <1>3, <1>4 DEF PullNext

\* Whatever the two stores and other pulls do meanwhile, a pull knows what it
\* has transferred (PullClient::pull).
THEOREM TransferSafe == PullSpec => [](TrackInv /\ TransferInv)
<1>1. PullInit => TrackInv /\ TransferInv
  BY InitTracks, InitTransfer
<1>2. TrackInv /\ TransferInv /\ [PullNext]_vars => (TrackInv /\ TransferInv)'
  BY StepTracks, StepTransfer
<1> QED
  BY <1>1, <1>2, PTL DEF PullSpec

\* No page is refused except for its authors: it continues the page before,
\* skips no parent and starts with the genesis where there is none yet
\* (export_sync_page, import_bundle).
THEOREM PagesFit == PullSpec => []PagesImportable
<1>1. TrackInv /\ TransferInv => PagesImportable
  BY PageFits DEF TrackInv, TransferInv, PagesImportable
<1> QED
  BY <1>1, TransferSafe, PTL

\* A transfer that ends has the whole history of every head it asked for
\* (PullClient::pull, before the refs are replaced).
THEOREM PullsComplete == PullSpec => []CompletePull
<1>1. TransferInv => CompletePull
  BY DEF TransferInv, Transfer, CompletePull
<1> QED
  BY <1>1, TransferSafe, PTL

----------------------------------------------------------------------------
(* One pull at a time *)

\* Branch by branch, the head of old is in the history of the head of new.
Forward(old, new) ==
  \A n \in RefName : old[n] # None => new[n] # None /\ old[n] \in Ancestors[new[n]]

\* What is known of the peer is behind the snapshot a pull works on, and that
\* is behind the peer.
ForwardInv ==
  /\ Forward(remoteRef[Peer][Ctx], Published)
  /\ \A p \in Puller : TakenBy[p] # None =>
       Forward(remoteRef[Peer][Ctx], TakenBy[p]) /\ Forward(TakenBy[p], Published)

\* Refs that stay where they are have moved forward, ...
LEMMA ForwardSame ==
  ASSUME NEW r \in RefSnapshot
  PROVE  Forward(r, r)
BY AncestorsReflexive DEF Forward, RefSnapshot, Optional

\* ... and so have refs that moved forward twice.
LEMMA ForwardFurther ==
  ASSUME NEW r \in RefSnapshot, NEW s \in RefSnapshot, NEW t \in RefSnapshot,
         Forward(r, s), Forward(s, t)
  PROVE  Forward(r, t)
<1> SUFFICES ASSUME NEW n \in RefName, r[n] # None
             PROVE  t[n] # None /\ r[n] \in Ancestors[t[n]]
  BY DEF Forward
<1>1. s[n] # None /\ r[n] \in Ancestors[s[n]]
  BY DEF Forward
<1>2. t[n] \in EventId /\ s[n] \in Ancestors[t[n]]
  BY <1>1 DEF Forward, RefSnapshot, Optional
<1> QED
  BY <1>1, <1>2, AncestorsTransitive, NoneAssumption

\* The peer's branches only move to descendants.
LEMMA PublishedForward ==
  ASSUME TrackInv, [PullNext]_vars
  PROVE  Forward(Published, Published')
<1>1. Ctx \in ContextId /\ sLocalRef \in [ContextId -> RefSnapshot]
      /\ Published \in RefSnapshot
  BY PullAssumption DEF TrackInv, RefTables, Published
<1>2. ASSUME NEW e \in EventId, NEW n \in RefName,
             sLocalRef' = [sLocalRef EXCEPT ![Ctx][n] = e],
             sLocalRef[Ctx][n] = None \/ sLocalRef[Ctx][n] \in Body[e].parents
      PROVE  Forward(Published, Published')
  <2>1. Published' = [Published EXCEPT ![n] = e]
    BY <1>1, <1>2 DEF Published
  <2>2. \A q \in Body[e].parents : q \in Ancestors[e]
    BY AncestorsReflexive, AncestorsClosed DEF Closed
  <2>3. Published = [m \in RefName |-> Published[m]]
    BY <1>1 DEF RefSnapshot
  <2> SUFFICES ASSUME NEW m \in RefName, Published[m] # None
               PROVE  Published'[m] # None /\ Published[m] \in Ancestors[Published'[m]]
    BY DEF Forward
  <2>4. CASE m = n
    BY <1>2, <2>1, <2>2, <2>3, <2>4, NoneAssumption DEF Published
  <2>5. CASE m # n
    BY <1>1, <2>1, <2>3, <2>5, ForwardSame DEF Forward
  <2> QED
    BY <2>4, <2>5
<1>3. CASE ServerStep
  <2>1. CASE \E e \in EventId, n \in RefName : ServerAppend(e, n)
    <3>1. PICK e \in EventId, n \in RefName : ServerAppend(e, n)
      BY <2>1
    <3> QED
      BY <1>2, <3>1 DEF ServerAppend, Server!ExtendBranch, Server!MutationMatches,
           Server!AdmitAndMove, Server!MoveRef
  <2>2. CASE \E n \in RefName, e \in EventId : Server!CreateBranch(Ctx, n, e)
    <3>1. PICK n \in RefName, e \in EventId : Server!CreateBranch(Ctx, n, e)
      BY <2>2
    <3> QED
      BY <1>2, <3>1 DEF Server!CreateBranch, Server!MoveRef
  <2>3. CASE \E e \in EventId : ServerReceives(e)
    <3>1. Published' = Published
      BY <2>3 DEF ServerReceives, Server!Admit, Published
    <3> QED
      BY <1>1, <3>1, ForwardSame
  <2> QED
    BY <1>3, <2>1, <2>2, <2>3 DEF ServerStep
<1>4. CASE ~ServerStep
  <2>1. UNCHANGED serverVars
    BY <1>4 DEF PullNext, ClientStep, PullStep, Abort, vars, GetRefs, ReadLocalRefs,
                ReadRemoteRefs, Export, PageImported, ReplaceRefs, PullFails
  <2>2. Published' = Published
    BY <2>1 DEF serverVars, Published
  <2> QED
    BY <1>1, <2>2, ForwardSame
<1> QED
  BY <1>3, <1>4

\* With one pull at a time every step keeps the order, and what is known of
\* the peer only moves on.
LEMMA StepForward ==
  ASSUME \A p, q \in Puller : p = q,
         TrackInv, ForwardInv, [PullNext]_vars
  PROVE  ForwardInv' /\ Forward(remoteRef[Peer][Ctx], remoteRef[Peer][Ctx]')
<1> DEFINE mirror == remoteRef[Peer][Ctx]
<1>1. TrackInv' /\ [Mirror!Next]_(Mirror!vars)
  BY StepTracks
<1>2. /\ mirror \in RefSnapshot /\ mirror' \in RefSnapshot
      /\ Published \in RefSnapshot /\ Published' \in RefSnapshot
  BY <1>1, PullAssumption DEF TrackInv, RefTables, Published
<1>3. /\ \A p \in Puller : TakenBy[p] # None => TakenBy[p] \in RefSnapshot
      /\ TakenBy = [p \in Puller |-> TakenBy[p]]
  BY DEF TakenBy, TrackInv, PullShape
<1>4. Forward(Published, Published')
  BY PublishedForward
<1>5. /\ Forward(mirror, Published)
      /\ \A p \in Puller : TakenBy[p] # None =>
           Forward(mirror, TakenBy[p]) /\ Forward(TakenBy[p], Published)
  BY DEF ForwardInv
<1> SUFFICES /\ Forward(mirror', Published') /\ Forward(mirror, mirror')
             /\ \A p \in Puller : TakenBy'[p] # None =>
                  Forward(mirror', TakenBy'[p]) /\ Forward(TakenBy'[p], Published')
  BY DEF ForwardInv
<1> HIDE DEF mirror
<1>6. CASE mirror' = mirror /\ TakenBy' = TakenBy
  BY <1>2, <1>3, <1>4, <1>5, <1>6, ForwardSame, ForwardFurther
<1>7. ASSUME NEW p \in Puller, Mirror!Take(p) \/ Mirror!GiveUp(p) PROVE
             /\ Forward(mirror', Published') /\ Forward(mirror, mirror')
             /\ \A q \in Puller : TakenBy'[q] # None =>
                  Forward(mirror', TakenBy'[q]) /\ Forward(TakenBy'[q], Published')
  <2>1. /\ mirror' = mirror /\ Published' = Published
        /\ TakenBy' = [TakenBy EXCEPT ![p] = Published] \/ TakenBy' = [TakenBy EXCEPT ![p] = None]
    BY <1>7 DEF Mirror!Take, Mirror!GiveUp, TakenBy, mirror, Published
  <2>2. \A q \in Puller : TakenBy'[q] \in {TakenBy[q], Published, None}
    BY <1>3, <2>1
  <2> QED
    BY <1>2, <1>3, <1>5, <2>1, <2>2, ForwardSame
<1>8. ASSUME NEW p \in Puller, Mirror!Finish(p) PROVE
             /\ Forward(mirror', Published') /\ Forward(mirror, mirror')
             /\ \A q \in Puller : TakenBy'[q] # None =>
                  Forward(mirror', TakenBy'[q]) /\ Forward(TakenBy'[q], Published')
  <2>1. /\ mirror' = TakenBy[p] /\ Published' = Published /\ TakenBy[p] # None
        /\ TakenBy' = [TakenBy EXCEPT ![p] = None]
    BY <1>8 DEF Mirror!Finish, TakenBy, mirror, Published
  <2>2. \A q \in Puller : TakenBy'[q] = None
    BY <1>3, <2>1
  <2> QED
    BY <1>5, <2>1, <2>2
<1>9. CASE Mirror!Publish \/ Mirror!WorkLocally \/ UNCHANGED Mirror!vars
  <2>1. mirror' = mirror /\ TakenBy' = TakenBy
    BY <1>9 DEF Mirror!Publish, Mirror!WorkLocally, Mirror!vars, TakenBy, mirror
  <2> QED
    BY <1>6, <2>1
<1> QED
  BY <1>1, <1>7, <1>8, <1>9 DEF Mirror!Next

\* A client that pulls from a peer with one pull at a time never sees a
\* branch of the peer disappear or go back (PullClient::pull).
THEOREM MirrorsForward ==
  (\A p, q \in Puller : p = q) => (PullSpec => MirrorForward)
<1> SUFFICES ASSUME \A p, q \in Puller : p = q PROVE PullSpec => MirrorForward
  OBVIOUS
<1>1. PullInit => TrackInv /\ ForwardInv
  <2> SUFFICES ASSUME PullInit PROVE TrackInv /\ ForwardInv
    OBVIOUS
  <2>1. \A p \in Puller : TakenBy[p] = None
    BY DEF PullInit, NoPull, TakenBy
  <2>2. remoteRef[Peer][Ctx] = NoRefs
    BY PullAssumption DEF PullInit
  <2>3. Forward(NoRefs, Published)
    BY DEF Forward, NoRefs
  <2> QED
    BY <2>1, <2>2, <2>3, InitTracks DEF ForwardInv
<1>2. TrackInv /\ ForwardInv /\ [PullNext]_vars => (TrackInv /\ ForwardInv)'
  BY StepTracks, StepForward
<1>3. TrackInv /\ ForwardInv /\ [PullNext]_vars =>
        [\A n \in RefName :
           LET old == remoteRef[Peer][Ctx][n]  new == remoteRef'[Peer][Ctx][n]
           IN  old # None => new # None /\ old \in Ancestors[new]]_vars
  BY StepForward DEF Forward
<1> QED
  BY <1>1, <1>2, <1>3, PTL DEF PullSpec, MirrorForward
=============================================================================
