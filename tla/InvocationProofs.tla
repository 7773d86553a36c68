-------------------------- MODULE InvocationProofs --------------------------
(***************************************************************************)
(* What recording an invocation promises, for every number of concurrent   *)
(* calls, branches and identities, every event graph, any crashes and      *)
(* other writers, and queries that read three snapshots.                   *)
(*                                                                         *)
(* Two facts carry the argument.  A request belongs to one call (the drawn *)
(* identifier), so no other call records an outcome for it.  And a branch  *)
(* only moves to a child of its head: what it has reached it keeps, and a  *)
(* head it has left it never comes back to.  Neither needs anything of     *)
(* other writers, who may answer a request as well.                        *)
(*                                                                         *)
(* The last section is about the call in the middle, for every child       *)
(* program and all sizes: what an exchange reports is what the child sent. *)
(***************************************************************************)
EXTENDS Invocation, CommandProvider, ContextStoreProofs, ListingProofs

\* The states of a call that has drawn its request.
Drawn == {"signed", "calling", "recording", "stale"}
Committed == {"calling", "recording", "stale"}

\* The branch has been at x and has moved on.
MovedOn(x, n) == x \in History(n) /\ BranchHead(n) # x

ResultOf(d, e) ==
  /\ d \in EventId /\ Body[d].context = Ctx
  /\ Body[d].kind \in {"agent.response", "agent.error"}
  /\ Body[d].parents = {e}

CallSound(c) ==
  /\ c.at = "selected" => c.head \in EventId
  /\ c.at \in Drawn => /\ c.request \in used \cap EventId
                       /\ Body[c.request].kind = "agent.request"
                       /\ Body[c.request].parents = {c.head}
  /\ c.at \in Committed => c.request \in History(c.on)
  /\ c.at \in {"recording", "stale"} => ResultOf(c.result, c.request)
  /\ c.at = "stale" => MovedOn(c.request, c.on)

CallsSound ==
  /\ call \in [Invoker -> Call]
  /\ \A i \in Invoker : CallSound(call[i])
  /\ \A i, j \in Invoker :
       call[i].at \in Drawn /\ call[j].at \in Drawn /\ i # j => call[i].request # call[j].request

ReportsSound ==
  /\ reports \subseteq Report
  /\ OutcomeRetained /\ RecordedOnce
  /\ \A r \in reports :
       /\ r.request \in used
       /\ \A i \in Invoker : call[i].at \in Drawn => call[i].request # r.request
       /\ r.of = "conflict" => ResultOf(r.result, r.request) /\ MovedOn(r.request, r.on)

Query == [at : {"none", "head", "projected", "answered"}, on : RefName,
          scan : {"request", "result"}, head : Optional(EventId),
          ancestry : SUBSET EventId, answer : SUBSET EventId, stored : SUBSET EventId]

QuerySound ==
  /\ query \in Query
  /\ query.stored \subseteq events
  /\ query.at # "none" => query.head \in History(query.on)
  /\ query.at \in {"projected", "answered"} => query.ancestry = Ancestors[query.head]
  /\ RecoveryComplete

InvocationInv == StoreInv /\ CallsSound /\ ReportsSound /\ QuerySound

----------------------------------------------------------------------------
(* What a step does to the store *)

\* A call in progress commits the event it is about to.
Commits(i) ==
  \/ call[i].at = "signed" /\ AdmitRequest(i)
  \/ call[i].at = "recording" /\ AdmitResult(i)
  \/ call[i].at = "stale" /\ Admit(call[i].result)

\* Every branch stays, or moves to a child of its head which, unless it is a
\* merge, has no other parent.
HeadMoves ==
  \A n \in RefName : BranchHead(n) # None =>
    \/ BranchHead(n)' = BranchHead(n)
    \/ /\ BranchHead(n)' \in EventId
       /\ BranchHead(n) \in Body[BranchHead(n)'].parents
       /\ \/ Body[BranchHead(n)'].kind = "context.merge"
          \/ Body[BranchHead(n)'].parents = {BranchHead(n)}

\* The name an idle call carries is a branch name.
LEMMA DefaultName == (CHOOSE n \in RefName : TRUE) \in RefName
BY InvokerAssumption

\* What a call may do to the store.
LEMMA CallCommits ==
  ASSUME NEW i \in Invoker, InvocationStep(i)
  PROVE  UNCHANGED storeVars \/ Commits(i)
BY DEF InvocationStep, Select, SignRequest, ProviderReturns, CommitRequest, RequestRefused,
       ResponseTooLarge, RecordResult, ResultStale, RetainDetached, Interrupted, Commits

\* What a call commits, and where.
LEMMA CommitEffect ==
  ASSUME InvocationInv, NEW i \in Invoker, Commits(i)
  PROVE  /\ \/ UNCHANGED localRef
            \/ \E e, x \in EventId : /\ Body[e].parents = {x}
                                     /\ BranchHead(call[i].on) \in {e, x}
                                     /\ MoveRef(Ctx, call[i].on, e)
         /\ Next
<1>1. /\ call[i].on \in RefName /\ CallSound(call[i])
      /\ call[i].head \in Optional(EventId) /\ call[i].request \in Optional(EventId)
  BY DEF InvocationInv, CallsSound, Call
<1>2. CASE call[i].at = "signed" /\ AdmitRequest(i)
  <2> DEFINE e == call[i].request
  <2>1. e \in EventId /\ Body[e].parents = {call[i].head}
    BY <1>1, <1>2 DEF CallSound, Drawn
  <2>2. call[i].head \in EventId
    BY <2>1, ParentsAreEvents
  <2>3. BranchHead(call[i].on) \in {e, call[i].head} /\ MoveRef(Ctx, call[i].on, e)
    BY <1>2 DEF AdmitRequest, AdmitAndMove, RefCanMove, BranchHead
  <2>4. Next
    BY <1>1, <1>2, <2>1, InvokerAssumption DEF AdmitRequest, Next, Optional
  <2> QED
    BY <2>1, <2>2, <2>3, <2>4
<1>3. CASE call[i].at = "recording" /\ AdmitResult(i)
  <2> DEFINE e == call[i].result
  <2>1. e \in EventId /\ Body[e].parents = {call[i].request} /\ call[i].request \in EventId
    BY <1>1, <1>3 DEF CallSound, ResultOf, Drawn
  <2>2. BranchHead(call[i].on) \in {e, call[i].request} /\ MoveRef(Ctx, call[i].on, e)
    BY <1>3 DEF AdmitResult, AdmitAndMove, RefCanMove, BranchHead
  <2>3. Next
    BY <1>1, <1>3, <2>1, InvokerAssumption DEF AdmitResult, Next, Optional
  <2> QED
    BY <2>1, <2>2, <2>3
<1>4. CASE call[i].at = "stale" /\ Admit(call[i].result)
  BY <1>1, <1>4 DEF Admit, CallSound, ResultOf, Next
<1> QED
  BY <1>2, <1>3, <1>4 DEF Commits

\* Other writers move branches forward too.
LEMMA OthersEffect ==
  ASSUME InvocationInv, OthersStep
  PROVE  HeadMoves /\ Next
<1>0. /\ StoreInv /\ Ctx \in ContextId /\ localRef \in [ContextId -> RefSnapshot]
  BY InvokerAssumption DEF InvocationInv, StoreInv, TypeOK
<1>1. ASSUME NEW n \in RefName, NEW e \in EventId, CreateContext(e, n)
      PROVE  HeadMoves /\ Next
  <2>1. CASE Body[e].context = Ctx
    <3>1. \A m \in RefName : BranchHead(m) = None
      BY <1>0, <1>1, <2>1, NoneAssumption
         DEF CreateContext, StoreInv, OneRoot, RefsResolve, StoredIn, BranchHead, TypeOK
    <3> QED
      BY <1>1, <3>1 DEF CreateContext, HeadMoves, Next
  <2>2. CASE Body[e].context # Ctx
    <3>1. localRef'[Ctx] = localRef[Ctx]
      BY <1>0, <1>1, <2>2 DEF CreateContext
    <3> QED
      BY <1>1, <3>1 DEF CreateContext, HeadMoves, BranchHead, Next
  <2> QED
    BY <2>1, <2>2
<1>2. ASSUME NEW n \in RefName, NEW e \in EventId, MoveRef(Ctx, n, e),
             \/ BranchHead(n) = None
             \/ /\ BranchHead(n) \in Body[e].parents
                /\ Body[e].kind = "context.merge" \/ Body[e].parents = {BranchHead(n)}
             \/ BranchHead(n) = e
      PROVE  HeadMoves
  <2> SUFFICES ASSUME NEW m \in RefName, BranchHead(m) # None
               PROVE  \/ BranchHead(m)' = BranchHead(m)
                      \/ /\ BranchHead(m)' \in EventId
                         /\ BranchHead(m) \in Body[BranchHead(m)'].parents
                         /\ \/ Body[BranchHead(m)'].kind = "context.merge"
                            \/ Body[BranchHead(m)'].parents = {BranchHead(m)}
    BY DEF HeadMoves
  <2>1. BranchHead(m)' = IF m = n THEN e ELSE BranchHead(m)
    BY <1>0, <1>2 DEF MoveRef, BranchHead, RefSnapshot
  <2> QED
    BY <1>2, <2>1
<1>3. ASSUME NEW n \in RefName, NEW e \in EventId, CreateBranch(Ctx, n, e)
      PROVE  HeadMoves /\ Next
  <2>1. MoveRef(Ctx, n, e) /\ BranchHead(n) = None /\ UNCHANGED events
    BY <1>3 DEF CreateBranch, BranchHead
  <2>2. Next
    BY <1>0, <1>3 DEF Next
  <2> QED
    BY <1>2, <2>1, <2>2
<1>4. ASSUME NEW n \in RefName, NEW e \in EventId, OtherAppend(n, e) \/ OtherMerge(n, e)
      PROVE  HeadMoves /\ Next
  <2>1. /\ MoveRef(Ctx, n, e)
        /\ BranchHead(n) \in Body[e].parents
        /\ Body[e].kind = "context.merge" \/ Body[e].parents = {BranchHead(n)}
    BY <1>4 DEF OtherAppend, OtherMerge, ExtendBranch, AdmitAndMove, BranchHead
  <2>2. Next
    BY <1>0, <1>4 DEF OtherAppend, OtherMerge, ExtendBranch, BranchHead, RefSnapshot, Next
  <2> QED
    BY <1>2, <2>1, <2>2
<1> QED
  BY <1>1, <1>3, <1>4 DEF OthersStep

\* A step of a call changes that call and no other.
LEMMA OneCallActs ==
  ASSUME InvocationInv, NEW i \in Invoker, InvocationStep(i)
  PROVE  /\ call'[i] # call[i] /\ \A j \in Invoker \ {i} : call'[j] = call[j]
         /\ call' = [call EXCEPT ![i] = call'[i]]
<1>1. call \in [Invoker -> Call] /\ call[i] \in Call
  BY DEF InvocationInv, CallsSound
<1>2. call'[i].at # call[i].at /\ call' = [call EXCEPT ![i] = call'[i]]
  <2>1. ASSUME NEW n \in RefName, Select(i, n)
        PROVE  call'[i].at # call[i].at /\ call' = [call EXCEPT ![i] = call'[i]]
    BY <1>1, <2>1 DEF Select, NoCall
  <2>2. ASSUME NEW e \in EventId, SignRequest(i, e)
        PROVE  call'[i].at # call[i].at /\ call' = [call EXCEPT ![i] = call'[i]]
    BY <1>1, <2>2 DEF SignRequest, Call
  <2>3. ASSUME NEW e \in EventId, ProviderReturns(i, e)
        PROVE  call'[i].at # call[i].at /\ call' = [call EXCEPT ![i] = call'[i]]
    BY <1>1, <2>3 DEF ProviderReturns, Call
  <2>4. CASE CommitRequest(i) \/ ResultStale(i)
    BY <1>1, <2>4 DEF CommitRequest, ResultStale, Call
  <2>5. ASSUME Finish(i), call[i].at # "idle"
        PROVE  call'[i].at # call[i].at /\ call' = [call EXCEPT ![i] = call'[i]]
    BY <1>1, <2>5 DEF Finish, NoCall
  <2>6. CASE RequestRefused(i) \/ ResponseTooLarge(i) \/ RecordResult(i) \/ RetainDetached(i)
               \/ Interrupted(i)
    BY <2>5, <2>6 DEF RequestRefused, ResponseTooLarge, RecordResult, RetainDetached, Interrupted,
                Return
  <2> QED
    BY <2>1, <2>2, <2>3, <2>4, <2>6 DEF InvocationStep
<1> QED
  BY <1>1, <1>2

\* Every step, seen from the store.
LEMMA StepEffect ==
  ASSUME InvocationInv, [InvocationNext]_vars
  PROVE  [Next]_storeVars /\ HeadMoves
<1>0. localRef \in [ContextId -> RefSnapshot] /\ Ctx \in ContextId
  BY InvokerAssumption DEF InvocationInv, StoreInv, TypeOK
<1>1. CASE UNCHANGED storeVars
  BY <1>1 DEF storeVars, HeadMoves, BranchHead
<1>2. CASE OthersStep
  BY <1>2, OthersEffect
<1>3. ASSUME NEW i \in Invoker, Commits(i)
      PROVE  Next /\ HeadMoves
  <2>1. CASE UNCHANGED localRef
    BY <1>3, <2>1, CommitEffect DEF HeadMoves, BranchHead
  <2>2. ASSUME NEW e \in EventId, NEW x \in EventId, Body[e].parents = {x},
               BranchHead(call[i].on) \in {e, x}, MoveRef(Ctx, call[i].on, e)
        PROVE  HeadMoves
    <3>1. call[i].on \in RefName
      BY DEF InvocationInv, CallsSound, Call
    <3>2. \A m \in RefName : BranchHead(m)' = IF m = call[i].on THEN e ELSE BranchHead(m)
      BY <1>0, <2>2, <3>1 DEF MoveRef, BranchHead, RefSnapshot
    <3> QED
      BY <2>2, <3>1, <3>2 DEF HeadMoves
  <2> QED
    BY <1>3, <2>1, <2>2, CommitEffect
<1>4. ASSUME NEW i \in Invoker, InvocationStep(i) PROVE UNCHANGED storeVars \/ Commits(i)
  BY <1>4, CallCommits
<1>5. CASE QueryStep \/ UNCHANGED vars
  BY <1>1, <1>5 DEF QueryStep, vars
<1> QED
  BY <1>1, <1>2, <1>3, <1>4, <1>5 DEF InvocationNext

----------------------------------------------------------------------------
(* Branches *)

\* Branches keep what they have reached.
LEMMA HistoryKept ==
  ASSUME StoreInv, StoreInv', HeadMoves, NEW n \in RefName
  PROVE  History(n) \subseteq History(n)' /\ (BranchHead(n) # None => BranchHead(n)' # None)
<1>1. BranchHead(n) \in Optional(EventId) /\ BranchHead(n)' \in Optional(EventId)
  BY InvokerAssumption DEF StoreInv, TypeOK, BranchHead, RefSnapshot
<1>2. CASE BranchHead(n) = None
  BY <1>2 DEF History
<1>3. CASE BranchHead(n) # None /\ BranchHead(n)' = BranchHead(n)
  BY <1>3 DEF History
<1>4. CASE BranchHead(n) # None /\ BranchHead(n)' # BranchHead(n)
  BY <1>1, <1>4, ParentHistory, NoneAssumption DEF HeadMoves, History
<1> QED
  BY <1>2, <1>3, <1>4

\* A branch does not come back to an event it has left.
LEMMA StaysMovedOn ==
  ASSUME StoreInv, StoreInv', HeadMoves, NEW n \in RefName, NEW x \in EventId, MovedOn(x, n)
  PROVE  MovedOn(x, n)'
<1>1. BranchHead(n) \in EventId /\ x \in Ancestors[BranchHead(n)] /\ BranchHead(n) # x
  BY InvokerAssumption DEF StoreInv, TypeOK, BranchHead, RefSnapshot, Optional, MovedOn, History
<1>2. x \in History(n)'
  BY HistoryKept DEF MovedOn
<1>3. ASSUME BranchHead(n)' = x PROVE FALSE
  <2>1. BranchHead(n) \in Body[x].parents
    BY <1>1, <1>3, NoneAssumption DEF HeadMoves
  <2>2. BranchHead(n) \in Ancestors[x]
    BY <2>1, AncestorsReflexive, AncestorsClosed DEF Closed
  <2> QED
    BY <1>1, <2>2, Antisymmetric
<1> QED
  BY <1>2, <1>3 DEF MovedOn

\* A result of an event the branch has left can only be reached by a merge.
LEMMA ReachedByMerge ==
  ASSUME StoreInv, StoreInv', HeadMoves, NEW n \in RefName, NEW x \in EventId, NEW d,
         ResultOf(d, x), MovedOn(x, n), d \in History(n)' \ History(n)
  PROVE  Body[BranchHead(n)'].kind = "context.merge"
<1> DEFINE h == BranchHead(n)  k == BranchHead(n)'
<1>1. h \in EventId /\ k \in EventId /\ History(n) = Ancestors[h] /\ History(n)' = Ancestors[k]
  BY HistoryKept, InvokerAssumption, NoneAssumption
     DEF StoreInv, TypeOK, BranchHead, RefSnapshot, Optional, MovedOn, History
<1>2. ASSUME Body[k].parents = {h} PROVE FALSE
  <2>1. d # k
    BY <1>2 DEF ResultOf, MovedOn
  <2> QED
    BY <1>1, <1>2, <2>1, AncestorsUnfold
<1> QED
  BY <1>1, <1>2, NoneAssumption DEF HeadMoves

\* All that a branch has reached is stored.
LEMMA HistoryStored ==
  ASSUME StoreInv, NEW n \in RefName
  PROVE  History(n) \subseteq events
<1>1. CASE BranchHead(n) = None
  BY <1>1 DEF History
<1>2. CASE BranchHead(n) # None
  <2>1. BranchHead(n) \in events
    BY <1>2, InvokerAssumption DEF StoreInv, RefsResolve, StoredIn, BranchHead
  <2>2. events \in SUBSET EventId /\ Closed(events)
    BY DEF StoreInv, TypeOK, AncestryClosed, Closed
  <2> QED
    BY <1>2, <2>1, <2>2, AncestorsLeast DEF History
<1> QED
  BY <1>1, <1>2

\* No transaction removes an event.
LEMMA EventsKept ==
  ASSUME [Next]_storeVars
  PROVE  events \subseteq events'
BY DEF Next, storeVars, ProvisionContext, AuthorizeAuthor, CreateContext, Admit, AdmitAndMove,
       StoreEvent, CreateBranch, SetRemoteRef, ReplaceRemoteRefs, ImportBundle

----------------------------------------------------------------------------
(* Calls *)

\* A call that does not act keeps what it relies on.
LEMMA CallKept ==
  ASSUME InvocationInv, StoreInv', HeadMoves, used \subseteq used',
         NEW j \in Invoker, call'[j] = call[j]
  PROVE  CallSound(call[j])'
<1> DEFINE c == call[j]
<1>1. CallSound(c) /\ c.on \in RefName /\ StoreInv
  BY DEF InvocationInv, CallsSound, Call
<1>2. c.at \in Committed => c.request \in History(c.on)'
  BY <1>1, HistoryKept DEF CallSound
<1>3. ASSUME c.at = "stale" PROVE MovedOn(c.request, c.on)'
  BY <1>1, <1>3, StaysMovedOn DEF CallSound, Drawn
<1> QED
  BY <1>1, <1>2, <1>3 DEF CallSound, ResultOf

\* The head of a branch that was moved.
LEMMA MovedHead ==
  ASSUME StoreInv, NEW n \in RefName, NEW e \in EventId, MoveRef(Ctx, n, e)
  PROVE  BranchHead(n)' = e /\ e \in History(n)'
<1>1. BranchHead(n)' = e
  BY InvokerAssumption DEF StoreInv, TypeOK, MoveRef, BranchHead, RefSnapshot
<1> QED
  BY <1>1, AncestorsReflexive, NoneAssumption DEF History

\* The call that acts comes to rely only on what holds.
LEMMA CallActs ==
  ASSUME InvocationInv, NEW i \in Invoker, InvocationStep(i)
  PROVE  /\ call'[i] \in Call /\ CallSound(call[i])' /\ used \subseteq used'
         /\ call'[i].at \in Drawn =>
              \/ call[i].at \in Drawn /\ call'[i].request = call[i].request
              \/ call'[i].request \notin used
<1> DEFINE c == call[i]  d == call'[i]
           Goal == /\ d \in Call /\ CallSound(call[i])' /\ used \subseteq used'
                   /\ d.at \in Drawn => \/ c.at \in Drawn /\ d.request = c.request
                                        \/ d.request \notin used
<1> SUFFICES Goal
  OBVIOUS
<1>0. /\ StoreInv /\ call \in [Invoker -> Call] /\ c \in Call /\ CallSound(c)
      /\ c.on \in RefName /\ c.head \in Optional(EventId)
      /\ c.request \in Optional(EventId) /\ c.result \in Optional(EventId)
  BY DEF InvocationInv, CallsSound, Call
<1>a. PICK b \in RefName, x \in Optional(EventId), y \in Optional(EventId) :
        c.on = b /\ c.request = x /\ c.result = y
  BY <1>0
<1>1. ASSUME NEW n \in RefName, Select(i, n) PROVE Goal
  <2>1. d = [NoCall EXCEPT !.at = "selected", !.on = n, !.head = BranchHead(n)] /\ used' = used
        /\ BranchHead(n) \in EventId
    BY <1>0, <1>1, InvokerAssumption
       DEF Select, StoreInv, TypeOK, BranchHead, RefSnapshot, Optional
  <2> QED
    BY <2>1 DEF NoCall, Call, CallSound, Drawn, Committed, Optional
<1>2. ASSUME NEW e \in EventId, SignRequest(i, e) PROVE Goal
  <2>1. d = [c EXCEPT !.at = "signed", !.request = e] /\ used' = used \cup {e}
    BY <1>0, <1>2 DEF SignRequest
  <2>2. e \notin used
    BY <1>2 DEF SignRequest, FreshId
  <2>3. Body[e].kind = "agent.request" /\ Body[e].parents = {c.head}
    BY <1>2 DEF SignRequest
  <2>4. /\ d.at = "signed" /\ d.request = e /\ d.head = c.head /\ d \in Call
    BY <1>0, <2>1 DEF Call, Optional
  <2> QED
    BY <2>1, <2>2, <2>3, <2>4 DEF CallSound, Drawn, Committed
<1>3. ASSUME NEW e \in EventId, ProviderReturns(i, e) PROVE Goal
  <2>1. d = [c EXCEPT !.at = "recording", !.result = e] /\ used' = used /\ UNCHANGED storeVars
        /\ c.at = "calling" /\ ResultOf(e, c.request)
    BY <1>0, <1>3 DEF ProviderReturns, ResultOf
  <2>2. /\ d.at = "recording" /\ d.request = x /\ d.head = c.head /\ d.result = e /\ d.on = b
        /\ d \in Call
    BY <1>0, <1>a, <2>1 DEF Call, Optional
  <2>3. x \in History(b)'
    BY <1>0, <1>a, <2>1 DEF CallSound, Committed, History, BranchHead, storeVars
  <2> QED
    BY <1>0, <1>a, <2>1, <2>2, <2>3 DEF CallSound, Drawn, Committed
<1>4. CASE CommitRequest(i)
  <2>1. d = [c EXCEPT !.at = "calling"] /\ used' = used /\ c.at = "signed"
    BY <1>0, <1>4 DEF CommitRequest
  <2>2. /\ d.at = "calling" /\ d.request = x /\ d.head = c.head /\ d.on = b
        /\ d \in Call
    BY <1>0, <1>a, <2>1 DEF Call
  <2>3. x \in EventId
    BY <1>0, <1>a, <2>1 DEF CallSound, Drawn
  <2>4. MoveRef(Ctx, b, x)
    BY <1>4, <1>a DEF CommitRequest, AdmitRequest, AdmitAndMove
  <2>5. x \in History(b)'
    BY <1>0, <2>3, <2>4, MovedHead
  <2> QED
    BY <1>0, <1>a, <2>1, <2>2, <2>5 DEF CallSound, Drawn, Committed
<1>5. CASE ResultStale(i)
  <2>1. d = [c EXCEPT !.at = "stale"] /\ used' = used /\ UNCHANGED storeVars /\ c.at = "recording"
    BY <1>0, <1>5 DEF ResultStale
  <2>2. /\ d.at = "stale" /\ d.request = x /\ d.head = c.head /\ d.result = y
        /\ d.on = b /\ d \in Call
    BY <1>0, <1>a, <2>1 DEF Call
  <2>3. BranchHead(b) # x
    BY <1>0, <1>5, <1>a, <2>1 DEF ResultStale, StaleHead, RefCanMove, BranchHead, CallSound, ResultOf
  <2>4. x \in History(b)' /\ MovedOn(x, b)'
    BY <1>0, <1>a, <2>1, <2>3
       DEF CallSound, Committed, History, BranchHead, MovedOn, storeVars
  <2> QED
    BY <1>0, <1>a, <2>1, <2>2, <2>4 DEF CallSound, Drawn, Committed
<1>6. ASSUME Finish(i), UNCHANGED used PROVE Goal
  <2>1. d = NoCall
    BY <1>0, <1>6 DEF Finish
  <2> QED
    BY <1>6, <2>1, DefaultName DEF NoCall, Call, CallSound, Drawn, Committed, Optional
<1>7. CASE RequestRefused(i) \/ ResponseTooLarge(i) \/ RecordResult(i) \/ RetainDetached(i)
             \/ Interrupted(i)
  BY <1>6, <1>7 DEF RequestRefused, ResponseTooLarge, RecordResult, RetainDetached, Interrupted,
                    Return
<1> HIDE DEF Goal
<1> QED
  BY <1>1, <1>2, <1>3, <1>4, <1>5, <1>7 DEF InvocationStep

\* Every step keeps what the calls rely on.
LEMMA CallsStep ==
  ASSUME InvocationInv, [InvocationNext]_vars, StoreInv', HeadMoves
  PROVE  CallsSound' /\ used \subseteq used'
<1>0. /\ call \in [Invoker -> Call]
      /\ \A i \in Invoker : CallSound(call[i])
      /\ \A i, j \in Invoker : call[i].at \in Drawn /\ call[j].at \in Drawn /\ i # j
                                 => call[i].request # call[j].request
  BY DEF InvocationInv, CallsSound
<1>2. CASE UNCHANGED <<call, used>>
  <2>1. \A i \in Invoker : CallSound(call[i])'
    BY <1>2, CallKept
  <2> QED
    BY <1>0, <1>2, <2>1 DEF CallsSound
<1>3. ASSUME NEW i \in Invoker, InvocationStep(i) PROVE CallsSound' /\ used \subseteq used'
  <2>1. /\ call'[i] \in Call /\ CallSound(call[i])' /\ used \subseteq used'
        /\ call'[i].at \in Drawn =>
             \/ call[i].at \in Drawn /\ call'[i].request = call[i].request
             \/ call'[i].request \notin used
    BY <1>3, CallActs
  <2>2. \A j \in Invoker \ {i} : call'[j] = call[j]
    BY <1>3, OneCallActs
  <2>3. call' = [call EXCEPT ![i] = call'[i]]
    BY <1>3, OneCallActs
  <2>4. call' \in [Invoker -> Call]
    BY <1>0, <2>1, <2>3
  <2>5. \A j \in Invoker \ {i} : CallSound(call[j])'
    BY <2>1, <2>2, CallKept
  <2>6. \A j \in Invoker : call[j].at \in Drawn => call[j].request \in used
    BY <1>0 DEF CallSound
  <2>7. ASSUME NEW j \in Invoker, NEW k \in Invoker, j # k, call'[j].at \in Drawn, call'[k].at \in Drawn
        PROVE  call'[j].request # call'[k].request
    BY <1>0, <2>1, <2>2, <2>6, <2>7
  <2> QED
    BY <2>1, <2>4, <2>5, <2>7 DEF CallsSound
<1> QED
  BY <1>2, <1>3 DEF InvocationNext, OthersStep, QueryStep, callVars, vars

----------------------------------------------------------------------------
(* What calls recorded *)

\* Reports keep what they promise.
LEMMA ReportKept ==
  ASSUME InvocationInv, StoreInv', HeadMoves, events \subseteq events', NEW r \in reports
  PROVE  /\ r.result \in events' /\ r.request \in History(r.on)'
         /\ r.of = "completed" => r.result \in History(r.on)'
         /\ r.of = "conflict" => ResultOf(r.result, r.request) /\ MovedOn(r.request, r.on)'
<1>1. /\ StoreInv /\ r.on \in RefName /\ r.request \in EventId
      /\ r.result \in events /\ r.request \in History(r.on)
      /\ r.of = "completed" => r.result \in History(r.on)
      /\ r.of = "conflict" => ResultOf(r.result, r.request) /\ MovedOn(r.request, r.on)
  BY DEF InvocationInv, ReportsSound, OutcomeRetained, Report
<1> QED
  BY <1>1, HistoryKept, StaysMovedOn

\* The steps that record an outcome.
Records(i) ==
  \/ call[i].at = "recording" /\ AdmitResult(i) /\ Return(i, "completed")
  \/ call[i].at = "stale" /\ Admit(call[i].result) /\ Return(i, "conflict")
  \/ /\ \/ call[i].at = "recording" /\ AdmitResult(i)
        \/ call[i].at = "stale" /\ Admit(call[i].result)
     /\ Return(i, "interrupted")

\* No other step of a call changes the reports.
LEMMA CallReports ==
  ASSUME NEW i \in Invoker, InvocationStep(i)
  PROVE  UNCHANGED reports \/ Records(i)
BY DEF InvocationStep, Select, SignRequest, ProviderReturns, CommitRequest, RequestRefused,
       ResponseTooLarge, RecordResult, ResultStale, RetainDetached, Interrupted, Records

\* A new report is true.
LEMMA ReportTrue ==
  ASSUME InvocationInv, StoreInv', HeadMoves, NEW i \in Invoker, Records(i)
  PROVE  \E r \in Report :
           /\ reports' = reports \cup {r} /\ r.request = call[i].request
           /\ r.result \in events' /\ r.request \in History(r.on)'
           /\ r.of = "completed" => r.result \in History(r.on)'
           /\ r.of = "conflict" => ResultOf(r.result, r.request) /\ MovedOn(r.request, r.on)'
<1>1. /\ StoreInv /\ CallSound(call[i]) /\ call[i].at \in {"recording", "stale"}
      /\ call[i].on \in RefName
  BY DEF InvocationInv, CallsSound, Call, Records
<1>2. PICK b \in RefName, x \in EventId, y \in EventId :
        call[i].on = b /\ call[i].request = x /\ call[i].result = y
  BY <1>1 DEF CallSound, Drawn, ResultOf
<1>3. ResultOf(y, x) /\ x \in History(b)'
  BY <1>1, <1>2, HistoryKept DEF CallSound, Committed
<1>4. PICK of \in {"completed", "conflict", "interrupted"} :
        /\ reports' = reports \cup {[of |-> of, on |-> b, request |-> x, result |-> y]}
        /\ of = "completed" => AdmitResult(i)
        /\ of = "conflict" => call[i].at = "stale" /\ UNCHANGED localRef
  BY <1>2 DEF Records, Return, Admit
<1> DEFINE r == [of |-> of, on |-> b, request |-> x, result |-> y]
<1>5. r \in Report
  BY DEF Report
<1>6. y \in events'
  BY <1>2 DEF Records, AdmitResult, AdmitAndMove, Admit, StoreEvent
<1>7. of = "completed" => y \in History(b)'
  BY <1>1, <1>2, <1>4, MovedHead DEF AdmitResult, AdmitAndMove
<1>8. of = "conflict" => MovedOn(x, b)'
  BY <1>1, <1>2, <1>3, <1>4 DEF CallSound, MovedOn, History, BranchHead
<1> QED
  BY <1>2, <1>3, <1>4, <1>5, <1>6, <1>7, <1>8

\* A step that records nothing leaves the reports and no call in their way.
LEMMA ReportsStep ==
  ASSUME InvocationInv, [InvocationNext]_vars, StoreInv', HeadMoves, events \subseteq events',
         CallsSound', used \subseteq used'
  PROVE  ReportsSound'
<1>0. /\ reports \subseteq Report
      /\ \A r, s \in reports : r.request = s.request => r = s
      /\ \A r \in reports : r.request \in used
      /\ \A r \in reports, j \in Invoker :
           call[j].at \in Drawn => call[j].request # r.request
      /\ \A j \in Invoker : call[j].at \in Drawn => call[j].request \in used
      /\ \A j, k \in Invoker : call[j].at \in Drawn /\ call[k].at \in Drawn /\ j # k
                                 => call[j].request # call[k].request
  BY DEF InvocationInv, ReportsSound, RecordedOnce, CallsSound, CallSound
<1>1. ASSUME UNCHANGED reports,
             \A j \in Invoker, r \in reports :
               call'[j].at \in Drawn => call'[j].request # r.request
      PROVE  ReportsSound'
  BY <1>0, <1>1, ReportKept DEF ReportsSound, OutcomeRetained, RecordedOnce
<1>2. CASE UNCHANGED <<call, reports>>
  BY <1>0, <1>1, <1>2
<1>3. ASSUME NEW i \in Invoker, InvocationStep(i), UNCHANGED reports PROVE ReportsSound'
  <2>1. call'[i].at \in Drawn => \/ call[i].at \in Drawn /\ call'[i].request = call[i].request
                                \/ call'[i].request \notin used
    BY <1>3, CallActs
  <2>2. \A j \in Invoker \ {i} : call'[j] = call[j]
    BY <1>3, OneCallActs
  <2> QED
    BY <1>0, <1>1, <1>3, <2>1, <2>2
<1>4. ASSUME NEW i \in Invoker, InvocationStep(i), Records(i) PROVE ReportsSound'
  <2>1. PICK r \in Report :
          /\ reports' = reports \cup {r} /\ r.request = call[i].request
          /\ r.result \in events' /\ r.request \in History(r.on)'
          /\ r.of = "completed" => r.result \in History(r.on)'
          /\ r.of = "conflict" => ResultOf(r.result, r.request) /\ MovedOn(r.request, r.on)'
    BY <1>4, ReportTrue
  <2>2. call[i].at \in Drawn /\ call'[i].at \notin Drawn
    BY <1>4, DefaultName DEF Records, Return, Finish, NoCall, Drawn, InvocationInv, CallsSound
  <2>3. \A j \in Invoker \ {i} : call'[j] = call[j]
    BY <1>4, OneCallActs
  <2>4. OutcomeRetained'
    BY <2>1, ReportKept DEF OutcomeRetained
  <2>5. RecordedOnce'
    BY <1>0, <2>1, <2>2 DEF RecordedOnce
  <2>6. \A q \in reports' :
          /\ q \in Report /\ q.request \in used'
          /\ \A j \in Invoker : call'[j].at \in Drawn => call'[j].request # q.request
    BY <1>0, <2>1, <2>2, <2>3
  <2>7. \A q \in reports' :
          q.of = "conflict" => ResultOf(q.result, q.request) /\ MovedOn(q.request, q.on)'
    BY <2>1, ReportKept
  <2> QED
    BY <2>4, <2>5, <2>6, <2>7 DEF ReportsSound, ResultOf
<1> QED
  BY <1>2, <1>3, <1>4, CallReports DEF InvocationNext, OthersStep, QueryStep, callVars, vars

----------------------------------------------------------------------------
(* Recovery queries *)

\* While the query waits, events and branches only grow.
LEMMA QueryKept ==
  ASSUME InvocationInv, StoreInv', HeadMoves, events \subseteq events', UNCHANGED query
  PROVE  QuerySound'
<1>1. /\ query \in Query /\ query.on \in RefName /\ query.stored \subseteq events /\ StoreInv
      /\ query.at # "none" => query.head \in History(query.on)
      /\ query.at \in {"projected", "answered"} => query.ancestry = Ancestors[query.head]
      /\ RecoveryComplete
  BY DEF InvocationInv, QuerySound, Query
<1>2. PICK b \in RefName : query.on = b
  BY <1>1
<1>3. History(b) \subseteq History(b)'
  BY <1>1, HistoryKept
<1>4. \A e \in query.stored :
        /\ e \in Requests' => e \in Requests
        /\ e \in Results' => e \in Results
  BY <1>1 DEF Requests, Results
<1>5. Results \subseteq Results'
  BY DEF Results
<1>6. RecoveryComplete'
  BY <1>1, <1>2, <1>3, <1>4, <1>5 DEF RecoveryComplete
<1> QED
  BY <1>1, <1>2, <1>3, <1>6 DEF QuerySound

\* Each snapshot adds what the next one relies on.
LEMMA QueryActs ==
  ASSUME InvocationInv, QueryStep
  PROVE  QuerySound'
<1>0. /\ query \in Query /\ query.on \in RefName /\ query.stored \subseteq events /\ StoreInv
      /\ query.at # "none" => query.head \in History(query.on)
      /\ query.at \in {"projected", "answered"} => query.ancestry = Ancestors[query.head]
      /\ events \subseteq EventId
  BY DEF InvocationInv, QuerySound, Query, StoreInv, TypeOK
<1>1. NoQuery \in Query /\ NoQuery.at = "none" /\ NoQuery.stored = {}
  BY DefaultName DEF NoQuery, Query, Optional
<1>2. UNCHANGED storeVars
  BY DEF QueryStep
<1>3. ASSUME NEW n \in RefName, NEW scan \in {"request", "result"}, QueryHead(n, scan)
      PROVE  QuerySound'
  <2>1. BranchHead(n) \in EventId
    BY <1>0, <1>3, InvokerAssumption
       DEF QueryHead, StoreInv, TypeOK, BranchHead, RefSnapshot, Optional
  <2>2. BranchHead(n) \in History(n)
    BY <2>1, AncestorsReflexive, NoneAssumption DEF History
  <2>3. /\ query' \in Query /\ query'.at = "head" /\ query'.on = n /\ query'.head = BranchHead(n)
        /\ query'.stored = events
    BY <1>0, <1>3, <2>1, InvokerAssumption DEF QueryHead, NoQuery, Query, Optional
  <2> QED
    BY <1>2, <2>2, <2>3 DEF QuerySound, RecoveryComplete, storeVars, History, BranchHead
<1>4. ASSUME QueryProject PROVE QuerySound'
  <2>1. query.head \in EventId
    BY <1>0, <1>4, HistoryStored DEF QueryProject
  <2>2. /\ query' \in Query /\ query'.at = "projected" /\ query'.on = query.on
        /\ query'.head = query.head /\ query'.stored = query.stored
        /\ query'.ancestry = Ancestors[query.head]
    BY <1>0, <1>4, <2>1, AncestorsType DEF QueryProject, Query
  <2> QED
    BY <1>0, <1>2, <1>4, <2>2
       DEF QueryProject, QuerySound, RecoveryComplete, storeVars, History, BranchHead
<1>5. ASSUME NEW limit \in QueryLimits, QueryRows(limit) PROVE QuerySound'
  <2> DEFINE found == {e \in Scanned : IF query.scan = "request" THEN ~Answered(e)
                                                                  ELSE ~OnBranch(e)}
  <2>1. found \subseteq EventId
    BY <1>0 DEF Scanned, Requests, Results
  <2>2. /\ query' \in Query /\ query'.at = "answered" /\ query'.on = query.on
        /\ query'.head = query.head /\ query'.stored = query.stored /\ query'.scan = query.scan
        /\ query'.ancestry = query.ancestry /\ query'.answer = found
        /\ query.at = "projected"
    BY <1>0, <1>5, <2>1 DEF QueryRows, Query
  <2>3. query.ancestry \subseteq History(query.on)
    <3>1. PICK h \in EventId : BranchHead(query.on) = h /\ History(query.on) = Ancestors[h]
      BY <1>0, <2>2, InvokerAssumption
         DEF History, StoreInv, TypeOK, BranchHead, RefSnapshot, Optional
    <3> QED
      BY <1>0, <2>2, <3>1, AncestorsTransitive
  <2>4. query.scan = "request" =>
          \A e \in Requests : e \in found <=> {d \in Results : Body[d].parents = {e}} = {}
    BY DEF Scanned, Answered
  <2>5. query.scan = "request" => found \subseteq Requests
    BY DEF Scanned
  <2>6. query.scan = "result" => Results \ History(query.on) \subseteq found
    BY <2>3 DEF Scanned, OnBranch
  <2>7. /\ Requests' = Requests /\ Results' = Results
        /\ \A n \in RefName : History(n)' = History(n)
    BY <1>2 DEF storeVars, Requests, Results, History, BranchHead
  <2>8. PICK b \in RefName : query.on = b
    BY <1>0
  <2> HIDE DEF found
  <2>9. RecoveryComplete'
    BY <2>2, <2>4, <2>5, <2>6, <2>7, <2>8 DEF RecoveryComplete
  <2> QED
    BY <1>0, <1>2, <2>2, <2>7, <2>8, <2>9 DEF QuerySound, storeVars
<1>6. ASSUME NEW limit \in QueryLimits, QueryRefused(limit) PROVE QuerySound'
  BY <1>1, <1>6 DEF QueryRefused, QuerySound, RecoveryComplete
<1> QED
  BY <1>3, <1>4, <1>5, <1>6 DEF QueryStep

----------------------------------------------------------------------------
(* The invariant *)

\* Nothing is stored, called or asked at the start.
LEMMA InvocationInitInv == InvocationInit => InvocationInv
<1> SUFFICES ASSUME InvocationInit PROVE InvocationInv
  OBVIOUS
<1>1. StoreInv /\ events = {}
  BY InitStoreInv DEF InvocationInit, Init
<1>2. NoCall \in Call /\ NoCall.at = "idle"
  BY DefaultName DEF NoCall, Call, Optional
<1>3. CallsSound
  BY <1>1, <1>2 DEF InvocationInit, CallsSound, CallSound, Drawn, Committed
<1>4. ReportsSound
  BY DEF InvocationInit, ReportsSound, OutcomeRetained, RecordedOnce
<1>5. NoQuery \in Query /\ NoQuery.at = "none" /\ NoQuery.stored = {}
  BY DefaultName DEF NoQuery, Query, Optional
<1>6. QuerySound
  BY <1>5 DEF InvocationInit, QuerySound, RecoveryComplete
<1> QED
  BY <1>1, <1>3, <1>4, <1>6 DEF InvocationInv

\* Every step of a call, a query or another writer keeps the invariant.
LEMMA InvocationStepInv == InvocationInv /\ [InvocationNext]_vars => InvocationInv'
<1> SUFFICES ASSUME InvocationInv, [InvocationNext]_vars PROVE InvocationInv'
  OBVIOUS
<1>1. [Next]_storeVars /\ HeadMoves
  BY StepEffect
<1>2. StoreInv' /\ events \subseteq events'
  BY <1>1, NextStoreInv, EventsKept DEF InvocationInv
<1>3. CallsSound' /\ ReportsSound'
  BY <1>1, <1>2, CallsStep, ReportsStep
<1>4. QuerySound'
  BY <1>1, <1>2, QueryKept, QueryActs DEF InvocationNext, vars
<1> QED
  BY <1>2, <1>3, <1>4 DEF InvocationInv

\* However many calls, queries and other writers interleave, and wherever
\* they are interrupted, the invariant holds.
THEOREM InvocationSafe == InvocationSpec => []InvocationInv
<1> QED
  BY InvocationInitInv, InvocationStepInv, PTL DEF InvocationSpec

\* The provider is called only for a request its branch keeps.
THEOREM CalledOnRecord == InvocationSpec => []RequestBeforeCall
<1>1. InvocationInv => RequestBeforeCall
  BY DEF InvocationInv, CallsSound, CallSound, Committed, RequestBeforeCall
<1> QED
  BY InvocationSafe, <1>1, PTL

\* No two outcomes are recorded for one request.
THEOREM OneOutcome == InvocationSpec => []RecordedOnce
<1>1. InvocationInv => RecordedOnce
  BY DEF InvocationInv, ReportsSound
<1> QED
  BY InvocationSafe, <1>1, PTL

\* What a call returned stays where it said it was.
THEOREM OutcomeKept == InvocationSpec => []OutcomeRetained
<1>1. InvocationInv => OutcomeRetained
  BY DEF InvocationInv, ReportsSound
<1> QED
  BY InvocationSafe, <1>1, PTL

\* A result kept off its branch reaches it only through a merge.
THEOREM ConflictsNeedMerge == InvocationSpec => ConflictStaysOff
<1>1. ASSUME InvocationInv, InvocationInv', [InvocationNext]_vars, NEW r \in reports',
             r.of = "conflict", r.result \in History(r.on)' \ History(r.on)
      PROVE  Body[BranchHead(r.on)'].kind = "context.merge"
  <2>1. r.on \in RefName /\ r.request \in EventId /\ StoreInv /\ StoreInv'
    BY <1>1 DEF InvocationInv, ReportsSound, Report
  <2>2. r \in reports
    <3>1. ASSUME UNCHANGED localRef PROVE FALSE
      BY <1>1, <3>1 DEF History, BranchHead
    <3>2. ASSUME NEW i \in Invoker, InvocationStep(i), r \notin reports PROVE UNCHANGED localRef
      <4>1. Records(i)
        BY <1>1, <3>2, CallReports
      <4> QED
        BY <1>1, <3>2, <4>1 DEF Records, Return, Admit
    <3> QED
      BY <1>1, <3>1, <3>2 DEF InvocationNext, OthersStep, QueryStep, callVars, vars
  <2>3. ResultOf(r.result, r.request) /\ MovedOn(r.request, r.on)
    BY <1>1, <2>2 DEF InvocationInv, ReportsSound
  <2> QED
    BY <1>1, <2>1, <2>3, StepEffect, ReachedByMerge
<1>2. InvocationInv /\ InvocationInv' /\ [InvocationNext]_vars =>
        [\A r \in reports' :
           r.of = "conflict" /\ r.result \in History(r.on)' \ History(r.on)
             => Body[BranchHead(r.on)'].kind = "context.merge"]_vars
  BY <1>1
<1> QED
  BY InvocationSafe, <1>2, PTL DEF InvocationSpec, ConflictStaysOff

\* The recovery queries miss nothing that was left when they began.
THEOREM RecoveryFindsAll == InvocationSpec => []RecoveryComplete
<1>1. InvocationInv => RecoveryComplete
  BY DEF InvocationInv, QuerySound
<1> QED
  BY InvocationSafe, <1>1, PTL

----------------------------------------------------------------------------
(* The call itself: CommandProvider and its child process                   *)

\* The first newline of a text stays the first when the text goes on.
LEMMA FirstLineStays ==
  ASSUME NEW T, NEW bytes \in Seq(T), NEW n \in 0..Len(bytes),
         Newlines(SubSeq(bytes, 1, n)) # {}
  PROVE  FirstLine(SubSeq(bytes, 1, n)) = FirstLine(bytes)
<1> DEFINE s == SubSeq(bytes, 1, n)
           LeastIn(t) == CHOOSE i \in Newlines(t) : \A j \in Newlines(t) : i <= j
<1>1. /\ s \in Seq(T) /\ Len(s) = n /\ DOMAIN s = 1..n /\ DOMAIN bytes = 1..Len(bytes)
      /\ \A i \in 1..n : s[i] = bytes[i]
  OBVIOUS
<1>2. /\ Newlines(s) = {i \in Newlines(bytes) : i <= n}
      /\ Newlines(bytes) \in SUBSET (1..Len(bytes))
  BY <1>1 DEF Newlines
<1>3. PICK i \in Newlines(s) : \A j \in Newlines(s) : i <= j
  <2>1. Newlines(s) \in SUBSET Nat /\ Newlines(s) # {}
    BY <1>1 DEF Newlines
  <2> HIDE DEF s
  <2> QED
    BY <2>1, LeastNumber
<1>4. i \in Nat /\ i \in Newlines(bytes) /\ i <= n /\ i \in 1..n
  BY <1>1, <1>2 DEF Newlines
<1>5. \A j \in Newlines(bytes) : i <= j
  BY <1>2, <1>3, <1>4
<1>6. LeastIn(s) = i
  BY <1>2, <1>3, <1>4
<1>7. LeastIn(bytes) = i
  BY <1>2, <1>4, <1>5
<1>8. Newlines(bytes) # {}
  BY <1>4
<1>9. SubSeq(s, 1, i - 1) = SubSeq(bytes, 1, i - 1)
  BY <1>1, <1>4
<1> HIDE DEF s
<1>10. FirstLine(s) = SubSeq(s, 1, LeastIn(s) - 1)
  BY <1>3 DEF FirstLine
<1>11. FirstLine(bytes) = SubSeq(bytes, 1, LeastIn(bytes) - 1)
  BY <1>8 DEF FirstLine
<1> QED
  BY <1>6, <1>7, <1>9, <1>10, <1>11 DEF s

\* A first line that says something starts like the text.
LEMMA FirstLineHead ==
  ASSUME NEW T, NEW bytes \in Seq(T), FirstLine(bytes) # << >>
  PROVE  bytes # << >> /\ FirstLine(bytes)[1] = bytes[1]
<1> DEFINE i == CHOOSE i \in Newlines(bytes) : \A j \in Newlines(bytes) : i <= j
<1>1. CASE Newlines(bytes) = {}
  BY <1>1 DEF FirstLine
<1>2. CASE Newlines(bytes) # {}
  <2>1. Newlines(bytes) \in SUBSET (1..Len(bytes))
    BY DEF Newlines
  <2>2. \E j \in Newlines(bytes) : \A k \in Newlines(bytes) : j <= k
    BY <1>2, <2>1, LeastNumber
  <2>3. i \in Newlines(bytes)
    BY <2>2
  <2> HIDE DEF i
  <2>4. i \in 1..Len(bytes)
    BY <2>1, <2>3
  <2>5. FirstLine(bytes) = SubSeq(bytes, 1, i - 1)
    BY <1>2 DEF FirstLine, i
  <2>6. Len(SubSeq(bytes, 1, i - 1)) = i - 1 /\ SubSeq(bytes, 1, i - 1) \in Seq(T)
    BY <2>4
  <2>7. i - 1 # 0
    BY <2>5, <2>6
  <2>8. SubSeq(bytes, 1, i - 1)[1] = bytes[1]
    BY <2>4, <2>7
  <2> QED
    BY <2>4, <2>5, <2>8
<1> QED
  BY <1>1, <1>2

\* What the two processes have of each other's bytes: what the host holds is
\* what it read of the child's output, and a child that is through with
\* writing, or ended by itself, wrote all of it.
Piped ==
  /\ program \in Programs
  /\ got \in Nat /\ written \in Nat /\ got <= written /\ written <= Len(program.output)
  /\ collected = SubSeq(program.output, 1, got)
  /\ child \in {"none", "read", "write", "drain", "exited", "killed"}
  /\ child \in {"drain", "exited"} => written = Len(program.output)

\* The host waits for the exit once it has a line, or all there ever will be;
\* until the exit it reports nothing.
Waits ==
  /\ host = "wait" => Newlines(collected) # {} \/ (got = written /\ ~Running)
  /\ host # "done" => outcome = "none"

\* A child is there from the start of the exchange; one that reads first has
\* its whole request before it goes on; and nothing kills an honest one while
\* the exchange lasts.
Served ==
  /\ sent \in Nat /\ taken \in Nat /\ request \in Nat /\ taken <= sent /\ sent <= request
  /\ host \in {"start", "write", "read", "wait", "done"}
  /\ host = "start" => child = "none"
  /\ host \in {"write", "read", "wait"} => child # "none"
  /\ program.readsFirst /\ child \in {"write", "drain", "exited"} => taken = request
  /\ Honest /\ host # "done" => child # "killed"

\* The inductive invariant of an exchange.
ProviderInv == Piped /\ Waits /\ Served /\ ResponseGenuine /\ VerdictTrue

\* A host step that ends the exchange for a reason changes none of the bytes.
LEMMA EndingKeeps ==
  ASSUME ProviderInv, NEW code, EndExchange(code), host # "done",
         UNCHANGED <<program, request, sent, taken, collected, got, written>>,
         \/ code = "provider_timeout"
         \/ code = "limit_exceeded" /\ request > LineLimit
         \/ code = "provider_transport" /\ (child' # "none" => ~Honest)
  PROVE  ProviderInv'
<1>1. /\ host' = "done" /\ outcome' = code /\ child' = IF Running THEN "killed" ELSE child
      /\ Honest' = Honest
  BY DEF EndExchange, Honest
<1>2. Piped' /\ Waits'
  BY <1>1 DEF ProviderInv, Piped, Waits, Running
<1>3. Served'
  BY <1>1 DEF ProviderInv, Served, Running
<1>4. ResponseGenuine' /\ VerdictTrue'
  BY <1>1 DEF ResponseGenuine, VerdictTrue
<1> QED
  BY <1>2, <1>3, <1>4 DEF ProviderInv

\* Of a child that ended by itself, the line that the host parses is the first
\* line of all it wrote: of a prefix that holds a newline, or of everything.
LEMMA WholeLine ==
  ASSUME ProviderInv, host = "wait", child = "exited"
  PROVE  FirstLine(collected) = FirstLine(program.output)
<1>1. program.output \in Seq(Unit)
  BY ProgramsAssumption DEF ProviderInv, Piped, Program
<1>2. got \in 0..Len(program.output) /\ collected = SubSeq(program.output, 1, got)
  BY <1>1 DEF ProviderInv, Piped
<1>3. CASE Newlines(collected) # {}
  BY <1>1, <1>2, <1>3, FirstLineStays
<1>4. CASE Newlines(collected) = {}
  <2>1. got = Len(program.output)
    BY <1>4 DEF ProviderInv, Piped, Waits
  <2>2. collected = program.output
    BY <1>1, <1>2, <2>1
  <2> QED
    BY <2>2
<1> QED
  BY <1>3, <1>4

\* What is parsed after the exit is what the child said.
LEMMA ExitKeeps ==
  ASSUME ProviderInv, AwaitExit
  PROVE  ProviderInv'
<1>1. program.output \in Seq(Unit)
  BY ProgramsAssumption DEF ProviderInv, Piped, Program
<1>2. /\ host = "wait" /\ host' = "done" /\ child' = child /\ ~Running
      /\ UNCHANGED <<program, request, sent, taken, collected, got, written>>
      /\ Honest' = Honest
  BY DEF AwaitExit, EndExchange, Running, Honest
<1>3. CASE child = "exited" /\ program.succeeds
  <2>1. outcome' = ParseLine(collected)
    BY <1>3 DEF AwaitExit, EndExchange
  <2>2. FirstLine(collected) = FirstLine(program.output)
    BY <1>2, <1>3, WholeLine
  <2>3. ParseLine(collected) = ParseLine(program.output)
    BY <2>2 DEF ParseLine
  <2>4. ParseLine(collected) # "provider_transport"
    BY DEF ParseLine
  <2>5. VerdictTrue'
    BY <1>2, <1>3, <2>1, <2>3, <2>4 DEF VerdictTrue
  <2>6. ASSUME outcome' = "response" PROVE ResponseGenuine'
    <3>1. FirstLine(program.output) # << >> /\ FirstLine(program.output)[1] = "response"
      BY <2>1, <2>2, <2>6 DEF ParseLine
    <3>2. program.output # << >> /\ program.output[1] = "response"
      BY <1>1, <3>1, FirstLineHead
    <3> QED
      BY <1>2, <1>3, <2>2, <3>2 DEF ResponseGenuine
  <2>7. Piped' /\ Waits' /\ Served'
    BY <1>2, <1>3 DEF ProviderInv, Piped, Waits, Served, Running
  <2> QED
    BY <2>5, <2>6, <2>7 DEF ProviderInv, ResponseGenuine
<1>4. CASE ~(child = "exited" /\ program.succeeds)
  <2>1. ~Honest
    BY <1>2, <1>4 DEF ProviderInv, Piped, Served, Running, Honest
  <2>2. EndExchange("provider_transport")
    BY <1>4 DEF AwaitExit
  <2> QED
    BY <1>2, <2>1, <2>2, EndingKeeps
<1> QED
  BY <1>3, <1>4

\* A read only lengthens the prefix, and cannot read more than was written.
LEMMA ReadKeeps ==
  ASSUME ProviderInv, NEW k, ReadChunk(k)
  PROVE  ProviderInv'
<1>1. program.output \in Seq(Unit)
  BY ProgramsAssumption DEF ProviderInv, Piped, Program
<1>2. /\ host = "read" /\ got' = got + k /\ collected' = SubSeq(program.output, 1, got + k)
      /\ UNCHANGED <<program, request, sent, taken, written>>
      /\ k \in 1..(written - got) /\ Honest' = Honest
  BY DEF ReadChunk, OutPipe, Honest
<1>3. k \in Nat /\ got + k <= written /\ got' <= Len(program.output)
  BY <1>2 DEF ProviderInv, Piped
<1>4. CASE Len(collected') > LineLimit + 1
  <2>1. EndExchange("limit_exceeded")
    BY <1>4 DEF ReadChunk
  <2>2. host' = "done" /\ outcome' = "limit_exceeded" /\ child' = IF Running THEN "killed" ELSE child
    BY <2>1 DEF EndExchange
  <2>3. Len(collected') = got + k
    BY <1>1, <1>2, <1>3 DEF ProviderInv, Piped
  <2>4. written > LineLimit + 1
    BY <1>3, <1>4, <2>3, SizesAssumption DEF ProviderInv, Piped
  <2>5. VerdictTrue' /\ ResponseGenuine'
    BY <1>2, <2>2, <2>4 DEF VerdictTrue, ResponseGenuine
  <2>6. Piped' /\ Waits'
    BY <1>2, <1>3, <2>2 DEF ProviderInv, Piped, Waits, Running
  <2>7. Served'
    BY <1>2, <2>2 DEF ProviderInv, Served, Running
  <2> QED
    BY <2>5, <2>6, <2>7 DEF ProviderInv
<1>5. CASE ~(Len(collected') > LineLimit + 1)
  <2>1. /\ host' = (IF Newlines(collected') # {} THEN "wait" ELSE "read")
        /\ outcome' = outcome /\ child' = child
    BY <1>5 DEF ReadChunk
  <2>2. Piped' /\ Waits'
    BY <1>2, <1>3, <2>1 DEF ProviderInv, Piped, Waits
  <2>3. Served'
    BY <1>2, <2>1 DEF ProviderInv, Served
  <2>4. VerdictTrue' /\ ResponseGenuine'
    BY <1>2, <2>1 DEF ProviderInv, Waits, VerdictTrue, ResponseGenuine
  <2> QED
    BY <2>2, <2>3, <2>4 DEF ProviderInv
<1> QED
  BY <1>4, <1>5

\* A child whose pipe is closed on it has written more than one line.
LEMMA BrokenKeeps ==
  ASSUME ProviderInv, ChildBroken
  PROVE  ProviderInv'
<1>1. program.output \in Seq(Unit)
  BY ProgramsAssumption DEF ProviderInv, Piped, Program
<1>2. /\ child = "write" /\ child' = "killed" /\ written < Len(program.output)
      /\ host \notin {"write", "read"}
      /\ UNCHANGED <<program, request, host, sent, taken, collected, outcome, got, written>>
      /\ Honest' = Honest
  BY DEF ChildBroken, StdoutOpen, hostVars, Honest
<1>3. ASSUME Honest, host # "done" PROVE FALSE
  <2>1. host = "wait" /\ Newlines(collected) # {}
    BY <1>2, <1>3 DEF ProviderInv, Waits, Served, Running
  <2>2. PICK i \in Newlines(collected) : TRUE
    BY <2>1
  <2>3. got \in Nat /\ got <= written /\ collected = SubSeq(program.output, 1, got)
        /\ written \in Nat
    BY DEF ProviderInv, Piped
  <2>4. i \in 1..got /\ collected[i] = program.output[i] /\ collected[i] = "newline"
    BY <1>1, <1>2, <2>2, <2>3 DEF Newlines
  <2>5. i \in Newlines(program.output)
    BY <1>1, <1>2, <2>3, <2>4 DEF Newlines
  <2> QED
    BY <1>1, <1>2, <1>3, <2>3, <2>4, <2>5 DEF Honest
<1>4. Piped' /\ Waits' /\ ResponseGenuine'
  BY <1>2 DEF ProviderInv, Piped, Waits, ResponseGenuine, Running
<1>5. Served'
  BY <1>2, <1>3 DEF ProviderInv, Served
<1>6. VerdictTrue'
  BY <1>2 DEF ProviderInv, VerdictTrue
<1> QED
  BY <1>4, <1>5, <1>6 DEF ProviderInv

\* The host writes what fits, and no more than the request.
LEMMA WriteKeeps ==
  ASSUME ProviderInv, NEW k, WriteRequest(k)
  PROVE  ProviderInv'
<1>1. /\ sent \in Nat /\ taken \in Nat /\ request \in Nat /\ PipeSize \in Nat
      /\ taken <= sent /\ sent <= request
  BY SizesAssumption DEF ProviderInv, Served
<1>2. k \in 1..(request - sent)
  BY <1>1 DEF WriteRequest, Smaller, InPipe
<1>3. /\ sent' = sent + k /\ host = "write"
      /\ UNCHANGED <<program, request, host, collected, outcome, got, child, taken, written>>
      /\ Honest' = Honest
  BY DEF WriteRequest, childVars, Honest
<1> QED
  BY <1>1, <1>2, <1>3 DEF ProviderInv, Piped, Waits, Served, ResponseGenuine, VerdictTrue, Running

\* The child takes the request unit by unit until it has all of it.
LEMMA ChildReadsKeeps ==
  ASSUME ProviderInv, ChildReads
  PROVE  ProviderInv'
<1>1. /\ sent \in Nat /\ taken \in Nat /\ request \in Nat /\ sent <= request
      /\ child = "read" /\ taken' = taken + 1 /\ taken' <= sent
      /\ child' = IF taken' = request THEN "write" ELSE "read"
  BY DEF ProviderInv, Served, ChildReads, InPipe
<1>2. /\ UNCHANGED <<program, request, host, sent, collected, outcome, got, written>>
      /\ Honest' = Honest
  BY DEF ChildReads, hostVars, Honest
<1>3. Served'
  BY <1>1, <1>2 DEF ProviderInv, Served
<1>4. Piped' /\ Waits' /\ ResponseGenuine' /\ VerdictTrue'
  BY <1>1, <1>2 DEF ProviderInv, Piped, Waits, Running, ResponseGenuine, VerdictTrue
<1> QED
  BY <1>3, <1>4 DEF ProviderInv

\* What is over the limit stays over it.
LEMMA ChildWritesKeeps ==
  ASSUME ProviderInv, ChildWrites
  PROVE  ProviderInv'
<1>1. /\ written \in Nat /\ Len(program.output) \in Nat /\ LineLimit \in Nat
      /\ child = "write" /\ written < Len(program.output) /\ written' = written + 1
  BY ProgramsAssumption, SizesAssumption DEF ProviderInv, Piped, ChildWrites, Program
<1>2. /\ UNCHANGED <<program, request, child, taken, host, sent, collected, outcome, got>>
      /\ Honest' = Honest
  BY DEF ChildWrites, hostVars, Honest
<1>3. Piped' /\ Waits'
  BY <1>1, <1>2 DEF ProviderInv, Piped, Waits, Running
<1>4. Served' /\ ResponseGenuine'
  BY <1>2 DEF ProviderInv, Served, ResponseGenuine
<1>5. VerdictTrue'
  BY <1>1, <1>2 DEF ProviderInv, VerdictTrue
<1> QED
  BY <1>3, <1>4, <1>5 DEF ProviderInv

\* Every step of either process keeps it.
LEMMA ProviderKeeps ==
  ASSUME ProviderInv, [ProviderNext]_providerVars
  PROVE  ProviderInv'
<1> USE DEF ProviderInv, Piped, Waits, Served, ResponseGenuine, VerdictTrue, Honest, Running
<1>1. CASE Refuse
  <2>1. host # "done" /\ UNCHANGED <<program, request, sent, taken, collected, got, written>>
    BY <1>1 DEF Refuse
  <2>2. CASE request > LineLimit /\ EndExchange("limit_exceeded")
    BY <2>1, <2>2, EndingKeeps
  <2>3. CASE EndExchange("provider_transport")
    <3>1. child' = "none"
      BY <1>1, <2>3 DEF EndExchange, Refuse
    <3> QED
      BY <2>1, <2>3, <3>1, EndingKeeps
  <2> QED
    BY <1>1, <2>2, <2>3 DEF Refuse
<1>2. CASE Spawn
  BY <1>2 DEF Spawn
<1>3. CASE WriteBroken
  <2>1. /\ host # "done" /\ UNCHANGED <<program, request, sent, taken, collected, got, written>>
        /\ EndExchange("provider_transport")
    BY <1>3 DEF WriteBroken
  <2>2. ~Honest
    BY <1>3 DEF WriteBroken
  <2> QED
    BY <2>1, <2>2, EndingKeeps
<1>4. CASE CloseStdin
  BY <1>4 DEF CloseStdin, childVars
<1>5. CASE ReadEnd
  BY <1>5 DEF ReadEnd, OutPipe, childVars
<1>6. CASE AwaitExit
  BY <1>6, ExitKeeps
<1>7. ASSUME NEW k, WriteRequest(k) PROVE ProviderInv'
  BY <1>7, WriteKeeps
<1>8. ASSUME NEW k, ReadChunk(k) PROVE ProviderInv'
  BY <1>8, ReadKeeps
<1>9. CASE ChildReads
  BY <1>9, ChildReadsKeeps
<1>10. CASE ChildWrites
  BY <1>10, ChildWritesKeeps
<1>11. CASE ChildBroken
  BY <1>11, BrokenKeeps
<1>12. CASE ChildWritten
  BY <1>12 DEF ChildWritten, hostVars
<1>13. CASE ChildDrains
  BY <1>13 DEF ChildDrains, hostVars, InPipe
<1>14. CASE ChildEnds
  BY <1>14 DEF ChildEnds, hostVars
<1>15. CASE Expire
  BY <1>15, EndingKeeps DEF Expire
<1>16. CASE UNCHANGED providerVars
  BY <1>16 DEF providerVars
<1> QED
  BY <1>1, <1>2, <1>3, <1>4, <1>5, <1>6, <1>7, <1>8, <1>9, <1>10, <1>11, <1>12, <1>13, <1>14,
    <1>15, <1>16 DEF ProviderNext, HostStep, ChildStep

\* The inductive invariant of an exchange holds throughout it.
THEOREM ProviderSafe == ProviderSpec => []ProviderInv
<1>1. ProviderInit => ProviderInv
  BY ProgramsAssumption, SizesAssumption DEF ProviderInit, ProviderInv, Piped, Waits, Served,
    ResponseGenuine, VerdictTrue, Running, Program
<1> QED
  BY <1>1, ProviderKeeps, PTL DEF ProviderSpec

\* A reported response is the child's first line, whole and for this request,
\* of a child that ended by itself with success.
THEOREM GenuineResponse == ProviderSpec => []ResponseGenuine
<1>1. ProviderInv => ResponseGenuine
  BY DEF ProviderInv
<1> QED
  BY ProviderSafe, <1>1, PTL

\* Every reported failure says what happened, and none of them is put on a
\* child that keeps the protocol.
THEOREM TrueVerdict == ProviderSpec => []VerdictTrue
<1>1. ProviderInv => VerdictTrue
  BY DEF ProviderInv
<1> QED
  BY ProviderSafe, <1>1, PTL
=============================================================================
