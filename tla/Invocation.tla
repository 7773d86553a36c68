----------------------------- MODULE Invocation -----------------------------
(***************************************************************************)
(* Recording of provider invocations (provider.rs, record_invocation) and  *)
(* the recovery queries over what was recorded (store/invocation.rs).      *)
(*                                                                         *)
(* An invocation commits a signed agent.request on the head its caller     *)
(* selected, calls the provider with no transaction held, and commits the  *)
(* linked result on top of the request.  Meanwhile other writers move the  *)
(* branch, the process may crash between any two steps, and a commit may   *)
(* be indeterminate.  The queries read the branch head, its projection and *)
(* the event table in three separate snapshots.                            *)
(***************************************************************************)
EXTENDS ContextStore

CONSTANTS
  Invoker,     \* running or future calls of record_invocation
  IdentityOf,  \* the identity each signs with
  Ctx,         \* the context they record in
  QueryLimits  \* values of MAX_INVOCATION_QUERY_RESULTS

ASSUME InvokerAssumption ==
  /\ Ctx \in ContextId /\ RefName # {}
  /\ IdentityOf \in [Invoker -> AuthorId]
  /\ QueryLimits \subseteq Nat

VARIABLES
  call,     \* the call of each invoker: its step and its local values
  used,     \* requests whose random invocation id a call has drawn
  reports,  \* history: the outcomes that calls have recorded
  query     \* the recovery query in progress

callVars == <<call, used, reports>>
vars == <<storeVars, callVars, query>>

Report == [of : {"completed", "conflict", "interrupted"}, on : RefName,
           request : EventId, result : EventId]

Call == [at : {"idle", "selected", "signed", "calling", "recording", "stale"},
         on : RefName, head : Optional(EventId),
         request : Optional(EventId), result : Optional(EventId)]

NoCall == [at |-> "idle", on |-> CHOOSE n \in RefName : TRUE, head |-> None,
           request |-> None, result |-> None]

Requests == {e \in events : Body[e].context = Ctx
                            /\ Body[e].kind = "agent.request"}
Results == {e \in events : Body[e].context = Ctx
                            /\ Body[e].kind \in {"agent.response", "agent.error"}}

BranchHead(n) == localRef[Ctx][n]
History(n) == IF BranchHead(n) = None THEN {} ELSE Ancestors[BranchHead(n)]

----------------------------------------------------------------------------
(* record_invocation *)

\* The caller reads a head and selects it; its ancestry is projected.
Select(i, n) ==
  /\ call[i].at = "idle"
  /\ BranchHead(n) # None
  /\ call' = [call EXCEPT ![i] = [NoCall EXCEPT !.at = "selected", !.on = n,
                                                !.head = BranchHead(n)]]
  /\ UNCHANGED <<storeVars, used, reports>>

\* Fault: the invocation id is derived from the input instead of drawn.
FreshIdDerived(e) == TRUE

\* The random invocation id makes a request an event nobody has signed.
FreshId(e) == e \notin used \cup events

SignRequest(i, e) ==
  /\ call[i].at = "selected"
  /\ Body[e].kind = "agent.request" /\ FreshId(e)
  /\ Body[e].context = Ctx /\ Body[e].author = IdentityOf[i]
  /\ Body[e].parents = {call[i].head}
  /\ call' = [call EXCEPT ![i].at = "signed", ![i].request = e]
  /\ used' = used \cup {e}
  /\ UNCHANGED <<storeVars, reports>>

AdmitRequest(i) ==
  AdmitAndMove(call[i].request, Ctx, call[i].on, call[i].head, call[i].request)

\* Fault: the provider is called whatever became of the commit.
CommitRequestUnawaited(i) ==
  /\ call[i].at = "signed"
  /\ AdmitRequest(i) \/ UNCHANGED storeVars
  /\ call' = [call EXCEPT ![i].at = "calling"]
  /\ UNCHANGED <<used, reports>>

CommitRequest(i) ==
  /\ call[i].at = "signed"
  /\ AdmitRequest(i)
  /\ call' = [call EXCEPT ![i].at = "calling"]
  /\ UNCHANGED <<used, reports>>

Finish(i) == call' = [call EXCEPT ![i] = NoCall]

RequestRefused(i) ==
  /\ call[i].at = "signed"
  /\ \/ ~Admissible(call[i].request)
     \/ StaleHead(call[i].request, call[i].on, call[i].head)
  /\ Finish(i)
  /\ UNCHANGED <<storeVars, used, reports>>

\* The provider answers, declares a failure, breaks the protocol or is killed
\* after its timeout: every outcome is signed as the request's only child.
ProviderReturns(i, e) ==
  /\ call[i].at = "calling"
  /\ Body[e].kind \in {"agent.response", "agent.error"}
  /\ Body[e].context = Ctx /\ Body[e].author = IdentityOf[i]
  /\ Body[e].parents = {call[i].request}
  /\ call' = [call EXCEPT ![i].at = "recording", ![i].result = e]
  /\ UNCHANGED <<storeVars, used, reports>>

\* A response over the limit is not recorded at all.
ResponseTooLarge(i) ==
  /\ call[i].at = "calling"
  /\ Finish(i)
  /\ UNCHANGED <<storeVars, used, reports>>

\* The call ends with its result committed.
Return(i, of) ==
  /\ reports' = reports \cup {[of |-> of, on |-> call[i].on,
                               request |-> call[i].request,
                               result |-> call[i].result]}
  /\ Finish(i)
  /\ UNCHANGED used

AdmitResult(i) ==
  AdmitAndMove(call[i].result, Ctx, call[i].on, call[i].request, call[i].result)

RecordResult(i) ==
  /\ call[i].at = "recording"
  /\ AdmitResult(i)
  /\ Return(i, "completed")

ResultStale(i) ==
  /\ call[i].at = "recording"
  /\ StaleHead(call[i].result, call[i].on, call[i].request)
  /\ call' = [call EXCEPT ![i].at = "stale"]
  /\ UNCHANGED <<storeVars, used, reports>>

\* Faults: the conflict is returned without retaining the result; or the
\* result is forced onto the branch after all.
RetainDetachedNot(i) ==
  /\ call[i].at = "stale"
  /\ Return(i, "conflict")
  /\ UNCHANGED storeVars

RetainDetachedForced(i) ==
  /\ call[i].at = "stale"
  /\ AdmitAndMove(call[i].result, Ctx, call[i].on, BranchHead(call[i].on),
                  call[i].result)
  /\ Return(i, "conflict")

\* PostExecutionConflict: the branch moved, the result is kept off it.
RetainDetached(i) ==
  /\ call[i].at = "stale"
  /\ Admit(call[i].result)
  /\ Return(i, "conflict")

\* A crash or a failed commit, with or without effect, ends the call.
Interrupted(i) ==
  \/ /\ call[i].at # "idle"
     /\ UNCHANGED storeVars \/ (call[i].at = "signed" /\ AdmitRequest(i))
     /\ Finish(i)
     /\ UNCHANGED <<used, reports>>
  \/ /\ \/ call[i].at = "recording" /\ AdmitResult(i)
        \/ call[i].at = "stale" /\ Admit(call[i].result)
     /\ Return(i, "interrupted")

----------------------------------------------------------------------------
(* Other writers.  BranchWriters shows what they may do between reading a   *)
(* head and committing; here a whole append or merge is one step.  append   *)
(* takes every kind but two, requests and results of a call included.       *)

\* Nobody else can sign the request of a call before it is stored: its random
\* id is known to the call alone.
Guessed(e) == e \in used \ events

OtherAppend(n, e) ==
  /\ Body[e].kind \notin {"context.genesis", "context.merge"}
  /\ Body[e].parents = {BranchHead(n)} /\ ~Guessed(e)
  /\ ExtendBranch(Ctx, n, e)

OtherMerge(n, e) ==
  /\ Body[e].kind = "context.merge" /\ ExtendBranch(Ctx, n, e)

OthersStep ==
  /\ \E n \in RefName, e \in EventId :
       \/ CreateContext(e, n)
       \/ CreateBranch(Ctx, n, e)
       \/ OtherAppend(n, e) \/ OtherMerge(n, e)
  /\ UNCHANGED callVars

----------------------------------------------------------------------------
(* pending_invocations (scan = "request") and detached_results ("result"):  *)
(* both filter the rows of invocation_rows.                                 *)

NoQuery == [at |-> "none", on |-> CHOOSE n \in RefName : TRUE,
            scan |-> "request", head |-> None, ancestry |-> {},
            answer |-> {}, stored |-> {}]

\* First snapshot: the head of the branch.
QueryHead(n, scan) ==
  /\ query.at \in {"none", "answered"}
  /\ BranchHead(n) # None
  /\ query' = [NoQuery EXCEPT !.at = "head", !.on = n, !.scan = scan,
                              !.head = BranchHead(n), !.stored = events]

\* Second snapshot: its projection, which is fixed by the head.
QueryProject ==
  /\ query.at = "head"
  /\ query' = [query EXCEPT !.at = "projected", !.ancestry = Ancestors[query.head]]

\* Fault: any child counts as the request's result.
AnsweredByAnyChild(e) == \E d \in events : e \in Body[d].parents

Answered(e) == \E d \in Results : Body[d].parents = {e}

OnBranch(e) == e \in query.ancestry

Scanned == IF query.scan = "request" THEN Requests ELSE Results

TooManyRows(limit) ==
  \/ Cardinality(Scanned) > limit
  \/ Cardinality(Requests \cup Results) > 2 * limit

\* Third snapshot: the rows of the context.
QueryRows(limit) ==
  /\ query.at = "projected" /\ ~TooManyRows(limit)
  /\ query' = [query EXCEPT
       !.at = "answered",
       !.answer = {e \in Scanned : IF query.scan = "request" THEN ~Answered(e)
                                                            ELSE ~OnBranch(e)}]

QueryRefused(limit) ==
  /\ query.at = "projected" /\ TooManyRows(limit)
  /\ query' = NoQuery

QueryStep ==
  /\ \/ \E n \in RefName, scan \in {"request", "result"} : QueryHead(n, scan)
     \/ QueryProject
     \/ \E limit \in QueryLimits : QueryRows(limit) \/ QueryRefused(limit)
  /\ UNCHANGED <<storeVars, callVars>>

----------------------------------------------------------------------------
InvocationInit ==
  /\ Init
  /\ call = [i \in Invoker |-> NoCall]
  /\ used = {} /\ reports = {}
  /\ query = NoQuery

InvocationStep(i) ==
  \/ \E n \in RefName : Select(i, n)
  \/ \E e \in EventId : SignRequest(i, e) \/ ProviderReturns(i, e)
  \/ CommitRequest(i) \/ RequestRefused(i) \/ ResponseTooLarge(i)
  \/ RecordResult(i) \/ ResultStale(i) \/ RetainDetached(i) \/ Interrupted(i)

InvocationNext ==
  \/ (OthersStep \/ \E i \in Invoker : InvocationStep(i)) /\ UNCHANGED query
  \/ QueryStep

InvocationSpec == InvocationInit /\ [][InvocationNext]_vars

----------------------------------------------------------------------------
(* Properties *)

\* The provider runs only for a request that is committed and that the
\* branch keeps (provider.rs, step 5 of the recording sequence), whatever
\* other writers do during the call.
RequestBeforeCall ==
  \A i \in Invoker : call[i].at \in {"calling", "recording", "stale"} =>
    call[i].request \in History(call[i].on)

\* Calls record one outcome for a request, returned to the caller or cut off
\* by a crash: although a branch that is already at the new head counts as
\* moved, no two calls take the same request for theirs.  (Another writer may
\* well append a result on it.)
RecordedOnce ==
  \A r, s \in reports : r.request = s.request => r = s

\* What a call recorded is never lost, whoever else answers its request: the
\* request stays in the history of the branch, and so does the result if the
\* call completed; after a conflict or a crash the result is stored.
OutcomeRetained ==
  \A r \in reports :
    /\ r.result \in events /\ r.request \in History(r.on)
    /\ r.of = "completed" => r.result \in History(r.on)

\* A result retained after a conflict reaches its branch only through a
\* merge: neither the call nor any later append moves the branch onto it.
\* (Another writer may have put the very same event there before the call
\* came to record it.)
ConflictStaysOff == [][
  \A r \in reports' :
    r.of = "conflict" /\ r.result \in History(r.on)' \ History(r.on)
      => Body[BranchHead(r.on)'].kind = "context.merge"]_vars

\* After a crash the queries find what was left, although each reads three
\* snapshots: pending_invocations every request that was stored when it began
\* and that no result answers, built upon or not, and none that was answered
\* by then; detached_results every result that was stored when it began and
\* that the branch has not reached since.
RecoveryComplete ==
  LET answers(e) == {d \in Results : Body[d].parents = {e}} IN
  /\ query.at = "answered" /\ query.scan = "request" =>
       /\ \A e \in Requests \cap query.stored : answers(e) = {} => e \in query.answer
       /\ \A e \in query.answer : answers(e) \cap query.stored = {}
  /\ query.at = "answered" /\ query.scan = "result" =>
       (Results \ History(query.on)) \cap query.stored \subseteq query.answer

\* invocation.rs:35: pending_invocations returns requests on the branch
\* ancestry.
PendingOnBranch ==
  query.at = "answered" /\ query.scan = "request" =>
    query.answer \subseteq History(query.on)
=============================================================================
