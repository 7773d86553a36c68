--------------------------- MODULE BranchWriters ---------------------------
(***************************************************************************)
(* Concurrent writers of the branches of one context (Store::append,       *)
(* Store::merge, Store::create_branch).  A writer reads a head, signs an   *)
(* event on top of it outside any transaction, and submits it with that    *)
(* head as the compare-and-swap expectation.  Another writer may move the  *)
(* branch at any point in between; the commit acknowledgement may be lost  *)
(* (StoreError::IndeterminateCommit, or a crash of the writer), and the    *)
(* writer may then submit the same signed event again.                     *)
(***************************************************************************)
EXTENDS ContextStore

CONSTANTS
  Writer,      \* writers: CLI commands or tasks of one process
  IdentityOf,  \* the signing identity each writer uses
  Ctx          \* the context they work in

ASSUME WriterAssumption ==
  /\ Ctx \in ContextId /\ RefName # {}
  /\ IdentityOf \in [Writer -> AuthorId]

VARIABLES
  pc,      \* "idle", "holding" a head, "sent" a signed event, outcome "unknown"
  seen,    \* the head a writer expects the branch to be at
  target,  \* the branch it writes
  signed,  \* the event it signed
  acked    \* history: acknowledged head movements

writerVars == <<pc, seen, target, signed, acked>>
vars == <<storeVars, writerVars>>

Ack == [name : RefName, expected : EventId, event : EventId]

BranchHead(n) == localRef[Ctx][n]

ReadHead(w, n) ==
  /\ pc[w] = "idle"
  /\ BranchHead(n) # None
  /\ seen' = [seen EXCEPT ![w] = BranchHead(n)]
  /\ target' = [target EXCEPT ![w] = n]
  /\ pc' = [pc EXCEPT ![w] = "holding"]
  /\ UNCHANGED <<storeVars, signed, acked>>

\* Fault: the signed parents are not tied to the expected head.
MergeBodyAnyParents(w, e) ==
  /\ Body[e].kind = "context.merge"
  /\ Cardinality(Body[e].parents) > 1

\* The body append signs: one parent, the expected head, and no reserved kind.
AppendBody(w, e) ==
  /\ Body[e].kind \notin {"context.genesis", "context.merge"}
  /\ Body[e].parents = {seen[w]}

\* The body merge signs: at least two distinct parents, among them the
\* expected head.
MergeBody(w, e) ==
  /\ Body[e].kind = "context.merge"
  /\ seen[w] \in Body[e].parents
  /\ \E p \in Body[e].parents : p # seen[w]

Sign(w, e) ==
  /\ pc[w] = "holding"
  /\ Body[e].context = Ctx /\ Body[e].author = IdentityOf[w]
  /\ AppendBody(w, e) \/ MergeBody(w, e)
  /\ signed' = [signed EXCEPT ![w] = e]
  /\ pc' = [pc EXCEPT ![w] = "sent"]
  /\ UNCHANGED <<storeVars, seen, target, acked>>

\* The admission transaction append and merge run.
Submit(w) ==
  AdmitAndMove(signed[w], Ctx, target[w], seen[w], signed[w])

CommitAcknowledged(w) ==
  /\ pc[w] = "sent"
  /\ Submit(w)
  /\ acked' = acked \cup {[name |-> target[w], expected |-> seen[w],
                           event |-> signed[w]]}
  /\ pc' = [pc EXCEPT ![w] = "idle"]
  /\ UNCHANGED <<seen, target, signed>>

\* finish_transaction: the commit call fails, and the writer cannot tell
\* whether the transaction took effect.
CommitIndeterminate(w) ==
  /\ pc[w] = "sent"
  /\ Submit(w) \/ UNCHANGED storeVars
  /\ pc' = [pc EXCEPT ![w] = "unknown"]
  /\ UNCHANGED <<seen, target, signed, acked>>

\* The writer is told StaleHead or another refusal; the transaction is gone.
Refused(w) ==
  /\ pc[w] = "sent"
  /\ ~Admissible(signed[w]) \/ StaleHead(signed[w], target[w], seen[w])
  /\ pc' = [pc EXCEPT ![w] = "idle"]
  /\ UNCHANGED <<storeVars, seen, target, signed, acked>>

Retry(w) ==
  /\ pc[w] = "unknown"
  /\ pc' = [pc EXCEPT ![w] = "sent"]
  /\ UNCHANGED <<storeVars, seen, target, signed, acked>>

GiveUp(w) ==
  /\ pc[w] \in {"holding", "unknown"}
  /\ pc' = [pc EXCEPT ![w] = "idle"]
  /\ UNCHANGED <<storeVars, seen, target, signed, acked>>

----------------------------------------------------------------------------
WritersInit ==
  /\ Init
  /\ pc = [w \in Writer |-> "idle"]
  /\ seen = [w \in Writer |-> None]
  /\ target = [w \in Writer |-> CHOOSE n \in RefName : TRUE]
  /\ signed = [w \in Writer |-> None]
  /\ acked = {}

WriterStep(w) ==
  \/ \E n \in RefName : ReadHead(w, n)
  \/ \E e \in EventId : Sign(w, e)
  \/ CommitAcknowledged(w) \/ CommitIndeterminate(w)
  \/ Refused(w) \/ Retry(w) \/ GiveUp(w)

OperatorStep ==
  /\ \/ \E g \in EventId, n \in RefName : CreateContext(g, n)
     \/ \E a \in AuthorId : AuthorizeAuthor(Ctx, a)
     \/ \E n \in RefName, e \in EventId : CreateBranch(Ctx, n, e)
  /\ UNCHANGED writerVars

WritersNext == OperatorStep \/ \E w \in Writer : WriterStep(w)

WritersSpec == WritersInit /\ [][WritersNext]_vars

----------------------------------------------------------------------------
(* Properties *)

\* Control and working values have their types, and a writer past reading
\* holds a head (and past signing an event) of its own.
WritersTypeOK ==
  /\ TypeOK
  /\ pc \in [Writer -> {"idle", "holding", "sent", "unknown"}]
  /\ seen \in [Writer -> Optional(EventId)]
  /\ target \in [Writer -> RefName]
  /\ signed \in [Writer -> Optional(EventId)]
  /\ acked \subseteq Ack
  /\ \A w \in Writer :
       /\ pc[w] # "idle" => seen[w] \in EventId
       /\ pc[w] \in {"sent", "unknown"} =>
            /\ signed[w] \in EventId
            /\ seen[w] \in Body[signed[w]].parents

\* No lost update: once a writer has been told its event is on a branch, the
\* event stays in that branch's history, whatever other writers, lost
\* acknowledgements and retries do.
AckedStaysInHistory ==
  \A a \in acked :
    BranchHead(a.name) # None /\ a.event \in Ancestors[BranchHead(a.name)]

\* The acknowledged heads of one branch form a line: of two, one descends
\* from the other.
AckedLinear ==
  \A a, b \in acked : a.name = b.name =>
    a.event \in Ancestors[b.event] \/ b.event \in Ancestors[a.event]

\* One winner per head: of the appends that expected the same head of the
\* same branch, at most one event is ever acknowledged
\* (tests/oa02_concurrency.rs), retries with lost acknowledgements included.
OneWinner ==
  \A a, b \in acked :
    /\ a.name = b.name /\ a.expected = b.expected
    /\ Body[a.event].parents = {a.expected}
    /\ Body[b.event].parents = {b.expected}
    => a.event = b.event

\* Losers leave nothing behind (README: stale writers leave no event or edge
\* behind): every stored event is in the history of some local branch.
NoOrphans ==
  \A e \in events : \E n \in RefName :
    localRef[Body[e].context][n] # None /\ e \in Ancestors[localRef[Body[e].context][n]]

\* append and merge only ever move a branch forward.
BranchDescends == [][
  \A n \in RefName : BranchHead(n) # None =>
    BranchHead(n) \in Ancestors[BranchHead(n)']]_vars

\* Reading, signing, submitting and submitting again have the effect of whole
\* appends and merges, each on the head its branch has (AtomicWriters).
Atomic == INSTANCE AtomicWriters WITH told <- acked

WritersAtomic == Atomic!AtomicSpec
=============================================================================
