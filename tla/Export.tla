------------------------------- MODULE Export -------------------------------
(***************************************************************************)
(* export_sync_page (store/sync.rs) and what post_export (http.rs) adds:   *)
(* the history of the requested heads is listed by the traversal, step by  *)
(* step, and so is the history of the heads the client knows, which is     *)
(* taken out; the rest is sent page by page, each page cut by the binary   *)
(* search of ExportPage.  The client follows the cursor until there is     *)
(* none.                                                                   *)
(*                                                                         *)
(* The store stands still here: PullSync lets it change between pages.     *)
(***************************************************************************)
EXTENDS Traversal

CONSTANTS
  EventId,           \* the stored events of the context
  ProjectionLimits,  \* the limits of a projection: [events, bytes]
  PageLimits,        \* [events, bytes] of requests, and the response cap
  Overhead,          \* bytes of a bundle without events
  Envelope           \* what the response adds to the bundle

VARIABLES
  parents,  \* the stored edges
  heads,    \* the normalized heads asked for
  bounds,   \* the projection limits
  run,      \* the traversal from the heads asked for
  known,    \* the heads the client knows, of this context
  had,      \* the traversal from them
  plan,     \* what it is missing
  sent,     \* what the pages so far held
  size, limits, low, high, best, answer  \* the current page (ExportPage)

projectVars == <<parents, heads, bounds, run>>
pageVars == <<size, limits, low, high, best, answer>>
vars == <<projectVars, known, had, plan, sent, pageVars>>

Page == INSTANCE ExportPage WITH Limits <- PageLimits

ASSUME ExportAssumption ==
  /\ IdOrder \in Seq(EventId) /\ ListedIn(IdOrder) = EventId
  /\ \A i, j \in DOMAIN IdOrder : IdOrder[i] = IdOrder[j] => i = j
  /\ Size \in [EventId -> Nat \ {0}]
  /\ ProjectionLimits \subseteq [events : Nat, bytes : Nat]
  /\ Overhead \in Nat
  /\ Page!PageAssumption

\* Addresses are hashes of bodies that name their parents, so there are no
\* cycles, and every context has one genesis (ContextStore: HistoryRooted).
Acyclic(edges) ==
  \A S \in SUBSET EventId : S # {} => \E e \in S : edges[e] \cap S = {}

OneRoot(edges) == \E root \in EventId : \A e \in EventId : edges[e] = {} <=> e = root

Graphs == {edges \in [EventId -> SUBSET EventId] : OneRoot(edges) /\ Acyclic(edges)}

NoLimits == [events |-> 0, bytes |-> 0, cap |-> 0]

Init ==
  /\ parents \in Graphs /\ heads \in (SUBSET EventId) \ {{}}
  /\ bounds \in ProjectionLimits /\ run = StartTraversal(heads)
  /\ known = {} /\ had = StartTraversal({}) /\ plan = << >> /\ sent = << >>
  /\ size = << >> /\ limits = NoLimits /\ low = 0 /\ high = 0 /\ best = 0
  /\ answer = "projecting"

StepProjection ==
  /\ run.outcome = "running"
  /\ run' = TraversalStep(run, parents, bounds)
  /\ UNCHANGED <<parents, heads, bounds, known, had, plan, sent, pageVars>>

\* The known heads are projected in turn, under the same limits.
StartKnown(k) ==
  /\ run.outcome = "done" /\ answer = "projecting"
  /\ known' = k /\ had' = StartTraversal(k)
  /\ answer' = "subtracting"
  /\ UNCHANGED <<projectVars, plan, sent, size, limits, low, high, best>>

StepKnown ==
  /\ answer = "subtracting" /\ had.outcome = "running"
  /\ had' = TraversalStep(had, parents, bounds)
  /\ UNCHANGED <<projectVars, known, plan, sent, pageVars>>

\* A known history beyond the limits refuses the request.
RefuseKnown ==
  /\ answer = "subtracting" /\ had.outcome \notin {"running", "done"}
  /\ answer' = "refused"
  /\ UNCHANGED <<projectVars, known, had, plan, sent, size, limits, low, high, best>>

\* Fault: only the known heads are taken out, not what they stand on.
MissingButHeads(listed, has) == Kept(listed, EventId \ known)

\* The plan: what the heads asked for have and the known heads lack.
Missing(listed, has) == Kept(listed, EventId \ has)

\* The bytes of some events.
WireBytes(S) ==
  LET upTo[n \in 0..Len(IdOrder)] ==
        IF n = 0 THEN 0
        ELSE upTo[n - 1] + (IF IdOrder[n] \in S THEN Size[IdOrder[n]] ELSE 0)
  IN  upTo[Len(IdOrder)]

\* The bundles of the next events of plan p after the first n.
BundleSizes(p, n) ==
  [c \in 1..(Len(p) - n) |-> Overhead + WireBytes({p[i] : i \in (n + 1)..(n + c)})]

\* With nothing missing the bundle is empty.
PlanPages(l) ==
  /\ answer = "subtracting" /\ had.outcome = "done"
  /\ limits' = l
  /\ plan' = Missing(run.ordered, ListedIn(had.ordered))
  /\ IF plan' = << >> THEN answer' = "nothing" /\ UNCHANGED <<size, low, high, best>>
     ELSE Page!StartSearch(BundleSizes(plan', 0))
  /\ UNCHANGED <<projectVars, known, had, sent>>

Probe == Page!Probe /\ UNCHANGED <<projectVars, known, had, plan, sent>>

RefusePage == Page!RefusePage /\ UNCHANGED <<projectVars, known, had, plan, sent>>

Respond ==
  /\ Page!Respond
  /\ sent' = IF answer' = "page"
             THEN sent \o SubSeq(plan, Len(sent) + 1, Len(sent) + best) ELSE sent
  /\ UNCHANGED <<projectVars, known, had, plan>>

\* The cursor names the next offset, if that is not the end.
NextPage ==
  /\ answer = "page" /\ Len(sent) < Len(plan)
  /\ UNCHANGED <<projectVars, known, had, plan, sent, limits>>
  /\ Page!StartSearch(BundleSizes(plan, Len(sent)))

Next ==
  \/ StepProjection \/ StepKnown \/ RefuseKnown
  \/ \E k \in SUBSET EventId : StartKnown(k)
  \/ \E l \in PageLimits : PlanPages(l)
  \/ Probe \/ RefusePage \/ Respond \/ NextPage

Spec == Init /\ [][Next]_vars /\ WF_vars(Next)

----------------------------------------------------------------------------
(* Properties *)

ClosedUnder(S) == \A e \in S : parents[e] \subseteq S

\* The history of heads: the least set around them closed under parents.
History(hs) ==
  {e \in EventId : \A S \in SUBSET EventId : hs \subseteq S /\ ClosedUnder(S) => e \in S}

Before(s, i) == {s[j] : j \in 1..(i - 1)}

\* The traversal lists parents first, so every prefix of what it has listed
\* can be imported, and when it ends it has listed the history of the heads,
\* each event once: diamonds and heads below other heads included.
ListsHistory ==
  /\ \A i \in DOMAIN run.ordered :
       parents[run.ordered[i]] \subseteq Before(run.ordered, i)
  /\ run.outcome = "done" =>
       /\ ListedIn(run.ordered) = History(heads)
       /\ Len(run.ordered) = Cardinality(History(heads))

\* The limits are exact whatever the traversal order: a projection succeeds
\* if the whole history is within them and is refused for them otherwise;
\* being reached again along another path is never taken for a cycle.
LimitsExact ==
  LET fits == /\ Cardinality(History(heads)) <= bounds.events
              /\ WireBytes(History(heads)) <= bounds.bytes
  IN  run.outcome # "running" => run.outcome = IF fits THEN "done" ELSE "limit"

\* Every page is the longest one within the request's limits; a refusal
\* means that not even one event fits, or that more was asked for than the
\* response cap leaves (ExportPage).
AnswerExact == Page!AnswerExact

\* Pages follow on: a client that has the history of the heads it named can
\* import them one after the other, because the parents of every event are
\* in that history or were sent before it; nothing it has is sent again, and
\* once there is no cursor it has the history of the heads it asked for.
PagesFollowOn ==
  LET has == History(known) IN
  /\ \A i \in DOMAIN sent : /\ parents[sent[i]] \subseteq has \cup Before(sent, i)
                            /\ sent[i] \notin has \cup Before(sent, i)
  /\ answer \in {"page", "nothing"} /\ Len(sent) = Len(plan) =>
       History(heads) \subseteq has \cup ListedIn(sent)

\* The response to the request, or the last page of it.
Finished ==
  \/ run.outcome = "limit" \/ answer \in {"refused", "nothing"}
  \/ answer \in {"limit_exceeded", "payload_too_large"}
  \/ answer = "page" /\ Len(sent) = Len(plan)

\* Every request is answered, whatever its limits: the projection ends, each
\* search ends, and the pages come to an end.
Answered == <>Finished
=============================================================================
