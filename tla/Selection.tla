----------------------------- MODULE Selection -----------------------------
(***************************************************************************)
(* What a sender selects for a task, and what it may claim of a selection, *)
(* as operators over one context of the store: select_sources and the      *)
(* budget (selection.rs, compiler.rs), the evaluation's simulated          *)
(* recipient and its cases (eval.rs), and the sufficiency and minimality   *)
(* checks (selection.rs).                                                  *)
(*                                                                         *)
(* A task is its text, as far as selection can tell ("blank", "no terms"   *)
(* or "terms"), and the events with one of its terms.                      *)
(***************************************************************************)
EXTENDS Handoff

CONSTANTS
  Stored,             \* the events the store holds, of whatever context
  MaxCandidates,      \* MAX_SELECTION_CANDIDATES
  MaxSelected, MaxSelectedBytes   \* SelectionBudget

----------------------------------------------------------------------------
(* selection.rs, compiler.rs *)

Selects(outcome, references) == [outcome |-> outcome, references |-> references]
Refuses(error) == Selects(error, {})

\* CompiledContext::compile refuses what is over budget; it never truncates.
WithinBudget(S) == Cardinality(S) <= MaxSelected /\ Weight(S) <= MaxSelectedBytes

\* select_sources with the baseline selector, whose ranking orders the
\* references but decides nothing.  A text of separators only is not blank,
\* and is found to have no terms when the candidates have been read.
SelectSources(task, candidates) ==
  LET matches == candidates \cap task.matches IN
  IF task.text = "blank" THEN Refuses("EmptyTask")
  ELSE IF Cardinality(candidates) > MaxCandidates THEN Refuses("TooManyCandidates")
  ELSE IF candidates = {} THEN Selects("NoSources", {})
  ELSE IF ~(candidates \subseteq Stored) THEN Refuses("UnverifiableSource")
  ELSE IF task.text = "no terms" THEN Refuses("EmptyTask")
  ELSE IF ~WithinBudget(matches) THEN Refuses("BudgetExceeded")
  ELSE IF matches = {} THEN Selects("NoMatch", {})
  ELSE Selects("selected", matches)

Selected == {"NoSources", "NoMatch", "selected"}

\* A closed selection under a policy that lists no kind (noop_policy of
\* eval.rs, no_add_policy of selection.rs).
CloseAlone(selected) == ParentClosure(selected)

----------------------------------------------------------------------------
(* eval.rs *)

\* simulate: what a recipient that can only see the handoff makes of it.
Simulate(h, critical) ==
  LET missing == critical \ h.events IN
  [noticed |-> missing \cap h.omissions, hidden |-> missing \ h.omissions,
   completed |-> missing = {}]

\* A task chain: a genesis and events that follow on it alone, one critical.
IsTaskChain(chain) ==
  /\ chain.genesis \in EventId /\ Parents[chain.genesis] = {}
  /\ chain.children \subseteq EventId
  /\ \A c \in chain.children : Parents[c] = {chain.genesis}
  /\ chain.critical \in chain.children

\* A case withholds the critical event or nothing.
CandidatesOf(chain, withheld) == chain.children \ withheld

Cases(chain) == {{}, {chain.critical}}

\* build_case, and whether it succeeds.
BuildCase(task, chain, withheld) ==
  LET selected == SelectSources(task, CandidatesOf(chain, withheld)).references
  IN  WithOmissions(FromDelta(CloseAlone(selected), RecipientAt(chain.genesis)), withheld)

CaseBuilds(task, chain, withheld) ==
  LET selection == SelectSources(task, CandidatesOf(chain, withheld)) IN
  /\ selection.outcome \in Selected
  /\ Closable(selection.references, CandidatesOf(chain, withheld))
  /\ Recognised(chain.genesis)
  /\ withheld \cap ComputeDelta(CloseAlone(selection.references),
                               RecipientAt(chain.genesis)) = {}

\* CaseResult::passes
PassesAsFailing(r) == ~r.completed /\ r.noticed # {} /\ r.hidden = {}
PassesAsPassing(r) == r.completed /\ r.noticed = {} /\ r.hidden = {}

\* run_eval_suite, for one task: its events are withheld and must be missed,
\* then offered and must do.
TaskPasses(task, chain) ==
  LET critical == {chain.critical} IN
  /\ \A withheld \in Cases(chain) : CaseBuilds(task, chain, withheld)
  /\ PassesAsFailing(Simulate(BuildCase(task, chain, critical), critical))
  /\ PassesAsPassing(Simulate(BuildCase(task, chain, {}), critical))

----------------------------------------------------------------------------
(* Claims *)

\* check_sufficiency: a recipient that has the genesis only is handed the
\* closed selection.
Sufficient(closed, genesis, critical) ==
  LET r == Simulate(FromDelta(closed, RecipientAt(genesis)), critical)
  IN  r.completed /\ r.hidden = {}

\* check_minimality: without any one of the selected sources, what is left
\* does not suffice.
RemovalMinimal(selected, genesis, critical) ==
  \A removed \in selected :
    ~Sufficient(CloseAlone(selected \ {removed}), genesis, critical)
=============================================================================
