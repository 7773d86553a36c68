---------------------------- MODULE HandoffProofs ----------------------------
(***************************************************************************)
(* What Option B promises, for every context, policy, driver and bound.    *)
(* Of a selection: a removal-minimal one is minimal among its subsets, and *)
(* the verdict of the evaluation depends on one thing only.  Of a repair   *)
(* sequence: what it offers, re-includes, delivers and records, however    *)
(* many sequences and failures there are.                                  *)
(*                                                                         *)
(* The invariant RepairInv says of every handoff in play that it is honest *)
(* about its own head, and of a running sequence how the current handoff   *)
(* came from the one it was called with; a record that is being written    *)
(* carries the promises of the follow-up behind it.                        *)
(***************************************************************************)
EXTENDS Repair, Selection, ListingProofs

(* Closing over parents *)

\* A closure contains what it closes.
LEMMA ClosureContains ==
  ASSUME NEW S \in SUBSET EventId
  PROVE  S \subseteq ParentClosure(S)
BY DEF ParentClosure

\* It is within every closed set that contains it.
LEMMA ClosureLeast ==
  ASSUME NEW S \in SUBSET EventId, NEW T \in SUBSET EventId,
         S \subseteq T, ParentClosed(T)
  PROVE  ParentClosure(S) \subseteq T
BY DEF ParentClosure

\* It is closed under parents.
LEMMA ClosureParents ==
  ASSUME NEW S \in SUBSET EventId
  PROVE  ParentClosed(ParentClosure(S))
<1>1. SUFFICES ASSUME NEW e \in ParentClosure(S), NEW p \in Parents[e]
               PROVE  p \in ParentClosure(S)
  BY DEF ParentClosed
<1>2. e \in EventId /\ p \in EventId
  BY HeldAssumption DEF ParentClosure
<1>3. ASSUME NEW T \in SUBSET EventId, S \subseteq T, ParentClosed(T)
      PROVE  p \in T
  BY <1>3 DEF ParentClosure, ParentClosed
<1> QED
  BY <1>2, <1>3 DEF ParentClosure

\* It grows with what it closes.
LEMMA ClosureGrows ==
  ASSUME NEW S \in SUBSET EventId, NEW T \in SUBSET EventId, S \subseteq T
  PROVE  ParentClosure(S) \subseteq ParentClosure(T)
BY DEF ParentClosure

----------------------------------------------------------------------------
(* Minimality *)

\* A closed selection suffices exactly if it holds the critical events, beyond what
\* a recipient at the genesis has.
LEMMA SufficientExactly ==
  ASSUME NEW closed, NEW genesis, NEW critical
  PROVE  Sufficient(closed, genesis, critical)
           <=> critical \subseteq closed \ RecipientAt(genesis).closure
<1> DEFINE h == FromDelta(closed, RecipientAt(genesis))
<1>1. h.events = closed \ RecipientAt(genesis).closure /\ h.omissions = {}
  BY DEF FromDelta, ComputeDelta
<1> HIDE DEF h
<1>2. Sufficient(closed, genesis, critical)
        <=> /\ critical \ h.events = {}
            /\ (critical \ h.events) \ h.omissions = {}
  BY DEF Sufficient, Simulate, h
<1> QED
  BY <1>1, <1>2

(* check_minimality (selection.rs) leaves out one selected source at a time *)
(* and calls the selection minimal if no such remainder suffices.  That is  *)
(* enough: no smaller part of the selection suffices, however many sources  *)
(* it lacks, because a closure only grows with what is closed.              *)
THEOREM MinimalAmongSubsets ==
  ASSUME NEW selected \in SUBSET EventId, NEW genesis, NEW critical,
         RemovalMinimal(selected, genesis, critical),
         NEW smaller \in SUBSET selected, smaller # selected
  PROVE  ~Sufficient(CloseAlone(smaller), genesis, critical)
<1>1. PICK removed \in selected : smaller \subseteq selected \ {removed}
  OBVIOUS
<1>2. CloseAlone(smaller) \subseteq CloseAlone(selected \ {removed})
  BY <1>1, ClosureGrows DEF CloseAlone
<1>3. ~Sufficient(CloseAlone(selected \ {removed}), genesis, critical)
  BY DEF RemovalMinimal
<1> QED
  BY <1>2, <1>3, SufficientExactly

----------------------------------------------------------------------------
(* The evaluation *)

\* A recipient at the genesis knows the genesis only.
LEMMA GenesisKnown ==
  ASSUME NEW chain, IsTaskChain(chain)
  PROVE  RecipientAt(chain.genesis).closure = {chain.genesis}
<1> DEFINE g == chain.genesis
<1>1. {g} \in SUBSET EventId /\ ParentClosed({g})
  BY DEF IsTaskChain, ParentClosed
<1>2. ParentClosure({g}) = {g}
  BY <1>1, ClosureContains, ClosureLeast
<1> QED
  BY <1>2, HandoffConstants DEF RecipientAt, IsTaskChain

\* In a task's chain a closure adds the genesis at most.
LEMMA ChainClosed ==
  ASSUME NEW chain, IsTaskChain(chain), NEW S \in SUBSET chain.children
  PROVE  /\ S \subseteq CloseAlone(S)
         /\ CloseAlone(S) \subseteq S \cup {chain.genesis}
<1>1. S \in SUBSET EventId /\ S \cup {chain.genesis} \in SUBSET EventId
  BY DEF IsTaskChain
<1>2. ParentClosed(S \cup {chain.genesis})
  BY DEF IsTaskChain, ParentClosed
<1> QED
  BY <1>1, <1>2, ClosureContains, ClosureLeast DEF CloseAlone

\* The critical event of a chain is not the genesis.
LEMMA CriticalIsNotGenesis ==
  ASSUME NEW chain, IsTaskChain(chain)
  PROVE  chain.critical # chain.genesis
BY DEF IsTaskChain

\* Whatever is selected is a candidate with a term of the task.
LEMMA SelectionMatches ==
  ASSUME NEW task, NEW candidates,
         SelectSources(task, candidates).outcome \in Selected
  PROVE  SelectSources(task, candidates).references = candidates \cap task.matches
BY DEF SelectSources, Selects, Refuses, Selected

\* What the handoff of a case offers and lists.
OffersCase(h, task, chain, withheld) ==
  /\ h.events = CandidatesOf(chain, withheld) \cap task.matches
  /\ h.omissions = withheld

LEMMA CaseHandoff ==
  ASSUME NEW task, NEW chain, IsTaskChain(chain),
         NEW withheld, CaseBuilds(task, chain, withheld)
  PROVE  OffersCase(BuildCase(task, chain, withheld), task, chain, withheld)
<1> DEFINE selected == SelectSources(task, CandidatesOf(chain, withheld)).references
           f == FromDelta(CloseAlone(selected), RecipientAt(chain.genesis))
           h == BuildCase(task, chain, withheld)
<1>1. CandidatesOf(chain, withheld) \subseteq chain.children
  BY DEF CandidatesOf
<1>2. selected = CandidatesOf(chain, withheld) \cap task.matches
  BY SelectionMatches DEF CaseBuilds
<1>3. chain.genesis \notin chain.children
  BY DEF IsTaskChain
<1>4. /\ selected \subseteq CloseAlone(selected)
      /\ CloseAlone(selected) \subseteq selected \cup {chain.genesis}
  <2>1. selected \in SUBSET chain.children
    BY <1>1, <1>2
  <2> QED
    BY <2>1, ChainClosed
<1>5. f.events = selected /\ f.omissions = {}
  <2>1. RecipientAt(chain.genesis).closure = {chain.genesis}
    BY GenesisKnown, Zenon
  <2> HIDE DEF selected
  <2>2. f.events = CloseAlone(selected) \ {chain.genesis} /\ f.omissions = {}
    BY <2>1 DEF FromDelta, ComputeDelta
  <2> QED
    BY <2>2, <1>1, <1>2, <1>3, <1>4
<1>6. h.events = f.events /\ h.omissions = withheld \ f.events
  <2>1. h = WithOmissions(f, withheld)
    BY DEF BuildCase
  <2>2. f = [head |-> f.head, known |-> f.known, events |-> f.events,
             omissions |-> f.omissions, flags |-> f.flags, reIncluded |-> f.reIncluded]
    BY DEF FromDelta
  <2> HIDE DEF f, h
  <2>3. h = [f EXCEPT !.omissions = @ \cup (withheld \ f.events)]
    BY <2>1 DEF WithOmissions
  <2> QED
    BY <2>2, <2>3, <1>5
<1>7. withheld \cap selected = {}
  BY <1>2 DEF CandidatesOf
<1> HIDE DEF h, f, selected
<1>8. h.events = CandidatesOf(chain, withheld) \cap task.matches /\ h.omissions = withheld
  BY <1>2, <1>5, <1>6, <1>7
<1> QED
  BY <1>8 DEF OffersCase, h

(* A task of the evaluation (eval.rs, run_eval_suite) passes exactly if both *)
(* of its cases can be built and the critical event has a term of the task:  *)
(* the withheld case is then always missed and noticed, so that the verdict  *)
(* depends on the selector and nothing else.                                 *)
THEOREM EvaluationDecides ==
  ASSUME NEW task, NEW chain, IsTaskChain(chain)
  PROVE  TaskPasses(task, chain)
           <=> /\ \A withheld \in Cases(chain) : CaseBuilds(task, chain, withheld)
               /\ chain.critical \in task.matches
<1> DEFINE critical == {chain.critical}
           w == BuildCase(task, chain, critical)
           o == BuildCase(task, chain, {})
<1>1. SUFFICES ASSUME \A withheld \in Cases(chain) : CaseBuilds(task, chain, withheld)
               PROVE  /\ PassesAsFailing(Simulate(w, critical))
                      /\ PassesAsPassing(Simulate(o, critical))
                           <=> chain.critical \in task.matches
  BY DEF TaskPasses
<1>2. w.events = (chain.children \ critical) \cap task.matches /\ w.omissions = critical
  <2>1. CaseBuilds(task, chain, critical)
    BY <1>1 DEF Cases
  <2>2. OffersCase(w, task, chain, critical)
    BY <2>1, CaseHandoff
  <2> HIDE DEF w, critical
  <2> QED
    BY <2>2 DEF OffersCase, CandidatesOf
<1>3. o.events = chain.children \cap task.matches /\ o.omissions = {}
  <2>1. CaseBuilds(task, chain, {})
    BY <1>1 DEF Cases
  <2>2. OffersCase(o, task, chain, {})
    BY <2>1, CaseHandoff
  <2> HIDE DEF o
  <2> QED
    BY <2>2 DEF OffersCase, CandidatesOf
<1> HIDE DEF w, o
<1>4. PassesAsFailing(Simulate(w, critical))
  <2>1. critical \ w.events = critical
    BY <1>2
  <2>2. Simulate(w, critical) = [noticed |-> critical, hidden |-> {}, completed |-> FALSE]
    BY <2>1, <1>2 DEF Simulate
  <2> QED
    BY <2>2 DEF PassesAsFailing
<1>5. PassesAsPassing(Simulate(o, critical)) <=> chain.critical \in task.matches
  <2> DEFINE missing == critical \ o.events
  <2>1. missing = {} <=> chain.critical \in task.matches
    BY <1>3 DEF IsTaskChain
  <2>2. Simulate(o, critical) = [noticed |-> {}, hidden |-> missing, completed |-> missing = {}]
    BY <1>3 DEF Simulate
  <2> HIDE DEF missing
  <2>3. CASE missing = {}
    <3>1. Simulate(o, critical) = [noticed |-> {}, hidden |-> {}, completed |-> TRUE]
      BY <2>2, <2>3
    <3> QED
      BY <2>1, <2>3, <3>1 DEF PassesAsPassing
  <2>4. CASE missing # {}
    <3>1. Simulate(o, critical).hidden # {}
      BY <2>2, <2>4
    <3> QED
      BY <2>1, <2>4, <3>1 DEF PassesAsPassing
  <2> QED
    BY <2>3, <2>4
<1> QED
  BY <1>4, <1>5

----------------------------------------------------------------------------
(* Repair sequences *)

\* A handoff offers nothing its head has in its history, and nothing it lists
\* as omitted.
Honest(h) ==
  /\ h.known = RecipientAt(h.head).closure
  /\ h.events \cap h.known = {} /\ h.omissions \cap h.events = {}

Running == stage \in {"evaluating", "recording"}

Handoffs ==
  /\ Honest(offered) /\ Honest(current)
  /\ recipient = RecipientAt(recipient.head)
  /\ offered.reIncluded = << >> /\ offered.events \cap Uncovered \subseteq offered.flags

\* The current handoff came from the one offered first by re-including.
Descends ==
  /\ Running => /\ current.flags = offered.flags /\ current.reIncluded = reIncluded
                /\ current.omissions \subseteq offered.omissions
                /\ \A i \in 1..Len(reIncluded) : reIncluded[i] \notin current.omissions
  /\ reIncluded \in Seq(EventId) /\ bounds.reIncluded \in Nat
  /\ stage = "prepared" => reIncluded = << >>

\* The follow-up a record stands for, before it is adopted.
Follows ==
  stage = "recording" /\ attempt.terminal = "none" =>
    /\ Honest(next) /\ next.flags = current.flags
    /\ attempt.reIncluded \in EventId /\ attempt.reIncluded \in current.omissions
    /\ next.omissions \subseteq current.omissions \ {attempt.reIncluded}
    /\ next.reIncluded = Append(current.reIncluded, attempt.reIncluded)
    /\ Len(reIncluded) < bounds.reIncluded

RepairInv == Handoffs /\ Descends /\ Follows /\ ReIncludedOmissions /\ DeliveredFresh

----------------------------------------------------------------------------
(* Handoffs *)

\* A recipient state names the head it was derived from.
LEMMA RecipientHead == \A x : RecipientAt(x) = RecipientAt(RecipientAt(x).head)
BY DEF RecipientAt, ColdStart

\* The empty handoff, before there is one, is honest.
LEMMA NoHandoffHonest ==
  Honest(NoHandoff) /\ NoHandoff.events = {} /\ NoHandoff.reIncluded = << >>
BY DEF Honest, NoHandoff, FromDelta, ComputeDelta, ColdStart, RecipientAt

\* The first handoff of a sequence is honest and flags what it must.
LEMMA FirstOffer ==
  ASSUME NEW closed, NEW omitted, NEW x
  PROVE  LET h == ShapeHandoff(WithOmissions(FromDelta(closed, RecipientAt(x)), omitted)) IN
         /\ Honest(h) /\ h.reIncluded = << >>
         /\ h.events \cap Uncovered \subseteq h.flags
<1> DEFINE r == RecipientAt(x)
           h == ShapeHandoff(WithOmissions(FromDelta(closed, r), omitted))
<1>1. RecipientAt(r.head) = r
  BY RecipientHead
<1> HIDE DEF r
<1>2. /\ h.head = r.head /\ h.known = r.closure /\ h.events = closed \ r.closure
      /\ h.omissions = {} \cup (omitted \ (closed \ r.closure))
      /\ h.flags = {} \cup (h.events \cap Uncovered) /\ h.reIncluded = << >>
  BY DEF FromDelta, ComputeDelta, WithOmissions, ShapeHandoff
<1> HIDE DEF h
<1>3. Honest(h) /\ h.reIncluded = << >> /\ h.events \cap Uncovered \subseteq h.flags
  BY <1>1, <1>2 DEF Honest
<1> QED
  BY <1>3 DEF h, r

\* A follow-up is honest for the recipient it is made for, and lists fewer
\* omissions: not the source it re-includes.
LEMMA FollowUpHonest ==
  ASSUME NEW h, NEW closed, NEW r, NEW e, r = RecipientAt(r.head),
         CanFollowUp(h, closed, r, e)
  PROVE  LET f == FollowUp(h, closed, r, e) IN
         /\ Honest(f) /\ f.flags = h.flags
         /\ e \in h.omissions /\ f.omissions \subseteq h.omissions \ {e}
         /\ f.reIncluded = Append(h.reIncluded, e)
<1> DEFINE f == FollowUp(h, closed, r, e)
<1>1. /\ f.head = r.head /\ f.known = r.closure /\ f.events = closed \ r.closure
      /\ f.omissions = h.omissions \ (closed \ r.closure)
      /\ f.flags = h.flags /\ f.reIncluded = Append(h.reIncluded, e)
  BY DEF FollowUp, FromDelta, ComputeDelta
<1>2. e \in h.omissions /\ e \in closed \ r.closure
  BY DEF CanFollowUp, ComputeDelta
<1> HIDE DEF f
<1>3. Honest(f)
  BY <1>1 DEF Honest
<1>4. f.omissions \subseteq h.omissions \ {e}
  BY <1>1, <1>2
<1> QED
  BY <1>1, <1>2, <1>3, <1>4 DEF f

----------------------------------------------------------------------------
(* One step *)

\* A step that leaves the sequence and what was delivered alone.
LEMMA QuietStep ==
  ASSUME RepairInv, UNCHANGED <<stage, loopVars, delivered>>
  PROVE  RepairInv'
BY DEF RepairInv, Handoffs, Descends, Follows, Running, Honest, ReIncludedOmissions,
       DeliveredFresh, loopVars, RecipientAt, ColdStart

\* A step that ends the sequence where it stands.
LEMMA EndingStep ==
  ASSUME RepairInv, stage' = "ended",
         UNCHANGED <<offered, current, recipient, bounds, reIncluded, delivered>>
  PROVE  RepairInv'
BY DEF RepairInv, Handoffs, Descends, Follows, Running, Honest, ReIncludedOmissions,
       DeliveredFresh, RecipientAt, ColdStart

\* A record that ends the sequence promises no follow-up.
LEMMA TerminalRecord ==
  ASSUME RepairInv, stage = "evaluating", NEW terminal, terminal # "none",
         Record(None, terminal, NoHandoff)
  PROVE  RepairInv'
<1>1. /\ attempt'.terminal = terminal /\ stage' = "recording"
      /\ UNCHANGED <<offered, current, recipient, bounds, reIncluded, delivered>>
  BY DEF Record, Describe
<1> QED
  BY <1>1 DEF RepairInv, Handoffs, Descends, Follows, Running, Honest, ReIncludedOmissions,
              DeliveredFresh, RecipientAt, ColdStart

\* A record of a re-inclusion carries the promises of the follow-up.
LEMMA ReIncludeKeeps ==
  ASSUME RepairInv, NEW e \in EventId, NEW closed, ReInclude(e, closed)
  PROVE  RepairInv'
<1> DEFINE f == FollowUp(current, closed, recipient, e)
<1>1. /\ stage = "evaluating" /\ CanFollowUp(current, closed, recipient, e)
      /\ Len(reIncluded) < bounds.reIncluded /\ Record(e, "none", f)
  BY DEF ReInclude, Evaluating
<1>2. /\ Honest(f) /\ f.flags = current.flags
      /\ e \in current.omissions /\ f.omissions \subseteq current.omissions \ {e}
      /\ f.reIncluded = Append(current.reIncluded, e)
  BY <1>1, FollowUpHonest DEF RepairInv, Handoffs
<1> HIDE DEF f
<1>3. /\ attempt'.reIncluded = e /\ next' = f /\ stage' = "recording"
      /\ UNCHANGED <<offered, current, recipient, bounds, reIncluded, delivered>>
  BY <1>1 DEF Record, Describe
<1>4. Follows'
  BY <1>1, <1>2, <1>3 DEF Follows, Honest, RecipientAt, ColdStart
<1> QED
  BY <1>1, <1>3, <1>4 DEF RepairInv, Handoffs, Descends, Running, Honest, ReIncludedOmissions,
              DeliveredFresh, RecipientAt, ColdStart

\* Once the record is written the follow-up is the current handoff.
LEMMA ContinueKeeps ==
  ASSUME RepairInv, AppendWritten
  PROVE  RepairInv'
<1>0. stage = "recording" /\ Continue /\ UNCHANGED <<offered, recipient, bounds, delivered>>
  BY DEF AppendWritten
<1>1. CASE attempt.terminal # "none"
  BY <1>0, <1>1, EndingStep DEF Continue
<1>2. CASE attempt.terminal = "none"
  <2> DEFINE e == attempt.reIncluded
  <2>1. /\ current' = next /\ reIncluded' = Append(reIncluded, e) /\ stage' = "evaluating"
    BY <1>0, <1>2 DEF Continue
  <2>2. /\ Honest(next) /\ next.flags = current.flags /\ e \in EventId
        /\ e \in current.omissions /\ next.omissions \subseteq current.omissions \ {e}
        /\ next.reIncluded = Append(current.reIncluded, e)
        /\ Len(reIncluded) < bounds.reIncluded
    BY <1>0, <1>2 DEF RepairInv, Follows
  <2>3. /\ current.flags = offered.flags /\ current.reIncluded = reIncluded
        /\ current.omissions \subseteq offered.omissions
        /\ \A i \in 1..Len(reIncluded) : reIncluded[i] \notin current.omissions
        /\ reIncluded \in Seq(EventId) /\ bounds.reIncluded \in Nat
    BY <1>0 DEF RepairInv, Descends, Running
  <2> HIDE DEF e
  <2>4. /\ reIncluded' \in Seq(EventId) /\ Len(reIncluded') = Len(reIncluded) + 1
        /\ Len(reIncluded) \in Nat /\ reIncluded'[Len(reIncluded) + 1] = e
        /\ \A i \in 1..Len(reIncluded) : reIncluded'[i] = reIncluded[i]
        /\ DOMAIN reIncluded' = 1..(Len(reIncluded) + 1)
        /\ DOMAIN reIncluded = 1..Len(reIncluded)
    BY <2>1, <2>2, <2>3
  <2>5. Handoffs'
    BY <1>0, <2>1, <2>2 DEF RepairInv, Handoffs, Honest, RecipientAt, ColdStart
  <2>6. Descends'
    <3>1. \A i \in 1..Len(reIncluded') : reIncluded'[i] \notin current'.omissions
      <4>1. SUFFICES ASSUME NEW i \in 1..(Len(reIncluded) + 1)
                     PROVE  reIncluded'[i] \notin next.omissions
        BY <2>1, <2>4
      <4>2. CASE i = Len(reIncluded) + 1
        BY <4>2, <2>2, <2>4
      <4>3. CASE i # Len(reIncluded) + 1
        <5>1. i \in 1..Len(reIncluded)
          BY <4>3, <2>4
        <5> QED
          BY <5>1, <2>2, <2>3, <2>4
      <4> QED
        BY <4>2, <4>3
    <3>2. /\ current'.flags = offered'.flags /\ current'.reIncluded = reIncluded'
          /\ current'.omissions \subseteq offered'.omissions
      BY <1>0, <2>1, <2>2, <2>3
    <3> QED
      BY <1>0, <2>1, <2>3, <2>4, <3>1, <3>2 DEF Descends
  <2>7. ReIncludedOmissions'
    <3>1. /\ Len(reIncluded) <= bounds.reIncluded
          /\ \A i, j \in DOMAIN reIncluded : reIncluded[i] = reIncluded[j] => i = j
          /\ \A i \in DOMAIN reIncluded : reIncluded[i] \in offered.omissions
      BY DEF RepairInv, ReIncludedOmissions
    <3>2. \A i \in 1..Len(reIncluded) : reIncluded'[i] # e
      BY <2>2, <2>3, <2>4
    <3>3. \A i \in 1..(Len(reIncluded) + 1) :
             i \in 1..Len(reIncluded) \/ i = Len(reIncluded) + 1
      BY <2>4
    <3>4. \A i, j \in DOMAIN reIncluded' : reIncluded'[i] = reIncluded'[j] => i = j
      BY <2>4, <3>1, <3>2, <3>3
    <3>5. \A i \in DOMAIN reIncluded' : reIncluded'[i] \in offered.omissions
      BY <2>2, <2>3, <2>4, <3>1, <3>3
    <3>6. Len(reIncluded') <= bounds.reIncluded
      BY <2>2, <2>3, <2>4
    <3> QED
      BY <1>0, <3>4, <3>5, <3>6 DEF ReIncludedOmissions
  <2>8. Follows' /\ DeliveredFresh'
    BY <1>0, <2>1 DEF RepairInv, Follows, DeliveredFresh, RecipientAt, ColdStart
  <2> QED
    BY <2>5, <2>6, <2>7, <2>8 DEF RepairInv
<1> QED
  BY <1>1, <1>2

----------------------------------------------------------------------------
(* The sequences *)

\* The inductive invariant holds at first.
LEMMA InitInv == Init => RepairInv
<1> SUFFICES ASSUME Init PROVE RepairInv
  OBVIOUS
<1>1. Handoffs
  <2>1. recipient = RecipientAt(recipient.head)
    BY DEF Init, RecipientAt, ColdStart
  <2> QED
    BY <2>1, NoHandoffHonest DEF Init, Handoffs
<1>2. DeliveredFresh
  BY DEF Init, DeliveredFresh, NoDelivery
<1>3. Descends /\ Follows /\ ReIncludedOmissions
  BY DEF Init, Descends, Follows, ReIncludedOmissions, Running, NoBounds
<1> QED
  BY <1>1, <1>2, <1>3 DEF RepairInv

\* Every step keeps the inductive invariant.
LEMMA StepInv == RepairInv /\ [Next]_vars => RepairInv'
<1> SUFFICES ASSUME RepairInv, [Next]_vars PROVE RepairInv'
  OBVIOUS
<1>1. CASE Open \/ Close \/ Advance \/ UNCHANGED vars
  BY <1>1, QuietStep DEF Open, Close, Advance, vars
<1>2. CASE Prepare
  <2>1. PICK closed, omitted :
          offered' = ShapeHandoff(WithOmissions(FromDelta(closed, RecipientAt(head)), omitted))
    BY <1>2 DEF Prepare
  <2>2. /\ Honest(offered') /\ offered'.reIncluded = << >>
        /\ offered'.events \cap Uncovered \subseteq offered'.flags
    BY <2>1, FirstOffer
  <2>3. /\ stage' = "prepared" /\ current' = NoHandoff /\ recipient' = ColdStart
        /\ bounds' = NoBounds /\ reIncluded' = << >> /\ delivered' = NoDelivery
    BY <1>2 DEF Prepare
  <2>4. Handoffs'
    <3>1. recipient' = RecipientAt(recipient'.head)
      BY <2>3 DEF RecipientAt, ColdStart
    <3>2. Honest(current')
      BY <2>3, NoHandoffHonest
    <3> QED
      BY <2>2, <3>1, <3>2 DEF Handoffs, Honest, RecipientAt, ColdStart
  <2>5. Descends' /\ Follows' /\ ReIncludedOmissions'
    BY <2>3 DEF Descends, Follows, ReIncludedOmissions, Running, NoBounds
  <2>6. DeliveredFresh'
    BY <2>3 DEF DeliveredFresh, NoDelivery
  <2> QED
    BY <2>4, <2>5, <2>6 DEF RepairInv
<1>3. CASE Start
  <2>1. /\ stage = "prepared" /\ stage' = "evaluating" /\ current' = offered
        /\ recipient' = RecipientAt(head) /\ bounds' \in Bounds
        /\ UNCHANGED <<offered, reIncluded, delivered>>
    BY <1>3 DEF Start
  <2>2. reIncluded = << >> /\ offered.reIncluded = << >> /\ bounds'.reIncluded \in Nat
    BY <2>1, BoundsAssumption DEF RepairInv, Handoffs, Descends
  <2>3. recipient' = RecipientAt(recipient'.head)
    BY <2>1, RecipientHead
  <2>4. Handoffs'
    BY <2>1, <2>3 DEF RepairInv, Handoffs, Honest, RecipientAt, ColdStart
  <2>5. Descends' /\ Follows' /\ ReIncludedOmissions'
    BY <2>1, <2>2 DEF Descends, Follows, ReIncludedOmissions, Running
  <2>6. DeliveredFresh'
    BY <2>1 DEF RepairInv, DeliveredFresh, RecipientAt, ColdStart
  <2> QED
    BY <2>4, <2>5, <2>6 DEF RepairInv
<1>4. CASE Deliver
  <2> DEFINE h == IF report = "converged" THEN current ELSE offered
  <2>1. /\ h.head = head /\ delivered' = [events |-> h.events, to |-> head]
        /\ stage = "ended" /\ UNCHANGED <<stage, loopVars>>
    BY <1>4 DEF Deliver, VerifyValid
  <2>2. h.events \cap RecipientAt(head).closure = {}
    BY <2>1 DEF RepairInv, Handoffs, Honest
  <2> HIDE DEF h
  <2>3. DeliveredFresh'
    BY <2>1, <2>2 DEF DeliveredFresh, RecipientAt, ColdStart
  <2> QED
    BY <2>1, <2>3 DEF RepairInv, Handoffs, Descends, Follows, Running, Honest,
                      ReIncludedOmissions, loopVars, RecipientAt, ColdStart
<1>5. CASE RunRepair
  <2>1. CASE Succeeds \/ Fails \/ SpentReInclusions \/ SpentIterations
    BY <2>1, TerminalRecord DEF Succeeds, Fails, SpentReInclusions, SpentIterations, Evaluating
  <2>2. CASE NegotiationFails
    BY <2>2, EndingStep DEF NegotiationFails, loopVars
  <2>3. ASSUME NEW e \in EventId, NEW closed, SpentBytes(e, closed)
        PROVE  RepairInv'
    BY <2>3, TerminalRecord DEF SpentBytes, Evaluating
  <2>4. ASSUME NEW e \in EventId, NEW closed, ReInclude(e, closed)
        PROVE  RepairInv'
    BY <2>4, ReIncludeKeeps
  <2>5. CASE AppendWritten
    BY <2>5, ContinueKeeps
  <2>6. CASE AppendFails
    BY <2>6, EndingStep DEF AppendFails
  <2> QED
    BY <1>5, <2>1, <2>2, <2>3, <2>4, <2>5, <2>6 DEF RunRepair
<1>6. CASE Crash
  <2>1. /\ stage' = "idle" /\ offered' = NoHandoff /\ current' = NoHandoff
        /\ recipient' = ColdStart /\ bounds' = NoBounds /\ reIncluded' = << >>
        /\ UNCHANGED delivered
    BY <1>6 DEF Crash
  <2>2. Handoffs'
    <3>1. recipient' = RecipientAt(recipient'.head)
      BY <2>1 DEF RecipientAt, ColdStart
    <3>2. /\ Honest(offered') /\ Honest(current') /\ offered'.reIncluded = << >>
          /\ offered'.events = {}
      BY <2>1, NoHandoffHonest
    <3> QED
      BY <3>1, <3>2 DEF Handoffs, Honest, RecipientAt, ColdStart
  <2>3. Descends' /\ Follows' /\ ReIncludedOmissions'
    BY <2>1 DEF Descends, Follows, ReIncludedOmissions, Running, NoBounds
  <2>4. DeliveredFresh'
    BY <2>1 DEF RepairInv, DeliveredFresh, RecipientAt, ColdStart
  <2> QED
    BY <2>2, <2>3, <2>4 DEF RepairInv
<1> QED
  BY <1>1, <1>2, <1>3, <1>4, <1>5, <1>6 DEF Next

\* The inductive invariant holds in every reachable state.
THEOREM RepairSafe == Spec => []RepairInv
BY InitInv, StepInv, PTL DEF Spec

\* The sources a sequence re-includes are distinct omissions of the handoff it
\* was called with, and no more than its bound (run_repair, follow_up).
THEOREM ReInclusionsBounded == Spec => []ReIncludedOmissions
<1>1. RepairInv => ReIncludedOmissions
  BY DEF RepairInv
<1> QED
  BY <1>1, RepairSafe, PTL

\* What the driver is shown is honest in every round (Handoff::from_delta,
\* with_omission, follow_up, shape_handoff).
THEOREM OffersHonest == Spec => []OfferedHonestly
<1>1. RepairInv => OfferedHonestly
  <2> SUFFICES ASSUME RepairInv, Running PROVE OfferedHonestly
    BY DEF OfferedHonestly, Running
  <2>1. /\ Honest(current) /\ offered.reIncluded = << >>
        /\ offered.events \cap Uncovered \subseteq offered.flags
    BY DEF RepairInv, Handoffs
  <2>2. /\ current.flags = offered.flags /\ current.reIncluded = reIncluded
        /\ reIncluded \in Seq(EventId)
    BY DEF RepairInv, Descends
  <2>3. << >> \o reIncluded = reIncluded
    BY <2>2, ConcatEmptySeq
  <2> QED
    BY <2>1, <2>2, <2>3 DEF OfferedHonestly, Honest
<1> QED
  BY <1>1, RepairSafe, PTL

\* A recipient never obtains an event it already has, although its head moves
\* on while the driver works (Handoff::verified_delta).
THEOREM DeliveriesFresh == Spec => []DeliveredFresh
<1>1. RepairInv => DeliveredFresh
  BY DEF RepairInv
<1> QED
  BY <1>1, RepairSafe, PTL

----------------------------------------------------------------------------
(* The history file.  Records are read off its closing pieces, so what is   *)
(* read of a file that grows is what was read before and what was added.    *)

IsList(s) == s \in Seq(ListedIn(s))

Joins(s, t) ==
  /\ IsList(s \o t) /\ ListedIn(s \o t) = ListedIn(s) \cup ListedIn(t)
  /\ s \in Seq(ListedIn(s \o t)) /\ t \in Seq(ListedIn(s \o t))

\* Two lists joined are a list of what both name.
LEMMA ListsJoin ==
  ASSUME NEW s, NEW t, IsList(s), IsList(t)
  PROVE  Joins(s, t)
<1> DEFINE T == ListedIn(s) \cup ListedIn(t)
<1>1. s \in Seq(T) /\ t \in Seq(T)
  BY DEF IsList
<1>2. /\ DOMAIN s = 1..Len(s) /\ DOMAIN t = 1..Len(t) /\ Len(s) \in Nat /\ Len(t) \in Nat
      /\ s \o t \in Seq(T) /\ DOMAIN (s \o t) = 1..(Len(s) + Len(t))
      /\ \A i \in 1..Len(s) : (s \o t)[i] = s[i]
      /\ \A i \in 1..Len(t) : (s \o t)[Len(s) + i] = t[i]
  BY <1>1
<1>3. ListedIn(s \o t) \subseteq T
  BY <1>2 DEF ListedIn
<1>4. ListedIn(s) \subseteq ListedIn(s \o t)
  <2>1. \A i \in 1..Len(s) : i \in 1..(Len(s) + Len(t))
    BY <1>2
  <2> QED
    BY <1>2, <2>1 DEF ListedIn
<1>5. ListedIn(t) \subseteq ListedIn(s \o t)
  <2>1. \A i \in 1..Len(t) : Len(s) + i \in 1..(Len(s) + Len(t))
    BY <1>2
  <2> QED
    BY <1>2, <2>1 DEF ListedIn
<1>6. ListedIn(s \o t) = T
  BY <1>3, <1>4, <1>5
<1> HIDE DEF T
<1>7. s \o t \in Seq(T) /\ s \in Seq(T) /\ t \in Seq(T)
  BY <1>1, <1>2
<1> QED
  BY <1>6, <1>7 DEF Joins, IsList, T

Closing(S) == {p \in S : p[1] = "close"}

\* What closes lines of two files put together.
ClosesJoin(f, g) ==
  /\ Closes(f \o g) = Closes(f) \o Closes(g)
  /\ IsList(Closes(f)) /\ IsList(Closes(g))

\* The pieces that close a line, in a file.
LEMMA ClosesTyped ==
  ASSUME NEW f, IsList(f)
  PROVE  IsList(Closes(f)) /\ ListedIn(Closes(f)) = Closing(ListedIn(f))
<1> DEFINE T == ListedIn(f)
           S == Closing(T)
<1>1. f \in Seq(T) /\ S \subseteq T
  BY DEF IsList, Closing
<1>2. Closes(f) = Kept(f, S)
  BY DEF Closes, Closing
<1> HIDE DEF T, S
<1>3. Kept(f, S) \in Seq(T)
  BY <1>1, KeptProperties
<1>4. ListedIn(Kept(f, S)) = ListedIn(f) \cap S
  BY <1>1, KeptLists
<1>5. Kept(f, S) \in Seq(ListedIn(Kept(f, S)))
  BY <1>3 DEF ListedIn
<1>6. ListedIn(f) \cap S = S
  BY <1>1 DEF T
<1> QED
  BY <1>2, <1>4, <1>5, <1>6 DEF IsList, S, T

\* They are those of the one part and then those of the other.
LEMMA ClosesConcat ==
  ASSUME NEW f, NEW g, IsList(f), IsList(g)
  PROVE  ClosesJoin(f, g)
<1> DEFINE T == ListedIn(f \o g)
           S == Closing(T)
<1>1. /\ f \in Seq(T) /\ g \in Seq(T) /\ ListedIn(f) \subseteq T /\ ListedIn(g) \subseteq T
  BY ListsJoin DEF Joins
<1>2. /\ Closes(f \o g) = Kept(f \o g, S)
      /\ Closes(f) = Kept(f, Closing(ListedIn(f)))
      /\ Closes(g) = Kept(g, Closing(ListedIn(g)))
  BY DEF Closes, Closing
<1>3. /\ \A i \in 1..Len(f) : f[i] \in ListedIn(f)
      /\ \A i \in 1..Len(g) : g[i] \in ListedIn(g)
  BY <1>1 DEF ListedIn
<1>4. /\ \A i \in 1..Len(f) : f[i] \in S <=> f[i] \in Closing(ListedIn(f))
      /\ \A i \in 1..Len(g) : g[i] \in S <=> g[i] \in Closing(ListedIn(g))
  BY <1>1, <1>3 DEF Closing
<1> HIDE DEF S, T
<1>5. Kept(f, S) = Kept(f, Closing(ListedIn(f)))
  BY <1>1, <1>4, KeptSame
<1>6. Kept(g, S) = Kept(g, Closing(ListedIn(g)))
  BY <1>1, <1>4, KeptSame
<1>7. Kept(f \o g, S) = Kept(f, S) \o Kept(g, S)
  BY <1>1, KeptConcat
<1> QED
  BY <1>2, <1>5, <1>6, <1>7, ClosesTyped DEF ClosesJoin

\* The records of a file.
ReadOff(f) ==
  /\ IsList(Attempts(f)) /\ Len(Attempts(f)) = Len(Closes(f))
  /\ DOMAIN Closes(f) = 1..Len(Closes(f)) /\ Len(Closes(f)) \in Nat
  /\ \A i \in 1..Len(Closes(f)) : Attempts(f)[i] = Closes(f)[i][2]

\* What is read is what the closing pieces hold.
LEMMA AttemptsRead ==
  ASSUME NEW f, IsList(f)
  PROVE  ReadOff(f)
<1> DEFINE c == Closes(f)
           r == Attempts(f)
<1>1. c \in Seq(ListedIn(c))
  BY ClosesTyped DEF IsList
<1>2. r = [i \in DOMAIN c |-> c[i][2]]
  BY DEF Attempts
<1> HIDE DEF c, r
<1>3. DOMAIN c = 1..Len(c) /\ Len(c) \in Nat
  BY <1>1
<1>4. \A i \in 1..Len(c) : r[i] \in ListedIn(r)
  BY <1>2, <1>3 DEF ListedIn
<1>5. r \in Seq(ListedIn(r)) /\ Len(r) = Len(c)
  BY <1>2, <1>3, <1>4
<1> QED
  BY <1>2, <1>3, <1>5 DEF ReadOff, IsList, c, r

AttemptsJoin(f, g) ==
  /\ Attempts(f \o g) = Attempts(f) \o Attempts(g)
  /\ IsList(Attempts(f)) /\ IsList(Attempts(g)) /\ IsList(Attempts(f \o g)) /\ IsList(f \o g)

\* Reading distributes over appending.
LEMMA AttemptsConcat ==
  ASSUME NEW f, NEW g, IsList(f), IsList(g)
  PROVE  AttemptsJoin(f, g)
<1>1. IsList(f \o g)
  BY ListsJoin DEF Joins
<1>2. ClosesJoin(f, g) /\ ReadOff(f) /\ ReadOff(g) /\ ReadOff(f \o g)
  BY <1>1, ClosesConcat, AttemptsRead
<1> DEFINE a == Closes(f)  b == Closes(g)  c == Closes(f \o g)
           ra == Attempts(f)  rb == Attempts(g)  rc == Attempts(f \o g)
<1>3. /\ c = a \o b /\ a \in Seq(ListedIn(a)) /\ b \in Seq(ListedIn(b))
      /\ Len(ra) = Len(a) /\ Len(rb) = Len(b) /\ Len(rc) = Len(c)
      /\ ra \in Seq(ListedIn(ra)) /\ rb \in Seq(ListedIn(rb)) /\ rc \in Seq(ListedIn(rc))
      /\ \A i \in 1..Len(a) : ra[i] = a[i][2]
      /\ \A i \in 1..Len(b) : rb[i] = b[i][2]
      /\ \A i \in 1..Len(c) : rc[i] = c[i][2]
  BY <1>2 DEF ClosesJoin, ReadOff, IsList
<1> HIDE DEF a, b, c, ra, rb, rc
<1>4. /\ Len(c) = Len(a) + Len(b) /\ Len(a) \in Nat /\ Len(b) \in Nat
      /\ \A i \in 1..Len(a) : c[i] = a[i]
      /\ \A i \in 1..Len(b) : c[Len(a) + i] = b[i]
  BY <1>3
<1>5. Joins(ra, rb)
  BY <1>3, ListsJoin DEF IsList
<1>6. /\ ra \o rb \in Seq(ListedIn(ra \o rb)) /\ Len(ra \o rb) = Len(c)
      /\ \A i \in 1..Len(a) : (ra \o rb)[i] = ra[i]
      /\ \A i \in 1..Len(b) : (ra \o rb)[Len(a) + i] = rb[i]
  <2> DEFINE T == ListedIn(ra \o rb)
  <2>1. ra \in Seq(T) /\ rb \in Seq(T) /\ ra \o rb \in Seq(T)
    BY <1>5 DEF Joins, IsList
  <2> HIDE DEF T
  <2>2. /\ Len(ra \o rb) = Len(ra) + Len(rb)
        /\ \A i \in 1..Len(ra) : (ra \o rb)[i] = ra[i]
        /\ \A i \in 1..Len(rb) : (ra \o rb)[Len(ra) + i] = rb[i]
    BY <2>1
  <2>3. Len(ra \o rb) = Len(c)
    BY <1>3, <1>4, <2>2
  <2>4. /\ \A i \in 1..Len(a) : (ra \o rb)[i] = ra[i]
        /\ \A i \in 1..Len(b) : (ra \o rb)[Len(a) + i] = rb[i]
    BY <1>3, <2>2
  <2>5. ra \o rb \in Seq(ListedIn(ra \o rb))
    BY <2>1 DEF T
  <2> QED
    BY <2>3, <2>4, <2>5
<1>7. ASSUME NEW i \in 1..Len(c) PROVE rc[i] = (ra \o rb)[i]
  <2>1. CASE i \in 1..Len(a)
    <3>1. rc[i] = c[i][2] /\ ra[i] = a[i][2]
      BY <1>3, <2>1
    <3>2. c[i] = a[i]
      BY <1>4, <2>1
    <3>3. (ra \o rb)[i] = ra[i]
      BY <1>6, <2>1
    <3> QED
      BY <3>1, <3>2, <3>3
  <2>2. CASE i \notin 1..Len(a)
    <3>1. PICK j \in 1..Len(b) : i = Len(a) + j
      <4>1. i - Len(a) \in 1..Len(b) /\ i = Len(a) + (i - Len(a))
        BY <1>4, <2>2
      <4> QED
        BY <4>1
    <3>2. rc[i] = c[i][2] /\ c[Len(a) + j] = b[j] /\ rb[j] = b[j][2]
      BY <1>3, <1>4
    <3> QED
      BY <1>6, <3>1, <3>2
  <2> QED
    BY <2>1, <2>2
<1>8. rc = ra \o rb
  <2> DEFINE r == ra \o rb
             T == ListedIn(rc) \cup ListedIn(r)
  <2>1. rc \in Seq(T) /\ r \in Seq(T)
    BY <1>3, <1>6
  <2>2. Len(rc) = Len(r) /\ \A i \in 1..Len(rc) : rc[i] = r[i]
    BY <1>3, <1>6, <1>7
  <2>3. rc = r
    <3> HIDE DEF r, T
    <3> QED
      BY <2>1, <2>2, SeqEqual
  <2> QED
    BY <2>3
<1> QED
  BY <1>1, <1>2, <1>8 DEF AttemptsJoin, ReadOff, ra, rb, rc

\* One piece holds a record if it closes a line.
ReadsOne(x) == Attempts(<<x>>) = IF x[1] = "close" THEN <<x[2]>> ELSE << >>

\* What one piece reads as.
LEMMA OnePiece ==
  ASSUME NEW x
  PROVE  IsList(<<x>>) /\ ReadsOne(x)
<1> DEFINE f == <<x>>
           S == Closing({x})
           c == Kept(f, S)
<1>1. f \in Seq({x}) /\ Len(f) = 1 /\ f[1] = x /\ ListedIn(f) = {x}
  BY DEF ListedIn
<1>2. Closes(f) = c
  BY <1>1 DEF Closes, Closing
<1> HIDE DEF f, S
<1>3. c \in Seq({x}) /\ \E m : At(f, S, c, Len(f), m)
  BY <1>1, KeptProperties
<1>4. PICK m : At(f, S, c, 1, m)
  BY <1>1, <1>3
<1> HIDE DEF c
<1>5. /\ m \in [1..Len(c) -> 1..1] /\ Len(c) \in Nat
      /\ \A i, j \in 1..Len(c) : i < j => m[i] < m[j]
      /\ \A i \in 1..Len(c) : c[i] \in S
      /\ x \in S => \E i \in 1..Len(c) : m[i] = 1
  BY <1>1, <1>3, <1>4 DEF At
<1>6. Len(c) <= 1
  <2> SUFFICES ASSUME Len(c) > 1 PROVE FALSE
    BY <1>5
  <2>1. 1 \in 1..Len(c) /\ 2 \in 1..Len(c)
    BY <1>5
  <2>2. m[1] < m[2] /\ m[1] \in 1..1 /\ m[2] \in 1..1
    BY <1>5, <2>1
  <2> QED
    BY <2>2
<1>7. ReadOff(f) /\ IsList(f)
  BY <1>1, AttemptsRead DEF IsList
<1> DEFINE r == Attempts(f)
<1>8. /\ Len(r) = Len(c) /\ r \in Seq(ListedIn(r))
      /\ \A i \in 1..Len(c) : r[i] = c[i][2]
  BY <1>2, <1>7 DEF ReadOff, IsList
<1> HIDE DEF r
<1>9. CASE x[1] = "close"
  <2>1. x \in S
    BY <1>9 DEF S, Closing
  <2>2. Len(c) = 1 /\ c[1] = x
    <3>1. PICK i \in 1..Len(c) : m[i] = 1
      BY <1>5, <2>1
    <3>2. Len(c) = 1
      BY <1>5, <1>6
    <3> QED
      BY <1>3, <3>2
  <2>3. r = <<x[2]>>
    BY <1>8, <2>2
  <2> QED
    BY <1>7, <1>9, <2>3 DEF ReadsOne, r, f
<1>10. CASE x[1] # "close"
  <2>1. x \notin S
    BY <1>10 DEF S, Closing
  <2>2. Len(c) = 0
    BY <1>3, <1>5, <1>6, <2>1
  <2>3. r = << >>
    BY <1>8, <2>2
  <2> QED
    BY <1>7, <1>10, <2>3 DEF ReadsOne, r, f
<1> QED
  BY <1>9, <1>10

\* A line holds its record.
ReadsLine(a) == Attempts(Pieces(a)) = <<a>>

\* What one line reads as.
LEMMA OneLine ==
  ASSUME NEW a
  PROVE  IsList(Pieces(a)) /\ ReadsLine(a)
<1> DEFINE o == <<<<"open", a>>>>
           c == <<<<"close", a>>>>
           n == <<<<"newline", a>>>>
<1>1. /\ IsList(o) /\ ReadsOne(<<"open", a>>) /\ IsList(c) /\ ReadsOne(<<"close", a>>)
      /\ IsList(n) /\ ReadsOne(<<"newline", a>>)
  BY OnePiece
<1>2. Attempts(o) = << >> /\ Attempts(c) = <<a>> /\ Attempts(n) = << >>
  BY <1>1 DEF ReadsOne
<1>3. Pieces(a) = (o \o c) \o n
  BY DEF Pieces
<1> HIDE DEF o, c, n
<1>4. AttemptsJoin(o, c)
  BY <1>1, AttemptsConcat
<1>5. AttemptsJoin(o \o c, n)
  BY <1>1, <1>4, AttemptsConcat DEF AttemptsJoin
<1>6. Attempts((o \o c) \o n) = (<< >> \o <<a>>) \o << >>
  BY <1>2, <1>4, <1>5 DEF AttemptsJoin
<1>7. (<< >> \o <<a>>) \o << >> = <<a>>
  OBVIOUS
<1> QED
  BY <1>3, <1>5, <1>6, <1>7 DEF AttemptsJoin, ReadsLine

----------------------------------------------------------------------------
(* What the file and the buffer of the open handle hold together            *)

\* Every record fits the buffer of the writer.  One that does not may be lost
\* while its number is used up.
LinesFit == LineFits \subseteq {TRUE}

\* Records that follow one another the way FileConsistent says, numbered
\* without a gap unless records are lost.
Consecutive(records) ==
  \A i \in DOMAIN records :
    /\ LinesFit => records[i].sequence = i - 1
    /\ \/ records[i].iteration = 0
       \/ /\ i > 1
          /\ records[i - 1].terminal = "none"
          /\ records[i - 1].iteration = records[i].iteration - 1

\* The records whose last ones name the sources re-included, in order.
EndsWith(records, sources) ==
  /\ Len(sources) <= Len(records)
  /\ \A i \in 1..Len(sources) :
       records[Len(records) - Len(sources) + i].reIncluded = sources[i]

\* Everything recorded, with what the open handle still has to write.
Written == Attempts(file \o handle.buffer)

HandleSound ==
  /\ IsList(file) /\ IsList(handle.buffer)
  /\ handle = [sequence |-> handle.sequence, buffer |-> handle.buffer]
  /\ handle # NoHandle => handle.sequence \in Nat
  /\ LinesFit /\ handle # NoHandle => handle.sequence = Len(Written)
  /\ handle = NoHandle => handle.buffer = << >>
  /\ Running => handle # NoHandle

\* The round the loop is in is the one the records say comes next.
NextRound(records) ==
  \/ iteration = 0
  \/ /\ Len(records) > 0
     /\ records[Len(records)].terminal = "none"
     /\ records[Len(records)].iteration = iteration - 1

LoopSound ==
  /\ iteration \in Nat /\ reIncluded \in Seq(EventId)
  /\ stage = "prepared" => iteration = 0 /\ reIncluded = << >>
  /\ Running => NextRound(Written) /\ EndsWith(Written, reIncluded)
  /\ stage = "recording" =>
       /\ attempt = [sequence |-> 0, iteration |-> iteration, events |-> current.events,
                     reIncluded |-> attempt.reIncluded, terminal |-> attempt.terminal]
       /\ attempt.terminal = "none" => attempt.reIncluded \in EventId

\* Records that back the report of a sequence that ended.
BackedBy(records) ==
  /\ Len(reIncluded) < Len(records)
  /\ (report = "converged") = (records[Len(records)].terminal = "converged")
  /\ records[Len(records)].terminal # "none"
  /\ records[Len(records)].events = current.events
  /\ \A i \in 1..Len(reIncluded) :
       records[Len(records) - Len(reIncluded) - 1 + i].reIncluded = reIncluded[i]

Reported == stage = "ended" /\ report \in {"converged", "stopped"}

Backed == Reported => handle.buffer = << >> /\ BackedBy(Written)

HistoryInv == Consecutive(Written) /\ HandleSound /\ LoopSound /\ Backed

----------------------------------------------------------------------------
\* The beginning of a history is consecutive if all of it is.
LEMMA ConsecutivePrefix ==
  ASSUME NEW r, NEW q, IsList(r), IsList(q), Consecutive(r \o q)
  PROVE  Consecutive(r)
<1>1. Joins(r, q)
  BY ListsJoin
<1> DEFINE T == ListedIn(r \o q)
<1>2. r \in Seq(T) /\ q \in Seq(T)
  BY <1>1 DEF Joins
<1> HIDE DEF T
<1>3. /\ DOMAIN r = 1..Len(r) /\ Len(r) \in Nat /\ Len(q) \in Nat
      /\ DOMAIN (r \o q) = 1..(Len(r) + Len(q))
      /\ \A i \in 1..Len(r) : (r \o q)[i] = r[i]
  BY <1>2
<1> SUFFICES ASSUME NEW i \in 1..Len(r)
             PROVE  /\ LinesFit => r[i].sequence = i - 1
                    /\ \/ r[i].iteration = 0
                       \/ /\ i > 1
                          /\ r[i - 1].terminal = "none"
                          /\ r[i - 1].iteration = r[i].iteration - 1
  BY <1>3 DEF Consecutive
<1>4. i \in DOMAIN (r \o q) /\ (r \o q)[i] = r[i] /\ (i > 1 => (r \o q)[i - 1] = r[i - 1])
  BY <1>3
<1> QED
  BY <1>4 DEF Consecutive

Extends(all, r, a) ==
  /\ IsList(all) /\ Len(r) \in Nat /\ Len(all) = Len(r) + 1 /\ all[Len(r) + 1] = a
  /\ \A i \in 1..Len(r) : all[i] = r[i]

\* A list with one record more.
LEMMA ListExtends ==
  ASSUME NEW r, NEW a, IsList(r)
  PROVE  Extends(r \o <<a>>, r, a)
<1>1. Joins(r, <<a>>)
  BY ListsJoin, OnePiece
<1> DEFINE T == ListedIn(r \o <<a>>)
<1>2. r \in Seq(T) /\ <<a>> \in Seq(T) /\ IsList(r \o <<a>>)
  BY <1>1 DEF Joins
<1> HIDE DEF T
<1>3. /\ Len(r) \in Nat /\ Len(r \o <<a>>) = Len(r) + 1 /\ (r \o <<a>>)[Len(r) + 1] = a
      /\ \A i \in 1..Len(r) : (r \o <<a>>)[i] = r[i]
  BY <1>2
<1> QED
  BY <1>2, <1>3 DEF Extends

\* A record of the next round continues a history.
LEMMA ConsecutiveExtends ==
  ASSUME NEW all, NEW r, NEW a, IsList(r), Extends(all, r, a), Consecutive(r),
         LinesFit => a.sequence = Len(r),
         \/ a.iteration = 0
         \/ Len(r) > 0 /\ r[Len(r)].terminal = "none" /\ r[Len(r)].iteration = a.iteration - 1
  PROVE  Consecutive(all)
<1>1. /\ Len(r) \in Nat /\ DOMAIN all = 1..(Len(r) + 1) /\ DOMAIN r = 1..Len(r)
      /\ all[Len(r) + 1] = a /\ \A i \in 1..Len(r) : all[i] = r[i]
  BY DEF Extends, IsList
<1> SUFFICES ASSUME NEW i \in 1..(Len(r) + 1)
             PROVE  /\ LinesFit => all[i].sequence = i - 1
                    /\ \/ all[i].iteration = 0
                       \/ /\ i > 1
                          /\ all[i - 1].terminal = "none"
                          /\ all[i - 1].iteration = all[i].iteration - 1
  BY <1>1 DEF Consecutive
<1>2. CASE i = Len(r) + 1
  <2>1. all[i] = a /\ (Len(r) > 0 => i > 1 /\ all[i - 1] = r[Len(r)]) /\ i - 1 = Len(r)
    BY <1>1, <1>2
  <2> QED
    BY <2>1
<1>3. CASE i # Len(r) + 1
  <2>1. i \in DOMAIN r /\ all[i] = r[i] /\ (i > 1 => all[i - 1] = r[i - 1])
    BY <1>1, <1>3
  <2> QED
    BY <2>1 DEF Consecutive
<1> QED
  BY <1>2, <1>3

\* Every sequence is a list of what it names.
LEMMA SeqIsList ==
  ASSUME NEW T, NEW s \in Seq(T)
  PROVE  IsList(s)
BY DEF IsList, ListedIn

\* So is the empty one.
LEMMA EmptyIsList == IsList(<< >>)
<1>1. << >> \in Seq({})
  OBVIOUS
<1> QED
  BY <1>1, SeqIsList

\* A list cut in two.
Cut(u, n) ==
  /\ IsList(SubSeq(u, 1, n)) /\ IsList(SubSeq(u, n + 1, Len(u)))
  /\ SubSeq(u, 1, n) \o SubSeq(u, n + 1, Len(u)) = u

\* A list falls into its first n entries and the rest.
LEMMA ListCut ==
  ASSUME NEW u, IsList(u), NEW n \in 0..Len(u)
  PROVE  Cut(u, n)
<1> DEFINE T == ListedIn(u)
           a == SubSeq(u, 1, n)
           b == SubSeq(u, n + 1, Len(u))
<1>1. u \in Seq(T) /\ Len(u) \in Nat
  BY DEF IsList
<1> HIDE DEF T
<1>2. /\ a \in Seq(T) /\ b \in Seq(T) /\ Len(a) = n /\ Len(b) = Len(u) - n
      /\ \A i \in 1..n : a[i] = u[i]
      /\ \A i \in 1..(Len(u) - n) : b[i] = u[n + i]
  BY <1>1
<1> HIDE DEF a, b
<1>3. /\ Len(a \o b) = Len(u) /\ a \o b \in Seq(T)
      /\ \A i \in 1..n : (a \o b)[i] = a[i]
      /\ \A i \in 1..(Len(u) - n) : (a \o b)[n + i] = b[i]
  BY <1>1, <1>2
<1>4. ASSUME NEW i \in 1..Len(u) PROVE (a \o b)[i] = u[i]
  <2>1. CASE i \in 1..n
    BY <1>2, <1>3, <2>1
  <2>2. CASE i \notin 1..n
    <3>1. PICK k \in 1..(Len(u) - n) : i = n + k
      <4>1. i - n \in 1..(Len(u) - n) /\ n + (i - n) = i
        BY <1>1, <2>2
      <4> QED
        BY <4>1
    <3>2. (a \o b)[n + k] = b[k] /\ b[k] = u[n + k]
      BY <1>2, <1>3
    <3> QED
      BY <3>1, <3>2
  <2> QED
    BY <2>1, <2>2
<1>5. a \o b = u
  <2> DEFINE c == a \o b
  <2>1. c \in Seq(T) /\ Len(c) = Len(u) /\ \A i \in 1..Len(u) : c[i] = u[i]
    BY <1>3, <1>4
  <2> HIDE DEF c
  <2>2. c = u
    BY <1>1, <2>1
  <2> QED
    BY <2>2 DEF c
<1>6. IsList(a) /\ IsList(b)
  BY <1>2, SeqIsList
<1> QED
  BY <1>5, <1>6 DEF Cut, a, b

\* The beginning of a list does not depend on what comes after it.
LEMMA CutBefore ==
  ASSUME NEW u, NEW v, IsList(u), IsList(v), NEW n \in 0..Len(u)
  PROVE  SubSeq(u \o v, 1, n) = SubSeq(u, 1, n)
<1> DEFINE T == ListedIn(u) \cup ListedIn(v)
<1>1. u \in Seq(T) /\ v \in Seq(T)
  BY DEF IsList
<1> HIDE DEF T
<1> DEFINE w == u \o v
<1>2. /\ w \in Seq(T) /\ Len(w) = Len(u) + Len(v) /\ Len(u) \in Nat /\ Len(v) \in Nat
      /\ \A i \in 1..Len(u) : w[i] = u[i]
  BY <1>1
<1> HIDE DEF w
<1> DEFINE a == SubSeq(w, 1, n)   b == SubSeq(u, 1, n)
<1>3. /\ a \in Seq(T) /\ b \in Seq(T) /\ Len(a) = n /\ Len(b) = n
      /\ \A i \in 1..n : a[i] = w[i] /\ b[i] = u[i]
  BY <1>1, <1>2
<1> HIDE DEF a, b
<1>4. a = b
  BY <1>2, <1>3
<1> QED
  BY <1>4 DEF a, b, w

Regrouped(f, u, v) == (f \o u) \o v = f \o (u \o v) /\ IsList(f \o u) /\ IsList(u \o v)

\* A file, its buffer and a line can be grouped either way.
LEMMA Regroup ==
  ASSUME NEW f, NEW u, NEW v, IsList(f), IsList(u), IsList(v)
  PROVE  Regrouped(f, u, v)
<1> DEFINE T == ListedIn(f) \cup (ListedIn(u) \cup ListedIn(v))
<1>1. f \in Seq(T) /\ u \in Seq(T) /\ v \in Seq(T)
  BY DEF IsList
<1> HIDE DEF T
<1>2. (f \o u) \o v = f \o (u \o v)
  BY <1>1, ConcatAssociative
<1> QED
  BY <1>2, ListsJoin DEF Regrouped, Joins

\* However much of what was due gets written, the records stay consecutive.
LEMMA PartWritten ==
  ASSUME NEW f, NEW u, NEW n \in 0..Len(u), IsList(f), IsList(u),
         Consecutive(Attempts(f \o u))
  PROVE  IsList(f \o SubSeq(u, 1, n)) /\ Consecutive(Attempts(f \o SubSeq(u, 1, n)))
<1> DEFINE a == SubSeq(u, 1, n)
           b == SubSeq(u, n + 1, Len(u))
<1>1. IsList(a) /\ IsList(b) /\ a \o b = u
  BY ListCut DEF Cut
<1> HIDE DEF a, b
<1>2. f \o u = (f \o a) \o b /\ IsList(f \o a)
  <2>1. Regrouped(f, a, b)
    BY <1>1, Regroup
  <2> QED
    BY <1>1, <2>1 DEF Regrouped
<1>3. AttemptsJoin(f \o a, b)
  BY <1>1, <1>2, AttemptsConcat
<1>4. Consecutive(Attempts(f \o a))
  BY <1>2, <1>3, ConsecutivePrefix DEF AttemptsJoin
<1> QED
  BY <1>2, <1>4 DEF a

----------------------------------------------------------------------------
(* Steps that write nothing *)

NothingWritten == UNCHANGED <<file, handle>>

\* Neither the file nor the loop changes.
LEMMA HistoryQuiet ==
  ASSUME HistoryInv, NothingWritten,
         UNCHANGED <<stage, report, current, iteration, reIncluded, attempt>>
  PROVE  HistoryInv'
BY DEF HistoryInv, NothingWritten, Written, HandleSound, Running, LoopSound, NextRound, Backed,
       Reported, BackedBy

\* A sequence is prepared, or ends with an error.
LEMMA HistoryLeaves ==
  ASSUME HistoryInv, NothingWritten, iteration' \in Nat, reIncluded' \in Seq(EventId),
         \/ stage' = "prepared" /\ iteration' = 0 /\ reIncluded' = << >>
         \/ stage' = "ended" /\ report' = "error"
  PROVE  HistoryInv'
BY DEF HistoryInv, NothingWritten, Written, HandleSound, Running, LoopSound, Backed, Reported

\* The first round of a sequence needs no records.
LEMMA HistoryStarts ==
  ASSUME HistoryInv, Start
  PROVE  HistoryInv'
<1>1. /\ NothingWritten /\ UNCHANGED <<iteration, reIncluded>> /\ handle # NoHandle
      /\ stage = "prepared" /\ stage' = "evaluating"
  BY DEF Start, NothingWritten
<1>2. iteration = 0 /\ reIncluded = << >>
  BY <1>1 DEF HistoryInv, LoopSound
<1>3. IsList(Written)
  BY ListsJoin, AttemptsRead DEF HistoryInv, HandleSound, Written, Joins, ReadOff
<1>4. EndsWith(Written, << >>)
  BY <1>3 DEF EndsWith, IsList
<1>5. Written' = Written
  BY <1>1 DEF Written, NothingWritten
<1>6. LoopSound'
  BY <1>1, <1>2, <1>4, <1>5 DEF HistoryInv, LoopSound, NextRound, Running
<1>7. HandleSound' /\ Backed'
  BY <1>1, <1>5 DEF HistoryInv, HandleSound, Running, Backed, Reported, NothingWritten
<1> QED
  BY <1>5, <1>6, <1>7 DEF HistoryInv

\* What a round records is described by the loop as it is.
LEMMA HistoryRecords ==
  ASSUME HistoryInv, stage = "evaluating", NEW source, NEW terminal, NEW follow,
         Record(source, terminal, follow), terminal = "none" => source \in EventId
  PROVE  HistoryInv'
<1>1. /\ NothingWritten /\ UNCHANGED <<iteration, reIncluded, current>>
      /\ stage' = "recording" /\ attempt' = Describe(source, terminal)
  BY DEF Record, NothingWritten
<1>2. Written' = Written
  BY <1>1 DEF Written, NothingWritten
<1>3. /\ attempt' = [sequence |-> 0, iteration |-> iteration', events |-> current'.events,
                     reIncluded |-> attempt'.reIncluded, terminal |-> attempt'.terminal]
      /\ attempt'.terminal = "none" => attempt'.reIncluded \in EventId
  BY <1>1 DEF Describe
<1>4. LoopSound'
  BY <1>1, <1>2, <1>3 DEF HistoryInv, LoopSound, NextRound, Running
<1>5. HandleSound' /\ Backed'
  BY <1>1, <1>2 DEF HistoryInv, HandleSound, Running, Backed, Reported, NothingWritten
<1> QED
  BY <1>2, <1>4, <1>5 DEF HistoryInv

----------------------------------------------------------------------------
(* Handles *)

\* A handle that is opened has nothing to write.
LEMMA HistoryOpens ==
  ASSUME HistoryInv, Open
  PROVE  HistoryInv'
<1>1. /\ handle = NoHandle /\ handle.buffer = << >> /\ handle'.buffer = << >>
      /\ handle'.sequence = Len(Attempts(file)) /\ file' = file
      /\ handle' = [sequence |-> handle'.sequence, buffer |-> handle'.buffer]
      /\ UNCHANGED <<stage, report, current, iteration, reIncluded, attempt>>
  BY DEF Open, HistoryInv, HandleSound, loopVars
<1>2. IsList(file) /\ IsList(<< >>)
  BY EmptyIsList DEF HistoryInv, HandleSound
<1>3. file \o << >> = file
  BY <1>2, ConcatEmptySeq DEF IsList
<1>4. Written' = Written /\ Written = Attempts(file)
  BY <1>1, <1>3 DEF Written
<1>5. ~Running
  BY <1>1 DEF HistoryInv, HandleSound
<1>6. HandleSound'
  BY <1>1, <1>2, <1>4, <1>5 DEF HandleSound, Running
<1> QED
  BY <1>1, <1>4, <1>5, <1>6 DEF HistoryInv, LoopSound, Running, Backed, Reported, BackedBy

\* A handle that is dropped writes some of what it still has; a sequence that
\* reported has left nothing.
LEMMA HistoryCloses ==
  ASSUME HistoryInv, Close
  PROVE  HistoryInv'
<1>1. PICK n \in 0..Len(handle.buffer) : file' = file \o SubSeq(handle.buffer, 1, n)
  BY DEF Close
<1>2. /\ handle' = NoHandle /\ handle'.buffer = << >> /\ stage \in {"idle", "ended"}
      /\ handle' = [sequence |-> handle'.sequence, buffer |-> handle'.buffer]
      /\ UNCHANGED <<stage, report, current, iteration, reIncluded, attempt>>
  BY DEF Close, NoHandle, loopVars
<1>3. IsList(file') /\ Consecutive(Attempts(file'))
  BY <1>1, PartWritten DEF HistoryInv, HandleSound, Written
<1>4. file' \o << >> = file' /\ IsList(<< >>)
  BY <1>3, ConcatEmptySeq, EmptyIsList DEF IsList
<1>5. Written' = Attempts(file')
  BY <1>2, <1>4 DEF Written
<1>6. HandleSound'
  BY <1>2, <1>3, <1>4 DEF HandleSound, Running
<1>7. LoopSound'
  BY <1>2 DEF HistoryInv, LoopSound, Running
<1>8. Backed'
  <2> SUFFICES ASSUME Reported' PROVE BackedBy(Written)'
    BY <1>2 DEF Backed
  <2>1. handle.buffer = << >> /\ BackedBy(Written)
    BY <1>2 DEF HistoryInv, Backed, Reported
  <2>2. SubSeq(handle.buffer, 1, n) = << >>
    BY <1>1, <2>1
  <2>3. Written' = Written
    BY <1>1, <1>5, <2>1, <2>2 DEF Written
  <2> QED
    BY <1>2, <2>1, <2>3 DEF BackedBy
<1> QED
  BY <1>3, <1>5, <1>6, <1>7, <1>8 DEF HistoryInv

----------------------------------------------------------------------------
(* The record being written *)

Numbered == [attempt EXCEPT !.sequence = handle.sequence]

\* The record that is due comes next: with it, everything recorded is still
\* consecutive.
Due ==
  stage = "recording" =>
    /\ IsList(Unwritten) /\ IsList(file \o Unwritten)
    /\ Extends(Attempts(file \o Unwritten), Written, Numbered)
    /\ Consecutive(Attempts(file \o Unwritten))

\* The record being written is the next one of the history.
LEMMA RecordIsDue ==
  ASSUME HistoryInv
  PROVE  Due
<1> SUFFICES ASSUME stage = "recording"
             PROVE  /\ IsList(Unwritten) /\ IsList(file \o Unwritten)
                    /\ Extends(Attempts(file \o Unwritten), Written, Numbered)
                    /\ Consecutive(Attempts(file \o Unwritten))
  BY DEF Due
<1>1. /\ IsList(file) /\ IsList(handle.buffer) /\ (LinesFit => handle.sequence = Len(Written))
      /\ NextRound(Written) /\ Consecutive(Written)
      /\ attempt = [sequence |-> 0, iteration |-> iteration, events |-> current.events,
                    reIncluded |-> attempt.reIncluded, terminal |-> attempt.terminal]
  BY DEF HistoryInv, HandleSound, LoopSound, Running
<1>2. Line = Pieces(Numbered) /\ IsList(Line) /\ Attempts(Line) = <<Numbered>>
  BY OneLine DEF Line, ReadsLine, Numbered
<1>3. (LinesFit => Numbered.sequence = Len(Written)) /\ Numbered.iteration = iteration
  BY <1>1 DEF Numbered
<1>4. Regrouped(file, handle.buffer, Line)
  BY <1>1, <1>2, Regroup
<1>5. /\ file \o Unwritten = (file \o handle.buffer) \o Line
      /\ IsList(Unwritten) /\ IsList(file \o handle.buffer)
  BY <1>4 DEF Regrouped, Unwritten
<1>6. AttemptsJoin(file \o handle.buffer, Line)
  BY <1>2, <1>5, AttemptsConcat
<1>7. /\ Attempts(file \o Unwritten) = Written \o <<Numbered>> /\ IsList(Written)
      /\ IsList(file \o Unwritten)
  BY <1>2, <1>5, <1>6 DEF AttemptsJoin, Written
<1>8. Extends(Attempts(file \o Unwritten), Written, Numbered)
  BY <1>7, ListExtends
<1>9. Consecutive(Attempts(file \o Unwritten))
  <2>1. \/ Numbered.iteration = 0
        \/ /\ Len(Written) > 0 /\ Written[Len(Written)].terminal = "none"
           /\ Written[Len(Written)].iteration = Numbered.iteration - 1
    BY <1>1, <1>3 DEF NextRound
  <2> QED
    BY <1>1, <1>3, <1>7, <1>8, <2>1, ConsecutiveExtends
<1> QED
  BY <1>5, <1>7, <1>8, <1>9

----------------------------------------------------------------------------
(* Crashes *)

\* What a crash leaves in the file is a part of what was due.
LEMMA HistoryCrashes ==
  ASSUME HistoryInv, Crash
  PROVE  HistoryInv'
<1>1. /\ handle' = NoHandle /\ handle'.buffer = << >>
      /\ handle' = [sequence |-> handle'.sequence, buffer |-> handle'.buffer]
      /\ stage' = "idle" /\ iteration' = 0 /\ reIncluded' = << >>
  BY DEF Crash, NoHandle
<1>2. IsList(file') /\ Consecutive(Attempts(file'))
  <2>1. CASE stage = "recording"
    <3>1. PICK n \in 0..Len(Unwritten) : file' = file \o SubSeq(Unwritten, 1, n)
      BY <2>1 DEF Crash
    <3> QED
      BY <2>1, <3>1, RecordIsDue, PartWritten DEF Due, HistoryInv, HandleSound
  <2>2. CASE stage # "recording"
    <3>1. file' = file \o SubSeq(Unwritten, 1, 0)
      BY <2>2 DEF Crash
    <3>2. SubSeq(Unwritten, 1, 0) = SubSeq(handle.buffer, 1, 0)
      OBVIOUS
    <3>3. 0 \in 0..Len(handle.buffer)
      BY DEF HistoryInv, HandleSound, IsList
    <3> QED
      BY <3>1, <3>2, <3>3, PartWritten DEF HistoryInv, HandleSound, Written
  <2> QED
    BY <2>1, <2>2
<1>3. file' \o << >> = file' /\ IsList(<< >>)
  BY <1>2, ConcatEmptySeq, EmptyIsList DEF IsList
<1>4. Written' = Attempts(file')
  BY <1>1, <1>3 DEF Written
<1>5. HandleSound' /\ LoopSound' /\ Backed'
  BY <1>1, <1>2, <1>3, <1>4 DEF HandleSound, LoopSound, Running, Backed, Reported
<1> QED
  BY <1>2, <1>4, <1>5 DEF HistoryInv

----------------------------------------------------------------------------
(* Appending *)

\* Re-inclusions still end the history when one is added to both.
LEMMA EndsExtend ==
  ASSUME NEW all, NEW r, NEW a, NEW T, NEW sources \in Seq(T), a.reIncluded \in T,
         Extends(all, r, a), EndsWith(r, sources)
  PROVE  EndsWith(all, Append(sources, a.reIncluded))
<1> DEFINE m == Len(sources)
           t == Append(sources, a.reIncluded)
<1>1. /\ m \in Nat /\ Len(t) = m + 1 /\ t[m + 1] = a.reIncluded
      /\ \A i \in 1..m : t[i] = sources[i]
  OBVIOUS
<1>2. /\ Len(r) \in Nat /\ Len(all) = Len(r) + 1 /\ all[Len(r) + 1] = a /\ m <= Len(r)
      /\ \A i \in 1..Len(r) : all[i] = r[i]
      /\ \A i \in 1..m : r[Len(r) - m + i].reIncluded = sources[i]
  BY DEF Extends, EndsWith
<1> HIDE DEF m, t
<1>3. ASSUME NEW i \in 1..(m + 1)
      PROVE  all[Len(all) - (m + 1) + i].reIncluded = t[i]
  <2>1. Len(all) - (m + 1) + i = Len(r) - m + i
    BY <1>1, <1>2
  <2>2. CASE i = m + 1
    <3>1. Len(r) - m + i = Len(r) + 1
      BY <1>1, <1>2, <2>2
    <3> QED
      BY <1>1, <1>2, <2>1, <2>2, <3>1
  <2>3. CASE i # m + 1
    <3>1. i \in 1..m /\ Len(r) - m + i \in 1..Len(r)
      BY <1>1, <1>2, <2>3
    <3>2. all[Len(r) - m + i] = r[Len(r) - m + i] /\ t[i] = sources[i]
      BY <1>1, <1>2, <3>1
    <3> QED
      BY <1>2, <2>1, <3>1, <3>2
  <2> QED
    BY <2>2, <2>3
<1>4. Len(t) <= Len(all)
  BY <1>1, <1>2
<1> QED
  BY <1>1, <1>3, <1>4 DEF EndsWith, t

\* A sequence goes on only with its record in the file, and ends with the
\* terminal one last.
LEMMA HistoryWritten ==
  ASSUME HistoryInv, AppendWritten
  PROVE  HistoryInv'
<1> DEFINE all == Attempts(file \o Unwritten)
<1>1. /\ stage = "recording" /\ file' = file \o Unwritten
      /\ handle' = [sequence |-> handle.sequence + 1, buffer |-> << >>]
      /\ handle'.buffer = << >> /\ handle'.sequence = handle.sequence + 1
      /\ attempt' = NoAttempt /\ Continue
  BY DEF AppendWritten
<1>2. /\ IsList(file') /\ Extends(all, Written, Numbered) /\ Consecutive(all)
  BY <1>1, RecordIsDue DEF Due
<1>3. Written' = all
  BY <1>1, <1>2, ConcatEmptySeq DEF Written, IsList
<1>4. /\ (LinesFit => handle.sequence = Len(Written)) /\ handle.sequence \in Nat
      /\ iteration \in Nat /\ reIncluded \in Seq(EventId)
      /\ EndsWith(Written, reIncluded)
      /\ attempt = [sequence |-> 0, iteration |-> iteration, events |-> current.events,
                    reIncluded |-> attempt.reIncluded, terminal |-> attempt.terminal]
      /\ attempt.terminal = "none" => attempt.reIncluded \in EventId
  BY <1>1 DEF HistoryInv, HandleSound, LoopSound, Running
<1>5. /\ Numbered.iteration = iteration /\ Numbered.events = current.events
      /\ Numbered.reIncluded = attempt.reIncluded /\ Numbered.terminal = attempt.terminal
  BY <1>4 DEF Numbered
<1>6. /\ Len(Written) \in Nat /\ Len(all) = Len(Written) + 1 /\ all[Len(all)] = Numbered
      /\ \A i \in 1..Len(Written) : all[i] = Written[i]
  BY <1>2 DEF Extends
<1> HIDE DEF all
<1>7. HandleSound'
  <2>1. /\ handle' # NoHandle /\ handle'.sequence \in Nat
        /\ LinesFit => handle'.sequence = Len(Written')
    BY <1>1, <1>3, <1>4, <1>6 DEF NoHandle
  <2> QED
    BY <1>1, <1>2, <2>1, EmptyIsList DEF HandleSound
<1>8. CASE attempt.terminal = "none"
  <2>1. /\ stage' = "evaluating" /\ iteration' = iteration + 1
        /\ reIncluded' = Append(reIncluded, attempt.reIncluded)
    BY <1>1, <1>8 DEF Continue
  <2>2. reIncluded' \in Seq(EventId) /\ iteration' \in Nat
    BY <1>4, <1>8, <2>1
  <2>3. EndsWith(all, Append(reIncluded, Numbered.reIncluded))
    BY <1>2, <1>4, <1>5, <1>8, EndsExtend
  <2>4. NextRound(Written)'
    <3>1. /\ Len(all) > 0 /\ all[Len(all)].terminal = "none"
          /\ all[Len(all)].iteration = iteration' - 1
      BY <1>4, <1>5, <1>6, <1>8, <2>1
    <3> QED
      BY <1>3, <3>1 DEF NextRound
  <2>5. EndsWith(Written, reIncluded)'
    BY <1>3, <1>5, <2>1, <2>3 DEF EndsWith
  <2>6. LoopSound'
    BY <2>1, <2>2, <2>4, <2>5 DEF LoopSound
  <2>7. Backed'
    BY <2>1 DEF Backed, Reported
  <2> QED
    BY <1>2, <1>3, <1>7, <2>6, <2>7 DEF HistoryInv
<1>9. CASE attempt.terminal # "none"
  <2>1. /\ stage' = "ended" /\ UNCHANGED <<current, reIncluded, iteration>>
        /\ report' = IF attempt.terminal = "converged" THEN "converged" ELSE "stopped"
    BY <1>1, <1>9 DEF Continue
  <2>2. LoopSound'
    BY <1>4, <2>1 DEF LoopSound, Running
  <2>3. ASSUME NEW i \in 1..Len(reIncluded)
        PROVE  all[Len(all) - Len(reIncluded) - 1 + i].reIncluded = reIncluded[i]
    <3>1. Len(reIncluded) \in Nat /\ Len(reIncluded) <= Len(Written)
      BY <1>4 DEF EndsWith
    <3>2. Len(all) - Len(reIncluded) - 1 + i = Len(Written) - Len(reIncluded) + i
      BY <1>6, <3>1
    <3>3. Len(Written) - Len(reIncluded) + i \in 1..Len(Written)
      BY <1>6, <3>1
    <3>4. Written[Len(Written) - Len(reIncluded) + i].reIncluded = reIncluded[i]
      BY <1>4 DEF EndsWith
    <3> QED
      BY <1>6, <3>2, <3>3, <3>4
  <2>4. Len(reIncluded) < Len(all)
    BY <1>4, <1>6 DEF EndsWith
  <2>5. BackedBy(Written)'
    <3>1. /\ all[Len(all)].terminal = attempt.terminal
          /\ all[Len(all)].events = current.events
      BY <1>5, <1>6
    <3>2. (report' = "converged") = (attempt.terminal = "converged")
      BY <2>1
    <3> QED
      BY <1>3, <1>9, <2>1, <2>3, <2>4, <3>1, <3>2 DEF BackedBy
  <2> QED
    BY <1>1, <1>2, <1>3, <1>7, <2>2, <2>5 DEF HistoryInv, Backed
<1> QED
  BY <1>8, <1>9

\* What a failed write does with the rest of a line that fits, and of one that
\* does not.
Waits == \E n \in 0..(Len(Unwritten) - 1) :
  /\ file' = file \o SubSeq(Unwritten, 1, n)
  /\ handle' = [sequence |-> handle.sequence + 1,
                buffer |-> SubSeq(Unwritten, n + 1, Len(Unwritten))]

IsLost == \E n \in 0..(Len(Unwritten) - 1) :
  /\ file' = file \o SubSeq(Unwritten, 1, n)
  /\ handle' = [sequence |-> handle.sequence + 1,
                buffer |-> SubSeq(handle.buffer, n + 1, Len(handle.buffer))]

\* What a failed write leaves of a record that fits waits for the next one.
LEMMA HistoryWaits ==
  ASSUME HistoryInv, AppendFails, Waits
  PROVE  HistoryInv'
<1>1. /\ stage = "recording" /\ stage' = "ended" /\ report' = "error" /\ attempt' = NoAttempt
      /\ UNCHANGED <<iteration, reIncluded>>
  BY DEF AppendFails
<1>2. PICK n \in 0..(Len(Unwritten) - 1) :
        /\ file' = file \o SubSeq(Unwritten, 1, n)
        /\ handle' = [sequence |-> handle.sequence + 1,
                      buffer |-> SubSeq(Unwritten, n + 1, Len(Unwritten))]
  BY DEF Waits
<1>3. /\ IsList(file) /\ IsList(Unwritten) /\ Consecutive(Attempts(file \o Unwritten))
      /\ Extends(Attempts(file \o Unwritten), Written, Numbered)
      /\ handle.sequence \in Nat /\ (LinesFit => handle.sequence = Len(Written))
  BY <1>1, RecordIsDue DEF Due, HistoryInv, HandleSound, Running
<1> DEFINE a == SubSeq(Unwritten, 1, n)
           b == SubSeq(Unwritten, n + 1, Len(Unwritten))
<1>4. n \in 0..Len(Unwritten)
  BY <1>2, <1>3 DEF IsList
<1>5. IsList(a) /\ IsList(b) /\ a \o b = Unwritten
  BY <1>3, <1>4, ListCut DEF Cut
<1>6. file' = file \o a /\ handle' = [sequence |-> handle.sequence + 1, buffer |-> b]
  BY <1>2
<1> HIDE DEF a, b
<1>7. Regrouped(file, a, b)
  BY <1>3, <1>5, Regroup
<1>8. file' \o handle'.buffer = file \o Unwritten /\ IsList(file')
  BY <1>5, <1>6, <1>7 DEF Regrouped
<1>9. Written' = Attempts(file \o Unwritten)
  BY <1>8 DEF Written
<1>10. HandleSound'
  <2>1. /\ LinesFit => handle'.sequence = Len(Written')
        /\ handle' # NoHandle /\ handle'.sequence \in Nat
    BY <1>3, <1>6, <1>9 DEF Extends, NoHandle
  <2> QED
    BY <1>5, <1>6, <1>8, <2>1 DEF HandleSound
<1>11. LoopSound' /\ Backed'
  BY <1>1 DEF HistoryInv, LoopSound, Running, Backed, Reported
<1> QED
  BY <1>3, <1>9, <1>10, <1>11 DEF HistoryInv

\* Of one that does not fit, what was not written is lost; what waited before
\* it still waits, or was written.
LEMMA HistoryLoses ==
  ASSUME HistoryInv, AppendFails, ~LinesFit, IsLost
  PROVE  HistoryInv'
<1> DEFINE u == handle.buffer
<1>0. PICK n \in 0..(Len(Unwritten) - 1) :
        /\ file' = file \o SubSeq(Unwritten, 1, n)
        /\ handle' = [sequence |-> handle.sequence + 1,
                      buffer |-> SubSeq(u, n + 1, Len(u))]
  BY DEF IsLost
<1>1. /\ stage = "recording" /\ stage' = "ended" /\ report' = "error" /\ attempt' = NoAttempt
      /\ UNCHANGED <<iteration, reIncluded>>
  BY DEF AppendFails
<1>2. /\ IsList(file) /\ IsList(u) /\ IsList(Line) /\ Consecutive(Attempts(file \o u))
      /\ IsList(Unwritten) /\ Consecutive(Attempts(file \o Unwritten))
  BY <1>1, RecordIsDue, OneLine DEF Due, HistoryInv, HandleSound, Written, Line, ReadsLine
<1>3. n \in 0..Len(Unwritten) /\ Len(u) \in Nat
  BY <1>2 DEF IsList
<1>4. IsList(file') /\ Consecutive(Attempts(file'))
  BY <1>0, <1>2, <1>3, PartWritten
<1>5. /\ IsList(handle'.buffer) /\ Consecutive(Attempts(file' \o handle'.buffer))
  <2>1. CASE n <= Len(u)
    <3>1. SubSeq(Unwritten, 1, n) = SubSeq(u, 1, n)
      BY <1>2, <1>3, <2>1, CutBefore DEF Unwritten
    <3>2. Cut(u, n) /\ n \in 0..Len(u)
      BY <1>2, <1>3, <2>1, ListCut
    <3>3. Regrouped(file, SubSeq(u, 1, n), SubSeq(u, n + 1, Len(u)))
      BY <1>2, <3>2, Regroup DEF Cut
    <3>4. file' \o handle'.buffer = file \o u
      BY <1>0, <3>1, <3>2, <3>3 DEF Cut, Regrouped
    <3> QED
      BY <1>0, <1>2, <3>2, <3>4 DEF Cut
  <2>2. CASE ~(n <= Len(u))
    <3>1. handle'.buffer = << >>
      BY <1>0, <1>2, <1>3, <2>2 DEF IsList
    <3> QED
      BY <1>4, <3>1, EmptyIsList, ConcatEmptySeq DEF IsList
  <2> QED
    BY <2>1, <2>2
<1>6. /\ handle' # NoHandle
      /\ handle' = [sequence |-> handle'.sequence, buffer |-> handle'.buffer]
      /\ handle'.sequence \in Nat
  <2>1. handle.sequence \in Nat
    BY <1>1 DEF HistoryInv, HandleSound, Running
  <2> QED
    BY <1>0, <2>1 DEF NoHandle
<1>7. HandleSound'
  BY <1>1, <1>4, <1>5, <1>6 DEF HandleSound, Running
<1>8. LoopSound' /\ Backed'
  BY <1>1 DEF HistoryInv, LoopSound, Running, Backed, Reported
<1> QED
  BY <1>5, <1>7, <1>8 DEF HistoryInv, Written

\* A failed write.
LEMMA HistoryFails ==
  ASSUME HistoryInv, AppendFails
  PROVE  HistoryInv'
<1>1. PICK fits \in LineFits : IF fits THEN Waits ELSE IsLost
  BY FitsAssumption DEF AppendFails, Waits, IsLost
<1>2. CASE fits = TRUE
  BY <1>1, <1>2, HistoryWaits
<1>3. CASE fits = FALSE
  <2>1. ~LinesFit
    BY <1>1, <1>3 DEF LinesFit
  <2> QED
    BY <1>1, <1>3, <2>1, HistoryLoses
<1> QED
  BY <1>1, <1>2, <1>3, FitsAssumption

----------------------------------------------------------------------------
\* A history begins consistent.
LEMMA InitHistory == Init => HistoryInv
<1> SUFFICES ASSUME Init PROVE HistoryInv
  OBVIOUS
<1>1. /\ stage = "idle" /\ report = "none" /\ iteration = 0 /\ reIncluded = << >>
      /\ file = << >> /\ handle = NoHandle /\ handle.buffer = << >>
      /\ handle = [sequence |-> handle.sequence, buffer |-> handle.buffer]
  BY DEF Init, NoHandle
<1>2. IsList(<< >>) /\ << >> \o << >> = << >>
  BY EmptyIsList, ConcatEmptySeq DEF IsList
<1>3. Written = Attempts(<< >>)
  BY <1>1, <1>2 DEF Written
<1>4. Consecutive(Attempts(<< >>))
  <2>1. ReadOff(<< >>) /\ IsList(Closes(<< >>)) /\ ListedIn(Closes(<< >>)) = Closing({})
    BY <1>2, AttemptsRead, ClosesTyped DEF ListedIn
  <2>2. ListedIn(Closes(<< >>)) = {} /\ DOMAIN Closes(<< >>) = {}
    BY <2>1 DEF Closing, ListedIn
  <2> QED
    BY <2>2 DEF Attempts, Consecutive
<1>5. HandleSound /\ LoopSound /\ Backed
  BY <1>1, <1>2, <1>3 DEF HandleSound, LoopSound, Running, Backed, Reported
<1> QED
  BY <1>3, <1>4, <1>5 DEF HistoryInv

\* Every step keeps it consistent.
LEMMA NextHistory ==
  ASSUME HistoryInv, [Next]_vars
  PROVE  HistoryInv'
<1>1. CASE Succeeds \/ Fails \/ SpentReInclusions \/ SpentIterations
  BY <1>1, HistoryRecords DEF Succeeds, Fails, SpentReInclusions, SpentIterations, Evaluating
<1>2. CASE NegotiationFails
  BY <1>2, HistoryLeaves DEF NegotiationFails, NothingWritten, loopVars, HistoryInv, LoopSound
<1>3. ASSUME NEW e \in EventId, NEW closed \in ClosedSelections,
             SpentBytes(e, closed) \/ ReInclude(e, closed)
      PROVE  HistoryInv'
  BY <1>3, HistoryRecords DEF SpentBytes, ReInclude, Evaluating
<1>4. CASE AppendWritten \/ AppendFails
  BY <1>4, HistoryWritten, HistoryFails
<1>5. CASE Open \/ Close \/ Start \/ Crash
  BY <1>5, HistoryOpens, HistoryCloses, HistoryStarts, HistoryCrashes
<1>6. CASE Prepare
  BY <1>6, HistoryLeaves DEF Prepare, NothingWritten
<1>7. CASE Deliver \/ Advance \/ UNCHANGED vars
  BY <1>7, HistoryQuiet DEF Deliver, Advance, vars, loopVars, NothingWritten
<1> QED
  BY <1>1, <1>2, <1>3, <1>4, <1>5, <1>6, <1>7 DEF Next, RunRepair

\* The inductive invariant of the history: the file, with what the open handle
\* has yet to write, holds consecutive records, and the loop is in the round
\* they say comes next (RepairHistory, run_repair).
THEOREM HistorySafe == Spec => []HistoryInv
<1>1. Init => HistoryInv
  BY InitHistory
<1>2. HistoryInv /\ [Next]_vars => HistoryInv'
  BY NextHistory
<1> QED
  BY <1>1, <1>2, PTL DEF Spec

\* What the file holds is consecutive by itself.
LEMMA FileReads ==
  ASSUME HistoryInv
  PROVE  Consecutive(Attempts(file))
<1>1. AttemptsJoin(file, handle.buffer)
  BY AttemptsConcat DEF HistoryInv, HandleSound
<1> QED
  BY <1>1, ConsecutivePrefix DEF AttemptsJoin, HistoryInv, Written

\* A history file that can be read tells apart its sequences and numbers its
\* records by position, where records fit the buffer (RepairHistory::open,
\* RepairHistory::append).
THEOREM FilesConsistent == LinesFit => (Spec => []FileConsistent)
<1> SUFFICES ASSUME LinesFit PROVE Spec => []FileConsistent
  OBVIOUS
<1>1. HistoryInv => FileConsistent
  BY FileReads DEF Consecutive, FileConsistent, FollowOn
<1> QED
  BY <1>1, HistorySafe, PTL

\* Its sequences can be told apart even if records of any size are lost: a
\* lost record is never followed by a later one of its sequence.
THEOREM SequencesApart == Spec => [](FollowOn(Attempts(file)))
<1>1. HistoryInv => FollowOn(Attempts(file))
  BY FileReads DEF Consecutive, FollowOn
<1> QED
  BY <1>1, HistorySafe, PTL

\* A sequence that reports how it ended has its records in the file (run_repair,
\* RepairReport).
THEOREM ReportsBacked == Spec => []ReportBacked
<1>1. HistoryInv => ReportBacked
  <2> SUFFICES ASSUME HistoryInv, Reported PROVE BackedBy(Attempts(file))
    BY DEF ReportBacked, Reported, BackedBy
  <2>1. handle.buffer = << >> /\ BackedBy(Written)
    BY DEF HistoryInv, Backed
  <2>2. Written = Attempts(file)
    BY <2>1, ConcatEmptySeq DEF Written, HistoryInv, HandleSound, IsList
  <2> QED
    BY <2>1, <2>2
<1> QED
  BY <1>1, HistorySafe, PTL
=============================================================================
