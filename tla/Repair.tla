------------------------------- MODULE Repair -------------------------------
(***************************************************************************)
(* Bounded progressive repair (src/src/repair.rs): run_repair offers a     *)
(* handoff to a task driver, re-includes the omission the driver asks for, *)
(* offers again, and records every attempt in an append-only JSON-lines    *)
(* file before it goes on.  The driver is arbitrary.  While it works the   *)
(* recipient may move on, a write may come out short, and the process may  *)
(* die; the file outlives it.                                              *)
(*                                                                         *)
(* A line reaches the file in pieces: the first part of its JSON, the rest *)
(* of the JSON, and the newline.                                           *)
(***************************************************************************)
EXTENDS Handoff, Listing

CONSTANTS
  Bounds,      \* the RepairBounds callers choose from
  Omittable,   \* the events a sender may list as omitted
  LineFits,    \* whether a line fits the writer's buffer: a subset of BOOLEAN
  MaxRuns,     \* bound: repair sequences over one file
  MaxFaults    \* bound: short writes and crashes

ASSUME FitsAssumption == LineFits \subseteq BOOLEAN

\* RepairBounds::new refuses a bound of zero.
ASSUME BoundsAssumption ==
  Bounds \subseteq [iterations : Nat \ {0}, reIncluded : Nat \ {0}, bytes : Nat \ {0}]

VARIABLES
  head,        \* the recipient's head as it moves on
  stage,       \* where the caller is: idle, prepared, evaluating, recording, ended
  offered,     \* the handoff run_repair was called with ("original")
  current,     \* the handoff the driver looks at
  recipient,   \* the RecipientState run_repair was called with
  bounds,      \* the RepairBounds run_repair was called with
  iteration,   \* the loop counter
  reIncluded,  \* the sources re-included so far, in order
  attempt,     \* the record being appended
  next,        \* the follow-up the loop continues with once it is recorded
  report,      \* how the last sequence ended: none, converged, stopped, error
  file,        \* the history file: its pieces, in order
  handle,      \* the open RepairHistory: its next sequence number, its buffer
  delivered,   \* the last delta a recipient obtained, and its head then
  runs,        \* sequences started (bound)
  faults       \* short writes and crashes so far (bound)

loopVars == <<offered, current, recipient, bounds, iteration, reIncluded, attempt, next>>
vars == <<head, stage, loopVars, report, file, handle, delivered, runs, faults>>

NoHandoff == FromDelta({}, ColdStart)
NoDelivery == [events |-> {}, to |-> None]
NoBounds == [iterations |-> 0, reIncluded |-> 0, bytes |-> 0]
NoAttempt == [sequence |-> -1, iteration |-> -1, reIncluded |-> None, events |-> {},
              terminal |-> "none"]

----------------------------------------------------------------------------
(* The history file *)

Pieces(a) == <<<<"open", a>>, <<"close", a>>, <<"newline", a>>>>

\* RepairHistory::read_attempts: every non-blank line holds exactly one
\* record; the last line needs no newline.
Readable(f) == \A i \in DOMAIN f :
  /\ f[i][1] = "open" =>
       /\ i + 1 \in DOMAIN f /\ f[i + 1] = <<"close", f[i][2]>>
       /\ i > 1 => f[i - 1][1] = "newline"
       /\ i + 2 \in DOMAIN f => f[i + 2][1] = "newline"
  /\ f[i][1] = "close" => i > 1 /\ f[i - 1] = <<"open", f[i][2]>>

Closes(f) == Kept(f, {p \in ListedIn(f) : p[1] = "close"})

Attempts(f) == LET closes == Closes(f) IN [i \in DOMAIN closes |-> closes[i][2]]

NoHandle == [sequence |-> -1, buffer |-> << >>]

\* Fault: numbering restarts with every handle.
OpenFromZero ==
  /\ handle = NoHandle /\ Readable(file)
  /\ handle' = [sequence |-> 0, buffer |-> << >>]
  /\ UNCHANGED <<head, stage, loopVars, report, file, delivered, runs, faults>>

\* RepairHistory::open
Open ==
  /\ handle = NoHandle /\ Readable(file)
  /\ handle' = [sequence |-> Len(Attempts(file)), buffer |-> << >>]
  /\ UNCHANGED <<head, stage, loopVars, report, file, delivered, runs, faults>>

\* The handle is dropped between sequences: what is still buffered is
\* written as far as it goes, and errors are ignored.
Close ==
  /\ handle # NoHandle /\ stage \in {"idle", "ended"}
  /\ \E n \in 0..Len(handle.buffer) : file' = file \o SubSeq(handle.buffer, 1, n)
  /\ handle' = NoHandle
  /\ UNCHANGED <<head, stage, loopVars, report, delivered, runs, faults>>

----------------------------------------------------------------------------
(* The caller *)

\* The recipient's head moves on to an event that has the old head in its
\* history; a cold-start recipient may adopt any.
Advance ==
  /\ \E e \in Held : /\ head # e
                     /\ head # None => head \in ParentClosure({e})
                     /\ head' = e
  /\ UNCHANGED <<stage, loopVars, report, file, handle, delivered, runs, faults>>

\* The sender closes a selection, takes out what the recipient knows at its
\* head now, lists omissions, and flags what the recipient cannot act on.
\* What the last sequence left is forgotten.
Prepare ==
  /\ stage \in {"idle", "ended"} /\ runs < MaxRuns
  /\ Recognised(head)
  /\ \E closed \in ClosedSelections, omitted \in SUBSET Omittable :
       offered' = ShapeHandoff(WithOmissions(FromDelta(closed, RecipientAt(head)), omitted))
  /\ stage' = "prepared" /\ report' = "none"
  /\ current' = NoHandoff /\ recipient' = ColdStart /\ bounds' = NoBounds
  /\ iteration' = 0 /\ reIncluded' = << >>
  /\ delivered' = NoDelivery
  /\ UNCHANGED <<head, attempt, next, file, handle, runs, faults>>

\* run_repair is called with the recipient's state as it is now; the loop
\* never derives it again.
Start ==
  /\ stage = "prepared" /\ handle # NoHandle
  /\ Recognised(head) /\ recipient' = RecipientAt(head) /\ bounds' \in Bounds
  /\ current' = offered /\ stage' = "evaluating" /\ runs' = runs + 1
  /\ UNCHANGED <<head, offered, iteration, reIncluded, attempt, next, report, file,
                 handle, delivered, faults>>

\* Fault: the delta is taken without asking for the head again.
DeliverUnverified ==
  /\ stage = "ended" /\ report \in {"converged", "stopped"}
  /\ LET h == IF report = "converged" THEN current ELSE offered IN
       delivered' = [events |-> h.events, to |-> head]
  /\ UNCHANGED <<head, stage, loopVars, report, file, handle, runs, faults>>

\* The caller obtains the delta of the handoff the sequence ended with
\* (Handoff::verified_delta) for the recipient's head at that moment.
Deliver ==
  /\ stage = "ended" /\ report \in {"converged", "stopped"}
  /\ LET h == IF report = "converged" THEN current ELSE offered IN
       /\ VerifyValid(h, head)
       /\ delivered' = [events |-> h.events, to |-> head]
  /\ UNCHANGED <<head, stage, loopVars, report, file, handle, runs, faults>>

----------------------------------------------------------------------------
(* The loop of run_repair.  Each outcome of the driver builds the record of *)
(* the attempt and, for a re-inclusion, the follow-up; nothing changes      *)
(* until the record is appended.                                            *)

Describe(source, terminal) ==
  [sequence |-> 0, iteration |-> iteration, reIncluded |-> source,
   events |-> current.events, terminal |-> terminal]

Record(source, terminal, follow) ==
  /\ attempt' = Describe(source, terminal)
  /\ next' = follow
  /\ stage' = "recording"
  /\ UNCHANGED <<head, offered, current, recipient, bounds, iteration, reIncluded, report, file,
                 handle, delivered, runs, faults>>

Evaluating == stage = "evaluating" /\ iteration < bounds.iterations

Succeeds == Evaluating /\ Record(None, "converged", NoHandoff)

Fails == Evaluating /\ Record(None, "failure", NoHandoff)

SpentReInclusions ==
  /\ Evaluating /\ Len(reIncluded) >= bounds.reIncluded
  /\ Record(None, "re-inclusions", NoHandoff)

\* challenge or follow_up refuses: the note is unusable, the source is not a
\* listed omission, the handoff is stale or the source does not land.  The
\* error leaves the loop before anything is recorded.
NegotiationFails ==
  /\ Evaluating /\ Len(reIncluded) < bounds.reIncluded
  /\ stage' = "ended" /\ report' = "error"
  /\ UNCHANGED <<head, loopVars, file, handle, delivered, runs, faults>>

SpentBytes(e, closed) ==
  /\ Evaluating /\ Len(reIncluded) < bounds.reIncluded
  /\ CanFollowUp(current, closed, recipient, e)
  /\ Weight(FollowUp(current, closed, recipient, e).events) > bounds.bytes
  /\ Record(None, "bytes", NoHandoff)

ReInclude(e, closed) ==
  /\ Evaluating /\ Len(reIncluded) < bounds.reIncluded
  /\ CanFollowUp(current, closed, recipient, e)
  /\ LET follow == FollowUp(current, closed, recipient, e) IN
       Weight(follow.events) <= bounds.bytes /\ Record(e, "none", follow)

SpentIterations ==
  /\ stage = "evaluating" /\ iteration = bounds.iterations
  /\ Record(None, "iterations", NoHandoff)

----------------------------------------------------------------------------
(* RepairHistory::append, and what can go wrong with it *)

\* The line goes out under the handle's next number, behind what an earlier
\* failed write left in the buffer.
Line == Pieces([attempt EXCEPT !.sequence = handle.sequence])
Unwritten == handle.buffer \o Line

Continue ==
  IF attempt.terminal = "none"
  THEN /\ current' = next /\ reIncluded' = Append(reIncluded, attempt.reIncluded)
       /\ iteration' = iteration + 1
       /\ stage' = "evaluating" /\ UNCHANGED report
  ELSE /\ stage' = "ended"
       /\ report' = IF attempt.terminal = "converged" THEN "converged" ELSE "stopped"
       /\ UNCHANGED <<current, reIncluded, iteration>>

AppendWritten ==
  /\ stage = "recording"
  /\ file' = file \o Unwritten
  /\ handle' = [sequence |-> handle.sequence + 1, buffer |-> << >>]
  /\ Continue
  /\ attempt' = NoAttempt /\ next' = NoHandoff
  /\ UNCHANGED <<head, offered, recipient, bounds, delivered, runs, faults>>

\* Fault: the loop goes on although the record could not be written.
AppendUnchecked ==
  /\ stage = "recording" /\ faults < MaxFaults
  /\ \E n \in 0..(Len(Unwritten) - 1) :
       /\ file' = file \o SubSeq(Unwritten, 1, n)
       /\ handle' = [sequence |-> handle.sequence + 1,
                     buffer |-> SubSeq(Unwritten, n + 1, Len(Unwritten))]
  /\ Continue
  /\ attempt' = NoAttempt /\ next' = NoHandoff /\ faults' = faults + 1
  /\ UNCHANGED <<head, offered, recipient, bounds, delivered, runs>>

\* The write fails after some pieces; run_repair returns the error.  A line
\* that fits the buffer stays there for the next flush.  One that does not
\* is written around the buffer, once that is empty, and what was not
\* written of it is gone.
AppendFails ==
  /\ stage = "recording" /\ faults < MaxFaults
  /\ \E fits \in LineFits, n \in 0..(Len(Unwritten) - 1) :
       /\ file' = file \o SubSeq(Unwritten, 1, n)
       /\ handle' = [sequence |-> handle.sequence + 1,
                     buffer |-> IF fits THEN SubSeq(Unwritten, n + 1, Len(Unwritten))
                                ELSE SubSeq(handle.buffer, n + 1, Len(handle.buffer))]
  /\ stage' = "ended" /\ report' = "error"
  /\ attempt' = NoAttempt /\ next' = NoHandoff /\ faults' = faults + 1
  /\ UNCHANGED <<head, offered, current, recipient, bounds, iteration, reIncluded, delivered, runs>>

\* The process dies, possibly in the middle of a write.
Crash ==
  /\ handle # NoHandle /\ faults < MaxFaults
  /\ \E n \in 0..(IF stage = "recording" THEN Len(Unwritten) ELSE 0) :
       file' = file \o SubSeq(Unwritten, 1, n)
  /\ handle' = NoHandle /\ stage' = "idle" /\ report' = "none"
  /\ offered' = NoHandoff /\ current' = NoHandoff
  /\ recipient' = ColdStart /\ bounds' = NoBounds
  /\ iteration' = 0 /\ reIncluded' = << >> /\ attempt' = NoAttempt /\ next' = NoHandoff
  /\ faults' = faults + 1
  /\ UNCHANGED <<head, delivered, runs>>

----------------------------------------------------------------------------
Init ==
  /\ head \in Held \cup {None}
  /\ stage = "idle" /\ report = "none"
  /\ offered = NoHandoff /\ current = NoHandoff
  /\ recipient = ColdStart /\ bounds = NoBounds
  /\ iteration = 0 /\ reIncluded = << >> /\ attempt = NoAttempt /\ next = NoHandoff
  /\ file = << >> /\ handle = NoHandle
  /\ delivered = NoDelivery
  /\ runs = 0 /\ faults = 0

\* One round: the driver answers, or the record is written.
RunRepair ==
  \/ Succeeds \/ Fails \/ SpentReInclusions \/ NegotiationFails \/ SpentIterations
  \/ \E e \in EventId, closed \in ClosedSelections :
       SpentBytes(e, closed) \/ ReInclude(e, closed)
  \/ AppendWritten \/ AppendFails

Next ==
  \/ RunRepair
  \/ Open \/ Close \/ Prepare \/ Start \/ Deliver
  \/ Advance \/ Crash

Spec == Init /\ [][Next]_vars
----------------------------------------------------------------------------
(* Properties *)

\* A record is the first of a repair sequence or continues the unfinished one
\* just before it.
FollowOn(records) ==
  \A i \in DOMAIN records :
    \/ records[i].iteration = 0
    \/ /\ i > 1
       /\ records[i - 1].terminal = "none"
       /\ records[i - 1].iteration = records[i].iteration - 1

\* However handles, processes, failed writes and interrupted sequences followed
\* each other, a readable file tells them apart: a record's sequence is its
\* position in the file (RepairAttempt), and a record is the first of a repair
\* sequence or continues the unfinished one just before it.
FileConsistent ==
  LET records == Attempts(file) IN
  Readable(file) =>
    /\ \A i \in DOMAIN records : records[i].sequence = i - 1
    /\ FollowOn(records)

\* A report is backed by evidence: when a sequence reports how it ended, its
\* records are the last ones of the file, the terminal one last, and they
\* name the sources the report says were re-included, in that order.
ReportBacked ==
  stage = "ended" /\ report \in {"converged", "stopped"} /\ Readable(file) =>
    LET records == Attempts(file)
        n == Len(records)
        m == Len(reIncluded)
    IN  /\ n > m
        /\ (report = "converged") = (records[n].terminal = "converged")
        /\ records[n].terminal # "none" /\ records[n].events = current.events
        /\ \A i \in 1..m : records[n - m - 1 + i].reIncluded = reIncluded[i]

\* A repair cannot invent a source that was never omitted, nor take one
\* twice, nor more than the bound allows: the sources re-included are
\* distinct omissions of the handoff the sequence was called with.
ReIncludedOmissions ==
  /\ Len(reIncluded) <= bounds.reIncluded
  /\ \A i, j \in DOMAIN reIncluded : reIncluded[i] = reIncluded[j] => i = j
  /\ \A i \in DOMAIN reIncluded : reIncluded[i] \in offered.omissions

\* What the driver is shown is honest: nothing it is told was omitted is in
\* the delta, nothing in the delta is known to the recipient the handoff
\* names, the sources the sequence re-included are recorded on it, and what
\* the first offer flagged as beyond the recipient's capabilities stays
\* flagged as long as it is offered.
OfferedHonestly ==
  stage \in {"evaluating", "recording"} =>
    /\ current.omissions \cap current.events = {}
    /\ current.events \cap current.known = {}
    /\ current.known = RecipientAt(current.head).closure
    /\ current.reIncluded = offered.reIncluded \o reIncluded
    /\ current.events \cap offered.events \cap Uncovered \subseteq current.flags

\* A stale handoff is never applied: no event of a delta a recipient obtains
\* is already in its history at that moment (spec-option-b, B4 and B5).
DeliveredFresh ==
  delivered.events \cap RecipientAt(delivered.to).closure = {}

----------------------------------------------------------------------------
(* What the documentation says and the code does not do (see README.md) *)

\* A history a handle was opened on can still be read once an append to it
\* has succeeded, so that numbering continues across runs.
AppendKeepsReadable == [][
  stage = "recording" /\ stage' # "recording" /\ report' # "error" /\ handle' # NoHandle
  /\ Readable(file) => Readable(file')]_vars
=============================================================================
