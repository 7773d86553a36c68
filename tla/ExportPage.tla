----------------------------- MODULE ExportPage -----------------------------
(***************************************************************************)
(* How the server cuts one page of an export plan (export_sync_page,       *)
(* store/sync.rs): a binary search for the longest prefix of the remaining *)
(* events whose bundle fits the requested byte limit, after which          *)
(* post_export (http.rs) refuses a response over its own cap.  Export puts *)
(* the searches for one page after the other together.                     *)
(***************************************************************************)
EXTENDS Integers, Sequences

CONSTANTS
  Limits,     \* [events, bytes] limits of requests, and the response cap
  Envelope    \* what the response adds to the bundle it embeds

\* What the search needs of its inputs.  Stated as a definition for Export to
\* assume of the constants it supplies.
PageAssumption ==
  /\ Envelope \in Nat
  /\ Limits \subseteq [events : Nat \ {0}, bytes : Nat \ {0}, cap : Nat]

VARIABLES
  size,    \* size[n]: bytes of the bundle of the next n events
  limits,  \* the limits in force
  low,     \* counts below it are settled ...
  high,    \* ... and so are counts above it
  best,    \* the longest prefix known to fit, 0 for none
  answer   \* "searching", then the response

\* Events left in the plan from the offset of the request on.
Remaining == Len(size)

Upper == IF limits.events < Remaining THEN limits.events ELSE Remaining

\* The search begins over a plan of these sizes.
StartSearch(sizes) ==
  /\ size' = sizes
  /\ low' = 1 /\ high' = Upper' /\ best' = 0
  /\ answer' = "searching"

Middle == low + ((high - low) \div 2)

\* Fault: the search stops one probe early.
SearchingStrict == low < high

Searching == low <= high

Grow == best' = Middle /\ low' = Middle + 1 /\ UNCHANGED high

Shrink == high' = Middle - 1 /\ UNCHANGED <<low, best>>

Probe ==
  /\ answer = "searching" /\ Searching
  /\ IF size[Middle] <= limits.bytes THEN Grow ELSE Shrink
  /\ UNCHANGED <<size, limits, answer>>

\* No prefix fits the request: BundleLimitExceeded.
RefusePage ==
  /\ answer = "searching" /\ ~Searching /\ best = 0
  /\ answer' = "limit_exceeded"
  /\ UNCHANGED <<size, limits, low, high, best>>

\* The page is rendered, and refused whole if the response is over the cap.
Respond ==
  /\ answer = "searching" /\ ~Searching /\ best # 0
  /\ answer' = IF size[best] + Envelope <= limits.cap THEN "page"
                                                     ELSE "payload_too_large"
  /\ UNCHANGED <<size, limits, low, high, best>>

----------------------------------------------------------------------------
(* Properties *)

Fits(n) == size[n] <= limits.bytes

\* The loop invariant: everything below low fits, nothing above high does,
\* and best is the last count settled from below.
SearchInv ==
  /\ low \in 1..(Upper + 1) /\ high \in 0..Upper /\ low <= high + 1
  /\ best = low - 1
  /\ \A n \in 1..Upper : (n < low => Fits(n)) /\ (n > high => ~Fits(n))

\* The answer is exact: a page is the longest non-empty prefix within the
\* requested limits (spec-oa-04, step 7, its request part); a request is
\* refused for its limits only if not even one event fits; and for the cap
\* only if it asked for more than the cap leaves for a bundle.
AnswerExact ==
  /\ answer \in {"page", "payload_too_large"} =>
       /\ best \in 1..Upper /\ Fits(best)
       /\ \A n \in 1..Upper : n > best => ~Fits(n)
  /\ answer = "limit_exceeded" => ~Fits(1)
  /\ answer = "payload_too_large" => limits.bytes + Envelope > limits.cap
=============================================================================
