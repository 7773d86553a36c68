------------------------------ MODULE Listing ------------------------------
(***************************************************************************)
(* What is left of a list when only some of its entries are kept, in the   *)
(* order they have: Vec::retain and the filters of the source.  It is      *)
(* SelectSeq for a set, written as a recursive function so that facts      *)
(* about it can be proved (ListingProofs).                                 *)
(***************************************************************************)
EXTENDS Integers, Sequences

ListedIn(s) == {s[i] : i \in DOMAIN s}

\* s lists the members of S, each once and after those its edges lead to.
ListsOnce(s, S, edges) ==
  /\ ListedIn(s) = S
  /\ \A i, j \in DOMAIN s : s[i] = s[j] => i = j
  /\ \A i \in DOMAIN s : \A p \in edges[s[i]] : \E j \in 1..(i - 1) : s[j] = p

\* The entries of s that are in S.
Kept(s, S) ==
  LET upTo[n \in 0..Len(s)] ==
        IF n = 0 THEN << >>
        ELSE IF s[n] \in S THEN Append(upTo[n - 1], s[n]) ELSE upTo[n - 1]
  IN  upTo[Len(s)]
=============================================================================
