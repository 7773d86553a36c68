-------------------------- MODULE MCBranchWriters --------------------------
(* Two identities race on two branches: a and b fork from the genesis, ab   *)
(* and ba extend the other's event, m merges the fork, and d merges a with  *)
(* its own parent.                                                          *)
EXTENDS BranchWriters

CONSTANTS c1, alice, bob, g, a, b, ab, ba, m, d, w1, w2, main, dev, peer

MCBody ==
  LET B(x, k, ps) == [context |-> c1, author |-> x, kind |-> k, parents |-> ps]
  IN  [e \in EventId |->
         CASE e = g  -> B(alice, "context.genesis", {})
           [] e = a  -> B(alice, "note", {g})
           [] e = b  -> B(bob, "note", {g})
           [] e = ab -> B(bob, "note", {a})
           [] e = ba -> B(alice, "note", {b})
           [] e = m  -> B(alice, "context.merge", {a, b})
           [] e = d  -> B(bob, "context.merge", {g, a})]

MCIdentityOf == [w \in Writer |-> IF w = w1 THEN alice ELSE bob]
=============================================================================
