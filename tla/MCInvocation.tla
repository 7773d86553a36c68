---------------------------- MODULE MCInvocation ----------------------------
(* One identity; r1 and r2 are requests on the genesis, p1 and x1 a response *)
(* and an error for r1, signed by a call or by another writer; a response to *)
(* r2 is too large.  n1 is a note on top of r1 and m merges p1 back into it. *)
EXTENDS Invocation, TLC

CONSTANTS c1, alice, g, r1, r2, p1, x1, n1, m, i1, i2, main, dev, peer

BodyTable ==
  LET B(k, ps) == [context |-> c1, author |-> alice, kind |-> k, parents |-> ps]
  IN  [e \in EventId |->
         CASE e = g  -> B("context.genesis", {})
           [] e = r1 -> B("agent.request", {g})
           [] e = r2 -> B("agent.request", {g})
           [] e = p1 -> B("agent.response", {r1})
           [] e = x1 -> B("agent.error", {r1})
           [] e = n1 -> B("note", {r1})
           [] e = m  -> B("context.merge", {n1, p1})]

MCBody == CHOOSE f \in {BodyTable} : f \in [EventId -> EventBody]

Symmetric == Permutations(Invoker)

MCIdentityOf == [i \in Invoker |-> alice]
=============================================================================
