-------------------------- MODULE MCContextStore --------------------------
(* A small universe for ContextStore: in c1 a genesis, a fork and its       *)
(* merge, and a second parentless event; in c2 a genesis and an event whose *)
(* parent belongs to c1.                                                    *)
EXTENDS StoreVerification, TLC

CONSTANTS c1, c2, a1, a2, g1, x1, y1, m1, s1, g2, z2, main, dev, peer

BodyTable ==
  LET B(c, a, k, ps) == [context |-> c, author |-> a, kind |-> k, parents |-> ps]
      f == [e \in EventId |->
              CASE e = g1 -> B(c1, a1, "context.genesis", {})
                [] e = x1 -> B(c1, a1, "note", {g1})
                [] e = y1 -> B(c1, a2, "agent.request", {g1})
                [] e = m1 -> B(c1, a1, "context.merge", {x1, y1})
                [] e = s1 -> B(c1, a1, "note", {})
                [] e = g2 -> B(c2, a1, "context.genesis", {})
                [] e = z2 -> B(c2, a1, "note", {g2, x1})]
  IN  f

MCBody == CHOOSE f \in {BodyTable} : f \in [EventId -> EventBody]

Policy(c, g, as) == [context |-> c, genesis |-> g, authors |-> as]

\* c2 may also be pinned, by mistake, to a genesis of another context.
MCProvisions ==
  {Policy(c1, g1, {a1}), Policy(c1, g1, {a1, a2}), Policy(c1, s1, {a1}),
   Policy(c2, g1, {a1})}

Refs(m, d) == [n \in RefName |-> IF n = main THEN m ELSE d]

\* Bundles that differ in which of the two names has which head.
Offers(c, es, m, d) ==
  {[context |-> c, events |-> es, refs |-> refs] : refs \in {Refs(m, d), Refs(d, m)}}

MCBundles ==
  Offers(c1, <<g1, x1>>, x1, None)
    \cup Offers(c1, <<g1, y1, x1, m1>>, m1, y1)
    \cup Offers(c1, <<y1, m1>>, None, m1)
    \cup Offers(c1, <<s1>>, s1, None)
    \cup Offers(c1, << >>, g1, None)
    \cup Offers(c1, << >>, g2, None)
    \cup Offers(c2, <<z2>>, None, None)

\* Nothing tells the names apart.
Symmetric == Permutations(RefName)

RankTable ==
  LET order == <<m1, g1, z2, x1, s1, g2, y1>>
  IN  [e \in EventId |-> CHOOSE i \in DOMAIN order : order[i] = e]

MCRank == CHOOSE f \in {RankTable} : f \in [EventId -> 1..7]
=============================================================================
