--------------------------- MODULE ListingProofs ---------------------------
(***************************************************************************)
(* Facts about lists and what is kept of them, and induction over numbers  *)
(* in a form first-order provers can use.                                  *)
(***************************************************************************)
EXTENDS Listing, SequenceTheorems, WellFoundedInduction, TLAPS

\* A set of numbers has a least one.
LEMMA LeastNumber ==
  ASSUME NEW S \in SUBSET Nat, S # {}
  PROVE  \E i \in S : \A j \in S : i <= j
<1> DEFINE R == OpToRel(<, Nat)
<1>1. PICK i \in S : \A j \in S : ~(<<j, i>> \in R)
  <2>1. IsWellFoundedOn(R, Nat)
    BY NatLessThanWellFounded
  <2> HIDE DEF R
  <2> QED
    BY <2>1, WFMin
<1>2. ASSUME NEW j \in S PROVE i <= j
  <2>1. CASE j < i
    <3>1. <<j, i>> \in R
      BY <2>1 DEF OpToRel
    <3> QED
      BY <1>1, <3>1
  <2>2. CASE ~(j < i)
    BY <2>2
  <2> QED
    BY <2>1, <2>2
<1> QED
  BY <1>2

\* Induction, for a set of numbers.
LEMMA SetInduction ==
  ASSUME NEW S \in SUBSET Nat, 0 \in S, \A n \in S : n + 1 \in S
  PROVE  S = Nat
<1> DEFINE T == Nat \ S   R == OpToRel(<, Nat)
<1> SUFFICES ASSUME T # {} PROVE FALSE
  OBVIOUS
<1>1. PICK x \in T : \A y \in T : ~(<<y, x>> \in R)
  <2>1. T \subseteq Nat
    OBVIOUS
  <2>2. IsWellFoundedOn(R, Nat)
    BY NatLessThanWellFounded
  <2> HIDE DEF R, T
  <2> QED
    BY <2>1, <2>2, WFMin
<1>2. x # 0 /\ x - 1 \in Nat /\ x - 1 < x
  OBVIOUS
<1>3. <<x - 1, x>> \in R
  BY <1>2 DEF OpToRel
<1>4. x - 1 \notin T
  BY <1>1, <1>3
<1> QED
  BY <1>2, <1>4

\* One step of Kept.
KeptStep(s, S, f, n) ==
  IF n = 0 THEN << >>
  ELSE IF s[n] \in S THEN Append(f[n - 1], s[n]) ELSE f[n - 1]

\* f is the function Kept defines, up to n.
Keeps(s, S, f, n) == f = [i \in 0..n |-> KeptStep(s, S, f, i)]

\* There is such a function.
LEMMA KeepsExists ==
  ASSUME NEW s, NEW S, NEW n \in Nat
  PROVE  \E f : Keeps(s, S, f, n)
<1> DEFINE D == {m \in Nat : \E f : Keeps(s, S, f, m)}
<1>1. 0 \in D
  <2>1. Keeps(s, S, [i \in 0..0 |-> << >>], 0)
    BY DEF Keeps, KeptStep
  <2> QED
    BY <2>1
<1>2. ASSUME NEW m \in D PROVE m + 1 \in D
  <2>1. PICK f : Keeps(s, S, f, m)
    OBVIOUS
  <2> DEFINE g == [i \in 0..(m + 1) |-> IF i = m + 1 THEN KeptStep(s, S, f, i) ELSE f[i]]
  <2>2. ASSUME NEW i \in 0..(m + 1) PROVE g[i] = KeptStep(s, S, g, i)
    <3>1. CASE i = m + 1
      <4>1. g[i - 1] = f[i - 1] /\ g[i] = KeptStep(s, S, f, i)
        BY <3>1
      <4> QED
        BY <4>1 DEF KeptStep
    <3>2. CASE i # m + 1
      <4>1. i \in 0..m /\ g[i] = f[i] /\ (i # 0 => g[i - 1] = f[i - 1])
        BY <3>2
      <4>2. f[i] = KeptStep(s, S, f, i)
        BY <2>1, <4>1 DEF Keeps
      <4> QED
        BY <4>1, <4>2 DEF KeptStep
    <3> QED
      BY <3>1, <3>2
  <2>3. g = [i \in 0..(m + 1) |-> KeptStep(s, S, g, i)]
    <3>1. g = [i \in 0..(m + 1) |-> g[i]]
      OBVIOUS
    <3> HIDE DEF g
    <3> QED
      BY <2>2, <3>1
  <2>4. Keeps(s, S, g, m + 1) /\ m + 1 \in Nat
    BY <2>3 DEF Keeps
  <2> HIDE DEF g
  <2> QED
    BY <2>4
<1> HIDE DEF D
<1>3. D = Nat
  <2>1. D \in SUBSET Nat
    BY DEF D
  <2> QED
    BY <1>1, <1>2, <2>1, SetInduction
<1> QED
  BY <1>3 DEF D

\* Kept is its last value.
LEMMA KeptKeeps ==
  ASSUME NEW s, NEW S, Len(s) \in Nat
  PROVE  \E f : Keeps(s, S, f, Len(s)) /\ Kept(s, S) = f[Len(s)]
<1> DEFINE f == CHOOSE upTo : upTo = [n \in 0..Len(s) |->
                   IF n = 0 THEN << >>
                   ELSE IF s[n] \in S THEN Append(upTo[n - 1], s[n]) ELSE upTo[n - 1]]
<1>1. \E g : g = [n \in 0..Len(s) |->
                   IF n = 0 THEN << >>
                   ELSE IF s[n] \in S THEN Append(g[n - 1], s[n]) ELSE g[n - 1]]
  <2>1. PICK g : Keeps(s, S, g, Len(s))
    BY KeepsExists
  <2> QED
    BY <2>1 DEF Keeps, KeptStep
<1>2. f = [n \in 0..Len(s) |->
                   IF n = 0 THEN << >>
                   ELSE IF s[n] \in S THEN Append(f[n - 1], s[n]) ELSE f[n - 1]]
  BY <1>1
<1>3. Kept(s, S) = f[Len(s)]
  BY DEF Kept
<1> HIDE DEF f
<1> QED
  BY <1>2, <1>3 DEF Keeps, KeptStep

\* m are the positions in s of the entries of r: those of the first n that
\* are in S, in order.
At(s, S, r, n, m) ==
  /\ m \in [1..Len(r) -> 1..n]
  /\ \A i, j \in 1..Len(r) : i < j => m[i] < m[j]
  /\ \A i \in 1..Len(r) : r[i] = s[m[i]] /\ r[i] \in S
  /\ \A k \in 1..n : s[k] \in S => \E i \in 1..Len(r) : m[i] = k

\* What is kept of a list: its entries of S, each at a later position than
\* the one before it.
LEMMA KeptProperties ==
  ASSUME NEW T, NEW s \in Seq(T), NEW S
  PROVE  Kept(s, S) \in Seq(T) /\ \E m : At(s, S, Kept(s, S), Len(s), m)
<1>0. Len(s) \in Nat /\ \A i \in 1..Len(s) : s[i] \in T
  OBVIOUS
<1>1. PICK f : Keeps(s, S, f, Len(s)) /\ Kept(s, S) = f[Len(s)]
  BY <1>0, KeptKeeps
<1>2. \A n \in 0..Len(s) : f[n] = KeptStep(s, S, f, n)
  BY <1>1 DEF Keeps
<1> DEFINE D == {n \in Nat : n <= Len(s) => f[n] \in Seq(T) /\ \E m : At(s, S, f[n], n, m)}
<1>3. 0 \in D
  <2>1. f[0] = << >>
    BY <1>0, <1>2 DEF KeptStep
  <2>2. At(s, S, << >>, 0, [i \in 1..0 |-> i])
    BY DEF At
  <2>3. f[0] \in Seq(T) /\ \E m : At(s, S, f[0], 0, m)
    BY <2>1, <2>2
  <2> QED
    BY <2>3
<1>4. ASSUME NEW n \in D PROVE n + 1 \in D
  <2> SUFFICES ASSUME n + 1 <= Len(s)
               PROVE  f[n + 1] \in Seq(T) /\ \E m : At(s, S, f[n + 1], n + 1, m)
    OBVIOUS
  <2>1. n \in Nat /\ n <= Len(s) /\ n + 1 \in 1..Len(s) /\ n + 1 \in 0..Len(s)
    BY <1>0
  <2>2. f[n] \in Seq(T)
    BY <2>1
  <2>3. PICK m : At(s, S, f[n], n, m)
    BY <2>1
  <2>4. f[n + 1] = IF s[n + 1] \in S THEN Append(f[n], s[n + 1]) ELSE f[n]
    BY <1>2, <2>1 DEF KeptStep
  <2>5. CASE s[n + 1] \notin S
    <3>1. At(s, S, f[n], n + 1, m)
      BY <2>1, <2>2, <2>3, <2>5 DEF At
    <3> QED
      BY <2>2, <2>4, <2>5, <3>1
  <2>6. CASE s[n + 1] \in S
    <3> DEFINE r == f[n]  q == Append(r, s[n + 1])
               w == [i \in 1..Len(q) |-> IF i = Len(q) THEN n + 1 ELSE m[i]]
    <3>1. /\ q \in Seq(T) /\ Len(q) = Len(r) + 1 /\ q[Len(q)] = s[n + 1] /\ Len(r) \in Nat
          /\ \A i \in 1..Len(r) : q[i] = r[i]
      BY <1>0, <2>1, <2>2
    <3> HIDE DEF q, r
    <3>2. At(s, S, q, n + 1, w)
      <4>1. /\ m \in [1..Len(r) -> 1..n]
            /\ \A i, j \in 1..Len(r) : i < j => m[i] < m[j]
            /\ \A i \in 1..Len(r) : r[i] = s[m[i]] /\ r[i] \in S
            /\ \A k \in 1..n : s[k] \in S => \E i \in 1..Len(r) : m[i] = k
        BY <2>3 DEF At, r
      <4>2. w \in [1..Len(q) -> 1..(n + 1)]
        BY <2>1, <3>1, <4>1
      <4>3. ASSUME NEW i \in 1..Len(q), NEW j \in 1..Len(q), i < j PROVE w[i] < w[j]
        <5>1. i \in 1..Len(r) /\ w[i] = m[i] /\ m[i] \in 1..n
          BY <3>1, <4>1, <4>3
        <5>2. CASE j = Len(q)
          BY <2>1, <5>1, <5>2
        <5>3. CASE j # Len(q)
          <6>1. j \in 1..Len(r) /\ w[j] = m[j]
            BY <3>1, <5>3
          <6> QED
            BY <4>1, <4>3, <5>1, <6>1
        <5> QED
          BY <5>2, <5>3
      <4>4. \A i \in 1..Len(q) : q[i] = s[w[i]] /\ q[i] \in S
        BY <2>1, <2>6, <3>1, <4>1
      <4>5. \A k \in 1..(n + 1) : s[k] \in S => \E i \in 1..Len(q) : w[i] = k
        <5> SUFFICES ASSUME NEW k \in 1..(n + 1), s[k] \in S
                     PROVE  \E i \in 1..Len(q) : w[i] = k
          OBVIOUS
        <5>1. CASE k = n + 1
          BY <3>1, <5>1
        <5>2. CASE k # n + 1
          <6>1. PICK i \in 1..Len(r) : m[i] = k
            BY <2>1, <4>1, <5>2
          <6> QED
            BY <3>1, <6>1
        <5> QED
          BY <5>1, <5>2
      <4> HIDE DEF w
      <4> QED
        BY <4>2, <4>3, <4>4, <4>5 DEF At
    <3>3. f[n + 1] = q
      BY <2>4, <2>6 DEF q, r
    <3> QED
      BY <3>1, <3>2, <3>3
  <2> QED
    BY <2>5, <2>6
<1> HIDE DEF D
<1>5. D = Nat
  <2>1. D \in SUBSET Nat
    BY DEF D
  <2> QED
    BY <1>3, <1>4, <2>1, SetInduction
<1> QED
  BY <1>0, <1>1, <1>5 DEF D

\* The entries that are kept.
LEMMA KeptLists ==
  ASSUME NEW T, NEW s \in Seq(T), NEW S
  PROVE  ListedIn(Kept(s, S)) = ListedIn(s) \cap S
<1>1. Kept(s, S) \in Seq(T)
  BY KeptProperties
<1>2. PICK m : At(s, S, Kept(s, S), Len(s), m)
  BY KeptProperties
<1> DEFINE r == Kept(s, S)
<1> HIDE DEF r
<1>3. /\ r \in Seq(T) /\ m \in [1..Len(r) -> 1..Len(s)]
      /\ \A i \in 1..Len(r) : r[i] = s[m[i]] /\ r[i] \in S
      /\ \A k \in 1..Len(s) : s[k] \in S => \E i \in 1..Len(r) : m[i] = k
  BY <1>1, <1>2 DEF At, r
<1>4. DOMAIN r = 1..Len(r) /\ DOMAIN s = 1..Len(s)
  BY <1>3
<1>5. ListedIn(r) \subseteq ListedIn(s) \cap S
  BY <1>3, <1>4 DEF ListedIn
<1>6. ASSUME NEW k \in 1..Len(s), s[k] \in S PROVE s[k] \in ListedIn(r)
  BY <1>3, <1>4, <1>6 DEF ListedIn
<1>7. ListedIn(s) \cap S \subseteq ListedIn(r)
  BY <1>4, <1>6 DEF ListedIn
<1> QED
  BY <1>5, <1>7 DEF r

\* In a list without repetitions, what is kept has none and keeps its order.
LEMMA KeptOrder ==
  ASSUME NEW T, NEW s \in Seq(T), NEW S, \A i, j \in 1..Len(s) : s[i] = s[j] => i = j,
         NEW i \in 1..Len(Kept(s, S))
  PROVE  /\ \A j \in 1..Len(Kept(s, S)) : Kept(s, S)[i] = Kept(s, S)[j] => i = j
         /\ \E k \in 1..Len(s) :
              /\ s[k] = Kept(s, S)[i]
              /\ \A l \in 1..(k - 1) : s[l] \in S => \E j \in 1..(i - 1) : Kept(s, S)[j] = s[l]
<1>1. Kept(s, S) \in Seq(T) /\ Len(s) \in Nat
  BY KeptProperties
<1>2. PICK m : At(s, S, Kept(s, S), Len(s), m)
  BY KeptProperties
<1> DEFINE r == Kept(s, S)
<1> HIDE DEF r
<1>3. /\ m \in [1..Len(r) -> 1..Len(s)] /\ Len(r) \in Nat
      /\ \A a, b \in 1..Len(r) : a < b => m[a] < m[b]
      /\ \A a \in 1..Len(r) : r[a] = s[m[a]]
      /\ \A k \in 1..Len(s) : s[k] \in S => \E a \in 1..Len(r) : m[a] = k
  BY <1>1, <1>2 DEF At, r
<1>4. ASSUME NEW j \in 1..Len(r), r[i] = r[j] PROVE i = j
  <2>1. m[i] = m[j] /\ i \in 1..Len(r)
    BY <1>3, <1>4 DEF r
  <2> QED
    BY <1>3, <2>1
<1>5. ASSUME NEW l \in 1..(m[i] - 1), s[l] \in S
      PROVE  \E j \in 1..(i - 1) : r[j] = s[l]
  <2>0. i \in 1..Len(r)
    BY DEF r
  <2>1. l \in 1..Len(s) /\ l < m[i]
    BY <1>1, <1>3, <2>0
  <2>2. PICK a \in 1..Len(r) : m[a] = l
    BY <1>3, <1>5, <2>1
  <2>3. a < i
    <3>1. CASE a = i
      BY <1>3, <2>0, <2>1, <2>2, <3>1
    <3>2. CASE a > i
      BY <1>3, <2>0, <2>1, <2>2, <3>2
    <3> QED
      BY <1>3, <2>0, <3>1, <3>2
  <2> QED
    BY <1>3, <2>0, <2>2, <2>3
<1>6. m[i] \in 1..Len(s) /\ s[m[i]] = r[i]
  BY <1>3 DEF r
<1> QED
  BY <1>4, <1>5, <1>6 DEF r

\* If in such a list everything an entry stands on comes before it, the same
\* is true of what is kept.
StandsOnKept(r, S, P) ==
  \A i \in 1..Len(r) : \A p \in P[r[i]] \cap S : \E j \in 1..(i - 1) : r[j] = p

\* What is kept still comes after what it stands on, so far as that is kept too.
LEMMA KeptUpon ==
  ASSUME NEW T, NEW s \in Seq(T), NEW S, NEW P,
         \A i, j \in 1..Len(s) : s[i] = s[j] => i = j,
         \A i \in 1..Len(s) : \A p \in P[s[i]] : \E j \in 1..(i - 1) : s[j] = p
  PROVE  StandsOnKept(Kept(s, S), S, P)
<1> SUFFICES ASSUME NEW i \in 1..Len(Kept(s, S)), NEW p \in P[Kept(s, S)[i]] \cap S
             PROVE  \E j \in 1..(i - 1) : Kept(s, S)[j] = p
  BY DEF StandsOnKept
<1>1. PICK k \in 1..Len(s) :
        /\ s[k] = Kept(s, S)[i]
        /\ \A l \in 1..(k - 1) : s[l] \in S => \E j \in 1..(i - 1) : Kept(s, S)[j] = s[l]
  BY KeptOrder
<1>2. p \in P[s[k]]
  BY <1>1
<1>3. PICK l \in 1..(k - 1) : s[l] = p
  BY <1>2
<1> QED
  BY <1>1, <1>3

\* The rest of a list: what it has beyond `has`, each entry once, and each
\* after all that it stands on (P), unless that is in `has`.
IsRest(rest, all, has, P) ==
  /\ \A i \in 1..Len(rest) : rest[i] \in all \ has
  /\ \A a \in all \ has : \E i \in 1..Len(rest) : rest[i] = a
  /\ \A i, j \in 1..Len(rest) : rest[i] = rest[j] => i = j
  /\ \A i \in 1..Len(rest) : \A p \in P[rest[i]] :
       p \in has \/ \E j \in 1..(i - 1) : rest[j] = p

\* Leaving out what somebody has leaves the rest.
LEMMA KeptRest ==
  ASSUME NEW T, NEW s \in Seq(T), NEW has, NEW P, \A t \in T : P[t] \subseteq T,
         \A i, j \in 1..Len(s) : s[i] = s[j] => i = j,
         \A i \in 1..Len(s) : \A p \in P[s[i]] : \E j \in 1..(i - 1) : s[j] = p
  PROVE  /\ Kept(s, T \ has) \in Seq(T)
         /\ IsRest(Kept(s, T \ has), ListedIn(s), has, P)
<1> DEFINE S == T \ has
           rest == Kept(s, S)
<1>1. rest \in Seq(T) /\ ListedIn(rest) = ListedIn(s) \cap S
  BY KeptProperties, KeptLists
<1>2. \A i, j \in 1..Len(rest) : rest[i] = rest[j] => i = j
  BY KeptOrder
<1>3. StandsOnKept(rest, S, P)
  BY KeptUpon
<1>4. ListedIn(s) \subseteq T /\ DOMAIN rest = 1..Len(rest)
  BY <1>1 DEF ListedIn
<1> HIDE DEF rest
<1>5. /\ \A i \in 1..Len(rest) : rest[i] \in ListedIn(s) \ has
      /\ \A a \in ListedIn(s) \ has : \E i \in 1..Len(rest) : rest[i] = a
  BY <1>1, <1>4 DEF ListedIn
<1>6. \A i \in 1..Len(rest) : \A p \in P[rest[i]] :
        p \in has \/ \E j \in 1..(i - 1) : rest[j] = p
  <2>1. ASSUME NEW i \in 1..Len(rest), NEW p \in P[rest[i]], p \notin has
        PROVE  \E j \in 1..(i - 1) : rest[j] = p
    <3>1. rest[i] \in T
      BY <1>1
    <3>2. p \in P[rest[i]] \cap S
      BY <2>1, <3>1
    <3> QED
      BY <1>3, <3>2 DEF StandsOnKept
  <2> QED
    BY <2>1
<1>7. rest \in Seq(T) /\ IsRest(rest, ListedIn(s), has, P)
  BY <1>1, <1>2, <1>5, <1>6 DEF IsRest
<1> QED
  BY <1>7 DEF rest

----------------------------------------------------------------------------
(* Lists put together *)

\* An entry put behind two lists is put behind the second.
PutLast(s, t, x) == Append(s \o t, x) = s \o Append(t, x)

\* It does not matter when the lists are joined.
LEMMA AppendLast ==
  ASSUME NEW T, NEW s \in Seq(T), NEW t \in Seq(T), NEW x \in T
  PROVE  PutLast(s, t, x)
<1>1. <<x>> \in Seq(T) /\ s \o t \in Seq(T)
  OBVIOUS
<1>2. (s \o t) \o <<x>> = s \o (t \o <<x>>)
  BY <1>1, ConcatAssociative
<1>3. Append(s \o t, x) = (s \o t) \o <<x>> /\ Append(t, x) = t \o <<x>>
  BY <1>1, AppendIsConcat
<1> QED
  BY <1>2, <1>3 DEF PutLast

\* From position d on, s goes on like t, and keeps of it what t keeps.
GoesOn(s, S, t, R, d) ==
  /\ d + Len(t) <= Len(s)
  /\ \A i \in 1..Len(t) : s[d + i] = t[i] /\ (t[i] \in S <=> t[i] \in R)

Joined(T, f, d, g, n) == g[n] \in Seq(T) /\ f[d + n] = f[d] \o g[n]

\* A list that goes on like another keeps, from there on, what the other keeps.
LEMMA KeepsShift ==
  ASSUME NEW T, NEW s \in Seq(T), NEW t \in Seq(T), NEW S, NEW R, NEW d \in Nat,
         GoesOn(s, S, t, R, d), NEW f, NEW g, Keeps(s, S, f, Len(s)),
         Keeps(t, R, g, Len(t)), f[d] \in Seq(T)
  PROVE  Joined(T, f, d, g, Len(t))
<1> DEFINE D == {n \in Nat : n <= Len(t) => Joined(T, f, d, g, n)}
<1>0. Len(s) \in Nat /\ Len(t) \in Nat /\ \A i \in 1..Len(t) : t[i] \in T
  OBVIOUS
<1>1. /\ \A n \in 0..Len(s) : f[n] = KeptStep(s, S, f, n)
      /\ \A n \in 0..Len(t) : g[n] = KeptStep(t, R, g, n)
  BY DEF Keeps
<1>2. 0 \in D
  <2>1. g[0] = << >>
    BY <1>0, <1>1 DEF KeptStep
  <2>2. << >> \in Seq(T) /\ f[d] \o << >> = f[d] /\ d + 0 = d
    BY ConcatEmptySeq
  <2>3. Joined(T, f, d, g, 0)
    BY <2>1, <2>2 DEF Joined
  <2> QED
    BY <2>3
<1>3. ASSUME NEW n \in D PROVE n + 1 \in D
  <2> SUFFICES ASSUME n + 1 <= Len(t) PROVE Joined(T, f, d, g, n + 1)
    OBVIOUS
  <2>1. /\ n \in Nat /\ n + 1 \in 1..Len(t) /\ n + 1 \in 0..Len(t)
        /\ d + (n + 1) \in 0..Len(s) /\ d + (n + 1) # 0 /\ (d + (n + 1)) - 1 = d + n
        /\ (n + 1) - 1 = n /\ n + 1 # 0
    BY <1>0 DEF GoesOn
  <2>2. g[n] \in Seq(T) /\ f[d + n] = f[d] \o g[n]
    <3>1. Joined(T, f, d, g, n)
      BY <1>0, <2>1
    <3> QED
      BY <3>1 DEF Joined
  <2>3. PICK x \in T : x = t[n + 1] /\ s[d + (n + 1)] = x /\ (x \in S <=> x \in R)
    BY <1>0, <2>1 DEF GoesOn
  <2>4. g[n + 1] = IF x \in R THEN Append(g[n], x) ELSE g[n]
    BY <1>1, <2>1, <2>3 DEF KeptStep
  <2>5. f[d + (n + 1)] = IF x \in S THEN Append(f[d + n], x) ELSE f[d + n]
    BY <1>1, <2>1, <2>3 DEF KeptStep
  <2>6. Append(f[d] \o g[n], x) = f[d] \o Append(g[n], x) /\ Append(g[n], x) \in Seq(T)
    <3>1. f[d] \in Seq(T) /\ g[n] \in Seq(T)
      BY <2>2
    <3>2. PutLast(f[d], g[n], x)
      BY <3>1, AppendLast
    <3> QED
      BY <3>1, <3>2 DEF PutLast
  <2>7. g[n + 1] \in Seq(T) /\ f[d + (n + 1)] = f[d] \o g[n + 1]
    BY <2>2, <2>3, <2>4, <2>5, <2>6
  <2> QED
    BY <2>7 DEF Joined
<1> HIDE DEF D
<1>4. D = Nat
  <2>1. D \in SUBSET Nat
    BY DEF D
  <2> QED
    BY <1>2, <1>3, <2>1, SetInduction
<1> QED
  BY <1>0, <1>4 DEF D

\* What is kept of two lists put together.
LEMMA KeptConcat ==
  ASSUME NEW T, NEW s \in Seq(T), NEW t \in Seq(T), NEW S
  PROVE  Kept(s \o t, S) = Kept(s, S) \o Kept(t, S)
<1> DEFINE u == s \o t
<1>1. /\ u \in Seq(T) /\ Len(u) = Len(s) + Len(t) /\ Len(s) \in Nat /\ Len(t) \in Nat
      /\ \A i \in 1..Len(s) : u[0 + i] = s[i]
      /\ \A i \in 1..Len(t) : u[Len(s) + i] = t[i]
  OBVIOUS
<1> HIDE DEF u
<1>2. PICK f : Keeps(u, S, f, Len(u)) /\ Kept(u, S) = f[Len(u)]
  <2>1. Len(u) \in Nat
    BY <1>1
  <2> QED
    BY <2>1, KeptKeeps
<1>3. PICK g : Keeps(s, S, g, Len(s)) /\ Kept(s, S) = g[Len(s)]
  BY <1>1, KeptKeeps
<1>4. PICK h : Keeps(t, S, h, Len(t)) /\ Kept(t, S) = h[Len(t)]
  BY <1>1, KeptKeeps
<1>5. f[0] = << >>
  BY <1>1, <1>2 DEF Keeps, KeptStep
<1>6. g[Len(s)] \in Seq(T) /\ f[0 + Len(s)] = f[0] \o g[Len(s)]
  <2>1. f[0] \in Seq(T) /\ GoesOn(u, S, s, S, 0)
    BY <1>1, <1>5 DEF GoesOn
  <2>2. Joined(T, f, 0, g, Len(s))
    BY <1>1, <1>2, <1>3, <2>1, KeepsShift
  <2> QED
    BY <2>2 DEF Joined
<1>7. f[Len(s)] = g[Len(s)]
  BY <1>1, <1>5, <1>6, ConcatEmptySeq
<1>8. f[Len(s) + Len(t)] = f[Len(s)] \o h[Len(t)]
  <2>1. f[Len(s)] \in Seq(T) /\ GoesOn(u, S, t, S, Len(s))
    BY <1>1, <1>6, <1>7 DEF GoesOn
  <2>2. Joined(T, f, Len(s), h, Len(t))
    BY <1>1, <1>2, <1>4, <2>1, KeepsShift
  <2> QED
    BY <2>2 DEF Joined
<1> QED
  BY <1>1, <1>2, <1>3, <1>4, <1>7, <1>8 DEF u

\* It does not matter whether what is not in the list would be kept.
LEMMA KeptSame ==
  ASSUME NEW T, NEW s \in Seq(T), NEW S, NEW R,
         \A i \in 1..Len(s) : s[i] \in S <=> s[i] \in R
  PROVE  Kept(s, S) = Kept(s, R)
<1>1. Len(s) \in Nat
  OBVIOUS
<1>2. PICK f : Keeps(s, S, f, Len(s)) /\ Kept(s, S) = f[Len(s)]
  BY <1>1, KeptKeeps
<1>3. PICK g : Keeps(s, R, g, Len(s)) /\ Kept(s, R) = g[Len(s)]
  BY <1>1, KeptKeeps
<1>4. f[0] = << >>
  BY <1>1, <1>2 DEF Keeps, KeptStep
<1>5. g[Len(s)] \in Seq(T) /\ f[0 + Len(s)] = f[0] \o g[Len(s)]
  <2>1. f[0] \in Seq(T) /\ GoesOn(s, S, s, R, 0)
    BY <1>1, <1>4 DEF GoesOn
  <2>2. Joined(T, f, 0, g, Len(s))
    BY <1>2, <1>3, <2>1, KeepsShift
  <2> QED
    BY <2>2 DEF Joined
<1> QED
  BY <1>1, <1>2, <1>3, <1>4, <1>5, ConcatEmptySeq
=============================================================================
