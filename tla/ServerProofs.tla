---------------------------- MODULE ServerProofs ----------------------------
(***************************************************************************)
(* What the synchronization server promises.  For any number of            *)
(* connections and permits, any requests and any limits: a request head    *)
(* is bounded exactly however it is split into reads, because the last     *)
(* three bytes of what was read and the next read together hold every      *)
(* blank line that ends in that read; and a permit is out exactly for each *)
(* running handler, because every step that ends a handler gives it back.  *)
(*                                                                         *)
(* For every history, all heads and all limits, an export request lists    *)
(* what it should or refuses what it must: what stands above the closing   *)
(* frame of an event belongs to its history, so meeting an event that is   *)
(* being visited would be a cycle.  The plan keeps the order of the        *)
(* listing, each page is the longest prefix that fits, and the pages       *)
(* follow on to the end of the plan.                                       *)
(***************************************************************************)
EXTENDS SyncServer, Export, ListingProofs, FiniteSetTheorems

----------------------------------------------------------------------------
(* The blank line *)

\* A blank line ends with byte i.
Blank(s, i) == s[i - 3] = "r" /\ s[i - 2] = "n" /\ s[i - 1] = "r" /\ s[i] = "n"

BlankLines(s) == {i \in 4..Len(s) : Blank(s, i)}

\* end is the first of them, or 0.
FirstBlank(s, end) ==
  /\ BlankLines(s) = {} => end = 0
  /\ BlankLines(s) # {} => end \in BlankLines(s) /\ \A j \in BlankLines(s) : end <= j

\* The four bytes, compared as a list or one by one.
LEMMA FourBytes ==
  ASSUME NEW T, NEW s \in Seq(T), NEW i \in 4..Len(s)
  PROVE  SubSeq(s, i - 3, i) = <<"r", "n", "r", "n">>
           <=> Blank(s, i)
<1> DEFINE q == SubSeq(s, i - 3, i)
<1>1. /\ q \in Seq(T) /\ Len(q) = 4
      /\ q[1] = s[i - 3] /\ q[2] = s[i - 2] /\ q[3] = s[i - 1] /\ q[4] = s[i]
  OBVIOUS
<1> HIDE DEF q
<1>2. q = <<q[1], q[2], q[3], q[4]>>
  BY <1>1
<1> QED
  BY <1>1, <1>2 DEF q, Blank

\* EndOfHead is the first of them.
LEMMA EndIsFirst ==
  ASSUME NEW T, NEW s \in Seq(T)
  PROVE  FirstBlank(s, EndOfHead(s))
<1>1. BlankLines(s) = {i \in 4..Len(s) : SubSeq(s, i - 3, i) = <<"r", "n", "r", "n">>}
  BY FourBytes DEF BlankLines
<1>2. EndOfHead(s) = IF BlankLines(s) = {} THEN 0
                     ELSE CHOOSE i \in BlankLines(s) : \A j \in BlankLines(s) : i <= j
  BY <1>1 DEF EndOfHead
<1>3. CASE BlankLines(s) # {}
  <2>1. BlankLines(s) \in SUBSET Nat
    BY DEF BlankLines
  <2>2. \E i \in BlankLines(s) : \A j \in BlankLines(s) : i <= j
    BY <1>3, <2>1, LeastNumber
  <2> QED
    BY <1>2, <1>3, <2>2 DEF FirstBlank
<1> QED
  BY <1>2, <1>3 DEF FirstBlank

\* EndOfHead is a number.
LEMMA EndIsNumber ==
  ASSUME NEW T, NEW s \in Seq(T)
  PROVE  EndOfHead(s) \in Nat
  BY EndIsFirst DEF FirstBlank, BlankLines

\* There is only one first.
LEMMA FirstIsOne ==
  ASSUME NEW T, NEW s \in Seq(T), NEW m, NEW n, FirstBlank(s, m), FirstBlank(s, n)
  PROVE  m = n
<1>1. BlankLines(s) \subseteq Nat
  BY DEF BlankLines
<1>2. CASE BlankLines(s) # {}
  <2>1. m \in Nat /\ n \in Nat /\ m <= n /\ n <= m
    BY <1>1, <1>2 DEF FirstBlank
  <2> QED
    BY <2>1
<1> QED
  BY <1>2 DEF FirstBlank

(* What observe knows *)

\* The state of the stream after bytes without a blank line.
Watching(seen) == [count |-> Len(seen), tail |-> LastBytes(seen, 3), complete |-> FALSE]

\* t is the end of s, of which d bytes come before it.
IsTail(t, s, d) ==
  /\ d \in Nat /\ Len(s) = d + Len(t)
  /\ \A i \in 1..Len(t) : t[i] = s[d + i]

\* What comes before the last three bytes.
Dropped(s) == IF Len(s) > 3 THEN Len(s) - 3 ELSE 0

\* The last three bytes are an end.
LEMMA TailOf ==
  ASSUME NEW T, NEW s \in Seq(T)
  PROVE  /\ LastBytes(s, 3) \in Seq(T) /\ IsTail(LastBytes(s, 3), s, Dropped(s))
         /\ Dropped(s) # 0 => Len(LastBytes(s, 3)) = 3
<1>1. CASE Len(s) > 3
  <2> DEFINE t == SubSeq(s, Len(s) - 2, Len(s))
  <2>1. LastBytes(s, 3) = t /\ Dropped(s) = Len(s) - 3
    BY <1>1 DEF LastBytes, Dropped
  <2>2. t \in Seq(T) /\ Len(t) = 3 /\ \A i \in 1..3 : t[i] = s[Len(s) - 3 + i]
    BY <1>1
  <2> HIDE DEF t
  <2>3. IsTail(t, s, Len(s) - 3)
    BY <1>1, <2>2 DEF IsTail
  <2> QED
    BY <2>1, <2>2, <2>3
<1>2. CASE ~(Len(s) > 3)
  <2>1. LastBytes(s, 3) = s /\ Dropped(s) = 0
    <3>1. SubSeq(s, 1, Len(s)) = s
      OBVIOUS
    <3> QED
      BY <1>2, <3>1 DEF LastBytes, Dropped
  <2> QED
    BY <2>1 DEF IsTail
<1> QED
  BY <1>1, <1>2

\* The last bytes so far, and what is read next, are the end of it all.
LEMMA TailGoesOn ==
  ASSUME NEW T, NEW s \in Seq(T), NEW t \in Seq(T), NEW d, IsTail(t, s, d),
         NEW more \in Seq(T)
  PROVE  IsTail(t \o more, s \o more, d)
<1>1. /\ d \in Nat /\ Len(s) = d + Len(t) /\ \A i \in 1..Len(t) : t[i] = s[d + i]
  BY DEF IsTail
<1>2. /\ t \o more \in Seq(T) /\ s \o more \in Seq(T)
      /\ Len(t \o more) = Len(t) + Len(more) /\ Len(s \o more) = Len(s) + Len(more)
  OBVIOUS
<1>3. ASSUME NEW i \in 1..Len(t \o more) PROVE (t \o more)[i] = (s \o more)[d + i]
  <2>1. CASE i <= Len(t)
    BY <1>1, <1>2, <2>1
  <2>2. CASE i > Len(t)
    <3>1. (t \o more)[i] = more[i - Len(t)]
      BY <1>1, <1>2, <2>2
    <3>2. d + i > Len(s) /\ d + i <= Len(s \o more) /\ d + i - Len(s) = i - Len(t)
      BY <1>1, <1>2, <2>2
    <3>3. (s \o more)[d + i] = more[d + i - Len(s)]
      BY <1>1, <3>2
    <3> QED
      BY <3>1, <3>2, <3>3
  <2> QED
    BY <1>1, <1>2, <2>1, <2>2
<1> QED
  BY <1>1, <1>2, <1>3 DEF IsTail

\* If anything comes before them, they are three.
LEMMA LastGoesOn ==
  ASSUME NEW T, NEW s \in Seq(T), NEW more \in Seq(T), Dropped(s) # 0
  PROVE  Len(LastBytes(s, 3) \o more) >= 3
<1> DEFINE l == LastBytes(s, 3)
<1>1. l \in Seq(T) /\ Len(l) = 3
  BY TailOf
<1> HIDE DEF l
<1>2. Len(l \o more) = Len(l) + Len(more)
  BY <1>1, ConcatProperties
<1>3. Len(l \o more) >= 3
  BY <1>1, <1>2
<1> QED
  BY <1>3 DEF l

\* An end of at least three bytes, or everything, has the last three.
LEMMA SameLast ==
  ASSUME NEW T, NEW t \in Seq(T), NEW s \in Seq(T), NEW d, IsTail(t, s, d),
         d # 0 => Len(t) >= 3
  PROVE  LastBytes(t, 3) = LastBytes(s, 3)
<1> DEFINE a == LastBytes(t, 3)   b == LastBytes(s, 3)
<1>1. /\ d \in Nat /\ Len(s) = d + Len(t) /\ \A i \in 1..Len(t) : t[i] = s[d + i]
  BY DEF IsTail
<1>2. a \in Seq(T) /\ b \in Seq(T) /\ IsTail(a, t, Dropped(t)) /\ IsTail(b, s, Dropped(s))
  BY TailOf
<1> HIDE DEF a, b
<1>3. Dropped(s) = d + Dropped(t) /\ Dropped(t) \in Nat
  BY <1>1 DEF Dropped
<1>4. /\ Len(t) = Dropped(t) + Len(a) /\ Len(s) = Dropped(s) + Len(b)
      /\ \A i \in 1..Len(a) : a[i] = t[Dropped(t) + i]
      /\ \A i \in 1..Len(b) : b[i] = s[Dropped(s) + i]
  BY <1>2 DEF IsTail
<1>5. Len(a) = Len(b)
  BY <1>1, <1>2, <1>3, <1>4
<1>6. ASSUME NEW i \in 1..Len(a) PROVE a[i] = b[i]
  <2>1. Dropped(t) + i \in 1..Len(t)
    BY <1>2, <1>3, <1>4
  <2>2. t[Dropped(t) + i] = s[d + (Dropped(t) + i)]
    BY <1>1, <2>1
  <2>3. d + (Dropped(t) + i) = Dropped(s) + i
    BY <1>1, <1>3
  <2> QED
    BY <1>4, <1>5, <2>2, <2>3
<1>7. a = b
  BY <1>2, <1>5, <1>6, SeqEqual
<1> QED
  BY <1>7 DEF a, b

\* Four entries of a list that goes on like another.
LEMMA FourAgree ==
  ASSUME NEW t, NEW s, NEW d \in Nat, NEW n \in Nat, \A k \in 1..n : t[k] = s[d + k],
         NEW i \in 4..n
  PROVE  Blank(t, i) <=> Blank(s, d + i)
<1>1. ASSUME NEW m \in 0..3 PROVE t[i - m] = s[d + i - m]
  <2>1. i - m \in 1..n /\ d + i - m = d + (i - m)
    OBVIOUS
  <2>2. t[i - m] = s[d + (i - m)]
    BY <2>1
  <2> QED
    BY <2>1, <2>2
<1>2. i - 0 = i /\ d + i - 0 = d + i
  OBVIOUS
<1>3. /\ t[i - 3] = s[d + i - 3] /\ t[i - 2] = s[d + i - 2]
      /\ t[i - 1] = s[d + i - 1] /\ t[i] = s[d + i]
  BY <1>1, <1>2
<1> QED
  BY <1>3 DEF Blank

\* The first blank line is where the last bytes and the next read have it.
LEMMA FirstInTail ==
  ASSUME NEW T, NEW s \in Seq(T), NEW more \in Seq(T), EndOfHead(s) = 0
  PROVE  LET t == LastBytes(s, 3) \o more IN
           EndOfHead(s \o more) = IF EndOfHead(t) = 0 THEN 0 ELSE Dropped(s) + EndOfHead(t)
<1> DEFINE t == LastBytes(s, 3) \o more   u == s \o more   d == Dropped(s)
<1>1. /\ t \in Seq(T) /\ u \in Seq(T) /\ d \in Nat /\ Len(u) = d + Len(t)
      /\ \A i \in 1..Len(t) : t[i] = u[d + i]
      /\ Len(u) = Len(s) + Len(more) /\ \A i \in 1..Len(s) : u[i] = s[i]
  <2>1. IsTail(t, u, d) /\ t \in Seq(T)
    BY TailOf, TailGoesOn
  <2>2. u \in Seq(T) /\ Len(u) = Len(s) + Len(more) /\ \A i \in 1..Len(s) : u[i] = s[i]
    OBVIOUS
  <2> HIDE DEF t, u, d
  <2> QED
    BY <2>1, <2>2 DEF IsTail
<1>2. BlankLines(s) = {}
  <2>1. FirstBlank(s, 0)
    BY EndIsFirst
  <2> QED
    BY <2>1 DEF FirstBlank, BlankLines
<1>3. d = 0 \/ d = Len(s) - 3
  BY DEF Dropped
<1> HIDE DEF t, u, d
<1>4. ASSUME NEW i \in BlankLines(t) PROVE d + i \in BlankLines(u)
  <2>1. i \in 4..Len(t) /\ Blank(t, i)
    BY DEF BlankLines
  <2>2. d + i \in 4..Len(u)
    BY <1>1, <2>1
  <2>3. Len(t) \in Nat /\ d \in Nat /\ \A k \in 1..Len(t) : t[k] = u[d + k]
    BY <1>1
  <2>4. Blank(u, d + i)
    BY <2>1, <2>3, FourAgree
  <2> QED
    BY <2>2, <2>4 DEF BlankLines
<1>5. ASSUME NEW j \in BlankLines(u) PROVE j - d \in BlankLines(t)
  <2>1. j \in 4..Len(u) /\ Blank(u, j)
    BY DEF BlankLines
  <2>2. j > Len(s)
    <3>1. SUFFICES ASSUME j <= Len(s) PROVE FALSE
      BY <2>1
    <3>2. Len(s) \in Nat /\ \A k \in 1..Len(s) : s[k] = u[0 + k]
      BY <1>1
    <3>3. j \in 4..Len(s) /\ 0 + j = j
      BY <2>1, <3>1
    <3>4. Blank(s, j) <=> Blank(u, 0 + j)
      <4>1. 0 \in Nat /\ j \in 4..Len(s)
        BY <3>3
      <4> QED
        BY ONLY <3>2, <4>1, FourAgree
    <3> QED
      BY <1>2, <2>1, <3>3, <3>4 DEF BlankLines
  <2>3. j - d \in 4..Len(t) /\ d + (j - d) = j
    BY <1>1, <1>3, <2>1, <2>2
  <2>4. Len(t) \in Nat /\ d \in Nat /\ \A k \in 1..Len(t) : t[k] = u[d + k]
    BY <1>1
  <2>5. Blank(t, j - d) <=> Blank(u, d + (j - d))
    BY <2>3, <2>4, FourAgree
  <2> QED
    BY <2>1, <2>3, <2>5 DEF BlankLines
<1>6. FirstBlank(t, EndOfHead(t)) /\ FirstBlank(u, EndOfHead(u))
  BY <1>1, EndIsFirst
<1>7. BlankLines(t) \subseteq Nat \ {0} /\ BlankLines(u) \subseteq Nat \ {0}
  BY <1>1 DEF BlankLines
<1>8. CASE BlankLines(t) = {}
  <2>1. BlankLines(u) = {}
    BY <1>5, <1>8
  <2> QED
    BY <1>6, <1>8, <2>1 DEF FirstBlank, t, u
<1>9. CASE BlankLines(t) # {}
  <2> DEFINE e == EndOfHead(t)
  <2>1. e \in BlankLines(t) /\ \A j \in BlankLines(t) : e <= j
    BY <1>6, <1>9 DEF FirstBlank
  <2>2. e \in Nat /\ e # 0
    BY <1>7, <2>1
  <2> HIDE DEF e
  <2>3. d + e \in BlankLines(u)
    BY <1>4, <2>1
  <2>4. ASSUME NEW j \in BlankLines(u) PROVE d + e <= j
    <3>1. j \in Nat /\ e <= j - d
      BY <1>5, <1>7, <2>1
    <3> QED
      BY <1>1, <2>2, <3>1
  <2>5. FirstBlank(u, d + e)
    BY <2>3, <2>4 DEF FirstBlank
  <2>6. EndOfHead(u) = d + e
    BY <1>1, <1>6, <2>5, FirstIsOne
  <2> QED
    BY <2>2, <2>6 DEF e, t, u, d
<1> QED
  BY <1>8, <1>9

\* The bytes before the end of the head, or all there are.
HeadLength(seen) == IF EndOfHead(seen) = 0 THEN Len(seen) ELSE EndOfHead(seen)

\* What observe makes of more bytes.
ObservesExactly(result, seen) ==
  /\ result[2] <=> HeadLength(seen) > HeaderLimit
  /\ EndOfHead(seen) = 0 => result[1] = Watching(seen)
  /\ EndOfHead(seen) # 0 => result[1].complete

\* The parts of what observe returns.
LEMMA PairParts ==
  ASSUME NEW a, NEW p \in BOOLEAN
  PROVE  <<a, p>>[1] = a /\ <<a, p>>[2] = p
  OBVIOUS

\* observe is exact, whatever was read before.
LEMMA ObserveExact ==
  ASSUME NEW T, NEW s \in Seq(T), NEW more \in Seq(T), EndOfHead(s) = 0
  PROVE  ObservesExactly(Observe(Watching(s), more), s \o more)
<1> DEFINE t == LastBytes(s, 3) \o more   u == s \o more   d == Dropped(s)
           end == EndOfHead(t)   total == Len(s) + Len(more)
           r == Observe(Watching(s), more)
<1>1. /\ LastBytes(s, 3) \in Seq(T) /\ t \in Seq(T) /\ u \in Seq(T) /\ d \in Nat
      /\ Len(u) = total /\ total \in Nat
      /\ Len(s) = d + Len(LastBytes(s, 3)) /\ Len(LastBytes(s, 3)) \in Nat
      /\ IsTail(t, u, d) /\ (d # 0 => Len(t) >= 3)
  <2>1. IsTail(LastBytes(s, 3), s, d) /\ LastBytes(s, 3) \in Seq(T)
        /\ (d # 0 => Len(LastBytes(s, 3)) = 3)
    BY TailOf
  <2>2. IsTail(t, u, d)
    BY <2>1, TailGoesOn
  <2> DEFINE l == LastBytes(s, 3)
  <2>3. t \in Seq(T) /\ u \in Seq(T) /\ Len(u) = total /\ Len(t) = Len(l) + Len(more)
    BY <2>1
  <2>4. d \in Nat /\ Len(s) = d + Len(l)
    BY <2>1 DEF IsTail
  <2>5. d # 0 => Len(t) >= 3
    BY LastGoesOn
  <2> QED
    BY <2>1, <2>2, <2>3, <2>4, <2>5
<1>2. EndOfHead(u) = IF end = 0 THEN 0 ELSE d + end
  BY FirstInTail
<1>3. LastBytes(t, 3) = LastBytes(u, 3)
  BY <1>1, SameLast
<1>4. end \in Nat
  <2>1. FirstBlank(t, end)
    BY <1>1, EndIsFirst
  <2> QED
    BY <2>1 DEF FirstBlank, BlankLines
<1>5. ~Watching(s).complete /\ Watching(s).count = Len(s) /\ Watching(s).tail = LastBytes(s, 3)
  BY DEF Watching
<1>6. CASE end = 0
  <2>1. r = <<[count |-> total, tail |-> LastBytes(t, 3), complete |-> FALSE],
              total > HeaderLimit>>
    BY <1>5, <1>6 DEF Observe
  <2>2. r[1] = [count |-> total, tail |-> LastBytes(t, 3), complete |-> FALSE]
        /\ r[2] = (total > HeaderLimit)
    BY <2>1, PairParts
  <2>3. r[1] = Watching(u)
    BY <1>1, <1>3, <2>2 DEF Watching
  <2>4. EndOfHead(u) = 0
    BY <1>2, <1>6
  <2> HIDE DEF r, u, end
  <2>5. ObservesExactly(r, u)
    BY <1>1, <2>2, <2>3, <2>4 DEF ObservesExactly, HeadLength
  <2> QED
    BY <2>5 DEF r, u
<1>7. CASE end # 0
  <2>1. r = <<[Watching(s) EXCEPT !.count = total, !.complete = TRUE],
              Len(s) - Len(LastBytes(s, 3)) + end > HeaderLimit>>
    BY <1>5, <1>7 DEF Observe
  <2> DEFINE w == [Watching(s) EXCEPT !.count = total, !.complete = TRUE]
  <2>2. r[1] = w /\ r[2] = (Len(s) - Len(LastBytes(s, 3)) + end > HeaderLimit)
    BY <2>1, PairParts
  <2>3. Len(s) - Len(LastBytes(s, 3)) + end = d + end
    BY <1>1, <1>4
  <2>4. w.complete
    BY DEF Watching
  <2>5. EndOfHead(u) = d + end /\ EndOfHead(u) # 0
    BY <1>1, <1>2, <1>4, <1>7
  <2> HIDE DEF r, u, end, w
  <2>6. ObservesExactly(r, u)
    BY <2>2, <2>3, <2>4, <2>5 DEF ObservesExactly, HeadLength
  <2> QED
    BY <2>6 DEF r, u
<1> QED
  BY <1>6, <1>7

----------------------------------------------------------------------------
(* Connections *)

\* What the connections are in their phases: a head that is watched has no
\* blank line yet and is within the limit; where it has one, the guard takes
\* over, and where it is too long, the connection was cut.
HeadState(s) ==
  LET bytes == s.request.bytes
      seen == SubSeq(bytes, 1, s.fed)
  IN  /\ s.request \in Requests /\ s.fed \in 0..Len(bytes)
      /\ DOMAIN s = {"phase", "request", "fed", "observed"}
      /\ s.phase = "head" => /\ EndOfHead(seen) = 0 /\ s.fed <= HeaderLimit
                             /\ s.observed = Watching(seen)
      /\ s.phase = "guard" => EndOfHead(seen) # 0 /\ EndOfHead(seen) <= HeaderLimit
      /\ s.phase = "cut" => HeadLength(seen) > HeaderLimit

HeadPhases == {"head", "guard", "cut"}
Phases == HeadPhases \cup Handling \cup {"closed", "reply"}

\* Every connection is in a phase, with the state of it.
Connections ==
  /\ conn = [c \in Conn |-> conn[c]]
  /\ \A c \in Conn : /\ "phase" \in DOMAIN conn[c] /\ conn[c].phase \in Phases
                     /\ In(c, HeadPhases) => HeadState(conn[c])

\* The connections that have a handler.
Running == {c \in Conn : In(c, Handling)}

\* There are finitely many, and they have the permits that are out.
Permitted ==
  /\ IsFiniteSet(Running) /\ free \in Nat
  /\ free = Permits - Cardinality(Running)

\* The inductive invariant.
ServerInv == Connections /\ Permitted

\* A step of one connection.
LEMMA OneBecomes ==
  ASSUME Connections, NEW c \in Conn, NEW s, Becomes(c, s), "phase" \in DOMAIN s,
         s.phase \in Phases, s.phase \in HeadPhases => HeadState(s)
  PROVE  /\ Connections' /\ conn'[c] = s
         /\ \A d \in Conn \ {c} : conn'[d] = conn[d]
<1>1. conn' = [d \in Conn |-> IF d = c THEN s ELSE conn[d]]
  BY DEF Connections, Becomes
<1>2. conn'[c] = s /\ \A d \in Conn \ {c} : conn'[d] = conn[d]
  BY <1>1
<1>3. conn' = [d \in Conn |-> conn'[d]]
  BY <1>1
<1>4. ASSUME NEW d \in Conn
      PROVE  /\ "phase" \in DOMAIN conn'[d] /\ conn'[d].phase \in Phases
             /\ conn'[d].phase \in HeadPhases => HeadState(conn'[d])
  BY <1>2 DEF Connections, In
<1> QED
  BY <1>2, <1>3, <1>4 DEF Connections, In

\* A connection that had no handler and gets none.
LEMMA StaysOut ==
  ASSUME ServerInv, NEW c \in Conn, NEW s, Becomes(c, s), UNCHANGED free,
         "phase" \in DOMAIN s, s.phase \in Phases, s.phase \in HeadPhases => HeadState(s),
         s.phase \in Handling <=> In(c, Handling)
  PROVE  ServerInv'
<1>1. /\ Connections' /\ conn'[c] = s
      /\ \A d \in Conn \ {c} : conn'[d] = conn[d]
  BY OneBecomes DEF ServerInv
<1>2. Running' = Running
  BY <1>1 DEF Running, In
<1> QED
  BY <1>1, <1>2 DEF ServerInv, Permitted

\* A handler that begins, with a permit.
LEMMA GoesIn ==
  ASSUME ServerInv, NEW c \in Conn, NEW s, Becomes(c, s), free # 0, free' = free - 1,
         "phase" \in DOMAIN s, s.phase \in Handling, ~In(c, Handling)
  PROVE  ServerInv'
<1>1. /\ Connections' /\ conn'[c] = s
      /\ \A d \in Conn \ {c} : conn'[d] = conn[d]
  BY OneBecomes DEF ServerInv, Phases, Handling, HeadPhases
<1>2. Running' = Running \cup {c} /\ c \notin Running
  BY <1>1 DEF Running, In
<1>3. IsFiniteSet(Running') /\ Cardinality(Running') = Cardinality(Running) + 1
      /\ Cardinality(Running) \in Nat
  BY <1>2, FS_AddElement, FS_CardinalityType DEF ServerInv, Permitted
<1> QED
  BY <1>1, <1>3, LimitsAssumption DEF ServerInv, Permitted

\* A handler that ends, which gives its permit back.
LEMMA ComesOut ==
  ASSUME ServerInv, NEW c \in Conn, NEW s, Becomes(c, s), free' = free + 1,
         "phase" \in DOMAIN s, s.phase \in {"closed", "reply"}, In(c, Handling)
  PROVE  ServerInv'
<1>1. /\ Connections' /\ conn'[c] = s
      /\ \A d \in Conn \ {c} : conn'[d] = conn[d]
  BY OneBecomes DEF ServerInv, Phases, HeadPhases
<1>2. Running' = Running \ {c} /\ c \in Running
  BY <1>1 DEF Running, In, Handling
<1>3. IsFiniteSet(Running') /\ Cardinality(Running') = Cardinality(Running) - 1
      /\ Cardinality(Running) \in Nat
  BY <1>2, FS_RemoveElement, FS_CardinalityType DEF ServerInv, Permitted
<1> QED
  BY <1>1, <1>3, LimitsAssumption DEF ServerInv, Permitted

\* A connection that begins: nothing has been read.
LEMMA AcceptKeeps ==
  ASSUME ServerInv, NEW c \in Conn, NEW r \in Requests, Accept(c, r)
  PROVE  ServerInv'
<1> DEFINE s == [phase |-> "head", request |-> r, fed |-> 0, observed |-> Fresh]
<1>1. /\ Becomes(c, s) /\ UNCHANGED free /\ ~In(c, Handling)
      /\ "phase" \in DOMAIN s /\ s.phase = "head"
  BY DEF Accept, In, Handling
<1>2. HeadState(s)
  <2>1. r.bytes \in Seq(Byte) /\ SubSeq(r.bytes, 1, 0) = << >> /\ Len(<< >>) = 0
    BY RequestsAssumption DEF Request
  <2>2. EndOfHead(<< >>) = 0
    BY DEF EndOfHead
  <2>3. LastBytes(<< >>, 3) = << >>
    BY DEF LastBytes
  <2>4. Fresh = Watching(<< >>)
    BY <2>1, <2>3 DEF Fresh, Watching
  <2>5. /\ DOMAIN s = {"phase", "request", "fed", "observed"} /\ s.request = r /\ s.fed = 0 /\ s.phase = "head" /\ s.observed = Fresh
        /\ 0 \in 0..Len(r.bytes) /\ 0 <= HeaderLimit
    BY <2>1, LimitsAssumption
  <2> HIDE DEF s
  <2> QED
    BY <2>1, <2>2, <2>4, <2>5 DEF HeadState
<1> HIDE DEF s
<1> QED
  BY <1>1, <1>2, StaysOut DEF Phases, HeadPhases, Handling

\* What was read before, and what is read now.
SplitAt(s, m, k) ==
  /\ SubSeq(s, 1, m) \in Seq(Byte) /\ SubSeq(s, m + 1, m + k) \in Seq(Byte)
  /\ SubSeq(s, 1, m + k) \in Seq(Byte) /\ Len(SubSeq(s, 1, m + k)) = m + k
  /\ SubSeq(s, 1, m + k) = SubSeq(s, 1, m) \o SubSeq(s, m + 1, m + k)

\* A longer piece of the stream is the shorter one and what was read since.
LEMMA SplitRead ==
  ASSUME NEW s \in Seq(Byte), NEW m \in Nat, NEW k \in Nat, m + k <= Len(s)
  PROVE  SplitAt(s, m, k)
<1> DEFINE a == SubSeq(s, 1, m)  b == SubSeq(s, m + 1, m + k)  c == SubSeq(s, 1, m + k)
<1>1. /\ a \in Seq(Byte) /\ Len(a) = m /\ \A i \in 1..m : a[i] = s[i]
      /\ c \in Seq(Byte) /\ Len(c) = m + k /\ \A i \in 1..(m + k) : c[i] = s[i]
  OBVIOUS
<1>2. b \in Seq(Byte) /\ Len(b) = k /\ \A i \in 1..k : b[i] = s[m + i]
  OBVIOUS
<1> HIDE DEF a, b, c
<1>3. a \o b \in Seq(Byte) /\ Len(a \o b) = m + k
  <2>1. a \in Seq(Byte) /\ b \in Seq(Byte)
    BY <1>1, <1>2
  <2>2. a \o b \in Seq(Byte) /\ Len(a \o b) = Len(a) + Len(b)
    BY <2>1
  <2> QED
    BY <1>1, <1>2, <2>2
<1>4. ASSUME NEW i \in 1..(m + k) PROVE (a \o b)[i] = c[i]
  <2>1. CASE i <= m
    BY <1>1, <1>2, <2>1
  <2>2. CASE ~(i <= m)
    <3>1. i - m \in 1..k /\ m + (i - m) = i /\ (a \o b)[i] = b[i - m]
      BY <1>1, <1>2, <2>2
    <3>2. b[i - m] = s[m + (i - m)]
      BY <1>2, <3>1
    <3> QED
      BY <1>1, <3>1, <3>2
  <2> QED
    BY <2>1, <2>2
<1>5. c = a \o b
  BY <1>1, <1>3, <1>4, SeqEqual
<1> QED
  BY <1>1, <1>2, <1>5 DEF SplitAt, a, b, c

\* A read: observe finds the end of the head, or the limit, where they are.
LEMMA ReadHeadKeeps ==
  ASSUME ServerInv, NEW c \in Conn, NEW k, ReadHead(c, k)
  PROVE  ServerInv'
<1> DEFINE old == conn[c]
           bytes == old.request.bytes
           seen == SubSeq(bytes, 1, old.fed)
           more == SubSeq(bytes, old.fed + 1, old.fed + k)
           then == SubSeq(bytes, 1, old.fed + k)
           result == Observe(old.observed, more)
           phase == IF result[2] THEN "cut" ELSE IF result[1].complete THEN "guard" ELSE "head"
           s == [old EXCEPT !.fed = @ + k, !.observed = result[1], !.phase = phase]
<1>1. /\ In(c, {"head"}) /\ Becomes(c, s) /\ UNCHANGED free
      /\ k \in 1..(Len(bytes) - old.fed)
  BY DEF ReadHead
<1>2. HeadState(old) /\ old.phase = "head"
  BY <1>1 DEF ServerInv, Connections, In, HeadPhases
<1>3. /\ old.request \in Requests /\ old.fed \in 0..Len(bytes) /\ EndOfHead(seen) = 0
      /\ old.observed = Watching(seen)
  BY <1>2 DEF HeadState
<1>4. bytes \in Seq(Byte)
  BY <1>3, RequestsAssumption DEF Request
<1>5. /\ seen \in Seq(Byte) /\ more \in Seq(Byte) /\ then \in Seq(Byte)
      /\ then = seen \o more /\ Len(then) = old.fed + k /\ old.fed + k \in 0..Len(bytes)
  <2> HIDE DEF bytes
  <2>1. old.fed \in Nat /\ k \in Nat /\ Len(bytes) \in Nat /\ old.fed + k <= Len(bytes)
    BY <1>1, <1>3, <1>4
  <2>2. SplitAt(bytes, old.fed, k)
    BY <1>4, <2>1, SplitRead
  <2>3. old.fed + k \in 0..Len(bytes)
    BY <2>1
  <2>4. /\ seen \in Seq(Byte) /\ more \in Seq(Byte) /\ then \in Seq(Byte)
        /\ Len(then) = old.fed + k /\ then = seen \o more
    BY <2>2 DEF SplitAt
  <2> HIDE DEF seen, more, then
  <2> QED
    BY <2>3, <2>4
<1>6. ObservesExactly(result, then)
  <2> HIDE DEF more, seen, then, old
  <2>1. ObservesExactly(Observe(Watching(seen), more), seen \o more)
    BY <1>3, <1>5, ObserveExact
  <2> QED
    BY <1>3, <1>5, <2>1
<1>7. /\ DOMAIN s = {"phase", "request", "fed", "observed"} /\ s.phase = phase /\ s.fed = old.fed + k /\ s.request = old.request
      /\ s.observed = result[1]
  BY <1>2 DEF HeadState
<1> HIDE DEF result, s
<1>8. phase \in HeadPhases
  BY DEF HeadPhases
<1>9. s.request \in Requests /\ s.fed \in 0..Len(s.request.bytes)
      /\ SubSeq(s.request.bytes, 1, s.fed) = then
  BY <1>3, <1>5, <1>7
<1> HIDE DEF then
<1>10. EndOfHead(then) \in Nat /\ Len(then) \in Nat
  <2>1. then \in Seq(Byte)
    BY <1>5
  <2> QED
    BY <2>1, EndIsNumber
<1>14. HeadState(s)
  <2>1. CASE result[2]
    <3>1. phase = "cut" /\ HeadLength(then) > HeaderLimit
      BY <1>6, <2>1 DEF ObservesExactly
    <3> HIDE DEF phase
    <3> QED
      BY <1>7, <1>9, <3>1 DEF HeadState
  <2>2. CASE ~result[2] /\ EndOfHead(then) = 0
    <3>1. result[1] = Watching(then) /\ ~result[1].complete /\ ~(Len(then) > HeaderLimit)
      BY <1>6, <2>2 DEF ObservesExactly, HeadLength, Watching
    <3>2. phase = "head" /\ s.fed <= HeaderLimit
      <4>1. phase = "head"
        BY <2>2, <3>1
      <4>2. s.fed = Len(then) /\ HeaderLimit \in Nat /\ Len(then) \in Nat
        BY <1>5, <1>7, <1>10, LimitsAssumption
      <4> QED
        BY <3>1, <4>1, <4>2
    <3> HIDE DEF phase
    <3> QED
      BY <1>7, <1>9, <2>2, <3>1, <3>2 DEF HeadState
  <2>3. CASE ~result[2] /\ EndOfHead(then) # 0
    <3>1. result[1].complete /\ ~(EndOfHead(then) > HeaderLimit)
      BY <1>6, <2>3 DEF ObservesExactly, HeadLength
    <3>2. phase = "guard"
      BY <2>3, <3>1
    <3>3. EndOfHead(then) <= HeaderLimit
      BY <1>10, <3>1, LimitsAssumption
    <3> HIDE DEF phase
    <3> QED
      BY <1>7, <1>9, <2>3, <3>2, <3>3 DEF HeadState
  <2> QED
    BY <2>1, <2>2, <2>3
<1> QED
  BY <1>1, <1>7, <1>8, <1>14, StaysOut DEF Phases, HeadPhases, Handling, In

\* A connection without a handler that ends, or is answered.
LEMMA EndsOut ==
  ASSUME ServerInv, NEW c \in Conn, NEW s, Becomes(c, s), UNCHANGED free,
         "phase" \in DOMAIN s, s.phase \in {"closed", "reply"}, ~In(c, Handling)
  PROVE  ServerInv'
  BY StaysOut DEF Phases, HeadPhases, Handling

\* The guard hands a permit to the handlers that need one, and finds one left.
LEMMA RouteKeeps ==
  ASSUME ServerInv, NEW c \in Conn, NEW r \in Requests, In(c, {"guard"}), free # 0,
         Route(c, r)
  PROVE  ServerInv'
<1>1. ~In(c, Handling)
  BY DEF In, Handling
<1>2. ASSUME NEW status, Answer(c, status) PROVE ServerInv'
  BY <1>1, <1>2, EndsOut DEF Answer, Reply
<1>3. ASSUME NEW phase \in Handling, EnterHandler(c, phase) PROVE ServerInv'
  <2> DEFINE s == Handler(phase, conn[c].request.body, 0)
  <2>1. Becomes(c, s) /\ free' = free - 1 /\ "phase" \in DOMAIN s /\ s.phase \in Handling
    BY <1>3 DEF EnterHandler, Handler
  <2> HIDE DEF s
  <2> QED
    BY <1>1, <2>1, GoesIn
<1>4. r.route \in {"refs", "export", "none", "method"}
  BY RequestsAssumption DEF Request
<1>5. CASE r.route = "refs"
  BY <1>2, <1>3, <1>5 DEF Route, GetRefs, Handling
<1>6. CASE r.route = "export"
  BY <1>2, <1>3, <1>6 DEF Route, PostExport, Handling
<1>7. CASE r.route = "none"
  BY <1>2, <1>7 DEF Route
<1>8. CASE r.route = "method"
  BY <1>2, <1>8 DEF Route
<1> QED
  BY <1>4, <1>5, <1>6, <1>7, <1>8

\* What the guard refuses takes no permit.
LEMMA GuardKeeps ==
  ASSUME ServerInv, NEW c \in Conn, Guard(c)
  PROVE  ServerInv'
<1> DEFINE r == conn[c].request
           checks == Checks(r)
           failed == {i \in DOMAIN checks : checks[i][2]}
<1>1. In(c, {"guard"}) /\ ~In(c, Handling)
  BY DEF Guard, In, Handling
<1>2. r \in Requests
  BY <1>1 DEF ServerInv, Connections, In, HeadPhases, HeadState
<1>3. CASE failed = {}
  <2>1. 5 \in DOMAIN checks /\ checks[5] = <<503, free = 0>>
    BY DEF Checks
  <2>2. ~checks[5][2]
    BY <1>3, <2>1
  <2>4. checks[5][2] = (free = 0)
    BY <2>1, PairParts
  <2>5. free # 0
    <3> HIDE DEF checks
    <3> QED
      BY <2>2, <2>4
  <2>3. Route(c, r)
    BY <1>3 DEF Guard
  <2> QED
    BY <1>1, <1>2, <2>5, <2>3, RouteKeeps
<1>4. CASE failed # {}
  <2>1. PICK status : Answer(c, status)
    BY <1>4 DEF Guard
  <2> QED
    BY <1>1, <2>1, EndsOut DEF Answer, Reply
<1> QED
  BY <1>3, <1>4

\* A handler that is over gives its permit back.
LEMMA ReturnKeeps ==
  ASSUME ServerInv, NEW c \in Conn, NEW status, In(c, Handling), Return(c, status)
  PROVE  ServerInv'
  BY ComesOut DEF Return, Reply

\* A handler that goes on keeps it.
LEMMA HandlerGoesOn ==
  ASSUME ServerInv, NEW c \in Conn, NEW s, In(c, Handling), Becomes(c, s), UNCHANGED free,
         "phase" \in DOMAIN s, s.phase \in Handling
  PROVE  ServerInv'
  BY StaysOut DEF Phases, HeadPhases, Handling

\* Every step keeps the invariant.
LEMMA ServerKeeps ==
  ASSUME ServerInv, [ServerNext]_serverVars
  PROVE  ServerInv'
<1>1. ASSUME NEW c \in Conn, NEW r \in Requests, Accept(c, r) PROVE ServerInv'
  BY <1>1, AcceptKeeps
<1>2. ASSUME NEW c \in Conn, NEW k, ReadHead(c, k) PROVE ServerInv'
  BY <1>2, ReadHeadKeeps
<1>3. ASSUME NEW c \in Conn, NEW k, ReadBody(c, k) PROVE ServerInv'
  <2>1. In(c, Handling) /\ conn[c].phase = "body"
    BY <1>3 DEF ReadBody, In, Handling
  <2>2. CASE conn[c].got + k > BodyLimit + 1
    BY <1>3, <2>1, <2>2, ReturnKeeps DEF ReadBody
  <2>3. CASE ~(conn[c].got + k > BodyLimit + 1)
    <3> DEFINE s == [conn[c] EXCEPT !.got = @ + k]
    <3>1. Becomes(c, s) /\ UNCHANGED free
      BY <1>3, <2>3 DEF ReadBody
    <3>2. "phase" \in DOMAIN s /\ s.phase = conn[c].phase
      BY DEF ServerInv, Connections
    <3> HIDE DEF s
    <3> QED
      BY <2>1, <3>1, <3>2, HandlerGoesOn DEF Handling
  <2> QED
    BY <2>2, <2>3
<1>4. ASSUME NEW c \in Conn, HeaderTimeout(c) PROVE ServerInv'
  BY <1>4, EndsOut DEF HeaderTimeout, Closed, In, Handling
<1>5. ASSUME NEW c \in Conn, ClientLeaves(c) PROVE ServerInv'
  <2>1. Becomes(c, Closed) /\ "phase" \in DOMAIN Closed /\ Closed.phase = "closed"
    BY <1>5 DEF ClientLeaves, Closed
  <2>2. CASE In(c, Handling)
    BY <1>5, <2>1, <2>2, ComesOut DEF ClientLeaves
  <2>3. CASE ~In(c, Handling)
    BY <1>5, <2>1, <2>3, EndsOut DEF ClientLeaves
  <2> QED
    BY <2>2, <2>3
<1>6. ASSUME NEW c \in Conn, Written(c) PROVE ServerInv'
  BY <1>6, EndsOut DEF Written, Closed, In, Handling
<1>7. ASSUME NEW c \in Conn, Guard(c) PROVE ServerInv'
  BY <1>7, GuardKeeps
<1>8. ASSUME NEW c \in Conn, BodyRead(c) PROVE ServerInv'
  <2>1. In(c, Handling)
    BY <1>8 DEF BodyRead, In, Handling
  <2>2. CASE conn[c].got > BodyLimit
    BY <1>8, <2>1, <2>2, ReturnKeeps DEF BodyRead
  <2>3. CASE ~(conn[c].got > BodyLimit)
    <3> DEFINE s == [conn[c] EXCEPT !.phase = "store"]
    <3>1. Becomes(c, s) /\ UNCHANGED free
      BY <1>8, <2>3 DEF BodyRead
    <3>2. "phase" \in DOMAIN s /\ s.phase \in Handling
      BY DEF ServerInv, Connections, Handling
    <3> HIDE DEF s
    <3> QED
      BY <2>1, <3>1, <3>2, HandlerGoesOn
  <2> QED
    BY <2>2, <2>3
<1>9. ASSUME NEW c \in Conn, BodyTimeout(c) PROVE ServerInv'
  BY <1>9, ReturnKeeps DEF BodyTimeout, In, Handling
<1>10. ASSUME NEW c \in Conn, HandlerTimeout(c) PROVE ServerInv'
  BY <1>10, ReturnKeeps DEF HandlerTimeout
<1>11. ASSUME NEW c \in Conn, NEW status, StoreAnswers(c, status) PROVE ServerInv'
  BY <1>11, ReturnKeeps DEF StoreAnswers, In, Handling
<1>12. CASE UNCHANGED <<conn, free>>
  BY <1>12 DEF ServerInv, Connections, Permitted, Running, In
<1> QED
  BY <1>1, <1>2, <1>3, <1>4, <1>5, <1>6, <1>7, <1>8, <1>9, <1>10, <1>11, <1>12
    DEF ServerNext, Shutdown, serverVars

\* The inductive invariant of the server.
THEOREM ServerSafe == ServerSpec => []ServerInv
<1>1. ServerInit => ServerInv
  <2> SUFFICES ASSUME ServerInit PROVE ServerInv
    OBVIOUS
  <2>1. Connections
    BY DEF ServerInit, Connections, Closed, In, Phases, HeadPhases
  <2>2. Running = {}
    BY DEF ServerInit, Running, Closed, In, Handling
  <2> QED
    BY <2>1, <2>2, FS_EmptySet, LimitsAssumption DEF ServerInit, ServerInv, Permitted
<1> QED
  BY <1>1, ServerKeeps, PTL DEF ServerSpec

\* However a head is split into reads, it is bounded exactly.
THEOREM HeadsExact == ServerSpec => []HeadExact
<1>1. ASSUME ServerInv, NEW c \in Conn, In(c, HeadPhases)
      PROVE  LET seen == SubSeq(conn[c].request.bytes, 1, conn[c].fed)
                 end == EndOfHead(seen)
                 over == (IF end = 0 THEN Len(seen) ELSE end) > HeaderLimit
             IN  conn[c].phase = IF over THEN "cut" ELSE IF end = 0 THEN "head" ELSE "guard"
  <2> DEFINE bytes == conn[c].request.bytes
             seen == SubSeq(bytes, 1, conn[c].fed)
             end == EndOfHead(seen)
  <2>1. HeadState(conn[c]) /\ conn[c].phase \in HeadPhases
    BY <1>1 DEF ServerInv, Connections, In
  <2>2. bytes \in Seq(Byte) /\ conn[c].fed \in 0..Len(bytes)
    BY <2>1, RequestsAssumption DEF HeadState, Request
  <2>3. seen \in Seq(Byte) /\ Len(seen) = conn[c].fed
    BY <2>2
  <2>4. end \in Nat /\ HeaderLimit \in Nat
    BY <2>3, EndIsNumber, LimitsAssumption
  <2>5. /\ conn[c].phase = "head" => end = 0 /\ Len(seen) <= HeaderLimit
        /\ conn[c].phase = "guard" => end # 0 /\ end <= HeaderLimit
        /\ conn[c].phase = "cut" => HeadLength(seen) > HeaderLimit
    BY <2>1, <2>3 DEF HeadState
  <2>6. HeadLength(seen) = (IF end = 0 THEN Len(seen) ELSE end)
    BY DEF HeadLength
  <2> HIDE DEF seen, end
  <2>7. conn[c].phase = IF HeadLength(seen) > HeaderLimit THEN "cut"
                        ELSE IF end = 0 THEN "head" ELSE "guard"
    BY <2>1, <2>3, <2>4, <2>5, <2>6 DEF HeadPhases
  <2> QED
    BY <2>6, <2>7 DEF seen, end
<1>2. ServerInv => HeadExact
  BY <1>1 DEF HeadExact, HeadPhases
<1> QED
  BY ServerSafe, <1>2, PTL

\* Permits are neither lost nor given back twice.
THEOREM PermitsKept == ServerSpec => []PermitsConserved
<1>1. ServerInv => PermitsConserved
  BY DEF ServerInv, Permitted, PermitsConserved, Running
<1> QED
  BY ServerSafe, <1>1, PTL

----------------------------------------------------------------------------
(* Bytes *)

\* One step of WireBytes, the function it defines, and that there is one.
WireStep(S, f, n) ==
  IF n = 0 THEN 0 ELSE f[n - 1] + (IF IdOrder[n] \in S THEN Size[IdOrder[n]] ELSE 0)

Adds(S, f, n) == f = [i \in 0..n |-> WireStep(S, f, i)]

\* The byte order lists every event once, and each has a size.
LEMMA OrderType ==
  /\ Len(IdOrder) \in Nat /\ DOMAIN IdOrder = 1..Len(IdOrder)
  /\ \A i \in 1..Len(IdOrder) : IdOrder[i] \in EventId /\ Size[IdOrder[i]] \in Nat
  /\ \A e \in EventId : \E i \in 1..Len(IdOrder) : IdOrder[i] = e
  /\ \A i, j \in 1..Len(IdOrder) : IdOrder[i] = IdOrder[j] => i = j
<1>1. IdOrder \in Seq(EventId) /\ ListedIn(IdOrder) = EventId
  BY ExportAssumption
<1>2. Len(IdOrder) \in Nat /\ DOMAIN IdOrder = 1..Len(IdOrder)
  BY <1>1
<1>3. \A i \in 1..Len(IdOrder) : IdOrder[i] \in EventId
  BY <1>1
<1> QED
  BY <1>1, <1>2, <1>3, ExportAssumption DEF ListedIn

\* There is a function that adds up the sizes along the byte order.
LEMMA AddsExists ==
  ASSUME NEW S, NEW n \in Nat
  PROVE  \E f : Adds(S, f, n)
<1> DEFINE D == {m \in Nat : \E f : Adds(S, f, m)}
<1>1. 0 \in D
  <2>1. Adds(S, [i \in 0..0 |-> 0], 0)
    BY DEF Adds, WireStep
  <2> QED
    BY <2>1
<1>2. ASSUME NEW m \in D PROVE m + 1 \in D
  <2>1. PICK f : Adds(S, f, m)
    OBVIOUS
  <2> DEFINE g == [i \in 0..(m + 1) |-> IF i = m + 1 THEN WireStep(S, f, i) ELSE f[i]]
  <2>2. ASSUME NEW i \in 0..(m + 1) PROVE g[i] = WireStep(S, g, i)
    <3>1. CASE i = m + 1
      <4>1. g[i - 1] = f[i - 1] /\ g[i] = WireStep(S, f, i)
        BY <3>1
      <4> QED
        BY <4>1 DEF WireStep
    <3>2. CASE i # m + 1
      <4>1. i \in 0..m /\ g[i] = f[i] /\ (i # 0 => g[i - 1] = f[i - 1])
        BY <3>2
      <4>2. f[i] = WireStep(S, f, i)
        BY <2>1, <4>1 DEF Adds
      <4> QED
        BY <4>1, <4>2 DEF WireStep
    <3> QED
      BY <3>1, <3>2
  <2>3. g = [i \in 0..(m + 1) |-> WireStep(S, g, i)]
    <3>1. g = [i \in 0..(m + 1) |-> g[i]]
      OBVIOUS
    <3> HIDE DEF g
    <3> QED
      BY <2>2, <3>1
  <2>4. Adds(S, g, m + 1) /\ m + 1 \in Nat
    BY <2>3 DEF Adds
  <2> HIDE DEF g
  <2> QED
    BY <2>4
<1> HIDE DEF D
<1>3. D = Nat
  <2>1. D \in SUBSET Nat
    BY DEF D
  <2> QED
    BY <1>1, <1>2, <2>1, SetInduction
<1> QED
  BY <1>3 DEF D

\* The bytes of some events are its last value.
LEMMA WireAdds ==
  ASSUME NEW S
  PROVE  \E f : Adds(S, f, Len(IdOrder)) /\ WireBytes(S) = f[Len(IdOrder)]
<1> DEFINE f == CHOOSE upTo : upTo = [n \in 0..Len(IdOrder) |->
                   IF n = 0 THEN 0
                   ELSE upTo[n - 1] + (IF IdOrder[n] \in S THEN Size[IdOrder[n]] ELSE 0)]
<1>1. \E g : g = [n \in 0..Len(IdOrder) |->
                   IF n = 0 THEN 0
                   ELSE g[n - 1] + (IF IdOrder[n] \in S THEN Size[IdOrder[n]] ELSE 0)]
  <2>1. PICK g : Adds(S, g, Len(IdOrder))
    BY AddsExists, OrderType
  <2> QED
    BY <2>1 DEF Adds, WireStep
<1>2. f = [n \in 0..Len(IdOrder) |->
                   IF n = 0 THEN 0
                   ELSE f[n - 1] + (IF IdOrder[n] \in S THEN Size[IdOrder[n]] ELSE 0)]
  BY <1>1
<1>3. WireBytes(S) = f[Len(IdOrder)]
  BY DEF WireBytes
<1> HIDE DEF f
<1> QED
  BY <1>2, <1>3 DEF Adds, WireStep

\* f and g add up S and T, and g is never behind.
LEMMA AddsCompare ==
  ASSUME NEW S, NEW T, S \subseteq T, NEW f, NEW g, NEW n \in Nat, n <= Len(IdOrder),
         Adds(S, f, Len(IdOrder)), Adds(T, g, Len(IdOrder))
  PROVE  f[n] \in Nat /\ g[n] \in Nat /\ f[n] <= g[n]
<1> DEFINE D == {m \in Nat : m <= Len(IdOrder) => f[m] \in Nat /\ g[m] \in Nat /\ f[m] <= g[m]}
<1>0. \A m \in 0..Len(IdOrder) : f[m] = WireStep(S, f, m) /\ g[m] = WireStep(T, g, m)
  BY DEF Adds
<1>1. 0 \in D
  BY <1>0, OrderType DEF WireStep
<1>2. ASSUME NEW m \in D PROVE m + 1 \in D
  <2> SUFFICES ASSUME m + 1 <= Len(IdOrder)
               PROVE  f[m + 1] \in Nat /\ g[m + 1] \in Nat /\ f[m + 1] <= g[m + 1]
    OBVIOUS
  <2>1. m + 1 \in 1..Len(IdOrder) /\ m + 1 # 0 /\ (m + 1) - 1 = m
    BY OrderType
  <2>2. f[m] \in Nat /\ g[m] \in Nat /\ f[m] <= g[m]
    BY <2>1, OrderType
  <2>3. /\ f[m + 1] = f[m] + (IF IdOrder[m + 1] \in S THEN Size[IdOrder[m + 1]] ELSE 0)
        /\ g[m + 1] = g[m] + (IF IdOrder[m + 1] \in T THEN Size[IdOrder[m + 1]] ELSE 0)
    BY <1>0, <2>1 DEF WireStep
  <2>4. Size[IdOrder[m + 1]] \in Nat
    BY <2>1, OrderType
  <2>5. CASE IdOrder[m + 1] \in S
    BY <2>2, <2>3, <2>4, <2>5
  <2>6. CASE IdOrder[m + 1] \notin S
    BY <2>2, <2>3, <2>4, <2>6
  <2> QED
    BY <2>5, <2>6
<1> HIDE DEF D
<1>3. D = Nat
  <2>1. D \in SUBSET Nat
    BY DEF D
  <2> QED
    BY <1>1, <1>2, <2>1, SetInduction
<1> QED
  BY <1>3 DEF D

\* Bytes are a number, and grow with the events.
LEMMA BytesGrow ==
  ASSUME NEW S, NEW T, S \subseteq T
  PROVE  WireBytes(S) \in Nat /\ WireBytes(T) \in Nat /\ WireBytes(S) <= WireBytes(T)
<1>1. PICK f : Adds(S, f, Len(IdOrder)) /\ WireBytes(S) = f[Len(IdOrder)]
  BY WireAdds
<1>2. PICK g : Adds(T, g, Len(IdOrder)) /\ WireBytes(T) = g[Len(IdOrder)]
  BY WireAdds
<1>3. Len(IdOrder) \in Nat /\ Len(IdOrder) <= Len(IdOrder)
  BY OrderType
<1>4. f[Len(IdOrder)] \in Nat /\ g[Len(IdOrder)] \in Nat /\ f[Len(IdOrder)] <= g[Len(IdOrder)]
  BY <1>1, <1>2, <1>3, AddsCompare
<1> QED
  BY <1>1, <1>2, <1>4

\* No events have no bytes.
LEMMA BytesOfNone == WireBytes({}) = 0
<1>1. PICK f : Adds({}, f, Len(IdOrder)) /\ WireBytes({}) = f[Len(IdOrder)]
  BY WireAdds
<1> DEFINE D == {m \in Nat : m <= Len(IdOrder) => f[m] = 0}
<1>2. \A m \in 0..Len(IdOrder) : f[m] = WireStep({}, f, m)
  BY <1>1 DEF Adds
<1>3. 0 \in D
  BY <1>2, OrderType DEF WireStep
<1>4. ASSUME NEW m \in D PROVE m + 1 \in D
  <2> SUFFICES ASSUME m + 1 <= Len(IdOrder) PROVE f[m + 1] = 0
    OBVIOUS
  <2>1. m + 1 \in 0..Len(IdOrder) /\ m + 1 # 0 /\ (m + 1) - 1 = m /\ m <= Len(IdOrder)
    BY OrderType
  <2>2. f[m + 1] = f[m] + 0
    BY <1>2, <2>1 DEF WireStep
  <2> QED
    BY <2>1, <2>2
<1> HIDE DEF D
<1>5. D = Nat
  <2>1. D \in SUBSET Nat
    BY DEF D
  <2> QED
    BY <1>3, <1>4, <2>1, SetInduction
<1>6. f[Len(IdOrder)] = 0
  BY <1>5, OrderType DEF D
<1> QED
  BY <1>1, <1>6

\* Another event adds its own.
LEMMA BytesAdd ==
  ASSUME NEW S, NEW e \in EventId, e \notin S
  PROVE  WireBytes(S \cup {e}) = WireBytes(S) + Size[e]
<1>1. PICK f : Adds(S, f, Len(IdOrder)) /\ WireBytes(S) = f[Len(IdOrder)]
  BY WireAdds
<1>2. PICK g : Adds(S \cup {e}, g, Len(IdOrder)) /\ WireBytes(S \cup {e}) = g[Len(IdOrder)]
  BY WireAdds
<1>3. PICK k \in 1..Len(IdOrder) : IdOrder[k] = e
  BY OrderType
<1>4. \A m \in 0..Len(IdOrder) : f[m] = WireStep(S, f, m) /\ g[m] = WireStep(S \cup {e}, g, m)
  BY <1>1, <1>2 DEF Adds
<1> DEFINE D == {m \in Nat : m <= Len(IdOrder) =>
                   f[m] \in Nat /\ g[m] = f[m] + (IF k <= m THEN Size[e] ELSE 0)}
<1>5. 0 \in D
  BY <1>4, OrderType DEF WireStep
<1>6. ASSUME NEW m \in D PROVE m + 1 \in D
  <2> SUFFICES ASSUME m + 1 <= Len(IdOrder)
               PROVE  /\ f[m + 1] \in Nat
                      /\ g[m + 1] = f[m + 1] + (IF k <= m + 1 THEN Size[e] ELSE 0)
    OBVIOUS
  <2> DEFINE x == IdOrder[m + 1]
  <2>1. m + 1 \in 1..Len(IdOrder) /\ m + 1 # 0 /\ (m + 1) - 1 = m /\ m <= Len(IdOrder)
    BY OrderType
  <2>2. /\ f[m + 1] = f[m] + (IF x \in S THEN Size[x] ELSE 0)
        /\ g[m + 1] = g[m] + (IF x \in S \cup {e} THEN Size[x] ELSE 0)
    BY <1>4, <2>1 DEF WireStep
  <2>3. /\ f[m] \in Nat /\ g[m] = f[m] + (IF k <= m THEN Size[e] ELSE 0)
        /\ Size[x] \in Nat /\ Size[e] \in Nat
    BY <2>1, OrderType, <1>3
  <2>4. x = e <=> k = m + 1
    BY <1>3, <2>1, OrderType
  <2> HIDE DEF x
  <2>5. CASE x = e
    BY <2>2, <2>3, <2>4, <2>5
  <2>6. CASE x # e
    <3>1. k <= m <=> k <= m + 1
      BY <2>4, <2>6
    <3> QED
      BY <2>2, <2>3, <2>6, <3>1
  <2> QED
    BY <2>5, <2>6
<1> HIDE DEF D
<1>7. D = Nat
  <2>1. D \in SUBSET Nat
    BY DEF D
  <2> QED
    BY <1>5, <1>6, <2>1, SetInduction
<1>8. g[Len(IdOrder)] = f[Len(IdOrder)] + Size[e]
  BY <1>3, <1>7, OrderType DEF D
<1> QED
  BY <1>1, <1>2, <1>8

----------------------------------------------------------------------------
(* Histories, of any stored edges *)

Closes(G, S) == \A e \in S : G[e] \subseteq S

Reach(G, hs) == {e \in EventId : \A S \in SUBSET EventId : hs \subseteq S /\ Closes(G, S) => e \in S}

IsGraph(G) == G \in [EventId -> SUBSET EventId] /\ Acyclic(G)

\* The history of some heads, for the edges that are stored.
LEMMA HistoryIsReach ==
  ASSUME NEW hs
  PROVE  History(hs) = Reach(parents, hs)
  BY DEF History, Reach, Closes, ClosedUnder

\* The history of some heads holds them and is closed under parents, and is
\* the least set like that.
LEMMA ReachProperties ==
  ASSUME NEW G, IsGraph(G), NEW hs \in SUBSET EventId
  PROVE  /\ Reach(G, hs) \in SUBSET EventId /\ hs \subseteq Reach(G, hs)
         /\ Closes(G, Reach(G, hs))
         /\ \A S \in SUBSET EventId : hs \subseteq S /\ Closes(G, S) => Reach(G, hs) \subseteq S
<1>1. \A e \in EventId : G[e] \subseteq EventId
  BY DEF IsGraph
<1>2. ASSUME NEW e \in Reach(G, hs), NEW p \in G[e] PROVE p \in Reach(G, hs)
  <2>1. ASSUME NEW S \in SUBSET EventId, hs \subseteq S, Closes(G, S) PROVE p \in S
    BY <1>2, <2>1 DEF Reach, Closes
  <2>2. p \in EventId
    BY <1>1, <1>2 DEF Reach
  <2> QED
    BY <2>1, <2>2 DEF Reach
<1>3. Closes(G, Reach(G, hs))
  BY <1>2 DEF Closes
<1> QED
  BY <1>3 DEF Reach

\* An event is not in the history of its parents.
LEMMA NoCycle ==
  ASSUME NEW G, IsGraph(G), NEW e \in EventId
  PROVE  e \notin Reach(G, G[e])
<1> DEFINE B == {x \in EventId : x \in Reach(G, G[x])}
<1>0. \A x \in EventId : G[x] \in SUBSET EventId
  BY DEF IsGraph
<1> SUFFICES ASSUME B # {} PROVE FALSE
  OBVIOUS
<1>1. PICK x \in B : G[x] \cap B = {}
  BY DEF IsGraph, Acyclic
<1> DEFINE S == G[x] \cup UNION {Reach(G, G[p]) : p \in G[x]}
<1>2. G[x] \in SUBSET EventId /\ \A p \in G[x] : G[p] \in SUBSET EventId
  BY <1>0
<1>3. ASSUME NEW p \in G[x]
      PROVE  /\ Reach(G, G[p]) \in SUBSET EventId /\ G[p] \subseteq Reach(G, G[p])
             /\ Closes(G, Reach(G, G[p]))
  BY <1>2, ReachProperties
<1>4. S \in SUBSET EventId /\ G[x] \subseteq S
  BY <1>2, <1>3
<1>5. Closes(G, S)
  <2> SUFFICES ASSUME NEW y \in S, NEW q \in G[y] PROVE q \in S
    BY DEF Closes
  <2>1. CASE y \in G[x]
    BY <2>1, <1>3
  <2>2. CASE y \notin G[x]
    <3>1. PICK p \in G[x] : y \in Reach(G, G[p])
      BY <2>2
    <3>2. q \in Reach(G, G[p])
      BY <3>1, <1>3 DEF Closes
    <3> QED
      BY <3>2
  <2> QED
    BY <2>1, <2>2
<1>6. x \in S
  <2>1. Reach(G, G[x]) \subseteq S
    BY <1>2, <1>4, <1>5, ReachProperties
  <2> QED
    BY <2>1
<1>7. PICK p \in G[x] : x \in Reach(G, G[p])
  BY <1>1, <1>6
<1>8. p \in Reach(G, G[p])
  BY <1>7, <1>3 DEF Closes
<1> QED
  BY <1>1, <1>2, <1>8

\* There are finitely many events.
LEMMA EventsFinite == IsFiniteSet(EventId)
<1>1. IdOrder \in Surjection(1..Len(IdOrder), EventId)
  <2>1. IdOrder \in [1..Len(IdOrder) -> EventId]
    BY ExportAssumption
  <2> QED
    BY <2>1, OrderType DEF Surjection
<1>2. IsFiniteSet(1..Len(IdOrder))
  BY OrderType, FS_Interval
<1> QED
  BY <1>1, <1>2, FS_Surjection

----------------------------------------------------------------------------
(* Frames *)

Frame == [frame : {"enter", "exit"}, id : EventId]

\* The entering frames of a set of events.
LEMMA EntriesType ==
  ASSUME NEW S \in SUBSET EventId
  PROVE  /\ Entries(S) \in Seq(Frame)
         /\ \A i \in 1..Len(Entries(S)) : Entries(S)[i].frame = "enter" /\ Entries(S)[i].id \in S
         /\ \A e \in S : \E i \in 1..Len(Entries(S)) : Entries(S)[i] = Enter(e)
<1>1. /\ IdOrder \in Seq(EventId) /\ ListedIn(IdOrder) = EventId
  BY ExportAssumption
<1>2. InOrder(S) \in Seq(EventId) /\ ListedIn(InOrder(S)) = S
  <2>1. Kept(IdOrder, S) \in Seq(EventId)
    BY <1>1, KeptProperties
  <2>2. ListedIn(Kept(IdOrder, S)) = ListedIn(IdOrder) \cap S
    BY <1>1, KeptLists
  <2> QED
    BY <1>1, <2>1, <2>2 DEF InOrder
<1> DEFINE k == InOrder(S)
<1> HIDE DEF k
<1>3. k \in Seq(EventId) /\ ListedIn(k) = S
  BY <1>2 DEF k
<1>4. Len(k) \in Nat /\ DOMAIN k = 1..Len(k) /\ \A i \in 1..Len(k) : k[i] \in S
  BY <1>3 DEF ListedIn
<1>5. Entries(S) = [i \in 1..Len(k) |-> Enter(k[i])]
  BY <1>4 DEF Entries, k
<1>6. \A i \in 1..Len(k) : Enter(k[i]) \in Frame
  BY <1>4 DEF Enter, Frame
<1>7. Entries(S) \in Seq(Frame) /\ Len(Entries(S)) = Len(k)
  BY <1>4, <1>5, <1>6
<1>8. \A e \in S : \E i \in 1..Len(k) : k[i] = e
  BY <1>3, <1>4 DEF ListedIn
<1> QED
  BY <1>4, <1>5, <1>7, <1>8 DEF Enter

\* A stack whose top was replaced by n entering frames, for some events, and a
\* closing frame.
Grown(new, n, s, S, e) ==
  /\ new \in Seq(Frame) /\ n \in Nat /\ Len(new) = n + Len(s)
  /\ \A i \in 1..n : new[i].frame = "enter" /\ new[i].id \in S
  /\ \A p \in S : \E i \in 1..n : new[i] = Enter(p)
  /\ new[n + 1] = Exit(e)
  /\ \A i \in 2..Len(s) : new[n + i] = s[i]

\* The stack grows like that when an event is visited.
LEMMA StackGrows ==
  ASSUME NEW s \in Seq(Frame), s # << >>, NEW S \in SUBSET EventId, NEW e \in EventId
  PROVE  Grown(Entries(S) \o <<Exit(e)>> \o Tail(s), Len(Entries(S)), s, S, e)
<1> DEFINE a == Entries(S)   b == <<Exit(e)>>   c == Tail(s)
<1>1. /\ a \in Seq(Frame)
      /\ \A i \in 1..Len(a) : a[i].frame = "enter" /\ a[i].id \in S
      /\ \A p \in S : \E i \in 1..Len(a) : a[i] = Enter(p)
  BY EntriesType
<1>2. Exit(e) \in Frame
  BY DEF Exit, Frame
<1>3. b \in Seq(Frame) /\ Len(b) = 1 /\ b[1] = Exit(e)
  BY <1>2
<1>4. c \in Seq(Frame) /\ Len(c) = Len(s) - 1 /\ Len(s) \in Nat /\ \A i \in 1..Len(c) : c[i] = s[i + 1]
  OBVIOUS
<1> HIDE DEF a, b, c
<1>5. /\ a \o b \in Seq(Frame) /\ Len(a \o b) = Len(a) + 1 /\ Len(a) \in Nat
      /\ \A i \in 1..Len(a) : (a \o b)[i] = a[i]
      /\ (a \o b)[Len(a) + 1] = b[1]
  <2>1. /\ a \o b \in Seq(Frame) /\ Len(a \o b) = Len(a) + Len(b)
        /\ \A i \in 1..Len(a) + Len(b) : (a \o b)[i] = IF i <= Len(a) THEN a[i] ELSE b[i - Len(a)]
    BY <1>1, <1>3, ConcatProperties
  <2>2. Len(a) \in Nat
    BY <1>1
  <2> QED
    BY <1>3, <2>1, <2>2
<1> DEFINE d == a \o b
<1> HIDE DEF d
<1>6. /\ d \o c \in Seq(Frame) /\ Len(d \o c) = Len(d) + Len(c)
      /\ \A i \in 1..Len(d) : (d \o c)[i] = d[i]
      /\ \A i \in 1..Len(c) : (d \o c)[Len(d) + i] = c[i]
  <2>0. d \in Seq(Frame)
    BY <1>5 DEF d
  <2>1. /\ d \o c \in Seq(Frame) /\ Len(d \o c) = Len(d) + Len(c)
        /\ \A i \in 1..Len(d) + Len(c) : (d \o c)[i] = IF i <= Len(d) THEN d[i] ELSE c[i - Len(d)]
    BY <2>0, <1>4, ConcatProperties
  <2>2. Len(d) \in Nat /\ Len(c) \in Nat
    BY <2>0, <1>4
  <2> QED
    BY <2>1, <2>2
<1>7. ASSUME NEW i \in 2..Len(s) PROVE (d \o c)[Len(a) + i] = s[i]
  <2>1. i - 1 \in 1..Len(c) /\ Len(d) + (i - 1) = Len(a) + i /\ (i - 1) + 1 = i
    BY <1>4, <1>5 DEF d
  <2> QED
    BY <2>1, <1>4, <1>6
<1>8. Len(d \o c) = Len(a) + Len(s) /\ \A i \in 1..(Len(a) + 1) : i \in 1..Len(d)
  BY <1>4, <1>5, <1>6 DEF d
<1>9. \A i \in 1..Len(a) : (d \o c)[i] = a[i]
  BY <1>5, <1>6, <1>8 DEF d
<1>10. (d \o c)[Len(a) + 1] = Exit(e)
  BY <1>3, <1>5, <1>6, <1>8 DEF d
<1>11. /\ d \o c \in Seq(Frame) /\ Len(a) \in Nat /\ Len(d \o c) = Len(a) + Len(s)
       /\ \A i \in 1..Len(a) : (d \o c)[i].frame = "enter" /\ (d \o c)[i].id \in S
       /\ \A p \in S : \E i \in 1..Len(a) : (d \o c)[i] = Enter(p)
  BY <1>1, <1>5, <1>6, <1>8, <1>9
<1> QED
  BY <1>7, <1>10, <1>11 DEF a, b, c, d, Grown

----------------------------------------------------------------------------
(* What the stack stands for: s is a stack, V the events being visited, L   *)
(* those listed.                                                            *)

\* Each event being visited has one closing frame.
Open(s, V) ==
  /\ \A i \in 1..Len(s) : s[i].frame = "exit" => s[i].id \in V
  /\ \A e \in V : \E i \in 1..Len(s) : s[i] = Exit(e)
  /\ \A i, j \in 1..Len(s) :
       s[i].frame = "exit" /\ s[j].frame = "exit" /\ s[i].id = s[j].id => i = j

\* Its parents are listed or above that frame, and what is above it belongs
\* to its history.
Pending(s, L, G) ==
  \A i \in 1..Len(s) : s[i].frame = "exit" =>
    /\ \A p \in G[s[i].id] : p \in L \/ \E j \in 1..(i - 1) : s[j].id = p
    /\ \A j \in 1..(i - 1) : s[j].id \in Reach(G, G[s[i].id])

\* Nothing outside the history of the heads is met, and no head is forgotten.
Inside(s, L, hs, G) ==
  /\ L \subseteq Reach(G, hs) /\ \A i \in 1..Len(s) : s[i].id \in Reach(G, hs)
  /\ \A h \in hs : h \in L \/ \E i \in 1..Len(s) : s[i].id = h

Stacked(s, V, L, hs, G) == Open(s, V) /\ Pending(s, L, G) /\ Inside(s, L, hs, G)

\* The frames below the top.
LEMMA BelowTop ==
  ASSUME NEW s \in Seq(Frame), s # << >>
  PROVE  /\ Tail(s) \in Seq(Frame) /\ Len(s) \in Nat /\ Len(s) >= 1 /\ Len(Tail(s)) = Len(s) - 1
         /\ Head(s) = s[1] /\ s[1] \in Frame
         /\ \A i \in 1..Len(Tail(s)) : i + 1 \in 2..Len(s) /\ Tail(s)[i] = s[i + 1]
         /\ \A i \in 2..Len(s) : i - 1 \in 1..Len(Tail(s)) /\ Tail(s)[i - 1] = s[i]
<1>1. /\ Tail(s) \in Seq(Frame) /\ Len(Tail(s)) = Len(s) - 1
      /\ \A i \in 1..Len(Tail(s)) : Tail(s)[i] = s[i + 1]
  BY HeadTailProperties
<1>2. Len(s) \in Nat /\ Len(s) >= 1 /\ Head(s) = s[1] /\ s[1] \in Frame
  OBVIOUS
<1>3. ASSUME NEW i \in 2..Len(s) PROVE i - 1 \in 1..Len(Tail(s)) /\ (i - 1) + 1 = i
  BY <1>1, <1>2
<1> QED
  BY <1>1, <1>2, <1>3

\* The top frame is dropped once its event is listed.
LEMMA TopDropped ==
  ASSUME NEW G, NEW hs, NEW L, NEW s \in Seq(Frame), s # << >>,
         Pending(s, L, G), Inside(s, L, hs, G)
  PROVE  LET M == L \cup {s[1].id}
         IN  Pending(Tail(s), M, G) /\ Inside(Tail(s), M, hs, G)
<1> DEFINE c == Tail(s)   M == L \cup {s[1].id}
<1>1. /\ Len(s) \in Nat /\ Len(s) >= 1 /\ Len(c) = Len(s) - 1 /\ 1 \in 1..Len(s)
      /\ \A i \in 1..Len(c) : i + 1 \in 2..Len(s) /\ c[i] = s[i + 1]
      /\ \A i \in 2..Len(s) : i - 1 \in 1..Len(c) /\ c[i - 1] = s[i]
  BY BelowTop
<1> HIDE DEF c
<1>2. Pending(c, M, G)
  <2> SUFFICES ASSUME NEW i \in 1..Len(c), c[i].frame = "exit"
               PROVE  /\ \A p \in G[c[i].id] : p \in M \/ \E j \in 1..(i - 1) : c[j].id = p
                      /\ \A j \in 1..(i - 1) : c[j].id \in Reach(G, G[c[i].id])
    BY DEF Pending
  <2>1. /\ \A p \in G[c[i].id] : p \in L \/ \E j \in 1..i : s[j].id = p
        /\ \A j \in 1..i : s[j].id \in Reach(G, G[c[i].id])
    <3>1. i + 1 \in 1..Len(s) /\ s[i + 1] = c[i] /\ (i + 1) - 1 = i
      BY <1>1
    <3> QED
      BY <3>1 DEF Pending
  <2>2. ASSUME NEW j \in 1..i PROVE s[j].id \in M \/ \E k \in 1..(i - 1) : c[k] = s[j]
    <3>1. CASE j = 1
      BY <3>1
    <3>2. CASE j # 1
      <4>1. j \in 2..Len(s) /\ j - 1 \in 1..(i - 1)
        BY <1>1, <3>2
      <4> QED
        BY <1>1, <4>1
    <3> QED
      BY <3>1, <3>2
  <2>3. ASSUME NEW j \in 1..(i - 1) PROVE c[j].id \in Reach(G, G[c[i].id])
    <3>1. j + 1 \in 1..i /\ j \in 1..Len(c)
      BY <1>1
    <3> QED
      BY <1>1, <2>1, <3>1
  <2> QED
    BY <2>1, <2>2, <2>3
<1>3. Inside(c, M, hs, G)
  <2>1. ASSUME NEW h \in hs, h \notin M PROVE \E i \in 1..Len(c) : c[i].id = h
    <3>1. PICK i \in 1..Len(s) : s[i].id = h
      BY <2>1 DEF Inside
    <3>2. i \in 2..Len(s)
      BY <1>1, <2>1, <3>1
    <3> QED
      BY <1>1, <3>1, <3>2
  <2>2. (\A i \in 1..Len(c) : c[i].id \in Reach(G, hs)) /\ M \subseteq Reach(G, hs)
    BY <1>1 DEF Inside
  <2> QED
    BY <2>1, <2>2 DEF Inside
<1> QED
  BY <1>2, <1>3 DEF c

\* The closing frames below the top.
LEMMA StaysOpen ==
  ASSUME NEW V, NEW s \in Seq(Frame), s # << >>, Open(s, V)
  PROVE  Open(Tail(s), IF s[1].frame = "exit" THEN V \ {s[1].id} ELSE V)
<1> DEFINE c == Tail(s)   W == IF s[1].frame = "exit" THEN V \ {s[1].id} ELSE V
<1>1. /\ Len(s) \in Nat /\ Len(s) >= 1 /\ Len(c) = Len(s) - 1 /\ 1 \in 1..Len(s)
      /\ \A i \in 1..Len(c) : i + 1 \in 2..Len(s) /\ c[i] = s[i + 1]
      /\ \A i \in 2..Len(s) : i - 1 \in 1..Len(c) /\ c[i - 1] = s[i]
  BY BelowTop
<1> HIDE DEF c
<1>2. ASSUME NEW x \in W PROVE \E i \in 1..Len(c) : c[i] = Exit(x)
  <2>1. PICK i \in 1..Len(s) : s[i] = Exit(x)
    BY DEF Open
  <2>2. i # 1
    BY <2>1 DEF Exit
  <2>3. i \in 2..Len(s)
    BY <1>1, <2>1, <2>2
  <2> QED
    BY <1>1, <2>1, <2>3
<1>3. ASSUME NEW i \in 1..Len(c), NEW j \in 1..Len(c),
             c[i].frame = "exit", c[j].frame = "exit", c[i].id = c[j].id
      PROVE  i = j
  <2>1. i + 1 = j + 1
    BY <1>1, <1>3 DEF Open
  <2> QED
    BY <2>1
<1>4. ASSUME NEW i \in 1..Len(c), c[i].frame = "exit" PROVE c[i].id \in W
  <2>1. i + 1 \in 1..Len(s) /\ c[i] = s[i + 1] /\ i + 1 # 1
    BY <1>1
  <2>2. c[i].id \in V /\ (s[1].frame = "exit" => c[i].id # s[1].id)
    BY <1>1, <1>4, <2>1 DEF Open
  <2> QED
    BY <2>2
<1> HIDE DEF W
<1>5. Open(c, W)
  BY <1>2, <1>3, <1>4 DEF Open
<1> QED
  BY <1>5 DEF c, W

\* A frame of a listed event is dropped.
LEMMA TopSkipped ==
  ASSUME NEW G, NEW hs, NEW V, NEW L, NEW s \in Seq(Frame), s # << >>,
         s[1].frame = "enter", s[1].id \in L, Stacked(s, V, L, hs, G)
  PROVE  Stacked(Tail(s), V, L, hs, G)
<1>1. L \cup {s[1].id} = L
  OBVIOUS
<1>2. Pending(Tail(s), L, G) /\ Inside(Tail(s), L, hs, G)
  BY <1>1, TopDropped DEF Stacked
<1>3. Open(Tail(s), V)
  BY StaysOpen DEF Stacked
<1> QED
  BY <1>2, <1>3 DEF Stacked

\* A closing frame is dropped: the parents of its event are all listed.
LEMMA TopLeft ==
  ASSUME NEW G, NEW hs, NEW V, NEW L, NEW s \in Seq(Frame), s # << >>,
         s[1].frame = "exit", Stacked(s, V, L, hs, G)
  PROVE  /\ Stacked(Tail(s), V \ {s[1].id}, L \cup {s[1].id}, hs, G)
         /\ s[1].id \in V /\ G[s[1].id] \subseteq L
<1>1. Pending(Tail(s), L \cup {s[1].id}, G) /\ Inside(Tail(s), L \cup {s[1].id}, hs, G)
  BY TopDropped DEF Stacked
<1>2. Open(Tail(s), V \ {s[1].id})
  BY StaysOpen DEF Stacked
<1>3. 1 \in 1..Len(s)
  BY BelowTop
<1>4. \A p \in G[s[1].id] : p \in L \/ \E j \in 1..(1 - 1) : s[j].id = p
  BY <1>3 DEF Stacked, Pending
<1> QED
  BY <1>1, <1>2, <1>3, <1>4 DEF Stacked, Open

\* An event on top that was not met yet is not being visited: it would be in
\* its own history.
LEMMA TopIsNew ==
  ASSUME NEW G, IsGraph(G), NEW hs, NEW V, NEW L, NEW s \in Seq(Frame), s # << >>,
         s[1].frame = "enter", Stacked(s, V, L, hs, G)
  PROVE  s[1].id \notin V
<1> SUFFICES ASSUME s[1].id \in V PROVE FALSE
  OBVIOUS
<1>1. PICK i \in 1..Len(s) : s[i] = Exit(s[1].id)
  BY DEF Stacked, Open
<1>2. s[i].frame = "exit" /\ s[i].id = s[1].id
  BY <1>1 DEF Exit
<1>3. i # 1 /\ Len(s) \in Nat
  BY <1>2
<1>4. 1 \in 1..(i - 1)
  BY <1>3
<1>5. s[1].id \in Reach(G, G[s[1].id])
  BY <1>2, <1>4 DEF Stacked, Pending
<1>6. s[1].id \in EventId
  BY BelowTop DEF Frame
<1> QED
  BY <1>5, <1>6, NoCycle

\* An event is visited: its closing frame takes the place of the entering one,
\* under its parents.
LEMMA TopVisited ==
  ASSUME NEW G, IsGraph(G), NEW hs \in SUBSET EventId, NEW V, NEW L,
         NEW s \in Seq(Frame), s # << >>, s[1].frame = "enter", Stacked(s, V, L, hs, G)
  PROVE  LET e == s[1].id
         IN  Stacked(Entries(G[e]) \o <<Exit(e)>> \o Tail(s), V \cup {e}, L, hs, G)
<1> DEFINE e == s[1].id   new == Entries(G[e]) \o <<Exit(e)>> \o Tail(s)
           n == Len(Entries(G[e]))
<1>1. Len(s) \in Nat /\ Len(s) >= 1 /\ 1 \in 1..Len(s) /\ e \in EventId
  <2>1. Len(s) \in Nat /\ Len(s) >= 1 /\ s[1] \in Frame
    BY BelowTop
  <2> QED
    BY <2>1 DEF Frame
<1>2. G[e] \in SUBSET EventId
  BY <1>1 DEF IsGraph
<1>3. /\ n \in Nat /\ Len(new) = n + Len(s)
      /\ \A i \in 1..n : new[i].frame = "enter" /\ new[i].id \in G[e]
      /\ \A p \in G[e] : \E i \in 1..n : new[i] = Enter(p)
      /\ new[n + 1] = Exit(e)
      /\ \A i \in 2..Len(s) : new[n + i] = s[i]
  <2>1. Grown(new, n, s, G[e], e)
    BY <1>1, <1>2, StackGrows
  <2> HIDE DEF new, n, e
  <2> QED
    BY <2>1 DEF Grown
<1>4. e \notin V
  BY TopIsNew
<1> HIDE DEF new, n
<1>5. ASSUME NEW i \in 1..Len(new)
      PROVE  \/ i \in 1..n /\ new[i].frame = "enter" /\ new[i].id \in G[e]
             \/ i = n + 1 /\ new[i].frame = "exit" /\ new[i].id = e
             \/ i - n \in 2..Len(s) /\ new[i] = s[i - n]
  <2>1. CASE i \in 1..n
    BY <1>3, <2>1
  <2>2. CASE i = n + 1
    BY <1>3, <2>2 DEF Exit
  <2>3. CASE i \notin 1..n /\ i # n + 1
    <3>1. i - n \in 2..Len(s) /\ n + (i - n) = i
      BY <1>1, <1>3, <2>3
    <3> QED
      BY <1>3, <3>1
  <2> QED
    BY <2>1, <2>2, <2>3
<1>6. ASSUME NEW i \in 2..Len(s) PROVE n + i \in 1..Len(new) /\ new[n + i] = s[i]
  BY <1>1, <1>3
<1>7. n + 1 \in 1..Len(new) /\ \A i \in 1..n : i \in 1..Len(new) /\ i \in 1..((n + 1) - 1)
  BY <1>1, <1>3
<1>8. Open(new, V \cup {e})
  <2>1. ASSUME NEW x \in V \cup {e} PROVE \E i \in 1..Len(new) : new[i] = Exit(x)
    <3>1. CASE x = e
      BY <1>3, <1>7, <3>1
    <3>2. CASE x # e
      <4>1. PICK i \in 1..Len(s) : s[i] = Exit(x)
        BY <3>2 DEF Stacked, Open
      <4>2. i \in 2..Len(s)
        BY <1>1, <4>1 DEF Exit
      <4> QED
        BY <1>6, <4>1, <4>2
    <3> QED
      BY <3>1, <3>2
  <2>2. ASSUME NEW i \in 1..Len(new), new[i].frame = "exit"
        PROVE  /\ new[i].id \in V \cup {e}
               /\ new[i].id = e => i = n + 1
               /\ new[i].id # e => i - n \in 2..Len(s) /\ new[i] = s[i - n]
    <3>1. CASE i = n + 1
      BY <1>5, <1>3, <3>1 DEF Exit
    <3>2. CASE i # n + 1
      <4>1. i - n \in 2..Len(s) /\ new[i] = s[i - n]
        BY <1>5, <2>2, <3>2
      <4>2. new[i].id \in V
        BY <2>2, <4>1, <1>1 DEF Stacked, Open
      <4> QED
        BY <4>1, <4>2, <1>4
    <3> QED
      BY <3>1, <3>2
  <2>3. ASSUME NEW i \in 1..Len(new), NEW j \in 1..Len(new),
               new[i].frame = "exit", new[j].frame = "exit", new[i].id = new[j].id
        PROVE  i = j
    <3>1. CASE new[i].id = e
      BY <2>2, <2>3, <3>1
    <3>2. CASE new[i].id # e
      <4>1. /\ i - n \in 2..Len(s) /\ new[i] = s[i - n]
            /\ j - n \in 2..Len(s) /\ new[j] = s[j - n]
        BY <2>2, <2>3, <3>2
      <4>2. i - n = j - n
        BY <1>1, <2>3, <4>1 DEF Stacked, Open
      <4> QED
        BY <1>3, <4>2
    <3> QED
      BY <3>1, <3>2
  <2> QED
    BY <2>1, <2>2, <2>3 DEF Open
<1>9. Pending(new, L, G)
  <2> SUFFICES ASSUME NEW i \in 1..Len(new), new[i].frame = "exit"
               PROVE  /\ \A p \in G[new[i].id] : p \in L \/ \E j \in 1..(i - 1) : new[j].id = p
                      /\ \A j \in 1..(i - 1) : new[j].id \in Reach(G, G[new[i].id])
    BY DEF Pending
  <2>1. CASE i = n + 1
    <3>1. new[i].id = e /\ i - 1 = n
      BY <1>3, <2>1 DEF Exit
    <3>2. ASSUME NEW p \in G[e] PROVE \E j \in 1..n : new[j].id = p
      <4>1. PICK j \in 1..n : new[j] = Enter(p)
        BY <1>3
      <4> QED
        BY <4>1 DEF Enter
    <3>3. G[e] \subseteq Reach(G, G[e])
      BY <1>2, ReachProperties
    <3> QED
      BY <1>3, <3>1, <3>2, <3>3
  <2>2. CASE i # n + 1
    <3> DEFINE k == i - n   x == new[i].id
    <3>1. k \in 2..Len(s) /\ new[i] = s[k] /\ k \in Nat /\ i = n + k
      BY <1>3, <1>5, <2>2
    <3>2. x \in EventId
      <4>1. s[k] \in Frame
        BY <1>1, <3>1
      <4> QED
        BY <3>1, <4>1 DEF Frame
    <3>3. /\ \A p \in G[x] : p \in L \/ \E j \in 1..(k - 1) : s[j].id = p
          /\ \A j \in 1..(k - 1) : s[j].id \in Reach(G, G[x])
      BY <1>1, <2>2, <3>1 DEF Stacked, Pending
    <3> HIDE DEF k, x
    <3>4. e \in Reach(G, G[x])
      BY <3>1, <3>3
    <3>5. G[e] \subseteq Reach(G, G[x])
      <4>1. G[x] \in SUBSET EventId
        BY <3>2 DEF IsGraph
      <4>2. Closes(G, Reach(G, G[x]))
        BY <4>1, ReachProperties
      <4> QED
        BY <3>4, <4>2 DEF Closes
    <3>6. ASSUME NEW p \in G[x], p \notin L PROVE \E j \in 1..(i - 1) : new[j].id = p
      <4>1. PICK j \in 1..(k - 1) : s[j].id = p
        BY <3>3, <3>6
      <4>2. CASE j = 1
        <5>1. new[n + 1].id = p /\ n + 1 \in 1..(i - 1)
          BY <1>3, <3>1, <4>1, <4>2 DEF Exit
        <5> QED
          BY <5>1
      <4>3. CASE j # 1
        <5>1. j \in 2..Len(s) /\ n + j \in 1..(i - 1)
          <6>1. /\ k \in Nat /\ k <= Len(s) /\ j \in Nat /\ j >= 2 /\ j <= k - 1
                /\ i = n + k /\ n \in Nat /\ Len(s) \in Nat
            BY <1>1, <1>3, <3>1, <4>3
          <6> QED
            BY <6>1
        <5> QED
          BY <1>6, <4>1, <5>1
      <4> QED
        BY <4>2, <4>3
    <3>7. ASSUME NEW j \in 1..(i - 1) PROVE new[j].id \in Reach(G, G[x])
      <4>1. j \in 1..Len(new)
        BY <1>1, <1>3, <3>1
      <4>2. CASE j \in 1..n
        BY <1>3, <3>5, <4>2
      <4>3. CASE j = n + 1
        BY <1>3, <3>4, <4>3 DEF Exit
      <4>4. CASE j - n \in 2..Len(s) /\ new[j] = s[j - n]
        <5>1. j - n \in 1..(k - 1)
          <6>1. k \in Nat /\ n \in Nat /\ i = n + k
            BY <1>3, <3>1
          <6>2. j \in Int /\ j <= i - 1
            BY <3>1, <6>1
          <6>3. j - n \in Int /\ j - n >= 2
            BY <4>4, <6>1, <6>2
          <6> QED
            BY <6>1, <6>2, <6>3
        <5> QED
          BY <3>3, <4>4, <5>1
      <4> QED
        BY <1>5, <4>1, <4>2, <4>3, <4>4
    <3> QED
      BY <3>6, <3>7 DEF x
  <2> QED
    BY <2>1, <2>2
<1>10. Inside(new, L, hs, G)
  <2>1. e \in Reach(G, hs)
    BY <1>1 DEF Stacked, Inside
  <2>2. G[e] \subseteq Reach(G, hs)
    BY <2>1, ReachProperties DEF Closes
  <2>3. ASSUME NEW i \in 1..Len(new) PROVE new[i].id \in Reach(G, hs)
    <3>1. CASE i \in 1..n
      BY <1>3, <2>2, <3>1
    <3>2. CASE i = n + 1
      BY <1>3, <2>1, <3>2 DEF Exit
    <3>3. CASE i - n \in 2..Len(s) /\ new[i] = s[i - n]
      BY <1>1, <3>3 DEF Stacked, Inside
    <3> QED
      BY <1>5, <3>1, <3>2, <3>3
  <2>4. ASSUME NEW h \in hs, h \notin L PROVE \E i \in 1..Len(new) : new[i].id = h
    <3>1. PICK i \in 1..Len(s) : s[i].id = h
      BY <2>4 DEF Stacked, Inside
    <3>2. CASE i = 1
      BY <1>3, <1>7, <3>1, <3>2 DEF Exit
    <3>3. CASE i # 1
      <4>1. i \in 2..Len(s)
        BY <1>1, <3>3
      <4> QED
        BY <1>6, <3>1, <4>1
    <3> QED
      BY <3>2, <3>3
  <2> QED
    BY <2>3, <2>4 DEF Stacked, Inside
<1> QED
  BY <1>8, <1>9, <1>10 DEF Stacked, new

----------------------------------------------------------------------------
(* The traversal *)

\* What is listed: each event once, after its parents, none being visited.
Recorded(o, V, L, G) ==
  /\ ListedIn(o) = L /\ V \cap L = {}
  /\ \A i, j \in 1..Len(o) : o[i] = o[j] => i = j
  /\ \A i \in 1..Len(o) : \A p \in G[o[i]] : \E j \in 1..(i - 1) : o[j] = p

\* What is counted against the limits.
Counted(b, o, V, L, lim) ==
  /\ b = WireBytes(V \cup L) /\ b <= lim.bytes
  /\ Cardinality(V) + Len(o) <= lim.events

Within(S, lim) == Cardinality(S) <= lim.events /\ WireBytes(S) <= lim.bytes

Ended(t, hs, G, lim) ==
  /\ t.outcome = "done" => t.stack = << >>
  /\ t.outcome = "limit" => ~Within(Reach(G, hs), lim)

TraversalRecord ==
  [stack : Seq(Frame), visiting : SUBSET EventId, listed : SUBSET EventId,
   ordered : Seq(EventId), bytes : Nat, outcome : {"running", "done", "limit"}]

\* The invariant of a traversal t from hs over the edges G.
TraversalInv(t, hs, G, lim) ==
  /\ t \in TraversalRecord
  /\ Stacked(t.stack, t.visiting, t.listed, hs, G)
  /\ Recorded(t.ordered, t.visiting, t.listed, G)
  /\ Counted(t.bytes, t.ordered, t.visiting, t.listed, lim)
  /\ Ended(t, hs, G, lim)

IsLimit(lim) == lim \in [events : Nat, bytes : Nat]

\* A traversal starts with its heads on the stack and nothing counted.
LEMMA TraversalStarts ==
  ASSUME NEW G, IsGraph(G), NEW hs \in SUBSET EventId, NEW lim, IsLimit(lim)
  PROVE  TraversalInv(StartTraversal(hs), hs, G, lim)
<1> DEFINE t == StartTraversal(hs)   s == Entries(hs)
<1>1. /\ t.stack = s /\ t.visiting = {} /\ t.listed = {} /\ t.ordered = << >>
      /\ t.bytes = 0 /\ t.outcome = "running"
      /\ t = [stack |-> s, visiting |-> {}, listed |-> {}, ordered |-> << >>,
              bytes |-> 0, outcome |-> "running"]
  BY DEF StartTraversal
<1>2. /\ s \in Seq(Frame)
      /\ \A i \in 1..Len(s) : s[i].frame = "enter" /\ s[i].id \in hs
      /\ \A e \in hs : \E i \in 1..Len(s) : s[i] = Enter(e)
  BY EntriesType
<1> HIDE DEF t, s
<1>3. t \in TraversalRecord
  <2>1. << >> \in Seq(EventId)
    OBVIOUS
  <2> QED
    BY <1>1, <1>2, <2>1 DEF TraversalRecord
<1>4. Stacked(s, {}, {}, hs, G)
  <2>1. Open(s, {})
    BY <1>2 DEF Open
  <2>2. Pending(s, {}, G)
    BY <1>2 DEF Pending
  <2>3. hs \subseteq Reach(G, hs)
    BY ReachProperties
  <2>4. ASSUME NEW h \in hs PROVE \E i \in 1..Len(s) : s[i].id = h
    <3>1. PICK i \in 1..Len(s) : s[i] = Enter(h)
      BY <1>2
    <3> QED
      BY <3>1 DEF Enter
  <2>5. Inside(s, {}, hs, G)
    BY <1>2, <2>3, <2>4 DEF Inside
  <2> QED
    BY <2>1, <2>2, <2>5 DEF Stacked
<1>5. Recorded(<< >>, {}, {}, G)
  BY DEF Recorded, ListedIn
<1>6. Counted(0, << >>, {}, {}, lim)
  <2>1. WireBytes({} \cup {}) = 0
    <3>1. {} \cup {} = {}
      OBVIOUS
    <3> QED
      BY <3>1, BytesOfNone
  <2>2. Cardinality({}) = 0 /\ Len(<< >>) = 0
    BY FS_EmptySet
  <2>3. lim.events \in Nat /\ lim.bytes \in Nat
    BY DEF IsLimit
  <2> QED
    BY <2>1, <2>2, <2>3 DEF Counted
<1>7. Ended(t, hs, G, lim)
  BY <1>1 DEF Ended
<1> QED
  BY <1>1, <1>3, <1>4, <1>5, <1>6, <1>7 DEF TraversalInv, t

\* A list without repetitions is as long as it has members.
LEMMA LengthCounts ==
  ASSUME NEW o \in Seq(EventId), NEW V \in SUBSET EventId, NEW L \in SUBSET EventId, NEW G,
         Recorded(o, V, L, G)
  PROVE  /\ Len(o) = Cardinality(L) /\ Len(o) \in Nat /\ Cardinality(V) \in Nat
         /\ IsFiniteSet(V \cup L) /\ Cardinality(V \cup L) = Cardinality(V) + Len(o)
<1>1. IsFiniteSet(V) /\ IsFiniteSet(L)
  BY EventsFinite, FS_Subset
<1>2. o \in Bijection(1..Len(o), L)
  <2>1. DOMAIN o = 1..Len(o) /\ o = [i \in 1..Len(o) |-> o[i]]
    OBVIOUS
  <2>2. ListedIn(o) = L
    BY DEF Recorded
  <2>3. \A i \in 1..Len(o) : o[i] \in L
    BY <2>1, <2>2 DEF ListedIn
  <2>4. \A e \in L : \E i \in 1..Len(o) : o[i] = e
    BY <2>1, <2>2 DEF ListedIn
  <2>5. o \in [1..Len(o) -> L]
    BY <2>1, <2>3
  <2>6. o \in Surjection(1..Len(o), L)
    BY <2>4, <2>5 DEF Surjection
  <2>7. \A i, j \in 1..Len(o) : o[i] = o[j] => i = j
    BY DEF Recorded
  <2>8. o \in Injection(1..Len(o), L)
    BY <2>5, <2>7 DEF Injection, IsInjective
  <2> QED
    BY <2>6, <2>8 DEF Bijection
<1>3. Len(o) \in Nat
  OBVIOUS
<1>4. Cardinality(L) = Len(o)
  BY <1>2, <1>3, FS_CountingElements DEF ExistsBijection
<1>5. Cardinality(V) \in Nat
  BY <1>1, FS_CardinalityType
<1>6. V \cap L = {}
  BY DEF Recorded
<1>7. /\ IsFiniteSet(V \cup L)
      /\ Cardinality(V \cup L) = Cardinality(V) + Cardinality(L) - Cardinality(V \cap L)
  BY <1>1, FS_Union
<1>8. Cardinality(V \cap L) = 0
  BY <1>6, FS_EmptySet
<1> QED
  BY <1>3, <1>4, <1>5, <1>7, <1>8

\* The history of some heads has no more events, and no more bytes, than a
\* set around it.
LEMMA WithinLess ==
  ASSUME NEW S, NEW T \in SUBSET EventId, S \subseteq T, NEW lim, IsLimit(lim), Within(T, lim)
  PROVE  Within(S, lim)
<1>1. IsFiniteSet(T) /\ IsFiniteSet(S)
  BY EventsFinite, FS_Subset
<1>2. Cardinality(S) <= Cardinality(T) /\ Cardinality(S) \in Nat /\ Cardinality(T) \in Nat
  BY <1>1, FS_Subset, FS_CardinalityType
<1>3. WireBytes(S) \in Nat /\ WireBytes(T) \in Nat /\ WireBytes(S) <= WireBytes(T)
  BY BytesGrow
<1> QED
  BY <1>2, <1>3 DEF Within, IsLimit

\* An event is listed after its parents.
LEMMA RecordMore ==
  ASSUME NEW G, IsGraph(G), NEW o \in Seq(EventId), NEW V \in SUBSET EventId,
         NEW L \in SUBSET EventId, NEW e \in V, G[e] \subseteq L, Recorded(o, V, L, G)
  PROVE  Append(o, e) \in Seq(EventId) /\ Recorded(Append(o, e), V \ {e}, L \cup {e}, G)
<1> DEFINE q == Append(o, e)
<1>1. /\ q \in Seq(EventId) /\ Len(q) = Len(o) + 1 /\ Len(o) \in Nat
      /\ \A i \in 1..Len(o) : q[i] = o[i]
      /\ q[Len(o) + 1] = e
  BY AppendProperties
<1> HIDE DEF q
<1>2. /\ DOMAIN q = 1..Len(q) /\ DOMAIN o = 1..Len(o)
  BY <1>1
<1>3. /\ ListedIn(o) = L /\ V \cap L = {}
      /\ \A i, j \in 1..Len(o) : o[i] = o[j] => i = j
      /\ \A i \in 1..Len(o) : \A p \in G[o[i]] : \E j \in 1..(i - 1) : o[j] = p
  BY DEF Recorded
<1>4. \A i \in 1..Len(o) : o[i] \in L
  BY <1>2, <1>3 DEF ListedIn
<1>5. \A x \in L : \E i \in 1..Len(o) : o[i] = x
  BY <1>2, <1>3 DEF ListedIn
<1>6. ASSUME NEW i \in 1..Len(q) PROVE i \in 1..Len(o) \/ i = Len(o) + 1
  BY <1>1
<1>7. \A i \in 1..Len(o) : i \in 1..Len(q)
  BY <1>1
<1>8. Len(o) + 1 \in 1..Len(q)
  BY <1>1
<1>9. ListedIn(q) = L \cup {e}
  <2>1. \A x \in ListedIn(q) : x \in L \cup {e}
    BY <1>1, <1>2, <1>4, <1>6 DEF ListedIn
  <2>2. ASSUME NEW x \in L \cup {e} PROVE x \in ListedIn(q)
    <3>1. \E i \in 1..Len(q) : q[i] = x
      BY <1>1, <1>5, <1>7, <1>8
    <3> QED
      BY <1>2, <3>1 DEF ListedIn
  <2> QED
    BY <2>1, <2>2
<1>10. \A i, j \in 1..Len(q) : q[i] = q[j] => i = j
  BY <1>1, <1>3, <1>4, <1>6
<1>11. ASSUME NEW i \in 1..Len(q), NEW p \in G[q[i]] PROVE \E j \in 1..(i - 1) : q[j] = p
  <2>1. CASE i \in 1..Len(o)
    <3>1. PICK j \in 1..(i - 1) : o[j] = p
      BY <1>1, <1>3, <2>1
    <3>2. j \in 1..Len(o)
      BY <1>1, <2>1
    <3> QED
      BY <1>1, <3>1, <3>2
  <2>2. CASE i = Len(o) + 1
    <3>1. PICK j \in 1..Len(o) : o[j] = p
      BY <1>1, <1>5, <2>2
    <3>2. j \in 1..(i - 1)
      BY <1>1, <2>2
    <3> QED
      BY <1>1, <3>1, <3>2
  <2> QED
    BY <1>6, <2>1, <2>2
<1>12. (V \ {e}) \cap (L \cup {e}) = {}
  BY <1>3
<1>13. Recorded(q, V \ {e}, L \cup {e}, G)
  BY <1>9, <1>10, <1>11, <1>12 DEF Recorded
<1> QED
  BY <1>1, <1>13 DEF q

\* Leaving an event changes nothing of the count.
LEMMA CountedLeft ==
  ASSUME NEW G, NEW o \in Seq(EventId), NEW V \in SUBSET EventId, NEW L \in SUBSET EventId,
         NEW lim, IsLimit(lim), NEW b,
         NEW e \in V, Recorded(o, V, L, G), Counted(b, o, V, L, lim)
  PROVE  Counted(b, Append(o, e), V \ {e}, L \cup {e}, lim)
<1>1. (V \ {e}) \cup (L \cup {e}) = V \cup L
  OBVIOUS
<1>2. IsFiniteSet(V)
  BY EventsFinite, FS_Subset
<1>3. Cardinality(V \ {e}) = Cardinality(V) - 1 /\ Cardinality(V) \in Nat
  BY <1>2, FS_RemoveElement, FS_CardinalityType
<1>4. Len(Append(o, e)) = Len(o) + 1 /\ Len(o) \in Nat
  OBVIOUS
<1>5. /\ b = WireBytes(V \cup L) /\ b <= lim.bytes
      /\ Cardinality(V) + Len(o) <= lim.events
  BY DEF Counted
<1>6. Cardinality(V \ {e}) + Len(Append(o, e)) <= lim.events
  BY <1>3, <1>4, <1>5
<1> QED
  BY <1>1, <1>5, <1>6 DEF Counted

\* Visiting an event counts it, and its bytes.
LEMMA CountedVisit ==
  ASSUME NEW G, NEW o \in Seq(EventId), NEW V \in SUBSET EventId, NEW L \in SUBSET EventId,
         NEW lim, IsLimit(lim), NEW b \in Nat, NEW e \in EventId, e \notin V, e \notin L,
         Recorded(o, V, L, G), Counted(b, o, V, L, lim)
  PROVE  /\ Cardinality((V \cup {e}) \cup L) = Cardinality(V) + Len(o) + 1
         /\ WireBytes((V \cup {e}) \cup L) = b + Size[e]
         /\ Size[e] \in Nat
         /\ Cardinality(V \cup {e}) = Cardinality(V) + 1
         /\ Recorded(o, V \cup {e}, L, G)
<1>1. (V \cup {e}) \cup L = (V \cup L) \cup {e} /\ e \notin V \cup L
  OBVIOUS
<1>2. /\ IsFiniteSet(V \cup L) /\ Cardinality(V \cup L) = Cardinality(V) + Len(o)
  BY LengthCounts
<1>3. Cardinality((V \cup L) \cup {e}) = Cardinality(V \cup L) + 1
  BY <1>1, <1>2, FS_AddElement
<1>4. WireBytes((V \cup L) \cup {e}) = WireBytes(V \cup L) + Size[e]
  BY <1>1, BytesAdd
<1>5. IsFiniteSet(V)
  BY EventsFinite, FS_Subset
<1>6. Cardinality(V \cup {e}) = Cardinality(V) + 1
  BY <1>5, FS_AddElement
<1>7. Size[e] \in Nat
  BY ExportAssumption
<1>8. Recorded(o, V \cup {e}, L, G)
  BY DEF Recorded
<1> QED
  BY <1>1, <1>2, <1>3, <1>4, <1>6, <1>7, <1>8 DEF Counted

----------------------------------------------------------------------------
(* The turns of the loop *)

\* A listed event is not listed again.
LEMMA TraversalSkips ==
  ASSUME NEW G, NEW hs, NEW lim, NEW t, TraversalInv(t, hs, G, lim), t.outcome = "running",
         t.stack # << >>, Head(t.stack).frame = "enter", Head(t.stack).id \in t.listed
  PROVE  TraversalInv(SkipListed(t), hs, G, lim)
<1> DEFINE u == SkipListed(t)
<1>1. t \in TraversalRecord
  BY DEF TraversalInv
<1>2. t.stack \in Seq(Frame)
  BY <1>1 DEF TraversalRecord
<1>3. Head(t.stack) = t.stack[1] /\ Tail(t.stack) \in Seq(Frame)
  BY <1>2, BelowTop
<1>4. /\ u \in TraversalRecord /\ u.stack = Tail(t.stack) /\ u.visiting = t.visiting
      /\ u.listed = t.listed /\ u.ordered = t.ordered /\ u.bytes = t.bytes
      /\ u.outcome = "running"
  BY <1>1, <1>3 DEF TraversalRecord, SkipListed, Pop
<1> HIDE DEF u
<1>5. Stacked(Tail(t.stack), t.visiting, t.listed, hs, G)
  BY <1>2, <1>3, TopSkipped DEF TraversalInv
<1>6. Ended(u, hs, G, lim)
  BY <1>4 DEF Ended
<1>7. TraversalInv(u, hs, G, lim)
  BY <1>4, <1>5, <1>6 DEF TraversalInv
<1> QED
  BY <1>7 DEF u

\* An event is left, and listed.
LEMMA TraversalLeaves ==
  ASSUME NEW G, IsGraph(G), NEW hs, NEW lim, IsLimit(lim), NEW t, TraversalInv(t, hs, G, lim),
         t.outcome = "running", t.stack # << >>, Head(t.stack).frame = "exit"
  PROVE  TraversalInv(Leave(t, Head(t.stack).id), hs, G, lim)
<1> DEFINE e == t.stack[1].id   u == Leave(t, e)
<1>1. t \in TraversalRecord
  BY DEF TraversalInv
<1>2. /\ t.stack \in Seq(Frame) /\ t.ordered \in Seq(EventId)
      /\ t.visiting \in SUBSET EventId /\ t.listed \in SUBSET EventId
  BY <1>1 DEF TraversalRecord
<1>3. Head(t.stack) = t.stack[1] /\ Tail(t.stack) \in Seq(Frame)
  BY <1>2, BelowTop
<1>4. /\ Stacked(Tail(t.stack), t.visiting \ {e}, t.listed \cup {e}, hs, G)
      /\ e \in t.visiting /\ G[e] \subseteq t.listed
  BY <1>2, <1>3, TopLeft DEF TraversalInv
<1> HIDE DEF e
<1>5. /\ Append(t.ordered, e) \in Seq(EventId)
      /\ Recorded(Append(t.ordered, e), t.visiting \ {e}, t.listed \cup {e}, G)
  BY <1>2, <1>4, RecordMore DEF TraversalInv
<1>6. Counted(t.bytes, Append(t.ordered, e), t.visiting \ {e}, t.listed \cup {e}, lim)
  BY <1>2, <1>4, CountedLeft DEF TraversalInv
<1>7. /\ t.visiting \ {e} \in SUBSET EventId /\ t.listed \cup {e} \in SUBSET EventId
  BY <1>2, <1>4
<1>8. /\ u \in TraversalRecord /\ u.stack = Tail(t.stack) /\ u.visiting = t.visiting \ {e}
      /\ u.listed = t.listed \cup {e} /\ u.ordered = Append(t.ordered, e) /\ u.bytes = t.bytes
      /\ u.outcome = "running"
  BY <1>1, <1>3, <1>5, <1>7 DEF TraversalRecord, Leave, Pop
<1> HIDE DEF u
<1>9. Ended(u, hs, G, lim)
  BY <1>8 DEF Ended
<1>10. TraversalInv(u, hs, G, lim)
  BY <1>4, <1>5, <1>6, <1>8, <1>9 DEF TraversalInv
<1> QED
  BY <1>3, <1>10 DEF e, u

\* An event that was not met yet is visited, or the history is over the limits.
LEMMA TraversalEnters ==
  ASSUME NEW G, IsGraph(G), NEW hs \in SUBSET EventId, NEW lim, IsLimit(lim), NEW t,
         TraversalInv(t, hs, G, lim), t.outcome = "running", t.stack # << >>,
         Head(t.stack).frame = "enter", Head(t.stack).id \notin t.listed
  PROVE  LET e == Head(t.stack).id
         IN  /\ e \notin t.visiting
             /\ OverLimit(t, e, lim) => TraversalInv([t EXCEPT !.outcome = "limit"], hs, G, lim)
             /\ ~OverLimit(t, e, lim) => TraversalInv(Visit(t, e, G), hs, G, lim)
<1> DEFINE e == t.stack[1].id
           s == Entries(G[e]) \o <<Exit(e)>> \o Tail(t.stack)
           W == t.visiting \cup {e}
<1>1. t \in TraversalRecord
  BY DEF TraversalInv
<1>2. /\ t.stack \in Seq(Frame) /\ t.ordered \in Seq(EventId) /\ t.bytes \in Nat
      /\ t.visiting \in SUBSET EventId /\ t.listed \in SUBSET EventId
  BY <1>1 DEF TraversalRecord
<1>3. Head(t.stack) = t.stack[1] /\ t.stack[1] \in Frame /\ 1 \in 1..Len(t.stack)
  BY <1>2, BelowTop
<1>4. e \in EventId
  BY <1>3 DEF Frame
<1>5. e \notin t.visiting
  BY <1>2, <1>3, TopIsNew DEF TraversalInv
<1>6. Stacked(s, W, t.listed, hs, G)
  BY <1>2, <1>3, TopVisited DEF TraversalInv
<1>7. s \in Seq(Frame)
  <2>1. G[e] \in SUBSET EventId
    BY <1>4 DEF IsGraph
  <2> HIDE DEF e
  <2> QED
    BY <1>2, <1>4, <2>1, StackGrows DEF Grown
<1>8. W \cup t.listed \subseteq Reach(G, hs)
  <2>1. t.listed \subseteq Reach(G, hs) /\ e \in Reach(G, hs)
    BY <1>3 DEF TraversalInv, Stacked, Inside
  <2>2. ASSUME NEW x \in t.visiting PROVE x \in Reach(G, hs)
    <3>1. PICK i \in 1..Len(t.stack) : t.stack[i] = Exit(x)
      BY DEF TraversalInv, Stacked, Open
    <3>2. t.stack[i].id \in Reach(G, hs)
      BY DEF TraversalInv, Stacked, Inside
    <3> QED
      BY <3>1, <3>2 DEF Exit
  <2> QED
    BY <2>1, <2>2
<1> HIDE DEF e, s
<1>9. /\ Cardinality(W \cup t.listed) = Cardinality(t.visiting) + Len(t.ordered) + 1
      /\ WireBytes(W \cup t.listed) = t.bytes + Size[e]
      /\ Size[e] \in Nat
      /\ Cardinality(W) = Cardinality(t.visiting) + 1
      /\ Recorded(t.ordered, W, t.listed, G)
  BY <1>2, <1>3, <1>4, <1>5, CountedVisit DEF TraversalInv, e
<1>10. /\ lim.events \in Nat /\ lim.bytes \in Nat /\ Len(t.ordered) \in Nat
       /\ Cardinality(t.visiting) \in Nat
  <2>1. Recorded(t.ordered, t.visiting, t.listed, G)
    BY DEF TraversalInv
  <2> QED
    BY <1>2, <2>1, LengthCounts DEF IsLimit
<1> HIDE DEF W
<1>11. ASSUME OverLimit(t, e, lim)
       PROVE  TraversalInv([t EXCEPT !.outcome = "limit"], hs, G, lim)
  <2> DEFINE u == [t EXCEPT !.outcome = "limit"]
  <2>1. /\ u \in TraversalRecord /\ u.stack = t.stack /\ u.visiting = t.visiting
        /\ u.listed = t.listed /\ u.ordered = t.ordered /\ u.bytes = t.bytes
        /\ u.outcome = "limit"
    BY <1>1 DEF TraversalRecord
  <2> HIDE DEF u
  <2>2. ~Within(W \cup t.listed, lim)
    BY <1>2, <1>9, <1>10, <1>11 DEF OverLimit, Within
  <2>3. Reach(G, hs) \in SUBSET EventId
    BY DEF Reach
  <2>4. ~Within(Reach(G, hs), lim)
    BY <1>8, <2>2, <2>3, WithinLess
  <2>5. Ended(u, hs, G, lim)
    BY <2>1, <2>4 DEF Ended
  <2>6. TraversalInv(u, hs, G, lim)
    BY <2>1, <2>5 DEF TraversalInv
  <2> QED
    BY <2>6 DEF u
<1>12. ASSUME ~OverLimit(t, e, lim)
       PROVE  TraversalInv(Visit(t, e, G), hs, G, lim)
  <2> DEFINE u == Visit(t, e, G)
  <2>1. W \in SUBSET EventId /\ t.bytes + Size[e] \in Nat
    BY <1>2, <1>4, <1>9 DEF W
  <2>2. /\ u \in TraversalRecord /\ u.stack = s /\ u.visiting = W
        /\ u.listed = t.listed /\ u.ordered = t.ordered /\ u.bytes = t.bytes + Size[e]
        /\ u.outcome = "running"
    <3>1. u = [t EXCEPT !.stack = s, !.visiting = W, !.bytes = t.bytes + Size[e]]
      BY <1>1 DEF Visit, TraversalRecord, s, W
    <3> HIDE DEF u
    <3> QED
      BY <1>1, <1>7, <2>1, <3>1 DEF TraversalRecord
  <2> HIDE DEF u
  <2>3. Counted(u.bytes, u.ordered, u.visiting, u.listed, lim)
    <3>1. ~(Cardinality(t.visiting) + Len(t.ordered) + 1 > lim.events)
          /\ ~(t.bytes + Size[e] > lim.bytes)
      BY <1>12 DEF OverLimit
    <3>2. t.bytes + Size[e] <= lim.bytes
      BY <1>2, <1>9, <1>10, <3>1
    <3>3. Cardinality(W) + Len(t.ordered) <= lim.events
      BY <1>9, <1>10, <3>1
    <3>4. t.bytes + Size[e] = WireBytes(W \cup t.listed)
      BY <1>9
    <3> QED
      BY <2>2, <3>2, <3>3, <3>4 DEF Counted
  <2>4. Ended(u, hs, G, lim)
    BY <2>2 DEF Ended
  <2>5. TraversalInv(u, hs, G, lim)
    BY <1>6, <1>9, <2>2, <2>3, <2>4 DEF TraversalInv
  <2> QED
    BY <2>5 DEF u
<1> QED
  BY <1>3, <1>5, <1>11, <1>12 DEF e

\* Nothing is left on the stack.
LEMMA TraversalEnds ==
  ASSUME NEW G, NEW hs, NEW lim, NEW t, TraversalInv(t, hs, G, lim), t.stack = << >>
  PROVE  TraversalInv([t EXCEPT !.outcome = "done"], hs, G, lim)
<1> DEFINE u == [t EXCEPT !.outcome = "done"]
<1>1. t \in TraversalRecord
  BY DEF TraversalInv
<1>2. /\ u \in TraversalRecord /\ u.stack = t.stack /\ u.visiting = t.visiting
      /\ u.listed = t.listed /\ u.ordered = t.ordered /\ u.bytes = t.bytes
      /\ u.outcome = "done"
  BY <1>1 DEF TraversalRecord
<1> HIDE DEF u
<1>3. Ended(u, hs, G, lim)
  BY <1>2 DEF Ended
<1>4. TraversalInv(u, hs, G, lim)
  BY <1>2, <1>3 DEF TraversalInv
<1> QED
  BY <1>4 DEF u

\* Every turn keeps the invariant.
LEMMA TraversalKeeps ==
  ASSUME NEW G, IsGraph(G), NEW hs \in SUBSET EventId, NEW lim, IsLimit(lim), NEW t,
         TraversalInv(t, hs, G, lim), t.outcome = "running"
  PROVE  TraversalInv(TraversalStep(t, G, lim), hs, G, lim)
<1>1. CASE t.stack = << >>
  BY <1>1, TraversalEnds DEF TraversalStep
<1>2. CASE t.stack # << >> /\ Head(t.stack).frame = "exit"
  BY <1>2, TraversalLeaves DEF TraversalStep
<1>3. CASE t.stack # << >> /\ Head(t.stack).frame # "exit"
  <2> DEFINE e == Head(t.stack).id
  <2>1. Head(t.stack).frame = "enter"
    <3>1. t.stack \in Seq(Frame)
      BY DEF TraversalInv, TraversalRecord
    <3>2. Head(t.stack) \in Frame
      BY <1>3, <3>1, BelowTop
    <3> QED
      BY <1>3, <3>2 DEF Frame
  <2>2. TraversalStep(t, G, lim) = EnterFrame(t, e, G, lim)
    BY <1>3 DEF TraversalStep
  <2>3. CASE e \in t.listed
    <3>1. EnterFrame(t, e, G, lim) = SkipListed(t)
      BY <2>3 DEF EnterFrame, AlreadyListed
    <3> QED
      BY <1>3, <2>1, <2>2, <2>3, <3>1, TraversalSkips
  <2>4. CASE e \notin t.listed
    <3>1. /\ e \notin t.visiting
          /\ OverLimit(t, e, lim) => TraversalInv([t EXCEPT !.outcome = "limit"], hs, G, lim)
          /\ ~OverLimit(t, e, lim) => TraversalInv(Visit(t, e, G), hs, G, lim)
      BY <1>3, <2>1, <2>4, TraversalEnters
    <3> HIDE DEF e
    <3>2. EnterFrame(t, e, G, lim) = IF OverLimit(t, e, lim) THEN [t EXCEPT !.outcome = "limit"]
                                                         ELSE Visit(t, e, G)
      BY <2>4, <3>1 DEF EnterFrame, AlreadyListed
    <3> QED
      BY <2>2, <3>1, <3>2
  <2> QED
    BY <2>3, <2>4
<1> QED
  BY <1>1, <1>2, <1>3

\* What a traversal that ended has listed, and that it ended as it should.
LEMMA TraversalDone ==
  ASSUME NEW G, IsGraph(G), NEW hs \in SUBSET EventId, NEW lim, IsLimit(lim), NEW t,
         TraversalInv(t, hs, G, lim)
  PROVE  /\ t.outcome = "done" => /\ ListedIn(t.ordered) = Reach(G, hs)
                                  /\ Len(t.ordered) = Cardinality(Reach(G, hs))
                                  /\ Within(Reach(G, hs), lim)
         /\ t.outcome = "limit" => ~Within(Reach(G, hs), lim)
         /\ t.outcome \in {"running", "done", "limit"}
<1>1. /\ t \in TraversalRecord /\ Stacked(t.stack, t.visiting, t.listed, hs, G)
      /\ Recorded(t.ordered, t.visiting, t.listed, G)
      /\ Counted(t.bytes, t.ordered, t.visiting, t.listed, lim) /\ Ended(t, hs, G, lim)
  BY DEF TraversalInv
<1>2. /\ t.ordered \in Seq(EventId) /\ t.visiting \in SUBSET EventId
      /\ t.listed \in SUBSET EventId /\ t.outcome \in {"running", "done", "limit"}
  BY <1>1 DEF TraversalRecord
<1>3. ASSUME t.outcome = "done"
      PROVE  /\ ListedIn(t.ordered) = Reach(G, hs)
             /\ Len(t.ordered) = Cardinality(Reach(G, hs))
             /\ Within(Reach(G, hs), lim)
  <2>1. t.stack = << >>
    BY <1>1, <1>3 DEF Ended
  <2>2. \A i \in 1..Len(t.stack) : FALSE
    BY <2>1
  <2>3. t.visiting = {} /\ hs \subseteq t.listed /\ t.listed \subseteq Reach(G, hs)
    BY <1>1, <2>2 DEF Stacked, Open, Inside
  <2>4. DOMAIN t.ordered = 1..Len(t.ordered) /\ ListedIn(t.ordered) = t.listed
    BY <1>1, <1>2 DEF Recorded
  <2>5. ASSUME NEW x \in t.listed, NEW p \in G[x] PROVE p \in t.listed
    <3>1. PICK i \in 1..Len(t.ordered) : t.ordered[i] = x
      BY <2>4 DEF ListedIn
    <3>2. PICK j \in 1..(i - 1) : t.ordered[j] = p
      BY <1>1, <2>5, <3>1 DEF Recorded
    <3>3. j \in 1..Len(t.ordered)
      BY <1>2
    <3> QED
      BY <2>4, <3>2, <3>3 DEF ListedIn
  <2>6. Closes(G, t.listed)
    BY <2>5 DEF Closes
  <2>7. Reach(G, hs) \subseteq t.listed
    BY <1>2, <2>3, <2>6, ReachProperties
  <2>8. t.listed = Reach(G, hs) /\ t.visiting \cup t.listed = t.listed
    BY <2>3, <2>7
  <2>9. Len(t.ordered) = Cardinality(t.listed) /\ Len(t.ordered) \in Nat
        /\ Cardinality(t.visiting) = 0
    BY <1>1, <1>2, <2>3, LengthCounts, FS_EmptySet
  <2>10. Within(t.listed, lim)
    <3>1. /\ WireBytes(t.listed) <= lim.bytes
          /\ Cardinality(t.visiting) + Len(t.ordered) <= lim.events
      BY <1>1, <2>8 DEF Counted
    <3>2. Len(t.ordered) <= lim.events
      BY <2>9, <3>1
    <3> QED
      BY <2>9, <3>1, <3>2 DEF Within
  <2> QED
    BY <2>4, <2>8, <2>9, <2>10
<1> QED
  BY <1>1, <1>2, <1>3 DEF Ended

----------------------------------------------------------------------------
(* The end of a traversal *)

\* A set of events, in byte order, is as long as it has members.
LEMMA EntriesCount ==
  ASSUME NEW S \in SUBSET EventId
  PROVE  Len(Entries(S)) = Cardinality(S) /\ Cardinality(S) \in 0..Len(IdOrder)
<1> DEFINE k == Kept(IdOrder, S)   none == [e \in EventId |-> {}]
<1>1. IdOrder \in Seq(EventId) /\ ListedIn(IdOrder) = EventId
  BY ExportAssumption
<1>2. /\ k \in Seq(EventId) /\ ListedIn(k) = ListedIn(IdOrder) \cap S
      /\ \A i, j \in 1..Len(k) : k[i] = k[j] => i = j
  <2>1. k \in Seq(EventId) /\ ListedIn(k) = ListedIn(IdOrder) \cap S
    BY <1>1, KeptProperties, KeptLists
  <2>2. \A i, j \in 1..Len(IdOrder) : IdOrder[i] = IdOrder[j] => i = j
    BY OrderType
  <2>3. ASSUME NEW i \in 1..Len(k) PROVE \A j \in 1..Len(k) : k[i] = k[j] => i = j
    BY <1>1, <2>2, KeptOrder
  <2> QED
    BY <2>1, <2>3
<1>3. Len(Entries(S)) = Len(k)
  BY <1>2 DEF Entries, InOrder
<1> HIDE DEF k
<1>4. /\ \A i \in 1..Len(k) : none[k[i]] = {}
      /\ \A i \in 1..Len(IdOrder) : none[IdOrder[i]] = {}
  BY <1>1, <1>2
<1> HIDE DEF none
<1>5. Recorded(k, {}, S, none)
  BY <1>1, <1>2, <1>4 DEF Recorded
<1>6. Recorded(IdOrder, {}, EventId, none)
  BY <1>1, <1>4, OrderType DEF Recorded
<1>11. ASSUME NEW o \in Seq(EventId), NEW L \in SUBSET EventId, Recorded(o, {}, L, none)
      PROVE  Len(o) = Cardinality(L)
  <2>1. {} \in SUBSET EventId
    OBVIOUS
  <2> QED
    BY <1>11, <2>1, LengthCounts
<1>7. Len(k) = Cardinality(S)
  BY <1>2, <1>5, <1>11
<1>8. Len(IdOrder) = Cardinality(EventId)
  <2>1. EventId \in SUBSET EventId
    OBVIOUS
  <2> QED
    BY <1>1, <1>6, <1>11, <2>1
<1>9. Cardinality(S) <= Cardinality(EventId) /\ Cardinality(S) \in Nat /\ Cardinality(EventId) \in Nat
  BY EventsFinite, FS_Subset, FS_CardinalityType
<1> QED
  BY <1>3, <1>7, <1>8, <1>9

\* The events a traversal has not met, and a bound of the turns it has left:
\* each of them may still put its parents and its closing frame on the stack.
Unmet(t) == EventId \ (t.visiting \cup t.listed)

TurnsLeft(t) == Len(t.stack) + (Len(IdOrder) + 1) * Cardinality(Unmet(t))

\* One event less is one share less.
LEMMA OneShareLess ==
  ASSUME NEW a \in Nat, NEW c \in Nat
  PROVE  a * (c + 1) = a * c + a /\ a * c \in Nat
  OBVIOUS

LEMMA TurnsLeftType ==
  ASSUME NEW t \in TraversalRecord
  PROVE  /\ TurnsLeft(t) \in Nat /\ Cardinality(Unmet(t)) \in 0..Len(IdOrder)
         /\ Len(t.stack) \in Nat /\ Len(IdOrder) \in Nat /\ IsFiniteSet(Unmet(t))
<1>1. Unmet(t) \in SUBSET EventId
  BY DEF Unmet
<1>2. Cardinality(Unmet(t)) \in 0..Len(IdOrder) /\ IsFiniteSet(Unmet(t))
  BY <1>1, EntriesCount, EventsFinite, FS_Subset
<1>3. t.stack \in Seq(Frame)
  BY DEF TraversalRecord
<1>4. Len(t.stack) \in Nat /\ Len(IdOrder) \in Nat
  BY <1>3, OrderType
<1>5. (Len(IdOrder) + 1) * Cardinality(Unmet(t)) \in Nat
  BY <1>2, <1>4, OneShareLess
<1> QED
  BY <1>2, <1>4, <1>5 DEF TurnsLeft

\* Every turn ends the traversal or leaves fewer turns.
LEMMA TurnLowers ==
  ASSUME NEW G, IsGraph(G), NEW hs \in SUBSET EventId, NEW lim, IsLimit(lim), NEW t,
         TraversalInv(t, hs, G, lim), t.outcome = "running",
         TraversalStep(t, G, lim).outcome = "running"
  PROVE  TurnsLeft(TraversalStep(t, G, lim)) + 1 <= TurnsLeft(t)
<1> DEFINE u == TraversalStep(t, G, lim)   e == Head(t.stack).id
<1>1. t \in TraversalRecord /\ u \in TraversalRecord
  BY TraversalKeeps DEF TraversalInv
<1>2. /\ t.stack \in Seq(Frame) /\ t.visiting \in SUBSET EventId /\ t.listed \in SUBSET EventId
  BY <1>1 DEF TraversalRecord
<1>3. t.stack # << >>
  BY <1>1 DEF TraversalStep, TraversalRecord
<1>4. /\ Head(t.stack) \in Frame /\ Len(Tail(t.stack)) = Len(t.stack) - 1 /\ Len(t.stack) \in Nat
      /\ Head(t.stack) = t.stack[1] /\ 1 \in 1..Len(t.stack) /\ Tail(t.stack) \in Seq(Frame)
  BY <1>2, <1>3, BelowTop
<1>5. e \in EventId
  BY <1>4 DEF Frame
<1>6. /\ TurnsLeft(t) \in Nat /\ TurnsLeft(u) \in Nat /\ Cardinality(Unmet(t)) \in Nat
      /\ Cardinality(Unmet(u)) \in Nat /\ Len(IdOrder) \in Nat /\ IsFiniteSet(Unmet(t))
  BY <1>1, TurnsLeftType
<1>7. ASSUME u.stack = Tail(t.stack), Unmet(u) = Unmet(t)
      PROVE  TurnsLeft(u) + 1 <= TurnsLeft(t)
  <2>1. (Len(IdOrder) + 1) * Cardinality(Unmet(t)) \in Nat
    BY <1>6, OneShareLess
  <2> HIDE DEF u
  <2> QED
    BY <1>4, <1>7, <2>1 DEF TurnsLeft
<1>8. CASE Head(t.stack).frame = "exit"
  <2>1. e \in t.visiting
    <3>1. Stacked(t.stack, t.visiting, t.listed, hs, G)
      BY DEF TraversalInv
    <3>2. t.stack[1].id \in t.visiting
      BY <1>2, <1>3, <1>4, <1>8, <3>1, TopLeft
    <3> QED
      BY <1>4, <3>2
  <2>2. u = Leave(t, e)
    BY <1>3, <1>8 DEF TraversalStep
  <2>3. /\ u.stack = Tail(t.stack) /\ u.visiting = t.visiting \ {e}
        /\ u.listed = t.listed \cup {e}
    BY <1>1, <2>2 DEF Leave, Pop, TraversalRecord
  <2> HIDE DEF u, e
  <2>4. Unmet(u) = Unmet(t)
    BY <2>1, <2>3 DEF Unmet
  <2> QED
    BY <1>7, <2>3, <2>4 DEF u
<1>9. CASE Head(t.stack).frame # "exit" /\ e \in t.listed
  <2>1. u = SkipListed(t)
    BY <1>3, <1>9 DEF TraversalStep, EnterFrame, AlreadyListed
  <2>2. u.stack = Tail(t.stack) /\ u.visiting = t.visiting /\ u.listed = t.listed
    BY <1>1, <2>1 DEF SkipListed, Pop, TraversalRecord
  <2> HIDE DEF u
  <2>3. Unmet(u) = Unmet(t)
    BY <2>2 DEF Unmet
  <2> QED
    BY <1>7, <2>2, <2>3 DEF u
<1>10. CASE Head(t.stack).frame # "exit" /\ e \notin t.listed
  <2>1. Head(t.stack).frame = "enter"
    BY <1>4, <1>10 DEF Frame
  <2>2. e \notin t.visiting
    BY <1>2, <1>3, <1>4, <2>1, TopIsNew DEF TraversalInv
  <2>3. u = Visit(t, e, G)
    <3>1. u = EnterFrame(t, e, G, lim)
      BY <1>3, <1>10 DEF TraversalStep
    <3>2. \/ u = [t EXCEPT !.outcome = "limit"]
          \/ u = Visit(t, e, G)
      BY <1>10, <2>2, <3>1 DEF EnterFrame, AlreadyListed
    <3>3. [t EXCEPT !.outcome = "limit"].outcome = "limit"
      BY <1>1 DEF TraversalRecord
    <3> QED
      BY <3>2, <3>3
  <2> DEFINE S == G[e]   s == Entries(S) \o <<Exit(e)>> \o Tail(t.stack)
  <2>4. u.stack = s /\ u.visiting = t.visiting \cup {e} /\ u.listed = t.listed
    BY <1>1, <2>3 DEF Visit, TraversalRecord
  <2>5. S \in SUBSET EventId
    BY <1>5 DEF IsGraph
  <2> HIDE DEF S, u, e
  <2>6. Len(s) = Len(Entries(S)) + Len(t.stack)
    BY <1>2, <1>3, <1>5, <2>5, StackGrows DEF Grown
  <2>7. Len(Entries(S)) \in Nat /\ Len(Entries(S)) <= Len(IdOrder)
    BY <1>6, <2>5, EntriesCount
  <2> HIDE DEF s
  <2>8. Unmet(u) = Unmet(t) \ {e} /\ e \in Unmet(t)
    BY <1>5, <1>10, <2>2, <2>4 DEF Unmet
  <2>9. Cardinality(Unmet(t)) = Cardinality(Unmet(u)) + 1
    <3>1. Cardinality(Unmet(t) \ {e}) = Cardinality(Unmet(t)) - 1
      BY <1>6, <2>8, FS_RemoveElement
    <3> QED
      BY <1>6, <2>8, <3>1
  <2> DEFINE a == Len(IdOrder) + 1   c == Cardinality(Unmet(u))
  <2>10. a * (c + 1) = a * c + a /\ a * c \in Nat
    BY <1>6, OneShareLess
  <2> DEFINE x == a * c
  <2>11. TurnsLeft(t) = Len(t.stack) + a * (c + 1) /\ TurnsLeft(u) = Len(s) + a * c
    BY <2>4, <2>9 DEF TurnsLeft
  <2>12. a = Len(IdOrder) + 1 /\ a \in Nat
    BY <1>6
  <2> HIDE DEF a, c
  <2>13. TurnsLeft(t) = Len(t.stack) + x + a /\ x \in Nat
    BY <1>4, <2>10, <2>11, <2>12
  <2>14. TurnsLeft(u) = Len(Entries(S)) + Len(t.stack) + x
    BY <2>6, <2>11
  <2> HIDE DEF x
  <2> DEFINE p == Len(t.stack)   q == Len(Entries(S))   d == Len(IdOrder)
  <2>15. /\ p \in Nat /\ q \in Nat /\ d \in Nat /\ x \in Nat /\ q <= d
         /\ TurnsLeft(t) = p + x + (d + 1) /\ TurnsLeft(u) = q + p + x
    BY <1>4, <1>6, <2>7, <2>12, <2>13, <2>14
  <2> HIDE DEF p, q, d
  <2>16. TurnsLeft(u) + 1 <= TurnsLeft(t)
    BY <2>15
  <2> QED
    BY <2>16 DEF u
<1> QED
  BY <1>8, <1>9, <1>10

\* The loop of Project: one turn, and n of them.
Turn(G, hs, lim, f, i) ==
  IF i = 0 THEN StartTraversal(hs)
  ELSE IF f[i - 1].outcome = "running" THEN TraversalStep(f[i - 1], G, lim) ELSE f[i - 1]

Turns(G, hs, lim, f, n) == f = [i \in 0..n |-> Turn(G, hs, lim, f, i)]

LEMMA TurnsExist ==
  ASSUME NEW G, NEW hs, NEW lim, NEW n \in Nat
  PROVE  \E f : Turns(G, hs, lim, f, n)
<1> DEFINE D == {m \in Nat : \E f : Turns(G, hs, lim, f, m)}
<1>1. 0 \in D
  <2>1. Turns(G, hs, lim, [i \in 0..0 |-> StartTraversal(hs)], 0)
    BY DEF Turns, Turn
  <2> QED
    BY <2>1
<1>2. ASSUME NEW m \in D PROVE m + 1 \in D
  <2>1. PICK f : Turns(G, hs, lim, f, m)
    OBVIOUS
  <2> DEFINE g == [i \in 0..(m + 1) |-> IF i = m + 1 THEN Turn(G, hs, lim, f, i) ELSE f[i]]
  <2>2. ASSUME NEW i \in 0..(m + 1) PROVE g[i] = Turn(G, hs, lim, g, i)
    <3>1. CASE i = m + 1
      <4>1. g[i - 1] = f[i - 1] /\ g[i] = Turn(G, hs, lim, f, i)
        BY <3>1
      <4> HIDE DEF g
      <4> QED
        BY <4>1 DEF Turn
    <3>2. CASE i # m + 1
      <4>1. i \in 0..m /\ g[i] = f[i] /\ (i # 0 => g[i - 1] = f[i - 1])
        BY <3>2
      <4>2. f[i] = Turn(G, hs, lim, f, i)
        BY <2>1, <4>1 DEF Turns
      <4> HIDE DEF g
      <4> QED
        BY <4>1, <4>2 DEF Turn
    <3> QED
      BY <3>1, <3>2
  <2>3. g = [i \in 0..(m + 1) |-> Turn(G, hs, lim, g, i)]
    <3>1. g = [i \in 0..(m + 1) |-> g[i]]
      OBVIOUS
    <3> HIDE DEF g
    <3> QED
      BY <2>2, <3>1
  <2>4. Turns(G, hs, lim, g, m + 1) /\ m + 1 \in Nat
    BY <2>3 DEF Turns
  <2> HIDE DEF g
  <2> QED
    BY <2>4
<1> HIDE DEF D
<1>3. D = Nat
  <2>1. D \in SUBSET Nat
    BY DEF D
  <2> QED
    BY <1>1, <1>2, <2>1, SetInduction
<1> QED
  BY <1>3 DEF D

\* The bound of the loop.
Enough == (Len(IdOrder) + 2) * (Len(IdOrder) + 2)

\* A projection is where those turns lead.
LEMMA ProjectTurns ==
  ASSUME NEW G, NEW hs, NEW lim
  PROVE  \E f : Turns(G, hs, lim, f, Enough) /\ Project(G, hs, lim) = f[Enough]
<1> DEFINE f == CHOOSE After : After = [i \in 0..Enough |->
                   IF i = 0 THEN StartTraversal(hs)
                   ELSE LET t == After[i - 1] IN
                        IF t.outcome = "running" THEN TraversalStep(t, G, lim) ELSE t]
<1>1. Enough \in Nat
  BY OrderType DEF Enough
<1>2. \E g : g = [i \in 0..Enough |->
                   IF i = 0 THEN StartTraversal(hs)
                   ELSE LET t == g[i - 1] IN
                        IF t.outcome = "running" THEN TraversalStep(t, G, lim) ELSE t]
  <2>1. PICK g : Turns(G, hs, lim, g, Enough)
    BY <1>1, TurnsExist
  <2> QED
    BY <2>1 DEF Turns, Turn
<1>3. f = [i \in 0..Enough |->
                   IF i = 0 THEN StartTraversal(hs)
                   ELSE LET t == f[i - 1] IN
                        IF t.outcome = "running" THEN TraversalStep(t, G, lim) ELSE t]
  BY <1>2
<1>4. Project(G, hs, lim) = f[Enough]
  BY DEF Project, Enough
<1> HIDE DEF f
<1> QED
  BY <1>3, <1>4 DEF Turns, Turn

\* Before they are used up, the traversal has ended.
LEMMA ProjectEnds ==
  ASSUME NEW G, IsGraph(G), NEW hs \in SUBSET EventId, NEW lim, IsLimit(lim)
  PROVE  /\ TraversalInv(Project(G, hs, lim), hs, G, lim)
         /\ Project(G, hs, lim).outcome # "running"
<1>1. PICK f : Turns(G, hs, lim, f, Enough) /\ Project(G, hs, lim) = f[Enough]
  BY ProjectTurns
<1> DEFINE N == Enough   C == Len(IdOrder)
<1>2. N \in Nat /\ C \in Nat
  BY OrderType DEF Enough
<1>3. \A m \in 0..N : f[m] = Turn(G, hs, lim, f, m)
  BY <1>1 DEF Turns
<1>4. f[0] = StartTraversal(hs)
  BY <1>2, <1>3 DEF Turn
<1> DEFINE D == {m \in Nat : m <= N =>
                   /\ TraversalInv(f[m], hs, G, lim)
                   /\ f[m].outcome = "running" => TurnsLeft(f[m]) + m <= TurnsLeft(f[0])}
<1>5. 0 \in D
  <2>1. TraversalInv(f[0], hs, G, lim)
    BY <1>4, TraversalStarts
  <2>2. TurnsLeft(f[0]) \in Nat
    BY <2>1, TurnsLeftType DEF TraversalInv
  <2> QED
    BY <2>1, <2>2
<1>6. ASSUME NEW m \in D PROVE m + 1 \in D
  <2> SUFFICES ASSUME m + 1 <= N
               PROVE  /\ TraversalInv(f[m + 1], hs, G, lim)
                      /\ f[m + 1].outcome = "running" => TurnsLeft(f[m + 1]) + (m + 1) <= TurnsLeft(f[0])
    OBVIOUS
  <2>1. m \in Nat /\ m + 1 \in 0..N /\ m + 1 # 0 /\ (m + 1) - 1 = m /\ m <= N
    BY <1>2
  <2>2. /\ TraversalInv(f[m], hs, G, lim)
        /\ f[m].outcome = "running" => TurnsLeft(f[m]) + m <= TurnsLeft(f[0])
    BY <2>1
  <2>3. f[m + 1] = IF f[m].outcome = "running" THEN TraversalStep(f[m], G, lim) ELSE f[m]
    BY <1>3, <2>1 DEF Turn
  <2>4. CASE f[m].outcome = "running"
    <3>1. f[m + 1] = TraversalStep(f[m], G, lim)
      BY <2>3, <2>4
    <3>2. TraversalInv(f[m + 1], hs, G, lim)
      BY <2>2, <2>4, <3>1, TraversalKeeps
    <3>3. ASSUME f[m + 1].outcome = "running"
          PROVE  TurnsLeft(f[m + 1]) + (m + 1) <= TurnsLeft(f[0])
      <4>1. TurnsLeft(f[m + 1]) + 1 <= TurnsLeft(f[m])
        BY <2>2, <2>4, <3>1, <3>3, TurnLowers
      <4>2. TurnsLeft(f[m + 1]) \in Nat /\ TurnsLeft(f[m]) \in Nat /\ TurnsLeft(f[0]) \in Nat
        <5>1. f[m] \in TraversalRecord /\ f[m + 1] \in TraversalRecord
          BY <2>2, <3>2 DEF TraversalInv
        <5>2. f[0] \in TraversalRecord
          BY <1>4, TraversalStarts DEF TraversalInv
        <5> QED
          BY <5>1, <5>2, TurnsLeftType
      <4> QED
        BY <2>1, <2>2, <2>4, <4>1, <4>2
    <3> QED
      BY <3>2, <3>3
  <2>5. CASE f[m].outcome # "running"
    BY <2>2, <2>3, <2>5
  <2> QED
    BY <2>4, <2>5
<1> HIDE DEF D
<1>7. D = Nat
  <2>1. D \in SUBSET Nat
    BY DEF D
  <2> QED
    BY <1>5, <1>6, <2>1, SetInduction
<1>8. /\ TraversalInv(f[N], hs, G, lim)
      /\ f[N].outcome = "running" => TurnsLeft(f[N]) + N <= TurnsLeft(f[0])
  BY <1>2, <1>7 DEF D
<1>9. TurnsLeft(f[0]) <= C + (C + 1) * C
  <2>1. f[0].stack = Entries(hs) /\ f[0] \in TraversalRecord
    BY <1>4, TraversalStarts DEF StartTraversal, TraversalInv
  <2>2. Len(Entries(hs)) \in 0..C
    BY EntriesCount
  <2> DEFINE d == Cardinality(Unmet(f[0]))
  <2>3. d \in 0..C
    BY <2>1, TurnsLeftType
  <2>4. TurnsLeft(f[0]) = Len(Entries(hs)) + (C + 1) * d
    BY <2>1 DEF TurnsLeft
  <2> HIDE DEF d, C
  <2>5. (C + 1) * d <= (C + 1) * C /\ (C + 1) * d \in Nat /\ (C + 1) * C \in Nat
    <3>1. PICK k \in Nat : C = d + k
      <4>1. C - d \in Nat /\ C = d + (C - d)
        BY <1>2, <2>3
      <4> QED
        BY <4>1
    <3>2. d \in Nat
      BY <2>3
    <3>3. (C + 1) * (d + k) = (C + 1) * d + (C + 1) * k /\ (C + 1) * d \in Nat /\ (C + 1) * k \in Nat
      BY <1>2, <3>2
    <3> QED
      BY <3>1, <3>3
  <2> QED
    BY <1>2, <2>2, <2>4, <2>5
<1>10. C + (C + 1) * C < N
  <2>1. N = (C + 2) * (C + 2)
    BY DEF Enough
  <2>2. (C + 2) * (C + 2) = C * C + 4 * C + 4 /\ (C + 1) * C = C * C + C /\ C * C \in Nat
    <3> HIDE DEF C
    <3> QED
      BY <1>2
  <2> HIDE DEF C, N
  <2> QED
    BY <1>2, <2>1, <2>2
<1>11. TurnsLeft(f[N]) \in Nat /\ TurnsLeft(f[0]) \in Nat /\ C + (C + 1) * C \in Nat
  <2>1. f[0] \in TraversalRecord
    BY <1>4, TraversalStarts DEF TraversalInv
  <2>2. TurnsLeft(f[N]) \in Nat /\ TurnsLeft(f[0]) \in Nat
    BY <1>8, <2>1, TurnsLeftType DEF TraversalInv
  <2> HIDE DEF C
  <2> QED
    BY <1>2, <2>2, OneShareLess
<1> DEFINE B == C + (C + 1) * C
<1> HIDE DEF C, N, B
<1>12. f[N].outcome # "running"
  <2>1. TurnsLeft(f[0]) <= B /\ B < N /\ B \in Nat
    BY <1>9, <1>10, <1>11 DEF B
  <2> QED
    BY <1>2, <1>8, <1>11, <2>1
<1> QED
  BY <1>1, <1>8, <1>12 DEF N

\* A projection fails exactly when the whole history exceeds a limit, and
\* otherwise lists that history: each event once, after its parents.  This is
\* project_on as a whole, its loop run to the end.
THEOREM ProjectionExact ==
  ASSUME NEW G, IsGraph(G), NEW hs \in SUBSET EventId, NEW lim, IsLimit(lim)
  PROVE  /\ Project(G, hs, lim).outcome = IF Within(Reach(G, hs), lim) THEN "done" ELSE "limit"
         /\ ProjectedOrder(G, hs, lim) \in Seq(EventId)
         /\ Within(Reach(G, hs), lim) => ListsOnce(ProjectedOrder(G, hs, lim), Reach(G, hs), G)
<1> DEFINE t == Project(G, hs, lim)
<1>1. TraversalInv(t, hs, G, lim) /\ t.outcome # "running"
  BY ProjectEnds
<1> HIDE DEF t
<1>2. /\ t.outcome = "done" => /\ ListedIn(t.ordered) = Reach(G, hs)
                               /\ Within(Reach(G, hs), lim)
      /\ t.outcome = "limit" => ~Within(Reach(G, hs), lim)
      /\ t.outcome \in {"running", "done", "limit"}
  BY <1>1, TraversalDone
<1>3. t.ordered \in Seq(EventId) /\ Recorded(t.ordered, t.visiting, t.listed, G)
  BY <1>1 DEF TraversalInv, TraversalRecord
<1>4. DOMAIN t.ordered = 1..Len(t.ordered)
  BY <1>3
<1>5. Within(Reach(G, hs), lim) => ListsOnce(t.ordered, Reach(G, hs), G)
  BY <1>1, <1>2, <1>3, <1>4 DEF Recorded, ListsOnce
<1> QED
  BY <1>1, <1>2, <1>3, <1>5 DEF t, ProjectedOrder

\* The history of some heads is what each of them brings.
LEMMA ReachOfEach ==
  ASSUME NEW G, IsGraph(G), NEW hs \in SUBSET EventId
  PROVE  Reach(G, hs) = UNION {Reach(G, {h}) : h \in hs}
<1> DEFINE U == UNION {Reach(G, {h}) : h \in hs}
<1>1. ASSUME NEW h \in hs
      PROVE  /\ Reach(G, {h}) \in SUBSET EventId /\ h \in Reach(G, {h})
             /\ Closes(G, Reach(G, {h}))
             /\ \A S \in SUBSET EventId : h \in S /\ Closes(G, S) => Reach(G, {h}) \subseteq S
  <2>1. {h} \in SUBSET EventId
    OBVIOUS
  <2> QED
    BY <2>1, ReachProperties
<1>2. U \in SUBSET EventId /\ hs \subseteq U
  <2>1. ASSUME NEW x \in U PROVE x \in EventId
    <3>1. PICK h \in hs : x \in Reach(G, {h})
      OBVIOUS
    <3> QED
      BY <1>1, <3>1
  <2>2. ASSUME NEW h \in hs PROVE h \in U
    BY <1>1
  <2> HIDE DEF U
  <2> QED
    BY <2>1, <2>2
<1>3. Closes(G, U)
  <2> SUFFICES ASSUME NEW x \in U, NEW p \in G[x] PROVE p \in U
    BY DEF Closes
  <2>1. PICK h \in hs : x \in Reach(G, {h})
    OBVIOUS
  <2>2. p \in Reach(G, {h})
    BY <1>1, <2>1 DEF Closes
  <2> QED
    BY <2>2
<1> HIDE DEF U
<1>4. Reach(G, hs) \subseteq U
  BY <1>2, <1>3, ReachProperties
<1>5. /\ Reach(G, hs) \in SUBSET EventId /\ hs \subseteq Reach(G, hs)
      /\ Closes(G, Reach(G, hs))
  BY ReachProperties
<1>6. \A h \in hs : Reach(G, {h}) \subseteq Reach(G, hs)
  BY <1>1, <1>5
<1> QED
  BY <1>4, <1>6 DEF U

\* While the events stored are within the limits, what project_on returns for
\* each set of heads is what PullSync and Exchange assume of projections
\* (Projections): a list of what its heads bring, complete and in order.
THEOREM ProjectionsAsAssumed ==
  ASSUME NEW G, IsGraph(G), NEW lim, IsLimit(lim), Within(EventId, lim)
  PROVE  LET projected == [hs \in SUBSET EventId |-> ProjectedOrder(G, hs, lim)]
         IN  /\ projected \in [SUBSET EventId -> Seq(EventId)]
             /\ \A hs \in SUBSET EventId :
                  ListsOnce(projected[hs], UNION {Reach(G, {h}) : h \in hs}, G)
<1>1. ASSUME NEW hs \in SUBSET EventId
      PROVE  /\ ProjectedOrder(G, hs, lim) \in Seq(EventId)
             /\ ListsOnce(ProjectedOrder(G, hs, lim), UNION {Reach(G, {h}) : h \in hs}, G)
  <2>1. Reach(G, hs) \in SUBSET EventId
    BY DEF Reach
  <2>2. Within(Reach(G, hs), lim)
    BY <2>1, WithinLess
  <2>3. Reach(G, hs) = UNION {Reach(G, {h}) : h \in hs}
    BY ReachOfEach
  <2> QED
    BY <2>2, <2>3, ProjectionExact
<1> QED
  BY <1>1

----------------------------------------------------------------------------
(* The two projections of a request *)

ProjectionInv ==
  /\ IsGraph(parents) /\ IsLimit(bounds)
  /\ heads \in SUBSET EventId /\ known \in SUBSET EventId
  /\ TraversalInv(run, heads, parents, bounds)
  /\ TraversalInv(had, known, parents, bounds)
  /\ answer # "projecting" => run.outcome = "done"

\* A request starts with the projection of the heads it asks for.
LEMMA InitProjects ==
  ASSUME Init
  PROVE  ProjectionInv
<1>1. /\ parents \in [EventId -> SUBSET EventId] /\ Acyclic(parents)
      /\ heads \in SUBSET EventId /\ bounds \in ProjectionLimits
      /\ run = StartTraversal(heads) /\ known = {} /\ had = StartTraversal({})
      /\ answer = "projecting"
  BY DEF Init, Graphs
<1>2. IsGraph(parents) /\ IsLimit(bounds)
  BY <1>1, ExportAssumption DEF IsGraph, IsLimit
<1>3. TraversalInv(run, heads, parents, bounds)
  BY <1>1, <1>2, TraversalStarts
<1>4. TraversalInv(had, known, parents, bounds)
  <2>1. {} \in SUBSET EventId
    OBVIOUS
  <2>2. TraversalInv(StartTraversal({}), {}, parents, bounds)
    BY <1>2, <2>1, TraversalStarts
  <2> QED
    BY <1>1, <2>2
<1> QED
  BY <1>1, <1>2, <1>3, <1>4 DEF ProjectionInv

\* Each step is a turn of one of the two traversals, or leaves both alone.
LEMMA ProjectionKeeps ==
  ASSUME ProjectionInv, [Next]_vars
  PROVE  ProjectionInv'
<1>1. CASE StepProjection
  <2>1. TraversalInv(TraversalStep(run, parents, bounds), heads, parents, bounds)
    BY <1>1, TraversalKeeps DEF ProjectionInv, StepProjection
  <2>2. answer = "projecting"
    BY <1>1 DEF ProjectionInv, StepProjection
  <2>3. /\ run' = TraversalStep(run, parents, bounds) /\ parents' = parents /\ heads' = heads
        /\ bounds' = bounds /\ known' = known /\ had' = had /\ answer' = answer
    BY <1>1 DEF StepProjection, pageVars
  <2> QED
    BY <2>1, <2>2, <2>3 DEF ProjectionInv
<1>2. ASSUME NEW k \in SUBSET EventId, StartKnown(k) PROVE ProjectionInv'
  <2>1. TraversalInv(StartTraversal(k), k, parents, bounds)
    BY TraversalStarts DEF ProjectionInv
  <2>2. /\ run' = run /\ parents' = parents /\ heads' = heads /\ bounds' = bounds
        /\ known' = k /\ had' = StartTraversal(k) /\ run.outcome = "done"
    BY <1>2 DEF StartKnown, projectVars
  <2> QED
    BY <2>1, <2>2 DEF ProjectionInv
<1>3. CASE StepKnown
  <2>1. TraversalInv(TraversalStep(had, parents, bounds), known, parents, bounds)
    BY <1>3, TraversalKeeps DEF ProjectionInv, StepKnown
  <2>2. /\ had' = TraversalStep(had, parents, bounds) /\ parents' = parents /\ heads' = heads
        /\ bounds' = bounds /\ known' = known /\ run' = run /\ answer' = answer
    BY <1>3 DEF StepKnown, projectVars, pageVars
  <2> QED
    BY <2>1, <2>2 DEF ProjectionInv
<1>4. CASE /\ UNCHANGED <<parents, heads, bounds, run, known, had>>
           /\ answer # "projecting" \/ UNCHANGED answer
  BY <1>4 DEF ProjectionInv
<1>5. CASE RefuseKnown
  BY <1>4, <1>5 DEF RefuseKnown, projectVars
<1>6. ASSUME NEW l \in PageLimits, PlanPages(l) PROVE ProjectionInv'
  BY <1>4, <1>6 DEF PlanPages, projectVars
<1>7. CASE Probe
  BY <1>4, <1>7 DEF Probe, projectVars, Page!Probe
<1>8. CASE RefusePage
  BY <1>4, <1>8 DEF RefusePage, projectVars, Page!RefusePage
<1>9. CASE Respond
  BY <1>4, <1>9 DEF Respond, projectVars, Page!Respond
<1>10. CASE NextPage
  BY <1>4, <1>10 DEF NextPage, projectVars
<1>11. CASE UNCHANGED vars
  BY <1>4, <1>11 DEF vars, projectVars, pageVars
<1> QED
  BY <1>1, <1>2, <1>3, <1>5, <1>6, <1>7, <1>8, <1>9, <1>10, <1>11 DEF Next

----------------------------------------------------------------------------
(* The plan and what was sent of it *)

Planned == answer \notin {"projecting", "subtracting", "refused"}

\* What is sent is the beginning of the plan, and the plan is what the heads
\* asked for have and the known ones lack, parents first.
PlanInv ==
  /\ plan \in Seq(EventId) /\ sent \in Seq(EventId) /\ Len(sent) <= Len(plan)
  /\ \A i \in 1..Len(sent) : sent[i] = plan[i]
  /\ ~Planned => plan = << >>
  /\ Planned => IsRest(plan, Reach(parents, heads), Reach(parents, known), parents)

\* The plan is what the one projection lists and the other does not.
LEMMA PlanIsRest ==
  ASSUME ProjectionInv, run.outcome = "done", had.outcome = "done"
  PROVE  LET p == Missing(run.ordered, ListedIn(had.ordered))
         IN  /\ p \in Seq(EventId)
             /\ IsRest(p, Reach(parents, heads), Reach(parents, known), parents)
<1> DEFINE s == run.ordered   has == Reach(parents, known)
<1>1. ListedIn(s) = Reach(parents, heads) /\ ListedIn(had.ordered) = has
  BY TraversalDone DEF ProjectionInv
<1>2. run \in TraversalRecord /\ Recorded(s, run.visiting, run.listed, parents)
  BY DEF ProjectionInv, TraversalInv
<1>3. s \in Seq(EventId) /\ \A e \in EventId : parents[e] \subseteq EventId
  BY <1>2 DEF TraversalRecord, ProjectionInv, IsGraph
<1>4. /\ \A i, j \in 1..Len(s) : s[i] = s[j] => i = j
      /\ \A i \in 1..Len(s) : \A p \in parents[s[i]] : \E j \in 1..(i - 1) : s[j] = p
  BY <1>2 DEF Recorded
<1>5. /\ Kept(s, EventId \ has) \in Seq(EventId)
      /\ IsRest(Kept(s, EventId \ has), ListedIn(s), has, parents)
  <2> HIDE DEF s, has
  <2> QED
    BY <1>3, <1>4, KeptRest
<1> QED
  BY <1>1, <1>5 DEF Missing

----------------------------------------------------------------------------
(* The page search *)

\* Sizes of the bundles of one event or more: they grow with their events.
Profile(sizes) ==
  /\ Len(sizes) \in Nat \ {0} /\ sizes \in [1..Len(sizes) -> Nat]
  /\ \A i, j \in 1..Len(sizes) : i <= j => sizes[i] <= sizes[j]

\* The invariant of the search, and what an answer says of the search that
\* gave it.
SearchState ==
  /\ Profile(size) /\ limits \in PageLimits
  /\ Page!SearchInv
  /\ answer # "searching" => low > high
  /\ answer = "limit_exceeded" => best = 0
  /\ answer \in {"page", "payload_too_large"} => best # 0
  /\ answer = "payload_too_large" => size[best] + Envelope > limits.cap

\* The limits of a request.
LEMMA LimitType ==
  ASSUME NEW l \in PageLimits
  PROVE  /\ l.events \in Nat \ {0} /\ l.bytes \in Nat /\ l.cap \in Nat /\ Envelope \in Nat
  BY ExportAssumption DEF Page!PageAssumption

\* A request asks for at least one of at least one event.
LEMMA UpperType ==
  ASSUME Profile(size), limits \in PageLimits
  PROVE  /\ Page!Remaining = Len(size) /\ Len(size) \in Nat
         /\ Page!Upper \in 1..Len(size)
<1>1. limits.events \in Nat \ {0}
  BY LimitType
<1> QED
  BY <1>1 DEF Profile, Page!Upper, Page!Remaining

\* A probe lies between the bounds.
LEMMA MiddleBetween ==
  ASSUME low \in Nat, high \in Nat, low <= high
  PROVE  Page!Middle \in low..high
<1>1. (high - low) \in Nat /\ 2 * ((high - low) \div 2) <= high - low
      /\ (high - low) \div 2 \in Nat
  OBVIOUS
<1> QED
  BY <1>1 DEF Page!Middle

\* What fits, fits with fewer events.
LEMMA FitsDown ==
  ASSUME Profile(size), limits \in PageLimits,
         NEW m \in 1..Len(size), NEW n \in 1..m, Page!Fits(m)
  PROVE  Page!Fits(n)
<1>1. limits.bytes \in Nat
  BY LimitType
<1>2. n \in 1..Len(size) /\ size[n] \in Nat /\ size[m] \in Nat /\ size[n] <= size[m]
  BY DEF Profile
<1> QED
  BY <1>1, <1>2 DEF Page!Fits

\* The loop invariant holds before the first probe.
LEMMA SearchStarts ==
  ASSUME NEW sizes, Page!StartSearch(sizes), limits' \in PageLimits, Profile(sizes)
  PROVE  SearchState' /\ size' = sizes /\ answer' = "searching" /\ high' \in 1..Len(sizes)
<1>1. /\ size' = sizes /\ low' = 1 /\ high' = (Page!Upper)' /\ best' = 0
      /\ answer' = "searching"
  BY DEF Page!StartSearch
<1>2. limits'.events \in Nat \ {0}
  BY LimitType
<1>3. (Page!Upper)' \in 1..Len(sizes) /\ Len(sizes) \in Nat
  BY <1>1, <1>2 DEF Profile, Page!Upper, Page!Remaining
<1>4. (Page!SearchInv)'
  <2>1. /\ low' \in 1..((Page!Upper)' + 1) /\ high' \in 0..(Page!Upper)' /\ low' <= high' + 1
        /\ best' = low' - 1
    <3>1. high' = (Page!Upper)' /\ high' \in Nat /\ high' >= 1
      BY <1>1, <1>3
    <3>2. low' = 1 /\ best' = 0
      BY <1>1
    <3>3. low' \in 1..(high' + 1) /\ high' \in 0..high' /\ low' <= high' + 1 /\ best' = low' - 1
      <4>1. \A h \in Nat : 1 \in 1..(h + 1) /\ h \in 0..h /\ 1 <= h + 1 /\ 0 = 1 - 1
        OBVIOUS
      <4> QED
        BY <4>1, <3>1, <3>2
    <3> QED
      BY <3>1, <3>3
  <2>2. \A n \in 1..(Page!Upper)' : ~(n < low') /\ ~(n > high')
    BY <1>1, <1>3
  <2> QED
    BY <2>1, <2>2 DEF Page!SearchInv
<1> QED
  BY <1>1, <1>3, <1>4 DEF SearchState

\* A probe keeps it: a prefix that fits settles everything below it, one
\* that does not settles everything above it.
LEMMA ProbeKeeps ==
  ASSUME SearchState, Page!Probe
  PROVE  SearchState'
<1>0. /\ Profile(size) /\ limits \in PageLimits /\ answer = "searching"
      /\ low \in Nat /\ high \in Nat /\ low <= high
      /\ low \in 1..(Page!Upper + 1) /\ high \in 0..Page!Upper /\ best = low - 1
      /\ Page!Upper \in 1..Len(size) /\ Len(size) \in Nat
      /\ \A n \in 1..Page!Upper : (n < low => Page!Fits(n)) /\ (n > high => ~Page!Fits(n))
  BY UpperType DEF SearchState, Page!SearchInv, Page!Probe, Page!Searching
<1>1. Page!Middle \in low..high /\ Page!Middle \in 1..Page!Upper
  BY <1>0, MiddleBetween
<1>2. size' = size /\ limits' = limits /\ answer' = answer /\ (Page!Upper)' = Page!Upper
  BY DEF Page!Probe, Page!Upper, Page!Remaining
<1>3. \A n \in 1..Page!Upper : (Page!Fits(n))' <=> Page!Fits(n)
  BY <1>2 DEF Page!Fits
<1> DEFINE m == Page!Middle   u == Page!Upper
<1>4. CASE size[m] <= limits.bytes
  <2>1. best' = m /\ low' = m + 1 /\ high' = high
    BY <1>4 DEF Page!Probe, Page!Grow
  <2>2. \A n \in 1..u : n <= m => Page!Fits(n)
    BY <1>0, <1>1, <1>4, FitsDown DEF Page!Fits
  <2> HIDE DEF m, u
  <2>3. \A n \in 1..u : (n < low' => Page!Fits(n)) /\ (n > high' => ~Page!Fits(n))
    BY <1>0, <1>1, <2>1, <2>2 DEF m, u
  <2>4. /\ low' \in 1..(u + 1) /\ high' \in 0..u /\ low' <= high' + 1
        /\ best' = low' - 1
    BY <1>0, <1>1, <2>1 DEF m, u
  <2>5. (Page!SearchInv)'
    BY <1>2, <1>3, <2>3, <2>4 DEF Page!SearchInv, u
  <2> QED
    BY <1>0, <1>2, <2>5 DEF SearchState
<1>5. CASE ~(size[m] <= limits.bytes)
  <2>1. best' = best /\ low' = low /\ high' = m - 1
    BY <1>5 DEF Page!Probe, Page!Shrink
  <2>2. ASSUME NEW n \in 1..u, n >= m, Page!Fits(n) PROVE FALSE
    <3>1. n \in 1..Len(size) /\ m \in 1..n
      BY <1>0, <1>1, <2>2
    <3>2. Page!Fits(m)
      BY <1>0, <2>2, <3>1, FitsDown
    <3> QED
      BY <1>5, <3>2 DEF Page!Fits
  <2> HIDE DEF m, u
  <2>3. \A n \in 1..u : (n < low' => Page!Fits(n)) /\ (n > high' => ~Page!Fits(n))
    BY <1>0, <1>1, <2>1, <2>2 DEF m, u
  <2>4. /\ low' \in 1..(u + 1) /\ high' \in 0..u /\ low' <= high' + 1
        /\ best' = low' - 1
    BY <1>0, <1>1, <2>1 DEF m, u
  <2>5. (Page!SearchInv)'
    BY <1>2, <1>3, <2>3, <2>4 DEF Page!SearchInv, u
  <2> QED
    BY <1>0, <1>2, <2>5 DEF SearchState
<1> QED
  BY <1>4, <1>5

\* The two answers are given only when the bounds have crossed.
LEMMA AnswerKeeps ==
  ASSUME SearchState, Page!RefusePage \/ Page!Respond
  PROVE  SearchState'
<1>1. /\ size' = size /\ limits' = limits /\ low' = low /\ high' = high
      /\ best' = best /\ (Page!Upper)' = Page!Upper
  BY DEF Page!RefusePage, Page!Respond, Page!Upper, Page!Remaining
<1>2. (Page!SearchInv)'
  BY <1>1 DEF SearchState, Page!SearchInv, Page!Fits
<1>3. /\ Page!Upper \in 1..Len(size) /\ Len(size) \in Nat /\ best = low - 1
      /\ low \in 1..(Page!Upper + 1) /\ high \in 0..Page!Upper /\ low <= high + 1
  BY UpperType DEF SearchState, Page!SearchInv
<1>4. low > high
  BY <1>3 DEF Page!RefusePage, Page!Respond, Page!Searching
<1>5. answer' = "payload_too_large" => size[best] + Envelope > limits.cap
  <2> SUFFICES ASSUME answer' = "payload_too_large"
               PROVE  size[best] + Envelope > limits.cap
    OBVIOUS
  <2>1. ~(size[best] + Envelope <= limits.cap) /\ best # 0
    BY DEF Page!RefusePage, Page!Respond
  <2>2. best \in 1..Len(size)
    BY <1>3, <2>1
  <2>3. size[best] \in Nat
    BY <2>2 DEF SearchState, Profile
  <2>4. limits.cap \in Nat /\ Envelope \in Nat
    BY LimitType DEF SearchState
  <2> QED
    BY <2>1, <2>3, <2>4
<1> QED
  BY <1>1, <1>2, <1>4, <1>5 DEF SearchState, Page!RefusePage, Page!Respond

\* Every answer is exact: the longest prefix, a refusal only if nothing fits,
\* and the cap only where the request asked for more than it leaves.
LEMMA SearchAnswers ==
  ASSUME SearchState
  PROVE  Page!AnswerExact
<1>1. /\ Page!Upper \in 1..Len(size) /\ Len(size) \in Nat /\ limits \in PageLimits
      /\ low \in 1..(Page!Upper + 1) /\ high \in 0..Page!Upper /\ low <= high + 1
      /\ best = low - 1
      /\ \A n \in 1..Page!Upper : (n < low => Page!Fits(n)) /\ (n > high => ~Page!Fits(n))
  BY UpperType DEF SearchState, Page!SearchInv
<1>2. ASSUME answer \in {"page", "payload_too_large"}
      PROVE  /\ best \in 1..Page!Upper /\ Page!Fits(best)
             /\ \A n \in 1..Page!Upper : n > best => ~Page!Fits(n)
  <2>1. low > high /\ best # 0
    BY <1>2 DEF SearchState
  <2>2. best = high /\ best \in 1..Page!Upper /\ best < low
    BY <1>1, <2>1
  <2> QED
    BY <1>1, <2>2
<1>3. ASSUME answer = "limit_exceeded"
      PROVE  ~Page!Fits(1)
  <2>1. low > high /\ best = 0
    BY <1>3 DEF SearchState
  <2>2. high = 0 /\ 1 \in 1..Page!Upper
    BY <1>1, <2>1
  <2> QED
    BY <1>1, <2>2
<1>4. ASSUME answer = "payload_too_large"
      PROVE  limits.bytes + Envelope > limits.cap
  <2>1. size[best] + Envelope > limits.cap /\ size[best] <= limits.bytes
    BY <1>2, <1>4 DEF SearchState, Page!Fits
  <2>2. size[best] \in Nat
    BY <1>1, <1>2, <1>4 DEF SearchState, Profile
  <2>3. limits.bytes \in Nat /\ limits.cap \in Nat /\ Envelope \in Nat
    BY <1>1, LimitType
  <2> QED
    BY <2>1, <2>2, <2>3
<1> QED
  BY <1>2, <1>3, <1>4 DEF Page!AnswerExact

\* The bundles of what is left of a plan have such sizes.
LEMMA BundlesGrow ==
  ASSUME NEW p \in Seq(EventId), NEW n \in Nat, n < Len(p)
  PROVE  Profile(BundleSizes(p, n)) /\ Len(BundleSizes(p, n)) = Len(p) - n
<1> DEFINE S(c) == {p[i] : i \in (n + 1)..(n + c)}
           k == Len(p) - n
           sizes == BundleSizes(p, n)
<1>1. k \in Nat \ {0}
  OBVIOUS
<1>2. \A c \in 1..k : Overhead + WireBytes(S(c)) \in Nat
  BY BytesGrow, ExportAssumption
<1>3. \A c, d \in 1..k : c <= d => Overhead + WireBytes(S(c)) <= Overhead + WireBytes(S(d))
  <2> SUFFICES ASSUME NEW c \in 1..k, NEW d \in 1..k, c <= d
               PROVE  Overhead + WireBytes(S(c)) <= Overhead + WireBytes(S(d))
    OBVIOUS
  <2>1. \A i \in (n + 1)..(n + c) : i \in (n + 1)..(n + d)
    BY <1>1
  <2>2. S(c) \subseteq S(d)
    BY <2>1
  <2>3. /\ WireBytes(S(c)) \in Nat /\ WireBytes(S(d)) \in Nat
        /\ WireBytes(S(c)) <= WireBytes(S(d))
    BY <2>2, BytesGrow
  <2>4. Overhead \in Nat
    BY ExportAssumption
  <2> QED
    BY <2>3, <2>4
<1>4. sizes = [c \in 1..k |-> Overhead + WireBytes(S(c))]
  BY DEF BundleSizes
<1> HIDE DEF S, sizes, k
<1>5. sizes \in [1..k -> Nat]
  BY <1>2, <1>4
<1>6. sizes \in Seq(Nat) /\ Len(sizes) = k
  BY <1>1, <1>5
<1>7. Profile(sizes)
  BY <1>1, <1>3, <1>4, <1>5, <1>6 DEF Profile
<1> QED
  BY <1>6, <1>7 DEF sizes, k

----------------------------------------------------------------------------
(* Pages *)

Searched == {"searching", "page", "limit_exceeded", "payload_too_large"}

\* The search at work, or the last one, was for the events after those sent.
PagesInv ==
  /\ answer \in {"projecting", "subtracting", "refused", "nothing"} \cup Searched
  /\ answer \in Searched => SearchState
  /\ answer = "searching" => Len(size) = Len(plan) - Len(sent)
  /\ answer = "nothing" => plan = << >>

ExportInv == ProjectionInv /\ PlanInv /\ PagesInv

\* Nothing is planned or sent yet.
LEMMA InitPages ==
  ASSUME Init
  PROVE  PlanInv /\ PagesInv
<1>1. /\ plan = << >> /\ sent = << >> /\ answer = "projecting"
  BY DEF Init
<1>2. << >> \in Seq(EventId) /\ Len(<< >>) = 0 /\ \A i \in 1..0 : FALSE
  OBVIOUS
<1> QED
  BY <1>1, <1>2 DEF PlanInv, PagesInv, Planned, Searched

\* A search goes on over the same plan.
LEMMA SearchGoesOn ==
  ASSUME ExportInv, UNCHANGED <<parents, heads, known, plan, sent>>, answer \in Searched,
         SearchState', size' = size, answer' = answer \/ answer' \in Searched \ {"searching"}
  PROVE  PlanInv' /\ PagesInv'
  BY DEF ExportInv, PlanInv, PagesInv, Planned, Searched

\* The plan is made, and the search for the first page begins.
LEMMA PagesPlanned ==
  ASSUME ExportInv, NEW l \in PageLimits, PlanPages(l)
  PROVE  PlanInv' /\ PagesInv'
<1>1. /\ answer = "subtracting" /\ had.outcome = "done" /\ limits' = l
      /\ plan' = Missing(run.ordered, ListedIn(had.ordered))
      /\ IF plan' = << >> THEN answer' = "nothing"
                          ELSE Page!StartSearch(BundleSizes(plan', 0))
      /\ UNCHANGED <<parents, heads, known, sent>>
  BY DEF PlanPages, projectVars
<1>2. run.outcome = "done"
  BY <1>1 DEF ExportInv, ProjectionInv
<1>3. /\ plan' \in Seq(EventId)
      /\ IsRest(plan', Reach(parents, heads), Reach(parents, known), parents)
  BY <1>1, <1>2, PlanIsRest DEF ExportInv
<1>4. plan = << >> /\ sent \in Seq(EventId) /\ Len(sent) <= Len(plan)
  BY <1>1 DEF ExportInv, PlanInv, Planned
<1>5. Len(sent) = 0
  BY <1>4
<1>6. CASE plan' = << >>
  BY <1>1, <1>3, <1>4, <1>5, <1>6 DEF PlanInv, PagesInv, Planned, Searched
<1>7. CASE plan' # << >>
  <2>1. Page!StartSearch(BundleSizes(plan', 0)) /\ 0 < Len(plan')
    BY <1>1, <1>3, <1>7
  <2>2. Profile(BundleSizes(plan', 0)) /\ Len(BundleSizes(plan', 0)) = Len(plan') - 0
    BY <1>3, <2>1, BundlesGrow
  <2>3. SearchState' /\ size' = BundleSizes(plan', 0) /\ answer' = "searching"
    BY <1>1, <2>1, <2>2, SearchStarts
  <2>4. Len(plan') \in Nat /\ sent' = sent
    BY <1>1, <1>3
  <2>5. PlanInv'
    BY <1>1, <1>3, <1>4, <1>5, <2>3, <2>4 DEF PlanInv, Planned
  <2>6. PagesInv'
    BY <1>5, <2>2, <2>3, <2>4 DEF PagesInv, Searched
  <2> QED
    BY <2>5, <2>6
<1> QED
  BY <1>6, <1>7

\* A page takes the next events of the plan.
LEMMA PageGoesOut ==
  ASSUME ExportInv, Respond
  PROVE  /\ PlanInv' /\ PagesInv'
         /\ answer' = "page" => Len(sent') > Len(sent)
<1>1. /\ answer = "searching" /\ SearchState /\ Len(size) = Len(plan) - Len(sent)
      /\ IsRest(plan, Reach(parents, heads), Reach(parents, known), parents)
      /\ plan \in Seq(EventId) /\ sent \in Seq(EventId) /\ Len(sent) <= Len(plan)
      /\ \A i \in 1..Len(sent) : sent[i] = plan[i]
  BY DEF ExportInv, PlanInv, PagesInv, Planned, Searched, Respond, Page!Respond
<1>2. /\ answer' \in {"page", "payload_too_large"} /\ size' = size
      /\ UNCHANGED <<parents, heads, known, plan>>
      /\ best # 0 /\ ~Page!Searching
      /\ sent' = IF answer' = "page"
                 THEN sent \o SubSeq(plan, Len(sent) + 1, Len(sent) + best) ELSE sent
  BY DEF Respond, Page!Respond, projectVars
<1>3. SearchState'
  BY <1>1, AnswerKeeps DEF Respond
<1>4. CASE answer' # "page"
  BY <1>2, <1>3, <1>4, <1>1, SearchGoesOn DEF Searched
<1>5. CASE answer' = "page"
  <2>1. best \in 1..Len(size)
    <3>1. /\ Page!Upper \in 1..Len(size) /\ Len(size) \in Nat /\ best = low - 1
          /\ low \in 1..(Page!Upper + 1)
      BY <1>1, UpperType DEF SearchState, Page!SearchInv
    <3> QED
      BY <1>2, <3>1
  <2> DEFINE n == Len(sent)   t == SubSeq(plan, n + 1, n + best)
  <2>2. n \in Nat /\ Len(plan) \in Nat /\ best \in Nat /\ n + best <= Len(plan) /\ best >= 1
    BY <1>1, <2>1
  <2>3. t \in Seq(EventId) /\ Len(t) = best /\ \A i \in 1..best : t[i] = plan[n + i]
    <3>1. \A i \in (n + 1)..(n + best) : i \in 1..Len(plan)
      BY <2>2
    <3>2. t \in Seq(EventId) /\ Len(t) = (n + best) - (n + 1) + 1
      BY <1>1, <2>2, <3>1, SubSeqProperties
    <3>3. \A i \in 1..((n + best) - (n + 1) + 1) : t[i] = plan[(n + 1) + i - 1]
      BY <1>1, <2>2, <3>1, SubSeqProperties
    <3> QED
      BY <2>2, <3>2, <3>3
  <2> HIDE DEF n, t
  <2>4. sent' = sent \o t
    BY <1>2, <1>5 DEF n, t
  <2>5. /\ sent' \in Seq(EventId) /\ Len(sent') = n + best
        /\ \A i \in 1..(n + best) : sent'[i] = IF i <= n THEN sent[i] ELSE t[i - n]
    <3>1. /\ sent \o t \in Seq(EventId) /\ Len(sent \o t) = Len(sent) + Len(t)
          /\ \A i \in 1..Len(sent) + Len(t) :
               (sent \o t)[i] = IF i <= Len(sent) THEN sent[i] ELSE t[i - Len(sent)]
      BY <1>1, <2>3, ConcatProperties
    <3> QED
      BY <2>3, <2>4, <3>1 DEF n
  <2>6. ASSUME NEW i \in 1..(n + best) PROVE sent'[i] = plan[i]
    <3>1. CASE i <= n
      <4>1. i \in 1..Len(sent)
        BY <2>2, <3>1 DEF n
      <4> QED
        BY <1>1, <2>5, <3>1, <4>1
    <3>2. CASE ~(i <= n)
      <4>1. i - n \in 1..best /\ n + (i - n) = i
        BY <2>2, <3>2
      <4>2. sent'[i] = t[i - n]
        BY <2>5, <3>2
      <4> QED
        BY <2>3, <4>1, <4>2
    <3> QED
      BY <3>1, <3>2
  <2>7. PlanInv'
    BY <1>1, <1>2, <1>5, <2>2, <2>5, <2>6 DEF PlanInv, Planned
  <2>8. PagesInv'
    BY <1>3, <1>5 DEF PagesInv, Searched
  <2>9. Len(sent') > Len(sent)
    BY <2>2, <2>5 DEF n
  <2> QED
    BY <2>7, <2>8, <2>9
<1> QED
  BY <1>4, <1>5

\* The next page is searched for among the events that are left.
LEMMA NextPageStarts ==
  ASSUME ExportInv, NextPage
  PROVE  PlanInv' /\ PagesInv' /\ high' \in 1..(Len(plan) - Len(sent))
<1>1. /\ answer = "page" /\ SearchState /\ Len(sent) < Len(plan)
      /\ plan \in Seq(EventId) /\ sent \in Seq(EventId)
      /\ Page!StartSearch(BundleSizes(plan, Len(sent)))
      /\ UNCHANGED <<parents, heads, known, plan, sent, limits>>
  BY DEF ExportInv, PlanInv, PagesInv, Searched, NextPage, projectVars
<1>2. limits' \in PageLimits /\ Len(sent) \in Nat
  BY <1>1 DEF SearchState
<1>3. /\ Profile(BundleSizes(plan, Len(sent)))
      /\ Len(BundleSizes(plan, Len(sent))) = Len(plan) - Len(sent)
  BY <1>1, <1>2, BundlesGrow
<1>4. SearchState' /\ size' = BundleSizes(plan, Len(sent)) /\ answer' = "searching"
      /\ high' \in 1..Len(BundleSizes(plan, Len(sent)))
  BY <1>1, <1>2, <1>3, SearchStarts
<1>5. PlanInv'
  BY <1>1, <1>4 DEF ExportInv, PlanInv, Planned
<1>6. PagesInv'
  BY <1>1, <1>3, <1>4 DEF PagesInv, Searched
<1> QED
  BY <1>3, <1>4, <1>5, <1>6

\* Every step keeps the invariant.
LEMMA ExportKeeps ==
  ASSUME ExportInv, [Next]_vars
  PROVE  ExportInv'
<1>1. ProjectionInv'
  BY ProjectionKeeps DEF ExportInv
<1>2. PlanInv' /\ PagesInv'
  <2>1. CASE UNCHANGED <<parents, heads, known, plan, sent, pageVars>>
    BY <2>1 DEF ExportInv, PlanInv, PagesInv, Planned, Searched, pageVars, SearchState, Profile,
                Page!SearchInv, Page!Upper, Page!Remaining, Page!Fits
  <2>2. CASE /\ ~Planned /\ answer' \in {"subtracting", "refused"}
             /\ UNCHANGED <<plan, sent>>
    BY <2>2 DEF ExportInv, PlanInv, PagesInv, Planned, Searched
  <2>3. CASE StepProjection
    BY <2>1, <2>3 DEF StepProjection
  <2>4. ASSUME NEW k \in SUBSET EventId, StartKnown(k) PROVE PlanInv' /\ PagesInv'
    BY <2>2, <2>4 DEF StartKnown, Planned
  <2>5. CASE StepKnown
    BY <2>1, <2>5 DEF StepKnown, projectVars
  <2>6. CASE RefuseKnown
    BY <2>2, <2>6 DEF RefuseKnown, Planned
  <2>7. ASSUME NEW l \in PageLimits, PlanPages(l) PROVE PlanInv' /\ PagesInv'
    BY <2>7, PagesPlanned
  <2>8. CASE Probe
    <3>1. answer \in Searched /\ SearchState
      BY <2>8 DEF ExportInv, PagesInv, Searched, Probe, Page!Probe
    <3>2. SearchState'
      BY <2>8, <3>1, ProbeKeeps DEF Probe
    <3> QED
      BY <2>8, <3>1, <3>2, SearchGoesOn DEF Probe, Page!Probe, projectVars
  <2>9. CASE RefusePage
    <3>1. answer \in Searched /\ SearchState
      BY <2>9 DEF ExportInv, PagesInv, Searched, RefusePage, Page!RefusePage
    <3>2. SearchState'
      BY <2>9, <3>1, AnswerKeeps DEF RefusePage
    <3> QED
      BY <2>9, <3>1, <3>2, SearchGoesOn DEF RefusePage, Page!RefusePage, projectVars, Searched
  <2>10. CASE Respond
    BY <2>10, PageGoesOut
  <2>11. CASE NextPage
    BY <2>11, NextPageStarts
  <2>12. CASE UNCHANGED vars
    BY <2>1, <2>12 DEF vars, projectVars
  <2> QED
    BY <2>3, <2>4, <2>5, <2>6, <2>7, <2>8, <2>9, <2>10, <2>11, <2>12 DEF Next
<1> QED
  BY <1>1, <1>2 DEF ExportInv

\* The invariant holds in every state of a request.
THEOREM ExportSafe == Spec => []ExportInv
<1>1. Init => ExportInv
  BY InitProjects, InitPages DEF ExportInv
<1>2. ExportInv /\ [Next]_vars => ExportInv'
  BY ExportKeeps
<1> QED
  BY <1>1, <1>2, PTL DEF Spec

\* A traversal lists parents first, and when it ends it has listed the history
\* of its heads, each event once.
THEOREM HistoriesListed == Spec => []ListsHistory
<1>1. ASSUME ExportInv PROVE ListsHistory
  <2>1. /\ TraversalInv(run, heads, parents, bounds) /\ IsGraph(parents) /\ IsLimit(bounds)
        /\ heads \in SUBSET EventId
    BY <1>1 DEF ExportInv, ProjectionInv
  <2>2. run.outcome = "done" => /\ ListedIn(run.ordered) = History(heads)
                                /\ Len(run.ordered) = Cardinality(History(heads))
    BY <2>1, TraversalDone, HistoryIsReach
  <2>3. run.ordered \in Seq(EventId)
    BY <2>1 DEF TraversalInv, TraversalRecord
  <2>4. ASSUME NEW i \in DOMAIN run.ordered
        PROVE  parents[run.ordered[i]] \subseteq Before(run.ordered, i)
    <3>1. i \in 1..Len(run.ordered)
      BY <2>3
    <3>2. \A p \in parents[run.ordered[i]] : \E j \in 1..(i - 1) : run.ordered[j] = p
      BY <2>1, <3>1 DEF TraversalInv, Recorded
    <3> QED
      BY <3>2 DEF Before
  <2> QED
    BY <2>2, <2>4 DEF ListsHistory
<1> QED
  BY <1>1, ExportSafe, PTL

\* A projection succeeds exactly if the whole history is within the limits.
THEOREM ExactLimits == Spec => []LimitsExact
<1>1. ASSUME ExportInv PROVE LimitsExact
  <2>1. /\ TraversalInv(run, heads, parents, bounds) /\ IsGraph(parents) /\ IsLimit(bounds)
        /\ heads \in SUBSET EventId
    BY <1>1 DEF ExportInv, ProjectionInv
  <2>2. /\ run.outcome = "done" => Within(History(heads), bounds)
        /\ run.outcome = "limit" => ~Within(History(heads), bounds)
        /\ run.outcome \in {"running", "done", "limit"}
    BY <2>1, TraversalDone, HistoryIsReach
  <2> QED
    BY <2>2 DEF LimitsExact, Within
<1> QED
  BY <1>1, ExportSafe, PTL

\* Every page is the longest one within the request's limits, and a refusal
\* has its reason.
THEOREM ExactAnswers == Spec => []AnswerExact
<1>1. ASSUME ExportInv PROVE AnswerExact
  <2>1. CASE answer \in Searched
    BY <1>1, <2>1, SearchAnswers DEF ExportInv, PagesInv, AnswerExact
  <2>2. CASE answer \notin Searched
    BY <2>2 DEF Searched, AnswerExact, Page!AnswerExact
  <2> QED
    BY <2>1, <2>2
<1> QED
  BY <1>1, ExportSafe, PTL

\* The pages of a plan can be imported one after the other, and bring all that
\* was missing.
THEOREM PagesFollow == Spec => []PagesFollowOn
<1>1. ASSUME ExportInv PROVE PagesFollowOn
  <2> DEFINE all == History(heads)   has == History(known)
  <2>1. all = Reach(parents, heads) /\ has = Reach(parents, known)
    BY HistoryIsReach
  <2>2. /\ plan \in Seq(EventId) /\ sent \in Seq(EventId) /\ Len(sent) <= Len(plan)
        /\ \A i \in 1..Len(sent) : sent[i] = plan[i]
        /\ ~Planned => plan = << >>
        /\ Planned => IsRest(plan, all, has, parents)
    BY <1>1, <2>1 DEF ExportInv, PlanInv
  <2> HIDE DEF all, has
  <2>3. DOMAIN sent = 1..Len(sent) /\ Len(sent) \in Nat /\ Len(plan) \in Nat
    BY <2>2
  <2>4. ASSUME NEW i \in DOMAIN sent
        PROVE  /\ parents[sent[i]] \subseteq has \cup Before(sent, i)
               /\ sent[i] \notin has \cup Before(sent, i)
    <3>1. i \in 1..Len(plan) /\ i \in 1..Len(sent) /\ sent[i] = plan[i]
      BY <2>2, <2>3
    <3>2. IsRest(plan, all, has, parents)
      <4>1. plan # << >>
        BY <3>1
      <4> QED
        BY <2>2, <4>1
    <3>3. \A j \in 1..(i - 1) : j \in 1..Len(sent) /\ j \in 1..Len(plan) /\ sent[j] = plan[j]
      BY <2>2, <2>3, <3>1
    <3>4. ASSUME NEW p \in parents[sent[i]] PROVE p \in has \cup Before(sent, i)
      <4>1. p \in has \/ \E j \in 1..(i - 1) : plan[j] = p
        BY <3>1, <3>2, <3>4 DEF IsRest
      <4> QED
        BY <3>3, <4>1 DEF Before
    <3>5. sent[i] \notin has
      BY <3>1, <3>2 DEF IsRest
    <3>6. ASSUME sent[i] \in Before(sent, i) PROVE FALSE
      <4>1. PICK j \in 1..(i - 1) : sent[j] = sent[i]
        BY <3>6 DEF Before
      <4>2. j = i
        BY <3>1, <3>2, <3>3, <4>1 DEF IsRest
      <4> QED
        BY <3>1, <4>2
    <3> QED
      BY <3>4, <3>5, <3>6
  <2>5. ASSUME answer \in {"page", "nothing"}, Len(sent) = Len(plan)
        PROVE  all \subseteq has \cup ListedIn(sent)
    <3>1. IsRest(plan, all, has, parents)
      BY <2>2, <2>5 DEF Planned
    <3>2. ASSUME NEW a \in all \ has PROVE a \in ListedIn(sent)
      <4>1. PICK i \in 1..Len(plan) : plan[i] = a
        BY <3>1 DEF IsRest
      <4>2. i \in DOMAIN sent /\ sent[i] = a
        BY <2>2, <2>3, <2>5, <4>1
      <4> QED
        BY <4>2 DEF ListedIn
    <3> QED
      BY <3>2
  <2> QED
    BY <2>4, <2>5 DEF PagesFollowOn, all, has
<1> QED
  BY <1>1, ExportSafe, PTL

----------------------------------------------------------------------------
(* The end of a request *)

\* What a request has still to do: the turns of its traversals, then the
\* events of its plan, then the counts a search has not settled.
TurnsOf(t) == IF t.outcome = "running" THEN TurnsLeft(t) + 1 ELSE 0

Unsent == Len(plan) - Len(sent)

Rank ==
  CASE answer = "projecting"  -> <<3, TurnsOf(run), 0>>
    [] answer = "subtracting" -> <<2, TurnsOf(had), 0>>
    [] answer = "searching"   -> <<1, Unsent, high + 2 - low>>
    [] answer = "page"        -> <<1, Unsent, Unsent + 2>>
    [] OTHER                  -> <<0, 0, 0>>

Ranks == Nat \X Nat \X Nat

Lower(x, y) ==
  \/ x[1] < y[1]
  \/ x[1] = y[1] /\ x[2] < y[2]
  \/ x[1] = y[1] /\ x[2] = y[2] /\ x[3] < y[3]

\* A step is left: the guards of the actions, one after the other.
StepLeft ==
  \/ run.outcome = "running"
  \/ answer = "projecting" /\ run.outcome = "done"
  \/ answer = "subtracting"
  \/ answer = "searching"
  \/ answer = "page" /\ Len(sent) < Len(plan)

\* Every turn leaves a traversal less to do.
LEMMA TurnsOfLowers ==
  ASSUME NEW G, IsGraph(G), NEW hs \in SUBSET EventId, NEW lim, IsLimit(lim), NEW t,
         TraversalInv(t, hs, G, lim), t.outcome = "running"
  PROVE  TurnsOf(TraversalStep(t, G, lim)) < TurnsOf(t)
<1> DEFINE u == TraversalStep(t, G, lim)
<1>1. t \in TraversalRecord /\ u \in TraversalRecord
  BY TraversalKeeps DEF TraversalInv
<1>2. TurnsLeft(t) \in Nat /\ TurnsLeft(u) \in Nat
  BY <1>1, TurnsLeftType
<1>3. u.outcome = "running" => TurnsLeft(u) + 1 <= TurnsLeft(t)
  BY TurnLowers
<1> HIDE DEF u
<1>4. TurnsOf(u) < TurnsOf(t)
  BY <1>2, <1>3 DEF TurnsOf
<1> QED
  BY <1>4 DEF u

\* The bounds of a search are never further apart than the events left.
LEMMA SearchWidth ==
  ASSUME ExportInv, answer = "searching"
  PROVE  /\ Unsent \in Nat /\ low \in Nat /\ high \in Nat
         /\ low <= high + 1 /\ 1 <= low /\ high <= Unsent
<1>1. SearchState /\ Len(size) = Unsent
  BY DEF ExportInv, PagesInv, Searched, Unsent
<1>2. /\ Page!Upper \in 1..Len(size) /\ Len(size) \in Nat
      /\ low \in 1..(Page!Upper + 1) /\ high \in 0..Page!Upper /\ low <= high + 1
  BY <1>1, UpperType DEF SearchState, Page!SearchInv
<1> QED
  BY <1>1, <1>2

LEMMA RankType ==
  ASSUME ExportInv
  PROVE  Rank \in Ranks
<1>1. TurnsOf(run) \in Nat /\ TurnsOf(had) \in Nat
  <2>1. run \in TraversalRecord /\ had \in TraversalRecord
    BY DEF ExportInv, ProjectionInv, TraversalInv
  <2> QED
    BY <2>1, TurnsLeftType DEF TurnsOf
<1>2. Unsent \in Nat
  BY DEF ExportInv, PlanInv, Unsent
<1>3. answer = "searching" => high + 2 - low \in Nat
  BY SearchWidth
<1> QED
  BY <1>1, <1>2, <1>3 DEF Rank, Ranks

\* Every step leaves less to do, so that a request, however large the store
\* and the limits, takes finitely many steps.
LEMMA StepLowers ==
  ASSUME ExportInv, Next
  PROVE  Lower(Rank', Rank)
<1>1. CASE StepProjection
  <2>1. TurnsOf(TraversalStep(run, parents, bounds)) < TurnsOf(run)
    BY <1>1, TurnsOfLowers DEF ExportInv, ProjectionInv, StepProjection
  <2>2. answer = "projecting"
    BY <1>1 DEF ExportInv, ProjectionInv, StepProjection
  <2>3. run' = TraversalStep(run, parents, bounds) /\ answer' = answer
    BY <1>1 DEF StepProjection, pageVars
  <2>4. Rank = <<3, TurnsOf(run), 0>> /\ Rank' = <<3, TurnsOf(run'), 0>>
    BY <2>2, <2>3 DEF Rank
  <2> QED
    BY <2>1, <2>3, <2>4 DEF Lower
<1>2. ASSUME NEW k \in SUBSET EventId, StartKnown(k) PROVE Lower(Rank', Rank)
  <2>1. answer = "projecting" /\ answer' = "subtracting"
    BY <1>2 DEF StartKnown
  <2>2. Rank[1] = 3 /\ (Rank')[1] = 2
    BY <2>1 DEF Rank
  <2> QED
    BY <2>2 DEF Lower
<1>3. CASE StepKnown
  <2>1. TurnsOf(TraversalStep(had, parents, bounds)) < TurnsOf(had)
    BY <1>3, TurnsOfLowers DEF ExportInv, ProjectionInv, StepKnown
  <2>2. had' = TraversalStep(had, parents, bounds) /\ answer = "subtracting" /\ answer' = answer
    BY <1>3 DEF StepKnown, pageVars
  <2>3. Rank = <<2, TurnsOf(had), 0>> /\ Rank' = <<2, TurnsOf(had'), 0>>
    BY <2>2 DEF Rank
  <2> QED
    BY <2>1, <2>2, <2>3 DEF Lower
<1>4. ASSUME answer = "subtracting", answer' \in {"refused", "nothing", "searching"}
      PROVE  Lower(Rank', Rank)
  <2>1. Rank[1] = 2 /\ (Rank')[1] \in {0, 1}
    BY <1>4 DEF Rank
  <2> QED
    BY <2>1 DEF Lower
<1>5. CASE RefuseKnown
  BY <1>4, <1>5 DEF RefuseKnown
<1>6. ASSUME NEW l \in PageLimits, PlanPages(l) PROVE Lower(Rank', Rank)
  <2>1. answer = "subtracting" /\ answer' \in {"nothing", "searching"}
    BY <1>6 DEF PlanPages, Page!StartSearch
  <2> QED
    BY <1>4, <2>1
<1>7. CASE Probe
  <2>1. /\ answer = "searching" /\ answer' = "searching" /\ low <= high
        /\ UNCHANGED <<plan, sent>>
    BY <1>7 DEF Probe, Page!Probe, Page!Searching
  <2>2. low \in Nat /\ high \in Nat /\ Page!Middle \in low..high
    BY <2>1, SearchWidth, MiddleBetween
  <2>3. \/ low' = Page!Middle + 1 /\ high' = high
        \/ low' = low /\ high' = Page!Middle - 1
    BY <1>7 DEF Probe, Page!Probe, Page!Grow, Page!Shrink
  <2>4. high' + 2 - low' < high + 2 - low
    BY <2>2, <2>3
  <2>5. Rank = <<1, Unsent, high + 2 - low>> /\ Rank' = <<1, Unsent, high' + 2 - low'>>
    BY <2>1 DEF Rank, Unsent
  <2> QED
    BY <2>4, <2>5 DEF Lower
<1>8. ASSUME answer = "searching", answer' \in {"limit_exceeded", "payload_too_large"}
      PROVE  Lower(Rank', Rank)
  <2>1. Rank[1] = 1 /\ (Rank')[1] = 0
    BY <1>8 DEF Rank
  <2> QED
    BY <2>1 DEF Lower
<1>9. CASE RefusePage
  BY <1>8, <1>9 DEF RefusePage, Page!RefusePage
<1>10. CASE Respond
  <2>1. answer = "searching" /\ answer' \in {"page", "payload_too_large"}
    BY <1>10 DEF Respond, Page!Respond
  <2>2. CASE answer' = "page"
    <3>1. Len(sent') > Len(sent) /\ plan' = plan
      <4>1. Len(sent') > Len(sent)
        BY <1>10, <2>2, PageGoesOut
      <4>2. plan' = plan
        BY <1>10 DEF Respond
      <4> QED
        BY <4>1, <4>2
    <3>2. Len(plan) \in Nat /\ Len(sent) \in Nat /\ Len(sent') \in Nat
      <4>1. PlanInv /\ PlanInv'
        BY <1>10, PageGoesOut DEF ExportInv
      <4> QED
        BY <4>1 DEF PlanInv
    <3>3. Unsent' < Unsent
      BY <3>1, <3>2 DEF Unsent
    <3>4. Rank = <<1, Unsent, high + 2 - low>> /\ Rank' = <<1, Unsent', Unsent' + 2>>
      BY <2>1, <2>2 DEF Rank
    <3> QED
      BY <3>3, <3>4 DEF Lower
  <2> QED
    BY <1>8, <2>1, <2>2
<1>11. CASE NextPage
  <2>1. answer = "page" /\ answer' = "searching" /\ low' = 1 /\ UNCHANGED <<plan, sent>>
    BY <1>11 DEF NextPage, Page!StartSearch
  <2>2. Len(plan) \in Nat /\ Len(sent) \in Nat /\ high' \in 1..(Len(plan) - Len(sent))
    BY <1>11, NextPageStarts DEF ExportInv, PlanInv
  <2>3. Unsent \in Nat /\ high' \in Nat /\ high' + 2 - 1 < Unsent + 2
    BY <2>2 DEF Unsent
  <2>4. Rank = <<1, Unsent, Unsent + 2>> /\ Rank' = <<1, Unsent, high' + 2 - 1>>
    BY <2>1 DEF Rank, Unsent
  <2>5. /\ (Rank')[1] = Rank[1] /\ (Rank')[2] = Rank[2]
        /\ (Rank')[3] = high' + 2 - 1 /\ Rank[3] = Unsent + 2
    BY <2>4
  <2> QED
    BY <2>3, <2>5 DEF Lower
<1> QED
  BY <1>1, <1>2, <1>3, <1>5, <1>6, <1>7, <1>9, <1>10, <1>11 DEF Next

\* Every request is answered within finitely many steps, whatever it asks
\* for: each step of the traversals, the searches and the pages leaves less
\* to do, and a request that no step is left for has its answer.
THEOREM ExportAdvances ==
  Spec => /\ [](Rank \in Ranks)
          /\ [][Lower(Rank', Rank)]_vars
          /\ [](StepLeft \/ Finished)
<1>1. ExportInv => Rank \in Ranks
  BY RankType
<1>3. ExportInv => StepLeft \/ Finished
  <2> SUFFICES ASSUME ExportInv, ~Finished PROVE StepLeft
    OBVIOUS
  <2>1. Len(sent) \in Nat /\ Len(plan) \in Nat /\ Len(sent) <= Len(plan)
    BY DEF ExportInv, PlanInv
  <2>2. run.outcome \in {"running", "done"}
    BY TraversalDone DEF ExportInv, ProjectionInv, Finished
  <2>3. /\ answer \in {"projecting", "subtracting", "searching", "page"}
        /\ answer = "page" => Len(sent) # Len(plan)
    BY DEF ExportInv, PagesInv, Searched, Finished
  <2> QED
    BY <2>1, <2>2, <2>3 DEF StepLeft
<1>2. ExportInv /\ [Next]_vars => [Lower(Rank', Rank)]_vars
  BY StepLowers
<1> QED
  BY <1>1, <1>2, <1>3, ExportSafe, PTL DEF Spec
=============================================================================
