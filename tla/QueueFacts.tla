----------------------------- MODULE QueueFacts -----------------------------
(***************************************************************************)
(* What is lost, duplicated or overtaken in a queue of datagrams.          *)
(***************************************************************************)
EXTENDS Integers, SequencesExt, SequenceTheorems, TLAPS

\* What the network does to the datagrams on their way leaves datagrams of the
\* same kind.
LEMMA NetworkSeq ==
  ASSUME NEW S, NEW w \in Seq(S)
  PROVE  /\ w # <<>> => Tail(w) \in Seq(S) /\ Head(w) \in S
         /\ \A k \in 1..Len(w) : RemoveAt(w, k) \in Seq(S) /\ w[k] \in S
         /\ \A k \in 1..Len(w) : InsertAt(w, k, w[k]) \in Seq(S)
         /\ \A k \in 1..Len(w) - 1 : InsertAt(RemoveAt(w, k), k + 1, w[k]) \in Seq(S)
<1>1. w # <<>> => Tail(w) \in Seq(S) /\ Head(w) \in S
  OBVIOUS
<1>2. \A k \in 1..Len(w) : RemoveAt(w, k) \in Seq(S) /\ w[k] \in S
  BY DEF RemoveAt
<1>3. ASSUME NEW v \in Seq(S), NEW k \in 1..Len(v) + 1, NEW e \in S
      PROVE  InsertAt(v, k, e) \in Seq(S)
  <2>1. SubSeq(v, 1, k - 1) \in Seq(S) /\ SubSeq(v, k, Len(v)) \in Seq(S)
    OBVIOUS
  <2>2. <<e>> \in Seq(S)
    OBVIOUS
  <2> QED BY <2>1, <2>2 DEF InsertAt
<1>4. ASSUME NEW k \in 1..Len(w)
      PROVE  Len(RemoveAt(w, k)) = Len(w) - 1
  <2> DEFINE a == SubSeq(w, 1, k - 1)
             b == SubSeq(w, k + 1, Len(w))
  <2>1. /\ a \in Seq(S) /\ Len(a) = k - 1
        /\ b \in Seq(S) /\ Len(b) = Len(w) - k
    OBVIOUS
  <2>2. RemoveAt(w, k) = a \o b
    BY DEF RemoveAt
  <2>3. Len(w) \in Nat
    OBVIOUS
  <2> HIDE DEF a, b
  <2>4. Len(a \o b) = Len(a) + Len(b)
    BY <2>1, ConcatProperties
  <2> QED BY <2>1, <2>2, <2>3, <2>4
<1>5. ASSUME NEW k \in 1..Len(w)
      PROVE  InsertAt(w, k, w[k]) \in Seq(S)
  <2>1. k \in 1..Len(w) + 1
    OBVIOUS
  <2> QED BY <2>1, <1>2, <1>3
<1>6. ASSUME NEW k \in 1..Len(w) - 1
      PROVE  InsertAt(RemoveAt(w, k), k + 1, w[k]) \in Seq(S)
  <2>1. k \in 1..Len(w) /\ Len(w) \in Nat
    OBVIOUS
  <2>2. RemoveAt(w, k) \in Seq(S) /\ w[k] \in S
    BY <2>1, <1>2
  <2>3. Len(RemoveAt(w, k)) = Len(w) - 1
    BY <2>1, <1>4
  <2>4. k + 1 \in 1..Len(RemoveAt(w, k)) + 1
    BY <2>1, <2>3
  <2> QED BY <2>2, <2>4, <1>3
<1> QED BY <1>1, <1>2, <1>5, <1>6

\* What is left after a loss is in the order in which it was sent.
LEMMA RemoveAtElements ==
  ASSUME NEW S, NEW q \in Seq(S), NEW k \in 1..Len(q)
  PROVE  /\ Len(RemoveAt(q, k)) = Len(q) - 1
         /\ \A j \in 1..Len(q) - 1 : RemoveAt(q, k)[j] = IF j < k THEN q[j] ELSE q[j + 1]
<1> DEFINE a == SubSeq(q, 1, k - 1)
           b == SubSeq(q, k + 1, Len(q))
<1>1. /\ a \in Seq(S) /\ Len(a) = k - 1 /\ \A j \in 1..k - 1 : a[j] = q[j]
      /\ b \in Seq(S) /\ Len(b) = Len(q) - k /\ \A j \in 1..Len(q) - k : b[j] = q[k + j]
  OBVIOUS
<1>2. RemoveAt(q, k) = a \o b
  BY DEF RemoveAt
<1>3. Len(q) \in Nat
  OBVIOUS
<1> HIDE DEF a, b
<1>4. /\ Len(a \o b) = Len(a) + Len(b)
      /\ \A j \in 1..Len(a) + Len(b) :
           (a \o b)[j] = IF j <= Len(a) THEN a[j] ELSE b[j - Len(a)]
  BY <1>1, ConcatProperties
<1>5. ASSUME NEW j \in 1..Len(q) - 1
      PROVE  RemoveAt(q, k)[j] = IF j < k THEN q[j] ELSE q[j + 1]
  <2>1. CASE j < k
    BY <1>1, <1>2, <1>3, <1>4, <2>1
  <2>2. CASE ~(j < k)
    <3>1. j - Len(a) \in 1..Len(q) - k /\ k + (j - Len(a)) = j + 1
      BY <1>1, <1>3, <2>2
    <3>2. (a \o b)[j] = b[j - Len(a)]
      BY <1>1, <1>3, <1>4, <2>2
    <3> QED BY <1>1, <1>2, <2>2, <3>1, <3>2
  <2> QED BY <2>1, <2>2
<1> QED BY <1>1, <1>2, <1>3, <1>4, <1>5

\* What is overtaken changes place with what overtakes it.
LEMMA SwapElements ==
  ASSUME NEW S, NEW q \in Seq(S), NEW k \in 1..Len(q) - 1
  PROVE  LET v == InsertAt(RemoveAt(q, k), k + 1, q[k])
         IN  /\ Len(v) = Len(q)
             /\ \A j \in 1..Len(q) :
                  v[j] = q[IF j = k THEN k + 1 ELSE IF j = k + 1 THEN k ELSE j]
<1> DEFINE r == RemoveAt(q, k)
           a == SubSeq(r, 1, k)
           b == SubSeq(r, k + 1, Len(r))
           m == <<q[k]>>
<1>1. /\ r \in Seq(S) /\ Len(r) = Len(q) - 1 /\ Len(q) \in Nat /\ k \in 1..Len(q)
      /\ \A j \in 1..Len(q) - 1 : r[j] = IF j < k THEN q[j] ELSE q[j + 1]
  <2>1. Len(q) \in Nat /\ k \in 1..Len(q)
    OBVIOUS
  <2>2. r \in Seq(S)
    BY <2>1, NetworkSeq
  <2>3. Len(r) = Len(q) - 1 /\ \A j \in 1..Len(q) - 1 : r[j] = IF j < k THEN q[j] ELSE q[j + 1]
    BY <2>1, RemoveAtElements
  <2> QED BY <2>1, <2>2, <2>3
<1>2. InsertAt(RemoveAt(q, k), k + 1, q[k]) = (a \o m) \o b
  <2>1. (k + 1) - 1 = k
    BY <1>1
  <2> QED BY <2>1 DEF InsertAt
<1>3. m \in Seq(S) /\ Len(m) = 1 /\ m[1] = q[k]
  BY <1>1
<1> HIDE DEF r, m
<1>4. /\ a \in Seq(S) /\ Len(a) = k /\ \A j \in 1..k : a[j] = r[j]
      /\ b \in Seq(S) /\ Len(b) = Len(q) - 1 - k
      /\ \A j \in 1..Len(q) - 1 - k : b[j] = r[k + j]
  BY <1>1
<1> HIDE DEF a, b
<1>5. /\ a \o m \in Seq(S) /\ Len(a \o m) = k + 1
      /\ \A j \in 1..k + 1 : (a \o m)[j] = IF j <= k THEN a[j] ELSE m[j - k]
  <2>1. /\ a \o m \in Seq(S) /\ Len(a \o m) = Len(a) + Len(m)
        /\ \A j \in 1..Len(a) + Len(m) :
             (a \o m)[j] = IF j <= Len(a) THEN a[j] ELSE m[j - Len(a)]
    BY <1>3, <1>4, ConcatProperties
  <2>2. Len(a) = k /\ Len(a) + Len(m) = k + 1
    BY <1>3, <1>4
  <2> QED BY <2>1, <2>2
<1> DEFINE c == a \o m
<1> HIDE DEF c
<1>6. /\ Len(c \o b) = Len(q)
      /\ \A j \in 1..Len(q) : (c \o b)[j] = IF j <= k + 1 THEN c[j] ELSE b[j - (k + 1)]
  <2>1. /\ Len(c \o b) = Len(c) + Len(b)
        /\ \A j \in 1..Len(c) + Len(b) :
             (c \o b)[j] = IF j <= Len(c) THEN c[j] ELSE b[j - Len(c)]
    BY <1>4, <1>5, ConcatProperties DEF c
  <2>2. Len(c) = k + 1 /\ Len(c) + Len(b) = Len(q)
    BY <1>1, <1>4, <1>5 DEF c
  <2> QED BY <2>1, <2>2
<1>7. ASSUME NEW j \in 1..Len(q)
      PROVE  (c \o b)[j] = q[IF j = k THEN k + 1 ELSE IF j = k + 1 THEN k ELSE j]
  <2>1. CASE j < k
    <3>1. (c \o b)[j] = r[j]
      BY <1>1, <1>4, <1>5, <1>6, <2>1 DEF c
    <3> QED BY <1>1, <2>1, <3>1
  <2>2. CASE j = k
    <3>1. (c \o b)[j] = r[j]
      BY <1>1, <1>4, <1>5, <1>6, <2>2 DEF c
    <3> QED BY <1>1, <2>2, <3>1
  <2>3. CASE j = k + 1
    <3>1. (c \o b)[j] = m[1]
      BY <1>1, <1>4, <1>5, <1>6, <2>3 DEF c
    <3> QED BY <1>1, <1>3, <2>3, <3>1
  <2>4. CASE j > k + 1
    <3>1. (c \o b)[j] = b[j - (k + 1)] /\ j - (k + 1) \in 1..Len(q) - 1 - k
      BY <1>1, <1>6, <2>4
    <3>2. (c \o b)[j] = r[j - 1]
      <4>1. k + (j - (k + 1)) = j - 1
        BY <1>1
      <4> QED BY <1>4, <3>1, <4>1
    <3>3. j - 1 \in 1..Len(q) - 1 /\ ~(j - 1 < k) /\ (j - 1) + 1 = j
      BY <1>1, <2>4
    <3> QED BY <1>1, <2>4, <3>2, <3>3
  <2>5. j < k \/ j = k \/ j = k + 1 \/ j > k + 1
    BY <1>1
  <2> QED BY <2>1, <2>2, <2>3, <2>4, <2>5
<1> QED BY <1>2, <1>6, <1>7 DEF c

\* v is w, or w without one that was taken or lost, or with two that changed
\* places.
Leaves(v, w) ==
  \/ v = w
  \/ w # <<>> /\ v = Tail(w)
  \/ \E k \in 1..Len(w) : v = RemoveAt(w, k)
  \/ \E k \in 1..Len(w) - 1 : v = InsertAt(RemoveAt(w, k), k + 1, w[k])

\* Each element of v has a place of its own in w.
StandsIn(v, w) ==
  \E f \in [1..Len(v) -> 1..Len(w)] :
    /\ \A i \in 1..Len(v) : v[i] = w[f[i]]
    /\ \A i, j \in 1..Len(v) : f[i] = f[j] => i = j

\* What the network leaves of a queue, if it duplicates nothing, stands in it.
LEMMA NetworkOnce ==
  ASSUME NEW S, NEW w \in Seq(S), NEW v, Leaves(v, w)
  PROVE  StandsIn(v, w)
<1> SUFFICES \E f \in [1..Len(v) -> 1..Len(w)] :
               /\ \A i \in 1..Len(v) : v[i] = w[f[i]]
               /\ \A i, j \in 1..Len(v) : f[i] = f[j] => i = j
  BY DEF StandsIn
<1>0. Len(w) \in Nat
  OBVIOUS
<1>1. CASE v = w
  <2> DEFINE f == [i \in 1..Len(v) |-> i]
  <2>1. f \in [1..Len(v) -> 1..Len(w)]
    BY <1>1
  <2>2. /\ \A i \in 1..Len(v) : v[i] = w[f[i]]
        /\ \A i, j \in 1..Len(v) : f[i] = f[j] => i = j
    BY <1>1
  <2> HIDE DEF f
  <2> QED BY <2>1, <2>2
<1>2. CASE w # <<>> /\ v = Tail(w)
  <2> DEFINE f == [i \in 1..Len(v) |-> i + 1]
  <2>1. Len(v) = Len(w) - 1 /\ \A i \in 1..Len(v) : v[i] = w[i + 1]
    BY <1>2
  <2>2. f \in [1..Len(v) -> 1..Len(w)]
    BY <1>0, <2>1
  <2>3. /\ \A i \in 1..Len(v) : v[i] = w[f[i]]
        /\ \A i, j \in 1..Len(v) : f[i] = f[j] => i = j
    BY <2>1
  <2> HIDE DEF f
  <2> QED BY <2>2, <2>3
<1>3. ASSUME NEW k \in 1..Len(w), v = RemoveAt(w, k)
      PROVE  \E f \in [1..Len(v) -> 1..Len(w)] :
               /\ \A i \in 1..Len(v) : v[i] = w[f[i]]
               /\ \A i, j \in 1..Len(v) : f[i] = f[j] => i = j
  <2> DEFINE f == [i \in 1..Len(v) |-> IF i < k THEN i ELSE i + 1]
  <2>1. /\ Len(v) = Len(w) - 1
        /\ \A i \in 1..Len(v) : v[i] = IF i < k THEN w[i] ELSE w[i + 1]
    BY <1>3, RemoveAtElements
  <2>2. f \in [1..Len(v) -> 1..Len(w)]
    BY <1>0, <2>1
  <2>3. \A i \in 1..Len(v) : v[i] = w[f[i]]
    BY <2>1
  <2>4. \A i, j \in 1..Len(v) : f[i] = f[j] => i = j
    BY <1>0, <2>1
  <2> HIDE DEF f
  <2> QED BY <2>2, <2>3, <2>4
<1>4. ASSUME NEW k \in 1..Len(w) - 1, v = InsertAt(RemoveAt(w, k), k + 1, w[k])
      PROVE  \E f \in [1..Len(v) -> 1..Len(w)] :
               /\ \A i \in 1..Len(v) : v[i] = w[f[i]]
               /\ \A i, j \in 1..Len(v) : f[i] = f[j] => i = j
  <2> DEFINE f == [i \in 1..Len(v) |-> IF i = k THEN k + 1 ELSE IF i = k + 1 THEN k ELSE i]
  <2>1. /\ Len(v) = Len(w)
        /\ \A i \in 1..Len(v) : v[i] = w[IF i = k THEN k + 1 ELSE IF i = k + 1 THEN k ELSE i]
    BY <1>4, SwapElements
  <2>2. f \in [1..Len(v) -> 1..Len(w)]
    BY <1>0, <2>1
  <2>3. \A i \in 1..Len(v) : v[i] = w[f[i]]
    BY <2>1
  <2>4. \A i, j \in 1..Len(v) : f[i] = f[j] => i = j
    BY <1>0, <2>1
  <2> HIDE DEF f
  <2> QED BY <2>2, <2>3, <2>4
<1> QED BY <1>1, <1>2, <1>3, <1>4 DEF Leaves

\* k is in the queue q, and nothing is in it twice.
Holds(q, k) == \E i \in 1..Len(q) : q[i] = k
Once(q)     == \A i, j \in 1..Len(q) : q[i] = q[j] => i = j

\* The network adds nothing.
LEMMA StandsOnce ==
  ASSUME NEW v, NEW w, StandsIn(v, w)
  PROVE  /\ Once(w) => Once(v)
         /\ \A k : Holds(v, k) => Holds(w, k)
<1>1. PICK f \in [1..Len(v) -> 1..Len(w)] :
        /\ \A i \in 1..Len(v) : v[i] = w[f[i]]
        /\ \A i, j \in 1..Len(v) : f[i] = f[j] => i = j
  BY DEF StandsIn
<1>2. \A i \in 1..Len(v) : f[i] \in 1..Len(w)
  BY <1>1
<1>3. ASSUME Once(w)
      PROVE  Once(v)
  BY <1>1, <1>2, <1>3 DEF Once
<1>4. \A k : Holds(v, k) => Holds(w, k)
  BY <1>1, <1>2 DEF Holds
<1> QED BY <1>3, <1>4

\* What is taken from a queue is not in it any more.
LEMMA TakenOnce ==
  ASSUME NEW S, NEW q \in Seq(S), q # <<>>
  PROVE  /\ Holds(q, Head(q))
         /\ \A k : Holds(Tail(q), k) => Holds(q, k)
         /\ Once(q) => Once(Tail(q)) /\ ~Holds(Tail(q), Head(q))
<1>1. /\ Len(q) \in Nat /\ 1 \in 1..Len(q) /\ Head(q) = q[1] /\ Len(Tail(q)) = Len(q) - 1
      /\ \A i \in 1..Len(q) - 1 : Tail(q)[i] = q[i + 1]
  OBVIOUS
<1>2. \A i \in 1..Len(q) - 1 : i + 1 \in 1..Len(q) /\ i + 1 # 1
  BY <1>1
<1>3. Holds(q, Head(q))
  BY <1>1 DEF Holds
<1>4. \A k : Holds(Tail(q), k) => Holds(q, k)
  BY <1>1, <1>2 DEF Holds
<1>5. ASSUME Once(q)
      PROVE  Once(Tail(q)) /\ ~Holds(Tail(q), Head(q))
  <2>1. Once(Tail(q))
    BY <1>1, <1>2, <1>5 DEF Once
  <2>2. ~Holds(Tail(q), Head(q))
    BY <1>1, <1>2, <1>5 DEF Once, Holds
  <2> QED BY <2>1, <2>2
<1> QED BY <1>3, <1>4, <1>5

LEMMA AppendedOnce ==
  ASSUME NEW S, NEW q \in Seq(S), NEW e \in S
  PROVE  /\ \A k : Holds(Append(q, e), k) <=> Holds(q, k) \/ k = e
         /\ Once(q) /\ ~Holds(q, e) => Once(Append(q, e))
<1> DEFINE w == Append(q, e)
           n == Len(q) + 1
<1>1. /\ Len(q) \in Nat /\ n \in Nat /\ Len(w) = n /\ n \in 1..n /\ w[n] = e
      /\ \A i \in 1..Len(q) : i \in 1..n /\ w[i] = q[i]
      /\ \A i \in 1..n : i # n => i \in 1..Len(q)
  OBVIOUS
<1> HIDE DEF w, n
<1>2. \A k : Holds(w, k) <=> Holds(q, k) \/ k = e
  BY <1>1 DEF Holds
<1>3. ASSUME Once(q), ~Holds(q, e)
      PROVE  Once(w)
  <2> SUFFICES ASSUME NEW i \in 1..n, NEW j \in 1..n, w[i] = w[j]
               PROVE  i = j
    BY <1>1 DEF Once
  <2> QED BY <1>1, <1>3 DEF Once, Holds
<1> QED BY <1>2, <1>3 DEF w
=============================================================================
