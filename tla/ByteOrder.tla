------------------------------ MODULE ByteOrder ------------------------------
(***************************************************************************)
(* hton64 and ntoh64 (util.c), with which the timestamps are put into and  *)
(* taken from a header.  A number is the function from the places of its   *)
(* bytes to the bytes, place 0 being the least significant one.            *)
(***************************************************************************)
EXTENDS Integers, TLAPS

CONSTANT Byte

Word  == [0..3 -> Byte]   \* uint32_t
DWord == [0..7 -> Byte]   \* uint64_t

\* The byte at each address of an n-byte number: a little-endian machine has
\* the least significant one first.
Memory(v, n, little) == [i \in 0..n - 1 |-> IF little THEN v[i] ELSE v[n - 1 - i]]

\* htonl and ntohl: the identity on a big-endian machine.
Htonl(w, little) == IF little THEN [i \in 0..3 |-> w[3 - i]] ELSE w

Low(v)  == [i \in 0..3 |-> v[i]]       \* value & 0xFFFFFFFF
High(v) == [i \in 0..3 |-> v[i + 4]]   \* value >> 32

\* (uint64_t)high << 32 | low
Join(high, low) == [i \in 0..7 |-> IF i < 4 THEN low[i] ELSE high[i - 4]]

\* htonl(1) != 1 on a little-endian machine only.
hton64(v, little) ==
  IF little THEN Join(Htonl(Low(v), little), Htonl(High(v), little)) ELSE v

\* The same again.
ntoh64(v, little) == hton64(v, little)

-----------------------------------------------------------------------------
\* The byte at place i of a little-endian hton64(v) is that at place 7 - i of v.
LEMMA Reversed ==
  ASSUME NEW v \in DWord, NEW i \in 0..7
  PROVE  hton64(v, TRUE)[i] = v[7 - i]
<1> DEFINE high == Htonl(Low(v), TRUE)
           low  == Htonl(High(v), TRUE)
<1>1. hton64(v, TRUE) = Join(high, low)
  BY DEF hton64
<1>2. \A j \in 0..3 : low[j] = v[7 - j] /\ high[j] = v[3 - j]
  BY DEF Htonl, Low, High
<1> HIDE DEF high, low
<1>3. Join(high, low)[i] = IF i < 4 THEN low[i] ELSE high[i - 4]
  BY DEF Join
<1>4. CASE i < 4
  <2>1. i \in 0..3
    BY <1>4
  <2> QED BY <1>1, <1>2, <1>3, <1>4, <2>1
<1>5. CASE ~(i < 4)
  <2>1. i - 4 \in 0..3 /\ 3 - (i - 4) = 7 - i
    BY <1>5
  <2> QED BY <1>1, <1>2, <1>3, <1>5, <2>1
<1> QED BY <1>4, <1>5

LEMMA HtonType ==
  ASSUME NEW v \in DWord, NEW little \in BOOLEAN
  PROVE  hton64(v, little) \in DWord
<1>1. CASE little
  <2>1. \A i \in 0..7 : hton64(v, TRUE)[i] \in Byte
    <3> SUFFICES ASSUME NEW i \in 0..7 PROVE hton64(v, TRUE)[i] \in Byte
      OBVIOUS
    <3>1. 7 - i \in 0..7
      OBVIOUS
    <3> QED BY <3>1, Reversed DEF DWord
  <2>2. hton64(v, TRUE) = [i \in 0..7 |-> hton64(v, TRUE)[i]]
    BY DEF hton64, Join
  <2> HIDE DEF hton64
  <2> QED BY <1>1, <2>1, <2>2 DEF DWord
<1>2. CASE ~little
  BY <1>2 DEF hton64
<1> QED BY <1>1, <1>2

\* What is put into a header lies there with the most significant byte first,
\* on every machine (util.c:7-14).
THEOREM NetworkOrder ==
  ASSUME NEW v \in DWord, NEW little \in BOOLEAN
  PROVE  \A i \in 0..7 : Memory(hton64(v, little), 8, little)[i] = v[7 - i]
<1> SUFFICES ASSUME NEW i \in 0..7
             PROVE  Memory(hton64(v, little), 8, little)[i] = v[7 - i]
  OBVIOUS
<1>1. Memory(hton64(v, little), 8, little)[i] =
        IF little THEN hton64(v, little)[i] ELSE hton64(v, little)[7 - i]
  BY DEF Memory
<1>2. CASE little
  BY <1>1, <1>2, Reversed
<1>3. CASE ~little
  BY <1>1, <1>3 DEF hton64
<1> QED BY <1>2, <1>3

\* A timestamp that one machine puts into a header and another takes from it is
\* the same number, whichever byte orders the two have: the same eight bytes at
\* the same addresses are taken back to it (util.c:7-23).
THEOREM StampsArrive ==
  ASSUME NEW v \in DWord, NEW from \in BOOLEAN, NEW to \in BOOLEAN,
         NEW w \in DWord, Memory(w, 8, to) = Memory(hton64(v, from), 8, from)
  PROVE  ntoh64(w, to) = v
<1>1. ASSUME NEW i \in 0..7
      PROVE  Memory(w, 8, to)[i] = v[7 - i]
  BY NetworkOrder
<1>2. ASSUME NEW i \in 0..7
      PROVE  Memory(w, 8, to)[i] = IF to THEN w[i] ELSE w[7 - i]
  BY DEF Memory
<1>3. ASSUME NEW i \in 0..7
      PROVE  ntoh64(w, to)[i] = v[i]
  <2>1. 7 - i \in 0..7 /\ 7 - (7 - i) = i
    OBVIOUS
  <2>2. CASE to
    <3>1. ntoh64(w, to)[i] = w[7 - i]
      BY <2>2, Reversed DEF ntoh64
    <3> QED BY <2>1, <2>2, <3>1, <1>1, <1>2
  <2>3. CASE ~to
    <3>1. w[i] = Memory(w, 8, to)[7 - i]
      BY <2>1, <2>3, <1>2
    <3> QED BY <2>1, <2>3, <3>1, <1>1 DEF ntoh64, hton64
  <2> QED BY <2>2, <2>3
<1>4. ntoh64(w, to) \in DWord
  BY HtonType DEF ntoh64
<1> QED BY <1>3, <1>4 DEF DWord
=============================================================================
