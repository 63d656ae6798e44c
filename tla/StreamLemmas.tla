---------------------------- MODULE StreamLemmas ----------------------------
(***************************************************************************)
(* What the steps of a forwarded stream do to its chunks: reading on,      *)
(* delivering a part, holding the rest.                                    *)
(***************************************************************************)
EXTENDS Streams, SequenceTheorems, TLAPS

(* A chunk is a sequence of numbers of the length asked for: what one read *)
(* of srcSocket or of the channel returns.                                 *)
LEMMA ChunkType ==
  ASSUME NEW k \in Nat, NEW n \in Nat
  PROVE  /\ Chunk(k, n) \in Seq(Nat)
         /\ Len(Chunk(k, n)) = n
         /\ \A i \in 1..n : Chunk(k, n)[i] = k + i
<1>1. \A i \in 1..n : k + i \in Nat
  OBVIOUS
<1>2. Chunk(k, n) \in Seq(Nat)
  BY <1>1 DEF Chunk
<1> QED
  BY <1>2 DEF Chunk

(* The first n bytes of a stream.                                          *)
LEMMA ChunkFromStart ==
  ASSUME NEW n \in Nat
  PROVE  /\ Chunk(0, n) \in Seq(Nat)
         /\ Len(Chunk(0, n)) = n
         /\ \A i \in 1..n : Chunk(0, n)[i] = i
<1>1. 0 \in Nat /\ \A i \in 1..n : 0 + i = i
  OBVIOUS
<1>2. /\ Chunk(0, n) \in Seq(Nat)
      /\ Len(Chunk(0, n)) = n
      /\ \A i \in 1..n : Chunk(0, n)[i] = 0 + i
  BY <1>1, ChunkType
<1> QED
  BY <1>1, <1>2

(* Two sequences of the same length with the same elements are equal.      *)
LEMMA SameSeq ==
  ASSUME NEW s \in Seq(Nat), NEW t \in Seq(Nat), Len(s) = Len(t),
         \A i \in 1..Len(s) : s[i] = t[i]
  PROVE  s = t
BY SeqEqual

(* The elements of a concatenation.                                        *)
LEMMA Concat ==
  ASSUME NEW s \in Seq(Nat), NEW t \in Seq(Nat)
  PROVE  /\ s \o t \in Seq(Nat)
         /\ Len(s \o t) = Len(s) + Len(t)
         /\ \A i \in 1..Len(s) : (s \o t)[i] = s[i]
         /\ \A i \in 1..Len(t) : (s \o t)[Len(s) + i] = t[i]
OBVIOUS

(* Concatenation is associative: it does not matter whether a byte is moved *)
(* before or after the next one is read.                                   *)
LEMMA ConcatAssoc ==
  ASSUME NEW s \in Seq(Nat), NEW t \in Seq(Nat), NEW u \in Seq(Nat)
  PROVE  (s \o t) \o u = s \o (t \o u)
OBVIOUS

(* Reading on where the last read stopped extends the chunk.               *)
LEMMA ChunkJoin ==
  ASSUME NEW k \in Nat, NEW n \in Nat
  PROVE  Chunk(0, k) \o Chunk(k, n) = Chunk(0, k + n)
<1> DEFINE a == Chunk(0, k)
           b == Chunk(k, n)
           c == Chunk(0, k + n)
<1>1. /\ a \in Seq(Nat) /\ Len(a) = k /\ \A i \in 1..k : a[i] = i
      /\ b \in Seq(Nat) /\ Len(b) = n /\ \A i \in 1..n : b[i] = k + i
      /\ c \in Seq(Nat) /\ Len(c) = k + n /\ \A i \in 1..(k + n) : c[i] = i
  <2>1. a \in Seq(Nat) /\ Len(a) = k /\ \A i \in 1..k : a[i] = i
    BY ChunkFromStart
  <2>2. b \in Seq(Nat) /\ Len(b) = n /\ \A i \in 1..n : b[i] = k + i
    BY ChunkType
  <2>3. /\ c \in Seq(Nat) /\ Len(c) = k + n
        /\ \A i \in 1..(k + n) : c[i] = i
    <3>1. k + n \in Nat
      OBVIOUS
    <3> QED
      BY <3>1, ChunkFromStart
  <2> QED
    BY <2>1, <2>2, <2>3
<1> HIDE DEF a, b, c
<1>2. a \o b \in Seq(Nat) /\ Len(a \o b) = k + n
  BY <1>1
<1>3. \A i \in 1..(k + n) : (a \o b)[i] = c[i]
  BY <1>1
<1>4. a \o b = c
  BY <1>1, <1>2, <1>3, SameSeq
<1> QED
  BY <1>4 DEF a, b, c

(* The two parts of a chunk are chunks: what is delivered of a stream, and *)
(* what is held of it.                                                     *)
LEMMA ChunkSplit ==
  ASSUME NEW s \in Seq(Nat), NEW t \in Seq(Nat), NEW k \in Nat,
         s \o t = Chunk(0, k)
  PROVE  /\ s = Chunk(0, Len(s))
         /\ t = Chunk(Len(s), Len(t))
         /\ Len(s) + Len(t) = k
<1> DEFINE a == Chunk(0, Len(s))
           b == Chunk(Len(s), Len(t))
<1>1. Len(s) \in Nat /\ Len(t) \in Nat
  OBVIOUS
<1>2. /\ Len(s \o t) = k
      /\ \A i \in 1..k : (s \o t)[i] = i
  BY ChunkFromStart
<1>3. Len(s) + Len(t) = k
  BY <1>2
<1>4. /\ a \in Seq(Nat) /\ Len(a) = Len(s) /\ \A i \in 1..Len(s) : a[i] = i
      /\ b \in Seq(Nat) /\ Len(b) = Len(t)
      /\ \A i \in 1..Len(t) : b[i] = Len(s) + i
  BY <1>1, ChunkType, ChunkFromStart
<1> HIDE DEF a, b
<1>5. \A i \in 1..Len(s) : s[i] = i
  <2>1. TAKE i \in 1..Len(s)
  <2>2. i \in 1..k /\ (s \o t)[i] = s[i]
    BY <1>1, <1>3
  <2> QED
    BY <2>2, <1>2
<1>6. \A i \in 1..Len(t) : t[i] = Len(s) + i
  <2>1. TAKE i \in 1..Len(t)
  <2>2. Len(s) + i \in 1..k /\ (s \o t)[Len(s) + i] = t[i]
    BY <1>1, <1>3
  <2> QED
    BY <2>2, <1>2
<1>7. s = a
  BY <1>4, <1>5, SameSeq
<1>8. t = b
  BY <1>4, <1>6, SameSeq
<1> QED
  BY <1>3, <1>7, <1>8 DEF a, b

(* Moving the first n elements of what is held to what is delivered        *)
(* changes nothing of the whole.                                           *)
LEMMA MovePrefix ==
  ASSUME NEW s \in Seq(Nat), NEW t \in Seq(Nat), NEW n \in 0..Len(t)
  PROVE  /\ SubSeq(t, 1, n) \in Seq(Nat)
         /\ SubSeq(t, n + 1, Len(t)) \in Seq(Nat)
         /\ Len(SubSeq(t, 1, n)) = n
         /\ Len(SubSeq(t, n + 1, Len(t))) = Len(t) - n
         /\ (s \o SubSeq(t, 1, n)) \o SubSeq(t, n + 1, Len(t)) = s \o t
<1> DEFINE a == SubSeq(t, 1, n)
           b == SubSeq(t, n + 1, Len(t))
<1>1. /\ a \in Seq(Nat) /\ Len(a) = n /\ \A i \in 1..n : a[i] = t[i]
  <2>1. /\ 1 \in Int /\ n \in Int
        /\ \A i \in 1..n : t[i] \in Nat
        /\ n - 1 + 1 = n /\ \A i \in 1..n : 1 + i - 1 = i
    OBVIOUS
  <2>2. /\ a \in Seq(Nat)
        /\ Len(a) = IF 1 <= n THEN n - 1 + 1 ELSE 0
        /\ \A i \in 1..(n - 1 + 1) : a[i] = t[1 + i - 1]
    BY <2>1, SubSeqProperties
  <2> QED
    BY <2>1, <2>2
<1>2. /\ b \in Seq(Nat) /\ Len(b) = Len(t) - n
      /\ \A i \in 1..(Len(t) - n) : b[i] = t[n + i]
  <2>1. /\ n + 1 \in Int /\ Len(t) \in Int
        /\ \A i \in (n + 1)..Len(t) : t[i] \in Nat
    OBVIOUS
  <2>2. /\ b \in Seq(Nat)
        /\ Len(b) = IF n + 1 <= Len(t) THEN Len(t) - (n + 1) + 1 ELSE 0
        /\ \A i \in 1..(Len(t) - (n + 1) + 1) : b[i] = t[n + 1 + i - 1]
    BY <2>1, SubSeqProperties
  <2>3. Len(b) = Len(t) - n
    BY <2>2
  <2>4. \A i \in 1..(Len(t) - n) : b[i] = t[n + i]
    <3>1. TAKE i \in 1..(Len(t) - n)
    <3>2. i \in 1..(Len(t) - (n + 1) + 1) /\ n + 1 + i - 1 = n + i
      OBVIOUS
    <3> QED
      BY <2>2, <3>2
  <2> QED
    BY <2>2, <2>3, <2>4
<1>3. n \in Nat /\ Len(t) \in Nat /\ n <= Len(t)
  OBVIOUS
<1> HIDE DEF a, b
<1>4. a \o b \in Seq(Nat) /\ Len(a \o b) = Len(t)
  <2>1. a \o b \in Seq(Nat) /\ Len(a \o b) = Len(a) + Len(b)
    <3>1. a \in Seq(Nat) /\ b \in Seq(Nat)
      BY <1>1, <1>2
    <3> QED
      BY <3>1, Concat
  <2> QED
    BY <2>1, <1>1, <1>2, <1>3
<1>5. a \o b = t
  <2>1. \A i \in 1..Len(t) : (a \o b)[i] = t[i]
    <3> SUFFICES ASSUME NEW i \in 1..Len(t)
                 PROVE  (a \o b)[i] = t[i]
      OBVIOUS
    <3>1. i <= n \/ i > n
      BY <1>3
    <3>2. CASE i <= n
      <4>1. i \in 1..n /\ i \in 1..Len(a) /\ a \in Seq(Nat) /\ b \in Seq(Nat)
        BY <3>2, <1>1, <1>2
      <4>2. (a \o b)[i] = a[i]
        BY <4>1, Concat
      <4> QED
        BY <4>1, <4>2, <1>1
    <3>3. CASE i > n
      <4>1. i - n \in 1..Len(b) /\ Len(a) + (i - n) = i /\ n + (i - n) = i
        BY <3>3, <1>1, <1>2, <1>3
      <4>2. (a \o b)[Len(a) + (i - n)] = b[i - n]
        <5>1. a \in Seq(Nat) /\ b \in Seq(Nat) /\ i - n \in 1..Len(b)
          BY <4>1, <1>1, <1>2
        <5> QED
          BY <5>1, Concat
      <4> QED
        BY <4>1, <4>2, <1>2
    <3> QED
      BY <3>1, <3>2, <3>3, <1>3
  <2> QED
    BY <1>4, <2>1, SameSeq
<1>6. (s \o a) \o b = s \o (a \o b)
  BY <1>1, <1>2, ConcatAssoc
<1> QED
  BY <1>1, <1>2, <1>5, <1>6 DEF a, b

(* The elements of the end of a sequence.                                  *)
LEMMA SuffixElements ==
  ASSUME NEW q \in Seq(Nat), NEW k \in 0..Len(q)
  PROVE  LET t == SubSeq(q, Len(q) - k + 1, Len(q))
         IN  /\ t \in Seq(Nat) /\ Len(t) = k
             /\ \A i \in 1..k : t[i] = q[Len(q) - k + i]
<1> DEFINE m == Len(q) - k
           t == SubSeq(q, m + 1, Len(q))
<1>1. m \in 0..Len(q) /\ Len(q) - m = k
  OBVIOUS
<1>2. t \in Seq(Nat) /\ Len(t) = Len(q) - m
  BY <1>1, MovePrefix
<1>3. \A i \in 1..(Len(q) - (m + 1) + 1) : t[i] = q[(m + 1) + i - 1]
  <2>1. /\ m + 1 \in Int /\ Len(q) \in Int
        /\ \A i \in (m + 1)..Len(q) : q[i] \in Nat
    BY <1>1
  <2> HIDE DEF m
  <2> QED
    BY <2>1, SubSeqProperties
<1>4. \A i \in 1..k : t[i] = q[m + i]
  <2>1. TAKE i \in 1..k
  <2>2. i \in 1..(Len(q) - (m + 1) + 1) /\ (m + 1) + i - 1 = m + i
    BY <1>1
  <2> QED
    BY <1>3, <2>2
<1> QED
  BY <1>1, <1>2, <1>4

(* What is left of a buffer after one more write is still its end.         *)
LEMMA SuffixOfSuffix ==
  ASSUME NEW q \in Seq(Nat), NEW t \in Seq(Nat), NEW n \in 0..Len(t),
         Len(t) <= Len(q), t = SubSeq(q, Len(q) - Len(t) + 1, Len(q))
  PROVE  LET b == SubSeq(t, n + 1, Len(t))
         IN  b = SubSeq(q, Len(q) - Len(b) + 1, Len(q))
<1> DEFINE k == Len(t) - n
           b == SubSeq(t, n + 1, Len(t))
           c == SubSeq(q, Len(q) - k + 1, Len(q))
<1>1. k \in 0..Len(t) /\ k \in 0..Len(q) /\ Len(t) - k + 1 = n + 1
  OBVIOUS
<1>2. \A i \in 1..Len(t) : t[i] = q[Len(q) - Len(t) + i]
  <2>1. Len(t) \in 0..Len(q)
    OBVIOUS
  <2> QED
    BY <2>1, SuffixElements
<1>3. b \in Seq(Nat) /\ Len(b) = k /\ \A i \in 1..k : b[i] = t[Len(t) - k + i]
  <2>1. b = SubSeq(t, Len(t) - k + 1, Len(t))
    BY <1>1
  <2> HIDE DEF b, k
  <2> QED
    BY <2>1, <1>1, SuffixElements
<1>4. c \in Seq(Nat) /\ Len(c) = k /\ \A i \in 1..k : c[i] = q[Len(q) - k + i]
  <2> HIDE DEF k
  <2> QED
    BY <1>1, SuffixElements
<1>5. \A i \in 1..k : b[i] = c[i]
  <2>1. TAKE i \in 1..k
  <2>2. n + i \in 1..Len(t) /\ Len(t) - k + i = n + i
        /\ Len(q) - Len(t) + (n + i) = Len(q) - k + i
    OBVIOUS
  <2> HIDE DEF b, c, k
  <2>3. b[i] = t[n + i] /\ c[i] = q[Len(q) - k + i]
    BY <1>3, <1>4, <2>2
  <2>4. t[n + i] = q[Len(q) - Len(t) + (n + i)]
    BY <1>2, <2>2
  <2> QED
    BY <2>2, <2>3, <2>4
<1>6. b = c
  <2> HIDE DEF b, c, k
  <2> QED
    BY <1>3, <1>4, <1>5, SameSeq
<1>7. Len(b) = k
  BY <1>3
<1> QED
  BY <1>6, <1>7
=============================================================================
