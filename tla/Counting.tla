------------------------------- MODULE Counting -------------------------------
(***************************************************************************)
(* How many elements of a queue are in a set, and what an element that is  *)
(* put at its end or taken from its head does to that number.              *)
(***************************************************************************)
EXTENDS Integers, Sequences, FiniteSets, FiniteSetTheorems, SequenceTheorems, TLAPS

Positions(q, S) == {i \in DOMAIN q : q[i] \in S}
Count(q, S)     == Cardinality(Positions(q, S))
Bit(b)          == IF b THEN 1 ELSE 0

LEMMA CountType ==
    ASSUME NEW T, NEW q \in Seq(T), NEW S
    PROVE  /\ IsFiniteSet(Positions(q, S))
           /\ Count(q, S) \in Nat
           /\ Count(q, S) = 0 <=> \A i \in DOMAIN q : q[i] \notin S
<1>1. IsFiniteSet(1 .. Len(q)) /\ DOMAIN q = 1 .. Len(q)
      BY FS_Interval, LenProperties
<1>2. Positions(q, S) \in SUBSET (1 .. Len(q))
      BY <1>1 DEF Positions
<1>3. IsFiniteSet(Positions(q, S))
      BY <1>1, <1>2, FS_Subset
<1>4. Count(q, S) \in Nat
      BY <1>3, FS_CardinalityType DEF Count
<1>5. Count(q, S) = 0 <=> Positions(q, S) = {}
      BY <1>3, FS_EmptySet DEF Count
<1> QED BY <1>3, <1>4, <1>5 DEF Positions

LEMMA CountNone == ASSUME NEW S PROVE Count(<<>>, S) = 0
<1>1. Positions(<<>>, S) = {}
      BY DEF Positions
<1> QED BY <1>1, FS_EmptySet DEF Count

LEMMA CountAppend ==
    ASSUME NEW T, NEW q \in Seq(T), NEW m \in T, NEW S
    PROVE  Count(Append(q, m), S) = Count(q, S) + Bit(m \in S)
<1> DEFINE n == Len(q) + 1
<1>1. /\ DOMAIN Append(q, m) = 1 .. n /\ DOMAIN q = 1 .. Len(q) /\ Len(q) \in Nat
      /\ \A i \in 1 .. Len(q) : Append(q, m)[i] = q[i]
      /\ Append(q, m)[n] = m
      BY AppendProperties, LenProperties
<1>2. IsFiniteSet(Positions(q, S)) /\ n \notin Positions(q, S)
  <2>1. n \notin Positions(q, S)
        BY <1>1 DEF Positions
  <2> QED BY <2>1, CountType
<1>3. CASE m \in S
  <2>1. Positions(Append(q, m), S) = Positions(q, S) \cup {n}
        BY <1>1, <1>3 DEF Positions
  <2>2. Cardinality(Positions(q, S) \cup {n}) = Cardinality(Positions(q, S)) + 1
        BY <1>2, FS_AddElement
  <2>3. Count(Append(q, m), S) = Count(q, S) + 1
        BY <2>1, <2>2 DEF Count
  <2> QED BY <1>3, <2>3 DEF Bit
<1>4. CASE m \notin S
  <2>1. Positions(Append(q, m), S) = Positions(q, S)
        BY <1>1, <1>4 DEF Positions
  <2>2. Count(q, S) \in Nat
        BY CountType
  <2> QED BY <1>4, <2>1, <2>2 DEF Count, Bit
<1> QED BY <1>3, <1>4

LEMMA CountTail ==
    ASSUME NEW T, NEW q \in Seq(T), q # <<>>, NEW S
    PROVE  Count(q, S) = Count(Tail(q), S) + Bit(Head(q) \in S)
<1> DEFINE P == Positions(Tail(q), S)
           R == Positions(q, S) \ {1}
           f == [i \in P |-> i + 1]
<1>1. /\ Tail(q) \in Seq(T) /\ Len(q) \in Nat \ {0} /\ Len(Tail(q)) = Len(q) - 1
      /\ DOMAIN q = 1 .. Len(q) /\ DOMAIN Tail(q) = 1 .. Len(q) - 1
      /\ Head(q) = q[1]
      /\ \A i \in 1 .. Len(q) - 1 : Tail(q)[i] = q[i + 1]
  <2>1. Tail(q) \in Seq(T) /\ Len(Tail(q)) = Len(q) - 1 /\ Head(q) = q[1]
        BY HeadTailProperties
  <2>2. Len(q) \in Nat /\ Len(q) # 0
        BY LenProperties, EmptySeq
  <2> QED BY <2>1, <2>2, LenProperties
<1>2. P \subseteq 1 .. Len(q) - 1 /\ IsFiniteSet(P)
      BY <1>1, CountType DEF Positions
<1>3. \A j \in R : j - 1 \in P
      BY <1>1 DEF Positions
<1>4. f \in [P -> R]
      BY <1>1, <1>2 DEF Positions
<1>5. \A a, b \in P : f[a] = f[b] => a = b
      BY <1>2
<1>6. \A j \in R : \E i \in P : f[i] = j
  <2> SUFFICES ASSUME NEW j \in R PROVE \E i \in P : f[i] = j
      OBVIOUS
  <2>1. j \in Int /\ j - 1 \in P
        BY <1>1, <1>3 DEF Positions
  <2>2. f[j - 1] = j
        BY <2>1
  <2> QED BY <2>1, <2>2
<1>7. f \in Bijection(P, R)
      BY <1>4, <1>5, <1>6 DEF Bijection, Injection, Surjection, IsInjective
<1>8. Cardinality(R) = Cardinality(P)
      BY <1>2, <1>7, FS_Bijection DEF ExistsBijection
<1>9. /\ IsFiniteSet(Positions(q, S)) /\ Count(q, S) \in Nat
      /\ Count(Tail(q), S) \in Nat
      BY <1>1, CountType
<1>10. 1 \in Positions(q, S) <=> Head(q) \in S
      BY <1>1 DEF Positions
<1>11. Cardinality(R) = IF 1 \in Positions(q, S) THEN Cardinality(Positions(q, S)) - 1
                        ELSE Cardinality(Positions(q, S))
      BY <1>9, FS_RemoveElement
<1>12. Cardinality(P) = Count(Tail(q), S) /\ Cardinality(Positions(q, S)) = Count(q, S)
      BY DEF Count
<1> QED BY <1>8, <1>9, <1>10, <1>11, <1>12 DEF Bit

LEMMA CountConcat ==
    ASSUME NEW T, NEW q \in Seq(T), NEW r \in Seq(T), NEW S
    PROVE  Count(q \o r, S) = Count(q, S) + Count(r, S)
<1> DEFINE n == Len(q)
           P == Positions(q, S)
           R == Positions(r, S)
           F == Positions(q \o r, S) \ P
           f == [i \in R |-> n + i]
<1>1. /\ n \in Nat /\ Len(r) \in Nat /\ DOMAIN q = 1 .. n /\ DOMAIN r = 1 .. Len(r)
      /\ q \o r \in Seq(T) /\ DOMAIN (q \o r) = 1 .. n + Len(r)
      /\ \A i \in 1 .. n + Len(r) : (q \o r)[i] = IF i <= n THEN q[i] ELSE r[i - n]
  <2>1. q \o r \in Seq(T) /\ Len(q \o r) = n + Len(r)
        BY ConcatProperties
  <2> QED BY <2>1, ConcatProperties, LenProperties
<1>2. /\ P \subseteq 1 .. n /\ R \subseteq 1 .. Len(r)
      /\ \A i \in 1 .. n : i \in Positions(q \o r, S) <=> i \in P
      BY <1>1 DEF Positions
<1>3. P \subseteq Positions(q \o r, S)
      BY <1>2
<1>4. \A j \in F : j \in Int /\ j - n \in R
      BY <1>1, <1>2 DEF Positions
<1>5. \A i \in R : n + i \in F
      BY <1>1, <1>2 DEF Positions
<1>6. f \in [R -> F]
      BY <1>5
<1>7. \A a, b \in R : f[a] = f[b] => a = b
      BY <1>1, <1>2
<1>8. ASSUME NEW j \in F PROVE \E i \in R : f[i] = j
  <2>1. j \in Int /\ j - n \in R /\ n \in Nat
        BY <1>1, <1>4
  <2>2. f[j - n] = n + (j - n)
        BY <2>1
  <2> QED BY <2>1, <2>2
<1>9. f \in Bijection(R, F)
      BY <1>6, <1>7, <1>8 DEF Bijection, Injection, Surjection, IsInjective
<1>10. /\ IsFiniteSet(Positions(q \o r, S)) /\ IsFiniteSet(P) /\ IsFiniteSet(R)
       /\ Count(q, S) \in Nat /\ Count(r, S) \in Nat
       BY <1>1, CountType
<1>11. IsFiniteSet(F) /\ Cardinality(F) = Cardinality(R)
       BY <1>9, <1>10, FS_Bijection DEF ExistsBijection
<1>12. /\ Positions(q \o r, S) = P \cup F /\ P \cap F = {}
       BY <1>3
<1>13. Cardinality(Positions(q \o r, S)) = Cardinality(P) + Cardinality(F) - Cardinality({})
       BY <1>10, <1>11, <1>12, FS_Union
<1>14. Cardinality({}) = 0 /\ Cardinality(P) = Count(q, S) /\ Cardinality(R) = Count(r, S)
       BY FS_EmptySet DEF Count
<1> QED BY <1>10, <1>11, <1>13, <1>14 DEF Count

=============================================================================
