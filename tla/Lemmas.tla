------------------------------- MODULE Lemmas -------------------------------
(***************************************************************************)
(* Lemmas several proofs need: the order of numbers in a set, queues       *)
(* without repetitions, the hands of processes, and messages that move     *)
(* between such places.                                                    *)
(***************************************************************************)
EXTENDS Functions, FiniteSetTheorems, SequenceTheorems, WellFoundedInduction, TLAPS

---------------------------------------------------------------------------
(* Sets of numbers.                                                        *)

\* Every non-empty set of numbers has a smallest one: "ORDER BY id" yields it first.
LEMMA LeastId ==
    ASSUME NEW S, S \subseteq Nat, S # {}
    PROVE  \E i \in S : \A j \in S : i <= j
<1>1. PICK x \in S : \A y \in S : ~ (<<y, x>> \in OpToRel(<, Nat))
    BY NatLessThanWellFounded, WFMin
<1>2. \A y \in S : ~ (y < x)
    BY <1>1 DEF OpToRel
<1>3. \A y \in S : x <= y
    BY <1>2
<1> QED BY <1>3

\* A set of numbers below a bound has a largest one: the newest row of a table.
LEMMA GreatestId ==
    ASSUME NEW S, S \subseteq Nat, S # {}, NEW bound \in Nat, \A i \in S : i <= bound
    PROVE  \E i \in S : \A j \in S : j <= i
<1> DEFINE Above == {n \in Nat : \A i \in S : i <= n}
<1>1. PICK m \in Above : \A n \in Above : m <= n
    BY LeastId, bound \in Above
<1>2. CASE m \in S
    BY <1>1, <1>2
<1>3. CASE m \notin S
  <2>1. m # 0
    <3>1. PICK i \in S : TRUE
        OBVIOUS
    <3>2. i \in Nat /\ i <= m /\ i # m
        BY <1>1, <1>3, <3>1
    <3> QED BY <3>2
  <2>2. m - 1 \in Above
      BY <1>1, <1>3, <2>1
  <2> QED BY <1>1, <2>2
<1> QED BY <1>2, <1>3

\* A set of more than k numbers has one with exactly k smaller ones.
LEMMA NthId ==
    ASSUME NEW S, S \subseteq Nat, IsFiniteSet(S),
           NEW k \in Nat, k < Cardinality(S)
    PROVE  \E a \in S : Cardinality({b \in S : b < a}) = k
<1> DEFINE Below(a) == {b \in S : b < a}
           Ranked(n) == \E a \in S : Cardinality(Below(a)) = n
           Bad == {n \in Nat : n < Cardinality(S) /\ ~ Ranked(n)}
<1>1. Cardinality(S) \in Nat
    BY FS_CardinalityType
<1>2. ASSUME NEW n \in Nat, n < Cardinality(S), n = 0 PROVE Ranked(n)
  <2>1. S # {}
      BY <1>1, <1>2, FS_EmptySet
  <2>2. PICK m \in S : \A j \in S : m <= j
      BY <2>1, LeastId
  <2>3. Below(m) = {}
    <3>1. \A j \in S : ~ (j < m)
        BY <2>2
    <3> QED BY <3>1
  <2>4. Cardinality(Below(m)) = 0
      BY <2>3, FS_EmptySet
  <2> QED BY <2>4, <1>2
<1>3. ASSUME NEW n \in Nat, n < Cardinality(S), n # 0, Ranked(n - 1) PROVE Ranked(n)
  <2>1. PICK a \in S : Cardinality(Below(a)) = n - 1
      BY <1>3
  <2>2. IsFiniteSet(Below(a))
      BY FS_Subset, Below(a) \in SUBSET S
  <2>3. a \notin Below(a)
      OBVIOUS
  <2> DEFINE UpTo == Below(a) \cup {a}
             Above == {b \in S : a < b}
  <2>4. Cardinality(UpTo) = n
    <3>1. Cardinality(UpTo) = Cardinality(Below(a)) + 1
        BY <2>2, <2>3, FS_AddElement
    <3> QED BY <3>1, <2>1
  <2>5. \A x \in S : x \in UpTo \/ x \in Above
      OBVIOUS
  <2>6. Above # {}
    <3>1. SUFFICES ASSUME Above = {} PROVE FALSE
        OBVIOUS
    <3>2. S = UpTo
        BY <2>5, <3>1
    <3> QED BY <3>2, <2>4, <1>3
  <2>7. Above \subseteq Nat
      OBVIOUS
  <2> HIDE DEF Above
  <2>8. PICK m \in Above : \A j \in Above : m <= j
      BY <2>6, <2>7, LeastId
  <2> USE DEF Above
  <2>9. \A x \in S : x < m <=> x \in UpTo
      BY <2>8
  <2>10. Below(m) = UpTo
      BY <2>9
  <2> QED BY <2>4, <2>8, <2>10
<1>4. Bad = {}
  <2>1. SUFFICES ASSUME Bad # {} PROVE FALSE
      OBVIOUS
  <2>2. Bad \subseteq Nat
      OBVIOUS
  <2> HIDE DEF Bad
  <2>3. PICK n \in Bad : \A j \in Bad : n <= j
      BY <2>1, <2>2, LeastId
  <2> HIDE DEF Ranked
  <2>4. n \in Nat /\ n < Cardinality(S) /\ ~ Ranked(n)
      BY <2>3 DEF Bad
  <2>5. n # 0 /\ n - 1 \in Nat /\ n - 1 < Cardinality(S)
      BY <2>4, <1>1, <1>2
  <2>6. n - 1 \notin Bad
      BY <2>2, <2>3, <2>4, <2>5
  <2> QED BY <2>4, <2>5, <2>6, <1>3 DEF Bad
<1>5. Ranked(k)
    BY <1>4
<1> QED BY <1>5
---------------------------------------------------------------------------
(* Places.                                                                 *)

\* P gives every place the set of what is there; of M each is in one place.
InOnePlace(M, P) == \A x \in M : \E p \in DOMAIN P : \A q \in DOMAIN P : x \in P[q] <=> q = p

\* One element of place v goes to place w.
LEMMA MovePlace ==
    ASSUME NEW M, NEW P, NEW Q, NEW v \in DOMAIN P, NEW w \in DOMAIN P, v # w, NEW m \in P[v],
           DOMAIN Q = DOMAIN P,
           Q[v] = P[v] \ {m}, Q[w] = P[w] \cup {m},
           \A q \in DOMAIN P \ {v, w} : Q[q] = P[q],
           InOnePlace(M, P)
    PROVE  InOnePlace(M, Q)
<1> SUFFICES ASSUME NEW x \in M
             PROVE  \E p \in DOMAIN P : \A q \in DOMAIN P : x \in Q[q] <=> q = p
    BY DEF InOnePlace
<1>1. PICK p \in DOMAIN P : \A q \in DOMAIN P : x \in P[q] <=> q = p
      BY DEF InOnePlace
<1>2. CASE x = m
      BY <1>1, <1>2
<1>3. CASE x # m
      BY <1>1, <1>3
<1> QED
    BY <1>2, <1>3

\* A place that is a queue: something new is appended ...
LEMMA Appended ==
    ASSUME NEW S, NEW seq \in Seq(S), NEW x \in S, IsInjective(seq), x \notin Range(seq)
    PROVE  IsInjective(Append(seq, x)) /\ Range(Append(seq, x)) = Range(seq) \cup {x}
<1>1. /\ Append(seq, x) \in Seq(S) /\ Len(Append(seq, x)) = Len(seq) + 1
      /\ \A i \in 1..Len(seq) : Append(seq, x)[i] = seq[i]
      /\ Append(seq, x)[Len(seq) + 1] = x
      BY AppendProperties
<1>2. /\ DOMAIN seq = 1..Len(seq) /\ Len(seq) \in Nat
      /\ DOMAIN Append(seq, x) = 1..(Len(seq) + 1)
      BY <1>1
<1>3. IsInjective(Append(seq, x))
      BY <1>1, <1>2 DEF IsInjective, Range
<1>4. Range(Append(seq, x)) = Range(seq) \cup {x}
  <2>1. Range(seq) \subseteq Range(Append(seq, x))
        BY <1>1, <1>2 DEF Range
  <2>2. x \in Range(Append(seq, x))
        BY <1>1, <1>2 DEF Range
  <2>3. Range(Append(seq, x)) \subseteq Range(seq) \cup {x}
        BY <1>1, <1>2 DEF Range
  <2> QED
        BY <2>1, <2>2, <2>3
<1> QED
    BY <1>3, <1>4

\* ... and its head is taken off.
LEMMA TakenOut ==
    ASSUME NEW S, NEW seq \in Seq(S), seq # <<>>, IsInjective(seq)
    PROVE  /\ Head(seq) \in Range(seq)
           /\ IsInjective(Tail(seq)) /\ Range(Tail(seq)) = Range(seq) \ {Head(seq)}
<1>1. /\ Head(seq) = seq[1] /\ Tail(seq) \in Seq(S) /\ Len(Tail(seq)) = Len(seq) - 1
      /\ \A i \in 1..Len(Tail(seq)) : Tail(seq)[i] = seq[i + 1]
      BY HeadTailProperties
<1>2. /\ DOMAIN seq = 1..Len(seq) /\ Len(seq) \in Nat \ {0}
      /\ DOMAIN Tail(seq) = 1..(Len(seq) - 1)
      BY <1>1, EmptySeq
<1>3. Head(seq) \in Range(seq)
      BY <1>1, <1>2 DEF Range
<1>4. IsInjective(Tail(seq))
      BY <1>1, <1>2 DEF IsInjective
<1>5. Range(Tail(seq)) = Range(seq) \ {Head(seq)}
  <2>1. Range(Tail(seq)) \subseteq Range(seq) \ {Head(seq)}
        BY <1>1, <1>2 DEF Range, IsInjective
  <2>2. ASSUME NEW i \in 1..Len(seq), seq[i] # seq[1]
        PROVE  seq[i] \in Range(Tail(seq))
    <3>1. i - 1 \in 1..(Len(seq) - 1) /\ seq[i] = seq[(i - 1) + 1]
          BY <1>2, <2>2
    <3> QED
          BY <1>1, <1>2, <3>1 DEF Range
  <2>3. ASSUME NEW x \in Range(seq), x # seq[1]
        PROVE  x \in Range(Tail(seq))
    <3>1. PICK i \in 1..Len(seq) : seq[i] = x
          BY <1>2 DEF Range
    <3> QED
          BY <2>2, <2>3, <3>1
  <2> QED
        BY <1>1, <2>1, <2>3
<1> QED
    BY <1>3, <1>4, <1>5

\* ... or something new is put back in front of it.
LEMMA PutInFront ==
    ASSUME NEW S, NEW seq \in Seq(S), NEW x \in S, IsInjective(seq), x \notin Range(seq)
    PROVE  IsInjective(<<x>> \o seq) /\ Range(<<x>> \o seq) = Range(seq) \cup {x}
<1> DEFINE new == <<x>> \o seq
<1>1. /\ DOMAIN seq = 1..Len(seq) /\ Len(seq) \in Nat
      /\ DOMAIN new = 1..(Len(seq) + 1)
      /\ new[1] = x
      /\ \A i \in 2..(Len(seq) + 1) : new[i] = seq[i - 1]
      BY ConcatProperties
<1> HIDE DEF new
<1>2. \A i \in 2..(Len(seq) + 1) : i - 1 \in 1..Len(seq) /\ new[i] \in Range(seq)
      BY <1>1 DEF Range
<1>3. IsInjective(new)
  <2> SUFFICES ASSUME NEW i \in 1..(Len(seq) + 1), NEW j \in 1..(Len(seq) + 1), new[i] = new[j]
               PROVE  i = j
      BY <1>1 DEF IsInjective
  <2>1. CASE i = 1 \/ j = 1
      BY <1>1, <1>2, <2>1
  <2>2. CASE i # 1 /\ j # 1
    <3>1. i - 1 \in 1..Len(seq) /\ j - 1 \in 1..Len(seq) /\ seq[i - 1] = seq[j - 1]
        BY <1>1, <2>2
    <3>2. i - 1 = j - 1
        BY <1>1, <3>1 DEF IsInjective
    <3> QED BY <3>2
  <2> QED BY <2>1, <2>2
<1>4. Range(new) \subseteq Range(seq) \cup {x}
  <2> SUFFICES ASSUME NEW i \in 1..(Len(seq) + 1), new[i] # x
               PROVE  new[i] \in Range(seq)
      BY <1>1 DEF Range
  <2> QED BY <1>1, <1>2
<1>5. Range(seq) \cup {x} \subseteq Range(new)
  <2>1. ASSUME NEW i \in 1..Len(seq)
        PROVE  seq[i] \in Range(new)
    <3>1. i + 1 \in 2..(Len(seq) + 1) /\ (i + 1) - 1 = i
        BY <1>1
    <3>2. new[i + 1] = seq[i] /\ i + 1 \in DOMAIN new
        BY <1>1, <3>1
    <3> QED BY <3>2 DEF Range
  <2>2. x \in Range(new)
      BY <1>1 DEF Range
  <2>3. \A y \in Range(seq) : \E i \in 1..Len(seq) : y = seq[i]
      BY <1>1 DEF Range
  <2> QED BY <2>1, <2>2, <2>3
<1> QED
    BY <1>3, <1>4, <1>5 DEF new

\* A place that is a hand per process: one is filled.
LEMMA Filled ==
    ASSUME NEW S, NEW s \in S, NEW f, f = [t \in S |-> f[t]], NEW none, NEW m, f[s] = none, m # none
    PROVE  Range([f EXCEPT ![s] = m]) \ {none} = (Range(f) \ {none}) \cup {m}
BY DEF Range
=============================================================================
