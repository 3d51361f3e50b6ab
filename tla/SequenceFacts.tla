--------------------------- MODULE SequenceFacts ---------------------------
(* Facts about operators on sequences that the proofs about queues, streams    *)
(* and lists of boxes rest on: what the operators do to the set of elements,   *)
(* and what FlattenSeq of SequencesExt computes for every list of rows.  Its   *)
(* recursion is resolved once, by induction on the number of rows.  How often  *)
(* an element occurs in lists put together is counted by its places.           *)
EXTENDS SequencesExt, SequenceTheorems, FiniteSetTheorems, WellFoundedInduction, TLAPS

-----------------------------------------------------------------------------
(* The elements of a sequence *)

(* Taking the head off a queue brings nothing new into it. *)
LEMMA RangeTail ==
  ASSUME NEW S, NEW s \in Seq(S), s # <<>>
  PROVE  /\ Tail(s) \in Seq(S) /\ Range(Tail(s)) \subseteq Range(s)
         /\ Head(s) \in S /\ Head(s) \in Range(s)
<1>1. /\ Tail(s) \in Seq(S) /\ Len(Tail(s)) = Len(s) - 1
      /\ \A i \in 1..Len(Tail(s)) : Tail(s)[i] = s[i + 1]
  BY HeadTailProperties
<1>2. Len(s) \in Nat \ {0} /\ Head(s) = s[1] /\ 1 \in 1..Len(s) /\ s[1] \in S
  BY EmptySeq
<1>3. \A i \in 1..Len(Tail(s)) : i + 1 \in 1..Len(s)
  BY <1>1, <1>2
<1>4. /\ Range(s) = {s[i] : i \in 1..Len(s)}
      /\ Range(Tail(s)) = {Tail(s)[i] : i \in 1..Len(Tail(s))}
  BY <1>1, RangeEquality
<1> QED
  BY <1>1, <1>2, <1>3, <1>4

(* A list that is not empty is its head and its tail. *)
LEMMA RangeHeadTail ==
  ASSUME NEW S, NEW s \in Seq(S), s # <<>>
  PROVE  Range(s) = {Head(s)} \cup Range(Tail(s))
<1>1. PICK n \in Nat \ {0} : n = Len(s)
  BY EmptySeq
<1>2. PICK t \in Seq(S) : t = Tail(s)
  BY HeadTailProperties
<1>3. Len(t) = n - 1 /\ \A i \in 1..(n - 1) : t[i] = s[i + 1]
  BY <1>1, <1>2, HeadTailProperties
<1>4. Head(s) = s[1]
  OBVIOUS
<1>5. /\ Range(s) = {s[i] : i \in 1..n} /\ Range(t) = {t[i] : i \in 1..(n - 1)}
  <2>1. Range(s) = {s[i] : i \in 1..Len(s)} /\ Range(t) = {t[i] : i \in 1..Len(t)}
    BY RangeEquality
  <2> QED
    BY <1>1, <1>3, <2>1
<1>6. \A i \in 1..n : i = 1 \/ (i - 1 \in 1..(n - 1) /\ t[i - 1] = s[i])
  BY <1>1, <1>3
<1>7. \A i \in 1..(n - 1) : i + 1 \in 1..n /\ t[i] = s[i + 1]
  BY <1>1, <1>3
<1>8. 1 \in 1..n
  BY <1>1
<1> DEFINE R == Range(s) Q == Range(t)
<1>9. R = {s[1]} \cup Q
  <2>1. \A x \in R : x = s[1] \/ x \in Q
    BY <1>5, <1>6
  <2>2. \A x \in Q : x \in R
    BY <1>5, <1>7
  <2>3. s[1] \in R
    BY <1>5, <1>8
  <2> HIDE DEF R, Q
  <2> QED
    BY <2>1, <2>2, <2>3
<1> QED
  BY <1>2, <1>4, <1>9

(* Appending adds the one element. *)
LEMMA RangeAppend ==
  ASSUME NEW S, NEW s \in Seq(S), NEW e \in S
  PROVE  Append(s, e) \in Seq(S) /\ Range(Append(s, e)) = Range(s) \cup {e}
<1>1. /\ Append(s, e) \in Seq(S) /\ Len(Append(s, e)) = Len(s) + 1
      /\ \A i \in 1..Len(s) : Append(s, e)[i] = s[i]
      /\ Append(s, e)[Len(s) + 1] = e /\ Len(s) \in Nat
  BY AppendProperties, LenProperties
<1>2. /\ Range(s) = {s[i] : i \in 1..Len(s)}
      /\ Range(Append(s, e)) = {Append(s, e)[i] : i \in 1..Len(Append(s, e))}
  BY <1>1, RangeEquality
<1>3. \A i : i \in 1..(Len(s) + 1) <=> i \in 1..Len(s) \/ i = Len(s) + 1
  BY <1>1
<1> QED
  BY <1>1, <1>2, <1>3

(* A piece of a stream holds only what the stream holds. *)
LEMMA RangeSubSeq ==
  ASSUME NEW S, NEW s \in Seq(S), NEW m \in 1..(Len(s) + 1), NEW n \in 0..Len(s)
  PROVE  SubSeq(s, m, n) \in Seq(S) /\ Range(SubSeq(s, m, n)) \subseteq Range(s)
<1>1. Len(s) \in Nat /\ \A i \in 1..Len(s) : s[i] \in S
  BY LenProperties, ElementOfSeq
<1>2. \A i \in m..n : i \in 1..Len(s)
  BY <1>1
<1>3. /\ SubSeq(s, m, n) \in Seq(S)
      /\ Len(SubSeq(s, m, n)) = IF m <= n THEN n - m + 1 ELSE 0
      /\ \A i \in 1..(n - m + 1) : SubSeq(s, m, n)[i] = s[m + i - 1]
  BY <1>1, <1>2, SubSeqProperties
<1>4. \A i \in 1..Len(SubSeq(s, m, n)) :
        i \in 1..(n - m + 1) /\ m + i - 1 \in 1..Len(s)
  BY <1>1, <1>3
<1>5. /\ Range(s) = {s[i] : i \in 1..Len(s)}
      /\ Range(SubSeq(s, m, n)) = {SubSeq(s, m, n)[i] : i \in 1..Len(SubSeq(s, m, n))}
  BY <1>3, RangeEquality
<1> QED
  BY <1>3, <1>4, <1>5

(* Two streams one after the other hold what both hold. *)
LEMMA RangeConcat ==
  ASSUME NEW S, NEW s \in Seq(S), NEW t \in Seq(S)
  PROVE  s \o t \in Seq(S) /\ Range(s \o t) = Range(s) \cup Range(t)
  BY ConcatProperties, RangeConcatenation

(* The empty list has no elements. *)
LEMMA RangeEmpty == Range(<<>>) = {} /\ \A S : <<>> \in Seq(S)
  BY DEF Range

-----------------------------------------------------------------------------
(* Induction, and rows put together *)

(* The order of the natural numbers is well-founded. *)
LEMMA LeastElement ==
  ASSUME NEW T \in SUBSET Nat, T # {}
  PROVE  \E n \in T : \A m \in T : n <= m
<1> DEFINE R == OpToRel(<, Nat)
<1>1. IsWellFoundedOn(R, Nat)
  BY NatLessThanWellFounded
<1>2. \A x, y \in Nat : y < x => <<y, x>> \in R
  BY DEF OpToRel
<1> HIDE DEF R
<1>3. PICK x \in T : \A y \in T : ~(<<y, x>> \in R)
  BY <1>1, WFMin
<1>4. ASSUME NEW m \in T
      PROVE  x <= m
  <2>1. ~(m < x)
    BY <1>2, <1>3
  <2> QED
    BY <2>1
<1> QED
  BY <1>4

(* Induction, for a set of numbers. *)
LEMMA SetInduction ==
  ASSUME NEW T, 0 \in T, \A n \in Nat : n \in T => n + 1 \in T
  PROVE  \A n \in Nat : n \in T
<1> DEFINE U == {n \in Nat : n \notin T}
<1> SUFFICES ASSUME U # {} PROVE FALSE
  OBVIOUS
<1>1. PICK n \in U : \A m \in U : n <= m
  BY LeastElement
<1>2. n # 0 /\ n \in Nat /\ n - 1 \in Nat
  BY <1>1
<1>3. n - 1 \in T
  BY <1>1, <1>2
<1> QED
  BY <1>1, <1>2, <1>3

(* One step of the recursion flattening is made of. *)
FlattenStep(q, f, i) == IF i = 1 THEN q[i] ELSE f[i - 1] \o q[i]
Flattens(q, f, n) == f = [i \in 1..n |-> FlattenStep(q, f, i)]

(* FlattenSeq is the last value of its recursive function. *)
LEMMA FlattenDef ==
  ASSUME NEW q, Len(q) # 0
  PROVE  FlattenSeq(q) = (CHOOSE f : Flattens(q, f, Len(q)))[Len(q)]
  BY Zenon DEF FlattenSeq, Flattens, FlattenStep

(* A function solves the recursion exactly if each of its values does. *)
LEMMA FlattensPointwise ==
  ASSUME NEW q, NEW f, NEW n
  PROVE  Flattens(q, f, n)
           <=> /\ f = [i \in 1..n |-> f[i]]
               /\ \A i \in 1..n : f[i] = FlattenStep(q, f, i)
<1> DEFINE h == [i \in 1..n |-> FlattenStep(q, f, i)]
<1>1. DOMAIN h = 1..n /\ \A i \in 1..n : h[i] = FlattenStep(q, f, i)
  OBVIOUS
<1>2. h = [i \in 1..n |-> h[i]]
  OBVIOUS
<1>3. Flattens(q, f, n) <=> f = h
  BY DEF Flattens
<1> HIDE DEF h
<1> QED
  BY <1>1, <1>2, <1>3

(* The recursion has a solution, whatever the rows are. *)
LEMMA FlatteningExists ==
  ASSUME NEW q, NEW n \in Nat
  PROVE  \E f : Flattens(q, f, n)
<1> DEFINE T == {m \in Nat : \E f : Flattens(q, f, m)}
<1>1. 0 \in T
  <2>1. <<>> = [i \in 1..0 |-> <<>>[i]]
    OBVIOUS
  <2>2. \A i \in 1..0 : <<>>[i] = FlattenStep(q, <<>>, i)
    <3>1. 1..0 = {}
      OBVIOUS
    <3> QED
      BY <3>1
  <2>3. Flattens(q, <<>>, 0)
    BY <2>1, <2>2, FlattensPointwise
  <2> QED
    BY <2>3
<1>2. ASSUME NEW m \in Nat, m \in T
      PROVE  m + 1 \in T
  <2>1. PICK f : Flattens(q, f, m)
    BY <1>2
  <2>2. \A i \in 1..m : f[i] = FlattenStep(q, f, i)
    BY <2>1, FlattensPointwise
  <2> DEFINE g == [i \in 1..(m + 1) |-> IF i <= m THEN f[i] ELSE FlattenStep(q, f, i)]
  <2>3. \A i \in 1..(m + 1) : g[i] = FlattenStep(q, f, i)
    BY <2>2
  <2>4. \A i \in 1..m : g[i] = f[i]
    OBVIOUS
  <2>5. g = [i \in 1..(m + 1) |-> g[i]]
    OBVIOUS
  <2> HIDE DEF g
  <2>6. \A i \in 1..(m + 1) : g[i] = FlattenStep(q, g, i)
    BY <2>3, <2>4 DEF FlattenStep
  <2>7. Flattens(q, g, m + 1)
    BY <2>5, <2>6, FlattensPointwise
  <2> QED
    BY <2>7
<1> HIDE DEF T
<1>3. n \in T
  BY <1>1, <1>2, SetInduction
<1> QED
  BY <1>3 DEF T

(* One row more does not change what the rows before it are flattened to. *)
LEMMA FlatteningAgrees ==
  ASSUME NEW n \in Nat, NEW q, NEW r, NEW f, NEW g,
         \A i \in 1..n : q[i] = r[i],
         Flattens(q, f, n), Flattens(r, g, n + 1)
  PROVE  \A i \in 1..n : f[i] = g[i]
<1> DEFINE T == {i \in Nat : i \in 1..n => f[i] = g[i]}
<1>1. \A i \in 1..n : f[i] = FlattenStep(q, f, i)
  BY FlattensPointwise
<1>2. \A i \in 1..(n + 1) : g[i] = FlattenStep(r, g, i)
  BY FlattensPointwise
<1>3. ASSUME NEW i \in Nat, i \in T
      PROVE  i + 1 \in T
  <2> SUFFICES ASSUME i + 1 \in 1..n PROVE f[i + 1] = g[i + 1]
    OBVIOUS
  <2>1. i + 1 \in 1..(n + 1) /\ (i # 0 => i \in 1..n)
    OBVIOUS
  <2>2. i # 0 => f[i] = g[i]
    BY <1>3, <2>1
  <2> QED
    BY <1>1, <1>2, <2>1, <2>2 DEF FlattenStep
<1>4. 0 \in T
  OBVIOUS
<1> HIDE DEF T
<1>5. \A i \in Nat : i \in T
  BY <1>3, <1>4, SetInduction
<1> QED
  BY <1>5 DEF T

(* The last row of a list of rows is what flattening adds at the end. *)
LEMMA FlattenAppend ==
  ASSUME NEW S, NEW q \in Seq(Seq(S)), NEW s \in Seq(S)
  PROVE  FlattenSeq(Append(q, s)) = FlattenSeq(q) \o s
<1> DEFINE r == Append(q, s)
           n == Len(q)
<1>1. /\ n \in Nat /\ n + 1 \in Nat /\ n <= n + 1 /\ n + 1 # 0
      /\ Len(r) = n + 1 /\ r[n + 1] = s /\ \A i \in 1..n : q[i] = r[i]
  OBVIOUS
<1>1a. n = 0 => q = <<>>
  BY EmptySeq
<1> HIDE DEF r, n
<1>2. PICK g : Flattens(r, g, n + 1) /\ FlattenSeq(r) = g[n + 1]
  <2>1. \E g : Flattens(r, g, n + 1)
    BY <1>1, FlatteningExists
  <2>2. FlattenSeq(r) = (CHOOSE f : Flattens(r, f, n + 1))[n + 1]
    BY <1>1, FlattenDef
  <2> QED
    BY <2>1, <2>2
<1>3. g[n + 1] = FlattenStep(r, g, n + 1)
  BY <1>1, <1>2, FlattensPointwise
<1>4. CASE n = 0
  <2>1. q = <<>>
    BY <1>4, <1>1a
  <2>2. FlattenSeq(q) = <<>> /\ <<>> \o s = s
    BY <2>1 DEF FlattenSeq
  <2> QED
    BY <1>1, <1>2, <1>3, <1>4, <2>2 DEF FlattenStep, r
<1>5. CASE n # 0
  <2>1. PICK f : Flattens(q, f, n) /\ FlattenSeq(q) = f[n]
    <3>1. \E f : Flattens(q, f, n)
      BY <1>1, FlatteningExists
    <3>2. FlattenSeq(q) = (CHOOSE f : Flattens(q, f, n))[n]
      BY <1>1, <1>5, FlattenDef DEF n
    <3> QED
      BY <3>1, <3>2
  <2>2. \A i \in 1..n : f[i] = g[i]
    BY <1>1, <1>2, <1>5, <2>1, FlatteningAgrees
  <2>3. n \in 1..n /\ n + 1 # 1 /\ (n + 1) - 1 = n
    BY <1>1, <1>5
  <2>4. g[n + 1] = g[n] \o s
    BY <1>1, <1>3, <2>3 DEF FlattenStep
  <2> QED
    BY <1>2, <2>1, <2>2, <2>3, <2>4 DEF r
<1> QED
  BY <1>4, <1>5

(* No rows leave nothing. *)
LEMMA FlattenNothing == FlattenSeq(<<>>) = <<>>
  BY DEF FlattenSeq

(* Each list of first rows is the one before it and one row more. *)
LEMMA PrefixSplits ==
  ASSUME NEW S, NEW q \in Seq(S), NEW n \in Nat, n + 1 <= Len(q)
  PROVE  /\ SubSeq(q, 1, n) \in Seq(S) /\ Len(SubSeq(q, 1, n)) = n
         /\ \A i \in 1..n : SubSeq(q, 1, n)[i] = q[i]
         /\ SubSeq(q, 1, n + 1) = Append(SubSeq(q, 1, n), q[n + 1]) /\ q[n + 1] \in S
<1>1. /\ SubSeq(q, 1, n) \in Seq(S) /\ Len(SubSeq(q, 1, n)) = n
      /\ \A i \in 1..n : SubSeq(q, 1, n)[i] = q[i]
  OBVIOUS
<1>2. /\ SubSeq(q, 1, n + 1) \in Seq(S) /\ Len(SubSeq(q, 1, n + 1)) = n + 1
      /\ \A i \in 1..(n + 1) : SubSeq(q, 1, n + 1)[i] = q[i]
      /\ q[n + 1] \in S
  OBVIOUS
<1> DEFINE a == SubSeq(q, 1, n) b == SubSeq(q, 1, n + 1)
<1> HIDE DEF a, b
<1>3. b = Append(a, q[n + 1])
  <2>1. /\ Append(a, q[n + 1]) \in Seq(S) /\ Len(Append(a, q[n + 1])) = n + 1
        /\ \A i \in 1..(n + 1) : Append(a, q[n + 1])[i] = b[i]
    BY <1>1, <1>2, AppendProperties DEF a, b
  <2> QED
    BY <1>2, <2>1, SeqEqual DEF b
<1> QED
  BY <1>1, <1>2, <1>3 DEF a, b

(* The type of what the first rows are flattened to. *)
LEMMA FlattenPrefix ==
  ASSUME NEW S, NEW q \in Seq(Seq(S)), NEW n \in 0..Len(q)
  PROVE  FlattenSeq(SubSeq(q, 1, n)) \in Seq(S)
<1> DEFINE T == {m \in Nat : m <= Len(q) => FlattenSeq(SubSeq(q, 1, m)) \in Seq(S)}
<1>1. 0 \in T
  <2>1. SubSeq(q, 1, 0) = <<>>
    OBVIOUS
  <2>2. <<>> \in Seq(S)
    OBVIOUS
  <2> QED
    BY <2>1, <2>2, FlattenNothing
<1>2. ASSUME NEW m \in Nat, m \in T
      PROVE  m + 1 \in T
  <2> SUFFICES ASSUME m + 1 <= Len(q) PROVE FlattenSeq(SubSeq(q, 1, m + 1)) \in Seq(S)
    OBVIOUS
  <2>1. /\ SubSeq(q, 1, m) \in Seq(Seq(S)) /\ q[m + 1] \in Seq(S)
        /\ SubSeq(q, 1, m + 1) = Append(SubSeq(q, 1, m), q[m + 1])
    BY PrefixSplits
  <2>2. FlattenSeq(SubSeq(q, 1, m + 1)) = FlattenSeq(SubSeq(q, 1, m)) \o q[m + 1]
    BY <2>1, FlattenAppend
  <2>3. m <= Len(q)
    OBVIOUS
  <2>4. FlattenSeq(SubSeq(q, 1, m)) \in Seq(S)
    BY <1>2, <2>3
  <2>5. FlattenSeq(SubSeq(q, 1, m)) \o q[m + 1] \in Seq(S)
    BY <2>1, <2>4, ConcatProperties
  <2> QED
    BY <2>2, <2>5
<1> HIDE DEF T
<1>3. \A x \in Nat : x \in T
  BY ONLY <1>1, <1>2, SetInduction
<1>4. n \in Nat /\ n <= Len(q)
  OBVIOUS
<1> QED
  BY <1>3, <1>4 DEF T

(* What is flattened has the type of its rows. *)
LEMMA FlattenType ==
  ASSUME NEW S, NEW q \in Seq(Seq(S))
  PROVE  FlattenSeq(q) \in Seq(S)
<1>1. SubSeq(q, 1, Len(q)) = q /\ Len(q) \in 0..Len(q)
  OBVIOUS
<1> QED
  BY <1>1, FlattenPrefix

(* A row stands in one piece, behind the first o elements of the whole. *)
StandsAt(row, whole, o) ==
  /\ o + Len(row) <= Len(whole)
  /\ \A j \in 1..Len(row) : whole[o + j] = row[j]

(* The whole is made of its first n rows: each stands somewhere, and each place *)
(* belongs to one of them.                                                      *)
MadeOf(whole, q, n) ==
  /\ \A i \in 1..n : \E o \in Nat : StandsAt(q[i], whole, o)
  /\ \A e \in 1..Len(whole) : \E i \in 1..n : \E o \in Nat :
       StandsAt(q[i], whole, o) /\ o + 1 <= e /\ e <= o + Len(q[i])

(* The first rows are made of themselves and of nothing else. *)
LEMMA FlattenPrefixParts ==
  ASSUME NEW S, NEW q \in Seq(Seq(S)), NEW m \in 0..Len(q)
  PROVE  MadeOf(FlattenSeq(SubSeq(q, 1, m)), q, m)
<1> DEFINE F(n) == FlattenSeq(SubSeq(q, 1, n))
           T == {n \in Nat : n <= Len(q) => MadeOf(F(n), q, n)}
<1>1. 0 \in T
  <2>1. SubSeq(q, 1, 0) = <<>>
    OBVIOUS
  <2>2. F(0) = <<>>
    BY <2>1, FlattenNothing
  <2>3. Len(F(0)) = 0 /\ 1..0 = {}
    BY <2>2
  <2> QED
    BY <2>3 DEF MadeOf
<1>2. ASSUME NEW n \in Nat, n \in T
      PROVE  n + 1 \in T
  <2> SUFFICES ASSUME n + 1 <= Len(q)
               PROVE  MadeOf(F(n + 1), q, n + 1)
    OBVIOUS
  <2>1. /\ SubSeq(q, 1, n) \in Seq(Seq(S)) /\ q[n + 1] \in Seq(S)
        /\ SubSeq(q, 1, n + 1) = Append(SubSeq(q, 1, n), q[n + 1])
    BY PrefixSplits
  <2>2. F(n + 1) = F(n) \o q[n + 1]
    BY <2>1, FlattenAppend
  <2>3. F(n) \in Seq(S)
    BY FlattenPrefix
  <2>4. MadeOf(F(n), q, n)
    <3>1. n <= Len(q)
      OBVIOUS
    <3> HIDE DEF F
    <3> QED
      BY <1>2, <3>1
  <2>5. \A i \in 1..n : q[i] \in Seq(S) /\ Len(q[i]) \in Nat
    OBVIOUS
  <2> HIDE DEF F
  <2>6. /\ Len(F(n)) \in Nat /\ Len(q[n + 1]) \in Nat
        /\ Len(F(n + 1)) = Len(F(n)) + Len(q[n + 1])
        /\ \A j \in 1..Len(F(n)) : F(n + 1)[j] = F(n)[j]
        /\ \A j \in 1..Len(q[n + 1]) : F(n + 1)[Len(F(n)) + j] = q[n + 1][j]
    BY <2>1, <2>2, <2>3, ConcatProperties
  <2>7. StandsAt(q[n + 1], F(n + 1), Len(F(n)))
    BY <2>6 DEF StandsAt
  <2>8. ASSUME NEW i \in 1..n, NEW o \in Nat, StandsAt(q[i], F(n), o)
        PROVE  StandsAt(q[i], F(n + 1), o)
    <3>1. \A j \in 1..Len(q[i]) : o + j \in 1..Len(F(n))
      BY <2>5, <2>6, <2>8 DEF StandsAt
    <3>2. o + Len(q[i]) <= Len(F(n + 1))
      BY <2>5, <2>6, <2>8 DEF StandsAt
    <3> QED
      BY <2>6, <2>8, <3>1, <3>2 DEF StandsAt
  <2>9. ASSUME NEW i \in 1..(n + 1)
        PROVE  \E o \in Nat : StandsAt(q[i], F(n + 1), o)
    <3>1. CASE i = n + 1
      BY <2>6, <2>7, <3>1
    <3>2. CASE i # n + 1
      <4>1. i \in 1..n
        BY <3>2
      <4> QED
        BY <2>4, <2>8, <4>1 DEF MadeOf
    <3> QED
      BY <3>1, <3>2
  <2>10. ASSUME NEW e \in 1..Len(F(n + 1))
         PROVE  \E i \in 1..(n + 1) : \E o \in Nat :
                  StandsAt(q[i], F(n + 1), o) /\ o + 1 <= e /\ e <= o + Len(q[i])
    <3>1. CASE e \in 1..Len(F(n))
      <4>1. PICK i \in 1..n, o \in Nat :
              StandsAt(q[i], F(n), o) /\ o + 1 <= e /\ e <= o + Len(q[i])
        BY <2>4, <3>1 DEF MadeOf
      <4>2. i \in 1..(n + 1) /\ StandsAt(q[i], F(n + 1), o)
        BY <2>8, <4>1
      <4> QED
        BY <4>1, <4>2
    <3>2. CASE e \notin 1..Len(F(n))
      <4>1. Len(F(n)) + 1 <= e /\ e <= Len(F(n)) + Len(q[n + 1]) /\ n + 1 \in 1..(n + 1)
        BY <2>6, <3>2
      <4> QED
        BY <2>6, <2>7, <4>1
    <3> QED
      BY <3>1, <3>2
  <2> QED
    BY <2>9, <2>10 DEF MadeOf
<1> HIDE DEF T
<1>3. \A x \in Nat : x \in T
  BY ONLY <1>1, <1>2, SetInduction
<1>4. m \in Nat /\ m <= Len(q)
  OBVIOUS
<1> QED
  BY <1>3, <1>4 DEF T

(* Each row stands in one piece in the whole. *)
LEMMA FlattenKeepsRows ==
  ASSUME NEW S, NEW q \in Seq(Seq(S))
  PROVE  MadeOf(FlattenSeq(q), q, Len(q))
<1>1. SubSeq(q, 1, Len(q)) = q /\ Len(q) \in 0..Len(q)
  OBVIOUS
<1>2. MadeOf(FlattenSeq(SubSeq(q, 1, Len(q))), q, Len(q))
  BY <1>1, FlattenPrefixParts
<1> QED
  BY <1>1, <1>2

(* The whole holds what the rows hold. *)
LEMMA FlattenRange ==
  ASSUME NEW S, NEW q \in Seq(Seq(S))
  PROVE  /\ \A i \in 1..Len(q) : Range(q[i]) \subseteq Range(FlattenSeq(q))
         /\ \A e \in Range(FlattenSeq(q)) : \E i \in 1..Len(q) : e \in Range(q[i])
<1> DEFINE F == FlattenSeq(q)
<1>1. F \in Seq(S) /\ \A i \in 1..Len(q) : q[i] \in Seq(S)
  BY FlattenType
<1>2. MadeOf(F, q, Len(q))
  BY FlattenKeepsRows
<1> HIDE DEF F
<1>3. /\ Range(F) = {F[e] : e \in 1..Len(F)} /\ Len(F) \in Nat
      /\ \A i \in 1..Len(q) : Range(q[i]) = {q[i][j] : j \in 1..Len(q[i])} /\ Len(q[i]) \in Nat
  BY <1>1, RangeEquality, LenProperties
<1>4. ASSUME NEW i \in 1..Len(q), NEW j \in 1..Len(q[i])
      PROVE  q[i][j] \in Range(F)
  <2>1. PICK o \in Nat : StandsAt(q[i], F, o)
    BY <1>2 DEF MadeOf
  <2>2. o + j \in 1..Len(F)
    BY <1>3, <2>1 DEF StandsAt
  <2>3. F[o + j] \in Range(F)
    BY <1>3, <2>2
  <2> QED
    BY <2>1, <2>3 DEF StandsAt
<1>5. ASSUME NEW i \in 1..Len(q), NEW x \in Range(q[i])
      PROVE  x \in Range(F)
  <2>1. PICK j \in 1..Len(q[i]) : x = q[i][j]
    BY <1>3
  <2> QED
    BY <1>4, <2>1
<1>6. ASSUME NEW e \in 1..Len(F)
      PROVE  \E i \in 1..Len(q) : F[e] \in Range(q[i])
  <2>1. PICK i \in 1..Len(q), o \in Nat :
          StandsAt(q[i], F, o) /\ o + 1 <= e /\ e <= o + Len(q[i])
    BY <1>2 DEF MadeOf
  <2>2. e - o \in 1..Len(q[i]) /\ o + (e - o) = e
    BY <1>3, <2>1
  <2>3. F[e] = q[i][e - o]
    BY <2>1, <2>2 DEF StandsAt
  <2> QED
    BY <1>3, <2>2, <2>3
<1>7. \A e \in Range(F) : \E i \in 1..Len(q) : e \in Range(q[i])
  BY <1>3, <1>6
<1> QED
  BY <1>5, <1>7 DEF F

(* The first rows hold no more than all of them. *)
LEMMA FlattenPrefixRange ==
  ASSUME NEW S, NEW q \in Seq(Seq(S)), NEW n \in 0..Len(q)
  PROVE  Range(FlattenSeq(SubSeq(q, 1, n))) \subseteq Range(FlattenSeq(q))
<1> DEFINE p == SubSeq(q, 1, n)
<1>1. /\ p \in Seq(Seq(S)) /\ Len(p) = n
      /\ \A i \in 1..n : p[i] = q[i] /\ i \in 1..Len(q)
  OBVIOUS
<1> HIDE DEF p
<1>2. \A e \in Range(FlattenSeq(p)) : \E i \in 1..Len(p) : e \in Range(p[i])
  BY <1>1, FlattenRange
<1>3. \A i \in 1..Len(q) : Range(q[i]) \subseteq Range(FlattenSeq(q))
  BY FlattenRange
<1> QED
  BY <1>1, <1>2, <1>3 DEF p

(* Rows without elements leave nothing. *)
LEMMA FlattenEmptyRows ==
  ASSUME NEW S, NEW q \in Seq(Seq(S)), \A i \in 1..Len(q) : q[i] = <<>>
  PROVE  FlattenSeq(q) = <<>>
<1>1. \A e \in Range(FlattenSeq(q)) : \E i \in 1..Len(q) : e \in Range(q[i])
  BY FlattenRange
<1>2. Range(FlattenSeq(q)) = {}
  BY <1>1, RangeEmpty
<1>3. FlattenSeq(q) \in Seq(S)
  BY FlattenType
<1>4. Len(FlattenSeq(q)) \in Nat /\ Range(FlattenSeq(q)) = {FlattenSeq(q)[e] : e \in 1..Len(FlattenSeq(q))}
  BY <1>3, RangeEquality, LenProperties
<1>5. Len(FlattenSeq(q)) = 0
  <2> SUFFICES ASSUME Len(FlattenSeq(q)) # 0 PROVE FALSE
    OBVIOUS
  <2>1. 1 \in 1..Len(FlattenSeq(q))
    BY <1>4
  <2>2. FlattenSeq(q)[1] \in Range(FlattenSeq(q))
    BY <1>4, <2>1
  <2> QED
    BY <1>2, <2>2
<1> QED
  BY <1>3, <1>5, EmptySeq

(* Elements of a sequence, by either name. *)
LEMMA SetOfRange ==
  ASSUME NEW s
  PROVE  ToSet(s) = Range(s)
  BY DEF ToSet, Range

(* One element more that was not there before leaves a list without repetition. *)
LEMMA DistinctConcat ==
  ASSUME NEW S, NEW s \in Seq(S), NEW t \in Seq(S), Len(t) <= 1,
         \A i, j \in 1..Len(s) : s[i] = s[j] => i = j,
         \A e \in Range(s) : e \notin Range(t)
  PROVE  \A i, j \in 1..Len(s \o t) : (s \o t)[i] = (s \o t)[j] => i = j
<1> DEFINE u == s \o t
           m == Len(s)
<1>1. /\ Len(u) = m + Len(t) /\ m \in Nat /\ Len(t) \in Nat
      /\ \A i \in 1..(m + Len(t)) : u[i] = IF i <= m THEN s[i] ELSE t[i - m]
  BY ConcatProperties, LenProperties
<1>2. /\ \A i \in 1..m : s[i] \in Range(s)
      /\ Len(t) = 1 => t[1] \in Range(t)
  BY DEF Range
<1> HIDE DEF u, m
<1> SUFFICES ASSUME NEW i \in 1..Len(u), NEW j \in 1..Len(u), u[i] = u[j], i < j
             PROVE  FALSE
  <2>1. \A i, j \in 1..Len(u) : i = j \/ i < j \/ j < i
    BY <1>1
  <2> QED
    BY <2>1 DEF u
<1>3. CASE j <= m
  BY <1>1, <1>3 DEF m
<1>4. CASE m < j
  <2>1. Len(t) = 1 /\ j = m + 1
    <3> DEFINE l == Len(t)
    <3>1. l \in Nat /\ m \in Nat /\ j \in Nat /\ j <= m + l
      BY <1>1
    <3>2. l <= 1
      BY LenProperties
    <3> HIDE DEF l
    <3>3. l = 1 /\ j = m + 1
      BY ONLY <1>4, <3>1, <3>2
    <3> QED
      BY <3>3 DEF l
  <2>2. i \in 1..m /\ i \in 1..(m + Len(t)) /\ j \in 1..(m + Len(t)) /\ j - m = 1
    BY <1>1, <2>1
  <2>3. u[i] = s[i] /\ u[j] = t[1]
    BY <1>1, <1>4, <2>2
  <2> QED
    BY <1>2, <2>1, <2>2, <2>3
<1> QED
  BY <1>1, <1>3, <1>4

(* Nor do two lists that have none and share nothing. *)
LEMMA DisjointConcat ==
  ASSUME NEW S, NEW s \in Seq(S), NEW t \in Seq(S),
         \A i, j \in 1..Len(s) : s[i] = s[j] => i = j,
         \A i, j \in 1..Len(t) : t[i] = t[j] => i = j,
         \A e \in Range(s) : e \notin Range(t)
  PROVE  \A i, j \in 1..Len(s \o t) : (s \o t)[i] = (s \o t)[j] => i = j
<1> DEFINE u == s \o t
           m == Len(s)
           n == Len(t)
<1>1. /\ Len(u) = m + n /\ m \in Nat /\ n \in Nat
      /\ \A i \in 1..(m + n) : u[i] = IF i <= m THEN s[i] ELSE t[i - m]
  BY ConcatProperties, LenProperties
<1>2. /\ \A i \in 1..m : s[i] \in Range(s)
      /\ \A i \in 1..n : t[i] \in Range(t)
  BY DEF Range
<1> HIDE DEF u, m, n
<1>3. \A i \in 1..(m + n) :
        \/ (i \in 1..m /\ u[i] = s[i]) \/ (i - m \in 1..n /\ u[i] = t[i - m])
  <2> SUFFICES ASSUME NEW i \in 1..(m + n)
               PROVE  \/ (i \in 1..m /\ u[i] = s[i]) \/ (i - m \in 1..n /\ u[i] = t[i - m])
    OBVIOUS
  <2>1. (i <= m /\ i \in 1..m) \/ (~(i <= m) /\ i - m \in 1..n)
    BY <1>1
  <2> QED
    BY <1>1, <2>1
<1> SUFFICES ASSUME NEW i \in 1..(m + n), NEW j \in 1..(m + n), u[i] = u[j]
             PROVE  i = j
  BY <1>1 DEF u
<1>4. CASE i \in 1..m /\ u[i] = s[i] /\ j \in 1..m /\ u[j] = s[j]
  BY <1>4 DEF m
<1>5. CASE i - m \in 1..n /\ u[i] = t[i - m] /\ j - m \in 1..n /\ u[j] = t[j - m]
  <2>1. i - m = j - m
    BY <1>5 DEF n
  <2> QED
    BY <1>1, <2>1
<1> QED
  BY <1>2, <1>3, <1>4, <1>5

(* A list whose rows have at most one element each, all different, is           *)
(* flattened to a list without repetition.                                      *)
LEMMA FlattenDistinct ==
  ASSUME NEW S, NEW q \in Seq(Seq(S)),
         \A i \in 1..Len(q) : Len(q[i]) <= 1,
         \A i, j \in 1..Len(q) : i # j => Range(q[i]) \cap Range(q[j]) = {}
  PROVE  \A i, j \in 1..Len(FlattenSeq(q)) :
           FlattenSeq(q)[i] = FlattenSeq(q)[j] => i = j
<1> DEFINE F(n) == FlattenSeq(SubSeq(q, 1, n))
           Distinct(n) == /\ \A i, j \in 1..Len(F(n)) : F(n)[i] = F(n)[j] => i = j
                          /\ \A e \in Range(F(n)) : \E i \in 1..n : e \in Range(q[i])
           T == {n \in Nat : n <= Len(q) => Distinct(n)}
<1>1. 0 \in T
  <2>1. SubSeq(q, 1, 0) = <<>>
    OBVIOUS
  <2>2. F(0) = <<>>
    BY <2>1, FlattenNothing
  <2>3. Len(<<>>) = 0 /\ Range(<<>>) = {}
    BY RangeEmpty
  <2> QED
    BY <2>2, <2>3
<1>2. ASSUME NEW n \in Nat, n \in T
      PROVE  n + 1 \in T
  <2> SUFFICES ASSUME n + 1 <= Len(q) PROVE Distinct(n + 1)
    OBVIOUS
  <2>1. n \in 0..Len(q) /\ n + 1 \in 1..Len(q)
    OBVIOUS
  <2>2. Distinct(n)
    BY <1>2, <2>1
  <2>3. F(n) \in Seq(S) /\ q[n + 1] \in Seq(S)
    BY <2>1, FlattenPrefix
  <2>4. F(n + 1) = F(n) \o q[n + 1]
    <3>1. /\ SubSeq(q, 1, n) \in Seq(Seq(S))
          /\ SubSeq(q, 1, n + 1) = Append(SubSeq(q, 1, n), q[n + 1])
      BY PrefixSplits
    <3>2. FlattenSeq(Append(SubSeq(q, 1, n), q[n + 1]))
            = FlattenSeq(SubSeq(q, 1, n)) \o q[n + 1]
      BY <2>3, <3>1, FlattenAppend
    <3> QED
      BY ONLY <3>1, <3>2, Zenon
  <2> HIDE DEF F
  <2>5. Range(F(n + 1)) = Range(F(n)) \cup Range(q[n + 1])
    <3> DEFINE a == F(n)
               d == q[n + 1]
    <3>1. a \in Seq(S) /\ d \in Seq(S) /\ F(n + 1) = a \o d
      BY <2>3, <2>4
    <3> HIDE DEF a, d
    <3>2. Range(a \o d) = Range(a) \cup Range(d)
      BY <3>1, RangeConcat
    <3> QED
      BY <3>1, <3>2 DEF a, d
  <2>6. \A e \in Range(F(n)) : e \notin Range(q[n + 1])
    <3> SUFFICES ASSUME NEW e \in Range(F(n)), e \in Range(q[n + 1]) PROVE FALSE
      OBVIOUS
    <3>1. PICK i \in 1..n : e \in Range(q[i])
      BY <2>2
    <3>2. i \in 1..Len(q) /\ i # n + 1
      BY <2>1
    <3> QED
      BY <2>1, <3>1, <3>2
  <2>7. \A i, j \in 1..Len(F(n + 1)) : F(n + 1)[i] = F(n + 1)[j] => i = j
    <3> DEFINE a == F(n) c == F(n + 1)
    <3>1. /\ a \in Seq(S) /\ c = a \o q[n + 1] /\ Len(q[n + 1]) <= 1
          /\ \A i, j \in 1..Len(a) : a[i] = a[j] => i = j
          /\ \A e \in Range(a) : e \notin Range(q[n + 1])
      BY <2>1, <2>2, <2>3, <2>4, <2>6
    <3> DEFINE d == q[n + 1]
    <3>2. d \in Seq(S) /\ Len(d) <= 1 /\ c = a \o d /\ \A e \in Range(a) : e \notin Range(d)
      BY <2>3, <3>1
    <3> HIDE DEF a, c, d
    <3>3. \A i, j \in 1..Len(a \o d) : (a \o d)[i] = (a \o d)[j] => i = j
      BY <3>1, <3>2, DistinctConcat
    <3>4. \A i, j \in 1..Len(c) : c[i] = c[j] => i = j
      BY <3>2, <3>3
    <3> QED
      BY <3>4 DEF c
  <2>8. \A e \in Range(F(n + 1)) : \E i \in 1..(n + 1) : e \in Range(q[i])
    <3> SUFFICES ASSUME NEW e \in Range(F(n + 1))
                 PROVE  \E i \in 1..(n + 1) : e \in Range(q[i])
      OBVIOUS
    <3>1. CASE e \in Range(F(n))
      <4>1. PICK i \in 1..n : e \in Range(q[i])
        BY <2>2, <3>1
      <4> QED
        BY <4>1
    <3>2. CASE e \in Range(q[n + 1])
      BY <3>2
    <3> QED
      BY <2>5, <3>1, <3>2
  <2> QED
    BY <2>7, <2>8
<1> HIDE DEF T
<1>3. \A n \in Nat : n \in T
  BY ONLY <1>1, <1>2, SetInduction
<1>4. SubSeq(q, 1, Len(q)) = q /\ Len(q) \in Nat
  OBVIOUS
<1>5. Distinct(Len(q))
  BY <1>3, <1>4 DEF T
<1> QED
  BY <1>4, <1>5

(* The elements of a list that are in T, in their order. *)
Kept(q, T) == FlattenSeq([i \in DOMAIN q |-> IF q[i] \in T THEN <<q[i]>> ELSE <<>>])

(* Keeping the elements of a set keeps a list of different ones in order. *)
LEMMA KeptElements ==
  ASSUME NEW S, NEW q \in Seq(S), NEW T
  PROVE  /\ Kept(q, T) \in Seq(S)
         /\ Range(Kept(q, T)) = Range(q) \cap T
         /\ (\A i, j \in 1..Len(q) : q[i] = q[j] => i = j) =>
              \A i, j \in 1..Len(Kept(q, T)) : Kept(q, T)[i] = Kept(q, T)[j] => i = j
<1> DEFINE rows == [i \in DOMAIN q |-> IF q[i] \in T THEN <<q[i]>> ELSE <<>>]
<1>1. DOMAIN q = 1..Len(q) /\ Len(q) \in Nat /\ \A i \in 1..Len(q) : q[i] \in S
  OBVIOUS
<1>2. \A e \in S : <<e>> \in Seq(S) /\ Range(<<e>>) = {e} /\ Len(<<e>>) = 1
  BY DEF Range
<1>3. <<>> \in Seq(S) /\ Range(<<>>) = {} /\ Len(<<>>) = 0
  BY RangeEmpty
<1>4. \A i \in 1..Len(q) :
        /\ q[i] \in T => /\ rows[i] \in Seq(S) /\ Len(rows[i]) <= 1
                         /\ Range(rows[i]) = {q[i]}
        /\ q[i] \notin T => /\ rows[i] \in Seq(S) /\ Len(rows[i]) <= 1
                            /\ Range(rows[i]) = {}
  <2> SUFFICES ASSUME NEW i \in 1..Len(q)
               PROVE  /\ q[i] \in T => /\ rows[i] \in Seq(S) /\ Len(rows[i]) <= 1
                                       /\ Range(rows[i]) = {q[i]}
                      /\ q[i] \notin T => /\ rows[i] \in Seq(S) /\ Len(rows[i]) <= 1
                                          /\ Range(rows[i]) = {}
    OBVIOUS
  <2>1. rows[i] = IF q[i] \in T THEN <<q[i]>> ELSE <<>>
    BY <1>1
  <2> HIDE DEF rows
  <2>2. CASE q[i] \in T
    <3>1. rows[i] = <<q[i]>>
      BY <2>1, <2>2
    <3> QED
      BY <1>1, <1>2, <2>2, <3>1
  <2>3. CASE q[i] \notin T
    <3>1. rows[i] = <<>>
      BY <2>1, <2>3
    <3> QED
      BY <1>3, <2>3, <3>1
  <2> QED
    BY <2>2, <2>3
<1>5. rows \in Seq(Seq(S)) /\ Len(rows) = Len(q)
  <2>1. rows = [i \in 1..Len(q) |-> rows[i]]
    BY <1>1
  <2> HIDE DEF rows
  <2>2. rows \in [1..Len(q) -> Seq(S)]
    BY <1>4, <2>1
  <2> QED
    BY <1>1, <2>2, SeqDef
<1>6. Kept(q, T) = FlattenSeq(rows)
  BY DEF Kept
<1> HIDE DEF rows
<1>7. /\ \A i \in 1..Len(rows) : Range(rows[i]) \subseteq Range(Kept(q, T))
      /\ \A e \in Range(Kept(q, T)) : \E i \in 1..Len(rows) : e \in Range(rows[i])
      /\ Kept(q, T) \in Seq(S)
  BY <1>5, <1>6, FlattenRange, FlattenType
<1>8. Range(Kept(q, T)) = Range(q) \cap T
  <2>1. \A e : e \in Range(q) <=> \E i \in 1..Len(q) : e = q[i]
    BY <1>1 DEF Range
  <2>2. ASSUME NEW e \in Range(Kept(q, T)) PROVE e \in Range(q) \cap T
    <3>1. PICK i \in 1..Len(q) : e \in Range(rows[i])
      BY <1>5, <1>7
    <3>2. q[i] \in T /\ e = q[i]
      BY <1>4, <3>1
    <3> QED
      BY <2>1, <3>2
  <2>3. ASSUME NEW e \in Range(q), e \in T PROVE e \in Range(Kept(q, T))
    <3>1. PICK i \in 1..Len(q) : e = q[i]
      BY <2>1
    <3>2. e \in Range(rows[i])
      BY <1>4, <2>3, <3>1
    <3> QED
      BY <1>5, <1>7, <3>2
  <2> QED
    BY <2>2, <2>3
<1>9. ASSUME \A i, j \in 1..Len(q) : q[i] = q[j] => i = j
      PROVE  \A i, j \in 1..Len(Kept(q, T)) : Kept(q, T)[i] = Kept(q, T)[j] => i = j
  <2>1. \A i, j \in 1..Len(rows) : i # j => Range(rows[i]) \cap Range(rows[j]) = {}
    <3> SUFFICES ASSUME NEW i \in 1..Len(q), NEW j \in 1..Len(q), i # j,
                        NEW e, e \in Range(rows[i]), e \in Range(rows[j])
                 PROVE  FALSE
      BY <1>5
    <3>1. e = q[i] /\ e = q[j]
      BY <1>4
    <3> QED
      BY <1>9, <3>1
  <2>2. \A i \in 1..Len(rows) : Len(rows[i]) <= 1
    BY <1>4, <1>5
  <2> QED
    BY <1>5, <1>6, <2>1, <2>2, FlattenDistinct
<1> QED
  BY <1>7, <1>8, <1>9

-----------------------------------------------------------------------------
(* Least and greatest numbers, and recursive functions *)

(* A set of numbers up to n that is not empty has a greatest one, which Max    *)
(* finds.                                                                      *)
LEMMA GreatestNumber ==
  ASSUME NEW n \in Nat, NEW T \in SUBSET (0..n), T # {}
  PROVE  Max(T) \in T /\ \A m \in T : m <= Max(T)
<1> DEFINE U == {n - m : m \in T}
<1>1. U \in SUBSET Nat /\ U # {}
  <2>1. \A m \in T : n - m \in Nat
    OBVIOUS
  <2> QED
    BY <2>1
<1>2. PICK u \in U : \A v \in U : u <= v
  BY <1>1, LeastElement
<1>3. PICK x \in T : u = n - x
  BY <1>2
<1>4. \A m \in T : n - m \in U
  OBVIOUS
<1>5. ASSUME NEW m \in T PROVE x >= m
  <2>1. n - x <= n - m
    BY <1>2, <1>3, <1>4
  <2>2. m \in 0..n /\ x \in 0..n
    OBVIOUS
  <2> QED
    BY ONLY <2>1, <2>2, n \in Nat
<1>6. \E y \in T : \A m \in T : y >= m
  BY <1>5
<1>7. Max(T) \in T /\ \A m \in T : Max(T) >= m
  BY <1>6, ZenonT(40) DEF Max
<1> QED
  BY <1>7

(* Numbers in a row are all below some number. *)
LEMMA RowBounded ==
  ASSUME NEW n \in Nat, NEW f, \A i \in 1..n : f[i] \in Nat
  PROVE  \E b \in Nat : \A i \in 1..n : f[i] <= b
<1> DEFINE T == {m \in Nat : m <= n => \E b \in Nat : \A i \in 1..m : f[i] <= b}
<1>1. 0 \in T
  OBVIOUS
<1>2. ASSUME NEW m \in Nat, m \in T
      PROVE  m + 1 \in T
  <2> SUFFICES ASSUME m + 1 <= n PROVE \E b \in Nat : \A i \in 1..(m + 1) : f[i] <= b
    OBVIOUS
  <2>1. PICK b \in Nat : \A i \in 1..m : f[i] <= b
    BY <1>2
  <2>2. PICK e \in Nat : e = f[m + 1]
    OBVIOUS
  <2>3. PICK c \in Nat : b <= c /\ e <= c
    <3>1. b <= e \/ e <= b
      OBVIOUS
    <3> QED
      BY <3>1
  <2>4. ASSUME NEW i \in 1..(m + 1)
        PROVE  f[i] <= c
    <3>1. CASE i = m + 1
      BY <2>2, <2>3, <3>1
    <3>2. CASE i # m + 1
      <4>1. i \in 1..m /\ i \in 1..n
        BY <3>2
      <4> QED
        BY <2>1, <2>3, <4>1
    <3> QED
      BY <3>1, <3>2
  <2> QED
    BY <2>4
<1> HIDE DEF T
<1>3. n \in T
  BY <1>1, <1>2, SetInduction
<1> QED
  BY <1>3 DEF T

(* A set of numbers that is not empty has a smallest one, which Min finds. *)
LEMMA SmallestNumber ==
  ASSUME NEW T \in SUBSET Nat, T # {}
  PROVE  Min(T) \in T /\ \A m \in T : Min(T) <= m
<1>1. \E y \in T : \A m \in T : y <= m
  BY LeastElement
<1> QED
  BY <1>1, Zenon DEF Min

(* One step of a recursion, as a function, and what the recursion comes to,    *)
(* over the numbers up to n.  It has a solution.                               *)
IsStep(step, S, n) == step \in [S \X (1..n) -> S]
Unrolls(f, S, base, n, step) ==
  /\ f \in [0..n -> S] /\ f[0] = base
  /\ \A i \in 1..n : f[i] = step[<<f[i - 1], i>>]

(* A function that goes on step by step exists for every number of steps. *)
LEMMA RecursionExists ==
  ASSUME NEW S, NEW base \in S, NEW n \in Nat, NEW step, IsStep(step, S, n)
  PROVE  \E f : Unrolls(f, S, base, n, step)
<1> USE DEF Unrolls
<1>0. step \in [S \X (1..n) -> S]
  BY DEF IsStep
<1> DEFINE P(m) == \E f : Unrolls(f, S, base, m, step)
           T == {m \in Nat : m <= n => P(m)}
<1>1. 0 \in T
  <2>1. [i \in 0..0 |-> base] \in [0..0 -> S]
    OBVIOUS
  <2>2. [i \in 0..0 |-> base][0] = base /\ 1..0 = {}
    OBVIOUS
  <2> QED
    BY <2>1, <2>2
<1>2. ASSUME NEW m \in Nat, m \in T
      PROVE  m + 1 \in T
  <2> SUFFICES ASSUME m + 1 <= n PROVE P(m + 1)
    OBVIOUS
  <2>1. PICK f : Unrolls(f, S, base, m, step)
    BY <1>2
  <2> DEFINE g == [i \in 0..(m + 1) |-> IF i <= m THEN f[i] ELSE step[<<f[m], m + 1>>]]
  <2>2. step[<<f[m], m + 1>>] \in S
    BY <1>0, <2>1
  <2>3. g \in [0..(m + 1) -> S]
    BY <2>1, <2>2
  <2>4. /\ \A i \in 0..m : g[i] = f[i]
        /\ g[m + 1] = step[<<f[m], m + 1>>]
    OBVIOUS
  <2> HIDE DEF g
  <2>5. g[0] = base /\ \A i \in 1..(m + 1) : g[i] = step[<<g[i - 1], i>>]
    <3>1. \A i \in 1..(m + 1) : i - 1 \in 0..m /\ (i \in 1..m \/ i = m + 1)
      OBVIOUS
    <3>2. \A i \in 1..m : i \in 0..m
      OBVIOUS
    <3>3. (m + 1) - 1 = m /\ 0 \in 0..m /\ m \in 0..m
      OBVIOUS
    <3>4. \A i \in 1..m : g[i] = step[<<g[i - 1], i>>]
      BY <2>1, <2>4, <3>1, <3>2
    <3>5. g[m + 1] = step[<<g[m], m + 1>>]
      BY <2>4, <3>3
    <3> QED
      BY <2>1, <2>4, <3>1, <3>3, <3>4, <3>5
  <2> QED
    BY <2>3, <2>5
<1> HIDE DEF T
<1>3. n \in T
  BY <1>1, <1>2, SetInduction
<1> QED
  BY <1>3 DEF T

(* Removing one element after the other: each off what the last one left.      *)
Removes(slot, goods, f, n) ==
  f = [i \in 0..n |-> IF i = 0 THEN slot ELSE RemoveFirst(f[i - 1], goods[i])]

(* Removing element after element is defined for every number of them. *)
LEMMA RemovesExists ==
  ASSUME NEW slot, NEW goods, NEW n \in Nat
  PROVE  \E f : Removes(slot, goods, f, n)
<1> DEFINE Rest(f, i) == IF i = 0 THEN slot ELSE RemoveFirst(f[i - 1], goods[i])
           Solves(f, m) == f = [i \in 0..m |-> f[i]] /\ \A i \in 0..m : f[i] = Rest(f, i)
           T == {m \in Nat : \E f : Solves(f, m)}
<1>1. 0 \in T
  <2> DEFINE g == [i \in 0..0 |-> slot]
  <2>1. Solves(g, 0)
    OBVIOUS
  <2> QED
    BY <2>1
<1>2. ASSUME NEW m \in Nat, m \in T
      PROVE  m + 1 \in T
  <2>1. PICK f : Solves(f, m)
    BY <1>2
  <2> DEFINE g == [i \in 0..(m + 1) |-> IF i <= m THEN f[i] ELSE Rest(f, i)]
  <2>2. /\ \A i \in 0..m : g[i] = f[i]
        /\ \A i \in 0..(m + 1) : i <= m => g[i] = Rest(f, i)
        /\ g[m + 1] = Rest(f, m + 1)
        /\ g = [i \in 0..(m + 1) |-> g[i]]
    <3>1. /\ \A i \in 0..m : g[i] = f[i]
          /\ g = [i \in 0..(m + 1) |-> g[i]]
      OBVIOUS
    <3>2. g[m + 1] = Rest(f, m + 1)
      <4> HIDE DEF Rest
      <4>1. m + 1 \in 0..(m + 1) /\ ~(m + 1 <= m)
        OBVIOUS
      <4> QED
        BY <4>1
    <3>3. ASSUME NEW i \in 0..(m + 1), i <= m PROVE g[i] = Rest(f, i)
      <4>1. i \in 0..m
        BY <3>3
      <4>2. f[i] = Rest(f, i)
        BY <2>1, <4>1
      <4> HIDE DEF Rest, g
      <4> QED
        BY <3>1, <4>1, <4>2
    <3> HIDE DEF g, Rest
    <3> QED
      BY <3>1, <3>2, <3>3
  <2> HIDE DEF g
  <2>3. \A i \in 0..(m + 1) : i # 0 => i - 1 \in 0..m
    OBVIOUS
  <2>4. \A i \in 0..(m + 1) : Rest(g, i) = Rest(f, i)
    BY <2>2, <2>3
  <2>5. \A i \in 0..(m + 1) : g[i] = Rest(g, i)
    <3> SUFFICES ASSUME NEW i \in 0..(m + 1) PROVE g[i] = Rest(g, i)
      OBVIOUS
    <3>1. i <= m \/ i = m + 1
      OBVIOUS
    <3> HIDE DEF Rest
    <3> QED
      BY <2>2, <2>4, <3>1
  <2>6. Solves(g, m + 1)
    BY <2>2, <2>5
  <2> HIDE DEF Solves
  <2> QED
    BY <2>6
<1> HIDE DEF T
<1>3. \A m \in Nat : m \in T
  BY ONLY <1>1, <1>2, SetInduction
<1>4. PICK f : Solves(f, n)
  BY <1>3 DEF T
<1>5. f = [i \in 0..n |-> Rest(f, i)]
  <2> HIDE DEF Rest
  <2> QED
    BY <1>4
<1> QED
  BY <1>5 DEF Removes

-----------------------------------------------------------------------------
(* Lists of rows *)

(* Putting three lists together: the brackets do not matter. *)
LEMMA ConcatAssociates ==
  ASSUME NEW S, NEW x \in Seq(S), NEW y \in Seq(S), NEW z \in Seq(S)
  PROVE  (x \o y) \o z = x \o (y \o z)
<1> DEFINE a == (x \o y) \o z b == x \o (y \o z)
<1>1. a \in Seq(S) /\ b \in Seq(S) /\ Len(a) = Len(b)
  OBVIOUS
<1>2. ASSUME NEW i \in 1..Len(a) PROVE a[i] = b[i]
  OBVIOUS
<1> HIDE DEF a, b
<1>3. a = b
  BY <1>1, <1>2
<1> QED
  BY <1>3 DEF a, b

(* Rows behind rows, and rows whose elements are replaced one by one. *)
LEMMA FlattenConcat ==
  ASSUME NEW S, NEW q \in Seq(Seq(S)), NEW r \in Seq(Seq(S))
  PROVE  FlattenSeq(q \o r) = FlattenSeq(q) \o FlattenSeq(r)
<1> DEFINE P(m) == SubSeq(r, 1, m)
           Good(m) == FlattenSeq(q \o P(m)) = FlattenSeq(q) \o FlattenSeq(P(m))
           T == {m \in Nat : m <= Len(r) => Good(m)}
<1>1. FlattenSeq(q) \in Seq(S) /\ Len(r) \in Nat /\ P(Len(r)) = r
  <2>1. FlattenSeq(q) \in Seq(S)
    BY FlattenType
  <2>2. Len(r) \in Nat /\ P(Len(r)) = r
    OBVIOUS
  <2> QED
    BY <2>1, <2>2
<1>2. 0 \in T
  <2>1. P(0) = <<>> /\ q \o <<>> = q
    OBVIOUS
  <2>2. FlattenSeq(q) \o <<>> = FlattenSeq(q)
    BY <1>1
  <2> HIDE DEF P
  <2> QED
    BY <2>1, <2>2, FlattenNothing
<1>3. ASSUME NEW m \in Nat, m \in T
      PROVE  m + 1 \in T
  <2> SUFFICES ASSUME m + 1 <= Len(r) PROVE Good(m + 1)
    OBVIOUS
  <2>1. /\ P(m) \in Seq(Seq(S)) /\ r[m + 1] \in Seq(S)
        /\ P(m + 1) = Append(P(m), r[m + 1])
    BY PrefixSplits
  <2>2. Good(m)
    BY <1>3
  <2>3. PICK p \in Seq(Seq(S)) : p = P(m)
    BY <2>1
  <2>4. PICK e \in Seq(S) : e = r[m + 1]
    BY <2>1
  <2>5. q \o Append(p, e) = Append(q \o p, e) /\ q \o p \in Seq(Seq(S))
    <3> DEFINE R == Seq(S)
    <3>1. q \in Seq(R) /\ p \in Seq(R) /\ e \in R
      OBVIOUS
    <3> HIDE DEF R
    <3> QED
      BY <3>1
  <2>6. FlattenSeq(q \o Append(p, e)) = FlattenSeq(q \o p) \o e
    BY <2>5, FlattenAppend
  <2>7. FlattenSeq(Append(p, e)) = FlattenSeq(p) \o e /\ FlattenSeq(p) \in Seq(S)
    BY FlattenAppend, FlattenType
  <2>8. (FlattenSeq(q) \o FlattenSeq(p)) \o e = FlattenSeq(q) \o (FlattenSeq(p) \o e)
    <3>1. PICK x \in Seq(S) : x = FlattenSeq(q)
      BY <1>1
    <3>2. PICK y \in Seq(S) : y = FlattenSeq(p)
      BY <2>7
    <3>3. (x \o y) \o e = x \o (y \o e)
      BY ONLY ConcatAssociates
    <3> QED
      BY <3>1, <3>2, <3>3
  <2>9. FlattenSeq(q \o p) = FlattenSeq(q) \o FlattenSeq(p)
    BY <2>2, <2>3
  <2> QED
    BY <2>1, <2>3, <2>4, <2>6, <2>7, <2>8, <2>9
<1> HIDE DEF T, P
<1>4. Len(r) \in T
  BY ONLY <1>1, <1>2, <1>3, SetInduction
<1> QED
  BY <1>1, <1>4 DEF T

(* A list with every element replaced. *)
Mapped(f, s) == [i \in DOMAIN s |-> f[s[i]]]
Into(f, S, R) == f \in [S -> R]

(* Replacing the elements of a list keeps its length. *)
LEMMA MappedType ==
  ASSUME NEW S, NEW R, NEW f, Into(f, S, R), NEW s \in Seq(S)
  PROVE  Mapped(f, s) \in Seq(R) /\ Len(Mapped(f, s)) = Len(s)
  BY DEF Mapped, Into

(* Replacing the elements of lists put together. *)
LEMMA MappedConcat ==
  ASSUME NEW S, NEW R, NEW f, Into(f, S, R), NEW s \in Seq(S), NEW t \in Seq(S)
  PROVE  Mapped(f, s \o t) = Mapped(f, s) \o Mapped(f, t)
<1> DEFINE n == Len(s) m == Len(t) u == s \o t
<1>1. /\ n \in Nat /\ m \in Nat /\ u \in Seq(S) /\ Len(u) = n + m
      /\ \A i \in 1..(n + m) : u[i] = IF i <= n THEN s[i] ELSE t[i - n]
  BY ConcatProperties, LenProperties
<1>2. /\ DOMAIN s = 1..n /\ DOMAIN t = 1..m
  OBVIOUS
<1>2a. DOMAIN u = 1..(n + m)
  BY <1>1, LenProperties
<1> DEFINE a == Mapped(f, s) b == Mapped(f, t) c == Mapped(f, u)
<1>3. /\ a \in Seq(R) /\ b \in Seq(R) /\ c \in Seq(R)
      /\ Len(a) = n /\ Len(b) = m /\ Len(c) = n + m
  <2> HIDE DEF u
  <2>1. /\ Mapped(f, s) \in Seq(R) /\ Len(Mapped(f, s)) = Len(s)
        /\ Mapped(f, t) \in Seq(R) /\ Len(Mapped(f, t)) = Len(t)
    BY MappedType
  <2>2. Mapped(f, u) \in Seq(R) /\ Len(Mapped(f, u)) = Len(u)
    <3>1. u \in Seq(S)
      BY <1>1
    <3> QED
      BY <3>1, MappedType
  <2> QED
    BY <1>1, <2>1, <2>2
<1> HIDE DEF a, b, c
<1>4. /\ a \o b \in Seq(R) /\ Len(a \o b) = n + m
      /\ \A i \in 1..(n + m) : (a \o b)[i] = IF i <= n THEN a[i] ELSE b[i - n]
  <2>1. /\ a \o b \in Seq(R) /\ Len(a \o b) = Len(a) + Len(b)
        /\ \A i \in 1..(Len(a) + Len(b)) :
             (a \o b)[i] = IF i <= Len(a) THEN a[i] ELSE b[i - Len(a)]
    <3>1. a \in Seq(R) /\ b \in Seq(R)
      BY <1>3
    <3> QED
      BY ONLY <3>1, ConcatProperties
  <2> QED
    BY <1>3, <2>1
<1> HIDE DEF n, m, u
<1>5. ASSUME NEW i \in 1..(n + m)
      PROVE  c[i] = (a \o b)[i]
  <2>1. c[i] = f[u[i]]
    BY <1>2a DEF Mapped, c
  <2>2. CASE i <= n
    <3>1. i \in 1..n /\ u[i] = s[i] /\ (a \o b)[i] = a[i]
      BY <1>1, <1>4, <2>2
    <3>2. a[i] = f[s[i]]
      BY <1>2, <3>1 DEF Mapped, a
    <3> QED
      BY <2>1, <3>1, <3>2
  <2>3. CASE ~(i <= n)
    <3>1. i - n \in 1..m /\ u[i] = t[i - n] /\ (a \o b)[i] = b[i - n]
      BY <1>1, <1>4, <2>3
    <3>2. b[i - n] = f[t[i - n]]
      BY <1>2, <3>1 DEF Mapped, b
    <3> QED
      BY <2>1, <3>1, <3>2
  <2> QED
    BY <2>2, <2>3
<1>6. c = a \o b
  BY <1>3, <1>4, <1>5, SeqEqual
<1> QED
  BY <1>6 DEF a, b, c, u

(* Replacing the elements of rows replaces those of the rows put together. *)
LEMMA FlattenMapped ==
  ASSUME NEW S, NEW R, NEW f, Into(f, S, R), NEW q \in Seq(Seq(S)),
         NEW r, r = [i \in DOMAIN q |-> Mapped(f, q[i])]
  PROVE  FlattenSeq(r) = Mapped(f, FlattenSeq(q))
<1> DEFINE n == Len(q) P(m) == SubSeq(q, 1, m) D(m) == SubSeq(r, 1, m)
           Good(m) == FlattenSeq(D(m)) = Mapped(f, FlattenSeq(P(m)))
           T == {m \in Nat : m <= n => Good(m)}
<1>0. \A x, y \in Seq(S) : Mapped(f, x \o y) = Mapped(f, x) \o Mapped(f, y)
  <2> SUFFICES ASSUME NEW x, NEW y, x \in Seq(S), y \in Seq(S)
               PROVE  Mapped(f, x \o y) = Mapped(f, x) \o Mapped(f, y)
    OBVIOUS
  <2> QED
    BY ONLY Into(f, S, R), x \in Seq(S), y \in Seq(S), MappedConcat
<1>1. n \in Nat /\ DOMAIN q = 1..n /\ \A i \in 1..n : q[i] \in Seq(S)
  OBVIOUS
<1>2. r \in Seq(Seq(R)) /\ Len(r) = n
  <2>1. \A i \in 1..n : Mapped(f, q[i]) \in Seq(R)
    BY <1>1, MappedType
  <2> QED
    BY <1>1, <2>1
<1>3. P(n) = q /\ D(n) = r
  BY <1>2
<1>4. 0 \in T
  <2>1. P(0) = <<>> /\ D(0) = <<>>
    BY <1>2
  <2>2. Mapped(f, <<>>) = <<>>
    BY DEF Mapped
  <2> HIDE DEF P, D
  <2> QED
    BY <2>1, <2>2, FlattenNothing
<1>5. ASSUME NEW m \in Nat, m \in T
      PROVE  m + 1 \in T
  <2> SUFFICES ASSUME m + 1 <= n PROVE Good(m + 1)
    OBVIOUS
  <2>1. /\ P(m) \in Seq(Seq(S)) /\ q[m + 1] \in Seq(S)
        /\ P(m + 1) = Append(P(m), q[m + 1])
    BY PrefixSplits
  <2>2. /\ D(m) \in Seq(Seq(R)) /\ r[m + 1] \in Seq(R)
        /\ D(m + 1) = Append(D(m), r[m + 1])
    BY <1>2, PrefixSplits
  <2>3. Good(m) /\ r[m + 1] = Mapped(f, q[m + 1])
    BY <1>1, <1>5
  <2> HIDE DEF P, D
  <2>4. FlattenSeq(D(m + 1)) = FlattenSeq(D(m)) \o r[m + 1]
    BY <2>2, FlattenAppend
  <2>5. FlattenSeq(P(m + 1)) = FlattenSeq(P(m)) \o q[m + 1] /\ FlattenSeq(P(m)) \in Seq(S)
    BY <2>1, FlattenAppend, FlattenType
  <2>6. Mapped(f, FlattenSeq(P(m)) \o q[m + 1])
          = Mapped(f, FlattenSeq(P(m))) \o Mapped(f, q[m + 1])
    <3>1. FlattenSeq(P(m)) \in Seq(S) /\ q[m + 1] \in Seq(S)
      BY <2>1, <2>5
    <3> QED
      BY <1>0, <3>1
  <2> QED
    BY <2>3, <2>4, <2>5, <2>6
<1> HIDE DEF T, P, D, Good
<1>6. n \in T
  BY ONLY <1>1, <1>4, <1>5, SetInduction
<1>7. Good(n)
  BY <1>1, <1>6 DEF T
<1> QED
  BY <1>3, <1>7 DEF Good

(* Rows of one element each. *)
LEMMA FlattenSingles ==
  ASSUME NEW S, NEW s \in Seq(S), NEW q, q = [i \in DOMAIN s |-> <<s[i]>>]
  PROVE  FlattenSeq(q) = s
<1> DEFINE n == Len(s) P(m) == SubSeq(s, 1, m) D(m) == SubSeq(q, 1, m)
           Good(m) == FlattenSeq(D(m)) = P(m)
           T == {m \in Nat : m <= n => Good(m)}
<1>1. n \in Nat /\ q \in Seq(Seq(S)) /\ Len(q) = n /\ P(n) = s /\ D(n) = q
      /\ \A i \in 1..n : q[i] = <<s[i]>>
  <2>1. n \in Nat /\ DOMAIN s = 1..n /\ \A i \in 1..n : s[i] \in S
    OBVIOUS
  <2>2. \A i \in 1..n : <<s[i]>> \in Seq(S)
    BY <2>1
  <2>3. q = [i \in 1..n |-> <<s[i]>>]
    BY <2>1
  <2>4. q \in Seq(Seq(S)) /\ Len(q) = n
    BY <2>1, <2>2, <2>3
  <2>5. P(n) = s /\ D(n) = q
    BY <2>4
  <2> QED
    BY <2>1, <2>3, <2>4, <2>5
<1>2. 0 \in T
  <2>1. P(0) = <<>> /\ D(0) = <<>>
    BY <1>1
  <2> HIDE DEF P, D
  <2> QED
    BY <2>1, FlattenNothing
<1>3. ASSUME NEW m \in Nat, m \in T
      PROVE  m + 1 \in T
  <2> SUFFICES ASSUME m + 1 <= n PROVE Good(m + 1)
    OBVIOUS
  <2>1. P(m) \in Seq(S) /\ s[m + 1] \in S /\ P(m + 1) = Append(P(m), s[m + 1])
    BY PrefixSplits
  <2>2. /\ D(m) \in Seq(Seq(S)) /\ q[m + 1] \in Seq(S) /\ D(m + 1) = Append(D(m), q[m + 1])
    BY <1>1, PrefixSplits
  <2>3. FlattenSeq(D(m)) = P(m) /\ q[m + 1] = <<s[m + 1]>>
    BY <1>1, <1>3
  <2>4. FlattenSeq(D(m + 1)) = FlattenSeq(D(m)) \o q[m + 1]
    BY <2>2, FlattenAppend
  <2>5. P(m) \o <<s[m + 1]>> = Append(P(m), s[m + 1])
    BY <2>1
  <2> QED
    BY <2>1, <2>3, <2>4, <2>5
<1> HIDE DEF T, P, D, Good
<1>4. n \in T
  BY ONLY <1>1, <1>2, <1>3, SetInduction
<1>5. Good(n)
  BY <1>1, <1>4 DEF T
<1> QED
  BY <1>1, <1>5 DEF Good

-----------------------------------------------------------------------------
(* How many elements of lists are in a set *)

(* Where elements of a set stand, and how many they are. *)
Places(s, T) == {i \in DOMAIN s : s[i] \in T}
Amount(s, T) == Cardinality(Places(s, T))

(* A list has finitely many places. *)
LEMMA PlacesFinite ==
  ASSUME NEW S, NEW s \in Seq(S), NEW T
  PROVE  /\ Places(s, T) \in SUBSET (1..Len(s)) /\ IsFiniteSet(Places(s, T))
         /\ Amount(s, T) \in Nat
<1>1. Len(s) \in Nat /\ DOMAIN s = 1..Len(s)
  OBVIOUS
<1>2. IsFiniteSet(1..Len(s))
  BY <1>1, FS_Interval
<1>3. Places(s, T) \in SUBSET (1..Len(s))
  BY <1>1 DEF Places
<1> QED
  BY <1>2, <1>3, FS_Subset, FS_CardinalityType DEF Amount

(* Lists put together have what each of them has. *)
LEMMA AmountConcat ==
  ASSUME NEW S, NEW s \in Seq(S), NEW t \in Seq(S), NEW T
  PROVE  Amount(s \o t, T) = Amount(s, T) + Amount(t, T)
<1> DEFINE n == Len(s) m == Len(t) u == s \o t
           R == {n + i : i \in Places(t, T)}
           f == [i \in Places(t, T) |-> n + i]
<1>1. /\ n \in Nat /\ m \in Nat /\ u \in Seq(S) /\ Len(u) = n + m
      /\ \A i \in 1..(n + m) : u[i] = IF i <= n THEN s[i] ELSE t[i - n]
  BY ConcatProperties, LenProperties
<1>2. DOMAIN s = 1..n /\ DOMAIN t = 1..m
  OBVIOUS
<1>3. DOMAIN u = 1..(n + m)
  BY <1>1, LenProperties
<1>4. /\ Places(s, T) \in SUBSET (1..n) /\ Places(t, T) \in SUBSET (1..m)
      /\ IsFiniteSet(Places(s, T)) /\ IsFiniteSet(Places(t, T))
      /\ Amount(s, T) \in Nat /\ Amount(t, T) \in Nat
  BY PlacesFinite
<1> HIDE DEF n, m, u
<1>5. Places(u, T) = Places(s, T) \cup R
  <2>1. ASSUME NEW i \in 1..(n + m) PROVE u[i] \in T <=> i \in Places(s, T) \cup R
    <3>1. CASE i <= n
      <4>1. i \in 1..n /\ u[i] = s[i]
        BY <1>1, <3>1
      <4>2. i \notin R
        BY <1>1, <1>4, <3>1
      <4> QED
        BY <1>2, <4>1, <4>2 DEF Places
    <3>2. CASE ~(i <= n)
      <4>1. i - n \in 1..m /\ u[i] = t[i - n] /\ n + (i - n) = i /\ i \notin 1..n
        BY <1>1, <3>2
      <4>2. i \in R <=> i - n \in Places(t, T)
        <5>1. \A j \in Places(t, T) : n + j = i => j = i - n
          BY <1>1, <1>4
        <5> QED
          BY <4>1, <5>1
      <4> QED
        BY <1>2, <1>4, <4>1, <4>2 DEF Places
    <3> QED
      BY <3>1, <3>2
  <2>2. Places(s, T) \cup R \in SUBSET (1..(n + m))
    <3>1. \A i \in 1..m : n + i \in 1..(n + m)
      BY <1>1
    <3>2. \A i \in 1..n : i \in 1..(n + m)
      BY <1>1
    <3> QED
      BY <1>4, <3>1, <3>2
  <2>3. Places(u, T) = {i \in 1..(n + m) : u[i] \in T}
    BY <1>3 DEF Places
  <2> QED
    BY <2>1, <2>2, <2>3
<1>6. Places(s, T) \cap R = {}
  BY <1>1, <1>4
<1>7. IsFiniteSet(R) /\ Cardinality(R) = Amount(t, T)
  <2>1. \A i \in Places(t, T) : i \in Nat
    BY <1>4
  <2>2. f \in Bijection(Places(t, T), R)
    BY <1>1, <2>1 DEF Bijection, Injection, Surjection, IsInjective
  <2>3. ExistsBijection(Places(t, T), R)
    BY <2>2 DEF ExistsBijection
  <2> QED
    BY <1>4, <2>3, FS_Bijection DEF Amount
<1>8. Cardinality(Places(s, T) \cup R) = Amount(s, T) + Amount(t, T) - Cardinality({})
  <2>1. Cardinality(Places(s, T) \cup R)
          = Cardinality(Places(s, T)) + Cardinality(R) - Cardinality(Places(s, T) \cap R)
    BY <1>4, <1>7, FS_Union
  <2> QED
    BY <1>6, <1>7, <2>1 DEF Amount
<1>9. Cardinality({}) = 0
  BY FS_EmptySet
<1> QED
  BY <1>4, <1>5, <1>8, <1>9 DEF Amount, u

(* What lists of one element and of none have. *)
LEMMA AmountOne ==
  ASSUME NEW e, NEW T
  PROVE  Amount(<<e>>, T) = (IF e \in T THEN 1 ELSE 0) /\ Amount(<<>>, T) = 0
<1>1. Places(<<e>>, T) = IF e \in T THEN {1} ELSE {}
  BY DEF Places
<1>2. Places(<<>>, T) = {}
  BY DEF Places
<1> QED
  BY <1>1, <1>2, FS_EmptySet, FS_Singleton DEF Amount

(* Numbered sets, one after the other. *)
Spread(f, n) == UNION {{r} \X f[r] : r \in 1..n}

(* A set more adds its members. *)
LEMMA SpreadAdds ==
  ASSUME NEW f, NEW n \in Nat, \A r \in 1..n : IsFiniteSet(f[r])
  PROVE  /\ Spread(f, 0) = {}
         /\ \A m \in 0..n : IsFiniteSet(Spread(f, m)) /\ Cardinality(Spread(f, m)) \in Nat
         /\ \A m \in 0..(n - 1) :
              Cardinality(Spread(f, m + 1)) = Cardinality(Spread(f, m)) + Cardinality(f[m + 1])
<1> DEFINE Add(m) == {m} \X f[m]
           Good(m) == IsFiniteSet(Spread(f, m))
           T == {m \in Nat : m <= n => Good(m)}
<1>1. Spread(f, 0) = {}
  <2>1. 1..0 = {}
    OBVIOUS
  <2> QED
    BY <2>1 DEF Spread
<1>2. ASSUME NEW m \in 1..n
      PROVE  IsFiniteSet(Add(m)) /\ Cardinality(Add(m)) = Cardinality(f[m])
  <2> DEFINE g == [x \in f[m] |-> <<m, x>>]
  <2>1. g \in Bijection(f[m], Add(m))
    <3>1. g \in [f[m] -> Add(m)]
      OBVIOUS
    <3>2. \A x, y \in f[m] : g[x] = g[y] => x = y
      OBVIOUS
    <3>3. \A z \in Add(m) : \E x \in f[m] : g[x] = z
      OBVIOUS
    <3> HIDE DEF g, Add
    <3> QED
      BY <3>1, <3>2, <3>3 DEF Bijection, Injection, Surjection, IsInjective
  <2>2. ExistsBijection(f[m], Add(m))
    BY <2>1 DEF ExistsBijection
  <2> QED
    BY <2>2, FS_Bijection
<1>3. ASSUME NEW m \in 0..(n - 1)
      PROVE  /\ Spread(f, m + 1) = Spread(f, m) \cup Add(m + 1)
             /\ Spread(f, m) \cap Add(m + 1) = {} /\ m + 1 \in 1..n
  <2>1. \A r : r \in 1..(m + 1) <=> r \in 1..m \/ r = m + 1
    OBVIOUS
  <2>2. \A r \in 1..m : r # m + 1
    OBVIOUS
  <2> QED
    BY <2>1, <2>2 DEF Spread
<1> HIDE DEF Add
<1>4. 0 \in T
  BY <1>1, FS_EmptySet
<1>5. ASSUME NEW m \in Nat, m \in T
      PROVE  m + 1 \in T
  <2> SUFFICES ASSUME m + 1 <= n PROVE Good(m + 1)
    OBVIOUS
  <2>1. m \in 0..(n - 1) /\ Good(m)
    BY <1>5
  <2>2. IsFiniteSet(Spread(f, m)) /\ IsFiniteSet(Add(m + 1))
    BY <1>2, <1>3, <2>1
  <2>3. IsFiniteSet(Spread(f, m) \cup Add(m + 1))
    BY ONLY <2>2, FS_Union
  <2> QED
    BY <1>3, <2>1, <2>3
<1> HIDE DEF T
<1>6. \A m \in Nat : m \in T
  BY ONLY <1>4, <1>5, SetInduction
<1>7. \A m \in 0..n : IsFiniteSet(Spread(f, m)) /\ Cardinality(Spread(f, m)) \in Nat
  <2>1. \A m \in 0..n : IsFiniteSet(Spread(f, m))
    BY <1>6 DEF T
  <2> QED
    BY <2>1, FS_CardinalityType
<1>8. ASSUME NEW m \in 0..(n - 1)
      PROVE  Cardinality(Spread(f, m + 1)) = Cardinality(Spread(f, m)) + Cardinality(f[m + 1])
  <2>1. /\ IsFiniteSet(Spread(f, m)) /\ IsFiniteSet(Add(m + 1))
        /\ Cardinality(Spread(f, m)) \in Nat /\ Cardinality(Add(m + 1)) = Cardinality(f[m + 1])
        /\ m \in 0..n
    BY <1>2, <1>3, <1>7
  <2>2. Cardinality(Add(m + 1)) \in Nat
    BY <2>1, FS_CardinalityType
  <2>3. Cardinality(Spread(f, m) \cup Add(m + 1))
          = Cardinality(Spread(f, m)) + Cardinality(Add(m + 1)) - Cardinality({})
    BY <1>3, <2>1, FS_Union
  <2>4. Cardinality({}) = 0
    BY FS_EmptySet
  <2>5. PICK x, y \in Nat : x = Cardinality(Spread(f, m)) /\ y = Cardinality(f[m + 1])
    BY <2>1, <2>2
  <2>6. Cardinality(Spread(f, m) \cup Add(m + 1)) = x + y - 0
    BY <2>1, <2>3, <2>4, <2>5
  <2>7. Cardinality(Spread(f, m) \cup Add(m + 1)) = x + y
    BY <2>6
  <2> QED
    BY <1>3, <2>5, <2>7
<1> QED
  BY <1>1, <1>7, <1>8

(* Sets that are as large, one by one, are as large together. *)
LEMMA SpreadEqual ==
  ASSUME NEW n \in Nat, NEW f, NEW g,
         \A r \in 1..n : IsFiniteSet(f[r]) /\ IsFiniteSet(g[r])
                         /\ Cardinality(f[r]) = Cardinality(g[r])
  PROVE  Cardinality(Spread(f, n)) = Cardinality(Spread(g, n))
<1> DEFINE T == {m \in Nat : m <= n => Cardinality(Spread(f, m)) = Cardinality(Spread(g, m))}
<1>1. /\ Spread(f, 0) = {} /\ Spread(g, 0) = {}
      /\ \A m \in 0..(n - 1) :
           /\ Cardinality(Spread(f, m + 1)) = Cardinality(Spread(f, m)) + Cardinality(f[m + 1])
           /\ Cardinality(Spread(g, m + 1)) = Cardinality(Spread(g, m)) + Cardinality(g[m + 1])
  BY SpreadAdds
<1>2. 0 \in T
  BY <1>1
<1>3. ASSUME NEW m \in Nat, m \in T
      PROVE  m + 1 \in T
  <2> SUFFICES ASSUME m + 1 <= n
               PROVE  Cardinality(Spread(f, m + 1)) = Cardinality(Spread(g, m + 1))
    OBVIOUS
  <2>1. m \in 0..(n - 1) /\ m + 1 \in 1..n /\ m <= n
    OBVIOUS
  <2>2. Cardinality(Spread(f, m)) = Cardinality(Spread(g, m))
    BY <1>3, <2>1
  <2> QED
    BY <1>1, <2>1, <2>2
<1> HIDE DEF T
<1>4. n \in T
  BY ONLY n \in Nat, <1>2, <1>3, SetInduction
<1> QED
  BY <1>4 DEF T

(* The elements of rows, row by row. *)
LEMMA AmountFlatten ==
  ASSUME NEW S, NEW q \in Seq(Seq(S)), NEW T, NEW f,
         f = [r \in DOMAIN q |-> Places(q[r], T)]
  PROVE  Amount(FlattenSeq(q), T) = Cardinality(Spread(f, Len(q)))
<1> DEFINE n == Len(q) P(m) == SubSeq(q, 1, m)
           Good(m) == Amount(FlattenSeq(P(m)), T) = Cardinality(Spread(f, m))
           U == {m \in Nat : m <= n => Good(m)}
<1>1. n \in Nat /\ DOMAIN q = 1..n /\ \A r \in 1..n : q[r] \in Seq(S)
  OBVIOUS
<1>2. \A r \in 1..n : IsFiniteSet(f[r]) /\ Cardinality(f[r]) = Amount(q[r], T)
  BY <1>1, PlacesFinite DEF Amount
<1>3. /\ Spread(f, 0) = {}
      /\ \A m \in 0..(n - 1) :
           Cardinality(Spread(f, m + 1)) = Cardinality(Spread(f, m)) + Cardinality(f[m + 1])
  BY <1>1, <1>2, SpreadAdds
<1>4. 0 \in U
  <2>1. P(0) = <<>>
    OBVIOUS
  <2>2. Amount(<<>>, T) = 0 /\ Cardinality({}) = 0
    BY AmountOne, FS_EmptySet
  <2> HIDE DEF P
  <2> QED
    BY <1>3, <2>1, <2>2, FlattenNothing
<1>5. ASSUME NEW m \in Nat, m \in U
      PROVE  m + 1 \in U
  <2> SUFFICES ASSUME m + 1 <= n PROVE Good(m + 1)
    OBVIOUS
  <2>1. /\ P(m) \in Seq(Seq(S)) /\ q[m + 1] \in Seq(S)
        /\ P(m + 1) = Append(P(m), q[m + 1])
    BY PrefixSplits
  <2>2. m \in 0..(n - 1) /\ m + 1 \in 1..n /\ Good(m)
    BY <1>1, <1>5
  <2> HIDE DEF P
  <2>3. FlattenSeq(P(m + 1)) = FlattenSeq(P(m)) \o q[m + 1] /\ FlattenSeq(P(m)) \in Seq(S)
    BY <2>1, FlattenAppend, FlattenType
  <2>4. Amount(FlattenSeq(P(m)) \o q[m + 1], T)
          = Amount(FlattenSeq(P(m)), T) + Amount(q[m + 1], T)
    BY <2>1, <2>3, AmountConcat
  <2> QED
    BY <1>2, <1>3, <2>2, <2>3, <2>4
<1> HIDE DEF U, P, Good
<1>6. n \in U
  BY ONLY <1>1, <1>4, <1>5, SetInduction
<1>7. Good(n) /\ P(n) = q
  <2>1. P(n) = q
    BY DEF P
  <2> QED
    BY <1>1, <1>6, <2>1 DEF U
<1> QED
  BY <1>7 DEF Good

(* Sets whose members correspond are as large. *)
LEMMA AsMany ==
  ASSUME NEW A, NEW B, IsFiniteSet(A), NEW f \in [A -> B], NEW g \in [B -> A],
         \A a \in A : g[f[a]] = a, \A b \in B : f[g[b]] = b
  PROVE  IsFiniteSet(B) /\ Cardinality(A) = Cardinality(B)
<1>1. \A a, b \in A : f[a] = f[b] => a = b
  <2> SUFFICES ASSUME NEW a \in A, NEW b \in A, f[a] = f[b] PROVE a = b
    OBVIOUS
  <2>1. g[f[a]] = a /\ g[f[b]] = b
    OBVIOUS
  <2> QED
    BY <2>1
<1>2. \A b \in B : \E a \in A : f[a] = b
  OBVIOUS
<1>3. f \in Bijection(A, B)
  BY <1>1, <1>2 DEF Bijection, Injection, Surjection, IsInjective
<1>4. ExistsBijection(A, B)
  BY <1>3 DEF ExistsBijection
<1> QED
  BY <1>4, FS_Bijection

(* The members of numbered sets. *)
LEMMA SpreadMembers ==
  ASSUME NEW f, NEW n
  PROVE  \A x : x \in Spread(f, n) <=> \E r \in 1..n : \E k \in f[r] : x = <<r, k>>
  BY DEF Spread

(* Rows put together, of each of which the elements are rows put together. *)
LEMMA FlattenTwice ==
  ASSUME NEW S, NEW R, NEW f, Into(f, S, Seq(R)), NEW q \in Seq(Seq(S)),
         NEW r, r = [i \in DOMAIN q |-> FlattenSeq(Mapped(f, q[i]))]
  PROVE  r \in Seq(Seq(R)) /\ FlattenSeq(Mapped(f, FlattenSeq(q))) = FlattenSeq(r)
<1> DEFINE n == Len(q) P(m) == SubSeq(q, 1, m) D(m) == SubSeq(r, 1, m)
           Good(m) == FlattenSeq(Mapped(f, FlattenSeq(P(m)))) = FlattenSeq(D(m))
           T == {m \in Nat : m <= n => Good(m)}
<1>0. \A x, y \in Seq(S) : Mapped(f, x \o y) = Mapped(f, x) \o Mapped(f, y)
  <2> SUFFICES ASSUME NEW x, NEW y, x \in Seq(S), y \in Seq(S)
               PROVE  Mapped(f, x \o y) = Mapped(f, x) \o Mapped(f, y)
    OBVIOUS
  <2> QED
    BY ONLY Into(f, S, Seq(R)), x \in Seq(S), y \in Seq(S), MappedConcat
<1>1. n \in Nat /\ DOMAIN q = 1..n /\ \A i \in 1..n : q[i] \in Seq(S)
  OBVIOUS
<1>2. r \in Seq(Seq(R)) /\ Len(r) = n
  <2>1. \A i \in 1..n : Mapped(f, q[i]) \in Seq(Seq(R))
    BY <1>1, MappedType
  <2>2. \A i \in 1..n : FlattenSeq(Mapped(f, q[i])) \in Seq(R)
    BY <2>1, FlattenType
  <2> QED
    BY <1>1, <2>2
<1>3. P(n) = q /\ D(n) = r
  BY <1>2
<1>4. 0 \in T
  <2>1. P(0) = <<>> /\ D(0) = <<>>
    BY <1>2
  <2>2. Mapped(f, <<>>) = <<>>
    BY DEF Mapped
  <2> HIDE DEF P, D
  <2> QED
    BY <2>1, <2>2, FlattenNothing
<1>5. ASSUME NEW m \in Nat, m \in T
      PROVE  m + 1 \in T
  <2> SUFFICES ASSUME m + 1 <= n PROVE Good(m + 1)
    OBVIOUS
  <2>1. /\ P(m) \in Seq(Seq(S)) /\ q[m + 1] \in Seq(S)
        /\ P(m + 1) = Append(P(m), q[m + 1])
    BY PrefixSplits
  <2>2. /\ D(m) \in Seq(Seq(R)) /\ r[m + 1] \in Seq(R)
        /\ D(m + 1) = Append(D(m), r[m + 1])
    BY <1>2, PrefixSplits
  <2>3. Good(m) /\ r[m + 1] = FlattenSeq(Mapped(f, q[m + 1]))
    BY <1>1, <1>5
  <2> HIDE DEF P, D
  <2>4. FlattenSeq(D(m + 1)) = FlattenSeq(D(m)) \o r[m + 1]
    BY <2>2, FlattenAppend
  <2>5. FlattenSeq(P(m + 1)) = FlattenSeq(P(m)) \o q[m + 1] /\ FlattenSeq(P(m)) \in Seq(S)
    BY <2>1, FlattenAppend, FlattenType
  <2>6. Mapped(f, FlattenSeq(P(m)) \o q[m + 1])
          = Mapped(f, FlattenSeq(P(m))) \o Mapped(f, q[m + 1])
    <3>1. FlattenSeq(P(m)) \in Seq(S) /\ q[m + 1] \in Seq(S)
      BY <2>1, <2>5
    <3> QED
      BY <1>0, <3>1
  <2>7. /\ Mapped(f, FlattenSeq(P(m))) \in Seq(Seq(R))
        /\ Mapped(f, q[m + 1]) \in Seq(Seq(R))
    BY <2>1, <2>5, MappedType
  <2>8. FlattenSeq(Mapped(f, FlattenSeq(P(m))) \o Mapped(f, q[m + 1]))
          = FlattenSeq(Mapped(f, FlattenSeq(P(m)))) \o FlattenSeq(Mapped(f, q[m + 1]))
    BY <2>7, FlattenConcat
  <2> QED
    BY <2>3, <2>4, <2>5, <2>6, <2>8
<1> HIDE DEF T, P, D, Good
<1>6. n \in T
  BY ONLY <1>1, <1>4, <1>5, SetInduction
<1>7. Good(n)
  BY <1>1, <1>6 DEF T
<1> QED
  BY <1>2, <1>3, <1>7 DEF Good

(* Sets one of which is mapped onto the other are as large. *)
LEMMA AsManyOnto ==
  ASSUME NEW A, NEW B, IsFiniteSet(A), NEW f, \A a \in A : f[a] \in B, f = [a \in A |-> f[a]],
         \A a, b \in A : f[a] = f[b] => a = b, \A b \in B : \E a \in A : f[a] = b
  PROVE  IsFiniteSet(B) /\ Cardinality(A) = Cardinality(B)
<1>1. f \in [A -> B]
  OBVIOUS
<1>2. f \in Bijection(A, B)
  BY <1>1 DEF Bijection, Injection, Surjection, IsInjective
<1>3. ExistsBijection(A, B)
  BY <1>2 DEF ExistsBijection
<1> QED
  BY <1>3, FS_Bijection

(* Numbers that add up, and one of them that is all there is. *)
AddUp(c, f, n) ==
  /\ \A j \in 1..n : c[j] \in Nat
  /\ f[0] = 0 /\ \A m \in 0..(n - 1) : f[m + 1] = f[m] + c[m + 1]
Alone(c, i, n) == \A j \in 1..n : j # i => c[j] = 0

(* One of several numbers that add up is at most the sum, and is the sum when  *)
(* the others are none.                                                        *)
LEMMA SumShare ==
  ASSUME NEW n \in Nat, NEW C, NEW F, AddUp(C, F, n), NEW i \in 1..n
  PROVE  C[i] <= F[n] /\ (Alone(C, i, n) => F[n] = C[i])
<1>a. /\ \A j \in 1..n : C[j] \in Nat
      /\ F[0] = 0 /\ \A m \in 0..(n - 1) : F[m + 1] = F[m] + C[m + 1]
  BY DEF AddUp
<1> DEFINE Good(m) == /\ F[m] \in Nat
                      /\ i <= m => C[i] <= F[m]
                      /\ Alone(C, i, n) => F[m] = IF i <= m THEN C[i] ELSE 0
           T == {m \in Nat : m <= n => Good(m)}
<1>1. 0 \in T
  BY <1>a
<1>2. ASSUME NEW m \in Nat, m \in T
      PROVE  m + 1 \in T
  <2> SUFFICES ASSUME m + 1 <= n PROVE Good(m + 1)
    OBVIOUS
  <2>1. m + 1 \in 1..n /\ F[m + 1] = F[m] + C[m + 1] /\ C[m + 1] \in Nat
    BY <1>a
  <2>2. Good(m)
    BY <1>2
  <2>3. PICK a \in Nat : a = F[m]
    BY <2>2
  <2>4. PICK c \in Nat : c = C[m + 1]
    BY <2>1
  <2>5. CASE i = m + 1
    BY <2>1, <2>2, <2>3, <2>4, <2>5
  <2>6. CASE i # m + 1
    <3>1. i <= m + 1 <=> i <= m
      BY <2>6
    <3>2. PICK b \in Nat : b = C[i]
      BY <1>a
    <3>5. Alone(C, i, n) => C[m + 1] = 0
      BY <2>1, <2>6 DEF Alone
    <3>3. i <= m => b <= a
      BY <2>2, <2>3, <3>2
    <3>4. i <= m => b <= a + c
      BY ONLY <3>3, a \in Nat, b \in Nat, c \in Nat
    <3> QED
      BY <2>1, <2>2, <2>3, <2>4, <2>6, <3>1, <3>2, <3>4, <3>5
  <2> QED
    BY <2>5, <2>6
<1> HIDE DEF T
<1>3. n \in T
  BY ONLY n \in Nat, <1>1, <1>2, SetInduction
<1> QED
  BY <1>3 DEF T
=============================================================================
