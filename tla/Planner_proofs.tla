--------------------------- MODULE Planner_proofs ---------------------------
(* Proofs about the search of the planner, for every inventory and every list  *)
(* of packages: what it has taken, what it still needs and what its copy of    *)
(* the inventory holds always make up what it was given, and every round       *)
(* brings it nearer to its end.  And about the batches it builds: a batch is   *)
(* for one line, and no gripper is commanded while another drops its boxes.    *)
EXTENDS Planner, SequenceFacts, FiniteSetTheorems

-----------------------------------------------------------------------------
(* Counting the boxes of a pile *)

(* Where a box stands in a pile. *)
At(s, x) == {i \in DOMAIN s : s[i] = x}

(* How often a box occurs in a pile is a number, none when no place holds     *)
(* it.                                                                        *)
LEMMA CountType ==
  ASSUME NEW S, NEW s \in Seq(S), NEW x
  PROVE  /\ IsFiniteSet(At(s, x)) /\ Count(s, x) = Cardinality(At(s, x))
         /\ Count(s, x) \in Nat /\ Count(s, x) <= Len(s)
         /\ Count(s, x) = 0 <=> \A i \in DOMAIN s : s[i] # x
<1>1. Len(s) \in Nat /\ DOMAIN s = 1..Len(s)
  OBVIOUS
<1>2. IsFiniteSet(1..Len(s)) /\ Cardinality(1..Len(s)) = Len(s)
  <2>1. Cardinality(1..Len(s)) = IF 1 > Len(s) THEN 0 ELSE Len(s) - 1 + 1
    BY <1>1, FS_Interval
  <2>2. IsFiniteSet(1..Len(s))
    BY <1>1, FS_Interval
  <2> QED
    BY <1>1, <2>1, <2>2
<1>3. At(s, x) \in SUBSET (1..Len(s))
  BY <1>1 DEF At
<1>4. IsFiniteSet(At(s, x)) /\ Cardinality(At(s, x)) <= Len(s)
  BY <1>2, <1>3, FS_Subset
<1>5. Cardinality(At(s, x)) \in Nat /\ (Cardinality(At(s, x)) = 0 <=> At(s, x) = {})
  BY <1>4, FS_CardinalityType, FS_EmptySet
<1>6. Count(s, x) = Cardinality(At(s, x))
  BY DEF Count, At
<1>7. At(s, x) = {} <=> \A i \in DOMAIN s : s[i] # x
  BY DEF At
<1> QED
  BY <1>4, <1>5, <1>6, <1>7

(* Counting boxes adds up over concatenation. *)
LEMMA CountConcat ==
  ASSUME NEW S, NEW s \in Seq(S), NEW t \in Seq(S), NEW x
  PROVE  Count(s \o t, x) = Count(s, x) + Count(t, x)
<1> DEFINE n == Len(s) m == Len(t) u == s \o t
           f == [i \in At(t, x) |-> n + i]
           R == {n + i : i \in At(t, x)}
<1>1. /\ n \in Nat /\ m \in Nat /\ u \in Seq(S) /\ Len(u) = n + m
      /\ DOMAIN s = 1..n /\ DOMAIN t = 1..m /\ DOMAIN u = 1..(n + m)
      /\ \A i \in 1..n : u[i] = s[i]
      /\ \A i \in 1..m : u[n + i] = t[i]
  <2>1. n \in Nat /\ m \in Nat /\ u \in Seq(S) /\ Len(u) = n + m
    BY ConcatProperties
  <2>2. \A i \in 1..(n + m) : u[i] = IF i <= n THEN s[i] ELSE t[i - n]
    BY ConcatProperties
  <2>3. \A i \in 1..m : n + i \in 1..(n + m) /\ ~(n + i <= n) /\ (n + i) - n = i
    BY <2>1
  <2>4. \A i \in 1..n : i \in 1..(n + m) /\ i <= n
    BY <2>1
  <2> HIDE DEF n, m, u
  <2>5. DOMAIN u = 1..(n + m)
    BY <2>1
  <2>6. DOMAIN s = 1..n /\ DOMAIN t = 1..m
    BY DEF n, m
  <2> QED
    BY <2>1, <2>2, <2>3, <2>4, <2>5, <2>6
<1> HIDE DEF n, m, u
<1>2. At(u, x) = At(s, x) \cup R
  <2>1. \A i \in 1..(n + m) : i \in 1..n \/ (i - n \in 1..m /\ i = n + (i - n))
    BY <1>1
  <2>2. ASSUME NEW i \in At(u, x) PROVE i \in At(s, x) \cup R
    <3>1. i \in 1..(n + m) /\ u[i] = x
      BY <1>1, <2>2 DEF At
    <3>2. CASE i \in 1..n
      BY <1>1, <3>1, <3>2 DEF At
    <3>3. CASE i - n \in 1..m /\ i = n + (i - n)
      <4>1. t[i - n] = x
        BY <1>1, <3>1, <3>3
      <4>2. i - n \in At(t, x)
        BY <1>1, <3>3, <4>1 DEF At
      <4> QED
        BY <3>3, <4>2
    <3> QED
      BY <2>1, <3>1, <3>2, <3>3
  <2>3. ASSUME NEW i \in At(s, x) PROVE i \in At(u, x)
    <3>1. i \in 1..n /\ i \in 1..(n + m) /\ s[i] = x
      BY <1>1, <2>3 DEF At
    <3> QED
      BY <1>1, <3>1 DEF At
  <2>4. ASSUME NEW i \in At(t, x) PROVE n + i \in At(u, x)
    <3>1. i \in 1..m /\ n + i \in 1..(n + m) /\ t[i] = x
      BY <1>1, <2>4 DEF At
    <3> QED
      BY <1>1, <3>1 DEF At
  <2> QED
    BY <2>2, <2>3, <2>4
<1>3. At(s, x) \cap R = {}
  BY <1>1 DEF At
<1>4. IsFiniteSet(R) /\ Cardinality(R) = Cardinality(At(t, x)) /\ IsFiniteSet(At(t, x))
  <2>1. At(t, x) \subseteq Int
    BY <1>1 DEF At
  <2>2. f \in Bijection(At(t, x), R)
    BY <1>1, <2>1 DEF Bijection, Injection, Surjection, IsInjective
  <2>3. ExistsBijection(At(t, x), R)
    BY <2>2 DEF ExistsBijection
  <2>4. IsFiniteSet(At(t, x))
    BY CountType
  <2> QED
    BY <2>3, <2>4, FS_Bijection
<1>5. IsFiniteSet(At(s, x))
  BY CountType
<1>6. Cardinality(At(u, x)) = Cardinality(At(s, x)) + Cardinality(At(t, x)) - Cardinality({})
  BY <1>2, <1>3, <1>4, <1>5, FS_Union
<1>7. Cardinality({}) = 0
  BY FS_EmptySet
<1>8. Count(s, x) = Cardinality(At(s, x)) /\ Count(t, x) = Cardinality(At(t, x))
      /\ Count(u, x) = Cardinality(At(u, x)) /\ Count(s, x) \in Nat /\ Count(t, x) \in Nat
  BY <1>1, CountType
<1>9. Count(u, x) = Count(s, x) + Count(t, x)
  BY <1>6, <1>7, <1>8
<1> QED
  BY <1>9 DEF u

(* A pile of one box, and the empty pile. *)
LEMMA CountOne ==
  ASSUME NEW e, NEW x
  PROVE  Count(<<e>>, x) = (IF e = x THEN 1 ELSE 0) /\ Count(<<>>, x) = 0
<1>1. <<e>> \in Seq({e}) /\ <<>> \in Seq({e}) /\ Len(<<e>>) = 1 /\ <<e>>[1] = e
  OBVIOUS
<1>2. At(<<e>>, x) = IF e = x THEN {1} ELSE {}
  BY DEF At
<1>3. At(<<>>, x) = {}
  BY DEF At
<1>4. Cardinality({1}) = 1 /\ Cardinality({}) = 0
  BY FS_EmptySet, FS_Singleton
<1>5. Count(<<e>>, x) = Cardinality(At(<<e>>, x)) /\ Count(<<>>, x) = Cardinality(At(<<>>, x))
  BY DEF Count, At
<1> QED
  BY <1>2, <1>3, <1>4, <1>5

(* One list holds no more of anything than another. *)
Within(s, t) == \A x : Count(s, x) <= Count(t, x)

(* goods_all_in_need is inclusion of bags. *)
LEMMA AllInNeed ==
  ASSUME NEW S, NEW s \in Seq(S), NEW T, NEW t \in Seq(T)
  PROVE  goods_all_in_need(s, t) <=> Within(s, t)
<1>1. ASSUME goods_all_in_need(s, t), NEW x PROVE Count(s, x) <= Count(t, x)
  <2>1. Count(s, x) \in Nat /\ Count(t, x) \in Nat
    BY CountType
  <2>2. CASE Count(s, x) = 0
    BY <2>1, <2>2
  <2>3. CASE Count(s, x) # 0
    <3>1. PICK i \in DOMAIN s : s[i] = x
      BY <2>3, CountType
    <3> QED
      BY <1>1, <3>1 DEF goods_all_in_need, ToSet
  <2> QED
    BY <2>2, <2>3
<1>2. ASSUME Within(s, t) PROVE goods_all_in_need(s, t)
  BY <1>2 DEF Within, goods_all_in_need
<1> QED
  BY <1>1, <1>2 DEF Within

(* The first boxes of a pile are within the pile. *)
LEMMA CountPrefix ==
  ASSUME NEW S, NEW s \in Seq(S), NEW n \in 0..Len(s)
  PROVE  /\ SubSeq(s, 1, n) \in Seq(S) /\ SubSeq(s, n + 1, Len(s)) \in Seq(S)
         /\ Len(SubSeq(s, 1, n)) = n /\ Len(SubSeq(s, n + 1, Len(s))) = Len(s) - n
         /\ \A x : Count(s, x) = Count(SubSeq(s, 1, n), x)
                                 + Count(SubSeq(s, n + 1, Len(s)), x)
<1> DEFINE p == SubSeq(s, 1, n) q == SubSeq(s, n + 1, Len(s)) v == p \o q
<1>1. Len(s) \in Nat /\ n \in Nat
  OBVIOUS
<1>2. p \in Seq(S) /\ Len(p) = n /\ \A i \in 1..n : p[i] = s[i]
  BY <1>1
<1>3. q \in Seq(S) /\ Len(q) = Len(s) - n /\ \A i \in 1..(Len(s) - n) : q[i] = s[n + i]
  BY <1>1
<1> HIDE DEF p, q
<1>4. v = s
  <2>1. v \in Seq(S) /\ Len(v) = Len(s)
    <3>1. v \in Seq(S) /\ Len(v) = Len(p) + Len(q)
      BY <1>2, <1>3, ConcatProperties
    <3> QED
      BY ONLY <1>1, <1>2, <1>3, <3>1
  <2>2. \A i \in 1..Len(s) : v[i] = IF i <= n THEN p[i] ELSE q[i - n]
    BY <1>1, <1>2, <1>3, ConcatProperties
  <2> HIDE DEF v
  <2>3. \A i \in 1..Len(s) : i \in 1..n \/ (i - n \in 1..(Len(s) - n) /\ n + (i - n) = i)
    BY <1>1
  <2>4. \A i \in 1..Len(s) : v[i] = s[i]
    <3> SUFFICES ASSUME NEW i \in 1..Len(s) PROVE v[i] = s[i]
      OBVIOUS
    <3>1. CASE i \in 1..n
      BY <1>1, <1>2, <2>2, <3>1
    <3>2. CASE i - n \in 1..(Len(s) - n) /\ n + (i - n) = i
      <4>1. ~(i <= n)
        BY <1>1, <3>2
      <4> QED
        BY <1>3, <2>2, <3>2, <4>1
    <3> QED
      BY <2>3, <3>1, <3>2
  <2> QED
    BY <2>1, <2>4, SeqEqual
<1>5. \A x : Count(v, x) = Count(p, x) + Count(q, x)
  BY <1>2, <1>3, CountConcat
<1> QED
  BY <1>2, <1>3, <1>4, <1>5 DEF p, q

(* Removing the first of something leaves one less of it, and all else.        *)
LEMMA RemoveFirstCount ==
  ASSUME NEW S, NEW s \in Seq(S), NEW e, Count(s, e) # 0
  PROVE  /\ RemoveFirst(s, e) \in Seq(S) /\ Len(RemoveFirst(s, e)) = Len(s) - 1
         /\ \A x : Count(RemoveFirst(s, e), x) = Count(s, x) - (IF x = e THEN 1 ELSE 0)
<1> DEFINE I == {i \in 1..Len(s) : s[i] = e}
           m == Min(I)
           p == SubSeq(s, 1, m - 1) q == SubSeq(s, m + 1, Len(s))
<1>1. Len(s) \in Nat /\ DOMAIN s = 1..Len(s)
  OBVIOUS
<1>2. I # {} /\ I \in SUBSET Nat
  BY <1>1, CountType
<1>3. RemoveFirst(s, e) = p \o q
  BY <1>2 DEF RemoveFirst, RemoveAt, SelectInSeq
<1>4. m \in I
  <2> HIDE DEF I
  <2> QED
    BY <1>2, SmallestNumber
<1>5. m \in 1..Len(s) /\ s[m] = e /\ e \in S
  BY <1>4
<1> HIDE DEF m, I
<1>6. p \in Seq(S) /\ Len(p) = m - 1 /\ \A i \in 1..(m - 1) : p[i] = s[i]
  BY <1>1, <1>5
<1>7. q \in Seq(S) /\ Len(q) = Len(s) - m /\ \A i \in 1..(Len(s) - m) : q[i] = s[m + i]
  <2>1. q \in Seq(S) /\ Len(q) = Len(s) - m
    <3>1. PICK n \in 1..Len(s) : n = m
      BY <1>5
    <3>2. /\ SubSeq(s, n + 1, Len(s)) \in Seq(S)
          /\ Len(SubSeq(s, n + 1, Len(s))) = Len(s) - n
      <4>1. n \in 0..Len(s)
        BY <1>1
      <4> QED
        BY <4>1, CountPrefix
    <3> QED
      BY <3>1, <3>2
  <2>2. \A i \in 1..(Len(s) - m) : q[i] = s[m + i]
    BY <1>1, <1>5
  <2> QED
    BY <2>1, <2>2
<1> HIDE DEF p, q
<1> DEFINE h == <<e>> u == p \o h v == u \o q
<1>8. h \in Seq(S) /\ Len(h) = 1 /\ h[1] = e
  BY <1>5
<1> HIDE DEF h
<1>9. u \in Seq(S) /\ Len(u) = m /\ (\A i \in 1..(m - 1) : u[i] = s[i]) /\ u[m] = s[m]
  <2>1. u \in Seq(S) /\ Len(u) = m
    <3>1. p \in Seq(S) /\ h \in Seq(S) /\ Len(p) = m - 1 /\ Len(h) = 1 /\ m \in Nat
      BY <1>5, <1>6, <1>8
    <3>2. u \in Seq(S) /\ Len(u) = Len(p) + Len(h)
      BY ONLY <3>1, ConcatProperties
    <3> QED
      BY ONLY <3>1, <3>2
  <2>2. \A i \in 1..m : u[i] = IF i <= m - 1 THEN p[i] ELSE h[i - (m - 1)]
    <3>1. \A i \in 1..(Len(p) + Len(h)) : u[i] = IF i <= Len(p) THEN p[i] ELSE h[i - Len(p)]
      BY <1>6, <1>8, ConcatProperties
    <3> QED
      <4>1. Len(p) = m - 1 /\ Len(p) + Len(h) = m
        BY <1>5, <1>6, <1>8
      <4> QED
        BY ONLY <3>1, <4>1
  <2> HIDE DEF u
  <2>3. \A i \in 1..(m - 1) : i \in 1..m /\ i <= m - 1
    BY <1>5
  <2>4. m \in 1..m /\ ~(m <= m - 1) /\ m - (m - 1) = 1
    BY <1>5
  <2> QED
    BY <1>5, <1>6, <1>8, <2>1, <2>2, <2>3, <2>4
<1> HIDE DEF u
<1>10. v = s
  <2>1. v \in Seq(S) /\ Len(v) = Len(s)
    <3>1. v \in Seq(S) /\ Len(v) = Len(u) + Len(q)
      BY <1>7, <1>9, ConcatProperties
    <3> QED
      BY ONLY <1>1, <1>5, <1>7, <1>9, <3>1
  <2>2. \A i \in 1..Len(s) : v[i] = IF i <= m THEN u[i] ELSE q[i - m]
    BY <1>1, <1>5, <1>7, <1>9, ConcatProperties
  <2> HIDE DEF v
  <2>3. \A i \in 1..Len(s) : i \in 1..(m - 1) \/ i = m \/ (i - m \in 1..(Len(s) - m) /\ m + (i - m) = i)
    BY <1>1, <1>5
  <2>4. \A i \in 1..Len(s) : v[i] = s[i]
    <3> SUFFICES ASSUME NEW i \in 1..Len(s) PROVE v[i] = s[i]
      OBVIOUS
    <3>1. CASE i \in 1..(m - 1)
      BY <1>5, <1>9, <2>2, <3>1
    <3>2. CASE i = m
      BY <1>5, <1>9, <2>2, <3>2
    <3>3. CASE i - m \in 1..(Len(s) - m) /\ m + (i - m) = i
      <4>1. ~(i <= m)
        BY <1>1, <1>5, <3>3
      <4> QED
        BY <1>7, <2>2, <3>3, <4>1
    <3> QED
      BY <2>3, <3>1, <3>2, <3>3
  <2> QED
    BY <2>1, <2>4, SeqEqual
<1>11. ASSUME NEW x
       PROVE  Count(p \o q, x) = Count(s, x) - (IF x = e THEN 1 ELSE 0)
  <2>1. Count(p \o q, x) = Count(p, x) + Count(q, x)
    BY <1>6, <1>7, CountConcat
  <2>2. Count(u, x) = Count(p, x) + Count(h, x)
    BY <1>6, <1>8, CountConcat DEF u
  <2>3. Count(s, x) = Count(u, x) + Count(q, x)
    BY <1>7, <1>9, <1>10, CountConcat DEF v
  <2>4. Count(h, x) = IF x = e THEN 1 ELSE 0
    BY CountOne DEF h
  <2>5. Count(p, x) \in Nat /\ Count(q, x) \in Nat
    BY <1>6, <1>7, CountType
  <2> QED
    BY <2>1, <2>2, <2>3, <2>4, <2>5
<1>12. p \o q \in Seq(S) /\ Len(p \o q) = Len(s) - 1
  <2>1. p \o q \in Seq(S) /\ Len(p \o q) = Len(p) + Len(q)
    BY <1>6, <1>7, ConcatProperties
  <2> QED
    BY ONLY <1>1, <1>5, <1>6, <1>7, <2>1
<1> QED
  BY <1>3, <1>11, <1>12

(* Removing boxes that are all there leaves the others. *)
LEMMA WithoutCount ==
  ASSUME NEW S, NEW s \in Seq(S), NEW T, NEW t \in Seq(T), Within(t, s)
  PROVE  /\ Without(s, t) \in Seq(S) /\ Len(Without(s, t)) = Len(s) - Len(t)
         /\ \A x : Count(Without(s, t), x) = Count(s, x) - Count(t, x)
<1> DEFINE n == Len(t)
           f == CHOOSE g : Removes(s, t, g, n)
           R(r, i) == /\ r \in Seq(S) /\ Len(r) = Len(s) - i
                      /\ \A x : Count(r, x) = Count(s, x) - Count(SubSeq(t, 1, i), x)
           U == {i \in Nat : i <= n => R(f[i], i)}
<1>1. n \in Nat /\ Len(s) \in Nat
  OBVIOUS
<1>2. Without(s, t) = f[n]
  BY Zenon DEF Without, Removes
<1>3. Removes(s, t, f, n)
  BY <1>1, RemovesExists
<1> HIDE DEF f
<1>4. \A i \in 0..n : f[i] = IF i = 0 THEN s ELSE RemoveFirst(f[i - 1], t[i])
  BY <1>3 DEF Removes
<1> HIDE DEF R
<1>5. 0 \in U
  <2>1. f[0] = s
    BY <1>1, <1>4
  <2>2. SubSeq(t, 1, 0) = <<>>
    OBVIOUS
  <2>3. \A x : Count(SubSeq(t, 1, 0), x) = 0 /\ Count(s, x) \in Nat
    BY <2>2, CountOne, CountType
  <2>4. \A x : Count(s, x) = Count(s, x) - Count(SubSeq(t, 1, 0), x)
    BY <2>3
  <2> QED
    BY <1>1, <2>1, <2>4 DEF R
<1>6. ASSUME NEW i \in Nat, i \in U
      PROVE  i + 1 \in U
  <2> SUFFICES ASSUME i + 1 <= n PROVE R(f[i + 1], i + 1)
    OBVIOUS
  <2>0. i + 1 \in 1..n /\ i \in 0..n /\ (i + 1) - 1 = i /\ i + 1 \in 0..n /\ i + 1 # 0
    BY <1>1
  <2> DEFINE r == f[i] e == t[i + 1] p == SubSeq(t, 1, i) u == SubSeq(t, 1, i + 1)
  <2>1. /\ r \in Seq(S) /\ Len(r) = Len(s) - i
        /\ \A x : Count(r, x) = Count(s, x) - Count(p, x)
    BY <1>1, <1>6, <2>0 DEF R
  <2>2. f[i + 1] = RemoveFirst(r, e)
    BY <1>4, <2>0
  <2>3. e \in T /\ p \in Seq(T) /\ u = Append(p, e)
    BY <2>0, PrefixSplits
  <2>4. u \in Seq(T) /\ \A x : Count(u, x) <= Count(t, x)
    <3>1. u \in Seq(T) /\ SubSeq(t, (i + 1) + 1, Len(t)) \in Seq(T)
          /\ \A x : Count(t, x) = Count(u, x) + Count(SubSeq(t, (i + 1) + 1, Len(t)), x)
      BY <2>0, CountPrefix
    <3> DEFINE w == SubSeq(t, (i + 1) + 1, Len(t))
    <3>2. \A x : Count(u, x) \in Nat /\ Count(w, x) \in Nat
      BY <3>1, CountType
    <3> HIDE DEF u, w
    <3> QED
      BY <3>1, <3>2 DEF w
  <2> HIDE DEF r, e, p, u
  <2>5. \A x : Count(u, x) = Count(p, x) + (IF x = e THEN 1 ELSE 0)
    <3>1. u = p \o <<e>> /\ <<e>> \in Seq(T)
      BY <2>3
    <3>2. \A x : Count(p \o <<e>>, x) = Count(p, x) + Count(<<e>>, x)
      BY <2>3, <3>1, CountConcat
    <3>3. \A x : Count(<<e>>, x) = IF x = e THEN 1 ELSE 0
      BY CountOne
    <3> QED
      BY <3>1, <3>2, <3>3
  <2>6. \A x : Count(p, x) \in Nat /\ Count(s, x) \in Nat /\ Count(t, x) \in Nat
               /\ Count(r, x) \in Nat /\ Count(t, x) <= Count(s, x)
    BY <2>1, <2>3, CountType DEF Within
  <2>7. Count(r, e) # 0
    <3>1. /\ Count(u, e) = Count(p, e) + 1 /\ Count(u, e) <= Count(t, e)
          /\ Count(t, e) <= Count(s, e) /\ Count(r, e) = Count(s, e) - Count(p, e)
          /\ Count(p, e) \in Nat /\ Count(s, e) \in Nat /\ Count(t, e) \in Nat
      BY <2>1, <2>4, <2>5, <2>6
    <3> QED
      BY <3>1
  <2>8. /\ RemoveFirst(r, e) \in Seq(S) /\ Len(RemoveFirst(r, e)) = Len(r) - 1
        /\ \A x : Count(RemoveFirst(r, e), x) = Count(r, x) - (IF x = e THEN 1 ELSE 0)
    <3>1. PICK r1 \in Seq(S) : r1 = r
      BY <2>1
    <3>2. PICK e1 : e1 = e
      OBVIOUS
    <3>3. Count(r1, e1) # 0
      BY <2>7, <3>1, <3>2
    <3>4. /\ RemoveFirst(r1, e1) \in Seq(S) /\ Len(RemoveFirst(r1, e1)) = Len(r1) - 1
          /\ \A x : Count(RemoveFirst(r1, e1), x) = Count(r1, x) - (IF x = e1 THEN 1 ELSE 0)
      BY ONLY <3>3, r1 \in Seq(S), RemoveFirstCount
    <3> QED
      BY ONLY <3>1, <3>2, <3>4
  <2>9. \A x : Count(RemoveFirst(r, e), x) = Count(s, x) - Count(u, x)
    <3> SUFFICES ASSUME NEW x PROVE Count(RemoveFirst(r, e), x) = Count(s, x) - Count(u, x)
      OBVIOUS
    <3>1. CASE x = e
      BY <2>1, <2>5, <2>6, <2>8, <3>1
    <3>2. CASE x # e
      BY <2>1, <2>5, <2>6, <2>8, <3>2
    <3> QED
      BY <3>1, <3>2
  <2>10. Len(RemoveFirst(r, e)) = Len(s) - (i + 1)
    BY <1>1, <2>1, <2>8
  <2> QED
    BY <2>2, <2>8, <2>9, <2>10 DEF R, u
<1> HIDE DEF U
<1>7. \A i \in Nat : i \in U
  BY ONLY <1>5, <1>6, SetInduction
<1>8. R(f[n], n)
  BY <1>1, <1>7 DEF U
<1>9. SubSeq(t, 1, n) = t
  OBVIOUS
<1> QED
  BY <1>2, <1>8, <1>9 DEF R

-----------------------------------------------------------------------------
(* The slots of the cabinets *)

(* The numbers of a slot in AllSlots. *)
LEMMA SlotNumbers ==
  /\ \A i \in 1..48 :
       /\ (i - 1) \div 16 + 1 \in 1..3
       /\ (((i - 1) \div 4) % 4) + 1 \in 1..4 /\ ((i - 1) % 4) + 1 \in 1..4
       /\ i = 16 * ((i - 1) \div 16) + 4 * (((i - 1) \div 4) % 4) + ((i - 1) % 4) + 1
  /\ \A a \in 0..2, b, c \in 0..3 :
       LET i == 16 * a + 4 * b + c + 1
       IN  i \in 1..48 /\ (i - 1) \div 16 = a /\ ((i - 1) \div 4) % 4 = b /\ (i - 1) % 4 = c
<1>1. ASSUME NEW i \in 1..48
      PROVE  (i - 1) \div 16 + 1 \in 1..3
  OBVIOUS
<1>2. ASSUME NEW i \in 1..48
      PROVE  (((i - 1) \div 4) % 4) + 1 \in 1..4 /\ ((i - 1) % 4) + 1 \in 1..4
  OBVIOUS
<1>3. ASSUME NEW i \in 1..48
      PROVE  i = 16 * ((i - 1) \div 16) + 4 * (((i - 1) \div 4) % 4) + ((i - 1) % 4) + 1
  OBVIOUS
<1>4. ASSUME NEW a \in 0..2, NEW b \in 0..3, NEW c \in 0..3
      PROVE  LET i == 16 * a + 4 * b + c + 1
             IN  i \in 1..48 /\ (i - 1) \div 16 = a /\ ((i - 1) \div 4) % 4 = b
                 /\ (i - 1) % 4 = c
  OBVIOUS
<1> QED
  BY <1>1, <1>2, <1>3, <1>4

(* AllSlots lists every location once. *)
LEMMA SlotsListed ==
  /\ AllSlots \in Seq(Location) /\ DOMAIN AllSlots = 1..48 /\ Len(AllSlots) = 48
  /\ \A i, j \in 1..48 : AllSlots[i] = AllSlots[j] => i = j
  /\ \A loc \in Location : \E i \in 1..48 : AllSlots[i] = loc
<1>1. /\ \A n \in 1..3 : StationSeq[n] \in Station
      /\ \A n, m \in 1..3 : StationSeq[n] = StationSeq[m] => n = m
      /\ \A s \in Station : \E n \in 1..3 : StationSeq[n] = s
  BY DEF StationSeq, Station
<1> DEFINE A(i) == (i - 1) \div 16 + 1 B(i) == (((i - 1) \div 4) % 4) + 1
           C(i) == ((i - 1) % 4) + 1
<1>2. \A i \in 1..48 : /\ A(i) \in 1..3 /\ B(i) \in 1..4 /\ C(i) \in 1..4
                       /\ i = 16 * (A(i) - 1) + 4 * (B(i) - 1) + (C(i) - 1) + 1
  <2> SUFFICES ASSUME NEW i \in 1..48
               PROVE  /\ A(i) \in 1..3 /\ B(i) \in 1..4 /\ C(i) \in 1..4
                      /\ i = 16 * (A(i) - 1) + 4 * (B(i) - 1) + (C(i) - 1) + 1
    OBVIOUS
  <2>1. A(i) \in 1..3 /\ B(i) \in 1..4 /\ C(i) \in 1..4
    BY SlotNumbers
  <2>2. i = 16 * ((i - 1) \div 16) + 4 * (((i - 1) \div 4) % 4) + ((i - 1) % 4) + 1
    BY SlotNumbers
  <2>3. (i - 1) \div 16 \in Int /\ ((i - 1) \div 4) % 4 \in Int /\ (i - 1) % 4 \in Int
    OBVIOUS
  <2> QED
    BY <2>1, <2>2, <2>3
<1>3. \A i \in 1..48 : AllSlots[i] = <<StationSeq[A(i)], B(i), C(i)>>
  BY DEF AllSlots
<1>4. \A a \in 1..3, b, c \in 1..4 : \E i \in 1..48 : A(i) = a /\ B(i) = b /\ C(i) = c
  <2> SUFFICES ASSUME NEW a \in 1..3, NEW b \in 1..4, NEW c \in 1..4
               PROVE  \E i \in 1..48 : A(i) = a /\ B(i) = b /\ C(i) = c
    OBVIOUS
  <2>1. a - 1 \in 0..2 /\ b - 1 \in 0..3 /\ c - 1 \in 0..3
    OBVIOUS
  <2> DEFINE i == 16 * (a - 1) + 4 * (b - 1) + (c - 1) + 1
  <2>2. i \in 1..48 /\ (i - 1) \div 16 = a - 1 /\ ((i - 1) \div 4) % 4 = b - 1
        /\ (i - 1) % 4 = c - 1
    BY <2>1, SlotNumbers
  <2> HIDE DEF i
  <2>3. A(i) = a /\ B(i) = b /\ C(i) = c
    BY <2>2
  <2> QED
    BY <2>2, <2>3
<1> HIDE DEF A, B, C
<1>5. \A i \in 1..48 : AllSlots[i] \in Location
  <2> SUFFICES ASSUME NEW i \in 1..48 PROVE AllSlots[i] \in Location
    OBVIOUS
  <2>1. StationSeq[A(i)] \in Station /\ B(i) \in 1..4 /\ C(i) \in 1..4
    BY <1>1, <1>2
  <2>2. <<StationSeq[A(i)], B(i), C(i)>> \in Location
    BY <2>1 DEF Location, Layer, Position
  <2> QED
    BY <1>3, <2>2
<1>6. DOMAIN AllSlots = 1..48 /\ AllSlots = [i \in 1..48 |-> AllSlots[i]]
  BY DEF AllSlots
<1>7. AllSlots \in Seq(Location) /\ Len(AllSlots) = 48
  BY <1>5, <1>6, SeqDef
<1>8. ASSUME NEW i \in 1..48, NEW j \in 1..48, AllSlots[i] = AllSlots[j]
      PROVE  i = j
  <2>1. <<StationSeq[A(i)], B(i), C(i)>> = <<StationSeq[A(j)], B(j), C(j)>>
    BY <1>3, <1>8
  <2>2. StationSeq[A(i)] = StationSeq[A(j)] /\ B(i) = B(j) /\ C(i) = C(j)
    BY <2>1
  <2>3. A(i) = A(j)
    BY <1>1, <1>2, <2>2
  <2> QED
    BY <1>2, <2>2, <2>3
<1>9. ASSUME NEW loc \in Location
      PROVE  \E i \in 1..48 : AllSlots[i] = loc
  <2>1. PICK s \in Station, b \in 1..4, c \in 1..4 : loc = <<s, b, c>>
    BY DEF Location, Layer, Position
  <2>2. PICK a \in 1..3 : StationSeq[a] = s
    BY <1>1
  <2>3. PICK i \in 1..48 : A(i) = a /\ B(i) = b /\ C(i) = c
    BY <1>4
  <2> QED
    BY <1>3, <2>1, <2>2, <2>3
<1> QED
  BY <1>6, <1>7, <1>8, <1>9

(* AllSlots lists the locations. *)
LEMMA AllSlotsCovered == AllSlots \in Seq(Location) /\ Range(AllSlots) = Location
<1>1. /\ AllSlots \in Seq(Location) /\ DOMAIN AllSlots = 1..48
      /\ \A loc \in Location : \E i \in 1..48 : AllSlots[i] = loc
  BY SlotsListed
<1>2. PICK list : list = AllSlots
  OBVIOUS
<1>3. /\ list \in Seq(Location) /\ DOMAIN list = 1..48
      /\ \A loc \in Location : \E i \in 1..48 : list[i] = loc
  BY ONLY <1>1, <1>2
<1>4. \A i \in 1..48 : list[i] \in Location
  <2>1. Len(list) = 48
    BY <1>2, SlotsListed
  <2> QED
    BY ONLY <1>3, <2>1, ElementOfSeq
<1>5. Range(list) = Location
  BY <1>3, <1>4 DEF Range
<1> QED
  BY <1>2, <1>3, <1>5

(* The 48 slots are finitely many. *)
LEMMA LocationFinite == IsFiniteSet(Location)
<1>1. AllSlots \in Surjection(1..48, Location)
  <2>1. AllSlots \in [1..48 -> Location]
    BY SlotsListed, LenProperties
  <2> QED
    BY <2>1, SlotsListed DEF Surjection
<1>2. IsFiniteSet(1..48)
  <2>1. 1 \in Int /\ 48 \in Int
    OBVIOUS
  <2> QED
    BY ONLY <2>1, FS_Interval
<1> QED
  BY <1>1, <1>2, FS_Surjection

(* FirstSlot finds a slot when there is one. *)
LEMMA FirstNumber ==
  ASSUME NEW T \in SUBSET Location, T # {}
  PROVE  LET I == {i \in 1..Len(AllSlots) : AllSlots[i] \in T}
         IN  I # {} /\ AllSlots[Min(I)] \in T
<1> DEFINE I == {i \in 1..Len(AllSlots) : AllSlots[i] \in T}
<1>1. I # {} /\ I \in SUBSET Nat
  <2>1. PICK loc \in T : TRUE
    OBVIOUS
  <2>2. PICK i \in 1..48 : AllSlots[i] = loc
    BY SlotsListed
  <2>3. Len(AllSlots) = 48
    BY SlotsListed
  <2> QED
    BY <2>2, <2>3
<1> HIDE DEF I
<1>2. Min(I) \in I
  BY <1>1, SmallestNumber
<1>3. AllSlots[Min(I)] \in T
  BY <1>2 DEF I
<1> QED
  BY <1>1, <1>3 DEF I

-----------------------------------------------------------------------------
(* Counting the boxes of an inventory *)

(* The boxes of a kind in one slot. *)
AtSlot(stock, loc, x) == {loc} \X At(stock[loc], x)

(* The boxes of a kind are those of each slot together. *)
LEMMA StandingParts ==
  ASSUME NEW stock \in Stock, NEW x
  PROVE  /\ Standing(stock, x) = UNION {AtSlot(stock, loc, x) : loc \in Location}
         /\ \A loc \in Location :
              /\ IsFiniteSet(AtSlot(stock, loc, x))
              /\ Cardinality(AtSlot(stock, loc, x)) = Count(stock[loc], x)
         /\ IsFiniteSet(Standing(stock, x)) /\ Cardinality(Standing(stock, x)) \in Nat
<1>1. Standing(stock, x) = UNION {AtSlot(stock, loc, x) : loc \in Location}
  BY DEF Standing, AtSlot, At
<1>2. ASSUME NEW loc \in Location
      PROVE  /\ IsFiniteSet(AtSlot(stock, loc, x))
             /\ Cardinality(AtSlot(stock, loc, x)) = Count(stock[loc], x)
  <2>1. stock[loc] \in Seq(Sku)
    BY DEF Stock
  <2>2. IsFiniteSet(At(stock[loc], x)) /\ Count(stock[loc], x) = Cardinality(At(stock[loc], x))
    BY <2>1, CountType
  <2> DEFINE X == At(stock[loc], x) Y == AtSlot(stock, loc, x) f == [i \in X |-> <<loc, i>>]
  <2>3. f \in Bijection(X, Y)
    BY DEF AtSlot, Bijection, Injection, Surjection, IsInjective
  <2>4. ExistsBijection(X, Y)
    BY <2>3 DEF ExistsBijection
  <2> QED
    BY <2>2, <2>4, FS_Bijection
<1>3. IsFiniteSet({AtSlot(stock, loc, x) : loc \in Location})
  <2> DEFINE U == {AtSlot(stock, loc, x) : loc \in Location}
             f == [loc \in Location |-> AtSlot(stock, loc, x)]
  <2>1. f \in Surjection(Location, U)
    BY DEF Surjection
  <2> QED
    BY <2>1, LocationFinite, FS_Surjection
<1>4. IsFiniteSet(Standing(stock, x))
  BY <1>1, <1>2, <1>3, FS_UNION
<1> QED
  BY <1>1, <1>2, <1>4, FS_CardinalityType

(* When one pile changes, the boxes that stand change by as many. *)
Replaces(stock, new, loc, pile) == new = [stock EXCEPT ![loc] = pile]

(* Another pile in one slot changes the count by the difference of the two. *)
LEMMA StandingOne ==
  ASSUME NEW stock \in Stock, NEW loc \in Location, NEW pile \in Seq(Sku), NEW new \in Stock,
         Replaces(stock, new, loc, pile), NEW x
  PROVE  Cardinality(Standing(new, x)) + Count(stock[loc], x)
           = Cardinality(Standing(stock, x)) + Count(pile, x)
<1> DEFINE R == UNION {AtSlot(stock, l, x) : l \in Location \ {loc}}
           P == AtSlot(stock, loc, x) Q == AtSlot(new, loc, x)
<1>1. /\ new[loc] = pile /\ stock[loc] \in Seq(Sku)
      /\ \A l \in Location \ {loc} : AtSlot(new, l, x) = AtSlot(stock, l, x)
  BY DEF Stock, AtSlot, Replaces
<1>2. /\ Standing(stock, x) = UNION {AtSlot(stock, l, x) : l \in Location}
      /\ Standing(new, x) = UNION {AtSlot(new, l, x) : l \in Location}
      /\ IsFiniteSet(Standing(stock, x)) /\ IsFiniteSet(P) /\ IsFiniteSet(Q)
      /\ Cardinality(P) = Count(stock[loc], x) /\ Cardinality(Q) = Count(pile, x)
  BY <1>1, StandingParts
<1>3. Standing(stock, x) = R \cup P /\ Standing(new, x) = R \cup Q
  <2>1. Standing(stock, x) = R \cup P
    BY <1>2
  <2>2. UNION {AtSlot(new, l, x) : l \in Location} = R \cup Q
    <3>1. {AtSlot(new, l, x) : l \in Location}
            = {AtSlot(stock, l, x) : l \in Location \ {loc}} \cup {Q}
      <4>1. \A l \in Location : l = loc \/ l \in Location \ {loc}
        OBVIOUS
      <4> HIDE DEF Q
      <4>2. Q = AtSlot(new, loc, x)
        BY DEF Q
      <4> QED
        BY <1>1, <4>1, <4>2
    <3> QED
      BY <3>1
  <2> QED
    BY <1>2, <2>1, <2>2
<1>4. R \cap P = {} /\ R \cap Q = {}
  BY DEF AtSlot
<1> HIDE DEF R, P, Q
<1>5. IsFiniteSet(R)
  <2>1. R \in SUBSET Standing(stock, x)
    BY <1>3
  <2> QED
    BY <1>2, <2>1, FS_Subset
<1>6. /\ Cardinality(R \cup P) = Cardinality(R) + Cardinality(P) - Cardinality(R \cap P)
      /\ Cardinality(R \cup Q) = Cardinality(R) + Cardinality(Q) - Cardinality(R \cap Q)
  BY <1>2, <1>5, FS_Union
<1>7. Cardinality({}) = 0 /\ Cardinality(R) \in Nat /\ Cardinality(P) \in Nat
      /\ Cardinality(Q) \in Nat
  BY <1>2, <1>5, FS_EmptySet, FS_CardinalityType
<1>8. /\ Cardinality(Standing(stock, x)) = Cardinality(R) + Cardinality(P)
      /\ Cardinality(Standing(new, x)) = Cardinality(R) + Cardinality(Q)
  <2>1. Cardinality(R \cap P) = 0 /\ Cardinality(R \cap Q) = 0
    BY <1>4, <1>7
  <2>2. /\ Cardinality(R \cup P) = Cardinality(R) + Cardinality(P) - 0
        /\ Cardinality(R \cup Q) = Cardinality(R) + Cardinality(Q) - 0
    BY <1>6, <2>1, Zenon
  <2>3. PICK r \in Nat, p \in Nat, q \in Nat :
          r = Cardinality(R) /\ p = Cardinality(P) /\ q = Cardinality(Q)
    BY <1>7
  <2> QED
    BY ONLY <1>3, <2>2, <2>3
<1> QED
  BY <1>2, <1>7, <1>8

(* Piles that change places are as many boxes as before. *)
LEMMA StandingMoved ==
  ASSUME NEW stock \in Stock, NEW new \in Stock, NEW to \in [Location -> Location],
         \A l \in Location : stock[l] # <<>> => new[to[l]] = stock[l],
         \A k, l \in Location : stock[k] # <<>> /\ stock[l] # <<>> /\ to[k] = to[l] => k = l,
         \A l \in Location : new[l] # <<>> => \E k \in Location : stock[k] # <<>> /\ to[k] = l,
         NEW x
  PROVE  Cardinality(Standing(new, x)) = Cardinality(Standing(stock, x))
<1> DEFINE S == Standing(stock, x) T == Standing(new, x)
           f == [s \in S |-> <<to[s[1]], s[2]>>]
<1>1. \A s : s \in S <=> \E l \in Location : \E i \in At(stock[l], x) : s = <<l, i>>
  <2>1. S = UNION {AtSlot(stock, l, x) : l \in Location}
    BY StandingParts
  <2> HIDE DEF S
  <2> QED
    BY <2>1 DEF AtSlot
<1>2. \A s : s \in T <=> \E l \in Location : \E i \in At(new[l], x) : s = <<l, i>>
  <2>1. T = UNION {AtSlot(new, l, x) : l \in Location}
    BY StandingParts
  <2> HIDE DEF T
  <2> QED
    BY <2>1 DEF AtSlot
<1>3. \A l \in Location : At(stock[l], x) # {} => stock[l] # <<>>
  BY DEF At
<1>4. \A l \in Location : At(new[l], x) # {} => new[l] # <<>>
  BY DEF At
<1> HIDE DEF S, T
<1>5. \A s \in S : f[s] = <<to[s[1]], s[2]>> /\ f[s] \in T
  <2> SUFFICES ASSUME NEW s \in S PROVE f[s] \in T
    OBVIOUS
  <2>1a. PICK l \in Location : \E i \in At(stock[l], x) : s = <<l, i>>
    BY <1>1
  <2>1. PICK i \in At(stock[l], x) : s = <<l, i>>
    BY <2>1a
  <2>2. new[to[l]] = stock[l] /\ to[l] \in Location
    BY <1>3, <2>1
  <2>3. f[s] = <<to[l], i>>
    BY <2>1
  <2> QED
    BY <1>2, <2>1, <2>2, <2>3
<1>6. \A s, t \in S : f[s] = f[t] => s = t
  <2> SUFFICES ASSUME NEW s \in S, NEW t \in S, f[s] = f[t] PROVE s = t
    OBVIOUS
  <2>1a. PICK k \in Location : \E i \in At(stock[k], x) : s = <<k, i>>
    BY <1>1
  <2>1. PICK i \in At(stock[k], x) : s = <<k, i>>
    BY <2>1a
  <2>2a. PICK l \in Location : \E j \in At(stock[l], x) : t = <<l, j>>
    BY <1>1
  <2>2. PICK j \in At(stock[l], x) : t = <<l, j>>
    BY <2>2a
  <2>3. f[s] = <<to[k], i>> /\ f[t] = <<to[l], j>>
    BY <2>1, <2>2
  <2> HIDE DEF f
  <2> QED
    BY <1>3, <2>1, <2>2, <2>3
<1>7. \A t \in T : \E s \in S : f[s] = t
  <2> SUFFICES ASSUME NEW t \in T PROVE \E s \in S : f[s] = t
    OBVIOUS
  <2>1a. PICK l \in Location : \E i \in At(new[l], x) : t = <<l, i>>
    BY <1>2
  <2>1. PICK i \in At(new[l], x) : t = <<l, i>>
    BY <2>1a
  <2>2. PICK k \in Location : stock[k] # <<>> /\ to[k] = l
    BY <1>4, <2>1
  <2>3. new[l] = stock[k]
    BY <2>2
  <2>4. <<k, i>> \in S
    BY <1>1, <2>1, <2>3
  <2>5. f[<<k, i>>] = t
    BY <2>1, <2>2, <2>4
  <2> QED
    BY <2>4, <2>5
<1>8. f \in Bijection(S, T)
  <2>1. f \in [S -> T]
    BY <1>5
  <2> HIDE DEF f
  <2> QED
    BY <1>6, <1>7, <2>1 DEF Bijection, Injection, Surjection, IsInjective
<1>9. ExistsBijection(S, T)
  BY <1>8 DEF ExistsBijection
<1>10. IsFiniteSet(S)
  BY StandingParts DEF S
<1> QED
  BY <1>9, <1>10, FS_Bijection DEF S, T

-----------------------------------------------------------------------------
(* What picks take *)

(* Picks of one slot each, of the first boxes of what stands there. *)
PicksOf(picks, stock) ==
  /\ picks \in Seq(Pick)
  /\ \A i \in 1..Len(picks) :
       /\ Len(picks[i].planned) <= Len(stock[picks[i].loc])
       /\ picks[i].planned = SubSeq(stock[picks[i].loc], 1, Len(picks[i].planned))
  /\ \A i, j \in 1..Len(picks) : picks[i].loc = picks[j].loc => i = j

(* The fields of a pick. *)
LEMMA PickParts ==
  ASSUME NEW pick \in Pick
  PROVE  pick.loc \in Location /\ pick.picked \in Seq(Sku) /\ pick.planned \in Seq(Sku)
  BY DEF Pick

(* The picks of a list. *)
LEMMA PicksParts ==
  ASSUME NEW picks \in Seq(Pick)
  PROVE  /\ Len(picks) \in Nat /\ DOMAIN picks = 1..Len(picks)
         /\ \A i \in 1..Len(picks) : /\ picks[i] \in Pick /\ picks[i].loc \in Location
                                     /\ picks[i].planned \in Seq(Sku)
<1>1. /\ Len(picks) \in Nat /\ DOMAIN picks = 1..Len(picks)
      /\ \A i \in 1..Len(picks) : picks[i] \in Pick
  BY ElementOfSeq, LenProperties
<1> QED
  BY <1>1, PickParts

(* No picks, no boxes. *)
LEMMA PlannedNothing == planned_goods_from_slot_picks(<<>>) = <<>>
<1>1. [i \in DOMAIN <<>> |-> <<>>[i].planned] = <<>>
  OBVIOUS
<1> QED
  BY <1>1, FlattenNothing DEF planned_goods_from_slot_picks

(* One more pick adds its planned boxes. *)
LEMMA PlannedAppend ==
  ASSUME NEW picks \in Seq(Pick), NEW pick \in Pick
  PROVE  /\ planned_goods_from_slot_picks(picks) \in Seq(Sku)
         /\ planned_goods_from_slot_picks(Append(picks, pick))
              = planned_goods_from_slot_picks(picks) \o pick.planned
<1> DEFINE u == Append(picks, pick)
           q == [i \in DOMAIN picks |-> picks[i].planned]
           r == [i \in DOMAIN u |-> u[i].planned]
<1>1. /\ u \in Seq(Pick) /\ Len(u) = Len(picks) + 1 /\ u[Len(picks) + 1] = pick
      /\ \A i \in 1..Len(picks) : u[i] = picks[i]
      /\ Len(picks) \in Nat /\ DOMAIN picks = 1..Len(picks) /\ DOMAIN u = 1..(Len(picks) + 1)
  BY AppendProperties, LenProperties
<1>2. pick.planned \in Seq(Sku) /\ \A i \in 1..Len(picks) : picks[i].planned \in Seq(Sku)
  BY PickParts, PicksParts
<1> HIDE DEF u
<1>3. q \in Seq(Seq(Sku)) /\ Len(q) = Len(picks)
  BY <1>1, <1>2
<1>4. r = Append(q, pick.planned)
  <2>1. Append(q, pick.planned) \in Seq(Seq(Sku)) /\ Len(Append(q, pick.planned)) = Len(picks) + 1
    BY <1>2, <1>3
  <2>2. r \in Seq(Seq(Sku)) /\ Len(r) = Len(picks) + 1
    BY <1>1, <1>2
  <2>3. \A i \in 1..(Len(picks) + 1) : r[i] = Append(q, pick.planned)[i]
    BY <1>1, <1>3
  <2> QED
    BY <2>1, <2>2, <2>3, SeqEqual
<1>5. FlattenSeq(r) = FlattenSeq(q) \o pick.planned /\ FlattenSeq(q) \in Seq(Sku)
  BY <1>2, <1>3, <1>4, FlattenAppend, FlattenType
<1> QED
  BY <1>5 DEF planned_goods_from_slot_picks, u

(* The planned boxes are a sequence of boxes. *)
LEMMA PlannedType ==
  ASSUME NEW picks \in Seq(Pick)
  PROVE  planned_goods_from_slot_picks(picks) \in Seq(Sku)
<1> DEFINE q == [i \in DOMAIN picks |-> picks[i].planned]
<1>1. q \in Seq(Seq(Sku))
  BY PicksParts
<1> QED
  BY <1>1, FlattenType DEF planned_goods_from_slot_picks

(* After picks, a slot one of them is of holds what that one leaves. *)
LeftBy(after, picks, stock) ==
  /\ \A i \in 1..Len(picks) :
       after[picks[i].loc] = SubSeq(stock[picks[i].loc], Len(picks[i].planned) + 1,
                                    Len(stock[picks[i].loc]))
  /\ \A loc \in Location :
       (\A i \in 1..Len(picks) : picks[i].loc # loc) => after[loc] = stock[loc]
  /\ after \in Stock

(* AfterPicks leaves, slot by slot, what the pick there did not plan. *)
LEMMA AfterPicksAt ==
  ASSUME NEW stock \in Stock, NEW picks, PicksOf(picks, stock)
  PROVE  LeftBy(AfterPicks(stock, picks), picks, stock)
<1> DEFINE Here(loc) == {i \in DOMAIN picks : picks[i].loc = loc}
           Left(i) == SubSeq(stock[picks[i].loc], Len(picks[i].planned) + 1,
                             Len(stock[picks[i].loc]))
<1>1. /\ picks \in Seq(Pick) /\ DOMAIN picks = 1..Len(picks) /\ Len(picks) \in Nat
      /\ \A i \in 1..Len(picks) : /\ picks[i].loc \in Location
                                  /\ picks[i].planned \in Seq(Sku)
                                  /\ Len(picks[i].planned) <= Len(stock[picks[i].loc])
      /\ \A i, j \in 1..Len(picks) : picks[i].loc = picks[j].loc => i = j
  <2>1. picks \in Seq(Pick)
    BY DEF PicksOf
  <2> QED
    BY <2>1, PicksParts DEF PicksOf
<1>2. \A loc \in Location : AfterPicks(stock, picks)[loc]
        = IF Here(loc) = {} THEN stock[loc]
          ELSE SubSeq(stock[loc], Len(picks[Min(Here(loc))].planned) + 1, Len(stock[loc]))
  BY DEF AfterPicks
<1>3. \A i \in 1..Len(picks) : Here(picks[i].loc) = {i}
  BY <1>1
<1>4. \A i \in 1..Len(picks) : Min({i}) = i
  <2> SUFFICES ASSUME NEW i \in 1..Len(picks) PROVE Min({i}) = i
    OBVIOUS
  <2>1. {i} \in SUBSET Nat /\ {i} # {}
    BY <1>1
  <2>2. Min({i}) \in {i}
    BY <2>1, SmallestNumber
  <2> QED
    BY <2>2
<1>5. \A i \in 1..Len(picks) : AfterPicks(stock, picks)[picks[i].loc] = Left(i)
  <2> SUFFICES ASSUME NEW i \in 1..Len(picks)
               PROVE  AfterPicks(stock, picks)[picks[i].loc] = Left(i)
    OBVIOUS
  <2>1. Here(picks[i].loc) = {i} /\ Min({i}) = i /\ picks[i].loc \in Location
    BY <1>1, <1>3, <1>4
  <2> HIDE DEF Here
  <2> QED
    BY <1>2, <2>1
<1>6. \A i \in 1..Len(picks) : Left(i) \in Seq(Sku)
  <2> SUFFICES ASSUME NEW i \in 1..Len(picks) PROVE Left(i) \in Seq(Sku)
    OBVIOUS
  <2>1. stock[picks[i].loc] \in Seq(Sku)
    BY <1>1 DEF Stock
  <2>2. Len(picks[i].planned) \in 0..Len(stock[picks[i].loc])
    BY <1>1, <2>1
  <2> QED
    BY <2>1, <2>2, CountPrefix
<1>7. \A loc \in Location : (\A i \in 1..Len(picks) : picks[i].loc # loc) =>
        AfterPicks(stock, picks)[loc] = stock[loc]
  BY <1>1, <1>2
<1>8. AfterPicks(stock, picks) \in Stock
  <2>1. \A loc \in Location : AfterPicks(stock, picks)[loc] \in Seq(Sku)
    <3> SUFFICES ASSUME NEW loc \in Location
                 PROVE  AfterPicks(stock, picks)[loc] \in Seq(Sku)
      OBVIOUS
    <3>1. CASE \E i \in 1..Len(picks) : picks[i].loc = loc
      BY <1>5, <1>6, <3>1
    <3>2. CASE \A i \in 1..Len(picks) : picks[i].loc # loc
      BY <1>7, <3>2 DEF Stock
    <3> QED
      BY <3>1, <3>2
  <2>2. AfterPicks(stock, picks) = [loc \in Location |-> AfterPicks(stock, picks)[loc]]
    BY DEF AfterPicks
  <2> QED
    BY <2>1, <2>2 DEF Stock
<1> QED
  BY <1>5, <1>7, <1>8 DEF LeftBy

(* What picks take and what they leave is what stood there. *)
LEMMA AfterPicksCount ==
  ASSUME NEW stock \in Stock, NEW picks, PicksOf(picks, stock), NEW x
  PROVE  Cardinality(Standing(AfterPicks(stock, picks), x))
           + Count(planned_goods_from_slot_picks(picks), x) = Cardinality(Standing(stock, x))
<1> DEFINE F(n) == SubSeq(picks, 1, n)
           R(n) == /\ PicksOf(F(n), stock)
                   /\ Cardinality(Standing(AfterPicks(stock, F(n)), x))
                      + Count(planned_goods_from_slot_picks(F(n)), x)
                        = Cardinality(Standing(stock, x))
           T == {n \in Nat : n <= Len(picks) => R(n)}
<1>1. /\ picks \in Seq(Pick) /\ Len(picks) \in Nat
      /\ \A i \in 1..Len(picks) : picks[i] \in Pick
  BY DEF PicksOf
<1>2. \A n \in 0..Len(picks) : PicksOf(F(n), stock) /\ F(n) \in Seq(Pick)
  <2> SUFFICES ASSUME NEW n \in 0..Len(picks)
               PROVE  PicksOf(F(n), stock) /\ F(n) \in Seq(Pick)
    OBVIOUS
  <2>1. /\ F(n) \in Seq(Pick) /\ Len(F(n)) = n
        /\ \A i \in 1..n : F(n)[i] = picks[i] /\ i \in 1..Len(picks)
    BY <1>1
  <2> HIDE DEF F
  <2> QED
    BY <2>1 DEF PicksOf
<1>3. R(0)
  <2>1. F(0) = <<>> /\ PicksOf(F(0), stock)
    BY <1>1, <1>2
  <2>2. AfterPicks(stock, <<>>) = stock
    BY DEF AfterPicks, Stock
  <2>3. Count(planned_goods_from_slot_picks(<<>>), x) = 0
    BY PlannedNothing, CountOne
  <2>4. Cardinality(Standing(stock, x)) \in Nat
    BY StandingParts
  <2> HIDE DEF F
  <2> QED
    BY <2>1, <2>2, <2>3, <2>4
<1>4. ASSUME NEW n \in Nat, n \in T
      PROVE  n + 1 \in T
  <2> SUFFICES ASSUME n + 1 <= Len(picks) PROVE R(n + 1)
    OBVIOUS
  <2>1. n \in 0..Len(picks) /\ n + 1 \in 0..Len(picks) /\ n + 1 \in 1..Len(picks)
    BY <1>1
  <2>2. R(n)
    BY <1>4, <2>1
  <2> DEFINE p == F(n) q == F(n + 1) pick == picks[n + 1]
  <2>3. /\ PicksOf(p, stock) /\ PicksOf(q, stock) /\ p \in Seq(Pick) /\ q \in Seq(Pick)
        /\ pick \in Pick
        /\ Cardinality(Standing(AfterPicks(stock, p), x))
             + Count(planned_goods_from_slot_picks(p), x) = Cardinality(Standing(stock, x))
    BY <1>1, <1>2, <2>1, <2>2
  <2>4. q = Append(p, pick) /\ Len(p) = n
    BY <1>1, <2>1, PrefixSplits
  <2> HIDE DEF p, q, pick
  <2>5. /\ Len(q) = n + 1 /\ q[n + 1] = pick /\ \A i \in 1..n : q[i] = p[i]
    BY <2>3, <2>4
  <2>6. \A i \in 1..n : p[i].loc # pick.loc
    <3> SUFFICES ASSUME NEW i \in 1..n, p[i].loc = pick.loc PROVE FALSE
      OBVIOUS
    <3>1. i \in 1..(n + 1) /\ n + 1 \in 1..(n + 1) /\ i # n + 1
      OBVIOUS
    <3> QED
      BY <2>3, <2>5, <3>1 DEF PicksOf
  <2> DEFINE a == AfterPicks(stock, p) b == AfterPicks(stock, q)
             loc == pick.loc
             left == SubSeq(stock[loc], Len(pick.planned) + 1, Len(stock[loc]))
  <2>6a. /\ \A i \in 1..n : a[p[i].loc]
              = SubSeq(stock[p[i].loc], Len(p[i].planned) + 1, Len(stock[p[i].loc]))
         /\ \A l \in Location : (\A i \in 1..n : p[i].loc # l) => a[l] = stock[l]
         /\ a \in Stock
    <3>1. LeftBy(a, p, stock)
      BY <2>3, AfterPicksAt
    <3> HIDE DEF a
    <3> QED
      BY <2>4, <3>1 DEF LeftBy
  <2>6b. /\ \A i \in 1..(n + 1) : b[q[i].loc]
              = SubSeq(stock[q[i].loc], Len(q[i].planned) + 1, Len(stock[q[i].loc]))
         /\ \A l \in Location : (\A i \in 1..(n + 1) : q[i].loc # l) => b[l] = stock[l]
         /\ b \in Stock
    <3>1. LeftBy(b, q, stock)
      BY <2>3, AfterPicksAt
    <3> HIDE DEF b
    <3> QED
      BY <2>5, <3>1 DEF LeftBy
  <2> HIDE DEF a, b
  <2>7. a \in Stock /\ b \in Stock /\ loc \in Location /\ a[loc] = stock[loc] /\ b[loc] = left
    <3>1. loc \in Location
      BY <2>3, PickParts
    <3>2. n + 1 \in 1..(n + 1)
      OBVIOUS
    <3> QED
      BY <2>5, <2>6, <2>6a, <2>6b, <3>1, <3>2
  <2>8. \A l \in Location : l # loc => b[l] = a[l]
    <3> SUFFICES ASSUME NEW l \in Location, l # loc PROVE b[l] = a[l]
      OBVIOUS
    <3>1. CASE \E i \in 1..n : p[i].loc = l
      <4>1. PICK i \in 1..n : p[i].loc = l
        BY <3>1
      <4>2. i \in 1..(n + 1) /\ q[i] = p[i]
        BY <2>5
      <4>3. a[p[i].loc] = b[q[i].loc]
        <5>1. a[p[i].loc] = SubSeq(stock[p[i].loc], Len(p[i].planned) + 1, Len(stock[p[i].loc]))
          BY <2>6a
        <5>2. b[q[i].loc] = SubSeq(stock[q[i].loc], Len(q[i].planned) + 1, Len(stock[q[i].loc]))
          BY <2>6b, <4>2
        <5> QED
          BY <4>2, <5>1, <5>2
      <4> QED
        BY <4>1, <4>2, <4>3
    <3>2. CASE \A i \in 1..n : p[i].loc # l
      <4>1. \A i \in 1..(n + 1) : q[i].loc # l
        <5>1. \A i \in 1..(n + 1) : i \in 1..n \/ i = n + 1
          OBVIOUS
        <5> QED
          BY <2>5, <3>2, <5>1
      <4>2. a[l] = stock[l] /\ b[l] = stock[l]
        BY <2>6a, <2>6b, <3>2, <4>1
      <4> QED
        BY <4>2
    <3> QED
      BY <3>1, <3>2
  <2> HIDE DEF left, loc
  <2>9. b = [a EXCEPT ![loc] = left]
    BY <2>7, <2>8 DEF Stock
  <2>10. left \in Seq(Sku)
    BY <2>7 DEF Stock
  <2>11. Cardinality(Standing(b, x)) + Count(a[loc], x)
           = Cardinality(Standing(a, x)) + Count(left, x)
    <3>1. PICK a1 \in Stock, b1 \in Stock, l1 \in Location, p1 \in Seq(Sku) :
            a1 = a /\ b1 = b /\ l1 = loc /\ p1 = left
      BY <2>7, <2>10
    <3>2. Replaces(a1, b1, l1, p1)
      BY <2>9, <3>1 DEF Replaces
    <3>3. Cardinality(Standing(b1, x)) + Count(a1[l1], x)
            = Cardinality(Standing(a1, x)) + Count(p1, x)
      BY <3>2, StandingOne
    <3> QED
      BY ONLY <3>1, <3>3
  <2>12. Count(a[loc], x) = Count(pick.planned, x) + Count(left, x)
    <3>1. /\ Len(pick.planned) <= Len(stock[loc])
          /\ pick.planned = SubSeq(stock[loc], 1, Len(pick.planned))
      <4>1. n + 1 \in 1..Len(q)
        BY <2>5
      <4> QED
        BY <2>3, <2>5, <4>1 DEF PicksOf, loc
    <3>2. Len(pick.planned) \in 0..Len(stock[loc]) /\ stock[loc] \in Seq(Sku)
      BY <2>3, <2>7, <3>1 DEF Pick, Stock
    <3>3. PICK l \in 0..Len(stock[loc]) : l = Len(pick.planned)
      BY <3>2
    <3>4. Count(stock[loc], x) = Count(SubSeq(stock[loc], 1, l), x)
                                 + Count(SubSeq(stock[loc], l + 1, Len(stock[loc])), x)
      BY <3>2, CountPrefix
    <3> QED
      BY <2>7, <3>1, <3>3, <3>4 DEF left
  <2>13. Count(planned_goods_from_slot_picks(q), x)
           = Count(planned_goods_from_slot_picks(p), x) + Count(pick.planned, x)
    <3>1. /\ planned_goods_from_slot_picks(p) \in Seq(Sku) /\ pick.planned \in Seq(Sku)
          /\ planned_goods_from_slot_picks(q) = planned_goods_from_slot_picks(p) \o pick.planned
      BY <2>3, <2>4, PlannedAppend DEF Pick
    <3> QED
      BY <3>1, CountConcat
  <2>14. /\ Count(planned_goods_from_slot_picks(p), x) \in Nat
         /\ Count(pick.planned, x) \in Nat /\ Count(left, x) \in Nat
         /\ Cardinality(Standing(a, x)) \in Nat /\ Cardinality(Standing(b, x)) \in Nat
    BY <2>3, <2>7, <2>10, PlannedType, CountType, StandingParts DEF Pick
  <2>15. Cardinality(Standing(b, x)) + Count(planned_goods_from_slot_picks(q), x)
           = Cardinality(Standing(stock, x))
    <3>1. Cardinality(Standing(a, x)) + Count(planned_goods_from_slot_picks(p), x)
            = Cardinality(Standing(stock, x))
      BY <2>3 DEF a
    <3> QED
      BY ONLY <2>11, <2>12, <2>13, <2>14, <3>1
  <2> QED
    BY <2>3, <2>15 DEF b, q
<1> HIDE DEF R, T
<1>5. 0 \in T
  BY <1>3 DEF T
<1>6. \A n \in Nat : n \in T
  BY ONLY <1>4, <1>5, SetInduction
<1>7. R(Len(picks))
  BY <1>1, <1>6 DEF T
<1>8. F(Len(picks)) = picks
  BY <1>1, SubSeqFull
<1> QED
  BY <1>7, <1>8 DEF R

-----------------------------------------------------------------------------
(* Choosing the slots for a package *)

(* The members of a set in the order of a list: each as often as in the list. *)
Keeps(list, set, f) ==
  f = [i \in 0..Len(list) |->
         IF i = 0 THEN <<>>
         ELSE IF list[i] \in set THEN Append(f[i - 1], list[i]) ELSE f[i - 1]]

(* InOrder as its recursion computes it. *)
LEMMA InOrderKeeps ==
  ASSUME NEW S, NEW list \in Seq(S), NEW set
  PROVE  \E f : Keeps(list, set, f) /\ InOrder(list, set) = f[Len(list)]
<1> DEFINE n == Len(list)
           step == [x \in Seq(S) \X (1..n) |->
                      IF list[x[2]] \in set THEN Append(x[1], list[x[2]]) ELSE x[1]]
<1>1. n \in Nat /\ <<>> \in Seq(S) /\ \A i \in 1..n : list[i] \in S
  OBVIOUS
<1>2. IsStep(step, Seq(S), n)
  <2>1. \A x \in Seq(S) \X (1..n) : Append(x[1], list[x[2]]) \in Seq(S) /\ x[1] \in Seq(S)
    BY <1>1
  <2> QED
    BY <2>1 DEF IsStep
<1>3. \A r \in Seq(S), i \in 1..n :
        step[<<r, i>>] = IF list[i] \in set THEN Append(r, list[i]) ELSE r
  <2>1. \A r \in Seq(S), i \in 1..n : /\ <<r, i>> \in Seq(S) \X (1..n)
                                      /\ <<r, i>>[1] = r /\ <<r, i>>[2] = i
    OBVIOUS
  <2> QED
    BY <2>1
<1> HIDE DEF step
<1>4. PICK f : Unrolls(f, Seq(S), <<>>, n, step)
  BY ONLY <1>1, <1>2, RecursionExists
<1>5. Keeps(list, set, f)
  <2>1. /\ f = [i \in 0..n |-> f[i]] /\ f[0] = <<>>
        /\ \A i \in 1..n : f[i] = IF list[i] \in set THEN Append(f[i - 1], list[i])
                                  ELSE f[i - 1]
    <3>1. \A i \in 1..n : i - 1 \in 0..n
      OBVIOUS
    <3> QED
      BY <1>3, <1>4, <3>1 DEF Unrolls
  <2>2. \A i \in 0..n : i = 0 \/ i \in 1..n
    OBVIOUS
  <2>3. \A i \in 0..n :
          f[i] = IF i = 0 THEN <<>>
                 ELSE IF list[i] \in set THEN Append(f[i - 1], list[i]) ELSE f[i - 1]
    BY <2>1, <2>2
  <2> QED
    BY <2>1, <2>3 DEF Keeps
<1> DEFINE h == CHOOSE g : Keeps(list, set, g)
<1>6. Keeps(list, set, h)
  BY <1>5
<1>7. InOrder(list, set) = h[Len(list)]
  BY Zenon DEF InOrder, Keeps
<1> HIDE DEF h
<1> QED
  BY <1>6, <1>7

(* InOrder lists exactly the elements of the set, each once if the list       *)
(* does.                                                                      *)
LEMMA InOrderElements ==
  ASSUME NEW S, NEW list \in Seq(S), NEW set
  PROVE  /\ InOrder(list, set) \in Seq(S)
         /\ Range(InOrder(list, set)) = Range(list) \cap set
         /\ (\A i, j \in 1..Len(list) : list[i] = list[j] => i = j) =>
              \A i, j \in 1..Len(InOrder(list, set)) :
                InOrder(list, set)[i] = InOrder(list, set)[j] => i = j
<1> DEFINE n == Len(list)
           Single(s) == \A i, j \in 1..Len(s) : s[i] = s[j] => i = j
           Seen(i) == {list[j] : j \in 1..i}
           R(s, i) == /\ s \in Seq(S) /\ Range(s) = Seen(i) \cap set
                      /\ Single(list) => Single(s)
<1>1. PICK f : Keeps(list, set, f) /\ InOrder(list, set) = f[n]
  BY InOrderKeeps
<1>2. \A i \in 0..n :
        f[i] = IF i = 0 THEN <<>>
               ELSE IF list[i] \in set THEN Append(f[i - 1], list[i]) ELSE f[i - 1]
  BY <1>1 DEF Keeps
<1>3. n \in Nat /\ \A i \in 1..n : list[i] \in S
  OBVIOUS
<1> DEFINE T == {i \in Nat : i <= n => R(f[i], i)}
<1>4. 0 \in T
  <2>1. f[0] = <<>>
    BY <1>2, <1>3
  <2>2. R(<<>>, 0)
    <3>1. Seen(0) = {}
      OBVIOUS
    <3> QED
      BY <3>1, RangeEmpty
  <2> HIDE DEF R
  <2> QED
    BY <2>1, <2>2
<1>5. ASSUME NEW i \in Nat, i \in T
      PROVE  i + 1 \in T
  <2> SUFFICES ASSUME i + 1 <= n PROVE R(f[i + 1], i + 1)
    OBVIOUS
  <2>1. PICK s : s = f[i]
    OBVIOUS
  <2>2. R(s, i)
    BY <1>3, <1>5, <2>1
  <2>3. PICK e \in S : e = list[i + 1]
    BY <1>3
  <2>4. f[i + 1] = IF e \in set THEN Append(s, e) ELSE s
    <3>1. i + 1 \in 0..n /\ i + 1 # 0 /\ (i + 1) - 1 = i
      BY <1>3
    <3> QED
      BY <1>2, <2>1, <2>3, <3>1
  <2>5. Seen(i + 1) = Seen(i) \cup {e}
    <3>1. \A j : j \in 1..(i + 1) <=> j \in 1..i \/ j = i + 1
      BY <1>3
    <3> QED
      BY <2>3, <3>1
  <2>6. Single(list) => e \notin Seen(i)
    <3>1. \A j \in 1..i : j \in 1..n /\ i + 1 \in 1..n /\ j # i + 1
      BY <1>3
    <3> QED
      BY <2>3, <3>1
  <2> HIDE DEF Seen
  <2>7. CASE e \in set
    <3>1. /\ <<e>> \in Seq(S) /\ Range(<<e>>) = {e} /\ Len(<<e>>) <= 1
          /\ Append(s, e) = s \o <<e>>
      BY <2>2 DEF Range
    <3>2. s \o <<e>> \in Seq(S) /\ Range(s \o <<e>>) = Range(s) \cup {e}
      <4>1. \A t \in Seq(S) : s \o t \in Seq(S) /\ Range(s \o t) = Range(s) \cup Range(t)
        BY <2>2, RangeConcat
      <4> QED
        BY <3>1, <4>1
    <3>3. ASSUME Single(list) PROVE Single(s \o <<e>>)
      <4>1. s \in Seq(S) /\ Single(s) /\ \A x \in Range(s) : x \notin Range(<<e>>)
        BY <2>2, <2>6, <3>1, <3>3
      <4> QED
        BY <3>1, <4>1, DistinctConcat
    <3>4. R(s \o <<e>>, i + 1)
      BY <2>2, <2>5, <2>7, <3>2, <3>3
    <3> HIDE DEF R
    <3> QED
      BY <2>4, <2>7, <3>1, <3>4
  <2>8. CASE e \notin set
    BY <2>2, <2>4, <2>5, <2>8
  <2> QED
    BY <2>7, <2>8
<1> HIDE DEF T
<1>6. \A i \in Nat : i \in T
  BY ONLY <1>4, <1>5, SetInduction
<1> HIDE DEF R
<1>7. R(f[n], n)
  BY <1>3, <1>6 DEF T
<1> USE DEF R
<1>8. Seen(n) = Range(list)
  BY <1>3 DEF Range
<1> QED
  BY <1>1, <1>7, <1>8

(* The slots a gripper can take from. *)
Reached(stock) ==
  {loc \in Location : IsFront(loc) /\ Len(stock[loc]) \in 1..MAX_GRIPPER_COUNT}

(* Whatever the grippers to avoid, the slots a gripper reaches come once each. *)
LEMMA SlotOrderSlots ==
  ASSUME NEW stock, NEW avoided
  PROVE  /\ SlotOrder(stock, avoided) \in Seq(Location)
         /\ Range(SlotOrder(stock, avoided)) = Reached(stock)
         /\ \A i, j \in 1..Len(SlotOrder(stock, avoided)) :
              SlotOrder(stock, avoided)[i] = SlotOrder(stock, avoided)[j] => i = j
<1> DEFINE U == {loc \in Reached(stock) : global_gripper_id(loc) \in avoided}
           T == Reached(stock) \ U
           a == InOrder(AllSlots, T) b == InOrder(AllSlots, U)
<1>1. SlotOrder(stock, avoided) = a \o b
  BY DEF SlotOrder, Reached
<1>2. T \cap U = {} /\ T \cup U = Reached(stock) /\ T \subseteq Location /\ U \subseteq Location
  BY DEF Reached
<1> HIDE DEF T, U
<1>3. AllSlots \in Seq(Location) /\ Range(AllSlots) = Location
  BY AllSlotsCovered
<1>4. \A i, j \in 1..Len(AllSlots) : AllSlots[i] = AllSlots[j] => i = j
  BY SlotsListed
<1>5. /\ a \in Seq(Location) /\ Range(a) = Location \cap T
      /\ \A i, j \in 1..Len(a) : a[i] = a[j] => i = j
  BY <1>3, <1>4, InOrderElements
<1>6. /\ b \in Seq(Location) /\ Range(b) = Location \cap U
      /\ \A i, j \in 1..Len(b) : b[i] = b[j] => i = j
  BY <1>3, <1>4, InOrderElements
<1> HIDE DEF a, b
<1>7. \A e \in Range(a) : e \notin Range(b)
  BY <1>2, <1>5, <1>6
<1>8. a \o b \in Seq(Location) /\ Range(a \o b) = Reached(stock)
  <2>1. a \o b \in Seq(Location) /\ Range(a \o b) = Range(a) \cup Range(b)
    BY <1>5, <1>6, RangeConcat
  <2> QED
    BY <1>2, <1>5, <1>6, <2>1
<1>9. \A i, j \in 1..Len(a \o b) : (a \o b)[i] = (a \o b)[j] => i = j
  BY <1>5, <1>6, <1>7, DisjointConcat
<1> QED
  BY <1>1, <1>8, <1>9

(* What a slot gives: its first boxes that are all needed, perhaps none. *)
LEMMA NeededFromSlot ==
  ASSUME NEW slot \in Seq(Sku), NEW need \in Seq(Sku)
  PROVE  \E n \in 0..Len(slot) :
           /\ goods_needed_from_slot(slot, need) = SubSeq(slot, 1, n)
           /\ goods_needed_from_slot(slot, need) \in Seq(Sku)
           /\ Len(goods_needed_from_slot(slot, need)) = n
           /\ Within(goods_needed_from_slot(slot, need), need)
<1> DEFINE I == {n \in 0..Len(slot) : goods_all_in_need(SubSeq(slot, 1, n), need)}
<1>1. Len(slot) \in Nat /\ I \in SUBSET (0..Len(slot))
  OBVIOUS
<1>2. I # {}
  <2>1. SubSeq(slot, 1, 0) = <<>>
    OBVIOUS
  <2>2. goods_all_in_need(<<>>, need)
    <3>1. \A i : i \notin DOMAIN <<>>
      OBVIOUS
    <3> QED
      BY <3>1 DEF goods_all_in_need, ToSet
  <2>3. 0 \in 0..Len(slot)
    BY <1>1
  <2>4. goods_all_in_need(SubSeq(slot, 1, 0), need)
    BY <2>1, <2>2, Zenon
  <2>5. 0 \in I
    BY <2>3, <2>4
  <2> QED
    BY <2>5
<1>3. goods_needed_from_slot(slot, need) = SubSeq(slot, 1, Max(I))
  BY DEF goods_needed_from_slot
<1> HIDE DEF I
<1>4. PICK n : n = Max(I) /\ n \in I
  BY <1>1, <1>2, GreatestNumber
<1>5. n \in 0..Len(slot) /\ goods_all_in_need(SubSeq(slot, 1, n), need)
  BY <1>4 DEF I
<1>6. SubSeq(slot, 1, n) \in Seq(Sku) /\ Len(SubSeq(slot, 1, n)) = n
  BY <1>5, CountPrefix
<1>7. Within(SubSeq(slot, 1, n), need)
  BY <1>5, <1>6, AllInNeed
<1> QED
  BY <1>3, <1>4, <1>5, <1>6, <1>7

(* One slot after the other: what the package still needs, and the picks. *)
Filling == [need : Seq(Sku), picks : Seq(Pick)]
(* One round of choose_slots_for_package. *)
TakeFrom(acc, loc, stock) ==
  LET planned == goods_needed_from_slot(stock[loc], acc.need) IN
    IF planned = <<>> THEN acc
    ELSE [need  |-> Without(acc.need, planned),
          picks |-> Append(acc.picks, [loc |-> loc, picked |-> stock[loc],
                                       planned |-> planned])]

(* A round takes nothing, or the top of the pile in its slot. *)
LEMMA TakeFromParts ==
  ASSUME NEW stock \in Stock, NEW loc \in Location, NEW acc \in Filling
  PROVE  /\ TakeFrom(acc, loc, stock) \in Filling
         /\ acc.need \in Seq(Sku) /\ acc.picks \in Seq(Pick)
         /\ goods_needed_from_slot(stock[loc], acc.need) \in Seq(Sku)
         /\ goods_needed_from_slot(stock[loc], acc.need) = <<>> =>
              TakeFrom(acc, loc, stock) = acc
         /\ goods_needed_from_slot(stock[loc], acc.need) # <<>> =>
              \E n \in 1..Len(stock[loc]), pick \in Pick :
                /\ pick.planned = SubSeq(stock[loc], 1, n) /\ pick.loc = loc
                /\ Len(pick.planned) = n
                /\ pick.planned = goods_needed_from_slot(stock[loc], acc.need)
                /\ TakeFrom(acc, loc, stock).need = Without(acc.need, pick.planned)
                /\ TakeFrom(acc, loc, stock).picks = Append(acc.picks, pick)
                /\ Within(pick.planned, acc.need)
<1>1. acc.need \in Seq(Sku) /\ acc.picks \in Seq(Pick) /\ stock[loc] \in Seq(Sku)
  BY DEF Filling, Stock
<1> DEFINE taken == goods_needed_from_slot(stock[loc], acc.need)
<1>2. PICK n \in 0..Len(stock[loc]) :
        /\ taken = SubSeq(stock[loc], 1, n)
        /\ taken \in Seq(Sku)
        /\ Len(taken) = n
        /\ Within(taken, acc.need)
  BY <1>1, NeededFromSlot
<1>3. taken = <<>> => TakeFrom(acc, loc, stock) = acc
  BY DEF TakeFrom
<1>4. ASSUME taken # <<>>
      PROVE  \E pick \in Pick :
               /\ pick.planned = SubSeq(stock[loc], 1, n) /\ pick.loc = loc
               /\ Len(pick.planned) = n /\ n \in 1..Len(stock[loc])
               /\ pick.planned = taken
               /\ TakeFrom(acc, loc, stock).need = Without(acc.need, pick.planned)
               /\ TakeFrom(acc, loc, stock).picks = Append(acc.picks, pick)
               /\ Within(pick.planned, acc.need)
               /\ TakeFrom(acc, loc, stock) \in Filling
  <2> DEFINE pick == [loc |-> loc, picked |-> stock[loc], planned |-> taken]
             new == [need  |-> Without(acc.need, taken), picks |-> Append(acc.picks, pick)]
  <2>1. TakeFrom(acc, loc, stock) = new
    BY <1>4 DEF TakeFrom
  <2>2. pick \in Pick /\ pick.planned = taken /\ pick.loc = loc
    BY <1>1, <1>2 DEF Pick
  <2>3. n \in 1..Len(stock[loc])
    <3>1. n # 0
      BY <1>2, <1>4, EmptySeq
    <3> QED
      BY <1>1, <1>2, <3>1
  <2>4. Without(acc.need, taken) \in Seq(Sku)
    <3>1. PICK s \in Seq(Sku), t \in Seq(Sku) : s = acc.need /\ t = taken
      BY <1>1, <1>2
    <3>2. Within(t, s)
      BY <1>2, <3>1
    <3>3. Without(s, t) \in Seq(Sku)
      BY ONLY <3>2, s \in Seq(Sku), t \in Seq(Sku), WithoutCount
    <3> QED
      BY <3>1, <3>3
  <2> HIDE DEF pick, taken
  <2>5. Append(acc.picks, pick) \in Seq(Pick)
    BY <1>1, <2>2
  <2>6. /\ new.need = Without(acc.need, taken) /\ new.picks = Append(acc.picks, pick)
        /\ new \in Filling
    BY <2>4, <2>5 DEF Filling
  <2> HIDE DEF new
  <2> QED
    BY <1>2, <2>1, <2>2, <2>3, <2>6
<1> HIDE DEF taken
<1>5. taken # <<>> =>
        /\ TakeFrom(acc, loc, stock) \in Filling
        /\ \E m \in 1..Len(stock[loc]), pick \in Pick :
             /\ pick.planned = SubSeq(stock[loc], 1, m) /\ pick.loc = loc
             /\ Len(pick.planned) = m
             /\ pick.planned = taken
             /\ TakeFrom(acc, loc, stock).need = Without(acc.need, pick.planned)
             /\ TakeFrom(acc, loc, stock).picks = Append(acc.picks, pick)
             /\ Within(pick.planned, acc.need)
  BY <1>4
<1>6. TakeFrom(acc, loc, stock) \in Filling
  BY <1>3, <1>5
<1> QED
  BY <1>1, <1>2, <1>3, <1>5, <1>6 DEF taken

(* The recursion of choose_slots_for_package. *)
Fills(goods, stock, order, f) ==
  f = [i \in 0..Len(order) |->
         IF i = 0 THEN [need |-> goods, picks |-> <<>>]
         ELSE TakeFrom(f[i - 1], order[i], stock)]

(* choose_slots_for_package is what the recursion ends with. *)
LEMMA ChoiceFills ==
  ASSUME NEW goods \in Seq(Sku), NEW stock \in Stock, NEW avoided
  PROVE  LET order == SlotOrder(stock, avoided) IN
           \E f : /\ Fills(goods, stock, order, f)
                  /\ choose_slots_for_package(goods, stock, avoided)
                       = IF f[Len(order)].need = <<>> THEN f[Len(order)].picks ELSE <<>>
<1> DEFINE order == SlotOrder(stock, avoided)
           n == Len(order)
           base == [need |-> goods, picks |-> <<>>]
           step == [x \in Filling \X (1..n) |-> TakeFrom(x[1], order[x[2]], stock)]
<1>1. order \in Seq(Location)
  BY SlotOrderSlots
<1> DEFINE h == CHOOSE g : Fills(goods, stock, order, g)
<1>7. choose_slots_for_package(goods, stock, avoided)
        = IF h[Len(order)].need = <<>> THEN h[Len(order)].picks ELSE <<>>
  BY Zenon DEF choose_slots_for_package, Fills, TakeFrom
<1> HIDE DEF order
<1>2. n \in Nat /\ base \in Filling /\ \A i \in 1..n : order[i] \in Location
  BY <1>1, RangeEmpty DEF Filling
<1>3. IsStep(step, Filling, n)
  <2>1. \A x \in Filling \X (1..n) : TakeFrom(x[1], order[x[2]], stock) \in Filling
    <3>1. \A acc \in Filling, i \in 1..n : TakeFrom(acc, order[i], stock) \in Filling
      BY <1>2, TakeFromParts
    <3> QED
      BY <3>1
  <2> QED
    BY <2>1 DEF IsStep
<1>4. \A acc \in Filling, i \in 1..n : step[<<acc, i>>] = TakeFrom(acc, order[i], stock)
  <2>1. \A acc \in Filling, i \in 1..n : /\ <<acc, i>> \in Filling \X (1..n)
                                         /\ <<acc, i>>[1] = acc /\ <<acc, i>>[2] = i
    OBVIOUS
  <2> QED
    BY <2>1
<1> HIDE DEF step, base
<1>5. PICK f : Unrolls(f, Filling, base, n, step)
  BY ONLY <1>2, <1>3, RecursionExists
<1>6. Fills(goods, stock, order, f)
  <2>1. /\ f = [i \in 0..n |-> f[i]] /\ f[0] = base
        /\ \A i \in 1..n : f[i] = TakeFrom(f[i - 1], order[i], stock)
    <3>1. \A i \in 1..n : i - 1 \in 0..n
      BY <1>2
    <3> QED
      BY <1>4, <1>5, <3>1 DEF Unrolls
  <2>2. \A i \in 0..n : i = 0 \/ i \in 1..n
    BY <1>2
  <2>3. \A i \in 0..n : f[i] = IF i = 0 THEN base ELSE TakeFrom(f[i - 1], order[i], stock)
    <3>1. \A i \in 1..n : i # 0
      BY <1>2
    <3> QED
      BY <2>1, <2>2, <3>1, Zenon
  <2> QED
    BY <2>1, <2>3 DEF Fills, base
<1>8. Fills(goods, stock, order, h)
  BY <1>6
<1> HIDE DEF h
<1> QED
  BY <1>7, <1>8 DEF order

(* What the slots seen so far have given. *)
Gives(stock, loc, goods) == goods_needed_from_slot(stock[loc], goods) # <<>>
(* What is still needed and what is planned make up what was asked for. *)
Balanced(need, planned, goods) ==
  /\ planned \in Seq(Sku) /\ Len(need) + Len(planned) = Len(goods)
  /\ \A x : Count(need, x) + Count(planned, x) = Count(goods, x)
(* What holds after i slots: the picks are tops of different piles, and       *)
(* there are some exactly when one of the slots gives what was asked for.     *)
Filled(acc, goods, stock, order, i) ==
  /\ acc \in Filling /\ PicksOf(acc.picks, stock)
  /\ \A k \in 1..Len(acc.picks) : \E j \in 1..i : acc.picks[k].loc = order[j]
  /\ Balanced(acc.need, planned_goods_from_slot_picks(acc.picks), goods)
  /\ acc.picks = <<>> =>
       /\ acc.need = goods /\ \A j \in 1..i : ~Gives(stock, order[j], goods)
  /\ acc.picks # <<>> =>
       /\ planned_goods_from_slot_picks(acc.picks) # <<>>
       /\ \E j \in 1..i : Gives(stock, order[j], goods)

(* A pick of another slot joins the picks of an inventory. *)
LEMMA PicksOfAppend ==
  ASSUME NEW stock \in Stock, NEW picks, PicksOf(picks, stock), NEW pick \in Pick,
         Len(pick.planned) <= Len(stock[pick.loc]),
         pick.planned = SubSeq(stock[pick.loc], 1, Len(pick.planned)),
         \A k \in 1..Len(picks) : picks[k].loc # pick.loc
  PROVE  /\ PicksOf(Append(picks, pick), stock)
         /\ Len(Append(picks, pick)) = Len(picks) + 1
         /\ Append(picks, pick)[Len(picks) + 1] = pick
         /\ \A k \in 1..Len(picks) : Append(picks, pick)[k] = picks[k]
<1> DEFINE new == Append(picks, pick)
           n == Len(picks)
<1>1. /\ picks \in Seq(Pick) /\ n \in Nat
      /\ \A i \in 1..n :
           /\ Len(picks[i].planned) <= Len(stock[picks[i].loc])
           /\ picks[i].planned = SubSeq(stock[picks[i].loc], 1, Len(picks[i].planned))
      /\ \A i, j \in 1..n : picks[i].loc = picks[j].loc => i = j
  BY DEF PicksOf
<1>2. /\ new \in Seq(Pick) /\ Len(new) = n + 1 /\ new[n + 1] = pick
      /\ \A i \in 1..n : new[i] = picks[i]
  BY <1>1, AppendProperties
<1> HIDE DEF new, n
<1>3. \A i \in 1..(n + 1) : i \in 1..n \/ i = n + 1
  BY <1>1
<1>4. ASSUME NEW i \in 1..(n + 1)
      PROVE  /\ Len(new[i].planned) <= Len(stock[new[i].loc])
             /\ new[i].planned = SubSeq(stock[new[i].loc], 1, Len(new[i].planned))
  <2>1. CASE i \in 1..n
    BY <1>1, <1>2, <2>1
  <2>2. CASE i = n + 1
    BY <1>2, <2>2
  <2> QED
    BY <1>3, <2>1, <2>2
<1>5. ASSUME NEW i \in 1..(n + 1), NEW j \in 1..(n + 1), new[i].loc = new[j].loc
      PROVE  i = j
  <2>1. \A k \in 1..n : new[k].loc # pick.loc
    BY <1>2 DEF n
  <2> QED
    BY <1>1, <1>2, <1>3, <1>5, <2>1
<1>6. PicksOf(new, stock)
  BY <1>2, <1>4, <1>5 DEF PicksOf
<1> QED
  BY <1>2, <1>6 DEF new, n

(* Planning more of what is needed keeps the balance. *)
LEMMA BalancedStep ==
  ASSUME NEW need \in Seq(Sku), NEW planned, NEW goods \in Seq(Sku),
         Balanced(need, planned, goods), NEW more \in Seq(Sku), Within(more, need)
  PROVE  /\ Balanced(Without(need, more), planned \o more, goods)
         /\ Without(need, more) \in Seq(Sku)
<1>1. /\ Without(need, more) \in Seq(Sku) /\ Len(Without(need, more)) = Len(need) - Len(more)
      /\ \A x : Count(Without(need, more), x) = Count(need, x) - Count(more, x)
  BY WithoutCount
<1>2. /\ planned \in Seq(Sku) /\ Len(need) + Len(planned) = Len(goods)
      /\ \A x : Count(need, x) + Count(planned, x) = Count(goods, x)
  BY DEF Balanced
<1> DEFINE left == Without(need, more) both == planned \o more
<1>3. /\ both \in Seq(Sku) /\ Len(both) = Len(planned) + Len(more)
      /\ \A x : Count(both, x) = Count(planned, x) + Count(more, x)
  BY <1>2, CountConcat, ConcatProperties
<1>4. \A x : Count(need, x) \in Nat /\ Count(planned, x) \in Nat /\ Count(more, x) \in Nat
             /\ Count(goods, x) \in Nat
  BY <1>2, CountType
<1>5. Len(need) \in Nat /\ Len(planned) \in Nat /\ Len(more) \in Nat
  BY <1>2
<1> HIDE DEF left, both
<1>6. Len(left) = Len(need) - Len(more)
      /\ \A x : Count(left, x) = Count(need, x) - Count(more, x)
  BY <1>1 DEF left
<1>7. Len(left) + Len(both) = Len(goods)
  <2>1. PICK a \in Nat, b \in Nat, c \in Nat :
          a = Len(need) /\ b = Len(planned) /\ c = Len(more)
    BY <1>5
  <2>2. a + b = Len(goods) /\ Len(left) = a - c /\ Len(both) = b + c
    BY <1>2, <1>3, <1>6, <2>1
  <2> QED
    BY ONLY <2>2, a \in Nat, b \in Nat, c \in Nat
<1>8. \A x : Count(left, x) + Count(both, x) = Count(goods, x)
  BY <1>2, <1>3, <1>4, <1>6
<1>9. Balanced(left, both, goods)
  BY <1>3, <1>7, <1>8 DEF Balanced
<1> QED
  BY <1>1, <1>9 DEF left, both

(* Filled survives a round. *)
LEMMA FillOne ==
  ASSUME NEW goods \in Seq(Sku), NEW stock \in Stock, NEW order \in Seq(Location),
         \A i, j \in 1..Len(order) : order[i] = order[j] => i = j,
         NEW i \in Nat, i + 1 <= Len(order), NEW acc, Filled(acc, goods, stock, order, i)
  PROVE  Filled(TakeFrom(acc, order[i + 1], stock), goods, stock, order, i + 1)
<1> DEFINE l == i + 1
<1>0. Len(order) \in Nat /\ l \in 1..Len(order) /\ (\A j \in 1..i : j \in 1..l /\ j \in 1..Len(order) /\ j # l)
      /\ l \in 1..l /\ \A j \in 1..l : j \in 1..i \/ j = l
  OBVIOUS
<1> HIDE DEF l
<1>1. /\ acc \in Filling /\ PicksOf(acc.picks, stock)
      /\ \A k \in 1..Len(acc.picks) : \E j \in 1..i : acc.picks[k].loc = order[j]
      /\ Balanced(acc.need, planned_goods_from_slot_picks(acc.picks), goods)
      /\ acc.picks = <<>> =>
           /\ acc.need = goods /\ \A j \in 1..i : ~Gives(stock, order[j], goods)
      /\ acc.picks # <<>> =>
           /\ planned_goods_from_slot_picks(acc.picks) # <<>>
           /\ \E j \in 1..i : Gives(stock, order[j], goods)
  BY DEF Filled
<1>2. PICK loc \in Location : loc = order[l]
  BY <1>0, ElementOfSeq
<1>3. PICK new : new = TakeFrom(acc, loc, stock)
  OBVIOUS
<1>4. new \in Filling /\ acc.need \in Seq(Sku) /\ acc.picks \in Seq(Pick)
  BY <1>1, <1>3, TakeFromParts
<1>5. CASE goods_needed_from_slot(stock[loc], acc.need) = <<>>
  <2>1. new = acc
    BY <1>1, <1>3, <1>5, TakeFromParts
  <2>2. acc.picks = <<>> => ~Gives(stock, loc, goods)
    BY <1>1, <1>5 DEF Gives
  <2>3. Filled(acc, goods, stock, order, l)
    BY <1>0, <1>1, <1>2, <2>2 DEF Filled
  <2> QED
    BY <1>2, <1>3, <2>1, <2>3 DEF l
<1>6. CASE goods_needed_from_slot(stock[loc], acc.need) # <<>>
  <2>1. PICK n \in 1..Len(stock[loc]), pick \in Pick :
          /\ pick.planned = SubSeq(stock[loc], 1, n) /\ pick.loc = loc
          /\ Len(pick.planned) = n
          /\ pick.planned = goods_needed_from_slot(stock[loc], acc.need)
          /\ TakeFrom(acc, loc, stock).need = Without(acc.need, pick.planned)
          /\ TakeFrom(acc, loc, stock).picks = Append(acc.picks, pick)
          /\ Within(pick.planned, acc.need)
    BY <1>1, <1>6, TakeFromParts
  <2>2. pick.planned \in Seq(Sku) /\ stock[loc] \in Seq(Sku) /\ Len(stock[loc]) \in Nat
    BY PickParts DEF Stock
  <2>3. PICK picks \in Seq(Pick), more \in Seq(Sku), need \in Seq(Sku) :
          picks = acc.picks /\ more = pick.planned /\ need = acc.need
    BY <1>4, <2>2
  <2> DEFINE P == planned_goods_from_slot_picks(picks)
             Q == planned_goods_from_slot_picks(Append(picks, pick))
  <2>4. Q = P \o more /\ P \in Seq(Sku)
    BY <2>3, PlannedAppend
  <2>5. Balanced(need, P, goods)
    BY <1>1, <2>3
  <2> HIDE DEF P, Q
  <2>6. Balanced(Without(need, more), Q, goods)
    BY <2>1, <2>3, <2>4, <2>5, BalancedStep
  <2>7. \A k \in 1..Len(picks) : picks[k].loc # pick.loc
    <3> SUFFICES ASSUME NEW k \in 1..Len(picks), picks[k].loc = pick.loc PROVE FALSE
      OBVIOUS
    <3>1. PICK j \in 1..i : picks[k].loc = order[j]
      BY <1>1, <2>3
    <3> QED
      BY <1>0, <1>2, <2>1, <3>1
  <2>8. /\ PicksOf(Append(picks, pick), stock)
        /\ Len(Append(picks, pick)) = Len(picks) + 1
        /\ Append(picks, pick)[Len(picks) + 1] = pick
        /\ \A k \in 1..Len(picks) : Append(picks, pick)[k] = picks[k]
    <3>1. Len(pick.planned) <= Len(stock[pick.loc])
      BY <2>1, <2>2
    <3>2. pick.planned = SubSeq(stock[pick.loc], 1, Len(pick.planned))
      BY <2>1
    <3>3. PicksOf(picks, stock)
      BY <1>1, <2>3
    <3> QED
      BY ONLY <2>7, <3>1, <3>2, <3>3, stock \in Stock, pick \in Pick, PicksOfAppend
  <2>9. new.picks = Append(picks, pick) /\ new.need = Without(need, more)
    BY <1>3, <2>1, <2>3
  <2>10. \A k \in 1..(Len(picks) + 1) : \E j \in 1..l : Append(picks, pick)[k].loc = order[j]
    <3> SUFFICES ASSUME NEW k \in 1..(Len(picks) + 1)
                 PROVE  \E j \in 1..l : Append(picks, pick)[k].loc = order[j]
      OBVIOUS
    <3>1. CASE k \in 1..Len(picks)
      <4>1. PICK j \in 1..i : picks[k].loc = order[j]
        BY <1>1, <2>3, <3>1
      <4> QED
        BY <1>0, <2>8, <3>1, <4>1
    <3>2. CASE k = Len(picks) + 1
      BY <1>0, <1>2, <2>1, <2>8, <3>2
    <3>3. k \in 1..Len(picks) \/ k = Len(picks) + 1
      OBVIOUS
    <3> QED
      BY <3>1, <3>2, <3>3
  <2>11. Q # <<>>
    <3>1. Len(P) \in Nat /\ Len(more) \in Nat /\ Len(more) # 0 /\ Len(Q) = Len(P) + Len(more)
      BY <2>1, <2>3, <2>4, ConcatProperties
    <3>2. Len(Q) # 0
      BY <3>1
    <3> QED
      BY <3>2
  <2>12. \E j \in 1..l : Gives(stock, order[j], goods)
    <3>1. CASE acc.picks = <<>>
      BY <1>0, <1>1, <1>2, <1>6, <3>1 DEF Gives
    <3>2. CASE acc.picks # <<>>
      BY <1>0, <1>1, <3>2
    <3> QED
      BY <3>1, <3>2
  <2>13. new.picks # <<>>
    <3>1. Len(new.picks) # 0
      BY <2>8, <2>9, LenProperties
    <3> QED
      BY <3>1
  <2>14. Balanced(new.need, planned_goods_from_slot_picks(new.picks), goods)
         /\ planned_goods_from_slot_picks(new.picks) # <<>>
    BY <2>6, <2>9, <2>11 DEF Q
  <2>15. PicksOf(new.picks, stock)
         /\ \A k \in 1..Len(new.picks) : \E j \in 1..l : new.picks[k].loc = order[j]
    BY <2>8, <2>9, <2>10
  <2>16. Filled(new, goods, stock, order, l)
    BY <1>4, <2>12, <2>13, <2>14, <2>15 DEF Filled
  <2> QED
    BY <1>2, <1>3, <2>16 DEF l
<1> QED
  BY <1>5, <1>6

(* What a choice of slots serves: each slot once, only slots a gripper reaches, *)
(* from the front on, and when there is a choice at all, everything asked for;  *)
(* for a single box there is one as soon as some slot gives that box.           *)
Serves(picks, goods, stock) ==
  /\ PicksOf(picks, stock)
  /\ \A k \in 1..Len(picks) : picks[k].loc \in Reached(stock)
  /\ picks # <<>> =>
       /\ Balanced(<<>>, planned_goods_from_slot_picks(picks), goods)
       /\ planned_goods_from_slot_picks(picks) # <<>>
       /\ \E loc \in Reached(stock) : Gives(stock, loc, goods)
  /\ Len(goods) = 1 /\ (\E loc \in Reached(stock) : Gives(stock, loc, goods)) =>
       picks # <<>>

(* What choose_slots_for_package returns serves a package, whatever it        *)
(* avoids.                                                                    *)
LEMMA ChoiceServes ==
  ASSUME NEW goods \in Seq(Sku), NEW stock \in Stock, NEW avoided
  PROVE  Serves(choose_slots_for_package(goods, stock, avoided), goods, stock)
<1>1. PICK order : order = SlotOrder(stock, avoided)
  OBVIOUS
<1>2. /\ order \in Seq(Location) /\ Range(order) = Reached(stock)
      /\ \A i, j \in 1..Len(order) : order[i] = order[j] => i = j
  BY <1>1, SlotOrderSlots
<1>3. PICK f : /\ Fills(goods, stock, order, f)
               /\ choose_slots_for_package(goods, stock, avoided)
                    = IF f[Len(order)].need = <<>> THEN f[Len(order)].picks ELSE <<>>
  BY <1>1, ChoiceFills
<1> DEFINE n == Len(order)
           T == {i \in Nat : i <= n => Filled(f[i], goods, stock, order, i)}
<1>4. n \in Nat
  BY <1>2
<1>5. \A i \in 0..n : f[i] = IF i = 0 THEN [need |-> goods, picks |-> <<>>]
                             ELSE TakeFrom(f[i - 1], order[i], stock)
  BY <1>3 DEF Fills
<1>6. 0 \in T
  <2>1. f[0] = [need |-> goods, picks |-> <<>>]
    BY <1>4, <1>5
  <2> DEFINE acc == [need |-> goods, picks |-> <<>>]
  <2>2. acc.need = goods /\ acc.picks = <<>> /\ acc \in Filling
    BY RangeEmpty DEF Filling
  <2> HIDE DEF acc
  <2>3. Len(<<>>) = 0 /\ 1..0 = {} /\ <<>> \in Seq(Pick) /\ <<>> \in Seq(Sku)
    BY RangeEmpty
  <2>4. PicksOf(<<>>, stock)
    BY <2>3 DEF PicksOf
  <2>5. Balanced(goods, <<>>, goods)
    <3>1. \A x : Count(<<>>, x) = 0 /\ Count(goods, x) \in Nat
      BY CountOne, CountType
    <3>2. Len(goods) \in Nat
      OBVIOUS
    <3> QED
      BY <2>3, <3>1, <3>2 DEF Balanced
  <2>6. Filled(acc, goods, stock, order, 0)
    BY <2>2, <2>3, <2>4, <2>5, PlannedNothing DEF Filled
  <2> QED
    BY <1>4, <2>1, <2>6 DEF acc
<1>7. ASSUME NEW i \in Nat, i \in T
      PROVE  i + 1 \in T
  <2> SUFFICES ASSUME i + 1 <= n PROVE Filled(f[i + 1], goods, stock, order, i + 1)
    OBVIOUS
  <2>1. i + 1 \in 0..n /\ i + 1 # 0 /\ (i + 1) - 1 = i /\ i <= n
    BY <1>4
  <2>2. Filled(f[i], goods, stock, order, i)
    BY <1>7, <2>1
  <2>3. f[i + 1] = TakeFrom(f[i], order[i + 1], stock)
    BY <1>5, <2>1
  <2> QED
    BY <1>2, <2>2, <2>3, FillOne
<1> HIDE DEF T
<1>8. \A i \in Nat : i \in T
  BY ONLY <1>6, <1>7, SetInduction
<1>9. PICK acc : acc = f[n]
  OBVIOUS
<1>10. Filled(acc, goods, stock, order, n)
  BY <1>4, <1>8, <1>9 DEF T
<1>11. PICK picks : picks = choose_slots_for_package(goods, stock, avoided)
  OBVIOUS
<1>12. picks = IF acc.need = <<>> THEN acc.picks ELSE <<>>
  BY <1>3, <1>9, <1>11
<1>13. /\ \A j \in 1..n : order[j] \in Reached(stock)
       /\ \A loc \in Reached(stock) : \E j \in 1..n : order[j] = loc
  <2>1. Range(order) = {order[j] : j \in 1..n}
    BY <1>2 DEF Range
  <2> QED
    BY <1>2, <2>1
<1>14. /\ acc \in Filling /\ PicksOf(acc.picks, stock)
       /\ \A k \in 1..Len(acc.picks) : \E j \in 1..n : acc.picks[k].loc = order[j]
       /\ Balanced(acc.need, planned_goods_from_slot_picks(acc.picks), goods)
       /\ acc.picks = <<>> =>
            /\ acc.need = goods /\ \A j \in 1..n : ~Gives(stock, order[j], goods)
       /\ acc.picks # <<>> =>
            /\ planned_goods_from_slot_picks(acc.picks) # <<>>
            /\ \E j \in 1..n : Gives(stock, order[j], goods)
  BY <1>10 DEF Filled
<1>15. CASE picks # <<>>
  <2>1. picks = acc.picks /\ acc.need = <<>>
    BY <1>12, <1>15
  <2>2. \A k \in 1..Len(picks) : picks[k].loc \in Reached(stock)
    BY <1>13, <1>14, <2>1
  <2>3. \E loc \in Reached(stock) : Gives(stock, loc, goods)
    BY <1>13, <1>14, <1>15, <2>1
  <2>4. Serves(picks, goods, stock)
    BY <1>14, <1>15, <2>1, <2>2, <2>3 DEF Serves
  <2> QED
    BY <1>11, <2>4
<1>16. CASE picks = <<>>
  <2>1. Len(<<>>) = 0 /\ 1..0 = {} /\ <<>> \in Seq(Pick) /\ <<>> \in Seq(Sku)
    BY RangeEmpty
  <2>2. PicksOf(<<>>, stock)
    BY <2>1 DEF PicksOf
  <2>3. ASSUME Len(goods) = 1, \E loc \in Reached(stock) : Gives(stock, loc, goods)
        PROVE  FALSE
    <3>1. acc.picks # <<>>
      BY <1>13, <1>14, <2>3
    <3>2. planned_goods_from_slot_picks(acc.picks) # <<>>
      BY <1>14, <3>1
    <3>3. PICK p \in Seq(Sku) : p = planned_goods_from_slot_picks(acc.picks)
      BY <1>14 DEF Balanced
    <3>4. acc.need \in Seq(Sku) /\ Len(acc.need) + Len(p) = 1
      BY <1>14, <2>3, <3>3 DEF Balanced, Filling
    <3>5. Len(p) # 0 /\ Len(p) \in Nat /\ Len(acc.need) \in Nat
      BY <3>2, <3>3, <3>4, EmptySeq, LenProperties
    <3>6. Len(acc.need) = 0
      BY <3>4, <3>5
    <3>7. acc.need = <<>>
      BY <3>4, <3>6, EmptySeq
    <3> QED
      BY <1>12, <1>16, <3>1, <3>7
  <2>4. Serves(picks, goods, stock)
    BY <1>16, <2>1, <2>2, <2>3 DEF Serves
  <2> QED
    BY <1>11, <2>4
<1> QED
  BY <1>15, <1>16

-----------------------------------------------------------------------------
(* Grippers and waves *)

(* The gripper of a slot is one of the six. *)
LEMMA GripperOfSlot ==
  ASSUME NEW loc \in Location, IsFront(loc)
  PROVE  global_gripper_id(loc) \in Gripper
<1>1. PICK s \in Station, l \in Layer, p \in Position : loc = <<s, l, p>>
  BY DEF Location
<1>2. \E i \in 1..3 : StationSeq[i] = loc[1]
  <2>1. StationSeq[1] = "A" /\ StationSeq[2] = "B" /\ StationSeq[3] = "C"
    BY DEF StationSeq
  <2>2. 1 \in 1..3 /\ 2 \in 1..3 /\ 3 \in 1..3
    OBVIOUS
  <2> QED
    BY <1>1, <2>1, <2>2 DEF Station
<1>3. PICK i \in 1..3 : i = station_id(loc)
  BY <1>2 DEF station_id
<1>4. loc[3] = 1 \/ loc[3] = 2
  BY DEF IsFront
<1>5. global_gripper_id(loc) = (i - 1) * 2 + loc[3]
  BY <1>3 DEF global_gripper_id
<1>6. (i = 1 \/ i = 2 \/ i = 3)
  OBVIOUS
<1>7. (i - 1) * 2 + loc[3] \in 1..6
  BY <1>4, <1>6
<1> QED
  BY <1>5, <1>7 DEF Gripper

(* The waves of a package are numbered from 1. *)
LEMMA WaveOfType ==
  ASSUME NEW picks, NEW i \in Nat
  PROVE  WaveOf(picks, i) \in Nat /\ WaveOf(picks, i) # 0
         /\ (i # 0 => WaveOf(picks, i) <= i)
<1> DEFINE J == {j \in 1..(i - 1) : global_gripper_id(picks[j].loc)
                                    = global_gripper_id(picks[i].loc)}
<1>1. IsFiniteSet(1..(i - 1)) /\ (i # 0 => Cardinality(1..(i - 1)) = i - 1)
  <2>1. 1 \in Int /\ i - 1 \in Int
    OBVIOUS
  <2>2. /\ IsFiniteSet(1..(i - 1))
        /\ Cardinality(1..(i - 1)) = IF 1 > i - 1 THEN 0 ELSE (i - 1) - 1 + 1
    BY ONLY <2>1, FS_Interval
  <2> QED
    BY <2>2
<1>2. J \in SUBSET (1..(i - 1))
  OBVIOUS
<1> HIDE DEF J
<1>3. IsFiniteSet(J) /\ Cardinality(J) <= Cardinality(1..(i - 1))
  BY <1>1, <1>2, FS_Subset
<1>4. Cardinality(J) \in Nat
  BY <1>3, FS_CardinalityType
<1>5. WaveOf(picks, i) = 1 + Cardinality(J)
  BY DEF WaveOf, J
<1>6. PICK c \in Nat : c = Cardinality(J) /\ (i # 0 => c <= i - 1)
  BY <1>1, <1>3, <1>4
<1> QED
  BY <1>5, <1>6

(* A wave is as long as its largest pick. *)
LEMMA WaveLengthType ==
  ASSUME NEW picks \in Seq(Pick), NEW w
  PROVE  /\ WaveLength(picks, w) \in Nat
         /\ \A i \in 1..Len(picks) : WaveOf(picks, i) = w =>
              Len(picks[i].planned) <= WaveLength(picks, w)
<1> DEFINE L == {0} \cup {Len(picks[i].planned) : i \in {j \in DOMAIN picks : WaveOf(picks, j) = w}}
           n == [i \in 1..Len(picks) |-> Len(picks[i].planned)]
<1>1. Len(picks) \in Nat /\ DOMAIN picks = 1..Len(picks)
      /\ \A i \in 1..Len(picks) : picks[i].planned \in Seq(Sku)
  BY PicksParts
<1>2. \A i \in 1..Len(picks) : n[i] \in Nat
  BY <1>1, LenProperties
<1>3. PICK b \in Nat : \A i \in 1..Len(picks) : n[i] <= b
  BY ONLY <1>1, <1>2, RowBounded
<1>4. L \in SUBSET (0..b) /\ L # {}
  <2>1. \A i \in DOMAIN picks : n[i] = Len(picks[i].planned) /\ n[i] \in 0..b
    BY <1>1, <1>2, <1>3
  <2>2. \A i \in DOMAIN picks : Len(picks[i].planned) \in 0..b
    BY <2>1
  <2>3. 0 \in 0..b
    OBVIOUS
  <2> QED
    BY ONLY <2>2, <2>3
<1>5. WaveLength(picks, w) = Max(L)
  BY DEF WaveLength
<1>6. \A i \in 1..Len(picks) : WaveOf(picks, i) = w => Len(picks[i].planned) \in L
  BY <1>1
<1> HIDE DEF L
<1>7. Max(L) \in 0..b /\ \A m \in L : m <= Max(L)
  BY <1>4, GreatestNumber
<1> QED
  BY <1>5, <1>6, <1>7

(* The first wave starts at 1 and each wave where the last one ends. *)
LEMMA WaveStartType ==
  ASSUME NEW picks \in Seq(Pick)
  PROVE  /\ WaveStart(picks, 1) = 1
         /\ \A w \in 1..Len(picks) :
              WaveStart(picks, w + 1) = WaveStart(picks, w) + WaveLength(picks, w)
         /\ \A w \in 1..(Len(picks) + 1) :
              WaveStart(picks, w) \in Nat /\ WaveStart(picks, w) # 0
<1> DEFINE n == Len(picks)
           S == Nat \ {0}
           step == [x \in S \X (1..n) |-> x[1] + WaveLength(picks, x[2])]
           StartsOf(f) == f = [v \in 0..n |->
                                IF v = 0 THEN 1 ELSE f[v - 1] + WaveLength(picks, v)]
           h == CHOOSE g : StartsOf(g)
<1>1. n \in Nat /\ 1 \in S /\ \A v : WaveLength(picks, v) \in Nat
  BY LenProperties, WaveLengthType
<1>2. \A w : WaveStart(picks, w) = h[w - 1]
  BY Zenon DEF WaveStart
<1>3. IsStep(step, S, n)
  <2>1. \A x \in S \X (1..n) : x[1] + WaveLength(picks, x[2]) \in S
    <3>1. \A s \in S, v \in 1..n : s + WaveLength(picks, v) \in S
      BY <1>1
    <3> QED
      BY <3>1
  <2> QED
    BY <2>1 DEF IsStep
<1>4. \A s \in S, v \in 1..n : step[<<s, v>>] = s + WaveLength(picks, v)
  <2>1. \A s \in S, v \in 1..n : <<s, v>> \in S \X (1..n) /\ <<s, v>>[1] = s /\ <<s, v>>[2] = v
    OBVIOUS
  <2> QED
    BY <2>1
<1> HIDE DEF step, n, S, h
<1>5. PICK f : Unrolls(f, S, 1, n, step)
  BY ONLY <1>1, <1>3, RecursionExists
<1>6. StartsOf(f)
  <2>1. /\ f = [v \in 0..n |-> f[v]] /\ f[0] = 1
        /\ \A v \in 1..n : f[v] = f[v - 1] + WaveLength(picks, v)
    <3>1. \A v \in 1..n : v - 1 \in 0..n
      BY <1>1
    <3> QED
      BY <1>4, <1>5, <3>1 DEF Unrolls
  <2>2. \A v \in 0..n : v = 0 \/ v \in 1..n
    BY <1>1
  <2>3. \A v \in 0..n : f[v] = IF v = 0 THEN 1 ELSE f[v - 1] + WaveLength(picks, v)
    <3>1. \A v \in 1..n : v # 0
      BY <1>1
    <3> QED
      BY <2>1, <2>2, <3>1, Zenon
  <2> QED
    BY <2>1, <2>3
<1>7. StartsOf(h)
  BY <1>6 DEF h
<1> DEFINE T == {v \in Nat : v <= n => h[v] \in S}
<1>8. \A v \in 0..n : h[v] = IF v = 0 THEN 1 ELSE h[v - 1] + WaveLength(picks, v)
  BY <1>7
<1> HIDE DEF StartsOf
<1>9. 0 \in T
  <2>1. 0 \in 0..n
    BY <1>1
  <2> QED
    BY <1>1, <1>8, <2>1
<1>10. ASSUME NEW v \in Nat, v \in T
       PROVE  v + 1 \in T
  <2> SUFFICES ASSUME v + 1 <= n PROVE h[v + 1] \in S
    OBVIOUS
  <2>1. v + 1 \in 0..n /\ v + 1 # 0 /\ (v + 1) - 1 = v /\ v <= n
    BY <1>1
  <2>2. h[v] \in S /\ h[v + 1] = h[v] + WaveLength(picks, v + 1)
    BY <1>8, <1>10, <2>1
  <2>3. WaveLength(picks, v + 1) \in Nat
    BY <1>1
  <2> QED
    BY <2>2, <2>3 DEF S
<1> HIDE DEF T
<1>11. \A v \in Nat : v \in T
  BY ONLY <1>9, <1>10, SetInduction
<1>12. \A v \in 0..n : h[v] \in S
  BY <1>1, <1>11 DEF T
<1>13. WaveStart(picks, 1) = 1
  <2>1. 0 \in 0..n /\ 1 - 1 = 0
    BY <1>1
  <2> QED
    BY <1>2, <1>8, <2>1
<1>14. ASSUME NEW w \in 1..n
       PROVE  WaveStart(picks, w + 1) = WaveStart(picks, w) + WaveLength(picks, w)
  <2>1. w \in 0..n /\ w # 0 /\ (w + 1) - 1 = w
    BY <1>1
  <2> QED
    BY <1>2, <1>8, <2>1
<1>15. \A w \in 1..(n + 1) : WaveStart(picks, w) \in S
  <2>1. \A w \in 1..(n + 1) : w - 1 \in 0..n
    BY <1>1
  <2> QED
    BY <1>2, <1>12, <2>1
<1> QED
  BY <1>13, <1>14, <1>15 DEF S, n

(* A wave has dropped everything when a later one starts. *)
LEMMA WavesInOrder ==
  ASSUME NEW picks \in Seq(Pick), NEW j \in 1..Len(picks), NEW w \in 1..Len(picks),
         WaveOf(picks, j) < w
  PROVE  WaveStart(picks, WaveOf(picks, j)) + Len(picks[j].planned) <= WaveStart(picks, w)
<1> DEFINE n == Len(picks)
           v == WaveOf(picks, j)
           s(x) == WaveStart(picks, x)
           T == {d \in Nat : v + 1 + d <= n => s(v + 1) <= s(v + 1 + d)}
<1>1. n \in Nat /\ v \in 1..n
  <2>1. j \in Nat /\ j # 0 /\ n \in Nat /\ j <= n
    BY LenProperties
  <2>2. v \in Nat /\ v # 0 /\ v <= j
    BY <2>1, WaveOfType
  <2> HIDE DEF v, n
  <2> QED
    BY <2>1, <2>2
<1>2. /\ \A x \in 1..n : s(x + 1) = s(x) + WaveLength(picks, x)
      /\ \A x \in 1..(n + 1) : s(x) \in Nat
      /\ \A x : WaveLength(picks, x) \in Nat
  BY WaveStartType, WaveLengthType
<1>3. Len(picks[j].planned) \in Nat /\ Len(picks[j].planned) <= WaveLength(picks, v)
  BY WaveLengthType, PicksParts, LenProperties
<1> HIDE DEF s, v
<1>4. 0 \in T
  BY <1>1, <1>2
<1>5. ASSUME NEW d \in Nat, d \in T
      PROVE  d + 1 \in T
  <2> SUFFICES ASSUME v + 1 + (d + 1) <= n PROVE s(v + 1) <= s(v + 1 + (d + 1))
    OBVIOUS
  <2>1. PICK x \in 1..n : x = v + 1 + d /\ x + 1 = v + 1 + (d + 1) /\ v + 1 \in 1..(n + 1)
    BY <1>1
  <2>2. s(v + 1) <= s(x) /\ s(x + 1) = s(x) + WaveLength(picks, x)
    BY <1>2, <1>5, <2>1
  <2>3. s(v + 1) \in Nat /\ s(x) \in Nat /\ WaveLength(picks, x) \in Nat
    BY <1>1, <1>2, <2>1
  <2> QED
    BY <2>1, <2>2, <2>3
<1> HIDE DEF T
<1>6. \A d \in Nat : d \in T
  BY ONLY <1>4, <1>5, SetInduction
<1>7. s(v + 1) <= s(w)
  <2>1. w - (v + 1) \in Nat /\ v + 1 + (w - (v + 1)) = w /\ w <= n
    BY <1>1 DEF v
  <2> QED
    BY <1>6, <2>1 DEF T
<1>8. s(v + 1) = s(v) + WaveLength(picks, v) /\ s(v) \in Nat /\ s(w) \in Nat
      /\ WaveLength(picks, v) \in Nat
  BY <1>1, <1>2
<1>9. s(v) + Len(picks[j].planned) <= s(w)
  BY <1>3, <1>7, <1>8
<1> QED
  BY <1>9 DEF s, v

(* The estimate of the batches of a package is a number. *)
LEMMA EstimateType ==
  ASSUME NEW picks \in Seq(Pick), picks # <<>>
  PROVE  estimate_package_batch_count(picks) \in Nat
<1> DEFINE W == {WaveOf(picks, i) : i \in DOMAIN picks}
<1>1. Len(picks) \in Nat /\ Len(picks) # 0 /\ DOMAIN picks = 1..Len(picks)
  BY EmptySeq, PicksParts
<1>2. \A i \in 1..Len(picks) : WaveOf(picks, i) \in 0..Len(picks)
  <2> SUFFICES ASSUME NEW i \in 1..Len(picks) PROVE WaveOf(picks, i) \in 0..Len(picks)
    OBVIOUS
  <2>1. i \in Nat /\ i # 0 /\ i <= Len(picks)
    BY <1>1
  <2>2. WaveOf(picks, i) \in Nat /\ WaveOf(picks, i) <= i
    BY <2>1, WaveOfType
  <2> QED
    BY <1>1, <2>1, <2>2
<1>3. W \in SUBSET (0..Len(picks)) /\ W # {}
  <2>1. 1 \in 1..Len(picks)
    BY <1>1
  <2> QED
    BY <1>1, <1>2, <2>1
<1>4. estimate_package_batch_count(picks) = WaveStart(picks, Max(W) + 1) - 1
  BY DEF estimate_package_batch_count
<1> HIDE DEF W
<1>5. Max(W) \in W
  BY <1>1, <1>3, GreatestNumber
<1>a. PICK m : m = Max(W) /\ m \in 0..Len(picks)
  BY <1>3, <1>5
<1>b. m + 1 \in Nat /\ m + 1 # 0
  BY <1>1, <1>a
<1>6. PICK w \in 1..(Len(picks) + 1) : w = Max(W) + 1
  BY <1>1, <1>a, <1>b
<1>7. WaveStart(picks, w) \in Nat /\ WaveStart(picks, w) # 0
  BY <1>6, WaveStartType
<1> QED
  BY <1>4, <1>6, <1>7

-----------------------------------------------------------------------------
(* Which package is next *)

(* Those whose key is least in one place. *)
LeastAt(M, K, key, i) ==
  /\ M # {}
  /\ \A k, l \in M : key[k][i] = key[l][i]
  /\ \A k \in M, l \in K : l \in M \/ key[k][i] < key[l][i]

(* Keys that are numbers have least elements at each place. *)
LEMMA LeastAtPlace ==
  ASSUME NEW K, K # {}, NEW key, NEW i, \A k \in K : key[k][i] \in Nat
  PROVE  \E M \in SUBSET K : LeastAt(M, K, key, i)
<1> DEFINE N == {key[k][i] : k \in K}
<1>1. N \in SUBSET Nat /\ N # {}
  OBVIOUS
<1>2. PICK n \in N : \A m \in N : n <= m
  BY <1>1, LeastElement
<1> DEFINE M == {k \in K : key[k][i] = n}
<1>3. M \in SUBSET K /\ M # {} /\ \A k \in M : key[k][i] = n
  OBVIOUS
<1>4. \A l \in K : l \in M \/ n < key[l][i]
  <2> SUFFICES ASSUME NEW l \in K, key[l][i] # n PROVE n < key[l][i]
    OBVIOUS
  <2>1. PICK m \in Nat : m = key[l][i] /\ n <= m /\ m # n
    BY <1>2
  <2>2. n \in Nat
    BY <1>1
  <2>3. n < m
    BY ONLY <2>1, <2>2, m \in Nat
  <2> QED
    BY <2>1, <2>3
<1> HIDE DEF M, N
<1> QED
  BY <1>3, <1>4 DEF LeastAt

(* With different keys there is a first one. *)
LEMMA FirstKey ==
  ASSUME NEW K, K # {}, NEW key, \A k \in K, i \in 1..5 : key[k][i] \in Nat,
         \A k, l \in K : key[k][5] = key[l][5] => k = l
  PROVE  \E k \in K : \A l \in K \ {k} : Precedes(key[k], key[l])
<1>0. 1 \in 1..5 /\ 2 \in 1..5 /\ 3 \in 1..5 /\ 4 \in 1..5 /\ 5 \in 1..5
  OBVIOUS
<1>1. PICK K1 \in SUBSET K : LeastAt(K1, K, key, 1)
  BY <1>0, LeastAtPlace
<1>2. PICK K2 \in SUBSET K1 : LeastAt(K2, K1, key, 2)
  <2>1. \A k \in K1 : key[k][2] \in Nat
    BY <1>0
  <2>2. K1 # {}
    BY <1>1 DEF LeastAt
  <2> QED
    BY ONLY <2>1, <2>2, LeastAtPlace
<1>3. PICK K3 \in SUBSET K2 : LeastAt(K3, K2, key, 3)
  <2>1. \A k \in K2 : key[k][3] \in Nat
    BY <1>0
  <2>2. K2 # {}
    BY <1>2 DEF LeastAt
  <2> QED
    BY ONLY <2>1, <2>2, LeastAtPlace
<1>4. PICK K4 \in SUBSET K3 : LeastAt(K4, K3, key, 4)
  <2>1. \A k \in K3 : key[k][4] \in Nat
    BY <1>0
  <2>2. K3 # {}
    BY <1>3 DEF LeastAt
  <2> QED
    BY ONLY <2>1, <2>2, LeastAtPlace
<1>5. PICK K5 \in SUBSET K4 : LeastAt(K5, K4, key, 5)
  <2>1. \A k \in K4 : key[k][5] \in Nat
    BY <1>0
  <2>2. K4 # {}
    BY <1>4 DEF LeastAt
  <2> QED
    BY ONLY <2>1, <2>2, LeastAtPlace
<1>6. PICK k \in K5 : TRUE
  BY <1>5 DEF LeastAt
<1>7. k \in K /\ k \in K1 /\ k \in K2 /\ k \in K3 /\ k \in K4
  BY <1>1, <1>2, <1>3, <1>4, <1>5, <1>6
<1>8. ASSUME NEW l \in K, l # k
      PROVE  Precedes(key[k], key[l])
  <2>1. /\ \A j \in 1..(1 - 1) : FALSE
        /\ \A j \in 1..(2 - 1) : j = 1
        /\ \A j \in 1..(3 - 1) : j = 1 \/ j = 2
        /\ \A j \in 1..(4 - 1) : j = 1 \/ j = 2 \/ j = 3
        /\ \A j \in 1..(5 - 1) : j = 1 \/ j = 2 \/ j = 3 \/ j = 4
    OBVIOUS
  <2>2. CASE l \notin K1
    BY <1>0, <1>1, <1>7, <2>1, <2>2 DEF Precedes, LeastAt
  <2>3. CASE l \in K1 /\ l \notin K2
    <3>1. key[k][1] = key[l][1] /\ key[k][2] < key[l][2]
      BY <1>1, <1>2, <1>7, <2>3 DEF LeastAt
    <3> QED
      BY <1>0, <2>1, <3>1 DEF Precedes, LeastAt
  <2>4. CASE l \in K2 /\ l \notin K3
    <3>1. key[k][1] = key[l][1] /\ key[k][2] = key[l][2] /\ key[k][3] < key[l][3]
      BY <1>1, <1>2, <1>3, <1>7, <2>4 DEF LeastAt
    <3> QED
      BY <1>0, <2>1, <3>1 DEF Precedes, LeastAt
  <2>5. CASE l \in K3 /\ l \notin K4
    <3>1. /\ key[k][1] = key[l][1] /\ key[k][2] = key[l][2] /\ key[k][3] = key[l][3]
          /\ key[k][4] < key[l][4]
      BY <1>1, <1>2, <1>3, <1>4, <1>7, <2>5 DEF LeastAt
    <3> QED
      BY <1>0, <2>1, <3>1 DEF Precedes, LeastAt
  <2>6. CASE l \in K4 /\ l \notin K5
    <3>1. /\ key[k][1] = key[l][1] /\ key[k][2] = key[l][2] /\ key[k][3] = key[l][3]
          /\ key[k][4] = key[l][4] /\ key[k][5] < key[l][5]
      BY <1>1, <1>2, <1>3, <1>4, <1>5, <1>6, <1>7, <2>6 DEF LeastAt
    <3> QED
      BY <1>0, <2>1, <3>1 DEF Precedes, LeastAt
  <2>7. CASE l \in K5
    BY <1>5, <1>6, <1>7, <1>8, <2>7 DEF LeastAt
  <2> QED
    BY <2>2, <2>3, <2>4, <2>5, <2>6, <2>7
<1> QED
  BY <1>7, <1>8

(* What the planner is asked: packages are named apart. *)
Posed ==
  /\ packages \in Seq(Package)
  /\ \A p, q \in DOMAIN packages : packages[p].name = packages[q].name => p = q

(* The line of a package and its priority. *)
LEMMA LineOfPackage ==
  ASSUME NEW package \in Package
  PROVE  target_line(package) \in Line /\ line_priority(target_line(package)) \in Nat
<1>1. package.line \in STRING
  BY DEF Package
<1>2. target_line(package) \in Line
  <2>1. CASE package.manual = "G"
    BY <2>1 DEF target_line, Line
  <2>2. CASE package.manual # "G" /\ package.manual = "S"
    BY <2>2 DEF target_line, Line
  <2>3. CASE package.manual # "G" /\ package.manual # "S"
    BY <1>1, <2>3 DEF target_line, Line
  <2> QED
    BY <2>1, <2>2, <2>3
<1>3. line_priority(target_line(package)) \in Nat
  BY DEF line_priority
<1> QED
  BY <1>2, <1>3

(* The keys packages are chosen by are numbers, the last of which names the   *)
(* package.                                                                   *)
LEMMA KeyType ==
  ASSUME Posed, NEW info, info.total \in Nat, info.clears \in BOOLEAN,
         info.package \in DOMAIN packages,
         info.line = target_line(packages[info.package])
  PROVE  (\A i \in 1..5 : SortKey(info)[i] \in Nat)
         /\ SortKey(info)[5] = packages[info.package].name
<1>1. packages[info.package] \in Package
  BY DEF Posed
<1>2. packages[info.package].name \in Nat /\ line_priority(info.line) \in Nat
  BY <1>1, LineOfPackage DEF Package
<1> DEFINE a == IF info.clears THEN 0 ELSE 1
           b == CASE is_single(info) -> 0 [] is_cross_station(info) -> 1 [] OTHER -> 2
           c == info.total
           d == line_priority(info.line)
           e == packages[info.package].name
<1>3. a \in Nat /\ b \in Nat /\ c \in Nat /\ d \in Nat /\ e \in Nat
  BY <1>2
<1>4. SortKey(info) = <<a, b, c, d, e>>
  BY DEF SortKey
<1> HIDE DEF a, b, c, d
<1>5. \A i \in 1..5 : i = 1 \/ i = 2 \/ i = 3 \/ i = 4 \/ i = 5
  OBVIOUS
<1>6. /\ <<a, b, c, d, e>>[1] = a /\ <<a, b, c, d, e>>[2] = b /\ <<a, b, c, d, e>>[3] = c
      /\ <<a, b, c, d, e>>[4] = d /\ <<a, b, c, d, e>>[5] = e
  OBVIOUS
<1>7. \A i \in 1..5 : <<a, b, c, d, e>>[i] \in Nat
  BY <1>3, <1>5, <1>6
<1> QED
  BY <1>4, <1>6, <1>7

(* What the type invariant says of the simulated state. *)
LEMMA StateParts ==
  ASSUME Posed, TypeOK
  PROVE  /\ inv \in Stock /\ store \in Stock /\ pending \subseteq DOMAIN packages
         /\ \A p \in DOMAIN packages : /\ remaining[p] \in Seq(Sku) /\ packages[p] \in Package
                                       /\ p \in Nat
<1>1. \A p \in DOMAIN packages : packages[p] \in Package /\ p \in Nat
  BY DEF Posed
<1>2. \A p \in DOMAIN packages : remaining[p] \in Seq(Sku)
  BY DEF TypeOK
<1> QED
  BY <1>1, <1>2 DEF TypeOK

(* What a candidate is. *)
LEMMA CandidateParts ==
  ASSUME Posed, TypeOK, NEW c \in Candidates
  PROVE  /\ c.package \in pending /\ c.package \in DOMAIN packages
         /\ c.total = Len(remaining[c.package]) /\ c.total \in Nat /\ c.clears \in BOOLEAN
         /\ c.line = target_line(packages[c.package])
         /\ choose_slots_for_package(remaining[c.package], inv, {}) # <<>>
         /\ c = build_package_info(c.package, remaining[c.package],
                  choose_slots_for_package(remaining[c.package], inv, {}), <<>>)
<1>1. PICK p \in Considered :
        /\ choose_slots_for_package(remaining[p], inv, {}) # <<>>
        /\ c = build_package_info(p, remaining[p],
                 choose_slots_for_package(remaining[p], inv, {}), <<>>)
  BY DEF Candidates
<1>2. p \in pending /\ p \in DOMAIN packages /\ remaining[p] \in Seq(Sku)
  BY StateParts DEF Considered
<1> DEFINE picks == choose_slots_for_package(remaining[p], inv, {})
<1> HIDE DEF picks
<1>3. clears_front_blocker(picks, inv) \in BOOLEAN
  BY DEF clears_front_blocker
<1>4. c = [package |-> p, line |-> target_line(packages[p]), total |-> Len(remaining[p]),
           picks |-> picks, clears |-> clears_front_blocker(picks, inv),
           group |-> group, before |-> <<>>]
  BY <1>1 DEF build_package_info, picks
<1>5. /\ c.package = p /\ c.line = target_line(packages[p]) /\ c.total = Len(remaining[p])
      /\ c.clears \in BOOLEAN
  BY <1>3, <1>4
<1>6. Len(remaining[p]) \in Nat
  BY <1>2, LenProperties
<1> QED
  BY <1>1, <1>2, <1>5, <1>6

(* FirstOf chooses a candidate: keys of different packages differ. *)
LEMMA FirstOfCandidates ==
  ASSUME Posed, TypeOK, NEW C \in SUBSET Candidates, C # {}
  PROVE  FirstOf(C) \in C
<1> DEFINE key == [c \in C |-> SortKey(c)]
<1>1. ASSUME NEW c \in C
      PROVE  /\ \A i \in 1..5 : key[c][i] \in Nat
             /\ key[c][5] = packages[c.package].name
  <2>1. /\ c.package \in DOMAIN packages /\ c.total \in Nat /\ c.clears \in BOOLEAN
        /\ c.line = target_line(packages[c.package])
    BY CandidateParts
  <2>2. (\A i \in 1..5 : SortKey(c)[i] \in Nat) /\ SortKey(c)[5] = packages[c.package].name
    BY <2>1, KeyType
  <2> QED
    BY <2>2
<1>2. ASSUME NEW c \in C, NEW d \in C, key[c][5] = key[d][5]
      PROVE  c = d
  <2>1. c.package \in DOMAIN packages /\ d.package \in DOMAIN packages
    BY CandidateParts
  <2>2. packages[c.package].name = packages[d.package].name
    BY <1>1, <1>2
  <2>3. c.package = d.package
    BY <2>1, <2>2 DEF Posed
  <2>4. c = build_package_info(c.package, remaining[c.package],
              choose_slots_for_package(remaining[c.package], inv, {}), <<>>)
    BY CandidateParts
  <2>5. d = build_package_info(d.package, remaining[d.package],
              choose_slots_for_package(remaining[d.package], inv, {}), <<>>)
    BY CandidateParts
  <2> QED
    BY <2>3, <2>4, <2>5
<1>3. \A c \in C : key[c] = SortKey(c)
  OBVIOUS
<1> HIDE DEF key
<1>4. \E c \in C : \A d \in C \ {c} : Precedes(key[c], key[d])
  BY <1>1, <1>2, FirstKey
<1>5. \E c \in C : \A d \in C \ {c} : Precedes(SortKey(c), SortKey(d))
  BY <1>3, <1>4
<1> QED
  BY <1>5 DEF FirstOf

(* choose_next_package_info chooses a candidate. *)
LEMMA NextCandidate ==
  ASSUME Posed, TypeOK, Candidates # {}
  PROVE  choose_next_package_info(Candidates) \in Candidates
<1> DEFINE others == {c \in Candidates : c.line # recent.line}
<1>1. FirstOf(Candidates) \in Candidates
  BY FirstOfCandidates
<1>2. others # {} => FirstOf(others) \in Candidates
  BY FirstOfCandidates
<1> QED
  BY <1>1, <1>2 DEF choose_next_package_info

(* What a package still needs, for what it is given: the picks of the next     *)
(* info are those of a choice that serves it, whichever grippers it avoids.    *)
LEMMA ServedWhateverAvoided ==
  ASSUME NEW goods \in Seq(Sku), NEW stock \in Stock, NEW avoided,
         choose_slots_for_package(goods, stock, {}) # <<>>,
         Len(goods) = 1 \/ avoided = {}
  PROVE  /\ choose_slots_for_package(goods, stock, avoided) # <<>>
         /\ Serves(choose_slots_for_package(goods, stock, avoided), goods, stock)
<1>1. Serves(choose_slots_for_package(goods, stock, {}), goods, stock)
  BY ChoiceServes
<1>2. Serves(choose_slots_for_package(goods, stock, avoided), goods, stock)
  BY ChoiceServes
<1>3. \E loc \in Reached(stock) : Gives(stock, loc, goods)
  BY <1>1 DEF Serves
<1>4. CASE Len(goods) = 1
  BY <1>2, <1>3, <1>4 DEF Serves
<1>5. CASE avoided = {}
  BY <1>2, <1>5
<1> QED
  BY <1>2, <1>4, <1>5

-----------------------------------------------------------------------------
(* Taking an info *)

(* What info i takes for the packages of a set. *)
Row(list, which, i) ==
  IF list[i].package \in which THEN planned_goods_from_slot_picks(list[i].picks)
  ELSE <<>>

(* The boxes taken, info by info. *)
LEMMA TakenRows ==
  ASSUME NEW list \in Seq(Info), NEW which
  PROVE  [i \in DOMAIN list |-> Row(list, which, i)] \in Seq(Seq(Sku))
<1>1. \A i \in 1..Len(list) : Row(list, which, i) \in Seq(Sku)
  <2> SUFFICES ASSUME NEW i \in 1..Len(list) PROVE Row(list, which, i) \in Seq(Sku)
    OBVIOUS
  <2>1. list[i] \in Info
    BY ElementOfSeq
  <2>2. list[i].picks \in Seq(Pick)
    BY <2>1 DEF Info
  <2>3. planned_goods_from_slot_picks(list[i].picks) \in Seq(Sku)
    BY <2>2, PlannedType
  <2> QED
    BY <2>3, RangeEmpty DEF Row
<1>2. DOMAIN list = 1..Len(list) /\ Len(list) \in Nat
  OBVIOUS
<1> DEFINE rows == [i \in 1..Len(list) |-> Row(list, which, i)]
<1>3. rows \in [1..Len(list) -> Seq(Sku)]
  BY <1>1
<1> HIDE DEF rows
<1>4. rows \in Seq(Seq(Sku))
  BY <1>2, <1>3, SeqDef
<1> QED
  BY <1>2, <1>4 DEF rows

(* The boxes taken are a sequence of boxes. *)
LEMMA TakenType ==
  ASSUME infos \in Seq(Info), NEW which
  PROVE  Taken(which) \in Seq(Sku)
<1>1. Taken(which) = FlattenSeq([i \in DOMAIN infos |-> Row(infos, which, i)])
  BY DEF Taken, Row
<1> QED
  BY <1>1, TakenRows, FlattenType

(* An info adds its boxes to those taken for its package. *)
LEMMA TakenAppend ==
  ASSUME infos \in Seq(Info), NEW info \in Info, infos' = Append(infos, info), NEW which
  PROVE  Taken(which)' = Taken(which) \o
           (IF info.package \in which THEN planned_goods_from_slot_picks(info.picks) ELSE <<>>)
<1> DEFINE n == Len(infos)
           new == Append(infos, info)
           rows == [i \in DOMAIN infos |-> Row(infos, which, i)]
           more == [i \in DOMAIN new |-> Row(new, which, i)]
           last == IF info.package \in which THEN planned_goods_from_slot_picks(info.picks)
                   ELSE <<>>
<1>1. rows \in Seq(Seq(Sku)) /\ more \in Seq(Seq(Sku))
  BY TakenRows, AppendProperties
<1>2. /\ n \in Nat /\ Len(new) = n + 1 /\ DOMAIN new = 1..(n + 1) /\ DOMAIN infos = 1..n
      /\ new[n + 1] = info /\ \A i \in 1..n : new[i] = infos[i]
  <2>1. /\ new \in Seq(Info) /\ Len(new) = n + 1 /\ new[n + 1] = info
        /\ \A i \in 1..n : new[i] = infos[i]
    BY AppendProperties
  <2> QED
    BY <2>1, LenProperties
<1>3. Len(rows) = n /\ Len(more) = n + 1
  BY <1>2
<1>4. \A i \in 1..n : more[i] = rows[i]
  <2> SUFFICES ASSUME NEW i \in 1..n PROVE more[i] = rows[i]
    OBVIOUS
  <2>1. i \in 1..(n + 1)
    BY <1>2
  <2>2. more[i] = Row(new, which, i) /\ rows[i] = Row(infos, which, i)
    BY <1>2, <2>1
  <2> QED
    BY <1>2, <2>2 DEF Row
<1>5. more[n + 1] = last
  <2>1. n + 1 \in 1..(n + 1)
    BY <1>2
  <2>2. more[n + 1] = Row(new, which, n + 1)
    BY <1>2, <2>1
  <2> HIDE DEF new
  <2> QED
    BY <1>2, <2>2 DEF Row
<1>6. last \in Seq(Sku)
  <2>1. info.picks \in Seq(Pick)
    BY DEF Info
  <2> QED
    BY <2>1, PlannedType, RangeEmpty
<1>7. Taken(which) = FlattenSeq(rows)
  BY DEF Taken, Row
<1>8. Taken(which)' = FlattenSeq(more)
  BY DEF Taken, Row
<1> HIDE DEF rows, more, last, new, n
<1>9. more = Append(rows, last)
  BY <1>1, <1>2, <1>3, <1>4, <1>5, <1>6
<1>10. FlattenSeq(Append(rows, last)) = FlattenSeq(rows) \o last
  BY <1>1, <1>6, FlattenAppend
<1>11. Taken(which)' = Taken(which) \o last
  BY <1>7, <1>8, <1>9, <1>10
<1> QED
  BY <1>11 DEF last

(* The part of the type invariant that says what is where. *)
Holdings ==
  /\ store \in Stock /\ inv \in Stock
  /\ remaining \in [DOMAIN packages -> Seq(Sku)]
  /\ pending = {p \in DOMAIN packages : remaining[p] # <<>> \/ packages[p].goods = <<>>}
  /\ infos \in Seq(Info) /\ before \in Seq(PreAction)
  /\ \A i \in DOMAIN infos : infos[i].package \in DOMAIN packages /\ infos[i].picks # <<>>

(* What is left of the needs of a package. *)
LeftOver(info, left) ==
  /\ remaining' = [remaining EXCEPT ![info.package] = left]
  /\ left \in Seq(Sku)
  /\ Len(left) = Len(remaining[info.package]) - Len(planned_goods_from_slot_picks(info.picks))
  /\ \A x : Count(left, x) = Count(remaining[info.package], x)
                             - Count(planned_goods_from_slot_picks(info.picks), x)

(* What a round does that takes boxes for a package. *)
Takes(info) ==
  /\ info \in Info /\ info.package \in pending
  /\ info.line = target_line(packages[info.package])
  /\ \A k \in 1..Len(info.picks) : IsFront(info.picks[k].loc)
  /\ PicksOf(info.picks, inv) /\ info.picks # <<>>
  /\ planned_goods_from_slot_picks(info.picks) # <<>>
  /\ Within(planned_goods_from_slot_picks(info.picks), remaining[info.package])
  /\ Consume(info) /\ inv' = AfterPicks(inv, info.picks)
  /\ UNCHANGED given

(* Taking boxes leaves the rest of what the package needs. *)
LEMMA ConsumeLeaves ==
  ASSUME Posed, TypeOK, NEW info, Takes(info)
  PROVE  /\ \E left : LeftOver(info, left)
         /\ planned_goods_from_slot_picks(info.picks) \in Seq(Sku)
         /\ info.package \in DOMAIN packages /\ info \in Info /\ remaining[info.package] \in Seq(Sku)
<1>1. /\ info \in Info /\ info.package \in pending /\ PicksOf(info.picks, inv)
      /\ Within(planned_goods_from_slot_picks(info.picks), remaining[info.package])
      /\ Consume(info)
  BY DEF Takes
<1>2. info.package \in DOMAIN packages /\ remaining[info.package] \in Seq(Sku)
  BY <1>1, StateParts
<1>3. planned_goods_from_slot_picks(info.picks) \in Seq(Sku)
  BY <1>1, PlannedType DEF PicksOf
<1>4. PICK s \in Seq(Sku), t \in Seq(Sku) :
        s = remaining[info.package] /\ t = planned_goods_from_slot_picks(info.picks)
  BY <1>2, <1>3
<1>5. Within(t, s)
  BY <1>1, <1>4
<1>6. /\ Without(s, t) \in Seq(Sku) /\ Len(Without(s, t)) = Len(s) - Len(t)
      /\ \A x : Count(Without(s, t), x) = Count(s, x) - Count(t, x)
  BY <1>5, WithoutCount
<1>7. remaining' = [remaining EXCEPT ![info.package] = Without(s, t)]
  BY <1>1, <1>4 DEF Consume
<1>8. LeftOver(info, Without(s, t))
  BY <1>4, <1>6, <1>7 DEF LeftOver
<1> QED
  BY <1>1, <1>2, <1>3, <1>8

(* Taking boxes keeps the types, and the package pending while it needs       *)
(* boxes.                                                                     *)
LEMMA ConsumeHoldings ==
  ASSUME Posed, TypeOK, BoxesAccountedFor, NEW info, Takes(info)
  PROVE  Holdings'
<1>1. PICK left : LeftOver(info, left)
  BY ConsumeLeaves
<1>2. PICK p : p = info.package
  OBVIOUS
<1>3. PICK planned \in Seq(Sku) : planned = planned_goods_from_slot_picks(info.picks)
  BY ConsumeLeaves
<1>4. /\ info \in Info /\ p \in pending /\ PicksOf(info.picks, inv) /\ info.picks # <<>>
      /\ planned # <<>> /\ Within(planned, remaining[p])
      /\ Consume(info) /\ inv' = AfterPicks(inv, info.picks)
      /\ store' = store /\ packages' = packages
  BY <1>2, <1>3 DEF Takes, given
<1>5. /\ p \in DOMAIN packages /\ remaining[p] \in Seq(Sku) /\ inv \in Stock /\ store \in Stock
      /\ remaining \in [DOMAIN packages -> Seq(Sku)]
      /\ infos \in Seq(Info)
      /\ pending = {q \in DOMAIN packages : remaining[q] # <<>> \/ packages[q].goods = <<>>}
      /\ \A i \in DOMAIN infos : infos[i].package \in DOMAIN packages /\ infos[i].picks # <<>>
  BY <1>4, StateParts DEF TypeOK
<1>6. remaining' = [remaining EXCEPT ![p] = left] /\ left \in Seq(Sku)
  BY <1>1, <1>2 DEF LeftOver
<1>7. inv' \in Stock
  <2>1. LeftBy(AfterPicks(inv, info.picks), info.picks, inv)
    BY <1>4, <1>5, AfterPicksAt
  <2> QED
    BY <1>4, <2>1 DEF LeftBy
<1>8. remaining' \in [DOMAIN packages -> Seq(Sku)] /\ remaining'[p] = left
      /\ \A q \in DOMAIN packages : q # p => remaining'[q] = remaining[q]
  BY <1>5, <1>6
<1>9. packages[p].goods # <<>>
  <2> SUFFICES ASSUME packages[p].goods = <<>> PROVE FALSE
    OBVIOUS
  <2>1. PICK x \in Sku : x = planned[1] /\ 1 \in DOMAIN planned
    <3>1. Len(planned) # 0 /\ Len(planned) \in Nat
      BY <1>4, EmptySeq, LenProperties
    <3>2. 1 \in 1..Len(planned)
      BY <3>1
    <3> QED
      BY <3>2, ElementOfSeq, LenProperties
  <2>2. Count(planned, x) \in Nat /\ Count(planned, x) # 0
    BY <2>1, CountType
  <2>3. Count(planned, x) <= Count(remaining[p], x) /\ Count(remaining[p], x) \in Nat
    BY <1>4, <1>5, CountType DEF Within
  <2>4. Taken({p}) \in Seq(Sku) /\ Count(Taken({p}), x) \in Nat
    BY <1>5, TakenType, CountType
  <2>5. Count(packages[p].goods, x) = Count(remaining[p], x) + Count(Taken({p}), x)
    BY <1>5 DEF BoxesAccountedFor
  <2>6. Count(packages[p].goods, x) = 0
    BY CountOne
  <2> QED
    BY <2>2, <2>3, <2>4, <2>5, <2>6
<1>10. pending' = {q \in DOMAIN packages : remaining'[q] # <<>> \/ packages[q].goods = <<>>}
  <2>1. left = Without(remaining[p], planned)
    BY <1>2, <1>3, <1>4, <1>5, <1>6 DEF Consume
  <2>2. pending' = IF left = <<>> THEN pending \ {p} ELSE pending
    BY <1>2, <1>3, <1>4, <2>1 DEF Consume
  <2>3. CASE left = <<>>
    BY <1>5, <1>8, <1>9, <2>2, <2>3
  <2>4. CASE left # <<>>
    BY <1>4, <1>5, <1>8, <2>2, <2>4
  <2> QED
    BY <2>3, <2>4
<1>11. infos' = Append(infos, info) /\ before' = <<>>
  BY <1>4 DEF Consume
<1>12. infos' \in Seq(Info) /\ before' \in Seq(PreAction)
  BY <1>4, <1>5, <1>11, RangeEmpty, AppendProperties
<1>13. \A i \in DOMAIN infos' : infos'[i].package \in DOMAIN packages /\ infos'[i].picks # <<>>
  <2>1. PICK new : new = Append(infos, info)
    OBVIOUS
  <2>2. PICK n \in Nat : n = Len(infos)
    BY <1>5, LenProperties
  <2>3. /\ DOMAIN new = 1..(n + 1) /\ new[n + 1] = info /\ DOMAIN infos = 1..n
        /\ \A i \in 1..n : new[i] = infos[i]
    <3>1. new \in Seq(Info) /\ Len(new) = n + 1
      BY <1>4, <1>5, <2>1, <2>2, AppendProperties
    <3>2. DOMAIN new = 1..Len(new)
      BY <3>1, LenProperties
    <3> QED
      BY <1>4, <1>5, <2>1, <2>2, <3>1, <3>2, AppendProperties, LenProperties
  <2>4. \A i \in 1..(n + 1) : i \in 1..n \/ i = n + 1
    OBVIOUS
  <2>5. \A i \in DOMAIN new : new[i].package \in DOMAIN packages /\ new[i].picks # <<>>
    BY <1>2, <1>4, <1>5, <2>3, <2>4
  <2> QED
    BY <1>11, <2>1, <2>5
<1> QED
  BY <1>4, <1>5, <1>7, <1>8, <1>10, <1>12, <1>13 DEF Holdings

(* Taking boxes keeps them accounted for. *)
LEMMA ConsumeAccounts ==
  ASSUME Posed, TypeOK, BoxesAccountedFor, NEW info, Takes(info)
  PROVE  BoxesAccountedFor'
<1>1. PICK left : LeftOver(info, left)
  BY ConsumeLeaves
<1>2. PICK p : p = info.package
  OBVIOUS
<1>3. PICK planned \in Seq(Sku) : planned = planned_goods_from_slot_picks(info.picks)
  BY ConsumeLeaves
<1>4. /\ info \in Info /\ PicksOf(info.picks, inv)
      /\ Consume(info) /\ inv' = AfterPicks(inv, info.picks)
      /\ store' = store /\ packages' = packages
  BY <1>2, <1>3 DEF Takes, given
<1>5. /\ p \in DOMAIN packages /\ remaining[p] \in Seq(Sku) /\ inv \in Stock /\ store \in Stock
      /\ remaining \in [DOMAIN packages -> Seq(Sku)] /\ infos \in Seq(Info)
  BY <1>2, ConsumeLeaves, StateParts DEF TypeOK
<1>6. /\ remaining' = [remaining EXCEPT ![p] = left] /\ left \in Seq(Sku)
      /\ \A x : Count(left, x) = Count(remaining[p], x) - Count(planned, x)
  BY <1>1, <1>2, <1>3 DEF LeftOver
<1>7. infos' = Append(infos, info)
  BY <1>4 DEF Consume
<1> SUFFICES ASSUME NEW x \in Sku
             PROVE  /\ Cardinality(Standing(store, x))
                         = Cardinality(Standing(inv', x)) + Count(Taken(DOMAIN packages)', x)
                    /\ \A q \in DOMAIN packages :
                         Count(packages[q].goods, x)
                           = Count(remaining'[q], x) + Count(Taken({q})', x)
  <2>1. (\A x \in Sku : /\ Cardinality(Standing(store, x))
                              = Cardinality(Standing(inv', x)) + Count(Taken(DOMAIN packages)', x)
                        /\ \A q \in DOMAIN packages :
                             Count(packages[q].goods, x)
                               = Count(remaining'[q], x) + Count(Taken({q})', x))
          => BoxesAccountedFor'
    BY <1>4 DEF BoxesAccountedFor
  <2> QED
    BY <2>1
<1>8. \A which : /\ Taken(which) \in Seq(Sku)
                 /\ Taken(which)' = Taken(which) \o (IF p \in which THEN planned ELSE <<>>)
  BY <1>2, <1>3, <1>4, <1>5, <1>7, TakenType, TakenAppend
<1>9. \A which : /\ Count(Taken(which), x) \in Nat
                 /\ p \in which => Count(Taken(which)', x) = Count(Taken(which), x) + Count(planned, x)
                 /\ p \notin which => Count(Taken(which)', x) = Count(Taken(which), x)
  <2> SUFFICES ASSUME NEW which
               PROVE  /\ Count(Taken(which), x) \in Nat
                      /\ p \in which => Count(Taken(which)', x) = Count(Taken(which), x) + Count(planned, x)
                      /\ p \notin which => Count(Taken(which)', x) = Count(Taken(which), x)
    OBVIOUS
  <2>1. PICK t \in Seq(Sku) : t = Taken(which)
    BY <1>8
  <2>2. /\ p \in which => Taken(which)' = t \o planned
        /\ p \notin which => Taken(which)' = t \o <<>>
    BY <1>8, <2>1
  <2>3. t \o <<>> = t
    OBVIOUS
  <2>4. Count(t, x) \in Nat /\ Count(t \o planned, x) = Count(t, x) + Count(planned, x)
    BY CountType, CountConcat
  <2> QED
    BY <2>1, <2>2, <2>3, <2>4
<1>10. PICK c \in Nat : c = Count(planned, x)
  BY CountType
<1>11. Cardinality(Standing(store, x))
         = Cardinality(Standing(inv', x)) + Count(Taken(DOMAIN packages)', x)
  <2>1. Cardinality(Standing(inv', x)) + c = Cardinality(Standing(inv, x))
    BY <1>3, <1>4, <1>5, <1>10, AfterPicksCount
  <2>2. Cardinality(Standing(store, x))
          = Cardinality(Standing(inv, x)) + Count(Taken(DOMAIN packages), x)
    BY DEF BoxesAccountedFor
  <2>3. Count(Taken(DOMAIN packages)', x) = Count(Taken(DOMAIN packages), x) + c
        /\ Count(Taken(DOMAIN packages), x) \in Nat
    BY <1>4, <1>5, <1>9, <1>10
  <2>4. Cardinality(Standing(inv', x)) \in Nat
    <3>1. inv' \in Stock
      BY ConsumeHoldings DEF Holdings
    <3> QED
      BY <3>1, StandingParts
  <2> QED
    BY <2>1, <2>2, <2>3, <2>4
<1>12. ASSUME NEW q \in DOMAIN packages
       PROVE  Count(packages[q].goods, x) = Count(remaining'[q], x) + Count(Taken({q})', x)
  <2>1. Count(packages[q].goods, x) = Count(remaining[q], x) + Count(Taken({q}), x)
    BY DEF BoxesAccountedFor
  <2>2. CASE q = p
    <3>1. remaining'[q] = left
      BY <1>5, <1>6, <2>2
    <3>2. Count(left, x) = Count(remaining[q], x) - c
      BY <1>6, <1>10, <2>2
    <3>3. Count(Taken({q})', x) = Count(Taken({q}), x) + c /\ Count(Taken({q}), x) \in Nat
      BY <1>9, <1>10, <2>2
    <3>4. Count(remaining[q], x) \in Nat
      BY <1>5, <2>2, CountType
    <3> QED
      BY <2>1, <3>1, <3>2, <3>3, <3>4
  <2>3. CASE q # p
    <3>1. remaining'[q] = remaining[q]
      BY <1>5, <1>6, <2>3
    <3>2. Count(Taken({q})', x) = Count(Taken({q}), x)
      BY <1>9, <2>3
    <3> QED
      BY <2>1, <3>1, <3>2
  <2> QED
    BY <2>2, <2>3
<1> QED
  BY <1>11, <1>12

-----------------------------------------------------------------------------
(* A round that serves a package *)

(* The info built for a package is an info. *)
LEMMA InfoType ==
  ASSUME Posed, TypeOK, NEW p \in DOMAIN packages, NEW goods \in Seq(Sku),
         NEW picks \in Seq(Pick), NEW pre \in Seq(PreAction)
  PROVE  /\ build_package_info(p, goods, picks, pre) \in Info
         /\ build_package_info(p, goods, picks, pre).package = p
         /\ build_package_info(p, goods, picks, pre).picks = picks
         /\ build_package_info(p, goods, picks, pre).total = Len(goods)
         /\ build_package_info(p, goods, picks, pre).line \in Line
         /\ build_package_info(p, goods, picks, pre).line = target_line(packages[p])
<1>1. p \in Nat /\ packages[p] \in Package
  BY StateParts
<1>2. target_line(packages[p]) \in Line
  BY <1>1, LineOfPackage
<1>3. clears_front_blocker(picks, inv) \in BOOLEAN
  BY DEF clears_front_blocker
<1>4. group \in Nat /\ Len(goods) \in Nat
  BY LenProperties DEF TypeOK
<1> HIDE DEF Pick, PreAction
<1> QED
  BY <1>1, <1>2, <1>3, <1>4 DEF build_package_info, Info

(* The values of wave. *)
Waves == [line : Line, grippers : SUBSET Gripper]

(* The wave of a package; only single boxes have grippers to avoid. *)
LEMMA WaveForType ==
  ASSUME TypeOK, NEW chosen, chosen.line \in Line
  PROVE  /\ WaveFor(chosen) \in Waves
         /\ ~is_single(chosen) => WaveFor(chosen).grippers = {}
<1>1. wave \in Waves
  BY DEF TypeOK, Waves
<1>2. NoLine \in Line
  BY DEF Line
<1>3. CASE ~is_single(chosen)
  <2>1. WaveFor(chosen) = [line |-> NoLine, grippers |-> {}]
    BY <1>3 DEF WaveFor
  <2> QED
    BY <1>2, <2>1 DEF Waves
<1>4. CASE is_single(chosen) /\ (chosen.clears \/ chosen.line = wave.line)
  <2>1. WaveFor(chosen) = wave
    BY <1>4 DEF WaveFor
  <2> QED
    BY <1>1, <1>4, <2>1
<1>5. CASE is_single(chosen) /\ ~(chosen.clears \/ chosen.line = wave.line)
  <2>1. WaveFor(chosen) = [line |-> chosen.line, grippers |-> {}]
    BY <1>5 DEF WaveFor
  <2> QED
    BY <1>5, <2>1 DEF Waves
<1> QED
  BY <1>3, <1>4, <1>5

(* The rest of the type invariant. *)
Moods ==
  /\ forced \in pending \cup {Nobody}
  /\ recent \in [line : Line, count : Nat]
  /\ wave \in Waves /\ group \in Nat
  /\ phase \in {"search", "planned", "refused", "unschedulable"}

(* The type invariant in two parts. *)
LEMMA TypeParts == TypeOK <=> Holdings /\ Moods
  BY DEF TypeOK, Holdings, Moods, Waves

(* Choosing a package takes boxes for it. *)
LEMMA SelectTakes ==
  ASSUME Posed, TypeOK, SelectPackage
  PROVE  (\E info : Takes(info)) /\ (Holdings' => Moods')
<1>1. /\ Searching /\ Candidates # {} /\ forced' = Nobody
      /\ UNCHANGED <<given, phase, batches>> /\ UNCHANGED group
  BY DEF SelectPackage, Unplanned
<1>2. PICK chosen \in Candidates : chosen = choose_next_package_info(Candidates)
  BY <1>1, NextCandidate
<1>3. PICK p : p = chosen.package
  OBVIOUS
<1>4. /\ p \in pending /\ p \in DOMAIN packages /\ chosen.total = Len(remaining[p])
      /\ chosen.line = target_line(packages[p])
      /\ choose_slots_for_package(remaining[p], inv, {}) # <<>>
  BY <1>2, <1>3, CandidateParts
<1>5. /\ remaining[p] \in Seq(Sku) /\ inv \in Stock /\ packages[p] \in Package
      /\ before \in Seq(PreAction)
  BY <1>4, StateParts DEF TypeOK
<1>6. chosen.line \in Line
  BY <1>4, <1>5, LineOfPackage
<1>7. PICK now \in Waves : now = WaveFor(chosen) /\ (~is_single(chosen) => now.grippers = {})
  BY <1>6, WaveForType
<1>8. PICK avoided : avoided = IF chosen.clears THEN {} ELSE now.grippers
  OBVIOUS
<1>9. PICK picks : picks = choose_slots_for_package(remaining[p], inv, avoided)
  OBVIOUS
<1>10. picks # <<>> /\ Serves(picks, remaining[p], inv)
  <2>1. Len(remaining[p]) = 1 \/ avoided = {}
    BY <1>4, <1>7, <1>8 DEF is_single
  <2> QED
    BY <1>4, <1>5, <1>9, <2>1, ServedWhateverAvoided
<1>11. /\ PicksOf(picks, inv) /\ picks \in Seq(Pick)
       /\ \A k \in 1..Len(picks) : picks[k].loc \in Reached(inv)
       /\ planned_goods_from_slot_picks(picks) # <<>>
       /\ Balanced(<<>>, planned_goods_from_slot_picks(picks), remaining[p])
  BY <1>10 DEF Serves, PicksOf
<1>12. PICK info : info = build_package_info(p, remaining[p], picks, before)
  OBVIOUS
<1>13. info \in Info /\ info.package = p /\ info.picks = picks /\ info.line \in Line
       /\ info.line = target_line(packages[p])
  BY <1>4, <1>5, <1>11, <1>12, InfoType
<1>14. /\ Consume(info)
       /\ inv' = AfterPicks(inv, picks)
       /\ wave' = IF ~is_single(info) THEN now
                  ELSE [now EXCEPT !.grippers = IF global_gripper_id(picks[1].loc) \in @
                                                THEN {global_gripper_id(picks[1].loc)}
                                                ELSE @ \cup {global_gripper_id(picks[1].loc)}]
       /\ recent' = [line  |-> info.line,
                     count |-> IF info.line = recent.line
                               THEN recent.count + estimate_package_batch_count(picks)
                               ELSE estimate_package_batch_count(picks)]
  BY <1>2, <1>3, <1>7, <1>8, <1>9, <1>12, Zenon DEF SelectPackage
<1>15. Within(planned_goods_from_slot_picks(picks), remaining[p])
  <2>1. planned_goods_from_slot_picks(picks) \in Seq(Sku)
        /\ \A x : Count(<<>>, x) + Count(planned_goods_from_slot_picks(picks), x)
                    = Count(remaining[p], x)
    BY <1>11 DEF Balanced
  <2>2. \A x : /\ Count(<<>>, x) = 0 /\ Count(planned_goods_from_slot_picks(picks), x) \in Nat
    BY <2>1, CountOne, CountType
  <2>3. \A x : Count(planned_goods_from_slot_picks(picks), x) <= Count(remaining[p], x)
    BY <2>1, <2>2
  <2> QED
    BY <2>3 DEF Within
<1>16. Takes(info)
  <2>1. \A k \in 1..Len(picks) : IsFront(picks[k].loc)
    BY <1>11 DEF Reached
  <2> QED
    BY <1>1, <1>4, <1>10, <1>11, <1>13, <1>14, <1>15, <2>1 DEF Takes
<1>17. estimate_package_batch_count(picks) \in Nat
  BY <1>10, <1>11, EstimateType
<1>18. recent' \in [line : Line, count : Nat]
  <2>1. recent.count \in Nat
    BY DEF TypeOK
  <2> QED
    BY <1>13, <1>14, <1>17, <2>1
<1>19. global_gripper_id(picks[1].loc) \in Gripper
  <2>1. 1 \in 1..Len(picks)
    <3>1. Len(picks) \in Nat /\ Len(picks) # 0
      BY <1>10, <1>11, EmptySeq, LenProperties
    <3> QED
      BY <3>1
  <2>2. picks[1].loc \in Location /\ IsFront(picks[1].loc)
    BY <1>11, <2>1 DEF Reached
  <2> QED
    BY <2>2, GripperOfSlot
<1>20. wave' \in Waves
  <2>1. PICK g \in Gripper : g = global_gripper_id(picks[1].loc)
    BY <1>19
  <2>2. \/ wave' = now
        \/ wave' = [now EXCEPT !.grippers = IF g \in @ THEN {g} ELSE @ \cup {g}]
    BY <1>14, <2>1
  <2>3. [now EXCEPT !.grippers = IF g \in @ THEN {g} ELSE @ \cup {g}] \in Waves
    BY DEF Waves
  <2> QED
    BY <2>2, <2>3
<1>21. Moods'
  BY <1>1, <1>18, <1>20 DEF Moods, TypeOK
<1> QED
  BY <1>16, <1>21

(* Choosing a package keeps the invariant. *)
LEMMA SelectKeeps ==
  ASSUME Posed, TypeOK, BoxesAccountedFor, SelectPackage
  PROVE  TypeOK' /\ BoxesAccountedFor'
<1>1. PICK info : Takes(info)
  BY SelectTakes
<1>2. Holdings' /\ BoxesAccountedFor'
  BY <1>1, ConsumeHoldings, ConsumeAccounts
<1>3. Moods'
  BY <1>2, SelectTakes
<1> QED
  BY <1>2, <1>3, TypeParts, PTL

-----------------------------------------------------------------------------
(* A round that takes a box out of its own package's way *)

(* Taking an own blocker takes boxes for its package. *)
LEMMA OwnBlockerTakes ==
  ASSUME Posed, TypeOK, TakeOwnBlocker
  PROVE  (\E info : Takes(info)) /\ (Holdings' => Moods')
<1>1. /\ \E p \in pending, loc \in Location : OwnBlocker(p, loc)
      /\ NewWave /\ UNCHANGED <<given, phase, batches>> /\ UNCHANGED <<recent, group>>
  BY DEF TakeOwnBlocker, Unplanned
<1> DEFINE Q == {q \in pending : \E loc \in Location : OwnBlocker(q, loc)}
<1>2. Q # {} /\ Q \in SUBSET Nat
  BY <1>1, StateParts
<1> DEFINE p == Min(Q)
           loc == FirstSlot(LAMBDA l : OwnBlocker(p, l))
           pick == [loc |-> loc, picked |-> inv[loc], planned |-> inv[loc]]
           picks == <<pick>>
           info == build_package_info(p, inv[loc], picks, before)
           L == {l \in Location : OwnBlocker(p, l)}
<1>14. /\ Consume(info) /\ inv' = AfterPicks(inv, picks)
       /\ forced' = IF remaining'[p] = <<>> THEN Nobody ELSE p
  BY Zenon DEF TakeOwnBlocker
<1>3. p \in Q
  BY <1>2, SmallestNumber
<1> HIDE DEF Q, p
<1>4. loc \in Location /\ OwnBlocker(p, loc)
  <2>1. L \in SUBSET Location /\ L # {}
    BY <1>3 DEF Q
  <2> DEFINE I == {i \in 1..Len(AllSlots) : AllSlots[i] \in L}
  <2>2. I # {} /\ AllSlots[Min(I)] \in L
    BY ONLY <2>1, FirstNumber
  <2>3. I = {i \in 1..Len(AllSlots) : OwnBlocker(p, AllSlots[i])}
    <3>1. \A i \in 1..Len(AllSlots) : AllSlots[i] \in Location
      BY SlotsListed, ElementOfSeq
    <3> QED
      BY <3>1
  <2>4. FirstSlot(LAMBDA l : OwnBlocker(p, l)) = AllSlots[Min(I)]
    BY <2>2, <2>3 DEF FirstSlot, SelectInSeq
  <2> QED
    BY <2>2, <2>4
<1>5. p \in pending /\ p \in DOMAIN packages /\ remaining[p] \in Seq(Sku) /\ inv \in Stock
  BY <1>3, StateParts DEF Q
<1> HIDE DEF loc
<1>6. PICK pile \in Seq(Sku) : pile = inv[loc] /\ Len(pile) \in 1..MAX_GRIPPER_COUNT
                               /\ goods_all_in_need(pile, remaining[p])
  BY <1>4, <1>5 DEF OwnBlocker, Stock
<1>7. pick \in Pick /\ pick.loc = loc /\ pick.planned = pile
  <2>1. pick = [loc |-> loc, picked |-> pile, planned |-> pile]
    BY <1>6
  <2> QED
    BY <1>4, <2>1 DEF Pick
<1> HIDE DEF pick
<1>8. picks \in Seq(Pick) /\ Len(picks) = 1 /\ picks[1] = pick /\ picks = <<pick>>
  BY <1>7
<1> HIDE DEF picks
<1>9. PicksOf(picks, inv)
  <2>1. \A i \in 1..Len(picks) : i = 1
    BY <1>8
  <2>2. Len(pile) <= Len(pile) /\ pile = SubSeq(pile, 1, Len(pile))
    BY LenProperties
  <2> QED
    BY <1>6, <1>7, <1>8, <2>1, <2>2 DEF PicksOf
<1>10. planned_goods_from_slot_picks(picks) = pile
  <2>1. PICK none \in Seq(Pick) : none = <<>> /\ Append(none, pick) = picks
    <3>1. Append(<<>>, pick) = <<pick>> /\ <<>> \in Seq(Pick)
      OBVIOUS
    <3> QED
      BY <1>8, <3>1
  <2>2. planned_goods_from_slot_picks(Append(none, pick))
          = planned_goods_from_slot_picks(none) \o pick.planned
    BY <1>7, PlannedAppend
  <2>3. <<>> \o pile = pile
    OBVIOUS
  <2> QED
    BY <1>7, <2>1, <2>2, <2>3, PlannedNothing
<1>11. pile # <<>> /\ Within(pile, remaining[p])
  <2>1. Len(pile) # 0
    BY <1>6
  <2> QED
    BY <1>5, <1>6, <2>1, AllInNeed
<1>12. info = build_package_info(p, pile, picks, before)
  BY <1>6
<1> HIDE DEF info
<1>13. info \in Info /\ info.package = p /\ info.picks = picks
       /\ info.line = target_line(packages[p])
  <2>1. before \in Seq(PreAction)
    BY DEF TypeOK
  <2>2. PICK goods \in Seq(Sku), some \in Seq(Pick), pre \in Seq(PreAction), q \in DOMAIN packages :
          goods = pile /\ some = picks /\ pre = before /\ q = p
    BY <1>5, <1>8, <2>1
  <2>3. /\ build_package_info(q, goods, some, pre) \in Info
        /\ build_package_info(q, goods, some, pre).package = q
        /\ build_package_info(q, goods, some, pre).picks = some
        /\ build_package_info(q, goods, some, pre).line = target_line(packages[q])
    BY InfoType
  <2> QED
    BY <1>12, <2>2, <2>3
<1>15. Takes(info)
  <2>1. picks # <<>>
    <3>1. Len(picks) # 0
      BY <1>8
    <3> QED
      BY <3>1
  <2>2. \A k \in 1..Len(picks) : IsFront(picks[k].loc)
    <3>1. IsFront(loc) /\ \A k \in 1..Len(picks) : k = 1
      BY <1>4, <1>8 DEF OwnBlocker
    <3> QED
      BY <1>7, <1>8, <3>1
  <2> QED
    BY <1>1, <1>5, <1>9, <1>10, <1>11, <1>13, <1>14, <2>1, <2>2 DEF Takes
<1>16. Holdings' => Moods'
  <2> SUFFICES ASSUME Holdings' PROVE Moods'
    OBVIOUS
  <2>1. forced' \in pending' \cup {Nobody}
    <3>1. packages' = packages
      BY <1>1 DEF given
    <3>2. remaining'[p] # <<>> => p \in pending'
      BY <1>5, <3>1 DEF Holdings
    <3> QED
      BY <1>14, <3>2
  <2>2. wave' \in Waves
    BY <1>1 DEF NewWave, Waves, Line
  <2> QED
    BY <1>1, <2>1, <2>2 DEF Moods, TypeOK
<1> QED
  BY <1>15, <1>16

(* Taking an own blocker keeps the invariant. *)
LEMMA OwnBlockerKeeps ==
  ASSUME Posed, TypeOK, BoxesAccountedFor, TakeOwnBlocker
  PROVE  TypeOK' /\ BoxesAccountedFor'
<1>1. PICK info : Takes(info)
  BY OwnBlockerTakes
<1>2. Holdings' /\ BoxesAccountedFor'
  BY <1>1, ConsumeHoldings, ConsumeAccounts
<1>3. Moods'
  BY <1>2, OwnBlockerTakes
<1> QED
  BY <1>2, <1>3, TypeParts, PTL

-----------------------------------------------------------------------------
(* Rounds that move boxes *)

(* Front and back slots of a layer face each other. *)
LEMMA Geometry ==
  ASSUME NEW loc \in Location
  PROVE  /\ LevelOf(loc) \in Level
         /\ loc = <<loc[1], loc[2], loc[3]>> /\ loc[1] \in Station /\ loc[2] \in Layer
         /\ loc[3] \in Position
         /\ IsFront(loc) => /\ BackOf(loc) \in Location /\ ~IsFront(BackOf(loc))
                            /\ LevelOf(BackOf(loc)) = LevelOf(loc)
                            /\ FrontOf(BackOf(loc)) = loc
         /\ ~IsFront(loc) => /\ FrontOf(loc) \in Location /\ IsFront(FrontOf(loc))
                             /\ LevelOf(FrontOf(loc)) = LevelOf(loc)
                             /\ BackOf(FrontOf(loc)) = loc
         /\ \A level \in Level :
              /\ loc \in FrontSlots(level) <=> IsFront(loc) /\ LevelOf(loc) = level
              /\ loc \in BackSlots(level) <=> ~IsFront(loc) /\ LevelOf(loc) = level
<1>1. PICK s \in Station, l \in Layer, p \in Position : loc = <<s, l, p>>
  BY DEF Location
<1>2. p = 1 \/ p = 2 \/ p = 3 \/ p = 4
  BY DEF Position
<1>3. LevelOf(loc) = <<s, l>> /\ (IsFront(loc) <=> p = 1 \/ p = 2)
  BY <1>1, <1>2 DEF LevelOf, IsFront
<1>4. \A q \in Position : <<s, l, q>> \in Location
  BY DEF Location
<1>5. 1 \in Position /\ 2 \in Position /\ 3 \in Position /\ 4 \in Position
  BY DEF Position
<1>6. ASSUME IsFront(loc)
      PROVE  /\ BackOf(loc) \in Location /\ ~IsFront(BackOf(loc))
             /\ LevelOf(BackOf(loc)) = LevelOf(loc)
             /\ FrontOf(BackOf(loc)) = loc
  <2>1. BackOf(loc) = <<s, l, p + 2>> /\ (p + 2 = 3 \/ p + 2 = 4) /\ (p + 2) - 2 = p
    BY <1>1, <1>3, <1>6 DEF BackOf
  <2>2. ~IsFront(<<s, l, p + 2>>) /\ LevelOf(<<s, l, p + 2>>) = <<s, l>>
        /\ FrontOf(<<s, l, p + 2>>) = <<s, l, (p + 2) - 2>>
    BY <2>1 DEF IsFront, LevelOf, FrontOf
  <2>3. <<s, l, p + 2>> \in Location
    BY <1>4, <1>5, <2>1
  <2> QED
    BY <1>1, <1>3, <2>1, <2>2, <2>3
<1>7. ASSUME ~IsFront(loc)
      PROVE  /\ FrontOf(loc) \in Location /\ IsFront(FrontOf(loc))
             /\ LevelOf(FrontOf(loc)) = LevelOf(loc)
             /\ BackOf(FrontOf(loc)) = loc
  <2>1. FrontOf(loc) = <<s, l, p - 2>> /\ (p - 2 = 1 \/ p - 2 = 2) /\ (p - 2) + 2 = p
    BY <1>1, <1>2, <1>3, <1>7 DEF FrontOf
  <2>2. IsFront(<<s, l, p - 2>>) /\ LevelOf(<<s, l, p - 2>>) = <<s, l>>
        /\ BackOf(<<s, l, p - 2>>) = <<s, l, (p - 2) + 2>>
    BY <2>1 DEF IsFront, LevelOf, BackOf
  <2>3. <<s, l, p - 2>> \in Location
    BY <1>4, <1>5, <2>1
  <2> QED
    BY <1>1, <1>3, <2>1, <2>2, <2>3
<1>8. ASSUME NEW level \in Level
      PROVE  /\ loc \in FrontSlots(level) <=> IsFront(loc) /\ LevelOf(loc) = level
             /\ loc \in BackSlots(level) <=> ~IsFront(loc) /\ LevelOf(loc) = level
  <2>1. PICK t \in Station, m \in Layer : level = <<t, m>>
    BY DEF Level
  <2>2. /\ FrontSlots(level) = {<<t, m, 1>>, <<t, m, 2>>}
        /\ BackSlots(level) = {<<t, m, 3>>, <<t, m, 4>>}
    BY <2>1 DEF FrontSlots, BackSlots, Slot
  <2> QED
    BY <1>1, <1>2, <1>3, <2>1, <2>2
<1>9. LevelOf(loc) \in Level
  BY <1>3 DEF Level
<1> QED
  BY <1>1, <1>6, <1>7, <1>8, <1>9

(* AllLevels lists layers. *)
LEMMA LevelsListed == AllLevels \in Seq(Level)
<1>1. \A i \in 1..12 : (i - 1) \div 4 + 1 \in 1..3 /\ ((i - 1) % 4) + 1 \in 1..4
  OBVIOUS
<1>2. \A n \in 1..3 : StationSeq[n] \in Station
  BY DEF StationSeq, Station
<1>3. \A i \in 1..12 : <<StationSeq[(i - 1) \div 4 + 1], ((i - 1) % 4) + 1>> \in Level
  BY <1>1, <1>2 DEF Level, Layer
<1>4. AllLevels \in [1..12 -> Level]
  BY <1>3 DEF AllLevels
<1> QED
  BY <1>4, SeqDef

(* The same boxes, elsewhere. *)
SameBoxes(stock, new) ==
  /\ new \in Stock
  /\ \A x : Cardinality(Standing(new, x)) = Cardinality(Standing(stock, x))

(* Moving a pile to an empty slot. *)
LEMMA MoveKeepsBoxes ==
  ASSUME NEW stock \in Stock, NEW from \in Location, NEW to \in Location, from # to,
         stock[to] = <<>>
  PROVE  SameBoxes(stock, MoveGoods(stock, from, to))
<1> DEFINE new == MoveGoods(stock, from, to)
           map == [l \in Location |-> IF l = from THEN to ELSE l]
<1>1. stock \in [Location -> Seq(Sku)] /\ <<>> \in Seq(Sku)
  BY RangeEmpty DEF Stock
<1>2. /\ new \in Stock /\ new[to] = stock[from] /\ new[from] = <<>>
      /\ \A l \in Location : l # from /\ l # to => new[l] = stock[l]
  BY <1>1 DEF MoveGoods, Stock
<1>3. /\ map \in [Location -> Location] /\ map[from] = to
      /\ \A l \in Location : l # from => map[l] = l
  OBVIOUS
<1> HIDE DEF new, map
<1>4. \A l \in Location : stock[l] # <<>> => new[map[l]] = stock[l]
  BY <1>2, <1>3
<1>5. \A k, l \in Location : stock[k] # <<>> /\ stock[l] # <<>> /\ map[k] = map[l] => k = l
  BY <1>3
<1>6. \A l \in Location : new[l] # <<>> => \E k \in Location : stock[k] # <<>> /\ map[k] = l
  BY <1>2, <1>3
<1>7. \A x : Cardinality(Standing(new, x)) = Cardinality(Standing(stock, x))
  BY <1>2, <1>3, <1>4, <1>5, <1>6, StandingMoved
<1> QED
  BY <1>2, <1>7 DEF SameBoxes, new

(* Backing off a layer with nothing behind. *)
LEMMA BackwardKeepsBoxes ==
  ASSUME NEW stock \in Stock, NEW level \in Level, BackEmpty(stock, level)
  PROVE  /\ SameBoxes(stock, FrontToBack(stock, level))
         /\ \A loc \in Location : LevelOf(loc) # level =>
              FrontToBack(stock, level)[loc] = stock[loc]
         /\ \A loc \in Location : LevelOf(loc) = level /\ IsFront(loc) =>
              FrontToBack(stock, level)[loc] = <<>>
<1> DEFINE new == FrontToBack(stock, level)
           map == [l \in Location |-> IF LevelOf(l) = level /\ IsFront(l) THEN BackOf(l) ELSE l]
<1>1. stock \in [Location -> Seq(Sku)] /\ <<>> \in Seq(Sku)
  BY RangeEmpty DEF Stock
<1>2. \A l \in Location : LevelOf(l) = level /\ ~IsFront(l) => stock[l] = <<>>
  BY Geometry DEF BackEmpty
<1>3. \A l \in Location :
        new[l] = IF LevelOf(l) = level /\ ~IsFront(l) THEN stock[FrontOf(l)]
                 ELSE IF LevelOf(l) = level /\ IsFront(l) THEN <<>> ELSE stock[l]
  BY Geometry DEF FrontToBack
<1>4. new \in Stock
  <2>1. \A l \in Location : new[l] \in Seq(Sku)
    BY <1>1, <1>3, Geometry
  <2>2. new = [l \in Location |-> new[l]]
    BY DEF FrontToBack
  <2> HIDE DEF new
  <2> QED
    BY <2>1, <2>2 DEF Stock
<1>5. \A l \in Location : /\ LevelOf(l) = level /\ IsFront(l) => map[l] = BackOf(l)
                          /\ ~(LevelOf(l) = level /\ IsFront(l)) => map[l] = l
  OBVIOUS
<1>6. map \in [Location -> Location]
  BY Geometry
<1> HIDE DEF new, map
<1>7. \A l \in Location : stock[l] # <<>> => new[map[l]] = stock[l]
  <2> SUFFICES ASSUME NEW l \in Location, stock[l] # <<>> PROVE new[map[l]] = stock[l]
    OBVIOUS
  <2>1. CASE LevelOf(l) = level /\ IsFront(l)
    <3>1. BackOf(l) \in Location /\ ~IsFront(BackOf(l)) /\ LevelOf(BackOf(l)) = level
          /\ FrontOf(BackOf(l)) = l
      BY <2>1, Geometry
    <3> QED
      BY <1>3, <1>5, <2>1, <3>1
  <2>2. CASE ~(LevelOf(l) = level /\ IsFront(l))
    BY <1>2, <1>3, <1>5, <2>2
  <2> QED
    BY <2>1, <2>2
<1>8. ASSUME NEW k \in Location, NEW l \in Location, stock[k] # <<>>, stock[l] # <<>>,
             map[k] = map[l]
      PROVE  k = l
  <2>1. \A m \in Location : LevelOf(m) = level /\ IsFront(m) =>
          /\ BackOf(m) \in Location /\ ~IsFront(BackOf(m)) /\ LevelOf(BackOf(m)) = level
          /\ FrontOf(BackOf(m)) = m
    BY Geometry
  <2> QED
    BY <1>2, <1>5, <1>8, <2>1
<1>9. ASSUME NEW l \in Location, new[l] # <<>>
      PROVE  \E k \in Location : stock[k] # <<>> /\ map[k] = l
  <2>1. CASE LevelOf(l) = level /\ ~IsFront(l)
    <3>1. FrontOf(l) \in Location /\ IsFront(FrontOf(l)) /\ LevelOf(FrontOf(l)) = level
          /\ BackOf(FrontOf(l)) = l
      BY <2>1, Geometry
    <3> QED
      BY <1>3, <1>5, <1>9, <2>1, <3>1
  <2>2. CASE ~(LevelOf(l) = level /\ ~IsFront(l))
    BY <1>3, <1>5, <1>9, <2>2
  <2> QED
    BY <2>1, <2>2
<1>10. \A x : Cardinality(Standing(new, x)) = Cardinality(Standing(stock, x))
  BY <1>4, <1>6, <1>7, <1>8, <1>9, StandingMoved
<1> QED
  BY <1>3, <1>4, <1>10 DEF SameBoxes, new

(* Boxes behind come forward wherever nothing stands in front. *)
LEMMA ForwardKeepsBoxes ==
  ASSUME inv \in Stock, ShiftBackGoods
  PROVE  SameBoxes(inv, inv')
<1> DEFINE Comes(l) == Shiftable(LevelOf(l)) /\ ~IsFront(l)
           Vacant(l) == Shiftable(LevelOf(l)) /\ IsFront(l)
           map == [l \in Location |-> IF Comes(l) THEN FrontOf(l) ELSE l]
<1>1. inv \in [Location -> Seq(Sku)] /\ <<>> \in Seq(Sku)
  BY RangeEmpty DEF Stock
<1>2. \A l \in Location : Vacant(l) => inv[l] = <<>>
  BY Geometry DEF Shiftable, FrontEmpty
<1>3. /\ inv' = [l \in Location |-> inv'[l]]
      /\ \A l \in Location :
           inv'[l] = IF Vacant(l) THEN inv[BackOf(l)] ELSE IF Comes(l) THEN <<>> ELSE inv[l]
  BY DEF ShiftBackGoods
<1>4. inv' \in Stock
  <2>1. \A l \in Location : inv'[l] \in Seq(Sku)
    BY <1>1, <1>3, Geometry
  <2> QED
    BY <1>3, <2>1 DEF Stock
<1>5. \A l \in Location : /\ Comes(l) => map[l] = FrontOf(l)
                          /\ ~Comes(l) => map[l] = l
  OBVIOUS
<1>6. map \in [Location -> Location]
  BY Geometry
<1>a. \A l \in Location : Comes(l) => /\ FrontOf(l) \in Location /\ Vacant(FrontOf(l))
                                      /\ BackOf(FrontOf(l)) = l
  BY Geometry
<1>b. \A l \in Location : Vacant(l) => /\ BackOf(l) \in Location /\ Comes(BackOf(l))
                                       /\ FrontOf(BackOf(l)) = l
  BY Geometry
<1>c. \A l \in Location : ~(Comes(l) /\ Vacant(l))
  OBVIOUS
<1>d. PICK new : new = inv'
  OBVIOUS
<1> HIDE DEF map, Comes, Vacant
<1>7. \A l \in Location : inv[l] # <<>> => new[map[l]] = inv[l]
  BY <1>2, <1>3, <1>5, <1>a, <1>c, <1>d
<1>8. \A k, l \in Location : inv[k] # <<>> /\ inv[l] # <<>> /\ map[k] = map[l] => k = l
  BY <1>2, <1>5, <1>a
<1>9. \A l \in Location : new[l] # <<>> => \E k \in Location : inv[k] # <<>> /\ map[k] = l
  BY <1>2, <1>3, <1>5, <1>a, <1>b, <1>c, <1>d
<1>10. \A x : Cardinality(Standing(new, x)) = Cardinality(Standing(inv, x))
  BY <1>4, <1>6, <1>7, <1>8, <1>9, <1>d, StandingMoved
<1> QED
  BY <1>4, <1>10, <1>d DEF SameBoxes

(* What a round that only moves boxes about does to the rest. *)
Rearranges ==
  /\ UNCHANGED given /\ UNCHANGED <<pending, remaining, infos, forced, recent>>
  /\ SameBoxes(inv, inv') /\ before' \in Seq(PreAction)

(* Moving boxes about keeps the invariant. *)
LEMMA RearrangesKeeps ==
  ASSUME Posed, TypeOK, BoxesAccountedFor, Rearranges,
         group' \in Nat, wave' \in Waves, phase' = phase
  PROVE  TypeOK' /\ BoxesAccountedFor'
<1>1. /\ store' = store /\ packages' = packages /\ pending' = pending
      /\ remaining' = remaining /\ infos' = infos /\ forced' = forced /\ recent' = recent
      /\ inv' \in Stock /\ before' \in Seq(PreAction)
      /\ \A x : Cardinality(Standing(inv', x)) = Cardinality(Standing(inv, x))
  BY DEF Rearranges, given, SameBoxes
<1>2. Holdings'
  BY <1>1 DEF Holdings, TypeOK
<1>3. Moods'
  BY <1>1 DEF Moods, TypeOK
<1>4. BoxesAccountedFor'
  <2>1. \A which : Taken(which)' = Taken(which)
    BY <1>1 DEF Taken
  <2>2. (\A x \in Sku : /\ Cardinality(Standing(store, x))
                              = Cardinality(Standing(inv', x)) + Count(Taken(DOMAIN packages), x)
                        /\ \A q \in DOMAIN packages :
                             Count(packages[q].goods, x)
                               = Count(remaining[q], x) + Count(Taken({q}), x))
          => BoxesAccountedFor'
    BY <1>1, <2>1 DEF BoxesAccountedFor
  <2>3. \A x \in Sku : /\ Cardinality(Standing(store, x))
                              = Cardinality(Standing(inv', x)) + Count(Taken(DOMAIN packages), x)
                        /\ \A q \in DOMAIN packages :
                             Count(packages[q].goods, x)
                               = Count(remaining[q], x) + Count(Taken({q}), x)
    BY <1>1 DEF BoxesAccountedFor
  <2> QED
    BY <2>2, <2>3
<1> QED
  BY <1>2, <1>3, <1>4, TypeParts, PTL

(* A new wave is a wave. *)
LEMMA NewWaveType ==
  ASSUME NewWave
  PROVE  wave' \in Waves
BY DEF NewWave, Waves, Line

(* Refilling moves boxes about. *)
LEMMA ShiftRearranges ==
  ASSUME Posed, TypeOK, ShiftBackGoods
  PROVE  Rearranges /\ group' \in Nat /\ wave' \in Waves /\ phase' = phase
<1> DEFINE levels == InOrder(AllLevels, {level \in Level : Shiftable(level)})
           steps == [i \in DOMAIN levels |->
                       [kind |-> "forward", level |-> levels[i],
                        moved |-> <<inv[Slot(levels[i], 3)], inv[Slot(levels[i], 4)]>>]]
<1>1. /\ before' = before \o steps /\ group' = group + 1 /\ NewWave /\ phase' = phase
      /\ UNCHANGED given /\ UNCHANGED <<pending, remaining, infos, forced, recent>>
  BY Zenon DEF ShiftBackGoods, Unplanned
<1>2. /\ inv \in [Location -> Seq(Sku)] /\ before \in Seq(PreAction) /\ group \in Nat
  BY DEF TypeOK, Stock
<1>3. levels \in Seq(Level)
  BY LevelsListed, InOrderElements
<1>4. \A i \in DOMAIN levels : steps[i] \in PreAction
  <2> SUFFICES ASSUME NEW i \in DOMAIN levels PROVE steps[i] \in PreAction
    OBVIOUS
  <2>1. PICK level \in Level : level = levels[i]
    BY <1>3, ElementOfSeq, LenProperties
  <2>2. Slot(level, 3) \in Location /\ Slot(level, 4) \in Location
    <3>1. PICK s \in Station, l \in Layer : level = <<s, l>>
      BY DEF Level
    <3> QED
      BY <3>1 DEF Slot, Location, Position
  <2>3. inv[Slot(level, 3)] \in Seq(Sku) /\ inv[Slot(level, 4)] \in Seq(Sku)
    BY <1>2, <2>2
  <2>4. steps[i] = [kind |-> "forward", level |-> level,
                    moved |-> <<inv[Slot(level, 3)], inv[Slot(level, 4)]>>]
    BY <2>1
  <2> HIDE DEF steps, levels
  <2> QED
    BY <2>3, <2>4 DEF PreAction
<1>5. steps \in Seq(PreAction)
  <2>1. PICK n \in Nat : DOMAIN levels = 1..n
    BY <1>3, LenProperties
  <2>2. steps = [i \in 1..n |-> steps[i]]
    BY <2>1
  <2> HIDE DEF steps, levels
  <2>3. steps \in [1..n -> PreAction]
    BY <1>4, <2>1, <2>2
  <2> QED
    BY <2>3, SeqDef
<1> HIDE DEF steps, levels
<1>6. before' \in Seq(PreAction)
  BY <1>1, <1>2, <1>5, ConcatProperties
<1>7. SameBoxes(inv, inv')
  BY ForwardKeepsBoxes DEF TypeOK
<1> QED
  BY <1>1, <1>2, <1>6, <1>7, NewWaveType DEF Rearranges

(* What is moved aside, and where to. *)
BlockedSlots(p) == {l \in Location : Blocked(p, l)}

(* The blocking slot is a front slot with boxes. *)
LEMMA BlockingSlotFound ==
  ASSUME Posed, TypeOK, \E p \in pending : HasBlocked(p)
  PROVE  /\ BlockingSlot \in Location /\ IsFront(BlockingSlot) /\ inv[BlockingSlot] # <<>>
<1> DEFINE Q == {q \in pending : HasBlocked(q)}
           p == Min(Q)
           first == FirstSlot(LAMBDA l : Blocked(p, l))
<1>1. Q # {} /\ Q \in SUBSET Nat
  BY StateParts
<1>2. p \in Q
  BY <1>1, SmallestNumber
<1>3. BlockingSlot = FrontOf(first)
  BY Zenon DEF BlockingSlot
<1>a. HasBlocked(p)
  BY <1>2
<1> HIDE DEF Q, p
<1>4. BlockedSlots(p) \in SUBSET Location /\ BlockedSlots(p) # {}
  BY <1>a DEF BlockedSlots, HasBlocked
<1> DEFINE I == {i \in 1..Len(AllSlots) : AllSlots[i] \in BlockedSlots(p)}
<1>5. I # {} /\ AllSlots[Min(I)] \in BlockedSlots(p)
  BY ONLY <1>4, FirstNumber
<1>6. I = {i \in 1..Len(AllSlots) : Blocked(p, AllSlots[i])}
  <2>1. \A i \in 1..Len(AllSlots) : AllSlots[i] \in Location
    BY SlotsListed, ElementOfSeq
  <2> QED
    BY <2>1 DEF BlockedSlots
<1>7. first = AllSlots[Min(I)]
  BY <1>5, <1>6 DEF FirstSlot, SelectInSeq
<1> HIDE DEF I, first
<1>8. first \in Location /\ Blocked(p, first)
  BY <1>5, <1>7 DEF BlockedSlots
<1>9. ~IsFront(first) /\ inv[FrontOf(first)] # <<>>
  BY <1>8 DEF Blocked
<1> QED
  BY <1>3, <1>8, <1>9, Geometry

(* The pre-actions grow by one move, after what it needs first. *)
AddsMove ==
  \E steps \in Seq(PreAction), step \in PreAction :
    /\ before' = before \o steps \o <<step>> /\ step.kind = "move"
    /\ \A i \in DOMAIN steps : steps[i].kind # "move"

(* An adjustment moves boxes about: to a free slot, or one backed off first. *)
LEMMA AdjustRearranges ==
  ASSUME Posed, TypeOK, AdjustLocation
  PROVE  Rearranges /\ group' \in Nat /\ wave' \in Waves /\ phase' = phase /\ AddsMove
<1> DEFINE from == BlockingSlot
           back == BufferLayers(from) = {}
           rooms == IF back THEN BackableLayers(from) ELSE BufferLayers(from)
           layer == Min(rooms)
           level == <<from[1], layer>>
           to == Slot(level, from[3])
           cleared == IF back THEN FrontToBack(inv, level) ELSE inv
           step == [kind |-> "move", g |-> global_gripper_id(from),
                    from |-> from, to |-> to, goods |-> inv[from]]
           steps == (IF back THEN <<[kind |-> "backward", level |-> level]>> ELSE <<>>)
<1>1. /\ inv' = MoveGoods(cleared, from, to)
      /\ before' = before \o steps \o <<step>>
      /\ group' = group + 1 /\ NewWave /\ phase' = phase
      /\ UNCHANGED given /\ UNCHANGED <<pending, remaining, infos, forced, recent>>
      /\ \E p \in pending : HasBlocked(p)
      /\ BufferLayers(from) \cup BackableLayers(from) # {}
  BY Zenon DEF AdjustLocation, CanAdjust, Unplanned
<1>2. /\ inv \in Stock /\ inv \in [Location -> Seq(Sku)] /\ before \in Seq(PreAction)
      /\ group \in Nat
  BY DEF TypeOK, Stock
<1>3. from \in Location /\ IsFront(from) /\ inv[from] # <<>>
  BY <1>1, BlockingSlotFound
<1> HIDE DEF from
<1>4. /\ from = <<from[1], from[2], from[3]>> /\ from[1] \in Station /\ from[2] \in Layer
      /\ from[3] \in Position /\ LevelOf(from) = <<from[1], from[2]>>
  BY <1>3, Geometry DEF LevelOf
<1>5. rooms # {} /\ rooms \in SUBSET Layer /\ from[2] \notin rooms
  BY <1>1 DEF BufferLayers, BackableLayers, OtherLayers
<1>6. layer \in rooms
  <2>1. rooms \in SUBSET Nat
    BY <1>5 DEF Layer
  <2> HIDE DEF rooms
  <2> QED
    BY <1>5, <2>1, SmallestNumber
<1>7. layer \in Layer /\ layer # from[2] /\ layer \in rooms
  BY <1>5, <1>6
<1>a. back => BackEmpty(inv, <<from[1], layer>>)
  BY <1>7 DEF BackableLayers
<1>b. ~back => inv[<<from[1], layer, from[3]>>] = <<>>
  BY <1>7 DEF BufferLayers
<1> HIDE DEF back, rooms, layer
<1>8. /\ level \in Level /\ level # LevelOf(from) /\ to \in Location /\ to # from
      /\ LevelOf(to) = level /\ IsFront(to) /\ to = <<from[1], layer, from[3]>>
  <2>1. to = <<from[1], layer, from[3]>>
    BY DEF Slot
  <2>2. level \in Level /\ level # LevelOf(from)
    BY <1>4, <1>7 DEF Level
  <2>3. to \in Location /\ LevelOf(to) = level /\ IsFront(to)
    BY <1>3, <1>4, <1>7, <2>1 DEF Location, LevelOf, IsFront
  <2> QED
    BY <2>1, <2>2, <2>3
<1> HIDE DEF to
<1>9. SameBoxes(inv, cleared) /\ cleared[to] = <<>>
  <2>1. CASE back
    <3>1. cleared = FrontToBack(inv, level) /\ BackEmpty(inv, level)
      BY <1>a, <2>1
    <3> HIDE DEF cleared, level
    <3> QED
      BY <1>2, <1>8, <3>1, BackwardKeepsBoxes
  <2>2. CASE ~back
    <3>1. cleared = inv
      BY <2>2
    <3> HIDE DEF cleared
    <3> QED
      BY <1>2, <1>8, <1>b, <2>2, <3>1 DEF SameBoxes
  <2> QED
    BY <2>1, <2>2
<1> HIDE DEF cleared
<1>10. SameBoxes(inv, inv')
  <2>1. cleared \in Stock
    BY <1>9 DEF SameBoxes
  <2>2. SameBoxes(cleared, inv')
    BY <1>1, <1>3, <1>8, <1>9, <2>1, MoveKeepsBoxes
  <2> QED
    BY <1>9, <2>2 DEF SameBoxes
<1>11. before' \in Seq(PreAction) /\ AddsMove
  <2>1. global_gripper_id(from) \in Gripper /\ inv[from] \in Seq(Sku)
    BY <1>2, <1>3, GripperOfSlot
  <2>2. step \in PreAction
    BY <1>3, <1>8, <2>1 DEF PreAction
  <2>3. [kind |-> "backward", level |-> level] \in PreAction
    BY <1>8 DEF PreAction
  <2>4. steps \in Seq(PreAction)
    <3>1. <<[kind |-> "backward", level |-> level]>> \in Seq(PreAction)
      BY <2>3
    <3> QED
      BY <3>1, RangeEmpty
  <2>5. step.kind = "move" /\ \A i \in DOMAIN steps : steps[i].kind # "move"
    OBVIOUS
  <2> HIDE DEF step, steps
  <2>6. <<step>> \in Seq(PreAction)
    BY <2>2
  <2>7. before' \in Seq(PreAction)
    BY <1>1, <1>2, <2>4, <2>6, ConcatProperties
  <2>8. AddsMove
    BY <1>1, <2>2, <2>4, <2>5 DEF AddsMove
  <2> QED
    BY <2>7, <2>8
<1> QED
  BY <1>1, <1>2, <1>10, <1>11, NewWaveType DEF Rearranges

-----------------------------------------------------------------------------
(* All rounds *)

(* The inductive invariant. *)
SearchInv == Posed /\ TypeOK /\ BoxesAccountedFor

(* Planning leaves what it was asked alone. *)
LEMMA PosedKept == ASSUME Posed, packages' = packages PROVE Posed'
BY DEF Posed

(* Steps that only end planning keep the invariant. *)
LEMMA NothingMoved ==
  ASSUME Posed, TypeOK, BoxesAccountedFor,
         UNCHANGED <<store, packages, inv, pending, remaining, infos, before, forced,
                     recent, wave, group>>,
         phase' \in {"search", "planned", "refused", "unschedulable"}
  PROVE  TypeOK' /\ BoxesAccountedFor'
<1>1. TypeOK'
  BY DEF TypeOK
<1>2. BoxesAccountedFor'
  BY DEF BoxesAccountedFor, Taken
<1> QED
  BY <1>1, <1>2

(* Every step keeps the invariant. *)
LEMMA SearchKept == SearchInv /\ [Next]_vars => SearchInv'
<1> SUFFICES ASSUME Posed, TypeOK, BoxesAccountedFor, [Next]_vars
             PROVE  Posed' /\ TypeOK' /\ BoxesAccountedFor'
  BY DEF SearchInv
<1>1. CASE SelectPackage
  <2>1. packages' = packages
    BY <1>1 DEF SelectPackage, Unplanned, given
  <2> QED
    BY <1>1, <2>1, PosedKept, SelectKeeps
<1>2. CASE ShiftBackGoods
  <2>1. packages' = packages
    BY <1>2 DEF ShiftBackGoods, Unplanned, given
  <2> QED
    BY <1>2, <2>1, PosedKept, ShiftRearranges, RearrangesKeeps
<1>3. CASE TakeOwnBlocker
  <2>1. packages' = packages
    BY <1>3 DEF TakeOwnBlocker, Unplanned, given
  <2> QED
    BY <1>3, <2>1, PosedKept, OwnBlockerKeeps
<1>4. CASE AdjustLocation
  <2>1. packages' = packages
    BY <1>4 DEF AdjustLocation, Unplanned, given
  <2> QED
    BY <1>4, <2>1, PosedKept, AdjustRearranges, RearrangesKeeps
<1>5. CASE Unschedulable
  BY <1>5, PosedKept, NothingMoved DEF Unschedulable, given
<1>6. CASE BuildPlan
  <2>1. phase' \in {"planned", "refused"}
    BY <1>6 DEF BuildPlan
  <2>2. UNCHANGED <<store, packages, inv, pending, remaining, infos, before, forced,
                    recent, wave, group>>
    BY <1>6 DEF BuildPlan, given
  <2> QED
    BY <2>1, <2>2, PosedKept, NothingMoved
<1>7. CASE UNCHANGED vars
  BY <1>7, PosedKept, NothingMoved DEF vars, given, TypeOK
<1> QED
  BY <1>1, <1>2, <1>3, <1>4, <1>5, <1>6, <1>7 DEF Next, Over

(* Planning starts with every box in the store and none taken. *)
LEMMA SearchStarts == Init => SearchInv
<1> SUFFICES ASSUME Init PROVE Posed /\ TypeOK /\ BoxesAccountedFor
  BY DEF SearchInv
<1>1. /\ inv = store /\ pending = DOMAIN packages
      /\ remaining = [p \in DOMAIN packages |-> packages[p].goods]
      /\ infos = <<>> /\ before = <<>> /\ forced = Nobody
      /\ recent = [line |-> NoLine, count |-> 0]
      /\ wave = [line |-> NoLine, grippers |-> {}]
      /\ group = 0 /\ phase = "search"
  BY DEF Init
<1>2. Posed /\ store \in Stock
  BY CasesAssumption DEF Init, Posed
<1>3. \A p \in DOMAIN packages : packages[p].goods \in Seq(Sku)
  <2>1. \A p \in DOMAIN packages : packages[p] \in Package
    BY <1>2 DEF Posed
  <2> QED
    BY <2>1 DEF Package
<1>4. <<>> \in Seq(Info) /\ <<>> \in Seq(PreAction) /\ DOMAIN <<>> = {}
  BY RangeEmpty
<1>5. Holdings
  <2>1. remaining \in [DOMAIN packages -> Seq(Sku)]
    BY <1>1, <1>3
  <2>2. pending = {p \in DOMAIN packages : remaining[p] # <<>> \/ packages[p].goods = <<>>}
    BY <1>1
  <2> QED
    BY <1>1, <1>2, <1>4, <2>1, <2>2 DEF Holdings
<1>6. Moods
  BY <1>1 DEF Moods, Waves, Line
<1>7. BoxesAccountedFor
  <2>1. \A which : Taken(which) = <<>>
    <3> SUFFICES ASSUME NEW which PROVE Taken(which) = <<>>
      OBVIOUS
    <3>1. Taken(which) = FlattenSeq([i \in DOMAIN infos |-> Row(infos, which, i)])
      BY DEF Taken, Row
    <3>2. [i \in DOMAIN infos |-> Row(infos, which, i)] = <<>>
      BY <1>1, <1>4
    <3> QED
      BY <3>1, <3>2, FlattenNothing
  <2>2. \A x : Count(<<>>, x) = 0 /\ Cardinality(Standing(store, x)) \in Nat
    BY <1>2, CountOne, StandingParts
  <2>3. \A p \in DOMAIN packages : \A x : remaining[p] = packages[p].goods
                                      /\ Count(packages[p].goods, x) \in Nat
    BY <1>1, <1>3, CountType
  <2> QED
    BY <1>1, <2>1, <2>2, <2>3 DEF BoxesAccountedFor
<1> QED
  BY <1>2, <1>5, <1>6, <1>7, TypeParts

(* The inductive invariant: BoxesAccountedFor needs TypeOK, which says what   *)
(* the records hold and which packages are pending, and packages named        *)
(* apart.                                                                     *)
THEOREM SearchInvHolds == Spec => []SearchInv
BY SearchStarts, SearchKept, PTL DEF Spec

(* The state of the planner has its types, and a package is pending exactly   *)
(* while it still needs boxes (or never needed any).                          *)
THEOREM TypeCorrect == Spec => []TypeOK
<1>1. SearchInv => TypeOK
  BY DEF SearchInv
<1> QED
  BY <1>1, SearchInvHolds, PTL

(* No box is lost or taken twice: for every kind of box, what stands in the   *)
(* simulated inventory and what the infos take make up the store, and what    *)
(* each package still needs and what was taken for it make up what it asked   *)
(* for.                                                                       *)
THEOREM BoxesAccountedForHolds == Spec => []BoxesAccountedFor
<1>1. SearchInv => BoxesAccountedFor
  BY DEF SearchInv
<1> QED
  BY <1>1, SearchInvHolds, PTL

-----------------------------------------------------------------------------
(* Every round brings planning nearer to its end *)

(* Losing a member makes a finite set smaller. *)
LEMMA FewerMembers ==
  ASSUME NEW T, IsFiniteSet(T), NEW S \in SUBSET T, S # T
  PROVE  Cardinality(S) < Cardinality(T)
<1>1. IsFiniteSet(S) /\ Cardinality(S) <= Cardinality(T)
      /\ (Cardinality(S) = Cardinality(T) => S = T)
  BY FS_Subset
<1>2. Cardinality(S) \in Nat /\ Cardinality(T) \in Nat
  BY <1>1, FS_CardinalityType
<1> QED
  BY <1>1, <1>2

(* The three measures of Rank: boxes needed, moves among the pre-actions,     *)
(* layers with boxes behind.                                                  *)
Needs == UNION {{p} \X DOMAIN remaining[p] : p \in DOMAIN packages}
MovesIn(list) == {i \in DOMAIN list : list[i].kind = "move"}
LevelsBehind == {level \in Level : ~BackEmpty(inv, level)}

(* Packages need finitely many boxes. *)
LEMMA NeedsFinite ==
  ASSUME Posed, TypeOK
  PROVE  IsFiniteSet(Needs)
<1>1. PICK n \in Nat : DOMAIN packages = 1..n
  BY LenProperties DEF Posed
<1>2. IsFiniteSet(DOMAIN packages)
  <2>1. 1 \in Int /\ n \in Int
    OBVIOUS
  <2>2. IsFiniteSet(1..n)
    BY ONLY <2>1, FS_Interval
  <2> QED
    BY <1>1, <2>2
<1> DEFINE row == [p \in DOMAIN packages |-> {p} \X DOMAIN remaining[p]]
           rows == {row[p] : p \in DOMAIN packages}
<1>3. IsFiniteSet(rows)
  <2>1. row \in Surjection(DOMAIN packages, rows)
    BY DEF Surjection
  <2> HIDE DEF row, rows
  <2> QED
    BY <1>2, <2>1, FS_Surjection
<1>4. ASSUME NEW p \in DOMAIN packages
      PROVE  IsFiniteSet(row[p])
  <2>1. remaining[p] \in Seq(Sku)
    BY StateParts
  <2>2. PICK m \in Nat : DOMAIN remaining[p] = 1..m
    BY <2>1, LenProperties
  <2>3. IsFiniteSet(1..m)
    <3>1. 1 \in Int /\ m \in Int
      OBVIOUS
    <3> QED
      BY ONLY <3>1, FS_Interval
  <2>4. IsFiniteSet({p})
    BY FS_Singleton
  <2>5. IsFiniteSet({p} \X DOMAIN remaining[p])
    BY <2>2, <2>3, <2>4, FS_Product
  <2> QED
    BY <2>5
<1>5. \A R \in rows : IsFiniteSet(R)
  BY <1>4
<1>6. Needs = UNION rows
  BY DEF Needs
<1> HIDE DEF row, rows
<1> QED
  BY <1>3, <1>5, <1>6, FS_UNION

(* Taking boxes for a package leaves fewer needed. *)
LEMMA ServingNeedsLess ==
  ASSUME Posed, TypeOK, NEW info, Takes(info)
  PROVE  Cardinality(Needs') < Cardinality(Needs)
<1>1. PICK left : LeftOver(info, left)
  BY ConsumeLeaves
<1>2. PICK p : p = info.package
  OBVIOUS
<1>3. PICK planned \in Seq(Sku) : planned = planned_goods_from_slot_picks(info.picks)
  BY ConsumeLeaves
<1>4. /\ p \in DOMAIN packages /\ remaining[p] \in Seq(Sku) /\ planned # <<>>
      /\ packages' = packages
  BY <1>2, <1>3, ConsumeLeaves DEF Takes, given
<1>5. /\ remaining' = [remaining EXCEPT ![p] = left] /\ left \in Seq(Sku)
      /\ Len(left) = Len(remaining[p]) - Len(planned)
  BY <1>1, <1>2, <1>3 DEF LeftOver
<1>6. PICK n \in Nat, m \in Nat, k \in Nat :
        n = Len(remaining[p]) /\ m = Len(left) /\ k = Len(planned) /\ k # 0
  BY <1>4, <1>5, EmptySeq, LenProperties
<1>7. m = n - k
  BY <1>5, <1>6
<1>8. DOMAIN remaining[p] = 1..n /\ DOMAIN left = 1..m /\ m < n /\ n \in 1..n /\ n \notin 1..m
      /\ 1..m \subseteq 1..n
  BY <1>4, <1>5, <1>6, <1>7, LenProperties
<1>9. remaining \in [DOMAIN packages -> Seq(Sku)]
  BY DEF TypeOK
<1>10. remaining'[p] = left /\ \A q \in DOMAIN packages : q # p => remaining'[q] = remaining[q]
  BY <1>4, <1>5, <1>9
<1>11. \A q \in DOMAIN packages : DOMAIN remaining'[q] \subseteq DOMAIN remaining[q]
  BY <1>8, <1>10
<1>12. Needs' \in SUBSET Needs
  BY <1>4, <1>11 DEF Needs
<1>13. <<p, n>> \in Needs /\ <<p, n>> \notin Needs'
  BY <1>4, <1>8, <1>10 DEF Needs
<1> QED
  BY <1>12, <1>13, NeedsFinite, FewerMembers

(* Steps that are no moves add no moves. *)
LEMMA MovesConcat ==
  ASSUME NEW s \in Seq(PreAction), NEW t \in Seq(PreAction),
         \A i \in DOMAIN t : t[i].kind # "move"
  PROVE  MovesIn(s \o t) = MovesIn(s)
<1> DEFINE u == s \o t
<1>1. PICK n \in Nat, m \in Nat : n = Len(s) /\ m = Len(t)
  BY LenProperties
<1>2. /\ DOMAIN s = 1..n /\ DOMAIN t = 1..m /\ DOMAIN u = 1..(n + m)
      /\ \A i \in 1..(n + m) : u[i] = IF i <= n THEN s[i] ELSE t[i - n]
  <2>1. u \in Seq(PreAction) /\ Len(u) = n + m
        /\ \A i \in 1..(n + m) : u[i] = IF i <= n THEN s[i] ELSE t[i - n]
    BY <1>1, ConcatProperties
  <2> QED
    BY <1>1, <2>1, LenProperties
<1> HIDE DEF u
<1>3. \A i \in 1..(n + m) : i \in 1..n \/ (~(i <= n) /\ i - n \in 1..m)
  OBVIOUS
<1>4. \A i \in 1..n : i \in 1..(n + m) /\ i <= n
  OBVIOUS
<1>5. ASSUME NEW i, i \in MovesIn(u)
      PROVE  i \in MovesIn(s)
  BY <1>2, <1>3, <1>4, <1>5 DEF MovesIn
<1>6. ASSUME NEW i, i \in MovesIn(s)
      PROVE  i \in MovesIn(u)
  BY <1>2, <1>4, <1>6 DEF MovesIn
<1> QED
  BY <1>5, <1>6 DEF u

(* A move adds one. *)
LEMMA MovesAppend ==
  ASSUME NEW s \in Seq(PreAction), NEW step \in PreAction, step.kind = "move"
  PROVE  Cardinality(MovesIn(s \o <<step>>)) = Cardinality(MovesIn(s)) + 1
         /\ Cardinality(MovesIn(s)) \in Nat
<1> DEFINE u == s \o <<step>>
<1>1. PICK n \in Nat : n = Len(s)
  BY LenProperties
<1>2. /\ DOMAIN s = 1..n /\ DOMAIN u = 1..(n + 1) /\ u[n + 1] = step
      /\ \A i \in 1..n : u[i] = s[i]
  <2>1. u = Append(s, step)
    OBVIOUS
  <2>2. /\ Append(s, step) \in Seq(PreAction) /\ Len(Append(s, step)) = n + 1
        /\ Append(s, step)[n + 1] = step /\ \A i \in 1..n : Append(s, step)[i] = s[i]
    BY <1>1, AppendProperties
  <2> HIDE DEF u
  <2> QED
    BY <1>1, <2>1, <2>2, LenProperties
<1> HIDE DEF u
<1>3. \A i : i \in 1..(n + 1) <=> i \in 1..n \/ i = n + 1
  OBVIOUS
<1>4. MovesIn(u) = MovesIn(s) \cup {n + 1}
  BY <1>2, <1>3 DEF MovesIn
<1>5. IsFiniteSet(MovesIn(s)) /\ n + 1 \notin MovesIn(s)
  <2>1. IsFiniteSet(1..n)
    <3>1. 1 \in Int /\ n \in Int
      OBVIOUS
    <3> QED
      BY ONLY <3>1, FS_Interval
  <2>2. MovesIn(s) \in SUBSET (1..n) /\ n + 1 \notin 1..n
    BY <1>2 DEF MovesIn
  <2> QED
    BY <2>1, <2>2, FS_Subset
<1>6. Cardinality(MovesIn(s) \cup {n + 1}) = Cardinality(MovesIn(s)) + 1
  BY <1>5, FS_AddElement
<1> QED
  BY <1>4, <1>5, <1>6, FS_CardinalityType DEF u

(* Refills are no moves. *)
LEMMA ForwardsAreNoMoves ==
  ASSUME Posed, TypeOK, ShiftBackGoods
  PROVE  MovesIn(before') = MovesIn(before)
<1> DEFINE levels == InOrder(AllLevels, {level \in Level : Shiftable(level)})
           steps == [i \in DOMAIN levels |->
                       [kind |-> "forward", level |-> levels[i],
                        moved |-> <<inv[Slot(levels[i], 3)], inv[Slot(levels[i], 4)]>>]]
<1>1. before' = before \o steps
  BY Zenon DEF ShiftBackGoods
<1>2. \A i \in DOMAIN steps : steps[i].kind # "move"
  OBVIOUS
<1>3. before \in Seq(PreAction) /\ before' \in Seq(PreAction)
  BY ShiftRearranges DEF TypeOK, Rearranges
<1>4. PICK n \in Nat : DOMAIN steps = 1..n /\ Len(steps) = n
  <2>1. levels \in Seq(Level)
    BY LevelsListed, InOrderElements
  <2>2. PICK n \in Nat : DOMAIN levels = 1..n
    BY <2>1, LenProperties
  <2>3. DOMAIN steps = 1..n
    BY <2>2
  <2> HIDE DEF levels, steps
  <2> QED
    BY <2>3
<1> QED
  BY <1>1, <1>2, <1>3, MovesConcat

(* The 12 layers are finitely many. *)
LEMMA LevelFinite == IsFiniteSet(Level)
<1>1. IsFiniteSet(Layer)
  <2>1. 1 \in Int /\ 4 \in Int
    OBVIOUS
  <2> QED
    BY ONLY <2>1, FS_Interval DEF Layer
<1>2. IsFiniteSet(Station)
  <2>1. IsFiniteSet({"A"}) /\ IsFiniteSet({"B"}) /\ IsFiniteSet({"C"})
    BY FS_Singleton
  <2>2. IsFiniteSet({"A"} \cup {"B"})
    BY <2>1, FS_Union
  <2>3. IsFiniteSet(({"A"} \cup {"B"}) \cup {"C"})
    BY <2>1, <2>2, FS_Union
  <2>4. Station = ({"A"} \cup {"B"}) \cup {"C"}
    BY DEF Station
  <2> QED
    BY <2>3, <2>4
<1> QED
  BY <1>1, <1>2, FS_Product DEF Level

(* A refill brings the boxes of a layer to the front and leaves none behind. *)
LEMMA ForwardEmptiesBacks ==
  ASSUME Posed, TypeOK, ShiftBackGoods
  PROVE  Cardinality(LevelsBehind') < Cardinality(LevelsBehind)
<1>1. PICK level \in Level : Shiftable(level)
  BY DEF ShiftBackGoods
<1>2. \A loc \in Location :
        ~IsFront(loc) => inv'[loc] = IF ~Shiftable(LevelOf(loc)) THEN inv[loc] ELSE <<>>
  BY DEF ShiftBackGoods
<1>3. ASSUME NEW other \in Level
      PROVE  /\ BackEmpty(inv, other) => BackEmpty(inv', other)
             /\ Shiftable(other) => BackEmpty(inv', other)
  <2>1. ASSUME NEW loc \in BackSlots(other)
        PROVE  loc \in Location /\ ~IsFront(loc) /\ LevelOf(loc) = other
    <3>1. loc \in Location
      BY <2>1 DEF BackSlots, Slot, Level, Location, Position
    <3> QED
      BY <2>1, <3>1, Geometry
  <2> QED
    BY <1>2, <2>1 DEF BackEmpty
<1>4. LevelsBehind' \in SUBSET LevelsBehind
  BY <1>3 DEF LevelsBehind
<1>5. level \in LevelsBehind /\ level \notin LevelsBehind'
  BY <1>1, <1>3 DEF LevelsBehind, Shiftable
<1>6. IsFiniteSet(LevelsBehind)
  <2>1. LevelsBehind \in SUBSET Level
    BY DEF LevelsBehind
  <2> QED
    BY <2>1, LevelFinite, FS_Subset
<1> QED
  BY <1>4, <1>5, <1>6, FewerMembers

(* What an adjustment adds to the pre-actions: one move. *)
LEMMA AdjustmentIsAMove ==
  ASSUME Posed, TypeOK, AdjustLocation
  PROVE  /\ Cardinality(MovesIn(before')) = Cardinality(MovesIn(before)) + 1
         /\ Cardinality(MovesIn(before)) \in Nat
<1>1. PICK steps \in Seq(PreAction), step \in PreAction :
        /\ before' = before \o steps \o <<step>> /\ step.kind = "move"
        /\ \A i \in DOMAIN steps : steps[i].kind # "move"
  BY AdjustRearranges DEF AddsMove
<1>2. before \in Seq(PreAction)
  BY DEF TypeOK
<1>3. PICK s \in Seq(PreAction) : s = before \o steps
  BY <1>1, <1>2, ConcatProperties
<1>4. MovesIn(s) = MovesIn(before)
  BY <1>1, <1>2, <1>3, MovesConcat
<1>5. before' = s \o <<step>>
  BY <1>1, <1>3
<1> QED
  BY <1>1, <1>3, <1>4, <1>5, MovesAppend

(* The components of Rank. *)
Moves == Cardinality(MovesIn(before))
Left == <<Cardinality(Needs), MaxAdjustments - Moves, Cardinality(LevelsBehind),
          IF phase = "search" THEN 1 ELSE 0, 0>>

(* Rank by its measures. *)
LEMMA RankIsLeft == Rank = Left /\ Rank' = Left'
<1>1. Rank = Left
  BY Zenon DEF Rank, Left, Needs, Moves, MovesIn, AdjustmentsInARow, LevelsBehind
<1>2. Rank' = Left'
  BY Zenon DEF Rank, Left, Needs, Moves, MovesIn, AdjustmentsInARow, LevelsBehind
<1> QED
  BY <1>1, <1>2

(* Every step that changes something lowers the rank. *)
LEMMA RoundProgresses ==
  ASSUME Posed, TypeOK, [Next]_vars
  PROVE  Precedes(Rank', Rank) \/ UNCHANGED vars
<1>1. Rank = Left /\ Rank' = Left'
  BY RankIsLeft
<1>2. \A j : (j \in 1..(1 - 1) => FALSE) /\ (j \in 1..(2 - 1) => j = 1)
             /\ (j \in 1..(3 - 1) => j = 1 \/ j = 2)
             /\ (j \in 1..(4 - 1) => j = 1 \/ j = 2 \/ j = 3)
  OBVIOUS
<1>3. 1 \in 1..5 /\ 2 \in 1..5 /\ 3 \in 1..5 /\ 4 \in 1..5
  OBVIOUS
<1>4. ASSUME \E info : Takes(info)
      PROVE  Precedes(Left', Left)
  <2>1. Cardinality(Needs') < Cardinality(Needs)
    BY <1>4, ServingNeedsLess
  <2>2. Left'[1] < Left[1]
    BY <2>1 DEF Left
  <2> QED
    BY <1>2, <1>3, <2>2 DEF Precedes
<1>5. CASE SelectPackage
  BY <1>1, <1>4, <1>5, SelectTakes
<1>6. CASE TakeOwnBlocker
  BY <1>1, <1>4, <1>6, OwnBlockerTakes
<1>7. CASE AdjustLocation
  <2>1. Needs' = Needs
    BY <1>7 DEF AdjustLocation, Unplanned, given, Needs
  <2>2. Moves' = Moves + 1 /\ Moves \in Nat
    BY <1>7, AdjustmentIsAMove DEF Moves
  <2>3. MaxAdjustments - Moves' < MaxAdjustments - Moves
    BY <2>2, MaxAdjustmentsAssumption
  <2>4. Left'[1] = Left[1] /\ Left'[2] < Left[2]
    BY <2>1, <2>3 DEF Left
  <2> QED
    BY <1>1, <1>2, <1>3, <2>4 DEF Precedes
<1>8. CASE ShiftBackGoods
  <2>1. Needs' = Needs
    BY <1>8 DEF ShiftBackGoods, Unplanned, given, Needs
  <2>2. Moves' = Moves
    BY <1>8, ForwardsAreNoMoves DEF Moves
  <2>3. Cardinality(LevelsBehind') < Cardinality(LevelsBehind)
    BY <1>8, ForwardEmptiesBacks
  <2>4. Left'[1] = Left[1] /\ Left'[2] = Left[2] /\ Left'[3] < Left[3]
    BY <2>1, <2>2, <2>3 DEF Left
  <2> QED
    BY <1>1, <1>2, <1>3, <2>4 DEF Precedes
<1>9. CASE Unschedulable \/ BuildPlan
  <2>1. /\ packages' = packages /\ remaining' = remaining /\ before' = before /\ inv' = inv
        /\ phase = "search" /\ phase' # "search"
    BY <1>9 DEF Unschedulable, BuildPlan, Searching, given
  <2>2. Needs' = Needs /\ Moves' = Moves /\ LevelsBehind' = LevelsBehind
    BY <2>1 DEF Needs, Moves, LevelsBehind
  <2>3. Left'[1] = Left[1] /\ Left'[2] = Left[2] /\ Left'[3] = Left[3] /\ Left'[4] < Left[4]
    BY <2>1, <2>2 DEF Left
  <2> QED
    BY <1>1, <1>2, <1>3, <2>3 DEF Precedes
<1> QED
  BY <1>5, <1>6, <1>7, <1>8, <1>9 DEF Next, Over

(* Planning's rounds make progress: after every round fewer boxes are needed,  *)
(* or there is one more adjustment since a box left, or one layer fewer with   *)
(* boxes behind, so only adjustments can follow each other for ever.           *)
THEOREM RoundsProgressHolds == Spec => RoundsProgress
<1>1. SearchInv /\ [Next]_vars => [Precedes(Rank', Rank)]_vars
  BY RoundProgresses DEF SearchInv
<1> QED
  BY <1>1, SearchInvHolds, PTL DEF Spec, RoundsProgress

-----------------------------------------------------------------------------
(* One line per batch *)

(* The infos are for the lines of their packages, and take from front slots. *)
InfosKnown ==
  \A i \in DOMAIN infos :
    /\ infos[i].line = target_line(packages[infos[i].package])
    /\ \A k \in 1..Len(infos[i].picks) : IsFront(infos[i].picks[k].loc)

(* The infos of a run. *)
InfosFor(l) ==
  {info \in Info : info.package \in DOMAIN packages /\ info.picks # <<>>
                   /\ target_line(packages[info.package]) = l
                   /\ \A k \in 1..Len(info.picks) : IsFront(info.picks[k].loc)}

(* A run starts where it is told to and is for one line. *)
LEMMA RunForOneLine ==
  ASSUME Posed, TypeOK, InfosKnown, NEW i \in 1..Len(infos)
  PROVE  RunFrom(i) # <<>> /\ \E l : RunFrom(i) \in Seq(InfosFor(l))
<1> DEFINE n == Len(infos)
           J == {j \in i..n : \A k \in (i + 1)..j : ~StartsRun(k)}
<1>1. n \in Nat /\ infos \in Seq(Info) /\ \A j \in 1..n : /\ infos[j] \in Info
                                  /\ infos[j].package \in DOMAIN packages
                                  /\ infos[j].picks # <<>>
                                  /\ infos[j].line = target_line(packages[infos[j].package])
                                  /\ \A k \in 1..Len(infos[j].picks) :
                                       IsFront(infos[j].picks[k].loc)
  BY LenProperties, ElementOfSeq DEF TypeOK, InfosKnown
<1>2. J \in SUBSET (0..n) /\ i \in J
  BY <1>1
<1>3. PICK m \in i..n : m = Max(J) /\ \A k \in (i + 1)..m : ~StartsRun(k)
  <2>1. Max(J) \in J
    BY <1>1, <1>2, GreatestNumber
  <2> QED
    BY <2>1
<1> HIDE DEF J
<1>4. RunFrom(i) = SubSeq(infos, i, m)
  BY <1>3 DEF RunFrom, J
<1> DEFINE T == {k \in Nat : i + k <= m => infos[i + k].line = infos[i].line}
<1>5. 0 \in T
  OBVIOUS
<1>6. ASSUME NEW k \in Nat, k \in T
      PROVE  k + 1 \in T
  <2> SUFFICES ASSUME i + (k + 1) <= m PROVE infos[i + (k + 1)].line = infos[i].line
    OBVIOUS
  <2>1. PICK j \in (i + 1)..m : j = i + (k + 1) /\ j - 1 = i + k
    OBVIOUS
  <2>2. infos[j].line = infos[j - 1].line
    <3>1. ~StartsRun(j)
      BY <1>3
    <3> QED
      BY <3>1 DEF StartsRun
  <2>3. infos[j - 1].line = infos[i].line
    BY <1>6, <2>1
  <2> QED
    BY <2>1, <2>2, <2>3
<1> HIDE DEF T
<1>7. \A k \in Nat : k \in T
  BY ONLY <1>5, <1>6, SetInduction
<1>8. ASSUME NEW j \in i..m
      PROVE  infos[j] \in InfosFor(infos[i].line)
  <2>1. j - i \in Nat /\ i + (j - i) = j /\ j <= m /\ j \in 1..n
    BY <1>1
  <2>2. infos[j].line = infos[i].line
    BY <1>7, <2>1 DEF T
  <2> QED
    BY <1>1, <2>1, <2>2 DEF InfosFor
<1>9. /\ Len(SubSeq(infos, i, m)) = m - i + 1
      /\ SubSeq(infos, i, m) \in Seq(Info)
      /\ \A k \in 1..(m - i + 1) : SubSeq(infos, i, m)[k] = infos[i + k - 1]
  <2>1. \A k \in i..m : k \in 1..n
    BY <1>1
  <2>2. i \in Nat /\ m \in Nat /\ i <= m
    BY <1>1
  <2> QED
    BY <1>1, <2>1, <2>2, SubSeqProperties
<1>10. SubSeq(infos, i, m) \in Seq(InfosFor(infos[i].line)) /\ SubSeq(infos, i, m) # <<>>
  <2> DEFINE s == SubSeq(infos, i, m)
  <2>1. PICK c \in Nat : c = m - i + 1 /\ c # 0 /\ Len(s) = c
    BY <1>9
  <2>2. \A k \in 1..c : s[k] \in InfosFor(infos[i].line)
    <3>1. \A k \in 1..c : i + k - 1 \in i..m
      BY <2>1
    <3> QED
      BY <1>8, <1>9, <2>1, <3>1
  <2>3. s = [k \in 1..c |-> s[k]]
    BY <1>9, <2>1
  <2> HIDE DEF s
  <2> DEFINE F == InfosFor(infos[i].line)
  <2> HIDE DEF F
  <2>4. [k \in 1..c |-> s[k]] \in Seq(F)
    BY <2>1, <2>2 DEF F
  <2>5. s # <<>>
    BY <2>1
  <2> QED
    BY <2>3, <2>4, <2>5 DEF F, s
<1> QED
  BY <1>4, <1>10

(* The infos are cut into runs, each for one line. *)
LEMMA RunsForOneLine ==
  ASSUME Posed, TypeOK, InfosKnown
  PROVE  /\ Len(Runs) \in Nat
         /\ \A k \in 1..Len(Runs) :
              Runs[k] # <<>> /\ \E l : Runs[k] \in Seq(InfosFor(l))
<1> DEFINE n == Len(infos)
           ids == [i \in DOMAIN infos |-> i]
           starts == InOrder(ids, {i \in DOMAIN infos : StartsRun(i)})
<1>1. n \in Nat /\ DOMAIN infos = 1..n
  BY LenProperties DEF TypeOK
<1>2. ids \in Seq(1..n)
  BY <1>1
<1>3. starts \in Seq(1..n)
  BY ONLY <1>2, InOrderElements
<1>4. Runs = [k \in DOMAIN starts |-> RunFrom(starts[k])]
  BY DEF Runs
<1> HIDE DEF starts
<1>5. Len(starts) \in Nat /\ DOMAIN starts = 1..Len(starts)
      /\ \A k \in 1..Len(starts) : starts[k] \in 1..n
  BY <1>3, LenProperties, ElementOfSeq
<1>6. Len(Runs) = Len(starts) /\ \A k \in 1..Len(starts) : Runs[k] = RunFrom(starts[k])
  BY <1>4, <1>5
<1> QED
  BY <1>5, <1>6, RunForOneLine

(* A command for a box of a package with some line. *)
Tagged ==
  [pick : Pick, package : DOMAIN packages, line : Line, before : Seq(PreAction)]
Command(l) ==
  {c \in [pick : Pick, package : DOMAIN packages, line : Line, before : Seq(PreAction),
          first : Nat] :
     c.first # 0 /\ target_line(packages[c.package]) = l /\ IsFront(c.pick.loc)}

(* A function on the first numbers is a list. *)
LEMMA RowType ==
  ASSUME NEW S, NEW m \in Nat, NEW r, r = [i \in 1..m |-> r[i]], \A i \in 1..m : r[i] \in S
  PROVE  r \in Seq(S) /\ Len(r) = m /\ DOMAIN r = 1..m
  OBVIOUS

(* The commands of a run, before their batches are numbered. *)
TaggedRows(run) ==
  [i \in DOMAIN run |->
     [k \in DOMAIN run[i].picks |->
        [pick |-> run[i].picks[k], package |-> run[i].package, line |-> run[i].line,
         before |-> IF k = 1 THEN run[i].before ELSE <<>>]]]

(* They are for the line of the run, and their boxes stand in front.           *)
LEMMA TaggedPicks ==
  ASSUME Posed, NEW l, NEW run \in Seq(InfosFor(l)), run # <<>>, NEW q,
         q = TaggedRows(run)
  PROVE  /\ q \in Seq(Seq(Tagged))
         /\ FlattenSeq(q) \in Seq(Tagged) /\ FlattenSeq(q) # <<>>
         /\ \A k \in 1..Len(FlattenSeq(q)) :
              /\ target_line(packages[FlattenSeq(q)[k].package]) = l
              /\ IsFront(FlattenSeq(q)[k].pick.loc)
<1> DEFINE n == Len(run)
           R == {t \in Tagged : target_line(packages[t.package]) = l /\ IsFront(t.pick.loc)}
           F == FlattenSeq(q)
<1>1. n \in Nat /\ n # 0 /\ DOMAIN run = 1..n /\ \A i \in 1..n : run[i] \in InfosFor(l)
  BY LenProperties, ElementOfSeq, EmptySeq
<1>2. ASSUME NEW i \in 1..n
      PROVE  q[i] \in Seq(R) /\ q[i] # <<>>
  <2>1. PICK info \in InfosFor(l) : info = run[i]
    BY <1>1
  <2>2. /\ info.picks \in Seq(Pick) /\ info.picks # <<>> /\ info.package \in DOMAIN packages
        /\ info.line \in Line /\ info.before \in Seq(PreAction)
        /\ target_line(packages[info.package]) = l
        /\ \A k \in 1..Len(info.picks) : IsFront(info.picks[k].loc)
    BY DEF InfosFor, Info
  <2>3. PICK m \in Nat : m = Len(info.picks) /\ m # 0 /\ DOMAIN info.picks = 1..m
    BY <2>2, LenProperties, EmptySeq
  <2> DEFINE t(k) == [pick |-> info.picks[k], package |-> info.package,
                      line |-> info.line,
                      before |-> IF k = 1 THEN info.before ELSE <<>>]
  <2>4. q[i] = [k \in 1..m |-> t(k)]
    BY <1>1, <2>1, <2>3 DEF TaggedRows
  <2>5. ASSUME NEW k \in 1..m
        PROVE  t(k) \in R
    <3>1. info.picks[k] \in Pick /\ IsFront(info.picks[k].loc)
      BY <2>2, <2>3, ElementOfSeq
    <3>2. PICK b \in Seq(PreAction) : b = IF k = 1 THEN info.before ELSE <<>>
      BY <2>2, RangeEmpty
    <3>3. t(k) = [pick |-> info.picks[k], package |-> info.package,
                  line |-> info.line, before |-> b]
      BY <3>2
    <3> HIDE DEF t
    <3>4. t(k) \in Tagged /\ t(k).package = info.package /\ t(k).pick = info.picks[k]
      BY <2>2, <3>1, <3>3 DEF Tagged
    <3> QED
      BY <2>2, <3>1, <3>4
  <2> HIDE DEF t, R
  <2>6. [k \in 1..m |-> t(k)] \in Seq(R) /\ Len([k \in 1..m |-> t(k)]) = m
    BY <2>3, <2>5
  <2>7. [k \in 1..m |-> t(k)] # <<>>
    <3>1. Len(<<>>) = 0
      OBVIOUS
    <3> QED
      BY ONLY <2>3, <2>6, <3>1
  <2> QED
    BY ONLY <2>4, <2>6, <2>7
<1>3. q \in Seq(Seq(R)) /\ Len(q) = n
  <2> HIDE DEF R
  <2>1. q = [i \in 1..n |-> q[i]]
    BY <1>1 DEF TaggedRows
  <2>2. \A i \in 1..n : q[i] \in Seq(R)
    BY <1>2
  <2>3. n \in Nat
    BY <1>1
  <2> HIDE DEF n
  <2> QED
    BY ONLY <2>1, <2>2, <2>3, RowType
<1> HIDE DEF R
<1>4. F \in Seq(R)
  BY <1>3, FlattenType
<1>5. Range(q[1]) \subseteq Range(F) /\ Range(q[1]) # {}
  <2>1. 1 \in 1..n
    BY <1>1
  <2>2. q[1] \in Seq(R) /\ Len(q[1]) \in Nat /\ Len(q[1]) # 0
    BY <1>2, <2>1, EmptySeq, LenProperties
  <2>3. 1 \in DOMAIN q[1]
    BY <2>2
  <2>4. q[1][1] \in Range(q[1])
    BY <2>3 DEF Range
  <2> QED
    BY <1>3, <2>1, <2>4, FlattenRange
<1>6. F # <<>>
  BY <1>5, RangeEmpty
<1>7. /\ F \in Seq(Tagged)
      /\ \A k \in 1..Len(F) : /\ target_line(packages[F[k].package]) = l
                              /\ IsFront(F[k].pick.loc)
  <2>1. \A t \in R : /\ t \in Tagged /\ target_line(packages[t.package]) = l
                     /\ IsFront(t.pick.loc)
    BY DEF R
  <2>2. \A k \in 1..Len(F) : F[k] \in R
    BY <1>4, ElementOfSeq
  <2>3. Seq(R) \subseteq Seq(Tagged)
    BY <2>1
  <2> QED
    BY <1>4, <2>1, <2>2, <2>3
<1>8. q \in Seq(Seq(Tagged))
  <2>1. R \subseteq Tagged
    BY DEF R
  <2>2. Seq(R) \subseteq Seq(Tagged)
    BY <2>1, SeqMonotonic
  <2> QED
    BY <1>3, <2>2, SeqMonotonic
<1> QED
  BY <1>6, <1>7, <1>8

(* Commands whose waves follow each other: those that drop boxes in the same   *)
(* batch are sent together.                                                    *)
LastDrop(c) == c.first + Len(c.pick.planned) - 1
OneAfterTheOther(commands, base) ==
  \A j, k \in 1..Len(commands) :
    /\ base < commands[k].first
    /\ commands[j].first = commands[k].first \/ LastDrop(commands[j]) < commands[k].first
         \/ LastDrop(commands[k]) < commands[j].first

(* The commands of a run are for one line, and their waves follow each other. *)
LEMMA CommandsForOneLine ==
  ASSUME Posed, NEW l, NEW run \in Seq(InfosFor(l)), run # <<>>, NEW base \in Nat
  PROVE  /\ CommandsOf(run, base) \in Seq(Command(l)) /\ CommandsOf(run, base) # <<>>
         /\ OneAfterTheOther(CommandsOf(run, base), base)
<1> DEFINE q == TaggedRows(run)
           all == FlattenSeq(q)
           picks == [k \in DOMAIN all |-> all[k].pick]
           first(k) == base + WaveStart(picks, WaveOf(picks, k))
           made(k) == [pick |-> all[k].pick, package |-> all[k].package,
                       line |-> all[k].line, before |-> all[k].before, first |-> first(k)]
<1>1. /\ all \in Seq(Tagged) /\ all # <<>>
      /\ \A k \in 1..Len(all) : /\ target_line(packages[all[k].package]) = l
                                /\ IsFront(all[k].pick.loc)
  BY TaggedPicks
<1>2. CommandsOf(run, base) = [k \in DOMAIN all |-> made(k)]
  BY DEF CommandsOf, TaggedRows
<1> HIDE DEF all
<1>3. PICK n \in Nat : n = Len(all) /\ n # 0 /\ DOMAIN all = 1..n
  BY <1>1, LenProperties, EmptySeq
<1>4. \A k \in 1..n : /\ all[k].pick \in Pick /\ all[k].package \in DOMAIN packages
                      /\ all[k].line \in Line /\ all[k].before \in Seq(PreAction)
                      /\ target_line(packages[all[k].package]) = l
                      /\ IsFront(all[k].pick.loc)
  <2>1. \A k \in 1..n : all[k] \in Tagged
    BY <1>1, <1>3, ElementOfSeq
  <2> QED
    BY <1>1, <1>3, <2>1 DEF Tagged
<1>5. picks \in Seq(Pick) /\ Len(picks) = n /\ \A k \in 1..n : picks[k] = all[k].pick
  <2> HIDE DEF Pick
  <2> QED
    BY <1>3, <1>4
<1> HIDE DEF picks
<1>6. ASSUME NEW k \in 1..n
      PROVE  first(k) \in Nat /\ first(k) # 0
  <2>1. PICK w \in 1..(n + 1) : w = WaveOf(picks, k)
    BY WaveOfType
  <2>2. WaveStart(picks, w) \in Nat /\ WaveStart(picks, w) # 0
    BY <1>5, <2>1, WaveStartType
  <2> QED
    BY <2>1, <2>2
<1>a. ASSUME NEW j \in 1..n, NEW k \in 1..n
      PROVE  /\ base < first(k)
             /\ first(j) = first(k) \/ first(j) + Len(picks[j].planned) - 1 < first(k)
                  \/ first(k) + Len(picks[k].planned) - 1 < first(j)
  <2>1. PICK v \in 1..n : v = WaveOf(picks, j)
    BY WaveOfType
  <2>2. PICK w \in 1..n : w = WaveOf(picks, k)
    BY WaveOfType
  <2>3. PICK a, b \in Nat : a = Len(picks[j].planned) /\ b = Len(picks[k].planned)
    BY <1>5, PicksParts, LenProperties
  <2>4. PICK x, y \in Nat : x = WaveStart(picks, v) /\ y = WaveStart(picks, w) /\ y # 0
    <3>1. v \in 1..(Len(picks) + 1) /\ w \in 1..(Len(picks) + 1)
      BY <1>3, <1>5
    <3> QED
      BY <1>5, <3>1, WaveStartType
  <2>5. v < w => x + a <= y
    BY <1>5, <2>1, <2>3, <2>4, WavesInOrder
  <2>6. w < v => y + b <= x
    BY <1>5, <2>2, <2>3, <2>4, WavesInOrder
  <2>7. v = w => x = y
    BY <2>4
  <2>8. first(j) = base + x /\ first(k) = base + y
    BY <2>1, <2>2, <2>4
  <2>9. v < w \/ w < v \/ v = w
    OBVIOUS
  <2> HIDE DEF first
  <2>10. base < base + y
    BY ONLY base \in Nat, y \in Nat, <2>4
  <2>11. base + x = base + y \/ base + x + a - 1 < base + y \/ base + y + b - 1 < base + x
    <3>1. x + a <= y \/ y + b <= x \/ x = y
      BY <2>5, <2>6, <2>7, <2>9
    <3> QED
      BY ONLY base \in Nat, x \in Nat, y \in Nat, a \in Nat, b \in Nat, <3>1
  <2> QED
    BY <2>3, <2>8, <2>10, <2>11
<1> HIDE DEF first
<1>7. ASSUME NEW k \in 1..n
      PROVE  made(k) \in Command(l)
  <2>1. made(k) \in [pick : Pick, package : DOMAIN packages, line : Line,
                     before : Seq(PreAction), first : Nat]
    <3> HIDE DEF Pick, PreAction
    <3> QED
      BY <1>4, <1>6
  <2>2. /\ made(k).first # 0 /\ target_line(packages[made(k).package]) = l
        /\ IsFront(made(k).pick.loc)
    BY <1>4, <1>6
  <2> HIDE DEF made
  <2> QED
    BY <2>1, <2>2 DEF Command
<1>b. \A k \in 1..n : /\ made(k).first = first(k)
                     /\ LastDrop(made(k)) = first(k) + Len(picks[k].planned) - 1
  BY <1>5 DEF LastDrop
<1> HIDE DEF made
<1>8. [k \in 1..n |-> made(k)] \in Seq(Command(l)) /\ Len([k \in 1..n |-> made(k)]) = n
  BY <1>7
<1>9. [k \in 1..n |-> made(k)] # <<>>
  BY <1>3, <1>8
<1>10. OneAfterTheOther([k \in 1..n |-> made(k)], base)
  BY <1>8, <1>a, <1>b DEF OneAfterTheOther
<1> QED
  BY <1>2, <1>3, <1>8, <1>9, <1>10

(* The last batch of a run is that of the last box dropped. *)
LEMMA LastBatchType ==
  ASSUME NEW l, NEW commands \in Seq(Command(l)), commands # <<>>
  PROVE  /\ LastBatch(commands) \in Nat
         /\ \A k \in 1..Len(commands) : LastDrop(commands[k]) <= LastBatch(commands)
<1> DEFINE B == {c.first + Len(c.pick.planned) - 1 : c \in ToSet(commands)}
           n == Len(commands)
           f == [k \in 1..n |-> commands[k].first + Len(commands[k].pick.planned) - 1]
<1>1. n \in Nat /\ n # 0 /\ DOMAIN commands = 1..n
  BY LenProperties, EmptySeq
<1>2. \A k \in 1..n : f[k] \in Nat
  <2> SUFFICES ASSUME NEW k \in 1..n PROVE f[k] \in Nat
    OBVIOUS
  <2>1. commands[k] \in Command(l)
    BY <1>1, ElementOfSeq
  <2>2. /\ commands[k].pick \in Pick /\ commands[k].first \in Nat
        /\ commands[k].first # 0
    BY <2>1 DEF Command
  <2>3. Len(commands[k].pick.planned) \in Nat
    BY <2>2, PickParts, LenProperties
  <2> QED
    BY <2>2, <2>3
<1>3. B = {f[k] : k \in 1..n}
  BY <1>1 DEF ToSet
<1> HIDE DEF f, B, n
<1>4. PICK b \in Nat : \A k \in 1..n : f[k] <= b
  BY ONLY <1>1, <1>2, RowBounded
<1>5. B \in SUBSET (0..b) /\ B # {}
  <2>1. \A k \in 1..n : f[k] \in 0..b
    BY <1>2, <1>4
  <2>2. 1 \in 1..n
    BY <1>1
  <2> QED
    BY <1>3, <2>1, <2>2
<1>6. Max(B) \in B /\ \A m \in B : m <= Max(B)
  BY <1>5, GreatestNumber
<1>7. Max(B) \in Nat /\ \A k \in 1..n : f[k] <= Max(B)
  <2>1. \A k \in 1..n : f[k] \in B
    BY <1>3
  <2>2. Max(B) \in 0..b
    BY <1>5, <1>6
  <2>3. \A k \in 1..n : f[k] <= Max(B)
    BY <1>6, <2>1
  <2> QED
    BY <2>2, <2>3
<1>8. \A k \in 1..n : f[k] = LastDrop(commands[k])
  BY DEF f, LastDrop
<1>9. LastBatch(commands) = Max(B)
  BY DEF LastBatch, B
<1> QED
  BY <1>7, <1>8, <1>9 DEF n

(* A batch whose boxes are all for packages of one line. *)
ForOneLine(batch) ==
  /\ "picks" \in DOMAIN batch
  /\ \A i \in DOMAIN batch.picks : {"package", "items"} \subseteq DOMAIN batch.picks[i]
  /\ \A i, j \in DOMAIN batch.picks :
       target_line(packages[batch.picks[i].package])
         = target_line(packages[batch.picks[j].package])

(* A batch with the fields that tell what its grippers do. *)
Fielded(batch) ==
  /\ "picks" \in DOMAIN batch
  /\ \A i \in DOMAIN batch.picks :
       {"g", "send", "command", "place"} \subseteq DOMAIN batch.picks[i]

(* A pick of a gripper that goes back to the command of batch c. *)
Has(batch, g, c) ==
  \E i \in DOMAIN batch.picks : batch.picks[i].g = g /\ batch.picks[i].command = c

(* A batch of a run has the picks of the commands that fall on it. *)
LEMMA BatchOfCommands ==
  ASSUME NEW l, NEW commands \in Seq(Command(l)), NEW n
  PROVE  /\ ForOneLine(BatchAt(commands, n)) /\ Fielded(BatchAt(commands, n))
         /\ \A i \in DOMAIN BatchAt(commands, n).picks :
              \E c \in Range(commands) :
                /\ n \in c.first..LastDrop(c) /\ BatchAt(commands, n).picks[i] = Action(c, n)
         /\ \A c \in Range(commands) : n \in c.first..LastDrop(c) =>
              Has(BatchAt(commands, n), global_gripper_id(c.pick.loc), c.first)
<1> DEFINE here == {c \in ToSet(commands) : n \in c.first..(c.first + Len(c.pick.planned) - 1)}
           By_(g) == InOrder(commands, {c \in here : global_gripper_id(c.pick.loc) = g})
           rows == [g \in Gripper |-> By_(g)]
           sorted == FlattenSeq(rows)
           picks == [i \in DOMAIN sorted |-> Action(sorted[i], n)]
           batch == BatchAt(commands, n)
<1>1. \A g : By_(g) \in Seq(Command(l))
  BY InOrderElements
<1>2. batch.picks = picks /\ "picks" \in DOMAIN batch
  BY DEF BatchAt
<1>3. rows \in Seq(Seq(Command(l))) /\ Len(rows) = 6 /\ \A g \in 1..6 : rows[g] = By_(g)
  <2> HIDE DEF By_
  <2> QED
    BY <1>1 DEF Gripper
<1>4. \A g : Range(By_(g)) = {c \in Range(commands) : c \in here /\ global_gripper_id(c.pick.loc) = g}
  <2>1. \A g : Range(By_(g)) = Range(commands) \cap {c \in here : global_gripper_id(c.pick.loc) = g}
    BY InOrderElements
  <2> QED
    BY <2>1
<1>5. here = {c \in Range(commands) : n \in c.first..LastDrop(c)}
  BY SetOfRange DEF LastDrop
<1> HIDE DEF By_, batch, rows, here
<1>6. /\ sorted \in Seq(Command(l))
      /\ \A g \in 1..6 : Range(rows[g]) \subseteq Range(sorted)
      /\ \A c \in Range(sorted) : \E g \in 1..6 : c \in Range(rows[g])
  BY <1>3, FlattenType, FlattenRange
<1> HIDE DEF sorted
<1>7. \A c \in Range(commands) : /\ target_line(packages[c.package]) = l
                                /\ global_gripper_id(c.pick.loc) \in 1..6
  <2> SUFFICES ASSUME NEW c \in Range(commands)
               PROVE  /\ target_line(packages[c.package]) = l
                      /\ global_gripper_id(c.pick.loc) \in 1..6
    OBVIOUS
  <2>1. c \in Command(l)
    BY ElementOfSeq DEF Range
  <2>2. c.pick \in Pick /\ IsFront(c.pick.loc) /\ target_line(packages[c.package]) = l
    BY <2>1 DEF Command
  <2>3. c.pick.loc \in Location
    BY <2>2, PickParts
  <2> QED
    BY <2>2, <2>3, GripperOfSlot DEF Gripper
<1>8. Range(sorted) = {c \in Range(commands) : n \in c.first..LastDrop(c)}
  <2>1. \A c \in Range(sorted) : c \in Range(commands) /\ n \in c.first..LastDrop(c)
    BY <1>3, <1>4, <1>5, <1>6
  <2>2. \A c \in Range(commands) : n \in c.first..LastDrop(c) => c \in Range(sorted)
    BY <1>3, <1>4, <1>5, <1>6, <1>7
  <2> QED
    BY <2>1, <2>2
<1>9. \A i \in DOMAIN sorted : sorted[i] \in Range(sorted)
  BY DEF Range
<1>10. \A c : /\ {"g", "send", "command", "place", "package", "items"}
                   \subseteq DOMAIN Action(c, n)
              /\ Action(c, n).g = global_gripper_id(c.pick.loc)
              /\ Action(c, n).command = c.first /\ Action(c, n).package = c.package
  BY DEF Action
<1>11. DOMAIN picks = DOMAIN sorted /\ \A i \in DOMAIN sorted : picks[i] = Action(sorted[i], n)
  OBVIOUS
<1> HIDE DEF picks
<1>12. ForOneLine(batch)
  <2>1. \A i \in DOMAIN picks : target_line(packages[picks[i].package]) = l
    <3> SUFFICES ASSUME NEW i \in DOMAIN picks
                 PROVE  target_line(packages[picks[i].package]) = l
      OBVIOUS
    <3>1. i \in DOMAIN sorted /\ picks[i] = Action(sorted[i], n)
      BY <1>11
    <3>2. sorted[i] \in Range(commands)
      BY <1>8, <1>9, <3>1
    <3> QED
      BY <1>7, <1>10, <3>1, <3>2
  <2> QED
    BY <1>2, <1>10, <1>11, <2>1 DEF ForOneLine
<1>13. Fielded(batch)
  BY <1>2, <1>10, <1>11 DEF Fielded
<1>14. \A i \in DOMAIN batch.picks : \E c \in Range(commands) :
         n \in c.first..LastDrop(c) /\ batch.picks[i] = Action(c, n)
  BY <1>2, <1>8, <1>9, <1>11
<1>15. ASSUME NEW c \in Range(commands), n \in c.first..LastDrop(c)
       PROVE  Has(batch, global_gripper_id(c.pick.loc), c.first)
  <2>1. PICK i \in DOMAIN sorted : sorted[i] = c
    BY <1>8, <1>15 DEF Range
  <2> QED
    BY <1>2, <1>10, <1>11, <2>1 DEF Has
<1> QED
  BY <1>12, <1>13, <1>14, <1>15 DEF batch

(* The batches added for a run. *)
AddRun(done, k) ==
  done \o [i \in 1..(LastBatch(CommandsOf(Runs[k], Len(done))) - Len(done)) |->
             BatchAt(CommandsOf(Runs[k], Len(done)), Len(done) + i)]

(* Every batch that can be built is for one line. *)
LEMMA RunAdded ==
  ASSUME Posed, TypeOK, InfosKnown, NEW S,
         NEW done \in Seq(S), NEW k \in 1..Len(Runs),
         \A base \in Nat, n \in Nat : BatchAt(CommandsOf(Runs[k], base), n) \in S
  PROVE  AddRun(done, k) \in Seq(S)
<1>1. PICK l : Runs[k] # <<>> /\ Runs[k] \in Seq(InfosFor(l))
  BY RunsForOneLine
<1>2. PICK base \in Nat : base = Len(done)
  BY LenProperties
<1>3. PICK commands \in Seq(Command(l)) :
        commands = CommandsOf(Runs[k], base) /\ commands # <<>>
  BY <1>1, CommandsForOneLine
<1>4. PICK last \in Nat : last = LastBatch(commands)
  BY <1>3, LastBatchType
<1>5. [i \in 1..(last - base) |-> BatchAt(commands, base + i)] \in Seq(S)
  <2>1. \A i \in 1..(last - base) : BatchAt(commands, base + i) \in S
    BY <1>3
  <2>2. \E m \in Nat : 1..(last - base) = 1..m
    <3>1. CASE last - base \in Nat
      BY <3>1
    <3>2. CASE last - base \notin Nat
      <4>1. 1..(last - base) = {} /\ 1..0 = {}
        BY <3>2
      <4> QED
        BY <4>1
    <3> QED
      BY <3>1, <3>2
  <2>3. PICK m \in Nat : 1..(last - base) = 1..m
    BY <2>2
  <2>4. [i \in 1..m |-> BatchAt(commands, base + i)] \in Seq(S)
    BY <2>1, <2>3
  <2> QED
    BY <2>3, <2>4
<1>6. AddRun(done, k) = done \o [i \in 1..(last - base) |-> BatchAt(commands, base + i)]
  BY <1>2, <1>3, <1>4 DEF AddRun
<1> QED
  BY <1>5, <1>6, ConcatProperties

(* The batches are built run after run, each for one line. *)
Builds(S, h) ==
  /\ build_batches = h[Len(Runs)] /\ h[0] = <<>>
  /\ \A k \in 0..Len(Runs) : h[k] \in Seq(S)
  /\ \A k \in 1..Len(Runs) : h[k] = AddRun(h[k - 1], k)
  /\ \A batch \in S : ForOneLine(batch) /\ Fielded(batch)

(* The batches of a plan come from runs, one after the other. *)
LEMMA BatchesBuilt ==
  ASSUME Posed, TypeOK, InfosKnown
  PROVE  \E S, h : Builds(S, h)
<1> DEFINE n == Len(Runs)
           S == {BatchAt(CommandsOf(Runs[x[1]], x[2]), x[3]) : x \in (1..n) \X Nat \X Nat}
           step == [x \in Seq(S) \X (1..n) |-> AddRun(x[1], x[2])]
           Built(f) == f = [k \in 0..n |-> IF k = 0 THEN <<>> ELSE AddRun(f[k - 1], k)]
           h == CHOOSE f : Built(f)
<1>1. n \in Nat
  BY RunsForOneLine
<1>2. \A batch \in S : ForOneLine(batch) /\ Fielded(batch)
  <2> SUFFICES ASSUME NEW k \in 1..n, NEW base \in Nat, NEW m \in Nat
               PROVE  /\ ForOneLine(BatchAt(CommandsOf(Runs[k], base), m))
                      /\ Fielded(BatchAt(CommandsOf(Runs[k], base), m))
    OBVIOUS
  <2>1. PICK l : Runs[k] # <<>> /\ Runs[k] \in Seq(InfosFor(l))
    BY RunsForOneLine
  <2>2. CommandsOf(Runs[k], base) \in Seq(Command(l))
    BY <2>1, CommandsForOneLine
  <2> QED
    BY <2>2, BatchOfCommands
<1>3. \A k \in 1..n, base \in Nat, m \in Nat : BatchAt(CommandsOf(Runs[k], base), m) \in S
  <2> SUFFICES ASSUME NEW k \in 1..n, NEW base \in Nat, NEW m \in Nat
               PROVE  BatchAt(CommandsOf(Runs[k], base), m) \in S
    OBVIOUS
  <2>1. PICK x \in (1..n) \X Nat \X Nat : x = <<k, base, m>>
    OBVIOUS
  <2>2. x[1] = k /\ x[2] = base /\ x[3] = m
    BY <2>1
  <2> QED
    BY <2>1, <2>2
<1>4. build_batches = h[n]
  BY Zenon DEF build_batches, AddRun
<1> HIDE DEF S, h
<1>5. \A done \in Seq(S), k \in 1..n : AddRun(done, k) \in Seq(S)
  BY <1>3, RunAdded
<1>6. IsStep(step, Seq(S), n)
  <2>1. \A x \in Seq(S) \X (1..n) : AddRun(x[1], x[2]) \in Seq(S)
    BY <1>5
  <2> QED
    BY <2>1 DEF IsStep
<1>7. \A done \in Seq(S), k \in 1..n : step[<<done, k>>] = AddRun(done, k)
  <2> SUFFICES ASSUME NEW done \in Seq(S), NEW k \in 1..n
               PROVE  step[<<done, k>>] = AddRun(done, k)
    OBVIOUS
  <2>1. /\ <<done, k>> \in Seq(S) \X (1..n) /\ <<done, k>>[1] = done /\ <<done, k>>[2] = k
    OBVIOUS
  <2> QED
    BY <2>1
<1> HIDE DEF step
<1>8. <<>> \in Seq(S)
  BY RangeEmpty
<1>9. PICK f : Unrolls(f, Seq(S), <<>>, n, step)
  BY ONLY <1>1, <1>6, <1>8, RecursionExists
<1>10. Built(f)
  <2>1. /\ f = [k \in 0..n |-> f[k]] /\ f[0] = <<>>
        /\ \A k \in 1..n : f[k] = AddRun(f[k - 1], k)
    <3>1. \A k \in 1..n : k - 1 \in 0..n
      BY <1>1
    <3> QED
      BY <1>7, <1>9, <3>1 DEF Unrolls
  <2>2. \A k \in 0..n : k = 0 \/ (k \in 1..n /\ k # 0)
    BY <1>1
  <2>3. \A k \in 0..n : f[k] = IF k = 0 THEN <<>> ELSE AddRun(f[k - 1], k)
    BY <2>1, <2>2, Zenon
  <2> QED
    BY <2>1, <2>3
<1>11. Built(h)
  BY <1>10 DEF h
<1> DEFINE T == {k \in Nat : k <= n => h[k] \in Seq(S)}
<1>12. \A k \in 0..n : h[k] = IF k = 0 THEN <<>> ELSE AddRun(h[k - 1], k)
  BY <1>11
<1> HIDE DEF Built
<1>13. 0 \in T
  <2>1. 0 \in 0..n
    BY <1>1
  <2> QED
    BY <1>8, <1>12, <2>1
<1>14. ASSUME NEW k \in Nat, k \in T
       PROVE  k + 1 \in T
  <2> SUFFICES ASSUME k + 1 <= n PROVE h[k + 1] \in Seq(S)
    OBVIOUS
  <2>1. k + 1 \in 0..n /\ k + 1 \in 1..n /\ k + 1 # 0 /\ (k + 1) - 1 = k /\ k <= n
    BY <1>1
  <2>2. h[k] \in Seq(S) /\ h[k + 1] = AddRun(h[k], k + 1)
    BY <1>12, <1>14, <2>1
  <2> QED
    BY <1>5, <2>1, <2>2
<1> HIDE DEF T
<1>15. \A k \in 0..n : h[k] \in Seq(S)
  <2>1. \A k \in Nat : k \in T
    BY ONLY <1>13, <1>14, SetInduction
  <2> QED
    BY <1>1, <2>1 DEF T
<1>16. \A k \in 1..n : k \in 0..n /\ k # 0
  BY <1>1
<1>17. h[0] = <<>> /\ \A k \in 1..n : h[k] = AddRun(h[k - 1], k)
  BY <1>1, <1>12, <1>16
<1>18. Builds(S, h)
  BY <1>2, <1>4, <1>15, <1>17 DEF Builds
<1> QED
  BY <1>18

(* Going on batch after batch with boxes held in the grippers. *)
Fresh(plan) == [batches |-> plan, active |-> [g \in {} |-> 0], lost |-> FALSE]
Reuses(plan, f, n) ==
  f = [k \in 0..n |-> IF k = 0 THEN Fresh(plan) ELSE ReuseBatch(f[k - 1], k)]

(* Going on batch after batch is defined for every number of batches. *)
LEMMA ReusesExists ==
  ASSUME NEW plan, NEW n \in Nat
  PROVE  \E f : Reuses(plan, f, n)
<1> DEFINE Rest(f, i) == IF i = 0 THEN Fresh(plan) ELSE ReuseBatch(f[i - 1], i)
           Solves(f, m) == f = [i \in 0..m |-> f[i]] /\ \A i \in 0..m : f[i] = Rest(f, i)
           T == {m \in Nat : \E f : Solves(f, m)}
<1>1. 0 \in T
  <2> DEFINE g == [i \in 0..0 |-> Fresh(plan)]
  <2>1. Solves(g, 0)
    OBVIOUS
  <2> QED
    BY <2>1
<1>2. ASSUME NEW m \in Nat, m \in T
      PROVE  m + 1 \in T
  <2>1. PICK f : Solves(f, m)
    BY <1>2
  <2> DEFINE g == [i \in 0..(m + 1) |-> IF i <= m THEN f[i] ELSE Rest(f, i)]
  <2>2. /\ \A i \in 0..m : g[i] = f[i]
        /\ \A i \in 0..(m + 1) : i <= m => g[i] = Rest(f, i)
        /\ g[m + 1] = Rest(f, m + 1)
        /\ g = [i \in 0..(m + 1) |-> g[i]]
    <3>1. /\ \A i \in 0..m : g[i] = f[i]
          /\ g = [i \in 0..(m + 1) |-> g[i]]
      OBVIOUS
    <3>2. g[m + 1] = Rest(f, m + 1)
      <4> HIDE DEF Rest
      <4>1. m + 1 \in 0..(m + 1) /\ ~(m + 1 <= m)
        OBVIOUS
      <4> QED
        BY <4>1
    <3>3. ASSUME NEW i \in 0..(m + 1), i <= m PROVE g[i] = Rest(f, i)
      <4>1. i \in 0..m
        BY <3>3
      <4>2. f[i] = Rest(f, i)
        BY <2>1, <4>1
      <4> HIDE DEF Rest, g
      <4> QED
        BY <3>1, <4>1, <4>2
    <3> HIDE DEF g, Rest
    <3> QED
      BY <3>1, <3>2, <3>3
  <2> HIDE DEF g
  <2>3. \A i \in 0..(m + 1) : i # 0 => i - 1 \in 0..m
    OBVIOUS
  <2>4. \A i \in 0..(m + 1) : Rest(g, i) = Rest(f, i)
    BY <2>2, <2>3
  <2>5. \A i \in 0..(m + 1) : g[i] = Rest(g, i)
    <3> SUFFICES ASSUME NEW i \in 0..(m + 1) PROVE g[i] = Rest(g, i)
      OBVIOUS
    <3>1. i <= m \/ i = m + 1
      OBVIOUS
    <3> HIDE DEF Rest
    <3> QED
      BY <2>2, <2>4, <3>1
  <2>6. Solves(g, m + 1)
    BY <2>2, <2>5
  <2> HIDE DEF Solves
  <2> QED
    BY <2>6
<1> HIDE DEF T
<1>3. \A m \in Nat : m \in T
  BY ONLY <1>1, <1>2, SetInduction
<1>4. PICK f : Solves(f, n)
  BY <1>3 DEF T
<1>5. f = [i \in 0..n |-> Rest(f, i)]
  <2> HIDE DEF Rest
  <2> QED
    BY <1>4
<1> QED
  BY <1>5 DEF Reuses

(* Two batches drop the same boxes for the same packages, pick by pick. *)
SameOwners(batch, other) ==
  /\ "picks" \in DOMAIN batch /\ DOMAIN batch.picks = DOMAIN other.picks
  /\ \A i \in DOMAIN other.picks :
       /\ {"package", "items"} \subseteq DOMAIN batch.picks[i]
       /\ batch.picks[i].package = other.picks[i].package
       /\ batch.picks[i].items = other.picks[i].items

(* Batches with the boxes and the owners of a plan. *)
OwnersOf(some, plan) ==
  /\ DOMAIN some = DOMAIN plan
  /\ \A n \in DOMAIN plan : SameOwners(some[n], plan[n])

(* Going on with boxes held in the grippers changes no box and no owner. *)
LEMMA ReuseKeepsOwners ==
  ASSUME NEW plan, NEW acc, NEW n \in DOMAIN plan,
         DOMAIN acc = {"batches", "active", "lost"}, OwnersOf(acc.batches, plan)
  PROVE  /\ DOMAIN ReuseBatch(acc, n) = {"batches", "active", "lost"}
         /\ OwnersOf(ReuseBatch(acc, n).batches, plan)
<1> DEFINE batch == acc.batches[n]
           reused == [batch EXCEPT !.picks =
                        [i \in DOMAIN @ |-> Continued(acc.active, @[i])]]
<1>1. /\ "picks" \in DOMAIN batch /\ DOMAIN batch.picks = DOMAIN plan[n].picks
      /\ \A i \in DOMAIN plan[n].picks :
           /\ {"package", "items"} \subseteq DOMAIN batch.picks[i]
           /\ batch.picks[i].package = plan[n].picks[i].package
           /\ batch.picks[i].items = plan[n].picks[i].items
  BY DEF OwnersOf, SameOwners
<1>2. SameOwners(reused, plan[n])
  <2>1. /\ "picks" \in DOMAIN reused
        /\ reused.picks = [i \in DOMAIN batch.picks |-> Continued(acc.active, batch.picks[i])]
    BY <1>1
  <2>2. ASSUME NEW i \in DOMAIN plan[n].picks
        PROVE  /\ {"package", "items"} \subseteq DOMAIN Continued(acc.active, batch.picks[i])
               /\ Continued(acc.active, batch.picks[i]).package = plan[n].picks[i].package
               /\ Continued(acc.active, batch.picks[i]).items = plan[n].picks[i].items
    <3>1. PICK action : /\ action = batch.picks[i]
                        /\ {"package", "items"} \subseteq DOMAIN action
                        /\ action.package = plan[n].picks[i].package
                        /\ action.items = plan[n].picks[i].items
      BY <1>1
    <3>2. /\ {"package", "items"} \subseteq DOMAIN Continued(acc.active, action)
          /\ Continued(acc.active, action).package = action.package
          /\ Continued(acc.active, action).items = action.items
      BY <3>1 DEF Continued
    <3> QED
      BY <3>1, <3>2
  <2> HIDE DEF reused, batch
  <2> QED
    BY <1>1, <2>1, <2>2 DEF SameOwners
<1> HIDE DEF reused
<1>3. \/ ReuseBatch(acc, n) = [acc EXCEPT !.batches[n] = reused,
                                          !.active = Appended(@, batch.picks, n)]
      \/ ReuseBatch(acc, n) = [acc EXCEPT !.active = StartedBy(batch.picks, n)]
      \/ ReuseBatch(acc, n) = [acc EXCEPT !.lost = TRUE]
  BY Zenon DEF ReuseBatch, reused
<1>4. \E active, lost :
        \/ ReuseBatch(acc, n) = [acc EXCEPT !.batches[n] = reused, !.active = active]
        \/ ReuseBatch(acc, n) = [acc EXCEPT !.active = active]
        \/ ReuseBatch(acc, n) = [acc EXCEPT !.lost = lost]
  BY <1>3, Zenon
<1>5. PICK active, lost :
        \/ ReuseBatch(acc, n) = [acc EXCEPT !.batches[n] = reused, !.active = active]
        \/ ReuseBatch(acc, n) = [acc EXCEPT !.active = active]
        \/ ReuseBatch(acc, n) = [acc EXCEPT !.lost = lost]
  BY <1>4, Zenon
<1> HIDE DEF batch
<1>6. CASE ReuseBatch(acc, n) = [acc EXCEPT !.batches[n] = reused, !.active = active]
  <2>1. /\ DOMAIN ReuseBatch(acc, n) = {"batches", "active", "lost"}
        /\ ReuseBatch(acc, n).batches = [acc.batches EXCEPT ![n] = reused]
    BY <1>6
  <2>2. OwnersOf([acc.batches EXCEPT ![n] = reused], plan)
    <3>1. /\ DOMAIN [acc.batches EXCEPT ![n] = reused] = DOMAIN plan
          /\ \A m \in DOMAIN plan : [acc.batches EXCEPT ![n] = reused][m]
               = IF m = n THEN reused ELSE acc.batches[m]
      BY DEF OwnersOf
    <3> QED
      BY <1>2, <3>1 DEF OwnersOf
  <2> QED
    BY <2>1, <2>2
<1>7. CASE \/ ReuseBatch(acc, n) = [acc EXCEPT !.active = active]
           \/ ReuseBatch(acc, n) = [acc EXCEPT !.lost = lost]
  <2>1. /\ DOMAIN ReuseBatch(acc, n) = {"batches", "active", "lost"}
        /\ ReuseBatch(acc, n).batches = acc.batches
    BY <1>7
  <2> QED
    BY <2>1
<1> QED
  BY <1>5, <1>6, <1>7

(* Counting the boxes of every pick changes no box and no owner. *)
LEMMA CountsKeepOwners ==
  ASSUME NEW plan, NEW some, OwnersOf(some, plan)
  PROVE  OwnersOf(PlaceCounts(some), plan)
<1> DEFINE placed(action) ==
             Cardinality({n \in DOMAIN some : \E i \in DOMAIN some[n].picks :
               some[n].picks[i].g = action.g /\ some[n].picks[i].command = action.command})
           counted(n) == [some[n] EXCEPT !.picks =
             [i \in DOMAIN @ |-> [@[i] EXCEPT !.place = placed(some[n].picks[i])]]]
<1>1. PlaceCounts(some) = [n \in DOMAIN some |-> counted(n)]
  BY Zenon DEF PlaceCounts
<1> HIDE DEF placed
<1>2. ASSUME NEW n \in DOMAIN plan
      PROVE  SameOwners(counted(n), plan[n])
  <2>1. PICK batch : batch = some[n] /\ SameOwners(batch, plan[n])
    BY DEF OwnersOf
  <2>2. /\ "picks" \in DOMAIN counted(n)
        /\ counted(n).picks =
             [i \in DOMAIN batch.picks |->
                [batch.picks[i] EXCEPT !.place = placed(batch.picks[i])]]
    BY <2>1 DEF SameOwners
  <2>3. ASSUME NEW i \in DOMAIN plan[n].picks
        PROVE  /\ {"package", "items"}
                    \subseteq DOMAIN [batch.picks[i] EXCEPT !.place = placed(batch.picks[i])]
               /\ [batch.picks[i] EXCEPT !.place = placed(batch.picks[i])].package
                    = plan[n].picks[i].package
               /\ [batch.picks[i] EXCEPT !.place = placed(batch.picks[i])].items
                    = plan[n].picks[i].items
    BY <2>1 DEF SameOwners
  <2> HIDE DEF counted
  <2> QED
    BY <2>1, <2>2, <2>3 DEF SameOwners
<1> HIDE DEF counted
<1> QED
  BY <1>1, <1>2 DEF OwnersOf

(* The plan as executed has the boxes and the owners of the plan as built. *)
LEMMA PlanKeepsOwners ==
  ASSUME NEW S, NEW plan \in Seq(S), \A batch \in S : "picks" \in DOMAIN batch
           /\ \A i \in DOMAIN batch.picks :
                {"package", "items"} \subseteq DOMAIN batch.picks[i]
  PROVE  OwnersOf(reuse_consecutive_physical_picks(plan).batches, plan)
<1> DEFINE n == Len(plan)
           h == CHOOSE f : Reuses(plan, f, n)
<1>1. n \in Nat /\ DOMAIN plan = 1..n /\ \A k \in 1..n : plan[k] \in S
  BY LenProperties, ElementOfSeq
<1>2. reuse_consecutive_physical_picks(plan).batches = PlaceCounts(h[n].batches)
  BY DEF reuse_consecutive_physical_picks, Reuses, Fresh
<1>3. Reuses(plan, h, n)
  BY <1>1, ReusesExists
<1> HIDE DEF h
<1>4. \A k \in 0..n : h[k] = IF k = 0 THEN Fresh(plan) ELSE ReuseBatch(h[k - 1], k)
  BY <1>3 DEF Reuses
<1> DEFINE Good(acc) == /\ DOMAIN acc = {"batches", "active", "lost"}
                        /\ OwnersOf(acc.batches, plan)
           T == {k \in Nat : k <= n => Good(h[k])}
<1>5. 0 \in T
  <2>1. h[0] = Fresh(plan)
    <3>1. 0 \in 0..n
      BY <1>1
    <3> QED
      BY <1>4, <3>1
  <2>2. DOMAIN Fresh(plan) = {"batches", "active", "lost"} /\ Fresh(plan).batches = plan
    BY DEF Fresh
  <2>3. OwnersOf(plan, plan)
    BY <1>1 DEF OwnersOf, SameOwners
  <2> QED
    BY <2>1, <2>2, <2>3
<1>6. ASSUME NEW k \in Nat, k \in T
      PROVE  k + 1 \in T
  <2> SUFFICES ASSUME k + 1 <= n PROVE Good(h[k + 1])
    OBVIOUS
  <2>1. k + 1 \in 0..n /\ k + 1 \in DOMAIN plan /\ k + 1 # 0 /\ (k + 1) - 1 = k /\ k <= n
    BY <1>1
  <2>2. h[k + 1] = ReuseBatch(h[k], k + 1) /\ Good(h[k])
    BY <1>4, <1>6, <2>1
  <2>3. ASSUME NEW acc, NEW m \in DOMAIN plan, Good(acc)
        PROVE  Good(ReuseBatch(acc, m))
    BY <2>3, ReuseKeepsOwners
  <2> HIDE DEF Good
  <2>4. \A acc : \A m \in DOMAIN plan : Good(acc) => Good(ReuseBatch(acc, m))
    BY <2>3
  <2> QED
    BY <2>1, <2>2, <2>4
<1> HIDE DEF T, Good
<1>7. n \in T
  BY <1>1, <1>5, <1>6, SetInduction
<1>8. OwnersOf(h[n].batches, plan)
  BY <1>1, <1>7 DEF T, Good
<1> QED
  BY <1>2, <1>8, CountsKeepOwners

(* The plan that is built has batches for one line each. *)
LEMMA PlanForOneLine ==
  ASSUME Posed, TypeOK, InfosKnown
  PROVE  \A n \in DOMAIN reuse_consecutive_physical_picks(build_batches).batches :
           ForOneLine(reuse_consecutive_physical_picks(build_batches).batches[n])
<1>1. PICK S : build_batches \in Seq(S) /\ \A batch \in S : ForOneLine(batch)
  <2>1. PICK S, h : Builds(S, h)
    BY BatchesBuilt
  <2>2. Len(Runs) \in 0..Len(Runs)
    BY RunsForOneLine
  <2> QED
    BY <2>1, <2>2 DEF Builds
<1>2. PICK plan \in Seq(S) : plan = build_batches
  BY <1>1
<1> DEFINE made == reuse_consecutive_physical_picks(plan).batches
<1>3. OwnersOf(made, plan)
  <2>1. \A batch \in S : "picks" \in DOMAIN batch
          /\ \A i \in DOMAIN batch.picks :
               {"package", "items"} \subseteq DOMAIN batch.picks[i]
    BY <1>1 DEF ForOneLine
  <2> QED
    BY <2>1, PlanKeepsOwners
<1> HIDE DEF made
<1>4. ASSUME NEW n \in DOMAIN made
      PROVE  ForOneLine(made[n])
  <2>1. n \in DOMAIN plan /\ SameOwners(made[n], plan[n])
    BY <1>3 DEF OwnersOf
  <2>2. ForOneLine(plan[n])
    BY <1>1, <1>2, <2>1, ElementOfSeq
  <2> QED
    BY <2>1, <2>2 DEF SameOwners, ForOneLine
<1> QED
  BY <1>2, <1>4 DEF made

(* Taking boxes for a package adds an info for its line. *)
LEMMA TakesKnown ==
  ASSUME Posed, TypeOK, InfosKnown, NEW info, Takes(info)
  PROVE  InfosKnown'
<1>1. /\ infos' = Append(infos, info) /\ packages' = packages
      /\ info \in Info /\ info.line = target_line(packages[info.package])
      /\ \A k \in 1..Len(info.picks) : IsFront(info.picks[k].loc)
  BY DEF Takes, Consume, given
<1>2. infos \in Seq(Info)
  BY DEF TypeOK
<1>3. /\ Len(infos) \in Nat /\ DOMAIN infos = 1..Len(infos)
      /\ Len(Append(infos, info)) = Len(infos) + 1
      /\ DOMAIN Append(infos, info) = 1..(Len(infos) + 1)
      /\ \A i \in 1..Len(infos) : Append(infos, info)[i] = infos[i]
      /\ Append(infos, info)[Len(infos) + 1] = info
  BY <1>1, <1>2, AppendProperties, LenProperties
<1>4. \A i \in 1..(Len(infos) + 1) : i \in 1..Len(infos) \/ i = Len(infos) + 1
  BY <1>3
<1>5. \A i \in DOMAIN infos' :
        /\ infos'[i].line = target_line(packages[infos'[i].package])
        /\ \A k \in 1..Len(infos'[i].picks) : IsFront(infos'[i].picks[k].loc)
  BY <1>1, <1>3, <1>4 DEF InfosKnown
<1> QED
  BY <1>1, <1>5 DEF InfosKnown

(* Every step keeps the infos that way. *)
LEMMA InfosStayKnown ==
  ASSUME Posed, TypeOK, InfosKnown, [Next]_vars
  PROVE  InfosKnown'
<1>1. CASE SelectPackage \/ TakeOwnBlocker
  BY <1>1, SelectTakes, OwnBlockerTakes, TakesKnown
<1>2. CASE ~(SelectPackage \/ TakeOwnBlocker)
  <2>1. UNCHANGED <<packages, infos>>
    BY <1>2 DEF Next, Over, ShiftBackGoods, AdjustLocation, Unplanned, Unschedulable,
                BuildPlan, given, vars
  <2> QED
    BY <2>1 DEF InfosKnown
<1> QED
  BY <1>1, <1>2

(* The inductive invariant: every info is for the line of its package, and an *)
(* accepted plan for one line per batch.                                      *)
PlanInv == SearchInv /\ InfosKnown /\ OneLinePerBatch

(* Every step keeps it. *)
LEMMA PlanKept == PlanInv /\ [Next]_vars => PlanInv'
<1> SUFFICES ASSUME Posed, TypeOK, BoxesAccountedFor, InfosKnown, OneLinePerBatch, [Next]_vars
             PROVE  SearchInv' /\ InfosKnown' /\ OneLinePerBatch'
  BY DEF PlanInv, SearchInv
<1>1. SearchInv' /\ InfosKnown'
  BY SearchKept, InfosStayKnown DEF SearchInv
<1>2. CASE BuildPlan
  <2>1. /\ batches' = reuse_consecutive_physical_picks(build_batches).batches
        /\ packages' = packages
    BY <1>2 DEF BuildPlan, given
  <2>2. \A n \in DOMAIN batches' : ForOneLine(batches'[n])
    BY <2>1, PlanForOneLine
  <2> QED
    BY <1>1, <2>1, <2>2 DEF ForOneLine, OneLinePerBatch
<1>3. CASE Unschedulable
  <2>1. phase' # "planned"
    BY <1>3 DEF Unschedulable
  <2> QED
    BY <1>1, <2>1 DEF OneLinePerBatch
<1>4. CASE ~BuildPlan /\ ~Unschedulable
  <2>1. UNCHANGED <<packages, phase, batches>>
    BY <1>4 DEF Next, Over, SelectPackage, TakeOwnBlocker, ShiftBackGoods, AdjustLocation,
                Unplanned, given, vars
  <2> QED
    BY <1>1, <2>1 DEF OneLinePerBatch
<1> QED
  BY <1>2, <1>3, <1>4

(* In an accepted plan all boxes of a batch go to one line, that of their     *)
(* packages: the PLC gets one speed and one count for the batch.  Infos that  *)
(* share batches have the same line, and going on with boxes held in a        *)
(* gripper changes no owner.                                                  *)
THEOREM OneLinePerBatchHolds == Spec => []OneLinePerBatch
<1>1. Init => PlanInv
  <2> SUFFICES ASSUME Init PROVE SearchInv /\ InfosKnown /\ OneLinePerBatch
    BY DEF PlanInv
  <2>1. infos = <<>> /\ phase = "search"
    BY DEF Init
  <2> QED
    BY <2>1, SearchStarts DEF InfosKnown, OneLinePerBatch
<1>2. PlanInv => OneLinePerBatch
  BY DEF PlanInv
<1> QED
  BY <1>1, <1>2, PlanKept, PTL DEF Spec

-----------------------------------------------------------------------------
(* A gripper drops a box per batch until it has none left *)

(* Batches as they are built: all picks of a batch go back to the same command *)
(* and a gripper that was commanded drops a box in every batch up to its last. *)
InWaves(plan) ==
  /\ \A n \in DOMAIN plan : Fielded(plan[n])
  /\ \A n \in DOMAIN plan : \A i \in DOMAIN plan[n].picks :
       /\ plan[n].picks[i].command \in 1..n
       /\ plan[n].picks[i].send <=> plan[n].picks[i].command = n
       /\ \A j \in DOMAIN plan[n].picks : plan[n].picks[j].command = plan[n].picks[i].command
       /\ \A m \in plan[n].picks[i].command..n :
            Has(plan[m], plan[n].picks[i].g, plan[n].picks[i].command)

(* The grippers that wait with boxes after batch k: the last command was       *)
(* theirs, and each has dropped a box in every batch up to its last.           *)
Waiting(active, batch, k) ==
  \A g \in DOMAIN active :
    /\ {"command", "last"} \subseteq DOMAIN active[g]
    /\ active[g].command \in 1..k /\ active[g].last \in active[g].command..k
    /\ Sends(batch[active[g].command])
    /\ \A m \in (active[g].command + 1)..k : ~Sends(batch[m])
    /\ \A m \in active[g].command..active[g].last : Has(batch[m], g, active[g].command)

(* What can be said of the batches when the first k have been looked at.       *)
Gone(plan, batch, k) ==
  /\ DOMAIN batch = DOMAIN plan
  /\ \A m \in DOMAIN plan : Fielded(batch[m])
  /\ \A m \in DOMAIN plan : m > k => batch[m] = plan[m]
  /\ \A m \in DOMAIN plan : \A i \in DOMAIN batch[m].picks :
       /\ batch[m].picks[i].command \in 1..m
       /\ batch[m].picks[i].send => batch[m].picks[i].command = m
  /\ \A m \in DOMAIN plan : Sends(batch[m]) => Sends(plan[m])
  /\ \A n, m \in 1..k : \A g :
       n < m /\ Sends(batch[n]) /\ Has(batch[m], g, n) =>
         ~Sends(batch[m]) /\ \A x \in n..m : Has(batch[x], g, n)
  /\ \A n, m \in 1..k : \A g :
       n <= m /\ Sends(batch[n]) /\ Has(plan[m], g, n) => Has(batch[m], g, n)

(* A batch is commanded as a whole or not at all. *)
LEMMA SendsAsAWhole ==
  ASSUME NEW plan, InWaves(plan), NEW n \in DOMAIN plan
  PROVE  Sends(plan[n]) => \A i \in DOMAIN plan[n].picks :
                             plan[n].picks[i].send /\ plan[n].picks[i].command = n
<1> SUFFICES ASSUME Sends(plan[n]), NEW i \in DOMAIN plan[n].picks
             PROVE  plan[n].picks[i].send /\ plan[n].picks[i].command = n
  OBVIOUS
<1>1. PICK j \in DOMAIN plan[n].picks : plan[n].picks[j].send
  BY DEF Sends
<1>2. plan[n].picks[j].command = n /\ plan[n].picks[i].command = plan[n].picks[j].command
  BY <1>1 DEF InWaves
<1> QED
  BY <1>2 DEF InWaves

(* Between the command of a gripper and its drops nothing is commanded. *)
LEMMA NoCommandBetween ==
  ASSUME NEW plan, InWaves(plan), NEW N \in Nat, DOMAIN plan = 1..N,
         NEW m \in 1..N, NEW c, NEW g, Has(plan[m], g, c)
  PROVE  /\ c \in 1..m
         /\ \A x \in c..m : Has(plan[x], g, c)
         /\ \A x \in (c + 1)..m : ~Sends(plan[x])
<1>1. PICK i \in DOMAIN plan[m].picks : plan[m].picks[i].g = g /\ plan[m].picks[i].command = c
  BY DEF Has
<1>2. c \in 1..m /\ \A x \in c..m : Has(plan[x], g, c)
  BY <1>1 DEF InWaves
<1>3. ASSUME NEW x \in (c + 1)..m
      PROVE  ~Sends(plan[x])
  <2>1. x \in 1..N /\ x \in c..m /\ x # c
    BY <1>2
  <2>2. PICK j \in DOMAIN plan[x].picks : plan[x].picks[j].command = c
    BY <1>2, <2>1 DEF Has
  <2>3. \A h \in DOMAIN plan[x].picks : plan[x].picks[h].command # x
    BY <2>1, <2>2 DEF InWaves
  <2> QED
    BY <2>1, <2>3 DEF InWaves, Sends
<1> QED
  BY <1>2, <1>3

(* A batch whose picks go back to the commands of grippers that wait, and what *)
(* it leaves of their boxes.                                                   *)
GoingOn(other, batch, active, k) ==
  /\ Fielded(other) /\ DOMAIN other.picks = DOMAIN batch.picks
  /\ \A i \in DOMAIN batch.picks :
       /\ batch.picks[i].g \in DOMAIN active /\ active[batch.picks[i].g].last = k
       /\ other.picks[i].g = batch.picks[i].g /\ ~other.picks[i].send
       /\ other.picks[i].command = active[batch.picks[i].g].command
OneLess(after, batch, active, n) ==
  /\ DOMAIN after = DOMAIN active
  /\ \A g \in DOMAIN active :
       /\ {"command", "last"} \subseteq DOMAIN after[g]
       /\ after[g].command = active[g].command
       /\ after[g].last = IF \E i \in DOMAIN batch.picks : batch.picks[i].g = g
                          THEN n ELSE active[g].last

(* A batch that only goes on with boxes held in the grippers. *)
LEMMA GoesOn ==
  ASSUME NEW plan, InWaves(plan), NEW N \in Nat, DOMAIN plan = 1..N, NEW k \in Nat, k < N,
         NEW batch, Gone(plan, batch, k), NEW active, Waiting(active, batch, k),
         NEW n, n = k + 1, NEW reused, GoingOn(reused, plan[n], active, k),
         NEW after, OneLess(after, plan[n], active, n)
  PROVE  /\ Gone(plan, [batch EXCEPT ![n] = reused], n)
         /\ Waiting(after, [batch EXCEPT ![n] = reused], n)
<1> DEFINE new == [batch EXCEPT ![n] = reused]
<1> USE DEF GoingOn, OneLess
<1>0. n \in 1..N /\ k + 1 = n /\ n \in Nat /\ \A x \in 1..n : x \in 1..k \/ x = n
  OBVIOUS
<1>1. /\ DOMAIN new = 1..N /\ new[n] = reused
      /\ \A m \in 1..N : m # n => new[m] = batch[m]
      /\ \A m \in 1..k : m \in 1..N /\ new[m] = batch[m]
  BY <1>0 DEF Gone
<1> HIDE DEF new
<1>2. ~Sends(new[n])
  BY <1>1 DEF Sends
<1>3. ASSUME NEW g, NEW c, Has(new[n], g, c)
      PROVE  /\ g \in DOMAIN active /\ active[g].command = c /\ active[g].last = k
             /\ c \in 1..k /\ \A x \in c..n : Has(new[x], g, c)
  <2>1. PICK i \in DOMAIN plan[n].picks : reused.picks[i].g = g /\ reused.picks[i].command = c
    BY <1>1, <1>3 DEF Has
  <2>2. g \in DOMAIN active /\ active[g].command = c /\ active[g].last = k
    BY <2>1
  <2>3. c \in 1..k /\ \A x \in c..k : Has(batch[x], g, c)
    BY <2>2 DEF Waiting
  <2>4. \A x \in c..n : x = n \/ (x \in c..k /\ x \in 1..k)
    BY <1>0, <2>3
  <2>5. \A x \in c..n : Has(new[x], g, c)
    <3>1. \A x \in 1..k : Has(batch[x], g, c) => Has(new[x], g, c)
      BY <1>1 DEF Has
    <3> QED
      BY <1>3, <2>3, <2>4, <3>1
  <2> QED
    BY <2>2, <2>3, <2>5
<1>4. \A m \in 1..N : Sends(new[m]) => m # n /\ Sends(batch[m])
  BY <1>1, <1>2
<1>5. Waiting(after, new, n)
  <2> SUFFICES ASSUME NEW g \in DOMAIN active
               PROVE  /\ after[g].command \in 1..n /\ after[g].last \in after[g].command..n
                      /\ Sends(new[after[g].command])
                      /\ \A m \in (after[g].command + 1)..n : ~Sends(new[m])
                      /\ \A m \in after[g].command..after[g].last :
                           Has(new[m], g, after[g].command)
    BY DEF Waiting
  <2>1. PICK c \in 1..k : c = active[g].command /\ c = after[g].command
    BY DEF Waiting
  <2>2. PICK last \in c..k : last = active[g].last
    BY <2>1 DEF Waiting
  <2>3. Sends(batch[c]) /\ \A m \in (c + 1)..k : ~Sends(batch[m])
    BY <2>1 DEF Waiting
  <2>4. \A m \in c..last : Has(batch[m], g, c)
    BY <2>1, <2>2 DEF Waiting
  <2>5. Sends(new[c]) /\ c \in 1..n
    BY <1>0, <1>1, <2>3
  <2>6. \A m \in (c + 1)..n : ~Sends(new[m])
    <3>1. \A m \in (c + 1)..n : m = n \/ (m \in (c + 1)..k /\ m \in 1..k)
      BY ONLY <1>0, k \in Nat, c \in 1..k
    <3> QED
      BY <1>1, <1>2, <2>3, <3>1
  <2>7. CASE \E i \in DOMAIN plan[n].picks : plan[n].picks[i].g = g
    <3>1. Has(new[n], g, c)
      BY <1>1, <2>1, <2>7 DEF Has
    <3>2. \A m \in c..n : Has(new[m], g, c)
      BY <1>3, <3>1
    <3>3. after[g].last = n /\ n \in c..n
      BY <1>0, <2>7
    <3> QED
      BY <2>1, <2>5, <2>6, <3>2, <3>3
  <2>8. CASE ~\E i \in DOMAIN plan[n].picks : plan[n].picks[i].g = g
    <3>1. after[g].last = last /\ last \in c..n
      BY <1>0, <2>2, <2>8
    <3>2. \A m \in c..last : Has(new[m], g, c)
      <4>1. \A m \in c..last : m \in 1..k
        BY <2>2
      <4> QED
        BY <1>1, <2>4, <4>1
    <3> QED
      BY <2>1, <2>5, <2>6, <3>1, <3>2
  <2> QED
    BY <2>7, <2>8
<1>6. ASSUME NEW c \in 1..n, NEW g, Sends(new[c]), Has(plan[n], g, c)
      PROVE  Has(new[n], g, c)
  <2>1. c \in 1..k /\ Sends(batch[c])
    BY <1>0, <1>1, <1>2, <1>6
  <2>2. PICK i \in DOMAIN plan[n].picks : plan[n].picks[i].g = g /\ plan[n].picks[i].command = c
    BY <1>6 DEF Has
  <2>3. PICK d \in 1..k : d = active[g].command /\ d = reused.picks[i].command
    BY <2>2 DEF Waiting
  <2>4. Sends(batch[d]) /\ \A m \in (d + 1)..k : ~Sends(batch[m])
    BY <2>2, <2>3 DEF Waiting
  <2>5. \A x \in (c + 1)..n : ~Sends(plan[x])
    BY <1>0, <1>6, NoCommandBetween
  <2>6. \A x \in (c + 1)..k : ~Sends(batch[x])
    <3>1. \A x \in (c + 1)..k : x \in (c + 1)..n /\ x \in 1..N
      BY <1>0
    <3> QED
      BY <2>5, <3>1 DEF Gone
  <2>7. c = d
    <3>1. ~(c < d)
      <4>1. c < d => d \in (c + 1)..k
        BY <2>1, <2>3
      <4> QED
        BY <2>4, <2>6, <4>1
    <3>2. ~(d < c)
      <4>1. d < c => c \in (d + 1)..k
        BY <2>1, <2>3
      <4> QED
        BY <2>1, <2>4, <4>1
    <3> QED
      BY <2>1, <2>3, <3>1, <3>2
  <2> QED
    BY <1>1, <2>2, <2>3, <2>7 DEF Has
<1>7. Gone(plan, new, n)
  <2>1. DOMAIN new = DOMAIN plan /\ \A m \in DOMAIN plan : Fielded(new[m])
    BY <1>1 DEF Gone
  <2>2. \A m \in DOMAIN plan : m > n => new[m] = plan[m]
    <3>1. \A m \in 1..N : m > n => m # n /\ m > k
      BY <1>0
    <3> QED
      BY <1>1, <3>1 DEF Gone
  <2>3. \A m \in DOMAIN plan : \A i \in DOMAIN new[m].picks :
          /\ new[m].picks[i].command \in 1..m
          /\ new[m].picks[i].send => new[m].picks[i].command = m
    <3> SUFFICES ASSUME NEW m \in 1..N, NEW i \in DOMAIN new[m].picks
                 PROVE  /\ new[m].picks[i].command \in 1..m
                        /\ new[m].picks[i].send => new[m].picks[i].command = m
      OBVIOUS
    <3>1. CASE m = n
      <4>1. Has(new[n], new[n].picks[i].g, new[n].picks[i].command)
        BY <3>1 DEF Has
      <4>2. new[n].picks[i].command \in 1..k
        BY <1>3, <4>1
      <4>3. ~new[n].picks[i].send
        BY <1>1, <3>1
      <4>4. new[n].picks[i].command \in 1..n
        BY <1>0, <4>2
      <4> QED
        BY <3>1, <4>3, <4>4
    <3>2. CASE m # n
      BY <1>1, <3>2 DEF Gone
    <3> QED
      BY <3>1, <3>2
  <2>4. \A m \in DOMAIN plan : Sends(new[m]) => Sends(plan[m])
    BY <1>4 DEF Gone
  <2>5. ASSUME NEW c \in 1..n, NEW m \in 1..n, NEW g, c < m, Sends(new[c]), Has(new[m], g, c)
        PROVE  ~Sends(new[m]) /\ \A x \in c..m : Has(new[x], g, c)
    <3>1. CASE m = n
      BY <1>2, <1>3, <2>5, <3>1
    <3>2. CASE m # n
      <4>1. m \in 1..k /\ c \in 1..k /\ \A x \in c..m : x \in 1..k
        BY <1>0, <2>5, <3>2
      <4>2. ~Sends(batch[m]) /\ \A x \in c..m : Has(batch[x], g, c)
        BY <1>1, <2>5, <4>1 DEF Gone
      <4> QED
        BY <1>1, <4>1, <4>2
    <3> QED
      BY <3>1, <3>2
  <2>6. ASSUME NEW c \in 1..n, NEW m \in 1..n, NEW g, c <= m, Sends(new[c]), Has(plan[m], g, c)
        PROVE  Has(new[m], g, c)
    <3>1. CASE m = n
      BY <1>6, <2>6, <3>1
    <3>2. CASE m # n
      <4>1. m \in 1..k /\ c \in 1..k
        BY <1>0, <2>6, <3>2
      <4> QED
        BY <1>1, <2>6, <4>1 DEF Gone
    <3> QED
      BY <3>1, <3>2
  <2> QED
    BY <2>1, <2>2, <2>3, <2>4, <2>5, <2>6 DEF Gone
<1> QED
  BY <1>5, <1>7 DEF new

(* A batch that commands its grippers. *)
LEMMA StartsAnew ==
  ASSUME NEW plan, InWaves(plan), NEW N \in Nat, DOMAIN plan = 1..N, NEW k \in Nat, k < N,
         NEW batch, Gone(plan, batch, k), NEW n, n = k + 1, Sends(batch[n])
  PROVE  Gone(plan, batch, n) /\ Waiting(StartedBy(batch[n].picks, n), batch, n)
<1>0. n \in 1..N /\ k + 1 = n /\ n \in Nat /\ n \notin 1..k
      /\ \A x \in 1..n : x \in 1..k \/ x = n
  OBVIOUS
<1>1. batch[n] = plan[n]
  BY <1>0 DEF Gone
<1>2. \A i \in DOMAIN plan[n].picks : plan[n].picks[i].send /\ plan[n].picks[i].command = n
  BY <1>0, <1>1, SendsAsAWhole
<1>3. \A g, c : Has(plan[n], g, c) => c = n
  BY <1>2 DEF Has
<1>4. Gone(plan, batch, n)
  <2>1. \A m \in DOMAIN plan : m > n => batch[m] = plan[m]
    <3>1. \A m \in 1..N : m > n => m > k
      BY <1>0
    <3> QED
      BY <3>1 DEF Gone
  <2>2. ASSUME NEW c \in 1..n, NEW m \in 1..n, NEW g, c < m, Sends(batch[c]), Has(batch[m], g, c)
        PROVE  ~Sends(batch[m]) /\ \A x \in c..m : Has(batch[x], g, c)
    <3>1. m # n
      <4>1. c # n
        BY <1>0, <2>2
      <4> QED
        BY <1>1, <1>3, <2>2, <4>1
    <3>2. m \in 1..k /\ c \in 1..k
      BY <1>0, <2>2, <3>1
    <3> QED
      BY <2>2, <3>2 DEF Gone
  <2>3. ASSUME NEW c \in 1..n, NEW m \in 1..n, NEW g, c <= m, Sends(batch[c]), Has(plan[m], g, c)
        PROVE  Has(batch[m], g, c)
    <3>1. CASE m = n
      BY <1>1, <2>3, <3>1
    <3>2. CASE m # n
      <4>1. m \in 1..k /\ c \in 1..k
        BY <1>0, <2>3, <3>2
      <4> QED
        BY <2>3, <4>1 DEF Gone
    <3> QED
      BY <3>1, <3>2
  <2> QED
    BY <2>1, <2>2, <2>3 DEF Gone
<1> DEFINE picks == plan[n].picks
           sent == {i \in DOMAIN picks : picks[i].send}
           own(g) == picks[CHOOSE i \in sent : picks[i].g = g]
           active == StartedBy(picks, n)
<1>5. /\ DOMAIN active = {picks[i].g : i \in sent}
      /\ \A g \in DOMAIN active :
           /\ {"command", "last"} \subseteq DOMAIN active[g]
           /\ active[g].command = own(g).command /\ active[g].last = n
  BY DEF StartedBy
<1> HIDE DEF active
<1>6. ASSUME NEW g \in DOMAIN active
      PROVE  own(g).command = n /\ Has(plan[n], g, n)
  <2>1. \E i \in sent : picks[i].g = g
    BY <1>5
  <2>2. PICK i \in sent : picks[i].g = g /\ i = CHOOSE j \in sent : picks[j].g = g
    BY <2>1
  <2>3. own(g) = picks[i] /\ picks[i].command = n /\ i \in DOMAIN picks
    BY <1>2, <2>2
  <2> QED
    BY <2>2, <2>3 DEF Has
<1> HIDE DEF own, picks
<1>7. Waiting(active, batch, n)
  <2>1. n \in 1..n /\ n \in n..n /\ (n + 1)..n = {} /\ \A x \in n..n : x = n
    BY <1>0
  <2>2. \A g \in DOMAIN active : active[g].command = n /\ active[g].last = n
    BY <1>5, <1>6
  <2> QED
    BY <1>1, <1>5, <1>6, <2>1, <2>2 DEF Waiting
<1> QED
  BY <1>1, <1>4, <1>7 DEF active, picks

(* A batch that goes on with boxes nobody holds is left as it is. *)
LEMMA LeftAsBuilt ==
  ASSUME NEW plan, InWaves(plan), NEW N \in Nat, DOMAIN plan = 1..N, NEW k \in Nat, k < N,
         NEW batch, Gone(plan, batch, k), NEW active, Waiting(active, batch, k),
         NEW n, n = k + 1, ~Sends(batch[n])
  PROVE  Gone(plan, batch, n) /\ Waiting(active, batch, n)
<1>0. n \in 1..N /\ k + 1 = n /\ n \in Nat /\ n \notin 1..k
      /\ \A x \in 1..n : x \in 1..k \/ x = n
  OBVIOUS
<1>1. batch[n] = plan[n]
  BY <1>0 DEF Gone
<1>2. Gone(plan, batch, n)
  <2>1. \A m \in DOMAIN plan : m > n => batch[m] = plan[m]
    <3>1. \A m \in 1..N : m > n => m > k
      BY <1>0
    <3> QED
      BY <3>1 DEF Gone
  <2>2. ASSUME NEW c \in 1..n, NEW m \in 1..n, NEW g, c < m, Sends(batch[c]), Has(batch[m], g, c)
        PROVE  ~Sends(batch[m]) /\ \A x \in c..m : Has(batch[x], g, c)
    <3>1. CASE m = n
      <4>1. \A x \in c..n : Has(plan[x], g, c)
        BY <1>0, <1>1, <2>2, <3>1, NoCommandBetween
      <4>2. c \in 1..k /\ \A x \in c..n : x = n \/ (x \in 1..k /\ c <= x)
        BY <1>0, <2>2, <3>1
      <4>3. \A x \in c..n : Has(batch[x], g, c)
        BY <1>1, <2>2, <4>1, <4>2 DEF Gone
      <4> QED
        BY <3>1, <4>3
    <3>2. CASE m # n
      <4>1. m \in 1..k /\ c \in 1..k
        BY <1>0, <2>2, <3>2
      <4> QED
        BY <2>2, <4>1 DEF Gone
    <3> QED
      BY <3>1, <3>2
  <2>3. ASSUME NEW c \in 1..n, NEW m \in 1..n, NEW g, c <= m, Sends(batch[c]), Has(plan[m], g, c)
        PROVE  Has(batch[m], g, c)
    <3>1. CASE m = n
      BY <1>1, <2>3, <3>1
    <3>2. CASE m # n
      <4>1. m \in 1..k /\ c \in 1..k
        BY <1>0, <2>3, <3>2
      <4> QED
        BY <2>3, <4>1 DEF Gone
    <3> QED
      BY <3>1, <3>2
  <2> QED
    BY <2>1, <2>2, <2>3 DEF Gone
<1>3. Waiting(active, batch, n)
  <2> SUFFICES ASSUME NEW g \in DOMAIN active
               PROVE  /\ active[g].command \in 1..n /\ active[g].last \in active[g].command..n
                      /\ \A m \in (active[g].command + 1)..n : ~Sends(batch[m])
    BY DEF Waiting
  <2>1. PICK c \in 1..k : c = active[g].command
    BY DEF Waiting
  <2>2. PICK last \in c..k : last = active[g].last
    BY <2>1 DEF Waiting
  <2>3. \A m \in (c + 1)..k : ~Sends(batch[m])
    BY <2>1 DEF Waiting
  <2>4. \A m \in (c + 1)..n : m = n \/ m \in (c + 1)..k
    BY ONLY <1>0, k \in Nat, c \in 1..k
  <2>5. c \in 1..n /\ last \in c..n
    BY ONLY <1>0, k \in Nat, c \in 1..k, last \in c..k
  <2> QED
    BY <2>1, <2>2, <2>3, <2>4, <2>5
<1> QED
  BY <1>2, <1>3

(* The state of reuse_consecutive_physical_picks after k batches. *)
Reused(plan, acc, k) ==
  /\ DOMAIN acc = {"batches", "active", "lost"}
  /\ Gone(plan, acc.batches, k) /\ Waiting(acc.active, acc.batches, k)

(* Looking at one batch more. *)
LEMMA ReuseStep ==
  ASSUME NEW plan, InWaves(plan), NEW N \in Nat, DOMAIN plan = 1..N, NEW k \in Nat, k < N,
         NEW acc, Reused(plan, acc, k), NEW n, n = k + 1
  PROVE  Reused(plan, ReuseBatch(acc, n), n)
<1> DEFINE batch == acc.batches[n]
           active == acc.active
           reused == [batch EXCEPT !.picks =
                        [i \in DOMAIN @ |-> Continued(active, @[i])]]
           all == \A i \in DOMAIN batch.picks : Appendable(active, batch.picks[i], n)
<1>1. n \in 1..N /\ n - 1 = k
  OBVIOUS
<1>2. /\ DOMAIN acc = {"batches", "active", "lost"}
      /\ Gone(plan, acc.batches, k) /\ Waiting(active, acc.batches, k)
  BY DEF Reused
<1>3. batch = plan[n] /\ Fielded(batch) /\ n \in DOMAIN acc.batches
  BY <1>1, <1>2 DEF Gone
<1>4. CASE all
  <2> DEFINE after == Appended(active, batch.picks, n)
             new == ReuseBatch(acc, n)
  <2>1. new = [acc EXCEPT !.batches[n] = reused, !.active = after]
    BY <1>4, Zenon DEF ReuseBatch
  <2>2. /\ DOMAIN new = {"batches", "active", "lost"}
        /\ new.batches = [acc.batches EXCEPT ![n] = reused] /\ new.active = after
    BY <1>2, <2>1
  <2>3. /\ "picks" \in DOMAIN reused
        /\ reused.picks = [i \in DOMAIN batch.picks |-> Continued(active, batch.picks[i])]
    BY <1>3 DEF Fielded
  <2>4. ASSUME NEW i \in DOMAIN plan[n].picks
        PROVE  /\ plan[n].picks[i].g \in DOMAIN active /\ active[plan[n].picks[i].g].last = k
               /\ reused.picks[i].g = plan[n].picks[i].g /\ ~reused.picks[i].send
               /\ reused.picks[i].command = active[plan[n].picks[i].g].command
               /\ {"g", "send", "command", "place"} \subseteq DOMAIN reused.picks[i]
    <3>1. PICK action : action = plan[n].picks[i] /\ {"g", "send", "command", "place"} \subseteq DOMAIN action
      BY <1>3 DEF Fielded
    <3>2. action.g \in DOMAIN active /\ active[action.g].last = k
      BY <1>1, <1>3, <1>4, <3>1 DEF Appendable
    <3>3. /\ Continued(active, action).g = action.g /\ Continued(active, action).send = FALSE
          /\ Continued(active, action).command = active[action.g].command
          /\ {"g", "send", "command", "place"} \subseteq DOMAIN Continued(active, action)
      BY <3>1 DEF Continued
    <3>4. reused.picks[i] = Continued(active, action)
      BY <1>3, <2>3, <3>1
    <3> QED
      BY <3>1, <3>2, <3>3, <3>4
  <2>5. DOMAIN after = DOMAIN active
    BY DEF Appended
  <2>6. ASSUME NEW g \in DOMAIN active
        PROVE  /\ {"command", "last"} \subseteq DOMAIN after[g]
               /\ after[g].command = active[g].command
               /\ after[g].last = IF \E i \in DOMAIN plan[n].picks : plan[n].picks[i].g = g
                                  THEN n ELSE active[g].last
    <3>1. {"command", "last"} \subseteq DOMAIN active[g]
      BY <1>2 DEF Waiting
    <3>2. after[g] = IF \E i \in DOMAIN plan[n].picks : plan[n].picks[i].g = g
                     THEN [active[g] EXCEPT !.placed = @ + 1, !.last = n] ELSE active[g]
      BY <1>3 DEF Appended
    <3> QED
      BY <3>1, <3>2
  <2> HIDE DEF after, active, reused, new, all, batch
  <2>7. DOMAIN reused.picks = DOMAIN plan[n].picks /\ Fielded(reused)
    BY <1>3, <2>3, <2>4 DEF Fielded
  <2>8. /\ Gone(plan, [acc.batches EXCEPT ![n] = reused], n)
        /\ Waiting(after, [acc.batches EXCEPT ![n] = reused], n)
    <3>1. GoingOn(reused, plan[n], active, k) /\ OneLess(after, plan[n], active, n)
      BY <2>4, <2>5, <2>6, <2>7 DEF GoingOn, OneLess
    <3> QED
      BY <1>2, <3>1, GoesOn
  <2> QED
    BY <2>2, <2>8 DEF Reused, new
<1>5. CASE ~all /\ Sends(batch)
  <2>1. ReuseBatch(acc, n) = [acc EXCEPT !.active = StartedBy(batch.picks, n)]
    BY <1>5, Zenon DEF ReuseBatch
  <2>2. /\ DOMAIN ReuseBatch(acc, n) = {"batches", "active", "lost"}
        /\ ReuseBatch(acc, n).batches = acc.batches
        /\ ReuseBatch(acc, n).active = StartedBy(batch.picks, n)
    BY <1>2, <2>1
  <2>3. Gone(plan, acc.batches, n) /\ Waiting(StartedBy(batch.picks, n), acc.batches, n)
    BY <1>2, <1>5, StartsAnew
  <2> QED
    BY <2>2, <2>3 DEF Reused
<1>6. CASE ~all /\ ~Sends(batch)
  <2>1. ReuseBatch(acc, n) = [acc EXCEPT !.lost = TRUE]
    BY <1>6, Zenon DEF ReuseBatch
  <2>2. /\ DOMAIN ReuseBatch(acc, n) = {"batches", "active", "lost"}
        /\ ReuseBatch(acc, n).batches = acc.batches /\ ReuseBatch(acc, n).active = active
    BY <1>2, <2>1
  <2>3. Gone(plan, acc.batches, n) /\ Waiting(active, acc.batches, n)
    BY <1>2, <1>6, LeftAsBuilt
  <2> QED
    BY <2>2, <2>3 DEF Reused
<1> QED
  BY <1>4, <1>5, <1>6

(* Batches in which no gripper that is busy is commanded. *)
Apart(batch) ==
  \A n \in DOMAIN batch : \A i \in DOMAIN batch[n].picks :
    LET command == batch[n].picks[i] IN
      command.send =>
        \A m \in (n + 1)..(n + command.place - 1) :
          /\ m \in DOMAIN batch /\ ~Sends(batch[m])
          /\ \E j \in DOMAIN batch[m].picks :
               batch[m].picks[j].g = command.g /\ batch[m].picks[j].command = n

(* A set of numbers from n that has no gaps is as large as it reaches. *)
LEMMA NoGaps ==
  ASSUME NEW n \in Nat, NEW N \in Nat, NEW S \in SUBSET (n..N),
         \A m \in S : \A x \in n..m : x \in S
  PROVE  /\ IsFiniteSet(S) /\ Cardinality(S) \in Nat
         /\ \A m \in n..(n + Cardinality(S) - 1) : m \in S
<1>1. CASE S = {}
  <2>1. IsFiniteSet(S) /\ Cardinality(S) = 0
    BY <1>1, FS_EmptySet
  <2>2. n..(n + 0 - 1) = {}
    OBVIOUS
  <2> QED
    BY <2>1, <2>2
<1>2. CASE S # {}
  <2>1. S \in SUBSET (0..N)
    OBVIOUS
  <2>2. PICK top \in S : \A m \in S : m <= top
    BY <1>2, <2>1, GreatestNumber
  <2>3. S = n..top
    <3>1. \A m \in S : m \in n..top
      BY <2>2
    <3>2. \A m \in n..top : m \in S
      BY <2>2
    <3> QED
      BY <3>1, <3>2
  <2>4. n \in Int /\ top \in Int /\ n <= top
    BY <2>2
  <2>5. IsFiniteSet(n..top) /\ Cardinality(n..top) = top - n + 1
    <3>1. /\ IsFiniteSet(n..top)
          /\ Cardinality(n..top) = IF n > top THEN 0 ELSE top - n + 1
      BY ONLY <2>4, FS_Interval
    <3> QED
      BY <2>4, <3>1
  <2>6. n + (top - n + 1) - 1 = top /\ top - n + 1 \in Nat
    BY <2>4
  <2> QED
    BY <2>3, <2>5, <2>6
<1> QED
  BY <1>1, <1>2

(* After the last batch, counting the boxes of every command. *)
LEMMA CountedApart ==
  ASSUME NEW plan, NEW N \in Nat, DOMAIN plan = 1..N, NEW batch, Gone(plan, batch, N)
  PROVE  Apart(PlaceCounts(batch))
<1> DEFINE drops(g, c) == {m \in 1..N : Has(batch[m], g, c)}
           counted(m) == [batch[m] EXCEPT !.picks =
             [i \in DOMAIN @ |-> [@[i] EXCEPT !.place =
                Cardinality({x \in DOMAIN batch : \E j \in DOMAIN batch[x].picks :
                  batch[x].picks[j].g = batch[m].picks[i].g
                    /\ batch[x].picks[j].command = batch[m].picks[i].command})]]]
           new == PlaceCounts(batch)
<1>1. DOMAIN batch = 1..N /\ \A m \in 1..N : Fielded(batch[m])
  BY DEF Gone
<1>2. new = [m \in 1..N |-> counted(m)]
  BY <1>1, Zenon DEF PlaceCounts
<1>3. ASSUME NEW m \in 1..N
      PROVE  /\ "picks" \in DOMAIN new[m] /\ DOMAIN new[m].picks = DOMAIN batch[m].picks
             /\ \A i \in DOMAIN batch[m].picks :
                  /\ new[m].picks[i].g = batch[m].picks[i].g
                  /\ new[m].picks[i].command = batch[m].picks[i].command
                  /\ new[m].picks[i].send = batch[m].picks[i].send
                  /\ new[m].picks[i].place
                       = Cardinality(drops(batch[m].picks[i].g, batch[m].picks[i].command))
  <2>1. /\ "picks" \in DOMAIN batch[m]
        /\ \A i \in DOMAIN batch[m].picks : {"g", "send", "command", "place"} \subseteq DOMAIN batch[m].picks[i]
    BY <1>1 DEF Fielded
  <2>2. \A g, c : {x \in DOMAIN batch : \E j \in DOMAIN batch[x].picks :
                     batch[x].picks[j].g = g /\ batch[x].picks[j].command = c} = drops(g, c)
    BY <1>1 DEF Has
  <2> DEFINE place(i) == Cardinality({x \in DOMAIN batch : \E j \in DOMAIN batch[x].picks :
                  batch[x].picks[j].g = batch[m].picks[i].g
                    /\ batch[x].picks[j].command = batch[m].picks[i].command})
  <2>3. \A i : place(i) = Cardinality(drops(batch[m].picks[i].g, batch[m].picks[i].command))
    BY <2>2
  <2>4. counted(m) = [batch[m] EXCEPT !.picks =
                        [i \in DOMAIN @ |-> [@[i] EXCEPT !.place = place(i)]]]
    OBVIOUS
  <2> HIDE DEF drops, place, counted
  <2>5. /\ "picks" \in DOMAIN counted(m)
        /\ counted(m).picks = [i \in DOMAIN batch[m].picks |->
                                 [batch[m].picks[i] EXCEPT !.place = place(i)]]
    BY <2>1, <2>4
  <2>6. ASSUME NEW i \in DOMAIN batch[m].picks
        PROVE  /\ [batch[m].picks[i] EXCEPT !.place = place(i)].g = batch[m].picks[i].g
               /\ [batch[m].picks[i] EXCEPT !.place = place(i)].command
                    = batch[m].picks[i].command
               /\ [batch[m].picks[i] EXCEPT !.place = place(i)].send = batch[m].picks[i].send
               /\ [batch[m].picks[i] EXCEPT !.place = place(i)].place = place(i)
    BY <2>1
  <2>7. new[m] = counted(m)
    BY <1>2
  <2> DEFINE made(i) == [batch[m].picks[i] EXCEPT !.place = place(i)]
  <2>8. \A i \in DOMAIN batch[m].picks :
          /\ made(i).g = batch[m].picks[i].g /\ made(i).command = batch[m].picks[i].command
          /\ made(i).send = batch[m].picks[i].send /\ made(i).place = place(i)
    BY <2>6
  <2>9. new[m].picks = [i \in DOMAIN batch[m].picks |-> made(i)] /\ "picks" \in DOMAIN new[m]
    BY <2>5, <2>7
  <2> HIDE DEF new, made
  <2>10. /\ DOMAIN new[m].picks = DOMAIN batch[m].picks
         /\ \A i \in DOMAIN batch[m].picks : new[m].picks[i] = made(i)
    BY <2>9
  <2> QED
    BY <2>3, <2>8, <2>9, <2>10
<1>4. DOMAIN new = 1..N
  BY <1>2
<1> HIDE DEF new, counted
<1>5. ASSUME NEW n \in 1..N, NEW i \in DOMAIN new[n].picks, new[n].picks[i].send,
             NEW m \in (n + 1)..(n + new[n].picks[i].place - 1)
      PROVE  /\ m \in 1..N /\ ~Sends(new[m])
             /\ \E j \in DOMAIN new[m].picks :
                  new[m].picks[j].g = new[n].picks[i].g /\ new[m].picks[j].command = n
  <2>1. PICK g : g = batch[n].picks[i].g
    OBVIOUS
  <2>2. /\ i \in DOMAIN batch[n].picks /\ batch[n].picks[i].send
        /\ batch[n].picks[i].command = n /\ new[n].picks[i].g = g
        /\ new[n].picks[i].place = Cardinality(drops(g, n))
    <3>1. /\ i \in DOMAIN batch[n].picks /\ new[n].picks[i].g = g
          /\ new[n].picks[i].send = batch[n].picks[i].send
          /\ new[n].picks[i].place = Cardinality(drops(g, batch[n].picks[i].command))
      BY <1>3, <1>5, <2>1
    <3>2. batch[n].picks[i].send
      BY <1>5, <3>1
    <3>3. batch[n].picks[i].command = n
      BY <3>1, <3>2 DEF Gone
    <3> QED
      BY <3>1, <3>2, <3>3
  <2>3. Sends(batch[n])
    BY <2>2 DEF Sends
  <2>4. drops(g, n) \in SUBSET (n..N)
    <3> SUFFICES ASSUME NEW x \in 1..N, Has(batch[x], g, n) PROVE x \in n..N
      OBVIOUS
    <3>1. PICK j \in DOMAIN batch[x].picks : batch[x].picks[j].command = n
      BY DEF Has
    <3>2. n \in 1..x
      BY <3>1 DEF Gone
    <3> QED
      BY <3>2
  <2>5. \A x \in drops(g, n) : x = n \/ (n < x /\ ~Sends(batch[x])
                                         /\ \A y \in n..x : Has(batch[y], g, n))
    <3> SUFFICES ASSUME NEW x \in 1..N, Has(batch[x], g, n), x # n
                 PROVE  n < x /\ ~Sends(batch[x]) /\ \A y \in n..x : Has(batch[y], g, n)
      OBVIOUS
    <3>1. n < x
      BY <2>4
    <3> QED
      BY <2>3, <3>1 DEF Gone
  <2>6. \A x \in drops(g, n) : \A y \in n..x : y \in drops(g, n)
    <3> SUFFICES ASSUME NEW x \in drops(g, n), NEW y \in n..x PROVE y \in drops(g, n)
      OBVIOUS
    <3>1. y \in 1..N /\ (x = n => y = x)
      BY <2>4
    <3> QED
      BY <2>5, <3>1
  <2> DEFINE D == drops(g, n)
  <2> HIDE DEF D
  <2>7. D \in SUBSET (n..N) /\ \A x \in D : \A y \in n..x : y \in D
    BY <2>4, <2>6 DEF D
  <2>8. Cardinality(D) \in Nat /\ \A x \in n..(n + Cardinality(D) - 1) : x \in D
    <3>1. n \in Nat
      OBVIOUS
    <3> QED
      BY ONLY <2>7, <3>1, N \in Nat, NoGaps
  <2>9. m \in D /\ m # n
    BY <1>5, <2>2, <2>7, <2>8 DEF D
  <2>10. m \in 1..N /\ ~Sends(batch[m]) /\ Has(batch[m], g, n)
    BY <2>5, <2>9 DEF D
  <2>11. ~Sends(new[m])
    BY <1>3, <2>10 DEF Sends
  <2> QED
    BY <1>3, <2>2, <2>10, <2>11 DEF Has
<1> HIDE DEF drops
<1>6. Apart(new)
  BY <1>4, <1>5 DEF Apart
<1> QED
  BY <1>6 DEF new

(* The picks of a batch of a run: they share a command, which is sent when the *)
(* batch is its own, and a gripper has dropped in every batch since.           *)
LEMMA PicksInWaves ==
  ASSUME NEW l, NEW commands \in Seq(Command(l)), NEW base \in Nat,
         OneAfterTheOther(commands, base), NEW n \in Nat,
         NEW i \in DOMAIN BatchAt(commands, n).picks
  PROVE  /\ BatchAt(commands, n).picks[i].command \in (base + 1)..n
         /\ BatchAt(commands, n).picks[i].send <=> BatchAt(commands, n).picks[i].command = n
         /\ \A j \in DOMAIN BatchAt(commands, n).picks :
              BatchAt(commands, n).picks[j].command = BatchAt(commands, n).picks[i].command
         /\ \A m \in BatchAt(commands, n).picks[i].command..n :
              Has(BatchAt(commands, m), BatchAt(commands, n).picks[i].g,
                  BatchAt(commands, n).picks[i].command)
<1> DEFINE picks == BatchAt(commands, n).picks
           Here(c) == n \in c.first..LastDrop(c)
<1>1. \A j \in DOMAIN picks : \E c \in Range(commands) : Here(c) /\ picks[j] = Action(c, n)
  BY BatchOfCommands
<1>2. \A m : \A c \in Range(commands) : m \in c.first..LastDrop(c) =>
               Has(BatchAt(commands, m), global_gripper_id(c.pick.loc), c.first)
  BY BatchOfCommands
<1>3. \A c : /\ Action(c, n).g = global_gripper_id(c.pick.loc) /\ Action(c, n).command = c.first
             /\ Action(c, n).send = (n = c.first)
  BY DEF Action
<1> HIDE DEF picks
<1>4. ASSUME NEW c \in Range(commands)
      PROVE  c.first \in Nat /\ LastDrop(c) \in Int /\ base < c.first
  <2>1. PICK k \in 1..Len(commands) : c = commands[k]
    BY LenProperties DEF Range
  <2>2. commands[k] \in Command(l)
    BY <2>1, LenProperties, ElementOfSeq
  <2>3. c.first \in Nat /\ c.pick \in Pick
    BY <2>1, <2>2 DEF Command
  <2>4. Len(c.pick.planned) \in Nat
    BY <2>3, PickParts, LenProperties
  <2> QED
    BY <2>1, <2>3, <2>4 DEF OneAfterTheOther, LastDrop
<1>5. ASSUME NEW c \in Range(commands), NEW d \in Range(commands), Here(c), Here(d)
      PROVE  c.first = d.first
  <2>1. PICK k \in 1..Len(commands) : c = commands[k]
    BY LenProperties DEF Range
  <2>2. PICK h \in 1..Len(commands) : d = commands[h]
    BY LenProperties DEF Range
  <2>3. c.first = d.first \/ LastDrop(c) < d.first \/ LastDrop(d) < c.first
    BY <2>1, <2>2 DEF OneAfterTheOther
  <2>4. /\ c.first \in Nat /\ LastDrop(c) \in Int /\ d.first \in Nat /\ LastDrop(d) \in Int
        /\ n <= LastDrop(c) /\ n <= LastDrop(d) /\ c.first <= n /\ d.first <= n
    BY <1>4, <1>5
  <2> QED
    BY <2>3, <2>4
<1>6. PICK c \in Range(commands) : Here(c) /\ picks[i] = Action(c, n)
  BY <1>1 DEF picks
<1>7. /\ picks[i].g = global_gripper_id(c.pick.loc) /\ picks[i].command = c.first
      /\ picks[i].send <=> c.first = n
  BY <1>3, <1>6
<1>8. c.first \in (base + 1)..n
  BY <1>4, <1>6
<1>9. \A j \in DOMAIN picks : picks[j].command = c.first
  BY <1>1, <1>3, <1>5, <1>6
<1>10. \A m \in c.first..n : Has(BatchAt(commands, m), picks[i].g, c.first)
  <2>1. \A m \in c.first..n : m \in c.first..LastDrop(c)
    BY <1>4, <1>6
  <2> QED
    BY <1>2, <1>7, <2>1
<1>11. picks[i].command = c.first /\ (picks[i].send <=> picks[i].command = n)
  BY <1>7
<1> QED
  BY <1>8, <1>9, <1>10, <1>11 DEF picks

(* The batches of a run added to batches built in waves. *)
LEMMA RunInWaves ==
  ASSUME Posed, TypeOK, InfosKnown, NEW S, NEW done \in Seq(S), InWaves(done),
         NEW k \in 1..Len(Runs)
  PROVE  InWaves(AddRun(done, k))
<1>1. PICK l : Runs[k] # <<>> /\ Runs[k] \in Seq(InfosFor(l))
  BY RunsForOneLine
<1>2. PICK base \in Nat : base = Len(done) /\ DOMAIN done = 1..base
  BY LenProperties
<1>3. PICK commands \in Seq(Command(l)) :
        /\ commands = CommandsOf(Runs[k], base) /\ commands # <<>>
        /\ OneAfterTheOther(commands, base)
  BY <1>1, CommandsForOneLine
<1>4. PICK last \in Nat : last = LastBatch(commands)
  BY <1>3, LastBatchType
<1> DEFINE added == [i \in 1..(last - base) |-> BatchAt(commands, base + i)]
           plan == AddRun(done, k)
           B == {BatchAt(commands, base + i) : i \in 1..(last - base)}
<1>5. PICK N \in Nat : N = IF base <= last THEN last ELSE base
  OBVIOUS
<1>d. PICK d \in Nat : d = N - base
  BY <1>5
<1>6. added \in Seq(B) /\ Len(added) = d
  <2> DEFINE f(i) == BatchAt(commands, base + i)
  <2>1. 1..(last - base) = 1..d
    BY <1>5, <1>d
  <2>2. added = [i \in 1..d |-> f(i)]
    BY <2>1
  <2>3. \A i \in 1..d : f(i) \in B
    BY <2>1
  <2> HIDE DEF added, B, f
  <2>4. added \in Seq(B)
    BY <2>2, <2>3
  <2>5. Len(added) \in Nat /\ DOMAIN added = 1..Len(added) /\ DOMAIN added = 1..d
    BY <2>2, <2>4, LenProperties
  <2>6. \A a, b \in Nat : 1..a = 1..b => a = b
    <3> SUFFICES ASSUME NEW a \in Nat, NEW b \in Nat, 1..a = 1..b PROVE ~(a < b) /\ ~(b < a)
      OBVIOUS
    <3>1. a < b => b \in 1..b /\ b \notin 1..a
      OBVIOUS
    <3>2. b < a => a \in 1..a /\ a \notin 1..b
      OBVIOUS
    <3> QED
      BY <3>1, <3>2
  <2> QED
    BY <2>4, <2>5, <2>6
<1>7. plan = done \o added
  BY <1>2, <1>3, <1>4 DEF AddRun
<1> HIDE DEF plan
<1>8. /\ DOMAIN plan = 1..N /\ \A n \in 1..base : n \in 1..N /\ plan[n] = done[n]
      /\ \A n \in (base + 1)..N : plan[n] = BatchAt(commands, n)
  <2> HIDE DEF added, B
  <2>1. done \in Seq(S \cup B) /\ added \in Seq(S \cup B)
    <3>1. S \subseteq S \cup B /\ B \subseteq S \cup B
      OBVIOUS
    <3> QED
      BY <1>6, <3>1, SeqMonotonic
  <2>2. /\ DOMAIN plan = 1..(base + d)
        /\ \A n \in 1..base : plan[n] = done[n]
        /\ \A i \in 1..d : plan[base + i] = added[i]
    <3>1. /\ done \o added \in Seq(S \cup B)
          /\ Len(done \o added) = Len(done) + Len(added)
          /\ \A i \in 1..(Len(done) + Len(added)) : (done \o added)[i] =
               IF i <= Len(done) THEN done[i] ELSE added[i - Len(done)]
      BY <2>1, ConcatProperties
    <3>2. /\ Len(plan) = base + d /\ DOMAIN plan = 1..(base + d)
          /\ \A i \in 1..(base + d) : plan[i] = IF i <= base THEN done[i] ELSE added[i - base]
      BY <1>2, <1>7, <1>6, <3>1, LenProperties
    <3>3. /\ \A n \in 1..base : n \in 1..(base + d) /\ n <= base
          /\ \A i \in 1..d : base + i \in 1..(base + d) /\ ~(base + i <= base)
                             /\ (base + i) - base = i
      OBVIOUS
    <3> QED
      BY <3>2, <3>3
  <2>3. base + d = N /\ 1..base \subseteq 1..N
    BY <1>5, <1>d
  <2>4. ASSUME NEW n \in (base + 1)..N PROVE plan[n] = BatchAt(commands, n)
    <3>1. n - base \in 1..d /\ n - base \in 1..(last - base) /\ base + (n - base) = n
      BY <1>5, <1>d
    <3>2. added[n - base] = BatchAt(commands, base + (n - base))
      BY <3>1 DEF added
    <3> QED
      BY <2>2, <3>1, <3>2
  <2> QED
    BY <2>2, <2>3, <2>4
<1> HIDE DEF added, B
<1>9. \A n \in 1..N : Fielded(plan[n])
  <2>1. \A n \in 1..N : n \in 1..base \/ n \in (base + 1)..N
    OBVIOUS
  <2>2. \A n : Fielded(BatchAt(commands, n))
    BY BatchOfCommands
  <2> QED
    BY <1>2, <1>8, <2>1, <2>2 DEF InWaves
<1>10. ASSUME NEW n \in 1..N, NEW i \in DOMAIN plan[n].picks
       PROVE  /\ plan[n].picks[i].command \in 1..n
              /\ plan[n].picks[i].send <=> plan[n].picks[i].command = n
              /\ \A j \in DOMAIN plan[n].picks :
                   plan[n].picks[j].command = plan[n].picks[i].command
              /\ \A m \in plan[n].picks[i].command..n :
                   Has(plan[m], plan[n].picks[i].g, plan[n].picks[i].command)
  <2>1. CASE n \in 1..base
    <3>1. i \in DOMAIN done[n].picks /\ plan[n] = done[n]
      BY <1>8, <1>10, <2>1
    <3>2. PICK c : c = done[n].picks[i].command
      OBVIOUS
    <3>3. c \in 1..n /\ \A m \in c..n : Has(done[m], done[n].picks[i].g, c)
      BY <1>2, <2>1, <3>1, <3>2 DEF InWaves
    <3>4. \A m \in c..n : m \in 1..base
      BY <2>1, <3>3
    <3>5. \A m \in c..n : Has(plan[m], done[n].picks[i].g, c)
      BY <1>8, <3>3, <3>4
    <3>6. /\ done[n].picks[i].send <=> c = n
          /\ \A j \in DOMAIN done[n].picks : done[n].picks[j].command = c
      BY <1>2, <2>1, <3>1, <3>2 DEF InWaves
    <3> QED
      BY <3>1, <3>2, <3>3, <3>5, <3>6
  <2>2. CASE n \in (base + 1)..N
    <3>1. plan[n] = BatchAt(commands, n) /\ i \in DOMAIN BatchAt(commands, n).picks
      BY <1>8, <1>10, <2>2
    <3>2. PICK c : c = BatchAt(commands, n).picks[i].command
      OBVIOUS
    <3>3. /\ c \in (base + 1)..n
          /\ BatchAt(commands, n).picks[i].send <=> c = n
          /\ \A j \in DOMAIN BatchAt(commands, n).picks :
               BatchAt(commands, n).picks[j].command = c
          /\ \A m \in c..n : Has(BatchAt(commands, m), BatchAt(commands, n).picks[i].g, c)
      BY <1>3, <3>1, <3>2, PicksInWaves
    <3>4. c \in 1..n /\ \A m \in c..n : m \in (base + 1)..N
      BY <2>2, <3>3
    <3>5. \A m \in c..n : Has(plan[m], BatchAt(commands, n).picks[i].g, c)
      BY <1>8, <3>3, <3>4
    <3> QED
      BY <3>1, <3>2, <3>3, <3>4, <3>5
  <2>3. n \in 1..base \/ n \in (base + 1)..N
    OBVIOUS
  <2> QED
    BY <2>1, <2>2, <2>3
<1> QED
  BY <1>8, <1>9, <1>10 DEF InWaves, plan

(* The batches that are built. *)
LEMMA BuiltInWaves ==
  ASSUME Posed, TypeOK, InfosKnown, NEW S, NEW h, Builds(S, h)
  PROVE  InWaves(build_batches)
<1> DEFINE n == Len(Runs)
           T == {k \in Nat : k <= n => InWaves(h[k])}
<1>1. n \in Nat
  BY RunsForOneLine
<1>2. 0 \in T
  <2>1. h[0] = <<>> /\ DOMAIN <<>> = {}
    BY DEF Builds
  <2> QED
    BY <2>1 DEF InWaves
<1>3. ASSUME NEW k \in Nat, k \in T
      PROVE  k + 1 \in T
  <2> SUFFICES ASSUME k + 1 <= n PROVE InWaves(h[k + 1])
    OBVIOUS
  <2>1. k + 1 \in 1..n /\ (k + 1) - 1 = k /\ k \in 0..n /\ k <= n
    BY <1>1
  <2>2. h[k] \in Seq(S) /\ InWaves(h[k]) /\ h[k + 1] = AddRun(h[k], k + 1)
    BY <1>3, <2>1 DEF Builds
  <2> QED
    BY <2>1, <2>2, RunInWaves
<1> HIDE DEF T
<1>4. n \in T
  BY ONLY <1>1, <1>2, <1>3, SetInduction
<1> QED
  BY <1>1, <1>4 DEF T, Builds

(* Going on with boxes held in the grippers keeps the waves apart. *)
LEMMA PlanApart ==
  ASSUME NEW S, NEW plan \in Seq(S), InWaves(plan)
  PROVE  Apart(reuse_consecutive_physical_picks(plan).batches)
<1> DEFINE n == Len(plan)
           h == CHOOSE f : Reuses(plan, f, n)
<1>1. n \in Nat /\ DOMAIN plan = 1..n
  BY LenProperties
<1>2. reuse_consecutive_physical_picks(plan).batches = PlaceCounts(h[n].batches)
  BY DEF reuse_consecutive_physical_picks, Reuses, Fresh
<1>3. Reuses(plan, h, n)
  BY <1>1, ReusesExists
<1> HIDE DEF h
<1>4. \A k \in 0..n : h[k] = IF k = 0 THEN Fresh(plan) ELSE ReuseBatch(h[k - 1], k)
  BY <1>3 DEF Reuses
<1> DEFINE T == {k \in Nat : k <= n => Reused(plan, h[k], k)}
<1>5. 0 \in T
  <2>1. h[0] = Fresh(plan)
    <3>1. 0 \in 0..n
      BY <1>1
    <3> QED
      BY <1>4, <3>1
  <2>2. /\ DOMAIN Fresh(plan) = {"batches", "active", "lost"} /\ Fresh(plan).batches = plan
        /\ DOMAIN Fresh(plan).active = {}
    BY DEF Fresh
  <2>3. Gone(plan, plan, 0)
    <3>1. 1..0 = {}
      OBVIOUS
    <3> QED
      BY <3>1 DEF Gone, InWaves
  <2>4. Waiting(Fresh(plan).active, plan, 0)
    BY <2>2 DEF Waiting
  <2> QED
    BY <2>1, <2>2, <2>3, <2>4 DEF Reused
<1>6. ASSUME NEW k \in Nat, k \in T
      PROVE  k + 1 \in T
  <2> SUFFICES ASSUME k + 1 <= n PROVE Reused(plan, h[k + 1], k + 1)
    OBVIOUS
  <2>1. k + 1 \in 0..n /\ k + 1 # 0 /\ (k + 1) - 1 = k /\ k <= n /\ k < n
    BY <1>1
  <2>2. h[k + 1] = ReuseBatch(h[k], k + 1) /\ Reused(plan, h[k], k)
    BY <1>4, <1>6, <2>1
  <2> QED
    BY <1>1, <2>1, <2>2, ReuseStep
<1> HIDE DEF T
<1>7. n \in T
  BY ONLY <1>1, <1>5, <1>6, SetInduction
<1>8. Gone(plan, h[n].batches, n)
  BY <1>1, <1>7 DEF T, Reused
<1> QED
  BY <1>1, <1>2, <1>8, CountedApart

(* The inductive invariant: every info is for the line of its package, and the *)
(* waves of the plan that was built do not overlap.                            *)
WaveInv == SearchInv /\ InfosKnown /\ WavesDoNotOverlap

(* Every step keeps it. *)
LEMMA WavesKept == WaveInv /\ [Next]_vars => WaveInv'
<1> SUFFICES ASSUME Posed, TypeOK, BoxesAccountedFor, InfosKnown, WavesDoNotOverlap, [Next]_vars
             PROVE  SearchInv' /\ InfosKnown' /\ WavesDoNotOverlap'
  BY DEF WaveInv, SearchInv
<1>1. SearchInv'
  BY SearchKept DEF SearchInv
<1>2. InfosKnown'
  BY InfosStayKnown
<1>3. CASE BuildPlan
  <2>1. batches' = reuse_consecutive_physical_picks(build_batches).batches
    BY <1>3 DEF BuildPlan
  <2>2. PICK S, h : Builds(S, h)
    BY BatchesBuilt
  <2>3. build_batches \in Seq(S)
    <3>1. Len(Runs) \in 0..Len(Runs)
      BY RunsForOneLine
    <3> QED
      BY <2>2, <3>1 DEF Builds
  <2>4. Apart(batches')
    BY <2>1, <2>2, <2>3, BuiltInWaves, PlanApart
  <2> QED
    BY <1>1, <1>2, <2>4 DEF Apart, WavesDoNotOverlap
<1>4. CASE ~BuildPlan
  <2>1. batches' = batches
    BY <1>4 DEF Next, Over, SelectPackage, TakeOwnBlocker, ShiftBackGoods, AdjustLocation,
                Unplanned, Unschedulable, given, vars
  <2> QED
    BY <1>1, <1>2, <2>1 DEF WavesDoNotOverlap
<1> QED
  BY <1>3, <1>4

(* While a gripper still drops the boxes of one command, batch after batch, no *)
(* other command is sent: the boxes stand in a gripper until they are dropped, *)
(* and a command would be lost on it.  The waves of a run follow each other,   *)
(* and going on with boxes held in the grippers only makes waves longer into   *)
(* batches that send nothing.                                                  *)
THEOREM WavesDoNotOverlapHolds == Spec => []WavesDoNotOverlap
<1>1. Init => WaveInv
  <2> SUFFICES ASSUME Init PROVE SearchInv /\ InfosKnown /\ WavesDoNotOverlap
    BY DEF WaveInv
  <2>1. infos = <<>> /\ batches = <<>>
    BY DEF Init
  <2> QED
    BY <2>1, SearchStarts DEF InfosKnown, WavesDoNotOverlap
<1>2. WaveInv => WavesDoNotOverlap
  BY DEF WaveInv
<1> QED
  BY <1>1, <1>2, WavesKept, PTL DEF Spec

-----------------------------------------------------------------------------
(* The boxes of a package reach the line together *)

(* The members of a set that are kept in order. *)
LEMMA AmountInOrder ==
  ASSUME NEW S, NEW list \in Seq(S), NEW set, NEW T
  PROVE  Amount(InOrder(list, set), T) = Amount(list, set \cap T)
<1> DEFINE n == Len(list) P(m) == SubSeq(list, 1, m)
<1>1. PICK f : Keeps(list, set, f) /\ InOrder(list, set) = f[n]
  BY InOrderKeeps
<1>2. \A i \in 0..n :
        f[i] = IF i = 0 THEN <<>>
               ELSE IF list[i] \in set THEN Append(f[i - 1], list[i]) ELSE f[i - 1]
  BY <1>1 DEF Keeps
<1>3. n \in Nat /\ \A i \in 1..n : list[i] \in S
  OBVIOUS
<1> DEFINE Good(i) == f[i] \in Seq(S) /\ Amount(f[i], T) = Amount(P(i), set \cap T)
           U == {i \in Nat : i <= n => Good(i)}
<1>4. 0 \in U
  <2>1. f[0] = <<>> /\ P(0) = <<>>
    BY <1>2, <1>3
  <2>2. <<>> \in Seq(S) /\ Amount(<<>>, T) = 0 /\ Amount(<<>>, set \cap T) = 0
    BY AmountOne, RangeEmpty
  <2> HIDE DEF P
  <2> QED
    BY <2>1, <2>2
<1>5. ASSUME NEW i \in Nat, i \in U
      PROVE  i + 1 \in U
  <2> SUFFICES ASSUME i + 1 <= n PROVE Good(i + 1)
    OBVIOUS
  <2>1. P(i) \in Seq(S) /\ list[i + 1] \in S /\ P(i + 1) = Append(P(i), list[i + 1])
    BY PrefixSplits
  <2>2. i + 1 \in 0..n /\ i + 1 # 0 /\ (i + 1) - 1 = i /\ Good(i)
    BY <1>3, <1>5
  <2> HIDE DEF P
  <2>3. PICK e \in S : e = list[i + 1]
    BY <2>1
  <2>4. f[i + 1] = IF e \in set THEN Append(f[i], e) ELSE f[i]
    BY <1>2, <2>2, <2>3
  <2>5. \A s \in Seq(S) : Append(s, e) = s \o <<e>> /\ <<e>> \in Seq(S) /\ s \o <<e>> \in Seq(S)
    OBVIOUS
  <2>6. \A s \in Seq(S) : \A V : /\ Amount(s \o <<e>>, V) = Amount(s, V) + Amount(<<e>>, V)
                                 /\ Amount(s, V) \in Nat
    <3> SUFFICES ASSUME NEW s \in Seq(S), NEW V
                 PROVE  /\ Amount(s \o <<e>>, V) = Amount(s, V) + Amount(<<e>>, V)
                        /\ Amount(s, V) \in Nat
      OBVIOUS
    <3>1. <<e>> \in Seq(S)
      BY <2>5
    <3>2. Amount(s \o <<e>>, V) = Amount(s, V) + Amount(<<e>>, V)
      BY <3>1, AmountConcat
    <3>3. Amount(s, V) \in Nat
      BY PlacesFinite
    <3> QED
      BY <3>2, <3>3
  <2>7. \A V : Amount(<<e>>, V) = IF e \in V THEN 1 ELSE 0
    BY AmountOne
  <2>8. Amount(P(i + 1), set \cap T) = Amount(P(i), set \cap T) + Amount(<<e>>, set \cap T)
    <3>1. PICK p \in Seq(S) : p = P(i)
      BY <2>1
    <3>2. P(i + 1) = p \o <<e>>
      BY <2>1, <2>3, <2>5, <3>1
    <3>3. Amount(p \o <<e>>, set \cap T) = Amount(p, set \cap T) + Amount(<<e>>, set \cap T)
      BY <2>6
    <3> QED
      BY <3>1, <3>2, <3>3
  <2>9. CASE e \in set
    <3>1. f[i + 1] = f[i] \o <<e>> /\ f[i] \o <<e>> \in Seq(S)
      BY <2>2, <2>4, <2>5, <2>9
    <3>2. Amount(f[i] \o <<e>>, T) = Amount(f[i], T) + Amount(<<e>>, T)
      BY <2>2, <2>6
    <3>3. Amount(<<e>>, T) = Amount(<<e>>, set \cap T)
      BY <2>7, <2>9
    <3> QED
      BY <2>2, <2>8, <3>1, <3>2, <3>3
  <2>10. CASE e \notin set
    <3>1. Amount(<<e>>, set \cap T) = 0
      BY <2>7, <2>10
    <3>2. Amount(P(i), set \cap T) \in Nat
      BY <2>1, <2>6
    <3> QED
      BY <2>2, <2>4, <2>8, <2>10, <3>1, <3>2
  <2> QED
    BY <2>9, <2>10
<1> HIDE DEF U, P, Good
<1>6. n \in U
  BY ONLY <1>3, <1>4, <1>5, SetInduction
<1>7. Good(n) /\ P(n) = list
  <2>1. P(n) = list
    BY DEF P
  <2> QED
    BY <1>3, <1>6, <2>1 DEF U
<1> QED
  BY <1>1, <1>7 DEF Good


(* A box with the package it is for; the boxes of a batch, in their order. *)
Box == (DOMAIN packages) \X Sku
BoxesIn(batch) ==
  [i \in DOMAIN batch.picks |-> <<batch.picks[i].package, batch.picks[i].items[1]>>]

(* Every pick of a batch drops one box. *)
Dropping(batch) ==
  /\ "picks" \in DOMAIN batch /\ BoxesIn(batch) \in Seq(Box)
  /\ \A i \in DOMAIN batch.picks :
       /\ {"package", "items"} \subseteq DOMAIN batch.picks[i]
       /\ batch.picks[i].items = <<batch.picks[i].items[1]>>

(* The box a command drops in a batch, and the commands that drop some box. *)
Dropped(c, n) == <<c.package, c.pick.planned[n - c.first + 1]>>
Falls(commands, n, v) ==
  {k \in 1..Len(commands) : n \in commands[k].first..LastDrop(commands[k])
                            /\ Dropped(commands[k], n) = v}

(* The parts of a command, and what it drops in its batches. *)
LEMMA CommandParts ==
  ASSUME NEW l, NEW c \in Command(l)
  PROVE  /\ c.package \in DOMAIN packages /\ c.first \in Nat /\ c.first # 0
         /\ c.pick.planned \in Seq(Sku) /\ Len(c.pick.planned) \in Nat
         /\ global_gripper_id(c.pick.loc) \in 1..6
         /\ \A n \in c.first..LastDrop(c) :
              n - c.first + 1 \in 1..Len(c.pick.planned) /\ Dropped(c, n) \in Box
<1>1. /\ c.pick \in Pick /\ IsFront(c.pick.loc) /\ c.package \in DOMAIN packages
      /\ c.first \in Nat /\ c.first # 0
  BY DEF Command
<1>2. c.pick.loc \in Location /\ c.pick.planned \in Seq(Sku)
  BY <1>1, PickParts
<1>3. global_gripper_id(c.pick.loc) \in 1..6
  BY <1>1, <1>2, GripperOfSlot DEF Gripper
<1>4. ASSUME NEW n \in c.first..LastDrop(c)
      PROVE  n - c.first + 1 \in 1..Len(c.pick.planned) /\ Dropped(c, n) \in Box
  <2>1. n - c.first + 1 \in 1..Len(c.pick.planned)
    BY <1>1, <1>2 DEF LastDrop
  <2>2. c.pick.planned[n - c.first + 1] \in Sku
    BY <1>2, <2>1, ElementOfSeq
  <2> QED
    BY <1>1, <2>1, <2>2 DEF Dropped, Box
<1> QED
  BY <1>1, <1>2, <1>3, <1>4, LenProperties

(* A batch drops what the commands drop in it. *)
LEMMA BatchDrops ==
  ASSUME NEW l, NEW commands \in Seq(Command(l)), NEW n \in Nat, NEW v
  PROVE  /\ Dropping(BatchAt(commands, n))
         /\ IsFiniteSet(Falls(commands, n, v))
         /\ Amount(BoxesIn(BatchAt(commands, n)), {v}) = Cardinality(Falls(commands, n, v))
<1> DEFINE here == {c \in ToSet(commands) : n \in c.first..(c.first + Len(c.pick.planned) - 1)}
           Of(g) == {c \in here : global_gripper_id(c.pick.loc) = g}
           rows == [g \in Gripper |-> InOrder(commands, Of(g))]
           sorted == FlattenSeq(rows)
           picks == [i \in DOMAIN sorted |-> Action(sorted[i], n)]
           batch == BatchAt(commands, n)
           T == {c \in Command(l) : Dropped(c, n) = v}
           f == [r \in DOMAIN rows |-> Places(rows[r], T)]
           h == [r \in 1..6 |-> Places(commands, Of(r) \cap T)]
           F == Falls(commands, n, v)
<1>1. batch.picks = picks /\ "picks" \in DOMAIN batch
  BY DEF BatchAt
<1>2. here = {c \in Range(commands) : n \in c.first..LastDrop(c)}
  BY SetOfRange DEF LastDrop
<1>3. \A g : InOrder(commands, Of(g)) \in Seq(Command(l))
  BY InOrderElements
<1>4. /\ rows \in Seq(Seq(Command(l))) /\ Len(rows) = 6 /\ DOMAIN rows = 1..6
      /\ \A g \in 1..6 : rows[g] = InOrder(commands, Of(g))
  <2> HIDE DEF Of
  <2> QED
    BY <1>3 DEF Gripper
<1>5. \A g : Range(InOrder(commands, Of(g))) = Range(commands) \cap Of(g)
  BY InOrderElements
<1> HIDE DEF batch, rows, here
<1>6. /\ sorted \in Seq(Command(l))
      /\ \A c \in Range(sorted) : \E g \in 1..6 : c \in Range(rows[g])
  BY <1>4, FlattenType, FlattenRange
<1>7. PICK m \in Nat : DOMAIN sorted = 1..m /\ m = Len(sorted)
  BY <1>6, LenProperties
<1>8. ASSUME NEW i \in 1..m
      PROVE  sorted[i] \in Command(l) /\ n \in sorted[i].first..LastDrop(sorted[i])
  <2>1. sorted[i] \in Command(l) /\ sorted[i] \in Range(sorted)
    BY <1>6, <1>7, ElementOfSeq DEF Range
  <2>2. PICK g \in 1..6 : sorted[i] \in Range(rows[g])
    BY <1>6, <2>1
  <2>3. sorted[i] \in Range(InOrder(commands, Of(g)))
    BY <1>4, <2>2
  <2>4. sorted[i] \in Of(g)
    BY ONLY <1>5, <2>3
  <2>5. sorted[i] \in here
    BY <2>4
  <2> QED
    BY <1>2, <2>1, <2>5
<1> HIDE DEF sorted
<1>9. /\ DOMAIN picks = 1..m
      /\ \A i \in 1..m : /\ {"package", "items"} \subseteq DOMAIN picks[i]
                         /\ picks[i].package = sorted[i].package
                         /\ picks[i].items = <<Dropped(sorted[i], n)[2]>>
                         /\ <<picks[i].package, picks[i].items[1]>> = Dropped(sorted[i], n)
  BY <1>7 DEF Action, Dropped
<1> HIDE DEF picks
<1>10. BoxesIn(batch) = [i \in 1..m |-> Dropped(sorted[i], n)]
  BY <1>1, <1>9 DEF BoxesIn
<1>11. \A i \in 1..m : Dropped(sorted[i], n) \in Box
  BY <1>8, CommandParts
<1>12. Dropping(batch)
  <2>1. BoxesIn(batch) \in Seq(Box)
    BY <1>10, <1>11
  <2>2. \A i \in 1..m : picks[i].items = <<picks[i].items[1]>>
    BY <1>9
  <2> QED
    BY <1>1, <1>9, <2>1, <2>2 DEF Dropping
<1>13. Places(BoxesIn(batch), {v}) = Places(sorted, T)
  <2>1. \A i \in 1..m : Dropped(sorted[i], n) \in {v} <=> sorted[i] \in T
    BY <1>8
  <2> QED
    BY <1>7, <1>10, <2>1 DEF Places
<1>14. Amount(sorted, T) = Cardinality(Spread(f, 6))
  BY <1>4, AmountFlatten DEF sorted
<1>15. \A r \in 1..6 : /\ IsFiniteSet(f[r]) /\ IsFiniteSet(h[r])
                       /\ Cardinality(f[r]) = Cardinality(h[r])
  <2> SUFFICES ASSUME NEW r \in 1..6
               PROVE  /\ IsFiniteSet(f[r]) /\ IsFiniteSet(h[r])
                      /\ Cardinality(f[r]) = Cardinality(h[r])
    OBVIOUS
  <2>1. f[r] = Places(InOrder(commands, Of(r)), T) /\ h[r] = Places(commands, Of(r) \cap T)
    BY <1>4
  <2> HIDE DEF f, h, T, Of
  <2>2. IsFiniteSet(f[r]) /\ IsFiniteSet(h[r])
    BY <1>3, <2>1, PlacesFinite
  <2>3. Amount(InOrder(commands, Of(r)), T) = Amount(commands, Of(r) \cap T)
    BY AmountInOrder
  <2> QED
    BY <2>1, <2>2, <2>3 DEF Amount
<1> HIDE DEF f
<1>16. Cardinality(Spread(f, 6)) = Cardinality(Spread(h, 6))
  BY <1>15, SpreadEqual
<1>17. IsFiniteSet(Spread(h, 6))
  <2>1. 6 \in 0..6 /\ 6 \in Nat
    OBVIOUS
  <2> HIDE DEF h
  <2> QED
    BY <1>15, <2>1, SpreadAdds
<1> DEFINE a == [x \in Spread(h, 6) |-> x[2]]
           b == [k \in F |-> <<global_gripper_id(commands[k].pick.loc), k>>]
<1>18. \A k \in 1..Len(commands) :
         /\ commands[k] \in Command(l) /\ commands[k] \in Range(commands)
         /\ global_gripper_id(commands[k].pick.loc) \in 1..6
  <2>1. \A k \in 1..Len(commands) : commands[k] \in Command(l) /\ k \in DOMAIN commands
    BY ElementOfSeq
  <2> QED
    BY <2>1, CommandParts DEF Range
<1>19. \A r \in 1..6 : \A k : k \in h[r] <=> k \in F /\ global_gripper_id(commands[k].pick.loc) = r
  <2> SUFFICES ASSUME NEW r \in 1..6, NEW k
               PROVE  k \in h[r] <=> k \in F /\ global_gripper_id(commands[k].pick.loc) = r
    OBVIOUS
  <2>1. k \in h[r] <=> k \in 1..Len(commands) /\ commands[k] \in Of(r) \cap T
    BY DEF Places
  <2> QED
    BY <1>2, <1>18, <2>1 DEF Falls
<1>20. \A x : x \in Spread(h, 6) <=>
                \E k \in F : x = <<global_gripper_id(commands[k].pick.loc), k>>
  <2> HIDE DEF h
  <2>1. \A x : x \in Spread(h, 6) <=> \E r \in 1..6 : \E k \in h[r] : x = <<r, k>>
    BY SpreadMembers
  <2>2. \A k \in F : global_gripper_id(commands[k].pick.loc) \in 1..6
    BY <1>18 DEF Falls
  <2> HIDE DEF F
  <2> QED
    BY <1>19, <2>1, <2>2
<1> HIDE DEF h, F
<1>21. a \in [Spread(h, 6) -> F] /\ b \in [F -> Spread(h, 6)]
  BY <1>20
<1>22. (\A x \in Spread(h, 6) : b[a[x]] = x) /\ \A k \in F : a[b[k]] = k
  BY <1>20
<1> HIDE DEF a, b
<1>23. IsFiniteSet(F) /\ Cardinality(Spread(h, 6)) = Cardinality(F)
  BY <1>17, <1>21, <1>22, AsMany
<1>24. Amount(BoxesIn(batch), {v}) = Cardinality(F)
  BY <1>13, <1>14, <1>16, <1>23 DEF Amount
<1> QED
  BY <1>12, <1>23, <1>24 DEF F, batch

(* The boxes of a command. *)
Drops(c) == [j \in DOMAIN c.pick.planned |-> <<c.package, c.pick.planned[j]>>]

(* The boxes of batches one after the other, and where commands drop a box. *)
BatchRows(commands, base, last) ==
  [i \in 1..(last - base) |-> BoxesIn(BatchAt(commands, base + i))]
CommandPlaces(commands, v) == [k \in 1..Len(commands) |-> Places(Drops(commands[k]), {v})]
CommandSpread(commands, v) == Spread(CommandPlaces(commands, v), Len(commands))

(* The batches of a run drop the boxes of its commands. *)
LEMMA RunDrops ==
  ASSUME NEW l, NEW commands, commands \in Seq(Command(l)), NEW base \in Nat,
         NEW last \in Nat, base <= last,
         \A k \in 1..Len(commands) :
           base < commands[k].first /\ LastDrop(commands[k]) <= last, NEW v
  PROVE  /\ BatchRows(commands, base, last) \in Seq(Seq(Box))
         /\ Amount(FlattenSeq(BatchRows(commands, base, last)), {v})
              = Cardinality(CommandSpread(commands, v))
<1> SUFFICES ASSUME NEW rows, rows = [i \in 1..(last - base) |->
                                       BoxesIn(BatchAt(commands, base + i))],
                    NEW h, h = [k \in 1..Len(commands) |-> Places(Drops(commands[k]), {v})]
             PROVE  /\ rows \in Seq(Seq(Box))
                    /\ Amount(FlattenSeq(rows), {v}) = Cardinality(Spread(h, Len(commands)))
  BY DEF BatchRows, CommandPlaces, CommandSpread
<1> DEFINE n == Len(commands)
           f == [i \in DOMAIN rows |-> Places(rows[i], {v})]
           u(k) == commands[k].first - base
           L(k) == Len(commands[k].pick.planned)
           D(k, j) == <<commands[k].package, commands[k].pick.planned[j]>>
<1>1. PICK m \in Nat : m = last - base
  OBVIOUS
<1> DEFINE g == [i \in 1..m |-> Falls(commands, base + i, v)]
<1>2. ASSUME NEW i \in 1..m
      PROVE  /\ rows[i] = BoxesIn(BatchAt(commands, base + i)) /\ rows[i] \in Seq(Box)
             /\ g[i] = Falls(commands, base + i, v) /\ IsFiniteSet(g[i])
             /\ Amount(rows[i], {v}) = Cardinality(g[i])
  <2>1. base + i \in Nat /\ rows[i] = BoxesIn(BatchAt(commands, base + i))
    BY <1>1
  <2>2. /\ Dropping(BatchAt(commands, base + i))
        /\ IsFiniteSet(Falls(commands, base + i, v))
        /\ Amount(BoxesIn(BatchAt(commands, base + i)), {v})
             = Cardinality(Falls(commands, base + i, v))
    BY <2>1, BatchDrops
  <2> QED
    BY <2>1, <2>2 DEF Dropping
<1>3. rows \in Seq(Seq(Box)) /\ Len(rows) = m /\ DOMAIN rows = 1..m
  <2>1. rows = [i \in 1..m |-> rows[i]]
    BY <1>1
  <2>2. \A i \in 1..m : rows[i] \in Seq(Box)
    BY <1>2
  <2> QED
    BY ONLY <2>1, <2>2, RowType, m \in Nat
<1>4. \A i \in 1..m : IsFiniteSet(f[i]) /\ Cardinality(f[i]) = Cardinality(g[i])
  <2> SUFFICES ASSUME NEW i \in 1..m
               PROVE  IsFiniteSet(f[i]) /\ Cardinality(f[i]) = Cardinality(g[i])
    OBVIOUS
  <2>1. f[i] = Places(rows[i], {v})
    BY <1>3
  <2>2. IsFiniteSet(Places(rows[i], {v}))
    BY <1>2, PlacesFinite
  <2> QED
    BY <1>2, <2>1, <2>2 DEF Amount
<1>5. Amount(FlattenSeq(rows), {v}) = Cardinality(Spread(f, m))
  BY <1>3, AmountFlatten
<1> HIDE DEF f, g
<1>6. Cardinality(Spread(f, m)) = Cardinality(Spread(g, m)) /\ IsFiniteSet(Spread(g, m))
  <2>1. m \in 0..m
    OBVIOUS
  <2> QED
    BY <1>2, <1>4, <2>1, SpreadEqual, SpreadAdds
<1>7. ASSUME NEW k \in 1..n
      PROVE  /\ commands[k].first \in Nat /\ u(k) \in Nat /\ u(k) # 0 /\ L(k) \in Nat
             /\ u(k) + L(k) - 1 <= m /\ commands[k].pick.planned \in Seq(Sku)
             /\ DOMAIN commands[k].pick.planned = 1..L(k)
  <2>1. commands[k] \in Command(l) /\ base < commands[k].first /\ LastDrop(commands[k]) <= last
    BY ElementOfSeq
  <2>2. /\ commands[k].first \in Nat /\ L(k) \in Nat /\ commands[k].pick.planned \in Seq(Sku)
    BY <2>1, CommandParts
  <2>3. DOMAIN commands[k].pick.planned = 1..L(k)
    BY <2>2, LenProperties
  <2> QED
    <3>1. /\ commands[k].first \in Nat /\ u(k) = commands[k].first - base
          /\ commands[k].first + L(k) - 1 <= last
      BY <2>1, <2>2 DEF LastDrop
    <3>2. u(k) \in Nat /\ u(k) # 0 /\ u(k) + L(k) - 1 <= m
      <4>1. PICK x \in Nat : x = commands[k].first
        BY <3>1
      <4>2. PICK y \in Nat : y = L(k)
        BY <2>2
      <4>3. base < x /\ x + y - 1 <= last
        BY <2>1, <3>1, <4>1, <4>2
      <4>4. x - base \in Nat /\ x - base # 0 /\ (x - base) + y - 1 <= m
        BY ONLY <1>1, <4>3, base \in Nat, last \in Nat, m \in Nat, x \in Nat, y \in Nat
      <4> QED
        BY <4>1, <4>2, <4>4
    <3> QED
      BY <2>2, <2>3, <3>2
<1>8. \A k \in 1..n : \A j : j \in h[k] <=> j \in 1..L(k) /\ D(k, j) = v
  <2> SUFFICES ASSUME NEW k \in 1..n, NEW j
               PROVE  j \in h[k] <=> j \in 1..L(k) /\ D(k, j) = v
    OBVIOUS
  <2> QED
    BY <1>7 DEF Places, Drops
<1>9. \A i \in 1..m : \A k : k \in g[i] <=>
        k \in 1..n /\ i - u(k) + 1 \in 1..L(k) /\ D(k, i - u(k) + 1) = v
  <2> SUFFICES ASSUME NEW i \in 1..m, NEW k \in 1..n
               PROVE  k \in g[i] <=> i - u(k) + 1 \in 1..L(k) /\ D(k, i - u(k) + 1) = v
    BY <1>2 DEF Falls
  <2>1. k \in g[i] <=> base + i \in commands[k].first..LastDrop(commands[k])
                       /\ Dropped(commands[k], base + i) = v
    BY <1>2 DEF Falls
  <2>2. (base + i) - commands[k].first + 1 = i - u(k) + 1
    BY <1>7
  <2>3. base + i \in commands[k].first..LastDrop(commands[k]) <=> i - u(k) + 1 \in 1..L(k)
    <3>1. PICK x, c \in Nat : x = commands[k].first /\ c = L(k) /\ u(k) = x - base
      BY <1>7
    <3>2. LastDrop(commands[k]) = x + c - 1
      BY <3>1 DEF LastDrop
    <3> HIDE DEF u, L
    <3>3. base + i \in x..(x + c - 1) <=> i - (x - base) + 1 \in 1..c
      BY ONLY x \in Nat, c \in Nat, base \in Nat, i \in 1..m, m \in Nat
    <3> QED
      BY <3>1, <3>2, <3>3
  <2>4. Dropped(commands[k], base + i)
          = <<commands[k].package, commands[k].pick.planned[(base + i) - commands[k].first + 1]>>
    BY DEF Dropped
  <2>5. Dropped(commands[k], base + i) = D(k, i - u(k) + 1)
    <3> HIDE DEF u
    <3> QED
      BY <2>2, <2>4
  <2> QED
    BY <2>1, <2>3, <2>5
<1> HIDE DEF u, L, D
<1>10. \A x : x \in Spread(g, m) <=> \E i \in 1..m : \E k \in g[i] : x = <<i, k>>
  BY SpreadMembers
<1>11. \A y : y \in Spread(h, n) <=> \E k \in 1..n : \E j \in h[k] : y = <<k, j>>
  BY ONLY SpreadMembers
<1> HIDE DEF n
<1> DEFINE a == [x \in Spread(g, m) |-> <<x[2], x[1] - u(x[2]) + 1>>]
           b == [y \in Spread(h, n) |-> <<u(y[1]) + y[2] - 1, y[1]>>]
<1>12. ASSUME NEW x \in Spread(g, m)
       PROVE  a[x] \in Spread(h, n) /\ b[a[x]] = x
  <2>1. PICK i \in 1..m : \E k \in g[i] : x = <<i, k>>
    BY <1>10
  <2>a. PICK k \in g[i] : x = <<i, k>>
    BY <2>1
  <2>2. k \in 1..n /\ i - u(k) + 1 \in 1..L(k) /\ D(k, i - u(k) + 1) = v
    BY <1>9
  <2>3. PICK j \in 1..L(k) : j = i - u(k) + 1 /\ D(k, j) = v
    BY <2>2
  <2>4. a[x] = <<k, j>>
    BY <2>a, <2>3
  <2>5. <<k, j>> \in Spread(h, n)
    BY <1>8, <1>11, <2>2, <2>3
  <2>6. b[<<k, j>>] = <<u(k) + j - 1, k>>
    BY <2>5
  <2>7. u(k) + j - 1 = i
    BY <1>7, <2>2, <2>3
  <2> QED
    BY <2>a, <2>4, <2>5, <2>6, <2>7
<1>13. ASSUME NEW y \in Spread(h, n)
       PROVE  b[y] \in Spread(g, m) /\ a[b[y]] = y
  <2>1. PICK k \in 1..n : \E j \in h[k] : y = <<k, j>>
    BY <1>11
  <2>a. PICK j \in h[k] : y = <<k, j>>
    BY <2>1
  <2>2. j \in 1..L(k) /\ D(k, j) = v
    BY <1>8
  <2>b. PICK x, c \in Nat : x = u(k) /\ c = L(k) /\ x # 0 /\ x + c - 1 <= m
    BY <1>7
  <2>c. j \in 1..c
    BY <2>2, <2>b
  <2>d. x + j - 1 \in 1..m /\ (x + j - 1) - x + 1 = j
    BY ONLY x \in Nat, c \in Nat, m \in Nat, <2>b, <2>c
  <2>3. PICK i \in 1..m : i = u(k) + j - 1 /\ i - u(k) + 1 = j
    BY <2>b, <2>d
  <2>4. b[y] = <<i, k>>
    BY <2>a, <2>3
  <2>5. <<i, k>> \in Spread(g, m)
    BY <1>9, <1>10, <2>2, <2>3
  <2>6. a[<<i, k>>] = <<k, j>>
    BY <2>3, <2>5
  <2> QED
    BY <2>a, <2>4, <2>5, <2>6
<1>14. a \in [Spread(g, m) -> Spread(h, n)] /\ b \in [Spread(h, n) -> Spread(g, m)]
  BY <1>12, <1>13
<1> HIDE DEF a, b
<1>15. Cardinality(Spread(g, m)) = Cardinality(Spread(h, n))
  <2>1. \A x \in Spread(g, m) : b[a[x]] = x
    BY <1>12
  <2>2. \A y \in Spread(h, n) : a[b[y]] = y
    BY <1>13
  <2>3. IsFiniteSet(Spread(g, m))
    BY <1>6
  <2> QED
    BY ONLY <2>1, <2>2, <2>3, <1>14, AsMany
<1> QED
  BY <1>3, <1>5, <1>6, <1>15 DEF n

(* The boxes of an info, and those of the commands of a run. *)
InfoBoxes(info) ==
  Mapped([x \in Sku |-> <<info.package, x>>], planned_goods_from_slot_picks(info.picks))

(* Dropping the boxes of rows of picks, row by row or all together. *)
LEMMA TaggedDrops ==
  ASSUME NEW q, q \in Seq(Seq(Tagged)), NEW d, d = [t \in Tagged |-> Drops(t)],
         NEW r, r = [i \in DOMAIN q |-> FlattenSeq(Mapped(d, q[i]))]
  PROVE  /\ FlattenSeq(q) \in Seq(Tagged) /\ Mapped(d, FlattenSeq(q)) \in Seq(Seq(Box))
         /\ Len(Mapped(d, FlattenSeq(q))) = Len(FlattenSeq(q)) /\ r \in Seq(Seq(Box))
         /\ FlattenSeq(Mapped(d, FlattenSeq(q))) = FlattenSeq(r)
<1>1. \A t \in Tagged : /\ Drops(t) \in Seq(Box) /\ t.package \in DOMAIN packages
                        /\ t.pick.planned \in Seq(Sku)
  <2> SUFFICES ASSUME NEW t \in Tagged
               PROVE  /\ Drops(t) \in Seq(Box) /\ t.package \in DOMAIN packages
                      /\ t.pick.planned \in Seq(Sku)
    OBVIOUS
  <2>1. t.pick \in Pick /\ t.package \in DOMAIN packages
    BY DEF Tagged
  <2>2. t.pick.planned \in Seq(Sku)
    BY <2>1, PickParts
  <2>3. \A j \in DOMAIN t.pick.planned : <<t.package, t.pick.planned[j]>> \in Box
    BY <2>1, <2>2 DEF Box
  <2>4. Drops(t) \in Seq(Box)
    <3>1. PICK c \in Nat : DOMAIN t.pick.planned = 1..c
      BY <2>2, LenProperties
    <3>2. Drops(t) = [j \in 1..c |-> Drops(t)[j]] /\ \A j \in 1..c : Drops(t)[j] \in Box
      BY <2>3, <3>1 DEF Drops
    <3> QED
      BY ONLY <3>2, RowType, c \in Nat
  <2> QED
    BY <2>1, <2>2, <2>4
<1>2. d \in [Tagged -> Seq(Box)]
  BY <1>1
<1>3. PICK S, R : S = Tagged /\ R = Box
  OBVIOUS
<1>4. Into(d, S, Seq(R))
  BY <1>2, <1>3 DEF Into
<1>a. q \in Seq(Seq(S))
  BY <1>3
<1>5. FlattenSeq(q) \in Seq(S)
  BY ONLY <1>a, FlattenType
<1>6. /\ Mapped(d, FlattenSeq(q)) \in Seq(Seq(R))
      /\ Len(Mapped(d, FlattenSeq(q))) = Len(FlattenSeq(q))
  BY ONLY <1>4, <1>5, MappedType
<1>7. r \in Seq(Seq(R)) /\ FlattenSeq(Mapped(d, FlattenSeq(q))) = FlattenSeq(r)
  BY ONLY <1>4, <1>a, FlattenTwice, r = [i \in DOMAIN q |-> FlattenSeq(Mapped(d, q[i]))]
<1> QED
  BY <1>3, <1>5, <1>6, <1>7

(* Where infos take a box. *)
InfoPlaces(run, v) == [i \in 1..Len(run) |-> Places(InfoBoxes(run[i]), {v})]
InfoSpread(run, v) == Spread(InfoPlaces(run, v), Len(run))

(* The commands of a run drop the boxes of its infos. *)
LEMMA CommandBoxes ==
  ASSUME Posed, NEW l, NEW run, run \in Seq(InfosFor(l)), run # <<>>, NEW base \in Nat,
         NEW commands, commands = CommandsOf(run, base), NEW v
  PROVE  /\ \A i \in 1..Len(run) : InfoBoxes(run[i]) \in Seq(Box)
         /\ Cardinality(CommandSpread(commands, v)) = Cardinality(InfoSpread(run, v))
<1> SUFFICES ASSUME NEW h, h = [k \in 1..Len(commands) |-> Places(Drops(commands[k]), {v})],
                    NEW f, f = [i \in 1..Len(run) |-> Places(InfoBoxes(run[i]), {v})]
             PROVE  /\ \A i \in 1..Len(run) : InfoBoxes(run[i]) \in Seq(Box)
                    /\ Cardinality(Spread(h, Len(commands)))
                         = Cardinality(Spread(f, Len(run)))
  BY DEF CommandPlaces, CommandSpread, InfoPlaces, InfoSpread
<1> DEFINE q == TaggedRows(run)
           all == FlattenSeq(q)
           picks == [k \in DOMAIN all |-> all[k].pick]
           first(k) == base + WaveStart(picks, WaveOf(picks, k))
           d == [t \in Tagged |-> Drops(t)]
           r == [i \in DOMAIN q |-> FlattenSeq(Mapped(d, q[i]))]
<1>1. q \in Seq(Seq(Tagged)) /\ all \in Seq(Tagged)
  BY TaggedPicks
<1>2. commands = [k \in DOMAIN all |->
         [pick |-> all[k].pick, package |-> all[k].package, line |-> all[k].line,
          before |-> all[k].before, first |-> first(k)]]
  BY DEF CommandsOf, TaggedRows
<1> HIDE DEF all, first
<1>3. PICK n \in Nat : n = Len(all) /\ DOMAIN all = 1..n
  BY <1>1, LenProperties
<1>4. commands \in Seq(Command(l)) /\ DOMAIN commands = 1..n
  BY <1>2, <1>3, CommandsForOneLine
<1>5. Len(commands) = n
  BY <1>4
<1>6. r = [i \in DOMAIN q |-> FlattenSeq(Mapped(d, q[i]))] /\ all = FlattenSeq(q)
  BY DEF all
<1>7. /\ Mapped(d, all) \in Seq(Seq(Box)) /\ Len(Mapped(d, all)) = Len(all)
      /\ r \in Seq(Seq(Box)) /\ FlattenSeq(Mapped(d, all)) = FlattenSeq(r)
  <2>1. d = [t \in Tagged |-> Drops(t)]
    OBVIOUS
  <2>2. q \in Seq(Seq(Tagged))
    BY <1>1
  <2> HIDE DEF d, q, r
  <2> QED
    BY ONLY <1>6, <2>1, <2>2, TaggedDrops
<1>8. /\ Mapped(d, all) \in Seq(Seq(Box)) /\ Len(Mapped(d, all)) = n
      /\ DOMAIN Mapped(d, all) = 1..n
  <2>1. Mapped(d, all) \in Seq(Seq(Box)) /\ Len(Mapped(d, all)) = n
    BY <1>3, <1>7
  <2> HIDE DEF d
  <2> QED
    BY <2>1, LenProperties
<1>9. \A k \in 1..n : Mapped(d, all)[k] = Drops(commands[k])
  <2> SUFFICES ASSUME NEW k \in 1..n PROVE Mapped(d, all)[k] = Drops(commands[k])
    OBVIOUS
  <2>1. all[k] \in Tagged
    BY <1>1, <1>3, ElementOfSeq
  <2>2. Mapped(d, all)[k] = Drops(all[k])
    BY <1>3, <2>1 DEF Mapped
  <2>3. commands[k].pick = all[k].pick /\ commands[k].package = all[k].package
    BY <1>2, <1>3
  <2> QED
    BY <2>2, <2>3 DEF Drops
<1>10. Amount(FlattenSeq(Mapped(d, all)), {v}) = Cardinality(Spread(h, n))
  <2>1. h = [k \in DOMAIN Mapped(d, all) |-> Places(Mapped(d, all)[k], {v})]
    BY <1>5, <1>8, <1>9
  <2> QED
    BY <1>8, <2>1, AmountFlatten
<1>12. PICK m \in Nat : m = Len(run) /\ DOMAIN run = 1..m /\ DOMAIN q = 1..m
  BY LenProperties DEF TaggedRows
<1>13. ASSUME NEW i \in 1..m
       PROVE  r[i] = InfoBoxes(run[i])
  <2>1. PICK info \in InfosFor(l) : info = run[i]
    BY <1>12, ElementOfSeq
  <2>2. info.picks \in Seq(Pick) /\ info.package \in DOMAIN packages
    BY DEF InfosFor, Info
  <2>3. PICK c \in Nat : c = Len(info.picks) /\ DOMAIN info.picks = 1..c
    BY <2>2, LenProperties
  <2> DEFINE p == [x \in Sku |-> <<info.package, x>>]
             pl == [k \in DOMAIN info.picks |-> info.picks[k].planned]
             mp == [k \in DOMAIN pl |-> Mapped(p, pl[k])]
  <2>4. \A k \in 1..c : info.picks[k].planned \in Seq(Sku)
    BY <2>2, <2>3, PicksParts
  <2>5. pl \in Seq(Seq(Sku)) /\ DOMAIN pl = 1..c
    BY <2>3, <2>4
  <2>6. Into(p, Sku, {info.package} \X Sku)
    BY DEF Into
  <2>7. FlattenSeq(mp) = Mapped(p, FlattenSeq(pl))
    <3>1. mp = [k \in DOMAIN pl |-> Mapped(p, pl[k])] /\ pl \in Seq(Seq(Sku))
      BY <2>5
    <3> HIDE DEF mp, pl, p
    <3> QED
      BY ONLY <2>6, <3>1, FlattenMapped
  <2>8. q[i] \in Seq(Tagged) /\ DOMAIN q[i] = 1..c
        /\ \A k \in 1..c : q[i][k].pick = info.picks[k] /\ q[i][k].package = info.package
    <3>1. q[i] \in Seq(Tagged)
      BY <1>1, <1>12, ElementOfSeq
    <3>2. q[i] = [k \in DOMAIN info.picks |->
                   [pick |-> info.picks[k], package |-> info.package,
                    line |-> info.line,
                    before |-> IF k = 1 THEN info.before ELSE <<>>]]
      BY <1>12, <2>1 DEF TaggedRows
    <3>3. DOMAIN q[i] = 1..c
      BY <2>3, <3>2
    <3>4. \A k \in 1..c : q[i][k].pick = info.picks[k] /\ q[i][k].package = info.package
      BY <2>3, <3>2
    <3> HIDE DEF q
    <3> QED
      BY ONLY <3>1, <3>3, <3>4
  <2> HIDE DEF q
  <2>9. \A k \in 1..c : d[q[i][k]] = mp[k]
    <3> SUFFICES ASSUME NEW k \in 1..c PROVE d[q[i][k]] = mp[k]
      OBVIOUS
    <3>1. q[i][k] \in Tagged
      BY <2>8
    <3>2. d[q[i][k]] = Drops(q[i][k])
      BY <3>1
    <3>3. Drops(q[i][k]) = [j \in DOMAIN info.picks[k].planned |->
                              <<info.package, info.picks[k].planned[j]>>]
      BY <2>8 DEF Drops
    <3>4. mp[k] = [j \in DOMAIN info.picks[k].planned |->
                     <<info.package, info.picks[k].planned[j]>>]
      <4>1. \A j \in DOMAIN info.picks[k].planned : info.picks[k].planned[j] \in Sku
        BY <2>4
      <4>2. mp[k] = Mapped(p, info.picks[k].planned)
        BY <2>3
      <4> QED
        BY <4>1, <4>2 DEF Mapped
    <3> QED
      BY <3>2, <3>3, <3>4
  <2>10. Mapped(d, q[i]) = mp
    <3> HIDE DEF d
    <3>1. Mapped(d, q[i]) = [k \in 1..c |-> d[q[i][k]]]
      BY <2>8 DEF Mapped
    <3>2. mp = [k \in 1..c |-> mp[k]]
      BY <2>5
    <3> HIDE DEF mp
    <3> QED
      BY <2>9, <3>1, <3>2
  <2>11. r[i] = FlattenSeq(Mapped(d, q[i]))
    BY <1>12
  <2>12. Mapped(p, FlattenSeq(pl)) = InfoBoxes(info)
    BY DEF InfoBoxes, planned_goods_from_slot_picks
  <2> QED
    BY <2>1, <2>7, <2>10, <2>11, <2>12
<1> HIDE DEF q
<1>14. DOMAIN r = 1..m
  BY <1>12
<1> HIDE DEF r
<1>15. Len(r) = m
  BY <1>7, <1>14
<1>16. f = [i \in DOMAIN r |-> Places(r[i], {v})]
  BY <1>12, <1>13, <1>14
<1>17. Amount(FlattenSeq(r), {v}) = Cardinality(Spread(f, m))
  BY <1>7, <1>15, <1>16, AmountFlatten
<1>18. \A i \in 1..m : InfoBoxes(run[i]) \in Seq(Box)
  BY <1>7, <1>13, <1>15, ElementOfSeq
<1> QED
  BY <1>5, <1>10, <1>7, <1>12, <1>17, <1>18

(* A run ends before the next info that starts one. *)
LEMMA RunSpan ==
  ASSUME infos \in Seq(Info), NEW i \in 1..Len(infos)
  PROVE  \E m \in i..Len(infos) :
           /\ Len(RunFrom(i)) = m - i + 1
           /\ \A k \in 1..(m - i + 1) : RunFrom(i)[k] = infos[i + k - 1]
           /\ \A j \in i..Len(infos) :
                j <= m <=> \A k \in (i + 1)..j : ~StartsRun(k)
<1> DEFINE n == Len(infos)
           J == {j \in i..n : \A k \in (i + 1)..j : ~StartsRun(k)}
<1>1. n \in Nat
  BY LenProperties
<1>2. J \in SUBSET (0..n) /\ i \in J
  BY <1>1
<1>3. Max(J) \in J /\ \A m \in J : m <= Max(J)
  BY <1>1, <1>2, GreatestNumber
<1>4. PICK m \in i..n : /\ m = Max(J) /\ \A k \in (i + 1)..m : ~StartsRun(k)
                        /\ \A j \in J : j <= m
  BY <1>3
<1> HIDE DEF J
<1>5. RunFrom(i) = SubSeq(infos, i, m)
  BY <1>4 DEF RunFrom, J
<1>6. /\ Len(SubSeq(infos, i, m)) = m - i + 1
      /\ \A k \in 1..(m - i + 1) : SubSeq(infos, i, m)[k] = infos[i + k - 1]
  <2>1. \A k \in i..m : k \in 1..n
    BY <1>1
  <2>2. i \in Nat /\ m \in Nat /\ i <= m
    BY <1>1
  <2> QED
    BY <2>1, <2>2, SubSeqProperties
<1>7. ASSUME NEW j \in i..n
      PROVE  j <= m <=> \A k \in (i + 1)..j : ~StartsRun(k)
  <2>1. ASSUME j <= m, NEW k \in (i + 1)..j PROVE ~StartsRun(k)
    <3>1. k \in (i + 1)..m
      BY <1>1, <2>1
    <3> QED
      BY <1>4, <3>1
  <2>2. ASSUME \A k \in (i + 1)..j : ~StartsRun(k) PROVE j <= m
    <3>1. j \in J
      BY <2>2 DEF J
    <3> QED
      BY <1>4, <3>1
  <2> QED
    BY <2>1, <2>2
<1> QED
  BY <1>4, <1>5, <1>6, <1>7

(* Every info is in exactly one run. *)
Holds(st, k, j) == j - st[k] + 1 \in 1..Len(Runs[k])
Starting(st) ==
  /\ \A k \in 1..Len(Runs) :
       /\ st[k] \in 1..Len(infos) /\ Len(Runs[k]) \in Nat
       /\ \A i \in 1..Len(Runs[k]) : /\ st[k] + i - 1 \in 1..Len(infos)
                                     /\ Runs[k][i] = infos[st[k] + i - 1]
  /\ \A j \in 1..Len(infos) : \E k \in 1..Len(Runs) : Holds(st, k, j)
  /\ \A j \in 1..Len(infos) : \A k, l \in 1..Len(Runs) :
       Holds(st, k, j) /\ Holds(st, l, j) => k = l

(* The runs cut the infos into pieces that cover all of them. *)
LEMMA RunsCoverInfos ==
  ASSUME infos \in Seq(Info)
  PROVE  Len(Runs) \in Nat /\ \E st : Starting(st)
<1> DEFINE n == Len(infos)
           ids == [i \in DOMAIN infos |-> i]
           U == {i \in DOMAIN infos : StartsRun(i)}
           st == InOrder(ids, U)
<1>1. n \in Nat /\ DOMAIN infos = 1..n
  BY LenProperties
<1>2. ids \in Seq(1..n) /\ Len(ids) = n /\ DOMAIN ids = 1..n /\ \A i \in 1..n : ids[i] = i
  BY <1>1
<1>3. Range(ids) = 1..n
  BY <1>2 DEF Range
<1> HIDE DEF ids, U
<1>4. /\ st \in Seq(1..n) /\ Range(st) = Range(ids) \cap U
      /\ \A i, j \in 1..Len(st) : st[i] = st[j] => i = j
  <2>1. \A i, j \in 1..Len(ids) : ids[i] = ids[j] => i = j
    BY <1>2
  <2> QED
    BY ONLY <1>2, <2>1, InOrderElements
<1>5. Runs = [k \in DOMAIN st |-> RunFrom(st[k])]
  BY DEF Runs, ids, U
<1>6. Range(st) = {i \in 1..n : StartsRun(i)}
  BY <1>1, <1>3, <1>4 DEF U
<1> HIDE DEF st
<1>7. PICK K \in Nat : /\ K = Len(st) /\ DOMAIN st = 1..K
                       /\ \A k \in 1..K : st[k] \in 1..n /\ st[k] \in Range(st)
  BY <1>4, LenProperties, ElementOfSeq DEF Range
<1>8. Len(Runs) = K /\ \A k \in 1..K : Runs[k] = RunFrom(st[k])
  BY <1>5, <1>7
<1> DEFINE Ends(k, m) == /\ m \in st[k]..n /\ Len(Runs[k]) = m - st[k] + 1
                         /\ \A i \in 1..(m - st[k] + 1) : Runs[k][i] = infos[st[k] + i - 1]
                         /\ \A j \in st[k]..n : j <= m <=> \A i \in (st[k] + 1)..j : ~StartsRun(i)
<1>9. \A k \in 1..K : \E m : Ends(k, m)
  <2> SUFFICES ASSUME NEW k \in 1..K PROVE \E m : Ends(k, m)
    OBVIOUS
  <2>1. st[k] \in 1..n /\ Runs[k] = RunFrom(st[k])
    BY <1>7, <1>8
  <2> QED
    BY <2>1, RunSpan
<1>10. ASSUME NEW k \in 1..K
       PROVE  /\ Len(Runs[k]) \in Nat
              /\ \A i \in 1..Len(Runs[k]) : /\ st[k] + i - 1 \in 1..n
                                            /\ Runs[k][i] = infos[st[k] + i - 1]
              /\ \A j \in 1..n : Holds(st, k, j) <=>
                   st[k] <= j /\ \A i \in (st[k] + 1)..j : ~StartsRun(i)
  <2>1. PICK m : Ends(k, m)
    BY <1>9
  <2>2. st[k] \in 1..n /\ m \in st[k]..n /\ Len(Runs[k]) = m - st[k] + 1
    BY <1>7, <2>1
  <2>3. PICK a, b \in Nat : a = st[k] /\ b = m /\ a # 0 /\ a <= b /\ b <= n
    BY <1>1, <2>2
  <2>4. Len(Runs[k]) = b - a + 1 /\ b - a + 1 \in Nat
    BY <2>2, <2>3
  <2>5. \A i \in 1..(b - a + 1) : a + i - 1 \in 1..n /\ Runs[k][i] = infos[a + i - 1]
    <3>1. \A i \in 1..(b - a + 1) : a + i - 1 \in 1..n
      BY <1>1, <2>3
    <3> QED
      BY <2>1, <2>3, <3>1
  <2>6. ASSUME NEW j \in 1..n
        PROVE  Holds(st, k, j) <=> a <= j /\ \A i \in (a + 1)..j : ~StartsRun(i)
    <3>1. Holds(st, k, j) <=> a <= j /\ j <= b
      BY <1>1, <2>3, <2>4 DEF Holds
    <3>2. a <= j => j \in a..n /\ (j <= b <=> \A i \in (a + 1)..j : ~StartsRun(i))
      BY <1>1, <2>1, <2>3
    <3> QED
      BY <3>1, <3>2
  <2> QED
    BY <2>3, <2>4, <2>5, <2>6
<1> HIDE DEF Ends
<1>11. ASSUME NEW j \in 1..n
       PROVE  \E k \in 1..K : Holds(st, k, j)
  <2> DEFINE V == {i \in 1..j : StartsRun(i)}
  <2>1. 1 \in V /\ V \in SUBSET (0..n) /\ j \in Nat
    BY <1>1 DEF StartsRun
  <2>2. Max(V) \in V /\ \A i \in V : i <= Max(V)
    BY <1>1, <2>1, GreatestNumber
  <2>3. PICK a \in 1..j : StartsRun(a) /\ \A i \in V : i <= a
    BY <2>2
  <2>4. \A i \in (a + 1)..j : ~StartsRun(i)
    <3> SUFFICES ASSUME NEW i \in (a + 1)..j, StartsRun(i) PROVE FALSE
      OBVIOUS
    <3>1. i \in V /\ ~(i <= a)
      BY <2>1
    <3> QED
      BY <2>3, <3>1
  <2>5. a \in Range(st)
    BY <1>1, <1>6, <2>3
  <2>6. PICK k \in 1..K : st[k] = a
    BY <1>7, <2>5 DEF Range
  <2>7. st[k] <= j /\ \A i \in (st[k] + 1)..j : ~StartsRun(i)
    BY <2>4, <2>6
  <2> QED
    BY <1>10, <2>7
<1>12. ASSUME NEW j \in 1..n, NEW k \in 1..K, NEW l \in 1..K, Holds(st, k, j), Holds(st, l, j)
       PROVE  k = l
  <2>1. /\ st[k] <= j /\ \A i \in (st[k] + 1)..j : ~StartsRun(i)
        /\ st[l] <= j /\ \A i \in (st[l] + 1)..j : ~StartsRun(i)
    BY <1>10, <1>12
  <2>2. st[k] \in 1..n /\ st[l] \in 1..n /\ StartsRun(st[k]) /\ StartsRun(st[l])
    BY <1>6, <1>7
  <2>3. ~(st[k] < st[l])
    <3> SUFFICES ASSUME st[k] < st[l] PROVE FALSE
      OBVIOUS
    <3>1. st[l] \in (st[k] + 1)..j
      BY <2>1, <2>2
    <3> QED
      BY <2>1, <2>2, <3>1
  <2>4. ~(st[l] < st[k])
    <3> SUFFICES ASSUME st[l] < st[k] PROVE FALSE
      OBVIOUS
    <3>1. st[k] \in (st[l] + 1)..j
      BY <2>1, <2>2
    <3> QED
      BY <2>1, <2>2, <3>1
  <2>5. st[k] = st[l]
    BY <2>2, <2>3, <2>4
  <2> QED
    BY <1>4, <1>7, <2>5
<1>13. Starting(st)
  BY <1>7, <1>8, <1>10, <1>11, <1>12 DEF Starting
<1> QED
  BY <1>8, <1>13

(* The boxes of the runs are those of the infos. *)
InRunSpread(k, v, y) ==
  \E i \in 1..Len(Runs[k]) : \E j \in Places(InfoBoxes(Runs[k][i]), {v}) : y = <<i, j>>

(* The places where the infos of a run take a box. *)
LEMMA RunSpreadMembers ==
  ASSUME NEW v
  PROVE  \A k, y : y \in InfoSpread(Runs[k], v) <=> InRunSpread(k, v, y)
<1> SUFFICES ASSUME NEW k, NEW y
             PROVE  y \in InfoSpread(Runs[k], v) <=> InRunSpread(k, v, y)
  OBVIOUS
<1> DEFINE r == [i \in 1..Len(Runs[k]) |-> Places(InfoBoxes(Runs[k][i]), {v})]
<1>1. InfoSpread(Runs[k], v) = Spread(r, Len(Runs[k]))
  BY DEF InfoSpread, InfoPlaces
<1>2. \A i \in 1..Len(Runs[k]) : r[i] = Places(InfoBoxes(Runs[k][i]), {v})
  OBVIOUS
<1> HIDE DEF r
<1>3. y \in Spread(r, Len(Runs[k])) <=>
        \E i \in 1..Len(Runs[k]) : \E j \in r[i] : y = <<i, j>>
  BY ONLY SpreadMembers
<1> QED
  BY <1>1, <1>2, <1>3 DEF InRunSpread

(* The runs take the boxes that the infos take. *)
LEMMA RunsHaveAll ==
  ASSUME infos \in Seq(Info), NEW v, NEW e, e = [k \in 1..Len(Runs) |-> InfoSpread(Runs[k], v)],
         IsFiniteSet(Spread(e, Len(Runs)))
  PROVE  Cardinality(Spread(e, Len(Runs))) = Cardinality(InfoSpread(infos, v))
<1> SUFFICES ASSUME NEW f, f = [i \in 1..Len(infos) |-> Places(InfoBoxes(infos[i]), {v})]
             PROVE  Cardinality(Spread(e, Len(Runs))) = Cardinality(Spread(f, Len(infos)))
  BY DEF InfoSpread, InfoPlaces
<1>1. PICK st : Starting(st) /\ Len(Runs) \in Nat
  BY RunsCoverInfos
<1>2. PICK K \in Nat : K = Len(Runs)
  BY <1>1
<1>3. PICK n \in Nat : n = Len(infos)
  BY LenProperties
<1> DEFINE A == Spread(e, K) B == Spread(f, n)
           g == [x \in A |-> <<st[x[1]] + x[2][1] - 1, x[2][2]>>]
<1>4. \A x : x \in A <=> \E k \in 1..K : \E i \in 1..Len(Runs[k]) :
                           \E j \in Places(InfoBoxes(Runs[k][i]), {v}) : x = <<k, <<i, j>>>>
  <2>1. \A x : x \in A <=> \E k \in 1..K : \E y \in e[k] : x = <<k, y>>
    BY ONLY SpreadMembers
  <2>2. \A k \in 1..K : e[k] = InfoSpread(Runs[k], v)
    BY <1>2
  <2>3. \A k, y : y \in InfoSpread(Runs[k], v) <=> InRunSpread(k, v, y)
    BY ONLY RunSpreadMembers
  <2> HIDE DEF A
  <2> DEFINE In(k, i) == Places(InfoBoxes(Runs[k][i]), {v})
  <2>4. ASSUME NEW x, x \in A
        PROVE  \E k \in 1..K : \E i \in 1..Len(Runs[k]) : \E j \in In(k, i) : x = <<k, <<i, j>>>>
    <3>1. PICK k \in 1..K : \E y \in e[k] : x = <<k, y>>
      BY ONLY <2>1, <2>4
    <3>2. PICK y \in e[k] : x = <<k, y>>
      BY ONLY <3>1
    <3>3. y \in InfoSpread(Runs[k], v)
      BY ONLY <2>2, <3>2
    <3>4. PICK i \in 1..Len(Runs[k]) : \E j \in In(k, i) : y = <<i, j>>
      <4>1. InRunSpread(k, v, y)
        BY ONLY <2>3, <3>3
      <4> QED
        BY ONLY <4>1 DEF InRunSpread
    <3>5. PICK j \in In(k, i) : y = <<i, j>>
      BY <3>4
    <3> HIDE DEF In
    <3> QED
      BY ONLY <3>2, <3>5
  <2>5. ASSUME NEW k \in 1..K, NEW i \in 1..Len(Runs[k]), NEW j \in In(k, i)
        PROVE  <<k, <<i, j>>>> \in A
    <3>1. PICK y : y = <<i, j>>
      OBVIOUS
    <3>2. y \in InfoSpread(Runs[k], v)
      BY ONLY <2>3, <3>1 DEF InRunSpread
    <3>3. y \in e[k]
      BY ONLY <2>2, <3>2
    <3>4. \E l \in 1..K : \E z \in e[l] : <<k, y>> = <<l, z>>
      BY ONLY <3>3
    <3>5. <<k, y>> \in A
      BY ONLY <2>1, <3>4
    <3> QED
      BY ONLY <3>1, <3>5
  <2> HIDE DEF In
  <2>6. \A x : x \in A <=> \E k \in 1..K : \E i \in 1..Len(Runs[k]) :
                            \E j \in In(k, i) : x = <<k, <<i, j>>>>
    BY ONLY <2>4, <2>5
  <2> QED
    BY ONLY <2>6 DEF In
<1>5. \A y : y \in B <=> \E i \in 1..n : \E j \in Places(InfoBoxes(infos[i]), {v}) : y = <<i, j>>
  <2>1. \A y : y \in B <=> \E i \in 1..n : \E j \in f[i] : y = <<i, j>>
    BY ONLY SpreadMembers
  <2>2. \A i \in 1..n : f[i] = Places(InfoBoxes(infos[i]), {v})
    BY <1>3
  <2> HIDE DEF B
  <2> QED
    BY ONLY <2>1, <2>2
<1> HIDE DEF A, B
<1>6. \A k \in 1..K : /\ st[k] \in 1..n /\ Len(Runs[k]) \in Nat
                      /\ \A i \in 1..Len(Runs[k]) : /\ st[k] + i - 1 \in 1..n
                                                    /\ Runs[k][i] = infos[st[k] + i - 1]
  BY <1>1, <1>2, <1>3 DEF Starting
<1>7. \A j \in 1..n : \E k \in 1..K : \E i \in 1..Len(Runs[k]) : j = st[k] + i - 1
  <2> SUFFICES ASSUME NEW j \in 1..n
               PROVE  \E k \in 1..K : \E i \in 1..Len(Runs[k]) : j = st[k] + i - 1
    OBVIOUS
  <2>1. PICK k \in 1..K : j - st[k] + 1 \in 1..Len(Runs[k])
    BY <1>1, <1>2, <1>3 DEF Starting, Holds
  <2>2. j = st[k] + (j - st[k] + 1) - 1
    BY <1>6
  <2> QED
    BY <2>1, <2>2
<1>8. \A k, l \in 1..K : \A i \in 1..Len(Runs[k]) : \A j \in 1..Len(Runs[l]) :
        st[k] + i - 1 = st[l] + j - 1 => k = l /\ i = j
  <2> SUFFICES ASSUME NEW k \in 1..K, NEW l \in 1..K, NEW i \in 1..Len(Runs[k]),
                      NEW j \in 1..Len(Runs[l]), st[k] + i - 1 = st[l] + j - 1
               PROVE  k = l /\ i = j
    OBVIOUS
  <2>1. st[k] \in 1..n /\ st[l] \in 1..n
    BY <1>6
  <2>2. PICK m \in 1..n : m = st[k] + i - 1
    BY <1>6
  <2>a. PICK a, b \in Nat : a = st[k] /\ b = st[l]
    BY ONLY <2>1, <1>3
  <2>c. i \in Nat /\ j \in Nat
    BY <1>6
  <2>d. m = a + i - 1 /\ m = b + j - 1
    BY <2>a, <2>2
  <2>b. m - a + 1 = i /\ m - b + 1 = j
    BY ONLY <2>c, <2>d, a \in Nat, b \in Nat
  <2>3. m - st[k] + 1 = i /\ m - st[l] + 1 = j
    BY <2>a, <2>b
  <2>4. Holds(st, k, m) /\ Holds(st, l, m)
    BY <2>3 DEF Holds
  <2>5. k = l
    BY <1>1, <1>2, <1>3, <2>4 DEF Starting
  <2> QED
    BY <2>3, <2>5
<1>9. ASSUME NEW x \in A
      PROVE  g[x] \in B
  <2>1. PICK k \in 1..K : \E i \in 1..Len(Runs[k]) :
               \E j \in Places(InfoBoxes(Runs[k][i]), {v}) : x = <<k, <<i, j>>>>
    BY <1>4
  <2>2. PICK i \in 1..Len(Runs[k]) :
               \E j \in Places(InfoBoxes(Runs[k][i]), {v}) : x = <<k, <<i, j>>>>
    BY <2>1
  <2>3. PICK j \in Places(InfoBoxes(Runs[k][i]), {v}) : x = <<k, <<i, j>>>>
    BY <2>2
  <2>4. g[x] = <<st[k] + i - 1, j>>
    BY <2>3
  <2>5. PICK m \in 1..n : m = st[k] + i - 1 /\ j \in Places(InfoBoxes(infos[m]), {v})
    BY <1>6
  <2>6. <<m, j>> \in B
    BY <1>5, <2>5
  <2> QED
    BY <2>4, <2>5, <2>6
<1>10. ASSUME NEW x \in A, NEW y \in A, g[x] = g[y]
       PROVE  x = y
  <2>1. PICK k \in 1..K : \E i \in 1..Len(Runs[k]) :
               \E j \in Places(InfoBoxes(Runs[k][i]), {v}) : x = <<k, <<i, j>>>>
    BY <1>4
  <2>2. PICK i \in 1..Len(Runs[k]) : \E j : x = <<k, <<i, j>>>>
    BY <2>1
  <2>3. PICK j : x = <<k, <<i, j>>>>
    BY <2>2
  <2>4. PICK l \in 1..K : \E o \in 1..Len(Runs[l]) :
               \E u \in Places(InfoBoxes(Runs[l][o]), {v}) : y = <<l, <<o, u>>>>
    BY <1>4
  <2>5. PICK o \in 1..Len(Runs[l]) : \E u : y = <<l, <<o, u>>>>
    BY <2>4
  <2>6. PICK u : y = <<l, <<o, u>>>>
    BY <2>5
  <2>7. g[x] = <<st[k] + i - 1, j>> /\ g[y] = <<st[l] + o - 1, u>>
    BY <2>3, <2>6
  <2>8. st[k] + i - 1 = st[l] + o - 1 /\ j = u
    BY <1>10, <2>7
  <2> QED
    BY <1>8, <2>3, <2>6, <2>8
<1>11. ASSUME NEW y \in B
       PROVE  \E x \in A : g[x] = y
  <2>1. PICK m \in 1..n : \E j \in Places(InfoBoxes(infos[m]), {v}) : y = <<m, j>>
    BY <1>5
  <2>2. PICK j \in Places(InfoBoxes(infos[m]), {v}) : y = <<m, j>>
    BY <2>1
  <2>3. PICK k \in 1..K : \E i \in 1..Len(Runs[k]) : m = st[k] + i - 1
    BY <1>7
  <2>4. PICK i \in 1..Len(Runs[k]) : m = st[k] + i - 1
    BY <2>3
  <2>5. j \in Places(InfoBoxes(Runs[k][i]), {v})
    BY <1>6, <2>4
  <2>6. PICK x : x = <<k, <<i, j>>>>
    OBVIOUS
  <2>7. x \in A
    BY <1>4, <2>5, <2>6
  <2>8. g[x] = <<m, j>>
    BY <2>4, <2>6, <2>7
  <2> QED
    BY <2>2, <2>7, <2>8
<1>12. g = [x \in A |-> g[x]]
  OBVIOUS
<1>13. IsFiniteSet(A)
  BY <1>2 DEF A
<1> HIDE DEF g
<1>14. Cardinality(A) = Cardinality(B)
  <2>1. \A x \in A : g[x] \in B
    BY <1>9
  <2>2. \A x, y \in A : g[x] = g[y] => x = y
    BY <1>10
  <2>3. \A y \in B : \E x \in A : g[x] = y
    BY <1>11
  <2> QED
    BY ONLY <1>12, <1>13, <2>1, <2>2, <2>3, AsManyOnto
<1> QED
  BY <1>2, <1>3, <1>14 DEF A, B

(* All batches that can be built, and the boxes of a plan, batch by batch. *)
AnyBatch ==
  {BatchAt(CommandsOf(Runs[x[1]], x[2]), x[3]) : x \in (1..Len(Runs)) \X Nat \X Nat}
AllRows(plan) == [n \in DOMAIN plan |-> BoxesIn(plan[n])]

(* A batch that can be built drops one box per pick. *)
LEMMA AnyBatchDrops ==
  ASSUME Posed, TypeOK, InfosKnown
  PROVE  /\ \A batch \in AnyBatch : Dropping(batch)
         /\ \A k \in 1..Len(Runs), base \in Nat, m \in Nat :
              BatchAt(CommandsOf(Runs[k], base), m) \in AnyBatch
<1>1. ASSUME NEW k \in 1..Len(Runs), NEW base \in Nat, NEW m \in Nat
      PROVE  /\ Dropping(BatchAt(CommandsOf(Runs[k], base), m))
             /\ BatchAt(CommandsOf(Runs[k], base), m) \in AnyBatch
  <2>1. PICK l : Runs[k] # <<>> /\ Runs[k] \in Seq(InfosFor(l))
    BY RunsForOneLine
  <2>2. CommandsOf(Runs[k], base) \in Seq(Command(l))
    BY <2>1, CommandsForOneLine
  <2>3. Dropping(BatchAt(CommandsOf(Runs[k], base), m))
    BY <2>2, BatchDrops
  <2>4. PICK x \in (1..Len(Runs)) \X Nat \X Nat : x = <<k, base, m>>
    OBVIOUS
  <2>5. x[1] = k /\ x[2] = base /\ x[3] = m
    BY <2>4
  <2>6. BatchAt(CommandsOf(Runs[k], base), m) \in AnyBatch
    BY <2>5 DEF AnyBatch
  <2> QED
    BY <2>3, <2>6
<1>2. \A batch \in AnyBatch :
        \E k \in 1..Len(Runs), base \in Nat, m \in Nat :
          batch = BatchAt(CommandsOf(Runs[k], base), m)
  BY DEF AnyBatch
<1> QED
  BY <1>1, <1>2

(* The boxes of lists of batches. *)
LEMMA RowsType ==
  ASSUME NEW S, \A batch \in S : BoxesIn(batch) \in Seq(Box), NEW plan, plan \in Seq(S)
  PROVE  /\ AllRows(plan) \in Seq(Seq(Box)) /\ Len(AllRows(plan)) = Len(plan)
         /\ FlattenSeq(AllRows(plan)) \in Seq(Box)
<1>1. PICK n \in Nat : n = Len(plan) /\ DOMAIN plan = 1..n
  BY LenProperties
<1>2. \A i \in 1..n : AllRows(plan)[i] \in Seq(Box)
  <2> SUFFICES ASSUME NEW i \in 1..n PROVE AllRows(plan)[i] \in Seq(Box)
    OBVIOUS
  <2>1. plan[i] \in S
    BY <1>1, ElementOfSeq
  <2> QED
    BY <1>1, <2>1 DEF AllRows
<1>3. AllRows(plan) = [i \in 1..n |-> AllRows(plan)[i]]
  BY <1>1 DEF AllRows
<1>4. AllRows(plan) \in Seq(Seq(Box)) /\ Len(AllRows(plan)) = n
  BY ONLY <1>2, <1>3, RowType, n \in Nat
<1> QED
  BY <1>1, <1>4, FlattenType

RowsBehind(plan, more) == AllRows(plan \o more) = AllRows(plan) \o AllRows(more)

(* The boxes of batches behind batches. *)
LEMMA RowsConcat ==
  ASSUME NEW S, \A batch \in S : BoxesIn(batch) \in Seq(Box),
         NEW plan, plan \in Seq(S), NEW more, more \in Seq(S)
  PROVE  RowsBehind(plan, more)
<1> DEFINE f == [batch \in S |-> BoxesIn(batch)]
<1>1. PICK R : R = Seq(Box)
  OBVIOUS
<1>2. Into(f, S, R)
  BY <1>1 DEF Into
<1>3. ASSUME NEW s, s \in Seq(S)
      PROVE  AllRows(s) = Mapped(f, s)
  <2>1. \A i \in DOMAIN s : s[i] \in S
    BY <1>3, ElementOfSeq, LenProperties
  <2> QED
    BY <2>1 DEF AllRows, Mapped
<1> HIDE DEF f
<1>4. Mapped(f, plan \o more) = Mapped(f, plan) \o Mapped(f, more)
  BY ONLY <1>2, MappedConcat, plan \in Seq(S), more \in Seq(S)
<1>5. plan \o more \in Seq(S)
  BY ConcatProperties
<1>6. /\ AllRows(plan) = Mapped(f, plan) /\ AllRows(more) = Mapped(f, more)
      /\ AllRows(plan \o more) = Mapped(f, plan \o more)
  BY <1>3, <1>5
<1> QED
  BY ONLY <1>4, <1>6 DEF RowsBehind

(* A run adds the boxes of its infos. *)
LEMMA RunAddsDrops ==
  ASSUME Posed, TypeOK, InfosKnown, NEW k \in 1..Len(Runs),
         NEW done, done \in Seq(AnyBatch), NEW v
  PROVE  /\ AddRun(done, k) \in Seq(AnyBatch) /\ IsFiniteSet(InfoSpread(Runs[k], v))
         /\ Amount(FlattenSeq(AllRows(AddRun(done, k))), {v})
              = Amount(FlattenSeq(AllRows(done)), {v}) + Cardinality(InfoSpread(Runs[k], v))
<1>1. PICK l : Runs[k] # <<>> /\ Runs[k] \in Seq(InfosFor(l))
  BY RunsForOneLine
<1>2. PICK base \in Nat : base = Len(done)
  BY LenProperties
<1>3. PICK commands : /\ commands = CommandsOf(Runs[k], base) /\ commands # <<>>
                      /\ commands \in Seq(Command(l)) /\ OneAfterTheOther(commands, base)
  BY <1>1, CommandsForOneLine
<1>4. PICK last \in Nat :
        /\ last = LastBatch(commands)
        /\ \A j \in 1..Len(commands) : LastDrop(commands[j]) <= last
  BY <1>3, LastBatchType
<1>5. base <= last /\ \A j \in 1..Len(commands) : base < commands[j].first
  <2>1. \A j \in 1..Len(commands) : base < commands[j].first
    BY <1>3 DEF OneAfterTheOther
  <2>2. 1 \in 1..Len(commands) /\ commands[1] \in Command(l)
    BY <1>3, LenProperties, EmptySeq, ElementOfSeq
  <2>3. commands[1].first \in Nat /\ Len(commands[1].pick.planned) \in Nat
    BY <2>2, CommandParts
  <2>4. LastDrop(commands[1]) = commands[1].first + Len(commands[1].pick.planned) - 1
    BY DEF LastDrop
  <2>5. PICK x, y \in Nat : x = commands[1].first /\ y = Len(commands[1].pick.planned)
    BY <2>3
  <2>6. base < x /\ x + y - 1 <= last
    BY <1>4, <2>1, <2>2, <2>4, <2>5
  <2>7. base <= last
    BY ONLY <2>6, base \in Nat, last \in Nat, x \in Nat, y \in Nat
  <2> QED
    BY <2>1, <2>7
<1> DEFINE more == [i \in 1..(last - base) |-> BatchAt(commands, base + i)]
           rows == BatchRows(commands, base, last)
           f == InfoPlaces(Runs[k], v)
<1>6. AddRun(done, k) = done \o more
  BY <1>2, <1>3, <1>4 DEF AddRun
<1>7. more \in Seq(AnyBatch) /\ AllRows(more) = rows
  <2>1. PICK m \in Nat : m = last - base
    BY <1>5
  <2>2. \A i \in 1..m : base + i \in Nat
    BY <2>1
  <2>3. \A i \in 1..m : BatchAt(commands, base + i) \in AnyBatch
    BY <1>3, <2>2, AnyBatchDrops
  <2>4. more = [i \in 1..m |-> more[i]] /\ \A i \in 1..m : more[i] \in AnyBatch
    BY <2>1, <2>3
  <2>5. more \in Seq(AnyBatch)
    <3> HIDE DEF more
    <3> QED
      BY ONLY <2>4, RowType, m \in Nat
  <2>6. AllRows(more) = rows
    BY <2>1 DEF AllRows, BatchRows
  <2> QED
    BY <2>5, <2>6
<1>8. /\ rows \in Seq(Seq(Box))
      /\ Amount(FlattenSeq(rows), {v}) = Cardinality(CommandSpread(commands, v))
  <2>2. \A j \in 1..Len(commands) : base < commands[j].first /\ LastDrop(commands[j]) <= last
    BY <1>4, <1>5
  <2> QED
    BY ONLY <1>3, <1>5, <2>2, base \in Nat, last \in Nat, RunDrops
<1>9. /\ \A i \in 1..Len(Runs[k]) : InfoBoxes(Runs[k][i]) \in Seq(Box)
      /\ Cardinality(CommandSpread(commands, v)) = Cardinality(InfoSpread(Runs[k], v))
  <2>1. PICK run : run = Runs[k]
    OBVIOUS
  <2>3. run \in Seq(InfosFor(l)) /\ run # <<>> /\ commands = CommandsOf(run, base)
    BY <1>1, <1>3, <2>1
  <2>4. /\ \A i \in 1..Len(run) : InfoBoxes(run[i]) \in Seq(Box)
        /\ Cardinality(CommandSpread(commands, v)) = Cardinality(InfoSpread(run, v))
    BY ONLY Posed, <2>3, base \in Nat, CommandBoxes
  <2> QED
    BY <2>1, <2>4
<1>10. InfoSpread(Runs[k], v) = Spread(f, Len(Runs[k]))
  BY DEF InfoSpread
<1>11. IsFiniteSet(InfoSpread(Runs[k], v))
  <2>1. PICK n \in Nat : n = Len(Runs[k])
    BY <1>1, LenProperties
  <2>2. \A i \in 1..n : IsFiniteSet(f[i])
    BY <1>9, <2>1, PlacesFinite DEF InfoPlaces
  <2>3. n \in 0..n
    OBVIOUS
  <2> HIDE DEF f
  <2>4. IsFiniteSet(Spread(f, n))
    BY ONLY <2>2, <2>3, SpreadAdds, n \in Nat
  <2> QED
    BY <1>10, <2>1, <2>4
<1> HIDE DEF more, rows, f
<1>12. AddRun(done, k) \in Seq(AnyBatch)
  BY <1>6, <1>7, ConcatProperties
<1>13. \A batch \in AnyBatch : BoxesIn(batch) \in Seq(Box)
  BY AnyBatchDrops DEF Dropping
<1>14. AllRows(done \o more) = AllRows(done) \o rows
  <2>1. more \in Seq(AnyBatch) /\ AllRows(more) = rows
    BY <1>7
  <2>2. AllRows(done \o more) = AllRows(done) \o AllRows(more)
    <3>1. done \in Seq(AnyBatch) /\ more \in Seq(AnyBatch)
      BY <1>7
    <3>2. RowsBehind(done, more)
      BY ONLY <1>13, <3>1, RowsConcat
    <3> QED
      BY ONLY <3>2 DEF RowsBehind
  <2> QED
    BY <2>1, <2>2
<1>15. AllRows(done) \in Seq(Seq(Box)) /\ FlattenSeq(AllRows(done)) \in Seq(Box)
  BY <1>13, RowsType
<1>16. FlattenSeq(AllRows(done) \o rows) = FlattenSeq(AllRows(done)) \o FlattenSeq(rows)
       /\ FlattenSeq(rows) \in Seq(Box)
  <2>1. PICK q, r : q = AllRows(done) /\ r = rows
    OBVIOUS
  <2>2. q \in Seq(Seq(Box)) /\ r \in Seq(Seq(Box))
    BY <1>8, <1>15, <2>1
  <2>3. FlattenSeq(q \o r) = FlattenSeq(q) \o FlattenSeq(r) /\ FlattenSeq(r) \in Seq(Box)
    BY ONLY <2>2, FlattenConcat, FlattenType
  <2> QED
    BY <2>1, <2>3
<1>17. Amount(FlattenSeq(AllRows(done)) \o FlattenSeq(rows), {v})
         = Amount(FlattenSeq(AllRows(done)), {v}) + Amount(FlattenSeq(rows), {v})
  BY ONLY <1>15, <1>16, AmountConcat
<1> QED
  BY <1>6, <1>8, <1>9, <1>10, <1>11, <1>12, <1>14, <1>16, <1>17

(* The plan as built drops the boxes of the infos. *)
LEMMA BuiltDrops ==
  ASSUME Posed, TypeOK, InfosKnown, NEW v
  PROVE  /\ build_batches \in Seq(AnyBatch)
         /\ Amount(FlattenSeq(AllRows(build_batches)), {v}) = Cardinality(InfoSpread(infos, v))
<1>1. PICK S, h : Builds(S, h)
  BY BatchesBuilt
<1>2. PICK K \in Nat : K = Len(Runs)
  BY RunsForOneLine
<1>3. /\ build_batches = h[K] /\ h[0] = <<>>
      /\ \A k \in 1..K : h[k] = AddRun(h[k - 1], k)
  BY <1>1, <1>2 DEF Builds
<1> DEFINE e == [k \in 1..Len(Runs) |-> InfoSpread(Runs[k], v)]
           Sum(plan) == Amount(FlattenSeq(AllRows(plan)), {v})
           Good(k) == h[k] \in Seq(AnyBatch) /\ Sum(h[k]) = Cardinality(Spread(e, k))
           T == {k \in Nat : k <= K => Good(k)}
<1>4. <<>> \in Seq(AnyBatch)
  BY RangeEmpty
<1>5. \A k \in 1..K : \A done \in Seq(AnyBatch) :
        /\ AddRun(done, k) \in Seq(AnyBatch) /\ IsFiniteSet(InfoSpread(Runs[k], v))
        /\ Sum(AddRun(done, k)) = Sum(done) + Cardinality(InfoSpread(Runs[k], v))
  BY <1>2, RunAddsDrops
<1>6. \A k \in 1..K : e[k] = InfoSpread(Runs[k], v)
  BY <1>2
<1>7. e = [k \in 1..Len(Runs) |-> InfoSpread(Runs[k], v)]
  OBVIOUS
<1> HIDE DEF e
<1>8. \A k \in 1..K : IsFiniteSet(e[k])
  BY ONLY <1>4, <1>5, <1>6
<1>9. /\ Spread(e, 0) = {} /\ \A m \in 0..K : IsFiniteSet(Spread(e, m))
      /\ \A m \in 0..(K - 1) :
           Cardinality(Spread(e, m + 1)) = Cardinality(Spread(e, m)) + Cardinality(e[m + 1])
  BY ONLY <1>8, SpreadAdds, K \in Nat
<1>10. Sum(<<>>) = 0
  <2>1. AllRows(<<>>) = <<>>
    BY DEF AllRows
  <2> QED
    BY <2>1, FlattenNothing, AmountOne
<1> HIDE DEF Sum
<1>11. 0 \in T
  BY <1>3, <1>4, <1>9, <1>10, FS_EmptySet
<1>12. ASSUME NEW k \in Nat, k \in T
       PROVE  k + 1 \in T
  <2> SUFFICES ASSUME k + 1 <= K PROVE Good(k + 1)
    OBVIOUS
  <2>1. k + 1 \in 1..K /\ (k + 1) - 1 = k /\ k \in 0..(K - 1) /\ k <= K
    OBVIOUS
  <2>2. h[k] \in Seq(AnyBatch) /\ Sum(h[k]) = Cardinality(Spread(e, k))
    BY <1>12, <2>1
  <2>3. h[k + 1] = AddRun(h[k], k + 1)
    BY <1>3, <2>1
  <2>4. /\ h[k + 1] \in Seq(AnyBatch)
        /\ Sum(h[k + 1]) = Sum(h[k]) + Cardinality(e[k + 1])
    BY ONLY <1>5, <1>6, <2>1, <2>2, <2>3
  <2>5. Cardinality(Spread(e, k + 1)) = Cardinality(Spread(e, k)) + Cardinality(e[k + 1])
    BY ONLY <1>9, <2>1
  <2> QED
    BY <2>2, <2>4, <2>5
<1> HIDE DEF T, Good
<1>13. K \in T
  BY ONLY K \in Nat, <1>11, <1>12, SetInduction
<1>14. Good(K)
  BY <1>13 DEF T
<1>15. Cardinality(Spread(e, Len(Runs))) = Cardinality(InfoSpread(infos, v))
  <2>1. IsFiniteSet(Spread(e, Len(Runs)))
    BY <1>2, <1>9
  <2>2. infos \in Seq(Info)
    BY DEF TypeOK
  <2> QED
    BY ONLY <1>7, <2>1, <2>2, RunsHaveAll
<1> QED
  BY <1>2, <1>3, <1>14, <1>15 DEF Good, Sum

(* The infos take for a package what is taken for it. *)
LEMMA TakenBoxes ==
  ASSUME infos \in Seq(Info), NEW p \in DOMAIN packages, NEW sku \in Sku
  PROVE  Cardinality(InfoSpread(infos, <<p, sku>>)) = Count(Taken({p}), sku)
<1> DEFINE rows == [i \in DOMAIN infos |-> Row(infos, {p}, i)]
           f == [r \in DOMAIN rows |-> Places(rows[r], {sku})]
<1>1. PICK n \in Nat : n = Len(infos) /\ DOMAIN infos = 1..n
  BY LenProperties
<1>2. rows \in Seq(Seq(Sku)) /\ Taken({p}) = FlattenSeq(rows)
  BY TakenRows DEF Taken, Row
<1>3. DOMAIN rows = 1..n /\ Len(rows) = n
  BY <1>1, <1>2
<1>4. Count(Taken({p}), sku) = Amount(FlattenSeq(rows), {sku})
  BY <1>2 DEF Count, Amount, Places
<1>5. Amount(FlattenSeq(rows), {sku}) = Cardinality(Spread(f, n))
  BY <1>2, <1>3, AmountFlatten
<1>6. ASSUME NEW i \in 1..n
      PROVE  Places(InfoBoxes(infos[i]), {<<p, sku>>}) = Places(rows[i], {sku})
  <2>1. PICK info \in Info : info = infos[i]
    BY <1>1, ElementOfSeq
  <2>2. info.picks \in Seq(Pick)
    BY DEF Info
  <2>3. PICK s : s = planned_goods_from_slot_picks(info.picks) /\ s \in Seq(Sku)
    BY <2>2, PlannedType
  <2>4. rows[i] = IF info.package = p THEN s ELSE <<>>
    BY <1>1, <2>1, <2>3 DEF Row
  <2>5. \A j \in DOMAIN s : s[j] \in Sku
    BY <2>3, ElementOfSeq, LenProperties
  <2>6. InfoBoxes(infos[i]) = [j \in DOMAIN s |-> <<info.package, s[j]>>]
    BY <2>1, <2>3, <2>5 DEF InfoBoxes, Mapped
  <2> HIDE DEF rows
  <2>7. Places(<<>>, {sku}) = {}
    BY DEF Places
  <2>8. Places(InfoBoxes(infos[i]), {<<p, sku>>})
          = {j \in DOMAIN s : info.package = p /\ s[j] = sku}
    BY <2>6 DEF Places
  <2>9. CASE info.package = p
    <3>1. Places(rows[i], {sku}) = {j \in DOMAIN s : s[j] = sku}
      BY <2>4, <2>9 DEF Places
    <3> QED
      BY <2>8, <2>9, <3>1
  <2>10. CASE info.package # p
    BY <2>4, <2>7, <2>8, <2>10
  <2> QED
    BY <2>9, <2>10
<1>7. InfoPlaces(infos, <<p, sku>>) = f
  BY <1>1, <1>3, <1>6 DEF InfoPlaces
<1> QED
  BY <1>1, <1>4, <1>5, <1>7 DEF InfoSpread

(* The owners and the boxes of a plan, box by box. *)
Items(plan) ==
  FlattenSeq([n \in DOMAIN plan |->
    FlattenSeq([i \in DOMAIN plan[n].picks |-> plan[n].picks[i].items])])

(* A plan with the boxes and owners of another lists them in its order. *)
LEMMA OwnersAndItems ==
  ASSUME NEW S, \A batch \in S : Dropping(batch), NEW plan, plan \in Seq(S),
         NEW made, OwnersOf(made, plan),
         NEW f, f = [x \in Box |-> x[1]], NEW g, g = [x \in Box |-> x[2]]
  PROVE  /\ Sequence(made) = Mapped(f, FlattenSeq(AllRows(plan)))
         /\ Items(made) = Mapped(g, FlattenSeq(AllRows(plan)))
<1> DEFINE q == AllRows(plan)
<1>1. PICK n \in Nat : DOMAIN plan = 1..n /\ DOMAIN made = 1..n
  BY LenProperties DEF OwnersOf
<1>2. \A i \in 1..n : Dropping(plan[i]) /\ q[i] = BoxesIn(plan[i]) /\ q[i] \in Seq(Box)
  <2> SUFFICES ASSUME NEW i \in 1..n
               PROVE  Dropping(plan[i]) /\ q[i] = BoxesIn(plan[i]) /\ q[i] \in Seq(Box)
    OBVIOUS
  <2>1. plan[i] \in S
    BY <1>1, ElementOfSeq, LenProperties
  <2> QED
    BY <1>1, <2>1 DEF Dropping, AllRows
<1>3. q \in Seq(Seq(Box)) /\ DOMAIN q = 1..n
  <2>1. \A batch \in S : BoxesIn(batch) \in Seq(Box)
    BY DEF Dropping
  <2>2. q \in Seq(Seq(Box))
    BY ONLY <2>1, plan \in Seq(S), RowsType
  <2> QED
    BY <1>1, <2>2 DEF AllRows
<1>4. Into(f, Box, DOMAIN packages) /\ Into(g, Box, Sku)
  BY DEF Into, Box
<1> HIDE DEF q
<1> DEFINE owners == [k \in DOMAIN made |->
                        [i \in DOMAIN made[k].picks |-> made[k].picks[i].package]]
           items == [k \in DOMAIN made |->
                       FlattenSeq([i \in DOMAIN made[k].picks |-> made[k].picks[i].items])]
<1>5. ASSUME NEW k \in 1..n
      PROVE  owners[k] = Mapped(f, q[k]) /\ items[k] = Mapped(g, q[k])
  <2>1. SameOwners(made[k], plan[k]) /\ Dropping(plan[k]) /\ q[k] = BoxesIn(plan[k])
    BY <1>1, <1>2 DEF OwnersOf
  <2>2. PICK m \in Nat : DOMAIN q[k] = 1..m
    BY <1>2, LenProperties
  <2>3. DOMAIN made[k].picks = 1..m /\ DOMAIN plan[k].picks = 1..m
    BY <2>1, <2>2 DEF SameOwners, BoxesIn
  <2>4. ASSUME NEW i \in 1..m
        PROVE  made[k].picks[i].package = f[q[k][i]] /\ made[k].picks[i].items = <<g[q[k][i]]>>
    <3>1. q[k][i] \in Box
      BY <1>2, <2>2, ElementOfSeq, LenProperties
    <3>2. q[k][i] = <<plan[k].picks[i].package, plan[k].picks[i].items[1]>>
      BY <2>1, <2>3 DEF BoxesIn
    <3>3. /\ made[k].picks[i].package = plan[k].picks[i].package
          /\ made[k].picks[i].items = plan[k].picks[i].items
      BY <2>1, <2>3 DEF SameOwners
    <3>4. plan[k].picks[i].items = <<plan[k].picks[i].items[1]>>
      BY <2>1, <2>3 DEF Dropping
    <3>5. f[q[k][i]] = plan[k].picks[i].package /\ g[q[k][i]] = plan[k].picks[i].items[1]
      BY <3>1, <3>2
    <3> QED
      BY <3>3, <3>4, <3>5
  <2>5. owners[k] = Mapped(f, q[k])
    BY <1>1, <2>2, <2>3, <2>4 DEF Mapped
  <2> DEFINE s == Mapped(g, q[k])
  <2>6. s \in Seq(Sku) /\ DOMAIN s = 1..m /\ \A i \in 1..m : s[i] = g[q[k][i]]
    <3>1. s \in Seq(Sku)
      BY <1>2, <1>4, MappedType
    <3>2. DOMAIN s = 1..m /\ \A i \in 1..m : s[i] = g[q[k][i]]
      BY <2>2 DEF Mapped
    <3> QED
      BY <3>1, <3>2
  <2>7. [i \in DOMAIN made[k].picks |-> made[k].picks[i].items] = [i \in DOMAIN s |-> <<s[i]>>]
    <3> HIDE DEF s
    <3> QED
      BY <2>3, <2>4, <2>6
  <2>8. FlattenSeq([i \in DOMAIN s |-> <<s[i]>>]) = s
    <3> HIDE DEF s
    <3> QED
      BY <2>6, FlattenSingles
  <2>9. items[k] = s
    BY <1>1, <2>7, <2>8
  <2> QED
    BY <2>5, <2>9
<1>6. /\ owners = [k \in DOMAIN q |-> Mapped(f, q[k])]
      /\ items = [k \in DOMAIN q |-> Mapped(g, q[k])]
  BY <1>1, <1>3, <1>5
<1>7. Sequence(made) = FlattenSeq(owners) /\ Items(made) = FlattenSeq(items)
  BY DEF Sequence, Items
<1> HIDE DEF owners, items
<1>8. FlattenSeq(owners) = Mapped(f, FlattenSeq(q)) /\ FlattenSeq(items) = Mapped(g, FlattenSeq(q))
  <2>1. PICK B, P, U : B = Box /\ P = DOMAIN packages /\ U = Sku
    OBVIOUS
  <2>2. q \in Seq(Seq(B)) /\ Into(f, B, P) /\ Into(g, B, U)
    BY <1>3, <1>4, <2>1
  <2>3. FlattenSeq(owners) = Mapped(f, FlattenSeq(q))
    BY ONLY <1>6, <2>2, FlattenMapped
  <2>4. FlattenSeq(items) = Mapped(g, FlattenSeq(q))
    BY ONLY <1>6, <2>2, FlattenMapped
  <2> QED
    BY <2>3, <2>4
<1> QED
  BY <1>7, <1>8 DEF q

(* What PackagesStayTogether says of a plan. *)
Together(plan, asked) ==
  \A p \in DOMAIN asked :
    LET places == {i \in DOMAIN Sequence(plan) : Sequence(plan)[i] = p} IN
      /\ Contiguous(places)
      /\ \A sku \in Sku : Count(asked[p].goods, sku)
                          = Cardinality({i \in places : Items(plan)[i] = sku})

(* A built plan whose packages have one segment each drops for every package   *)
(* the boxes it asked for.                                                     *)
LEMMA PlanTogether ==
  ASSUME Posed, TypeOK, BoxesAccountedFor, InfosKnown, pending = {}, NEW made,
         made = reuse_consecutive_physical_picks(build_batches).batches,
         check_package_segments(made)
  PROVE  Together(made, packages)
<1> DEFINE X == FlattenSeq(AllRows(build_batches))
           f == [x \in Box |-> x[1]]
           g == [x \in Box |-> x[2]]
           owners == Sequence(made)
           items == Items(made)
<1>1. \A batch \in AnyBatch : Dropping(batch)
  BY AnyBatchDrops
<1>2. PICK plan : plan = build_batches /\ plan \in Seq(AnyBatch)
  BY BuiltDrops
<1>3. OwnersOf(made, plan)
  <2>1. \A batch \in AnyBatch : "picks" \in DOMAIN batch
          /\ \A i \in DOMAIN batch.picks :
               {"package", "items"} \subseteq DOMAIN batch.picks[i]
    BY <1>1 DEF Dropping
  <2>2. made = reuse_consecutive_physical_picks(plan).batches
    BY <1>2
  <2> QED
    BY ONLY <1>2, <2>1, <2>2, PlanKeepsOwners
<1>4. X \in Seq(Box)
  <2>1. \A batch \in AnyBatch : BoxesIn(batch) \in Seq(Box)
    BY <1>1 DEF Dropping
  <2>2. FlattenSeq(AllRows(plan)) \in Seq(Box)
    BY ONLY <1>2, <2>1, RowsType
  <2> QED
    BY <1>2, <2>2
<1>5. owners = Mapped(f, X) /\ items = Mapped(g, X)
  <2>1. f = [x \in Box |-> x[1]] /\ g = [x \in Box |-> x[2]]
    OBVIOUS
  <2> HIDE DEF f, g
  <2>2. /\ Sequence(made) = Mapped(f, FlattenSeq(AllRows(plan)))
        /\ Items(made) = Mapped(g, FlattenSeq(AllRows(plan)))
    BY ONLY <1>1, <1>2, <1>3, <2>1, OwnersAndItems
  <2> QED
    BY <1>2, <2>2
<1>6. \A v : Amount(X, {v}) = Cardinality(InfoSpread(infos, v))
  BY BuiltDrops
<1> HIDE DEF X, owners, items
<1>7. PICK m \in Nat : DOMAIN X = 1..m
  BY <1>4, LenProperties
<1>8. /\ DOMAIN owners = 1..m /\ DOMAIN items = 1..m
      /\ \A i \in 1..m : X[i] = <<owners[i], items[i]>>
  <2>1. \A i \in 1..m : X[i] \in Box
    BY <1>4, <1>7, ElementOfSeq, LenProperties
  <2>2. \A i \in 1..m : owners[i] = X[i][1] /\ items[i] = X[i][2]
    BY <1>5, <1>7, <2>1 DEF Mapped
  <2>3. DOMAIN owners = 1..m /\ DOMAIN items = 1..m
    BY <1>5, <1>7 DEF Mapped
  <2> QED
    BY <2>1, <2>2, <2>3 DEF Box
<1>9. infos \in Seq(Info)
  BY DEF TypeOK
<1>10. ASSUME NEW p \in DOMAIN packages
       PROVE  LET places == {i \in DOMAIN owners : owners[i] = p} IN
                /\ Contiguous(places)
                /\ \A sku \in Sku : Count(packages[p].goods, sku)
                                    = Cardinality({i \in places : items[i] = sku})
  <2> DEFINE places == {i \in DOMAIN owners : owners[i] = p}
             Here(sku) == {i \in places : items[i] = sku}
  <2>1. remaining[p] = <<>> /\ packages[p].goods # <<>>
    <3>1. p \notin pending
      OBVIOUS
    <3> QED
      BY <3>1 DEF TypeOK
  <2>2. ASSUME NEW sku \in Sku
        PROVE  Count(packages[p].goods, sku) = Cardinality(Here(sku))
    <3>1. Count(packages[p].goods, sku) = Count(<<>>, sku) + Count(Taken({p}), sku)
      BY <2>1 DEF BoxesAccountedFor
    <3>2. Count(<<>>, sku) = 0
      <4>1. Count(<<>>, sku) = Cardinality({})
        BY DEF Count
      <4> QED
        BY <4>1, FS_EmptySet
    <3>3. Count(Taken({p}), sku) = Cardinality(InfoSpread(infos, <<p, sku>>))
      BY <1>9, TakenBoxes
    <3>4. Amount(X, {<<p, sku>>}) = Cardinality(InfoSpread(infos, <<p, sku>>))
      BY ONLY <1>6
    <3>5. Places(X, {<<p, sku>>}) = Here(sku)
      <4>1. Here(sku) = {i \in 1..m : owners[i] = p /\ items[i] = sku}
        BY <1>8
      <4>2. Places(X, {<<p, sku>>}) = {i \in 1..m : X[i] = <<p, sku>>}
        BY <1>7 DEF Places
      <4>3. \A i \in 1..m : X[i] = <<p, sku>> <=> owners[i] = p /\ items[i] = sku
        BY <1>8
      <4> HIDE DEF Here
      <4> QED
        BY ONLY <4>1, <4>2, <4>3
    <3>6. Count(Taken({p}), sku) = Cardinality(Here(sku))
      BY <3>3, <3>4, <3>5 DEF Amount
    <3>7. Amount(X, {<<p, sku>>}) \in Nat
      BY <1>4, PlacesFinite
    <3>8. Cardinality(Here(sku)) \in Nat
      BY <3>5, <3>7 DEF Amount
    <3> HIDE DEF Here
    <3> QED
      BY <3>1, <3>2, <3>6, <3>8
  <2>3. places # {}
    <3>1. packages[p].goods \in Seq(Sku)
      <4>1. packages \in Seq(Package) /\ p \in DOMAIN packages
        BY DEF Posed
      <4>2. packages[p] \in Package
        BY ONLY <4>1, ElementOfSeq, LenProperties
      <4> QED
        BY <4>2 DEF Package
    <3>2. PICK goods : goods = packages[p].goods /\ goods \in Seq(Sku) /\ goods # <<>>
      BY <2>1, <3>1
    <3>3. 1 \in DOMAIN goods /\ goods[1] \in Sku /\ DOMAIN goods = 1..Len(goods)
          /\ Len(goods) \in Nat
      BY <3>2, LenProperties, EmptySeq, ElementOfSeq
    <3>4. PICK sku \in Sku : sku = goods[1]
      BY <3>3
    <3> DEFINE C == {i \in DOMAIN goods : goods[i] = sku}
    <3>5. IsFiniteSet(C) /\ C # {}
      <4>1. C \subseteq 1..Len(goods) /\ 1 \in C
        BY <3>3, <3>4
      <4>2. IsFiniteSet(1..Len(goods))
        BY <3>3, FS_Interval
      <4> HIDE DEF C
      <4> QED
        BY ONLY <4>1, <4>2, FS_Subset
    <3>6. Cardinality(C) # 0
      BY <3>5, FS_EmptySet
    <3>7. Cardinality(Here(sku)) # 0
      BY <2>2, <3>2, <3>6 DEF Count
    <3>8. Here(sku) # {}
      BY ONLY <3>7, FS_EmptySet
    <3> QED
      BY <3>8
  <2>4. Contiguous(places)
    <3>1. p \in ToSet(owners)
      BY <2>3 DEF ToSet
    <3> QED
      BY <3>1 DEF check_package_segments, owners
  <2> QED
    BY <2>2, <2>4
<1> QED
  BY <1>10 DEF Together, owners, items

(* The inductive invariant: the infos are known, the boxes accounted for, and  *)
(* the packages of an accepted plan stay together.                             *)
TogetherInv == SearchInv /\ InfosKnown /\ PackagesStayTogether

(* Every step keeps it. *)
LEMMA TogetherKept == TogetherInv /\ [Next]_vars => TogetherInv'
<1> SUFFICES ASSUME Posed, TypeOK, BoxesAccountedFor, InfosKnown, PackagesStayTogether,
                    [Next]_vars
             PROVE  SearchInv' /\ InfosKnown' /\ PackagesStayTogether'
  BY DEF TogetherInv, SearchInv
<1>1. SearchInv' /\ InfosKnown'
  BY SearchKept, InfosStayKnown DEF SearchInv
<1>2. CASE BuildPlan /\ phase' = "planned"
  <2>1. /\ batches' = reuse_consecutive_physical_picks(build_batches).batches
        /\ packages' = packages /\ pending = {}
        /\ check_package_segments(reuse_consecutive_physical_picks(build_batches).batches)
    BY <1>2 DEF BuildPlan, given, validate_plan
  <2>2. Together(batches', packages')
    BY <2>1, PlanTogether
  <2>3. PackagesStayTogether'
    BY <2>1, <2>2 DEF Together, PackagesStayTogether, Sequence, Items
  <2> QED
    BY <1>1, <2>3
<1>3. CASE phase' # "planned"
  BY <1>1, <1>3 DEF PackagesStayTogether
<1>4. CASE ~BuildPlan /\ phase' = "planned"
  <2>1. ~Unschedulable
    BY <1>4 DEF Unschedulable
  <2>2. UNCHANGED <<packages, phase, batches>>
    BY <1>4, <2>1 DEF Next, Over, SelectPackage, TakeOwnBlocker, ShiftBackGoods,
                AdjustLocation, Unplanned, given, vars
  <2>3. phase = "planned" => Together(batches, packages)
    BY DEF PackagesStayTogether, Together, Sequence, Items
  <2>4. phase' = "planned" => Together(batches', packages')
    BY <2>2, <2>3
  <2>5. PackagesStayTogether'
    BY <2>4 DEF PackagesStayTogether, Together, Sequence, Items
  <2> QED
    BY <1>1, <2>5
<1> QED
  BY <1>2, <1>3, <1>4

(* In an accepted plan the boxes of a package reach the line one after the     *)
(* other, with none of another package between them, and they are the boxes it *)
(* asked for.  That no box gets lost or is doubled on the way from the search  *)
(* to the batches is shown by counting the places where a box for a package    *)
(* stands: among the infos, the commands of their runs, the batches of a run   *)
(* and the whole plan.                                                         *)
THEOREM PackagesStayTogetherHolds == Spec => []PackagesStayTogether
<1>1. Init => TogetherInv
  <2> SUFFICES ASSUME Init PROVE SearchInv /\ InfosKnown /\ PackagesStayTogether
    BY DEF TogetherInv
  <2>1. infos = <<>> /\ phase = "search"
    BY DEF Init
  <2> QED
    BY <2>1, SearchStarts DEF InfosKnown, PackagesStayTogether
<1>2. TogetherInv => PackagesStayTogether
  BY DEF TogetherInv
<1> QED
  BY <1>1, <1>2, TogetherKept, PTL DEF Spec

-----------------------------------------------------------------------------
(* What can leave at once is found *)

(* One of several lists has at most what they have together, and all of it     *)
(* when the others have none.                                                  *)
LEMMA FlattenShare ==
  ASSUME NEW S, NEW q \in Seq(Seq(S)), NEW i \in 1..Len(q), NEW x
  PROVE  /\ Count(q[i], x) <= Count(FlattenSeq(q), x)
         /\ (\A j \in 1..Len(q) : j # i => Count(q[j], x) = 0) =>
              Count(FlattenSeq(q), x) = Count(q[i], x)
<1> DEFINE n == Len(q) P(m) == SubSeq(q, 1, m)
           C == [j \in 1..n |-> Count(q[j], x)]
           F == [m \in 0..n |-> Count(FlattenSeq(P(m)), x)]
<1>1. n \in Nat /\ \A j \in 1..n : q[j] \in Seq(S)
  OBVIOUS
<1>2. \A j \in 1..n : C[j] \in Nat /\ C[j] = Count(q[j], x)
  BY <1>1, CountType
<1>3. F[0] = 0
  <2>1. P(0) = <<>> /\ 0 \in 0..n
    BY <1>1
  <2>2. Count(<<>>, x) = 0
    BY CountOne
  <2> HIDE DEF P
  <2> QED
    BY <2>1, <2>2, FlattenNothing
<1>4. ASSUME NEW m \in 0..(n - 1)
      PROVE  F[m + 1] = F[m] + C[m + 1]
  <2>1. m \in Nat /\ m + 1 <= n /\ m \in 0..n /\ m + 1 \in 0..n /\ m + 1 \in 1..n
    BY <1>1
  <2>2. P(m) \in Seq(Seq(S)) /\ P(m + 1) = Append(P(m), q[m + 1]) /\ q[m + 1] \in Seq(S)
    BY <2>1, PrefixSplits
  <2> HIDE DEF P
  <2>3. FlattenSeq(P(m + 1)) = FlattenSeq(P(m)) \o q[m + 1] /\ FlattenSeq(P(m)) \in Seq(S)
    BY <2>2, FlattenAppend, FlattenType
  <2>4. Count(FlattenSeq(P(m)) \o q[m + 1], x)
          = Count(FlattenSeq(P(m)), x) + Count(q[m + 1], x)
    BY <2>2, <2>3, CountConcat
  <2> QED
    BY <2>1, <2>3, <2>4
<1>5. F[n] = Count(FlattenSeq(q), x)
  <2>1. P(n) = q /\ n \in 0..n
    BY <1>1
  <2> HIDE DEF P
  <2> QED
    BY <2>1
<1> HIDE DEF C, F, n
<1>6. i \in 1..n
  BY DEF n
<1>7. C[i] <= F[n] /\ (Alone(C, i, n) => F[n] = C[i])
  <2>1. AddUp(C, F, n)
    BY <1>2, <1>3, <1>4 DEF AddUp
  <2> QED
    BY <1>1, <1>6, <2>1, SumShare
<1> QED
  BY <1>2, <1>5, <1>6, <1>7 DEF n, Alone

(* No prefix of a slot that is needed has more of anything than what the slot  *)
(* gives.                                                                      *)
LEMMA NeededMost ==
  ASSUME NEW slot \in Seq(Sku), NEW need \in Seq(Sku), NEW d \in 0..Len(slot),
         Within(SubSeq(slot, 1, d), need)
  PROVE  Within(SubSeq(slot, 1, d), goods_needed_from_slot(slot, need))
<1> DEFINE I == {n \in 0..Len(slot) : goods_all_in_need(SubSeq(slot, 1, n), need)}
<1>1. d \in I
  <2>1. SubSeq(slot, 1, d) \in Seq(Sku)
    BY CountPrefix
  <2> QED
    BY <2>1, AllInNeed
<1>2. goods_needed_from_slot(slot, need) = SubSeq(slot, 1, Max(I))
  BY DEF goods_needed_from_slot
<1>3. Len(slot) \in Nat /\ I \in SUBSET (0..Len(slot)) /\ I # {}
  BY <1>1
<1> HIDE DEF I
<1>4. PICK n \in 0..Len(slot) : n = Max(I) /\ d <= n
  BY <1>1, <1>3, GreatestNumber
<1> DEFINE s == SubSeq(slot, 1, n)
<1>5. s \in Seq(Sku) /\ Len(s) = n /\ SubSeq(s, 1, d) = SubSeq(slot, 1, d) /\ d \in 0..Len(s)
  <2>1. s \in Seq(Sku) /\ Len(s) = n /\ \A k \in 1..n : s[k] = slot[k]
    BY <1>4
  <2>2. d \in 0..Len(s) /\ d \in 0..n
    BY <1>4, <2>1
  <2> DEFINE a == SubSeq(s, 1, d) b == SubSeq(slot, 1, d)
  <2>3. a \in Seq(Sku) /\ Len(a) = d /\ \A k \in 1..d : a[k] = s[k]
    BY <2>1, <2>2
  <2>4. b \in Seq(Sku) /\ Len(b) = d /\ \A k \in 1..d : b[k] = slot[k]
    OBVIOUS
  <2>5. \A k \in 1..d : a[k] = b[k]
    BY <1>4, <2>1, <2>3, <2>4
  <2> HIDE DEF a, b, s
  <2>6. a = b
    BY <2>3, <2>4, <2>5
  <2> QED
    BY <2>1, <2>2, <2>6 DEF a, b
<1> HIDE DEF s
<1>6. /\ SubSeq(s, 1, d) \in Seq(Sku) /\ SubSeq(s, d + 1, Len(s)) \in Seq(Sku)
      /\ \A x : Count(s, x) = Count(SubSeq(s, 1, d), x) + Count(SubSeq(s, d + 1, Len(s)), x)
  BY <1>5, CountPrefix
<1>7. \A x : Count(SubSeq(s, 1, d), x) \in Nat /\ Count(SubSeq(s, d + 1, Len(s)), x) \in Nat
  BY <1>6, CountType
<1>8. \A x : Count(SubSeq(s, 1, d), x) <= Count(s, x)
  BY <1>6, <1>7
<1> QED
  BY <1>2, <1>4, <1>5, <1>8 DEF Within, s

(* How deep each slot is emptied when a package leaves: no deeper than it is   *)
(* filled and than the package needs, and every box the package needs leaves   *)
(* from each slot that holds it as often as it is needed.                      *)
Leaves(goods, depth) ==
  /\ \A loc \in FrontSlotsFor(goods) :
       /\ depth[loc] \in 0..Len(inv[loc])
       /\ Within(SubSeq(inv[loc], 1, depth[loc]), goods)
       /\ \A x : Count(goods, x) # 0 /\ Count(inv[loc], x) # 0 =>
            Count(SubSeq(inv[loc], 1, depth[loc]), x) = Count(goods, x)
  /\ \A x : Count(goods, x) # 0 =>
       \E loc \in FrontSlotsFor(goods) : Count(inv[loc], x) # 0

(* A box is in a pile as soon as it occurs there. *)
LEMMA CountsIfThere ==
  ASSUME NEW S, NEW s \in Seq(S), NEW x
  PROVE  Count(s, x) # 0 <=> x \in ToSet(s)
<1>1. Count(s, x) # 0 <=> \E i \in DOMAIN s : s[i] = x
  BY CountType
<1> QED
  BY <1>1 DEF ToSet

(* A package that can leave from slots that have no box in common leaves so. *)
LEMMA LeavesSomehow ==
  ASSUME inv \in Stock, NEW goods \in Seq(Sku), Unambiguous(goods), CanLeave(goods)
  PROVE  \E depth : Leaves(goods, depth)
<1> DEFINE F == FrontSlotsFor(goods)
           slots == InOrder(AllSlots, F)
           n == Len(slots)
           Top(depth, loc) == SubSeq(inv[loc], 1, depth[loc])
           Rows(depth) == [i \in DOMAIN slots |-> SubSeq(inv[slots[i]], 1, depth[slots[i]])]
<1>1. PICK depth \in [F -> 0..SLOT_CAPACITY] :
        /\ \A loc \in DOMAIN depth : depth[loc] <= Len(inv[loc])
        /\ \A sku \in Sku : Count(FlattenSeq(Rows(depth)), sku) = Count(goods, sku)
  BY Zenon DEF CanLeave
<1>2. F \subseteq Location /\ \A loc \in Location : inv[loc] \in Seq(Sku)
  BY DEF FrontSlotsFor, Stock
<1>3. /\ slots \in Seq(Location) /\ Range(slots) = F
      /\ \A i, j \in 1..n : slots[i] = slots[j] => i = j
  <2>1. AllSlots \in Seq(Location) /\ Range(AllSlots) = Location
    BY AllSlotsCovered
  <2>2. \A i, j \in 1..Len(AllSlots) : AllSlots[i] = AllSlots[j] => i = j
    BY SlotsListed
  <2>3. /\ slots \in Seq(Location) /\ Range(slots) = Location \cap F
        /\ \A i, j \in 1..Len(slots) : slots[i] = slots[j] => i = j
    BY <2>1, <2>2, InOrderElements
  <2> QED
    BY <1>2, <2>3
<1> DEFINE rows == Rows(depth)
<1>4. \A loc \in F : depth[loc] \in 0..Len(inv[loc]) /\ Top(depth, loc) \in Seq(Sku)
  <2> SUFFICES ASSUME NEW loc \in F
               PROVE  depth[loc] \in 0..Len(inv[loc]) /\ Top(depth, loc) \in Seq(Sku)
    OBVIOUS
  <2>1. inv[loc] \in Seq(Sku)
    BY <1>2
  <2>2. depth[loc] \in Nat /\ depth[loc] <= Len(inv[loc])
    BY <1>1
  <2>3. depth[loc] \in 0..Len(inv[loc])
    BY <2>1, <2>2
  <2> QED
    BY <2>1, <2>3, CountPrefix
<1> HIDE DEF F, slots
<1>5. /\ n \in Nat /\ DOMAIN slots = 1..n /\ \A i \in 1..n : slots[i] \in F
      /\ \A loc \in F : \E i \in 1..n : slots[i] = loc
  <2>1. n \in Nat /\ DOMAIN slots = 1..n
    BY <1>3, LenProperties
  <2> QED
    BY <1>3, <2>1 DEF Range
<1>6. /\ rows \in Seq(Seq(Sku)) /\ Len(rows) = n
      /\ \A i \in 1..n : rows[i] = Top(depth, slots[i]) /\ rows[i] \in Seq(Sku)
  <2>1. rows = [i \in 1..n |-> rows[i]] /\ \A i \in 1..n : rows[i] = Top(depth, slots[i])
    BY <1>5
  <2>2. \A i \in 1..n : rows[i] \in Seq(Sku)
    BY <1>4, <1>5, <2>1
  <2> HIDE DEF rows, n
  <2> QED
    BY <1>5, <2>1, <2>2, RowType
<1>7. FlattenSeq(rows) \in Seq(Sku) /\ \A x : Count(FlattenSeq(rows), x) = Count(goods, x)
  <2>1. FlattenSeq(rows) \in Seq(Sku)
    BY <1>6, FlattenType
  <2>2. PICK all \in Seq(Sku) : all = FlattenSeq(rows)
    BY <2>1
  <2>3. \A x \in Sku : Count(all, x) = Count(goods, x)
    BY <1>1, <2>2
  <2>4. \A x : x \notin Sku => Count(all, x) = 0 /\ Count(goods, x) = 0
    <3>1. \A s \in Seq(Sku) : \A i \in DOMAIN s : s[i] \in Sku
      OBVIOUS
    <3> QED
      BY <3>1, CountType
  <2> QED
    BY <2>1, <2>2, <2>3, <2>4
<1> HIDE DEF rows, Rows
<1>8. ASSUME NEW loc \in F
      PROVE  Within(Top(depth, loc), goods)
  <2>1. PICK i \in 1..n : slots[i] = loc
    BY <1>5
  <2>2. \A x : Count(rows[i], x) <= Count(FlattenSeq(rows), x)
    BY <1>6, FlattenShare
  <2> QED
    BY <1>6, <1>7, <2>1, <2>2 DEF Within
<1>9. ASSUME NEW loc \in F, NEW x
      PROVE  Count(Top(depth, loc), x) # 0 => Count(inv[loc], x) # 0
  <2>1. inv[loc] \in Seq(Sku) /\ depth[loc] \in 0..Len(inv[loc])
    BY <1>2, <1>4
  <2> DEFINE a == Top(depth, loc) b == SubSeq(inv[loc], depth[loc] + 1, Len(inv[loc]))
  <2>2. a \in Seq(Sku) /\ b \in Seq(Sku) /\ Count(inv[loc], x) = Count(a, x) + Count(b, x)
    BY <2>1, CountPrefix
  <2> HIDE DEF a, b
  <2>3. Count(a, x) \in Nat /\ Count(b, x) \in Nat
    BY <2>2, CountType
  <2> QED
    BY <2>2, <2>3 DEF a
<1>10. ASSUME NEW x, Count(goods, x) # 0, NEW loc \in F, Count(inv[loc], x) # 0
       PROVE  Count(Top(depth, loc), x) = Count(goods, x)
  <2>1. PICK i \in 1..n : slots[i] = loc
    BY <1>5
  <2>2. ASSUME NEW j \in 1..n, j # i
        PROVE  Count(rows[j], x) = 0
    <3>1. PICK other \in F : other = slots[j]
      BY <1>5
    <3>2. other # loc
      BY <1>3, <2>1, <2>2, <3>1
    <3>3. Count(inv[other], x) = 0
      <4>1. inv[loc] \in Seq(Sku) /\ inv[other] \in Seq(Sku)
        BY <1>2
      <4>2. x \in ToSet(goods) /\ x \in ToSet(inv[loc])
        BY <1>10, <4>1, CountsIfThere
      <4>3. x \notin ToSet(inv[other])
        BY <3>2, <4>2 DEF Unambiguous, F
      <4> QED
        BY <4>1, <4>3, CountsIfThere
    <3> QED
      BY <1>6, <1>9, <3>1, <3>3
  <2>3. Count(FlattenSeq(rows), x) = Count(rows[i], x)
    <3>1. i \in 1..Len(rows) /\ rows \in Seq(Seq(Sku))
          /\ \A j \in 1..Len(rows) : j # i => Count(rows[j], x) = 0
      BY <1>6, <2>2
    <3> QED
      BY <3>1, FlattenShare
  <2> QED
    BY <1>6, <1>7, <2>1, <2>3
<1>11. ASSUME NEW x, Count(goods, x) # 0
       PROVE  \E loc \in F : Count(inv[loc], x) # 0
  <2>1. PICK all \in Seq(Sku) : all = FlattenSeq(rows)
    BY <1>7
  <2>2. Count(all, x) # 0
    BY <1>7, <1>11, <2>1
  <2>3. x \in Range(all)
    BY <2>2, CountsIfThere, SetOfRange
  <2>4. PICK i \in 1..n : x \in Range(rows[i])
    BY <1>6, <2>1, <2>3, FlattenRange
  <2>5. Count(rows[i], x) # 0
    BY <1>6, <2>4, CountsIfThere, SetOfRange
  <2> QED
    <3>1. PICK loc \in F : loc = slots[i] /\ rows[i] = Top(depth, loc)
      BY <1>5, <1>6
    <3> QED
      BY <1>9, <2>5, <3>1
<1>12. Leaves(goods, depth)
  BY <1>4, <1>8, <1>10, <1>11 DEF Leaves, F
<1> QED
  BY <1>12

(* After i slots: the boxes needed that stand in one of them are all taken,    *)
(* the others are needed as before.                                            *)
Emptied(acc, goods, order, i) ==
  /\ acc \in Filling /\ Within(acc.need, goods)
  /\ acc.picks = <<>> => acc.need = goods
  /\ \A x : Count(goods, x) # 0 =>
       Count(acc.need, x) = IF \E j \in 1..i : Count(inv[order[j]], x) # 0
                            THEN 0 ELSE Count(goods, x)

(* What a round takes from the needs. *)
LEMMA TakeFromNeeds ==
  ASSUME NEW stock \in Stock, NEW loc \in Location, NEW acc \in Filling
  PROVE  LET taken == goods_needed_from_slot(stock[loc], acc.need)
             new   == TakeFrom(acc, loc, stock)
         IN  /\ new \in Filling /\ taken \in Seq(Sku) /\ Within(taken, acc.need)
             /\ \A x : Count(taken, x) <= Count(stock[loc], x)
             /\ \A x : Count(new.need, x) = Count(acc.need, x) - Count(taken, x)
             /\ new.picks = <<>> => acc.picks = <<>> /\ new.need = acc.need
<1> DEFINE taken == goods_needed_from_slot(stock[loc], acc.need)
           new == TakeFrom(acc, loc, stock)
<1>1. /\ new \in Filling /\ acc.need \in Seq(Sku) /\ acc.picks \in Seq(Pick)
      /\ taken \in Seq(Sku)
      /\ taken = <<>> => new = acc
      /\ taken # <<>> =>
           \E n \in 1..Len(stock[loc]), pick \in Pick :
             /\ pick.planned = taken
             /\ new.need = Without(acc.need, pick.planned)
             /\ new.picks = Append(acc.picks, pick)
  BY TakeFromParts
<1>2. stock[loc] \in Seq(Sku)
  BY DEF Stock
<1>3. PICK n \in 0..Len(stock[loc]) : taken = SubSeq(stock[loc], 1, n) /\ Within(taken, acc.need)
  BY <1>1, <1>2, NeededFromSlot
<1> DEFINE rest == SubSeq(stock[loc], n + 1, Len(stock[loc]))
<1>4. /\ rest \in Seq(Sku)
      /\ \A x : Count(stock[loc], x) = Count(taken, x) + Count(rest, x)
  BY <1>2, <1>3, CountPrefix
<1> HIDE DEF taken, new, rest
<1>5. \A x : Count(taken, x) \in Nat /\ Count(rest, x) \in Nat /\ Count(acc.need, x) \in Nat
  BY <1>1, <1>4, CountType
<1>6. \A x : Count(taken, x) <= Count(stock[loc], x)
  BY <1>4, <1>5
<1>7. CASE taken = <<>>
  <2>1. \A x : Count(taken, x) = 0
    BY <1>7, CountOne
  <2>2. \A x : Count(new.need, x) = Count(acc.need, x) - Count(taken, x)
    BY <1>1, <1>5, <1>7, <2>1
  <2> QED
    BY <1>1, <1>3, <1>6, <1>7, <2>2 DEF taken, new
<1>8. CASE taken # <<>>
  <2>1. PICK pick \in Pick : /\ new.need = Without(acc.need, taken)
                             /\ new.picks = Append(acc.picks, pick)
    BY <1>1, <1>8
  <2>2. \A x : Count(Without(acc.need, taken), x) = Count(acc.need, x) - Count(taken, x)
    <3>1. PICK s \in Seq(Sku), b \in Seq(Sku) : s = acc.need /\ b = taken
      BY <1>1
    <3>2. Within(b, s)
      BY <1>3, <3>1
    <3>3. \A x : Count(Without(s, b), x) = Count(s, x) - Count(b, x)
      BY ONLY <3>2, s \in Seq(Sku), b \in Seq(Sku), WithoutCount
    <3> QED
      BY <3>1, <3>3
  <2>3. new.picks # <<>>
    <3>1. Len(new.picks) = Len(acc.picks) + 1 /\ Len(acc.picks) \in Nat
      BY <1>1, <2>1
    <3>2. Len(<<>>) = 0
      OBVIOUS
    <3> QED
      BY <3>1, <3>2
  <2> QED
    BY <1>1, <1>3, <1>6, <2>1, <2>2, <2>3 DEF taken, new
<1> QED
  BY <1>7, <1>8

(* One slot more: what is needed of its boxes is taken from it. *)
LEMMA EmptyOne ==
  ASSUME inv \in Stock, NEW goods \in Seq(Sku), Unambiguous(goods),
         NEW depth, Leaves(goods, depth),
         NEW order \in Seq(Location), \A j \in 1..Len(order) : order[j] \in Reached(inv),
         \A j, k \in 1..Len(order) : order[j] = order[k] => j = k,
         NEW i \in Nat, i + 1 <= Len(order), NEW acc, Emptied(acc, goods, order, i),
         NEW new, new = TakeFrom(acc, order[i + 1], inv)
  PROVE  Emptied(new, goods, order, i + 1)
<1>1. i + 1 \in 1..Len(order) /\ \A j \in 1..i : j \in 1..Len(order) /\ j # i + 1
  OBVIOUS
<1>2. PICK loc \in Location : loc = order[i + 1]
  BY <1>1, ElementOfSeq
<1>3. acc \in Filling /\ acc.need \in Seq(Sku) /\ Within(acc.need, goods)
  BY DEF Emptied, Filling
<1>4. PICK slot \in Seq(Sku) : slot = inv[loc]
  BY DEF Stock
<1>5. PICK taken : taken = goods_needed_from_slot(slot, acc.need)
  OBVIOUS
<1>6. /\ new \in Filling /\ taken \in Seq(Sku) /\ Within(taken, acc.need)
      /\ \A x : Count(taken, x) <= Count(slot, x)
      /\ \A x : Count(new.need, x) = Count(acc.need, x) - Count(taken, x)
      /\ new.picks = <<>> => acc.picks = <<>> /\ new.need = acc.need
  <2>1. /\ TakeFrom(acc, loc, inv) \in Filling
        /\ goods_needed_from_slot(inv[loc], acc.need) \in Seq(Sku)
        /\ Within(goods_needed_from_slot(inv[loc], acc.need), acc.need)
        /\ \A x : Count(goods_needed_from_slot(inv[loc], acc.need), x) <= Count(inv[loc], x)
        /\ \A x : Count(TakeFrom(acc, loc, inv).need, x)
                    = Count(acc.need, x) - Count(goods_needed_from_slot(inv[loc], acc.need), x)
        /\ TakeFrom(acc, loc, inv).picks = <<>> =>
             acc.picks = <<>> /\ TakeFrom(acc, loc, inv).need = acc.need
    BY <1>3, TakeFromNeeds
  <2>2. new = TakeFrom(acc, loc, inv) /\ taken = goods_needed_from_slot(inv[loc], acc.need)
    BY <1>2, <1>4, <1>5
  <2> QED
    BY <1>4, <2>1, <2>2
<1>7. \A x : /\ Count(taken, x) \in Nat /\ Count(acc.need, x) \in Nat
             /\ Count(goods, x) \in Nat /\ Count(slot, x) \in Nat
  BY <1>3, <1>6, CountType
(* A slot that holds a box of the package serves it. *)
<1>8. ASSUME NEW x, Count(goods, x) # 0, NEW l \in Reached(inv), Count(inv[l], x) # 0
      PROVE  l \in FrontSlotsFor(goods) /\ x \in ToSet(inv[l]) /\ x \in ToSet(goods)
  <2>1. l \in Location /\ IsFront(l) /\ inv[l] \in Seq(Sku)
    BY DEF Reached, Stock
  <2>2. x \in ToSet(inv[l]) /\ x \in ToSet(goods)
    BY <1>8, <2>1, CountsIfThere
  <2> QED
    BY <2>1, <2>2 DEF FrontSlotsFor, Wanted
(* So it is the only one to hold this box. *)
<1>9. ASSUME NEW x, Count(goods, x) # 0, Count(slot, x) # 0
      PROVE  /\ \A j \in 1..i : Count(inv[order[j]], x) = 0
             /\ Count(acc.need, x) = Count(goods, x) /\ loc \in FrontSlotsFor(goods)
  <2>1. loc \in FrontSlotsFor(goods) /\ x \in ToSet(inv[loc]) /\ x \in ToSet(goods)
    BY <1>1, <1>2, <1>4, <1>8, <1>9
  <2>2. ASSUME NEW j \in 1..i, Count(inv[order[j]], x) # 0
        PROVE  FALSE
    <3>1. order[j] \in FrontSlotsFor(goods) /\ x \in ToSet(inv[order[j]])
      BY <1>1, <1>8, <1>9, <2>2
    <3>2. order[j] = loc
      BY <2>1, <3>1 DEF Unambiguous
    <3> QED
      BY <1>1, <1>2, <3>2
  <2> QED
    BY <1>9, <2>1, <2>2 DEF Emptied
(* All that is needed of it leaves. *)
<1>10. ASSUME NEW x, Count(goods, x) # 0, Count(slot, x) # 0
       PROVE  Count(taken, x) = Count(goods, x)
  <2> DEFINE top == SubSeq(slot, 1, depth[loc])
  <2>1. loc \in FrontSlotsFor(goods)
    BY <1>9, <1>10
  <2>2. /\ depth[loc] \in 0..Len(slot) /\ Within(top, goods)
        /\ Count(top, x) = Count(goods, x)
    BY <1>4, <1>10, <2>1 DEF Leaves
  <2>3. /\ top \in Seq(Sku)
        /\ \A y : Count(top, y) \in Nat /\ (Count(top, y) # 0 => Count(slot, y) # 0)
    <3> DEFINE rest == SubSeq(slot, depth[loc] + 1, Len(slot))
    <3>1. /\ top \in Seq(Sku) /\ rest \in Seq(Sku)
          /\ \A y : Count(slot, y) = Count(top, y) + Count(rest, y)
      BY <2>2, CountPrefix
    <3> HIDE DEF top, rest
    <3>2. \A y : Count(top, y) \in Nat /\ Count(rest, y) \in Nat
      BY <3>1, CountType
    <3> QED
      BY <3>1, <3>2
  <2>4. Within(top, acc.need)
    <3> SUFFICES ASSUME NEW y PROVE Count(top, y) <= Count(acc.need, y)
      BY DEF Within
    <3>1. Count(top, y) \in Nat /\ Count(top, y) <= Count(goods, y)
      BY <2>2, <2>3 DEF Within
    <3> HIDE DEF top
    <3>2. CASE Count(top, y) = 0
      BY <1>7, <3>2
    <3>3. CASE Count(top, y) # 0
      <4>1. Count(slot, y) # 0 /\ Count(goods, y) # 0
        BY <1>7, <2>3, <3>1, <3>3
      <4> QED
        BY <1>9, <3>1, <4>1
    <3> QED
      BY <3>2, <3>3
  <2>5. Count(top, x) <= Count(taken, x)
    BY <1>3, <1>5, <2>2, <2>4, NeededMost DEF Within
  <2>6. Count(taken, x) <= Count(acc.need, x) /\ Count(acc.need, x) <= Count(goods, x)
    BY <1>3, <1>6 DEF Within
  <2> QED
    BY <1>7, <2>2, <2>5, <2>6
<1>11. ASSUME NEW x, Count(goods, x) # 0
       PROVE  Count(new.need, x) = IF \E j \in 1..(i + 1) : Count(inv[order[j]], x) # 0
                                   THEN 0 ELSE Count(goods, x)
  <2>1. Count(new.need, x) = Count(acc.need, x) - Count(taken, x)
    BY <1>6
  <2>2. CASE Count(slot, x) # 0
    <3>1. Count(taken, x) = Count(goods, x) /\ Count(acc.need, x) = Count(goods, x)
      BY <1>9, <1>10, <1>11, <2>2
    <3>2. Count(new.need, x) = 0
      BY <1>7, <2>1, <3>1
    <3>3. \E j \in 1..(i + 1) : Count(inv[order[j]], x) # 0
      BY <1>2, <1>4, <2>2
    <3> QED
      BY <3>2, <3>3
  <2>3. CASE Count(slot, x) = 0
    <3>1. Count(taken, x) = 0
      BY <1>6, <1>7, <2>3
    <3>2. Count(new.need, x) = Count(acc.need, x)
      BY <1>7, <2>1, <3>1
    <3>3. (\E j \in 1..(i + 1) : Count(inv[order[j]], x) # 0)
            <=> \E j \in 1..i : Count(inv[order[j]], x) # 0
      <4>1. \A j \in 1..(i + 1) : j \in 1..i \/ j = i + 1
        OBVIOUS
      <4>2. \A j \in 1..i : j \in 1..(i + 1)
        OBVIOUS
      <4> QED
        BY <1>2, <1>4, <2>3, <4>1, <4>2
    <3>4. Count(acc.need, x) = IF \E j \in 1..i : Count(inv[order[j]], x) # 0
                               THEN 0 ELSE Count(goods, x)
      BY <1>11 DEF Emptied
    <3> QED
      BY <3>2, <3>3, <3>4
  <2> QED
    BY <2>2, <2>3
<1>12. Within(new.need, goods)
  <2> SUFFICES ASSUME NEW x PROVE Count(new.need, x) <= Count(goods, x)
    BY DEF Within
  <2>1. Count(acc.need, x) <= Count(goods, x)
    BY <1>3 DEF Within
  <2> QED
    BY <1>6, <1>7, <2>1
<1>13. new.picks = <<>> => new.need = goods
  BY <1>6 DEF Emptied
<1> QED
  BY <1>6, <1>11, <1>12, <1>13 DEF Emptied

(* When the slots are no fuller than a gripper can take, a package that can    *)
(* leave is found slots for.                                                   *)
LEMMA ChoiceFinds ==
  ASSUME inv \in Stock, NEW goods \in Seq(Sku), goods # <<>>,
         \A loc \in Location : Len(inv[loc]) <= MAX_GRIPPER_COUNT,
         Unambiguous(goods), CanLeave(goods)
  PROVE  choose_slots_for_package(goods, inv, {}) # <<>>
<1>1. PICK order : order = SlotOrder(inv, {})
  OBVIOUS
<1>2. /\ order \in Seq(Location) /\ Range(order) = Reached(inv)
      /\ \A i, j \in 1..Len(order) : order[i] = order[j] => i = j
  BY <1>1, SlotOrderSlots
<1>3. PICK f : /\ Fills(goods, inv, order, f)
               /\ choose_slots_for_package(goods, inv, {})
                    = IF f[Len(order)].need = <<>> THEN f[Len(order)].picks ELSE <<>>
  BY <1>1, ChoiceFills
<1>4. PICK depth : Leaves(goods, depth)
  BY LeavesSomehow
<1>5. PICK n \in Nat : n = Len(order)
  BY <1>2
<1>6. /\ \A j \in 1..n : order[j] \in Reached(inv)
      /\ \A loc \in Reached(inv) : \E j \in 1..n : order[j] = loc
  <2>1. Range(order) = {order[j] : j \in 1..n}
    BY <1>2, <1>5 DEF Range
  <2> QED
    BY <1>2, <2>1
<1>7. \A i \in 0..n : f[i] = IF i = 0 THEN [need |-> goods, picks |-> <<>>]
                             ELSE TakeFrom(f[i - 1], order[i], inv)
  BY <1>3, <1>5 DEF Fills
<1> DEFINE T == {i \in Nat : i <= n => Emptied(f[i], goods, order, i)}
<1>8. 0 \in T
  <2>1. f[0] = [need |-> goods, picks |-> <<>>]
    BY <1>7
  <2>2. f[0].need = goods /\ f[0].picks = <<>> /\ f[0] \in Filling
    BY <2>1, RangeEmpty DEF Filling
  <2>3. Within(goods, goods)
    <3>1. \A x : Count(goods, x) \in Nat
      BY CountType
    <3> QED
      BY <3>1 DEF Within
  <2>4. 1..0 = {}
    OBVIOUS
  <2> QED
    BY <2>2, <2>3, <2>4 DEF Emptied
<1>9. ASSUME NEW i \in Nat, i \in T
      PROVE  i + 1 \in T
  <2> SUFFICES ASSUME i + 1 <= n PROVE Emptied(f[i + 1], goods, order, i + 1)
    OBVIOUS
  <2>1. i + 1 \in 0..n /\ i + 1 # 0 /\ (i + 1) - 1 = i /\ i <= n
    OBVIOUS
  <2>2. Emptied(f[i], goods, order, i)
    BY <1>9, <2>1
  <2>3. f[i + 1] = TakeFrom(f[i], order[i + 1], inv)
    BY <1>7, <2>1
  <2> QED
    BY <1>2, <1>4, <1>5, <1>6, <2>2, <2>3, EmptyOne
<1> HIDE DEF T
<1>10. n \in T
  BY ONLY n \in Nat, <1>8, <1>9, SetInduction
<1>11. PICK acc : acc = f[n]
  OBVIOUS
<1>12. Emptied(acc, goods, order, n)
  BY <1>10, <1>11 DEF T
<1>13. acc.need \in Seq(Sku) /\ Within(acc.need, goods)
  BY <1>12 DEF Emptied, Filling
<1>14. ASSUME NEW x PROVE Count(acc.need, x) = 0
  <2>1. Count(acc.need, x) \in Nat /\ Count(goods, x) \in Nat
        /\ Count(acc.need, x) <= Count(goods, x)
    BY <1>13, CountType DEF Within
  <2>2. CASE Count(goods, x) = 0
    BY <2>1, <2>2
  <2>3. CASE Count(goods, x) # 0
    <3>1. PICK loc \in FrontSlotsFor(goods) : Count(inv[loc], x) # 0
      BY <1>4, <2>3 DEF Leaves
    <3>2. loc \in Location /\ IsFront(loc) /\ inv[loc] \in Seq(Sku)
      BY DEF FrontSlotsFor, Stock
    <3>3. Len(inv[loc]) \in 1..MAX_GRIPPER_COUNT
      <4>1. Count(inv[loc], x) <= Len(inv[loc]) /\ Count(inv[loc], x) \in Nat
        BY <3>2, CountType
      <4>2. PICK k \in Nat : k = Len(inv[loc])
        BY <3>2, LenProperties
      <4>3. k <= MAX_GRIPPER_COUNT
        BY <3>2, <4>2
      <4>4. k # 0
        BY <3>1, <4>1, <4>2
      <4>5. k \in 1..MAX_GRIPPER_COUNT
        BY <4>3, <4>4 DEF MAX_GRIPPER_COUNT
      <4> QED
        BY <4>2, <4>5
    <3>4. loc \in Reached(inv)
      BY <3>2, <3>3 DEF Reached
    <3>5. \E j \in 1..n : Count(inv[order[j]], x) # 0
      BY <1>6, <3>1, <3>4
    <3> QED
      BY <1>12, <2>3, <3>5 DEF Emptied
  <2> QED
    BY <2>2, <2>3
<1>15. acc.need = <<>>
  <2>1. \A k \in DOMAIN acc.need : acc.need[k] # acc.need[k]
    BY <1>13, <1>14, CountType
  <2>2. PICK k \in Nat : k = Len(acc.need) /\ DOMAIN acc.need = 1..k
    BY <1>13, LenProperties
  <2>3. k = 0
    <3>1. k # 0 => 1 \in 1..k
      OBVIOUS
    <3> QED
      BY <2>1, <2>2, <3>1
  <2> QED
    BY <1>13, <2>2, <2>3, EmptySeq
<1>16. acc.picks # <<>>
  BY <1>12, <1>15 DEF Emptied
<1> QED
  BY <1>3, <1>5, <1>11, <1>15, <1>16

(* No slot of the simulated inventory holds more than there is room for. *)
Roomy == \A loc \in Location : Len(inv[loc]) <= SLOT_CAPACITY

(* Taking boxes leaves room. *)
LEMMA TakesLeaveRoom ==
  ASSUME inv \in Stock, Roomy, NEW info, Takes(info)
  PROVE  Roomy'
<1>1. PICK picks : PicksOf(picks, inv) /\ inv' = AfterPicks(inv, picks)
  BY DEF Takes
<1>2. LeftBy(inv', picks, inv)
  BY <1>1, AfterPicksAt
<1> SUFFICES ASSUME NEW loc \in Location PROVE Len(inv'[loc]) <= SLOT_CAPACITY
  BY DEF Roomy
<1>3. PICK pile \in Seq(Sku) : pile = inv[loc] /\ Len(pile) <= SLOT_CAPACITY
  BY DEF Stock, Roomy
<1>4. CASE \A i \in 1..Len(picks) : picks[i].loc # loc
  BY <1>2, <1>3, <1>4 DEF LeftBy
<1>5. CASE \E i \in 1..Len(picks) : picks[i].loc = loc
  <2>1. PICK i \in 1..Len(picks) : picks[i].loc = loc
    BY <1>5
  <2>2. picks[i].planned \in Seq(Sku) /\ Len(picks[i].planned) <= Len(pile)
    BY <1>1, <1>3, <2>1, PicksParts DEF PicksOf
  <2>3. PICK k \in Nat : k = Len(picks[i].planned) /\ k <= Len(pile)
    BY <2>2, LenProperties
  <2>4. inv'[loc] = SubSeq(pile, k + 1, Len(pile))
    BY <1>2, <1>3, <2>1, <2>3 DEF LeftBy
  <2>5. k \in 0..Len(pile)
    BY <2>3
  <2>6. Len(SubSeq(pile, k + 1, Len(pile))) = Len(pile) - k
    BY <2>5, CountPrefix
  <2>7. Len(pile) \in Nat /\ SLOT_CAPACITY \in Nat
    BY DEF SLOT_CAPACITY
  <2> QED
    BY <1>3, <2>3, <2>4, <2>6, <2>7
<1> QED
  BY <1>4, <1>5

(* A pile that comes from another slot of a roomy inventory, or none, leaves   *)
(* room.                                                                       *)
Settled(stock, new) ==
  \A l \in Location : new[l] = <<>> \/ \E m \in Location : new[l] = stock[m]

LEMMA SettledRoomy ==
  ASSUME Roomy, Settled(inv, inv')
  PROVE  Roomy'
<1>1. Len(<<>>) <= SLOT_CAPACITY
  BY DEF SLOT_CAPACITY
<1> QED
  BY <1>1 DEF Roomy, Settled

(* Refilling brings piles to other slots. *)
LEMMA ShiftLeavesRoom ==
  ASSUME Roomy, ShiftBackGoods
  PROVE  Roomy'
<1>1. inv' = [loc \in Location |->
               IF ~Shiftable(LevelOf(loc)) THEN inv[loc]
               ELSE IF IsFront(loc) THEN inv[BackOf(loc)] ELSE <<>>]
  BY DEF ShiftBackGoods
<1>2. \A l \in Location : IsFront(l) => BackOf(l) \in Location
  BY Geometry
<1>3. Settled(inv, inv')
  BY <1>1, <1>2 DEF Settled
<1> QED
  BY <1>3, SettledRoomy

(* So does moving a pile aside, also when a layer is backed off first. *)
LEMMA AdjustLeavesRoom ==
  ASSUME inv \in Stock, Roomy, TypeOK, Posed, AdjustLocation
  PROVE  Roomy'
<1>1. PICK level, to, from, cleared :
        /\ from = BlockingSlot /\ inv' = MoveGoods(cleared, from, to)
        /\ cleared = inv \/ cleared = FrontToBack(inv, level)
        /\ \E p \in pending : HasBlocked(p)
  BY Zenon DEF AdjustLocation, CanAdjust
<1>2. from \in Location
  BY <1>1, BlockingSlotFound
<1>3. cleared \in [Location -> Seq(Sku)] /\ Settled(inv, cleared)
  <2>1. inv \in [Location -> Seq(Sku)] /\ <<>> \in Seq(Sku)
    BY RangeEmpty DEF Stock
  <2>2. CASE cleared = inv
    BY <2>1, <2>2 DEF Settled
  <2>3. CASE cleared = FrontToBack(inv, level)
    <3>1. \A l \in Location : l \in BackSlots(level) => FrontOf(l) \in Location
      <4> SUFFICES ASSUME NEW l \in Location, l \in BackSlots(level)
                   PROVE  FrontOf(l) \in Location
        OBVIOUS
      <4>1. ~IsFront(l)
        BY DEF BackSlots, Slot, IsFront
      <4> QED
        BY <4>1, Geometry
    <3> QED
      BY <2>1, <2>3, <3>1 DEF FrontToBack, Settled
  <2> QED
    BY <1>1, <2>2, <2>3
<1>4. \A l \in Location : inv'[l] = <<>> \/ inv'[l] = cleared[l] \/ inv'[l] = cleared[from]
  BY <1>1, <1>2, <1>3 DEF MoveGoods
<1>5. Settled(inv, inv')
  BY <1>2, <1>3, <1>4 DEF Settled
<1> QED
  BY <1>5, SettledRoomy

(* The inductive invariant: what the search holds, and room in the slots. *)
RoomInv == SearchInv /\ Roomy

(* Every step leaves room in the slots. *)
LEMMA RoomKept == RoomInv /\ [Next]_vars => RoomInv'
<1> SUFFICES ASSUME SearchInv, Roomy, [Next]_vars PROVE SearchInv' /\ Roomy'
  BY DEF RoomInv
<1>1. SearchInv'
  BY SearchKept
<1> SUFFICES Roomy'
  BY <1>1
<1>2. Posed /\ TypeOK /\ inv \in Stock
  BY StateParts DEF SearchInv
<1>3. CASE SelectPackage
  BY <1>2, <1>3, SelectTakes, TakesLeaveRoom
<1>4. CASE ShiftBackGoods
  BY <1>4, ShiftLeavesRoom
<1>5. CASE TakeOwnBlocker
  BY <1>2, <1>5, OwnBlockerTakes, TakesLeaveRoom
<1>6. CASE AdjustLocation
  BY <1>2, <1>6, AdjustLeavesRoom
<1>7. CASE inv' = inv
  BY <1>7 DEF Roomy
<1> QED
  BY <1>3, <1>4, <1>5, <1>6, <1>7
     DEF Next, Over, Unschedulable, BuildPlan, vars, given

(* No package is moved for, or given up, that could leave at once: whenever    *)
(* the boxes it needs stand in front, none of them in two slots, and can leave *)
(* together, choosing slots one by one, each as much as possible, finds them.  *)
(* It rests on the room in the slots: a gripper takes from no slot with more   *)
(* than four boxes, and the search never fills one so far.                     *)
THEOREM ChoiceFindsWhatLeavesHolds == Spec => []ChoiceFindsWhatLeaves
<1>1. Init => RoomInv
  <2> SUFFICES ASSUME Init PROVE SearchInv /\ Roomy
    BY DEF RoomInv
  <2>1. Roomy
    BY CapacityAssumption DEF Init, Roomy
  <2> QED
    BY <2>1, SearchStarts
<1>2. RoomInv => ChoiceFindsWhatLeaves
  <2> SUFFICES ASSUME SearchInv, Roomy, NEW p \in pending, remaining[p] # <<>>,
                      Unambiguous(remaining[p]), CanLeave(remaining[p])
               PROVE  choose_slots_for_package(remaining[p], inv, {}) # <<>>
    BY DEF RoomInv, ChoiceFindsWhatLeaves
  <2>1. inv \in Stock /\ remaining[p] \in Seq(Sku)
    BY StateParts DEF SearchInv
  <2>2. \A loc \in Location : Len(inv[loc]) <= MAX_GRIPPER_COUNT
    BY DEF Roomy, SLOT_CAPACITY, MAX_GRIPPER_COUNT
  <2> QED
    BY <2>1, <2>2, ChoiceFinds
<1> QED
  BY <1>1, <1>2, RoomKept, PTL DEF Spec
=============================================================================
