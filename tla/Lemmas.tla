------------------------------- MODULE Lemmas -------------------------------
(***************************************************************************)
(* Facts about iterations and sequences that the proofs of more than one   *)
(* module use.  They are stated for sets and functions, not for operators. *)
(***************************************************************************)
EXTENDS Integers, SequencesExt, SequenceTheorems, FiniteSetTheorems,
        WellFoundedInduction, TLAPS

-----------------------------------------------------------------------------
(* Induction and iteration. *)

\* A set of numbers has a least one.
LEMMA LeastOf ==
  ASSUME NEW T, T \subseteq Nat, T # {}
  PROVE  \E m \in T : \A k \in T : m <= k
<1>1. PICK m \in T : \A k \in T : <<k, m>> \notin OpToRel(<, Nat)
  BY NatLessThanWellFounded, WFMin, Zenon
<1>2. \A k \in T : ~(k < m)
  BY <1>1 DEF OpToRel
<1>3. \A k \in T : m <= k
  BY <1>2
<1> QED BY <1>3

\* Induction up to a number, as a fact about sets.
LEMMA UpTo ==
  ASSUME NEW n \in Nat, NEW T, 0 \in T, \A k \in 0 .. n - 1 : k \in T => k + 1 \in T
  PROVE  \A k \in 0 .. n : k \in T
<1> DEFINE Bad == {k \in 0 .. n : k \notin T}
<1> SUFFICES ASSUME Bad # {} PROVE FALSE
  OBVIOUS
<1>1. Bad \subseteq Nat
  OBVIOUS
<1>2. PICK m \in Bad : \A k \in Bad : m <= k
  <2> HIDE DEF Bad
  <2> QED BY <1>1, LeastOf
<1>3. m \in 0 .. n /\ m \notin T /\ m # 0
  OBVIOUS
<1>4. m - 1 \in 0 .. n - 1 /\ m - 1 \in T
  BY <1>2, <1>3
<1> QED BY <1>3, <1>4

\* n values are too few for n + 1 places.
LEMMA TooFew ==
  ASSUME NEW n \in Nat, NEW f \in [0 .. n -> 0 .. n - 1]
  PROVE  \E i, j \in 0 .. n : i < j /\ f[i] = f[j]
<1>1. IsFiniteSet(0 .. n) /\ Cardinality(0 .. n) = n + 1
  BY FS_Interval
<1>2. IsFiniteSet(0 .. n - 1) /\ Cardinality(0 .. n - 1) = n
  <2>1. CASE n = 0
    BY <2>1, FS_Interval
  <2>2. CASE n # 0
    BY <2>2, FS_Interval
  <2> QED BY <2>1, <2>2
<1>3. PICK i, j \in 0 .. n : i # j /\ f[i] = f[j]
  <2> DEFINE S == 0 .. n
             T == 0 .. n - 1
  <2>1. /\ IsFiniteSet(S) /\ IsFiniteSet(T) /\ Cardinality(T) < Cardinality(S)
        /\ f \in [S -> T]
    BY <1>1, <1>2
  <2> HIDE DEF S, T
  <2>2. \E i, j \in S : i # j /\ f[i] = f[j]
    BY <2>1, FS_PigeonHole
  <2> QED BY <2>2 DEF S
<1> QED BY <1>3

\* What the steps make of a value of A, one after the other.
AreSteps(step, n, A) == step \in [1 .. n -> [A -> A]]
Iterates(f, base, step, n, A) ==
  f \in [0 .. n -> A] /\ f[0] = base /\ \A i \in 1 .. n : f[i] = step[i][f[i - 1]]

\* Steps can be taken one after the other.
LEMMA Iteration ==
  ASSUME NEW A, NEW base \in A, NEW n \in Nat, NEW step, AreSteps(step, n, A)
  PROVE  \E f : Iterates(f, base, step, n, A)
<1> USE DEF AreSteps
<1> DEFINE Works(k, f) == f[0] = base /\ \A i \in 1 .. k : f[i] = step[i][f[i - 1]]
           Has(k) == \E f \in [0 .. k -> A] : Works(k, f)
           T == {k \in 0 .. n : Has(k)}
<1>1. Has(0)
  <2> DEFINE g == [i \in 0 .. 0 |-> base]
  <2>1. Works(0, g) /\ g \in [0 .. 0 -> A]
    OBVIOUS
  <2> QED BY <2>1
<1>2. ASSUME NEW k \in 0 .. n - 1, Has(k)
      PROVE  Has(k + 1)
  <2>0. PICK f \in [0 .. k -> A] : Works(k, f)
    BY <1>2
  <2> DEFINE g == [i \in 0 .. k + 1 |-> IF i = k + 1 THEN step[k + 1][f[k]] ELSE f[i]]
  <2>1. k + 1 \in 1 .. n /\ f[k] \in A /\ step[k + 1] \in [A -> A]
    OBVIOUS
  <2>2. g \in [0 .. k + 1 -> A] /\ g[0] = base
    BY <2>0, <2>1
  <2>3. ASSUME NEW i \in 1 .. k + 1
        PROVE  g[i] = step[i][g[i - 1]]
    <3>1. CASE i = k + 1
      BY <3>1
    <3>2. CASE i # k + 1
      <4>1. i \in 1 .. k /\ i - 1 \in 0 .. k + 1 /\ i - 1 # k + 1
        BY <3>2
      <4>2. g[i] = f[i] /\ g[i - 1] = f[i - 1]
        BY <4>1, <3>2
      <4> QED BY <4>1, <4>2, <2>0
    <3> QED BY <3>1, <3>2
  <2>4. Works(k + 1, g)
    BY <2>2, <2>3
  <2> HIDE DEF g, Works
  <2> QED BY <2>2, <2>4
<1> HIDE DEF Has
<1>3. n \in T
  <2>1. 0 \in T /\ \A k \in 0 .. n - 1 : k \in T => k + 1 \in T
    BY <1>1, <1>2
  <2> HIDE DEF T
  <2>2. \A k \in 0 .. n : k \in T
    BY <2>1, UpTo
  <2> QED BY <2>2
<1>5. PICK f \in [0 .. n -> A] : Works(n, f)
  BY <1>3 DEF Has
<1> QED BY <1>5 DEF Iterates

-----------------------------------------------------------------------------
(* Sequences, their elements, and whether these are different. *)

\* The elements from the m-th to the n-th.
LEMMA Portion ==
  ASSUME NEW S, NEW s \in Seq(S), NEW m \in Nat \ {0}, NEW n \in Nat,
         n <= Len(s), m <= n + 1
  PROVE  /\ SubSeq(s, m, n) \in Seq(S)
         /\ Len(SubSeq(s, m, n)) = n - m + 1
         /\ DOMAIN SubSeq(s, m, n) = 1 .. n - m + 1
         /\ \A j \in 1 .. n - m + 1 : SubSeq(s, m, n)[j] = s[j + m - 1]
<1>1. Len(s) \in Nat /\ \A i \in m .. n : s[i] \in S
  OBVIOUS
<1>2. /\ SubSeq(s, m, n) \in Seq(S)
      /\ Len(SubSeq(s, m, n)) = IF m <= n THEN n - m + 1 ELSE 0
      /\ \A i \in 1 .. n - m + 1 : SubSeq(s, m, n)[i] = s[m + i - 1]
  BY <1>1, SubSeqProperties
<1>3. Len(SubSeq(s, m, n)) = n - m + 1
  BY <1>2
<1> QED BY <1>2, <1>3, LenProperties

\* An element at the end.
LEMMA Appended ==
  ASSUME NEW S, NEW s \in Seq(S), NEW e \in S
  PROVE  /\ Append(s, e) \in Seq(S)
         /\ Len(Append(s, e)) = Len(s) + 1
         /\ ToSet(Append(s, e)) = ToSet(s) \cup {e}
         /\ IsInjective(s) /\ e \notin ToSet(s) => IsInjective(Append(s, e))
<1> DEFINE t == Append(s, e)
<1>1. t \in Seq(S) /\ Len(t) = Len(s) + 1 /\ Len(s) \in Nat
  OBVIOUS
<1>2. t[Len(s) + 1] = e /\ \A i \in 1 .. Len(s) : t[i] = s[i]
  OBVIOUS
<1>3. DOMAIN t = 1 .. Len(t) /\ DOMAIN s = 1 .. Len(s)
  BY <1>1
<1> HIDE DEF t
<1>4. ToSet(t) = ToSet(s) \cup {e}
  BY <1>1, <1>2, <1>3 DEF ToSet
<1>5. IsInjective(s) /\ e \notin ToSet(s) => IsInjective(t)
  BY <1>1, <1>2, <1>3 DEF ToSet, IsInjective
<1> QED BY <1>1, <1>4, <1>5 DEF t

\* An element in front of the i-th one.
LEMMA Inserted ==
  ASSUME NEW S, NEW s \in Seq(S), NEW e \in S, NEW i \in 1 .. Len(s) + 1
  PROVE  /\ InsertAt(s, i, e) \in Seq(S)
         /\ Len(InsertAt(s, i, e)) = Len(s) + 1
         /\ ToSet(InsertAt(s, i, e)) = ToSet(s) \cup {e}
         /\ IsInjective(s) /\ e \notin ToSet(s) => IsInjective(InsertAt(s, i, e))
<1> DEFINE t == InsertAt(s, i, e)
           a == SubSeq(s, 1, i - 1)
           b == SubSeq(s, i, Len(s))
<1>1. Len(s) \in Nat /\ DOMAIN s = 1 .. Len(s)
  OBVIOUS
<1>2. /\ a \in Seq(S) /\ Len(a) = i - 1 /\ \A j \in 1 .. i - 1 : a[j] = s[j]
      /\ b \in Seq(S) /\ Len(b) = Len(s) + 1 - i
      /\ \A j \in 1 .. Len(s) + 1 - i : b[j] = s[j + i - 1]
  <2>1. /\ a \in Seq(S) /\ Len(a) = (i - 1) - 1 + 1
        /\ \A j \in 1 .. (i - 1) - 1 + 1 : a[j] = s[j + 1 - 1]
    <3>1. i - 1 \in Nat /\ i - 1 <= Len(s) /\ 1 <= (i - 1) + 1
      BY <1>1
    <3> QED BY <3>1, Portion
  <2>2. /\ b \in Seq(S) /\ Len(b) = Len(s) - i + 1
        /\ \A j \in 1 .. Len(s) - i + 1 : b[j] = s[j + i - 1]
    <3>1. i \in Nat \ {0} /\ i <= Len(s) + 1 /\ Len(s) <= Len(s)
      BY <1>1
    <3> QED BY <3>1, <1>1, Portion
  <2> HIDE DEF a, b
  <2>3. (i - 1) - 1 + 1 = i - 1 /\ Len(s) - i + 1 = Len(s) + 1 - i
    BY <1>1
  <2>4. \A j \in 1 .. i - 1 : j + 1 - 1 = j
    OBVIOUS
  <2> QED BY <2>1, <2>2, <2>3, <2>4
<1>3. t = a \o <<e>> \o b
  BY DEF InsertAt
<1> HIDE DEF a, b, t
<1>4. t \in Seq(S) /\ Len(t) = Len(s) + 1 /\ DOMAIN t = 1 .. Len(s) + 1
  <2>1. a \o <<e>> \in Seq(S) /\ Len(a \o <<e>>) = i
    BY <1>2
  <2>2. t \in Seq(S) /\ Len(t) = i + Len(b)
    BY <1>2, <1>3, <2>1, ConcatProperties
  <2> QED BY <1>1, <1>2, <2>2, LenProperties
<1>5. \A j \in 1 .. Len(s) + 1 : t[j] = IF j < i THEN s[j] ELSE IF j = i THEN e ELSE s[j - 1]
  <2>1. a \o <<e>> \in Seq(S) /\ Len(a \o <<e>>) = i
    BY <1>2
  <2>2. \A j \in 1 .. i : (a \o <<e>>)[j] = IF j < i THEN s[j] ELSE e
    BY <1>2
  <2>3. \A j \in 1 .. Len(s) + 1 :
          t[j] = IF j <= i THEN (a \o <<e>>)[j] ELSE b[j - i]
    BY <1>1, <1>2, <1>3, <2>1, ConcatProperties
  <2> QED BY <1>1, <1>2, <2>2, <2>3
<1>6. ToSet(t) = ToSet(s) \cup {e}
  <2>1. \A j \in 1 .. Len(s) : t[IF j < i THEN j ELSE j + 1] = s[j]
    BY <1>1, <1>5
  <2>2. t[i] = e
    BY <1>5
  <2>3. ToSet(t) \subseteq ToSet(s) \cup {e}
    <3> SUFFICES ASSUME NEW j \in 1 .. Len(s) + 1
                 PROVE  t[j] \in ToSet(s) \cup {e}
      BY <1>4 DEF ToSet
    <3>1. j # i => (IF j < i THEN j ELSE j - 1) \in 1 .. Len(s)
      BY <1>1
    <3> QED BY <1>1, <1>5, <3>1 DEF ToSet
  <2>4. ToSet(s) \cup {e} \subseteq ToSet(t)
    BY <1>1, <1>4, <2>1, <2>2 DEF ToSet
  <2> QED BY <2>3, <2>4
<1>7. ASSUME IsInjective(s), e \notin ToSet(s)
      PROVE  IsInjective(t)
  <2>1. \A j \in 1 .. Len(s) : s[j] # e
    BY <1>1, <1>7 DEF ToSet
  <2> SUFFICES ASSUME NEW j \in 1 .. Len(s) + 1, NEW k \in 1 .. Len(s) + 1, t[j] = t[k]
               PROVE  j = k
    BY <1>4 DEF IsInjective
  <2>2. \A a1, b1 \in 1 .. Len(s) : s[a1] = s[b1] => a1 = b1
    BY <1>1, <1>7 DEF IsInjective
  <2>3. CASE j = i \/ k = i
    BY <1>1, <1>5, <2>1, <2>3
  <2>4. CASE j # i /\ k # i
    <3> DEFINE at(x) == IF x < i THEN x ELSE x - 1
    <3>1. at(j) \in 1 .. Len(s) /\ at(k) \in 1 .. Len(s)
      BY <1>1, <2>4
    <3>2. t[j] = s[at(j)] /\ t[k] = s[at(k)]
      BY <1>5, <2>4
    <3>3. at(j) = at(k)
      BY <2>2, <3>1, <3>2
    <3> QED BY <1>1, <2>4, <3>3
  <2> QED BY <2>3, <2>4
<1> QED BY <1>4, <1>6, <1>7 DEF t

\* Without the i-th element.
LEMMA Removed ==
  ASSUME NEW S, NEW s \in Seq(S), NEW i \in 1 .. Len(s)
  PROVE  /\ RemoveAt(s, i) \in Seq(S)
         /\ Len(RemoveAt(s, i)) = Len(s) - 1
         /\ ToSet(s) = ToSet(RemoveAt(s, i)) \cup {s[i]}
         /\ IsInjective(s) => /\ IsInjective(RemoveAt(s, i))
                              /\ s[i] \notin ToSet(RemoveAt(s, i))
<1> DEFINE t == RemoveAt(s, i)
           a == SubSeq(s, 1, i - 1)
           b == SubSeq(s, i + 1, Len(s))
<1>1. Len(s) \in Nat /\ DOMAIN s = 1 .. Len(s)
  OBVIOUS
<1>2. /\ a \in Seq(S) /\ Len(a) = i - 1 /\ \A j \in 1 .. i - 1 : a[j] = s[j]
      /\ b \in Seq(S) /\ Len(b) = Len(s) - i
      /\ \A j \in 1 .. Len(s) - i : b[j] = s[j + i]
  <2>1. /\ a \in Seq(S) /\ Len(a) = (i - 1) - 1 + 1
        /\ \A j \in 1 .. (i - 1) - 1 + 1 : a[j] = s[j + 1 - 1]
    <3>1. i - 1 \in Nat /\ i - 1 <= Len(s) /\ 1 <= (i - 1) + 1
      BY <1>1
    <3> QED BY <3>1, Portion
  <2>2. /\ b \in Seq(S) /\ Len(b) = Len(s) - (i + 1) + 1
        /\ \A j \in 1 .. Len(s) - (i + 1) + 1 : b[j] = s[j + (i + 1) - 1]
    <3> DEFINE m == i + 1
    <3>1. m \in Nat \ {0} /\ m <= Len(s) + 1 /\ Len(s) \in Nat /\ Len(s) <= Len(s)
      BY <1>1
    <3> HIDE DEF m
    <3>2. /\ SubSeq(s, m, Len(s)) \in Seq(S) /\ Len(SubSeq(s, m, Len(s))) = Len(s) - m + 1
          /\ \A j \in 1 .. Len(s) - m + 1 : SubSeq(s, m, Len(s))[j] = s[j + m - 1]
      BY <3>1, Portion
    <3> QED BY <3>2 DEF m
  <2> HIDE DEF a, b
  <2>3. (i - 1) - 1 + 1 = i - 1 /\ Len(s) - (i + 1) + 1 = Len(s) - i
    BY <1>1
  <2>4. \A j \in 1 .. i - 1 : j + 1 - 1 = j
    OBVIOUS
  <2>5. \A j \in 1 .. Len(s) - i : j + (i + 1) - 1 = j + i
    BY <1>1
  <2> QED BY <2>1, <2>2, <2>3, <2>4, <2>5
<1>3. t = a \o b
  BY DEF RemoveAt
<1> HIDE DEF a, b, t
<1>4. t \in Seq(S) /\ Len(t) = Len(s) - 1 /\ DOMAIN t = 1 .. Len(s) - 1
  <2>1. t \in Seq(S) /\ Len(t) = Len(a) + Len(b)
    BY <1>2, <1>3, ConcatProperties
  <2> QED BY <1>1, <1>2, <2>1, LenProperties
<1>5. \A j \in 1 .. Len(s) - 1 : t[j] = IF j < i THEN s[j] ELSE s[j + 1]
  <2>1. \A j \in 1 .. Len(s) - 1 : t[j] = IF j < i THEN a[j] ELSE b[j - i + 1]
    <3>1. \A j \in 1 .. Len(a) + Len(b) : t[j] = IF j <= Len(a) THEN a[j] ELSE b[j - Len(a)]
      BY <1>2, <1>3, ConcatProperties
    <3>2. Len(a) + Len(b) = Len(s) - 1
      BY <1>1, <1>2
    <3> SUFFICES ASSUME NEW j \in 1 .. Len(s) - 1
                 PROVE  t[j] = IF j < i THEN a[j] ELSE b[j - i + 1]
      OBVIOUS
    <3>3. j <= Len(a) <=> j < i
      BY <1>1, <1>2
    <3>4. j - Len(a) = j - i + 1
      BY <1>1, <1>2
    <3> QED BY <3>1, <3>2, <3>3, <3>4
  <2>2. \A j \in 1 .. Len(s) - 1 :
          IF j < i THEN j \in 1 .. i - 1 ELSE j - i + 1 \in 1 .. Len(s) - i /\ (j - i + 1) + i = j + 1
    BY <1>1
  <2> QED BY <1>2, <2>1, <2>2
<1>6. ToSet(s) = ToSet(t) \cup {s[i]}
  <2>1. \A j \in 1 .. Len(s) : j # i => t[IF j < i THEN j ELSE j - 1] = s[j]
    BY <1>1, <1>5
  <2>2. ToSet(t) \cup {s[i]} \subseteq ToSet(s)
    <3>1. \A j \in 1 .. Len(s) - 1 : (IF j < i THEN j ELSE j + 1) \in 1 .. Len(s)
      BY <1>1
    <3>2. \A j \in 1 .. Len(s) - 1 : t[j] \in ToSet(s)
      BY <1>1, <1>5, <3>1 DEF ToSet
    <3> QED BY <1>1, <1>4, <3>2 DEF ToSet
  <2>3. ToSet(s) \subseteq ToSet(t) \cup {s[i]}
    <3> SUFFICES ASSUME NEW j \in 1 .. Len(s)
                 PROVE  s[j] \in ToSet(t) \cup {s[i]}
      BY <1>1 DEF ToSet
    <3>1. CASE j = i
      BY <3>1
    <3>2. CASE j # i
      <4>1. (IF j < i THEN j ELSE j - 1) \in 1 .. Len(s) - 1
        BY <1>1, <3>2
      <4> QED BY <1>4, <2>1, <3>2, <4>1 DEF ToSet
    <3> QED BY <3>1, <3>2
  <2> QED BY <2>2, <2>3
<1>7. ASSUME IsInjective(s)
      PROVE  IsInjective(t) /\ s[i] \notin ToSet(t)
  <2>1. IsInjective(t)
    <3> SUFFICES ASSUME NEW j \in 1 .. Len(s) - 1, NEW k \in 1 .. Len(s) - 1, t[j] = t[k]
                 PROVE  j = k
      BY <1>4 DEF IsInjective
    <3> QED BY <1>1, <1>5, <1>7 DEF IsInjective
  <2>2. s[i] \notin ToSet(t)
    BY <1>1, <1>4, <1>5, <1>7 DEF IsInjective, ToSet
  <2> QED BY <2>1, <2>2
<1> QED BY <1>4, <1>6, <1>7 DEF t

\* The first n elements, and the others.
LEMMA Parted ==
  ASSUME NEW S, NEW s \in Seq(S), NEW n \in 0 .. Len(s)
  PROVE  /\ SubSeq(s, 1, n) \in Seq(S) /\ Len(SubSeq(s, 1, n)) = n
         /\ SubSeq(s, n + 1, Len(s)) \in Seq(S)
         /\ Len(SubSeq(s, n + 1, Len(s))) = Len(s) - n
         /\ ToSet(s) = ToSet(SubSeq(s, 1, n)) \cup ToSet(SubSeq(s, n + 1, Len(s)))
         /\ IsInjective(s) =>
              /\ IsInjective(SubSeq(s, 1, n))
              /\ IsInjective(SubSeq(s, n + 1, Len(s)))
              /\ ToSet(SubSeq(s, 1, n)) \cap ToSet(SubSeq(s, n + 1, Len(s))) = {}
<1> DEFINE a == SubSeq(s, 1, n)
           b == SubSeq(s, n + 1, Len(s))
<1>1. Len(s) \in Nat /\ DOMAIN s = 1 .. Len(s)
  OBVIOUS
<1>2. /\ a \in Seq(S) /\ Len(a) = n /\ DOMAIN a = 1 .. n /\ \A j \in 1 .. n : a[j] = s[j]
      /\ b \in Seq(S) /\ Len(b) = Len(s) - n /\ DOMAIN b = 1 .. Len(s) - n
      /\ \A j \in 1 .. Len(s) - n : b[j] = s[j + n]
  <2>1. /\ a \in Seq(S) /\ Len(a) = n - 1 + 1 /\ DOMAIN a = 1 .. n - 1 + 1
        /\ \A j \in 1 .. n - 1 + 1 : a[j] = s[j + 1 - 1]
    <3>1. n \in Nat /\ n <= Len(s) /\ 1 <= n + 1
      BY <1>1
    <3> QED BY <3>1, Portion
  <2>2. /\ b \in Seq(S) /\ Len(b) = Len(s) - (n + 1) + 1
        /\ DOMAIN b = 1 .. Len(s) - (n + 1) + 1
        /\ \A j \in 1 .. Len(s) - (n + 1) + 1 : b[j] = s[j + (n + 1) - 1]
    <3> DEFINE m == n + 1
    <3>1. m \in Nat \ {0} /\ m <= Len(s) + 1 /\ Len(s) \in Nat /\ Len(s) <= Len(s)
      BY <1>1
    <3> HIDE DEF m
    <3>2. /\ SubSeq(s, m, Len(s)) \in Seq(S) /\ Len(SubSeq(s, m, Len(s))) = Len(s) - m + 1
          /\ DOMAIN SubSeq(s, m, Len(s)) = 1 .. Len(s) - m + 1
          /\ \A j \in 1 .. Len(s) - m + 1 : SubSeq(s, m, Len(s))[j] = s[j + m - 1]
      BY <3>1, Portion
    <3> QED BY <3>2 DEF m
  <2> HIDE DEF a, b
  <2>3. n - 1 + 1 = n /\ Len(s) - (n + 1) + 1 = Len(s) - n
    BY <1>1
  <2>4. \A j \in 1 .. n : j + 1 - 1 = j
    OBVIOUS
  <2>5. \A j \in 1 .. Len(s) - n : j + (n + 1) - 1 = j + n
    BY <1>1
  <2> QED BY <2>1, <2>2, <2>3, <2>4, <2>5
<1> HIDE DEF a, b
<1>3. ToSet(s) = ToSet(a) \cup ToSet(b)
  <2>1. \A j \in 1 .. Len(s) : IF j <= n THEN j \in 1 .. n /\ a[j] = s[j]
                               ELSE j - n \in 1 .. Len(s) - n /\ b[j - n] = s[j]
    BY <1>1, <1>2
  <2>2. ToSet(s) \subseteq ToSet(a) \cup ToSet(b)
    <3> SUFFICES ASSUME NEW j \in 1 .. Len(s)
                 PROVE  s[j] \in ToSet(a) \cup ToSet(b)
      BY <1>1 DEF ToSet
    <3>1. CASE j <= n
      BY <1>2, <2>1, <3>1 DEF ToSet
    <3>2. CASE ~(j <= n)
      BY <1>2, <2>1, <3>2 DEF ToSet
    <3> QED BY <3>1, <3>2
  <2>3. ToSet(a) \cup ToSet(b) \subseteq ToSet(s)
    <3>1. \A j \in 1 .. n : j \in 1 .. Len(s)
      BY <1>1
    <3>2. \A j \in 1 .. Len(s) - n : j + n \in 1 .. Len(s)
      BY <1>1
    <3>3. \A j \in 1 .. n : a[j] \in ToSet(s)
      BY <1>1, <1>2, <3>1 DEF ToSet
    <3>4. \A j \in 1 .. Len(s) - n : b[j] \in ToSet(s)
      BY <1>1, <1>2, <3>2 DEF ToSet
    <3> QED BY <1>2, <3>3, <3>4 DEF ToSet
  <2> QED BY <2>2, <2>3
<1>4. ASSUME IsInjective(s)
      PROVE  IsInjective(a) /\ IsInjective(b) /\ ToSet(a) \cap ToSet(b) = {}
  <2>1. IsInjective(a)
    BY <1>1, <1>2, <1>4 DEF IsInjective
  <2>2. IsInjective(b)
    <3> SUFFICES ASSUME NEW j \in 1 .. Len(s) - n, NEW k \in 1 .. Len(s) - n, b[j] = b[k]
                 PROVE  j = k
      BY <1>2 DEF IsInjective
    <3>1. j + n \in 1 .. Len(s) /\ k + n \in 1 .. Len(s) /\ s[j + n] = s[k + n]
      BY <1>1, <1>2
    <3>2. j + n = k + n
      BY <1>1, <1>4, <3>1 DEF IsInjective
    <3> QED BY <3>2
  <2>3. \A j \in 1 .. n, k \in 1 .. Len(s) - n : a[j] # b[k]
    <3> SUFFICES ASSUME NEW j \in 1 .. n, NEW k \in 1 .. Len(s) - n, a[j] = b[k]
                 PROVE  FALSE
      OBVIOUS
    <3>1. j \in 1 .. Len(s) /\ k + n \in 1 .. Len(s) /\ j # k + n /\ s[j] = s[k + n]
      BY <1>1, <1>2
    <3> QED BY <1>1, <1>4, <3>1 DEF IsInjective
  <2>4. ToSet(a) \cap ToSet(b) = {}
    BY <1>2, <2>3 DEF ToSet
  <2> QED BY <2>1, <2>2, <2>4
<1> QED BY <1>2, <1>3, <1>4 DEF a, b

\* One sequence after another.
LEMMA Joined ==
  ASSUME NEW S, NEW s \in Seq(S), NEW t \in Seq(S)
  PROVE  /\ s \o t \in Seq(S)
         /\ Len(s \o t) = Len(s) + Len(t)
         /\ ToSet(s \o t) = ToSet(s) \cup ToSet(t)
<1> DEFINE u == s \o t
<1>1. /\ Len(s) \in Nat /\ DOMAIN s = 1 .. Len(s)
      /\ Len(t) \in Nat /\ DOMAIN t = 1 .. Len(t)
  OBVIOUS
<1>2. u \in Seq(S) /\ Len(u) = Len(s) + Len(t) /\ DOMAIN u = 1 .. Len(s) + Len(t)
  BY <1>1
<1>3. /\ \A j \in 1 .. Len(s) : u[j] = s[j]
      /\ \A j \in 1 .. Len(t) : u[j + Len(s)] = t[j]
  BY <1>1
<1> HIDE DEF u
<1>4. ToSet(u) \subseteq ToSet(s) \cup ToSet(t)
  <2>1. \A j \in 1 .. Len(s) + Len(t) :
          IF j <= Len(s) THEN j \in 1 .. Len(s) /\ u[j] = s[j]
          ELSE j - Len(s) \in 1 .. Len(t) /\ u[j] = t[j - Len(s)]
    <3> TAKE j \in 1 .. Len(s) + Len(t)
    <3>1. CASE j <= Len(s)
      BY <1>1, <1>3, <3>1
    <3>2. CASE ~(j <= Len(s))
      <4>1. j - Len(s) \in 1 .. Len(t) /\ (j - Len(s)) + Len(s) = j
        BY <1>1, <3>2
      <4> QED BY <1>3, <3>2, <4>1
    <3> QED BY <3>1, <3>2
  <2> QED BY <1>1, <1>2, <2>1 DEF ToSet
<1>5. ToSet(s) \cup ToSet(t) \subseteq ToSet(u)
  <2>1. \A j \in 1 .. Len(s) : j \in 1 .. Len(s) + Len(t)
    BY <1>1
  <2>2. \A j \in 1 .. Len(t) : j + Len(s) \in 1 .. Len(s) + Len(t)
    BY <1>1
  <2> QED BY <1>1, <1>2, <1>3, <2>1, <2>2 DEF ToSet
<1> QED BY <1>2, <1>4, <1>5 DEF u

\* Another element in place of the i-th one.
LEMMA Replaced ==
  ASSUME NEW S, NEW s \in Seq(S), NEW i \in 1 .. Len(s), NEW e \in S,
         IsInjective(s), e \notin ToSet(s)
  PROVE  /\ [s EXCEPT ![i] = e] \in Seq(S)
         /\ Len([s EXCEPT ![i] = e]) = Len(s)
         /\ ToSet([s EXCEPT ![i] = e]) = (ToSet(s) \ {s[i]}) \cup {e}
         /\ IsInjective([s EXCEPT ![i] = e])
<1> DEFINE t == [s EXCEPT ![i] = e]
<1>1. Len(s) \in Nat /\ DOMAIN s = 1 .. Len(s)
  OBVIOUS
<1>2. t \in Seq(S) /\ Len(t) = Len(s) /\ DOMAIN t = 1 .. Len(s)
  BY <1>1
<1>3. t[i] = e /\ \A j \in 1 .. Len(s) : j # i => t[j] = s[j]
  BY <1>1
<1> HIDE DEF t
<1>4. ToSet(t) = (ToSet(s) \ {s[i]}) \cup {e}
  BY <1>1, <1>2, <1>3 DEF ToSet, IsInjective
<1>5. IsInjective(t)
  BY <1>1, <1>2, <1>3 DEF ToSet, IsInjective
<1> QED BY <1>2, <1>4, <1>5 DEF t

\* The last element and the others, the first element and the others.
LEMMA Ends ==
  ASSUME NEW S, NEW s \in Seq(S), s # <<>>
  PROVE  /\ Front(s) \in Seq(S) /\ Len(Front(s)) = Len(s) - 1 /\ Last(s) \in S
         /\ ToSet(s) = ToSet(Front(s)) \cup {Last(s)}
         /\ Tail(s) \in Seq(S) /\ Len(Tail(s)) = Len(s) - 1 /\ Head(s) \in S
         /\ ToSet(s) = ToSet(Tail(s)) \cup {Head(s)}
<1> DEFINE n == Len(s)
           k == n - 1
           a == SubSeq(s, 1, k)
           b == SubSeq(s, 2, n)
<1>1. n \in Nat /\ n >= 1 /\ DOMAIN s = 1 .. n /\ \A j \in 1 .. n : s[j] \in S
  OBVIOUS
<1>2. k \in Nat /\ k <= n /\ 1 <= k + 1 /\ k - 1 + 1 = k /\ n - 2 + 1 = k /\ 2 <= n + 1
      /\ k = n - 1 /\ n = k + 1
  BY <1>1
<1>3. Front(s) = a /\ Last(s) = s[n] /\ Tail(s) = b /\ Head(s) = s[1]
  BY TailIsSubSeq DEF Front, Last
<1> HIDE DEF k, n
<1>4. s \in Seq(S) /\ k <= Len(s) /\ n <= Len(s)
  BY <1>2 DEF n
<1>5. /\ a \in Seq(S) /\ Len(a) = k - 1 + 1 /\ DOMAIN a = 1 .. k - 1 + 1
      /\ \A j \in 1 .. k - 1 + 1 : a[j] = s[j + 1 - 1]
  <2>1. 1 \in Nat \ {0}
    OBVIOUS
  <2> QED BY <1>2, <1>4, <2>1, Portion
<1>6. /\ b \in Seq(S) /\ Len(b) = n - 2 + 1 /\ DOMAIN b = 1 .. n - 2 + 1
      /\ \A j \in 1 .. n - 2 + 1 : b[j] = s[j + 2 - 1]
  <2>1. 2 \in Nat \ {0}
    OBVIOUS
  <2> QED BY <1>1, <1>2, <1>4, <2>1, Portion
<1> HIDE DEF a, b
<1>7. Len(a) = k /\ DOMAIN a = 1 .. k /\ \A j \in 1 .. k : a[j] = s[j]
  BY <1>2, <1>5
<1>8. Len(b) = k /\ DOMAIN b = 1 .. k /\ \A j \in 1 .. k : b[j] = s[j + 1]
  BY <1>2, <1>6
<1>9. /\ \A j \in 1 .. n : j = n \/ j \in 1 .. k
      /\ \A j \in 1 .. n : j = 1 \/ (j - 1 \in 1 .. k /\ j = (j - 1) + 1)
      /\ \A j \in 1 .. k : j \in 1 .. n /\ j + 1 \in 1 .. n
      /\ 1 \in 1 .. n /\ n \in 1 .. n
  BY <1>1, <1>2
<1>10. ToSet(s) = ToSet(a) \cup {s[n]}
  BY <1>1, <1>7, <1>9 DEF ToSet
<1>11. ToSet(s) = ToSet(b) \cup {s[1]}
  <2>1. ToSet(b) \cup {s[1]} \subseteq ToSet(s)
    BY <1>1, <1>8, <1>9 DEF ToSet
  <2>2. ASSUME NEW j \in 1 .. n
        PROVE  s[j] \in ToSet(b) \cup {s[1]}
    <3>1. CASE j = 1
      BY <3>1
    <3>2. CASE j # 1
      <4>1. j - 1 \in 1 .. k /\ b[j - 1] = s[j]
        BY <1>8, <1>9, <3>2
      <4> QED BY <1>8, <4>1 DEF ToSet
    <3> QED BY <3>1, <3>2
  <2>3. ToSet(s) \subseteq ToSet(b) \cup {s[1]}
    BY <1>1, <2>2 DEF ToSet
  <2> QED BY <2>1, <2>3
<1>12. Len(s) - 1 = k
  BY <1>2 DEF n
<1> QED BY <1>1, <1>3, <1>5, <1>6, <1>7, <1>8, <1>9, <1>10, <1>11, <1>12
=============================================================================
