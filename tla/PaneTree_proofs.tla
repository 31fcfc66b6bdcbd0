---------------------------- MODULE PaneTree_proofs ----------------------------
(***************************************************************************)
(* Lemmas about the operators of PaneLayout, PaneEditing and PaneGeometry, *)
(* for any numbers of panes and splits: apportioned shares add up to their *)
(* total; every edit (split, removal, rotation, move, swap) takes a forest *)
(* of parent links and child lists that agree to another one; and the      *)
(* leaves, their order, the regions and the neighbours of a tree are what  *)
(* its users rely on.                                                      *)
(* A forest is said to be one without recursion (Rooted): every nonempty   *)
(* set of nodes has one whose parent is outside of it.                     *)
(***************************************************************************)
EXTENDS PaneEditing, PaneGeometry, FiniteSetTheorems, SequenceTheorems, NaturalsInduction,
        WellFoundedInduction, TLAPS

\* The numbers are well-founded under <, which stands in for an induction.
LEMMA LeastElement ==
  ASSUME NEW S, S \subseteq Nat, S # {}
  PROVE  \E m \in S : \A k \in S : m <= k
<1> DEFINE R == OpToRel(<, Nat)
<1>1. IsWellFoundedOn(R, Nat)
  BY NatLessThanWellFounded
<1>2. R = {ss \in Nat \X Nat : ss[1] < ss[2]}
  BY DEF OpToRel
<1> HIDE DEF R
<1>3. PICK m \in S : \A k \in S : <<k, m>> \notin R
  BY <1>1, WFMin
<1>4. \A k \in S : k \in Nat /\ m \in Nat /\ ~ (k < m)
  BY <1>2, <1>3
<1> QED BY <1>3, <1>4

-----------------------------------------------------------------------------
(* Sums *)

\* The sums of the first elements of w: s[i] adds the first i of them.
Sums(w, s) ==
  /\ s \in [0 .. Len(w) -> Int] /\ s[0] = 0
  /\ \A i \in 1 .. Len(w) : s[i] = s[i - 1] + w[i]

\* The sums of the first elements exist.
LEMMA SumsExist == ASSUME NEW w \in Seq(Int) PROVE \E s : Sums(w, s)
<1> DEFINE P(k, s) == s \in [0 .. k -> Int] /\ s[0] = 0 /\ \A i \in 1 .. k : s[i] = s[i - 1] + w[i]
           Bad == {k \in 0 .. Len(w) : ~ \E s : P(k, s)}
<1>1. Len(w) \in Nat /\ Bad \subseteq Nat
  OBVIOUS
<1>2. CASE Bad # {}
  <2>1. PICK m \in Bad : \A k \in Bad : m <= k
    BY <1>1, <1>2, LeastElement
  <2>2. m # 0
    <3>1. P(0, [i \in 0 .. 0 |-> 0])
      OBVIOUS
    <3> QED BY <3>1
  <2>3. m \in 0 .. Len(w) /\ m - 1 \in 0 .. Len(w) /\ ~ (m <= m - 1)
    BY <1>1, <2>2
  <2>4. m - 1 \notin Bad
    BY <2>1, <2>3
  <2>5. PICK s : P(m - 1, s)
    BY <2>3, <2>4
  <2> DEFINE t == [i \in 0 .. m |-> IF i = m THEN s[m - 1] + w[m] ELSE s[i]]
  <2>6. w[m] \in Int /\ s[m - 1] \in Int
    BY <2>2, <2>3, <2>5
  <2>7. P(m, t)
    BY <2>2, <2>3, <2>5, <2>6
  <2> QED BY <2>1, <2>7
<1>3. CASE Bad = {}
  <2>1. \E s : P(Len(w), s)
    BY <1>1, <1>3
  <2> QED BY <2>1 DEF Sums
<1> QED BY <1>2, <1>3

\* distribute_pane_percentage_total adds up with std::accumulate: the total is the
\* last of the sums.
LEMMA TotalIs ==
  ASSUME NEW w \in Seq(Int), NEW s, Sums(w, s)
  PROVE  Total(w) = s[Len(w)] /\ Total(w) \in Int
<1> DEFINE n == Len(w)
           Eq(t) == t = [i \in 0 .. n |-> IF i = 0 THEN 0 ELSE t[i - 1] + w[i]]
           t == CHOOSE f : Eq(f)
<1>1. n \in Nat
  OBVIOUS
<1>2. Eq(s)
  BY <1>1 DEF Sums
<1>3. Eq(t)
  BY <1>2
<1>4. Total(w) = t[n]
  BY DEF Total
<1> HIDE DEF t
<1> DEFINE Bad == {i \in 0 .. n : t[i] # s[i]}
<1>5. Bad \subseteq Nat
  OBVIOUS
<1>6. CASE Bad # {}
  <2>1. PICK m \in Bad : \A k \in Bad : m <= k
    BY <1>5, <1>6, LeastElement
  <2>2. m \in 0 .. n /\ t[m] # s[m]
    BY <2>1
  <2>3. m # 0
    BY <1>1, <1>3, <2>2 DEF Sums
  <2>4. m - 1 \in 0 .. n /\ ~ (m <= m - 1) /\ m \in 1 .. n
    BY <1>1, <2>2, <2>3
  <2>5. t[m - 1] = s[m - 1]
    BY <2>1, <2>4
  <2>6. t[m] = t[m - 1] + w[m]
    BY <1>3, <2>2, <2>3
  <2>7. s[m] = s[m - 1] + w[m]
    BY <2>4 DEF Sums
  <2> QED BY <2>2, <2>5, <2>6, <2>7
<1>7. CASE Bad = {}
  BY <1>1, <1>4, <1>7 DEF Sums
<1> QED BY <1>6, <1>7

\* A total is a number.
LEMMA TotalInt == ASSUME NEW w \in Seq(Int) PROVE Total(w) \in Int
  BY SumsExist, TotalIs

\* What the sums of the first elements say of each other.
LEMMA SumsAt ==
  ASSUME NEW w \in Seq(Int), NEW s, Sums(w, s)
  PROVE  /\ Len(w) \in Nat /\ s[0] = 0 /\ s[Len(w)] \in Int
         /\ \A i \in 0 .. Len(w) : s[i] \in Int
         /\ \A i \in 1 .. Len(w) : s[i] = s[i - 1] + w[i] /\ w[i] \in Int /\ s[i - 1] \in Int
<1>1. Len(w) \in Nat /\ Len(w) \in 0 .. Len(w) /\ \A i \in 1 .. Len(w) : w[i] \in Int
  OBVIOUS
<1>2. \A i \in 0 .. Len(w) : s[i] \in Int
  BY DEF Sums
<1>3. \A i \in 1 .. Len(w) : i - 1 \in 0 .. Len(w)
  BY <1>1
<1> QED BY <1>1, <1>2, <1>3 DEF Sums

\* Nothing adds up to nothing.
LEMMA TotalEmpty == ASSUME NEW w \in Seq(Int), Len(w) = 0 PROVE Total(w) = 0
<1>1. PICK s : Sums(w, s)
  BY SumsExist
<1> QED BY <1>1, SumsAt, TotalIs

\* One share adds up to itself.
LEMMA TotalOne == ASSUME NEW w \in Seq(Int), Len(w) = 1 PROVE Total(w) = w[1]
<1>1. PICK s : Sums(w, s)
  BY SumsExist
<1>2. 1 \in 1 .. Len(w) /\ 1 - 1 = 0
  OBVIOUS
<1>3. s[0] = 0 /\ s[1] = s[0] + w[1] /\ w[1] \in Int
  BY <1>1, <1>2, SumsAt
<1>4. Total(w) = s[1]
  BY <1>1, TotalIs
<1> QED BY <1>3, <1>4

\* The total of two lists in a row is the sum of their totals.
LEMMA TotalConcat ==
  ASSUME NEW v \in Seq(Int), NEW w \in Seq(Int)
  PROVE  Total(v \o w) = Total(v) + Total(w)
<1>1. v \o w \in Seq(Int) /\ Len(v \o w) = Len(v) + Len(w) /\ Len(v) \in Nat /\ Len(w) \in Nat
  OBVIOUS
<1>2. \A i \in 1 .. Len(v) + Len(w) : (v \o w)[i] = IF i <= Len(v) THEN v[i] ELSE w[i - Len(v)]
  OBVIOUS
<1>3. PICK s : Sums(v, s)
  BY SumsExist
<1>4. PICK t : Sums(w, t)
  BY SumsExist
<1> DEFINE m == Len(v)
           n == Len(w)
           u == [i \in 0 .. m + n |-> IF i <= m THEN s[i] ELSE s[m] + t[i - m]]
<1>5. m \in Nat /\ n \in Nat /\ s[m] \in Int /\ \A i \in 0 .. n : t[i] \in Int
  BY <1>3, <1>4, SumsAt
<1>6. u \in [0 .. m + n -> Int] /\ u[0] = 0
  <2>1. s[0] = 0 /\ \A i \in 0 .. m : s[i] \in Int
    BY <1>3, SumsAt
  <2>2. ASSUME NEW i \in 0 .. m + n PROVE u[i] \in Int
    <3>1. i <= m => i \in 0 .. m
      BY <1>5
    <3>2. ~ (i <= m) => i - m \in 0 .. n
      BY <1>5
    <3>3. ~ (i <= m) => s[m] + t[i - m] \in Int
      BY <1>5, <3>2, SMTT(30)
    <3> QED BY <2>1, <3>1, <3>3
  <2> QED BY <1>5, <2>1, <2>2
<1>7. ASSUME NEW i \in 1 .. m + n PROVE u[i] = u[i - 1] + (v \o w)[i]
  <2>1. CASE i <= m
    <3>1. i \in 1 .. m /\ i - 1 <= m /\ i - 1 \in 0 .. m + n /\ i \in 0 .. m + n
      BY <1>5, <2>1
    <3>2. s[i] = s[i - 1] + v[i]
      BY <1>3, <3>1, SumsAt
    <3> QED BY <1>2, <2>1, <3>1, <3>2
  <2>2. CASE ~ (i <= m)
    <3>1. i - m \in 1 .. n /\ i - 1 \in 0 .. m + n /\ i \in 0 .. m + n
      BY <1>5, <2>2
    <3>2. t[i - m] = t[(i - m) - 1] + w[i - m] /\ w[i - m] \in Int /\ (i - m) - 1 \in 0 .. n
      BY <1>4, <1>5, <3>1, SumsAt
    <3>3. CASE i - 1 <= m
      <4>1. i - 1 = m /\ (i - m) - 1 = 0
        BY <1>5, <2>2, <3>1, <3>3
      <4>2. t[0] = 0
        BY <1>4, SumsAt
      <4>3. u[i - 1] = s[m] /\ u[i] = s[m] + t[i - m]
        BY <1>5, <2>2, <3>1, <4>1
      <4> QED BY <1>2, <1>5, <2>2, <3>2, <4>1, <4>2, <4>3
    <3>4. CASE ~ (i - 1 <= m)
      <4>1. (i - 1) - m = (i - m) - 1
        BY <1>5
      <4>2. u[i - 1] = s[m] + t[(i - m) - 1] /\ u[i] = s[m] + t[i - m]
        BY <2>2, <3>1, <3>4, <4>1
      <4>3. (v \o w)[i] = w[i - m]
        BY <1>2, <2>2
      <4>4. t[(i - m) - 1] \in Int
        BY <1>5, <3>2
      <4> HIDE DEF u
      <4> QED BY <1>5, <3>2, <4>2, <4>3, <4>4
    <3> QED BY <3>3, <3>4
  <2> QED BY <2>1, <2>2
<1> HIDE DEF u
<1>8. Sums(v \o w, u)
  BY <1>1, <1>6, <1>7 DEF Sums
<1>9. u[m + n] = s[m] + t[n]
  <2>1. CASE n = 0
    <3>1. m + n = m /\ m <= m /\ m + n \in 0 .. m + n
      BY <1>5, <2>1
    <3>2. t[n] = 0
      BY <1>4, <2>1, SumsAt
    <3> QED BY <1>5, <3>1, <3>2 DEF u
  <2>2. CASE n # 0
    <3>1. ~ (m + n <= m) /\ (m + n) - m = n
      BY <1>5, <2>2
    <3> QED BY <1>5, <3>1 DEF u
  <2> QED BY <2>1, <2>2
<1> QED BY <1>1, <1>3, <1>4, <1>8, <1>9, TotalIs

\* Totals of lists that add up element by element.
LEMMA TotalAdds ==
  ASSUME NEW v \in Seq(Int), NEW w \in Seq(Int), NEW x \in Seq(Int),
         Len(w) = Len(v), Len(x) = Len(v), \A i \in 1 .. Len(v) : x[i] = v[i] + w[i]
  PROVE  Total(x) = Total(v) + Total(w)
<1>1. PICK s : Sums(v, s)
  BY SumsExist
<1>2. PICK t : Sums(w, t)
  BY SumsExist
<1> DEFINE n == Len(v)
           u == [i \in 0 .. n |-> s[i] + t[i]]
<1>3. n \in Nat /\ \A i \in 0 .. n : s[i] \in Int /\ t[i] \in Int
  BY <1>1, <1>2, SumsAt
<1>4. u \in [0 .. n -> Int] /\ u[0] = 0 /\ u[n] = s[n] + t[n]
  BY <1>1, <1>2, <1>3, SumsAt
<1>5. ASSUME NEW i \in 1 .. n PROVE u[i] = u[i - 1] + x[i]
  <2>1. i \in 0 .. n /\ i - 1 \in 0 .. n
    BY <1>3
  <2>2. s[i] = s[i - 1] + v[i] /\ t[i] = t[i - 1] + w[i] /\ x[i] = v[i] + w[i]
    BY <1>1, <1>2, SumsAt
  <2>3. v[i] \in Int /\ w[i] \in Int
    OBVIOUS
  <2>4. u[i] = s[i] + t[i] /\ u[i - 1] = s[i - 1] + t[i - 1]
    BY <2>1
  <2>5. s[i - 1] \in Int /\ t[i - 1] \in Int
    BY <1>3, <2>1
  <2> HIDE DEF u
  <2>6. (s[i - 1] + v[i]) + (t[i - 1] + w[i]) = (s[i - 1] + t[i - 1]) + (v[i] + w[i])
    BY <2>3, <2>5, SMTT(30)
  <2> QED BY <2>2, <2>4, <2>6
<1> HIDE DEF u
<1>6. Sums(x, u)
  BY <1>4, <1>5 DEF Sums
<1> QED BY <1>1, <1>2, <1>4, <1>6, TotalIs

\* Multiplication distributes.
LEMMA Distributes ==
  ASSUME NEW a \in Int, NEW b \in Int, NEW c \in Int
  PROVE  (a + b) * c = a * c + b * c
  OBVIOUS

\* A total scales with its elements.
LEMMA TotalScales ==
  ASSUME NEW v \in Seq(Int), NEW w \in Seq(Int), NEW c \in Int,
         Len(w) = Len(v), \A i \in 1 .. Len(v) : w[i] = v[i] * c
  PROVE  Total(w) = Total(v) * c
<1>1. PICK s : Sums(v, s)
  BY SumsExist
<1> DEFINE n == Len(v)
           u == [i \in 0 .. n |-> s[i] * c]
<1>2. n \in Nat /\ \A i \in 0 .. n : s[i] \in Int
  BY <1>1, SumsAt
<1>3. u \in [0 .. n -> Int] /\ u[0] = 0 /\ u[n] = s[n] * c
  BY <1>1, <1>2, SumsAt
<1>4. ASSUME NEW i \in 1 .. n PROVE u[i] = u[i - 1] + w[i]
  <2>1. i \in 0 .. n /\ i - 1 \in 0 .. n /\ v[i] \in Int
    BY <1>2
  <2>2. s[i] = s[i - 1] + v[i] /\ w[i] = v[i] * c
    BY <1>1, SumsAt
  <2>3. (s[i - 1] + v[i]) * c = s[i - 1] * c + v[i] * c
    BY <1>2, <2>1, Distributes
  <2>4. u[i] = s[i] * c /\ u[i - 1] = s[i - 1] * c
    BY <2>1
  <2> QED BY <2>2, <2>3, <2>4
<1> HIDE DEF u
<1>5. Sums(w, u)
  BY <1>3, <1>4 DEF Sums
<1> QED BY <1>1, <1>3, <1>5, TotalIs

\* Ones add up to how many they are.
LEMMA TotalOnes ==
  ASSUME NEW v \in Seq(Int), \A i \in 1 .. Len(v) : v[i] = 1
  PROVE  Total(v) = Len(v)
<1> DEFINE u == [i \in 0 .. Len(v) |-> i]
<1>1. Len(v) \in Nat
  OBVIOUS
<1>2. Sums(v, u)
  BY <1>1 DEF Sums
<1> QED BY <1>1, <1>2, TotalIs

\* What is never negative adds up to something that is not, and never to less
\* than any of its elements.
LEMMA TotalNat ==
  ASSUME NEW w \in Seq(Nat)
  PROVE  Total(w) \in Nat /\ \A i \in 1 .. Len(w) : w[i] <= Total(w)
<1>1. w \in Seq(Int) /\ Len(w) \in Nat /\ \A i \in 1 .. Len(w) : w[i] \in Nat
  BY SeqMonotonic
<1>2. PICK s : Sums(w, s)
  BY <1>1, SumsExist
<1> DEFINE n == Len(w)
           Bad == {i \in 0 .. n : \E j \in 0 .. i : ~ (s[j] <= s[i])}
<1>3. Bad = {}
  <2> SUFFICES ASSUME Bad # {} PROVE FALSE
    OBVIOUS
  <2>1. Bad \subseteq Nat
    OBVIOUS
  <2>2. PICK m \in Bad : \A k \in Bad : m <= k
    BY <2>1, LeastElement
  <2>3. PICK j \in 0 .. m : ~ (s[j] <= s[m])
    BY <2>2
  <2>4. m \in 0 .. n /\ j \in 0 .. n /\ s[m] \in Int /\ s[j] \in Int
    BY <1>1, <1>2, <2>2, <2>3, SumsAt
  <2>5. j # m /\ m # 0
    BY <2>3, <2>4
  <2>6. m - 1 \in 0 .. n /\ j \in 0 .. m - 1 /\ ~ (m <= m - 1) /\ m \in 1 .. n
    BY <1>1, <2>3, <2>4, <2>5
  <2>7. s[j] <= s[m - 1]
    BY <2>2, <2>6
  <2>8. s[m] = s[m - 1] + w[m] /\ w[m] \in Nat /\ s[m - 1] \in Int
    BY <1>1, <1>2, <2>6, SumsAt
  <2> QED BY <2>3, <2>4, <2>7, <2>8
<1>4. \A i \in 0 .. n : \A j \in 0 .. i : s[j] <= s[i] /\ s[i] \in Int /\ s[j] \in Int
  <2>1. \A i \in 0 .. n : s[i] \in Int
    BY <1>1, <1>2, SumsAt
  <2>2. \A i \in 0 .. n : \A j \in 0 .. i : j \in 0 .. n
    BY <1>1
  <2>3. \A i \in 0 .. n : \A j \in 0 .. i : s[j] <= s[i]
    BY <1>3
  <2> QED BY <2>1, <2>2, <2>3
<1>5. Total(w) = s[n] /\ s[0] = 0 /\ n \in 0 .. n /\ 0 \in 0 .. n
  BY <1>1, <1>2, TotalIs, SumsAt
<1>6. Total(w) \in Nat
  BY <1>1, <1>4, <1>5
<1>7. ASSUME NEW i \in 1 .. n PROVE w[i] <= Total(w)
  <2>1. i \in 0 .. n /\ i - 1 \in 0 .. n /\ i \in 0 .. n /\ i - 1 \in 0 .. n /\ 0 \in 0 .. i - 1
    BY <1>1
  <2>2. s[i] = s[i - 1] + w[i] /\ w[i] \in Nat
    BY <1>1, <1>2, SumsAt
  <2>3. s[0] <= s[i - 1] /\ s[i - 1] \in Int
    BY <1>4, <2>1
  <2>4. s[i] <= s[n] /\ s[i] \in Int /\ s[n] \in Int
    BY <1>1, <1>4, <1>5, <2>1
  <2> QED BY <1>1, <1>5, <2>2, <2>3, <2>4
<1> QED BY <1>6, <1>7

\* A function on the first n numbers is a list of length n.
LEMMA ListOf ==
  ASSUME NEW S, NEW n \in Nat, NEW f \in [1 .. n -> S]
  PROVE  f \in Seq(S) /\ Len(f) = n
<1>1. f \in Seq(S)
  BY SeqDef
<1> QED BY <1>1

\* What counts members adds up to how many there are.
LEMMA TotalCounts ==
  ASSUME NEW v \in Seq(Int), NEW W, W \subseteq 1 .. Len(v),
         \A i \in 1 .. Len(v) : v[i] = IF i \in W THEN 1 ELSE 0
  PROVE  Total(v) = Cardinality(W)
<1> DEFINE n == Len(v)
           c(i) == Cardinality(W \cap (1 .. i))
           s == [i \in 0 .. n |-> c(i)]
<1>1. n \in Nat /\ n \in 0 .. n /\ 0 \in 0 .. n /\ W \cap (1 .. n) = W
  <2>1. n \in Nat /\ W \subseteq 1 .. n
    OBVIOUS
  <2>2. n \in 0 .. n /\ 0 \in 0 .. n
    BY <2>1
  <2>3. W \cap (1 .. n) = W
    BY <2>1
  <2> QED BY <2>1, <2>2, <2>3
<1>2. \A i \in 0 .. n : IsFiniteSet(W \cap (1 .. i)) /\ c(i) \in Nat
  <2> SUFFICES ASSUME NEW i \in 0 .. n
               PROVE  IsFiniteSet(W \cap (1 .. i)) /\ Cardinality(W \cap (1 .. i)) \in Nat
    OBVIOUS
  <2>1. IsFiniteSet(1 .. i)
    BY FS_Interval
  <2>2. IsFiniteSet(W \cap (1 .. i))
    BY <2>1, FS_Subset
  <2> QED BY <2>2, FS_CardinalityType
<1>3. c(0) = 0
  <2>1. W \cap (1 .. 0) = {}
    BY <1>1
  <2> QED BY <2>1, FS_EmptySet
<1>4. ASSUME NEW i \in 1 .. n PROVE c(i) = c(i - 1) + v[i]
  <2>1. i \in 0 .. n /\ i - 1 \in 0 .. n
    BY <1>1
  <2>2. IsFiniteSet(W \cap (1 .. (i - 1))) /\ c(i - 1) \in Nat
    BY <1>2, <2>1
  <2>3. i \notin W \cap (1 .. (i - 1))
    BY <2>1
  <2>4. CASE i \in W
    <3>1. W \cap (1 .. i) = (W \cap (1 .. (i - 1))) \cup {i}
      BY <2>1, <2>4
    <3>2. c(i) = c(i - 1) + 1
      BY <2>2, <2>3, <3>1, FS_AddElement
    <3> QED BY <2>4, <3>2
  <2>5. CASE i \notin W
    <3>1. W \cap (1 .. i) = W \cap (1 .. (i - 1))
      BY <2>1, <2>5
    <3>2. c(i) = c(i - 1)
      BY <3>1
    <3>3. v[i] = 0
      BY <2>5
    <3> HIDE DEF c
    <3> QED BY <2>2, <3>2, <3>3
  <2> QED BY <2>4, <2>5
<1>5. c(n) = Cardinality(W)
  BY <1>1
<1> HIDE DEF c
<1>6. s \in [0 .. n -> Int] /\ s[0] = 0 /\ s[n] = c(n)
  <2>1. ASSUME NEW i \in 0 .. n PROVE c(i) \in Int
    <3>1. c(i) \in Nat
      BY <1>2
    <3> QED BY <3>1
  <2> QED BY <1>1, <1>3, <2>1
<1>7. \A i \in 1 .. n : s[i] = s[i - 1] + v[i]
  BY <1>1, <1>4
<1> HIDE DEF s
<1>8. Sums(v, s)
  BY <1>6, <1>7 DEF Sums
<1> QED BY <1>5, <1>6, <1>8, TotalIs

\* Who comes before i when the remainders are compared.
Before(n, left, i) == {j \in 1 .. n : left[j] > left[i] \/ (left[j] = left[i] /\ j < i)}
Rank(n, left) == [i \in 1 .. n |-> Cardinality(Before(n, left, i))]

\* The comparison puts the remainders in a row: every place is taken once.
LEMMA RanksAreARow ==
  ASSUME NEW n \in Nat, NEW left \in [1 .. n -> Int]
  PROVE  /\ Rank(n, left) \in [1 .. n -> 0 .. (n - 1)]
         /\ \A i, j \in 1 .. n : Rank(n, left)[i] = Rank(n, left)[j] => i = j
         /\ \A k \in 0 .. (n - 1) : \E i \in 1 .. n : Rank(n, left)[i] = k
<1> DEFINE B(i) == Before(n, left, i)
           r == Rank(n, left)
<1>1. IsFiniteSet(1 .. n) /\ Cardinality(1 .. n) = n
  BY FS_Interval
<1>2. ASSUME NEW i \in 1 .. n
      PROVE  IsFiniteSet(B(i)) /\ Cardinality(B(i)) \in 0 .. (n - 1) /\ r[i] = Cardinality(B(i))
  <2>1. B(i) \subseteq 1 .. n /\ i \notin B(i) /\ B(i) # 1 .. n
    BY DEF Before
  <2>2. IsFiniteSet(B(i)) /\ Cardinality(B(i)) <= n /\ Cardinality(B(i)) # n
    BY <1>1, <2>1, FS_Subset
  <2>3. Cardinality(B(i)) \in Nat
    BY <2>2, FS_CardinalityType
  <2> QED BY <2>2, <2>3 DEF Rank
<1>3. ASSUME NEW i \in 1 .. n, NEW j \in 1 .. n, i \in B(j) PROVE r[i] # r[j]
  <2>1. left[i] \in Int /\ left[j] \in Int /\ (left[i] > left[j] \/ (left[i] = left[j] /\ i < j))
    BY <1>3 DEF Before
  <2>2. ASSUME NEW k \in B(i) PROVE k \in B(j)
    <3>1. k \in 1 .. n /\ left[k] \in Int /\ (left[k] > left[i] \/ (left[k] = left[i] /\ k < i))
      BY DEF Before
    <3>2. left[k] > left[j] \/ (left[k] = left[j] /\ k < j)
      BY <2>1, <3>1
    <3> QED BY <3>1, <3>2 DEF Before
  <2>3. i \notin B(i)
    BY DEF Before
  <2>4. B(i) \subseteq B(j) /\ B(i) # B(j)
    BY <1>3, <2>2, <2>3
  <2>5. Cardinality(B(i)) # Cardinality(B(j))
    BY <1>2, <2>4, FS_Subset
  <2> QED BY <1>2, <2>5
<1>4. ASSUME NEW i \in 1 .. n, NEW j \in 1 .. n, i # j PROVE i \in B(j) \/ j \in B(i)
  <2>1. left[i] \in Int /\ left[j] \in Int
    OBVIOUS
  <2> QED BY <1>4, <2>1 DEF Before
<1>5. \A i, j \in 1 .. n : r[i] = r[j] => i = j
  BY <1>3, <1>4
<1>6. r \in [1 .. n -> 0 .. (n - 1)]
  BY <1>2 DEF Rank
<1>7. IsFiniteSet(0 .. (n - 1)) /\ Cardinality(0 .. (n - 1)) = n
  <2>1. 0 \in Int /\ n - 1 \in Int
    OBVIOUS
  <2>2. IsFiniteSet(0 .. (n - 1)) /\ Cardinality(0 .. (n - 1))
        = IF 0 > n - 1 THEN 0 ELSE (n - 1) - 0 + 1
    BY <2>1, FS_Interval
  <2> QED BY <2>2
<1>8. r \in Injection(1 .. n, 0 .. (n - 1))
  BY <1>5, <1>6 DEF Injection, IsInjective
<1>9. r \in Surjection(1 .. n, 0 .. (n - 1))
  BY <1>1, <1>7, <1>8, FS_Injection
<1>10. \A k \in 0 .. (n - 1) : \E i \in 1 .. n : r[i] = k
  BY <1>9 DEF Surjection
<1> QED BY <1>5, <1>6, <1>10

\* Of n places in a row, m come first.
LEMMA FirstPlaces ==
  ASSUME NEW n \in Nat, NEW left \in [1 .. n -> Int], NEW m \in 0 .. n
  PROVE  Cardinality({i \in 1 .. n : Rank(n, left)[i] < m}) = m
<1> DEFINE r == Rank(n, left)
           W == {i \in 1 .. n : r[i] < m}
           f == [i \in W |-> r[i]]
<1>1. /\ r \in [1 .. n -> 0 .. (n - 1)]
      /\ \A i, j \in 1 .. n : r[i] = r[j] => i = j
      /\ \A k \in 0 .. (n - 1) : \E i \in 1 .. n : r[i] = k
  BY RanksAreARow
<1> HIDE DEF r
<1>2. IsFiniteSet(W)
  <2>1. IsFiniteSet(1 .. n) /\ W \subseteq 1 .. n
    BY FS_Interval
  <2> QED BY <2>1, FS_Subset
<1>3. f \in [W -> 0 .. (m - 1)]
  BY <1>1
<1>4. \A k \in 0 .. (m - 1) : \E i \in W : f[i] = k
  <2> SUFFICES ASSUME NEW k \in 0 .. (m - 1) PROVE \E i \in W : f[i] = k
    OBVIOUS
  <2>1. k \in 0 .. (n - 1) /\ k < m
    OBVIOUS
  <2>2. PICK i \in 1 .. n : r[i] = k
    BY <1>1, <2>1
  <2> QED BY <2>1, <2>2
<1>5. \A i, j \in W : f[i] = f[j] => i = j
  BY <1>1
<1>6. f \in Surjection(W, 0 .. (m - 1)) /\ f \in Injection(W, 0 .. (m - 1))
  BY <1>3, <1>4, <1>5 DEF Surjection, Injection, IsInjective
<1>7. Cardinality(0 .. (m - 1)) = Cardinality(W)
  BY <1>2, <1>6, FS_Surjection
<1>8. Cardinality(0 .. (m - 1)) = m
  <2>1. 0 \in Int /\ m - 1 \in Int
    OBVIOUS
  <2>2. Cardinality(0 .. (m - 1)) = IF 0 > m - 1 THEN 0 ELSE (m - 1) - 0 + 1
    BY <2>1, FS_Interval
  <2> QED BY <2>2
<1> QED BY <1>7, <1>8 DEF r

\* distribute_pane_percentage_total gives one more point to as many elements as there
\* are points to spare.
LEMMA RoundUpTotals ==
  ASSUME NEW base \in Seq(Int), NEW left \in [1 .. Len(base) -> Int], NEW m \in 0 .. Len(base)
  PROVE  /\ RoundUp(base, left, m) \in Seq(Int) /\ Len(RoundUp(base, left, m)) = Len(base)
         /\ \A i \in 1 .. Len(base) : RoundUp(base, left, m)[i] \in {base[i], base[i] + 1}
         /\ Total(RoundUp(base, left, m)) = Total(base) + m
<1> DEFINE n == Len(base)
           W == {i \in 1 .. n : Rank(n, left)[i] < m}
           v == [i \in 1 .. n |-> IF i \in W THEN 1 ELSE 0]
           x == RoundUp(base, left, m)
<1>1. n \in Nat /\ DOMAIN base = 1 .. n /\ \A i \in 1 .. n : base[i] \in Int
  OBVIOUS
<1>2. v \in [1 .. n -> Int]
  OBVIOUS
<1>3. v \in Seq(Int) /\ Len(v) = n
  BY <1>1, <1>2, SeqDef
<1>4. x = [i \in 1 .. n |-> base[i] + IF Cardinality(Before(n, left, i)) < m THEN 1 ELSE 0]
  BY <1>1 DEF RoundUp, Before
<1>5. \A i \in 1 .. n : i \in W <=> Cardinality(Before(n, left, i)) < m
  BY DEF Rank
<1>6. \A i \in 1 .. n : x[i] = base[i] + v[i]
  BY <1>4, <1>5
<1>7. x \in [1 .. n -> Int]
  BY <1>1, <1>4
<1>8. x \in Seq(Int) /\ Len(x) = n
  BY <1>1, <1>7, ListOf
<1>9. \A i \in 1 .. n : v[i] \in {0, 1}
  OBVIOUS
<1>10. Total(v) = Cardinality(W)
  BY <1>3, TotalCounts
<1>11. Cardinality(W) = m
  BY <1>1, FirstPlaces
<1> HIDE DEF v, x, W
<1>12. Total(x) = Total(base) + Total(v)
  BY <1>3, <1>6, <1>8, TotalAdds
<1>13. \A i \in 1 .. n : x[i] \in {base[i], base[i] + 1}
  BY <1>1, <1>6, <1>9
<1> QED BY <1>8, <1>10, <1>11, <1>12, <1>13 DEF x

\* A total stays below as many times its bound as it has elements.
LEMMA TotalBelow ==
  ASSUME NEW v \in Seq(Nat), NEW b \in Nat, \A i \in 1 .. Len(v) : v[i] <= b
  PROVE  Total(v) <= Len(v) * b
<1> DEFINE n == Len(v)
           ones == [i \in 1 .. n |-> 1]
           all == [i \in 1 .. n |-> 1 * b]
           rest == [i \in 1 .. n |-> b - v[i]]
<1>1. n \in Nat /\ \A i \in 1 .. n : v[i] \in Nat /\ b - v[i] \in Nat
  OBVIOUS
<1>2. ones \in [1 .. n -> Int] /\ all \in [1 .. n -> Int] /\ rest \in [1 .. n -> Nat]
  BY <1>1
<1>3. ones \in Seq(Int) /\ all \in Seq(Int) /\ rest \in Seq(Nat)
  BY <1>1, <1>2, SeqDef
<1>4. Len(ones) = n /\ Len(all) = n /\ Len(rest) = n
  BY <1>1, <1>2, <1>3
<1>5. Total(ones) = n
  BY <1>3, <1>4, TotalOnes
<1>6. Total(all) = Total(ones) * b
  <2>1. \A i \in 1 .. n : all[i] = ones[i] * b
    OBVIOUS
  <2> HIDE DEF ones, all
  <2> QED BY <1>3, <1>4, <2>1, TotalScales
<1>7. v \in Seq(Int) /\ rest \in Seq(Int)
  BY <1>3, SeqMonotonic
<1>8. Total(all) = Total(v) + Total(rest)
  <2>1. \A i \in 1 .. n : all[i] = v[i] + rest[i]
    BY <1>1
  <2> HIDE DEF all, rest
  <2> QED BY <1>3, <1>4, <1>7, <2>1, TotalAdds
<1>9. Total(rest) \in Nat /\ Total(v) \in Nat
  BY <1>3, TotalNat
<1> HIDE DEF ones, all, rest
<1>10. n * b = Total(v) + Total(rest)
  BY <1>5, <1>6, <1>8
<1> QED BY <1>9, <1>10

\* Division with a remainder.
LEMMA Divides ==
  ASSUME NEW a \in Nat, NEW b \in Nat \ {0}
  PROVE  a = ((a \div b) * b) + (a % b) /\ a % b \in 0 .. (b - 1) /\ a \div b \in Nat
<1>1. a = ((a \div b) * b) + (a % b)
  OBVIOUS
<1>2. a % b \in 0 .. (b - 1) /\ a \div b \in Nat
  OBVIOUS
<1> QED BY <1>1, <1>2

\* A multiple that is not negative and within n multiples.
LEMMA BetweenMultiples ==
  ASSUME NEW a \in Int, NEW b \in Nat \ {0}, NEW n \in Nat, a * b >= 0, a * b <= n * (b - 1)
  PROVE  a \in 0 .. n
<1>1. a >= 0
  <2> SUFFICES ASSUME a <= -1 PROVE a * b < 0
    OBVIOUS
  <2>1. a * b <= (-1) * b
    BY SMT
  <2> QED BY <2>1
<1>2. a <= n
  <2> SUFFICES ASSUME a >= n + 1 PROVE a * b > n * (b - 1)
    OBVIOUS
  <2>1. a * b >= (n + 1) * b
    BY SMT
  <2>2. (n + 1) * b = n * b + b /\ n * (b - 1) = n * b - n /\ n * b \in Int
    BY SMT
  <2> QED BY <2>1, <2>2
<1> QED BY <1>1, <1>2

\* distribute_pane_percentage_total: the parts are in proportion, none is negative,
\* and they add up to the total.
LEMMA ApportionTotals ==
  ASSUME NEW w \in Seq(Nat), Total(w) # 0, NEW total \in Nat
  PROVE  /\ Apportion(w, Total(w), total) \in Seq(Nat)
         /\ Len(Apportion(w, Total(w), total)) = Len(w)
         /\ Total(Apportion(w, Total(w), total)) = total
<1> DEFINE n == Len(w)
           sum == Total(w)
           scaled == [i \in 1 .. n |-> w[i] * total]
           base == [i \in 1 .. n |-> (w[i] * total) \div sum]
           left == [i \in 1 .. n |-> (w[i] * total) % sum]
           parts == [i \in 1 .. n |-> base[i] * sum]
           spare == total - Total(base)
<1>1. n \in Nat /\ DOMAIN w = 1 .. n /\ sum \in Nat \ {0} /\ \A i \in 1 .. n : w[i] \in Nat
  BY TotalNat
<1> HIDE DEF sum
<1>2. ASSUME NEW i \in 1 .. n
      PROVE  /\ scaled[i] = w[i] * total /\ scaled[i] \in Nat /\ base[i] \in Nat
             /\ left[i] \in 0 .. (sum - 1) /\ parts[i] = base[i] * sum /\ parts[i] \in Int
             /\ scaled[i] = parts[i] + left[i]
  <2>1. w[i] * total \in Nat
    BY <1>1
  <2> DEFINE x == w[i] * total
  <2> HIDE DEF x
  <2>2. x \in Nat
    BY <2>1 DEF x
  <2>3. x = ((x \div sum) * sum) + (x % sum) /\ x % sum \in 0 .. (sum - 1) /\ x \div sum \in Nat
    BY <1>1, <2>2, Divides
  <2>4. (x \div sum) * sum \in Int
    BY <1>1, <2>3
  <2>5. scaled[i] = x /\ base[i] = x \div sum /\ left[i] = x % sum
        /\ parts[i] = (x \div sum) * sum
    BY DEF x
  <2>6. scaled[i] = w[i] * total
    OBVIOUS
  <2> HIDE DEF scaled, base, left, parts
  <2> QED BY <2>2, <2>3, <2>4, <2>5, <2>6
<1>3. /\ scaled = [i \in 1 .. n |-> scaled[i]] /\ base = [i \in 1 .. n |-> base[i]]
      /\ left = [i \in 1 .. n |-> left[i]] /\ parts = [i \in 1 .. n |-> parts[i]]
  OBVIOUS
<1>4. Apportion(w, sum, total) = RoundUp(base, left, spare)
  BY <1>1 DEF Apportion
<1> HIDE DEF scaled, base, left, parts
<1>5. /\ scaled \in [1 .. n -> Nat] /\ base \in [1 .. n -> Nat] /\ left \in [1 .. n -> Nat]
      /\ parts \in [1 .. n -> Int] /\ left \in [1 .. n -> Int]
  <2>1. \A i \in 1 .. n : left[i] \in Nat
    BY <1>1, <1>2
  <2> QED BY <1>2, <1>3, <2>1
<1>6. scaled \in Seq(Nat) /\ base \in Seq(Nat) /\ left \in Seq(Nat) /\ parts \in Seq(Int)
  BY <1>1, <1>5, ListOf
<1>7. Len(scaled) = n /\ Len(base) = n /\ Len(left) = n /\ Len(parts) = n
  BY <1>1, <1>5, ListOf
<1>8. scaled \in Seq(Int) /\ base \in Seq(Int) /\ left \in Seq(Int) /\ w \in Seq(Int)
  BY <1>6, SeqMonotonic
<1>9. Total(scaled) = sum * total
  BY <1>2, <1>7, <1>8, TotalScales DEF sum
<1>10. Total(parts) = Total(base) * sum
  BY <1>1, <1>2, <1>6, <1>7, <1>8, TotalScales
<1>11. Total(scaled) = Total(parts) + Total(left)
  BY <1>2, <1>6, <1>7, <1>8, TotalAdds
<1>12. Total(left) \in Nat /\ Total(left) <= n * (sum - 1)
  <2>1. sum - 1 \in Nat /\ \A i \in 1 .. n : left[i] <= sum - 1
    BY <1>1, <1>2
  <2> QED BY <1>6, <1>7, <2>1, TotalNat, TotalBelow
<1>13. Total(base) \in Int /\ spare \in Int
  BY <1>8, TotalInt
<1>14. spare * sum = Total(left)
  <2>1. (total - Total(base)) * sum = total * sum - Total(base) * sum
    BY <1>1, <1>13
  <2>2. total * sum = sum * total /\ sum * total \in Int /\ Total(base) * sum \in Int
    BY <1>1, <1>13
  <2> QED BY <1>9, <1>10, <1>11, <1>12, <2>1, <2>2
<1> HIDE DEF spare
<1>15. spare \in 0 .. n
  BY <1>1, <1>12, <1>13, <1>14, BetweenMultiples
<1> DEFINE x == RoundUp(base, left, spare)
<1>16. /\ x \in Seq(Int) /\ Len(x) = n /\ Total(x) = Total(base) + spare
       /\ \A i \in 1 .. n : x[i] \in {base[i], base[i] + 1}
  BY <1>5, <1>7, <1>8, <1>15, RoundUpTotals, SMTT(30)
<1> HIDE DEF x
<1>17. ASSUME NEW i \in 1 .. n PROVE x[i] \in Nat
  <2>1. base[i] \in Nat /\ x[i] \in {base[i], base[i] + 1}
    BY <1>2, <1>16
  <2> QED BY <2>1
<1>18. x \in [1 .. n -> Nat]
  BY <1>16, <1>17
<1>19. x \in Seq(Nat)
  BY <1>1, <1>18, SeqDef
<1>20. Total(base) + spare = total
  BY <1>13 DEF spare
<1> QED BY <1>4, <1>16, <1>19, <1>20 DEF x, sum

\* normalize_pane_percentages: whatever the weights, none of the parts is negative and
\* they add up to the total.
THEOREM DistributeTotals ==
  ASSUME NEW w \in Seq(Nat), Len(w) # 0, NEW total \in Nat
  PROVE  /\ Distribute(w, total) \in Seq(Nat) /\ Len(Distribute(w, total)) = Len(w)
         /\ Total(Distribute(w, total)) = total
<1>1. CASE Total(w) # 0
  BY <1>1, ApportionTotals DEF Distribute
<1>2. CASE Total(w) = 0
  <2> DEFINE n == Len(w)
             ones == [i \in DOMAIN w |-> 1]
  <2>1. n \in Nat \ {0} /\ ones \in [1 .. n -> Nat]
    OBVIOUS
  <2>2. ones \in Seq(Nat) /\ Len(ones) = n /\ \A i \in 1 .. n : ones[i] = 1
    BY <2>1, SeqDef
  <2>3. ones \in Seq(Int)
    BY <2>2, SeqMonotonic
  <2>4. Distribute(w, total) = Apportion(ones, n, total)
    BY <1>2 DEF Distribute
  <2> HIDE DEF ones
  <2>5. Total(ones) = n
    BY <2>2, <2>3, TotalOnes
  <2> QED BY <2>1, <2>2, <2>4, <2>5, ApportionTotals
<1> QED BY <1>1, <1>2

-----------------------------------------------------------------------------
(* Lists of children *)

KidRec == [node : Pane \cup Split, share : Nat]

\* The nodes a list of children names, each of them once, and what their shares add
\* up to.
NodesOf(K) == {K[i].node : i \in 1 .. Len(K)}
Distinct(K) == \A i, j \in 1 .. Len(K) : K[i].node = K[j].node => i = j
SumOf(K) == Total(Weights(K))

\* A list of children, element by element.
LEMMA KidsAt ==
  ASSUME NEW K \in Seq(KidRec)
  PROVE  /\ Len(K) \in Nat /\ DOMAIN K = 1 .. Len(K)
         /\ \A i \in 1 .. Len(K) : /\ K[i] \in KidRec /\ K[i].node \in Pane \cup Split
            /\ K[i].share \in Nat
                                   /\ K[i] = Kid(K[i].node, K[i].share)
                                      /\ K[i].node \in NodesOf(K)
         /\ NodesOf(K) \subseteq Pane \cup Split
<1>1. Len(K) \in Nat /\ DOMAIN K = 1 .. Len(K) /\ \A i \in 1 .. Len(K) : K[i] \in KidRec
  OBVIOUS
<1>2. \A i \in 1 .. Len(K) : /\ K[i].node \in Pane \cup Split /\ K[i].share \in Nat
                             /\ K[i] = Kid(K[i].node, K[i].share)
  BY <1>1 DEF KidRec, Kid
<1> QED BY <1>1, <1>2 DEF NodesOf

\* The shares of a list of children.
LEMMA WeightsOf ==
  ASSUME NEW K \in Seq(KidRec)
  PROVE  /\ Weights(K) \in Seq(Nat) /\ Weights(K) \in Seq(Int) /\ Len(Weights(K)) = Len(K)
         /\ \A i \in 1 .. Len(K) : Weights(K)[i] = K[i].share
<1>1. Len(K) \in Nat /\ Weights(K) \in [1 .. Len(K) -> Nat]
  BY KidsAt DEF Weights
<1>2. Weights(K) \in Seq(Nat) /\ Len(Weights(K)) = Len(K)
  BY <1>1, ListOf
<1>3. \A i \in 1 .. Len(K) : Weights(K)[i] = K[i].share
  BY KidsAt DEF Weights
<1> QED BY <1>2, <1>3, SeqMonotonic

\* The nodes of a list of children in their order.
LEMMA KidNodesOf ==
  ASSUME NEW K \in Seq(KidRec)
  PROVE  /\ KidNodes(K) \in Seq(Pane \cup Split) /\ Len(KidNodes(K)) = Len(K)
         /\ DOMAIN KidNodes(K) = 1 .. Len(K)
         /\ \A i \in 1 .. Len(K) : KidNodes(K)[i] = K[i].node
         /\ ToSet(KidNodes(K)) = NodesOf(K)
<1>1. Len(K) \in Nat /\ KidNodes(K) \in [1 .. Len(K) -> Pane \cup Split]
  BY KidsAt DEF KidNodes
<1>2. KidNodes(K) \in Seq(Pane \cup Split) /\ Len(KidNodes(K)) = Len(K)
  BY <1>1, ListOf
<1>3. DOMAIN KidNodes(K) = 1 .. Len(K) /\ \A i \in 1 .. Len(K) : KidNodes(K)[i] = K[i].node
  BY KidsAt DEF KidNodes
<1>4. ToSet(KidNodes(K)) = NodesOf(K)
  BY <1>3 DEF ToSet, NodesOf
<1> QED BY <1>2, <1>3, <1>4

\* Shares add up to something that is not negative.
LEMMA SumNat ==
  ASSUME NEW K \in Seq(KidRec)
  PROVE  SumOf(K) \in Nat
  BY WeightsOf, TotalNat DEF SumOf

\* A list without elements.
LEMMA KidsNone ==
  ASSUME NEW K \in Seq(KidRec), Len(K) = 0
  PROVE  NodesOf(K) = {} /\ Distinct(K) /\ SumOf(K) = 0
<1>1. 1 .. Len(K) = {}
  OBVIOUS
<1>2. SumOf(K) = 0
  BY WeightsOf, TotalEmpty DEF SumOf
<1> QED BY <1>1, <1>2 DEF NodesOf, Distinct

\* A list of one child.
LEMMA KidsOne ==
  ASSUME NEW n \in Pane \cup Split, NEW x \in Nat
  PROVE  /\ <<Kid(n, x)>> \in Seq(KidRec) /\ Len(<<Kid(n, x)>>) = 1
         /\ NodesOf(<<Kid(n, x)>>) = {n} /\ Distinct(<<Kid(n, x)>>) /\ SumOf(<<Kid(n, x)>>) = x
<1>1. Kid(n, x) \in KidRec /\ Kid(n, x).node = n /\ Kid(n, x).share = x
  BY DEF Kid, KidRec
<1> DEFINE K == <<Kid(n, x)>>
<1>2. K \in Seq(KidRec) /\ Len(K) = 1 /\ K[1] = Kid(n, x) /\ 1 .. Len(K) = {1}
  BY <1>1
<1> HIDE DEF K
<1>3. NodesOf(K) = {n} /\ Distinct(K)
  BY <1>1, <1>2 DEF NodesOf, Distinct
<1>4. Weights(K) \in Seq(Int) /\ Len(Weights(K)) = 1 /\ Weights(K)[1] = x
  BY <1>1, <1>2, WeightsOf
<1>5. SumOf(K) = x
  BY <1>4, TotalOne DEF SumOf
<1> QED BY <1>2, <1>3, <1>5 DEF K

\* Two lists in a row.
LEMMA KidsConcat ==
  ASSUME NEW K \in Seq(KidRec), NEW M \in Seq(KidRec)
  PROVE  /\ K \o M \in Seq(KidRec) /\ Len(K \o M) = Len(K) + Len(M)
         /\ NodesOf(K \o M) = NodesOf(K) \cup NodesOf(M)
         /\ Distinct(K \o M) <=> Distinct(K) /\ Distinct(M) /\ NodesOf(K) \cap NodesOf(M) = {}
         /\ SumOf(K \o M) = SumOf(K) + SumOf(M)
<1> DEFINE m == Len(K)
           n == Len(M)
           C == K \o M
<1>1. m \in Nat /\ n \in Nat /\ C \in Seq(KidRec) /\ Len(C) = m + n
  OBVIOUS
<1>2. \A i \in 1 .. m : C[i] = K[i]
  OBVIOUS
<1>3. \A i \in 1 .. n : C[m + i] = M[i]
  OBVIOUS
<1>4. \A i \in 1 .. m + n : i \in 1 .. m \/ \E j \in 1 .. n : i = m + j
  <2> SUFFICES ASSUME NEW i \in 1 .. m + n, i \notin 1 .. m PROVE \E j \in 1 .. n : i = m + j
    OBVIOUS
  <2>1. i - m \in 1 .. n /\ i = m + (i - m)
    BY <1>1
  <2> QED BY <2>1
<1>5. (\A i \in 1 .. m : i \in 1 .. m + n)
      /\ (\A j \in 1 .. n : m + j \in 1 .. m + n /\ m + j \notin 1 .. m)
  BY <1>1
<1> HIDE DEF C
<1>6. NodesOf(C) = NodesOf(K) \cup NodesOf(M)
  <2>1. ASSUME NEW i \in 1 .. m + n PROVE C[i].node \in NodesOf(K) \cup NodesOf(M)
    BY <1>2, <1>3, <1>4 DEF NodesOf
  <2>2. \A i \in 1 .. m : K[i].node \in NodesOf(C)
    BY <1>1, <1>2, <1>5 DEF NodesOf
  <2>3. \A i \in 1 .. n : M[i].node \in NodesOf(C)
    BY <1>1, <1>3, <1>5 DEF NodesOf
  <2>4. NodesOf(C) \subseteq NodesOf(K) \cup NodesOf(M)
    BY <1>1, <2>1 DEF NodesOf
  <2>5. NodesOf(K) \subseteq NodesOf(C) /\ NodesOf(M) \subseteq NodesOf(C)
    BY <2>2, <2>3 DEF NodesOf
  <2> QED BY <2>4, <2>5
<1>7. ASSUME Distinct(C)
      PROVE  Distinct(K) /\ Distinct(M) /\ NodesOf(K) \cap NodesOf(M) = {}
  <2>1. \A i, j \in 1 .. m + n : C[i].node = C[j].node => i = j
    BY <1>1, <1>7 DEF Distinct
  <2>2. Distinct(K)
    BY <1>2, <1>5, <2>1 DEF Distinct
  <2>3. Distinct(M)
    <3> SUFFICES ASSUME NEW i \in 1 .. n, NEW j \in 1 .. n, M[i].node = M[j].node PROVE i = j
      BY DEF Distinct
    <3>1. m + i = m + j
      BY <1>3, <1>5, <2>1
    <3> QED BY <1>1, <3>1
  <2>4. NodesOf(K) \cap NodesOf(M) = {}
    <3> SUFFICES ASSUME NEW i \in 1 .. m, NEW j \in 1 .. n, K[i].node = M[j].node PROVE FALSE
      BY DEF NodesOf
    <3>1. i = m + j
      BY <1>2, <1>3, <1>5, <2>1
    <3> QED BY <1>5, <3>1
  <2> QED BY <2>2, <2>3, <2>4
<1>8. ASSUME Distinct(K), Distinct(M), NodesOf(K) \cap NodesOf(M) = {}
      PROVE  Distinct(C)
  <2> SUFFICES ASSUME NEW i \in 1 .. m + n, NEW j \in 1 .. m + n, C[i].node = C[j].node
                      PROVE i = j
    BY <1>1 DEF Distinct
  <2>1. CASE i \in 1 .. m /\ j \in 1 .. m
    BY <1>2, <1>8, <2>1 DEF Distinct
  <2>2. CASE i \in 1 .. m /\ j \notin 1 .. m
    <3>1. PICK k \in 1 .. n : j = m + k
      BY <1>4, <2>2
    <3>2. K[i].node = M[k].node
      BY <1>2, <1>3, <2>2, <3>1
    <3>3. K[i].node \in NodesOf(K) /\ M[k].node \in NodesOf(M)
      BY <2>2 DEF NodesOf
    <3> QED BY <1>8, <3>2, <3>3
  <2>3. CASE i \notin 1 .. m /\ j \in 1 .. m
    <3>1. PICK k \in 1 .. n : i = m + k
      BY <1>4, <2>3
    <3>2. K[j].node = M[k].node
      BY <1>2, <1>3, <2>3, <3>1
    <3>3. K[j].node \in NodesOf(K) /\ M[k].node \in NodesOf(M)
      BY <2>3 DEF NodesOf
    <3> QED BY <1>8, <3>2, <3>3
  <2>4. CASE i \notin 1 .. m /\ j \notin 1 .. m
    <3>1. PICK k \in 1 .. n : i = m + k
      BY <1>4, <2>4
    <3>2. PICK h \in 1 .. n : j = m + h
      BY <1>4, <2>4
    <3>3. M[k].node = M[h].node
      BY <1>3, <3>1, <3>2
    <3>4. k = h
      BY <1>8, <3>3 DEF Distinct
    <3> QED BY <3>1, <3>2, <3>4
  <2> QED BY <2>1, <2>2, <2>3, <2>4
<1>9. Weights(C) = Weights(K) \o Weights(M)
  <2>0. Weights(K) \in Seq(Nat) /\ Weights(M) \in Seq(Nat) /\ Len(Weights(K)) = m
        /\ Len(Weights(M)) = n
    BY WeightsOf
  <2> DEFINE v == Weights(K)
             w == Weights(M)
  <2> HIDE DEF v, w
  <2>1. v \in Seq(Nat) /\ w \in Seq(Nat) /\ Len(v) = m /\ Len(w) = n
    BY <2>0 DEF v, w
  <2>4. v \o w \in Seq(Nat) /\ Len(v \o w) = Len(v) + Len(w)
    <3>1. v \in Seq(Nat) /\ w \in Seq(Nat)
      BY <2>1
    <3>2. v \o w \in Seq(Nat)
      BY <3>1
    <3>3. Len(v \o w) = Len(v) + Len(w)
      BY <3>1
    <3> QED BY <3>2, <3>3
  <2>5. v \o w \in Seq(Nat) /\ Len(v \o w) = m + n
    BY <2>1, <2>4
  <2>2. Weights(C) \in Seq(Nat) /\ Len(Weights(C)) = m + n
    BY <1>1, WeightsOf
  <2>3. ASSUME NEW i \in 1 .. m + n PROVE Weights(C)[i] = (Weights(K) \o Weights(M))[i]
    <3>1. Weights(C)[i] = C[i].share
      BY <1>1, WeightsOf
    <3>2. (Weights(K) \o Weights(M))[i] = IF i <= m THEN Weights(K)[i] ELSE Weights(M)[i - m]
      BY WeightsOf
    <3>3. CASE i \in 1 .. m
      BY <1>2, <3>1, <3>2, <3>3, WeightsOf
    <3>4. CASE i \notin 1 .. m
      <4>1. ~ (i <= m) /\ i - m \in 1 .. n /\ m + (i - m) = i
        BY <1>1, <3>4
      <4>2. C[i] = M[i - m]
        BY <1>3, <4>1
      <4> QED BY <3>1, <3>2, <4>1, <4>2, WeightsOf
    <3> QED BY <3>3, <3>4
  <2> QED BY <2>2, <2>3, <2>5, SeqEqual DEF v, w
<1>10. SumOf(C) = SumOf(K) + SumOf(M)
  BY <1>9, WeightsOf, TotalConcat DEF SumOf
<1> QED BY <1>1, <1>6, <1>7, <1>8, <1>10 DEF C

\* The same in a form that keeps the prover from looking into the lists.
Join(K, M) == K \o M
Cut(K, i, j) == SubSeq(K, i, j)

\* Two lists of children joined, in these terms.
LEMMA KidsJoined ==
  ASSUME NEW K \in Seq(KidRec), NEW M \in Seq(KidRec)
  PROVE  /\ Join(K, M) \in Seq(KidRec) /\ Len(Join(K, M)) = Len(K) + Len(M)
         /\ NodesOf(Join(K, M)) = NodesOf(K) \cup NodesOf(M)
         /\ Distinct(Join(K, M)) => Distinct(K) /\ Distinct(M) /\ NodesOf(K) \cap NodesOf(M) = {}
         /\ Distinct(K) /\ Distinct(M) /\ NodesOf(K) \cap NodesOf(M) = {} => Distinct(Join(K, M))
         /\ SumOf(Join(K, M)) = SumOf(K) + SumOf(M)
<1>1. Join(K, M) \in Seq(KidRec) /\ Len(Join(K, M)) = Len(K) + Len(M)
  BY KidsConcat DEF Join
<1>2. NodesOf(Join(K, M)) = NodesOf(K) \cup NodesOf(M)
  BY KidsConcat DEF Join
<1>3. Distinct(Join(K, M)) => Distinct(K) /\ Distinct(M) /\ NodesOf(K) \cap NodesOf(M) = {}
  BY KidsConcat DEF Join
<1>4. Distinct(K) /\ Distinct(M) /\ NodesOf(K) \cap NodesOf(M) = {} => Distinct(Join(K, M))
  BY KidsConcat DEF Join
<1>5. SumOf(Join(K, M)) = SumOf(K) + SumOf(M)
  BY KidsConcat DEF Join
<1> QED BY <1>1, <1>2, <1>3, <1>4, <1>5

\* A list of children cut before the i-th and after the j-th.
LEMMA KidsCut ==
  ASSUME NEW K \in Seq(KidRec), NEW i \in 1 .. Len(K) + 1, NEW j \in (i - 1) .. Len(K)
  PROVE  /\ Cut(K, 1, i - 1) \in Seq(KidRec) /\ Len(Cut(K, 1, i - 1)) = i - 1
         /\ Cut(K, i, j) \in Seq(KidRec) /\ Len(Cut(K, i, j)) = (j - i) + 1
         /\ Cut(K, j + 1, Len(K)) \in Seq(KidRec) /\ Len(Cut(K, j + 1, Len(K))) = Len(K) - j
         /\ K = Join(Join(Cut(K, 1, i - 1), Cut(K, i, j)), Cut(K, j + 1, Len(K)))
<1> DEFINE A == SubSeq(K, 1, i - 1)
           B == SubSeq(K, i, j)
           C == SubSeq(K, j + 1, Len(K))
           n == Len(K)
<1>1. n \in Nat /\ i \in 1 .. n + 1 /\ j \in 0 .. n /\ i - 1 \in 0 .. n /\ i - 1 <= j
  OBVIOUS
<1>2. A \in Seq(KidRec) /\ Len(A) = i - 1 /\ \A k \in 1 .. i - 1 : A[k] = K[k]
  BY <1>1
<1>3. B \in Seq(KidRec) /\ Len(B) = (j - i) + 1 /\ \A k \in 1 .. (j - i) + 1 : B[k]
      = K[(i + k) - 1]
  BY <1>1
<1>4. C \in Seq(KidRec) /\ Len(C) = n - j /\ \A k \in 1 .. n - j : C[k] = K[j + k]
  BY <1>1
<1> HIDE DEF A, B, C
<1>5. A \o B \in Seq(KidRec) /\ Len(A \o B) = j
  <2>1. A \in Seq(KidRec) /\ B \in Seq(KidRec)
    BY <1>2, <1>3
  <2>2. A \o B \in Seq(KidRec) /\ Len(A \o B) = Len(A) + Len(B)
    BY <2>1
  <2> QED BY <1>1, <1>2, <1>3, <2>2
<1>6. \A k \in 1 .. j : (A \o B)[k] = K[k]
  <2> SUFFICES ASSUME NEW k \in 1 .. j PROVE (A \o B)[k] = K[k]
    OBVIOUS
  <2>1. CASE k <= i - 1
    <3>1. k \in 1 .. i - 1 /\ (A \o B)[k] = A[k]
      BY <1>1, <1>2, <1>3, <2>1
    <3> QED BY <1>2, <3>1
  <2>2. CASE ~ (k <= i - 1)
    <3>1. k - (i - 1) \in 1 .. (j - i) + 1 /\ (i + (k - (i - 1))) - 1 = k
      BY <1>1, <2>2
    <3>2. (A \o B)[k] = B[k - (i - 1)]
      BY <1>1, <1>2, <1>3, <2>2
    <3> QED BY <1>3, <3>1, <3>2
  <2> QED BY <2>1, <2>2
<1> DEFINE AB == A \o B
<1> HIDE DEF AB
<1>7. AB \in Seq(KidRec) /\ Len(AB) = j /\ \A k \in 1 .. j : AB[k] = K[k]
  BY <1>5, <1>6 DEF AB
<1>8. AB \o C \in Seq(KidRec) /\ Len(AB \o C) = n
  BY <1>1, <1>4, <1>7
<1>9. \A k \in 1 .. n : (AB \o C)[k] = K[k]
  <2> SUFFICES ASSUME NEW k \in 1 .. n PROVE (AB \o C)[k] = K[k]
    OBVIOUS
  <2>1. CASE k <= j
    <3>1. k \in 1 .. j /\ (AB \o C)[k] = AB[k]
      BY <1>1, <1>4, <1>7, <2>1
    <3> QED BY <1>7, <3>1
  <2>2. CASE ~ (k <= j)
    <3>1. k - j \in 1 .. n - j /\ j + (k - j) = k
      BY <1>1, <2>2
    <3>2. (AB \o C)[k] = C[k - j]
      BY <1>1, <1>4, <1>7, <2>2
    <3> QED BY <1>4, <3>1, <3>2
  <2> QED BY <2>1, <2>2
<1>10. K = AB \o C
  BY <1>8, <1>9, SeqEqual
<1>11. K = Join(Join(A, B), C)
  BY <1>10 DEF AB, Join
<1> QED BY <1>2, <1>3, <1>4, <1>11 DEF A, B, C, Cut

\* A list of children from the i-th to the j-th.
LEMMA KidsRange ==
  ASSUME NEW K \in Seq(KidRec), NEW i \in 1 .. Len(K), NEW j \in i .. Len(K)
  PROVE  /\ NodesOf(Cut(K, i, j)) = {K[k].node : k \in i .. j}
         /\ SubSeq(KidNodes(K), i, j) = KidNodes(Cut(K, i, j))
<1> DEFINE B == SubSeq(K, i, j)
           n == (j - i) + 1
<1>1. B \in Seq(KidRec) /\ Len(B) = n /\ n \in Nat /\ \A k \in 1 .. n : B[k] = K[(i + k) - 1]
  OBVIOUS
<1>2. \A k \in 1 .. n : (i + k) - 1 \in i .. j
  OBVIOUS
<1>3. \A k \in i .. j : (k - i) + 1 \in 1 .. n /\ (i + ((k - i) + 1)) - 1 = k
  OBVIOUS
<1>4. NodesOf(B) = {K[k].node : k \in i .. j}
  <2>1. ASSUME NEW x \in NodesOf(B) PROVE x \in {K[k].node : k \in i .. j}
    BY <1>1, <1>2 DEF NodesOf
  <2>2. ASSUME NEW k \in i .. j PROVE K[k].node \in NodesOf(B)
    <3>1. B[(k - i) + 1] = K[k] /\ (k - i) + 1 \in 1 .. Len(B)
      BY <1>1, <1>3
    <3> HIDE DEF B
    <3> QED BY <3>1 DEF NodesOf
  <2> QED BY <2>1, <2>2
<1>5. SubSeq(KidNodes(K), i, j) = KidNodes(B)
  <2>1. KidNodes(K) \in Seq(Pane \cup Split) /\ Len(KidNodes(K)) = Len(K)
        /\ \A k \in 1 .. Len(K) : KidNodes(K)[k] = K[k].node
    BY KidNodesOf
  <2>2. KidNodes(B) \in Seq(Pane \cup Split) /\ Len(KidNodes(B)) = n
        /\ \A k \in 1 .. n : KidNodes(B)[k] = B[k].node
    BY <1>1, KidNodesOf
  <2> DEFINE N == KidNodes(K)
  <2> HIDE DEF N
  <2>3. N \in Seq(Pane \cup Split) /\ Len(N) = Len(K) /\ \A k \in 1 .. Len(K) : N[k] = K[k].node
    BY <2>1 DEF N
  <2>4. SubSeq(N, i, j) \in Seq(Pane \cup Split)
    BY <2>3
  <2>5. Len(SubSeq(N, i, j)) = n
    BY <2>3
  <2>6. \A k \in 1 .. n : SubSeq(N, i, j)[k] = N[(i + k) - 1]
    BY <2>3
  <2>7. \A k \in 1 .. n : SubSeq(N, i, j)[k] = KidNodes(B)[k]
    <3> SUFFICES ASSUME NEW k \in 1 .. n PROVE SubSeq(N, i, j)[k] = KidNodes(B)[k]
      OBVIOUS
    <3>1. (i + k) - 1 \in 1 .. Len(K)
      BY <1>2
    <3>2. N[(i + k) - 1] = K[(i + k) - 1].node
      BY <2>3, <3>1
    <3> QED BY <1>1, <2>2, <2>6, <3>2
  <2>8. SubSeq(N, i, j) = KidNodes(B)
    BY <2>2, <2>4, <2>5, <2>7, SeqEqual
  <2> QED BY <2>8 DEF N
<1> QED BY <1>4, <1>5 DEF Cut

\* A part of a list that consists of one child.
LEMMA KidsSingle ==
  ASSUME NEW K \in Seq(KidRec), NEW i \in 1 .. Len(K)
  PROVE  /\ NodesOf(Cut(K, i, i)) = {K[i].node} /\ SumOf(Cut(K, i, i)) = K[i].share
<1> DEFINE B == SubSeq(K, i, i)
<1>1. B \in Seq(KidRec) /\ Len(B) = 1 /\ B[1] = K[i]
  OBVIOUS
<1>2. K[i].node \in Pane \cup Split /\ K[i].share \in Nat
  BY KidsAt
<1> HIDE DEF B
<1>3. NodesOf(B) = {K[i].node}
  <2>1. 1 .. Len(B) = {1}
    BY <1>1
  <2> QED BY <1>1, <2>1 DEF NodesOf
<1>4. Weights(B) \in Seq(Int) /\ Len(Weights(B)) = 1 /\ Weights(B)[1] = K[i].share
  BY <1>1, WeightsOf
<1>5. SumOf(B) = K[i].share
  BY <1>4, TotalOne DEF SumOf
<1> QED BY <1>3, <1>5 DEF B, Cut

\* Three lists in a row.
LEMMA KidsThree ==
  ASSUME NEW A \in Seq(KidRec), NEW B \in Seq(KidRec), NEW C \in Seq(KidRec)
  PROVE  LET K == Join(Join(A, B), C) IN
         /\ K \in Seq(KidRec) /\ Len(K) = Len(A) + Len(B) + Len(C)
         /\ Distinct(K) => /\ Distinct(A) /\ Distinct(B) /\ Distinct(C)
                           /\ NodesOf(A) \cap NodesOf(B) = {} /\ NodesOf(A) \cap NodesOf(C) = {}
                           /\ NodesOf(B) \cap NodesOf(C) = {}
         /\ (/\ Distinct(A) /\ Distinct(B) /\ Distinct(C)
             /\ NodesOf(A) \cap NodesOf(B) = {} /\ NodesOf(A) \cap NodesOf(C) = {}
             /\ NodesOf(B) \cap NodesOf(C) = {}) => Distinct(K)
         /\ NodesOf(K) = NodesOf(A) \cup NodesOf(B) \cup NodesOf(C)
         /\ SumOf(K) = SumOf(A) + SumOf(B) + SumOf(C)
<1> DEFINE AB == Join(A, B)
           K == Join(AB, C)
<1>1. /\ AB \in Seq(KidRec) /\ Len(AB) = Len(A) + Len(B)
         /\ NodesOf(AB) = NodesOf(A) \cup NodesOf(B)
      /\ SumOf(AB) = SumOf(A) + SumOf(B)
  BY KidsJoined
<1>2. Distinct(AB) => Distinct(A) /\ Distinct(B) /\ NodesOf(A) \cap NodesOf(B) = {}
  BY KidsJoined
<1>3. Distinct(A) /\ Distinct(B) /\ NodesOf(A) \cap NodesOf(B) = {} => Distinct(AB)
  BY KidsJoined
<1> HIDE DEF AB
<1>5. /\ K \in Seq(KidRec) /\ Len(K) = Len(AB) + Len(C)
         /\ NodesOf(K) = NodesOf(AB) \cup NodesOf(C)
      /\ SumOf(K) = SumOf(AB) + SumOf(C)
  BY <1>1, KidsJoined
<1>6. Distinct(K) => Distinct(AB) /\ Distinct(C) /\ NodesOf(AB) \cap NodesOf(C) = {}
  BY <1>1, KidsJoined
<1>7. Distinct(AB) /\ Distinct(C) /\ NodesOf(AB) \cap NodesOf(C) = {} => Distinct(K)
  BY <1>1, KidsJoined
<1> HIDE DEF K
<1>8. K \in Seq(KidRec) /\ Len(K) = Len(A) + Len(B) + Len(C)
  BY <1>1, <1>5
<1>9. NodesOf(K) = NodesOf(A) \cup NodesOf(B) \cup NodesOf(C)
  BY <1>1, <1>5
<1>10. SumOf(K) = SumOf(A) + SumOf(B) + SumOf(C)
  BY <1>1, <1>5
<1>11. ASSUME Distinct(K)
       PROVE  /\ Distinct(A) /\ Distinct(B) /\ Distinct(C)
              /\ NodesOf(A) \cap NodesOf(B) = {} /\ NodesOf(A) \cap NodesOf(C) = {}
              /\ NodesOf(B) \cap NodesOf(C) = {}
  BY <1>1, <1>2, <1>6, <1>11
<1>12. ASSUME Distinct(A), Distinct(B), Distinct(C), NodesOf(A) \cap NodesOf(B) = {},
              NodesOf(A) \cap NodesOf(C) = {}, NodesOf(B) \cap NodesOf(C) = {}
       PROVE  Distinct(K)
  BY <1>1, <1>3, <1>7, <1>12
<1> QED BY <1>8, <1>9, <1>10, <1>11, <1>12 DEF K, AB

\* The three parts of a list of distinct children share no node.
LEMMA KidsParts ==
  ASSUME NEW K \in Seq(KidRec), Distinct(K), NEW i \in 1 .. Len(K) + 1,
         NEW j \in (i - 1) .. Len(K)
  PROVE  LET A == Cut(K, 1, i - 1)
             B == Cut(K, i, j)
             C == Cut(K, j + 1, Len(K))
         IN  /\ A \in Seq(KidRec) /\ B \in Seq(KidRec) /\ C \in Seq(KidRec)
             /\ Len(A) = i - 1 /\ Len(B) = (j - i) + 1 /\ Len(C) = Len(K) - j
             /\ Distinct(A) /\ Distinct(B) /\ Distinct(C)
             /\ NodesOf(A) \cap NodesOf(B) = {} /\ NodesOf(A) \cap NodesOf(C) = {}
             /\ NodesOf(B) \cap NodesOf(C) = {}
             /\ NodesOf(K) = NodesOf(A) \cup NodesOf(B) \cup NodesOf(C)
             /\ SumOf(K) = SumOf(A) + SumOf(B) + SumOf(C)
<1> DEFINE A == Cut(K, 1, i - 1)
           B == Cut(K, i, j)
           C == Cut(K, j + 1, Len(K))
<1>1. /\ A \in Seq(KidRec) /\ B \in Seq(KidRec) /\ C \in Seq(KidRec)
      /\ Len(A) = i - 1 /\ Len(B) = (j - i) + 1 /\ Len(C) = Len(K) - j
  BY KidsCut
<1>2. K = Join(Join(A, B), C)
  BY KidsCut
<1> HIDE DEF A, B, C
<1>3. A \in Seq(KidRec) /\ B \in Seq(KidRec) /\ C \in Seq(KidRec)
  BY <1>1
<1>4. Distinct(Join(Join(A, B), C))
  BY <1>2
<1>5. /\ Distinct(A) /\ Distinct(B) /\ Distinct(C)
      /\ NodesOf(A) \cap NodesOf(B) = {} /\ NodesOf(A) \cap NodesOf(C) = {}
      /\ NodesOf(B) \cap NodesOf(C) = {}
  BY <1>3, <1>4, KidsThree, Zenon
<1>6. NodesOf(K) = NodesOf(A) \cup NodesOf(B) \cup NodesOf(C)
      /\ SumOf(K) = SumOf(A) + SumOf(B) + SumOf(C)
  <2> DEFINE J == Join(Join(A, B), C)
  <2>1. NodesOf(J) = NodesOf(A) \cup NodesOf(B) \cup NodesOf(C)
        /\ SumOf(J) = SumOf(A) + SumOf(B) + SumOf(C)
    BY <1>3, KidsThree
  <2>2. K = J
    BY <1>2
  <2> HIDE DEF J
  <2> QED BY <2>1, <2>2
<1> QED BY <1>1, <1>5, <1>6 DEF A, B, C

\* A stretch of a list of children gives way to others.
LEMMA KidsReplaced ==
  ASSUME NEW K \in Seq(KidRec), Distinct(K), NEW i \in 1 .. Len(K) + 1, NEW n \in Nat,
         (i + n) - 1 <= Len(K), NEW new \in Seq(KidRec), Distinct(new),
         NodesOf(new) \cap NodesOf(K) \subseteq NodesOf(Cut(K, i, (i + n) - 1))
  PROVE  LET B == Cut(K, i, (i + n) - 1)
             R == Replace(K, i, n, new)
         IN  /\ R \in Seq(KidRec) /\ Len(R) = (Len(K) - n) + Len(new) /\ Distinct(R)
             /\ NodesOf(R) = (NodesOf(K) \ NodesOf(B)) \cup NodesOf(new)
             /\ SumOf(R) = (SumOf(K) - SumOf(B)) + SumOf(new)
<1> DEFINE j == (i + n) - 1
           A == Cut(K, 1, i - 1)
           B == Cut(K, i, j)
           C == Cut(K, j + 1, Len(K))
           R == Replace(K, i, n, new)
<1>1. j \in (i - 1) .. Len(K) /\ j + 1 = i + n /\ (j - i) + 1 = n /\ Len(K) \in Nat
      /\ Len(new) \in Nat
      /\ j \in Int
  OBVIOUS
<1>2. R = Join(Join(A, new), C)
  BY <1>1 DEF Replace, Join, Cut
<1>3. NodesOf(new) \cap NodesOf(K) \subseteq NodesOf(B)
  OBVIOUS
<1> HIDE DEF j
<1>4. /\ A \in Seq(KidRec) /\ B \in Seq(KidRec) /\ C \in Seq(KidRec)
      /\ Len(A) = i - 1 /\ Len(B) = (j - i) + 1 /\ Len(C) = Len(K) - j
      /\ Distinct(A) /\ Distinct(B) /\ Distinct(C)
      /\ NodesOf(A) \cap NodesOf(B) = {} /\ NodesOf(A) \cap NodesOf(C) = {}
      /\ NodesOf(B) \cap NodesOf(C) = {}
      /\ NodesOf(K) = NodesOf(A) \cup NodesOf(B) \cup NodesOf(C)
      /\ SumOf(K) = SumOf(A) + SumOf(B) + SumOf(C)
  BY <1>1, KidsParts, ZenonT(60)
<1> HIDE DEF A, B, C, R
<1>6. Distinct(A) /\ Distinct(C) /\ NodesOf(A) \cap NodesOf(C) = {}
      /\ NodesOf(A) \cap NodesOf(new) = {} /\ NodesOf(new) \cap NodesOf(C) = {}
  BY <1>3, <1>4
<1>5. A \in Seq(KidRec) /\ C \in Seq(KidRec)
  BY <1>4
<1> DEFINE J == Join(Join(A, new), C)
<1>J. R = J
  BY <1>2
<1>7. J \in Seq(KidRec) /\ Len(J) = Len(A) + Len(new) + Len(C)
  BY <1>5, KidsThree
<1>8. Distinct(J)
  BY <1>5, <1>6, KidsThree, Zenon
<1>9. NodesOf(J) = NodesOf(A) \cup NodesOf(new) \cup NodesOf(C)
      /\ SumOf(J) = SumOf(A) + SumOf(new) + SumOf(C)
  BY <1>5, KidsThree
<1> HIDE DEF J
<1>10. Len(R) = (Len(K) - n) + Len(new)
  <2>1. Len(A) = i - 1 /\ Len(C) = Len(K) - j
    BY <1>4
  <2> QED BY <1>1, <1>7, <1>J, <2>1, SMTT(30)
<1>11. NodesOf(R) = (NodesOf(K) \ NodesOf(B)) \cup NodesOf(new)
  BY <1>4, <1>9, <1>J
<1>12. SumOf(R) = (SumOf(K) - SumOf(B)) + SumOf(new)
  <2>1. SumOf(A) \in Nat /\ SumOf(B) \in Nat /\ SumOf(C) \in Nat /\ SumOf(new) \in Nat
    BY <1>4, SumNat
  <2> QED BY <1>4, <1>9, <1>J, <2>1
<1> QED BY <1>7, <1>8, <1>J, <1>10, <1>11, <1>12 DEF R, B, j

\* One child gives way to others.
LEMMA KidReplaced ==
  ASSUME NEW K \in Seq(KidRec), Distinct(K), NEW i \in 1 .. Len(K), NEW new \in Seq(KidRec),
         Distinct(new), NodesOf(new) \cap NodesOf(K) \subseteq {K[i].node}
  PROVE  /\ Replace(K, i, 1, new) \in Seq(KidRec) /\ Len(Replace(K, i, 1, new))
            = (Len(K) - 1) + Len(new)
         /\ Distinct(Replace(K, i, 1, new))
         /\ NodesOf(Replace(K, i, 1, new)) = (NodesOf(K) \ {K[i].node}) \cup NodesOf(new)
         /\ SumOf(Replace(K, i, 1, new)) = (SumOf(K) - K[i].share) + SumOf(new)
<1> DEFINE R == Replace(K, i, 1, new)
           B == Cut(K, i, i)
<1>1. (i + 1) - 1 = i /\ i \in 1 .. Len(K) + 1 /\ i <= Len(K)
  OBVIOUS
<1>2. NodesOf(B) = {K[i].node} /\ SumOf(B) = K[i].share
  BY KidsSingle
<1>3. Cut(K, i, (i + 1) - 1) = B
  BY <1>1
<1>4. NodesOf(new) \cap NodesOf(K) \subseteq NodesOf(Cut(K, i, (i + 1) - 1))
  BY <1>2, <1>3
<1> HIDE DEF B, R
<1>5. /\ R \in Seq(KidRec) /\ Len(R) = (Len(K) - 1) + Len(new) /\ Distinct(R)
      /\ NodesOf(R) = (NodesOf(K) \ NodesOf(B)) \cup NodesOf(new)
      /\ SumOf(R) = (SumOf(K) - SumOf(B)) + SumOf(new)
  BY <1>1, <1>3, <1>4, KidsReplaced DEF R
<1> QED BY <1>2, <1>5 DEF R

\* A child leaves the list.
LEMMA KidRemoved ==
  ASSUME NEW K \in Seq(KidRec), Distinct(K), NEW i \in 1 .. Len(K)
  PROVE  /\ RemoveAt(K, i) \in Seq(KidRec) /\ Len(RemoveAt(K, i)) = Len(K) - 1
         /\ Distinct(RemoveAt(K, i)) /\ NodesOf(RemoveAt(K, i)) = NodesOf(K) \ {K[i].node}
<1> DEFINE A == Cut(K, 1, i - 1)
           B == Cut(K, i, i)
           C == Cut(K, i + 1, Len(K))
<1>1. i \in 1 .. Len(K) + 1 /\ i \in (i - 1) .. Len(K) /\ Len(K) \in Nat
  OBVIOUS
<1>2. NodesOf(B) = {K[i].node}
  BY KidsSingle
<1>3. RemoveAt(K, i) = Join(A, C)
  BY DEF RemoveAt, Join, Cut
<1>4. /\ A \in Seq(KidRec) /\ C \in Seq(KidRec) /\ Len(A) = i - 1 /\ Len(C) = Len(K) - i
      /\ Distinct(A) /\ Distinct(C)
      /\ NodesOf(A) \cap NodesOf(B) = {} /\ NodesOf(A) \cap NodesOf(C) = {}
      /\ NodesOf(B) \cap NodesOf(C) = {}
      /\ NodesOf(K) = NodesOf(A) \cup NodesOf(B) \cup NodesOf(C)
  BY <1>1, KidsParts, SMTT(30)
<1> HIDE DEF A, B, C
<1>5. Join(A, C) \in Seq(KidRec) /\ Len(Join(A, C)) = Len(A) + Len(C)
  BY <1>4, KidsJoined
<1>6. Distinct(Join(A, C)) /\ NodesOf(Join(A, C)) = NodesOf(A) \cup NodesOf(C)
  BY <1>4, KidsJoined
<1>7. Len(A) + Len(C) = Len(K) - 1
  BY <1>1, <1>4
<1>8. NodesOf(A) \cup NodesOf(C) = NodesOf(K) \ {K[i].node}
  BY <1>2, <1>4
<1> QED BY <1>3, <1>5, <1>6, <1>7, <1>8

\* New shares for the same children.
LEMMA KidsShared ==
  ASSUME NEW K \in Seq(KidRec), NEW w \in Seq(Nat), Len(w) = Len(K)
  PROVE  /\ WithShares(K, w) \in Seq(KidRec) /\ Len(WithShares(K, w)) = Len(K)
         /\ \A i \in 1 .. Len(K) : WithShares(K, w)[i] = Kid(K[i].node, w[i])
         /\ NodesOf(WithShares(K, w)) = NodesOf(K) /\ KidNodes(WithShares(K, w)) = KidNodes(K)
         /\ Distinct(K) => Distinct(WithShares(K, w))
         /\ SumOf(WithShares(K, w)) = Total(w)
<1> DEFINE n == Len(K)
           f == [i \in 1 .. n |-> Kid(K[i].node, w[i])]
           R == WithShares(K, w)
<1>1. n \in Nat /\ \A i \in 1 .. n : w[i] \in Nat /\ K[i].node \in Pane \cup Split
  BY KidsAt
<1>2. f \in [1 .. n -> KidRec]
  BY <1>1 DEF Kid, KidRec
<1>3. f \in Seq(KidRec) /\ Len(f) = n
  BY <1>1, <1>2, ListOf, SMTT(30)
<1>4. R = f \o <<>>
  BY KidsAt DEF WithShares, Table
<1>5. R = f
  BY <1>3, <1>4, ConcatEmptySeq
<1>6. R \in Seq(KidRec) /\ Len(R) = n /\ \A i \in 1 .. n : R[i] = Kid(K[i].node, w[i])
  BY <1>3, <1>5
<1> HIDE DEF f, R
<1>7. ASSUME NEW i \in 1 .. n PROVE R[i].node = K[i].node /\ R[i].share = w[i]
  <2>1. R[i] = [node |-> K[i].node, share |-> w[i]]
    BY <1>6 DEF Kid
  <2> QED BY <2>1
<1>8. NodesOf(R) = NodesOf(K)
  BY <1>6, <1>7 DEF NodesOf
<1>9. Distinct(K) => Distinct(R)
  BY <1>6, <1>7 DEF Distinct
<1>10. KidNodes(R) = KidNodes(K)
  BY <1>6, <1>7, KidNodesOf, SeqEqual
<1>11. Weights(R) = w
  <2>1. Weights(R) \in Seq(Nat) /\ Len(Weights(R)) = n /\ \A i \in 1 .. n : Weights(R)[i] = w[i]
    BY <1>6, <1>7, WeightsOf
  <2> QED BY <2>1, SeqEqual
<1> QED BY <1>6, <1>8, <1>9, <1>10, <1>11 DEF R, SumOf

\* The same children with shares that add up to the total.
LEMMA KidsScaled ==
  ASSUME NEW K \in Seq(KidRec), Len(K) # 0, NEW total \in Nat
  PROVE  /\ ScaledTo(K, total) \in Seq(KidRec) /\ Len(ScaledTo(K, total)) = Len(K)
         /\ \A i \in 1 .. Len(K) : ScaledTo(K, total)[i].node = K[i].node
         /\ NodesOf(ScaledTo(K, total)) = NodesOf(K) /\ KidNodes(ScaledTo(K, total)) = KidNodes(K)
         /\ Distinct(K) => Distinct(ScaledTo(K, total))
         /\ SumOf(ScaledTo(K, total)) = total
<1> DEFINE w == Distribute(Weights(K), total)
<1>1. w \in Seq(Nat) /\ Len(w) = Len(K) /\ Total(w) = total
  BY WeightsOf, DistributeTotals
<1>2. ScaledTo(K, total) = WithShares(K, w)
  BY DEF ScaledTo
<1> HIDE DEF w
<1> DEFINE R == WithShares(K, w)
<1>3. /\ R \in Seq(KidRec) /\ Len(R) = Len(K) /\ \A i \in 1 .. Len(K) : R[i]
         = Kid(K[i].node, w[i])
      /\ NodesOf(R) = NodesOf(K) /\ KidNodes(R) = KidNodes(K) /\ (Distinct(K) => Distinct(R))
      /\ SumOf(R) = Total(w)
  BY <1>1, KidsShared
<1> HIDE DEF R
<1>4. ASSUME NEW i \in 1 .. Len(K) PROVE R[i].node = K[i].node
  <2>1. R[i] = [node |-> K[i].node, share |-> w[i]]
    BY <1>3 DEF Kid
  <2> QED BY <2>1
<1>5. SumOf(R) = total
  BY <1>1, <1>3
<1> DEFINE S == ScaledTo(K, total)
<1>6. S = R
  BY <1>2 DEF R
<1> HIDE DEF S
<1>7. /\ S \in Seq(KidRec) /\ Len(S) = Len(K) /\ \A i \in 1 .. Len(K) : S[i].node = K[i].node
      /\ NodesOf(S) = NodesOf(K) /\ KidNodes(S) = KidNodes(K) /\ SumOf(S) = total
  BY <1>3, <1>4, <1>5, <1>6
<1>8. Distinct(K) => Distinct(S)
  BY <1>3, <1>6
<1> QED BY <1>7, <1>8 DEF S

\* Node n instead of the i-th of a list of children.
PutNode(K, i, n) == [K EXCEPT ![i] = [K[i] EXCEPT !.node = n]]

\* Another node takes the place of the i-th child.
LEMMA KidRenamed ==
  ASSUME NEW K \in Seq(KidRec), Distinct(K), NEW i \in 1 .. Len(K), NEW n \in Pane \cup Split,
         n \notin NodesOf(K) \/ n = K[i].node,
         NEW R, R = PutNode(K, i, n)
  PROVE  /\ R \in Seq(KidRec) /\ Len(R) = Len(K) /\ Distinct(R) /\ SumOf(R) = SumOf(K)
         /\ NodesOf(R) = (NodesOf(K) \ {K[i].node}) \cup {n}
<1>1. Len(K) \in Nat /\ \A j \in 1 .. Len(K) : K[j] \in KidRec
  BY KidsAt
<1>2. [K[i] EXCEPT !.node = n] \in KidRec /\ [K[i] EXCEPT !.node = n].node = n
      /\ [K[i] EXCEPT !.node = n].share = K[i].share
  BY <1>1 DEF KidRec
<1>3. R \in Seq(KidRec) /\ Len(R) = Len(K)
  BY <1>2 DEF PutNode
<1>4. R[i].node = n /\ R[i].share = K[i].share /\ \A j \in 1 .. Len(K) : j # i => R[j] = K[j]
  BY <1>2 DEF PutNode
<1>5. Distinct(R)
  <2> SUFFICES ASSUME NEW j \in 1 .. Len(K), NEW k \in 1 .. Len(K), R[j].node = R[k].node
                      PROVE j = k
    BY <1>3 DEF Distinct
  <2>1. \A m \in 1 .. Len(K) : K[m].node \in NodesOf(K)
    BY DEF NodesOf
  <2>2. \A m \in 1 .. Len(K) : m # i => K[m].node # n
    BY <2>1 DEF Distinct
  <2> QED BY <1>4, <2>2 DEF Distinct
<1>6. NodesOf(R) = (NodesOf(K) \ {K[i].node}) \cup {n}
  <2>1. ASSUME NEW x \in NodesOf(R) PROVE x \in (NodesOf(K) \ {K[i].node}) \cup {n}
    <3>1. PICK j \in 1 .. Len(K) : x = R[j].node
      BY <1>3 DEF NodesOf
    <3> QED BY <1>4, <3>1 DEF NodesOf, Distinct
  <2>2. ASSUME NEW x \in NodesOf(K), x # K[i].node PROVE x \in NodesOf(R)
    <3>1. PICK j \in 1 .. Len(K) : x = K[j].node
      BY DEF NodesOf
    <3>2. R[j] = K[j]
      BY <1>4, <2>2, <3>1
    <3> QED BY <1>3, <3>1, <3>2 DEF NodesOf
  <2>3. n \in NodesOf(R)
    BY <1>3, <1>4 DEF NodesOf
  <2> QED BY <2>1, <2>2, <2>3
<1>7. Weights(R) = Weights(K)
  <2>1. \A j \in 1 .. Len(K) : R[j].share = K[j].share
    BY <1>4
  <2>0. R \in Seq(KidRec)
    BY <1>3
  <2>2. Weights(R) \in Seq(Nat) /\ Len(Weights(R)) = Len(K)
        /\ \A j \in 1 .. Len(K) : Weights(R)[j] = K[j].share
    BY <1>3, <2>0, <2>1, WeightsOf
  <2>3. Weights(K) \in Seq(Nat) /\ Len(Weights(K)) = Len(K)
        /\ \A j \in 1 .. Len(K) : Weights(K)[j] = K[j].share
    BY WeightsOf
  <2> DEFINE v == Weights(R)
             w == Weights(K)
  <2>4. v \in Seq(Nat) /\ w \in Seq(Nat) /\ Len(v) = Len(w) /\ \A j \in 1 .. Len(v) : v[j] = w[j]
    BY <2>2, <2>3
  <2> HIDE DEF v, w
  <2>5. v = w
    BY <2>4, SeqEqual
  <2> QED BY <2>5 DEF v, w
<1> QED BY <1>3, <1>5, <1>6, <1>7 DEF SumOf

-----------------------------------------------------------------------------
(* Lists of lists *)

\* What g makes of the elements of a list, and that it makes something else of each.
Image(g, s) == {g[s[i]] : i \in 1 .. Len(s)}
OneToOne(g, s) == \A i, j \in 1 .. Len(s) : g[s[i]] = g[s[j]] => i = j

\* Two lists in a row, whatever they list.
LEMMA ListsJoined ==
  ASSUME NEW S, NEW g, NEW s \in Seq(S), NEW t \in Seq(S)
  PROVE  /\ Join(s, t) \in Seq(S) /\ Len(Join(s, t)) = Len(s) + Len(t)
         /\ Image(g, Join(s, t)) = Image(g, s) \cup Image(g, t)
         /\ OneToOne(g, s) /\ OneToOne(g, t) /\ Image(g, s) \cap Image(g, t) = {}
              => OneToOne(g, Join(s, t))
<1> DEFINE m == Len(s)
           n == Len(t)
           c == Join(s, t)
<1>1. m \in Nat /\ n \in Nat /\ c \in Seq(S) /\ Len(c) = m + n
  BY DEF Join
<1>2. \A i \in 1 .. m : c[i] = s[i]
  BY DEF Join
<1>3. \A i \in 1 .. n : c[m + i] = t[i]
  BY DEF Join
<1>4. \A i \in 1 .. m + n : i \in 1 .. m \/ \E j \in 1 .. n : i = m + j
  <2> SUFFICES ASSUME NEW i \in 1 .. m + n, i \notin 1 .. m PROVE \E j \in 1 .. n : i = m + j
    OBVIOUS
  <2>1. i - m \in 1 .. n /\ i = m + (i - m)
    BY <1>1
  <2> QED BY <2>1
<1>5. (\A i \in 1 .. m : i \in 1 .. m + n) /\ (\A j \in 1 .. n : m + j \in 1 .. m + n)
  BY <1>1
<1> HIDE DEF c
<1>6. Image(g, c) = Image(g, s) \cup Image(g, t)
  <2>1. ASSUME NEW i \in 1 .. m + n PROVE g[c[i]] \in Image(g, s) \cup Image(g, t)
    BY <1>2, <1>3, <1>4 DEF Image
  <2>2. \A i \in 1 .. m : g[s[i]] \in Image(g, c)
    BY <1>1, <1>2, <1>5 DEF Image
  <2>3. \A i \in 1 .. n : g[t[i]] \in Image(g, c)
    BY <1>1, <1>3, <1>5 DEF Image
  <2>4. Image(g, c) \subseteq Image(g, s) \cup Image(g, t)
    BY <1>1, <2>1 DEF Image
  <2>5. Image(g, s) \subseteq Image(g, c) /\ Image(g, t) \subseteq Image(g, c)
    BY <2>2, <2>3 DEF Image
  <2> QED BY <2>4, <2>5
<1>7. ASSUME OneToOne(g, s), OneToOne(g, t), Image(g, s) \cap Image(g, t) = {}
      PROVE  OneToOne(g, c)
  <2> SUFFICES ASSUME NEW i \in 1 .. m + n, NEW j \in 1 .. m + n, g[c[i]] = g[c[j]] PROVE i = j
    BY <1>1 DEF OneToOne
  <2>0. \A k \in 1 .. m, h \in 1 .. n : g[s[k]] # g[t[h]]
    BY <1>7 DEF Image
  <2>1. CASE i \in 1 .. m /\ j \in 1 .. m
    BY <1>2, <1>7, <2>1 DEF OneToOne
  <2>2. CASE i \in 1 .. m /\ j \notin 1 .. m
    <3>1. PICK k \in 1 .. n : j = m + k
      BY <1>4, <2>2
    <3>2. c[i] = s[i] /\ c[j] = t[k]
      BY <1>2, <1>3, <2>2, <3>1
    <3> QED BY <2>0, <2>2, <3>2
  <2>3. CASE i \notin 1 .. m /\ j \in 1 .. m
    <3>1. PICK k \in 1 .. n : i = m + k
      BY <1>4, <2>3
    <3>2. c[j] = s[j] /\ c[i] = t[k]
      BY <1>2, <1>3, <2>3, <3>1
    <3> QED BY <2>0, <2>3, <3>2
  <2>4. CASE i \notin 1 .. m /\ j \notin 1 .. m
    <3>1. PICK k \in 1 .. n : i = m + k
      BY <1>4, <2>4
    <3>2. PICK h \in 1 .. n : j = m + h
      BY <1>4, <2>4
    <3>3. g[t[k]] = g[t[h]]
      BY <1>3, <3>1, <3>2
    <3>4. k = h
      BY <1>7, <3>3 DEF OneToOne
    <3> QED BY <3>1, <3>2, <3>4
  <2> QED BY <2>1, <2>2, <2>3, <2>4
<1> QED BY <1>1, <1>6, <1>7 DEF c

\* What two lists in a row hold, alone.
LEMMA ImageJoined ==
  ASSUME NEW S, NEW g, NEW s \in Seq(S), NEW t \in Seq(S)
  PROVE  Image(g, Join(s, t)) = Image(g, s) \cup Image(g, t)
  BY ListsJoined

\* The lists that flattening builds one after the other.
Steps(S, ss, f) ==
  /\ f \in [1 .. Len(ss) -> Seq(S)] /\ f[1] = ss[1]
  /\ \A i \in 2 .. Len(ss) : f[i] = Join(f[i - 1], ss[i])

\* Flattening is the last of its steps.
LEMMA FlattenSteps ==
  ASSUME NEW S, NEW ss \in Seq(Seq(S)), Len(ss) # 0
  PROVE  \E f : Steps(S, ss, f) /\ FlattenSeq(ss) = f[Len(ss)]
<1> DEFINE n == Len(ss)
           P(k, f) == f \in [1 .. k -> Seq(S)] /\ f[1] = ss[1]
                      /\ \A i \in 2 .. k : f[i] = Join(f[i - 1], ss[i])
           Bad == {k \in 1 .. n : ~ \E f : P(k, f)}
<1>1. n \in Nat /\ n \in 1 .. n /\ \A i \in 1 .. n : ss[i] \in Seq(S)
  OBVIOUS
<1>2. ASSUME Bad # {} PROVE FALSE
  <2>1. PICK m \in Bad : \A k \in Bad : m <= k
    <3>1. Bad \subseteq Nat
      OBVIOUS
    <3> HIDE DEF Bad
    <3> QED BY <1>2, <3>1, LeastElement
  <2>2. m # 1
    <3>1. P(1, [i \in 1 .. 1 |-> ss[1]])
      BY <1>1
    <3> QED BY <3>1
  <2>3. m \in 2 .. n /\ m - 1 \in 1 .. n /\ ~ (m <= m - 1)
    BY <1>1, <2>2
  <2>5. PICK f : P(m - 1, f)
    BY <2>1, <2>3
  <2> DEFINE t == [i \in 1 .. m |-> IF i = m THEN Join(f[m - 1], ss[m]) ELSE f[i]]
  <2>6. Join(f[m - 1], ss[m]) \in Seq(S)
    <3>1. f[m - 1] \in Seq(S) /\ ss[m] \in Seq(S)
      BY <1>1, <2>3, <2>5
    <3> QED BY <3>1, ListsJoined
  <2>7. t \in [1 .. m -> Seq(S)]
    BY <2>3, <2>5, <2>6
  <2>8. t[1] = ss[1]
    BY <2>3, <2>5
  <2>9. ASSUME NEW i \in 2 .. m PROVE t[i] = Join(t[i - 1], ss[i])
    <3>1. CASE i = m
      BY <2>3, <3>1
    <3>2. CASE i # m
      <4>1. i \in 2 .. m - 1 /\ t[i] = f[i] /\ t[i - 1] = f[i - 1]
        BY <2>3, <3>2
      <4> QED BY <2>5, <4>1
    <3> QED BY <3>1, <3>2
  <2>10. P(m, t)
    BY <2>7, <2>8, <2>9
  <2> QED BY <2>1, <2>10
<1>3. PICK f : Steps(S, ss, f)
  <2>1. \E f : P(n, f)
    BY <1>1, <1>2
  <2> QED BY <2>1 DEF Steps
<1> DEFINE Eq(h) == h = [i \in 1 .. n |-> IF i = 1 THEN ss[i] ELSE h[i - 1] \o ss[i]]
           t == CHOOSE h : Eq(h)
<1>4. Eq(f)
  <2>1. ASSUME NEW i \in 1 .. n PROVE f[i] = IF i = 1 THEN ss[i] ELSE f[i - 1] \o ss[i]
    <3>1. CASE i = 1
      BY <1>3, <3>1 DEF Steps
    <3>2. CASE i # 1
      <4>1. i \in 2 .. n
        BY <1>1, <3>2
      <4> QED BY <1>3, <3>2, <4>1 DEF Steps, Join
    <3> QED BY <3>1, <3>2
  <2>2. f = [i \in 1 .. n |-> f[i]]
    BY <1>3 DEF Steps
  <2> HIDE DEF n
  <2>3. f = [i \in 1 .. n |-> IF i = 1 THEN ss[i] ELSE f[i - 1] \o ss[i]]
    BY <2>1, <2>2, Zenon
  <2> QED BY <2>3
<1>5. Eq(t)
  BY <1>4
<1>6. FlattenSeq(ss) = t[n]
  BY <1>1 DEF FlattenSeq
<1> HIDE DEF t
<1>7. \A i \in 1 .. n : t[i] = IF i = 1 THEN ss[i] ELSE Join(t[i - 1], ss[i])
  BY <1>5 DEF Join
<1> DEFINE Other == {i \in 1 .. n : t[i] # f[i]}
<1>8. ASSUME Other # {} PROVE FALSE
  <2>1. PICK m \in Other : \A k \in Other : m <= k
    <3>1. Other \subseteq Nat
      OBVIOUS
    <3> HIDE DEF Other
    <3> QED BY <1>8, <3>1, LeastElement
  <2>2. m # 1
    BY <1>3, <1>7, <2>1 DEF Steps
  <2>3. m \in 2 .. n /\ m - 1 \in 1 .. n /\ ~ (m <= m - 1)
    BY <1>1, <2>1, <2>2
  <2>4. t[m - 1] = f[m - 1]
    BY <2>1, <2>3
  <2>5. t[m] = Join(t[m - 1], ss[m]) /\ f[m] = Join(f[m - 1], ss[m])
    BY <1>3, <1>7, <2>2, <2>3 DEF Steps
  <2> QED BY <2>1, <2>4, <2>5
<1>9. FlattenSeq(ss) = f[Len(ss)]
  BY <1>1, <1>6, <1>8
<1> QED BY <1>3, <1>9

\* What a flattened list holds, and when it holds nothing twice.
LEMMA Flattened ==
  ASSUME NEW S, NEW g, NEW ss \in Seq(Seq(S))
  PROVE  /\ FlattenSeq(ss) \in Seq(S)
         /\ Image(g, FlattenSeq(ss)) = UNION {Image(g, ss[i]) : i \in 1 .. Len(ss)}
         /\ (/\ \A i \in 1 .. Len(ss) : OneToOne(g, ss[i])
             /\ \A i, j \in 1 .. Len(ss) : i # j => Image(g, ss[i]) \cap Image(g, ss[j]) = {})
              => OneToOne(g, FlattenSeq(ss))
<1> DEFINE n == Len(ss)
<1>1. CASE n = 0
  <2>1. FlattenSeq(ss) = ss /\ 1 .. Len(ss) = {}
    BY <1>1 DEF FlattenSeq
  <2>2. ss \in Seq(S)
    BY <1>1
  <2>3. Image(g, ss) = {} /\ OneToOne(g, ss)
    BY <2>1 DEF Image, OneToOne
  <2> QED BY <2>1, <2>2, <2>3
<1>2. CASE n # 0
  <2>1. PICK f : Steps(S, ss, f) /\ FlattenSeq(ss) = f[n]
    BY <1>2, FlattenSteps
  <2>2. n \in Nat /\ n \in 1 .. n /\ \A i \in 1 .. n : ss[i] \in Seq(S) /\ f[i] \in Seq(S)
    <3>1. f \in [1 .. n -> Seq(S)]
      BY <2>1 DEF Steps
    <3>2. ASSUME NEW i \in 1 .. n PROVE f[i] \in Seq(S)
      BY <3>1
    <3>3. ASSUME NEW i \in 1 .. n PROVE ss[i] \in Seq(S)
      OBVIOUS
    <3>4. n \in Nat /\ n \in 1 .. n
      BY <1>2
    <3> QED BY <3>2, <3>3, <3>4
  <2> DEFINE U(k) == UNION {Image(g, ss[i]) : i \in 1 .. k}
             Bad == {k \in 1 .. n : Image(g, f[k]) # U(k)}
  <2>3. ASSUME Bad # {} PROVE FALSE
    <3>1. PICK m \in Bad : \A k \in Bad : m <= k
      <4>1. Bad \subseteq Nat
        OBVIOUS
      <4> HIDE DEF Bad
      <4> QED BY <2>3, <4>1, LeastElement
    <3>2. m # 1
      <4>1. 1 .. 1 = {1}
        OBVIOUS
      <4>2. U(1) = Image(g, ss[1]) /\ f[1] = ss[1]
        BY <2>1, <4>1 DEF Steps
      <4> QED BY <3>1, <4>2
    <3>3. m \in 2 .. n /\ m - 1 \in 1 .. n /\ ~ (m <= m - 1) /\ 1 .. m = (1 .. m - 1) \cup {m}
      BY <2>2, <3>1, <3>2
    <3>4. Image(g, f[m - 1]) = U(m - 1)
      BY <3>1, <3>3
    <3>5. f[m] = Join(f[m - 1], ss[m]) /\ f[m - 1] \in Seq(S) /\ ss[m] \in Seq(S)
      BY <2>1, <2>2, <3>3 DEF Steps
    <3>6. Image(g, f[m]) = Image(g, f[m - 1]) \cup Image(g, ss[m])
      <4> DEFINE a == f[m - 1]
                 b == ss[m]
      <4>1. a \in Seq(S) /\ b \in Seq(S) /\ f[m] = Join(a, b)
        BY <3>5
      <4> HIDE DEF a, b
      <4>0. a \in Seq(S) /\ b \in Seq(S)
        BY <4>1
      <4>2. Image(g, Join(a, b)) = Image(g, a) \cup Image(g, b)
        BY <4>0, ImageJoined
      <4> QED BY <4>1, <4>2 DEF a, b
    <3>7. U(m) = U(m - 1) \cup Image(g, ss[m])
      BY <3>3
    <3> QED BY <3>1, <3>4, <3>6, <3>7
  <2>4. \A k \in 1 .. n : Image(g, f[k]) = U(k)
    BY <2>3
  <2>5. ASSUME \A i \in 1 .. n : OneToOne(g, ss[i]),
               \A i, j \in 1 .. n : i # j => Image(g, ss[i]) \cap Image(g, ss[j]) = {}
        PROVE  OneToOne(g, f[n])
    <3> DEFINE Twice == {k \in 1 .. n : ~ OneToOne(g, f[k])}
    <3>1. ASSUME Twice # {} PROVE FALSE
      <4>1. PICK m \in Twice : \A k \in Twice : m <= k
        <5>1. Twice \subseteq Nat
          OBVIOUS
        <5> HIDE DEF Twice
        <5> QED BY <3>1, <5>1, LeastElement
      <4>2. m # 1
        BY <2>1, <2>5, <4>1 DEF Steps
      <4>3. m \in 2 .. n /\ m - 1 \in 1 .. n /\ ~ (m <= m - 1)
            /\ \A i \in 1 .. m - 1 : i \in 1 .. n /\ i # m
        BY <2>2, <4>1, <4>2
      <4>4. OneToOne(g, f[m - 1])
        BY <4>1, <4>3
      <4>5. f[m] = Join(f[m - 1], ss[m]) /\ f[m - 1] \in Seq(S) /\ ss[m] \in Seq(S)
        BY <2>1, <2>2, <4>3 DEF Steps
      <4>6. Image(g, f[m - 1]) \cap Image(g, ss[m]) = {}
        <5>1. ASSUME NEW i \in 1 .. m - 1 PROVE Image(g, ss[i]) \cap Image(g, ss[m]) = {}
          BY <2>5, <4>3
        <5>2. Image(g, f[m - 1]) = U(m - 1)
          BY <2>4, <4>3
        <5> QED BY <5>1, <5>2
      <4>7. OneToOne(g, ss[m])
        BY <2>5, <4>3
      <4>8. OneToOne(g, f[m])
        <5> DEFINE a == f[m - 1]
                   b == ss[m]
        <5>1. a \in Seq(S) /\ b \in Seq(S) /\ f[m] = Join(a, b)
          BY <4>5
        <5>2. OneToOne(g, a) /\ OneToOne(g, b) /\ Image(g, a) \cap Image(g, b) = {}
          BY <4>4, <4>6, <4>7
        <5> HIDE DEF a, b
        <5>3. OneToOne(g, Join(a, b))
          BY <5>1, <5>2, ListsJoined
        <5> QED BY <5>1, <5>3
      <4> QED BY <4>1, <4>8
    <3> QED BY <2>2, <3>1
  <2>6. Image(g, f[n]) = UNION {Image(g, ss[i]) : i \in 1 .. Len(ss)}
    BY <2>2, <2>4
  <2> QED BY <2>1, <2>2, <2>5, <2>6
<1> QED BY <1>1, <1>2

\* The shares of a flattened list of children: each list has the share of one child
\* to give out.
LEMMA FlattenedSum ==
  ASSUME NEW ss \in Seq(Seq(KidRec)), NEW K \in Seq(KidRec), Len(ss) = Len(K),
         \A i \in 1 .. Len(K) : SumOf(ss[i]) = K[i].share
  PROVE  SumOf(FlattenSeq(ss)) = SumOf(K)
<1> DEFINE n == Len(K)
           w == Weights(K)
<1>1. w \in Seq(Int) /\ Len(w) = n /\ n \in Nat /\ \A i \in 1 .. n : w[i] = K[i].share
  BY WeightsOf
<1> HIDE DEF w
<1>2. CASE n = 0
  <2>1. FlattenSeq(ss) = ss
    BY <1>2 DEF FlattenSeq
  <2>2. ss \in Seq(KidRec)
    BY <1>2
  <2>3. SumOf(ss) = 0 /\ SumOf(K) = 0
    BY <1>2, <2>2, KidsNone
  <2> QED BY <2>1, <2>3
<1>3. CASE n # 0
  <2>1. PICK f : Steps(KidRec, ss, f) /\ FlattenSeq(ss) = f[n]
    BY <1>3, FlattenSteps
  <2>2. \A i \in 1 .. n : ss[i] \in Seq(KidRec) /\ f[i] \in Seq(KidRec)
    <3>1. f \in [1 .. n -> Seq(KidRec)]
      BY <2>1 DEF Steps
    <3>2. ASSUME NEW i \in 1 .. n PROVE f[i] \in Seq(KidRec)
      BY <3>1
    <3>3. ASSUME NEW i \in 1 .. n PROVE ss[i] \in Seq(KidRec)
      OBVIOUS
    <3> QED BY <3>2, <3>3
  <2>3. PICK s : Sums(w, s)
    BY <1>1, SumsExist
  <2>4. SumOf(K) = s[n]
    BY <1>1, <2>3, TotalIs DEF SumOf, w
  <2>5. \A i \in 1 .. n : s[i] = s[i - 1] + w[i] /\ w[i] \in Int /\ s[i - 1] \in Int
    BY <1>1, <2>3, SumsAt
  <2>6. s[0] = 0
    BY <2>3 DEF Sums
  <2> DEFINE Bad == {k \in 1 .. n : SumOf(f[k]) # s[k]}
  <2>7. ASSUME Bad # {} PROVE FALSE
    <3>1. PICK m \in Bad : \A k \in Bad : m <= k
      <4>1. Bad \subseteq Nat
        OBVIOUS
      <4> HIDE DEF Bad
      <4> QED BY <2>7, <4>1, LeastElement
    <3>2. m # 1
      <4>1. f[1] = ss[1] /\ SumOf(ss[1]) = w[1] /\ 1 \in 1 .. n /\ 1 - 1 = 0
        BY <1>1, <1>3, <2>1 DEF Steps
      <4>2. s[1] = 0 + w[1] /\ w[1] \in Int
        BY <2>5, <2>6, <4>1
      <4> QED BY <3>1, <4>1, <4>2
    <3>3. m \in 2 .. n /\ m \in 1 .. n /\ m - 1 \in 1 .. n /\ ~ (m <= m - 1)
      BY <1>1, <3>1, <3>2
    <3>4. SumOf(f[m - 1]) = s[m - 1]
      BY <3>1, <3>3
    <3>5. f[m] = Join(f[m - 1], ss[m]) /\ f[m - 1] \in Seq(KidRec) /\ ss[m] \in Seq(KidRec)
      BY <2>1, <2>2, <3>3 DEF Steps
    <3>6. SumOf(f[m]) = SumOf(f[m - 1]) + SumOf(ss[m])
      <4> DEFINE a == f[m - 1]
                 b == ss[m]
      <4>1. a \in Seq(KidRec) /\ b \in Seq(KidRec) /\ f[m] = Join(a, b)
        BY <3>5
      <4> HIDE DEF a, b
      <4>2. SumOf(Join(a, b)) = SumOf(a) + SumOf(b)
        BY <4>1, KidsJoined
      <4> QED BY <4>1, <4>2 DEF a, b
    <3>7. SumOf(ss[m]) = w[m]
      BY <1>1, <3>3
    <3> QED BY <2>5, <3>1, <3>3, <3>4, <3>6, <3>7
  <2>8. n \in 1 .. n
    BY <1>1, <1>3
  <2> QED BY <2>1, <2>4, <2>7, <2>8
<1> QED BY <1>2, <1>3

\* A list that holds nothing twice is as long as the set of what it holds is large.
LEMMA ListCounted ==
  ASSUME NEW g, NEW S, NEW s \in Seq(S), OneToOne(g, s)
  PROVE  IsFiniteSet(Image(g, s)) /\ Cardinality(Image(g, s)) = Len(s) /\ Len(s) \in Nat
<1> DEFINE n == Len(s)
           T == Image(g, s)
           f == [i \in 1 .. n |-> g[s[i]]]
<1>1. n \in Nat
  OBVIOUS
<1>2. f \in [1 .. n -> T]
  BY DEF Image
<1>3. \A i, j \in 1 .. n : f[i] = f[j] => i = j
  BY DEF OneToOne
<1>4. \A t \in T : \E i \in 1 .. n : f[i] = t
  BY DEF Image
<1> HIDE DEF f, T
<1>5. f \in Bijection(1 .. n, T)
  BY <1>2, <1>3, <1>4 DEF Bijection, Injection, Surjection, IsInjective
<1>6. ExistsBijection(1 .. n, T)
  BY <1>5 DEF ExistsBijection
<1>7. Cardinality(T) = n
  BY <1>1, <1>6, FS_CountingElements
<1>8. IsFiniteSet(T)
  BY <1>1, <1>6, FS_NatBijection
<1> QED BY <1>1, <1>7, <1>8 DEF T

\* The node of a child, as a function on children.
NodeOf == [k \in KidRec |-> k.node]

\* The nodes of a list of children are an image of it, and its children are of different
\* nodes when that function tells all of them apart.
LEMMA NodesAreImage ==
  ASSUME NEW K \in Seq(KidRec)
  PROVE  /\ Image(NodeOf, K) = NodesOf(K)
         /\ OneToOne(NodeOf, K) => Distinct(K)
         /\ Distinct(K) => OneToOne(NodeOf, K)
<1>1. \A i \in 1 .. Len(K) : NodeOf[K[i]] = K[i].node
  BY KidsAt DEF NodeOf
<1>2. Image(NodeOf, K) = NodesOf(K)
  BY <1>1 DEF Image, NodesOf
<1> QED BY <1>1, <1>2 DEF OneToOne, Distinct

\* Distinct children are as many as their nodes.
LEMMA KidsCounted ==
  ASSUME NEW K \in Seq(KidRec), Distinct(K)
  PROVE  IsFiniteSet(NodesOf(K)) /\ Cardinality(NodesOf(K)) = Len(K) /\ Len(K) \in Nat
<1>1. OneToOne(NodeOf, K) /\ Image(NodeOf, K) = NodesOf(K)
  BY NodesAreImage
<1>2. IsFiniteSet(Image(NodeOf, K)) /\ Cardinality(Image(NodeOf, K)) = Len(K) /\ Len(K) \in Nat
  BY <1>1, ListCounted
<1> QED BY <1>1, <1>2

\* Lists of children in a row.
LEMMA KidsFlattened ==
  ASSUME NEW ss \in Seq(Seq(KidRec)), \A i \in 1 .. Len(ss) : Distinct(ss[i]),
         \A i, j \in 1 .. Len(ss) : i # j => NodesOf(ss[i]) \cap NodesOf(ss[j]) = {}
  PROVE  /\ FlattenSeq(ss) \in Seq(KidRec) /\ Distinct(FlattenSeq(ss))
         /\ NodesOf(FlattenSeq(ss)) = UNION {NodesOf(ss[i]) : i \in 1 .. Len(ss)}
<1> DEFINE F == FlattenSeq(ss)
<1>1. ASSUME NEW i \in 1 .. Len(ss)
      PROVE  ss[i] \in Seq(KidRec) /\ Image(NodeOf, ss[i]) = NodesOf(ss[i])
             /\ OneToOne(NodeOf, ss[i])
  <2> DEFINE K == ss[i]
  <2>1. K \in Seq(KidRec)
    OBVIOUS
  <2>2. Distinct(K)
    OBVIOUS
  <2> HIDE DEF K
  <2>3. Image(NodeOf, K) = NodesOf(K) /\ OneToOne(NodeOf, K)
    BY <2>1, <2>2, NodesAreImage
  <2> QED BY <2>1, <2>3 DEF K
<1>2. \A i, j \in 1 .. Len(ss) : i # j => Image(NodeOf, ss[i]) \cap Image(NodeOf, ss[j]) = {}
  BY <1>1
<1>3. F \in Seq(KidRec)
  BY Flattened
<1>4. OneToOne(NodeOf, F)
  BY <1>1, <1>2, Flattened
<1>5. Image(NodeOf, F) = UNION {Image(NodeOf, ss[i]) : i \in 1 .. Len(ss)}
  BY Flattened
<1>6. UNION {Image(NodeOf, ss[i]) : i \in 1 .. Len(ss)}
      = UNION {NodesOf(ss[i]) : i \in 1 .. Len(ss)}
  BY <1>1
<1> HIDE DEF F
<1>7. Distinct(F) /\ Image(NodeOf, F) = NodesOf(F)
  BY <1>3, <1>4, NodesAreImage
<1>8. NodesOf(F) = UNION {NodesOf(ss[i]) : i \in 1 .. Len(ss)}
  BY <1>5, <1>6, <1>7
<1> QED BY <1>3, <1>7, <1>8 DEF F

\* The children that stand for one of the nodes of a set.
LEMMA KidsAmong ==
  ASSUME NEW K \in Seq(KidRec), Distinct(K), NEW S
  PROVE  /\ Among(K, S) \in Seq(KidRec) /\ Distinct(Among(K, S))
         /\ NodesOf(Among(K, S)) = NodesOf(K) \cap S
<1> DEFINE n == Len(K)
           ss == [i \in 1 .. n |-> IF K[i].node \in S THEN <<K[i]>> ELSE <<>>]
<1>1. n \in Nat /\ DOMAIN K = 1 .. n /\ \A i \in 1 .. n : K[i] \in KidRec
  BY KidsAt
<1>2. ASSUME NEW i \in 1 .. n
      PROVE  /\ ss[i] \in Seq(KidRec) /\ Distinct(ss[i])
             /\ NodesOf(ss[i]) = IF K[i].node \in S THEN {K[i].node} ELSE {}
  <2>1. CASE K[i].node \in S
    <3>1. PICK k \in KidRec : k = K[i]
      BY <1>1
    <3>2. PICK L : L = <<k>>
      OBVIOUS
    <3>3. L \in Seq(KidRec) /\ Len(L) = 1 /\ L[1] = k
      BY <3>2
    <3>4. ss[i] = L
      BY <2>1, <3>1, <3>2
    <3>5. 1 .. Len(L) = {1}
      BY <3>3
    <3>6. Distinct(L) /\ NodesOf(L) = {k.node}
      BY <3>3, <3>5 DEF Distinct, NodesOf
    <3> QED BY <2>1, <3>1, <3>3, <3>4, <3>6
  <2>2. CASE K[i].node \notin S
    <3>1. ss[i] = <<>>
      BY <2>2
    <3>2. <<>> \in Seq(KidRec) /\ Len(<<>>) = 0
      OBVIOUS
    <3>3. NodesOf(<<>>) = {} /\ Distinct(<<>>)
      BY <3>2, KidsNone
    <3> QED BY <2>2, <3>1, <3>2, <3>3
  <2> QED BY <2>1, <2>2
<1>3. DOMAIN ss = 1 .. n /\ Among(K, S) = FlattenSeq(ss)
  BY <1>1 DEF Among
<1> HIDE DEF ss
<1>4. ss \in [1 .. n -> Seq(KidRec)]
  <2>1. ss = [i \in 1 .. n |-> ss[i]]
    BY <1>3 DEF ss
  <2> QED BY <1>2, <2>1
<1>5. ss \in Seq(Seq(KidRec)) /\ Len(ss) = n
  BY <1>1, <1>4, ListOf
<1>6. \A i, j \in 1 .. n : i # j => NodesOf(ss[i]) \cap NodesOf(ss[j]) = {}
  <2> SUFFICES ASSUME NEW i \in 1 .. n, NEW j \in 1 .. n, i # j
               PROVE  NodesOf(ss[i]) \cap NodesOf(ss[j]) = {}
    OBVIOUS
  <2>1. K[i].node # K[j].node
    BY DEF Distinct
  <2>2. NodesOf(ss[i]) \subseteq {K[i].node} /\ NodesOf(ss[j]) \subseteq {K[j].node}
    BY <1>2
  <2> QED BY <2>1, <2>2
<1>7. \A i \in 1 .. n : Distinct(ss[i])
  BY <1>2
<1> DEFINE A == FlattenSeq(ss)
<1>8. A \in Seq(KidRec) /\ Distinct(A) /\ NodesOf(A) = UNION {NodesOf(ss[i]) : i \in 1 .. n}
  BY <1>5, <1>6, <1>7, KidsFlattened
<1>9. UNION {NodesOf(ss[i]) : i \in 1 .. n} = NodesOf(K) \cap S
  <2>1. \A i \in 1 .. n : NodesOf(ss[i]) = {K[i].node} \cap S
    BY <1>2
  <2>2. NodesOf(K) = {K[i].node : i \in 1 .. n}
    BY DEF NodesOf
  <2> QED BY <2>1, <2>2
<1> QED BY <1>3, <1>8, <1>9

\* How many children a list has, told from their nodes.
LEMMA KidsLength ==
  ASSUME NEW K \in Seq(KidRec), Distinct(K)
  PROVE  /\ Len(K) \in Nat
         /\ Len(K) = 0 <=> NodesOf(K) = {}
         /\ Len(K) >= 2 <=> \E m, n \in NodesOf(K) : m # n
         /\ Len(K) = 1 => NodesOf(K) = {K[1].node}
<1>1. Len(K) \in Nat
  OBVIOUS
<1>2. Len(K) = 0 => NodesOf(K) = {}
  BY KidsNone
<1>3. Len(K) # 0 => K[1].node \in NodesOf(K)
  BY <1>1 DEF NodesOf
<1>4. ASSUME Len(K) >= 2 PROVE \E m, n \in NodesOf(K) : m # n
  <2>1. 1 \in 1 .. Len(K) /\ 2 \in 1 .. Len(K)
    BY <1>1, <1>4
  <2>2. K[1].node # K[2].node
    BY <2>1 DEF Distinct
  <2>3. K[1].node \in NodesOf(K) /\ K[2].node \in NodesOf(K)
    BY <2>1 DEF NodesOf
  <2> QED BY <2>2, <2>3
<1>5. ASSUME NEW m \in NodesOf(K), NEW n \in NodesOf(K), m # n PROVE Len(K) >= 2
  <2>1. PICK i \in 1 .. Len(K) : m = K[i].node
    BY DEF NodesOf
  <2>2. PICK j \in 1 .. Len(K) : n = K[j].node
    BY DEF NodesOf
  <2>3. i # j
    BY <1>5, <2>1, <2>2
  <2> QED BY <1>1, <2>3
<1>6. ASSUME Len(K) = 1 PROVE NodesOf(K) = {K[1].node}
  <2>1. 1 .. Len(K) = {1}
    BY <1>6
  <2> QED BY <2>1 DEF NodesOf
<1> QED BY <1>1, <1>2, <1>3, <1>4, <1>5, <1>6

\* Where a node stands in a list of children.
LEMMA KidIndex ==
  ASSUME NEW K \in Seq(KidRec), NEW n \in NodesOf(K)
  PROVE  LET i == CHOOSE k \in DOMAIN K : K[k].node = n IN i \in 1 .. Len(K) /\ K[i].node = n
  BY KidsAt DEF NodesOf

\* Shares put in between others.
LEMMA SharesInserted ==
  ASSUME NEW v \in Seq(Nat), NEW w \in Seq(Nat), NEW i \in 1 .. Len(v) + 1
  PROVE  Replace(v, i, 0, w) \in Seq(Nat) /\ Len(Replace(v, i, 0, w)) = Len(v) + Len(w)
<1> DEFINE A == SubSeq(v, 1, i - 1)
           B == SubSeq(v, i, Len(v))
<1>1. A \in Seq(Nat) /\ B \in Seq(Nat) /\ Len(A) = i - 1 /\ Len(B) = (Len(v) - i) + 1
  OBVIOUS
<1>2. i + 0 = i /\ Len(v) \in Nat /\ Len(w) \in Nat
  OBVIOUS
<1>3. Replace(v, i, 0, w) = Join(Join(A, w), B)
  BY <1>2 DEF Replace, Join
<1> HIDE DEF A, B
<1>4. A \in Seq(Nat) /\ B \in Seq(Nat)
  BY <1>1
<1>5. Join(A, w) \in Seq(Nat) /\ Len(Join(A, w)) = Len(A) + Len(w)
  BY <1>4, ListsJoined
<1> DEFINE J == Join(A, w)
<1> HIDE DEF J
<1>6. J \in Seq(Nat) /\ Len(J) = Len(A) + Len(w) /\ Join(Join(A, w), B) = Join(J, B)
  BY <1>5 DEF J
<1>7. Join(J, B) \in Seq(Nat) /\ Len(Join(J, B)) = Len(J) + Len(B)
  BY <1>4, <1>6, ListsJoined
<1>8. (Len(A) + Len(w)) + Len(B) = Len(v) + Len(w)
  BY <1>1, <1>2
<1> QED BY <1>3, <1>6, <1>7, <1>8

\* A list with another element at one place.
LEMMA ListUpdated ==
  ASSUME NEW S, NEW K \in Seq(S), NEW i \in 1 .. Len(K), NEW x \in S
  PROVE  LET R == [K EXCEPT ![i] = x] IN
         /\ R \in Seq(S) /\ Len(R) = Len(K) /\ R[i] = x
         /\ \A k \in 1 .. Len(K) : k # i => R[k] = K[k]
  OBVIOUS

\* A child with another node.
LEMMA KidWithNode ==
  ASSUME NEW k \in KidRec, NEW n \in Pane \cup Split
  PROVE  LET x == [k EXCEPT !.node = n] IN x \in KidRec /\ x.node = n /\ x.share = k.share
  BY DEF KidRec

\* Two children of one list change places.
LEMMA KidsSwapped ==
  ASSUME NEW K \in Seq(KidRec), Distinct(K), NEW i \in 1 .. Len(K), NEW j \in 1 .. Len(K), i # j,
         NEW R
  PROVE  R = PutNode(PutNode(K, i, K[j].node), j, K[i].node)
           => R \in Seq(KidRec) /\ Distinct(R) /\ SumOf(R) = SumOf(K) /\ NodesOf(R) = NodesOf(K)
<1> DEFINE a == K[i].node
           b == K[j].node
           x == [K[i] EXCEPT !.node = b]
           y == [K[j] EXCEPT !.node = a]
           P == [K EXCEPT ![i] = x]
           Q == [P EXCEPT ![j] = y]
<1>1. Len(K) \in Nat /\ K[i] \in KidRec /\ K[j] \in KidRec /\ a \in Pane \cup Split
      /\ b \in Pane \cup Split
  BY KidsAt
<1>2. x \in KidRec /\ x.node = b /\ x.share = K[i].share
  BY <1>1, KidWithNode
<1>9. y \in KidRec /\ y.node = a /\ y.share = K[j].share
  BY <1>1, KidWithNode
<1> SUFFICES ASSUME R = PutNode(PutNode(K, i, b), j, a)
             PROVE  R \in Seq(KidRec) /\ Distinct(R) /\ SumOf(R) = SumOf(K)
                    /\ NodesOf(R) = NodesOf(K)
  OBVIOUS
<1>0. R = Q
  <2>1. P = PutNode(K, i, b)
    BY DEF PutNode
  <2>2. P[j] = K[j]
    OBVIOUS
  <2> HIDE DEF P
  <2>3. Q = PutNode(P, j, a)
    BY <2>2 DEF PutNode
  <2> QED BY <2>1, <2>3
<1> HIDE DEF x, y, a, b
<1>10. P \in Seq(KidRec) /\ Len(P) = Len(K) /\ P[i] = x /\ \A k \in 1 .. Len(K) : k # i
       => P[k] = K[k]
  BY <1>2, ListUpdated
<1> HIDE DEF P
<1>11. Q \in Seq(KidRec) /\ Len(Q) = Len(P) /\ Q[j] = y /\ \A k \in 1 .. Len(P) : k # j
       => Q[k] = P[k]
  <2>1. P \in Seq(KidRec) /\ j \in 1 .. Len(P)
    BY <1>10
  <2> QED BY <1>9, <2>1, ListUpdated
<1>12. R = Q
  BY <1>0
<1> HIDE DEF Q
<1>3. R \in Seq(KidRec) /\ Len(R) = Len(K)
  BY <1>10, <1>11, <1>12
<1>4. /\ R[i].node = b /\ R[j].node = a /\ R[i].share = K[i].share /\ R[j].share = K[j].share
      /\ \A k \in 1 .. Len(K) : k # i /\ k # j => R[k] = K[k]
  BY <1>2, <1>9, <1>10, <1>11, <1>12
<1>13. a = K[i].node /\ b = K[j].node
  BY DEF a, b
<1>5. Distinct(R)
  BY <1>3, <1>4, <1>13 DEF Distinct
<1>6. NodesOf(R) = NodesOf(K)
  <2>1. ASSUME NEW n \in NodesOf(R) PROVE n \in NodesOf(K)
    <3>1. PICK k \in 1 .. Len(K) : n = R[k].node
      BY <1>3 DEF NodesOf
    <3> QED BY <1>4, <1>13, <3>1 DEF NodesOf
  <2>2. ASSUME NEW n \in NodesOf(K) PROVE n \in NodesOf(R)
    <3>1. PICK k \in 1 .. Len(K) : n = K[k].node
      BY DEF NodesOf
    <3>2. CASE k = i
      BY <1>3, <1>4, <1>13, <3>1, <3>2 DEF NodesOf
    <3>3. CASE k = j
      BY <1>3, <1>4, <1>13, <3>1, <3>3 DEF NodesOf
    <3>4. CASE k # i /\ k # j
      <4>1. R[k].node = n
        BY <1>4, <3>1, <3>4
      <4> QED BY <1>3, <4>1 DEF NodesOf
    <3> QED BY <3>2, <3>3, <3>4
  <2> QED BY <2>1, <2>2
<1>7. Weights(R) = Weights(K)
  <2>1. \A k \in 1 .. Len(K) : R[k].share = K[k].share
    BY <1>4
  <2>2. R \in Seq(KidRec)
    BY <1>3
  <2> DEFINE v == Weights(R)
             w == Weights(K)
  <2>3. v \in Seq(Nat) /\ Len(v) = Len(K) /\ \A k \in 1 .. Len(K) : v[k] = K[k].share
    BY <1>3, <2>1, <2>2, WeightsOf
  <2>4. w \in Seq(Nat) /\ Len(w) = Len(K) /\ \A k \in 1 .. Len(K) : w[k] = K[k].share
    BY WeightsOf
  <2> HIDE DEF v, w
  <2>6. v \in Seq(Nat) /\ w \in Seq(Nat) /\ Len(v) = Len(w) /\ \A k \in 1 .. Len(v) : v[k] = w[k]
    BY <2>3, <2>4
  <2>5. v = w
    BY <2>6, SeqEqual
  <2> QED BY <2>5 DEF v, w
<1> QED BY <1>3, <1>5, <1>6, <1>7 DEF SumOf

-----------------------------------------------------------------------------
(* Forests *)

\* No nodes have each other for parents, around or on and on.
Rooted(u) == \A C \in SUBSET DOMAIN u : (\A n \in C : u[n] \in C) => C = {}

Children(u, s) == {n \in DOMAIN u : u[n] = s}
KidsFor(K, S) == K \in Seq(KidRec) /\ Distinct(K) /\ NodesOf(K) = S /\ SumOf(K) = Full
Several(S) == \E m, n \in S : m # n
\* A set of nodes with everything above them.
Upward(u, A) == A \subseteq DOMAIN u /\ \A n \in A : u[n] \in A \cup {NoNode}

\* The parent links u and the lists of children k are those of trees with these tops,
\* one of which is the root r; each split has two children or more, one of the thin
\* ones has at least one.
Forest(r, a, k, u, tops, thin) ==
  /\ IsFiniteSet(DOMAIN u) /\ DOMAIN u \subseteq Pane \cup Split
  /\ DOMAIN k = DOMAIN u \cap Split
  /\ a \in [DOMAIN k -> Axis]
  /\ u \in [DOMAIN u -> DOMAIN k \cup {NoNode}]
  /\ Rooted(u)
  /\ tops = {n \in DOMAIN u : u[n] = NoNode} /\ r \in tops
  /\ \A s \in DOMAIN k : KidsFor(k[s], Children(u, s))
  /\ \A s \in DOMAIN k : Children(u, s) # {} /\ (s \notin thin => Several(Children(u, s)))

\* The parent links when s becomes the parent of the nodes S; when split w comes between t
\* and its parent; when the splits X give their children to s and are gone; without the
\* nodes X; when the nodes S hang nowhere; and when x and y change places.
Parented(u, s, S) == [n \in DOMAIN u \cup S |-> IF n \in S THEN s ELSE u[n]]
Wrap(u, t, w) == [n \in DOMAIN u \cup {w} |-> IF n = t THEN w ELSE IF n = w THEN u[t] ELSE u[n]]
Lifted(u, X, s) == [n \in DOMAIN u \ X |-> IF u[n] \in X THEN s ELSE u[n]]
Without(u, X) == [n \in DOMAIN u \ X |-> u[n]]
Loosened(u, S) == [n \in DOMAIN u |-> IF n \in S THEN NoNode ELSE u[n]]
Exchange(u, x, y) == [n \in DOMAIN u |-> IF n = x THEN u[y] ELSE IF n = y THEN u[x] ELSE u[n]]
\* The tops when w takes the place of t.
TopsWith(u, tops, t, w) == IF u[t] = NoNode THEN (tops \ {t}) \cup {w} ELSE tops

\* New axes and new lists of the same children.
LEMMA Relisted ==
  ASSUME NEW r, NEW a, NEW k, NEW u, NEW tops, NEW thin, Forest(r, a, k, u, tops, thin),
         NEW a2, a2 \in [DOMAIN k -> Axis],
         NEW k2, DOMAIN k2 = DOMAIN k, \A s \in DOMAIN k : KidsFor(k2[s], Children(u, s))
  PROVE  Forest(r, a2, k2, u, tops, thin)
  BY DEF Forest

\* A new leaf, or a tree that hung nowhere, becomes a child of p.
LEMMA Attached ==
  ASSUME NEW r, NEW a, NEW k, NEW u, NEW tops, NEW thin, Forest(r, a, k, u, tops, thin),
         NEW x, x \in Pane \cup Split, x # r, x \in DOMAIN u => u[x] = NoNode,
         x \notin DOMAIN u => x \in Pane,
         NEW p \in DOMAIN k, NEW A, Upward(u, A), p \in A, x \notin A,
         NEW u2, u2 = Parented(u, p, {x}),
         NEW k2, DOMAIN k2 = DOMAIN k, \A s \in DOMAIN k : s # p => k2[s] = k[s],
         KidsFor(k2[p], Children(u, p) \cup {x})
  PROVE  Forest(r, a, k2, u2, tops \ {x}, thin \ {p})
<1> USE DEF Forest
<1>1. p \in DOMAIN u /\ p # x /\ p \in Split /\ p # NoNode
  BY NoNodeAssumption DEF Upward
<1>2. DOMAIN u2 = DOMAIN u \cup {x} /\ u2[x] = p /\ \A n \in DOMAIN u : n # x => u2[n] = u[n]
  BY DEF Parented
<1>3. IsFiniteSet(DOMAIN u2)
  BY <1>2, FS_AddElement
<1>4. DOMAIN u2 \subseteq Pane \cup Split /\ DOMAIN k2 = DOMAIN u2 \cap Split
  BY <1>2, SplitAssumption
<1>5. a \in [DOMAIN k2 -> Axis] /\ u2 \in [DOMAIN u2 -> DOMAIN k2 \cup {NoNode}]
  BY <1>2 DEF Parented
<1>6. Rooted(u2)
  <2> SUFFICES ASSUME NEW C, C \subseteq DOMAIN u2, \A n \in C : u2[n] \in C PROVE C = {}
    BY DEF Rooted
  <2>1. ASSUME x \in C PROVE FALSE
    <3> DEFINE D == C \cap A
    <3>1. p \in D
      BY <1>2, <2>1
    <3>0. D \subseteq DOMAIN u
      BY DEF Upward
    <3>2. ASSUME NEW n \in D PROVE u[n] \in D
      <4>1. n \in DOMAIN u /\ n # x /\ u[n] \in A \cup {NoNode}
        BY DEF Upward
      <4>2. u[n] \in C
        BY <1>2, <4>1
      <4>3. NoNode \notin C
        BY <1>4, NoNodeAssumption
      <4> QED BY <4>1, <4>2, <4>3
    <3> QED BY <3>0, <3>1, <3>2 DEF Rooted
  <2>2. ASSUME x \notin C PROVE C = {}
    BY <1>2, <2>2 DEF Rooted
  <2> QED BY <2>1, <2>2
<1>7. tops \ {x} = {n \in DOMAIN u2 : u2[n] = NoNode} /\ r \in tops \ {x}
  BY <1>1, <1>2
<1>8. Children(u2, p) = Children(u, p) \cup {x} /\ \A s \in DOMAIN k : s # p
      => Children(u2, s) = Children(u, s)
  <2>1. \A s \in DOMAIN k : s # NoNode
    BY NoNodeAssumption
  <2> QED BY <1>2, <2>1 DEF Children
<1>9. \A s \in DOMAIN k2 : KidsFor(k2[s], Children(u2, s))
  BY <1>8
<1>10. ASSUME NEW s \in DOMAIN k2
       PROVE  Children(u2, s) # {} /\ (s \notin thin \ {p} => Several(Children(u2, s)))
  <2>1. CASE s # p
    BY <1>8, <2>1
  <2>2. CASE s = p
    <3>1. PICK m \in Children(u, p) : TRUE
      OBVIOUS
    <3>2. m # x
      BY <1>1 DEF Children
    <3> QED BY <1>8, <2>2, <3>1, <3>2 DEF Several
  <2> QED BY <2>1, <2>2
<1> QED BY <1>3, <1>4, <1>5, <1>6, <1>7, <1>9, <1>10

\* A new split takes the place of node t, which becomes its only child.
LEMMA Wrapped ==
  ASSUME NEW r, NEW a, NEW k, NEW u, NEW tops, NEW thin, Forest(r, a, k, u, tops, thin),
         NEW t \in DOMAIN u, NEW w \in Split, w \notin DOMAIN u,
         NEW u2, u2 = Wrap(u, t, w),
         NEW a2, a2 \in [DOMAIN k \cup {w} -> Axis],
         NEW k2, DOMAIN k2 = DOMAIN k \cup {w}, \A s \in DOMAIN k : s # u[t] => k2[s] = k[s],
         KidsFor(k2[w], {t}),
         u[t] # NoNode => KidsFor(k2[u[t]], (Children(u, u[t]) \ {t}) \cup {w})
  PROVE  Forest(IF r = t THEN w ELSE r, a2, k2, u2,
                TopsWith(u, tops, t, w), thin \cup {w})
<1> DEFINE r2 == IF r = t THEN w ELSE r
           tops2 == TopsWith(u, tops, t, w)
<1>0. /\ IsFiniteSet(DOMAIN u) /\ DOMAIN u \subseteq Pane \cup Split
         /\ DOMAIN k = DOMAIN u \cap Split
      /\ u \in [DOMAIN u -> DOMAIN k \cup {NoNode}] /\ Rooted(u)
      /\ tops = {n \in DOMAIN u : u[n] = NoNode} /\ r \in tops
  BY DEF Forest
<1>1. /\ \A s \in DOMAIN k : KidsFor(k[s], Children(u, s))
      /\ \A s \in DOMAIN k : Children(u, s) # {} /\ (s \notin thin => Several(Children(u, s)))
  BY DEF Forest
<1>2. /\ DOMAIN u2 = DOMAIN u \cup {w} /\ u2[t] = w /\ u2[w] = u[t] /\ t # w /\ w # NoNode
      /\ \A n \in DOMAIN u : n # t => u2[n] = u[n]
  BY NoNodeAssumption DEF Wrap
<1>3. IsFiniteSet(DOMAIN u2)
  BY <1>0, <1>2, FS_AddElement
<1>4. DOMAIN u2 \subseteq Pane \cup Split /\ DOMAIN k2 = DOMAIN u2 \cap Split
  BY <1>0, <1>2
<1>5. u2 \in [DOMAIN u2 -> DOMAIN k2 \cup {NoNode}]
  BY <1>0, <1>2 DEF Wrap
<1>6. Rooted(u2)
  <2> SUFFICES ASSUME NEW C, C \subseteq DOMAIN u2, \A n \in C : u2[n] \in C PROVE C = {}
    BY DEF Rooted
  <2> DEFINE D == C \ {w}
  <2>1. D \subseteq DOMAIN u
    BY <1>2
  <2>2. NoNode \notin C /\ w \notin DOMAIN u
    BY <1>4, NoNodeAssumption
  <2>3. ASSUME NEW n \in D PROVE u[n] \in D
    <3>1. CASE n = t
      BY <1>0, <1>2, <2>1, <2>2, <3>1
    <3>2. CASE n # t
      BY <1>0, <1>2, <2>1, <2>2, <3>2
    <3> QED BY <3>1, <3>2
  <2>4. D = {}
    BY <1>0, <2>1, <2>3 DEF Rooted
  <2>5. u[t] # w
    BY <1>0, <1>2
  <2> QED BY <1>2, <2>4, <2>5
<1>7. tops2 = {n \in DOMAIN u2 : u2[n] = NoNode} /\ r2 \in tops2
  BY <1>0, <1>2 DEF TopsWith
<1>8. /\ Children(u2, w) = {t}
      /\ u[t] # NoNode => Children(u2, u[t]) = (Children(u, u[t]) \ {t}) \cup {w}
      /\ \A s \in DOMAIN k : s # u[t] => Children(u2, s) = Children(u, s)
  <2>1. \A s \in DOMAIN k : s # w
    BY <1>0
  <2>2. \A n \in DOMAIN u : u[n] # w
    BY <1>0, <1>2
  <2>3. Children(u2, w) = {t}
    BY <1>2, <2>2 DEF Children
  <2>4. ASSUME u[t] # NoNode PROVE Children(u2, u[t]) = (Children(u, u[t]) \ {t}) \cup {w}
    BY <1>2, <2>2 DEF Children
  <2>5. \A s \in DOMAIN k : s # u[t] => Children(u2, s) = Children(u, s)
    BY <1>2, <2>1 DEF Children
  <2> QED BY <2>3, <2>4, <2>5
<1>9. ASSUME NEW s \in DOMAIN k2 PROVE KidsFor(k2[s], Children(u2, s))
  <2>1. CASE s = w
    BY <1>8, <2>1
  <2>2. CASE s = u[t] /\ s # w
    <3>1. u[t] # NoNode
      BY <1>4, <2>2, NoNodeAssumption
    <3> QED BY <1>8, <2>2, <3>1
  <2>3. CASE s # u[t] /\ s # w
    BY <1>1, <1>8, <2>3
  <2> QED BY <2>1, <2>2, <2>3
<1>10. ASSUME NEW s \in DOMAIN k2
       PROVE  Children(u2, s) # {} /\ (s \notin thin \cup {w} => Several(Children(u2, s)))
  <2>1. CASE s = w
    BY <1>8, <2>1
  <2>2. CASE s = u[t] /\ s # w
    <3>1. u[t] # NoNode
      BY <1>4, <2>2, NoNodeAssumption
    <3>2. Children(u2, s) = (Children(u, s) \ {t}) \cup {w}
      BY <1>8, <2>2, <3>1
    <3>3. ASSUME s \notin thin PROVE Several(Children(u2, s))
      <4>1. PICK m, n \in Children(u, s) : m # n
        BY <1>1, <2>2, <3>3 DEF Several
      <4>2. w \notin Children(u, s)
        BY DEF Children
      <4> QED BY <3>2, <4>1, <4>2 DEF Several
    <3> QED BY <3>2, <3>3
  <2>3. CASE s # u[t] /\ s # w
    BY <1>1, <1>8, <2>3
  <2> QED BY <2>1, <2>2, <2>3
<1> HIDE DEF r2, tops2
<1>11. Forest(r2, a2, k2, u2, tops2, thin \cup {w})
  BY <1>2, <1>3, <1>4, <1>5, <1>6, <1>7, <1>9, <1>10 DEF Forest
<1> QED BY <1>11 DEF r2, tops2

\* Splits X below s give their children to s and are gone.
LEMMA Spliced ==
  ASSUME NEW r, NEW a, NEW k, NEW u, NEW tops, NEW thin, Forest(r, a, k, u, tops, thin),
         NEW s \in DOMAIN k, NEW X, X \subseteq Children(u, s), X \subseteq DOMAIN k,
         NEW u2, u2 = Lifted(u, X, s),
         NEW a2, a2 \in [DOMAIN k \ X -> Axis],
         NEW k2, DOMAIN k2 = DOMAIN k \ X, \A p \in DOMAIN k2 : p # s => k2[p] = k[p],
         KidsFor(k2[s], (Children(u, s) \ X) \cup {n \in DOMAIN u : u[n] \in X})
  PROVE  Forest(r, a2, k2, u2, tops, thin)
<1>0. /\ IsFiniteSet(DOMAIN u) /\ DOMAIN u \subseteq Pane \cup Split
         /\ DOMAIN k = DOMAIN u \cap Split
      /\ u \in [DOMAIN u -> DOMAIN k \cup {NoNode}] /\ Rooted(u)
      /\ tops = {n \in DOMAIN u : u[n] = NoNode} /\ r \in tops
  BY DEF Forest
<1>1. /\ \A p \in DOMAIN k : KidsFor(k[p], Children(u, p))
      /\ \A p \in DOMAIN k : Children(u, p) # {} /\ (p \notin thin => Several(Children(u, p)))
  BY DEF Forest
<1>2. /\ DOMAIN u2 = DOMAIN u \ X /\ \A n \in X : u[n] = s /\ n \in DOMAIN u
      /\ \A n \in DOMAIN u2 : u2[n] = IF u[n] \in X THEN s ELSE u[n]
  BY DEF Children, Lifted
<1>a. s \notin X
  <2>1. ASSUME s \in X PROVE FALSE
    <3>1. {s} \subseteq DOMAIN u /\ \A n \in {s} : u[n] \in {s}
      BY <1>2, <2>1
    <3> QED BY <1>0, <3>1 DEF Rooted
  <2> QED BY <2>1
<1>b. s # NoNode /\ NoNode \notin X /\ s \in DOMAIN u
  BY <1>0, NoNodeAssumption
<1>3. IsFiniteSet(DOMAIN u2)
  BY <1>0, <1>2, FS_Subset
<1>4. DOMAIN u2 \subseteq Pane \cup Split /\ DOMAIN k2 = DOMAIN u2 \cap Split
  BY <1>0, <1>2
<1>5. u2 \in [DOMAIN u2 -> DOMAIN k2 \cup {NoNode}]
  BY <1>0, <1>2, <1>a DEF Lifted
<1>6. Rooted(u2)
  <2> SUFFICES ASSUME NEW C, C \subseteq DOMAIN u2, \A n \in C : u2[n] \in C PROVE C = {}
    BY DEF Rooted
  <2> DEFINE D == C \cup {x \in X : s \in C}
  <2>1. D \subseteq DOMAIN u
    BY <1>2
  <2>2. ASSUME NEW n \in D PROVE u[n] \in D
    BY <1>2
  <2>3. D = {}
    BY <1>0, <2>1, <2>2 DEF Rooted
  <2> QED BY <2>3
<1>7. tops = {n \in DOMAIN u2 : u2[n] = NoNode}
  BY <1>0, <1>2, <1>b
<1>8. /\ Children(u2, s) = (Children(u, s) \ X) \cup {n \in DOMAIN u : u[n] \in X}
      /\ \A p \in DOMAIN k2 : p # s => Children(u2, p) = Children(u, p)
  <2>1. Children(u2, s) = (Children(u, s) \ X) \cup {n \in DOMAIN u : u[n] \in X}
    BY <1>2, <1>a DEF Children
  <2>2. ASSUME NEW p \in DOMAIN k2, p # s PROVE Children(u2, p) = Children(u, p)
    BY <1>2, <2>2 DEF Children
  <2> QED BY <2>1, <2>2
<1>9. \A p \in DOMAIN k2 : KidsFor(k2[p], Children(u2, p))
  BY <1>1, <1>8
<1>10. ASSUME NEW p \in DOMAIN k2
       PROVE  Children(u2, p) # {} /\ (p \notin thin => Several(Children(u2, p)))
  <2>1. CASE p # s
    BY <1>1, <1>8, <2>1
  <2>2. CASE p = s
    <3>1. ASSUME NEW m \in Children(u, s)
          PROVE  \E n \in Children(u2, s) : n = m \/ (u[n] = m /\ m \in X)
      <4>1. CASE m \notin X
        BY <1>8, <4>1
      <4>2. CASE m \in X
        <5>1. PICK n \in DOMAIN u : u[n] = m
          BY <1>1, <4>2 DEF Children
        <5> QED BY <1>8, <4>2, <5>1
      <4> QED BY <4>1, <4>2
    <3>2. ASSUME s \notin thin PROVE Several(Children(u2, s))
      <4>1. PICK m, n \in Children(u, s) : m # n
        BY <1>1, <3>2 DEF Several
      <4>2. PICK m2 \in Children(u2, s) : m2 = m \/ (u[m2] = m /\ m \in X)
        BY <3>1
      <4>3. PICK n2 \in Children(u2, s) : n2 = n \/ (u[n2] = n /\ n \in X)
        BY <3>1
      <4>4. m2 # n2
        BY <1>2, <1>a, <4>1, <4>2, <4>3 DEF Children
      <4> QED BY <4>4 DEF Several
    <3>3. Children(u2, s) # {}
      <4>1. PICK m \in Children(u, s) : TRUE
        BY <1>1
      <4> QED BY <3>1, <4>1
    <3> QED BY <2>2, <3>2, <3>3
  <2> QED BY <2>1, <2>2
<1> QED BY <1>0, <1>3, <1>4, <1>5, <1>6, <1>7, <1>9, <1>10 DEF Forest

\* Splits that are gone or have two children are not thin.
LEMMA NotThin ==
  ASSUME NEW r, NEW a, NEW k, NEW u, NEW tops, NEW thin, Forest(r, a, k, u, tops, thin),
         NEW thin2, \A s \in DOMAIN k : s \in thin /\ s \notin thin2 => Several(Children(u, s))
  PROVE  Forest(r, a, k, u, tops, thin2)
  BY DEF Forest

\* The only child of a root takes its place.
LEMMA RootDropped ==
  ASSUME NEW r, NEW a, NEW k, NEW u, NEW tops, NEW thin, Forest(r, a, k, u, tops, thin),
         r \in DOMAIN k, NEW c, Children(u, r) = {c},
         NEW u2, u2 = Loosened(Without(u, {r}), {c}),
         NEW a2, a2 \in [DOMAIN k \ {r} -> Axis],
         NEW k2, DOMAIN k2 = DOMAIN k \ {r}, \A p \in DOMAIN k2 : k2[p] = k[p]
  PROVE  Forest(c, a2, k2, u2, (tops \ {r}) \cup {c}, thin)
<1>0. /\ IsFiniteSet(DOMAIN u) /\ DOMAIN u \subseteq Pane \cup Split
         /\ DOMAIN k = DOMAIN u \cap Split
      /\ u \in [DOMAIN u -> DOMAIN k \cup {NoNode}] /\ Rooted(u)
      /\ tops = {n \in DOMAIN u : u[n] = NoNode} /\ r \in tops
  BY DEF Forest
<1>1. /\ \A p \in DOMAIN k : KidsFor(k[p], Children(u, p))
      /\ \A p \in DOMAIN k : Children(u, p) # {} /\ (p \notin thin => Several(Children(u, p)))
  BY DEF Forest
<1>2. /\ DOMAIN u2 = DOMAIN u \ {r} /\ u[r] = NoNode /\ c \in DOMAIN u /\ u[c] = r /\ r # NoNode
      /\ \A n \in DOMAIN u2 : u2[n] = IF n = c THEN NoNode ELSE u[n]
      /\ \A n \in DOMAIN u : u[n] = r => n = c
  BY <1>0, NoNodeAssumption DEF Children, Loosened, Without
<1>3. IsFiniteSet(DOMAIN u2)
  BY <1>0, <1>2, FS_RemoveElement DEF Loosened, Without
<1>4. DOMAIN u2 \subseteq Pane \cup Split /\ DOMAIN k2 = DOMAIN u2 \cap Split
  BY <1>0, <1>2
<1>5. u2 \in [DOMAIN u2 -> DOMAIN k2 \cup {NoNode}]
  BY <1>0, <1>2 DEF Loosened, Without
<1>6. Rooted(u2)
  <2> SUFFICES ASSUME NEW C, C \subseteq DOMAIN u2, \A n \in C : u2[n] \in C PROVE C = {}
    BY DEF Rooted
  <2>1. NoNode \notin C
    BY <1>4, NoNodeAssumption
  <2>2. \A n \in C : u[n] \in C
    BY <1>2, <2>1
  <2> QED BY <1>0, <1>2, <2>2 DEF Rooted
<1>7. (tops \ {r}) \cup {c} = {n \in DOMAIN u2 : u2[n] = NoNode}
  BY <1>0, <1>2
<1>8. ASSUME NEW p \in DOMAIN k2 PROVE Children(u2, p) = Children(u, p)
  <2>1. p # r /\ p # NoNode
    BY <1>4, NoNodeAssumption
  <2> QED BY <1>2, <2>1 DEF Children
<1>9. \A p \in DOMAIN k2 : KidsFor(k2[p], Children(u2, p))
  BY <1>1, <1>8
<1>10. \A p \in DOMAIN k2 : Children(u2, p) # {} /\ (p \notin thin => Several(Children(u2, p)))
  BY <1>1, <1>8
<1> QED BY <1>0, <1>3, <1>4, <1>5, <1>6, <1>7, <1>9, <1>10 DEF Forest

\* Some of the children of p, not all of them, hang nowhere.
LEMMA Detached ==
  ASSUME NEW r, NEW a, NEW k, NEW u, NEW tops, NEW thin, Forest(r, a, k, u, tops, thin),
         NEW p \in DOMAIN k, NEW S, S \subseteq Children(u, p), Children(u, p) \ S # {},
         NEW u2, u2 = Loosened(u, S),
         NEW k2, DOMAIN k2 = DOMAIN k, \A s \in DOMAIN k : s # p => k2[s] = k[s],
         KidsFor(k2[p], Children(u, p) \ S)
  PROVE  Forest(r, a, k2, u2, tops \cup S, thin \cup {p})
<1>0. /\ IsFiniteSet(DOMAIN u) /\ DOMAIN u \subseteq Pane \cup Split
         /\ DOMAIN k = DOMAIN u \cap Split
      /\ u \in [DOMAIN u -> DOMAIN k \cup {NoNode}] /\ Rooted(u) /\ a \in [DOMAIN k -> Axis]
      /\ tops = {n \in DOMAIN u : u[n] = NoNode} /\ r \in tops
  BY DEF Forest
<1>1. /\ \A s \in DOMAIN k : KidsFor(k[s], Children(u, s))
      /\ \A s \in DOMAIN k : Children(u, s) # {} /\ (s \notin thin => Several(Children(u, s)))
  BY DEF Forest
<1>2. /\ DOMAIN u2 = DOMAIN u /\ \A n \in S : n \in DOMAIN u /\ u[n] = p
      /\ \A n \in DOMAIN u : u2[n] = IF n \in S THEN NoNode ELSE u[n]
      /\ p # NoNode
  BY <1>0, NoNodeAssumption DEF Children, Loosened
<1>3. u2 \in [DOMAIN u2 -> DOMAIN k2 \cup {NoNode}]
  BY <1>0, <1>2 DEF Loosened
<1>4. Rooted(u2)
  <2> SUFFICES ASSUME NEW C, C \subseteq DOMAIN u2, \A n \in C : u2[n] \in C PROVE C = {}
    BY DEF Rooted
  <2>1. NoNode \notin C
    BY <1>0, <1>2, NoNodeAssumption
  <2>2. C \subseteq DOMAIN u /\ \A n \in C : u[n] \in C
    BY <1>2, <2>1
  <2> QED BY <1>0, <2>2 DEF Rooted
<1>5. tops \cup S = {n \in DOMAIN u2 : u2[n] = NoNode}
  BY <1>0, <1>2
<1>6. Children(u2, p) = Children(u, p) \ S
  BY <1>2 DEF Children
<1>7. ASSUME NEW s \in DOMAIN k, s # p PROVE Children(u2, s) = Children(u, s)
  <2>1. s # NoNode
    BY <1>0, NoNodeAssumption
  <2> QED BY <1>2, <1>7, <2>1 DEF Children
<1>8. ASSUME NEW s \in DOMAIN k2 PROVE KidsFor(k2[s], Children(u2, s))
  <2>1. CASE s = p
    BY <1>6, <2>1
  <2>2. CASE s # p
    BY <1>1, <1>7, <2>2
  <2> QED BY <2>1, <2>2
<1>9. ASSUME NEW s \in DOMAIN k2
      PROVE  Children(u2, s) # {} /\ (s \notin thin \cup {p} => Several(Children(u2, s)))
  <2>1. CASE s = p
    BY <1>6, <2>1
  <2>2. CASE s # p
    BY <1>1, <1>7, <2>2
  <2> QED BY <2>1, <2>2
<1> QED BY <1>0, <1>2, <1>3, <1>4, <1>5, <1>8, <1>9 DEF Forest

\* A leaf that hangs nowhere is gone.
LEMMA LeafDropped ==
  ASSUME NEW r, NEW a, NEW k, NEW u, NEW tops, NEW thin, Forest(r, a, k, u, tops, thin),
         NEW x \in tops, x # r, x \notin DOMAIN k,
         NEW u2, u2 = Without(u, {x})
  PROVE  Forest(r, a, k, u2, tops \ {x}, thin)
<1>0. /\ IsFiniteSet(DOMAIN u) /\ DOMAIN u \subseteq Pane \cup Split
         /\ DOMAIN k = DOMAIN u \cap Split
      /\ u \in [DOMAIN u -> DOMAIN k \cup {NoNode}] /\ Rooted(u) /\ a \in [DOMAIN k -> Axis]
      /\ tops = {n \in DOMAIN u : u[n] = NoNode} /\ r \in tops
  BY DEF Forest
<1>1. /\ \A s \in DOMAIN k : KidsFor(k[s], Children(u, s))
      /\ \A s \in DOMAIN k : Children(u, s) # {} /\ (s \notin thin => Several(Children(u, s)))
  BY DEF Forest
<1>2. DOMAIN u2 = DOMAIN u \ {x} /\ \A n \in DOMAIN u2 : u2[n] = u[n]
  BY DEF Without
<1>3. IsFiniteSet(DOMAIN u2)
  BY <1>0, <1>2, FS_RemoveElement
<1>4. DOMAIN u2 \subseteq Pane \cup Split /\ DOMAIN k = DOMAIN u2 \cap Split
  BY <1>0, <1>2
<1>5. u2 \in [DOMAIN u2 -> DOMAIN k \cup {NoNode}]
  BY <1>0, <1>2 DEF Without
<1>6. Rooted(u2)
  <2> SUFFICES ASSUME NEW C, C \subseteq DOMAIN u2, \A n \in C : u2[n] \in C PROVE C = {}
    BY DEF Rooted
  <2>1. C \subseteq DOMAIN u /\ \A n \in C : u[n] \in C
    BY <1>2
  <2> QED BY <1>0, <2>1 DEF Rooted
<1>7. tops \ {x} = {n \in DOMAIN u2 : u2[n] = NoNode} /\ r \in tops \ {x}
  BY <1>0, <1>2
<1>8. ASSUME NEW s \in DOMAIN k PROVE Children(u2, s) = Children(u, s)
  <2>1. s # NoNode /\ u[x] = NoNode
    BY <1>0, NoNodeAssumption
  <2> QED BY <1>2, <2>1 DEF Children
<1>9. \A s \in DOMAIN k : KidsFor(k[s], Children(u2, s))
  BY <1>1, <1>8
<1>10. \A s \in DOMAIN k : Children(u2, s) # {} /\ (s \notin thin => Several(Children(u2, s)))
  BY <1>1, <1>8
<1> QED BY <1>0, <1>3, <1>4, <1>5, <1>6, <1>7, <1>9, <1>10 DEF Forest

\* A new split gathers trees that hung nowhere.
LEMMA Gathered ==
  ASSUME NEW r, NEW a, NEW k, NEW u, NEW tops, NEW thin, Forest(r, a, k, u, tops, thin),
         NEW S, S \subseteq tops, r \notin S, Several(S), NEW g \in Split, g \notin DOMAIN u,
         NEW u2, u2 = Parented(Set(u, g, NoNode), g, S),
         NEW a2, a2 \in [DOMAIN k \cup {g} -> Axis],
         NEW k2, DOMAIN k2 = DOMAIN k \cup {g}, \A s \in DOMAIN k : k2[s] = k[s],
         KidsFor(k2[g], S)
  PROVE  Forest(r, a2, k2, u2, (tops \ S) \cup {g}, thin)
<1>0. /\ IsFiniteSet(DOMAIN u) /\ DOMAIN u \subseteq Pane \cup Split
         /\ DOMAIN k = DOMAIN u \cap Split
      /\ u \in [DOMAIN u -> DOMAIN k \cup {NoNode}] /\ Rooted(u)
      /\ tops = {n \in DOMAIN u : u[n] = NoNode} /\ r \in tops
  BY DEF Forest
<1>1. /\ \A s \in DOMAIN k : KidsFor(k[s], Children(u, s))
      /\ \A s \in DOMAIN k : Children(u, s) # {} /\ (s \notin thin => Several(Children(u, s)))
  BY DEF Forest
<1>2. /\ DOMAIN u2 = DOMAIN u \cup {g} /\ g # NoNode
      /\ \A n \in S : n \in DOMAIN u /\ u[n] = NoNode /\ u2[n] = g /\ n # g
      /\ u2[g] = NoNode
      /\ \A n \in DOMAIN u : n \notin S => u2[n] = u[n] /\ n # g
  BY <1>0, NoNodeAssumption DEF Parented, Set
<1>3. IsFiniteSet(DOMAIN u2)
  BY <1>0, <1>2, FS_AddElement
<1>4. DOMAIN u2 \subseteq Pane \cup Split /\ DOMAIN k2 = DOMAIN u2 \cap Split
  BY <1>0, <1>2
<1>5. u2 \in [DOMAIN u2 -> DOMAIN k2 \cup {NoNode}]
  BY <1>0, <1>2 DEF Parented, Set
<1>6. Rooted(u2)
  <2> SUFFICES ASSUME NEW C, C \subseteq DOMAIN u2, \A n \in C : u2[n] \in C PROVE C = {}
    BY DEF Rooted
  <2>1. NoNode \notin C
    BY <1>4, NoNodeAssumption
  <2>2. g \notin C
    BY <1>2, <2>1
  <2>3. C \subseteq DOMAIN u /\ \A n \in C : u[n] \in C
    BY <1>2, <2>2
  <2> QED BY <1>0, <2>3 DEF Rooted
<1>7. (tops \ S) \cup {g} = {n \in DOMAIN u2 : u2[n] = NoNode} /\ r \in (tops \ S) \cup {g}
  BY <1>0, <1>2
<1>8. Children(u2, g) = S
  <2>1. \A n \in DOMAIN u : u[n] # g
    BY <1>0, <1>2
  <2> QED BY <1>2, <2>1 DEF Children
<1>9. ASSUME NEW s \in DOMAIN k PROVE Children(u2, s) = Children(u, s)
  <2>1. s # NoNode /\ s # g
    BY <1>0, NoNodeAssumption
  <2> QED BY <1>2, <2>1 DEF Children
<1>10. \A s \in DOMAIN k2 : KidsFor(k2[s], Children(u2, s))
  BY <1>1, <1>8, <1>9
<1>11. \A s \in DOMAIN k2 : Children(u2, s) # {} /\ (s \notin thin => Several(Children(u2, s)))
  <2>1. S # {}
    BY DEF Several
  <2> QED BY <1>1, <1>8, <1>9, <2>1
<1> QED BY <1>0, <1>3, <1>4, <1>5, <1>6, <1>7, <1>10, <1>11 DEF Forest

\* Two nodes, neither of which is above the other, change places.
LEMMA Traded ==
  ASSUME NEW r, NEW a, NEW k, NEW u, NEW tops, NEW thin, Forest(r, a, k, u, tops, thin),
         NEW x \in DOMAIN u, NEW y \in DOMAIN u, u[x] \in DOMAIN k, u[y] \in DOMAIN k,
         u[x] # u[y],
         NEW A, Upward(u, A), u[x] \in A, x \notin A, y \notin A,
         NEW B, Upward(u, B), u[y] \in B, x \notin B, y \notin B,
         NEW u2, u2 = Exchange(u, x, y),
         NEW k2, DOMAIN k2 = DOMAIN k, \A s \in DOMAIN k : s # u[x] /\ s # u[y] => k2[s] = k[s],
         KidsFor(k2[u[x]], (Children(u, u[x]) \ {x}) \cup {y}),
         KidsFor(k2[u[y]], (Children(u, u[y]) \ {y}) \cup {x})
  PROVE  Forest(r, a, k2, u2, tops, thin)
<1>0. /\ IsFiniteSet(DOMAIN u) /\ DOMAIN u \subseteq Pane \cup Split
         /\ DOMAIN k = DOMAIN u \cap Split
      /\ u \in [DOMAIN u -> DOMAIN k \cup {NoNode}] /\ Rooted(u) /\ a \in [DOMAIN k -> Axis]
      /\ tops = {n \in DOMAIN u : u[n] = NoNode} /\ r \in tops
  BY DEF Forest
<1>1. /\ \A s \in DOMAIN k : KidsFor(k[s], Children(u, s))
      /\ \A s \in DOMAIN k : Children(u, s) # {} /\ (s \notin thin => Several(Children(u, s)))
  BY DEF Forest
<1>2. /\ DOMAIN u2 = DOMAIN u /\ x # y /\ u2[x] = u[y] /\ u2[y] = u[x]
      /\ \A n \in DOMAIN u : n # x /\ n # y => u2[n] = u[n]
      /\ u[x] # NoNode /\ u[y] # NoNode
  BY <1>0, NoNodeAssumption DEF Exchange
<1>3. u2 \in [DOMAIN u2 -> DOMAIN k2 \cup {NoNode}]
  BY <1>0, <1>2 DEF Exchange
<1>4. Rooted(u2)
  <2> SUFFICES ASSUME NEW C, C \subseteq DOMAIN u2, \A n \in C : u2[n] \in C PROVE C = {}
    BY DEF Rooted
  <2>0. NoNode \notin C
    BY <1>0, <1>2, NoNodeAssumption
  <2>1. ASSUME NEW D, Upward(u, D), x \notin D, y \notin D, NEW n \in C \cap D PROVE FALSE
    <3>1. C \cap D \subseteq DOMAIN u
      BY <2>1 DEF Upward
    <3>2. ASSUME NEW m \in C \cap D PROVE u[m] \in C \cap D
      BY <1>2, <2>0, <2>1 DEF Upward
    <3> QED BY <1>0, <2>1, <3>1, <3>2 DEF Rooted
  <2>2. x \notin C
    BY <1>2, <2>1
  <2>3. y \notin C
    BY <1>2, <2>1
  <2> QED BY <1>0, <1>2, <2>2, <2>3 DEF Rooted
<1>5. tops = {n \in DOMAIN u2 : u2[n] = NoNode}
  BY <1>0, <1>2
<1>6. /\ Children(u2, u[x]) = (Children(u, u[x]) \ {x}) \cup {y}
      /\ Children(u2, u[y]) = (Children(u, u[y]) \ {y}) \cup {x}
  BY <1>2 DEF Children
<1>7. ASSUME NEW s \in DOMAIN k, s # u[x], s # u[y] PROVE Children(u2, s) = Children(u, s)
  BY <1>2, <1>7 DEF Children
<1>8. \A s \in DOMAIN k2 : KidsFor(k2[s], Children(u2, s))
  BY <1>1, <1>6, <1>7
<1>9. ASSUME NEW s \in DOMAIN k2
      PROVE  Children(u2, s) # {} /\ (s \notin thin => Several(Children(u2, s)))
  <2>1. CASE s # u[x] /\ s # u[y]
    BY <1>1, <1>7, <2>1
  <2>2. CASE s = u[x]
    <3>1. y \notin Children(u, s)
      BY <2>2 DEF Children
    <3>2. Several(Children(u, s)) => Several(Children(u2, s))
      BY <1>6, <2>2, <3>1 DEF Several
    <3> QED BY <1>1, <1>6, <2>2, <3>2
  <2>3. CASE s = u[y]
    <3>1. x \notin Children(u, s)
      BY <2>3 DEF Children
    <3>2. Several(Children(u, s)) => Several(Children(u2, s))
      BY <1>6, <2>3, <3>1 DEF Several
    <3> QED BY <1>1, <1>6, <2>3, <3>2
  <2> QED BY <2>1, <2>2, <2>3
<1> QED BY <1>0, <1>2, <1>3, <1>4, <1>5, <1>8, <1>9 DEF Forest

Lay(r, a, k, u) == [root |-> r, axis |-> a, kids |-> k, up |-> u]

\* The parts of a layout.
LEMMA LayParts ==
  ASSUME NEW r, NEW a, NEW k, NEW u
  PROVE  LET l == Lay(r, a, k, u) IN
         l.root = r /\ l.axis = a /\ l.kids = k /\ l.up = u /\ Nodes(l) = DOMAIN u
  BY DEF Lay, Nodes

\* One part is changed; the names keep the prover from looking into the records.
WithRoot(l, x) == [l EXCEPT !.root = x]
WithAxis(l, x) == [l EXCEPT !.axis = x]
WithKids(l, x) == [l EXCEPT !.kids = x]
WithUp(l, x) == [l EXCEPT !.up = x]
\* A layout with another root.
LEMMA LayWithRoot == ASSUME NEW r, NEW a, NEW k, NEW u, NEW x
    PROVE WithRoot(Lay(r, a, k, u), x) = Lay(x, a, k, u)
  BY DEF Lay, WithRoot

\* A layout with other axes.
LEMMA LayWithAxis == ASSUME NEW r, NEW a, NEW k, NEW u, NEW x
    PROVE WithAxis(Lay(r, a, k, u), x) = Lay(r, x, k, u)
  BY DEF Lay, WithAxis

\* A layout with other lists of children.
LEMMA LayWithKids == ASSUME NEW r, NEW a, NEW k, NEW u, NEW x
    PROVE WithKids(Lay(r, a, k, u), x) = Lay(r, a, x, u)
  BY DEF Lay, WithKids

\* A layout with other parent links.
LEMMA LayWithUp == ASSUME NEW r, NEW a, NEW k, NEW u, NEW x
    PROVE WithUp(Lay(r, a, k, u), x) = Lay(r, a, k, x)
  BY DEF Lay, WithUp

\* Two or three parts are changed.
LEMMA WithMore ==
  ASSUME NEW l, NEW a, NEW k, NEW u
  PROVE  /\ [l EXCEPT !.kids = k, !.up = u] = WithUp(WithKids(l, k), u)
         /\ [l EXCEPT !.axis = a, !.kids = k, !.up = u] = WithUp(WithKids(WithAxis(l, a), k), u)
  BY DEF WithUp, WithKids, WithAxis

\* What Adopt does to the parts.
LEMMA AdoptParts ==
  ASSUME NEW r, NEW a, NEW k, NEW u, NEW s, NEW K \in Seq(KidRec)
  PROVE  Adopt(Lay(r, a, k, u), s, K)
           = Lay(r, a, Set(k, s, K), Parented(u, s, NodesOf(K)))
<1> DEFINE L == Lay(r, a, k, u)
           u2 == Parented(u, s, NodesOf(K))
<1>1. L.kids = k /\ L.up = u /\ Nodes(L) = DOMAIN u /\ ToSet(KidNodes(K)) = NodesOf(K)
  BY LayParts, KidNodesOf
<1>2. [n \in Nodes(L)
      \cup ToSet(KidNodes(K)) |-> IF n \in ToSet(KidNodes(K)) THEN s ELSE L.up[n]] = u2
  BY <1>1 DEF Parented
<1>3. Adopt(L, s, K) = WithUp(WithKids(L, Set(k, s, K)), u2)
  <2> HIDE DEF L, u2
  <2> QED BY <1>1, <1>2, Zenon DEF Adopt, WithUp, WithKids
<1>4. WithUp(WithKids(L, Set(k, s, K)), u2) = Lay(r, a, Set(k, s, K), u2)
  <2> HIDE DEF u2
  <2> QED BY LayWithKids, LayWithUp
<1> QED BY <1>3, <1>4

\* What Erase does to the parts.
LEMMA EraseParts ==
  ASSUME NEW r, NEW a, NEW k, NEW u, NEW S
  PROVE  Erase(Lay(r, a, k, u), S)
           = Lay(r, Keep(a, DOMAIN u \ S), Keep(k, DOMAIN u \ S), Keep(u, DOMAIN u \ S))
<1> DEFINE L == Lay(r, a, k, u)
<1>1. L.kids = k /\ L.up = u /\ L.axis = a /\ Nodes(L) = DOMAIN u
  BY LayParts
<1> DEFINE D == DOMAIN u \ S
<1>2. Erase(L, S) = WithUp(WithKids(WithAxis(L, Keep(a, D)), Keep(k, D)), Keep(u, D))
  <2> HIDE DEF L
  <2> QED BY <1>1, Zenon DEF Erase, WithUp, WithKids, WithAxis
<1> HIDE DEF D
<1>3. WithUp(WithKids(WithAxis(L, Keep(a, D)), Keep(k, D)), Keep(u, D))
      = Lay(r, Keep(a, D), Keep(k, D), Keep(u, D))
  BY LayWithAxis, LayWithKids, LayWithUp
<1> QED BY <1>2, <1>3 DEF D

\* What NewSplit does to the parts.
LEMMA NewSplitParts ==
  ASSUME NEW r, NEW a, NEW k, NEW u, NEW s, NEW x, NEW K \in Seq(KidRec)
  PROVE  NewSplit(Lay(r, a, k, u), s, x, K)
           = Lay(r, Set(a, s, x), Set(k, s, K), Parented(u, s, NodesOf(K)))
<1> DEFINE k2 == Set(k, s, K)
           u2 == Parented(u, s, NodesOf(K))
<1>1. Adopt(Lay(r, a, k, u), s, K) = Lay(r, a, k2, u2)
  BY AdoptParts
<1> HIDE DEF k2, u2
<1>2. NewSplit(Lay(r, a, k, u), s, x, K) = WithAxis(Lay(r, a, k2, u2), Set(a, s, x))
  <2>1. Lay(r, a, k2, u2).axis = a
    BY LayParts
  <2>2. NewSplit(Lay(r, a, k, u), s, x, K)
        = WithAxis(Lay(r, a, k2, u2), Set(Lay(r, a, k2, u2).axis, s, x))
    BY <1>1, Zenon DEF NewSplit, WithAxis
  <2> QED BY <2>1, <2>2
<1> QED BY <1>2, LayWithAxis DEF k2, u2

\* Where a node stands in a list of children.
IndexIn(K, n) == CHOOSE i \in DOMAIN K : K[i].node = n

\* ChildIndex looks a node up in its list.
LEMMA IndexInKids == ASSUME NEW l, NEW s, NEW n PROVE ChildIndex(l, s, n) = IndexIn(l.kids[s], n)
  BY DEF ChildIndex, IndexIn

\* The lists of children when w takes the place of t, and one of them.
WithNode(K, n, w) == PutNode(K, IndexIn(K, n), w)
Renamed(k, u, t, w) == IF u[t] = NoNode THEN k ELSE [k EXCEPT ![u[t]] = WithNode(k[u[t]], t, w)]

\* What TakePlace does to the parts.
LEMMA TakePlaceParts ==
  ASSUME NEW r, NEW a, NEW k, NEW u, NEW t, NEW w, u[t] = NoNode => r = t, r = t => u[t] = NoNode
  PROVE  TakePlace(Lay(r, a, k, u), t, w)
           = Lay(IF r = t THEN w ELSE r, a, Renamed(k, u, t, w), Set(u, w, u[t]))
<1> DEFINE L == Lay(r, a, k, u)
           p == u[t]
           i == ChildIndex(L, p, t)
           placed == Lay(r, a, k, Set(u, w, p))
<1>1. L.up = u /\ placed.kids = k /\ L.kids = k
  BY LayParts
<1>2. WithUp(L, Set(u, w, p)) = placed
  BY LayWithUp
<1>3. i = IndexIn(k[p], t)
  <2> HIDE DEF L
  <2> QED BY <1>1, IndexInKids
<1>4. TakePlace(L, t, w) = IF p = NoNode THEN WithRoot(placed, w)
                           ELSE WithKids(placed, [k EXCEPT ![p] = WithNode(k[p], t, w)])
  <2> HIDE DEF L, i, p, placed
  <2>1. L.up[t] = p
    BY <1>1 DEF p
  <2>2. [L EXCEPT !.up = Set(L.up, w, p)] = placed
    BY <1>1, <1>2, Zenon DEF WithUp
  <2>3. i = ChildIndex(L, p, t)
    BY DEF i
  <2>4. TakePlace(L, t, w) = IF p = NoNode THEN [placed EXCEPT !.root = w]
                             ELSE [placed EXCEPT !.kids[p][i].node = w]
    BY <2>1, <2>2, <2>3, Zenon DEF TakePlace
  <2>5. [placed EXCEPT !.kids[p][i].node = w]
          = WithKids(placed,
          [placed.kids EXCEPT ![p]
          = [placed.kids[p] EXCEPT ![i] = [placed.kids[p][i] EXCEPT !.node = w]]])
    BY DEF WithKids
  <2>6. [k[p] EXCEPT ![i] = [k[p][i] EXCEPT !.node = w]] = WithNode(k[p], t, w)
    BY <1>3, Zenon DEF WithNode, PutNode
  <2> QED BY <1>1, <2>4, <2>5, <2>6, Zenon DEF WithRoot
<1>5. WithRoot(placed, w) = Lay(w, a, k, Set(u, w, p))
  BY LayWithRoot
<1>6. WithKids(placed, [k EXCEPT ![p] = WithNode(k[p], t, w)])
      = Lay(r, a, [k EXCEPT ![p] = WithNode(k[p], t, w)], Set(u, w, p))
  <2> DEFINE K == [k EXCEPT ![p] = WithNode(k[p], t, w)]
  <2> HIDE DEF K
  <2> QED BY LayWithKids
<1>7. CASE p = NoNode
  BY <1>4, <1>5, <1>7, Zenon DEF Renamed
<1>8. CASE p # NoNode
  <2>1. Renamed(k, u, t, w) = [k EXCEPT ![p] = WithNode(k[p], t, w)]
    BY <1>8, Zenon DEF Renamed
  <2>2. r # t
    BY <1>8
  <2> QED BY <1>4, <1>6, <1>8, <2>1, <2>2, Zenon
<1> QED BY <1>7, <1>8

\* A layout whose parts form a forest, with these tops and these thin splits.
Grove(l, tops, thin) ==
  /\ l = Lay(l.root, l.axis, l.kids, l.up)
  /\ Forest(l.root, l.axis, l.kids, l.up, tops, thin)

\* The parts of a forest make up a grove.
LEMMA GroveOf ==
  ASSUME NEW r, NEW a, NEW k, NEW u, NEW tops, NEW thin, Forest(r, a, k, u, tops, thin)
  PROVE  Grove(Lay(r, a, k, u), tops, thin)
<1> DEFINE L == Lay(r, a, k, u)
<1>1. L.root = r /\ L.axis = a /\ L.kids = k /\ L.up = u
  BY LayParts
<1>2. L = Lay(r, a, k, u)
  OBVIOUS
<1> HIDE DEF L
<1>3. Grove(L, tops, thin)
  BY <1>1, <1>2 DEF Grove
<1> QED BY <1>3 DEF L

\* The parts of a grove, looked at without the definition of a forest.
LEMMA GroveParts ==
  ASSUME NEW l, NEW tops, NEW thin, Grove(l, tops, thin)
  PROVE  /\ l = Lay(l.root, l.axis, l.kids, l.up) /\ Nodes(l) = DOMAIN l.up
         /\ IsFiniteSet(DOMAIN l.up) /\ DOMAIN l.up \subseteq Pane \cup Split
         /\ DOMAIN l.kids = DOMAIN l.up \cap Split /\ DOMAIN l.axis = DOMAIN l.kids
         /\ l.axis \in [DOMAIN l.kids -> Axis]
         /\ l.up \in [DOMAIN l.up -> DOMAIN l.kids \cup {NoNode}]
         /\ tops = {n \in DOMAIN l.up : l.up[n] = NoNode} /\ l.root \in tops
         /\ NoNode \notin DOMAIN l.up
         /\ Upward(l.up, DOMAIN l.up)
         /\ \A n : IsLeaf(l, n) <=> n \notin DOMAIN l.kids
  BY NoNodeAssumption DEF Grove, Forest, Nodes, Upward, IsLeaf

\* The children of a split in a grove.
LEMMA GroveKids ==
  ASSUME NEW l, NEW tops, NEW thin, Grove(l, tops, thin), NEW s \in DOMAIN l.kids
  PROVE  /\ KidsFor(l.kids[s], Children(l.up, s))
         /\ l.kids[s] \in Seq(KidRec) /\ Distinct(l.kids[s])
         /\ NodesOf(l.kids[s]) = Children(l.up, s) /\ SumOf(l.kids[s]) = Full
         /\ Children(l.up, s) # {} /\ (s \notin thin => Several(Children(l.up, s)))
         /\ s \notin Children(l.up, s)
<1>1. Rooted(l.up) /\ s \in DOMAIN l.up
  BY DEF Grove, Forest
<1>2. ASSUME s \in Children(l.up, s) PROVE FALSE
  <2>1. {s} \in SUBSET DOMAIN l.up /\ \A n \in {s} : l.up[n] \in {s}
    BY <1>1, <1>2 DEF Children
  <2> QED BY <1>1, <2>1 DEF Rooted
<1> QED BY <1>2 DEF Grove, Forest, KidsFor

\* Where a node stands among the children of its parent.
LEMMA GroveIndex ==
  ASSUME NEW l, NEW tops, NEW thin, Grove(l, tops, thin), NEW n \in DOMAIN l.up, l.up[n] # NoNode
  PROVE  /\ l.up[n] \in DOMAIN l.kids /\ n \in Children(l.up, l.up[n])
         /\ ChildIndex(l, l.up[n], n) \in 1 .. Len(l.kids[l.up[n]])
         /\ l.kids[l.up[n]][ChildIndex(l, l.up[n], n)].node = n
         /\ l.kids[l.up[n]][ChildIndex(l, l.up[n], n)].share \in Nat
<1>1. l.up[n] \in DOMAIN l.kids
  BY GroveParts
<1>2. n \in Children(l.up, l.up[n])
  BY DEF Children
<1>3. l.kids[l.up[n]] \in Seq(KidRec) /\ n \in NodesOf(l.kids[l.up[n]])
  BY <1>1, <1>2, GroveKids
<1>4. /\ ChildIndex(l, l.up[n], n) \in 1 .. Len(l.kids[l.up[n]])
      /\ l.kids[l.up[n]][ChildIndex(l, l.up[n], n)].node = n
  BY <1>3, KidIndex, ZenonT(60) DEF ChildIndex
<1> QED BY <1>1, <1>2, <1>3, <1>4, KidsAt

\* A child gives way to a list of the same share.
LEMMA KidTraded ==
  ASSUME NEW K, NEW S, KidsFor(K, S), NEW i \in 1 .. Len(K), NEW new \in Seq(KidRec),
         Distinct(new),
         NodesOf(new) \cap S \subseteq {K[i].node}, SumOf(new) = K[i].share
  PROVE  KidsFor(Replace(K, i, 1, new), (S \ {K[i].node}) \cup NodesOf(new))
<1>1. K \in Seq(KidRec) /\ Distinct(K) /\ NodesOf(K) = S /\ SumOf(K) = Full
  BY DEF KidsFor
<1>2. K[i].share \in Nat /\ Full \in Nat
  BY <1>1, KidsAt, FullAssumption
<1>3. /\ Replace(K, i, 1, new) \in Seq(KidRec) /\ Distinct(Replace(K, i, 1, new))
      /\ NodesOf(Replace(K, i, 1, new)) = (NodesOf(K) \ {K[i].node}) \cup NodesOf(new)
      /\ SumOf(Replace(K, i, 1, new)) = (SumOf(K) - K[i].share) + SumOf(new)
  BY <1>1, KidReplaced
<1>4. SumOf(Replace(K, i, 1, new)) = Full
  BY <1>1, <1>2, <1>3
<1> QED BY <1>1, <1>3, <1>4 DEF KidsFor

\* Two children in a row.
LEMMA KidsTwo ==
  ASSUME NEW m \in Pane \cup Split, NEW n \in Pane \cup Split, m # n, NEW x \in Nat, NEW y \in Nat
  PROVE  /\ <<Kid(m, x), Kid(n, y)>> \in Seq(KidRec) /\ Distinct(<<Kid(m, x), Kid(n, y)>>)
         /\ NodesOf(<<Kid(m, x), Kid(n, y)>>) = {m, n} /\ SumOf(<<Kid(m, x), Kid(n, y)>>) = x + y
<1> DEFINE K == <<Kid(m, x)>>
           M == <<Kid(n, y)>>
           J == <<Kid(m, x), Kid(n, y)>>
<1>1. J = Join(K, M)
  BY DEF Join
<1>2. K \in Seq(KidRec) /\ NodesOf(K) = {m} /\ Distinct(K) /\ SumOf(K) = x
  <2> HIDE DEF Kid
  <2> QED BY KidsOne
<1>3. M \in Seq(KidRec) /\ NodesOf(M) = {n} /\ Distinct(M) /\ SumOf(M) = y
  <2> HIDE DEF Kid
  <2> QED BY KidsOne
<1> HIDE DEF K, M, J
<1>4. J \in Seq(KidRec) /\ Distinct(J) /\ NodesOf(J) = {m, n} /\ SumOf(J) = x + y
  <2>1. NodesOf(K) \cap NodesOf(M) = {} /\ NodesOf(K) \cup NodesOf(M) = {m, n}
    BY <1>2, <1>3
  <2>2. J \in Seq(KidRec) /\ NodesOf(J) = NodesOf(K) \cup NodesOf(M)
        /\ SumOf(J) = SumOf(K) + SumOf(M)
    BY <1>1, <1>2, <1>3, KidsJoined
  <2>3. Distinct(J)
    BY <1>1, <1>2, <1>3, <2>1, KidsJoined
  <2> QED BY <1>2, <1>3, <2>1, <2>2, <2>3
<1> QED BY <1>4 DEF J

\* The two halves of a share.
LEMMA Halves ==
  ASSUME NEW x \in Nat
  PROVE  EarlierHalf(x) \in Nat /\ LaterHalf(x) \in Nat /\ EarlierHalf(x) + LaterHalf(x) = x
  BY DEF EarlierHalf, LaterHalf

-----------------------------------------------------------------------------
(* Splitting a pane *)

\* The counter that numbers splits never comes back to a number it gave.
SplitsNeverRunOut == ~IsFiniteSet(Split)

\* A new split is one that is not in the layout.
LEMMA FreshSplitIsNew ==
  ASSUME NEW l, NEW tops, NEW thin, Grove(l, tops, thin), SplitsNeverRunOut
  PROVE  FreshSplit(l) \in Split /\ FreshSplit(l) \notin Nodes(l)
<1>1. IsFiniteSet(Nodes(l))
  BY GroveParts
<1>2. \E s \in Split : s \notin Nodes(l)
  BY <1>1, FS_Subset DEF SplitsNeverRunOut
<1> QED BY <1>2 DEF FreshSplit

\* A split between t and its parent, with t for its only child.
LEMMA WrappedForest ==
  ASSUME NEW r, NEW a, NEW k, NEW u, NEW tops, NEW thin, Forest(r, a, k, u, tops, thin),
         NEW t \in DOMAIN u, NEW w \in Split, w \notin DOMAIN u, NEW x \in Axis
  PROVE  Forest(IF r = t THEN w ELSE r, Set(a, w, x),
         Set(Renamed(k, u, t, w), w, <<Kid(t, Full)>>),
                Wrap(u, t, w), TopsWith(u, tops, t, w), thin \cup {w})
<1> DEFINE k1 == Renamed(k, u, t, w)
           k2 == Set(k1, w, <<Kid(t, Full)>>)
<1>1. /\ DOMAIN u \subseteq Pane \cup Split /\ DOMAIN k = DOMAIN u \cap Split
      /\ u \in [DOMAIN u -> DOMAIN k \cup {NoNode}] /\ a \in [DOMAIN k -> Axis]
      /\ \A s \in DOMAIN k : KidsFor(k[s], Children(u, s))
  BY DEF Forest
<1>2. DOMAIN k1 = DOMAIN k /\ \A s \in DOMAIN k : s # u[t] => k1[s] = k[s]
  BY DEF Renamed
<1>3. Set(a, w, x) \in [DOMAIN k \cup {w} -> Axis]
  BY <1>1 DEF Set
<1>4. DOMAIN k2 = DOMAIN k \cup {w} /\ k2[w] = <<Kid(t, Full)>> /\ \A s \in DOMAIN k : s # w
      => k2[s] = k1[s]
  <2> HIDE DEF k1
  <2> QED BY <1>2 DEF Set
<1>5. \A s \in DOMAIN k : s # w
  BY <1>1
<1>6. \A s \in DOMAIN k : s # u[t] => k2[s] = k[s]
  BY <1>2, <1>4, <1>5
<1>7. KidsFor(k2[w], {t})
  <2> DEFINE K == <<Kid(t, Full)>>
  <2>1. K \in Seq(KidRec) /\ NodesOf(K) = {t} /\ Distinct(K) /\ SumOf(K) = Full
    <3> HIDE DEF Kid
    <3> QED BY <1>1, KidsOne, FullAssumption
  <2>2. k2[w] = K
    BY <1>4
  <2> HIDE DEF K, k2
  <2> QED BY <2>1, <2>2 DEF KidsFor
<1>8. ASSUME u[t] # NoNode PROVE KidsFor(k2[u[t]], (Children(u, u[t]) \ {t}) \cup {w})
  <2> DEFINE p == u[t]
             K == k[p]
             i == IndexIn(K, t)
  <2>1. p \in DOMAIN k /\ p # w
    BY <1>1, <1>5, <1>8
  <2>2. K \in Seq(KidRec) /\ Distinct(K) /\ NodesOf(K) = Children(u, p) /\ SumOf(K) = Full
    BY <1>1, <2>1 DEF KidsFor
  <2>3. t \in NodesOf(K)
    BY <2>2 DEF Children
  <2>4. i \in 1 .. Len(K) /\ K[i].node = t
    <3> HIDE DEF K
    <3> QED BY <2>2, <2>3, KidIndex DEF IndexIn
  <2>5. w \notin NodesOf(K)
    BY <2>2 DEF Children
  <2>6. /\ WithNode(K, t, w) \in Seq(KidRec) /\ Distinct(WithNode(K, t, w))
        /\ SumOf(WithNode(K, t, w)) = SumOf(K) /\ NodesOf(WithNode(K, t, w))
           = (NodesOf(K) \ {t}) \cup {w}
    <3> DEFINE R == WithNode(K, t, w)
    <3>1. R = PutNode(K, i, w)
      BY DEF WithNode
    <3> HIDE DEF K, i, R
    <3>2. w \in Pane \cup Split
      OBVIOUS
    <3>3. R \in Seq(KidRec) /\ Distinct(R) /\ SumOf(R) = SumOf(K)
          /\ NodesOf(R) = (NodesOf(K) \ {K[i].node}) \cup {w}
      BY <2>2, <2>4, <2>5, <3>1, <3>2, KidRenamed
    <3> QED BY <2>4, <3>3 DEF R
  <2>7. k2[p] = WithNode(K, t, w)
    <3>1. k2[p] = k1[p]
      BY <1>4, <2>1
    <3>2. k1 = [k EXCEPT ![p] = WithNode(K, t, w)]
      BY <1>8, Zenon DEF Renamed
    <3> HIDE DEF p, K, k1, k2
    <3> QED BY <2>1, <3>1, <3>2
  <2> HIDE DEF K, k2
  <2> QED BY <2>2, <2>6, <2>7 DEF KidsFor
<1> HIDE DEF k2
<1> DEFINE a2 == Set(a, w, x)
<1> HIDE DEF a2
<1>9. a2 \in [DOMAIN k \cup {w} -> Axis]
  BY <1>3 DEF a2
<1>10. Forest(IF r = t THEN w ELSE r, a2, k2, Wrap(u, t, w), TopsWith(u, tops, t, w),
       thin \cup {w})
  BY <1>4, <1>6, <1>7, <1>8, <1>9, Wrapped, ZenonT(60)
<1> QED BY <1>10 DEF a2, k2

\* Children that are adopted once more stay where they are.
LEMMA ParentedAgain ==
  ASSUME NEW u, NEW p, NEW X
  PROVE  Parented(u, p, Children(u, p) \cup X) = Parented(u, p, X)
  BY DEF Parented, Children

\* A child that comes between t and its parent together with t.
LEMMA WrapParented ==
  ASSUME NEW u, NEW t \in DOMAIN u, NEW w, w \notin DOMAIN u, NEW X, w \notin X
  PROVE  Parented(Set(u, w, u[t]), w, {t} \cup X) = Parented(Wrap(u, t, w), w, X)
<1> DEFINE f == Parented(Set(u, w, u[t]), w, {t} \cup X)
           g == Parented(Wrap(u, t, w), w, X)
<1>1. DOMAIN f = DOMAIN u \cup {w} \cup X /\ DOMAIN g = DOMAIN u \cup {w} \cup X
  BY DEF Parented, Wrap, Set
<1>2. ASSUME NEW n \in DOMAIN f PROVE f[n] = g[n]
  BY <1>1 DEF Parented, Wrap, Set
<1> QED BY <1>1, <1>2 DEF Parented

\* The tops of a tree are its root.
LEMMA OneTop ==
  ASSUME NEW l, NEW thin, Grove(l, {l.root}, thin), NEW t \in DOMAIN l.up
  PROVE  /\ (l.up[t] = NoNode => l.root = t) /\ (l.root = t => l.up[t] = NoNode)
         /\ \A w : TopsWith(l.up, {l.root}, t, w) = {IF l.root = t THEN w ELSE l.root}
<1>1. {l.root} = {n \in DOMAIN l.up : l.up[n] = NoNode}
  BY GroveParts
<1>2. (l.up[t] = NoNode => l.root = t) /\ (l.root = t => l.up[t] = NoNode)
  BY <1>1
<1> QED BY <1>2 DEF TopsWith

\* The pair of children that split_leaf makes of a share.
LEMMA PairOf ==
  ASSUME NEW m \in Pane \cup Split, NEW n \in Pane \cup Split, m # n, NEW whole \in Nat, NEW K,
         \/ K = <<Kid(m, EarlierHalf(whole)), Kid(n, LaterHalf(whole))>>
         \/ K = <<Kid(n, EarlierHalf(whole)), Kid(m, LaterHalf(whole))>>
  PROVE  K \in Seq(KidRec) /\ Distinct(K) /\ NodesOf(K) = {m, n} /\ SumOf(K) = whole
<1> DEFINE x == EarlierHalf(whole)
           y == LaterHalf(whole)
<1>1. x \in Nat /\ y \in Nat /\ x + y = whole
  BY Halves
<1> HIDE DEF x, y
<1> DEFINE P == <<Kid(m, x), Kid(n, y)>>
           Q == <<Kid(n, x), Kid(m, y)>>
<1>2. P \in Seq(KidRec) /\ Distinct(P) /\ NodesOf(P) = {m, n} /\ SumOf(P) = whole
  <2> HIDE DEF Kid
  <2> QED BY <1>1, KidsTwo
<1>3. Q \in Seq(KidRec) /\ Distinct(Q) /\ NodesOf(Q) = {m, n} /\ SumOf(Q) = whole
  <2> HIDE DEF Kid
  <2> QED BY <1>1, KidsTwo
<1>4. K = P \/ K = Q
  BY DEF x, y
<1> HIDE DEF P, Q
<1> QED BY <1>2, <1>3, <1>4

\* A pane or a tree that hangs nowhere becomes a child of p, at the expense of one of its
\* children.
LEMMA Joined ==
  ASSUME NEW l, NEW tops, NEW thin, Grove(l, tops, thin),
         NEW x \in Pane \cup Split, x # l.root, x \in DOMAIN l.up => l.up[x] = NoNode,
         x \notin DOMAIN l.up => x \in Pane,
         NEW p \in DOMAIN l.kids, NEW A, Upward(l.up, A), p \in A, x \notin A,
         NEW K, KidsFor(K, Children(l.up, p) \cup {x})
  PROVE  /\ Adopt(l, p, K) = Lay(l.root, l.axis, Set(l.kids, p, K), Parented(l.up, p, {x}))
         /\ Grove(Adopt(l, p, K), tops \ {x}, thin \ {p})
<1>1. l = Lay(l.root, l.axis, l.kids, l.up)
  BY GroveParts
<1>2. K \in Seq(KidRec) /\ NodesOf(K) = Children(l.up, p) \cup {x}
  BY DEF KidsFor
<1> DEFINE r == l.root a == l.axis k == l.kids u == l.up
<1>0. Forest(r, a, k, u, tops, thin)
  BY DEF Grove
<1>00. p \in DOMAIN k /\ Upward(u, A) /\ (x \in DOMAIN u => u[x] = NoNode)
       /\ (x \notin DOMAIN u => x \in Pane)
       /\ x # r /\ KidsFor(K, Children(u, p) \cup {x}) /\ NodesOf(K) = Children(u, p) \cup {x}
       /\ l = Lay(r, a, k, u)
  BY <1>1, <1>2
<1> HIDE DEF r, a, k, u
<1>3. Adopt(l, p, K) = Lay(r, a, Set(k, p, K), Parented(u, p, {x}))
  BY <1>00, <1>2, AdoptParts, ParentedAgain
<1> DEFINE k2 == Set(k, p, K)
<1>4. DOMAIN k2 = DOMAIN k /\ k2[p] = K /\ \A s \in DOMAIN k : s # p => k2[s] = k[s]
  BY <1>00 DEF Set
<1> HIDE DEF k2
<1>5. Forest(r, a, k2, Parented(u, p, {x}), tops \ {x}, thin \ {p})
  BY <1>0, <1>00, <1>4, Attached
<1>6. Grove(Lay(r, a, k2, Parented(u, p, {x})), tops \ {x}, thin \ {p})
  BY <1>5, GroveOf
<1> QED BY <1>3, <1>6 DEF k2, r, a, k, u

\* split_leaf opens a pane beside or around the target, whose share is halved.
LEMMA SplitLeafGrove ==
  ASSUME NEW l, Grove(l, {l.root}, {}), SplitsNeverRunOut, NEW target \in DOMAIN l.up,
         NEW axis \in Axis,
         NEW pane \in Pane, pane \notin DOMAIN l.up, NEW insertion
  PROVE  LET m == SplitLeaf(l, target, axis, pane, insertion) IN
         Grove(m, {m.root}, {}) /\ Nodes(m) \cap Pane = (Nodes(l) \cap Pane) \cup {pane}
<1> DEFINE m == SplitLeaf(l, target, axis, pane, insertion)
           p == l.up[target]
           Pair(whole) == IF insertion = "BEFORE"
                          THEN <<Kid(pane, EarlierHalf(whole)), Kid(target, LaterHalf(whole))>>
                          ELSE <<Kid(target, EarlierHalf(whole)), Kid(pane, LaterHalf(whole))>>
<1>1. /\ l = Lay(l.root, l.axis, l.kids, l.up) /\ Nodes(l) = DOMAIN l.up
      /\ DOMAIN l.up \subseteq Pane \cup Split /\ DOMAIN l.kids = DOMAIN l.up \cap Split
      /\ l.root \in DOMAIN l.up /\ Upward(l.up, DOMAIN l.up) /\ NoNode \notin DOMAIN l.up
  BY GroveParts
<1>2. ASSUME NEW whole \in Nat
      PROVE  /\ Pair(whole) \in Seq(KidRec) /\ Distinct(Pair(whole))
                /\ NodesOf(Pair(whole)) = {pane, target}
             /\ SumOf(Pair(whole)) = whole
  <2> DEFINE K == Pair(whole)
  <2>1. \/ K = <<Kid(pane, EarlierHalf(whole)), Kid(target, LaterHalf(whole))>>
        \/ K = <<Kid(target, EarlierHalf(whole)), Kid(pane, LaterHalf(whole))>>
    OBVIOUS
  <2> HIDE DEF K
  <2>2. pane # target /\ pane \in Pane \cup Split /\ target \in Pane \cup Split
    BY <1>1
  <2>3. K \in Seq(KidRec) /\ Distinct(K) /\ NodesOf(K) = {pane, target} /\ SumOf(K) = whole
    BY <2>1, <2>2, PairOf
  <2> QED BY <2>3 DEF K
<1> HIDE DEF Pair
<1>3. CASE p # NoNode /\ l.axis[p] = axis
  <2> DEFINE i == ChildIndex(l, p, target)
             N == Pair(l.kids[p][i].share)
             K == Replace(l.kids[p], i, 1, N)
  <2>1. m = Adopt(l, p, K)
    BY <1>3, Zenon DEF SplitLeaf, Pair
  <2>2. /\ p \in DOMAIN l.kids /\ target \in Children(l.up, p) /\ i \in 1 .. Len(l.kids[p])
        /\ l.kids[p][i].node = target /\ l.kids[p][i].share \in Nat
    BY <1>3, GroveIndex
  <2> HIDE DEF i
  <2>3. KidsFor(l.kids[p], Children(l.up, p))
    BY <2>2, GroveKids
  <2>4. pane \notin Children(l.up, p)
    BY DEF Children
  <2>b. N \in Seq(KidRec) /\ Distinct(N) /\ NodesOf(N) = {pane, target}
        /\ SumOf(N) = l.kids[p][i].share
    BY <1>2, <2>2
  <2> HIDE DEF N
  <2>5. KidsFor(K, (Children(l.up, p) \ {target}) \cup {pane, target})
    <3>1. NodesOf(N) \cap Children(l.up, p) \subseteq {l.kids[p][i].node}
      BY <2>2, <2>4, <2>b
    <3>2. KidsFor(K, (Children(l.up, p) \ {l.kids[p][i].node}) \cup NodesOf(N))
      BY <2>2, <2>3, <2>b, <3>1, KidTraded
    <3> QED BY <2>2, <2>b, <3>2
  <2>6. (Children(l.up, p) \ {target}) \cup {pane, target} = Children(l.up, p) \cup {pane}
    BY <2>2
  <2>7. KidsFor(K, Children(l.up, p) \cup {pane})
    BY <2>5, <2>6
  <2> HIDE DEF K
  <2>a. pane # l.root /\ pane \in Pane \cup Split /\ p \in DOMAIN l.up
    BY <1>1, <2>2
  <2>8. /\ Adopt(l, p, K) = Lay(l.root, l.axis, Set(l.kids, p, K), Parented(l.up, p, {pane}))
        /\ Grove(Adopt(l, p, K), {l.root} \ {pane}, {} \ {p})
    BY <1>1, <2>2, <2>7, <2>a, Joined
  <2>9. m.root = l.root /\ Nodes(m) = DOMAIN l.up \cup {pane}
    BY <2>1, <2>8, LayParts DEF Parented
  <2>10. {l.root} \ {pane} = {l.root} /\ {} \ {p} = {}
    BY <2>a
  <2> HIDE DEF m
  <2>11. Grove(m, {m.root}, {})
    BY <2>1, <2>8, <2>9, <2>10
  <2>12. Nodes(m) \cap Pane = (Nodes(l) \cap Pane) \cup {pane}
    BY <1>1, <2>9
  <2> QED BY <2>11, <2>12 DEF m
<1>4. CASE ~(p # NoNode /\ l.axis[p] = axis)
  <2> DEFINE s == FreshSplit(l)
             r2 == IF l.root = target THEN s ELSE l.root
             k1 == Renamed(l.kids, l.up, target, s)
             K == Pair(Full)
             u1 == Wrap(l.up, target, s)
             L == Lay(r2, Set(l.axis, s, axis), Set(k1, s, <<Kid(target, Full)>>), u1)
  <2>1. s \in Split /\ s \notin DOMAIN l.up /\ s # pane
    BY <1>1, FreshSplitIsNew, SplitAssumption
  <2>2. m = NewSplit(TakePlace(l, target, s), s, axis, K)
    BY <1>4, Zenon DEF SplitLeaf, Pair
  <2> HIDE DEF s, m
  <2>3. TakePlace(l, target, s) = Lay(r2, l.axis, k1, Set(l.up, s, p))
    <3>1. (l.up[target] = NoNode => l.root = target) /\ (l.root = target => l.up[target] = NoNode)
      BY OneTop
    <3>2. TakePlace(Lay(l.root, l.axis, l.kids, l.up), target, s)
          = Lay(r2, l.axis, k1, Set(l.up, s, p))
      BY <3>1, TakePlaceParts
    <3> QED BY <1>1, <3>2
  <2>4. K \in Seq(KidRec) /\ Distinct(K) /\ NodesOf(K) = {target} \cup {pane} /\ SumOf(K) = Full
    BY <1>2, FullAssumption
  <2> HIDE DEF K
  <2>5. m = Lay(r2, Set(l.axis, s, axis), Set(k1, s, K), Parented(u1, s, {pane}))
    <3> DEFINE u3 == Set(l.up, s, p)
    <3>0. K \in Seq(KidRec)
      BY <2>4
    <3>2. Parented(u3, s, {target} \cup {pane}) = Parented(u1, s, {pane})
      <4>1. s \notin {pane} /\ s \notin DOMAIN l.up
        BY <2>1
      <4> HIDE DEF p, u3, u1
      <4>2. Parented(Set(l.up, s, l.up[target]), s, {target} \cup {pane})
            = Parented(Wrap(l.up, target, s), s, {pane})
        BY <4>1, WrapParented, SMTT(30)
      <4> QED BY <4>2 DEF u3, u1, p
    <3> HIDE DEF k1, r2, u3, u1
    <3>1. NewSplit(Lay(r2, l.axis, k1, u3), s, axis, K)
            = Lay(r2, Set(l.axis, s, axis), Set(k1, s, K), Parented(u3, s, NodesOf(K)))
      BY <3>0, NewSplitParts
    <3>3. TakePlace(l, target, s) = Lay(r2, l.axis, k1, u3)
      BY <2>3 DEF u3
    <3> QED BY <2>2, <2>4, <3>1, <3>2, <3>3
  <2>6. Forest(l.root, l.axis, l.kids, l.up, {l.root}, {})
    BY DEF Grove
  <2>7. Forest(r2, Set(l.axis, s, axis), Set(k1, s, <<Kid(target, Full)>>), u1,
        TopsWith(l.up, {l.root}, target, s), {} \cup {s})
    BY <2>1, <2>6, WrappedForest
  <2>8. TopsWith(l.up, {l.root}, target, s) = {r2}
    BY OneTop
  <2> DEFINE k2 == Set(k1, s, <<Kid(target, Full)>>)
             a2 == Set(l.axis, s, axis)
             k3 == Set(k1, s, K)
  <2>9. s \in DOMAIN k2 /\ DOMAIN k3 = DOMAIN k2 /\ k3[s] = K /\ k2[s] = <<Kid(target, Full)>>
        /\ \A q \in DOMAIN k2 : q # s => k3[q] = k2[q]
    <3> HIDE DEF k1
    <3> QED BY DEF Set
  <2>10. DOMAIN u1 = DOMAIN l.up \cup {s}
    BY DEF Wrap
  <2> HIDE DEF k1, k2, a2, k3, u1, r2
  <2>11. Forest(r2, a2, k2, u1, {r2}, {s})
    <3>1. {} \cup {s} = {s}
      OBVIOUS
    <3> QED BY <2>7, <2>8, <3>1 DEF a2, k2
  <2>12. Children(u1, s) = {target}
    <3>1. KidsFor(k2[s], Children(u1, s))
      BY <2>9, <2>11 DEF Forest
    <3>2. NodesOf(<<Kid(target, Full)>>) = {target}
      <4> HIDE DEF Kid
      <4> QED BY <1>1, KidsOne, FullAssumption
    <3> QED BY <2>9, <3>1, <3>2 DEF KidsFor
  <2>13. KidsFor(k3[s], Children(u1, s) \cup {pane})
    BY <2>4, <2>9, <2>12 DEF KidsFor
  <2>14. /\ pane \in Pane \cup Split /\ pane # r2 /\ pane \notin DOMAIN u1 /\ s \in DOMAIN u1
         /\ Upward(u1, DOMAIN u1)
    <3>1. r2 \in DOMAIN u1 /\ u1 \in [DOMAIN u1 -> DOMAIN k2 \cup {NoNode}]
          /\ DOMAIN k2 = DOMAIN u1 \cap Split
      BY <2>11 DEF Forest
    <3> QED BY <1>1, <2>1, <2>10, <3>1 DEF Upward
  <2>15. Forest(r2, a2, k3, Parented(u1, s, {pane}), {r2} \ {pane}, {s} \ {s})
    BY <2>9, <2>11, <2>13, <2>14, Attached
  <2>16. {r2} \ {pane} = {r2} /\ {s} \ {s} = {}
    BY <2>14
  <2>17. m = Lay(r2, a2, k3, Parented(u1, s, {pane}))
    BY <2>5 DEF a2, k3
  <2>18. Grove(m, {r2}, {})
    BY <2>15, <2>16, <2>17, GroveOf
  <2>19. m.root = r2 /\ Nodes(m) = DOMAIN l.up \cup {s} \cup {pane}
    BY <2>10, <2>17, LayParts DEF Parented
  <2>20. Nodes(m) \cap Pane = (Nodes(l) \cap Pane) \cup {pane}
    BY <1>1, <2>1, <2>19, SplitAssumption
  <2> QED BY <2>18, <2>19, <2>20 DEF m
<1> QED BY <1>3, <1>4

-----------------------------------------------------------------------------
(* Splits that dissolve *)

\* Another node takes the place of a child.
LEMMA KidWithOther ==
  ASSUME NEW K, NEW S, KidsFor(K, S), NEW t \in S, NEW w \in Pane \cup Split, w \notin S
  PROVE  KidsFor(WithNode(K, t, w), (S \ {t}) \cup {w})
<1> DEFINE i == IndexIn(K, t)
           R == WithNode(K, t, w)
<1>1. K \in Seq(KidRec) /\ Distinct(K) /\ NodesOf(K) = S /\ SumOf(K) = Full
  BY DEF KidsFor
<1>2. i \in 1 .. Len(K) /\ K[i].node = t
  BY <1>1, KidIndex DEF IndexIn
<1>3. R = PutNode(K, i, w)
  BY DEF WithNode
<1> HIDE DEF i, R
<1>4. R \in Seq(KidRec) /\ Distinct(R) /\ SumOf(R) = SumOf(K)
      /\ NodesOf(R) = (NodesOf(K) \ {K[i].node}) \cup {w}
  BY <1>1, <1>2, <1>3, KidRenamed
<1>5. KidsFor(R, (S \ {t}) \cup {w})
  BY <1>1, <1>2, <1>4 DEF KidsFor
<1> QED BY <1>5 DEF R

\* Splits X below s, one below the other perhaps, give their children to s and are gone.
LEMMA Dissolved ==
  ASSUME NEW r, NEW a, NEW k, NEW u, NEW tops, NEW thin, Forest(r, a, k, u, tops, thin),
         NEW s \in DOMAIN k, NEW X, X \subseteq DOMAIN k, s \notin X,
         \A n \in X : u[n] \in X \cup {s},
         NEW N, N = {n \in DOMAIN u \ X : u[n] = s \/ u[n] \in X}, N # {}, s \notin thin
         => Several(N),
         NEW a2, a2 \in [DOMAIN k \ X -> Axis],
         NEW k2, DOMAIN k2 = DOMAIN k \ X, \A p \in DOMAIN k2 : p # s => k2[p] = k[p],
         KidsFor(k2[s], N)
  PROVE  Forest(r, a2, k2, Lifted(u, X, s), tops, thin)
<1> DEFINE u2 == Lifted(u, X, s)
<1>0. /\ IsFiniteSet(DOMAIN u) /\ DOMAIN u \subseteq Pane \cup Split
         /\ DOMAIN k = DOMAIN u \cap Split
      /\ u \in [DOMAIN u -> DOMAIN k \cup {NoNode}] /\ Rooted(u)
      /\ tops = {n \in DOMAIN u : u[n] = NoNode} /\ r \in tops
  BY DEF Forest
<1>1. /\ \A p \in DOMAIN k : KidsFor(k[p], Children(u, p))
      /\ \A p \in DOMAIN k : Children(u, p) # {} /\ (p \notin thin => Several(Children(u, p)))
  BY DEF Forest
<1>2. /\ DOMAIN u2 = DOMAIN u \ X
      /\ \A n \in DOMAIN u2 : u2[n] = IF u[n] \in X THEN s ELSE u[n]
  BY DEF Lifted
<1>b. s # NoNode /\ NoNode \notin X /\ s \in DOMAIN u /\ \A n \in X : u[n] # NoNode
  BY <1>0, NoNodeAssumption
<1>3. IsFiniteSet(DOMAIN u2)
  BY <1>0, <1>2, FS_Subset
<1>4. DOMAIN u2 \subseteq Pane \cup Split /\ DOMAIN k2 = DOMAIN u2 \cap Split
  BY <1>0, <1>2
<1>5. u2 \in [DOMAIN u2 -> DOMAIN k2 \cup {NoNode}]
  BY <1>0, <1>2 DEF Lifted
<1> HIDE DEF u2
<1>6. Rooted(u2)
  <2> SUFFICES ASSUME NEW C, C \subseteq DOMAIN u2, \A n \in C : u2[n] \in C PROVE C = {}
    BY DEF Rooted
  <2> DEFINE D == C \cup {x \in X : s \in C}
  <2>1. D \subseteq DOMAIN u
    BY <1>0, <1>2
  <2>2. ASSUME NEW n \in D PROVE u[n] \in D
    BY <1>2
  <2>3. D = {}
    BY <1>0, <2>1, <2>2 DEF Rooted
  <2> QED BY <2>3
<1>7. tops = {n \in DOMAIN u2 : u2[n] = NoNode}
  BY <1>0, <1>2, <1>b
<1>8. Children(u2, s) = N
  BY <1>2 DEF Children
<1>9. ASSUME NEW p \in DOMAIN k2, p # s PROVE Children(u2, p) = Children(u, p)
  <2>1. ASSUME NEW n \in Children(u, p) PROVE n \in Children(u2, p)
    <3>1. n \in DOMAIN u /\ u[n] = p /\ p \notin X
      BY <1>4, <1>2 DEF Children
    <3>2. n \notin X
      BY <1>9, <3>1
    <3> QED BY <1>2, <3>1, <3>2 DEF Children
  <2>2. ASSUME NEW n \in Children(u2, p) PROVE n \in Children(u, p)
    BY <1>2, <1>9 DEF Children
  <2> QED BY <2>1, <2>2
<1>10. \A p \in DOMAIN k2 : KidsFor(k2[p], Children(u2, p))
  BY <1>1, <1>8, <1>9
<1>11. ASSUME NEW p \in DOMAIN k2
       PROVE  Children(u2, p) # {} /\ (p \notin thin => Several(Children(u2, p)))
  <2>1. CASE p # s
    BY <1>1, <1>9, <2>1
  <2>2. CASE p = s
    BY <1>8, <2>2
  <2> QED BY <2>1, <2>2
<1>12. Forest(r, a2, k2, u2, tops, thin)
  BY <1>0, <1>3, <1>4, <1>5, <1>6, <1>7, <1>10, <1>11 DEF Forest
<1> QED BY <1>12 DEF u2

\* The same, of layouts.
LEMMA DissolvedGrove ==
  ASSUME NEW l, NEW tops, NEW thin, Grove(l, tops, thin), NEW s \in DOMAIN l.kids,
         NEW X, X \subseteq DOMAIN l.kids, s \notin X, \A n \in X : l.up[n] \in X \cup {s},
         NEW N, N = {n \in DOMAIN l.up \ X : l.up[n] = s \/ l.up[n] \in X},
         N # {}, s \notin thin => Several(N), NEW K, KidsFor(K, N)
  PROVE  LET m == Erase(Adopt(l, s, K), X) IN
         /\ Grove(m, tops, thin) /\ m.root = l.root /\ Nodes(m) = Nodes(l) \ X
         /\ m.up = Lifted(l.up, X, s) /\ DOMAIN m.kids = DOMAIN l.kids \ X /\ m.kids[s] = K
         /\ \A q \in DOMAIN m.kids : m.axis[q] = l.axis[q] /\ (q # s => m.kids[q] = l.kids[q])
<1> DEFINE r == l.root a == l.axis k == l.kids u == l.up
           m == Erase(Adopt(l, s, K), X)
<1>0. /\ Forest(r, a, k, u, tops, thin) /\ s \in DOMAIN k /\ X \subseteq DOMAIN k
      /\ \A n \in X : u[n] \in X \cup {s}
      /\ N = {n \in DOMAIN u \ X : u[n] = s \/ u[n] \in X} /\ l = Lay(r, a, k, u)
      /\ DOMAIN k \subseteq DOMAIN u /\ DOMAIN a = DOMAIN k /\ a \in [DOMAIN k -> Axis]
         /\ Nodes(l) = DOMAIN u
  BY GroveParts DEF Grove
<1> HIDE DEF r, a, k, u, m
<1> DEFINE u1 == Parented(u, s, N)
           D == DOMAIN u1 \ X
           k2 == Keep(Set(k, s, K), D)
           a2 == Keep(a, D)
<1>1. K \in Seq(KidRec) /\ NodesOf(K) = N
  BY DEF KidsFor
<1>2. m = Lay(r, a2, k2, Keep(u1, D))
  <2> HIDE DEF u1
  <2>1. Adopt(l, s, K) = Lay(r, a, Set(k, s, K), u1)
    <3>1. Adopt(Lay(r, a, k, u), s, K) = Lay(r, a, Set(k, s, K), Parented(u, s, NodesOf(K)))
      <4>1. K \in Seq(KidRec)
        BY <1>1
      <4> HIDE DEF D, k2, a2
      <4> QED BY <4>1, AdoptParts
    <3>2. l = Lay(r, a, k, u) /\ NodesOf(K) = N
      BY <1>0, <1>1
    <3> QED BY <3>1, <3>2, Zenon DEF u1
  <2> DEFINE k1 == Set(k, s, K)
  <2> HIDE DEF k1
  <2>2. m = Erase(Lay(r, a, k1, u1), X)
    BY <2>1 DEF m, k1
  <2>3. m = Lay(r, Keep(a, DOMAIN u1 \ X), Keep(k1, DOMAIN u1 \ X), Keep(u1, DOMAIN u1 \ X))
    BY <2>2, EraseParts
  <2> QED BY <2>3 DEF k1
<1>3. DOMAIN u1 = DOMAIN u
  BY <1>0 DEF Parented
<1>4. Keep(u1, D) = Lifted(u, X, s)
  <2> DEFINE f == Keep(u1, D)
             g == Lifted(u, X, s)
  <2>1. DOMAIN f = DOMAIN u \ X /\ DOMAIN g = DOMAIN u \ X
    BY <1>3 DEF Keep, Lifted
  <2>2. ASSUME NEW n \in DOMAIN u \ X PROVE f[n] = g[n]
    BY <1>0, <1>3 DEF Keep, Lifted, Parented
  <2> QED BY <2>1, <2>2 DEF Keep, Lifted
<1>5. /\ DOMAIN k2 = DOMAIN k \ X /\ k2[s] = K /\ \A p \in DOMAIN k2 : p # s => k2[p] = k[p]
      /\ a2 \in [DOMAIN k \ X -> Axis] /\ \A p \in DOMAIN k2 : a2[p] = a[p]
  <2> HIDE DEF u1
  <2>1. D = DOMAIN u \ X
    BY <1>3
  <2> HIDE DEF D
  <2>2. DOMAIN k2 = DOMAIN k \ X
    BY <1>0, <2>1 DEF Keep, Set
  <2>3. k2[s] = K /\ \A p \in DOMAIN k2 : p # s => k2[p] = k[p]
    BY <1>0, <2>1 DEF Keep, Set
  <2>4. a2 \in [DOMAIN k \ X -> Axis] /\ \A p \in DOMAIN k2 : a2[p] = a[p]
    BY <1>0, <2>1, <2>2 DEF Keep
  <2> QED BY <2>2, <2>3, <2>4
<1> HIDE DEF k2, a2, u1, D
<1>6. Forest(r, a2, k2, Lifted(u, X, s), tops, thin)
  <2>1. KidsFor(k2[s], N)
    BY <1>5
  <2>2. /\ s \in DOMAIN k /\ X \subseteq DOMAIN k /\ DOMAIN k2 = DOMAIN k \ X
        /\ \A p \in DOMAIN k2 : p # s => k2[p] = k[p]
        /\ a2 \in [DOMAIN k \ X -> Axis]
    BY <1>0, <1>5
  <2>3. Forest(r, a, k, u, tops, thin) /\ (\A n \in X : u[n] \in X \cup {s})
        /\ N = {n \in DOMAIN u \ X : u[n] = s \/ u[n] \in X}
    BY <1>0
  <2> QED BY <2>1, <2>2, <2>3, Dissolved, SMTT(30)
<1>7. m = Lay(r, a2, k2, Lifted(u, X, s))
  BY <1>2, <1>4
<1>8. Grove(m, tops, thin)
  BY <1>6, <1>7, GroveOf
<1>9. m.root = r /\ m.axis = a2 /\ m.kids = k2 /\ m.up = Lifted(u, X, s)
      /\ Nodes(m) = DOMAIN u \ X
  BY <1>7, LayParts DEF Lifted
<1> QED BY <1>0, <1>5, <1>8, <1>9 DEF r, a, k, u, m

\* A split with one child is gone and the child stands in its place.
LEMMA ReplacedByChild ==
  ASSUME NEW l, NEW thin, Grove(l, {l.root}, thin), NEW s \in DOMAIN l.kids, NEW c,
         Children(l.up, s) = {c}
  PROVE  LET m == Erase(TakePlace(l, s, c), {s}) IN
         Grove(m, {m.root}, thin) /\ Nodes(m) = Nodes(l) \ {s}
<1> DEFINE r == l.root a == l.axis k == l.kids u == l.up g == u[s]
           m == Erase(TakePlace(l, s, c), {s})
<1>0. /\ Forest(r, a, k, u, {r}, thin) /\ s \in DOMAIN k /\ l = Lay(r, a, k, u)
      /\ DOMAIN k = DOMAIN u \cap Split /\ DOMAIN u \subseteq Pane \cup Split /\ s \in DOMAIN u
      /\ a \in [DOMAIN k -> Axis] /\ Nodes(l) = DOMAIN u
      /\ u \in [DOMAIN u -> DOMAIN k \cup {NoNode}] /\ NoNode \notin DOMAIN u
  BY GroveParts DEF Grove
<1>1. (g = NoNode => r = s) /\ (r = s => g = NoNode)
  BY <1>0, OneTop
<1>2. c \in DOMAIN u /\ u[c] = s /\ c # s /\ s \notin Children(u, s)
  <2>1. s \notin Children(u, s)
    BY <1>0, GroveKids
  <2> QED BY <2>1 DEF Children
<1>3. Children(u, s) = {c}
  OBVIOUS
<1>a. \A n \in DOMAIN u : u[n] = s => n = c
  BY <1>3 DEF Children
<1> HIDE DEF r, a, k, u, m, g
<1> DEFINE k1 == Renamed(k, u, s, c)
           u1 == Set(u, c, g)
           D == DOMAIN u \ {s}
           r2 == IF r = s THEN c ELSE r
<1>4. g = u[s]
  BY DEF g
<1>5. m = Lay(r2, Keep(a, D), Keep(k1, D), Keep(u1, D))
  <2>1. TakePlace(Lay(r, a, k, u), s, c) = Lay(r2, a, k1, u1)
    BY <1>1, <1>4, TakePlaceParts
  <2>2. DOMAIN u1 = DOMAIN u
    BY <1>2 DEF Set
  <2> HIDE DEF k1, u1, r2
  <2>3. Erase(Lay(r2, a, k1, u1), {s})
        = Lay(r2, Keep(a, DOMAIN u1 \ {s}), Keep(k1, DOMAIN u1 \ {s}), Keep(u1, DOMAIN u1 \ {s}))
    BY EraseParts
  <2> QED BY <1>0, <2>1, <2>2, <2>3 DEF m
<1> DEFINE a2 == Keep(a, D)
           k2 == Keep(k1, D)
           u2 == Keep(u1, D)
<1>6. a2 \in [DOMAIN k \ {s} -> Axis]
  BY <1>0 DEF Keep
<1>7. DOMAIN k2 = DOMAIN k \ {s} /\ \A p \in DOMAIN k2 : k2[p] = k1[p]
  <2>1. DOMAIN k1 = DOMAIN k
    BY DEF Renamed
  <2> HIDE DEF k1
  <2> QED BY <1>0, <2>1 DEF Keep
<1>8. DOMAIN u2 = DOMAIN u \ {s} /\ u2[c] = g /\ \A n \in DOMAIN u2 : n # c => u2[n] = u[n]
  BY <1>2 DEF Keep, Set
<1>b. u2 \in [DOMAIN u \ {s} -> DOMAIN k \cup {NoNode}]
  BY <1>0, <1>2, <1>4 DEF Keep, Set
<1>9. CASE g = NoNode
  <2>1. r = s /\ k1 = k /\ r2 = c
    BY <1>1, <1>4, <1>9 DEF Renamed
  <2>2. \A p \in DOMAIN k2 : k2[p] = k[p]
    BY <1>7, <2>1
  <2>3. u2 = Loosened(Without(u, {s}), {c})
    <3>1. \A n \in DOMAIN u \ {s} : u2[n] = Loosened(Without(u, {s}), {c})[n]
      BY <1>8, <1>9 DEF Loosened, Without
    <3>2. DOMAIN Loosened(Without(u, {s}), {c}) = DOMAIN u \ {s}
      BY DEF Loosened, Without
    <3> HIDE DEF u2
    <3> QED BY <1>b, <3>1, <3>2 DEF Loosened
  <2> HIDE DEF a2, k2, u2, k1, r2, D
  <2>4. Forest(c, a2, k2, u2, ({r} \ {r}) \cup {c}, thin)
    BY <1>0, <1>3, <1>6, <1>7, <2>1, <2>2, <2>3, RootDropped, SMTT(30)
  <2>5. ({r} \ {r}) \cup {c} = {c}
    OBVIOUS
  <2>6. m = Lay(c, a2, k2, u2)
    BY <1>5, <2>1 DEF a2, k2, u2
  <2>7. Grove(m, {c}, thin)
    BY <2>4, <2>5, <2>6, GroveOf
  <2>8. m.root = c /\ Nodes(m) = DOMAIN u \ {s}
    BY <1>8, <2>6, LayParts
  <2> QED BY <1>0, <2>7, <2>8 DEF m
<1>10. CASE g # NoNode
  <2>1. r # s /\ r2 = r /\ g \in DOMAIN k /\ g # s /\ s \in Children(u, g)
    <3>1. g # s
      BY <1>0, <1>2, <1>4 DEF Children
    <3>2. s \in Children(u, g)
      BY <1>0, <1>4 DEF Children
    <3> QED BY <1>0, <1>1, <1>4, <1>10, <3>1, <3>2
  <2>2. k1 = [k EXCEPT ![g] = WithNode(k[g], s, c)]
    BY <1>4, <1>10 DEF Renamed
  <2> DEFINE K == WithNode(k[g], s, c)
  <2>3. k1[g] = K /\ \A p \in DOMAIN k : p # g => k1[p] = k[p]
    <3>1. k1 = [k EXCEPT ![g] = K]
      BY <2>2
    <3> HIDE DEF K, k1
    <3> QED BY <2>1, <3>1
  <2>4. KidsFor(k[g], Children(u, g))
    BY <1>0, <2>1 DEF Forest
  <2>5. c \notin Children(u, g)
    BY <1>2, <2>1 DEF Children
  <2>6. KidsFor(K, (Children(u, g) \ {s}) \cup {c})
    BY <1>0, <1>2, <2>1, <2>4, <2>5, KidWithOther
  <2>7. (Children(u, g) \ {s}) \cup {c} = (Children(u, g) \ {s})
        \cup {n \in DOMAIN u : u[n] \in {s}}
    BY <1>2, <1>a
  <2>8. k2[g] = K /\ \A p \in DOMAIN k2 : p # g => k2[p] = k[p]
    BY <1>7, <2>1, <2>3
  <2>9. u2 = Lifted(u, {s}, g)
    <3>1. \A n \in DOMAIN u \ {s} : u2[n] = Lifted(u, {s}, g)[n]
      BY <1>2, <1>a, <1>8 DEF Lifted
    <3>2. DOMAIN Lifted(u, {s}, g) = DOMAIN u \ {s}
      BY DEF Lifted
    <3> HIDE DEF u2
    <3> QED BY <1>b, <3>1, <3>2 DEF Lifted
  <2> HIDE DEF a2, k2, u2, k1, r2, D, K
  <2>10. KidsFor(k2[g], (Children(u, g) \ {s}) \cup {n \in DOMAIN u : u[n] \in {s}})
    BY <2>6, <2>7, <2>8
  <2>11. Forest(r, a2, k2, u2, {r}, thin)
    <3>1. {s} \subseteq Children(u, g) /\ {s} \subseteq DOMAIN k
      BY <1>0, <2>1
    <3> QED BY <1>0, <1>6, <1>7, <2>1, <2>8, <2>9, <2>10, <3>1, Spliced
  <2>12. m = Lay(r, a2, k2, u2)
    BY <1>5, <2>1 DEF a2, k2, u2
  <2>13. Grove(m, {r}, thin)
    BY <2>11, <2>12, GroveOf
  <2>14. m.root = r /\ Nodes(m) = DOMAIN u \ {s}
    BY <1>8, <2>12, LayParts
  <2> QED BY <1>0, <2>13, <2>14 DEF m
<1> QED BY <1>9, <1>10

\* Children with shares that add up to the whole.
LEMMA NormalizedKids ==
  ASSUME NEW K \in Seq(KidRec), Distinct(K), NodesOf(K) # {}
  PROVE  KidsFor(Normalized(K), NodesOf(K)) /\ KidNodes(Normalized(K)) = KidNodes(K)
<1>1. Len(K) # 0 /\ Full \in Nat
  BY KidsNone, FullAssumption
<1> DEFINE M == ScaledTo(K, Full)
<1>2. /\ M \in Seq(KidRec) /\ Distinct(M) /\ NodesOf(M) = NodesOf(K) /\ SumOf(M) = Full
      /\ KidNodes(M) = KidNodes(K)
  BY <1>1, KidsScaled
<1>3. Normalized(K) = M
  BY DEF Normalized
<1> HIDE DEF M
<1> QED BY <1>2, <1>3 DEF KidsFor

\* dissolve_unary_split, where it is called: no split with one child is left.
LEMMA DissolveIfUnaryGrove ==
  ASSUME NEW l, NEW thin, Grove(l, {l.root}, thin), NEW s \in DOMAIN l.kids, thin \subseteq {s}
  PROVE  LET m == DissolveIfUnary(l, s) IN
         Grove(m, {m.root}, {}) /\ Nodes(m) \cap Pane = Nodes(l) \cap Pane
<1> DEFINE m == DissolveIfUnary(l, s)
           K == l.kids[s]
<1>1. /\ K \in Seq(KidRec) /\ Distinct(K) /\ NodesOf(K) = Children(l.up, s)
         /\ Children(l.up, s) # {}
      /\ s \notin Children(l.up, s)
  BY GroveKids
<1>2. Len(K) \in Nat /\ (Len(K) >= 2 <=> \E x, y \in NodesOf(K) : x # y)
      /\ (Len(K) = 1 => NodesOf(K) = {K[1].node})
      /\ Len(K) # 0
  <2> HIDE DEF K
  <2> QED BY <1>1, KidsLength
<1>3. /\ DOMAIN l.kids = DOMAIN l.up \cap Split /\ Nodes(l) = DOMAIN l.up
         /\ DOMAIN l.axis = DOMAIN l.kids
      /\ NoNode \notin DOMAIN l.up
  BY GroveParts
<1>4. CASE Len(K) # 1
  <2>1. m = l
    BY <1>4 DEF DissolveIfUnary
  <2>2. Several(Children(l.up, s))
    <3>0. Len(K) \in Nat /\ Len(K) # 0
      BY <1>2
    <3>1. Len(K) >= 2
      <4> DEFINE n == Len(K)
      <4>1. n \in Nat /\ n # 0 /\ n # 1
        BY <3>0, <1>4
      <4> HIDE DEF n
      <4>2. n >= 2
        BY <4>1
      <4> QED BY <4>2 DEF n
    <3>2. \E x, y \in NodesOf(K) : x # y
      <4> HIDE DEF K
      <4> QED BY <1>1, <3>1, KidsLength
    <3> QED BY <1>1, <3>2 DEF Several
  <2>3. Grove(l, {l.root}, {})
    BY <2>2, NotThin DEF Grove
  <2> QED BY <2>1, <2>3
<1>5. CASE Len(K) = 1
  <2> DEFINE c == l.kids[s][1].node
             g == l.up[s]
             i == ChildIndex(l, g, s)
  <2>1. Children(l.up, s) = {c}
    BY <1>1, <1>2, <1>5
  <2>2. c \in DOMAIN l.up /\ l.up[c] = s /\ c # s /\ s \in DOMAIN l.up /\ s \in Split
        /\ s # NoNode
        /\ \A n \in DOMAIN l.up : l.up[n] = s => n = c
    BY <1>1, <1>3, <2>1 DEF Children
  <2>3. m = Dissolve(l, s)
    BY <1>5 DEF DissolveIfUnary
  <2>4. CASE g # NoNode /\ ~IsLeaf(l, c) /\ l.axis[c] = l.axis[g]
    <3> DEFINE M == ScaledTo(l.kids[c], l.kids[g][i].share)
               R == Replace(l.kids[g], i, 1, M)
               X == {c, s}
               N == {n \in DOMAIN l.up \ X : l.up[n] = g \/ l.up[n] \in X}
    <3>1. m = Erase(Adopt(l, g, R), X)
      BY <2>3, <2>4, Zenon DEF Dissolve
    <3>2. /\ g \in DOMAIN l.kids /\ s \in Children(l.up, g) /\ i \in 1 .. Len(l.kids[g])
          /\ l.kids[g][i].node = s /\ l.kids[g][i].share \in Nat
      BY <2>2, <2>4, GroveIndex
    <3>3. c \in DOMAIN l.kids
      BY <2>2, <2>4, GroveParts
    <3>4. /\ l.kids[c] \in Seq(KidRec) /\ Distinct(l.kids[c])
             /\ NodesOf(l.kids[c]) = Children(l.up, c)
          /\ Children(l.up, c) # {} /\ Several(Children(l.up, c)) /\ c \notin Children(l.up, c)
      BY <2>2, <3>3, GroveKids
    <3>5. KidsFor(l.kids[g], Children(l.up, g)) /\ g \notin Children(l.up, g)
      BY <3>2, GroveKids
    <3>6. g # s /\ g # c
      <4>1. g # s
        BY <3>2, <3>5
      <4>2. ASSUME g = c PROVE FALSE
        <5>1. Rooted(l.up)
          BY DEF Grove, Forest
        <5>2. {c, s} \in SUBSET DOMAIN l.up /\ \A n \in {c, s} : l.up[n] \in {c, s}
          BY <2>2, <4>2
        <5> QED BY <5>1, <5>2 DEF Rooted
      <4> QED BY <4>1, <4>2
    <3> HIDE DEF i
    <3>7. M \in Seq(KidRec) /\ Distinct(M) /\ NodesOf(M) = Children(l.up, c)
          /\ SumOf(M) = l.kids[g][i].share
      <4>1. Len(l.kids[c]) # 0
        BY <3>4, KidsNone
      <4> QED BY <3>2, <3>4, <4>1, KidsScaled
    <3>8. N = (Children(l.up, g) \ {s}) \cup Children(l.up, c)
      BY <2>2, <3>3, <3>4, <3>6 DEF Children
    <3>9. NodesOf(M) \cap Children(l.up, g) \subseteq {l.kids[g][i].node}
      BY <3>6, <3>7 DEF Children
    <3> HIDE DEF M
    <3>10. KidsFor(R, N)
      <4>1. KidsFor(R, (Children(l.up, g) \ {l.kids[g][i].node}) \cup NodesOf(M))
        BY <3>2, <3>5, <3>7, <3>9, KidTraded
      <4> QED BY <3>2, <3>7, <3>8, <4>1
    <3>11. N # {} /\ Several(N)
      BY <3>4, <3>8 DEF Several
    <3>12. X \subseteq DOMAIN l.kids /\ g \notin X /\ \A n \in X : l.up[n] \in X \cup {g}
      BY <2>2, <3>3, <3>6
    <3>13. N = {n \in DOMAIN l.up \ X : l.up[n] = g \/ l.up[n] \in X}
      OBVIOUS
    <3> HIDE DEF R, X, N, m
    <3>14. Grove(m, {l.root}, thin) /\ m.root = l.root /\ Nodes(m) = Nodes(l) \ X
           /\ DOMAIN m.kids = DOMAIN l.kids \ X
      <4> DEFINE m1 == Erase(Adopt(l, g, R), X)
      <4>1. Grove(m1, {l.root}, thin) /\ m1.root = l.root /\ Nodes(m1) = Nodes(l) \ X
            /\ DOMAIN m1.kids = DOMAIN l.kids \ X
        <5>1. g \in DOMAIN l.kids /\ X \subseteq DOMAIN l.kids /\ g \notin X
          BY <3>2, <3>12
        <5>2. \A n \in X : l.up[n] \in X \cup {g}
          BY <3>12
        <5> HIDE DEF g
        <5> QED BY <5>1, <5>2, <3>10, <3>11, <3>13, DissolvedGrove
      <4> QED BY <3>1, <4>1
    <3>15. s \in X /\ X \cap Pane = {}
      BY <1>3, <2>2, <3>3, SplitAssumption DEF X
    <3>16. Grove(m, {l.root}, {})
      BY <3>14, <3>15, NotThin DEF Grove
    <3> QED BY <3>14, <3>15, <3>16 DEF m
  <2>5. CASE ~(g # NoNode /\ ~IsLeaf(l, c) /\ l.axis[c] = l.axis[g])
    <3>1. m = Erase(TakePlace(l, s, c), {s})
      BY <2>3, <2>5, Zenon DEF Dissolve
    <3> HIDE DEF m, c
    <3>2. Grove(m, {m.root}, thin) /\ Nodes(m) = Nodes(l) \ {s}
      BY <2>1, <3>1, ReplacedByChild
    <3>3. DOMAIN m.kids = DOMAIN m.up \cap Split /\ Nodes(m) = DOMAIN m.up
      BY <3>2, GroveParts
    <3>4. Grove(m, {m.root}, {})
      BY <3>2, <3>3, NotThin DEF Grove
    <3>5. Nodes(m) \cap Pane = Nodes(l) \cap Pane
      BY <2>2, <3>2, SplitAssumption
    <3> QED BY <3>4, <3>5 DEF m
  <2> QED BY <2>4, <2>5
<1> QED BY <1>4, <1>5

\* The layout l without a leaf, before the split p that it leaves is looked at.
LeafTaken(l, leaf) ==
  LET p == l.up[leaf] IN
  Erase(Adopt(l, p, Normalized(RemoveAt(l.kids[p], ChildIndex(l, p, leaf)))), {leaf})

\* The tree is a tree without the leaf, but for the split it leaves with one child or more.
LEMMA LeafTakenGrove ==
  ASSUME NEW l, Grove(l, {l.root}, {}), NEW leaf \in DOMAIN l.up, leaf \in Pane,
         l.up[leaf] # NoNode
  PROVE  LET e == LeafTaken(l, leaf) IN
         /\ Grove(e, {e.root}, {l.up[leaf]}) /\ l.up[leaf] \in DOMAIN e.kids
         /\ DOMAIN e.up = DOMAIN l.up \ {leaf} /\ DOMAIN e.kids = DOMAIN l.kids
         /\ \A n \in DOMAIN e.up : e.up[n] = l.up[n]
         /\ \A q \in DOMAIN e.kids : q # l.up[leaf] => e.kids[q] = l.kids[q]
         /\ e.kids[l.up[leaf]] \in Seq(KidRec)
         /\ KidNodes(e.kids[l.up[leaf]])
              = KidNodes(RemoveAt(l.kids[l.up[leaf]], ChildIndex(l, l.up[leaf], leaf)))
<1> DEFINE r == l.root a == l.axis k == l.kids u == l.up
           p == u[leaf]
           i == ChildIndex(l, p, leaf)
           kept == Normalized(RemoveAt(k[p], i))
           e == Erase(Adopt(l, p, kept), {leaf})
<1>1. /\ Forest(r, a, k, u, {r}, {}) /\ l = Lay(r, a, k, u) /\ Nodes(l) = DOMAIN u
      /\ DOMAIN k = DOMAIN u \cap Split /\ a \in [DOMAIN k -> Axis]
         /\ DOMAIN u \subseteq Pane \cup Split
      /\ u \in [DOMAIN u -> DOMAIN k \cup {NoNode}] /\ {r} = {n \in DOMAIN u : u[n] = NoNode}
  BY GroveParts DEF Grove
<1>2. p \in DOMAIN k /\ leaf \in Children(u, p) /\ i \in 1 .. Len(k[p]) /\ k[p][i].node = leaf
  BY GroveIndex
<1>3. k[p] \in Seq(KidRec) /\ Distinct(k[p]) /\ NodesOf(k[p]) = Children(u, p)
      /\ Several(Children(u, p))
  BY <1>2, GroveKids
<1>4. leaf \in DOMAIN u /\ leaf # r /\ leaf \notin DOMAIN k /\ u[leaf] = p
  BY <1>1, SplitAssumption
<1> HIDE DEF r, a, k, u, p, i
<1>5. Children(u, p) \ {leaf} # {}
  BY <1>3 DEF Several
<1>6. KidsFor(kept, Children(u, p) \ {leaf}) /\ KidNodes(kept) = KidNodes(RemoveAt(k[p], i))
  <2> DEFINE K == RemoveAt(k[p], i)
  <2>1. K \in Seq(KidRec) /\ Distinct(K) /\ NodesOf(K) = NodesOf(k[p]) \ {leaf}
    BY <1>2, <1>3, KidRemoved
  <2> HIDE DEF K
  <2>2. KidsFor(Normalized(K), NodesOf(K)) /\ KidNodes(Normalized(K)) = KidNodes(K)
    BY <1>3, <1>5, <2>1, NormalizedKids
  <2> QED BY <1>3, <2>1, <2>2 DEF K
<1> HIDE DEF kept
<1> DEFINE S == Children(u, p) \ {leaf}
           u1 == Parented(u, p, S)
           D == DOMAIN u1 \ {leaf}
           k2 == Keep(Set(k, p, kept), D)
<1>7. kept \in Seq(KidRec) /\ NodesOf(kept) = S
  BY <1>6 DEF KidsFor
<1>8. DOMAIN u1 = DOMAIN u
  BY DEF Parented, Children
<1>9. e = Lay(r, Keep(a, D), k2, Keep(u1, D))
  <2> DEFINE k1 == Set(k, p, kept)
  <2> HIDE DEF k1, u1
  <2>1. Adopt(Lay(r, a, k, u), p, kept) = Lay(r, a, k1, u1)
    <3>1. Adopt(Lay(r, a, k, u), p, kept)
          = Lay(r, a, Set(k, p, kept), Parented(u, p, NodesOf(kept)))
      <4>1. kept \in Seq(KidRec)
        BY <1>7
      <4> QED BY <4>1, AdoptParts
    <3> QED BY <1>7, <3>1, Zenon DEF k1, u1
  <2>2. Erase(Lay(r, a, k1, u1), {leaf})
        = Lay(r, Keep(a, DOMAIN u1 \ {leaf}), Keep(k1, DOMAIN u1 \ {leaf}),
        Keep(u1, DOMAIN u1 \ {leaf}))
    BY EraseParts
  <2> QED BY <1>1, <2>1, <2>2 DEF k1
<1>10. D = DOMAIN u \ {leaf}
  BY <1>8
<1>11. Keep(a, D) = a
  <2> HIDE DEF D
  <2>1. DOMAIN a \cap D = DOMAIN a
    BY <1>1, <1>4, <1>10
  <2> QED BY <1>1, <2>1 DEF Keep
<1>12. DOMAIN k2 = DOMAIN k /\ k2[p] = kept /\ \A q \in DOMAIN k : q # p => k2[q] = k[q]
  <2> HIDE DEF D
  <2>1. \A q \in DOMAIN k : q \in D
    BY <1>1, <1>4, <1>10
  <2> QED BY <1>2, <2>1 DEF Keep, Set
<1>13. Keep(u1, D) = Without(Loosened(u, {leaf}), {leaf})
  <2> DEFINE f == Keep(u1, D)
             h == Without(Loosened(u, {leaf}), {leaf})
  <2>1. DOMAIN f = DOMAIN u \ {leaf} /\ DOMAIN h = DOMAIN u \ {leaf}
    BY <1>8 DEF Keep, Without, Loosened
  <2>2. \A n \in DOMAIN u \ {leaf} : f[n] = h[n]
    BY <1>8 DEF Keep, Without, Loosened, Parented, Children
  <2> QED BY <2>1, <2>2 DEF Keep, Without
<1> HIDE DEF k2, u1, D, S, e
<1>14. Forest(r, a, k2, Loosened(u, {leaf}), {r} \cup {leaf}, {} \cup {p})
  BY <1>1, <1>2, <1>5, <1>6, <1>12, Detached, ZenonT(60)
<1>15. Forest(r, a, k2, Without(Loosened(u, {leaf}), {leaf}), ({r} \cup {leaf}) \ {leaf},
       {} \cup {p})
  <2>1. leaf \in {r} \cup {leaf} /\ leaf # r /\ leaf \notin DOMAIN k2
    BY <1>4, <1>12
  <2> QED BY <1>14, <2>1, LeafDropped
<1>16. ({r} \cup {leaf}) \ {leaf} = {r} /\ {} \cup {p} = {p}
  BY <1>4
<1> DEFINE w == Without(Loosened(u, {leaf}), {leaf})
<1>17. DOMAIN w = DOMAIN u \ {leaf}
  BY DEF Without, Loosened
<1> HIDE DEF w
<1>18. e = Lay(r, a, k2, w)
  BY <1>9, <1>11, <1>13 DEF w
<1>19. Grove(e, {r}, {p})
  BY <1>15, <1>16, <1>18, GroveOf DEF w
<1>20. e.root = r /\ e.kids = k2 /\ Nodes(e) = DOMAIN w
  BY <1>18, LayParts
<1>21. \A n \in DOMAIN w : w[n] = u[n]
  BY DEF w, Without, Loosened
<1>22. LeafTaken(l, leaf) = e
  BY Zenon DEF LeafTaken, e, kept, i, p, k, u
<1>23. e.up = w
  BY <1>18, LayParts
<1> QED BY <1>2, <1>6, <1>7, <1>12, <1>17, <1>19, <1>20, <1>21, <1>22, <1>23 DEF i, p, k, u

\* remove_leaf takes a pane out of the tree, and the split it leaves with one child.
LEMMA RemoveLeafGrove ==
  ASSUME NEW l, Grove(l, {l.root}, {}), NEW leaf \in DOMAIN l.up, leaf \in Pane,
         l.up[leaf] # NoNode
  PROVE  LET m == RemoveLeaf(l, leaf) IN
         Grove(m, {m.root}, {}) /\ Nodes(m) \cap Pane = (Nodes(l) \cap Pane) \ {leaf}
<1> DEFINE e == LeafTaken(l, leaf) p == l.up[leaf] m == DissolveIfUnary(e, p)
<1>1. Grove(e, {e.root}, {p}) /\ p \in DOMAIN e.kids /\ DOMAIN e.up = DOMAIN l.up \ {leaf}
  BY LeafTakenGrove
<1>2. RemoveLeaf(l, leaf) = m
  BY Zenon DEF RemoveLeaf, LeafTaken
<1> HIDE DEF e, p
<1>3. Grove(m, {m.root}, {}) /\ Nodes(m) \cap Pane = Nodes(e) \cap Pane
  BY <1>1, DissolveIfUnaryGrove
<1> HIDE DEF m
<1>4. Nodes(e) = DOMAIN l.up \ {leaf} /\ Nodes(l) = DOMAIN l.up
  BY <1>1 DEF Nodes
<1> QED BY <1>2, <1>3, <1>4

-----------------------------------------------------------------------------
(* Flattening *)

\* The list of children F has the children of s in l, but in the places of those in X
\* the children of these.
Expanded(l, s, X, F) ==
  \E ss \in Seq(Seq(KidRec)) :
    /\ F = FlattenSeq(ss) /\ Len(ss) = Len(l.kids[s])
    /\ \A i \in 1 .. Len(ss) :
         IF l.kids[s][i].node \in X THEN KidNodes(ss[i]) = KidNodes(l.kids[l.kids[s][i].node])
         ELSE ss[i] = <<l.kids[s][i]>>

\* flatten_matching_split_children: the splits below s with its axis are gone and their
\* children stand in their places.
LEMMA FlattenLists ==
  ASSUME NEW l, NEW tops, Grove(l, tops, {}), NEW s \in DOMAIN l.kids
  PROVE  LET m == Flatten(l, s)
             X == SameAxisKids(l, s)
         IN  /\ Grove(m, tops, {}) /\ m.root = l.root /\ Nodes(m) = Nodes(l) \ X
             /\ X = {n \in Children(l.up, s) : n \in DOMAIN l.kids /\ l.axis[n] = l.axis[s]}
             /\ m.up = Lifted(l.up, X, s) /\ DOMAIN m.kids = DOMAIN l.kids \ X
             /\ \A q \in DOMAIN m.kids : m.axis[q] = l.axis[q]
             /\ \A q \in DOMAIN m.kids : q # s => m.kids[q] = l.kids[q]
             /\ s \in DOMAIN m.kids /\ Expanded(l, s, X, m.kids[s])
<1> DEFINE m == Flatten(l, s)
           X == SameAxisKids(l, s)
           K == l.kids[s]
           Expand(kid) == IF kid.node \in X THEN ScaledTo(l.kids[kid.node],
           kid.share) ELSE <<kid>>
           ss == [i \in DOMAIN K |-> Expand(K[i])]
           F == FlattenSeq(ss)
           N == {n \in DOMAIN l.up \ X : l.up[n] = s \/ l.up[n] \in X}
<1>1. /\ K \in Seq(KidRec) /\ Distinct(K) /\ NodesOf(K) = Children(l.up, s) /\ SumOf(K) = Full
      /\ Several(Children(l.up, s)) /\ s \notin Children(l.up, s)
  BY GroveKids
<1>2. /\ DOMAIN l.kids = DOMAIN l.up \cap Split /\ NoNode \notin DOMAIN l.up
      /\ \A n : IsLeaf(l, n) <=> n \notin DOMAIN l.kids
  BY GroveParts
<1>3. X = {n \in Children(l.up, s) : n \in DOMAIN l.kids /\ l.axis[n] = l.axis[s]}
  <2>1. ToSet(KidNodes(l.kids[s])) = Children(l.up, s)
    <3> HIDE DEF K
    <3>1. ToSet(KidNodes(K)) = NodesOf(K)
      BY <1>1, KidNodesOf
    <3> QED BY <1>1, <3>1 DEF K
  <2> QED BY <1>2, <2>1 DEF SameAxisKids
<1>4. m = Erase(Adopt(l, s, F), X)
  BY Zenon DEF Flatten
<1> HIDE DEF X, m
<1>5. DOMAIN K = 1 .. Len(K) /\ Len(K) \in Nat
      /\ \A i \in 1 .. Len(K) : /\ K[i] \in KidRec /\ K[i].node \in Children(l.up, s)
         /\ K[i].share \in Nat
                                /\ K[i] = Kid(K[i].node, K[i].share)
                                   /\ K[i].node \in Pane \cup Split
  <2> HIDE DEF K
  <2> QED BY <1>1, KidsAt
<1> HIDE DEF K
<1>6. ASSUME NEW i \in 1 .. Len(K)
      PROVE  /\ ss[i] \in Seq(KidRec) /\ Distinct(ss[i]) /\ SumOf(ss[i]) = K[i].share
             /\ NodesOf(ss[i])
                = IF K[i].node \in X THEN Children(l.up, K[i].node) ELSE {K[i].node}
             /\ IF K[i].node \in X THEN KidNodes(ss[i]) = KidNodes(l.kids[K[i].node])
                ELSE ss[i] = <<K[i]>>
  <2> DEFINE n == K[i].node
             x == K[i].share
  <2>0. ss[i] = IF n \in X THEN ScaledTo(l.kids[n], x) ELSE <<K[i]>>
    BY <1>5
  <2>1. CASE n \in X
    <3>1. n \in DOMAIN l.kids
      BY <1>3, <2>1
    <3>2. /\ l.kids[n] \in Seq(KidRec) /\ Distinct(l.kids[n])
             /\ NodesOf(l.kids[n]) = Children(l.up, n)
          /\ Children(l.up, n) # {}
      BY <3>1, GroveKids
    <3>3. Len(l.kids[n]) # 0
      BY <3>2, KidsNone
    <3> DEFINE M == ScaledTo(l.kids[n], x)
    <3>4. M \in Seq(KidRec) /\ Distinct(M) /\ NodesOf(M) = Children(l.up, n) /\ SumOf(M) = x
          /\ KidNodes(M) = KidNodes(l.kids[n])
      BY <1>5, <3>2, <3>3, KidsScaled
    <3>5. ss[i] = M
      BY <2>0, <2>1
    <3> HIDE DEF M, ss, n, x
    <3>6. ss[i] \in Seq(KidRec) /\ Distinct(ss[i]) /\ SumOf(ss[i]) = x
          /\ NodesOf(ss[i]) = Children(l.up, n) /\ KidNodes(ss[i]) = KidNodes(l.kids[n])
      BY <3>4, <3>5
    <3> QED BY <2>1, <3>6 DEF n, x
  <2>2. CASE n \notin X
    <3> DEFINE M == <<Kid(n, x)>>
    <3>1. M \in Seq(KidRec) /\ Distinct(M) /\ NodesOf(M) = {n} /\ SumOf(M) = x
      <4>1. n \in Pane \cup Split /\ x \in Nat
        BY <1>5
      <4> HIDE DEF n, x, Kid
      <4> QED BY <4>1, KidsOne
    <3>2. ss[i] = M /\ ss[i] = <<K[i]>>
      BY <1>5, <2>0, <2>2
    <3> HIDE DEF M, ss, n, x
    <3>3. ss[i] \in Seq(KidRec) /\ Distinct(ss[i]) /\ SumOf(ss[i]) = x /\ NodesOf(ss[i]) = {n}
          /\ ss[i] = <<K[i]>>
      BY <3>1, <3>2
    <3> QED BY <2>2, <3>3 DEF n, x
  <2> QED BY <2>1, <2>2
<1>7. DOMAIN ss = 1 .. Len(K)
  BY <1>5
<1>8. ss \in Seq(Seq(KidRec)) /\ Len(ss) = Len(K)
  <2>1. ss \in [1 .. Len(K) -> Seq(KidRec)]
    BY <1>5, <1>6
  <2> HIDE DEF ss
  <2> QED BY <1>5, <2>1, ListOf
<1> HIDE DEF ss, F
<1>9. ASSUME NEW i \in 1 .. Len(ss), NEW j \in 1 .. Len(ss), i # j
      PROVE  NodesOf(ss[i]) \cap NodesOf(ss[j]) = {}
  <2>1. K[i].node # K[j].node
    BY <1>1, <1>8, <1>9 DEF Distinct
  <2>2. \A h \in 1 .. Len(K) : /\ K[h].node \in Children(l.up, s)
                               /\ NodesOf(ss[h])
                                  = IF K[h].node \in X THEN Children(l.up,
                                  K[h].node) ELSE {K[h].node}
    BY <1>5, <1>6
  <2>3. \A y \in X : y # s /\ y \in Children(l.up, s)
    BY <1>1, <1>3
  <2> QED BY <1>8, <2>1, <2>2, <2>3, ZenonT(60) DEF Children
<1>10. F \in Seq(KidRec) /\ Distinct(F) /\ NodesOf(F)
       = UNION {NodesOf(ss[i]) : i \in 1 .. Len(ss)}
  <2>1. \A i \in 1 .. Len(ss) : Distinct(ss[i])
    BY <1>6, <1>8
  <2> QED BY <1>8, <1>9, <2>1, KidsFlattened DEF F
<1>11. SumOf(F) = Full
  <2>1. SumOf(F) = SumOf(K)
    BY <1>1, <1>6, <1>8, FlattenedSum DEF F
  <2> QED BY <1>1, <2>1
<1>12. NodesOf(F) = N
  <2>1. ASSUME NEW y \in NodesOf(F) PROVE y \in N
    <3>1. PICK i \in 1 .. Len(K) : y \in NodesOf(ss[i])
      BY <1>8, <1>10
    <3>2. NodesOf(ss[i]) = (IF K[i].node \in X THEN Children(l.up, K[i].node) ELSE {K[i].node})
          /\ K[i].node \in Children(l.up, s)
      BY <1>5, <1>6
    <3> QED BY <1>1, <1>3, <3>1, <3>2 DEF Children
  <2>2. ASSUME NEW y \in N PROVE y \in NodesOf(F)
    <3> DEFINE x == IF l.up[y] = s THEN y ELSE l.up[y]
    <3>1. x \in Children(l.up, s) /\ y \in (IF x \in X THEN Children(l.up, x) ELSE {x})
      BY <1>1, <1>3 DEF Children
    <3> HIDE DEF x
    <3>2. PICK i \in 1 .. Len(K) : K[i].node = x
      BY <1>1, <3>1 DEF NodesOf
    <3>3. y \in NodesOf(ss[i])
      BY <1>6, <3>1, <3>2
    <3> QED BY <1>8, <1>10, <3>3
  <2> QED BY <2>1, <2>2
<1>13. KidsFor(F, N)
  BY <1>10, <1>11, <1>12 DEF KidsFor
<1>14. Several(N)
  <2>1. ASSUME NEW x \in Children(l.up, s) PROVE \E n \in N : n = x \/ (l.up[n] = x /\ x \in X)
    <3>1. CASE x \notin X
      BY <3>1 DEF Children
    <3>2. CASE x \in X
      <4>1. x \in DOMAIN l.kids
        BY <1>3, <3>2
      <4>2. PICK n \in Children(l.up, x) : TRUE
        BY <4>1, GroveKids
      <4>3. n \notin X
        BY <1>1, <1>3, <4>2 DEF Children
      <4> QED BY <3>2, <4>2, <4>3 DEF Children
    <3> QED BY <3>1, <3>2
  <2>2. PICK x, y \in Children(l.up, s) : x # y
    BY <1>1 DEF Several
  <2>3. PICK n \in N : n = x \/ (l.up[n] = x /\ x \in X)
    BY <2>1
  <2>4. PICK o \in N : o = y \/ (l.up[o] = y /\ y \in X)
    BY <2>1
  <2>5. n # o
    BY <1>1, <1>3, <2>2, <2>3, <2>4 DEF Children
  <2> QED BY <2>5 DEF Several
<1>15. X \subseteq DOMAIN l.kids /\ s \notin X /\ \A n \in X : l.up[n] \in X \cup {s}
  BY <1>1, <1>3 DEF Children
<1>16. N = {n \in DOMAIN l.up \ X : l.up[n] = s \/ l.up[n] \in X} /\ N # {}
  BY <1>14 DEF Several
<1> HIDE DEF N
<1> DEFINE m1 == Erase(Adopt(l, s, F), X)
<1>17. /\ Grove(m1, tops, {}) /\ m1.root = l.root /\ Nodes(m1) = Nodes(l) \ X
       /\ m1.up = Lifted(l.up, X, s) /\ DOMAIN m1.kids = DOMAIN l.kids \ X
       /\ \A q \in DOMAIN m1.kids : m1.axis[q] = l.axis[q]
       /\ \A q \in DOMAIN m1.kids : q # s => m1.kids[q] = l.kids[q]
       /\ m1.kids[s] = F /\ s \in DOMAIN m1.kids
  <2>1. X \subseteq DOMAIN l.kids /\ s \notin X
    BY <1>15
  <2>2. \A n \in X : l.up[n] \in X \cup {s}
    BY <1>15
  <2> QED BY <1>13, <1>14, <1>16, <2>1, <2>2, DissolvedGrove
<1> HIDE DEF m1
<1>18. m = m1
  BY <1>4 DEF m1
<1>19. Expanded(l, s, X, F)
  BY <1>6, <1>8 DEF Expanded, F, K
<1> QED BY <1>3, <1>17, <1>18, <1>19 DEF m, X

\* The same, without the lists.
LEMMA FlattenGrove ==
  ASSUME NEW l, NEW tops, Grove(l, tops, {}), NEW s \in DOMAIN l.kids
  PROVE  LET m == Flatten(l, s)
             X == SameAxisKids(l, s)
         IN  /\ Grove(m, tops, {}) /\ m.root = l.root /\ Nodes(m) = Nodes(l) \ X
             /\ X = {n \in Children(l.up, s) : n \in DOMAIN l.kids /\ l.axis[n] = l.axis[s]}
             /\ m.up = Lifted(l.up, X, s) /\ DOMAIN m.kids = DOMAIN l.kids \ X
             /\ \A q \in DOMAIN m.kids : m.axis[q] = l.axis[q]
<1> QED BY FlattenLists

-----------------------------------------------------------------------------
(* What is above a node *)

\* A node and everything above it.
Up(u, n) == {m \in DOMAIN u : \A A \in SUBSET DOMAIN u : Upward(u, A) /\ n \in A => m \in A}
\* Parent links that lead to nodes and nowhere around.
Links(u) ==
  Rooted(u) /\ NoNode \notin DOMAIN u /\ \A n \in DOMAIN u : u[n] \in DOMAIN u \cup {NoNode}

\* The parent links of a forest.
LEMMA GroveLinks ==
  ASSUME NEW l, NEW tops, NEW thin, Grove(l, tops, thin)
  PROVE  Links(l.up)
  BY GroveParts DEF Grove, Forest, Links

\* What is above a node is closed upwards.
LEMMA UpIsUpward ==
  ASSUME NEW u, Links(u), NEW n \in DOMAIN u
  PROVE  Up(u, n) \subseteq DOMAIN u /\ n \in Up(u, n) /\ Upward(u, Up(u, n))
<1>1. n \in Up(u, n) /\ Up(u, n) \subseteq DOMAIN u
  BY DEF Up
<1>2. ASSUME NEW m \in Up(u, n), u[m] # NoNode PROVE u[m] \in Up(u, n)
  <2>1. m \in DOMAIN u /\ u[m] \in DOMAIN u
    BY <1>2 DEF Up, Links
  <2>2. ASSUME NEW A \in SUBSET DOMAIN u, Upward(u, A), n \in A PROVE u[m] \in A
    <3>1. m \in A
      BY <2>2 DEF Up
    <3> QED BY <1>2, <2>2, <3>1 DEF Upward
  <2> QED BY <2>1, <2>2 DEF Up
<1> QED BY <1>1, <1>2 DEF Upward

\* A node's parent comes next above it.
LEMMA UpStep ==
  ASSUME NEW u, Links(u), NEW n \in DOMAIN u
  PROVE  /\ u[n] = NoNode => Up(u, n) = {n}
         /\ u[n] # NoNode => u[n] \in DOMAIN u /\ Up(u, n) = {n} \cup Up(u, u[n])
<1>1. ASSUME u[n] = NoNode PROVE Up(u, n) = {n}
  <2>1. Upward(u, {n}) /\ {n} \in SUBSET DOMAIN u
    BY <1>1 DEF Upward
  <2>2. Up(u, n) \subseteq {n}
    BY <2>1 DEF Up
  <2> QED BY <2>2, UpIsUpward
<1>2. ASSUME u[n] # NoNode PROVE u[n] \in DOMAIN u /\ Up(u, n) = {n} \cup Up(u, u[n])
  <2>1. u[n] \in DOMAIN u
    BY <1>2 DEF Links
  <2>2. Upward(u, Up(u, u[n])) /\ u[n] \in Up(u, u[n]) /\ Up(u, u[n]) \subseteq DOMAIN u
    BY <2>1, UpIsUpward
  <2>3. Upward(u, {n} \cup Up(u, u[n])) /\ {n} \cup Up(u, u[n]) \in SUBSET DOMAIN u
    BY <2>2 DEF Upward
  <2>4. Up(u, n) \subseteq {n} \cup Up(u, u[n])
    BY <2>3 DEF Up
  <2>5. n \in Up(u, n) /\ Upward(u, Up(u, n)) /\ Up(u, n) \subseteq DOMAIN u
    BY UpIsUpward
  <2>6. u[n] \in Up(u, n)
    BY <1>2, <2>5 DEF Upward
  <2>7. Up(u, u[n]) \subseteq Up(u, n)
    BY <2>5, <2>6 DEF Up
  <2> QED BY <2>1, <2>4, <2>5, <2>7
<1> QED BY <1>1, <1>2

\* No node is above itself.
LEMMA UpNotBack ==
  ASSUME NEW u, Links(u), NEW n \in DOMAIN u, u[n] # NoNode
  PROVE  n \notin Up(u, u[n])
<1> SUFFICES ASSUME n \in Up(u, u[n]) PROVE FALSE
  OBVIOUS
<1> DEFINE B == {m \in DOMAIN u : n \in Up(u, m)}
<1>1. u[n] \in B
  BY UpStep
<1>2. ASSUME NEW m \in B PROVE u[m] \in B
  <2>1. CASE m = n
    BY <1>1, <2>1
  <2>2. CASE m # n
    <3>1. n \in Up(u, m) /\ m \in DOMAIN u
      OBVIOUS
    <3>2. u[m] # NoNode
      BY <2>2, <3>1, UpStep
    <3>3. u[m] \in DOMAIN u /\ n \in Up(u, u[m])
      BY <2>2, <3>1, <3>2, UpStep
    <3> QED BY <3>3
  <2> QED BY <2>1, <2>2
<1> QED BY <1>1, <1>2 DEF Links, Rooted

\* What is above a node above is above.
LEMMA UpTransitive ==
  ASSUME NEW u, Links(u), NEW n \in DOMAIN u, NEW m \in Up(u, n)
  PROVE  m \in DOMAIN u /\ Up(u, m) \subseteq Up(u, n)
  BY UpIsUpward DEF Up

\* Between a node and one above it stands a child of the latter.
LEMMA UpChild ==
  ASSUME NEW u, Links(u), NEW n \in DOMAIN u, NEW q \in Up(u, n), q # n
  PROVE  \E c \in Up(u, n) : u[c] = q
<1> SUFFICES ASSUME \A c \in Up(u, n) : u[c] # q PROVE FALSE
  OBVIOUS
<1> DEFINE A == Up(u, n) \ {q}
<1>1. Up(u, n) \subseteq DOMAIN u /\ n \in Up(u, n) /\ Upward(u, Up(u, n))
  BY UpIsUpward
<1>2. Upward(u, A) /\ n \in A /\ A \in SUBSET DOMAIN u
  BY <1>1 DEF Upward
<1> QED BY <1>2 DEF Up

\* The only top is above every node.
LEMMA UpToTheTop ==
  ASSUME NEW u, Links(u), NEW r, {r} = {m \in DOMAIN u : u[m] = NoNode}, NEW n \in DOMAIN u
  PROVE  r \in Up(u, n)
<1> DEFINE B == {m \in DOMAIN u : r \notin Up(u, m)}
<1>1. ASSUME NEW m \in B PROVE u[m] \in B
  <2>1. CASE u[m] = NoNode
    <3>1. m = r
      BY <2>1
    <3>2. m \in Up(u, m)
      BY UpIsUpward
    <3> QED BY <3>1, <3>2
  <2>2. CASE u[m] # NoNode
    BY <2>2, UpStep
  <2> QED BY <2>1, <2>2
<1>2. B = {}
  BY <1>1 DEF Links, Rooted
<1> QED BY <1>2

\* The recursion of Above has one solution.
LEMMA AboveIs ==
  ASSUME NEW l, NEW tops, NEW thin, Grove(l, tops, thin), NEW n \in Nodes(l)
  PROVE  Above(l, n) = IF l.up[n] = NoNode THEN {} ELSE Up(l.up, l.up[n])
<1> DEFINE u == l.up
           V == DOMAIN u
           step(g, m) == IF u[m] = NoNode THEN {} ELSE {u[m]} \cup g[u[m]]
           h == [m \in V |-> IF u[m] = NoNode THEN {} ELSE Up(u, u[m])]
           solves(g) == g = [m \in V |-> step(g, m)]
           f == CHOOSE g : solves(g)
<1>1. Links(u) /\ Nodes(l) = V
  BY GroveLinks, GroveParts
<1>2. Above(l, n) = f[n]
  BY <1>1 DEF Above, Nodes
<1>3. solves(h)
  <2>1. ASSUME NEW m \in V PROVE h[m] = step(h, m)
    <3>1. CASE u[m] = NoNode
      BY <3>1
    <3>2. CASE u[m] # NoNode
      <4>1. u[m] \in V
        BY <1>1, <3>2 DEF Links
      <4>2. Up(u, u[m]) = {u[m]} \cup (IF u[u[m]] = NoNode THEN {} ELSE Up(u, u[u[m]]))
        BY <1>1, <4>1, UpStep
      <4> QED BY <3>2, <4>1, <4>2
    <3> QED BY <3>1, <3>2
  <2> QED BY <2>1
<1>4. solves(f)
  <2> HIDE DEF h, solves
  <2> QED BY <1>3
<1>5. f = h
  <2> DEFINE C == {m \in V : f[m] # h[m]}
  <2>1. ASSUME NEW m \in C PROVE u[m] \in C
    <3>1. f[m] = step(f, m) /\ h[m] = step(h, m)
      <4> HIDE DEF f, h
      <4> QED BY <1>3, <1>4
    <3> HIDE DEF f, h
    <3>2. u[m] # NoNode
      BY <3>1
    <3>3. u[m] \in V
      BY <1>1, <3>2 DEF Links
    <3> QED BY <3>1, <3>2, <3>3
  <2>2. C = {}
    <3> HIDE DEF f, h
    <3> QED BY <1>1, <2>1 DEF Links, Rooted
  <2>3. f = [m \in V |-> step(f, m)] /\ h = [m \in V |-> step(h, m)]
    <3> HIDE DEF f, h
    <3> QED BY <1>3, <1>4
  <2> HIDE DEF f, h, step
  <2> QED BY <2>2, <2>3
<1> QED BY <1>1, <1>2, <1>5

-----------------------------------------------------------------------------
(* Rotating *)

\* Turning axes changes nothing else.
LEMMA ToggleGrove ==
  ASSUME NEW l, NEW tops, NEW thin, Grove(l, tops, thin), NEW S
  PROVE  LET m == ToggleAxes(l, S) IN
         /\ Grove(m, tops, thin) /\ m.root = l.root /\ m.kids = l.kids /\ m.up = l.up
            /\ Nodes(m) = Nodes(l)
         /\ DOMAIN m.axis = DOMAIN l.axis
<1> DEFINE r == l.root a == l.axis k == l.kids u == l.up
           m == ToggleAxes(l, S)
           a2 == [s \in DOMAIN a |-> IF s \in S THEN Across(a[s]) ELSE a[s]]
<1>1. /\ Forest(r, a, k, u, tops, thin) /\ l = Lay(r, a, k, u) /\ a \in [DOMAIN k -> Axis]
         /\ Nodes(l) = DOMAIN u
      /\ DOMAIN a = DOMAIN k
  BY GroveParts DEF Grove
<1>2. m = WithAxis(l, a2)
  BY Zenon DEF ToggleAxes, WithAxis
<1> HIDE DEF r, a, k, u, m
<1>3. a2 \in [DOMAIN k -> Axis] /\ DOMAIN a2 = DOMAIN a
  BY <1>1 DEF Across, Axis
<1> HIDE DEF a2
<1>4. m = Lay(r, a2, k, u)
  BY <1>1, <1>2, LayWithAxis
<1>5. \A s \in DOMAIN k : KidsFor(k[s], Children(u, s))
  BY <1>1 DEF Forest
<1>6. Forest(r, a2, k, u, tops, thin)
  BY <1>1, <1>3, <1>5, Relisted
<1>7. Grove(m, tops, thin)
  BY <1>4, <1>6, GroveOf
<1>8. m.root = r /\ m.axis = a2 /\ m.kids = k /\ m.up = u /\ Nodes(m) = DOMAIN u
  BY <1>4, LayParts
<1> QED BY <1>1, <1>3, <1>7, <1>8 DEF r, a, k, u, m

\* rotate_split keeps the tree, and the children of the split stay together.
LEMMA RotateSplitGrove ==
  ASSUME NEW l, Grove(l, {l.root}, {}), NEW s \in DOMAIN l.kids
  PROVE  LET m == RotateSplit(l, s) IN
         /\ Grove(m, {m.root}, {}) /\ Nodes(m) \cap Pane = Nodes(l) \cap Pane
         /\ \E q \in DOMAIN m.kids : \A n \in Children(l.up, s) : n \in DOMAIN m.up /\ m.up[n] = q
         /\ l.up[s] = NoNode => s \in DOMAIN m.up /\ m.root = l.root
<1> DEFINE m == RotateSplit(l, s)
           t == ToggleAxes(l, Below(l, s))
           p == l.up[s]
<1>1. /\ Grove(t, {t.root}, {}) /\ t.root = l.root /\ t.kids = l.kids /\ t.up = l.up
         /\ Nodes(t) = Nodes(l)
      /\ DOMAIN t.axis = DOMAIN l.axis
  <2>1. Grove(t, {l.root}, {}) /\ t.root = l.root /\ t.kids = l.kids /\ t.up = l.up
        /\ Nodes(t) = Nodes(l)
        /\ DOMAIN t.axis = DOMAIN l.axis
    BY ToggleGrove
  <2> HIDE DEF t
  <2> QED BY <2>1
<1>2. m = IF p # NoNode /\ t.axis[p] = t.axis[s] THEN Flatten(t, p) ELSE t
  BY Zenon DEF RotateSplit
<1>3. /\ DOMAIN l.kids = DOMAIN l.up \cap Split /\ Nodes(l) = DOMAIN l.up
         /\ NoNode \notin DOMAIN l.up
      /\ l.up \in [DOMAIN l.up -> DOMAIN l.kids \cup {NoNode}]
  BY GroveParts
<1> HIDE DEF t, m
<1>4. CASE p # NoNode /\ t.axis[p] = t.axis[s]
  <2> DEFINE X == SameAxisKids(t, p)
  <2>1. p \in DOMAIN t.kids /\ s \in Children(l.up, p)
    BY <1>1, <1>3, <1>4 DEF Children
  <2>2. /\ Grove(m, {t.root}, {}) /\ m.root = t.root /\ Nodes(m) = Nodes(t) \ X
        /\ X = {n \in Children(t.up, p) : n \in DOMAIN t.kids /\ t.axis[n] = t.axis[p]}
        /\ m.up = Lifted(t.up, X, p) /\ DOMAIN m.kids = DOMAIN t.kids \ X
    <3> DEFINE m1 == Flatten(t, p)
    <3>1. /\ Grove(m1, {t.root}, {}) /\ m1.root = t.root /\ Nodes(m1) = Nodes(t) \ X
          /\ X = {n \in Children(t.up, p) : n \in DOMAIN t.kids /\ t.axis[n] = t.axis[p]}
          /\ m1.up = Lifted(t.up, X, p) /\ DOMAIN m1.kids = DOMAIN t.kids \ X
      BY <1>1, <2>1, FlattenGrove
    <3>2. m = m1
      BY <1>2, <1>4
    <3> HIDE DEF m1, X
    <3> QED BY <3>1, <3>2
  <2> HIDE DEF X
  <2>3. s \in X /\ p \notin X /\ X \cap Pane = {}
    <3>1. p \notin Children(t.up, p)
      BY <1>1, <2>1, GroveKids
    <3> QED BY <1>1, <1>3, <1>4, <2>1, <2>2, <3>1, SplitAssumption
  <2>4. ASSUME NEW n \in Children(l.up, s) PROVE n \in DOMAIN m.up /\ m.up[n] = p
    <3>1. n \in DOMAIN l.up /\ l.up[n] = s
      BY DEF Children
    <3>2. n \notin X
      <4>1. s # p
        BY <2>3
      <4> QED BY <1>1, <2>2, <3>1, <4>1 DEF Children
    <3> QED BY <1>1, <2>2, <2>3, <3>1, <3>2 DEF Lifted
  <2>5. p \in DOMAIN m.kids
    BY <2>1, <2>2, <2>3
  <2>6. Nodes(m) \cap Pane = Nodes(l) \cap Pane
    BY <1>1, <2>2, <2>3
  <2>7. Grove(m, {m.root}, {})
    BY <2>2
  <2>8. l.up[s] # NoNode
    BY <1>4
  <2> QED BY <2>4, <2>5, <2>6, <2>7, <2>8 DEF m
<1>5. CASE ~(p # NoNode /\ t.axis[p] = t.axis[s])
  <2>1. m = t
    BY <1>2, <1>5
  <2>2. s \in DOMAIN m.kids /\ \A n \in Children(l.up, s) : n \in DOMAIN m.up /\ m.up[n] = s
    BY <1>1, <2>1 DEF Children
  <2>3. Grove(m, {m.root}, {}) /\ Nodes(m) \cap Pane = Nodes(l) \cap Pane
    BY <1>1, <2>1
  <2>4. s \in DOMAIN m.up /\ m.root = l.root
    BY <1>1, <1>3, <2>1
  <2> QED BY <2>2, <2>3, <2>4 DEF m
<1> QED BY <1>4, <1>5

\* Some of the children of p, not all of them, go into a group that hangs nowhere.
LEMMA GroupedOut ==
  ASSUME NEW r, NEW a, NEW k, NEW u, Forest(r, a, k, u, {r}, {}),
         NEW p \in DOMAIN k, NEW S, S \subseteq Children(u, p), Children(u, p) \ S # {},
         Several(S),
         NEW g \in Split, g \notin DOMAIN u,
         NEW a2, a2 \in [DOMAIN k \cup {g} -> Axis],
         NEW k2, DOMAIN k2 = DOMAIN k \cup {g}, \A s \in DOMAIN k : s # p => k2[s] = k[s],
         KidsFor(k2[p], Children(u, p) \ S), KidsFor(k2[g], S)
  PROVE  Forest(r, a2, k2, Parented(Set(Loosened(u, S), g, NoNode), g, S), {r} \cup {g}, {p})
<1> DEFINE k1 == [s \in DOMAIN k |-> k2[s]]
           u1 == Loosened(u, S)
<1>1. DOMAIN k1 = DOMAIN k /\ k1[p] = k2[p] /\ (\A s \in DOMAIN k : s # p => k1[s] = k[s])
      /\ \A s \in DOMAIN k : k1[s] = k2[s]
  OBVIOUS
<1>2. DOMAIN u1 = DOMAIN u
  BY DEF Loosened
<1>a. {r} = {n \in DOMAIN u : u[n] = NoNode} /\ DOMAIN k \subseteq DOMAIN u
      /\ NoNode \notin DOMAIN k
  BY NoNodeAssumption DEF Forest
<1>3. r \notin S
  BY <1>a DEF Children
<1> HIDE DEF k1, u1
<1>4. Forest(r, a, k1, u1, {r} \cup S, {} \cup {p})
  BY <1>1, Detached DEF u1
<1> DEFINE u2 == Parented(Set(u1, g, NoNode), g, S)
<1>5. Forest(r, a2, k2, u2, (({r} \cup S) \ S) \cup {g}, {} \cup {p})
  <2>1. S \subseteq {r} \cup S /\ g \notin DOMAIN u1
    BY <1>2
  <2>2. a2 \in [DOMAIN k1 \cup {g} -> Axis] /\ DOMAIN k2 = DOMAIN k1 \cup {g}
        /\ \A s \in DOMAIN k1 : k2[s] = k1[s]
    BY <1>1
  <2> QED BY <1>3, <1>4, <2>1, <2>2, Gathered, SMTT(30)
<1>6. (({r} \cup S) \ S) \cup {g} = {r} \cup {g} /\ {} \cup {p} = {p}
  BY <1>3
<1> QED BY <1>5, <1>6 DEF u1

-----------------------------------------------------------------------------
(* Selections *)

\* The nodes are those of the i-th to the j-th child of p.
Ranged(l, p, nodes, i, j) ==
  /\ p \in DOMAIN l.kids /\ i \in 1 .. Len(l.kids[p]) /\ j \in i .. Len(l.kids[p])
  /\ nodes = SubSeq(KidNodes(l.kids[p]), i, j)

\* What a range of siblings is.
LEMMA RangedParts ==
  ASSUME NEW l, NEW tops, NEW thin, Grove(l, tops, thin), NEW p, NEW nodes, NEW i, NEW j,
         Ranged(l, p, nodes, i, j)
  PROVE  LET K == l.kids[p] IN
         /\ nodes \in Seq(Pane \cup Split) /\ Len(nodes) = (j - i) + 1 /\ Len(nodes) \in Nat \ {0}
         /\ nodes[1] = K[i].node /\ nodes[Len(nodes)] = K[j].node
         /\ ChildIndex(l, p, nodes[1]) = i
         /\ \A x \in 1 .. Len(nodes) : nodes[x] = K[(i + x) - 1].node
         /\ ToSet(nodes) = NodesOf(Cut(K, i, j)) /\ ToSet(nodes) \subseteq Children(l.up, p)
         /\ nodes[1] \in ToSet(nodes) /\ nodes[Len(nodes)] \in ToSet(nodes)
         /\ Cut(K, i, j) \in Seq(KidRec) /\ Distinct(Cut(K, i, j))
            /\ Len(Cut(K, i, j)) = (j - i) + 1
         /\ (Len(nodes) # 1 => Several(ToSet(nodes)))
         /\ (Len(nodes) = 1 => ToSet(nodes) = {nodes[1]} /\ i = j)
         /\ (Len(nodes) = Len(K) => ToSet(nodes) = Children(l.up, p))
         /\ (Len(nodes) # Len(K) => Children(l.up, p) \ ToSet(nodes) # {})
<1> DEFINE K == l.kids[p] B == Cut(K, i, j)
<1>1. p \in DOMAIN l.kids /\ i \in 1 .. Len(K) /\ j \in i .. Len(K)
      /\ nodes = SubSeq(KidNodes(K), i, j)
  BY DEF Ranged
<1>2. K \in Seq(KidRec) /\ Distinct(K) /\ NodesOf(K) = Children(l.up, p)
  BY <1>1, GroveKids
<1> HIDE DEF K, B
<1>3. Len(K) \in Nat
  BY <1>2
<1>4. NodesOf(B) = {K[x].node : x \in i .. j} /\ nodes = KidNodes(B)
  BY <1>1, <1>2, KidsRange DEF B
<1>5. B \in Seq(KidRec) /\ Distinct(B) /\ Len(B) = (j - i) + 1
  <2>1. i \in 1 .. Len(K) + 1 /\ j \in (i - 1) .. Len(K)
    BY <1>1, <1>3
  <2> QED BY <1>2, <2>1, KidsParts DEF B
<1>6. nodes \in Seq(Pane \cup Split) /\ Len(nodes) = Len(B) /\ ToSet(nodes) = NodesOf(B)
      /\ \A x \in 1 .. Len(B) : nodes[x] = B[x].node
  BY <1>4, <1>5, KidNodesOf
<1>7. \A x \in 1 .. Len(nodes) : nodes[x] = K[(i + x) - 1].node
  <2>1. \A x \in 1 .. Len(B) : B[x] = K[(i + x) - 1]
    BY <1>1, <1>2, <1>3, <1>5 DEF B, Cut
  <2> QED BY <1>6, <2>1
<1>8. Len(nodes) = (j - i) + 1 /\ Len(nodes) \in Nat \ {0} /\ nodes[1] = K[i].node
      /\ nodes[Len(nodes)] = K[j].node
  <2>1. i \in Int /\ j \in Int /\ i <= j
    BY <1>1, <1>3
  <2>2. Len(nodes) = (j - i) + 1 /\ Len(nodes) \in Nat \ {0}
    BY <1>5, <1>6, <2>1
  <2>3. 1 \in 1 .. Len(nodes) /\ Len(nodes) \in 1 .. Len(nodes) /\ (i + 1) - 1 = i
        /\ (i + Len(nodes)) - 1 = j
    BY <2>1, <2>2
  <2>4. nodes[1] = K[(i + 1) - 1].node /\ nodes[Len(nodes)] = K[(i + Len(nodes)) - 1].node
    BY <1>7, <2>3
  <2> QED BY <2>2, <2>3, <2>4
<1>9. ChildIndex(l, p, nodes[1]) = i
  <2>1. \A x \in DOMAIN K : K[x].node = nodes[1] => x = i
    <3>1. DOMAIN K = 1 .. Len(K)
      BY <1>2, KidsAt
    <3> QED BY <1>1, <1>2, <1>8, <3>1 DEF Distinct
  <2>2. i \in DOMAIN K /\ K[i].node = nodes[1]
    BY <1>1, <1>2, <1>8
  <2> QED BY <2>1, <2>2, IndexInKids DEF IndexIn, K
<1>10. ToSet(nodes) \subseteq Children(l.up, p) /\ nodes[1] \in ToSet(nodes)
       /\ nodes[Len(nodes)] \in ToSet(nodes)
  <2>1. ToSet(nodes) \subseteq NodesOf(K)
    <3>1. \A x \in i .. j : x \in 1 .. Len(K)
      BY <1>1, <1>3
    <3>2. \A x \in i .. j : K[x].node \in NodesOf(K)
      BY <3>1 DEF NodesOf
    <3> QED BY <1>4, <1>6, <3>2
  <2>2. B[1].node \in NodesOf(B) /\ B[Len(B)].node \in NodesOf(B)
    BY <1>1, <1>3, <1>5 DEF NodesOf
  <2> QED BY <1>2, <1>6, <1>8, <2>1, <2>2
<1>11. Len(nodes) # 1 => Several(ToSet(nodes))
  <2>1. Len(B) # 1 => Len(B) >= 2
    BY <1>6, <1>8
  <2> QED BY <1>5, <1>6, <2>1, KidsLength DEF Several
<1>12. Len(nodes) = 1 => ToSet(nodes) = {nodes[1]} /\ i = j
  <2>1. Len(B) = 1 => NodesOf(B) = {B[1].node}
    BY <1>5, KidsLength
  <2>4. i \in Int /\ j \in Int
    BY <1>1, <1>3
  <2>2. ASSUME Len(B) = 1 PROVE i = j
    <3>1. (j - i) + 1 = 1
      BY Zenon, <1>5, <2>2
    <3> QED BY <2>4, <3>1
  <2>3. Len(B) = 1 => nodes[1] = B[1].node
    BY <1>6
  <2> QED BY <1>6, <2>1, <2>2, <2>3
<1>13. Cardinality(NodesOf(B)) = Len(B) /\ Cardinality(NodesOf(K)) = Len(K)
       /\ IsFiniteSet(NodesOf(K))
  BY <1>2, <1>5, KidsCounted
<1>14. Len(nodes) = Len(K) => ToSet(nodes) = Children(l.up, p)
  <2>1. ASSUME Len(nodes) = Len(K) PROVE ToSet(nodes) = NodesOf(K)
    <3>1. ToSet(nodes) \subseteq NodesOf(K)
      BY <1>2, <1>10
    <3> QED BY <1>6, <1>13, <2>1, <3>1, FS_Subset
  <2> QED BY <1>2, <2>1
<1>15. Len(nodes) # Len(K) => Children(l.up, p) \ ToSet(nodes) # {}
  <2>1. Children(l.up, p) \ ToSet(nodes) = {} => ToSet(nodes) = NodesOf(K)
    BY <1>2, <1>10
  <2> QED BY <1>6, <1>13, <2>1
<1> QED BY <1>5, <1>6, <1>7, <1>8, <1>9, <1>10, <1>11, <1>12, <1>14, <1>15 DEF K, B

\* A group between p and some of its children.
LEMMA GroupedIn ==
  ASSUME NEW r, NEW a, NEW k, NEW u, Forest(r, a, k, u, {r}, {}), Links(u),
         NEW p \in DOMAIN k, NEW S, S \subseteq Children(u, p), Children(u, p) \ S # {},
         Several(S),
         NEW g \in Split, g \notin DOMAIN u,
         NEW a2, a2 \in [DOMAIN k \cup {g} -> Axis],
         NEW k2, DOMAIN k2 = DOMAIN k \cup {g}, \A s \in DOMAIN k : s # p => k2[s] = k[s],
         KidsFor(k2[p], (Children(u, p) \ S) \cup {g}), KidsFor(k2[g], S)
  PROVE  Forest(r, a2, k2, Parented(Parented(u, p, (Children(u, p) \ S) \cup {g}), g, S), {r}, {})
<1>1. KidsFor(k[p], Children(u, p)) /\ DOMAIN k \subseteq DOMAIN u /\ NoNode \notin DOMAIN k
      /\ r \in DOMAIN u
      /\ u[r] = NoNode
  BY NoNodeAssumption DEF Forest
<1> DEFINE Rest == Children(u, p) \ S
           K1 == Normalized(Among(k[p], Rest))
<1>2. KidsFor(K1, Rest)
  <2>1. k[p] \in Seq(KidRec) /\ Distinct(k[p]) /\ NodesOf(k[p]) = Children(u, p)
    BY <1>1 DEF KidsFor
  <2>2. /\ Among(k[p], Rest) \in Seq(KidRec) /\ Distinct(Among(k[p], Rest))
        /\ NodesOf(Among(k[p], Rest)) = NodesOf(k[p]) \cap Rest
    BY <2>1, KidsAmong
  <2>3. NodesOf(k[p]) \cap Rest = Rest /\ Rest # {}
    BY <2>1
  <2> QED BY <2>2, <2>3, NormalizedKids
<1> HIDE DEF K1
<1> DEFINE k1 == [s \in DOMAIN k2 |-> IF s = p THEN K1 ELSE k2[s]]
           u1 == Parented(Set(Loosened(u, S), g, NoNode), g, S)
<1>3. g # p /\ g \notin DOMAIN k
  BY <1>1
<1>4. DOMAIN k1 = DOMAIN k2 /\ k1[p] = K1 /\ k1[g] = k2[g] /\ \A s \in DOMAIN k2 : s # p
      => k1[s] = k2[s]
  BY <1>3
<1> HIDE DEF k1, u1, Rest
<1>5. Forest(r, a2, k1, u1, {r} \cup {g}, {p})
  <2>1. KidsFor(k1[p], Children(u, p) \ S) /\ KidsFor(k1[g], S)
    BY <1>2, <1>4 DEF Rest
  <2>2. DOMAIN k1 = DOMAIN k \cup {g} /\ \A s \in DOMAIN k : s # p => k1[s] = k[s]
    BY <1>4
  <2> QED BY <2>1, <2>2, GroupedOut DEF u1
<1>6. DOMAIN u1 = DOMAIN u \cup {g} /\ u1[g] = NoNode /\ (\A n \in S : u1[n] = g)
      /\ \A n \in DOMAIN u \ S : u1[n] = u[n]
  <2>1. S \subseteq DOMAIN u /\ g \notin S
    BY DEF Children
  <2> QED BY <2>1 DEF u1, Parented, Set, Loosened
<1> DEFINE A == Up(u, p)
<1>7. Upward(u1, A) /\ p \in A /\ g \notin A
  <2>1. A \subseteq DOMAIN u /\ p \in A /\ Upward(u, A)
    BY <1>1, UpIsUpward
  <2>2. ASSUME NEW n \in S PROVE n \notin A
    <3>1. n \in DOMAIN u /\ u[n] = p /\ u[n] # NoNode
      BY <1>1 DEF Children
    <3> HIDE DEF A
    <3> QED BY <3>1, UpNotBack DEF A
  <2> HIDE DEF A
  <2>3. \A n \in A : u1[n] = u[n]
    BY <1>6, <2>1, <2>2
  <2> QED BY <1>6, <2>1, <2>3 DEF Upward
<1> HIDE DEF A
<1> DEFINE u2 == Parented(u1, p, {g})
<1>8. Children(u1, p) = Rest
  <2>1. p # g /\ p # NoNode
    BY <1>1, <1>3
  <2>2. ASSUME NEW n \in Children(u1, p) PROVE n \in Rest
    <3>1. n \in DOMAIN u1 /\ u1[n] = p
      BY DEF Children
    <3>2. n # g /\ n \notin S /\ n \in DOMAIN u
      BY <1>6, <2>1, <3>1
    <3> QED BY <1>6, <3>1, <3>2 DEF Children, Rest
  <2>3. ASSUME NEW n \in Rest PROVE n \in Children(u1, p)
    BY <1>6 DEF Children, Rest
  <2> QED BY <2>2, <2>3
<1>9. Forest(r, a2, k2, u2, ({r} \cup {g}) \ {g}, {p} \ {p})
  <2>1. g \in Pane \cup Split /\ g # r /\ (g \in DOMAIN u1 => u1[g] = NoNode)
        /\ (g \notin DOMAIN u1 => g \in Pane)
    BY <1>1, <1>6
  <2>2. p \in DOMAIN k1
    BY <1>4
  <2>3. DOMAIN k2 = DOMAIN k1 /\ \A s \in DOMAIN k1 : s # p => k2[s] = k1[s]
    BY <1>4
  <2>4. KidsFor(k2[p], Children(u1, p) \cup {g})
    BY <1>8 DEF Rest
  <2> QED BY <1>5, <1>7, <2>1, <2>2, <2>3, <2>4, Attached
<1>10. ({r} \cup {g}) \ {g} = {r} /\ {p} \ {p} = {}
  BY <1>1
<1>11. u2 = Parented(Parented(u, p, Rest \cup {g}), g, S)
  <2> DEFINE v == Parented(u, p, Rest \cup {g}) u3 == Parented(v, g, S)
  <2>1. Rest \subseteq DOMAIN u /\ S \subseteq DOMAIN u /\ Rest \cap S = {} /\ g \notin S
        /\ p # NoNode
        /\ \A n \in Rest : u[n] = p
    BY <1>1 DEF Rest, Children
  <2>2. DOMAIN v = DOMAIN u \cup {g} /\ DOMAIN u3 = DOMAIN u \cup {g}
        /\ DOMAIN u2 = DOMAIN u \cup {g}
    BY <1>6, <2>1 DEF Parented
  <2>3. ASSUME NEW n \in DOMAIN u \cup {g} PROVE u3[n] = u2[n]
    <3>1. CASE n = g
      BY <1>6, <2>1, <3>1 DEF Parented
    <3>2. CASE n \in S
      BY <1>6, <2>1, <3>2 DEF Parented
    <3>3. CASE n \in DOMAIN u \ (S \cup {g})
      <4>1. u2[n] = u[n]
        BY <1>6, <3>3 DEF Parented
      <4>2. v[n] = u[n]
        BY <2>1, <3>3 DEF Parented
      <4>3. u3[n] = v[n]
        BY <2>2, <3>3 DEF Parented
      <4> QED BY <4>1, <4>2, <4>3
    <3> QED BY <3>1, <3>2, <3>3
  <2>4. u3 = [n \in DOMAIN u3 |-> u3[n]] /\ u2 = [n \in DOMAIN u2 |-> u2[n]]
    BY DEF Parented
  <2> HIDE DEF u3, u2
  <2>5. u2 = u3
    BY <2>2, <2>3, <2>4
  <2> QED BY <2>5 DEF u3
<1> HIDE DEF u2
<1> QED BY <1>9, <1>10, <1>11 DEF Rest

\* A selection of the root, or of neighbours below one split, with its ends.
SelOK(l, sel) ==
  /\ sel = [parent |-> sel.parent, anchor |-> sel.anchor, active |-> sel.active,
     nodes |-> sel.nodes]
  /\ {sel.anchor, sel.active} = {sel.nodes[1], sel.nodes[Len(sel.nodes)]}
  /\ \/ sel.parent = NoNode /\ sel.nodes = <<l.root>>
     \/ \E i, j : Ranged(l, sel.parent, sel.nodes, i, j)

\* What such a selection is to the properties of a layout.
LEMMA SelParts ==
  ASSUME NEW l, Grove(l, {l.root}, {}), NEW sel, SelOK(l, sel)
  PROVE  /\ sel.nodes \in Seq(Pane \cup Split) /\ Len(sel.nodes) \in Nat \ {0}
         /\ ToSet(sel.nodes) \subseteq DOMAIN l.up
         /\ sel.nodes[1] \in ToSet(sel.nodes) /\ sel.nodes[Len(sel.nodes)] \in ToSet(sel.nodes)
         /\ sel.anchor \in ToSet(sel.nodes) /\ sel.active \in ToSet(sel.nodes)
         /\ (\A n \in ToSet(sel.nodes) : l.up[n] = sel.parent)
         /\ (sel.parent = NoNode => sel.nodes = <<l.root>>)
         /\ (Len(sel.nodes) = 1 => ToSet(sel.nodes) = {sel.nodes[1]})
         /\ (sel.parent # NoNode => sel.parent \in DOMAIN l.kids
                                    /\ \E i, j : Ranged(l, sel.parent, sel.nodes, i, j))
<1>1. /\ DOMAIN l.up \subseteq Pane \cup Split /\ DOMAIN l.kids \subseteq DOMAIN l.up
         /\ NoNode \notin DOMAIN l.up
      /\ l.root \in DOMAIN l.up /\ l.up[l.root] = NoNode
  BY GroveParts
<1>2. CASE sel.parent = NoNode /\ sel.nodes = <<l.root>>
  <2>1. l.root \in Pane \cup Split
    BY <1>1
  <2>2. sel.nodes \in Seq(Pane \cup Split) /\ Len(sel.nodes) = 1 /\ sel.nodes[1] = l.root
    BY <1>2, <2>1
  <2>3. ToSet(sel.nodes) = {l.root}
    BY <1>2 DEF ToSet
  <2>4. sel.anchor = l.root /\ sel.active = l.root
    <3>1. {sel.anchor, sel.active} = {sel.nodes[1], sel.nodes[Len(sel.nodes)]}
      BY DEF SelOK
    <3>2. {sel.anchor, sel.active} = {l.root}
      BY <2>2, <3>1
    <3> QED BY <3>2
  <2> QED BY <1>1, <1>2, <2>2, <2>3, <2>4
<1>3. CASE \E i, j : Ranged(l, sel.parent, sel.nodes, i, j)
  <2>1. PICK i, j : Ranged(l, sel.parent, sel.nodes, i, j)
    BY <1>3
  <2>2. /\ sel.nodes \in Seq(Pane \cup Split) /\ Len(sel.nodes) \in Nat \ {0}
        /\ ToSet(sel.nodes) \subseteq Children(l.up, sel.parent)
        /\ sel.nodes[1] \in ToSet(sel.nodes) /\ sel.nodes[Len(sel.nodes)] \in ToSet(sel.nodes)
        /\ (Len(sel.nodes) = 1 => ToSet(sel.nodes) = {sel.nodes[1]})
    BY <2>1, RangedParts
  <2>3. sel.parent \in DOMAIN l.kids
    BY <2>1 DEF Ranged
  <2>4. ToSet(sel.nodes) \subseteq DOMAIN l.up /\ \A n \in ToSet(sel.nodes) : l.up[n] = sel.parent
    BY <2>2 DEF Children
  <2>5. sel.anchor \in ToSet(sel.nodes) /\ sel.active \in ToSet(sel.nodes)
    <3>1. {sel.anchor, sel.active} = {sel.nodes[1], sel.nodes[Len(sel.nodes)]}
      BY DEF SelOK
    <3> QED BY <2>2, <3>1
  <2>6. sel.parent # NoNode
    BY <1>1, <2>3
  <2> QED BY <1>3, <2>2, <2>3, <2>4, <2>5, <2>6
<1> QED BY <1>2, <1>3 DEF SelOK

\* Where two children of a split stand.
LEMMA IndexOfChild ==
  ASSUME NEW l, NEW tops, NEW thin, Grove(l, tops, thin), NEW p \in DOMAIN l.kids,
         NEW n \in Children(l.up, p)
  PROVE  /\ ChildIndex(l, p, n) \in 1 .. Len(l.kids[p]) /\ l.kids[p][ChildIndex(l, p, n)].node = n
         /\ l.up[n] = p /\ n \in DOMAIN l.up /\ p # NoNode
<1>1. l.up[n] = p /\ n \in DOMAIN l.up
  BY DEF Children
<1>2. p # NoNode
  BY GroveParts
<1> QED BY <1>1, <1>2, GroveIndex

\* PaneSelection::range selects the two ends and what stands between them.
LEMMA RangeIsSel ==
  ASSUME NEW l, Grove(l, {l.root}, {}), NEW p \in DOMAIN l.kids,
         NEW m \in Children(l.up, p), NEW n \in Children(l.up, p)
  PROVE  SelOK(l, RangeSelection(l, m, n)) /\ RangeSelection(l, m, n).parent = p
<1> DEFINE a == ChildIndex(l, p, m) b == ChildIndex(l, p, n)
           first == IF a <= b THEN a ELSE b
           last == IF a <= b THEN b ELSE a
           nodes == SubSeq(KidNodes(l.kids[p]), first, last)
           sel == RangeSelection(l, m, n)
<1>1. /\ a \in 1 .. Len(l.kids[p]) /\ l.kids[p][a].node = m /\ l.up[m] = p
      /\ b \in 1 .. Len(l.kids[p]) /\ l.kids[p][b].node = n
  BY IndexOfChild
<1>2. sel = [parent |-> p, anchor |-> m, active |-> n, nodes |-> nodes]
  BY <1>1, Zenon DEF RangeSelection, SelectionOf
<1>3. l.kids[p] \in Seq(KidRec)
  BY GroveKids
<1>4. first \in 1 .. Len(l.kids[p]) /\ last \in first .. Len(l.kids[p])
  <2>1. Len(l.kids[p]) \in Nat
    BY <1>3
  <2> HIDE DEF a, b
  <2> QED BY <1>1, <2>1
<1>5. {l.kids[p][first].node, l.kids[p][last].node} = {m, n}
  <2> HIDE DEF a, b
  <2>1. (first = a /\ last = b) \/ (first = b /\ last = a)
    OBVIOUS
  <2> HIDE DEF first, last
  <2> QED BY <1>1, <2>1
<1> HIDE DEF first, last, a, b
<1>6. Ranged(l, p, nodes, first, last)
  BY <1>4 DEF Ranged
<1> HIDE DEF nodes, sel
<1>7. nodes[1] = l.kids[p][first].node /\ nodes[Len(nodes)] = l.kids[p][last].node
  BY <1>6, RangedParts
<1>8. sel.parent = p /\ sel.anchor = m /\ sel.active = n /\ sel.nodes = nodes
  BY <1>2
<1>9. {sel.anchor, sel.active} = {sel.nodes[1], sel.nodes[Len(sel.nodes)]}
  BY <1>5, <1>7, <1>8
<1>10. SelOK(l, sel)
  BY <1>2, <1>6, <1>8, <1>9, Zenon DEF SelOK
<1> QED BY <1>8, <1>10 DEF sel

\* A list of one element.
LEMMA SingletonList ==
  ASSUME NEW S, NEW s \in Seq(S), Len(s) = 1
  PROVE  s = <<s[1]>>
  OBVIOUS

\* PaneSelection::single selects one node.
LEMMA SingleIsSel ==
  ASSUME NEW l, Grove(l, {l.root}, {}), NEW n \in DOMAIN l.up
  PROVE  /\ SelOK(l, SingleSelection(l, n)) /\ SingleSelection(l, n).nodes = <<n>>
         /\ SingleSelection(l, n).active = n
<1> DEFINE sel == SingleSelection(l, n) p == l.up[n]
<1>1. sel = [parent |-> p, anchor |-> n, active |-> n, nodes |-> <<n>>]
  BY DEF SingleSelection, SelectionOf
<1>2. n \in Pane \cup Split /\ l.up \in [DOMAIN l.up -> DOMAIN l.kids \cup {NoNode}]
  BY GroveParts
<1>3. sel.parent = p /\ sel.anchor = n /\ sel.active = n /\ sel.nodes = <<n>>
  BY <1>1
<1> HIDE DEF sel
<1>4. {sel.anchor, sel.active} = {sel.nodes[1], sel.nodes[Len(sel.nodes)]}
  <2>1. sel.nodes[1] = n /\ Len(sel.nodes) = 1
    BY <1>2, <1>3
  <2> QED BY <1>3, <2>1
<1>5. CASE p = NoNode
  <2>1. n = l.root
    BY <1>5, OneTop
  <2> QED BY <1>1, <1>3, <1>4, <1>5, <2>1, Zenon DEF SelOK, sel
<1>6. CASE p # NoNode
  <2> DEFINE i == ChildIndex(l, p, n)
  <2>1. p \in DOMAIN l.kids /\ i \in 1 .. Len(l.kids[p]) /\ l.kids[p][i].node = n
    BY <1>6, GroveIndex
  <2>2. l.kids[p] \in Seq(KidRec)
    BY <2>1, GroveKids
  <2> HIDE DEF i
  <2>3. KidNodes(l.kids[p]) \in Seq(Pane \cup Split) /\ Len(KidNodes(l.kids[p]))
        = Len(l.kids[p]) /\ KidNodes(l.kids[p])[i] = n
    BY <2>1, <2>2, KidNodesOf
  <2>4. SubSeq(KidNodes(l.kids[p]), i, i) = <<n>>
    <3> DEFINE s == KidNodes(l.kids[p])
    <3>1. s \in Seq(Pane \cup Split) /\ i \in 1 .. Len(s) /\ s[i] = n
      BY <2>1, <2>3
    <3> HIDE DEF s
    <3> DEFINE x == SubSeq(s, i, i)
    <3>2. Len(x) = 1 /\ x[1] = s[i] /\ x \in Seq(Pane \cup Split)
      BY <3>1
    <3> HIDE DEF x
    <3>3. x = <<x[1]>>
      BY <3>2, SingletonList
    <3>4. x = <<n>>
      BY <3>1, <3>2, <3>3
    <3> QED BY <3>4, Zenon DEF s, x
  <2>5. i \in i .. Len(l.kids[p])
    BY <2>1
  <2>6. Ranged(l, p, <<n>>, i, i)
    BY <2>1, <2>4, <2>5 DEF Ranged
  <2> QED BY <1>1, <1>3, <1>4, <2>6, Zenon DEF SelOK, sel
<1> QED BY <1>5, <1>6

\* PaneSelection::step extends or shrinks the range at its active end.
LEMMA SteppedIsSel ==
  ASSUME NEW l, Grove(l, {l.root}, {}), NEW sel, SelOK(l, sel), sel.parent # NoNode, NEW toNext
  PROVE  SelOK(l, SteppedSelection(l, sel, toNext))
<1> DEFINE p == sel.parent K == l.kids[p]
           i == ChildIndex(l, p, sel.active) + (IF toNext THEN 1 ELSE -1)
<1>1. p \in DOMAIN l.kids /\ sel.anchor \in Children(l.up, p)
  BY SelParts DEF Children
<1>2. K \in Seq(KidRec) /\ NodesOf(K) = Children(l.up, p)
  BY <1>1, GroveKids
<1>3. i \in DOMAIN K => K[i].node \in Children(l.up, p)
  <2> HIDE DEF i, K
  <2> QED BY <1>2, KidsAt
<1>4. i \in DOMAIN K => SelOK(l, RangeSelection(l, sel.anchor, K[i].node))
  BY <1>1, <1>3, RangeIsSel
<1> QED BY <1>4, Zenon DEF SteppedSelection

\* PaneSelection::promote selects the parent, ::descend the first child.
LEMMA LevelsAreSel ==
  ASSUME NEW l, Grove(l, {l.root}, {}), NEW sel, SelOK(l, sel)
  PROVE  SelOK(l, PromotedSelection(l, sel)) /\ SelOK(l, DescendedSelection(l, sel))
<1>1. /\ sel.active \in DOMAIN l.up /\ sel.nodes[1] \in DOMAIN l.up
  BY SelParts
<1>2. SelOK(l, PromotedSelection(l, sel))
  <2>1. l.up[sel.active] # NoNode => l.up[sel.active] \in DOMAIN l.up
    BY <1>1, GroveParts
  <2>2. l.up[sel.active] # NoNode => SelOK(l, SingleSelection(l, l.up[sel.active]))
    BY <2>1, SingleIsSel
  <2> QED BY <2>2 DEF PromotedSelection
<1>3. SelOK(l, DescendedSelection(l, sel))
  <2> DEFINE n == sel.nodes[1] c == l.kids[n][1].node
  <2>1. ASSUME ~IsLeaf(l, n) PROVE SelOK(l, SingleSelection(l, c))
    <3>1. n \in DOMAIN l.kids
      BY <2>1, GroveParts
    <3>2. l.kids[n] \in Seq(KidRec) /\ NodesOf(l.kids[n]) = Children(l.up, n)
          /\ Distinct(l.kids[n])
          /\ Children(l.up, n) # {}
      BY <3>1, GroveKids
    <3>3. Len(l.kids[n]) \in Nat /\ Len(l.kids[n]) # 0
      <4>1. (Len(l.kids[n]) = 0 <=> NodesOf(l.kids[n]) = {}) /\ Len(l.kids[n]) \in Nat
        BY <3>2, KidsLength
      <4> QED BY <3>2, <4>1
    <3>4. c \in Children(l.up, n)
      <4>1. 1 \in 1 .. Len(l.kids[n])
        BY <3>3
      <4> QED BY <3>2, <4>1, KidsAt
    <3> QED BY <3>4, SingleIsSel DEF Children
  <2> QED BY <2>1 DEF DescendedSelection
<1> QED BY <1>2, <1>3

\* select_nodes (pane_rotate.cc) selects siblings that stand next to each other.
LEMMA SelectedNodesAreSel ==
  ASSUME NEW l, Grove(l, {l.root}, {}), NEW nodes, Len(nodes) \in Nat \ {0},
         NEW q \in DOMAIN l.kids,
         \A i \in 1 .. Len(nodes) : nodes[i] \in Children(l.up, q), NEW anchorFirst \in BOOLEAN
  PROVE  SelOK(l, SelectNodes(l, nodes, anchorFirst))
<1>1. nodes[1] \in Children(l.up, q) /\ nodes[Len(nodes)] \in Children(l.up, q)
  <2>1. 1 \in 1 .. Len(nodes) /\ Len(nodes) \in 1 .. Len(nodes)
    OBVIOUS
  <2> QED BY <2>1
<1>2. nodes[1] \in DOMAIN l.up
  BY <1>1 DEF Children
<1>3. SelOK(l, SingleSelection(l, nodes[1]))
  BY <1>2, SingleIsSel
<1>4. /\ SelOK(l, RangeSelection(l, nodes[1], nodes[Len(nodes)]))
      /\ SelOK(l, RangeSelection(l, nodes[Len(nodes)], nodes[1]))
  BY <1>1, RangeIsSel
<1> QED BY <1>3, <1>4 DEF SelectNodes

\* In m the children i to j of p hang below a new group g, in their order and in their place.
RangeGrouped(l, p, i, j, g, m) ==
  LET range == Cut(l.kids[p], i, j) IN
  /\ g \in Split /\ g \notin DOMAIN l.up /\ range \in Seq(KidRec)
  /\ NodesOf(range) \subseteq Children(l.up, p) /\ m.up[g] = p
  /\ DOMAIN m.up = DOMAIN l.up \cup {g} /\ DOMAIN m.kids = DOMAIN l.kids \cup {g}
  /\ \A n \in DOMAIN l.up : m.up[n] = IF n \in NodesOf(range) THEN g ELSE l.up[n]
  /\ \A q \in DOMAIN l.kids : q # p => m.kids[q] = l.kids[q]
  /\ m.kids[g] \in Seq(KidRec) /\ KidNodes(m.kids[g]) = KidNodes(range)
  /\ Len(range) \in Nat /\ i \in 1 .. Len(l.kids[p]) + 1
     /\ (i + Len(range)) - 1 = j /\ j <= Len(l.kids[p])
  /\ \E new \in Seq(KidRec) :
       /\ Len(new) = 1 /\ NodesOf(new) = {g}
       /\ m.kids[p] = Replace(l.kids[p], i, Len(range), new)
\* The axes in m: those of the splits in the range S are turned, the group goes across p.
RangeTurned(l, p, S, g, m) ==
  /\ m.root = l.root /\ m.axis[g] = Across(l.axis[p])
  /\ \A q \in DOMAIN l.kids :
       m.axis[q] = ToggleAxes(l, UNION {Below(l, n) : n \in S}).axis[q]

\* rotate_sibling_range keeps the tree, and makes a group of the range.
LEMMA RotateRangeLists ==
  ASSUME NEW l, Grove(l, {l.root}, {}), SplitsNeverRunOut, NEW sel, NEW i, NEW j,
         Ranged(l, sel.parent, sel.nodes, i, j), ~WholeLevel(l, sel), Len(sel.nodes) # 1
  PROVE  LET m == RotateRange(l, sel).layout
             g == RotateRange(l, sel).group
         IN  Grove(m, {m.root}, {}) /\ Nodes(m) \cap Pane = Nodes(l) \cap Pane
             /\ g \in DOMAIN m.up /\ RangeGrouped(l, sel.parent, i, j, g, m)
             /\ RangeTurned(l, sel.parent, ToSet(sel.nodes), g, m)
<1> DEFINE p == sel.parent K == l.kids[p]
           S == ToSet(sel.nodes)
           B == UNION {Below(l, n) : n \in S}
           t == ToggleAxes(l, B)
           g == FreshSplit(l)
           range == Cut(K, i, j)
           group == Kid(g, SumOf(range))
           R == Replace(K, i, Len(range), <<group>>)
           x == Across(l.axis[p])
           N == Normalized(range)
           m == RotateRange(l, sel).layout
<1>1. p \in DOMAIN l.kids /\ i \in 1 .. Len(K) /\ j \in i .. Len(K)
  BY DEF Ranged
<1>2. /\ Len(sel.nodes) = (j - i) + 1 /\ ChildIndex(l, p, sel.nodes[1]) = i
      /\ S = NodesOf(range) /\ S \subseteq Children(l.up, p) /\ range \in Seq(KidRec)
         /\ Distinct(range)
      /\ Len(range) = (j - i) + 1 /\ Several(S) /\ Children(l.up, p) \ S # {}
  <2>1. Len(sel.nodes) # Len(K)
    BY DEF WholeLevel
  <2> QED BY <2>1, RangedParts
<1>3. K \in Seq(KidRec) /\ Distinct(K) /\ NodesOf(K) = Children(l.up, p) /\ SumOf(K) = Full
  BY <1>1, GroveKids
<1>4. /\ Grove(t, {l.root}, {}) /\ t.root = l.root /\ t.kids = l.kids /\ t.up = l.up
         /\ Nodes(t) = Nodes(l)
  BY ToggleGrove
<1>5. g \in Split /\ g \notin DOMAIN l.up
  BY FreshSplitIsNew DEF Nodes
<1>6. RotateRange(l, sel).group = g
  BY Zenon DEF RotateRange
<1> HIDE DEF K, S, B, t, g
<1>7. m = NewSplit(Adopt(t, p, R), g, x, N)
  <2>1. i + Len(sel.nodes) - 1 = j
    <3>1. i \in Int /\ j \in Int
      BY <1>1, <1>3
    <3>2. \A y : y = (j - i) + 1 => i + (y - 1) = j
      BY <3>1
    <3>3. Len(sel.nodes) = (j - i) + 1
      BY <1>2
    <3> QED BY <3>2, <3>3, Zenon
  <2>2. m = NewSplit(Adopt(t, p, Replace(l.kids[p], i, Len(range), <<group>>)), g, x, N)
    <3> DEFINE i2 == ChildIndex(l, p, sel.nodes[1])
               r2 == SubSeq(l.kids[p], i2, i2 + Len(sel.nodes) - 1)
               m2 == NewSplit(Adopt(t, p, Replace(l.kids[p], i2, Len(r2),
                                                  <<Kid(g, Total(Weights(r2)))>>)), g, x,
                                                  Normalized(r2))
    <3>a. RotateRange(l, sel) = [layout |-> m2, group |-> g]
      BY Zenon DEF RotateRange, t, g, B, S
    <3>1. m = m2
      <4> HIDE DEF m2
      <4> QED BY <3>a
    <3>2. SubSeq(l.kids[p], i, j) = range
      BY Zenon DEF Cut, K
    <3>3. group = Kid(g, Total(Weights(range)))
      BY Zenon DEF SumOf
    <3> HIDE DEF range, group, x
    <3> QED BY <1>2, <2>1, <3>1, <3>2, <3>3, Zenon
  <2> QED BY <2>2, Zenon DEF K
<1> HIDE DEF range, m
<1>8. N \in Seq(KidRec) /\ KidsFor(N, S) /\ NodesOf(N) = S /\ KidNodes(N) = KidNodes(range)
  <2>1. NodesOf(range) # {}
    BY <1>2 DEF Several
  <2>2. KidsFor(N, NodesOf(range)) /\ KidNodes(N) = KidNodes(range)
    BY <1>2, <2>1, NormalizedKids
  <2> QED BY <1>2, <2>2 DEF KidsFor
<1> HIDE DEF N
<1>9. R \in Seq(KidRec) /\ Distinct(R) /\ NodesOf(R) = (Children(l.up, p) \ S) \cup {g}
      /\ SumOf(R) = Full
      /\ Len(range) \in Nat /\ (i + Len(range)) - 1 = j /\ i \in 1 .. Len(K) + 1 /\ j <= Len(K)
      /\ \E new \in Seq(KidRec) : Len(new) = 1 /\ NodesOf(new) = {g}
                                 /\ R = Replace(K, i, Len(range), new)
  <2>1. /\ <<group>> \in Seq(KidRec) /\ Len(<<group>>) = 1 /\ NodesOf(<<group>>) = {g}
           /\ Distinct(<<group>>)
        /\ SumOf(<<group>>) = SumOf(range)
    <3>1. g \in Pane \cup Split /\ SumOf(range) \in Nat
      BY <1>2, <1>5, SumNat
    <3> QED BY <3>1, KidsOne
  <2> HIDE DEF group
  <2> DEFINE new == <<group>> n == Len(range)
  <2> HIDE DEF new
  <2>2. n \in Nat /\ (i + n) - 1 = j /\ i \in 1 .. Len(K) + 1 /\ j <= Len(K)
    <3>1. i \in Int /\ j \in Int /\ Len(K) \in Nat /\ i <= j /\ i <= Len(K) /\ 1 <= i
          /\ j <= Len(K)
      BY <1>1, <1>3
    <3>2. n = (j - i) + 1
      BY <1>2
    <3> HIDE DEF n
    <3> QED BY <3>1, <3>2
  <2> HIDE DEF n
  <2>3. NodesOf(new) \cap NodesOf(K) \subseteq NodesOf(Cut(K, i, (i + n) - 1))
    <3>1. g \notin Children(l.up, p)
      BY <1>5 DEF Children
    <3> QED BY <1>3, <2>1, <3>1 DEF new
  <2>4. new \in Seq(KidRec) /\ Distinct(new)
    BY <2>1 DEF new
  <2>5. LET C == Cut(K, i, (i + n) - 1) P == Replace(K, i, n, new)
        IN  /\ P \in Seq(KidRec) /\ Distinct(P) /\ NodesOf(P) = (NodesOf(K) \ NodesOf(C))
               \cup NodesOf(new)
            /\ SumOf(P) = (SumOf(K) - SumOf(C)) + SumOf(new)
    <3>1. (i + n) - 1 <= Len(K)
      BY <2>2
    <3> QED BY <1>3, <2>2, <2>3, <2>4, <3>1, KidsReplaced
  <2>6. Cut(K, i, (i + n) - 1) = range
    BY <2>2 DEF range
  <2>7. R = Replace(K, i, n, new)
    BY DEF n, new
  <2>8. SumOf(range) \in Nat /\ SumOf(new) = SumOf(range) /\ SumOf(K) = Full /\ Full \in Nat
    BY <1>2, <1>3, <2>1, SumNat, FullAssumption DEF new
  <2> HIDE DEF R, range
  <2>9. SumOf(R) = Full
    <3>1. SumOf(R) = (Full - SumOf(range)) + SumOf(range)
      BY <2>5, <2>6, <2>7, <2>8
    <3> QED BY <2>8, <3>1
  <2>10. NodesOf(R) = (Children(l.up, p) \ S) \cup {g}
    BY <1>2, <1>3, <2>1, <2>5, <2>6, <2>7 DEF new
  <2>11. \E y \in Seq(KidRec) : Len(y) = 1 /\ NodesOf(y) = {g}
                                 /\ R = Replace(K, i, Len(range), y)
    <3>1. Len(new) = 1 /\ NodesOf(new) = {g}
      BY <2>1 DEF new
    <3> QED BY <2>4, <2>7, <3>1 DEF n
  <2>12. Len(range) \in Nat /\ (i + Len(range)) - 1 = j /\ i \in 1 .. Len(K) + 1 /\ j <= Len(K)
    BY <2>2 DEF n
  <2> QED BY <2>5, <2>7, <2>9, <2>10, <2>11, <2>12
<1> HIDE DEF R, group
<1> DEFINE r == l.root a == t.axis k == l.kids u == l.up
           a2 == Set(a, g, x)
           k2 == Set(Set(k, p, R), g, N)
           u2 == Parented(Parented(u, p, (Children(u, p) \ S) \cup {g}), g, S)
<1>10. Forest(r, a, k, u, {r}, {}) /\ t = Lay(r, a, k, u)
  BY <1>4 DEF Grove
<1>11. l.axis \in [DOMAIN l.kids -> Axis] /\ a \in [DOMAIN k -> Axis]
       /\ DOMAIN l.kids \subseteq DOMAIN l.up
       /\ Nodes(l) = DOMAIN l.up
  <2>1. t.axis \in [DOMAIN t.kids -> Axis]
    BY <1>4, GroveParts
  <2> QED BY <1>4, <2>1, GroveParts
<1>12. x \in Axis
  BY <1>1, <1>11 DEF Across, Axis
<1> HIDE DEF r, a, u, x
<1>13. m = Lay(r, a2, k2, u2)
  <2> HIDE DEF k
  <2>a. R \in Seq(KidRec)
    BY <1>9
  <2>1. Adopt(Lay(r, a, k, u), p, R) = Lay(r, a, Set(k, p, R), Parented(u, p, NodesOf(R)))
    BY <2>a, AdoptParts
  <2>2. NewSplit(Lay(r, a, Set(k, p, R), Parented(u, p, NodesOf(R))), g, x, N)
          = Lay(r, a2, k2, Parented(Parented(u, p, NodesOf(R)), g, NodesOf(N)))
    BY <1>8, NewSplitParts
  <2>3. NodesOf(R) = (Children(u, p) \ S) \cup {g} /\ NodesOf(N) = S
    BY <1>8, <1>9 DEF u
  <2> HIDE DEF a2, k2
  <2> QED BY <1>7, <1>10, <2>1, <2>2, <2>3, Zenon
<1>0. DOMAIN k2 = DOMAIN k \cup {g} /\ k2[p] = R /\ k2[g] = N
      /\ \A s \in DOMAIN k : s # p => k2[s] = k[s]
  <2>1. g \notin DOMAIN k /\ p \in DOMAIN k
    BY <1>1, <1>5, <1>11
  <2> HIDE DEF k
  <2> QED BY <2>1 DEF Set
<1>14. Forest(r, a2, k2, u2, {r}, {})
  <2>1. Links(u)
    BY GroveLinks DEF u
  <2>2. p \in DOMAIN k /\ S \subseteq Children(u, p) /\ Children(u, p) \ S # {} /\ Several(S)
        /\ g \in Split /\ g \notin DOMAIN u
    BY <1>1, <1>2, <1>5 DEF u
  <2>3. a2 \in [DOMAIN k \cup {g} -> Axis]
    <3> HIDE DEF k
    <3> QED BY <1>11, <1>12 DEF Set
  <2>4. DOMAIN k2 = DOMAIN k \cup {g} /\ k2[p] = R /\ k2[g] = N /\ \A s \in DOMAIN k : s # p
        => k2[s] = k[s]
    BY <1>0
  <2>5. KidsFor(k2[p], (Children(u, p) \ S) \cup {g}) /\ KidsFor(k2[g], S)
    BY <1>8, <1>9, <2>4 DEF KidsFor, u
  <2> HIDE DEF k, k2, a2
  <2> QED BY <1>10, <2>1, <2>2, <2>3, <2>4, <2>5, GroupedIn
<1> HIDE DEF a2, k, k2, u2
<1>15. Grove(m, {r}, {}) /\ m.root = r /\ m.up = u2 /\ m.kids = k2
  BY <1>13, <1>14, GroveOf, LayParts
<1>16. DOMAIN u2 = DOMAIN u \cup {g} /\ u2[g] = p
       /\ \A n \in DOMAIN u : u2[n] = IF n \in S THEN g ELSE u[n]
  <2>1. S \subseteq DOMAIN u /\ Children(u, p) \subseteq DOMAIN u /\ g \notin S
    BY <1>2, <1>5 DEF Children, u
  <2>2. \A n \in Children(u, p) : u[n] = p
    BY DEF Children
  <2> DEFINE v == Parented(u, p, (Children(u, p) \ S) \cup {g})
  <2>3. DOMAIN v = DOMAIN u \cup {g} /\ v[g] = p /\ \A n \in DOMAIN u \ S : v[n] = u[n]
    <3>1. \A n \in DOMAIN v : v[n] = IF n \in (Children(u, p) \ S) \cup {g} THEN p ELSE u[n]
      BY DEF Parented
    <3>2. DOMAIN v = DOMAIN u \cup {g}
      BY <2>1 DEF Parented
    <3>3. g \notin DOMAIN u
      BY <1>5 DEF u
    <3> HIDE DEF v
    <3> QED BY <2>1, <2>2, <3>1, <3>2, <3>3
  <2> HIDE DEF v
  <2>4. u2 = Parented(v, g, S)
    BY DEF u2, v
  <2> QED BY <2>1, <2>3, <2>4 DEF Parented
<1>17. Nodes(m) \cap Pane = Nodes(l) \cap Pane /\ g \in DOMAIN m.up
  BY <1>5, <1>11, <1>15, <1>16, SplitAssumption DEF Nodes, u
<1>18. Grove(m, {m.root}, {})
  BY <1>15
<1>19. RangeGrouped(l, p, i, j, g, m)
  BY <1>0, <1>2, <1>5, <1>8, <1>9, <1>15, <1>16 DEF RangeGrouped, range, K, k, u
<1>20. RangeTurned(l, p, S, g, m)
  <2>1. m.axis = a2
    BY <1>13, LayParts
  <2>2. g \notin DOMAIN l.kids
    BY <1>5, <1>11
  <2>3. a2[g] = x /\ \A q \in DOMAIN l.kids : a2[q] = a[q]
    BY <1>11, <2>2 DEF a2, Set, k
  <2>4. a = ToggleAxes(l, B).axis
    BY DEF a, t
  <2> QED BY <1>15, <2>1, <2>3, <2>4 DEF RangeTurned, B, r, x
<1> QED BY <1>6, <1>17, <1>18, <1>19, <1>20 DEF m, S

\* rotate_pane_selection_level keeps the tree and selects siblings in what it makes.
THEOREM RotateLevelGrove ==
  ASSUME NEW l, Grove(l, {l.root}, {}), SplitsNeverRunOut, NEW sel, SelOK(l, sel)
  PROVE  LET m == RotateLevel(l, sel).layout IN
         /\ Grove(m, {m.root}, {}) /\ Nodes(m) \cap Pane = Nodes(l) \cap Pane
         /\ SelOK(m, RotateLevel(l, sel).selection)
<1> DEFINE Good(f) == /\ Grove(f.layout, {f.layout.root}, {})
                      /\ Nodes(f.layout) \cap Pane = Nodes(l) \cap Pane
                      /\ SelOK(f.layout, f.selection)
<1>1. ASSUME NEW m, Grove(m, {m.root}, {}), Nodes(m) \cap Pane = Nodes(l) \cap Pane, NEW s,
             SelOK(m, s)
      PROVE  Good(Rotated(m, s))
  <2>1. Rotated(m, s).layout = m /\ Rotated(m, s).selection = s
    BY DEF Rotated
  <2> QED BY <1>1, <2>1
<1> SUFFICES Good(RotateLevel(l, sel))
  OBVIOUS
<1> HIDE DEF Good
<1>2. /\ sel.nodes \in Seq(Pane \cup Split) /\ Len(sel.nodes) \in Nat \ {0}
      /\ ToSet(sel.nodes) \subseteq DOMAIN l.up /\ sel.nodes[1] \in ToSet(sel.nodes)
      /\ (\A n \in ToSet(sel.nodes) : l.up[n] = sel.parent)
      /\ (sel.parent = NoNode => sel.nodes = <<l.root>>)
      /\ (sel.parent # NoNode => sel.parent \in DOMAIN l.kids /\ \E i,
         j : Ranged(l, sel.parent, sel.nodes, i, j))
  BY SelParts
\* Turning a split and selecting some of its children.
<1>3. ASSUME NEW s \in DOMAIN l.kids, NEW nodes, Len(nodes) \in Nat \ {0},
             \A x \in 1 .. Len(nodes) : nodes[x] \in Children(l.up, s), NEW first \in BOOLEAN
      PROVE  Good(Rotated(RotateSplit(l, s), SelectNodes(RotateSplit(l, s), nodes, first)))
  <2> DEFINE m == RotateSplit(l, s)
  <2>1. /\ Grove(m, {m.root}, {}) /\ Nodes(m) \cap Pane = Nodes(l) \cap Pane
        /\ \E q \in DOMAIN m.kids : \A n \in Children(l.up, s) : n \in DOMAIN m.up /\ m.up[n] = q
    BY <1>3, RotateSplitGrove
  <2> HIDE DEF m
  <2>2. PICK q \in DOMAIN m.kids : \A n \in Children(l.up, s) : n \in DOMAIN m.up /\ m.up[n] = q
    BY <2>1
  <2>3. \A x \in 1 .. Len(nodes) : nodes[x] \in Children(m.up, q)
    BY <1>3, <2>2 DEF Children
  <2>4. SelOK(m, SelectNodes(m, nodes, first))
    BY <1>3, <2>1, <2>3, SelectedNodesAreSel
  <2> QED BY <1>1, <2>1, <2>4 DEF m
\* The children of a split in their order.
<1>4. ASSUME NEW s \in DOMAIN l.kids
      PROVE  /\ Len(KidNodes(l.kids[s])) \in Nat \ {0}
             /\ \A x \in 1 .. Len(KidNodes(l.kids[s])) : KidNodes(l.kids[s])[x] \in Children(l.up,
                s)
  <2>1. /\ l.kids[s] \in Seq(KidRec) /\ Distinct(l.kids[s])
           /\ NodesOf(l.kids[s]) = Children(l.up, s)
        /\ Children(l.up, s) # {}
    BY GroveKids
  <2>2. Len(l.kids[s]) \in Nat /\ Len(l.kids[s]) # 0
    <3>1. Len(l.kids[s]) \in Nat /\ (Len(l.kids[s]) = 0 <=> NodesOf(l.kids[s]) = {})
      BY <2>1, KidsLength
    <3> QED BY <2>1, <3>1
  <2>3. /\ Len(KidNodes(l.kids[s])) = Len(l.kids[s])
        /\ \A x \in 1 .. Len(l.kids[s]) : KidNodes(l.kids[s])[x] = l.kids[s][x].node
    BY <2>1, KidNodesOf
  <2>4. \A x \in 1 .. Len(l.kids[s]) : l.kids[s][x].node \in Children(l.up, s)
    BY <2>1, KidsAt
  <2> QED BY <2>2, <2>3, <2>4
<1>a. Len(sel.nodes) > 1 => Len(sel.nodes) # 1
  <2>1. \A y \in Nat : y > 1 => y # 1
    OBVIOUS
  <2>2. Len(sel.nodes) \in Nat
    BY <1>2
  <2> QED BY <2>1, <2>2, Zenon
<1>5. CASE Len(sel.nodes) > 1
  <2>1. sel.parent # NoNode
    <3>1. Len(<<l.root>>) = 1
      OBVIOUS
    <3>2. sel.parent = NoNode => Len(sel.nodes) = 1
      BY <1>2, <3>1
    <3> QED BY <1>5, <1>a, <3>2, Zenon
  <2>2. RotateLevel(l, sel) = RotateRangeLevel(l, sel)
    BY <1>5 DEF RotateLevel
  <2>3. CASE WholeLevel(l, sel)
    <3>1. RotateRangeLevel(l, sel)
            = Rotated(RotateSplit(l, sel.parent),
                      SelectNodes(RotateSplit(l, sel.parent), sel.nodes,
                      sel.anchor = sel.nodes[1]))
      BY <2>3, Zenon DEF RotateRangeLevel
    <3>2. \A x \in 1 .. Len(sel.nodes) : sel.nodes[x] \in Children(l.up, sel.parent)
      <4>1. \A x \in 1 .. Len(sel.nodes) : sel.nodes[x] \in ToSet(sel.nodes)
        BY <1>2 DEF ToSet
      <4> QED BY <1>2, <4>1 DEF Children
    <3>3. (sel.anchor = sel.nodes[1]) \in BOOLEAN
      OBVIOUS
    <3>4. Good(RotateRangeLevel(l, sel))
      BY <1>2, <1>3, <2>1, <3>1, <3>2, <3>3, ZenonT(60)
    <3> QED BY <2>2, <3>4
  <2>4. CASE ~WholeLevel(l, sel)
    <3> DEFINE m == RotateRange(l, sel).layout g == RotateRange(l, sel).group
    <3>1. RotateRangeLevel(l, sel) = Rotated(m, SingleSelection(m, g))
      BY <2>4, Zenon DEF RotateRangeLevel
    <3>2. PICK i, j : Ranged(l, sel.parent, sel.nodes, i, j)
      BY <1>2, <2>1
    <3>3. Grove(m, {m.root}, {}) /\ Nodes(m) \cap Pane = Nodes(l) \cap Pane /\ g \in DOMAIN m.up
      <4>1. Len(sel.nodes) # 1
        BY <1>5, <1>a, Zenon
      <4> QED BY <2>4, <3>2, <4>1, RotateRangeLists
    <3> HIDE DEF m, g
    <3>4. SelOK(m, SingleSelection(m, g))
      BY <3>3, SingleIsSel
    <3> QED BY <1>1, <2>2, <3>1, <3>3, <3>4
  <2> QED BY <2>3, <2>4
<1>6. CASE ~(Len(sel.nodes) > 1) /\ ~IsLeaf(l, sel.nodes[1])
  <2> DEFINE s == sel.nodes[1] m == RotateSplit(l, s)
  <2>1. RotateLevel(l, sel) = RotateGroup(l, s)
    BY <1>6 DEF RotateLevel
  <2>2. s \in DOMAIN l.kids
    BY <1>6, GroveParts
  <2>3. CASE l.up[s] = NoNode
    <3>1. RotateGroup(l, s) = Rotated(m, SingleSelection(m, s))
      BY <2>3, Zenon DEF RotateGroup
    <3>2. Grove(m, {m.root}, {}) /\ Nodes(m) \cap Pane = Nodes(l) \cap Pane /\ s \in DOMAIN m.up
      BY <2>2, <2>3, RotateSplitGrove
    <3> HIDE DEF m
    <3>3. SelOK(m, SingleSelection(m, s))
      BY <3>2, SingleIsSel
    <3> QED BY <1>1, <2>1, <3>1, <3>2, <3>3
  <2>4. CASE l.up[s] # NoNode
    <3>1. RotateGroup(l, s) = Rotated(m, SelectNodes(m, KidNodes(l.kids[s]), TRUE))
      BY <2>4, Zenon DEF RotateGroup
    <3>2. Good(RotateGroup(l, s))
      BY <1>3, <1>4, <2>2, <3>1
    <3> QED BY <2>1, <3>2
  <2> QED BY <2>3, <2>4
<1>7. CASE ~(Len(sel.nodes) > 1) /\ IsLeaf(l, sel.nodes[1]) /\ sel.parent # NoNode
  <2>1. RotateLevel(l, sel) = RotateLeafLevel(l, sel)
    BY <1>7 DEF RotateLevel
  <2>2. RotateLeafLevel(l, sel)
          = Rotated(RotateSplit(l, sel.parent),
                    SelectNodes(RotateSplit(l, sel.parent), KidNodes(l.kids[sel.parent]), TRUE))
    BY Zenon DEF RotateLeafLevel
  <2>3. sel.parent \in DOMAIN l.kids
    BY <1>2, <1>7
  <2>4. Good(RotateLeafLevel(l, sel))
    BY <1>3, <1>4, <2>2, <2>3
  <2> QED BY <2>1, <2>4
<1>8. CASE ~(Len(sel.nodes) > 1) /\ IsLeaf(l, sel.nodes[1]) /\ sel.parent = NoNode
  <2>1. RotateLevel(l, sel) = [changed |-> FALSE, layout |-> l, selection |-> sel]
    BY <1>8 DEF RotateLevel
  <2>2. RotateLevel(l, sel).layout = l /\ RotateLevel(l, sel).selection = sel
    BY <2>1
  <2>3. Grove(l, {l.root}, {}) /\ SelOK(l, sel)
    OBVIOUS
  <2> QED BY <2>2, <2>3 DEF Good
<1> QED BY <1>5, <1>6, <1>7, <1>8

-----------------------------------------------------------------------------
(* Resizing *)

\* The same tree with other shares.
SameTree(l, m) ==
  /\ Grove(m, {m.root}, {}) /\ m.root = l.root /\ m.up = l.up /\ m.axis = l.axis
  /\ DOMAIN m.kids = DOMAIN l.kids
  /\ \A s \in DOMAIN l.kids : KidNodes(m.kids[s]) = KidNodes(l.kids[s])
     /\ Len(m.kids[s]) = Len(l.kids[s])

\* A layout is the same tree as itself.
LEMMA SameAsItself == ASSUME NEW l, Grove(l, {l.root}, {}) PROVE SameTree(l, l)
  BY DEF SameTree

\* A selection outlives new shares.
LEMMA SelKept ==
  ASSUME NEW l, NEW m, SameTree(l, m), NEW sel, SelOK(l, sel)
  PROVE  SelOK(m, sel)
<1>1. ASSUME NEW i, NEW j, Ranged(l, sel.parent, sel.nodes, i, j)
             PROVE Ranged(m, sel.parent, sel.nodes, i, j)
  BY <1>1, Zenon DEF Ranged, SameTree
<1>2. m.root = l.root
  BY DEF SameTree
<1> QED BY <1>1, <1>2, Zenon DEF SelOK

\* The children of split s with shares in these proportions.
LEMMA SetSharesSame ==
  ASSUME NEW l, Grove(l, {l.root}, {}), NEW s \in DOMAIN l.kids,
         NEW w \in Seq(Nat), Len(w) = Len(l.kids[s])
  PROVE  SameTree(l, SetShares(l, s, w))
<1> DEFINE r == l.root a == l.axis k == l.kids u == l.up
           W == WithShares(k[s], Distribute(w, Full))
           k2 == [k EXCEPT ![s] = W]
           m == SetShares(l, s, w)
<1>1. /\ Forest(r, a, k, u, {r}, {}) /\ l = Lay(r, a, k, u) /\ a \in [DOMAIN k -> Axis]
  BY GroveParts DEF Grove
<1>2. k[s] \in Seq(KidRec) /\ Distinct(k[s]) /\ NodesOf(k[s]) = Children(u, s)
      /\ Children(u, s) # {}
  BY GroveKids
<1>3. Len(k[s]) # 0
  <2>1. Len(k[s]) = 0 <=> NodesOf(k[s]) = {}
    BY <1>2, KidsLength
  <2> QED BY <1>2, <2>1
<1>4. m = WithKids(l, k2)
  BY Zenon DEF SetShares, WithKids
<1> HIDE DEF r, a, k, u, m
<1>5. Distribute(w, Full) \in Seq(Nat) /\ Len(Distribute(w, Full)) = Len(w)
      /\ Total(Distribute(w, Full)) = Full
  <2>1. Full \in Nat
    BY FullAssumption
  <2>2. Len(w) # 0
    BY <1>3 DEF k
  <2> QED BY <2>1, <2>2, DistributeTotals
<1>6. /\ W \in Seq(KidRec) /\ Distinct(W) /\ NodesOf(W) = Children(u, s) /\ SumOf(W) = Full
      /\ KidNodes(W) = KidNodes(k[s]) /\ Len(W) = Len(k[s])
  <2> DEFINE d == Distribute(w, Full)
  <2>1. Len(d) = Len(k[s])
    BY <1>5 DEF k
  <2> HIDE DEF d
  <2>2. /\ WithShares(k[s], d) \in Seq(KidRec) /\ NodesOf(WithShares(k[s], d)) = NodesOf(k[s])
        /\ (Distinct(k[s]) => Distinct(WithShares(k[s], d)))
           /\ SumOf(WithShares(k[s], d)) = Total(d)
        /\ KidNodes(WithShares(k[s], d)) = KidNodes(k[s]) /\ Len(WithShares(k[s], d)) = Len(k[s])
    <3>1. d \in Seq(Nat)
      BY <1>5 DEF d
    <3> QED BY <1>2, <2>1, <3>1, KidsShared
  <2>3. W = WithShares(k[s], d) /\ Total(d) = Full
    BY <1>5 DEF d
  <2> HIDE DEF W
  <2> QED BY <1>2, <2>2, <2>3
<1> HIDE DEF W
<1>7. DOMAIN k2 = DOMAIN k /\ k2[s] = W /\ \A q \in DOMAIN k : q # s => k2[q] = k[q]
  BY DEF k
<1> HIDE DEF k2
<1>8. m = Lay(r, a, k2, u)
  BY <1>1, <1>4, LayWithKids
<1>9. Forest(r, a, k2, u, {r}, {})
  <2>1. \A q \in DOMAIN k : KidsFor(k[q], Children(u, q))
    BY <1>1 DEF Forest
  <2>2. KidsFor(W, Children(u, s))
    BY <1>6 DEF KidsFor
  <2>3. \A q \in DOMAIN k : KidsFor(k2[q], Children(u, q))
    BY <1>7, <2>1, <2>2
  <2> QED BY <1>1, <1>7, <2>3, Relisted
<1>10. Grove(m, {r}, {}) /\ m.root = r /\ m.up = u /\ m.axis = a /\ m.kids = k2
  BY <1>8, <1>9, GroveOf, LayParts
<1>11. \A q \in DOMAIN k : KidNodes(k2[q]) = KidNodes(k[q]) /\ Len(k2[q]) = Len(k[q])
  BY <1>6, <1>7
<1>12. Grove(m, {m.root}, {})
  BY <1>10
<1>13. SameTree(l, m)
  BY <1>7, <1>10, <1>11, <1>12 DEF SameTree, r, u, a, k
<1> QED BY <1>13 DEF m

\* partition_selection: the selected children and the others.
LEMMA Partitioned ==
  ASSUME NEW l, Grove(l, {l.root}, {}), NEW sel, NEW i, NEW j,
         Ranged(l, sel.parent, sel.nodes, i, j)
  PROVE  LET K == l.kids[sel.parent]
             S == ToSet(sel.nodes)
             C == SelectedKids(l, sel)
             D == OtherKids(l, sel)
         IN  /\ C \in Seq(KidRec) /\ Distinct(C) /\ NodesOf(C) = S /\ Len(C) = Len(sel.nodes)
             /\ D \in Seq(KidRec) /\ Distinct(D) /\ NodesOf(D) = Children(l.up, sel.parent) \ S
             /\ Len(C) + Len(D) = Len(K) /\ Len(D) \in Nat /\ Len(C) \in Nat \ {0}
             /\ ChildIndex(l, sel.parent, sel.nodes[1]) \in 1 .. Len(D) + 1
             /\ (~WholeLevel(l, sel) => Len(D) # 0)
<1> DEFINE p == sel.parent K == l.kids[p] S == ToSet(sel.nodes) C == SelectedKids(l, sel)
           D == OtherKids(l, sel)
<1>1. p \in DOMAIN l.kids /\ i \in 1 .. Len(K) /\ j \in i .. Len(K)
  BY DEF Ranged
<1>2. K \in Seq(KidRec) /\ Distinct(K) /\ NodesOf(K) = Children(l.up, p)
  BY <1>1, GroveKids
<1>3. /\ Len(sel.nodes) = (j - i) + 1 /\ ChildIndex(l, p, sel.nodes[1]) = i
      /\ S = NodesOf(Cut(K, i, j)) /\ S \subseteq Children(l.up, p)
      /\ Cut(K, i, j) \in Seq(KidRec) /\ Distinct(Cut(K, i, j)) /\ Len(Cut(K, i, j)) = (j - i) + 1
  BY RangedParts
<1>4. C = Among(K, S) /\ D = Among(K, NodesOf(K) \ S)
  <2>1. ToSet(KidNodes(K)) = NodesOf(K)
    BY <1>2, KidNodesOf
  <2> QED BY <2>1, Zenon DEF SelectedKids, OtherKids
<1>5. WholeLevel(l, sel) <=> Len(sel.nodes) = Len(K)
  BY DEF WholeLevel
<1> HIDE DEF K, S, C, D
<1>6. C \in Seq(KidRec) /\ Distinct(C) /\ NodesOf(C) = S
  <2>1. Among(K, S) \in Seq(KidRec) /\ Distinct(Among(K, S))
        /\ NodesOf(Among(K, S)) = NodesOf(K) \cap S
    BY <1>2, KidsAmong
  <2> QED BY <1>2, <1>3, <1>4, <2>1
<1>7. D \in Seq(KidRec) /\ Distinct(D) /\ NodesOf(D) = Children(l.up, p) \ S
  <2> DEFINE T == NodesOf(K) \ S
  <2>1. Among(K, T) \in Seq(KidRec) /\ Distinct(Among(K, T))
        /\ NodesOf(Among(K, T)) = NodesOf(K) \cap T
    <3> HIDE DEF T
    <3> QED BY <1>2, KidsAmong
  <2>2. NodesOf(K) \cap T = Children(l.up, p) \ S
    BY <1>2
  <2> QED BY <1>4, <2>1, <2>2
<1>8. /\ Cardinality(NodesOf(K)) = Len(K) /\ IsFiniteSet(NodesOf(K)) /\ Len(K) \in Nat
      /\ Cardinality(S) = (j - i) + 1 /\ IsFiniteSet(S)
      /\ Cardinality(S) = Len(C) /\ Len(C) \in Nat
      /\ Cardinality(NodesOf(D)) = Len(D) /\ Len(D) \in Nat
  <2>1. Cardinality(NodesOf(K)) = Len(K) /\ IsFiniteSet(NodesOf(K)) /\ Len(K) \in Nat
    BY <1>2, KidsCounted
  <2>2. Cardinality(S) = (j - i) + 1 /\ IsFiniteSet(S)
    BY <1>3, KidsCounted
  <2>3. Cardinality(NodesOf(C)) = Len(C) /\ Len(C) \in Nat
    BY <1>6, KidsCounted
  <2>4. Cardinality(NodesOf(D)) = Len(D) /\ Len(D) \in Nat
    BY <1>7, KidsCounted
  <2> QED BY <1>6, <2>1, <2>2, <2>3, <2>4
<1>9. Len(D) = Len(K) - ((j - i) + 1)
  <2>1. NodesOf(D) = NodesOf(K) \ S /\ NodesOf(K) \cap S = S
    BY <1>2, <1>3, <1>7
  <2>2. Cardinality(NodesOf(K) \ S) = Cardinality(NodesOf(K)) - Cardinality(NodesOf(K) \cap S)
    BY <1>8, FS_Difference
  <2> QED BY <1>8, <2>1, <2>2
<1>10. Len(C) + Len(D) = Len(K) /\ i \in 1 .. Len(D) + 1 /\ Len(C) # 0 /\ Len(C) = (j - i) + 1
       /\ (Len(C) # Len(K) => Len(D) # 0)
  <2>1. i \in Int /\ j \in Int /\ 1 <= i /\ i <= j /\ j <= Len(K) /\ Len(K) \in Nat
        /\ Len(C) \in Nat
    BY <1>1, <1>8
  <2>2. Len(C) = (j - i) + 1
    BY <1>8
  <2> QED BY <1>9, <2>1, <2>2
<1>11. Len(C) = Len(sel.nodes)
  BY <1>3, <1>10, Zenon
<1>12. ~WholeLevel(l, sel) => Len(D) # 0
  BY <1>5, <1>10, <1>11
<1> QED BY <1>3, <1>6, <1>7, <1>8, <1>10, <1>11, <1>12 DEF K, S, C, D

\* assign_at puts the new shares where the selected children stand.
LEMMA AssignedSame ==
  ASSUME NEW l, Grove(l, {l.root}, {}), NEW sel, NEW i, NEW j,
         Ranged(l, sel.parent, sel.nodes, i, j),
         NEW v \in Seq(Nat), Len(v) = Len(sel.nodes), NEW w \in Seq(Nat),
         Len(w) = Len(OtherKids(l, sel))
  PROVE  SameTree(l, SetShares(l, sel.parent, Assigned(l, sel, v, w)))
<1> DEFINE x == ChildIndex(l, sel.parent, sel.nodes[1])
           n == Len(OtherKids(l, sel))
           c == Len(SelectedKids(l, sel))
<1>1. /\ c = Len(sel.nodes) /\ c + n = Len(l.kids[sel.parent]) /\ x \in 1 .. n + 1 /\ n \in Nat
         /\ c \in Nat
  BY Partitioned
<1>2. sel.parent \in DOMAIN l.kids
  BY DEF Ranged
<1>3. Assigned(l, sel, v, w) = Replace(w, x, 0, v)
  BY Zenon DEF Assigned
<1>a. n = Len(w)
  OBVIOUS
<1> HIDE DEF x, n, c
<1>4. Replace(w, x, 0, v) \in Seq(Nat) /\ Len(Replace(w, x, 0, v)) = Len(w) + Len(v)
  <2>1. x \in 1 .. Len(w) + 1
    BY <1>1, <1>a
  <2> QED BY <2>1, SharesInserted
<1> DEFINE z == Replace(w, x, 0, v)
<1>5. z \in Seq(Nat) /\ Len(z) = Len(l.kids[sel.parent])
  <2>1. Len(v) = c
    BY <1>1
  <2> QED BY <1>1, <1>4, <1>a, <2>1
<1> HIDE DEF z
<1>6. SameTree(l, SetShares(l, sel.parent, z))
  BY <1>2, <1>5, SetSharesSame
<1> QED BY <1>3, <1>6, Zenon DEF z

\* resize_pane_selection gives the selection more or less of its split.
LEMMA ResizeSame ==
  ASSUME NEW l, Grove(l, {l.root}, {}), NEW sel, SelOK(l, sel), NEW delta \in Int
  PROVE  SameTree(l, Resize(l, sel, delta))
<1> DEFINE total == SelectedTotal(l, sel)
           resized == Clamp(total + delta)
           C == SelectedKids(l, sel)
           D == OtherKids(l, sel)
<1>1. CASE sel.parent = NoNode \/ WholeLevel(l, sel) \/ resized = total
  BY <1>1, SameAsItself DEF Resize
<1>2. CASE ~(sel.parent = NoNode \/ WholeLevel(l, sel) \/ resized = total)
  <2>1. PICK i, j : Ranged(l, sel.parent, sel.nodes, i, j)
    BY <1>2, SelParts
  <2>2. /\ C \in Seq(KidRec) /\ Len(C) = Len(sel.nodes) /\ D \in Seq(KidRec) /\ Len(D) # 0
        /\ Len(C) \in Nat \ {0}
    BY <1>2, <2>1, Partitioned
  <2>3. total = SumOf(C)
    BY DEF SelectedTotal, SumOf
  <2>4. Resize(l, sel, delta)
          = SetShares(l, sel.parent, Assigned(l, sel, Distribute(Weights(C), resized),
                                              Distribute(Weights(D), Full - resized)))
    BY <1>2, Zenon DEF Resize
  <2> HIDE DEF C, D, total
  <2>5. resized \in Nat /\ Full - resized \in Nat
    <3>1. total \in Nat /\ Full \in Nat
      BY <2>2, <2>3, SumNat, FullAssumption
    <3> QED BY <3>1 DEF Clamp
  <2> HIDE DEF resized
  <2>6. /\ Distribute(Weights(C), resized) \in Seq(Nat)
        /\ Len(Distribute(Weights(C), resized)) = Len(C)
    <3>1. Weights(C) \in Seq(Nat) /\ Len(Weights(C)) = Len(C)
      BY <2>2, WeightsOf
    <3>2. Len(Weights(C)) # 0
      BY <2>2, <3>1
    <3> QED BY <2>5, <3>1, <3>2, DistributeTotals
  <2>7. /\ Distribute(Weights(D), Full - resized) \in Seq(Nat)
        /\ Len(Distribute(Weights(D), Full - resized)) = Len(D)
    <3> DEFINE rest == Full - resized
    <3>1. Weights(D) \in Seq(Nat) /\ Len(Weights(D)) = Len(D)
      BY <2>2, WeightsOf
    <3>2. Len(Weights(D)) # 0
      BY <2>2, <3>1
    <3>3. rest \in Nat
      BY <2>5
    <3> HIDE DEF rest
    <3>4. Distribute(Weights(D), rest) \in Seq(Nat) /\ Len(Distribute(Weights(D), rest))
          = Len(Weights(D))
      BY <3>1, <3>2, <3>3, DistributeTotals
    <3> QED BY <3>1, <3>4 DEF rest
  <2> DEFINE v == Distribute(Weights(C), resized) w == Distribute(Weights(D), Full - resized)
  <2>8. v \in Seq(Nat) /\ Len(v) = Len(sel.nodes) /\ w \in Seq(Nat)
        /\ Len(w) = Len(OtherKids(l, sel))
    BY <2>2, <2>6, <2>7 DEF D
  <2> HIDE DEF v, w
  <2>9. SameTree(l, SetShares(l, sel.parent, Assigned(l, sel, v, w)))
    BY <2>1, <2>8, AssignedSame
  <2> QED BY <2>4, <2>9, Zenon DEF v, w
<1> QED BY <1>1, <1>2

\* equalize_split makes the shares of one split equal but for rounding.
LEMMA EqualizeSplitSame ==
  ASSUME NEW l, Grove(l, {l.root}, {}), NEW s \in DOMAIN l.kids
  PROVE  SameTree(l, EqualizeSplit(l, s))
<1> DEFINE n == Len(l.kids[s]) w == EqualShares(n)
<1>1. n \in Nat /\ n # 0
  <2>1. l.kids[s] \in Seq(KidRec) /\ Distinct(l.kids[s])
        /\ NodesOf(l.kids[s]) = Children(l.up, s) /\ Children(l.up, s) # {}
    BY GroveKids
  <2>2. n = 0 <=> NodesOf(l.kids[s]) = {}
    BY <2>1, KidsLength
  <2> QED BY <2>1, <2>2
<1>2. EqualizeSplit(l, s) = IF w = Weights(l.kids[s]) THEN l ELSE SetShares(l, s, w)
  BY Zenon DEF EqualizeSplit
<1> HIDE DEF n
<1>3. w \in Seq(Nat) /\ Len(w) = n
  <2>1. Full \in Nat
    BY FullAssumption
  <2>2. Full \div n \in Nat
    BY <1>1, <2>1, Divides
  <2>3. w \in [1 .. n -> Nat]
    BY <2>2 DEF EqualShares
  <2> HIDE DEF w
  <2> QED BY <1>1, <2>3, ListOf
<1> HIDE DEF w
<1>4. SameTree(l, SetShares(l, s, w))
  BY <1>3, SetSharesSame DEF n
<1> QED BY <1>2, <1>4, SameAsItself

\* equalize_pane_selection and equalize_pane_selection_level.
LEMMA EqualizeSame ==
  ASSUME NEW l, Grove(l, {l.root}, {}), NEW sel, SelOK(l, sel)
  PROVE  SameTree(l, EqualizeSelection(l, sel)) /\ SameTree(l, EqualizeLevel(l, sel))
<1>1. /\ (sel.parent # NoNode => sel.parent \in DOMAIN l.kids)
      /\ sel.nodes[1] \in DOMAIN l.up /\ sel.nodes \in Seq(Pane \cup Split)
         /\ Len(sel.nodes) \in Nat \ {0}
  BY SelParts
<1>2. SameTree(l, EqualizeLevel(l, sel))
  BY <1>1, SameAsItself, EqualizeSplitSame DEF EqualizeLevel
<1>3. CASE Len(sel.nodes) = 1 /\ ~IsLeaf(l, sel.nodes[1])
  <2>1. sel.nodes[1] \in DOMAIN l.kids
    BY <1>3, GroveParts
  <2>2. EqualizeSelection(l, sel) = EqualizeSplit(l, sel.nodes[1])
    BY <1>3 DEF EqualizeSelection
  <2> QED BY <1>2, <2>1, <2>2, EqualizeSplitSame
<1>4. CASE ~(Len(sel.nodes) = 1 /\ ~IsLeaf(l, sel.nodes[1])) /\ sel.parent = NoNode
  BY <1>2, <1>4, SameAsItself DEF EqualizeSelection
<1>5. CASE ~(Len(sel.nodes) = 1 /\ ~IsLeaf(l, sel.nodes[1])) /\ sel.parent # NoNode
  <2> DEFINE C == SelectedKids(l, sel) D == OtherKids(l, sel) total == SelectedTotal(l, sel)
             ones == [i \in DOMAIN sel.nodes |-> 1]
  <2>1. PICK i, j : Ranged(l, sel.parent, sel.nodes, i, j)
    BY <1>5, SelParts
  <2>2. C \in Seq(KidRec) /\ D \in Seq(KidRec)
    BY <2>1, Partitioned
  <2>3. total = SumOf(C)
    BY DEF SelectedTotal, SumOf
  <2>4. EqualizeSelection(l, sel)
          = SetShares(l, sel.parent, Assigned(l, sel, Distribute(ones, total), Weights(D)))
    BY <1>5, Zenon DEF EqualizeSelection
  <2> HIDE DEF C, D, total
  <2>5. total \in Nat
    BY <2>2, <2>3, SumNat
  <2>6. ones \in Seq(Nat) /\ Len(ones) = Len(sel.nodes)
    BY <1>1
  <2> HIDE DEF ones
  <2> DEFINE v == Distribute(ones, total) w == Weights(D)
  <2>7. v \in Seq(Nat) /\ Len(v) = Len(sel.nodes)
    <3>1. Len(ones) # 0
      BY <1>1, <2>6
    <3>2. Distribute(ones, total) \in Seq(Nat) /\ Len(Distribute(ones, total)) = Len(ones)
      BY <2>5, <2>6, <3>1, DistributeTotals
    <3> QED BY <2>6, <3>2
  <2>8. w \in Seq(Nat) /\ Len(w) = Len(OtherKids(l, sel))
    <3>1. Weights(D) \in Seq(Nat) /\ Len(Weights(D)) = Len(D)
      BY <2>2, WeightsOf
    <3> QED BY <3>1 DEF D
  <2> HIDE DEF v, w
  <2>9. SameTree(l, SetShares(l, sel.parent, Assigned(l, sel, v, w)))
    BY <2>1, <2>7, <2>8, AssignedSame
  <2> QED BY <1>2, <2>4, <2>9, Zenon DEF v, w
<1> QED BY <1>3, <1>4, <1>5

-----------------------------------------------------------------------------
(* Moving among siblings *)

\* The shares of the children among some nodes and of those among the others.
LEMMA AmongSum ==
  ASSUME NEW K \in Seq(KidRec), NEW S
  PROVE  SumOf(Among(K, S)) + SumOf(Among(K, NodesOf(K) \ S)) = SumOf(K)
<1> DEFINE n == Len(K) T == NodesOf(K) \ S
<1>1. n \in Nat /\ DOMAIN K = 1 .. n
  BY KidsAt
<1>2. ASSUME NEW X
      PROVE  LET KX == [i \in 1 .. n |-> Kid(K[i].node,
             IF K[i].node \in X THEN K[i].share ELSE 0)]
             IN  KX \in Seq(KidRec) /\ Len(KX) = n /\ SumOf(Among(K, X)) = SumOf(KX)
                 /\ \A i \in 1 .. n : Weights(KX)[i] = IF K[i].node \in X THEN K[i].share ELSE 0
  <2> DEFINE KX == [i \in 1 .. n |-> Kid(K[i].node, IF K[i].node \in X THEN K[i].share ELSE 0)]
             ss == [i \in DOMAIN K |-> IF K[i].node \in X THEN <<K[i]>> ELSE <<>>]
  <2>1. KX \in [1 .. n -> KidRec] /\ \A i \in 1 .. n : KX[i].share
        = IF K[i].node \in X THEN K[i].share ELSE 0
    BY KidsAt DEF Kid, KidRec
  <2>2. ss \in [1 .. n -> Seq(KidRec)]
    BY <1>1, KidsAt
  <2>3. \A i \in 1 .. n : ss[i] = IF K[i].node \in X THEN <<K[i]>> ELSE <<>>
    BY <1>1
  <2>4. Among(K, X) = FlattenSeq(ss)
    BY DEF Among
  <2> HIDE DEF KX, ss, n
  <2>5. KX \in Seq(KidRec) /\ Len(KX) = n
    BY <1>1, <2>1, ListOf
  <2>6. ss \in Seq(Seq(KidRec)) /\ Len(ss) = n
    BY <1>1, <2>2, ListOf
  <2>7. ASSUME NEW i \in 1 .. n PROVE SumOf(ss[i]) = KX[i].share
    <3>1. K[i] = Kid(K[i].node, K[i].share) /\ K[i].node \in Pane \cup Split /\ K[i].share \in Nat
      BY KidsAt DEF n
    <3>2. SumOf(<<K[i]>>) = K[i].share
      <4> DEFINE a == K[i].node b == K[i].share
      <4> HIDE DEF a, b
      <4>1. SumOf(<<Kid(a, b)>>) = b
        BY <3>1, KidsOne DEF a, b
      <4> QED BY <3>1, <4>1 DEF a, b
    <3>3. SumOf(<<>>) = 0
      <4>1. <<>> \in Seq(KidRec) /\ Len(<<>>) = 0
        OBVIOUS
      <4> QED BY <4>1, KidsNone
    <3> QED BY <2>1, <2>3, <3>2, <3>3
  <2>8. SumOf(FlattenSeq(ss)) = SumOf(KX)
    <3>1. Len(ss) = Len(KX)
      BY <2>5, <2>6
    <3>2. \A i \in 1 .. Len(KX) : SumOf(ss[i]) = KX[i].share
      BY <2>5, <2>7
    <3>3. KX \in Seq(KidRec) /\ ss \in Seq(Seq(KidRec))
      BY <2>5, <2>6
    <3> QED BY <3>1, <3>2, <3>3, FlattenedSum
  <2>9. \A i \in 1 .. n : Weights(KX)[i] = KX[i].share
    <3>1. KX \in Seq(KidRec)
      BY <2>5
    <3>2. \A i \in 1 .. Len(KX) : Weights(KX)[i] = KX[i].share
      BY <3>1, WeightsOf
    <3> QED BY <2>5, <3>2
  <2> QED BY <2>1, <2>4, <2>5, <2>8, <2>9 DEF KX
<1> DEFINE A == [i \in 1 .. n |-> Kid(K[i].node, IF K[i].node \in S THEN K[i].share ELSE 0)]
           B == [i \in 1 .. n |-> Kid(K[i].node, IF K[i].node \in T THEN K[i].share ELSE 0)]
<1>3. A \in Seq(KidRec) /\ Len(A) = n /\ SumOf(Among(K, S)) = SumOf(A)
      /\ \A i \in 1 .. n : Weights(A)[i] = IF K[i].node \in S THEN K[i].share ELSE 0
  BY <1>2
<1>4. B \in Seq(KidRec) /\ Len(B) = n /\ SumOf(Among(K, T)) = SumOf(B)
      /\ \A i \in 1 .. n : Weights(B)[i] = IF K[i].node \in T THEN K[i].share ELSE 0
  <2> HIDE DEF T, n
  <2> QED BY <1>2
<1> HIDE DEF A, B
<1>5. \A i \in 1 .. n : Weights(K)[i] = K[i].share /\ K[i].share \in Nat
      /\ (K[i].node \in T <=> K[i].node \notin S)
  <2>1. \A i \in 1 .. n : K[i].node \in NodesOf(K) /\ K[i].share \in Nat
    BY KidsAt
  <2>2. \A i \in 1 .. n : Weights(K)[i] = K[i].share
    BY WeightsOf
  <2> QED BY <2>1, <2>2
<1> HIDE DEF T, n
<1>6. /\ Weights(A) \in Seq(Int) /\ Len(Weights(A)) = n
      /\ Weights(B) \in Seq(Int) /\ Len(Weights(B)) = n
      /\ Weights(K) \in Seq(Int) /\ Len(Weights(K)) = n
  <2>1. Weights(A) \in Seq(Int) /\ Len(Weights(A)) = Len(A)
    BY <1>3, WeightsOf
  <2>2. Weights(B) \in Seq(Int) /\ Len(Weights(B)) = Len(B)
    BY <1>4, WeightsOf
  <2>3. Weights(K) \in Seq(Int) /\ Len(Weights(K)) = Len(K)
    BY WeightsOf
  <2> QED BY <1>3, <1>4, <2>1, <2>2, <2>3 DEF n
<1>7. \A i \in 1 .. n : Weights(K)[i] = Weights(A)[i] + Weights(B)[i]
  <2> TAKE i \in 1 .. n
  <2>1. CASE K[i].node \in S
    BY <1>3, <1>4, <1>5, <2>1
  <2>2. CASE K[i].node \notin S
    BY <1>3, <1>4, <1>5, <2>2
  <2> QED BY <2>1, <2>2
<1> DEFINE a == Weights(A) b == Weights(B) c == Weights(K)
<1>8. a \in Seq(Int) /\ b \in Seq(Int) /\ c \in Seq(Int) /\ Len(b) = Len(a) /\ Len(c) = Len(a)
      /\ \A i \in 1 .. Len(a) : c[i] = a[i] + b[i]
  BY <1>6, <1>7
<1> HIDE DEF a, b, c
<1>9. Total(c) = Total(a) + Total(b)
  BY <1>8, TotalAdds
<1> QED BY <1>3, <1>4, <1>9 DEF SumOf, a, b, c, T

\* A split takes its own children again, in another order or with other shares.
LEMMA Readopted ==
  ASSUME NEW l, NEW tops, NEW thin, Grove(l, tops, thin), NEW p \in DOMAIN l.kids,
         NEW K, KidsFor(K, Children(l.up, p))
  PROVE  LET m == Adopt(l, p, K) IN
         /\ Grove(m, tops, thin) /\ m.root = l.root /\ m.axis = l.axis /\ m.up = l.up
         /\ m.kids = Set(l.kids, p, K)
<1> DEFINE r == l.root a == l.axis k == l.kids u == l.up m == Adopt(l, p, K) k2 == Set(k, p, K)
<1>1. /\ Forest(r, a, k, u, tops, thin) /\ l = Lay(r, a, k, u) /\ a \in [DOMAIN k -> Axis]
  BY GroveParts DEF Grove
<1>2. K \in Seq(KidRec) /\ NodesOf(K) = Children(u, p)
  BY DEF KidsFor
<1>3. \A s \in DOMAIN k : KidsFor(k[s], Children(u, s))
  BY <1>1 DEF Forest
<1>4. p \in DOMAIN k /\ KidsFor(K, Children(u, p))
  OBVIOUS
<1> HIDE DEF r, a, k, u, m
<1>5. DOMAIN k2 = DOMAIN k /\ k2[p] = K /\ \A s \in DOMAIN k : s # p => k2[s] = k[s]
  BY <1>4 DEF Set
<1> HIDE DEF k2
<1>6. Parented(u, p, NodesOf(K)) = u
  <2>1. u \in [DOMAIN u -> DOMAIN k \cup {NoNode}]
    BY <1>1 DEF Forest
  <2>2. DOMAIN u \cup NodesOf(K) = DOMAIN u
    BY <1>2 DEF Children
  <2>3. \A n \in DOMAIN u : (IF n \in NodesOf(K) THEN p ELSE u[n]) = u[n]
    BY <1>2 DEF Children
  <2> QED BY <2>1, <2>2, <2>3 DEF Parented
<1>7. m = Lay(r, a, k2, u)
  <2>1. K \in Seq(KidRec)
    BY <1>2
  <2>2. Adopt(Lay(r, a, k, u), p, K) = Lay(r, a, Set(k, p, K), Parented(u, p, NodesOf(K)))
    BY <2>1, AdoptParts
  <2> QED BY <1>1, <1>6, <2>2, Zenon DEF m, k2
<1>8. Forest(r, a, k2, u, tops, thin)
  <2>1. \A s \in DOMAIN k : KidsFor(k2[s], Children(u, s))
    BY <1>3, <1>4, <1>5
  <2> QED BY <1>1, <1>5, <2>1, Relisted
<1>9. Grove(m, tops, thin) /\ m.root = r /\ m.axis = a /\ m.kids = k2 /\ m.up = u
  BY <1>7, <1>8, GroveOf, LayParts
<1> QED BY <1>9 DEF k2, r, a, k, u, m

\* reorder_at_same_level puts the selection elsewhere among its siblings.
LEMMA ReorderGrove ==
  ASSUME NEW l, Grove(l, {l.root}, {}), NEW sel, NEW i, NEW j,
         Ranged(l, sel.parent, sel.nodes, i, j),
         NEW target \in Children(l.up, sel.parent), target \notin ToSet(sel.nodes), NEW insertion
  PROVE  LET m == Reorder(l, sel, target, insertion) IN
         Grove(m, {m.root}, {}) /\ m.root = l.root /\ m.up = l.up
<1> DEFINE p == sel.parent K == l.kids[p] S == ToSet(sel.nodes) C == SelectedKids(l, sel)
           D == OtherKids(l, sel)
           t == IndexIn(D, target)
           at == IF insertion = "AFTER" THEN t + 1 ELSE t
           R == Replace(D, at, 0, C)
           m == Reorder(l, sel, target, insertion)
<1>1. /\ C \in Seq(KidRec) /\ Distinct(C) /\ NodesOf(C) = S
      /\ D \in Seq(KidRec) /\ Distinct(D) /\ NodesOf(D) = Children(l.up, p) \ S
      /\ Len(D) \in Nat
  BY Partitioned
<1>2. p \in DOMAIN l.kids /\ S \subseteq Children(l.up, p)
  BY RangedParts DEF Ranged
<1>3. K \in Seq(KidRec) /\ Distinct(K) /\ NodesOf(K) = Children(l.up, p) /\ SumOf(K) = Full
  BY <1>2, GroveKids
<1>4. SumOf(C) + SumOf(D) = Full
  <2>1. ToSet(KidNodes(K)) = NodesOf(K)
    BY <1>3, KidNodesOf
  <2>2. C = Among(K, S) /\ D = Among(K, NodesOf(K) \ S)
    BY <2>1, Zenon DEF SelectedKids, OtherKids
  <2> HIDE DEF C, D, K
  <2>3. SumOf(Among(K, S)) + SumOf(Among(K, NodesOf(K) \ S)) = SumOf(K)
    BY <1>3, AmongSum
  <2> QED BY <1>3, <2>2, <2>3
<1>5. m = Adopt(l, p, R)
  BY Zenon DEF Reorder, IndexIn
<1> HIDE DEF C, D, S, m, K
<1>6. t \in 1 .. Len(D)
  <2>1. target \in NodesOf(D)
    BY <1>1 DEF S
  <2> QED BY <1>1, <2>1, KidIndex DEF IndexIn
<1> HIDE DEF t
<1>7. at \in 1 .. Len(D) + 1 /\ at \in Int
  BY <1>1, <1>6
<1> HIDE DEF at
<1>8. LET E == Cut(D, at, (at + 0) - 1)
      IN  /\ R \in Seq(KidRec) /\ Distinct(R) /\ NodesOf(R) = (NodesOf(D) \ NodesOf(E))
             \cup NodesOf(C)
          /\ SumOf(R) = (SumOf(D) - SumOf(E)) + SumOf(C)
  <2>1. (at + 0) - 1 <= Len(D) /\ 0 \in Nat
    BY <1>1, <1>7
  <2>2. NodesOf(C) \cap NodesOf(D) \subseteq NodesOf(Cut(D, at, (at + 0) - 1))
    BY <1>1
  <2>3. D \in Seq(KidRec) /\ Distinct(D) /\ C \in Seq(KidRec) /\ Distinct(C)
    BY <1>1
  <2> QED BY <1>7, <2>1, <2>2, <2>3, KidsReplaced
<1>9. NodesOf(Cut(D, at, (at + 0) - 1)) = {} /\ SumOf(Cut(D, at, (at + 0) - 1)) = 0
  <2> DEFINE e == (at + 0) - 1 E == Cut(D, at, e)
  <2>1. e \in (at - 1) .. Len(D) /\ (e - at) + 1 = 0
    BY <1>1, <1>7
  <2> HIDE DEF e
  <2>2. E \in Seq(KidRec) /\ Len(E) = (e - at) + 1
    BY <1>1, <1>7, <2>1, KidsCut
  <2> HIDE DEF E
  <2>3. Len(E) = 0 /\ E \in Seq(KidRec)
    BY <2>1, <2>2
  <2>4. NodesOf(E) = {} /\ SumOf(E) = 0
    BY <2>3, KidsNone
  <2> QED BY <2>4 DEF E, e
<1> HIDE DEF R
<1>10. KidsFor(R, Children(l.up, p))
  <2>1. NodesOf(R) = Children(l.up, p)
    BY <1>1, <1>2, <1>8, <1>9
  <2>2. SumOf(R) = Full
    <3>1. SumOf(C) \in Nat /\ SumOf(D) \in Nat
      BY <1>1, SumNat
    <3> QED BY <1>4, <1>8, <1>9, <3>1
  <2> QED BY <1>8, <2>1, <2>2 DEF KidsFor
<1>11. Grove(Adopt(l, p, R), {l.root}, {}) /\ Adopt(l, p, R).root = l.root
       /\ Adopt(l, p, R).up = l.up
  BY <1>2, <1>10, Readopted
<1> QED BY <1>5, <1>11 DEF m

-----------------------------------------------------------------------------
(* Moving elsewhere *)

\* A tree that hung nowhere gives its top's children to s, and the top is gone.
LEMMA Passed ==
  ASSUME NEW l, NEW tops, NEW thin, Grove(l, tops, thin),
         NEW n \in DOMAIN l.kids, l.up[n] = NoNode, n # l.root,
         NEW s \in DOMAIN l.kids, NEW A, Upward(l.up, A), s \in A, n \notin A,
         NEW K, KidsFor(K, Children(l.up, s) \cup Children(l.up, n))
  PROVE  Grove(Lay(l.root, Keep(l.axis, DOMAIN l.up \ {n}),
         Set(Keep(l.kids, DOMAIN l.up \ {n}), s, K),
                   Lifted(l.up, {n}, s)), tops \ {n}, thin \ {s})
<1> DEFINE r == l.root a == l.axis k == l.kids u == l.up
           Kd == Normalized(Join(k[s], <<Kid(n, 0)>>))
           l1 == Adopt(l, s, Kd)
           u1 == Parented(u, s, {n})
           N == {q \in DOMAIN u1 \ {n} : u1[q] = s \/ u1[q] \in {n}}
           D == DOMAIN u \ {n}
           m1 == Erase(Adopt(l1, s, K), {n})
<1>1. /\ l = Lay(r, a, k, u) /\ DOMAIN u \subseteq Pane \cup Split /\ DOMAIN k \subseteq DOMAIN u
      /\ DOMAIN a = DOMAIN k /\ NoNode \notin DOMAIN u /\ n # s
  BY GroveParts
<1>2. /\ k[s] \in Seq(KidRec) /\ Distinct(k[s]) /\ NodesOf(k[s]) = Children(u, s)
         /\ Children(u, s) # {}
  BY GroveKids
<1>3. Children(u, n) # {} /\ n \notin Children(u, s) /\ n \notin Children(u, n)
      /\ s \notin Children(u, s)
      /\ Children(u, n) \cap Children(u, s) = {}
  <2>1. Children(u, n) # {} /\ n \notin Children(u, n) /\ s \notin Children(u, s)
    BY GroveKids
  <2>2. s # NoNode
    BY <1>1
  <2> QED BY <1>1, <2>1, <2>2 DEF Children
<1>4. KidsFor(Kd, Children(u, s) \cup {n})
  <2> DEFINE one == <<Kid(n, 0)>>
  <2>1. one \in Seq(KidRec) /\ NodesOf(one) = {n} /\ Distinct(one)
    BY <1>1, KidsOne
  <2> HIDE DEF one
  <2> DEFINE J == Join(k[s], one)
  <2>2. J \in Seq(KidRec) /\ NodesOf(J) = Children(u, s) \cup {n} /\ Distinct(J)
    <3>1. NodesOf(k[s]) \cap NodesOf(one) = {}
      BY <1>2, <1>3, <2>1
    <3>2. k[s] \in Seq(KidRec) /\ one \in Seq(KidRec) /\ Distinct(k[s]) /\ Distinct(one)
      BY <1>2, <2>1
    <3>3. J \in Seq(KidRec) /\ NodesOf(J) = NodesOf(k[s]) \cup NodesOf(one) /\ Distinct(J)
      BY <3>1, <3>2, KidsJoined
    <3> QED BY <1>2, <2>1, <3>3
  <2> HIDE DEF J
  <2>3. KidsFor(Normalized(J), NodesOf(J))
    <3>1. NodesOf(J) # {}
      BY <2>2
    <3> QED BY <2>2, <3>1, NormalizedKids
  <2> QED BY <2>2, <2>3 DEF J, one
<1>5. s \in DOMAIN k /\ Upward(u, A) /\ u[n] = NoNode /\ n \in DOMAIN u /\ n # r /\ n \in DOMAIN k
  BY <1>1
<1>6. l1 = Lay(r, a, Set(k, s, Kd), u1) /\ Grove(l1, tops \ {n}, thin \ {s})
  <2> HIDE DEF Kd
  <2>1. n \in Pane \cup Split
    BY <1>1, <1>5
  <2> QED BY <1>4, <1>5, <2>1, Joined
<1>7. KidsFor(K, Children(u, s) \cup Children(u, n)) /\ K \in Seq(KidRec)
      /\ NodesOf(K) = Children(u, s) \cup Children(u, n)
  BY DEF KidsFor
<1> HIDE DEF r, a, k, u, l1, Kd, m1
<1>8. DOMAIN u1 = DOMAIN u /\ (\A q \in D : u1[q] = u[q]) /\ u1[n] = s
  BY <1>5 DEF Parented
<1>9. l1.root = r /\ l1.axis = a /\ l1.kids = Set(k, s, Kd) /\ l1.up = u1
  BY <1>6, LayParts
<1>10. DOMAIN l1.kids = DOMAIN k
  BY <1>5, <1>9 DEF Set
<1>11. N = Children(u, s) \cup Children(u, n)
  BY <1>3, <1>8 DEF Children
<1>12. N # {} /\ Several(N)
  BY <1>2, <1>3, <1>11 DEF Several
<1> HIDE DEF u1
<1>13. /\ Grove(m1, tops \ {n}, thin \ {s}) /\ m1.up = Lifted(l1.up, {n}, s)
  <2> DEFINE X == {n}
  <2>1. N = {q \in DOMAIN l1.up \ X : l1.up[q] = s \/ l1.up[q] \in X}
    BY <1>9
  <2>2. s \in DOMAIN l1.kids /\ X \subseteq DOMAIN l1.kids /\ s \notin X
        /\ \A q \in X : l1.up[q] \in X \cup {s}
    BY <1>1, <1>5, <1>8, <1>9, <1>10
  <2>3. KidsFor(K, N)
    BY <1>7, <1>11
  <2> HIDE DEF X, N
  <2>4. /\ Grove(Erase(Adopt(l1, s, K), X), tops \ {n}, thin \ {s})
        /\ Erase(Adopt(l1, s, K), X).up = Lifted(l1.up, X, s)
    BY <1>6, <1>12, <2>1, <2>2, <2>3, DissolvedGrove
  <2> QED BY <2>4 DEF m1, X
<1>14. m1 = Lay(r, Keep(a, D), Keep(Set(Set(k, s, Kd), s, K), D), Lifted(u, {n}, s))
  <2> DEFINE k1 == Set(k, s, Kd) k2 == Set(k1, s, K) u2 == Parented(u1, s, NodesOf(K))
  <2> HIDE DEF k1, k2, u2
  <2>1. Adopt(Lay(r, a, k1, u1), s, K) = Lay(r, a, k2, u2)
    <3>1. K \in Seq(KidRec)
      BY <1>7
    <3> QED BY <3>1, AdoptParts DEF k2, u2
  <2>2. m1 = Erase(Lay(r, a, k2, u2), {n})
    BY <1>6, <2>1 DEF m1, k1
  <2>3. m1 = Lay(r, Keep(a, DOMAIN u2 \ {n}), Keep(k2, DOMAIN u2 \ {n}),
        Keep(u2, DOMAIN u2 \ {n}))
    BY <2>2, EraseParts
  <2>4. DOMAIN u2 \ {n} = D
    <3>1. NodesOf(K) \subseteq DOMAIN u
      BY <1>7 DEF Children
    <3> QED BY <1>8, <3>1 DEF u2, Parented
  <2>5. m1 = Lay(r, Keep(a, D), Keep(k2, D), Keep(u2, D))
    BY <2>3, <2>4
  <2> HIDE DEF D
  <2>6. m1.up = Keep(u2, D)
    BY <2>5, LayParts
  <2>7. Lifted(l1.up, {n}, s) = Lifted(u, {n}, s)
    <3>1. \A q \in DOMAIN u \ {n} : u1[q] = u[q]
      BY <1>8 DEF D
    <3> QED BY <1>8, <1>9, <3>1 DEF Lifted
  <2> QED BY <1>13, <2>5, <2>6, <2>7 DEF k1, k2
<1>15. Keep(Set(Set(k, s, Kd), s, K), D) = Set(Keep(k, D), s, K)
  <2> DEFINE f == Keep(Set(Set(k, s, Kd), s, K), D) g == Set(Keep(k, D), s, K)
  <2>1. s \in D
    BY <1>1, <1>5
  <2> HIDE DEF D
  <2>2. DOMAIN f = DOMAIN k \cap D /\ DOMAIN g = DOMAIN k \cap D
    BY <1>5, <2>1 DEF Keep, Set
  <2>3. ASSUME NEW q \in DOMAIN k \cap D PROVE f[q] = g[q]
    BY <2>1, <2>3 DEF Keep, Set
  <2>4. f = [q \in DOMAIN f |-> f[q]] /\ g = [q \in DOMAIN g |-> g[q]]
    BY DEF Keep, Set
  <2> HIDE DEF f, g
  <2> QED BY <2>2, <2>3, <2>4 DEF f, g
<1> QED BY <1>13, <1>14, <1>15 DEF r, a, k, u

\* A tree with top n that was taken out of the layout, from split left, and a target t that
\* it does not contain.
Movable(l, n, t, left) ==
  /\ Grove(l, {l.root, n}, {left}) /\ n # l.root /\ n \in DOMAIN l.up /\ l.up[n] = NoNode
  /\ left \in DOMAIN l.kids /\ left # n /\ t \in DOMAIN l.up
  /\ \E A : Upward(l.up, A) /\ t \in A /\ n \notin A

\* The nodes that flatten_source_for_axis hands to the split it moves the source to.
SourceNodes(l, n, axis) == IF SourceDissolves(l, n, axis) THEN Children(l.up, n) ELSE {n}

\* What flatten_source_for_axis hands over is a list of children with these nodes and the
\* share it was given.
LEMMA SourceKidsAre ==
  ASSUME NEW l, NEW tops, NEW thin, Grove(l, tops, thin), NEW n \in DOMAIN l.up, NEW axis,
         NEW x \in Nat
  PROVE  /\ SourceKids(l, n, axis, x) \in Seq(KidRec) /\ Distinct(SourceKids(l, n, axis, x))
         /\ NodesOf(SourceKids(l, n, axis, x)) = SourceNodes(l, n, axis)
         /\ SumOf(SourceKids(l, n, axis, x)) = x
         /\ (SourceDissolves(l, n, axis) => n \in DOMAIN l.kids)
<1>1. CASE SourceDissolves(l, n, axis)
  <2> DEFINE K == l.kids[n]
  <2>1. n \in DOMAIN l.kids
    BY <1>1, GroveParts DEF SourceDissolves
  <2>2. K \in Seq(KidRec) /\ Distinct(K) /\ NodesOf(K) = Children(l.up, n)
        /\ Children(l.up, n) # {}
    BY <2>1, GroveKids
  <2>3. SourceKids(l, n, axis, x) = ScaledTo(K, x)
    BY <1>1 DEF SourceKids
  <2> HIDE DEF K
  <2>4. Len(K) # 0
    <3>1. Len(K) = 0 <=> NodesOf(K) = {}
      BY <2>2, KidsLength
    <3> QED BY <2>2, <3>1
  <2>5. /\ ScaledTo(K, x) \in Seq(KidRec) /\ NodesOf(ScaledTo(K, x)) = NodesOf(K)
        /\ (Distinct(K) => Distinct(ScaledTo(K, x))) /\ SumOf(ScaledTo(K, x)) = x
    BY <2>2, <2>4, KidsScaled
  <2> QED BY <1>1, <2>1, <2>2, <2>3, <2>5 DEF SourceNodes
<1>2. CASE ~SourceDissolves(l, n, axis)
  <2>1. SourceKids(l, n, axis, x) = <<Kid(n, x)>>
    BY <1>2 DEF SourceKids
  <2>2. n \in Pane \cup Split
    BY GroveParts
  <2>3. /\ <<Kid(n, x)>> \in Seq(KidRec) /\ NodesOf(<<Kid(n, x)>>) = {n}
           /\ Distinct(<<Kid(n, x)>>)
        /\ SumOf(<<Kid(n, x)>>) = x
    BY <2>2, KidsOne
  <2> QED BY <1>2, <2>1, <2>3 DEF SourceNodes
<1> QED BY <1>1, <1>2

\* The source and the target side by side.
LEMMA PlacedKids ==
  ASSUME NEW l, NEW n, NEW t, NEW left, Movable(l, n, t, left), NEW axis, NEW x \in Nat,
         NEW y \in Nat,
         NEW K \in {Join(SourceKids(l, n, axis, x), <<Kid(t, y)>>),
         Join(<<Kid(t, y)>>, SourceKids(l, n, axis, x))}
  PROVE  /\ K \in Seq(KidRec) /\ Distinct(K) /\ NodesOf(K) = {t} \cup SourceNodes(l, n, axis)
         /\ SumOf(K) = x + y
<1> DEFINE M == SourceKids(l, n, axis, x) one == <<Kid(t, y)>> W == SourceNodes(l, n, axis)
<1>1. Grove(l, {l.root, n}, {left}) /\ n \in DOMAIN l.up /\ t \in DOMAIN l.up
  BY DEF Movable
<1>2. M \in Seq(KidRec) /\ Distinct(M) /\ NodesOf(M) = W /\ SumOf(M) = x
  BY <1>1, SourceKidsAre
<1>3. one \in Seq(KidRec) /\ Distinct(one) /\ NodesOf(one) = {t} /\ SumOf(one) = y
  <2>1. t \in Pane \cup Split
    BY <1>1, GroveParts
  <2> QED BY <2>1, KidsOne
<1>4. t \notin W
  <2>1. PICK A : Upward(l.up, A) /\ t \in A /\ n \notin A
    BY DEF Movable
  <2>2. l.up[t] \in A \cup {NoNode} /\ n # NoNode
    BY <1>1, <2>1, GroveParts DEF Upward
  <2>3. l.up[t] # n
    BY <2>1, <2>2
  <2> QED BY <2>1, <2>3 DEF SourceNodes, Children
<1>5. K = Join(M, one) \/ K = Join(one, M)
  OBVIOUS
<1> HIDE DEF M, one, W
<1>6. NodesOf(M) \cap NodesOf(one) = {} /\ NodesOf(one) \cap NodesOf(M) = {}
  BY <1>2, <1>3, <1>4
<1>7. /\ Join(M, one) \in Seq(KidRec) /\ Distinct(Join(M, one))
         /\ NodesOf(Join(M, one)) = {t} \cup W
      /\ SumOf(Join(M, one)) = x + y
  <2>1. /\ Join(M, one) \in Seq(KidRec) /\ Distinct(Join(M, one))
        /\ NodesOf(Join(M, one)) = NodesOf(M) \cup NodesOf(one)
           /\ SumOf(Join(M, one)) = SumOf(M) + SumOf(one)
    BY <1>2, <1>3, <1>6, KidsJoined
  <2> QED BY <1>2, <1>3, <2>1
<1>8. /\ Join(one, M) \in Seq(KidRec) /\ Distinct(Join(one, M))
         /\ NodesOf(Join(one, M)) = {t} \cup W
      /\ SumOf(Join(one, M)) = x + y
  <2>1. /\ Join(one, M) \in Seq(KidRec) /\ Distinct(Join(one, M))
        /\ NodesOf(Join(one, M)) = NodesOf(one) \cup NodesOf(M)
           /\ SumOf(Join(one, M)) = SumOf(one) + SumOf(M)
    BY <1>2, <1>3, <1>6, KidsJoined
  <2> QED BY <1>2, <1>3, <2>1
<1> QED BY <1>5, <1>7, <1>8 DEF W

\* A forest with fewer conditions on one split.
LEMMA Thinner ==
  ASSUME NEW l, NEW tops, NEW thin, Grove(l, tops, thin), NEW thin2, thin \subseteq thin2
  PROVE  Grove(l, tops, thin2)
<1>1. Forest(l.root, l.axis, l.kids, l.up, tops, thin) /\ l = Lay(l.root, l.axis, l.kids, l.up)
  BY DEF Grove
<1> DEFINE r == l.root a == l.axis k == l.kids u == l.up
<1> HIDE DEF r, a, k, u
<1>2. \A s \in DOMAIN k : s \in thin /\ s \notin thin2 => Several(Children(u, s))
  OBVIOUS
<1>3. Forest(r, a, k, u, tops, thin2)
  BY <1>1, <1>2, NotThin DEF r, a, k, u
<1> QED BY <1>1, <1>3 DEF Grove, r, a, k, u

\* Erase takes one split out of a layout.
LEMMA ErasedOne ==
  ASSUME NEW l, l = Lay(l.root, l.axis, l.kids, l.up), NEW n
  PROVE  LET D == DOMAIN l.up \ {n} IN
         Erase(l, {n}) = Lay(l.root, Keep(l.axis, D), Keep(l.kids, D), Keep(l.up, D))
<1> DEFINE r == l.root a == l.axis k == l.kids u == l.up
<1>1. l = Lay(r, a, k, u)
  OBVIOUS
<1> HIDE DEF r, a, k, u
<1>2. Erase(Lay(r, a, k, u), {n})
        = Lay(r, Keep(a, DOMAIN u \ {n}), Keep(k, DOMAIN u \ {n}), Keep(u, DOMAIN u \ {n}))
  BY EraseParts
<1>3. Erase(l, {n})
      = Lay(r, Keep(a, DOMAIN u \ {n}), Keep(k, DOMAIN u \ {n}), Keep(u, DOMAIN u \ {n}))
  BY <1>1, <1>2
<1> QED BY <1>3 DEF r, a, k, u

\* insert_into_matching_split puts the source among the target's siblings.
LEMMA InsertBesideGrove ==
  ASSUME NEW l, NEW n, NEW t, NEW left, Movable(l, n, t, left), l.up[t] # NoNode, NEW axis,
         NEW insertion
  PROVE  LET m == InsertBeside(l, n, t, axis, insertion) IN
         /\ Grove(m, {m.root}, {left}) /\ left \in DOMAIN m.kids
            /\ Nodes(m) \cap Pane = Nodes(l) \cap Pane
<1> DEFINE p == l.up[t]
           i == ChildIndex(l, p, t)
           whole == l.kids[p][i].share
           new == IF insertion = "BEFORE"
                  THEN SourceKids(l, n, axis, EarlierHalf(whole)) \o <<Kid(t, LaterHalf(whole))>>
                  ELSE <<Kid(t, EarlierHalf(whole))>> \o SourceKids(l, n, axis, LaterHalf(whole))
           K == Replace(l.kids[p], i, 1, new)
           W == SourceNodes(l, n, axis)
           m == InsertBeside(l, n, t, axis, insertion)
<1>1. /\ Grove(l, {l.root, n}, {left}) /\ n # l.root /\ n \in DOMAIN l.up /\ l.up[n] = NoNode
      /\ left \in DOMAIN l.kids /\ left # n /\ t \in DOMAIN l.up
  BY DEF Movable
<1>2. m = Adopt(WithoutSource(l, n, axis), p, K)
  BY Zenon DEF InsertBeside
<1>3. /\ p \in DOMAIN l.kids /\ t \in Children(l.up, p) /\ i \in 1 .. Len(l.kids[p])
      /\ l.kids[p][i].node = t /\ whole \in Nat
  BY <1>1, GroveIndex
<1>4. PICK A : Upward(l.up, A) /\ t \in A /\ n \notin A
  BY DEF Movable
<1>5. /\ DOMAIN l.up \subseteq Pane \cup Split /\ DOMAIN l.kids = DOMAIN l.up \cap Split
         /\ NoNode \notin DOMAIN l.up
      /\ l = Lay(l.root, l.axis, l.kids, l.up) /\ Nodes(l) = DOMAIN l.up
         /\ DOMAIN l.axis = DOMAIN l.kids
  BY <1>1, GroveParts
<1>6. p \in A /\ p # n
  BY <1>4 DEF Upward
<1>7. new \in Seq(KidRec) /\ Distinct(new) /\ NodesOf(new) = {t} \cup W /\ SumOf(new) = whole
  <2>1. /\ EarlierHalf(whole) \in Nat /\ LaterHalf(whole) \in Nat
        /\ EarlierHalf(whole) + LaterHalf(whole) = whole
           /\ LaterHalf(whole) + EarlierHalf(whole) = whole
    <3>1. EarlierHalf(whole) \in Nat /\ LaterHalf(whole) \in Nat
          /\ EarlierHalf(whole) + LaterHalf(whole) = whole
      BY <1>3, Halves
    <3>2. LaterHalf(whole) + EarlierHalf(whole) = EarlierHalf(whole) + LaterHalf(whole)
      BY <3>1
    <3> QED BY <3>1, <3>2
  <2> DEFINE e == EarlierHalf(whole) f == LaterHalf(whole)
  <2>2. CASE insertion = "BEFORE"
    <3>1. new = Join(SourceKids(l, n, axis, e), <<Kid(t, f)>>)
      BY <2>2, Zenon DEF Join
    <3>a. e \in Nat /\ f \in Nat
      BY <2>1
    <3> HIDE DEF new, e, f, W
    <3>2. new \in Seq(KidRec) /\ Distinct(new) /\ NodesOf(new) = {t}
          \cup SourceNodes(l, n, axis) /\ SumOf(new) = e + f
      BY <3>1, <3>a, PlacedKids
    <3> QED BY <2>1, <3>2 DEF e, f, W
  <2>3. CASE insertion # "BEFORE"
    <3>1. new = Join(<<Kid(t, e)>>, SourceKids(l, n, axis, f))
      BY <2>3, Zenon DEF Join
    <3>a. e \in Nat /\ f \in Nat
      BY <2>1
    <3> HIDE DEF new, e, f, W
    <3>2. new \in Seq(KidRec) /\ Distinct(new) /\ NodesOf(new) = {t}
          \cup SourceNodes(l, n, axis) /\ SumOf(new) = f + e
      BY <3>1, <3>a, PlacedKids
    <3> QED BY <2>1, <3>2 DEF e, f, W
  <2> QED BY <2>2, <2>3
<1> HIDE DEF new, i, whole, m
<1>8. KidsFor(K, Children(l.up, p) \cup W)
  <2>1. KidsFor(l.kids[p], Children(l.up, p))
    BY <1>1, <1>3, GroveKids
  <2>2. NodesOf(new) \cap Children(l.up, p) \subseteq {l.kids[p][i].node}
    <3>1. W \cap Children(l.up, p) = {}
      BY <1>1, <1>5, <1>6 DEF SourceNodes, Children
    <3> QED BY <1>3, <1>7, <3>1
  <2>3. KidsFor(K, (Children(l.up, p) \ {l.kids[p][i].node}) \cup NodesOf(new))
    <3>1. SumOf(new) = l.kids[p][i].share
      BY <1>7 DEF whole
    <3> QED BY <1>3, <1>7, <2>1, <2>2, <3>1, KidTraded
  <2>4. (Children(l.up, p) \ {l.kids[p][i].node}) \cup NodesOf(new) = Children(l.up, p) \cup W
    BY <1>3, <1>7
  <2> QED BY <2>3, <2>4
<1> HIDE DEF K
<1>9. {l.root, n} \ {n} = {l.root} /\ {left} \ {p} \subseteq {left}
  BY <1>1
<1>10. CASE SourceDissolves(l, n, axis)
  <2> DEFINE D == DOMAIN l.up \ {n}
             E == Lay(l.root, Keep(l.axis, D), Set(Keep(l.kids, D), p, K), Lifted(l.up, {n}, p))
  <2>1. W = Children(l.up, n) /\ n \in DOMAIN l.kids
    <3>1. 0 \in Nat
      OBVIOUS
    <3> QED BY <1>1, <1>10, <3>1, SourceKidsAre DEF SourceNodes
  <2>2. Grove(E, {l.root, n} \ {n}, {left} \ {p})
    <3>1. KidsFor(K, Children(l.up, p) \cup Children(l.up, n))
      BY <1>8, <2>1
    <3> QED BY <1>1, <1>3, <1>4, <1>6, <2>1, <3>1, Passed
  <2>3. m = E
    <3>1. WithoutSource(l, n, axis) = Erase(l, {n})
      BY <1>10 DEF WithoutSource
    <3>2. Erase(l, {n}) = Lay(l.root, Keep(l.axis, D), Keep(l.kids, D), Keep(l.up, D))
      BY <1>5, ErasedOne
    <3>3. K \in Seq(KidRec) /\ NodesOf(K) = Children(l.up, p) \cup Children(l.up, n)
      BY <1>8, <2>1 DEF KidsFor
    <3> DEFINE a2 == Keep(l.axis, D) k2 == Keep(l.kids, D) u2 == Keep(l.up, D)
    <3>4. Parented(u2, p, NodesOf(K)) = Lifted(l.up, {n}, p)
      <4> DEFINE f == Parented(u2, p, NodesOf(K)) g == Lifted(l.up, {n}, p)
      <4>0. DOMAIN u2 = D /\ \A q \in D : u2[q] = l.up[q]
        BY DEF Keep
      <4> HIDE DEF u2
      <4>1. n \notin NodesOf(K) /\ NodesOf(K) \subseteq D
        <5>1. n \notin Children(l.up, p) /\ n \notin Children(l.up, n)
          BY <1>1, <1>5, <1>6 DEF Children
        <5> QED BY <3>3, <5>1 DEF Children
      <4>2. DOMAIN f = D /\ DOMAIN g = D
        BY <4>0, <4>1 DEF Parented, Lifted
      <4>3. ASSUME NEW q \in D PROVE f[q] = g[q]
        <5>1. g[q] = IF l.up[q] = n THEN p ELSE l.up[q]
          BY DEF Lifted
        <5>2. f[q] = IF q \in NodesOf(K) THEN p ELSE l.up[q]
          BY <4>0 DEF Parented
        <5>3. q \in NodesOf(K) <=> l.up[q] = p \/ l.up[q] = n
          BY <3>3 DEF Children
        <5> QED BY <5>1, <5>2, <5>3
      <4>4. f = [q \in DOMAIN f |-> f[q]] /\ g = [q \in DOMAIN g |-> g[q]]
        BY DEF Parented, Lifted
      <4> HIDE DEF f, g
      <4> QED BY <4>2, <4>3, <4>4 DEF f, g
    <3> HIDE DEF a2, k2, u2
    <3>5. Adopt(Lay(l.root, a2, k2, u2), p, K)
          = Lay(l.root, a2, Set(k2, p, K), Parented(u2, p, NodesOf(K)))
      <4>1. K \in Seq(KidRec)
        BY <3>3
      <4> QED BY <4>1, AdoptParts
    <3> QED BY <1>2, <3>1, <3>2, <3>4, <3>5, Zenon DEF a2, k2, u2
  <2>4. Nodes(m) = D /\ m.root = l.root /\ left \in DOMAIN m.kids
    <3>1. m.root = l.root /\ m.kids = Set(Keep(l.kids, D), p, K)
          /\ Nodes(m) = DOMAIN Lifted(l.up, {n}, p)
      BY <2>3, LayParts
    <3>2. left \in DOMAIN Set(Keep(l.kids, D), p, K)
      BY <1>1, <1>5 DEF Set, Keep
    <3> QED BY <3>1, <3>2 DEF Lifted
  <2>5. Grove(m, {m.root}, {left})
    <3>1. Grove(m, {l.root}, {left} \ {p})
      BY <1>9, <2>2, <2>3, Zenon
    <3> QED BY <1>9, <2>4, <3>1, Thinner
  <2>6. Nodes(m) \cap Pane = Nodes(l) \cap Pane
    BY <1>5, <2>1, <2>4, SplitAssumption
  <2> QED BY <2>4, <2>5, <2>6 DEF m
<1>11. CASE ~SourceDissolves(l, n, axis)
  <2>1. W = {n} /\ WithoutSource(l, n, axis) = l
    BY <1>11 DEF SourceNodes, WithoutSource
  <2>2. /\ Adopt(l, p, K) = Lay(l.root, l.axis, Set(l.kids, p, K), Parented(l.up, p, {n}))
        /\ Grove(Adopt(l, p, K), {l.root, n} \ {n}, {left} \ {p})
    <3>1. KidsFor(K, Children(l.up, p) \cup {n}) /\ n \in Pane \cup Split
      BY <1>1, <1>5, <1>8, <2>1
    <3> QED BY <1>1, <1>3, <1>4, <1>6, <3>1, Joined
  <2>3. m.root = l.root /\ Nodes(m) = DOMAIN l.up /\ left \in DOMAIN m.kids
    <3>1. m = Lay(l.root, l.axis, Set(l.kids, p, K), Parented(l.up, p, {n}))
      BY <1>2, <2>1, <2>2
    <3>2. m.root = l.root /\ m.kids = Set(l.kids, p, K)
          /\ Nodes(m) = DOMAIN Parented(l.up, p, {n})
      BY <3>1, LayParts
    <3> QED BY <1>1, <3>2 DEF Parented, Set
  <2>4. Grove(m, {m.root}, {left})
    <3>1. Grove(m, {l.root}, {left} \ {p})
      BY <1>2, <1>9, <2>1, <2>2, Zenon
    <3> QED BY <1>9, <2>3, <3>1, Thinner
  <2>5. Nodes(m) \cap Pane = Nodes(l) \cap Pane
    BY <1>5, <2>3
  <2> QED BY <2>3, <2>4, <2>5 DEF m
<1> QED BY <1>10, <1>11

\* A split on axis x between t and its parent.
Over(l, t, w, x) ==
  Lay(IF l.root = t THEN w ELSE l.root, Set(l.axis, w, x),
      Set(Renamed(l.kids, l.up, t, w), w, <<Kid(t, Full)>>), Wrap(l.up, t, w))

\* Such a split has t for its only child.
LEMMA OverGrove ==
  ASSUME NEW l, NEW tops, NEW thin, Grove(l, tops, thin), NEW t \in DOMAIN l.up,
         NEW w \in Split, w \notin DOMAIN l.up, NEW x \in Axis
  PROVE  LET m == Over(l, t, w, x) IN
         /\ Grove(m, TopsWith(l.up, tops, t, w), thin \cup {w})
         /\ m.root = (IF l.root = t THEN w ELSE l.root) /\ m.axis = Set(l.axis, w, x)
         /\ m.kids = Set(Renamed(l.kids, l.up, t, w), w, <<Kid(t, Full)>>)
            /\ m.up = Wrap(l.up, t, w)
         /\ DOMAIN m.up = DOMAIN l.up \cup {w} /\ DOMAIN m.kids = DOMAIN l.kids \cup {w}
         /\ Children(m.up, w) = {t}
<1> DEFINE m == Over(l, t, w, x)
<1>1. Forest(l.root, l.axis, l.kids, l.up, tops, thin)
  BY DEF Grove
<1>2. Forest(IF l.root = t THEN w ELSE l.root, Set(l.axis, w, x),
             Set(Renamed(l.kids, l.up, t, w), w, <<Kid(t, Full)>>), Wrap(l.up, t, w),
             TopsWith(l.up, tops, t, w), thin \cup {w})
  BY <1>1, WrappedForest
<1>3. Grove(m, TopsWith(l.up, tops, t, w), thin \cup {w})
  BY <1>2, GroveOf DEF Over
<1>4. /\ m.root = (IF l.root = t THEN w ELSE l.root) /\ m.axis = Set(l.axis, w, x)
      /\ m.kids = Set(Renamed(l.kids, l.up, t, w), w, <<Kid(t, Full)>>) /\ m.up = Wrap(l.up, t, w)
  BY LayParts DEF Over
<1>5. DOMAIN Renamed(l.kids, l.up, t, w) = DOMAIN l.kids
  BY DEF Renamed
<1>6. DOMAIN Set(Renamed(l.kids, l.up, t, w), w, <<Kid(t, Full)>>) = DOMAIN l.kids \cup {w}
  BY <1>5 DEF Set
<1>7. DOMAIN Wrap(l.up, t, w) = DOMAIN l.up \cup {w}
  BY DEF Wrap
<1>8. Children(Wrap(l.up, t, w), w) = {t}
  <2>1. l.up \in [DOMAIN l.up -> DOMAIN l.kids \cup {NoNode}]
        /\ DOMAIN l.kids = DOMAIN l.up \cap Split
    BY GroveParts
  <2>2. w # NoNode
    BY NoNodeAssumption
  <2>3. \A q \in DOMAIN l.up : l.up[q] # w
    BY <2>1, <2>2
  <2>4. t # w
    OBVIOUS
  <2> QED BY <1>7, <2>3, <2>4 DEF Children, Wrap
<1> HIDE DEF m
<1> QED BY <1>3, <1>4, <1>6, <1>7, <1>8 DEF m

\* A new split takes the place of t and adopts some nodes.
LEMMA NewSplitInPlace ==
  ASSUME NEW r, NEW a, NEW k, NEW u, NEW t \in DOMAIN u, u[t] = NoNode => r = t, r = t
         => u[t] = NoNode,
         NEW w, NEW x, NEW K \in Seq(KidRec)
  PROVE  NewSplit(TakePlace(Lay(r, a, k, u), t, w), w, x, K)
           = Lay(IF r = t THEN w ELSE r, Set(a, w, x), Set(Renamed(k, u, t, w), w, K),
                 Parented(Set(u, w, u[t]), w, NodesOf(K)))
<1> DEFINE r2 == IF r = t THEN w ELSE r
           k1 == Renamed(k, u, t, w)
           u1 == Set(u, w, u[t])
<1>1. TakePlace(Lay(r, a, k, u), t, w) = Lay(r2, a, k1, u1)
  BY TakePlaceParts
<1> HIDE DEF r2, k1, u1
<1>2. K \in Seq(KidRec)
  OBVIOUS
<1>3. NewSplit(Lay(r2, a, k1, u1), w, x, K)
      = Lay(r2, Set(a, w, x), Set(k1, w, K), Parented(u1, w, NodesOf(K)))
  BY <1>2, NewSplitParts
<1>4. NewSplit(TakePlace(Lay(r, a, k, u), t, w), w, x, K)
        = Lay(r2, Set(a, w, x), Set(k1, w, K), Parented(u1, w, NodesOf(K)))
  BY <1>1, <1>3
<1> QED BY <1>4 DEF r2, k1, u1

\* A new split takes the place of t, and t and other nodes become its children.
LEMMA NewSplitOver ==
  ASSUME NEW r, NEW a, NEW k, NEW u, NEW t \in DOMAIN u, u[t] = NoNode => r = t, r = t
         => u[t] = NoNode,
         NEW w, w \notin DOMAIN u, NEW x, NEW K \in Seq(KidRec), t \in NodesOf(K),
         w \notin NodesOf(K)
  PROVE  NewSplit(TakePlace(Lay(r, a, k, u), t, w), w, x, K)
           = Lay(IF r = t THEN w ELSE r, Set(a, w, x), Set(Renamed(k, u, t, w), w, K),
                 Parented(Wrap(u, t, w), w, NodesOf(K) \ {t}))
<1>1. NewSplit(TakePlace(Lay(r, a, k, u), t, w), w, x, K)
           = Lay(IF r = t THEN w ELSE r, Set(a, w, x), Set(Renamed(k, u, t, w), w, K),
                 Parented(Set(u, w, u[t]), w, NodesOf(K)))
  BY NewSplitInPlace
<1> DEFINE X == NodesOf(K) \ {t}
<1>2. NodesOf(K) = {t} \cup X /\ w \notin X
  OBVIOUS
<1> HIDE DEF X
<1>3. Parented(Set(u, w, u[t]), w, {t} \cup X) = Parented(Wrap(u, t, w), w, X)
  BY <1>2, WrapParented
<1>4. Parented(Set(u, w, u[t]), w, NodesOf(K)) = Parented(Wrap(u, t, w), w, X)
  BY <1>2, <1>3, Zenon
<1> QED BY <1>1, <1>4, Zenon DEF X

\* A list of children set twice.
LEMMA SetTwice == ASSUME NEW f, NEW x, NEW v, NEW y PROVE Set(Set(f, x, v), x, y) = Set(f, x, y)
<1> DEFINE g == Set(Set(f, x, v), x, y) h == Set(f, x, y)
<1>1. DOMAIN g = DOMAIN f \cup {x} /\ DOMAIN h = DOMAIN f \cup {x}
  BY DEF Set
<1>2. \A q \in DOMAIN f \cup {x} : g[q] = h[q]
  BY DEF Set
<1>3. g = [q \in DOMAIN g |-> g[q]] /\ h = [q \in DOMAIN h |-> h[q]]
  BY DEF Set
<1> HIDE DEF g, h
<1>4. g = h
  BY <1>1, <1>2, <1>3
<1> QED BY <1>4 DEF g, h

\* What is kept of a function that was changed at w.
LEMMA KeepOfSet ==
  ASSUME NEW f, NEW w, NEW v, NEW D, w \notin D
  PROVE  Keep(Set(f, w, v), D \cup {w}) = Set(Keep(f, D), w, v)
<1> DEFINE g == Keep(Set(f, w, v), D \cup {w}) h == Set(Keep(f, D), w, v)
<1>0. DOMAIN g = (DOMAIN f \cap D) \cup {w} /\ DOMAIN h = (DOMAIN f \cap D) \cup {w}
  BY DEF Set, Keep
<1>2. \A q \in (DOMAIN f \cap D) \cup {w} : g[q] = h[q]
  BY DEF Set, Keep
<1>3. g = [q \in DOMAIN g |-> g[q]] /\ h = [q \in DOMAIN h |-> h[q]]
  BY DEF Set, Keep
<1> HIDE DEF g, h
<1>4. g = h
  BY <1>0, <1>2, <1>3
<1> QED BY <1>4 DEF g, h

\* Another node takes the place of t in what is kept of the lists of children.
LEMMA KeepRenamed ==
  ASSUME NEW k, NEW u, NEW t, NEW w, NEW D, t \in D \cap DOMAIN u, u[t] # NoNode => u[t] \in D
  PROVE  Keep(Renamed(k, u, t, w), D) = Renamed(Keep(k, D), Keep(u, D), t, w)
<1>1. Keep(u, D)[t] = u[t]
  BY DEF Keep
<1>2. CASE u[t] = NoNode
  BY <1>1, <1>2 DEF Renamed
<1>3. CASE u[t] # NoNode
  <2> DEFINE p == u[t] g == Keep(Renamed(k, u, t, w), D) h == Renamed(Keep(k, D), Keep(u, D), t, w)
  <2>1. Renamed(k, u, t, w) = [k EXCEPT ![p] = WithNode(k[p], t, w)]
    BY <1>3 DEF Renamed
  <2>2. h = [Keep(k, D) EXCEPT ![p] = WithNode(Keep(k, D)[p], t, w)]
    BY <1>1, <1>3 DEF Renamed
  <2>3. DOMAIN g = DOMAIN k \cap D /\ DOMAIN h = DOMAIN k \cap D
    BY <2>1, <2>2 DEF Keep
  <2>4. ASSUME NEW q \in DOMAIN k \cap D PROVE g[q] = h[q]
    <3>1. g[q] = Renamed(k, u, t, w)[q]
      BY <2>1 DEF Keep
    <3>2. Keep(k, D)[q] = k[q] /\ q \in DOMAIN Keep(k, D)
      BY DEF Keep
    <3> HIDE DEF g, h, p
    <3>3. CASE q = p
      <4> DEFINE x == WithNode(k[p], t, w) 
      <4>0. WithNode(Keep(k, D)[p], t, w) = x
        BY <3>2, <3>3
      <4> HIDE DEF x
      <4>1. g[q] = x
        <5>1. Renamed(k, u, t, w) = [k EXCEPT ![p] = x]
          BY <2>1 DEF x
        <5> QED BY <3>1, <3>3, <5>1
      <4>2. h[q] = x
        <5>1. h = [Keep(k, D) EXCEPT ![p] = x]
          BY <2>2, <4>0
        <5> QED BY <3>2, <3>3, <5>1
      <4> QED BY <4>1, <4>2
    <3>4. CASE q # p
      <4> DEFINE x == WithNode(k[p], t, w) y == WithNode(Keep(k, D)[p], t, w)
      <4>1. Renamed(k, u, t, w) = [k EXCEPT ![p] = x] /\ h = [Keep(k, D) EXCEPT ![p] = y]
        BY <2>1, <2>2
      <4> HIDE DEF x, y
      <4> QED BY <3>1, <3>2, <3>4, <4>1
    <3> QED BY <3>3, <3>4
  <2>5. g = [q \in DOMAIN g |-> g[q]]
    BY DEF Keep
  <2>6. h = [q \in DOMAIN h |-> h[q]]
    <3> DEFINE y == WithNode(Keep(k, D)[p], t, w) k2 == Keep(k, D)
    <3>1. k2 = [q \in DOMAIN k2 |-> k2[q]]
      BY DEF Keep
    <3>2. h = [k2 EXCEPT ![p] = y]
      BY <2>2
    <3> HIDE DEF y, k2, h
    <3> QED BY <3>1, <3>2
  <2> HIDE DEF g, h
  <2>7. g = h
    BY <2>3, <2>4, <2>5, <2>6
  <2> QED BY <2>7 DEF g, h
<1> QED BY <1>2, <1>3

\* The parent links when the children of a tree that hung nowhere join those of a new split.
LEMMA LiftedOver ==
  ASSUME NEW u, NEW t \in DOMAIN u, NEW n \in DOMAIN u, u[t] # n, t # n, u[n] # n, NEW w,
         w \notin DOMAIN u,
         NEW D, D = DOMAIN u \ {n}
  PROVE  Lifted(Wrap(u, t, w), {n}, w) = Parented(Wrap(Keep(u, D), t, w), w, Children(u, n))
<1> DEFINE g == Lifted(Wrap(u, t, w), {n}, w)
           h == Parented(Wrap(Keep(u, D), t, w), w, Children(u, n))
           v == Keep(u, D)
<1>1. DOMAIN v = D /\ (\A q \in D : v[q] = u[q])
  BY DEF Keep
<1> HIDE DEF v
<1>2. DOMAIN Wrap(v, t, w) = D \cup {w} /\ \A q \in D \cup {w} : Wrap(v, t, w)[q]
      = (IF q = t THEN w ELSE IF q = w THEN u[t] ELSE u[q])
  BY <1>1 DEF Wrap
<1>3. DOMAIN Wrap(u, t, w) = DOMAIN u \cup {w} /\ \A q \in DOMAIN u \cup {w} : Wrap(u, t, w)[q]
      = (IF q = t THEN w ELSE IF q = w THEN u[t] ELSE u[q])
  BY DEF Wrap
<1> DEFINE wv == Wrap(v, t, w) wu == Wrap(u, t, w)
<1>4. Children(u, n) \subseteq D /\ w # n
  BY DEF Children
<1> HIDE DEF wv, wu
<1>5. g = Lifted(wu, {n}, w) /\ h = Parented(wv, w, Children(u, n))
  BY DEF wv, wu, v
<1> HIDE DEF g, h
<1>6. DOMAIN g = D \cup {w} /\ DOMAIN h = D \cup {w}
  <2>1. DOMAIN wu = DOMAIN u \cup {w} /\ DOMAIN wv = D \cup {w}
    BY <1>2, <1>3 DEF wu, wv
  <2> QED BY <1>4, <1>5, <2>1 DEF Lifted, Parented
<1>7. ASSUME NEW q \in D \cup {w} PROVE g[q] = h[q]
  <2>1. wu[q] = (IF q = t THEN w ELSE IF q = w THEN u[t] ELSE u[q]) /\ wv[q] = wu[q]
    BY <1>2, <1>3 DEF wu, wv
  <2>2. g[q] = IF wu[q] \in {n} THEN w ELSE wu[q]
    BY <1>3, <1>4, <1>5 DEF Lifted, wu
  <2>3. h[q] = IF q \in Children(u, n) THEN w ELSE wu[q]
    BY <1>2, <1>5, <2>1 DEF Parented, wv
  <2>4. q \in Children(u, n) => wu[q] = n
    BY <2>1 DEF Children
  <2>5. wu[q] = n => q \in Children(u, n)
    BY <1>4, <2>1 DEF Children
  <2> QED BY <2>2, <2>3, <2>4, <2>5
<1>8. g = [q \in DOMAIN g |-> g[q]] /\ h = [q \in DOMAIN h |-> h[q]]
  BY <1>5 DEF Lifted, Parented
<1>9. g = h
  BY <1>6, <1>7, <1>8
<1> QED BY <1>9 DEF g, h

\* wrap_target puts a new split around the source and the target.
LEMMA WrapTargetGrove ==
  ASSUME NEW l, NEW n, NEW t, NEW left, Movable(l, n, t, left), SplitsNeverRunOut,
         NEW axis \in Axis, NEW insertion
  PROVE  LET m == WrapTarget(l, n, t, axis, insertion) IN
         /\ Grove(m, {m.root}, {left}) /\ left \in DOMAIN m.kids
            /\ Nodes(m) \cap Pane = Nodes(l) \cap Pane
<1> DEFINE w == FreshSplit(l)
           half == Full \div 2
           K == IF insertion = "BEFORE" THEN SourceKids(l, n, axis, half) \o <<Kid(t, half)>>
                ELSE <<Kid(t, half)>> \o SourceKids(l, n, axis, half)
           m == WrapTarget(l, n, t, axis, insertion)
           W == SourceNodes(l, n, axis)
           L == Over(l, t, w, axis)
           r2 == IF l.root = t THEN w ELSE l.root
<1>1. /\ Grove(l, {l.root, n}, {left}) /\ n # l.root /\ n \in DOMAIN l.up /\ l.up[n] = NoNode
      /\ left \in DOMAIN l.kids /\ left # n /\ t \in DOMAIN l.up
  BY DEF Movable
<1>2. m = NewSplit(TakePlace(WithoutSource(l, n, axis), t, w), w, axis, K)
  BY Zenon DEF WrapTarget
<1>3. PICK A : Upward(l.up, A) /\ t \in A /\ n \notin A
  BY DEF Movable
<1>4. /\ l = Lay(l.root, l.axis, l.kids, l.up) /\ Nodes(l) = DOMAIN l.up
      /\ DOMAIN l.up \subseteq Pane \cup Split /\ DOMAIN l.kids = DOMAIN l.up \cap Split
      /\ {l.root, n} = {q \in DOMAIN l.up : l.up[q] = NoNode} /\ l.root \in DOMAIN l.up
      /\ NoNode \notin DOMAIN l.up
  BY <1>1, GroveParts
<1>5. w \in Split /\ w \notin DOMAIN l.up /\ w # n /\ w # t
  BY <1>1, <1>4, FreshSplitIsNew
<1>6. /\ t # n /\ l.up[t] # n /\ (l.up[t] = NoNode => l.root = t)
         /\ (l.root = t => l.up[t] = NoNode)
      /\ l.up[n] # n
  BY <1>1, <1>3, <1>4 DEF Upward
<1>7. half \in Nat /\ half + half = Full
  BY FullAssumption
<1> HIDE DEF w, half
<1>8. K \in Seq(KidRec) /\ Distinct(K) /\ NodesOf(K) = {t} \cup W /\ SumOf(K) = Full
  <2>1. K \in {Join(SourceKids(l, n, axis, half), <<Kid(t, half)>>),
        Join(<<Kid(t, half)>>, SourceKids(l, n, axis, half))}
    <3> DEFINE X == SourceKids(l, n, axis, half) Y == <<Kid(t, half)>>
    <3> HIDE DEF X, Y
    <3>1. K = IF insertion = "BEFORE" THEN X \o Y ELSE Y \o X
      BY Zenon DEF X, Y
    <3> HIDE DEF K
    <3>2. K \in {Join(X, Y), Join(Y, X)}
      BY <3>1, Zenon DEF Join
    <3> QED BY <3>2 DEF X, Y
  <2> HIDE DEF K, W
  <2>2. K \in Seq(KidRec) /\ Distinct(K) /\ NodesOf(K) = {t} \cup SourceNodes(l, n, axis)
        /\ SumOf(K) = half + half
    <3>1. half \in Nat
      BY <1>7
    <3> QED BY <2>1, <3>1, PlacedKids
  <2> QED BY <1>7, <2>2 DEF W
<1> HIDE DEF K, m
<1>9. W \subseteq DOMAIN l.up /\ t \notin W
  BY <1>1, <1>6 DEF SourceNodes, Children
<1>10. /\ Grove(L, TopsWith(l.up, {l.root, n}, t, w), {left} \cup {w})
       /\ L.root = r2 /\ L.axis = Set(l.axis, w, axis)
       /\ L.kids = Set(Renamed(l.kids, l.up, t, w), w, <<Kid(t, Full)>>)
          /\ L.up = Wrap(l.up, t, w)
       /\ DOMAIN L.up = DOMAIN l.up \cup {w} /\ DOMAIN L.kids = DOMAIN l.kids \cup {w}
       /\ Children(L.up, w) = {t}
  <2> HIDE DEF W, r2
  <2>1. Grove(l, {l.root, n}, {left}) /\ t \in DOMAIN l.up /\ w \in Split /\ w \notin DOMAIN l.up
    BY <1>1, <1>5
  <2>2. LET o == Over(l, t, w, axis) IN
         /\ Grove(o, TopsWith(l.up, {l.root, n}, t, w), {left} \cup {w})
         /\ o.root = (IF l.root = t THEN w ELSE l.root) /\ o.axis = Set(l.axis, w, axis)
         /\ o.kids = Set(Renamed(l.kids, l.up, t, w), w, <<Kid(t, Full)>>)
            /\ o.up = Wrap(l.up, t, w)
         /\ DOMAIN o.up = DOMAIN l.up \cup {w} /\ DOMAIN o.kids = DOMAIN l.kids \cup {w}
         /\ Children(o.up, w) = {t}
    BY <2>1, OverGrove
  <2> QED BY <2>2, Zenon DEF r2
<1> HIDE DEF L
<1>11. TopsWith(l.up, {l.root, n}, t, w) \ {n} = {r2}
  BY <1>1, <1>5, <1>6 DEF TopsWith
<1>12. Upward(L.up, A \cup {w}) /\ w \in A \cup {w} /\ n \notin A \cup {w}
  <2>0. L.up = Wrap(l.up, t, w)
    BY <1>10
  <2>1. \A q \in DOMAIN l.up : q # t => L.up[q] = l.up[q]
    BY <1>5, <2>0 DEF Wrap
  <2>2. L.up[t] = w /\ L.up[w] = l.up[t]
    BY <1>1, <1>5, <2>0 DEF Wrap
  <2> QED BY <1>3, <1>5, <1>10, <2>1, <2>2 DEF Upward
<1>13. ({left} \cup {w}) \ {w} \subseteq {left}
  OBVIOUS
<1>14. KidsFor(K, Children(L.up, w) \cup W)
  BY <1>8, <1>10 DEF KidsFor
<1>15. L.up[n] = NoNode /\ n \in DOMAIN L.up /\ n # L.root /\ w \in DOMAIN L.kids
       /\ left \in DOMAIN L.kids
  BY <1>1, <1>5, <1>6, <1>10 DEF Wrap
<1>16. CASE SourceDissolves(l, n, axis)
  <2> DEFINE D == DOMAIN l.up \ {n}
             D2 == DOMAIN L.up \ {n}
             E == Lay(L.root, Keep(L.axis, D2), Set(Keep(L.kids, D2), w, K), Lifted(L.up, {n}, w))
  <2>1. W = Children(l.up, n) /\ n \in DOMAIN l.kids
    BY <1>1, <1>7, <1>16, SourceKidsAre DEF SourceNodes
  <2>2. Children(L.up, n) = Children(l.up, n)
    BY <1>5, <1>6, <1>10 DEF Children, Wrap
  <2>3. Grove(E, TopsWith(l.up, {l.root, n}, t, w) \ {n}, ({left} \cup {w}) \ {w})
    <3>1. KidsFor(K, Children(L.up, w) \cup Children(L.up, n))
      BY <1>14, <2>1, <2>2
    <3>2. n \in DOMAIN L.kids
      BY <1>10, <2>1
    <3> QED BY <1>10, <1>12, <1>15, <3>1, <3>2, Passed
  <2>4. m = E
    <3> DEFINE a2 == Keep(l.axis, D) k2 == Keep(l.kids, D) u2 == Keep(l.up, D)
    <3>1. WithoutSource(l, n, axis) = Lay(l.root, a2, k2, u2)
      <4>1. WithoutSource(l, n, axis) = Erase(l, {n})
        BY <1>16 DEF WithoutSource
      <4> QED BY <1>4, <4>1, ErasedOne
    <3>2. t \in DOMAIN u2 /\ u2[t] = l.up[t] /\ w \notin DOMAIN u2 /\ DOMAIN u2 = D
      BY <1>1, <1>5, <1>6 DEF Keep
    <3> HIDE DEF a2, k2, u2
    <3>3. NewSplit(TakePlace(Lay(l.root, a2, k2, u2), t, w), w, axis, K)
            = Lay(IF l.root = t THEN w ELSE l.root, Set(a2, w, axis),
            Set(Renamed(k2, u2, t, w), w, K),
                  Parented(Wrap(u2, t, w), w, W))
      <4>1. K \in Seq(KidRec) /\ t \in NodesOf(K) /\ w \notin NodesOf(K)
        BY <1>5, <1>8, <1>9
      <4>2. (u2[t] = NoNode => l.root = t) /\ (l.root = t => u2[t] = NoNode)
        BY <1>6, <3>2
      <4>3. NodesOf(K) \ {t} = W
        BY <1>8, <1>9
      <4> HIDE DEF W
      <4>4. NewSplit(TakePlace(Lay(l.root, a2, k2, u2), t, w), w, axis, K)
            = Lay(IF l.root = t THEN w ELSE l.root, Set(a2, w, axis),
            Set(Renamed(k2, u2, t, w), w, K),
                  Parented(Wrap(u2, t, w), w, NodesOf(K) \ {t}))
        BY <3>2, <4>1, <4>2, NewSplitOver
      <4> QED BY <4>3, <4>4, Zenon
    <3>4. D2 = D \cup {w} /\ w \notin D
      BY <1>5, <1>10
    <3>5. Keep(L.axis, D2) = Set(a2, w, axis)
      BY <1>10, <3>4, KeepOfSet DEF a2
    <3>6. Set(Keep(L.kids, D2), w, K) = Set(Renamed(k2, u2, t, w), w, K)
      <4> DEFINE k1 == Renamed(l.kids, l.up, t, w)
      <4>1. Keep(L.kids, D2) = Set(Keep(k1, D), w, <<Kid(t, Full)>>)
        BY <1>10, <3>4, KeepOfSet
      <4>2. Keep(k1, D) = Renamed(k2, u2, t, w)
        <5>1. t \in D \cap DOMAIN l.up /\ (l.up[t] # NoNode => l.up[t] \in D)
          <6>1. l.up[t] # NoNode => l.up[t] \in DOMAIN l.up
            BY <1>3 DEF Upward
          <6> QED BY <1>1, <1>6, <6>1
        <5> HIDE DEF D
        <5> QED BY <5>1, KeepRenamed DEF k2, u2
      <4> QED BY <4>1, <4>2, SetTwice
    <3>7. Lifted(L.up, {n}, w) = Parented(Wrap(u2, t, w), w, W)
      BY <1>1, <1>5, <1>6, <1>10, <2>1, LiftedOver DEF u2
    <3> HIDE DEF D, D2, W
    <3> QED BY <1>2, <1>10, <3>1, <3>3, <3>5, <3>6, <3>7
  <2>5. m.root = r2 /\ left \in DOMAIN m.kids /\ Nodes(m) = (DOMAIN l.up \cup {w}) \ {n}
    <3>1. m.root = L.root /\ m.kids = Set(Keep(L.kids, D2), w, K)
          /\ Nodes(m) = DOMAIN Lifted(L.up, {n}, w)
      BY <2>4, LayParts
    <3>2. left \in DOMAIN Set(Keep(L.kids, D2), w, K)
      <4>1. left \in DOMAIN L.kids \cap D2
        BY <1>1, <1>4, <1>10
      <4> QED BY <4>1 DEF Set, Keep
    <3>3. DOMAIN Lifted(L.up, {n}, w) = (DOMAIN l.up \cup {w}) \ {n}
      BY <1>10 DEF Lifted
    <3> QED BY <1>10, <3>1, <3>2, <3>3
  <2>6. Grove(m, {m.root}, {left})
    <3>1. Grove(m, {r2}, ({left} \cup {w}) \ {w})
      BY <1>11, <2>3, <2>4, Zenon
    <3> QED BY <1>13, <2>5, <3>1, Thinner
  <2>7. Nodes(m) \cap Pane = Nodes(l) \cap Pane
    BY <1>4, <1>5, <2>1, <2>5, SplitAssumption
  <2> QED BY <2>5, <2>6, <2>7 DEF m
<1>17. CASE ~SourceDissolves(l, n, axis)
  <2>1. W = {n} /\ WithoutSource(l, n, axis) = l
    BY <1>17 DEF SourceNodes, WithoutSource
  <2>2. /\ Adopt(L, w, K) = Lay(L.root, L.axis, Set(L.kids, w, K), Parented(L.up, w, {n}))
        /\ Grove(Adopt(L, w, K), TopsWith(l.up, {l.root, n}, t, w) \ {n}, ({left} \cup {w}) \ {w})
    <3>1. KidsFor(K, Children(L.up, w) \cup {n}) /\ n \in Pane \cup Split
      BY <1>1, <1>4, <1>14, <2>1
    <3> QED BY <1>10, <1>12, <1>15, <3>1, Joined
  <2>3. m = Lay(L.root, L.axis, Set(L.kids, w, K), Parented(L.up, w, {n}))
    <3>1. m = NewSplit(TakePlace(Lay(l.root, l.axis, l.kids, l.up), t, w), w, axis, K)
      BY <1>2, <1>4, <2>1
    <3>2. NewSplit(TakePlace(Lay(l.root, l.axis, l.kids, l.up), t, w), w, axis, K)
            = Lay(IF l.root = t THEN w ELSE l.root, Set(l.axis, w, axis),
            Set(Renamed(l.kids, l.up, t, w), w, K),
                  Parented(Wrap(l.up, t, w), w, {n}))
      <4>1. K \in Seq(KidRec) /\ t \in NodesOf(K) /\ w \notin NodesOf(K)
        BY <1>5, <1>8, <1>9
      <4>2. NodesOf(K) \ {t} = {n}
        BY <1>6, <1>8, <2>1
      <4>3. NewSplit(TakePlace(Lay(l.root, l.axis, l.kids, l.up), t, w), w, axis, K)
            = Lay(IF l.root = t THEN w ELSE l.root, Set(l.axis, w, axis),
            Set(Renamed(l.kids, l.up, t, w), w, K),
                  Parented(Wrap(l.up, t, w), w, NodesOf(K) \ {t}))
        BY <1>1, <1>5, <1>6, <4>1, NewSplitOver
      <4> QED BY <4>2, <4>3, Zenon
    <3>3. Set(L.kids, w, K) = Set(Renamed(l.kids, l.up, t, w), w, K)
      BY <1>10, SetTwice
    <3> QED BY <1>10, <3>1, <3>2, <3>3
  <2>4. m.root = r2 /\ left \in DOMAIN m.kids /\ Nodes(m) = DOMAIN l.up \cup {w}
    <3>1. m.root = L.root /\ m.kids = Set(L.kids, w, K)
          /\ Nodes(m) = DOMAIN Parented(L.up, w, {n})
      BY <2>3, LayParts
    <3>2. left \in DOMAIN Set(L.kids, w, K) /\ DOMAIN Parented(L.up, w, {n}) = DOMAIN l.up
          \cup {w}
      BY <1>10, <1>15 DEF Set, Parented
    <3> QED BY <1>10, <3>1, <3>2
  <2>5. Grove(m, {m.root}, {left})
    <3>1. m = Adopt(L, w, K)
      BY <2>2, <2>3
    <3>2. Grove(m, {r2}, ({left} \cup {w}) \ {w})
      BY <1>11, <2>2, <3>1, Zenon
    <3> QED BY <1>13, <2>4, <3>2, Thinner
  <2>6. Nodes(m) \cap Pane = Nodes(l) \cap Pane
    BY <1>4, <1>5, <2>4, SplitAssumption
  <2> QED BY <2>4, <2>5, <2>6 DEF m
<1> QED BY <1>16, <1>17

\* Nodes that are apart stand on no common path to the root.
LEMMA ApartUp ==
  ASSUME NEW l, NEW tops, NEW thin, Grove(l, tops, thin), NEW m \in DOMAIN l.up,
         NEW n \in DOMAIN l.up, Apart(l, m, n)
  PROVE  m # n /\ m \notin Up(l.up, n) /\ n \notin Up(l.up, m)
<1>1. Links(l.up) /\ Nodes(l) = DOMAIN l.up
  BY GroveLinks, GroveParts
<1>2. m # n /\ m \notin Above(l, n) /\ n \notin Above(l, m)
  BY DEF Apart
<1>3. ASSUME NEW x \in DOMAIN l.up, NEW y \in DOMAIN l.up, x # y, x \notin Above(l, y)
      PROVE  x \notin Up(l.up, y)
  <2>1. Above(l, y) = IF l.up[y] = NoNode THEN {} ELSE Up(l.up, l.up[y])
    BY <1>1, AboveIs
  <2>2. /\ l.up[y] = NoNode => Up(l.up, y) = {y}
        /\ l.up[y] # NoNode => Up(l.up, y) = {y} \cup Up(l.up, l.up[y])
    BY <1>1, UpStep
  <2> QED BY <1>3, <2>1, <2>2
<1> QED BY <1>2, <1>3

\* A node none of whose children are above, or are, another node is not above it either.
LEMMA NotAboveChildren ==
  ASSUME NEW l, NEW tops, NEW thin, Grove(l, tops, thin), NEW p \in DOMAIN l.kids,
         NEW t \in DOMAIN l.up,
         \A c \in Children(l.up, p) : Apart(l, c, t)
  PROVE  p \notin Up(l.up, t)
<1>1. Links(l.up)
  BY GroveLinks
<1>2. ASSUME NEW c \in Children(l.up, p) PROVE c \in DOMAIN l.up /\ c \notin Up(l.up, t)
             /\ t \notin Up(l.up, c)
  BY ApartUp DEF Children
<1>3. CASE p = t
  <2>1. PICK c : c \in Children(l.up, p)
    BY GroveKids
  <2>2. c \in DOMAIN l.up /\ l.up[c] = p /\ p # NoNode
    BY <2>1, GroveParts DEF Children
  <2>3. Up(l.up, c) = {c} \cup Up(l.up, p)
    BY <1>1, <2>2, UpStep
  <2>4. p \in Up(l.up, p)
    BY <1>1, <1>3, UpIsUpward
  <2> QED BY <1>2, <1>3, <2>1, <2>3, <2>4
<1>4. CASE p # t
  <2> SUFFICES ASSUME p \in Up(l.up, t) PROVE FALSE
    OBVIOUS
  <2>1. PICK c \in Up(l.up, t) : l.up[c] = p
    BY <1>1, <1>4, UpChild
  <2>2. c \in DOMAIN l.up
    BY <1>1, UpIsUpward
  <2> QED BY <1>2, <2>1, <2>2 DEF Children
<1> QED BY <1>3, <1>4

\* InsertAtTarget puts the source beside the target, into its split or a new one.
LEMMA InsertAtTargetGrove ==
  ASSUME NEW l, NEW n, NEW t, NEW left, Movable(l, n, t, left), SplitsNeverRunOut,
         NEW axis \in Axis, NEW insertion
  PROVE  LET m == InsertAtTarget(l, n, t, axis, insertion) IN
         /\ Grove(m, {m.root}, {left}) /\ left \in DOMAIN m.kids
            /\ Nodes(m) \cap Pane = Nodes(l) \cap Pane
<1>1. CASE l.up[t] # NoNode /\ l.axis[l.up[t]] = axis
  <2>1. InsertAtTarget(l, n, t, axis, insertion) = InsertBeside(l, n, t, axis, insertion)
    BY <1>1, Zenon DEF InsertAtTarget
  <2>2. LET m == InsertBeside(l, n, t, axis, insertion) IN
         /\ Grove(m, {m.root}, {left}) /\ left \in DOMAIN m.kids
            /\ Nodes(m) \cap Pane = Nodes(l) \cap Pane
    <3>1. l.up[t] # NoNode
      BY <1>1
    <3> QED BY <3>1, InsertBesideGrove, ZenonT(60)
  <2> QED BY <2>1, <2>2, Zenon
<1>2. CASE ~(l.up[t] # NoNode /\ l.axis[l.up[t]] = axis)
  <2>1. InsertAtTarget(l, n, t, axis, insertion) = WrapTarget(l, n, t, axis, insertion)
    BY <1>2, Zenon DEF InsertAtTarget
  <2>2. LET m == WrapTarget(l, n, t, axis, insertion) IN
         /\ Grove(m, {m.root}, {left}) /\ left \in DOMAIN m.kids
            /\ Nodes(m) \cap Pane = Nodes(l) \cap Pane
    BY <1>2, WrapTargetGrove, ZenonT(60)
  <2> QED BY <2>1, <2>2, Zenon
<1> QED BY <1>1, <1>2

\* A layout with another list of children for q, from which n was taken.
LEMMA OrphanMovable ==
  ASSUME NEW l, Grove(l, {l.root}, {}), NEW q \in DOMAIN l.kids, NEW n \in Children(l.up, q),
         NEW K, KidsFor(K, Children(l.up, q) \ {n}), NEW t \in DOMAIN l.up, n \notin Up(l.up, t)
  PROVE  LET m == Orphan([l EXCEPT !.kids[q] = K], n) IN
         Movable(m, n, t, q) /\ Nodes(m) = Nodes(l)
<1> DEFINE r == l.root a == l.axis k == l.kids u == l.up
           m == Orphan([l EXCEPT !.kids[q] = K], n)
           k2 == [k EXCEPT ![q] = K]
           u2 == [u EXCEPT ![n] = NoNode]
<1>1. /\ Forest(r, a, k, u, {r}, {}) /\ l = Lay(r, a, k, u) /\ a \in [DOMAIN k -> Axis]
         /\ Links(u)
      /\ Nodes(l) = DOMAIN u /\ u \in [DOMAIN u -> DOMAIN k \cup {NoNode}]
         /\ NoNode \notin DOMAIN u
      /\ DOMAIN k \subseteq DOMAIN u /\ u[r] = NoNode
  <2>1. Links(u)
    BY GroveLinks
  <2>2. u[r] = NoNode
    BY GroveParts
  <2> QED BY <2>1, <2>2, GroveParts DEF Grove
<1>2. n \in DOMAIN u /\ u[n] = q /\ q # n /\ n # r /\ q \in DOMAIN u /\ q # NoNode
  <2>1. q \notin Children(u, q)
    BY GroveKids
  <2> QED BY <1>1, <2>1 DEF Children
<1>3. m = WithUp(WithKids(l, k2), [WithKids(l, k2).up EXCEPT ![n] = NoNode])
  BY Zenon DEF Orphan, WithUp, WithKids
<1>4. Several(Children(u, q))
  BY GroveKids
<1>5. Upward(u, Up(u, t)) /\ t \in Up(u, t) /\ n \notin Up(u, t)
  BY <1>1, UpIsUpward
<1>6. KidsFor(K, Children(u, q) \ {n}) /\ q \in DOMAIN k /\ t \in DOMAIN u /\ n \in Children(u, q)
  OBVIOUS
<1> HIDE DEF r, a, k, u, m
<1>7. DOMAIN k2 = DOMAIN k /\ k2[q] = K /\ \A s \in DOMAIN k : s # q => k2[s] = k[s]
  BY <1>6
<1>8. u2 = Loosened(u, {n}) /\ DOMAIN u2 = DOMAIN u /\ u2[n] = NoNode
      /\ \A x \in DOMAIN u : x # n => u2[x] = u[x]
  <2>1. DOMAIN Loosened(u, {n}) = DOMAIN u /\ \A x \in DOMAIN u : Loosened(u, {n})[x] = u2[x]
    BY <1>2 DEF Loosened
  <2>2. Loosened(u, {n}) = [x \in DOMAIN Loosened(u, {n}) |-> Loosened(u, {n})[x]]
    BY DEF Loosened
  <2> QED BY <1>1, <1>2, <2>1, <2>2
<1> HIDE DEF k2, u2
<1>9. m = Lay(r, a, k2, u2)
  <2>1. WithKids(Lay(r, a, k, u), k2) = Lay(r, a, k2, u)
    BY LayWithKids
  <2>2. Lay(r, a, k2, u).up = u
    BY LayParts
  <2>3. WithUp(Lay(r, a, k2, u), u2) = Lay(r, a, k2, u2)
    BY LayWithUp
  <2> QED BY <1>1, <1>3, <2>1, <2>2, <2>3, Zenon DEF u2
<1>10. Forest(r, a, k2, u2, {r} \cup {n}, {} \cup {q})
  <2>1. {n} \subseteq Children(u, q) /\ Children(u, q) \ {n} # {}
    BY <1>4, <1>6 DEF Several
  <2>2. KidsFor(k2[q], Children(u, q) \ {n})
    BY <1>6, <1>7
  <2> QED BY <1>1, <1>6, <1>7, <1>8, <2>1, <2>2, Detached
<1>11. {r} \cup {n} = {r, n} /\ {} \cup {q} = {q}
  OBVIOUS
<1>12. Grove(m, {r, n}, {q}) /\ m.root = r /\ m.kids = k2 /\ m.up = u2 /\ Nodes(m) = DOMAIN u2
  <2>1. Grove(Lay(r, a, k2, u2), {r} \cup {n}, {} \cup {q})
    BY <1>10, GroveOf
  <2>2. LET j == Lay(r, a, k2, u2)
        IN  j.root = r /\ j.axis = a /\ j.kids = k2 /\ j.up = u2 /\ Nodes(j) = DOMAIN u2
    BY LayParts
  <2> QED BY <1>9, <1>11, <2>1, <2>2
<1>13. Upward(m.up, Up(u, t)) /\ t \in Up(u, t) /\ n \notin Up(u, t)
  BY <1>5, <1>8, <1>12 DEF Upward
<1>14. Movable(m, n, t, q)
  <2>1. Grove(m, {m.root, n}, {q})
    BY <1>12
  <2> QED BY <1>2, <1>6, <1>7, <1>8, <1>12, <1>13, <2>1 DEF Movable
<1> QED BY <1>1, <1>8, <1>12, <1>14 DEF m

\* extract takes what is selected out of the tree: a split all of whose children are
\* selected, the selected node, or a new group of the selected nodes.
LEMMA ExtractMovable ==
  ASSUME NEW l, Grove(l, {l.root}, {}), SplitsNeverRunOut, NEW sel, SelOK(l, sel),
         NEW t \in DOMAIN l.up,
         \A s \in ToSet(sel.nodes) : Apart(l, s, t)
  PROVE  LET e == Extract(l, sel) IN
         Movable(e.layout, e.node, t, e.left) /\ Nodes(e.layout) \cap Pane = Nodes(l) \cap Pane
<1> DEFINE p == sel.parent u == l.up k == l.kids S == ToSet(sel.nodes)
           g == u[p]
           C == SelectedKids(l, sel)
           D == OtherKids(l, sel)
           rest == Normalized(D)
           e == Extract(l, sel)
           w == FreshSplit(l)
           Good(x) == Movable(x.layout, x.node, t, x.left)
           /\ Nodes(x.layout) \cap Pane = Nodes(l) \cap Pane
<1> SUFFICES Good(e)
  OBVIOUS
<1>1. /\ sel.nodes \in Seq(Pane \cup Split) /\ Len(sel.nodes) \in Nat \ {0}
         /\ S \subseteq DOMAIN u
      /\ sel.nodes[1] \in S /\ (\A n \in S : u[n] = p) /\ (p = NoNode => sel.nodes = <<l.root>>)
      /\ (Len(sel.nodes) = 1 => S = {sel.nodes[1]})
      /\ (p # NoNode => p \in DOMAIN k /\ \E i, j : Ranged(l, p, sel.nodes, i, j))
  BY SelParts
<1>2. /\ Links(u) /\ Nodes(l) = DOMAIN u /\ {l.root} = {n \in DOMAIN u : u[n] = NoNode}
         /\ DOMAIN k \subseteq DOMAIN u
      /\ NoNode \notin DOMAIN u /\ l = Lay(l.root, l.axis, k, u)
  <2>1. Links(u)
    BY GroveLinks
  <2> QED BY <2>1, GroveParts
<1>3. \A n \in S : n \notin Up(u, t) /\ n # t
  BY <1>1, ApartUp
<1>4. l.root \in Up(u, t)
  BY <1>2, UpToTheTop
<1>5. p # NoNode
  <2> SUFFICES ASSUME p = NoNode PROVE FALSE
    OBVIOUS
  <2>1. sel.nodes[1] = l.root
    BY <1>1
  <2> QED BY <1>1, <1>3, <1>4, <2>1
<1>6. p \in DOMAIN k
  BY <1>1, <1>5
<1>7. PICK i, j : Ranged(l, p, sel.nodes, i, j)
  BY <1>1, <1>5
<1>8. /\ C \in Seq(KidRec) /\ Distinct(C) /\ NodesOf(C) = S /\ Len(C) = Len(sel.nodes)
      /\ D \in Seq(KidRec) /\ Distinct(D) /\ NodesOf(D) = Children(u, p) \ S
      /\ (~WholeLevel(l, sel) => Len(D) # 0)
  BY <1>7, Partitioned
<1>9. /\ S \subseteq Children(u, p) /\ (Len(sel.nodes) # 1 => Several(S))
      /\ (Len(sel.nodes) = Len(k[p]) => S = Children(u, p))
      /\ (Len(sel.nodes) # Len(k[p]) => Children(u, p) \ S # {})
  BY <1>7, RangedParts
<1>10. ~WholeLevel(l, sel) => KidsFor(rest, Children(u, p) \ S) /\ Children(u, p) \ S # {}
  <2>1. SUFFICES ASSUME ~WholeLevel(l, sel) PROVE KidsFor(rest, Children(u, p) \ S)
                        /\ Children(u, p) \ S # {}
    OBVIOUS
  <2>2. Children(u, p) \ S # {}
    BY <1>9, <2>1 DEF WholeLevel
  <2>3. D \in Seq(KidRec) /\ Distinct(D) /\ NodesOf(D) = Children(u, p) \ S
    BY <1>8
  <2> HIDE DEF D
  <2>4. KidsFor(Normalized(D), NodesOf(D))
    BY <2>2, <2>3, NormalizedKids
  <2> QED BY <2>2, <2>3, <2>4
<1> HIDE DEF e
<1>11. CASE WholeLevel(l, sel)
  <2> DEFINE K == Normalized(RemoveAt(k[g], ChildIndex(l, g, p)))
             m == Orphan([l EXCEPT !.kids[g] = K], p)
  <2>1. e = [node |-> p, left |-> g, layout |-> m]
    BY <1>11, Zenon DEF e, Extract
  <2>2. S = Children(u, p)
    BY <1>9, <1>11 DEF WholeLevel
  <2>3. p \notin Up(u, t)
    <3>1. \A c \in Children(u, p) : Apart(l, c, t)
      BY <2>2
    <3> QED BY <1>6, <3>1, NotAboveChildren
  <2>4. p \in DOMAIN u /\ g # NoNode
    BY <1>2, <1>4, <1>6, <2>3
  <2>5. /\ g \in DOMAIN k /\ p \in Children(u, g) /\ ChildIndex(l, g, p) \in 1 .. Len(k[g])
        /\ k[g][ChildIndex(l, g, p)].node = p
    BY <2>4, GroveIndex
  <2>6. k[g] \in Seq(KidRec) /\ Distinct(k[g]) /\ NodesOf(k[g]) = Children(u, g)
        /\ Several(Children(u, g))
    BY <2>5, GroveKids
  <2> DEFINE y == ChildIndex(l, g, p) R == RemoveAt(k[g], y)
  <2> HIDE DEF y
  <2>7. R \in Seq(KidRec) /\ Distinct(R) /\ NodesOf(R) = Children(u, g) \ {p}
    <3>1. y \in 1 .. Len(k[g]) /\ k[g][y].node = p
      BY <2>5 DEF y
    <3> QED BY <2>6, <3>1, KidRemoved
  <2>8. NodesOf(R) # {}
    BY <2>5, <2>6, <2>7, SMTT(30) DEF Several
  <2> HIDE DEF R
  <2>9. KidsFor(Normalized(R), NodesOf(R))
    BY <2>7, <2>8, NormalizedKids
  <2>10. KidsFor(K, Children(u, g) \ {p})
    BY <2>7, <2>9 DEF R, y
  <2> HIDE DEF K
  <2>11. Movable(m, p, t, g) /\ Nodes(m) = Nodes(l)
    BY <2>3, <2>5, <2>10, OrphanMovable
  <2> HIDE DEF m
  <2>12. e.node = p /\ e.left = g /\ e.layout = m
    BY <2>1
  <2> QED BY <2>11, <2>12
<1>12. CASE ~WholeLevel(l, sel) /\ Len(C) = 1
  <2> DEFINE n == sel.nodes[1] m == Orphan([l EXCEPT !.kids[p] = rest], n)
  <2>1. e = [node |-> n, left |-> p, layout |-> m]
    BY <1>12, Zenon DEF e, Extract
  <2>2. S = {n} /\ n \notin Up(u, t) /\ n \in Children(u, p)
    BY <1>1, <1>3, <1>8, <1>9, <1>12
  <2>3. KidsFor(rest, Children(u, p) \ {n})
    BY <1>10, <1>12, <2>2
  <2> HIDE DEF n, rest
  <2>4. Movable(m, n, t, p) /\ Nodes(m) = Nodes(l)
    BY <1>6, <2>2, <2>3, OrphanMovable
  <2> HIDE DEF m
  <2>5. e.node = n /\ e.left = p /\ e.layout = m
    BY <2>1
  <2> QED BY <2>4, <2>5
<1>13. CASE ~WholeLevel(l, sel) /\ Len(C) # 1
  <2> DEFINE x == l.axis[p] N == Normalized(C)
             shrunk == [l EXCEPT !.kids[p] = rest]
             grouped == NewSplit(shrunk, w, x, N)
             m == [grouped EXCEPT !.up = Set(@, w, NoNode)]
  <2>1. e = [node |-> w, left |-> p, layout |-> m]
    BY <1>13, Zenon DEF e, Extract
  <2>2. w \in Split /\ w \notin DOMAIN u
    BY <1>2, FreshSplitIsNew
  <2>3. KidsFor(N, S) /\ N \in Seq(KidRec) /\ NodesOf(N) = S
    <3>1. C \in Seq(KidRec) /\ Distinct(C) /\ NodesOf(C) = S /\ S # {}
      BY <1>1, <1>8
    <3> HIDE DEF C
    <3>2. KidsFor(Normalized(C), NodesOf(C))
      BY <3>1, NormalizedKids
    <3> QED BY <3>1, <3>2 DEF KidsFor
  <2>4. KidsFor(rest, Children(u, p) \ S) /\ Children(u, p) \ S # {} /\ Several(S)
    BY <1>8, <1>9, <1>10, <1>13
  <2>5. /\ Forest(l.root, l.axis, k, u, {l.root}, {}) /\ l.axis \in [DOMAIN k -> Axis]
           /\ x \in Axis
        /\ DOMAIN u \subseteq Pane \cup Split
    <3>1. l.axis \in [DOMAIN k -> Axis]
      BY GroveParts
    <3> QED BY <1>6, <3>1, GroveParts DEF Grove
  <2> HIDE DEF w, x, N, rest, C
  <2> DEFINE k2 == [k EXCEPT ![p] = rest]
             a3 == Set(l.axis, w, x) k3 == Set(k2, w, N)
             u3 == Set(Parented(u, w, S), w, NoNode)
  <2>6. DOMAIN k2 = DOMAIN k /\ k2[p] = rest /\ \A s \in DOMAIN k : s # p => k2[s] = k[s]
    BY <1>6
  <2> HIDE DEF k2
  <2>7. m = Lay(l.root, a3, k3, u3)
    <3>1. shrunk = WithKids(l, k2)
      BY Zenon DEF WithKids, k2
    <3>2. WithKids(Lay(l.root, l.axis, k, u), k2) = Lay(l.root, l.axis, k2, u)
      BY LayWithKids
    <3>3. shrunk = Lay(l.root, l.axis, k2, u)
      BY <1>2, <3>1, <3>2
    <3> HIDE DEF shrunk
    <3>4. NewSplit(Lay(l.root, l.axis, k2, u), w, x, N)
          = Lay(l.root, a3, k3, Parented(u, w, NodesOf(N)))
      <4>1. N \in Seq(KidRec)
        BY <2>3
      <4> QED BY <4>1, NewSplitParts
    <3>5. grouped = Lay(l.root, a3, k3, Parented(u, w, S))
      BY <2>3, <3>3, <3>4
    <3> DEFINE v == Parented(u, w, S)
    <3> HIDE DEF grouped, a3, k3, v
    <3>6. m = WithUp(grouped, Set(grouped.up, w, NoNode))
      BY Zenon DEF WithUp
    <3>7. Lay(l.root, a3, k3, v).up = v
      BY LayParts
    <3>8. WithUp(Lay(l.root, a3, k3, v), Set(v, w, NoNode))
          = Lay(l.root, a3, k3, Set(v, w, NoNode))
      BY LayWithUp
    <3> HIDE DEF m
    <3> QED BY <3>5, <3>6, <3>7, <3>8, Zenon DEF v
  <2>8. u3 = Parented(Set(Loosened(u, S), w, NoNode), w, S)
    <3> DEFINE y == Parented(Set(Loosened(u, S), w, NoNode), w, S)
    <3>0. S \subseteq DOMAIN u /\ w \notin S
      BY <1>1, <2>2
    <3> HIDE DEF S
    <3>1. DOMAIN u3 = DOMAIN u \cup {w} /\ DOMAIN y = DOMAIN u \cup {w}
      BY <3>0 DEF Parented, Set, Loosened
    <3>2. \A q \in DOMAIN u \cup {w} : u3[q] = y[q]
      BY <2>2, <3>0 DEF Parented, Set, Loosened
    <3>3. u3 = [q \in DOMAIN u3 |-> u3[q]] /\ y = [q \in DOMAIN y |-> y[q]]
      BY DEF Parented, Set
    <3> HIDE DEF u3, y
    <3>4. u3 = y
      BY <3>1, <3>2, <3>3
    <3> QED BY <3>4 DEF y
  <2>9. DOMAIN k3 = DOMAIN k \cup {w} /\ k3[p] = rest /\ k3[w] = N /\ \A s \in DOMAIN k : s # p
        => k3[s] = k[s]
    <3>1. w \notin DOMAIN k
      BY <1>2, <2>2
    <3> QED BY <1>6, <2>6, <3>1 DEF Set
  <2>10. a3 \in [DOMAIN k \cup {w} -> Axis]
    BY <2>5 DEF Set
  <2>11. DOMAIN u3 = DOMAIN u \cup {w} /\ u3[w] = NoNode /\ \A q \in DOMAIN u : q \notin S
         => u3[q] = u[q]
    <3>1. S \subseteq DOMAIN u
      BY <1>1
    <3> HIDE DEF S
    <3> QED BY <2>2, <3>1 DEF Set, Parented
  <2> HIDE DEF a3, k3, u3
  <2>12. Forest(l.root, a3, k3, u3, {l.root} \cup {w}, {p})
    <3>1. KidsFor(k3[p], Children(u, p) \ S) /\ KidsFor(k3[w], S) /\ S \subseteq Children(u, p)
      BY <1>9, <2>3, <2>4, <2>9
    <3> HIDE DEF S
    <3> QED BY <1>6, <2>2, <2>4, <2>5, <2>8, <2>9, <2>10, <3>1, GroupedOut
  <2>13. {l.root} \cup {w} = {l.root, w}
    OBVIOUS
  <2>14. Grove(m, {l.root, w}, {p}) /\ m.root = l.root /\ m.kids = k3 /\ m.up = u3
         /\ Nodes(m) = DOMAIN u3
    <3>1. Forest(l.root, a3, k3, u3, {l.root, w}, {p})
      BY <2>12, <2>13, Zenon
    <3>2. Grove(Lay(l.root, a3, k3, u3), {l.root, w}, {p})
      BY <3>1, GroveOf
    <3> HIDE DEF m
    <3>3. m.root = l.root /\ m.kids = k3 /\ m.up = u3 /\ Nodes(m) = DOMAIN u3
      BY <2>7, LayParts
    <3> QED BY <2>7, <3>2, <3>3
  <2>15. Upward(u3, Up(u, t)) /\ t \in Up(u, t) /\ w \notin Up(u, t)
    <3>1. Upward(u, Up(u, t)) /\ t \in Up(u, t) /\ Up(u, t) \subseteq DOMAIN u
      BY <1>2, UpIsUpward
    <3>2. \A q \in Up(u, t) : u3[q] = u[q]
      BY <1>3, <2>11, <3>1
    <3> QED BY <2>2, <2>11, <3>1, <3>2 DEF Upward
  <2>16. Movable(m, w, t, p)
    <3>1. Grove(m, {m.root, w}, {p})
      BY <2>14
    <3>2. w # m.root /\ w \in DOMAIN m.up /\ m.up[w] = NoNode /\ p \in DOMAIN m.kids /\ p # w
          /\ t \in DOMAIN m.up
      BY <1>2, <1>6, <2>2, <2>9, <2>11, <2>14
    <3> QED BY <2>14, <2>15, <3>1, <3>2 DEF Movable
  <2>17. Nodes(m) \cap Pane = Nodes(l) \cap Pane
    BY <1>2, <2>2, <2>11, <2>14, SplitAssumption
  <2> HIDE DEF m
  <2>18. e.node = w /\ e.left = p /\ e.layout = m
    BY <2>1
  <2> QED BY <2>16, <2>17, <2>18
<1> QED BY <1>11, <1>12, <1>13

\* PaneLayoutMover::move keeps the tree and its panes.
THEOREM MoveGrove ==
  ASSUME NEW l, Grove(l, {l.root}, {}), SplitsNeverRunOut, NEW sel, SelOK(l, sel),
         NEW t \in DOMAIN l.up,
         \A s \in ToSet(sel.nodes) : Apart(l, s, t), NEW direction
  PROVE  LET m == Move(l, sel, t, direction) IN
         Grove(m, {m.root}, {}) /\ Nodes(m) \cap Pane = Nodes(l) \cap Pane
<1> DEFINE axis == AxisOf(direction) insertion == DropInsertion(direction) e == Extract(l, sel)
           m == Move(l, sel, t, direction)
<1>1. CASE StaysOnLevel(l, sel, t, direction)
  <2>1. m = Reorder(l, sel, t, insertion)
    BY <1>1, Zenon DEF Move
  <2>2. l.up[t] = sel.parent
    BY <1>1 DEF StaysOnLevel
  <2>3. sel.parent # NoNode
    <3> SUFFICES ASSUME sel.parent = NoNode PROVE FALSE
      OBVIOUS
    <3>1. sel.nodes = <<l.root>> /\ sel.nodes[1] \in ToSet(sel.nodes)
      BY SelParts
    <3>2. t = l.root
      BY <2>2, GroveParts
    <3>3. t \in ToSet(sel.nodes)
      BY <3>1, <3>2
    <3> QED BY <3>3 DEF Apart
  <2>4. PICK i, j : Ranged(l, sel.parent, sel.nodes, i, j)
    BY <2>3, SelParts
  <2>5. t \in Children(l.up, sel.parent) /\ t \notin ToSet(sel.nodes)
    BY <2>2 DEF Children, Apart
  <2> HIDE DEF insertion, m
  <2>6. Grove(m, {m.root}, {}) /\ m.up = l.up
    BY <2>1, <2>4, <2>5, ReorderGrove
  <2> QED BY <2>6 DEF m, Nodes
<1>2. CASE ~StaysOnLevel(l, sel, t, direction)
  <2> DEFINE o == InsertAtTarget(e.layout, e.node, t, axis, insertion)
  <2>1. m = DissolveIfUnary(o, e.left)
    BY <1>2, Zenon DEF Move
  <2>2. Movable(e.layout, e.node, t, e.left) /\ Nodes(e.layout) \cap Pane = Nodes(l) \cap Pane
    BY ExtractMovable
  <2>3. axis \in Axis
    BY DEF AxisOf, Axis
  <2> HIDE DEF axis, insertion, e, m
  <2>4. /\ Grove(o, {o.root}, {e.left}) /\ e.left \in DOMAIN o.kids
        /\ Nodes(o) \cap Pane = Nodes(e.layout) \cap Pane
    <3>1. Movable(e.layout, e.node, t, e.left)
      BY <2>2
    <3>2. LET x == InsertAtTarget(e.layout, e.node, t, axis, insertion)
          IN  /\ Grove(x, {x.root}, {e.left}) /\ e.left \in DOMAIN x.kids
              /\ Nodes(x) \cap Pane = Nodes(e.layout) \cap Pane
      BY <2>3, <3>1, InsertAtTargetGrove, ZenonT(60)
    <3> QED BY <3>2
  <2> HIDE DEF o
  <2>5. Grove(m, {m.root}, {}) /\ Nodes(m) \cap Pane = Nodes(o) \cap Pane
    BY <2>1, <2>4, DissolveIfUnaryGrove
  <2> QED BY <2>2, <2>4, <2>5 DEF m
<1> QED BY <1>1, <1>2

-----------------------------------------------------------------------------
(* Swapping *)

\* The lists of children when a child of p and one of q change places.
Crossed(k, p, i, b, q, j, a) ==
  LET k1 == [k EXCEPT ![p] = PutNode(k[p], i, b)]
  IN  [k1 EXCEPT ![q] = PutNode(k1[q], j, a)]

\* Two parts of a layout are changed one after the other.
LEMMA TwoChanges ==
  ASSUME NEW s, NEW q, NEW j, NEW a, NEW b, NEW p
  PROVE  [s EXCEPT !.kids[q][j].node = a, !.up[a] = q, !.up[b] = p]
           = [[[s EXCEPT !.kids[q][j].node = a] EXCEPT !.up[a] = q] EXCEPT !.up[b] = p]
OBVIOUS

\* What exchange_nodes does to the parts before it flattens.
LEMMA ExchangedParts ==
  ASSUME NEW l, l = Lay(l.root, l.axis, l.kids, l.up), NEW a, NEW b
  PROVE  LET p == l.up[a]
             q == l.up[b]
         IN  Exchanged(l, a, b)
               = Lay(l.root, l.axis,
                     Crossed(l.kids, p, ChildIndex(l, p, a), b, q, ChildIndex(l, q, b), a),
                     [[l.up EXCEPT ![a] = q] EXCEPT ![b] = p])
<1> DEFINE p == l.up[a]
           q == l.up[b]
           i == ChildIndex(l, p, a)
           j == ChildIndex(l, q, b)
           k1 == [l.kids EXCEPT ![p] = PutNode(l.kids[p], i, b)]
           k2 == [k1 EXCEPT ![q] = PutNode(k1[q], j, a)]
           u1 == [l.up EXCEPT ![a] = q]
           u2 == [u1 EXCEPT ![b] = p]
           slots == [l EXCEPT !.kids[p][i].node = b]
           both == [slots EXCEPT !.kids[q][j].node = a]
<1>1. Exchanged(l, a, b) = [slots EXCEPT !.kids[q][j].node = a, !.up[a] = q, !.up[b] = p]
  BY Zenon DEF Exchanged
<1>2. Crossed(l.kids, p, i, b, q, j, a) = k2
  BY Zenon DEF Crossed
<1>3. slots = WithKids(l, k1)
  BY DEF WithKids, PutNode
<1> HIDE DEF p, q, i, j, slots
<1>4. slots = Lay(l.root, l.axis, k1, l.up)
  <2>1. WithKids(Lay(l.root, l.axis, l.kids, l.up), k1) = Lay(l.root, l.axis, k1, l.up)
    <3> HIDE DEF k1
    <3> QED BY LayWithKids
  <2> HIDE DEF k1
  <2> QED BY <1>3, <2>1
<1>5. both = WithKids(slots, [slots.kids EXCEPT ![q] = PutNode(slots.kids[q], j, a)])
  BY DEF WithKids, PutNode
<1> HIDE DEF both, k1
<1>6. both = Lay(l.root, l.axis, k2, l.up)
  <2>1. slots.kids = k1
    BY <1>4, LayParts
  <2> DEFINE k3 == [k1 EXCEPT ![q] = PutNode(k1[q], j, a)]
  <2> HIDE DEF k3
  <2>2. WithKids(Lay(l.root, l.axis, k1, l.up), k3) = Lay(l.root, l.axis, k3, l.up)
    BY LayWithKids
  <2> QED BY <1>4, <1>5, <2>1, <2>2, Zenon DEF k3
<1> HIDE DEF k2
<1>7. Exchanged(l, a, b) = [[both EXCEPT !.up[a] = q] EXCEPT !.up[b] = p]
  BY <1>1, TwoChanges, Zenon DEF both
<1>8. [both EXCEPT !.up[a] = q] = Lay(l.root, l.axis, k2, u1)
  <2>1. both.up = l.up
    BY <1>6, LayParts
  <2>2. [both EXCEPT !.up[a] = q] = WithUp(both, [both.up EXCEPT ![a] = q])
    BY Zenon DEF WithUp
  <2>3. WithUp(Lay(l.root, l.axis, k2, l.up), u1) = Lay(l.root, l.axis, k2, u1)
    <3> HIDE DEF u1
    <3> QED BY LayWithUp
  <2> QED BY <1>6, <2>1, <2>2, <2>3, Zenon
<1> DEFINE one == Lay(l.root, l.axis, k2, u1)
<1>9. [one EXCEPT !.up[b] = p] = Lay(l.root, l.axis, k2, u2)
  <2>1. one.up = u1
    <3> HIDE DEF u1
    <3> QED BY LayParts
  <2>2. [one EXCEPT !.up[b] = p] = WithUp(one, [one.up EXCEPT ![b] = p])
    BY Zenon DEF WithUp
  <2>3. WithUp(one, u2) = Lay(l.root, l.axis, k2, u2)
    <3> HIDE DEF u1, u2
    <3> QED BY LayWithUp
  <2> HIDE DEF one
  <2> QED BY <2>1, <2>2, <2>3, Zenon
<1>10. Exchanged(l, a, b) = Lay(l.root, l.axis, k2, u2)
  BY <1>7, <1>8, <1>9, Zenon
<1> QED BY <1>2, <1>10, Zenon DEF p, q, i, j, u2

\* exchange_nodes keeps the tree as long as neither node contains the other.
LEMMA ExchangedGrove ==
  ASSUME NEW l, Grove(l, {l.root}, {}), NEW a \in DOMAIN l.up, NEW b \in DOMAIN l.up,
         Apart(l, a, b)
  PROVE  LET m == Exchanged(l, a, b) IN
         /\ Grove(m, {m.root}, {}) /\ m.root = l.root /\ m.axis = l.axis
            /\ DOMAIN m.kids = DOMAIN l.kids
         /\ m.up = Exchange(l.up, a, b) /\ l.up[a] \in DOMAIN l.kids /\ l.up[b] \in DOMAIN l.kids
         /\ a \notin Up(l.up, l.up[b]) /\ b \notin Up(l.up, l.up[a])
<1> DEFINE m == Exchanged(l, a, b) r == l.root x == l.axis k == l.kids u == l.up
           p == u[a] q == u[b]
           k2 == Crossed(k, p, IndexIn(k[p], a), b, q, IndexIn(k[q], b), a)
           u2 == [[u EXCEPT ![a] = q] EXCEPT ![b] = p]
<1>1. /\ Forest(r, x, k, u, {r}, {}) /\ l = Lay(r, x, k, u) /\ x \in [DOMAIN k -> Axis]
         /\ Links(u)
      /\ DOMAIN u \subseteq Pane \cup Split /\ NoNode \notin DOMAIN u
      /\ {r} = {n \in DOMAIN u : u[n] = NoNode}
  <2>1. Links(u)
    BY GroveLinks
  <2> QED BY <2>1, GroveParts DEF Grove
<1>2. a # b /\ a \notin Up(u, b) /\ b \notin Up(u, a)
  BY ApartUp
<1>3. p # NoNode /\ q # NoNode
  <2>1. r \in Up(u, a) /\ r \in Up(u, b)
    BY <1>1, UpToTheTop
  <2> QED BY <1>1, <1>2, <2>1
<1>4. p \in DOMAIN k /\ q \in DOMAIN k /\ a \in Children(u, p) /\ b \in Children(u, q)
  BY <1>3, GroveIndex
<1>5. /\ p \in DOMAIN u /\ q \in DOMAIN u /\ Up(u, a) = {a} \cup Up(u, p)
         /\ Up(u, b) = {b} \cup Up(u, q)
      /\ a \notin Up(u, p) /\ b \notin Up(u, q)
  BY <1>1, <1>3, UpStep, UpNotBack
<1>6. a \notin Up(u, q) /\ b \notin Up(u, p)
  BY <1>2, <1>5
<1>7. KidsFor(k[p], Children(u, p)) /\ KidsFor(k[q], Children(u, q))
  BY <1>4, GroveKids
<1>8. m = Lay(r, x, k2, u2)
  <2>1. ChildIndex(l, p, a) = IndexIn(k[p], a) /\ ChildIndex(l, q, b) = IndexIn(k[q], b)
    BY IndexInKids
  <2> HIDE DEF u2
  <2> QED BY <1>1, <2>1, ExchangedParts DEF u2
<1>9. u2 = Exchange(u, a, b)
  <2>1. DOMAIN u2 = DOMAIN u /\ DOMAIN Exchange(u, a, b) = DOMAIN u
    BY DEF Exchange
  <2>2. \A n \in DOMAIN u : u2[n] = Exchange(u, a, b)[n]
    BY <1>2 DEF Exchange
  <2>3. u2 = [n \in DOMAIN u2 |-> u2[n]] /\ Exchange(u, a, b)
        = [n \in DOMAIN Exchange(u, a, b) |-> Exchange(u, a, b)[n]]
    <3>1. u \in [DOMAIN u -> DOMAIN k \cup {NoNode}]
      BY GroveParts
    <3> HIDE DEF u, k
    <3> QED BY <3>1 DEF Exchange
  <2> HIDE DEF u2
  <2> QED BY <2>1, <2>2, <2>3
<1> SUFFICES Grove(m, {m.root}, {}) /\ m.root = r /\ m.axis = x /\ DOMAIN m.kids = DOMAIN k
    /\ m.up = Exchange(u, a, b)
  BY <1>4, <1>6
<1> HIDE DEF m, u2, r, x, k, u
<1> DEFINE i == IndexIn(k[p], a)
           j == IndexIn(k[q], b)
<1>10. CASE p # q
  <2>1. DOMAIN k2 = DOMAIN k /\ k2[p] = WithNode(k[p], a, b) /\ k2[q] = WithNode(k[q], b, a)
        /\ \A s \in DOMAIN k : s # p /\ s # q => k2[s] = k[s]
    <3> DEFINE y == PutNode(k[p], i, b) k1 == [k EXCEPT ![p] = y]
               z == PutNode(k1[q], j, a) k3 == [k1 EXCEPT ![q] = z]
    <3>1. k2 = k3
      BY Zenon DEF Crossed
    <3>2. y = WithNode(k[p], a, b)
      BY Zenon DEF WithNode
    <3> HIDE DEF y, i, j
    <3>3. DOMAIN k1 = DOMAIN k /\ k1[p] = y /\ k1[q] = k[q] /\ \A s \in DOMAIN k : s # p
          => k1[s] = k[s]
      BY <1>4, <1>10
    <3> HIDE DEF k1
    <3>4. z = WithNode(k[q], b, a)
      BY <3>3, Zenon DEF WithNode, j
    <3> HIDE DEF z
    <3>5. DOMAIN k3 = DOMAIN k /\ k3[p] = y /\ k3[q] = z /\ \A s \in DOMAIN k : s # p /\ s # q
          => k3[s] = k[s]
      BY <1>4, <1>10, <3>3
    <3> HIDE DEF k2, k3
    <3> QED BY <3>1, <3>2, <3>4, <3>5
  <2> HIDE DEF k2
  <2>2. KidsFor(k2[p], (Children(u, p) \ {a}) \cup {b})
        /\ KidsFor(k2[q], (Children(u, q) \ {b}) \cup {a})
    <3>1. b \notin Children(u, p) /\ a \notin Children(u, q) /\ a \in Pane \cup Split
          /\ b \in Pane \cup Split
      BY <1>1, <1>4, <1>10 DEF Children
    <3>2. KidsFor(WithNode(k[p], a, b), (Children(u, p) \ {a}) \cup {b})
      BY <1>4, <1>7, <3>1, KidWithOther
    <3>3. KidsFor(WithNode(k[q], b, a), (Children(u, q) \ {b}) \cup {a})
      BY <1>4, <1>7, <3>1, KidWithOther
    <3> QED BY <2>1, <3>2, <3>3
  <2>3. Upward(u, Up(u, p)) /\ p \in Up(u, p) /\ Upward(u, Up(u, q)) /\ q \in Up(u, q)
    BY <1>1, <1>5, UpIsUpward
  <2>4. a \in DOMAIN u /\ b \in DOMAIN u
    BY <1>4 DEF Children
  <2>5. Forest(r, x, k2, u2, {r}, {})
    <3>1. Forest(r, x, k, u, {r}, {})
      BY <1>1
    <3>2. u[a] \in DOMAIN k /\ u[b] \in DOMAIN k /\ u[a] # u[b]
      BY <1>4, <1>10
    <3>3. Upward(u, Up(u, p)) /\ u[a] \in Up(u, p) /\ a \notin Up(u, p) /\ b \notin Up(u, p)
      BY <1>5, <1>6, <2>3
    <3>4. Upward(u, Up(u, q)) /\ u[b] \in Up(u, q) /\ a \notin Up(u, q) /\ b \notin Up(u, q)
      BY <1>5, <1>6, <2>3
    <3>5. DOMAIN k2 = DOMAIN k /\ \A s \in DOMAIN k : s # u[a] /\ s # u[b] => k2[s] = k[s]
      BY <2>1
    <3>6. KidsFor(k2[u[a]], (Children(u, u[a]) \ {a}) \cup {b})
          /\ KidsFor(k2[u[b]], (Children(u, u[b]) \ {b}) \cup {a})
      BY <2>2
    <3> DEFINE A == Up(u, p) B == Up(u, q)
    <3> HIDE DEF A, B, p, q
    <3>7. Upward(u, A) /\ u[a] \in A /\ a \notin A /\ b \notin A /\ Upward(u, B) /\ u[b] \in B
          /\ a \notin B /\ b \notin B
      BY <3>3, <3>4 DEF A, B
    <3> HIDE DEF u2
    <3>8. Forest(r, x, k2, Exchange(u, a, b), {r}, {})
      BY <2>4, <3>1, <3>2, <3>5, <3>6, <3>7, Traded, SMTT(30)
    <3> QED BY <1>9, <3>8
  <2>6. Grove(m, {r}, {}) /\ m.root = r /\ m.axis = x /\ m.kids = k2 /\ m.up = u2
    BY <1>8, <2>5, GroveOf, LayParts
  <2> QED BY <1>9, <2>1, <2>6
<1>11. CASE p = q
  <2> DEFINE R == PutNode(PutNode(k[p], i, b), j, a)
  <2>1. DOMAIN k2 = DOMAIN k /\ k2[p] = R /\ \A s \in DOMAIN k : s # p => k2[s] = k[s]
    <3> DEFINE y == PutNode(k[p], i, b) k1 == [k EXCEPT ![p] = y]
               z == PutNode(k1[p], j, a) k3 == [k1 EXCEPT ![p] = z]
    <3>1. k2 = k3
      BY <1>11, Zenon DEF Crossed
    <3> HIDE DEF y, i, j
    <3>3. DOMAIN k1 = DOMAIN k /\ k1[p] = y /\ \A s \in DOMAIN k : s # p => k1[s] = k[s]
      BY <1>4
    <3> HIDE DEF k1
    <3>4. z = R
      BY <3>3, Zenon DEF y
    <3> HIDE DEF z, R
    <3>5. DOMAIN k3 = DOMAIN k /\ k3[p] = z /\ \A s \in DOMAIN k : s # p => k3[s] = k[s]
      BY <1>4, <3>3
    <3> HIDE DEF k2, k3
    <3> QED BY <3>1, <3>4, <3>5
  <2> HIDE DEF k2
  <2>2. k[p] \in Seq(KidRec) /\ Distinct(k[p]) /\ NodesOf(k[p]) = Children(u, p)
        /\ SumOf(k[p]) = Full
    BY <1>7 DEF KidsFor
  <2>3. i \in 1 .. Len(k[p]) /\ k[p][i].node = a /\ j \in 1 .. Len(k[p]) /\ k[p][j].node = b
    <3> DEFINE K == k[p]
    <3>1. K \in Seq(KidRec) /\ a \in NodesOf(K) /\ b \in NodesOf(K) /\ i = IndexIn(K, a)
          /\ j = IndexIn(K, b)
      BY <1>4, <1>11, <2>2
    <3> HIDE DEF K, i, j
    <3>2. ASSUME NEW n \in NodesOf(K) PROVE IndexIn(K, n) \in 1 .. Len(K)
                 /\ K[IndexIn(K, n)].node = n
      BY <3>1, KidIndex DEF IndexIn
    <3>3. i \in 1 .. Len(K) /\ K[i].node = a /\ j \in 1 .. Len(K) /\ K[j].node = b
      BY <3>1, <3>2
    <3> QED BY <3>3 DEF K
  <2> HIDE DEF i, j
  <2>4. KidsFor(R, Children(u, p))
    <3>1. i # j
      BY <1>2, <2>3
    <3>2. R = PutNode(PutNode(k[p], i, k[p][j].node), j, k[p][i].node)
      BY <2>3
    <3> HIDE DEF R
    <3>3. R \in Seq(KidRec) /\ Distinct(R) /\ SumOf(R) = SumOf(k[p]) /\ NodesOf(R) = NodesOf(k[p])
      <4>1. k[p] \in Seq(KidRec) /\ Distinct(k[p]) /\ i \in 1 .. Len(k[p]) /\ j \in 1 .. Len(k[p])
        BY <2>2, <2>3
      <4> QED BY <3>1, <3>2, <4>1, KidsSwapped
    <3> QED BY <2>2, <3>3 DEF KidsFor
  <2> HIDE DEF R
  <2>5. Exchange(u, a, b) = u
    <3>1. \A n \in DOMAIN u : Exchange(u, a, b)[n] = u[n]
      BY <1>11 DEF Exchange
    <3>2. DOMAIN Exchange(u, a, b) = DOMAIN u
      BY DEF Exchange
    <3>3. u = [n \in DOMAIN u |-> u[n]] /\ Exchange(u, a, b)
          = [n \in DOMAIN Exchange(u, a, b) |-> Exchange(u, a, b)[n]]
      <4>1. u \in [DOMAIN u -> DOMAIN k \cup {NoNode}]
        BY GroveParts DEF u, k
      <4> QED BY <4>1 DEF Exchange
    <3> QED BY <3>1, <3>2, <3>3
  <2>6. Forest(r, x, k2, u, {r}, {})
    <3>1. \A s \in DOMAIN k : KidsFor(k[s], Children(u, s))
      BY <1>1 DEF Forest
    <3>2. \A s \in DOMAIN k : KidsFor(k2[s], Children(u, s))
      BY <2>1, <2>4, <3>1
    <3> QED BY <1>1, <2>1, <3>2, Relisted
  <2>7. m = Lay(r, x, k2, u)
    BY <1>8, <1>9, <2>5
  <2>8. Grove(m, {r}, {}) /\ m.root = r /\ m.axis = x /\ m.kids = k2 /\ m.up = u
    BY <2>6, <2>7, GroveOf, LayParts
  <2> QED BY <2>1, <2>5, <2>8
<1> QED BY <1>10, <1>11

\* A swap that does not throw keeps the tree and its panes; one that does starts from a split
\* nested in one of its own axis.
THEOREM SwapGrove ==
  ASSUME NEW l, Grove(l, {l.root}, {}), NEW a \in DOMAIN l.up, NEW b \in DOMAIN l.up,
         Apart(l, a, b)
  PROVE  LET m == Swap(l, a, b) IN
         /\ ~SwapThrows(l, a, b) => Grove(m, {m.root}, {})
            /\ Nodes(m) \cap Pane = Nodes(l) \cap Pane
         /\ SwapThrows(l, a, b) => \E s, t \in DOMAIN l.axis : l.up[t] = s
            /\ l.axis[t] = l.axis[s]
<1> DEFINE e == Exchanged(l, a, b) p == l.up[a] q == l.up[b]
           once == Flatten(e, p)
           m == Swap(l, a, b)
           X == SameAxisKids(e, p)
<1>1. /\ Grove(e, {e.root}, {}) /\ e.root = l.root /\ e.axis = l.axis
         /\ DOMAIN e.kids = DOMAIN l.kids
      /\ e.up = Exchange(l.up, a, b) /\ p \in DOMAIN l.kids /\ q \in DOMAIN l.kids
      /\ a \notin Up(l.up, q) /\ b \notin Up(l.up, p)
  BY ExchangedGrove
<1>2. /\ Links(l.up) /\ DOMAIN l.axis = DOMAIN l.kids /\ DOMAIN l.kids = DOMAIN l.up \cap Split
  <2>1. Links(l.up)
    BY GroveLinks
  <2> QED BY <2>1, GroveParts
<1>3. /\ Grove(once, {e.root}, {}) /\ once.root = e.root /\ Nodes(once) = Nodes(e) \ X
      /\ X = {n \in Children(e.up, p) : n \in DOMAIN e.kids /\ e.axis[n] = e.axis[p]}
      /\ DOMAIN once.kids = DOMAIN e.kids \ X
  <2> HIDE DEF e
  <2>1. p \in DOMAIN e.kids
    BY <1>1
  <2> HIDE DEF p
  <2> QED BY <1>1, <2>1, FlattenGrove
<1>4. Nodes(e) = DOMAIN l.up
  <2>1. DOMAIN e.up = DOMAIN l.up
    BY <1>1 DEF Exchange
  <2> QED BY <2>1 DEF Nodes
<1>5. Nodes(once) \cap Pane = Nodes(l) \cap Pane /\ Grove(once, {once.root}, {})
  <2>1. X \cap Pane = {}
    BY <1>1, <1>2, <1>3, SplitAssumption
  <2> QED BY <1>3, <1>4, <2>1 DEF Nodes
<1>6. ASSUME ~SwapThrows(l, a, b)
      PROVE  Grove(m, {m.root}, {}) /\ Nodes(m) \cap Pane = Nodes(l) \cap Pane
  <2>1. CASE p = q
    <3>1. m = once
      BY <2>1, Zenon DEF Swap
    <3> QED BY <1>5, <3>1
  <2>2. CASE p # q
    <3> DEFINE Y == SameAxisKids(once, q)
    <3>1. m = Flatten(once, q)
      BY <2>2, Zenon DEF Swap
    <3>2. q \notin X
      BY <1>6, Zenon DEF SwapThrows
    <3> HIDE DEF once, m, X
    <3>3. q \in DOMAIN once.kids
      BY <1>1, <1>3, <3>2
    <3>4. /\ Grove(Flatten(once, q), {once.root}, {}) /\ Flatten(once, q).root = once.root
          /\ Nodes(Flatten(once, q)) = Nodes(once) \ Y
          /\ Y = {n \in Children(once.up, q) : n \in DOMAIN once.kids
             /\ once.axis[n] = once.axis[q]}
      <4> HIDE DEF q
      <4> QED BY <1>5, <3>3, FlattenGrove
    <3>5. Y \cap Pane = {}
      <4>1. Y \subseteq DOMAIN once.kids
        BY <3>4
      <4>2. DOMAIN once.kids \subseteq Split
        BY <1>1, <1>2, <1>3
      <4> QED BY <4>1, <4>2, SplitAssumption
    <3> QED BY <1>5, <3>1, <3>4, <3>5
  <2> QED BY <2>1, <2>2
<1>7. ASSUME SwapThrows(l, a, b)
      PROVE  \E s, t \in DOMAIN l.axis : l.up[t] = s /\ l.axis[t] = l.axis[s]
  <2>1. q \in X
    BY <1>7, Zenon DEF SwapThrows
  <2>2. e.up[q] = p /\ q \in DOMAIN l.kids /\ l.axis[q] = l.axis[p]
    BY <1>1, <1>3, <2>1 DEF Children
  <2>3. q # a /\ q # b
    <3>1. q \in Up(l.up, q) /\ q # NoNode /\ q \in DOMAIN l.up
      BY <1>1, <1>2, UpIsUpward DEF Links
    <3>2. b \notin Up(l.up, q)
      BY <1>2, <3>1, UpNotBack
    <3> QED BY <1>1, <3>1, <3>2
  <2>4. l.up[q] = p
    BY <1>1, <1>2, <2>2, <2>3 DEF Exchange
  <2> QED BY <1>1, <1>2, <2>2, <2>4
<1> QED BY <1>6, <1>7

-----------------------------------------------------------------------------
(* The leaves in their order *)

\* Of two nodes above another one stands above the other.
LEMMA UpChain ==
  ASSUME NEW u, Links(u), NEW x \in DOMAIN u, NEW c \in Up(u, x), NEW d \in Up(u, x)
  PROVE  c \in Up(u, d) \/ d \in Up(u, c)
<1> DEFINE B == {y \in Up(u, x) : y \in Up(u, c) \/ c \in Up(u, y)}
<1>1. Up(u, x) \subseteq DOMAIN u /\ x \in Up(u, x) /\ Upward(u, Up(u, x))
  BY UpIsUpward
<1>2. c \in DOMAIN u /\ c \in Up(u, c) /\ Upward(u, Up(u, c))
  BY <1>1, UpIsUpward
<1>3. ASSUME NEW y \in B PROVE u[y] \in B \cup {NoNode}
  <2> SUFFICES ASSUME u[y] # NoNode PROVE u[y] \in B
    OBVIOUS
  <2>1. y \in DOMAIN u /\ u[y] \in Up(u, x)
    BY <1>1 DEF Upward
  <2>2. Up(u, y) = {y} \cup Up(u, u[y])
    BY <2>1, UpStep
  <2>3. y \in Up(u, c) => u[y] \in Up(u, c)
    BY <1>2 DEF Upward
  <2> QED BY <1>2, <2>1, <2>2, <2>3
<1>4. B \subseteq DOMAIN u /\ x \in B
  BY <1>1
<1>5. Upward(u, B)
  BY <1>3, <1>4 DEF Upward
<1>6. d \in B
  BY <1>4, <1>5 DEF Up
<1> QED BY <1>6

\* Siblings are not above the same node.
LEMMA UpOneChild ==
  ASSUME NEW u, Links(u), NEW x \in DOMAIN u, NEW c \in Up(u, x), NEW d \in Up(u, x), u[c] = u[d],
         u[c] # NoNode
  PROVE  c = d
<1>1. c \in DOMAIN u /\ d \in DOMAIN u
  BY UpIsUpward
<1>2. Up(u, c) = {c} \cup Up(u, u[c]) /\ Up(u, d) = {d} \cup Up(u, u[d])
  BY <1>1, UpStep
<1>3. c \notin Up(u, u[c]) /\ d \notin Up(u, u[d])
  BY <1>1, UpNotBack
<1> QED BY <1>2, <1>3, UpChain

\* Among some nodes there is one with none of them below it.
LEMMA DeepNode ==
  ASSUME NEW u, Links(u), IsFiniteSet(DOMAIN u), NEW C, C \subseteq DOMAIN u, C # {}
  PROVE  \E m \in C : \A c \in C : u[c] # m
<1> DEFINE size(m) == Cardinality(Up(u, m)) whole == Cardinality(DOMAIN u)
           S == {whole - size(m) : m \in C}
<1>1. ASSUME NEW m \in DOMAIN u PROVE IsFiniteSet(Up(u, m)) /\ size(m) \in Nat /\ size(m) <= whole
  <2>1. Up(u, m) \subseteq DOMAIN u
    BY UpIsUpward
  <2>2. IsFiniteSet(Up(u, m)) /\ Cardinality(Up(u, m)) <= Cardinality(DOMAIN u)
    BY <2>1, FS_Subset
  <2> QED BY <2>2, FS_CardinalityType
<1>2. whole \in Nat
  BY FS_CardinalityType
<1>3. \A m \in DOMAIN u : size(m) \in Nat /\ whole - size(m) \in Nat
  <2> HIDE DEF size, whole
  <2> QED BY <1>1, <1>2
<1>4. \E s \in S : \A t \in S : s <= t
  <2>1. S \subseteq Nat /\ S # {}
    <3> HIDE DEF size, whole
    <3> QED BY <1>3
  <2> HIDE DEF S
  <2> QED BY <2>1, LeastElement
<1>5. PICK m \in C : \A n \in C : whole - size(m) <= whole - size(n)
  BY <1>4
<1>6. ASSUME NEW c \in C, u[c] = m PROVE FALSE
  <2>1. m # NoNode /\ c \in DOMAIN u /\ m \in DOMAIN u
    BY <1>6 DEF Links
  <2>2. Up(u, c) = {c} \cup Up(u, m) /\ c \notin Up(u, m)
    BY <1>6, <2>1, UpStep, UpNotBack
  <2>3. size(c) = size(m) + 1
    <3>1. IsFiniteSet(Up(u, m))
      BY <1>1, <2>1
    <3>2. Cardinality(Up(u, m) \cup {c}) = Cardinality(Up(u, m)) + 1
      BY <2>2, <3>1, FS_AddElement
    <3>3. Up(u, c) = Up(u, m) \cup {c}
      BY <2>2
    <3> QED BY <3>2, <3>3
  <2>4. size(c) \in Nat /\ size(m) \in Nat /\ whole - size(m) <= whole - size(c)
    BY <1>3, <1>5, <1>6, <2>1
  <2> HIDE DEF size, whole
  <2> QED BY <1>2, <2>3, <2>4
<1> QED BY <1>6

\* The equation that the lists of leaves solve, for some of the nodes.
LeafStep(l, g, m) ==
  IF IsLeaf(l, m) THEN <<m>> ELSE FlattenSeq([i \in DOMAIN l.kids[m] |-> g[l.kids[m][i].node]])
Lists(l, g, D) == g = [m \in D |-> LeafStep(l, g, m)]

\* The list of a node depends on the lists of its children alone.
LEMMA LeafStepLocal ==
  ASSUME NEW l, NEW tops, NEW thin, Grove(l, tops, thin), NEW g, NEW h, NEW m \in DOMAIN l.up,
         \A c \in Children(l.up, m) : g[c] = h[c]
  PROVE  LeafStep(l, g, m) = LeafStep(l, h, m)
<1>1. CASE m \in DOMAIN l.kids
  <2>1. l.kids[m] \in Seq(KidRec) /\ NodesOf(l.kids[m]) = Children(l.up, m)
    BY <1>1, GroveKids
  <2>2. \A i \in DOMAIN l.kids[m] : l.kids[m][i].node \in Children(l.up, m)
    BY <2>1, KidsAt
  <2>3. [i \in DOMAIN l.kids[m] |-> g[l.kids[m][i].node]]
        = [i \in DOMAIN l.kids[m] |-> h[l.kids[m][i].node]]
    BY <2>2
  <2> QED BY <2>3, Zenon DEF LeafStep
<1>2. CASE m \notin DOMAIN l.kids
  BY <1>2, GroveParts DEF LeafStep
<1> QED BY <1>1, <1>2

\* What holds of no nodes and, whenever it holds of some nodes with all that is below them,
\* of these and one more whose children are among them, holds of all nodes.
LEMMA BottomUp ==
  ASSUME NEW u, Links(u), IsFiniteSet(DOMAIN u), NEW G, {} \in G,
         \A D \in SUBSET DOMAIN u : \A m \in DOMAIN u \ D :
           D \in G /\ Children(u, m) \subseteq D /\ (\A n \in D : Children(u, n) \subseteq D)
             => D \cup {m} \in G
  PROVE  DOMAIN u \in G
<1> DEFINE V == DOMAIN u
           Closed(D) == D \subseteq V /\ \A n \in D : Children(u, n) \subseteq D
           H == {D \in SUBSET V : D \in G /\ Closed(D)}
           S == {Cardinality(V) - Cardinality(D) : D \in H}
<1>1. \A D \in SUBSET V : IsFiniteSet(D) /\ Cardinality(D) \in Nat /\ Cardinality(V) \in Nat
      /\ Cardinality(D) <= Cardinality(V)
  BY FS_Subset, FS_CardinalityType
<1>2. {} \in H
  OBVIOUS
<1>3. PICK D \in H : \A E \in H : Cardinality(V) - Cardinality(D) <= Cardinality(V) - Cardinality(E)
  <2>1. S \subseteq Nat /\ S # {}
    <3>1. H \subseteq SUBSET V
      OBVIOUS
    <3> HIDE DEF H
    <3> QED BY <1>1, <1>2, <3>1
  <2>2. \E s \in S : \A t \in S : s <= t
    <3> HIDE DEF S
    <3> QED BY <2>1, LeastElement
  <2> HIDE DEF H
  <2> QED BY <2>2
<1>4. D \subseteq V /\ D \in G /\ Closed(D)
  OBVIOUS
<1>5. ASSUME D # V PROVE FALSE
  <2>1. PICK m \in V \ D : \A c \in V \ D : u[c] # m
    <3> DEFINE C == V \ D
    <3>1. C \subseteq DOMAIN u /\ C # {}
      BY <1>4, <1>5
    <3> HIDE DEF C
    <3>2. \E m \in C : \A c \in C : u[c] # m
      BY <3>1, DeepNode
    <3> QED BY <3>2 DEF C
  <2> DEFINE E == D \cup {m}
  <2>2. Children(u, m) \subseteq D
    BY <2>1 DEF Children
  <2>3. E \in G
    BY <1>4, <2>1, <2>2
  <2>4. E \in H
    BY <1>4, <2>1, <2>2, <2>3
  <2>5. Cardinality(E) = Cardinality(D) + 1
    BY <1>1, <1>4, <2>1, FS_AddElement
  <2>6. /\ Cardinality(D) \in Nat /\ Cardinality(E) \in Nat /\ Cardinality(V) \in Nat
        /\ Cardinality(V) - Cardinality(D) <= Cardinality(V) - Cardinality(E)
    <3>1. E \in SUBSET V
      BY <1>4, <2>1
    <3> HIDE DEF H, E
    <3> QED BY <1>1, <1>3, <1>4, <2>4, <3>1
  <2> HIDE DEF E
  <2> QED BY <2>5, <2>6
<1> QED BY <1>4, <1>5

\* Such lists exist for all nodes.
LEMMA ListsExist ==
  ASSUME NEW l, NEW tops, NEW thin, Grove(l, tops, thin)
  PROVE  \E g : Lists(l, g, DOMAIN l.up)
<1> DEFINE u == l.up V == DOMAIN u
           G == {D \in SUBSET V : \E g : Lists(l, g, D)}
<1>1. Links(u) /\ IsFiniteSet(V)
  <2>1. Links(u)
    BY GroveLinks
  <2> QED BY <2>1, GroveParts
<1>2. {} \in G
  <2> DEFINE g == [m \in {} |-> <<>>]
  <2>1. g = [m \in {} |-> LeafStep(l, g, m)]
    OBVIOUS
  <2> QED BY <2>1 DEF Lists
<1>3. ASSUME NEW D \in SUBSET V, NEW m \in V \ D, D \in G, Children(u, m) \subseteq D,
             \A n \in D : Children(u, n) \subseteq D
      PROVE  D \cup {m} \in G
  <2>1. PICK g : Lists(l, g, D)
    BY <1>3
  <2> DEFINE E == D \cup {m}
             h == [n \in E |-> IF n = m THEN LeafStep(l, g, m) ELSE g[n]]
  <2>2. \A n \in D : h[n] = g[n]
    BY <1>3
  <2>3. ASSUME NEW n \in E PROVE LeafStep(l, h, n) = LeafStep(l, g, n)
    <3>1. \A c \in Children(u, n) : h[c] = g[c]
      <4> HIDE DEF h
      <4> QED BY <1>3, <2>2
    <3>2. n \in DOMAIN l.up
      BY <1>3
    <3> HIDE DEF h
    <3> QED BY <3>1, <3>2, LeafStepLocal
  <2>4. Lists(l, h, E)
    <3>1. ASSUME NEW n \in E PROVE h[n] = LeafStep(l, h, n)
      <4>1. n \in D => g[n] = LeafStep(l, g, n)
        BY <2>1 DEF Lists
      <4>2. h[n] = IF n = m THEN LeafStep(l, g, m) ELSE g[n]
        OBVIOUS
      <4> HIDE DEF h
      <4> QED BY <2>3, <4>1, <4>2
    <3>2. h = [n \in E |-> h[n]]
      OBVIOUS
    <3> HIDE DEF h, E
    <3>3. h = [n \in E |-> LeafStep(l, h, n)]
      BY <3>1, <3>2
    <3> QED BY <3>3 DEF Lists
  <2>5. E \in SUBSET V
    BY <1>3
  <2> HIDE DEF E, h
  <2> QED BY <2>4, <2>5 DEF E
<1> HIDE DEF G, u
<1>4. V \in G
  BY <1>1, <1>2, <1>3, BottomUp
<1> QED BY <1>4 DEF G, u

\* The panes at or below a node.
PanesBelow(l, n) == {x \in DOMAIN l.up \cap Pane : n \in Up(l.up, x)}
\* A list of these panes, each of them once.
LeafList(l, n, s) ==
  LET id == [x \in DOMAIN l.up |-> x]
  IN  s \in Seq(DOMAIN l.up) /\ OneToOne(id, s) /\ Image(id, s) = PanesBelow(l, n)

\* What is below a leaf, and below a split.
LEMMA PanesBelowAre ==
  ASSUME NEW l, NEW tops, NEW thin, Grove(l, tops, thin), NEW n \in DOMAIN l.up
  PROVE  /\ n \notin DOMAIN l.kids => PanesBelow(l, n) = {n}
         /\ n \in DOMAIN l.kids => PanesBelow(l, n)
            = UNION {PanesBelow(l, c) : c \in Children(l.up, n)}
         /\ \A c, d \in Children(l.up, n) : c # d => PanesBelow(l, c) \cap PanesBelow(l, d) = {}
<1> DEFINE u == l.up
<1>1. /\ Links(u) /\ DOMAIN u \subseteq Pane \cup Split /\ DOMAIN l.kids = DOMAIN u \cap Split
      /\ u \in [DOMAIN u -> DOMAIN l.kids \cup {NoNode}] /\ NoNode \notin DOMAIN u
  <2>1. Links(u)
    BY GroveLinks
  <2> QED BY <2>1, GroveParts
<1> HIDE DEF u
<1>2. \A x \in DOMAIN u : x \in Up(u, x) /\ Up(u, x) \subseteq DOMAIN u /\ Upward(u, Up(u, x))
  BY <1>1, UpIsUpward
<1>3. ASSUME n \notin DOMAIN l.kids PROVE PanesBelow(l, n) = {n}
  <2>1. n \in DOMAIN u \cap Pane
    BY <1>1, <1>3 DEF u
  <2>2. ASSUME NEW x \in DOMAIN u, n \in Up(u, x), x # n PROVE FALSE
    <3>1. PICK c \in Up(u, x) : u[c] = n
      BY <1>1, <2>2, UpChild
    <3>2. c \in DOMAIN u
      BY <1>2
    <3> QED BY <1>1, <1>3, <2>1, <3>1, <3>2
  <2> QED BY <1>2, <2>1, <2>2 DEF PanesBelow, u
<1>4. ASSUME n \in DOMAIN l.kids PROVE PanesBelow(l, n)
             = UNION {PanesBelow(l, c) : c \in Children(l.up, n)}
  <2>1. ASSUME NEW x \in PanesBelow(l, n)
               PROVE \E c \in Children(l.up, n) : x \in PanesBelow(l, c)
    <3>1. x \in DOMAIN u /\ x \in Pane /\ n \in Up(u, x)
      BY DEF PanesBelow, u
    <3>2. n # x
      BY <1>1, <1>4, <3>1, SplitAssumption
    <3>3. PICK c \in Up(u, x) : u[c] = n
      BY <1>1, <3>1, <3>2, UpChild
    <3>4. c \in DOMAIN u
      BY <1>2, <3>1
    <3>5. c \in Children(l.up, n) /\ x \in PanesBelow(l, c)
      BY <3>1, <3>3, <3>4 DEF Children, PanesBelow, u
    <3> QED BY <3>5
  <2>2. ASSUME NEW c \in Children(l.up, n), NEW x \in PanesBelow(l, c)
               PROVE x \in PanesBelow(l, n)
    <3>1. x \in DOMAIN u /\ x \in Pane /\ c \in Up(u, x) /\ u[c] = n
      BY DEF PanesBelow, u, Children
    <3>2. n \in Up(u, x)
      BY <1>1, <1>2, <3>1 DEF Upward, u
    <3> QED BY <3>1, <3>2 DEF PanesBelow, u
  <2> QED BY <2>1, <2>2
<1>5. ASSUME NEW c \in Children(l.up, n), NEW d \in Children(l.up, n),
             NEW x \in PanesBelow(l, c) \cap PanesBelow(l, d)
      PROVE  c = d
  <2>1. x \in DOMAIN u /\ c \in Up(u, x) /\ d \in Up(u, x) /\ u[c] = u[d] /\ u[c] # NoNode
    BY <1>1 DEF PanesBelow, u, Children
  <2> QED BY <1>1, <2>1, UpOneChild
<1> QED BY <1>3, <1>4, <1>5

\* A list of one element.
LEMMA OneListed == ASSUME NEW S, NEW x \in S PROVE <<x>> \in Seq(S) /\ Len(<<x>>) = 1
    /\ <<x>>[1] = x
  OBVIOUS

\* Every solution of the equation lists the panes below each node, each of them once.
LEMMA ListsAre ==
  ASSUME NEW l, NEW tops, NEW thin, Grove(l, tops, thin), NEW f, Lists(l, f, DOMAIN l.up),
         NEW n \in DOMAIN l.up
  PROVE  LeafList(l, n, f[n])
<1> DEFINE u == l.up V == DOMAIN u id == [x \in V |-> x]
           C == {m \in V : ~LeafList(l, m, f[m])}
<1>1. Links(u) /\ IsFiniteSet(V) /\ \A m : IsLeaf(l, m) => m \notin DOMAIN l.kids
  <2>1. Links(u)
    BY GroveLinks
  <2> QED BY <2>1, GroveParts
<1>2. \A m \in V : f[m] = LeafStep(l, f, m)
  BY DEF Lists
<1> SUFFICES ASSUME C # {} PROVE FALSE
  BY DEF C
<1>3. PICK m \in C : \A c \in C : u[c] # m
  <2>1. C \subseteq DOMAIN u
    OBVIOUS
  <2> HIDE DEF C, u
  <2> QED BY <1>1, <2>1, DeepNode
<1>4. \A c \in Children(u, m) : LeafList(l, c, f[c])
  BY <1>3 DEF Children
<1>5. m \in V /\ ~LeafList(l, m, f[m])
  OBVIOUS
<1> HIDE DEF C
<1>6. CASE m \notin DOMAIN l.kids
  <2>1. f[m] = <<m>>
    <3>1. IsLeaf(l, m)
      BY <1>6, GroveParts
    <3> QED BY <1>2, <1>5, <3>1 DEF LeafStep
  <2>2. PanesBelow(l, m) = {m}
    BY <1>5, <1>6, PanesBelowAre
  <2>3. <<m>> \in Seq(V) /\ OneToOne(id, <<m>>) /\ Image(id, <<m>>) = {m}
    <3>1. <<m>> \in Seq(V) /\ Len(<<m>>) = 1 /\ <<m>>[1] = m
      <4>1. m \in V
        BY <1>5
      <4> HIDE DEF V, id
      <4> QED BY <4>1, OneListed
    <3>a. id[m] = m
      BY <1>5
    <3> HIDE DEF id
    <3>2. OneToOne(id, <<m>>)
      BY <3>1 DEF OneToOne
    <3>3. Image(id, <<m>>) = {m}
      BY <3>1, <3>a DEF Image
    <3> QED BY <3>1, <3>2, <3>3
  <2> QED BY <1>5, <2>1, <2>2, <2>3 DEF LeafList
<1>7. CASE m \in DOMAIN l.kids
  <2> DEFINE K == l.kids[m] ss == [i \in DOMAIN K |-> f[K[i].node]]
  <2>1. f[m] = FlattenSeq(ss)
    <3>1. ~IsLeaf(l, m)
      BY <1>1, <1>7
    <3>2. f[m] = LeafStep(l, f, m)
      BY <1>2, <1>5
    <3> QED BY <3>1, <3>2, Zenon DEF LeafStep
  <2>2. K \in Seq(KidRec) /\ Distinct(K) /\ NodesOf(K) = Children(u, m)
    BY <1>7, GroveKids
  <2> HIDE DEF K
  <2>3. /\ Len(K) \in Nat /\ DOMAIN K = 1 .. Len(K)
           /\ \A i \in 1 .. Len(K) : K[i].node \in Children(u, m)
        /\ \A i, j \in 1 .. Len(K) : i # j => K[i].node # K[j].node
    <3>1. Len(K) \in Nat /\ DOMAIN K = 1 .. Len(K)
          /\ \A i \in 1 .. Len(K) : K[i].node \in NodesOf(K)
      BY <2>2, KidsAt
    <3> QED BY <2>2, <3>1 DEF Distinct
  <2>4. \A i \in 1 .. Len(K) : /\ ss[i] \in Seq(V) /\ OneToOne(id, ss[i])
                               /\ Image(id, ss[i]) = PanesBelow(l, K[i].node)
    BY <1>4, <2>3 DEF LeafList
  <2>5. ss \in Seq(Seq(V)) /\ Len(ss) = Len(K)
    <3>1. ss \in [1 .. Len(K) -> Seq(V)]
      BY <2>3, <2>4
    <3> HIDE DEF ss
    <3> QED BY <2>3, <3>1, ListOf
  <2> HIDE DEF ss, id
  <2>6. \A i, j \in 1 .. Len(K) : i # j => Image(id, ss[i]) \cap Image(id, ss[j]) = {}
    <3>1. \A c, d \in Children(l.up, m) : c # d => PanesBelow(l, c) \cap PanesBelow(l, d) = {}
      BY <1>5, PanesBelowAre
    <3> QED BY <2>3, <2>4, <3>1
  <2>7. /\ FlattenSeq(ss) \in Seq(V) /\ OneToOne(id, FlattenSeq(ss))
        /\ Image(id, FlattenSeq(ss)) = UNION {Image(id, ss[i]) : i \in 1 .. Len(ss)}
    <3>1. /\ \A i \in 1 .. Len(ss) : OneToOne(id, ss[i])
          /\ \A i, j \in 1 .. Len(ss) : i # j => Image(id, ss[i]) \cap Image(id, ss[j]) = {}
      BY <2>4, <2>5, <2>6
    <3> HIDE DEF V
    <3> QED BY <2>5, <3>1, Flattened
  <2>8. UNION {Image(id, ss[i]) : i \in 1 .. Len(ss)} = PanesBelow(l, m)
    <3>1. PanesBelow(l, m) = UNION {PanesBelow(l, c) : c \in Children(u, m)}
      BY <1>5, <1>7, PanesBelowAre
    <3>2. \A c \in Children(u, m) : \E i \in 1 .. Len(K) : K[i].node = c
      BY <2>2 DEF NodesOf
    <3>3. ASSUME NEW x \in UNION {Image(id, ss[i]) : i \in 1 .. Len(ss)}
                 PROVE x \in PanesBelow(l, m)
      BY <2>3, <2>4, <2>5, <3>1
    <3>4. ASSUME NEW x \in PanesBelow(l, m)
                 PROVE x \in UNION {Image(id, ss[i]) : i \in 1 .. Len(ss)}
      <4>1. PICK c \in Children(u, m) : x \in PanesBelow(l, c)
        BY <3>1
      <4>2. PICK i \in 1 .. Len(K) : K[i].node = c
        BY <3>2
      <4>3. x \in Image(id, ss[i])
        BY <2>4, <4>1, <4>2
      <4> QED BY <2>5, <4>3
    <3> QED BY <3>3, <3>4
  <2> QED BY <1>5, <2>1, <2>7, <2>8 DEF LeafList, id
<1> QED BY <1>6, <1>7

\* The leaves of a layout are its panes, each of them once.
THEOREM LeavesAre ==
  ASSUME NEW l, NEW thin, Grove(l, {l.root}, thin)
  PROVE  /\ Leaves(l) \in Seq(Pane) /\ ToSet(Leaves(l)) = Nodes(l) \cap Pane
         /\ Len(Leaves(l)) = Cardinality(Nodes(l) \cap Pane) /\ Len(Leaves(l)) \in Nat
         /\ IsFiniteSet(Nodes(l) \cap Pane)
         /\ \A i, j \in 1 .. Len(Leaves(l)) : Leaves(l)[i] = Leaves(l)[j] => i = j
<1> DEFINE V == DOMAIN l.up id == [x \in V |-> x]
           f == CHOOSE g : g = [m \in V |-> LeafStep(l, g, m)]
           s == Leaves(l)
<1>1. Nodes(l) = V /\ l.root \in V /\ {l.root} = {n \in V : l.up[n] = NoNode}
  BY GroveParts
<1>2. s = f[l.root]
  BY <1>1 DEF Leaves, LeavesFrom, LeafStep, Nodes
<1>3. Lists(l, f, V)
  <2>1. \E g : g = [m \in V |-> LeafStep(l, g, m)]
    BY ListsExist DEF Lists
  <2>2. f = [m \in V |-> LeafStep(l, f, m)]
    BY <2>1
  <2> HIDE DEF f
  <2> QED BY <2>2 DEF Lists
<1> HIDE DEF s, f
<1>4. LeafList(l, l.root, s)
  BY <1>1, <1>2, <1>3, ListsAre
<1>5. PanesBelow(l, l.root) = V \cap Pane
  <2>1. Links(l.up)
    BY GroveLinks
  <2>2. \A x \in V : l.root \in Up(l.up, x)
    BY <1>1, <2>1, UpToTheTop
  <2> QED BY <2>2 DEF PanesBelow
<1>6. s \in Seq(V) /\ OneToOne(id, s) /\ Image(id, s) = V \cap Pane
  BY <1>4, <1>5 DEF LeafList
<1>7. IsFiniteSet(V \cap Pane) /\ Len(s) = Cardinality(V \cap Pane) /\ Len(s) \in Nat
  <2> HIDE DEF id, V
  <2>1. s \in Seq(V)
    BY <1>6
  <2>2. IsFiniteSet(Image(id, s)) /\ Cardinality(Image(id, s)) = Len(s) /\ Len(s) \in Nat
    BY <1>6, <2>1, ListCounted
  <2> QED BY <1>6, <2>2
<1>8. \A i \in 1 .. Len(s) : s[i] \in V /\ id[s[i]] = s[i]
  BY <1>6
<1>9. ToSet(s) = V \cap Pane
  <2>1. DOMAIN s = 1 .. Len(s)
    BY <1>6
  <2> QED BY <1>6, <1>8, <2>1 DEF Image, ToSet
<1>10. \A i, j \in 1 .. Len(s) : s[i] = s[j] => i = j
  BY <1>6, <1>8 DEF OneToOne
<1>11. s \in Seq(Pane)
  <2>1. DOMAIN s = 1 .. Len(s) /\ s \in [1 .. Len(s) -> V]
    BY <1>6
  <2>2. \A i \in 1 .. Len(s) : s[i] \in Pane
    BY <1>9, <2>1 DEF ToSet
  <2>3. s \in [1 .. Len(s) -> Pane]
    BY <2>1, <2>2
  <2> HIDE DEF V
  <2> QED BY <1>7, <2>3, ListOf
<1> QED BY <1>1, <1>7, <1>9, <1>10, <1>11 DEF s

-----------------------------------------------------------------------------
(* The panes of a tray's layout *)

\* A tree of these panes.
Tree(l, live) == Grove(l, {l.root}, {}) /\ Nodes(l) \cap Pane = live

\* The pane that gets the focus from another one is a different pane of the layout.
LEMMA NextFocusIs ==
  ASSUME NEW l, NEW live, Tree(l, live), NEW leaf \in live, NEW other \in live, other # leaf
  PROVE  NextFocus(l, leaf) \in live \ {leaf}
<1> DEFINE s == Leaves(l) i == CHOOSE k \in DOMAIN s : s[k] = leaf
<1>1. /\ s \in Seq(Pane) /\ ToSet(s) = live /\ Len(s) \in Nat
      /\ \A a, b \in 1 .. Len(s) : s[a] = s[b] => a = b
  <2>1. Grove(l, {l.root}, {}) /\ Nodes(l) \cap Pane = live
    BY DEF Tree
  <2> QED BY <2>1, LeavesAre
<1>2. NextFocus(l, leaf) = IF i < Len(s) THEN s[i + 1] ELSE s[i - 1]
  BY DEF NextFocus
<1> HIDE DEF s
<1>3. DOMAIN s = 1 .. Len(s) /\ \A k \in 1 .. Len(s) : s[k] \in live
  BY <1>1 DEF ToSet
<1>4. PICK j \in 1 .. Len(s) : s[j] = other
  BY <1>1, <1>3 DEF ToSet
<1>5. i \in 1 .. Len(s) /\ s[i] = leaf
  <2>1. \E k \in DOMAIN s : s[k] = leaf
    BY <1>1 DEF ToSet
  <2> QED BY <1>3, <2>1
<1> HIDE DEF i
<1>6. i # j
  BY <1>4, <1>5
<1>7. /\ i < Len(s) => i + 1 \in 1 .. Len(s) /\ i + 1 # i
      /\ ~(i < Len(s)) => i - 1 \in 1 .. Len(s) /\ i - 1 # i
  BY <1>1, <1>4, <1>5, <1>6
<1>8. \A k \in 1 .. Len(s) : k # i => s[k] \in live \ {leaf}
  BY <1>1, <1>3, <1>5
<1> QED BY <1>2, <1>7, <1>8

\* A pane without a parent is the whole layout.
LEMMA LonePane ==
  ASSUME NEW l, NEW live, Tree(l, live), NEW leaf \in live, l.up[leaf] = NoNode
  PROVE  live = {leaf}
<1> DEFINE u == l.up
<1>1. /\ Grove(l, {l.root}, {}) /\ live \subseteq DOMAIN u /\ live \subseteq Pane
         /\ Nodes(l) = DOMAIN u
      /\ leaf \notin DOMAIN l.kids
  <2>1. Grove(l, {l.root}, {}) /\ Nodes(l) \cap Pane = live
    BY DEF Tree
  <2>2. Nodes(l) = DOMAIN u /\ DOMAIN l.kids \subseteq Split
    BY <2>1, GroveParts
  <2> QED BY <2>1, <2>2, SplitAssumption
<1>2. Links(u)
  BY <1>1, GroveLinks
<1>3. {leaf} = {m \in DOMAIN u : u[m] = NoNode}
  <2>1. {l.root} = {m \in DOMAIN u : u[m] = NoNode}
    BY <1>1, GroveParts
  <2> QED BY <1>1, <2>1
<1>4. ASSUME NEW x \in live, x # leaf PROVE FALSE
  <2>1. leaf \in Up(u, x)
    BY <1>1, <1>2, <1>3, UpToTheTop
  <2>2. PICK c \in Up(u, x) : u[c] = leaf
    BY <1>1, <1>2, <1>4, <2>1, UpChild
  <2>3. c \in DOMAIN u /\ u[c] # NoNode
    <3>1. Up(u, x) \subseteq DOMAIN u /\ NoNode \notin DOMAIN u
      BY <1>1, <1>2, UpIsUpward DEF Links
    <3> QED BY <1>1, <2>2, <3>1
  <2>4. u[c] \in DOMAIN l.kids
    BY <1>1, <2>3, GroveIndex
  <2> QED BY <1>1, <2>2, <2>4
<1> QED BY <1>4

-----------------------------------------------------------------------------
(* Where the panes lie *)

RegionRec == [row : Nat, col : Nat, rows : Nat, cols : Nat]

\* calculate_pane_geometry cuts a region into regions.
LEMMA RegionBelowIs ==
  ASSUME NEW l, NEW tops, NEW thin, Grove(l, tops, thin), NEW n \in DOMAIN l.up, l.up[n] # NoNode,
         NEW r \in RegionRec
  PROVE  RegionBelow(l, l.up[n], r, n) \in RegionRec
<1> DEFINE p == l.up[n] K == l.kids[p] axis == l.axis[p]
           e == Extent(axis, r) count == SeparatorCount(Len(K), e)
           w == Distribute(Weights(K), e - count) i == ChildIndex(l, p, n)
<1>1. p \in DOMAIN l.kids /\ i \in 1 .. Len(K) /\ l.axis[p] \in Axis
  BY GroveIndex, GroveParts
<1>2. K \in Seq(KidRec) /\ Len(K) \in Nat /\ Len(K) # 0 /\ Len(K) - 1 \in Nat
  <2>1. K \in Seq(KidRec)
    BY <1>1, GroveKids
  <2>2. Len(K) \in Nat
    BY <2>1
  <2> HIDE DEF K, i
  <2> QED BY <1>1, <2>1, <2>2
<1>3. /\ r.row \in Nat /\ r.col \in Nat /\ r.rows \in Nat /\ r.cols \in Nat
  BY DEF RegionRec
<1> HIDE DEF K, i, p
<1>4. e \in Nat /\ count \in Nat /\ e - count \in Nat
  <2>1. e \in Nat
    BY <1>3 DEF Extent
  <2> HIDE DEF e
  <2>2. count \in Nat /\ e - count \in Nat
    BY <1>2, <2>1 DEF SeparatorCount
  <2> QED BY <2>1, <2>2
<1> HIDE DEF e, count
<1>5. w \in Seq(Nat) /\ Len(w) = Len(K)
  <2>1. Weights(K) \in Seq(Nat) /\ Len(Weights(K)) = Len(K)
    BY <1>2, WeightsOf
  <2>2. Len(Weights(K)) # 0
    BY <1>2, <2>1
  <2> QED BY <1>4, <2>1, <2>2, DistributeTotals
<1> HIDE DEF w
<1>6. w[i] \in Nat /\ Total(SubSeq(w, 1, i - 1)) \in Nat /\ i - 1 \in Nat
  <2>1. i - 1 \in Nat /\ i \in 1 .. Len(w)
    BY <1>1, <1>2, <1>5
  <2>2. SubSeq(w, 1, i - 1) \in Seq(Nat)
    <3> DEFINE f == [x \in 1 .. (i - 1) |-> w[x]]
    <3>1. f \in [1 .. (i - 1) -> Nat]
      BY <1>5, <2>1
    <3>2. f = SubSeq(w, 1, i - 1)
      BY <1>5, <2>1
    <3> HIDE DEF f
    <3> QED BY <2>1, <3>1, <3>2, ListOf
  <2>3. Total(SubSeq(w, 1, i - 1)) \in Nat
    BY <2>2, TotalNat
  <2> QED BY <1>5, <2>1, <2>3
<1>7. RegionBelow(l, p, r, n)
        = Part(axis, r, Total(SubSeq(w, 1, i - 1)) + (IF count = 0 THEN 0 ELSE i - 1), w[i])
  BY DEF RegionBelow, ChildRegion, w, count, e, K, i
<1> DEFINE offset == Total(SubSeq(w, 1, i - 1)) + (IF count = 0 THEN 0 ELSE i - 1)
<1>8. offset \in Nat
  BY <1>6
<1> HIDE DEF offset
<1>9. Part(axis, r, offset, w[i]) \in RegionRec
  <2>1. \A x \in Nat : r.col + x \in Nat /\ r.row + x \in Nat
    BY <1>3
  <2> HIDE DEF axis
  <2> QED BY <1>3, <1>6, <1>8, <2>1 DEF Part, Region, RegionRec
<1> QED BY <1>7, <1>9 DEF offset, p

\* The equation that the regions of the nodes solve, for some of the nodes.
RegionStep(l, sz, g, n) ==
  IF l.up[n] = NoNode THEN Whole(sz) ELSE RegionBelow(l, l.up[n], g[l.up[n]], n)
Placed(l, sz, g, D) == g = [n \in D |-> RegionStep(l, sz, g, n)]

\* Such regions exist for all nodes.
LEMMA RegionsExist ==
  ASSUME NEW l, NEW tops, NEW thin, Grove(l, tops, thin), NEW sz
  PROVE  \E g : Placed(l, sz, g, DOMAIN l.up)
<1> DEFINE u == l.up V == DOMAIN u
           G == {D \in SUBSET V : Upward(u, D) /\ \E g : Placed(l, sz, g, D)}
           S == {Cardinality(V) - Cardinality(D) : D \in G}
<1>1. Links(u) /\ IsFiniteSet(V) /\ NoNode \notin V
  <2>1. Links(u)
    BY GroveLinks
  <2> QED BY <2>1, GroveParts
<1>2. \A D \in SUBSET V : IsFiniteSet(D) /\ Cardinality(D) \in Nat /\ Cardinality(V) \in Nat
      /\ Cardinality(D) <= Cardinality(V)
  BY <1>1, FS_Subset, FS_CardinalityType
<1>3. {} \in G
  <2>1. Upward(u, {})
    BY DEF Upward
  <2>2. \E g : Placed(l, sz, g, {})
    <3> DEFINE g == [m \in {} |-> <<>>]
    <3>1. g = [m \in {} |-> RegionStep(l, sz, g, m)]
      OBVIOUS
    <3> QED BY <3>1 DEF Placed
  <2> QED BY <2>1, <2>2
<1>4. PICK D \in G : \A E \in G : Cardinality(V) - Cardinality(D) <= Cardinality(V) - Cardinality(E)
  <2>1. S \subseteq Nat /\ S # {}
    <3>1. G \subseteq SUBSET V
      OBVIOUS
    <3> HIDE DEF G
    <3> QED BY <1>2, <1>3, <3>1
  <2>2. \E s \in S : \A t \in S : s <= t
    <3> HIDE DEF S
    <3> QED BY <2>1, LeastElement
  <2> HIDE DEF G
  <2> QED BY <2>2
<1>5. D \subseteq V /\ Upward(u, D)
  OBVIOUS
<1>6. PICK g : Placed(l, sz, g, D)
  OBVIOUS
<1>7. ASSUME D # V PROVE FALSE
  <2>1. PICK m \in V \ D : u[m] \notin V \ D
    <3> DEFINE C == V \ D
    <3>1. C \in SUBSET V /\ C # {}
      BY <1>5, <1>7
    <3> HIDE DEF C
    <3>2. \E m \in C : u[m] \notin C
      BY <1>1, <3>1 DEF Links, Rooted
    <3> QED BY <3>2 DEF C
  <2>2. u[m] \in D \cup {NoNode}
    BY <1>1, <2>1 DEF Links
  <2> DEFINE E == D \cup {m}
             h == [n \in E |-> IF n = m THEN RegionStep(l, sz, g, m) ELSE g[n]]
  <2>3. \A n \in E : u[n] \in D \cup {NoNode}
    BY <1>5, <2>2 DEF Upward
  <2>4. \A n \in D : h[n] = g[n]
    BY <2>1
  <2>5. ASSUME NEW n \in E PROVE RegionStep(l, sz, h, n) = RegionStep(l, sz, g, n)
    <3>1. u[n] # NoNode => h[u[n]] = g[u[n]]
      <4> HIDE DEF h
      <4> QED BY <2>3, <2>4
    <3> HIDE DEF h
    <3> QED BY <3>1 DEF RegionStep
  <2>6. Placed(l, sz, h, E)
    <3>1. ASSUME NEW n \in E PROVE h[n] = RegionStep(l, sz, h, n)
      <4>1. n \in D => g[n] = RegionStep(l, sz, g, n)
        BY <1>6 DEF Placed
      <4>2. h[n] = IF n = m THEN RegionStep(l, sz, g, m) ELSE g[n]
        OBVIOUS
      <4> HIDE DEF h
      <4> QED BY <2>5, <4>1, <4>2
    <3>2. h = [n \in E |-> h[n]]
      OBVIOUS
    <3> HIDE DEF h, E
    <3>3. h = [n \in E |-> RegionStep(l, sz, h, n)]
      BY <3>1, <3>2
    <3> QED BY <3>3 DEF Placed
  <2>7. E \in G
    <3>1. Upward(u, E)
      BY <1>5, <2>3 DEF Upward
    <3> HIDE DEF h
    <3> QED BY <1>5, <2>6, <3>1
  <2>8. Cardinality(E) = Cardinality(D) + 1
    BY <1>2, <1>5, <2>1, FS_AddElement
  <2>9. \A x, y \in Nat : ~(x - y <= x - (y + 1))
    OBVIOUS
  <2>10. Cardinality(V) - Cardinality(D) <= Cardinality(V) - (Cardinality(D) + 1)
    <3> HIDE DEF G, E
    <3>1. Cardinality(V) - Cardinality(D) <= Cardinality(V) - Cardinality(E)
      BY <1>4, <2>7
    <3> QED BY <2>8, <3>1
  <2> QED BY <1>2, <1>5, <2>9, <2>10
<1> QED BY <1>6, <1>7

\* Every node has a region with its row and column and a size, which may be empty.
LEMMA RegionsAre ==
  ASSUME NEW l, NEW tops, NEW thin, Grove(l, tops, thin), NEW sz \in [rows : Nat, cols : Nat]
  PROVE  \A n \in DOMAIN l.up : Regions(l, sz)[n] \in RegionRec
<1> DEFINE u == l.up V == DOMAIN u
           f == CHOOSE g : g = [n \in V |-> RegionStep(l, sz, g, n)]
           C == {n \in V : f[n] \notin RegionRec}
<1>1. Links(u) /\ Nodes(l) = V
  BY GroveLinks, GroveParts
<1>2. Regions(l, sz) = f
  BY <1>1 DEF Regions, RegionStep, Nodes
<1>3. \A n \in V : f[n] = RegionStep(l, sz, f, n)
  <2>1. \E g : g = [n \in V |-> RegionStep(l, sz, g, n)]
    BY RegionsExist DEF Placed
  <2>2. f = [n \in V |-> RegionStep(l, sz, f, n)]
    BY <2>1
  <2> HIDE DEF f
  <2> QED BY <2>2
<1> HIDE DEF f
<1>4. ASSUME NEW n \in C PROVE u[n] \in C
  <2>1. CASE u[n] = NoNode
    <3>1. Whole(sz) \in RegionRec
      BY DEF Whole, Region, RegionRec
    <3> QED BY <1>3, <2>1, <3>1 DEF RegionStep
  <2>2. CASE u[n] # NoNode
    <3>1. u[n] \in V
      BY <1>1, <2>2 DEF Links
    <3>2. f[n] = RegionBelow(l, u[n], f[u[n]], n)
      BY <1>3, <2>2 DEF RegionStep
    <3>3. f[u[n]] \in RegionRec => f[n] \in RegionRec
      BY <2>2, <3>2, RegionBelowIs
    <3> QED BY <3>1, <3>3
  <2> QED BY <2>1, <2>2
<1>5. C = {}
  <2>1. C \in SUBSET V
    OBVIOUS
  <2> HIDE DEF C
  <2> QED BY <1>1, <1>4, <2>1 DEF Links, Rooted
<1> QED BY <1>2, <1>5

-----------------------------------------------------------------------------
(* Which pane lies next to which *)

\* Three numbers.
Triple(t) == t[1] \in Nat /\ t[2] \in Nat /\ t[3] \in Nat

\* When one score beats another.
LEMMA CloserIs ==
  ASSUME NEW s, NEW t, Closer(s, t)
  PROVE  \/ s[1] < t[1]
         \/ s[1] = t[1] /\ s[2] < t[2]
         \/ s[1] = t[1] /\ s[2] = t[2] /\ s[3] < t[3]
<1>1. PICK i \in 1 .. 3 : s[i] < t[i] /\ \A j \in 1 .. (i - 1) : s[j] = t[j]
  BY DEF Closer
<1>2. i = 1 \/ i = 2 \/ i = 3
  OBVIOUS
<1>3. CASE i = 1
  BY <1>1, <1>3
<1>4. CASE i = 2
  <2>1. 1 \in 1 .. (i - 1)
    BY <1>4
  <2> QED BY <1>1, <1>4, <2>1
<1>5. CASE i = 3
  <2>1. 1 \in 1 .. (i - 1) /\ 2 \in 1 .. (i - 1)
    BY <1>5
  <2> QED BY <1>1, <1>5, <2>1
<1> QED BY <1>2, <1>3, <1>4, <1>5

\* Among candidates with scores there is a first one that no other beats.
LEMMA BestExists ==
  ASSUME NEW S, S \subseteq Nat, S # {}, NEW v, \A i \in S : Triple(v[i])
  PROVE  \E i \in S : \A j \in S : ~Closer(v[j], v[i]) /\ (j < i => v[j] # v[i])
<1>1. PICK a \in S : \A j \in S : v[a][1] <= v[j][1]
  <2> DEFINE T == {v[j][1] : j \in S}
  <2>1. T \subseteq Nat /\ T # {}
    BY DEF Triple
  <2>2. \E m \in T : \A k \in T : m <= k
    <3> HIDE DEF T
    <3> QED BY <2>1, LeastElement
  <2> QED BY <2>2
<1> DEFINE S2 == {j \in S : v[j][1] = v[a][1]}
<1>2. PICK b \in S2 : \A j \in S2 : v[b][2] <= v[j][2]
  <2> DEFINE T == {v[j][2] : j \in S2}
  <2>1. T \subseteq Nat /\ T # {}
    BY DEF Triple
  <2>2. \E m \in T : \A k \in T : m <= k
    <3> HIDE DEF T
    <3> QED BY <2>1, LeastElement
  <2> QED BY <2>2
<1> DEFINE S3 == {j \in S2 : v[j][2] = v[b][2]}
<1>3. PICK c \in S3 : \A j \in S3 : v[c][3] <= v[j][3]
  <2> DEFINE T == {v[j][3] : j \in S3}
  <2>1. T \subseteq Nat /\ T # {}
    BY DEF Triple
  <2>2. \E m \in T : \A k \in T : m <= k
    <3> HIDE DEF T
    <3> QED BY <2>1, LeastElement
  <2> QED BY <2>2
<1> DEFINE S4 == {j \in S3 : v[j] = v[c]}
<1>4. PICK i \in S4 : \A j \in S4 : i <= j
  <2>1. S4 \subseteq Nat /\ S4 # {}
    OBVIOUS
  <2> HIDE DEF S4
  <2> QED BY <2>1, LeastElement
<1>5. i \in S /\ v[i] = v[c] /\ v[i][1] = v[a][1] /\ v[i][2] = v[b][2] /\ v[b][1] = v[a][1]
      /\ v[c][1] = v[a][1]
  OBVIOUS
<1>6. ASSUME NEW j \in S PROVE ~Closer(v[j], v[i]) /\ (j < i => v[j] # v[i])
  <2>1. /\ v[j][1] \in Nat /\ v[j][2] \in Nat /\ v[j][3] \in Nat
        /\ v[i][1] \in Nat /\ v[i][2] \in Nat /\ v[i][3] \in Nat
    BY <1>5 DEF Triple
  <2>2. \A x, y \in Nat : x <= y => ~(y < x)
    OBVIOUS
  <2>3. ~(v[j][1] < v[i][1])
    BY <1>1, <1>5, <2>1, <2>2
  <2>4. v[j][1] = v[i][1] => ~(v[j][2] < v[i][2])
    <3>1. v[j][1] = v[i][1] => j \in S2
      BY <1>5
    <3> QED BY <1>2, <1>5, <2>1, <2>2, <3>1
  <2>5. v[j][1] = v[i][1] /\ v[j][2] = v[i][2] => ~(v[j][3] < v[i][3])
    <3>1. v[j][1] = v[i][1] /\ v[j][2] = v[i][2] => j \in S3
      BY <1>5
    <3> QED BY <1>3, <1>5, <2>1, <2>2, <3>1
  <2>6. ~Closer(v[j], v[i])
    BY <2>3, <2>4, <2>5, CloserIs
  <2>7. j < i => v[j] # v[i]
    <3>1. v[j] = v[i] => j \in S4
      BY <1>5
    <3>2. i \in Nat /\ j \in Nat
      BY <1>5
    <3> QED BY <1>4, <2>2, <3>1, <3>2
  <2> QED BY <2>6, <2>7
<1> QED BY <1>5, <1>6

\* find_immediate_directional_pane finds one of the candidates if there is one.
LEMMA FirstIs ==
  ASSUME NEW leaves, DOMAIN leaves \subseteq Nat, NEW candidates,
         candidates \subseteq ToSet(leaves),
         NEW score, \A n \in candidates : Triple(score[n])
  PROVE  First(leaves, candidates, score) \in candidates \cup {None}
<1> DEFINE S == {i \in DOMAIN leaves : leaves[i] \in candidates}
           v == [i \in DOMAIN leaves |-> score[leaves[i]]]
           Best(i) == /\ leaves[i] \in candidates
                      /\ \A j \in DOMAIN leaves :
                           leaves[j] \in candidates =>
                             /\ ~Closer(score[leaves[j]], score[leaves[i]])
                             /\ j < i => score[leaves[j]] # score[leaves[i]]
           best == CHOOSE i \in DOMAIN leaves : Best(i)
<1>1. First(leaves, candidates, score) = IF candidates = {} THEN None ELSE leaves[best]
  BY DEF First
<1>2. CASE candidates # {}
  <2>1. S \subseteq Nat /\ S # {}
    BY <1>2 DEF ToSet
  <2>2. \A i \in S : Triple(v[i])
    OBVIOUS
  <2>3. \E i \in S : \A j \in S : ~Closer(v[j], v[i]) /\ (j < i => v[j] # v[i])
    <3> HIDE DEF S, v
    <3> QED BY <2>1, <2>2, BestExists
  <2>4. \E i \in DOMAIN leaves : Best(i)
    BY <2>3
  <2>5. best \in DOMAIN leaves /\ Best(best)
    <3> HIDE DEF Best
    <3> QED BY <2>4
  <2> QED BY <1>1, <1>2, <2>5
<1>3. CASE candidates = {}
  BY <1>1, <1>3
<1> QED BY <1>2, <1>3

\* The scores of candidates are numbers.
LEMMA ScoreIs ==
  ASSUME NEW axis, NEW from \in RegionRec, NEW to \in RegionRec
  PROVE  Triple(ScoreOn(axis, from, to))
<1>1. \A x, r : r \in RegionRec => Interval(x, r)[1] \in Nat /\ Interval(x, r)[2] \in Nat
  <2> TAKE x, r
  <2> HAVE r \in RegionRec
  <2>1. r.row \in Nat /\ r.col \in Nat /\ r.rows \in Nat /\ r.cols \in Nat
    BY DEF RegionRec
  <2>2. r.row + r.rows \in Nat /\ r.col + r.cols \in Nat
    BY <2>1
  <2>3. CASE x = "LR"
    <3>1. Interval(x, r) = <<r.col, r.col + r.cols>>
      BY <2>3 DEF Interval
    <3> QED BY <2>1, <2>2, <3>1
  <2>4. CASE x # "LR"
    <3>1. Interval(x, r) = <<r.row, r.row + r.rows>>
      BY <2>4 DEF Interval
    <3> QED BY <2>1, <2>2, <3>1
  <2> QED BY <2>3, <2>4
<1>2. \A a, b : a[1] \in Nat /\ a[2] \in Nat /\ b[1] \in Nat /\ b[2] \in Nat
      => Gap(a, b) \in Nat /\ CenterDistance(a, b) \in Nat
  <2> TAKE a, b
  <2> HAVE a[1] \in Nat /\ a[2] \in Nat /\ b[1] \in Nat /\ b[2] \in Nat
  <2>1. Gap(a, b) \in Nat
    BY DEF Gap
  <2>2. CenterDistance(a, b) \in Nat
    BY DEF CenterDistance
  <2> QED BY <2>1, <2>2
<1> DEFINE s == ScoreOn(axis, from, to)
<1>3. /\ s[1] = Gap(Interval(axis, from), Interval(axis, to))
      /\ s[2] = Gap(Interval(Across(axis), from), Interval(Across(axis), to))
      /\ s[3] = CenterDistance(Interval(Across(axis), from), Interval(Across(axis), to))
  BY DEF ScoreOn
<1> HIDE DEF s
<1>4. s[1] \in Nat /\ s[2] \in Nat /\ s[3] \in Nat
  BY <1>1, <1>2, <1>3
<1> QED BY <1>4 DEF Triple, s

\* The pane next to a node is a pane of the layout, if there is one.
LEMMA NeighbourIs ==
  ASSUME NEW l, NEW live, Tree(l, live), NEW sz \in [rows : Nat, cols : Nat],
         NEW from \in DOMAIN l.up, NEW direction
  PROVE  Neighbour(l, sz, from, direction) \in live \cup {None}
<1> DEFINE s == Leaves(l) R == Regions(l, sz) axis == AxisOf(direction)
           LiesThere(n) == /\ n # from /\ Visible(R[n])
                           /\ LiesToward(Interval(axis, R[from]), Interval(axis, R[n]), direction)
           C == {n \in ToSet(s) : LiesThere(n)}
           score == [n \in ToSet(s) |-> ScoreOn(axis, R[from], R[n])]
<1>1. Grove(l, {l.root}, {}) /\ Nodes(l) \cap Pane = live /\ Nodes(l) = DOMAIN l.up
  <2>1. Grove(l, {l.root}, {}) /\ Nodes(l) \cap Pane = live
    BY DEF Tree
  <2> QED BY <2>1, GroveParts
<1>2. s \in Seq(Pane) /\ ToSet(s) = live
  BY <1>1, LeavesAre
<1>3. \A n \in DOMAIN l.up : R[n] \in RegionRec
  BY <1>1, RegionsAre
<1>4. Neighbour(l, sz, from, direction) = First(s, C, score)
  BY DEF Neighbour, ClosestOf
<1> HIDE DEF s, R, LiesThere
<1>5. \A n \in C : Triple(score[n])
  <2>1. \A n \in ToSet(s) : ScoreOn(axis, R[from], R[n]) = score[n] /\ n \in DOMAIN l.up
    BY <1>1, <1>2
  <2>2. \A n \in ToSet(s) : Triple(ScoreOn(axis, R[from], R[n]))
    BY <1>3, <2>1, ScoreIs
  <2> QED BY <2>1, <2>2
<1>6. C \subseteq ToSet(s) /\ DOMAIN s \subseteq Nat
  BY <1>2
<1> HIDE DEF C, score
<1>7. First(s, C, score) \in C \cup {None}
  BY <1>5, <1>6, FirstIs
<1> QED BY <1>2, <1>4, <1>6, <1>7

\* The target that a step chooses is eligible, if there is one.
LEMMA EligibleIs ==
  ASSUME NEW l, NEW sz, NEW from, NEW direction, NEW eligible
  PROVE  EligibleNeighbour(l, sz, from, direction, eligible) \in eligible \cup {None}
<1>1. \A n : IfEligible(n, eligible) \in eligible \cup {None}
  BY DEF IfEligible
<1> QED BY <1>1 DEF EligibleNeighbour

-----------------------------------------------------------------------------
(* Lists of nodes: what stands before what *)

\* In the list s something that g takes to x stands before something it takes to y.
Ahead(g, s, x, y) == \E i, j \in 1 .. Len(s) : i < j /\ g[s[i]] = x /\ g[s[j]] = y
\* The same of the first n lists of ss, put in a row.
Spread(g, ss, n, x, y) ==
  \/ \E a \in 1 .. n : Ahead(g, ss[a], x, y)
  \/ \E a, b \in 1 .. n : a < b /\ x \in Image(g, ss[a]) /\ y \in Image(g, ss[b])

\* What stands before what in two lists in a row.
LEMMA AheadJoined ==
  ASSUME NEW S, NEW g, NEW s \in Seq(S), NEW t \in Seq(S), NEW x, NEW y
  PROVE  Ahead(g, Join(s, t), x, y)
           <=> \/ Ahead(g, s, x, y) \/ Ahead(g, t, x, y)
               \/ x \in Image(g, s) /\ y \in Image(g, t)
<1> DEFINE m == Len(s)
           n == Len(t)
           c == Join(s, t)
<1>1. m \in Nat /\ n \in Nat /\ Len(c) = m + n
  BY DEF Join
<1>2. (\A i \in 1 .. m : c[i] = s[i]) /\ (\A i \in 1 .. n : c[m + i] = t[i])
  BY DEF Join
<1> HIDE DEF c
<1>3. ASSUME NEW i \in 1 .. m + n, NEW j \in 1 .. m + n, i < j, g[c[i]] = x, g[c[j]] = y
      PROVE  \/ Ahead(g, s, x, y) \/ Ahead(g, t, x, y)
             \/ x \in Image(g, s) /\ y \in Image(g, t)
  <2>1. CASE j \in 1 .. m
    <3>0. i \in 1 .. m
      BY <1>1, <1>3, <2>1
    <3>1. i \in 1 .. m /\ g[s[i]] = x /\ g[s[j]] = y
      BY <1>2, <1>3, <2>1, <3>0
    <3> QED BY <1>3, <2>1, <3>1 DEF Ahead
  <2>2. CASE i \in 1 .. m /\ j \notin 1 .. m
    <3>1. j - m \in 1 .. n /\ j = m + (j - m)
      BY <1>1, <2>2
    <3>2. g[s[i]] = x /\ g[t[j - m]] = y
      BY <1>2, <1>3, <2>2, <3>1
    <3> QED BY <2>2, <3>1, <3>2 DEF Image
  <2>3. CASE i \notin 1 .. m
    <3>1. i - m \in 1 .. n /\ i = m + (i - m) /\ j - m \in 1 .. n /\ j = m + (j - m) /\ i - m < j - m
      BY <1>1, <1>3, <2>3
    <3>2. g[t[i - m]] = x /\ g[t[j - m]] = y
      BY <1>2, <1>3, <3>1
    <3> QED BY <3>1, <3>2 DEF Ahead
  <2> QED BY <1>1, <1>3, <2>1, <2>2, <2>3
<1>4. ASSUME Ahead(g, s, x, y) PROVE Ahead(g, c, x, y)
  <2>1. PICK i \in 1 .. m, j \in 1 .. m : i < j /\ g[s[i]] = x /\ g[s[j]] = y
    BY <1>4 DEF Ahead
  <2>2. i \in 1 .. Len(c) /\ j \in 1 .. Len(c) /\ c[i] = s[i] /\ c[j] = s[j]
    BY <1>1, <1>2
  <2> QED BY <2>1, <2>2 DEF Ahead
<1>5. ASSUME Ahead(g, t, x, y) PROVE Ahead(g, c, x, y)
  <2>1. PICK i \in 1 .. n, j \in 1 .. n : i < j /\ g[t[i]] = x /\ g[t[j]] = y
    BY <1>5 DEF Ahead
  <2>2. m + i \in 1 .. Len(c) /\ m + j \in 1 .. Len(c) /\ m + i < m + j
    BY <1>1, <2>1
  <2>3. c[m + i] = t[i] /\ c[m + j] = t[j]
    BY <1>2
  <2> QED BY <2>1, <2>2, <2>3 DEF Ahead
<1>6. ASSUME x \in Image(g, s), y \in Image(g, t) PROVE Ahead(g, c, x, y)
  <2>1. PICK i \in 1 .. m : x = g[s[i]]
    BY <1>6 DEF Image
  <2>2. PICK j \in 1 .. n : y = g[t[j]]
    BY <1>6 DEF Image
  <2>3. i \in 1 .. Len(c) /\ m + j \in 1 .. Len(c) /\ i < m + j
    BY <1>1
  <2>4. c[i] = s[i] /\ c[m + j] = t[j]
    BY <1>2
  <2> QED BY <2>1, <2>2, <2>3, <2>4 DEF Ahead
<1>7. Ahead(g, c, x, y) => \/ Ahead(g, s, x, y) \/ Ahead(g, t, x, y)
                           \/ x \in Image(g, s) /\ y \in Image(g, t)
  BY <1>1, <1>3 DEF Ahead
<1> QED BY <1>4, <1>5, <1>6, <1>7 DEF c

\* What stands before what in a flattened list.
LEMMA AheadFlattened ==
  ASSUME NEW S, NEW g, NEW ss \in Seq(Seq(S)), NEW x, NEW y
  PROVE  Ahead(g, FlattenSeq(ss), x, y) <=> Spread(g, ss, Len(ss), x, y)
<1> DEFINE n == Len(ss)
<1>1. CASE n = 0
  <2>1. FlattenSeq(ss) = ss /\ 1 .. Len(ss) = {}
    BY <1>1 DEF FlattenSeq
  <2> QED BY <2>1 DEF Ahead, Spread
<1>2. CASE n # 0
  <2>1. PICK f : Steps(S, ss, f) /\ FlattenSeq(ss) = f[n]
    BY <1>2, FlattenSteps
  <2>2. n \in Nat /\ n \in 1 .. n /\ \A i \in 1 .. n : ss[i] \in Seq(S) /\ f[i] \in Seq(S)
    <3>1. f \in [1 .. n -> Seq(S)]
      BY <2>1 DEF Steps
    <3>2. ASSUME NEW i \in 1 .. n PROVE f[i] \in Seq(S)
      BY <3>1
    <3>3. ASSUME NEW i \in 1 .. n PROVE ss[i] \in Seq(S)
      OBVIOUS
    <3>4. n \in Nat /\ n \in 1 .. n
      BY <1>2
    <3> QED BY <3>2, <3>3, <3>4
  <2> DEFINE U(k) == UNION {Image(g, ss[i]) : i \in 1 .. k}
             Good(k) == Image(g, f[k]) = U(k)
                        /\ (Ahead(g, f[k], x, y) <=> Spread(g, ss, k, x, y))
             Bad == {k \in 1 .. n : ~ Good(k)}
  <2>3. ASSUME Bad # {} PROVE FALSE
    <3>1. PICK m \in Bad : \A k \in Bad : m <= k
      <4>1. Bad \subseteq Nat
        OBVIOUS
      <4> HIDE DEF Bad
      <4> QED BY <2>3, <4>1, LeastElement
    <3>2. m # 1
      <4>1. 1 .. 1 = {1}
        OBVIOUS
      <4>2. f[1] = ss[1]
        BY <2>1 DEF Steps
      <4>3. U(1) = Image(g, ss[1])
        BY <4>1
      <4>4. Spread(g, ss, 1, x, y) <=> Ahead(g, ss[1], x, y)
        BY <4>1 DEF Spread
      <4>5. Good(1)
        BY <4>2, <4>3, <4>4
      <4> QED BY <3>1, <4>5
    <3>3. m \in 2 .. n /\ m - 1 \in 1 .. n /\ ~ (m <= m - 1) /\ 1 .. m = (1 .. m - 1) \cup {m}
      BY <2>2, <3>1, <3>2
    <3>4. Good(m - 1)
      BY <3>1, <3>3
    <3>5. f[m] = Join(f[m - 1], ss[m]) /\ f[m - 1] \in Seq(S) /\ ss[m] \in Seq(S)
      BY <2>1, <2>2, <3>3 DEF Steps
    <3>6. /\ Image(g, f[m]) = Image(g, f[m - 1]) \cup Image(g, ss[m])
          /\ Ahead(g, f[m], x, y) <=> \/ Ahead(g, f[m - 1], x, y) \/ Ahead(g, ss[m], x, y)
                                      \/ x \in Image(g, f[m - 1]) /\ y \in Image(g, ss[m])
      <4> DEFINE a == f[m - 1]
                 b == ss[m]
      <4>1. a \in Seq(S) /\ b \in Seq(S) /\ f[m] = Join(a, b)
        BY <3>5
      <4> HIDE DEF a, b
      <4>2. Image(g, Join(a, b)) = Image(g, a) \cup Image(g, b)
        BY <4>1, ImageJoined
      <4>3. Ahead(g, Join(a, b), x, y) <=> \/ Ahead(g, a, x, y) \/ Ahead(g, b, x, y)
                                           \/ x \in Image(g, a) /\ y \in Image(g, b)
        BY <4>1, AheadJoined
      <4> QED BY <4>1, <4>2, <4>3 DEF a, b
    <3>7. U(m) = U(m - 1) \cup Image(g, ss[m])
      BY <3>3
    <3>8. Spread(g, ss, m, x, y)
            <=> \/ Spread(g, ss, m - 1, x, y) \/ Ahead(g, ss[m], x, y)
                \/ x \in U(m - 1) /\ y \in Image(g, ss[m])
      <4>1. x \in U(m - 1) <=> \E a \in 1 .. m - 1 : x \in Image(g, ss[a])
        OBVIOUS
      <4>2. (\E a \in 1 .. m : Ahead(g, ss[a], x, y))
              <=> (\E a \in 1 .. m - 1 : Ahead(g, ss[a], x, y)) \/ Ahead(g, ss[m], x, y)
        BY <3>3
      <4>3. (\A a \in 1 .. m - 1 : a < m) /\ \A a \in 1 .. m : ~(m < a)
        BY <3>3
      <4>4. (\E a, b \in 1 .. m : a < b /\ x \in Image(g, ss[a]) /\ y \in Image(g, ss[b]))
              <=> \/ \E a, b \in 1 .. m - 1 : a < b /\ x \in Image(g, ss[a]) /\ y \in Image(g, ss[b])
                  \/ (\E a \in 1 .. m - 1 : x \in Image(g, ss[a])) /\ y \in Image(g, ss[m])
        BY <3>3, <4>3
      <4> HIDE DEF U
      <4> QED BY <4>1, <4>2, <4>4 DEF Spread
    <3>9. Good(m)
      <4> HIDE DEF U
      <4> QED BY <3>4, <3>6, <3>7, <3>8
    <3> QED BY <3>1, <3>9
  <2>4. Good(n)
    BY <2>2, <2>3
  <2> QED BY <2>1, <2>4
<1> QED BY <1>1, <1>2

-----------------------------------------------------------------------------
(* Which node of a layout is left of which *)

\* x hangs below a child that stands before the child of the same split that y hangs below.
Left(l, x, y) ==
  \E s \in DOMAIN l.kids : \E c \in Up(l.up, x), d \in Up(l.up, y) : Ahead(NodeOf, l.kids[s], c, d)

\* What stands before what in a list of children.
LEMMA KidsAhead ==
  ASSUME NEW K \in Seq(KidRec), NEW c, NEW d
  PROVE  /\ Ahead(NodeOf, K, c, d)
              <=> \E i, j \in 1 .. Len(K) : i < j /\ K[i].node = c /\ K[j].node = d
         /\ Ahead(NodeOf, K, c, d) => c \in NodesOf(K) /\ d \in NodesOf(K)
         /\ Distinct(K) /\ Ahead(NodeOf, K, c, d) => c # d /\ ~Ahead(NodeOf, K, d, c)
         /\ c \in NodesOf(K) /\ d \in NodesOf(K) /\ c # d
              => Ahead(NodeOf, K, c, d) \/ Ahead(NodeOf, K, d, c)
<1>1. Len(K) \in Nat /\ \A i \in 1 .. Len(K) : NodeOf[K[i]] = K[i].node /\ K[i].node \in NodesOf(K)
  BY KidsAt DEF NodeOf
<1>2. Ahead(NodeOf, K, c, d)
        <=> \E i, j \in 1 .. Len(K) : i < j /\ K[i].node = c /\ K[j].node = d
  BY <1>1 DEF Ahead
<1>3. Ahead(NodeOf, K, d, c)
        <=> \E i, j \in 1 .. Len(K) : i < j /\ K[i].node = d /\ K[j].node = c
  BY <1>1 DEF Ahead
<1>4. Ahead(NodeOf, K, c, d) => c \in NodesOf(K) /\ d \in NodesOf(K)
  BY <1>1, <1>2
<1>5. ASSUME Distinct(K), Ahead(NodeOf, K, c, d) PROVE c # d /\ ~Ahead(NodeOf, K, d, c)
  <2>1. PICK i \in 1 .. Len(K), j \in 1 .. Len(K) : i < j /\ K[i].node = c /\ K[j].node = d
    BY <1>2, <1>5
  <2>2. \A k \in 1 .. Len(K) : (K[k].node = c => k = i) /\ (K[k].node = d => k = j)
    BY <1>5, <2>1 DEF Distinct
  <2> QED BY <1>1, <1>3, <2>1, <2>2
<1>6. ASSUME c \in NodesOf(K), d \in NodesOf(K), c # d
      PROVE  Ahead(NodeOf, K, c, d) \/ Ahead(NodeOf, K, d, c)
  <2>1. PICK i \in 1 .. Len(K), j \in 1 .. Len(K) : K[i].node = c /\ K[j].node = d
    BY <1>6 DEF NodesOf
  <2>2. i < j \/ j < i
    BY <1>1, <1>6, <2>1
  <2> QED BY <1>2, <1>3, <2>1, <2>2
<1> QED BY <1>2, <1>4, <1>5, <1>6

\* Two nodes hang below different children of one split at most.
LEMMA OneFork ==
  ASSUME NEW u, Links(u), NEW x \in DOMAIN u, NEW y \in DOMAIN u,
         NEW c \in Up(u, x), NEW d \in Up(u, y), u[c] = u[d], c # d, u[c] # NoNode,
         NEW e \in Up(u, x), NEW f \in Up(u, y), u[e] = u[f], e # f, u[e] # NoNode,
         u[c] \in Up(u, u[e])
  PROVE  c = e /\ d = f
<1>1. /\ Up(u, x) \subseteq DOMAIN u /\ Up(u, y) \subseteq DOMAIN u
      /\ Upward(u, Up(u, x)) /\ Upward(u, Up(u, y))
  BY UpIsUpward
<1>2. u[e] \in Up(u, x) /\ u[e] \in Up(u, y) /\ u[e] \in DOMAIN u
  BY <1>1 DEF Upward
<1>3. Up(u, u[e]) \subseteq Up(u, x) /\ Up(u, u[e]) \subseteq Up(u, y)
  BY <1>2, UpTransitive
<1>4. CASE u[c] = u[e]
  <2>1. c = e
    BY <1>4, UpOneChild
  <2>2. u[d] = u[f] /\ u[d] # NoNode
    BY <1>4
  <2>3. d = f
    BY <2>2, UpOneChild
  <2> QED BY <2>1, <2>3
<1>5. CASE u[c] # u[e]
  <2>1. PICK h \in Up(u, u[e]) : u[h] = u[c]
    BY <1>2, <1>5, UpChild
  <2>2. h \in Up(u, x) /\ h \in Up(u, y)
    BY <1>3
  <2>3. h = c
    BY <2>1, <2>2, UpOneChild
  <2>4. u[h] = u[d] /\ u[h] # NoNode
    BY <2>1
  <2>5. h = d
    BY <2>2, <2>4, UpOneChild
  <2> QED BY <2>3, <2>5
<1> QED BY <1>4, <1>5

\* Where two nodes part: which children of which split they hang below.
LEMMA LeftParts ==
  ASSUME NEW l, NEW tops, NEW thin, Grove(l, tops, thin), NEW x \in DOMAIN l.up,
         NEW y \in DOMAIN l.up, Left(l, x, y)
  PROVE  \E c \in Up(l.up, x), d \in Up(l.up, y) :
           /\ c \in DOMAIN l.up /\ d \in DOMAIN l.up /\ c # d
           /\ l.up[c] \in DOMAIN l.kids /\ l.up[d] = l.up[c] /\ l.up[c] # NoNode
           /\ Ahead(NodeOf, l.kids[l.up[c]], c, d)
<1>1. PICK s \in DOMAIN l.kids, c \in Up(l.up, x), d \in Up(l.up, y) : Ahead(NodeOf, l.kids[s], c, d)
  BY DEF Left
<1>2. l.kids[s] \in Seq(KidRec) /\ NodesOf(l.kids[s]) = Children(l.up, s) /\ Distinct(l.kids[s])
  BY GroveKids
<1>3. c \in Children(l.up, s) /\ d \in Children(l.up, s) /\ c # d
  BY <1>1, <1>2, KidsAhead
<1>4. NoNode \notin DOMAIN l.up /\ DOMAIN l.kids \subseteq DOMAIN l.up
  BY GroveParts
<1> QED BY <1>1, <1>3, <1>4 DEF Children

\* Of two nodes at most one is left of the other.
LEMMA LeftOneWay ==
  ASSUME NEW l, NEW tops, NEW thin, Grove(l, tops, thin), NEW x \in DOMAIN l.up,
         NEW y \in DOMAIN l.up, Left(l, x, y)
  PROVE  x # y /\ ~Left(l, y, x)
<1> DEFINE u == l.up
<1>0. Links(u)
  BY GroveLinks
<1>1. PICK c \in Up(u, x), d \in Up(u, y) :
        /\ c \in DOMAIN u /\ d \in DOMAIN u /\ c # d
        /\ u[c] \in DOMAIN l.kids /\ u[d] = u[c] /\ u[c] # NoNode
        /\ Ahead(NodeOf, l.kids[u[c]], c, d)
  BY LeftParts
<1>2. x # y
  <2> SUFFICES ASSUME x = y PROVE FALSE
    OBVIOUS
  <2> HIDE DEF u
  <2> QED BY <1>0, <1>1, UpOneChild DEF u
<1>3. ASSUME Left(l, y, x) PROVE FALSE
  <2>1. PICK f \in Up(u, y), e \in Up(u, x) :
        /\ f \in DOMAIN u /\ e \in DOMAIN u /\ f # e
        /\ u[f] \in DOMAIN l.kids /\ u[e] = u[f] /\ u[f] # NoNode
        /\ Ahead(NodeOf, l.kids[u[f]], f, e)
    BY <1>3, LeftParts
  <2>2. l.kids[u[c]] \in Seq(KidRec) /\ Distinct(l.kids[u[c]])
    BY <1>1, GroveKids
  <2>3. u[c] \in Up(u, x) /\ u[e] \in Up(u, x)
    BY <1>0, <1>1, <2>1, UpIsUpward DEF Upward, u
  <2>4. u[c] \in Up(u, u[e]) \/ u[e] \in Up(u, u[c])
    BY <1>0, <2>3, UpChain DEF u
  <2>5. c = e /\ d = f
    <3> HIDE DEF u
    <3>0. x \in DOMAIN u /\ y \in DOMAIN u
      BY DEF u
    <3>1. CASE u[c] \in Up(u, u[e])
      BY <1>0, <1>1, <2>1, <3>0, <3>1, OneFork
    <3>2. CASE u[e] \in Up(u, u[c])
      BY <1>0, <1>1, <2>1, <3>0, <3>2, OneFork
    <3> QED BY <2>4, <3>1, <3>2
  <2> QED BY <1>1, <2>1, <2>2, <2>5, KidsAhead
<1> QED BY <1>2, <1>3

=============================================================================
