---------------------------- MODULE BasicLemmas -----------------------------
(***************************************************************************)
(* Facts about least and greatest elements, induction without operator     *)
(* parameters, sequences of unspecified elements and the sums of           *)
(* FiniteSetsExt, cited by the proofs of the other modules.                *)
(***************************************************************************)
EXTENDS Integers, SequencesExt, NaturalsInduction, WellFoundedInduction,
        FiniteSetTheorems, SequenceTheorems, TLAPS

\* A nonempty set of natural numbers has a least element.
LEMMA LeastNat ==
    ASSUME NEW T, T \subseteq Nat, T # {}
    PROVE  \E x \in T : \A y \in T : x <= y
<1>1. PICK x \in T : \A y \in T : ~(<<y, x>> \in OpToRel(<, Nat))
  BY NatLessThanWellFounded, WFMin, Zenon
<1>2. \A y \in T : ~(y < x)
  BY <1>1 DEF OpToRel
<1> QED BY <1>2

\* A nonempty set of positions up to a natural number has a greatest element.
LEMMA GreatestIndex ==
    ASSUME NEW n \in Nat, NEW I, I \subseteq 1 .. n, I # {}
    PROVE  Max(I) \in I /\ \A i \in I : i <= Max(I)
<1> DEFINE T == {n - i : i \in I}
<1>1. PICK x \in T : \A y \in T : x <= y
  <2>1. \A i \in I : n - i \in Nat
    OBVIOUS
  <2>2. T \subseteq Nat
    BY <2>1, Zenon
  <2>3. T # {}
    <3>1. PICK i \in I : TRUE
      OBVIOUS
    <3>2. n - i \in T
      OBVIOUS
    <3> QED BY <3>2, Zenon
  <2> QED BY <2>2, <2>3, LeastNat
<1>2. PICK m \in I : x = n - m
  OBVIOUS
<1>3. \A i \in I : m >= i
  <2> SUFFICES ASSUME NEW i \in I PROVE m >= i
    OBVIOUS
  <2>1. n - i \in T
    OBVIOUS
  <2> QED BY <1>1, <1>2, <2>1
<1> QED BY <1>3 DEF Max

\* Min names it.
LEMMA MinIsLeast ==
    ASSUME NEW T, T \subseteq Nat, T # {}
    PROVE  Min(T) \in T /\ \A y \in T : Min(T) <= y
BY LeastNat DEF Min

\* Min and Max where they are at hand.
LEMMA MinOfTwo ==
    ASSUME NEW a \in Int, NEW b \in Int
    PROVE  Min({a, b}) \in Int /\ Min({a, b}) <= a /\ Min({a, b}) <= b /\ Min({a, b}) \in {a, b}
<1> DEFINE T == {a, b}
<1>1. \E x \in T : \A y \in T : x <= y
  <2>1. CASE a <= b
    BY <2>1
  <2>2. CASE ~(a <= b)
    BY <2>2
  <2> QED BY <2>1, <2>2
<1>2. Min(T) = CHOOSE x \in T : \A y \in T : x <= y
  BY DEF Min
<1>3. Min(T) \in T /\ \A y \in T : Min(T) <= y
  BY <1>1, <1>2
<1> QED BY <1>3

LEMMA MaxIs ==
    ASSUME NEW T, T \subseteq Int, NEW m \in T, \A e \in T : e <= m
    PROVE  Max(T) = m
<1>1. Max(T) = CHOOSE x \in T : \A y \in T : x >= y
  BY DEF Max
<1>2. \A x \in T : (\A y \in T : x >= y) => x = m
  OBVIOUS
<1>3. \A y \in T : m >= y
  OBVIOUS
<1> QED BY <1>1, <1>2, <1>3

\* A set that holds 0 and the successor of each of its members holds every number.
LEMMA SetInduction ==
    ASSUME NEW S, 0 \in S, \A n \in Nat : n \in S => n + 1 \in S
    PROVE  \A n \in Nat : n \in S
<1> SUFFICES ASSUME NEW bad \in Nat, bad \notin S PROVE FALSE
  OBVIOUS
<1> DEFINE T == {n \in Nat : n \notin S}
<1>1. T \subseteq Nat /\ bad \in T
  OBVIOUS
<1>2. PICK x \in T : \A y \in T : x <= y
  BY <1>1, LeastNat
<1>3. x \in Nat /\ x \notin S /\ x # 0
  BY <1>2
<1>4. x - 1 \in Nat /\ (x - 1) + 1 = x /\ ~(x <= x - 1)
  BY <1>3
<1>5. x - 1 \in S
  BY <1>2, <1>4
<1> QED BY <1>3, <1>4, <1>5

LEMMA IndicesFinite ==
    ASSUME NEW n \in Nat
    PROVE  IsFiniteSet(1 .. n)
BY FS_Interval

\* The images of a finite set.
LEMMA ImageFinite ==
    ASSUME NEW f, IsFiniteSet(DOMAIN f)
    PROVE  IsFiniteSet({f[i] : i \in DOMAIN f})
<1> DEFINE D == DOMAIN f
           T == {f[i] : i \in DOMAIN f}
           g == [i \in D |-> f[i]]
<1>1. g \in Surjection(D, T)
  BY DEF Surjection
<1> QED BY <1>1, FS_Surjection

\* The next prefix of the indices up to n.
LEMMA NextPrefix ==
    ASSUME NEW n \in Nat, NEW k \in 0 .. n - 1
    PROVE  /\ 1 .. k + 1 \in SUBSET (1 .. n) /\ 1 .. k + 1 # {} /\ k + 1 \in Nat
           /\ (1 .. k + 1) \ {k + 1} = 1 .. k /\ k \in 0 .. n /\ k + 1 \in 0 .. n
           /\ k + 1 \in 1 .. k + 1
<1>1. k \in Nat /\ k + 1 \in Nat /\ k + 1 <= n
  OBVIOUS
<1>2. 1 .. k + 1 \subseteq 1 .. n
  BY <1>1
<1>3. k + 1 \in 1 .. k + 1
  BY <1>1
<1>4. (1 .. k + 1) \ {k + 1} = 1 .. k
  BY <1>1
<1>5. k \in 0 .. n /\ k + 1 \in 0 .. n
  BY <1>1
<1> QED BY <1>1, <1>2, <1>3, <1>4, <1>5

\* The greatest element of a set of indices that holds the last index.
LEMMA LastIndex ==
    ASSUME NEW n \in Nat, NEW s \in SUBSET (1 .. n), s # {}
    PROVE  Max(s) \in s /\ (n \in s => Max(s) = n)
<1>1. Max(s) \in s /\ \A i \in s : i <= Max(s)
  BY GreatestIndex
<1>2. PICK m \in 1 .. n : m = Max(s)
  BY <1>1
<1>3. n \in s => n <= m
  BY <1>1, <1>2
<1> QED BY <1>1, <1>2, <1>3

-----------------------------------------------------------------------------
(***************************************************************************)
(* Sequences whose elements are of no concern.                             *)
(***************************************************************************)
IsSeq(s) == \E T : s \in Seq(T)

\* VecDeque::push_back
LEMMA SeqPush ==
    ASSUME NEW s, IsSeq(s), NEW e
    PROVE  /\ IsSeq(Append(s, e)) /\ Len(s) \in Nat
           /\ Len(Append(s, e)) = Len(s) + 1
           /\ Append(s, e) # <<>> /\ Last(Append(s, e)) = e
           /\ \A i \in 1 .. Len(s) : Append(s, e)[i] = s[i]
           /\ Append(s, e)[Len(s) + 1] = e
<1>1. PICK T : s \in Seq(T)
  BY DEF IsSeq
<1>2. s \in Seq(T \cup {e}) /\ e \in T \cup {e}
  BY <1>1
<1>3. Append(s, e) \in Seq(T \cup {e})
  BY <1>2, AppendProperties
<1>4. /\ Append(s, e) # <<>> /\ Len(Append(s, e)) = Len(s) + 1
      /\ \A i \in 1 .. Len(s) : Append(s, e)[i] = s[i]
      /\ Append(s, e)[Len(s) + 1] = e
  BY <1>2, AppendProperties
<1> QED BY <1>1, <1>3, <1>4, LenProperties DEF IsSeq, Last

\* VecDeque::drain(..k): the elements after the first k.
LEMMA SeqDrop ==
    ASSUME NEW s, IsSeq(s), NEW k \in 0 .. Len(s)
    PROVE  /\ IsSeq(SubSeq(s, k + 1, Len(s)))
           /\ Len(s) \in Nat
           /\ Len(SubSeq(s, k + 1, Len(s))) = Len(s) - k
           /\ \A i \in 1 .. Len(s) - k : SubSeq(s, k + 1, Len(s))[i] = s[k + i]
<1>1. PICK T : s \in Seq(T)
  BY DEF IsSeq
<1>2. Len(s) \in Nat
  BY <1>1, LenProperties
<1>3. k + 1 \in 1 .. Len(s) + 1 /\ Len(s) \in k .. Len(s)
  BY <1>2
<1>4. /\ SubSeq(s, k + 1, Len(s)) \in Seq(T)
      /\ Len(SubSeq(s, k + 1, Len(s))) = IF k + 1 <= Len(s) THEN Len(s) - (k + 1) + 1 ELSE 0
      /\ \A i \in 1 .. Len(s) - (k + 1) + 1 : SubSeq(s, k + 1, Len(s))[i] = s[(k + 1) + i - 1]
  BY <1>1, <1>2, <1>3, SubSeqProperties
<1> HIDE DEF IsSeq
<1> QED
  <2>1. IsSeq(SubSeq(s, k + 1, Len(s)))
    BY <1>4 DEF IsSeq
  <2>2. Len(SubSeq(s, k + 1, Len(s))) = Len(s) - k
    BY <1>2, <1>4
  <2>3. ASSUME NEW i \in 1 .. Len(s) - k PROVE SubSeq(s, k + 1, Len(s))[i] = s[k + i]
    <3>1. i \in 1 .. Len(s) - (k + 1) + 1 /\ (k + 1) + i - 1 = k + i
      BY <1>2
    <3> QED BY <1>4, <3>1
  <2> QED BY <1>2, <2>1, <2>2, <2>3

\* VecDeque::pop_front
LEMMA SeqPop ==
    ASSUME NEW s, IsSeq(s), Len(s) > 0
    PROVE  /\ IsSeq(Tail(s)) /\ Len(s) \in Nat
           /\ Len(Tail(s)) = Len(s) - 1
           /\ \A i \in 1 .. Len(s) - 1 : Tail(s)[i] = s[i + 1]
<1>1. PICK T : s \in Seq(T)
  BY DEF IsSeq
<1>2. Len(s) \in Nat /\ s # <<>>
  BY <1>1, LenProperties, EmptySeq
<1>3. /\ Tail(s) \in Seq(T) /\ Len(Tail(s)) = Len(s) - 1
      /\ \A i \in 1 .. Len(Tail(s)) : Tail(s)[i] = s[i + 1]
  BY <1>1, <1>2, HeadTailProperties
<1> QED BY <1>2, <1>3 DEF IsSeq

-----------------------------------------------------------------------------
(***************************************************************************)
(* Sums over finite sets.  MapThenSumSet takes the elements of a set in an *)
(* order that CHOOSE fixes; sigma is the sum of F in every order.          *)
(***************************************************************************)
IsSum(sigma, F, D) ==
    /\ sigma \in [SUBSET D -> Nat]
    /\ sigma[{}] = 0
    /\ \A s \in SUBSET D : \A y \in s : sigma[s] = F[y] + sigma[s \ {y}]

\* There is one of every finite sequence.
LEMMA SumUpto ==
    ASSUME NEW n \in Nat, NEW F \in [1 .. n -> Nat]
    PROVE  \E sigma : IsSum(sigma, F, 1 .. n)
<1> DEFINE S == {k \in Nat : k <= n => \E sigma : IsSum(sigma, F, 1 .. k)}
<1>1. 0 \in S
  <2> DEFINE none == [s \in SUBSET (1 .. 0) |-> 0]
  <2>1. 1 .. 0 = {}
    OBVIOUS
  <2>2. IsSum(none, F, 1 .. 0)
    BY <2>1 DEF IsSum
  <2> QED BY <2>2
<1>2. ASSUME NEW k \in Nat, k \in S PROVE k + 1 \in S
  <2> SUFFICES ASSUME k + 1 <= n PROVE \E sigma : IsSum(sigma, F, 1 .. k + 1)
    OBVIOUS
  <2>1. PICK sigma : IsSum(sigma, F, 1 .. k)
    BY <1>2
  <2>2. F[k + 1] \in Nat /\ \A y \in 1 .. k + 1 : F[y] \in Nat
    OBVIOUS
  <2>3. 1 .. k + 1 = (1 .. k) \cup {k + 1} /\ k + 1 \notin 1 .. k
    OBVIOUS
  <2> DEFINE tau == [s \in SUBSET (1 .. k + 1) |->
                        IF k + 1 \in s THEN F[k + 1] + sigma[s \ {k + 1}] ELSE sigma[s]]
  <2>4. \A s \in SUBSET (1 .. k + 1) : /\ s \ {k + 1} \in SUBSET (1 .. k)
                                         /\ k + 1 \notin s => s \in SUBSET (1 .. k)
    BY <2>3
  <2>5. \A s \in SUBSET (1 .. k) : sigma[s] \in Nat
    BY <2>1 DEF IsSum
  <2>6. tau \in [SUBSET (1 .. k + 1) -> Nat]
    <3>1. ASSUME NEW s \in SUBSET (1 .. k + 1) PROVE tau[s] \in Nat
      <4>1. CASE k + 1 \in s
        <5>1. sigma[s \ {k + 1}] \in Nat
          BY <2>4, <2>5
        <5> QED BY <2>2, <4>1, <5>1
      <4>2. CASE k + 1 \notin s
        BY <2>4, <2>5, <4>2
      <4> QED BY <4>1, <4>2
    <3> QED BY <3>1
  <2>7. tau[{}] = 0
    BY <2>1 DEF IsSum
  <2>8. ASSUME NEW s \in SUBSET (1 .. k + 1), NEW y \in s
        PROVE  tau[s] = F[y] + tau[s \ {y}]
    <3>0. s \ {y} \in SUBSET (1 .. k + 1)
      OBVIOUS
    <3>1. CASE y = k + 1
      BY <2>4, <3>0, <3>1
    <3>2. CASE y # k + 1 /\ k + 1 \notin s
      <4>1. s \in SUBSET (1 .. k) /\ s \ {y} \in SUBSET (1 .. k) /\ k + 1 \notin s \ {y}
        BY <2>4, <3>2
      <4>2. sigma[s] = F[y] + sigma[s \ {y}]
        BY <2>1, <4>1 DEF IsSum
      <4> QED BY <3>0, <3>2, <4>1, <4>2
    <3>3. CASE y # k + 1 /\ k + 1 \in s
      <4> DEFINE r == s \ {k + 1}
      <4>1. r \in SUBSET (1 .. k) /\ y \in r /\ r \ {y} \in SUBSET (1 .. k)
        BY <2>4, <3>3
      <4>2. sigma[r] = F[y] + sigma[r \ {y}]
        BY <2>1, <4>1 DEF IsSum
      <4>3. r \ {y} = (s \ {y}) \ {k + 1} /\ k + 1 \in s \ {y}
        BY <3>3
      <4>4. tau[s] = F[k + 1] + sigma[r] /\ tau[s \ {y}] = F[k + 1] + sigma[r \ {y}]
        BY <3>0, <3>3, <4>3
      <4>5. sigma[r \ {y}] \in Nat /\ F[y] \in Nat
        BY <2>2, <2>5, <4>1
      <4> HIDE DEF r, tau
      <4> QED BY <2>2, <4>2, <4>4, <4>5
    <3> QED BY <3>1, <3>2, <3>3
  <2> HIDE DEF tau
  <2>9. IsSum(tau, F, 1 .. k + 1)
    BY <2>6, <2>7, <2>8 DEF IsSum
  <2> QED BY <2>9
<1> HIDE DEF S
<1>3. n \in S
  BY <1>1, <1>2, SetInduction
<1> QED BY <1>3 DEF S

\* There is one over every finite set.
LEMMA SumExists ==
    ASSUME NEW D, IsFiniteSet(D), NEW F \in [D -> Nat]
    PROVE  \E sigma : IsSum(sigma, F, D)
<1>1. PICK n \in Nat : ExistsBijection(1 .. n, D)
  BY FS_CardinalityType
<1>2. PICK b \in Bijection(1 .. n, D) : TRUE
  BY <1>1 DEF ExistsBijection
<1>3. /\ b \in [1 .. n -> D]
      /\ \A y \in D : \E j \in 1 .. n : b[j] = y
      /\ \A i, j \in 1 .. n : b[i] = b[j] => i = j
  BY <1>2 DEF Bijection, Injection, Surjection, IsInjective
<1> DEFINE G == [i \in 1 .. n |-> F[b[i]]]
           I(s) == {i \in 1 .. n : b[i] \in s}
<1>4. G \in [1 .. n -> Nat]
  BY <1>3
<1>5. PICK tau : IsSum(tau, G, 1 .. n)
  BY <1>4, SumUpto
<1> DEFINE sigma == [s \in SUBSET D |-> tau[I(s)]]
<1>6. sigma \in [SUBSET D -> Nat]
  BY <1>5 DEF IsSum
<1>7. sigma[{}] = 0
  BY <1>5 DEF IsSum
<1>8. ASSUME NEW s \in SUBSET D, NEW y \in s
      PROVE  sigma[s] = F[y] + sigma[s \ {y}]
  <2>1. PICK j \in 1 .. n : b[j] = y
    BY <1>3
  <2>2. I(s) \in SUBSET (1 .. n) /\ j \in I(s) /\ I(s \ {y}) = I(s) \ {j}
    BY <1>3, <2>1
  <2>3. G[j] = F[y] /\ sigma[s] = tau[I(s)] /\ sigma[s \ {y}] = tau[I(s \ {y})]
    BY <2>1
  <2> HIDE DEF I, sigma, G
  <2>4. tau[I(s)] = G[j] + tau[I(s) \ {j}]
    BY <1>5, <2>2 DEF IsSum
  <2> QED BY <2>2, <2>3, <2>4
<1> HIDE DEF sigma
<1>9. IsSum(sigma, F, D)
  BY <1>6, <1>7, <1>8 DEF IsSum
<1> QED BY <1>9

\* It depends only on the summands.
LEMMA SumUnique ==
    ASSUME NEW D, NEW F, NEW sigma, IsSum(sigma, F, D),
           NEW E, NEW G, NEW tau, IsSum(tau, G, E),
           NEW s \in SUBSET D, s \in SUBSET E, IsFiniteSet(s),
           \A y \in s : F[y] = G[y]
    PROVE  sigma[s] = tau[s]
<1> DEFINE S == {k \in Nat : \A r \in SUBSET s : Cardinality(r) = k => sigma[r] = tau[r]}
<1>0. \A r \in SUBSET s : IsFiniteSet(r) /\ Cardinality(r) \in Nat
  BY FS_Subset, FS_CardinalityType
<1>1. 0 \in S
  <2>1. \A r \in SUBSET s : Cardinality(r) = 0 => r = {}
    BY <1>0, FS_EmptySet
  <2> QED BY <2>1 DEF IsSum
<1>2. ASSUME NEW k \in Nat, k \in S PROVE k + 1 \in S
  <2> SUFFICES ASSUME NEW r \in SUBSET s, Cardinality(r) = k + 1 PROVE sigma[r] = tau[r]
    OBVIOUS
  <2>1. r # {}
    BY FS_EmptySet
  <2>2. PICK y \in r : TRUE
    BY <2>1
  <2>3. r \ {y} \in SUBSET s /\ Cardinality(r \ {y}) = k
    <3>1. Cardinality(r \ {y}) = (k + 1) - 1
      BY <1>0, FS_RemoveElement
    <3> QED BY <3>1
  <2>4. sigma[r \ {y}] = tau[r \ {y}] /\ F[y] = G[y]
    BY <1>2, <2>3
  <2>5. sigma[r] = F[y] + sigma[r \ {y}] /\ tau[r] = G[y] + tau[r \ {y}]
    BY DEF IsSum
  <2> QED BY <2>4, <2>5
<1> HIDE DEF S
<1>3. Cardinality(s) \in S
  BY <1>0, <1>1, <1>2, SetInduction
<1> QED BY <1>3 DEF S

\* it follows the recursion of MapThenSumSet.
Follows(it, F, D) ==
    it = [s \in SUBSET D |->
             IF s = {} THEN 0
             ELSE F[CHOOSE x \in s : TRUE] + it[s \ {CHOOSE x \in s : TRUE}]]

\* The sum in the order of CHOOSE is the sum in every order.
LEMMA SumChosen ==
    ASSUME NEW D, IsFiniteSet(D), NEW F, NEW sigma, IsSum(sigma, F, D),
           NEW it, Follows(it, F, D)
    PROVE  it[D] = sigma[D]
<1> DEFINE c(s) == CHOOSE x \in s : TRUE
           Bad  == {s \in SUBSET D : it[s] # sigma[s]}
           N    == {Cardinality(s) : s \in Bad}
<1>1. \A s \in SUBSET D : IsFiniteSet(s) /\ Cardinality(s) \in Nat
  BY FS_Subset, FS_CardinalityType
<1> SUFFICES ASSUME it[D] # sigma[D] PROVE FALSE
  OBVIOUS
<1>2. D \in Bad
  OBVIOUS
<1>3. N \subseteq Nat /\ N # {}
  <2>1. N \subseteq Nat
    <3>1. \A s \in Bad : Cardinality(s) \in Nat
      BY <1>1
    <3> HIDE DEF Bad
    <3> QED BY <3>1
  <2>2. Cardinality(D) \in N
    BY <1>2
  <2> HIDE DEF N
  <2> QED BY <2>1, <2>2
<1>4. PICK x \in N : \A y \in N : x <= y
  BY <1>3, LeastNat
<1>5. PICK s \in Bad : Cardinality(s) = x
  BY <1>4
<1>6. s # {}
  <2>1. it[{}] = 0 /\ sigma[{}] = 0
    BY DEF IsSum, Follows
  <2> QED BY <1>5, <2>1
<1>7. c(s) \in s
  BY <1>6
<1> DEFINE r == s \ {c(s)}
<1>8. /\ it[s] = F[c(s)] + it[r]
      /\ sigma[s] = F[c(s)] + sigma[r]
      /\ r \in SUBSET D
  BY <1>5, <1>6, <1>7 DEF IsSum, Follows
<1>9. Cardinality(r) = Cardinality(s) - 1
  BY <1>1, <1>7, FS_RemoveElement
<1>10. r \in Bad
  BY <1>5, <1>8
<1>11. Cardinality(r) \in N
  BY <1>10
<1>12. x <= Cardinality(r) /\ x \in Nat
  BY <1>3, <1>4, <1>11
<1> QED BY <1>5, <1>9, <1>12

(***************************************************************************)
(* total is the sum of F over D.                                           *)
(***************************************************************************)
TotalIs(total, F, D) == \E sigma : IsSum(sigma, F, D) /\ total = sigma[D]

\* A function that follows the recursion of MapThenSumSet exists, and any gives the total.
LEMMA TotalChosen ==
    ASSUME NEW D, IsFiniteSet(D), NEW F \in [D -> Nat]
    PROVE  /\ \E it : Follows(it, F, D)
           /\ \A it : Follows(it, F, D) => TotalIs(it[D], F, D)
<1>1. PICK sigma : IsSum(sigma, F, D)
  BY SumExists
<1> DEFINE c(s) == CHOOSE x \in s : TRUE
           Body(it, s) == IF s = {} THEN 0 ELSE F[c(s)] + it[s \ {c(s)}]
<1>2. sigma = [s \in SUBSET D |-> Body(sigma, s)]
  <2>1. sigma = [s \in SUBSET D |-> sigma[s]]
    BY <1>1 DEF IsSum
  <2>2. ASSUME NEW s \in SUBSET D PROVE sigma[s] = Body(sigma, s)
    <3>1. CASE s = {}
      BY <1>1, <3>1 DEF IsSum
    <3>2. CASE s # {}
      <4>1. c(s) \in s
        BY <3>2
      <4> HIDE DEF c
      <4>2. sigma[s] = F[c(s)] + sigma[s \ {c(s)}]
        BY <1>1, <4>1 DEF IsSum
      <4> QED BY <3>2, <4>2
    <3> QED BY <3>1, <3>2
  <2> HIDE DEF Body
  <2> QED BY <2>1, <2>2
<1>3. \A it : Follows(it, F, D) => it[D] = sigma[D]
  BY <1>1, SumChosen
<1>4. Follows(sigma, F, D)
  BY <1>2 DEF Follows
<1> QED BY <1>1, <1>3, <1>4 DEF TotalIs

LEMMA TotalNat ==
    ASSUME NEW D, NEW F, NEW a, TotalIs(a, F, D)
    PROVE  a \in Nat /\ (D = {} => a = 0)
<1>1. PICK sigma : IsSum(sigma, F, D) /\ a = sigma[D]
  BY DEF TotalIs
<1> QED BY <1>1 DEF IsSum

\* The lengths of the entries D of ws, and what they add up to.
lens(ws, D) == [i \in D |-> ws[i].len]

sum_len(ws, D) == MapThenSumSet(LAMBDA i : ws[i].len, D)

LEMMA LensTotal ==
    ASSUME NEW ws, NEW D, IsFiniteSet(D), \A i \in D : ws[i].len \in Nat
    PROVE  TotalIs(sum_len(ws, D), lens(ws, D), D)
<1> DEFINE F == lens(ws, D)
           c(s) == CHOOSE x \in s : TRUE
           Rec(it) == it = [s \in SUBSET D |->
                               IF s = {} THEN 0 ELSE ws[c(s)].len + it[s \ {c(s)}]]
           it == CHOOSE g : Rec(g)
<1>1. sum_len(ws, D) = it[D]
  BY Zenon DEF sum_len, MapThenSumSet, MapThenFoldSet
<1>2. F \in [D -> Nat]
  BY DEF lens
<1>3. \A g : Rec(g) <=> Follows(g, F, D)
  <2> SUFFICES ASSUME NEW g PROVE Rec(g) <=> Follows(g, F, D)
    OBVIOUS
  <2>1. \A s \in SUBSET D : s # {} => c(s) \in D
    OBVIOUS
  <2>2. \A s \in SUBSET D : s # {} => ws[c(s)].len = F[c(s)]
    BY <2>1 DEF lens
  <2>3. [s \in SUBSET D |-> IF s = {} THEN 0 ELSE ws[c(s)].len + g[s \ {c(s)}]]
      = [s \in SUBSET D |-> IF s = {} THEN 0 ELSE F[c(s)] + g[s \ {c(s)}]]
    <3> HIDE DEF F, c
    <3> QED BY <2>2
  <2> QED BY <2>3 DEF Follows
<1>4. /\ \E g : Follows(g, F, D)
      /\ \A g : Follows(g, F, D) => TotalIs(g[D], F, D)
  <2> HIDE DEF F
  <2> QED BY <1>2, TotalChosen
<1>5. Follows(it, F, D)
  <2> HIDE DEF Rec, F
  <2>1. \E g : Rec(g)
    BY <1>3, <1>4
  <2>2. Rec(it)
    BY <2>1
  <2> QED BY <1>3, <2>2
<1> HIDE DEF it, F
<1>6. TotalIs(it[D], F, D)
  BY <1>4, <1>5
<1> QED BY <1>1, <1>6 DEF F

\* One summand changes.
LEMMA TotalReplace ==
    ASSUME NEW D, IsFiniteSet(D), NEW F, NEW a, TotalIs(a, F, D), NEW i \in D, F[i] \in Nat
    PROVE  \E rest \in Nat :
              /\ a = F[i] + rest
              /\ \A G, b : TotalIs(b, G, D) /\ (\A j \in D : j # i => G[j] = F[j])
                           => b = G[i] + rest
<1>1. PICK sigma : IsSum(sigma, F, D) /\ a = sigma[D]
  BY DEF TotalIs
<1> DEFINE s == D \ {i}
<1>2. /\ D \in SUBSET D /\ s \in SUBSET D
      /\ \A y \in s : y \in D /\ y # i
  OBVIOUS
<1>3. sigma[s] \in Nat /\ a = F[i] + sigma[s]
  BY <1>1, <1>2 DEF IsSum
<1>4. ASSUME NEW G, NEW b, TotalIs(b, G, D), \A j \in D : j # i => G[j] = F[j]
      PROVE  b = G[i] + sigma[s]
  <2>1. PICK tau : IsSum(tau, G, D) /\ b = tau[D]
    BY <1>4 DEF TotalIs
  <2>2. b = G[i] + tau[s]
    BY <1>2, <2>1 DEF IsSum
  <2> HIDE DEF s
  <2>3. \A y \in s : F[y] = G[y]
    BY <1>2, <1>4
  <2>4. IsFiniteSet(s)
    BY <1>2, FS_Subset
  <2>5. sigma[s] = tau[s]
    BY <1>1, <1>2, <2>1, <2>3, <2>4, SumUnique
  <2> QED BY <2>2, <2>5
<1> HIDE DEF s
<1> QED BY <1>3, <1>4

\* One summand more.
LEMMA TotalAdd ==
    ASSUME NEW D, IsFiniteSet(D), NEW F, NEW a, TotalIs(a, F, D),
           NEW y, y \notin D, NEW G, NEW b, TotalIs(b, G, D \cup {y}),
           \A j \in D : G[j] = F[j]
    PROVE  b = G[y] + a
<1>1. PICK sigma : IsSum(sigma, F, D) /\ a = sigma[D]
  BY DEF TotalIs
<1>2. PICK E : E = D \cup {y}
  OBVIOUS
<1>3. PICK tau : IsSum(tau, G, E) /\ b = tau[E]
  BY <1>2 DEF TotalIs
<1>4. y \in E /\ E \ {y} = D /\ D \in SUBSET D /\ D \in SUBSET E
  BY <1>2
<1>5. b = G[y] + tau[D]
  BY <1>3, <1>4 DEF IsSum
<1>6. sigma[D] = tau[D]
  BY <1>1, <1>3, <1>4, SumUnique
<1> QED BY <1>1, <1>5, <1>6

LEMMA TotalAppend ==
    ASSUME NEW n \in Nat, NEW F, NEW a, TotalIs(a, F, 1 .. n),
           NEW G, NEW b, TotalIs(b, G, 1 .. n + 1), \A j \in 1 .. n : G[j] = F[j]
    PROVE  b = G[n + 1] + a
<1>1. PICK D, y : D = 1 .. n /\ y = n + 1
  OBVIOUS
<1>2. y \notin D /\ 1 .. n + 1 = D \cup {y}
  BY <1>1
<1>3. IsFiniteSet(D)
  BY <1>1, IndicesFinite
<1>4. TotalIs(a, F, D) /\ TotalIs(b, G, D \cup {y}) /\ \A j \in D : G[j] = F[j]
  BY <1>1, <1>2
<1>5. b = G[y] + a
  BY ONLY <1>2, <1>3, <1>4, TotalAdd
<1> QED BY <1>1, <1>5

\* The same summands under other indices, and zeroes.
LEMMA TotalMoved ==
    ASSUME NEW D, IsFiniteSet(D), NEW F, NEW a, TotalIs(a, F, D),
           NEW E, IsFiniteSet(E), NEW G, NEW b, TotalIs(b, G, E),
           NEW h \in [E -> D], \A i, j \in E : h[i] = h[j] => i = j,
           \A i \in E : G[i] = F[h[i]],
           \A y \in D : F[y] = 0 \/ \E i \in E : y = h[i]
    PROVE  a = b
<1>1. PICK sigma, tau : /\ IsSum(sigma, F, D) /\ a = sigma[D]
                        /\ IsSum(tau, G, E) /\ b = tau[E]
  BY DEF TotalIs
<1> DEFINE img(s) == {h[i] : i \in s}
           I      == img(E)
           rho    == [s \in SUBSET E |-> sigma[img(s)]]
           lam    == [s \in SUBSET D |-> sigma[s \cap I]]
<1>2. \A s \in SUBSET E : img(s) \in SUBSET D
  OBVIOUS
<1>3. IsSum(rho, G, E)
  <2>1. rho \in [SUBSET E -> Nat] /\ rho[{}] = 0
    <3>1. img({}) = {}
      OBVIOUS
    <3> QED BY <1>1, <1>2, <3>1 DEF IsSum
  <2>2. ASSUME NEW s \in SUBSET E, NEW y \in s PROVE rho[s] = G[y] + rho[s \ {y}]
    <3>1. h[y] \in img(s) /\ img(s) \ {h[y]} = img(s \ {y}) /\ img(s) \in SUBSET D
      OBVIOUS
    <3>2. rho[s] = sigma[img(s)] /\ rho[s \ {y}] = sigma[img(s \ {y})] /\ G[y] = F[h[y]]
      OBVIOUS
    <3> HIDE DEF rho, img
    <3>3. sigma[img(s)] = F[h[y]] + sigma[img(s) \ {h[y]}]
      BY <1>1, <3>1 DEF IsSum
    <3> QED BY <3>1, <3>2, <3>3
  <2> HIDE DEF rho
  <2> QED BY <2>1, <2>2 DEF IsSum
<1>4. b = sigma[I]
  <2>1. rho[E] = sigma[I] /\ E \in SUBSET E
    OBVIOUS
  <2> HIDE DEF rho, I
  <2>2. tau[E] = rho[E]
    BY <1>1, <1>3, <2>1, SumUnique
  <2> QED BY <1>1, <2>1, <2>2
<1>5. I \in SUBSET D /\ \A y \in D : y \notin I => F[y] = 0
  OBVIOUS
<1>6. IsSum(lam, F, D)
  <2> HIDE DEF I
  <2>1. lam \in [SUBSET D -> Nat] /\ lam[{}] = 0
    <3>1. {} \cap I = {} /\ \A s \in SUBSET D : s \cap I \in SUBSET D
      OBVIOUS
    <3> QED BY <1>1, <3>1 DEF IsSum
  <2>2. ASSUME NEW s \in SUBSET D, NEW y \in s PROVE lam[s] = F[y] + lam[s \ {y}]
    <3>1. lam[s] = sigma[s \cap I] /\ lam[s \ {y}] = sigma[(s \ {y}) \cap I]
      OBVIOUS
    <3>2. s \cap I \in SUBSET D /\ sigma[s \cap I] \in Nat
      BY <1>1 DEF IsSum
    <3> HIDE DEF lam
    <3>3. CASE y \in I
      <4>1. y \in s \cap I /\ (s \ {y}) \cap I = (s \cap I) \ {y}
        BY <3>3
      <4>2. sigma[s \cap I] = F[y] + sigma[(s \cap I) \ {y}]
        BY <1>1, <3>2, <4>1 DEF IsSum
      <4> QED BY <3>1, <4>1, <4>2
    <3>4. CASE y \notin I
      <4>1. (s \ {y}) \cap I = s \cap I /\ F[y] = 0
        BY <1>5, <3>4
      <4> QED BY <3>1, <3>2, <4>1
    <3> QED BY <3>3, <3>4
  <2> HIDE DEF lam
  <2> QED BY <2>1, <2>2 DEF IsSum
<1>7. a = sigma[I]
  <2>1. lam[D] = sigma[I] /\ D \in SUBSET D
    <3>1. D \cap I = I
      BY <1>5
    <3> QED BY <3>1
  <2> HIDE DEF lam, I
  <2>2. sigma[D] = lam[D]
    BY <1>1, <1>6, <2>1, SumUnique
  <2> QED BY <1>1, <2>1, <2>2
<1> QED BY <1>4, <1>7

-----------------------------------------------------------------------------
(***************************************************************************)
(* Sorting by rank.  R is a strict total order of the finite set S.        *)
(***************************************************************************)
Orders(R, S) ==
    /\ \A x \in S : <<x, x>> \notin R
    /\ \A x, y, z \in S : <<x, y>> \in R /\ <<y, z>> \in R => <<x, z>> \in R
    /\ \A x, y \in S : x = y \/ <<x, y>> \in R \/ <<y, x>> \in R

below(R, S, x) == {y \in S : <<y, x>> \in R}

\* s lists S in the order R.
Enumerates(s, S, R) ==
    /\ s \in [1 .. Cardinality(S) -> S]
    /\ \A x \in S : \E k \in 1 .. Cardinality(S) : s[k] = x
    /\ \A i, j \in 1 .. Cardinality(S) : i < j <=> <<s[i], s[j]>> \in R

\* Ranks are different, and there are as many as elements.
LEMMA Ranks ==
    ASSUME NEW S, IsFiniteSet(S), NEW R, Orders(R, S), NEW n, n = Cardinality(S)
    PROVE  /\ n \in Nat
           /\ \A x \in S : Cardinality(below(R, S, x)) \in 0 .. n - 1
           /\ \A x, y \in S : <<x, y>> \in R => Cardinality(below(R, S, x)) < Cardinality(below(R, S, y))
           /\ \A k \in 0 .. n - 1 : \E x \in S : Cardinality(below(R, S, x)) = k
<1>1. n \in Nat
  BY FS_CardinalityType
<1> DEFINE b(x) == below(R, S, x)
           c(x) == Cardinality(b(x))
<1>2. ASSUME NEW x \in S PROVE IsFiniteSet(b(x)) /\ c(x) \in Nat /\ c(x) < n
  <2>1. b(x) \in SUBSET S /\ x \notin b(x)
    BY DEF Orders, below
  <2>2. IsFiniteSet(b(x)) /\ c(x) <= n /\ (n = c(x) => S = b(x))
    <3> HIDE DEF b
    <3> QED BY <2>1, FS_Subset
  <2>3. c(x) \in Nat
    <3> HIDE DEF b
    <3> QED BY <2>2, FS_CardinalityType
  <2>4. n # c(x)
    BY <2>1, <2>2
  <2> HIDE DEF c
  <2> QED BY <1>1, <2>2, <2>3, <2>4
<1>3. ASSUME NEW x \in S, NEW y \in S, <<x, y>> \in R PROVE c(x) < c(y)
  <2>1. b(x) \in SUBSET b(y) /\ x \in b(y) /\ x \notin b(x)
    BY <1>3 DEF Orders, below
  <2>2. c(x) <= c(y) /\ (c(y) = c(x) => b(y) = b(x))
    <3>1. IsFiniteSet(b(y))
      BY <1>2
    <3> HIDE DEF b
    <3> QED BY <2>1, <3>1, FS_Subset
  <2>3. c(x) # c(y)
    <3> HIDE DEF b
    <3> QED BY <2>1, <2>2
  <2>4. c(x) \in Nat /\ c(y) \in Nat
    BY <1>2
  <2> HIDE DEF c
  <2> QED BY <2>2, <2>3, <2>4
<1> DEFINE f == [x \in S |-> c(x)]
           T == 0 .. n - 1
<1>4. \A x \in S : c(x) \in T
  <2> HIDE DEF c
  <2> QED BY <1>1, <1>2
<1>5. \A x, y \in S : c(x) = c(y) => x = y
  <2> SUFFICES ASSUME NEW x \in S, NEW y \in S, c(x) = c(y), x # y PROVE FALSE
    OBVIOUS
  <2>1. <<x, y>> \in R \/ <<y, x>> \in R
    BY DEF Orders
  <2>2. c(x) \in Nat /\ c(y) \in Nat /\ (c(x) < c(y) \/ c(y) < c(x))
    BY <1>2, <1>3, <2>1
  <2> HIDE DEF c
  <2> QED BY <2>2
<1>6. IsFiniteSet(T) /\ Cardinality(T) = n
  <2>0. PICK m \in Int : m = n - 1
    BY <1>1
  <2>1. /\ IsFiniteSet(0 .. n - 1)
        /\ Cardinality(0 .. n - 1) = IF 0 > n - 1 THEN 0 ELSE (n - 1) - 0 + 1
    <3>1. 0 \in Int
      OBVIOUS
    <3>2. IsFiniteSet(0 .. m) /\ Cardinality(0 .. m) = IF 0 > m THEN 0 ELSE m - 0 + 1
      BY ONLY <3>1, m \in Int, FS_Interval
    <3> QED BY <2>0, <3>2
  <2>2. (IF 0 > n - 1 THEN 0 ELSE (n - 1) - 0 + 1) = n
    BY <1>1
  <2> QED BY <2>1, <2>2
<1>7. f \in Injection(S, T)
  <2>1. f \in [S -> T]
    <3> HIDE DEF c, T
    <3> QED BY <1>4
  <2>2. \A x, y \in S : f[x] = f[y] => x = y
    <3> HIDE DEF c
    <3> QED BY <1>5
  <2> HIDE DEF f, T
  <2> QED BY <2>1, <2>2 DEF Injection, IsInjective
<1>8. f \in Surjection(S, T)
  <2> HIDE DEF f, T
  <2> QED BY <1>6, <1>7, FS_Injection
<1>9. \A k \in T : \E x \in S : f[x] = k
  <2> HIDE DEF f, T
  <2> QED BY <1>8 DEF Surjection
<1>10. \A x \in S : f[x] = c(x)
  <2> HIDE DEF c
  <2> QED OBVIOUS
<1> QED BY <1>1, <1>3, <1>4, <1>9, <1>10

\* The sequence in which every element stands behind as many as are below it.
LEMMA SortedByRank ==
    ASSUME NEW S, IsFiniteSet(S), NEW R, Orders(R, S), NEW s,
           s = [k \in 1 .. Cardinality(S) |->
                   CHOOSE x \in S : Cardinality(below(R, S, x)) = k - 1]
    PROVE  Enumerates(s, S, R)
<1> DEFINE n == Cardinality(S)
           c(x) == Cardinality(below(R, S, x))
<1>1. /\ n \in Nat
      /\ \A x \in S : c(x) \in 0 .. n - 1
      /\ \A x, y \in S : <<x, y>> \in R => c(x) < c(y)
      /\ \A k \in 0 .. n - 1 : \E x \in S : c(x) = k
  BY Ranks
<1> HIDE DEF n, c
<1>2. ASSUME NEW k \in 1 .. n PROVE s[k] \in S /\ c(s[k]) = k - 1
  <2>1. k - 1 \in 0 .. n - 1
    BY <1>1
  <2>2. \E x \in S : c(x) = k - 1
    BY <1>1, <2>1
  <2>3. s[k] = CHOOSE x \in S : c(x) = k - 1
    BY DEF n, c
  <2> QED BY <2>2, <2>3
<1>3. s \in [1 .. n -> S]
  <2>1. s = [k \in 1 .. n |-> s[k]]
    BY DEF n
  <2> QED BY <1>2, <2>1
<1>4. ASSUME NEW x \in S PROVE \E k \in 1 .. n : s[k] = x
  <2>1. PICK d \in 0 .. n - 1 : d = c(x)
    BY <1>1
  <2>2. d + 1 \in 1 .. n /\ (d + 1) - 1 = d
    BY <1>1
  <2>3. s[d + 1] \in S /\ c(s[d + 1]) = d
    BY <1>2, <2>2
  <2>4. s[d + 1] = x
    <3> SUFFICES ASSUME s[d + 1] # x PROVE FALSE
      OBVIOUS
    <3>1. <<s[d + 1], x>> \in R \/ <<x, s[d + 1]>> \in R
      BY <2>3 DEF Orders
    <3>2. d < d
      BY <1>1, <2>1, <2>3, <3>1
    <3> QED BY <3>2
  <2> QED BY <2>2, <2>4
<1>5. ASSUME NEW i \in 1 .. n, NEW j \in 1 .. n PROVE i < j <=> <<s[i], s[j]>> \in R
  <2>1. s[i] \in S /\ s[j] \in S /\ c(s[i]) = i - 1 /\ c(s[j]) = j - 1
    BY <1>2
  <2>2. <<s[i], s[j]>> \in R => i - 1 < j - 1
    BY <1>1, <2>1
  <2>3. <<s[j], s[i]>> \in R => j - 1 < i - 1
    BY <1>1, <2>1
  <2>4. s[i] = s[j] => i - 1 = j - 1
    BY <2>1
  <2>5. s[i] = s[j] \/ <<s[i], s[j]>> \in R \/ <<s[j], s[i]>> \in R
    BY <2>1 DEF Orders
  <2> QED BY <1>1, <2>2, <2>3, <2>4, <2>5
<1> QED BY <1>3, <1>4, <1>5 DEF Enumerates, n
=============================================================================
