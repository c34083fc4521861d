------------------------ MODULE CollectionTheorems ------------------------
(***************************************************************************)
(* What the operators of the community modules that the components use on  *)
(* collections compute, for every finite set: SetToSeqs, an order in which *)
(* the elements of a set are handled, and MapThenSumSet, a sum that does   *)
(* not depend on such an order.                                            *)
(*                                                                         *)
(* MapThenSumSet folds with a recursive function over the subsets, whose   *)
(* existence and uniqueness come first.  Every induction is on a smallest  *)
(* set that would refute the statement (SmallestSet): there is none.       *)
(***************************************************************************)
EXTENDS Integers, Sequences, FiniteSets, SequencesExt, FiniteSetTheorems,
        FunctionTheorems, WellFoundedInduction, TLAPS

(***************************************************************************)
(* Orders                                                                  *)
(***************************************************************************)
Elements(order) == {order[i] : i \in DOMAIN order}
Distinct(order) == \A i, j \in DOMAIN order : i # j => order[i] # order[j]

\* An order of a set has each of its elements, once.
LEMMA EachOnce ==
  ASSUME NEW P, IsFiniteSet(P), NEW order \in SetToSeqs(P)
  PROVE  /\ order \in Seq(P) /\ Elements(order) = P /\ Distinct(order)
         /\ order = <<>> => P = {}
<1> DEFINE D == 1 .. Cardinality(P)
<1>1. Cardinality(P) \in Nat
  BY FS_CardinalityType
<1>2. order \in [D -> P] /\ \A i, j \in D : i # j => order[i] # order[j]
  BY DEF SetToSeqs
<1>3. IsFiniteSet(D) /\ Cardinality(D) = Cardinality(P)
  <2>1. 1 \in Int /\ Cardinality(P) \in Int
    BY <1>1
  <2>2. Cardinality(D) = IF 1 > Cardinality(P) THEN 0 ELSE Cardinality(P) - 1 + 1
    BY <2>1, FS_Interval
  <2> QED
    BY <1>1, <2>1, <2>2, FS_Interval
<1>4. order \in Injection(D, P)
  BY <1>2, Fun_IsInj
<1>5. order \in Surjection(D, P)
  BY <1>3, <1>4, FS_Injection
<1>6. \A p \in P : \E i \in D : order[i] = p
  BY <1>5 DEF Surjection
<1>7. Elements(order) = P
  BY <1>2, <1>6 DEF Elements
<1>8. Distinct(order)
  BY <1>2 DEF Distinct
<1>9. ASSUME order = <<>>
      PROVE  P = {}
  <2>1. DOMAIN order = {}
    BY <1>9
  <2>2. DOMAIN order = D
    BY <1>2
  <2> QED
    BY <1>6, <2>1, <2>2
<1>10. order \in Seq(P)
  BY <1>1, <1>2
<1> QED
  BY <1>7, <1>8, <1>9, <1>10

\* Without its first element, an order has the others, once.
LEMMA WithoutFirst ==
  ASSUME NEW P, NEW order \in Seq(P), order # <<>>, Distinct(order)
  PROVE  /\ Tail(order) \in Seq(P) /\ Distinct(Tail(order))
         /\ Head(order) \in Elements(order)
         /\ Elements(Tail(order)) = Elements(order) \ {Head(order)}
<1>1. /\ Tail(order) \in Seq(P) /\ Len(order) \in Nat /\ Len(order) > 0
      /\ Head(order) = order[1] /\ DOMAIN order = 1 .. Len(order)
      /\ DOMAIN Tail(order) = 1 .. Len(order) - 1
      /\ \A i \in 1 .. Len(order) - 1 : Tail(order)[i] = order[i + 1]
  OBVIOUS
<1>2. Distinct(Tail(order))
  BY <1>1 DEF Distinct
<1>3. ASSUME NEW x \in Elements(Tail(order))
      PROVE  x \in Elements(order) /\ x # Head(order)
  BY <1>1 DEF Elements, Distinct
<1>4. ASSUME NEW x \in Elements(order), x # Head(order)
      PROVE  x \in Elements(Tail(order))
  <2>1. PICK i \in 1 .. Len(order) : x = order[i]
    BY <1>1, <1>4 DEF Elements
  <2>2. i # 1
    BY <1>1, <1>4, <2>1
  <2>3. i - 1 \in 1 .. Len(order) - 1 /\ Tail(order)[i - 1] = order[(i - 1) + 1]
    BY <1>1, <2>1, <2>2
  <2>4. (i - 1) + 1 = i
    BY <2>1
  <2>5. Tail(order)[i - 1] = x
    BY <2>1, <2>3, <2>4
  <2> QED
    BY <1>1, <2>3, <2>5 DEF Elements
<1>5. Head(order) \in Elements(order)
  BY <1>1 DEF Elements
<1> QED
  BY <1>1, <1>2, <1>3, <1>4, <1>5

----------------------------------------------------------------------------
(***************************************************************************)
(* Sums                                                                    *)
(***************************************************************************)
Chosen(s) == CHOOSE x \in s : TRUE

\* The weights as a function, so that lemmas can speak of all of them.
Total(w, S) == MapThenSumSet(LAMBDA x : w[x], S)

IsSum(f, w, S) ==
  f = [s \in SUBSET S |->
         IF s = {} THEN 0 ELSE w[Chosen(s)] + f[s \ {Chosen(s)}]]

\* The element the fold takes next.
LEMMA ChosenIsElement == ASSUME NEW s, s # {} PROVE Chosen(s) \in s
  BY DEF Chosen

\* A nonempty collection of finite sets has a member with no smaller one.
LEMMA SmallestSet ==
  ASSUME NEW S, IsFiniteSet(S), NEW C \in SUBSET (SUBSET S), C # {}
  PROVE  \E T \in C : \A A \in C : ~(A \subseteq T /\ A # T)
<1>1. IsWellFoundedOn(StrictSubsetOrdering(S), SUBSET S)
  BY FS_StrictSubsetOrderingWellFounded, FS_FiniteSubsetsOfFinite
<1>2. PICK T \in C : \A A \in C : ~(<<A, T>> \in StrictSubsetOrdering(S))
  BY <1>1, WFMin
<1> QED
  BY <1>2 DEF StrictSubsetOrdering

\* A nonempty set of numbers up to n has a least one.
LEMMA LeastNumber ==
  ASSUME NEW n \in Nat, NEW B \in SUBSET (1 .. n), B # {}
  PROVE  \E k \in B : \A j \in B : k <= j
<1> DEFINE C == {1 .. k : k \in B}
<1>1. IsFiniteSet(1 .. n)
  BY FS_Interval
<1>2. C \in SUBSET (SUBSET (1 .. n)) /\ C # {}
  <2>1. \A k \in B : 1 .. k \subseteq 1 .. n
    OBVIOUS
  <2>2. \A A \in C : A \subseteq 1 .. n
    BY <2>1, Zenon
  <2> QED
    BY <2>2, Zenon
<1> HIDE DEF C
<1>3. PICK T \in C : \A A \in C : ~(A \subseteq T /\ A # T)
  <2> DEFINE N == 1 .. n
  <2>1. IsFiniteSet(N) /\ C \in SUBSET (SUBSET N) /\ C # {}
    BY <1>1, <1>2
  <2> HIDE DEF N
  <2> QED
    BY <2>1, SmallestSet
<1>4. PICK k \in B : T = 1 .. k
  BY <1>3 DEF C
<1>5. ASSUME NEW j \in B PROVE k <= j
  <2>1. j \in 1 .. n /\ k \in 1 .. n /\ 1 .. j \in C
    BY <1>5 DEF C
  <2>2. SUFFICES ASSUME j < k PROVE FALSE
    BY <2>1
  <2>3. 1 .. j \subseteq 1 .. k /\ k \in 1 .. k /\ k \notin 1 .. j
    BY <2>1, <2>2
  <2> QED
    BY <1>3, <1>4, <2>1, <2>3
<1> QED
  BY <1>5

\* Different numbers up to n, as many and in their order, are 1, 2, ..., n.
LEMMA OrderedNumbers ==
  ASSUME NEW n \in Nat, NEW p \in [1 .. n -> 1 .. n],
         \A i, j \in 1 .. n : i # j => p[i] # p[j],
         \A i, j \in 1 .. n : i < j => p[i] <= p[j]
  PROVE  \A k \in 1 .. n : p[k] = k
<1> DEFINE D == 1 .. n
           B == {k \in D : p[k] # k}
<1>1. SUFFICES ASSUME B # {} PROVE FALSE
  OBVIOUS
<1>2. PICK k \in B : \A j \in B : k <= j
  BY <1>1, LeastNumber
<1>3. \A i \in D : i < k => p[i] = i
  BY <1>2
<1>4. PICK m \in D : p[m] = k
  <2>1. IsFiniteSet(D)
    BY FS_Interval
  <2>2. p \in Injection(D, D)
    BY Fun_IsInj
  <2>3. p \in Surjection(D, D)
    BY <2>1, <2>2, FS_Injection
  <2> QED
    BY <2>3 DEF Surjection
<1>5. k < m
  BY <1>2, <1>3, <1>4
<1>6. p[k] \in D /\ p[k] < k
  BY <1>2, <1>4, <1>5
<1>7. p[p[k]] = p[k]
  BY <1>3, <1>6
<1> QED
  BY <1>2, <1>6, <1>7

\* Functions that satisfy the recursion agree on a set both are defined for.
LEMMA RecursionAgrees ==
  ASSUME NEW w, NEW S, IsFiniteSet(S), NEW A \in SUBSET S, NEW f, NEW g,
         IsSum(f, w, S), IsSum(g, w, A)
  PROVE  f[A] = g[A]
<1> DEFINE C == {s \in SUBSET A : f[s] # g[s]}
<1>1. ASSUME C # {} PROVE FALSE
  <2>1. IsFiniteSet(A)
    BY FS_Subset
  <2> HIDE DEF C
  <2>2. PICK T \in C : \A B \in C : ~(B \subseteq T /\ B # T)
    <3>1. C \in SUBSET (SUBSET A)
      BY DEF C
    <3> QED
      BY <1>1, <2>1, <3>1, SmallestSet
  <2> USE DEF C
  <2>3. T # {}
    BY <2>2 DEF IsSum
  <2>4. Chosen(T) \in T
    BY <2>3, ChosenIsElement
  <2>5. T \ {Chosen(T)} \in SUBSET A /\ T \ {Chosen(T)} # T /\ T \in SUBSET S
    BY <2>4
  <2>6. f[T \ {Chosen(T)}] = g[T \ {Chosen(T)}]
    BY <2>2, <2>5
  <2>7. f[T] = w[Chosen(T)] + f[T \ {Chosen(T)}]
    BY <2>3, <2>5 DEF IsSum
  <2>8. g[T] = w[Chosen(T)] + g[T \ {Chosen(T)}]
    BY <2>3, <2>5 DEF IsSum
  <2> QED
    BY <2>2, <2>6, <2>7, <2>8
<1> QED
  BY <1>1

\* There is a function that satisfies the recursion.
LEMMA RecursionExists ==
  ASSUME NEW w, NEW S, IsFiniteSet(S)
  PROVE  \E f : IsSum(f, w, S)
<1> DEFINE C == {A \in SUBSET S : ~ \E f : IsSum(f, w, A)}
<1>1. ASSUME C # {} PROVE FALSE
  <2> HIDE DEF C
  <2>1. PICK T \in C : \A B \in C : ~(B \subseteq T /\ B # T)
    <3>1. C \in SUBSET (SUBSET S)
      BY DEF C
    <3> QED
      BY <1>1, <3>1, SmallestSet
  <2> USE DEF C
  <2> DEFINE F(A) == CHOOSE f : IsSum(f, w, A)
             Rest(A) == A \ {Chosen(A)}
             h == [A \in SUBSET T |-> IF A = {} THEN 0 ELSE w[Chosen(A)] + F(Rest(A))[Rest(A)]]
  <2>2. ASSUME NEW A \in SUBSET T, A # T PROVE IsSum(F(A), w, A)
    <3>1. A \notin C /\ A \in SUBSET S
      BY <2>1, <2>2
    <3>2. \E f : IsSum(f, w, A)
      BY <3>1
    <3> HIDE DEF C
    <3> QED
      BY <3>2
  <2>3. ASSUME NEW A \in SUBSET T, A # T PROVE h[A] = F(A)[A]
    <3>1. CASE A = {}
      <4>1. IsSum(F(A), w, A)
        BY <2>2, <2>3
      <4> HIDE DEF F
      <4>2. F(A)[A] = 0
        BY <4>1, <3>1 DEF IsSum
      <4> QED
        BY <4>2, <3>1
    <3>2. CASE A # {}
      <4>1. Chosen(A) \in A
        BY <3>2, ChosenIsElement
      <4>2. Rest(A) \in SUBSET A /\ Rest(A) # T /\ IsFiniteSet(A)
        BY <4>1, <2>1, FS_Subset
      <4>3. IsSum(F(A), w, A) /\ IsSum(F(Rest(A)), w, Rest(A))
        BY <2>2, <2>3, <4>2
      <4>4. F(A)[Rest(A)] = F(Rest(A))[Rest(A)]
        <5> HIDE DEF F, Rest
        <5> QED
          BY <4>2, <4>3, RecursionAgrees
      <4>5. F(A)[A] = w[Chosen(A)] + F(A)[Rest(A)]
        <5>1. A \in SUBSET A OBVIOUS
        <5>2. F(A) = [s \in SUBSET A |-> IF s = {} THEN 0 ELSE w[Chosen(s)] + F(A)[Rest(s)]]
          BY <4>3 DEF IsSum
        <5> HIDE DEF F, Rest
        <5> QED
          BY <5>1, <5>2, <3>2
      <4> QED
        BY <3>2, <4>4, <4>5
    <3> QED
      BY <3>1, <3>2
  <2>4. ASSUME NEW A \in SUBSET T, A # {} PROVE F(Rest(A))[Rest(A)] = h[Rest(A)]
    <3>1. Chosen(A) \in A
      BY <2>4, ChosenIsElement
    <3>2. Rest(A) \in SUBSET T /\ Rest(A) # T
      BY <3>1
    <3> HIDE DEF h, F, Rest
    <3> QED
      BY <3>2, <2>3
  <2>5. IsSum(h, w, T)
    <3>1. h = [A \in SUBSET T |-> IF A = {} THEN 0 ELSE w[Chosen(A)] + h[Rest(A)]]
      <4>1. \A A \in SUBSET T : (IF A = {} THEN 0 ELSE w[Chosen(A)] + F(Rest(A))[Rest(A)])
                            = IF A = {} THEN 0 ELSE w[Chosen(A)] + h[Rest(A)]
        <5> HIDE DEF h, F, Rest
        <5> QED
          BY <2>4
      <4> HIDE DEF F, Rest
      <4> QED
        BY <4>1, Zenon
    <3> HIDE DEF h
    <3> QED
      BY <3>1 DEF IsSum
  <2> QED
    BY <2>1, <2>5
<1> QED
  BY <1>1

\* The sum is the value of such a function.
LEMMA TotalIsSum ==
  ASSUME NEW w, NEW S, IsFiniteSet(S)
  PROVE  \E f : IsSum(f, w, S) /\ Total(w, S) = f[S]
<1>1. Total(w, S) = (CHOOSE f : IsSum(f, w, S))[S]
  BY DEF Total, MapThenSumSet, MapThenFoldSet, IsSum, Chosen
<1> QED
  BY <1>1, RecursionExists

\* Nothing sums to zero.
LEMMA TotalEmpty == ASSUME NEW w PROVE Total(w, {}) = 0
<1>1. IsFiniteSet({}) BY FS_EmptySet
<1> QED
  BY <1>1, TotalIsSum DEF IsSum

\* The fold takes one element, and sums the rest.
LEMMA TotalChosen ==
  ASSUME NEW w, NEW S, IsFiniteSet(S), S # {}
  PROVE  Chosen(S) \in S /\ Total(w, S) = w[Chosen(S)] + Total(w, S \ {Chosen(S)})
<1> DEFINE R == S \ {Chosen(S)}
<1>1. Chosen(S) \in S
  BY ChosenIsElement
<1>2. R \in SUBSET S /\ IsFiniteSet(R)
  BY FS_Subset
<1>3. PICK f : IsSum(f, w, S) /\ Total(w, S) = f[S]
  BY TotalIsSum
<1>4. PICK g : IsSum(g, w, R) /\ Total(w, R) = g[R]
  BY <1>2, TotalIsSum
<1>5. f[R] = g[R]
  BY <1>2, <1>3, <1>4, RecursionAgrees
<1>6. f[S] = w[Chosen(S)] + f[R]
  BY <1>3 DEF IsSum
<1> QED
  BY <1>1, <1>3, <1>4, <1>5, <1>6

\* Any element can be taken first: a sum is a weight and the sum of the rest.
LEMMA TotalRemove ==
  ASSUME NEW S, IsFiniteSet(S), NEW w, \A x \in S : w[x] \in Int
  PROVE  /\ Total(w, S) \in Int
         /\ \A x \in S : Total(w, S) = w[x] + Total(w, S \ {x})
<1> DEFINE Good(T) == /\ Total(w, T) \in Int
                      /\ \A x \in T : Total(w, T) = w[x] + Total(w, T \ {x})
           C == {T \in SUBSET S : ~Good(T)}
<1>1. ASSUME C # {} PROVE FALSE
  <2> HIDE DEF C
  <2>1. PICK T \in C : \A B \in C : ~(B \subseteq T /\ B # T)
    <3>1. C \in SUBSET (SUBSET S)
      BY DEF C
    <3> QED
      BY <1>1, <3>1, SmallestSet
  <2> USE DEF C
  <2>2. IsFiniteSet(T) /\ T \in SUBSET S /\ ~Good(T)
    BY <2>1, FS_Subset
  <2>3. \A B \in SUBSET T : B # T => Good(B)
    BY <2>1
  <2> HIDE DEF C
  <2>4. T # {}
    <3>1. Total(w, {}) = 0
      BY TotalEmpty
    <3> QED
      BY <2>2, <3>1
  <2>5. Chosen(T) \in T /\ Total(w, T) = w[Chosen(T)] + Total(w, T \ {Chosen(T)})
    BY <2>2, <2>4, TotalChosen
  <2> DEFINE c == Chosen(T)
  <2> HIDE DEF c
  <2>6. c \in T /\ Total(w, T) = w[c] + Total(w, T \ {c})
    BY <2>5 DEF c
  <2>7. Good(T \ {c})
    BY <2>3, <2>6
  <2>8. Total(w, T) \in Int
    BY <2>2, <2>6, <2>7
  <2>9. ASSUME NEW x \in T PROVE Total(w, T) = w[x] + Total(w, T \ {x})
    <3>1. CASE x = c
      BY <3>1, <2>6
    <3>2. CASE x # c
      <4>1. Total(w, T \ {c}) = w[x] + Total(w, (T \ {c}) \ {x})
        BY <2>7, <3>2
      <4>2. Good(T \ {x})
        BY <2>3
      <4>3. Total(w, T \ {x}) = w[c] + Total(w, (T \ {x}) \ {c})
        BY <4>2, <3>2, <2>6
      <4> DEFINE z == Total(w, (T \ {x}) \ {c})
                 a == w[x]
                 b == w[c]
      <4>4. (T \ {c}) \ {x} = (T \ {x}) \ {c}
        OBVIOUS
      <4>5. z \in Int
        BY <2>3, <2>6
      <4>6. a \in Int /\ b \in Int
        BY <2>2, <2>6
      <4>7. Total(w, T) = b + (a + z)
        BY <2>6, <4>1, <4>4
      <4>8. Total(w, T \ {x}) = b + z
        BY <4>3
      <4> HIDE DEF Good, z, b
      <4>9. a + Total(w, T \ {x}) = b + (a + z)
        <5> HIDE DEF a
        <5> QED
          BY <4>8, <4>5, <4>6
      <4> QED
        BY <4>7, <4>9
    <3> QED
      BY <3>1, <3>2
  <2> QED
    BY <2>2, <2>8, <2>9
<1>2. Good(S)
  BY <1>1
<1> QED
  BY <1>2

----------------------------------------------------------------------------
\* The sum of one weight more.
LEMMA TotalWith ==
  ASSUME NEW S, IsFiniteSet(S), NEW y, y \notin S,
         NEW w, \A x \in S \cup {y} : w[x] \in Int
  PROVE  Total(w, S \cup {y}) = w[y] + Total(w, S)
<1>1. IsFiniteSet(S \cup {y})
  BY FS_AddElement
<1>2. Total(w, S \cup {y}) = w[y] + Total(w, (S \cup {y}) \ {y})
  BY <1>1, TotalRemove
<1>3. (S \cup {y}) \ {y} = S
  OBVIOUS
<1> QED
  BY <1>2, <1>3

\* A sum depends on the weights of its elements alone.
LEMMA TotalAgrees ==
  ASSUME NEW S, IsFiniteSet(S), NEW w, NEW v, \A x \in S : w[x] = v[x]
  PROVE  Total(w, S) = Total(v, S)
<1> DEFINE C == {T \in SUBSET S : Total(w, T) # Total(v, T)}
<1>1. ASSUME C # {} PROVE FALSE
  <2> HIDE DEF C
  <2>1. PICK T \in C : \A B \in C : ~(B \subseteq T /\ B # T)
    <3>1. C \in SUBSET (SUBSET S)
      BY DEF C
    <3> QED
      BY <1>1, <3>1, SmallestSet
  <2>2. T \in SUBSET S /\ Total(w, T) # Total(v, T)
    BY <2>1 DEF C
  <2>3. IsFiniteSet(T)
    BY <2>2, FS_Subset
  <2>4. T # {}
    <3>1. Total(w, {}) = 0 /\ Total(v, {}) = 0
      BY TotalEmpty
    <3> QED
      BY <2>2, <3>1
  <2>5. /\ Chosen(T) \in T
        /\ Total(w, T) = w[Chosen(T)] + Total(w, T \ {Chosen(T)})
    BY <2>3, <2>4, TotalChosen
  <2>6. Total(v, T) = v[Chosen(T)] + Total(v, T \ {Chosen(T)})
    BY <2>3, <2>4, TotalChosen
  <2>7. Total(w, T \ {Chosen(T)}) = Total(v, T \ {Chosen(T)})
    BY <2>1, <2>2, <2>5 DEF C
  <2> QED
    BY <2>2, <2>5, <2>6, <2>7
<1>2. Total(w, S) = Total(v, S)
  <2>1. S \notin C
    BY <1>1
  <2> QED
    BY <2>1
<1> QED
  BY <1>2

\* One weight changes.
LEMMA TotalUpdate ==
  ASSUME NEW S, IsFiniteSet(S), NEW y \in S,
         NEW w, \A x \in S : w[x] \in Int,
         NEW v, \A x \in S : v[x] \in Int,
         \A x \in S \ {y} : w[x] = v[x]
  PROVE  Total(v, S) = Total(w, S) + (v[y] - w[y])
<1>1. IsFiniteSet(S \ {y})
  BY FS_RemoveElement
<1>2. Total(w, S \ {y}) = Total(v, S \ {y})
  BY <1>1, TotalAgrees
<1>3. Total(w, S) = w[y] + Total(w, S \ {y}) /\ Total(w, S \ {y}) \in Int
  BY <1>1, TotalRemove
<1>4. Total(v, S) = v[y] + Total(v, S \ {y})
  BY TotalRemove
<1>5. w[y] \in Int /\ v[y] \in Int
  OBVIOUS
<1> DEFINE z == Total(w, S \ {y})
           a == w[y]
           b == v[y]
<1>6. Total(w, S) = a + z /\ Total(v, S) = b + z /\ z \in Int /\ a \in Int /\ b \in Int
  BY <1>2, <1>3, <1>4, <1>5
<1>7. Total(v, S) = Total(w, S) + (b - a)
  <2> HIDE DEF z, a, b
  <2> QED
    BY <1>6
<1> QED
  BY <1>7

\* A sum of natural numbers is one.
LEMMA TotalNat ==
  ASSUME NEW S, IsFiniteSet(S), NEW w, \A x \in S : w[x] \in Nat
  PROVE  Total(w, S) \in Nat
<1> DEFINE C == {T \in SUBSET S : Total(w, T) \notin Nat}
<1>1. ASSUME C # {} PROVE FALSE
  <2> HIDE DEF C
  <2>1. PICK T \in C : \A B \in C : ~(B \subseteq T /\ B # T)
    <3>1. C \in SUBSET (SUBSET S)
      BY DEF C
    <3> QED
      BY <1>1, <3>1, SmallestSet
  <2>2. T \in SUBSET S /\ Total(w, T) \notin Nat
    BY <2>1 DEF C
  <2>3. IsFiniteSet(T)
    BY <2>2, FS_Subset
  <2>4. T # {}
    <3>1. Total(w, {}) = 0
      BY TotalEmpty
    <3> QED
      BY <2>2, <3>1
  <2>5. /\ Chosen(T) \in T
        /\ Total(w, T) = w[Chosen(T)] + Total(w, T \ {Chosen(T)})
    BY <2>3, <2>4, TotalChosen
  <2>6. Total(w, T \ {Chosen(T)}) \in Nat
    BY <2>1, <2>2, <2>5 DEF C
  <2>7. w[Chosen(T)] \in Nat
    BY <2>2, <2>5
  <2> QED
    BY <2>2, <2>5, <2>6, <2>7
<1>2. S \notin C
  BY <1>1
<1> QED
  BY <1>2

\* A sum of zeros is zero.
LEMMA TotalZero ==
  ASSUME NEW S, IsFiniteSet(S), NEW w, \A x \in S : w[x] = 0
  PROVE  Total(w, S) = 0
<1> DEFINE C == {T \in SUBSET S : Total(w, T) # 0}
<1>1. ASSUME C # {} PROVE FALSE
  <2> HIDE DEF C
  <2>1. PICK T \in C : \A B \in C : ~(B \subseteq T /\ B # T)
    <3>1. C \in SUBSET (SUBSET S)
      BY DEF C
    <3> QED
      BY <1>1, <3>1, SmallestSet
  <2>2. T \in SUBSET S /\ Total(w, T) # 0
    BY <2>1 DEF C
  <2>3. IsFiniteSet(T)
    BY <2>2, FS_Subset
  <2>4. T # {}
    <3>1. Total(w, {}) = 0
      BY TotalEmpty
    <3> QED
      BY <2>2, <3>1
  <2>5. /\ Chosen(T) \in T
        /\ Total(w, T) = w[Chosen(T)] + Total(w, T \ {Chosen(T)})
    BY <2>3, <2>4, TotalChosen
  <2>6. Total(w, T \ {Chosen(T)}) = 0
    BY <2>1, <2>2, <2>5 DEF C
  <2>7. w[Chosen(T)] = 0
    BY <2>2, <2>5
  <2> QED
    BY <2>2, <2>5, <2>6, <2>7
<1>2. S \notin C
  BY <1>1
<1> QED
  BY <1>2

\* The sum of sums of two weights.
LEMMA TotalPlus ==
  ASSUME NEW S, IsFiniteSet(S), NEW w, NEW v, NEW u,
         \A x \in S : w[x] \in Int /\ v[x] \in Int /\ u[x] = w[x] + v[x]
  PROVE  Total(u, S) = Total(w, S) + Total(v, S)
<1> DEFINE C == {T \in SUBSET S : Total(u, T) # Total(w, T) + Total(v, T)}
<1>1. ASSUME C # {} PROVE FALSE
  <2> HIDE DEF C
  <2>1. PICK T \in C : \A B \in C : ~(B \subseteq T /\ B # T)
    <3>1. C \in SUBSET (SUBSET S)
      BY DEF C
    <3> QED
      BY <1>1, <3>1, SmallestSet
  <2>2. T \in SUBSET S /\ Total(u, T) # Total(w, T) + Total(v, T)
    BY <2>1 DEF C
  <2>3. IsFiniteSet(T)
    BY <2>2, FS_Subset
  <2>4. T # {}
    <3>1. Total(u, {}) = 0 /\ Total(w, {}) = 0 /\ Total(v, {}) = 0
      BY TotalEmpty
    <3>2. Total(u, {}) = Total(w, {}) + Total(v, {})
      BY <3>1
    <3> QED
      BY <2>2, <3>2
  <2> DEFINE c == Chosen(T)
             R == T \ {c}
             a == w[c]
             b == v[c]
             x == Total(w, R)
             y == Total(v, R)
  <2>5. c \in T /\ Total(w, T) = a + x
    BY <2>3, <2>4, TotalChosen
  <2>6. Total(v, T) = b + y /\ Total(u, T) = u[c] + Total(u, R)
    BY <2>3, <2>4, TotalChosen
  <2>7. Total(u, R) = x + y
    <3>1. R \in SUBSET S /\ R \subseteq T /\ R # T
      BY <2>2, <2>5
    <3>2. R \notin C
      BY <2>1, <3>1
    <3> QED
      BY <3>1, <3>2 DEF C
  <2>8. u[c] = a + b /\ a \in Int /\ b \in Int
    BY <2>2, <2>5
  <2>9. x \in Int /\ y \in Int
    <3>1. IsFiniteSet(R) /\ \A z \in R : w[z] \in Int /\ v[z] \in Int
      BY <2>2, <2>3, FS_Subset
    <3> HIDE DEF R
    <3> QED
      BY <3>1, TotalRemove
  <2>10. Total(u, T) = Total(w, T) + Total(v, T)
    <3> HIDE DEF a, b, x, y
    <3> QED
      BY <2>5, <2>6, <2>7, <2>8, <2>9
  <2> QED
    BY <2>2, <2>10
<1>2. S \notin C
  BY <1>1
<1> QED
  BY <1>2

\* Weights that are zero outside a part sum to the sum of the part.
LEMMA TotalPart ==
  ASSUME NEW S, IsFiniteSet(S), NEW R, R \subseteq S, NEW w, NEW v,
         \A x \in S : w[x] \in Int /\ v[x] = IF x \in R THEN w[x] ELSE 0
  PROVE  Total(v, S) = Total(w, R)
<1> DEFINE C == {T \in SUBSET S : Total(v, T) # Total(w, T \cap R)}
<1>1. ASSUME C # {} PROVE FALSE
  <2> HIDE DEF C
  <2>1. PICK T \in C : \A B \in C : ~(B \subseteq T /\ B # T)
    <3>1. C \in SUBSET (SUBSET S)
      BY DEF C
    <3> QED
      BY <1>1, <3>1, SmallestSet
  <2>2. T \in SUBSET S /\ Total(v, T) # Total(w, T \cap R)
    BY <2>1 DEF C
  <2>3. IsFiniteSet(T) /\ IsFiniteSet(T \cap R)
    BY <2>2, FS_Subset
  <2>4. T # {}
    <3>1. Total(v, {}) = 0 /\ Total(w, {}) = 0 /\ {} \cap R = {}
      BY TotalEmpty
    <3> QED
      BY <2>2, <3>1
  <2> DEFINE c == Chosen(T)
             Q == T \ {c}
  <2>5. c \in T /\ Total(v, T) = v[c] + Total(v, Q)
    BY <2>3, <2>4, TotalChosen
  <2>6. Total(v, Q) = Total(w, Q \cap R)
    <3>1. Q \in SUBSET S /\ Q \subseteq T /\ Q # T
      BY <2>2, <2>5
    <3>2. Q \notin C
      BY <2>1, <3>1
    <3> QED
      BY <3>1, <3>2 DEF C
  <2>7. CASE c \in R
    <3>1. \A x \in T \cap R : w[x] \in Int
      BY <2>2
    <3>2. c \in T \cap R
      BY <2>5, <2>7
    <3>3. Total(w, T \cap R) = w[c] + Total(w, (T \cap R) \ {c})
      <4> HIDE DEF c
      <4> QED
        BY <2>3, <3>1, <3>2, TotalRemove
    <3>4. (T \cap R) \ {c} = Q \cap R
      OBVIOUS
    <3>5. v[c] = w[c]
      BY <2>2, <2>5, <2>7
    <3> HIDE DEF c, Q
    <3> QED
      BY <2>2, <2>5, <2>6, <3>3, <3>4, <3>5
  <2>8. CASE c \notin R
    <3>1. Q \cap R = T \cap R
      BY <2>8
    <3>2. v[c] = 0
      BY <2>2, <2>5, <2>8
    <3>3. Total(w, T \cap R) \in Int
      <4>1. \A x \in T \cap R : w[x] \in Int
        BY <2>2
      <4> QED
        BY <2>3, <4>1, TotalRemove
    <3>4. Total(v, T) = 0 + Total(w, T \cap R)
      <4> HIDE DEF c, Q
      <4> QED
        BY <2>5, <2>6, <3>1, <3>2
    <3> QED
      BY <2>2, <3>3, <3>4
  <2> QED
    BY <2>7, <2>8
<1>2. S \notin C
  BY <1>1
<1>3. S \cap R = R
  OBVIOUS
<1> QED
  BY <1>2, <1>3
=============================================================================
