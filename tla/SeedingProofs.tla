--------------------------- MODULE SeedingProofs ---------------------------
(***************************************************************************)
(* The seed program gets every answer it expects, and the round of 32 and  *)
(* the brackets it makes up are right, for any countries, users and        *)
(* results; and a contest that is to go as predicted does.                 *)
(***************************************************************************)
EXTENDS Programs, CollectionTheorems, SequenceTheorems

----------------------------------------------------------------------------
(***************************************************************************)
(* Sorting                                                                 *)
(***************************************************************************)
\* Keys of one length, different for different elements, compare like numbers.
Comparable(key) ==
  /\ IsFiniteSet(DOMAIN key)
  /\ \E n \in Nat : \A c \in DOMAIN key : /\ DOMAIN key[c] = 1 .. n
                                          /\ \A i \in 1 .. n : key[c][i] \in Int
  /\ \A c, d \in DOMAIN key :
       (\A i \in DOMAIN key[c] : key[c][i] = key[d][i]) => c = d

LEMMA IsComparable ==
  ASSUME NEW key, NEW S, DOMAIN key = S, IsFiniteSet(S), NEW n \in Nat,
         \A c \in S : DOMAIN key[c] = 1 .. n /\ \A i \in 1 .. n : key[c][i] \in Int,
         \A c, d \in S : (\A i \in DOMAIN key[c] : key[c][i] = key[d][i]) => c = d
  PROVE  Comparable(key)
  BY DEF Comparable

LEMMA AheadOrders ==
  ASSUME NEW key, Comparable(key)
  PROVE  /\ \A c \in DOMAIN key : ~Ahead(key, c, c)
         /\ \A c, d \in DOMAIN key : c # d => Ahead(key, c, d) \/ Ahead(key, d, c)
         /\ \A c, d, e \in DOMAIN key : Ahead(key, c, d) /\ Ahead(key, d, e)
                                          => Ahead(key, c, e)
<1>1. PICK n \in Nat : \A c \in DOMAIN key : /\ DOMAIN key[c] = 1 .. n
                                             /\ \A i \in 1 .. n : key[c][i] \in Int
  BY DEF Comparable
<1>2. ASSUME NEW c \in DOMAIN key, Ahead(key, c, c) PROVE FALSE
  BY <1>1, <1>2 DEF Ahead
<1>3. ASSUME NEW c \in DOMAIN key, NEW d \in DOMAIN key, c # d
      PROVE  Ahead(key, c, d) \/ Ahead(key, d, c)
  <2> DEFINE B == {i \in 1 .. n : key[c][i] # key[d][i]}
  <2>1. B # {} /\ B \in SUBSET (1 .. n)
    BY <1>1, <1>3 DEF Comparable
  <2>2. PICK k \in B : \A j \in B : k <= j
    BY <2>1, LeastNumber
  <2>3. \A j \in 1 .. k - 1 : key[c][j] = key[d][j]
    BY <2>2
  <2>4. k \in 1 .. n /\ key[c][k] # key[d][k]
    BY <2>2
  <2>5. key[c][k] > key[d][k] \/ key[d][k] > key[c][k]
    BY <1>1, <2>4
  <2> QED
    BY <1>1, <2>3, <2>4, <2>5 DEF Ahead
<1>4. ASSUME NEW c \in DOMAIN key, NEW d \in DOMAIN key, NEW e \in DOMAIN key,
             Ahead(key, c, d), Ahead(key, d, e)
      PROVE  Ahead(key, c, e)
  <2>1. PICK i \in 1 .. n : /\ key[c][i] > key[d][i]
                            /\ \A k \in 1 .. i - 1 : key[c][k] = key[d][k]
    BY <1>1, <1>4 DEF Ahead
  <2>2. PICK j \in 1 .. n : /\ key[d][j] > key[e][j]
                            /\ \A k \in 1 .. j - 1 : key[d][k] = key[e][k]
    BY <1>1, <1>4 DEF Ahead
  <2> DEFINE l == IF i <= j THEN i ELSE j
  <2>3. l \in 1 .. n /\ \A k \in 1 .. l - 1 : k \in 1 .. i - 1 /\ k \in 1 .. j - 1
    OBVIOUS
  <2>4. \A k \in 1 .. l - 1 : key[c][k] = key[e][k]
    BY <2>1, <2>2, <2>3
  <2>5. key[c][l] > key[e][l]
    <3>1. CASE i < j
      BY <1>1, <2>1, <2>2, <3>1
    <3>2. CASE i = j
      BY <1>1, <2>1, <2>2, <3>2
    <3>3. CASE j < i
      BY <1>1, <2>1, <2>2, <3>3
    <3> QED
      BY <3>1, <3>2, <3>3
  <2> QED
    BY <1>1, <2>3, <2>4, <2>5 DEF Ahead
<1> QED
  BY <1>2, <1>3, <1>4

\* Sorted puts every element of the domain in one place, the better one first.
LEMMA SortedOrders ==
  ASSUME NEW key, Comparable(key)
  PROVE  /\ Cardinality(DOMAIN key) \in Nat
         /\ Sorted(key) \in [1 .. Cardinality(DOMAIN key) -> DOMAIN key]
         /\ \A i, j \in 1 .. Cardinality(DOMAIN key) :
              i < j => Ahead(key, Sorted(key)[i], Sorted(key)[j])
         /\ \A i, j \in 1 .. Cardinality(DOMAIN key) :
              Sorted(key)[i] = Sorted(key)[j] => i = j
         /\ \A c \in DOMAIN key : \E i \in 1 .. Cardinality(DOMAIN key) : Sorted(key)[i] = c
<1> DEFINE D == DOMAIN key
           N == Cardinality(D)
           I == 1 .. N
           Better(c) == {d \in D : Ahead(key, d, c)}
           place == [c \in D |-> Cardinality(Better(c)) + 1]
<1>1. IsFiniteSet(D) /\ N \in Nat
  BY FS_CardinalityType DEF Comparable
<1>2. /\ \A c \in D : ~Ahead(key, c, c)
      /\ \A c, d \in D : c # d => Ahead(key, c, d) \/ Ahead(key, d, c)
      /\ \A c, d, e \in D : Ahead(key, c, d) /\ Ahead(key, d, e) => Ahead(key, c, e)
  BY AheadOrders
<1>3. ASSUME NEW c \in D
      PROVE  /\ IsFiniteSet(Better(c)) /\ Cardinality(Better(c)) \in Nat
             /\ Cardinality(Better(c)) < N
  <2>1. Better(c) \subseteq D /\ c \in D /\ c \notin Better(c)
    BY <1>2
  <2> HIDE DEF D, Better
  <2>2. IsFiniteSet(Better(c)) /\ Cardinality(Better(c)) <= N /\ Better(c) # D
    BY <1>1, <2>1, FS_Subset
  <2>3. Cardinality(Better(c)) # N
    BY <1>1, <2>1, <2>2, FS_Subset
  <2> QED
    BY <1>1, <2>2, <2>3, FS_CardinalityType
<1>4. ASSUME NEW c \in D, NEW d \in D, Ahead(key, c, d)
      PROVE  place[c] < place[d]
  <2>1. Better(c) \subseteq Better(d) /\ c \in Better(d) /\ c \notin Better(c)
    BY <1>2, <1>4
  <2>2. IsFiniteSet(Better(d)) /\ Cardinality(Better(d)) \in Nat
        /\ Cardinality(Better(c)) \in Nat
    BY <1>3
  <2>3. place[c] = Cardinality(Better(c)) + 1 /\ place[d] = Cardinality(Better(d)) + 1
    OBVIOUS
  <2> HIDE DEF D, Better, place
  <2>4. Cardinality(Better(c)) <= Cardinality(Better(d)) /\ Better(c) # Better(d)
    BY <2>1, <2>2, FS_Subset
  <2>5. Cardinality(Better(c)) # Cardinality(Better(d))
    BY <2>1, <2>2, <2>4, FS_Subset
  <2> QED
    BY <2>2, <2>3, <2>4, <2>5
<1>5. place \in [D -> I]
  BY <1>1, <1>3
<1>6. \A c, d \in D : c # d => place[c] # place[d]
  <2> TAKE c, d \in D
  <2> HAVE c # d
  <2>1. place[c] \in Int /\ place[d] \in Int
    BY <1>5
  <2> QED
    BY <1>2, <1>4, <2>1
<1>7. \A i \in I : \E c \in D : place[c] = i
  <2>1. IsFiniteSet(I) /\ Cardinality(I) = N
    <3> DEFINE a == 1
    <3> HIDE DEF a, N
    <3>1. a \in Int /\ N \in Int
      BY <1>1 DEF a
    <3>2. IsFiniteSet(a .. N) /\ Cardinality(a .. N) = IF a > N THEN 0 ELSE N - a + 1
      BY <3>1, FS_Interval
    <3> QED
      BY <1>1, <3>2 DEF a
  <2> HIDE DEF I, D, place
  <2>2. place \in Injection(D, I)
    BY <1>5, <1>6, Fun_IsInj
  <2>3. place \in Surjection(D, I)
    BY <1>1, <2>1, <2>2, FS_Injection
  <2> QED
    BY <2>3 DEF Surjection
<1> DEFINE s == Sorted(key)
<1>8. s = [i \in I |-> CHOOSE c \in D : Cardinality(Better(c)) = i - 1]
  BY DEF Sorted
<1>9. ASSUME NEW i \in I
      PROVE  s[i] \in D /\ place[s[i]] = i
  <2>1. PICK c \in D : place[c] = i
    BY <1>7
  <2>2. Cardinality(Better(c)) = i - 1
    BY <1>3, <2>1
  <2>3. s[i] = CHOOSE d \in D : Cardinality(Better(d)) = i - 1
    BY <1>8
  <2> HIDE DEF D, Better, s
  <2>4. s[i] \in D /\ Cardinality(Better(s[i])) = i - 1
    BY <2>2, <2>3
  <2> USE DEF D, Better
  <2> QED
    BY <2>4
<1>10. ASSUME NEW i \in I, NEW j \in I, i < j
       PROVE  Ahead(key, s[i], s[j])
  <2>1. place[s[i]] < place[s[j]] /\ s[i] \in D /\ s[j] \in D
    BY <1>9, <1>10
  <2>2. s[i] # s[j]
    <3>1. place[s[i]] = i /\ place[s[j]] = j
      BY <1>9
    <3> HIDE DEF place, s
    <3> QED
      BY <1>10, <3>1
  <2>3. ~Ahead(key, s[j], s[i])
    <3>1. SUFFICES ASSUME Ahead(key, s[j], s[i]) PROVE FALSE
      OBVIOUS
    <3> HIDE DEF s
    <3>2. place[s[j]] < place[s[i]]
      BY <1>4, <2>1, <3>1
    <3>3. place[s[i]] \in Int /\ place[s[j]] \in Int
      BY <1>5, <2>1
    <3> HIDE DEF place
    <3> QED
      BY <2>1, <3>2, <3>3
  <2> QED
    BY <1>2, <2>1, <2>2, <2>3
<1>11. s \in [I -> D]
  BY <1>8, <1>9
<1>12. \A i, j \in I : s[i] = s[j] => i = j
  BY <1>9
<1>13. \A c \in D : \E i \in I : s[i] = c
  <2> TAKE c \in D
  <2>1. place[c] \in I
    BY <1>5
  <2>2. place[s[place[c]]] = place[c] /\ s[place[c]] \in D
    BY <1>9, <2>1
  <2> QED
    BY <1>6, <2>1, <2>2
<1> HIDE DEF s, D
<1> QED
  BY <1>1, <1>10, <1>11, <1>12, <1>13 DEF s, D

\* What is ahead of what decides the order.
LEMMA SortedSame ==
  ASSUME NEW f, NEW g, DOMAIN f = DOMAIN g,
         \A c, d \in DOMAIN f : Ahead(f, c, d) <=> Ahead(g, c, d)
  PROVE  Sorted(f) = Sorted(g)
<1>1. \A c \in DOMAIN f :
        {d \in DOMAIN f : Ahead(f, d, c)} = {d \in DOMAIN g : Ahead(g, d, c)}
  OBVIOUS
<1>2. ASSUME NEW i
      PROVE  (CHOOSE c \in DOMAIN f : Cardinality({d \in DOMAIN f : Ahead(f, d, c)}) = i - 1)
             = CHOOSE c \in DOMAIN g : Cardinality({d \in DOMAIN g : Ahead(g, d, c)}) = i - 1
  <2>1. \A c : c \in DOMAIN f /\ Cardinality({d \in DOMAIN f : Ahead(f, d, c)}) = i - 1
               <=> c \in DOMAIN g /\ Cardinality({d \in DOMAIN g : Ahead(g, d, c)}) = i - 1
    BY <1>1
  <2> QED
    BY <2>1, Zenon
<1> DEFINE F(i) == CHOOSE c \in DOMAIN f : Cardinality({d \in DOMAIN f : Ahead(f, d, c)}) = i - 1
           G(i) == CHOOSE c \in DOMAIN g : Cardinality({d \in DOMAIN g : Ahead(g, d, c)}) = i - 1
<1>3. /\ Sorted(f) = [i \in 1 .. Cardinality(DOMAIN f) |-> F(i)]
      /\ Sorted(g) = [i \in 1 .. Cardinality(DOMAIN g) |-> G(i)]
  BY DEF Sorted
<1>4. \A i : F(i) = G(i)
  BY <1>2, Zenon
<1> HIDE DEF F, G
<1> QED
  BY <1>3, <1>4

LEMMA FiniteInterval == \A a, b \in Int : IsFiniteSet(a .. b)
  BY FS_Interval

\* A set numbered from 1 to n has n elements.
LEMMA Numbered ==
  ASSUME NEW n \in Nat, NEW T, NEW f \in [1 .. n -> T],
         \A i, j \in 1 .. n : f[i] = f[j] => i = j,
         \A t \in T : \E i \in 1 .. n : f[i] = t
  PROVE  IsFiniteSet(T) /\ Cardinality(T) = n
<1> DEFINE a == 1
           I == a .. n
<1>1. a \in Int /\ n \in Int /\ (a > n => n = 0) /\ n - a + 1 = n /\ I = 1 .. n
  OBVIOUS
<1> HIDE DEF a
<1>2. IsFiniteSet(I) /\ Cardinality(I) = n
  BY <1>1, FS_Interval
<1> HIDE DEF I
<1>3. f \in Bijection(I, T)
  BY <1>1, Fun_IsBij, Zenon
<1>4. ExistsBijection(I, T)
  BY <1>3 DEF ExistsBijection
<1> QED
  BY <1>2, <1>4, FS_Bijection

----------------------------------------------------------------------------
(***************************************************************************)
(* The contest                                                             *)
(***************************************************************************)
\* The letter of a country is that of its group, and codes tell countries apart.
LEMMA GroupsOfContest ==
  /\ Letters = 1 .. 12 /\ IsFiniteSet(Letters) /\ Cardinality(Letters) = 12
  /\ \A l \in Letters, i \in 1 .. 4 : Groups[l][i] \in Countries /\ Letter[Groups[l][i]] = l
  /\ \A c \in Countries : Letter[c] \in Letters /\ \E i \in 1 .. 4 : Groups[Letter[c]][i] = c
  /\ \A l \in Letters : CountriesOf(l) = {c \in Countries : Letter[c] = l}
  /\ \A l \in Letters : CountriesOf(l) = {Groups[l][i] : i \in 1 .. 4}
  /\ \A l, k \in Letters, i, j \in 1 .. 4 : Groups[l][i] = Groups[k][j] => l = k /\ i = j
  /\ \A l \in Letters : DOMAIN Groups[l] = 1 .. 4
<1> DEFINE L == 1 .. 12
           I == 1 .. 4
<1>11. Groups \in [L -> [I -> Countries]]
  BY ContestAssumption, Zenon
<1>1. Letters = L
  <2> HIDE DEF L, I
  <2> QED
    BY <1>11 DEF Letters
<1>2. \A l \in Letters, i \in I : Groups[l][i] \in Countries
  <2> HIDE DEF L, I
  <2> QED
    BY <1>1, <1>11
<1>3. \A l \in Letters : DOMAIN Groups[l] = I
  <2> HIDE DEF L, I
  <2> QED
    BY <1>1, <1>11
<1>4. \A l \in Letters : ToSet(Groups[l]) = {Groups[l][i] : i \in 1 .. 4}
  BY <1>3 DEF ToSet
<1>5. ASSUME NEW c \in Countries
      PROVE  Letter[c] \in Letters /\ \E i \in 1 .. 4 : Groups[Letter[c]][i] = c
  <2>1. PICK l \in Letters, i \in 1 .. 4 : Groups[l][i] = c
    BY <1>1, ContestAssumption, Zenon
  <2>2. c \in ToSet(Groups[l])
    BY <1>4, <2>1
  <2>3. Letter[c] = CHOOSE k \in Letters : c \in ToSet(Groups[k])
    BY DEF Letter
  <2>4. Letter[c] \in Letters /\ c \in ToSet(Groups[Letter[c]])
    BY <2>2, <2>3, Zenon
  <2> QED
    BY <1>4, <2>4
<1>6. \A l, k \in Letters, i, j \in 1 .. 4 : Groups[l][i] = Groups[k][j] => l = k /\ i = j
  BY <1>1, ContestAssumption, Zenon
<1>7. \A l \in Letters, i \in 1 .. 4 : Letter[Groups[l][i]] = l
  BY <1>2, <1>5, <1>6
<1>8. \A l \in Letters : CountriesOf(l) = {Groups[l][i] : i \in 1 .. 4}
  BY <1>4 DEF CountriesOf
<1>9. \A l \in Letters : CountriesOf(l) = {c \in Countries : Letter[c] = l}
  BY <1>2, <1>5, <1>7, <1>8
<1>10. IsFiniteSet(Letters) /\ Cardinality(Letters) = 12
  <2> DEFINE a == 1
             b == 12
  <2>1. a \in Int /\ b \in Int /\ a <= b /\ b - a + 1 = 12 /\ Letters = a .. b
    BY <1>1
  <2> HIDE DEF a, b
  <2>2. IsFiniteSet(a .. b) /\ Cardinality(a .. b) = IF a > b THEN 0 ELSE b - a + 1
    BY <2>1, FS_Interval, Zenon
  <2> QED
    BY <2>1, <2>2
<1> QED
  BY <1>1, <1>2, <1>3, <1>5, <1>6, <1>7, <1>8, <1>9, <1>10, Zenon

LEMMA LettersOfContest ==
  /\ Letters = 1 .. 12 /\ IsFiniteSet(Letters) /\ Cardinality(Letters) = 12
  /\ \A l \in Letters : DOMAIN Groups[l] = 1 .. 4
  BY GroupsOfContest, Zenon

LEMMA GroupPairs ==
  \A m : m \in GroupMatches <=> \E l \in Letters : \E i, j \in DOMAIN Groups[l] :
                                  i < j /\ m = <<0, Groups[l][i], Groups[l][j]>>
<1> DEFINE M(l, i, j) == <<0, Groups[l][i], Groups[l][j]>>
           From(l, i) == {M(l, i, j) : j \in i + 1 .. 4}
<1>1. GroupMatches = UNION {From(l, i) : l \in Letters, i \in 1 .. 4}
  BY DEF GroupMatches
<1>2. \A m : m \in GroupMatches <=> \E l \in Letters, i \in 1 .. 4 : \E j \in i + 1 .. 4 : m = M(l, i, j)
  <2>1. \A m, l, i : m \in From(l, i) <=> \E j \in i + 1 .. 4 : m = M(l, i, j)
    OBVIOUS
  <2> HIDE DEF From, M
  <2>2. \A m : m \in GroupMatches <=> \E l \in Letters, i \in 1 .. 4 : m \in From(l, i)
    BY <1>1
  <2> QED
    BY <2>1, <2>2
<1> HIDE DEF M, From
<1>3. \A i \in 1 .. 4 : \A j : j \in i + 1 .. 4 <=> j \in 1 .. 4 /\ i < j
  OBVIOUS
<1>4. \A m : m \in GroupMatches <=> \E l \in Letters, i \in 1 .. 4 : \E j \in 1 .. 4 : i < j /\ m = M(l, i, j)
  BY <1>2, <1>3, Zenon
<1> QED
  BY SMTT(30), <1>4, LettersOfContest DEF M

LEMMA MembersOfGroup ==
  /\ \A l \in Letters, i \in 1 .. 4 : Groups[l][i] \in Countries /\ Letter[Groups[l][i]] = l
  /\ \A c \in Countries : Letter[c] \in Letters /\ \E i \in 1 .. 4 : Groups[Letter[c]][i] = c
  BY GroupsOfContest, Zenon

LEMMA OnePlace ==
  \A l, k \in Letters, i, j \in 1 .. 4 : Groups[l][i] = Groups[k][j] => l = k /\ i = j
  BY GroupsOfContest, Zenon

LEMMA CountriesByLetter ==
  \A l \in Letters : CountriesOf(l) = {c \in Countries : Letter[c] = l}
  BY GroupsOfContest, Zenon

LEMMA CodesOfContest ==
  /\ IsFiniteSet(Countries)
  /\ \A c \in Countries : CodeRank[c] \in Nat
  /\ \A c, d \in Countries : CodeRank[c] = CodeRank[d] => c = d
<1>1. /\ CodeOrder \in Seq(Countries) /\ Len(CodeOrder) \in Nat
      /\ DOMAIN CodeOrder = 1 .. Len(CodeOrder)
  <2>1. CodeOrder \in Seq(Countries)
    BY ContestAssumption, Zenon
  <2> QED
    BY <2>1
<1>2. ASSUME NEW c \in Countries
      PROVE  CodeRank[c] \in DOMAIN CodeOrder /\ CodeOrder[CodeRank[c]] = c
  <2>1. \E i \in DOMAIN CodeOrder : CodeOrder[i] = c
    BY DEF Countries, ToSet
  <2>2. CodeRank[c] = CHOOSE i \in DOMAIN CodeOrder : CodeOrder[i] = c
    BY DEF CodeRank
  <2> QED
    BY <2>1, <2>2
<1>3. IsFiniteSet(Countries)
  <2> DEFINE I == 1 .. Len(CodeOrder)
             img == {CodeOrder[i] : i \in I}
  <2>1. IsFiniteSet(I)
    BY <1>1, FS_Interval
  <2>2. CodeOrder \in [I -> Countries] /\ Countries = img
    BY <1>1 DEF Countries, ToSet
  <2> HIDE DEF I
  <2>3. CodeOrder \in Surjection(I, Countries)
    BY <2>2, Fun_IsSurj
  <2> QED
    BY <2>1, <2>3, FS_Surjection
<1>4. \A c \in Countries : CodeRank[c] \in Nat
  <2> DEFINE n == Len(CodeOrder)
  <2>1. n \in Nat /\ \A c \in Countries : CodeRank[c] \in 1 .. n
    BY <1>1, <1>2, Zenon
  <2> HIDE DEF n
  <2> QED
    BY <2>1
<1> QED
  BY <1>2, <1>3, <1>4, Zenon

\* The pairings of the groups, and the places of the bracket.
LEMMA MatchesOfContest ==
  /\ \A m \in GroupMatches :
       /\ m = <<0, m[2], m[3]>> /\ m[1] = 0
       /\ m[2] \in Countries /\ m[3] \in Countries /\ m[2] # m[3]
       /\ Letter[m[2]] = Letter[m[3]] /\ Letter[m[2]] \in Letters
       /\ <<0, m[3], m[2]>> \notin GroupMatches
  /\ \A m \in Bracket : m[1] \in 1 .. 5 /\ m[2] \in 0 .. 15 /\ m = <<m[1], m[2]>>
  /\ \A i \in 0 .. 15 : <<1, i>> \in Bracket
  /\ \A i : <<2, i>> \in Bracket <=> i \in 0 .. 7
  /\ \A i : <<3, i>> \in Bracket <=> i \in 0 .. 3
  /\ \A i : <<4, i>> \in Bracket <=> i \in 0 .. 1
  /\ \A i : <<5, i>> \in Bracket <=> i \in 0 .. 1
  /\ IsFiniteSet(GroupMatches)
<1>1. ASSUME NEW m \in GroupMatches
      PROVE  /\ m = <<0, m[2], m[3]>> /\ m[1] = 0
             /\ m[2] \in Countries /\ m[3] \in Countries /\ m[2] # m[3]
             /\ Letter[m[2]] = Letter[m[3]] /\ Letter[m[2]] \in Letters
             /\ <<0, m[3], m[2]>> \notin GroupMatches
  <2>1. PICK l \in Letters : \E i, j \in DOMAIN Groups[l] :
          i < j /\ m = <<0, Groups[l][i], Groups[l][j]>>
    BY GroupPairs
  <2>2. DOMAIN Groups[l] = 1 .. 4
    BY LettersOfContest
  <2>3. PICK i \in 1 .. 4, j \in 1 .. 4 :
          i < j /\ m = <<0, Groups[l][i], Groups[l][j]>>
    BY <2>1, <2>2
  <2>4. /\ m[1] = 0 /\ m[2] = Groups[l][i] /\ m[3] = Groups[l][j]
        /\ m = <<0, m[2], m[3]>>
    BY <2>3
  <2>5. /\ m[2] \in Countries /\ m[3] \in Countries /\ m[2] # m[3]
        /\ Letter[m[2]] = l /\ Letter[m[3]] = l
    BY <2>3, <2>4, MembersOfGroup, OnePlace
  <2>6. ASSUME <<0, m[3], m[2]>> \in GroupMatches PROVE FALSE
    <3> DEFINE n == <<0, m[3], m[2]>>
    <3>1. PICK k \in Letters : \E x, y \in DOMAIN Groups[k] :
            x < y /\ n = <<0, Groups[k][x], Groups[k][y]>>
      BY <2>6, GroupPairs
    <3>2. DOMAIN Groups[k] = 1 .. 4
      BY LettersOfContest
    <3>3. PICK x \in 1 .. 4, y \in 1 .. 4 :
            x < y /\ n = <<0, Groups[k][x], Groups[k][y]>>
      BY <3>1, <3>2
    <3>4. m[3] = Groups[k][x] /\ m[2] = Groups[k][y]
      BY <3>3
    <3> HIDE DEF n
    <3>5. j = x /\ i = y
      <4>1. Groups[l][j] = Groups[k][x] /\ Groups[l][i] = Groups[k][y]
        BY <2>4, <3>4
      <4> QED
        BY <4>1, OnePlace
    <3> QED
      BY <2>3, <3>3, <3>5
  <2> QED
    BY <2>4, <2>5, <2>6
<1>2. /\ \A m \in Bracket : m[1] \in 1 .. 5 /\ m[2] \in 0 .. 15 /\ m = <<m[1], m[2]>>
      /\ \A i \in 0 .. 15 : <<1, i>> \in Bracket
      /\ \A i : <<2, i>> \in Bracket <=> i \in 0 .. 7
      /\ \A i : <<3, i>> \in Bracket <=> i \in 0 .. 3
      /\ \A i : <<4, i>> \in Bracket <=> i \in 0 .. 1
      /\ \A i : <<5, i>> \in Bracket <=> i \in 0 .. 1
  <2> DEFINE size == <<16, 8, 4, 2, 2>>
  <2>1. /\ size[1] = 16 /\ size[2] = 8 /\ size[3] = 4 /\ size[4] = 2 /\ size[5] = 2
    OBVIOUS
  <2>2. \A m : m \in Bracket <=> \E r \in 1 .. 5 : \E i \in 0 .. size[r] - 1 : m = <<r, i>>
    BY DEF Bracket
  <2> HIDE DEF size
  <2>3. \A r \in 1 .. 5 : r = 1 \/ r = 2 \/ r = 3 \/ r = 4 \/ r = 5
    OBVIOUS
  <2>4. \A r, i : <<r, i>> \in Bracket <=> r \in 1 .. 5 /\ i \in 0 .. size[r] - 1
    BY <2>2
  <2>5. \A m \in Bracket : m[1] \in 1 .. 5 /\ m[2] \in 0 .. 15 /\ m = <<m[1], m[2]>>
    <3> TAKE m \in Bracket
    <3>1. PICK r \in 1 .. 5 : \E i \in 0 .. size[r] - 1 : m = <<r, i>>
      BY <2>2
    <3>2. PICK i \in 0 .. size[r] - 1 : m = <<r, i>>
      BY <3>1
    <3>3. size[r] \in 0 .. 16
      BY <2>1, <2>3
    <3> QED
      BY <3>2, <3>3
  <2>6. (16 - 1 = 15) /\ (8 - 1 = 7) /\ (4 - 1 = 3) /\ (2 - 1 = 1)
    OBVIOUS
  <2> QED
    BY <2>1, <2>4, <2>5, <2>6
<1>3. IsFiniteSet(GroupMatches)
  <2> DEFINE P == Countries \X Countries
             f == [p \in P |-> <<0, p[1], p[2]>>]
  <2>1. IsFiniteSet(P)
    BY CodesOfContest, FS_Product
  <2> DEFINE img == {f[p] : p \in P}
  <2>2. ASSUME NEW m \in GroupMatches PROVE m \in img
    <3>1. m = <<0, m[2], m[3]>> /\ m[2] \in Countries /\ m[3] \in Countries
      BY <1>1
    <3>2. <<m[2], m[3]>> \in P /\ f[<<m[2], m[3]>>] = <<0, m[2], m[3]>>
      BY <3>1
    <3> HIDE DEF f, P
    <3> QED
      BY <3>1, <3>2
  <2>3. f \in [P -> img] /\ \A x \in img : \E p \in P : f[p] = x
    OBVIOUS
  <2> HIDE DEF P, f, img
  <2>4. f \in Surjection(P, img)
    BY <2>3, Fun_IsSurj
  <2>5. IsFiniteSet(img)
    BY <2>1, <2>4, FS_Surjection
  <2> QED
    BY <2>2, <2>5, FS_Subset
<1> QED
  BY <1>1, <1>2, <1>3

----------------------------------------------------------------------------
(***************************************************************************)
(* The inductive invariant of the seed program.  What is left of a loop is *)
(* what the tables do not hold yet, and of the loops before and after it   *)
(* nothing is left or everything.                                          *)
(***************************************************************************)
Waiting == stage \in {"users", "groupPicks", "subcontests"} \/ kind = "future"

UnplayedGroupMatches ==
  IF stage = "groupMatches" THEN ToSet(todo) ELSE IF Waiting THEN GroupMatches ELSE {}

Unranked ==
  IF stage = "rankings" THEN ToSet(todo)
  ELSE IF Waiting \/ stage = "groupMatches" THEN Letters ELSE {}

Unsettled ==
  IF stage = "qualifiers" THEN {third.letter : third \in ToSet(todo)}
  ELSE IF Waiting \/ stage \in {"groupMatches", "rankings"} THEN Letters ELSE {}

Unpaired ==
  IF stage = "pairs" THEN {pair.index : pair \in ToSet(todo)}
  ELSE IF Waiting \/ stage \in {"groupMatches", "rankings", "qualifiers"}
       THEN 0 .. 15 ELSE {}

UnplayedKnockout ==
  IF stage = "report" /\ kind \notin {"future", "in-progress"} THEN {}
  ELSE {m \in Bracket : \A r \in 1 .. 5 : stage = Rounds[r] => m[1] > r \/ m \in ToSet(todo)}

Course ==
  /\ stage \in {"users", "groupPicks", "subcontests", "groupMatches", "rankings",
                "qualifiers", "pairs", "knockoutPicks", "round1", "round2", "round3",
                "round4", "round5", "report"}
  /\ kind \in Kinds /\ dice \in Dice
  /\ kind = "future" => stage \in {"users", "groupPicks", "report"}
  /\ kind = "subcontests" => stage \in {"users", "subcontests"}
  /\ stage = "subcontests" => kind = "subcontests"
  /\ kind = "in-progress" => stage \notin {"round1", "round2", "round3", "round4", "round5"}
  /\ created = (stage # "users")

Loop ==
  /\ stage \in {"groupPicks", "knockoutPicks"} => todo \in Seq(Users)
  /\ stage \in {"users", "subcontests", "report"} => todo = <<>>
  /\ stage = "groupMatches" => todo \in Seq(GroupMatches) /\ Distinct(todo)
  /\ stage = "rankings" => todo \in Seq(Letters) /\ Distinct(todo)
  /\ stage = "qualifiers" => todo \in Seq(ToSet(Thirds)) /\ Distinct(todo)
  /\ stage = "pairs" => todo \in Seq(ToSet(Pairs)) /\ Distinct(todo)
  /\ \A r \in 1 .. 5 :
       stage = Rounds[r] => todo \in Seq({m \in Bracket : m[1] = r}) /\ Distinct(todo)

\* Rows of their types; nobody sends conduct scores.
Rows ==
  /\ matches \in [AllMatches -> Book!MatchRow]
  /\ standings \in [Countries -> Book!StandingRow]
  /\ \A c \in Countries : standings[c].cs = 0
  /\ finals \in [Countries -> [rank : {Null} \cup 1 .. 4, qualifier : {Null} \cup BOOLEAN]]

GroupRows ==
  \A m \in GroupMatches :
    /\ matches[m].c1 = m[2] /\ matches[m].c2 = m[3]
    /\ matches[m].cs1 = Null /\ matches[m].cs2 = Null
    /\ IF m \in UnplayedGroupMatches THEN matches[m].g1 = Null /\ matches[m].g2 = Null
       ELSE Completed(matches[m])

\* A ranked group is ranked as its table is now: nothing changes the table any more.
Ranked ==
  \A l \in Letters :
    IF l \in Unranked THEN \A c \in CountriesOf(l) : finals[c].rank = Null
    ELSE \A i \in 1 .. 4 : finals[BestFirst(CountriesOf(l))[i]].rank = i

RankedThird == {c \in Countries : finals[c].rank = 3}

Settled ==
  /\ \A c \in Countries :
       Letter[c] \in Unsettled \/ c \notin RankedThird => finals[c].qualifier = Null
  /\ Unranked = {} =>
       \A i \in 1 .. 12 : LET c == BestFirst(RankedThird)[i]
                          IN  Letter[c] \notin Unsettled => finals[c].qualifier = (i <= 8)

Paired ==
  \A i \in 0 .. 15 :
    LET row == matches[<<1, i>>]
    IN  IF i \in Unpaired THEN row.c1 = Null /\ row.c2 = Null
        ELSE row.c1 = Advancing[2 * i + 1] /\ row.c2 = Advancing[2 * i + 2]

KnockoutRows ==
  \A m \in Bracket :
    IF m \in UnplayedKnockout
    THEN /\ matches[m].g1 = Null /\ matches[m].g2 = Null
         /\ matches[m].p1 = Null /\ matches[m].p2 = Null
    ELSE Played(m) /\ Book!HasCountries(matches[m])

\* The match a slot after the first round is filled from.
Feeder(m, slot) == IF m[1] = 5 THEN <<4, slot>> ELSE <<m[1] - 1, 2 * m[2] + slot>>

Slots ==
  \A m \in Bracket, slot \in {0, 1} :
    m[1] > 1 => (Book!InSlot(matches[m], slot) = Null
                 <=> Feeder(m, slot) \in UnplayedKnockout)

Tables == Rows /\ GroupRows /\ Ranked /\ Settled /\ Paired /\ KnockoutRows /\ Slots

\* The array behind allUserIDs has users where its length was 55.
Cells ==
  /\ stage = "users" => clubs = <<>>
  /\ stage = "subcontests" =>
    /\ allUsers \in Seq(Users \cup {Null}) /\ Len(allUsers) >= 55
    /\ \A i \in 1 .. 55 : allUsers[i] \in Users
    /\ clubs \in Seq(SUBSET Users)

\* The program runs; it has not ended at a user it could not insert.
Active == stage \notin {"start", "failed"}

SeedInv ==
  /\ stage # "start" => step = 0
  /\ Active => Course /\ Loop /\ Tables /\ Cells
  /\ stage = "failed" => Collides(dice.people) /\ ~created

----------------------------------------------------------------------------
(***************************************************************************)
(* The queries                                                             *)
(***************************************************************************)
\* What Sorted does with a key, in one word.
Orders(s, D) ==
  /\ IsFiniteSet(D) /\ Cardinality(D) \in Nat
  /\ s \in [1 .. Cardinality(D) -> D]
  /\ \A i, j \in 1 .. Cardinality(D) : s[i] = s[j] => i = j
  /\ \A c \in D : \E i \in 1 .. Cardinality(D) : s[i] = c

LEMMA SortedIsOrder ==
  ASSUME NEW key, Comparable(key)
  PROVE  Orders(Sorted(key), DOMAIN key)
  BY SortedOrders DEF Comparable, Orders

\* An order is a list of the elements, each once.
LEMMA OrderIsList ==
  ASSUME NEW s, NEW D, Orders(s, D)
  PROVE  /\ s \in Seq(D) /\ Distinct(s) /\ ToSet(s) = D /\ Len(s) = Cardinality(D)
         /\ DOMAIN s = 1 .. Cardinality(D)
<1>1. DOMAIN s = 1 .. Cardinality(D) /\ Cardinality(D) \in Nat
  BY DEF Orders
<1>2. s \in Seq(D) /\ Len(s) = Cardinality(D)
  BY <1>1 DEF Orders
<1>3. Distinct(s)
  BY <1>1 DEF Orders, Distinct
<1>4. ToSet(s) = D
  BY <1>1 DEF Orders, ToSet
<1> QED
  BY <1>1, <1>2, <1>3, <1>4

TableKey(S) ==
  [c \in S |-> <<standings[c].points, standings[c].gd, standings[c].gf, -CodeRank[c]>>]

LEMMA TableKeyComparable ==
  ASSUME Rows, NEW S \in SUBSET Countries
  PROVE  Comparable(TableKey(S)) /\ DOMAIN TableKey(S) = S
<1> DEFINE key == TableKey(S)
<1>1. DOMAIN key = S /\ IsFiniteSet(S)
  BY CodesOfContest, FS_Subset DEF TableKey
<1>2. ASSUME NEW c \in S
      PROVE  /\ DOMAIN key[c] = 1 .. 4 /\ \A i \in 1 .. 4 : key[c][i] \in Int
             /\ key[c][4] = -CodeRank[c]
  <2>1. key[c] = <<standings[c].points, standings[c].gd, standings[c].gf, -CodeRank[c]>>
    BY DEF TableKey
  <2>2. /\ standings[c].points \in Int /\ standings[c].gd \in Int
        /\ standings[c].gf \in Int
    BY DEF Rows, Book!StandingRow
  <2>3. -CodeRank[c] \in Int
    BY CodesOfContest
  <2> QED
    BY <2>1, <2>2, <2>3
<1>3. ASSUME NEW c \in S, NEW d \in S, \A i \in DOMAIN key[c] : key[c][i] = key[d][i]
      PROVE  c = d
  <2>1. 4 \in DOMAIN key[c]
    BY <1>2
  <2>2. key[c][4] = key[d][4]
    BY <1>3, <2>1
  <2>3. -CodeRank[c] = -CodeRank[d] /\ CodeRank[c] \in Int /\ CodeRank[d] \in Int
    BY <1>2, <2>2, CodesOfContest
  <2>4. CodeRank[c] = CodeRank[d]
    BY <2>3
  <2> QED
    BY <2>4, CodesOfContest
<1> HIDE DEF key
<1>4. Comparable(key)
  <2>1. 4 \in Nat
    OBVIOUS
  <2> QED
    BY <1>1, <1>2, <1>3, <2>1 DEF Comparable
<1> QED
  BY <1>1, <1>4 DEF key

LEMMA BestFirstOrders ==
  ASSUME Rows, NEW S \in SUBSET Countries
  PROVE  /\ Orders(BestFirst(S), S)
         /\ \A i, j \in 1 .. Cardinality(S) :
              i < j => Ahead(TableKey(S), BestFirst(S)[i], BestFirst(S)[j])
<1>1. BestFirst(S) = Sorted(TableKey(S))
  BY DEF BestFirst, TableKey
<1>2. Comparable(TableKey(S)) /\ DOMAIN TableKey(S) = S
  BY TableKeyComparable
<1> QED
  BY <1>1, <1>2, SortedIsOrder, SortedOrders

\* Who is ahead has at least as many points.
LEMMA AheadHasPoints ==
  ASSUME Rows, NEW S \in SUBSET Countries, NEW c \in S, NEW d \in S,
         Ahead(TableKey(S), c, d)
  PROVE  standings[c].points >= standings[d].points
<1>1. /\ TableKey(S)[c][1] = standings[c].points /\ TableKey(S)[d][1] = standings[d].points
      /\ DOMAIN TableKey(S)[c] = 1 .. 4
  BY DEF TableKey
<1>2. standings[c].points \in Int /\ standings[d].points \in Int
  BY DEF Rows, Book!StandingRow
<1>3. PICK i \in 1 .. 4 : /\ TableKey(S)[c][i] > TableKey(S)[d][i]
                          /\ \A j \in 1 .. i - 1 : TableKey(S)[c][j] = TableKey(S)[d][j]
  BY <1>1 DEF Ahead
<1>4. CASE i = 1
  BY <1>1, <1>2, <1>3, <1>4
<1>5. CASE i > 1
  <2>1. TableKey(S)[c][1] = TableKey(S)[d][1]
    BY <1>3, <1>5
  <2> QED
    BY <1>1, <1>2, <2>1
<1> QED
  BY <1>4, <1>5

\* A group has four countries.
LEMMA FourCountries ==
  ASSUME NEW l \in Letters
  PROVE  CountriesOf(l) \in SUBSET Countries /\ Cardinality(CountriesOf(l)) = 4
<1> DEFINE I == 1 .. 4
           f == [i \in I |-> Groups[l][i]]
<1>1. CountriesOf(l) = {Groups[l][i] : i \in 1 .. 4}
  BY GroupsOfContest, Zenon
<1>2. \A i, j \in I : f[i] = f[j] => i = j
  BY OnePlace
<1>3. f \in [I -> CountriesOf(l)] /\ \A c \in CountriesOf(l) : \E i \in I : f[i] = c
  BY <1>1
<1>4. PICK n \in Nat : n = 4
  OBVIOUS
<1>5. /\ f \in [1 .. n -> CountriesOf(l)] /\ \A i, j \in 1 .. n : f[i] = f[j] => i = j
      /\ \A c \in CountriesOf(l) : \E i \in 1 .. n : f[i] = c
  BY <1>2, <1>3, <1>4
<1> HIDE DEF f
<1>6. Cardinality(CountriesOf(l)) = 4
  <2> DEFINE T == CountriesOf(l)
  <2> HIDE DEF T
  <2>1. f \in [1 .. n -> T]
    BY <1>5 DEF T
  <2>2. (\A i, j \in 1 .. n : f[i] = f[j] => i = j) /\ (\A c \in T : \E i \in 1 .. n : f[i] = c)
    BY <1>5 DEF T
  <2>3. Cardinality(T) = n
    BY <2>1, <2>2, Numbered
  <2> QED
    BY <1>4, <2>3 DEF T
<1>7. CountriesOf(l) \in SUBSET Countries
  BY <1>1, MembersOfGroup
<1> QED
  BY <1>6, <1>7, Zenon
LEMMA Places ==
  /\ \A i \in 0 .. 15 : <<1, i>> \in Bracket
  /\ \A i : <<2, i>> \in Bracket <=> i \in 0 .. 7
  /\ \A i : <<3, i>> \in Bracket <=> i \in 0 .. 3
  /\ \A i : <<4, i>> \in Bracket <=> i \in 0 .. 1
  /\ \A i : <<5, i>> \in Bracket <=> i \in 0 .. 1
  BY MatchesOfContest

\* The columns CreateMatches inserts.
LEMMA Columns ==
  ASSUME NEW m \in AllMatches
  PROVE  /\ RoundOf[m] = m[1]
         /\ m[1] = 0 => IndexOf[m] = Null /\ PairOf[m].c1 = m[2] /\ PairOf[m].c2 = m[3]
         /\ m[1] # 0 => IndexOf[m] = m[2] /\ PairOf[m].c1 = Null /\ PairOf[m].c2 = Null
<1>1. RoundOf[m] = m[1]
  BY DEF RoundOf
<1>2. IndexOf[m] = IF m[1] = 0 THEN Null ELSE m[2]
  BY DEF IndexOf
<1>3. PairOf[m] = IF m[1] = 0 THEN [c1 |-> m[2], c2 |-> m[3]]
                  ELSE [c1 |-> Null, c2 |-> Null]
  BY DEF PairOf
<1> QED
  BY <1>1, <1>2, <1>3

LEMMA GroupMatch ==
  ASSUME NEW m \in GroupMatches
  PROVE  /\ m \in AllMatches /\ m \notin Bracket /\ m[1] = 0
         /\ RoundOf[m] = 0 /\ IndexOf[m] = Null
         /\ PairOf[m].c1 = m[2] /\ PairOf[m].c2 = m[3]
         /\ m[2] \in Countries /\ m[3] \in Countries /\ m[2] # m[3]
         /\ Letter[m[2]] = Letter[m[3]] /\ Letter[m[2]] \in Letters
<1>1. /\ m[1] = 0 /\ m[2] \in Countries /\ m[3] \in Countries /\ m[2] # m[3]
      /\ Letter[m[2]] = Letter[m[3]] /\ Letter[m[2]] \in Letters
  BY MatchesOfContest
<1>2. m \in AllMatches
  BY DEF AllMatches
<1>3. m \notin Bracket
  <2>1. \A n \in Bracket : n[1] \in 1 .. 5
    BY MatchesOfContest
  <2> QED
    BY <1>1, <2>1
<1> QED
  BY <1>1, <1>2, <1>3, Columns

LEMMA BracketMatch ==
  ASSUME NEW m \in Bracket
  PROVE  /\ m \in AllMatches /\ m \notin GroupMatches
         /\ m[1] \in 1 .. 5 /\ m[2] \in 0 .. 15 /\ m = <<m[1], m[2]>>
         /\ RoundOf[m] = m[1] /\ IndexOf[m] = m[2]
         /\ PairOf[m].c1 = Null /\ PairOf[m].c2 = Null
<1>1. m[1] \in 1 .. 5 /\ m[2] \in 0 .. 15 /\ m = <<m[1], m[2]>>
  BY MatchesOfContest
<1>2. m \in AllMatches
  BY DEF AllMatches
<1>3. m \notin GroupMatches
  BY GroupMatch
<1>4. m[1] # 0
  BY <1>1
<1> QED
  BY <1>1, <1>2, <1>3, <1>4, Columns

LEMMA GroupOrBracket ==
  ASSUME NEW m \in AllMatches
  PROVE  m \in GroupMatches \/ m \in Bracket
  BY DEF AllMatches

----------------------------------------------------------------------------
(***************************************************************************)
(* The program begins                                                      *)
(***************************************************************************)
\* An unplayed row is a row.
LEMMA UnplayedRow ==
  ASSUME NEW m \in AllMatches
  PROVE  /\ Book!Unplayed(m) \in Book!MatchRow
         /\ Book!Unplayed(m).g1 = Null /\ Book!Unplayed(m).g2 = Null
         /\ Book!Unplayed(m).p1 = Null /\ Book!Unplayed(m).p2 = Null
         /\ Book!Unplayed(m).cs1 = Null /\ Book!Unplayed(m).cs2 = Null
         /\ m \in GroupMatches => /\ Book!Unplayed(m).c1 = m[2]
                                  /\ Book!Unplayed(m).c2 = m[3]
         /\ m \in Bracket => /\ Book!Unplayed(m).c1 = Null
                             /\ Book!Unplayed(m).c2 = Null
<1>1. CASE m \in GroupMatches
  <2>1. /\ PairOf[m].c1 = m[2] /\ PairOf[m].c2 = m[3]
        /\ m[2] \in Countries /\ m[3] \in Countries /\ m \notin Bracket
    BY <1>1, GroupMatch
  <2> QED
    BY <1>1, <2>1 DEF Book!Unplayed, Book!MatchRow, Book!Slot, Book!Score
<1>2. CASE m \in Bracket
  <2>1. PairOf[m].c1 = Null /\ PairOf[m].c2 = Null /\ m \notin GroupMatches
    BY <1>2, BracketMatch
  <2> QED
    BY <1>2, <2>1 DEF Book!Unplayed, Book!MatchRow, Book!Slot, Book!Score
<1> QED
  BY <1>1, <1>2, GroupOrBracket

LEMMA BracketKnown == \A m \in Bracket, slot \in {0, 1} : m[1] > 1 => Feeder(m, slot) \in Bracket
<1> TAKE m \in Bracket, slot \in {0, 1}
<1> HAVE m[1] > 1
<1>1. m = <<m[1], m[2]>> /\ m[1] \in 1 .. 5
  BY BracketMatch
<1>2. CASE m[1] = 2
  <2>1. m[2] \in 0 .. 7
    BY <1>1, <1>2, Places
  <2>2. 2 * m[2] + slot \in 0 .. 15 /\ m[1] - 1 = 1
    BY <1>2, <2>1
  <2> QED
    BY <1>2, <2>2, Places DEF Feeder
<1>3. CASE m[1] = 3
  <2>1. m[2] \in 0 .. 3
    BY <1>1, <1>3, Places
  <2>2. 2 * m[2] + slot \in 0 .. 7 /\ m[1] - 1 = 2
    BY <1>3, <2>1
  <2> QED
    BY <1>3, <2>2, Places DEF Feeder
<1>4. CASE m[1] = 4
  <2>1. m[2] \in 0 .. 1
    BY <1>1, <1>4, Places
  <2>2. 2 * m[2] + slot \in 0 .. 3 /\ m[1] - 1 = 3
    BY <1>4, <2>1
  <2> QED
    BY <1>4, <2>2, Places DEF Feeder
<1>5. CASE m[1] = 5
  <2>1. slot \in 0 .. 1
    OBVIOUS
  <2> QED
    BY <1>5, <2>1, Places DEF Feeder
<1> QED
  BY <1>1, <1>2, <1>3, <1>4, <1>5

\* Rounds by name.
LEMMA RoundNames ==
  /\ Rounds[1] = "round1" /\ Rounds[2] = "round2" /\ Rounds[3] = "round3"
  /\ Rounds[4] = "round4" /\ Rounds[5] = "round5"
  /\ \A r \in 1 .. 5 : Rounds[r] \in {"round1", "round2", "round3", "round4", "round5"}
  /\ \A r, k \in 1 .. 5 : Rounds[r] = Rounds[k] => r = k
<1>1. /\ Rounds[1] = "round1" /\ Rounds[2] = "round2" /\ Rounds[3] = "round3"
      /\ Rounds[4] = "round4" /\ Rounds[5] = "round5"
  BY DEF Rounds
<1>2. \A r \in 1 .. 5 : r = 1 \/ r = 2 \/ r = 3 \/ r = 4 \/ r = 5
  OBVIOUS
<1>3. \A r, k \in 1 .. 5 : Rounds[r] = Rounds[k] => r = k
  BY <1>1, <1>2
<1> QED
  BY <1>1, <1>2, <1>3

\* Before the group stage, nothing is done.
LEMMA NothingDone ==
  ASSUME Waiting, Course
  PROVE  /\ UnplayedGroupMatches = GroupMatches /\ Unranked = Letters
         /\ Unsettled = Letters /\ Unpaired = 0 .. 15 /\ UnplayedKnockout = Bracket
<1>1. stage \in {"users", "groupPicks", "subcontests"} \/ (stage = "report" /\ kind = "future")
  BY DEF Waiting, Course
<1>2. \A r \in 1 .. 5 : stage # Rounds[r]
  BY <1>1, RoundNames
<1> QED
  BY <1>1, <1>2 DEF Waiting, UnplayedGroupMatches, Unranked, Unsettled, Unpaired,
                    UnplayedKnockout

\* After TRUNCATE the tables are as they are before anything is done.
FreshTables ==
  /\ matches = [m \in AllMatches |-> Book!Unplayed(m)]
  /\ standings = [c \in Countries |-> ZeroStanding]
  /\ finals = [c \in Countries |-> NoRow]

LEMMA FreshAreTables ==
  ASSUME FreshTables, UnplayedGroupMatches = GroupMatches, Unranked = Letters,
         Unsettled = Letters, Unpaired = 0 .. 15, UnplayedKnockout = Bracket
  PROVE  Tables
<1>1. Rows
  <2>1. matches \in [AllMatches -> Book!MatchRow]
    BY UnplayedRow DEF FreshTables
  <2>2. standings \in [Countries -> Book!StandingRow] /\ \A c \in Countries : standings[c].cs = 0
    BY DEF FreshTables, ZeroStanding, Book!StandingRow
  <2>3. finals \in [Countries -> [rank : {Null} \cup 1 .. 4, qualifier : {Null} \cup BOOLEAN]]
    BY DEF FreshTables, NoRow
  <2> QED
    BY <2>1, <2>2, <2>3 DEF Rows
<1>2. \A m \in AllMatches : matches[m] = Book!Unplayed(m)
  BY DEF FreshTables
<1>3. GroupRows
  <2>1. ASSUME NEW m \in GroupMatches
        PROVE  /\ matches[m].c1 = m[2] /\ matches[m].c2 = m[3]
               /\ matches[m].cs1 = Null /\ matches[m].cs2 = Null
               /\ matches[m].g1 = Null /\ matches[m].g2 = Null
    BY <1>2, GroupMatch, UnplayedRow
  <2> QED
    BY <2>1 DEF GroupRows
<1>4. \A c \in Countries : finals[c].rank = Null /\ finals[c].qualifier = Null
  BY DEF FreshTables, NoRow
<1>5. Ranked
  BY <1>4, CountriesByLetter DEF Ranked
<1>6. Settled
  <2>1. Unranked # {}
    BY LettersOfContest
  <2> QED
    BY <1>4, <2>1 DEF Settled
<1>7. ASSUME NEW m \in Bracket
      PROVE  /\ matches[m].c1 = Null /\ matches[m].c2 = Null
             /\ matches[m].g1 = Null /\ matches[m].g2 = Null
             /\ matches[m].p1 = Null /\ matches[m].p2 = Null
  BY <1>2, BracketMatch, UnplayedRow
<1>8. Paired
  BY <1>7, Places DEF Paired
<1>9. KnockoutRows
  BY <1>7 DEF KnockoutRows
<1>10. Slots
  BY <1>7, BracketKnown DEF Slots, Book!InSlot
<1> QED
  BY <1>1, <1>3, <1>5, <1>6, <1>8, <1>9, <1>10 DEF Tables

----------------------------------------------------------------------------
(***************************************************************************)
(* Who is ranked, who advances                                             *)
(***************************************************************************)
AtRank(l, k) == BestFirst(CountriesOf(l))[k]

\* Once every group is ranked, each has one country at each rank.
LEMMA RankedGroups ==
  ASSUME Rows, Ranked, Unranked = {}
  PROVE  /\ \A l \in Letters, k \in 1 .. 4 :
              /\ AtRank(l, k) \in Countries /\ Letter[AtRank(l, k)] = l
              /\ finals[AtRank(l, k)].rank = k
         /\ \A c \in Countries : /\ finals[c].rank \in 1 .. 4
                                 /\ c = AtRank(Letter[c], finals[c].rank)
<1>1. ASSUME NEW l \in Letters, NEW k \in 1 .. 4
      PROVE  /\ AtRank(l, k) \in CountriesOf(l) /\ AtRank(l, k) \in Countries
             /\ Letter[AtRank(l, k)] = l /\ finals[AtRank(l, k)].rank = k
  <2>1. Orders(BestFirst(CountriesOf(l)), CountriesOf(l)) /\ Cardinality(CountriesOf(l)) = 4
    BY FourCountries, BestFirstOrders
  <2>2. AtRank(l, k) \in CountriesOf(l)
    BY <2>1 DEF AtRank, Orders
  <2>3. AtRank(l, k) \in Countries /\ Letter[AtRank(l, k)] = l
    BY <2>2, CountriesByLetter
  <2>4. finals[AtRank(l, k)].rank = k
    BY DEF Ranked, AtRank
  <2> QED
    BY <2>2, <2>3, <2>4
<1>2. ASSUME NEW c \in Countries
      PROVE  finals[c].rank \in 1 .. 4 /\ c = AtRank(Letter[c], finals[c].rank)
  <2> DEFINE l == Letter[c]
  <2>1. l \in Letters /\ c \in CountriesOf(l)
    BY MembersOfGroup, CountriesByLetter
  <2> HIDE DEF l
  <2>2. Orders(BestFirst(CountriesOf(l)), CountriesOf(l)) /\ Cardinality(CountriesOf(l)) = 4
    BY <2>1, FourCountries, BestFirstOrders
  <2>3. PICK k \in 1 .. 4 : BestFirst(CountriesOf(l))[k] = c
    BY <2>1, <2>2 DEF Orders
  <2>4. c = AtRank(l, k)
    BY <2>3 DEF AtRank
  <2>5. finals[c].rank = k
    BY <1>1, <2>1, <2>4
  <2> QED
    BY <2>4, <2>5 DEF l
<1> QED
  BY <1>1, <1>2

\* There are twelve third-placed countries.
LEMMA TwelveThirds ==
  ASSUME Rows, Ranked, Unranked = {}
  PROVE  /\ RankedThird \in SUBSET Countries /\ Cardinality(RankedThird) = 12
         /\ Orders(BestFirst(RankedThird), RankedThird)
         /\ \A c, d \in RankedThird : Letter[c] = Letter[d] => c = d
         /\ \A l \in Letters : \E c \in RankedThird : Letter[c] = l
<1>1. RankedThird \in SUBSET Countries
  BY DEF RankedThird
<1>2. \A l \in Letters : AtRank(l, 3) \in RankedThird /\ Letter[AtRank(l, 3)] = l
  <2>1. 3 \in 1 .. 4
    OBVIOUS
  <2> QED
    BY <2>1, RankedGroups DEF RankedThird
<1>3. \A c \in RankedThird : Letter[c] \in Letters /\ AtRank(Letter[c], 3) = c
  BY RankedGroups, MembersOfGroup DEF RankedThird
<1> DEFINE f == [l \in Letters |-> AtRank(l, 3)]
<1>4. PICK n \in Nat : n = 12
  OBVIOUS
<1>5. Letters = 1 .. n
  BY <1>4, LettersOfContest
<1>6. /\ f \in [1 .. n -> RankedThird] /\ \A i, j \in 1 .. n : f[i] = f[j] => i = j
      /\ \A c \in RankedThird : \E i \in 1 .. n : f[i] = c
  BY <1>2, <1>3, <1>5
<1> HIDE DEF f
<1>7. Cardinality(RankedThird) = n
  <2> DEFINE T == RankedThird
  <2> HIDE DEF T
  <2>1. f \in [1 .. n -> T]
    BY <1>6 DEF T
  <2>2. (\A i, j \in 1 .. n : f[i] = f[j] => i = j) /\ (\A c \in T : \E i \in 1 .. n : f[i] = c)
    BY <1>6 DEF T
  <2>3. Cardinality(T) = n
    BY <2>1, <2>2, Numbered
  <2> QED
    BY <2>3 DEF T
<1>8. Orders(BestFirst(RankedThird), RankedThird)
  BY <1>1, BestFirstOrders
<1> QED
  BY <1>1, <1>2, <1>3, <1>4, <1>7, <1>8

ThirdOrder == BestFirst(RankedThird)

\* What the query of the third-placed countries returns.
LEMMA ThirdsOrders ==
  ASSUME Rows, Ranked, Unranked = {}
  PROVE  /\ Thirds \in Seq(ToSet(Thirds)) /\ Len(Thirds) = 12 /\ DOMAIN Thirds = 1 .. 12
         /\ ThirdOrder \in [1 .. 12 -> RankedThird]
         /\ \A i, j \in 1 .. 12 : ThirdOrder[i] = ThirdOrder[j] => i = j
         /\ \A c \in RankedThird : \E i \in 1 .. 12 : ThirdOrder[i] = c
         /\ \A i \in 1 .. 12 : Thirds[i] = [letter |-> Letter[ThirdOrder[i]], advances |-> i <= 8]
         /\ \A x \in ToSet(Thirds) : \E i \in 1 .. 12 : x = Thirds[i]
         /\ \A x \in ToSet(Thirds) : x.letter \in Letters
         /\ \A x, y \in ToSet(Thirds) : x.letter = y.letter => x = y
         /\ {x.letter : x \in ToSet(Thirds)} = Letters
<1>1. /\ ThirdOrder \in [1 .. 12 -> RankedThird]
      /\ \A i, j \in 1 .. 12 : ThirdOrder[i] = ThirdOrder[j] => i = j
      /\ \A c \in RankedThird : \E i \in 1 .. 12 : ThirdOrder[i] = c
  BY SMTT(30), TwelveThirds DEF Orders, ThirdOrder
<1>2. Thirds = [i \in 1 .. 12 |-> [letter |-> Letter[ThirdOrder[i]], advances |-> i <= 8]]
  BY <1>1 DEF Thirds, ThirdOrder, RankedThird
<1>3. Len(Thirds) = 12 /\ DOMAIN Thirds = 1 .. 12
  BY <1>2
<1>4. Thirds \in Seq(ToSet(Thirds)) /\ \A x \in ToSet(Thirds) : \E i \in 1 .. 12 : x = Thirds[i]
  <2>1. \A x : x \in ToSet(Thirds) <=> \E i \in 1 .. 12 : x = Thirds[i]
    BY <1>3 DEF ToSet
  <2> DEFINE T == ToSet(Thirds)
  <2>2. \A i \in 1 .. 12 : Thirds[i] \in T
    BY <2>1
  <2> HIDE DEF T
  <2>3. Thirds = [i \in 1 .. 12 |-> Thirds[i]]
    BY <1>2
  <2>4. Thirds \in [1 .. 12 -> T]
    BY <2>2, <2>3
  <2>5. Thirds \in Seq(T)
    <3>1. PICK n \in Nat : n = 12
      OBVIOUS
    <3>2. Thirds \in [1 .. n -> T]
      BY <2>4, <3>1
    <3> QED
      BY <3>2
  <2> QED
    BY <2>1, <2>5 DEF T
<1>5. \A i \in 1 .. 12 : Thirds[i] = [letter |-> Letter[ThirdOrder[i]], advances |-> i <= 8]
  BY <1>2
<1>6. \A i \in 1 .. 12 : Thirds[i].letter = Letter[ThirdOrder[i]] /\ Thirds[i].letter \in Letters
  BY <1>1, <1>5, MembersOfGroup, TwelveThirds
<1>7. \A x, y \in ToSet(Thirds) : x.letter = y.letter => x = y
  <2> TAKE x, y \in ToSet(Thirds)
  <2> HAVE x.letter = y.letter
  <2>1. PICK i \in 1 .. 12 : x = Thirds[i]
    BY <1>4
  <2>2. PICK j \in 1 .. 12 : y = Thirds[j]
    BY <1>4
  <2>3. Letter[ThirdOrder[i]] = Letter[ThirdOrder[j]]
    BY <1>6, <2>1, <2>2
  <2>4. ThirdOrder[i] = ThirdOrder[j]
    BY <1>1, <2>3, TwelveThirds
  <2> QED
    BY <1>1, <2>1, <2>2, <2>4
<1>8. \A l \in Letters : \E x \in ToSet(Thirds) : x.letter = l
  <2> TAKE l \in Letters
  <2>1. PICK c \in RankedThird : Letter[c] = l
    BY TwelveThirds
  <2>2. PICK i \in 1 .. 12 : ThirdOrder[i] = c
    BY <1>1
  <2>3. Thirds[i].letter = l /\ Thirds[i] \in ToSet(Thirds)
    BY <1>3, <1>6, <2>1, <2>2 DEF ToSet
  <2> QED
    BY <2>3
<1>9. {x.letter : x \in ToSet(Thirds)} = Letters
  <2>1. \A x \in ToSet(Thirds) : x.letter \in Letters
    BY <1>4, <1>6
  <2> QED
    BY <1>8, <2>1
<1> QED
  BY <1>1, <1>3, <1>4, <1>5, <1>6, <1>7, <1>9
\* The queries return lists of what they select, each once.
LEMMA LettersInOrder ==
  ASSUME Rows, Ranked, Unranked = {}
  PROVE  Orders(InOrderOfLetters(Thirds), ToSet(Thirds))
<1> DEFINE D == ToSet(Thirds)
           key == [x \in D |-> <<-x.letter>>]
<1>1. IsFiniteSet(D)
  <2> DEFINE I == 1 .. 12
  <2>1. IsFiniteSet(I)
    BY LettersOfContest
  <2>2. Thirds \in [I -> D] /\ \A x \in D : \E i \in I : Thirds[i] = x
    BY ThirdsOrders DEF ToSet
  <2> HIDE DEF I, D
  <2>3. Thirds \in Surjection(I, D)
    BY <2>2, Fun_IsSurj
  <2> QED
    BY <2>1, <2>3, FS_Surjection
<1>2. \A x \in D : x.letter \in Int /\ \A y \in D : x.letter = y.letter => x = y
  BY ThirdsOrders, LettersOfContest
<1> HIDE DEF D
<1>3. DOMAIN key = D /\ \A x \in D : key[x] = <<-x.letter>>
  OBVIOUS
<1> HIDE DEF key
<1>4. \A x \in D : DOMAIN key[x] = 1 .. 1 /\ key[x][1] = -x.letter /\ key[x][1] \in Int
  BY <1>2, <1>3
<1>5. Comparable(key)
  <2>1. ASSUME NEW x \in D, NEW y \in D, \A i \in DOMAIN key[x] : key[x][i] = key[y][i]
        PROVE  x = y
    <3>1. key[x][1] = key[y][1]
      BY <1>4, <2>1
    <3>2. x.letter \in Int /\ y.letter \in Int /\ -x.letter = -y.letter
      BY <1>2, <1>4, <3>1
    <3>3. x.letter = y.letter
      BY <3>2
    <3> QED
      BY <1>2, <3>3
  <2>2. \A x \in D : DOMAIN key[x] = 1 .. 1 /\ \A i \in 1 .. 1 : key[x][i] \in Int
    BY <1>4
  <2>3. 1 \in Nat
    OBVIOUS
  <2> QED
    BY <1>1, <1>3, <2>1, <2>2, <2>3 DEF Comparable
<1>6. Orders(Sorted(key), D)
  BY <1>3, <1>5, SortedIsOrder
<1> QED
  BY <1>6 DEF InOrderOfLetters, key, D

LEMMA AnyOrderOrders == ASSUME dice \in Dice, todo = <<>> PROVE Orders(AnyOrder, GroupMatches)
<1> DEFINE sign == IF Roll(0, 2) = 1 THEN 1 ELSE -1
           key == [m \in GroupMatches |-> <<sign * CodeRank[m[2]], sign * CodeRank[m[3]]>>]
<1>1. IsFiniteSet(GroupMatches)
  BY MatchesOfContest
<1>2. sign = 1 \/ sign = -1
  OBVIOUS
<1> HIDE DEF sign
<1>3. DOMAIN key = GroupMatches
      /\ \A m \in GroupMatches : key[m] = <<sign * CodeRank[m[2]], sign * CodeRank[m[3]]>>
  OBVIOUS
<1>4. \A m \in GroupMatches : CodeRank[m[2]] \in Int /\ CodeRank[m[3]] \in Int
  BY GroupMatch, CodesOfContest
<1> HIDE DEF key
<1>5. ASSUME NEW m \in GroupMatches
      PROVE  /\ DOMAIN key[m] = 1 .. 2 /\ key[m][1] = sign * CodeRank[m[2]]
             /\ key[m][2] = sign * CodeRank[m[3]] /\ key[m][1] \in Int /\ key[m][2] \in Int
  <2>1. key[m] = <<sign * CodeRank[m[2]], sign * CodeRank[m[3]]>>
    BY <1>3
  <2>2. sign * CodeRank[m[2]] \in Int /\ sign * CodeRank[m[3]] \in Int
    BY <1>2, <1>4
  <2> QED
    BY <2>1, <2>2
<1>6. Comparable(key)
  <2>1. ASSUME NEW m \in GroupMatches, NEW n \in GroupMatches,
               \A i \in DOMAIN key[m] : key[m][i] = key[n][i]
        PROVE  m = n
    <3>1. key[m][1] = key[n][1] /\ key[m][2] = key[n][2]
      BY <1>5, <2>1
    <3>2. /\ CodeRank[m[2]] \in Int /\ CodeRank[n[2]] \in Int
          /\ sign * CodeRank[m[2]] = sign * CodeRank[n[2]]
          /\ CodeRank[m[3]] \in Int /\ CodeRank[n[3]] \in Int
          /\ sign * CodeRank[m[3]] = sign * CodeRank[n[3]]
      BY <1>4, <1>5, <3>1
    <3>3. CodeRank[m[2]] = CodeRank[n[2]] /\ CodeRank[m[3]] = CodeRank[n[3]]
      BY SMTT(30), <1>2, <3>2
    <3>4. m[2] = n[2] /\ m[3] = n[3]
      BY <3>3, GroupMatch, CodesOfContest
    <3>5. m = <<0, m[2], m[3]>> /\ n = <<0, n[2], n[3]>>
      BY MatchesOfContest
    <3> QED
      BY <3>4, <3>5
  <2>2. \A m \in GroupMatches : DOMAIN key[m] = 1 .. 2 /\ \A i \in 1 .. 2 : key[m][i] \in Int
    <3> TAKE m \in GroupMatches
    <3>1. \A i \in 1 .. 2 : i = 1 \/ i = 2
      OBVIOUS
    <3> QED
      BY <1>5, <3>1
  <2>3. 2 \in Nat
    OBVIOUS
  <2> QED
    BY <1>1, <1>3, <2>1, <2>2, <2>3 DEF Comparable
<1>7. Orders(Sorted(key), GroupMatches)
  BY <1>3, <1>6, SortedIsOrder
<1> QED
  BY <1>7 DEF AnyOrder, key, sign

LEMMA PlayableOrders ==
  ASSUME NEW r \in 1 .. 5, NEW S,
         S = {m \in Bracket : RoundOf[m] = r /\ Book!HasCountries(matches[m])}
  PROVE  Orders(Playable(r), S)
<1> DEFINE key == [m \in S |-> <<-IndexOf[m]>>]
<1>1. IsFiniteSet(S) /\ \A m \in S : m \in Bracket /\ m[1] = r
  <2> DEFINE I == 0 .. 15
             img == {m \in Bracket : m[1] = r}
             T == {i \in I : <<r, i>> \in Bracket}
             f == [i \in T |-> <<r, i>>]
  <2>1. IsFiniteSet(I)
    <3>1. PICK a \in Int, b \in Int : a = 0 /\ b = 15
      OBVIOUS
    <3>2. I = a .. b
      BY <3>1
    <3> HIDE DEF I
    <3> QED
      BY <3>2, FiniteInterval
  <2>2. T \subseteq I
    OBVIOUS
  <2>3. f \in [T -> img] /\ \A m \in img : \E i \in T : f[i] = m
    <3>1. ASSUME NEW m \in img PROVE m[2] \in T /\ f[m[2]] = m
      BY <3>1, BracketMatch
    <3>2. \A i \in T : f[i] \in img
      BY BracketMatch
    <3> QED
      BY <3>1, <3>2
  <2>4. S \subseteq img /\ \A m \in S : m \in Bracket /\ m[1] = r
    BY BracketMatch
  <2>5. IsFiniteSet(T)
    <3> HIDE DEF I, T
    <3> QED
      BY <2>1, <2>2, FS_Subset
  <2> HIDE DEF I, T, f, img
  <2>6. f \in Surjection(T, img)
    BY <2>3, Fun_IsSurj
  <2>7. IsFiniteSet(img)
    BY <2>5, <2>6, FS_Surjection
  <2> QED
    BY <2>4, <2>7, FS_Subset
<1>2. DOMAIN key = S /\ \A m \in S : key[m] = <<-IndexOf[m]>>
  OBVIOUS
<1>3. \A m \in S : IndexOf[m] = m[2] /\ m[2] \in Int /\ m = <<r, m[2]>>
  BY <1>1, BracketMatch
<1> HIDE DEF key
<1>4. \A m \in S : DOMAIN key[m] = 1 .. 1 /\ key[m][1] = -m[2] /\ key[m][1] \in Int
  BY <1>2, <1>3
<1>5. Comparable(key)
  <2>1. ASSUME NEW m \in S, NEW n \in S, \A i \in DOMAIN key[m] : key[m][i] = key[n][i]
        PROVE  m = n
    <3>1. key[m][1] = key[n][1]
      BY <1>4, <2>1
    <3>2. m[2] \in Int /\ n[2] \in Int /\ -m[2] = -n[2]
      BY <1>3, <1>4, <3>1
    <3>3. m[2] = n[2]
      BY <3>2
    <3> QED
      BY <1>3, <3>3
  <2>2. \A m \in S : DOMAIN key[m] = 1 .. 1 /\ \A i \in 1 .. 1 : key[m][i] \in Int
    BY <1>4
  <2>3. PICK k \in Nat : k = 1
    OBVIOUS
  <2>6. \A m \in S : DOMAIN key[m] = 1 .. k /\ \A i \in 1 .. k : key[m][i] \in Int
    BY <2>2, <2>3
  <2>4. IsFiniteSet(S) /\ DOMAIN key = S
    BY <1>1, <1>2
  <2>5. \A m, n \in S : (\A i \in DOMAIN key[m] : key[m][i] = key[n][i]) => m = n
    BY <2>1
  <2> QED
    BY <2>4, <2>5, <2>6, IsComparable
<1>6. Orders(Sorted(key), S)
  BY <1>2, <1>5, SortedIsOrder
<1> QED
  BY <1>6 DEF Playable, key
\* The first two of every group and eight thirds go through, 32 in all.
Through ==
  {c \in Countries : \/ finals[c].rank \in {1, 2}
                     \/ finals[c].rank = 3 /\ finals[c].qualifier = TRUE}

LEMMA SettledThirds ==
  ASSUME Rows, Ranked, Settled, Unranked = {}, Unsettled = {}
  PROVE  /\ \A i \in 1 .. 12 : finals[ThirdOrder[i]].qualifier = (i <= 8)
         /\ \A c \in Countries : c \notin RankedThird => finals[c].qualifier = Null
  BY DEF Settled, ThirdOrder

LEMMA ThroughAre32 ==
  ASSUME Rows, Ranked, Settled, Unranked = {}, Unsettled = {}
  PROVE  /\ Through \in SUBSET Countries /\ IsFiniteSet(Through) /\ Cardinality(Through) = 32
<1>1. \A c \in Countries : finals[c].rank = 3 <=> c \in RankedThird
  BY DEF RankedThird
<1>2. /\ \A i \in 1 .. 12 : ThirdOrder[i] \in RankedThird /\ ThirdOrder[i] \in Countries
      /\ \A i, j \in 1 .. 12 : ThirdOrder[i] = ThirdOrder[j] => i = j
      /\ \A c \in RankedThird : \E i \in 1 .. 12 : ThirdOrder[i] = c
  BY ThirdsOrders DEF RankedThird
<1>3. \A i \in 1 .. 12 : finals[ThirdOrder[i]].qualifier = (i <= 8)
                         /\ finals[ThirdOrder[i]].rank = 3
  BY <1>1, <1>2, SettledThirds
<1>4. \A l \in 1 .. 12, k \in 1 .. 4 :
        /\ AtRank(l, k) \in Countries /\ Letter[AtRank(l, k)] = l
        /\ finals[AtRank(l, k)].rank = k
  BY RankedGroups, LettersOfContest
<1> DEFINE f == [n \in 1 .. 32 |-> IF n <= 12 THEN AtRank(n, 1)
                                   ELSE IF n <= 24 THEN AtRank(n - 12, 2)
                                   ELSE ThirdOrder[n - 24]]
<1>5. \A n \in 1 .. 12 : f[n] = AtRank(n, 1) /\ f[n + 12] = AtRank(n, 2)
  <2> TAKE n \in 1 .. 12
  <2>1. n \in 1 .. 32 /\ n <= 12 /\ n + 12 \in 1 .. 32 /\ ~(n + 12 <= 12) /\ n + 12 <= 24
        /\ (n + 12) - 12 = n
    OBVIOUS
  <2> QED
    BY <2>1
<1>6. \A n \in 1 .. 8 : f[n + 24] = ThirdOrder[n]
  <2> TAKE n \in 1 .. 8
  <2>1. n + 24 \in 1 .. 32 /\ ~(n + 24 <= 12) /\ ~(n + 24 <= 24) /\ (n + 24) - 24 = n
    OBVIOUS
  <2> QED
    BY <2>1
<1>7. \A n \in 1 .. 32 : \/ n \in 1 .. 12
                         \/ \E k \in 1 .. 12 : n = k + 12
                         \/ \E k \in 1 .. 8 : n = k + 24
  <2> TAKE n \in 1 .. 32
  <2>1. CASE n <= 12
    BY <2>1
  <2>2. CASE n > 12 /\ n <= 24
    <3>1. n - 12 \in 1 .. 12 /\ n = (n - 12) + 12
      BY <2>2
    <3> QED
      BY <3>1
  <2>3. CASE n > 24
    <3>1. n - 24 \in 1 .. 8 /\ n = (n - 24) + 24
      BY <2>3
    <3> QED
      BY <3>1
  <2> QED
    BY <2>1, <2>2, <2>3
<1> HIDE DEF f
<1>8. \A n \in 1 .. 12 : /\ f[n] \in Countries /\ finals[f[n]].rank = 1 /\ Letter[f[n]] = n
                         /\ f[n + 12] \in Countries /\ finals[f[n + 12]].rank = 2
                         /\ Letter[f[n + 12]] = n
  BY <1>4, <1>5
<1>9. \A n \in 1 .. 8 : /\ f[n + 24] \in Countries /\ finals[f[n + 24]].rank = 3
                        /\ finals[f[n + 24]].qualifier = TRUE
  <2> TAKE n \in 1 .. 8
  <2>1. n \in 1 .. 12 /\ n <= 8
    OBVIOUS
  <2>2. f[n + 24] = ThirdOrder[n]
    BY <1>6, Zenon
  <2>3. finals[ThirdOrder[n]].qualifier = TRUE /\ finals[ThirdOrder[n]].rank = 3
    BY <1>3, <2>1, Zenon
  <2>4. ThirdOrder[n] \in Countries
    BY <1>2, <2>1, Zenon
  <2> QED
    BY <2>2, <2>3, <2>4, Zenon
<1>10. \A n \in 1 .. 32 : f[n] \in Through
  <2> TAKE n \in 1 .. 32
  <2>1. CASE n \in 1 .. 12
    BY <1>8, <2>1 DEF Through
  <2>2. CASE \E k \in 1 .. 12 : n = k + 12
    BY <1>8, <2>2 DEF Through
  <2>3. CASE \E k \in 1 .. 8 : n = k + 24
    BY <1>9, <2>3 DEF Through
  <2> QED
    BY <1>7, <2>1, <2>2, <2>3
<1>11. \A c \in Through : \E n \in 1 .. 32 : f[n] = c
  <2> TAKE c \in Through
  <2>1. /\ c \in Countries
        /\ \/ finals[c].rank \in {1, 2}
           \/ finals[c].rank = 3 /\ finals[c].qualifier = TRUE
    BY DEF Through
  <2>2. Letter[c] \in 1 .. 12 /\ c = AtRank(Letter[c], finals[c].rank)
    BY <2>1, RankedGroups, MembersOfGroup, LettersOfContest
  <2> DEFINE l == Letter[c]
  <2>3. CASE finals[c].rank = 1
    <3>1. l \in 1 .. 32 /\ f[l] = c
      BY <1>5, <2>2, <2>3
    <3> QED
      BY <3>1
  <2>4. CASE finals[c].rank = 2
    <3>1. l + 12 \in 1 .. 32 /\ f[l + 12] = c
      BY <1>5, <2>2, <2>4
    <3> QED
      BY <3>1
  <2>5. CASE finals[c].rank = 3 /\ finals[c].qualifier = TRUE
    <3>1. PICK i \in 1 .. 12 : ThirdOrder[i] = c
      BY <1>1, <1>2, <2>1, <2>5
    <3>2. i <= 8
      BY <1>3, <2>5, <3>1
    <3>3. i \in 1 .. 8 /\ i + 24 \in 1 .. 32
      BY <3>2
    <3> QED
      BY <1>6, <3>1, <3>3
  <2> QED
    BY <2>1, <2>3, <2>4, <2>5
<1>12. \A m, n \in 1 .. 32 : f[m] = f[n] => m = n
  <2> TAKE m, n \in 1 .. 32
  <2> HAVE f[m] = f[n]
  <2>1. CASE m \in 1 .. 12
    <3>1. finals[f[m]].rank = 1 /\ Letter[f[m]] = m
      BY <1>8, <2>1
    <3>2. n \in 1 .. 12
      <4>1. ASSUME NEW k \in 1 .. 12, n = k + 12 PROVE FALSE
        BY <1>8, <3>1, <4>1
      <4>2. ASSUME NEW k \in 1 .. 8, n = k + 24 PROVE FALSE
        BY <1>9, <3>1, <4>2
      <4> QED
        BY <1>7, <4>1, <4>2
    <3> QED
      BY <1>8, <3>1, <3>2
  <2>2. CASE \E k \in 1 .. 12 : m = k + 12
    <3>0. PICK k \in 1 .. 12 : m = k + 12
      BY <2>2
    <3>1. finals[f[m]].rank = 2 /\ Letter[f[m]] = k
      BY <1>8, <3>0
    <3>2. \E j \in 1 .. 12 : n = j + 12
      <4>1. n \notin 1 .. 12
        BY <1>8, <3>1
      <4>2. ASSUME NEW j \in 1 .. 8, n = j + 24 PROVE FALSE
        BY <1>9, <3>1, <4>2
      <4> QED
        BY <1>7, <4>1, <4>2
    <3>3. PICK j \in 1 .. 12 : n = j + 12
      BY <3>2
    <3>4. j = k
      BY <1>8, <3>1, <3>3
    <3> QED
      BY <3>0, <3>3, <3>4
  <2>3. CASE \E k \in 1 .. 8 : m = k + 24
    <3>0. PICK k \in 1 .. 8 : m = k + 24
      BY <2>3
    <3>1. finals[f[m]].rank = 3
      BY <1>9, <3>0
    <3>6. f[m] = ThirdOrder[k]
      BY <1>6, <3>0
    <3>2. \E j \in 1 .. 8 : n = j + 24
      <4>1. n \notin 1 .. 12
        BY <1>8, <3>1
      <4>2. ASSUME NEW j \in 1 .. 12, n = j + 12 PROVE FALSE
        BY <1>8, <3>1, <4>2
      <4> QED
        BY <1>7, <4>1, <4>2
    <3>3. PICK j \in 1 .. 8 : n = j + 24
      BY <3>2
    <3>4. ThirdOrder[j] = ThirdOrder[k]
      BY <1>6, <3>3, <3>6
    <3>5. j = k
      <4>1. j \in 1 .. 12 /\ k \in 1 .. 12
        OBVIOUS
      <4> QED
        BY <1>2, <3>4, <4>1
    <3> QED
      BY <3>0, <3>3, <3>5
  <2> QED
    BY <1>7, <2>1, <2>2, <2>3
<1>13. f \in [1 .. 32 -> Through]
  <2>1. f = [n \in 1 .. 32 |-> f[n]]
    BY DEF f
  <2> QED
    BY <1>10, <2>1
<1>14. PICK n \in Nat : n = 32
  OBVIOUS
<1>15. IsFiniteSet(Through) /\ Cardinality(Through) = n
  <2> DEFINE T == Through
  <2> HIDE DEF T
  <2>1. f \in [1 .. n -> T]
    BY <1>13, <1>14 DEF T
  <2>2. (\A i, j \in 1 .. n : f[i] = f[j] => i = j) /\ (\A c \in T : \E i \in 1 .. n : f[i] = c)
    BY <1>11, <1>12, <1>14 DEF T
  <2>3. IsFiniteSet(T) /\ Cardinality(T) = n
    BY <2>1, <2>2, Numbered
  <2> QED
    BY <2>3 DEF T
<1> QED
  BY <1>14, <1>15 DEF Through

LEMMA AdvancingOrders ==
  ASSUME Rows, Ranked, Settled, Unranked = {}, Unsettled = {}
  PROVE  /\ Advancing \in [1 .. 32 -> Through] /\ Len(Advancing) = 32
         /\ \A i, j \in 1 .. 32 : Advancing[i] = Advancing[j] => i = j
         /\ \A c \in Through : \E i \in 1 .. 32 : Advancing[i] = c
<1> DEFINE S == Through
           key == [c \in S |-> <<-Letter[c], -finals[c].rank>>]
<1>1. S \in SUBSET Countries /\ IsFiniteSet(S) /\ Cardinality(S) = 32
  BY ThroughAre32
<1>2. DOMAIN key = S /\ \A c \in S : key[c] = <<-Letter[c], -finals[c].rank>>
  OBVIOUS
<1>3. Advancing = Sorted(key)
  BY DEF Advancing, Through
<1> HIDE DEF key, S
<1>4. \A c \in S : /\ Letter[c] \in Int /\ finals[c].rank \in Int
                   /\ c = AtRank(Letter[c], finals[c].rank)
  BY <1>1, RankedGroups, MembersOfGroup, LettersOfContest
<1>5. ASSUME NEW c \in S
      PROVE  /\ DOMAIN key[c] = 1 .. 2 /\ key[c][1] = -Letter[c] /\ key[c][2] = -finals[c].rank
             /\ key[c][1] \in Int /\ key[c][2] \in Int
  BY <1>2, <1>4
<1>6. Comparable(key)
  <2>1. ASSUME NEW c \in S, NEW d \in S, \A i \in DOMAIN key[c] : key[c][i] = key[d][i]
        PROVE  c = d
    <3>1. key[c][1] = key[d][1] /\ key[c][2] = key[d][2]
      BY <1>5, <2>1
    <3>2. /\ Letter[c] \in Int /\ Letter[d] \in Int /\ -Letter[c] = -Letter[d]
          /\ finals[c].rank \in Int /\ finals[d].rank \in Int
          /\ -finals[c].rank = -finals[d].rank
      BY <1>4, <1>5, <3>1
    <3>3. Letter[c] = Letter[d] /\ finals[c].rank = finals[d].rank
      BY <3>2
    <3> QED
      BY <1>4, <3>3
  <2>2. \A c \in S : DOMAIN key[c] = 1 .. 2 /\ \A i \in 1 .. 2 : key[c][i] \in Int
    <3> TAKE c \in S
    <3>1. \A i \in 1 .. 2 : i = 1 \/ i = 2
      OBVIOUS
    <3> QED
      BY <1>5, <3>1
  <2>3. 2 \in Nat
    OBVIOUS
  <2> QED
    BY <1>1, <1>2, <2>1, <2>2, <2>3 DEF Comparable
<1>7. Orders(Advancing, S)
  BY <1>2, <1>3, <1>6, SortedIsOrder
<1>8. Len(Advancing) = 32
  BY <1>1, <1>7, OrderIsList
<1> QED
  BY <1>1, <1>7, <1>8 DEF Orders, S

----------------------------------------------------------------------------
(***************************************************************************)
(* From one loop to the next                                               *)
(***************************************************************************)
SameLeft ==
  /\ UnplayedGroupMatches' = UnplayedGroupMatches /\ Unranked' = Unranked
  /\ Unsettled' = Unsettled /\ Unpaired' = Unpaired /\ UnplayedKnockout' = UnplayedKnockout

\* What is left to do and the tables decide whether the invariant holds.
LEMMA TablesStay ==
  ASSUME Tables, UNCHANGED <<matches, standings, finals>>, SameLeft
  PROVE  Tables'
<1> USE DEF SameLeft
<1>1. Rows'
  BY DEF Tables, Rows
<1>2. GroupRows'
  BY DEF Tables, GroupRows
<1>3. Ranked'
  BY Zenon DEF Tables, Ranked, BestFirst
<1>4. Settled'
  BY Zenon DEF Tables, Settled, RankedThird, BestFirst
<1>5. Advancing' = Advancing
  BY DEF Advancing
<1>6. Paired'
  BY <1>5 DEF Tables, Paired
<1>7. KnockoutRows'
  BY DEF Tables, KnockoutRows, Played
<1>8. Slots'
  BY DEF Tables, Slots
<1> QED
  BY <1>1, <1>2, <1>3, <1>4, <1>6, <1>7, <1>8 DEF Tables

\* The pairs are a list, one for each match of the first round.
LEMMA PairsList ==
  /\ Pairs \in Seq(ToSet(Pairs)) /\ Distinct(Pairs) /\ Pairs # <<>>
  /\ \A x \in ToSet(Pairs) :
       /\ x.index \in 0 .. 15 /\ x = Pairs[x.index + 1]
       /\ x.c1 = Advancing[2 * x.index + 1] /\ x.c2 = Advancing[2 * x.index + 2]
  /\ {x.index : x \in ToSet(Pairs)} = 0 .. 15
<1>1. Pairs = [i \in 1 .. 16 |-> [index |-> i - 1, c1 |-> Advancing[2 * i - 1],
                                  c2 |-> Advancing[2 * i]]]
  BY DEF Pairs
<1>2. DOMAIN Pairs = 1 .. 16
  BY <1>1
<1>3. \A i \in 1 .. 16 : /\ Pairs[i].index = i - 1
                         /\ Pairs[i].c1 = Advancing[2 * i - 1] /\ Pairs[i].c2 = Advancing[2 * i]
  BY <1>1
<1>4. \A x : x \in ToSet(Pairs) <=> \E i \in 1 .. 16 : x = Pairs[i]
  BY <1>2 DEF ToSet
<1>5. Pairs \in Seq(ToSet(Pairs))
  <2> DEFINE T == ToSet(Pairs)
  <2>1. \A i \in 1 .. 16 : Pairs[i] \in T
    BY <1>4
  <2> HIDE DEF T
  <2>2. PICK n \in Nat : n = 16
    OBVIOUS
  <2>3. Pairs = [i \in 1 .. n |-> Pairs[i]]
    BY <1>1, <2>2
  <2>4. Pairs \in [1 .. n -> T]
    BY <2>1, <2>2, <2>3
  <2>5. Pairs \in Seq(T)
    BY <2>4
  <2> QED
    BY <2>5 DEF T
<1>6. Distinct(Pairs)
  BY <1>2, <1>3 DEF Distinct
<1>7. ASSUME NEW x \in ToSet(Pairs)
      PROVE  /\ x.index \in 0 .. 15 /\ x = Pairs[x.index + 1]
             /\ x.c1 = Advancing[2 * x.index + 1] /\ x.c2 = Advancing[2 * x.index + 2]
  <2>1. PICK i \in 1 .. 16 : x = Pairs[i]
    BY <1>4
  <2>2. x.index = i - 1 /\ x.c1 = Advancing[2 * i - 1] /\ x.c2 = Advancing[2 * i]
    BY <1>3, <2>1
  <2>3. x.index \in 0 .. 15 /\ x.index + 1 = i /\ 2 * x.index + 1 = 2 * i - 1
        /\ 2 * x.index + 2 = 2 * i
    BY <2>2
  <2> QED
    BY <2>1, <2>2, <2>3
<1>8. \A k \in 0 .. 15 : \E x \in ToSet(Pairs) : x.index = k
  <2> TAKE k \in 0 .. 15
  <2>1. k + 1 \in 1 .. 16 /\ (k + 1) - 1 = k
    OBVIOUS
  <2>2. Pairs[k + 1] \in ToSet(Pairs) /\ Pairs[k + 1].index = k
    BY <1>3, <1>4, <2>1
  <2> QED
    BY <2>2
<1>9. {x.index : x \in ToSet(Pairs)} = 0 .. 15
  BY <1>7, <1>8
<1>10. Pairs # <<>>
  BY <1>2
<1> QED
  BY <1>5, <1>6, <1>7, <1>9, <1>10

\* Which matches of the knockout stage are known at the end of a round.
LEMMA RoundDone ==
  ASSUME Tables, NEW r \in 1 .. 4, stage = Rounds[r], todo = <<>>, kind # "future"
  PROVE  \A m \in Bracket : m[1] = r + 1 => Book!HasCountries(matches[m])
<1> TAKE m \in Bracket
<1> HAVE m[1] = r + 1
<1>1. ASSUME NEW k \in 1 .. 5, stage = Rounds[k] PROVE k = r
  <2>1. r \in 1 .. 5 /\ Rounds[k] = Rounds[r]
    BY <1>1
  <2>2. \A i, j \in 1 .. 5 : Rounds[i] = Rounds[j] => i = j
    BY RoundNames
  <2> HIDE DEF Rounds
  <2> QED
    BY <2>1, <2>2
<1>2. \A slot \in {0, 1} : Feeder(m, slot) \in Bracket /\ Feeder(m, slot)[1] = r
  <2> TAKE slot \in {0, 1}
  <2>1. m[1] > 1 /\ (m[1] = 5 => r = 4) /\ m[1] - 1 = r
    OBVIOUS
  <2> QED
    BY <2>1, BracketKnown DEF Feeder
<1>3. \A slot \in {0, 1} : Feeder(m, slot) \notin UnplayedKnockout
  <2> TAKE slot \in {0, 1}
  <2>1. ToSet(todo) = {} /\ stage # "report"
    BY RoundNames DEF ToSet
  <2>2. ~(r > r)
    OBVIOUS
  <2> QED
    BY <1>1, <1>2, <2>1, <2>2 DEF UnplayedKnockout
<1>4. Book!InSlot(matches[m], 0) # Null /\ Book!InSlot(matches[m], 1) # Null
  <2>1. m[1] > 1
    OBVIOUS
  <2> QED
    BY <1>3, <2>1 DEF Tables, Slots
<1> QED
  BY <1>4 DEF Book!InSlot, Book!HasCountries

Running == Course /\ Loop /\ Tables /\ Cells

LEMMA EnterKeeps ==
  ASSUME Running, NEW next, NEW list, Enter(next, list), next \notin {"users", "subcontests"},
         Course', Loop', SameLeft
  PROVE  Running'
<1>1. UNCHANGED contestVars /\ stage' = next
  BY DEF Enter
<1>2. Tables'
  BY <1>1, TablesStay DEF Running, contestVars
<1>3. Cells'
  BY <1>1 DEF Cells
<1> QED
  BY <1>2, <1>3 DEF Running

\* The stage decides what is left; a program outside the rounds has played them all
\* or none.
LEMMA OutsideRounds ==
  ASSUME NEW name, name \in {"users", "groupPicks", "subcontests", "groupMatches", "rankings",
                             "qualifiers", "pairs", "knockoutPicks", "report"}
  PROVE  \A r \in 1 .. 5 : name # Rounds[r]
  BY RoundNames

LEMMA EnterCourse ==
  ASSUME Course, stage # "users", NEW next, NEW list, Enter(next, list),
         next \in {"groupMatches", "rankings", "qualifiers", "pairs", "knockoutPicks",
                   "round1", "round2", "round3", "round4", "round5", "report"},
         kind # "subcontests",
         kind = "future" => next = "report",
         kind = "in-progress" => next \notin {"round1", "round2", "round3", "round4", "round5"}
  PROVE  Course'
<1>1. stage' = next /\ kind' = kind /\ dice' = dice /\ created' = created
  BY DEF Enter, contestVars
<1> QED
  BY <1>1 DEF Course

\* The first loop plays the group matches, in any order.
LEMMA EnterGroupMatches ==
  ASSUME Running, todo = <<>>, stage = "groupPicks", kind # "future",
         Enter("groupMatches", AnyOrder)
  PROVE  Running'
<1>1. /\ stage' = "groupMatches" /\ todo' = AnyOrder /\ kind' = kind
  BY DEF Enter
<1>2. /\ AnyOrder \in Seq(GroupMatches) /\ Distinct(AnyOrder)
      /\ ToSet(AnyOrder) = GroupMatches
  BY AnyOrderOrders, OrderIsList DEF Running, Course
<1>3. Course'
  BY EnterCourse DEF Running, Course
<1>4. Loop'
  BY <1>1, <1>2, OutsideRounds DEF Loop
<1>5. SameLeft
  <2>1. \A r \in 1 .. 5 : stage # Rounds[r] /\ stage' # Rounds[r]
    BY <1>1, OutsideRounds
  <2> QED
    BY <1>1, <1>2, <2>1 DEF SameLeft, UnplayedGroupMatches, Unranked, Unsettled, Unpaired,
                            UnplayedKnockout, Waiting
<1> QED
  BY <1>3, <1>4, <1>5, EnterKeeps

LEMMA EnterRankings ==
  ASSUME Running, todo = <<>>, stage = "groupMatches", Enter("rankings", [l \in Letters |-> l])
  PROVE  Running'
<1> DEFINE list == [l \in Letters |-> l]
<1>1. /\ stage' = "rankings" /\ todo' = list /\ kind' = kind
  BY DEF Enter
<1>2. /\ list \in Seq(Letters) /\ Distinct(list) /\ ToSet(list) = Letters
  <2>1. PICK n \in Nat : n = 12
    OBVIOUS
  <2>2. Letters = 1 .. n /\ DOMAIN list = 1 .. n
    BY <2>1, LettersOfContest
  <2>3. \A i \in Letters : list[i] = i
    OBVIOUS
  <2>4. list \in Seq(Letters)
    BY <2>2
  <2>5. ToSet(list) = Letters
    BY <2>2, <2>3 DEF ToSet
  <2> QED
    BY <2>2, <2>3, <2>4, <2>5 DEF Distinct
<1> HIDE DEF list
<1>3. kind # "future" /\ kind # "subcontests"
  BY DEF Running, Course
<1>4. Course'
  BY <1>3, EnterCourse DEF Running, list
<1>5. Loop'
  BY <1>1, <1>2, OutsideRounds DEF Loop
<1>6. SameLeft
  <2>1. \A r \in 1 .. 5 : stage # Rounds[r] /\ stage' # Rounds[r]
    BY <1>1, OutsideRounds
  <2>2. ToSet(todo) = {}
    BY DEF ToSet
  <2> QED
    BY <1>1, <1>2, <1>3, <2>1, <2>2
       DEF SameLeft, UnplayedGroupMatches, Unranked, Unsettled, Unpaired, UnplayedKnockout, Waiting
<1> QED
  BY <1>4, <1>5, <1>6, EnterKeeps DEF list

\* What the loops before a stage leave: nothing.
LEMMA NothingLeft ==
  ASSUME Running, todo = <<>>
  PROVE  /\ ToSet(todo) = {}
         /\ stage = "rankings" => Unranked = {}
         /\ stage = "qualifiers" => Unranked = {} /\ Unsettled = {}
         /\ stage \in {"rankings", "qualifiers", "pairs", "knockoutPicks", "round1",
                       "round2", "round3", "round4", "round5"} =>
              kind # "future" /\ kind # "subcontests"
<1>1. ToSet(todo) = {}
  BY DEF ToSet
<1>2. stage \in {"rankings", "qualifiers", "pairs", "knockoutPicks", "round1",
                 "round2", "round3", "round4", "round5"} =>
              kind # "future" /\ kind # "subcontests"
  BY DEF Running, Course
<1> QED
  BY <1>1, <1>2 DEF Unranked, Unsettled, Waiting

LEMMA EnterQualifiers ==
  ASSUME Running, todo = <<>>, stage = "rankings",
         Enter("qualifiers", InOrderOfLetters(Thirds))
  PROVE  Running'
<1>1. /\ stage' = "qualifiers" /\ todo' = InOrderOfLetters(Thirds) /\ kind' = kind
      /\ UNCHANGED contestVars
  BY DEF Enter
<1>2. Rows /\ Ranked /\ Unranked = {} /\ ToSet(todo) = {} /\ kind # "future"
      /\ kind # "subcontests"
  BY NothingLeft DEF Running, Tables
<1>3. /\ InOrderOfLetters(Thirds) \in Seq(ToSet(Thirds)) /\ Distinct(InOrderOfLetters(Thirds))
      /\ ToSet(InOrderOfLetters(Thirds)) = ToSet(Thirds)
  BY <1>2, LettersInOrder, OrderIsList
<1>4. Course'
  BY <1>2, EnterCourse DEF Running
<1>5. Thirds' = Thirds
  BY <1>1 DEF Thirds, BestFirst, contestVars
<1>6. Loop'
  BY <1>1, <1>3, <1>5, OutsideRounds DEF Loop
<1>7. SameLeft
  <2>1. \A r \in 1 .. 5 : stage # Rounds[r] /\ stage' # Rounds[r]
    BY <1>1, OutsideRounds
  <2>2. {third.letter : third \in ToSet(todo')} = Letters
    BY <1>1, <1>2, <1>3, ThirdsOrders
  <2> QED
    BY <1>1, <1>2, <2>1, <2>2
       DEF SameLeft, UnplayedGroupMatches, Unranked, Unsettled, Unpaired, UnplayedKnockout, Waiting
<1> QED
  BY <1>4, <1>6, <1>7, EnterKeeps

LEMMA EnterPairs ==
  ASSUME Running, todo = <<>>, stage = "qualifiers", Enter("pairs", Pairs)
  PROVE  Running'
<1>1. /\ stage' = "pairs" /\ todo' = Pairs /\ kind' = kind /\ UNCHANGED contestVars
  BY DEF Enter
<1>2. Unranked = {} /\ Unsettled = {} /\ ToSet(todo) = {} /\ kind # "future"
      /\ kind # "subcontests"
  BY NothingLeft
<1>3. Course'
  BY <1>2, EnterCourse, Zenon DEF Running
<1>4. Pairs' = Pairs
  BY <1>1, Zenon DEF Pairs, Advancing, contestVars
<1>5. Loop'
  BY <1>1, <1>4, OutsideRounds, PairsList DEF Loop
<1>6. SameLeft
  <2>1. \A r \in 1 .. 5 : stage # Rounds[r] /\ stage' # Rounds[r]
    BY <1>1, OutsideRounds
  <2>2. {pair.index : pair \in ToSet(todo')} = 0 .. 15
    BY <1>1, PairsList
  <2>3. Unranked' = {} /\ Unsettled' = {} /\ Unpaired' = 0 .. 15 /\ Unpaired = 0 .. 15
    BY <1>1, <1>2, <2>2 DEF Unranked, Unsettled, Unpaired, Waiting
  <2>4. UnplayedGroupMatches' = UnplayedGroupMatches /\ UnplayedKnockout' = UnplayedKnockout
    BY <1>1, <1>2, <2>1 DEF UnplayedGroupMatches, UnplayedKnockout, Waiting
  <2> QED
    BY <1>2, <2>3, <2>4 DEF SameLeft
<1> QED
  BY <1>3, <1>5, <1>6, EnterKeeps

LEMMA UsersAreList ==
  /\ AllUsers \in Seq(Users) /\ AllUsers # <<>> /\ Len(AllUsers) = 55
  /\ DOMAIN AllUsers = 1 .. 55
<1>1. AllUsers \in Seq(Users) /\ Len(AllUsers) = 55
  BY SeedAssumption
<1>2. DOMAIN AllUsers = 1 .. 55
  BY <1>1
<1>3. AllUsers # <<>>
  <2>1. 1 \in DOMAIN AllUsers /\ DOMAIN <<>> = {}
    BY <1>2
  <2> QED
    BY <2>1
<1> QED
  BY <1>1, <1>2, <1>3

LEMMA EnterKnockoutPicks ==
  ASSUME Running, todo = <<>>, stage = "pairs", Enter("knockoutPicks", AllUsers)
  PROVE  Running'
<1>1. /\ stage' = "knockoutPicks" /\ todo' = AllUsers /\ kind' = kind /\ UNCHANGED contestVars
  BY DEF Enter
<1>2. ToSet(todo) = {} /\ kind # "future" /\ kind # "subcontests"
  BY NothingLeft
<1>3. Course'
  BY <1>2, EnterCourse DEF Running
<1>4. Loop'
  BY <1>1, OutsideRounds, UsersAreList DEF Loop
<1>5. SameLeft
  <2>1. \A r \in 1 .. 5 : stage # Rounds[r] /\ stage' # Rounds[r]
    BY <1>1, OutsideRounds
  <2>2. {pair.index : pair \in ToSet(todo)} = {}
    BY <1>2
  <2> QED
    BY <1>1, <1>2, <2>1, <2>2
       DEF SameLeft, UnplayedGroupMatches, Unranked, Unsettled, Unpaired, UnplayedKnockout, Waiting
<1> QED
  BY <1>3, <1>4, <1>5, EnterKeeps

LEMMA EnterRound1 ==
  ASSUME Running, todo = <<>>, stage = "knockoutPicks", kind # "in-progress",
         Enter("round1", [i \in 1 .. 16 |-> <<1, i - 1>>])
  PROVE  Running'
<1> DEFINE list == [i \in 1 .. 16 |-> <<1, i - 1>>]
           T == {m \in Bracket : m[1] = 1}
<1>1. /\ stage' = "round1" /\ todo' = list /\ kind' = kind /\ UNCHANGED contestVars
  BY DEF Enter
<1>2. kind # "future" /\ kind # "subcontests"
  BY NothingLeft
<1>3. Course'
  BY <1>2, EnterCourse DEF Running
<1>4. DOMAIN list = 1 .. 16 /\ \A i \in 1 .. 16 : list[i] = <<1, i - 1>>
  OBVIOUS
<1>5. ASSUME NEW i \in 1 .. 16 PROVE list[i] \in T
  <2>1. i - 1 \in 0 .. 15
    OBVIOUS
  <2> QED
    BY <1>4, <2>1, Places
<1>6. ASSUME NEW m \in T PROVE \E i \in 1 .. 16 : list[i] = m
  <2>1. m[2] \in 0 .. 15 /\ m = <<1, m[2]>>
    BY BracketMatch
  <2>2. m[2] + 1 \in 1 .. 16 /\ (m[2] + 1) - 1 = m[2]
    BY <2>1
  <2> QED
    BY <1>4, <2>1, <2>2
<1> HIDE DEF list, T
<1>7. ToSet(list) = T
  BY <1>4, <1>5, <1>6 DEF ToSet
<1>8. Distinct(list)
  <2>1. \A i, j \in 1 .. 16 : i # j => i - 1 # j - 1
    OBVIOUS
  <2> QED
    BY <1>4, <2>1 DEF Distinct
<1>9. list \in Seq(T)
  <2>1. PICK n \in Nat : n = 16
    OBVIOUS
  <2>2. list = [i \in 1 .. n |-> list[i]]
    BY <2>1 DEF list
  <2>3. \A i \in 1 .. n : list[i] \in T
    BY <1>5, <2>1
  <2>4. list \in [1 .. n -> T]
    BY <2>2, <2>3
  <2> QED
    BY <2>4
<1>10. Loop'
  <2>1. \A r \in 1 .. 5 : stage' = Rounds[r] => r = 1
    BY <1>1, RoundNames
  <2>2. Bracket' = Bracket /\ todo' \in Seq({m \in Bracket : m[1] = 1}) /\ Distinct(todo')
    BY <1>1, <1>8, <1>9 DEF Bracket, T
  <2> QED
    BY <1>1, <2>1, <2>2 DEF Loop
<1>11. SameLeft
  <2>1. /\ \A r \in 1 .. 5 : stage # Rounds[r]
        /\ \A r \in 1 .. 5 : stage' = Rounds[r] => r = 1
        /\ stage' # "report"
    BY <1>1, OutsideRounds, RoundNames
  <2>2. UnplayedKnockout = Bracket
    BY <2>1 DEF UnplayedKnockout
  <2>3. \A m \in Bracket : m[1] > 1 \/ m \in T
    BY BracketMatch DEF T
  <2>4. UnplayedKnockout' = Bracket
    BY <1>1, <1>7, <2>1, <2>3 DEF UnplayedKnockout
  <2>5. /\ UnplayedGroupMatches' = UnplayedGroupMatches /\ Unranked' = Unranked
        /\ Unsettled' = Unsettled /\ Unpaired' = Unpaired
    BY <1>1, <1>2 DEF UnplayedGroupMatches, Unranked, Unsettled, Unpaired, Waiting
  <2> QED
    BY <2>2, <2>4, <2>5 DEF SameLeft
<1> QED
  BY <1>3, <1>10, <1>11, EnterKeeps DEF list

LEMMA EnterRound ==
  ASSUME Running, todo = <<>>, NEW r \in 1 .. 4, stage = Rounds[r],
         Enter(Rounds[r + 1], Playable(r + 1))
  PROVE  Running'
<1> DEFINE k == r + 1
           T == {m \in Bracket : m[1] = k}
           list == Playable(k)
<1>1. /\ stage' = Rounds[k] /\ todo' = list /\ kind' = kind /\ UNCHANGED contestVars
  BY DEF Enter
<1>2. k \in 1 .. 5 /\ r \in 1 .. 5 /\ k = r + 1
  OBVIOUS
<1>3. /\ stage \in {"round1", "round2", "round3", "round4", "round5"}
      /\ Rounds[k] \in {"round1", "round2", "round3", "round4", "round5"}
  BY <1>2, RoundNames
<1>4. kind # "future" /\ kind # "subcontests" /\ ToSet(todo) = {}
  BY <1>3, NothingLeft
<1>5. kind # "in-progress"
  BY <1>3 DEF Running, Course
<1>6. Course'
  <2>1. stage # "users"
    BY <1>3
  <2> QED
    BY <1>3, <1>4, <1>5, <2>1, EnterCourse DEF Running
<1> HIDE DEF k
<1>7. T = {m \in Bracket : RoundOf[m] = k /\ Book!HasCountries(matches[m])}
  BY <1>2, <1>4, RoundDone, BracketMatch DEF Running
<1>8. Orders(list, T)
  BY <1>2, <1>7, PlayableOrders
<1> HIDE DEF list, T
<1>9. list \in Seq(T) /\ Distinct(list) /\ ToSet(list) = T
  BY <1>8, OrderIsList
<1>10. \A i \in 1 .. 5 : (stage = Rounds[i] => i = r) /\ (stage' = Rounds[i] => i = k)
  BY <1>1, <1>2, RoundNames
<1>11. Loop'
  <2>1. Bracket' = Bracket /\ todo' \in Seq({m \in Bracket : m[1] = k}) /\ Distinct(todo')
    BY <1>1, <1>9 DEF Bracket, T
  <2>2. stage' \notin {"groupPicks", "knockoutPicks", "users", "subcontests", "report",
                       "groupMatches", "rankings", "qualifiers", "pairs"}
    BY <1>1, <1>3
  <2> QED
    BY <1>10, <2>1, <2>2 DEF Loop
<1>12. SameLeft
  <2>1. stage # "report" /\ stage' # "report"
    BY <1>1, <1>3
  <2>2. UnplayedKnockout = {m \in Bracket : m[1] > r}
    BY <1>2, <1>4, <1>10, <2>1 DEF UnplayedKnockout
  <2>3. \A m \in Bracket : m[1] > r <=> m[1] > k \/ m \in T
    BY <1>2, BracketMatch DEF T
  <2>4. UnplayedKnockout' = {m \in Bracket : m[1] > r}
    <3>1. UnplayedKnockout' = {m \in Bracket : m[1] > k \/ m \in T}
      BY <1>1, <1>2, <1>9, <1>10, <2>1 DEF UnplayedKnockout
    <3> QED
      BY <2>3, <3>1
  <2>5. /\ UnplayedGroupMatches' = UnplayedGroupMatches /\ Unranked' = Unranked
        /\ Unsettled' = Unsettled /\ Unpaired' = Unpaired
    BY <1>1, <1>3, <1>4 DEF UnplayedGroupMatches, Unranked, Unsettled, Unpaired, Waiting
  <2> QED
    BY <2>2, <2>4, <2>5 DEF SameLeft
<1>13. Rounds[k] \notin {"users", "subcontests"}
  BY <1>3
<1> QED
  BY <1>6, <1>11, <1>12, <1>13, EnterKeeps DEF list, k

LEMMA EnterReport ==
  ASSUME Running, todo = <<>>, Enter("report", <<>>),
         \/ stage = "groupPicks" /\ kind = "future"
         \/ stage = "knockoutPicks" /\ kind = "in-progress"
         \/ stage = "round5"
  PROVE  Running'
<1>1. /\ stage' = "report" /\ todo' = <<>> /\ kind' = kind /\ UNCHANGED contestVars
  BY DEF Enter
<1>2. kind # "subcontests"
  BY NothingLeft DEF Running, Course
<1>3. Course'
  BY <1>2, EnterCourse DEF Running
<1>4. Loop'
  <2>1. \A r \in 1 .. 5 : stage' # Rounds[r]
    BY <1>1, OutsideRounds
  <2> QED
    BY <1>1, <2>1 DEF Loop
<1>5. SameLeft
  <2>1. /\ UnplayedGroupMatches' = UnplayedGroupMatches /\ Unranked' = Unranked
        /\ Unsettled' = Unsettled /\ Unpaired' = Unpaired
    BY <1>1, NothingLeft DEF UnplayedGroupMatches, Unranked, Unsettled, Unpaired, Waiting
  <2>2. CASE stage \in {"groupPicks", "knockoutPicks"}
    <3>1. \A r \in 1 .. 5 : stage # Rounds[r] /\ stage' # Rounds[r]
      BY <1>1, <2>2, OutsideRounds
    <3> QED
      BY <1>1, <2>1, <2>2, <3>1 DEF SameLeft, UnplayedKnockout
  <2>3. CASE stage = "round5"
    <3>1. stage = Rounds[5] /\ 5 \in 1 .. 5 /\ stage # "report" /\ ToSet(todo) = {}
      BY <2>3, RoundNames, NothingLeft
    <3>2. \A m \in Bracket : ~(m[1] > 5)
      BY BracketMatch
    <3>3. UnplayedKnockout = {}
      BY <3>1, <3>2 DEF UnplayedKnockout
    <3>4. kind # "future" /\ kind # "in-progress"
      BY <2>3 DEF Running, Course
    <3>5. UnplayedKnockout' = {}
      BY <1>1, <3>4 DEF UnplayedKnockout
    <3> QED
      BY <2>1, <3>3, <3>5 DEF SameLeft
  <2> QED
    BY <2>2, <2>3
<1> QED
  BY <1>3, <1>4, <1>5, EnterKeeps

\* The counts between the loops are met: no list ends the program.
LEMMA NextLoopKeeps ==
  ASSUME Running, NextLoop
  PROVE  Running' /\ UNCHANGED contestVars
<1>1. todo = <<>>
  BY DEF NextLoop
<1>2. CASE stage = "groupPicks" /\ kind = "future" /\ Enter("report", <<>>)
  BY <1>1, <1>2, EnterReport DEF Enter
<1>3. CASE stage = "groupPicks" /\ kind # "future" /\ Enter("groupMatches", AnyOrder)
  BY <1>1, <1>3, EnterGroupMatches DEF Enter
<1>4. CASE stage = "groupMatches" /\ Enter("rankings", [l \in Letters |-> l])
  BY <1>1, <1>4, EnterRankings DEF Enter
<1>5. CASE /\ stage = "rankings"
           /\ IF Len(Thirds) = 12 THEN Enter("qualifiers", InOrderOfLetters(Thirds)) ELSE Fail
  <2>1. Len(Thirds) = 12
    BY <1>1, <1>5, NothingLeft, ThirdsOrders DEF Running, Tables
  <2> QED
    BY <1>1, <1>5, <2>1, EnterQualifiers DEF Enter
<1>6. CASE /\ stage = "qualifiers"
           /\ IF Len(Advancing) = 32 THEN Enter("pairs", Pairs) ELSE Fail
  <2>1. Len(Advancing) = 32
    BY <1>1, <1>6, NothingLeft, AdvancingOrders DEF Running, Tables
  <2> QED
    BY <1>1, <1>6, <2>1, EnterPairs DEF Enter
<1>7. CASE stage = "pairs" /\ Enter("knockoutPicks", AllUsers)
  BY <1>1, <1>7, EnterKnockoutPicks DEF Enter
<1>8. CASE stage = "knockoutPicks" /\ kind = "in-progress" /\ Enter("report", <<>>)
  BY <1>1, <1>8, EnterReport DEF Enter
<1>9. CASE /\ stage = "knockoutPicks" /\ kind # "in-progress"
           /\ Enter("round1", [i \in 1 .. 16 |-> <<1, i - 1>>])
  BY <1>1, <1>9, EnterRound1 DEF Enter
<1>10. CASE \E r \in 1 .. 4 : stage = Rounds[r] /\ Enter(Rounds[r + 1], Playable(r + 1))
  BY <1>1, <1>10, EnterRound DEF Enter
<1>11. CASE stage = "round5" /\ Enter("report", <<>>)
  BY <1>1, <1>11, EnterReport DEF Enter
<1> QED
  BY <1>2, <1>3, <1>4, <1>5, <1>6, <1>7, <1>8, <1>9, <1>10, <1>11 DEF NextLoop

----------------------------------------------------------------------------
(***************************************************************************)
(* Steps that do not play                                                  *)
(***************************************************************************)
LEMMA TruncateKeeps ==
  ASSUME Truncate
  PROVE  Running'
<1>1. /\ stage' = "users" /\ todo' = <<>> /\ kind' \in Kinds /\ dice' \in Dice
      /\ created' = FALSE
  BY DEF Truncate, TruncateTables
<1>2. Course'
  BY <1>1 DEF Course, Kinds
<1>3. Loop'
  <2>1. \A r \in 1 .. 5 : stage' # Rounds[r]
    BY <1>1, OutsideRounds
  <2> QED
    BY <1>1, <2>1 DEF Loop
<1>4. FreshTables'
  BY DEF Truncate, TruncateTables, FreshTables
<1>5. Waiting'
  BY <1>1 DEF Waiting
<1>6. Tables'
  BY <1>2, <1>4, <1>5, NothingDone, FreshAreTables, PTL
<1>7. Cells'
  BY <1>1 DEF Cells, Truncate
<1> QED
  BY <1>2, <1>3, <1>6, <1>7 DEF Running

LEMMA CreateUsersKeeps ==
  ASSUME Running, CreateUsers, ~Collides(dice.people)
  PROVE  Running'
<1>1. /\ kind' = kind /\ dice' = dice /\ clubs' = clubs /\ created' = TRUE
      /\ stage = "users" /\ UNCHANGED <<matches, standings, finals>>
      /\ kind = "subcontests" => stage' = "subcontests" /\ todo' = <<>>
      /\ kind # "subcontests" => stage' = "groupPicks" /\ todo' = AllUsers
      /\ allUsers' = AllUsers \o [i \in 1 .. SpareCells |-> Null]
  BY DEF CreateUsers, CreateContest
<1>2. Course'
  BY <1>1 DEF Running, Course
<1>3. stage' \in {"groupPicks", "subcontests"}
  BY <1>1
<1>4. \A r \in 1 .. 5 : stage # Rounds[r] /\ stage' # Rounds[r]
  BY <1>1, <1>3, OutsideRounds
<1>5. Loop'
  BY <1>1, <1>3, <1>4, UsersAreList DEF Loop
<1>6. SameLeft
  BY <1>1, <1>3, <1>4 DEF SameLeft, UnplayedGroupMatches, Unranked, Unsettled, Unpaired,
                          UnplayedKnockout, Waiting
<1>7. Tables'
  BY <1>1, <1>6, TablesStay DEF Running
<1>8. Cells'
  <2> DEFINE spare == [i \in 1 .. SpareCells |-> Null]
             n == Len(AllUsers)
  <2>1. AllUsers \in Seq(Users) /\ DOMAIN AllUsers = 1 .. 55 /\ n = 55
    BY UsersAreList
  <2>2. SpareCells \in Nat
    BY SeedAssumption
  <2>3. spare \in Seq({Null}) /\ Len(spare) = SpareCells
    BY <2>2
  <2> HIDE DEF spare
  <2>4. /\ AllUsers \o spare \in Seq(Users \cup {Null})
        /\ Len(AllUsers \o spare) = n + SpareCells
        /\ \A i \in 1 .. n : (AllUsers \o spare)[i] = AllUsers[i]
    <3> HIDE DEF n
    <3>1. AllUsers \in Seq(Users \cup {Null}) /\ spare \in Seq(Users \cup {Null})
      BY <2>1, <2>3
    <3> QED
      BY <3>1, <2>3 DEF n
  <2>5. n + SpareCells >= 55 /\ \A i \in 1 .. 55 : i \in 1 .. n
    BY <2>1, <2>2
  <2>6. \A i \in 1 .. 55 : AllUsers[i] \in Users
    <3>1. \A i \in DOMAIN AllUsers : AllUsers[i] \in Users
      BY ZenonT(40), ElementOfSeq, <2>1
    <3> QED
      BY ZenonT(40), <2>1, <3>1
  <2>7. allUsers' = AllUsers \o spare
    BY <1>1 DEF spare
  <2>8. /\ allUsers' \in Seq(Users \cup {Null}) /\ Len(allUsers') >= 55
        /\ \A i \in 1 .. 55 : allUsers'[i] \in Users
    BY <2>4, <2>5, <2>6, <2>7
  <2>9. clubs' = <<>>
    BY SMTT(30), <1>1 DEF Running, Cells
  <2> QED
    BY <2>8, <2>9 DEF Cells
<1> QED
  BY <1>2, <1>5, <1>7, <1>8 DEF Running

\* The subcontests name users by indexes that allUserIDs has.
Sliced(it) == "of" \notin DOMAIN it

LEMMA LeagueRows ==
  /\ Len(Leagues) = 10
  /\ \A k \in 1 .. 10 :
       /\ Leagues[k].owner \in 0 .. 54
       /\ Sliced(Leagues[k]) =>
            /\ Leagues[k].from \in 0 .. 54 /\ Leagues[k].to \in {28, 35, 55}
       /\ ~Sliced(Leagues[k]) => ToSet(Leagues[k].of) \subseteq 0 .. 54
<1>1. Len(Leagues) = 10
  BY DEF Leagues
<1>2. /\ Leagues[1].owner = 0 /\ Leagues[1].from = 1 /\ Leagues[1].to = 28
      /\ Leagues[2].owner = 1 /\ Leagues[2].from = 10 /\ Leagues[2].to = 35
      /\ Leagues[5].owner = 0 /\ Leagues[5].from = 0 /\ Leagues[5].to = 55
      /\ Leagues[7].owner = 0 /\ Leagues[7].from = 1 /\ Leagues[7].to = 28
      /\ Leagues[9].owner = 0 /\ Leagues[9].from = 1 /\ Leagues[9].to = 28
      /\ Leagues[10].owner = 0 /\ Leagues[10].from = 1 /\ Leagues[10].to = 28
  BY Zenon DEF Leagues
<1>3. /\ Leagues[3].owner = 3 /\ Leagues[3].of = <<1, 4, 5, 6>>
      /\ Leagues[4].owner = 4 /\ Leagues[4].of = <<1, 3, 7, 8>>
      /\ Leagues[6].owner = 3 /\ Leagues[6].of = <<1, 4, 5, 6>>
      /\ Leagues[8].owner = 4 /\ Leagues[8].of = <<1, 3, 7, 8>>
  BY Zenon DEF Leagues
<1>4. /\ Sliced(Leagues[1]) /\ Sliced(Leagues[2]) /\ Sliced(Leagues[5])
      /\ Sliced(Leagues[7]) /\ Sliced(Leagues[9]) /\ Sliced(Leagues[10])
  BY DEF Leagues, Sliced
<1>5. /\ ~Sliced(Leagues[3]) /\ ~Sliced(Leagues[4]) /\ ~Sliced(Leagues[6])
      /\ ~Sliced(Leagues[8])
  BY DEF Leagues, Sliced
<1>6. ToSet(<<1, 4, 5, 6>>) \subseteq 0 .. 54 /\ ToSet(<<1, 3, 7, 8>>) \subseteq 0 .. 54
  BY DEF ToSet
<1>7. ASSUME NEW k \in {1, 2, 5, 7, 9, 10}
      PROVE  /\ Leagues[k].owner \in 0 .. 54 /\ Sliced(Leagues[k])
             /\ Leagues[k].from \in 0 .. 54 /\ Leagues[k].to \in {28, 35, 55}
  BY <1>2, <1>4
<1>8. ASSUME NEW k \in {3, 4, 6, 8}
      PROVE  /\ Leagues[k].owner \in 0 .. 54 /\ ~Sliced(Leagues[k])
             /\ ToSet(Leagues[k].of) \subseteq 0 .. 54
  BY <1>3, <1>5, <1>6
<1>9. \A k \in 1 .. 10 : k \in {1, 2, 5, 7, 9, 10} \/ k \in {3, 4, 6, 8}
  OBVIOUS
<1> QED
  BY <1>1, <1>7, <1>8, <1>9

LEMMA PartOfSequence ==
  ASSUME NEW S, NEW s \in Seq(S), NEW T, NEW a \in Nat, NEW b \in Nat, 1 <= a,
         b <= Len(s), \A i \in a .. b : s[i] \in T
  PROVE  ToSet(SubSeq(s, a, b)) \subseteq T
<1> DEFINE p == SubSeq(s, a, b)
<1>1. p = [i \in 1 .. b - a + 1 |-> s[i + a - 1]]
  BY DEF SubSeq
<1>2. ASSUME NEW i \in DOMAIN p PROVE p[i] \in T
  <2>1. i \in 1 .. b - a + 1 /\ p[i] = s[i + a - 1] /\ i + a - 1 \in a .. b
    BY <1>1
  <2> QED
    BY <2>1
<1> HIDE DEF p
<1> QED
  BY <1>2 DEF ToSet, p

\* Every list of members is one of users, whatever the lists before it have written
\* into the array.
LEMMA SeedSubcontestKeeps ==
  ASSUME Running, SeedSubcontest
  PROVE  Running' /\ UNCHANGED contestVars
<1> DEFINE it == Leagues[Len(clubs) + 1]
           whole == Sliced(it) /\ it.to = Len(AllUsers)
           array == IF Sliced(it) /\ ~whole
                    THEN [allUsers EXCEPT ![it.to + 1] = Joey, ![it.to + 2] = Jpm]
                    ELSE allUsers
           members == IF Sliced(it)
                      THEN ToSet(SubSeq(array, it.from + 1, it.to + IF whole THEN 0 ELSE 2))
                      ELSE {AllUsers[i + 1] : i \in ToSet(it.of)}
<1>1. /\ stage = "subcontests" /\ Len(clubs) < Len(Leagues)
      /\ IF members \subseteq Users
         THEN /\ allUsers' = array
              /\ clubs' = Append(clubs, members \cup {AllUsers[it.owner + 1]})
              /\ UNCHANGED <<contestVars, kind, dice, stage, todo>>
         ELSE Fail
  BY DEF SeedSubcontest, Sliced
<1>2. /\ allUsers \in Seq(Users \cup {Null}) /\ Len(allUsers) >= 55
      /\ \A i \in 1 .. 55 : allUsers[i] \in Users
      /\ clubs \in Seq(SUBSET Users)
  BY <1>1 DEF Running, Cells
<1>3. \A i \in 0 .. 54 : AllUsers[i + 1] \in Users
  <2> TAKE i \in 0 .. 54
  <2>1. i + 1 \in 1 .. Len(AllUsers) /\ AllUsers \in Seq(Users)
    BY UsersAreList
  <2> QED
    BY <2>1, ElementOfSeq
<1>4. /\ it.owner \in 0 .. 54
      /\ Sliced(it) => it.from \in 0 .. 54 /\ it.to \in {28, 35, 55}
      /\ ~Sliced(it) => ToSet(it.of) \subseteq 0 .. 54
  <2> DEFINE n == Len(clubs)
  <2>1. n \in Nat
    BY <1>2
  <2>2. n < Len(Leagues) /\ Len(Leagues) = 10
    BY LeagueRows DEF SeedSubcontest
  <2> HIDE DEF n
  <2>3. n + 1 \in 1 .. 10
    BY <2>1, <2>2
  <2> HIDE DEF Leagues
  <2> QED
    BY <2>3, LeagueRows DEF n
<1>5. Joey \in Users /\ Jpm \in Users
  BY SeedAssumption
<1> HIDE DEF it
<1>6. /\ array \in Seq(Users \cup {Null}) /\ Len(array) >= 55
      /\ \A i \in 1 .. 55 : array[i] \in Users
  <2>1. CASE Sliced(it) /\ ~whole
    <3> DEFINE a == it.to + 1
               b == it.to + 2
               r == [allUsers EXCEPT ![a] = Joey, ![b] = Jpm]
    <3>1. array = r
      BY <2>1
    <3>2. DOMAIN allUsers = 1 .. Len(allUsers) /\ Len(allUsers) \in Nat
      BY <1>2
    <3> HIDE DEF a, b
    <3>3. DOMAIN r = 1 .. Len(allUsers)
      BY <3>2
    <3>4. \A i \in 1 .. Len(allUsers) : r[i] = Joey \/ r[i] = Jpm \/ r[i] = allUsers[i]
      BY <3>2
    <3>5. \A i \in 1 .. Len(allUsers) : allUsers[i] \in Users \cup {Null}
      BY <1>2, ElementOfSeq
    <3>6. r = [i \in 1 .. Len(allUsers) |-> r[i]]
      BY <3>3
    <3>7. \A i \in 1 .. Len(allUsers) : r[i] \in Users \cup {Null}
      BY <1>5, <3>4, <3>5
    <3>8. r \in Seq(Users \cup {Null}) /\ Len(r) = Len(allUsers)
      <4> DEFINE n == Len(allUsers)
                 T == Users \cup {Null}
      <4> HIDE DEF n, T, r
      <4>1. n \in Nat /\ r \in [1 .. n -> T]
        BY <3>2, <3>6, <3>7 DEF n, T
      <4>2. r \in Seq(T) /\ Len(r) = n
        BY <4>1
      <4> QED
        BY <4>2 DEF n, T
    <3>9. \A i \in 1 .. 55 : i \in 1 .. Len(allUsers)
      BY <1>2, <3>2
    <3>10. \A i \in 1 .. 55 : r[i] \in Users
      BY <1>2, <1>5, <3>4, <3>9
    <3> HIDE DEF r
    <3> QED
      BY <1>2, <3>1, <3>8, <3>10
  <2>2. CASE ~(Sliced(it) /\ ~whole)
    BY <1>2, <2>2
  <2> QED
    BY <2>1, <2>2
<1> HIDE DEF array
<1>7. members \subseteq Users
  <2>1. CASE Sliced(it)
    <3> DEFINE a == it.from + 1
               b == it.to + IF whole THEN 0 ELSE 2
    <3>1. a \in Nat /\ 1 <= a /\ b \in Nat /\ b <= 55
      <4>1. Len(AllUsers) = 55
        BY UsersAreList
      <4> QED
        BY <1>4, <2>1, <4>1
    <3>2. members = ToSet(SubSeq(array, a, b))
      BY <2>1
    <3> HIDE DEF a, b, members
    <3>3. b <= Len(array)
      <4> DEFINE n == Len(array)
      <4>1. n \in Nat /\ n >= 55
        BY <1>6
      <4> HIDE DEF n
      <4>2. b <= n
        BY <3>1, <4>1
      <4> QED
        BY <4>2 DEF n
    <3>4. \A i \in a .. b : i \in 1 .. 55
      BY <3>1
    <3>5. \A i \in a .. b : array[i] \in Users
      BY <1>6, <3>4
    <3> QED
      BY <1>6, <3>1, <3>2, <3>3, <3>5, PartOfSequence
  <2>2. CASE ~Sliced(it)
    BY <1>3, <1>4, <2>2
  <2> QED
    BY <2>1, <2>2
<1> HIDE DEF members
<1>8. /\ allUsers' = array
      /\ clubs' = Append(clubs, members \cup {AllUsers[it.owner + 1]})
      /\ UNCHANGED <<contestVars, kind, dice, stage, todo>>
  BY <1>1, <1>7
<1>9. Course' /\ Loop'
  <2>1. \A r \in 1 .. 5 : stage' # Rounds[r]
    BY <1>1, <1>8, OutsideRounds
  <2> QED
    BY <1>1, <1>8, <2>1 DEF Running, Course, Loop, contestVars
<1>10. SameLeft
  BY <1>1, <1>8 DEF SameLeft, UnplayedGroupMatches, Unranked, Unsettled, Unpaired,
                    UnplayedKnockout, Waiting
<1>11. Tables'
  BY <1>8, <1>10, TablesStay DEF Running, contestVars
<1>12. Cells'
  <2>1. members \cup {AllUsers[it.owner + 1]} \in SUBSET Users
    BY <1>3, <1>4, <1>7
  <2>2. clubs' \in Seq(SUBSET Users)
    BY <1>2, <1>8, <2>1
  <2> QED
    BY <1>1, <1>6, <1>8, <2>2 DEF Cells
<1> QED
  BY <1>8, <1>9, <1>11, <1>12 DEF Running

----------------------------------------------------------------------------
(***************************************************************************)
(* Turns of a loop                                                         *)
(***************************************************************************)
\* A turn takes the first item off the list.
LEMMA OneTurn ==
  ASSUME NEW P, todo \in Seq(P), Distinct(todo), todo # <<>>, todo' = Tail(todo)
  PROVE  /\ todo' \in Seq(P) /\ Distinct(todo')
         /\ Head(todo) \in P /\ Head(todo) \in ToSet(todo)
         /\ ToSet(todo') = ToSet(todo) \ {Head(todo)}
<1>1. /\ Tail(todo) \in Seq(P) /\ Distinct(Tail(todo)) /\ Head(todo) \in Elements(todo)
      /\ Elements(Tail(todo)) = Elements(todo) \ {Head(todo)}
  BY WithoutFirst
<1>2. Head(todo) \in P
  BY HeadTailProperties
<1> QED
  BY <1>1, <1>2 DEF Elements, ToSet

Stays == UNCHANGED <<kind, dice, stage, allUsers, clubs, created>>

LEMMA StaysOnCourse ==
  ASSUME Course, Cells, Stays
  PROVE  Course' /\ Cells'
  BY DEF Course, Cells, Stays

\* A turn leaves alone what other loops have left.
LEMMA OtherLoops ==
  ASSUME Stays
  PROVE  /\ stage # "groupMatches" => UnplayedGroupMatches' = UnplayedGroupMatches
         /\ stage # "rankings" => Unranked' = Unranked
         /\ stage # "qualifiers" => Unsettled' = Unsettled
         /\ stage # "pairs" => Unpaired' = Unpaired
         /\ (\A r \in 1 .. 5 : stage # Rounds[r]) => UnplayedKnockout' = UnplayedKnockout
<1>1. /\ stage # "groupMatches" => UnplayedGroupMatches' = UnplayedGroupMatches
      /\ stage # "rankings" => Unranked' = Unranked
      /\ stage # "qualifiers" => Unsettled' = Unsettled
      /\ stage # "pairs" => Unpaired' = Unpaired
  BY DEF Stays, Waiting, UnplayedGroupMatches, Unranked, Unsettled, Unpaired
<1>2. ASSUME \A r \in 1 .. 5 : stage # Rounds[r]
      PROVE  UnplayedKnockout' = UnplayedKnockout
  BY <1>2 DEF Stays, UnplayedKnockout
<1> QED
  BY <1>1, <1>2

\* In the loops over the users nothing is played.
LEMMA UserTurnKeeps ==
  ASSUME Running, Stays, stage \in {"groupPicks", "knockoutPicks"}, todo # <<>>,
         todo' = Tail(todo), UNCHANGED <<matches, standings, finals>>
  PROVE  Running'
<1>1. \A r \in 1 .. 5 : stage # Rounds[r]
  BY OutsideRounds
<1>2. Course' /\ Cells'
  BY StaysOnCourse DEF Running
<1>3. todo' \in Seq(Users)
  BY HeadTailProperties DEF Running, Loop
<1>4. Loop'
  BY <1>1, <1>3 DEF Loop, Stays
<1>5. SameLeft
  BY <1>1, OtherLoops DEF SameLeft
<1>6. Tables'
  BY <1>5, TablesStay DEF Running
<1> QED
  BY <1>2, <1>4, <1>6 DEF Running

LEMMA SeedGroupPicksKeeps ==
  ASSUME Running, SeedGroupPicks
  PROVE  Running'
<1>1. /\ stage = "groupPicks" /\ todo # <<>> /\ todo' = Tail(todo)
      /\ UNCHANGED <<kind, dice, stage, allUsers, clubs>>
      /\ UNCHANGED <<created, matches, standings, finals>>
  BY DEF SeedGroupPicks, Turn, SaveGroupPicks
<1> QED
  BY <1>1, UserTurnKeeps DEF Stays

\* Once the bracket is paired, its 32 places hold the 32 countries.
LEMMA PairedPlaces ==
  ASSUME Rows, Ranked, Settled, Paired, Unranked = {}, Unsettled = {}, Unpaired = {}
  PROVE  \A i \in 0 .. 15 :
           /\ matches[<<1, i>>].c1 = Advancing[2 * i + 1]
           /\ matches[<<1, i>>].c2 = Advancing[2 * i + 2]
           /\ Advancing[2 * i + 1] \in Through /\ Advancing[2 * i + 2] \in Through
           /\ Book!HasCountries(matches[<<1, i>>])
<1> TAKE i \in 0 .. 15
<1>1. /\ matches[<<1, i>>].c1 = Advancing[2 * i + 1]
      /\ matches[<<1, i>>].c2 = Advancing[2 * i + 2]
  BY DEF Paired
<1>2. 2 * i + 1 \in 1 .. 32 /\ 2 * i + 2 \in 1 .. 32
  OBVIOUS
<1>3. Advancing[2 * i + 1] \in Through /\ Advancing[2 * i + 2] \in Through
  BY <1>2, AdvancingOrders
<1>4. Through \subseteq Countries
  BY DEF Through
<1> QED
  BY <1>1, <1>3, <1>4, ColumnAssumption DEF Book!HasCountries

LEMMA SixteenMatches ==
  /\ IsFiniteSet({m \in Bracket : m[1] = 1})
  /\ Cardinality({m \in Bracket : m[1] = 1}) = 16
<1> DEFINE T == {m \in Bracket : m[1] = 1}
           f == [i \in 1 .. 16 |-> <<1, i - 1>>]
<1>1. PICK n \in Nat : n = 16
  OBVIOUS
<1>2. \A i \in 1 .. n : f[i] = <<1, i - 1>>
  BY <1>1
<1>3. \A i \in 1 .. n : f[i] \in T
  <2> TAKE i \in 1 .. n
  <2>1. i - 1 \in 0 .. 15
    BY <1>1
  <2>2. \A j \in 0 .. 15 : <<1, j>> \in Bracket
    BY Places, Zenon
  <2>3. <<1, i - 1>> \in T
    <3>1. <<1, i - 1>> \in Bracket
      BY <2>1, <2>2, Zenon
    <3> QED
      BY <3>1
  <2> QED
    BY <1>2, <2>3, Zenon
<1>4. \A i, j \in 1 .. n : f[i] = f[j] => i = j
  <2>1. \A i, j \in 1 .. n : i - 1 = j - 1 => i = j
    OBVIOUS
  <2> QED
    BY <1>2, <2>1
<1>5. ASSUME NEW m \in T PROVE \E i \in 1 .. n : f[i] = m
  <2>1. m[2] \in 0 .. 15 /\ m = <<1, m[2]>>
    BY BracketMatch
  <2>2. m[2] + 1 \in 1 .. n /\ (m[2] + 1) - 1 = m[2]
    BY <1>1, <2>1
  <2> QED
    BY <1>2, <2>1, <2>2
<1>6. f \in [1 .. n -> T]
  BY <1>1, <1>3
<1> HIDE DEF T, f
<1>7. IsFiniteSet(T) /\ Cardinality(T) = n
  BY <1>4, <1>5, <1>6, Numbered
<1> QED
  BY <1>1, <1>7 DEF T

\* Every user finds the sixteen matches of the first round known.
LEMMA SixteenKnown ==
  ASSUME Tables, Unranked = {}, Unsettled = {}, Unpaired = {}
  PROVE  Len(Playable(1)) = 16
<1> DEFINE T == {m \in Bracket : m[1] = 1}
<1>1. \A m \in Bracket : m[1] = 1 => Book!HasCountries(matches[m])
  <2> TAKE m \in Bracket
  <2>1. m[2] \in 0 .. 15 /\ (m[1] = 1 => m = <<1, m[2]>>)
    BY BracketMatch
  <2> QED
    BY <2>1, PairedPlaces DEF Tables
<1>2. T = {m \in Bracket : RoundOf[m] = 1 /\ Book!HasCountries(matches[m])}
  BY <1>1, BracketMatch
<1>3. 1 \in 1 .. 5
  OBVIOUS
<1>4. Orders(Playable(1), T)
  BY <1>2, <1>3, PlayableOrders
<1> HIDE DEF T
<1>5. Len(Playable(1)) = Cardinality(T)
  BY <1>4, OrderIsList
<1> QED
  BY <1>5, SixteenMatches DEF T

LEMMA SeedKnockoutPicksKeeps ==
  ASSUME Running, SeedKnockoutPicks
  PROVE  Running'
<1>1. stage = "knockoutPicks" /\ todo # <<>>
  BY DEF SeedKnockoutPicks, Turn
<1>2. Unranked = {} /\ Unsettled = {} /\ Unpaired = {}
  <2>1. kind # "future"
    BY <1>1 DEF Running, Course
  <2> QED
    BY <1>1, <2>1 DEF Unranked, Unsettled, Unpaired, Waiting
<1>3. Len(Playable(1)) = 16
  BY <1>2, SixteenKnown DEF Running
<1>4. /\ todo' = Tail(todo) /\ UNCHANGED <<kind, dice, stage, allUsers, clubs>>
      /\ UNCHANGED <<created, matches, standings, finals>>
  BY <1>3 DEF SeedKnockoutPicks, Turn, SaveKnockoutPicks
<1> QED
  BY <1>1, <1>4, UserTurnKeeps DEF Stays

----------------------------------------------------------------------------
(***************************************************************************)
(* Group matches                                                           *)
(***************************************************************************)
LEMMA RollRange ==
  ASSUME dice \in Dice, NEW k \in Nat, NEW n \in Nat, n > 0, Len(todo) \in Nat
  PROVE  Roll(k, n) \in 0 .. n - 1
<1> DEFINE s == dice.numbers
           i == ((3 * Len(todo) + k) % Len(s)) + 1
<1>1. s \in Seq(Nat) /\ s # <<>>
  BY SeedAssumption
<1>2. Len(s) \in Nat /\ Len(s) > 0
  BY <1>1
<1> DEFINE a == 3 * Len(todo) + k
           b == Len(s)
<1>3. i \in 1 .. Len(s)
  <2>1. a \in Nat /\ b \in Nat /\ b > 0 /\ i = (a % b) + 1
    BY <1>2
  <2> HIDE DEF a, b, i, s
  <2>2. a % b \in 0 .. b - 1
    BY <2>1
  <2>3. i \in 1 .. b
    BY <2>1, <2>2
  <2> QED
    BY <2>3 DEF b
<1>4. s[i] \in Nat
  BY <1>1, <1>3, ElementOfSeq
<1> HIDE DEF s, i
<1>5. s[i] % n \in 0 .. n - 1
  BY <1>4
<1> QED
  BY <1>5 DEF Roll, s, i

\* The rules are the same in the book of results.
LEMMA SameRules ==
  /\ \A row : Book!Completed(row) <=> Completed(row)
  /\ \A row : Book!HasWinner(row) <=> HasWinner(row)
  /\ \A row : Book!Winner(row) = Winner(row) /\ Book!Loser(row) = Loser(row)
  /\ \A standing, row : /\ Book!CreditFirst(standing, row) = CreditFirst(standing, row)
                        /\ Book!CreditSecond(standing, row) = CreditSecond(standing, row)
<1>1. \A row : Book!Completed(row) <=> Completed(row)
  BY DEF Completed, Book!Completed
<1>2. \A row : (Book!FirstWins(row) <=> FirstWins(row)) /\ (Book!SecondWins(row) <=> SecondWins(row))
  BY DEF FirstWins, SecondWins, OnPenalties, Book!FirstWins, Book!SecondWins, Book!OnPenalties
<1>3. \A row : Book!HasWinner(row) <=> HasWinner(row)
  BY <1>2 DEF HasWinner, Book!HasWinner
<1>4. \A row : Book!Winner(row) = Winner(row) /\ Book!Loser(row) = Loser(row)
  BY <1>2 DEF Winner, Loser, Book!Winner, Book!Loser
<1>5. \A standing, row : /\ Book!CreditFirst(standing, row) = CreditFirst(standing, row)
                         /\ Book!CreditSecond(standing, row) = CreditSecond(standing, row)
  BY DEF CreditFirst, CreditSecond, Credit, Conduct, One, Book!CreditFirst, Book!CreditSecond,
         Book!Credit, Book!Conduct, Book!One
<1> QED
  BY <1>1, <1>3, <1>4, <1>5

\* What the program sends for a group match.
GroupPayload(p, m) ==
  /\ p.round = 0 /\ p.index = Null /\ p.c1 = m[2] /\ p.c2 = m[3]
  /\ p.g1 \in Nat /\ p.g2 \in Nat
  /\ p.p1 = Null /\ p.p2 = Null /\ p.cs1 = Null /\ p.cs2 = Null

PlayedPayload ==
  LET pair == [Payload EXCEPT !.c1 = Head(todo)[2], !.c2 = Head(todo)[3]]
  IN  IF Deterministic THEN DecidedGoals(pair) ELSE RandomGoals(pair)

LEMMA PlaceRange ==
  ASSUME NEW c \in Countries
  PROVE  Place(c) \in 0 .. 3 /\ Groups[Letter[c]][Place(c) + 1] = c
<1> DEFINE i == CHOOSE i \in 1 .. 4 : Groups[Letter[c]][i] = c
<1>1. i \in 1 .. 4 /\ Groups[Letter[c]][i] = c
  BY MembersOfGroup
<1>2. Place(c) = i - 1
  BY DEF Place
<1> HIDE DEF i
<1>3. i - 1 \in 0 .. 3 /\ (i - 1) + 1 = i
  BY <1>1
<1> QED
  BY <1>1, <1>2, <1>3

LEMMA PlayedIsGroupPayload ==
  ASSUME dice \in Dice, todo \in Seq(GroupMatches), todo # <<>>
  PROVE  GroupPayload(PlayedPayload, Head(todo))
<1> DEFINE m == Head(todo)
           pair == [Payload EXCEPT !.c1 = m[2], !.c2 = m[3]]
<1>1. m \in GroupMatches
  BY HeadTailProperties
<1>2. m[2] \in Countries /\ m[3] \in Countries
  BY <1>1, GroupMatch
<1> HIDE DEF m
<1>3. \A a, b \in Nat : GroupPayload(Goals(pair, a, b), m)
  BY DEF GroupPayload, Goals, Payload
<1>4. CASE Deterministic
  <2>1. pair.c1 = m[2] /\ pair.c2 = m[3]
    BY DEF Payload
  <2> DEFINE i == Place(pair.c1)
             j == Place(pair.c2)
  <2>2. i \in 0 .. 3 /\ j \in 0 .. 3
    BY <1>2, <2>1, PlaceRange
  <2>3. PlayedPayload = IF i < j THEN Goals(pair, 3 - i, 0) ELSE Goals(pair, 0, 3 - j)
    BY <1>4 DEF PlayedPayload, DecidedGoals, m
  <2> HIDE DEF i, j, pair
  <2>4. 3 - i \in Nat /\ 3 - j \in Nat /\ 0 \in Nat
    BY <2>2
  <2> QED
    BY <1>3, <2>3, <2>4 DEF m
<1>5. CASE ~Deterministic
  <2>1. PlayedPayload = Goals(pair, Roll(1, 4), Roll(2, 4))
    BY <1>5 DEF PlayedPayload, RandomGoals, m
  <2>2. Len(todo) \in Nat
    BY LenProperties
  <2>3. Roll(1, 4) \in Nat /\ Roll(2, 4) \in Nat
    <3>1. 1 \in Nat /\ 2 \in Nat /\ 4 \in Nat /\ 4 > 0 /\ \A x \in 0 .. 4 - 1 : x \in Nat
      OBVIOUS
    <3> QED
      BY <2>2, <3>1, RollRange
  <2> HIDE DEF pair
  <2> QED
    BY <1>3, <2>1, <2>3 DEF m
<1> QED
  BY <1>4, <1>5

\* The match is as CreateContest made it, but for goals.
Fixture(m) ==
  /\ matches[m].c1 = m[2] /\ matches[m].c2 = m[3]
  /\ matches[m].cs1 = Null /\ matches[m].cs2 = Null

Goalless(m) == matches[m].g1 = Null /\ matches[m].g2 = Null

LEMMA UnplayedFixtures ==
  ASSUME GroupRows
  PROVE  /\ \A m \in GroupMatches : Fixture(m)
         /\ \A m \in UnplayedGroupMatches \cap GroupMatches : Goalless(m)
  BY DEF GroupRows, Fixture, Goalless

\* The call finds the match by its countries ...
LEMMA FoundByCountries ==
  ASSUME \A n \in GroupMatches : Fixture(n), NEW m \in GroupMatches, NEW p, GroupPayload(p, m)
  PROVE  Book!Found(matches, p) = {m}
<1>1. /\ m \in AllMatches /\ RoundOf[m] = 0 /\ m = <<0, m[2], m[3]>>
      /\ m[2] \in Countries /\ m[3] \in Countries /\ <<0, m[3], m[2]>> \notin GroupMatches
  BY GroupMatch, MatchesOfContest
<1>2. p.c1 = m[2] /\ p.c2 = m[3] /\ p.round = 0 /\ Null \notin Countries
  BY ColumnAssumption DEF GroupPayload
<1>3. ASSUME NEW n \in AllMatches, RoundOf[n] = 0,
             \/ matches[n].c1 = p.c1 /\ matches[n].c2 = p.c2
             \/ matches[n].c1 = p.c2 /\ matches[n].c2 = p.c1
      PROVE  n = m
  <2>1. n \in GroupMatches
    BY <1>3, GroupOrBracket, BracketMatch
  <2>2. matches[n].c1 = n[2] /\ matches[n].c2 = n[3] /\ n = <<0, n[2], n[3]>>
    BY <2>1, MatchesOfContest DEF Fixture
  <2> QED
    BY <1>1, <1>2, <1>3, <2>1, <2>2
<1>4. ~Book!ByPosition(p) /\ p.c1 # Null /\ p.c2 # Null
  BY <1>1, <1>2 DEF Book!ByPosition
<1>5. matches[m].c1 = p.c1 /\ matches[m].c2 = p.c2
  BY <1>2 DEF Fixture
<1> QED
  BY <1>1, <1>2, <1>3, <1>4, <1>5 DEF Book!Found

\* ... and is accepted.
LEMMA GroupCall ==
  ASSUME Rows, \A n \in GroupMatches : Fixture(n), NEW m \in GroupMatches, Goalless(m),
         NEW p, GroupPayload(p, m)
  PROVE  /\ Book!Found(matches, p) = {m} /\ AcceptsMatch(p)
         /\ LET new == Book!Merge(m, matches[m], p)
            IN  /\ new \in Book!MatchRow /\ Completed(new)
                /\ new.c1 = m[2] /\ new.c2 = m[3] /\ new.cs1 = Null /\ new.cs2 = Null
                /\ new.g1 = p.g1 /\ new.g2 = p.g2
                /\ new.g1 \in Nat /\ new.g2 \in Nat
<1> DEFINE new == Book!Merge(m, matches[m], p)
<1>1. /\ m \in AllMatches /\ RoundOf[m] = 0 /\ m = <<0, m[2], m[3]>>
      /\ m[2] \in Countries /\ m[3] \in Countries /\ <<0, m[3], m[2]>> \notin GroupMatches
  BY GroupMatch, MatchesOfContest
<1>2. /\ matches[m].c1 = m[2] /\ matches[m].c2 = m[3]
      /\ matches[m].cs1 = Null /\ matches[m].cs2 = Null
      /\ matches[m].g1 = Null /\ matches[m].g2 = Null
  BY DEF Fixture, Goalless
<1>3. Null \notin Int /\ Null \notin Countries
  BY ColumnAssumption
<1>4. Book!Found(matches, p) = {m}
  BY FoundByCountries
<1>5. ~Book!IsKnockout(m)
  BY <1>1 DEF Book!IsKnockout
<1>6. /\ new.c1 = matches[m].c1 /\ new.c2 = matches[m].c2 /\ new.p1 = matches[m].p1
      /\ new.p2 = matches[m].p2 /\ new.g1 = p.g1 /\ new.g2 = p.g2
      /\ new.cs1 = Null /\ new.cs2 = Null
  BY <1>2, <1>3, <1>5 DEF Book!Merge, Book!KnockoutGiven, Book!Given, GroupPayload
<1>7. new \in Book!MatchRow
  <2>1. matches[m] \in Book!MatchRow
    BY <1>1 DEF Rows
  <2> QED
    BY <1>2, <1>3, <1>5, <2>1
       DEF Book!Merge, Book!KnockoutGiven, Book!Given, GroupPayload, Book!MatchRow, Book!Score,
           Book!Slot
<1>8. new.g1 \in Nat /\ new.g2 \in Nat /\ Completed(new)
  BY <1>3, <1>6 DEF GroupPayload, Completed
<1>9. Book!HasCountries(new)
  BY <1>1, <1>2, <1>3, <1>6 DEF Book!HasCountries
<1>10. ~Completed(matches[m])
  BY <1>2 DEF Completed
<1>11. Book!HasUpdates(m, p)
  BY <1>3 DEF Book!HasUpdates, GroupPayload
<1>12. Book!Accepted(m, p)
  BY <1>4, <1>9, <1>10, <1>11, SameRules DEF Book!Accepted
<1>13. AcceptsMatch(p)
  BY <1>1, <1>12 DEF AcceptsMatch
<1> QED
  BY <1>1, <1>2, <1>4, <1>6, <1>7, <1>8, <1>13

LEMMA GroupEffect ==
  ASSUME Rows, \A n \in GroupMatches : Fixture(n), NEW m \in GroupMatches, Goalless(m),
         NEW p, GroupPayload(p, m), RecordMatch(p), NEW new, new = Book!Merge(m, matches[m], p)
  PROVE  /\ matches' = [matches EXCEPT ![m] = new]
         /\ standings' = [standings EXCEPT ![new.c1] = CreditFirst(@, new),
                                           ![new.c2] = CreditSecond(@, new)]
         /\ UNCHANGED <<created, finals, groupPicks, knockoutPicks, reached>>
         /\ scores' = [u \in Users |-> scores[u]]
<1>1. Book!Found(matches, p) = {m} /\ Completed(new)
  BY GroupCall
<1>2. Book!Record(m, p) /\ UNCHANGED <<created, finals, groupPicks, knockoutPicks>>
  BY <1>1 DEF RecordMatch
<1>3. ~Book!IsKnockout(m)
  BY GroupMatch DEF Book!IsKnockout
<1>4. Book!RecordGroupResult(m, new)
  BY <1>1, <1>2, <1>3, SameRules DEF Book!Record, Book!RecordFields, Book!RecordKnockoutResult
<1>5. scores' = [u \in Users |-> scores[u]]
  <2>1. RoundOf[m] = 0
    BY GroupMatch
  <2>2. \E f : DOMAIN f = {} /\ Pay("knockout", f)
    BY <1>1, <2>1 DEF RecordMatch
  <2> QED
    BY <2>2 DEF Pay
<1> QED
  BY <1>2, <1>4, <1>5, SameRules DEF Book!RecordGroupResult

\* Steps that leave the rows of the bracket alone.
LEMMA BracketStays ==
  ASSUME \A n \in Bracket : matches'[n] = matches[n], UnplayedKnockout' = UnplayedKnockout,
         KnockoutRows, Slots
  PROVE  KnockoutRows' /\ Slots'
<1>1. KnockoutRows'
  BY DEF KnockoutRows, Played
<1>2. Slots'
  <2>1. ASSUME NEW n \in Bracket, NEW slot \in {0, 1}, n[1] > 1
        PROVE  Book!InSlot(matches'[n], slot) = Book!InSlot(matches[n], slot)
    OBVIOUS
  <2> QED
    BY <2>1 DEF Slots
<1> QED
  BY <1>1, <1>2

LEMMA CreditedStanding ==
  ASSUME NEW s \in Book!StandingRow, s.cs = 0, NEW row, row.g1 \in Nat, row.g2 \in Nat,
         row.cs1 = Null, row.cs2 = Null
  PROVE  /\ CreditFirst(s, row) \in Book!StandingRow /\ CreditFirst(s, row).cs = 0
         /\ CreditSecond(s, row) \in Book!StandingRow /\ CreditSecond(s, row).cs = 0
<1>1. ASSUME NEW a \in Nat, NEW b \in Nat
      PROVE  Credit(s, a, b, 0) \in Book!StandingRow /\ Credit(s, a, b, 0).cs = 0
  <2>1. One(a > b) \in Nat /\ One(a = b) \in Nat /\ One(a < b) \in Nat
    BY DEF One
  <2>2. /\ s.wins \in Nat /\ s.draws \in Nat /\ s.losses \in Nat /\ s.gf \in Nat
        /\ s.ga \in Nat /\ s.points \in Nat /\ s.cs = 0
    BY DEF Book!StandingRow
  <2>3. /\ s.wins + One(a > b) \in Nat /\ s.draws + One(a = b) \in Nat
        /\ s.losses + One(a < b) \in Nat /\ s.gf + a \in Nat /\ s.ga + b \in Nat
        /\ (s.gf + a) - (s.ga + b) \in Int
        /\ s.points + 3 * One(a > b) + One(a = b) \in Nat
        /\ s.cs + 0 = 0
    BY <2>1, <2>2
  <2> HIDE DEF One
  <2> QED
    BY <2>3 DEF Credit, Book!StandingRow
<1>2. Conduct(row.cs1) = 0 /\ Conduct(row.cs2) = 0
  BY DEF Conduct
<1> QED
  BY <1>1, <1>2 DEF CreditFirst, CreditSecond

LEMMA PlayGroupMatchKeeps ==
  ASSUME Running, PlayGroupMatch
  PROVE  Running'
<1> DEFINE m == Head(todo)
           p == PlayedPayload
           new == Book!Merge(m, matches[m], p)
<1>1. /\ stage = "groupMatches" /\ todo # <<>>
      /\ IF AcceptsMatch(p)
         THEN RecordMatch(p) /\ todo' = Tail(todo) /\ UNCHANGED <<kind, dice, stage, allUsers, clubs>>
         ELSE Fail
  BY DEF PlayGroupMatch, Turn, PlayedPayload
<1>2. todo \in Seq(GroupMatches) /\ Distinct(todo) /\ Rows /\ GroupRows /\ dice \in Dice
      /\ kind # "future"
  BY <1>1 DEF Running, Loop, Tables, Course
<1>3. m \in GroupMatches /\ m \in ToSet(todo)
  <2>1. Head(todo) \in Elements(todo)
    BY <1>1, <1>2, WithoutFirst
  <2> QED
    BY <1>1, <1>2, <2>1, HeadTailProperties DEF Elements, ToSet
<1>4. UnplayedGroupMatches = ToSet(todo)
  BY <1>1 DEF UnplayedGroupMatches
<1>5. GroupPayload(p, m)
  BY <1>1, <1>2, PlayedIsGroupPayload
<1> HIDE DEF p, m
<1>a. (\A n \in GroupMatches : Fixture(n)) /\ Goalless(m)
  BY <1>2, <1>3, <1>4, UnplayedFixtures
<1>6. /\ AcceptsMatch(p) /\ new \in Book!MatchRow /\ Completed(new)
      /\ new.c1 = m[2] /\ new.c2 = m[3] /\ new.cs1 = Null /\ new.cs2 = Null
      /\ new.g1 \in Nat /\ new.g2 \in Nat
  BY <1>2, <1>3, <1>5, <1>a, GroupCall
<1>7. /\ RecordMatch(p) /\ todo' = Tail(todo)
      /\ UNCHANGED <<kind, dice, stage, allUsers, clubs>>
  BY <1>1, <1>6
<1>8. /\ matches' = [matches EXCEPT ![m] = new]
      /\ standings' = [standings EXCEPT ![new.c1] = CreditFirst(@, new),
                                        ![new.c2] = CreditSecond(@, new)]
      /\ UNCHANGED <<created, finals>>
  BY <1>2, <1>3, <1>5, <1>7, <1>a, GroupEffect
<1> HIDE DEF new
<1>9. Stays
  BY <1>7, <1>8 DEF Stays
<1>10. /\ todo' \in Seq(GroupMatches) /\ Distinct(todo')
       /\ ToSet(todo') = ToSet(todo) \ {m}
  BY <1>1, <1>2, <1>7, OneTurn DEF m
<1>11. Course' /\ Cells'
  BY <1>9, StaysOnCourse DEF Running
<1>12. \A r \in 1 .. 5 : stage # Rounds[r]
  BY <1>1, OutsideRounds
<1>13. Loop'
  BY <1>1, <1>7, <1>10, <1>12 DEF Loop
<1>14. /\ UnplayedGroupMatches' = UnplayedGroupMatches \ {m}
       /\ Unranked' = Unranked /\ Unsettled' = Unsettled /\ Unpaired' = Unpaired
       /\ UnplayedKnockout' = UnplayedKnockout
  <2>1. UnplayedGroupMatches' = ToSet(todo')
    BY <1>1, <1>7 DEF UnplayedGroupMatches
  <2> QED
    BY <1>1, <1>4, <1>9, <1>10, <1>12, <2>1, OtherLoops
<1>15. Unranked = Letters /\ Unpaired = 0 .. 15 /\ Letters # {}
  BY <1>1, LettersOfContest DEF Unranked, Unpaired
<1>16. /\ m \in AllMatches /\ m \notin Bracket
       /\ m[2] \in Countries /\ m[3] \in Countries /\ m[2] # m[3]
  BY <1>3, GroupMatch
<1>17. /\ \A n \in AllMatches : n # m => matches'[n] = matches[n]
       /\ matches'[m] = new /\ matches' \in [AllMatches -> Book!MatchRow]
  BY <1>2, <1>6, <1>8, <1>16 DEF Rows
<1>18. Rows'
  <2>1. standings \in [Countries -> Book!StandingRow] /\ \A c \in Countries : standings[c].cs = 0
    BY <1>2 DEF Rows
  <2>2. \A c \in Countries :
          standings'[c] = IF c = m[3] THEN CreditSecond(standings[c], new)
                          ELSE IF c = m[2] THEN CreditFirst(standings[c], new) ELSE standings[c]
    BY <1>6, <1>8, <1>16, <2>1
  <2>3. DOMAIN standings' = Countries /\ standings' = [c \in Countries |-> standings'[c]]
    BY <1>8, <2>1
  <2>4. \A c \in Countries : standings'[c] \in Book!StandingRow /\ standings'[c].cs = 0
    BY <1>6, <2>1, <2>2, CreditedStanding
  <2>5. standings' \in [Countries -> Book!StandingRow]
    BY <2>3, <2>4
  <2> QED
    BY <1>2, <1>8, <1>17, <2>4, <2>5 DEF Rows
<1>19. GroupRows'
  <2>1. ASSUME NEW n \in GroupMatches
        PROVE  /\ matches'[n].c1 = n[2] /\ matches'[n].c2 = n[3]
               /\ matches'[n].cs1 = Null /\ matches'[n].cs2 = Null
               /\ IF n \in UnplayedGroupMatches'
                  THEN matches'[n].g1 = Null /\ matches'[n].g2 = Null
                  ELSE Completed(matches'[n])
    <3>1. CASE n = m
      BY <1>6, <1>14, <1>17, <3>1
    <3>2. CASE n # m
      <4>1. matches'[n] = matches[n]
        BY <1>17, <3>2, GroupMatch
      <4>2. n \in UnplayedGroupMatches' <=> n \in UnplayedGroupMatches
        BY <1>14, <3>2
      <4> QED
        BY <1>2, <4>1, <4>2 DEF GroupRows
    <3> QED
      BY <3>1, <3>2
  <2> QED
    BY <2>1 DEF GroupRows, Completed
<1>20. Ranked'
  BY SMTT(30), <1>8, <1>14, <1>15 DEF Running, Tables, Ranked
<1>21. Settled'
  BY <1>8, <1>14, <1>15 DEF Running, Tables, Settled, RankedThird
<1>22. \A n \in Bracket : matches'[n] = matches[n]
  BY <1>16, <1>17, BracketMatch
<1>23. Paired'
  BY <1>14, <1>15, <1>22, Places DEF Running, Tables, Paired
<1>24. KnockoutRows' /\ Slots'
  BY <1>14, <1>22, BracketStays DEF Running, Tables
<1> QED
  BY <1>11, <1>13, <1>18, <1>19, <1>20, <1>21, <1>23, <1>24 DEF Running, Tables

----------------------------------------------------------------------------
(***************************************************************************)
(* Final orders                                                            *)
(***************************************************************************)
AllRanked == Unranked = {}
ThirdsInOrder == \A i \in 1 .. 12 : BestFirst(RankedThird)[i] \in RankedThird

LEMMA ThirdsAreCountries ==
  ASSUME Rows, Ranked, AllRanked
  PROVE  ThirdsInOrder
  BY ThirdsOrders DEF ThirdOrder, AllRanked, ThirdsInOrder

\* Steps that leave the matches alone.
LEMMA MatchesStay ==
  ASSUME GroupRows, KnockoutRows, Slots, matches' = matches,
         UnplayedGroupMatches' = UnplayedGroupMatches, UnplayedKnockout' = UnplayedKnockout
  PROVE  GroupRows' /\ KnockoutRows' /\ Slots'
<1>1. GroupRows'
  BY DEF GroupRows
<1>2. KnockoutRows'
  BY DEF KnockoutRows, Played
<1>3. Slots'
  BY DEF Slots
<1> QED
  BY <1>1, <1>2, <1>3

\* What finalizing the order of a group writes.
LEMMA RankEffect ==
  ASSUME Rows, NEW l \in Letters, FinalizeRankings(l, BestFirst(CountriesOf(l)))
  PROVE  /\ UNCHANGED <<created, matches, standings, groupPicks, knockoutPicks>>
         /\ finals' \in [Countries -> [rank : {Null} \cup 1 .. 4, qualifier : {Null} \cup BOOLEAN]]
         /\ \A c \in Countries : finals'[c].qualifier = finals[c].qualifier
         /\ \A c \in Countries : c \notin CountriesOf(l) => finals'[c].rank = finals[c].rank
         /\ \A i \in 1 .. 4 : finals'[BestFirst(CountriesOf(l))[i]].rank = i
<1> DEFINE order == BestFirst(CountriesOf(l))
           S == CountriesOf(l)
           rank == [c \in ToSet(order) |-> CHOOSE i \in DOMAIN order : order[i] = c]
<1>1. Orders(order, S) /\ Cardinality(S) = 4 /\ S \subseteq Countries
  BY FourCountries, BestFirstOrders
<1>2. /\ finals' = [c \in Countries |->
           IF c \in ToSet(order) THEN [finals[c] EXCEPT !.rank = rank[c]] ELSE finals[c]]
      /\ UNCHANGED <<created, matches, standings, groupPicks, knockoutPicks>>
  BY Zenon DEF FinalizeRankings
<1> HIDE DEF order, S
<1>3. ToSet(order) = S /\ DOMAIN order = 1 .. 4
  BY <1>1, OrderIsList
<1>4. \A i, j \in 1 .. 4 : order[i] \in S /\ (order[i] = order[j] => i = j)
  BY <1>1 DEF Orders
<1>5. \A c \in S : rank[c] \in 1 .. 4 /\ order[rank[c]] = c
  <2> TAKE c \in S
  <2>1. \E i \in 1 .. 4 : order[i] = c
    BY <1>1 DEF Orders
  <2>2. rank[c] = CHOOSE i \in 1 .. 4 : order[i] = c
    BY <1>3
  <2> QED
    BY <2>1, <2>2
<1> HIDE DEF rank
<1>6. \A i \in 1 .. 4 : rank[order[i]] = i
  BY <1>4, <1>5
<1>7. \A c \in Countries : finals[c] \in [rank : {Null} \cup 1 .. 4, qualifier : {Null} \cup BOOLEAN]
  BY DEF Rows
<1>8. ASSUME NEW c \in Countries
      PROVE  /\ finals'[c] \in [rank : {Null} \cup 1 .. 4, qualifier : {Null} \cup BOOLEAN]
             /\ finals'[c].qualifier = finals[c].qualifier
             /\ c \notin S => finals'[c].rank = finals[c].rank
             /\ c \in S => finals'[c].rank = rank[c]
  <2>1. CASE c \in S
    <3>1. finals'[c] = [finals[c] EXCEPT !.rank = rank[c]]
      BY <1>2, <1>3, <2>1
    <3> QED
      BY <1>5, <1>7, <2>1, <3>1
  <2>2. CASE c \notin S
    BY <1>2, <1>3, <1>7, <2>2
  <2> QED
    BY <2>1, <2>2
<1>9. finals' \in [Countries -> [rank : {Null} \cup 1 .. 4, qualifier : {Null} \cup BOOLEAN]]
  <2>1. finals' = [c \in Countries |-> finals'[c]]
    BY <1>2
  <2> QED
    BY <1>8, <2>1
<1>10. \A i \in 1 .. 4 : finals'[order[i]].rank = i
  BY <1>1, <1>4, <1>6, <1>8
<1> QED
  BY <1>2, <1>8, <1>9, <1>10 DEF order, S

LEMMA RankGroupKeeps ==
  ASSUME Running, RankGroup
  PROVE  Running'
<1> DEFINE l == Head(todo)
<1>1. /\ stage = "rankings" /\ todo # <<>>
      /\ IF AcceptsRankings(l)
         THEN /\ FinalizeRankings(l, BestFirst(CountriesOf(l))) /\ todo' = Tail(todo)
              /\ UNCHANGED <<kind, dice, stage, allUsers, clubs>>
         ELSE Fail
  BY DEF RankGroup, Turn
<1>2. todo \in Seq(Letters) /\ Distinct(todo) /\ Rows /\ GroupRows /\ Ranked /\ Settled
      /\ Paired /\ KnockoutRows /\ Slots /\ kind # "future"
  BY <1>1 DEF Running, Loop, Tables, Course
<1>3. l \in Letters /\ l \in ToSet(todo)
  <2>1. Head(todo) \in Elements(todo)
    BY <1>1, <1>2, WithoutFirst
  <2> QED
    BY <1>1, <1>2, <2>1, HeadTailProperties DEF Elements, ToSet
<1> HIDE DEF l
<1>4. /\ UnplayedGroupMatches = {} /\ Unranked = ToSet(todo) /\ Unsettled = Letters
      /\ Unpaired = 0 .. 15
  BY <1>1, <1>2 DEF UnplayedGroupMatches, Unranked, Unsettled, Unpaired, Waiting
<1>5. AcceptsRankings(l)
  <2>1. \A n \in GroupMatches : Completed(matches[n])
    BY <1>2, <1>4 DEF GroupRows
  <2>2. \A c \in CountriesOf(l) : finals[c].rank = Null
    BY <1>2, <1>3, <1>4 DEF Ranked
  <2> QED
    BY <2>1, <2>2 DEF AcceptsRankings
<1>6. /\ FinalizeRankings(l, BestFirst(CountriesOf(l))) /\ todo' = Tail(todo)
      /\ UNCHANGED <<kind, dice, stage, allUsers, clubs>>
  BY <1>1, <1>5
<1>7. /\ UNCHANGED <<created, matches, standings, groupPicks, knockoutPicks>>
      /\ finals' \in [Countries -> [rank : {Null} \cup 1 .. 4, qualifier : {Null} \cup BOOLEAN]]
      /\ \A c \in Countries : finals'[c].qualifier = finals[c].qualifier
      /\ \A c \in Countries : c \notin CountriesOf(l) => finals'[c].rank = finals[c].rank
      /\ \A i \in 1 .. 4 : finals'[BestFirst(CountriesOf(l))[i]].rank = i
  BY <1>2, <1>3, <1>6, RankEffect
<1>8. Stays
  BY <1>6, <1>7 DEF Stays
<1>9. todo' \in Seq(Letters) /\ Distinct(todo') /\ ToSet(todo') = ToSet(todo) \ {l}
  BY <1>1, <1>2, <1>6, OneTurn DEF l
<1>10. Course' /\ Cells'
  BY <1>8, StaysOnCourse DEF Running
<1>11. \A r \in 1 .. 5 : stage # Rounds[r]
  BY <1>1, OutsideRounds
<1>12. Loop'
  BY <1>1, <1>6, <1>9, <1>11 DEF Loop
<1>13. /\ Unranked' = Unranked \ {l} /\ UnplayedGroupMatches' = UnplayedGroupMatches
       /\ Unsettled' = Unsettled /\ Unpaired' = Unpaired /\ UnplayedKnockout' = UnplayedKnockout
  <2>1. Unranked' = ToSet(todo')
    BY <1>1, <1>6 DEF Unranked
  <2> QED
    BY <1>1, <1>4, <1>8, <1>9, <1>11, <2>1, OtherLoops
<1>14. Rows'
  BY <1>2, <1>7 DEF Rows
<1>15. Ranked'
  <2>1. ASSUME NEW k \in Letters
        PROVE  IF k \in Unranked' THEN \A c \in CountriesOf(k) : finals'[c].rank = Null
               ELSE \A i \in 1 .. 4 : finals'[BestFirst(CountriesOf(k))[i]].rank = i
    <3>1. CASE k = l
      BY <1>7, <1>13, <3>1
    <3>2. CASE k # l
      <4>1. \A c \in CountriesOf(k) : c \in Countries /\ c \notin CountriesOf(l)
        BY <1>3, <3>2, CountriesByLetter
      <4>2. \A i \in 1 .. 4 : BestFirst(CountriesOf(k))[i] \in CountriesOf(k)
        BY <1>2, FourCountries, BestFirstOrders DEF Orders
      <4>3. k \in Unranked' <=> k \in Unranked
        BY <1>13, <3>2
      <4>4. \A c \in CountriesOf(k) : finals'[c].rank = finals[c].rank
        BY <1>7, <4>1
      <4> QED
        BY <1>2, <4>2, <4>3, <4>4 DEF Ranked
    <3> QED
      BY <3>1, <3>2
  <2>2. \A k \in Letters : BestFirst(CountriesOf(k))' = BestFirst(CountriesOf(k))
    BY <1>7 DEF BestFirst
  <2> QED
    BY <2>1, <2>2 DEF Ranked
<1>16. Settled'
  <2>1. \A c \in Countries : Letter[c] \in Unsettled'
    BY <1>4, <1>13, MembersOfGroup
  <2>2. \A c \in Countries : finals'[c].qualifier = Null
    BY <1>2, <1>7, <2>1, <1>13 DEF Settled
  <2>3. Unranked' = {} => \A i \in 1 .. 12 : BestFirst(RankedThird)'[i] \in Countries
    <3>1. AllRanked' => ThirdsInOrder'
      BY <1>14, <1>15, ThirdsAreCountries, PTL
    <3> QED
      BY <3>1 DEF AllRanked, ThirdsInOrder, RankedThird
  <2> QED
    BY <2>1, <2>2, <2>3 DEF Settled
<1>17. Paired'
  BY <1>2, <1>4, <1>7, <1>13 DEF Paired
<1>18. GroupRows' /\ KnockoutRows' /\ Slots'
  BY <1>2, <1>7, <1>13, MatchesStay
<1> QED
  BY <1>10, <1>12, <1>14, <1>15, <1>16, <1>17, <1>18 DEF Running, Tables

----------------------------------------------------------------------------
(***************************************************************************)
(* Third-placed countries                                                  *)
(***************************************************************************)
\* The third of a group is the one the list names it by.
LEMMA ThirdOfGroup ==
  ASSUME Rows, Ranked, Unranked = {}, NEW i \in 1 .. 12
  PROVE  /\ ThirdOrder[i] \in Countries /\ Letter[ThirdOrder[i]] = Thirds[i].letter
         /\ ThirdOf(Thirds[i].letter) = {ThirdOrder[i]}
         /\ Thirds[i].letter \in Letters /\ Thirds[i].advances = (i <= 8)
<1> DEFINE c == ThirdOrder[i]
           l == Thirds[i].letter
<1>1. c \in RankedThird /\ l = Letter[c] /\ Thirds[i].advances = (i <= 8)
  BY ThirdsOrders
<1>2. c \in Countries /\ l \in Letters
  BY <1>1, MembersOfGroup DEF RankedThird
<1>3. \A d, e \in RankedThird : Letter[d] = Letter[e] => d = e
  BY TwelveThirds
<1> HIDE DEF c
<1>4. ThirdOf(l) = {d \in RankedThird : Letter[d] = l}
  BY <1>1, <1>2, CountriesByLetter DEF ThirdOf, RankedThird
<1> HIDE DEF l
<1>5. ThirdOf(l) = {c}
  BY <1>1, <1>3, <1>4
<1> QED
  BY <1>1, <1>2, <1>5 DEF c, l

LEMMA QualifyThirdKeeps ==
  ASSUME Running, QualifyThird
  PROVE  Running'
<1> DEFINE t == Head(todo)
<1>1. /\ stage = "qualifiers" /\ todo # <<>>
      /\ IF AcceptsQualifier(t.letter)
         THEN /\ FinalizeQualifier(t.letter, t.advances) /\ todo' = Tail(todo)
              /\ UNCHANGED <<kind, dice, stage, allUsers, clubs>>
         ELSE Fail
  BY DEF QualifyThird, Turn
<1>2. todo \in Seq(ToSet(Thirds)) /\ Distinct(todo) /\ Rows /\ GroupRows /\ Ranked /\ Settled
      /\ Paired /\ KnockoutRows /\ Slots /\ kind # "future"
  BY <1>1 DEF Running, Loop, Tables, Course
<1>3. t \in ToSet(Thirds) /\ t \in ToSet(todo)
  <2>1. Head(todo) \in Elements(todo)
    BY <1>1, <1>2, WithoutFirst
  <2> QED
    BY <1>1, <1>2, <2>1, HeadTailProperties DEF Elements, ToSet
<1>4. /\ Unranked = {} /\ Unsettled = {x.letter : x \in ToSet(todo)} /\ Unpaired = 0 .. 15
  BY <1>1, <1>2 DEF Unranked, Unsettled, Unpaired, Waiting
<1>5. PICK i \in 1 .. 12 : t = Thirds[i]
  BY <1>2, <1>3, <1>4, ThirdsOrders
<1> HIDE DEF t
<1> DEFINE c0 == ThirdOrder[i]
           l == t.letter
<1>6. /\ c0 \in Countries /\ Letter[c0] = l /\ ThirdOf(l) = {c0} /\ l \in Letters
      /\ t.advances = (i <= 8)
  BY <1>2, <1>4, <1>5, ThirdOfGroup
<1>7. c0 \in RankedThird
  BY <1>2, <1>4, ThirdsOrders
<1> HIDE DEF c0
<1>8. finals[c0].qualifier = Null
  <2>1. l \in Unsettled
    BY <1>3, <1>4
  <2> QED
    BY <1>2, <1>6, <2>1 DEF Settled
<1>9. AcceptsQualifier(l)
  BY <1>6, <1>8 DEF AcceptsQualifier
<1>10. /\ FinalizeQualifier(l, t.advances) /\ todo' = Tail(todo)
       /\ UNCHANGED <<kind, dice, stage, allUsers, clubs>>
  BY <1>1, <1>9
<1>11. /\ finals' = [c \in Countries |->
             IF c \in ThirdOf(l) THEN [finals[c] EXCEPT !.qualifier = t.advances]
             ELSE finals[c]]
       /\ UNCHANGED <<created, matches, standings, groupPicks, knockoutPicks>>
  BY <1>10 DEF FinalizeQualifier
<1> HIDE DEF l
<1>12. \A c \in Countries :
          finals[c] \in [rank : {Null} \cup 1 .. 4, qualifier : {Null} \cup BOOLEAN]
  BY <1>2 DEF Rows
<1>13. /\ finals'[c0] = [finals[c0] EXCEPT !.qualifier = (i <= 8)]
       /\ \A c \in Countries : c # c0 => finals'[c] = finals[c]
  BY <1>6, <1>11
<1>14. /\ finals'[c0].qualifier = (i <= 8) /\ finals'[c0].rank = finals[c0].rank
       /\ finals'[c0] \in [rank : {Null} \cup 1 .. 4, qualifier : {Null} \cup BOOLEAN]
  <2>1. finals[c0] \in [rank : {Null} \cup 1 .. 4, qualifier : {Null} \cup BOOLEAN]
    BY <1>6, <1>12
  <2>2. (i <= 8) \in BOOLEAN
    OBVIOUS
  <2> QED
    BY <1>13, <2>1, <2>2
<1>15. \A c \in Countries : finals'[c].rank = finals[c].rank
  BY <1>13, <1>14
<1>16. Rows'
  <2>1. finals' = [c \in Countries |-> finals'[c]]
    BY <1>11
  <2>2. \A c \in Countries :
          finals'[c] \in [rank : {Null} \cup 1 .. 4, qualifier : {Null} \cup BOOLEAN]
    BY <1>12, <1>13, <1>14
  <2>3. finals' \in [Countries -> [rank : {Null} \cup 1 .. 4, qualifier : {Null} \cup BOOLEAN]]
    BY <2>1, <2>2
  <2> QED
    BY <1>2, <1>11, <2>3 DEF Rows
<1>17. Stays
  BY <1>10, <1>11 DEF Stays
<1>18. todo' \in Seq(ToSet(Thirds)) /\ Distinct(todo') /\ ToSet(todo') = ToSet(todo) \ {t}
  BY <1>1, <1>2, <1>10, OneTurn DEF t
<1>19. Course' /\ Cells'
  BY <1>17, StaysOnCourse DEF Running
<1>20. \A r \in 1 .. 5 : stage # Rounds[r]
  BY <1>1, OutsideRounds
<1>21. RankedThird' = RankedThird
  BY <1>15 DEF RankedThird
<1>22. ThirdOrder' = ThirdOrder /\ BestFirst(RankedThird)' = BestFirst(RankedThird)
  BY <1>11, <1>21 DEF ThirdOrder, BestFirst
<1>23. Thirds' = Thirds
  <2>1. {c \in Countries : finals'[c].rank = 3} = {c \in Countries : finals[c].rank = 3}
    BY <1>15
  <2> QED
    BY <1>11, <2>1 DEF Thirds, BestFirst
<1>24. Loop'
  BY <1>1, <1>10, <1>18, <1>20, <1>23 DEF Loop
<1>25. Unsettled' = Unsettled \ {l}
  <2>1. Unsettled' = {x.letter : x \in ToSet(todo')}
    BY <1>1, <1>10 DEF Unsettled
  <2>2. \A x, y \in ToSet(Thirds) : x.letter = y.letter => x = y
    BY <1>2, <1>4, ThirdsOrders
  <2>3. ToSet(todo) \subseteq ToSet(Thirds)
    <3>1. \A j \in DOMAIN todo : todo[j] \in ToSet(Thirds)
      BY <1>2
    <3> QED
      BY <3>1 DEF ToSet
  <2> QED
    BY <1>3, <1>4, <1>18, <2>1, <2>2, <2>3 DEF l
<1>26. /\ UnplayedGroupMatches' = UnplayedGroupMatches /\ Unranked' = Unranked
       /\ Unpaired' = Unpaired /\ UnplayedKnockout' = UnplayedKnockout
  BY <1>1, <1>17, <1>20, OtherLoops
<1>27. Ranked'
  <2>1. \A k \in Letters : BestFirst(CountriesOf(k))' = BestFirst(CountriesOf(k))
    BY <1>11 DEF BestFirst
  <2>2. \A k \in Letters, j \in 1 .. 4 : BestFirst(CountriesOf(k))[j] \in Countries
    BY <1>2, <1>4, RankedGroups DEF AtRank
  <2> QED
    BY <1>2, <1>4, <1>15, <1>26, <2>1, <2>2 DEF Ranked
<1>28. Settled'
  <2>1. ASSUME NEW c \in Countries, Letter[c] \in Unsettled' \/ c \notin RankedThird'
        PROVE  finals'[c].qualifier = Null
    BY <1>2, <1>6, <1>7, <1>13, <1>21, <1>25, <2>1 DEF Settled
  <2>2. ASSUME NEW j \in 1 .. 12, Letter[ThirdOrder[j]] \notin Unsettled'
        PROVE  finals'[ThirdOrder[j]].qualifier = (j <= 8)
    <3>1. ThirdOrder[j] \in Countries /\ ThirdOrder[j] \in RankedThird
      BY <1>2, <1>4, ThirdsOrders DEF RankedThird
    <3>2. CASE ThirdOrder[j] = c0
      <4>1. j = i
        BY <1>2, <1>4, <3>2, ThirdsOrders DEF c0
      <4> QED
        BY <1>14, <3>2, <4>1
    <3>3. CASE ThirdOrder[j] # c0
      <4>1. Letter[ThirdOrder[j]] # l
        BY <1>2, <1>4, <1>6, <1>7, <3>1, <3>3, TwelveThirds
      <4>2. Letter[ThirdOrder[j]] \notin Unsettled
        BY <1>25, <2>2, <4>1
      <4>3. finals[ThirdOrder[j]].qualifier = (j <= 8)
        BY <1>2, <1>4, <4>2 DEF Settled, ThirdOrder
      <4> QED
        BY <1>13, <3>1, <3>3, <4>3
    <3> QED
      BY <3>2, <3>3
  <2> QED
    BY <1>22, <2>1, <2>2 DEF Settled, ThirdOrder
<1>29. Paired'
  BY <1>2, <1>4, <1>11, <1>26 DEF Paired
<1>30. GroupRows' /\ KnockoutRows' /\ Slots'
  BY <1>2, <1>11, <1>26, MatchesStay
<1> QED
  BY <1>16, <1>19, <1>24, <1>27, <1>28, <1>29, <1>30 DEF Running, Tables

----------------------------------------------------------------------------
(***************************************************************************)
(* Knockout matches                                                        *)
(***************************************************************************)
\* A call that names a position finds its match.
LEMMA FoundByPosition ==
  ASSUME NEW m \in Bracket, NEW p, p.round = m[1], p.index = m[2]
  PROVE  Book!Found(matches, p) = {m}
<1>1. /\ m \in AllMatches /\ m[1] \in 1 .. 5 /\ m[2] \in 0 .. 15 /\ m = <<m[1], m[2]>>
      /\ RoundOf[m] = m[1] /\ IndexOf[m] = m[2]
  BY BracketMatch
<1>2. Book!ByPosition(p)
  BY <1>1, ColumnAssumption DEF Book!ByPosition
<1>3. ASSUME NEW n \in AllMatches, RoundOf[n] = p.round, IndexOf[n] = p.index PROVE n = m
  <2>1. n \in Bracket
    BY <1>1, <1>3, GroupOrBracket, GroupMatch
  <2>2. n = <<n[1], n[2]>> /\ RoundOf[n] = n[1] /\ IndexOf[n] = n[2]
    BY <2>1, BracketMatch
  <2> QED
    BY <1>1, <1>3, <2>2
<1> QED
  BY <1>1, <1>2, <1>3 DEF Book!Found

\* Steps that leave the group tables and the final orders alone.
LEMMA GroupsStay ==
  ASSUME GroupRows, Ranked, Settled, UNCHANGED <<standings, finals>>,
         \A n \in GroupMatches : matches'[n] = matches[n],
         UnplayedGroupMatches' = UnplayedGroupMatches, Unranked' = Unranked,
         Unsettled' = Unsettled
  PROVE  /\ GroupRows' /\ Ranked' /\ Settled'
         /\ Thirds' = Thirds /\ Advancing' = Advancing /\ Pairs' = Pairs
<1>1. GroupRows'
  BY DEF GroupRows, Completed
<1>2. Ranked'
  BY Zenon DEF Ranked, BestFirst
<1>3. Settled'
  BY Zenon DEF Settled, RankedThird, BestFirst
<1>4. Thirds' = Thirds
  BY DEF Thirds, BestFirst
<1>5. Advancing' = Advancing
  BY DEF Advancing
<1>6. Pairs' = Pairs
  BY <1>5 DEF Pairs
<1> QED
  BY <1>1, <1>2, <1>3, <1>4, <1>5, <1>6

PairPayload(pair) ==
  [Payload EXCEPT !.round = 1, !.index = pair.index, !.c1 = pair.c1, !.c2 = pair.c2]

LEMMA PairCall ==
  ASSUME Rows, KnockoutRows, NEW pair, pair.index \in 0 .. 15, pair.c1 \in Countries,
         pair.c2 \in Countries, UnplayedKnockout = Bracket,
         NEW m, m = <<1, pair.index>>, NEW p, p = PairPayload(pair),
         NEW new, new = Book!Merge(m, matches[m], p)
  PROVE  /\ m \in Bracket /\ Book!Found(matches, p) = {m} /\ AcceptsMatch(p)
         /\ new \in Book!MatchRow /\ ~Completed(new)
         /\ new.c1 = pair.c1 /\ new.c2 = pair.c2
         /\ new.g1 = Null /\ new.g2 = Null /\ new.p1 = Null /\ new.p2 = Null
<1>1. m \in Bracket /\ m[1] = 1 /\ m[2] = pair.index
  BY Places
<1>2. m \in AllMatches /\ RoundOf[m] = 1
  BY <1>1, BracketMatch
<1>3. /\ p.round = 1 /\ p.index = pair.index /\ p.c1 = pair.c1 /\ p.c2 = pair.c2
      /\ p.g1 = Null /\ p.g2 = Null /\ p.p1 = Null /\ p.p2 = Null /\ p.cs1 = Null
      /\ p.cs2 = Null
  BY DEF PairPayload, Payload
<1>4. Book!Found(matches, p) = {m}
  BY <1>1, <1>3, FoundByPosition
<1>5. /\ matches[m].g1 = Null /\ matches[m].g2 = Null
      /\ matches[m].p1 = Null /\ matches[m].p2 = Null
  BY <1>1 DEF KnockoutRows
<1>6. Book!IsKnockout(m)
  BY <1>2 DEF Book!IsKnockout
<1>7. Null \notin Countries
  BY ColumnAssumption
<1>8. /\ new.c1 = pair.c1 /\ new.c2 = pair.c2
      /\ new.g1 = Null /\ new.g2 = Null /\ new.p1 = Null /\ new.p2 = Null
  BY <1>3, <1>5, <1>6, <1>7 DEF Book!Merge, Book!KnockoutGiven, Book!Given
<1>9. new \in Book!MatchRow
  <2>1. matches[m] \in Book!MatchRow
    BY <1>2 DEF Rows
  <2> QED
    BY <1>3, <1>5, <1>6, <1>7, <2>1
       DEF Book!Merge, Book!KnockoutGiven, Book!Given, Book!MatchRow, Book!Score, Book!Slot
<1>10. ~Completed(new) /\ ~Completed(matches[m])
  BY <1>5, <1>8 DEF Completed
<1>11. Book!HasUpdates(m, p)
  BY <1>3, <1>6, <1>7 DEF Book!HasUpdates
<1>12. Book!Accepted(m, p)
  BY <1>4, <1>10, <1>11, SameRules DEF Book!Accepted
<1> QED
  BY <1>1, <1>2, <1>4, <1>8, <1>9, <1>10, <1>12 DEF AcceptsMatch

LEMMA FieldsEffect ==
  ASSUME NEW m \in AllMatches, NEW p, Book!Found(matches, p) = {m}, RecordMatch(p),
         NEW new, new = Book!Merge(m, matches[m], p), ~Completed(new)
  PROVE  /\ matches' = [matches EXCEPT ![m] = new]
         /\ UNCHANGED <<created, standings, reached, finals, groupPicks, knockoutPicks>>
<1>1. Book!Record(m, p) /\ UNCHANGED <<created, finals, groupPicks, knockoutPicks>>
  BY DEF RecordMatch
<1>2. Book!RecordFields(m, new)
  BY <1>1, SameRules DEF Book!Record, Book!RecordGroupResult, Book!RecordKnockoutResult
<1> QED
  BY <1>1, <1>2 DEF Book!RecordFields

LEMMA PairUpKeeps ==
  ASSUME Running, PairUp
  PROVE  Running'
<1> DEFINE t == Head(todo)
           p == PairPayload(t)
           m == <<1, t.index>>
           new == Book!Merge(m, matches[m], p)
<1>1. /\ stage = "pairs" /\ todo # <<>>
      /\ IF AcceptsMatch(p)
         THEN RecordMatch(p) /\ todo' = Tail(todo) /\ UNCHANGED <<kind, dice, stage, allUsers, clubs>>
         ELSE Fail
  BY DEF PairUp, Turn, PairPayload
<1>2. todo \in Seq(ToSet(Pairs)) /\ Distinct(todo) /\ Rows /\ GroupRows /\ Ranked /\ Settled
      /\ Paired /\ KnockoutRows /\ Slots /\ kind # "future"
  BY <1>1 DEF Running, Loop, Tables, Course
<1>3. t \in ToSet(Pairs) /\ t \in ToSet(todo)
  <2>1. Head(todo) \in Elements(todo)
    BY <1>1, <1>2, WithoutFirst
  <2> QED
    BY <1>1, <1>2, <2>1, HeadTailProperties DEF Elements, ToSet
<1>4. \A r \in 1 .. 5 : stage # Rounds[r]
  BY <1>1, OutsideRounds
<1>5. /\ Unranked = {} /\ Unsettled = {} /\ Unpaired = {x.index : x \in ToSet(todo)}
      /\ UnplayedKnockout = Bracket
  BY <1>1, <1>2, <1>4 DEF Unranked, Unsettled, Unpaired, UnplayedKnockout, Waiting
<1>6. /\ t.index \in 0 .. 15 /\ t.c1 = Advancing[2 * t.index + 1]
      /\ t.c2 = Advancing[2 * t.index + 2]
  BY <1>3, PairsList
<1>7. t.c1 \in Countries /\ t.c2 \in Countries
  <2>1. 2 * t.index + 1 \in 1 .. 32 /\ 2 * t.index + 2 \in 1 .. 32
    BY <1>6
  <2>2. Advancing[2 * t.index + 1] \in Through /\ Advancing[2 * t.index + 2] \in Through
    BY <1>2, <1>5, <2>1, AdvancingOrders
  <2> QED
    BY <1>6, <2>2 DEF Through
<1> HIDE DEF t
<1>8. /\ m \in Bracket /\ Book!Found(matches, p) = {m} /\ AcceptsMatch(p)
      /\ new \in Book!MatchRow /\ ~Completed(new)
      /\ new.c1 = t.c1 /\ new.c2 = t.c2
      /\ new.g1 = Null /\ new.g2 = Null /\ new.p1 = Null /\ new.p2 = Null
  BY <1>2, <1>5, <1>6, <1>7, PairCall
<1> DEFINE i == t.index
<1>9. m[1] = 1 /\ m = <<1, i>>
  OBVIOUS
<1> HIDE DEF p, m, new
<1>10. /\ RecordMatch(p) /\ todo' = Tail(todo)
       /\ UNCHANGED <<kind, dice, stage, allUsers, clubs>>
  BY <1>1, <1>8
<1>11. m \in AllMatches /\ m \notin GroupMatches
  BY <1>8, BracketMatch
<1>12. matches' = [matches EXCEPT ![m] = new] /\ UNCHANGED <<created, standings, finals>>
  BY <1>8, <1>10, <1>11, FieldsEffect DEF new
<1>13. Stays
  BY <1>10, <1>12 DEF Stays
<1>14. todo' \in Seq(ToSet(Pairs)) /\ Distinct(todo') /\ ToSet(todo') = ToSet(todo) \ {t}
  BY <1>1, <1>2, <1>10, OneTurn DEF t
<1>15. Course' /\ Cells'
  BY <1>13, StaysOnCourse DEF Running
<1>16. Unpaired' = Unpaired \ {i}
  <2>1. Unpaired' = {x.index : x \in ToSet(todo')}
    BY <1>1, <1>10 DEF Unpaired
  <2>2. \A x, y \in ToSet(Pairs) : x.index = y.index => x = y
    BY PairsList
  <2>3. ToSet(todo) \subseteq ToSet(Pairs)
    <3>1. \A j \in DOMAIN todo : todo[j] \in ToSet(Pairs)
      BY <1>2
    <3> QED
      BY <3>1 DEF ToSet
  <2> QED
    BY <1>3, <1>5, <1>14, <2>1, <2>2, <2>3
<1>17. /\ UnplayedGroupMatches' = UnplayedGroupMatches /\ Unranked' = Unranked
       /\ Unsettled' = Unsettled /\ UnplayedKnockout' = UnplayedKnockout
  BY <1>1, <1>4, <1>13, OtherLoops
<1>18. /\ \A n \in AllMatches : n # m => matches'[n] = matches[n]
       /\ matches'[m] = new /\ matches' \in [AllMatches -> Book!MatchRow]
  BY <1>2, <1>8, <1>11, <1>12 DEF Rows
<1>19. Rows'
  BY <1>2, <1>12, <1>18 DEF Rows
<1>20. \A n \in GroupMatches : matches'[n] = matches[n]
  BY <1>11, <1>18, GroupMatch
<1>21. /\ GroupRows' /\ Ranked' /\ Settled' /\ Advancing' = Advancing /\ Pairs' = Pairs
  BY <1>2, <1>12, <1>17, <1>20, GroupsStay
<1>22. Loop'
  BY <1>1, <1>4, <1>10, <1>14, <1>21 DEF Loop
<1>23. Paired'
  <2>1. ASSUME NEW k \in 0 .. 15
        PROVE  IF k \in Unpaired'
               THEN matches'[<<1, k>>].c1 = Null /\ matches'[<<1, k>>].c2 = Null
               ELSE /\ matches'[<<1, k>>].c1 = Advancing[2 * k + 1]
                    /\ matches'[<<1, k>>].c2 = Advancing[2 * k + 2]
    <3>1. CASE k = i
      BY <1>6, <1>8, <1>9, <1>16, <1>18, <3>1
    <3>2. CASE k # i
      <4>1. matches'[<<1, k>>] = matches[<<1, k>>]
        <5>1. <<1, k>> \in AllMatches /\ <<1, k>> # m
          BY <1>9, <3>2, Places, BracketMatch
        <5> QED
          BY <1>18, <5>1
      <4>2. k \in Unpaired' <=> k \in Unpaired
        BY <1>16, <3>2
      <4> QED
        BY <1>2, <4>1, <4>2 DEF Paired
    <3> QED
      BY <3>1, <3>2
  <2> QED
    BY <1>21, <2>1 DEF Paired
<1>24. KnockoutRows'
  <2>1. ASSUME NEW n \in Bracket
        PROVE  /\ matches'[n].g1 = Null /\ matches'[n].g2 = Null
               /\ matches'[n].p1 = Null /\ matches'[n].p2 = Null
    <3>1. n \in AllMatches
      BY BracketMatch
    <3> QED
      BY <1>2, <1>5, <1>8, <1>18, <3>1 DEF KnockoutRows
  <2> QED
    BY <1>5, <1>17, <2>1 DEF KnockoutRows
<1>25. Slots'
  <2>1. ASSUME NEW n \in Bracket, NEW slot \in {0, 1}, n[1] > 1
        PROVE  Book!InSlot(matches'[n], slot) = Book!InSlot(matches[n], slot)
    <3>1. n \in AllMatches /\ n # m
      BY <1>9, <2>1, BracketMatch
    <3> QED
      BY <1>18, <3>1
  <2> QED
    BY <1>2, <1>17, <2>1 DEF Slots
<1> QED
  BY <1>15, <1>19, <1>21, <1>22, <1>23, <1>24, <1>25 DEF Running, Tables

\* What the program sends for a knockout match: a result with a winner.
KnockoutPayload(p, m) ==
  /\ p.round = m[1] /\ p.index = m[2] /\ p.c1 = Null /\ p.c2 = Null
  /\ p.g1 \in Nat /\ p.g2 \in Nat /\ p.p1 \in Nat \cup {Null} /\ p.p2 \in Nat \cup {Null}
  /\ p.cs1 = Null /\ p.cs2 = Null
  /\ HasWinner(p)

KnockoutAt == [Payload EXCEPT !.round = Head(todo)[1], !.index = Head(todo)[2]]
DecidedPayload ==
  IF Deterministic THEN Goals(KnockoutAt, 2, 1) ELSE RandomKnockout(KnockoutAt)

LEMMA DecidedIsKnockoutPayload ==
  ASSUME dice \in Dice, NEW S, todo \in Seq(S), todo # <<>>
  PROVE  KnockoutPayload(DecidedPayload, Head(todo))
<1> DEFINE m == Head(todo)
<1>1. ASSUME NEW p, NEW a \in Nat, NEW b \in Nat, p = Goals(KnockoutAt, a, b)
      PROVE  /\ p.round = m[1] /\ p.index = m[2] /\ p.c1 = Null /\ p.c2 = Null
             /\ p.g1 = a /\ p.g2 = b /\ p.p1 = Null /\ p.p2 = Null
             /\ p.cs1 = Null /\ p.cs2 = Null
  BY <1>1 DEF Goals, KnockoutAt, Payload
<1>2. CASE Deterministic
  <2>1. DecidedPayload = Goals(KnockoutAt, 2, 1)
    BY <1>2 DEF DecidedPayload
  <2>2. PICK a \in Nat, b \in Nat : a = 2 /\ b = 1
    OBVIOUS
  <2>3. DecidedPayload = Goals(KnockoutAt, a, b) /\ a > b
    BY <2>1, <2>2
  <2> QED
    BY <1>1, <2>3 DEF KnockoutPayload, HasWinner, FirstWins
<1>3. CASE ~Deterministic
  <2> DEFINE a == Roll(1, 4)
             b == Roll(2, 4)
             p == Goals(KnockoutAt, a, b)
  <2>1. DecidedPayload = IF p.g1 = p.g2 THEN [p EXCEPT !.p1 = 4, !.p2 = 3] ELSE p
    BY <1>3 DEF DecidedPayload, RandomKnockout, RandomGoals
  <2>2. a \in Nat /\ b \in Nat
    <3>1. Len(todo) \in Nat
      BY LenProperties
    <3>2. 1 \in Nat /\ 2 \in Nat /\ 4 \in Nat /\ 4 > 0 /\ \A x \in 0 .. 4 - 1 : x \in Nat
      OBVIOUS
    <3> QED
      BY <3>1, <3>2, RollRange
  <2>3. ASSUME NEW q, q = [Goals(KnockoutAt, a, b) EXCEPT !.p1 = 4, !.p2 = 3]
        PROVE  /\ q.round = m[1] /\ q.index = m[2] /\ q.c1 = Null /\ q.c2 = Null
               /\ q.g1 = a /\ q.g2 = b /\ q.p1 = 4 /\ q.p2 = 3
               /\ q.cs1 = Null /\ q.cs2 = Null
    BY <2>2, <2>3 DEF Goals, KnockoutAt, Payload
  <2>6. /\ p.round = m[1] /\ p.index = m[2] /\ p.c1 = Null /\ p.c2 = Null
        /\ p.g1 = a /\ p.g2 = b /\ p.p1 = Null /\ p.p2 = Null
        /\ p.cs1 = Null /\ p.cs2 = Null
    BY <1>1, <2>2
  <2> DEFINE q == [p EXCEPT !.p1 = 4, !.p2 = 3]
  <2>7. /\ q.round = m[1] /\ q.index = m[2] /\ q.c1 = Null /\ q.c2 = Null
        /\ q.g1 = a /\ q.g2 = b /\ q.p1 = 4 /\ q.p2 = 3
        /\ q.cs1 = Null /\ q.cs2 = Null
    BY <2>3
  <2> HIDE DEF a, b, p, m, q
  <2>4. CASE a = b
    <3>1. DecidedPayload = q
      BY <2>1, <2>4, <2>6 DEF q
    <3>3. 4 # Null /\ 3 # Null
      BY ColumnAssumption
    <3> QED
      BY <2>2, <2>4, <2>7, <3>1, <3>3 DEF KnockoutPayload, HasWinner, FirstWins, OnPenalties, m
  <2>5. CASE a # b
    <3>1. DecidedPayload = p
      BY <2>1, <2>5, <2>6
    <3>2. a > b \/ a < b
      BY <2>2, <2>5
    <3> QED
      BY <2>2, <2>6, <3>1, <3>2 DEF KnockoutPayload, HasWinner, FirstWins, SecondWins, m
  <2> QED
    BY <2>4, <2>5
<1> QED
  BY <1>2, <1>3

\* The call finds the match, and is accepted.
LEMMA KnockoutCall ==
  ASSUME Rows, KnockoutRows, NEW m \in UnplayedKnockout, m \in Bracket,
         Book!HasCountries(matches[m]), NEW p, KnockoutPayload(p, m),
         NEW new, new = Book!Merge(m, matches[m], p)
  PROVE  /\ Book!Found(matches, p) = {m} /\ AcceptsMatch(p)
         /\ new \in Book!MatchRow /\ Completed(new) /\ HasWinner(new)
         /\ new.c1 = matches[m].c1 /\ new.c2 = matches[m].c2
         /\ new.g1 = p.g1 /\ new.g2 = p.g2
<1>1. m \in AllMatches /\ RoundOf[m] = m[1] /\ m[1] \in 1 .. 5
  BY BracketMatch
<1>2. Book!Found(matches, p) = {m}
  BY FoundByPosition DEF KnockoutPayload
<1>3. /\ matches[m].g1 = Null /\ matches[m].g2 = Null
      /\ matches[m].p1 = Null /\ matches[m].p2 = Null
  BY DEF KnockoutRows
<1>4. Book!IsKnockout(m)
  BY <1>1 DEF Book!IsKnockout
<1>5. Null \notin Int
  BY ColumnAssumption
<1>6. /\ new.c1 = matches[m].c1 /\ new.c2 = matches[m].c2
      /\ new.g1 = p.g1 /\ new.g2 = p.g2 /\ new.p1 = p.p1 /\ new.p2 = p.p2
  BY <1>3, <1>4, <1>5 DEF Book!Merge, Book!KnockoutGiven, Book!Given, KnockoutPayload
<1>7. new \in Book!MatchRow
  <2>1. matches[m] \in Book!MatchRow
    BY <1>1 DEF Rows
  <2> QED
    BY <1>3, <1>4, <1>5, <2>1
       DEF Book!Merge, Book!KnockoutGiven, Book!Given, Book!MatchRow, Book!Score, Book!Slot,
           KnockoutPayload
<1>8. Completed(new) /\ ~Completed(matches[m])
  BY <1>3, <1>5, <1>6 DEF Completed, KnockoutPayload
<1>9. HasWinner(new)
  BY <1>6 DEF HasWinner, FirstWins, SecondWins, OnPenalties, KnockoutPayload
<1>10. Book!HasUpdates(m, p)
  BY <1>5 DEF Book!HasUpdates, KnockoutPayload
<1>11. Book!HasCountries(new)
  BY <1>6 DEF Book!HasCountries
<1>12. Book!Accepted(m, p)
  BY <1>2, <1>8, <1>10, <1>11, SameRules DEF Book!Accepted
<1> QED
  BY <1>1, <1>2, <1>6, <1>7, <1>8, <1>9, <1>12 DEF AcceptsMatch

MovesOn(m, new) ==
  [n \in AllMatches |->
     CASE n = m                          -> new
       [] n \in Book!NextMatches(m)      -> Book!SeedWinner(m, matches[n], Book!Winner(new))
       [] n \in Book!ThirdPlaceMatches(m) -> Book!SeedLoser(m, matches[n], Book!Loser(new))
       [] OTHER                          -> matches[n]]

LEMMA KnockoutEffect ==
  ASSUME NEW m \in Bracket, NEW p, Book!Found(matches, p) = {m}, RecordMatch(p),
         NEW new, new = Book!Merge(m, matches[m], p), Completed(new), HasWinner(new)
  PROVE  /\ matches' = MovesOn(m, new)
         /\ UNCHANGED <<created, standings, finals, groupPicks, knockoutPicks>>
<1>1. Book!Record(m, p) /\ UNCHANGED <<created, finals, groupPicks, knockoutPicks>>
  BY DEF RecordMatch
<1>2. Book!IsKnockout(m)
  BY BracketMatch DEF Book!IsKnockout
<1>3. Book!RecordKnockoutResult(m, new)
  BY <1>1, <1>2, SameRules DEF Book!Record, Book!RecordFields, Book!RecordGroupResult
<1>4. matches' = MovesOn(m, new)
  BY <1>3 DEF Book!RecordKnockoutResult, MovesOn
<1> QED
  BY <1>1, <1>3, <1>4 DEF Book!RecordKnockoutResult

\* Which match feeds which slot.
LEMMA Halves ==
  \A x \in 0 .. 15, y \in Nat, s \in {0, 1} :
    x = 2 * y + s <=> y = x \div 2 /\ s = x % 2
  OBVIOUS

LEMMA NextIsFed ==
  ASSUME NEW m \in Bracket, NEW n \in Bracket
  PROVE  /\ n \in Book!NextMatches(m) <=> m[1] \in 1 .. 4 /\ n[1] = m[1] + 1 /\ n[2] = m[2] \div 2
         /\ n \in Book!ThirdPlaceMatches(m) <=> m[1] = 4 /\ n[1] = 5 /\ n[2] = 1
<1>1. /\ n \in AllMatches /\ RoundOf[n] = n[1] /\ IndexOf[n] = n[2]
      /\ RoundOf[m] = m[1] /\ IndexOf[m] = m[2]
  BY BracketMatch
<1> QED
  BY <1>1 DEF Book!NextMatches, Book!ThirdPlaceMatches

LEMMA FedSlot ==
  ASSUME NEW m \in Bracket, NEW n \in Bracket, NEW slot \in {0, 1}, n[1] > 1
  PROVE  Feeder(n, slot) = m <=>
           \/ n \in Book!NextMatches(m) /\ slot = m[2] % 2
           \/ n \in Book!ThirdPlaceMatches(m) /\ slot = m[2]
<1>1. /\ m[1] \in 1 .. 5 /\ m[2] \in 0 .. 15 /\ m = <<m[1], m[2]>>
      /\ n[1] \in 1 .. 5 /\ n[2] \in 0 .. 15 /\ n = <<n[1], n[2]>>
  BY BracketMatch
<1>2. CASE n[1] < 5
  <2>1. Feeder(n, slot) = <<n[1] - 1, 2 * n[2] + slot>>
    BY <1>2 DEF Feeder
  <2>2. Feeder(n, slot) = m <=> n[1] - 1 = m[1] /\ 2 * n[2] + slot = m[2]
    BY <1>1, <2>1
  <2>3. m[2] = 2 * n[2] + slot <=> n[2] = m[2] \div 2 /\ slot = m[2] % 2
    BY <1>1, Halves
  <2>4. n[1] - 1 = m[1] <=> n[1] = m[1] + 1
    BY <1>1
  <2>5. n[1] = m[1] + 1 => m[1] \in 1 .. 4
    BY <1>1
  <2> QED
    BY <1>2, <2>2, <2>3, <2>4, <2>5, NextIsFed
<1>3. CASE n[1] = 5
  <2>1. Feeder(n, slot) = <<4, slot>>
    BY <1>3 DEF Feeder
  <2>2. Feeder(n, slot) = m <=> m[1] = 4 /\ m[2] = slot
    BY <1>1, <2>1
  <2>3. n[2] \in 0 .. 1
    BY <1>1, <1>3, Places
  <2>4. m[1] = 4 => m[2] \in 0 .. 1 /\ m[2] \div 2 = 0 /\ m[2] % 2 = m[2]
    <3>1. m[1] = 4 => m[2] \in 0 .. 1
      BY <1>1, Places
    <3>2. \A x \in 0 .. 1 : x \div 2 = 0 /\ x % 2 = x
      OBVIOUS
    <3> QED
      BY <3>1, <3>2
  <2>5. m[1] + 1 = 5 <=> m[1] = 4
    BY <1>1
  <2>6. n \in Book!NextMatches(m) <=> m[1] = 4 /\ n[2] = 0
    BY <1>1, <1>3, <2>4, <2>5, NextIsFed
  <2>7. n \in Book!ThirdPlaceMatches(m) <=> m[1] = 4 /\ n[2] = 1
    BY <1>3, NextIsFed
  <2> QED
    BY <2>2, <2>3, <2>4, <2>6, <2>7
<1> QED
  BY <1>1, <1>2, <1>3

\* What a decided match does to the bracket: its winner (to the third-place match its
\* loser) takes the slot it feeds, everything else stays.
FillsSlots(rows, m, new) ==
  /\ rows \in [AllMatches -> Book!MatchRow] /\ rows[m] = new
  /\ \A n \in GroupMatches : rows[n] = matches[n]
  /\ \A n \in Bracket :
       /\ n # m =>
            /\ rows[n].g1 = matches[n].g1 /\ rows[n].g2 = matches[n].g2
            /\ rows[n].p1 = matches[n].p1 /\ rows[n].p2 = matches[n].p2
            /\ n[1] = 1 => rows[n] = matches[n]
  /\ \A n \in Bracket, slot \in {0, 1} :
       n # m /\ n[1] > 1 =>
         Book!InSlot(rows[n], slot) =
           IF Feeder(n, slot) # m THEN Book!InSlot(matches[n], slot)
           ELSE IF n = <<5, 1>> THEN Loser(new) ELSE Winner(new)

LEMMA MovesOnFills ==
  ASSUME Rows, NEW m \in Bracket, NEW new \in Book!MatchRow, NEW rows, rows = MovesOn(m, new)
  PROVE  FillsSlots(rows, m, new)
<1>1. \A n \in AllMatches : matches[n] \in Book!MatchRow
  BY DEF Rows
<1>2. m \in AllMatches /\ RoundOf[m] = m[1] /\ IndexOf[m] = m[2] /\ m[2] \in 0 .. 15
  BY BracketMatch
<1>3. Winner(new) \in Book!Slot /\ Loser(new) \in Book!Slot
  BY DEF Winner, Loser, Book!MatchRow
<1>4. Book!Winner(new) = Winner(new) /\ Book!Loser(new) = Loser(new)
  BY SameRules
<1>5. ASSUME NEW n \in AllMatches
      PROVE  /\ n = m => rows[n] = new
             /\ n # m /\ n \in Book!NextMatches(m) =>
                  rows[n] = Book!SeedWinner(m, matches[n], Winner(new))
             /\ n # m /\ n \notin Book!NextMatches(m) /\ n \in Book!ThirdPlaceMatches(m) =>
                  rows[n] = Book!SeedLoser(m, matches[n], Loser(new))
             /\ n # m /\ n \notin Book!NextMatches(m) /\ n \notin Book!ThirdPlaceMatches(m) =>
                  rows[n] = matches[n]
  <2>1. RoundOf[m] = 4 => m[2] \in 0 .. 1
    <3>1. m = <<m[1], m[2]>>
      BY BracketMatch
    <3> QED
      BY <1>2, <3>1, Places
  <2>2. \A x \in 0 .. 1 : x \div 2 = 0
    OBVIOUS
  <2>3. ~(n \in Book!NextMatches(m) /\ n \in Book!ThirdPlaceMatches(m))
    BY <1>2, <2>1, <2>2 DEF Book!NextMatches, Book!ThirdPlaceMatches
  <2>4. rows[n] = CASE n = m                          -> new
                    [] n \in Book!NextMatches(m)      -> Book!SeedWinner(m, matches[n], Winner(new))
                    [] n \in Book!ThirdPlaceMatches(m) -> Book!SeedLoser(m, matches[n], Loser(new))
                    [] OTHER                          -> matches[n]
    BY <1>4 DEF MovesOn
  <2>5. m \notin Book!NextMatches(m) /\ m \notin Book!ThirdPlaceMatches(m)
    <3>1. RoundOf[m] \in 1 .. 5
      BY BracketMatch
    <3> QED
      BY <3>1 DEF Book!NextMatches, Book!ThirdPlaceMatches
  <2> QED
    BY <2>3, <2>4, <2>5
<1>6. DOMAIN rows = AllMatches
  BY DEF MovesOn
<1>7. ASSUME NEW n \in AllMatches, NEW c \in Book!Slot
      PROVE  /\ Book!SeedWinner(m, matches[n], c) \in Book!MatchRow
             /\ Book!SeedWinner(m, matches[n], c).g1 = matches[n].g1
             /\ Book!SeedWinner(m, matches[n], c).g2 = matches[n].g2
             /\ Book!SeedWinner(m, matches[n], c).p1 = matches[n].p1
             /\ Book!SeedWinner(m, matches[n], c).p2 = matches[n].p2
             /\ \A slot \in {0, 1} :
                  Book!InSlot(Book!SeedWinner(m, matches[n], c), slot) =
                    IF slot = m[2] % 2 THEN c ELSE Book!InSlot(matches[n], slot)
  <2>1. m[2] % 2 = 0 \/ m[2] % 2 = 1
    BY <1>2
  <2> QED
    BY <1>1, <1>2, <2>1 DEF Book!SeedWinner, Book!MatchRow, Book!InSlot
<1>8. ASSUME NEW n \in AllMatches, NEW c \in Book!Slot, m[2] \in 0 .. 1
      PROVE  /\ Book!SeedLoser(m, matches[n], c) \in Book!MatchRow
             /\ Book!SeedLoser(m, matches[n], c).g1 = matches[n].g1
             /\ Book!SeedLoser(m, matches[n], c).g2 = matches[n].g2
             /\ Book!SeedLoser(m, matches[n], c).p1 = matches[n].p1
             /\ Book!SeedLoser(m, matches[n], c).p2 = matches[n].p2
             /\ \A slot \in {0, 1} :
                  Book!InSlot(Book!SeedLoser(m, matches[n], c), slot) =
                    IF slot = m[2] THEN c ELSE Book!InSlot(matches[n], slot)
  <2>1. m[2] = 0 \/ m[2] = 1
    BY <1>8
  <2> QED
    BY <1>1, <1>2, <2>1 DEF Book!SeedLoser, Book!MatchRow, Book!InSlot
<1>9. \A n \in AllMatches : n \in Book!ThirdPlaceMatches(m) => m[2] \in 0 .. 1
  <2>1. \A n \in AllMatches : n \in Book!ThirdPlaceMatches(m) => m[1] = 4
    BY <1>2 DEF Book!ThirdPlaceMatches
  <2>2. m = <<m[1], m[2]>>
    BY BracketMatch
  <2> QED
    BY <2>1, <2>2, Places
<1>10. rows \in [AllMatches -> Book!MatchRow]
  <2>1. \A n \in AllMatches : rows[n] \in Book!MatchRow
    BY <1>1, <1>3, <1>5, <1>7, <1>8, <1>9
  <2>2. rows = [n \in AllMatches |-> rows[n]]
    BY <1>6 DEF MovesOn
  <2> QED
    BY <2>1, <2>2
<1>11. ASSUME NEW n \in GroupMatches PROVE rows[n] = matches[n]
  <2>1. n \in AllMatches /\ n # m /\ RoundOf[n] = 0
    BY GroupMatch
  <2>2. n \notin Book!NextMatches(m) /\ n \notin Book!ThirdPlaceMatches(m)
    <3>1. RoundOf[m] \in 1 .. 5
      BY BracketMatch
    <3> QED
      BY <2>1, <3>1 DEF Book!NextMatches, Book!ThirdPlaceMatches
  <2> QED
    BY <1>5, <2>1, <2>2
<1>12. ASSUME NEW n \in Bracket, n # m
       PROVE  /\ rows[n].g1 = matches[n].g1 /\ rows[n].g2 = matches[n].g2
              /\ rows[n].p1 = matches[n].p1 /\ rows[n].p2 = matches[n].p2
              /\ n[1] = 1 => rows[n] = matches[n]
  <2>1. n \in AllMatches
    BY BracketMatch
  <2>2. n[1] = 1 => n \notin Book!NextMatches(m) /\ n \notin Book!ThirdPlaceMatches(m)
    <3>1. m[1] \in 1 .. 5
      BY BracketMatch
    <3> QED
      BY <3>1, NextIsFed
  <2> QED
    BY <1>3, <1>5, <1>7, <1>8, <1>9, <1>12, <2>1, <2>2
<1>13. ASSUME NEW n \in Bracket, NEW slot \in {0, 1}, n # m, n[1] > 1
       PROVE  Book!InSlot(rows[n], slot) =
                IF Feeder(n, slot) # m THEN Book!InSlot(matches[n], slot)
                ELSE IF n = <<5, 1>> THEN Loser(new) ELSE Winner(new)
  <2>1. n \in AllMatches /\ n = <<n[1], n[2]>>
    BY BracketMatch
  <2>2. ~(n \in Book!NextMatches(m) /\ n \in Book!ThirdPlaceMatches(m))
    <3>1. m[1] = 4 => m[2] \in 0 .. 1
      <4>1. m = <<m[1], m[2]>>
        BY BracketMatch
      <4> QED
        BY <4>1, Places
    <3>2. \A x \in 0 .. 1 : x \div 2 = 0
      OBVIOUS
    <3> QED
      BY <3>1, <3>2, NextIsFed
  <2>3. CASE n \in Book!NextMatches(m)
    <3>1. rows[n] = Book!SeedWinner(m, matches[n], Winner(new))
      BY <1>5, <1>13, <2>1, <2>3
    <3>2. Feeder(n, slot) = m <=> slot = m[2] % 2
      BY <1>13, <2>2, <2>3, FedSlot
    <3>3. n # <<5, 1>>
      <4>1. n = <<5, 1>> => m[1] = 4
        <5>1. m[1] \in 1 .. 5
          BY BracketMatch
        <5> QED
          BY <2>3, <5>1, NextIsFed
      <4>2. n = <<5, 1>> => n \in Book!ThirdPlaceMatches(m)
        BY <4>1, NextIsFed
      <4> QED
        BY <2>2, <2>3, <4>2
    <3> QED
      BY <1>3, <1>7, <2>1, <3>1, <3>2, <3>3
  <2>4. CASE n \in Book!ThirdPlaceMatches(m)
    <3>1. rows[n] = Book!SeedLoser(m, matches[n], Loser(new))
      BY <1>5, <1>13, <2>1, <2>2, <2>4
    <3>2. Feeder(n, slot) = m <=> slot = m[2]
      BY <1>13, <2>2, <2>4, FedSlot
    <3>3. n = <<5, 1>>
      BY <2>1, <2>4, NextIsFed
    <3> QED
      BY <1>3, <1>8, <1>9, <2>1, <2>4, <3>1, <3>2, <3>3
  <2>5. CASE n \notin Book!NextMatches(m) /\ n \notin Book!ThirdPlaceMatches(m)
    <3>1. rows[n] = matches[n]
      BY <1>5, <1>13, <2>1, <2>5
    <3>2. Feeder(n, slot) # m
      BY <1>13, <2>5, FedSlot
    <3> QED
      BY <3>1, <3>2
  <2> QED
    BY <2>3, <2>4, <2>5
<1> QED
  BY <1>2, <1>5, <1>10, <1>11, <1>12, <1>13 DEF FillsSlots

\* In a round, the round before it is played: the countries of its matches are known.
LEMMA RoundIsKnown ==
  ASSUME Running, NEW r \in 1 .. 5, stage = Rounds[r], NEW m \in Bracket, m[1] = r
  PROVE  Book!HasCountries(matches[m])
<1>1. kind # "future" /\ stage \in {"round1", "round2", "round3", "round4", "round5"}
  BY RoundNames DEF Running, Course
<1>2. Unranked = {} /\ Unsettled = {} /\ Unpaired = {}
  BY <1>1 DEF Unranked, Unsettled, Unpaired, Waiting
<1>3. m = <<m[1], m[2]>> /\ m[2] \in 0 .. 15
  BY BracketMatch
<1>4. CASE r = 1
  <2>1. m = <<1, m[2]>>
    BY <1>3, <1>4
  <2> QED
    BY <1>2, <1>3, <2>1, PairedPlaces DEF Running, Tables
<1>5. CASE r > 1
  <2>1. ASSUME NEW slot \in {0, 1} PROVE Feeder(m, slot) \notin UnplayedKnockout
    <3>1. Feeder(m, slot)[1] = r - 1
      BY DEF Feeder
    <3>2. ~(r - 1 > r) /\ r - 1 # r
      OBVIOUS
    <3>3. \A n \in ToSet(todo) : n[1] = r
      <4>1. todo \in Seq({n \in Bracket : n[1] = r})
        BY DEF Running, Loop
      <4>2. \A i \in DOMAIN todo : todo[i][1] = r
        BY <4>1
      <4> QED
        BY <4>2 DEF ToSet
    <3>4. stage # "report"
      BY <1>1
    <3> QED
      BY <3>1, <3>2, <3>3, <3>4 DEF UnplayedKnockout
  <2>2. Book!InSlot(matches[m], 0) # Null /\ Book!InSlot(matches[m], 1) # Null
    BY <1>5, <2>1 DEF Running, Tables, Slots
  <2> QED
    BY <2>2 DEF Book!InSlot, Book!HasCountries
<1> QED
  BY <1>4, <1>5

\* Every result is sent for a match that is known and not yet played, and is accepted.
LEMMA KnockoutTurn ==
  ASSUME Running, PlayKnockout
  PROVE  \E r \in 1 .. 5 :
           LET m == Head(todo)
               p == DecidedPayload
               new == Book!Merge(m, matches[m], p)
           IN  /\ stage = Rounds[r] /\ m \in Bracket /\ m[1] = r /\ m \in UnplayedKnockout
               /\ m \in ToSet(todo) /\ Book!HasCountries(matches[m])
               /\ todo' = Tail(todo) /\ Stays
               /\ todo' \in Seq({n \in Bracket : n[1] = r}) /\ Distinct(todo')
               /\ ToSet(todo') = ToSet(todo) \ {m}
               /\ KnockoutPayload(p, m) /\ RecordMatch(p) /\ Book!Found(matches, p) = {m}
               /\ new \in Book!MatchRow /\ Completed(new) /\ HasWinner(new)
               /\ new.c1 = matches[m].c1 /\ new.c2 = matches[m].c2
               /\ matches' = MovesOn(m, new)
               /\ UNCHANGED <<standings, finals, groupPicks, knockoutPicks>>
<1> DEFINE m == Head(todo)
           p == DecidedPayload
           new == Book!Merge(m, matches[m], p)
<1>1. PICK r \in 1 .. 5 :
        /\ stage = Rounds[r] /\ todo # <<>>
        /\ IF AcceptsMatch(p)
           THEN /\ RecordMatch(p) /\ todo' = Tail(todo)
                /\ UNCHANGED <<kind, dice, stage, allUsers, clubs>>
           ELSE Fail
  BY DEF PlayKnockout, Turn, DecidedPayload, KnockoutAt
<1> DEFINE S == {n \in Bracket : n[1] = r}
<1>2. todo \in Seq(S) /\ Distinct(todo) /\ dice \in Dice /\ Rows /\ KnockoutRows
  BY <1>1 DEF Running, Loop, Course, Tables
<1>3. m \in S /\ m \in ToSet(todo)
  <2>1. Head(todo) \in Elements(todo)
    BY <1>1, <1>2, WithoutFirst
  <2> HIDE DEF S
  <2>2. Head(todo) \in S
    BY <1>1, <1>2, HeadTailProperties
  <2> QED
    BY <2>1, <2>2 DEF Elements, ToSet
<1>4. KnockoutPayload(p, m)
  <2> HIDE DEF S
  <2> QED
    BY <1>1, <1>2, DecidedIsKnockoutPayload
<1> HIDE DEF p
<1>5. Book!HasCountries(matches[m])
  BY <1>1, <1>3, RoundIsKnown
<1>6. m \in UnplayedKnockout
  <2>1. \A k \in 1 .. 5 : stage = Rounds[k] => k = r
    BY <1>1, RoundNames
  <2>2. stage # "report"
    BY <1>1, RoundNames
  <2> QED
    BY <1>3, <2>1, <2>2 DEF UnplayedKnockout
<1>7. /\ Book!Found(matches, p) = {m} /\ AcceptsMatch(p)
      /\ new \in Book!MatchRow /\ Completed(new) /\ HasWinner(new)
      /\ new.c1 = matches[m].c1 /\ new.c2 = matches[m].c2
  <2> HIDE DEF m
  <2> QED
    BY <1>2, <1>3, <1>4, <1>5, <1>6, KnockoutCall
<1>8. /\ RecordMatch(p) /\ todo' = Tail(todo)
      /\ UNCHANGED <<kind, dice, stage, allUsers, clubs>>
  BY <1>1, <1>7
<1>9. /\ matches' = MovesOn(m, new)
      /\ UNCHANGED <<created, standings, finals, groupPicks, knockoutPicks>>
  <2> HIDE DEF m
  <2> QED
    BY <1>3, <1>7, <1>8, KnockoutEffect
<1>10. todo' \in Seq(S) /\ Distinct(todo') /\ ToSet(todo') = ToSet(todo) \ {m}
  <2> HIDE DEF S
  <2> QED
    BY <1>1, <1>2, <1>8, OneTurn
<1>11. Stays
  BY <1>8, <1>9 DEF Stays
<1> HIDE DEF m, new
<1>12. m \in Bracket /\ m[1] = r
  BY <1>3
<1> QED
  BY <1>1, <1>3, <1>4, <1>5, <1>6, <1>7, <1>8, <1>9, <1>10, <1>11, <1>12 DEF m, p, new

LEMMA PlayKnockoutKeeps ==
  ASSUME Running, PlayKnockout
  PROVE  Running'
<1> DEFINE m == Head(todo)
           p == DecidedPayload
           new == Book!Merge(m, matches[m], p)
<1>1. PICK r \in 1 .. 5 :
        /\ stage = Rounds[r] /\ m \in Bracket /\ m[1] = r /\ m \in UnplayedKnockout
        /\ m \in ToSet(todo) /\ Book!HasCountries(matches[m])
        /\ todo' = Tail(todo) /\ Stays
        /\ todo' \in Seq({n \in Bracket : n[1] = r}) /\ Distinct(todo')
        /\ ToSet(todo') = ToSet(todo) \ {m}
        /\ new \in Book!MatchRow /\ Completed(new) /\ HasWinner(new)
        /\ new.c1 = matches[m].c1 /\ new.c2 = matches[m].c2
        /\ matches' = MovesOn(m, new)
        /\ UNCHANGED <<standings, finals>>
  BY KnockoutTurn
<1> HIDE DEF m, new
<1>2. /\ Rows /\ GroupRows /\ Ranked /\ Settled /\ Paired /\ KnockoutRows /\ Slots
      /\ kind # "future"
  <2>1. stage \in {"round1", "round2", "round3", "round4", "round5"}
    BY <1>1, RoundNames
  <2> QED
    BY <2>1 DEF Running, Tables, Course
<1>3. stage \notin {"groupMatches", "rankings", "qualifiers", "pairs", "groupPicks",
                    "knockoutPicks", "users", "subcontests", "report"}
  BY <1>1, RoundNames
<1>4. \A k \in 1 .. 5 : stage = Rounds[k] <=> k = r
  BY <1>1, RoundNames
<1>5. Course' /\ Cells'
  BY <1>1, StaysOnCourse DEF Running
<1>6. stage' = stage /\ kind' = kind
  BY <1>1 DEF Stays
<1>7. Loop'
  <2>1. Bracket' = Bracket
    BY DEF Bracket
  <2> QED
    BY <1>1, <1>3, <1>4, <1>6, <2>1 DEF Loop
<1>8. /\ UnplayedGroupMatches' = UnplayedGroupMatches /\ Unranked' = Unranked
      /\ Unsettled' = Unsettled /\ Unpaired' = Unpaired
  BY <1>1, <1>3, OtherLoops
<1>9. UnplayedKnockout' = UnplayedKnockout \ {m}
  <2>1. UnplayedKnockout = {n \in Bracket : n[1] > r \/ n \in ToSet(todo)}
    BY <1>3, <1>4 DEF UnplayedKnockout
  <2>2. UnplayedKnockout' = {n \in Bracket : n[1] > r \/ n \in ToSet(todo')}
    BY <1>3, <1>4, <1>6 DEF UnplayedKnockout
  <2>3. ~(m[1] > r)
    BY <1>1
  <2> QED
    BY <1>1, <2>1, <2>2, <2>3
<1>10. /\ matches' \in [AllMatches -> Book!MatchRow] /\ matches'[m] = new
       /\ \A n \in GroupMatches : matches'[n] = matches[n]
       /\ \A n \in Bracket :
            /\ n # m =>
                 /\ matches'[n].g1 = matches[n].g1 /\ matches'[n].g2 = matches[n].g2
                 /\ matches'[n].p1 = matches[n].p1 /\ matches'[n].p2 = matches[n].p2
                 /\ n[1] = 1 => matches'[n] = matches[n]
       /\ \A n \in Bracket, slot \in {0, 1} :
            n # m /\ n[1] > 1 =>
              Book!InSlot(matches'[n], slot) =
                IF Feeder(n, slot) # m THEN Book!InSlot(matches[n], slot)
                ELSE IF n = <<5, 1>> THEN Loser(new) ELSE Winner(new)
  <2>1. FillsSlots(MovesOn(m, new), m, new)
    BY <1>1, <1>2, MovesOnFills
  <2>2. FillsSlots(matches', m, new)
    BY <1>1, <2>1
  <2> QED
    BY <2>2 DEF FillsSlots
<1>11. Winner(new) # Null /\ Loser(new) # Null
  BY <1>1 DEF Winner, Loser, Book!HasCountries
<1>12. Rows'
  BY <1>1, <1>2, <1>10 DEF Rows
<1>13. /\ GroupRows' /\ Ranked' /\ Settled' /\ Advancing' = Advancing
  BY <1>1, <1>2, <1>8, <1>10, GroupsStay
<1>14. Paired'
  <2>1. ASSUME NEW k \in 0 .. 15
        PROVE  /\ matches'[<<1, k>>].c1 = matches[<<1, k>>].c1
               /\ matches'[<<1, k>>].c2 = matches[<<1, k>>].c2
    <3>1. <<1, k>> \in Bracket /\ <<1, k>>[1] = 1
      BY Places
    <3> QED
      BY <1>1, <1>10, <3>1
  <2> QED
    BY <1>2, <1>8, <1>13, <2>1 DEF Paired
<1>15. ASSUME NEW n \in Bracket, NEW slot \in {0, 1}, n[1] > 1
       PROVE  \/ Book!InSlot(matches'[n], slot) = Book!InSlot(matches[n], slot) /\ Feeder(n, slot) # m
              \/ Book!InSlot(matches'[n], slot) # Null /\ Feeder(n, slot) = m
  <2>1. CASE n = m
    <3>1. Feeder(n, slot) # m
      <4>1. n[1] \in 1 .. 5 /\ ((Feeder(n, slot)[1] = 4 /\ n[1] = 5) \/ Feeder(n, slot)[1] = n[1] - 1)
        BY BracketMatch DEF Feeder
      <4>2. Feeder(n, slot)[1] # n[1]
        BY <4>1
      <4> QED
        BY <2>1, <4>2
    <3>2. Book!InSlot(matches'[n], slot) = Book!InSlot(matches[n], slot)
      BY <1>1, <1>10, <2>1 DEF Book!InSlot
    <3> QED
      BY <3>1, <3>2
  <2>2. CASE n # m
    BY <1>10, <1>11, <1>15, <2>2
  <2> QED
    BY <2>1, <2>2
<1>16. Slots'
  <2>1. ASSUME NEW n \in Bracket, NEW slot \in {0, 1}, n[1] > 1
        PROVE  Book!InSlot(matches'[n], slot) = Null <=> Feeder(n, slot) \in UnplayedKnockout'
    BY <1>2, <1>9, <1>15, <2>1 DEF Slots
  <2>2. Bracket' = Bracket
    BY DEF Bracket
  <2> QED
    BY <2>1, <2>2 DEF Slots
<1>17. KnockoutRows'
  <2>1. ASSUME NEW n \in Bracket, n \in UnplayedKnockout'
        PROVE  /\ matches'[n].g1 = Null /\ matches'[n].g2 = Null
               /\ matches'[n].p1 = Null /\ matches'[n].p2 = Null
    BY <1>2, <1>9, <1>10, <2>1 DEF KnockoutRows
  <2>2. ASSUME NEW n \in Bracket, n \notin UnplayedKnockout'
        PROVE  Played(n)' /\ Book!HasCountries(matches'[n])
    <3>1. CASE n = m
      <4>1. Book!HasCountries(new)
        BY <1>1 DEF Book!HasCountries
      <4> QED
        BY <1>1, <1>10, <3>1, <4>1 DEF Played
    <3>2. CASE n # m
      <4>1. Played(n) /\ Book!HasCountries(matches[n])
        BY <1>2, <1>9, <2>2, <3>2 DEF KnockoutRows
      <4>2. Played(n)'
        <5>1. Completed(matches'[n]) <=> Completed(matches[n])
          BY <1>10, <3>2 DEF Completed
        <5>2. HasWinner(matches'[n]) <=> HasWinner(matches[n])
          BY <1>10, <3>2 DEF HasWinner, FirstWins, SecondWins, OnPenalties
        <5> QED
          BY <4>1, <5>1, <5>2 DEF Played
      <4>3. Book!HasCountries(matches'[n])
        <5>1. CASE n[1] = 1
          BY <1>10, <3>2, <4>1, <5>1
        <5>2. CASE n[1] > 1
          <6>1. Book!InSlot(matches[n], 0) # Null /\ Book!InSlot(matches[n], 1) # Null
            BY <4>1 DEF Book!HasCountries, Book!InSlot
          <6>2. Book!InSlot(matches'[n], 0) # Null /\ Book!InSlot(matches'[n], 1) # Null
            BY <1>15, <5>2, <6>1
          <6> QED
            BY <6>2 DEF Book!HasCountries, Book!InSlot
        <5>3. n[1] \in 1 .. 5
          BY BracketMatch
        <5> QED
          BY <5>1, <5>2, <5>3
      <4> QED
        BY <4>2, <4>3
    <3> QED
      BY <3>1, <3>2
  <2>3. Bracket' = Bracket
    BY DEF Bracket
  <2> QED
    BY <2>1, <2>2, <2>3 DEF KnockoutRows, Played
<1> QED
  BY <1>5, <1>7, <1>12, <1>13, <1>14, <1>16, <1>17 DEF Running, Tables

\* A step that changes nothing changes nothing the invariant speaks of.
LEMMA RunningStays ==
  ASSUME Running, UNCHANGED <<contestVars, seedVars>>
  PROVE  Running'
<1>1. UNCHANGED <<created, matches, standings, finals, kind, dice, stage, todo, allUsers, clubs>>
  BY DEF contestVars, seedVars
<1>2. Course' /\ Cells'
  BY <1>1 DEF Running, Course, Cells
<1>3. SameLeft
  BY <1>1 DEF SameLeft, UnplayedGroupMatches, Unranked, Unsettled, Unpaired, UnplayedKnockout, Waiting
<1>4. Tables'
  BY <1>1, <1>3, TablesStay DEF Running
<1>5. Thirds' = Thirds /\ Pairs' = Pairs
  BY <1>1 DEF Thirds, Pairs, Advancing, BestFirst
<1>6. Loop'
  <2>1. Bracket' = Bracket /\ GroupMatches' = GroupMatches /\ Letters' = Letters
    BY DEF Bracket, GroupMatches, Letters
  <2>2. Distinct(todo) => Distinct(todo')
    BY <1>1
  <2> QED
    BY <1>1, <1>5, <2>1, <2>2 DEF Running, Loop
<1> QED
  BY <1>2, <1>4, <1>6 DEF Running

----------------------------------------------------------------------------
(***************************************************************************)
(* The seed program fails at a user it cannot insert, and nowhere else     *)
(***************************************************************************)
LEMMA OnlyTruncateStarts ==
  ASSUME SeedStep, stage = "start"
  PROVE  Truncate
<1>1. \A r \in 1 .. 5 : Rounds[r] # "start"
  BY DEF Rounds
<1>2. ASSUME ~Truncate PROVE FALSE
  BY <1>1, <1>2 DEF SeedStep, CreateUsers, NextLoop, SeedGroupPicks, PlayGroupMatch, RankGroup,
                    QualifyThird, PairUp, SeedKnockoutPicks, PlayKnockout, SeedSubcontest, Rerun,
                    SeedDone, Turn
<1> QED
  BY <1>2

LEMMA OnlyRerunAfterFailure ==
  ASSUME SeedStep, stage = "failed"
  PROVE  Rerun
<1>1. \A r \in 1 .. 5 : Rounds[r] # "failed"
  BY DEF Rounds
<1>2. ASSUME ~Rerun PROVE FALSE
  BY <1>1, <1>2 DEF SeedStep, Truncate, CreateUsers, NextLoop, SeedGroupPicks, PlayGroupMatch,
                    RankGroup, QualifyThird, PairUp, SeedKnockoutPicks, PlayKnockout,
                    SeedSubcontest, SeedDone, Turn
<1> QED
  BY <1>2

RefusesUser == CreateUsers /\ Collides(dice.people) /\ Fail

\* A step of the seed program goes on with the run, starts it anew, or ends it at a user
\* that repeats a username or an e-mail.
LEMMA SeedStepKeeps ==
  ASSUME SeedStep, Running
  PROVE  Running' \/ Rerun \/ RefusesUser
<1>1. ~Truncate
  BY DEF Truncate, Running, Course
<1>2. CASE CreateUsers
  <2>1. CASE Collides(dice.people)
    BY <1>2, <2>1 DEF CreateUsers, RefusesUser
  <2> QED
    BY <1>2, <2>1, CreateUsersKeeps
<1>3. CASE SeedDone
  BY <1>3, RunningStays DEF SeedDone
<1> QED
  BY <1>1, <1>2, <1>3, NextLoopKeeps, SeedGroupPicksKeeps, PlayGroupMatchKeeps, RankGroupKeeps,
     QualifyThirdKeeps, PairUpKeeps, SeedKnockoutPicksKeeps, PlayKnockoutKeeps,
     SeedSubcontestKeeps
  DEF SeedStep

LEMMA SeedKeepsSeedInv ==
  ASSUME SeedInv, SeedStep, step = 0, UNCHANGED step
  PROVE  SeedInv'
<1>1. CASE stage = "start"
  <2>1. Running' /\ stage' = "users"
    BY <1>1, OnlyTruncateStarts, TruncateKeeps DEF Truncate
  <2> QED
    BY <2>1 DEF SeedInv, Running, Active
<1>2. CASE stage = "failed"
  BY <1>2, OnlyRerunAfterFailure DEF Rerun, SeedInv, Active
<1>3. CASE Active
  <2>1. Running
    BY <1>3 DEF SeedInv, Running
  <2>2. CASE Running'
    <3>1. stage' # "failed"
      BY <2>2 DEF Running, Course
    <3> QED
      BY <2>2, <3>1 DEF SeedInv, Running
  <2>3. CASE Rerun
    BY <2>3 DEF Rerun, SeedInv, Active
  <2>4. CASE RefusesUser
    <3>1. ~created /\ stage = "users"
      BY <2>1, <2>4 DEF RefusesUser, CreateUsers, Running, Course
    <3> QED
      BY <2>4, <3>1 DEF RefusesUser, Fail, SeedInv, Active, contestVars
  <2> QED
    BY <2>1, <2>2, <2>3, <2>4, SeedStepKeeps
<1> QED
  BY <1>1, <1>2, <1>3 DEF Active

LEMMA InitSeedInv == Init => SeedInv
  BY DEF Init, SeedIdle, SeedInv, Active

LEMMA NextSeedInv == SeedInv /\ [Next]_vars => SeedInv'
<1> SUFFICES ASSUME SeedInv, [Next]_vars PROVE SeedInv'
  OBVIOUS
<1>1. CASE step = 0 /\ SeedStep /\ UNCHANGED scriptVars
  BY <1>1, SeedKeepsSeedInv DEF scriptVars
<1>2. CASE stage = "start" /\ UNCHANGED seedVars
  BY <1>2 DEF SeedInv, Active, seedVars
<1>3. CASE ScriptDone /\ UNCHANGED seedVars
  BY <1>2, <1>3 DEF SeedInv, ScriptDone
<1>4. CASE StopScript
  BY <1>2, <1>4 DEF SeedInv, StopScript
<1>5. CASE UNCHANGED vars
  <2>1. Active => Running'
    BY <1>5, RunningStays DEF SeedInv, Running, vars
  <2> QED
    BY <1>5, <2>1 DEF SeedInv, Active, Running, vars, seedVars, scriptVars, contestVars
<1> QED
  BY <1>1, <1>2, <1>3, <1>4, <1>5 DEF Next

\* The inductive invariant of the seed program holds in every reachable state.
THEOREM SeedInvariant == Spec => []SeedInv
<1> QED
  BY InitSeedInv, NextSeedInv, PTL DEF Spec

\* Whatever an earlier run left, the seed program gets every answer it expects unless two
\* users collide, and a contest that it played to the end is played in every match.
LEMMA SeedSucceeds ==
  ASSUME SeedInv
  PROVE  /\ stage = "failed" => Collides(dice.people) /\ ~created
         /\ stage = "report" /\ kind \notin {"future", "in-progress"} =>
              \A m \in AllMatches : Played(m)
<1>1. stage = "failed" => Collides(dice.people) /\ ~created
  BY DEF SeedInv
<1>2. ASSUME stage = "report", kind \notin {"future", "in-progress"}, NEW m \in AllMatches
      PROVE  Played(m)
  <2>1. Tables /\ UnplayedGroupMatches = {} /\ UnplayedKnockout = {}
    BY <1>2 DEF SeedInv, Active, UnplayedGroupMatches, UnplayedKnockout, Waiting
  <2>2. CASE m \in GroupMatches
    <3>1. Completed(matches[m]) /\ ~(RoundOf[m] > 0)
      BY <2>1, <2>2, GroupMatch DEF Tables, GroupRows
    <3> QED
      BY <3>1 DEF Played
  <2>3. CASE m \in Bracket
    BY <2>1, <2>3 DEF Tables, KnockoutRows
  <2> QED
    BY <2>2, <2>3 DEF AllMatches
<1> QED
  BY <1>1, <1>2

----------------------------------------------------------------------------
(***************************************************************************)
(* The round of 32                                                         *)
(***************************************************************************)
LEMMA FirstRoundIsThrough ==
  ASSUME Rows, Ranked, Settled, Paired, Unranked = {}, Unsettled = {}, Unpaired = {}
  PROVE  InFirstRound = Through
<1> DEFINE first == {n \in Bracket : RoundOf[n] = 1}
<1>1. \A n \in first : \E i \in 0 .. 15 : n = <<1, i>>
  BY BracketMatch
<1>2. \A i \in 0 .. 15 : <<1, i>> \in first
  BY Places, BracketMatch
<1>3. ASSUME NEW n \in first PROVE {matches[n].c1, matches[n].c2} \subseteq Through
  BY <1>1, PairedPlaces
<1>4. ASSUME NEW c \in Through PROVE \E n \in first : c \in {matches[n].c1, matches[n].c2}
  <2>1. PICK j \in 1 .. 32 : Advancing[j] = c
    BY AdvancingOrders
  <2>2. PICK i \in 0 .. 15 : j = 2 * i + 1 \/ j = 2 * i + 2
    <3>1. (j - 1) \div 2 \in 0 .. 15 /\ (j = 2 * ((j - 1) \div 2) + 1 \/ j = 2 * ((j - 1) \div 2) + 2)
      OBVIOUS
    <3> QED
      BY <3>1
  <2>3. matches[<<1, i>>].c1 = Advancing[2 * i + 1] /\ matches[<<1, i>>].c2 = Advancing[2 * i + 2]
    BY PairedPlaces
  <2>4. c \in {matches[<<1, i>>].c1, matches[<<1, i>>].c2}
    BY <2>1, <2>2, <2>3
  <2> QED
    BY <1>2, <2>4
<1>5. InFirstRound = UNION {{matches[n].c1, matches[n].c2} : n \in first}
  BY DEF InFirstRound
<1> HIDE DEF first
<1> QED
  BY <1>3, <1>4, <1>5

\* The report says of the countries that go through, and of no other, that they do.
LEMMA StatusIsThrough ==
  ASSUME Rows, Ranked, Settled, Unranked = {}, Unsettled = {}, NEW c \in Countries
  PROVE  Status(c) # "" <=> c \in Through
<1>1. finals[c].rank \in 1 .. 4 /\ finals[c].rank # Null
  BY RankedGroups, ColumnAssumption
<1>2. finals[c].rank # 3 => finals[c].qualifier = Null
  BY SettledThirds DEF RankedThird
<1>3. Null # TRUE
  BY ColumnAssumption
<1>4. finals[c].rank = 1 \/ finals[c].rank = 2 \/ finals[c].rank = 3 \/ finals[c].rank = 4
  BY <1>1
<1>5. Status(c) = IF finals[c].rank <= 2 THEN "Q (Top 2)"
                  ELSE IF finals[c].qualifier = TRUE THEN "Q (Best 3rd)" ELSE ""
  BY <1>1 DEF Status
<1>6. finals[c].rank <= 2 <=> finals[c].rank \in {1, 2}
  BY <1>4
<1>7. "Q (Top 2)" # "" /\ "Q (Best 3rd)" # ""
  OBVIOUS
<1>8. Status(c) # "" <=> finals[c].rank \in {1, 2} \/ finals[c].qualifier = TRUE
  BY <1>5, <1>6, <1>7, Zenon
<1> QED
  BY <1>2, <1>3, <1>4, <1>8, Zenon DEF Through

LEMMA BestThirdsGoThrough ==
  ASSUME Rows, Ranked, Settled, Unranked = {}, Unsettled = {},
         NEW c \in RankedThird, NEW d \in RankedThird, c \in Through, d \notin Through
  PROVE  standings[c].points >= standings[d].points
<1>1. RankedThird \in SUBSET Countries /\ \A e \in RankedThird : finals[e].rank = 3
  BY DEF RankedThird
<1>2. PICK i \in 1 .. 12 : ThirdOrder[i] = c
  BY ThirdsOrders
<1>3. PICK j \in 1 .. 12 : ThirdOrder[j] = d
  BY ThirdsOrders
<1>4. finals[c].qualifier = (i <= 8) /\ finals[d].qualifier = (j <= 8)
  BY <1>2, <1>3, SettledThirds
<1>5. i <= 8 /\ ~(j <= 8)
  BY <1>1, <1>4 DEF Through
<1>6. i < j
  BY <1>5
<1>7. Cardinality(RankedThird) = 12
  BY TwelveThirds
<1>8. Ahead(TableKey(RankedThird), ThirdOrder[i], ThirdOrder[j])
  <2>1. i \in 1 .. Cardinality(RankedThird) /\ j \in 1 .. Cardinality(RankedThird)
    BY <1>7
  <2> QED
    BY <1>1, <1>6, <2>1, BestFirstOrders DEF ThirdOrder
<1> QED
  BY <1>1, <1>2, <1>3, <1>8, AheadHasPoints

LEMMA WholeRoundOf32 == SeedInv => RoundOf32IsWhole
<1> SUFFICES ASSUME SeedInv, stage \in {"knockoutPicks", "report"} \cup ToSet(Rounds),
                    kind # "future"
             PROVE  /\ Cardinality(InFirstRound) = 32
                    /\ InFirstRound = {c \in Countries : Status(c) # ""}
                    /\ \A c, d \in Countries :
                         finals[c].rank = 3 /\ finals[d].rank = 3 /\ c \in InFirstRound
                         /\ d \notin InFirstRound => standings[c].points >= standings[d].points
  BY Zenon DEF RoundOf32IsWhole
<1>1. stage \in {"knockoutPicks", "report", "round1", "round2", "round3", "round4", "round5"}
  BY DEF Rounds, ToSet
<1>2. /\ Rows /\ Ranked /\ Settled /\ Paired
      /\ Unranked = {} /\ Unsettled = {} /\ Unpaired = {}
  BY <1>1 DEF SeedInv, Active, Tables, Unranked, Unsettled, Unpaired, Waiting
<1>3. InFirstRound = Through
  BY <1>2, FirstRoundIsThrough
<1>4. Cardinality(InFirstRound) = 32
  BY <1>2, <1>3, ThroughAre32
<1>5. InFirstRound = {c \in Countries : Status(c) # ""}
  <2>1. Through \subseteq Countries
    BY DEF Through
  <2>2. \A c \in Countries : Status(c) # "" <=> c \in Through
    BY <1>2, StatusIsThrough, Zenon
  <2> QED
    BY <1>3, <2>1, <2>2, Zenon
<1>6. ASSUME NEW c \in Countries, NEW d \in Countries, finals[c].rank = 3, finals[d].rank = 3,
             c \in InFirstRound, d \notin InFirstRound
      PROVE  standings[c].points >= standings[d].points
  BY <1>2, <1>3, <1>6, BestThirdsGoThrough DEF RankedThird
<1> QED
  BY <1>4, <1>5, <1>6, Zenon

\* Once the seed program has paired the bracket, the first round holds 32 countries, the
\* ones the report says are qualified, and no third-placed country stays out for one that
\* did worse.
THEOREM RoundOf32 == Spec => []RoundOf32IsWhole
<1> QED
  BY SeedInvariant, WholeRoundOf32, PTL

----------------------------------------------------------------------------
(***************************************************************************)
(* The brackets the seed program makes up                                  *)
(***************************************************************************)
\* Whom a bracket takes from each round, as in BracketOf.
Taken(side, r) ==
  LET w1 == [i \in 0 .. 15 |->
               LET m == matches[<<1, i>>] IN IF side[1][i] = 0 THEN m.c1 ELSE m.c2]
      w2 == [i \in 0 .. 7 |-> w1[2 * i + side[2][i]]]
      w3 == [i \in 0 .. 3 |-> w2[2 * i + side[3][i]]]
      w4 == [i \in 0 .. 1 |-> w3[2 * i + side[4][i]]]
  IN  CASE r = 1 -> w1 [] r = 2 -> w2 [] r = 3 -> w3 [] r = 4 -> w4

Sides == [1 .. 5 -> [0 .. 15 -> {0, 1}]]
IsBracket(B) == \E side \in Sides, last \in {0, 1} : B = BracketOf(side, last)

LEMMA TakenRounds ==
  ASSUME NEW side
  PROVE  /\ Taken(side, 1) = [i \in 0 .. 15 |-> IF side[1][i] = 0 THEN matches[<<1, i>>].c1
                                                ELSE matches[<<1, i>>].c2]
         /\ Taken(side, 2) = [i \in 0 .. 7 |-> Taken(side, 1)[2 * i + side[2][i]]]
         /\ Taken(side, 3) = [i \in 0 .. 3 |-> Taken(side, 2)[2 * i + side[3][i]]]
         /\ Taken(side, 4) = [i \in 0 .. 1 |-> Taken(side, 3)[2 * i + side[4][i]]]
  BY DEF Taken

LEMMA BracketInRounds ==
  ASSUME NEW side, NEW last \in {0, 1}
  PROVE  BracketOf(side, last) =
           {<<Taken(side, 1)[i], 2>> : i \in 0 .. 15} \cup {<<Taken(side, 2)[i], 3>> : i \in 0 .. 7}
           \cup {<<Taken(side, 3)[i], 4>> : i \in 0 .. 3} \cup {<<Taken(side, 4)[i], 5>> : i \in 0 .. 1}
           \cup {<<Taken(side, 4)[side[5][0]], 6>>,
                 <<Taken(side, 3)[2 * last + OtherSide(side[4][last])], 7>>}
<1> DEFINE w1 == [i \in 0 .. 15 |-> IF side[1][i] = 0 THEN matches[<<1, i>>].c1
                                    ELSE matches[<<1, i>>].c2]
           w2 == [i \in 0 .. 7 |-> w1[2 * i + side[2][i]]]
           w3 == [i \in 0 .. 3 |-> w2[2 * i + side[3][i]]]
           w4 == [i \in 0 .. 1 |-> w3[2 * i + side[4][i]]]
           losers == [i \in 0 .. 1 |-> w3[2 * i + OtherSide(side[4][i])]]
           through(w, round) == {<<w[i], round>> : i \in DOMAIN w}
<1>1. BracketOf(side, last) =
        through(w1, 2) \cup through(w2, 3) \cup through(w3, 4) \cup through(w4, 5)
        \cup {<<w4[side[5][0]], 6>>, <<losers[last], 7>>}
  BY DEF BracketOf
<1>2. DOMAIN w1 = 0 .. 15 /\ DOMAIN w2 = 0 .. 7 /\ DOMAIN w3 = 0 .. 3 /\ DOMAIN w4 = 0 .. 1
  OBVIOUS
<1>3. losers[last] = w3[2 * last + OtherSide(side[4][last])]
  <2> HIDE DEF w3
  <2> QED
    BY SMTT(30)
<1>4. Taken(side, 1) = w1 /\ Taken(side, 2) = w2 /\ Taken(side, 3) = w3 /\ Taken(side, 4) = w4
  BY DEF Taken
<1> HIDE DEF w1, w2, w3, w4, losers
<1>5. /\ through(w1, 2) = {<<w1[i], 2>> : i \in 0 .. 15}
      /\ through(w2, 3) = {<<w2[i], 3>> : i \in 0 .. 7}
      /\ through(w3, 4) = {<<w3[i], 4>> : i \in 0 .. 3}
      /\ through(w4, 5) = {<<w4[i], 5>> : i \in 0 .. 1}
  BY <1>2
<1> HIDE DEF through
<1> QED
  BY <1>1, <1>3, <1>4, <1>5

\* One of two goes on from every match.
LEMMA HalfGoesOn ==
  ASSUME NEW n \in Nat, NEW w, \A i, j \in 0 .. 2 * n - 1 : w[i] = w[j] => i = j,
         NEW s, \A i \in 0 .. n - 1 : s[i] \in {0, 1}, NEW v,
         \A i \in 0 .. n - 1 : v[i] = w[2 * i + s[i]]
  PROVE  /\ \A i, j \in 0 .. n - 1 : v[i] = v[j] => i = j
         /\ \A i \in 0 .. n - 1 : \E j \in 0 .. 2 * n - 1 : v[i] = w[j]
         /\ \A i, j \in 0 .. n - 1 : v[i] # w[2 * j + OtherSide(s[j])]
         /\ \A j \in 0 .. n - 1 : 2 * j + OtherSide(s[j]) \in 0 .. 2 * n - 1
<1>1. ASSUME NEW i \in 0 .. n - 1, NEW x \in {0, 1} PROVE 2 * i + x \in 0 .. 2 * n - 1
  OBVIOUS
<1>2. ASSUME NEW i \in 0 .. n - 1, NEW j \in 0 .. n - 1, NEW x \in {0, 1}, NEW y \in {0, 1},
             2 * i + x = 2 * j + y
      PROVE  i = j /\ x = y
  BY <1>2
<1>3. \A i \in 0 .. n - 1 : OtherSide(s[i]) \in {0, 1} /\ OtherSide(s[i]) # s[i]
  BY DEF OtherSide
<1>4. ASSUME NEW i \in 0 .. n - 1, NEW j \in 0 .. n - 1, v[i] = v[j] PROVE i = j
  <2>1. s[i] \in {0, 1} /\ s[j] \in {0, 1} /\ w[2 * i + s[i]] = w[2 * j + s[j]]
    BY <1>4
  <2>2. 2 * i + s[i] \in 0 .. 2 * n - 1 /\ 2 * j + s[j] \in 0 .. 2 * n - 1
    BY <1>1, <2>1
  <2> QED
    BY <1>2, <2>1, <2>2
<1>5. ASSUME NEW i \in 0 .. n - 1, NEW j \in 0 .. n - 1 PROVE v[i] # w[2 * j + OtherSide(s[j])]
  <2>1. s[i] \in {0, 1} /\ OtherSide(s[j]) \in {0, 1}
    BY <1>3
  <2>2. 2 * i + s[i] \in 0 .. 2 * n - 1 /\ 2 * j + OtherSide(s[j]) \in 0 .. 2 * n - 1
    BY <1>1, <2>1
  <2>3. v[i] = w[2 * j + OtherSide(s[j])] => 2 * i + s[i] = 2 * j + OtherSide(s[j])
    BY <2>2
  <2> QED
    BY <1>2, <1>3, <2>1, <2>3
<1>6. ASSUME NEW i \in 0 .. n - 1 PROVE \E j \in 0 .. 2 * n - 1 : v[i] = w[j]
  BY <1>1
<1>7. \A j \in 0 .. n - 1 : 2 * j + OtherSide(s[j]) \in 0 .. 2 * n - 1
  BY <1>1, <1>3
<1> QED
  BY <1>4, <1>5, <1>6, <1>7

LEMMA NumberedFromZero ==
  ASSUME NEW n \in Nat, NEW w, \A i, j \in 0 .. n - 1 : w[i] = w[j] => i = j
  PROVE  Cardinality({w[i] : i \in 0 .. n - 1}) = n
<1> DEFINE T == {w[i] : i \in 0 .. n - 1}
           f == [i \in 1 .. n |-> w[i - 1]]
<1>1. \A i \in 1 .. n : i - 1 \in 0 .. n - 1
  OBVIOUS
<1>2. f \in [1 .. n -> T]
  BY <1>1
<1>3. \A i, j \in 1 .. n : f[i] = f[j] => i = j
  <2>1. \A i, j \in 1 .. n : i - 1 = j - 1 => i = j
    OBVIOUS
  <2> QED
    BY <1>1, <2>1
<1>4. \A t \in T : \E i \in 1 .. n : f[i] = t
  <2> TAKE t \in T
  <2>1. PICK i \in 0 .. n - 1 : t = w[i]
    OBVIOUS
  <2>2. i + 1 \in 1 .. n /\ (i + 1) - 1 = i
    OBVIOUS
  <2>3. f[i + 1] = w[i]
    BY <2>2
  <2> QED
    BY <2>1, <2>2, <2>3
<1> HIDE DEF T, f
<1>5. Cardinality(T) = n
  BY <1>2, <1>3, <1>4, Numbered, Zenon
<1> QED
  BY <1>5 DEF T

\* The places of the first round hold different countries.
FirstPlaces ==
  /\ \A i \in 0 .. 15 : /\ matches[<<1, i>>].c1 \in Countries
                        /\ matches[<<1, i>>].c2 \in Countries
  /\ \A i, j \in 0 .. 15 :
       /\ matches[<<1, i>>].c1 # matches[<<1, j>>].c2
       /\ matches[<<1, i>>].c1 = matches[<<1, j>>].c1 => i = j
       /\ matches[<<1, i>>].c2 = matches[<<1, j>>].c2 => i = j

LEMMA PairedAreDifferent ==
  ASSUME Rows, Ranked, Settled, Paired, Unranked = {}, Unsettled = {}, Unpaired = {}
  PROVE  FirstPlaces
<1>1. Through \subseteq Countries
  BY DEF Through
<1>2. \A i, j \in 1 .. 32 : Advancing[i] = Advancing[j] => i = j
  BY AdvancingOrders
<1>3. ASSUME NEW i \in 0 .. 15, NEW j \in 0 .. 15
      PROVE  /\ matches[<<1, i>>].c1 \in Countries /\ matches[<<1, i>>].c2 \in Countries
             /\ matches[<<1, i>>].c1 # matches[<<1, j>>].c2
             /\ matches[<<1, i>>].c1 = matches[<<1, j>>].c1 => i = j
             /\ matches[<<1, i>>].c2 = matches[<<1, j>>].c2 => i = j
  <2>1. /\ matches[<<1, i>>].c1 = Advancing[2 * i + 1] /\ matches[<<1, i>>].c2 = Advancing[2 * i + 2]
        /\ matches[<<1, j>>].c1 = Advancing[2 * j + 1] /\ matches[<<1, j>>].c2 = Advancing[2 * j + 2]
        /\ Advancing[2 * i + 1] \in Through /\ Advancing[2 * i + 2] \in Through
    BY PairedPlaces
  <2>2. /\ 2 * i + 1 \in 1 .. 32 /\ 2 * i + 2 \in 1 .. 32
        /\ 2 * j + 1 \in 1 .. 32 /\ 2 * j + 2 \in 1 .. 32
        /\ 2 * i + 1 # 2 * j + 2
        /\ 2 * i + 1 = 2 * j + 1 => i = j
        /\ 2 * i + 2 = 2 * j + 2 => i = j
    OBVIOUS
  <2> QED
    BY <1>1, <1>2, <2>1, <2>2
<1> QED
  BY <1>3, Zenon DEF FirstPlaces

PredictedIn(B, round) == {c \in Countries : <<c, round>> \in B}

LEMMA TakenAreDifferent ==
  ASSUME FirstPlaces, NEW side \in Sides
  PROVE  /\ \A i \in 0 .. 15 : Taken(side, 1)[i] \in Countries
         /\ \A i \in 0 .. 7 : Taken(side, 2)[i] \in Countries
         /\ \A i \in 0 .. 3 : Taken(side, 3)[i] \in Countries
         /\ \A i \in 0 .. 1 : Taken(side, 4)[i] \in Countries
         /\ \A i, j \in 0 .. 15 : Taken(side, 1)[i] = Taken(side, 1)[j] => i = j
         /\ \A i, j \in 0 .. 7 : Taken(side, 2)[i] = Taken(side, 2)[j] => i = j
         /\ \A i, j \in 0 .. 3 : Taken(side, 3)[i] = Taken(side, 3)[j] => i = j
         /\ \A i, j \in 0 .. 1 : Taken(side, 4)[i] = Taken(side, 4)[j] => i = j
         /\ \A i \in 0 .. 7 : \E j \in 0 .. 15 : Taken(side, 2)[i] = Taken(side, 1)[j]
         /\ \A i \in 0 .. 3 : \E j \in 0 .. 7 : Taken(side, 3)[i] = Taken(side, 2)[j]
         /\ \A i \in 0 .. 1 : \E j \in 0 .. 3 : Taken(side, 4)[i] = Taken(side, 3)[j]
         /\ \A j \in 0 .. 1 : 2 * j + OtherSide(side[4][j]) \in 0 .. 3
         /\ \A i, j \in 0 .. 1 : Taken(side, 4)[i] # Taken(side, 3)[2 * j + OtherSide(side[4][j])]
<1> DEFINE w1 == Taken(side, 1)
           w2 == Taken(side, 2)
           w3 == Taken(side, 3)
           w4 == Taken(side, 4)
<1>1. ASSUME NEW i \in 0 .. 15
      PROVE  w1[i] = IF side[1][i] = 0 THEN matches[<<1, i>>].c1 ELSE matches[<<1, i>>].c2
  <2>1. w1 = [k \in 0 .. 15 |-> IF side[1][k] = 0 THEN matches[<<1, k>>].c1
                                ELSE matches[<<1, k>>].c2]
    BY TakenRounds, Zenon
  <2> HIDE DEF w1
  <2> QED
    BY <2>1
<1>2. /\ \A i \in 0 .. 7 : w2[i] = w1[2 * i + side[2][i]]
      /\ \A i \in 0 .. 3 : w3[i] = w2[2 * i + side[3][i]]
      /\ \A i \in 0 .. 1 : w4[i] = w3[2 * i + side[4][i]]
  <2> HIDE DEF w1, w2, w3, w4
  <2>1. /\ w2 = [i \in 0 .. 7 |-> w1[2 * i + side[2][i]]]
        /\ w3 = [i \in 0 .. 3 |-> w2[2 * i + side[3][i]]]
        /\ w4 = [i \in 0 .. 1 |-> w3[2 * i + side[4][i]]]
    BY TakenRounds DEF w1, w2, w3, w4
  <2> QED
    BY <2>1, Zenon
<1>3. \A r \in 1 .. 5, i \in 0 .. 15 : side[r][i] \in {0, 1}
  BY DEF Sides
<1> HIDE DEF w1, w2, w3, w4
<1>4. (\A i \in 0 .. 15 : w1[i] \in Countries) /\ (\A i, j \in 0 .. 15 : w1[i] = w1[j] => i = j)
  <2>1. \A i \in 0 .. 15 : w1[i] = matches[<<1, i>>].c1 \/ w1[i] = matches[<<1, i>>].c2
    BY <1>1, Zenon
  <2>2. \A i \in 0 .. 15 : w1[i] \in Countries
    BY <2>1, Zenon DEF FirstPlaces
  <2>3. ASSUME NEW i \in 0 .. 15, NEW j \in 0 .. 15, w1[i] = w1[j] PROVE i = j
    <3> DEFINE a == matches[<<1, i>>]
               b == matches[<<1, j>>]
    <3>1. a.c1 # b.c2 /\ b.c1 # a.c2 /\ (a.c1 = b.c1 => i = j) /\ (a.c2 = b.c2 => i = j)
      BY Zenon DEF FirstPlaces
    <3>2. (w1[i] = a.c1 \/ w1[i] = a.c2) /\ (w1[j] = b.c1 \/ w1[j] = b.c2)
      BY <2>1
    <3> HIDE DEF a, b
    <3> QED
      BY <2>3, <3>1, <3>2, Zenon
  <2> QED
    BY <2>2, <2>3
<1>5. /\ \A i, j \in 0 .. 7 : w2[i] = w2[j] => i = j
      /\ \A i \in 0 .. 7 : \E j \in 0 .. 15 : w2[i] = w1[j]
  <2>1. PICK n \in Nat : n = 8
    OBVIOUS
  <2>2. n - 1 = 7 /\ 2 * n - 1 = 15 /\ \A i \in 0 .. n - 1 : side[2][i] \in {0, 1}
    BY <1>3, <2>1
  <2>3. /\ \A i, j \in 0 .. n - 1 : w2[i] = w2[j] => i = j
        /\ \A i \in 0 .. n - 1 : \E j \in 0 .. 2 * n - 1 : w2[i] = w1[j]
    <3> DEFINE s == side[2]
    <3> HIDE DEF s
    <3>1. /\ \A i \in 0 .. n - 1 : s[i] \in {0, 1} /\ w2[i] = w1[2 * i + s[i]]
          /\ \A i, j \in 0 .. 2 * n - 1 : w1[i] = w1[j] => i = j
      BY <1>2, <1>4, <2>2 DEF s
    <3> QED
      BY <3>1, HalfGoesOn
  <2> QED
    BY <2>2, <2>3
<1>6. /\ \A i, j \in 0 .. 3 : w3[i] = w3[j] => i = j
      /\ \A i \in 0 .. 3 : \E j \in 0 .. 7 : w3[i] = w2[j]
  <2>1. PICK n \in Nat : n = 4
    OBVIOUS
  <2>2. n - 1 = 3 /\ 2 * n - 1 = 7 /\ \A i \in 0 .. n - 1 : side[3][i] \in {0, 1}
    BY <1>3, <2>1
  <2>3. /\ \A i, j \in 0 .. n - 1 : w3[i] = w3[j] => i = j
        /\ \A i \in 0 .. n - 1 : \E j \in 0 .. 2 * n - 1 : w3[i] = w2[j]
    <3> DEFINE s == side[3]
    <3> HIDE DEF s
    <3>1. /\ \A i \in 0 .. n - 1 : s[i] \in {0, 1} /\ w3[i] = w2[2 * i + s[i]]
          /\ \A i, j \in 0 .. 2 * n - 1 : w2[i] = w2[j] => i = j
      BY <1>2, <1>5, <2>2 DEF s
    <3> QED
      BY <3>1, HalfGoesOn
  <2> QED
    BY <2>2, <2>3
<1>7. /\ \A i, j \in 0 .. 1 : w4[i] = w4[j] => i = j
      /\ \A i \in 0 .. 1 : \E j \in 0 .. 3 : w4[i] = w3[j]
      /\ \A i, j \in 0 .. 1 : w4[i] # w3[2 * j + OtherSide(side[4][j])]
      /\ \A j \in 0 .. 1 : 2 * j + OtherSide(side[4][j]) \in 0 .. 3
  <2>1. PICK n \in Nat : n = 2
    OBVIOUS
  <2>2. n - 1 = 1 /\ 2 * n - 1 = 3 /\ \A i \in 0 .. n - 1 : side[4][i] \in {0, 1}
    BY <1>3, <2>1
  <2> DEFINE s == side[4]
  <2> HIDE DEF s
  <2>3. /\ \A i, j \in 0 .. n - 1 : w4[i] = w4[j] => i = j
        /\ \A i \in 0 .. n - 1 : \E j \in 0 .. 2 * n - 1 : w4[i] = w3[j]
        /\ \A i, j \in 0 .. n - 1 : w4[i] # w3[2 * j + OtherSide(s[j])]
        /\ \A j \in 0 .. n - 1 : 2 * j + OtherSide(s[j]) \in 0 .. 2 * n - 1
    <3>1. /\ \A i \in 0 .. n - 1 : s[i] \in {0, 1} /\ w4[i] = w3[2 * i + s[i]]
          /\ \A i, j \in 0 .. 2 * n - 1 : w3[i] = w3[j] => i = j
      BY <1>2, <1>6, <2>2 DEF s
    <3> QED
      BY <3>1, HalfGoesOn
  <2> QED
    BY <2>2, <2>3 DEF s
<1>8. /\ \A i \in 0 .. 7 : w2[i] \in Countries
      /\ \A i \in 0 .. 3 : w3[i] \in Countries
      /\ \A i \in 0 .. 1 : w4[i] \in Countries
  <2>1. \A i \in 0 .. 7 : w2[i] \in Countries
    BY <1>4, <1>5
  <2>2. \A i \in 0 .. 3 : w3[i] \in Countries
    BY <1>6, <2>1
  <2>3. \A i \in 0 .. 1 : w4[i] \in Countries
    BY <1>7, <2>2
  <2> QED
    BY <2>1, <2>2, <2>3
<1> QED
  BY <1>4, <1>5, <1>6, <1>7, <1>8 DEF w1, w2, w3, w4

\* The countries a made-up bracket has in a round.
LEMMA BracketRounds ==
  ASSUME FirstPlaces, NEW side \in Sides, NEW last \in {0, 1}, NEW B, B = BracketOf(side, last)
  PROVE  /\ PredictedIn(B, 2) = {Taken(side, 1)[i] : i \in 0 .. 15}
         /\ PredictedIn(B, 3) = {Taken(side, 2)[i] : i \in 0 .. 7}
         /\ PredictedIn(B, 4) = {Taken(side, 3)[i] : i \in 0 .. 3}
         /\ PredictedIn(B, 5) = {Taken(side, 4)[i] : i \in 0 .. 1}
         /\ \E i \in 0 .. 1 : PredictedIn(B, 6) = {Taken(side, 4)[i]}
         /\ \E j \in 0 .. 1 : PredictedIn(B, 7) = {Taken(side, 3)[2 * j + OtherSide(side[4][j])]}
<1> DEFINE w1 == Taken(side, 1)
           w2 == Taken(side, 2)
           w3 == Taken(side, 3)
           w4 == Taken(side, 4)
           x == side[5][0]
           y == 2 * last + OtherSide(side[4][last])
<1>1. /\ \A i \in 0 .. 15 : w1[i] \in Countries
      /\ \A i \in 0 .. 7 : w2[i] \in Countries
      /\ \A i \in 0 .. 3 : w3[i] \in Countries
      /\ \A i \in 0 .. 1 : w4[i] \in Countries
  BY TakenAreDifferent
<1>2. x \in 0 .. 1 /\ last \in 0 .. 1 /\ y \in 0 .. 3
  <2>1. 5 \in 1 .. 5 /\ 0 \in 0 .. 15
    OBVIOUS
  <2>2. x \in {0, 1}
    BY <2>1 DEF Sides
  <2>3. last \in 0 .. 1
    OBVIOUS
  <2> QED
    BY <2>2, <2>3, TakenAreDifferent
<1>3. B = {<<w1[i], 2>> : i \in 0 .. 15} \cup {<<w2[i], 3>> : i \in 0 .. 7}
          \cup {<<w3[i], 4>> : i \in 0 .. 3} \cup {<<w4[i], 5>> : i \in 0 .. 1}
          \cup {<<w4[x], 6>>, <<w3[y], 7>>}
  BY BracketInRounds
<1> HIDE DEF w1, w2, w3, w4, x
<1>4. y \in 0 .. 3 /\ w3[y] \in Countries /\ w4[x] \in Countries
  BY <1>1, <1>2
<1> HIDE DEF y
<1>5. PredictedIn(B, 2) = {w1[i] : i \in 0 .. 15}
  BY <1>1, <1>3 DEF PredictedIn
<1>6. PredictedIn(B, 3) = {w2[i] : i \in 0 .. 7}
  BY <1>1, <1>3 DEF PredictedIn
<1>7. PredictedIn(B, 4) = {w3[i] : i \in 0 .. 3}
  BY <1>1, <1>3 DEF PredictedIn
<1>8. PredictedIn(B, 5) = {w4[i] : i \in 0 .. 1}
  BY <1>1, <1>3 DEF PredictedIn
<1>9. PredictedIn(B, 6) = {w4[x]} /\ PredictedIn(B, 7) = {w3[y]}
  BY <1>3, <1>4 DEF PredictedIn
<1> QED
  BY <1>2, <1>5, <1>6, <1>7, <1>8, <1>9 DEF w1, w2, w3, w4, y

\* A made-up bracket is a bracket.
LEMMA BracketShape ==
  ASSUME FirstPlaces, NEW B, IsBracket(B)
  PROVE  /\ \A r \in 2 .. 6 : Cardinality(PredictedIn(B, r)) = <<0, 16, 8, 4, 2, 1>>[r]
         /\ \A r \in 3 .. 6 : PredictedIn(B, r) \subseteq PredictedIn(B, r - 1)
         /\ \A m \in Bracket : RoundOf[m] = 1 =>
              Cardinality(PredictedIn(B, 2) \cap {matches[m].c1, matches[m].c2}) = 1
         /\ Cardinality(PredictedIn(B, 7)) = 1
         /\ PredictedIn(B, 7) \subseteq PredictedIn(B, 4) \ PredictedIn(B, 5)
<1>1. PICK side \in Sides, last \in {0, 1} : B = BracketOf(side, last)
  BY DEF IsBracket
<1> DEFINE w1 == Taken(side, 1)
           w2 == Taken(side, 2)
           w3 == Taken(side, 3)
           w4 == Taken(side, 4)
           P(r) == PredictedIn(B, r)
<1>2. /\ P(2) = {w1[i] : i \in 0 .. 15} /\ P(3) = {w2[i] : i \in 0 .. 7}
      /\ P(4) = {w3[i] : i \in 0 .. 3} /\ P(5) = {w4[i] : i \in 0 .. 1}
      /\ \E i \in 0 .. 1 : P(6) = {w4[i]}
      /\ \E j \in 0 .. 1 : P(7) = {w3[2 * j + OtherSide(side[4][j])]}
  BY <1>1, BracketRounds
<1>3. /\ \A i, j \in 0 .. 15 : w1[i] = w1[j] => i = j
      /\ \A i, j \in 0 .. 7 : w2[i] = w2[j] => i = j
      /\ \A i, j \in 0 .. 3 : w3[i] = w3[j] => i = j
      /\ \A i, j \in 0 .. 1 : w4[i] = w4[j] => i = j
  BY TakenAreDifferent
<1>4. /\ \A i \in 0 .. 7 : \E j \in 0 .. 15 : w2[i] = w1[j]
      /\ \A i \in 0 .. 3 : \E j \in 0 .. 7 : w3[i] = w2[j]
      /\ \A i \in 0 .. 1 : \E j \in 0 .. 3 : w4[i] = w3[j]
      /\ \A j \in 0 .. 1 : 2 * j + OtherSide(side[4][j]) \in 0 .. 3
      /\ \A i, j \in 0 .. 1 : w4[i] # w3[2 * j + OtherSide(side[4][j])]
  BY TakenAreDifferent
<1>5. \A i \in 0 .. 15 : w1[i] = matches[<<1, i>>].c1 \/ w1[i] = matches[<<1, i>>].c2
  <2>1. w1 = [k \in 0 .. 15 |-> IF side[1][k] = 0 THEN matches[<<1, k>>].c1
                                ELSE matches[<<1, k>>].c2]
    BY TakenRounds
  <2> HIDE DEF w1
  <2> QED
    BY <2>1
<1> HIDE DEF w1, w2, w3, w4
<1>6. Cardinality(P(2)) = 16
  <2>1. PICK n \in Nat : n = 16
    OBVIOUS
  <2>2. 0 .. 15 = 0 .. n - 1
    BY <2>1
  <2>3. \A i, j \in 0 .. n - 1 : w1[i] = w1[j] => i = j
    BY <1>3, <2>2
  <2>4. Cardinality({w1[i] : i \in 0 .. n - 1}) = n
    BY <2>3, NumberedFromZero
  <2> QED
    BY <1>2, <2>1, <2>2, <2>4
<1>7. Cardinality(P(3)) = 8
  <2>1. PICK n \in Nat : n = 8
    OBVIOUS
  <2>2. 0 .. 7 = 0 .. n - 1
    BY <2>1
  <2>3. \A i, j \in 0 .. n - 1 : w2[i] = w2[j] => i = j
    BY <1>3, <2>2
  <2>4. Cardinality({w2[i] : i \in 0 .. n - 1}) = n
    BY <2>3, NumberedFromZero
  <2> QED
    BY <1>2, <2>1, <2>2, <2>4
<1>8. Cardinality(P(4)) = 4
  <2>1. PICK n \in Nat : n = 4
    OBVIOUS
  <2>2. 0 .. 3 = 0 .. n - 1
    BY <2>1
  <2>3. \A i, j \in 0 .. n - 1 : w3[i] = w3[j] => i = j
    BY <1>3, <2>2
  <2>4. Cardinality({w3[i] : i \in 0 .. n - 1}) = n
    BY <2>3, NumberedFromZero
  <2> QED
    BY <1>2, <2>1, <2>2, <2>4
<1>9. Cardinality(P(5)) = 2
  <2>1. PICK n \in Nat : n = 2
    OBVIOUS
  <2>2. 0 .. 1 = 0 .. n - 1
    BY <2>1
  <2>3. \A i, j \in 0 .. n - 1 : w4[i] = w4[j] => i = j
    BY <1>3, <2>2
  <2>4. Cardinality({w4[i] : i \in 0 .. n - 1}) = n
    BY <2>3, NumberedFromZero
  <2> QED
    BY <1>2, <2>1, <2>2, <2>4
<1>10. Cardinality(P(6)) = 1 /\ Cardinality(P(7)) = 1
  BY <1>2, FS_Singleton
<1>11. /\ P(3) \subseteq P(2) /\ P(4) \subseteq P(3) /\ P(5) \subseteq P(4) /\ P(6) \subseteq P(5)
  <2>1. P(3) \subseteq P(2)
    BY <1>2, <1>4
  <2>2. P(4) \subseteq P(3)
    BY <1>2, <1>4
  <2>3. P(5) \subseteq P(4)
    BY <1>2, <1>4
  <2>4. P(6) \subseteq P(5)
    BY <1>2
  <2> QED
    BY <2>1, <2>2, <2>3, <2>4
<1>12. P(7) \subseteq P(4) \ P(5)
  <2>1. PICK j \in 0 .. 1 : P(7) = {w3[2 * j + OtherSide(side[4][j])]}
    BY <1>2
  <2>2. 2 * j + OtherSide(side[4][j]) \in 0 .. 3
    BY <1>4
  <2>3. w3[2 * j + OtherSide(side[4][j])] \in P(4)
    BY <1>2, <2>2
  <2>4. w3[2 * j + OtherSide(side[4][j])] \notin P(5)
    BY <1>2, <1>4
  <2> QED
    BY <2>1, <2>3, <2>4
<1>13. ASSUME NEW m \in Bracket, RoundOf[m] = 1
       PROVE  Cardinality(P(2) \cap {matches[m].c1, matches[m].c2}) = 1
  <2>1. PICK k \in 0 .. 15 : m = <<1, k>>
    BY <1>13, BracketMatch
  <2> DEFINE a == matches[<<1, k>>].c1
             b == matches[<<1, k>>].c2
  <2>2. \A i \in 0 .. 15 : i # k => w1[i] # a /\ w1[i] # b
    <3> TAKE i \in 0 .. 15
    <3> DEFINE x == matches[<<1, i>>].c1
               y == matches[<<1, i>>].c2
    <3>1. x # b /\ a # y /\ (x = a => i = k) /\ (y = b => i = k)
      BY Zenon DEF FirstPlaces
    <3>2. w1[i] = x \/ w1[i] = y
      BY <1>5
    <3> HIDE DEF a, b, x, y
    <3> QED
      BY <3>1, <3>2
  <2>3. w1[k] = a \/ w1[k] = b
    BY <1>5
  <2>4. w1[k] \in P(2)
    BY <1>2
  <2> HIDE DEF a, b
  <2>5. \A c \in P(2) : c = a \/ c = b => c = w1[k]
    <3> TAKE c \in P(2)
    <3>1. PICK i \in 0 .. 15 : c = w1[i]
      BY <1>2
    <3> QED
      BY <2>2, <3>1
  <2>6. P(2) \cap {a, b} = {w1[k]}
    BY <2>3, <2>4, <2>5
  <2> QED
    BY <2>1, <2>6, FS_Singleton DEF a, b
<1>14. \A r \in 2 .. 6 : Cardinality(P(r)) = <<0, 16, 8, 4, 2, 1>>[r]
  <2> TAKE r \in 2 .. 6
  <2>1. r = 2 \/ r = 3 \/ r = 4 \/ r = 5 \/ r = 6
    OBVIOUS
  <2> HIDE DEF P
  <2> QED
    BY <1>6, <1>7, <1>8, <1>9, <1>10, <2>1
<1>15. \A r \in 3 .. 6 : P(r) \subseteq P(r - 1)
  <2> TAKE r \in 3 .. 6
  <2>1. \/ r = 3 /\ r - 1 = 2
        \/ r = 4 /\ r - 1 = 3
        \/ r = 5 /\ r - 1 = 4
        \/ r = 6 /\ r - 1 = 5
    OBVIOUS
  <2> HIDE DEF P
  <2> QED
    BY <1>11, <2>1
<1> QED
  BY <1>10, <1>12, <1>13, <1>14, <1>15

----------------------------------------------------------------------------
\* Nobody has a bracket before the first round is paired; then everybody's is made up
\* from it, and the first round stays as it is.
Drawn == kind # "future" /\ stage \in {"knockoutPicks", "round1", "round2", "round3", "round4",
                                       "round5", "report"}
PicksInv ==
  /\ stage = "start" => kind = Null
  /\ stage # "start" =>
       /\ knockoutPicks = [u \in Users |-> knockoutPicks[u]]
       /\ \A u \in Users : knockoutPicks[u] # {} => Drawn /\ IsBracket(knockoutPicks[u])

LEMMA PicksAreBrackets == SeedInv /\ PicksInv => PredictionsAreBrackets
<1> SUFFICES ASSUME SeedInv, PicksInv, NEW u \in Users, kind # Null, knockoutPicks[u] # {}
             PROVE  /\ \A r \in 2 .. 6 : Cardinality(Predicted(u, r)) = <<0, 16, 8, 4, 2, 1>>[r]
                    /\ \A r \in 3 .. 6 : Predicted(u, r) \subseteq Predicted(u, r - 1)
                    /\ \A m \in Bracket : RoundOf[m] = 1 =>
                         Cardinality(Predicted(u, 2) \cap {matches[m].c1, matches[m].c2}) = 1
                    /\ Cardinality(Predicted(u, 7)) = 1
                    /\ Predicted(u, 7) \subseteq Predicted(u, 4) \ Predicted(u, 5)
  BY DEF PredictionsAreBrackets
<1>1. Drawn /\ IsBracket(knockoutPicks[u]) /\ Tables
  <2>1. Drawn /\ IsBracket(knockoutPicks[u])
    BY DEF PicksInv
  <2> QED
    BY <2>1 DEF Drawn, SeedInv, Active
<1>2. Unranked = {} /\ Unsettled = {} /\ Unpaired = {}
  BY <1>1 DEF Drawn, Unranked, Unsettled, Unpaired, Waiting
<1>3. FirstPlaces
  BY <1>1, <1>2, PairedAreDifferent DEF Tables
<1>4. \A r : Predicted(u, r) = PredictedIn(knockoutPicks[u], r)
  BY DEF Predicted, PredictedIn
<1> HIDE DEF PicksInv
<1> QED
  BY <1>1, <1>3, <1>4, BracketShape

LEMMA BracketsStay ==
  ASSUME \A i \in 0 .. 15 : /\ matches'[<<1, i>>].c1 = matches[<<1, i>>].c1
                            /\ matches'[<<1, i>>].c2 = matches[<<1, i>>].c2
  PROVE  \A side, last : BracketOf(side, last)' = BracketOf(side, last)
<1>1. ASSUME NEW side, NEW last PROVE BracketOf(side, last)' = BracketOf(side, last)
  <2> DEFINE w == [i \in 0 .. 15 |-> IF side[1][i] = 0 THEN matches[<<1, i>>].c1
                                     ELSE matches[<<1, i>>].c2]
             v == [i \in 0 .. 15 |-> IF side[1][i] = 0 THEN matches'[<<1, i>>].c1
                                     ELSE matches'[<<1, i>>].c2]
             Rest(w1) ==
               LET w2 == [i \in 0 .. 7 |-> w1[2 * i + side[2][i]]]
                   w3 == [i \in 0 .. 3 |-> w2[2 * i + side[3][i]]]
                   w4 == [i \in 0 .. 1 |-> w3[2 * i + side[4][i]]]
                   losers == [i \in 0 .. 1 |-> w3[2 * i + OtherSide(side[4][i])]]
                   through(u, round) == {<<u[i], round>> : i \in DOMAIN u}
               IN  through(w1, 2) \cup through(w2, 3) \cup through(w3, 4) \cup through(w4, 5)
                   \cup {<<w4[side[5][0]], 6>>, <<losers[last], 7>>}
  <2>1. v = w
    OBVIOUS
  <2>2. BracketOf(side, last) = Rest(w)
    BY DEF BracketOf
  <2>3. BracketOf(side, last)' = Rest(v)
    BY DEF BracketOf
  <2> HIDE DEF v, w, Rest
  <2> QED
    BY <2>1, <2>2, <2>3
<1> QED
  BY <1>1

\* The program makes up the brackets it stores.
LEMMA StoredIsBracket ==
  ASSUME Running, stage = "knockoutPicks"
  PROVE  IsBracket(JoeysBracket) /\ IsBracket(RandomBracket)
<1>1. dice \in Dice /\ Len(todo) \in Nat
  <2>1. todo \in Seq(Users)
    BY DEF Running, Loop
  <2> QED
    BY <2>1 DEF Running, Course
<1>2. \A k \in Nat : Roll(k, 2) \in {0, 1}
  <2> TAKE k \in Nat
  <2>1. PICK n \in Nat : n = 2
    OBVIOUS
  <2>2. n > 0
    BY <2>1
  <2>3. Roll(k, n) \in 0 .. n - 1
    BY <1>1, <2>2, RollRange, Zenon
  <2> QED
    BY <2>1, <2>3
<1>3. IsBracket(JoeysBracket)
  <2> DEFINE side == [r \in 1 .. 5 |-> [i \in 0 .. 15 |-> 0]]
             last == IF kind = "perfect" THEN 0 ELSE 1
  <2>1. side \in Sides /\ last \in {0, 1}
    BY DEF Sides
  <2>2. JoeysBracket = BracketOf(side, last)
    BY DEF JoeysBracket
  <2> HIDE DEF side, last
  <2> QED
    BY <2>1, <2>2 DEF IsBracket
<1>4. IsBracket(RandomBracket)
  <2> DEFINE side == [r \in 1 .. 5 |-> [i \in 0 .. 15 |-> Roll(16 * r + i, 2)]]
             last == Roll(7, 2)
  <2>1. \A r \in 1 .. 5, i \in 0 .. 15 : Roll(16 * r + i, 2) \in {0, 1}
    <3>1. \A r \in 1 .. 5, i \in 0 .. 15 : 16 * r + i \in Nat
      OBVIOUS
    <3> QED
      BY <1>2, <3>1
  <2>2. side \in Sides /\ last \in {0, 1}
    BY <1>2, <2>1 DEF Sides
  <2>3. RandomBracket = BracketOf(side, last)
    BY DEF RandomBracket
  <2> HIDE DEF side, last
  <2> QED
    BY <2>2, <2>3 DEF IsBracket
<1> QED
  BY <1>3, <1>4

\* What the loops before the brackets and the loops of the rounds do to them.
LEMMA NoBracketYet ==
  ASSUME PicksInv, stage # "start", ~Drawn, stage' # "start", UNCHANGED knockoutPicks
  PROVE  PicksInv'
  BY DEF PicksInv

LEMMA BracketsKept ==
  ASSUME PicksInv, stage # "start", stage' # "start", UNCHANGED knockoutPicks, Drawn => Drawn',
         Drawn => \A i \in 0 .. 15 : /\ matches'[<<1, i>>].c1 = matches[<<1, i>>].c1
                                     /\ matches'[<<1, i>>].c2 = matches[<<1, i>>].c2
  PROVE  PicksInv'
<1>1. ASSUME NEW u \in Users, (knockoutPicks[u] # {})'
      PROVE  Drawn' /\ IsBracket(knockoutPicks[u])'
  <2>1. Drawn /\ IsBracket(knockoutPicks[u])
    BY <1>1 DEF PicksInv
  <2>2. PICK side \in Sides, last \in {0, 1} : knockoutPicks[u] = BracketOf(side, last)
    BY <2>1 DEF IsBracket
  <2>3. BracketOf(side, last)' = BracketOf(side, last)
    BY <2>1, BracketsStay
  <2>4. knockoutPicks'[u] = BracketOf(side, last)'
    BY <2>2, <2>3
  <2>5. Sides' = Sides
    BY DEF Sides
  <2> QED
    BY <2>1, <2>4, <2>5 DEF IsBracket
<1>2. knockoutPicks' = [u \in Users |-> knockoutPicks'[u]]
  BY DEF PicksInv
<1> HIDE DEF IsBracket
<1> QED
  BY <1>1, <1>2 DEF PicksInv

\* What ends a run for another one.
LEMMA RerunBefore ==
  ASSUME SeedInv, SeedStep, stage # "start", stage' = "start"
  PROVE  Rerun
<1>1. CASE stage = "failed"
  BY <1>1, OnlyRerunAfterFailure
<1>2. CASE stage # "failed"
  <2>1. Running
    BY <1>2 DEF SeedInv, Active, Running
  <2>2. ~Running' /\ ~RefusesUser
    BY DEF Running, Course, RefusesUser, Fail
  <2> QED
    BY <2>1, <2>2, SeedStepKeeps
<1> QED
  BY <1>1, <1>2

LEMMA KnockoutKeepsFirstRound ==
  ASSUME Running, PlayKnockout
  PROVE  /\ \A i \in 0 .. 15 : /\ matches'[<<1, i>>].c1 = matches[<<1, i>>].c1
                               /\ matches'[<<1, i>>].c2 = matches[<<1, i>>].c2
         /\ UNCHANGED <<kind, stage, knockoutPicks>>
         /\ stage \in {"round1", "round2", "round3", "round4", "round5"}
<1> DEFINE m == Head(todo)
           new == Book!Merge(m, matches[m], DecidedPayload)
<1>1. PICK r \in 1 .. 5 :
        /\ stage = Rounds[r] /\ m \in Bracket /\ Stays /\ new \in Book!MatchRow
        /\ new.c1 = matches[m].c1 /\ new.c2 = matches[m].c2
        /\ matches' = MovesOn(m, new) /\ UNCHANGED knockoutPicks
  BY KnockoutTurn
<1>2. Rows
  BY DEF Running, Tables
<1> HIDE DEF m, new
<1>3. FillsSlots(MovesOn(m, new), m, new)
  BY <1>1, <1>2, MovesOnFills
<1>4. FillsSlots(matches', m, new)
  BY <1>1, <1>3
<1>5. ASSUME NEW i \in 0 .. 15
      PROVE  /\ matches'[<<1, i>>].c1 = matches[<<1, i>>].c1
             /\ matches'[<<1, i>>].c2 = matches[<<1, i>>].c2
  <2>1. <<1, i>> \in Bracket /\ <<1, i>>[1] = 1
    BY Places
  <2> QED
    BY <1>1, <1>4, <2>1 DEF FillsSlots
<1> QED
  BY <1>1, <1>5, RoundNames DEF Stays

LEMMA DrawnGoesOn ==
  ASSUME Running, NextLoop, Drawn
  PROVE  Drawn'
<1>1. Course' /\ kind' = kind
  BY NextLoopKeeps DEF Running, NextLoop, Enter, Fail
<1>2. stage = "knockoutPicks" \/ \E r \in 1 .. 5 : stage = Rounds[r]
  <2>1. stage # "report" /\ stage \notin {"groupPicks", "groupMatches", "rankings", "qualifiers", "pairs"}
    BY RoundNames DEF Drawn, NextLoop
  <2> QED
    BY <2>1, RoundNames DEF Drawn
<1>3. stage' \in {"report", "round1", "round2", "round3", "round4", "round5"}
  BY <1>2, RoundNames DEF Drawn, NextLoop, Enter
<1> QED
  BY <1>1, <1>3 DEF Drawn

LEMMA SeedKeepsBrackets ==
  ASSUME SeedInv, PicksInv, SeedStep
  PROVE  PicksInv'
<1>1. CASE stage = "start"
  BY <1>1, OnlyTruncateStarts DEF Truncate, TruncateTables, PicksInv
<1>2. CASE stage # "start" /\ stage' = "start"
  BY <1>2, RerunBefore DEF Rerun, PicksInv
<1>3. CASE stage # "start" /\ stage' # "start"
  <2>1. Running /\ ~Truncate /\ ~Rerun
    BY <1>3, OnlyRerunAfterFailure DEF SeedInv, Active, Running, Truncate, Rerun
  <2>2. CASE CreateUsers
    <3>1. UNCHANGED knockoutPicks /\ ~Drawn
      BY <2>2 DEF CreateUsers, CreateContest, Fail, contestVars, Drawn
    <3> QED
      BY <1>3, <3>1, NoBracketYet
  <2>3. CASE NextLoop
    <3>1. UNCHANGED <<knockoutPicks, matches>> /\ (Drawn => Drawn')
      BY <2>1, <2>3, NextLoopKeeps, DrawnGoesOn DEF contestVars
    <3> QED
      BY <1>3, <3>1, BracketsKept
  <2>4. CASE SeedGroupPicks
    <3>1. UNCHANGED knockoutPicks /\ ~Drawn
      BY <2>4 DEF SeedGroupPicks, Turn, SaveGroupPicks, Fail, contestVars, Drawn
    <3> QED
      BY <1>3, <3>1, NoBracketYet
  <2>5. CASE PlayGroupMatch
    <3>1. UNCHANGED knockoutPicks /\ ~Drawn
      BY <2>5 DEF PlayGroupMatch, Turn, RecordMatch, Fail, contestVars, Drawn
    <3> QED
      BY <1>3, <3>1, NoBracketYet
  <2>6. CASE RankGroup
    <3>1. UNCHANGED knockoutPicks /\ ~Drawn
      BY <2>6, Zenon DEF RankGroup, Turn, FinalizeRankings, Fail, contestVars, Drawn
    <3> QED
      BY <1>3, <3>1, NoBracketYet
  <2>7. CASE QualifyThird
    <3>1. UNCHANGED knockoutPicks /\ ~Drawn
      BY <2>7 DEF QualifyThird, Turn, FinalizeQualifier, Fail, contestVars, Drawn
    <3> QED
      BY <1>3, <3>1, NoBracketYet
  <2>8. CASE PairUp
    <3>1. UNCHANGED knockoutPicks /\ ~Drawn
      BY <2>8 DEF PairUp, Turn, RecordMatch, Fail, contestVars, Drawn
    <3> QED
      BY <1>3, <3>1, NoBracketYet
  <2>9. CASE SeedKnockoutPicks
    <3> DEFINE u == Head(todo)
               B == IF Deterministic /\ u = Joey THEN JoeysBracket ELSE RandomBracket
    <3>1. stage = "knockoutPicks"
      BY <2>9 DEF SeedKnockoutPicks, Turn
    <3>2. kind # "future" /\ Drawn
      BY <2>1, <3>1 DEF Running, Course, Drawn
    <3>3. Len(Playable(1)) = 16
      <4>1. Unranked = {} /\ Unsettled = {} /\ Unpaired = {}
        BY <3>1, <3>2 DEF Unranked, Unsettled, Unpaired, Waiting
      <4> QED
        BY <2>1, <4>1, SixteenKnown DEF Running
    <3>4. /\ knockoutPicks' = [knockoutPicks EXCEPT ![u] = B]
          /\ UNCHANGED <<kind, stage, matches>>
      BY <2>9, <3>3 DEF SeedKnockoutPicks, Turn, SaveKnockoutPicks
    <3>5. IsBracket(B)
      BY <2>1, <3>1, StoredIsBracket
    <3>6. /\ knockoutPicks = [v \in Users |-> knockoutPicks[v]]
          /\ \A v \in Users : knockoutPicks[v] # {} => IsBracket(knockoutPicks[v])
      BY <1>3 DEF PicksInv
    <3>7. Drawn'
      BY <3>2, <3>4 DEF Drawn
    <3> HIDE DEF B
    <3>8. ASSUME NEW v \in Users, (knockoutPicks[v] # {})' PROVE IsBracket(knockoutPicks[v])'
      <4>1. knockoutPicks'[v] = B \/ knockoutPicks'[v] = knockoutPicks[v]
        BY <3>4, <3>6
      <4>2. IsBracket(knockoutPicks'[v])
        BY <3>5, <3>6, <3>8, <4>1
      <4>3. PICK side \in Sides, last \in {0, 1} : knockoutPicks'[v] = BracketOf(side, last)
        BY <4>2 DEF IsBracket
      <4>4. BracketOf(side, last)' = BracketOf(side, last)
        BY <3>4, BracketsStay
      <4>5. knockoutPicks'[v] = BracketOf(side, last)'
        BY <4>3, <4>4
      <4>6. Sides' = Sides
        BY DEF Sides
      <4> QED
        BY <4>5, <4>6 DEF IsBracket
    <3>9. knockoutPicks' = [v \in Users |-> knockoutPicks'[v]]
      BY <3>4, <3>6
    <3> HIDE DEF IsBracket
    <3> QED
      BY <1>3, <3>7, <3>8, <3>9 DEF PicksInv
  <2>10. CASE PlayKnockout
    <3>1. Drawn => Drawn'
      BY <2>1, <2>10, KnockoutKeepsFirstRound DEF Drawn
    <3> QED
      BY <1>3, <2>1, <2>10, <3>1, KnockoutKeepsFirstRound, BracketsKept
  <2>11. CASE SeedSubcontest
    <3>1. UNCHANGED knockoutPicks /\ ~Drawn
      BY <2>1, <2>11, SeedSubcontestKeeps DEF SeedSubcontest, contestVars, Drawn
    <3> QED
      BY <1>3, <3>1, NoBracketYet
  <2>12. CASE SeedDone
    <3>1. UNCHANGED <<knockoutPicks, matches, kind, stage>>
      BY <2>12 DEF SeedDone, contestVars, seedVars
    <3>2. Drawn => Drawn'
      BY <3>1 DEF Drawn
    <3> QED
      BY <1>3, <3>1, <3>2, BracketsKept
  <2> QED
    BY <2>1, <2>2, <2>3, <2>4, <2>5, <2>6, <2>7, <2>8, <2>9, <2>10, <2>11, <2>12 DEF SeedStep
<1> QED
  BY <1>1, <1>2, <1>3

LEMMA NextPicksInv == SeedInv /\ PicksInv /\ [Next]_vars => PicksInv'
<1> SUFFICES ASSUME SeedInv, PicksInv, [Next]_vars PROVE PicksInv'
  OBVIOUS
<1>1. CASE step = 0 /\ SeedStep /\ UNCHANGED scriptVars
  BY <1>1, SeedKeepsBrackets
<1>2. CASE stage = "start" /\ UNCHANGED seedVars
  BY <1>2 DEF PicksInv, seedVars
<1>3. CASE ScriptDone /\ UNCHANGED seedVars
  BY <1>2, <1>3 DEF SeedInv, ScriptDone
<1>4. CASE StopScript
  BY <1>2, <1>4 DEF SeedInv, StopScript
<1>5. CASE UNCHANGED vars
  <2>1. UNCHANGED <<knockoutPicks, matches, kind, stage>> /\ UNCHANGED seedVars
    BY <1>5 DEF vars, contestVars, seedVars
  <2>2. Drawn => Drawn'
    BY <2>1 DEF Drawn
  <2>3. CASE stage # "start"
    BY <2>1, <2>2, <2>3, BracketsKept
  <2> QED
    BY <1>2, <2>1, <2>3
<1> QED
  BY <1>1, <1>2, <1>3, <1>4, <1>5 DEF Next

\* The brackets the seed program stores are brackets: 16, 8, 4, 2 and one countries, each
\* among those of the round before and no two out of one match; the third place is a
\* semifinalist that is not in the final.
THEOREM MadeUpBrackets == Spec => []PredictionsAreBrackets
<1>1. Init => PicksInv
  BY DEF Init, SeedIdle, PicksInv
<1> QED
  BY <1>1, SeedInvariant, NextPicksInv, PicksAreBrackets, PTL DEF Spec

----------------------------------------------------------------------------
(***************************************************************************)
(* What a turn of each loop does to the points and what they depend on     *)
(***************************************************************************)
\* The groups with final ranks, and those whose third place is settled.
RankedLetters == {l \in Letters : finals[Groups[l][1]].rank # Null}
SettledLetters == {l \in Letters : \E c \in CountriesOf(l) : finals[c].qualifier # Null}

\* The seed program's order of a group has all its countries.
LEMMA OrderOfGroup ==
  ASSUME Rows, NEW l \in Letters
  PROVE  /\ ToSet(BestFirst(CountriesOf(l))) = CountriesOf(l)
         /\ DOMAIN BestFirst(CountriesOf(l)) = 1 .. 4
<1> DEFINE order == BestFirst(CountriesOf(l))
<1>1. Orders(order, CountriesOf(l)) /\ Cardinality(CountriesOf(l)) = 4
  BY FourCountries, BestFirstOrders
<1> QED
  BY <1>1, OrderIsList

\* What the result of a knockout match pays.
LEMMA KnockoutPays ==
  ASSUME NEW m \in Bracket, NEW p, Book!Found(matches, p) = {m}, RecordMatch(p),
         NEW new, new = Book!Merge(m, matches[m], p), Completed(new), HasWinner(new),
         NEW a, a = AchievedRound(m[1], m[2])
  PROVE  scores' = [u \in Users |->
           IF <<Winner(new), a>> \in knockoutPicks[u]
           THEN [scores[u] EXCEPT !.knockout = @ + AwardPoints(a)] ELSE scores[u]]
<1> DEFINE hit == {u \in Users : <<Winner(new), Book!Achieved(m)>> \in knockoutPicks[u]}
           decided == RoundOf[m] > 0 /\ Completed(new) /\ HasWinner(new)
           points == [u \in IF decided THEN hit ELSE {} |-> AwardPoints(Book!Achieved(m))]
<1>1. Pay("knockout", points)
  BY DEF RecordMatch
<1>2. RoundOf[m] = m[1] /\ IndexOf[m] = m[2] /\ m[1] > 0
  BY BracketMatch
<1>3. Book!Achieved(m) = a
  BY <1>2 DEF Book!Achieved, Book!AchievedRound, AchievedRound
<1>4. DOMAIN points = hit /\ \A u \in hit : points[u] = AwardPoints(a)
  BY <1>2, <1>3
<1>5. hit = {u \in Users : <<Winner(new), a>> \in knockoutPicks[u]}
  BY <1>3
<1> HIDE DEF hit, points
<1>6. scores' = [u \in Users |-> IF u \in DOMAIN points
                                 THEN [scores[u] EXCEPT !.knockout = @ + points[u]]
                                 ELSE scores[u]]
  BY <1>1 DEF Pay
<1> QED
  BY <1>4, <1>5, <1>6
LEMMA KnockoutPicksTurn ==
  ASSUME Running, SeedKnockoutPicks
  PROVE  LET u == Head(todo)
         IN  /\ u \in Users /\ stage = "knockoutPicks" /\ todo \in Seq(Users) /\ todo # <<>>
             /\ todo' = Tail(todo) /\ ListUser(u)
             /\ UNCHANGED <<kind, stage, matches, standings, finals, groupPicks>>
             /\ knockoutPicks' = [knockoutPicks EXCEPT ![u] =
                  IF Deterministic /\ u = Joey THEN JoeysBracket ELSE RandomBracket]
<1>1. stage = "knockoutPicks" /\ todo # <<>>
  BY DEF SeedKnockoutPicks, Turn
<1>2. todo \in Seq(Users) /\ kind # "future"
  BY <1>1 DEF Running, Loop, Course
<1>3. Len(Playable(1)) = 16
  <2>1. Unranked = {} /\ Unsettled = {} /\ Unpaired = {}
    BY <1>1, <1>2 DEF Unranked, Unsettled, Unpaired, Waiting
  <2> QED
    BY <2>1, SixteenKnown DEF Running
<1>4. /\ SaveKnockoutPicks(Head(todo), IF Deterministic /\ Head(todo) = Joey THEN JoeysBracket
                                       ELSE RandomBracket)
      /\ todo' = Tail(todo) /\ UNCHANGED <<kind, stage>>
  BY <1>3 DEF SeedKnockoutPicks, Turn
<1>5. Head(todo) \in Users
  BY <1>1, <1>2
<1> QED
  BY <1>1, <1>2, <1>4, <1>5 DEF SaveKnockoutPicks

LEMMA GroupMatchTurn ==
  ASSUME Running, PlayGroupMatch
  PROVE  \E m \in GroupMatches : \E new :
           /\ stage = "groupMatches" /\ m = Head(todo) /\ m \in UnplayedGroupMatches
           /\ UnplayedGroupMatches' = UnplayedGroupMatches \ {m}
           /\ new.c1 = m[2] /\ new.c2 = m[3] /\ new.cs1 = Null /\ new.cs2 = Null
           /\ new.g1 = PlayedPayload.g1 /\ new.g2 = PlayedPayload.g2
           /\ new.g1 \in Nat /\ new.g2 \in Nat
           /\ matches' = [matches EXCEPT ![m] = new]
           /\ standings' = [standings EXCEPT ![m[2]] = CreditFirst(@, new),
                                             ![m[3]] = CreditSecond(@, new)]
           /\ UNCHANGED <<kind, stage, finals, groupPicks, knockoutPicks>>
           /\ scores' = [u \in Users |-> scores[u]]
<1> DEFINE m == Head(todo)
           p == PlayedPayload
           new == Book!Merge(m, matches[m], p)
<1>1. /\ stage = "groupMatches" /\ todo # <<>>
      /\ IF AcceptsMatch(p)
         THEN RecordMatch(p) /\ todo' = Tail(todo) /\ UNCHANGED <<kind, dice, stage, allUsers, clubs>>
         ELSE Fail
  BY DEF PlayGroupMatch, Turn, PlayedPayload
<1>2. todo \in Seq(GroupMatches) /\ Distinct(todo) /\ Rows /\ GroupRows /\ dice \in Dice
  BY <1>1 DEF Running, Loop, Tables, Course
<1>3. m \in GroupMatches /\ m \in ToSet(todo)
  <2>1. Head(todo) \in Elements(todo)
    BY <1>1, <1>2, WithoutFirst
  <2> QED
    BY <1>1, <1>2, <2>1, HeadTailProperties DEF Elements, ToSet
<1>4. UnplayedGroupMatches = ToSet(todo)
  BY <1>1 DEF UnplayedGroupMatches
<1>5. GroupPayload(p, m)
  BY <1>1, <1>2, PlayedIsGroupPayload
<1> HIDE DEF p, m
<1>6. (\A n \in GroupMatches : Fixture(n)) /\ Goalless(m)
  BY <1>2, <1>3, <1>4, UnplayedFixtures
<1>7. /\ AcceptsMatch(p) /\ new.c1 = m[2] /\ new.c2 = m[3] /\ new.cs1 = Null /\ new.cs2 = Null
      /\ new.g1 = p.g1 /\ new.g2 = p.g2 /\ new.g1 \in Nat /\ new.g2 \in Nat
  BY <1>2, <1>3, <1>5, <1>6, GroupCall
<1>8. /\ RecordMatch(p) /\ todo' = Tail(todo)
      /\ UNCHANGED <<kind, dice, stage, allUsers, clubs>>
  BY <1>1, <1>7
<1>9. /\ matches' = [matches EXCEPT ![m] = new]
      /\ standings' = [standings EXCEPT ![new.c1] = CreditFirst(@, new),
                                        ![new.c2] = CreditSecond(@, new)]
      /\ UNCHANGED <<finals, groupPicks, knockoutPicks>>
      /\ scores' = [u \in Users |-> scores[u]]
  BY <1>2, <1>3, <1>5, <1>6, <1>8, GroupEffect
<1>10. ToSet(todo') = ToSet(todo) \ {m}
  BY <1>1, <1>2, <1>8, OneTurn DEF m
<1>11. UnplayedGroupMatches' = UnplayedGroupMatches \ {m}
  BY <1>1, <1>4, <1>8, <1>10 DEF UnplayedGroupMatches
<1> HIDE DEF new
<1>12. standings' = [standings EXCEPT ![m[2]] = CreditFirst(@, new), ![m[3]] = CreditSecond(@, new)]
  BY <1>7, <1>9
<1>13. new.g1 = PlayedPayload.g1 /\ new.g2 = PlayedPayload.g2
  BY <1>7 DEF p
<1>14. m = Head(todo) /\ m \in UnplayedGroupMatches
  BY <1>3, <1>4 DEF m
<1> QED
  BY <1>1, <1>3, <1>7, <1>8, <1>9, <1>11, <1>12, <1>13, <1>14
LEMMA FirstListed ==
  \A l \in Letters : Groups[l][1] \in Countries /\ Letter[Groups[l][1]] = l
<1>1. \A l \in Letters, i \in 1 .. 4 : Groups[l][i] \in Countries /\ Letter[Groups[l][i]] = l
  BY GroupsOfContest, Zenon
<1> QED
  BY <1>1

LEMMA RankTurn ==
  ASSUME Running, RankGroup
  PROVE  \E l \in Letters :
           /\ stage = "rankings" /\ UnplayedGroupMatches = {}
           /\ FinalizeRankings(l, BestFirst(CountriesOf(l)))
           /\ l \notin RankedLetters /\ RankedLetters' = RankedLetters \cup {l}
           /\ SettledLetters' = SettledLetters
           /\ UNCHANGED <<kind, stage, matches, standings, groupPicks, knockoutPicks>>
<1> DEFINE l == Head(todo)
<1>1. /\ stage = "rankings" /\ todo # <<>>
      /\ IF AcceptsRankings(l)
         THEN /\ FinalizeRankings(l, BestFirst(CountriesOf(l))) /\ todo' = Tail(todo)
              /\ UNCHANGED <<kind, dice, stage, allUsers, clubs>>
         ELSE Fail
  BY DEF RankGroup, Turn
<1>2. todo \in Seq(Letters) /\ Distinct(todo) /\ Rows /\ GroupRows /\ Ranked /\ kind # "future"
  BY <1>1 DEF Running, Loop, Tables, Course
<1>3. l \in Letters /\ l \in ToSet(todo)
  <2>1. Head(todo) \in Elements(todo)
    BY <1>1, <1>2, WithoutFirst
  <2> QED
    BY <1>1, <1>2, <2>1, HeadTailProperties DEF Elements, ToSet
<1> HIDE DEF l
<1>4. UnplayedGroupMatches = {} /\ Unranked = ToSet(todo)
  BY <1>1, <1>2 DEF UnplayedGroupMatches, Unranked, Waiting
<1>5. \A c \in CountriesOf(l) : finals[c].rank = Null
  BY <1>2, <1>3, <1>4 DEF Ranked
<1>6. AcceptsRankings(l)
  <2>1. \A n \in GroupMatches : Completed(matches[n])
    BY <1>2, <1>4 DEF GroupRows
  <2> QED
    BY <1>5, <2>1 DEF AcceptsRankings
<1>7. FinalizeRankings(l, BestFirst(CountriesOf(l))) /\ UNCHANGED <<kind, stage>>
  BY <1>1, <1>6
<1>8. /\ UNCHANGED <<created, matches, standings, groupPicks, knockoutPicks>>
      /\ \A c \in Countries : finals'[c].qualifier = finals[c].qualifier
      /\ \A c \in Countries : c \notin CountriesOf(l) => finals'[c].rank = finals[c].rank
      /\ \A i \in 1 .. 4 : finals'[BestFirst(CountriesOf(l))[i]].rank = i
  BY <1>2, <1>3, <1>7, RankEffect
<1>9. /\ \A k \in Letters : Groups[k][1] \in Countries /\ Groups[k][1] \in CountriesOf(k)
      /\ \A k \in Letters : k # l => Groups[k][1] \notin CountriesOf(l)
  <2>1. \A k \in Letters : Groups[k][1] \in Countries /\ Letter[Groups[k][1]] = k
    BY FirstListed
  <2> QED
    BY <1>3, <2>1, CountriesByLetter
<1>10. finals'[Groups[l][1]].rank # Null
  <2>1. /\ ToSet(BestFirst(CountriesOf(l))) = CountriesOf(l)
        /\ DOMAIN BestFirst(CountriesOf(l)) = 1 .. 4
    BY <1>2, <1>3, OrderOfGroup
  <2>2. PICK i \in 1 .. 4 : Groups[l][1] = BestFirst(CountriesOf(l))[i]
    BY <1>3, <1>9, <2>1 DEF ToSet
  <2>3. finals'[Groups[l][1]].rank = i
    BY <1>8, <2>2
  <2> QED
    BY <2>3, ColumnAssumption
<1>11. \A k \in Letters : k # l => finals'[Groups[k][1]].rank = finals[Groups[k][1]].rank
  BY <1>8, <1>9
<1>12. l \notin RankedLetters /\ RankedLetters' = RankedLetters \cup {l}
  <2>1. finals[Groups[l][1]].rank = Null
    BY <1>3, <1>5, <1>9
  <2> QED
    BY <1>3, <1>10, <1>11, <2>1 DEF RankedLetters
<1>13. SettledLetters' = SettledLetters
  <2>1. \A k \in Letters : CountriesOf(k) \subseteq Countries
    BY CountriesByLetter
  <2> QED
    BY <1>8, <2>1 DEF SettledLetters
<1> QED
  BY <1>1, <1>3, <1>4, <1>7, <1>8, <1>12, <1>13

LEMMA QualifyTurn ==
  ASSUME Running, QualifyThird
  PROVE  \E i \in 1 .. 12 :
           LET l == Thirds[i].letter
           IN  /\ stage = "qualifiers" /\ Unranked = {} /\ UnplayedGroupMatches = {}
               /\ l \in Letters /\ Letter[ThirdOrder[i]] = l /\ ThirdOrder[i] \in Countries
               /\ FinalizeQualifier(l, i <= 8)
               /\ l \notin SettledLetters /\ SettledLetters' = SettledLetters \cup {l}
               /\ RankedLetters' = RankedLetters
               /\ UNCHANGED <<kind, stage, matches, standings, groupPicks, knockoutPicks>>
<1> DEFINE t == Head(todo)
<1>1. /\ stage = "qualifiers" /\ todo # <<>>
      /\ IF AcceptsQualifier(t.letter)
         THEN /\ FinalizeQualifier(t.letter, t.advances) /\ todo' = Tail(todo)
              /\ UNCHANGED <<kind, dice, stage, allUsers, clubs>>
         ELSE Fail
  BY DEF QualifyThird, Turn
<1>2. todo \in Seq(ToSet(Thirds)) /\ Distinct(todo) /\ Rows /\ Ranked /\ Settled /\ kind # "future"
  BY <1>1 DEF Running, Loop, Tables, Course
<1>3. t \in ToSet(Thirds) /\ t \in ToSet(todo)
  <2>1. Head(todo) \in Elements(todo)
    BY <1>1, <1>2, WithoutFirst
  <2> QED
    BY <1>1, <1>2, <2>1, HeadTailProperties DEF Elements, ToSet
<1>4. Unranked = {} /\ UnplayedGroupMatches = {} /\ Unsettled = {x.letter : x \in ToSet(todo)}
  BY <1>1, <1>2 DEF Unranked, Unsettled, UnplayedGroupMatches, Waiting
<1>5. PICK i \in 1 .. 12 : t = Thirds[i]
  BY <1>2, <1>3, <1>4, ThirdsOrders
<1> HIDE DEF t
<1> DEFINE c0 == ThirdOrder[i]
           l == t.letter
<1>6. /\ c0 \in Countries /\ Letter[c0] = l /\ ThirdOf(l) = {c0} /\ l \in Letters
      /\ t.advances = (i <= 8)
  BY <1>2, <1>4, <1>5, ThirdOfGroup
<1> HIDE DEF c0
<1>7. \A c \in CountriesOf(l) : finals[c].qualifier = Null
  <2>1. l \in Unsettled
    BY <1>3, <1>4
  <2>2. \A c \in CountriesOf(l) : c \in Countries /\ Letter[c] = l
    BY <1>6, CountriesByLetter
  <2> QED
    BY <1>2, <2>1, <2>2 DEF Settled
<1>8. c0 \in CountriesOf(l)
  BY <1>6, CountriesByLetter
<1>9. AcceptsQualifier(l)
  BY <1>6, <1>7, <1>8 DEF AcceptsQualifier
<1>10. FinalizeQualifier(l, t.advances) /\ UNCHANGED <<kind, stage>>
  BY <1>1, <1>9
<1>11. /\ finals' = [c \in Countries |->
             IF c \in ThirdOf(l) THEN [finals[c] EXCEPT !.qualifier = t.advances]
             ELSE finals[c]]
       /\ UNCHANGED <<created, matches, standings, groupPicks, knockoutPicks>>
  BY <1>10 DEF FinalizeQualifier
<1> HIDE DEF l
<1>12. \A c \in Countries :
          finals[c] \in [rank : {Null} \cup 1 .. 4, qualifier : {Null} \cup BOOLEAN]
  BY <1>2 DEF Rows
<1>13. /\ finals'[c0] = [finals[c0] EXCEPT !.qualifier = (i <= 8)]
       /\ \A c \in Countries : c # c0 => finals'[c] = finals[c]
  BY <1>6, <1>11
<1>14. finals'[c0].qualifier = (i <= 8) /\ finals'[c0].rank = finals[c0].rank
  <2>1. finals[c0] \in [rank : {Null} \cup 1 .. 4, qualifier : {Null} \cup BOOLEAN]
    BY <1>6, <1>12
  <2>2. (i <= 8) \in BOOLEAN
    OBVIOUS
  <2> QED
    BY <1>13, <2>1, <2>2
<1>15. finals'[c0].qualifier # Null
  <2>1. (i <= 8) \in BOOLEAN /\ Null \notin BOOLEAN
    BY ColumnAssumption
  <2> QED
    BY <1>14, <2>1, Zenon
<1>16. RankedLetters' = RankedLetters
  <2>1. \A k \in Letters : Groups[k][1] \in Countries
    BY FirstListed
  <2>2. \A k \in Letters : finals'[Groups[k][1]].rank = finals[Groups[k][1]].rank
    BY <1>13, <1>14, <2>1
  <2> QED
    BY <2>2 DEF RankedLetters
<1>17. l \notin SettledLetters /\ SettledLetters' = SettledLetters \cup {l}
  <2>1. \A k \in Letters : \A c \in CountriesOf(k) : k # l => c \in Countries /\ c # c0
    BY <1>6, CountriesByLetter
  <2>2. \A k \in Letters : \A c \in CountriesOf(k) : k # l => finals'[c] = finals[c]
    BY <1>13, <2>1
  <2> QED
    BY <1>6, <1>7, <1>8, <1>15, <2>2 DEF SettledLetters
<1>18. FinalizeQualifier(l, i <= 8)
  <2>1. t.advances = (i <= 8)
    BY <1>6
  <2> QED
    BY <1>10, <2>1, Zenon
<1>19. l = Thirds[i].letter
  BY <1>5 DEF l
<1> QED
  BY <1>1, <1>4, <1>6, <1>10, <1>11, <1>16, <1>17, <1>18, <1>19 DEF c0
Pairing(m, new) ==
  /\ stage = "pairs" /\ m[1] = 1 /\ new.c1 \in Countries /\ new.c2 \in Countries
  /\ ~Completed(matches[m]) /\ ~Completed(new)
  /\ matches' = [matches EXCEPT ![m] = new]
  /\ scores' = [u \in Users |-> scores[u]]
  /\ UNCHANGED <<kind, stage, standings, finals, groupPicks, knockoutPicks>>

LEMMA PairTurn ==
  ASSUME Running, PairUp
  PROVE  \E m \in Bracket : \E new : Pairing(m, new)
<1> DEFINE t == Head(todo)
           p == PairPayload(t)
           m == <<1, t.index>>
           new == Book!Merge(m, matches[m], p)
<1>1. /\ stage = "pairs" /\ todo # <<>>
      /\ IF AcceptsMatch(p)
         THEN RecordMatch(p) /\ todo' = Tail(todo) /\ UNCHANGED <<kind, dice, stage, allUsers, clubs>>
         ELSE Fail
  BY DEF PairUp, Turn, PairPayload
<1>2. todo \in Seq(ToSet(Pairs)) /\ Distinct(todo) /\ Rows /\ Ranked /\ Settled
      /\ KnockoutRows /\ kind # "future"
  BY <1>1 DEF Running, Loop, Tables, Course
<1>3. t \in ToSet(Pairs)
  BY <1>1, <1>2
<1>4. \A r \in 1 .. 5 : stage # Rounds[r]
  BY <1>1, OutsideRounds
<1>5. Unranked = {} /\ Unsettled = {} /\ UnplayedKnockout = Bracket
  BY <1>1, <1>2, <1>4 DEF Unranked, Unsettled, UnplayedKnockout, Waiting
<1>6. /\ t.index \in 0 .. 15 /\ t.c1 = Advancing[2 * t.index + 1]
      /\ t.c2 = Advancing[2 * t.index + 2]
  BY <1>3, PairsList
<1>7. t.c1 \in Countries /\ t.c2 \in Countries
  <2>1. 2 * t.index + 1 \in 1 .. 32 /\ 2 * t.index + 2 \in 1 .. 32
    BY <1>6
  <2>2. Advancing[2 * t.index + 1] \in Through /\ Advancing[2 * t.index + 2] \in Through
    BY <1>2, <1>5, <2>1, AdvancingOrders
  <2> QED
    BY <1>6, <2>2 DEF Through
<1> HIDE DEF t
<1>8. /\ m \in Bracket /\ Book!Found(matches, p) = {m} /\ AcceptsMatch(p)
      /\ ~Completed(new) /\ new.c1 = t.c1 /\ new.c2 = t.c2
  BY <1>2, <1>5, <1>6, <1>7, PairCall
<1>9. m[1] = 1
  OBVIOUS
<1> HIDE DEF p, m, new
<1>10. RecordMatch(p) /\ UNCHANGED <<kind, stage>>
  BY <1>1, <1>8
<1>11. m \in AllMatches
  BY <1>8, BracketMatch
<1>12. /\ matches' = [matches EXCEPT ![m] = new]
       /\ UNCHANGED <<created, standings, reached, finals, groupPicks, knockoutPicks>>
  BY <1>8, <1>10, <1>11, FieldsEffect DEF new
<1>13. scores' = [u \in Users |-> scores[u]]
  <2>1. \E n \in Book!Found(matches, p) :
          LET row == Book!Merge(n, matches[n], p)
          IN  Pay("knockout",
                  [u \in IF RoundOf[n] > 0 /\ Completed(row) /\ HasWinner(row)
                         THEN {v \in Users : <<Winner(row), Book!Achieved(n)>> \in knockoutPicks[v]}
                         ELSE {} |-> AwardPoints(Book!Achieved(n))])
    BY <1>10, Zenon DEF RecordMatch
  <2>2. Pay("knockout", [u \in {} |-> AwardPoints(Book!Achieved(m))])
    BY <1>8, <2>1 DEF new
  <2> QED
    BY <2>2 DEF Pay
<1>14. ~Completed(matches[m])
  BY <1>2, <1>5, <1>8 DEF KnockoutRows, Completed
<1>15. Pairing(m, new)
  BY <1>1, <1>7, <1>8, <1>9, <1>10, <1>12, <1>13, <1>14 DEF Pairing
<1> QED
  BY <1>8, <1>15

\* A knockout match is won by the country it lists first when every one ends 2 to 1.
Resulting(r, m, new) ==
  /\ stage = Rounds[r] /\ m[1] = r
  /\ new.c1 = matches[m].c1 /\ new.c2 = matches[m].c2
  /\ new.c1 # Null /\ new.c2 # Null
  /\ Deterministic => Winner(new) = new.c1 /\ Loser(new) = new.c2
  /\ FillsSlots(matches', m, new)
  /\ ~Completed(matches[m]) /\ Completed(matches'[m])
  /\ \A n \in Bracket : n # m => (Completed(matches'[n]) <=> Completed(matches[n]))
  /\ scores' = [u \in Users |->
       IF <<Winner(new), AchievedRound(m[1], m[2])>> \in knockoutPicks[u]
       THEN [scores[u] EXCEPT !.knockout = @ + AwardPoints(AchievedRound(m[1], m[2]))]
       ELSE scores[u]]
  /\ UNCHANGED <<kind, stage, standings, finals, groupPicks, knockoutPicks>>

LEMMA ResultTurn ==
  ASSUME Running, PlayKnockout
  PROVE  \E r \in 1 .. 5, m \in Bracket : \E new : Resulting(r, m, new)
<1> DEFINE m == Head(todo)
           p == DecidedPayload
           new == Book!Merge(m, matches[m], p)
<1>1. PICK r \in 1 .. 5 :
        /\ stage = Rounds[r] /\ m \in Bracket /\ m[1] = r /\ m \in UnplayedKnockout
        /\ Book!HasCountries(matches[m]) /\ Stays
        /\ KnockoutPayload(p, m) /\ RecordMatch(p) /\ Book!Found(matches, p) = {m}
        /\ new \in Book!MatchRow /\ Completed(new) /\ HasWinner(new)
        /\ new.c1 = matches[m].c1 /\ new.c2 = matches[m].c2
        /\ matches' = MovesOn(m, new)
        /\ UNCHANGED <<standings, finals, groupPicks, knockoutPicks>>
  BY KnockoutTurn
<1>2. Rows /\ KnockoutRows
  BY DEF Running, Tables
<1>3. Deterministic => p.g1 = 2 /\ p.g2 = 1
  BY DEF DecidedPayload, Goals, KnockoutAt, Payload
<1> HIDE DEF m, p
<1>4. new.g1 = p.g1 /\ new.g2 = p.g2
  BY <1>1, <1>2, KnockoutCall
<1>5. scores' = [u \in Users |->
        IF <<Winner(new), AchievedRound(m[1], m[2])>> \in knockoutPicks[u]
        THEN [scores[u] EXCEPT !.knockout = @ + AwardPoints(AchievedRound(m[1], m[2]))]
        ELSE scores[u]]
  BY <1>1, KnockoutPays
<1> HIDE DEF new
<1>6. Deterministic => Winner(new) = new.c1 /\ Loser(new) = new.c2
  BY <1>3, <1>4 DEF Winner, Loser, FirstWins
<1>7. FillsSlots(matches', m, new)
  <2>1. FillsSlots(MovesOn(m, new), m, new)
    BY <1>1, <1>2, MovesOnFills
  <2> QED
    BY <1>1, <2>1
<1>8. ~Completed(matches[m])
  BY <1>1, <1>2 DEF KnockoutRows, Completed
<1>9. Completed(matches'[m])
  BY <1>1, <1>7 DEF FillsSlots
<1>10. \A n \in Bracket : n # m => (Completed(matches'[n]) <=> Completed(matches[n]))
  BY <1>7 DEF FillsSlots, Completed
<1>11. new.c1 # Null /\ new.c2 # Null
  BY <1>1 DEF Book!HasCountries
<1>12. UNCHANGED <<kind, stage, standings, finals, groupPicks, knockoutPicks>>
  BY <1>1 DEF Stays
<1> QED
  <2>1. Resulting(r, m, new)
    BY <1>1, <1>5, <1>6, <1>7, <1>8, <1>9, <1>10, <1>11, <1>12 DEF Resulting
  <2> QED
    BY <1>1, <2>1

----------------------------------------------------------------------------
(***************************************************************************)
(* The deterministic contests: every group ends in the order it is listed  *)
(* in, every knockout match is won by the country that is named first      *)
(***************************************************************************)
Listing(l, i) == standings[Groups[l][i]]
Meeting(l, i, j) == <<0, Groups[l][i], Groups[l][j]>>
Won(l, i, j) == One(Completed(matches[Meeting(l, i, j)]))

\* Who is listed before the other wins; the third loses 0 to 3 and 0 to 2 and wins 1 to 0.
TableAsListed(l) ==
  /\ Listing(l, 1).points = 3 * (Won(l, 1, 2) + Won(l, 1, 3) + Won(l, 1, 4))
  /\ Listing(l, 2).points = 3 * (Won(l, 2, 3) + Won(l, 2, 4))
  /\ Listing(l, 3).points = 3 * Won(l, 3, 4)
  /\ Listing(l, 4).points = 0
  /\ Listing(l, 3).gf = Won(l, 3, 4) /\ Listing(l, 3).ga = 3 * Won(l, 1, 3) + 2 * Won(l, 2, 3)
  /\ Listing(l, 3).gd = Listing(l, 3).gf - Listing(l, 3).ga

LEMMA WonIsNumber == \A l, i, j : Won(l, i, j) \in {0, 1}
  BY DEF Won, One

\* A match of a group is decided by the places its countries are listed at.
LEMMA DecidedByPlace ==
  ASSUME NEW l \in Letters, NEW i \in 1 .. 4, NEW j \in 1 .. 4, i < j,
         Head(todo) = Meeting(l, i, j), Deterministic
  PROVE  PlayedPayload.g1 = 4 - i /\ PlayedPayload.g2 = 0
<1>1. ASSUME NEW k \in 1 .. 4 PROVE Place(Groups[l][k]) = k - 1
  <2> DEFINE c == Groups[l][k]
  <2>1. c \in Countries /\ Letter[c] = l
    BY MembersOfGroup
  <2>2. Place(c) \in 0 .. 3 /\ Groups[Letter[c]][Place(c) + 1] = c
    BY <2>1, PlaceRange
  <2>3. PICK p \in 0 .. 3 : p = Place(c)
    BY <2>2
  <2>4. p + 1 \in 1 .. 4 /\ Groups[l][p + 1] = Groups[l][k]
    BY <2>1, <2>2, <2>3
  <2>5. p + 1 = k
    BY <2>4, OnePlace, Zenon
  <2> QED
    BY <2>3, <2>5
<1>2. PICK x : x = [Payload EXCEPT !.c1 = Head(todo)[2], !.c2 = Head(todo)[3]]
  OBVIOUS
<1>3. x.c1 = Groups[l][i] /\ x.c2 = Groups[l][j]
  BY <1>2 DEF Meeting, Payload
<1>4. Place(x.c1) = i - 1 /\ Place(x.c2) = j - 1
  BY <1>1, <1>3
<1>5. PlayedPayload = DecidedGoals(x)
  BY <1>2 DEF PlayedPayload
<1>6. i - 1 < j - 1 /\ 3 - (i - 1) = 4 - i
  OBVIOUS
<1>7. DecidedGoals(x) = Goals(x, 4 - i, 0)
  BY <1>4, <1>6 DEF DecidedGoals
<1> QED
  BY <1>2, <1>5, <1>7 DEF Goals, Payload

LEMMA CreditForWin ==
  ASSUME NEW s, NEW row, NEW g \in 1 .. 3, row.g1 = g, row.g2 = 0,
         s.points \in Int, s.gf \in Int, s.ga \in Int
  PROVE  /\ CreditFirst(s, row).points = s.points + 3 /\ CreditFirst(s, row).gf = s.gf + g
         /\ CreditFirst(s, row).ga = s.ga
         /\ CreditFirst(s, row).gd = CreditFirst(s, row).gf - CreditFirst(s, row).ga
         /\ CreditSecond(s, row).points = s.points /\ CreditSecond(s, row).gf = s.gf
         /\ CreditSecond(s, row).ga = s.ga + g
         /\ CreditSecond(s, row).gd = CreditSecond(s, row).gf - CreditSecond(s, row).ga
<1>1. g > 0 /\ ~(0 > g) /\ g # 0 /\ One(g > 0) = 1 /\ One(g = 0) = 0 /\ One(0 > g) = 0
      /\ One(0 = g) = 0
  BY DEF One
<1> QED
  BY <1>1 DEF CreditFirst, CreditSecond, Credit

\* What a match between the i-th and the j-th country of group l leaves in its table.
WonByPlace(l, i, j) ==
  /\ ~Completed(matches[Meeting(l, i, j)]) /\ Completed(matches'[Meeting(l, i, j)])
  /\ \A n \in GroupMatches : n # Meeting(l, i, j) => matches'[n] = matches[n]
  /\ \A c \in Countries : c # Groups[l][i] /\ c # Groups[l][j] => standings'[c] = standings[c]
  /\ LET s == standings[Groups[l][i]]
         t == standings'[Groups[l][i]]
     IN  t.points = s.points + 3 /\ t.gf = s.gf + (4 - i) /\ t.ga = s.ga /\ t.gd = t.gf - t.ga
  /\ LET s == standings[Groups[l][j]]
         t == standings'[Groups[l][j]]
     IN  t.points = s.points /\ t.gf = s.gf /\ t.ga = s.ga + (4 - i) /\ t.gd = t.gf - t.ga

LEMMA DecidedTurn ==
  ASSUME Running, PlayGroupMatch, Deterministic
  PROVE  \E l \in Letters, i \in 1 .. 4, j \in 1 .. 4 : i < j /\ WonByPlace(l, i, j)
<1>1. PICK m \in GroupMatches : \E new :
        /\ m = Head(todo) /\ m \in UnplayedGroupMatches
        /\ new.g1 = PlayedPayload.g1 /\ new.g2 = PlayedPayload.g2
        /\ new.g1 \in Nat /\ new.g2 \in Nat
        /\ matches' = [matches EXCEPT ![m] = new]
        /\ standings' = [standings EXCEPT ![m[2]] = CreditFirst(@, new),
                                          ![m[3]] = CreditSecond(@, new)]
  BY GroupMatchTurn
<1>2. PICK new :
        /\ m = Head(todo) /\ m \in UnplayedGroupMatches
        /\ new.g1 = PlayedPayload.g1 /\ new.g2 = PlayedPayload.g2
        /\ new.g1 \in Nat /\ new.g2 \in Nat
        /\ matches' = [matches EXCEPT ![m] = new]
        /\ standings' = [standings EXCEPT ![m[2]] = CreditFirst(@, new),
                                          ![m[3]] = CreditSecond(@, new)]
  BY <1>1
<1>3. PICK l \in Letters : \E i, j \in DOMAIN Groups[l] : i < j /\ m = Meeting(l, i, j)
  BY GroupPairs, Zenon DEF Meeting
<1>4. PICK i \in 1 .. 4, j \in 1 .. 4 : i < j /\ m = Meeting(l, i, j)
  BY <1>3, LettersOfContest
<1>5. m[2] = Groups[l][i] /\ m[3] = Groups[l][j]
  BY <1>4 DEF Meeting
<1>6. m[2] \in Countries /\ m[3] \in Countries /\ m[2] # m[3] /\ m \in AllMatches
  BY GroupMatch
<1>7. Rows /\ GroupRows
  BY DEF Running, Tables
<1>8. new.g1 = 4 - i /\ new.g2 = 0 /\ 4 - i \in 1 .. 3
  <2>1. 4 - i \in 1 .. 3
    BY <1>4
  <2> QED
    BY <1>2, <1>4, <2>1, DecidedByPlace
<1>9. /\ matches'[m] = new /\ ~Completed(matches[m]) /\ Completed(new)
      /\ \A n \in GroupMatches : n # m => matches'[n] = matches[n]
  <2>1. matches'[m] = new /\ \A n \in GroupMatches : n # m => matches'[n] = matches[n]
    BY <1>2, <1>6, <1>7, GroupMatch DEF Rows
  <2>2. ~Completed(matches[m])
    BY <1>2, <1>7 DEF GroupRows, Completed
  <2>3. Completed(new)
    BY <1>2, ColumnAssumption DEF Completed
  <2> QED
    BY <2>1, <2>2, <2>3
<1>10. /\ standings'[m[2]] = CreditFirst(standings[m[2]], new)
       /\ standings'[m[3]] = CreditSecond(standings[m[3]], new)
       /\ \A c \in Countries : c # m[2] /\ c # m[3] => standings'[c] = standings[c]
  BY <1>2, <1>6, <1>7 DEF Rows
<1>11. \A c \in Countries : standings[c].points \in Int /\ standings[c].gf \in Int
                            /\ standings[c].ga \in Int
  BY <1>7 DEF Rows, Book!StandingRow
<1>12. WonByPlace(l, i, j)
  BY <1>4, <1>5, <1>6, <1>8, <1>9, <1>10, <1>11, CreditForWin DEF WonByPlace
<1> QED
  BY <1>4, <1>12
LEMMA MeetingsOfContest ==
  ASSUME NEW l \in Letters, NEW i \in 1 .. 4, NEW j \in 1 .. 4, i < j
  PROVE  Meeting(l, i, j) \in GroupMatches
  BY GroupPairs, LettersOfContest, Zenon DEF Meeting

LEMMA MeetingsDiffer ==
  ASSUME NEW l \in Letters, NEW k \in Letters, NEW i \in 1 .. 4, NEW j \in 1 .. 4,
         NEW x \in 1 .. 4, NEW y \in 1 .. 4, Meeting(l, i, j) = Meeting(k, x, y)
  PROVE  l = k /\ i = x /\ j = y
<1>1. Groups[l][i] = Groups[k][x]
  BY DEF Meeting
<1>2. Groups[l][j] = Groups[k][y]
  BY DEF Meeting
<1>3. l = k /\ i = x
  BY ZenonT(40), <1>1, OnePlace
<1>4. j = y
  BY ZenonT(40), <1>2, OnePlace
<1> QED
  BY <1>3, <1>4

LEMMA DecidedTable ==
  ASSUME NEW l \in Letters, NEW i \in 1 .. 4, NEW j \in 1 .. 4, i < j, WonByPlace(l, i, j),
         NEW k \in Letters, TableAsListed(k), Rows
  PROVE  TableAsListed(k)'
<1>1. ASSUME NEW x \in 1 .. 4, NEW y \in 1 .. 4, x < y
      PROVE  Won(k, x, y)' = IF k = l /\ x = i /\ y = j THEN 1 ELSE Won(k, x, y)
  <2>1. Meeting(k, x, y) \in GroupMatches
    BY <1>1, MeetingsOfContest
  <2>2. Meeting(k, x, y) = Meeting(l, i, j) <=> k = l /\ x = i /\ y = j
    <3>1. ASSUME Meeting(k, x, y) = Meeting(l, i, j) PROVE k = l /\ x = i /\ y = j
      BY <3>1, MeetingsDiffer
    <3> QED
      BY <3>1
  <2>3. Meeting(k, x, y) # Meeting(l, i, j) =>
          (Completed(matches'[Meeting(k, x, y)]) <=> Completed(matches[Meeting(k, x, y)]))
    BY <2>1 DEF WonByPlace
  <2>4. Won(k, x, y)' = One(Completed(matches'[Meeting(k, x, y)]))
    BY DEF Won, Meeting
  <2> QED
    BY <2>2, <2>3, <2>4 DEF Won, One, WonByPlace
<1>2. Won(l, i, j) = 0
  BY DEF WonByPlace, Won, One
<1>3. ASSUME NEW x \in 1 .. 4
      PROVE  /\ Groups[k][x] \in Countries
             /\ Groups[k][x] = Groups[l][i] => k = l /\ x = i
             /\ Groups[k][x] = Groups[l][j] => k = l /\ x = j
  <2>1. Groups[k][x] \in Countries
    BY MembersOfGroup, Zenon
  <2>2. Groups[k][x] = Groups[l][i] => k = l /\ x = i
    BY ZenonT(40), OnePlace
  <2>3. Groups[k][x] = Groups[l][j] => k = l /\ x = j
    BY ZenonT(40), OnePlace
  <2> QED
    BY <2>1, <2>2, <2>3
<1>4. ASSUME NEW x \in 1 .. 4, k = l => x # i /\ x # j
      PROVE  Listing(k, x)' = Listing(k, x)
  BY <1>3, <1>4 DEF Listing, WonByPlace
<1>5. \A x \in 1 .. 4 : Listing(k, x) \in Book!StandingRow
  BY <1>3 DEF Listing, Rows
<1>6. CASE k # l
  <2>1. \A x \in 1 .. 4 : Listing(k, x)' = Listing(k, x)
    BY <1>4, <1>6
  <2>2. \A x, y \in 1 .. 4 : x < y => Won(k, x, y)' = Won(k, x, y)
    BY <1>1, <1>6
  <2> QED
    BY <2>1, <2>2 DEF TableAsListed
<1>7. CASE k = l
  <2>1. /\ Listing(k, i)'.points = Listing(k, i).points + 3
        /\ Listing(k, i)'.gf = Listing(k, i).gf + (4 - i)
        /\ Listing(k, i)'.ga = Listing(k, i).ga
        /\ Listing(k, i)'.gd = Listing(k, i)'.gf - Listing(k, i)'.ga
        /\ Listing(k, j)'.points = Listing(k, j).points
        /\ Listing(k, j)'.gf = Listing(k, j).gf
        /\ Listing(k, j)'.ga = Listing(k, j).ga + (4 - i)
        /\ Listing(k, j)'.gd = Listing(k, j)'.gf - Listing(k, j)'.ga
    BY <1>7 DEF WonByPlace, Listing
  <2>2. \A x, y \in 1 .. 4 : x < y =>
          Won(k, x, y)' = IF x = i /\ y = j THEN 1 ELSE Won(k, x, y)
    BY <1>1, <1>7
  <2>3. \A x \in 1 .. 4 : x # i /\ x # j => Listing(k, x)' = Listing(k, x)
    BY <1>4
  <2>4. \A x, y : Won(k, x, y) \in {0, 1}
    BY WonIsNumber
  <2>5. Won(k, i, j) = 0
    BY <1>2, <1>7
  <2>6. \/ i = 1 /\ j \in {2, 3, 4}
        \/ i = 2 /\ j \in {3, 4}
        \/ i = 3 /\ j = 4
    OBVIOUS
  <2>7. PICK a, b, c, d, e, f :
          /\ a = Won(k, 1, 2) /\ b = Won(k, 1, 3) /\ c = Won(k, 1, 4)
          /\ d = Won(k, 2, 3) /\ e = Won(k, 2, 4) /\ f = Won(k, 3, 4)
    OBVIOUS
  <2>8. {a, b, c, d, e, f} \subseteq {0, 1}
    BY <2>4, <2>7
  <2>9. /\ Won(k, 1, 2)' = IF i = 1 /\ j = 2 THEN 1 ELSE a
        /\ Won(k, 1, 3)' = IF i = 1 /\ j = 3 THEN 1 ELSE b
        /\ Won(k, 1, 4)' = IF i = 1 /\ j = 4 THEN 1 ELSE c
        /\ Won(k, 2, 3)' = IF i = 2 /\ j = 3 THEN 1 ELSE d
        /\ Won(k, 2, 4)' = IF i = 2 /\ j = 4 THEN 1 ELSE e
        /\ Won(k, 3, 4)' = IF i = 3 /\ j = 4 THEN 1 ELSE f
    BY <2>2, <2>7
  <2>10. /\ i = 1 /\ j = 2 => a = 0
         /\ i = 1 /\ j = 3 => b = 0
         /\ i = 1 /\ j = 4 => c = 0
         /\ i = 2 /\ j = 3 => d = 0
         /\ i = 2 /\ j = 4 => e = 0
         /\ i = 3 /\ j = 4 => f = 0
    BY <2>5, <2>7
  <2>11. /\ Listing(k, 1).points = 3 * (a + b + c) /\ Listing(k, 2).points = 3 * (d + e)
         /\ Listing(k, 3).points = 3 * f /\ Listing(k, 4).points = 0
         /\ Listing(k, 3).gf = f /\ Listing(k, 3).ga = 3 * b + 2 * d
         /\ Listing(k, 3).gd = Listing(k, 3).gf - Listing(k, 3).ga
    BY <2>7 DEF TableAsListed
  <2>12. Listing(k, 1)'.points = 3 * (Won(k, 1, 2)' + Won(k, 1, 3)' + Won(k, 1, 4)')
    BY <2>1, <2>3, <2>6, <2>8, <2>9, <2>10, <2>11
  <2>13. Listing(k, 2)'.points = 3 * (Won(k, 2, 3)' + Won(k, 2, 4)')
    BY <2>1, <2>3, <2>6, <2>8, <2>9, <2>10, <2>11
  <2>14. Listing(k, 3)'.points = 3 * Won(k, 3, 4)' /\ Listing(k, 4)'.points = 0
    BY <2>1, <2>3, <2>6, <2>8, <2>9, <2>10, <2>11
  <2>15. /\ Listing(k, 3)'.gf = Won(k, 3, 4)'
         /\ Listing(k, 3)'.ga = 3 * Won(k, 1, 3)' + 2 * Won(k, 2, 3)'
    BY <2>1, <2>3, <2>6, <2>8, <2>9, <2>10, <2>11
  <2>16. Listing(k, 3)'.gd = Listing(k, 3)'.gf - Listing(k, 3)'.ga
    BY <2>1, <2>3, <2>6, <2>11
  <2> QED
    BY <2>12, <2>13, <2>14, <2>15, <2>16 DEF TableAsListed
<1> QED
  BY <1>6, <1>7

\* Once the matches of a group are played, its table has the order it is listed in.
LEMMA ListedOrder ==
  ASSUME Rows, NEW l \in Letters, TableAsListed(l),
         \A m \in GroupMatches : Completed(matches[m])
  PROVE  /\ \A i \in 1 .. 4 : BestFirst(CountriesOf(l))[i] = Groups[l][i]
         /\ Listing(l, 3).points = 3 /\ Listing(l, 3).gf = 1 /\ Listing(l, 3).gd = -4
<1>1. ASSUME NEW i \in 1 .. 4, NEW j \in 1 .. 4, i < j PROVE Won(l, i, j) = 1
  <2>1. Meeting(l, i, j) \in GroupMatches
    BY <1>1, MeetingsOfContest
  <2> QED
    BY <2>1 DEF Won, One
<1>2. /\ Won(l, 1, 2) = 1 /\ Won(l, 1, 3) = 1 /\ Won(l, 1, 4) = 1
      /\ Won(l, 2, 3) = 1 /\ Won(l, 2, 4) = 1 /\ Won(l, 3, 4) = 1
  BY <1>1
<1>3. /\ Listing(l, 1).points = 9 /\ Listing(l, 2).points = 6
      /\ Listing(l, 3).points = 3 /\ Listing(l, 4).points = 0
      /\ Listing(l, 3).gf = 1 /\ Listing(l, 3).gd = -4
  BY <1>2 DEF TableAsListed
<1>4. \A i, j \in 1 .. 4 : i < j => Listing(l, i).points > Listing(l, j).points
  BY <1>3
<1> DEFINE S == CountriesOf(l)
           order == BestFirst(S)
<1>5. S \in SUBSET Countries /\ Cardinality(S) = 4
  BY FourCountries
<1>6. Orders(order, S) /\ \A i, j \in 1 .. 4 : i < j => Ahead(TableKey(S), order[i], order[j])
  BY <1>5, BestFirstOrders
<1>7. DOMAIN order = 1 .. 4 /\ \A i \in 1 .. 4 : order[i] \in S
  BY <1>5, <1>6 DEF Orders
<1>8. \A i, j \in 1 .. 4 : i < j => standings[order[i]].points >= standings[order[j]].points
  BY <1>5, <1>6, <1>7, AheadHasPoints
<1> HIDE DEF order
<1>9. \A i \in 1 .. 4 : \E p \in 1 .. 4 : order[i] = Groups[l][p]
  BY <1>7, GroupsOfContest, Zenon
<1>10. PICK p \in [1 .. 4 -> 1 .. 4] : \A i \in 1 .. 4 : order[i] = Groups[l][p[i]]
  <2>1. PICK p : p = [i \in 1 .. 4 |-> CHOOSE q \in 1 .. 4 : order[i] = Groups[l][q]]
    OBVIOUS
  <2>2. \A i \in 1 .. 4 : p[i] \in 1 .. 4 /\ order[i] = Groups[l][p[i]]
    BY <1>9, <2>1
  <2>3. p \in [1 .. 4 -> 1 .. 4]
    BY <2>1, <2>2
  <2> QED
    BY <2>2, <2>3
<1>11. \A i, j \in 1 .. 4 : order[i] = order[j] => i = j
  BY <1>5, <1>6 DEF Orders
<1>12. \A i, j \in 1 .. 4 : p[i] = p[j] => i = j
  BY <1>10, <1>11
<1>13. \A i, j \in 1 .. 4 : i < j => ~(p[j] < p[i])
  <2> SUFFICES ASSUME NEW i \in 1 .. 4, NEW j \in 1 .. 4, i < j, p[j] < p[i] PROVE FALSE
    OBVIOUS
  <2>1. PICK a \in 1 .. 4, b \in 1 .. 4 : a = p[i] /\ b = p[j]
    BY <1>10
  <2>2. Listing(l, b).points > Listing(l, a).points
    BY <1>4, <2>1
  <2>3. Listing(l, a).points >= Listing(l, b).points
    BY <1>8, <1>10, <2>1 DEF Listing
  <2>4. \A q \in 1 .. 4 : Listing(l, q).points \in Int
    BY <1>3
  <2> QED
    BY <2>2, <2>3, <2>4
<1>14. \A i, j \in 1 .. 4 : i < j => p[i] < p[j]
  BY <1>10, <1>12, <1>13
<1>15. p[1] = 1 /\ p[2] = 2 /\ p[3] = 3 /\ p[4] = 4
  <2>1. p[1] \in 1 .. 4 /\ p[2] \in 1 .. 4 /\ p[3] \in 1 .. 4 /\ p[4] \in 1 .. 4
    BY <1>10
  <2>2. p[1] < p[2] /\ p[2] < p[3] /\ p[3] < p[4]
    BY <1>14
  <2> QED
    BY <2>1, <2>2
<1>16. \A i \in 1 .. 4 : p[i] = i
  BY <1>15
<1>17. \A i \in 1 .. 4 : order[i] = Groups[l][i]
  BY <1>10, <1>16
<1> QED
  BY <1>3, <1>17 DEF order
\* Of an order of the letters in which eight of them come first, those are its first eight.
LEMMA EightFirst ==
  ASSUME NEW L \in [1 .. 12 -> Letters], \A i, j \in 1 .. 12 : L[i] = L[j] => i = j,
         \A l \in Letters : \E i \in 1 .. 12 : L[i] = l,
         \A i, j \in 1 .. 12 : i < j /\ L[j] \in Wildcards => L[i] \in Wildcards,
         NEW i \in 1 .. 12
  PROVE  i <= 8 <=> L[i] \in Wildcards
<1> DEFINE A == {k \in 1 .. 12 : L[k] \in Wildcards}
           w == <<1, 3, 4, 5, 6, 8, 11, 12>>
<1>1. /\ w \in [1 .. 8 -> Letters] /\ \A x, y \in 1 .. 8 : w[x] = w[y] => x = y
      /\ \A x \in 1 .. 8 : w[x] \in Wildcards
      /\ \A l \in Wildcards : \E x \in 1 .. 8 : w[x] = l
  <2>1. \A x \in 1 .. 8 : x = 1 \/ x = 2 \/ x = 3 \/ x = 4 \/ x = 5 \/ x = 6 \/ x = 7 \/ x = 8
    OBVIOUS
  <2>2. w \in [1 .. 8 -> 1 .. 12] /\ \A x, y \in 1 .. 8 : w[x] = w[y] => x = y
    BY <2>1
  <2>3. \A x \in 1 .. 8 : w[x] \in Wildcards
    BY <2>1 DEF Wildcards
  <2>4. ASSUME NEW l \in Wildcards PROVE \E x \in 1 .. 8 : w[x] = l
    <3>1. \/ l = w[1] \/ l = w[2] \/ l = w[3] \/ l = w[4]
          \/ l = w[5] \/ l = w[6] \/ l = w[7] \/ l = w[8]
      BY DEF Wildcards
    <3>2. /\ 1 \in 1 .. 8 /\ 2 \in 1 .. 8 /\ 3 \in 1 .. 8 /\ 4 \in 1 .. 8
          /\ 5 \in 1 .. 8 /\ 6 \in 1 .. 8 /\ 7 \in 1 .. 8 /\ 8 \in 1 .. 8
      OBVIOUS
    <3> HIDE DEF w
    <3> QED
      BY <3>1, <3>2, Zenon
  <2> QED
    BY <2>2, <2>3, <2>4, LettersOfContest
<1> HIDE DEF w
<1>2. PICK f : f = [x \in 1 .. 8 |-> CHOOSE k \in 1 .. 12 : L[k] = w[x]]
  OBVIOUS
<1>3. \A x \in 1 .. 8 : f[x] \in 1 .. 12 /\ L[f[x]] = w[x]
  BY <1>1, <1>2
<1>4. f \in [1 .. 8 -> A]
  BY <1>1, <1>2, <1>3
<1>5. \A x, y \in 1 .. 8 : f[x] = f[y] => x = y
  <2> SUFFICES ASSUME NEW x \in 1 .. 8, NEW y \in 1 .. 8, f[x] = f[y] PROVE x = y
    OBVIOUS
  <2>1. w[x] = w[y]
    BY <1>3
  <2> QED
    BY <1>1, <2>1
<1>6. \A k \in A : \E x \in 1 .. 8 : f[x] = k
  <2> TAKE k \in A
  <2>1. PICK x \in 1 .. 8 : w[x] = L[k]
    BY <1>1
  <2>2. L[f[x]] = L[k] /\ f[x] \in 1 .. 12 /\ k \in 1 .. 12
    BY <1>3, <2>1
  <2> QED
    BY <2>2
<1>7. IsFiniteSet(A) /\ Cardinality(A) = 8
  <2> HIDE DEF A
  <2>1. PICK n \in Nat : n = 8
    OBVIOUS
  <2>2. /\ f \in [1 .. n -> A] /\ \A x, y \in 1 .. n : f[x] = f[y] => x = y
        /\ \A k \in A : \E x \in 1 .. n : f[x] = k
    BY <1>4, <1>5, <1>6, <2>1
  <2>3. IsFiniteSet(A) /\ Cardinality(A) = n
    BY <2>2, Numbered
  <2> QED
    BY <2>1, <2>3
<1>8. ASSUME i <= 8, i \notin A PROVE FALSE
  <2>1. A \subseteq 1 .. i - 1
    <3> SUFFICES ASSUME NEW k \in A, ~(k \in 1 .. i - 1) PROVE FALSE
      OBVIOUS
    <3>1. k \in 1 .. 12 /\ (k = i \/ i < k)
      OBVIOUS
    <3> QED
      BY <1>8, <3>1
  <2>2. IsFiniteSet(1 .. i - 1) /\ Cardinality(1 .. i - 1) = i - 1
    <3>1. 1 \in Int /\ i - 1 \in Int
      OBVIOUS
    <3>2. IsFiniteSet(1 .. i - 1) /\ Cardinality(1 .. i - 1) = IF 1 > i - 1 THEN 0 ELSE i - 1 - 1 + 1
      BY <3>1, FS_Interval
    <3> QED
      BY <3>2
  <2>3. Cardinality(A) <= i - 1
    BY <2>1, <2>2, FS_Subset
  <2> QED
    BY <1>7, <1>8, <2>3
<1>9. ASSUME i > 8, i \in A PROVE FALSE
  <2>1. 1 .. i \subseteq A
    <3> SUFFICES ASSUME NEW k \in 1 .. i PROVE k \in A
      OBVIOUS
    <3>1. k \in 1 .. 12 /\ (k = i \/ k < i)
      OBVIOUS
    <3> QED
      BY <1>9, <3>1
  <2>2. Cardinality(1 .. i) = i
    <3>1. 1 \in Int /\ i \in Int
      OBVIOUS
    <3>2. Cardinality(1 .. i) = IF 1 > i THEN 0 ELSE i - 1 + 1
      BY <3>1, FS_Interval
    <3> QED
      BY <3>2
  <2>3. Cardinality(1 .. i) <= Cardinality(A)
    BY <1>7, <2>1, FS_Subset
  <2> QED
    BY <1>7, <1>9, <2>2, <2>3
<1>10. i \in A <=> L[i] \in Wildcards
  OBVIOUS
<1> QED
  BY <1>8, <1>9, <1>10

\* The third places are level, and WildcardAssumption is about their codes.
LEMMA ThirdsAsListed ==
  ASSUME Rows, Ranked, Unranked = {}, \A l \in Letters : TableAsListed(l),
         \A m \in GroupMatches : Completed(matches[m]), NEW i \in 1 .. 12
  PROVE  i <= 8 <=> Letter[ThirdOrder[i]] \in Wildcards
<1>1. ASSUME NEW c \in RankedThird
      PROVE  /\ c \in Countries /\ Letter[c] \in Letters /\ c = Groups[Letter[c]][3]
             /\ standings[c].points = 3 /\ standings[c].gd = -4 /\ standings[c].gf = 1
  <2>1. c \in Countries /\ finals[c].rank = 3
    BY DEF RankedThird
  <2>2. PICK l \in Letters : l = Letter[c]
    BY <2>1, MembersOfGroup
  <2>3. c = AtRank(Letter[c], finals[c].rank)
    BY <2>1, RankedGroups
  <2>4. c = BestFirst(CountriesOf(l))[3]
    BY <2>1, <2>2, <2>3 DEF AtRank
  <2>5. /\ BestFirst(CountriesOf(l))[3] = Groups[l][3]
        /\ Listing(l, 3).points = 3 /\ Listing(l, 3).gf = 1 /\ Listing(l, 3).gd = -4
    BY ListedOrder
  <2> QED
    BY <2>1, <2>2, <2>4, <2>5 DEF Listing
<1> DEFINE S == RankedThird
           o == ThirdOrder
<1>2. /\ o \in [1 .. 12 -> S] /\ \A k, j \in 1 .. 12 : o[k] = o[j] => k = j
      /\ \A c \in S : \E k \in 1 .. 12 : o[k] = c
  BY ThirdsOrders
<1>3. \A k, j \in 1 .. 12 : k < j => Ahead(TableKey(S), o[k], o[j])
  <2>1. S \in SUBSET Countries /\ Cardinality(S) = 12
    BY TwelveThirds
  <2> QED
    BY <2>1, BestFirstOrders DEF ThirdOrder
<1>4. ASSUME NEW c \in S, NEW d \in S, Ahead(TableKey(S), c, d)
      PROVE  CodeRank[c] < CodeRank[d]
  <2>1. /\ DOMAIN TableKey(S)[c] = 1 .. 4
        /\ TableKey(S)[c][1] = TableKey(S)[d][1] /\ TableKey(S)[c][2] = TableKey(S)[d][2]
        /\ TableKey(S)[c][3] = TableKey(S)[d][3]
        /\ TableKey(S)[c][4] = -CodeRank[c] /\ TableKey(S)[d][4] = -CodeRank[d]
        /\ TableKey(S)[c][1] \in Int /\ TableKey(S)[c][2] \in Int /\ TableKey(S)[c][3] \in Int
    BY <1>1 DEF TableKey
  <2>2. CodeRank[c] \in Int /\ CodeRank[d] \in Int
    BY <1>1, CodesOfContest
  <2>3. PICK k \in 1 .. 4 : TableKey(S)[c][k] > TableKey(S)[d][k]
    BY <1>4, <2>1 DEF Ahead
  <2>4. k = 1 \/ k = 2 \/ k = 3 \/ k = 4
    OBVIOUS
  <2>5. k = 4
    BY <2>1, <2>3, <2>4
  <2>6. -CodeRank[c] > -CodeRank[d]
    BY <2>1, <2>3, <2>5
  <2> QED
    BY <2>2, <2>6
<1> HIDE DEF S, o
<1> DEFINE L == [k \in 1 .. 12 |-> Letter[o[k]]]
<1>5. \A k \in 1 .. 12 : o[k] \in Countries /\ Letter[o[k]] \in Letters /\ o[k] = Groups[Letter[o[k]]][3]
  BY <1>1, <1>2 DEF S
<1>6. L \in [1 .. 12 -> Letters]
  BY <1>5
<1>7. \A k, j \in 1 .. 12 : L[k] = L[j] => k = j
  <2> SUFFICES ASSUME NEW k \in 1 .. 12, NEW j \in 1 .. 12, Letter[o[k]] = Letter[o[j]]
               PROVE  k = j
    OBVIOUS
  <2>1. o[k] = o[j]
    BY <1>5
  <2> QED
    BY <1>2, <2>1
<1>8. \A l \in Letters : \E k \in 1 .. 12 : L[k] = l
  <2> TAKE l \in Letters
  <2>1. PICK c \in S : Letter[c] = l
    BY TwelveThirds DEF S
  <2>2. PICK k \in 1 .. 12 : o[k] = c
    BY <1>2
  <2> QED
    BY <2>1, <2>2
<1>9. \A k, j \in 1 .. 12 : k < j /\ L[j] \in Wildcards => L[k] \in Wildcards
  <2> SUFFICES ASSUME NEW k \in 1 .. 12, NEW j \in 1 .. 12, k < j, L[j] \in Wildcards,
                      L[k] \notin Wildcards
               PROVE  FALSE
    BY SMTT(30)
  <2>1. CodeRank[o[k]] < CodeRank[o[j]]
    BY <1>2, <1>3, <1>4
  <2>2. L[k] \in Letters \ Wildcards /\ L[k] = Letter[o[k]] /\ L[j] = Letter[o[j]]
    BY <1>5
  <2>3. CodeRank[Groups[L[j]][3]] < CodeRank[Groups[L[k]][3]]
    <3> HIDE DEF L
    <3> QED
      BY SMTT(30), <2>2, WildcardAssumption
  <2>4. CodeRank[o[j]] < CodeRank[o[k]]
    BY <1>5, <2>2, <2>3
  <2>5. CodeRank[o[j]] \in Int /\ CodeRank[o[k]] \in Int
    BY <1>5, CodesOfContest
  <2> QED
    BY <2>1, <2>4, <2>5
<1>10. i <= 8 <=> L[i] \in Wildcards
  <2> HIDE DEF L
  <2> QED
    BY <1>6, <1>7, <1>8, <1>9, EightFirst
<1> QED
  BY SMTT(30), <1>10 DEF o

----------------------------------------------------------------------------
(***************************************************************************)
(* The bracket of the deterministic contests                               *)
(***************************************************************************)
\* The country of a match that goes on: the second of the first semifinal plays for the
\* third place, every other slot is for the first country of the match before.
GoesOn(n) == IF n = <<5, 1>> THEN 1 ELSE 0
FirstsGoOn ==
  \A n \in Bracket, slot \in {0, 1} :
    n[1] > 1 /\ Book!InSlot(matches[n], slot) # Null =>
      Book!InSlot(matches[n], slot) = Book!InSlot(matches[Feeder(n, slot)], GoesOn(n))

LEMMA FirstsStay ==
  ASSUME FirstsGoOn, \A n \in Bracket : matches'[n] = matches[n]
  PROVE  FirstsGoOn'
<1>1. \A n \in Bracket, slot \in {0, 1} : n[1] > 1 => matches'[Feeder(n, slot)] = matches[Feeder(n, slot)]
  BY BracketKnown
<1> QED
  BY <1>1 DEF FirstsGoOn, Book!InSlot

LEMMA EmptySlotsGoOn ==
  ASSUME \A n \in Bracket, slot \in {0, 1} : n[1] > 1 => Book!InSlot(matches'[n], slot) = Null
  PROVE  FirstsGoOn'
  BY DEF FirstsGoOn, Book!InSlot

\* The countries of a match that is known come from matches that are.
LEMMA KnownBefore ==
  ASSUME Tables, NEW n \in Bracket, NEW slot \in {0, 1}, n[1] > 1,
         Book!InSlot(matches[n], slot) # Null
  PROVE  LET f == Feeder(n, slot)
         IN  f \in Bracket /\ f \notin UnplayedKnockout /\ Book!HasCountries(matches[f])
<1>1. Feeder(n, slot) \in Bracket
  BY BracketKnown
<1>2. Feeder(n, slot) \notin UnplayedKnockout
  BY DEF Tables, Slots
<1> QED
  BY <1>1, <1>2 DEF Tables, KnockoutRows

LEMMA ResultGoesOn ==
  ASSUME Tables, FirstsGoOn, NEW m \in Bracket, ~Completed(matches[m]), NEW new,
         new.c1 = matches[m].c1, new.c2 = matches[m].c2, FillsSlots(matches', m, new),
         Winner(new) = new.c1, Loser(new) = new.c2
  PROVE  FirstsGoOn'
<1> SUFFICES ASSUME NEW n \in Bracket, NEW slot \in {0, 1}, n[1] > 1,
                    Book!InSlot(matches'[n], slot) # Null
             PROVE  Book!InSlot(matches'[n], slot) = Book!InSlot(matches'[Feeder(n, slot)], GoesOn(n))
  BY DEF FirstsGoOn, Book!InSlot
<1> DEFINE f == Feeder(n, slot)
           k == GoesOn(n)
<1>1. f \in Bracket /\ f # n /\ f[1] \in 1 .. 4 /\ k \in {0, 1}
  <2>1. f \in Bracket
    BY BracketKnown
  <2>2. n[1] \in 1 .. 5
    BY BracketMatch
  <2>3. f[1] = n[1] - 1
    BY <2>2 DEF Feeder
  <2> QED
    BY <2>1, <2>2, <2>3 DEF GoesOn
<1>2. matches'[m] = new
  BY DEF FillsSlots
<1>3. CASE f = m
  <2>1. n # m
    BY <1>1, <1>3
  <2>2. Book!InSlot(matches'[n], slot) = IF n = <<5, 1>> THEN new.c2 ELSE new.c1
    BY <1>3, <2>1 DEF FillsSlots
  <2> QED
    BY <1>2, <1>3, <2>2 DEF GoesOn, Book!InSlot
<1>4. CASE f # m
  <2>1. Book!InSlot(matches'[n], slot) = Book!InSlot(matches[n], slot)
    <3>1. CASE n = m
      BY <1>2, <3>1 DEF Book!InSlot
    <3>2. CASE n # m
      BY <1>4, <3>2 DEF FillsSlots
    <3> QED
      BY <3>1, <3>2
  <2>2. Book!InSlot(matches[n], slot) # Null
    BY <2>1
  <2>3. Book!InSlot(matches[n], slot) = Book!InSlot(matches[f], k)
    BY <2>2 DEF FirstsGoOn
  <2>4. Book!InSlot(matches[f], k) # Null
    BY <2>2, <2>3
  <2>5. Book!InSlot(matches'[f], k) = Book!InSlot(matches[f], k)
    <3>1. CASE f[1] = 1
      <4>1. matches'[f] = matches[f]
        BY <1>1, <1>4, <3>1 DEF FillsSlots
      <4> QED
        BY <4>1 DEF Book!InSlot
    <3>2. CASE f[1] > 1
      <4>1. Feeder(f, k) \notin UnplayedKnockout /\ Feeder(f, k) \in Bracket
        BY <1>1, <2>4, <3>2, KnownBefore
      <4>2. Completed(matches[Feeder(f, k)])
        BY <4>1 DEF Tables, KnockoutRows, Played, Book!Completed, Completed
      <4>3. Feeder(f, k) # m
        BY <4>2
      <4> QED
        BY <1>1, <1>4, <3>2, <4>3 DEF FillsSlots
    <3> QED
      BY <1>1, <3>1, <3>2
  <2> QED
    BY <2>1, <2>3, <2>5
<1> QED
  BY <1>3, <1>4

\* Whom Joey's bracket takes: the first country of every match.
Firsts == [r \in 1 .. 5 |-> [i \in 0 .. 15 |-> 0]]
FirstOf(m) ==
  IF m[1] = 5 THEN IF m[2] = 0 THEN Taken(Firsts, 4)[0] ELSE Taken(Firsts, 3)[1]
  ELSE Taken(Firsts, m[1])[m[2]]

LEMMA TakenFirsts ==
  /\ Firsts \in Sides
  /\ \A i \in 0 .. 15 : Taken(Firsts, 1)[i] = matches[<<1, i>>].c1
  /\ \A i \in 0 .. 7 : Taken(Firsts, 2)[i] = Taken(Firsts, 1)[2 * i]
  /\ \A i \in 0 .. 3 : Taken(Firsts, 3)[i] = Taken(Firsts, 2)[2 * i]
  /\ \A i \in 0 .. 1 : Taken(Firsts, 4)[i] = Taken(Firsts, 3)[2 * i]
<1>1. Firsts \in Sides
  BY DEF Firsts, Sides
<1>2. \A i \in 0 .. 15 : /\ Firsts[1][i] = 0 /\ Firsts[2][i] = 0
                        /\ Firsts[3][i] = 0 /\ Firsts[4][i] = 0
  BY DEF Firsts
<1> DEFINE w1 == Taken(Firsts, 1)
           w2 == Taken(Firsts, 2)
           w3 == Taken(Firsts, 3)
           w4 == Taken(Firsts, 4)
<1>3. /\ w1 = [i \in 0 .. 15 |-> IF Firsts[1][i] = 0 THEN matches[<<1, i>>].c1
                                 ELSE matches[<<1, i>>].c2]
      /\ w2 = [i \in 0 .. 7 |-> w1[2 * i + Firsts[2][i]]]
      /\ w3 = [i \in 0 .. 3 |-> w2[2 * i + Firsts[3][i]]]
      /\ w4 = [i \in 0 .. 1 |-> w3[2 * i + Firsts[4][i]]]
  BY SMTT(30), TakenRounds
<1> HIDE DEF w1, w2, w3, w4
<1>4. \A i \in 0 .. 15 : w1[i] = matches[<<1, i>>].c1
  BY ZenonT(40), <1>2, <1>3
<1>5. ASSUME NEW i \in 0 .. 7 PROVE w2[i] = w1[2 * i]
  <2>1. i \in 0 .. 15 /\ 2 * i + 0 = 2 * i
    BY SMTT(30)
  <2> QED
    BY <1>2, <1>3, <2>1
<1>6. ASSUME NEW i \in 0 .. 3 PROVE w3[i] = w2[2 * i]
  <2>1. i \in 0 .. 15 /\ 2 * i + 0 = 2 * i
    BY SMTT(30)
  <2> QED
    BY <1>2, <1>3, <2>1
<1>7. ASSUME NEW i \in 0 .. 1 PROVE w4[i] = w3[2 * i]
  <2>1. i \in 0 .. 15 /\ 2 * i + 0 = 2 * i
    OBVIOUS
  <2> QED
    BY <1>2, <1>3, <2>1
<1> QED
  BY <1>1, <1>4, <1>5, <1>6, <1>7 DEF w1, w2, w3, w4
\* The first country of a known match is whom Joey's bracket takes from there.
LEMMA KnownIsFirst ==
  ASSUME Tables, FirstsGoOn, NEW m \in Bracket, Book!HasCountries(matches[m])
  PROVE  matches[m].c1 = FirstOf(m)
<1>1. ASSUME NEW n \in Bracket, NEW slot \in {0, 1}, n[1] > 1, Book!InSlot(matches[n], slot) # Null
      PROVE  LET f == Feeder(n, slot)
             IN  /\ f \in Bracket /\ Book!HasCountries(matches[f])
                 /\ Book!InSlot(matches[n], slot) = Book!InSlot(matches[f], GoesOn(n))
  BY <1>1, KnownBefore DEF FirstsGoOn
<1>2. ASSUME NEW n \in Bracket, n[1] > 1, n # <<5, 1>>, NEW slot \in {0, 1}, NEW f,
             f = Feeder(n, slot), Book!HasCountries(matches[n])
      PROVE  /\ f \in Bracket /\ Book!HasCountries(matches[f])
             /\ Book!InSlot(matches[n], slot) = matches[f].c1
  <2>1. Book!InSlot(matches[n], slot) # Null
    BY <1>2 DEF Book!InSlot, Book!HasCountries
  <2>2. GoesOn(n) = 0
    BY <1>2 DEF GoesOn
  <2> QED
    BY <1>1, <1>2, <2>1, <2>2 DEF Book!InSlot
<1>3. ASSUME NEW i \in 0 .. 7, Book!HasCountries(matches[<<2, i>>])
      PROVE  matches[<<2, i>>].c1 = Taken(Firsts, 2)[i]
  <2>1. <<2, i>> \in Bracket /\ Feeder(<<2, i>>, 0) = <<1, 2 * i>> /\ 2 * i \in 0 .. 15
    BY Places DEF Feeder
  <2>2. Book!InSlot(matches[<<2, i>>], 0) = matches[<<1, 2 * i>>].c1
    BY <1>2, <1>3, <2>1
  <2> QED
    BY <2>1, <2>2, TakenFirsts DEF Book!InSlot
<1>4. ASSUME NEW i \in 0 .. 3, Book!HasCountries(matches[<<3, i>>])
      PROVE  matches[<<3, i>>].c1 = Taken(Firsts, 3)[i]
  <2>1. <<3, i>> \in Bracket /\ Feeder(<<3, i>>, 0) = <<2, 2 * i>> /\ 2 * i \in 0 .. 7
    BY Places DEF Feeder
  <2>2. /\ Book!InSlot(matches[<<3, i>>], 0) = matches[<<2, 2 * i>>].c1
        /\ Book!HasCountries(matches[<<2, 2 * i>>])
    BY <1>2, <1>4, <2>1
  <2> QED
    BY <1>3, <2>1, <2>2, TakenFirsts DEF Book!InSlot
<1>5. ASSUME NEW i \in 0 .. 1, Book!HasCountries(matches[<<4, i>>])
      PROVE  matches[<<4, i>>].c1 = Taken(Firsts, 4)[i]
  <2>1. <<4, i>> \in Bracket /\ Feeder(<<4, i>>, 0) = <<3, 2 * i>> /\ 2 * i \in 0 .. 3
    BY Places DEF Feeder
  <2>2. /\ Book!InSlot(matches[<<4, i>>], 0) = matches[<<3, 2 * i>>].c1
        /\ Book!HasCountries(matches[<<3, 2 * i>>])
    BY <1>2, <1>5, <2>1
  <2> QED
    BY <1>4, <2>1, <2>2, TakenFirsts DEF Book!InSlot
<1>6. ASSUME Book!HasCountries(matches[<<4, 0>>])
      PROVE  matches[<<4, 0>>].c2 = Taken(Firsts, 3)[1]
  <2>1. <<4, 0>> \in Bracket /\ Feeder(<<4, 0>>, 1) = <<3, 1>> /\ 1 \in 0 .. 3
    BY Places DEF Feeder
  <2>2. /\ Book!InSlot(matches[<<4, 0>>], 1) = matches[<<3, 1>>].c1
        /\ Book!HasCountries(matches[<<3, 1>>])
    BY <1>2, <1>6, <2>1
  <2> QED
    BY <1>4, <2>1, <2>2 DEF Book!InSlot
<1>7. ASSUME Book!HasCountries(matches[<<5, 0>>])
      PROVE  matches[<<5, 0>>].c1 = Taken(Firsts, 4)[0]
  <2>1. <<5, 0>> \in Bracket /\ Feeder(<<5, 0>>, 0) = <<4, 0>>
    BY Places DEF Feeder
  <2>2. /\ Book!InSlot(matches[<<5, 0>>], 0) = matches[<<4, 0>>].c1
        /\ Book!HasCountries(matches[<<4, 0>>])
    BY <1>2, <1>7, <2>1
  <2> QED
    BY <1>5, <2>2 DEF Book!InSlot
<1>8. ASSUME Book!HasCountries(matches[<<5, 1>>])
      PROVE  matches[<<5, 1>>].c1 = Taken(Firsts, 3)[1]
  <2>1. <<5, 1>> \in Bracket /\ Feeder(<<5, 1>>, 0) = <<4, 0>> /\ GoesOn(<<5, 1>>) = 1
    BY Places DEF Feeder, GoesOn
  <2>2. Book!InSlot(matches[<<5, 1>>], 0) # Null
    BY <1>8 DEF Book!InSlot, Book!HasCountries
  <2>3. /\ Book!InSlot(matches[<<5, 1>>], 0) = Book!InSlot(matches[<<4, 0>>], 1)
        /\ Book!HasCountries(matches[<<4, 0>>])
    BY <1>1, <2>1, <2>2
  <2> QED
    BY <1>6, <2>3 DEF Book!InSlot
<1>9. /\ m[1] \in 1 .. 5 /\ m[2] \in 0 .. 15 /\ m = <<m[1], m[2]>>
      /\ m[1] = 2 => m[2] \in 0 .. 7
      /\ m[1] = 3 => m[2] \in 0 .. 3
      /\ m[1] = 4 => m[2] \in 0 .. 1
      /\ m[1] = 5 => m[2] \in 0 .. 1
  BY BracketMatch, Places
<1>10. m[1] = 1 \/ m[1] = 2 \/ m[1] = 3 \/ m[1] = 4 \/ m[1] = 5
  BY <1>9
<1>11. CASE m[1] = 1
  BY SMTT(30), <1>9, <1>11, TakenFirsts DEF FirstOf
<1>12. CASE m[1] = 2
  BY <1>3, <1>9, <1>12 DEF FirstOf
<1>13. CASE m[1] = 3
  BY <1>4, <1>9, <1>13 DEF FirstOf
<1>14. CASE m[1] = 4
  BY <1>5, <1>9, <1>14 DEF FirstOf
<1>15. CASE m[1] = 5
  BY <1>7, <1>8, <1>9, <1>15 DEF FirstOf
<1> QED
  BY <1>10, <1>11, <1>12, <1>13, <1>14, <1>15

LEMMA JoeysBracketIs ==
  JoeysBracket =
    {<<Taken(Firsts, 1)[i], 2>> : i \in 0 .. 15} \cup {<<Taken(Firsts, 2)[i], 3>> : i \in 0 .. 7}
    \cup {<<Taken(Firsts, 3)[i], 4>> : i \in 0 .. 3} \cup {<<Taken(Firsts, 4)[i], 5>> : i \in 0 .. 1}
    \cup {<<Taken(Firsts, 4)[0], 6>>,
          <<Taken(Firsts, 3)[IF kind = "perfect" THEN 1 ELSE 3], 7>>}
<1> DEFINE last == IF kind = "perfect" THEN 0 ELSE 1
<1>1. JoeysBracket = BracketOf(Firsts, last)
  BY DEF JoeysBracket, Firsts
<1>2. last \in {0, 1} /\ 2 * last + 1 = IF kind = "perfect" THEN 1 ELSE 3
  OBVIOUS
<1> HIDE DEF last
<1>3. Firsts[5][0] = 0 /\ OtherSide(Firsts[4][last]) = 1
  BY <1>2 DEF Firsts, OtherSide
<1>4. BracketOf(Firsts, last) =
        {<<Taken(Firsts, 1)[i], 2>> : i \in 0 .. 15} \cup {<<Taken(Firsts, 2)[i], 3>> : i \in 0 .. 7}
        \cup {<<Taken(Firsts, 3)[i], 4>> : i \in 0 .. 3} \cup {<<Taken(Firsts, 4)[i], 5>> : i \in 0 .. 1}
        \cup {<<Taken(Firsts, 4)[Firsts[5][0]], 6>>,
              <<Taken(Firsts, 3)[2 * last + OtherSide(Firsts[4][last])], 7>>}
  BY <1>2, BracketInRounds
<1>5. 2 * last + OtherSide(Firsts[4][last]) = IF kind = "perfect" THEN 1 ELSE 3
  BY <1>2, <1>3
<1> QED
  BY <1>1, <1>3, <1>4, <1>5, Zenon
LEMMA JoeyHits ==
  ASSUME Tables, FirstsGoOn, FirstPlaces, NEW m \in Bracket, Book!HasCountries(matches[m]),
         NEW a, a = AchievedRound(m[1], m[2])
  PROVE  <<matches[m].c1, a>> \in JoeysBracket <=> a # 7 \/ kind = "perfect"
<1> DEFINE w1 == Taken(Firsts, 1)
           w2 == Taken(Firsts, 2)
           w3 == Taken(Firsts, 3)
           w4 == Taken(Firsts, 4)
           B == JoeysBracket
           third == IF kind = "perfect" THEN 1 ELSE 3
           c == matches[m].c1
<1>1. B = {<<w1[i], 2>> : i \in 0 .. 15} \cup {<<w2[i], 3>> : i \in 0 .. 7}
          \cup {<<w3[i], 4>> : i \in 0 .. 3} \cup {<<w4[i], 5>> : i \in 0 .. 1}
          \cup {<<w4[0], 6>>, <<w3[third], 7>>}
  BY JoeysBracketIs
<1>2. c = FirstOf(m)
  BY KnownIsFirst
<1>3. w3[1] # w3[3]
  <2>1. \A i, j \in 0 .. 3 : w3[i] = w3[j] => i = j
    BY TakenFirsts, TakenAreDifferent
  <2> QED
    BY SMTT(30), <2>1
<1>4. c = IF m[1] = 5 THEN IF m[2] = 0 THEN w4[0] ELSE w3[1] ELSE Taken(Firsts, m[1])[m[2]]
  BY <1>2 DEF FirstOf
<1>5. /\ m[1] \in 1 .. 5 /\ m[2] \in 0 .. 15 /\ m = <<m[1], m[2]>>
      /\ m[1] = 2 => m[2] \in 0 .. 7
      /\ m[1] = 3 => m[2] \in 0 .. 3
      /\ m[1] = 4 => m[2] \in 0 .. 1
      /\ m[1] = 5 => m[2] \in 0 .. 1
  BY BracketMatch, Places
<1> HIDE DEF w1, w2, w3, w4, B, c
<1>6. CASE m[1] = 1
  <2>1. a = 2 /\ c = w1[m[2]]
    BY <1>4, <1>6 DEF AchievedRound, w1
  <2> QED
    BY <1>1, <1>5, <2>1 DEF B, c
<1>7. CASE m[1] = 2
  <2>1. a = 3 /\ c = w2[m[2]]
    BY <1>4, <1>7 DEF AchievedRound, w2
  <2> QED
    BY <1>1, <1>5, <1>7, <2>1 DEF B, c
<1>8. CASE m[1] = 3
  <2>1. a = 4 /\ c = w3[m[2]]
    BY <1>4, <1>8 DEF AchievedRound, w3
  <2> QED
    BY <1>1, <1>5, <1>8, <2>1 DEF B, c
<1>9. CASE m[1] = 4
  <2>1. a = 5 /\ c = w4[m[2]]
    BY <1>4, <1>9 DEF AchievedRound, w4
  <2> QED
    BY <1>1, <1>5, <1>9, <2>1 DEF B, c
<1>10. CASE m[1] = 5 /\ m[2] = 0
  <2>1. a = 6 /\ c = w4[0]
    BY <1>4, <1>10 DEF AchievedRound
  <2> QED
    BY <1>1, <2>1 DEF B, c
<1>11. CASE m[1] = 5 /\ m[2] = 1
  <2>1. a = 7 /\ c = w3[1]
    BY <1>4, <1>11 DEF AchievedRound
  <2>2. <<c, 7>> \in B <=> c = w3[third]
    BY <1>1
  <2>3. c = w3[third] <=> kind = "perfect"
    BY <1>3, <2>1
  <2> QED
    BY <2>1, <2>2, <2>3 DEF B, c
<1>12. m[1] = 1 \/ m[1] = 2 \/ m[1] = 3 \/ m[1] = 4 \/ m[1] = 5
  BY <1>5
<1>13. m[1] = 5 => m[2] = 0 \/ m[2] = 1
  BY <1>5
<1> QED
  BY <1>6, <1>7, <1>8, <1>9, <1>10, <1>11, <1>12, <1>13

----------------------------------------------------------------------------
(***************************************************************************)
(* Joey's points in the deterministic contests                             *)
(***************************************************************************)
\* The contest goes as predicted.
AsPredicted == (\A l \in Letters : TableAsListed(l)) /\ FirstsGoOn

LEMMA SameTable ==
  ASSUME NEW l \in Letters, TableAsListed(l), UNCHANGED standings,
         \A n \in GroupMatches : matches'[n] = matches[n]
  PROVE  TableAsListed(l)'
<1>1. ASSUME NEW i \in 1 .. 4, NEW j \in 1 .. 4, i < j PROVE Won(l, i, j)' = Won(l, i, j)
  <2>1. Meeting(l, i, j) \in GroupMatches
    BY <1>1, MeetingsOfContest
  <2>2. matches'[Meeting(l, i, j)] = matches[Meeting(l, i, j)]
    BY <2>1
  <2> QED
    BY <2>2 DEF Won, Meeting
<1>2. /\ Won(l, 1, 2)' = Won(l, 1, 2) /\ Won(l, 1, 3)' = Won(l, 1, 3)
      /\ Won(l, 1, 4)' = Won(l, 1, 4) /\ Won(l, 2, 3)' = Won(l, 2, 3)
      /\ Won(l, 2, 4)' = Won(l, 2, 4) /\ Won(l, 3, 4)' = Won(l, 3, 4)
  BY <1>1
<1>3. \A i : Listing(l, i)' = Listing(l, i)
  BY DEF Listing
<1> QED
  BY <1>2, <1>3 DEF TableAsListed

LEMMA PredictedStays ==
  ASSUME AsPredicted, UNCHANGED <<matches, standings>>
  PROVE  AsPredicted'
<1>1. FirstsGoOn'
  BY FirstsStay DEF AsPredicted
<1>2. \A l \in Letters : TableAsListed(l)'
  BY SameTable DEF AsPredicted
<1> QED
  BY <1>1, <1>2 DEF AsPredicted

LEMMA PredictedGroupMatch ==
  ASSUME Running, PlayGroupMatch, Deterministic, AsPredicted
  PROVE  AsPredicted'
<1>1. Rows
  BY DEF Running, Tables
<1>2. \A l \in Letters : TableAsListed(l)'
  BY <1>1, DecidedTurn, DecidedTable DEF AsPredicted
<1>3. PICK m \in GroupMatches : \E new : matches' = [matches EXCEPT ![m] = new]
  BY GroupMatchTurn
<1>4. \A n \in Bracket : n # m /\ n \in AllMatches
  BY BracketMatch
<1>5. \A n \in Bracket : matches'[n] = matches[n]
  BY <1>1, <1>3, <1>4 DEF Rows
<1>6. FirstsGoOn'
  BY <1>5, FirstsStay DEF AsPredicted
<1> QED
  BY <1>2, <1>6 DEF AsPredicted

LEMMA PredictedPair ==
  ASSUME Running, PairUp, AsPredicted
  PROVE  AsPredicted'
<1>1. PICK m \in Bracket : \E new : Pairing(m, new)
  BY PairTurn
<1>2. PICK new : Pairing(m, new)
  BY <1>1
<1>3. Rows /\ Slots
  BY DEF Running, Tables
<1>4. \A n \in AllMatches : n # m => matches'[n] = matches[n]
  BY <1>2, <1>3 DEF Rows, Pairing
<1>5. \A n \in GroupMatches : matches'[n] = matches[n]
  BY <1>4, GroupMatch
<1>6. UnplayedKnockout = Bracket
  BY <1>2, OutsideRounds DEF Pairing, UnplayedKnockout
<1>7. ASSUME NEW n \in Bracket, NEW slot \in {0, 1}, n[1] > 1
      PROVE  Book!InSlot(matches'[n], slot) = Null
  <2>1. Book!InSlot(matches[n], slot) = Null
    BY <1>3, <1>6, <1>7, BracketKnown DEF Slots
  <2>2. n # m
    BY <1>2, <1>7 DEF Pairing
  <2>3. matches'[n] = matches[n]
    BY <1>4, <2>2, BracketMatch
  <2> QED
    BY <2>1, <2>3 DEF Book!InSlot
<1>8. FirstsGoOn'
  BY <1>7, EmptySlotsGoOn
<1>9. \A l \in Letters : TableAsListed(l)'
  BY <1>2, <1>5, SameTable DEF AsPredicted, Pairing
<1> QED
  BY <1>8, <1>9 DEF AsPredicted

LEMMA PredictedResult ==
  ASSUME Running, PlayKnockout, Deterministic, AsPredicted
  PROVE  AsPredicted'
<1>1. PICK r \in 1 .. 5, m \in Bracket : \E new : Resulting(r, m, new)
  BY ResultTurn
<1>2. PICK new : Resulting(r, m, new)
  BY <1>1
<1>3. FirstsGoOn'
  BY <1>2, ResultGoesOn DEF Running, AsPredicted, Resulting
<1>4. \A l \in Letters : TableAsListed(l)'
  BY <1>2, SameTable DEF AsPredicted, FillsSlots, Resulting
<1> QED
  BY <1>3, <1>4 DEF AsPredicted

LEMMA SeedKeepsPredicted ==
  ASSUME Running, SeedStep, stage' # "start", Deterministic, AsPredicted
  PROVE  AsPredicted'
<1>1. stage # "start"
  BY DEF Running, Course
<1>2. ~Truncate /\ ~Rerun
  BY <1>1 DEF Truncate, Rerun
<1>3. CASE CreateUsers
  BY <1>3, PredictedStays DEF CreateUsers, CreateContest, Fail, contestVars
<1>4. CASE NextLoop
  BY <1>4, NextLoopKeeps, PredictedStays DEF contestVars
<1>5. CASE SeedSubcontest
  BY <1>5, SeedSubcontestKeeps, PredictedStays DEF contestVars
<1>6. CASE SeedDone
  BY <1>6, PredictedStays DEF SeedDone, contestVars
<1>7. CASE SeedGroupPicks
  <2>1. UNCHANGED <<matches, standings>>
    BY <1>7 DEF SeedGroupPicks, Turn, SaveGroupPicks
  <2> QED
    BY <2>1, PredictedStays
<1>8. CASE SeedKnockoutPicks
  <2>1. UNCHANGED <<matches, standings>>
    BY <1>8, KnockoutPicksTurn
  <2> QED
    BY <2>1, PredictedStays
<1>9. CASE RankGroup
  <2>1. UNCHANGED <<matches, standings>>
    BY <1>9, RankTurn
  <2> QED
    BY <2>1, PredictedStays
<1>10. CASE QualifyThird
  <2>1. UNCHANGED <<matches, standings>>
    BY <1>10, QualifyTurn
  <2> QED
    BY <2>1, PredictedStays
<1> QED
  BY <1>2, <1>3, <1>4, <1>5, <1>6, <1>7, <1>8, <1>9, <1>10, PredictedGroupMatch, PredictedPair,
     PredictedResult
  DEF SeedStep
=============================================================================
