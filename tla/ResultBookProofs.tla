-------------------------- MODULE ResultBookProofs --------------------------
(***************************************************************************)
(* Every safety property of ResultBook, for any contest CreateContest can  *)
(* make, any calls and any predictions: the tables the calls of            *)
(* UpdateMatch maintain step by step are at every moment what the          *)
(* completed matches make them.                                            *)
(***************************************************************************)
EXTENDS ResultBook, CollectionTheorems

(***************************************************************************)
(* The inductive invariants.  Rows: a completed match has both countries,  *)
(* and a group match the two it was created with.                          *)
(***************************************************************************)
RowsInv ==
  /\ TypeOK
  /\ \A m \in Matches : Completed(matches[m]) => HasCountries(matches[m])
  /\ \A m \in Matches : ~IsKnockout(m) => /\ matches[m].c1 = Fixtures[m].c1
                                           /\ matches[m].c2 = Fixtures[m].c2

(***************************************************************************)
(* The bracket: what a slot that a result fills holds, and how a country   *)
(* came to a slot that none does.                                          *)
(***************************************************************************)
WinnerGoes(m, n, slot) == n \in NextMatches(m) /\ slot = Index[m] % 2
LoserGoes(m, n, slot)  == n \in ThirdPlaceMatches(m) /\ slot = Index[m]

SlotsFollow ==
  \A m, n \in Matches, slot \in {0, 1} :
    /\ WinnerGoes(m, n, slot) =>
         InSlot(matches[n], slot) = IF Decided(m) THEN Winner(matches[m]) ELSE Null
    /\ LoserGoes(m, n, slot) =>
         InSlot(matches[n], slot) = IF Decided(m) THEN Loser(matches[m]) ELSE Null

SlotsInv == RowsInv /\ SlotsFollow

SlotsEntered ==
  \A n \in Matches, slot \in {0, 1} :
    IsKnockout(n) /\ ~FilledByResult(n, slot) /\ InSlot(matches[n], slot) # Null
      => Enters(InSlot(matches[n], slot), n, slot)

BracketInv == SlotsInv /\ SlotsEntered

----------------------------------------------------------------------------
(***************************************************************************)
(* Rows                                                                    *)
(***************************************************************************)
LEMMA MergeRow ==
  ASSUME NEW m \in Matches, NEW row \in MatchRow, NEW p \in Payloads
  PROVE  /\ Merge(m, row, p) \in MatchRow
         /\ ~IsKnockout(m) => /\ Merge(m, row, p).c1 = row.c1
                              /\ Merge(m, row, p).c2 = row.c2
<1>1. p \in Payload
  BY PayloadAssumption
<1> QED
  BY <1>1 DEF Merge, Given, KnockoutGiven, MatchRow, Payload

\* What a call writes into its match.
Writing(m, new) ==
  /\ new \in MatchRow /\ ~Completed(matches[m])
  /\ Completed(new) => HasCountries(new)
  /\ ~IsKnockout(m) => new.c1 = matches[m].c1 /\ new.c2 = matches[m].c2

Recording(m, new) ==
  RecordFields(m, new) \/ RecordGroupResult(m, new) \/ RecordKnockoutResult(m, new)

LEMMA RecordWrites ==
  ASSUME TypeOK, NEW m \in Matches, NEW p \in Payloads, Record(m, p)
  PROVE  LET new == Merge(m, matches[m], p)
         IN  Writing(m, new) /\ Recording(m, new) /\ m \in Found(matches, p)
<1>1. matches[m] \in MatchRow
  BY DEF TypeOK
<1> QED
  BY <1>1, MergeRow DEF Record, Accepted, Writing, Recording

\* Whoever wins or loses a match is one of its countries.
LEMMA WinnerOrLoser ==
  ASSUME NEW row
  PROVE  /\ {Winner(row), Loser(row)} = {row.c1, row.c2}
         /\ row \in MatchRow /\ HasCountries(row) =>
              Winner(row) \in Countries /\ Loser(row) \in Countries
  BY DEF Winner, Loser, HasCountries, MatchRow, Slot

LEMMA AchievedType == \A m \in Matches : Achieved(m) \in 1 .. 7
<1>1. \A m \in Matches : Round[m] \in {0, 1, 2, 3, 4, 5}
  BY RoundAssumption
<1> QED
  BY <1>1 DEF Achieved, AchievedRound

LEMMA AwardType == \A n : AwardPoints(n) \in Nat
  BY DEF AwardPoints

\* The slots of a row that a knockout result leaves the fields of.
SameResult(row, old) ==
  /\ row.g1 = old.g1 /\ row.g2 = old.g2 /\ row.p1 = old.p1 /\ row.p2 = old.p2

LEMMA FillsRound ==
  ASSUME NEW m \in Matches, NEW n \in Matches, NEW slot, Fills(m, n, slot)
  PROVE  /\ Round[m] \in 1 .. 4 /\ Round[n] = Round[m] + 1 /\ n # m
         /\ IsKnockout(m) /\ IsKnockout(n) /\ slot \in {0, 1}
         /\ Index[m] \in Nat
         /\ WinnerGoes(m, n, slot) \/ LoserGoes(m, n, slot)
<1>1. Round[m] \in 0 .. 5 /\ Round[n] \in 0 .. 5
  BY RoundAssumption
<1>2. Round[m] \in 1 .. 4 /\ Round[n] = Round[m] + 1
  BY <1>1 DEF Fills, NextMatches, ThirdPlaceMatches
<1>3. Index[m] \in Nat
  BY <1>1, <1>2, IndexAssumption
<1>4. Index[m] % 2 \in {0, 1}
  BY <1>3
<1>5. slot \in {0, 1}
  BY <1>2, <1>4, IndexAssumption DEF Fills, ThirdPlaceMatches
<1> QED
  BY <1>1, <1>2, <1>3, <1>5 DEF Fills, WinnerGoes, LoserGoes, IsKnockout

\* What a knockout result does to the other matches.
LEMMA OtherRows ==
  ASSUME TypeOK, NEW m \in Matches, NEW new \in MatchRow, HasCountries(new),
         RecordKnockoutResult(m, new), NEW n \in Matches, n # m
  PROVE  /\ matches'[n] \in MatchRow
         /\ SameResult(matches'[n], matches[n])
         /\ ~IsKnockout(n) => matches'[n] = matches[n]
         /\ (\A slot \in {0, 1} : ~Fills(m, n, slot)) => matches'[n] = matches[n]
         /\ \A slot \in {0, 1} :
              /\ WinnerGoes(m, n, slot) => InSlot(matches'[n], slot) = Winner(new)
              /\ LoserGoes(m, n, slot) => InSlot(matches'[n], slot) = Loser(new)
              /\ ~Fills(m, n, slot) => InSlot(matches'[n], slot) = InSlot(matches[n], slot)
<1> DEFINE row == matches[n]
<1>1. row \in MatchRow /\ Winner(new) \in Countries /\ Loser(new) \in Countries
  BY WinnerOrLoser DEF TypeOK
<1>2. matches'[n] = CASE n \in NextMatches(m)       -> SeedWinner(m, row, Winner(new))
                      [] n \in ThirdPlaceMatches(m) -> SeedLoser(m, row, Loser(new))
                      [] OTHER                      -> row
  BY DEF RecordKnockoutResult
<1>3. ASSUME n \in NextMatches(m)
      PROVE  n \notin ThirdPlaceMatches(m)
  BY <1>3, IndexAssumption DEF NextMatches, ThirdPlaceMatches
<1>4. CASE n \in NextMatches(m)
  <2>1. matches'[n] = SeedWinner(m, row, Winner(new)) /\ n \notin ThirdPlaceMatches(m)
    BY <1>2, <1>3, <1>4
  <2>2. PICK slot \in {0, 1} : slot = Index[m] % 2
    <3>1. Index[m] \in Nat
      BY <1>4, RoundAssumption, IndexAssumption DEF NextMatches
    <3> QED
      BY <3>1
  <2>3. Fills(m, n, slot) /\ IsKnockout(n) /\ \A t \in {0, 1} : Fills(m, n, t) <=> t = slot
    BY <1>4, <2>1, <2>2, FillsRound DEF Fills
  <2>4. matches'[n] = IF slot = 0 THEN [row EXCEPT !.c1 = Winner(new)]
                                  ELSE [row EXCEPT !.c2 = Winner(new)]
    BY <2>1, <2>2 DEF SeedWinner
  <2>5. matches'[n] \in MatchRow /\ SameResult(matches'[n], row)
    BY <1>1, <2>4 DEF MatchRow, Slot, SameResult
  <2>6. \A t \in {0, 1} : InSlot(matches'[n], t) = IF t = slot THEN Winner(new)
                                                    ELSE InSlot(row, t)
    BY <1>1, <2>4 DEF MatchRow, InSlot
  <2> QED
    BY <2>1, <2>2, <2>3, <2>5, <2>6 DEF WinnerGoes, LoserGoes
<1>5. CASE n \notin NextMatches(m) /\ n \in ThirdPlaceMatches(m)
  <2>1. matches'[n] = SeedLoser(m, row, Loser(new))
    BY <1>2, <1>5
  <2>2. PICK slot \in {0, 1} : slot = Index[m]
    BY <1>5, IndexAssumption DEF ThirdPlaceMatches
  <2>3. Fills(m, n, slot) /\ IsKnockout(n) /\ \A t \in {0, 1} : Fills(m, n, t) <=> t = slot
    BY <1>5, <2>2, FillsRound DEF Fills
  <2>4. matches'[n] = IF slot = 0 THEN [row EXCEPT !.c1 = Loser(new)]
                                  ELSE [row EXCEPT !.c2 = Loser(new)]
    BY <2>1, <2>2 DEF SeedLoser
  <2>5. matches'[n] \in MatchRow /\ SameResult(matches'[n], row)
    BY <1>1, <2>4 DEF MatchRow, Slot, SameResult
  <2>6. \A t \in {0, 1} : InSlot(matches'[n], t) = IF t = slot THEN Loser(new)
                                                    ELSE InSlot(row, t)
    BY <1>1, <2>4 DEF MatchRow, InSlot
  <2> QED
    BY <1>5, <2>2, <2>3, <2>5, <2>6 DEF WinnerGoes, LoserGoes
<1>6. CASE n \notin NextMatches(m) /\ n \notin ThirdPlaceMatches(m)
  BY <1>1, <1>2, <1>6 DEF WinnerGoes, LoserGoes, SameResult
<1> QED
  BY <1>4, <1>5, <1>6

LEMMA CreditType ==
  ASSUME NEW s \in StandingRow, NEW gf \in Nat, NEW ga \in Nat, NEW cs \in Int
  PROVE  Credit(s, gf, ga, cs) \in StandingRow
<1> DEFINE w == One(gf > ga)
           d == One(gf = ga)
           l == One(gf < ga)
<1>1. w \in Nat /\ d \in Nat /\ l \in Nat
  BY DEF One
<1> HIDE DEF w, d, l
<1>2. Credit(s, gf, ga, cs) =
        [wins |-> s.wins + w, draws |-> s.draws + d, losses |-> s.losses + l,
         gf |-> s.gf + gf, ga |-> s.ga + ga, gd |-> (s.gf + gf) - (s.ga + ga),
         points |-> s.points + 3 * w + d, cs |-> s.cs + cs]
  BY DEF Credit, w, d, l
<1> QED
  BY <1>1, <1>2 DEF StandingRow

\* The goals and conduct scores of a completed match are numbers.
LEMMA ResultType ==
  ASSUME NEW row \in MatchRow, Completed(row)
  PROVE  /\ row.g1 \in Nat /\ row.g2 \in Nat
         /\ Conduct(row.cs1) \in Int /\ Conduct(row.cs2) \in Int
  BY DEF MatchRow, Score, Completed, Conduct

\* The match has its new row, every other match its result.
LEMMA RowsAfter ==
  ASSUME RowsInv, NEW m \in Matches, NEW new, Writing(m, new), Recording(m, new)
  PROVE  /\ matches' \in [Matches -> MatchRow] /\ matches'[m] = new
         /\ \A n \in Matches \ {m} : /\ SameResult(matches'[n], matches[n])
                                     /\ ~IsKnockout(n) => matches'[n] = matches[n]
                                     /\ ~RecordKnockoutResult(m, new) =>
                                          matches'[n] = matches[n]
<1>1. matches \in [Matches -> MatchRow] /\ TypeOK /\ new \in MatchRow
  BY DEF RowsInv, TypeOK, Writing
<1>2. CASE RecordFields(m, new) \/ RecordGroupResult(m, new)
  BY <1>1, <1>2 DEF RecordFields, RecordGroupResult, SameResult
<1>3. CASE RecordKnockoutResult(m, new)
  <2>1. HasCountries(new)
    BY <1>3 DEF Writing, RecordKnockoutResult
  <2>2. \A n \in Matches \ {m} :
          /\ matches'[n] \in MatchRow /\ SameResult(matches'[n], matches[n])
          /\ ~IsKnockout(n) => matches'[n] = matches[n]
    BY <1>1, <1>3, <2>1, OtherRows
  <2>3. m \notin NextMatches(m) /\ m \notin ThirdPlaceMatches(m)
    BY RoundAssumption DEF NextMatches, ThirdPlaceMatches
  <2>4. matches'[m] = new
    BY <1>3, <2>3 DEF RecordKnockoutResult
  <2>5. matches' = [n \in Matches |-> matches'[n]]
    BY <1>3 DEF RecordKnockoutResult
  <2> QED
    BY <1>1, <1>3, <2>2, <2>4, <2>5
<1> QED
  BY <1>2, <1>3 DEF Recording

LEMMA OtherTablesType ==
  ASSUME RowsInv, NEW m \in Matches, NEW new, Writing(m, new), Recording(m, new)
  PROVE  /\ standings' \in [Countries -> StandingRow]
         /\ reached' \in [Countries -> 0 .. 7]
         /\ knockoutScore' \in [Users -> Nat]
<1>1. /\ standings \in [Countries -> StandingRow] /\ reached \in [Countries -> 0 .. 7]
      /\ knockoutScore \in [Users -> Nat] /\ new \in MatchRow
  BY DEF RowsInv, TypeOK, Writing
<1>2. CASE RecordFields(m, new)
  BY <1>1, <1>2 DEF RecordFields
<1>3. CASE RecordGroupResult(m, new)
  <2>1. \A s \in StandingRow :
          CreditFirst(s, new) \in StandingRow /\ CreditSecond(s, new) \in StandingRow
    BY <1>1, <1>3, ResultType, CreditType DEF RecordGroupResult, CreditFirst, CreditSecond
  <2>2. standings' = [standings EXCEPT ![new.c1] = CreditFirst(@, new),
                                       ![new.c2] = CreditSecond(@, new)]
    BY <1>3 DEF RecordGroupResult
  <2>3. standings' \in [Countries -> StandingRow]
    BY <1>1, <2>1, <2>2
  <2> QED
    BY <1>1, <1>3, <2>3 DEF RecordGroupResult
<1>4. CASE RecordKnockoutResult(m, new)
  <2>1. Achieved(m) \in 0 .. 7 /\ 5 \in 0 .. 7
    BY AchievedType
  <2>2. reached' = ReachedAfter(m, new) /\ UNCHANGED standings
    BY <1>4 DEF RecordKnockoutResult
  <2>3. reached' \in [Countries -> 0 .. 7]
    BY <1>1, <2>1, <2>2 DEF ReachedAfter
  <2>4. \A u \in Users : knockoutScore[u] + AwardPoints(Achieved(m)) \in Nat
    BY <1>1, AwardType
  <2>5. knockoutScore' \in [Users -> Nat]
    BY <1>1, <1>4, <2>4 DEF RecordKnockoutResult
  <2> QED
    BY <1>1, <2>2, <2>3, <2>5
<1> QED
  BY <1>2, <1>3, <1>4 DEF Recording

\* A call that records anything, and the row it writes.
LEMMA StepRecords ==
  ASSUME RowsInv, [Next]_vars
  PROVE  \/ UNCHANGED vars
         \/ \E m \in Matches, p \in Payloads :
              LET new == Merge(m, matches[m], p)
              IN  Writing(m, new) /\ Recording(m, new) /\ m \in Found(matches, p)
<1>1. TypeOK
  BY DEF RowsInv
<1> QED
  BY <1>1, RecordWrites DEF Next, Exhausted

LEMMA InitRows == Init => RowsInv
<1> SUFFICES ASSUME Init PROVE RowsInv
  OBVIOUS
<1>1. \A m \in Matches : Unplayed(m) \in MatchRow /\ ~Completed(Unplayed(m))
  BY FixtureAssumption DEF Unplayed, MatchRow, Score, Slot, Completed
<1>2. ZeroStanding \in StandingRow
  BY DEF ZeroStanding, StandingRow
<1>3. TypeOK
  BY <1>1, <1>2 DEF Init, TypeOK
<1> QED
  BY <1>1, <1>3 DEF Init, RowsInv, Unplayed

LEMMA StepRows == RowsInv /\ [Next]_vars => RowsInv'
<1> SUFFICES ASSUME RowsInv, [Next]_vars PROVE RowsInv'
  OBVIOUS
<1>1. CASE UNCHANGED vars
  BY <1>1 DEF vars, RowsInv, TypeOK
<1>2. ASSUME NEW m \in Matches, NEW new, Writing(m, new), Recording(m, new)
      PROVE  RowsInv'
  <2>1. TypeOK'
    BY <1>2, RowsAfter, OtherTablesType DEF TypeOK
  <2>2. ASSUME NEW n \in Matches
        PROVE  /\ Completed(matches'[n]) => HasCountries(matches'[n])
               /\ ~IsKnockout(n) => /\ matches'[n].c1 = Fixtures[n].c1
                                    /\ matches'[n].c2 = Fixtures[n].c2
    <3>1. CASE n = m
      BY <1>2, <3>1, RowsAfter DEF RowsInv, Writing
    <3>2. CASE n # m /\ matches'[n] = matches[n]
      BY <3>2 DEF RowsInv
    <3>3. CASE n # m /\ matches'[n] # matches[n]
      <4>1. RecordKnockoutResult(m, new) /\ IsKnockout(n) /\ HasCountries(new)
        BY <1>2, <3>3, RowsAfter DEF Writing, RecordKnockoutResult
      <4>2. TypeOK /\ new \in MatchRow
        BY <1>2 DEF RowsInv, Writing
      <4>3. /\ SameResult(matches'[n], matches[n])
            /\ \A slot \in {0, 1} :
                 /\ WinnerGoes(m, n, slot) => InSlot(matches'[n], slot) = Winner(new)
                 /\ LoserGoes(m, n, slot) => InSlot(matches'[n], slot) = Loser(new)
                 /\ ~Fills(m, n, slot) =>
                      InSlot(matches'[n], slot) = InSlot(matches[n], slot)
        BY <3>3, <4>1, <4>2, OtherRows
      <4>4. Winner(new) # Null /\ Loser(new) # Null
        BY <4>1, <4>2, WinnerOrLoser, NullAssumption
      <4>5. \A slot \in {0, 1} : InSlot(matches'[n], slot) = InSlot(matches[n], slot)
                                  \/ InSlot(matches'[n], slot) # Null
        BY <4>3, <4>4 DEF Fills, WinnerGoes, LoserGoes
      <4>6. /\ matches'[n].c1 = matches[n].c1 \/ matches'[n].c1 # Null
            /\ matches'[n].c2 = matches[n].c2 \/ matches'[n].c2 # Null
        BY <4>5 DEF InSlot
      <4> QED
        BY <4>1, <4>3, <4>6 DEF SameResult, Completed, HasCountries, RowsInv
    <3> QED
      BY <3>1, <3>2, <3>3
  <2> QED
    BY <2>1, <2>2 DEF RowsInv
<1> QED
  BY <1>1, <1>2, StepRecords

LEMMA RowsInvariance == Spec => []RowsInv
  BY InitRows, StepRows, PTL DEF Spec

\* Type correctness of the tables of results: whatever is recorded, in whatever
\* order, they hold rows of their types, and a completed match has both countries.
THEOREM TypeCorrect == Spec => []TypeOK
<1>1. RowsInv => TypeOK
  BY DEF RowsInv
<1> QED
  BY <1>1, RowsInvariance, PTL

----------------------------------------------------------------------------
(***************************************************************************)
(* The group table                                                         *)
(***************************************************************************)
\* The tally of a country from scratch, over any table of matches.
PlayedIn(t, c) ==
  {m \in Matches : ~IsKnockout(m) /\ Completed(t[m]) /\ c \in {t[m].c1, t[m].c2}}
GoalsIn(t, c, m)    == IF t[m].c1 = c THEN t[m].g1 ELSE t[m].g2
ConcededIn(t, c, m) == IF t[m].c1 = c THEN t[m].g2 ELSE t[m].g1
ConductIn(t, c, m)  == Conduct(IF t[m].c1 = c THEN t[m].cs1 ELSE t[m].cs2)

WonIn(t, c)  == {m \in PlayedIn(t, c) : GoalsIn(t, c, m) > ConcededIn(t, c, m)}
DrewIn(t, c) == {m \in PlayedIn(t, c) : GoalsIn(t, c, m) = ConcededIn(t, c, m)}
GoalsSum(t, c) ==
  Total([m \in PlayedIn(t, c) |-> GoalsIn(t, c, m)], PlayedIn(t, c))
ConcededSum(t, c) ==
  Total([m \in PlayedIn(t, c) |-> ConcededIn(t, c, m)], PlayedIn(t, c))
ConductSum(t, c) ==
  Total([m \in PlayedIn(t, c) |-> ConductIn(t, c, m)], PlayedIn(t, c))

Tally(t, c) ==
  [wins   |-> Cardinality(WonIn(t, c)),
   draws  |-> Cardinality(DrewIn(t, c)),
   losses |-> Cardinality(PlayedIn(t, c)) - Cardinality(WonIn(t, c))
              - Cardinality(DrewIn(t, c)),
   gf     |-> GoalsSum(t, c),
   ga     |-> ConcededSum(t, c),
   gd     |-> GoalsSum(t, c) - ConcededSum(t, c),
   points |-> 3 * Cardinality(WonIn(t, c)) + Cardinality(DrewIn(t, c)),
   cs     |-> ConductSum(t, c)]

TablesAreTallies == \A c \in Countries : standings[c] = Tally(matches, c)

LEMMA TalliesAgree == TablesAreTallies => StandingsAgreeWithMatches
<1> SUFFICES ASSUME TablesAreTallies, NEW c \in Countries
             PROVE  LET won  == {m \in Played(c) : GoalsFor(c, m) > GoalsAgainst(c, m)}
                        drew == {m \in Played(c) : GoalsFor(c, m) = GoalsAgainst(c, m)}
                        gf   == MapThenSumSet(LAMBDA m : GoalsFor(c, m), Played(c))
                        ga   == MapThenSumSet(LAMBDA m : GoalsAgainst(c, m), Played(c))
                        cs   == MapThenSumSet(LAMBDA m : ConductOf(c, m), Played(c))
                    IN  standings[c] =
                          [wins   |-> Cardinality(won),
                           draws  |-> Cardinality(drew),
                           losses |-> Cardinality(Played(c)) - Cardinality(won)
                                      - Cardinality(drew),
                           gf     |-> gf,
                           ga     |-> ga,
                           gd     |-> gf - ga,
                           points |-> 3 * Cardinality(won) + Cardinality(drew),
                           cs     |-> cs]
  BY DEF StandingsAgreeWithMatches
<1>1. /\ Played(c) = PlayedIn(matches, c)
      /\ \A m : /\ GoalsFor(c, m) = GoalsIn(matches, c, m)
                /\ GoalsAgainst(c, m) = ConcededIn(matches, c, m)
                /\ ConductOf(c, m) = ConductIn(matches, c, m)
  BY DEF Played, PlayedIn, GoalsFor, GoalsIn, GoalsAgainst, ConcededIn, ConductOf, ConductIn
<1>2. MapThenSumSet(LAMBDA m : GoalsFor(c, m), Played(c))
      = Total([m \in Played(c) |-> GoalsFor(c, m)], Played(c))
  BY Zenon DEF Total, MapThenSumSet, MapThenFoldSet
<1>3. MapThenSumSet(LAMBDA m : GoalsAgainst(c, m), Played(c))
      = Total([m \in Played(c) |-> GoalsAgainst(c, m)], Played(c))
  BY Zenon DEF Total, MapThenSumSet, MapThenFoldSet
<1>4. MapThenSumSet(LAMBDA m : ConductOf(c, m), Played(c))
      = Total([m \in Played(c) |-> ConductOf(c, m)], Played(c))
  BY Zenon DEF Total, MapThenSumSet, MapThenFoldSet
<1>5. /\ [m \in Played(c) |-> GoalsFor(c, m)]
         = [m \in PlayedIn(matches, c) |-> GoalsIn(matches, c, m)]
      /\ [m \in Played(c) |-> GoalsAgainst(c, m)]
         = [m \in PlayedIn(matches, c) |-> ConcededIn(matches, c, m)]
      /\ [m \in Played(c) |-> ConductOf(c, m)]
         = [m \in PlayedIn(matches, c) |-> ConductIn(matches, c, m)]
  BY <1>1
<1>6. /\ {m \in Played(c) : GoalsFor(c, m) > GoalsAgainst(c, m)} = WonIn(matches, c)
      /\ {m \in Played(c) : GoalsFor(c, m) = GoalsAgainst(c, m)} = DrewIn(matches, c)
  BY <1>1 DEF WonIn, DrewIn
<1>7. standings[c] = Tally(matches, c)
  BY DEF TablesAreTallies
<1> QED
  BY <1>1, <1>2, <1>3, <1>4, <1>5, <1>6, <1>7
     DEF Tally, GoalsSum, ConcededSum, ConductSum

\* A sum over the matches a country has played gains the match it has now played.
LEMMA SumGains ==
  ASSUME NEW P, IsFiniteSet(P), NEW m, m \notin P,
         NEW w, \A n \in P : w[n] \in Int,
         NEW v, v[m] \in Int, \A n \in P : v[n] = w[n]
  PROVE  Total(v, P \cup {m}) = Total(w, P) + v[m] /\ Total(w, P) \in Int
<1>1. Total(v, P \cup {m}) = v[m] + Total(v, P)
  BY TotalWith
<1>2. Total(v, P) = Total(w, P)
  BY TotalAgrees
<1>3. Total(w, P) \in Int
  BY TotalRemove
<1> QED
  BY <1>1, <1>2, <1>3

LEMMA PlayedFinite ==
  ASSUME NEW t, NEW c
  PROVE  /\ IsFiniteSet(PlayedIn(t, c)) /\ Cardinality(PlayedIn(t, c)) \in Nat
         /\ IsFiniteSet(WonIn(t, c)) /\ Cardinality(WonIn(t, c)) \in Nat
         /\ IsFiniteSet(DrewIn(t, c)) /\ Cardinality(DrewIn(t, c)) \in Nat
<1>1. IsFiniteSet(PlayedIn(t, c))
  BY MatchesAssumption, FS_Subset DEF PlayedIn
<1>2. IsFiniteSet(WonIn(t, c)) /\ IsFiniteSet(DrewIn(t, c))
  BY <1>1, FS_Subset DEF WonIn, DrewIn
<1> QED
  BY <1>1, <1>2, FS_CardinalityType

\* What the matches of a country tell of it are numbers.
LEMMA PlayedTypes ==
  ASSUME NEW t \in [Matches -> MatchRow], NEW c
  PROVE  \A m \in PlayedIn(t, c) :
           /\ GoalsIn(t, c, m) \in Nat /\ ConcededIn(t, c, m) \in Nat
           /\ ConductIn(t, c, m) \in Int
  BY ResultType DEF PlayedIn, GoalsIn, ConcededIn, ConductIn

\* A match that is completed credits a country it was played by.
LEMMA TallyCredits ==
  ASSUME NEW t \in [Matches -> MatchRow], NEW v \in [Matches -> MatchRow],
         NEW m \in Matches, ~IsKnockout(m), ~Completed(t[m]), Completed(v[m]),
         \A n \in Matches \ {m} : ~IsKnockout(n) => v[n] = t[n],
         NEW c, c \in {v[m].c1, v[m].c2}
  PROVE  Tally(v, c) =
           Credit(Tally(t, c), GoalsIn(v, c, m), ConcededIn(v, c, m), ConductIn(v, c, m))
<1> DEFINE P == PlayedIn(t, c)
           Q == PlayedIn(v, c)
           g == GoalsIn(v, c, m)
           a == ConcededIn(v, c, m)
           k == ConductIn(v, c, m)
<1>1. Q = P \cup {m} /\ m \notin P /\ P \subseteq Matches
  BY DEF PlayedIn
<1>2. \A n \in P : v[n] = t[n]
  BY DEF PlayedIn
<1>3. g \in Nat /\ a \in Nat /\ k \in Int
  BY <1>1, PlayedTypes
<1>4. \A n \in P : /\ GoalsIn(v, c, n) = GoalsIn(t, c, n)
                   /\ ConcededIn(v, c, n) = ConcededIn(t, c, n)
                   /\ ConductIn(v, c, n) = ConductIn(t, c, n)
  BY <1>2 DEF GoalsIn, ConcededIn, ConductIn
<1>5. IsFiniteSet(P)
  BY PlayedFinite
<1>6. GoalsSum(v, c) = GoalsSum(t, c) + g /\ GoalsSum(t, c) \in Int
  <2> DEFINE w == [n \in P |-> GoalsIn(t, c, n)]
             x == [n \in Q |-> GoalsIn(v, c, n)]
  <2>1. /\ x[m] = g /\ x[m] \in Int
        /\ \A n \in P : w[n] \in Int
        /\ \A n \in P : x[n] = w[n]
    BY <1>1, <1>3, <1>4, PlayedTypes
  <2>2. GoalsSum(v, c) = Total(x, P \cup {m}) /\ GoalsSum(t, c) = Total(w, P)
    BY <1>1 DEF GoalsSum
  <2> HIDE DEF P, Q, w, x, g
  <2>3. Total(x, P \cup {m}) = Total(w, P) + x[m] /\ Total(w, P) \in Int
    BY <1>1, <1>5, <2>1, SumGains
  <2> QED
    BY <2>1, <2>2, <2>3
<1>7. ConcededSum(v, c) = ConcededSum(t, c) + a /\ ConcededSum(t, c) \in Int
  <2> DEFINE w == [n \in P |-> ConcededIn(t, c, n)]
             x == [n \in Q |-> ConcededIn(v, c, n)]
  <2>1. /\ x[m] = a /\ x[m] \in Int
        /\ \A n \in P : w[n] \in Int
        /\ \A n \in P : x[n] = w[n]
    BY <1>1, <1>3, <1>4, PlayedTypes
  <2>2. ConcededSum(v, c) = Total(x, P \cup {m}) /\ ConcededSum(t, c) = Total(w, P)
    BY <1>1 DEF ConcededSum
  <2> HIDE DEF P, Q, w, x, a
  <2>3. Total(x, P \cup {m}) = Total(w, P) + x[m] /\ Total(w, P) \in Int
    BY <1>1, <1>5, <2>1, SumGains
  <2> QED
    BY <2>1, <2>2, <2>3
<1>8. ConductSum(v, c) = ConductSum(t, c) + k /\ ConductSum(t, c) \in Int
  <2> DEFINE w == [n \in P |-> ConductIn(t, c, n)]
             x == [n \in Q |-> ConductIn(v, c, n)]
  <2>1. /\ x[m] = k /\ x[m] \in Int
        /\ \A n \in P : w[n] \in Int
        /\ \A n \in P : x[n] = w[n]
    BY <1>1, <1>3, <1>4, PlayedTypes
  <2>2. ConductSum(v, c) = Total(x, P \cup {m}) /\ ConductSum(t, c) = Total(w, P)
    BY <1>1 DEF ConductSum
  <2> HIDE DEF P, Q, w, x, k
  <2>3. Total(x, P \cup {m}) = Total(w, P) + x[m] /\ Total(w, P) \in Int
    BY <1>1, <1>5, <2>1, SumGains
  <2> QED
    BY <2>1, <2>2, <2>3
<1>9. Cardinality(Q) = Cardinality(P) + 1
  BY <1>1, <1>5, FS_AddElement
<1>10. Cardinality(WonIn(v, c)) = Cardinality(WonIn(t, c)) + One(g > a)
  <2>1. WonIn(v, c) = IF g > a THEN WonIn(t, c) \cup {m} ELSE WonIn(t, c)
    BY <1>1, <1>4 DEF WonIn
  <2>2. IsFiniteSet(WonIn(t, c)) /\ m \notin WonIn(t, c)
    BY <1>1, PlayedFinite DEF WonIn
  <2>3. Cardinality(WonIn(t, c)) \in Nat
    BY PlayedFinite
  <2>4. CASE g > a
    BY <2>1, <2>2, <2>4, FS_AddElement DEF One
  <2>5. CASE ~(g > a)
    BY <2>1, <2>3, <2>5 DEF One
  <2> QED
    BY <2>4, <2>5
<1>11. Cardinality(DrewIn(v, c)) = Cardinality(DrewIn(t, c)) + One(g = a)
  <2>1. DrewIn(v, c) = IF g = a THEN DrewIn(t, c) \cup {m} ELSE DrewIn(t, c)
    BY <1>1, <1>4 DEF DrewIn
  <2>2. IsFiniteSet(DrewIn(t, c)) /\ m \notin DrewIn(t, c)
    BY <1>1, PlayedFinite DEF DrewIn
  <2>3. Cardinality(DrewIn(t, c)) \in Nat
    BY PlayedFinite
  <2>4. CASE g = a
    BY <2>1, <2>2, <2>4, FS_AddElement DEF One
  <2>5. CASE ~(g = a)
    BY <2>1, <2>3, <2>5 DEF One
  <2> QED
    BY <2>4, <2>5
<1>12. One(g < a) = 1 - One(g > a) - One(g = a) /\ One(g > a) \in Nat /\ One(g = a) \in Nat
  BY <1>3 DEF One
<1>13. /\ Cardinality(P) \in Nat /\ Cardinality(WonIn(t, c)) \in Nat
       /\ Cardinality(DrewIn(t, c)) \in Nat
  BY PlayedFinite
<1> HIDE DEF P, Q, g, a, k
<1> DEFINE w == Cardinality(WonIn(t, c))
           d == Cardinality(DrewIn(t, c))
           p == Cardinality(P)
           gs == GoalsSum(t, c)
           as == ConcededSum(t, c)
           ks == ConductSum(t, c)
           ow == One(g > a)
           od == One(g = a)
           ol == One(g < a)
<1>14. /\ Tally(t, c) = [wins |-> w, draws |-> d, losses |-> p - w - d, gf |-> gs,
                         ga |-> as, gd |-> gs - as, points |-> 3 * w + d, cs |-> ks]
       /\ Tally(v, c) = [wins |-> w + ow, draws |-> d + od,
                         losses |-> (p + 1) - (w + ow) - (d + od), gf |-> gs + g,
                         ga |-> as + a, gd |-> (gs + g) - (as + a),
                         points |-> 3 * (w + ow) + (d + od), cs |-> ks + k]
  BY <1>6, <1>7, <1>8, <1>9, <1>10, <1>11 DEF Tally, P, Q
<1>15. Credit(Tally(t, c), g, a, k) =
         [wins |-> w + ow, draws |-> d + od, losses |-> (p - w - d) + ol, gf |-> gs + g,
          ga |-> as + a, gd |-> (gs + g) - (as + a),
          points |-> (3 * w + d) + 3 * ow + od, cs |-> ks + k]
  BY <1>14 DEF Credit
<1>16. /\ (p + 1) - (w + ow) - (d + od) = (p - w - d) + ol
       /\ 3 * (w + ow) + (d + od) = (3 * w + d) + 3 * ow + od
  <2>1. /\ w \in Nat /\ d \in Nat /\ p \in Nat /\ ow \in Nat /\ od \in Nat
        /\ ol = 1 - ow - od
    BY <1>12, <1>13
  <2> HIDE DEF w, d, p, ow, od, ol
  <2> QED
    BY <2>1
<1> QED
  BY <1>14, <1>15, <1>16 DEF g, a, k

\* The tally of a country is of the completed matches it played, and of no other.
LEMMA TallySame ==
  ASSUME NEW t, NEW v, NEW c,
         \A n \in Matches : ~IsKnockout(n) =>
           \/ v[n] = t[n]
           \/ n \notin PlayedIn(t, c) \cup PlayedIn(v, c)
  PROVE  Tally(v, c) = Tally(t, c)
<1>1. PlayedIn(v, c) = PlayedIn(t, c) /\ \A n \in PlayedIn(t, c) : v[n] = t[n]
  BY DEF PlayedIn
<1>2. \A n \in PlayedIn(t, c) : /\ GoalsIn(v, c, n) = GoalsIn(t, c, n)
                                /\ ConcededIn(v, c, n) = ConcededIn(t, c, n)
                                /\ ConductIn(v, c, n) = ConductIn(t, c, n)
  BY <1>1 DEF GoalsIn, ConcededIn, ConductIn
<1>3. WonIn(v, c) = WonIn(t, c) /\ DrewIn(v, c) = DrewIn(t, c)
  BY <1>1, <1>2 DEF WonIn, DrewIn
<1>4. /\ [m \in PlayedIn(v, c) |-> GoalsIn(v, c, m)]
         = [m \in PlayedIn(t, c) |-> GoalsIn(t, c, m)]
      /\ [m \in PlayedIn(v, c) |-> ConcededIn(v, c, m)]
         = [m \in PlayedIn(t, c) |-> ConcededIn(t, c, m)]
      /\ [m \in PlayedIn(v, c) |-> ConductIn(v, c, m)]
         = [m \in PlayedIn(t, c) |-> ConductIn(t, c, m)]
  BY <1>1, <1>2
<1> QED
  BY <1>1, <1>3, <1>4 DEF Tally, GoalsSum, ConcededSum, ConductSum

\* A result of a group match credits the two countries, and no other.
LEMMA GroupResultTallies ==
  ASSUME RowsInv, TablesAreTallies, NEW m \in Matches, NEW new, Writing(m, new),
         RecordGroupResult(m, new), NEW c \in Countries
  PROVE  standings'[c] = Tally(matches', c)
<1>1. /\ matches \in [Matches -> MatchRow] /\ matches' \in [Matches -> MatchRow]
      /\ matches'[m] = new /\ ~Completed(matches[m]) /\ Completed(new) /\ ~IsKnockout(m)
      /\ \A n \in Matches \ {m} : ~IsKnockout(n) => matches'[n] = matches[n]
  BY RowsAfter DEF RowsInv, TypeOK, Writing, Recording, RecordGroupResult
<1>2. new.c1 # new.c2
  BY <1>1, RoundAssumption, FixtureAssumption DEF Writing, RowsInv, IsKnockout
<1>3. /\ standings \in [Countries -> StandingRow] /\ standings[c] = Tally(matches, c)
      /\ standings' = [standings EXCEPT ![new.c1] = CreditFirst(@, new),
                                        ![new.c2] = CreditSecond(@, new)]
  BY DEF RowsInv, TypeOK, RecordGroupResult, TablesAreTallies
<1>4. CASE c = new.c1
  <2>1. standings'[c] = Credit(Tally(matches, c), new.g1, new.g2, Conduct(new.cs1))
    BY <1>2, <1>3, <1>4 DEF CreditFirst
  <2>2. /\ GoalsIn(matches', c, m) = new.g1 /\ ConcededIn(matches', c, m) = new.g2
        /\ ConductIn(matches', c, m) = Conduct(new.cs1)
    BY <1>1, <1>4 DEF GoalsIn, ConcededIn, ConductIn
  <2> QED
    BY <1>1, <1>4, <2>1, <2>2, TallyCredits
<1>5. CASE c = new.c2
  <2>1. standings'[c] = Credit(Tally(matches, c), new.g2, new.g1, Conduct(new.cs2))
    BY <1>2, <1>3, <1>5 DEF CreditSecond
  <2>2. /\ GoalsIn(matches', c, m) = new.g2 /\ ConcededIn(matches', c, m) = new.g1
        /\ ConductIn(matches', c, m) = Conduct(new.cs2)
    BY <1>1, <1>2, <1>5 DEF GoalsIn, ConcededIn, ConductIn
  <2> QED
    BY <1>1, <1>5, <2>1, <2>2, TallyCredits
<1>6. CASE c # new.c1 /\ c # new.c2
  <2>1. standings'[c] = Tally(matches, c)
    BY <1>3, <1>6
  <2>2. m \notin PlayedIn(matches, c) \cup PlayedIn(matches', c)
    BY <1>1, <1>6 DEF PlayedIn
  <2> QED
    BY <1>1, <2>1, <2>2, TallySame
<1> QED
  BY <1>4, <1>5, <1>6

LEMMA StepTallies == RowsInv /\ TablesAreTallies /\ [Next]_vars => TablesAreTallies'
<1> SUFFICES ASSUME RowsInv, TablesAreTallies, [Next]_vars PROVE TablesAreTallies'
  OBVIOUS
<1>1. CASE UNCHANGED vars
  BY <1>1 DEF vars, TablesAreTallies
<1>2. ASSUME NEW m \in Matches, NEW new, Writing(m, new), Recording(m, new),
             NEW c \in Countries
      PROVE  standings'[c] = Tally(matches', c)
  <2>1. CASE RecordGroupResult(m, new)
    BY <1>2, <2>1, GroupResultTallies
  <2>2. CASE RecordFields(m, new) \/ RecordKnockoutResult(m, new)
    <3>1. standings'[c] = Tally(matches, c)
      BY <2>2 DEF RecordFields, RecordKnockoutResult, TablesAreTallies
    <3>2. \A n \in Matches : ~IsKnockout(n) =>
            \/ matches'[n] = matches[n]
            \/ n \notin PlayedIn(matches, c) \cup PlayedIn(matches', c)
      BY <1>2, <2>2, RowsAfter DEF PlayedIn, Writing, RecordFields, RecordKnockoutResult
    <3> QED
      BY <3>1, <3>2, TallySame
  <2> QED
    BY <1>2, <2>1, <2>2 DEF Recording
<1> QED
  BY <1>1, <1>2, StepRecords DEF TablesAreTallies

LEMMA InitTallies == Init => TablesAreTallies
<1> SUFFICES ASSUME Init, NEW c \in Countries PROVE standings[c] = Tally(matches, c)
  BY DEF TablesAreTallies
<1>1. PlayedIn(matches, c) = {} /\ WonIn(matches, c) = {} /\ DrewIn(matches, c) = {}
  BY DEF Init, Unplayed, Completed, PlayedIn, WonIn, DrewIn
<1>2. GoalsSum(matches, c) = 0 /\ ConcededSum(matches, c) = 0 /\ ConductSum(matches, c) = 0
  BY <1>1, TotalEmpty DEF GoalsSum, ConcededSum, ConductSum
<1>3. Cardinality({}) = 0
  BY FS_EmptySet
<1>4. standings[c] = ZeroStanding
  BY DEF Init
<1> QED
  BY <1>1, <1>2, <1>3, <1>4 DEF Tally, ZeroStanding

\* The table of a group is right: wins, draws, losses, goals, points and conduct
\* scores, added up match by match as UpdateMatch does, are at every moment what
\* the completed group matches add up to.  A match is credited when its second
\* score arrives, to the countries it was created with, and never again.
THEOREM StandingsStayRight == Spec => []StandingsAgreeWithMatches
<1>1. RowsInv /\ TablesAreTallies => StandingsAgreeWithMatches
  BY TalliesAgree
<1> QED
  BY <1>1, RowsInvariance, InitTallies, StepTallies, PTL DEF Spec

----------------------------------------------------------------------------
(***************************************************************************)
(* The bracket                                                             *)
(***************************************************************************)
LEMMA HalfAndRest ==
  \A a, b \in Nat : a \div 2 = b \div 2 /\ a % 2 = b % 2 => a = b
  OBVIOUS

\* A slot is filled by one result, and its winner, or its loser, fills one slot.
LEMMA FilledOnce ==
  ASSUME NEW m \in Matches, NEW n \in Matches, NEW slot
  PROVE  /\ \A k \in Matches : Fills(m, n, slot) /\ Fills(k, n, slot) =>
              /\ m = k
              /\ WinnerGoes(m, n, slot) => ~LoserGoes(k, n, slot)
         /\ \A l \in Matches : \A t :
              \/ WinnerGoes(m, n, slot) /\ WinnerGoes(m, l, t)
              \/ LoserGoes(m, n, slot) /\ LoserGoes(m, l, t)
              => n = l /\ slot = t
<1>1. ASSUME NEW k \in Matches, WinnerGoes(m, n, slot), LoserGoes(k, n, slot)
      PROVE  FALSE
  <2>1. Round[m] = 4 /\ Index[n] = Index[m] \div 2 /\ Index[n] = 1
    BY <1>1, RoundAssumption DEF WinnerGoes, LoserGoes, NextMatches, ThirdPlaceMatches
  <2>2. Index[m] \in {0, 1}
    BY <2>1, IndexAssumption
  <2> QED
    BY <2>1, <2>2
<1>2. ASSUME NEW k \in Matches, WinnerGoes(m, n, slot), WinnerGoes(k, n, slot)
      PROVE  m = k
  <2>1. /\ Round[m] \in 1 .. 4 /\ Round[k] \in 1 .. 4 /\ Round[n] = Round[m] + 1
        /\ Round[n] = Round[k] + 1 /\ Index[m] \div 2 = Index[k] \div 2
        /\ Index[m] % 2 = Index[k] % 2
    BY <1>2 DEF WinnerGoes, NextMatches
  <2>2. Round[m] = Round[k] /\ Round[m] > 0
    BY <2>1
  <2>3. Index[m] \in Nat /\ Index[k] \in Nat
    BY <2>2, IndexAssumption
  <2>4. Index[m] = Index[k]
    BY <2>1, <2>3, HalfAndRest
  <2> QED
    BY <2>2, <2>4, IndexAssumption
<1>3. ASSUME NEW k \in Matches, LoserGoes(m, n, slot), LoserGoes(k, n, slot)
      PROVE  m = k
  <2>1. Round[m] = 4 /\ Round[k] = 4 /\ Index[m] = Index[k] /\ 4 > 0
    BY <1>3 DEF LoserGoes, ThirdPlaceMatches
  <2> QED
    BY <2>1, IndexAssumption
<1>4. ASSUME NEW k \in Matches, LoserGoes(m, n, slot), WinnerGoes(k, n, slot)
      PROVE  FALSE
  <2>1. Round[k] = 4 /\ Index[n] = Index[k] \div 2 /\ Index[n] = 1
    BY <1>4, RoundAssumption DEF WinnerGoes, LoserGoes, NextMatches, ThirdPlaceMatches
  <2>2. Index[k] \in {0, 1}
    BY <2>1, IndexAssumption
  <2> QED
    BY <2>1, <2>2
<1>5. ASSUME NEW l \in Matches, NEW t, WinnerGoes(m, n, slot), WinnerGoes(m, l, t)
      PROVE  n = l /\ slot = t
  <2>1. Round[n] = Round[l] /\ Index[n] = Index[l] /\ Round[n] > 0 /\ slot = t
    BY <1>5 DEF WinnerGoes, NextMatches
  <2> QED
    BY <2>1, IndexAssumption
<1>6. ASSUME NEW l \in Matches, NEW t, LoserGoes(m, n, slot), LoserGoes(m, l, t)
      PROVE  n = l /\ slot = t
  <2>1. Round[n] = 5 /\ Round[l] = 5 /\ Index[n] = Index[l] /\ 5 > 0 /\ slot = t
    BY <1>6 DEF LoserGoes, ThirdPlaceMatches
  <2> QED
    BY <2>1, IndexAssumption
<1>7. \A k, l \in Matches : \A t : Fills(k, l, t) <=> WinnerGoes(k, l, t) \/ LoserGoes(k, l, t)
  BY DEF Fills, WinnerGoes, LoserGoes
<1> QED
  BY <1>1, <1>2, <1>3, <1>4, <1>5, <1>6, <1>7

\* A call gives its match countries only in slots that no result fills.
KeepsSlots(m, new) ==
  \A slot \in {0, 1} : IsKnockout(m) =>
    \/ InSlot(new, slot) = InSlot(matches[m], slot)
    \/ ~FilledByResult(m, slot) /\ Enters(InSlot(new, slot), m, slot)

LEMMA CallKeepsSlots ==
  ASSUME CallsLeaveFedSlots, NEW m \in Matches, NEW p \in Payloads,
         m \in Found(matches, p)
  PROVE  KeepsSlots(m, Merge(m, matches[m], p))
<1> SUFFICES ASSUME NEW slot \in {0, 1}, IsKnockout(m),
                    InSlot(p, slot) # Null
             PROVE  ~FilledByResult(m, slot) /\ Enters(InSlot(p, slot), m, slot)
  BY DEF KeepsSlots, InSlot, Merge, KnockoutGiven, Given
<1>1. p.round \in 0 .. 5 /\ Round[m] \in 1 .. 5
  BY PayloadAssumption, RoundAssumption DEF Payload, IsKnockout
<1>2. p.round > 0 /\ p.round = Round[m]
  BY <1>1 DEF Found, ByPosition
<1>3. p.index # Null /\ p.index = Index[m]
  BY <1>2 DEF CallsLeaveFedSlots, Found, ByPosition
<1>4. ~FilledByResult(m, slot)
  BY <1>2, <1>3 DEF CallsLeaveFedSlots
<1> QED
  BY <1>2, <1>3, <1>4 DEF Enters

\* While a match is open, none of the matches its result moves countries to is
\* completed.
LEMMA BelowOpen ==
  ASSUME SlotsInv, NEW m \in Matches, ~Completed(matches[m]),
         NEW n \in Matches, NEW slot, Fills(m, n, slot)
  PROVE  ~Completed(matches[n])
<1>1. slot \in {0, 1} /\ (WinnerGoes(m, n, slot) \/ LoserGoes(m, n, slot))
  BY FillsRound
<1>2. InSlot(matches[n], slot) = Null
  BY <1>1 DEF SlotsInv, SlotsFollow, Decided
<1> QED
  BY <1>2 DEF SlotsInv, RowsInv, HasCountries, InSlot

\* A step touches no completed match, and decides the match it records or none.
LEMMA ResultsStay ==
  ASSUME SlotsInv, NEW m \in Matches, NEW new, Writing(m, new), Recording(m, new)
  PROVE  /\ \A k \in Matches : Completed(matches[k]) => k # m /\ matches'[k] = matches[k]
         /\ \A k \in Matches \ {m} : Decided(k)' <=> Decided(k)
         /\ ~Decided(m)
         /\ Decided(m)' <=> RecordKnockoutResult(m, new)
<1>1. RowsInv /\ TypeOK /\ new \in MatchRow /\ ~Completed(matches[m])
  BY DEF SlotsInv, RowsInv, Writing
<1>2. ASSUME NEW k \in Matches, Completed(matches[k])
      PROVE  k # m /\ matches'[k] = matches[k]
  <2>1. k # m
    BY <1>1, <1>2
  <2>2. CASE ~RecordKnockoutResult(m, new)
    BY <1>1, <2>1, <2>2, RowsAfter
  <2>3. CASE RecordKnockoutResult(m, new)
    <3>1. \A slot \in {0, 1} : ~Fills(m, k, slot)
      BY <1>1, <1>2, BelowOpen
    <3>2. HasCountries(new)
      BY <2>3 DEF Writing, RecordKnockoutResult
    <3> QED
      BY <1>1, <2>1, <2>3, <3>1, <3>2, OtherRows
  <2> QED
    BY <2>1, <2>2, <2>3
<1>3. ASSUME NEW k \in Matches \ {m}
      PROVE  Decided(k)' <=> Decided(k)
  <2>1. SameResult(matches'[k], matches[k])
    BY <1>1, RowsAfter
  <2> QED
    BY <2>1 DEF SameResult, Decided, Completed, HasWinner, FirstWins, SecondWins, OnPenalties
<1>4. matches'[m] = new
  BY <1>1, RowsAfter
<1>5. Decided(m)' <=> IsKnockout(m) /\ Completed(new) /\ HasWinner(new)
  BY <1>4 DEF Decided
<1>6. Decided(m)' <=> RecordKnockoutResult(m, new)
  BY <1>5 DEF Recording, RecordFields, RecordGroupResult, RecordKnockoutResult
<1> QED
  BY <1>1, <1>2, <1>3, <1>6 DEF Decided

\* What a step does to the slots of a knockout match.
LEMMA SlotsAfter ==
  ASSUME SlotsInv, NEW m \in Matches, NEW new, Writing(m, new), Recording(m, new),
         KeepsSlots(m, new), NEW n \in Matches, NEW slot \in {0, 1}, IsKnockout(n)
  PROVE  /\ RecordKnockoutResult(m, new) =>
              /\ WinnerGoes(m, n, slot) => InSlot(matches'[n], slot) = Winner(new)
              /\ LoserGoes(m, n, slot) => InSlot(matches'[n], slot) = Loser(new)
         /\ ~(RecordKnockoutResult(m, new) /\ Fills(m, n, slot)) =>
              \/ InSlot(matches'[n], slot) = InSlot(matches[n], slot)
              \/ ~FilledByResult(n, slot) /\ Enters(InSlot(matches'[n], slot), n, slot)
<1>1. RowsInv /\ TypeOK /\ new \in MatchRow
  BY DEF SlotsInv, RowsInv, Writing
<1>2. CASE n = m
  <2>1. matches'[m] = new
    BY <1>1, RowsAfter
  <2>2. ~Fills(m, m, slot)
    BY FillsRound
  <2> QED
    BY <1>2, <2>1, <2>2 DEF KeepsSlots, Fills, WinnerGoes, LoserGoes
<1>3. CASE n # m /\ ~RecordKnockoutResult(m, new)
  BY <1>1, <1>3, RowsAfter
<1>4. CASE n # m /\ RecordKnockoutResult(m, new)
  <2>1. HasCountries(new)
    BY <1>4 DEF Writing, RecordKnockoutResult
  <2> QED
    BY <1>1, <1>4, <2>1, OtherRows
<1> QED
  BY <1>2, <1>3, <1>4

LEMMA FollowAfter ==
  ASSUME SlotsInv, NEW m \in Matches, NEW new, Writing(m, new), Recording(m, new),
         KeepsSlots(m, new)
  PROVE  SlotsFollow'
<1> SUFFICES ASSUME NEW k \in Matches, NEW n \in Matches, NEW slot \in {0, 1}
             PROVE  /\ WinnerGoes(k, n, slot) => InSlot(matches'[n], slot) =
                         IF Decided(k)' THEN Winner(matches'[k]) ELSE Null
                    /\ LoserGoes(k, n, slot) => InSlot(matches'[n], slot) =
                         IF Decided(k)' THEN Loser(matches'[k]) ELSE Null
  BY DEF SlotsFollow
<1> SUFFICES ASSUME WinnerGoes(k, n, slot) \/ LoserGoes(k, n, slot)
             PROVE  /\ WinnerGoes(k, n, slot) => InSlot(matches'[n], slot) =
                         IF Decided(k)' THEN Winner(matches'[k]) ELSE Null
                    /\ LoserGoes(k, n, slot) => InSlot(matches'[n], slot) =
                         IF Decided(k)' THEN Loser(matches'[k]) ELSE Null
  OBVIOUS
<1>1. Fills(k, n, slot) /\ FilledByResult(n, slot)
  BY DEF Fills, WinnerGoes, LoserGoes, FilledByResult
<1>2. IsKnockout(n)
  BY <1>1, FillsRound
<1>3. RowsInv /\ SlotsFollow
  BY DEF SlotsInv
<1>4. CASE k = m /\ RecordKnockoutResult(m, new)
  <2>1. Decided(k)' /\ matches'[k] = new
    BY <1>3, <1>4, ResultsStay, RowsAfter
  <2> QED
    BY <1>2, <1>4, <2>1, SlotsAfter
<1>5. CASE ~(k = m /\ RecordKnockoutResult(m, new))
  <2>1. Decided(k)' <=> Decided(k)
    BY <1>5, ResultsStay
  <2>2. Decided(k) => matches'[k] = matches[k]
    BY ResultsStay DEF Decided
  <2>3. ~(RecordKnockoutResult(m, new) /\ Fills(m, n, slot))
    BY <1>1, <1>5, FilledOnce
  <2>4. InSlot(matches'[n], slot) = InSlot(matches[n], slot)
    BY <1>1, <1>2, <2>3, SlotsAfter
  <2> QED
    BY <1>3, <2>1, <2>2, <2>4 DEF SlotsFollow
<1> QED
  BY <1>4, <1>5

LEMMA EnteredAfter ==
  ASSUME BracketInv, NEW m \in Matches, NEW new, Writing(m, new), Recording(m, new),
         KeepsSlots(m, new)
  PROVE  SlotsEntered'
<1> SUFFICES ASSUME NEW n \in Matches, NEW slot \in {0, 1}, IsKnockout(n),
                    ~FilledByResult(n, slot), InSlot(matches'[n], slot) # Null
             PROVE  Enters(InSlot(matches'[n], slot), n, slot)
  BY DEF SlotsEntered, Enters
<1>1. ~Fills(m, n, slot)
  BY DEF FilledByResult
<1>2. SlotsInv
  BY DEF BracketInv
<1>3. \/ InSlot(matches'[n], slot) = InSlot(matches[n], slot)
      \/ Enters(InSlot(matches'[n], slot), n, slot)
  BY <1>1, <1>2, SlotsAfter
<1> QED
  BY <1>3 DEF BracketInv, SlotsEntered

LEMMA InitBracket == Init => BracketInv
<1> SUFFICES ASSUME Init PROVE BracketInv
  OBVIOUS
<1>1. \A m \in Matches : ~Decided(m)
  BY DEF Init, Unplayed, Decided, Completed
<1>2. \A n \in Matches : \A slot : InSlot(matches[n], slot) = InSlot(Fixtures[n], slot)
  BY DEF Init, Unplayed, InSlot
<1>3. SlotsFollow
  BY <1>1, <1>2, SlotAssumption DEF SlotsFollow, Fills, WinnerGoes, LoserGoes
<1>4. SlotsEntered
  BY <1>2 DEF SlotsEntered, Enters
<1> QED
  BY <1>3, <1>4, InitRows DEF BracketInv, SlotsInv

\* A call that records anything, under the hypothesis on the callers.
LEMMA StepKeepsSlots ==
  ASSUME CallsLeaveFedSlots, RowsInv, [Next]_vars
  PROVE  \/ UNCHANGED vars
         \/ \E m \in Matches, new \in MatchRow :
              Writing(m, new) /\ Recording(m, new) /\ KeepsSlots(m, new)
  BY StepRecords, CallKeepsSlots DEF Writing

LEMMA StepBracket ==
  ASSUME CallsLeaveFedSlots
  PROVE  BracketInv /\ [Next]_vars => BracketInv'
<1> SUFFICES ASSUME BracketInv, [Next]_vars PROVE BracketInv'
  OBVIOUS
<1>1. SlotsInv /\ RowsInv /\ RowsInv'
  BY StepRows DEF BracketInv, SlotsInv
<1>2. CASE UNCHANGED vars
  BY <1>1, <1>2 DEF vars, BracketInv, SlotsInv, SlotsFollow, SlotsEntered, Decided, Enters
<1>3. ASSUME NEW m \in Matches, NEW new, Writing(m, new), Recording(m, new),
             KeepsSlots(m, new)
      PROVE  BracketInv'
  BY <1>1, <1>3, FollowAfter, EnteredAfter DEF BracketInv, SlotsInv
<1> QED
  BY <1>1, <1>2, <1>3, StepKeepsSlots

LEMMA BracketInvariance ==
  ASSUME CallsLeaveFedSlots
  PROVE  Spec => []BracketInv
<1>1. Init => BracketInv
  BY InitBracket
<1>2. BracketInv /\ [Next]_vars => BracketInv'
  BY StepBracket
<1> QED
  BY <1>1, <1>2, PTL DEF Spec

\* The bracket shows the results: the slot below a match is empty until the match
\* is decided and holds its winner from then on (its loser, in the third-place
\* match), on the side its index gives; no other result, and no call that keeps to
\* the hypothesis, writes there.
THEOREM BracketStaysRight ==
  ASSUME CallsLeaveFedSlots
  PROVE  Spec => []BracketFollowsResults
<1>1. ASSUME SlotsFollow, NEW m \in Matches
      PROVE  /\ \A n \in NextMatches(m) :
                  (IF Index[m] % 2 = 0 THEN matches[n].c1 ELSE matches[n].c2)
                    = IF Decided(m) THEN Winner(matches[m]) ELSE Null
             /\ \A n \in ThirdPlaceMatches(m) :
                  (IF Index[m] = 0 THEN matches[n].c1 ELSE matches[n].c2)
                    = IF Decided(m) THEN Loser(matches[m]) ELSE Null
  <2>1. \A n \in NextMatches(m) : n \in Matches /\ WinnerGoes(m, n, Index[m] % 2)
                                  /\ Index[m] % 2 \in {0, 1}
    BY FillsRound DEF WinnerGoes, NextMatches, Fills
  <2>2. \A n \in ThirdPlaceMatches(m) : n \in Matches /\ LoserGoes(m, n, Index[m])
                                        /\ Index[m] \in {0, 1}
    BY FillsRound DEF LoserGoes, ThirdPlaceMatches, Fills
  <2> QED
    BY <1>1, <2>1, <2>2 DEF SlotsFollow, InSlot
<1>2. BracketInv => BracketFollowsResults
  BY <1>1 DEF BracketInv, SlotsInv, BracketFollowsResults
<1> QED
  BY <1>2, BracketInvariance, PTL

\* A completed match keeps its result: UpdateMatch refuses it, and a winner that is
\* moved on never lands in a match that has been completed without it.
THEOREM ResultsStayFinal ==
  ASSUME CallsLeaveFedSlots
  PROVE  Spec => ResultsAreFinal
<1>1. ASSUME BracketInv, [Next]_vars, NEW k \in Matches, Completed(matches[k])
      PROVE  matches'[k] = matches[k]
  <2>1. SlotsInv /\ RowsInv
    BY <1>1 DEF BracketInv, SlotsInv
  <2>2. ASSUME NEW m \in Matches, NEW new, Writing(m, new), Recording(m, new)
        PROVE  matches'[k] = matches[k]
    BY <1>1, <2>1, <2>2, ResultsStay
  <2> QED
    BY <1>1, <2>1, <2>2, StepKeepsSlots DEF vars
<1>2. BracketInv /\ [Next]_vars =>
        [\A m \in Matches : Completed(matches[m]) => matches'[m] = matches[m]]_vars
  BY <1>1
<1> QED
  BY <1>2, BracketInvariance, PTL DEF Spec, ResultsAreFinal

----------------------------------------------------------------------------
(***************************************************************************)
(* Knockout scores                                                         *)
(***************************************************************************)
\* The decided matches a user predicted, and what a match is worth.
Hits(u) ==
  {m \in Matches : Decided(m) /\ <<u, Winner(matches[m]), Achieved(m)>> \in Picks}
WorthOf == [m \in Matches |-> Worth(m)]

ScoresAreHits == \A u \in Users : knockoutScore[u] = Total(WorthOf, Hits(u))

LEMMA HitSums == ScoresAreHits => KnockoutScoresExact
<1> SUFFICES ASSUME NEW u \in Users
             PROVE  MapThenSumSet(Worth, Hits(u)) = Total(WorthOf, Hits(u))
  BY DEF ScoresAreHits, KnockoutScoresExact, Hits
<1> DEFINE S == Hits(u)
           w == [m \in S |-> Worth(m)]
<1>1. MapThenSumSet(Worth, S) = Total(w, S)
  BY Zenon DEF Total, MapThenSumSet, MapThenFoldSet
<1>2. IsFiniteSet(S) /\ \A m \in S : w[m] = WorthOf[m]
  BY MatchesAssumption, FS_Subset DEF Hits, WorthOf
<1> HIDE DEF S, w
<1>3. Total(w, S) = Total(WorthOf, S)
  BY <1>2, TotalAgrees
<1> QED
  BY <1>1, <1>3 DEF S

\* What is paid for a match is what it is worth.
LEMMA AwardIsWorth ==
  ASSUME NEW m \in Matches, IsKnockout(m)
  PROVE  Worth(m) = AwardPoints(Achieved(m)) /\ Worth(m) \in Nat
<1>1. Round[m] \in {1, 2, 3, 4, 5}
  BY RoundAssumption DEF IsKnockout
<1>2. Round[m] = 5 => Index[m] \in {0, 1}
  BY IndexAssumption
<1> QED
  BY <1>1, <1>2 DEF Worth, Achieved, AchievedRound, AwardPoints

LEMMA StepScores ==
  ASSUME SlotsInv, ScoresAreHits, NEW m \in Matches, NEW new, Writing(m, new),
         Recording(m, new)
  PROVE  ScoresAreHits'
<1> SUFFICES ASSUME NEW u \in Users
             PROVE  knockoutScore'[u] = Total(WorthOf, Hits(u)')
  BY DEF ScoresAreHits
<1>1. /\ \A k \in Matches : Completed(matches[k]) => k # m /\ matches'[k] = matches[k]
      /\ \A k \in Matches \ {m} : Decided(k)' <=> Decided(k)
      /\ ~Decided(m) /\ (Decided(m)' <=> RecordKnockoutResult(m, new))
      /\ matches'[m] = new
  BY ResultsStay, RowsAfter DEF SlotsInv
<1>2. \A k \in Matches : Decided(k) => matches'[k] = matches[k]
  BY <1>1 DEF Decided
<1>3. m \notin Hits(u) /\ \A k \in Hits(u) : k \in Matches /\ IsKnockout(k)
  BY <1>1 DEF Hits, Decided
<1>4. knockoutScore[u] = Total(WorthOf, Hits(u))
  BY DEF ScoresAreHits
<1>5. CASE ~RecordKnockoutResult(m, new)
  <2>1. knockoutScore'[u] = knockoutScore[u]
    BY <1>5 DEF Recording, RecordFields, RecordGroupResult
  <2>2. Hits(u)' = Hits(u)
    BY <1>1, <1>2, <1>5 DEF Hits
  <2> QED
    BY <1>4, <2>1, <2>2
<1>6. CASE RecordKnockoutResult(m, new)
  <2> DEFINE hit == <<u, Winner(new), Achieved(m)>> \in Picks
  <2>1. Hits(u)' = IF hit THEN Hits(u) \cup {m} ELSE Hits(u)
    BY <1>1, <1>2, <1>6 DEF Hits
  <2>2. knockoutScore'[u] = IF hit THEN knockoutScore[u] + AwardPoints(Achieved(m))
                                   ELSE knockoutScore[u]
    BY <1>6 DEF RecordKnockoutResult, Pickers
  <2>3. WorthOf[m] = AwardPoints(Achieved(m)) /\ WorthOf[m] \in Int
    BY <1>6, AwardIsWorth DEF WorthOf, RecordKnockoutResult
  <2>4. \A k \in Hits(u) : WorthOf[k] \in Int
    BY <1>3, AwardIsWorth DEF WorthOf
  <2>5. IsFiniteSet(Hits(u))
    BY MatchesAssumption, FS_Subset DEF Hits
  <2>6. /\ Total(WorthOf, Hits(u) \cup {m}) = Total(WorthOf, Hits(u)) + WorthOf[m]
        /\ Total(WorthOf, Hits(u)) \in Int
    <3> DEFINE P == Hits(u)
    <3>1. P = Hits(u)
      OBVIOUS
    <3> HIDE DEF P
    <3> QED
      BY <1>3, <2>3, <2>4, <2>5, <3>1, SumGains
  <2> QED
    BY <1>4, <2>1, <2>2, <2>3, <2>6
<1> QED
  BY <1>5, <1>6

LEMMA InitScores == Init => ScoresAreHits
<1> SUFFICES ASSUME Init, NEW u \in Users
             PROVE  knockoutScore[u] = Total(WorthOf, Hits(u))
  BY DEF ScoresAreHits
<1>1. Hits(u) = {}
  BY DEF Init, Unplayed, Hits, Decided, Completed
<1> QED
  BY <1>1, TotalEmpty DEF Init

\* Knockout scores are right: the score of a user is at every moment the sum of what
\* the decided matches are worth whose winner the user predicted for the round it
\* achieved; each is paid in the step that decides it, at its value, once.
THEOREM KnockoutScoresStayExact ==
  ASSUME CallsLeaveFedSlots
  PROVE  Spec => []KnockoutScoresExact
<1>1. BracketInv /\ ScoresAreHits /\ [Next]_vars => ScoresAreHits'
  <2> SUFFICES ASSUME BracketInv, ScoresAreHits, [Next]_vars PROVE ScoresAreHits'
    OBVIOUS
  <2>1. SlotsInv /\ RowsInv
    BY DEF BracketInv, SlotsInv
  <2>2. CASE UNCHANGED vars
    BY <2>2 DEF vars, ScoresAreHits, Hits, Decided
  <2> QED
    BY <2>1, <2>2, StepKeepsSlots, StepScores
<1>2. ScoresAreHits => KnockoutScoresExact
  BY HitSums
<1> QED
  BY <1>1, <1>2, InitScores, BracketInvariance, PTL DEF Spec

----------------------------------------------------------------------------
(***************************************************************************)
(* The path of a country through the bracket                               *)
(***************************************************************************)
Holds(c, n, slot) == slot \in {0, 1} /\ InSlot(matches[n], slot) = c
Plays(c, n) == IsKnockout(n) /\ \E slot \in {0, 1} : Holds(c, n, slot)

\* A result of m has moved the country to a slot of n.
MovedBy(c, m, n, slot) ==
  \/ WinnerGoes(m, n, slot) /\ c = Winner(matches[m])
  \/ LoserGoes(m, n, slot) /\ c = Loser(matches[m])

\* No country holds two slots of the matches of a round.
Apart(k) ==
  \A c \in Countries, m, n \in Matches, s, t \in {0, 1} :
    Round[m] = k /\ Round[n] = k /\ Holds(c, m, s) /\ Holds(c, n, t) => m = n /\ s = t

\* Whoever plays in a round has entered the bracket in it or before it.
Entered(k) ==
  \A c \in Countries, m \in Matches :
    Round[m] <= k /\ Plays(c, m) =>
      \E l \in Matches, slot \in {0, 1} : Enters(c, l, slot) /\ Round[l] <= k

\* Whoever plays in a round has no match before it that is still open.
Passed(k) ==
  \A c \in Countries, m, n \in Matches :
    Round[n] = k /\ Round[m] < k /\ Plays(c, m) /\ Plays(c, n) => Decided(m)

\* How a country came to a slot.
LEMMA CameFrom ==
  ASSUME BracketInv, NEW c \in Countries, NEW n \in Matches, IsKnockout(n),
         NEW slot \in {0, 1}, Holds(c, n, slot)
  PROVE  \/ Enters(c, n, slot)
         \/ \E m \in Matches :
              /\ Fills(m, n, slot) /\ Decided(m) /\ Plays(c, m)
              /\ MovedBy(c, m, n, slot)
<1>1. InSlot(matches[n], slot) = c /\ c # Null
  BY NullAssumption DEF Holds
<1>2. CASE ~FilledByResult(n, slot)
  BY <1>1, <1>2 DEF BracketInv, SlotsEntered
<1>3. CASE FilledByResult(n, slot)
  <2>1. PICK m \in Matches : Fills(m, n, slot)
    BY <1>3 DEF FilledByResult
  <2>2. IsKnockout(m) /\ (WinnerGoes(m, n, slot) \/ LoserGoes(m, n, slot))
    BY <2>1, FillsRound
  <2>3. /\ Decided(m)
        /\ MovedBy(c, m, n, slot)
    BY <1>1, <2>2 DEF BracketInv, SlotsInv, SlotsFollow, MovedBy
  <2>4. c \in {matches[m].c1, matches[m].c2}
    BY <2>3, WinnerOrLoser DEF MovedBy
  <2>5. Plays(c, m)
    BY <2>2, <2>4 DEF Plays, Holds, InSlot
  <2> QED
    BY <2>1, <2>3, <2>5
<1> QED
  BY <1>2, <1>3

\* Nothing fills the slots of the first round.
LEMMA FirstRound ==
  ASSUME BracketInv, CountriesEnterOnce
  PROVE  Apart(1) /\ Entered(1) /\ Passed(1)
<1>1. ASSUME NEW c \in Countries, NEW n \in Matches, NEW slot \in {0, 1},
             Round[n] = 1, Holds(c, n, slot)
      PROVE  Enters(c, n, slot)
  <2>1. IsKnockout(n) /\ \A m \in Matches : ~Fills(m, n, slot)
    BY <1>1, FillsRound DEF IsKnockout
  <2> QED
    BY <1>1, <2>1, CameFrom
<1>2. Apart(1)
  BY <1>1 DEF Apart, CountriesEnterOnce
<1>3. Entered(1)
  <2>1. ASSUME NEW c \in Countries, NEW m \in Matches, Round[m] <= 1, Plays(c, m)
        PROVE  Round[m] = 1 /\ \E slot \in {0, 1} : Enters(c, m, slot)
    <3>1. Round[m] = 1
      BY <2>1, RoundAssumption DEF Plays, IsKnockout
    <3> QED
      BY <1>1, <2>1, <3>1 DEF Plays
  <2> QED
    BY <2>1 DEF Entered
<1>4. Passed(1)
  BY RoundAssumption DEF Passed, Plays, IsKnockout
<1> QED
  BY <1>2, <1>3, <1>4

LEMMA NextRound ==
  ASSUME BracketInv, CountriesEnterOnce, NEW k \in 1 .. 4,
         Apart(k), Entered(k), Passed(k)
  PROVE  Apart(k + 1) /\ Entered(k + 1) /\ Passed(k + 1)
<1>1. \A m \in Matches : Round[m] \in 0 .. 5
  BY RoundAssumption
\* A country that enters in the next round has not played before.
<1>2. ASSUME NEW c \in Countries, NEW n \in Matches, NEW slot \in {0, 1},
             Round[n] = k + 1, Enters(c, n, slot), NEW m \in Matches, Round[m] <= k,
             Plays(c, m)
      PROVE  FALSE
  <2>1. PICK l \in Matches, t \in {0, 1} : Enters(c, l, t) /\ Round[l] <= k
    BY <1>2 DEF Entered
  <2>2. l = n
    BY <1>2, <2>1 DEF CountriesEnterOnce
  <2> QED
    BY <1>1, <1>2, <2>1, <2>2
<1> k <= k
  OBVIOUS
\* A country in the next round has entered there, or comes from a match before it.
<1>3. ASSUME NEW c \in Countries, NEW n \in Matches, NEW slot \in {0, 1},
             Round[n] = k + 1, Holds(c, n, slot)
      PROVE  \/ Enters(c, n, slot)
             \/ \E m \in Matches :
                  /\ Round[m] = k /\ Decided(m) /\ Plays(c, m)
                  /\ MovedBy(c, m, n, slot)
  <2>1. IsKnockout(n)
    BY <1>3 DEF IsKnockout
  <2>2. CASE Enters(c, n, slot)
    BY <2>2
  <2>3. ASSUME NEW m \in Matches, Fills(m, n, slot)
        PROVE  Round[m] = k
    BY <1>1, <1>3, <2>3, FillsRound
  <2> QED
    BY <1>3, <2>1, <2>2, <2>3, CameFrom
<1>4. ASSUME NEW c \in Countries, NEW m \in Matches, NEW n \in Matches,
             Round[m] = k, Round[n] = k, Plays(c, m), Plays(c, n)
      PROVE  m = n /\ matches[m].c1 # matches[m].c2
  BY <1>4 DEF Apart, Plays, Holds, InSlot
<1>5. ASSUME NEW c \in Countries, NEW m \in Matches, NEW n \in Matches,
             NEW s \in {0, 1}, NEW t \in {0, 1},
             Round[m] = k + 1, Round[n] = k + 1, Holds(c, m, s), Holds(c, n, t)
      PROVE  m = n /\ s = t
  <2>1. CASE Enters(c, m, s) /\ Enters(c, n, t)
    BY <2>1 DEF CountriesEnterOnce
  <2>2. CASE ~Enters(c, m, s) /\ ~Enters(c, n, t)
    <3>1. PICK l \in Matches :
            /\ Round[l] = k /\ Plays(c, l)
            /\ MovedBy(c, l, m, s)
      BY <1>3, <1>5, <2>2
    <3>2. PICK j \in Matches :
            /\ Round[j] = k /\ Plays(c, j)
            /\ MovedBy(c, j, n, t)
      BY <1>3, <1>5, <2>2
    <3>3. l = j /\ matches[l].c1 # matches[l].c2
      BY <1>4, <3>1, <3>2
    <3>4. Winner(matches[l]) # Loser(matches[l])
      BY <3>3 DEF Winner, Loser
    <3> QED
      BY <3>1, <3>2, <3>3, <3>4, FilledOnce DEF MovedBy
  <2>3. CASE Enters(c, m, s) /\ ~Enters(c, n, t)
    BY <1>2, <1>3, <1>5, <2>3
  <2>4. CASE ~Enters(c, m, s) /\ Enters(c, n, t)
    BY <1>2, <1>3, <1>5, <2>4
  <2> QED
    BY <2>1, <2>2, <2>3, <2>4
<1>6. ASSUME NEW c \in Countries, NEW m \in Matches, Round[m] <= k + 1, Plays(c, m)
      PROVE  \E l \in Matches, slot \in {0, 1} : Enters(c, l, slot) /\ Round[l] <= k + 1
  <2>1. PICK slot \in {0, 1} : Holds(c, m, slot)
    BY <1>6 DEF Plays
  <2>2. CASE Enters(c, m, slot)
    BY <1>6, <2>2
  <2>3. ASSUME NEW j \in Matches, Round[j] <= k, Plays(c, j)
        PROVE  \E l \in Matches, t \in {0, 1} : Enters(c, l, t) /\ Round[l] <= k + 1
    <3>1. PICK l \in Matches, t \in {0, 1} : Enters(c, l, t) /\ Round[l] <= k
      BY <2>3 DEF Entered
    <3>2. Round[l] <= k + 1
      BY <1>1, <3>1
    <3> QED
      BY <3>1, <3>2
  <2>4. \A n \in {k} : n <= k
    OBVIOUS
  <2>5. Round[m] = k + 1 \/ Round[m] <= k
    BY <1>1, <1>6
  <2> QED
    BY <1>3, <1>6, <2>1, <2>2, <2>3, <2>4, <2>5
<1>7. ASSUME NEW c \in Countries, NEW m \in Matches, NEW n \in Matches,
             Round[n] = k + 1, Round[m] < k + 1, Plays(c, m), Plays(c, n)
      PROVE  Decided(m)
  <2>1. PICK slot \in {0, 1} : Holds(c, n, slot)
    BY <1>7 DEF Plays
  <2>2. CASE Enters(c, n, slot)
    <3>1. Round[m] <= k /\ Round[m] \in 1 .. 5
      BY <1>1, <1>7 DEF Plays, IsKnockout
    <3> QED
      BY <1>2, <1>7, <2>2, <3>1
  <2>3. ASSUME NEW j \in Matches, Round[j] = k, Plays(c, j), Decided(j)
        PROVE  Decided(m)
    <3>1. CASE Round[m] = k
      BY <1>4, <1>7, <2>3, <3>1
    <3>2. CASE Round[m] < k
      BY <1>7, <2>3, <3>2 DEF Passed
    <3>3. Round[m] = k \/ Round[m] < k
      BY <1>1, <1>7
    <3> QED
      BY <3>1, <3>2, <3>3
  <2> QED
    BY <1>3, <1>7, <2>1, <2>2, <2>3
<1> QED
  BY <1>5, <1>6, <1>7 DEF Apart, Entered, Passed

\* Whoever plays in a round plays where it entered the bracket, and no longer waits
\* there for the result.
Began(k) ==
  \A c \in Countries, n \in Matches :
    Round[n] = k /\ Plays(c, n) =>
      \E l \in Matches, slot \in {0, 1} :
        Enters(c, l, slot) /\ Plays(c, l) /\ (l = n \/ Decided(l))

LEMMA BeganThere ==
  ASSUME BracketInv, NEW k \in 1 .. 5, k = 1 \/ Began(k - 1)
  PROVE  Began(k)
<1> SUFFICES ASSUME NEW c \in Countries, NEW n \in Matches, Round[n] = k, Plays(c, n)
             PROVE  \E l \in Matches, slot \in {0, 1} :
                      Enters(c, l, slot) /\ Plays(c, l) /\ (l = n \/ Decided(l))
  BY DEF Began
<1>1. PICK slot \in {0, 1} : Holds(c, n, slot)
  BY DEF Plays
<1>2. CASE Enters(c, n, slot)
  BY <1>2
<1>3. ASSUME NEW m \in Matches, Fills(m, n, slot), Decided(m), Plays(c, m)
      PROVE  \E l \in Matches, t \in {0, 1} :
               Enters(c, l, t) /\ Plays(c, l) /\ (l = n \/ Decided(l))
  <2>1. Round[m] = k - 1 /\ k # 1
    BY <1>3, FillsRound
  <2> QED
    BY <1>3, <2>1 DEF Began
<1>4. IsKnockout(n)
  BY DEF Plays
<1> QED
  BY <1>1, <1>2, <1>3, <1>4, CameFrom

\* The path of every country, in all five rounds.
Paths == \A k \in 1 .. 5 : Apart(k) /\ Passed(k) /\ Began(k)

LEMMA PathsHold ==
  ASSUME CountriesEnterOnce
  PROVE  BracketInv => Paths
<1> SUFFICES ASSUME BracketInv PROVE Paths
  OBVIOUS
<1>1. Apart(1) /\ Entered(1) /\ Passed(1)
  BY FirstRound
<1>2. Apart(2) /\ Entered(2) /\ Passed(2)
  <2>1. 1 \in 1 .. 4 /\ 1 + 1 = 2
    OBVIOUS
  <2> QED
    BY <1>1, <2>1, NextRound
<1>3. Apart(3) /\ Entered(3) /\ Passed(3)
  <2>1. 2 \in 1 .. 4 /\ 2 + 1 = 3
    OBVIOUS
  <2> QED
    BY <1>2, <2>1, NextRound
<1>4. Apart(4) /\ Entered(4) /\ Passed(4)
  <2>1. 3 \in 1 .. 4 /\ 3 + 1 = 4
    OBVIOUS
  <2> QED
    BY <1>3, <2>1, NextRound
<1>5. Apart(5) /\ Entered(5) /\ Passed(5)
  <2>1. 4 \in 1 .. 4 /\ 4 + 1 = 5
    OBVIOUS
  <2> QED
    BY <1>4, <2>1, NextRound
<1>6. Began(1)
  <2>1. 1 \in 1 .. 5
    OBVIOUS
  <2> QED
    BY <2>1, BeganThere
<1>7. \A k \in 2 .. 5 : Began(k - 1) => Began(k)
  <2>1. \A k \in 2 .. 5 : k \in 1 .. 5
    OBVIOUS
  <2> QED
    BY <2>1, BeganThere
<1>8. Began(2) /\ Began(3) /\ Began(4) /\ Began(5)
  <2>1. /\ \A k \in {2, 3, 4, 5} : k \in 2 .. 5
        /\ 2 - 1 = 1 /\ 3 - 1 = 2 /\ 4 - 1 = 3 /\ 5 - 1 = 4
    OBVIOUS
  <2> QED
    BY <1>6, <1>7, <2>1
<1>9. \A k \in 1 .. 5 : k \in {1, 2, 3, 4, 5}
  OBVIOUS
<1> QED
  BY <1>1, <1>2, <1>3, <1>4, <1>5, <1>6, <1>8, <1>9 DEF Paths

\* A country plays at most one match of a round: it cannot meet itself, nor be in
\* the final and in the third-place match, however results and calls are ordered.
THEOREM CountriesPlayOnce ==
  ASSUME CallsLeaveFedSlots, CountriesEnterOnce
  PROVE  Spec => []OneMatchPerRound
<1>1. Paths => OneMatchPerRound
  <2> SUFFICES ASSUME Paths, NEW m \in Matches, NEW n \in Matches, NEW c \in Countries,
                      IsKnockout(m), Round[m] = Round[n], m # n,
                      c \in {matches[m].c1, matches[m].c2}
               PROVE  /\ c \notin {matches[n].c1, matches[n].c2}
                      /\ matches[m].c1 # matches[m].c2
    BY DEF OneMatchPerRound
  <2>1. Round[m] \in 1 .. 5
    BY RoundAssumption DEF IsKnockout
  <2>2. Apart(Round[m])
    BY <2>1 DEF Paths
  <2> QED
    BY <2>2 DEF Apart, Holds, InSlot
<1> QED
  BY <1>1, PathsHold, BracketInvariance, PTL

----------------------------------------------------------------------------
(***************************************************************************)
(* The furthest round                                                      *)
(***************************************************************************)
\* A decided match of the country took it to round r.
TookTo(c, r) ==
  \E m \in Matches :
    /\ Decided(m)
    /\ \/ r = Achieved(m) /\ Winner(matches[m]) = c
       \/ r = 5 /\ Round[m] = 4 /\ Loser(matches[m]) = c

\* 0 stands for no row of knockout_standings.
Furthest(c, f) ==
  /\ f = 0 \/ TookTo(c, f)
  /\ \A r \in 0 .. 7 : TookTo(c, r) => r <= f

FurthestSoFar ==
  \A c \in Countries : \E f \in 0 .. 7 : reached[c] = f /\ Furthest(c, f)

LEMMA FurthestIsMax == FurthestSoFar => ReachedIsFurthest
<1> SUFFICES ASSUME FurthestSoFar, NEW c \in Countries
             PROVE  reached[c] =
                      Max({0}
                          \cup {Achieved(m) : m \in {k \in Matches :
                                  Decided(k) /\ Winner(matches[k]) = c}}
                          \cup {5 : m \in {k \in Matches :
                                  Decided(k) /\ Round[k] = 4 /\ Loser(matches[k]) = c}})
  BY DEF ReachedIsFurthest
<1> DEFINE S == {0}
                \cup {Achieved(m) : m \in {k \in Matches :
                        Decided(k) /\ Winner(matches[k]) = c}}
                \cup {5 : m \in {k \in Matches :
                        Decided(k) /\ Round[k] = 4 /\ Loser(matches[k]) = c}}
<1>1. \A r : r \in S <=> r = 0 \/ TookTo(c, r)
  BY DEF TookTo
<1>2. S \subseteq 0 .. 7
  <2>1. \A r \in 1 .. 7 : r \in 0 .. 7
    OBVIOUS
  <2>2. 0 \in 0 .. 7 /\ 5 \in 0 .. 7
    OBVIOUS
  <2> QED
    BY <2>1, <2>2, AchievedType
<1> HIDE DEF S
<1>3. reached[c] \in S /\ \A r \in S : reached[c] >= r
  BY <1>1, <1>2 DEF FurthestSoFar, Furthest
<1>4. ASSUME NEW x \in S, \A y \in S : x >= y PROVE x = reached[c]
  <2>1. x \in 0 .. 7 /\ reached[c] \in 0 .. 7
    BY <1>2, <1>3
  <2>2. x >= reached[c] /\ reached[c] >= x
    BY <1>3, <1>4
  <2> QED
    BY <2>1, <2>2
<1> QED
  BY <1>3, <1>4 DEF Max, S

\* When a match is decided, the matches of its two countries decided before are of
\* earlier rounds, and the countries are two.
LEMMA EarlierRounds ==
  ASSUME CountriesEnterOnce, BracketInv, Paths, Paths',
         NEW m \in Matches, NEW new, Writing(m, new), KeepsSlots(m, new),
         RecordKnockoutResult(m, new), NEW c \in {new.c1, new.c2}
  PROVE  /\ new.c1 # new.c2
         /\ \A k \in Matches :
              Decided(k) /\ c \in {matches[k].c1, matches[k].c2} => Round[k] < Round[m]
<1>1. /\ \A k \in Matches : Completed(matches[k]) => k # m /\ matches'[k] = matches[k]
      /\ matches'[m] = new /\ ~Decided(m)
  BY ResultsStay, RowsAfter DEF BracketInv, SlotsInv, Recording
<1>2. IsKnockout(m) /\ Round[m] \in 1 .. 5 /\ new \in MatchRow /\ HasCountries(new)
  BY RoundAssumption DEF Writing, RecordKnockoutResult, IsKnockout
<1>3. new.c1 \in Countries /\ new.c2 \in Countries /\ c \in Countries
  BY <1>2 DEF HasCountries, MatchRow, Slot
<1>4. Apart(Round[m])'
  BY <1>2 DEF Paths
<1>5. new.c1 # new.c2
  BY <1>1, <1>2, <1>3, <1>4 DEF Apart, Holds, InSlot
<1>6. ASSUME NEW k \in Matches, Decided(k), c \in {matches[k].c1, matches[k].c2}
      PROVE  Round[k] < Round[m]
  <2>1. k # m /\ matches'[k] = matches[k] /\ IsKnockout(k) /\ Round[k] \in 1 .. 5
    BY <1>1, <1>6, RoundAssumption DEF Decided, IsKnockout
  <2>2. Round[k] # Round[m]
    BY <1>1, <1>3, <1>4, <1>6, <2>1 DEF Apart, Holds, InSlot
  <2>3. Plays(c, k)
    BY <1>6, <2>1 DEF Plays, Holds, InSlot
  <2>4. PICK slot \in {0, 1} : InSlot(new, slot) = c
    BY DEF InSlot
  <2>5. CASE InSlot(matches[m], slot) = c
    <3>1. Plays(c, m)
      BY <1>2, <2>5 DEF Plays, Holds
    <3>2. ~(Round[m] < Round[k])
      BY <1>1, <1>3, <2>1, <2>3, <3>1 DEF Paths, Passed
    <3> QED
      BY <1>2, <2>1, <2>2, <3>2
  <2>6. CASE Enters(c, m, slot)
    <3>1. PICK l \in Matches, t \in {0, 1} :
            Enters(c, l, t) /\ (l = k \/ Decided(l))
      BY <1>3, <2>1, <2>3 DEF Paths, Began
    <3>2. l = m
      BY <1>3, <2>6, <3>1 DEF CountriesEnterOnce
    <3> QED
      BY <1>1, <2>1, <3>1, <3>2
  <2> QED
    BY <1>2, <2>4, <2>5, <2>6 DEF KeepsSlots
<1> QED
  BY <1>5, <1>6

\* What a win and a lost semifinal take a country to exceeds what an earlier round
\* could.
LEMMA AchievedGrows ==
  ASSUME NEW k \in Matches, NEW m \in Matches, IsKnockout(k), IsKnockout(m),
         Round[k] < Round[m]
  PROVE  /\ Achieved(k) < Achieved(m) /\ Achieved(k) <= Round[m]
         /\ Round[k] = 4 => 5 < Achieved(m)
<1>1. Round[k] \in {1, 2, 3, 4, 5} /\ Round[m] \in {1, 2, 3, 4, 5}
  BY RoundAssumption DEF IsKnockout
<1> QED
  BY <1>1 DEF Achieved, AchievedRound

LEMMA StepFurthest ==
  ASSUME CountriesEnterOnce, BracketInv, Paths, Paths', FurthestSoFar,
         NEW m \in Matches, NEW new, Writing(m, new), Recording(m, new),
         KeepsSlots(m, new)
  PROVE  FurthestSoFar'
<1>1. /\ \A k \in Matches \ {m} : Decided(k)' <=> Decided(k)
      /\ \A k \in Matches : Decided(k) => matches'[k] = matches[k]
      /\ ~Decided(m) /\ (Decided(m)' <=> RecordKnockoutResult(m, new))
      /\ matches'[m] = new
  BY ResultsStay, RowsAfter DEF BracketInv, SlotsInv, Decided
<1>2. CASE ~RecordKnockoutResult(m, new)
  <2>1. reached' = reached
    BY <1>2 DEF Recording, RecordFields, RecordGroupResult
  <2>2. \A c, r : TookTo(c, r)' <=> TookTo(c, r)
    BY <1>1, <1>2 DEF TookTo
  <2> QED
    BY <2>1, <2>2 DEF FurthestSoFar, Furthest
<1>3. CASE RecordKnockoutResult(m, new)
  <2> SUFFICES ASSUME NEW c \in Countries
               PROVE  \E f \in 0 .. 7 : reached'[c] = f /\ Furthest(c, f)'
    BY DEF FurthestSoFar
  <2> DEFINE won(r)  == r = Achieved(m) /\ Winner(new) = c
             lost(r) == r = 5 /\ Round[m] = 4 /\ Loser(new) = c
  <2>1. \A r : TookTo(c, r)' <=> TookTo(c, r) \/ won(r) \/ lost(r)
    BY <1>1, <1>3 DEF TookTo
  <2>2. reached'[c] = IF c = Loser(new) /\ Round[m] = 4 THEN 5
                      ELSE IF c = Winner(new) THEN Achieved(m) ELSE reached[c]
    BY <1>3 DEF RecordKnockoutResult, ReachedAfter
  <2>3. PICK f \in 0 .. 7 : reached[c] = f /\ Furthest(c, f)
    BY DEF FurthestSoFar
  <2>4. IsKnockout(m) /\ Round[m] \in 1 .. 5 /\ Achieved(m) \in 0 .. 7
    <3>1. Achieved(m) \in 1 .. 7
      BY AchievedType
    <3> QED
      BY <1>3, <3>1, RoundAssumption DEF RecordKnockoutResult, IsKnockout
  <2>5. Winner(new) # Loser(new) /\ Winner(new) \in {new.c1, new.c2}
        /\ Loser(new) \in {new.c1, new.c2}
    BY <1>3, EarlierRounds DEF Winner, Loser
  \* What the country had achieved is less than what this match gives it.
  <2>6. ASSUME c \in {new.c1, new.c2}, NEW r \in 0 .. 7, TookTo(c, r)
        PROVE  r <= Achieved(m) /\ (Round[m] = 4 => r <= 5)
    <3>1. PICK k \in Matches :
            /\ Decided(k)
            /\ \/ r = Achieved(k) /\ Winner(matches[k]) = c
               \/ r = 5 /\ Round[k] = 4 /\ Loser(matches[k]) = c
      BY <2>6 DEF TookTo
    <3>2. c \in {matches[k].c1, matches[k].c2} /\ IsKnockout(k)
      BY <3>1 DEF Winner, Loser, Decided
    <3>3. Round[k] < Round[m]
      BY <1>3, <2>6, <3>1, <3>2, EarlierRounds
    <3>4. /\ Achieved(k) < Achieved(m) /\ Achieved(k) <= Round[m]
          /\ Round[k] = 4 => 5 < Achieved(m)
      BY <2>4, <3>2, <3>3, AchievedGrows
    <3>5. Achieved(k) \in 1 .. 7
      BY AchievedType
    <3> QED
      BY <2>4, <3>1, <3>4, <3>5
  <2>7. CASE c = Winner(new)
    <3>1. reached'[c] = Achieved(m) /\ won(Achieved(m)) /\ \A r : ~lost(r)
      BY <2>2, <2>5, <2>7
    <3>2. \A r \in 0 .. 7 : TookTo(c, r)' => r <= Achieved(m)
      BY <2>1, <2>4, <2>5, <2>6, <2>7, <3>1
    <3> QED
      BY <2>1, <2>4, <3>1, <3>2 DEF Furthest
  <2>8. CASE c = Loser(new) /\ Round[m] = 4
    <3>1. reached'[c] = 5 /\ lost(5) /\ \A r : ~won(r)
      BY <2>2, <2>5, <2>8
    <3>2. \A r \in 0 .. 7 : TookTo(c, r)' => r <= 5
      BY <2>1, <2>4, <2>5, <2>6, <2>8, <3>1
    <3>3. 5 \in 0 .. 7
      OBVIOUS
    <3> QED
      BY <2>1, <3>1, <3>2, <3>3 DEF Furthest
  <2>9. CASE c # Winner(new) /\ ~(c = Loser(new) /\ Round[m] = 4)
    <3>1. reached'[c] = reached[c] /\ \A r : ~won(r) /\ ~lost(r)
      BY <2>2, <2>9
    <3> QED
      BY <2>1, <2>3, <3>1 DEF Furthest
  <2> QED
    BY <2>7, <2>8, <2>9
<1> QED
  BY <1>2, <1>3

LEMMA InitFurthest == Init => FurthestSoFar
<1> SUFFICES ASSUME Init PROVE FurthestSoFar
  OBVIOUS
<1>1. \A m \in Matches : ~Decided(m)
  BY DEF Init, Unplayed, Decided, Completed
<1>2. \A c, r : ~TookTo(c, r)
  BY <1>1 DEF TookTo
<1> QED
  BY <1>2 DEF Init, FurthestSoFar, Furthest

\* The knockout standing of a country is the furthest round its matches took it to,
\* whatever the order they were recorded in.  UpdateMatch overwrites it: that never
\* lowers it, because the path of a country through the bracket is one match a round
\* and no match is decided after one that depends on it.
THEOREM ReachedStaysFurthest ==
  ASSUME CallsLeaveFedSlots, CountriesEnterOnce
  PROVE  Spec => []ReachedIsFurthest
<1>1. BracketInv => Paths
  BY PathsHold
<1>2. BracketInv /\ Paths /\ Paths' /\ FurthestSoFar /\ [Next]_vars => FurthestSoFar'
  <2> SUFFICES ASSUME BracketInv, Paths, Paths', FurthestSoFar, [Next]_vars
               PROVE  FurthestSoFar'
    OBVIOUS
  <2>1. RowsInv
    BY DEF BracketInv, SlotsInv
  <2>2. CASE UNCHANGED vars
    BY <2>2 DEF vars, FurthestSoFar, Furthest, TookTo, Decided
  <2> QED
    BY <2>1, <2>2, StepKeepsSlots, StepFurthest
<1>3. FurthestSoFar => ReachedIsFurthest
  BY FurthestIsMax
<1> QED
  BY <1>1, <1>2, <1>3, InitFurthest, BracketInvariance, PTL DEF Spec
=============================================================================
