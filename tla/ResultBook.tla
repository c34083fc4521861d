----------------------------- MODULE ResultBook -----------------------------
(***************************************************************************)
(* What recording a result promises: one call of UpdateMatch changes the   *)
(* match, the two group standings, the bracket, the knockout standings and *)
(* the users' knockout scores in a single step, from the tables as they    *)
(* are at that step.  MatchRecording is the implementation, statement by   *)
(* statement.                                                              *)
(***************************************************************************)
EXTENDS ContestTables, FiniteSetsExt

VARIABLES
  matches,        \* table matches
  standings,      \* table group_standings, without rank and qualifier
  reached,        \* knockout_standings.round by country; 0 without a row
  knockoutScore   \* contest_standings.knockout_score by user

vars == <<matches, standings, reached, knockoutScore>>

TypeOK ==
  /\ matches \in [Matches -> MatchRow]
  /\ standings \in [Countries -> StandingRow]
  /\ reached \in [Countries -> 0 .. 7]
  /\ knockoutScore \in [Users -> Nat]

Init ==
  /\ matches = [m \in Matches |-> Unplayed(m)]
  /\ standings = [c \in Countries |-> ZeroStanding]
  /\ reached = [c \in Countries |-> 0]
  /\ knockoutScore = [u \in Users |-> 0]

----------------------------------------------------------------------------
\* Fields arrive that do not complete the match, or complete it as a knockout
\* tie that nobody wins: only the match row changes.
RecordFields(m, new) ==
  /\ Completed(new) => IsKnockout(m) /\ ~HasWinner(new)
  /\ matches' = [matches EXCEPT ![m] = new]
  /\ UNCHANGED <<standings, reached, knockoutScore>>

\* A completed group match credits both of its countries.
RecordGroupResult(m, new) ==
  /\ ~IsKnockout(m) /\ Completed(new)
  /\ matches' = [matches EXCEPT ![m] = new]
  /\ standings' = [standings EXCEPT ![new.c1] = CreditFirst(@, new),
                                    ![new.c2] = CreditSecond(@, new)]
  /\ UNCHANGED <<reached, knockoutScore>>

\* Mutant: the loser of a semifinal keeps the round it had.
ReachedByWinnerOnly(m, new) ==
  [reached EXCEPT ![Winner(new)] = Achieved(m)]

\* The winner reaches the next round, the loser of a semifinal round 5 too.
ReachedAfter(m, new) ==
  [c \in Countries |->
     IF c = Loser(new) /\ Round[m] = 4 THEN 5
     ELSE IF c = Winner(new) THEN Achieved(m)
     ELSE reached[c]]

\* A decided knockout match moves its winner (and the loser of a semifinal)
\* on, and pays the users who predicted what the winner achieved.
RecordKnockoutResult(m, new) ==
  /\ IsKnockout(m) /\ Completed(new) /\ HasWinner(new)
  /\ matches' =
       [n \in Matches |->
          CASE n = m                     -> new
            [] n \in NextMatches(m)      -> SeedWinner(m, matches[n], Winner(new))
            [] n \in ThirdPlaceMatches(m) -> SeedLoser(m, matches[n], Loser(new))
            [] OTHER                     -> matches[n]]
  /\ reached' = ReachedAfter(m, new)
  /\ knockoutScore' =
       [u \in Users |->
          IF u \in Pickers(Winner(new), Achieved(m))
          THEN knockoutScore[u] + AwardPoints(Achieved(m))
          ELSE knockoutScore[u]]
  /\ UNCHANGED standings

\* Mutant: completed matches are accepted again.
AcceptedTwice(m, payload) ==
  /\ m \in Found(matches, payload)
  /\ HasUpdates(m, payload)
  /\ LET new == Merge(m, matches[m], payload)
     IN  Completed(new) => HasCountries(new)

\* The calls that are not answered with an error or ignored.
Accepted(m, payload) ==
  /\ m \in Found(matches, payload)
  /\ ~Completed(matches[m])
  /\ HasUpdates(m, payload)
  /\ LET new == Merge(m, matches[m], payload)
     IN  Completed(new) => HasCountries(new)

Record(m, payload) ==
  /\ Accepted(m, payload)
  /\ LET new == Merge(m, matches[m], payload)
     IN  \/ RecordFields(m, new)
         \/ RecordGroupResult(m, new)
         \/ RecordKnockoutResult(m, new)

\* No call is left that changes anything.
Exhausted ==
  /\ \A m \in Matches, p \in Payloads : ~Accepted(m, p)
  /\ UNCHANGED vars

Next ==
  \/ \E m \in Matches, p \in Payloads : Record(m, p)
  \/ Exhausted

Spec == Init /\ [][Next]_vars

----------------------------------------------------------------------------
(***************************************************************************)
(* What UpdateMatch leaves to its callers, and the seed and acceptance     *)
(* programs keep to: a call names a knockout match by its position, and    *)
(* gives it no country in a slot that a result fills; and no country       *)
(* enters the bracket in two places.                                       *)
(***************************************************************************)
FilledByResult(n, slot) == \E m \in Matches : Fills(m, n, slot)

CallsLeaveFedSlots ==
  \A p \in Payloads : p.round > 0 =>
    /\ p.index # Null
    /\ \A n \in Matches, slot \in {0, 1} :
         Round[n] = p.round /\ Index[n] = p.index /\ FilledByResult(n, slot)
         => InSlot(p, slot) = Null

Enters(c, n, slot) ==
  /\ IsKnockout(n)
  /\ \/ InSlot(Fixtures[n], slot) = c
     \/ \E p \in Payloads :
          p.round = Round[n] /\ p.index = Index[n] /\ InSlot(p, slot) = c
  /\ ~FilledByResult(n, slot)

CountriesEnterOnce ==
  \A c \in Countries, m \in Matches, s \in {0, 1} :
    Enters(c, m, s) =>
      \A n \in Matches, t \in {0, 1} : Enters(c, n, t) => m = n /\ s = t

----------------------------------------------------------------------------
(***************************************************************************)
(* Properties                                                              *)
(***************************************************************************)
Played(c) ==
  {m \in Matches : /\ ~IsKnockout(m) /\ Completed(matches[m])
                   /\ c \in {matches[m].c1, matches[m].c2}}

GoalsFor(c, m) == IF matches[m].c1 = c THEN matches[m].g1 ELSE matches[m].g2
GoalsAgainst(c, m) == IF matches[m].c1 = c THEN matches[m].g2 ELSE matches[m].g1
ConductOf(c, m) ==
  Conduct(IF matches[m].c1 = c THEN matches[m].cs1 ELSE matches[m].cs2)

\* The incrementally maintained group table is the one computed from scratch
\* from the completed matches: UpdateMatch adds a match exactly once, to the
\* right two countries, on the right side.
StandingsAgreeWithMatches ==
  \A c \in Countries :
    LET won  == {m \in Played(c) : GoalsFor(c, m) > GoalsAgainst(c, m)}
        drew == {m \in Played(c) : GoalsFor(c, m) = GoalsAgainst(c, m)}
        gf   == MapThenSumSet(LAMBDA m : GoalsFor(c, m), Played(c))
        ga   == MapThenSumSet(LAMBDA m : GoalsAgainst(c, m), Played(c))
    IN  standings[c] =
          [wins   |-> Cardinality(won),
           draws  |-> Cardinality(drew),
           losses |-> Cardinality(Played(c)) - Cardinality(won) - Cardinality(drew),
           gf     |-> gf,
           ga     |-> ga,
           gd     |-> gf - ga,
           points |-> 3 * Cardinality(won) + Cardinality(drew),
           cs     |-> MapThenSumSet(LAMBDA m : ConductOf(c, m), Played(c))]

Decided(m) ==
  IsKnockout(m) /\ Completed(matches[m]) /\ HasWinner(matches[m])

\* A user's knockout score is what the decided matches are worth to the user's
\* predictions: every award is paid, once, at the value scoring.md gives it.
Worth(m) ==
  CASE Round[m] = 1                  -> 15
    [] Round[m] = 2                  -> 20
    [] Round[m] = 3                  -> 25
    [] Round[m] = 4                  -> 30
    [] Round[m] = 5 /\ Index[m] = 0  -> 35
    [] Round[m] = 5 /\ Index[m] = 1  -> 5

KnockoutScoresExact ==
  \A u \in Users :
    knockoutScore[u] =
      MapThenSumSet(Worth, {m \in Matches :
        Decided(m) /\ <<u, Winner(matches[m]), Achieved(m)>> \in Picks})

\* The slots below a match are empty until it is decided and then hold its
\* winner (its loser, in the third-place match), on the side its index gives.
BracketFollowsResults ==
  \A m \in Matches :
    /\ \A n \in NextMatches(m) :
         (IF Index[m] % 2 = 0 THEN matches[n].c1 ELSE matches[n].c2)
           = IF Decided(m) THEN Winner(matches[m]) ELSE Null
    /\ \A n \in ThirdPlaceMatches(m) :
         (IF Index[m] = 0 THEN matches[n].c1 ELSE matches[n].c2)
           = IF Decided(m) THEN Loser(matches[m]) ELSE Null

\* A country plays at most one match of a round, so no country can meet itself
\* or be in the final and in the third-place match.
OneMatchPerRound ==
  \A m, n \in Matches, c \in Countries :
    /\ IsKnockout(m) /\ Round[m] = Round[n] /\ m # n
    /\ c \in {matches[m].c1, matches[m].c2}
    => /\ c \notin {matches[n].c1, matches[n].c2}
       /\ matches[m].c1 # matches[m].c2

\* The knockout standing of a country is the furthest round its matches took it
\* to, whatever the order in which the matches were recorded.
ReachedIsFurthest ==
  \A c \in Countries :
    reached[c] =
      Max({0}
          \cup {Achieved(m) : m \in {k \in Matches :
                  Decided(k) /\ Winner(matches[k]) = c}}
          \cup {5 : m \in {k \in Matches :
                  Decided(k) /\ Round[k] = 4 /\ Loser(matches[k]) = c}})

\* A completed match keeps its result.
ResultsAreFinal ==
  [][\A m \in Matches : Completed(matches[m]) => matches'[m] = matches[m]]_vars
=============================================================================
