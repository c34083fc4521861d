---------------------------- MODULE ScoringRules ----------------------------
(***************************************************************************)
(* The arithmetic of the contest: what one recorded match adds to a group  *)
(* standing, who wins a knockout match, which round the winner achieves    *)
(* and what a correct prediction of it is worth, and the points of a group *)
(* prediction.  A match row is a record                                    *)
(*   [c1, c2, g1, g2, p1, p2, cs1, cs2]                                    *)
(* (countries, goals, penalties, conduct scores); a column that is NULL    *)
(* holds Null.                                                             *)
(***************************************************************************)
EXTENDS Integers

CONSTANT Null

(***************************************************************************)
(* Group standings                                                         *)
(***************************************************************************)
ZeroStanding ==
  [wins |-> 0, draws |-> 0, losses |-> 0, gf |-> 0, ga |-> 0, gd |-> 0,
   points |-> 0, cs |-> 0]

Completed(match) == match.g1 # Null /\ match.g2 # Null

\* A missing conduct score counts as zero.
Conduct(score) == IF score = Null THEN 0 ELSE score

\* 1 when the condition holds: the increments of wins, draws and losses.
One(condition) == IF condition THEN 1 ELSE 0

\* Mutants of Credit: a loss is subtracted; a draw is worth two points.
CreditLossSubtracted(standing, gf, ga, cs) ==
  [wins   |-> standing.wins   + One(gf > ga),
   draws  |-> standing.draws  + One(gf = ga),
   losses |-> standing.losses - One(gf < ga),
   gf     |-> standing.gf + gf,
   ga     |-> standing.ga + ga,
   gd     |-> (standing.gf + gf) - (standing.ga + ga),
   points |-> standing.points + 3 * One(gf > ga) + One(gf = ga),
   cs     |-> standing.cs + cs]
CreditDrawWorthTwo(standing, gf, ga, cs) ==
  [wins   |-> standing.wins   + One(gf > ga),
   draws  |-> standing.draws  + One(gf = ga),
   losses |-> standing.losses + One(gf < ga),
   gf     |-> standing.gf + gf,
   ga     |-> standing.ga + ga,
   gd     |-> (standing.gf + gf) - (standing.ga + ga),
   points |-> standing.points + 3 * One(gf > ga) + 2 * One(gf = ga),
   cs     |-> standing.cs + cs]

\* The standing of a country after a match it played for `gf` goals to `ga`.
Credit(standing, gf, ga, cs) ==
  [wins   |-> standing.wins   + One(gf > ga),
   draws  |-> standing.draws  + One(gf = ga),
   losses |-> standing.losses + One(gf < ga),
   gf     |-> standing.gf + gf,
   ga     |-> standing.ga + ga,
   gd     |-> (standing.gf + gf) - (standing.ga + ga),
   points |-> standing.points + 3 * One(gf > ga) + One(gf = ga),
   cs     |-> standing.cs + cs]

\* What the match adds to the standing of its first and of its second country.
CreditFirst(standing, match) ==
  Credit(standing, match.g1, match.g2, Conduct(match.cs1))
\* Mutant: the goals of the second country are not swapped.
CreditSecondUnswapped(standing, match) ==
  Credit(standing, match.g1, match.g2, Conduct(match.cs2))
CreditSecond(standing, match) ==
  Credit(standing, match.g2, match.g1, Conduct(match.cs2))

(***************************************************************************)
(* Knockout matches                                                        *)
(***************************************************************************)
\* Penalties decide a tie, and only when both are given.
OnPenalties(match) ==
  match.g1 = match.g2 /\ match.p1 # Null /\ match.p2 # Null

FirstWins(match) ==
  \/ match.g1 > match.g2
  \/ OnPenalties(match) /\ match.p1 > match.p2

SecondWins(match) ==
  \/ match.g1 < match.g2
  \/ OnPenalties(match) /\ match.p1 < match.p2

HasWinner(match) == FirstWins(match) \/ SecondWins(match)
Winner(match) == IF FirstWins(match) THEN match.c1 ELSE match.c2
\* Mutant: the loser is decided on goals alone.
LoserOnGoals(match) == IF match.g1 < match.g2 THEN match.c1 ELSE match.c2
Loser(match)  == IF FirstWins(match) THEN match.c2 ELSE match.c1

\* Rounds: 1 of 32, 2 of 16, 3 quarterfinals, 4 semifinals, 5 final (index 0)
\* and third-place match (index 1); 6 is the champion, 7 the third place.
\* Mutant: the third place counts from the final.
AchievedRoundOffByOne(round, index) ==
  IF round < 5 THEN round + 1 ELSE round + 1 + 2 * index
AchievedRound(round, index) ==
  CASE round < 5                 -> round + 1
    [] round = 5 /\ index # 1    -> 6
    [] OTHER                     -> 7

\* Points of a user who predicted that the winner achieves the round.
\* Mutant: the champion is paid like the third place.
AwardPointsNoChampion(achieved) ==
  CASE achieved = 2 -> 15 [] achieved = 3 -> 20 [] achieved = 4 -> 25
    [] achieved = 5 -> 30 [] OTHER -> 5
AwardPoints(achieved) ==
  CASE achieved = 2 -> 15
    [] achieved = 3 -> 20
    [] achieved = 4 -> 25
    [] achieved = 5 -> 30
    [] achieved = 6 -> 35
    [] OTHER        -> 5

(***************************************************************************)
(* Group predictions: the multiplier of the place a user gave a country    *)
(* and the base points of the rank the country finished at.                *)
(***************************************************************************)
\* Mutant: the last place counts once too.
MultiplierOfLast(place) ==
  CASE place = 1 -> 3 [] place = 2 -> 2 [] OTHER -> 1
Multiplier(place) ==
  CASE place = 1 -> 3 [] place = 2 -> 2 [] place = 3 -> 1 [] OTHER -> 0

BasePoints(rank) ==
  CASE rank = 1 -> 10 [] rank = 2 -> 6 [] rank = 3 -> 3 [] rank = 4 -> 1
    [] OTHER -> 0

\* The bonus of a correct prediction about the third-placed country.
QualifierBonus == 5
=============================================================================
