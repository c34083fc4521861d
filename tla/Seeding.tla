------------------------------ MODULE Seeding ------------------------------
(***************************************************************************)
(* The seed program: it empties the tables, has every user predict, plays  *)
(* a contest to its end through the repositories, and fills subcontests.   *)
(* An answer it does not expect ends it.  Its contests share no row, so    *)
(* one is played in a run, or the subcontests of all of them are made.     *)
(***************************************************************************)
EXTENDS Tournament

CONSTANTS
  AllUsers,     \* allUserIDs: the users in the order they are inserted
  SpareCells,   \* cells of its array beyond its length
  Joey, Jpm,    \* joeyID, jpmID
  Dice          \* [numbers, shuffles, people]: what a run's random generator may return,
                \* and the e-mail and username of each user it makes of it

ASSUME SeedAssumption ==
  /\ AllUsers \in Seq(Users) /\ Len(AllUsers) = 55 /\ Users = ToSet(AllUsers)
  /\ {Joey, Jpm} \subseteq Users /\ SpareCells \in Nat
  /\ \A d \in Dice :
       /\ DOMAIN d.people = DOMAIN AllUsers
       /\ d.numbers \in Seq(Nat) \ {<<>>}
       /\ d.shuffles \in Seq([1 .. 4 -> 1 .. 4]) \ {<<>>}
       /\ \A s \in ToSet(d.shuffles), i, j \in 1 .. 4 : s[i] = s[j] => i = j

VARIABLES
  kind,      \* the contest of the run; "subcontests" for the subcontests
  dice,
  stage,     \* the loop the program is in
  todo,      \* what is left of it
  allUsers,  \* the array behind allUserIDs
  clubs      \* members by title

seedVars == <<kind, dice, stage, todo, allUsers, clubs>>

Kinds == {"future", "in-progress", "finished", "perfect", "perfect-ish", "subcontests"}
Deterministic == kind \in {"perfect", "perfect-ish"}

\* The k-th random number below n of this turn of the loop.
Roll(k, n) ==
  dice.numbers[((3 * Len(todo) + k) % Len(dice.numbers)) + 1] % n
Shuffle(k) == dice.shuffles[((Len(todo) + k) % Len(dice.shuffles)) + 1]

SeedIdle ==
  /\ kind = Null /\ dice = Null /\ stage = "start" /\ todo = <<>>
  /\ allUsers = <<>> /\ clubs = <<>>

Rounds == <<"round1", "round2", "round3", "round4", "round5">>

----------------------------------------------------------------------------
(***************************************************************************)
(* The queries between the loops                                           *)
(***************************************************************************)
\* Mutant: goal difference is left out.
BestFirstWithoutGd(S) ==
  Sorted([c \in S |-> <<standings[c].points, standings[c].gf, -CodeRank[c]>>])
BestFirst(S) ==
  Sorted([c \in S |-> <<standings[c].points, standings[c].gd, standings[c].gf,
                        -CodeRank[c]>>])

\* The letters of the third-placed countries; the best eight go through.
\* Mutant: the worst eight.
WorstThirds ==
  LET thirds == Reverse(BestFirst({c \in Countries : finals[c].rank = 3}))
  IN  [i \in DOMAIN thirds |-> [letter |-> Letter[thirds[i]], advances |-> i <= 8]]
Thirds ==
  LET thirds == BestFirst({c \in Countries : finals[c].rank = 3})
  IN  [i \in DOMAIN thirds |-> [letter |-> Letter[thirds[i]], advances |-> i <= 8]]

InOrderOfLetters(list) == Sorted([x \in ToSet(list) |-> <<-x.letter>>])

Advancing ==
  LET through == {c \in Countries : \/ finals[c].rank \in {1, 2}
                                    \/ finals[c].rank = 3 /\ finals[c].qualifier = TRUE}
  IN  Sorted([c \in through |-> <<-Letter[c], -finals[c].rank>>])

\* The matches of a round whose countries are known, in the order of their index.
Playable(r) ==
  LET ready == {m \in Bracket : RoundOf[m] = r /\ Book!HasCountries(matches[m])}
  IN  Sorted([m \in ready |-> <<-IndexOf[m]>>])

\* The group matches come in any order: here in one order of their countries, or in
\* its reverse.
AnyOrder ==
  LET sign == IF Roll(0, 2) = 1 THEN 1 ELSE -1
  IN  Sorted([m \in GroupMatches |-> <<sign * CodeRank[m[2]], sign * CodeRank[m[3]]>>])

Pairs == [i \in 1 .. 16 |-> [index |-> i - 1, c1 |-> Advancing[2 * i - 1],
                             c2 |-> Advancing[2 * i]]]

----------------------------------------------------------------------------
(***************************************************************************)
(* The loops one after the other                                           *)
(***************************************************************************)
Fail ==
  /\ stage' = "failed" /\ todo' = <<>>
  /\ UNCHANGED <<contestVars, kind, dice, allUsers, clubs>>

Enter(next, list) ==
  /\ stage' = next /\ todo' = list
  /\ UNCHANGED <<contestVars, kind, dice, allUsers, clubs>>

\* TRUNCATE users, contests, countries CASCADE empties every table; the users, and
\* the contests, are inserted again.
Truncate ==
  /\ stage = "start"
  /\ TruncateTables /\ UNCHANGED allUsers
  /\ stage' = "users" /\ todo' = <<>> /\ clubs' = <<>>
  /\ kind' \in Kinds /\ dice' \in Dice

\* users.email and users.username are UNIQUE: the INSERT of a user that repeats either
\* ends the program.  Usernames are drawn, and one of the e-mails is the environment's.
Collides(people) ==
  \E i, j \in DOMAIN people :
    i < j /\ (people[i].email = people[j].email \/ people[i].username = people[j].username)

CreateUsers ==
  /\ stage = "users"
  /\ IF Collides(dice.people)
     THEN Fail
     ELSE /\ allUsers' = AllUsers \o [i \in 1 .. SpareCells |-> Null]
          /\ CreateContest
          /\ IF kind = "subcontests"
             THEN stage' = "subcontests" /\ todo' = <<>>
             ELSE stage' = "groupPicks" /\ todo' = AllUsers
          /\ UNCHANGED <<kind, dice, clubs>>

NextLoop ==
  /\ todo = <<>>
  /\ \/ stage = "groupPicks" /\ kind = "future" /\ Enter("report", <<>>)
     \/ stage = "groupPicks" /\ kind # "future" /\ Enter("groupMatches", AnyOrder)
     \/ stage = "groupMatches" /\ Enter("rankings", [l \in Letters |-> l])
     \/ stage = "rankings" /\ IF Len(Thirds) = 12
                              THEN Enter("qualifiers", InOrderOfLetters(Thirds))
                              ELSE Fail
     \/ stage = "qualifiers" /\ IF Len(Advancing) = 32 THEN Enter("pairs", Pairs) ELSE Fail
     \/ stage = "pairs" /\ Enter("knockoutPicks", AllUsers)
     \/ stage = "knockoutPicks" /\ kind = "in-progress" /\ Enter("report", <<>>)
     \/ stage = "knockoutPicks" /\ kind # "in-progress" /\ Enter("round1", [i \in 1 .. 16 |-> <<1, i - 1>>])
     \/ \E r \in 1 .. 4 : stage = Rounds[r] /\ Enter(Rounds[r + 1], Playable(r + 1))
     \/ stage = "round5" /\ Enter("report", <<>>)

\* One turn of a loop whose call has to be accepted.
Turn(loop, accepted, Call) ==
  /\ stage = loop /\ todo # <<>>
  /\ IF accepted
     THEN Call /\ todo' = Tail(todo) /\ UNCHANGED <<kind, dice, stage, allUsers, clubs>>
     ELSE Fail

Place(c) == (CHOOSE i \in 1 .. 4 : Groups[Letter[c]][i] = c) - 1   \* countryIndexInGroup

Payload == [round |-> 0, index |-> Null, c1 |-> Null, c2 |-> Null, g1 |-> Null,
            g2 |-> Null, p1 |-> Null, p2 |-> Null, cs1 |-> Null, cs2 |-> Null]

----------------------------------------------------------------------------
(***************************************************************************)
(* Predictions                                                             *)
(***************************************************************************)
RandomGroupPicks ==
  {[letter |-> l, order |-> [i \in 1 .. 4 |-> Groups[l][Shuffle(l)[i]]],
    extra |-> Roll(l, 2) = 0] : l \in Letters}

Wildcards == {1, 3, 4, 5, 6, 8, 11, 12}   \* the groups A, C, D, E, F, H, K and L

\* When every group ends in the order it is listed in, the thirds are level, and these
\* eight are first by their code.
ASSUME WildcardAssumption ==
  \A l \in Wildcards, k \in Letters \ Wildcards :
    CodeRank[Groups[l][3]] < CodeRank[Groups[k][3]]

\* Mutant: the first eight groups are taken for the wildcards.
FirstEightPicks ==
  {[letter |-> l, order |-> Groups[l], extra |-> (l \in 1 .. 8) = (kind = "perfect")] :
     l \in Letters}

JoeysGroupPicks ==
  {[letter |-> l, order |-> Groups[l], extra |-> (l \in Wildcards) = (kind = "perfect")] :
     l \in Letters}

SeedGroupPicks ==
  Turn("groupPicks", TRUE,
       SaveGroupPicks(Head(todo), IF Deterministic /\ Head(todo) = Joey
                                  THEN JoeysGroupPicks ELSE RandomGroupPicks))

\* Mutant: the winner of the semifinal is taken for its loser.
SameSide(side) == side
OtherSide(side) == 1 - side

\* side[r][i] says whom a bracket takes from match i of round r: its first country (0)
\* or its second (1); `last` which loser of a semifinal takes the third place.
BracketOf(side, last) ==
  LET w1 == [i \in 0 .. 15 |->
               LET m == matches[<<1, i>>] IN IF side[1][i] = 0 THEN m.c1 ELSE m.c2]
      w2 == [i \in 0 .. 7 |-> w1[2 * i + side[2][i]]]
      w3 == [i \in 0 .. 3 |-> w2[2 * i + side[3][i]]]
      w4 == [i \in 0 .. 1 |-> w3[2 * i + side[4][i]]]
      losers == [i \in 0 .. 1 |-> w3[2 * i + OtherSide(side[4][i])]]
      through(w, round) == {<<w[i], round>> : i \in DOMAIN w}
  IN  through(w1, 2) \cup through(w2, 3) \cup through(w3, 4) \cup through(w4, 5)
      \cup {<<w4[side[5][0]], 6>>, <<losers[last], 7>>}

RandomBracket ==
  BracketOf([r \in 1 .. 5 |-> [i \in 0 .. 15 |-> Roll(16 * r + i, 2)]], Roll(7, 2))
JoeysBracket ==
  BracketOf([r \in 1 .. 5 |-> [i \in 0 .. 15 |-> 0]], IF kind = "perfect" THEN 0 ELSE 1)

SeedKnockoutPicks ==
  Turn("knockoutPicks", Len(Playable(1)) = 16,
       SaveKnockoutPicks(Head(todo), IF Deterministic /\ Head(todo) = Joey
                                     THEN JoeysBracket ELSE RandomBracket))

----------------------------------------------------------------------------
(***************************************************************************)
(* Results                                                                 *)
(***************************************************************************)
Goals(payload, a, b) == [payload EXCEPT !.g1 = a, !.g2 = b]

RandomGoals(payload) == Goals(payload, Roll(1, 4), Roll(2, 4))

\* The country listed first in its group wins, by more the further up it is listed.
DecidedGoals(payload) ==
  LET i == Place(payload.c1)
      j == Place(payload.c2)
  IN  IF i < j THEN Goals(payload, 3 - i, 0) ELSE Goals(payload, 0, 3 - j)

PlayGroupMatch ==
  LET pair == [Payload EXCEPT !.c1 = Head(todo)[2], !.c2 = Head(todo)[3]]
      played == IF Deterministic THEN DecidedGoals(pair) ELSE RandomGoals(pair)
  IN  Turn("groupMatches", AcceptsMatch(played), RecordMatch(played))

RankGroup ==
  LET l == Head(todo)
  IN  Turn("rankings", AcceptsRankings(l),
           FinalizeRankings(l, BestFirst(CountriesOf(l))))

QualifyThird ==
  Turn("qualifiers", AcceptsQualifier(Head(todo).letter),
       FinalizeQualifier(Head(todo).letter, Head(todo).advances))

PairUp ==
  LET p == Head(todo)
      seeded == [Payload EXCEPT !.round = 1, !.index = p.index, !.c1 = p.c1, !.c2 = p.c2]
  IN  Turn("pairs", AcceptsMatch(seeded), RecordMatch(seeded))

\* Ties are decided 4 to 3 on penalties; a decided match ends 2 to 1.
\* Mutant: ties are sent without penalties.
RandomKnockoutUndecided(payload) == RandomGoals(payload)
RandomKnockout(payload) ==
  LET played == RandomGoals(payload)
  IN  IF played.g1 = played.g2 THEN [played EXCEPT !.p1 = 4, !.p2 = 3] ELSE played

PlayKnockout ==
  \E r \in 1 .. 5 :
    LET at == [Payload EXCEPT !.round = Head(todo)[1], !.index = Head(todo)[2]]
        played == IF Deterministic THEN Goals(at, 2, 1) ELSE RandomKnockout(at)
    IN  Turn(Rounds[r], AcceptsMatch(played), RecordMatch(played))

----------------------------------------------------------------------------
(***************************************************************************)
(* Subcontests                                                             *)
(***************************************************************************)
\* The member lists of the program, in its order: a slice of allUserIDs with Joey and
\* Jpm appended, the whole of it, or a few users.
Leagues ==
  <<[title |-> "Global In Progress", owner |-> 0, from |-> 1, to |-> 28],
    [title |-> "Engineering Side In Progress", owner |-> 1, from |-> 10, to |-> 35],
    [title |-> "Joey's In Progress Club", owner |-> 3, of |-> <<1, 4, 5, 6>>],
    [title |-> "NJIT In Progress Arena", owner |-> 4, of |-> <<1, 3, 7, 8>>],
    [title |-> "Finished Legacy Cup", owner |-> 0, from |-> 0, to |-> 55],
    [title |-> "Joey's Finished Lounge", owner |-> 3, of |-> <<1, 4, 5, 6>>],
    [title |-> "Future Global Arena", owner |-> 0, from |-> 1, to |-> 28],
    [title |-> "NJIT Future Pool", owner |-> 4, of |-> <<1, 3, 7, 8>>],
    [title |-> "Perfect Global Arena", owner |-> 0, from |-> 1, to |-> 28],
    [title |-> "Almost Perfect Global Arena", owner |-> 0, from |-> 1, to |-> 28]>>

\* append to a slice writes into the array behind it as long as the array is long enough.
SeedSubcontest ==
  /\ stage = "subcontests" /\ Len(clubs) < Len(Leagues)
  /\ LET it == Leagues[Len(clubs) + 1]
         sliced == "of" \notin DOMAIN it
         whole == sliced /\ it.to = Len(AllUsers)
         array == IF sliced /\ ~whole
                  THEN [allUsers EXCEPT ![it.to + 1] = Joey, ![it.to + 2] = Jpm]
                  ELSE allUsers
         members == IF sliced
                    THEN ToSet(SubSeq(array, it.from + 1, it.to + IF whole THEN 0 ELSE 2))
                    ELSE {AllUsers[i + 1] : i \in ToSet(it.of)}
     IN  IF members \subseteq Users
         THEN /\ allUsers' = array
              /\ clubs' = Append(clubs, members \cup {AllUsers[it.owner + 1]})
              /\ UNCHANGED <<contestVars, kind, dice, stage, todo>>
         ELSE Fail

----------------------------------------------------------------------------
SeedDone ==
  /\ \/ stage = "report"
     \/ stage = "subcontests" /\ Len(clubs) = Len(Leagues)
  /\ UNCHANGED <<contestVars, seedVars>>

\* The program is stopped and started again.
Rerun ==
  /\ stage # "start"
  /\ stage' = "start" /\ kind' = Null /\ dice' = Null /\ todo' = <<>> /\ allUsers' = <<>>
  /\ clubs' = <<>>
  /\ UNCHANGED contestVars

SeedStep ==
  \/ Truncate \/ CreateUsers \/ NextLoop
  \/ SeedGroupPicks \/ PlayGroupMatch \/ RankGroup \/ QualifyThird \/ PairUp
  \/ SeedKnockoutPicks \/ PlayKnockout \/ SeedSubcontest
  \/ Rerun \/ SeedDone

----------------------------------------------------------------------------
(***************************************************************************)
(* Properties                                                              *)
(***************************************************************************)
\* Joey's predictions are worth the 1200 points scoring.md promises for perfect ones;
\* the almost perfect ones lose all twelve bonuses and the third place.  Nobody ever
\* has more than 600 points for a stage.
NobodyExceeds600 ==
  \A u \in Users : scores[u] # Null => scores[u].group <= 600 /\ scores[u].knockout <= 600
PerfectPredictions ==
  /\ NobodyExceeds600
  /\ stage = "report" /\ kind = "perfect" =>
       scores[Joey] = [group |-> 600, knockout |-> 600]
  /\ stage = "report" /\ kind = "perfect-ish" =>
       scores[Joey] = [group |-> 540, knockout |-> 595]

\* The qualification printContestResults prints for a country.
Status(c) ==
  LET rank == IF finals[c].rank = Null THEN 0 ELSE finals[c].rank
  IN  IF rank <= 2 THEN "Q (Top 2)"
      ELSE IF finals[c].qualifier = TRUE THEN "Q (Best 3rd)" ELSE ""

\* Once the bracket is paired, the 32 places of the first round hold 32 countries, the
\* ones the report says are qualified, and no third-placed country stays out for one
\* that did worse.
InFirstRound == UNION {{matches[m].c1, matches[m].c2} : m \in {n \in Bracket : RoundOf[n] = 1}}

RoundOf32IsWhole ==
  stage \in {"knockoutPicks", "report"} \cup ToSet(Rounds) /\ kind # "future" =>
    /\ Cardinality(InFirstRound) = 32
    /\ InFirstRound = {c \in Countries : Status(c) # ""}
    /\ \A c, d \in Countries :
         finals[c].rank = 3 /\ finals[d].rank = 3 /\ c \in InFirstRound /\ d \notin InFirstRound
         => standings[c].points >= standings[d].points

\* The knockout predictions of a user that printJmucciPicks lists for a round.
Predicted(u, round) == {c \in Countries : <<c, round>> \in knockoutPicks[u]}

\* The brackets the program makes up are brackets: 16, 8, 4, 2 and one countries, each
\* among those of the round before and no two out of one match; the third place is a
\* semifinalist that is not in the final.
PredictionsAreBrackets ==
  \A u \in Users : kind # Null /\ knockoutPicks[u] # {} =>
    /\ \A r \in 2 .. 6 : Cardinality(Predicted(u, r)) = <<0, 16, 8, 4, 2, 1>>[r]
    /\ \A r \in 3 .. 6 : Predicted(u, r) \subseteq Predicted(u, r - 1)
    /\ \A m \in Bracket : RoundOf[m] = 1 =>
         Cardinality(Predicted(u, 2) \cap {matches[m].c1, matches[m].c2}) = 1
    /\ Cardinality(Predicted(u, 7)) = 1
    /\ Predicted(u, 7) \subseteq Predicted(u, 4) \ Predicted(u, 5)

\* The order shown for a group whose matches are completed is the order that the
\* program finalizes and that is shown from then on.
ResultsKeepTheirOrder ==
  [][\A l \in Letters :
       created /\ created' /\ (\A m \in ListGroupMatches(l) : Completed(matches[m]))
       => ShownOrder(l)' = ShownOrder(l)]_<<contestVars, seedVars>>
=============================================================================
