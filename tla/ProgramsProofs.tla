-------------------------- MODULE ProgramsProofs ---------------------------
(***************************************************************************)
(* The acceptance program gets every answer it expects as well, whatever   *)
(* the seed program left; and what both leave in the tables is right, the  *)
(* order shown for a group and the points of every user included.          *)
(***************************************************************************)
EXTENDS SeedingProofs

----------------------------------------------------------------------------
(***************************************************************************)
(* The inductive invariant of the acceptance program: what each call of    *)
(* the script finds in the tables.                                         *)
(***************************************************************************)
\* The accounts and tokens of superadmin, user1, user2 and newuser.
Persons ==
  /\ DOMAIN account = People /\ DOMAIN token = People
  /\ account[Super] = Super /\ token[Super] = Super /\ account[1] = 1 /\ token[1] = 1
  /\ account[2] = IF step <= 4 THEN 2 ELSE IF step = 5 THEN Null ELSE NewUser + 1
  /\ token[2] = IF step <= 5 THEN 2 ELSE NewUser + 1
  /\ account[NewUser] = IF step <= 3 THEN Null ELSE NewUser

\* user1's subcontests, the one that user2 joins and the one that is deleted again.
Clubs ==
  /\ DOMAIN leagues = IF step <= 11 THEN {}
                      ELSE IF step \in {15, 16} THEN {"private", "deleted"} ELSE {"private"}
  /\ step >= 12 => leagues["private"] = [owner |-> 1, members |-> IF step <= 13 THEN {1}
                                                                  ELSE {1, NewUser + 1}]
  /\ step \in {15, 16} => leagues["deleted"] = [owner |-> 1, members |-> {1}]

\* The matches of group A that are yet to be played.
GroupA == Groups[1]
Unplayed1 == IF step <= 17 THEN ListGroupMatches(1) ELSE left

Blank(m) == Goalless(m) /\ matches[m].p1 = Null /\ matches[m].p2 = Null

Results ==
  /\ Rows
  /\ created <=> step >= 8
  /\ left \subseteq ListGroupMatches(1) /\ (step # 18 => left = {})
  /\ \A m \in GroupMatches :
       /\ Fixture(m)
       /\ IF Letter[m[2]] # 1 \/ m \in Unplayed1 THEN Blank(m)
          ELSE matches[m].g1 = 1 /\ matches[m].g2 = 0
  /\ step <= 28 => \A m \in Bracket : Blank(m) /\ matches[m].c1 = Null /\ matches[m].c2 = Null
  /\ step >= 29 => matches[<<2, 0>>].c1 = GroupA[1]

\* Who is listed first wins, so the table of group A is in the order of the request.
PointsFrom(i, j) == IF <<0, GroupA[i], GroupA[j]>> \in Unplayed1 THEN 0 ELSE 3
PointsOf(i) == standings[GroupA[i]].points
TableA ==
  /\ PointsOf(1) = PointsFrom(1, 2) + PointsFrom(1, 3) + PointsFrom(1, 4)
  /\ PointsOf(2) = PointsFrom(2, 3) + PointsFrom(2, 4)
  /\ PointsOf(3) = PointsFrom(3, 4)
  /\ PointsOf(4) = 0

FinalA ==
  /\ \A i \in 1 .. 4 : finals[GroupA[i]].rank = IF step <= 20 THEN Null ELSE i
  /\ finals[GroupA[3]].qualifier = IF step <= 23 THEN Null ELSE TRUE

PickRows(order, extra) ==
  {[letter |-> l, country |-> Groups[l][order[i]], place |-> i, extra |-> extra] :
     l \in Letters, i \in 1 .. 4}

ScriptPicks ==
  /\ groupPicks = [u \in Users |-> groupPicks[u]]
  /\ knockoutPicks = [u \in Users |-> knockoutPicks[u]]
  /\ \A u \in Users \ {1, 2} : groupPicks[u] = {}
  /\ groupPicks[1] = IF step <= 8 THEN {} ELSE PickRows(<<1, 2, 3, 4>>, TRUE)
  /\ groupPicks[2] = IF step <= 10 THEN {} ELSE PickRows(<<1, 2, 4, 3>>, FALSE)
  /\ \A u \in Users \ {1} : knockoutPicks[u] = {}
  /\ knockoutPicks[1] = IF step <= 26 THEN {} ELSE ScriptBracket

ScriptScores ==
  /\ scores = [u \in Users |-> scores[u]]
  /\ \A u \in Users \ {1, 2} : scores[u] = Null
  /\ scores[1] = IF step <= 8 THEN Null
                 ELSE [group    |-> IF step <= 20 THEN 0 ELSE IF step <= 23 THEN 45 ELSE 50,
                       knockout |-> IF step <= 28 THEN 0 ELSE 15]
  /\ scores[2] = IF step <= 10 THEN Null
                 ELSE [group |-> IF step <= 20 THEN 0 ELSE 43, knockout |-> 0]

Script ==
  /\ step \in 1 .. 32 /\ Persons /\ Clubs /\ Results /\ TableA /\ FinalA /\ ScriptPicks
  /\ ScriptScores
ScriptInv == step # 0 => stage = "start" /\ Script

----------------------------------------------------------------------------
(***************************************************************************)
(* A call changes what it is about, and leaves the rest of the invariant   *)
(* to the step count.                                                      *)
(***************************************************************************)
LEMMA PersonsStay ==
  ASSUME Persons, step \in 1 .. 32, step \notin {3, 4, 5}, step' \in {step, step + 1},
         UNCHANGED <<account, token>>
  PROVE  Persons'
<1>1. (step' <= 3 <=> step <= 3) /\ (step' <= 4 <=> step <= 4) /\ (step' = 5 <=> step = 5)
      /\ (step' <= 5 <=> step <= 5)
  OBVIOUS
<1> QED
  BY <1>1, Zenon DEF Persons

LEMMA ClubsStay ==
  ASSUME Clubs, step \in 1 .. 32, step \notin {11, 13, 14, 16}, step' \in {step, step + 1},
         UNCHANGED leagues
  PROVE  Clubs'
<1>1. /\ (step' <= 11 <=> step <= 11) /\ (step' \in {15, 16} <=> step \in {15, 16})
      /\ (step' >= 12 <=> step >= 12) /\ (step' <= 13 <=> step <= 13)
  OBVIOUS
<1> QED
  BY <1>1, Zenon DEF Clubs

LEMMA Unplayed1Stays ==
  ASSUME step \in 1 .. 32, step # 17, step' \in {step, step + 1}, UNCHANGED left
  PROVE  Unplayed1' = Unplayed1
<1>1. step' <= 17 <=> step <= 17
  OBVIOUS
<1> QED
  BY <1>1, Zenon DEF Unplayed1

LEMMA ResultsStay ==
  ASSUME Results, step \in 1 .. 32, step \notin {7, 17, 28}, step' \in {step, step + 1},
         UNCHANGED <<created, matches, standings, left>>, Rows', step = 18 => left = {}
  PROVE  Results'
<1>1. /\ (step' >= 8 <=> step >= 8) /\ (step' <= 28 <=> step <= 28)
      /\ (step' >= 29 <=> step >= 29)
  OBVIOUS
<1>2. left = {}
  BY DEF Results
<1>3. Unplayed1' = Unplayed1
  BY Unplayed1Stays
<1>4. \A m \in AllMatches : (Fixture(m)' <=> Fixture(m)) /\ (Blank(m)' <=> Blank(m))
  BY DEF Fixture, Blank, Goalless
<1>5. \A m \in GroupMatches :
        /\ Fixture(m)'
        /\ IF Letter[m[2]] # 1 \/ m \in Unplayed1' THEN Blank(m)'
           ELSE matches'[m].g1 = 1 /\ matches'[m].g2 = 0
  BY <1>3, <1>4, GroupMatch DEF Results
<1>6. step' <= 28 =>
        \A m \in Bracket : Blank(m)' /\ matches'[m].c1 = Null /\ matches'[m].c2 = Null
  BY <1>1, <1>4, BracketMatch DEF Results
<1> QED
  BY <1>1, <1>2, <1>5, <1>6 DEF Results

LEMMA TableAStays ==
  ASSUME TableA, step \in 1 .. 32, step # 17, step' \in {step, step + 1},
         UNCHANGED <<standings, left>>
  PROVE  TableA'
<1>1. Unplayed1' = Unplayed1
  BY Unplayed1Stays
<1> QED
  BY <1>1 DEF TableA, PointsFrom, PointsOf

LEMMA FinalAStays ==
  ASSUME FinalA, step \in 1 .. 32, step \notin {20, 23}, step' \in {step, step + 1},
         UNCHANGED finals
  PROVE  FinalA'
<1>1. (step' <= 20 <=> step <= 20) /\ (step' <= 23 <=> step <= 23)
  OBVIOUS
<1> QED
  BY <1>1 DEF FinalA

LEMMA ScriptPicksStay ==
  ASSUME ScriptPicks, step \in 1 .. 32, step \notin {8, 10, 26}, step' \in {step, step + 1},
         UNCHANGED <<groupPicks, knockoutPicks>>
  PROVE  ScriptPicks'
<1>1. /\ (step' <= 8 <=> step <= 8) /\ (step' <= 10 <=> step <= 10)
      /\ (step' <= 26 <=> step <= 26)
  OBVIOUS
<1> QED
  BY <1>1, Zenon DEF ScriptPicks

LEMMA ScriptScoresStay ==
  ASSUME ScriptScores, step \in 1 .. 32, step \notin {8, 10, 20, 23, 28},
         step' \in {step, step + 1}, UNCHANGED scores
  PROVE  ScriptScores'
<1>1. /\ (step' <= 8 <=> step <= 8) /\ (step' <= 10 <=> step <= 10)
      /\ (step' <= 20 <=> step <= 20) /\ (step' <= 23 <=> step <= 23)
      /\ (step' <= 28 <=> step <= 28)
  OBVIOUS
<1> QED
  BY <1>1, Zenon DEF ScriptScores

LEMMA RowsStay == ASSUME Rows, UNCHANGED <<matches, standings, finals>> PROVE Rows'
  BY DEF Rows

\* A query, or a call that is refused, changes nothing.
Asks == {1, 2, 6, 9, 12, 15, 18, 19, 21, 22, 24, 25, 27, 29, 30, 31}

LEMMA AskKeeps ==
  ASSUME Script, step \in Asks, step = 18 => left = {}, step' = step + 1,
         UNCHANGED <<contestVars, personVars>>
  PROVE  Script'
<1>1. /\ step \in 1 .. 31 /\ step' \in {step, step + 1}
      /\ step \notin {3, 4, 5} /\ step \notin {11, 13, 14, 16} /\ step \notin {7, 17, 28}
      /\ step \notin {20, 23} /\ step \notin {8, 10, 26} /\ step \notin {8, 10, 20, 23, 28}
  BY DEF Asks
<1>2. step' \in 1 .. 32 /\ step # 17 /\ step \in 1 .. 32
  BY <1>1
<1>3. /\ Persons /\ Clubs /\ Results /\ TableA /\ FinalA /\ ScriptPicks /\ ScriptScores /\ Rows
      /\ UNCHANGED <<created, matches, standings, finals, groupPicks, knockoutPicks, scores,
                     account, token, leagues, left>>
  BY DEF Script, Results, contestVars, personVars
<1>4. Rows'
  BY <1>3, RowsStay
<1> HIDE DEF Script
<1>5. Persons' /\ Clubs' /\ Results'
  BY <1>1, <1>2, <1>3, <1>4, PersonsStay, ClubsStay, ResultsStay
<1>6. TableA' /\ FinalA' /\ ScriptPicks' /\ ScriptScores'
  BY <1>1, <1>2, <1>3, TableAStays, FinalAStays, ScriptPicksStay, ScriptScoresStay
<1> QED
  BY <1>2, <1>5, <1>6 DEF Script

LEMMA PartsStay ==
  ASSUME Script, step \in 1 .. 31, step' = step + 1
  PROVE  /\ UNCHANGED <<account, token>> /\ step \notin {3, 4, 5} => Persons'
         /\ UNCHANGED leagues /\ step \notin {11, 13, 14, 16} => Clubs'
         /\ /\ UNCHANGED <<created, matches, standings, finals, left>>
            /\ step \notin {7, 17, 18, 28}
            => Results'
         /\ UNCHANGED <<standings, left>> /\ step # 17 => TableA'
         /\ UNCHANGED finals /\ step \notin {20, 23} => FinalA'
         /\ UNCHANGED <<groupPicks, knockoutPicks>> /\ step \notin {8, 10, 26} => ScriptPicks'
         /\ UNCHANGED scores /\ step \notin {8, 10, 20, 23, 28} => ScriptScores'
         /\ step' \in 1 .. 32
<1>1. /\ Persons /\ Clubs /\ Results /\ TableA /\ FinalA /\ ScriptPicks /\ ScriptScores /\ Rows
      /\ step \in 1 .. 32 /\ step' \in {step, step + 1} /\ step' \in 1 .. 32
  BY DEF Script, Results
<1> HIDE DEF Script
<1>2. /\ UNCHANGED <<account, token>> /\ step \notin {3, 4, 5} => Persons'
      /\ UNCHANGED leagues /\ step \notin {11, 13, 14, 16} => Clubs'
  BY <1>1, PersonsStay, ClubsStay
<1>3. /\ UNCHANGED <<created, matches, standings, finals, left>>
      /\ step \notin {7, 17, 18, 28}
      => Results'
  BY <1>1, RowsStay, ResultsStay
<1>4. /\ UNCHANGED <<standings, left>> /\ step # 17 => TableA'
      /\ UNCHANGED finals /\ step \notin {20, 23} => FinalA'
  BY <1>1, TableAStays, FinalAStays
<1>5. /\ UNCHANGED <<groupPicks, knockoutPicks>> /\ step \notin {8, 10, 26} => ScriptPicks'
      /\ UNCHANGED scores /\ step \notin {8, 10, 20, 23, 28} => ScriptScores'
  BY <1>1, ScriptPicksStay, ScriptScoresStay
<1> QED
  BY <1>1, <1>2, <1>3, <1>4, <1>5

\* The calls that change accounts and tokens.
LEMMA PersonCalls ==
  ASSUME Script, step' = step + 1, UNCHANGED <<contestVars, leagues, left>>,
         \/ step = 3 /\ account' = [account EXCEPT ![NewUser] = NewUser] /\ token' = token
         \/ step = 4 /\ account' = [account EXCEPT ![2] = Null] /\ token' = token
         \/ /\ step = 5 /\ account' = [account EXCEPT ![2] = NewUser + 1]
            /\ token' = [token EXCEPT ![2] = NewUser + 1]
  PROVE  Script'
<1>1. step \in 3 .. 5 /\ UNCHANGED <<created, matches, standings, finals, groupPicks, knockoutPicks, scores>>
  BY DEF contestVars
<1>2. Persons /\ 0 \in People /\ 1 \in People /\ 2 \in People /\ 3 \in People
  BY DEF Script, People
<1>3. Persons'
  <2>1. CASE step = 3
    BY <1>2, <2>1 DEF Persons, Super, NewUser
  <2>2. CASE step = 4
    BY <1>2, <2>2 DEF Persons, Super, NewUser
  <2>3. CASE step = 5
    BY <1>2, <2>3 DEF Persons, Super, NewUser
  <2> QED
    BY <1>1, <2>1, <2>2, <2>3
<1>4. Clubs' /\ Results' /\ TableA' /\ FinalA' /\ ScriptPicks' /\ ScriptScores' /\ step' \in 1 .. 32
  BY <1>1, PartsStay
<1> QED
  BY <1>3, <1>4 DEF Script

\* What the calls about subcontests do to the table.
Join(t) == leagues' = [leagues EXCEPT ![t].members = @ \cup {token[2]}]
Close == leagues' = [t \in DOMAIN leagues \ {"deleted"} |-> leagues[t]]

ClubOf(members) == [owner |-> 1, members |-> members]

LEMMA OpenAdds ==
  ASSUME NEW title, Open(1, title), token[1] = 1, title \notin DOMAIN leagues
  PROVE  /\ DOMAIN leagues' = DOMAIN leagues \cup {title}
         /\ leagues'[title] = ClubOf({1})
         /\ \A t \in DOMAIN leagues : leagues'[t] = leagues[t]
  BY DEF Open, ClubOf

LEMMA JoinAdds ==
  ASSUME NEW title, Join(title), title \in DOMAIN leagues, leagues[title] = ClubOf({1})
  PROVE  /\ DOMAIN leagues' = DOMAIN leagues
         /\ leagues'[title] = ClubOf({1, token[2]})
<1>1. leagues' = [leagues EXCEPT ![title].members = @ \cup {token[2]}]
  BY DEF Join
<1>2. DOMAIN leagues' = DOMAIN leagues
  BY <1>1
<1>3. leagues'[title] = [leagues[title] EXCEPT !.members = @ \cup {token[2]}]
  BY <1>1, Zenon
<1>4. leagues'[title] = [owner |-> 1, members |-> {1} \cup {token[2]}]
  BY <1>3 DEF ClubOf
<1>5. {1} \cup {token[2]} = {1, token[2]}
  OBVIOUS
<1> QED
  BY <1>2, <1>4, <1>5 DEF ClubOf

LEMMA CloseRemoves ==
  ASSUME Close
  PROVE  /\ DOMAIN leagues' = DOMAIN leagues \ {"deleted"}
         /\ \A t \in DOMAIN leagues' : leagues'[t] = leagues[t]
  BY Zenon DEF Close

\* The calls about subcontests.
LEMMA ClubCalls ==
  ASSUME Script, step' = step + 1, UNCHANGED <<contestVars, account, token, left>>,
         \/ step = 11 /\ Open(1, "private")
         \/ step = 13 /\ \E t \in ListSubcontests(1) : Join(t)
         \/ step = 14 /\ Open(1, "deleted")
         \/ step = 16 /\ Close
  PROVE  Script'
<1>1. /\ step \in {11, 13, 14, 16}
      /\ UNCHANGED <<created, matches, standings, finals, groupPicks, knockoutPicks, scores>>
  BY DEF contestVars
<1>2. Clubs /\ Persons
  BY DEF Script
<1>3. token[1] = 1 /\ token[2] = NewUser + 1
  <2>1. ~(step <= 5)
    BY <1>1
  <2> QED
    BY <1>2, <2>1, Zenon DEF Persons
<1>4. Clubs'
  <2>1. CASE step = 11
    <3>1. DOMAIN leagues = {}
      BY <1>2, <2>1 DEF Clubs
    <3>2. DOMAIN leagues' = {"private"} /\ leagues'["private"] = ClubOf({1})
      <4>1. Open(1, "private") /\ "private" \notin DOMAIN leagues
        BY <2>1, <3>1
      <4>2. /\ DOMAIN leagues' = DOMAIN leagues \cup {"private"}
            /\ leagues'["private"] = ClubOf({1})
        BY <1>3, <4>1, OpenAdds
      <4> QED
        BY <3>1, <4>2
    <3>3. step' = 12
      BY <2>1
    <3> QED
      BY <3>2, <3>3 DEF Clubs, ClubOf
  <2>2. CASE step = 13
    <3>1. DOMAIN leagues = {"private"} /\ leagues["private"] = ClubOf({1})
      BY <1>2, <2>2 DEF Clubs, ClubOf
    <3>2. Join("private")
      BY <2>2, <3>1 DEF ListSubcontests
    <3>3. DOMAIN leagues' = {"private"} /\ leagues'["private"] = ClubOf({1, NewUser + 1})
      BY <1>3, <3>1, <3>2, JoinAdds
    <3>4. step' = 14
      BY <2>2
    <3> QED
      BY <3>3, <3>4 DEF Clubs, ClubOf
  <2>3. CASE step = 14
    <3>1. DOMAIN leagues = {"private"} /\ leagues["private"] = ClubOf({1, NewUser + 1})
      BY <1>2, <2>3 DEF Clubs, ClubOf
    <3>2. /\ DOMAIN leagues' = {"private", "deleted"} /\ leagues'["deleted"] = ClubOf({1})
          /\ leagues'["private"] = ClubOf({1, NewUser + 1})
      <4>1. Open(1, "deleted") /\ "deleted" \notin DOMAIN leagues
        BY <2>3, <3>1
      <4>2. /\ DOMAIN leagues' = DOMAIN leagues \cup {"deleted"}
            /\ leagues'["deleted"] = ClubOf({1})
            /\ leagues'["private"] = leagues["private"]
        BY <1>3, <3>1, <4>1, OpenAdds
      <4> QED
        BY <3>1, <4>2
    <3>3. step' = 15
      BY <2>3
    <3> QED
      BY <3>2, <3>3 DEF Clubs, ClubOf
  <2>4. CASE step = 16
    <3>1. /\ DOMAIN leagues = {"private", "deleted"}
          /\ leagues["private"] = ClubOf({1, NewUser + 1})
      BY <1>2, <2>4 DEF Clubs, ClubOf
    <3>2. DOMAIN leagues' = {"private"} /\ leagues'["private"] = leagues["private"]
      BY <2>4, <3>1, CloseRemoves
    <3>3. step' = 17
      BY <2>4
    <3> QED
      BY <3>1, <3>2, <3>3 DEF Clubs, ClubOf
  <2> QED
    BY <1>1, <2>1, <2>2, <2>3, <2>4
<1>5. Persons' /\ Results' /\ TableA' /\ FinalA' /\ ScriptPicks' /\ ScriptScores' /\ step' \in 1 .. 32
  BY <1>1, PartsStay
<1> QED
  BY <1>4, <1>5 DEF Script

\* The six matches of group A.
LEMMA PairingsOfA ==
  /\ 1 \in Letters /\ \A i \in 1 .. 4 : GroupA[i] \in Countries /\ Letter[GroupA[i]] = 1
  /\ \A i, j \in 1 .. 4 : i # j => GroupA[i] # GroupA[j]
  /\ \A i, j \in 1 .. 4 : i < j => <<0, GroupA[i], GroupA[j]>> \in ListGroupMatches(1)
  /\ \A m \in ListGroupMatches(1) :
       \E i, j \in 1 .. 4 : i < j /\ m = <<0, GroupA[i], GroupA[j]>>
<1>1. /\ 1 \in Letters /\ DOMAIN Groups[1] = 1 .. 4
      /\ \A i \in 1 .. 4 : GroupA[i] \in Countries /\ Letter[GroupA[i]] = 1
      /\ \A i, j \in 1 .. 4 : i # j => GroupA[i] # GroupA[j]
  <2>1. 1 \in Letters
    <3>1. Letters = 1 .. 12
      BY LettersOfContest, Zenon
    <3> QED
      BY <3>1
  <2>2. DOMAIN Groups[1] = 1 .. 4
    BY <2>1, LettersOfContest, Zenon
  <2>3. \A i \in 1 .. 4 : Groups[1][i] \in Countries /\ Letter[Groups[1][i]] = 1
    BY <2>1, MembersOfGroup, Zenon
  <2>4. ASSUME NEW i \in 1 .. 4, NEW j \in 1 .. 4, i # j PROVE Groups[1][i] # Groups[1][j]
    BY <2>1, <2>4, OnePlace, Zenon
  <2> QED
    BY <2>1, <2>2, <2>3, <2>4, Zenon DEF GroupA
<1>2. ASSUME NEW i \in 1 .. 4, NEW j \in 1 .. 4, i < j
      PROVE  <<0, GroupA[i], GroupA[j]>> \in ListGroupMatches(1)
  <2> DEFINE m == <<0, GroupA[i], GroupA[j]>>
  <2>1. m[2] = GroupA[i]
    OBVIOUS
  <2>2. \E l \in Letters : \E x, y \in DOMAIN Groups[l] :
          x < y /\ m = <<0, Groups[l][x], Groups[l][y]>>
    BY <1>1, <1>2 DEF GroupA
  <2> HIDE DEF m
  <2>3. m \in GroupMatches
    BY <2>2, GroupPairs
  <2> QED
    BY <1>1, <2>1, <2>3 DEF ListGroupMatches, m
<1>3. ASSUME NEW m \in ListGroupMatches(1)
      PROVE  \E i, j \in 1 .. 4 : i < j /\ m = <<0, GroupA[i], GroupA[j]>>
  <2>1. m \in GroupMatches /\ Letter[m[2]] = 1
    BY DEF ListGroupMatches
  <2>2. PICK l \in Letters : \E i, j \in DOMAIN Groups[l] :
          i < j /\ m = <<0, Groups[l][i], Groups[l][j]>>
    BY <2>1, GroupPairs
  <2>3. PICK i \in 1 .. 4, j \in 1 .. 4 : i < j /\ m = <<0, Groups[l][i], Groups[l][j]>>
    BY <2>2, LettersOfContest
  <2>4. Letter[Groups[l][i]] = l /\ m[2] = Groups[l][i]
    BY <2>3, MembersOfGroup
  <2>5. l = 1
    BY <2>1, <2>4
  <2> QED
    BY <2>3, <2>5 DEF GroupA
<1> QED
  BY <1>1, <1>2, <1>3, Zenon

\* cleanupDB leaves what the first call expects.
LEMMA CleanUpKeeps ==
  ASSUME CleanUp
  PROVE  Script'
<1>1. step' = 1 /\ left' = {} /\ leagues' = <<>> /\ created' = FALSE
  BY DEF CleanUp, TruncateTables
<1>2. /\ matches' = [m \in AllMatches |-> Book!Unplayed(m)]
      /\ standings' = [c \in Countries |-> ZeroStanding]
      /\ finals' = [c \in Countries |-> NoRow]
      /\ groupPicks' = [u \in Users |-> {}] /\ knockoutPicks' = [u \in Users |-> {}]
      /\ scores' = [u \in Users |-> Null]
  BY DEF CleanUp, TruncateTables
<1>3. Persons'
  <2>1. /\ account' = [p \in People |-> IF p = NewUser THEN Null ELSE p] /\ token' = account'
        /\ Super \in People /\ 1 \in People /\ 2 \in People /\ NewUser \in People
        /\ Super # NewUser /\ 1 # NewUser /\ 2 # NewUser
    BY DEF CleanUp, People, Super, NewUser
  <2>2. step' <= 4 /\ step' <= 5 /\ step' <= 3
    BY <1>1
  <2> QED
    BY <2>1, <2>2, Zenon DEF Persons
<1>4. Clubs'
  <2>1. DOMAIN leagues' = {}
    BY <1>1
  <2> QED
    BY <1>1, <2>1 DEF Clubs
<1>5. Rows'
  <2>1. matches' \in [AllMatches -> Book!MatchRow]
    BY <1>2, UnplayedRow
  <2>2. standings' \in [Countries -> Book!StandingRow] /\ \A c \in Countries : standings'[c].cs = 0
    BY <1>2 DEF ZeroStanding, Book!StandingRow
  <2>3. finals' \in [Countries -> [rank : {Null} \cup 1 .. 4, qualifier : {Null} \cup BOOLEAN]]
    BY <1>2 DEF NoRow
  <2> QED
    BY <2>1, <2>2, <2>3 DEF Rows
<1>6. Results'
  <2>1. \A m \in AllMatches : matches'[m] = Book!Unplayed(m)
    BY <1>2
  <2>2. ASSUME NEW m \in GroupMatches
        PROVE  /\ Fixture(m)' /\ Blank(m)'
               /\ Letter[m[2]] # 1 \/ m \in Unplayed1'
    <3>1. m \in AllMatches
      BY GroupMatch
    <3>2. Fixture(m)' /\ Blank(m)'
      BY <2>1, <3>1, UnplayedRow DEF Fixture, Blank, Goalless
    <3>3. Unplayed1' = ListGroupMatches(1)
      BY <1>1 DEF Unplayed1
    <3> QED
      BY <3>2, <3>3 DEF ListGroupMatches
  <2>3. \A m \in Bracket : Blank(m)' /\ matches'[m].c1 = Null /\ matches'[m].c2 = Null
    BY <2>1, BracketMatch, UnplayedRow DEF Blank, Goalless
  <2>4. left' \subseteq ListGroupMatches(1) /\ left' = {} /\ (created' <=> step' >= 8) /\ ~(step' >= 29)
    BY <1>1
  <2> QED
    BY <1>5, <2>2, <2>3, <2>4 DEF Results
<1>7. Unplayed1' = ListGroupMatches(1)
  BY <1>1 DEF Unplayed1
<1>8. \A i \in 1 .. 4 : GroupA[i] \in Countries
  BY LettersOfContest, MembersOfGroup DEF GroupA
<1>9. TableA'
  <2>1. \A i, j \in 1 .. 4 : i < j => <<0, GroupA[i], GroupA[j]>> \in ListGroupMatches(1)
    BY PairingsOfA
  <2>2. \A i, j \in 1 .. 4 : i < j => PointsFrom(i, j)' = 0
    BY <1>7, <2>1 DEF PointsFrom
  <2>3. \A i \in 1 .. 4 : PointsOf(i)' = 0
    BY <1>2, <1>8 DEF PointsOf, ZeroStanding
  <2> QED
    BY <2>2, <2>3 DEF TableA
<1>10. FinalA'
  <2>1. \A i \in 1 .. 4 : finals'[GroupA[i]].rank = Null /\ finals'[GroupA[i]].qualifier = Null
    BY <1>2, <1>8 DEF NoRow
  <2> QED
    BY <1>1, <2>1 DEF FinalA
<1>11. 1 \in Users /\ 2 \in Users
  BY AcceptanceAssumption DEF People
<1>12. ScriptPicks'
  <2>1. step' <= 8 /\ step' <= 10 /\ step' <= 26
    BY <1>1
  <2> QED
    BY <1>2, <1>11, <2>1, Zenon DEF ScriptPicks
<1>13. ScriptScores'
  <2>1. step' <= 8 /\ step' <= 10
    BY <1>1
  <2> QED
    BY <1>2, <1>11, <2>1, Zenon DEF ScriptScores
<1>14. step' \in 1 .. 32
  BY <1>1
<1> QED
  BY <1>3, <1>4, <1>6, <1>9, <1>10, <1>12, <1>13, <1>14 DEF Script

\* The contest is created, and the matches of group A are listed.
LEMMA ContestCalls ==
  ASSUME Script, step' = step + 1, UNCHANGED <<account, token, leagues>>,
         \/ step = 7 /\ CreateContest /\ left' = left
         \/ step = 17 /\ left' = ListGroupMatches(1) /\ UNCHANGED contestVars
  PROVE  Script'
<1>1. /\ step \in {7, 17} /\ step' = step + 1
      /\ UNCHANGED <<matches, standings, finals, groupPicks, knockoutPicks, scores>>
      /\ (created' <=> step' >= 8)
  <2>1. CASE step = 7
    BY <2>1 DEF CreateContest
  <2>2. CASE step = 17
    BY <2>2 DEF contestVars, Script, Results
  <2> QED
    BY <2>1, <2>2
<1>2. Results /\ left = {}
  BY <1>1 DEF Script, Results
<1>3. Unplayed1' = Unplayed1 /\ left' \subseteq ListGroupMatches(1) /\ (step' # 18 => left' = {})
  BY <1>1, <1>2 DEF Unplayed1
<1>4. Results'
  <2>1. Rows'
    BY <1>1, <1>2, RowsStay DEF Results
  <2>2. \A m \in AllMatches : (Fixture(m)' <=> Fixture(m)) /\ (Blank(m)' <=> Blank(m))
    BY <1>1 DEF Fixture, Blank, Goalless
  <2>3. \A m \in GroupMatches :
          /\ Fixture(m)'
          /\ IF Letter[m[2]] # 1 \/ m \in Unplayed1' THEN Blank(m)'
             ELSE matches'[m].g1 = 1 /\ matches'[m].g2 = 0
    BY <1>1, <1>2, <1>3, <2>2, GroupMatch DEF Results
  <2>4. \A m \in Bracket : Blank(m)' /\ matches'[m].c1 = Null /\ matches'[m].c2 = Null
    BY <1>1, <1>2, <2>2, BracketMatch DEF Results
  <2>5. ~(step' >= 29)
    BY <1>1
  <2> QED
    BY <1>1, <1>3, <2>1, <2>3, <2>4, <2>5 DEF Results
<1>5. TableA'
  <2>1. TableA
    BY DEF Script
  <2> QED
    BY <1>1, <1>3, <2>1 DEF TableA, PointsFrom, PointsOf
<1>6. Persons' /\ Clubs' /\ FinalA' /\ ScriptPicks' /\ ScriptScores' /\ step' \in 1 .. 32
  BY <1>1, PartsStay
<1> QED
  BY <1>4, <1>5, <1>6 DEF Script

----------------------------------------------------------------------------
(***************************************************************************)
(* Group A is played                                                       *)
(***************************************************************************)
OneNil(m) == Result(0, Null, m[2], m[3], 1, 0)

LEMMA OneNilIsPayload ==
  ASSUME NEW m, NEW a \in Nat, NEW b \in Nat
  PROVE  GroupPayload(Result(0, Null, m[2], m[3], a, b), m)
  BY DEF GroupPayload, Result

LEMMA WinIsThreePoints ==
  ASSUME NEW s \in Book!StandingRow, NEW row, row.g1 = 1, row.g2 = 0
  PROVE  CreditFirst(s, row).points = s.points + 3 /\ CreditSecond(s, row).points = s.points
<1>1. s.points \in Nat /\ One(1 > 0) = 1 /\ One(1 = 0) = 0 /\ One(0 > 1) = 0 /\ One(0 = 1) = 0
  BY DEF One, Book!StandingRow
<1>2. /\ CreditFirst(s, row).points = s.points + 3 * One(1 > 0) + One(1 = 0)
      /\ CreditSecond(s, row).points = s.points + 3 * One(0 > 1) + One(0 = 1)
  BY DEF CreditFirst, CreditSecond, Credit
<1> QED
  BY <1>1, <1>2

\* What is left of group A when a match of it has yet to be played.
LEMMA LeftToPlay ==
  ASSUME Script, step = 18, NEW m \in left
  PROVE  /\ Rows /\ (\A n \in GroupMatches : Fixture(n))
         /\ m \in GroupMatches /\ Letter[m[2]] = 1 /\ Blank(m) /\ Goalless(m)
         /\ GroupPayload(OneNil(m), m) /\ OneNil(m).g1 = 1 /\ OneNil(m).g2 = 0
<1>1. Results /\ left \subseteq ListGroupMatches(1)
  BY DEF Script, Results
<1>2. m \in GroupMatches /\ Letter[m[2]] = 1
  BY <1>1 DEF ListGroupMatches
<1>3. m \in Unplayed1
  BY DEF Unplayed1
<1>4. Rows /\ (\A n \in GroupMatches : Fixture(n)) /\ Blank(m)
  BY <1>1, <1>2, <1>3 DEF Results
<1>5. GroupPayload(OneNil(m), m)
  BY OneNilIsPayload DEF OneNil
<1> QED
  BY <1>2, <1>4, <1>5 DEF Blank, OneNil, Result

LEMMA OneNilAccepted ==
  ASSUME Script, step = 18, NEW m \in left
  PROVE  AcceptsMatch(OneNil(m))
  BY LeftToPlay, GroupCall

LEMMA OneNilKeeps ==
  ASSUME Script, step = 18, NEW m \in left, RecordMatch(OneNil(m)), left' = left \ {m},
         step' = step, UNCHANGED <<account, token, leagues>>
  PROVE  Script'
<1> DEFINE p == OneNil(m)
           new == Book!Merge(m, matches[m], p)
<1>1. /\ Rows /\ (\A n \in GroupMatches : Fixture(n))
      /\ m \in GroupMatches /\ Letter[m[2]] = 1 /\ Blank(m) /\ Goalless(m)
      /\ GroupPayload(p, m) /\ p.g1 = 1 /\ p.g2 = 0
  BY LeftToPlay
<1> HIDE DEF p
<1>2. /\ new \in Book!MatchRow /\ new.c1 = m[2] /\ new.c2 = m[3]
      /\ new.cs1 = Null /\ new.cs2 = Null /\ new.g1 = 1 /\ new.g2 = 0
  BY <1>1, GroupCall
<1>3. RecordMatch(p)
  BY DEF p
<1>4. /\ matches' = [matches EXCEPT ![m] = new]
      /\ standings' = [standings EXCEPT ![new.c1] = CreditFirst(@, new),
                                        ![new.c2] = CreditSecond(@, new)]
      /\ UNCHANGED <<created, finals, groupPicks, knockoutPicks>>
      /\ scores' = [u \in Users |-> scores[u]]
  BY <1>1, <1>3, GroupEffect
<1> HIDE DEF new
<1>5. PICK i \in 1 .. 4, j \in 1 .. 4 : i < j /\ m = <<0, GroupA[i], GroupA[j]>>
  BY <1>1, PairingsOfA DEF ListGroupMatches
<1>6. new.c1 = GroupA[i] /\ new.c2 = GroupA[j] /\ GroupA[i] \in Countries /\ GroupA[j] \in Countries
      /\ GroupA[i] # GroupA[j]
  BY <1>2, <1>5, PairingsOfA
<1>7. \A c \in Countries :
        /\ standings[c] \in Book!StandingRow /\ standings[c].cs = 0
        /\ standings'[c] = IF c = GroupA[i] THEN CreditFirst(standings[c], new)
                           ELSE IF c = GroupA[j] THEN CreditSecond(standings[c], new)
                           ELSE standings[c]
  BY <1>1, <1>4, <1>6 DEF Rows
<1>8. Rows'
  <2>1. m \in AllMatches
    BY <1>1, GroupMatch
  <2>2. matches' \in [AllMatches -> Book!MatchRow]
    BY <1>1, <1>2, <1>4, <2>1 DEF Rows
  <2>3. \A c \in Countries : standings'[c] \in Book!StandingRow /\ standings'[c].cs = 0
    <3>1. new.g1 \in Nat /\ new.g2 \in Nat
      BY <1>2
    <3> QED
      BY <1>2, <1>7, <3>1, CreditedStanding
  <2>4. standings' \in [Countries -> Book!StandingRow]
    BY <1>1, <1>4, <2>3 DEF Rows
  <2> QED
    BY <1>1, <1>4, <2>2, <2>3, <2>4 DEF Rows
<1>9. Unplayed1' = Unplayed1 \ {m} /\ m \in Unplayed1
  BY DEF Unplayed1
<1>10. Results'
  <2>1. Results
    BY DEF Script
  <2>2. \A n \in AllMatches : n # m => matches'[n] = matches[n]
    BY <1>1, <1>4 DEF Rows
  <2>3. matches'[m] = new
    <3>1. m \in AllMatches
      BY <1>1, GroupMatch
    <3> QED
      BY <1>1, <1>4, <3>1 DEF Rows
  <2>4. ASSUME NEW n \in GroupMatches
        PROVE  /\ Fixture(n)'
               /\ IF Letter[n[2]] # 1 \/ n \in Unplayed1' THEN Blank(n)'
                  ELSE matches'[n].g1 = 1 /\ matches'[n].g2 = 0
    <3>1. CASE n = m
      BY <1>1, <1>2, <1>9, <2>3, <3>1 DEF Fixture
    <3>2. CASE n # m
      <4>1. matches'[n] = matches[n]
        BY <2>2, <3>2, GroupMatch
      <4>2. (Fixture(n)' <=> Fixture(n)) /\ (Blank(n)' <=> Blank(n))
        BY <4>1 DEF Fixture, Blank, Goalless
      <4>3. n \in Unplayed1' <=> n \in Unplayed1
        BY <1>9, <3>2
      <4> QED
        BY <2>1, <4>1, <4>2, <4>3 DEF Results
    <3> QED
      BY <3>1, <3>2
  <2>5. ASSUME NEW n \in Bracket
        PROVE  Blank(n)' /\ matches'[n].c1 = Null /\ matches'[n].c2 = Null
    <3>1. matches'[n] = matches[n]
      BY <1>1, <2>2, BracketMatch
    <3>2. Blank(n) /\ matches[n].c1 = Null /\ matches[n].c2 = Null
      BY <2>1 DEF Results
    <3> QED
      BY <3>1, <3>2 DEF Blank, Goalless
  <2>6. left' \subseteq ListGroupMatches(1) /\ step' = 18 /\ (created' <=> step' >= 8)
    BY <1>4, <2>1 DEF Results
  <2> QED
    BY <1>8, <2>4, <2>5, <2>6 DEF Results
<1>11. TableA'
  <2>1. \A k \in 1 .. 4 :
          PointsOf(k) \in Nat /\ PointsOf(k)' = PointsOf(k) + (IF k = i THEN 3 ELSE 0)
    <3> TAKE k \in 1 .. 4
    <3>1. /\ GroupA[k] \in Countries /\ (GroupA[k] = GroupA[i] <=> k = i)
          /\ (GroupA[k] = GroupA[j] <=> k = j)
      BY PairingsOfA
    <3>2. PointsOf(k) \in Nat
      BY <1>7, <3>1 DEF PointsOf, Book!StandingRow
    <3>3. /\ CreditFirst(standings[GroupA[k]], new).points = PointsOf(k) + 3
          /\ CreditSecond(standings[GroupA[k]], new).points = PointsOf(k)
      BY <1>2, <1>7, <3>1, WinIsThreePoints DEF PointsOf
    <3>4. PointsOf(k)' = standings'[GroupA[k]].points
      BY DEF PointsOf
    <3> QED
      BY <1>7, <3>1, <3>2, <3>3, <3>4 DEF PointsOf
  <2>2. \A x, y \in 1 .. 4 :
          x < y => /\ PointsFrom(x, y) \in Nat
                   /\ PointsFrom(x, y)' = PointsFrom(x, y) + (IF x = i /\ y = j THEN 3 ELSE 0)
    <3> TAKE x, y \in 1 .. 4
    <3> HAVE x < y
    <3>1. <<0, GroupA[x], GroupA[y]>> = m <=> x = i /\ y = j
      BY <1>5, PairingsOfA
    <3>2. /\ PointsFrom(x, y) = IF <<0, GroupA[x], GroupA[y]>> \in Unplayed1 THEN 0 ELSE 3
          /\ PointsFrom(x, y)' = IF <<0, GroupA[x], GroupA[y]>> \in Unplayed1' THEN 0 ELSE 3
      BY DEF PointsFrom
    <3> QED
      BY <1>9, <3>1, <3>2
  <2>3. TableA
    BY DEF Script
  <2>4. /\ PointsOf(1)' = PointsFrom(1, 2)' + PointsFrom(1, 3)' + PointsFrom(1, 4)'
        /\ PointsOf(2)' = PointsFrom(2, 3)' + PointsFrom(2, 4)'
        /\ PointsOf(3)' = PointsFrom(3, 4)'
        /\ PointsOf(4)' = 0
    BY <1>5, <2>1, <2>2, <2>3 DEF TableA
  <2> QED
    BY <2>4 DEF TableA
<1>12. Persons' /\ Clubs' /\ FinalA' /\ ScriptPicks' /\ ScriptScores'
  <2>1. /\ Persons /\ Clubs /\ FinalA /\ ScriptPicks /\ ScriptScores
        /\ step \in 1 .. 32 /\ step' \in {step, step + 1}
        /\ step \notin {3, 4, 5} /\ step \notin {11, 13, 14, 16} /\ step \notin {20, 23}
        /\ step \notin {8, 10, 26} /\ step \notin {8, 10, 20, 23, 28}
    BY DEF Script
  <2>2. scores' = scores
    BY <1>4, <2>1, Zenon DEF ScriptScores
  <2>3. Persons' /\ Clubs' /\ FinalA'
    BY <1>4, <2>1, PersonsStay, ClubsStay, FinalAStays
  <2>4. ScriptPicks' /\ ScriptScores'
    BY <1>4, <2>1, <2>2, ScriptPicksStay, ScriptScoresStay
  <2> QED
    BY <2>3, <2>4
<1> QED
  BY <1>10, <1>11, <1>12 DEF Script

\* None of the matches of group A can end again.
LEMMA NoMatchTwice ==
  ASSUME Script, step = 18, left = {}, NEW m \in ListGroupMatches(1)
  PROVE  ~AcceptsMatch(Result(0, Null, m[2], m[3], 3, 2))
<1> DEFINE p == Result(0, Null, m[2], m[3], 3, 2)
<1>1. m \in GroupMatches /\ Letter[m[2]] = 1 /\ m \notin Unplayed1 /\ Results
  BY DEF ListGroupMatches, Unplayed1, Script
<1>2. (\A n \in GroupMatches : Fixture(n)) /\ matches[m].g1 = 1 /\ matches[m].g2 = 0
  BY <1>1 DEF Results
<1>3. GroupPayload(p, m)
  BY OneNilIsPayload
<1> HIDE DEF p
<1>4. Book!Found(matches, p) = {m}
  BY <1>1, <1>2, <1>3, FoundByCountries
<1>5. Completed(matches[m])
  BY <1>2, ColumnAssumption DEF Completed
<1>6. ~AcceptsMatch(p)
  BY <1>4, <1>5, SameRules DEF AcceptsMatch, Book!Accepted
<1> QED
  BY <1>6 DEF p

----------------------------------------------------------------------------
(***************************************************************************)
(* Group A is finalized                                                    *)
(***************************************************************************)
PicksOf(u, l) == {p \in groupPicks[u] : p.letter = l}
PaidFor(rank, u, l) ==
  Total([p \in PicksOf(u, l) |-> BasePoints(rank[p.country]) * Multiplier(p.place)], PicksOf(u, l))

\* The points are a sum of weights.
LEMMA BaseTotal ==
  ASSUME NEW rank, NEW P
  PROVE  MapThenSumSet(LAMBDA p : BasePoints(rank[p.country]) * Multiplier(p.place), P) =
           Total([p \in P |-> BasePoints(rank[p.country]) * Multiplier(p.place)], P)
<1> DEFINE base(p) == BasePoints(rank[p.country]) * Multiplier(p.place)
           w == [p \in P |-> base(p)]
           ByBase(f) == [s \in SUBSET P |->
                           IF s = {} THEN 0 ELSE base(Chosen(s)) + f[s \ {Chosen(s)}]]
           ByWeight(f) == [s \in SUBSET P |->
                             IF s = {} THEN 0 ELSE w[Chosen(s)] + f[s \ {Chosen(s)}]]
<1>1. MapThenSumSet(LAMBDA p : base(p), P) = (CHOOSE f : f = ByBase(f))[P]
  BY DEF MapThenSumSet, MapThenFoldSet, Chosen
<1>2. Total(w, P) = (CHOOSE f : f = ByWeight(f))[P]
  BY DEF Total, MapThenSumSet, MapThenFoldSet, Chosen
<1>3. ASSUME NEW f PROVE ByBase(f) = ByWeight(f)
  <2>1. ASSUME NEW s \in SUBSET P, s # {} PROVE base(Chosen(s)) = w[Chosen(s)]
    <3>1. Chosen(s) \in P
      BY <2>1, ChosenIsElement
    <3> QED
      BY <3>1
  <2> HIDE DEF base, w
  <2> QED
    BY <2>1
<1> HIDE DEF ByBase, ByWeight
<1>4. (CHOOSE f : f = ByBase(f)) = (CHOOSE f : f = ByWeight(f))
  BY <1>3, Zenon
<1> HIDE DEF base, w
<1>5. MapThenSumSet(LAMBDA p : base(p), P) = Total(w, P)
  BY <1>1, <1>2, <1>4
<1> QED
  BY <1>5 DEF base, w

\* What finalizing a group writes and pays, for the ranks of its countries.
RanksWritten(l, order, rank) ==
  /\ \A c \in CountriesOf(l) : rank[c] \in 1 .. 4 /\ order[rank[c]] = c
  /\ finals' = [c \in Countries |->
       IF c \in CountriesOf(l) THEN [finals[c] EXCEPT !.rank = rank[c]] ELSE finals[c]]
  /\ scores' = [u \in Users |->
       IF PicksOf(u, l) # {} THEN [scores[u] EXCEPT !.group = @ + PaidFor(rank, u, l)]
       ELSE scores[u]]

LEMMA RankingsPay ==
  ASSUME NEW l \in Letters, NEW order, ToSet(order) = CountriesOf(l), DOMAIN order = 1 .. 4,
         FinalizeRankings(l, order)
  PROVE  \E rank : RanksWritten(l, order, rank)
<1> DEFINE S == ToSet(order)
           rank == [c \in S |-> CHOOSE i \in DOMAIN order : order[i] = c]
           points(u) == MapThenSumSet(
                          LAMBDA p : BasePoints(rank[p.country]) * Multiplier(p.place),
                          PicksOf(u, l))
<1>1. S = CountriesOf(l) /\ S = {order[i] : i \in 1 .. 4}
  BY DEF ToSet
<1>2. ASSUME NEW c \in CountriesOf(l) PROVE rank[c] \in 1 .. 4 /\ order[rank[c]] = c
  <2>1. c \in S
    BY <1>1, <1>2
  <2>2. \E i \in 1 .. 4 : order[i] = c
    BY <1>1, <1>2
  <2>3. rank[c] = CHOOSE i \in DOMAIN order : order[i] = c
    BY <2>1
  <2> HIDE DEF rank
  <2> QED
    BY <2>2, <2>3
<1>3. finals' = [c \in Countries |->
           IF c \in S THEN [finals[c] EXCEPT !.rank = rank[c]] ELSE finals[c]]
  BY DEF FinalizeRankings
<1>4. Pay("group", [u \in {v \in Users : PicksOf(v, l) # {}} |-> points(u)])
  BY Zenon DEF FinalizeRankings, PicksOf
<1>5. \A u : points(u) = PaidFor(rank, u, l)
  BY BaseTotal DEF PaidFor
<1> HIDE DEF rank, points, S
<1>6. scores' = [u \in Users |->
           IF PicksOf(u, l) # {} THEN [scores[u] EXCEPT !.group = @ + points(u)]
           ELSE scores[u]]
  BY <1>4 DEF Pay
<1>7. scores' = [u \in Users |->
           IF PicksOf(u, l) # {} THEN [scores[u] EXCEPT !.group = @ + PaidFor(rank, u, l)]
           ELSE scores[u]]
  BY <1>5, <1>6
<1>8. RanksWritten(l, order, rank)
  BY <1>1, <1>2, <1>3, <1>7 DEF RanksWritten
<1> QED
  BY <1>8

LEMMA GroupAIs ==
  /\ DOMAIN GroupA = 1 .. 4 /\ CountriesOf(1) = {GroupA[i] : i \in 1 .. 4}
  /\ CountriesOf(1) = {c \in Countries : Letter[c] = 1}
  BY GroupsOfContest, PairingsOfA, Zenon DEF GroupA

\* The ranks of the list, and the points they bring.
LEMMA RankingsEffect ==
  ASSUME FinalizeRankings(1, GroupA)
  PROVE  \E rank :
           /\ \A i \in 1 .. 4 : rank[GroupA[i]] = i
           /\ finals' = [c \in Countries |->
                IF c \in CountriesOf(1) THEN [finals[c] EXCEPT !.rank = rank[c]] ELSE finals[c]]
           /\ scores' = [u \in Users |->
                IF PicksOf(u, 1) # {} THEN [scores[u] EXCEPT !.group = @ + PaidFor(rank, u, 1)]
                ELSE scores[u]]
           /\ UNCHANGED <<created, matches, standings, groupPicks, knockoutPicks>>
<1>1. /\ ToSet(GroupA) = CountriesOf(1) /\ DOMAIN GroupA = 1 .. 4 /\ 1 \in Letters
      /\ \A i \in 1 .. 4 : GroupA[i] \in CountriesOf(1)
      /\ \A i, j \in 1 .. 4 : GroupA[i] = GroupA[j] => i = j
  <2>1. 1 \in Letters /\ DOMAIN Groups[1] = 1 .. 4
    BY LettersOfContest
  <2>2. \A i, j \in 1 .. 4 : Groups[1][i] = Groups[1][j] => i = j
    BY <2>1, OnePlace
  <2> QED
    BY <2>1, <2>2 DEF GroupA, CountriesOf, ToSet
<1>2. PICK rank : RanksWritten(1, GroupA, rank)
  BY <1>1, RankingsPay
<1>3. ASSUME NEW i \in 1 .. 4 PROVE rank[GroupA[i]] = i
  <2>1. GroupA[i] \in CountriesOf(1)
    BY <1>1
  <2>2. rank[GroupA[i]] \in 1 .. 4 /\ GroupA[rank[GroupA[i]]] = GroupA[i]
    BY <1>2, <2>1 DEF RanksWritten
  <2> QED
    BY <1>1, <2>2
<1>4. UNCHANGED <<created, matches, standings, groupPicks, knockoutPicks>>
  BY Zenon DEF FinalizeRankings
<1> QED
  BY <1>2, <1>3, <1>4 DEF RanksWritten

\* What four rows are worth together.
FourRows(S, a, b, c, d) ==
  a # b /\ a # c /\ a # d /\ b # c /\ b # d /\ c # d /\ S = {a, b, c, d}
FourWeights(w, a, b, c, d, x, y, z, v) ==
  /\ x \in Int /\ y \in Int /\ z \in Int /\ v \in Int
  /\ w[a] = x /\ w[b] = y /\ w[c] = z /\ w[d] = v

LEMMA TotalOfFour ==
  ASSUME NEW a, NEW b, NEW c, NEW d, NEW S, FourRows(S, a, b, c, d),
         NEW w, NEW x, NEW y, NEW z, NEW v, FourWeights(w, a, b, c, d, x, y, z, v)
  PROVE  Total(w, S) = x + y + z + v
<1>0. /\ a # b /\ a # c /\ a # d /\ b # c /\ b # d /\ c # d /\ S = {a, b, c, d}
      /\ x \in Int /\ y \in Int /\ z \in Int /\ v \in Int
      /\ w[a] = x /\ w[b] = y /\ w[c] = z /\ w[d] = v
  BY DEF FourRows, FourWeights
<1> USE <1>0
<1>1. IsFiniteSet({}) /\ IsFiniteSet({a}) /\ IsFiniteSet({a, b}) /\ IsFiniteSet({a, b, c})
  <2>1. IsFiniteSet({}) /\ IsFiniteSet({a})
    BY FS_EmptySet, FS_Singleton
  <2>2. IsFiniteSet({a} \cup {b})
    BY <2>1, FS_AddElement
  <2>3. IsFiniteSet(({a} \cup {b}) \cup {c})
    BY <2>2, FS_AddElement
  <2>4. {a} \cup {b} = {a, b} /\ ({a} \cup {b}) \cup {c} = {a, b, c}
    OBVIOUS
  <2> QED
    BY <2>1, <2>2, <2>3, <2>4
<1>2. Total(w, {} \cup {a}) = w[a] + Total(w, {})
  <2>1. \A e \in {} \cup {a} : w[e] \in Int
    OBVIOUS
  <2> QED
    BY <1>1, <2>1, TotalWith
<1>3. Total(w, {a} \cup {b}) = w[b] + Total(w, {a})
  <2>1. \A e \in {a} \cup {b} : w[e] \in Int
    OBVIOUS
  <2> QED
    BY <1>1, <2>1, TotalWith
<1>4. Total(w, {a, b} \cup {c}) = w[c] + Total(w, {a, b})
  <2>1. (\A e \in {a, b} \cup {c} : w[e] \in Int) /\ c \notin {a, b}
    OBVIOUS
  <2> QED
    BY <1>1, <2>1, TotalWith
<1>5. Total(w, {a, b, c} \cup {d}) = w[d] + Total(w, {a, b, c})
  <2>1. (\A e \in {a, b, c} \cup {d} : w[e] \in Int) /\ d \notin {a, b, c}
    OBVIOUS
  <2> QED
    BY <1>1, <2>1, TotalWith
<1>6. /\ {} \cup {a} = {a} /\ {a} \cup {b} = {a, b} /\ {a, b} \cup {c} = {a, b, c}
      /\ {a, b, c} \cup {d} = {a, b, c, d}
  OBVIOUS
<1>7. Total(w, {}) = 0
  BY TotalEmpty
<1>8. /\ Total(w, {a}) = w[a] + 0 /\ Total(w, {a, b}) = w[b] + Total(w, {a})
      /\ Total(w, {a, b, c}) = w[c] + Total(w, {a, b})
      /\ Total(w, {a, b, c, d}) = w[d] + Total(w, {a, b, c})
  BY <1>2, <1>3, <1>4, <1>5, <1>6, <1>7, Zenon
<1> DEFINE t1 == Total(w, {a})
           t2 == Total(w, {a, b})
           t3 == Total(w, {a, b, c})
           t4 == Total(w, {a, b, c, d})
<1>9. t1 = w[a] + 0 /\ t2 = w[b] + t1 /\ t3 = w[c] + t2 /\ t4 = w[d] + t3
  BY <1>8
<1> HIDE DEF t1, t2, t3, t4
<1>10. t4 = x + y + z + v
  BY <1>9
<1>11. Total(w, {a, b, c, d}) = x + y + z + v
  BY <1>10 DEF t4
<1> QED
  BY <1>11

\* The four rows a user of the script has for group A, and what the ranks of the
\* list bring for them.
ScriptPick(c, i, extra) == [letter |-> 1, country |-> c, place |-> i, extra |-> extra]

LEMMA PaidByPlaces ==
  ASSUME NEW u, NEW rank, \A i \in 1 .. 4 : rank[GroupA[i]] = i, NEW extra,
         NEW x \in 1 .. 4, NEW y \in 1 .. 4,
         PicksOf(u, 1) = {ScriptPick(GroupA[1], 1, extra), ScriptPick(GroupA[2], 2, extra),
                        ScriptPick(GroupA[x], 3, extra), ScriptPick(GroupA[y], 4, extra)}
  PROVE  PicksOf(u, 1) # {} /\ PaidFor(rank, u, 1) = 42 + BasePoints(x)
<1> DEFINE a == ScriptPick(GroupA[1], 1, extra)
           b == ScriptPick(GroupA[2], 2, extra)
           c == ScriptPick(GroupA[x], 3, extra)
           d == ScriptPick(GroupA[y], 4, extra)
           w == [p \in PicksOf(u, 1) |-> BasePoints(rank[p.country]) * Multiplier(p.place)]
<1>1. /\ a.place = 1 /\ b.place = 2 /\ c.place = 3 /\ d.place = 4
      /\ rank[a.country] = 1 /\ rank[b.country] = 2 /\ rank[c.country] = x /\ rank[d.country] = y
  <2>1. 1 \in 1 .. 4 /\ 2 \in 1 .. 4
    OBVIOUS
  <2> QED
    BY <2>1 DEF ScriptPick
<1> HIDE DEF a, b, c, d
<1>2. a # b /\ a # c /\ a # d /\ b # c /\ b # d /\ c # d
  BY <1>1
<1>3. PicksOf(u, 1) = {a, b, c, d}
  BY DEF a, b, c, d
<1>4. /\ w[a] = BasePoints(1) * Multiplier(1) /\ w[b] = BasePoints(2) * Multiplier(2)
      /\ w[c] = BasePoints(x) * Multiplier(3) /\ w[d] = BasePoints(y) * Multiplier(4)
  BY <1>1, <1>3
<1>5. /\ BasePoints(1) = 10 /\ BasePoints(2) = 6 /\ BasePoints(x) \in Int /\ BasePoints(y) \in Int
      /\ Multiplier(1) = 3 /\ Multiplier(2) = 2 /\ Multiplier(3) = 1 /\ Multiplier(4) = 0
  BY DEF BasePoints, Multiplier
<1>6. w[a] = 30 /\ w[b] = 12 /\ w[c] = BasePoints(x) /\ w[d] = 0
  BY <1>4, <1>5
<1> DEFINE base == BasePoints(x)
           P == PicksOf(u, 1)
<1>7. w[a] = 30 /\ w[b] = 12 /\ w[c] = base /\ w[d] = 0 /\ base \in Int /\ P = {a, b, c, d}
  BY <1>3, <1>5, <1>6
<1>8. PaidFor(rank, u, 1) = Total(w, P)
  BY DEF PaidFor
<1> HIDE DEF w, base, P
<1>9. Total(w, P) = 30 + 12 + base + 0
  <2>1. FourRows(P, a, b, c, d)
    BY <1>2, <1>7 DEF FourRows
  <2>2. FourWeights(w, a, b, c, d, 30, 12, base, 0)
    BY <1>7 DEF FourWeights
  <2> QED
    BY <2>1, <2>2, TotalOfFour
<1>10. Total(w, P) = 42 + base
  BY <1>7, <1>9
<1>11. P # {}
  BY <1>7
<1> QED
  BY <1>8, <1>10, <1>11 DEF base, P

\* What the two users predicted for group A.
LEMMA PicksForA ==
  ASSUME Script, step >= 11
  PROVE  /\ 1 \in Users /\ 2 \in Users
         /\ \A u \in Users \ {1, 2} : PicksOf(u, 1) = {}
         /\ PicksOf(1, 1) = {ScriptPick(GroupA[1], 1, TRUE), ScriptPick(GroupA[2], 2, TRUE),
                           ScriptPick(GroupA[3], 3, TRUE), ScriptPick(GroupA[4], 4, TRUE)}
         /\ PicksOf(2, 1) = {ScriptPick(GroupA[1], 1, FALSE), ScriptPick(GroupA[2], 2, FALSE),
                           ScriptPick(GroupA[4], 3, FALSE), ScriptPick(GroupA[3], 4, FALSE)}
<1>1. 1 \in Users /\ 2 \in Users
  BY AcceptanceAssumption DEF People
<1>2. ScriptPicks /\ ~(step <= 8) /\ ~(step <= 10) /\ 1 \in Letters
  BY LettersOfContest DEF Script
<1>3. /\ \A u \in Users \ {1, 2} : groupPicks[u] = {}
      /\ groupPicks[1] = PickRows(<<1, 2, 3, 4>>, TRUE)
      /\ groupPicks[2] = PickRows(<<1, 2, 4, 3>>, FALSE)
  BY <1>2, Zenon DEF ScriptPicks
<1>4. ASSUME NEW order, NEW extra
      PROVE  {p \in PickRows(order, extra) : p.letter = 1} =
               {ScriptPick(GroupA[order[i]], i, extra) : i \in 1 .. 4}
  BY <1>2 DEF PickRows, ScriptPick, GroupA
<1>5. ASSUME NEW order, NEW extra
      PROVE  {ScriptPick(GroupA[order[i]], i, extra) : i \in 1 .. 4} =
               {ScriptPick(GroupA[order[1]], 1, extra), ScriptPick(GroupA[order[2]], 2, extra),
                ScriptPick(GroupA[order[3]], 3, extra), ScriptPick(GroupA[order[4]], 4, extra)}
  <2> DEFINE f(i) == ScriptPick(GroupA[order[i]], i, extra)
  <2> HIDE DEF f
  <2>1. {f(i) : i \in 1 .. 4} = {f(1), f(2), f(3), f(4)}
    OBVIOUS
  <2> QED
    BY <2>1 DEF f
<1>6. ASSUME NEW u, NEW order, NEW extra, groupPicks[u] = PickRows(order, extra)
      PROVE  PicksOf(u, 1) =
               {ScriptPick(GroupA[order[1]], 1, extra), ScriptPick(GroupA[order[2]], 2, extra),
                ScriptPick(GroupA[order[3]], 3, extra), ScriptPick(GroupA[order[4]], 4, extra)}
  <2>1. PicksOf(u, 1) = {p \in PickRows(order, extra) : p.letter = 1}
    BY <1>6 DEF PicksOf
  <2> QED
    BY <1>4, <1>5, <2>1
<1>7. PicksOf(1, 1) = {ScriptPick(GroupA[1], 1, TRUE), ScriptPick(GroupA[2], 2, TRUE),
                     ScriptPick(GroupA[3], 3, TRUE), ScriptPick(GroupA[4], 4, TRUE)}
  <2> DEFINE order == <<1, 2, 3, 4>>
  <2>1. order[1] = 1 /\ order[2] = 2 /\ order[3] = 3 /\ order[4] = 4
    OBVIOUS
  <2>2. groupPicks[1] = PickRows(order, TRUE)
    BY <1>3
  <2> HIDE DEF order
  <2>3. PicksOf(1, 1) =
          {ScriptPick(GroupA[order[1]], 1, TRUE), ScriptPick(GroupA[order[2]], 2, TRUE),
           ScriptPick(GroupA[order[3]], 3, TRUE), ScriptPick(GroupA[order[4]], 4, TRUE)}
    BY <1>6, <2>2
  <2> QED
    BY <2>1, <2>3, Zenon
<1>8. PicksOf(2, 1) = {ScriptPick(GroupA[1], 1, FALSE), ScriptPick(GroupA[2], 2, FALSE),
                     ScriptPick(GroupA[4], 3, FALSE), ScriptPick(GroupA[3], 4, FALSE)}
  <2> DEFINE order == <<1, 2, 4, 3>>
  <2>1. order[1] = 1 /\ order[2] = 2 /\ order[3] = 4 /\ order[4] = 3
    OBVIOUS
  <2>2. groupPicks[2] = PickRows(order, FALSE)
    BY <1>3
  <2> HIDE DEF order
  <2>3. PicksOf(2, 1) =
          {ScriptPick(GroupA[order[1]], 1, FALSE), ScriptPick(GroupA[order[2]], 2, FALSE),
           ScriptPick(GroupA[order[3]], 3, FALSE), ScriptPick(GroupA[order[4]], 4, FALSE)}
    BY ZenonT(40), <1>6, <2>2
  <2> QED
    BY <2>1, <2>3, Zenon
<1>9. \A u \in Users \ {1, 2} : PicksOf(u, 1) = {}
  BY <1>3 DEF PicksOf
<1> QED
  BY <1>1, <1>7, <1>8, <1>9

\* The rankings are accepted once, and pay 45 and 43 points.
LEMMA RankingsAccepted ==
  ASSUME Script, step \in {20, 21}
  PROVE  AcceptsRankings(1) <=> step = 20
<1>1. Results /\ FinalA /\ left = {}
  BY DEF Script, Results
<1>2. \A m \in GroupMatches : Letter[m[2]] = 1 => Completed(matches[m])
  <2>1. ~(step <= 17)
    OBVIOUS
  <2>2. Unplayed1 = {}
    BY <1>1, <2>1, Zenon DEF Unplayed1
  <2>3. \A m \in GroupMatches : Letter[m[2]] = 1 => matches[m].g1 = 1 /\ matches[m].g2 = 0
    BY <1>1, <2>2 DEF Results
  <2> QED
    BY <2>3, ColumnAssumption DEF Completed
<1>3. CountriesOf(1) = {GroupA[i] : i \in 1 .. 4}
  BY GroupAIs
<1>4. \A i \in 1 .. 4 : finals[GroupA[i]].rank = IF step <= 20 THEN Null ELSE i
  BY <1>1 DEF FinalA
<1>5. step = 20 => AcceptsRankings(1)
  <2>1. step = 20 => step <= 20
    OBVIOUS
  <2> QED
    BY <1>2, <1>3, <1>4, <2>1, Zenon DEF AcceptsRankings
<1>6. step = 21 => ~AcceptsRankings(1)
  <2>1. Null # 1 /\ 1 \in 1 .. 4
    BY ColumnAssumption
  <2>2. step = 21 => finals[GroupA[1]].rank = 1
    BY <1>4, <2>1
  <2> QED
    BY <1>3, <2>1, <2>2 DEF AcceptsRankings
<1> QED
  BY <1>5, <1>6

LEMMA RankingsKeep ==
  ASSUME Script, step = 20, FinalizeRankings(1, GroupA), step' = step + 1,
         UNCHANGED personVars
  PROVE  Script'
<1>1. step >= 11
  OBVIOUS
<1>2. PICK rank :
           /\ \A i \in 1 .. 4 : rank[GroupA[i]] = i
           /\ finals' = [c \in Countries |->
                IF c \in CountriesOf(1) THEN [finals[c] EXCEPT !.rank = rank[c]] ELSE finals[c]]
           /\ scores' = [u \in Users |->
                IF PicksOf(u, 1) # {} THEN [scores[u] EXCEPT !.group = @ + PaidFor(rank, u, 1)]
                ELSE scores[u]]
           /\ UNCHANGED <<created, matches, standings, groupPicks, knockoutPicks>>
  BY RankingsEffect
<1>3. /\ 1 \in Users /\ 2 \in Users
      /\ \A u \in Users \ {1, 2} : PicksOf(u, 1) = {}
      /\ PicksOf(1, 1) = {ScriptPick(GroupA[1], 1, TRUE), ScriptPick(GroupA[2], 2, TRUE),
                        ScriptPick(GroupA[3], 3, TRUE), ScriptPick(GroupA[4], 4, TRUE)}
      /\ PicksOf(2, 1) = {ScriptPick(GroupA[1], 1, FALSE), ScriptPick(GroupA[2], 2, FALSE),
                        ScriptPick(GroupA[4], 3, FALSE), ScriptPick(GroupA[3], 4, FALSE)}
  BY <1>1, PicksForA, Zenon
<1>4. /\ PicksOf(1, 1) # {} /\ PaidFor(rank, 1, 1) = 42 + BasePoints(3)
      /\ PicksOf(2, 1) # {} /\ PaidFor(rank, 2, 1) = 42 + BasePoints(4)
  <2>1. 3 \in 1 .. 4 /\ 4 \in 1 .. 4
    OBVIOUS
  <2>2. PicksOf(1, 1) # {} /\ PaidFor(rank, 1, 1) = 42 + BasePoints(3)
    BY <1>2, <1>3, <2>1, PaidByPlaces
  <2>3. PicksOf(2, 1) # {} /\ PaidFor(rank, 2, 1) = 42 + BasePoints(4)
    BY <1>2, <1>3, <2>1, PaidByPlaces
  <2> QED
    BY <2>2, <2>3
<1>5. PaidFor(rank, 1, 1) = 45 /\ PaidFor(rank, 2, 1) = 43
  BY <1>4 DEF BasePoints
<1>6. ScriptScores'
  <2>1. /\ ~(step <= 8) /\ ~(step <= 10) /\ step <= 20 /\ step <= 28
        /\ ~(step' <= 8) /\ ~(step' <= 10) /\ ~(step' <= 20) /\ step' <= 23 /\ step' <= 28
    OBVIOUS
  <2>2. /\ \A u \in Users \ {1, 2} : scores[u] = Null
        /\ scores[1] = [group |-> 0, knockout |-> 0] /\ scores[2] = [group |-> 0, knockout |-> 0]
    BY <2>1, Zenon DEF Script, ScriptScores
  <2>3. /\ scores'[1] = [scores[1] EXCEPT !.group = @ + 45]
        /\ scores'[2] = [scores[2] EXCEPT !.group = @ + 43]
        /\ \A u \in Users \ {1, 2} : scores'[u] = scores[u]
        /\ scores' = [u \in Users |-> scores'[u]]
    BY <1>2, <1>3, <1>4, <1>5, Zenon
  <2>4. scores'[1] = [group |-> 45, knockout |-> 0] /\ scores'[2] = [group |-> 43, knockout |-> 0]
    BY <2>2, <2>3
  <2> QED
    BY <2>1, <2>2, <2>3, <2>4, Zenon DEF ScriptScores
<1>7. Results /\ FinalA /\ \A i \in 1 .. 4 : GroupA[i] \in Countries /\ GroupA[i] \in CountriesOf(1)
  BY PairingsOfA, GroupAIs DEF Script
<1>8. /\ finals' \in [Countries -> [rank : {Null} \cup 1 .. 4, qualifier : {Null} \cup BOOLEAN]]
      /\ \A i \in 1 .. 4 : finals'[GroupA[i]].rank = i
      /\ finals'[GroupA[3]].qualifier = finals[GroupA[3]].qualifier
  <2>1. CountriesOf(1) = {GroupA[i] : i \in 1 .. 4} /\ 3 \in 1 .. 4
    BY GroupAIs
  <2>2. finals \in [Countries -> [rank : {Null} \cup 1 .. 4, qualifier : {Null} \cup BOOLEAN]]
    BY <1>7 DEF Results, Rows
  <2>3. \A c \in CountriesOf(1) : rank[c] \in 1 .. 4
    BY <1>2, <2>1
  <2> QED
    BY ZenonT(40), <1>2, <1>7, <2>1, <2>2, <2>3
<1>9. Rows'
  BY <1>2, <1>7, <1>8 DEF Rows, Results
<1>10. Results'
  BY <1>2, <1>7, <1>9, ResultsStay DEF personVars, Script
<1>11. FinalA'
  <2>1. finals[GroupA[3]].qualifier = Null
    BY <1>7 DEF FinalA
  <2>2. ~(step' <= 20) /\ step' <= 23
    OBVIOUS
  <2> QED
    BY <1>8, <2>1, <2>2, Zenon DEF FinalA
<1>12. Persons' /\ Clubs' /\ TableA' /\ ScriptPicks' /\ step' \in 1 .. 32
  BY <1>2, PartsStay DEF personVars
<1> QED
  BY <1>6, <1>10, <1>11, <1>12 DEF Script

\* What the rankings of group A leave to a qualifier.
LEMMA ThirdOfA ==
  ASSUME Script, step \in 21 .. 32
  PROVE  /\ ThirdOf(1) = {GroupA[3]} /\ GroupA[3] \in Countries
         /\ finals[GroupA[3]].qualifier = IF step <= 23 THEN Null ELSE TRUE
<1>1. FinalA
  BY DEF Script
<1>2. \A i \in 1 .. 4 : finals[GroupA[i]].rank = i
  <2>1. ~(step <= 20)
    OBVIOUS
  <2> QED
    BY <1>1, <2>1, Zenon DEF FinalA
<1>3. ThirdOf(1) = {GroupA[3]}
  BY <1>2, GroupAIs DEF ThirdOf
<1> QED
  BY <1>1, <1>3, PairingsOfA DEF FinalA

LEMMA QualifierAccepted ==
  ASSUME Script, step \in {23, 24}
  PROVE  AcceptsQualifier(1) <=> step = 23
<1>1. /\ ThirdOf(1) = {GroupA[3]}
      /\ finals[GroupA[3]].qualifier = IF step <= 23 THEN Null ELSE TRUE
  <2>1. step \in 21 .. 32
    OBVIOUS
  <2> QED
    BY <2>1, ThirdOfA, Zenon
<1>2. TRUE # Null
  BY ColumnAssumption
<1>3. step <= 23 <=> step = 23
  OBVIOUS
<1> QED
  BY <1>1, <1>2, <1>3, Zenon DEF AcceptsQualifier

LEMMA QualifierKeeps ==
  ASSUME Script, step = 23, FinalizeQualifier(1, TRUE), step' = step + 1, UNCHANGED personVars
  PROVE  Script'
<1> DEFINE third == GroupA[3]
           right == {v \in Users : \E p \in groupPicks[v] : p.letter = 1 /\ p.extra = TRUE}
<1>1. step \in 21 .. 32 /\ step >= 11
  OBVIOUS
<1>2. ThirdOf(1) = {third} /\ third \in Countries
  BY <1>1, ThirdOfA
<1>3. /\ finals' = [c \in Countries |->
           IF c \in ThirdOf(1) THEN [finals[c] EXCEPT !.qualifier = TRUE] ELSE finals[c]]
      /\ Pay("group", [u \in right |-> QualifierBonus])
      /\ UNCHANGED <<created, matches, standings, groupPicks, knockoutPicks>>
  BY DEF FinalizeQualifier
<1>4. right = {1}
  <2>1. /\ 1 \in Users /\ 2 \in Users
        /\ \A u \in Users \ {1, 2} : PicksOf(u, 1) = {}
        /\ PicksOf(1, 1) = {ScriptPick(GroupA[1], 1, TRUE), ScriptPick(GroupA[2], 2, TRUE),
                          ScriptPick(GroupA[3], 3, TRUE), ScriptPick(GroupA[4], 4, TRUE)}
        /\ PicksOf(2, 1) = {ScriptPick(GroupA[1], 1, FALSE), ScriptPick(GroupA[2], 2, FALSE),
                          ScriptPick(GroupA[4], 3, FALSE), ScriptPick(GroupA[3], 4, FALSE)}
    BY <1>1, PicksForA, Zenon
  <2>2. /\ \A c, i : ScriptPick(c, i, TRUE).extra = TRUE /\ ScriptPick(c, i, FALSE).extra = FALSE
        /\ TRUE # FALSE
    BY Zenon DEF ScriptPick
  <2>3. right = {v \in Users : \E p \in PicksOf(v, 1) : p.extra = TRUE}
    BY DEF PicksOf
  <2> HIDE DEF right
  <2>4. 1 \in right
    BY <2>1, <2>2, <2>3, Zenon
  <2>5. 2 \notin right
    BY <2>1, <2>2, <2>3, Zenon
  <2>6. \A u \in right : u = 1
    BY <2>1, <2>3, <2>5
  <2> QED
    BY <2>4, <2>6
<1> HIDE DEF right, third
<1>5. /\ \A u \in Users \ {1} : scores'[u] = scores[u]
      /\ scores' = [u \in Users |-> scores'[u]]
      /\ 1 \in Users => scores'[1] = [scores[1] EXCEPT !.group = @ + 5]
  <2>1. scores' = [u \in Users |-> IF u \in {1} THEN [scores[u] EXCEPT !.group = @ + 5] ELSE scores[u]]
    BY <1>3, <1>4 DEF Pay, QualifierBonus
  <2> QED
    BY <2>1
<1>6. ScriptScores'
  <2>1. /\ ~(step <= 8) /\ ~(step <= 10) /\ ~(step <= 20) /\ step <= 23 /\ step <= 28
        /\ ~(step' <= 8) /\ ~(step' <= 10) /\ ~(step' <= 20) /\ ~(step' <= 23) /\ step' <= 28
    OBVIOUS
  <2>2. /\ \A u \in Users \ {1, 2} : scores[u] = Null
        /\ scores[1] = [group |-> 45, knockout |-> 0] /\ scores[2] = [group |-> 43, knockout |-> 0]
    BY <2>1, Zenon DEF Script, ScriptScores
  <2>3. 1 \in Users /\ 2 \in Users /\ 1 # 2
    BY AcceptanceAssumption DEF People
  <2>4. scores'[1] = [group |-> 50, knockout |-> 0]
    BY <1>5, <2>2, <2>3
  <2>5. /\ \A u \in Users \ {1, 2} : scores'[u] = Null
        /\ scores'[2] = [group |-> 43, knockout |-> 0]
    BY <1>5, <2>2, <2>3
  <2> QED
    BY <1>5, <2>1, <2>4, <2>5, Zenon DEF ScriptScores
<1>7. Results /\ FinalA /\ \A i \in 1 .. 4 : GroupA[i] \in Countries
  BY PairingsOfA DEF Script
<1>8. /\ finals' \in [Countries -> [rank : {Null} \cup 1 .. 4, qualifier : {Null} \cup BOOLEAN]]
      /\ \A c \in Countries : finals'[c].rank = finals[c].rank
      /\ finals'[third].qualifier = TRUE
  <2>1. finals \in [Countries -> [rank : {Null} \cup 1 .. 4, qualifier : {Null} \cup BOOLEAN]]
    BY <1>7 DEF Results, Rows
  <2> QED
    BY <1>2, <1>3, <2>1
<1>9. Rows'
  BY <1>3, <1>7, <1>8 DEF Rows, Results
<1>10. Results'
  BY <1>3, <1>7, <1>9, ResultsStay DEF personVars, Script
<1>11. FinalA'
  <2>1. ~(step' <= 20) /\ ~(step' <= 23) /\ ~(step <= 20)
    OBVIOUS
  <2>2. \A i \in 1 .. 4 : finals[GroupA[i]].rank = i
    BY <1>7, <2>1, Zenon DEF FinalA
  <2>3. \A i \in 1 .. 4 : finals'[GroupA[i]].rank = i
    BY <1>7, <1>8, <2>2
  <2> QED
    BY <1>8, <2>1, <2>3, Zenon DEF FinalA, third
<1>12. Persons' /\ Clubs' /\ TableA' /\ ScriptPicks' /\ step' \in 1 .. 32
  BY <1>3, PartsStay DEF personVars
<1> QED
  BY <1>6, <1>10, <1>11, <1>12 DEF Script

\* The leaderboard of the script.
LEMMA ScoresSeen ==
  ASSUME Script, step >= 11
  PROVE  /\ Listed = {1, 2}
         /\ step \in {22, 23} =>
              scores[1] = [group |-> 45, knockout |-> 0] /\ scores[2] = [group |-> 43, knockout |-> 0]
         /\ step \in 24 .. 28 =>
              scores[1] = [group |-> 50, knockout |-> 0] /\ scores[2] = [group |-> 43, knockout |-> 0]
         /\ step >= 29 =>
              scores[1] = [group |-> 50, knockout |-> 15] /\ scores[2] = [group |-> 43, knockout |-> 0]
<1>1. ScriptScores /\ ~(step <= 8) /\ ~(step <= 10)
  BY DEF Script
<1>2. /\ \A u \in Users \ {1, 2} : scores[u] = Null
      /\ scores[1] = [group    |-> IF step <= 20 THEN 0 ELSE IF step <= 23 THEN 45 ELSE 50,
                      knockout |-> IF step <= 28 THEN 0 ELSE 15]
      /\ scores[2] = [group |-> IF step <= 20 THEN 0 ELSE 43, knockout |-> 0]
  BY <1>1, Zenon DEF ScriptScores
<1>3. \A g, k \in Int : [group |-> g, knockout |-> k] # Null
  BY ColumnAssumption
<1>4. scores[1] # Null /\ scores[2] # Null
  <2> DEFINE g == IF step <= 20 THEN 0 ELSE IF step <= 23 THEN 45 ELSE 50
             k == IF step <= 28 THEN 0 ELSE 15
             h == IF step <= 20 THEN 0 ELSE 43
  <2>1. g \in Int /\ k \in Int /\ h \in Int /\ 0 \in Int
    OBVIOUS
  <2>2. scores[1] = [group |-> g, knockout |-> k] /\ scores[2] = [group |-> h, knockout |-> 0]
    BY <1>2
  <2> HIDE DEF g, k, h
  <2> QED
    BY <1>3, <2>1, <2>2
<1>5. Listed = {1, 2}
  <2>1. 1 \in Users /\ 2 \in Users
    BY AcceptanceAssumption DEF People
  <2> QED
    BY <1>2, <1>4, <2>1 DEF Listed
<1>6. step \in 1 .. 32
  BY DEF Script
<1>7. step \in {22, 23} =>
        scores[1] = [group |-> 45, knockout |-> 0] /\ scores[2] = [group |-> 43, knockout |-> 0]
  BY <1>2
<1>8. step \in 24 .. 28 =>
        scores[1] = [group |-> 50, knockout |-> 0] /\ scores[2] = [group |-> 43, knockout |-> 0]
  BY <1>2
<1>9. step >= 29 =>
        scores[1] = [group |-> 50, knockout |-> 15] /\ scores[2] = [group |-> 43, knockout |-> 0]
  BY <1>2, <1>6
<1> QED
  BY <1>5, <1>7, <1>8, <1>9

----------------------------------------------------------------------------
(***************************************************************************)
(* Predictions are saved                                                   *)
(***************************************************************************)
StoredRows(pick) ==
  {[letter |-> pick.letter, country |-> pick.order[i], place |-> i, extra |-> pick.extra] :
     i \in DOMAIN pick.order}

LEMMA PicksAreStored ==
  ASSUME NEW order, NEW extra
  PROVE  UNION {StoredRows(pick) : pick \in PicksInOrder(order, extra)} = PickRows(order, extra)
<1> DEFINE Given(l) == [letter |-> l, order |-> [i \in 1 .. 4 |-> Groups[l][order[i]]], extra |-> extra]
           Row(l, i) == [letter |-> l, country |-> Groups[l][order[i]], place |-> i, extra |-> extra]
<1>1. ASSUME NEW l PROVE StoredRows(Given(l)) = {Row(l, i) : i \in 1 .. 4}
  <2> DEFINE g == Given(l)
  <2>1. /\ g.letter = l /\ g.extra = extra /\ DOMAIN g.order = 1 .. 4
        /\ \A i \in 1 .. 4 : g.order[i] = Groups[l][order[i]]
    OBVIOUS
  <2> HIDE DEF g
  <2>2. StoredRows(g) = {Row(l, i) : i \in 1 .. 4}
    BY <2>1 DEF StoredRows
  <2> QED
    BY <2>2 DEF g
<1>2. PicksInOrder(order, extra) = {Given(l) : l \in Letters}
  BY DEF PicksInOrder
<1>3. PickRows(order, extra) = {Row(l, i) : l \in Letters, i \in 1 .. 4}
  BY DEF PickRows
<1> HIDE DEF Given, Row
<1>4. ASSUME NEW x PROVE x \in UNION {StoredRows(pick) : pick \in PicksInOrder(order, extra)}
                           <=> \E l \in Letters : x \in StoredRows(Given(l))
  BY <1>2, Zenon
<1>5. ASSUME NEW x PROVE x \in PickRows(order, extra)
                           <=> \E l \in Letters : \E i \in 1 .. 4 : x = Row(l, i)
  BY <1>3
<1>6. ASSUME NEW x, NEW l PROVE x \in StoredRows(Given(l)) <=> \E i \in 1 .. 4 : x = Row(l, i)
  BY <1>1, Zenon
<1>7. ASSUME NEW x PROVE x \in UNION {StoredRows(pick) : pick \in PicksInOrder(order, extra)}
                           <=> x \in PickRows(order, extra)
  BY <1>4, <1>5, <1>6, Zenon
<1> QED
  BY <1>7, Zenon

LEMMA GroupPicksSaved ==
  ASSUME ScriptPicks, NEW u \in Users, NEW order, NEW extra,
         SaveGroupPicks(u, PicksInOrder(order, extra)), groupPicks[u] = {}
  PROVE  /\ groupPicks' = [groupPicks EXCEPT ![u] = PickRows(order, extra)]
         /\ knockoutPicks' = knockoutPicks
         /\ scores' = [scores EXCEPT ![u] =
                         IF @ = Null THEN [group |-> 0, knockout |-> 0] ELSE @]
<1> DEFINE S == PicksInOrder(order, extra)
           Kept == {p \in groupPicks[u] : \A pick \in S : p.letter # pick.letter}
           New == UNION {StoredRows(pick) : pick \in S}
<1>1. groupPicks' = [groupPicks EXCEPT ![u] = Kept \cup New]
  BY DEF SaveGroupPicks, StoredRows
<1>2. Kept = {}
  OBVIOUS
<1>3. New = PickRows(order, extra)
  BY PicksAreStored, Zenon
<1>4. Kept \cup New = PickRows(order, extra)
  BY <1>2, <1>3
<1> HIDE DEF Kept, New, S
<1> QED
  BY <1>1, <1>4 DEF SaveGroupPicks, ListUser

\* user1 and user2 rank the groups, user1 fills in the bracket.
FirstPicks == SaveGroupPicks(1, PicksInOrder(<<1, 2, 3, 4>>, TRUE))
SecondPicks == SaveGroupPicks(2, PicksInOrder(<<1, 2, 4, 3>>, FALSE))

LEMMA SavesKeep ==
  ASSUME Script, step' = step + 1, UNCHANGED personVars,
         \/ step = 8 /\ FirstPicks
         \/ step = 10 /\ SecondPicks
         \/ step = 26 /\ SaveKnockoutPicks(1, ScriptBracket)
  PROVE  Script'
<1>1. ScriptPicks /\ ScriptScores /\ 1 \in Users /\ 2 \in Users /\ 1 # 2 /\ step \in {8, 10, 26}
  <2>1. 1 \in Users /\ 2 \in Users /\ 1 # 2
    BY AcceptanceAssumption DEF People
  <2>2. step \in {8, 10, 26}
    OBVIOUS
  <2> QED
    BY <2>1, <2>2 DEF Script
<1>2. ASSUME step = 8 PROVE ScriptPicks' /\ ScriptScores'
  <2>1. /\ step <= 8 /\ step <= 10 /\ step <= 26 /\ ~(step' <= 8) /\ step' <= 10 /\ step' <= 26
        /\ step' <= 20 /\ step' <= 28
    BY <1>2
  <2>2. groupPicks[1] = {} /\ groupPicks[2] = {}
    BY <1>1, <2>1, Zenon DEF ScriptPicks
  <2>3. FirstPicks
    BY <1>2
  <2>4. /\ groupPicks' = [groupPicks EXCEPT ![1] = PickRows(<<1, 2, 3, 4>>, TRUE)]
        /\ knockoutPicks' = knockoutPicks
        /\ scores' = [scores EXCEPT ![1] = IF @ = Null THEN [group |-> 0, knockout |-> 0] ELSE @]
    BY <1>1, <2>2, <2>3, GroupPicksSaved, Zenon DEF FirstPicks
  <2>5. ScriptPicks'
    <3>1. /\ groupPicks' = [u \in Users |-> groupPicks'[u]]
          /\ \A u \in Users \ {1, 2} : groupPicks'[u] = {}
          /\ groupPicks'[1] = PickRows(<<1, 2, 3, 4>>, TRUE)
          /\ groupPicks'[2] = {}
      BY <1>1, <2>2, <2>4 DEF ScriptPicks
    <3>2. /\ knockoutPicks' = [u \in Users |-> knockoutPicks'[u]]
          /\ \A u \in Users \ {1} : knockoutPicks'[u] = {}
          /\ knockoutPicks'[1] = {}
      BY <1>1, <2>1, <2>4, Zenon DEF ScriptPicks
    <3> QED
      BY <2>1, <3>1, <3>2, Zenon DEF ScriptPicks
  <2>6. scores[1] = Null /\ scores[2] = Null
    BY <1>1, <2>1, Zenon DEF ScriptScores
  <2>7. /\ scores' = [u \in Users |-> scores'[u]]
        /\ \A u \in Users \ {1, 2} : scores'[u] = Null
        /\ scores'[1] = [group |-> 0, knockout |-> 0]
        /\ scores'[2] = Null
    BY <1>1, <2>4, <2>6 DEF ScriptScores
  <2>8. ScriptScores'
    BY <2>1, <2>7, Zenon DEF ScriptScores
  <2> QED
    BY <2>5, <2>8
<1>3. ASSUME step = 10 PROVE ScriptPicks' /\ ScriptScores'
  <2>1. /\ ~(step <= 8) /\ step <= 10 /\ step <= 26 /\ step <= 20 /\ step <= 28
        /\ ~(step' <= 8) /\ ~(step' <= 10) /\ step' <= 26 /\ step' <= 20 /\ step' <= 28
    BY <1>3
  <2>2. groupPicks[1] = PickRows(<<1, 2, 3, 4>>, TRUE) /\ groupPicks[2] = {}
    BY <1>1, <2>1, Zenon DEF ScriptPicks
  <2>3. SecondPicks
    BY <1>3
  <2>4. /\ groupPicks' = [groupPicks EXCEPT ![2] = PickRows(<<1, 2, 4, 3>>, FALSE)]
        /\ knockoutPicks' = knockoutPicks
        /\ scores' = [scores EXCEPT ![2] = IF @ = Null THEN [group |-> 0, knockout |-> 0] ELSE @]
    BY <1>1, <2>2, <2>3, GroupPicksSaved, Zenon DEF SecondPicks
  <2>5. ScriptPicks'
    <3>1. /\ groupPicks' = [u \in Users |-> groupPicks'[u]]
          /\ \A u \in Users \ {1, 2} : groupPicks'[u] = {}
          /\ groupPicks'[1] = PickRows(<<1, 2, 3, 4>>, TRUE)
          /\ groupPicks'[2] = PickRows(<<1, 2, 4, 3>>, FALSE)
      BY <1>1, <2>2, <2>4 DEF ScriptPicks
    <3>2. /\ knockoutPicks' = [u \in Users |-> knockoutPicks'[u]]
          /\ \A u \in Users \ {1} : knockoutPicks'[u] = {}
          /\ knockoutPicks'[1] = {}
      BY <1>1, <2>1, <2>4, Zenon DEF ScriptPicks
    <3> QED
      BY <2>1, <3>1, <3>2, Zenon DEF ScriptPicks
  <2>6. scores[1] = [group |-> 0, knockout |-> 0] /\ scores[2] = Null
    BY <1>1, <2>1, Zenon DEF ScriptScores
  <2>7. /\ scores' = [u \in Users |-> scores'[u]]
        /\ \A u \in Users \ {1, 2} : scores'[u] = Null
        /\ scores'[1] = [group |-> 0, knockout |-> 0]
        /\ scores'[2] = [group |-> 0, knockout |-> 0]
    BY <1>1, <2>4, <2>6 DEF ScriptScores
  <2>8. ScriptScores'
    BY <2>1, <2>7, Zenon DEF ScriptScores
  <2> QED
    BY <2>5, <2>8
<1>4. ASSUME step = 26 PROVE ScriptPicks' /\ ScriptScores'
  <2>1. /\ ~(step <= 8) /\ ~(step <= 10) /\ step <= 26 /\ ~(step <= 20) /\ ~(step <= 23)
        /\ ~(step' <= 8) /\ ~(step' <= 10) /\ ~(step' <= 26) /\ ~(step' <= 20)
        /\ ~(step' <= 23) /\ step <= 28 /\ step' <= 28
    BY <1>4
  <2>2. /\ groupPicks' = groupPicks /\ knockoutPicks' = [knockoutPicks EXCEPT ![1] = ScriptBracket]
        /\ scores' = [scores EXCEPT ![1] = IF @ = Null THEN [group |-> 0, knockout |-> 0] ELSE @]
    BY <1>4 DEF SaveKnockoutPicks, ListUser
  <2>3. ScriptPicks'
    <3>1. /\ knockoutPicks' = [u \in Users |-> knockoutPicks'[u]]
          /\ \A u \in Users \ {1} : knockoutPicks'[u] = {}
          /\ knockoutPicks'[1] = ScriptBracket
      BY <1>1, <2>2 DEF ScriptPicks
    <3>2. /\ groupPicks' = [u \in Users |-> groupPicks'[u]]
          /\ \A u \in Users \ {1, 2} : groupPicks'[u] = {}
          /\ groupPicks'[1] = PickRows(<<1, 2, 3, 4>>, TRUE)
          /\ groupPicks'[2] = PickRows(<<1, 2, 4, 3>>, FALSE)
      BY <1>1, <2>1, <2>2, Zenon DEF ScriptPicks
    <3> QED
      BY <2>1, <3>1, <3>2, Zenon DEF ScriptPicks
  <2>4. scores[1] # Null
    <3>1. scores[1] = [group |-> 50, knockout |-> 0]
      BY <1>1, <2>1, Zenon DEF ScriptScores
    <3> QED
      BY <3>1, ColumnAssumption
  <2>5. scores' = scores
    BY <1>1, <2>2, <2>4 DEF ScriptScores
  <2>6. ScriptScores'
    BY <1>1, <2>1, <2>5, Zenon DEF ScriptScores
  <2> QED
    BY <2>3, <2>6
<1>5. UNCHANGED <<created, matches, standings, finals>>
  BY Zenon DEF FirstPicks, SecondPicks, SaveGroupPicks, SaveKnockoutPicks
<1>6. Persons' /\ Clubs' /\ Results' /\ TableA' /\ FinalA' /\ step' \in 1 .. 32
  BY <1>1, <1>5, PartsStay DEF personVars
<1> QED
  BY <1>1, <1>2, <1>3, <1>4, <1>6 DEF Script

----------------------------------------------------------------------------
(***************************************************************************)
(* The first knockout match is played                                      *)
(***************************************************************************)
Opening == <<1, 0>>
OpeningResult == Result(1, 0, GroupA[1], GroupA[2], 2, 1)

LEMMA OpeningIs ==
  /\ Opening \in Bracket /\ Opening \in AllMatches /\ Book!IsKnockout(Opening)
  /\ RoundOf[Opening] = 1 /\ IndexOf[Opening] = 0 /\ Book!Achieved(Opening) = 2
  /\ GroupA[1] \in Countries /\ GroupA[2] \in Countries
  /\ GroupA[1] # Null /\ GroupA[2] # Null
<1>1. Opening \in Bracket /\ Opening[1] = 1 /\ Opening[2] = 0
  BY Places DEF Opening
<1>2. Opening \in AllMatches /\ RoundOf[Opening] = 1 /\ IndexOf[Opening] = 0
  BY <1>1, BracketMatch
<1>3. Book!Achieved(Opening) = 2
  BY <1>2 DEF Book!Achieved, Book!AchievedRound
<1>4. Book!IsKnockout(Opening)
  BY <1>2 DEF Book!IsKnockout
<1>5. GroupA[1] \in Countries /\ GroupA[2] \in Countries
  BY PairingsOfA
<1> QED
  BY <1>1, <1>2, <1>3, <1>4, <1>5, ColumnAssumption

LEMMA OpeningCall ==
  ASSUME Script, step = 28, NEW new, new = Book!Merge(Opening, matches[Opening], OpeningResult)
  PROVE  /\ Book!Found(matches, OpeningResult) = {Opening} /\ AcceptsMatch(OpeningResult)
         /\ new \in Book!MatchRow /\ Completed(new) /\ HasWinner(new)
         /\ Winner(new) = GroupA[1]
<1> DEFINE p == OpeningResult
<1>1. /\ p.round = 1 /\ p.index = 0 /\ p.c1 = GroupA[1] /\ p.c2 = GroupA[2]
      /\ p.g1 = 2 /\ p.g2 = 1 /\ p.p1 = Null /\ p.p2 = Null /\ p.cs1 = Null /\ p.cs2 = Null
  BY DEF OpeningResult, Result
<1> HIDE DEF p
<1>2. /\ Results /\ matches[Opening] \in Book!MatchRow /\ Blank(Opening)
      /\ matches[Opening].c1 = Null /\ matches[Opening].c2 = Null
  BY OpeningIs DEF Script, Results, Rows
<1>3. /\ matches[Opening].g1 = Null /\ matches[Opening].g2 = Null
      /\ matches[Opening].p1 = Null /\ matches[Opening].p2 = Null
  BY <1>2 DEF Blank, Goalless
<1>4. Null \notin Int
  BY ColumnAssumption
<1>5. new = Book!Merge(Opening, matches[Opening], p)
  BY DEF p
<1>6. /\ new.c1 = GroupA[1] /\ new.c2 = GroupA[2] /\ new.g1 = 2 /\ new.g2 = 1
      /\ new.p1 = Null /\ new.p2 = Null
  BY <1>1, <1>2, <1>3, <1>4, <1>5, OpeningIs DEF Book!Merge, Book!KnockoutGiven, Book!Given
<1>7. new \in Book!MatchRow
  BY <1>1, <1>2, <1>3, <1>4, <1>5, OpeningIs
     DEF Book!Merge, Book!KnockoutGiven, Book!Given, Book!MatchRow, Book!Score, Book!Slot
<1>8. Completed(new) /\ ~Completed(matches[Opening])
  BY <1>3, <1>4, <1>6 DEF Completed
<1>9. FirstWins(new) /\ HasWinner(new) /\ Winner(new) = GroupA[1]
  BY <1>6 DEF HasWinner, FirstWins, Winner
<1>10. Book!Found(matches, p) = {Opening}
  <2>1. Opening[1] = 1 /\ Opening[2] = 0
    BY DEF Opening
  <2> QED
    BY <1>1, <2>1, OpeningIs, FoundByPosition
<1>11. Book!HasUpdates(Opening, p)
  BY <1>1, <1>4 DEF Book!HasUpdates
<1>12. Book!HasCountries(new)
  BY <1>6, OpeningIs DEF Book!HasCountries
<1>13. Book!Accepted(Opening, p)
  BY <1>5, <1>8, <1>10, <1>11, <1>12, SameRules DEF Book!Accepted
<1> QED
  BY <1>7, <1>8, <1>9, <1>10, <1>13, OpeningIs DEF AcceptsMatch, p

LEMMA OpeningKeeps ==
  ASSUME Script, step = 28, RecordMatch(OpeningResult), step' = step + 1, UNCHANGED personVars
  PROVE  Script'
<1> DEFINE new == Book!Merge(Opening, matches[Opening], OpeningResult)
           hit == {u \in Users : <<GroupA[1], 2>> \in knockoutPicks[u]}
<1>1. /\ Book!Found(matches, OpeningResult) = {Opening}
      /\ new \in Book!MatchRow /\ Completed(new) /\ HasWinner(new)
      /\ Winner(new) = GroupA[1]
  BY OpeningCall
<1>2. Results /\ Rows /\ ScriptPicks /\ ScriptScores
  BY DEF Script, Results
<1>3. /\ matches' = MovesOn(Opening, new)
      /\ UNCHANGED <<created, standings, finals, groupPicks, knockoutPicks>>
  <2> HIDE DEF new
  <2>1. new = Book!Merge(Opening, matches[Opening], OpeningResult)
    BY DEF new
  <2> QED
    BY <1>1, <2>1, OpeningIs, KnockoutEffect
<1>4. FillsSlots(matches', Opening, new)
  <2> HIDE DEF new
  <2> QED
    BY <1>1, <1>2, <1>3, OpeningIs, MovesOnFills
<1>5. scores' = [u \in Users |-> IF u \in hit THEN [scores[u] EXCEPT !.knockout = @ + 15]
                                 ELSE scores[u]]
  <2>1. RoundOf[Opening] > 0 /\ Completed(new) /\ HasWinner(new)
    BY <1>1, OpeningIs
  <2>2. \E m \in {Opening} :
          LET row == Book!Merge(m, matches[m], OpeningResult)
              decided == RoundOf[m] > 0 /\ Completed(row) /\ HasWinner(row)
              paid == {u \in Users : <<Winner(row), Book!Achieved(m)>> \in knockoutPicks[u]}
          IN  Pay("knockout",
                  [u \in IF decided THEN paid ELSE {} |-> AwardPoints(Book!Achieved(m))])
    BY <1>1, Zenon DEF RecordMatch
  <2>3. Pay("knockout",
            [u \in IF RoundOf[Opening] > 0 /\ Completed(new) /\ HasWinner(new)
                   THEN {u \in Users : <<Winner(new), Book!Achieved(Opening)>> \in knockoutPicks[u]}
                   ELSE {} |-> AwardPoints(Book!Achieved(Opening))])
    BY <2>2, Zenon
  <2> HIDE DEF new
  <2>4. Pay("knockout", [u \in hit |-> AwardPoints(2)])
    BY <1>1, <2>1, <2>3, OpeningIs
  <2>5. AwardPoints(2) = 15
    BY DEF AwardPoints
  <2> QED
    BY <2>4, <2>5 DEF Pay
<1>6. hit = {1}
  <2>1. ~(step <= 26) /\ 1 \in Users
    BY AcceptanceAssumption DEF People
  <2>2. knockoutPicks[1] = ScriptBracket /\ \A u \in Users \ {1} : knockoutPicks[u] = {}
    BY <1>2, <2>1, Zenon DEF ScriptPicks
  <2>3. <<GroupA[1], 2>> \in ScriptBracket
    <3>1. GroupA[1] \in {Groups[l][1] : l \in 1 .. 8} /\ 2 \in {2, 3}
      BY DEF GroupA
    <3> QED
      BY <3>1 DEF ScriptBracket
  <2> HIDE DEF ScriptBracket
  <2> QED
    BY <2>1, <2>2, <2>3
<1> HIDE DEF new, hit
<1>7. ScriptScores'
  <2>1. /\ ~(step <= 8) /\ ~(step <= 10) /\ ~(step <= 20) /\ ~(step <= 23) /\ step <= 28
        /\ ~(step' <= 8) /\ ~(step' <= 10) /\ ~(step' <= 20) /\ ~(step' <= 23) /\ ~(step' <= 28)
    OBVIOUS
  <2>2. /\ \A u \in Users \ {1, 2} : scores[u] = Null
        /\ scores[1] = [group |-> 50, knockout |-> 0] /\ scores[2] = [group |-> 43, knockout |-> 0]
    BY <1>2, <2>1, Zenon DEF ScriptScores
  <2>3. 1 \in Users /\ 2 \in Users /\ 1 # 2
    BY AcceptanceAssumption DEF People
  <2>4. /\ scores'[1] = [group |-> 50, knockout |-> 15]
        /\ \A u \in Users \ {1, 2} : scores'[u] = Null
        /\ scores'[2] = [group |-> 43, knockout |-> 0]
        /\ scores' = [u \in Users |-> scores'[u]]
    BY <1>5, <1>6, <2>2, <2>3
  <2> QED
    BY <2>1, <2>4, Zenon DEF ScriptScores
<1>8. Results'
  <2>1. Rows'
    BY <1>2, <1>3, <1>4 DEF Rows, FillsSlots
  <2>2. \A n \in GroupMatches : matches'[n] = matches[n]
    BY <1>4 DEF FillsSlots
  <2>3. left' = left /\ left = {}
    BY <1>2 DEF personVars, Results
  <2>4. Unplayed1' = Unplayed1
    BY <2>3 DEF Unplayed1
  <2>5. \A n \in GroupMatches :
          /\ Fixture(n)'
          /\ IF Letter[n[2]] # 1 \/ n \in Unplayed1' THEN Blank(n)'
             ELSE matches'[n].g1 = 1 /\ matches'[n].g2 = 0
    BY <1>2, <2>2, <2>4 DEF Results, Fixture, Blank, Goalless
  <2>6. matches'[<<2, 0>>].c1 = GroupA[1]
    <3> DEFINE n == <<2, 0>>
    <3>1. n \in Bracket /\ n[1] = 2 /\ n[2] = 0 /\ n # Opening /\ n # <<5, 1>> /\ 0 \in {0, 1}
      BY Places DEF Opening
    <3>2. Feeder(n, 0) = Opening
      BY <3>1 DEF Feeder, Opening
    <3> HIDE DEF n
    <3>3. Book!InSlot(matches'[n], 0) = Winner(new)
      BY <1>4, <3>1, <3>2 DEF FillsSlots
    <3> QED
      BY <1>1, <3>3 DEF Book!InSlot, n
  <2>7. ~(step' <= 28) /\ (created <=> step >= 8) /\ (created' <=> step' >= 8)
    BY <1>2, <1>3 DEF Results
  <2> QED
    BY <2>1, <2>3, <2>5, <2>6, <2>7 DEF Results
<1>9. Persons' /\ Clubs' /\ TableA' /\ FinalA' /\ ScriptPicks' /\ step' \in 1 .. 32
  BY <1>3, PartsStay DEF personVars
<1> QED
  BY <1>7, <1>8, <1>9 DEF Script

----------------------------------------------------------------------------
(***************************************************************************)
(* The counts of the script                                                *)
(***************************************************************************)
LEMMA ThirtyTwoMatches == Cardinality(ListKnockoutMatches) = 32
<1> DEFINE R(i) == IF i <= 16 THEN 1 ELSE IF i <= 24 THEN 2 ELSE IF i <= 28 THEN 3
                   ELSE IF i <= 30 THEN 4 ELSE 5
           X(i) == IF i <= 16 THEN i - 1 ELSE IF i <= 24 THEN i - 17 ELSE IF i <= 28 THEN i - 25
                   ELSE IF i <= 30 THEN i - 29 ELSE i - 31
           f == [i \in 1 .. 32 |-> <<R(i), X(i)>>]
<1>1. ListKnockoutMatches = Bracket
  <2>1. \A m \in AllMatches : RoundOf[m] > 0 <=> m \in Bracket
    BY GroupOrBracket, GroupMatch, BracketMatch
  <2>2. \A m \in Bracket : m \in AllMatches
    BY BracketMatch
  <2> QED
    BY <2>1, <2>2 DEF ListKnockoutMatches
<1>2. \A i, j \in 1 .. 32 : R(i) = R(j) /\ X(i) = X(j) => i = j
  OBVIOUS
<1>3. \A i \in 1 .. 32 :
        \/ R(i) = 1 /\ X(i) \in 0 .. 15
        \/ R(i) = 2 /\ X(i) \in 0 .. 7
        \/ R(i) = 3 /\ X(i) \in 0 .. 3
        \/ R(i) \in {4, 5} /\ X(i) \in 0 .. 1
  OBVIOUS
<1>4. /\ \A x \in 0 .. 15 : x + 1 \in 1 .. 32 /\ R(x + 1) = 1 /\ X(x + 1) = x
      /\ \A x \in 0 .. 7 : x + 17 \in 1 .. 32 /\ R(x + 17) = 2 /\ X(x + 17) = x
      /\ \A x \in 0 .. 3 : x + 25 \in 1 .. 32 /\ R(x + 25) = 3 /\ X(x + 25) = x
      /\ \A x \in 0 .. 1 : x + 29 \in 1 .. 32 /\ R(x + 29) = 4 /\ X(x + 29) = x
      /\ \A x \in 0 .. 1 : x + 31 \in 1 .. 32 /\ R(x + 31) = 5 /\ X(x + 31) = x
  OBVIOUS
<1> HIDE DEF R, X
<1>5. \A m \in Bracket : \E i \in 1 .. 32 : m = <<R(i), X(i)>>
  <2> TAKE m \in Bracket
  <2>1. m[1] \in 1 .. 5 /\ m[2] \in 0 .. 15 /\ m = <<m[1], m[2]>>
    BY BracketMatch
  <2>2. /\ m[1] = 2 => m[2] \in 0 .. 7
        /\ m[1] = 3 => m[2] \in 0 .. 3
        /\ m[1] \in {4, 5} => m[2] \in 0 .. 1
    BY <2>1, Places
  <2>3. CASE m[1] = 1
    BY <1>4, <2>1, <2>3
  <2>4. CASE m[1] = 2
    BY <1>4, <2>1, <2>2, <2>4
  <2>5. CASE m[1] = 3
    BY <1>4, <2>1, <2>2, <2>5
  <2>6. CASE m[1] = 4
    BY <1>4, <2>1, <2>2, <2>6
  <2>7. CASE m[1] = 5
    BY <1>4, <2>1, <2>2, <2>7
  <2> QED
    BY <2>1, <2>3, <2>4, <2>5, <2>6, <2>7
<1>6. \A i \in 1 .. 32 : <<R(i), X(i)>> \in Bracket
  <2> TAKE i \in 1 .. 32
  <2>1. CASE R(i) = 1
    BY <1>3, <2>1, Places
  <2>2. CASE R(i) = 2
    BY <1>3, <2>2, Places
  <2>3. CASE R(i) = 3
    BY <1>3, <2>3, Places
  <2>4. CASE R(i) = 4
    BY <1>3, <2>4, Places
  <2>5. CASE R(i) = 5
    BY SMTT(30), <1>3, <2>5, Places
  <2> QED
    BY <1>3, <2>1, <2>2, <2>3, <2>4, <2>5
<1>7. /\ f \in [1 .. 32 -> Bracket]
      /\ \A i, j \in 1 .. 32 : f[i] = f[j] => i = j
      /\ \A m \in Bracket : \E i \in 1 .. 32 : f[i] = m
  BY <1>2, <1>5, <1>6
<1>8. 32 \in Nat
  OBVIOUS
<1> HIDE DEF f
<1> QED
  BY ZenonT(40), <1>1, <1>7, <1>8, Numbered

LEMMA ThirtyTwoPicks == Cardinality(ScriptBracket) = 32
<1> DEFINE L(i) == IF i <= 8 THEN i ELSE IF i <= 16 THEN i - 8 ELSE IF i <= 24 THEN i - 16
                   ELSE IF i <= 28 THEN 2 * i - 49 ELSE IF i <= 30 THEN 4 * i - 115
                   ELSE IF i = 31 THEN 1 ELSE 3
           P(i) == IF i > 16 /\ i <= 24 THEN 2 ELSE 1
           R(i) == IF i <= 8 THEN 2 ELSE IF i <= 16 THEN 3 ELSE IF i <= 24 THEN 2
                   ELSE IF i <= 28 THEN 4 ELSE IF i <= 30 THEN 5 ELSE IF i = 31 THEN 6 ELSE 7
           C(i) == Groups[L(i)][P(i)]
           f == [i \in 1 .. 32 |-> <<C(i), R(i)>>]
<1>1. \A i, j \in 1 .. 32 : L(i) = L(j) /\ P(i) = P(j) /\ R(i) = R(j) => i = j
  OBVIOUS
<1>2. \A i \in 1 .. 32 : L(i) \in 1 .. 8 /\ P(i) \in 1 .. 2 /\ R(i) \in 2 .. 7
  OBVIOUS
<1>3. \A i \in 1 .. 32 :
        \/ P(i) = 1 /\ R(i) \in {2, 3}
        \/ P(i) = 2 /\ R(i) = 2
        \/ P(i) = 1 /\ R(i) = 4 /\ L(i) \in {1, 3, 5, 7}
        \/ P(i) = 1 /\ R(i) = 5 /\ L(i) \in {1, 5}
        \/ P(i) = 1 /\ R(i) = 6 /\ L(i) = 1
        \/ P(i) = 1 /\ R(i) = 7 /\ L(i) = 3
  OBVIOUS
<1>4. \A l \in 1 .. 8 :
        /\ l \in 1 .. 32 /\ L(l) = l /\ P(l) = 1 /\ R(l) = 2
        /\ l + 8 \in 1 .. 32 /\ L(l + 8) = l /\ P(l + 8) = 1 /\ R(l + 8) = 3
        /\ l + 16 \in 1 .. 32 /\ L(l + 16) = l /\ P(l + 16) = 2 /\ R(l + 16) = 2
  OBVIOUS
<1>5. /\ 25 \in 1 .. 32 /\ L(25) = 1 /\ P(25) = 1 /\ R(25) = 4
      /\ 26 \in 1 .. 32 /\ L(26) = 3 /\ P(26) = 1 /\ R(26) = 4
      /\ 27 \in 1 .. 32 /\ L(27) = 5 /\ P(27) = 1 /\ R(27) = 4
      /\ 28 \in 1 .. 32 /\ L(28) = 7 /\ P(28) = 1 /\ R(28) = 4
      /\ 29 \in 1 .. 32 /\ L(29) = 1 /\ P(29) = 1 /\ R(29) = 5
      /\ 30 \in 1 .. 32 /\ L(30) = 5 /\ P(30) = 1 /\ R(30) = 5
      /\ 31 \in 1 .. 32 /\ L(31) = 1 /\ P(31) = 1 /\ R(31) = 6
      /\ 32 \in 1 .. 32 /\ L(32) = 3 /\ P(32) = 1 /\ R(32) = 7
  OBVIOUS
<1>6. ASSUME NEW x
      PROVE  x \in ScriptBracket <=>
               \/ \E l \in 1 .. 8, r \in {2, 3} : x = <<Groups[l][1], r>>
               \/ \E l \in 1 .. 8 : x = <<Groups[l][2], 2>>
               \/ \E l \in {1, 3, 5, 7} : x = <<Groups[l][1], 4>>
               \/ \E l \in {1, 5} : x = <<Groups[l][1], 5>>
               \/ x = <<Groups[1][1], 6>>
               \/ x = <<Groups[3][1], 7>>
  BY DEF ScriptBracket
<1> HIDE DEF L, P, R
<1>7. ASSUME NEW i \in 1 .. 32, NEW j \in 1 .. 32, C(i) = C(j)
      PROVE  L(i) = L(j) /\ P(i) = P(j)
  <2>1. PICK l \in Letters, a \in 1 .. 4 : l = L(i) /\ a = P(i)
    BY <1>2, LettersOfContest
  <2>2. PICK k \in Letters, b \in 1 .. 4 : k = L(j) /\ b = P(j)
    BY <1>2, LettersOfContest
  <2>3. Groups[l][a] = Groups[k][b]
    BY <1>7, <2>1, <2>2
  <2>4. l = k /\ a = b
    BY <2>3, OnePlace
  <2> QED
    BY <2>1, <2>2, <2>4
<1>8. \A i \in 1 .. 32 : <<C(i), R(i)>> \in ScriptBracket
  <2> TAKE i \in 1 .. 32
  <2> HIDE DEF ScriptBracket
  <2>1. L(i) \in 1 .. 8
    BY <1>2
  <2>2. CASE P(i) = 2
    <3>1. R(i) = 2
      BY <1>3, <2>2
    <3> QED
      BY <1>6, <2>1, <2>2, <3>1
  <2>3. CASE P(i) = 1 /\ R(i) \in {2, 3}
    BY <1>6, <2>1, <2>3
  <2>4. CASE P(i) = 1 /\ R(i) = 4 /\ L(i) \in {1, 3, 5, 7}
    BY <1>6, <2>4
  <2>5. CASE P(i) = 1 /\ R(i) = 5 /\ L(i) \in {1, 5}
    BY <1>6, <2>5
  <2>6. CASE P(i) = 1 /\ R(i) = 6 /\ L(i) = 1
    BY <1>6, <2>6
  <2>7. CASE P(i) = 1 /\ R(i) = 7 /\ L(i) = 3
    BY <1>6, <2>7
  <2> QED
    BY <1>3, <2>2, <2>3, <2>4, <2>5, <2>6, <2>7
<1>9. \A x \in ScriptBracket : \E i \in 1 .. 32 : <<C(i), R(i)>> = x
  <2> TAKE x \in ScriptBracket
  <2>1. \A l \in 1 .. 8 : /\ \E i \in 1 .. 32 : <<C(i), R(i)>> = <<Groups[l][1], 2>>
                          /\ \E i \in 1 .. 32 : <<C(i), R(i)>> = <<Groups[l][1], 3>>
                          /\ \E i \in 1 .. 32 : <<C(i), R(i)>> = <<Groups[l][2], 2>>
    <3> TAKE l \in 1 .. 8
    <3>1. C(l) = Groups[l][1] /\ C(l + 8) = Groups[l][1] /\ C(l + 16) = Groups[l][2]
      BY <1>4
    <3> HIDE DEF C
    <3> QED
      BY ZenonT(40), <1>4, <3>1
  <2>2. /\ C(25) = Groups[1][1] /\ C(26) = Groups[3][1] /\ C(27) = Groups[5][1]
        /\ C(28) = Groups[7][1] /\ C(29) = Groups[1][1] /\ C(30) = Groups[5][1]
        /\ C(31) = Groups[1][1] /\ C(32) = Groups[3][1]
    BY <1>5
  <2> HIDE DEF C, ScriptBracket
  <2>3. \A l \in {1, 3, 5, 7} : \E i \in 1 .. 32 : <<C(i), R(i)>> = <<Groups[l][1], 4>>
    BY <1>5, <2>2
  <2>4. \A l \in {1, 5} : \E i \in 1 .. 32 : <<C(i), R(i)>> = <<Groups[l][1], 5>>
    BY <1>5, <2>2
  <2>5. /\ \E i \in 1 .. 32 : <<C(i), R(i)>> = <<Groups[1][1], 6>>
        /\ \E i \in 1 .. 32 : <<C(i), R(i)>> = <<Groups[3][1], 7>>
    BY <1>5, <2>2
  <2>6. CASE \E l \in 1 .. 8, r \in {2, 3} : x = <<Groups[l][1], r>>
    <3>1. PICK l \in 1 .. 8 : x = <<Groups[l][1], 2>> \/ x = <<Groups[l][1], 3>>
      BY <2>6
    <3> QED
      BY <2>1, <3>1
  <2>7. CASE \E l \in 1 .. 8 : x = <<Groups[l][2], 2>>
    BY <2>1, <2>7
  <2>8. CASE \E l \in {1, 3, 5, 7} : x = <<Groups[l][1], 4>>
    BY <2>3, <2>8
  <2>9. CASE \E l \in {1, 5} : x = <<Groups[l][1], 5>>
    BY <2>4, <2>9
  <2>10. CASE x = <<Groups[1][1], 6>> \/ x = <<Groups[3][1], 7>>
    BY SMTT(30), <2>5, <2>10
  <2> QED
    BY <1>6, <2>6, <2>7, <2>8, <2>9, <2>10, Zenon
<1>10. /\ f \in [1 .. 32 -> ScriptBracket]
       /\ \A i, j \in 1 .. 32 : f[i] = f[j] => i = j
       /\ \A x \in ScriptBracket : \E i \in 1 .. 32 : f[i] = x
  <2> HIDE DEF C, ScriptBracket
  <2>1. \A i \in 1 .. 32 : f[i] = <<C(i), R(i)>>
    OBVIOUS
  <2>2. f \in [1 .. 32 -> ScriptBracket]
    BY <1>8
  <2>3. \A i, j \in 1 .. 32 : f[i] = f[j] => C(i) = C(j) /\ R(i) = R(j)
    BY SMTT(30), <2>1
  <2>4. \A i, j \in 1 .. 32 : f[i] = f[j] => i = j
    BY <1>1, <1>7, <2>3
  <2>5. \A x \in ScriptBracket : \E i \in 1 .. 32 : f[i] = x
    BY <1>9, <2>1
  <2> QED
    BY <2>2, <2>4, <2>5
<1>11. 32 \in Nat
  OBVIOUS
<1> HIDE DEF f, ScriptBracket
<1> QED
  BY ZenonT(40), <1>10, <1>11, Numbered

----------------------------------------------------------------------------
(***************************************************************************)
(* The answers the script gets                                             *)
(***************************************************************************)
LEMMA PersonsSeen ==
  ASSUME Script
  PROVE  /\ Known(1) /\ token[1] = 1 /\ account[1] # Null /\ token[Super] # Null
         /\ step = 2 => account[NewUser] = Null
         /\ step = 4 => Known(2)
         /\ step >= 6 => Known(2) /\ token[2] = NewUser + 1
         /\ created <=> step >= 8
<1>1. Persons /\ (created <=> step >= 8) /\ step \in 1 .. 32
  BY DEF Script, Results
<1>2. 1 # Null /\ Super # Null /\ 2 # Null /\ NewUser + 1 # Null
  BY ColumnAssumption DEF Super, NewUser
<1>3. account[1] = 1 /\ token[1] = 1 /\ token[Super] = Super
  BY <1>1 DEF Persons
<1>4. ASSUME step = 2 PROVE account[NewUser] = Null
  <2>1. step <= 3
    BY <1>4
  <2> QED
    BY <1>1, <2>1, Zenon DEF Persons
<1>5. ASSUME step = 4 PROVE Known(2)
  <2>1. step <= 4 /\ step <= 5
    BY <1>5
  <2>2. account[2] = 2 /\ token[2] = 2
    BY <1>1, <2>1, Zenon DEF Persons
  <2> QED
    BY <1>2, <2>2 DEF Known
<1>6. ASSUME step >= 6 PROVE Known(2) /\ token[2] = NewUser + 1
  <2>1. ~(step <= 4) /\ ~(step <= 5) /\ step # 5
    BY <1>1, <1>6
  <2>2. account[2] = NewUser + 1 /\ token[2] = NewUser + 1
    BY <1>1, <2>1, Zenon DEF Persons
  <2> QED
    BY <1>2, <2>2 DEF Known
<1> QED
  BY <1>1, <1>2, <1>3, <1>4, <1>5, <1>6 DEF Known

\* user1 owns and sees both subcontests, user2 the one it joined.
LEMMA ClubsSeen ==
  ASSUME Script
  PROVE  /\ step = 11 => "private" \notin DOMAIN leagues
         /\ step \in {12, 13} => ListSubcontests(1) = {"private"}
         /\ step = 13 => Joins(2, "private")
         /\ step = 14 => "deleted" \notin DOMAIN leagues
         /\ step = 15 => ~Closes(2, "deleted")
         /\ step = 16 => Closes(1, "deleted")
         /\ step \in 11 .. 13 => ListSubcontests(2) = {}
         /\ step \in 14 .. 31 => ListSubcontests(2) = {"private"} /\ Sees(2, "private")
<1>1. Clubs /\ token[1] = 1 /\ (step >= 6 => Known(2) /\ token[2] = NewUser + 1)
  BY PersonsSeen DEF Script
<1>2. NewUser + 1 # 1 /\ "private" # "deleted"
  BY DEF NewUser
<1>3. ASSUME step = 11 PROVE DOMAIN leagues = {} /\ ListSubcontests(2) = {}
  <2>1. step <= 11
    BY <1>3
  <2>2. DOMAIN leagues = {}
    BY <1>1, <2>1, Zenon DEF Clubs
  <2> QED
    BY <2>2 DEF ListSubcontests
<1>4. ASSUME step \in {12, 13}
      PROVE  /\ ListSubcontests(1) = {"private"} /\ ListSubcontests(2) = {}
             /\ Joins(2, "private")
  <2>1. ~(step <= 11) /\ step \notin {15, 16} /\ step >= 12 /\ step <= 13 /\ step >= 6
    BY <1>4
  <2>2. DOMAIN leagues = {"private"} /\ leagues["private"] = ClubOf({1})
    BY <1>1, <2>1, Zenon DEF Clubs, ClubOf
  <2>3. leagues["private"].members = {1}
    BY <2>2 DEF ClubOf
  <2> QED
    BY <1>1, <1>2, <2>1, <2>2, <2>3 DEF ListSubcontests, Joins
<1>5. ASSUME step \in 14 .. 31
      PROVE  /\ ListSubcontests(2) = {"private"} /\ Sees(2, "private")
             /\ step = 14 => "deleted" \notin DOMAIN leagues
             /\ step = 15 => ~Closes(2, "deleted")
             /\ step = 16 => Closes(1, "deleted")
  <2>1. ~(step <= 11) /\ step >= 12 /\ ~(step <= 13) /\ step >= 6
    BY <1>5
  <2>2. /\ leagues["private"] = ClubOf({1, NewUser + 1})
        /\ DOMAIN leagues = IF step \in {15, 16} THEN {"private", "deleted"} ELSE {"private"}
        /\ step \in {15, 16} => leagues["deleted"] = ClubOf({1})
    BY <1>1, <2>1, Zenon DEF Clubs, ClubOf
  <2>3. /\ leagues["private"].members = {1, NewUser + 1} /\ token[2] = NewUser + 1
        /\ step \in {15, 16} => leagues["deleted"].members = {1} /\ leagues["deleted"].owner = 1
    BY <1>1, <2>1, <2>2 DEF ClubOf
  <2>4. "private" \in DOMAIN leagues
    BY <2>2
  <2>5. ListSubcontests(2) = {"private"}
    <3>1. CASE step \in {15, 16}
      BY <1>2, <2>2, <2>3, <3>1 DEF ListSubcontests
    <3>2. CASE step \notin {15, 16}
      BY <2>2, <2>3, <3>2 DEF ListSubcontests
    <3> QED
      BY <3>1, <3>2
  <2>6. Sees(2, "private")
    BY <2>3, <2>4 DEF Sees
  <2>7. step = 14 => "deleted" \notin DOMAIN leagues
    BY <1>2, <2>2
  <2>8. ASSUME step \in {15, 16} PROVE ~Closes(2, "deleted") /\ Closes(1, "deleted")
    BY <1>1, <1>2, <2>2, <2>3, <2>8 DEF Closes
  <2> QED
    BY <2>5, <2>6, <2>7, <2>8
<1> QED
  BY SMTT(30), <1>3, <1>4, <1>5

\* The rows that the script lists are there.
LEMMA RowsSeen ==
  ASSUME Script
  PROVE  /\ step = 9 => groupPicks[1] # {}
         /\ step = 27 => Cardinality(knockoutPicks[1]) = 32
         /\ step = 29 => matches[<<2, 0>>].c1 = GroupA[1]
<1>1. ScriptPicks /\ Results /\ step \in 1 .. 32
  BY DEF Script
<1>2. ASSUME step = 9 PROVE groupPicks[1] # {}
  <2>1. ~(step <= 8) /\ 1 \in Letters /\ 1 \in 1 .. 4
    BY <1>2, LettersOfContest
  <2>2. groupPicks[1] = PickRows(<<1, 2, 3, 4>>, TRUE)
    BY <1>1, <2>1, Zenon DEF ScriptPicks
  <2>3. ASSUME NEW order, NEW extra PROVE PickRows(order, extra) # {}
    <3>1. [letter |-> 1, country |-> Groups[1][order[1]], place |-> 1, extra |-> extra]
            \in PickRows(order, extra)
      BY <2>1 DEF PickRows
    <3> QED
      BY <3>1
  <2> QED
    BY <2>2, <2>3, Zenon
<1>3. ASSUME step = 27 PROVE Cardinality(knockoutPicks[1]) = 32
  <2>1. ~(step <= 26)
    BY <1>3
  <2>2. knockoutPicks[1] = ScriptBracket
    BY <1>1, <2>1, Zenon DEF ScriptPicks
  <2> QED
    BY <2>2, ThirtyTwoPicks
<1>4. step = 29 => matches[<<2, 0>>].c1 = GroupA[1]
  BY <1>1 DEF Results
<1> QED
  BY <1>2, <1>3, <1>4

----------------------------------------------------------------------------
(***************************************************************************)
(* A call of the script keeps the invariant                                *)
(***************************************************************************)
\* A check that got the answer the script expects.
Asked(n) == step = n /\ step' = n + 1 /\ UNCHANGED <<contestVars, personVars>>

LEMMA AskedKeeps ==
  ASSUME Script, NEW n \in Asks, n # 18 \/ left = {}, Asked(n)
  PROVE  Script'
  BY AskKeeps DEF Asked

LEMMA LoginKeeps ==
  ASSUME Script, LoginScenario
  PROVE  Script'
<1>1. CASE Check(1, LogsIn(1, FALSE))
  <2>1. Asked(1)
    BY <1>1, PersonsSeen, Zenon DEF Check, Call, LogsIn, Asked
  <2> QED
    BY <2>1, AskedKeeps DEF Asks
<1>2. CASE Check(2, ~LogsIn(NewUser, FALSE))
  <2>1. step = 2
    BY <1>2, Zenon DEF Check, Call
  <2>2. Asked(2)
    BY <1>2, <2>1, PersonsSeen, Zenon DEF Check, Call, LogsIn, Asked
  <2> QED
    BY <2>2, AskedKeeps DEF Asks
<1>3. CASE Call(3, LogsIn(NewUser, TRUE),
                /\ account' = [account EXCEPT ![NewUser] = NewUser]
                /\ UNCHANGED <<contestVars, token, leagues, left>>)
  <2>1. /\ step = 3 /\ step' = 3 + 1 /\ account' = [account EXCEPT ![NewUser] = NewUser]
        /\ UNCHANGED <<contestVars, token, leagues, left>>
    BY <1>3, Zenon DEF Call, LogsIn
  <2> QED
    BY <2>1, PersonCalls
<1> QED
  BY <1>1, <1>2, <1>3, Zenon DEF LoginScenario

LEMMA UsersKeeps ==
  ASSUME Script, UsersScenario
  PROVE  Script'
<1>1. CASE Call(4, Known(2), account' = [account EXCEPT ![2] = Null]
                             /\ UNCHANGED <<contestVars, token, leagues, left>>)
  <2>1. step = 4
    BY <1>1, Zenon DEF Call
  <2>2. /\ step = 4 /\ step' = 4 + 1 /\ account' = [account EXCEPT ![2] = Null]
        /\ UNCHANGED <<contestVars, token, leagues, left>>
    BY <1>1, <2>1, PersonsSeen, Zenon DEF Call
  <2> QED
    BY <2>2, PersonCalls
<1>2. CASE Call(5, TRUE, /\ account' = [account EXCEPT ![2] = NewUser + 1]
                         /\ token' = [token EXCEPT ![2] = NewUser + 1]
                         /\ UNCHANGED <<contestVars, leagues, left>>)
  <2>1. /\ step = 5 /\ step' = 5 + 1 /\ account' = [account EXCEPT ![2] = NewUser + 1]
        /\ token' = [token EXCEPT ![2] = NewUser + 1]
        /\ UNCHANGED <<contestVars, leagues, left>>
    BY <1>2, Zenon DEF Call
  <2> QED
    BY <2>1, PersonCalls
<1> QED
  BY <1>1, <1>2, Zenon DEF UsersScenario

LEMMA ContestKeeps ==
  ASSUME Script, ContestScenario
  PROVE  Script'
<1>1. CASE Check(6, ~CreatesContest(1))
  <2>1. ~CreatesContest(1)
    <3>1. 1 \in People /\ 1 # Super
      BY DEF People, Super
    <3> QED
      BY <3>1, EnvironmentAssumption DEF CreatesContest
  <2>2. Asked(6)
    BY <1>1, <2>1, Zenon DEF Check, Call, Asked
  <2> QED
    BY <2>2, AskedKeeps DEF Asks
<1>2. CASE Call(7, CreatesContest(Super), CreateContest /\ UNCHANGED personVars)
  <2>1. step = 7
    BY <1>2, Zenon DEF Call
  <2>2. CreatesContest(Super)
    <3>1. ~(step >= 8)
      BY <2>1
    <3> QED
      BY <3>1, PersonsSeen, EnvironmentAssumption DEF CreatesContest
  <2>3. step' = 7 + 1 /\ CreateContest /\ UNCHANGED personVars
    BY <1>2, <2>2, Zenon DEF Call
  <2> QED
    BY <2>1, <2>3, ContestCalls DEF personVars
<1> QED
  BY <1>1, <1>2, Zenon DEF ContestScenario

LEMMA PicksKeep ==
  ASSUME Script, PicksScenario
  PROVE  Script'
<1>1. /\ step = 8 => Predicts(1)
      /\ step = 10 => Predicts(2)
  <2>1. (step = 8 => step >= 8) /\ (step = 10 => step >= 8 /\ step >= 6)
    OBVIOUS
  <2> QED
    BY <2>1, PersonsSeen, Zenon DEF Predicts
<1>2. CASE Call(8, Predicts(1), SaveGroupPicks(1, PicksInOrder(<<1, 2, 3, 4>>, TRUE))
                                /\ UNCHANGED personVars)
  <2>1. step = 8 /\ step' = 8 + 1 /\ FirstPicks /\ UNCHANGED personVars
    BY <1>1, <1>2, Zenon DEF Call, FirstPicks
  <2> QED
    BY <2>1, SavesKeep
<1>3. CASE Check(9, groupPicks[1] # {})
  <2>1. Asked(9)
    BY <1>3, RowsSeen, Zenon DEF Check, Call, Asked
  <2> QED
    BY <2>1, AskedKeeps DEF Asks
<1>4. CASE Call(10, Predicts(2), SaveGroupPicks(2, PicksInOrder(<<1, 2, 4, 3>>, FALSE))
                                 /\ UNCHANGED personVars)
  <2>1. step = 10 /\ step' = 10 + 1 /\ SecondPicks /\ UNCHANGED personVars
    BY <1>1, <1>4, Zenon DEF Call, SecondPicks
  <2> QED
    BY <2>1, SavesKeep
<1> QED
  BY <1>2, <1>3, <1>4, Zenon DEF PicksScenario

LEMMA SubcontestKeeps ==
  ASSUME Script, SubcontestScenario
  PROVE  Script'
<1>1. /\ step = 11 => Opens(1, "private")
      /\ step = 14 => Opens(1, "deleted")
      /\ step = 12 => ListSubcontests(1) # {}
      /\ step = 13 => \A t \in ListSubcontests(1) : Joins(2, t)
      /\ step = 15 => ~Closes(2, "deleted")
      /\ step = 16 => Closes(1, "deleted")
  <2>1. /\ step = 11 => step >= 8
        /\ step = 14 => step >= 8
    OBVIOUS
  <2> QED
    BY <2>1, PersonsSeen, ClubsSeen DEF Opens
<1>2. CASE Call(11, Opens(1, "private"), Open(1, "private"))
  <2>1. step = 11 /\ step' = 11 + 1 /\ Open(1, "private")
    BY <1>1, <1>2, Zenon DEF Call
  <2> QED
    BY <2>1, ClubCalls DEF Open
<1>3. CASE Check(12, ListSubcontests(1) # {})
  <2>1. Asked(12)
    BY <1>1, <1>3, Zenon DEF Check, Call, Asked
  <2> QED
    BY <2>1, AskedKeeps DEF Asks
<1>4. CASE \E t \in ListSubcontests(1) :
             Call(13, Joins(2, t), /\ leagues' = [leagues EXCEPT ![t].members = @ \cup {token[2]}]
                                   /\ UNCHANGED <<contestVars, account, token, left>>)
  <2>1. PICK t \in ListSubcontests(1) :
          Call(13, Joins(2, t), Join(t) /\ UNCHANGED <<contestVars, account, token, left>>)
    BY <1>4, Zenon DEF Join
  <2>2. /\ step = 13 /\ step' = 13 + 1 /\ Join(t)
        /\ UNCHANGED <<contestVars, account, token, left>>
    BY <1>1, <2>1, Zenon DEF Call
  <2> QED
    BY <2>2, ClubCalls
<1>5. CASE Call(14, Opens(1, "deleted"), Open(1, "deleted"))
  <2>1. step = 14 /\ step' = 14 + 1 /\ Open(1, "deleted")
    BY <1>1, <1>5, Zenon DEF Call
  <2> QED
    BY <2>1, ClubCalls DEF Open
<1>6. CASE Check(15, ~Closes(2, "deleted"))
  <2>1. Asked(15)
    BY <1>1, <1>6, Zenon DEF Check, Call, Asked
  <2> QED
    BY <2>1, AskedKeeps DEF Asks
<1>7. CASE Call(16, Closes(1, "deleted"),
                /\ leagues' = [t \in DOMAIN leagues \ {"deleted"} |-> leagues[t]]
                /\ UNCHANGED <<contestVars, account, token, left>>)
  <2>1. step = 16 /\ step' = 16 + 1 /\ Close /\ UNCHANGED <<contestVars, account, token, left>>
    BY <1>1, <1>7, Zenon DEF Call, Close
  <2> QED
    BY <2>1, ClubCalls
<1> QED
  BY <1>2, <1>3, <1>4, <1>5, <1>6, <1>7, Zenon DEF SubcontestScenario

LEMMA MatchesKeep ==
  ASSUME Script, MatchScenario
  PROVE  Script'
<1>1. CASE Call(17, TRUE, left' = ListGroupMatches(1)
                          /\ UNCHANGED <<contestVars, account, token, leagues>>)
  <2>1. /\ step = 17 /\ step' = 17 + 1 /\ left' = ListGroupMatches(1)
        /\ UNCHANGED <<contestVars, account, token, leagues>>
    BY <1>1, Zenon DEF Call
  <2> QED
    BY <2>1, ContestCalls
<1>2. CASE \E m \in left :
             LET payload == Result(0, Null, m[2], m[3], 1, 0)
             IN  /\ step = 18
                 /\ IF AcceptsMatch(payload)
                    THEN RecordMatch(payload) /\ left' = left \ {m} /\ UNCHANGED step
                    ELSE step' = -1 /\ UNCHANGED <<contestVars, left>>
                 /\ UNCHANGED <<account, token, leagues>>
  <2>1. PICK m \in left :
          /\ step = 18
          /\ IF AcceptsMatch(OneNil(m))
             THEN RecordMatch(OneNil(m)) /\ left' = left \ {m} /\ UNCHANGED step
             ELSE step' = -1 /\ UNCHANGED <<contestVars, left>>
          /\ UNCHANGED <<account, token, leagues>>
    BY <1>2, Zenon DEF OneNil
  <2>2. AcceptsMatch(OneNil(m))
    BY <2>1, OneNilAccepted, Zenon
  <2>3. /\ step = 18 /\ RecordMatch(OneNil(m)) /\ left' = left \ {m} /\ step' = step
        /\ UNCHANGED <<account, token, leagues>>
    BY <2>1, <2>2, Zenon
  <2> QED
    BY <2>3, OneNilKeeps
<1>3. CASE left = {} /\ Check(18, \A m \in ListGroupMatches(1) :
                                    ~AcceptsMatch(Result(0, Null, m[2], m[3], 3, 2)))
  <2>1. step = 18 /\ left = {}
    BY <1>3, Zenon DEF Check, Call
  <2>2. \A m \in ListGroupMatches(1) : ~AcceptsMatch(Result(0, Null, m[2], m[3], 3, 2))
    BY <2>1, NoMatchTwice, Zenon
  <2>3. Asked(18)
    BY <1>3, <2>2, Zenon DEF Check, Call, Asked
  <2> QED
    BY <2>1, <2>3, AskedKeeps DEF Asks
<1>4. CASE Check(19, Cardinality(ListKnockoutMatches) = 32)
  <2>1. Asked(19)
    BY <1>4, ThirtyTwoMatches, Zenon DEF Check, Call, Asked
  <2> QED
    BY <2>1, AskedKeeps DEF Asks
<1> QED
  BY <1>1, <1>2, <1>3, <1>4, Zenon DEF MatchScenario

LEMMA GroupKeeps ==
  ASSUME Script, GroupScenario
  PROVE  Script'
<1>1. /\ step = 22 => Listed = {1, 2} /\ scores[1].group = 45 /\ scores[2].group = 43
      /\ step = 25 => Listed = {1, 2} /\ scores[1].group = 50 /\ scores[2].group = 43
  <2>1. /\ step = 22 => step >= 11 /\ step \in {22, 23}
        /\ step = 25 => step >= 11 /\ step \in 24 .. 28
    OBVIOUS
  <2> QED
    BY <2>1, ScoresSeen
<1>2. CASE Call(20, AcceptsRankings(1), FinalizeRankings(1, Groups[1]) /\ UNCHANGED personVars)
  <2>1. step = 20 /\ step \in {20, 21}
    BY <1>2, Zenon DEF Call
  <2>2. AcceptsRankings(1)
    BY <2>1, RankingsAccepted, Zenon
  <2>3. step' = 20 + 1 /\ FinalizeRankings(1, GroupA) /\ UNCHANGED personVars
    BY <1>2, <2>2, Zenon DEF Call, GroupA
  <2> QED
    BY <2>1, <2>3, RankingsKeep
<1>3. CASE Check(21, ~AcceptsRankings(1))
  <2>1. step = 21
    BY <1>3, Zenon DEF Check, Call
  <2>2. step \in {20, 21} /\ step # 20
    BY <2>1
  <2>3. ~AcceptsRankings(1)
    BY <2>2, RankingsAccepted, Zenon
  <2>4. Asked(21)
    BY <1>3, <2>3, Zenon DEF Check, Call, Asked
  <2> QED
    BY <2>4, AskedKeeps DEF Asks
<1>4. CASE Check(22, Listed = {1, 2} /\ scores[1].group = 45 /\ scores[2].group = 43)
  <2>1. Asked(22)
    BY <1>1, <1>4, Zenon DEF Check, Call, Asked
  <2> QED
    BY <2>1, AskedKeeps DEF Asks
<1>5. CASE Call(23, AcceptsQualifier(1), FinalizeQualifier(1, TRUE) /\ UNCHANGED personVars)
  <2>1. step = 23 /\ step \in {23, 24}
    BY <1>5, Zenon DEF Call
  <2>2. AcceptsQualifier(1)
    BY <2>1, QualifierAccepted, Zenon
  <2>3. step' = 23 + 1 /\ FinalizeQualifier(1, TRUE) /\ UNCHANGED personVars
    BY <1>5, <2>2, Zenon DEF Call
  <2>4. step' = step + 1
    BY <2>1, <2>3
  <2> QED
    BY <2>1, <2>3, <2>4, QualifierKeeps, Zenon
<1>6. CASE Check(24, ~AcceptsQualifier(1))
  <2>1. step = 24
    BY <1>6, Zenon DEF Check, Call
  <2>2. step \in {23, 24} /\ step # 23
    BY <2>1
  <2>3. ~AcceptsQualifier(1)
    BY <2>2, QualifierAccepted, Zenon
  <2>4. Asked(24)
    BY <1>6, <2>3, Zenon DEF Check, Call, Asked
  <2> QED
    BY <2>4, AskedKeeps DEF Asks
<1>7. CASE Check(25, Listed = {1, 2} /\ scores[1].group = 50 /\ scores[2].group = 43)
  <2>1. Asked(25)
    BY <1>1, <1>7, Zenon DEF Check, Call, Asked
  <2> QED
    BY <2>1, AskedKeeps DEF Asks
<1> QED
  BY <1>2, <1>3, <1>4, <1>5, <1>6, <1>7, Zenon DEF GroupScenario

LEMMA KnockoutsKeep ==
  ASSUME Script, KnockoutScenario
  PROVE  Script'
<1>1. /\ step = 26 => Predicts(1)
      /\ step = 30 => /\ Listed = {1, 2}
                      /\ scores[1] = [group |-> 50, knockout |-> 15]
                      /\ scores[2] = [group |-> 43, knockout |-> 0]
  <2>1. /\ step = 26 => step >= 8
        /\ step = 30 => step >= 11 /\ step >= 29
    OBVIOUS
  <2> QED
    BY <2>1, PersonsSeen, ScoresSeen, Zenon DEF Predicts
<1>2. CASE Call(26, Predicts(1), SaveKnockoutPicks(1, ScriptBracket) /\ UNCHANGED personVars)
  <2>1. step = 26 /\ step' = 26 + 1 /\ SaveKnockoutPicks(1, ScriptBracket) /\ UNCHANGED personVars
    BY <1>1, <1>2, Zenon DEF Call
  <2>2. step' = step + 1
    BY <2>1
  <2> QED
    BY <2>1, <2>2, SavesKeep, Zenon
<1>3. CASE Check(27, Cardinality(knockoutPicks[1]) = 32)
  <2>1. Asked(27)
    BY <1>3, RowsSeen, Zenon DEF Check, Call, Asked
  <2> QED
    BY <2>1, AskedKeeps DEF Asks
<1>4. CASE Call(28, AcceptsMatch(OpeningResult), RecordMatch(OpeningResult) /\ UNCHANGED personVars)
  <2>1. step = 28
    BY <1>4, Zenon DEF Call
  <2>2. AcceptsMatch(OpeningResult)
    BY <2>1, OpeningCall
  <2>3. step' = 28 + 1 /\ RecordMatch(OpeningResult) /\ UNCHANGED personVars
    BY <1>4, <2>2, Zenon DEF Call
  <2> QED
    BY <2>1, <2>3, OpeningKeeps
<1>5. CASE Check(29, matches[<<2, 0>>].c1 = GroupA[1])
  <2>1. Asked(29)
    BY <1>5, RowsSeen, Zenon DEF Check, Call, Asked
  <2> QED
    BY <2>1, AskedKeeps DEF Asks
<1>6. CASE Check(30, /\ Listed = {1, 2}
                     /\ scores[1] = [group |-> 50, knockout |-> 15]
                     /\ scores[2] = [group |-> 43, knockout |-> 0])
  <2>1. Asked(30)
    BY <1>1, <1>6, Zenon DEF Check, Call, Asked
  <2> QED
    BY <2>1, AskedKeeps DEF Asks
<1> QED
  BY <1>2, <1>3, <1>4, <1>5, <1>6, Zenon DEF KnockoutScenario, OpeningResult, GroupA

LEMMA LeaderboardKeeps ==
  ASSUME Script, LeaderboardScenario
  PROVE  Script'
<1>1. PICK t \in ListSubcontests(2) : Check(31, Sees(2, t))
  BY DEF LeaderboardScenario
<1>2. step = 31
  BY <1>1, Zenon DEF Check, Call
<1>3. Sees(2, t)
  <2>1. step \in 14 .. 31
    BY <1>2
  <2>2. ListSubcontests(2) = {"private"} /\ Sees(2, "private")
    BY <2>1, ClubsSeen, Zenon
  <2> QED
    BY <2>2
<1>4. Asked(31)
  BY <1>1, <1>3, Zenon DEF Check, Call, Asked
<1> QED
  BY <1>4, AskedKeeps DEF Asks

----------------------------------------------------------------------------
(***************************************************************************)
(* Theorems about both programs                                            *)
(***************************************************************************)
LEMMA ScriptStepKeeps ==
  ASSUME ScriptInv, stage = "start", ScriptStep, UNCHANGED seedVars
  PROVE  ScriptInv' /\ step' # 0
<1>1. stage' = "start"
  BY DEF seedVars
<1>2. CASE CleanUp
  BY <1>1, <1>2, CleanUpKeeps DEF ScriptInv, CleanUp
<1>3. CASE ~CleanUp
  <2>1. step # 0 => Script
    BY DEF ScriptInv
  <2>2. step # 0
    <3>1. /\ LoginScenario => step = 1 \/ step = 2 \/ step = 3
          /\ UsersScenario => step = 4 \/ step = 5
          /\ ContestScenario => step = 6 \/ step = 7
          /\ PicksScenario => step = 8 \/ step = 9 \/ step = 10
          /\ LeaderboardScenario => step = 31
      BY Zenon DEF LoginScenario, UsersScenario, ContestScenario, PicksScenario,
                   LeaderboardScenario, Check, Call
    <3>2. SubcontestScenario =>
            \/ step = 11 \/ step = 12 \/ step = 13 \/ step = 14 \/ step = 15 \/ step = 16
      BY Zenon DEF SubcontestScenario, Check, Call
    <3>3. MatchScenario => step = 17 \/ step = 18 \/ step = 19
      BY Zenon DEF MatchScenario, Check, Call
    <3>4. GroupScenario =>
            \/ step = 20 \/ step = 21 \/ step = 22 \/ step = 23 \/ step = 24 \/ step = 25
      BY Zenon DEF GroupScenario, Check, Call
    <3>5. KnockoutScenario => step = 26 \/ step = 27 \/ step = 28 \/ step = 29 \/ step = 30
      BY Zenon DEF KnockoutScenario, Check, Call
    <3>6. \/ LoginScenario \/ UsersScenario \/ ContestScenario \/ PicksScenario
          \/ SubcontestScenario \/ MatchScenario \/ GroupScenario \/ KnockoutScenario
          \/ LeaderboardScenario
      BY <1>3, Zenon DEF ScriptStep
    <3> QED
      BY <3>1, <3>2, <3>3, <3>4, <3>5, <3>6
  <2>3. Script'
    BY <1>3, <2>1, <2>2, LoginKeeps, UsersKeeps, ContestKeeps, PicksKeep, SubcontestKeeps,
       MatchesKeep, GroupKeeps, KnockoutsKeep, LeaderboardKeeps, Zenon DEF ScriptStep
  <2> QED
    BY <1>1, <2>3 DEF ScriptInv, Script
<1> QED
  BY <1>2, <1>3

LEMMA InitScriptInv == Init => ScriptInv
  BY DEF Init, ScriptIdle, ScriptInv

LEMMA NextScriptInv == ScriptInv /\ [Next]_vars => ScriptInv'
<1> SUFFICES ASSUME ScriptInv, [Next]_vars PROVE ScriptInv'
  OBVIOUS
<1>1. CASE step = 0 /\ SeedStep /\ UNCHANGED scriptVars
  BY <1>1 DEF ScriptInv, scriptVars
<1>2. CASE stage = "start" /\ ScriptStep /\ UNCHANGED seedVars
  BY <1>2, ScriptStepKeeps
<1>3. ASSUME UNCHANGED <<contestVars, scriptVars>>, UNCHANGED seedVars
      PROVE  ScriptInv'
  <2>1. stage' = stage /\ step' = step
    BY <1>3 DEF seedVars, scriptVars
  <2>2. ASSUME Script PROVE Script'
    <3>1. /\ step' = step /\ account' = account /\ token' = token /\ leagues' = leagues
          /\ left' = left /\ created' = created /\ matches' = matches /\ standings' = standings
          /\ finals' = finals /\ groupPicks' = groupPicks /\ knockoutPicks' = knockoutPicks
          /\ scores' = scores
      BY <1>3 DEF contestVars, scriptVars
    <3>2. Persons' /\ Clubs'
      BY <2>2, <3>1, Zenon DEF Script, Persons, Clubs
    <3>3. Unplayed1' = Unplayed1
      BY <3>1, Zenon DEF Unplayed1
    <3>4. Rows'
      BY <2>2, <3>1, RowsStay DEF Script, Results
    <3>5. Results'
      BY <2>2, <3>1, <3>3, <3>4, Zenon DEF Script, Results, Fixture, Blank, Goalless
    <3>6. TableA' /\ FinalA'
      BY <2>2, <3>1, <3>3, Zenon DEF Script, TableA, PointsFrom, PointsOf, FinalA
    <3>7. ScriptPicks' /\ ScriptScores' /\ step' \in 1 .. 32
      BY <2>2, <3>1, Zenon DEF Script, ScriptPicks, ScriptScores
    <3> QED
      BY <3>2, <3>5, <3>6, <3>7 DEF Script
  <2> QED
    BY <2>1, <2>2 DEF ScriptInv
<1>4. CASE ScriptDone /\ UNCHANGED seedVars
  BY <1>3, <1>4 DEF ScriptDone
<1>5. CASE StopScript
  BY <1>5 DEF StopScript, ScriptInv
<1>6. CASE UNCHANGED vars
  BY <1>3, <1>6 DEF vars
<1> QED
  BY <1>1, <1>2, <1>4, <1>5, <1>6 DEF Next

\* What every call of the acceptance program finds in the tables.
THEOREM ScriptInvariant == Spec => []ScriptInv
<1> QED
  BY InitScriptInv, NextScriptInv, PTL DEF Spec

LEMMA AccountsCounted ==
  ASSUME Script
  PROVE  /\ step = 4 => Cardinality({p \in People : account[p] # Null}) = 4
         /\ step = 5 => Cardinality({p \in People : account[p] # Null}) = 3
<1>1. Persons /\ IsFiniteSet(People) /\ Cardinality(People) = 4
  <2>1. 0 \in Int /\ 3 \in Int /\ ~(0 > 3) /\ 3 - 0 + 1 = 4
    OBVIOUS
  <2> QED
    BY <2>1, FS_Interval DEF Script, People
<1>2. \A p : p \in People <=> p = Super \/ p = 1 \/ p = 2 \/ p = NewUser
  BY DEF People, Super, NewUser
<1>3. Super # Null /\ 1 # Null /\ 2 # Null /\ NewUser # Null /\ Super # 2 /\ 1 # 2 /\ NewUser # 2
  BY ColumnAssumption DEF Super, NewUser
<1>4. ASSUME step = 4 PROVE {p \in People : account[p] # Null} = People
  <2>1. step <= 4 /\ ~(step <= 3)
    BY <1>4
  <2>2. account[Super] = Super /\ account[1] = 1 /\ account[2] = 2 /\ account[NewUser] = NewUser
    BY <1>1, <2>1, Zenon DEF Persons
  <2> QED
    BY <1>2, <1>3, <2>2
<1>5. ASSUME step = 5 PROVE {p \in People : account[p] # Null} = People \ {2}
  <2>1. ~(step <= 4) /\ step = 5 /\ ~(step <= 3)
    BY <1>5
  <2>2. account[Super] = Super /\ account[1] = 1 /\ account[2] = Null /\ account[NewUser] = NewUser
    BY <1>1, <2>1, Zenon DEF Persons
  <2> QED
    BY <1>2, <1>3, <2>2
<1>6. Cardinality(People \ {2}) = 3
  <2>1. 2 \in People /\ 4 - 1 = 3
    BY <1>2
  <2> QED
    BY <1>1, <2>1, FS_RemoveElement
<1> QED
  BY <1>1, <1>4, <1>5, <1>6

LEMMA ScriptSucceeds ==
  ASSUME ScriptInv
  PROVE  step # -1 /\ AsAnnounced
<1>1. CASE step = 0
  BY <1>1 DEF AsAnnounced
<1>2. CASE step # 0
  <2>1. Script /\ step \in 1 .. 32
    BY <1>2 DEF ScriptInv, Script
  <2>2. AsAnnounced
    BY <2>1, AccountsCounted, ClubsSeen DEF AsAnnounced
  <2> QED
    BY <2>1, <2>2
<1> QED
  BY <1>1, <1>2

\* Neither program gets an answer it does not expect, unless two of the users the seed
\* program draws share a username or an e-mail: then it ends before it has a contest.
\* (SUPERADMIN_EMAILS lists no address of the acceptance program's other users.)
THEOREM BothSucceed == Spec => []ProgramsSucceed
<1>1. SeedInv /\ ScriptInv => ProgramsSucceed
  BY SeedSucceeds, ScriptSucceeds DEF ProgramsSucceed
<1> QED
  BY <1>1, SeedInvariant, ScriptInvariant, PTL

----------------------------------------------------------------------------
(***************************************************************************)
(* The order shown for a group                                             *)
(***************************************************************************)
ShownKey(F, S, l) ==
  [c \in CountriesOf(l) |->
     <<IF F[c].rank = Null THEN -5 ELSE -F[c].rank, S[c].points, S[c].gd, S[c].gf, S[c].cs,
       -CodeRank[c]>>]

\* Until the group is ranked it is shown in the order of its table.
LEMMA ShownUnranked ==
  ASSUME Rows, NEW l \in Letters, \A e \in CountriesOf(l) : finals[e].rank = Null,
         NEW c \in CountriesOf(l), NEW d \in CountriesOf(l)
  PROVE  Ahead(ShownKey(finals, standings, l), c, d) <=> Ahead(TableKey(CountriesOf(l)), c, d)
<1> DEFINE k == ShownKey(finals, standings, l)
           t == TableKey(CountriesOf(l))
<1>1. c \in Countries /\ d \in Countries
  BY FourCountries
<1>2. PICK p1 \in Int, g1 \in Int, f1 \in Int, r1 \in Int :
        /\ p1 = standings[c].points /\ g1 = standings[c].gd /\ f1 = standings[c].gf
        /\ r1 = -CodeRank[c] /\ standings[c].cs = 0
  <2>1. /\ standings[c].points \in Int /\ standings[c].gd \in Int /\ standings[c].gf \in Int
        /\ standings[c].cs = 0
    <3>1. standings[c] \in Book!StandingRow /\ standings[c].cs = 0
      BY <1>1 DEF Rows
    <3> QED
      BY <3>1 DEF Book!StandingRow
  <2>2. -CodeRank[c] \in Int
    BY <1>1, CodesOfContest
  <2> QED
    BY <2>1, <2>2
<1>3. PICK p2 \in Int, g2 \in Int, f2 \in Int, r2 \in Int :
        /\ p2 = standings[d].points /\ g2 = standings[d].gd /\ f2 = standings[d].gf
        /\ r2 = -CodeRank[d] /\ standings[d].cs = 0
  <2>1. /\ standings[d].points \in Int /\ standings[d].gd \in Int /\ standings[d].gf \in Int
        /\ standings[d].cs = 0
    <3>1. standings[d] \in Book!StandingRow /\ standings[d].cs = 0
      BY <1>1 DEF Rows
    <3> QED
      BY <3>1 DEF Book!StandingRow
  <2>2. -CodeRank[d] \in Int
    BY <1>1, CodesOfContest
  <2> QED
    BY <2>1, <2>2
<1>4. k[c] = <<-5, p1, g1, f1, 0, r1>> /\ k[d] = <<-5, p2, g2, f2, 0, r2>>
  BY <1>2, <1>3 DEF ShownKey
<1>5. t[c] = <<p1, g1, f1, r1>> /\ t[d] = <<p2, g2, f2, r2>>
  BY <1>2, <1>3 DEF TableKey
<1> DEFINE Better == \/ p1 > p2
                     \/ p1 = p2 /\ (g1 > g2 \/ (g1 = g2 /\ (f1 > f2 \/ (f1 = f2 /\ r1 > r2))))
<1> HIDE DEF k, t
<1>6. Ahead(k, c, d) <=> Better
  <2>1. /\ DOMAIN k[c] = 1 .. 6
        /\ k[c][1] = -5 /\ k[c][2] = p1 /\ k[c][3] = g1 /\ k[c][4] = f1 /\ k[c][5] = 0 /\ k[c][6] = r1
        /\ k[d][1] = -5 /\ k[d][2] = p2 /\ k[d][3] = g2 /\ k[d][4] = f2 /\ k[d][5] = 0 /\ k[d][6] = r2
    BY <1>4
  <2>2. ASSUME Ahead(k, c, d) PROVE Better
    <3>1. PICK i \in 1 .. 6 : k[c][i] > k[d][i] /\ \A j \in 1 .. i - 1 : k[c][j] = k[d][j]
      BY <2>1, <2>2 DEF Ahead
    <3>2. /\ i = 2 => p1 > p2
          /\ i = 3 => p1 = p2 /\ g1 > g2
          /\ i = 4 => p1 = p2 /\ g1 = g2 /\ f1 > f2
          /\ i = 6 => p1 = p2 /\ g1 = g2 /\ f1 = f2 /\ r1 > r2
          /\ i # 1 /\ i # 5
      BY <2>1, <3>1
    <3> QED
      BY <3>2
  <2>3. ASSUME Better PROVE Ahead(k, c, d)
    <3>1. CASE p1 > p2
      <4>1. 2 \in 1 .. 6 /\ k[c][2] > k[d][2] /\ \A j \in 1 .. 2 - 1 : k[c][j] = k[d][j]
        BY <2>1, <3>1
      <4> QED
        BY <2>1, <4>1 DEF Ahead
    <3>2. CASE p1 = p2 /\ g1 > g2
      <4>1. 3 \in 1 .. 6 /\ k[c][3] > k[d][3] /\ \A j \in 1 .. 3 - 1 : k[c][j] = k[d][j]
        BY <2>1, <3>2
      <4> QED
        BY <2>1, <4>1 DEF Ahead
    <3>3. CASE p1 = p2 /\ g1 = g2 /\ f1 > f2
      <4>1. 4 \in 1 .. 6 /\ k[c][4] > k[d][4] /\ \A j \in 1 .. 4 - 1 : k[c][j] = k[d][j]
        BY <2>1, <3>3
      <4> QED
        BY <2>1, <4>1 DEF Ahead
    <3>4. CASE p1 = p2 /\ g1 = g2 /\ f1 = f2 /\ r1 > r2
      <4>1. 6 \in 1 .. 6 /\ k[c][6] > k[d][6] /\ \A j \in 1 .. 6 - 1 : k[c][j] = k[d][j]
        BY <2>1, <3>4
      <4> QED
        BY <2>1, <4>1 DEF Ahead
    <3> QED
      BY <2>3, <3>1, <3>2, <3>3, <3>4
  <2> QED
    BY <2>2, <2>3
<1>7. Ahead(t, c, d) <=> Better
  <2>1. /\ DOMAIN t[c] = 1 .. 4
        /\ t[c][1] = p1 /\ t[c][2] = g1 /\ t[c][3] = f1 /\ t[c][4] = r1
        /\ t[d][1] = p2 /\ t[d][2] = g2 /\ t[d][3] = f2 /\ t[d][4] = r2
    BY <1>5
  <2>2. ASSUME Ahead(t, c, d) PROVE Better
    <3>1. PICK i \in 1 .. 4 : t[c][i] > t[d][i] /\ \A j \in 1 .. i - 1 : t[c][j] = t[d][j]
      BY <2>1, <2>2 DEF Ahead
    <3>2. /\ i = 1 => p1 > p2
          /\ i = 2 => p1 = p2 /\ g1 > g2
          /\ i = 3 => p1 = p2 /\ g1 = g2 /\ f1 > f2
          /\ i = 4 => p1 = p2 /\ g1 = g2 /\ f1 = f2 /\ r1 > r2
      BY <2>1, <3>1
    <3> QED
      BY <3>2
  <2>3. ASSUME Better PROVE Ahead(t, c, d)
    <3>1. CASE p1 > p2
      <4>1. 1 \in 1 .. 4 /\ t[c][1] > t[d][1] /\ \A j \in 1 .. 1 - 1 : t[c][j] = t[d][j]
        BY <2>1, <3>1
      <4> QED
        BY <2>1, <4>1 DEF Ahead
    <3>2. CASE p1 = p2 /\ g1 > g2
      <4>1. 2 \in 1 .. 4 /\ t[c][2] > t[d][2] /\ \A j \in 1 .. 2 - 1 : t[c][j] = t[d][j]
        BY <2>1, <3>2
      <4> QED
        BY <2>1, <4>1 DEF Ahead
    <3>3. CASE p1 = p2 /\ g1 = g2 /\ f1 > f2
      <4>1. 3 \in 1 .. 4 /\ t[c][3] > t[d][3] /\ \A j \in 1 .. 3 - 1 : t[c][j] = t[d][j]
        BY <2>1, <3>3
      <4> QED
        BY <2>1, <4>1 DEF Ahead
    <3>4. CASE p1 = p2 /\ g1 = g2 /\ f1 = f2 /\ r1 > r2
      <4>1. 4 \in 1 .. 4 /\ t[c][4] > t[d][4] /\ \A j \in 1 .. 4 - 1 : t[c][j] = t[d][j]
        BY <2>1, <3>4
      <4> QED
        BY <2>1, <4>1 DEF Ahead
    <3> QED
      BY <2>3, <3>1, <3>2, <3>3, <3>4
  <2> QED
    BY <2>2, <2>3
<1> QED
  BY <1>6, <1>7 DEF k, t

\* From then on in the order of its ranks.
LEMMA ShownRanked ==
  ASSUME NEW F, NEW S, NEW l \in Letters, NEW c \in CountriesOf(l), NEW d \in CountriesOf(l),
         S[c] \in Book!StandingRow, F[c].rank \in 1 .. 4, F[d].rank \in 1 .. 4,
         F[c].rank = F[d].rank => c = d
  PROVE  Ahead(ShownKey(F, S, l), c, d) <=> F[c].rank < F[d].rank
<1> DEFINE k == ShownKey(F, S, l)
<1>1. PICK r \in 1 .. 4, q \in 1 .. 4 : r = F[c].rank /\ q = F[d].rank
  OBVIOUS
<1>2. Null \notin Int /\ CodeRank[c] \in Int
  BY ColumnAssumption, CodesOfContest, FourCountries
<1>3. DOMAIN k[c] = 1 .. 6 /\ k[c][1] = -r /\ k[d][1] = -q
  BY <1>1, <1>2 DEF ShownKey
<1>4. \A i \in 1 .. 6 : k[c][i] \in Int
  <2>1. k[c] = <<-r, S[c].points, S[c].gd, S[c].gf, S[c].cs, -CodeRank[c]>>
    BY <1>1, <1>2 DEF ShownKey
  <2>2. /\ -r \in Int /\ S[c].points \in Int /\ S[c].gd \in Int /\ S[c].gf \in Int
        /\ S[c].cs \in Int /\ -CodeRank[c] \in Int
    BY <1>1, <1>2 DEF Book!StandingRow
  <2> HIDE DEF k
  <2> QED
    BY <2>1, <2>2
<1> HIDE DEF k
<1>5. ASSUME Ahead(k, c, d) PROVE r < q
  <2>1. PICK i \in 1 .. 6 : k[c][i] > k[d][i] /\ \A j \in 1 .. i - 1 : k[c][j] = k[d][j]
    BY <1>3, <1>5 DEF Ahead
  <2>2. CASE i = 1
    BY <1>3, <2>1, <2>2
  <2>3. CASE i > 1
    <3>1. r = q
      BY <1>3, <2>1, <2>3
    <3>2. c = d
      BY <1>1, <3>1
    <3> QED
      BY <1>4, <2>1, <3>2
  <2> QED
    BY <2>2, <2>3
<1>6. ASSUME r < q PROVE Ahead(k, c, d)
  <2>1. 1 \in DOMAIN k[c] /\ k[c][1] > k[d][1] /\ \A j \in 1 .. 1 - 1 : k[c][j] = k[d][j]
    BY <1>3, <1>6
  <2> QED
    BY <2>1 DEF Ahead
<1> QED
  BY <1>1, <1>5, <1>6 DEF k

\* Ranks that follow the table leave the order as it was.
LEMMA RankingKeepsOrder ==
  ASSUME Rows, NEW l \in Letters, \A c \in CountriesOf(l) : finals[c].rank = Null,
         NEW F, NEW order, Orders(order, CountriesOf(l)),
         \A i, j \in 1 .. 4 : i < j => Ahead(TableKey(CountriesOf(l)), order[i], order[j]),
         \A i \in 1 .. 4 : F[order[i]].rank = i
  PROVE  Sorted(ShownKey(finals, standings, l)) = Sorted(ShownKey(F, standings, l))
<1> DEFINE D == CountriesOf(l)
           f == ShownKey(finals, standings, l)
           g == ShownKey(F, standings, l)
           t == TableKey(D)
<1>1. DOMAIN f = D /\ DOMAIN g = D
  BY DEF ShownKey
<1>2. D \in SUBSET Countries /\ Cardinality(D) = 4
  BY FourCountries
<1>3. Comparable(t) /\ DOMAIN t = D
  BY <1>2, TableKeyComparable
<1>4. ASSUME NEW c \in D, NEW d \in D
      PROVE  Ahead(f, c, d) <=> Ahead(g, c, d)
  <2>1. PICK i \in 1 .. 4, j \in 1 .. 4 : order[i] = c /\ order[j] = d
    BY <1>2 DEF Orders
  <2>2. F[c].rank = i /\ F[d].rank = j
    BY <2>1
  <2>3. standings[c] \in Book!StandingRow
    BY <1>2 DEF Rows
  <2>4. Ahead(g, c, d) <=> i < j
    BY <2>1, <2>2, <2>3, ShownRanked
  <2>5. Ahead(f, c, d) <=> Ahead(t, c, d)
    BY ShownUnranked
  <2> HIDE DEF f, g, t, D
  <2>6. i < j => Ahead(t, c, d)
    BY <2>1 DEF t, D
  <2>7. j < i => Ahead(t, d, c)
    BY <2>1 DEF t, D
  <2>8. i = j => c = d
    BY <2>1
  <2>9. ~Ahead(t, c, c) /\ (Ahead(t, c, d) /\ Ahead(t, d, c) => Ahead(t, c, c))
    BY <1>3, AheadOrders
  <2>10. Ahead(t, c, d) <=> i < j
    BY <2>6, <2>7, <2>8, <2>9
  <2> QED
    BY <2>4, <2>5, <2>10
<1> HIDE DEF f, g, t, D
<1>5. Sorted(f) = Sorted(g)
  BY <1>1, <1>4, SortedSame
<1> QED
  BY <1>5 DEF f, g

\* What a step has to do with the order shown for a group whose matches are completed.
KeepsOrder(l) ==
  created /\ created' /\ (\A m \in ListGroupMatches(l) : Completed(matches[m]))
  => ShownOrder(l)' = ShownOrder(l)

\* The order is kept where neither ranks nor standings change.
LEMMA SameRanksSameOrder ==
  ASSUME NEW l \in Letters,
         \A c \in CountriesOf(l) : finals'[c].rank = finals[c].rank /\ standings'[c] = standings[c]
  PROVE  ShownOrder(l)' = ShownOrder(l)
<1>1. ShownKey(finals', standings', l) = ShownKey(finals, standings, l)
  BY DEF ShownKey
<1>2. /\ ShownOrder(l) = Sorted(ShownKey(finals, standings, l))
      /\ ShownOrder(l)' = Sorted(ShownKey(finals', standings', l))
  BY DEF ShownOrder, ShownKey
<1> QED
  BY <1>1, <1>2

LEMMA SameTablesKeepOrder ==
  ASSUME NEW l \in Letters, UNCHANGED <<standings, finals>>
  PROVE  KeepsOrder(l)
  BY SameRanksSameOrder DEF KeepsOrder

\* A result of a group match, which was not completed, is one of another group.
LEMMA GroupResultKeepsOrder ==
  ASSUME Rows, \A n \in GroupMatches : Fixture(n), NEW m \in GroupMatches, Goalless(m),
         NEW p, GroupPayload(p, m), RecordMatch(p), NEW l \in Letters
  PROVE  KeepsOrder(l)
<1> DEFINE new == Book!Merge(m, matches[m], p)
<1>1. new.c1 = m[2] /\ new.c2 = m[3]
  BY GroupCall
<1>2. /\ standings' = [standings EXCEPT ![new.c1] = CreditFirst(@, new),
                                        ![new.c2] = CreditSecond(@, new)]
      /\ finals' = finals
  BY GroupEffect
<1> HIDE DEF new
<1>3. ASSUME Letter[m[2]] # l PROVE KeepsOrder(l)
  <2>1. Letter[m[3]] # l
    BY <1>3, GroupMatch
  <2>2. \A c \in CountriesOf(l) : c \in Countries /\ Letter[c] = l
    BY CountriesByLetter
  <2>3. \A c \in CountriesOf(l) : standings'[c] = standings[c]
    BY <1>1, <1>2, <1>3, <2>1, <2>2 DEF Rows
  <2> QED
    BY <1>2, <2>3, SameRanksSameOrder DEF KeepsOrder
<1>4. ASSUME Letter[m[2]] = l PROVE KeepsOrder(l)
  <2>1. m \in ListGroupMatches(l) /\ ~Completed(matches[m])
    BY <1>4 DEF ListGroupMatches, Goalless, Completed
  <2> QED
    BY <2>1 DEF KeepsOrder
<1> QED
  BY <1>3, <1>4

\* A result of a knockout match is none of a group.
LEMMA BracketKeepsOrder ==
  ASSUME NEW p, p.round \in 1 .. 5, RecordMatch(p), NEW l \in Letters
  PROVE  KeepsOrder(l)
<1>1. PICK m \in Book!Found(matches, p) : Book!Record(m, p) /\ UNCHANGED finals
  BY DEF RecordMatch
<1>2. Book!IsKnockout(m)
  BY <1>1 DEF Book!Found, Book!IsKnockout
<1>3. standings' = standings
  BY <1>1, <1>2
  DEF Book!Record, Book!RecordFields, Book!RecordGroupResult, Book!RecordKnockoutResult
<1> QED
  BY <1>1, <1>3, SameTablesKeepOrder

\* Which third goes through changes no rank.
LEMMA QualifierKeepsOrder ==
  ASSUME Rows, NEW k, NEW advances, FinalizeQualifier(k, advances), NEW l \in Letters
  PROVE  KeepsOrder(l)
<1>1. /\ finals' = [c \in Countries |->
           IF c \in ThirdOf(k) THEN [finals[c] EXCEPT !.qualifier = advances] ELSE finals[c]]
      /\ standings' = standings
  BY DEF FinalizeQualifier
<1>2. ASSUME NEW c \in CountriesOf(l) PROVE finals'[c].rank = finals[c].rank
  <2>1. c \in Countries
    BY CountriesByLetter
  <2>2. finals[c] \in [rank : {Null} \cup 1 .. 4, qualifier : {Null} \cup BOOLEAN]
    BY <2>1 DEF Rows
  <2>3. [finals[c] EXCEPT !.qualifier = advances].rank = finals[c].rank
    BY <2>2
  <2> QED
    BY <1>1, <2>1, <2>3
<1> QED
  BY <1>1, <1>2, SameRanksSameOrder DEF KeepsOrder

\* A group is finalized in the order of its table.
LEMMA RankGroupKeepsOrder ==
  ASSUME Running, RankGroup, NEW l \in Letters
  PROVE  KeepsOrder(l)
<1> DEFINE k == Head(todo)
           order == BestFirst(CountriesOf(k))
<1>1. /\ stage = "rankings" /\ todo # <<>>
      /\ IF AcceptsRankings(k) THEN FinalizeRankings(k, order) ELSE Fail
  BY DEF RankGroup, Turn
<1>2. todo \in Seq(Letters) /\ Rows
  BY <1>1 DEF Running, Loop, Tables
<1>3. k \in Letters
  BY <1>1, <1>2, HeadTailProperties
<1>4. CASE Fail
  BY <1>4, SameTablesKeepOrder DEF Fail, contestVars
<1>5. CASE FinalizeRankings(k, order)
  <2> HIDE DEF k
  <2>1. \A c \in CountriesOf(k) : finals[c].rank = Null
    BY <1>5, Zenon DEF FinalizeRankings, AcceptsRankings
  <2>2. /\ standings' = standings
        /\ \A c \in Countries : c \notin CountriesOf(k) => finals'[c].rank = finals[c].rank
        /\ \A i \in 1 .. 4 : finals'[order[i]].rank = i
    BY <1>2, <1>3, <1>5, RankEffect
  <2>3. CASE l # k
    <3>1. \A c \in CountriesOf(l) : c \in Countries /\ c \notin CountriesOf(k)
      BY <1>3, <2>3, CountriesByLetter
    <3> QED
      BY <2>2, <3>1, SameRanksSameOrder DEF KeepsOrder
  <2>4. CASE l = k
    <3>1. /\ CountriesOf(k) \in SUBSET Countries /\ Cardinality(CountriesOf(k)) = 4
          /\ Orders(order, CountriesOf(k))
          /\ \A i, j \in 1 .. 4 : i < j => Ahead(TableKey(CountriesOf(k)), order[i], order[j])
      BY <1>2, <1>3, FourCountries, BestFirstOrders
    <3> HIDE DEF order
    <3>2. Sorted(ShownKey(finals, standings, k)) = Sorted(ShownKey(finals', standings, k))
      BY <1>2, <1>3, <2>1, <2>2, <3>1, RankingKeepsOrder
    <3>3. /\ ShownOrder(l) = Sorted(ShownKey(finals, standings, l))
          /\ ShownOrder(l)' = Sorted(ShownKey(finals', standings', l))
      BY DEF ShownOrder, ShownKey
    <3> QED
      BY <2>2, <2>4, <3>2, <3>3 DEF KeepsOrder
  <2> QED
    BY <2>3, <2>4
<1> QED
  BY <1>1, <1>4, <1>5

\* Group A is finalized in the order of the request, which is that of its table.
LEMMA TableOfA ==
  ASSUME Script, step = 20
  PROVE  /\ PointsOf(1) = 9 /\ PointsOf(2) = 6 /\ PointsOf(3) = 3 /\ PointsOf(4) = 0
<1>1. TableA /\ left = {}
  BY DEF Script, Results
<1>2. ~(step <= 17)
  OBVIOUS
<1>3. Unplayed1 = {}
  BY <1>1, <1>2, Zenon DEF Unplayed1
<1>4. \A i, j : PointsFrom(i, j) = 3
  BY <1>3 DEF PointsFrom
<1> QED
  BY <1>1, <1>4 DEF TableA

LEMMA RankingsKeepOrder ==
  ASSUME Script, step = 20, FinalizeRankings(1, GroupA), NEW l \in Letters
  PROVE  KeepsOrder(l)
<1> DEFINE D == CountriesOf(1)
<1>1. PICK rank :
        /\ \A i \in 1 .. 4 : rank[GroupA[i]] = i
        /\ finals' = [c \in Countries |->
             IF c \in D THEN [finals[c] EXCEPT !.rank = rank[c]] ELSE finals[c]]
        /\ standings' = standings
  BY RankingsEffect
<1>2. Rows
  BY DEF Script, Results
<1>3. /\ D = {GroupA[i] : i \in 1 .. 4} /\ D = {c \in Countries : Letter[c] = 1} /\ 1 \in Letters
      /\ \A i \in 1 .. 4 : GroupA[i] \in Countries
      /\ \A i, j \in 1 .. 4 : i # j => GroupA[i] # GroupA[j]
  BY GroupAIs, PairingsOfA
<1>4. CASE l # 1
  <2>1. \A c \in CountriesOf(l) : c \in Countries /\ c \notin D
    BY <1>3, <1>4, CountriesByLetter
  <2> HIDE DEF D
  <2>2. \A c \in CountriesOf(l) : finals'[c] = finals[c]
    BY <1>1, <2>1
  <2> QED
    BY <1>1, <2>2, SameRanksSameOrder DEF KeepsOrder
<1>5. CASE l = 1
  <2>1. \A c \in D : finals[c].rank = Null
    BY Zenon DEF FinalizeRankings, AcceptsRankings
  <2>2. Cardinality(D) = 4 /\ D \in SUBSET Countries
    BY <1>3, FourCountries
  <2>3. Orders(GroupA, D)
    <3>1. GroupA \in [1 .. 4 -> D]
      <4>1. Groups[1] \in [1 .. 4 -> Countries]
        <5>1. 1 \in 1 .. 12
          OBVIOUS
        <5>2. Groups \in [1 .. 12 -> [1 .. 4 -> Countries]]
          BY ContestAssumption, Zenon
        <5> QED
          BY <5>1, <5>2, Zenon
      <4>2. GroupA = [i \in 1 .. 4 |-> GroupA[i]]
        BY <4>1 DEF GroupA
      <4> HIDE DEF D
      <4> QED
        BY <1>3, <4>2
    <3>2. IsFiniteSet(D)
      <4>1. TableKey(D) = TableKey(D) /\ Comparable(TableKey(D)) /\ DOMAIN TableKey(D) = D
        BY <1>2, <2>2, TableKeyComparable
      <4> QED
        BY <4>1 DEF Comparable
    <3>3. /\ \A i, j \in 1 .. 4 : GroupA[i] = GroupA[j] => i = j
          /\ \A c \in D : \E i \in 1 .. 4 : GroupA[i] = c
      BY <1>3
    <3> HIDE DEF D
    <3> QED
      BY <2>2, <3>1, <3>2, <3>3 DEF Orders
  <2>4. ASSUME NEW i \in 1 .. 4, NEW j \in 1 .. 4, i < j
        PROVE  Ahead(TableKey(D), GroupA[i], GroupA[j])
    <3>1. GroupA[i] \in D /\ GroupA[j] \in D
      BY <1>3
    <3>2. PointsOf(i) > PointsOf(j)
      BY <2>4, TableOfA
    <3>3. /\ DOMAIN TableKey(D)[GroupA[i]] = 1 .. 4
          /\ TableKey(D)[GroupA[i]][1] = PointsOf(i) /\ TableKey(D)[GroupA[j]][1] = PointsOf(j)
      BY <3>1 DEF TableKey, PointsOf
    <3>4. 1 \in DOMAIN TableKey(D)[GroupA[i]] /\ 1 .. 1 - 1 = {}
      BY <3>3
    <3> HIDE DEF D
    <3> QED
      BY <3>2, <3>3, <3>4 DEF Ahead
  <2>5. ASSUME NEW i \in 1 .. 4 PROVE finals'[GroupA[i]].rank = i
    <3>1. GroupA[i] \in D /\ GroupA[i] \in Countries
      BY <1>3
    <3>2. finals[GroupA[i]] \in [rank : {Null} \cup 1 .. 4, qualifier : {Null} \cup BOOLEAN]
      BY <1>2, <3>1 DEF Rows
    <3> HIDE DEF D
    <3>3. finals'[GroupA[i]] = [finals[GroupA[i]] EXCEPT !.rank = rank[GroupA[i]]]
      BY <1>1, <3>1
    <3> QED
      BY <1>1, <3>2, <3>3
  <2>6. Sorted(ShownKey(finals, standings, 1)) = Sorted(ShownKey(finals', standings, 1))
    BY <1>2, <1>3, <2>1, <2>3, <2>4, <2>5, RankingKeepsOrder
  <2>7. /\ ShownOrder(1) = Sorted(ShownKey(finals, standings, 1))
        /\ ShownOrder(1)' = Sorted(ShownKey(finals', standings', 1))
    BY DEF ShownOrder, ShownKey
  <2> QED
    BY <1>1, <1>5, <2>6, <2>7 DEF KeepsOrder
<1> QED
  BY <1>4, <1>5

LEMMA SeedKeepsOrder ==
  ASSUME SeedInv, SeedStep, NEW l \in Letters
  PROVE  KeepsOrder(l)
<1>1. CASE stage = "start"
  <2>1. ~created'
    BY <1>1, OnlyTruncateStarts DEF Truncate, TruncateTables
  <2> QED
    BY <2>1 DEF KeepsOrder
<1>2. CASE Active
  <2>1. Running /\ ~Truncate
    BY <1>2 DEF SeedInv, Active, Running, Truncate
  <2>2. CASE CreateUsers
    <3>1. UNCHANGED <<standings, finals>>
      BY <2>2 DEF CreateUsers, CreateContest, Fail, contestVars
    <3> QED
      BY <3>1, SameTablesKeepOrder
  <2>3. CASE NextLoop
    <3>1. UNCHANGED contestVars
      BY <2>3 DEF NextLoop, Enter, Fail
    <3> QED
      BY <3>1, SameTablesKeepOrder DEF contestVars
  <2>4. CASE SeedGroupPicks
    <3>1. UNCHANGED <<standings, finals>>
      BY <2>4 DEF SeedGroupPicks, Turn, SaveGroupPicks, Fail, contestVars
    <3> QED
      BY <3>1, SameTablesKeepOrder
  <2>5. CASE PlayGroupMatch
    <3> DEFINE m == Head(todo)
    <3>1. stage = "groupMatches" /\ todo # <<>> /\ (RecordMatch(PlayedPayload) \/ Fail)
      BY <2>5 DEF PlayGroupMatch, Turn, PlayedPayload
    <3>2. todo \in Seq(GroupMatches) /\ Rows /\ GroupRows /\ dice \in Dice
      BY <2>1, <3>1 DEF Running, Loop, Tables, Course
    <3>3. m \in GroupMatches /\ m \in ToSet(todo)
      <4>1. todo # <<>> /\ todo \in Seq(GroupMatches)
        BY <3>1, <3>2
      <4>2. Head(todo) \in GroupMatches
        BY <4>1, HeadTailProperties
      <4>3. 1 \in DOMAIN todo /\ Head(todo) = todo[1]
        BY <4>1, HeadTailProperties
      <4> QED
        BY <4>2, <4>3 DEF ToSet
    <3>4. UnplayedGroupMatches = ToSet(todo)
      BY <3>1 DEF UnplayedGroupMatches
    <3>5. GroupPayload(PlayedPayload, m)
      BY <3>1, <3>2, PlayedIsGroupPayload
    <3> HIDE DEF m
    <3>6. (\A n \in GroupMatches : Fixture(n)) /\ Goalless(m)
      BY <3>2, <3>3, <3>4, UnplayedFixtures
    <3>7. CASE RecordMatch(PlayedPayload)
      BY <3>2, <3>3, <3>5, <3>6, <3>7, GroupResultKeepsOrder
    <3>8. CASE Fail
      BY <3>8, SameTablesKeepOrder DEF Fail, contestVars
    <3> QED
      BY <3>1, <3>7, <3>8
  <2>6. CASE RankGroup
    BY <2>1, <2>6, RankGroupKeepsOrder
  <2>7. CASE QualifyThird
    <3>1. \/ FinalizeQualifier(Head(todo).letter, Head(todo).advances)
          \/ UNCHANGED <<standings, finals>>
      BY <2>7 DEF QualifyThird, Turn, Fail, contestVars
    <3>2. Rows
      BY <2>1 DEF Running, Tables
    <3> QED
      BY <3>1, <3>2, QualifierKeepsOrder, SameTablesKeepOrder
  <2>8. CASE PairUp
    <3>1. RecordMatch(PairPayload(Head(todo))) \/ UNCHANGED <<standings, finals>>
      BY <2>8 DEF PairUp, Turn, PairPayload, Fail, contestVars
    <3>2. PairPayload(Head(todo)).round \in 1 .. 5
      BY DEF PairPayload, Payload
    <3> QED
      BY <3>1, <3>2, BracketKeepsOrder, SameTablesKeepOrder
  <2>9. CASE SeedKnockoutPicks
    <3>1. UNCHANGED <<standings, finals>>
      BY <2>9 DEF SeedKnockoutPicks, Turn, SaveKnockoutPicks, Fail, contestVars
    <3> QED
      BY <3>1, SameTablesKeepOrder
  <2>10. CASE PlayKnockout
    <3>1. UNCHANGED <<standings, finals>>
      BY <2>1, <2>10, KnockoutTurn
    <3> QED
      BY <3>1, SameTablesKeepOrder
  <2>11. CASE SeedSubcontest
    <3>1. UNCHANGED contestVars
      BY <2>11, Zenon DEF SeedSubcontest, Fail, contestVars
    <3> QED
      BY <3>1, SameTablesKeepOrder DEF contestVars
  <2>12. CASE Rerun
    <3>1. UNCHANGED contestVars
      BY <2>12 DEF Rerun
    <3> QED
      BY <3>1, SameTablesKeepOrder DEF contestVars
  <2>13. CASE SeedDone
    <3>1. UNCHANGED contestVars
      BY <2>13 DEF SeedDone
    <3> QED
      BY <3>1, SameTablesKeepOrder DEF contestVars
  <2> QED
    BY <2>1, <2>2, <2>3, <2>4, <2>5, <2>6, <2>7, <2>8, <2>9, <2>10, <2>11, <2>12, <2>13 DEF SeedStep
<1>3. CASE stage = "failed"
  <2>1. UNCHANGED contestVars
    BY <1>3, OnlyRerunAfterFailure DEF Rerun
  <2> QED
    BY <2>1, SameTablesKeepOrder DEF contestVars
<1> QED
  BY <1>1, <1>2, <1>3 DEF Active

LEMMA ScriptKeepsOrder ==
  ASSUME ScriptInv, ScriptStep, NEW l \in Letters
  PROVE  KeepsOrder(l)
<1> DEFINE Same == UNCHANGED <<standings, finals>>
<1>1. step # 0 => Script
  BY DEF ScriptInv
<1>2. Same => KeepsOrder(l)
  BY SameTablesKeepOrder
<1>3. UNCHANGED contestVars => Same
  BY DEF contestVars
<1>4. CASE CleanUp
  BY <1>4 DEF CleanUp, TruncateTables, KeepsOrder
<1>5. CASE LoginScenario \/ UsersScenario \/ SubcontestScenario \/ LeaderboardScenario
  <2>1. UNCHANGED contestVars
    BY <1>5, Zenon DEF LoginScenario, UsersScenario, SubcontestScenario, LeaderboardScenario,
                       Check, Call, Open
  <2> QED
    BY <1>2, <1>3, <2>1
<1>6. CASE ContestScenario
  <2>1. UNCHANGED contestVars \/ CreateContest
    BY <1>6, Zenon DEF ContestScenario, Check, Call
  <2>2. CreateContest => KeepsOrder(l)
    BY DEF CreateContest, KeepsOrder
  <2> QED
    BY <1>2, <1>3, <2>1, <2>2
<1>7. CASE PicksScenario
  <2>1. UNCHANGED contestVars \/ FirstPicks \/ SecondPicks
    BY <1>7, Zenon DEF PicksScenario, Check, Call, FirstPicks, SecondPicks
  <2>2. FirstPicks \/ SecondPicks => Same
    BY DEF FirstPicks, SecondPicks, SaveGroupPicks
  <2> HIDE DEF Same
  <2> QED
    BY <1>2, <1>3, <2>1, <2>2
<1>8. CASE MatchScenario
  <2>1. \/ UNCHANGED contestVars
        \/ \E m \in left : step = 18 /\ RecordMatch(OneNil(m))
    BY <1>8, Zenon DEF MatchScenario, Check, Call, OneNil
  <2>2. ASSUME NEW m \in left, step = 18, RecordMatch(OneNil(m)) PROVE KeepsOrder(l)
    <3>1. Script
      BY <1>1, <2>2
    <3> QED
      BY <2>2, <3>1, LeftToPlay, GroupResultKeepsOrder
  <2> HIDE DEF Same
  <2> QED
    BY <1>2, <1>3, <2>1, <2>2
<1>9. CASE GroupScenario
  <2>1. \/ UNCHANGED contestVars
        \/ step = 20 /\ FinalizeRankings(1, GroupA)
        \/ step = 23 /\ FinalizeQualifier(1, TRUE)
    BY <1>9, Zenon DEF GroupScenario, Check, Call, GroupA
  <2>2. CASE step = 20 /\ FinalizeRankings(1, GroupA)
    BY <1>1, <2>2, RankingsKeepOrder
  <2>3. CASE step = 23 /\ FinalizeQualifier(1, TRUE)
    <3>1. Rows
      BY <1>1, <2>3 DEF Script, Results
    <3> QED
      BY <2>3, <3>1, QualifierKeepsOrder, Zenon
  <2> QED
    BY <1>2, <1>3, <2>1, <2>2, <2>3
<1>10. CASE KnockoutScenario
  <2>1. \/ UNCHANGED contestVars
        \/ SaveKnockoutPicks(1, ScriptBracket)
        \/ RecordMatch(OpeningResult)
    BY <1>10, Zenon DEF KnockoutScenario, Check, Call, OpeningResult, GroupA
  <2>2. SaveKnockoutPicks(1, ScriptBracket) => Same
    BY DEF SaveKnockoutPicks
  <2>3. OpeningResult.round \in 1 .. 5
    BY DEF OpeningResult, Result
  <2> HIDE DEF Same
  <2> QED
    BY <1>2, <1>3, <2>1, <2>2, <2>3, BracketKeepsOrder
<1> HIDE DEF Same
<1> QED
  BY <1>4, <1>5, <1>6, <1>7, <1>8, <1>9, <1>10, Zenon DEF ScriptStep

\* Whichever program runs: once the matches of a group are completed, the order shown
\* for it is the one it is finalized in.
THEOREM OrderIsKept == Spec => ResultsKeepTheirOrder
<1>1. SeedInv /\ ScriptInv /\ [Next]_vars =>
        [\A l \in Letters : KeepsOrder(l)]_<<contestVars, seedVars>>
  <2> SUFFICES ASSUME SeedInv, ScriptInv, [Next]_vars, NEW l \in Letters PROVE KeepsOrder(l)
    OBVIOUS
  <2>1. UNCHANGED contestVars => KeepsOrder(l)
    BY SameTablesKeepOrder DEF contestVars
  <2>2. SeedStep \/ ScriptStep => KeepsOrder(l)
    BY SeedKeepsOrder, ScriptKeepsOrder
  <2> QED
    BY <2>1, <2>2 DEF Next, ScriptDone, StopScript, vars
<1>2. (\A l \in Letters : KeepsOrder(l)) =>
        \A l \in Letters :
          created /\ created' /\ (\A m \in ListGroupMatches(l) : Completed(matches[m]))
          => ShownOrder(l)' = ShownOrder(l)
  BY DEF KeepsOrder
<1> QED
  BY <1>1, <1>2, SeedInvariant, ScriptInvariant, PTL DEF Spec, ResultsKeepTheirOrder
----------------------------------------------------------------------------
(***************************************************************************)
(* The predictions of a group and what they are paid                       *)
(***************************************************************************)
OrdersOfFour == {o \in [1 .. 4 -> 1 .. 4] : \A i, j \in 1 .. 4 : o[i] = o[j] => i = j}

\* The rows of a user who has ranked all groups.
RowAt(order, extra, l, i) ==
  [letter |-> l, country |-> Groups[l][order[l][i]], place |-> i, extra |-> extra[l]]
RowsOf(order, extra) == {RowAt(order, extra, l, i) : l \in Letters, i \in 1 .. 4}
IsRanking(rows) ==
  \E order \in [Letters -> OrdersOfFour], extra \in [Letters -> BOOLEAN] :
    rows = RowsOf(order, extra)

LEMMA PointsOfPlaces ==
  ASSUME NEW a \in 1 .. 4, NEW b \in 1 .. 4, NEW c \in 1 .. 4, NEW d \in 1 .. 4,
         a # b, a # c, b # c
  PROVE  LET paid == BasePoints(a) * Multiplier(1) + BasePoints(b) * Multiplier(2)
                     + BasePoints(c) * Multiplier(3) + BasePoints(d) * Multiplier(4)
         IN  /\ paid \in 0 .. 45 /\ (a = 1 /\ b = 2 /\ c = 3 => paid = 45)
<1>1. Multiplier(1) = 3 /\ Multiplier(2) = 2 /\ Multiplier(3) = 1 /\ Multiplier(4) = 0
  BY DEF Multiplier
<1>2. /\ BasePoints(1) = 10 /\ BasePoints(2) = 6 /\ BasePoints(3) = 3 /\ BasePoints(4) = 1
  BY DEF BasePoints
<1> DEFINE x == BasePoints(a)
           y == BasePoints(b)
           z == BasePoints(c)
           w == BasePoints(d)
<1>3. /\ x \in {1, 3, 6, 10} /\ y \in {1, 3, 6, 10} /\ z \in {1, 3, 6, 10} /\ w \in {1, 3, 6, 10}
      /\ x # y /\ x # z /\ y # z
      /\ a = 1 /\ b = 2 /\ c = 3 => x = 10 /\ y = 6 /\ z = 3
  BY <1>2
<1> HIDE DEF x, y, z, w
<1>4. x * 3 + y * 2 + z * 1 + w * 0 = 3 * x + 2 * y + z
  BY <1>3
<1>5. 3 * x + 2 * y + z \in 0 .. 45 /\ (x = 10 /\ y = 6 /\ z = 3 => 3 * x + 2 * y + z = 45)
  BY <1>3
<1> QED
  BY <1>1, <1>3, <1>4, <1>5 DEF x, y, z, w

LEMMA RowsOfLetter ==
  ASSUME NEW order, NEW extra, NEW l \in Letters
  PROVE  {p \in RowsOf(order, extra) : p.letter = l} =
           {RowAt(order, extra, l, 1), RowAt(order, extra, l, 2),
            RowAt(order, extra, l, 3), RowAt(order, extra, l, 4)}
<1> DEFINE R(k, i) == RowAt(order, extra, k, i)
<1>1. \A k, i : R(k, i).letter = k
  BY DEF RowAt
<1>2. RowsOf(order, extra) = {R(k, i) : k \in Letters, i \in 1 .. 4}
  BY DEF RowsOf
<1> HIDE DEF R
<1>3. {p \in RowsOf(order, extra) : p.letter = l} = {R(l, i) : i \in 1 .. 4}
  BY <1>1, <1>2
<1>4. {R(l, i) : i \in 1 .. 4} = {R(l, 1), R(l, 2), R(l, 3), R(l, 4)}
  OBVIOUS
<1> QED
  BY <1>3, <1>4 DEF R

LEMMA PaidInPlaces ==
  ASSUME NEW u, NEW l, NEW rank, NEW a, NEW b, NEW c, NEW d, PicksOf(u, l) = {a, b, c, d},
         a.place = 1, b.place = 2, c.place = 3, d.place = 4,
         NEW i \in 1 .. 4, NEW j \in 1 .. 4, NEW k \in 1 .. 4, NEW m \in 1 .. 4,
         i # j, i # k, j # k,
         rank[a.country] = i, rank[b.country] = j, rank[c.country] = k, rank[d.country] = m
  PROVE  PaidFor(rank, u, l) \in 0 .. 45 /\ (i = 1 /\ j = 2 /\ k = 3 => PaidFor(rank, u, l) = 45)
<1> DEFINE w == [p \in PicksOf(u, l) |-> BasePoints(rank[p.country]) * Multiplier(p.place)]
<1>1. /\ w[a] = BasePoints(i) * Multiplier(1) /\ w[b] = BasePoints(j) * Multiplier(2)
      /\ w[c] = BasePoints(k) * Multiplier(3) /\ w[d] = BasePoints(m) * Multiplier(4)
  OBVIOUS
<1>2. \A n \in 1 .. 4 : BasePoints(n) \in Int /\ Multiplier(n) \in Int
  BY DEF BasePoints, Multiplier
<1> DEFINE x == BasePoints(i) * Multiplier(1)
           y == BasePoints(j) * Multiplier(2)
           z == BasePoints(k) * Multiplier(3)
           v == BasePoints(m) * Multiplier(4)
<1>3. x \in Int /\ y \in Int /\ z \in Int /\ v \in Int
  <2>1. \A n, o \in 1 .. 4 : BasePoints(n) * Multiplier(o) \in Int
    BY <1>2
  <2> QED
    BY <2>1
<1>4. a # b /\ a # c /\ a # d /\ b # c /\ b # d /\ c # d
  OBVIOUS
<1>5. PaidFor(rank, u, l) = Total(w, PicksOf(u, l))
  BY SMTT(30) DEF PaidFor
<1>6. x + y + z + v \in 0 .. 45 /\ (i = 1 /\ j = 2 /\ k = 3 => x + y + z + v = 45)
  BY PointsOfPlaces
<1>7. w[a] = x /\ w[b] = y /\ w[c] = z /\ w[d] = v
  BY <1>1
<1> HIDE DEF w, x, y, z, v
<1> DEFINE P == PicksOf(u, l)
<1>8. P = {a, b, c, d}
  OBVIOUS
<1> HIDE DEF P
<1>9. Total(w, P) = x + y + z + v
  <2>1. FourRows(P, a, b, c, d)
    BY <1>4, <1>8 DEF FourRows
  <2>2. FourWeights(w, a, b, c, d, x, y, z, v)
    BY <1>3, <1>7 DEF FourWeights
  <2> QED
    BY <2>1, <2>2, TotalOfFour
<1> QED
  BY <1>5, <1>6, <1>9 DEF P

\* Whatever the order, the four rows of a group bring at most 45 points; in the final
\* order exactly these.
LEMMA PaidByOrder ==
  ASSUME NEW u, NEW order \in [Letters -> OrdersOfFour], NEW extra,
         groupPicks[u] = RowsOf(order, extra), NEW l \in Letters,
         NEW rank, \A i \in 1 .. 4 : rank[Groups[l][i]] \in 1 .. 4,
         \A i, j \in 1 .. 4 : rank[Groups[l][i]] = rank[Groups[l][j]] => i = j
  PROVE  /\ PicksOf(u, l) # {} /\ PaidFor(rank, u, l) \in 0 .. 45
         /\ (\A i \in 1 .. 4 : rank[Groups[l][order[l][i]]] = i) => PaidFor(rank, u, l) = 45
<1> DEFINE R(i) == RowAt(order, extra, l, i)
           r(i) == rank[Groups[l][order[l][i]]]
<1>1. \A i, j \in 1 .. 4 : order[l][i] \in 1 .. 4 /\ (order[l][i] = order[l][j] => i = j)
  BY DEF OrdersOfFour
<1>2. \A i, j \in 1 .. 4 : r(i) \in 1 .. 4 /\ (r(i) = r(j) => i = j)
  BY <1>1
<1>3. \A i : R(i).place = i /\ rank[R(i).country] = r(i)
  BY DEF RowAt
<1>4. PicksOf(u, l) = {R(1), R(2), R(3), R(4)}
  BY RowsOfLetter DEF PicksOf
<1>5. (\A i \in 1 .. 4 : rank[Groups[l][order[l][i]]] = i) => r(1) = 1 /\ r(2) = 2 /\ r(3) = 3
  OBVIOUS
<1>6. /\ r(1) \in 1 .. 4 /\ r(2) \in 1 .. 4 /\ r(3) \in 1 .. 4 /\ r(4) \in 1 .. 4
      /\ r(1) # r(2) /\ r(1) # r(3) /\ r(2) # r(3)
  <2> HIDE DEF r
  <2> QED
    BY <1>2
<1> DEFINE a == R(1)
           b == R(2)
           c == R(3)
           d == R(4)
<1>7. /\ a.place = 1 /\ b.place = 2 /\ c.place = 3 /\ d.place = 4
      /\ rank[a.country] = r(1) /\ rank[b.country] = r(2)
      /\ rank[c.country] = r(3) /\ rank[d.country] = r(4) /\ PicksOf(u, l) = {a, b, c, d}
  <2> HIDE DEF R, r
  <2> QED
    BY <1>3, <1>4
<1> HIDE DEF a, b, c, d, R, r
<1>8. PICK i \in 1 .. 4, j \in 1 .. 4, k \in 1 .. 4, m \in 1 .. 4 :
        i = r(1) /\ j = r(2) /\ k = r(3) /\ m = r(4)
  BY SMTT(30), <1>6
<1>9. PaidFor(rank, u, l) \in 0 .. 45 /\ (i = 1 /\ j = 2 /\ k = 3 => PaidFor(rank, u, l) = 45)
  BY <1>6, <1>7, <1>8, PaidInPlaces
<1> QED
  BY <1>5, <1>7, <1>8, <1>9

----------------------------------------------------------------------------
(***************************************************************************)
(* What all predictions together can be worth so far                       *)
(***************************************************************************)
GroupWorth(bonus) == 45 * Cardinality(RankedLetters) + bonus * Cardinality(SettledLetters)

\* The matches whose winner achieves a round, and those of them that are decided.
Awarding(a) == {m \in Bracket : AchievedRound(m[1], m[2]) = a}
Awarded(a) == {m \in Awarding(a) : Completed(matches[m])}
KnockoutWorth(third) ==
  15 * Cardinality(Awarded(2)) + 20 * Cardinality(Awarded(3)) + 25 * Cardinality(Awarded(4))
  + 30 * Cardinality(Awarded(5)) + 35 * Cardinality(Awarded(6)) + third * Cardinality(Awarded(7))

LEMMA LettersCounted ==
  /\ IsFiniteSet(RankedLetters) /\ IsFiniteSet(SettledLetters)
  /\ Cardinality(RankedLetters) \in 0 .. 12 /\ Cardinality(SettledLetters) \in 0 .. 12
<1>1. ASSUME NEW S \in SUBSET Letters PROVE IsFiniteSet(S) /\ Cardinality(S) \in 0 .. 12
  <2>1. IsFiniteSet(S) /\ Cardinality(S) <= 12
    BY LettersOfContest, FS_Subset
  <2> QED
    BY <2>1, FS_CardinalityType
<1>2. RankedLetters \in SUBSET Letters /\ SettledLetters \in SUBSET Letters
  BY DEF RankedLetters, SettledLetters
<1> QED
  BY <1>1, <1>2

LEMMA AwardingMatches ==
  /\ Awarding(2) = {<<1, i>> : i \in 0 .. 15} /\ Awarding(3) = {<<2, i>> : i \in 0 .. 7}
  /\ Awarding(4) = {<<3, i>> : i \in 0 .. 3} /\ Awarding(5) = {<<4, i>> : i \in 0 .. 1}
  /\ Awarding(6) = {<<5, 0>>} /\ Awarding(7) = {<<5, 1>>}
<1>1. \A m \in Bracket : m = <<m[1], m[2]>> /\ m[1] \in 1 .. 5 /\ m[2] \in 0 .. 15
  BY BracketMatch
<1>2. \A m \in Bracket : m[1] = 5 => m[2] \in 0 .. 1
  BY <1>1, Places
<1>3. ASSUME NEW m \in Bracket
      PROVE  /\ AchievedRound(m[1], m[2]) = 2 <=> m[1] = 1
             /\ AchievedRound(m[1], m[2]) = 3 <=> m[1] = 2
             /\ AchievedRound(m[1], m[2]) = 4 <=> m[1] = 3
             /\ AchievedRound(m[1], m[2]) = 5 <=> m[1] = 4
             /\ AchievedRound(m[1], m[2]) = 6 <=> m[1] = 5 /\ m[2] = 0
             /\ AchievedRound(m[1], m[2]) = 7 <=> m[1] = 5 /\ m[2] = 1
  BY <1>1, <1>2 DEF AchievedRound
<1>4. Awarding(2) = {<<1, i>> : i \in 0 .. 15}
  BY <1>1, <1>3, Places DEF Awarding
<1>5. Awarding(3) = {<<2, i>> : i \in 0 .. 7}
  BY <1>1, <1>3, Places DEF Awarding
<1>6. Awarding(4) = {<<3, i>> : i \in 0 .. 3}
  BY <1>1, <1>3, Places DEF Awarding
<1>7. Awarding(5) = {<<4, i>> : i \in 0 .. 1}
  BY <1>1, <1>3, Places DEF Awarding
<1>8. Awarding(6) = {<<5, 0>>} /\ Awarding(7) = {<<5, 1>>}
  BY <1>1, <1>3, Places DEF Awarding
<1> QED
  BY <1>4, <1>5, <1>6, <1>7, <1>8

\* The first n matches of a round.
Line(r, n) == {<<r, i>> : i \in 0 .. n - 1}

LEMMA LineCounted ==
  ASSUME NEW r, NEW n \in Nat
  PROVE  IsFiniteSet(Line(r, n)) /\ Cardinality(Line(r, n)) = n
<1> DEFINE I == 0 .. n - 1
           w == [i \in I |-> <<r, i>>]
           T == {<<r, i>> : i \in I}
<1>1. \A i, j \in I : w[i] = w[j] => i = j
  OBVIOUS
<1>2. {w[i] : i \in I} = T /\ w \in [I -> T] /\ \A t \in T : \E i \in I : w[i] = t
  OBVIOUS
<1>3. IsFiniteSet(I)
  BY FS_Interval
<1> HIDE DEF w, T
<1>4. Cardinality({w[i] : i \in 0 .. n - 1}) = n
  BY <1>1, NumberedFromZero
<1> HIDE DEF I
<1>5. w \in Surjection(I, T)
  BY <1>2, Fun_IsSurj
<1>6. IsFiniteSet(T)
  BY <1>3, <1>5, FS_Surjection
<1> QED
  BY <1>2, <1>4, <1>6 DEF I, T, Line

AwardCount == <<0, 16, 8, 4, 2, 1, 1>>
LEMMA AwardsCounted ==
  \A a \in 2 .. 7 : IsFiniteSet(Awarding(a)) /\ Cardinality(Awarding(a)) = AwardCount[a]
<1>1. PICK n \in Nat, k \in Nat, j \in Nat, o \in Nat : n = 16 /\ k = 8 /\ j = 4 /\ o = 2
  OBVIOUS
<1>2. /\ Awarding(2) = Line(1, n) /\ Awarding(3) = Line(2, k)
      /\ Awarding(4) = Line(3, j) /\ Awarding(5) = Line(4, o)
  BY <1>1, AwardingMatches DEF Line
<1>3. /\ Cardinality(Awarding(2)) = n /\ Cardinality(Awarding(3)) = k
      /\ Cardinality(Awarding(4)) = j /\ Cardinality(Awarding(5)) = o
      /\ IsFiniteSet(Awarding(2)) /\ IsFiniteSet(Awarding(3))
      /\ IsFiniteSet(Awarding(4)) /\ IsFiniteSet(Awarding(5))
  BY <1>2, LineCounted
<1>4. /\ Cardinality(Awarding(6)) = 1 /\ Cardinality(Awarding(7)) = 1
      /\ IsFiniteSet(Awarding(6)) /\ IsFiniteSet(Awarding(7))
  <2>1. Awarding(6) = {<<5, 0>>} /\ Awarding(7) = {<<5, 1>>}
    BY AwardingMatches
  <2>2. \A x : IsFiniteSet({x}) /\ Cardinality({x}) = 1
    BY FS_Singleton
  <2> QED
    BY <2>1, <2>2, Zenon
<1>5. \A a \in 2 .. 7 : a = 2 \/ a = 3 \/ a = 4 \/ a = 5 \/ a = 6 \/ a = 7
  OBVIOUS
<1> QED
  BY <1>1, <1>3, <1>4, <1>5 DEF AwardCount
LEMMA AwardedCounted ==
  \A a \in 2 .. 7 : IsFiniteSet(Awarded(a)) /\ Cardinality(Awarded(a)) \in 0 .. AwardCount[a]
<1>1. ASSUME NEW S, NEW n, IsFiniteSet(S), Cardinality(S) = n, NEW T \in SUBSET S
      PROVE  IsFiniteSet(T) /\ Cardinality(T) \in 0 .. n
  <2>1. IsFiniteSet(T) /\ Cardinality(T) <= Cardinality(S)
    BY <1>1, FS_Subset
  <2>2. Cardinality(T) \in Nat /\ Cardinality(S) \in Nat
    BY <1>1, <2>1, FS_CardinalityType
  <2> QED
    BY <1>1, <2>1, <2>2
<1>2. \A a \in 2 .. 7 : Awarded(a) \in SUBSET Awarding(a)
  BY DEF Awarded
<1> QED
  BY <1>1, <1>2, AwardsCounted

\* Nothing is worth more than what 72 group places, 32 matches and 12 bonuses bring.
LEMMA WorthBounds ==
  ASSUME NEW bonus \in {0, 5}
  PROVE  GroupWorth(bonus) \in 0 .. 600 /\ KnockoutWorth(bonus) \in 0 .. 600
<1>1. GroupWorth(bonus) \in 0 .. 600
  <2>1. PICK n \in 0 .. 12, k \in 0 .. 12 :
          n = Cardinality(RankedLetters) /\ k = Cardinality(SettledLetters)
    BY LettersCounted
  <2>2. GroupWorth(bonus) = 45 * n + bonus * k
    BY <2>1 DEF GroupWorth
  <2>3. 45 * n + 0 * k \in 0 .. 600 /\ 45 * n + 5 * k \in 0 .. 600
    OBVIOUS
  <2> QED
    BY <2>2, <2>3
<1>2. KnockoutWorth(bonus) \in 0 .. 600
  <2>1. \A a \in 2 .. 7 : Cardinality(Awarded(a)) \in 0 .. AwardCount[a]
    BY AwardedCounted
  <2>2. /\ AwardCount[2] = 16 /\ AwardCount[3] = 8 /\ AwardCount[4] = 4
        /\ AwardCount[5] = 2 /\ AwardCount[6] = 1 /\ AwardCount[7] = 1
    BY DEF AwardCount
  <2>3. PICK n2 \in 0 .. 16, n3 \in 0 .. 8, n4 \in 0 .. 4, n5 \in 0 .. 2, n6 \in 0 .. 1, n7 \in 0 .. 1 :
          /\ n2 = Cardinality(Awarded(2)) /\ n3 = Cardinality(Awarded(3))
          /\ n4 = Cardinality(Awarded(4)) /\ n5 = Cardinality(Awarded(5))
          /\ n6 = Cardinality(Awarded(6)) /\ n7 = Cardinality(Awarded(7))
    <3>1. /\ Cardinality(Awarded(2)) \in 0 .. 16 /\ Cardinality(Awarded(3)) \in 0 .. 8
          /\ Cardinality(Awarded(4)) \in 0 .. 4 /\ Cardinality(Awarded(5)) \in 0 .. 2
          /\ Cardinality(Awarded(6)) \in 0 .. 1 /\ Cardinality(Awarded(7)) \in 0 .. 1
      BY <2>1, <2>2
    <3> QED
      BY <3>1, Zenon
  <2>4. KnockoutWorth(bonus) = 15 * n2 + 20 * n3 + 25 * n4 + 30 * n5 + 35 * n6 + bonus * n7
    BY <2>3 DEF KnockoutWorth
  <2>5. 15 * n2 + 20 * n3 + 25 * n4 + 30 * n5 + 35 * n6 + bonus * n7 \in 0 .. 600
    OBVIOUS
  <2> QED
    BY <2>4, <2>5
<1> QED
  BY <1>1, <1>2

\* At the end of a contest that is played, everything is decided.
LEMMA WorthAtTheEnd ==
  ASSUME NEW bonus \in {0, 5}, RankedLetters = Letters, SettledLetters = Letters,
         \A m \in Bracket : Completed(matches[m])
  PROVE  GroupWorth(bonus) = 540 + 12 * bonus /\ KnockoutWorth(bonus) = 595 + bonus
<1>1. GroupWorth(bonus) = 45 * 12 + bonus * 12
  BY LettersOfContest DEF GroupWorth
<1>2. \A a : Awarded(a) = Awarding(a)
  BY DEF Awarded, Awarding
<1>3. /\ Cardinality(Awarded(2)) = 16 /\ Cardinality(Awarded(3)) = 8
      /\ Cardinality(Awarded(4)) = 4 /\ Cardinality(Awarded(5)) = 2
      /\ Cardinality(Awarded(6)) = 1 /\ Cardinality(Awarded(7)) = 1
  BY <1>2, AwardsCounted DEF AwardCount
<1>4. KnockoutWorth(bonus) = 15 * 16 + 20 * 8 + 25 * 4 + 30 * 2 + 35 * 1 + bonus * 1
  BY <1>3 DEF KnockoutWorth
<1> QED
  BY <1>1, <1>4

\* A result makes the bracket worth what a correct prediction of it brings.
AwardWorth(third, a) == IF a = 7 THEN third ELSE AwardPoints(a)

LEMMA KnockoutWorthGrows ==
  ASSUME NEW m \in Bracket, ~Completed(matches[m]), Completed(matches'[m]),
         \A n \in Bracket : n # m => (Completed(matches'[n]) <=> Completed(matches[n])),
         NEW third \in {0, 5}, NEW a, a = AchievedRound(m[1], m[2])
  PROVE  KnockoutWorth(third)' = KnockoutWorth(third) + AwardWorth(third, a)
<1>1. \A b : Awarded(b)' = {n \in Awarding(b) : Completed(matches'[n])}
  BY DEF Awarded
<1>2. \A b : m \in Awarding(b) <=> b = a
  BY DEF Awarding
<1>3. \A b : Awarding(b) \subseteq Bracket
  BY DEF Awarding
<1>4. \A b : b # a => Awarded(b)' = Awarded(b)
  BY <1>1, <1>2, <1>3 DEF Awarded
<1>5. Awarded(a)' = Awarded(a) \cup {m} /\ m \notin Awarded(a)
  BY <1>1, <1>2, <1>3 DEF Awarded
<1>6. a \in 2 .. 7
  BY BracketMatch DEF AchievedRound
<1>7. \A b \in 2 .. 7 : Cardinality(Awarded(b)) \in Nat /\ IsFiniteSet(Awarded(b))
  BY AwardedCounted, FS_CardinalityType
<1>8. Cardinality(Awarded(a)') = Cardinality(Awarded(a)) + 1
  BY <1>5, <1>6, <1>7, FS_AddElement
<1> DEFINE w(b) == Cardinality(Awarded(b))
           v(b) == Cardinality({n \in Awarding(b) : Completed(matches'[n])})
<1>9. /\ \A b : b # a => v(b) = w(b)
      /\ v(a) = w(a) + 1
  BY <1>1, <1>4, <1>8
<1>10. KnockoutWorth(third)' = 15 * v(2) + 20 * v(3) + 25 * v(4) + 30 * v(5) + 35 * v(6) + third * v(7)
  BY <1>1 DEF KnockoutWorth
<1>11. KnockoutWorth(third) = 15 * w(2) + 20 * w(3) + 25 * w(4) + 30 * w(5) + 35 * w(6) + third * w(7)
  BY DEF KnockoutWorth
<1>12. \A b \in 2 .. 7 : w(b) \in Nat
  BY <1>7
<1> HIDE DEF v, w
<1>13. /\ AwardWorth(third, 2) = 15 /\ AwardWorth(third, 3) = 20 /\ AwardWorth(third, 4) = 25
       /\ AwardWorth(third, 5) = 30 /\ AwardWorth(third, 6) = 35 /\ AwardWorth(third, 7) = third
  BY DEF AwardWorth, AwardPoints
<1>14. a = 2 \/ a = 3 \/ a = 4 \/ a = 5 \/ a = 6 \/ a = 7
  BY <1>6
<1> QED
  BY <1>9, <1>10, <1>11, <1>12, <1>13, <1>14
\* A finalized group is worth 45 points, a settled third place the bonus.
LEMMA RankingsGrow ==
  ASSUME NEW bonus \in {0, 5}, NEW l, l \notin RankedLetters,
         RankedLetters' = RankedLetters \cup {l}, SettledLetters' = SettledLetters
  PROVE  GroupWorth(bonus)' = GroupWorth(bonus) + 45
<1>1. /\ IsFiniteSet(RankedLetters) /\ Cardinality(RankedLetters) \in Nat
      /\ Cardinality(SettledLetters) \in Nat
  BY LettersCounted
<1>2. Cardinality(RankedLetters') = Cardinality(RankedLetters) + 1
  BY <1>1, FS_AddElement
<1>3. bonus * Cardinality(SettledLetters) \in Nat
  BY <1>1
<1>4. GroupWorth(bonus)' = 45 * (Cardinality(RankedLetters) + 1) + bonus * Cardinality(SettledLetters)
  BY <1>2 DEF GroupWorth
<1> QED
  BY <1>1, <1>3, <1>4 DEF GroupWorth

LEMMA QualifiersGrow ==
  ASSUME NEW bonus \in {0, 5}, NEW l, l \notin SettledLetters,
         SettledLetters' = SettledLetters \cup {l}, RankedLetters' = RankedLetters
  PROVE  GroupWorth(bonus)' = GroupWorth(bonus) + bonus
<1>1. /\ IsFiniteSet(SettledLetters) /\ Cardinality(SettledLetters) \in Nat
      /\ Cardinality(RankedLetters) \in Nat
  BY LettersCounted
<1>2. Cardinality(SettledLetters') = Cardinality(SettledLetters) + 1
  BY <1>1, FS_AddElement
<1>3. GroupWorth(bonus)' = 45 * Cardinality(RankedLetters) + bonus * (Cardinality(SettledLetters) + 1)
  BY <1>2 DEF GroupWorth
<1> DEFINE r == Cardinality(RankedLetters)
           s == Cardinality(SettledLetters)
<1>4. GroupWorth(bonus) = 45 * r + bonus * s
  BY DEF GroupWorth
<1>5. r \in Nat /\ s \in Nat /\ GroupWorth(bonus)' = 45 * r + bonus * (s + 1)
  BY <1>1, <1>3
<1> HIDE DEF r, s
<1>6. /\ 45 * r + 0 * (s + 1) = 45 * r + 0 * s + 0
      /\ 45 * r + 5 * (s + 1) = 45 * r + 5 * s + 5
  BY <1>5
<1> QED
  BY <1>4, <1>5, <1>6

\* Nothing else makes predictions worth more.
LEMMA WorthStays ==
  ASSUME NEW bonus
  PROVE  /\ UNCHANGED finals => GroupWorth(bonus)' = GroupWorth(bonus)
         /\ (\A n \in Bracket : Completed(matches'[n]) <=> Completed(matches[n])) =>
              KnockoutWorth(bonus)' = KnockoutWorth(bonus)
<1>1. UNCHANGED finals => GroupWorth(bonus)' = GroupWorth(bonus)
  BY DEF GroupWorth, RankedLetters, SettledLetters
<1>2. ASSUME \A n \in Bracket : Completed(matches'[n]) <=> Completed(matches[n])
      PROVE  KnockoutWorth(bonus)' = KnockoutWorth(bonus)
  <2>1. \A b : Awarding(b) \subseteq Bracket
    BY DEF Awarding
  <2>2. \A b : {n \in Awarding(b) : Completed(matches'[n])} = {n \in Awarding(b) : Completed(matches[n])}
    BY <1>2, <2>1
  <2> QED
    BY <2>2 DEF KnockoutWorth, Awarded
<1> QED
  BY <1>1, <1>2

----------------------------------------------------------------------------
(***************************************************************************)
(* Nobody has more points than predictions can be worth                    *)
(***************************************************************************)
NoPoints == [group |-> 0, knockout |-> 0]

\* Whoever predicts is listed; rankings are of all groups.
Enlisted ==
  /\ groupPicks = [u \in Users |-> groupPicks[u]]
  /\ knockoutPicks = [u \in Users |-> knockoutPicks[u]]
  /\ scores = [u \in Users |-> scores[u]]
  /\ \A u \in Users : groupPicks[u] # {} => IsRanking(groupPicks[u]) /\ scores[u] # Null
  /\ \A u \in Users : knockoutPicks[u] # {} => scores[u] # Null
Worthy ==
  \A u \in Users : scores[u] # Null =>
    scores[u] \in [group : 0 .. GroupWorth(5), knockout : 0 .. KnockoutWorth(5)]

LEMMA PointsAreNat ==
  ASSUME Worthy
  PROVE  \A u \in Users : scores[u] # Null => scores[u] \in [group : 0 .. 600, knockout : 0 .. 600]
<1>1. GroupWorth(5) \in 0 .. 600 /\ KnockoutWorth(5) \in 0 .. 600
  BY WorthBounds
<1> DEFINE g == GroupWorth(5)
           k == KnockoutWorth(5)
           top == 600
<1>2. \A u \in Users : scores[u] # Null => scores[u] \in [group : 0 .. g, knockout : 0 .. k]
  BY DEF Worthy
<1>3. g \in 0 .. top /\ k \in 0 .. top
  BY <1>1
<1>4. \A x \in 0 .. top : \A n \in 0 .. x : n \in 0 .. top
  OBVIOUS
<1> HIDE DEF g, k, top
<1>5. ASSUME NEW u \in Users, scores[u] # Null
      PROVE  scores[u] \in [group : 0 .. top, knockout : 0 .. top]
  <2>1. scores[u] \in [group : 0 .. g, knockout : 0 .. k]
    BY <1>2, <1>5
  <2>2. scores[u].group \in 0 .. g /\ scores[u].knockout \in 0 .. k
    BY <2>1
  <2>3. scores[u].group \in 0 .. top /\ scores[u].knockout \in 0 .. top
    BY <1>3, <1>4, <2>2, Zenon
  <2>4. scores[u] = [group |-> scores[u].group, knockout |-> scores[u].knockout]
    BY <2>1
  <2> QED
    BY <2>3, <2>4
<1> QED
  BY <1>5 DEF top

GainsPoints(t, s, x, y) ==
  \E p \in 0 .. x, q \in 0 .. y : t = [group |-> s.group + p, knockout |-> s.knockout + q]

LEMMA WorthyGrows ==
  ASSUME Worthy, NEW x \in Nat, NEW y \in Nat,
         GroupWorth(5)' = GroupWorth(5) + x, KnockoutWorth(5)' = KnockoutWorth(5) + y,
         \A u \in Users : scores'[u] # Null =>
           \/ scores'[u] = NoPoints
           \/ scores[u] # Null /\ GainsPoints(scores'[u], scores[u], x, y)
  PROVE  Worthy'
<1>1. GroupWorth(5) \in Nat /\ KnockoutWorth(5) \in Nat
  BY SMTT(30), WorthBounds
<1> DEFINE g == GroupWorth(5)
           k == KnockoutWorth(5)
<1>2. ASSUME NEW u \in Users, scores'[u] # Null
      PROVE  scores'[u] \in [group : 0 .. g + x, knockout : 0 .. k + y]
  <2>1. CASE scores'[u] = NoPoints
    <3> HIDE DEF g, k
    <3>1. g \in Nat /\ k \in Nat
      BY <1>1 DEF g, k
    <3> QED
      BY <2>1, <3>1 DEF NoPoints
  <2>2. CASE scores'[u] # NoPoints
    <3>1. PICK p \in 0 .. x, q \in 0 .. y :
            /\ scores[u] # Null
            /\ scores'[u] = [group |-> scores[u].group + p, knockout |-> scores[u].knockout + q]
      BY <1>2, <2>2 DEF GainsPoints
    <3>2. scores[u] \in [group : 0 .. g, knockout : 0 .. k]
      BY <3>1 DEF Worthy
    <3> HIDE DEF g, k
    <3>3. g \in Nat /\ k \in Nat
      BY <1>1 DEF g, k
    <3>4. scores[u].group \in 0 .. g /\ scores[u].knockout \in 0 .. k
      BY <3>2
    <3> QED
      BY <3>1, <3>3, <3>4
  <2> QED
    BY <2>1, <2>2
<1> QED
  BY <1>2 DEF Worthy

----------------------------------------------------------------------------
(***************************************************************************)
(* What the rankings pay                                                   *)
(***************************************************************************)
\* The order in which the groups are listed.
AsListed == [l \in Letters |-> [i \in 1 .. 4 |-> i]]

LEMMA RankGroupPays ==
  ASSUME Rows, Enlisted, NEW l \in Letters, FinalizeRankings(l, BestFirst(CountriesOf(l))),
         NEW u \in Users
  PROVE  /\ groupPicks[u] = {} => scores'[u] = scores[u]
         /\ groupPicks[u] # {} => \E p \in 0 .. 45 : scores'[u] = [scores[u] EXCEPT !.group = @ + p]
         /\ \A extra :
              /\ groupPicks[u] = RowsOf(AsListed, extra)
              /\ \A i \in 1 .. 4 : BestFirst(CountriesOf(l))[i] = Groups[l][i]
              => scores'[u] = [scores[u] EXCEPT !.group = @ + 45]
<1> DEFINE order == BestFirst(CountriesOf(l))
<1>1. PICK rank :
        /\ \A c \in CountriesOf(l) : rank[c] \in 1 .. 4 /\ order[rank[c]] = c
        /\ scores' = [v \in Users |->
             IF PicksOf(v, l) # {} THEN [scores[v] EXCEPT !.group = @ + PaidFor(rank, v, l)]
             ELSE scores[v]]
  <2>1. ToSet(order) = CountriesOf(l) /\ DOMAIN order = 1 .. 4
    BY OrderOfGroup
  <2>2. FinalizeRankings(l, order)
    OBVIOUS
  <2> HIDE DEF order
  <2>3. PICK rank : RanksWritten(l, order, rank)
    BY <2>1, <2>2, RankingsPay, Zenon
  <2> QED
    BY <2>3 DEF RanksWritten
<1>2. \A i \in 1 .. 4 : Groups[l][i] \in CountriesOf(l)
  <2>1. CountriesOf(l) = {Groups[l][i] : i \in 1 .. 4}
    BY GroupsOfContest, Zenon
  <2> QED
    BY <2>1
<1> HIDE DEF order
<1>3. \A i \in 1 .. 4 : rank[Groups[l][i]] \in 1 .. 4 /\ order[rank[Groups[l][i]]] = Groups[l][i]
  BY <1>1, <1>2, Zenon
<1>4. \A i, j \in 1 .. 4 : rank[Groups[l][i]] = rank[Groups[l][j]] => i = j
  BY <1>3, OnePlace
<1>5. scores'[u] = IF PicksOf(u, l) # {} THEN [scores[u] EXCEPT !.group = @ + PaidFor(rank, u, l)]
                   ELSE scores[u]
  BY <1>1
<1>6. groupPicks[u] = {} => PicksOf(u, l) = {}
  BY DEF PicksOf
<1>7. ASSUME groupPicks[u] # {}
      PROVE  \E p \in 0 .. 45 : scores'[u] = [scores[u] EXCEPT !.group = @ + p]
  <2>1. PICK o \in [Letters -> OrdersOfFour], extra \in [Letters -> BOOLEAN] : groupPicks[u] = RowsOf(o, extra)
    BY <1>7 DEF Enlisted, IsRanking
  <2>2. PicksOf(u, l) # {} /\ PaidFor(rank, u, l) \in 0 .. 45
    BY <1>3, <1>4, <2>1, PaidByOrder
  <2> QED
    BY <1>5, <2>2
<1>8. ASSUME NEW extra, groupPicks[u] = RowsOf(AsListed, extra),
             \A i \in 1 .. 4 : order[i] = Groups[l][i]
      PROVE  scores'[u] = [scores[u] EXCEPT !.group = @ + 45]
  <2>1. AsListed \in [Letters -> OrdersOfFour] /\ \A i \in 1 .. 4 : AsListed[l][i] = i
    BY DEF AsListed, OrdersOfFour
  <2>2. \A i \in 1 .. 4 : rank[Groups[l][i]] = i
    <3> TAKE i \in 1 .. 4
    <3>1. Groups[l][rank[Groups[l][i]]] = Groups[l][i]
      BY <1>3, <1>8
    <3> QED
      BY <1>3, <3>1, OnePlace
  <2>3. \A i \in 1 .. 4 : rank[Groups[l][AsListed[l][i]]] = i
    BY SMTT(30), <2>1, <2>2
  <2>4. PicksOf(u, l) # {} /\ PaidFor(rank, u, l) = 45
    BY <1>3, <1>4, <1>8, <2>1, <2>3, PaidByOrder
  <2> QED
    BY <1>5, <2>4
<1> QED
  BY <1>5, <1>6, <1>7, <1>8 DEF order

\* What settling the third place of a group pays.
LEMMA QualifierPays ==
  ASSUME NEW l, NEW advances, FinalizeQualifier(l, advances)
  PROVE  scores' = [u \in Users |->
           IF \E p \in groupPicks[u] : p.letter = l /\ p.extra = advances
           THEN [scores[u] EXCEPT !.group = @ + 5] ELSE scores[u]]
<1> DEFINE points == [u \in {v \in Users : \E p \in groupPicks[v] :
                              p.letter = l /\ p.extra = advances} |-> QualifierBonus]
<1>1. Pay("group", points)
  BY DEF FinalizeQualifier
<1>2. /\ DOMAIN points = {v \in Users : \E p \in groupPicks[v] : p.letter = l /\ p.extra = advances}
      /\ \A u \in DOMAIN points : points[u] = 5
  BY DEF QualifierBonus
<1> HIDE DEF points
<1>3. scores' = [u \in Users |-> IF u \in DOMAIN points
                                 THEN [scores[u] EXCEPT !.group = @ + points[u]]
                                 ELSE scores[u]]
  BY <1>1 DEF Pay
<1> QED
  BY <1>2, <1>3

----------------------------------------------------------------------------
(***************************************************************************)
(* What is stored of a prediction                                          *)
(***************************************************************************)
\* A submission of a ranking of every group is stored as its rows, whatever was stored.
Submits(given, order, extra) ==
  \A l \in Letters :
    /\ given[l].letter = l /\ given[l].extra = extra[l] /\ DOMAIN given[l].order = 1 .. 4
    /\ \A i \in 1 .. 4 : given[l].order[i] = Groups[l][order[l][i]]

Submission(given) == {given[l] : l \in Letters}
RowsStored(S) == UNION {StoredRows(pick) : pick \in S}
OfEveryGroup(S) == \A l \in Letters : \E pick \in S : pick.letter = l

LEMMA SubmissionIsStored ==
  ASSUME NEW order, NEW extra, NEW given, Submits(given, order, extra),
         NEW S, S = Submission(given)
  PROVE  RowsStored(S) = RowsOf(order, extra) /\ OfEveryGroup(S)
<1> DEFINE R(l, i) == RowAt(order, extra, l, i)
<1>1. ASSUME NEW l \in Letters PROVE StoredRows(given[l]) = {R(l, i) : i \in 1 .. 4}
  <2> DEFINE g == given[l]
  <2>1. /\ g.letter = l /\ g.extra = extra[l] /\ DOMAIN g.order = 1 .. 4
        /\ \A i \in 1 .. 4 : g.order[i] = Groups[l][order[l][i]]
    BY Zenon DEF Submits
  <2> HIDE DEF g
  <2>2. StoredRows(g) = {R(l, i) : i \in 1 .. 4}
    BY <2>1 DEF StoredRows, RowAt
  <2> QED
    BY <2>2 DEF g
<1>2. RowsOf(order, extra) = {R(l, i) : l \in Letters, i \in 1 .. 4}
  BY DEF RowsOf
<1> HIDE DEF R
<1>3. ASSUME NEW x PROVE x \in RowsStored(S) <=> \E l \in Letters : x \in StoredRows(given[l])
  BY Zenon DEF RowsStored, Submission
<1>4. ASSUME NEW x PROVE x \in RowsOf(order, extra)
                           <=> \E l \in Letters : \E i \in 1 .. 4 : x = R(l, i)
  BY <1>2
<1>5. ASSUME NEW x, NEW l \in Letters
      PROVE  x \in StoredRows(given[l]) <=> \E i \in 1 .. 4 : x = R(l, i)
  BY <1>1, Zenon
<1>6. ASSUME NEW x PROVE x \in RowsStored(S) <=> x \in RowsOf(order, extra)
  BY <1>3, <1>4, <1>5, Zenon
<1>7. OfEveryGroup(S)
  BY Zenon DEF Submits, Submission, OfEveryGroup
<1> QED
  BY <1>6, <1>7, Zenon

LEMMA RankingLetters ==
  ASSUME NEW rows, IsRanking(rows)
  PROVE  \A p \in rows : p.letter \in Letters
<1>1. PICK order, extra : rows = RowsOf(order, extra)
  BY DEF IsRanking
<1> QED
  BY <1>1 DEF RowsOf, RowAt

LEMMA SubmissionReplaces ==
  ASSUME Enlisted, NEW u \in Users, NEW S, SaveGroupPicks(u, S), NEW order, NEW extra,
         RowsStored(S) = RowsOf(order, extra), OfEveryGroup(S)
  PROVE  groupPicks' = [groupPicks EXCEPT ![u] = RowsOf(order, extra)]
<1> DEFINE Kept == {p \in groupPicks[u] : \A pick \in S : p.letter # pick.letter}
           New == RowsStored(S)
<1>1. groupPicks' = [groupPicks EXCEPT ![u] = Kept \cup New]
  BY DEF SaveGroupPicks, RowsStored, StoredRows
<1>2. \A p \in groupPicks[u] : p.letter \in Letters
  BY RankingLetters DEF Enlisted
<1>3. Kept = {}
  BY <1>2 DEF OfEveryGroup
<1>4. Kept \cup New = RowsOf(order, extra)
  BY <1>3
<1> HIDE DEF Kept, New
<1> QED
  BY <1>1, <1>4

\* Joey ranks the groups as they are listed; his wildcards are right, or all wrong.
JoeysExtra == [l \in Letters |-> (l \in Wildcards) = (kind = "perfect")]
JoeysRows == RowsOf(AsListed, JoeysExtra)

LEMMA JoeysSubmission ==
  RowsStored(JoeysGroupPicks) = JoeysRows /\ OfEveryGroup(JoeysGroupPicks)
<1> DEFINE given == [l \in Letters |->
                       [letter |-> l, order |-> Groups[l],
                        extra |-> (l \in Wildcards) = (kind = "perfect")]]
<1>1. ASSUME NEW l \in Letters
      PROVE  /\ given[l].letter = l /\ given[l].extra = JoeysExtra[l]
             /\ DOMAIN given[l].order = 1 .. 4
             /\ \A i \in 1 .. 4 : given[l].order[i] = Groups[l][AsListed[l][i]]
  <2>1. /\ given[l].letter = l /\ given[l].order = Groups[l] /\ given[l].extra = JoeysExtra[l]
    BY DEF JoeysExtra
  <2>2. DOMAIN Groups[l] = 1 .. 4
    BY GroupsOfContest, Zenon
  <2>3. \A i \in 1 .. 4 : AsListed[l][i] = i
    BY DEF AsListed
  <2> QED
    BY <2>1, <2>2, <2>3
<1>2. JoeysGroupPicks = Submission(given)
  BY DEF JoeysGroupPicks, Submission
<1> HIDE DEF given
<1>3. Submits(given, AsListed, JoeysExtra)
  BY <1>1, Zenon DEF Submits
<1> QED
  BY <1>2, <1>3, SubmissionIsStored, Zenon DEF JoeysRows

LEMMA ShuffleRange ==
  ASSUME dice \in Dice, NEW k \in Nat, Len(todo) \in Nat
  PROVE  Shuffle(k) \in OrdersOfFour
<1> DEFINE s == dice.shuffles
           i == ((Len(todo) + k) % Len(s)) + 1
<1>1. /\ s \in Seq([1 .. 4 -> 1 .. 4]) /\ s # <<>>
      /\ \A o \in ToSet(s), a, b \in 1 .. 4 : o[a] = o[b] => a = b
  BY SeedAssumption
<1>2. Len(s) \in Nat /\ Len(s) > 0
  BY <1>1
<1> DEFINE a == Len(todo) + k
           b == Len(s)
<1>3. i \in 1 .. Len(s)
  <2>1. a \in Nat /\ b \in Nat /\ b > 0 /\ i = (a % b) + 1
    BY <1>2
  <2> HIDE DEF a, b, i, s
  <2>2. a % b \in 0 .. b - 1
    BY <2>1
  <2>3. i \in 1 .. b
    BY <2>1, <2>2
  <2> QED
    BY <2>3 DEF b
<1>4. s[i] \in [1 .. 4 -> 1 .. 4]
  BY <1>1, <1>3, ElementOfSeq
<1>5. s[i] \in ToSet(s)
  BY <1>1, <1>3 DEF ToSet
<1> HIDE DEF s, i
<1>6. s[i] \in OrdersOfFour
  BY <1>1, <1>4, <1>5 DEF OrdersOfFour
<1> QED
  BY <1>6 DEF Shuffle, s, i

LEMMA RandomSubmission ==
  ASSUME dice \in Dice, todo \in Seq(Users)
  PROVE  \E order \in [Letters -> OrdersOfFour], extra \in [Letters -> BOOLEAN] :
           RowsStored(RandomGroupPicks) = RowsOf(order, extra) /\ OfEveryGroup(RandomGroupPicks)
<1> DEFINE order == [l \in Letters |-> Shuffle(l)]
           extra == [l \in Letters |-> Roll(l, 2) = 0]
           given == [l \in Letters |->
                       [letter |-> l, order |-> [i \in 1 .. 4 |-> Groups[l][Shuffle(l)[i]]],
                        extra |-> Roll(l, 2) = 0]]
<1>1. \A l \in Letters :
        /\ given[l].letter = l /\ given[l].extra = extra[l] /\ DOMAIN given[l].order = 1 .. 4
        /\ \A i \in 1 .. 4 : given[l].order[i] = Groups[l][order[l][i]]
  OBVIOUS
<1>2. RandomGroupPicks = Submission(given)
  BY DEF RandomGroupPicks, Submission
<1>3. order \in [Letters -> OrdersOfFour] /\ extra \in [Letters -> BOOLEAN]
  <2>1. (\A l \in Letters : l \in Nat) /\ Len(todo) \in Nat
    BY LettersOfContest
  <2> QED
    BY <2>1, ShuffleRange
<1> HIDE DEF given, order, extra
<1>4. Submits(given, order, extra)
  BY <1>1, Zenon DEF Submits
<1>5. RowsStored(RandomGroupPicks) = RowsOf(order, extra) /\ OfEveryGroup(RandomGroupPicks)
  BY <1>2, <1>4, SubmissionIsStored, Zenon
<1> QED
  BY <1>3, <1>5
LEMMA JoeysRanking == IsRanking(JoeysRows)
<1>1. AsListed \in [Letters -> OrdersOfFour] /\ JoeysExtra \in [Letters -> BOOLEAN]
  BY DEF AsListed, OrdersOfFour, JoeysExtra
<1> QED
  BY <1>1 DEF IsRanking, JoeysRows

LEMMA GroupPicksTurn ==
  ASSUME Running, Enlisted, SeedGroupPicks
  PROVE  LET u == Head(todo)
         IN  /\ u \in Users /\ stage = "groupPicks" /\ todo \in Seq(Users) /\ todo # <<>>
             /\ todo' = Tail(todo) /\ ListUser(u)
             /\ UNCHANGED <<kind, stage, matches, standings, finals, knockoutPicks>>
             /\ \E rows : /\ IsRanking(rows) /\ groupPicks' = [groupPicks EXCEPT ![u] = rows]
                          /\ Deterministic /\ u = Joey => rows = JoeysRows
<1> DEFINE u == Head(todo)
           S == IF Deterministic /\ u = Joey THEN JoeysGroupPicks ELSE RandomGroupPicks
<1>1. /\ stage = "groupPicks" /\ todo # <<>> /\ todo' = Tail(todo) /\ SaveGroupPicks(u, S)
      /\ UNCHANGED <<kind, stage>>
  BY DEF SeedGroupPicks, Turn
<1>2. todo \in Seq(Users) /\ dice \in Dice
  BY <1>1 DEF Running, Loop, Course
<1>3. u \in Users
  BY <1>1, <1>2
<1>4. PICK order, extra : /\ RowsStored(S) = RowsOf(order, extra) /\ OfEveryGroup(S)
                          /\ IsRanking(RowsOf(order, extra))
                          /\ Deterministic /\ u = Joey => RowsOf(order, extra) = JoeysRows
  <2>1. CASE Deterministic /\ u = Joey
    <3>1. S = JoeysGroupPicks
      BY <2>1
    <3> HIDE DEF S, u
    <3> QED
      BY <3>1, JoeysSubmission, JoeysRanking, Zenon DEF JoeysRows
  <2>2. CASE ~(Deterministic /\ u = Joey)
    <3>1. S = RandomGroupPicks
      BY <2>2
    <3>2. PICK o \in [Letters -> OrdersOfFour], e \in [Letters -> BOOLEAN] :
            RowsStored(RandomGroupPicks) = RowsOf(o, e) /\ OfEveryGroup(RandomGroupPicks)
      BY <1>2, RandomSubmission
    <3> HIDE DEF S, u
    <3>3. IsRanking(RowsOf(o, e))
      BY <3>2, Zenon DEF IsRanking
    <3> QED
      BY <2>2, <3>1, <3>2, <3>3, Zenon
  <2> QED
    BY <2>1, <2>2
<1> HIDE DEF S
<1>5. groupPicks' = [groupPicks EXCEPT ![u] = RowsOf(order, extra)]
  BY <1>1, <1>3, <1>4, SubmissionReplaces
<1>6. ListUser(u) /\ UNCHANGED <<matches, standings, finals, knockoutPicks>>
  BY <1>1 DEF SaveGroupPicks
<1> QED
  BY <1>1, <1>2, <1>3, <1>4, <1>5, <1>6

----------------------------------------------------------------------------
(***************************************************************************)
(* Nobody has more points than what has been decided is worth              *)
(***************************************************************************)
LEMMA PaidRecord ==
  ASSUME NEW s \in [group : 0 .. 600, knockout : 0 .. 600], NEW p \in Nat
  PROVE  /\ [s EXCEPT !.group = @ + p] =
              [group |-> s.group + p, knockout |-> s.knockout + 0]
         /\ [s EXCEPT !.knockout = @ + p] =
              [group |-> s.group + 0, knockout |-> s.knockout + p]
         /\ s = [group |-> s.group + 0, knockout |-> s.knockout + 0]
         /\ [s EXCEPT !.group = @ + p] # Null /\ [s EXCEPT !.knockout = @ + p] # Null
<1>1. s.group \in Nat /\ s.knockout \in Nat
      /\ s = [group |-> s.group, knockout |-> s.knockout]
  OBVIOUS
<1>2. Null \notin [group : Int, knockout : Int]
  BY ColumnAssumption
<1>3. s.group + 0 = s.group /\ s.knockout + 0 = s.knockout
  BY <1>1
<1>4. /\ [s EXCEPT !.group = @ + p] = [group |-> s.group + p, knockout |-> s.knockout]
      /\ [s EXCEPT !.knockout = @ + p] = [group |-> s.group, knockout |-> s.knockout + p]
  BY <1>1
<1>5. /\ [group |-> s.group + p, knockout |-> s.knockout] \in [group : Int, knockout : Int]
      /\ [group |-> s.group, knockout |-> s.knockout + p] \in [group : Int, knockout : Int]
  BY <1>1
<1> QED
  BY <1>1, <1>2, <1>3, <1>4, <1>5

\* A user who is listed gets up to x points for the groups or y for the bracket.
IsPaid(u, x, y) ==
  \/ scores'[u] = scores[u]
  \/ scores[u] # Null /\ \E p \in 0 .. x : scores'[u] = [scores[u] EXCEPT !.group = @ + p]
  \/ scores[u] # Null /\ \E p \in 0 .. y : scores'[u] = [scores[u] EXCEPT !.knockout = @ + p]

LEMMA ScoresGrow ==
  ASSUME Enlisted, Worthy, NEW x \in Nat, NEW y \in Nat,
         GroupWorth(5)' = GroupWorth(5) + x, KnockoutWorth(5)' = KnockoutWorth(5) + y,
         \A u \in Users : IsPaid(u, x, y)
  PROVE  Worthy' /\ \A u \in Users : scores[u] # Null => scores'[u] # Null
<1>1. ASSUME NEW u \in Users, scores[u] # Null
      PROVE  scores'[u] # Null /\ GainsPoints(scores'[u], scores[u], x, y)
  <2>1. scores[u] \in [group : 0 .. 600, knockout : 0 .. 600]
    BY <1>1, PointsAreNat
  <2> DEFINE s == scores[u]
             t == scores'[u]
  <2>2. \/ t = s
        \/ \E p \in 0 .. x : t = [s EXCEPT !.group = @ + p]
        \/ \E p \in 0 .. y : t = [s EXCEPT !.knockout = @ + p]
    BY <1>1 DEF IsPaid
  <2>3. s \in [group : 0 .. 600, knockout : 0 .. 600] /\ s # Null
    BY <1>1, <2>1
  <2> HIDE DEF s, t
  <2>4. t # Null /\ GainsPoints(t, s, x, y)
    <3>1. 0 \in 0 .. x /\ 0 \in 0 .. y
      OBVIOUS
    <3>2. CASE t = s
      BY <2>3, <3>1, <3>2, PaidRecord DEF GainsPoints
    <3>3. CASE \E p \in 0 .. x : t = [s EXCEPT !.group = @ + p]
      <4>1. PICK p \in 0 .. x : t = [s EXCEPT !.group = @ + p]
        BY <3>3
      <4>2. p \in Nat
        OBVIOUS
      <4>3. t # Null /\ t = [group |-> s.group + p, knockout |-> s.knockout + 0]
        BY ZenonT(40), <2>3, <4>1, <4>2, PaidRecord
      <4> QED
        BY <3>1, <4>3 DEF GainsPoints
    <3>4. CASE \E p \in 0 .. y : t = [s EXCEPT !.knockout = @ + p]
      <4>1. PICK p \in 0 .. y : t = [s EXCEPT !.knockout = @ + p]
        BY <3>4
      <4>2. p \in Nat
        OBVIOUS
      <4>3. t # Null /\ t = [group |-> s.group + 0, knockout |-> s.knockout + p]
        BY ZenonT(40), <2>3, <4>1, <4>2, PaidRecord
      <4> QED
        BY <3>1, <4>3 DEF GainsPoints
    <3> QED
      BY <2>2, <3>2, <3>3, <3>4
  <2> QED
    BY <2>4 DEF s, t
<1>2. \A u \in Users : scores'[u] # Null => scores[u] # Null
  BY DEF IsPaid
<1>3. Worthy'
  BY <1>1, <1>2, WorthyGrows
<1> QED
  BY <1>1, <1>3

LEMMA ListedStays ==
  ASSUME Enlisted, UNCHANGED <<groupPicks, knockoutPicks>>,
         scores' = [u \in Users |-> scores'[u]],
         \A u \in Users : scores[u] # Null => scores'[u] # Null
  PROVE  Enlisted'
  BY DEF Enlisted

LEMMA ListingKeeps ==
  ASSUME Enlisted, Worthy, NEW u \in Users, ListUser(u),
         UNCHANGED <<finals, matches>>
  PROVE  /\ Worthy' /\ scores' = [v \in Users |-> scores'[v]] /\ scores'[u] # Null
         /\ \A v \in Users : scores[v] # Null => scores'[v] # Null
         /\ \A v \in Users \ {u} : scores'[v] = scores[v]
         /\ scores'[u] = IF scores[u] = Null THEN NoPoints ELSE scores[u]
<1>1. scores = [v \in Users |-> scores[v]]
  BY DEF Enlisted
<1>2. scores' = [v \in Users |-> IF v = u THEN IF scores[u] = Null THEN NoPoints ELSE scores[u]
                                 ELSE scores[v]]
  BY <1>1 DEF ListUser, NoPoints
<1>3. NoPoints # Null
  <2>1. NoPoints \in [group : Int, knockout : Int]
    BY DEF NoPoints
  <2> QED
    BY <2>1, ColumnAssumption
<1>4. GroupWorth(5)' = GroupWorth(5) + 0 /\ KnockoutWorth(5)' = KnockoutWorth(5) + 0
  <2>1. GroupWorth(5) \in Nat /\ KnockoutWorth(5) \in Nat
    BY SMTT(30), WorthBounds
  <2>2. GroupWorth(5)' = GroupWorth(5) /\ KnockoutWorth(5)' = KnockoutWorth(5)
    BY WorthStays
  <2> QED
    BY <2>1, <2>2
<1>5. ASSUME NEW v \in Users, scores'[v] # Null
      PROVE  \/ scores'[v] = NoPoints
             \/ scores[v] # Null /\ GainsPoints(scores'[v], scores[v], 0, 0)
  <2>1. scores'[v] = NoPoints \/ scores'[v] = scores[v]
    BY <1>2
  <2>2. CASE scores'[v] = scores[v]
    <3>1. scores[v] \in [group : 0 .. 600, knockout : 0 .. 600]
      BY <1>5, <2>2, PointsAreNat
    <3>2. scores[v] = [group |-> scores[v].group + 0, knockout |-> scores[v].knockout + 0]
      BY SMTT(30), <3>1, PaidRecord
    <3>3. GainsPoints(scores[v], scores[v], 0, 0)
      BY <3>2 DEF GainsPoints
    <3> QED
      BY <1>5, <2>2, <3>3
  <2> QED
    BY <2>1, <2>2
<1>6. Worthy'
  BY <1>4, <1>5, WorthyGrows
<1> QED
  BY <1>2, <1>3, <1>6
\* What holds of the points in every state, and of the lists while the seed program runs.
ScoresInRange ==
  \A u \in Users : scores[u] # Null => scores[u] \in [group : 0 .. 600, knockout : 0 .. 600]
PointsInv == ScoresInRange /\ (stage # "start" => Enlisted /\ Worthy)

LEMMA WorthyInRange == Worthy => ScoresInRange
  BY PointsAreNat DEF ScoresInRange

LEMMA PointsStay ==
  ASSUME Enlisted, Worthy, UNCHANGED <<matches, finals, groupPicks, knockoutPicks, scores>>
  PROVE  Enlisted' /\ Worthy'
<1>1. GroupWorth(5)' = GroupWorth(5) /\ KnockoutWorth(5)' = KnockoutWorth(5)
  BY WorthStays
<1>2. Worthy'
  BY <1>1 DEF Worthy
<1> QED
  BY <1>2 DEF Enlisted

LEMMA GroupPicksPoints ==
  ASSUME Running, Enlisted, Worthy, SeedGroupPicks
  PROVE  Enlisted' /\ Worthy'
<1> DEFINE u == Head(todo)
<1>1. /\ u \in Users /\ ListUser(u) /\ UNCHANGED <<matches, finals, knockoutPicks>>
      /\ \E rows : IsRanking(rows) /\ groupPicks' = [groupPicks EXCEPT ![u] = rows]
  BY GroupPicksTurn
<1>2. PICK rows : IsRanking(rows) /\ groupPicks' = [groupPicks EXCEPT ![u] = rows]
  BY <1>1
<1> HIDE DEF u
<1>3. /\ Worthy' /\ scores' = [v \in Users |-> scores'[v]] /\ scores'[u] # Null
      /\ \A v \in Users : scores[v] # Null => scores'[v] # Null
  BY <1>1, ListingKeeps
<1>4. /\ groupPicks' = [v \in Users |-> groupPicks'[v]]
      /\ \A v \in Users : groupPicks'[v] = IF v = u THEN rows ELSE groupPicks[v]
  BY <1>1, <1>2 DEF Enlisted
<1>5. \A v \in Users : groupPicks'[v] # {} => IsRanking(groupPicks'[v]) /\ scores'[v] # Null
  BY <1>2, <1>3, <1>4 DEF Enlisted
<1>6. /\ knockoutPicks' = [v \in Users |-> knockoutPicks'[v]]
      /\ \A v \in Users : knockoutPicks'[v] # {} => scores'[v] # Null
  BY <1>1, <1>3 DEF Enlisted
<1> QED
  BY <1>3, <1>4, <1>5, <1>6 DEF Enlisted

LEMMA KnockoutPicksPoints ==
  ASSUME Running, Enlisted, Worthy, SeedKnockoutPicks
  PROVE  Enlisted' /\ Worthy'
<1> DEFINE u == Head(todo)
           B == IF Deterministic /\ u = Joey THEN JoeysBracket ELSE RandomBracket
<1>1. /\ u \in Users /\ ListUser(u) /\ UNCHANGED <<matches, finals, groupPicks>>
      /\ knockoutPicks' = [knockoutPicks EXCEPT ![u] = B]
  BY KnockoutPicksTurn
<1> HIDE DEF u, B
<1>2. /\ Worthy' /\ scores' = [v \in Users |-> scores'[v]] /\ scores'[u] # Null
      /\ \A v \in Users : scores[v] # Null => scores'[v] # Null
  BY <1>1, ListingKeeps
<1>3. /\ groupPicks' = [v \in Users |-> groupPicks'[v]]
      /\ \A v \in Users : groupPicks'[v] # {} => IsRanking(groupPicks'[v]) /\ scores'[v] # Null
  BY <1>1, <1>2 DEF Enlisted
<1>4. /\ knockoutPicks' = [v \in Users |-> knockoutPicks'[v]]
      /\ \A v \in Users : v # u => knockoutPicks'[v] = knockoutPicks[v]
  BY <1>1 DEF Enlisted
<1>5. \A v \in Users : knockoutPicks'[v] # {} => scores'[v] # Null
  BY <1>2, <1>4 DEF Enlisted
<1> QED
  BY <1>2, <1>3, <1>4, <1>5 DEF Enlisted

\* Until something is decided, the points stay.
LEMMA UndecidedPoints ==
  ASSUME Enlisted, Worthy, UNCHANGED <<finals, groupPicks, knockoutPicks>>,
         scores' = [u \in Users |-> scores[u]],
         \A n \in Bracket : Completed(matches'[n]) <=> Completed(matches[n])
  PROVE  Enlisted' /\ Worthy'
<1>1. GroupWorth(5)' = GroupWorth(5) /\ KnockoutWorth(5)' = KnockoutWorth(5)
  BY WorthStays
<1>2. scores' = scores
  BY DEF Enlisted
<1>3. Worthy'
  BY <1>1, <1>2 DEF Worthy
<1> QED
  BY <1>2, <1>3 DEF Enlisted

LEMMA GroupMatchPoints ==
  ASSUME Running, Enlisted, Worthy, PlayGroupMatch
  PROVE  Enlisted' /\ Worthy'
<1>1. PICK m \in GroupMatches : \E new :
        /\ matches' = [matches EXCEPT ![m] = new]
        /\ UNCHANGED <<kind, stage, finals, groupPicks, knockoutPicks>>
        /\ scores' = [u \in Users |-> scores[u]]
  BY GroupMatchTurn
<1>2. \A n \in Bracket : n # m
  BY GroupMatch
<1>3. \A n \in Bracket : n \in AllMatches
  BY BracketMatch
<1>4. Rows
  BY DEF Running, Tables
<1>5. \A n \in Bracket : Completed(matches'[n]) <=> Completed(matches[n])
  BY <1>1, <1>2, <1>3, <1>4 DEF Rows
<1> QED
  BY <1>1, <1>5, UndecidedPoints

LEMMA PairPoints ==
  ASSUME Running, Enlisted, Worthy, PairUp
  PROVE  Enlisted' /\ Worthy'
<1>1. PICK m \in Bracket : \E new : Pairing(m, new)
  BY PairTurn
<1>2. PICK new : Pairing(m, new)
  BY <1>1
<1>3. Rows
  BY DEF Running, Tables
<1>4. \A n \in Bracket : n \in AllMatches
  BY BracketMatch
<1>5. \A n \in Bracket : Completed(matches'[n]) <=> Completed(matches[n])
  BY <1>2, <1>3, <1>4 DEF Rows, Pairing
<1> QED
  BY <1>2, <1>5, UndecidedPoints DEF Pairing
LEMMA RankPoints ==
  ASSUME Running, Enlisted, Worthy, RankGroup
  PROVE  Enlisted' /\ Worthy'
<1>1. PICK l \in Letters :
        /\ FinalizeRankings(l, BestFirst(CountriesOf(l)))
        /\ l \notin RankedLetters /\ RankedLetters' = RankedLetters \cup {l}
        /\ SettledLetters' = SettledLetters
        /\ UNCHANGED <<matches, groupPicks, knockoutPicks>>
  BY RankTurn
<1>2. Rows
  BY DEF Running, Tables
<1>3. scores' = [u \in Users |-> scores'[u]]
  <2>1. PICK rank : RanksWritten(l, BestFirst(CountriesOf(l)), rank)
    BY <1>1, <1>2, OrderOfGroup, RankingsPay, Zenon
  <2> QED
    BY <2>1 DEF RanksWritten
<1>4. /\ GroupWorth(5)' = GroupWorth(5) + 45 /\ KnockoutWorth(5)' = KnockoutWorth(5) + 0
  <2>1. GroupWorth(5)' = GroupWorth(5) + 45
    BY <1>1, RankingsGrow
  <2>2. KnockoutWorth(5)' = KnockoutWorth(5) /\ KnockoutWorth(5) \in Nat
    BY <1>1, WorthStays, WorthBounds
  <2> QED
    BY <2>1, <2>2
<1>5. ASSUME NEW u \in Users
      PROVE  IsPaid(u, 45, 0)
  <2>1. /\ groupPicks[u] = {} => scores'[u] = scores[u]
        /\ groupPicks[u] # {} => \E p \in 0 .. 45 : scores'[u] = [scores[u] EXCEPT !.group = @ + p]
    BY <1>1, <1>2, RankGroupPays
  <2>2. groupPicks[u] # {} => scores[u] # Null
    BY DEF Enlisted
  <2> QED
    BY SMTT(30), <2>1, <2>2 DEF IsPaid
<1>6. Worthy' /\ \A u \in Users : scores[u] # Null => scores'[u] # Null
  BY <1>4, <1>5, ScoresGrow
<1> QED
  BY <1>1, <1>3, <1>6, ListedStays

LEMMA QualifyPoints ==
  ASSUME Running, Enlisted, Worthy, QualifyThird
  PROVE  Enlisted' /\ Worthy'
<1>1. PICK i \in 1 .. 12 :
        LET l == Thirds[i].letter
        IN  /\ FinalizeQualifier(l, i <= 8)
            /\ l \notin SettledLetters /\ SettledLetters' = SettledLetters \cup {l}
            /\ RankedLetters' = RankedLetters
            /\ UNCHANGED <<matches, groupPicks, knockoutPicks>>
  BY QualifyTurn
<1> DEFINE l == Thirds[i].letter
           hit(u) == \E p \in groupPicks[u] : p.letter = l /\ p.extra = (i <= 8)
<1>2. /\ FinalizeQualifier(l, i <= 8)
      /\ l \notin SettledLetters /\ SettledLetters' = SettledLetters \cup {l}
      /\ RankedLetters' = RankedLetters
      /\ UNCHANGED <<matches, groupPicks, knockoutPicks>>
  BY <1>1
<1> HIDE DEF l
<1>3. scores' = [u \in Users |-> IF hit(u) THEN [scores[u] EXCEPT !.group = @ + 5] ELSE scores[u]]
  BY <1>2, QualifierPays
<1>4. \A u \in Users : hit(u) => scores[u] # Null
  BY DEF Enlisted
<1> HIDE DEF hit
<1>5. GroupWorth(5)' = GroupWorth(5) + 5 /\ KnockoutWorth(5)' = KnockoutWorth(5) + 0
  <2>1. GroupWorth(5)' = GroupWorth(5) + 5
    BY <1>2, QualifiersGrow
  <2>2. KnockoutWorth(5)' = KnockoutWorth(5) /\ KnockoutWorth(5) \in Nat
    BY <1>2, WorthStays, WorthBounds
  <2> QED
    BY <2>1, <2>2
<1>6. ASSUME NEW u \in Users
      PROVE  IsPaid(u, 5, 0)
  <2>1. 5 \in 0 .. 5
    OBVIOUS
  <2> QED
    BY <1>3, <1>4, <2>1 DEF IsPaid
<1>7. Worthy' /\ \A u \in Users : scores[u] # Null => scores'[u] # Null
  BY <1>5, <1>6, ScoresGrow
<1>8. scores' = [u \in Users |-> scores'[u]]
  BY <1>3
<1> QED
  BY <1>2, <1>7, <1>8, ListedStays

LEMMA AwardsOfRounds ==
  ASSUME NEW m \in Bracket, NEW a, a = AchievedRound(m[1], m[2])
  PROVE  /\ a \in 2 .. 7 /\ AwardPoints(a) \in Nat /\ AwardWorth(5, a) = AwardPoints(a)
         /\ AwardWorth(0, a) = IF a = 7 THEN 0 ELSE AwardPoints(a)
<1>1. m[1] \in 1 .. 5 /\ (m[1] = 5 => m[2] \in {0, 1})
  BY BracketMatch, Places
<1>2. a \in 2 .. 7
  BY <1>1 DEF AchievedRound
<1> QED
  BY <1>2 DEF AwardWorth, AwardPoints

LEMMA ResultPoints ==
  ASSUME Running, Enlisted, Worthy, PlayKnockout
  PROVE  Enlisted' /\ Worthy'
<1>1. PICK r \in 1 .. 5, m \in Bracket : \E new : Resulting(r, m, new)
  BY ResultTurn
<1>2. PICK new : Resulting(r, m, new)
  BY <1>1
<1> DEFINE a == AchievedRound(m[1], m[2])
           x == AwardPoints(a)
<1>3. x \in Nat /\ AwardWorth(5, a) = x
  BY AwardsOfRounds
<1>4. GroupWorth(5)' = GroupWorth(5) + 0 /\ KnockoutWorth(5)' = KnockoutWorth(5) + x
  <2>1. KnockoutWorth(5)' = KnockoutWorth(5) + AwardWorth(5, a)
    BY <1>2, KnockoutWorthGrows DEF Resulting
  <2>2. GroupWorth(5)' = GroupWorth(5) /\ GroupWorth(5) \in Nat
    BY <1>2, WorthStays, WorthBounds DEF Resulting
  <2> QED
    BY <1>3, <2>1, <2>2
<1>5. PICK w : scores' = [u \in Users |->
                 IF <<w, a>> \in knockoutPicks[u] THEN [scores[u] EXCEPT !.knockout = @ + x]
                 ELSE scores[u]]
  BY <1>2 DEF Resulting
<1> HIDE DEF x, a
<1>6. ASSUME NEW u \in Users
      PROVE  IsPaid(u, 0, x)
  <2>1. x \in 0 .. x
    BY <1>3
  <2>2. <<w, a>> \in knockoutPicks[u] => scores[u] # Null
    BY DEF Enlisted
  <2> QED
    BY <1>5, <2>1, <2>2 DEF IsPaid
<1>7. Worthy' /\ \A u \in Users : scores[u] # Null => scores'[u] # Null
  BY <1>3, <1>4, <1>6, ScoresGrow
<1>8. scores' = [u \in Users |-> scores'[u]]
  BY <1>5
<1> QED
  BY <1>7, <1>8, <1>2, ListedStays DEF Resulting
LEMMA RunningKeepsPoints ==
  ASSUME Running, Running', SeedStep, Enlisted, Worthy
  PROVE  Enlisted' /\ Worthy'
<1>1. stage # "start" /\ stage' # "start"
  BY DEF Running, Course
<1>2. ~Truncate /\ ~Rerun
  BY <1>1 DEF Truncate, Rerun
<1>3. CASE CreateUsers
  BY <1>3, PointsStay DEF CreateUsers, CreateContest, Fail, contestVars
<1>4. CASE NextLoop
  BY <1>4, NextLoopKeeps, PointsStay DEF contestVars
<1>5. CASE SeedSubcontest
  BY <1>5, SeedSubcontestKeeps, PointsStay DEF contestVars
<1>6. CASE SeedDone
  BY <1>6, PointsStay DEF SeedDone, contestVars
<1> QED
  BY <1>2, <1>3, <1>4, <1>5, <1>6, GroupPicksPoints, KnockoutPicksPoints, GroupMatchPoints,
     PairPoints, RankPoints, QualifyPoints, ResultPoints
  DEF SeedStep

LEMMA SeedKeepsPoints ==
  ASSUME SeedInv, SeedInv', PointsInv, SeedStep
  PROVE  PointsInv'
<1>1. CASE stage = "start"
  <2>1. TruncateTables
    BY <1>1, OnlyTruncateStarts DEF Truncate
  <2>2. \A u \in Users : groupPicks'[u] = {} /\ knockoutPicks'[u] = {} /\ scores'[u] = Null
    BY <2>1 DEF TruncateTables
  <2>3. /\ groupPicks' = [u \in Users |-> groupPicks'[u]]
        /\ knockoutPicks' = [u \in Users |-> knockoutPicks'[u]]
        /\ scores' = [u \in Users |-> scores'[u]]
    BY <2>1 DEF TruncateTables
  <2> QED
    BY <2>2, <2>3 DEF PointsInv, ScoresInRange, Enlisted, Worthy
<1>2. CASE stage # "start" /\ stage' = "start"
  <2>1. UNCHANGED scores
    BY <1>2, RerunBefore DEF Rerun, contestVars
  <2> QED
    BY <1>2, <2>1 DEF PointsInv, ScoresInRange
<1>3. CASE stage # "start" /\ stage' # "start"
  <2>1. Running /\ (Running' \/ RefusesUser)
    <3>1. ~Rerun /\ stage # "failed"
      BY <1>3, OnlyRerunAfterFailure DEF Rerun
    <3>2. Running
      BY <1>3, <3>1 DEF SeedInv, Active, Running
    <3> QED
      BY <3>1, <3>2, SeedStepKeeps
  <2>2. Enlisted' /\ Worthy'
    <3>1. CASE Running'
      BY <1>3, <2>1, <3>1, RunningKeepsPoints DEF PointsInv
    <3>2. CASE RefusesUser
      BY <1>3, <3>2, PointsStay DEF PointsInv, RefusesUser, Fail, contestVars
    <3> QED
      BY <2>1, <3>1, <3>2
  <2>3. ScoresInRange'
    BY <2>2, WorthyInRange, PTL
  <2> QED
    BY <2>2, <2>3 DEF PointsInv
<1> QED
  BY SMTT(30), <1>1, <1>2, <1>3

\* The script's scores, whatever step it is at.
LEMMA ScriptScoresInRange == ScriptScores => ScoresInRange
<1> SUFFICES ASSUME ScriptScores, NEW u \in Users, scores[u] # Null
             PROVE  scores[u] \in [group : 0 .. 600, knockout : 0 .. 600]
  BY DEF ScoresInRange
<1>1. u = 1 \/ u = 2
  BY DEF ScriptScores
<1> QED
  BY <1>1 DEF ScriptScores

LEMMA NextPointsInv ==
  SeedInv /\ SeedInv' /\ ScriptInv /\ ScriptInv' /\ PointsInv /\ [Next]_vars => PointsInv'
<1> SUFFICES ASSUME SeedInv, SeedInv', ScriptInv, ScriptInv', PointsInv, [Next]_vars
             PROVE  PointsInv'
  OBVIOUS
<1>1. CASE step = 0 /\ SeedStep /\ UNCHANGED scriptVars
  BY <1>1, SeedKeepsPoints
<1>2. CASE stage = "start" /\ UNCHANGED seedVars /\ UNCHANGED scores
  BY <1>2 DEF PointsInv, ScoresInRange, seedVars
<1>3. CASE stage = "start" /\ ScriptStep /\ UNCHANGED seedVars
  <2>1. stage' = "start"
    BY <1>3 DEF seedVars
  <2>2. CASE step' # 0
    <3>1. ScriptScores'
      BY <2>2 DEF ScriptInv, Script
    <3>2. ScoresInRange'
      BY <3>1, ScriptScoresInRange, PTL
    <3> QED
      BY <2>1, <3>2 DEF PointsInv
  <2>3. CASE step' = 0
    BY <1>3, <2>3, ScriptStepKeeps, Zenon
  <2> QED
    BY <2>2, <2>3
<1>4. CASE ScriptDone /\ UNCHANGED seedVars
  BY <1>2, <1>4 DEF SeedInv, ScriptDone, contestVars
<1>5. CASE StopScript
  BY <1>2, <1>5 DEF SeedInv, StopScript, contestVars
<1>6. CASE UNCHANGED vars
  <2>1. UNCHANGED <<matches, finals, groupPicks, knockoutPicks, scores, stage>>
    BY <1>6 DEF vars, contestVars, seedVars
  <2>2. ScoresInRange'
    BY <2>1 DEF PointsInv, ScoresInRange
  <2>3. CASE stage # "start"
    BY <2>1, <2>2, <2>3, PointsStay DEF PointsInv
  <2> QED
    BY <2>1, <2>2, <2>3 DEF PointsInv
<1> QED
  BY <1>1, <1>3, <1>4, <1>5, <1>6 DEF Next

\* Whatever is predicted, drawn and played: nobody ever has more than 600 points for the
\* groups or for the bracket, since nobody has more than what is decided so far is worth.
THEOREM PointsInvariant == Spec => []NobodyExceeds600
<1>1. Init => PointsInv
  BY DEF Init, Empty, SeedIdle, PointsInv, ScoresInRange
<1>2. PointsInv => NobodyExceeds600
  <2> SUFFICES ASSUME PointsInv, NEW u \in Users, scores[u] # Null
               PROVE  scores[u].group <= 600 /\ scores[u].knockout <= 600
    BY DEF NobodyExceeds600
  <2>1. scores[u] \in [group : 0 .. 600, knockout : 0 .. 600]
    BY DEF PointsInv, ScoresInRange
  <2>2. scores[u].group \in 0 .. 600
    BY <2>1
  <2>3. scores[u].knockout \in 0 .. 600
    BY <2>1
  <2>4. \A n \in 0 .. 600 : n <= 600
    OBVIOUS
  <2> QED
    BY ZenonT(40), <2>2, <2>3, <2>4
<1>3. Spec => []PointsInv
  BY <1>1, SeedInvariant, ScriptInvariant, NextPointsInv, PTL DEF Spec
<1> QED
  BY <1>2, <1>3, PTL

----------------------------------------------------------------------------
(***************************************************************************)
(* Joey's predictions and his points in the deterministic contests         *)
(***************************************************************************)
\* The points his predictions bring for a bonus and for the third place, and the semifinal
\* whose loser he predicts to be third.
IsBonus(b) == b \in {0, 5} /\ (b = 5 <=> kind = "perfect")
IsLast(i) == i \in {0, 1} /\ (i = 0 <=> kind = "perfect")

StillToPredict == stage = "users" \/ (stage = "groupPicks" /\ Joey \in ToSet(todo))
BracketDue ==
  \/ stage \in {"round1", "round2", "round3", "round4", "round5", "report"}
  \/ stage = "knockoutPicks" /\ Joey \notin ToSet(todo)

JoeysPicks ==
  /\ ~StillToPredict => groupPicks[Joey] = JoeysRows
  /\ BracketDue => \A i : IsLast(i) => knockoutPicks[Joey] = BracketOf(Firsts, i)

\* Joey has what all that is decided so far brings him.
JoeysPoints ==
  scores[Joey] # Null =>
    \A b : IsBonus(b) =>
      scores[Joey] = [group |-> GroupWorth(b), knockout |-> KnockoutWorth(b)]

LEMMA JoeyIsUser == Joey \in Users /\ Users = ToSet(AllUsers) /\ AllUsers \in Seq(Users)
  BY SeedAssumption

LEMMA JoeysRowsStay ==
  ASSUME UNCHANGED kind
  PROVE  JoeysRows' = JoeysRows
<1>1. JoeysExtra' = JoeysExtra
  BY DEF JoeysExtra
<1> QED
  BY <1>1 DEF JoeysRows, RowsOf, RowAt

LEMMA JoeyPredicts ==
  ASSUME Enlisted, ~StillToPredict, JoeysPicks
  PROVE  groupPicks[Joey] = JoeysRows /\ scores[Joey] # Null
<1>1. groupPicks[Joey] = JoeysRows
  BY DEF JoeysPicks
<1>2. RowAt(AsListed, JoeysExtra, 1, 1) \in JoeysRows
  BY PairingsOfA DEF JoeysRows, RowsOf
<1> QED
  BY <1>1, <1>2, JoeyIsUser DEF Enlisted

LEMMA JoeysBracketOf ==
  ASSUME NEW i, IsLast(i)
  PROVE  JoeysBracket = BracketOf(Firsts, i)
<1>1. (IF kind = "perfect" THEN 0 ELSE 1) = i
  BY DEF IsLast
<1> QED
  BY <1>1 DEF JoeysBracket, Firsts

LEMMA JoeysPointsStay ==
  ASSUME JoeysPoints, UNCHANGED <<kind, finals>>, scores'[Joey] = scores[Joey],
         \A n \in Bracket : Completed(matches'[n]) <=> Completed(matches[n])
  PROVE  JoeysPoints'
<1>1. ASSUME NEW b
      PROVE  GroupWorth(b)' = GroupWorth(b) /\ KnockoutWorth(b)' = KnockoutWorth(b)
  BY WorthStays
<1>2. ASSUME NEW b PROVE IsBonus(b)' <=> IsBonus(b)
  BY DEF IsBonus
<1> QED
  BY <1>1, <1>2 DEF JoeysPoints

LEMMA JoeysPicksStay ==
  ASSUME JoeysPicks, UNCHANGED <<kind, groupPicks, knockoutPicks>>,
         StillToPredict => StillToPredict', BracketDue' => BracketDue,
         BracketDue => \A i \in 0 .. 15 : /\ matches'[<<1, i>>].c1 = matches[<<1, i>>].c1
                                          /\ matches'[<<1, i>>].c2 = matches[<<1, i>>].c2
  PROVE  JoeysPicks'
<1>1. JoeysRows' = JoeysRows
  BY JoeysRowsStay
<1>2. ASSUME NEW i, BracketDue PROVE BracketOf(Firsts, i)' = BracketOf(Firsts, i)
  BY <1>2, BracketsStay
<1>3. ASSUME NEW i PROVE IsLast(i)' <=> IsLast(i)
  BY DEF IsLast
<1> QED
  BY <1>1, <1>2, <1>3 DEF JoeysPicks
LEMMA JoeyAtGroupMatch ==
  ASSUME Running, JoeysPicks, JoeysPoints, PlayGroupMatch
  PROVE  JoeysPicks' /\ JoeysPoints'
<1>1. PICK m \in GroupMatches : \E new :
        /\ stage = "groupMatches" /\ matches' = [matches EXCEPT ![m] = new]
        /\ UNCHANGED <<kind, stage, finals, groupPicks, knockoutPicks>>
        /\ scores' = [u \in Users |-> scores[u]]
  BY GroupMatchTurn
<1>2. \A n \in Bracket : n # m /\ n \in AllMatches
  BY GroupMatch, BracketMatch
<1>3. Rows
  BY DEF Running, Tables
<1>4. \A n \in Bracket : Completed(matches'[n]) <=> Completed(matches[n])
  BY <1>1, <1>2, <1>3 DEF Rows
<1>5. JoeysPoints'
  BY <1>1, <1>4, JoeyIsUser, JoeysPointsStay
<1>6. ~StillToPredict /\ ~BracketDue /\ ~BracketDue'
  BY <1>1 DEF StillToPredict, BracketDue
<1> QED
  BY <1>1, <1>5, <1>6, JoeysPicksStay

LEMMA JoeyAtPair ==
  ASSUME Running, JoeysPicks, JoeysPoints, PairUp
  PROVE  JoeysPicks' /\ JoeysPoints'
<1>1. PICK m \in Bracket : \E new : Pairing(m, new)
  BY PairTurn
<1>2. PICK new : Pairing(m, new)
  BY <1>1
<1>3. Rows
  BY DEF Running, Tables
<1>4. \A n \in Bracket : Completed(matches'[n]) <=> Completed(matches[n])
  <2>1. m \in AllMatches /\ matches' = [matches EXCEPT ![m] = new] /\ \A n \in Bracket : n \in AllMatches
    BY <1>2, BracketMatch DEF Pairing
  <2> QED
    BY <1>2, <1>3, <2>1 DEF Rows, Pairing
<1>5. JoeysPoints'
  BY <1>2, <1>4, JoeyIsUser, JoeysPointsStay DEF Pairing
<1>6. ~StillToPredict /\ ~BracketDue /\ ~BracketDue'
  BY <1>2 DEF StillToPredict, BracketDue, Pairing
<1> QED
  BY <1>2, <1>5, <1>6, JoeysPicksStay DEF Pairing

\* The order of each group is the one he predicts: all its points are his.
LEMMA JoeyAtRanking ==
  ASSUME Running, Enlisted, AsPredicted, JoeysPicks, JoeysPoints, RankGroup
  PROVE  JoeysPicks' /\ JoeysPoints'
<1>1. PICK l \in Letters :
        /\ stage = "rankings" /\ UnplayedGroupMatches = {}
        /\ FinalizeRankings(l, BestFirst(CountriesOf(l)))
        /\ l \notin RankedLetters /\ RankedLetters' = RankedLetters \cup {l}
        /\ SettledLetters' = SettledLetters
        /\ UNCHANGED <<kind, stage, matches, groupPicks, knockoutPicks>>
  BY RankTurn
<1>2. Rows /\ GroupRows
  BY DEF Running, Tables
<1>3. \A i \in 1 .. 4 : BestFirst(CountriesOf(l))[i] = Groups[l][i]
  <2>1. \A m \in GroupMatches : Completed(matches[m])
    BY <1>1, <1>2 DEF GroupRows
  <2>2. TableAsListed(l)
    BY DEF AsPredicted
  <2> QED
    BY <1>2, <2>1, <2>2, ListedOrder
<1>4. ~StillToPredict /\ ~BracketDue /\ ~BracketDue'
  BY <1>1 DEF StillToPredict, BracketDue
<1>5. groupPicks[Joey] = RowsOf(AsListed, JoeysExtra) /\ scores[Joey] # Null
  BY <1>4, JoeyPredicts DEF JoeysRows
<1>6. scores'[Joey] = [scores[Joey] EXCEPT !.group = @ + 45]
  <2>1. \A extra :
          /\ groupPicks[Joey] = RowsOf(AsListed, extra)
          /\ \A i \in 1 .. 4 : BestFirst(CountriesOf(l))[i] = Groups[l][i]
          => scores'[Joey] = [scores[Joey] EXCEPT !.group = @ + 45]
    BY <1>1, <1>2, JoeyIsUser, RankGroupPays
  <2> QED
    BY <1>3, <1>5, <2>1, Zenon
<1>7. ASSUME NEW b, IsBonus(b)
      PROVE  scores'[Joey] = [group |-> GroupWorth(b)', knockout |-> KnockoutWorth(b)']
  <2>1. GroupWorth(b)' = GroupWorth(b) + 45
    BY <1>1, <1>7, RankingsGrow DEF IsBonus
  <2>2. KnockoutWorth(b)' = KnockoutWorth(b)
    BY <1>1, WorthStays
  <2>3. scores[Joey] = [group |-> GroupWorth(b), knockout |-> KnockoutWorth(b)]
    BY <1>5, <1>7 DEF JoeysPoints
  <2> QED
    BY <1>6, <2>1, <2>2, <2>3
<1>8. JoeysPoints'
  <2>1. ASSUME NEW b PROVE IsBonus(b)' <=> IsBonus(b)
    BY <1>1 DEF IsBonus
  <2> QED
    BY <1>7, <2>1 DEF JoeysPoints
<1> QED
  BY <1>1, <1>4, <1>8, JoeysPicksStay
\* His predictions of the thirds that go through are right for the perfect contest and
\* wrong for the other one.
LEMMA JoeysThird ==
  ASSUME NEW l \in Letters, NEW i \in 1 .. 12, i <= 8 <=> l \in Wildcards
  PROVE  (\E p \in JoeysRows : p.letter = l /\ p.extra = (i <= 8)) <=> kind = "perfect"
<1>1. \A k \in Letters, j \in 1 .. 4 :
        /\ RowAt(AsListed, JoeysExtra, k, j).letter = k
        /\ RowAt(AsListed, JoeysExtra, k, j).extra = JoeysExtra[k]
  BY DEF RowAt
<1>2. \A p \in JoeysRows : p.letter = l => p.extra = JoeysExtra[l]
  BY <1>1 DEF JoeysRows, RowsOf
<1>3. \E p \in JoeysRows : p.letter = l /\ p.extra = JoeysExtra[l]
  <2>1. RowAt(AsListed, JoeysExtra, l, 1) \in JoeysRows
    BY DEF JoeysRows, RowsOf
  <2> QED
    BY <1>1, <2>1
<1>4. JoeysExtra[l] = ((l \in Wildcards) = (kind = "perfect"))
  BY DEF JoeysExtra
<1>5. JoeysExtra[l] = (i <= 8) <=> kind = "perfect"
  BY <1>4
<1> HIDE DEF JoeysRows, JoeysExtra
<1> QED
  BY <1>2, <1>3, <1>5

LEMMA JoeyAtThird ==
  ASSUME Running, Enlisted, AsPredicted, JoeysPicks, JoeysPoints, QualifyThird
  PROVE  JoeysPicks' /\ JoeysPoints'
<1>1. PICK i \in 1 .. 12 :
        LET l == Thirds[i].letter
        IN  /\ stage = "qualifiers" /\ Unranked = {} /\ UnplayedGroupMatches = {}
            /\ l \in Letters /\ Letter[ThirdOrder[i]] = l
            /\ FinalizeQualifier(l, i <= 8)
            /\ l \notin SettledLetters /\ SettledLetters' = SettledLetters \cup {l}
            /\ RankedLetters' = RankedLetters
            /\ UNCHANGED <<kind, stage, matches, groupPicks, knockoutPicks>>
  BY QualifyTurn
<1> DEFINE l == Thirds[i].letter
<1>2. /\ stage = "qualifiers" /\ Unranked = {} /\ UnplayedGroupMatches = {}
      /\ l \in Letters /\ Letter[ThirdOrder[i]] = l
      /\ FinalizeQualifier(l, i <= 8)
      /\ l \notin SettledLetters /\ SettledLetters' = SettledLetters \cup {l}
      /\ RankedLetters' = RankedLetters
      /\ UNCHANGED <<kind, stage, matches, groupPicks, knockoutPicks>>
  BY <1>1
<1> HIDE DEF l
<1>3. Rows /\ GroupRows /\ Ranked
  BY DEF Running, Tables
<1>4. i <= 8 <=> l \in Wildcards
  <2>1. \A m \in GroupMatches : Completed(matches[m])
    BY <1>2, <1>3 DEF GroupRows
  <2>2. \A k \in Letters : TableAsListed(k)
    BY DEF AsPredicted
  <2>3. i <= 8 <=> Letter[ThirdOrder[i]] \in Wildcards
    BY <1>2, <1>3, <2>1, <2>2, ThirdsAsListed
  <2> QED
    BY <1>2, <2>3, Zenon
<1>5. ~StillToPredict /\ ~BracketDue /\ ~BracketDue'
  BY <1>2 DEF StillToPredict, BracketDue
<1>6. groupPicks[Joey] = JoeysRows /\ scores[Joey] # Null
  BY <1>5, JoeyPredicts
<1>7. scores'[Joey] = IF kind = "perfect" THEN [scores[Joey] EXCEPT !.group = @ + 5]
                      ELSE scores[Joey]
  <2>1. scores'[Joey] = IF \E p \in groupPicks[Joey] : p.letter = l /\ p.extra = (i <= 8)
                        THEN [scores[Joey] EXCEPT !.group = @ + 5] ELSE scores[Joey]
    BY <1>2, JoeyIsUser, QualifierPays
  <2>2. (\E p \in groupPicks[Joey] : p.letter = l /\ p.extra = (i <= 8)) <=> kind = "perfect"
    BY <1>2, <1>4, <1>6, JoeysThird
  <2> QED
    BY <2>1, <2>2
<1>8. ASSUME NEW b, IsBonus(b)
      PROVE  scores'[Joey] = [group |-> GroupWorth(b)', knockout |-> KnockoutWorth(b)']
  <2>1. GroupWorth(b)' = GroupWorth(b) + b
    BY <1>2, <1>8, QualifiersGrow DEF IsBonus
  <2>2. KnockoutWorth(b)' = KnockoutWorth(b)
    BY <1>2, WorthStays
  <2>3. scores[Joey] = [group |-> GroupWorth(b), knockout |-> KnockoutWorth(b)]
    BY <1>6, <1>8 DEF JoeysPoints
  <2>4. GroupWorth(b) \in Nat
    BY SMTT(30), <1>8, WorthBounds DEF IsBonus
  <2>5. IF kind = "perfect" THEN b = 5 ELSE b = 0
    BY <1>8 DEF IsBonus
  <2> QED
    BY <1>7, <2>1, <2>2, <2>3, <2>4, <2>5
<1>9. JoeysPoints'
  <2>1. ASSUME NEW b PROVE IsBonus(b)' <=> IsBonus(b)
    BY <1>2 DEF IsBonus
  <2> QED
    BY <1>8, <2>1 DEF JoeysPoints
<1> QED
  BY <1>2, <1>5, <1>9, JoeysPicksStay

\* He predicts the winner of every match; the third place only in the perfect contest.
LEMMA JoeyAtResult ==
  ASSUME Running, Enlisted, AsPredicted, Deterministic, JoeysPicks, JoeysPoints, PlayKnockout
  PROVE  JoeysPicks' /\ JoeysPoints'
<1>1. PICK r \in 1 .. 5, m \in Bracket : \E new : Resulting(r, m, new)
  BY ResultTurn
<1>2. PICK new : Resulting(r, m, new)
  BY <1>1
<1> DEFINE a == AchievedRound(m[1], m[2])
<1>3. /\ Book!HasCountries(matches[m]) /\ ~Completed(matches[m]) /\ Completed(matches'[m])
      /\ \A n \in Bracket : n # m => (Completed(matches'[n]) <=> Completed(matches[n]))
      /\ scores'[Joey] = IF <<matches[m].c1, a>> \in knockoutPicks[Joey]
                         THEN [scores[Joey] EXCEPT !.knockout = @ + AwardPoints(a)]
                         ELSE scores[Joey]
      /\ UNCHANGED <<kind, stage, finals, groupPicks, knockoutPicks>>
  BY <1>2, JoeyIsUser DEF Book!HasCountries, Resulting
<1>4. stage \in {"round1", "round2", "round3", "round4", "round5"}
  BY KnockoutKeepsFirstRound
<1>5. ~StillToPredict /\ BracketDue
  BY <1>4 DEF StillToPredict, BracketDue
<1>6. scores[Joey] # Null
  BY <1>5, JoeyPredicts
<1>7. FirstPlaces
  <2>1. Unranked = {} /\ Unsettled = {} /\ Unpaired = {}
    <3>1. kind # "future"
      BY DEF Deterministic
    <3> QED
      BY <1>4, <3>1 DEF Unranked, Unsettled, Unpaired, Waiting
  <2> QED
    BY <2>1, PairedAreDifferent DEF Running, Tables
<1>8. PICK i : IsLast(i)
  <2>1. IsLast(IF kind = "perfect" THEN 0 ELSE 1)
    BY DEF IsLast
  <2> QED
    BY <2>1
<1>9. knockoutPicks[Joey] = JoeysBracket
  BY <1>5, <1>8, JoeysBracketOf DEF JoeysPicks
<1>10. <<matches[m].c1, a>> \in knockoutPicks[Joey] <=> a # 7 \/ kind = "perfect"
  BY <1>3, <1>7, <1>9, JoeyHits DEF Running, AsPredicted
<1>11. /\ a \in 2 .. 7 /\ AwardPoints(a) \in Nat /\ AwardWorth(5, a) = AwardPoints(a)
       /\ AwardWorth(0, a) = IF a = 7 THEN 0 ELSE AwardPoints(a)
  BY AwardsOfRounds
<1>12. \A b \in {0, 5} : KnockoutWorth(b)' = KnockoutWorth(b) + AwardWorth(b, a)
  BY <1>3, KnockoutWorthGrows
<1> HIDE DEF a
<1>13. ASSUME NEW b, IsBonus(b)
       PROVE  scores'[Joey] = [group |-> GroupWorth(b)', knockout |-> KnockoutWorth(b)']
  <2>1. GroupWorth(b)' = GroupWorth(b)
    BY <1>3, WorthStays
  <2>2. scores[Joey] = [group |-> GroupWorth(b), knockout |-> KnockoutWorth(b)]
    BY <1>6, <1>13 DEF JoeysPoints
  <2>3. KnockoutWorth(b) \in Nat
    BY SMTT(30), <1>13, WorthBounds DEF IsBonus
  <2>4. KnockoutWorth(b)' = KnockoutWorth(b) + IF a # 7 \/ kind = "perfect" THEN AwardPoints(a) ELSE 0
    BY <1>11, <1>12, <1>13 DEF IsBonus
  <2> QED
    BY <1>3, <1>10, <1>11, <2>1, <2>2, <2>3, <2>4
<1>14. JoeysPoints'
  <2>1. ASSUME NEW b PROVE IsBonus(b)' <=> IsBonus(b)
    BY <1>3 DEF IsBonus
  <2> QED
    BY <1>13, <2>1 DEF JoeysPoints
<1>15. /\ ~StillToPredict' /\ BracketDue'
       /\ \A j \in 0 .. 15 : /\ matches'[<<1, j>>].c1 = matches[<<1, j>>].c1
                             /\ matches'[<<1, j>>].c2 = matches[<<1, j>>].c2
  BY <1>3, <1>4, KnockoutKeepsFirstRound DEF StillToPredict, BracketDue
<1> QED
  BY <1>3, <1>5, <1>14, <1>15, JoeysPicksStay
\* Nothing is decided while the users predict the groups: all is worth nothing.
LEMMA NothingWorth ==
  ASSUME Rows, \A c \in Countries : finals[c].rank = Null /\ finals[c].qualifier = Null,
         \A m \in Bracket : ~Completed(matches[m]), NEW b \in {0, 5}
  PROVE  GroupWorth(b) = 0 /\ KnockoutWorth(b) = 0
<1>1. RankedLetters = {}
  BY FirstListed DEF RankedLetters
<1>2. SettledLetters = {}
  <2>1. \A k \in Letters : CountriesOf(k) \subseteq Countries
    BY CountriesByLetter
  <2> QED
    BY <2>1 DEF SettledLetters
<1>3. \A a \in 2 .. 7 : Awarded(a) = {}
  BY DEF Awarded, Awarding
<1>4. Cardinality({}) = 0
  BY FS_EmptySet
<1>5. GroupWorth(b) = 0
  BY <1>1, <1>2, <1>4 DEF GroupWorth
<1>6. KnockoutWorth(b) = 0
  <2>1. \A a \in 2 .. 7 : Cardinality(Awarded(a)) = 0
    BY <1>3, <1>4
  <2>2. b * 0 = 0
    OBVIOUS
  <2> QED
    BY <2>1, <2>2 DEF KnockoutWorth
<1> QED
  BY <1>5, <1>6

LEMMA NothingDecided ==
  ASSUME Running, stage = "groupPicks"
  PROVE  /\ \A c \in Countries : finals[c].rank = Null /\ finals[c].qualifier = Null
         /\ \A m \in Bracket : ~Completed(matches[m])
<1>1. Unranked = Letters /\ Unsettled = Letters /\ UnplayedKnockout = Bracket
  <2>1. Unranked = Letters /\ Unsettled = Letters
    BY DEF Unranked, Unsettled, Waiting
  <2>2. UnplayedKnockout = Bracket
    BY OutsideRounds DEF UnplayedKnockout
  <2> QED
    BY <2>1, <2>2
<1>2. Ranked /\ Settled /\ KnockoutRows
  BY DEF Running, Tables
<1>3. \A c \in Countries : Letter[c] \in Letters /\ c \in CountriesOf(Letter[c])
  <2>1. \A c \in Countries : Letter[c] \in Letters
    BY GroupsOfContest, Zenon
  <2> QED
    BY <2>1, CountriesByLetter
<1>4. \A c \in Countries : finals[c].rank = Null
  BY <1>1, <1>2, <1>3 DEF Ranked
<1>5. \A c \in Countries : finals[c].qualifier = Null
  BY <1>1, <1>2, <1>3 DEF Settled
<1>6. \A m \in Bracket : ~Completed(matches[m])
  BY <1>1, <1>2 DEF KnockoutRows, Completed
<1> QED
  BY <1>4, <1>5, <1>6
LEMMA FirstOrLater ==
  ASSUME NEW S, NEW s \in Seq(S), s # <<>>
  PROVE  \A x \in ToSet(s) : x = Head(s) \/ x \in ToSet(Tail(s))
<1> SUFFICES ASSUME NEW i \in 1 .. Len(s)
             PROVE  s[i] = Head(s) \/ s[i] \in ToSet(Tail(s))
  BY DEF ToSet
<1>1. CASE i = 1
  BY <1>1
<1>2. CASE i # 1
  <2>1. i - 1 \in DOMAIN Tail(s) /\ Tail(s)[i - 1] = s[i]
    BY <1>2, HeadTailProperties
  <2> QED
    BY <2>1 DEF ToSet
<1> QED
  BY <1>1, <1>2

LEMMA JoeyAtGroupPicks ==
  ASSUME Running, Enlisted, Worthy, Deterministic, JoeysPicks, JoeysPoints, SeedGroupPicks
  PROVE  JoeysPicks' /\ JoeysPoints'
<1> DEFINE u == Head(todo)
<1>1. /\ u \in Users /\ stage = "groupPicks" /\ todo \in Seq(Users) /\ todo # <<>>
      /\ todo' = Tail(todo) /\ ListUser(u)
      /\ UNCHANGED <<kind, stage, matches, finals, knockoutPicks>>
      /\ \E rows : /\ groupPicks' = [groupPicks EXCEPT ![u] = rows]
                   /\ Deterministic /\ u = Joey => rows = JoeysRows
  BY GroupPicksTurn
<1>2. PICK rows : /\ groupPicks' = [groupPicks EXCEPT ![u] = rows]
                  /\ u = Joey => rows = JoeysRows
  BY <1>1
<1>3. \A x \in ToSet(todo) : x = u \/ x \in ToSet(todo')
  BY <1>1, FirstOrLater
<1> HIDE DEF u
<1>4. groupPicks'[Joey] = IF u = Joey THEN rows ELSE groupPicks[Joey]
  BY <1>1, <1>2, JoeyIsUser DEF Enlisted
<1>5. ~BracketDue'
  BY <1>1 DEF BracketDue
<1>6. ~StillToPredict' => groupPicks'[Joey] = JoeysRows
  <2>1. CASE u = Joey
    BY <1>2, <1>4, <2>1
  <2>2. CASE u # Joey
    <3>1. StillToPredict => StillToPredict'
      BY <1>1, <1>3, <2>2 DEF StillToPredict
    <3> QED
      BY <1>4, <2>2, <3>1 DEF JoeysPicks
  <2> QED
    BY <2>1, <2>2
<1>7. JoeysPicks'
  BY <1>1, <1>5, <1>6, JoeysRowsStay DEF JoeysPicks
<1>8. ASSUME NEW b, IsBonus(b)
      PROVE  GroupWorth(b)' = GroupWorth(b) /\ KnockoutWorth(b)' = KnockoutWorth(b)
  BY <1>1, WorthStays
<1>9. ASSUME NEW b, IsBonus(b)
      PROVE  GroupWorth(b) = 0 /\ KnockoutWorth(b) = 0
  BY <1>1, <1>9, NothingDecided, NothingWorth DEF Running, Tables, IsBonus
<1>10. ASSUME NEW b PROVE IsBonus(b)' <=> IsBonus(b)
  BY <1>1 DEF IsBonus
<1>11. JoeysPoints'
  <2>1. /\ \A v \in Users \ {u} : scores'[v] = scores[v]
        /\ scores'[u] = IF scores[u] = Null THEN NoPoints ELSE scores[u]
    BY <1>1, ListingKeeps
  <2>2. scores'[Joey] = NoPoints \/ scores'[Joey] = scores[Joey]
    BY <2>1, JoeyIsUser
  <2> QED
    BY <1>8, <1>9, <1>10, <2>2 DEF JoeysPoints, NoPoints
<1> QED
  BY <1>7, <1>11

LEMMA JoeyAtKnockoutPicks ==
  ASSUME Running, Enlisted, Worthy, Deterministic, JoeysPicks, JoeysPoints, SeedKnockoutPicks
  PROVE  JoeysPicks' /\ JoeysPoints'
<1> DEFINE u == Head(todo)
           B == IF Deterministic /\ u = Joey THEN JoeysBracket ELSE RandomBracket
<1>1. /\ u \in Users /\ stage = "knockoutPicks" /\ todo \in Seq(Users) /\ todo # <<>>
      /\ todo' = Tail(todo) /\ ListUser(u)
      /\ UNCHANGED <<kind, stage, matches, finals, groupPicks>>
      /\ knockoutPicks' = [knockoutPicks EXCEPT ![u] = B]
  BY KnockoutPicksTurn
<1>2. \A x \in ToSet(todo) : x = u \/ x \in ToSet(todo')
  BY <1>1, FirstOrLater
<1>3. u = Joey => B = JoeysBracket
  OBVIOUS
<1> HIDE DEF u, B
<1>4. knockoutPicks'[Joey] = IF u = Joey THEN B ELSE knockoutPicks[Joey]
  BY <1>1, JoeyIsUser DEF Enlisted
<1>5. ~StillToPredict /\ ~StillToPredict'
  BY <1>1 DEF StillToPredict
<1>6. ASSUME NEW i
      PROVE  /\ IsLast(i)' <=> IsLast(i)
             /\ BracketOf(Firsts, i)' = BracketOf(Firsts, i)
  <2>1. BracketOf(Firsts, i)' = BracketOf(Firsts, i)
    BY <1>1, BracketsStay
  <2> QED
    BY <1>1, <2>1 DEF IsLast
<1>7. BracketDue' => \A i : IsLast(i) => knockoutPicks'[Joey] = BracketOf(Firsts, i)
  <2>1. CASE u = Joey
    BY <1>3, <1>4, <2>1, JoeysBracketOf
  <2>2. CASE u # Joey
    <3>1. BracketDue' => BracketDue
      BY <1>1, <1>2, <2>2 DEF BracketDue
    <3> QED
      BY <1>4, <2>2, <3>1 DEF JoeysPicks
  <2> QED
    BY <2>1, <2>2
<1>8. groupPicks'[Joey] = JoeysRows'
  BY <1>1, <1>5, JoeysRowsStay DEF JoeysPicks
<1>9. JoeysPicks'
  BY <1>6, <1>7, <1>8 DEF JoeysPicks
<1>10. scores'[Joey] = scores[Joey]
  <2>1. /\ \A v \in Users \ {u} : scores'[v] = scores[v]
        /\ scores'[u] = IF scores[u] = Null THEN NoPoints ELSE scores[u]
    BY <1>1, ListingKeeps
  <2>2. scores[Joey] # Null
    BY <1>5, JoeyPredicts
  <2> QED
    BY <2>1, <2>2, JoeyIsUser
<1>11. JoeysPoints'
  BY <1>1, <1>10, JoeysPointsStay
<1> QED
  BY <1>9, <1>11

LEMMA JoeyAtNextLoop ==
  ASSUME Running, Running', Deterministic, JoeysPicks, JoeysPoints, NextLoop
  PROVE  JoeysPicks' /\ JoeysPoints'
<1>1. UNCHANGED contestVars
  BY NextLoopKeeps
<1>2. todo = <<>> /\ UNCHANGED kind
  BY DEF NextLoop, Enter, Fail
<1>3. JoeysPoints'
  BY <1>1, <1>2, JoeysPointsStay DEF contestVars
<1>4. Joey \notin ToSet(todo)
  BY <1>2 DEF ToSet
<1>5. Rounds[1] = "round1" /\ Rounds[2] = "round2" /\ Rounds[3] = "round3" /\ Rounds[4] = "round4"
      /\ Rounds[5] = "round5"
  BY DEF Rounds
<1>6. stage' # "failed"
  BY DEF Running, Course
<1>7. ~StillToPredict
  BY <1>4 DEF StillToPredict, NextLoop, Rounds
<1>8. BracketDue' => BracketDue
  <2>1. kind \notin {"future", "in-progress"}
    BY DEF Deterministic
  <2>2. stage' = "knockoutPicks" => Joey \in ToSet(todo')
    BY <1>6, JoeyIsUser DEF NextLoop, Enter, Fail, Rounds
  <2>3. stage' \in {"round1", "round2", "round3", "round4", "round5", "report"}
        => stage \in {"knockoutPicks", "round1", "round2", "round3", "round4", "round5"}
    BY <2>1 DEF NextLoop, Enter, Fail, Rounds
  <2> QED
    BY <1>4, <2>2, <2>3 DEF BracketDue
<1> QED
  BY <1>1, <1>2, <1>3, <1>7, <1>8, JoeysPicksStay DEF contestVars
\* The tables of a new run.
LEMMA FreshIsPredicted ==
  ASSUME FreshTables'
  PROVE  AsPredicted'
<1>1. \A n \in AllMatches : matches'[n] = Book!Unplayed(n)
  BY DEF FreshTables
<1>2. \A n \in AllMatches : ~Completed(matches'[n])
  BY <1>1, UnplayedRow DEF Completed
<1>3. ASSUME NEW l \in Letters PROVE TableAsListed(l)'
  <2>1. ASSUME NEW i \in 1 .. 4, NEW j \in 1 .. 4, i < j PROVE Won(l, i, j)' = 0
    <3>1. Meeting(l, i, j) \in AllMatches
      BY <2>1, MeetingsOfContest DEF AllMatches
    <3> QED
      BY <1>2, <3>1 DEF Won, One
  <2>2. \A i \in 1 .. 4 : standings'[Groups[l][i]] = ZeroStanding
    BY MembersOfGroup DEF FreshTables
  <2>3. ZeroStanding.points = 0 /\ ZeroStanding.gf = 0 /\ ZeroStanding.ga = 0 /\ ZeroStanding.gd = 0
    BY DEF ZeroStanding
  <2> QED
    BY <2>1, <2>2, <2>3 DEF TableAsListed, Listing
<1>4. \A n \in Bracket, slot \in {0, 1} : n[1] > 1 => Book!InSlot(matches'[n], slot) = Null
  <2>1. \A n \in Bracket : n \in AllMatches /\ n \notin GroupMatches
    BY BracketMatch, GroupMatch
  <2>2. \A n \in Bracket : matches'[n].c1 = Null /\ matches'[n].c2 = Null
    BY <1>1, <2>1, UnplayedRow
  <2> QED
    BY <2>2 DEF Book!InSlot
<1> QED
  BY <1>3, <1>4, EmptySlotsGoOn DEF AsPredicted

\* In a deterministic contest Joey predicts what happens, and has what it is worth.
JoeyInv ==
  Active /\ Deterministic => AsPredicted /\ JoeysPicks /\ JoeysPoints

LEMMA RunningKeepsJoey ==
  ASSUME Running, Running', Enlisted, Worthy, SeedStep, Deterministic, AsPredicted,
         JoeysPicks, JoeysPoints
  PROVE  JoeysPicks' /\ JoeysPoints'
<1>1. stage # "start" /\ stage' # "start"
  BY DEF Running, Course
<1>2. ~Truncate /\ ~Rerun
  BY <1>1 DEF Truncate, Rerun
<1>3. ~SeedSubcontest
  BY DEF SeedSubcontest, Running, Course, Deterministic
<1>4. CASE CreateUsers
  <2>1. /\ UNCHANGED <<matches, finals, scores, kind>>
        /\ stage' = "groupPicks" /\ todo' = AllUsers
    <3>1. stage' # "failed"
      BY DEF Running, Course
    <3> QED
      BY <1>4, <3>1 DEF CreateUsers, CreateContest, Fail, Deterministic
  <2>2. JoeysPoints'
    BY <2>1, JoeysPointsStay
  <2>3. StillToPredict' /\ ~BracketDue'
    BY <2>1, JoeyIsUser DEF StillToPredict, BracketDue
  <2> QED
    BY <2>2, <2>3 DEF JoeysPicks
<1>5. CASE SeedDone
  <2>1. UNCHANGED <<matches, finals, scores, kind, stage, todo, groupPicks, knockoutPicks>>
    BY <1>5 DEF SeedDone, contestVars, seedVars
  <2>2. JoeysPoints'
    BY <2>1, JoeysPointsStay
  <2>3. (StillToPredict' <=> StillToPredict) /\ (BracketDue' <=> BracketDue)
    BY <2>1 DEF StillToPredict, BracketDue
  <2> QED
    BY <2>1, <2>2, <2>3, JoeysPicksStay
<1> QED
  BY <1>2, <1>3, <1>4, <1>5, JoeyAtNextLoop, JoeyAtGroupPicks, JoeyAtGroupMatch, JoeyAtRanking,
     JoeyAtThird, JoeyAtPair, JoeyAtKnockoutPicks, JoeyAtResult
  DEF SeedStep

LEMMA SeedKeepsJoey ==
  ASSUME SeedInv, SeedInv', PointsInv, JoeyInv, SeedStep
  PROVE  JoeyInv'
<1>1. CASE stage = "start"
  <2>1. Truncate
    BY <1>1, OnlyTruncateStarts
  <2>2. FreshTables' /\ stage' = "users" /\ scores' = [u \in Users |-> Null]
    BY <2>1 DEF Truncate, TruncateTables, FreshTables
  <2>3. AsPredicted'
    BY <2>2, FreshIsPredicted
  <2>4. JoeysPoints'
    BY <2>2, JoeyIsUser DEF JoeysPoints
  <2>5. JoeysPicks'
    BY <2>2 DEF JoeysPicks, StillToPredict, BracketDue
  <2> QED
    BY <2>3, <2>4, <2>5 DEF JoeyInv
<1>2. CASE Active /\ Active' /\ Deterministic'
  <2>0. stage # "start" /\ stage' # "start"
    BY <1>2 DEF Active
  <2>1. Running /\ Running' /\ Enlisted /\ Worthy
    BY <1>2, <2>0 DEF SeedInv, Running, PointsInv
  <2>2. Deterministic
    <3>1. UNCHANGED kind
      <4>1. ~Truncate /\ ~Rerun
        BY <2>0 DEF Truncate, Rerun
      <4> QED
        BY <4>1
        DEF SeedStep, CreateUsers, NextLoop, SeedGroupPicks, PlayGroupMatch, RankGroup,
            QualifyThird, PairUp, SeedKnockoutPicks, PlayKnockout, SeedSubcontest, SeedDone,
            Turn, Enter, Fail, seedVars
    <3> QED
      BY SMTT(30), <1>2, <3>1 DEF Deterministic
  <2>3. AsPredicted /\ JoeysPicks /\ JoeysPoints
    BY <1>2, <2>2 DEF JoeyInv
  <2>4. AsPredicted'
    BY <2>0, <2>1, <2>2, <2>3, SeedKeepsPredicted
  <2>5. JoeysPicks' /\ JoeysPoints'
    BY <2>1, <2>2, <2>3, RunningKeepsJoey
  <2> QED
    BY <2>4, <2>5 DEF JoeyInv
<1>3. CASE ~Active' \/ ~Deterministic'
  BY <1>3 DEF JoeyInv
<1>4. CASE stage = "failed"
  BY <1>4, OnlyRerunAfterFailure DEF Rerun, JoeyInv, Active
<1> QED
  BY <1>1, <1>2, <1>3, <1>4 DEF Active

LEMMA NextJoeyInv ==
  SeedInv /\ SeedInv' /\ PointsInv /\ JoeyInv /\ [Next]_vars => JoeyInv'
<1> SUFFICES ASSUME SeedInv, SeedInv', PointsInv, JoeyInv, [Next]_vars
             PROVE  JoeyInv'
  OBVIOUS
<1>1. CASE step = 0 /\ SeedStep /\ UNCHANGED scriptVars
  BY <1>1, SeedKeepsJoey
<1>2. CASE stage = "start" /\ UNCHANGED seedVars
  BY <1>2 DEF JoeyInv, Active, seedVars
<1>3. CASE Active /\ UNCHANGED <<contestVars, seedVars>>
  <2>1. UNCHANGED <<matches, standings, finals, scores, kind, stage, todo, groupPicks,
                    knockoutPicks>>
    BY <1>3 DEF contestVars, seedVars
  <2> SUFFICES ASSUME Deterministic
               PROVE  AsPredicted' /\ JoeysPicks' /\ JoeysPoints'
    BY <2>1 DEF JoeyInv, Active, Deterministic
  <2>2. AsPredicted /\ JoeysPicks /\ JoeysPoints
    BY <1>3 DEF JoeyInv
  <2>3. AsPredicted' /\ JoeysPoints'
    BY <2>1, <2>2, PredictedStays, JoeysPointsStay
  <2>4. (StillToPredict' <=> StillToPredict) /\ (BracketDue' <=> BracketDue)
    BY <2>1 DEF StillToPredict, BracketDue
  <2> QED
    BY <2>1, <2>2, <2>3, <2>4, JoeysPicksStay
<1>4. CASE ScriptDone /\ UNCHANGED seedVars
  BY <1>2, <1>4 DEF SeedInv, ScriptDone
<1>5. CASE StopScript
  BY <1>2, <1>5 DEF SeedInv, StopScript
<1>6. CASE UNCHANGED vars
  <2>1. CASE ~Active
    BY <1>6, <2>1 DEF JoeyInv, Active, vars, seedVars
  <2> QED
    BY <1>3, <1>6, <2>1 DEF vars
<1> QED
  BY <1>1, <1>2, <1>4, <1>5, <1>6 DEF Next

LEMMA EveryThird ==
  ASSUME Rows, Ranked, Unranked = {}, NEW l \in Letters
  PROVE  \E i \in 1 .. 12 : ThirdOrder[i] \in Countries /\ Letter[ThirdOrder[i]] = l
<1>1. PICK c \in RankedThird : Letter[c] = l
  BY TwelveThirds
<1>2. PICK i \in 1 .. 12 : ThirdOrder[i] = c
  BY ThirdsOrders
<1> QED
  BY <1>1, <1>2 DEF RankedThird

LEMMA PointsAtTheEnd ==
  ASSUME SeedInv, PointsInv, JoeyInv, stage = "report", Deterministic
  PROVE  scores[Joey] = IF kind = "perfect" THEN [group |-> 600, knockout |-> 600]
                        ELSE [group |-> 540, knockout |-> 595]
<1>1. /\ Running /\ Enlisted /\ Worthy /\ JoeysPicks /\ JoeysPoints
      /\ kind \notin {"future", "in-progress"}
  BY DEF SeedInv, Active, Running, PointsInv, JoeyInv, Deterministic
<1>2. scores[Joey] # Null
  <2>1. ~StillToPredict
    BY DEF StillToPredict
  <2> QED
    BY <1>1, <2>1, JoeyPredicts
<1>3. UnplayedKnockout = {} /\ Unranked = {} /\ Unsettled = {}
  BY <1>1 DEF UnplayedKnockout, Unranked, Unsettled, Waiting
<1>4. Rows /\ Ranked /\ Settled /\ KnockoutRows
  BY <1>1 DEF Running, Tables
<1>5. \A m \in Bracket : Completed(matches[m])
  BY <1>3, <1>4 DEF KnockoutRows, Played
<1>6. RankedLetters = Letters
  <2>1. ASSUME NEW l \in Letters PROVE finals[Groups[l][1]].rank # Null
    <3>1. Groups[l][1] \in CountriesOf(l)
      BY MembersOfGroup, CountriesByLetter
    <3>2. ToSet(BestFirst(CountriesOf(l))) = CountriesOf(l) /\ DOMAIN BestFirst(CountriesOf(l)) = 1 .. 4
      BY <1>4, OrderOfGroup
    <3>3. PICK i \in 1 .. 4 : Groups[l][1] = BestFirst(CountriesOf(l))[i]
      BY <3>1, <3>2 DEF ToSet
    <3>4. finals[Groups[l][1]].rank = i
      BY <1>3, <1>4, <3>3 DEF Ranked
    <3> QED
      BY <3>4, ColumnAssumption
  <2> QED
    BY <2>1 DEF RankedLetters
<1>7. SettledLetters = Letters
  <2>1. ASSUME NEW l \in Letters PROVE \E c \in CountriesOf(l) : finals[c].qualifier # Null
    <3>1. PICK i \in 1 .. 12 : ThirdOrder[i] \in Countries /\ Letter[ThirdOrder[i]] = l
      BY <1>3, <1>4, EveryThird
    <3>2. finals[ThirdOrder[i]].qualifier = (i <= 8)
      BY <1>3, <1>4 DEF Settled, ThirdOrder
    <3>3. ThirdOrder[i] \in CountriesOf(l)
      BY <3>1, CountriesByLetter
    <3>4. (i <= 8) # Null
      <4>1. (i <= 8) \in BOOLEAN
        OBVIOUS
      <4> QED
        BY <4>1, ColumnAssumption, Zenon
    <3> QED
      BY <3>2, <3>3, <3>4
  <2> QED
    BY <2>1 DEF SettledLetters
<1>8. PICK b : IsBonus(b)
  <2>1. IsBonus(IF kind = "perfect" THEN 5 ELSE 0)
    BY DEF IsBonus
  <2> QED
    BY <2>1
<1>9. scores[Joey] = [group |-> GroupWorth(b), knockout |-> KnockoutWorth(b)]
  BY <1>1, <1>2, <1>8 DEF JoeysPoints
<1>10. GroupWorth(b) = 540 + 12 * b /\ KnockoutWorth(b) = 595 + b
  BY <1>5, <1>6, <1>7, <1>8, WorthAtTheEnd DEF IsBonus
<1> QED
  BY <1>8, <1>9, <1>10 DEF IsBonus

\* PerfectPredictions: the seed program's perfect predictions end with the 1200 points that
\* scoring.md promises, the almost perfect ones with 1135, and nobody exceeds 600 for a stage.
THEOREM PerfectScores == Spec => []PerfectPredictions
<1>1. Init => PointsInv /\ JoeyInv
  BY DEF Init, Empty, SeedIdle, PointsInv, ScoresInRange, JoeyInv, Active
<1>2. Spec => []PointsInv
  BY <1>1, SeedInvariant, ScriptInvariant, NextPointsInv, PTL DEF Spec
<1>3. Spec => []JoeyInv
  BY <1>1, <1>2, SeedInvariant, NextJoeyInv, PTL DEF Spec
<1>4. SeedInv /\ PointsInv /\ JoeyInv /\ NobodyExceeds600 => PerfectPredictions
  BY PointsAtTheEnd DEF PerfectPredictions, Deterministic
<1> QED
  BY <1>2, <1>3, <1>4, SeedInvariant, PointsInvariant, PTL
=============================================================================
