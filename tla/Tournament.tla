----------------------------- MODULE Tournament -----------------------------
(***************************************************************************)
(* One contest at its full size, one call at a time: predictions, results  *)
(* and finalizations over the rows they share.  Results are recorded as in *)
(* ResultBook; here their awards meet predictions that change, and the     *)
(* points of the groups, in one row of contest_standings.                  *)
(***************************************************************************)
EXTENDS ScoringRules, FiniteSets, Sequences, SequencesExt

CONSTANTS
  Users,
  Groups,     \* the groups by letter (1 is A): countries in the order of the request
  CodeOrder   \* all countries, ordered by code

VARIABLES
  created,        \* whether the contest exists; what follows are its rows
  matches, standings, reached,   \* as in ResultBook
  finals,         \* columns rank and is_third_place_qualifier by country
  groupPicks, knockoutPicks,     \* rows of a user
  scores          \* contest_standings by user; Null without a row

contestVars == <<created, matches, standings, reached, finals, groupPicks,
                 knockoutPicks, scores>>

Letters == DOMAIN Groups
Countries == ToSet(CodeOrder)

\* CreateContest makes 12 groups of 4; a country is in one of them, at one place.
ASSUME ContestAssumption ==
  /\ Groups \in [1 .. 12 -> [1 .. 4 -> Countries]]
  /\ \A l, k \in 1 .. 12, i, j \in 1 .. 4 :
       Groups[l][i] = Groups[k][j] => l = k /\ i = j
  /\ \A c \in Countries : \E l \in 1 .. 12, i \in 1 .. 4 : Groups[l][i] = c
  /\ CodeOrder \in Seq(Countries)
  /\ \A i, j \in DOMAIN CodeOrder : CodeOrder[i] = CodeOrder[j] => i = j

\* NULL is no value of a column, and a row that is missing no row.
ASSUME ColumnAssumption ==
  /\ Null \notin Int /\ Null \notin Countries /\ Null \notin Users /\ Null \notin BOOLEAN
  /\ Null \notin [group : Int, knockout : Int]

Letter == [c \in Countries |-> CHOOSE l \in Letters : c \in ToSet(Groups[l])]
CodeRank == [c \in Countries |-> CHOOSE i \in DOMAIN CodeOrder : CodeOrder[i] = c]

\* Ids of the matches: <<0, country1, country2>> and <<round, round_index>>.
GroupMatches ==
  UNION {{<<0, Groups[l][i], Groups[l][j]>> : j \in i + 1 .. 4} : l \in Letters, i \in 1 .. 4}
Bracket == UNION {{<<r, i>> : i \in 0 .. <<16, 8, 4, 2, 2>>[r] - 1} : r \in 1 .. 5}
AllMatches == GroupMatches \cup Bracket

RoundOf == [m \in AllMatches |-> m[1]]
IndexOf == [m \in AllMatches |-> IF m[1] = 0 THEN Null ELSE m[2]]
PairOf == [m \in AllMatches |-> IF m[1] = 0 THEN [c1 |-> m[2], c2 |-> m[3]]
                                ELSE [c1 |-> Null, c2 |-> Null]]

\* ResultBook without users: the awards are paid below.
Book == INSTANCE ResultBook WITH
  Users <- {}, Matches <- AllMatches, Round <- RoundOf, Index <- IndexOf,
  Fixtures <- PairOf, Picks <- {}, Payloads <- {}, knockoutScore <- <<>>

NoRow == [rank |-> Null, qualifier |-> Null]

\* The tables without the rows of a contest.
Empty ==
  /\ created = FALSE
  /\ matches = [m \in AllMatches |-> Book!Unplayed(m)]
  /\ standings = [c \in Countries |-> ZeroStanding]
  /\ reached = [c \in Countries |-> 0]
  /\ finals = [c \in Countries |-> NoRow]
  /\ groupPicks = [u \in Users |-> {}]
  /\ knockoutPicks = [u \in Users |-> {}]
  /\ scores = [u \in Users |-> Null]

TruncateTables ==
  /\ created' = FALSE
  /\ matches' = [m \in AllMatches |-> Book!Unplayed(m)]
  /\ standings' = [c \in Countries |-> ZeroStanding]
  /\ reached' = [c \in Countries |-> 0]
  /\ finals' = [c \in Countries |-> NoRow]
  /\ groupPicks' = [u \in Users |-> {}]
  /\ knockoutPicks' = [u \in Users |-> {}]
  /\ scores' = [u \in Users |-> Null]

----------------------------------------------------------------------------
(***************************************************************************)
(* Calls                                                                   *)
(***************************************************************************)
CreateContest ==
  /\ ~created
  /\ created' = TRUE
  /\ UNCHANGED <<matches, standings, reached, finals, groupPicks, knockoutPicks, scores>>

\* Every save lists the user in contest_standings.
ListUser(u) ==
  scores' = [scores EXCEPT ![u] = IF @ = Null THEN [group |-> 0, knockout |-> 0] ELSE @]

\* A pick is [letter, order, extra]; its group is replaced, the others stay.
SaveGroupPicks(u, submission) ==
  /\ groupPicks' = [groupPicks EXCEPT ![u] =
       {p \in @ : \A pick \in submission : p.letter # pick.letter} \cup
       UNION {{[letter |-> pick.letter, country |-> pick.order[i], place |-> i,
                extra |-> pick.extra] : i \in DOMAIN pick.order} : pick \in submission}]
  /\ ListUser(u)
  /\ UNCHANGED <<created, matches, standings, reached, finals, knockoutPicks>>

\* Pairs <<country, round>> replace the bracket the user had.
SaveKnockoutPicks(u, bracket) ==
  /\ knockoutPicks' = [knockoutPicks EXCEPT ![u] = bracket]
  /\ ListUser(u)
  /\ UNCHANGED <<created, matches, standings, reached, finals, groupPicks>>

Pay(section, points) ==
  scores' = [u \in Users |-> IF u \in DOMAIN points
                             THEN [scores[u] EXCEPT ![section] = @ + points[u]]
                             ELSE scores[u]]

AcceptsMatch(payload) == \E m \in AllMatches : Book!Accepted(m, payload)

RecordMatch(payload) ==
  \E m \in Book!Found(matches, payload) :
    LET new == Book!Merge(m, matches[m], payload)
        decided == RoundOf[m] > 0 /\ Completed(new) /\ HasWinner(new)
        hit == {u \in Users : <<Winner(new), Book!Achieved(m)>> \in knockoutPicks[u]}
    IN  /\ Book!Record(m, payload)
        /\ Pay("knockout",
               [u \in IF decided THEN hit ELSE {} |-> AwardPoints(Book!Achieved(m))])
        /\ UNCHANGED <<created, finals, groupPicks, knockoutPicks>>

CountriesOf(l) == ToSet(Groups[l])

AcceptsRankings(l) ==
  /\ \A m \in GroupMatches : Letter[m[2]] = l => Completed(matches[m])
  /\ \A c \in CountriesOf(l) : finals[c].rank = Null

\* `order` has every country of the group once.
FinalizeRankings(l, order) ==
  LET rank == [c \in ToSet(order) |-> CHOOSE i \in DOMAIN order : order[i] = c]
      picksOf(u) == {p \in groupPicks[u] : p.letter = l}
      points(u) == MapThenSumSet(
                     LAMBDA p : BasePoints(rank[p.country]) * Multiplier(p.place),
                     picksOf(u))
  IN  /\ AcceptsRankings(l)
      /\ finals' = [c \in Countries |->
           IF c \in ToSet(order) THEN [finals[c] EXCEPT !.rank = rank[c]] ELSE finals[c]]
      /\ Pay("group", [u \in {v \in Users : picksOf(v) # {}} |-> points(u)])
      /\ UNCHANGED <<created, matches, standings, reached, groupPicks, knockoutPicks>>

ThirdOf(l) == {c \in CountriesOf(l) : finals[c].rank = 3}
AcceptsQualifier(l) == \E c \in ThirdOf(l) : finals[c].qualifier = Null

FinalizeQualifier(l, advances) ==
  /\ AcceptsQualifier(l)
  /\ finals' = [c \in Countries |->
       IF c \in ThirdOf(l) THEN [finals[c] EXCEPT !.qualifier = advances] ELSE finals[c]]
  /\ Pay("group",
         [u \in {v \in Users : \E p \in groupPicks[v] :
                   p.letter = l /\ p.extra = advances} |-> QualifierBonus])
  /\ UNCHANGED <<created, matches, standings, reached, groupPicks, knockoutPicks>>

----------------------------------------------------------------------------
(***************************************************************************)
(* Queries                                                                 *)
(***************************************************************************)
ListGroupMatches(l) == {m \in GroupMatches : Letter[m[2]] = l}
ListKnockoutMatches == {m \in AllMatches : RoundOf[m] > 0}

\* ORDER BY points DESC, gd DESC, gf DESC, and by code where all are equal.
Ahead(key, c, d) ==
  \E i \in DOMAIN key[c] : /\ key[c][i] > key[d][i]
                           /\ \A j \in 1 .. i - 1 : key[c][j] = key[d][j]

\* The domain of key, the best first.
Sorted(key) ==
  [i \in 1 .. Cardinality(DOMAIN key) |->
     CHOOSE c \in DOMAIN key : Cardinality({d \in DOMAIN key : Ahead(key, d, c)}) = i - 1]

\* The results shown beside the predictions: the final order where there is one,
\* until then the order of the table, conduct scores included.
ShownOrder(l) ==
  Sorted([c \in CountriesOf(l) |->
            <<IF finals[c].rank = Null THEN -5 ELSE -finals[c].rank,
              standings[c].points, standings[c].gd, standings[c].gf,
              standings[c].cs, -CodeRank[c]>>])
=============================================================================
