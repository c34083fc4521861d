---------------------------- MODULE Leaderboards ----------------------------
(***************************************************************************)
(* LeaderboardRepository.Leaderboard and Subleaderboard over the saves,    *)
(* payments and deletions of Predictions, while subcontests are joined and *)
(* deleted.  A leaderboard is three SELECTs outside a transaction, each    *)
(* with joins of its own, so that each of its sections may show the scores *)
(* and the members at another time.                                        *)
(***************************************************************************)
EXTENDS Predictions

CONSTANTS
  BoardCalls,  \* each call is made at most once
  Leagues,     \* ids of the subcontests
  Owner,       \* subcontests.user_id
  Pages        \* [limit, offset] of the requests

ASSUME BoardAssumption ==
  /\ Null \notin BoardCalls \cup Leagues
  /\ Owner \in [Leagues -> Users]
  /\ Pages \subseteq [limit : Nat, offset : Nat]

VARIABLES
  leagues,  \* subcontests; the id of a deleted one never comes back
  entries,  \* subcontest_entries: <<league, user>>
  boards

leagueVars == <<leagues, entries>>
boardVars == <<accounts, now, picks, standings, saves, pays, leagues, entries, boards>>

Entry == [name : Users, score : Nat]

\* `league` is Null for the leaderboard of the contest.
Board ==
  [pc : {"idle", "group", "knockout", "overall", "answered"},
   league : Leagues \cup {Null}, page : Pages \cup {Null},
   group : Seq(Entry), knockout : Seq(Entry), overall : Seq(Entry)]

BoardTypeOK ==
  /\ TypeOK
  /\ leagues \subseteq Leagues /\ entries \subseteq Leagues \X Users
  /\ boards \in [BoardCalls -> Board]

\* The subcontests have been created with self_join.
BoardInit ==
  /\ PredictionInit
  /\ leagues = Leagues /\ entries = {<<l, Owner[l]>> : l \in Leagues}
  /\ boards = [b \in BoardCalls |->
       [pc |-> "idle", league |-> Null, page |-> Null,
        group |-> <<>>, knockout |-> <<>>, overall |-> <<>>]]

JoinLeague(league, u) ==
  /\ league \in leagues /\ u \in accounts
  /\ entries' = entries \cup {<<league, u>>}
  /\ UNCHANGED <<predictionVars, leagues, boards>>

Within(S, users) == {e \in entries : e[1] \in S /\ e[2] \in users}

\* ON DELETE CASCADE of subcontest_entries.
DeleteLeague(league) ==
  /\ league \in leagues
  /\ leagues' = leagues \ {league}
  /\ entries' = Within(leagues', accounts)
  /\ UNCHANGED <<predictionVars, boards>>

\* A step of Predictions; a deleted account takes its subcontests and entries along.
PredictionStep ==
  /\ PredictionNext
  /\ leagues' = {l \in leagues : Owner[l] \in accounts'}
  /\ entries' = Within(leagues', accounts')
  /\ UNCHANGED boards

\* GetSubcontestBySlug has found the subcontest.
BeginBoard(b) ==
  /\ boards[b].pc = "idle"
  /\ \E league \in leagues \cup {Null}, page \in Pages :
       boards' = [boards EXCEPT ![b].pc = "group", ![b].league = league,
                                ![b].page = page]
  /\ UNCHANGED <<predictionVars, leagueVars>>

\* Mutant: the overall score is the difference of the other two.
PointsSubtracted(u, section) ==
  LET score == standings[u].cur
  IN  IF score = Null THEN 0
      ELSE IF section = "overall" THEN score.group - score.knockout
      ELSE score[section]
Points(u, section) ==
  LET score == standings[u].cur
  IN  IF score = Null THEN 0
      ELSE IF section = "overall" THEN score.group + score.knockout
      ELSE score[section]

\* The contest lists who has a row in contest_standings, a subcontest its members of
\* that moment, and nobody when it has been deleted.
Listed(league) ==
  {u \in accounts : IF league = Null THEN standings[u].cur # Null
                    ELSE league \in leagues /\ <<league, u>> \in entries}

\* ORDER BY the score alone: equal scores come in any order, at every statement.
Rankings(league, section) ==
  {s \in SetToSeqs(Listed(league)) :
     \A i, j \in DOMAIN s : i < j => Points(s[i], section) >= Points(s[j], section)}

PageOf(s, page) ==
  SubSeq(s, page.offset + 1, Min({page.offset + page.limit, Len(s)}))

ReadSection(b, pc, section, next) ==
  /\ boards[b].pc = pc
  /\ LET board == boards[b]
     IN  \E s \in Rankings(board.league, section) :
           LET shown == PageOf(s, board.page)
           IN  boards' = [boards EXCEPT
                 ![b].pc = next,
                 ![b][section] =
                   [i \in DOMAIN shown |->
                      [name |-> shown[i], score |-> Points(shown[i], section)]]]
  /\ UNCHANGED <<predictionVars, leagueVars>>

\* Mutant: the overall section is read before the others.
OverallFirst(b) ==
  \/ ReadSection(b, "group", "overall", "knockout")
  \/ ReadSection(b, "knockout", "group", "overall")
  \/ ReadSection(b, "overall", "knockout", "answered")
ReadBoard(b) ==
  \/ ReadSection(b, "group", "group", "knockout")
  \/ ReadSection(b, "knockout", "knockout", "overall")
  \/ ReadSection(b, "overall", "overall", "answered")

AllAnswered ==
  /\ \A r \in SaveCalls : saves[r].pc = "answered"
  /\ \A p \in PayCalls : pays[p].pc = "answered"
  /\ \A b \in BoardCalls : boards[b].pc = "answered"
  /\ UNCHANGED boardVars

Next ==
  \/ PredictionStep
  \/ \E l \in Leagues, u \in Users : JoinLeague(l, u)
  \/ \E l \in Leagues : DeleteLeague(l)
  \/ \E b \in BoardCalls : BeginBoard(b) \/ ReadBoard(b)
  \/ AllAnswered

Fairness ==
  /\ \A r \in SaveCalls :
       WF_boardVars((Statement(r) \/ DeadlockAbort(r)) /\ UNCHANGED <<leagueVars, boards>>)
  /\ \A p \in PayCalls : WF_boardVars(PayUsers(p) /\ UNCHANGED <<leagueVars, boards>>)
  /\ \A b \in BoardCalls : WF_boardVars(ReadBoard(b))

Spec == BoardInit /\ [][Next]_boardVars
FairSpec == Spec /\ Fairness

----------------------------------------------------------------------------
Shows(b, section, u) == \E i \in DOMAIN boards[b][section] :
                          boards[b][section][i].name = u
Shown(b, section, u) ==
  (CHOOSE e \in ToSet(boards[b][section]) : e.name = u).score

\* The three sections are read at three times and yet agree: nobody's overall score
\* is below the sum of the other two, since the overall section is read last and
\* scores never fall; and on a page with room for all, whoever the first two show is
\* missing from the third only if the account or the subcontest has been deleted.
BoardsAddUp ==
  \A b \in BoardCalls, u \in Users :
    boards[b].pc = "answered" /\ Shows(b, "group", u) /\ Shows(b, "knockout", u) =>
      IF Shows(b, "overall", u)
      THEN Shown(b, "overall", u) >= Shown(b, "group", u) + Shown(b, "knockout", u)
      ELSE \/ u \notin accounts
           \/ boards[b].league \notin leagues \cup {Null}
           \/ boards[b].page.offset > 0
           \/ boards[b].page.limit < Cardinality(Users)
=============================================================================
