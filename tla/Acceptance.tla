----------------------------- MODULE Acceptance -----------------------------
(***************************************************************************)
(* The acceptance program: it empties the tables and makes the calls of    *)
(* its scenarios through the handlers, ending at the first answer that is  *)
(* not the one its script expects.                                         *)
(***************************************************************************)
EXTENDS Tournament

CONSTANT Superadmins   \* whose address SUPERADMIN_EMAILS lists

Super == 0
NewUser == 3
People == 0 .. 3   \* superadmin, user1, user2, newuser
ASSUME AcceptanceAssumption == People \subseteq Users

\* The environment's addresses are none of those the script gives its other people: a
\* user with such an address could not be inserted, or need not register.
ASSUME EnvironmentAssumption == Superadmins \cap People = {Super}

VARIABLES
  step,      \* the call that is next; 0 before and after a run, -1 after log.Fatalf
  account,   \* id of a person's row in users
  token,     \* account the person's token was signed for
  leagues,   \* owner (an id) and members of a subcontest, by title
  left       \* group matches the loop has yet to complete

scriptVars == <<step, account, token, leagues, left>>
personVars == <<account, token, leagues, left>>

ScriptIdle ==
  /\ step = 0 /\ left = {} /\ leagues = <<>>
  /\ account = [p \in People |-> Null] /\ token = [p \in People |-> Null]

(***************************************************************************)
(* What the handlers accept                                                *)
(***************************************************************************)
Known(p) == token[p] # Null /\ token[p] = account[p]
LogsIn(p, named) == account[p] # Null \/ named
\* WithSuperadmin compares the email of the token.
CreatesContest(p) == token[p] # Null /\ p \in Superadmins /\ ~created
Predicts(p) == created /\ Known(p)
Opens(p, title) == created /\ Known(p) /\ title \notin DOMAIN leagues
ListSubcontests(p) == {t \in DOMAIN leagues : token[p] \in leagues[t].members}
Joins(p, title) ==
  Known(p) /\ title \in DOMAIN leagues /\ token[p] \notin leagues[title].members
Closes(p, title) == title \in DOMAIN leagues /\ leagues[title].owner = token[p]
Sees(p, title) ==
  title \in DOMAIN leagues /\ token[p] \in leagues[title].members \cup {leagues[title].owner}

Listed == {u \in Users : scores[u] # Null}

(***************************************************************************)
(* The script                                                              *)
(***************************************************************************)
Call(n, expected, Effect) ==
  /\ step = n
  /\ IF expected THEN Effect /\ step' = n + 1
     ELSE step' = -1 /\ UNCHANGED <<contestVars, personVars>>

\* A query, or a call that has to be refused.
Check(n, expected) == Call(n, expected, UNCHANGED <<contestVars, personVars>>)

\* cleanupDB, seedUATData and the tokens of the three users.
CleanUp ==
  /\ step = 0 /\ step' = 1
  /\ TruncateTables
  /\ account' = [p \in People |-> IF p = NewUser THEN Null ELSE p]
  /\ token' = account' /\ leagues' = <<>> /\ left' = {}

LoginScenario ==
  \/ Check(1, LogsIn(1, FALSE))
  \/ Check(2, ~LogsIn(NewUser, FALSE))
  \/ Call(3, LogsIn(NewUser, TRUE),
          /\ account' = [account EXCEPT ![NewUser] = NewUser]
          /\ UNCHANGED <<contestVars, token, leagues, left>>)

\* user2 is deleted and gets a new row, and a token for it.
UsersScenario ==
  \/ Call(4, Known(2), account' = [account EXCEPT ![2] = Null]
                       /\ UNCHANGED <<contestVars, token, leagues, left>>)
  \/ Call(5, TRUE, /\ account' = [account EXCEPT ![2] = NewUser + 1]
                   /\ token' = [token EXCEPT ![2] = NewUser + 1]
                   /\ UNCHANGED <<contestVars, leagues, left>>)

ContestScenario ==
  \/ Check(6, ~CreatesContest(1))
  \/ Call(7, CreatesContest(Super), CreateContest /\ UNCHANGED personVars)

PicksInOrder(order, extra) ==
  {[letter |-> l, order |-> [i \in 1 .. 4 |-> Groups[l][order[i]]], extra |-> extra] :
     l \in Letters}

PicksScenario ==
  \/ Call(8, Predicts(1), SaveGroupPicks(1, PicksInOrder(<<1, 2, 3, 4>>, TRUE))
                          /\ UNCHANGED personVars)
  \/ Check(9, groupPicks[1] # {})
  \/ Call(10, Predicts(2), SaveGroupPicks(2, PicksInOrder(<<1, 2, 4, 3>>, FALSE))
                           /\ UNCHANGED personVars)

\* CreateSubcontest with self_join.
Open(p, title) ==
  /\ leagues' = [t \in DOMAIN leagues \cup {title} |->
       IF t = title THEN [owner |-> token[p], members |-> {token[p]}] ELSE leagues[t]]
  /\ UNCHANGED <<contestVars, account, token, left>>

SubcontestScenario ==
  \/ Call(11, Opens(1, "private"), Open(1, "private"))
  \/ Check(12, ListSubcontests(1) # {})
  \/ \E t \in ListSubcontests(1) :
       Call(13, Joins(2, t), /\ leagues' = [leagues EXCEPT ![t].members = @ \cup {token[2]}]
                             /\ UNCHANGED <<contestVars, account, token, left>>)
  \/ Call(14, Opens(1, "deleted"), Open(1, "deleted"))
  \/ Check(15, ~Closes(2, "deleted"))
  \/ Call(16, Closes(1, "deleted"),
          /\ leagues' = [t \in DOMAIN leagues \ {"deleted"} |-> leagues[t]]
          /\ UNCHANGED <<contestVars, account, token, left>>)

Result(round, index, c1, c2, g1, g2) ==
  [round |-> round, index |-> index, c1 |-> c1, c2 |-> c2, g1 |-> g1, g2 |-> g2,
   p1 |-> Null, p2 |-> Null, cs1 |-> Null, cs2 |-> Null]

\* Every match of group A ends 1 to 0; none of them can end again.
MatchScenario ==
  \/ Call(17, TRUE, left' = ListGroupMatches(1)
                    /\ UNCHANGED <<contestVars, account, token, leagues>>)
  \/ \E m \in left :
       LET payload == Result(0, Null, m[2], m[3], 1, 0)
       IN  /\ step = 18
           /\ IF AcceptsMatch(payload)
              THEN RecordMatch(payload) /\ left' = left \ {m} /\ UNCHANGED step
              ELSE step' = -1 /\ UNCHANGED <<contestVars, left>>
           /\ UNCHANGED <<account, token, leagues>>
  \/ left = {} /\ Check(18, \A m \in ListGroupMatches(1) :
                              ~AcceptsMatch(Result(0, Null, m[2], m[3], 3, 2)))
  \/ Check(19, Cardinality(ListKnockoutMatches) = 32)

GroupScenario ==
  \/ Call(20, AcceptsRankings(1), FinalizeRankings(1, Groups[1]) /\ UNCHANGED personVars)
  \/ Check(21, ~AcceptsRankings(1))
  \/ Check(22, Listed = {1, 2} /\ scores[1].group = 45 /\ scores[2].group = 43)
  \/ Call(23, AcceptsQualifier(1), FinalizeQualifier(1, TRUE) /\ UNCHANGED personVars)
  \/ Check(24, ~AcceptsQualifier(1))
  \/ Check(25, Listed = {1, 2} /\ scores[1].group = 50 /\ scores[2].group = 43)

\* The i-th country of groups, by the round they are predicted to reach.
ScriptBracket ==
  LET firsts(S) == {Groups[l][1] : l \in S}
  IN  (firsts(1 .. 8) \X {2, 3}) \cup ({Groups[l][2] : l \in 1 .. 8} \X {2})
      \cup (firsts({1, 3, 5, 7}) \X {4}) \cup (firsts({1, 5}) \X {5})
      \cup (firsts({1}) \X {6}) \cup (firsts({3}) \X {7})

KnockoutScenario ==
  LET first == Groups[1][1]
      payload == Result(1, 0, first, Groups[1][2], 2, 1)
  IN  \/ Call(26, Predicts(1), SaveKnockoutPicks(1, ScriptBracket) /\ UNCHANGED personVars)
      \/ Check(27, Cardinality(knockoutPicks[1]) = 32)
      \/ Call(28, AcceptsMatch(payload), RecordMatch(payload) /\ UNCHANGED personVars)
      \/ Check(29, matches[<<2, 0>>].c1 = first)
      \/ Check(30, /\ Listed = {1, 2}
                   /\ scores[1] = [group |-> 50, knockout |-> 15]
                   /\ scores[2] = [group |-> 43, knockout |-> 0])

\* The subleaderboard of the subcontest that user2 joined.
LeaderboardScenario == \E t \in ListSubcontests(2) : Check(31, Sees(2, t))

ScriptStep ==
  \/ CleanUp
  \/ LoginScenario \/ UsersScenario \/ ContestScenario \/ PicksScenario
  \/ SubcontestScenario \/ MatchScenario \/ GroupScenario \/ KnockoutScenario
  \/ LeaderboardScenario

ScriptDone == step = 32 /\ UNCHANGED <<contestVars, scriptVars>>

\* What the program announces beside what it checks: 4 users, 3 after the deletion;
\* user2 sees no subcontest, and one after joining it.
AsAnnounced ==
  LET accounts == {p \in People : account[p] # Null}
  IN  /\ step = 4 => Cardinality(accounts) = 4
      /\ step = 5 => Cardinality(accounts) = 3
      /\ step \in 11 .. 13 => ListSubcontests(2) = {}
      /\ step \in 14 .. 31 => ListSubcontests(2) = {"private"}
=============================================================================
