---------------------------- MODULE MCInstances ----------------------------
(***************************************************************************)
(* A small tournament for TLC, and the payloads the seed and acceptance    *)
(* programs send: group results by countries, knockout results by          *)
(* position.  A group of three; a bracket in which one semifinal is paired *)
(* and the other takes its countries from two quarterfinals.               *)
(***************************************************************************)
EXTENDS ScoringRules

Empty ==
  [round |-> 0, index |-> Null, c1 |-> Null, c2 |-> Null, g1 |-> Null,
   g2 |-> Null, p1 |-> Null, p2 |-> Null, cs1 |-> Null, cs2 |-> Null]

Between(a, b) == [Empty EXCEPT !.c1 = a, !.c2 = b]
Position(r, i) == [Empty EXCEPT !.round = r, !.index = i]
Goals(p, a, b) == [p EXCEPT !.g1 = a, !.g2 = b]
Penalties(p, a, b) == [p EXCEPT !.p1 = a, !.p2 = b]
Seeded(p, a, b) == [p EXCEPT !.c1 = a, !.c2 = b]
ConductScores(p, a, b) == [p EXCEPT !.cs1 = a, !.cs2 = b]

NoCountries == [c1 |-> Null, c2 |-> Null]
Pairing(a, b) == [c1 |-> a, c2 |-> b]

----------------------------------------------------------------------------
CupCountries == {"A", "B", "C", "D", "E", "F"}

\* Group matches are paired in the order of CreateContest.
CupFixtures ==
  [AB |-> Pairing("A", "B"), AC |-> Pairing("A", "C"), BC |-> Pairing("B", "C"),
   Q2 |-> Pairing("C", "D"), Q3 |-> NoCountries, S0 |-> Pairing("A", "B"),
   S1 |-> NoCountries, Fin |-> NoCountries, Third |-> NoCountries]
CupMatches == DOMAIN CupFixtures
CupRound ==
  [m \in CupMatches |-> CASE m \in {"AB", "AC", "BC"} -> 0
                          [] m \in {"Q2", "Q3"}       -> 3
                          [] m \in {"S0", "S1"}       -> 4
                          [] m \in {"Fin", "Third"}   -> 5]
CupIndex ==
  [m \in CupMatches |-> CASE m \in {"AB", "AC", "BC"}  -> Null
                          [] m \in {"S0", "Fin"}       -> 0
                          [] m \in {"S1", "Third"}     -> 1
                          [] m = "Q2" -> 2 [] m = "Q3" -> 3]
At(m) == Position(CupRound[m], CupIndex[m])

\* One user backs the favourites, one the other side; both expect A and D in
\* the final.
CupUsers == {"u1", "u2"}
CupPicks ==
  {<<"u1", c, 4>> : c \in {"C", "E"}} \cup {<<"u2", c, 4>> : c \in {"D", "E"}}
  \cup {<<u, c, 5>> : u \in CupUsers, c \in {"A", "D"}}
  \cup {<<"u1", "A", 6>>, <<"u1", "C", 7>>, <<"u2", "D", 6>>, <<"u2", "B", 7>>}

\* Results in full and goal by goal, in either order of the countries, conduct
\* scores before the result; then wins, wins on penalties, ties nobody wins, and
\* a match a call has to seed.
BookPayloads ==
  {Goals(Between("A", "B"), 2, 1), Goals(Between("B", "A"), 3, 0),
   ConductScores(Between("A", "C"), -1, -2), Goals(Between("A", "C"), 1, 1),
   [Between("B", "C") EXCEPT !.g1 = 2], [Between("C", "B") EXCEPT !.g2 = 3]}
  \cup {Goals(At(m), 1, 0) : m \in {"Q2", "Q3", "S0", "S1", "Fin", "Third"}}
  \cup {Penalties(Goals(At(m), 2, 2), 3, 4) : m \in {"Q2", "S0", "S1", "Fin"}}
  \cup {Seeded(At("Q3"), "E", "F"), Goals(At("Q2"), 0, 0)}
=============================================================================
