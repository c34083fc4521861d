-------------------------- MODULE MCMatchRecording --------------------------
\* MatchRecording on the tournament of MCInstances.
EXTENDS MatchRecording

Cup == INSTANCE MCInstances

CupCountries == Cup!CupCountries
CupMatches   == Cup!CupMatches
CupRound     == Cup!CupRound
CupIndex     == Cup!CupIndex
CupFixtures  == Cup!CupFixtures
CupUsers     == Cup!CupUsers
CupPicks     == Cup!CupPicks

Symmetry == Permutations(Requests)

\* Results of two group matches that share a country, by either order of the
\* countries, conduct scores, both semifinals, and what they feed.
AtomicPayloads ==
  {Cup!Goals(Cup!Between("A", "B"), 2, 1),
   Cup!ConductScores(Cup!Between("A", "B"), -1, -2),
   Cup!Goals(Cup!Between("C", "B"), 1, 1),
   Cup!Goals(Cup!At("S0"), 1, 0),
   Cup!Goals(Cup!Seeded(Cup!At("S1"), "C", "D"), 0, 1),
   Cup!Penalties(Cup!Goals(Cup!At("Fin"), 1, 1), 4, 3),
   Cup!Goals(Cup!At("Third"), 0, 2), Cup!Goals(Cup!At("Third"), 0, 0)}

\* Three group results that share countries, one of them a draw; a quarterfinal, both
\* semifinals and the final, which pay the same users.
TogetherPayloads ==
  {Cup!Goals(Cup!Between("A", "B"), 0, 2), Cup!Goals(Cup!Between("A", "C"), 2, 0),
   Cup!Goals(Cup!Between("C", "B"), 1, 1),
   Cup!Goals(Cup!At("S0"), 1, 0),
   Cup!Goals(Cup!Seeded(Cup!At("Q3"), "E", "F"), 1, 0),
   Cup!Goals(Cup!Seeded(Cup!At("S1"), "C", "D"), 0, 1),
   Cup!Goals(Cup!Seeded(Cup!At("Fin"), "A", "C"), 3, 0)}

\* Calls that run together are of one stage: calls of different stages share no row.
OneStage ==
  \A r, s \in Requests :
    InFlight(r) /\ InFlight(s) =>
      (IsKnockout(calls[r].match) <=> IsKnockout(calls[s].match))
TogetherSpec == Init /\ [][Next /\ OneStage']_vars /\ Fairness

\* Two results that share a country; a semifinal recorded with its countries before
\* its quarterfinal.
SharedCountryPayloads ==
  {Cup!Goals(Cup!Between("A", "B"), 0, 2), Cup!Goals(Cup!Between("A", "C"), 2, 0)}
LateQuarterPayloads ==
  {Cup!Goals(Cup!At("Q2"), 1, 0),
   Cup!Goals(Cup!Seeded(Cup!At("S1"), "D", "E"), 0, 2)}
=============================================================================
