SPECIFICATION Spec
CONSTANTS
  Null = Null
  Countries <- CupCountries
  Matches <- CupMatches
  Round <- CupRound
  Index <- CupIndex
  Fixtures <- CupFixtures
  Users <- CupUsers
  Picks <- CupPicks
  Payloads <- BookPayloads
INVARIANTS TypeOK StandingsAgreeWithMatches KnockoutScoresExact
  BracketFollowsResults OneMatchPerRound ReachedIsFurthest
PROPERTY ResultsAreFinal
