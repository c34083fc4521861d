SPECIFICATION TogetherSpec
CONSTANTS
  Null = Null
  Requests = {r1, r2, r3}
  Countries <- CupCountries
  Matches <- CupMatches
  Round <- CupRound
  Index <- CupIndex
  Fixtures <- CupFixtures
  Users <- CupUsers
  Picks <- CupPicks
  Payloads <- TogetherPayloads
INVARIANTS RowArithmetic GroupResultsDoNotDeadlock AwardsAreNotLost
PROPERTY Termination
