SPECIFICATION CoordinatedSpec
CONSTANTS
  Null = Null
  Requests = {r1, r2}
  Countries <- CupCountries
  Matches <- CupMatches
  Round <- CupRound
  Index <- CupIndex
  Fixtures <- CupFixtures
  Users <- CupUsers
  Picks <- CupPicks
  Payloads <- LateQuarterPayloads
PROPERTY ResultsAreFinal
