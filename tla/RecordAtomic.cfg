SPECIFICATION CoordinatedSpec
CONSTANTS
  Null = Null
  Requests = {r1, r2, r3, r4}
  Countries <- CupCountries
  Matches <- CupMatches
  Round <- CupRound
  Index <- CupIndex
  Fixtures <- CupFixtures
  Users <- CupUsers
  Picks <- CupPicks
  Payloads <- AtomicPayloads
SYMMETRY Symmetry
INVARIANT TypeOK
PROPERTY CallsAreAtomic
