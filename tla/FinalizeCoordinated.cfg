SPECIFICATION CoordinatedSpec
CONSTANTS
  Null = Null
  Requests = {r1, r2, r3, r4}
  Groups <- MCGroups
  Countries <- MCCountries
  Letter <- MCLetter
  Users <- MCUsers
  GroupPicks <- MCPicks
  Rankings <- MCRankings
  Qualifiers <- MCQualifiers
SYMMETRY Symmetry
INVARIANTS TypeOK GroupScoresExact GroupsAreFinalizedWhole
PROPERTY FinalsAreFinal
