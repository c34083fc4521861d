SPECIFICATION FairSpec
CONSTANTS
  Null = Null
  Requests = {r1, r2, r3}
  Groups <- MCGroups
  Countries <- MCCountries
  Letter <- MCLetter
  Users <- MCUsers
  GroupPicks <- MCPicks
  Rankings <- RankAOrB
  Qualifiers <- OnlyQualifyA
INVARIANT PointsAreNotLost
PROPERTY Termination
