SPECIFICATION Spec
CONSTANTS
  Null = Null
  Requests = {r1, r2}
  Groups = {"A"}
  Countries <- GroupACountries
  Letter <- GroupALetter
  Users <- MCUsers
  GroupPicks <- GroupAPicks
  Rankings <- OnlyRankA
  Qualifiers = {}
INVARIANT GroupScoresExact
