SPECIFICATION FairSpec
CONSTANTS
  Null = Null
  u1 = u1
  u2 = u2
  a = a
  b = b
  c = c
  cup = cup
  Users = {u1}
  Countries = {a, b, c}
  Letters = {"A", "B"}
  Contest = cup
  Unlock <- McUnlock
  Lock <- McLock
  LastInstant = 1
  Submissions <- McSubmissions
  Payments <- McPayments
  SaveCalls = {1, 2, 3}
  PayCalls = {}
  BoardCalls = {}
  Leagues = {}
  Owner <- McOwner
  Pages <- McPages
INVARIANTS TypeOK PickersAreListed
PROPERTIES SavesAreWhole GroupsReadBack LockedPicksStay SavesEnd
