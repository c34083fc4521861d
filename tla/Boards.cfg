SPECIFICATION Spec
CONSTANTS
  Null = Null
  u1 = u1
  u2 = u2
  a = a
  b = b
  c = c
  cup = cup
  Users = {u1, u2}
  Countries = {a, b, c}
  Letters = {"A", "B"}
  Contest = cup
  Unlock <- NoDates
  Lock <- NoDates
  LastInstant = 0
  Submissions <- BoardSubmissions
  Payments <- McPayments
  SaveCalls = {1, 2}
  PayCalls = {p1, p2}
  BoardCalls = {b1}
  Leagues = {club}
  Owner <- McOwner
  Pages <- McPages
SYMMETRY Symmetry
INVARIANTS BoardTypeOK ScoresArePaid BoardsAddUp
