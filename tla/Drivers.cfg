SPECIFICATION Spec
CONSTANTS
  Null = Null
  Users <- McUsers
  Groups <- McGroups
  CodeOrder <- McCodeOrder
  AllUsers <- McAllUsers
  SpareCells = 9
  Joey = 3
  Jpm = 4
  Dice <- McDice
  Superadmins <- McSuperadmins
INVARIANTS ProgramsSucceed PerfectPredictions RoundOf32IsWhole PredictionsAreBrackets
PROPERTY ResultsKeepTheirOrder
