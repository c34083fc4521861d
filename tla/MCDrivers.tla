----------------------------- MODULE MCDrivers -----------------------------
\* Both programs at their full size: 48 countries, 104 matches, 55 users.
EXTENDS Programs

McGroups ==
  <<<<"USA", "MEX", "CAN", "CRC">>, <<"BRA", "ARG", "URU", "COL">>,
    <<"ENG", "FRA", "GER", "ITA">>, <<"ESP", "POR", "NED", "BEL">>,
    <<"CRO", "SEN", "MAR", "TUN">>, <<"JPN", "KOR", "AUS", "IRN">>,
    <<"KSA", "QAT", "UAE", "OMN">>, <<"EGY", "NGA", "GHA", "CMR">>,
    <<"SWE", "DEN", "NOR", "FIN">>, <<"SUI", "AUT", "POL", "UKR">>,
    <<"TUR", "GRE", "CZE", "SVK">>, <<"WAL", "SCO", "IRL", "NIR">>>>
McCodeOrder ==
  <<"ARG", "AUS", "AUT", "BEL", "BRA", "CAN", "CMR", "COL", "CRC", "CRO", "CZE", "DEN",
    "EGY", "ENG", "ESP", "FIN", "FRA", "GER", "GHA", "GRE", "IRL", "IRN", "ITA", "JPN",
    "KOR", "KSA", "MAR", "MEX", "NED", "NGA", "NIR", "NOR", "OMN", "POL", "POR", "QAT",
    "SCO", "SEN", "SUI", "SVK", "SWE", "TUN", "TUR", "UAE", "UKR", "URU", "USA", "WAL">>

McUsers == 0 .. 54
McSuperadmins == {Super}
McAllUsers == [i \in 1 .. 55 |-> i - 1]

\* Rows without a repetition; the fifth drawn username drawn again; the superadmin's
\* e-mail that of the fourth user.
McPeople == [i \in 1 .. 55 |-> [email |-> i, username |-> i]]
McNamesakes == [McPeople EXCEPT ![40].username = 10]
McSameEmail == [McPeople EXCEPT ![1].email = 4]

McThrow ==
  [numbers |-> <<0, 3, 1, 2, 2, 0, 3>>,
   shuffles |-> <<<<2, 4, 1, 3>>, <<1, 2, 3, 4>>, <<4, 3, 2, 1>>>>, people |-> McPeople]
McDice ==
  {McThrow,
   [numbers |-> <<1, 1, 3, 0, 2, 5, 4, 7, 6, 9, 8>>,
    shuffles |-> <<<<3, 1, 2, 4>>, <<1, 3, 2, 4>>>>, people |-> McPeople],
   [McThrow EXCEPT !.people = McNamesakes], [McThrow EXCEPT !.people = McSameEmail]}
=============================================================================
