------------------------ MODULE MCGroupFinalization ------------------------
\* Two groups of four, two users: one predicted group A perfectly.
EXTENDS GroupFinalization

Symmetry == Permutations(Requests)

MCCountries == {"A1", "A2", "A3", "A4", "B1", "B2", "B3", "B4"}
MCGroups    == {"A", "B"}
MCLetter    == [c \in MCCountries |->
                  IF c \in {"A1", "A2", "A3", "A4"} THEN "A" ELSE "B"]

Pick(u, g, order, extra) ==
  {[user |-> u, country |-> order[i], letter |-> g, place |-> i, extra |-> extra] :
     i \in 1 .. 4}
MCUsers == {"u1", "u2"}
MCPicks ==
  Pick("u1", "A", <<"A1", "A2", "A3", "A4">>, TRUE)
  \cup Pick("u2", "A", <<"A1", "A3", "A2", "A4">>, FALSE)
  \cup Pick("u1", "B", <<"B4", "B3", "B2", "B1">>, FALSE)
  \cup Pick("u2", "B", <<"B2", "B1", "B3", "B4">>, FALSE)

RankA == [group |-> "A", order |-> <<"A1", "A2", "A3", "A4">>]
RankB == [group |-> "B", order |-> <<"B2", "B1", "B4", "B3">>]
\* Another order of the same group.
OtherB == [group |-> "B", order |-> <<"B1", "B2", "B4", "B3">>]
\* A list with a code no country has.
MisspeltB == [group |-> "B", order |-> <<"B2", "B1", Null, "B3">>]

MCRankings   == {RankA, RankB, OtherB, MisspeltB}
MCQualifiers == {[group |-> "A", advances |-> TRUE],
                 [group |-> "B", advances |-> FALSE]}
OnlyRankA     == {RankA}
RankAOrB      == {RankA, RankB}
OnlyQualifyA  == {[group |-> "A", advances |-> TRUE]}
GroupAPicks   == {p \in MCPicks : p.letter = "A"}
GroupACountries == {"A1", "A2", "A3", "A4"}
GroupALetter  == [c \in GroupACountries |-> "A"]

\* What the theorems about coordinated calls suppose of the callers.
ASSUME CallersAssumption ==
  ListsStayInGroup /\ ListsAreWhole /\ PicksStayInGroup
=============================================================================
