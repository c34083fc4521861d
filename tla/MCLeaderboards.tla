--------------------------- MODULE MCLeaderboards ---------------------------
\* Predictions and leaderboards of two users in one contest with one group.
EXTENDS Leaderboards, TLC

CONSTANTS u1, u2, a, b, c, cup

Symmetry == Permutations(PayCalls)

\* The group stage is open at the instant 0 only, the bracket from the instant 1 on.
McUnlock == [group |-> 0, knockout |-> 1]
McLock == [group |-> 0, knockout |-> Null]

Group(letter, order, extra) ==
  [letter |-> letter, order |-> order, extra |-> extra, round |-> Null]
Knockout(country, round) ==
  [letter |-> Null, order |-> <<country>>, extra |-> Null, round |-> round]
Save(user, kind, list) == [user |-> user, slug |-> cup, kind |-> kind, picks |-> list]

\* Groups that replace each other, countries that change their group both ways, a
\* bracket, one with a country nobody knows, an empty one and another contest.
McSubmissions ==
  {Save(u1, "group", <<Group("A", <<b, a>>, TRUE), Group("B", <<c>>, FALSE)>>),
   Save(u1, "group", <<Group("A", <<c>>, FALSE)>>),
   Save(u1, "group", <<Group("B", <<a>>, FALSE)>>),
   Save(u1, "knockout", <<Knockout(a, 5), Knockout(a, 4)>>),
   Save(u1, "knockout", <<Knockout(b, 5), Knockout(Null, 4)>>),
   Save(u1, "knockout", <<>>),
   [Save(u1, "knockout", <<>>) EXCEPT !.slug = Null]}

McPayments == {[kind |-> "group", points |-> 5], [kind |-> "knockout", points |-> 15]}

\* For the leaderboards: no dates and a submission of each user.
NoDates == [group |-> Null, knockout |-> Null]
BoardSubmissions ==
  {Save(u1, "group", <<Group("A", <<a, b>>, TRUE)>>),
   Save(u2, "knockout", <<Knockout(a, 5)>>)}
McOwner == [l \in Leagues |-> u1]
McPages == {[limit |-> 2, offset |-> 0]}
=============================================================================
