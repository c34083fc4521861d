--------------------------- MODULE ContestTables ---------------------------
(***************************************************************************)
(* The data dictionary of one contest, shared by the modules that record   *)
(* results: the match rows CreateMatches inserted, the calls of            *)
(* UpdateMatch an administrator may send, and the pure steps of            *)
(* UpdateMatch that read them: finding the match, merging the fields that  *)
(* are present, and finding the matches that its winner and loser move to. *)
(***************************************************************************)
EXTENDS ScoringRules, FiniteSets

CONSTANTS
  Countries,   \* countries of the contest
  Users,       \* users with knockout predictions
  Matches,     \* ids of the match rows
  Round,       \* column round: 0 is the group stage, 1..5 the knockout stage
  Index,       \* column round_index; Null for a group match
  Fixtures,    \* country columns of every match when the contest is created
  Picks,       \* knockout_picks: triples <<user, country, round>>
  Payloads     \* what a call of UpdateMatch may carry

Score  == Nat \cup {Null}
Slot   == Countries \cup {Null}

MatchRow ==
  [c1 : Slot, c2 : Slot, g1 : Score, g2 : Score, p1 : Score, p2 : Score,
   cs1 : Int \cup {Null}, cs2 : Int \cup {Null}]

StandingRow ==
  [wins : Nat, draws : Nat, losses : Nat, gf : Nat, ga : Nat, gd : Int,
   points : Nat, cs : Int]

\* A payload names its match by round and index or by its two countries; a
\* country code the countries table lacks is an absent country.
Payload ==
  [round : 0 .. 5, index : Nat \cup {Null}, c1 : Slot, c2 : Slot,
   g1 : Score, g2 : Score, p1 : Score, p2 : Score,
   cs1 : Int \cup {Null}, cs2 : Int \cup {Null}]

\* NULL is none of the values of a column, and no row.
ASSUME NullAssumption ==
  Null \notin Int /\ Null \notin Countries /\ Null \notin Matches /\ Null \notin MatchRow

ASSUME RoundAssumption == Round \in [Matches -> 0 .. 5]

\* CreateContest makes a knockout match for every position of a round: two in the
\* semifinals, and two of the last round, the final and the third-place match.
ASSUME IndexAssumption ==
  /\ Index \in [Matches -> Nat \cup {Null}]
  /\ \A m \in Matches : /\ (Round[m] > 0 => Index[m] # Null)
                         /\ (Round[m] \in {4, 5} => Index[m] \in {0, 1})
  /\ \A m, n \in Matches :
       Round[m] > 0 /\ Round[n] = Round[m] /\ Index[n] = Index[m] => m = n

ASSUME FixtureAssumption ==
  /\ Fixtures \in [Matches -> [c1 : Slot, c2 : Slot]]
  /\ \A m \in Matches :
       Round[m] = 0 => /\ Fixtures[m].c1 # Null /\ Fixtures[m].c2 # Null
                       /\ Fixtures[m].c1 # Fixtures[m].c2

\* CreateContest pairs a country of a group with those listed after it: in every
\* set of countries there is one that is paired first with none of the others.
ASSUME PairingAssumption ==
  \A S \in SUBSET Countries :
    S # {} => \E c \in S : \A m \in Matches :
                Round[m] = 0 /\ Fixtures[m].c1 = c => Fixtures[m].c2 \notin S

ASSUME PicksAssumption == Picks \subseteq Users \X Countries \X (2 .. 7)

ASSUME UsersAssumption == IsFiniteSet(Users)

ASSUME MatchesAssumption == IsFiniteSet(Matches)

ASSUME PayloadAssumption == Payloads \subseteq Payload

----------------------------------------------------------------------------
\* The row CreateMatches inserts: countries where they are known, no result.
Unplayed(m) ==
  [c1 |-> Fixtures[m].c1, c2 |-> Fixtures[m].c2, g1 |-> Null, g2 |-> Null,
   p1 |-> Null, p2 |-> Null, cs1 |-> Null, cs2 |-> Null]

IsKnockout(m) == Round[m] > 0

\* By round and index when the payload has both, else by round and the two
\* countries in either order; `rows` is the committed matches table.
ByPosition(payload) == payload.round > 0 /\ payload.index # Null

Found(rows, payload) ==
  IF ByPosition(payload)
  THEN {m \in Matches : Round[m] = payload.round /\ Index[m] = payload.index}
  ELSE {m \in Matches :
          /\ payload.c1 # Null /\ payload.c2 # Null
          /\ Round[m] = payload.round
          /\ \/ rows[m].c1 = payload.c1 /\ rows[m].c2 = payload.c2
             \/ rows[m].c1 = payload.c2 /\ rows[m].c2 = payload.c1}

\* Countries and penalties are only written for a knockout match.
HasUpdates(m, payload) ==
  \/ payload.g1 # Null \/ payload.g2 # Null
  \/ payload.cs1 # Null \/ payload.cs2 # Null
  \/ /\ IsKnockout(m)
     /\ \/ payload.c1 # Null \/ payload.c2 # Null
        \/ payload.p1 # Null \/ payload.p2 # Null

Given(new, old) == IF new = Null THEN old ELSE new

KnockoutGiven(m, new, old) == IF IsKnockout(m) THEN Given(new, old) ELSE old

Merge(m, row, payload) ==
  [c1  |-> KnockoutGiven(m, payload.c1, row.c1),
   c2  |-> KnockoutGiven(m, payload.c2, row.c2),
   g1  |-> Given(payload.g1, row.g1),
   g2  |-> Given(payload.g2, row.g2),
   p1  |-> KnockoutGiven(m, payload.p1, row.p1),
   p2  |-> KnockoutGiven(m, payload.p2, row.p2),
   cs1 |-> Given(payload.cs1, row.cs1),
   cs2 |-> Given(payload.cs2, row.cs2)]

\* A completed row whose countries are known moves the tables below it.
HasCountries(row) == row.c1 # Null /\ row.c2 # Null

----------------------------------------------------------------------------
\* The row the winner of m moves to (none after round 5), and the third-place
\* row the loser of a semifinal moves to.
NextMatches(m) ==
  {n \in Matches : /\ Round[m] \in 1 .. 4
                   /\ Round[n] = Round[m] + 1
                   /\ Index[n] = Index[m] \div 2}

ThirdPlaceMatches(m) ==
  {n \in Matches : Round[m] = 4 /\ Round[n] = 5 /\ Index[n] = 1}

\* Slot 0 or 1 of n (its first or second country) is the one a result of m fills.
Fills(m, n, slot) ==
  \/ n \in NextMatches(m) /\ slot = Index[m] % 2
  \/ n \in ThirdPlaceMatches(m) /\ slot = Index[m]

InSlot(row, slot) == IF slot = 0 THEN row.c1 ELSE row.c2

\* CreateContest leaves the slots that results fill empty.
ASSUME SlotAssumption ==
  \A m, n \in Matches, slot \in {0, 1} :
    Fills(m, n, slot) => InSlot(Fixtures[n], slot) = Null

\* An even index fills the first slot of the next match, an odd one the second.
\* Mutant: the sides are exchanged.
SeedWinnerOtherSide(m, row, winner) ==
  IF Index[m] % 2 = 1 THEN [row EXCEPT !.c1 = winner]
                      ELSE [row EXCEPT !.c2 = winner]
SeedWinner(m, row, winner) ==
  IF Index[m] % 2 = 0 THEN [row EXCEPT !.c1 = winner]
                      ELSE [row EXCEPT !.c2 = winner]

SeedLoser(m, row, loser) ==
  IF Index[m] = 0 THEN [row EXCEPT !.c1 = loser]
                  ELSE [row EXCEPT !.c2 = loser]

\* The round a win of m achieves, and the users who predicted it.
Achieved(m) == AchievedRound(Round[m], Index[m])

Pickers(country, round) == {u \in Users : <<u, country, round>> \in Picks}
=============================================================================
