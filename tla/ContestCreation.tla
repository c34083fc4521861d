-------------------------- MODULE ContestCreation --------------------------
(***************************************************************************)
(* ContestService.CreateContest: the contest, its countries, its matches   *)
(* and its group standings are four statements, each with its own commit.  *)
(***************************************************************************)
EXTENDS Sessions

ContestRow == [id : Calls, title : Titles, slug : Slugs]
CountryRow == [code : Countries, name : {FullName[c] : c \in Countries}]

\* A match of the group stage has no index, one of the bracket no countries yet.
MatchRow == [contest : Calls, round : 0 .. 5, index : 0 .. 15 \cup {Null},
             country1 : Countries \cup {Null}, country2 : Countries \cup {Null}]
StandingRow == [contest : Calls, country : Countries, letter : Letters]

Groups(r) == Req(r).groups   \* a sequence of [letter, countries]

CountriesOf(r) == UNION {{g.countries[i] : i \in DOMAIN g.countries} :
                           g \in {Groups(r)[k] : k \in DOMAIN Groups(r)}}

(***************************************************************************)
(* The matches of a contest                                                *)
(***************************************************************************)
\* The first country of a match is the one listed before the other.
GroupMatches(r) ==
  UNION {{[contest |-> r, round |-> 0, index |-> Null,
           country1 |-> g.countries[ij[1]], country2 |-> g.countries[ij[2]]] :
            ij \in {p \in (DOMAIN g.countries) \X (DOMAIN g.countries) : p[1] < p[2]}} :
          g \in {Groups(r)[k] : k \in DOMAIN Groups(r)}}

MatchesInRound == [k \in 1 .. 5 |-> CASE k = 1 -> 16 [] k = 2 -> 8 [] k = 3 -> 4
                                      [] k = 4 -> 2 [] k = 5 -> 2]

Bracket(r) ==
  UNION {{[contest |-> r, round |-> k, index |-> i, country1 |-> Null, country2 |-> Null] :
            i \in 0 .. MatchesInRound[k] - 1} : k \in 1 .. 5}

(***************************************************************************)
(* The four statements                                                     *)
(***************************************************************************)
InsertContest(r) ==
  /\ Arrives(r, "createContest")
  /\ \E call \in AsUser(r) :
       LET row == [id |-> r, title |-> Req(r).title, slug |-> SlugOf[Req(r).title]]
       IN  \/ Req(r).email \notin Superadmins /\ Refuse(r, "permission_denied")
           \/ /\ Req(r).email \in Superadmins
              /\ \E c \in contests : c.title = row.title \/ c.slug = row.slug
              /\ Refuse(r, "already_exists")
           \/ /\ Req(r).email \in Superadmins
              /\ \A c \in contests : c.title # row.title /\ c.slug # row.slug
              /\ contests' = contests \cup {row}
              /\ Step(r, [call EXCEPT !.pc = "countries", !.found = r])
              /\ UNCHANGED <<accountVars, leagueVars, countries, matches, groupStandings>>

\* ON CONFLICT (code) DO NOTHING; a full name that another code bears is an error, and
\* one the handler takes for a second contest of the title.
InsertCountries(r) ==
  /\ calls[r].pc = "countries"
  /\ LET new == {[code |-> c, name |-> FullName[c]] :
                   c \in CountriesOf(r) \ {row.code : row \in countries}}
     IN  IF \E p, q \in countries \cup new : p # q /\ p.name = q.name
         THEN Refuse(r, "already_exists")
         ELSE /\ countries' = countries \cup new
              /\ Step(r, [calls[r] EXCEPT !.pc = "matches"])
              /\ UNCHANGED <<accountVars, leagueVars, contests, matches, groupStandings>>

\* Every country was inserted before, by this call or by another.
InsertMatches(r) ==
  /\ calls[r].pc = "matches"
  /\ matches' = matches \cup GroupMatches(r) \cup Bracket(r)
  /\ Step(r, [calls[r] EXCEPT !.pc = "standings"])
  /\ UNCHANGED <<accountVars, leagueVars, contests, countries, groupStandings>>

\* How often a country is on the list of a group.
Listed(r, k, c) == {i \in DOMAIN Groups(r)[k].countries : Groups(r)[k].countries[i] = c}

\* A country listed twice violates the primary key.
\* Mutant: the error of the last statement is dropped.
InsertStandingsUnchecked(r) ==
  /\ calls[r].pc = "standings"
  /\ Answer(r, "ok")
  /\ UNCHANGED <<accountVars, leagueVars, contests, countries, matches>>
  /\ groupStandings' =
       IF \E c \in CountriesOf(r) :
            Cardinality(UNION {{k} \X Listed(r, k, c) : k \in DOMAIN Groups(r)}) > 1
       THEN groupStandings
       ELSE groupStandings \cup
              UNION {{[contest |-> r, country |-> c, letter |-> Groups(r)[k].letter] :
                        c \in {d \in CountriesOf(r) : Listed(r, k, d) # {}}} :
                      k \in DOMAIN Groups(r)}
InsertStandings(r) ==
  /\ calls[r].pc = "standings"
  /\ IF \E c \in CountriesOf(r) :
          Cardinality(UNION {{k} \X Listed(r, k, c) : k \in DOMAIN Groups(r)}) > 1
     THEN Refuse(r, "already_exists")
     ELSE /\ groupStandings' = groupStandings \cup
               UNION {{[contest |-> r, country |-> c, letter |-> Groups(r)[k].letter] :
                         c \in {d \in CountriesOf(r) : Listed(r, k, d) # {}}} :
                       k \in DOMAIN Groups(r)}
          /\ Answer(r, "ok")
          /\ UNCHANGED <<accountVars, leagueVars, contests, countries, matches>>

ContestStep(r) ==
  InsertContest(r) \/ InsertCountries(r) \/ InsertMatches(r) \/ InsertStandings(r)

----------------------------------------------------------------------------
\* What the handler leaves to the administrator: the letters it is given are inserted
\* as they are, and no two groups of a request should have the same.
LettersDiffer ==
  \A script \in Scripts, r \in Calls :
    script[r].op = "createContest" =>
      \A k, l \in DOMAIN script[r].groups :
        script[r].groups[k].letter = script[r].groups[l].letter => k = l
=============================================================================
