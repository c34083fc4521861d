# Verification of the wcwcpp backend

The backend runs a prediction game for a 48-country tournament: users predict
the order of each group and the knockout bracket, administrators record match
results, and the program keeps the group tables, the bracket, the knockout
standings and every user's score. Everything lives in PostgreSQL; the Go server
keeps no state between requests and runs them concurrently. Some handlers work
in one transaction of the default isolation level (READ COMMITTED), others in
several statements that commit on their own.

This directory holds TLA+ models of the server's operations and of the two
programs that drive them, the TLC runs that check them on small instances, and
machine-checked proofs for instances of any size.

## Inventory

| Component | State | Operations | Interacts with | Correct when | Modelled in |
|---|---|---|---|---|---|
| Match recording (`postgres/contest.go`, `UpdateMatch`) | `matches`, `group_standings`, `knockout_standings`, `contest_standings.knockout_score` | `UpdateMatch` | reads predictions; its results open group finalization | tables agree with results; results are final; each award is paid once | ResultBook, MatchRecording |
| Group finalization (same file) | `group_standings.rank`, `.is_third_place_qualifier`, `contest_standings.group_score` | `FinalizeGroupRankings`, `FinalizeThirdPlaceQualifier` | needs every match of the group; reads predictions | groups are final as a whole and once; points are exact | GroupFinalization |
| Predictions (`core/service/picks.go`, `postgres/picks.go`) | `group_picks`, `knockout_picks`, rows of `contest_standings` | `CreateGroupPicks`, `CreateKnockoutPicks`, the lists | lock dates; payments of points; account deletion | a save is stored whole or not at all and reads back; locked predictions stay; who predicts is listed | Predictions |
| Leaderboards (`postgres/leaderboard.go`) | none | `Leaderboard`, `Subleaderboard` | read scores and members while they change | the sections of a page agree | Leaderboards |
| Accounts and login (`core/service/auth.go`, `postgres/user.go`) | `users`; tokens in the clients' hands | login (creates on first), delete | cascades over all rows of a user | one account per address | Accounts |
| Authentication (`interceptor/auth.go`) | none | `WithAuth`, `WithSuperadmin` | believes the subject of a token | | Sessions |
| Subcontests (`core/service/contest.go`) | `subcontests`, `subcontest_entries` | create, join, delete, look at | accounts; slugs and codes that change hands | members exist and asked for it; only owners delete; boards are shown to whom they were checked for | Subcontests |
| Contest creation (`core/service/contest.go`) | `contests`, `countries`, `matches`, `group_standings` | `CreateContest` in four statements | makes the rows of everything above | what was answered as created is whole | ContestCreation |
| Seed program (`cmd/seed`) | its loop and its array of users | empties the tables, predicts, plays five contests, fills subcontests, reports | calls the repositories one at a time | every call is accepted once its users differ; perfect predictions get every point | Seeding |
| Acceptance program (`cmd/uat`) | its script | 31 steps of calls through the handlers | the whole server | every answer is as expected | Acceptance |
| Read paths of matches, groups, brackets | none | single SELECTs | | the order shown is the order finalized | in part: Tournament |
| User search, request mapping, bootstrap, developer tools, ports, schema, generated code | none | | | | no |

What is hard here is concurrency in the database and order in time. Handlers
check on rows they do not lock and act later; they read rows and write them
back; upserts take row locks in an order nothing fixes; one request is several
transactions, and the server may stop between two of them; a token outlives its
account. `PROJECT.json` lists each hazard at its line with the properties that
cover it, or why none does.

## Modules

    ScoringRules        arithmetic of results, knockout winners, points
      ContestTables     a contest's constant data; finding, merging, seeding
        ResultBook      abstract: one call of UpdateMatch is one step
        MatchRecording  UpdateMatch, one action per SQL statement
      GroupFinalization the two finalizations, one action per SQL statement
      Tournament        a whole contest, one call at a time (uses ResultBook)
        Seeding         the seed program
        Acceptance      the acceptance program
          Programs      both, stopped anywhere and started again
    RowVersions         rows under READ COMMITTED
    Predictions         saves, payments, account deletions, the clock
      Leaderboards      boards read section by section beside them
    Sessions            tables and calls of accounts and contests, tokens
      Accounts, Subcontests, ContestCreation
        Platform        all three together
    CollectionTheorems  sums, orders and least elements, for the proofs
    MatchRecordingProofs, ResultBookProofs, GroupFinalizationProofs,
    PredictionsProofs, PlatformProofs, SeedingProofs, ProgramsProofs
    MCInstances and the MC modules: small instances for TLC

**ScoringRules** has the formulas: what a match adds to a standing (lines
665-703), the winner by goals and penalties (749-781), achieved rounds and their
points (838-862), multipliers and base points (1054-1076). Line numbers without
a file are those of `adapters/storage/postgres/contest.go`.

**ContestTables** has the constants of a contest (matches, rounds, fixtures,
predictions, payloads) and the pure parts of `UpdateMatch`: how a payload finds
its match, which fields it may change, and which match the winner moves to. A
NULL column, like an absent field, is `Null`.

**ResultBook** is the promise: a call that is accepted changes the match, the
standings, the bracket and the scores at once.

**RowVersions** is PostgreSQL as the handlers use it: a row has a committed
version and, under a lock, the version its holder has written. A statement reads
its own writes and otherwise the last committed version; a statement that writes
waits for the lock, then works on the version committed by then. Commit
publishes, rollback discards, and a cycle of waiting transactions ends with one
of them rolled back.

**MatchRecording** runs any number of calls. A call is a record of its statement
(`pc`), the match it found, its `updateModel` (`upd`), its copies of the two
standings and the users it has yet to pay. `Lookup` is everything before the
transaction; after it there is one action per statement of the handler, and its
guard says which rows it has to wait for. `Reject` and `Abort` are the deferred
`Rollback`. A call that is repeated after its answer is lost is another member of
`Requests` with the same payload.

**GroupFinalization** does the same for the two finalizations. `CompleteGroup`
stands for the last result of a group arriving while a finalization runs. Ranks
and qualifiers are columns `UpdateMatch` does not read, so they are kept apart
from the standings.

**Predictions** has one table of prediction rows, each with the transaction that
inserts it and the one that deletes it: a save's `DELETE` works on the rows
committed when it began (`BeginDelete`) and waits for those that others delete
(`DeletePicks`); its `INSERT` waits for equal keys and fails on what the
constraints refuse; then comes the row of `contest_standings`. The INSERTs of a
save are one step, and so are its DELETEs: no other statement of the handler
comes between, and what a cycle of waiting saves needs is that two saves hold
rows the other one asks for, which happens between the steps that are left.
`checked` is the time read before the transaction. `QueryPayees` and `PayUsers`
stand for any finalization or knockout result that pays points, whose own
statements the modules above have.

**Leaderboards** adds boards: three SELECTs without a transaction, each with its
own ORDER BY on the score alone, so equal scores come in any order each time, and
each with its own joins. Beside them subcontests are joined and deleted, and the
deletion of an account takes its subcontests and entries along, so a section may
list other members than the one before it, or nobody.

**Sessions, Accounts, Subcontests, ContestCreation, Platform.** None of these
handlers opens a transaction, so each statement is an action and a call is the
record of what it has read so far (`user`, `found`). A row is named by the call
that inserted it. `AsUser` is the interceptor: the subject of a token that was
once signed for the caller's email is believed, whether or not there is an
account. `Break` ends a call between two statements: a cancelled request, a lost
connection, or a shutdown that has waited fifteen seconds. A retry is another
call with the same request. Foreign keys, UNIQUE columns and ON DELETE CASCADE
are what the statements do when they meet such a row.

**Tournament** is one contest of 48 countries and 104 matches in which calls come
one at a time. It takes `RecordMatch`'s tables from ResultBook by INSTANCE and
adds what ResultBook holds constant: predictions that change, ranks, group
points, and the queries whose order the programs rely on.

**Seeding** goes through the seed program loop by loop (`stage`, `todo`): five
kinds of contest (`future`, `in-progress`, `finished`, `perfect`, `perfect-ish`)
and the subcontests. Its contests share no row, so a behaviour plays one of them.
The program's shared array behind `allUserIDs` is modelled as such. The users it
makes are part of what is drawn (`Dice`): if two have the same username or e-mail,
the INSERT fails and the program ends (`Collides`, `CreateUsers`). With 50
usernames out of 40,000 that is about three runs in a hundred.
**Acceptance** has the calls of the acceptance program as numbered steps with
what the script expects of each. **Programs** starts one or the other on
whatever tables the last one left, and stops it anywhere.

### Coordinated calls

The repository's own clients send one administrative call at a time and the code
relies on it: its checks are made on rows it does not lock. `Coordinated` states
how little of that is needed. For `UpdateMatch`, calls in progress may not be
about the same match, about group matches that share a country, or about a match
and one it feeds; two semifinals may be recorded together. For finalizations,
not the same one of the same group. Under `CoordinatedSpec` the strong
properties hold; under `Spec` nothing is assumed, and the runs show what is left
and what breaks.

## Runs

Passing runs:

| Run | Instance and bounds | Shows |
|---|---|---|
| Book | all 9 matches of the Cup in bracket order, one call a step, 2 users (4,224 states) | `StandingsAgreeWithMatches`, `KnockoutScoresExact`, `BracketFollowsResults`, `OneMatchPerRound`, `ReachedIsFurthest`, `ResultsAreFinal` |
| RecordAtomic | 4 coordinated calls: 2 group matches that share a country, both semifinals, both matches of round 5 (11,164) | `CallsAreAtomic`: MatchRecording implements ResultBook |
| RecordTogether | 3 uncoordinated calls on 3 group matches that pairwise share a country, or on a quarterfinal, both semifinals and the final (49,150) | `RowArithmetic`, `GroupResultsDoNotDeadlock`, `AwardsAreNotLost`, `Termination` |
| FinalizeCoordinated | 2 groups of 4, 2 users, 4 calls, two orders of one group, a misspelt list (10,634) | `GroupScoresExact`, `GroupsAreFinalizedWhole`, `FinalsAreFinal` |
| FinalizeTogether | the same groups, 3 calls (18,872) | `PointsAreNotLost`, `Termination` |
| Saves | 3 saves of one user out of 7 submissions, a clock with two instants (157,084) | `PickersAreListed`, `SavesAreWhole`, `GroupsReadBack`, `LockedPicksStay`, `SavesEnd` |
| Boards | 2 saves, 2 payments and a leaderboard, a subcontest that is joined and may be deleted, 2 users who may leave (1,593,466) | `ScoresArePaid`, `BoardsAddUp` |
| Platform | lists of up to 8 calls of a superadmin and a user (420,308) | `LoginsAgree`, `EntriesAreJoined`, `OwnersAreIn`, `ContestsAreWhole`, `OnlyOwnersDelete`, `BoardsShowWhatWasChecked` |
| Drivers | both programs at full size, two samples of random numbers, two of users that collide (3,904) | `ProgramsSucceed`, `PerfectPredictions`, `RoundOf32IsWhole`, `PredictionsAreBrackets`, `ResultsKeepTheirOrder` |

The Cup of `MCInstances` is the smallest tournament at which every case happens: a
group of three has matches that pairwise share a country; the bracket has a
semifinal whose countries are known and one that two quarterfinals seed, even and
odd indices, a round before the semifinals, and both matches of round 5; two
users are enough for two transactions to lock them in opposite orders. The
quarterfinal Q3 and the semifinal S0 share no match row, but they pay the same
two users and deadlock over them; the final sent before its countries are known
is rejected. In RecordTogether, calls in progress together are of one stage
(`OneStage`): a group match and a knockout match touch no common row. Three calls
are enough for a conflict of two and a third that sees its effect. In Book a
payload names countries only where no result fills the slot, as the seed program
sends them. RecordAtomic gives the semifinal S1, whose quarterfinals are left out,
its countries directly. The run LateQuarterfinal shows what another order does.

In Saves, the submissions of one user name overlapping groups, move a country to
another group in both directions (two of them wait for each other's keys and
deadlock), replace a bracket, hold an unknown country, are empty or are for an
unknown contest. Two users would only add saves that share no row. The group
stage is open at instant 0 and the bracket from instant 1 on, so a save may commit
after its window. Boards has two users so that their order in a section matters,
a subcontest of one of them that the other may join, and a page with room for
both: the property is about nothing that a smaller page cuts off.

Platform's requests come in lists: they arrive in the order of the list, and their
statements interleave in every way. The lists are every order of five logins and
deletions (with two names for one email, one name for two emails, no name), of
three contest creations (one title twice, two titles with one slug, two countries
with one full name, a country twice), and six lists about subcontests whose later
calls come in every order: a slug and a code that go to another subcontest during
a deletion, a join or a look at the board, and an owner who leaves. Two join codes
are enough for a code to be given again. The API description asks for 12 groups
of 4, but nothing checks it at run time, and the four statements treat every
group and every bracket match alike, so groups of two and three countries show
what groups of four do.

Drivers has the real groups and the real number of users. Each random number is
drawn from a sample (`Dice`), so a behaviour is one seeding with those numbers;
matches of the group stage come from the database in no order and are played in
two. Two further samples are of users that collide: a username drawn twice, and a
superadmin's e-mail that is another user's.

Calls are symmetric and so are permuted in the runs that check no liveness, where
they are not numbered. Every call is made at most once, so every behaviour ends;
`AllAnswered`, `Exhausted` and the programs' last steps are the states where it
may rest, and TLC checks for any other deadlock. In Drivers a deadlock would be a
program that meets tables it cannot go on from.

Runs that find what the code does against what the repository says:

| Run | What happens | What the repository says |
|---|---|---|
| LostGroupUpdate | two results share a country and overlap; one is missing from its standing (line 611) | a "single SQL transaction to guarantee consistency" (571) |
| LateQuarterfinal | a quarterfinal recorded after its semifinal replaces a country of the completed semifinal; one call at a time is enough (793) | "cannot be updated again" (519) |
| DoubleRanking | two finalizations of a group both pass the check and both pay (999) | "on a once per contest basis" (`scoring.md` 36) |

The check that lets DoubleRanking happen, a plain read before the writes, is made
at two more places: two entries of one result both pass that of line 518, and two
answers for one third-place qualifier both pass that of line 1147. The passing
runs exclude those calls by `Coordinated`.

Five more things that modelling brought up, without a run of their own:

- `UpdateMatch` writes every column of the row it read before its transaction
  (590), so conduct scores sent while a result commits write NULL goals over it.
  `CallsAreAtomic` fails without `Coordinated` for that reason too.
- A knockout tie without penalties is completed for good (783): nobody advances,
  nothing is paid, and the match can no longer be changed.
- `append(allUserIDs[1:28], joeyID, jpmID)` in the seed program
  (`cmd/seed/main.go` 360, likewise 361 and 369) has room in the array it slices
  and so overwrites members of `allUserIDs`. The member list made from the whole
  array afterwards (366) misses four of the 55 users.
- The seed program draws usernames without looking for one it has drawn, although
  they are UNIQUE, so that some runs end at `log.Fatalf` (`cmd/seed/main.go` 96)
  with empty contests. So does every run whose SUPERADMIN_EMAILS begins with one of
  the addresses of the program's own users.
- The report the seed program prints for a contest without ranks takes the absent
  rank for 0 and prints "Q (Top 2)" for every country.

### Fairness

`Termination` and `SavesEnd` assume, for each call, weak fairness of "its next
statement, or the end of its deadlock": a running handler goes on, and
PostgreSQL's detector does not leave a cycle alone. They assume no fairness of
calls being made, of failures, of the clock, of account deletions, or of which
transaction a deadlock costs. Weak fairness is enough: a row a call waits for is
released only by its holder, which itself goes on or is on a cycle, and a handler
that is rolled back returns an error and does not try again. `Platform` and
`Programs` have no liveness property: every action of Platform is enabled once
its call is under way, since nothing waits there, and that the programs come to
their end is that they do not deadlock and fail in no step but the insertion of
users that collide.

## Proofs

### Types and arithmetic

`MatchRecordingProofs` proves for every contest and every number of concurrent
calls, from the assumptions on the constants in `ContestTables` and
`MatchRecording`:

- `TypeCorrect`: `Spec => []TypeOK`.
- `StandingsAddUp`: `Spec => []RowArithmetic`. However calls interleave, lose each
  other's update or are rolled back, each standing has three points a win, one a
  draw and an exact goal difference. A lost update loses a whole match, never a
  part of one.

Neither is inductive: `WriteStanding1` and `WriteStanding2` take a standing from
the call's locals, and the knockout branch takes countries from its row. The
invariant `IInv` adds `Local`, what a call's locals are at each statement: the
match and its row while it is in flight, goals and both countries in the branches
that use them, sound standings between the read and the write, a user to pay at
each award. The proof has one lemma per action (`...Invariant`); lemmas about the
operators (`CreditSound`, `MergeType`, `SeedType`, `WinnerType`, `PayOrder`) and
about row versions (`WriteType`, `EndType`) come first. `Invariance` combines
them.

### Lock order

`MatchRecordingProofs` also proves `GroupResultsNeverDeadlock`:
`Spec => []GroupResultsDoNotDeadlock`. No call of a group match is ever on a cycle
of waiting calls, in any contest and with any number of calls, although two
results of a group lock the standings of their countries one after the other
(lines 705 and 722) and no statement sorts them.

What saves the code is in another file. `CreateContest`
(`core/service/contest.go` 46-59) pairs a country with those listed after it, and
`UpdateMatch` writes the standings in the order of the pairing. `ContestTables`
states just that as `PairingAssumption`: every set of countries has one that is
paired first with none of the others. TLC evaluates it on the instances, and a
mutant of the runs that writes the winner's standing first does deadlock.

The invariant is `LockInv`, on top of `IInv`:

- `Pairings`: a group match keeps the countries of its fixture in its row and in
  the calls that record it, and each branch is only entered for its kind of match;
- `Locks`: a call holds a standing only from its first write on, and before its
  second one only that of its first country; a call of a group match holds no
  match row but its own; no call holds anything before it wrote its match row;
  the bracket's tables and the scores are held by knockout matches only.

`NoGroupDeadlock` is the argument: on a cycle everybody waits and is waited for.
Nobody on it is at its match row (it would hold nothing) or at its commit (it
would not wait). A call of a group match on it is waited for at a standing, so it
is at its second one and waits for a call whose first country that is, which is
again a group match. The second countries of these calls would be a set without
the country of `PairingAssumption`. `InitLocks` and one lemma per action
(`...Locks`) show that `LockInv` is invariant.

### Atomicity and awards

`MatchRecordingProofs` ends with `UpdateMatch` as it is executed:

- `Atomicity`: `CoordinatedSpec => CallsAreAtomic`. `MatchRecording`, statement by
  statement, implements `ResultBook` under the mapping that takes each table's
  committed versions. In any contest, with any number of calls in progress and
  with failures and rollbacks at every statement, the tables change as if each
  call that commits ran alone, at its commit.
- `AwardsStayPaid`: `Spec => []AwardsAreNotLost`, without coordination. Calls that
  conflict spoil each other's matches and standings, never the scores: the upsert
  reads the score under the lock it adds under.

`AtomInv` has two halves. `Effects` says of each table which rows a call holds at
its statement and that they hold what ResultBook's step writes when it is taken
on the tables that are committed at this moment; `Course`, at which statements
the call can be and whom it has yet to pay. `Fresh` says that what it read is
still what is committed: the match row it merged the payload into and the
standings it credited. Only `Fresh` needs `Coordinated`. The commit then is the
book's step (`RecordGroupResult`, `RecordKnockoutResult`, or `RecordFields` where
nothing is decided) and every other step a stutter; `Touches` and `Spares`
separate the rows a statement writes from those it leaves.
`AwardInv` keeps `ScoreEffects` and `Course` and drops `Fresh`: the committed
score is the sum of `Earnings` over the calls.

With `Atomicity`, what is proved of the book below holds of the tables that
concurrent coordinated calls commit (`Promise` is the book's proofs over those
tables, `BookIsPromise` that it is the same book):

- `CommittedStandingsStayRight`: the group tables are at every moment what the
  committed matches add up to;
- `CommittedBracketStaysRight`: the bracket follows from its results, results stay
  and scores are exact, under `CallsLeaveFedSlots`;
- `CommittedPathsStayRight`: no country is in two matches of a round and none
  stands below its furthest round, if also `CountriesEnterOnce`.

### The book of results

`ResultBookProofs` proves all properties of the run Book, for every contest
`CreateContest` can make and any calls and predictions.

- `TypeCorrect`, and `StandingsStayRight`: `Spec => []StandingsAgreeWithMatches`,
  without further hypotheses. `RowsInv` adds to the types that a completed match
  has both countries and a group match those of its fixture; `Tally` is the count
  of a country's matches over any table of matches, so that crediting a match can
  be compared with the tally of the table with that match completed.
- `BracketStaysRight`, `ResultsStayFinal`, `KnockoutScoresStayExact`, if
  `CallsLeaveFedSlots`: a call names a knockout match by its position and gives it
  no country in a slot that a result fills. `SlotsFollow` is what such a slot
  holds, empty until the match above it is decided; that is why a winner never
  lands in a match completed without it. The handler does not check the
  hypothesis. Both programs of the repository keep to it, and LateQuarterfinal
  shows a call that does not.
- `CountriesPlayOnce` and `ReachedStaysFurthest`, if also `CountriesEnterOnce`: no
  country is put into the bracket at two places. The argument goes round by round:
  a country that plays in a round entered there or won its match of the round
  before (`CameFrom`), so two places in one round would be two in the round before
  (`Apart`), and no match before it is still open (`Passed`). `UpdateMatch`
  overwrites the knockout standing without looking; `FurthestSoFar` shows that
  this never lowers it.

### Group finalization

`GroupFinalizationProofs` proves the properties of FinalizeCoordinated and
FinalizeTogether, for any groups, predictions and calls:

- `TypeCorrect`, and `NoPaymentIsLost`: `Spec => []PointsAreNotLost`, from the
  assumptions on the constants alone. `Local` gives the locals at each statement;
  `Payments` says which scores a call holds and that each is the committed score
  and what the call owes.
- `FinalsNeverChange`: `CoordinatedSpec => FinalsAreFinal`, if `ListsStayInGroup`.
  `Writes` says which rows a call holds and with which ranks and qualifier;
  `Fresh`, that what the checks of the handler found absent still is. Two calls of
  different groups never hold a common row only because a list names countries of
  its own group.
- `GroupsStayWhole`: `CoordinatedSpec => []GroupsAreFinalizedWhole`, if also
  `ListsAreWhole`: a list has every country of the group, or a code that is unknown
  and fails the call.
- `GroupScoresStayExact`: `CoordinatedSpec => []GroupScoresExact`, if
  `ListsStayInGroup` and `PicksStayInGroup`. A pick is paid in the commit that
  gives its country the rank, and the rank never changes (`ScoresAreWorth`).

The handlers check neither lists nor letters; administrators and clients send
them in this form, as the two programs do. A list that is not of this form is
finalized as it is and can never be corrected, which is a hazard in
`PROJECT.json`.

### Predictions and leaderboards

`PredictionsProofs` proves, for any users, dates, submissions and payments and any
number of saves and boards, from the assumptions of `Predictions` and
`Leaderboards` alone:

- `TypeCorrect`, `BoardsStayTyped`;
- `PickersStayListed`: `Spec => []PickersAreListed`;
- `LockedStay`: `Spec => LockedPicksStay`;
- `SavesStayWhole`: `Spec => SavesAreWhole`;
- `GroupsAreReadBack`: `Spec => GroupsReadBack`;
- `ScoresStayPaid`: `Spec => []ScoresArePaid`;
- `BoardsStayExact`: `Spec => []BoardsAddUp`. On a page with room for all, whoever
  the first two sections show is missing from the third only if the account or the
  subcontest is gone; nobody leaves a subcontest in another way.

`KnownInv` is what a save and a payment know by how far they have come, the check
of the window included. `VersionsInv` is about the row versions: who may have
written one, who may be deleting one, what a `DELETE` has seen, and that a save
past its `INSERT` has all its rows. `StandingsInv`: a save only ever writes a
missing row of `contest_standings`, and only after its predictions; a deletion of
the account takes both. `AloneInv` follows a save that no other save of the same
rows overlaps: it finds and deletes all it replaces. `InsertedHaveKeys` is what the
primary key leaves through: no country twice. So a stored group is never longer
than the table of countries, its rows have the places 1 to n (`EachIsARow`), and
sorting by place gives one order, the one that was sent (`OneOrder`,
`ListedAsSent`); no row of another save has a letter of the group. `PaidInv` keeps each score
equal to the sum of what was paid, `BoardsInv` that what a board has read stays a
lower bound, since scores never fall and the section of sums is read last, and that
who was shown is still a member.

### Sums and orders

`CollectionTheorems` has what the proofs above need of the community modules:
`SetToSeqs` orders each element of a set once (`EachOnce`, `WithoutFirst`), n
different numbers up to n in their order are 1 to n (`OrderedNumbers`), and
`MapThenSumSet` is a sum, whatever order it folds in (`Total...`). It folds by a
recursive function over subsets; `RecursionExists` and `RecursionAgrees` come
first. Where a statement is about all finite sets, the proof takes a smallest set
that would refute it (`SmallestSet`, from well-foundedness) and removes an element.

### Accounts, subcontests and contests

`PlatformProofs` proves the properties of the run Platform, for any number of calls
and any requests, all but the last from `SessionAssumption` alone:

- `TypeCorrect`: `Spec => []TypeOK`, rows and calls in progress.
- `OneAccountPerEmail`: `Spec => []LoginsAgree`.
- `MembersAskedForIt`: `Spec => []EntriesAreJoined`.
- `OwnersJoined`: `Spec => []OwnersAreIn`.
- `DeletionsAreTheOwners`: `Spec => OnlyOwnersDelete`.
- `ShownBoardsWereChecked`: `Spec => BoardsShowWhatWasChecked`.
- `ContestsStayWhole`: `Spec => []ContestsAreWhole`, if `LettersDiffer`.

The handlers look a row up, and act on its id or look up again one or two
statements later; meanwhile the row may be gone and its slug and code another's.
None of the properties is inductive without saying what a handler still knows by
then. That is `StillFound` in the invariant `IInv`: the id it holds was given to a
row that was inserted (`Inserted`), and if there is a row with that id, it still
has the code, the owner or the slug that was compared. It holds because an id is
never used again, rows of `subcontests` never change, and slugs are UNIQUE
(`SubcontestRows`). `Local` says which requests and callers reach which
statement; `AccountRows`, that the email of a row and of a token is that of the
request that made it.

`Moves` is what all steps of a call have in common; `CallsKept`, `CallsProper`,
`SubcontestsStay` and `EntriesStay` say what such a step cannot disturb.
`Elsewhere` covers the steps that leave accounts and subcontests alone,
`DeletionInvariant` both deletions with their cascades, `RowInserted` and
`InsertEntryInvariant` the insertions; with them there is one lemma per action.
The two action properties follow from the same invariant (`DeletedByOwner`,
`ShownWasChecked`).

`ContestsStayWhole` has an invariant of its own, `MadeInv`. `Making` says what rows a
contest has at each of the four statements: none but its own before the third,
exactly the matches of its lists and its bracket after it, exactly its listing
once the call was answered `ok`, and then no country is listed twice, since the
last statement would have failed on it. `OthersMade` keeps it for the calls that
do not move. From there on it is about the lists: a country has one place on them
(`OnePlace`), so it stands in one group (`StandsInItsGroup`) and meets each of the
others once (`MeetOnce`); the bracket is numbered by halves (`NumberedInHalves`).
`LettersDiffer`, that the groups of a request have different letters, is left to
the administrator: the handler inserts the letters it is given, and two groups of
one letter would be one group of which half the matches are missing.

### The programs

`SeedingProofs` and `ProgramsProofs` prove the properties of the run Drivers for
every contest of twelve groups of four, any drawn numbers and orders of group
matches, any users, however often the programs are stopped and started on the
tables of the last run. The assumptions are those on the constants of
`Tournament`, `Seeding` and `Acceptance` (`ContestAssumption`, `ColumnAssumption`,
`SeedAssumption`, `WildcardAssumption`, `AcceptanceAssumption`,
`EnvironmentAssumption`). The last is about the acceptance program's environment:
SUPERADMIN_EMAILS lists no address that the script gives its other users, since the
INSERT of such a user, its first login or the refusal it expects would go
otherwise. Only `PerfectScores` needs `WildcardAssumption`: the third countries of the eight groups
that the program's text gives Joey (`cmd/seed/main.go` 1573) come before the other
four by code, which is true of its 48 countries.

- `RoundOf32`: `Spec => []RoundOf32IsWhole`;
- `MadeUpBrackets`: `Spec => []PredictionsAreBrackets`;
- `BothSucceed`: `Spec => []ProgramsSucceed`: no call of either program is refused
  and no answer is other than the program expects, but for one: two of the users a
  run of the seed program draws collide, and it ends before it has a contest;
- `OrderIsKept`: `Spec => ResultsKeepTheirOrder`;
- `PointsInvariant`: `Spec => []NobodyExceeds600`, whatever is predicted and played;
- `PerfectScores`: `Spec => []PerfectPredictions`.

`SeedInv` (`SeedInvariant`) says that what is left of a loop is what the tables do
not hold yet while the program runs (`Active`), and that it has failed only over
users that collide. `Course` and `Loop` are where the program can be and of what its list
consists, never twice the same; `Tables` has one part per loop: a group match is
completed unless it is still to be played (`GroupRows`), a group is ranked as its
table is now (`Ranked`), the best eight of twelve third places are through
(`Settled`), the first round has the pairs (`Paired`), a knockout match is played
(`KnockoutRows`), and a slot is empty as long as the match it is filled from is
open (`Slots`). Without the last two, nothing says that the matches
`Playable(r)` finds at the end of a round are all of the next one, and the
program would end early without an error. `Cells` is the shared array, of which a
slice never reaches a cell that no append has filled. What carries the counts is
in lemmas about orders: `SortedOrders` (the queries' ORDER BY gives every row
once), `ThroughAre32`, `PairsList`, `RoundDone`.

The brackets have an invariant of their own, `PicksInv`: everybody who has a
bracket was given one by `BracketOf`, on the first round as it is
(`BracketsStay`). `BracketShape` shows what such a bracket is for any choice of
sides; that its countries differ is that the 32 of the first round do
(`TakenAreDifferent`).

`ScriptInv` (`ScriptInvariant`) is what the acceptance program knows at each step:
accounts and tokens (`Persons`), subcontests (`Clubs`), the matches of the first
group (`Results`), its table and its ranks (`TableA`, `FinalA`), predictions and
points (`ScriptPicks`, `ScriptScores`). The matches are played in any order, so
`TableA` counts by those left; the totals it expects of the API are 43, 45, 50 and
15 points, and 32 matches and predictions (`ThirtyTwoMatches`, `ThirtyTwoPicks`).

`OrderIsKept` combines both invariants. The order of a table without ranks is
`BestFirst`, that of one with ranks is by rank (`ShownUnranked`, `ShownRanked`), and
`RankingKeepsOrder` shows that ranking a group by its table leaves the order; after
that nothing writes its standings, since all its matches are completed.

The points are compared with what is decided so far: `GroupWorth(b)` is 45 points
for every ranked group and `b` for every settled third place, `KnockoutWorth(b)`
what a correct prediction of each played knockout match brings. `Worthy`, in
`PointsInv`, says that nobody has more than the worth with bonus 5, and
`WorthBounds` that this is at most 600. Each finalization and each knockout result
adds to a score at most what it adds to the worth (`RankingsGrow`,
`QualifiersGrow`, `KnockoutWorthGrows`).

Joey has exactly the worth, with bonus 5 or 0 (`JoeysPoints` in `JoeyInv`). He gets
it because the results come as he predicted them (`AsPredicted`): every group table
is what it is when each match is won by the country listed earlier
(`TableAsListed`), in the bracket the first-named country goes on (`FirstsGoOn`),
and what he has predicted by then is just that (`JoeysPicks`). So a group ends in
its listed order (`ListedOrder`), the twelve thirds are level and sort by code
(`ThirdsAsListed`). `PointsAtTheEnd` reads off 600 and 600 points, or 540 and 595.

### What is only model-checked

- Liveness (`Termination`, `SavesEnd`), which the proof system does not reach. Every
  other property of a passing run is stated by a theorem.
- That the hypotheses above hold: TLC evaluates them on the instances, as it does
  every assumption on a constant.

## What the models leave out

- Names, ids, request decoding and error texts. A country code the table lacks is
  an absent country. Slugs, titles, codes and names are constants with the
  functions the code computes (`SlugOf`); the join code is any code of a set.
- Signatures, expiry and parsing of tokens: a token is the pair it was signed for.
- The statements before the transaction of `UpdateMatch` (countries, match) are
  one step: countries never change, so only the read of the match row matters.
- In MatchRecording and GroupFinalization predictions and fixtures are constants;
  Predictions has predictions that change while points are paid, with a payment as
  two steps.
- `DeleteUser` is one step in Predictions and in Accounts: it is one statement,
  and it waits until no transaction holds a row of the user.
- Goals are natural numbers of arbitrary size; the columns are 32 bits wide and
  the sums of a group are far below that. Points of a group are at most 45 and 5.
- In Leaderboards a subcontest exists from the start and its owner is in it; who may
  look at its board is Subcontests' matter.
- Of the usernames and e-mails the seed program draws, whether two are equal.
- Pages have natural limits and offsets; a negative one is an error of the SELECT.
- A commit whose answer is lost is not distinguished from one that is answered:
  the client learns nothing the tables do not show.
- That the acceptance program starts its server in a goroutine and waits a second
  before the first call; the model begins once it answers.
- The printed reports, except what `RoundOf32IsWhole` and `PredictionsAreBrackets`
  compare with the tables.

### Not modelled

- User search: one read-only query and the escaping of a pattern.
- Request handling and mapping: field-by-field copies between generated messages
  and entities. What it lets through is the inputs of the modules: it checks no
  letter, no repetition and no length.
- Server bootstrap: wiring and I/O. That it stops at any point is `Abort`,
  `AbortSave` and `Break`.
- Developer tools, ports and entities, generated code: no behaviour of their own.
- Database schema: its columns, keys and cascades are in the modules that use
  them.
- Of the read paths, ListContests and ListKnockoutResults with the mapping of
  their rows: single SELECTs that nothing in the models reads.

## Plan

1. A composition of recording and finalization statement by statement: a
   finalization that runs while the last match of its group is recorded, in
   place of `CompleteGroup`.
