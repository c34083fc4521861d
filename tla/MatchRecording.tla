--------------------------- MODULE MatchRecording ---------------------------
(***************************************************************************)
(* ContestRepository.UpdateMatch, statement by statement, for any number   *)
(* of calls in progress at once.  A call looks its match up outside its    *)
(* transaction, then runs the transaction: the match row, and for a result *)
(* the two group standings, or the bracket, the knockout standings and the *)
(* scores of the users who predicted the winner.                           *)
(*                                                                         *)
(* Every action is one SQL statement.  PostgreSQL runs a statement of a    *)
(* READ COMMITTED transaction on the last committed rows and on its own    *)
(* writes; an UPDATE or upsert waits while another transaction holds the   *)
(* row.                                                                    *)
(***************************************************************************)
EXTENDS ContestTables, Sequences, SequencesExt

CONSTANT Requests   \* the calls of UpdateMatch; each is made at most once

ASSUME RequestAssumption == Null \notin Requests /\ IsFiniteSet(Requests)

VARIABLES
  matches, standings, reached, knockoutScore,   \* tables of row versions
  calls                                         \* the local state of each call

tables == <<matches, standings, reached, knockoutScore>>
vars == <<matches, standings, reached, knockoutScore, calls>>

Rows == INSTANCE RowVersions

(***************************************************************************)
(* A call: the statement it is at, its match, updateModel, its copies of   *)
(* the two standings, and the users it has yet to pay.                     *)
(***************************************************************************)
Statements ==
  {"updateMatch", "readStanding1", "readStanding2", "writeStanding1",
   "writeStanding2", "reject", "advanceWinner", "seedLoser", "upsertWinner",
   "queryPicks", "award", "upsertLoser", "commit"}

Call ==
  [pc : Statements \cup {"idle", "done", "failed"},
   match : Matches \cup {Null},
   upd : MatchRow \cup {Null},
   s1 : StandingRow \cup {Null},
   s2 : StandingRow \cup {Null},
   unpaid : Seq(Users)]

Idle ==
  [pc |-> "idle", match |-> Null, upd |-> Null, s1 |-> Null, s2 |-> Null,
   unpaid |-> <<>>]

InFlight(r) == calls[r].pc \in Statements
Answered(r) == calls[r].pc \in {"done", "failed"}

TypeOK ==
  /\ matches \in [Matches -> Rows!RowVersion(MatchRow, Requests)]
  /\ standings \in [Countries -> Rows!RowVersion(StandingRow, Requests)]
  /\ reached \in [Countries -> Rows!RowVersion(0 .. 7, Requests)]
  /\ knockoutScore \in [Users -> Rows!RowVersion(Nat, Requests)]
  /\ calls \in [Requests -> Call]

Init ==
  /\ matches = [m \in Matches |-> Rows!Committed(Unplayed(m))]
  /\ standings = [c \in Countries |-> Rows!Committed(ZeroStanding)]
  /\ reached = [c \in Countries |-> Rows!Committed(0)]
  /\ knockoutScore = [u \in Users |-> Rows!Committed(0)]
  /\ calls = [r \in Requests |-> Idle]

GoTo(r, pc) == calls' = [calls EXCEPT ![r].pc = pc]

(***************************************************************************)
(* The rows the next statement of a call writes, and who holds them        *)
(***************************************************************************)
Awaited(r) ==
  LET c == calls[r]
  IN  CASE c.pc = "updateMatch"    -> {matches[c.match].by}
        [] c.pc = "writeStanding1" -> {standings[c.upd.c1].by}
        [] c.pc = "writeStanding2" -> {standings[c.upd.c2].by}
        [] c.pc = "advanceWinner"  -> {matches[n].by : n \in NextMatches(c.match)}
        [] c.pc = "seedLoser"      -> {matches[n].by : n \in ThirdPlaceMatches(c.match)}
        [] c.pc = "upsertWinner"   -> {reached[Winner(c.upd)].by}
        [] c.pc = "award"          -> {knockoutScore[Head(c.unpaid)].by}
        [] c.pc = "upsertLoser"    -> {reached[Loser(c.upd)].by}
        [] OTHER                   -> {}

\* The statement the call is at need not wait.
At(r, pc) == calls[r].pc = pc /\ Awaited(r) \subseteq {Null, r}

\* r waits for a row that s holds.
WaitsFor(r, s) == r # s /\ s \in Awaited(r)

\* r is on a cycle of waiting calls: each waits for at most one other, so the
\* cycles are the sets in which everybody waits and is waited for.
Deadlocked(r) ==
  \E S \in SUBSET Requests :
    /\ r \in S
    /\ \A q \in S : /\ \E s \in S : WaitsFor(q, s)
                    /\ \E s \in S : WaitsFor(s, q)

----------------------------------------------------------------------------
(***************************************************************************)
(* Before the transaction: find the match, refuse a completed one, merge   *)
(* the fields the call carries into the row that was read.                 *)
(***************************************************************************)
Lookup(r) ==
  /\ calls[r].pc = "idle"
  /\ \E payload \in Payloads :
       LET rows  == Rows!Current(matches)
           found == Found(rows, payload)
       IN  \/ /\ found = {}
              /\ GoTo(r, "failed")
           \/ \E m \in found :
                \/ Completed(rows[m]) /\ GoTo(r, "failed")
                \/ /\ ~Completed(rows[m]) /\ ~HasUpdates(m, payload)
                   /\ GoTo(r, "done")
                \/ /\ ~Completed(rows[m]) /\ HasUpdates(m, payload)
                   /\ calls' = [calls EXCEPT
                        ![r] = [Idle EXCEPT !.pc = "updateMatch", !.match = m,
                                            !.upd = Merge(m, rows[m], payload)]]
  /\ UNCHANGED tables

\* The statement after the match row is written.
AfterUpdate(m, upd) ==
  IF ~Completed(upd) THEN "commit"
  ELSE IF ~HasCountries(upd) THEN "reject"
  ELSE IF ~IsKnockout(m) THEN "readStanding1"
  ELSE IF ~HasWinner(upd) THEN "commit"
  ELSE IF Round[m] < 5 THEN "advanceWinner"
  ELSE "upsertWinner"

\* All eight columns are written, those the call does not carry included.
UpdateMatchRow(r) ==
  /\ At(r, "updateMatch")
  /\ LET c == calls[r]
     IN  /\ matches' = [matches EXCEPT ![c.match] = Rows!Write(@, r, c.upd)]
         /\ GoTo(r, AfterUpdate(c.match, c.upd))
  /\ UNCHANGED <<standings, reached, knockoutScore>>

(***************************************************************************)
(* The group branch                                                        *)
(***************************************************************************)
ReadStanding1(r) ==
  /\ At(r, "readStanding1")
  /\ LET c == calls[r]
     IN  calls' = [calls EXCEPT ![r].pc = "readStanding2",
           ![r].s1 = CreditFirst(Rows!Read(standings[c.upd.c1], r), c.upd)]
  /\ UNCHANGED tables

\* Mutant: the standing of the country that won is written first.
ReadStanding2WinnerFirst(r) ==
  /\ At(r, "readStanding2")
  /\ LET c == calls[r]
         s2 == CreditSecond(Rows!Read(standings[c.upd.c2], r), c.upd)
     IN  IF FirstWins(c.upd)
         THEN calls' = [calls EXCEPT ![r].pc = "writeStanding1", ![r].s2 = s2]
         ELSE calls' = [calls EXCEPT
                ![r] = [@ EXCEPT !.pc = "writeStanding1", !.s1 = s2, !.s2 = c.s1,
                                 !.upd = [@ EXCEPT !.c1 = c.upd.c2,
                                                   !.c2 = c.upd.c1]]]
  /\ UNCHANGED tables

ReadStanding2(r) ==
  /\ At(r, "readStanding2")
  /\ LET c == calls[r]
     IN  calls' = [calls EXCEPT ![r].pc = "writeStanding1",
           ![r].s2 = CreditSecond(Rows!Read(standings[c.upd.c2], r), c.upd)]
  /\ UNCHANGED tables

WriteStanding1(r) ==
  /\ At(r, "writeStanding1")
  /\ standings' = [standings EXCEPT
       ![calls[r].upd.c1] = Rows!Write(@, r, calls[r].s1)]
  /\ GoTo(r, "writeStanding2")
  /\ UNCHANGED <<matches, reached, knockoutScore>>

WriteStanding2(r) ==
  /\ At(r, "writeStanding2")
  /\ standings' = [standings EXCEPT
       ![calls[r].upd.c2] = Rows!Write(@, r, calls[r].s2)]
  /\ GoTo(r, "commit")
  /\ UNCHANGED <<matches, reached, knockoutScore>>

(***************************************************************************)
(* The knockout branch                                                     *)
(***************************************************************************)
AdvanceWinner(r) ==
  /\ At(r, "advanceWinner")
  /\ LET c == calls[r]
     IN  /\ matches' = [n \in Matches |->
              IF n \in NextMatches(c.match)
              THEN Rows!Write(matches[n], r,
                     SeedWinner(c.match, Rows!Read(matches[n], r), Winner(c.upd)))
              ELSE matches[n]]
         /\ GoTo(r, IF Round[c.match] = 4 THEN "seedLoser" ELSE "upsertWinner")
  /\ UNCHANGED <<standings, reached, knockoutScore>>

SeedThirdPlace(r) ==
  /\ At(r, "seedLoser")
  /\ LET c == calls[r]
     IN  matches' = [n \in Matches |->
           IF n \in ThirdPlaceMatches(c.match)
           THEN Rows!Write(matches[n], r,
                  SeedLoser(c.match, Rows!Read(matches[n], r), Loser(c.upd)))
           ELSE matches[n]]
  /\ GoTo(r, "upsertWinner")
  /\ UNCHANGED <<standings, reached, knockoutScore>>

UpsertWinner(r) ==
  /\ At(r, "upsertWinner")
  /\ reached' = [reached EXCEPT
       ![Winner(calls[r].upd)] = Rows!Write(@, r, Achieved(calls[r].match))]
  /\ GoTo(r, "queryPicks")
  /\ UNCHANGED <<matches, standings, knockoutScore>>

\* The statement after the last award.
AfterAwards(m) == IF Round[m] = 4 THEN "upsertLoser" ELSE "commit"

AfterAward(m, unpaid) == IF unpaid = <<>> THEN AfterAwards(m) ELSE "award"

\* Mutant: the picks of the round played, not of the round achieved.
QueryPicksOfRoundPlayed(r) ==
  /\ At(r, "queryPicks")
  /\ LET c == calls[r]
     IN  \E order \in SetToSeqs(Pickers(Winner(c.upd), Round[c.match])) :
           calls' = [calls EXCEPT ![r].pc = AfterAward(c.match, order),
                                  ![r].unpaid = order]
  /\ UNCHANGED tables

\* The query has no ORDER BY: the users come in any order.
QueryPicks(r) ==
  /\ At(r, "queryPicks")
  /\ LET c == calls[r]
     IN  \E order \in SetToSeqs(Pickers(Winner(c.upd), Achieved(c.match))) :
           calls' = [calls EXCEPT ![r].pc = AfterAward(c.match, order),
                                  ![r].unpaid = order]
  /\ UNCHANGED tables

\* Mutant: the upsert sets the score instead of adding to it.
AwardUserWithoutAdd(r) ==
  /\ At(r, "award")
  /\ LET c == calls[r]
         u == Head(c.unpaid)
     IN  /\ knockoutScore' = [knockoutScore EXCEPT
              ![u] = Rows!Write(@, r, AwardPoints(Achieved(c.match)))]
         /\ calls' = [calls EXCEPT ![r].pc = AfterAward(c.match, Tail(c.unpaid)),
                                   ![r].unpaid = Tail(c.unpaid)]
  /\ UNCHANGED <<matches, standings, reached>>

AwardUser(r) ==
  /\ At(r, "award")
  /\ LET c == calls[r]
         u == Head(c.unpaid)
     IN  /\ knockoutScore' = [knockoutScore EXCEPT
              ![u] = Rows!Write(@, r, Rows!Read(@, r) + AwardPoints(Achieved(c.match)))]
         /\ calls' = [calls EXCEPT ![r].pc = AfterAward(c.match, Tail(c.unpaid)),
                                   ![r].unpaid = Tail(c.unpaid)]
  /\ UNCHANGED <<matches, standings, reached>>

UpsertLoser(r) ==
  /\ At(r, "upsertLoser")
  /\ reached' = [reached EXCEPT ![Loser(calls[r].upd)] = Rows!Write(@, r, 5)]
  /\ GoTo(r, "commit")
  /\ UNCHANGED <<matches, standings, knockoutScore>>

----------------------------------------------------------------------------
(***************************************************************************)
(* The end of a transaction                                                *)
(***************************************************************************)
Commit(r) ==
  /\ At(r, "commit")
  /\ matches' = Rows!Publish(matches, r)
  /\ standings' = Rows!Publish(standings, r)
  /\ reached' = Rows!Publish(reached, r)
  /\ knockoutScore' = Rows!Publish(knockoutScore, r)
  /\ calls' = [calls EXCEPT
       ![r] = [@ EXCEPT !.pc = "done", !.s1 = Null, !.s2 = Null]]

\* Mutant: a failed transaction is tried again until it commits.
RollBackAndRetry(r) ==
  /\ matches' = Rows!Discard(matches, r)
  /\ standings' = Rows!Discard(standings, r)
  /\ reached' = Rows!Discard(reached, r)
  /\ knockoutScore' = Rows!Discard(knockoutScore, r)
  /\ calls' = [calls EXCEPT ![r].pc = "updateMatch", ![r].unpaid = <<>>]

RollBack(r) ==
  /\ matches' = Rows!Discard(matches, r)
  /\ standings' = Rows!Discard(standings, r)
  /\ reached' = Rows!Discard(reached, r)
  /\ knockoutScore' = Rows!Discard(knockoutScore, r)
  /\ calls' = [calls EXCEPT ![r] = [Idle EXCEPT !.pc = "failed"]]

\* A result for a match whose countries are not known: the deferred Rollback.
Reject(r) == At(r, "reject") /\ RollBack(r)

\* The deferred Rollback after a failed statement: the caller's context is
\* cancelled, the connection breaks or the server stops.
Abort(r) == InFlight(r) /\ RollBack(r)

\* PostgreSQL ends a transaction it finds on a cycle of waiting transactions.
DeadlockAbort(r) == Deadlocked(r) /\ RollBack(r)

----------------------------------------------------------------------------
Statement(r) ==
  \/ UpdateMatchRow(r)
  \/ ReadStanding1(r) \/ ReadStanding2(r)
  \/ WriteStanding1(r) \/ WriteStanding2(r)
  \/ AdvanceWinner(r) \/ SeedThirdPlace(r)
  \/ UpsertWinner(r) \/ QueryPicks(r) \/ AwardUser(r) \/ UpsertLoser(r)
  \/ Reject(r) \/ Commit(r)

\* Every call has been answered; the contest may rest here.
AllAnswered == (\A r \in Requests : Answered(r)) /\ UNCHANGED vars

Next ==
  \/ \E r \in Requests :
       Lookup(r) \/ Statement(r) \/ Abort(r) \/ DeadlockAbort(r)
  \/ AllAnswered

\* A handler that is running goes on, and PostgreSQL resolves deadlocks.
Fairness ==
  \A r \in Requests : WF_vars(Statement(r) \/ DeadlockAbort(r))

Spec == Init /\ [][Next]_vars
FairSpec == Spec /\ Fairness

(***************************************************************************)
(* The calls an administrator may have in progress together: those of      *)
(* matches that share no row whose old value a transaction relies on.  One *)
(* call at a time, as the repository's own drivers make them, is a special *)
(* case.  Two matches that feed the same next match do not conflict: both  *)
(* write single columns of it under its lock.                              *)
(***************************************************************************)
Feeds(m, n) == n \in NextMatches(m) \cup ThirdPlaceMatches(m)

ShareCountry(m, n) ==
  /\ ~IsKnockout(m) /\ ~IsKnockout(n)
  /\ {Fixtures[m].c1, Fixtures[m].c2} \cap {Fixtures[n].c1, Fixtures[n].c2} # {}

Conflict(m, n) == m = n \/ ShareCountry(m, n) \/ Feeds(m, n) \/ Feeds(n, m)

Coordinated ==
  \A r, s \in Requests :
    r # s /\ InFlight(r) /\ InFlight(s) => ~Conflict(calls[r].match, calls[s].match)

CoordinatedNext == Next /\ Coordinated'
CoordinatedSpec == Init /\ [][CoordinatedNext]_vars

----------------------------------------------------------------------------
(***************************************************************************)
(* Properties                                                              *)
(***************************************************************************)
Book == INSTANCE ResultBook WITH
  matches <- Rows!Current(matches), standings <- Rows!Current(standings),
  reached <- Rows!Current(reached), knockoutScore <- Rows!Current(knockoutScore)

\* Coordinated calls are atomic: the committed tables only change as if each
\* call ran alone in one step (UpdateMatch's transaction and the reads before it).
CallsAreAtomic == Book!Spec

\* Whatever runs together, every standing row, committed or being written,
\* adds up: three points a win, one a draw, and the goal difference is exact.
Arithmetic(s) == s.points = 3 * s.wins + s.draws /\ s.gd = s.gf - s.ga

RowArithmetic ==
  \A c \in Countries :
    Arithmetic(standings[c].cur) /\ Arithmetic(standings[c].new)

\* Awards are added in SQL to the row under its lock, so no award of a committed
\* call is ever lost or paid in part, even between conflicting calls.
Awarded(r, u) ==
  LET c == calls[r]
  IN  /\ c.pc = "done" /\ c.upd # Null
      /\ IsKnockout(c.match) /\ Completed(c.upd) /\ HasWinner(c.upd)
      /\ <<u, Winner(c.upd), Achieved(c.match)>> \in Picks

AwardsAreNotLost ==
  \A u \in Users :
    knockoutScore[u].cur =
      MapThenSumSet(LAMBDA r : AwardPoints(Achieved(calls[r].match)),
                    {r \in Requests : Awarded(r, u)})

\* Results of group matches never wait for each other in a cycle: CreateContest
\* pairs the countries of a group in one order, UpdateMatch locks the standings
\* in the order of the pairing, and it takes no other lock that a second result
\* could want while it holds them.
GroupResultsDoNotDeadlock ==
  \A r \in Requests : Deadlocked(r) => IsKnockout(calls[r].match)

\* A call that has started is answered, whatever else runs and fails.
Termination == \A r \in Requests : InFlight(r) ~> Answered(r)

\* Group tables agree with the matches at every commit (ResultBook).
StandingsAgreeWithMatches == Book!StandingsAgreeWithMatches

\* "match has already been completed and cannot be updated again".
ResultsAreFinal == Book!ResultsAreFinal
=============================================================================
