------------------------ MODULE MatchRecordingProofs ------------------------
(***************************************************************************)
(* Type correctness of MatchRecording and the arithmetic of the group      *)
(* table, the order of its locks, and the atomicity of coordinated calls:  *)
(* statement by statement, UpdateMatch implements ResultBook.  All of it   *)
(* for any contest, any calls and any number of them in progress.  A call  *)
(* takes effect when it commits; every other step, rollbacks included,     *)
(* leaves the committed tables as they are.  Without coordination the      *)
(* tables may go wrong, but no award is lost.                              *)
(***************************************************************************)
EXTENDS MatchRecording, CollectionTheorems

(***************************************************************************)
(* The inductive invariant.  A write takes the standings from the locals   *)
(* of the call, so the invariant says what these hold at every statement:  *)
(* the match and its row while the call is in flight, a result with both   *)
(* countries in the branches that use them, sound standings from the read  *)
(* to the write, and a user to pay at every award.                         *)
(***************************************************************************)
\* A well-typed standing that adds up.
Sound(s) == s \in StandingRow /\ Arithmetic(s)

\* The statements that only a result with both countries reaches.
OfResult == Statements \ {"updateMatch", "reject", "commit"}

Local(c) ==
  /\ c.pc \in Statements => c.match \in Matches /\ c.upd \in MatchRow
  /\ c.pc \in OfResult => Completed(c.upd) /\ HasCountries(c.upd)
  /\ c.pc \in {"readStanding2", "writeStanding1", "writeStanding2"} => Sound(c.s1)
  /\ c.pc \in {"writeStanding1", "writeStanding2"} => Sound(c.s2)
  /\ c.pc = "award" => c.unpaid # <<>>

IInv == TypeOK /\ RowArithmetic /\ \A r \in Requests : Local(calls[r])

----------------------------------------------------------------------------
(***************************************************************************)
(* Lemmas about the operators                                              *)
(***************************************************************************)
\* A match adds to a standing that adds up one that adds up.
LEMMA CreditSound ==
  ASSUME NEW s, Sound(s), NEW gf \in Nat, NEW ga \in Nat, NEW cs \in Int
  PROVE  Sound(Credit(s, gf, ga, cs))
<1>1. One(gf > ga) \in {0, 1} /\ One(gf = ga) \in {0, 1} /\ One(gf < ga) \in {0, 1}
  BY DEF One
<1> DEFINE w == One(gf > ga)
           d == One(gf = ga)
           l == One(gf < ga)
<1>2. w \in Nat /\ d \in Nat /\ l \in Nat
  BY <1>1
<1> HIDE DEF w, d, l
<1>3. Credit(s, gf, ga, cs) =
        [wins |-> s.wins + w, draws |-> s.draws + d, losses |-> s.losses + l,
         gf |-> s.gf + gf, ga |-> s.ga + ga, gd |-> (s.gf + gf) - (s.ga + ga),
         points |-> s.points + 3 * w + d, cs |-> s.cs + cs]
  BY DEF Credit, w, d, l
<1> QED
  BY <1>2, <1>3 DEF Sound, StandingRow, Arithmetic

\* Both standings of a completed match are credited soundly.
LEMMA CreditsSound ==
  ASSUME NEW s, Sound(s), NEW row \in MatchRow, Completed(row)
  PROVE  Sound(CreditFirst(s, row)) /\ Sound(CreditSecond(s, row))
<1>1. row.g1 \in Nat /\ row.g2 \in Nat
  BY DEF MatchRow, Score, Completed
<1>2. Conduct(row.cs1) \in Int /\ Conduct(row.cs2) \in Int
  BY DEF MatchRow, Conduct
<1> QED
  BY <1>1, <1>2, CreditSound DEF CreditFirst, CreditSecond

\* The row of a match as CreateMatches leaves it is a row.
LEMMA UnplayedType == \A m \in Matches : Unplayed(m) \in MatchRow
  BY FixtureAssumption DEF Unplayed, MatchRow, Score, Slot

\* Merging a payload into a row gives a row.
LEMMA MergeType ==
  ASSUME NEW m \in Matches, NEW row \in MatchRow, NEW payload \in Payloads
  PROVE  Merge(m, row, payload) \in MatchRow
<1>1. payload \in Payload
  BY PayloadAssumption
<1> QED
  BY <1>1 DEF Merge, Given, KnockoutGiven, MatchRow, Payload

\* Seeding a country into a row gives a row.
LEMMA SeedType ==
  ASSUME NEW m \in Matches, NEW row \in MatchRow, NEW c \in Countries
  PROVE  SeedWinner(m, row, c) \in MatchRow /\ SeedLoser(m, row, c) \in MatchRow
  BY DEF SeedWinner, SeedLoser, MatchRow, Slot

\* Winner and loser of a row with both countries are countries.
LEMMA WinnerType ==
  ASSUME NEW row \in MatchRow, HasCountries(row)
  PROVE  Winner(row) \in Countries /\ Loser(row) \in Countries
  BY DEF Winner, Loser, HasCountries, MatchRow, Slot

\* A result achieves one of the rounds of the knockout standings.
LEMMA AchievedType == \A m \in Matches : Achieved(m) \in 0 .. 7
  BY RoundAssumption DEF Achieved, AchievedRound

\* An order in which the users are paid is a sequence of users.
LEMMA PayOrder ==
  ASSUME NEW c, NEW round, NEW order \in SetToSeqs(Pickers(c, round))
  PROVE  order \in Seq(Users)
<1>1. Pickers(c, round) \subseteq Users
  BY DEF Pickers
<1>2. Cardinality(Pickers(c, round)) \in Nat
  BY <1>1, UsersAssumption, FS_Subset, FS_CardinalityType
<1>3. order \in [1 .. Cardinality(Pickers(c, round)) -> Users]
  BY <1>1 DEF SetToSeqs
<1> QED
  BY <1>2, <1>3

\* The next statement of a call is a statement, and one of the branches only
\* for a result with both countries.
LEMMA AfterUpdateType ==
  ASSUME NEW m, NEW upd
  PROVE  /\ AfterUpdate(m, upd) \in
              {"commit", "reject", "readStanding1", "advanceWinner", "upsertWinner"}
         /\ AfterUpdate(m, upd) \notin {"commit", "reject"} =>
              Completed(upd) /\ HasCountries(upd)
  BY DEF AfterUpdate

LEMMA AfterAwardType ==
  ASSUME NEW m, NEW unpaid
  PROVE  /\ AfterAward(m, unpaid) \in {"award", "upsertLoser", "commit"}
         /\ AfterAward(m, unpaid) = "award" => unpaid # <<>>
  BY DEF AfterAward, AfterAwards

\* The locals of a call that begins its transaction.
LEMMA FirstLocals ==
  ASSUME NEW m \in Matches, NEW upd \in MatchRow
  PROVE  LET c == [Idle EXCEPT !.pc = "updateMatch", !.match = m, !.upd = upd]
         IN  c \in Call /\ Local(c)
<1> DEFINE c == [Idle EXCEPT !.pc = "updateMatch", !.match = m, !.upd = upd]
<1>1. Idle \in Call
  BY DEF Idle, Call
<1>2. c \in Call
  BY <1>1 DEF Call, Statements
<1>3. c.pc = "updateMatch" /\ c.match = m /\ c.upd = upd
  BY <1>1 DEF Call
<1> QED
  BY <1>2, <1>3 DEF Local, OfResult

----------------------------------------------------------------------------
(***************************************************************************)
(* Lemmas about tables of row versions and about the calls                 *)
(***************************************************************************)
\* Writing a value of its type keeps a row a row.
LEMMA WriteType ==
  ASSUME NEW V, NEW row \in Rows!RowVersion(V, Requests), NEW r \in Requests,
         NEW v \in V
  PROVE  /\ Rows!Write(row, r, v) \in Rows!RowVersion(V, Requests)
         /\ Rows!Read(row, r) \in V
  BY DEF Rows!Write, Rows!Read, Rows!RowVersion

\* Committing or rolling back keeps a table a table.
LEMMA EndType ==
  ASSUME NEW K, NEW V, NEW table \in [K -> Rows!RowVersion(V, Requests)], NEW r
  PROVE  /\ Rows!Publish(table, r) \in [K -> Rows!RowVersion(V, Requests)]
         /\ Rows!Discard(table, r) \in [K -> Rows!RowVersion(V, Requests)]
  BY DEF Rows!Publish, Rows!Discard, Rows!RowVersion, Rows!Committed

\* A step that replaces the locals of one call keeps what holds of them.
LEMMA CallStep ==
  ASSUME NEW f \in [Requests -> Call], \A q \in Requests : Local(f[q]),
         NEW r \in Requests, NEW c \in Call, Local(c)
  PROVE  /\ [f EXCEPT ![r] = c] \in [Requests -> Call]
         /\ \A q \in Requests : Local([f EXCEPT ![r] = c][q])
  OBVIOUS
----------------------------------------------------------------------------
(***************************************************************************)
(* The invariant holds initially and every action preserves it             *)
(***************************************************************************)
LEMMA InitInvariant == Init => IInv
<1> SUFFICES ASSUME Init PROVE IInv
  OBVIOUS
<1>1. Sound(ZeroStanding)
  BY DEF Sound, ZeroStanding, StandingRow, Arithmetic
<1>2. TypeOK
  <2>1. matches \in [Matches -> Rows!RowVersion(MatchRow, Requests)]
    BY UnplayedType DEF Init, Rows!RowVersion, Rows!Committed
  <2>2. standings \in [Countries -> Rows!RowVersion(StandingRow, Requests)]
    BY <1>1 DEF Init, Rows!RowVersion, Rows!Committed, Sound
  <2>3. /\ reached \in [Countries -> Rows!RowVersion(0 .. 7, Requests)]
        /\ knockoutScore \in [Users -> Rows!RowVersion(Nat, Requests)]
    BY DEF Init, Rows!RowVersion, Rows!Committed
  <2>4. calls \in [Requests -> Call]
    BY DEF Init, Idle, Call
  <2> QED
    BY <2>1, <2>2, <2>3, <2>4 DEF TypeOK
<1>3. RowArithmetic
  BY <1>1 DEF Init, RowArithmetic, Rows!Committed, Sound
<1>4. \A r \in Requests : Local(calls[r])
  BY DEF Init, Idle, Local, Statements, OfResult
<1> QED
  BY <1>2, <1>3, <1>4 DEF IInv

\* Every standing a call reads is sound.
LEMMA ReadSound ==
  ASSUME IInv, NEW c \in Countries, NEW r
  PROVE  Sound(Rows!Read(standings[c], r))
  BY DEF IInv, TypeOK, RowArithmetic, Rows!Read, Rows!RowVersion, Sound

\* A step that leaves the standings alone and keeps the other tables and the
\* locals of the calls in order preserves the invariant.
LEMMA OtherTables ==
  ASSUME IInv, UNCHANGED standings,
         matches' \in [Matches -> Rows!RowVersion(MatchRow, Requests)],
         reached' \in [Countries -> Rows!RowVersion(0 .. 7, Requests)],
         knockoutScore' \in [Users -> Rows!RowVersion(Nat, Requests)],
         NEW r \in Requests, NEW c \in Call, Local(c),
         calls' = [calls EXCEPT ![r] = c]
  PROVE  IInv'
<1>1. calls' \in [Requests -> Call] /\ \A q \in Requests : Local(calls'[q])
  BY CallStep DEF IInv, TypeOK
<1> QED
  BY <1>1 DEF IInv, TypeOK, RowArithmetic

\* A step of a call that only moves on preserves the invariant.
LEMMA OnlyCalls ==
  ASSUME IInv, UNCHANGED tables, NEW r \in Requests, NEW c \in Call, Local(c),
         calls' = [calls EXCEPT ![r] = c]
  PROVE  IInv'
  BY OtherTables DEF IInv, TypeOK, tables
LEMMA LookupInvariant ==
  ASSUME IInv, NEW r \in Requests, Lookup(r)
  PROVE  IInv'
<1>1. calls[r] \in Call /\ UNCHANGED tables
  BY DEF IInv, TypeOK, Lookup
<1>2. ASSUME NEW pc \in {"done", "failed"}, GoTo(r, pc)
      PROVE  IInv'
  <2> DEFINE c == [calls[r] EXCEPT !.pc = pc]
  <2>1. c \in Call /\ Local(c)
    BY <1>1 DEF Call, Local, Statements, OfResult
  <2>2. calls' = [calls EXCEPT ![r] = c]
    BY <1>2 DEF GoTo, IInv, TypeOK
  <2> QED
    BY <1>1, <2>1, <2>2, OnlyCalls
<1>3. ASSUME NEW payload \in Payloads, NEW m \in Found(Rows!Current(matches), payload),
             calls' = [calls EXCEPT
               ![r] = [Idle EXCEPT !.pc = "updateMatch", !.match = m,
                         !.upd = Merge(m, Rows!Current(matches)[m], payload)]]
      PROVE  IInv'
  <2> DEFINE upd == Merge(m, Rows!Current(matches)[m], payload)
             c == [Idle EXCEPT !.pc = "updateMatch", !.match = m, !.upd = upd]
  <2>1. m \in Matches
    BY DEF Found
  <2>2. Rows!Current(matches)[m] \in MatchRow
    BY <2>1 DEF IInv, TypeOK, Rows!Current, Rows!RowVersion
  <2>3. upd \in MatchRow
    BY <2>1, <2>2, MergeType
  <2>4. c \in Call /\ Local(c)
    BY <2>1, <2>3, FirstLocals
  <2> QED
    BY <1>1, <1>3, <2>4, OnlyCalls
<1> QED
  BY <1>2, <1>3 DEF Lookup

\* The match row is written as the call merged it.
LEMMA UpdateMatchRowInvariant ==
  ASSUME IInv, NEW r \in Requests, UpdateMatchRow(r)
  PROVE  IInv'
<1> DEFINE old == calls[r]
           c == [old EXCEPT !.pc = AfterUpdate(old.match, old.upd)]
<1>1. old \in Call /\ Local(old) /\ old.pc = "updateMatch"
  BY DEF IInv, TypeOK, UpdateMatchRow, At
<1>2. old.match \in Matches /\ old.upd \in MatchRow
  BY <1>1 DEF Local, Statements
<1>3. matches' \in [Matches -> Rows!RowVersion(MatchRow, Requests)]
  BY <1>2, WriteType DEF UpdateMatchRow, IInv, TypeOK
<1>4. c \in Call
  BY <1>1, <1>2, AfterUpdateType DEF Call, Statements
<1>5. /\ c.pc = AfterUpdate(old.match, old.upd)
      /\ c.match = old.match /\ c.upd = old.upd
  BY <1>1 DEF Call
<1>6. Local(c)
  BY <1>2, <1>5, AfterUpdateType DEF Local, OfResult
<1>7. calls' = [calls EXCEPT ![r] = c]
  BY DEF UpdateMatchRow, GoTo, IInv, TypeOK
<1> QED
  BY <1>3, <1>4, <1>6, <1>7, OtherTables DEF UpdateMatchRow, IInv, TypeOK

(***************************************************************************)
(* The group branch                                                        *)
(***************************************************************************)
\* What the locals of a call that has a result are.
LEMMA OfResultType ==
  ASSUME IInv, NEW r \in Requests, calls[r].pc \in OfResult
  PROVE  /\ calls[r] \in Call /\ Local(calls[r])
         /\ calls[r].match \in Matches /\ calls[r].upd \in MatchRow
         /\ Completed(calls[r].upd) /\ HasCountries(calls[r].upd)
         /\ calls[r].upd.c1 \in Countries /\ calls[r].upd.c2 \in Countries
  BY DEF IInv, TypeOK, Local, OfResult, HasCountries, MatchRow, Slot

LEMMA ReadStanding1Invariant ==
  ASSUME IInv, NEW r \in Requests, ReadStanding1(r)
  PROVE  IInv'
<1> DEFINE old == calls[r]
           s1 == CreditFirst(Rows!Read(standings[old.upd.c1], r), old.upd)
           c == [old EXCEPT !.pc = "readStanding2", !.s1 = s1]
<1>1. old.pc \in OfResult /\ old.pc = "readStanding1"
  BY DEF ReadStanding1, At, OfResult, Statements
<1>2. Sound(s1)
  BY <1>1, OfResultType, ReadSound, CreditsSound
<1>3. calls' = [calls EXCEPT ![r] = c]
  BY DEF ReadStanding1, IInv, TypeOK
<1> HIDE DEF s1
<1>4. c \in Call /\ Local(c)
  BY <1>1, <1>2, OfResultType DEF Call, Local, Sound, Statements, OfResult
<1> QED
  BY <1>3, <1>4, OnlyCalls DEF ReadStanding1

LEMMA ReadStanding2Invariant ==
  ASSUME IInv, NEW r \in Requests, ReadStanding2(r)
  PROVE  IInv'
<1> DEFINE old == calls[r]
           s2 == CreditSecond(Rows!Read(standings[old.upd.c2], r), old.upd)
           c == [old EXCEPT !.pc = "writeStanding1", !.s2 = s2]
<1>1. old.pc \in OfResult /\ old.pc = "readStanding2"
  BY DEF ReadStanding2, At, OfResult, Statements
<1>2. Sound(s2)
  BY <1>1, OfResultType, ReadSound, CreditsSound
<1>3. calls' = [calls EXCEPT ![r] = c]
  BY DEF ReadStanding2, IInv, TypeOK
<1> HIDE DEF s2
<1>4. c \in Call /\ Local(c)
  BY <1>1, <1>2, OfResultType DEF Call, Local, Sound, Statements, OfResult
<1> QED
  BY <1>3, <1>4, OnlyCalls DEF ReadStanding2

\* Writing a sound standing preserves the invariant.
LEMMA WriteStanding ==
  ASSUME IInv, NEW r \in Requests, NEW country \in Countries, NEW s, Sound(s),
         standings' = [standings EXCEPT ![country] = Rows!Write(@, r, s)],
         NEW c \in Call, Local(c), calls' = [calls EXCEPT ![r] = c],
         UNCHANGED <<matches, reached, knockoutScore>>
  PROVE  IInv'
<1>1. calls' \in [Requests -> Call] /\ \A q \in Requests : Local(calls'[q])
  BY CallStep DEF IInv, TypeOK
<1>2. standings' \in [Countries -> Rows!RowVersion(StandingRow, Requests)]
  BY WriteType DEF IInv, TypeOK, Sound
<1>3. RowArithmetic'
  BY DEF IInv, TypeOK, RowArithmetic, Rows!Write, Sound
<1> QED
  BY <1>1, <1>2, <1>3 DEF IInv, TypeOK

LEMMA WriteStanding1Invariant ==
  ASSUME IInv, NEW r \in Requests, WriteStanding1(r)
  PROVE  IInv'
<1> DEFINE c == [calls[r] EXCEPT !.pc = "writeStanding2"]
<1>1. calls[r].pc \in OfResult /\ calls[r].pc = "writeStanding1"
  BY DEF WriteStanding1, At, OfResult, Statements
<1>2. c \in Call /\ Local(c)
  BY <1>1, OfResultType DEF Call, Local, Statements, OfResult
<1>3. calls' = [calls EXCEPT ![r] = c]
  BY DEF WriteStanding1, GoTo, IInv, TypeOK
<1>4. Sound(calls[r].s1)
  BY <1>1, OfResultType DEF Local
<1> QED
  BY <1>1, <1>2, <1>3, <1>4, OfResultType, WriteStanding DEF WriteStanding1

LEMMA WriteStanding2Invariant ==
  ASSUME IInv, NEW r \in Requests, WriteStanding2(r)
  PROVE  IInv'
<1> DEFINE c == [calls[r] EXCEPT !.pc = "commit"]
<1>1. calls[r].pc \in OfResult /\ calls[r].pc = "writeStanding2"
  BY DEF WriteStanding2, At, OfResult, Statements
<1>2. c \in Call /\ Local(c)
  BY <1>1, OfResultType DEF Call, Local, Statements, OfResult
<1>3. calls' = [calls EXCEPT ![r] = c]
  BY DEF WriteStanding2, GoTo, IInv, TypeOK
<1>4. Sound(calls[r].s2)
  BY <1>1, OfResultType DEF Local
<1> QED
  BY <1>1, <1>2, <1>3, <1>4, OfResultType, WriteStanding DEF WriteStanding2
(***************************************************************************)
(* The knockout branch                                                     *)
(***************************************************************************)
\* A call with a result that goes on to a statement that needs no standings.
LEMMA GoToLocals ==
  ASSUME IInv, NEW r \in Requests, calls[r].pc \in OfResult,
         NEW pc \in {"seedLoser", "upsertWinner", "queryPicks", "upsertLoser",
                     "commit"},
         GoTo(r, pc)
  PROVE  \E c \in Call : Local(c) /\ calls' = [calls EXCEPT ![r] = c]
<1> DEFINE c == [calls[r] EXCEPT !.pc = pc]
<1>1. c \in Call /\ Local(c)
  BY OfResultType DEF Call, Local, Statements, OfResult
<1>2. calls' = [calls EXCEPT ![r] = c]
  BY DEF GoTo, IInv, TypeOK
<1> QED
  BY <1>1, <1>2

LEMMA AdvanceWinnerInvariant ==
  ASSUME IInv, NEW r \in Requests, AdvanceWinner(r)
  PROVE  IInv'
<1> DEFINE old == calls[r]
           Seeded(n) == SeedWinner(old.match, Rows!Read(matches[n], r),
                                   Winner(old.upd))
<1>1. old.pc \in OfResult
  BY DEF AdvanceWinner, At, OfResult, Statements
<1>2. ASSUME NEW n \in Matches
      PROVE  Rows!Write(matches[n], r, Seeded(n)) \in
               Rows!RowVersion(MatchRow, Requests)
  <2>1. matches[n] \in Rows!RowVersion(MatchRow, Requests)
    BY DEF IInv, TypeOK
  <2>2. Rows!Read(matches[n], r) \in MatchRow
    BY <2>1 DEF Rows!Read, Rows!RowVersion
  <2>3. Seeded(n) \in MatchRow
    BY <1>1, <2>2, OfResultType, WinnerType, SeedType
  <2> QED
    BY <2>1, <2>3, WriteType
<1>3. matches' \in [Matches -> Rows!RowVersion(MatchRow, Requests)]
  BY <1>2 DEF AdvanceWinner, IInv, TypeOK
<1>4. \E c \in Call : Local(c) /\ calls' = [calls EXCEPT ![r] = c]
  BY <1>1, GoToLocals DEF AdvanceWinner
<1> QED
  BY <1>3, <1>4, OtherTables DEF AdvanceWinner, IInv, TypeOK

LEMMA SeedThirdPlaceInvariant ==
  ASSUME IInv, NEW r \in Requests, SeedThirdPlace(r)
  PROVE  IInv'
<1> DEFINE old == calls[r]
           Seeded(n) == SeedLoser(old.match, Rows!Read(matches[n], r),
                                  Loser(old.upd))
<1>1. old.pc \in OfResult
  BY DEF SeedThirdPlace, At, OfResult, Statements
<1>2. ASSUME NEW n \in Matches
      PROVE  Rows!Write(matches[n], r, Seeded(n)) \in
               Rows!RowVersion(MatchRow, Requests)
  <2>1. matches[n] \in Rows!RowVersion(MatchRow, Requests)
    BY DEF IInv, TypeOK
  <2>2. Rows!Read(matches[n], r) \in MatchRow
    BY <2>1 DEF Rows!Read, Rows!RowVersion
  <2>3. Seeded(n) \in MatchRow
    BY <1>1, <2>2, OfResultType, WinnerType, SeedType
  <2> QED
    BY <2>1, <2>3, WriteType
<1>3. matches' \in [Matches -> Rows!RowVersion(MatchRow, Requests)]
  BY <1>2 DEF SeedThirdPlace, IInv, TypeOK
<1>4. \E c \in Call : Local(c) /\ calls' = [calls EXCEPT ![r] = c]
  BY <1>1, GoToLocals DEF SeedThirdPlace
<1> QED
  BY <1>3, <1>4, OtherTables DEF SeedThirdPlace, IInv, TypeOK

LEMMA UpsertWinnerInvariant ==
  ASSUME IInv, NEW r \in Requests, UpsertWinner(r)
  PROVE  IInv'
<1>1. calls[r].pc \in OfResult
  BY DEF UpsertWinner, At, OfResult, Statements
<1>2. Winner(calls[r].upd) \in Countries /\ Achieved(calls[r].match) \in 0 .. 7
  BY <1>1, OfResultType, WinnerType, AchievedType
<1>3. reached' \in [Countries -> Rows!RowVersion(0 .. 7, Requests)]
  BY <1>2, WriteType DEF UpsertWinner, IInv, TypeOK
<1>4. \E c \in Call : Local(c) /\ calls' = [calls EXCEPT ![r] = c]
  BY <1>1, GoToLocals DEF UpsertWinner
<1> QED
  BY <1>3, <1>4, OtherTables DEF UpsertWinner, IInv, TypeOK

LEMMA UpsertLoserInvariant ==
  ASSUME IInv, NEW r \in Requests, UpsertLoser(r)
  PROVE  IInv'
<1>1. calls[r].pc \in OfResult
  BY DEF UpsertLoser, At, OfResult, Statements
<1>2. Loser(calls[r].upd) \in Countries
  BY <1>1, OfResultType, WinnerType
<1>3. reached' \in [Countries -> Rows!RowVersion(0 .. 7, Requests)]
  BY <1>2, WriteType DEF UpsertLoser, IInv, TypeOK
<1>4. \E c \in Call : Local(c) /\ calls' = [calls EXCEPT ![r] = c]
  BY <1>1, GoToLocals DEF UpsertLoser
<1> QED
  BY <1>3, <1>4, OtherTables DEF UpsertLoser, IInv, TypeOK
\* A call that pays the users in `order` from here on.
LEMMA AwardLocals ==
  ASSUME IInv, NEW r \in Requests, calls[r].pc \in OfResult,
         NEW order \in Seq(Users),
         calls' = [calls EXCEPT ![r].pc = AfterAward(calls[r].match, order),
                                ![r].unpaid = order]
  PROVE  \E c \in Call : Local(c) /\ calls' = [calls EXCEPT ![r] = c]
<1> DEFINE pc == AfterAward(calls[r].match, order)
           c == [calls[r] EXCEPT !.pc = pc, !.unpaid = order]
<1>1. pc \in {"award", "upsertLoser", "commit"} /\ (pc = "award" => order # <<>>)
  BY AfterAwardType
<1>2. calls' = [calls EXCEPT ![r] = c]
  BY DEF IInv, TypeOK
<1> HIDE DEF pc
<1>3. c \in Call /\ c.pc = pc /\ c.unpaid = order
      /\ c.match = calls[r].match /\ c.upd = calls[r].upd
  BY <1>1, OfResultType DEF Call, Statements
<1>4. Local(c)
  BY <1>1, <1>3, OfResultType DEF Local
<1> QED
  BY <1>2, <1>3, <1>4

LEMMA QueryPicksInvariant ==
  ASSUME IInv, NEW r \in Requests, QueryPicks(r)
  PROVE  IInv'
<1>1. calls[r].pc \in OfResult
  BY DEF QueryPicks, At, OfResult, Statements
<1>2. PICK order \in SetToSeqs(Pickers(Winner(calls[r].upd),
                                       Achieved(calls[r].match))) :
        calls' = [calls EXCEPT ![r].pc = AfterAward(calls[r].match, order),
                               ![r].unpaid = order]
  BY DEF QueryPicks
<1>3. order \in Seq(Users)
  BY PayOrder
<1>4. \E c \in Call : Local(c) /\ calls' = [calls EXCEPT ![r] = c]
  BY <1>1, <1>2, <1>3, AwardLocals
<1> QED
  BY <1>4, OnlyCalls DEF QueryPicks

LEMMA AwardUserInvariant ==
  ASSUME IInv, NEW r \in Requests, AwardUser(r)
  PROVE  IInv'
<1> DEFINE old == calls[r]
           u == Head(old.unpaid)
           points == AwardPoints(Achieved(old.match))
<1>1. old.pc \in OfResult /\ old.pc = "award"
  BY DEF AwardUser, At, OfResult, Statements
<1>2. old.unpaid \in Seq(Users) /\ old.unpaid # <<>>
  BY <1>1, OfResultType DEF Call, Local
<1>3. u \in Users /\ Tail(old.unpaid) \in Seq(Users)
  BY <1>2
<1>4. points \in Nat
  BY DEF AwardPoints
<1>5. knockoutScore[u] \in Rows!RowVersion(Nat, Requests)
  BY <1>3 DEF IInv, TypeOK
<1>6. Rows!Read(knockoutScore[u], r) + points \in Nat
  <2>1. Rows!Read(knockoutScore[u], r) \in Nat
    BY <1>5 DEF Rows!Read, Rows!RowVersion
  <2> QED
    BY <2>1, <1>4
<1>7. knockoutScore' = [knockoutScore EXCEPT
        ![u] = Rows!Write(knockoutScore[u], r,
                          Rows!Read(knockoutScore[u], r) + points)]
  BY DEF AwardUser
<1>8. knockoutScore' \in [Users -> Rows!RowVersion(Nat, Requests)]
  BY <1>3, <1>5, <1>6, <1>7, WriteType DEF IInv, TypeOK
<1>9. \E c \in Call : Local(c) /\ calls' = [calls EXCEPT ![r] = c]
  BY <1>1, <1>3, AwardLocals DEF AwardUser
<1> QED
  BY <1>8, <1>9, OtherTables DEF AwardUser, IInv, TypeOK

(***************************************************************************)
(* The end of a transaction                                                *)
(***************************************************************************)
LEMMA CommitInvariant ==
  ASSUME IInv, NEW r \in Requests, Commit(r)
  PROVE  IInv'
<1> DEFINE c == [calls[r] EXCEPT !.pc = "done", !.s1 = Null, !.s2 = Null]
<1>1. c \in Call /\ Local(c)
  BY DEF IInv, TypeOK, Call, Local, Statements, OfResult
<1>2. calls' = [calls EXCEPT ![r] = c]
  BY DEF Commit, IInv, TypeOK
<1>3. calls' \in [Requests -> Call] /\ \A q \in Requests : Local(calls'[q])
  BY <1>1, <1>2, CallStep DEF IInv, TypeOK
<1>4. TypeOK'
  BY <1>3, EndType DEF Commit, IInv, TypeOK
<1>5. RowArithmetic'
  BY DEF Commit, IInv, TypeOK, RowArithmetic, Rows!Publish, Rows!Committed
<1> QED
  BY <1>3, <1>4, <1>5 DEF IInv

LEMMA RollBackInvariant ==
  ASSUME IInv, NEW r \in Requests, RollBack(r)
  PROVE  IInv'
<1> DEFINE c == [Idle EXCEPT !.pc = "failed"]
<1>1. c \in Call /\ Local(c)
  <2>1. Idle \in Call
    BY DEF Idle, Call
  <2>2. c \in Call /\ c.pc = "failed"
    BY <2>1 DEF Call
  <2> QED
    BY <2>2 DEF Local, Statements, OfResult
<1>2. calls' \in [Requests -> Call] /\ \A q \in Requests : Local(calls'[q])
  BY <1>1, CallStep DEF RollBack, IInv, TypeOK
<1>3. TypeOK'
  BY <1>2, EndType DEF RollBack, IInv, TypeOK
<1>4. RowArithmetic'
  BY DEF RollBack, IInv, TypeOK, RowArithmetic, Rows!Discard, Rows!Committed
<1> QED
  BY <1>2, <1>3, <1>4 DEF IInv

----------------------------------------------------------------------------
LEMMA StepInvariant == IInv /\ [Next]_vars => IInv'
<1> SUFFICES ASSUME IInv, [Next]_vars PROVE IInv'
  OBVIOUS
<1>1. ASSUME NEW r \in Requests, Lookup(r) PROVE IInv'
  BY <1>1, LookupInvariant
<1>2. ASSUME NEW r \in Requests, Statement(r) PROVE IInv'
  <2>1. CASE UpdateMatchRow(r)
    BY <2>1, UpdateMatchRowInvariant
  <2>2. CASE ReadStanding1(r)
    BY <2>2, ReadStanding1Invariant
  <2>3. CASE ReadStanding2(r)
    BY <2>3, ReadStanding2Invariant
  <2>4. CASE WriteStanding1(r)
    BY <2>4, WriteStanding1Invariant
  <2>5. CASE WriteStanding2(r)
    BY <2>5, WriteStanding2Invariant
  <2>6. CASE AdvanceWinner(r)
    BY <2>6, AdvanceWinnerInvariant
  <2>7. CASE SeedThirdPlace(r)
    BY <2>7, SeedThirdPlaceInvariant
  <2>8. CASE UpsertWinner(r)
    BY <2>8, UpsertWinnerInvariant
  <2>9. CASE QueryPicks(r)
    BY <2>9, QueryPicksInvariant
  <2>10. CASE AwardUser(r)
    BY <2>10, AwardUserInvariant
  <2>11. CASE UpsertLoser(r)
    BY <2>11, UpsertLoserInvariant
  <2>12. CASE Reject(r)
    BY <2>12, RollBackInvariant DEF Reject
  <2>13. CASE Commit(r)
    BY <2>13, CommitInvariant
  <2> QED
    BY <1>2, <2>1, <2>2, <2>3, <2>4, <2>5, <2>6, <2>7, <2>8, <2>9, <2>10, <2>11,
       <2>12, <2>13 DEF Statement
<1>3. ASSUME NEW r \in Requests, Abort(r) \/ DeadlockAbort(r) PROVE IInv'
  BY <1>3, RollBackInvariant DEF Abort, DeadlockAbort
<1>4. CASE UNCHANGED vars
  BY <1>4 DEF IInv, TypeOK, RowArithmetic, vars
<1> QED
  BY <1>1, <1>2, <1>3, <1>4 DEF Next, AllAnswered

\* The strengthened invariant holds in every reachable state.
THEOREM Invariance == Spec => []IInv
  BY InitInvariant, StepInvariant, PTL DEF Spec

\* Type correctness of UpdateMatch: in any contest, with any number of calls in
\* progress, the tables hold rows of their types and a call is at one of its
\* statements with locals of their types.
THEOREM TypeCorrect == Spec => []TypeOK
<1>1. IInv => TypeOK
  BY DEF IInv
<1> QED
  BY <1>1, Invariance, PTL

\* Three points a win, one a draw and an exact goal difference: in the tables
\* of any contest, however the calls of UpdateMatch interleave, lose each
\* other's standings, fail or are rolled back.
THEOREM StandingsAddUp == Spec => []RowArithmetic
<1>1. IInv => RowArithmetic
  BY DEF IInv
<1> QED
  BY <1>1, Invariance, PTL

----------------------------------------------------------------------------
(***************************************************************************)
(* Results of group matches do not deadlock, in any contest whose pairings *)
(* are those of CreateContest and with any number of calls in progress.    *)
(* The argument: a call of a group match that waits while another call     *)
(* waits for it is at its second standing and holds the first one; it      *)
(* waits for a call in the same situation, whose first country is its own  *)
(* second one; and the pairings have no such cycle.                        *)
(***************************************************************************)
GroupStatements ==
  {"readStanding1", "readStanding2", "writeStanding1", "writeStanding2"}

KnockoutStatements ==
  {"advanceWinner", "seedLoser", "upsertWinner", "queryPicks", "award",
   "upsertLoser"}

(***************************************************************************)
(* A group match keeps the countries of its fixture, in its row and in the *)
(* calls that record it, and each branch is for its kind of match.         *)
(***************************************************************************)
Paired(m, row) == row.c1 = Fixtures[m].c1 /\ row.c2 = Fixtures[m].c2

Branch(c) ==
  /\ c.pc \in Statements /\ ~IsKnockout(c.match) => Paired(c.match, c.upd)
  /\ c.pc \in GroupStatements => ~IsKnockout(c.match)
  /\ c.pc \in KnockoutStatements => IsKnockout(c.match)

Pairings ==
  /\ \A m \in Matches : ~IsKnockout(m) =>
       Paired(m, matches[m].cur) /\ Paired(m, matches[m].new)
  /\ \A r \in Requests : Branch(calls[r])

(***************************************************************************)
(* Which locks a call may hold at which statement.                         *)
(***************************************************************************)
Locks(r) ==
  LET c == calls[r]
  IN  /\ \A k \in Countries : standings[k].by = r =>
           c.pc \in {"writeStanding2", "commit"}
           /\ (c.pc = "writeStanding2" => k = c.upd.c1)
      /\ \A m \in Matches : matches[m].by = r =>
           c.pc \in Statements \ {"updateMatch"}
           /\ (~IsKnockout(c.match) => m = c.match)
      /\ \A k \in Countries : reached[k].by = r =>
           c.pc \in Statements \ {"updateMatch"} /\ IsKnockout(c.match)
      /\ \A u \in Users : knockoutScore[u].by = r =>
           c.pc \in Statements \ {"updateMatch"} /\ IsKnockout(c.match)

LockInv == IInv /\ Pairings /\ \A r \in Requests : Locks(r)

----------------------------------------------------------------------------
(***************************************************************************)
(* The theorem's core: the invariant excludes the deadlock                 *)
(***************************************************************************)
\* Who a call waits for holds a row of the table it is about to write.
LEMMA AwaitedRows ==
  ASSUME NEW s, NEW q \in Awaited(s)
  PROVE  \/ calls[s].pc = "updateMatch" /\ q = matches[calls[s].match].by
         \/ calls[s].pc = "writeStanding1" /\ q = standings[calls[s].upd.c1].by
         \/ calls[s].pc = "writeStanding2" /\ q = standings[calls[s].upd.c2].by
         \/ /\ calls[s].pc = "advanceWinner"
            /\ \E n \in NextMatches(calls[s].match) : q = matches[n].by
         \/ /\ calls[s].pc = "seedLoser"
            /\ \E n \in ThirdPlaceMatches(calls[s].match) : q = matches[n].by
         \/ calls[s].pc = "upsertWinner" /\ q = reached[Winner(calls[s].upd)].by
         \/ calls[s].pc = "award" /\ q = knockoutScore[Head(calls[s].unpaid)].by
         \/ calls[s].pc = "upsertLoser" /\ q = reached[Loser(calls[s].upd)].by
  BY DEF Awaited

\* A call that another one waits for has written its match row; one of a group
\* match is only waited for at that row or at a standing, and only its first
\* standing can be held while it waits itself.
LEMMA Holder ==
  ASSUME LockInv, NEW q \in Requests, NEW s \in Requests, WaitsFor(s, q)
  PROVE  /\ calls[q].pc \in Statements \ {"updateMatch"}
         /\ ~IsKnockout(calls[q].match) =>
              calls[s].pc \in {"updateMatch", "writeStanding1", "writeStanding2"}
         /\ calls[s].pc \in {"writeStanding1", "writeStanding2"} =>
              calls[q].pc \in {"writeStanding2", "commit"}
         /\ calls[s].pc = "writeStanding2" /\ calls[q].pc = "writeStanding2" =>
              calls[s].upd.c2 = calls[q].upd.c1
<1> DEFINE c == calls[s]
<1>1. q \in Awaited(s)
  BY DEF WaitsFor
<1>2. c \in Call /\ Local(c) /\ Locks(q) /\ Branch(c)
  BY DEF LockInv, IInv, TypeOK, Pairings
<1>3. CASE c.pc = "updateMatch" /\ q = matches[c.match].by
  BY <1>2, <1>3 DEF Local, Statements, Locks
<1>4. CASE c.pc = "writeStanding1" /\ q = standings[c.upd.c1].by
  <2>1. c.upd.c1 \in Countries
    BY <1>4, OfResultType DEF LockInv, OfResult, Statements
  <2> QED
    BY <1>2, <1>4, <2>1 DEF Locks, Statements
<1>5. CASE c.pc = "writeStanding2" /\ q = standings[c.upd.c2].by
  <2>1. c.upd.c2 \in Countries
    BY <1>5, OfResultType DEF LockInv, OfResult, Statements
  <2> QED
    BY <1>2, <1>5, <2>1 DEF Locks, Statements
<1>6. CASE c.pc \in {"advanceWinner", "seedLoser"}
  <2>1. c.match \in Matches
    BY <1>2, <1>6 DEF Local, Statements
  <2>2. PICK n \in NextMatches(c.match) \cup ThirdPlaceMatches(c.match) :
          q = matches[n].by
    BY <1>1, <1>6, AwaitedRows
  <2>3. n \in Matches /\ Round[n] > 0
    BY <2>1, RoundAssumption DEF NextMatches, ThirdPlaceMatches
  <2>4. calls[q].pc \in Statements \ {"updateMatch"}
        /\ (~IsKnockout(calls[q].match) => n = calls[q].match)
    BY <1>2, <2>2, <2>3 DEF Locks
  <2> QED
    BY <1>6, <2>3, <2>4 DEF IsKnockout
<1>7. CASE \/ c.pc = "upsertWinner" /\ q = reached[Winner(c.upd)].by
           \/ c.pc = "upsertLoser" /\ q = reached[Loser(c.upd)].by
  <2>1. Winner(c.upd) \in Countries /\ Loser(c.upd) \in Countries
    BY <1>7, OfResultType, WinnerType DEF LockInv, OfResult, Statements
  <2> QED
    BY <1>2, <1>7, <2>1 DEF Locks
<1>8. CASE c.pc = "award" /\ q = knockoutScore[Head(c.unpaid)].by
  <2>1. c.unpaid \in Seq(Users) /\ c.unpaid # <<>>
    BY <1>2, <1>8 DEF Call, Local
  <2>2. Head(c.unpaid) \in Users
    BY <2>1
  <2> QED
    BY <1>2, <1>8, <2>2 DEF Locks
<1> QED
  BY <1>1, <1>3, <1>4, <1>5, <1>6, <1>7, <1>8, AwaitedRows

\* Calls of group matches on a cycle would each wait for one whose first country
\* is their second one; no set of countries is paired so.
LEMMA NoGroupDeadlock == LockInv => GroupResultsDoNotDeadlock
<1> SUFFICES ASSUME LockInv, NEW r \in Requests, Deadlocked(r),
                    ~IsKnockout(calls[r].match)
             PROVE  FALSE
  BY DEF GroupResultsDoNotDeadlock
<1>1. PICK S \in SUBSET Requests :
        /\ r \in S
        /\ \A q \in S : /\ \E s \in S : WaitsFor(q, s)
                        /\ \E s \in S : WaitsFor(s, q)
  BY DEF Deadlocked
<1> DEFINE G == {q \in S : ~IsKnockout(calls[q].match)}
<1>2. \A q \in S : calls[q].pc \notin {"updateMatch", "commit"}
  <2> TAKE q \in S
  <2>1. calls[q].pc # "updateMatch"
    BY <1>1, Holder
  <2>2. calls[q].pc # "commit"
    BY <1>1, AwaitedRows DEF WaitsFor
  <2> QED
    BY <2>1, <2>2
<1>3. \A q \in G : calls[q].pc = "writeStanding2"
  <2> TAKE q \in G
  <2>1. PICK s \in S : WaitsFor(s, q)
    BY <1>1
  <2>2. calls[s].pc \in {"writeStanding1", "writeStanding2"}
    BY <1>2, <2>1, Holder
  <2> QED
    BY <1>2, <2>1, <2>2, Holder
<1>4. \A q \in G : \E s \in G : calls[s].upd.c1 = calls[q].upd.c2
  <2> TAKE q \in G
  <2>1. PICK s \in S : WaitsFor(q, s)
    BY <1>1
  <2>2. calls[s].pc = "writeStanding2"
    BY <1>2, <1>3, <2>1, Holder
  <2>3. s \in G
    BY <2>2 DEF LockInv, Pairings, Branch, GroupStatements
  <2> QED
    BY <1>3, <2>1, <2>2, <2>3, Holder
<1>5. \A q \in G : /\ calls[q].match \in Matches /\ Round[calls[q].match] = 0
                   /\ calls[q].upd.c1 = Fixtures[calls[q].match].c1
                   /\ calls[q].upd.c2 = Fixtures[calls[q].match].c2
                   /\ calls[q].upd.c2 \in Countries
  <2> TAKE q \in G
  <2>1. calls[q].pc = "writeStanding2" /\ Branch(calls[q]) /\ q \in Requests
    BY <1>3 DEF LockInv, Pairings
  <2>2. calls[q].match \in Matches /\ calls[q].upd.c2 \in Countries
    BY <2>1, OfResultType DEF LockInv, OfResult, Statements
  <2>3. Round[calls[q].match] = 0
    BY <2>2, RoundAssumption DEF IsKnockout
  <2> QED
    BY <2>1, <2>2, <2>3 DEF Branch, Paired, Statements
<1>6. PICK c \in {calls[q].upd.c2 : q \in G} :
        \A m \in Matches : Round[m] = 0 /\ Fixtures[m].c1 = c =>
                             Fixtures[m].c2 \notin {calls[q].upd.c2 : q \in G}
  <2>1. {calls[q].upd.c2 : q \in G} \subseteq Countries
    BY <1>5
  <2>2. {calls[q].upd.c2 : q \in G} # {}
    BY <1>1
  <2> QED
    BY <2>1, <2>2, PairingAssumption
<1>7. PICK s \in G : calls[s].upd.c1 = c
  BY <1>4, <1>6
<1> QED
  BY <1>5, <1>6, <1>7

----------------------------------------------------------------------------
(***************************************************************************)
(* The invariant holds initially and every action preserves it             *)
(***************************************************************************)
LEMMA InitLocks == Init => LockInv
<1> SUFFICES ASSUME Init PROVE LockInv
  OBVIOUS
<1>1. Pairings
  BY DEF Init, Pairings, Paired, Branch, Unplayed, Rows!Committed, Idle, Statements,
         GroupStatements, KnockoutStatements
<1>2. \A r \in Requests : Locks(r)
  BY RequestAssumption DEF Init, Locks, Rows!Committed
<1> QED
  BY <1>1, <1>2, InitInvariant DEF LockInv

\* The tables only pass to the call that steps, and from it to nobody.
Passes(table, tableNext, r) ==
  \A k \in DOMAIN table : tableNext[k].by \in {table[k].by, r, Null}

\* So the other calls hold what they held, and nothing more.
LEMMA OtherLocks ==
  ASSUME LockInv, NEW r \in Requests,
         Passes(matches, matches', r), Passes(standings, standings', r),
         Passes(reached, reached', r), Passes(knockoutScore, knockoutScore', r),
         \A q \in Requests \ {r} : calls'[q] = calls[q],
         Locks(r)'
  PROVE  \A q \in Requests : Locks(q)'
<1> SUFFICES ASSUME NEW q \in Requests, q # r PROVE Locks(q)'
  OBVIOUS
<1>1. Locks(q) /\ calls'[q] = calls[q] /\ q # Null
  BY RequestAssumption DEF LockInv
<1>2. /\ \A k \in Countries : standings'[k].by = q => standings[k].by = q
      /\ \A m \in Matches : matches'[m].by = q => matches[m].by = q
      /\ \A k \in Countries : reached'[k].by = q => reached[k].by = q
      /\ \A u \in Users : knockoutScore'[u].by = q => knockoutScore[u].by = q
  BY <1>1 DEF Passes, LockInv, IInv, TypeOK
<1> QED
  BY <1>1, <1>2 DEF Locks

\* A step of r preserves the invariant when the group rows stay paired and r
\* itself is in order.
LEMMA StepOf ==
  ASSUME LockInv, IInv', NEW r \in Requests,
         Passes(matches, matches', r), Passes(standings, standings', r),
         Passes(reached, reached', r), Passes(knockoutScore, knockoutScore', r),
         \A q \in Requests \ {r} : calls'[q] = calls[q],
         \A m \in Matches : ~IsKnockout(m) =>
           Paired(m, matches'[m].cur) /\ Paired(m, matches'[m].new),
         Branch(calls'[r]), Locks(r)'
  PROVE  LockInv'
<1>1. \A q \in Requests : Locks(q)'
  BY OtherLocks
<1>2. Pairings'
  BY DEF LockInv, Pairings
<1> QED
  BY <1>1, <1>2 DEF LockInv

\* A step that leaves the tables alone, on to a statement at which r may hold
\* what it holds.
LEMMA CallsStepOf ==
  ASSUME LockInv, IInv', NEW r \in Requests, UNCHANGED tables,
         \A q \in Requests \ {r} : calls'[q] = calls[q],
         Branch(calls'[r]), Locks(r)'
  PROVE  LockInv'
<1>1. /\ Passes(matches, matches', r) /\ Passes(standings, standings', r)
      /\ Passes(reached, reached', r) /\ Passes(knockoutScore, knockoutScore', r)
  BY DEF Passes, tables
<1>2. \A m \in Matches : ~IsKnockout(m) =>
        Paired(m, matches'[m].cur) /\ Paired(m, matches'[m].new)
  BY DEF LockInv, Pairings, tables
<1> QED
  BY <1>1, <1>2, StepOf

LEMMA LookupLocks ==
  ASSUME LockInv, IInv', NEW r \in Requests, Lookup(r)
  PROVE  LockInv'
<1>1. calls[r].pc = "idle" /\ UNCHANGED tables
  BY DEF Lookup
<1>2. \A q \in Requests \ {r} : calls'[q] = calls[q]
  BY DEF Lookup, GoTo, LockInv, IInv, TypeOK
<1>3. Locks(r)'
  BY <1>1 DEF LockInv, Locks, Statements, tables
<1>4. ASSUME NEW pc \in {"done", "failed"}, GoTo(r, pc)
      PROVE  Branch(calls'[r])
  <2>1. calls'[r].pc = pc
    BY <1>4 DEF GoTo, LockInv, IInv, TypeOK, Call
  <2> QED
    BY <2>1 DEF Branch, Statements, GroupStatements, KnockoutStatements
<1>5. ASSUME NEW payload \in Payloads, NEW m \in Found(Rows!Current(matches), payload),
             calls' = [calls EXCEPT
               ![r] = [Idle EXCEPT !.pc = "updateMatch", !.match = m,
                         !.upd = Merge(m, Rows!Current(matches)[m], payload)]]
      PROVE  Branch(calls'[r])
  <2> DEFINE row == Rows!Current(matches)[m]
  <2>1. m \in Matches
    BY DEF Found
  <2>2. row = matches[m].cur
    BY <2>1 DEF Rows!Current, LockInv, IInv, TypeOK
  <2>3. ~IsKnockout(m) => Paired(m, Merge(m, row, payload))
    BY <2>1, <2>2 DEF LockInv, Pairings, Paired, Merge, KnockoutGiven
  <2>4. /\ calls'[r].pc = "updateMatch" /\ calls'[r].match = m
        /\ calls'[r].upd = Merge(m, row, payload)
    BY <1>5 DEF LockInv, IInv, TypeOK, Idle
  <2> QED
    BY <2>3, <2>4 DEF Branch, GroupStatements, KnockoutStatements
<1> QED
  BY <1>1, <1>2, <1>3, <1>4, <1>5, CallsStepOf DEF Lookup

LEMMA UpdateMatchRowLocks ==
  ASSUME LockInv, IInv', NEW r \in Requests, UpdateMatchRow(r)
  PROVE  LockInv'
<1> DEFINE c == calls[r]
<1>1. /\ c \in Call /\ Local(c) /\ Branch(c) /\ Locks(r)
      /\ c.pc = "updateMatch"
  BY DEF LockInv, IInv, TypeOK, Pairings, UpdateMatchRow, At
<1>2. c.match \in Matches
  BY <1>1 DEF Local, Statements
<1>3. /\ calls'[r].pc = AfterUpdate(c.match, c.upd)
      /\ calls'[r].match = c.match /\ calls'[r].upd = c.upd
      /\ \A q \in Requests \ {r} : calls'[q] = calls[q]
  BY <1>1 DEF UpdateMatchRow, GoTo, LockInv, IInv, TypeOK, Call
<1>4. /\ matches'[c.match] = Rows!Write(matches[c.match], r, c.upd)
      /\ \A m \in Matches \ {c.match} : matches'[m] = matches[m]
  BY <1>2 DEF UpdateMatchRow, LockInv, IInv, TypeOK
<1>5. \A m \in Matches : ~IsKnockout(m) =>
        Paired(m, matches'[m].cur) /\ Paired(m, matches'[m].new)
  <2>1. ~IsKnockout(c.match) => Paired(c.match, c.upd)
    BY <1>1 DEF Branch, Statements
  <2>2. /\ matches'[c.match].cur = matches[c.match].cur
        /\ matches'[c.match].new = c.upd
    BY <1>4 DEF Rows!Write
  <2> QED
    BY <1>4, <2>1, <2>2 DEF LockInv, Pairings
<1>6. /\ AfterUpdate(c.match, c.upd) \in Statements \ {"updateMatch"}
      /\ AfterUpdate(c.match, c.upd) \in GroupStatements => ~IsKnockout(c.match)
      /\ AfterUpdate(c.match, c.upd) \in KnockoutStatements => IsKnockout(c.match)
  BY DEF AfterUpdate, Statements, GroupStatements, KnockoutStatements
<1>7. Branch(calls'[r])
  BY <1>1, <1>3, <1>6 DEF Branch, Statements
<1>8. Locks(r)'
  BY <1>1, <1>3, <1>4, <1>6 DEF UpdateMatchRow, Locks, Rows!Write
<1>9. /\ Passes(matches, matches', r) /\ Passes(standings, standings', r)
      /\ Passes(reached, reached', r) /\ Passes(knockoutScore, knockoutScore', r)
  BY <1>4 DEF UpdateMatchRow, Passes, Rows!Write, LockInv, IInv, TypeOK
<1> QED
  BY <1>3, <1>5, <1>7, <1>8, <1>9, StepOf

(***************************************************************************)
(* The group branch                                                        *)
(***************************************************************************)
\* The reads take no lock.
LEMMA ReadStanding1Locks ==
  ASSUME LockInv, IInv', NEW r \in Requests, ReadStanding1(r)
  PROVE  LockInv'
<1> DEFINE c == calls'[r]
<1>1. /\ calls[r] \in Call /\ calls[r].pc = "readStanding1"
      /\ Branch(calls[r]) /\ Locks(r) /\ UNCHANGED tables
  BY DEF LockInv, IInv, TypeOK, Pairings, ReadStanding1, At
<1>2. /\ c.pc = "readStanding2" /\ c.match = calls[r].match /\ c.upd = calls[r].upd
      /\ \A q \in Requests \ {r} : calls'[q] = calls[q]
  BY <1>1 DEF ReadStanding1, LockInv, IInv, TypeOK, Call
<1>3. Branch(c)
  BY <1>1, <1>2 DEF Branch, Statements, GroupStatements, KnockoutStatements
<1>4. Locks(r)'
  BY <1>1, <1>2 DEF Locks, tables, Statements
<1> QED
  BY <1>1, <1>2, <1>3, <1>4, CallsStepOf

LEMMA ReadStanding2Locks ==
  ASSUME LockInv, IInv', NEW r \in Requests, ReadStanding2(r)
  PROVE  LockInv'
<1> DEFINE c == calls'[r]
<1>1. /\ calls[r] \in Call /\ calls[r].pc = "readStanding2"
      /\ Branch(calls[r]) /\ Locks(r) /\ UNCHANGED tables
  BY DEF LockInv, IInv, TypeOK, Pairings, ReadStanding2, At
<1>2. /\ c.pc = "writeStanding1" /\ c.match = calls[r].match /\ c.upd = calls[r].upd
      /\ \A q \in Requests \ {r} : calls'[q] = calls[q]
  BY <1>1 DEF ReadStanding2, LockInv, IInv, TypeOK, Call
<1>3. Branch(c)
  BY <1>1, <1>2 DEF Branch, Statements, GroupStatements, KnockoutStatements
<1>4. Locks(r)'
  BY <1>1, <1>2 DEF Locks, tables, Statements
<1> QED
  BY <1>1, <1>2, <1>3, <1>4, CallsStepOf

\* The first write locks the first country, and the next statement is the second.
LEMMA WriteStanding1Locks ==
  ASSUME LockInv, IInv', NEW r \in Requests, WriteStanding1(r)
  PROVE  LockInv'
<1> DEFINE c == calls'[r]
<1>1. /\ calls[r] \in Call /\ calls[r].pc = "writeStanding1"
      /\ Branch(calls[r]) /\ Locks(r)
      /\ UNCHANGED <<matches, reached, knockoutScore>>
  BY DEF LockInv, IInv, TypeOK, Pairings, WriteStanding1, At
<1>2. /\ c.pc = "writeStanding2" /\ c.match = calls[r].match /\ c.upd = calls[r].upd
      /\ \A q \in Requests \ {r} : calls'[q] = calls[q]
  BY <1>1 DEF WriteStanding1, GoTo, LockInv, IInv, TypeOK, Call
<1>3. Branch(c)
  BY <1>1, <1>2 DEF Branch, Statements, GroupStatements, KnockoutStatements
<1>4. \A k \in Countries : /\ k # c.upd.c1 => standings'[k] = standings[k]
                           /\ k = c.upd.c1 => standings'[k].by = r
  BY <1>2 DEF WriteStanding1, LockInv, IInv, TypeOK, Rows!Write
<1>5. Locks(r)'
  BY <1>1, <1>2, <1>4 DEF Locks, Statements
<1>6. /\ Passes(matches, matches', r) /\ Passes(standings, standings', r)
      /\ Passes(reached, reached', r) /\ Passes(knockoutScore, knockoutScore', r)
  BY <1>1, <1>4 DEF Passes, LockInv, IInv, TypeOK
<1> QED
  BY <1>1, <1>2, <1>3, <1>5, <1>6, StepOf DEF LockInv, Pairings

\* After the second write the call only commits.
LEMMA WriteStanding2Locks ==
  ASSUME LockInv, IInv', NEW r \in Requests, WriteStanding2(r)
  PROVE  LockInv'
<1> DEFINE c == calls'[r]
<1>1. /\ calls[r] \in Call /\ calls[r].pc = "writeStanding2"
      /\ Branch(calls[r]) /\ Locks(r)
      /\ UNCHANGED <<matches, reached, knockoutScore>>
  BY DEF LockInv, IInv, TypeOK, Pairings, WriteStanding2, At
<1>2. /\ c.pc = "commit" /\ c.match = calls[r].match /\ c.upd = calls[r].upd
      /\ \A q \in Requests \ {r} : calls'[q] = calls[q]
  BY <1>1 DEF WriteStanding2, GoTo, LockInv, IInv, TypeOK, Call
<1>3. Branch(c)
  BY <1>1, <1>2 DEF Branch, Statements, GroupStatements, KnockoutStatements
<1>4. \A k \in Countries : \/ standings'[k] = standings[k]
                           \/ standings'[k].by = r
  BY DEF WriteStanding2, LockInv, IInv, TypeOK, Rows!Write
<1>5. Locks(r)'
  BY <1>1, <1>2 DEF Locks, Statements
<1>6. /\ Passes(matches, matches', r) /\ Passes(standings, standings', r)
      /\ Passes(reached, reached', r) /\ Passes(knockoutScore, knockoutScore', r)
  BY <1>1, <1>4 DEF Passes, LockInv, IInv, TypeOK
<1> QED
  BY <1>1, <1>2, <1>3, <1>5, <1>6, StepOf DEF LockInv, Pairings

(***************************************************************************)
(* The knockout branch                                                     *)
(***************************************************************************)
\* A call of a knockout match that goes on may take any row of the brackets,
\* the knockout standings and the scores, and no other.
LEMMA KnockoutStep ==
  ASSUME LockInv, IInv', NEW r \in Requests,
         calls[r].pc \in KnockoutStatements, UNCHANGED standings,
         calls'[r].pc \in KnockoutStatements \cup {"commit"},
         calls'[r].match = calls[r].match, calls'[r].upd = calls[r].upd,
         \A q \in Requests \ {r} : calls'[q] = calls[q],
         Passes(matches, matches', r), Passes(reached, reached', r),
         Passes(knockoutScore, knockoutScore', r),
         \A m \in Matches : ~IsKnockout(m) => matches'[m] = matches[m]
  PROVE  LockInv'
<1>1. Branch(calls[r]) /\ Locks(r) /\ IsKnockout(calls[r].match)
  BY DEF LockInv, Pairings, Branch
<1>2. /\ calls[r].pc \in Statements /\ calls'[r].pc \in Statements \ {"updateMatch"}
      /\ calls[r].pc \notin {"writeStanding2", "commit"}
      /\ calls'[r].pc \notin GroupStatements
  BY DEF Statements, KnockoutStatements, GroupStatements
<1>3. Branch(calls'[r])
  BY <1>1, <1>2 DEF Branch
<1>4. Locks(r)'
  BY <1>1, <1>2 DEF Locks
<1>5. Passes(standings, standings', r)
  BY DEF Passes
<1>6. \A m \in Matches : ~IsKnockout(m) =>
        Paired(m, matches'[m].cur) /\ Paired(m, matches'[m].new)
  BY DEF LockInv, Pairings
<1> QED
  BY <1>3, <1>4, <1>5, <1>6, StepOf

\* The winner and the loser move to knockout matches.
LEMMA NextAreKnockout ==
  ASSUME NEW m \in Matches, NEW n \in NextMatches(m) \cup ThirdPlaceMatches(m)
  PROVE  IsKnockout(n)
  BY RoundAssumption DEF NextMatches, ThirdPlaceMatches, IsKnockout

LEMMA AdvanceWinnerLocks ==
  ASSUME LockInv, IInv', NEW r \in Requests, AdvanceWinner(r)
  PROVE  LockInv'
<1> DEFINE c == calls[r]
<1>1. /\ c \in Call /\ c.pc = "advanceWinner"
      /\ UNCHANGED <<standings, reached, knockoutScore>>
  BY DEF LockInv, IInv, TypeOK, AdvanceWinner, At
<1>2. c.match \in Matches
  BY <1>1 DEF LockInv, IInv, Local, Statements
<1>3. /\ calls'[r].pc \in {"seedLoser", "upsertWinner"}
      /\ calls'[r].match = c.match /\ calls'[r].upd = c.upd
      /\ \A q \in Requests \ {r} : calls'[q] = calls[q]
  BY <1>1 DEF AdvanceWinner, GoTo, LockInv, IInv, TypeOK, Call
<1>4. /\ \A n \in Matches \ NextMatches(c.match) : matches'[n] = matches[n]
      /\ \A n \in Matches : matches'[n] = matches[n] \/ matches'[n].by = r
  BY DEF AdvanceWinner, Rows!Write
<1>5. \A n \in Matches : ~IsKnockout(n) => matches'[n] = matches[n]
  BY <1>2, <1>4, NextAreKnockout
<1>6. /\ Passes(matches, matches', r) /\ Passes(reached, reached', r)
      /\ Passes(knockoutScore, knockoutScore', r)
  BY <1>1, <1>4 DEF Passes, LockInv, IInv, TypeOK
<1> QED
  BY <1>1, <1>3, <1>5, <1>6, KnockoutStep DEF KnockoutStatements

LEMMA SeedThirdPlaceLocks ==
  ASSUME LockInv, IInv', NEW r \in Requests, SeedThirdPlace(r)
  PROVE  LockInv'
<1> DEFINE c == calls[r]
<1>1. /\ c \in Call /\ c.pc = "seedLoser"
      /\ UNCHANGED <<standings, reached, knockoutScore>>
  BY DEF LockInv, IInv, TypeOK, SeedThirdPlace, At
<1>2. c.match \in Matches
  BY <1>1 DEF LockInv, IInv, Local, Statements
<1>3. /\ calls'[r].pc = "upsertWinner"
      /\ calls'[r].match = c.match /\ calls'[r].upd = c.upd
      /\ \A q \in Requests \ {r} : calls'[q] = calls[q]
  BY <1>1 DEF SeedThirdPlace, GoTo, LockInv, IInv, TypeOK, Call
<1>4. /\ \A n \in Matches \ ThirdPlaceMatches(c.match) : matches'[n] = matches[n]
      /\ \A n \in Matches : matches'[n] = matches[n] \/ matches'[n].by = r
  BY DEF SeedThirdPlace, Rows!Write
<1>5. \A n \in Matches : ~IsKnockout(n) => matches'[n] = matches[n]
  BY <1>2, <1>4, NextAreKnockout
<1>6. /\ Passes(matches, matches', r) /\ Passes(reached, reached', r)
      /\ Passes(knockoutScore, knockoutScore', r)
  BY <1>1, <1>4 DEF Passes, LockInv, IInv, TypeOK
<1> QED
  BY <1>1, <1>3, <1>5, <1>6, KnockoutStep DEF KnockoutStatements

\* The upserts of the knockout standings.
LEMMA UpsertLocks ==
  ASSUME LockInv, IInv', NEW r \in Requests, UpsertWinner(r) \/ UpsertLoser(r)
  PROVE  LockInv'
<1> DEFINE c == calls[r]
<1>1. /\ c \in Call /\ c.pc \in {"upsertWinner", "upsertLoser"}
      /\ UNCHANGED <<matches, standings, knockoutScore>>
  BY DEF LockInv, IInv, TypeOK, UpsertWinner, UpsertLoser, At
<1>2. /\ calls'[r].pc \in {"queryPicks", "commit"}
      /\ calls'[r].match = c.match /\ calls'[r].upd = c.upd
      /\ \A q \in Requests \ {r} : calls'[q] = calls[q]
  BY <1>1 DEF UpsertWinner, UpsertLoser, GoTo, LockInv, IInv, TypeOK, Call
<1>3. \A k \in Countries : reached'[k] = reached[k] \/ reached'[k].by = r
  BY DEF UpsertWinner, UpsertLoser, Rows!Write, LockInv, IInv, TypeOK
<1>4. /\ Passes(matches, matches', r) /\ Passes(reached, reached', r)
      /\ Passes(knockoutScore, knockoutScore', r)
  BY <1>1, <1>3 DEF Passes, LockInv, IInv, TypeOK
<1> QED
  BY <1>1, <1>2, <1>4, KnockoutStep DEF KnockoutStatements

\* The query of the picks takes no lock, and an award takes that of the user.
LEMMA PayLocks ==
  ASSUME LockInv, IInv', NEW r \in Requests, QueryPicks(r) \/ AwardUser(r)
  PROVE  LockInv'
<1> DEFINE c == calls[r]
<1>1. /\ c \in Call /\ c.pc \in {"queryPicks", "award"}
      /\ UNCHANGED <<matches, standings, reached>>
  BY DEF LockInv, IInv, TypeOK, QueryPicks, AwardUser, At, tables
<1>2. PICK order :
        calls' = [calls EXCEPT ![r].pc = AfterAward(c.match, order),
                               ![r].unpaid = order]
  BY DEF QueryPicks, AwardUser
<1>3. /\ calls'[r].pc = AfterAward(c.match, order)
      /\ calls'[r].match = c.match /\ calls'[r].upd = c.upd
      /\ \A q \in Requests \ {r} : calls'[q] = calls[q]
  BY <1>1, <1>2 DEF LockInv, IInv, TypeOK, Call
<1>4. calls'[r].pc \in {"award", "upsertLoser", "commit"}
  BY <1>3, AfterAwardType
<1>5. \A u \in Users : \/ knockoutScore'[u] = knockoutScore[u]
                       \/ knockoutScore'[u].by = r
  BY DEF QueryPicks, AwardUser, Rows!Write, LockInv, IInv, TypeOK, tables
<1>6. /\ Passes(matches, matches', r) /\ Passes(reached, reached', r)
      /\ Passes(knockoutScore, knockoutScore', r)
  BY <1>1, <1>5 DEF Passes, LockInv, IInv, TypeOK
<1> QED
  BY <1>1, <1>3, <1>4, <1>6, KnockoutStep DEF KnockoutStatements

(***************************************************************************)
(* The end of a transaction                                                *)
(***************************************************************************)
\* The rows of a table that r gives back by committing or rolling back.
LEMMA Released ==
  ASSUME NEW K, NEW V, NEW table \in [K -> Rows!RowVersion(V, Requests)],
         NEW r \in Requests, NEW tableNext,
         \/ tableNext = Rows!Publish(table, r)
         \/ tableNext = Rows!Discard(table, r)
  PROVE  /\ Passes(table, tableNext, r)
         /\ \A k \in K : /\ tableNext[k].by # r
                         /\ tableNext[k].cur \in {table[k].cur, table[k].new}
                         /\ tableNext[k].new \in {table[k].cur, table[k].new}
  BY RequestAssumption
  DEF Passes, Rows!Publish, Rows!Discard, Rows!Committed

LEMMA EndLocks ==
  ASSUME LockInv, IInv', NEW r \in Requests, Commit(r) \/ RollBack(r)
  PROVE  LockInv'
<1>1. /\ calls'[r].pc \in {"done", "failed"}
      /\ \A q \in Requests \ {r} : calls'[q] = calls[q]
  <2>1. calls \in [Requests -> Call]
    BY DEF LockInv, IInv, TypeOK
  <2>2. CASE Commit(r)
    BY <2>1, <2>2 DEF Commit, Call
  <2>3. CASE RollBack(r)
    BY <2>1, <2>3 DEF RollBack, Idle
  <2> QED
    BY <2>2, <2>3
<1>2. /\ Passes(matches, matches', r)
      /\ \A m \in Matches : /\ matches'[m].by # r
                            /\ matches'[m].cur \in {matches[m].cur, matches[m].new}
                            /\ matches'[m].new \in {matches[m].cur, matches[m].new}
  <2>1. matches \in [Matches -> Rows!RowVersion(MatchRow, Requests)]
    BY DEF LockInv, IInv, TypeOK
  <2>2. matches' = Rows!Publish(matches, r) \/ matches' = Rows!Discard(matches, r)
    BY DEF Commit, RollBack
  <2> QED
    BY <2>1, <2>2, Released
<1>3. /\ Passes(standings, standings', r)
      /\ \A k \in Countries : standings'[k].by # r
  <2>1. standings \in [Countries -> Rows!RowVersion(StandingRow, Requests)]
    BY DEF LockInv, IInv, TypeOK
  <2>2. standings' = Rows!Publish(standings, r) \/ standings' = Rows!Discard(standings, r)
    BY DEF Commit, RollBack
  <2> QED
    BY <2>1, <2>2, Released
<1>4. /\ Passes(reached, reached', r)
      /\ \A k \in Countries : reached'[k].by # r
  <2>1. reached \in [Countries -> Rows!RowVersion(0 .. 7, Requests)]
    BY DEF LockInv, IInv, TypeOK
  <2>2. reached' = Rows!Publish(reached, r) \/ reached' = Rows!Discard(reached, r)
    BY DEF Commit, RollBack
  <2> QED
    BY <2>1, <2>2, Released
<1>5. /\ Passes(knockoutScore, knockoutScore', r)
      /\ \A u \in Users : knockoutScore'[u].by # r
  <2>1. knockoutScore \in [Users -> Rows!RowVersion(Nat, Requests)]
    BY DEF LockInv, IInv, TypeOK
  <2>2. knockoutScore' = Rows!Publish(knockoutScore, r) \/ knockoutScore' = Rows!Discard(knockoutScore, r)
    BY DEF Commit, RollBack
  <2> QED
    BY <2>1, <2>2, Released
<1>6. \A m \in Matches : ~IsKnockout(m) =>
        Paired(m, matches'[m].cur) /\ Paired(m, matches'[m].new)
  BY <1>2 DEF LockInv, Pairings
<1>7. Locks(r)'
  BY <1>2, <1>3, <1>4, <1>5 DEF Locks
<1>8. Branch(calls'[r])
  BY <1>1 DEF Branch, Statements, GroupStatements, KnockoutStatements
<1> QED
  BY <1>1, <1>2, <1>3, <1>4, <1>5, <1>6, <1>7, <1>8, StepOf

----------------------------------------------------------------------------
LEMMA StepLocks == LockInv /\ [Next]_vars => LockInv'
<1> SUFFICES ASSUME LockInv, [Next]_vars PROVE LockInv'
  OBVIOUS
<1>1. IInv'
  BY StepInvariant DEF LockInv
<1>2. ASSUME NEW r \in Requests, Lookup(r) PROVE LockInv'
  BY <1>1, <1>2, LookupLocks
<1>3. ASSUME NEW r \in Requests, Statement(r) PROVE LockInv'
  <2>1. CASE UpdateMatchRow(r)
    BY <1>1, <2>1, UpdateMatchRowLocks
  <2>2. CASE ReadStanding1(r)
    BY <1>1, <2>2, ReadStanding1Locks
  <2>3. CASE ReadStanding2(r)
    BY <1>1, <2>3, ReadStanding2Locks
  <2>4. CASE WriteStanding1(r)
    BY <1>1, <2>4, WriteStanding1Locks
  <2>5. CASE WriteStanding2(r)
    BY <1>1, <2>5, WriteStanding2Locks
  <2>6. CASE AdvanceWinner(r)
    BY <1>1, <2>6, AdvanceWinnerLocks
  <2>7. CASE SeedThirdPlace(r)
    BY <1>1, <2>7, SeedThirdPlaceLocks
  <2>8. CASE UpsertWinner(r) \/ UpsertLoser(r)
    BY <1>1, <2>8, UpsertLocks
  <2>9. CASE QueryPicks(r) \/ AwardUser(r)
    BY <1>1, <2>9, PayLocks
  <2>10. CASE Reject(r) \/ Commit(r)
    BY <1>1, <2>10, EndLocks DEF Reject
  <2> QED
    BY <1>3, <2>1, <2>2, <2>3, <2>4, <2>5, <2>6, <2>7, <2>8, <2>9, <2>10
    DEF Statement
<1>4. ASSUME NEW r \in Requests, Abort(r) \/ DeadlockAbort(r) PROVE LockInv'
  BY <1>1, <1>4, EndLocks DEF Abort, DeadlockAbort
<1>5. CASE UNCHANGED vars
  BY <1>1, <1>5 DEF LockInv, Pairings, Locks, vars
<1> QED
  BY <1>2, <1>3, <1>4, <1>5 DEF Next, AllAnswered

\* Results of group matches never deadlock: in any contest whose pairings are
\* those of CreateContest, however many calls of UpdateMatch run, fail and are
\* rolled back, no call of a group match is ever on a cycle of waiting calls.
THEOREM GroupResultsNeverDeadlock == Spec => []GroupResultsDoNotDeadlock
  BY InitLocks, StepLocks, NoGroupDeadlock, PTL DEF Spec

----------------------------------------------------------------------------
(***************************************************************************)
(* What a call has done so far.  At each statement the rows it holds are   *)
(* exactly those it has written, and they hold what ResultBook's step      *)
(* writes if it is taken on the committed tables of this moment.           *)
(***************************************************************************)
\* A call whose match row decides a knockout match.
Deciding(c) ==
  /\ IsKnockout(c.match)
  /\ Completed(c.upd) /\ HasCountries(c.upd) /\ HasWinner(c.upd)

AfterSeeds == {"upsertWinner", "queryPicks", "award", "upsertLoser", "commit"}
AfterUpsert == {"queryPicks", "award", "upsertLoser", "commit"}
AfterQuery == {"award", "upsertLoser", "commit"}

\* The row is held by r if and only if r has written it, and then holds the value.
Held(row, r, written, value) ==
  /\ row.by = r <=> written
  /\ written => row.new = value

WroteMatch(c, n) ==
  \/ c.pc \in Statements \ {"updateMatch"} /\ n = c.match
  \/ c.pc \in AfterSeeds \cup {"seedLoser"} /\ Deciding(c) /\ n \in NextMatches(c.match)
  \/ c.pc \in AfterSeeds /\ Deciding(c) /\ n \in ThirdPlaceMatches(c.match)
MatchAfter(c, n, row) ==
  IF n = c.match THEN c.upd
  ELSE IF n \in NextMatches(c.match) THEN SeedWinner(c.match, row, Winner(c.upd))
  ELSE SeedLoser(c.match, row, Loser(c.upd))

WroteStanding(c, k) ==
  \/ c.pc = "writeStanding2" /\ k = c.upd.c1
  \/ /\ c.pc = "commit" /\ ~IsKnockout(c.match) /\ Completed(c.upd)
     /\ k \in {c.upd.c1, c.upd.c2}
StandingAfter(c, k, s) ==
  IF k = c.upd.c1 THEN CreditFirst(s, c.upd) ELSE CreditSecond(s, c.upd)

WroteReached(c, k) ==
  \/ c.pc \in AfterUpsert /\ Deciding(c) /\ k = Winner(c.upd)
  \/ c.pc = "commit" /\ Deciding(c) /\ Round[c.match] = 4 /\ k = Loser(c.upd)
RoundAfter(c, k) == IF k = Winner(c.upd) THEN Achieved(c.match) ELSE 5

Payees(c) == Pickers(Winner(c.upd), Achieved(c.match))
Unpaid(c) == Elements(c.unpaid)
WroteScore(c, u) ==
  /\ c.pc \in AfterQuery /\ Deciding(c)
  /\ u \in Payees(c) \ Unpaid(c)
ScoreAfter(c, score) == score + AwardPoints(Achieved(c.match))

MatchEffects(r) ==
  \A n \in Matches : Held(matches[n], r, WroteMatch(calls[r], n),
                          MatchAfter(calls[r], n, matches[n].cur))
StandingEffects(r) ==
  \A k \in Countries : Held(standings[k], r, WroteStanding(calls[r], k),
                            StandingAfter(calls[r], k, standings[k].cur))
ReachedEffects(r) ==
  \A k \in Countries : Held(reached[k], r, WroteReached(calls[r], k),
                            RoundAfter(calls[r], k))
ScoreEffects(r) ==
  \A u \in Users : Held(knockoutScore[u], r, WroteScore(calls[r], u),
                        ScoreAfter(calls[r], knockoutScore[u].cur))

Effects(r) ==
  MatchEffects(r) /\ StandingEffects(r) /\ ReachedEffects(r) /\ ScoreEffects(r)

\* Which statement a call may be at, and whom it has yet to pay.
Course(c) ==
  /\ c.pc \in KnockoutStatements => Deciding(c)
  /\ c.pc \in {"seedLoser", "upsertLoser"} => Round[c.match] = 4
  /\ c.pc = "commit" /\ Completed(c.upd) => HasCountries(c.upd)
  /\ c.pc \in Statements \ {"award"} => c.unpaid = <<>>
  /\ c.pc = "award" => Unpaid(c) \subseteq Payees(c) /\ Distinct(c.unpaid)

(***************************************************************************)
(* What a call has read still is what is committed: the match row it       *)
(* merged its payload into, and the standings it credited.  This is where  *)
(* coordination is needed.                                                 *)
(***************************************************************************)
Merged(c) ==
  LET row == matches[c.match].cur
  IN  \E payload \in Payloads :
        /\ c.match \in Found(Rows!Current(matches), payload)
        /\ ~Completed(row)
        /\ HasUpdates(c.match, payload)
        /\ c.upd = Merge(c.match, row, payload)

Fresh(r) ==
  LET c == calls[r]
  IN  /\ c.pc \in Statements => Merged(c)
      /\ c.pc \in {"readStanding2", "writeStanding1"} =>
           c.s1 = CreditFirst(standings[c.upd.c1].cur, c.upd)
      /\ c.pc \in {"writeStanding1", "writeStanding2"} =>
           c.s2 = CreditSecond(standings[c.upd.c2].cur, c.upd)

AtomInv ==
  /\ LockInv /\ Coordinated
  /\ \A r \in Requests : Effects(r) /\ Course(calls[r]) /\ Fresh(r)

----------------------------------------------------------------------------
(***************************************************************************)
(* Lemmas about tables and about the other calls                           *)
(***************************************************************************)
\* A statement of r only writes rows that are free or its own, and publishes none.
Touches(table, tableNext, r) ==
  \A k \in DOMAIN table :
    \/ tableNext[k] = table[k]
    \/ /\ table[k].by \in {Null, r} /\ tableNext[k].by = r
       /\ tableNext[k].cur = table[k].cur

\* A row of another call is what it was, and no row becomes another call's.
Spares(table, tableNext, q) ==
  \A k \in DOMAIN table :
    /\ table[k].by = q => tableNext[k] = table[k]
    /\ tableNext[k].by = q => table[k].by = q

LEMMA TouchesSpares ==
  ASSUME NEW table, NEW tableNext, NEW r \in Requests, Touches(table, tableNext, r)
  PROVE  /\ \A q \in Requests \ {r} : Spares(table, tableNext, q)
         /\ \A k \in DOMAIN table : tableNext[k].cur = table[k].cur
  BY RequestAssumption DEF Touches, Spares

\* The effects of a call are not disturbed by a step that spares its rows.
LEMMA EffectsKept ==
  ASSUME AtomInv, LockInv', NEW q \in Requests, calls'[q] = calls[q],
         Spares(matches, matches', q), Spares(standings, standings', q),
         Spares(reached, reached', q), Spares(knockoutScore, knockoutScore', q)
  PROVE  Effects(q)'
<1> DEFINE c == calls[q]
<1>1. /\ DOMAIN matches = Matches /\ DOMAIN standings = Countries
      /\ DOMAIN reached = Countries /\ DOMAIN knockoutScore = Users
  BY DEF AtomInv, LockInv, IInv, TypeOK
<1>2. Effects(q) /\ calls'[q] = c
  BY DEF AtomInv
<1>3. ASSUME NEW n \in Matches
      PROVE  Held(matches'[n], q, WroteMatch(c, n), MatchAfter(c, n, matches'[n].cur))
  BY <1>1, <1>2 DEF Effects, MatchEffects, StandingEffects, ReachedEffects, ScoreEffects,
       Spares, Held
<1>4. ASSUME NEW k \in Countries
      PROVE  Held(standings'[k], q, WroteStanding(c, k),
                  StandingAfter(c, k, standings'[k].cur))
  BY <1>1, <1>2 DEF Effects, MatchEffects, StandingEffects, ReachedEffects, ScoreEffects,
       Spares, Held
<1>5. ASSUME NEW k \in Countries
      PROVE  Held(reached'[k], q, WroteReached(c, k), RoundAfter(c, k))
  BY <1>1, <1>2 DEF Effects, MatchEffects, StandingEffects, ReachedEffects, ScoreEffects,
       Spares, Held
<1>6. ASSUME NEW u \in Users
      PROVE  Held(knockoutScore'[u], q, WroteScore(c, u),
                  ScoreAfter(c, knockoutScore'[u].cur))
  BY <1>1, <1>2 DEF Effects, MatchEffects, StandingEffects, ReachedEffects, ScoreEffects,
       Spares, Held
<1> QED
  BY <1>2, <1>3, <1>4, <1>5, <1>6
  DEF Effects, MatchEffects, StandingEffects, ReachedEffects, ScoreEffects

\* What the lookup finds depends on the row it finds.
LEMMA FoundByRow ==
  ASSUME NEW f, NEW g, NEW m \in Matches, f[m] = g[m], NEW payload,
         m \in Found(f, payload)
  PROVE  m \in Found(g, payload)
  BY DEF Found

\* What a call has read stays fresh when its match row and the standings of its
\* match keep their committed values.
LEMMA FreshKept ==
  ASSUME AtomInv, LockInv', NEW q \in Requests, calls'[q] = calls[q],
         calls[q].pc \in Statements => matches'[calls[q].match].cur
                                       = matches[calls[q].match].cur,
         calls[q].pc \in GroupStatements =>
           /\ standings'[calls[q].upd.c1].cur = standings[calls[q].upd.c1].cur
           /\ standings'[calls[q].upd.c2].cur = standings[calls[q].upd.c2].cur
  PROVE  Fresh(q)'
<1> DEFINE c == calls[q]
<1>1. Fresh(q) /\ calls'[q] = c
  BY DEF AtomInv
<1>2. CASE c.pc \in Statements
  <2>1. c.match \in Matches
    BY <1>2 DEF AtomInv, LockInv, IInv, Local
  <2>2. PICK payload \in Payloads :
          /\ c.match \in Found(Rows!Current(matches), payload)
          /\ ~Completed(matches[c.match].cur)
          /\ HasUpdates(c.match, payload)
          /\ c.upd = Merge(c.match, matches[c.match].cur, payload)
    BY <1>1, <1>2 DEF Fresh, Merged
  <2>3. Rows!Current(matches)[c.match] = Rows!Current(matches')[c.match]
    BY <1>2, <2>1 DEF Rows!Current, AtomInv, LockInv, IInv, TypeOK
  <2>4. c.match \in Found(Rows!Current(matches'), payload)
    BY <2>1, <2>2, <2>3, FoundByRow
  <2>5. Merged(c)'
    BY <1>1, <1>2, <2>2, <2>4 DEF Merged, Rows!Current
  <2> QED
    BY <1>1, <2>5 DEF Fresh, GroupStatements
<1>3. CASE c.pc \notin Statements
  BY <1>1, <1>3 DEF Fresh, Statements
<1> QED
  BY <1>2, <1>3

\* A statement of r preserves the invariant if it touches the tables only as a
\* statement does and r itself is in order.
LEMMA StatementOf ==
  ASSUME AtomInv, LockInv', Coordinated', NEW r \in Requests,
         Touches(matches, matches', r), Touches(standings, standings', r),
         Touches(reached, reached', r), Touches(knockoutScore, knockoutScore', r),
         \A q \in Requests \ {r} : calls'[q] = calls[q],
         Effects(r)', Course(calls'[r]), Fresh(r)'
  PROVE  AtomInv'
<1>1. ASSUME NEW q \in Requests, q # r
      PROVE  Effects(q)' /\ Course(calls'[q]) /\ Fresh(q)'
  <2>1. /\ DOMAIN matches = Matches /\ DOMAIN standings = Countries
        /\ Local(calls[q])
    BY DEF AtomInv, LockInv, IInv, TypeOK
  <2>2. /\ Spares(matches, matches', q) /\ Spares(standings, standings', q)
        /\ Spares(reached, reached', q) /\ Spares(knockoutScore, knockoutScore', q)
    BY <1>1, TouchesSpares
  <2>3. /\ \A n \in Matches : matches'[n].cur = matches[n].cur
        /\ \A k \in Countries : standings'[k].cur = standings[k].cur
    BY <2>1, TouchesSpares
  <2>4. Effects(q)'
    BY <1>1, <2>2, EffectsKept
  <2>5. calls[q].pc \in Statements => calls[q].match \in Matches
    BY <2>1 DEF Local
  <2>6. calls[q].pc \in GroupStatements =>
          calls[q].upd.c1 \in Countries /\ calls[q].upd.c2 \in Countries
    BY OfResultType DEF AtomInv, LockInv, GroupStatements, OfResult, Statements
  <2>7. Fresh(q)'
    BY <1>1, <2>3, <2>5, <2>6, FreshKept
  <2> QED
    BY <1>1, <2>4, <2>7 DEF AtomInv
<1> QED
  BY <1>1 DEF AtomInv

----------------------------------------------------------------------------
(***************************************************************************)
(* The invariant holds initially; the lookup and the match row             *)
(***************************************************************************)
\* Before its match row is written and after its transaction a call holds nothing.
Outside == {"idle", "updateMatch", "done", "failed"}

LEMMA OutsideWrites ==
  ASSUME NEW c, c.pc \in Outside
  PROVE  /\ \A n : ~WroteMatch(c, n)
         /\ \A k : ~WroteStanding(c, k) /\ ~WroteReached(c, k) /\ ~WroteScore(c, k)
  BY DEF Outside, WroteMatch, WroteStanding, WroteReached, WroteScore, AfterSeeds,
         AfterUpsert, AfterQuery, Statements

LEMMA OutsideEffects ==
  ASSUME NEW r \in Requests, calls[r].pc \in Outside
  PROVE  Effects(r) <=> /\ \A n \in Matches : matches[n].by # r
                        /\ \A k \in Countries : standings[k].by # r
                        /\ \A k \in Countries : reached[k].by # r
                        /\ \A u \in Users : knockoutScore[u].by # r
  BY OutsideWrites DEF Effects, MatchEffects, StandingEffects, ReachedEffects, ScoreEffects,
     Held

LEMMA InitAtomic == Init => AtomInv
<1> SUFFICES ASSUME Init PROVE AtomInv
  OBVIOUS
<1>1. \A r \in Requests : calls[r].pc = "idle"
  BY DEF Init, Idle
<1>2. \A r \in Requests : Effects(r)
  BY <1>1, OutsideEffects, RequestAssumption DEF Init, Outside, Rows!Committed
<1>3. \A r \in Requests : Course(calls[r])
  BY <1>1 DEF Course, KnockoutStatements, Statements
<1>4. \A r \in Requests : Fresh(r)
  BY <1>1 DEF Fresh, Statements
<1>5. Coordinated
  BY <1>1 DEF Coordinated, InFlight, Statements
<1> QED
  BY <1>2, <1>3, <1>4, <1>5, InitLocks DEF AtomInv

\* What the invariant says of a call at one of its statements.
LEMMA Own ==
  ASSUME AtomInv, NEW r \in Requests, calls[r].pc \in Statements
  PROVE  /\ calls[r] \in Call /\ Local(calls[r]) /\ Branch(calls[r])
         /\ calls[r].match \in Matches /\ calls[r].upd \in MatchRow
         /\ Effects(r) /\ Course(calls[r]) /\ Fresh(r)
  BY DEF AtomInv, LockInv, IInv, TypeOK, Local, Pairings

\* Every table is a table.
LEMMA Domains ==
  ASSUME AtomInv
  PROVE  /\ DOMAIN matches = Matches /\ DOMAIN standings = Countries
         /\ DOMAIN reached = Countries /\ DOMAIN knockoutScore = Users
         /\ DOMAIN calls = Requests
  BY DEF AtomInv, LockInv, IInv, TypeOK

LEMMA LookupAtomic ==
  ASSUME AtomInv, LockInv', Coordinated', NEW r \in Requests, Lookup(r)
  PROVE  AtomInv'
<1>1. calls[r].pc = "idle" /\ UNCHANGED tables /\ calls[r] \in Call
  BY DEF Lookup, AtomInv, LockInv, IInv, TypeOK
<1>2. /\ \A q \in Requests \ {r} : calls'[q] = calls[q]
      /\ calls'[r].pc \in Outside
  <2>1. ASSUME NEW pc \in {"done", "failed"}, GoTo(r, pc)
        PROVE  /\ \A q \in Requests \ {r} : calls'[q] = calls[q]
               /\ calls'[r].pc \in Outside
    BY <1>1, <2>1, Domains DEF GoTo, Call, Outside
  <2>2. ASSUME NEW m, NEW upd,
               calls' = [calls EXCEPT
                 ![r] = [Idle EXCEPT !.pc = "updateMatch", !.match = m, !.upd = upd]]
        PROVE  /\ \A q \in Requests \ {r} : calls'[q] = calls[q]
               /\ calls'[r].pc \in Outside
    BY <2>2, Domains DEF Idle, Outside
  <2> QED
    BY <2>1, <2>2 DEF Lookup
<1>3. Effects(r)'
  <2>1. Effects(r)
    BY DEF AtomInv
  <2>2. /\ \A n \in Matches : matches[n].by # r
        /\ \A k \in Countries : standings[k].by # r
        /\ \A k \in Countries : reached[k].by # r
        /\ \A u \in Users : knockoutScore[u].by # r
    BY <1>1, <2>1, OutsideEffects DEF Outside
  <2> QED
    BY <1>1, <1>2, <2>2, OutsideWrites DEF Effects, MatchEffects, StandingEffects, ReachedEffects, ScoreEffects,
     Held, tables
<1>4. /\ Touches(matches, matches', r) /\ Touches(standings, standings', r)
      /\ Touches(reached, reached', r) /\ Touches(knockoutScore, knockoutScore', r)
  BY <1>1 DEF Touches, tables
<1>5. ASSUME NEW pc \in {"done", "failed"}, GoTo(r, pc)
      PROVE  Course(calls'[r]) /\ Fresh(r)'
  <2>1. calls'[r].pc = pc
    BY <1>1, <1>5, Domains DEF GoTo, Call
  <2> QED
    BY <2>1 DEF Course, Fresh, Statements, KnockoutStatements
<1>6. ASSUME NEW payload \in Payloads, NEW m \in Found(Rows!Current(matches), payload),
             ~Completed(Rows!Current(matches)[m]), HasUpdates(m, payload),
             calls' = [calls EXCEPT
               ![r] = [Idle EXCEPT !.pc = "updateMatch", !.match = m,
                         !.upd = Merge(m, Rows!Current(matches)[m], payload)]]
      PROVE  Course(calls'[r]) /\ Fresh(r)'
  <2> DEFINE c == calls'[r]
             row == matches[m].cur
  <2>1. Rows!Current(matches)[m] = row
    BY Domains DEF Rows!Current, Found
  <2>2. /\ c.pc = "updateMatch" /\ c.match = m /\ c.unpaid = <<>>
        /\ c.upd = Merge(m, row, payload)
    BY <1>6, <2>1, Domains DEF Idle
  <2>3. Course(c)
    BY <2>2 DEF Course, KnockoutStatements
  <2>4. Merged(calls[r])'
    BY <1>1, <1>6, <2>1, <2>2 DEF Merged, tables
  <2> QED
    BY <2>2, <2>3, <2>4 DEF Fresh
<1>7. Course(calls'[r]) /\ Fresh(r)'
  BY <1>5, <1>6 DEF Lookup
<1> QED
  BY <1>2, <1>3, <1>4, <1>7, StatementOf

\* Writing a row the statement did not have to wait for.
LEMMA WriteTouches ==
  ASSUME NEW table, NEW r, NEW v, NEW k \in DOMAIN table, table[k].by \in {Null, r}
  PROVE  Touches(table, [table EXCEPT ![k] = Rows!Write(@, r, v)], r)
  BY DEF Touches, Rows!Write

\* A rank in the bracket that feeds no match.
LEMMA NoNextMatches ==
  ASSUME NEW m \in Matches
  PROVE  /\ Round[m] >= 5 \/ Round[m] = 0 => NextMatches(m) = {}
         /\ Round[m] # 4 => ThirdPlaceMatches(m) = {}
         /\ m \notin NextMatches(m) /\ m \notin ThirdPlaceMatches(m)
  BY RoundAssumption DEF NextMatches, ThirdPlaceMatches

LEMMA UpdateMatchRowAtomic ==
  ASSUME AtomInv, LockInv', Coordinated', NEW r \in Requests, UpdateMatchRow(r)
  PROVE  AtomInv'
<1> DEFINE c == calls[r]
           d == calls'[r]
           m == c.match
<1>1. /\ c.pc = "updateMatch" /\ c \in Call /\ Effects(r) /\ Course(c) /\ Fresh(r)
      /\ m \in Matches /\ matches[m].by \in {Null, r}
  BY Own DEF UpdateMatchRow, At, Awaited, Statements
<1>2. /\ d.pc = AfterUpdate(m, c.upd) /\ d.match = m /\ d.upd = c.upd
      /\ d.unpaid = c.unpaid
      /\ \A q \in Requests \ {r} : calls'[q] = calls[q]
  BY <1>1, Domains DEF UpdateMatchRow, GoTo, Call
<1>3. /\ matches' = [matches EXCEPT ![m] = Rows!Write(@, r, c.upd)]
      /\ UNCHANGED <<standings, reached, knockoutScore>>
  BY DEF UpdateMatchRow
<1>4. /\ Touches(matches, matches', r) /\ Touches(standings, standings', r)
      /\ Touches(reached, reached', r) /\ Touches(knockoutScore, knockoutScore', r)
  <2>1. Touches(matches, matches', r)
    BY <1>1, <1>3, WriteTouches, Domains
  <2> QED
    BY <1>3, <2>1 DEF Touches
<1>5. Deciding(d) => d.pc \in {"advanceWinner", "upsertWinner"}
  BY <1>2 DEF Deciding, AfterUpdate
<1>6. /\ d.pc \in {"commit", "reject", "readStanding1", "advanceWinner", "upsertWinner"}
      /\ d.pc \in {"advanceWinner", "upsertWinner"} => Deciding(d)
      /\ d.pc = "upsertWinner" => Round[m] >= 5
      /\ d.pc = "commit" /\ Completed(d.upd) => HasCountries(d.upd) /\ IsKnockout(m)
  BY <1>1, <1>2, RoundAssumption DEF AfterUpdate, Deciding
<1>7. \A n \in Matches : WroteMatch(d, n) <=> n = m
  BY <1>1, <1>2, <1>5, <1>6, NoNextMatches DEF WroteMatch, AfterSeeds, Statements
<1>8. \A k : ~WroteStanding(d, k) /\ ~WroteReached(d, k) /\ ~WroteScore(d, k)
  BY <1>2, <1>5, <1>6 DEF WroteStanding, WroteReached, WroteScore, AfterUpsert, AfterQuery
<1>9. Effects(r)'
  <2>1. /\ \A n \in Matches : matches[n].by # r
        /\ \A k \in Countries : standings[k].by # r
        /\ \A k \in Countries : reached[k].by # r
        /\ \A u \in Users : knockoutScore[u].by # r
    BY <1>1, OutsideEffects DEF Outside
  <2>2. \A n \in Matches : Held(matches'[n], r, n = m, c.upd)
    BY <1>1, <1>3, <2>1, Domains DEF Held, Rows!Write
  <2>3. \A n \in Matches :
          Held(matches'[n], r, WroteMatch(d, n), MatchAfter(d, n, matches'[n].cur))
    BY <1>2, <1>7, <2>2 DEF MatchAfter, Held
  <2> QED
    BY <1>3, <1>8, <2>1, <2>3 DEF Effects, MatchEffects, StandingEffects, ReachedEffects, ScoreEffects,
     Held
<1>10. Course(d)
  BY <1>1, <1>2, <1>6 DEF Course, KnockoutStatements, Statements
<1>11. Fresh(r)'
  <2>1. Merged(c)
    BY <1>1 DEF Fresh, Statements
  <2>2. Rows!Current(matches') = Rows!Current(matches)
    BY <1>1, <1>3, Domains DEF Rows!Current, Rows!Write
  <2>3. matches'[m].cur = matches[m].cur
    BY <1>1, <1>3, Domains DEF Rows!Write
  <2>4. Merged(calls[r])'
    BY <1>2, <2>1, <2>2, <2>3 DEF Merged
  <2> QED
    BY <1>6, <2>4 DEF Fresh
<1> QED
  BY <1>2, <1>4, <1>9, <1>10, <1>11, StatementOf

(***************************************************************************)
(* What a later statement leaves alone                                     *)
(***************************************************************************)
\* The call is at another statement of the same result.
GoesOn(r) ==
  /\ calls[r].pc \in Statements /\ calls'[r].pc \in Statements
  /\ calls'[r].match = calls[r].match /\ calls'[r].upd = calls[r].upd
  /\ \A q \in Requests \ {r} : calls'[q] = calls[q]

LEMMA EffectsStay ==
  ASSUME AtomInv, NEW r \in Requests, GoesOn(r)
  PROVE  /\ /\ UNCHANGED matches
            /\ \A n \in Matches : WroteMatch(calls'[r], n) <=> WroteMatch(calls[r], n)
            => MatchEffects(r)'
         /\ /\ UNCHANGED standings
            /\ \A k \in Countries :
                 WroteStanding(calls'[r], k) <=> WroteStanding(calls[r], k)
            => StandingEffects(r)'
         /\ /\ UNCHANGED reached
            /\ \A k \in Countries :
                 WroteReached(calls'[r], k) <=> WroteReached(calls[r], k)
            => ReachedEffects(r)'
         /\ /\ UNCHANGED knockoutScore
            /\ \A u \in Users : WroteScore(calls'[r], u) <=> WroteScore(calls[r], u)
            => ScoreEffects(r)'
<1> DEFINE c == calls[r]
           d == calls'[r]
<1>1. Effects(r)
  BY DEF AtomInv
<1>2. /\ \A n, row : MatchAfter(d, n, row) = MatchAfter(c, n, row)
      /\ \A k, s : StandingAfter(d, k, s) = StandingAfter(c, k, s)
      /\ \A k : RoundAfter(d, k) = RoundAfter(c, k)
      /\ \A s : ScoreAfter(d, s) = ScoreAfter(c, s)
  BY DEF GoesOn, MatchAfter, StandingAfter, RoundAfter, ScoreAfter
<1>3. ASSUME UNCHANGED matches,
             \A n \in Matches : WroteMatch(d, n) <=> WroteMatch(c, n)
      PROVE  MatchEffects(r)'
  BY <1>1, <1>2, <1>3 DEF Effects, MatchEffects, Held
<1>4. ASSUME UNCHANGED standings,
             \A k \in Countries : WroteStanding(d, k) <=> WroteStanding(c, k)
      PROVE  StandingEffects(r)'
  BY <1>1, <1>2, <1>4 DEF Effects, StandingEffects, Held
<1>5. ASSUME UNCHANGED reached,
             \A k \in Countries : WroteReached(d, k) <=> WroteReached(c, k)
      PROVE  ReachedEffects(r)'
  BY <1>1, <1>2, <1>5 DEF Effects, ReachedEffects, Held
<1>6. ASSUME UNCHANGED knockoutScore,
             \A u \in Users : WroteScore(d, u) <=> WroteScore(c, u)
      PROVE  ScoreEffects(r)'
  BY <1>1, <1>2, <1>6 DEF Effects, ScoreEffects, Held
<1> QED
  BY <1>3, <1>4, <1>5, <1>6

\* The payload stays merged into the row that is committed.
LEMMA StillMerged ==
  ASSUME AtomInv, NEW r \in Requests, GoesOn(r), Touches(matches, matches', r),
         DOMAIN matches' = Matches
  PROVE  Merged(calls[r])'
<1>1. Merged(calls[r])
  BY Own DEF GoesOn, Fresh
<1>2. \A n \in Matches : matches'[n].cur = matches[n].cur
  BY TouchesSpares, Domains
<1>3. Rows!Current(matches') = Rows!Current(matches)
  BY <1>2, Domains DEF Rows!Current
<1>4. calls[r].match \in Matches
  BY Own DEF GoesOn
<1> QED
  BY <1>1, <1>2, <1>3, <1>4 DEF GoesOn, Merged

\* A call of a group match writes neither the bracket nor the scores.
LEMMA GroupWrites ==
  ASSUME NEW c, ~IsKnockout(c.match), c.match \in Matches
  PROVE  /\ ~Deciding(c)
         /\ \A n : WroteMatch(c, n) <=>
              c.pc \in Statements \ {"updateMatch"} /\ n = c.match
         /\ \A k : ~WroteReached(c, k) /\ ~WroteScore(c, k)
  BY DEF Deciding, WroteMatch, WroteReached, WroteScore

(***************************************************************************)
(* The group branch                                                        *)
(***************************************************************************)
LEMMA ReadStandingAtomic ==
  ASSUME AtomInv, LockInv', Coordinated', NEW r \in Requests,
         ReadStanding1(r) \/ ReadStanding2(r)
  PROVE  AtomInv'
<1> DEFINE c == calls[r]
           d == calls'[r]
<1>1. /\ c.pc \in {"readStanding1", "readStanding2"} /\ UNCHANGED tables
      /\ c.pc \in GroupStatements \cap Statements \cap OfResult
  BY DEF ReadStanding1, ReadStanding2, At, GroupStatements, Statements, OfResult
<1>2. /\ c \in Call /\ Effects(r) /\ Course(c) /\ Fresh(r)
      /\ c.match \in Matches /\ ~IsKnockout(c.match)
      /\ c.upd.c1 \in Countries /\ c.upd.c2 \in Countries
  BY <1>1, Own, OfResultType DEF Branch, AtomInv, LockInv
<1>3. GoesOn(r) /\ d.unpaid = c.unpaid
      /\ d.pc = IF c.pc = "readStanding1" THEN "readStanding2" ELSE "writeStanding1"
  BY <1>1, <1>2, Domains DEF ReadStanding1, ReadStanding2, At, GoesOn, Call, Statements
<1>4. /\ \A k : ~WroteStanding(c, k) /\ ~WroteStanding(d, k)
      /\ \A k : WroteMatch(c, k) <=> WroteMatch(d, k)
      /\ \A k : WroteReached(c, k) <=> WroteReached(d, k)
      /\ \A k : WroteScore(c, k) <=> WroteScore(d, k)
  BY <1>1, <1>2, <1>3, GroupWrites DEF GoesOn, WroteStanding
<1>5. Effects(r)'
  BY <1>1, <1>3, <1>4, EffectsStay DEF Effects, tables
<1>6. /\ Touches(matches, matches', r) /\ Touches(standings, standings', r)
      /\ Touches(reached, reached', r) /\ Touches(knockoutScore, knockoutScore', r)
  BY <1>1 DEF Touches, tables
<1>7. \A k \in Countries : Rows!Read(standings[k], r) = standings[k].cur
  BY <1>2, <1>4 DEF Rows!Read, Effects, StandingEffects, Held
<1>8. Fresh(r)'
  <2>1. Merged(calls[r])'
    BY <1>1, <1>3, <1>6, StillMerged, Domains DEF tables
  <2>2. d.s1 = CreditFirst(standings[c.upd.c1].cur, c.upd)
    <3>1. CASE ReadStanding1(r)
      BY <1>2, <1>7, <3>1, Domains DEF ReadStanding1, Call
    <3>2. CASE ReadStanding2(r)
      BY <1>2, <3>2, Domains DEF ReadStanding2, At, Fresh, Call
    <3> QED
      BY <3>1, <3>2
  <2>3. d.pc = "writeStanding1" => d.s2 = CreditSecond(standings[c.upd.c2].cur, c.upd)
    BY <1>2, <1>3, <1>7, Domains DEF ReadStanding1, ReadStanding2, At, Call
  <2> QED
    BY <1>1, <1>3, <2>1, <2>2, <2>3 DEF Fresh, GoesOn, tables
<1>9. Course(d)
  BY <1>1, <1>2, <1>3 DEF Course, KnockoutStatements, Statements
<1> QED
  BY <1>3, <1>5, <1>6, <1>8, <1>9, StatementOf DEF GoesOn

\* The countries of a group match differ, and its row is a result with both.
LEMMA GroupCall ==
  ASSUME AtomInv, NEW r \in Requests, calls[r].pc \in GroupStatements
  PROVE  LET c == calls[r]
         IN  /\ c \in Call /\ Effects(r) /\ Course(c) /\ Fresh(r)
             /\ c.match \in Matches /\ ~IsKnockout(c.match)
             /\ Completed(c.upd) /\ HasCountries(c.upd)
             /\ c.upd.c1 \in Countries /\ c.upd.c2 \in Countries
             /\ c.upd.c1 # c.upd.c2
<1> DEFINE c == calls[r]
<1>1. c.pc \in Statements /\ c.pc \in OfResult
  BY DEF GroupStatements, Statements, OfResult
<1>2. /\ c \in Call /\ c.match \in Matches
      /\ Completed(c.upd) /\ HasCountries(c.upd)
      /\ c.upd.c1 \in Countries /\ c.upd.c2 \in Countries
  BY <1>1, OfResultType DEF AtomInv, LockInv
<1>3. ~IsKnockout(c.match) /\ Paired(c.match, c.upd)
  BY <1>1, Own DEF Branch
<1>4. Round[c.match] = 0
  BY <1>2, <1>3, RoundAssumption DEF IsKnockout
<1> QED
  BY <1>1, <1>2, <1>3, <1>4, Own, FixtureAssumption DEF Paired

LEMMA WriteStandingAtomic ==
  ASSUME AtomInv, LockInv', Coordinated', NEW r \in Requests,
         WriteStanding1(r) \/ WriteStanding2(r)
  PROVE  AtomInv'
<1> DEFINE c == calls[r]
           d == calls'[r]
           first == c.pc = "writeStanding1"
           k == IF first THEN c.upd.c1 ELSE c.upd.c2
           s == IF first THEN c.s1 ELSE c.s2
<1>1. /\ c.pc \in {"writeStanding1", "writeStanding2"}
      /\ c.pc \in GroupStatements \cap Statements
      /\ UNCHANGED <<matches, reached, knockoutScore>>
  BY DEF WriteStanding1, WriteStanding2, At, GroupStatements, Statements
<1>2. /\ c \in Call /\ Effects(r) /\ Course(c) /\ Fresh(r)
      /\ c.match \in Matches /\ ~IsKnockout(c.match)
      /\ Completed(c.upd) /\ HasCountries(c.upd)
      /\ c.upd.c1 \in Countries /\ c.upd.c2 \in Countries /\ c.upd.c1 # c.upd.c2
  BY <1>1, GroupCall
<1>3. GoesOn(r) /\ d.unpaid = c.unpaid /\ d.s2 = c.s2
      /\ d.pc = IF first THEN "writeStanding2" ELSE "commit"
  BY <1>1, <1>2, Domains DEF WriteStanding1, WriteStanding2, At, GoTo, GoesOn, Call, Statements
<1>4. /\ standings' = [standings EXCEPT ![k] = Rows!Write(@, r, s)]
      /\ standings[k].by \in {Null, r}
  BY DEF WriteStanding1, WriteStanding2, At, Awaited
<1>5. k \in Countries
  BY <1>2
<1>6. s = StandingAfter(c, k, standings[k].cur)
  BY <1>1, <1>2 DEF Fresh, StandingAfter
<1>7. \A j : WroteStanding(d, j) <=> WroteStanding(c, j) \/ j = k
  BY <1>1, <1>2, <1>3 DEF GoesOn, WroteStanding
<1>8. StandingEffects(r)'
  <2>1. \A j \in Countries : /\ j # k => standings'[j] = standings[j]
                             /\ standings'[k] = Rows!Write(standings[k], r, s)
    BY <1>4, <1>5, Domains
  <2>2. \A j, t : StandingAfter(d, j, t) = StandingAfter(c, j, t)
    BY <1>3 DEF GoesOn, StandingAfter
  <2>3. \A j \in Countries : Held(standings[j], r, WroteStanding(c, j),
                                  StandingAfter(c, j, standings[j].cur))
    BY <1>2 DEF Effects, StandingEffects
  <2> HIDE DEF c, d, k, s, first
  <2>4. \A j \in Countries : Held(standings'[j], r, WroteStanding(d, j),
                                  StandingAfter(d, j, standings'[j].cur))
    BY <1>6, <1>7, <2>1, <2>2, <2>3 DEF Held, Rows!Write
  <2> QED
    BY <2>4 DEF StandingEffects, d
<1>9. Effects(r)'
  <2>1. /\ \A n : WroteMatch(c, n) <=> WroteMatch(d, n)
        /\ \A n : WroteReached(c, n) <=> WroteReached(d, n)
        /\ \A n : WroteScore(c, n) <=> WroteScore(d, n)
    BY <1>1, <1>2, <1>3, GroupWrites DEF GoesOn
  <2> QED
    BY <1>1, <1>3, <1>8, <2>1, EffectsStay DEF Effects
<1>10. /\ Touches(matches, matches', r) /\ Touches(standings, standings', r)
       /\ Touches(reached, reached', r) /\ Touches(knockoutScore, knockoutScore', r)
  <2>1. Touches(standings, standings', r)
    BY <1>4, <1>5, WriteTouches, Domains
  <2> QED
    BY <1>1, <2>1 DEF Touches
<1>11. Fresh(r)'
  <2>1. Merged(calls[r])'
    BY <1>1, <1>3, <1>10, StillMerged, Domains
  <2>2. standings'[c.upd.c2].cur = standings[c.upd.c2].cur
    BY <1>2, <1>10, TouchesSpares, Domains
  <2>3. first => d.s2 = CreditSecond(standings'[c.upd.c2].cur, c.upd)
    BY <1>1, <1>2, <1>3, <2>2 DEF Fresh
  <2> QED
    BY <1>1, <1>3, <2>1, <2>3 DEF Fresh, GoesOn
<1>12. Course(d)
  BY <1>1, <1>2, <1>3 DEF Course, KnockoutStatements, Statements, GoesOn
<1> QED
  BY <1>3, <1>9, <1>10, <1>11, <1>12, StatementOf DEF GoesOn

(***************************************************************************)
(* The knockout branch                                                     *)
(***************************************************************************)
LEMMA KnockoutCall ==
  ASSUME AtomInv, NEW r \in Requests, calls[r].pc \in KnockoutStatements
  PROVE  LET c == calls[r]
         IN  /\ c.pc \in Statements /\ c \in Call
             /\ Effects(r) /\ Course(c) /\ Deciding(c)
             /\ c.match \in Matches /\ IsKnockout(c.match)
             /\ Winner(c.upd) \in Countries /\ Loser(c.upd) \in Countries
<1>1. calls[r].pc \in Statements
  BY DEF KnockoutStatements, Statements
<1>2. Deciding(calls[r]) /\ calls[r].upd \in MatchRow
  BY <1>1, Own DEF Course
<1> QED
  BY <1>1, <1>2, Own, WinnerType DEF Deciding

\* A statement of a knockout result preserves the invariant if the three tables
\* it may write are in order.
LEMMA KnockoutAtomic ==
  ASSUME AtomInv, LockInv', Coordinated', NEW r \in Requests, GoesOn(r),
         calls[r].pc \in KnockoutStatements, UNCHANGED standings,
         calls'[r].pc \in (KnockoutStatements \ {"advanceWinner"}) \cup {"commit"},
         calls'[r].pc \in {"seedLoser", "upsertLoser"} => Round[calls[r].match] = 4,
         IF calls'[r].pc = "award"
           THEN /\ Unpaid(calls'[r]) \subseteq Payees(calls[r])
                /\ Distinct(calls'[r].unpaid)
           ELSE calls'[r].unpaid = <<>>,
         Touches(matches, matches', r), DOMAIN matches' = Matches,
         Touches(reached, reached', r), Touches(knockoutScore, knockoutScore', r),
         MatchEffects(r)', ReachedEffects(r)', ScoreEffects(r)'
  PROVE  AtomInv'
<1> DEFINE c == calls[r]
           d == calls'[r]
<1>1. /\ c.pc \in Statements /\ Course(c) /\ Deciding(c)
      /\ d.match = c.match /\ d.upd = c.upd
  BY KnockoutCall DEF GoesOn
<1>2. Deciding(d) /\ Payees(d) = Payees(c)
  BY <1>1 DEF Deciding, Payees
<1>3. \A k : ~WroteStanding(c, k) /\ ~WroteStanding(d, k)
  BY <1>1, <1>2 DEF WroteStanding, KnockoutStatements, Deciding
<1>4. Effects(r)'
  BY <1>3, EffectsStay DEF Effects
<1>5. Course(d)
  BY <1>1, <1>2 DEF Course, KnockoutStatements, Statements, Deciding
<1>6. Fresh(r)'
  BY StillMerged DEF Fresh, KnockoutStatements
<1>7. Touches(standings, standings', r)
  BY DEF Touches
<1> QED
  BY <1>4, <1>5, <1>6, <1>7, StatementOf DEF GoesOn

\* The rows the winner moves to are not those the loser moves to.
LEMMA SeedsApart ==
  ASSUME NEW m \in Matches
  PROVE  NextMatches(m) \cap ThirdPlaceMatches(m) = {}
<1> SUFFICES ASSUME NEW n \in NextMatches(m), n \in ThirdPlaceMatches(m)
             PROVE  FALSE
  OBVIOUS
<1>1. Round[m] = 4 /\ Index[n] = 1 /\ Index[n] = Index[m] \div 2
  BY DEF NextMatches, ThirdPlaceMatches
<1>2. Index[m] \in {0, 1}
  BY <1>1, IndexAssumption
<1>3. 0 \div 2 = 0 /\ 1 \div 2 = 0
  OBVIOUS
<1> QED
  BY <1>1, <1>2, <1>3

LEMMA AdvanceWinnerAtomic ==
  ASSUME AtomInv, LockInv', Coordinated', NEW r \in Requests, AdvanceWinner(r)
  PROVE  AtomInv'
<1> DEFINE c == calls[r]
           d == calls'[r]
           m == c.match
<1>1. /\ c.pc = "advanceWinner" /\ c.pc \in KnockoutStatements
      /\ \A n \in NextMatches(m) : matches[n].by \in {Null, r}
      /\ UNCHANGED <<standings, reached, knockoutScore>>
  BY DEF AdvanceWinner, At, Awaited, KnockoutStatements
<1>2. /\ c.pc \in Statements /\ c \in Call /\ Effects(r) /\ Course(c) /\ Deciding(c)
      /\ m \in Matches
  BY <1>1, KnockoutCall
<1>3. /\ GoesOn(r) /\ d.unpaid = <<>>
      /\ d.pc = IF Round[m] = 4 THEN "seedLoser" ELSE "upsertWinner"
  <2>1. c.unpaid = <<>>
    BY <1>1, <1>2 DEF Course
  <2> QED
    BY <1>1, <1>2, <2>1, Domains DEF AdvanceWinner, GoTo, GoesOn, Call, Statements
<1>4. /\ d.match = m /\ d.upd = c.upd /\ Deciding(d)
  BY <1>2, <1>3 DEF GoesOn, Deciding
<1>5. matches' = [n \in Matches |->
              IF n \in NextMatches(m)
              THEN Rows!Write(matches[n], r,
                     SeedWinner(m, Rows!Read(matches[n], r), Winner(c.upd)))
              ELSE matches[n]]
  BY DEF AdvanceWinner
<1>6. m \notin NextMatches(m) /\ (Round[m] # 4 => ThirdPlaceMatches(m) = {})
  BY <1>2, NoNextMatches
<1>7. \A n : WroteMatch(c, n) <=> n = m
  BY <1>1 DEF WroteMatch, AfterSeeds, Statements
<1>8. \A n : WroteMatch(d, n) <=> n = m \/ n \in NextMatches(m)
  BY <1>3, <1>4, <1>6 DEF WroteMatch, AfterSeeds, Statements
<1>9. MatchEffects(r)'
  <2> SUFFICES ASSUME NEW n \in Matches
               PROVE  Held(matches'[n], r, WroteMatch(d, n),
                           MatchAfter(d, n, matches'[n].cur))
    BY DEF MatchEffects
  <2>1. Held(matches[n], r, WroteMatch(c, n), MatchAfter(c, n, matches[n].cur))
    BY <1>2 DEF Effects, MatchEffects
  <2>2. CASE n \in NextMatches(m)
    <3>1. Rows!Read(matches[n], r) = matches[n].cur
      BY <1>6, <1>7, <2>1, <2>2 DEF Held, Rows!Read
    <3>2. matches'[n] = Rows!Write(matches[n], r,
                          SeedWinner(m, matches[n].cur, Winner(c.upd)))
      BY <1>5, <2>2, <3>1
    <3> QED
      BY <1>4, <1>6, <1>8, <2>2, <3>2 DEF Held, Rows!Write, MatchAfter
  <2>3. CASE n \notin NextMatches(m)
    BY <1>4, <1>5, <1>7, <1>8, <2>1, <2>3 DEF Held, MatchAfter
  <2> QED
    BY <2>2, <2>3
<1>10. ReachedEffects(r)' /\ ScoreEffects(r)'
  BY <1>1, <1>3, EffectsStay
  DEF Effects, WroteReached, WroteScore, AfterUpsert, AfterQuery
<1>11. /\ Touches(matches, matches', r) /\ DOMAIN matches' = Matches
       /\ Touches(reached, reached', r) /\ Touches(knockoutScore, knockoutScore', r)
  BY <1>1, <1>5, Domains DEF Touches, Rows!Write
<1> QED
  BY <1>1, <1>3, <1>9, <1>10, <1>11, KnockoutAtomic DEF KnockoutStatements

LEMMA SeedThirdPlaceAtomic ==
  ASSUME AtomInv, LockInv', Coordinated', NEW r \in Requests, SeedThirdPlace(r)
  PROVE  AtomInv'
<1> DEFINE c == calls[r]
           d == calls'[r]
           m == c.match
<1>1. /\ c.pc = "seedLoser" /\ c.pc \in KnockoutStatements
      /\ \A n \in ThirdPlaceMatches(m) : matches[n].by \in {Null, r}
      /\ UNCHANGED <<standings, reached, knockoutScore>>
  BY DEF SeedThirdPlace, At, Awaited, KnockoutStatements
<1>2. /\ c.pc \in Statements /\ c \in Call /\ Effects(r) /\ Course(c) /\ Deciding(c)
      /\ m \in Matches
  BY <1>1, KnockoutCall
<1>3. GoesOn(r) /\ d.unpaid = <<>> /\ d.pc = "upsertWinner"
  <2>1. c.unpaid = <<>>
    BY <1>1, <1>2 DEF Course
  <2> QED
    BY <1>1, <1>2, <2>1, Domains DEF SeedThirdPlace, GoTo, GoesOn, Call, Statements
<1>4. /\ d.match = m /\ d.upd = c.upd /\ Deciding(d)
  BY <1>2, <1>3 DEF GoesOn, Deciding
<1>5. matches' = [n \in Matches |->
           IF n \in ThirdPlaceMatches(m)
           THEN Rows!Write(matches[n], r,
                  SeedLoser(m, Rows!Read(matches[n], r), Loser(c.upd)))
           ELSE matches[n]]
  BY DEF SeedThirdPlace
<1>6. /\ m \notin ThirdPlaceMatches(m)
      /\ \A n \in ThirdPlaceMatches(m) : n \notin NextMatches(m)
  BY <1>2, NoNextMatches, SeedsApart
<1>7. \A n : WroteMatch(c, n) <=> n = m \/ n \in NextMatches(m)
  BY <1>1, <1>2 DEF WroteMatch, AfterSeeds, Statements
<1>8. \A n : WroteMatch(d, n) <=> WroteMatch(c, n) \/ n \in ThirdPlaceMatches(m)
  BY <1>3, <1>4, <1>7 DEF WroteMatch, AfterSeeds, Statements
<1>9. MatchEffects(r)'
  <2> SUFFICES ASSUME NEW n \in Matches
               PROVE  Held(matches'[n], r, WroteMatch(d, n),
                           MatchAfter(d, n, matches'[n].cur))
    BY DEF MatchEffects
  <2>1. Held(matches[n], r, WroteMatch(c, n), MatchAfter(c, n, matches[n].cur))
    BY <1>2 DEF Effects, MatchEffects
  <2>2. CASE n \in ThirdPlaceMatches(m)
    <3>1. Rows!Read(matches[n], r) = matches[n].cur
      BY <1>6, <1>7, <2>1, <2>2 DEF Held, Rows!Read
    <3>2. matches'[n] = Rows!Write(matches[n], r,
                          SeedLoser(m, matches[n].cur, Loser(c.upd)))
      BY <1>5, <2>2, <3>1
    <3> QED
      BY <1>4, <1>6, <1>8, <2>2, <3>2 DEF Held, Rows!Write, MatchAfter
  <2>3. CASE n \notin ThirdPlaceMatches(m)
    BY <1>4, <1>5, <1>8, <2>1, <2>3 DEF Held, MatchAfter
  <2> QED
    BY <2>2, <2>3
<1>10. ReachedEffects(r)' /\ ScoreEffects(r)'
  BY <1>1, <1>3, EffectsStay
  DEF Effects, WroteReached, WroteScore, AfterUpsert, AfterQuery
<1>11. /\ Touches(matches, matches', r) /\ DOMAIN matches' = Matches
       /\ Touches(reached, reached', r) /\ Touches(knockoutScore, knockoutScore', r)
  BY <1>1, <1>5, Domains DEF Touches, Rows!Write
<1> QED
  BY <1>1, <1>3, <1>9, <1>10, <1>11, KnockoutAtomic DEF KnockoutStatements

\* The winner's row of the knockout standings, and the loser's after a semifinal.
LEMMA UpsertAtomic ==
  ASSUME AtomInv, LockInv', Coordinated', NEW r \in Requests,
         UpsertWinner(r) \/ UpsertLoser(r)
  PROVE  AtomInv'
<1> DEFINE c == calls[r]
           d == calls'[r]
           m == c.match
           k == IF c.pc = "upsertWinner" THEN Winner(c.upd) ELSE Loser(c.upd)
           round == IF c.pc = "upsertWinner" THEN Achieved(m) ELSE 5
<1>1. /\ c.pc \in {"upsertWinner", "upsertLoser"} /\ c.pc \in KnockoutStatements
      /\ UNCHANGED <<matches, standings, knockoutScore>>
  BY DEF UpsertWinner, UpsertLoser, At, KnockoutStatements
<1>2. /\ c.pc \in Statements /\ c \in Call /\ Effects(r) /\ Course(c) /\ Deciding(c)
      /\ m \in Matches /\ k \in Countries
  BY <1>1, KnockoutCall
<1>3. /\ GoesOn(r) /\ d.unpaid = <<>> /\ c.unpaid = <<>>
      /\ d.pc = IF c.pc = "upsertWinner" THEN "queryPicks" ELSE "commit"
      /\ c.pc = "upsertLoser" => Round[m] = 4
  <2>1. c.unpaid = <<>> /\ (c.pc = "upsertLoser" => Round[m] = 4)
    BY <1>1, <1>2 DEF Course
  <2> QED
    BY <1>1, <1>2, <2>1, Domains
    DEF UpsertWinner, UpsertLoser, At, GoTo, GoesOn, Call, Statements
<1>4. /\ d.match = m /\ d.upd = c.upd /\ Deciding(d)
  BY <1>2, <1>3 DEF GoesOn, Deciding
<1>5. /\ reached' = [reached EXCEPT ![k] = Rows!Write(@, r, round)]
      /\ reached[k].by \in {Null, r}
  BY DEF UpsertWinner, UpsertLoser, At, Awaited
<1>6. \A j : WroteReached(d, j) <=> WroteReached(c, j) \/ j = k
  BY <1>1, <1>2, <1>3, <1>4 DEF WroteReached, AfterUpsert
<1>7. round = RoundAfter(d, k)
  BY <1>1, <1>3, <1>4 DEF RoundAfter, Achieved, AchievedRound
<1>8. ReachedEffects(r)'
  <2>1. \A j \in Countries : /\ j # k => reached'[j] = reached[j]
                             /\ reached'[k] = Rows!Write(reached[k], r, round)
    BY <1>2, <1>5, Domains
  <2>2. \A j : RoundAfter(d, j) = RoundAfter(c, j)
    BY <1>4 DEF RoundAfter
  <2>3. \A j \in Countries : Held(reached[j], r, WroteReached(c, j), RoundAfter(c, j))
    BY <1>2 DEF Effects, ReachedEffects
  <2> HIDE DEF c, d, k, round
  <2>4. \A j \in Countries : Held(reached'[j], r, WroteReached(d, j), RoundAfter(d, j))
    BY <1>6, <1>7, <2>1, <2>2, <2>3 DEF Held, Rows!Write
  <2> QED
    BY <2>4 DEF ReachedEffects, d
<1>9. MatchEffects(r)'
  <2>1. \A n : WroteMatch(d, n) <=> WroteMatch(c, n)
    BY <1>1, <1>2, <1>3, <1>4 DEF WroteMatch, AfterSeeds, Statements
  <2> QED
    BY <1>1, <1>3, <2>1, EffectsStay
<1>10. ScoreEffects(r)'
  <2>1. c.pc = "upsertWinner" => d.pc \notin AfterQuery /\ c.pc \notin AfterQuery
    BY <1>3 DEF AfterQuery
  <2>2. c.pc = "upsertLoser" => d.pc \in AfterQuery /\ c.pc \in AfterQuery
    BY <1>3 DEF AfterQuery
  <2>3. \A u : WroteScore(d, u) <=> WroteScore(c, u)
    BY <1>1, <1>2, <1>3, <1>4, <2>1, <2>2 DEF WroteScore, Unpaid, Payees
  <2> QED
    BY <1>1, <1>3, <2>3, EffectsStay
<1>11. /\ Touches(matches, matches', r) /\ DOMAIN matches' = Matches
       /\ Touches(reached, reached', r) /\ Touches(knockoutScore, knockoutScore', r)
  <2>1. Touches(reached, reached', r)
    BY <1>2, <1>5, WriteTouches, Domains
  <2> QED
    BY <1>1, <2>1, Domains DEF Touches
<1> QED
  BY <1>1, <1>3, <1>8, <1>9, <1>10, <1>11, KnockoutAtomic DEF KnockoutStatements

(***************************************************************************)
(* The awards                                                              *)
(***************************************************************************)
\* The query returns every user who predicted the winner, once.
LEMMA EveryPickerOnce ==
  ASSUME NEW k, NEW round, NEW order \in SetToSeqs(Pickers(k, round))
  PROVE  /\ Elements(order) = Pickers(k, round) /\ Distinct(order)
         /\ order = <<>> => Pickers(k, round) = {}
<1>1. IsFiniteSet(Pickers(k, round))
  BY UsersAssumption, FS_Subset DEF Pickers
<1> QED
  BY <1>1, EachOnce

\* A call that goes on to pay the users in `order`, of whom it has paid the rest.
LEMMA PayAtomic ==
  ASSUME AtomInv, LockInv', Coordinated', NEW r \in Requests,
         calls[r].pc \in {"queryPicks", "award"},
         UNCHANGED <<matches, standings, reached>>,
         NEW order \in Seq(Users), Distinct(order),
         Elements(order) \subseteq Payees(calls[r]),
         calls' = [calls EXCEPT ![r].pc = AfterAward(calls[r].match, order),
                                ![r].unpaid = order],
         Touches(knockoutScore, knockoutScore', r),
         \A u \in Users :
           Held(knockoutScore'[u], r, u \in Payees(calls[r]) \ Elements(order),
                ScoreAfter(calls[r], knockoutScore'[u].cur))
  PROVE  AtomInv'
<1> DEFINE c == calls[r]
           d == calls'[r]
           m == c.match
<1>1. /\ c.pc \in KnockoutStatements /\ c.pc \in Statements
      /\ c \in Call /\ Effects(r) /\ Course(c) /\ Deciding(c) /\ m \in Matches
  BY KnockoutCall DEF KnockoutStatements
<1>2. /\ d.pc = AfterAward(m, order) /\ d.unpaid = order
      /\ d.match = m /\ d.upd = c.upd
      /\ \A q \in Requests \ {r} : calls'[q] = calls[q]
  BY <1>1, Domains DEF Call
<1>3. /\ d.pc \in {"award", "upsertLoser", "commit"}
      /\ d.pc = "upsertLoser" => Round[m] = 4
      /\ d.pc # "award" => order = <<>>
      /\ d.pc = "commit" => Round[m] # 4
  BY <1>2 DEF AfterAward, AfterAwards
<1>4. GoesOn(r) /\ Deciding(d) /\ Payees(d) = Payees(c)
  BY <1>1, <1>2, <1>3 DEF GoesOn, Deciding, Payees, Statements
<1>5. /\ \A n : WroteMatch(d, n) <=> WroteMatch(c, n)
      /\ \A k : WroteReached(d, k) <=> WroteReached(c, k)
  BY <1>1, <1>2, <1>3, <1>4
  DEF WroteMatch, WroteReached, AfterSeeds, AfterUpsert, Statements
<1>6. MatchEffects(r)' /\ ReachedEffects(r)'
  BY <1>4, <1>5, EffectsStay
<1>7. ScoreEffects(r)'
  <2>1. \A u : WroteScore(d, u) <=> u \in Payees(c) \ Elements(order)
    BY <1>2, <1>3, <1>4 DEF WroteScore, AfterQuery, Unpaid
  <2>2. \A s : ScoreAfter(d, s) = ScoreAfter(c, s)
    BY <1>2 DEF ScoreAfter
  <2> QED
    BY <2>1, <2>2 DEF ScoreEffects, Held
<1>8. IF d.pc = "award"
        THEN Unpaid(d) \subseteq Payees(c) /\ Distinct(d.unpaid)
        ELSE d.unpaid = <<>>
  BY <1>2, <1>3 DEF Unpaid
<1>9. /\ Touches(matches, matches', r) /\ DOMAIN matches' = Matches
      /\ Touches(reached, reached', r)
  BY Domains DEF Touches
<1> QED
  BY <1>1, <1>2, <1>3, <1>4, <1>6, <1>7, <1>8, <1>9, KnockoutAtomic
  DEF KnockoutStatements

LEMMA QueryPicksAtomic ==
  ASSUME AtomInv, LockInv', Coordinated', NEW r \in Requests, QueryPicks(r)
  PROVE  AtomInv'
<1> DEFINE c == calls[r]
<1>1. c.pc = "queryPicks" /\ UNCHANGED tables
  BY DEF QueryPicks, At
<1>2. PICK order \in SetToSeqs(Pickers(Winner(c.upd), Achieved(c.match))) :
        calls' = [calls EXCEPT ![r].pc = AfterAward(c.match, order),
                               ![r].unpaid = order]
  BY DEF QueryPicks
<1>3. /\ order \in Seq(Users) /\ Distinct(order) /\ Elements(order) = Payees(c)
  BY PayOrder, EveryPickerOnce DEF Payees
<1>4. Touches(knockoutScore, knockoutScore', r)
  BY <1>1 DEF Touches, tables
<1>5. ASSUME NEW u \in Users
      PROVE  Held(knockoutScore'[u], r, u \in Payees(c) \ Elements(order),
                  ScoreAfter(c, knockoutScore'[u].cur))
  <2>1. Held(knockoutScore[u], r, WroteScore(c, u), ScoreAfter(c, knockoutScore[u].cur))
    BY DEF AtomInv, Effects, ScoreEffects
  <2>2. ~WroteScore(c, u)
    BY <1>1 DEF WroteScore, AfterQuery
  <2> QED
    BY <1>1, <1>3, <2>1, <2>2 DEF Held, tables
<1> QED
  BY <1>1, <1>2, <1>3, <1>4, <1>5, PayAtomic DEF tables

LEMMA AwardUserAtomic ==
  ASSUME AtomInv, LockInv', Coordinated', NEW r \in Requests, AwardUser(r)
  PROVE  AtomInv'
<1> DEFINE c == calls[r]
           u == Head(c.unpaid)
           rest == Tail(c.unpaid)
           points == AwardPoints(Achieved(c.match))
<1>1. /\ c.pc = "award" /\ knockoutScore[u].by \in {Null, r}
      /\ UNCHANGED <<matches, standings, reached>>
      /\ calls' = [calls EXCEPT ![r].pc = AfterAward(c.match, rest), ![r].unpaid = rest]
      /\ knockoutScore' = [knockoutScore EXCEPT
              ![u] = Rows!Write(@, r, Rows!Read(@, r) + points)]
  BY DEF AwardUser, At, Awaited
<1>2. /\ c \in Call /\ Effects(r) /\ Course(c) /\ Deciding(c)
      /\ c.unpaid \in Seq(Users) /\ c.unpaid # <<>>
  BY <1>1, KnockoutCall, Own DEF KnockoutStatements, Local, Call
<1>3. Distinct(c.unpaid) /\ Elements(c.unpaid) \subseteq Payees(c)
  BY <1>1, <1>2 DEF Course, Unpaid
<1>4. /\ rest \in Seq(Users) /\ Distinct(rest) /\ u \in Elements(c.unpaid)
      /\ Elements(rest) = Elements(c.unpaid) \ {u}
  BY <1>2, <1>3, WithoutFirst
<1>5. u \in Users
  BY <1>2
<1>6. \A v : WroteScore(c, v) <=> v \in Payees(c) \ Elements(c.unpaid)
  BY <1>1, <1>2 DEF WroteScore, AfterQuery, Unpaid
<1>7. Touches(knockoutScore, knockoutScore', r)
  BY <1>1, <1>5, WriteTouches, Domains
<1>8. ASSUME NEW v \in Users
      PROVE  Held(knockoutScore'[v], r, v \in Payees(c) \ Elements(rest),
                  ScoreAfter(c, knockoutScore'[v].cur))
  <2>1. Held(knockoutScore[v], r, WroteScore(c, v), ScoreAfter(c, knockoutScore[v].cur))
    BY <1>2 DEF Effects, ScoreEffects
  <2>2. CASE v = u
    <3>1. Rows!Read(knockoutScore[u], r) = knockoutScore[u].cur
      BY <1>4, <1>6, <2>1, <2>2 DEF Held, Rows!Read
    <3>2. knockoutScore'[u] = Rows!Write(knockoutScore[u], r, knockoutScore[u].cur + points)
      BY <1>1, <1>5, <3>1, Domains
    <3> QED
      BY <1>3, <1>4, <2>2, <3>2 DEF Held, Rows!Write, ScoreAfter
  <2>3. CASE v # u
    <3>1. knockoutScore'[v] = knockoutScore[v]
      BY <1>1, <2>3, Domains
    <3> QED
      BY <1>4, <1>6, <2>1, <2>3, <3>1 DEF Held
  <2> QED
    BY <2>2, <2>3
<1>9. Elements(rest) \subseteq Payees(c)
  BY <1>3, <1>4
<1> QED
  BY <1>1, <1>4, <1>7, <1>8, <1>9, PayAtomic

----------------------------------------------------------------------------
(***************************************************************************)
(* The end of a transaction                                                *)
(***************************************************************************)
\* A call whose transaction has ended holds nothing; the others go on if what
\* they have read is still committed.
LEMMA EndOf ==
  ASSUME AtomInv, LockInv', Coordinated', NEW r \in Requests,
         calls'[r].pc \in {"done", "failed"},
         \A q \in Requests \ {r} : calls'[q] = calls[q],
         \A q \in Requests \ {r} :
           /\ Spares(matches, matches', q) /\ Spares(standings, standings', q)
           /\ Spares(reached, reached', q) /\ Spares(knockoutScore, knockoutScore', q),
         \A n \in Matches : matches'[n].by # r,
         \A k \in Countries : standings'[k].by # r /\ reached'[k].by # r,
         \A u \in Users : knockoutScore'[u].by # r,
         \A q \in Requests \ {r} :
           /\ calls[q].pc \in Statements => matches'[calls[q].match].cur
                                            = matches[calls[q].match].cur
           /\ calls[q].pc \in GroupStatements =>
                /\ standings'[calls[q].upd.c1].cur = standings[calls[q].upd.c1].cur
                /\ standings'[calls[q].upd.c2].cur = standings[calls[q].upd.c2].cur
  PROVE  AtomInv'
<1> DEFINE d == calls'[r]
<1>1. ASSUME NEW q \in Requests \ {r}
      PROVE  Effects(q)' /\ Course(calls'[q]) /\ Fresh(q)'
  BY EffectsKept, FreshKept DEF AtomInv
<1>2. Effects(r)'
  <2>1. d.pc \in Outside
    BY DEF Outside
  <2> QED
    BY <2>1, OutsideWrites
    DEF Effects, MatchEffects, StandingEffects, ReachedEffects, ScoreEffects, Held
<1>3. Course(d) /\ Fresh(r)'
  BY DEF Course, Fresh, Statements, KnockoutStatements
<1> QED
  BY <1>1, <1>2, <1>3 DEF AtomInv

\* The rows that r gives back are nobody's, and the others are what they were.
GivenBack(table, tableNext, r) ==
  /\ \A q \in Requests \ {r} : Spares(table, tableNext, q)
  /\ \A k \in DOMAIN table : tableNext[k].by # r
  /\ \A k \in DOMAIN table : table[k].by # r => tableNext[k] = table[k]

LEMMA EndGivesBack ==
  ASSUME NEW table, NEW r \in Requests
  PROVE  /\ GivenBack(table, Rows!Publish(table, r), r)
         /\ GivenBack(table, Rows!Discard(table, r), r)
         /\ \A k \in DOMAIN table : Rows!Discard(table, r)[k].cur = table[k].cur
  BY RequestAssumption
  DEF GivenBack, Spares, Rows!Publish, Rows!Discard, Rows!Committed

\* Of all four tables.
LEMMA AllGivenBack ==
  ASSUME AtomInv, NEW r \in Requests,
         GivenBack(matches, matches', r), GivenBack(standings, standings', r),
         GivenBack(reached, reached', r), GivenBack(knockoutScore, knockoutScore', r)
  PROVE  /\ \A q \in Requests \ {r} :
              /\ Spares(matches, matches', q) /\ Spares(standings, standings', q)
              /\ Spares(reached, reached', q)
              /\ Spares(knockoutScore, knockoutScore', q)
         /\ \A n \in Matches : matches'[n].by # r
         /\ \A k \in Countries : standings'[k].by # r /\ reached'[k].by # r
         /\ \A u \in Users : knockoutScore'[u].by # r
         /\ \A n \in Matches : matches[n].by # r => matches'[n] = matches[n]
         /\ \A k \in Countries : standings[k].by # r => standings'[k] = standings[k]
  BY Domains DEF GivenBack

LEMMA RollBackAtomic ==
  ASSUME AtomInv, LockInv', Coordinated', NEW r \in Requests, RollBack(r)
  PROVE  AtomInv'
<1>1. /\ calls'[r].pc = "failed"
      /\ \A q \in Requests \ {r} : calls'[q] = calls[q]
  BY Domains DEF RollBack, Idle
<1>2. /\ matches' = Rows!Discard(matches, r)
      /\ standings' = Rows!Discard(standings, r)
      /\ reached' = Rows!Discard(reached, r)
      /\ knockoutScore' = Rows!Discard(knockoutScore, r)
  BY DEF RollBack
<1>3. /\ GivenBack(matches, matches', r) /\ GivenBack(standings, standings', r)
      /\ GivenBack(reached, reached', r) /\ GivenBack(knockoutScore, knockoutScore', r)
  BY <1>2, EndGivesBack
<1>4. /\ \A n \in Matches : matches'[n].cur = matches[n].cur
      /\ \A k \in Countries : standings'[k].cur = standings[k].cur
  BY <1>2, EndGivesBack, Domains
<1>5. ASSUME NEW q \in Requests \ {r}
      PROVE  /\ calls[q].pc \in Statements => calls[q].match \in Matches
             /\ calls[q].pc \in GroupStatements =>
                  calls[q].upd.c1 \in Countries /\ calls[q].upd.c2 \in Countries
  BY Own, GroupCall
<1> QED
  BY <1>1, <1>3, <1>4, <1>5, AllGivenBack, EndOf

\* A commit changes no row whose old value another coordinated call relies on.
LEMMA CommitAtomic ==
  ASSUME AtomInv, LockInv', Coordinated', NEW r \in Requests, Commit(r)
  PROVE  AtomInv'
<1> DEFINE c == calls[r]
<1>1. /\ c.pc = "commit" /\ c.pc \in Statements
      /\ calls'[r].pc = "done"
      /\ \A q \in Requests \ {r} : calls'[q] = calls[q]
  <2>1. c \in Call /\ c.pc = "commit"
    BY DEF Commit, At, AtomInv, LockInv, IInv, TypeOK
  <2> QED
    BY <2>1, Domains DEF Commit, Call, Statements
<1>2. /\ matches' = Rows!Publish(matches, r)
      /\ standings' = Rows!Publish(standings, r)
      /\ reached' = Rows!Publish(reached, r)
      /\ knockoutScore' = Rows!Publish(knockoutScore, r)
  BY DEF Commit
<1>3. /\ GivenBack(matches, matches', r) /\ GivenBack(standings, standings', r)
      /\ GivenBack(reached, reached', r) /\ GivenBack(knockoutScore, knockoutScore', r)
  BY <1>2, EndGivesBack
<1>4. /\ \A n \in Matches : matches[n].by # r => matches'[n] = matches[n]
      /\ \A k \in Countries : standings[k].by # r => standings'[k] = standings[k]
  BY <1>3, AllGivenBack
<1>5. Effects(r) /\ c.match \in Matches /\ Branch(c)
  BY <1>1, Own
<1>6. ASSUME NEW q \in Requests \ {r}, calls[q].pc \in Statements
      PROVE  /\ calls[q].match \in Matches
             /\ matches'[calls[q].match].cur = matches[calls[q].match].cur
  <2> DEFINE n == calls[q].match
  <2>1. n \in Matches
    BY <1>6, Own
  <2>2. ~Conflict(c.match, n)
    BY <1>1, <1>6 DEF AtomInv, Coordinated, InFlight
  <2>3. ~WroteMatch(c, n)
    BY <2>2 DEF WroteMatch, Conflict, Feeds
  <2>4. matches[n].by # r
    BY <1>5, <2>1, <2>3 DEF Effects, MatchEffects, Held
  <2> QED
    BY <1>4, <2>1, <2>4
<1>7. ASSUME NEW q \in Requests \ {r}, calls[q].pc \in GroupStatements
      PROVE  /\ standings'[calls[q].upd.c1].cur = standings[calls[q].upd.c1].cur
             /\ standings'[calls[q].upd.c2].cur = standings[calls[q].upd.c2].cur
  <2> DEFINE e == calls[q]
  <2>1. /\ e.pc \in Statements /\ ~IsKnockout(e.match)
        /\ e.upd.c1 \in Countries /\ e.upd.c2 \in Countries
    BY <1>7, GroupCall DEF GroupStatements, Statements
  <2>2. /\ e.upd.c1 = Fixtures[e.match].c1 /\ e.upd.c2 = Fixtures[e.match].c2
    BY <2>1, Own DEF Branch, Paired
  <2>3. ~Conflict(c.match, e.match)
    BY <1>1, <2>1 DEF AtomInv, Coordinated, InFlight
  <2>4. ASSUME NEW k \in {e.upd.c1, e.upd.c2}
        PROVE  standings[k].by # r
    <3>1. SUFFICES ASSUME WroteStanding(c, k)
                   PROVE  FALSE
      BY <1>5, <2>1 DEF Effects, StandingEffects, Held
    <3>2. ~IsKnockout(c.match) /\ k \in {c.upd.c1, c.upd.c2}
      BY <1>1, <3>1 DEF WroteStanding
    <3>3. k \in {Fixtures[c.match].c1, Fixtures[c.match].c2}
      BY <1>1, <1>5, <3>2 DEF Branch, Paired
    <3> QED
      BY <2>1, <2>2, <2>3, <3>2, <3>3 DEF Conflict, ShareCountry
  <2> QED
    BY <1>4, <2>1, <2>4
<1> QED
  BY <1>1, <1>3, <1>6, <1>7, AllGivenBack, EndOf

LEMMA StepAtomic == AtomInv /\ [CoordinatedNext]_vars => AtomInv'
<1> SUFFICES ASSUME AtomInv, [CoordinatedNext]_vars PROVE AtomInv'
  OBVIOUS
<1>1. LockInv'
  BY StepLocks DEF AtomInv, CoordinatedNext
<1>2. Coordinated'
  BY DEF AtomInv, CoordinatedNext, Coordinated, InFlight, vars
<1>3. ASSUME NEW r \in Requests, Lookup(r) \/ Statement(r) PROVE AtomInv'
  BY <1>1, <1>2, <1>3, LookupAtomic, UpdateMatchRowAtomic, ReadStandingAtomic,
     WriteStandingAtomic, AdvanceWinnerAtomic, SeedThirdPlaceAtomic, UpsertAtomic,
     QueryPicksAtomic, AwardUserAtomic, RollBackAtomic, CommitAtomic
  DEF Statement, Reject
<1>4. ASSUME NEW r \in Requests, Abort(r) \/ DeadlockAbort(r) PROVE AtomInv'
  BY <1>1, <1>2, <1>4, RollBackAtomic DEF Abort, DeadlockAbort
<1>5. CASE UNCHANGED vars
  BY <1>1, <1>2, <1>5
  DEF AtomInv, Effects, MatchEffects, StandingEffects, ReachedEffects, ScoreEffects,
      Held, Fresh, Merged, Rows!Current, vars
<1> QED
  BY <1>3, <1>4, <1>5 DEF CoordinatedNext, Next, AllAnswered

----------------------------------------------------------------------------
(***************************************************************************)
(* Every step implements a step of the book, or none                       *)
(***************************************************************************)
\* The committed rows of a table are what they were.
SameCurrent(table, tableNext) ==
  /\ DOMAIN tableNext = DOMAIN table
  /\ \A k \in DOMAIN table : tableNext[k].cur = table[k].cur

LEMMA CurrentStays ==
  ASSUME NEW table, NEW tableNext, SameCurrent(table, tableNext)
  PROVE  Rows!Current(tableNext) = Rows!Current(table)
  BY DEF SameCurrent, Rows!Current

LEMMA WriteKeepsCurrent ==
  ASSUME NEW table, NEW r, NEW k, NEW v
  PROVE  SameCurrent(table, [table EXCEPT ![k] = Rows!Write(@, r, v)])
  BY DEF SameCurrent, Rows!Write

LEMMA DiscardKeepsCurrent ==
  ASSUME NEW table, NEW r
  PROVE  SameCurrent(table, Rows!Discard(table, r))
  BY DEF SameCurrent, Rows!Discard, Rows!Committed

AllCurrent ==
  /\ SameCurrent(matches, matches') /\ SameCurrent(standings, standings')
  /\ SameCurrent(reached, reached') /\ SameCurrent(knockoutScore, knockoutScore')

LEMMA StatementKeepsCurrent ==
  ASSUME AtomInv, NEW r \in Requests, Lookup(r) \/ Statement(r), ~Commit(r)
  PROVE  AllCurrent
<1>1. \A table : SameCurrent(table, table)
  BY DEF SameCurrent
<1>2. CASE Lookup(r) \/ ReadStanding1(r) \/ ReadStanding2(r) \/ QueryPicks(r)
  BY <1>1, <1>2 DEF Lookup, ReadStanding1, ReadStanding2, QueryPicks, tables, AllCurrent
<1>3. CASE UpdateMatchRow(r)
  BY <1>1, <1>3, WriteKeepsCurrent DEF UpdateMatchRow, AllCurrent
<1>4. CASE WriteStanding1(r) \/ WriteStanding2(r)
  BY <1>1, <1>4, WriteKeepsCurrent DEF WriteStanding1, WriteStanding2, AllCurrent
<1>5. CASE UpsertWinner(r) \/ UpsertLoser(r)
  BY <1>1, <1>5, WriteKeepsCurrent DEF UpsertWinner, UpsertLoser, AllCurrent
<1>6. CASE AwardUser(r)
  BY <1>1, <1>6, WriteKeepsCurrent DEF AwardUser, AllCurrent
<1>7. CASE AdvanceWinner(r) \/ SeedThirdPlace(r)
  <2>1. SameCurrent(matches, matches')
    BY <1>7, Domains DEF AdvanceWinner, SeedThirdPlace, SameCurrent, Rows!Write
  <2> QED
    BY <1>1, <1>7, <2>1 DEF AdvanceWinner, SeedThirdPlace, AllCurrent
<1>8. CASE Reject(r)
  BY <1>8, DiscardKeepsCurrent DEF Reject, RollBack, AllCurrent
<1> QED
  BY <1>2, <1>3, <1>4, <1>5, <1>6, <1>7, <1>8 DEF Statement

\* The committed tables after a commit: the rows the call has written, and the
\* others as they were.
LEMMA Published ==
  ASSUME AtomInv, NEW r \in Requests, Commit(r)
  PROVE  LET c == calls[r]
         IN  /\ Rows!Current(matches') =
                  [n \in Matches |-> IF WroteMatch(c, n)
                                     THEN MatchAfter(c, n, matches[n].cur)
                                     ELSE matches[n].cur]
             /\ Rows!Current(standings') =
                  [k \in Countries |-> IF WroteStanding(c, k)
                                       THEN StandingAfter(c, k, standings[k].cur)
                                       ELSE standings[k].cur]
             /\ Rows!Current(reached') =
                  [k \in Countries |-> IF WroteReached(c, k) THEN RoundAfter(c, k)
                                                             ELSE reached[k].cur]
             /\ Rows!Current(knockoutScore') =
                  [u \in Users |-> IF WroteScore(c, u)
                                   THEN ScoreAfter(c, knockoutScore[u].cur)
                                   ELSE knockoutScore[u].cur]
<1>1. Effects(r)
  BY DEF AtomInv
<1>2. Rows!Current(matches') =
        [n \in Matches |-> IF matches[n].by = r THEN matches[n].new ELSE matches[n].cur]
  BY Domains DEF Commit, Rows!Publish, Rows!Committed, Rows!Current
<1>3. Rows!Current(standings') =
        [k \in Countries |-> IF standings[k].by = r THEN standings[k].new
                                                    ELSE standings[k].cur]
  BY Domains DEF Commit, Rows!Publish, Rows!Committed, Rows!Current
<1>4. Rows!Current(reached') =
        [k \in Countries |-> IF reached[k].by = r THEN reached[k].new ELSE reached[k].cur]
  BY Domains DEF Commit, Rows!Publish, Rows!Committed, Rows!Current
<1>5. Rows!Current(knockoutScore') =
        [u \in Users |-> IF knockoutScore[u].by = r THEN knockoutScore[u].new
                                                    ELSE knockoutScore[u].cur]
  BY Domains DEF Commit, Rows!Publish, Rows!Committed, Rows!Current
<1>6. \A n \in Matches : Held(matches[n], r, WroteMatch(calls[r], n),
                              MatchAfter(calls[r], n, matches[n].cur))
  BY <1>1 DEF Effects, MatchEffects
<1>7. \A k \in Countries : Held(standings[k], r, WroteStanding(calls[r], k),
                                StandingAfter(calls[r], k, standings[k].cur))
  BY <1>1 DEF Effects, StandingEffects
<1>8. \A k \in Countries : Held(reached[k], r, WroteReached(calls[r], k),
                                RoundAfter(calls[r], k))
  BY <1>1 DEF Effects, ReachedEffects
<1>9. \A u \in Users : Held(knockoutScore[u], r, WroteScore(calls[r], u),
                            ScoreAfter(calls[r], knockoutScore[u].cur))
  BY <1>1 DEF Effects, ScoreEffects
<1> QED
  BY <1>2, <1>3, <1>4, <1>5, <1>6, <1>7, <1>8, <1>9 DEF Held

\* The book's rules are those of the calls: both read the same contest.
LEMMA SameRules ==
  /\ \A row : /\ Book!Completed(row) = Completed(row)
              /\ Book!HasCountries(row) = HasCountries(row)
              /\ Book!HasWinner(row) = HasWinner(row)
              /\ Book!Winner(row) = Winner(row) /\ Book!Loser(row) = Loser(row)
  /\ \A m : /\ Book!IsKnockout(m) = IsKnockout(m)
            /\ Book!NextMatches(m) = NextMatches(m)
            /\ Book!ThirdPlaceMatches(m) = ThirdPlaceMatches(m)
            /\ Book!Achieved(m) = Achieved(m)
  /\ \A rows, payload : Book!Found(rows, payload) = Found(rows, payload)
  /\ \A m, payload : Book!HasUpdates(m, payload) = HasUpdates(m, payload)
  /\ \A m, row, payload : Book!Merge(m, row, payload) = Merge(m, row, payload)
<1>1. \A row : /\ Book!Completed(row) = Completed(row)
               /\ Book!HasCountries(row) = HasCountries(row)
               /\ Book!HasWinner(row) = HasWinner(row)
               /\ Book!Winner(row) = Winner(row) /\ Book!Loser(row) = Loser(row)
  BY DEF Book!Completed, Completed, Book!HasCountries, HasCountries,
         Book!HasWinner, HasWinner, Book!Winner, Winner, Book!Loser, Loser,
         Book!FirstWins, FirstWins, Book!SecondWins, SecondWins,
         Book!OnPenalties, OnPenalties
<1>2. \A m : /\ Book!IsKnockout(m) = IsKnockout(m)
             /\ Book!NextMatches(m) = NextMatches(m)
             /\ Book!ThirdPlaceMatches(m) = ThirdPlaceMatches(m)
             /\ Book!Achieved(m) = Achieved(m)
  BY DEF Book!IsKnockout, IsKnockout, Book!NextMatches, NextMatches,
         Book!ThirdPlaceMatches, ThirdPlaceMatches, Book!Achieved, Achieved,
         Book!AchievedRound, AchievedRound
<1>3. \A rows, payload : Book!Found(rows, payload) = Found(rows, payload)
  BY DEF Book!Found, Found, Book!ByPosition, ByPosition
<1>4. \A m, payload : Book!HasUpdates(m, payload) = HasUpdates(m, payload)
  BY DEF Book!HasUpdates, HasUpdates, Book!IsKnockout, IsKnockout
<1>5. \A m, row, payload : Book!Merge(m, row, payload) = Merge(m, row, payload)
  BY DEF Book!Merge, Merge, Book!Given, Given, Book!KnockoutGiven, KnockoutGiven,
         Book!IsKnockout, IsKnockout
<1> QED
  BY <1>1, <1>2, <1>3, <1>4, <1>5

LEMMA SameArithmetic ==
  /\ \A s, row : /\ Book!CreditFirst(s, row) = CreditFirst(s, row)
                 /\ Book!CreditSecond(s, row) = CreditSecond(s, row)
  /\ \A m, row, country : /\ Book!SeedWinner(m, row, country) = SeedWinner(m, row, country)
                          /\ Book!SeedLoser(m, row, country) = SeedLoser(m, row, country)
  /\ \A country, round : Book!Pickers(country, round) = Pickers(country, round)
  /\ \A achieved : Book!AwardPoints(achieved) = AwardPoints(achieved)
<1>1. \A s, row : /\ Book!CreditFirst(s, row) = CreditFirst(s, row)
                  /\ Book!CreditSecond(s, row) = CreditSecond(s, row)
  BY DEF Book!CreditFirst, CreditFirst, Book!CreditSecond, CreditSecond,
         Book!Credit, Credit, Book!Conduct, Conduct, Book!One, One
<1>2. \A m, row, country : /\ Book!SeedWinner(m, row, country) = SeedWinner(m, row, country)
                           /\ Book!SeedLoser(m, row, country) = SeedLoser(m, row, country)
  BY DEF Book!SeedWinner, SeedWinner, Book!SeedLoser, SeedLoser
<1>3. /\ \A country, round : Book!Pickers(country, round) = Pickers(country, round)
      /\ \A achieved : Book!AwardPoints(achieved) = AwardPoints(achieved)
  BY DEF Book!Pickers, Pickers, Book!AwardPoints, AwardPoints
<1> QED
  BY <1>1, <1>2, <1>3

\* What a call that commits has written.
LEMMA WrittenAtCommit ==
  ASSUME AtomInv, NEW r \in Requests, Commit(r)
  PROVE  LET c == calls[r]
             m == c.match
         IN  /\ \A n : WroteMatch(c, n) <=>
                  \/ n = m
                  \/ Deciding(c) /\ n \in NextMatches(m) \cup ThirdPlaceMatches(m)
             /\ \A k : WroteStanding(c, k) <=>
                  ~IsKnockout(m) /\ Completed(c.upd) /\ k \in {c.upd.c1, c.upd.c2}
             /\ \A k : WroteReached(c, k) <=>
                  /\ Deciding(c)
                  /\ k = Winner(c.upd) \/ (Round[m] = 4 /\ k = Loser(c.upd))
             /\ \A u : WroteScore(c, u) <=> Deciding(c) /\ u \in Payees(c)
<1>1. calls[r].pc = "commit" /\ calls[r].pc \in Statements \ {"updateMatch"}
  BY DEF Commit, At, Statements
<1>2. calls[r].unpaid = <<>>
  BY <1>1, Own DEF Course
<1>3. Unpaid(calls[r]) = {}
  BY <1>2 DEF Unpaid, Elements
<1> QED
  BY <1>1, <1>3 DEF WroteMatch, WroteStanding, WroteReached, WroteScore, AfterSeeds,
       AfterUpsert, AfterQuery

\* A commit is the book's step for the payload of the call.
LEMMA CommitRecords ==
  ASSUME AtomInv, NEW r \in Requests, Commit(r)
  PROVE  Book!Next
<1> DEFINE c == calls[r]
           m == c.match
           row == matches[m].cur
<1>1. /\ c.pc = "commit" /\ c.pc \in Statements /\ m \in Matches
      /\ Course(c) /\ Fresh(r) /\ Branch(c)
  <2>1. c.pc = "commit" /\ c.pc \in Statements
    BY DEF Commit, At, Statements
  <2> QED
    BY <2>1, Own
<1>2. PICK payload \in Payloads :
        /\ m \in Found(Rows!Current(matches), payload)
        /\ ~Completed(row) /\ HasUpdates(m, payload)
        /\ c.upd = Merge(m, row, payload)
  BY <1>1 DEF Fresh, Merged
<1>3. Completed(c.upd) => HasCountries(c.upd)
  BY <1>1 DEF Course
<1>4. Rows!Current(matches)[m] = row
  BY <1>1, Domains DEF Rows!Current
<1>5. Book!Accepted(m, payload) /\ Book!Merge(m, Rows!Current(matches)[m], payload) = c.upd
  BY <1>2, <1>3, <1>4, SameRules DEF Book!Accepted
<1>6. /\ m \notin NextMatches(m) /\ m \notin ThirdPlaceMatches(m)
      /\ NextMatches(m) \cap ThirdPlaceMatches(m) = {}
  BY <1>1, NoNextMatches, SeedsApart
<1>7. Rows!Current(matches') =
        [n \in Matches |->
           IF n = m \/ (Deciding(c) /\ n \in NextMatches(m) \cup ThirdPlaceMatches(m))
           THEN MatchAfter(c, n, matches[n].cur) ELSE matches[n].cur]
  <2>1. /\ Rows!Current(matches') =
             [n \in Matches |-> IF WroteMatch(c, n)
                                THEN MatchAfter(c, n, matches[n].cur)
                                ELSE matches[n].cur]
        /\ \A n : WroteMatch(c, n) <=>
             \/ n = m
             \/ Deciding(c) /\ n \in NextMatches(m) \cup ThirdPlaceMatches(m)
    BY Published, WrittenAtCommit
  <2> QED
    BY <2>1
<1>8. CASE Completed(c.upd) => IsKnockout(m) /\ ~HasWinner(c.upd)
  <2>1. ~Deciding(c)
    BY <1>8 DEF Deciding
  <2>2. Rows!Current(matches') = [Rows!Current(matches) EXCEPT ![m] = c.upd]
    BY <1>1, <1>7, <2>1, Domains DEF Rows!Current, MatchAfter
  <2>3. Rows!Current(standings') = Rows!Current(standings)
    BY <1>8, Published, WrittenAtCommit, Domains DEF Rows!Current
  <2>4. Rows!Current(reached') = Rows!Current(reached)
    BY <2>1, Published, WrittenAtCommit, Domains DEF Rows!Current
  <2>5. Rows!Current(knockoutScore') = Rows!Current(knockoutScore)
    BY <2>1, Published, WrittenAtCommit, Domains DEF Rows!Current
  <2>6. Book!RecordFields(m, c.upd)
    BY <1>8, <2>2, <2>3, <2>4, <2>5, SameRules DEF Book!RecordFields
  <2> QED
    BY <1>1, <1>2, <1>5, <2>6 DEF Book!Next, Book!Record
<1>9. CASE ~IsKnockout(m) /\ Completed(c.upd)
  <2>1. ~Deciding(c)
    BY <1>9 DEF Deciding
  <2>2. Rows!Current(matches') = [Rows!Current(matches) EXCEPT ![m] = c.upd]
    BY <1>1, <1>7, <2>1, Domains DEF Rows!Current, MatchAfter
  <2>3. Rows!Current(reached') = Rows!Current(reached)
    BY <2>1, Published, WrittenAtCommit, Domains DEF Rows!Current
  <2>4. Rows!Current(knockoutScore') = Rows!Current(knockoutScore)
    BY <2>1, Published, WrittenAtCommit, Domains DEF Rows!Current
  <2>5. c.upd.c1 # c.upd.c2 /\ c.upd.c1 \in Countries /\ c.upd.c2 \in Countries
    <3>1. Round[m] = 0 /\ Paired(m, c.upd)
      BY <1>1, <1>9, RoundAssumption DEF IsKnockout, Branch
    <3> QED
      BY <1>1, <3>1, FixtureAssumption, NullAssumption DEF Paired, Slot
  <2>6. Rows!Current(standings') =
          [Rows!Current(standings) EXCEPT
             ![c.upd.c1] = CreditFirst(@, c.upd), ![c.upd.c2] = CreditSecond(@, c.upd)]
    <3>1. Rows!Current(standings') =
            [k \in Countries |-> IF k \in {c.upd.c1, c.upd.c2}
                                 THEN StandingAfter(c, k, standings[k].cur)
                                 ELSE standings[k].cur]
      <4>1. /\ Rows!Current(standings') =
                 [k \in Countries |-> IF WroteStanding(c, k)
                                      THEN StandingAfter(c, k, standings[k].cur)
                                      ELSE standings[k].cur]
            /\ \A k : WroteStanding(c, k) <=> k \in {c.upd.c1, c.upd.c2}
        BY <1>9, Published, WrittenAtCommit
      <4> QED
        BY <4>1
    <3>2. Rows!Current(standings) = [k \in Countries |-> standings[k].cur]
      BY Domains DEF Rows!Current
    <3> QED
      BY <2>5, <3>1, <3>2 DEF StandingAfter
  <2>7. Book!RecordGroupResult(m, c.upd)
    BY <1>9, <2>2, <2>3, <2>4, <2>6, SameRules, SameArithmetic DEF Book!RecordGroupResult
  <2> QED
    BY <1>1, <1>2, <1>5, <2>7 DEF Book!Next, Book!Record
<1>10. CASE IsKnockout(m) /\ Completed(c.upd) /\ HasWinner(c.upd)
  <2>1. Deciding(c)
    BY <1>3, <1>10 DEF Deciding
  <2>2. Rows!Current(matches') =
          [n \in Matches |->
             CASE n = m                      -> c.upd
               [] n \in NextMatches(m)       ->
                    SeedWinner(m, Rows!Current(matches)[n], Winner(c.upd))
               [] n \in ThirdPlaceMatches(m) ->
                    SeedLoser(m, Rows!Current(matches)[n], Loser(c.upd))
               [] OTHER                      -> Rows!Current(matches)[n]]
    <3>1. \A n \in Matches : Rows!Current(matches)[n] = matches[n].cur
      BY Domains DEF Rows!Current
    <3> QED
      BY <1>6, <1>7, <2>1, <3>1 DEF MatchAfter
  <2>3. Rows!Current(standings') = Rows!Current(standings)
    BY <1>10, Published, WrittenAtCommit, Domains DEF Rows!Current
  <2>4. Rows!Current(reached') = Book!ReachedAfter(m, c.upd)
    <3>1. Rows!Current(reached) = [k \in Countries |-> reached[k].cur]
      BY Domains DEF Rows!Current
    <3>2. Round[m] = 4 => Achieved(m) = 5
      BY DEF Achieved, AchievedRound
    <3>3. Rows!Current(reached') =
            [k \in Countries |->
               IF k = Winner(c.upd) \/ (Round[m] = 4 /\ k = Loser(c.upd))
               THEN RoundAfter(c, k) ELSE reached[k].cur]
      <4>1. /\ Rows!Current(reached') =
                 [k \in Countries |-> IF WroteReached(c, k) THEN RoundAfter(c, k)
                                                            ELSE reached[k].cur]
            /\ \A k : WroteReached(c, k) <=>
                 k = Winner(c.upd) \/ (Round[m] = 4 /\ k = Loser(c.upd))
        BY <2>1, Published, WrittenAtCommit
      <4> QED
        BY <4>1
    <3> QED
      BY <3>1, <3>2, <3>3, SameRules DEF Book!ReachedAfter, RoundAfter
  <2>5. Rows!Current(knockoutScore') =
          [u \in Users |->
             IF u \in Pickers(Winner(c.upd), Achieved(m))
             THEN Rows!Current(knockoutScore)[u] + AwardPoints(Achieved(m))
             ELSE Rows!Current(knockoutScore)[u]]
    <3>1. \A u \in Users : Rows!Current(knockoutScore)[u] = knockoutScore[u].cur
      BY Domains DEF Rows!Current
    <3>2. /\ Rows!Current(knockoutScore') =
               [u \in Users |-> IF WroteScore(c, u)
                                THEN ScoreAfter(c, knockoutScore[u].cur)
                                ELSE knockoutScore[u].cur]
          /\ \A u : WroteScore(c, u) <=> u \in Payees(c)
      BY <2>1, Published, WrittenAtCommit
    <3> QED
      BY <3>1, <3>2 DEF ScoreAfter, Payees
  <2>6. Book!RecordKnockoutResult(m, c.upd)
    BY <1>10, <2>2, <2>3, <2>4, <2>5, SameRules, SameArithmetic
    DEF Book!RecordKnockoutResult
  <2> QED
    BY <1>1, <1>2, <1>5, <2>6 DEF Book!Next, Book!Record
<1> QED
  BY <1>8, <1>9, <1>10

LEMMA StepRecords ==
  AtomInv /\ [CoordinatedNext]_vars => [Book!Next]_(Book!vars)
<1> SUFFICES ASSUME AtomInv, [CoordinatedNext]_vars
             PROVE  Book!Next \/ UNCHANGED Book!vars
  OBVIOUS
<1>1. AllCurrent => UNCHANGED Book!vars
  BY CurrentStays DEF AllCurrent, Book!vars
<1>2. ASSUME NEW r \in Requests, Lookup(r) \/ Statement(r)
      PROVE  Book!Next \/ UNCHANGED Book!vars
  BY <1>1, <1>2, CommitRecords, StatementKeepsCurrent
<1>3. ASSUME NEW r \in Requests, Abort(r) \/ DeadlockAbort(r)
      PROVE  UNCHANGED Book!vars
  BY <1>1, <1>3, DiscardKeepsCurrent DEF Abort, DeadlockAbort, RollBack, AllCurrent
<1>4. CASE UNCHANGED vars
  BY <1>4 DEF vars, Book!vars, Rows!Current
<1> QED
  BY <1>2, <1>3, <1>4 DEF CoordinatedNext, Next, AllAnswered

LEMMA InitRecords == Init => Book!Init
<1> SUFFICES ASSUME Init PROVE Book!Init
  OBVIOUS
<1>1. /\ \A m : Book!Unplayed(m) = Unplayed(m)
      /\ Book!ZeroStanding = ZeroStanding
  BY DEF Book!Unplayed, Unplayed, Book!ZeroStanding, ZeroStanding
<1> QED
  BY <1>1 DEF Init, Book!Init, Rows!Current, Rows!Committed

\* Calls of UpdateMatch that do not conflict are atomic: however their statements
\* interleave and whichever of them fail, are cancelled or are rolled back, the
\* committed tables only change as if each call that commits ran alone, at once.
THEOREM Atomicity == CoordinatedSpec => CallsAreAtomic
<1>1. Init => AtomInv
  BY InitAtomic
<1>2. AtomInv /\ [CoordinatedNext]_vars => AtomInv'
  BY StepAtomic
<1>3. AtomInv /\ [CoordinatedNext]_vars => [Book!Next]_(Book!vars)
  BY StepRecords
<1>4. Init => Book!Init
  BY InitRecords
<1> QED
  BY <1>1, <1>2, <1>3, <1>4, PTL DEF CoordinatedSpec, CallsAreAtomic, Book!Spec

----------------------------------------------------------------------------
(***************************************************************************)
(* The awards, whatever runs together.  Calls that are not coordinated do  *)
(* spoil each other's matches and standings, but not the scores: a score   *)
(* is read and added to under its lock, so what a call holds is what is    *)
(* committed and its own award, and the committed score is the sum of the  *)
(* awards of the calls that committed.                                     *)
(***************************************************************************)
\* A call whose result paid the user, and what each call paid.
Earned(c, u) ==
  /\ c.pc = "done" /\ c.upd # Null
  /\ IsKnockout(c.match) /\ Completed(c.upd) /\ HasWinner(c.upd)
  /\ <<u, Winner(c.upd), Achieved(c.match)>> \in Picks

Earnings(f, u) ==
  [r \in Requests |-> IF Earned(f[r], u) THEN AwardPoints(Achieved(f[r].match)) ELSE 0]

AwardInv ==
  /\ LockInv
  /\ \A r \in Requests : /\ ScoreEffects(r) /\ Course(calls[r])
                         /\ calls[r].pc = "idle" => calls[r].upd = Null
  /\ \A u \in Users : knockoutScore[u].cur = Total(Earnings(calls, u), Requests)

LEMMA EarningsNat ==
  ASSUME NEW f, NEW u
  PROVE  \A r \in Requests : Earnings(f, u)[r] \in Nat
  BY DEF Earnings, AwardPoints

LEMMA AwardCall ==
  ASSUME AwardInv, NEW r \in Requests
  PROVE  /\ calls[r] \in Call /\ Local(calls[r]) /\ Branch(calls[r]) /\ Course(calls[r])
         /\ ScoreEffects(r)
         /\ calls[r].pc \in Statements => calls[r].match \in Matches
         /\ DOMAIN calls = Requests /\ DOMAIN knockoutScore = Users
  BY DEF AwardInv, LockInv, IInv, TypeOK, Local, Pairings

\* A step of r that commits nothing preserves the invariant if r is in order.
LEMMA AwardStep ==
  ASSUME AwardInv, LockInv', NEW r \in Requests,
         \A q \in Requests \ {r} : calls'[q] = calls[q],
         \A q \in Requests \ {r} : Spares(knockoutScore, knockoutScore', q),
         \A u \in Users : knockoutScore'[u].cur = knockoutScore[u].cur,
         calls[r].pc # "done", calls'[r].pc = "done" => calls'[r].upd = Null,
         calls'[r].pc # "idle", ScoreEffects(r)', Course(calls'[r])
  PROVE  AwardInv'
<1>1. ASSUME NEW q \in Requests, q # r
      PROVE  ScoreEffects(q)' /\ Course(calls'[q])
  <2>1. /\ calls'[q] = calls[q] /\ ScoreEffects(q) /\ Course(calls[q])
        /\ Spares(knockoutScore, knockoutScore', q) /\ DOMAIN knockoutScore = Users
    BY <1>1, AwardCall
  <2> QED
    BY <2>1 DEF ScoreEffects, Spares, Held
<1>2. ASSUME NEW u \in Users
      PROVE  Total(Earnings(calls', u), Requests) = Total(Earnings(calls, u), Requests)
  <2>1. \A q \in Requests : Earnings(calls', u)[q] = Earnings(calls, u)[q]
    BY DEF Earnings, Earned
  <2> QED
    BY <2>1, TotalAgrees, RequestAssumption
<1>3. \A q \in Requests : calls'[q].pc = "idle" => calls'[q].upd = Null
  BY DEF AwardInv
<1>4. \A u \in Users : knockoutScore'[u].cur = Total(Earnings(calls', u), Requests)
  BY <1>2 DEF AwardInv
<1> QED
  BY <1>1, <1>3, <1>4 DEF AwardInv

\* A statement that leaves the scores alone, before, between or after the awards.
LEMMA NoAward ==
  ASSUME AwardInv, LockInv', NEW r \in Requests, UNCHANGED knockoutScore,
         calls[r].pc # "done", calls'[r].pc = "done" => calls'[r].upd = Null,
         calls'[r].pc # "idle", Course(calls'[r]),
         \A q \in Requests \ {r} : calls'[q] = calls[q],
         \A u \in Users :
           /\ WroteScore(calls'[r], u) <=> WroteScore(calls[r], u)
           /\ WroteScore(calls'[r], u) => calls'[r].match = calls[r].match
  PROVE  AwardInv'
<1>1. ScoreEffects(r)'
  <2>1. ScoreEffects(r)
    BY AwardCall
  <2> QED
    BY <2>1 DEF ScoreEffects, Held, ScoreAfter
<1>2. \A q \in Requests \ {r} : Spares(knockoutScore, knockoutScore', q)
  BY DEF Spares
<1> QED
  BY <1>1, <1>2, AwardStep

LEMMA LookupAward ==
  ASSUME AwardInv, LockInv', NEW r \in Requests, Lookup(r)
  PROVE  AwardInv'
<1>1. /\ calls[r].pc = "idle" /\ calls[r].upd = Null /\ UNCHANGED knockoutScore
      /\ calls[r] \in Call /\ Course(calls[r]) /\ DOMAIN calls = Requests
  BY AwardCall DEF Lookup, tables, AwardInv
<1>2. /\ \A q \in Requests \ {r} : calls'[q] = calls[q]
      /\ calls'[r].pc \in {"updateMatch", "done", "failed"}
      /\ calls'[r].pc = "done" => calls'[r].upd = Null
      /\ calls'[r].pc = "updateMatch" => calls'[r].unpaid = <<>>
  <2>1. ASSUME NEW pc \in {"done", "failed"}, GoTo(r, pc)
        PROVE  <1>2!:
    BY <1>1, <2>1 DEF GoTo, Call
  <2>2. ASSUME NEW m, NEW upd,
               calls' = [calls EXCEPT
                 ![r] = [Idle EXCEPT !.pc = "updateMatch", !.match = m, !.upd = upd]]
        PROVE  <1>2!:
    BY <1>1, <2>2 DEF Idle
  <2> QED
    BY <2>1, <2>2 DEF Lookup
<1>3. Course(calls'[r])
  BY <1>2 DEF Course, KnockoutStatements, Statements
<1>4. \A u : ~WroteScore(calls'[r], u) /\ ~WroteScore(calls[r], u)
  BY <1>1, <1>2 DEF WroteScore, AfterQuery
<1> QED
  BY <1>1, <1>2, <1>3, <1>4, NoAward

LEMMA UpdateMatchRowAward ==
  ASSUME AwardInv, LockInv', NEW r \in Requests, UpdateMatchRow(r)
  PROVE  AwardInv'
<1> DEFINE c == calls[r]
           d == calls'[r]
<1>1. /\ c.pc = "updateMatch" /\ c \in Call /\ Course(c) /\ UNCHANGED knockoutScore
      /\ DOMAIN calls = Requests
  BY AwardCall DEF UpdateMatchRow, At
<1>2. /\ d.pc = AfterUpdate(c.match, c.upd) /\ d.match = c.match /\ d.upd = c.upd
      /\ d.unpaid = c.unpaid
      /\ \A q \in Requests \ {r} : calls'[q] = calls[q]
  BY <1>1 DEF UpdateMatchRow, GoTo, Call
<1>3. /\ d.pc \in {"commit", "reject", "readStanding1", "advanceWinner", "upsertWinner"}
      /\ d.pc \in {"advanceWinner", "upsertWinner"} <=> Deciding(d)
      /\ d.pc = "commit" /\ Completed(d.upd) => HasCountries(d.upd)
  BY <1>2 DEF AfterUpdate, Deciding
<1>4. Course(d)
  BY <1>1, <1>2, <1>3 DEF Course, KnockoutStatements, Statements
<1>5. \A u : ~WroteScore(c, u) /\ ~WroteScore(d, u)
  BY <1>1, <1>3 DEF WroteScore, AfterQuery
<1> QED
  BY <1>1, <1>2, <1>3, <1>4, <1>5, NoAward

LEMMA GroupAward ==
  ASSUME AwardInv, LockInv', NEW r \in Requests,
         \/ ReadStanding1(r) \/ ReadStanding2(r)
         \/ WriteStanding1(r) \/ WriteStanding2(r)
  PROVE  AwardInv'
<1> DEFINE c == calls[r]
           d == calls'[r]
<1>1. c.pc \in GroupStatements /\ UNCHANGED knockoutScore
  BY DEF ReadStanding1, ReadStanding2, WriteStanding1, WriteStanding2, At, tables,
     GroupStatements
<1>2. /\ c \in Call /\ Course(c) /\ ~IsKnockout(c.match) /\ HasCountries(c.upd)
      /\ DOMAIN calls = Requests /\ c.unpaid = <<>>
  BY <1>1, AwardCall DEF GroupStatements, Statements, Local, OfResult, Branch, Course
<1>3. /\ d.match = c.match /\ d.upd = c.upd /\ d.unpaid = c.unpaid
      /\ d.pc \in GroupStatements \cup {"commit"}
      /\ \A q \in Requests \ {r} : calls'[q] = calls[q]
  BY <1>2 DEF ReadStanding1, ReadStanding2, WriteStanding1, WriteStanding2, GoTo, Call,
     GroupStatements
<1>4. Course(d)
  BY <1>2, <1>3 DEF Course, KnockoutStatements, GroupStatements
<1>5. \A u : ~WroteScore(c, u) /\ ~WroteScore(d, u)
  BY <1>2, <1>3 DEF WroteScore, Deciding
<1> QED
  BY <1>1, <1>3, <1>4, <1>5, NoAward DEF GroupStatements

\* A statement of a knockout result that goes to another, or to the commit.
LEMMA AwardCourse ==
  ASSUME AwardInv, NEW r \in Requests, calls[r].pc \in KnockoutStatements,
         calls'[r].match = calls[r].match, calls'[r].upd = calls[r].upd,
         calls'[r].pc \in KnockoutStatements \cup {"commit"},
         calls'[r].pc \in {"seedLoser", "upsertLoser"} => Round[calls[r].match] = 4,
         IF calls'[r].pc = "award"
           THEN /\ Unpaid(calls'[r]) \subseteq Payees(calls[r])
                /\ Distinct(calls'[r].unpaid)
           ELSE calls'[r].unpaid = <<>>
  PROVE  Deciding(calls[r]) /\ Deciding(calls'[r]) /\ Course(calls'[r])
<1>1. Course(calls[r])
  BY AwardCall
<1>2. Deciding(calls[r])
  BY <1>1 DEF Course
<1>3. Deciding(calls'[r]) /\ Payees(calls'[r]) = Payees(calls[r])
  BY <1>2 DEF Deciding, Payees
<1> QED
  BY <1>2, <1>3 DEF Course, KnockoutStatements, Deciding

LEMMA KnockoutAward ==
  ASSUME AwardInv, LockInv', NEW r \in Requests,
         \/ AdvanceWinner(r) \/ SeedThirdPlace(r)
         \/ UpsertWinner(r) \/ UpsertLoser(r)
  PROVE  AwardInv'
<1> DEFINE c == calls[r]
           d == calls'[r]
<1>1. /\ c.pc \in {"advanceWinner", "seedLoser", "upsertWinner", "upsertLoser"}
      /\ c.pc \in KnockoutStatements /\ UNCHANGED knockoutScore
  BY DEF AdvanceWinner, SeedThirdPlace, UpsertWinner, UpsertLoser, At, KnockoutStatements
<1>2. /\ c \in Call /\ Course(c) /\ DOMAIN calls = Requests /\ c.unpaid = <<>>
  BY <1>1, AwardCall DEF Statements, Course
<1>3. /\ d.match = c.match /\ d.upd = c.upd /\ d.unpaid = <<>>
      /\ d.pc = CASE c.pc = "advanceWinner" ->
                       IF Round[c.match] = 4 THEN "seedLoser" ELSE "upsertWinner"
                  [] c.pc = "seedLoser"    -> "upsertWinner"
                  [] c.pc = "upsertWinner" -> "queryPicks"
                  [] c.pc = "upsertLoser"  -> "commit"
      /\ \A q \in Requests \ {r} : calls'[q] = calls[q]
  <2>1. CASE AdvanceWinner(r)
    BY <1>2, <2>1 DEF AdvanceWinner, At, GoTo, Call
  <2>2. CASE SeedThirdPlace(r)
    BY <1>2, <2>2 DEF SeedThirdPlace, At, GoTo, Call
  <2>3. CASE UpsertWinner(r)
    BY <1>2, <2>3 DEF UpsertWinner, At, GoTo, Call
  <2>4. CASE UpsertLoser(r)
    BY <1>2, <2>4 DEF UpsertLoser, At, GoTo, Call
  <2> QED
    BY <2>1, <2>2, <2>3, <2>4
<1>4. Deciding(c) /\ Deciding(d) /\ Course(d)
  BY <1>1, <1>3, AwardCourse DEF KnockoutStatements
<1>5. \A u : WroteScore(d, u) <=> WroteScore(c, u)
  <2>1. d.pc \in AfterQuery <=> c.pc \in AfterQuery
    BY <1>1, <1>3 DEF AfterQuery
  <2> QED
    BY <1>2, <1>3, <1>4, <2>1 DEF WroteScore, Payees, Unpaid
<1> QED
  BY <1>1, <1>3, <1>4, <1>5, NoAward

\* A call that goes on to pay the users in `order`, of whom it has paid the rest.
LEMMA PayAward ==
  ASSUME AwardInv, LockInv', NEW r \in Requests,
         calls[r].pc \in {"queryPicks", "award"},
         NEW order \in Seq(Users), Distinct(order),
         Elements(order) \subseteq Payees(calls[r]),
         calls' = [calls EXCEPT ![r].pc = AfterAward(calls[r].match, order),
                                ![r].unpaid = order],
         Touches(knockoutScore, knockoutScore', r),
         \A u \in Users :
           Held(knockoutScore'[u], r, u \in Payees(calls[r]) \ Elements(order),
                ScoreAfter(calls[r], knockoutScore'[u].cur))
  PROVE  AwardInv'
<1> DEFINE c == calls[r]
           d == calls'[r]
<1>1. c \in Call /\ DOMAIN calls = Requests /\ DOMAIN knockoutScore = Users
  BY AwardCall
<1>2. /\ d.pc = AfterAward(c.match, order) /\ d.unpaid = order
      /\ d.match = c.match /\ d.upd = c.upd
      /\ \A q \in Requests \ {r} : calls'[q] = calls[q]
  BY <1>1 DEF Call
<1>3. /\ d.pc \in {"award", "upsertLoser", "commit"}
      /\ d.pc = "upsertLoser" => Round[c.match] = 4
      /\ d.pc # "award" => order = <<>>
  BY <1>2 DEF AfterAward, AfterAwards
<1>4. Deciding(c) /\ Deciding(d) /\ Course(d)
  BY <1>2, <1>3, AwardCourse DEF KnockoutStatements, Unpaid
<1>5. ScoreEffects(r)'
  <2>1. \A u : WroteScore(d, u) <=> u \in Payees(c) \ Elements(order)
    BY <1>2, <1>3, <1>4 DEF WroteScore, AfterQuery, Unpaid, Payees
  <2>2. \A s : ScoreAfter(d, s) = ScoreAfter(c, s)
    BY <1>2 DEF ScoreAfter
  <2> QED
    BY <2>1, <2>2 DEF ScoreEffects, Held
<1>6. /\ \A q \in Requests \ {r} : Spares(knockoutScore, knockoutScore', q)
      /\ \A u \in Users : knockoutScore'[u].cur = knockoutScore[u].cur
  BY <1>1, TouchesSpares
<1> QED
  BY <1>2, <1>3, <1>4, <1>5, <1>6, AwardStep

LEMMA QueryPicksAward ==
  ASSUME AwardInv, LockInv', NEW r \in Requests, QueryPicks(r)
  PROVE  AwardInv'
<1> DEFINE c == calls[r]
<1>1. c.pc = "queryPicks" /\ UNCHANGED tables
  BY DEF QueryPicks, At
<1>2. PICK order \in SetToSeqs(Pickers(Winner(c.upd), Achieved(c.match))) :
        calls' = [calls EXCEPT ![r].pc = AfterAward(c.match, order),
                               ![r].unpaid = order]
  BY DEF QueryPicks
<1>3. /\ order \in Seq(Users) /\ Distinct(order) /\ Elements(order) = Payees(c)
  BY PayOrder, EveryPickerOnce DEF Payees
<1>4. Touches(knockoutScore, knockoutScore', r)
  BY <1>1 DEF Touches, tables
<1>5. ASSUME NEW u \in Users
      PROVE  Held(knockoutScore'[u], r, u \in Payees(c) \ Elements(order),
                  ScoreAfter(c, knockoutScore'[u].cur))
  <2>1. Held(knockoutScore[u], r, WroteScore(c, u), ScoreAfter(c, knockoutScore[u].cur))
    BY AwardCall DEF ScoreEffects
  <2>2. ~WroteScore(c, u)
    BY <1>1 DEF WroteScore, AfterQuery
  <2> QED
    BY <1>1, <1>3, <2>1, <2>2 DEF Held, tables
<1> QED
  BY <1>1, <1>2, <1>3, <1>4, <1>5, PayAward

\* The row is read under its lock: an award is added to what is committed.
LEMMA AwardUserAward ==
  ASSUME AwardInv, LockInv', NEW r \in Requests, AwardUser(r)
  PROVE  AwardInv'
<1> DEFINE c == calls[r]
           u == Head(c.unpaid)
           rest == Tail(c.unpaid)
           points == AwardPoints(Achieved(c.match))
<1>1. /\ c.pc = "award" /\ knockoutScore[u].by \in {Null, r}
      /\ calls' = [calls EXCEPT ![r].pc = AfterAward(c.match, rest), ![r].unpaid = rest]
      /\ knockoutScore' = [knockoutScore EXCEPT
              ![u] = Rows!Write(@, r, Rows!Read(@, r) + points)]
  BY DEF AwardUser, At, Awaited
<1>2. /\ c \in Call /\ Course(c) /\ Deciding(c) /\ DOMAIN knockoutScore = Users
      /\ c.unpaid \in Seq(Users) /\ c.unpaid # <<>>
  BY <1>1, AwardCall DEF KnockoutStatements, Course, Local, Call
<1>3. Distinct(c.unpaid) /\ Elements(c.unpaid) \subseteq Payees(c)
  BY <1>1, <1>2 DEF Course, Unpaid
<1>4. /\ rest \in Seq(Users) /\ Distinct(rest) /\ u \in Elements(c.unpaid)
      /\ Elements(rest) = Elements(c.unpaid) \ {u}
  BY <1>2, <1>3, WithoutFirst
<1>5. u \in Users
  BY <1>2
<1>6. \A v : WroteScore(c, v) <=> v \in Payees(c) \ Elements(c.unpaid)
  BY <1>1, <1>2 DEF WroteScore, AfterQuery, Unpaid
<1>7. Touches(knockoutScore, knockoutScore', r)
  BY <1>1, <1>2, <1>5, WriteTouches
<1>8. ASSUME NEW v \in Users
      PROVE  Held(knockoutScore'[v], r, v \in Payees(c) \ Elements(rest),
                  ScoreAfter(c, knockoutScore'[v].cur))
  <2>1. Held(knockoutScore[v], r, WroteScore(c, v), ScoreAfter(c, knockoutScore[v].cur))
    BY AwardCall DEF ScoreEffects
  <2>2. CASE v = u
    <3>1. Rows!Read(knockoutScore[u], r) = knockoutScore[u].cur
      BY <1>4, <1>6, <2>1, <2>2 DEF Held, Rows!Read
    <3>2. knockoutScore'[u] = Rows!Write(knockoutScore[u], r, knockoutScore[u].cur + points)
      BY <1>1, <1>2, <1>5, <3>1
    <3> QED
      BY <1>3, <1>4, <2>2, <3>2 DEF Held, Rows!Write, ScoreAfter
  <2>3. CASE v # u
    <3>1. knockoutScore'[v] = knockoutScore[v]
      BY <1>1, <1>2, <2>3
    <3> QED
      BY <1>4, <1>6, <2>1, <2>3, <3>1 DEF Held
  <2> QED
    BY <2>2, <2>3
<1>9. Elements(rest) \subseteq Payees(c)
  BY <1>3, <1>4
<1> QED
  BY <1>1, <1>4, <1>7, <1>8, <1>9, PayAward

LEMMA RollBackAward ==
  ASSUME AwardInv, LockInv', NEW r \in Requests, calls[r].pc \in Statements, RollBack(r)
  PROVE  AwardInv'
<1> DEFINE d == calls'[r]
<1>1. DOMAIN calls = Requests /\ DOMAIN knockoutScore = Users
  BY AwardCall
<1>2. /\ d.pc = "failed"
      /\ \A q \in Requests \ {r} : calls'[q] = calls[q]
      /\ knockoutScore' = Rows!Discard(knockoutScore, r)
  BY <1>1 DEF RollBack, Idle
<1>3. GivenBack(knockoutScore, knockoutScore', r)
  BY <1>2, EndGivesBack
<1>4. \A u \in Users : knockoutScore'[u].cur = knockoutScore[u].cur
  BY <1>1, <1>2, EndGivesBack
<1>5. ScoreEffects(r)'
  <2>1. \A u : ~WroteScore(d, u)
    BY <1>2 DEF WroteScore, AfterQuery
  <2> QED
    BY <1>1, <1>3, <2>1 DEF ScoreEffects, Held, GivenBack
<1>6. Course(d)
  BY <1>2 DEF Course, Statements, KnockoutStatements
<1>7. calls[r].pc # "done"
  BY DEF Statements
<1> QED
  BY <1>2, <1>3, <1>4, <1>5, <1>6, <1>7, AwardStep DEF GivenBack

\* The commit publishes the award of every user who predicted the winner, once.
LEMMA CommitAward ==
  ASSUME AwardInv, LockInv', NEW r \in Requests, Commit(r)
  PROVE  AwardInv'
<1> DEFINE c == calls[r]
           d == calls'[r]
           points == AwardPoints(Achieved(c.match))
<1>1. /\ c \in Call /\ Course(c) /\ c.pc = "commit" /\ c.upd \in MatchRow
      /\ DOMAIN calls = Requests /\ DOMAIN knockoutScore = Users
  BY AwardCall DEF Commit, At, Statements, Local
<1>2. /\ d.pc = "done" /\ d.match = c.match /\ d.upd = c.upd /\ d.unpaid = c.unpaid
      /\ \A q \in Requests \ {r} : calls'[q] = calls[q]
      /\ knockoutScore' = Rows!Publish(knockoutScore, r)
  BY <1>1 DEF Commit, Call
<1>3. GivenBack(knockoutScore, knockoutScore', r)
  BY <1>2, EndGivesBack
<1>4. ASSUME NEW q \in Requests
      PROVE  ScoreEffects(q)' /\ Course(calls'[q])
  <2>1. CASE q = r
    <3>1. \A u : ~WroteScore(d, u)
      BY <1>2 DEF WroteScore, AfterQuery
    <3>2. ScoreEffects(r)'
      BY <1>1, <1>3, <3>1 DEF ScoreEffects, Held, GivenBack
    <3>3. Course(d)
      BY <1>2 DEF Course, Statements, KnockoutStatements
    <3> QED
      BY <2>1, <3>2, <3>3
  <2>2. CASE q # r
    <3>1. /\ calls'[q] = calls[q] /\ ScoreEffects(q) /\ Course(calls[q])
          /\ Spares(knockoutScore, knockoutScore', q)
      BY <1>2, <1>3, <2>2, AwardCall DEF GivenBack
    <3> QED
      BY <1>1, <3>1 DEF ScoreEffects, Spares, Held
  <2> QED
    BY <2>1, <2>2
<1>5. ASSUME NEW u \in Users
      PROVE  knockoutScore'[u].cur = Total(Earnings(calls', u), Requests)
  <2> DEFINE old == Earnings(calls, u)
             new == Earnings(calls', u)
  <2>1. Earned(d, u) <=> WroteScore(c, u)
    <3>1. c.upd # Null /\ c.unpaid = <<>>
      BY <1>1, NullAssumption DEF Course, Statements
    <3> QED
      BY <1>1, <1>2, <3>1
      DEF Earned, WroteScore, Deciding, AfterQuery, Payees, Unpaid, Pickers, Elements, Course
  <2>2. ~Earned(c, u)
    BY <1>1 DEF Earned
  <2>3. /\ \A q \in Requests \ {r} : old[q] = new[q]
        /\ old[r] = 0 /\ new[r] = IF WroteScore(c, u) THEN points ELSE 0
    BY <1>2, <2>1, <2>2 DEF Earnings
  <2>4. knockoutScore'[u].cur = IF WroteScore(c, u) THEN knockoutScore[u].cur + points
                                                    ELSE knockoutScore[u].cur
    <3>1. Held(knockoutScore[u], r, WroteScore(c, u),
               ScoreAfter(c, knockoutScore[u].cur))
      BY AwardCall DEF ScoreEffects
    <3> QED
      BY <1>1, <1>2, <3>1 DEF Held, ScoreAfter, Rows!Publish, Rows!Committed
  <2>5. knockoutScore[u].cur = Total(old, Requests) /\ knockoutScore[u].cur \in Nat
    BY DEF AwardInv, LockInv, IInv, TypeOK, Rows!RowVersion
  <2>6. points \in Nat
    BY DEF AwardPoints
  <2>7. Total(new, Requests) = Total(old, Requests) + (new[r] - old[r])
    <3>1. \A q \in Requests : old[q] \in Int /\ new[q] \in Int
      BY EarningsNat
    <3> HIDE DEF old, new
    <3> QED
      BY <2>3, <3>1, TotalUpdate, RequestAssumption
  <2> HIDE DEF old, new, points
  <2>8. knockoutScore'[u].cur = Total(new, Requests)
    BY <2>3, <2>4, <2>5, <2>6, <2>7
  <2> QED
    BY <2>8 DEF new
<1>6. \A q \in Requests : calls'[q].pc = "idle" => calls'[q].upd = Null
  BY <1>2 DEF AwardInv
<1> QED
  BY <1>4, <1>5, <1>6 DEF AwardInv

LEMMA InitAward == Init => AwardInv
<1> SUFFICES ASSUME Init PROVE AwardInv
  OBVIOUS
<1>1. LockInv
  BY InitLocks
<1>2. \A r \in Requests : /\ calls[r].pc = "idle" /\ calls[r].upd = Null
                          /\ Course(calls[r])
  BY DEF Init, Idle, Course, Statements, KnockoutStatements
<1>3. \A r \in Requests : ScoreEffects(r)
  BY <1>2, RequestAssumption
  DEF Init, ScoreEffects, Held, WroteScore, AfterQuery, Rows!Committed
<1>4. ASSUME NEW u \in Users
      PROVE  knockoutScore[u].cur = Total(Earnings(calls, u), Requests)
  <2>1. \A r \in Requests : Earnings(calls, u)[r] = 0
    BY <1>2 DEF Earnings, Earned
  <2>2. Total(Earnings(calls, u), Requests) = 0
    BY <2>1, TotalZero, RequestAssumption
  <2> QED
    BY <2>2 DEF Init, Rows!Committed
<1> QED
  BY <1>1, <1>2, <1>3, <1>4 DEF AwardInv

LEMMA StepAward == AwardInv /\ [Next]_vars => AwardInv'
<1> SUFFICES ASSUME AwardInv, [Next]_vars PROVE AwardInv'
  OBVIOUS
<1>1. LockInv'
  BY StepLocks DEF AwardInv
<1>2. ASSUME NEW r \in Requests, Lookup(r) \/ Statement(r) PROVE AwardInv'
  BY <1>1, <1>2, LookupAward, UpdateMatchRowAward, GroupAward, KnockoutAward,
     QueryPicksAward, AwardUserAward, RollBackAward, CommitAward
  DEF Statement, Reject, At, Statements
<1>3. ASSUME NEW r \in Requests, Abort(r) \/ DeadlockAbort(r) PROVE AwardInv'
  <2>1. InFlight(r) /\ RollBack(r)
    <3>1. ASSUME Deadlocked(r) PROVE calls[r].pc \in Statements
      <4>1. PICK s \in Requests : s \in Awaited(r)
        BY <3>1 DEF Deadlocked, WaitsFor
      <4> QED
        BY <4>1 DEF Awaited, Statements
    <3> QED
      BY <1>3, <3>1 DEF Abort, DeadlockAbort, InFlight
  <2> QED
    BY <1>1, <2>1, RollBackAward DEF InFlight
<1>4. CASE UNCHANGED vars
  BY <1>1, <1>4 DEF AwardInv, ScoreEffects, Held, vars
<1> QED
  BY <1>2, <1>3, <1>4 DEF Next, AllAnswered

\* No award is lost: in any contest, however conflicting calls of UpdateMatch
\* interleave, fail and are rolled back, a user's committed knockout score is
\* the sum of the awards of the committed results the user predicted.
THEOREM AwardsStayPaid == Spec => []AwardsAreNotLost
<1>1. ASSUME AwardInv, NEW u \in Users
      PROVE  knockoutScore[u].cur =
               MapThenSumSet(LAMBDA r : AwardPoints(Achieved(calls[r].match)),
                             {r \in Requests : Awarded(r, u)})
  <2> DEFINE S == {r \in Requests : Awarded(r, u)}
             f == [r \in S |-> AwardPoints(Achieved(calls[r].match))]
             w == Earnings(calls, u)
  <2>1. MapThenSumSet(LAMBDA r : AwardPoints(Achieved(calls[r].match)), S) = Total(f, S)
    BY Zenon DEF Total, MapThenSumSet, MapThenFoldSet
  <2>2. /\ S \subseteq Requests /\ IsFiniteSet(S)
        /\ \A r \in S : w[r] = f[r]
        /\ \A r \in Requests : w[r] \in Int /\ w[r] = IF r \in S THEN w[r] ELSE 0
    <3>1. IsFiniteSet(S)
      BY RequestAssumption, FS_Subset
    <3>2. \A r \in Requests : r \in S <=> Earned(calls[r], u)
      BY DEF Awarded, Earned
    <3>3. \A r \in Requests : w[r] \in Int
      BY EarningsNat
    <3> QED
      BY <3>1, <3>2, <3>3 DEF Earnings
  <2>3. knockoutScore[u].cur = Total(w, Requests)
    BY <1>1 DEF AwardInv
  <2> HIDE DEF S, f, w
  <2>4. Total(f, S) = Total(w, S)
    BY <2>2, TotalAgrees
  <2>5. Total(w, Requests) = Total(w, S)
    BY <2>2, TotalPart, RequestAssumption
  <2> USE DEF S
  <2> QED
    BY <2>1, <2>3, <2>4, <2>5
<1>2. AwardInv => AwardsAreNotLost
  BY <1>1 DEF AwardsAreNotLost
<1> QED
  BY <1>2, InitAward, StepAward, PTL DEF Spec

----------------------------------------------------------------------------
(***************************************************************************)
(* What the book promises of its tables holds of the committed ones.       *)
(***************************************************************************)
Promise == INSTANCE ResultBookProofs WITH
  matches <- Rows!Current(matches), standings <- Rows!Current(standings),
  reached <- Rows!Current(reached), knockoutScore <- Rows!Current(knockoutScore)

LEMMA BookIsPromise == Book!Spec => Promise!Spec
<1>1. Book!Init => Promise!Init
  BY DEF Book!Init, Promise!Init, Book!Unplayed, Promise!Unplayed,
     Book!ZeroStanding, Promise!ZeroStanding
<1>2. [Book!Next]_Book!vars => [Promise!Next]_Promise!vars
  BY Zenon
  DEF Book!Completed, Promise!Completed, Book!Conduct, Promise!Conduct, Book!One,
     Promise!One, Book!Credit, Promise!Credit, Book!CreditFirst,
     Promise!CreditFirst, Book!CreditSecond, Promise!CreditSecond, Book!OnPenalties,
     Promise!OnPenalties, Book!FirstWins, Promise!FirstWins, Book!SecondWins,
     Promise!SecondWins, Book!HasWinner, Promise!HasWinner, Book!Winner,
     Promise!Winner, Book!Loser, Promise!Loser, Book!AchievedRound,
     Promise!AchievedRound, Book!AwardPoints, Promise!AwardPoints, Book!IsKnockout,
     Promise!IsKnockout, Book!ByPosition, Promise!ByPosition, Book!Found,
     Promise!Found, Book!HasUpdates, Promise!HasUpdates, Book!Given, Promise!Given,
     Book!KnockoutGiven, Promise!KnockoutGiven, Book!Merge, Promise!Merge,
     Book!HasCountries, Promise!HasCountries, Book!NextMatches, Promise!NextMatches,
     Book!ThirdPlaceMatches, Promise!ThirdPlaceMatches, Book!SeedWinner,
     Promise!SeedWinner, Book!SeedLoser, Promise!SeedLoser, Book!Achieved,
     Promise!Achieved, Book!Pickers, Promise!Pickers, Book!RecordFields,
     Promise!RecordFields, Book!RecordGroupResult, Promise!RecordGroupResult,
     Book!ReachedAfter, Promise!ReachedAfter, Book!RecordKnockoutResult,
     Promise!RecordKnockoutResult, Book!Accepted, Promise!Accepted, Book!Record,
     Promise!Record, Book!Exhausted, Promise!Exhausted, Book!Next, Promise!Next,
     Book!vars, Promise!vars
<1> QED
  BY <1>1, <1>2, PTL DEF Book!Spec, Promise!Spec

LEMMA SameConstants ==
  /\ Promise!IsFiniteSet(Matches) /\ Promise!IsFiniteSet(Users)
  /\ Promise!Slot = Slot /\ Promise!Score = Score
  /\ Promise!MatchRow = MatchRow /\ Promise!Payload = Payload
  /\ \A m, n, slot : Promise!Fills(m, n, slot) = Fills(m, n, slot)
  /\ \A row, slot : Promise!InSlot(row, slot) = InSlot(row, slot)
<1>1. Promise!IsFiniteSet(Matches) /\ Promise!IsFiniteSet(Users)
  BY MatchesAssumption, UsersAssumption DEF IsFiniteSet, Promise!IsFiniteSet
<1>2. /\ Promise!Slot = Slot /\ Promise!Score = Score
      /\ Promise!MatchRow = MatchRow /\ Promise!Payload = Payload
  BY Zenon DEF Slot, Promise!Slot, Score, Promise!Score, MatchRow, Promise!MatchRow,
     Payload, Promise!Payload
<1>3. \A m, n, slot : Promise!Fills(m, n, slot) = Fills(m, n, slot)
  BY Zenon DEF Fills, Promise!Fills, NextMatches, Promise!NextMatches, ThirdPlaceMatches,
     Promise!ThirdPlaceMatches
<1>4. \A row, slot : Promise!InSlot(row, slot) = InSlot(row, slot)
  BY DEF InSlot, Promise!InSlot
<1> QED
  BY <1>1, <1>2, <1>3, <1>4

\* The group tables that coordinated calls commit, which read standings and write them
\* back, are at every moment what the completed matches add up to.
THEOREM CommittedStandingsStayRight ==
  CoordinatedSpec => []Promise!StandingsAgreeWithMatches
<1>1. Promise!Spec => []Promise!StandingsAgreeWithMatches
  BY Promise!StandingsStayRight, SameConstants, NullAssumption, RoundAssumption,
     IndexAssumption, FixtureAssumption, PairingAssumption, PicksAssumption,
     UsersAssumption, MatchesAssumption, PayloadAssumption, SlotAssumption
<1> QED
  BY <1>1, Atomicity, BookIsPromise, PTL DEF CallsAreAtomic

\* So is the bracket they commit, the results stay, and the scores are exact, though each
\* result takes a dozen statements and other results are recorded between them.
THEOREM CommittedBracketStaysRight ==
  ASSUME Promise!CallsLeaveFedSlots
  PROVE  CoordinatedSpec => /\ [](/\ Promise!BracketFollowsResults
                                  /\ Promise!KnockoutScoresExact)
                            /\ Promise!ResultsAreFinal
<1>1. Promise!Spec => []Promise!BracketFollowsResults
  BY Promise!BracketStaysRight, SameConstants, NullAssumption, RoundAssumption,
     IndexAssumption, FixtureAssumption, PairingAssumption, PicksAssumption,
     UsersAssumption, MatchesAssumption, PayloadAssumption, SlotAssumption
<1>2. Promise!Spec => []Promise!KnockoutScoresExact
  BY Promise!KnockoutScoresStayExact, SameConstants, NullAssumption, RoundAssumption,
     IndexAssumption, FixtureAssumption, PairingAssumption, PicksAssumption,
     UsersAssumption, MatchesAssumption, PayloadAssumption, SlotAssumption
<1>3. Promise!Spec => Promise!ResultsAreFinal
  BY Promise!ResultsStayFinal, SameConstants, NullAssumption, RoundAssumption,
     IndexAssumption, FixtureAssumption, PairingAssumption, PicksAssumption,
     UsersAssumption, MatchesAssumption, PayloadAssumption, SlotAssumption
<1> QED
  BY <1>1, <1>2, <1>3, Atomicity, BookIsPromise, PTL DEF CallsAreAtomic

\* And no country is ever in two matches of a round, nor its knockout standing less than
\* the furthest round it was taken to.
THEOREM CommittedPathsStayRight ==
  ASSUME Promise!CallsLeaveFedSlots, Promise!CountriesEnterOnce
  PROVE  CoordinatedSpec => [](Promise!OneMatchPerRound /\ Promise!ReachedIsFurthest)
<1>1. Promise!Spec => []Promise!OneMatchPerRound
  BY Promise!CountriesPlayOnce, SameConstants, NullAssumption, RoundAssumption,
     IndexAssumption, FixtureAssumption, PairingAssumption, PicksAssumption,
     UsersAssumption, MatchesAssumption, PayloadAssumption, SlotAssumption
<1>2. Promise!Spec => []Promise!ReachedIsFurthest
  BY Promise!ReachedStaysFurthest, SameConstants, NullAssumption, RoundAssumption,
     IndexAssumption, FixtureAssumption, PairingAssumption, PicksAssumption,
     UsersAssumption, MatchesAssumption, PayloadAssumption, SlotAssumption
<1> QED
  BY <1>1, <1>2, Atomicity, BookIsPromise, PTL DEF CallsAreAtomic
=============================================================================
