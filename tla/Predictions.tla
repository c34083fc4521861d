---------------------------- MODULE Predictions ----------------------------
(***************************************************************************)
(* PicksService.CreateGroupPicks and CreateKnockoutPicks with their        *)
(* repository methods, statement by statement, while other saves, payments *)
(* of points and deletions of accounts run.  A save checks the lock dates, *)
(* then in one transaction deletes the predictions it replaces, inserts    *)
(* the new ones and makes sure that the user has a row in                  *)
(* contest_standings.                                                      *)
(*                                                                         *)
(* group_picks and knockout_picks are one table of rows: a group pick has  *)
(* no round, a knockout pick no letter, place and extra qualifier.         *)
(***************************************************************************)
EXTENDS Integers, FiniteSets, Sequences, SequencesExt

CONSTANTS
  Null,
  Users,
  Countries,    \* codes of the countries table
  Letters,      \* of the groups
  Contest,      \* slug of the contest
  Unlock,       \* group_unlock_date, knockout_unlock_date by kind; Null if zero
  Lock,         \* group_lock_date, knockout_lock_date by kind; Null if zero
  LastInstant,  \* bound of the clock
  Submissions,  \* requests to save predictions
  Payments,     \* [kind, points]: results that pay every predictor of a kind
  SaveCalls,    \* the calls, numbered in the order in which they arrive
  PayCalls

Kinds == {"group", "knockout"}

\* A repeated or unknown country, a missing round or letter are all accepted by
\* the handler.  A knockout entry is a pick of one country, without a letter.
Pick == [letter : Letters \cup {Null}, order : Seq(Countries \cup {Null}),
         extra : BOOLEAN \cup {Null}, round : Int \cup {Null}]

ASSUME NullAssumption ==
  /\ Null \notin Users \cup Countries \cup PayCalls \cup Int
  /\ Null \notin [group : Nat, knockout : Nat]
  /\ SaveCalls \subseteq Nat

ASSUME FiniteAssumption ==
  IsFiniteSet(Users) /\ IsFiniteSet(PayCalls) /\ IsFiniteSet(Countries)

ASSUME DateAssumption ==
  /\ Unlock \in [Kinds -> Nat \cup {Null}]
  /\ Lock \in [Kinds -> Nat \cup {Null}]
  /\ LastInstant \in Nat

ASSUME SubmissionAssumption ==
  \A s \in Submissions : /\ s.user \in Users /\ s.kind \in Kinds
                         /\ s.picks \in Seq(Pick)
                         /\ \A i \in DOMAIN s.picks :
                              /\ (s.picks[i].round = Null) = (s.kind = "group")
                              /\ s.kind = "knockout" => s.picks[i].letter = Null

ASSUME PaymentAssumption == Payments \subseteq [kind : Kinds, points : Nat]

VARIABLES
  accounts,   \* users that exist
  now,        \* the wall clock
  picks,      \* versions of the rows of group_picks and knockout_picks
  standings,  \* contest_standings by user, with the row's writer; Null: no row
  saves, pays

predictionVars == <<accounts, now, picks, standings, saves, pays>>

Rows == INSTANCE RowVersions

PickRow ==
  [user : Users, country : Countries, letter : Letters \cup {Null},
   place : (Nat \ {0}) \cup {Null}, extra : BOOLEAN \cup {Null}, round : Int \cup {Null}]

\* `from` inserted the row, `live` says that it has committed, `del` is the
\* transaction that deletes it.
PickVersion ==
  [row : PickRow, from : SaveCalls, live : BOOLEAN, del : SaveCalls \cup {Null}]

Score == [group : Nat, knockout : Nat]
Zero == [group |-> 0, knockout |-> 0]

Codes == {"none", "ok", "not_found", "failed_precondition", "internal"}

\* `checked` is the local variable now of the lock check, `seen` is the snapshot of
\* the running DELETE, `alone` a history variable: no
\* other save of the same predictions was in progress with this one.
SaveCall ==
  [pc : {"idle", "check", "delete", "deleting", "insert", "standing", "commit",
         "answered"},
   item : Submissions \cup {Null}, checked : Nat \cup {Null},
   seen : SUBSET [row : PickRow, from : SaveCalls],
   alone : BOOLEAN, answer : Codes]

Idle == [pc |-> "idle", item |-> Null, checked |-> Null, seen |-> {}, alone |-> TRUE,
         answer |-> "none"]

PayCall ==
  [pc : {"idle", "pay", "answered"}, item : Payments \cup {Null},
   payees : SUBSET Users, answer : Codes]

TypeOK ==
  /\ accounts \subseteq Users
  /\ now \in 0 .. LastInstant
  /\ picks \subseteq PickVersion
  /\ standings \in [Users -> Rows!RowVersion(Score \cup {Null}, SaveCalls)]
  /\ saves \in [SaveCalls -> SaveCall]
  /\ pays \in [PayCalls -> PayCall]

PredictionInit ==
  /\ accounts = Users
  /\ now = 0
  /\ picks = {}
  /\ standings = [u \in Users |-> Rows!Committed(Null)]
  /\ saves = [r \in SaveCalls |-> Idle]
  /\ pays = [p \in PayCalls |-> [pc |-> "idle", item |-> Null, payees |-> {},
                                 answer |-> "none"]]

----------------------------------------------------------------------------
(***************************************************************************)
(* What a submission asks for                                              *)
(***************************************************************************)
\* The place of a country is its position in the list of its group.
\* Mutant: places are counted from 0.
PlacesFromZero(s, i, j) ==
  [user |-> s.user, country |-> s.picks[i].order[j], letter |-> s.picks[i].letter,
   place |-> IF s.kind = "group" THEN j - 1 ELSE Null,
   extra |-> s.picks[i].extra, round |-> s.picks[i].round]
RowOf(s, i, j) ==
  [user |-> s.user, country |-> s.picks[i].order[j], letter |-> s.picks[i].letter,
   place |-> IF s.kind = "group" THEN j ELSE Null,
   extra |-> s.picks[i].extra, round |-> s.picks[i].round]

Entries(s) == {e \in (DOMAIN s.picks) \X (1 .. Cardinality(Countries) + 1) :
                 e[2] \in DOMAIN s.picks[e[1]].order}

RowsOf(s) == {RowOf(s, e[1], e[2]) : e \in Entries(s)}

LettersOf(s) == {s.picks[i].letter : i \in DOMAIN s.picks}

KindOf(row) == IF row.round = Null THEN "group" ELSE "knockout"

\* What a save deletes: the groups it names, or the whole bracket.
\* Mutant: the whole of the group predictions, whatever groups are named.
ReplacesEveryGroup(s, row) == row.user = s.user /\ KindOf(row) = s.kind
Replaces(s, row) ==
  /\ row.user = s.user /\ KindOf(row) = s.kind
  /\ s.kind = "group" => row.letter \in LettersOf(s)

\* The primary keys: a country once among the group picks, once per round among
\* the knockout picks.
Key(row) == <<row.user, row.country, row.round>>

Repeats(s) ==
  \E d, e \in Entries(s) :
    d # e /\ Key(RowOf(s, d[1], d[2])) = Key(RowOf(s, e[1], e[2]))

\* Two submissions that compete for rows.
Overlap(s, t) ==
  /\ s.user = t.user /\ s.kind = t.kind
  /\ \/ s.kind = "knockout"
     \/ LettersOf(s) \cap LettersOf(t) # {}
     \/ \E p \in RowsOf(s), q \in RowsOf(t) : p.country = q.country

----------------------------------------------------------------------------
(***************************************************************************)
(* Row locks.  A save waits for a row another one is deleting, for a key   *)
(* another one is inserting or deleting, and for the user's standing.      *)
(***************************************************************************)
User(r) == saves[r].item.user

SaveInFlight(r) == saves[r].pc \notin {"idle", "answered"}
PayInFlight(p) == pays[p].pc = "pay"

Seen(r) == {v \in picks : [row |-> v.row, from |-> v.from] \in saves[r].seen}

Clashing(r) == {v \in picks : /\ v.from # r /\ v.del # r
                              /\ \E row \in RowsOf(saves[r].item) :
                                   Key(row) = Key(v.row)}

Holder(v) == IF v.del # Null THEN v.del ELSE IF v.live THEN Null ELSE v.from

Awaited(r) ==
  CASE saves[r].pc = "deleting" -> {v.del : v \in Seen(r)}
    [] saves[r].pc = "insert"   -> {Holder(v) : v \in Clashing(r)}
    [] saves[r].pc = "standing" -> {standings[User(r)].by}
    [] OTHER                    -> {}

At(r, pc) == saves[r].pc = pc

Free(r) == Awaited(r) \subseteq {Null, r}

WaitsFor(r, s) == r # s /\ s \in Awaited(r)

Deadlocked(r) ==
  \E S \in SUBSET SaveCalls :
    /\ r \in S
    /\ \A q \in S : /\ \E s \in S : WaitsFor(q, s)
                    /\ \E s \in S : WaitsFor(s, q)

GoTo(r, pc) == saves' = [saves EXCEPT ![r].pc = pc]

Answer(r, code) ==
  saves' = [saves EXCEPT ![r] = [Idle EXCEPT !.pc = "answered", !.answer = code]]

\* The table when r commits, and when it rolls back.
Published(r) ==
  {IF v.from = r THEN [v EXCEPT !.live = TRUE] ELSE v :
     v \in {w \in picks : w.del # r}}
Discarded(r) ==
  {IF v.del = r THEN [v EXCEPT !.del = Null] ELSE v :
     v \in {w \in picks : w.live \/ w.from # r}}

\* Mutant: the deferred Rollback is missing.
KeepLocks(r, code) == Answer(r, code) /\ UNCHANGED <<accounts, now, picks, standings, pays>>
RollBack(r, code) ==
  /\ picks' = Discarded(r)
  /\ standings' = Rows!Discard(standings, r)
  /\ Answer(r, code)
  /\ UNCHANGED <<accounts, now, pays>>

----------------------------------------------------------------------------
(***************************************************************************)
(* A save                                                                  *)
(***************************************************************************)
BeginSave(r) ==
  /\ At(r, "idle")
  /\ \A q \in SaveCalls : q < r => ~At(q, "idle")
  /\ \E s \in Submissions :
       LET others == {q \in SaveCalls : /\ SaveInFlight(q)
                                        /\ Overlap(saves[q].item, s)}
       IN  saves' = [q \in SaveCalls |->
             CASE q = r       -> [saves[r] EXCEPT !.pc = "check", !.item = s,
                                                  !.alone = (others = {})]
               [] q \in others -> [saves[q] EXCEPT !.alone = FALSE]
               [] OTHER       -> saves[q]]
  /\ UNCHANGED <<accounts, now, picks, standings, pays>>

\* Mutant: the other kind's dates are checked.
LockedByOtherDates(kind) ==
  LET other == IF kind = "group" THEN "knockout" ELSE "group"
  IN  \/ Unlock[other] # Null /\ now < Unlock[other]
      \/ Lock[other] # Null /\ now > Lock[other]
Locked(kind) ==
  \/ Unlock[kind] # Null /\ now < Unlock[kind]
  \/ Lock[kind] # Null /\ now > Lock[kind]

CheckLock(r) ==
  /\ At(r, "check")
  /\ LET s == saves[r].item
     IN  IF s.slug # Contest  THEN Answer(r, "not_found")
         ELSE IF Locked(s.kind) THEN Answer(r, "failed_precondition")
         ELSE saves' = [saves EXCEPT ![r].pc = "delete", ![r].checked = now]
  /\ UNCHANGED <<accounts, now, picks, standings, pays>>

\* The DELETE finds the committed rows it is to delete ...
BeginDelete(r) ==
  /\ At(r, "delete")
  /\ saves' = [saves EXCEPT
       ![r].pc = "deleting",
       ![r].seen = {[row |-> v.row, from |-> v.from] :
                      v \in {w \in picks : w.live /\ Replaces(saves[r].item, w.row)}}]
  /\ UNCHANGED <<accounts, now, picks, standings, pays>>

\* ... waits for those that others are deleting, and deletes what is left of them.
DeletePicks(r) ==
  /\ At(r, "deleting") /\ Free(r)
  /\ picks' = {IF v \in Seen(r) THEN [v EXCEPT !.del = r] ELSE v : v \in picks}
  /\ saves' = [saves EXCEPT ![r].pc = "insert", ![r].seen = {}]
  /\ UNCHANGED <<accounts, now, standings, pays>>

\* An unknown code, a country twice in the submission, a key that is taken or a
\* user who is gone fail the save; a submission without a country is answered as a
\* success and rolled back.
Refused(r) ==
  LET s == saves[r].item
  IN  \/ \E row \in RowsOf(s) : row.country = Null
      \/ Repeats(s)
      \/ \E v \in Clashing(r) : Holder(v) = Null
      \/ s.user \notin accounts

InsertPicks(r) ==
  /\ At(r, "insert")
  /\ LET s == saves[r].item
     IN  \/ RowsOf(s) = {} /\ RollBack(r, "ok")
         \/ RowsOf(s) # {} /\ Refused(r) /\ RollBack(r, "internal")
         \/ /\ RowsOf(s) # {} /\ ~Refused(r) /\ Clashing(r) = {}
            /\ picks' = picks \cup
                 {[row |-> row, from |-> r, live |-> FALSE, del |-> Null] :
                    row \in RowsOf(s)}
            /\ GoTo(r, "standing")
            /\ UNCHANGED <<accounts, now, standings, pays>>

\* Mutants: the row is written over; it is not written.
ResetStanding(r) ==
  /\ At(r, "standing") /\ Free(r)
  /\ standings' = [standings EXCEPT ![User(r)] = Rows!Write(@, r, Zero)]
  /\ GoTo(r, "commit")
  /\ UNCHANGED <<accounts, now, picks, pays>>
SkipStanding(r) ==
  /\ At(r, "standing") /\ Free(r)
  /\ GoTo(r, "commit")
  /\ UNCHANGED <<accounts, now, picks, standings, pays>>
\* INSERT ... ON CONFLICT DO NOTHING.
InsertStanding(r) ==
  /\ At(r, "standing") /\ Free(r)
  /\ standings' = [standings EXCEPT
       ![User(r)] = IF Rows!Read(@, r) = Null THEN Rows!Write(@, r, Zero) ELSE @]
  /\ GoTo(r, "commit")
  /\ UNCHANGED <<accounts, now, picks, pays>>

CommitSave(r) ==
  /\ At(r, "commit")
  /\ picks' = Published(r)
  /\ standings' = Rows!Publish(standings, r)
  /\ Answer(r, "ok")
  /\ UNCHANGED <<accounts, now, pays>>

\* The deferred Rollback after a lost connection, a cancelled request or a stop of
\* the server; and after PostgreSQL's choice in a deadlock.
AbortSave(r) == SaveInFlight(r) /\ RollBack(r, "internal")
DeadlockAbort(r) == Deadlocked(r) /\ RollBack(r, "internal")

Statement(r) ==
  \/ CheckLock(r) \/ BeginDelete(r) \/ DeletePicks(r) \/ InsertPicks(r)
  \/ InsertStanding(r) \/ CommitSave(r)

----------------------------------------------------------------------------
(***************************************************************************)
(* What runs beside the saves                                              *)
(***************************************************************************)
\* A finalization or a knockout result, statement by statement in
\* GroupFinalization and MatchRecording: it reads who predicted ...
QueryPayees(p) ==
  /\ pays[p].pc = "idle"
  /\ \E item \in Payments :
       pays' = [pays EXCEPT
         ![p].pc = "pay", ![p].item = item,
         ![p].payees = {v.row.user : v \in
                          {w \in picks : w.live /\ KindOf(w.row) = item.kind}}]
  /\ UNCHANGED <<accounts, now, picks, standings, saves>>

Add(score, item) ==
  LET old == IF score = Null THEN Zero ELSE score
  IN  [old EXCEPT ![item.kind] = @ + item.points]

\* ... and upserts their scores; a user who is gone fails it as a whole.
PayUsers(p) ==
  /\ PayInFlight(p)
  /\ LET call == pays[p]
     IN  IF call.payees \subseteq accounts
         THEN /\ \A u \in call.payees : standings[u].by = Null
              /\ standings' = [u \in Users |->
                   IF u \in call.payees
                   THEN Rows!Committed(Add(standings[u].cur, call.item))
                   ELSE standings[u]]
              /\ pays' = [pays EXCEPT ![p].pc = "answered", ![p].answer = "ok"]
         ELSE /\ pays' = [pays EXCEPT ![p].pc = "answered", ![p].answer = "internal"]
              /\ UNCHANGED standings
  /\ UNCHANGED <<accounts, now, picks, saves>>

\* DeleteUser: the cascades take every row of the user and wait, as the DELETE
\* itself does, for transactions that have written one.
DeleteUser(u) ==
  /\ u \in accounts
  /\ \A v \in picks : v.row.user = u => v.live /\ v.del = Null
  /\ standings[u].by = Null
  /\ accounts' = accounts \ {u}
  /\ picks' = {v \in picks : v.row.user # u}
  /\ standings' = [standings EXCEPT ![u] = Rows!Committed(Null)]
  /\ UNCHANGED <<now, saves, pays>>

Tick ==
  /\ now < LastInstant
  /\ now' = now + 1
  /\ UNCHANGED <<accounts, picks, standings, saves, pays>>

PredictionNext ==
  \/ \E r \in SaveCalls :
       BeginSave(r) \/ Statement(r) \/ AbortSave(r) \/ DeadlockAbort(r)
  \/ \E p \in PayCalls : QueryPayees(p) \/ PayUsers(p)
  \/ \E u \in Users : DeleteUser(u)
  \/ Tick

----------------------------------------------------------------------------
(***************************************************************************)
(* Properties                                                              *)
(***************************************************************************)
Stored == {v.row : v \in {w \in picks : w.live}}

\* ListGroupPicks: the groups of a user, with the countries in the order of their
\* places.  Rows of one place, which overlapping saves can leave, come in any order:
\* the set has every group that may be listed.  A group is listed as an extra
\* qualifier if its last row says so.
GroupRows(rows, u, l) ==
  {row \in rows : row.user = u /\ row.letter = l /\ KindOf(row) = "group"}

\* Mutant: the list is not ordered by place.
InAnyOrder(group) == SetToSeqs(group)
ByPlace(group) ==
  {o \in SetToSeqs(group) : \A i, j \in DOMAIN o : i < j => o[i].place <= o[j].place}

ListGroupPicks(rows, u) ==
  LET letters == {row.letter : row \in {q \in rows : q.user = u /\ KindOf(q) = "group"}}
  IN  UNION {{[letter |-> l, order |-> [i \in DOMAIN o |-> o[i].country],
               extra |-> Last(o).extra, round |-> Null] :
                 o \in ByPlace(GroupRows(rows, u, l))} : l \in letters}

\* Whoever has stored predictions exists and is in contest_standings, so that the
\* leaderboards list everybody who plays: the INSERT of the standing, the upserts
\* of the scoring and the cascades of DeleteUser, in any order.
PickersAreListed ==
  \A row \in Stored : row.user \in accounts /\ standings[row.user].cur # Null

\* The score of a user is the sum of the payments that reached the user: neither a
\* save that makes the row nor one that finds it ever costs points.
Received(u, kind) ==
  {p \in PayCalls : /\ pays[p].answer = "ok" /\ u \in pays[p].payees
                    /\ pays[p].item.kind = kind}
ScoresArePaid ==
  \A u \in accounts, kind \in Kinds :
    MapThenSumSet(LAMBDA p : pays[p].item.points, Received(u, kind)) =
      IF standings[u].cur = Null THEN 0 ELSE standings[u].cur[kind]

\* A save answers at this step, and no other save of the same rows overlapped it.
AnswersAlone(r) ==
  saves[r].pc # "answered" /\ saves'[r].pc = "answered" /\ saves[r].alone

\* A save that no other save of the same rows overlapped leaves exactly what it was
\* asked to store, in place of the bracket or of the groups of the same letters, and
\* touches nothing else; any other answer leaves the tables alone.
SavesAreWhole ==
  [][\A r \in SaveCalls : AnswersAlone(r)
       => LET s == saves[r].item
          IN  Stored' =
                IF saves'[r].answer = "ok" /\ RowsOf(s) # {}
                THEN {row \in Stored : \/ row.user # s.user \/ KindOf(row) # s.kind
                                       \/ row.letter \notin LettersOf(s)}
                     \cup RowsOf(s)
                ELSE Stored]_predictionVars

\* What the user then reads back is what the user sent, group by group and in order,
\* though the order is stored as places of rows.
GroupsReadBack ==
  [][\A r \in SaveCalls :
       LET s == saves[r].item
       IN  /\ AnswersAlone(r) /\ saves'[r].answer = "ok" /\ s.kind = "group"
           /\ IsInjective([i \in DOMAIN s.picks |-> s.picks[i].letter])
           /\ RowsOf(s) # {}
           => {g \in ListGroupPicks(Stored', s.user) : g.letter \in LettersOf(s)}
              = {g \in ToSet(s.picks) : g.order # <<>>}]_predictionVars

\* Predictions change only by a save that was checked between the dates of its kind,
\* however late it commits, and by the deletion of the account.
InWindow(kind, instant) ==
  /\ Unlock[kind] # Null => Unlock[kind] <= instant
  /\ Lock[kind] # Null => instant <= Lock[kind]
LockedPicksStay ==
  [][\A row \in (Stored \ Stored') \cup (Stored' \ Stored) :
       \/ row.user \notin accounts'
       \/ \E r \in SaveCalls : /\ saves[r].pc = "commit" /\ saves'[r].answer = "ok"
                               /\ InWindow(KindOf(row), saves[r].checked)]_predictionVars

\* Saves that wait for each other are answered, deadlocks included, and so is a
\* payment that waits for one of them.
Settled == /\ \A r \in SaveCalls : ~SaveInFlight(r)
           /\ \A p \in PayCalls : ~PayInFlight(p)
SavesEnd == ~Settled ~> Settled
=============================================================================
