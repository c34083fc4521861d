------------------------- MODULE PredictionsProofs -------------------------
(***************************************************************************)
(* The safety properties of Predictions and Leaderboards, for any users,   *)
(* dates, submissions, payments and number of calls: what saves, payments, *)
(* deletions of accounts and reads of leaderboards keep true of the rows   *)
(* they share, in any order of their statements.                           *)
(***************************************************************************)
EXTENDS Leaderboards, CollectionTheorems, SequenceTheorems

(***************************************************************************)
(* The inductive invariants.  What a save knows, by how far it has come.   *)
(***************************************************************************)
Checked == {"delete", "deleting", "insert", "standing", "commit"}
Deleted == {"insert", "standing", "commit"}
Inserted == {"standing", "commit"}

SavesAreKnown ==
  \A r \in SaveCalls :
    /\ SaveInFlight(r) => saves[r].item \in Submissions
    /\ saves[r].pc \in Checked => /\ saves[r].checked \in Nat
                                  /\ InWindow(saves[r].item.kind, saves[r].checked)

PaymentsAreKnown ==
  \A p \in PayCalls :
    /\ PayInFlight(p) \/ pays[p].answer = "ok" => pays[p].item \in Payments
    /\ pays[p].answer = "ok" => pays[p].pc = "answered"

KnownInv == TypeOK /\ SavesAreKnown /\ PaymentsAreKnown

\* The row versions: who may have written one, who may be deleting it.
New(r, row) == [row |-> row, from |-> r, live |-> FALSE, del |-> Null]

WritersAreInserting ==
  \A v \in picks :
    IF v.live THEN saves[v.from].pc = "answered"
    ELSE /\ saves[v.from].pc \in Inserted
         /\ v.row \in RowsOf(saves[v.from].item)
         /\ v.del = Null

DeletersAreReplacing ==
  \A v \in picks : v.del # Null =>
    saves[v.del].pc \in Deleted /\ Replaces(saves[v.del].item, v.row)

SeenAreReplaced ==
  \A r \in SaveCalls : saves[r].pc = "deleting" =>
    \A e \in saves[r].seen :
      saves[e.from].pc = "answered" /\ Replaces(saves[r].item, e.row)

RowsAreWritten ==
  \A r \in SaveCalls : saves[r].pc \in Inserted =>
    /\ RowsOf(saves[r].item) # {}
    /\ \A row \in RowsOf(saves[r].item) : New(r, row) \in picks

VersionsInv ==
  /\ WritersAreInserting /\ DeletersAreReplacing /\ SeenAreReplaced
  /\ RowsAreWritten

\* The standings: a save only ever writes a missing row, and only after its
\* predictions.
StandingsAreHeld ==
  \A u \in Users : standings[u].by # Null =>
    /\ saves[standings[u].by].pc = "commit"
    /\ User(standings[u].by) = u
    /\ standings[u].cur = Null /\ standings[u].new = Zero

PickersAreEntered ==
  /\ \A v \in picks : /\ v.row.user \in accounts
                      /\ v.live => standings[v.row.user].cur # Null
  /\ \A r \in SaveCalls : saves[r].pc = "commit" =>
       standings[User(r)].cur # Null \/ standings[User(r)].by = r

StandingsInv == StandingsAreHeld /\ PickersAreEntered

SaveInv == KnownInv /\ VersionsInv /\ StandingsInv

\* A save that runs alone has found and deletes all it is to replace.
AloneIsApart ==
  \A r, q \in SaveCalls :
    r # q /\ SaveInFlight(r) /\ SaveInFlight(q) /\ saves[r].alone =>
      ~Overlap(saves[q].item, saves[r].item)

AloneFindsAll ==
  \A r \in SaveCalls : SaveInFlight(r) /\ saves[r].alone =>
    \A v \in picks : v.live /\ Replaces(saves[r].item, v.row) =>
      /\ saves[r].pc = "deleting" => v \in Seen(r)
      /\ saves[r].pc \in Deleted => v.del = r

BracketsHaveNoLetters ==
  \A v \in picks : KindOf(v.row) = "knockout" => v.row.letter = Null

AloneInv == SaveInv /\ AloneIsApart /\ AloneFindsAll /\ BracketsHaveNoLetters

\* What has been inserted named each country once.
InsertedHaveKeys ==
  \A r \in SaveCalls : saves[r].pc \in Inserted => ~Repeats(saves[r].item)

\* A score is the sum of what each payment has paid.
PaidTo(calls, u, kind) ==
  [p \in PayCalls |-> IF /\ calls[p].answer = "ok" /\ u \in calls[p].payees
                         /\ calls[p].item.kind = kind
                      THEN calls[p].item.points ELSE 0]
Amount(score, kind) == IF score = Null THEN 0 ELSE score[kind]
PaidInv ==
  \A u \in accounts, kind \in Kinds :
    Total(PaidTo(pays, u, kind), PayCalls) = Amount(standings[u].cur, kind)

\* The leaderboards: what has been read stays a lower bound, and whoever was read stays
\* listed as long as the account and the subcontest exist.
Stands(league) == league \in leagues \cup {Null}

NamesOnce(list) == \A i, j \in DOMAIN list : list[i].name = list[j].name => i = j

ReadIsOutgrown(b, section) ==
  \A i \in DOMAIN boards[b][section] :
    LET e == boards[b][section][i]
    IN  e.name \in accounts =>
          /\ Stands(boards[b].league) => e.name \in Listed(boards[b].league)
          /\ e.score <= Points(e.name, section)

AddsUp(b) ==
  \A i \in DOMAIN boards[b].group, j \in DOMAIN boards[b].knockout :
    LET g == boards[b].group[i]
        k == boards[b].knockout[j]
        all == boards[b].overall
    IN  g.name = k.name =>
          \/ \E l \in DOMAIN all : all[l].name = g.name /\ all[l].score >= g.score + k.score
          \/ /\ \A l \in DOMAIN all : all[l].name # g.name
             /\ \/ g.name \notin accounts
                \/ ~Stands(boards[b].league)
                \/ boards[b].page.offset > 0
                \/ boards[b].page.limit < Cardinality(Users)

BoardReads(b) ==
  /\ boards[b].pc # "idle" => boards[b].page \in Pages
  /\ boards[b].pc \in {"idle", "group"} =>
       boards[b].group = <<>> /\ boards[b].knockout = <<>>
  /\ boards[b].pc = "knockout" => boards[b].knockout = <<>>
  /\ NamesOnce(boards[b].group) /\ NamesOnce(boards[b].knockout)
  /\ NamesOnce(boards[b].overall)
  /\ boards[b].pc # "answered" => ReadIsOutgrown(b, "group") /\ ReadIsOutgrown(b, "knockout")
  /\ boards[b].pc = "answered" => AddsUp(b)

BoardsInv == BoardTypeOK /\ \A b \in BoardCalls : BoardReads(b)

----------------------------------------------------------------------------
(***************************************************************************)
(* What a submission asks for                                              *)
(***************************************************************************)
LEMMA RowsOfType ==
  ASSUME NEW s \in Submissions, NEW row \in RowsOf(s)
  PROVE  /\ row.user = s.user /\ KindOf(row) = s.kind /\ row.letter \in LettersOf(s)
         /\ s.user \in Users /\ s.kind \in Kinds
         /\ row.country # Null => row \in PickRow
<1>1. PICK e \in Entries(s) : row = RowOf(s, e[1], e[2])
  BY DEF RowsOf
<1>2. PICK i, j : /\ i = e[1] /\ j = e[2] /\ i \in DOMAIN s.picks
                  /\ j \in DOMAIN s.picks[i].order
  BY DEF Entries
<1>3. /\ s.user \in Users /\ s.kind \in Kinds /\ s.picks[i] \in Pick
      /\ (s.picks[i].round = Null) = (s.kind = "group")
  BY <1>2, SubmissionAssumption
<1>4. /\ s.picks[i].order[j] \in Countries \cup {Null} /\ j \in Nat \ {0}
      /\ s.picks[i].letter \in Letters \cup {Null}
      /\ s.picks[i].extra \in BOOLEAN \cup {Null}
      /\ s.picks[i].round \in Int \cup {Null}
  <2>1. s.picks[i].order \in Seq(Countries \cup {Null})
    BY <1>3 DEF Pick
  <2>2. DOMAIN s.picks[i].order = 1 .. Len(s.picks[i].order)
    BY <2>1
  <2> QED
    BY <1>2, <1>3, <2>1, <2>2 DEF Pick
<1>5. row = [user |-> s.user, country |-> s.picks[i].order[j],
             letter |-> s.picks[i].letter,
             place |-> IF s.kind = "group" THEN j ELSE Null,
             extra |-> s.picks[i].extra, round |-> s.picks[i].round]
  BY <1>1, <1>2 DEF RowOf
<1>6. KindOf(row) = s.kind
  BY <1>3, <1>5 DEF KindOf, Kinds
<1>7. row.letter \in LettersOf(s)
  BY <1>2, <1>5 DEF LettersOf
<1>8. row.country # Null => row \in PickRow
  BY <1>3, <1>4, <1>5 DEF PickRow
<1> QED
  BY <1>3, <1>5, <1>6, <1>7, <1>8

\* A save that does not overlap another one replaces none of its rows.
LEMMA ApartReplacesNone ==
  ASSUME NEW s \in Submissions, NEW t \in Submissions, ~Overlap(s, t),
         NEW row, row \in RowsOf(s) \/ Replaces(s, row)
  PROVE  ~Replaces(t, row)
<1>1. /\ row.user = s.user /\ KindOf(row) = s.kind
      /\ s.kind = "group" => row.letter \in LettersOf(s)
  BY RowsOfType DEF Replaces
<1>2. s.kind \in Kinds
  BY SubmissionAssumption
<1> QED
  BY <1>1, <1>2 DEF Overlap, Replaces, Kinds

LEMMA OverlapSymmetric ==
  ASSUME NEW s, NEW t PROVE Overlap(s, t) <=> Overlap(t, s)
  BY DEF Overlap

----------------------------------------------------------------------------
(***************************************************************************)
(* The steps                                                               *)
(***************************************************************************)
StorePicks(r) ==
  /\ At(r, "insert")
  /\ LET s == saves[r].item
     IN  RowsOf(s) # {} /\ ~Refused(r) /\ Clashing(r) = {}
  /\ picks' = picks \cup {New(r, row) : row \in RowsOf(saves[r].item)}
  /\ GoTo(r, "standing")
  /\ UNCHANGED <<accounts, now, standings, pays>>

GiveUp(r) ==
  /\ SaveInFlight(r)
  /\ \E code \in Codes : RollBack(r, code) /\ (code = "ok" => RowsOf(saves[r].item) = {})

SaveStep(r) ==
  \/ BeginSave(r) \/ CheckLock(r) \/ BeginDelete(r) \/ DeletePicks(r)
  \/ StorePicks(r) \/ InsertStanding(r) \/ CommitSave(r) \/ GiveUp(r)

LEMMA Steps ==
  [Next]_boardVars =>
    \/ \E r \in SaveCalls : SaveStep(r)
    \/ \E p \in PayCalls : QueryPayees(p) \/ PayUsers(p)
    \/ \E u \in Users : DeleteUser(u)
    \/ Tick
    \/ UNCHANGED predictionVars
<1>1. ASSUME NEW r \in SaveCalls, Deadlocked(r) PROVE SaveInFlight(r)
  <2>1. \E q \in SaveCalls : q \in Awaited(r)
    BY <1>1 DEF Deadlocked, WaitsFor
  <2> QED
    BY <2>1 DEF Awaited, SaveInFlight
<1>2. ASSUME NEW r \in SaveCalls, InsertPicks(r) PROVE StorePicks(r) \/ GiveUp(r)
  <2>1. SaveInFlight(r) /\ "ok" \in Codes /\ "internal" \in Codes
    BY <1>2 DEF InsertPicks, At, SaveInFlight, Codes
  <2>2. CASE RowsOf(saves[r].item) = {} /\ RollBack(r, "ok")
    BY <2>1, <2>2 DEF GiveUp
  <2>3. CASE RollBack(r, "internal")
    BY <2>1, <2>3 DEF GiveUp
  <2> QED
    BY <1>2, <2>2, <2>3 DEF InsertPicks, StorePicks, New
<1>3. ASSUME NEW r \in SaveCalls, SaveInFlight(r), RollBack(r, "internal")
      PROVE  GiveUp(r)
  BY <1>3 DEF GiveUp, Codes
<1>4. [Next]_boardVars => PredictionNext \/ UNCHANGED predictionVars
  BY DEF Next, boardVars, predictionVars, PredictionStep, JoinLeague, DeleteLeague, BeginBoard,
         ReadBoard, ReadSection, AllAnswered
<1> QED
  BY <1>1, <1>2, <1>3, <1>4 DEF PredictionNext, SaveStep, Statement, AbortSave, DeadlockAbort

----------------------------------------------------------------------------
(***************************************************************************)
(* Types, and what a save knows                                            *)
(***************************************************************************)
LEMMA VersionType ==
  ASSUME NEW V, NEW row \in Rows!RowVersion(V, SaveCalls), NEW r \in SaveCalls,
         NEW v \in V
  PROVE  /\ Rows!Write(row, r, v) \in Rows!RowVersion(V, SaveCalls)
         /\ Rows!Read(row, r) \in V
  BY DEF Rows!Write, Rows!Read, Rows!RowVersion

LEMMA TableType ==
  ASSUME NEW table \in [Users -> Rows!RowVersion(Score \cup {Null}, SaveCalls)], NEW r
  PROVE  /\ Rows!Publish(table, r) \in [Users -> Rows!RowVersion(Score \cup {Null}, SaveCalls)]
         /\ Rows!Discard(table, r) \in [Users -> Rows!RowVersion(Score \cup {Null}, SaveCalls)]
  BY DEF Rows!Publish, Rows!Discard, Rows!RowVersion, Rows!Committed

\* A save in flight is known, and a change of it that keeps to the types is all a
\* step of it changes in saves.
LEMMA KnownSave ==
  ASSUME KnownInv, NEW r \in SaveCalls, SaveInFlight(r)
  PROVE  /\ saves[r] \in SaveCall /\ saves[r].item \in Submissions
         /\ saves[r].item.kind \in Kinds /\ User(r) \in Users
         /\ saves[r].pc \in Checked => /\ saves[r].checked \in Nat
                                       /\ InWindow(saves[r].item.kind, saves[r].checked)
BY SubmissionAssumption DEF KnownInv, TypeOK, SavesAreKnown, User

\* What a step of r may do to saves.
Knows(call) ==
  /\ call \in SaveCall
  /\ call.pc \notin {"idle", "answered"} => call.item \in Submissions
  /\ call.pc \in Checked => /\ call.checked \in Nat
                            /\ InWindow(call.item.kind, call.checked)

LEMMA AllKnow ==
  ASSUME KnownInv, NEW r \in SaveCalls, NEW call, Knows(call),
         saves' = [saves EXCEPT ![r] = call]
  PROVE  saves' \in [SaveCalls -> SaveCall] /\ SavesAreKnown'
<1>1. saves \in [SaveCalls -> SaveCall]
  BY DEF KnownInv, TypeOK
<1>2. \A q \in SaveCalls : saves'[q] = IF q = r THEN call ELSE saves[q]
  BY <1>1
<1>3. saves' \in [SaveCalls -> SaveCall]
  BY <1>1 DEF Knows
<1>4. SavesAreKnown'
  BY <1>2 DEF KnownInv, SavesAreKnown, SaveInFlight, Knows
<1> QED
  BY <1>3, <1>4

LEMMA AnswerKnows ==
  ASSUME NEW code \in Codes
  PROVE  Knows([Idle EXCEPT !.pc = "answered", !.answer = code])
BY DEF Knows, Idle, SaveCall, Checked, Codes

LEMMA AnswerKnown ==
  ASSUME KnownInv, NEW r \in SaveCalls, NEW code \in Codes, Answer(r, code)
  PROVE  saves' \in [SaveCalls -> SaveCall] /\ SavesAreKnown'
BY AllKnow, AnswerKnows DEF Answer

\* What BeginSave does to saves: `alone` says that no save in flight overlaps s.
Begins(r, s, alone) ==
  /\ alone <=> \A p \in SaveCalls : ~(SaveInFlight(p) /\ Overlap(saves[p].item, s))
  /\ DOMAIN saves' = SaveCalls /\ saves' = [q \in SaveCalls |-> saves'[q]]
  /\ saves'[r] = [saves[r] EXCEPT !.pc = "check", !.item = s, !.alone = alone]
  /\ \A q \in SaveCalls \ {r} :
       saves'[q] = IF SaveInFlight(q) /\ Overlap(saves[q].item, s)
                   THEN [saves[q] EXCEPT !.alone = FALSE] ELSE saves[q]

LEMMA BeginSaveBegins ==
  ASSUME NEW r \in SaveCalls, BeginSave(r)
  PROVE  \E s \in Submissions, alone \in BOOLEAN : Begins(r, s, alone)
<1> DEFINE others(s) == {q \in SaveCalls : SaveInFlight(q) /\ Overlap(saves[q].item, s)}
<1>1. PICK s \in Submissions :
        saves' = [q \in SaveCalls |->
          CASE q = r         -> [saves[r] EXCEPT !.pc = "check", !.item = s,
                                                 !.alone = (others(s) = {})]
            [] q \in others(s) -> [saves[q] EXCEPT !.alone = FALSE]
            [] OTHER         -> saves[q]]
  BY DEF BeginSave
<1> DEFINE O == others(s)
           alone == (O = {})
<1>2. r \notin O
  BY DEF BeginSave, At, SaveInFlight
<1>3. \A q : q \in O <=> q \in SaveCalls /\ SaveInFlight(q) /\ Overlap(saves[q].item, s)
  OBVIOUS
<1>4. saves' = [q \in SaveCalls |->
          CASE q = r   -> [saves[r] EXCEPT !.pc = "check", !.item = s, !.alone = alone]
            [] q \in O -> [saves[q] EXCEPT !.alone = FALSE]
            [] OTHER   -> saves[q]]
  BY <1>1
<1>5. alone <=> \A p \in SaveCalls : ~(SaveInFlight(p) /\ Overlap(saves[p].item, s))
  BY <1>3
<1>6. alone \in BOOLEAN
  OBVIOUS
<1> HIDE DEF O, alone
<1>7. /\ DOMAIN saves' = SaveCalls /\ saves' = [q \in SaveCalls |-> saves'[q]]
      /\ saves'[r] = [saves[r] EXCEPT !.pc = "check", !.item = s, !.alone = alone]
  <2>1. DOMAIN saves' = SaveCalls /\ saves' = [q \in SaveCalls |-> saves'[q]]
    BY <1>4
  <2>2. saves'[r] = [saves[r] EXCEPT !.pc = "check", !.item = s, !.alone = alone]
    BY <1>2, <1>4
  <2> QED
    BY <2>1, <2>2
<1>8. \A q \in SaveCalls \ {r} :
        saves'[q] = IF q \in O THEN [saves[q] EXCEPT !.alone = FALSE] ELSE saves[q]
  BY <1>2, <1>4
<1> QED
  BY <1>3, <1>5, <1>6, <1>7, <1>8 DEF Begins

LEMMA BeginSaveKnown ==
  ASSUME KnownInv, NEW r \in SaveCalls, BeginSave(r)
  PROVE  saves' \in [SaveCalls -> SaveCall] /\ SavesAreKnown'
<1>1. PICK s \in Submissions, alone \in BOOLEAN : Begins(r, s, alone)
  BY BeginSaveBegins
<1>2. \A q \in SaveCalls : saves[q] \in SaveCall
  BY DEF KnownInv, TypeOK
<1>3. \A q \in SaveCalls :
        IF q = r
        THEN /\ saves'[q] \in SaveCall /\ saves'[q].pc = "check" /\ saves'[q].item = s
        ELSE /\ saves'[q] \in SaveCall /\ saves'[q].pc = saves[q].pc
             /\ saves'[q].item = saves[q].item /\ saves'[q].checked = saves[q].checked
  <2>1. saves'[r] \in SaveCall /\ saves'[r].pc = "check" /\ saves'[r].item = s
    BY <1>1, <1>2 DEF Begins, SaveCall
  <2>2. ASSUME NEW q \in SaveCalls \ {r}
        PROVE  /\ saves'[q] \in SaveCall /\ saves'[q].pc = saves[q].pc
               /\ saves'[q].item = saves[q].item /\ saves'[q].checked = saves[q].checked
    <3>1. LET call == [saves[q] EXCEPT !.alone = FALSE]
          IN  /\ call \in SaveCall /\ call.pc = saves[q].pc
              /\ call.item = saves[q].item /\ call.checked = saves[q].checked
      BY <1>2 DEF SaveCall
    <3>2. saves'[q] = [saves[q] EXCEPT !.alone = FALSE] \/ saves'[q] = saves[q]
      BY <1>1 DEF Begins
    <3> QED
      BY <1>2, <3>1, <3>2
  <2> QED
    BY <2>1, <2>2
<1>4. saves' \in [SaveCalls -> SaveCall]
  BY <1>1, <1>3 DEF Begins
<1>5. SavesAreKnown'
  BY <1>3 DEF KnownInv, SavesAreKnown, SaveInFlight, Checked
<1> QED
  BY <1>4, <1>5

LEMMA WindowOpen ==
  ASSUME TypeOK, NEW kind \in Kinds, ~Locked(kind)
  PROVE  now \in Nat /\ InWindow(kind, now)
<1>1. now \in Nat
  BY DateAssumption DEF TypeOK
<1>2. Unlock[kind] \in Nat \cup {Null} /\ Lock[kind] \in Nat \cup {Null}
  BY DateAssumption
<1> QED
  BY <1>1, <1>2 DEF Locked, InWindow

LEMMA SaveStepKnown ==
  ASSUME KnownInv, NEW r \in SaveCalls, SaveStep(r)
  PROVE  saves' \in [SaveCalls -> SaveCall] /\ SavesAreKnown'
<1>1. saves[r] \in SaveCall /\ saves \in [SaveCalls -> SaveCall]
  BY DEF KnownInv, TypeOK
<1>2. SaveInFlight(r) => /\ saves[r].item \in Submissions /\ saves[r].item.kind \in Kinds
                         /\ saves[r].pc \in Checked =>
                              /\ saves[r].checked \in Nat
                              /\ InWindow(saves[r].item.kind, saves[r].checked)
  BY KnownSave
<1>3. CASE BeginSave(r)
  BY <1>3, BeginSaveKnown
<1>4. CASE CheckLock(r)
  <2>1. SaveInFlight(r)
    BY <1>4 DEF CheckLock, At, SaveInFlight
  <2>2. "not_found" \in Codes /\ "failed_precondition" \in Codes
    BY DEF Codes
  <2>3. CASE ~Locked(saves[r].item.kind) /\
             saves' = [saves EXCEPT ![r].pc = "delete", ![r].checked = now]
    <3>1. now \in Nat /\ InWindow(saves[r].item.kind, now)
      BY <1>2, <2>1, <2>3, WindowOpen DEF KnownInv
    <3> DEFINE call == [saves[r] EXCEPT !.pc = "delete", !.checked = now]
    <3>2. Knows(call)
      BY <1>1, <1>2, <2>1, <3>1 DEF Knows, SaveCall, Checked
    <3>3. saves' = [saves EXCEPT ![r] = call]
      BY <2>3
    <3> QED
      BY <3>2, <3>3, AllKnow
  <2> QED
    BY <1>4, <2>2, <2>3, AnswerKnown DEF CheckLock
<1>5. CASE BeginDelete(r)
  <2> DEFINE found == {[row |-> v.row, from |-> v.from] :
                         v \in {w \in picks : w.live /\ Replaces(saves[r].item, w.row)}}
             call == [saves[r] EXCEPT !.pc = "deleting", !.seen = found]
  <2>1. SaveInFlight(r) /\ saves[r].pc \in Checked
    BY <1>5 DEF BeginDelete, At, SaveInFlight, Checked
  <2>2. found \in SUBSET [row : PickRow, from : SaveCalls]
    BY DEF KnownInv, TypeOK, PickVersion
  <2>3. saves' = [saves EXCEPT ![r] = call]
    BY <1>5 DEF BeginDelete
  <2> HIDE DEF found
  <2>4. Knows(call)
    BY <1>1, <1>2, <2>1, <2>2 DEF Knows, SaveCall, Checked
  <2> QED
    BY <2>3, <2>4, AllKnow
<1>6. CASE DeletePicks(r)
  <2> DEFINE call == [saves[r] EXCEPT !.pc = "insert", !.seen = {}]
  <2>1. SaveInFlight(r) /\ saves[r].pc \in Checked
    BY <1>6 DEF DeletePicks, At, SaveInFlight, Checked
  <2>2. saves' = [saves EXCEPT ![r] = call]
    BY <1>6 DEF DeletePicks
  <2>3. Knows(call)
    BY <1>1, <1>2, <2>1 DEF Knows, SaveCall, Checked
  <2> QED
    BY <2>2, <2>3, AllKnow
<1>7. CASE StorePicks(r)
  <2> DEFINE call == [saves[r] EXCEPT !.pc = "standing"]
  <2>1. SaveInFlight(r) /\ saves[r].pc \in Checked
    BY <1>7 DEF StorePicks, At, SaveInFlight, Checked
  <2>2. saves' = [saves EXCEPT ![r] = call]
    BY <1>7 DEF StorePicks, GoTo
  <2>3. Knows(call)
    BY <1>1, <1>2, <2>1 DEF Knows, SaveCall, Checked
  <2> QED
    BY <2>2, <2>3, AllKnow
<1>8. CASE InsertStanding(r)
  <2> DEFINE call == [saves[r] EXCEPT !.pc = "commit"]
  <2>1. SaveInFlight(r) /\ saves[r].pc \in Checked
    BY <1>8 DEF InsertStanding, At, SaveInFlight, Checked
  <2>2. saves' = [saves EXCEPT ![r] = call]
    BY <1>8 DEF InsertStanding, GoTo
  <2>3. Knows(call)
    BY <1>1, <1>2, <2>1 DEF Knows, SaveCall, Checked
  <2> QED
    BY <2>2, <2>3, AllKnow
<1>9. CASE CommitSave(r)
  <2>1. "ok" \in Codes
    BY DEF Codes
  <2> QED
    BY <1>9, <2>1, AnswerKnown DEF CommitSave
<1>10. CASE GiveUp(r)
  BY <1>10, AnswerKnown DEF GiveUp, RollBack
<1> QED
  BY <1>3, <1>4, <1>5, <1>6, <1>7, <1>8, <1>9, <1>10 DEF SaveStep

LEMMA ScoreType ==
  /\ Zero \in Score /\ Zero # Null
  /\ \A score \in Score \cup {Null}, item \in Payments :
       Add(score, item) \in Score /\ Add(score, item) # Null
<1>1. Null \notin Score
  BY NullAssumption DEF Score
<1>2. Zero \in Score
  BY DEF Zero, Score
<1>3. ASSUME NEW score \in Score \cup {Null}, NEW item \in Payments
      PROVE  Add(score, item) \in Score
  <2> DEFINE old == IF score = Null THEN Zero ELSE score
  <2>1. old \in Score /\ item.kind \in Kinds /\ item.points \in Nat
    BY <1>2, <1>3, PaymentAssumption
  <2>2. Add(score, item) = [old EXCEPT ![item.kind] = @ + item.points]
    BY DEF Add
  <2> HIDE DEF old
  <2>3. CASE item.kind = "group"
    BY <2>1, <2>2, <2>3 DEF Score
  <2>4. CASE item.kind = "knockout"
    BY <2>1, <2>2, <2>4 DEF Score
  <2> QED
    BY <2>1, <2>3, <2>4 DEF Kinds
<1> QED
  BY <1>1, <1>2, <1>3

LEMMA StoreType ==
  ASSUME KnownInv, NEW r \in SaveCalls, StorePicks(r)
  PROVE  /\ saves[r].item \in Submissions /\ saves[r].item.user \in accounts
         /\ \A row \in RowsOf(saves[r].item) : row \in PickRow
<1>1. saves[r].item \in Submissions
  BY DEF KnownInv, SavesAreKnown, StorePicks, At, SaveInFlight
<1>2. \A row \in RowsOf(saves[r].item) : row.country # Null
  BY DEF StorePicks, Refused
<1> QED
  BY <1>1, <1>2, RowsOfType DEF StorePicks, Refused

LEMMA SaveStepType ==
  ASSUME KnownInv, NEW r \in SaveCalls, SaveStep(r)
  PROVE  TypeOK'
<1>1. /\ accounts \subseteq Users /\ now \in 0 .. LastInstant
      /\ picks \subseteq PickVersion
      /\ standings \in [Users -> Rows!RowVersion(Score \cup {Null}, SaveCalls)]
      /\ pays \in [PayCalls -> PayCall]
  BY DEF KnownInv, TypeOK
<1>2. saves' \in [SaveCalls -> SaveCall]
  BY SaveStepKnown
<1>3. accounts' = accounts /\ now' = now /\ pays' = pays
  BY DEF SaveStep, BeginSave, CheckLock, BeginDelete, DeletePicks, StorePicks,
         InsertStanding, CommitSave, GiveUp, RollBack
<1>4. picks' \subseteq PickVersion
  <2>1. CASE BeginSave(r) \/ CheckLock(r) \/ BeginDelete(r) \/ InsertStanding(r)
    BY <1>1, <2>1 DEF BeginSave, CheckLock, BeginDelete, InsertStanding
  <2>2. CASE DeletePicks(r)
    <3>1. picks' = {IF v \in Seen(r) THEN [v EXCEPT !.del = r] ELSE v : v \in picks}
      BY <2>2 DEF DeletePicks
    <3> QED
      BY <1>1, <3>1 DEF PickVersion
  <2>3. CASE StorePicks(r)
    <3>1. \A row \in RowsOf(saves[r].item) : New(r, row) \in PickVersion
      BY <2>3, StoreType DEF New, PickVersion
    <3> QED
      BY <1>1, <2>3, <3>1 DEF StorePicks
  <2>4. CASE CommitSave(r)
    <3>1. picks' = Published(r)
      BY <2>4 DEF CommitSave
    <3> QED
      BY <1>1, <3>1 DEF Published, PickVersion
  <2>5. CASE GiveUp(r)
    <3>1. picks' = Discarded(r)
      BY <2>5 DEF GiveUp, RollBack
    <3> QED
      BY <1>1, <3>1 DEF Discarded, PickVersion
  <2> QED
    BY <2>1, <2>2, <2>3, <2>4, <2>5 DEF SaveStep
<1>5. standings' \in [Users -> Rows!RowVersion(Score \cup {Null}, SaveCalls)]
  <2>1. CASE BeginSave(r) \/ CheckLock(r) \/ BeginDelete(r) \/ DeletePicks(r)
             \/ StorePicks(r)
    BY <1>1, <2>1 DEF BeginSave, CheckLock, BeginDelete, DeletePicks, StorePicks
  <2>2. CASE InsertStanding(r)
    <3>1. User(r) \in Users
      BY <2>2, KnownSave DEF InsertStanding, At, SaveInFlight
    <3>2. standings[User(r)] \in Rows!RowVersion(Score \cup {Null}, SaveCalls)
      BY <1>1, <3>1
    <3>3. Rows!Write(standings[User(r)], r, Zero)
            \in Rows!RowVersion(Score \cup {Null}, SaveCalls)
      BY <3>2, VersionType, ScoreType
    <3> QED
      BY <1>1, <2>2, <3>1, <3>2, <3>3 DEF InsertStanding
  <2>3. CASE CommitSave(r) \/ GiveUp(r)
    <3>1. standings' \in {Rows!Publish(standings, r), Rows!Discard(standings, r)}
      BY <2>3 DEF CommitSave, GiveUp, RollBack
    <3>2. \A table \in {Rows!Publish(standings, r), Rows!Discard(standings, r)} :
            table \in [Users -> Rows!RowVersion(Score \cup {Null}, SaveCalls)]
      BY <1>1, TableType
    <3> QED
      BY <3>1, <3>2
  <2> QED
    BY <2>1, <2>2, <2>3 DEF SaveStep
<1> QED
  BY <1>1, <1>2, <1>3, <1>4, <1>5 DEF TypeOK

LEMMA OtherStepType ==
  ASSUME TypeOK, PaymentsAreKnown,
         \/ \E p \in PayCalls : QueryPayees(p) \/ PayUsers(p)
         \/ \E u \in Users : DeleteUser(u)
         \/ Tick
         \/ UNCHANGED predictionVars
  PROVE  TypeOK' /\ PaymentsAreKnown' /\ saves' = saves
<1>1. /\ accounts \subseteq Users /\ now \in 0 .. LastInstant
      /\ picks \subseteq PickVersion
      /\ standings \in [Users -> Rows!RowVersion(Score \cup {Null}, SaveCalls)]
      /\ pays \in [PayCalls -> PayCall] /\ saves \in [SaveCalls -> SaveCall]
  BY DEF TypeOK
<1>2. ASSUME NEW p \in PayCalls, QueryPayees(p) PROVE TypeOK' /\ PaymentsAreKnown' /\ saves' = saves
  <2>1. PICK item \in Payments :
          pays' = [pays EXCEPT
            ![p].pc = "pay", ![p].item = item,
            ![p].payees = {v.row.user : v \in
                             {w \in picks : w.live /\ KindOf(w.row) = item.kind}}]
    BY <1>2 DEF QueryPayees
  <2> DEFINE payees == {v.row.user : v \in
                          {w \in picks : w.live /\ KindOf(w.row) = item.kind}}
  <2>2. payees \in SUBSET Users
    BY <1>1 DEF PickVersion, PickRow
  <2> DEFINE call == [pays[p] EXCEPT !.pc = "pay", !.item = item, !.payees = payees]
  <2>3. pays' = [pays EXCEPT ![p] = call]
    BY <2>1
  <2> HIDE DEF payees
  <2>4. call \in PayCall /\ call.item \in Payments /\ call.answer = pays[p].answer
    BY <1>1, <2>2 DEF PayCall
  <2>5. pays[p].answer # "ok"
    BY <1>2 DEF QueryPayees, PaymentsAreKnown
  <2> HIDE DEF call
  <2>6. pays' \in [PayCalls -> PayCall] /\ PaymentsAreKnown'
    BY <1>1, <2>3, <2>4, <2>5 DEF PaymentsAreKnown, PayInFlight
  <2> QED
    BY <1>1, <1>2, <2>6 DEF QueryPayees, TypeOK
<1>3. ASSUME NEW p \in PayCalls, PayUsers(p) PROVE TypeOK' /\ PaymentsAreKnown' /\ saves' = saves
  <2>1. pays' \in [PayCalls -> PayCall]
    BY <1>1, <1>3 DEF PayUsers, PayCall, Codes
  <2>3. PaymentsAreKnown'
    BY <1>1, <1>3 DEF PayUsers, PayCall, PaymentsAreKnown, PayInFlight
  <2>2. standings' \in [Users -> Rows!RowVersion(Score \cup {Null}, SaveCalls)]
    <3>1. CASE standings' = standings
      BY <1>1, <3>1
    <3>2. CASE standings' = [u \in Users |->
                 IF u \in pays[p].payees
                 THEN Rows!Committed(Add(standings[u].cur, pays[p].item))
                 ELSE standings[u]]
      <4>1. pays[p].item \in Payments
        BY <1>3 DEF PayUsers, PaymentsAreKnown
      <4>2. ASSUME NEW u \in Users
            PROVE  Rows!Committed(Add(standings[u].cur, pays[p].item))
                     \in Rows!RowVersion(Score \cup {Null}, SaveCalls)
        <5>1. standings[u].cur \in Score \cup {Null}
          BY <1>1 DEF Rows!RowVersion
        <5>2. Add(standings[u].cur, pays[p].item) \in Score
          BY <4>1, <5>1, ScoreType
        <5> QED
          BY <5>2 DEF Rows!Committed, Rows!RowVersion
      <4> QED
        BY <1>1, <3>2, <4>2
    <3> QED
      BY <1>3, <3>1, <3>2 DEF PayUsers
  <2> QED
    BY <1>1, <1>3, <2>1, <2>2, <2>3 DEF PayUsers, TypeOK
<1>4. ASSUME NEW u \in Users, DeleteUser(u) PROVE TypeOK' /\ PaymentsAreKnown' /\ saves' = saves
  <2>1. Rows!Committed(Null) \in Rows!RowVersion(Score \cup {Null}, SaveCalls)
    BY DEF Rows!Committed, Rows!RowVersion
  <2> QED
    BY <1>1, <1>4, <2>1 DEF DeleteUser, TypeOK, PaymentsAreKnown, PayInFlight
<1>5. CASE Tick
  <2>1. now' \in 0 .. LastInstant
    BY <1>1, <1>5, DateAssumption DEF Tick
  <2> QED
    BY <1>1, <1>5, <2>1 DEF Tick, TypeOK, PaymentsAreKnown, PayInFlight
<1>6. CASE UNCHANGED predictionVars
  BY <1>1, <1>6 DEF predictionVars, TypeOK, PaymentsAreKnown, PayInFlight
<1> QED
  BY <1>2, <1>3, <1>4, <1>5, <1>6

LEMMA InitKnown == BoardInit => KnownInv
<1> SUFFICES ASSUME BoardInit PROVE KnownInv
  OBVIOUS
<1>1. standings \in [Users -> Rows!RowVersion(Score \cup {Null}, SaveCalls)]
  BY DEF BoardInit, PredictionInit, Rows!RowVersion, Rows!Committed
<1>2. Idle \in SaveCall
  BY DEF Idle, SaveCall, Codes
<1>3. now \in 0 .. LastInstant
  BY DateAssumption DEF BoardInit, PredictionInit
<1>4. TypeOK
  BY <1>1, <1>2, <1>3 DEF BoardInit, PredictionInit, TypeOK, PayCall, Codes
<1>5. SavesAreKnown /\ PaymentsAreKnown
  BY DEF BoardInit, PredictionInit, SavesAreKnown, PaymentsAreKnown, SaveInFlight, PayInFlight,
         Idle, Checked
<1> QED
  BY <1>4, <1>5 DEF KnownInv

LEMMA StepKnown == KnownInv /\ [Next]_boardVars => KnownInv'
<1> SUFFICES ASSUME KnownInv, [Next]_boardVars PROVE KnownInv'
  OBVIOUS
<1>1. ASSUME NEW r \in SaveCalls, SaveStep(r) PROVE KnownInv'
  <2>1. TypeOK' /\ SavesAreKnown'
    BY <1>1, SaveStepType, SaveStepKnown
  <2>2. pays' = pays
    BY <1>1 DEF SaveStep, BeginSave, CheckLock, BeginDelete, DeletePicks, StorePicks,
           InsertStanding, CommitSave, GiveUp, RollBack
  <2> QED
    BY <2>1, <2>2 DEF KnownInv, PaymentsAreKnown, PayInFlight
<1>2. ASSUME TypeOK', PaymentsAreKnown', saves' = saves PROVE KnownInv'
  BY <1>2 DEF KnownInv, SavesAreKnown, SaveInFlight
<1> QED
  BY <1>1, <1>2, Steps, OtherStepType DEF KnownInv

LEMMA KnownInvariance == Spec => []KnownInv
BY InitKnown, StepKnown, PTL DEF Spec

\* The tables and the calls are well formed: no save stores a row that is not one,
\* whatever the submission holds, and no score leaves the numbers.
THEOREM TypeCorrect == Spec => []TypeOK
<1>1. KnownInv => TypeOK
  BY DEF KnownInv
<1> QED
  BY <1>1, KnownInvariance, PTL

----------------------------------------------------------------------------
(***************************************************************************)
(* Row versions.  The effect of each step on the table of predictions.     *)
(***************************************************************************)
\* What a step of r does to saves, besides a change of the other saves' `alone`.
Moves(r, pc) ==
  /\ saves'[r].pc = pc
  /\ \A q \in SaveCalls \ {r} :
       /\ saves'[q].pc = saves[q].pc /\ saves'[q].item = saves[q].item
       /\ saves'[q].seen = saves[q].seen
       /\ saves'[q].alone => saves[q].alone

Keeps(r) == /\ saves'[r].item = saves[r].item
            /\ saves'[r].alone => saves[r].alone

LEMMA SaveMoves ==
  ASSUME KnownInv, NEW r \in SaveCalls
  PROVE  /\ BeginSave(r) => Moves(r, "check") /\ saves[r].pc = "idle" /\ picks' = picks
         /\ CheckLock(r) => /\ Moves(r, "answered") \/ (Moves(r, "delete") /\ Keeps(r))
                            /\ saves[r].pc = "check" /\ picks' = picks
         /\ BeginDelete(r) => /\ Moves(r, "deleting") /\ Keeps(r)
                              /\ saves[r].pc = "delete" /\ picks' = picks
         /\ DeletePicks(r) => /\ Moves(r, "insert") /\ Keeps(r)
                              /\ saves[r].pc = "deleting"
         /\ StorePicks(r) => Moves(r, "standing") /\ Keeps(r) /\ saves[r].pc = "insert"
         /\ InsertStanding(r) => /\ Moves(r, "commit") /\ Keeps(r)
                                 /\ saves[r].pc = "standing" /\ picks' = picks
         /\ CommitSave(r) => Moves(r, "answered") /\ saves[r].pc = "commit"
         /\ GiveUp(r) => Moves(r, "answered") /\ SaveInFlight(r)
<1>1. saves \in [SaveCalls -> SaveCall]
  BY DEF KnownInv, TypeOK
<1>2. ASSUME BeginSave(r)
      PROVE  Moves(r, "check") /\ saves[r].pc = "idle" /\ picks' = picks
  <2>1. PICK s \in Submissions, alone \in BOOLEAN : Begins(r, s, alone)
    BY <1>2, BeginSaveBegins
  <2>2. saves'[r].pc = "check"
    BY <1>1, <2>1 DEF Begins, SaveCall
  <2>3. ASSUME NEW q \in SaveCalls \ {r}
        PROVE  /\ saves'[q].pc = saves[q].pc /\ saves'[q].item = saves[q].item
               /\ saves'[q].seen = saves[q].seen /\ (saves'[q].alone => saves[q].alone)
    <3>1. saves[q] \in SaveCall
      BY <1>1
    <3>2. saves'[q] = [saves[q] EXCEPT !.alone = FALSE] \/ saves'[q] = saves[q]
      BY <2>1 DEF Begins
    <3> QED
      BY <3>1, <3>2 DEF SaveCall
  <2> QED
    BY <1>2, <2>2, <2>3 DEF Moves, BeginSave, At
<1>3. ASSUME NEW code, Answer(r, code) PROVE Moves(r, "answered")
  BY <1>1, <1>3 DEF Answer, Moves, Idle
<1>4. CheckLock(r) => /\ Moves(r, "answered") \/ (Moves(r, "delete") /\ Keeps(r))
                      /\ saves[r].pc = "check" /\ picks' = picks
  <2>1. ASSUME saves' = [saves EXCEPT ![r].pc = "delete", ![r].checked = now]
        PROVE  Moves(r, "delete") /\ Keeps(r)
    BY <1>1, <2>1 DEF Moves, Keeps, SaveCall
  <2> QED
    BY <1>3, <2>1 DEF CheckLock, At
<1>5. BeginDelete(r) => /\ Moves(r, "deleting") /\ Keeps(r)
                        /\ saves[r].pc = "delete" /\ picks' = picks
  BY <1>1 DEF BeginDelete, At, Moves, Keeps, SaveCall
<1>6. DeletePicks(r) => Moves(r, "insert") /\ Keeps(r) /\ saves[r].pc = "deleting"
  BY <1>1 DEF DeletePicks, At, Moves, Keeps, SaveCall
<1>7. StorePicks(r) => Moves(r, "standing") /\ Keeps(r) /\ saves[r].pc = "insert"
  BY <1>1 DEF StorePicks, GoTo, At, Moves, Keeps, SaveCall
<1>8. InsertStanding(r) => /\ Moves(r, "commit") /\ Keeps(r)
                           /\ saves[r].pc = "standing" /\ picks' = picks
  BY <1>1 DEF InsertStanding, GoTo, At, Moves, Keeps, SaveCall
<1> QED
  BY <1>2, <1>3, <1>4, <1>5, <1>6, <1>7, <1>8 DEF CommitSave, GiveUp, RollBack, At

LEMMA VersionTypes ==
  ASSUME TypeOK
  PROVE  /\ \A v \in picks : /\ v.row \in PickRow /\ v.from \in SaveCalls
                             /\ v.live \in BOOLEAN /\ v.del \in SaveCalls \cup {Null}
                             /\ v = [row |-> v.row, from |-> v.from, live |-> v.live,
                                     del |-> v.del]
         /\ \A r \in SaveCalls : \A e \in saves[r].seen : e.from \in SaveCalls
         /\ \A r \in SaveCalls : r # Null
BY NullAssumption DEF TypeOK, PickVersion, SaveCall

\* No step of r changes a version whose writer is answered, and while r is not
\* answered none of the rows it finds is its own.
LEMMA OwnVersions ==
  ASSUME KnownInv, VersionsInv, NEW r \in SaveCalls, saves[r].pc # "answered"
  PROVE  /\ \A v \in picks : v.live => v.from # r
         /\ \A v \in picks : v.from = r => saves[r].pc \in Inserted
         /\ \A v \in picks : v.del = r => saves[r].pc \in Deleted
         /\ \A q \in SaveCalls : saves[q].pc = "deleting" =>
              \A e \in saves[q].seen : e.from # r
BY VersionTypes DEF KnownInv, VersionsInv, WritersAreInserting, DeletersAreReplacing,
   SeenAreReplaced

\* Before its DELETE a save has touched nothing.
LEMMA EarlyVersions ==
  ASSUME KnownInv, VersionsInv, NEW r \in SaveCalls,
         saves[r].pc \in {"idle", "check"}, picks' = picks,
         NEW pc \in {"check", "delete", "answered"}, Moves(r, pc)
  PROVE  VersionsInv'
<1>1. /\ \A v \in picks : v.from # r /\ v.del # r
      /\ \A q \in SaveCalls : saves[q].pc = "deleting" => \A e \in saves[q].seen : e.from # r
  BY OwnVersions DEF Inserted, Deleted
<1>2. /\ \A v \in picks : v.from \in SaveCalls \ {r} /\ v.del \in (SaveCalls \ {r}) \cup {Null}
      /\ \A q \in SaveCalls : saves[q].pc = "deleting" =>
           \A e \in saves[q].seen : e.from \in SaveCalls \ {r}
  BY <1>1, VersionTypes DEF KnownInv
<1>3. WritersAreInserting'
  BY <1>2 DEF VersionsInv, WritersAreInserting, Moves, Inserted
<1>4. DeletersAreReplacing'
  BY <1>2 DEF VersionsInv, DeletersAreReplacing, Moves, Deleted
<1>5. SeenAreReplaced'
  BY <1>2 DEF VersionsInv, SeenAreReplaced, Moves
<1>6. RowsAreWritten'
  BY DEF VersionsInv, RowsAreWritten, Moves, Inserted
<1> QED
  BY <1>3, <1>4, <1>5, <1>6 DEF VersionsInv

LEMMA BeginDeleteVersions ==
  ASSUME KnownInv, VersionsInv, NEW r \in SaveCalls, BeginDelete(r)
  PROVE  VersionsInv'
<1>1. Moves(r, "deleting") /\ Keeps(r) /\ saves[r].pc = "delete" /\ picks' = picks
  BY SaveMoves
<1>2. /\ \A v \in picks : v.from \in SaveCalls \ {r} /\ v.del \in (SaveCalls \ {r}) \cup {Null}
      /\ \A q \in SaveCalls : saves[q].pc = "deleting" =>
           \A e \in saves[q].seen : e.from \in SaveCalls \ {r}
  BY <1>1, OwnVersions, VersionTypes DEF KnownInv, Inserted, Deleted
<1>3. saves'[r].seen = {[row |-> v.row, from |-> v.from] :
                          v \in {w \in picks : w.live /\ Replaces(saves[r].item, w.row)}}
  BY DEF BeginDelete, KnownInv, TypeOK, SaveCall
<1>4. \A e \in saves'[r].seen : /\ e.from \in SaveCalls \ {r}
                                /\ saves[e.from].pc = "answered"
                                /\ Replaces(saves[r].item, e.row)
  BY <1>2, <1>3 DEF VersionsInv, WritersAreInserting
<1>5. WritersAreInserting'
  BY <1>1, <1>2 DEF VersionsInv, WritersAreInserting, Moves
<1>6. DeletersAreReplacing'
  BY <1>1, <1>2 DEF VersionsInv, DeletersAreReplacing, Moves
<1>7. SeenAreReplaced'
  BY <1>1, <1>2, <1>4 DEF VersionsInv, SeenAreReplaced, Moves, Keeps
<1>8. RowsAreWritten'
  BY <1>1 DEF VersionsInv, RowsAreWritten, Moves, Inserted
<1> QED
  BY <1>5, <1>6, <1>7, <1>8 DEF VersionsInv

LEMMA DeletePicksVersions ==
  ASSUME KnownInv, VersionsInv, NEW r \in SaveCalls, DeletePicks(r)
  PROVE  VersionsInv'
<1>1. Moves(r, "insert") /\ Keeps(r) /\ saves[r].pc = "deleting"
  BY SaveMoves
<1>2. /\ \A v \in picks : v.from \in SaveCalls \ {r} /\ v.del \in (SaveCalls \ {r}) \cup {Null}
      /\ \A q \in SaveCalls : saves[q].pc = "deleting" =>
           \A e \in saves[q].seen : e.from \in SaveCalls \ {r}
  BY <1>1, OwnVersions, VersionTypes DEF KnownInv, Inserted, Deleted
<1>3. \A v \in Seen(r) : v \in picks /\ v.live /\ Replaces(saves[r].item, v.row)
  <2> SUFFICES ASSUME NEW v \in Seen(r)
               PROVE  v \in picks /\ v.live /\ Replaces(saves[r].item, v.row)
    OBVIOUS
  <2> DEFINE e == [row |-> v.row, from |-> v.from]
  <2>1. v \in picks /\ e \in saves[r].seen
    BY DEF Seen
  <2>2. saves[e.from].pc = "answered" /\ Replaces(saves[r].item, e.row)
    BY <1>1, <2>1 DEF VersionsInv, SeenAreReplaced
  <2>3. v.live
    BY <2>1, <2>2 DEF VersionsInv, WritersAreInserting, Inserted
  <2> QED
    BY <2>1, <2>2, <2>3
<1>4. picks' = {IF v \in Seen(r) THEN [v EXCEPT !.del = r] ELSE v : v \in picks}
  BY DEF DeletePicks
<1>5. \A w \in picks' : \E v \in picks :
        /\ w.row = v.row /\ w.from = v.from /\ w.live = v.live
        /\ IF v \in Seen(r) THEN w.del = r ELSE w = v
  <2>1. \A v \in picks : LET w == [v EXCEPT !.del = r]
                         IN  /\ w.row = v.row /\ w.from = v.from /\ w.live = v.live
                             /\ w.del = r
    BY DEF KnownInv, TypeOK, PickVersion
  <2> QED
    BY <1>4, <2>1
<1>6. WritersAreInserting'
  BY <1>1, <1>2, <1>3, <1>5 DEF VersionsInv, WritersAreInserting, Moves
<1>7. DeletersAreReplacing'
  BY <1>1, <1>2, <1>3, <1>5 DEF VersionsInv, DeletersAreReplacing, Moves, Keeps, Deleted
<1>8. SeenAreReplaced'
  BY <1>1, <1>2 DEF VersionsInv, SeenAreReplaced, Moves
<1>9. RowsAreWritten'
  <2>1. \A q \in SaveCalls : \A row : New(q, row) \in picks => New(q, row) \in picks'
    <3>1. \A q \in SaveCalls : \A row : New(q, row) \notin Seen(r)
      BY <1>3 DEF New
    <3> QED
      BY <1>4, <3>1
  <2> QED
    BY <1>1, <2>1 DEF VersionsInv, RowsAreWritten, Moves, Inserted
<1> QED
  BY <1>6, <1>7, <1>8, <1>9 DEF VersionsInv

LEMMA StorePicksVersions ==
  ASSUME KnownInv, VersionsInv, NEW r \in SaveCalls, StorePicks(r)
  PROVE  VersionsInv'
<1>1. Moves(r, "standing") /\ Keeps(r) /\ saves[r].pc = "insert"
  BY SaveMoves
<1>2. /\ \A v \in picks : v.from \in SaveCalls \ {r} /\ v.del \in SaveCalls \cup {Null}
      /\ \A q \in SaveCalls : saves[q].pc = "deleting" =>
           \A e \in saves[q].seen : e.from \in SaveCalls \ {r}
  BY <1>1, OwnVersions, VersionTypes DEF KnownInv, Inserted
<1>3. picks' = picks \cup {New(r, row) : row \in RowsOf(saves[r].item)}
  BY DEF StorePicks
<1>4. WritersAreInserting'
  BY <1>1, <1>2, <1>3 DEF VersionsInv, WritersAreInserting, Moves, Keeps, Inserted, New
<1>5. DeletersAreReplacing'
  BY <1>1, <1>2, <1>3 DEF VersionsInv, DeletersAreReplacing, Moves, Keeps, Deleted, New
<1>6. SeenAreReplaced'
  BY <1>1, <1>2 DEF VersionsInv, SeenAreReplaced, Moves
<1>7. RowsAreWritten'
  BY <1>1, <1>3 DEF VersionsInv, RowsAreWritten, Moves, Keeps, Inserted, StorePicks
<1> QED
  BY <1>4, <1>5, <1>6, <1>7 DEF VersionsInv

LEMMA InsertStandingVersions ==
  ASSUME KnownInv, VersionsInv, NEW r \in SaveCalls, InsertStanding(r)
  PROVE  VersionsInv'
<1>1. Moves(r, "commit") /\ Keeps(r) /\ saves[r].pc = "standing" /\ picks' = picks
  BY SaveMoves
<1>2. /\ \A v \in picks : v.from \in SaveCalls /\ v.del \in SaveCalls \cup {Null}
      /\ \A q \in SaveCalls : saves[q].pc = "deleting" =>
           \A e \in saves[q].seen : e.from \in SaveCalls \ {r}
  BY <1>1, OwnVersions, VersionTypes DEF KnownInv
<1>3. WritersAreInserting'
  BY <1>1, <1>2 DEF VersionsInv, WritersAreInserting, Moves, Keeps, Inserted
<1>4. DeletersAreReplacing'
  BY <1>1, <1>2 DEF VersionsInv, DeletersAreReplacing, Moves, Keeps, Deleted
<1>5. SeenAreReplaced'
  BY <1>1, <1>2 DEF VersionsInv, SeenAreReplaced, Moves
<1>6. RowsAreWritten'
  BY <1>1 DEF VersionsInv, RowsAreWritten, Moves, Keeps, Inserted
<1> QED
  BY <1>3, <1>4, <1>5, <1>6 DEF VersionsInv

\* The end of a save: its deletions and insertions become final or are undone.
LEMMA EndVersions ==
  ASSUME KnownInv, VersionsInv, NEW r \in SaveCalls, saves[r].pc # "answered",
         Moves(r, "answered"), picks' = Published(r) \/ picks' = Discarded(r)
  PROVE  VersionsInv'
<1>1. /\ \A v \in picks : /\ v.from \in SaveCalls /\ v.del \in SaveCalls \cup {Null}
                          /\ v.live => v.from # r
      /\ \A q \in SaveCalls : saves[q].pc = "deleting" =>
           \A e \in saves[q].seen : e.from \in SaveCalls \ {r}
  BY OwnVersions, VersionTypes DEF KnownInv
<1>2. \A w \in picks' : \E v \in picks :
        /\ w.row = v.row /\ w.from = v.from /\ w.del # r
        /\ (w.live <=> v.live \/ v.from = r) /\ (w.del = v.del \/ w.del = Null)
  <2>1. CASE picks' = Published(r)
    <3>1. \A v \in picks : LET w == [v EXCEPT !.live = TRUE]
                           IN  w.row = v.row /\ w.from = v.from /\ w.del = v.del /\ w.live
      BY DEF KnownInv, TypeOK, PickVersion
    <3>2. ASSUME NEW w \in picks'
          PROVE  \E v \in picks :
                   v.del # r /\ w = IF v.from = r THEN [v EXCEPT !.live = TRUE] ELSE v
      BY <2>1 DEF Published
    <3>3. ASSUME NEW w, NEW v \in picks, v.del # r,
                 w = IF v.from = r THEN [v EXCEPT !.live = TRUE] ELSE v
          PROVE  /\ w.row = v.row /\ w.from = v.from /\ w.del # r
                 /\ (w.live <=> v.live \/ v.from = r) /\ w.del = v.del
      BY <1>1, <3>1, <3>3
    <3> QED
      BY <3>2, <3>3
  <2>2. CASE picks' = Discarded(r)
    <3>1. \A v \in picks : LET w == [v EXCEPT !.del = Null]
                           IN  /\ w.row = v.row /\ w.from = v.from /\ w.del = Null
                               /\ (w.live <=> v.live)
      BY DEF KnownInv, TypeOK, PickVersion
    <3>2. r # Null /\ \A v \in picks : v.live \in BOOLEAN
      BY VersionTypes DEF KnownInv
    <3>3. ASSUME NEW w \in picks'
          PROVE  \E v \in picks :
                   /\ v.live \/ v.from # r
                   /\ w = IF v.del = r THEN [v EXCEPT !.del = Null] ELSE v
      BY <2>2 DEF Discarded
    <3>4. ASSUME NEW w, NEW v \in picks, v.live \/ v.from # r,
                 w = IF v.del = r THEN [v EXCEPT !.del = Null] ELSE v
          PROVE  /\ w.row = v.row /\ w.from = v.from /\ w.del # r
                 /\ (w.live <=> v.live \/ v.from = r) /\ (w.del = v.del \/ w.del = Null)
      BY <1>1, <3>1, <3>2, <3>4
    <3> QED
      BY <3>3, <3>4
  <2> QED
    BY <2>1, <2>2
<1>3. WritersAreInserting'
  BY <1>1, <1>2 DEF VersionsInv, WritersAreInserting, Moves
<1>4. DeletersAreReplacing'
  BY <1>1, <1>2 DEF VersionsInv, DeletersAreReplacing, Moves
<1>5. SeenAreReplaced'
  BY <1>1 DEF VersionsInv, SeenAreReplaced, Moves
<1>6. RowsAreWritten'
  <2>1. \A q \in SaveCalls \ {r} : \A row : New(q, row) \in picks => New(q, row) \in picks'
    <3>1. r # Null
      BY VersionTypes DEF KnownInv
    <3> QED
      BY <3>1 DEF New, Published, Discarded
  <2> QED
    BY <2>1 DEF VersionsInv, RowsAreWritten, Moves, Inserted
<1> QED
  BY <1>3, <1>4, <1>5, <1>6 DEF VersionsInv

LEMMA SaveStepVersions ==
  ASSUME KnownInv, VersionsInv, NEW r \in SaveCalls, SaveStep(r)
  PROVE  VersionsInv'
<1>1. CASE BeginSave(r)
  BY <1>1, SaveMoves, EarlyVersions
<1>2. CASE CheckLock(r)
  BY <1>2, SaveMoves, EarlyVersions
<1>3. CASE CommitSave(r)
  BY <1>3, SaveMoves, EndVersions DEF CommitSave
<1>4. CASE GiveUp(r)
  BY <1>4, SaveMoves, EndVersions DEF GiveUp, RollBack, SaveInFlight
<1> QED
  BY <1>1, <1>2, <1>3, <1>4, BeginDeleteVersions, DeletePicksVersions, StorePicksVersions,
     InsertStandingVersions DEF SaveStep

LEMMA DeleteUserVersions ==
  ASSUME KnownInv, VersionsInv, NEW u \in Users, DeleteUser(u)
  PROVE  VersionsInv' /\ \A r \in SaveCalls : saves[r].pc \in Inserted => User(r) # u
<1>1. saves' = saves /\ picks' = {v \in picks : v.row.user # u}
  BY DEF DeleteUser
<1>2. ASSUME NEW r \in SaveCalls, saves[r].pc \in Inserted
      PROVE  User(r) # u /\ \A row \in RowsOf(saves[r].item) : New(r, row) \in picks'
  <2>1. /\ RowsOf(saves[r].item) # {} /\ saves[r].item \in Submissions
        /\ \A row \in RowsOf(saves[r].item) : New(r, row) \in picks
    BY <1>2 DEF KnownInv, SavesAreKnown, VersionsInv, RowsAreWritten, SaveInFlight, Inserted
  <2>2. \A row \in RowsOf(saves[r].item) : row.user = User(r)
    BY <2>1, RowsOfType DEF User
  <2>3. \A row \in RowsOf(saves[r].item) : row.user # u
    BY <2>1 DEF DeleteUser, New
  <2> QED
    BY <1>1, <2>1, <2>2, <2>3 DEF New
<1>3. WritersAreInserting' /\ DeletersAreReplacing'
  BY <1>1 DEF VersionsInv, WritersAreInserting, DeletersAreReplacing
<1>4. SeenAreReplaced' /\ RowsAreWritten'
  BY <1>1, <1>2 DEF VersionsInv, SeenAreReplaced, RowsAreWritten
<1> QED
  BY <1>2, <1>3, <1>4 DEF VersionsInv

LEMMA SameVersions ==
  ASSUME VersionsInv, picks' = picks, saves' = saves
  PROVE  VersionsInv'
BY DEF VersionsInv, WritersAreInserting, DeletersAreReplacing, SeenAreReplaced,
   RowsAreWritten

----------------------------------------------------------------------------
(***************************************************************************)
(* The standings of those who have predictions                             *)
(***************************************************************************)
LEMMA StandingTypes ==
  ASSUME TypeOK, NEW u \in Users
  PROVE  /\ standings[u].by \in SaveCalls \cup {Null}
         /\ standings[u].cur \in Score \cup {Null}
         /\ standings[u].new \in Score \cup {Null}
         /\ standings[u] = [cur |-> standings[u].cur, new |-> standings[u].new,
                            by |-> standings[u].by]
BY DEF TypeOK, Rows!RowVersion

\* The end of a save publishes or discards the standing it has made, if any.
LEMMA EndStandings ==
  ASSUME KnownInv, StandingsAreHeld, NEW r \in SaveCalls, NEW u \in Users,
         standings' = Rows!Publish(standings, r) \/ standings' = Rows!Discard(standings, r)
  PROVE  /\ standings[u].by # r => standings'[u] = standings[u]
         /\ standings[u].by = r => /\ standings[u].cur = Null /\ standings'[u].by = Null
                                   /\ standings' = Rows!Publish(standings, r)
                                        => standings'[u].cur = Zero
                                   /\ standings' = Rows!Discard(standings, r)
                                        => standings'[u].cur = Null
<1>1. DOMAIN standings = Users
  BY DEF KnownInv, TypeOK
<1>2. r # Null
  BY VersionTypes DEF KnownInv
<1>3. standings[u].by = r => standings[u].cur = Null /\ standings[u].new = Zero
  BY <1>2 DEF StandingsAreHeld
<1> QED
  BY <1>1, <1>3 DEF Rows!Publish, Rows!Discard, Rows!Committed

LEMMA InsertStandingWrites ==
  ASSUME KnownInv, StandingsAreHeld, NEW r \in SaveCalls, InsertStanding(r)
  PROVE  /\ User(r) \in Users
         /\ \A u \in Users \ {User(r)} : standings'[u] = standings[u]
         /\ standings[User(r)].by = Null
         /\ IF standings[User(r)].cur = Null
            THEN standings'[User(r)] = [cur |-> Null, new |-> Zero, by |-> r]
            ELSE standings'[User(r)] = standings[User(r)]
<1>1. User(r) \in Users /\ saves[r].pc = "standing"
  BY KnownSave DEF InsertStanding, At, SaveInFlight
<1>2. standings[User(r)].by # r
  <2>1. r # Null
    BY VersionTypes DEF KnownInv
  <2> QED
    BY <1>1, <2>1 DEF StandingsAreHeld
<1>3. standings[User(r)].by = Null
  BY <1>1, <1>2 DEF InsertStanding, Free, Awaited
<1>4. standings' = [standings EXCEPT
       ![User(r)] = IF Rows!Read(@, r) = Null THEN Rows!Write(@, r, Zero) ELSE @]
  BY DEF InsertStanding
<1>5. DOMAIN standings = Users
  BY DEF KnownInv, TypeOK
<1>6. Rows!Read(standings[User(r)], r) = standings[User(r)].cur
  BY <1>2 DEF Rows!Read
<1> QED
  BY <1>1, <1>3, <1>4, <1>5, <1>6 DEF Rows!Write

LEMMA SaveStepStandings ==
  ASSUME KnownInv, VersionsInv, StandingsInv, NEW r \in SaveCalls, SaveStep(r)
  PROVE  StandingsInv'
<1>1. /\ \A u \in Users : standings[u].by \in SaveCalls \cup {Null}
      /\ r # Null /\ accounts \subseteq Users /\ Zero # Null
  BY StandingTypes, VersionTypes, ScoreType DEF KnownInv, TypeOK
<1>2. \A u \in Users : standings[u].by = r => saves[r].pc = "commit"
  BY <1>1 DEF StandingsInv, StandingsAreHeld
\* Steps before the standing, and what they add to picks.
<1>3. ASSUME NEW pc, Moves(r, pc), saves[r].pc # "commit", pc # "commit",
             standings' = standings, accounts' = accounts,
             \A w \in picks' : /\ w.row.user \in accounts
                               /\ w.live => standings[w.row.user].cur # Null
      PROVE  StandingsInv'
  <2>1. StandingsAreHeld'
    BY <1>1, <1>2, <1>3 DEF StandingsInv, StandingsAreHeld, Moves, User
  <2>2. PickersAreEntered'
    BY <1>1, <1>3 DEF StandingsInv, PickersAreEntered, Moves, User
  <2> QED
    BY <2>1, <2>2 DEF StandingsInv
<1>4. \A w \in picks : /\ w.row.user \in accounts
                       /\ w.live => standings[w.row.user].cur # Null
  BY DEF StandingsInv, PickersAreEntered
<1>5. CASE BeginSave(r)
  BY <1>3, <1>4, <1>5, SaveMoves DEF BeginSave
<1>6. CASE CheckLock(r)
  BY <1>3, <1>4, <1>6, SaveMoves DEF CheckLock
<1>7. CASE BeginDelete(r)
  BY <1>3, <1>4, <1>7, SaveMoves DEF BeginDelete
<1>8. CASE DeletePicks(r)
  <2>1. \A v \in picks : LET w == [v EXCEPT !.del = r] IN w.row = v.row /\ w.live = v.live
    BY DEF KnownInv, TypeOK, PickVersion
  <2>2. \A w \in picks' : \E v \in picks : w.row = v.row /\ w.live = v.live
    BY <1>8, <2>1 DEF DeletePicks
  <2>3. Moves(r, "insert") /\ saves[r].pc = "deleting"
    BY <1>8, SaveMoves
  <2>4. standings' = standings /\ accounts' = accounts
    BY <1>8 DEF DeletePicks
  <2>5. \A w \in picks' : /\ w.row.user \in accounts
                          /\ w.live => standings[w.row.user].cur # Null
    BY <1>4, <2>2
  <2> QED
    BY <1>3, <2>3, <2>4, <2>5
<1>9. CASE StorePicks(r)
  <2>1. saves[r].item \in Submissions /\ saves[r].item.user \in accounts
    BY <1>9, StoreType
  <2>2. \A row \in RowsOf(saves[r].item) : row.user \in accounts
    BY <2>1, RowsOfType
  <2>3. \A w \in picks' : /\ w.row.user \in accounts
                          /\ w.live => standings[w.row.user].cur # Null
    BY <1>4, <1>9, <2>2 DEF StorePicks, New
  <2> QED
    BY <1>3, <1>9, <2>3, SaveMoves DEF StorePicks
<1>10. CASE InsertStanding(r)
  <2>1. Moves(r, "commit") /\ Keeps(r) /\ saves[r].pc = "standing" /\ picks' = picks
    BY <1>10, SaveMoves
  <2>2. /\ User(r) \in Users
        /\ \A u \in Users \ {User(r)} : standings'[u] = standings[u]
        /\ standings[User(r)].by = Null
        /\ IF standings[User(r)].cur = Null
           THEN standings'[User(r)] = [cur |-> Null, new |-> Zero, by |-> r]
           ELSE standings'[User(r)] = standings[User(r)]
    BY <1>10, InsertStandingWrites DEF StandingsInv
  <2>3. accounts' = accounts /\ \A q \in SaveCalls : User(q)' = User(q)
    BY <1>10, <2>1 DEF InsertStanding, Moves, Keeps, User
  <2>4. StandingsAreHeld'
    <3> SUFFICES ASSUME NEW u \in Users, standings'[u].by # Null
                 PROVE  /\ saves'[standings'[u].by].pc = "commit"
                        /\ saves'[standings'[u].by].item.user = u
                        /\ standings'[u].cur = Null /\ standings'[u].new = Zero
      BY DEF StandingsAreHeld, User
    <3>1. CASE standings'[u] = standings[u]
      BY <1>1, <1>2, <2>1, <3>1 DEF StandingsInv, StandingsAreHeld, Moves, User
    <3>2. CASE standings'[u] # standings[u]
      BY <2>1, <2>2, <3>2 DEF Moves, Keeps, User
    <3> QED
      BY <3>1, <3>2
  <2>5. PickersAreEntered'
    <3>1. \A u \in Users : /\ standings[u].cur # Null => standings'[u] = standings[u]
                           /\ \A q \in SaveCalls \ {r} :
                                standings[u].by = q => standings'[u] = standings[u]
      BY <1>1, <2>2, VersionTypes DEF KnownInv
    <3>2. \A w \in picks' : /\ w.row.user \in accounts'
                            /\ w.live => standings'[w.row.user].cur # Null
      BY <1>1, <1>4, <2>1, <2>3, <3>1
    <3>3. ASSUME NEW q \in SaveCalls, saves'[q].pc = "commit"
          PROVE  standings'[User(q)].cur # Null \/ standings'[User(q)].by = q
      <4>1. CASE q = r
        BY <2>2, <4>1
      <4>2. CASE q # r
        <5>1. saves[q].pc = "commit" /\ User(q) \in Users
          BY <2>1, <3>3, <4>2, KnownSave DEF Moves, SaveInFlight
        <5> QED
          BY <3>1, <4>2, <5>1 DEF StandingsInv, PickersAreEntered
      <4> QED
        BY <4>1, <4>2
    <3> QED
      BY <2>3, <3>2, <3>3 DEF PickersAreEntered
  <2> QED
    BY <2>4, <2>5 DEF StandingsInv
\* The end of the save.
<1>11. ASSUME Moves(r, "answered"), accounts' = accounts,
              \/ standings' = Rows!Publish(standings, r)
              \/ standings' = Rows!Discard(standings, r),
              \A w \in picks' : /\ w.row.user \in accounts
                                /\ w.live => standings'[w.row.user].cur # Null
       PROVE  StandingsInv'
  <2>1. \A u \in Users : standings[u].by # r => standings'[u] = standings[u]
    BY <1>11, EndStandings DEF StandingsInv
  <2>2. \A u \in Users : standings[u].by = r => standings'[u].by = Null
    BY <1>11, EndStandings DEF StandingsInv
  <2>3. \A q \in SaveCalls \ {r} : saves'[q].pc = saves[q].pc /\ User(q)' = User(q)
    BY <1>11 DEF Moves, User
  <2>4. StandingsAreHeld'
    <3> SUFFICES ASSUME NEW u \in Users, standings'[u].by # Null
                 PROVE  /\ saves'[standings'[u].by].pc = "commit"
                        /\ saves'[standings'[u].by].item.user = u
                        /\ standings'[u].cur = Null /\ standings'[u].new = Zero
      BY DEF StandingsAreHeld, User
    <3>1. standings'[u] = standings[u] /\ standings[u].by \in SaveCalls \ {r}
      BY <1>1, <2>1, <2>2
    <3> QED
      BY <2>3, <3>1 DEF StandingsInv, StandingsAreHeld, User
  <2>5. ASSUME NEW q \in SaveCalls, saves'[q].pc = "commit"
        PROVE  LET u == saves'[q].item.user
               IN  standings'[u].cur # Null \/ standings'[u].by = q
    <3>1. q # r
      BY <1>11, <2>5 DEF Moves
    <3>2. saves[q].pc = "commit" /\ User(q) \in Users /\ saves'[q].item.user = User(q)
      BY <2>3, <2>5, <3>1, KnownSave DEF SaveInFlight, User
    <3>3. standings[User(q)].cur # Null \/ standings[User(q)].by = q
      BY <3>2 DEF StandingsInv, PickersAreEntered
    <3>4. standings[User(q)].by = r => standings[User(q)].cur = Null
      BY <1>1, <3>2 DEF StandingsInv, StandingsAreHeld
    <3> QED
      BY <2>1, <3>1, <3>2, <3>3, <3>4
  <2> QED
    BY <1>11, <2>4, <2>5 DEF StandingsInv, PickersAreEntered, User
<1>12. CASE CommitSave(r)
  <2>1. /\ Moves(r, "answered") /\ saves[r].pc = "commit" /\ accounts' = accounts
        /\ standings' = Rows!Publish(standings, r) /\ picks' = Published(r)
    BY <1>12, SaveMoves DEF CommitSave
  <2>2. \A u \in Users : /\ standings[u].cur # Null => standings'[u].cur # Null
                         /\ standings[u].by = r => standings'[u].cur # Null
    BY <1>1, <2>1, EndStandings DEF StandingsInv
  <2>3. saves[r].item \in Submissions
    BY <2>1, KnownSave DEF SaveInFlight
  <2>4. ASSUME NEW v \in picks
        PROVE  /\ v.row.user \in accounts
               /\ v.live \/ v.from = r => standings'[v.row.user].cur # Null
    <3>1. v.row.user \in accounts /\ v.row.user \in Users
      BY <1>1, <1>4
    <3>2. CASE v.live
      BY <1>4, <2>2, <3>1, <3>2
    <3>3. CASE ~v.live /\ v.from = r
      <4>1. v.row \in RowsOf(saves[r].item)
        BY <3>3 DEF VersionsInv, WritersAreInserting
      <4>2. v.row.user = User(r)
        BY <2>3, <4>1, RowsOfType DEF User
      <4> QED
        BY <2>1, <2>2, <3>1, <4>2 DEF StandingsInv, PickersAreEntered
    <3> QED
      BY <3>1, <3>2, <3>3
  <2>5. \A w \in picks' : \E v \in picks : w.row = v.row /\ (w.live => v.live \/ v.from = r)
    <3>1. \A v \in picks : [v EXCEPT !.live = TRUE].row = v.row
      BY DEF KnownInv, TypeOK, PickVersion
    <3> QED
      BY <2>1, <3>1 DEF Published
  <2> QED
    BY <1>11, <2>1, <2>4, <2>5
<1>13. CASE GiveUp(r)
  <2>1. /\ Moves(r, "answered") /\ accounts' = accounts
        /\ standings' = Rows!Discard(standings, r) /\ picks' = Discarded(r)
    BY <1>13, SaveMoves DEF GiveUp, RollBack
  <2>2. \A u \in Users : standings[u].cur # Null => standings'[u].cur # Null
    BY <1>1, <2>1, EndStandings DEF StandingsInv
  <2>3. \A w \in picks' : \E v \in picks : w.row = v.row /\ w.live = v.live
    <3>1. \A v \in picks : LET w == [v EXCEPT !.del = Null]
                           IN  w.row = v.row /\ w.live = v.live
      BY DEF KnownInv, TypeOK, PickVersion
    <3> QED
      BY <2>1, <3>1 DEF Discarded
  <2> QED
    BY <1>1, <1>4, <1>11, <2>1, <2>2, <2>3
<1> QED
  BY <1>5, <1>6, <1>7, <1>8, <1>9, <1>10, <1>12, <1>13 DEF SaveStep

LEMMA PayUsersStandings ==
  ASSUME KnownInv, NEW p \in PayCalls, PayUsers(p)
  PROVE  \/ /\ pays[p].payees \subseteq accounts
            /\ pays' = [pays EXCEPT ![p].pc = "answered", ![p].answer = "ok"]
            /\ pays[p].item \in Payments
            /\ \A u \in Users :
                 IF u \in pays[p].payees
                 THEN /\ standings[u].by = Null /\ standings'[u].by = Null
                      /\ standings'[u].cur = Add(standings[u].cur, pays[p].item)
                      /\ standings'[u].cur # Null
                 ELSE standings'[u] = standings[u]
         \/ /\ pays' = [pays EXCEPT ![p].pc = "answered", ![p].answer = "internal"]
            /\ standings' = standings
<1>1. CASE ~(pays[p].payees \subseteq accounts)
  BY <1>1 DEF PayUsers
<1>2. CASE pays[p].payees \subseteq accounts
  <2>1. pays[p].item \in Payments
    BY DEF PayUsers, KnownInv, PaymentsAreKnown
  <2>2. standings' = [u \in Users |->
                   IF u \in pays[p].payees
                   THEN Rows!Committed(Add(standings[u].cur, pays[p].item))
                   ELSE standings[u]]
        /\ \A u \in pays[p].payees : standings[u].by = Null
    BY <1>2 DEF PayUsers
  <2>3. \A u \in Users : Add(standings[u].cur, pays[p].item) # Null
    BY <2>1, StandingTypes, ScoreType DEF KnownInv
  <2>4. pays' = [pays EXCEPT ![p].pc = "answered", ![p].answer = "ok"]
    BY <1>2 DEF PayUsers
  <2> QED
    BY <1>2, <2>1, <2>2, <2>3, <2>4 DEF Rows!Committed
<1> QED
  BY <1>1, <1>2

LEMMA PayUsersKeeps ==
  ASSUME KnownInv, StandingsInv, NEW p \in PayCalls, PayUsers(p)
  PROVE  StandingsInv'
<1>1. /\ picks' = picks /\ saves' = saves /\ accounts' = accounts
      /\ accounts \subseteq Users
  BY DEF PayUsers, KnownInv, TypeOK
<1>2. \A u \in Users :
        \/ standings'[u] = standings[u]
        \/ /\ standings[u].by = Null /\ standings'[u].by = Null
           /\ standings'[u].cur # Null
  BY PayUsersStandings
<1>3. StandingsAreHeld'
  BY <1>1, <1>2 DEF StandingsInv, StandingsAreHeld, User
<1>4. \A v \in picks : v.row.user \in Users
  BY <1>1 DEF StandingsInv, PickersAreEntered
<1>5. \A r \in SaveCalls : r # Null /\ (saves[r].pc = "commit" => User(r) \in Users)
  BY KnownSave, VersionTypes DEF SaveInFlight, KnownInv
<1>6. PickersAreEntered'
  BY <1>1, <1>2, <1>4, <1>5 DEF StandingsInv, PickersAreEntered, User
<1> QED
  BY <1>3, <1>6 DEF StandingsInv

LEMMA DeleteUserKeeps ==
  ASSUME KnownInv, VersionsInv, StandingsInv, NEW u \in Users, DeleteUser(u)
  PROVE  StandingsInv'
<1>1. /\ picks' = {v \in picks : v.row.user # u} /\ saves' = saves
      /\ accounts' = accounts \ {u} /\ accounts \subseteq Users
      /\ \A x \in Users : IF x = u THEN standings'[x].by = Null
                                   ELSE standings'[x] = standings[x]
  BY DEF DeleteUser, KnownInv, TypeOK, Rows!Committed
<1>2. \A r \in SaveCalls : saves[r].pc = "commit" => User(r) # u /\ User(r) \in Users
  BY DeleteUserVersions, KnownSave DEF Inserted, SaveInFlight
<1>3. StandingsAreHeld'
  BY <1>1 DEF StandingsInv, StandingsAreHeld, User
<1>4. PickersAreEntered'
  BY <1>1, <1>2 DEF StandingsInv, PickersAreEntered, User
<1> QED
  BY <1>3, <1>4 DEF StandingsInv

LEMMA SameStandings ==
  ASSUME StandingsInv, picks' = picks, saves' = saves, standings' = standings,
         accounts' = accounts
  PROVE  StandingsInv'
BY DEF StandingsInv, StandingsAreHeld, PickersAreEntered, User

LEMMA InitSave == BoardInit => SaveInv
<1> SUFFICES ASSUME BoardInit PROVE SaveInv
  OBVIOUS
<1>1. VersionsInv
  BY DEF BoardInit, PredictionInit, VersionsInv, WritersAreInserting, DeletersAreReplacing,
         SeenAreReplaced, RowsAreWritten, Idle, Inserted
<1>2. StandingsInv
  BY DEF BoardInit, PredictionInit, StandingsInv, StandingsAreHeld, PickersAreEntered, Idle,
         Rows!Committed
<1> QED
  BY <1>1, <1>2, InitKnown DEF SaveInv

LEMMA StepSave == SaveInv /\ [Next]_boardVars => SaveInv'
<1> SUFFICES ASSUME SaveInv, [Next]_boardVars PROVE VersionsInv' /\ StandingsInv'
  BY StepKnown DEF SaveInv
<1>1. KnownInv /\ VersionsInv /\ StandingsInv
  BY DEF SaveInv
<1>2. CASE UNCHANGED predictionVars \/ Tick \/ \E p \in PayCalls : QueryPayees(p)
  <2>1. picks' = picks /\ saves' = saves /\ standings' = standings /\ accounts' = accounts
    BY <1>2 DEF predictionVars, Tick, QueryPayees
  <2> QED
    BY <1>1, <2>1, SameVersions, SameStandings
<1>3. ASSUME NEW p \in PayCalls, PayUsers(p) PROVE VersionsInv' /\ StandingsInv'
  <2>1. picks' = picks /\ saves' = saves
    BY <1>3 DEF PayUsers
  <2> QED
    BY <1>1, <1>3, <2>1, SameVersions, PayUsersKeeps
<1> QED
  BY <1>1, <1>2, <1>3, Steps, SaveStepVersions, SaveStepStandings, DeleteUserVersions,
     DeleteUserKeeps

LEMMA SaveInvariance == Spec => []SaveInv
BY InitSave, StepSave, PTL DEF Spec

\* Whoever has stored predictions exists and is in contest_standings: a save inserts
\* the missing row after its predictions and before they are committed, scores only
\* ever raise it, and DeleteUser, which takes both, waits for a save that is between.
THEOREM PickersStayListed == Spec => []PickersAreListed
<1>1. SaveInv => PickersAreListed
  BY DEF SaveInv, StandingsInv, PickersAreEntered, PickersAreListed, Stored
<1> QED
  BY <1>1, SaveInvariance, PTL

----------------------------------------------------------------------------
(***************************************************************************)
(* What is stored, step by step                                            *)
(***************************************************************************)
LEMMA StepStored ==
  ASSUME SaveInv, NEW r \in SaveCalls, SaveStep(r)
  PROVE  /\ ~CommitSave(r) => Stored' = Stored
         /\ CommitSave(r) =>
              /\ RowsOf(saves[r].item) # {}
              /\ Stored' = {v.row : v \in {w \in picks : w.live /\ w.del # r}}
                           \cup RowsOf(saves[r].item)
<1>1. KnownInv /\ VersionsInv /\ r # Null /\ \A v \in picks : v.live \in BOOLEAN
  BY VersionTypes DEF SaveInv, KnownInv
<1>2. CASE BeginSave(r) \/ CheckLock(r) \/ BeginDelete(r) \/ InsertStanding(r)
  <2>1. picks' = picks /\ ~CommitSave(r)
    BY <1>2 DEF BeginSave, CheckLock, BeginDelete, InsertStanding, CommitSave, At
  <2> QED
    BY <2>1 DEF Stored
<1>3. CASE DeletePicks(r)
  <2>1. \A v \in picks : LET w == [v EXCEPT !.del = r] IN w.row = v.row /\ w.live = v.live
    BY <1>1 DEF KnownInv, TypeOK, PickVersion
  <2>2. /\ \A w \in picks' : \E v \in picks : w.row = v.row /\ w.live = v.live
        /\ \A v \in picks : \E w \in picks' : w.row = v.row /\ w.live = v.live
    BY <1>3, <2>1 DEF DeletePicks
  <2>3. ~CommitSave(r)
    BY <1>3 DEF DeletePicks, CommitSave, At
  <2> QED
    BY <2>2, <2>3 DEF Stored
<1>4. CASE StorePicks(r)
  <2>1. ~CommitSave(r)
    BY <1>4 DEF StorePicks, CommitSave, At
  <2> QED
    BY <1>4, <2>1 DEF StorePicks, Stored, New
<1>5. CASE CommitSave(r)
  <2>1. /\ saves[r].pc = "commit" /\ picks' = Published(r)
        /\ RowsOf(saves[r].item) # {}
        /\ \A row \in RowsOf(saves[r].item) : New(r, row) \in picks
    BY <1>1, <1>5, SaveMoves DEF CommitSave, VersionsInv, RowsAreWritten, Inserted
  <2>2. \A v \in picks : v.from = r => ~v.live /\ v.row \in RowsOf(saves[r].item)
    BY <1>1, <2>1 DEF VersionsInv, WritersAreInserting
  <2>3. \A v \in picks : LET w == [v EXCEPT !.live = TRUE] IN w.row = v.row /\ w.live
    BY <1>1 DEF KnownInv, TypeOK, PickVersion
  <2>4. ASSUME NEW w \in picks', w.live
        PROVE  \/ w.row \in RowsOf(saves[r].item)
               \/ \E v \in picks : v.live /\ v.del # r /\ v.row = w.row
    BY <2>1, <2>2, <2>3, <2>4 DEF Published
  <2>5. ASSUME NEW row \in RowsOf(saves[r].item)
        PROVE  \E w \in picks' : w.live /\ w.row = row
    <3> DEFINE v == New(r, row)
    <3>1. v \in picks /\ v.del # r /\ v.from = r /\ v.row = row
      BY <1>1, <2>1 DEF New
    <3>2. [v EXCEPT !.live = TRUE] \in picks'
      BY <2>1, <3>1 DEF Published
    <3> QED
      BY <2>3, <3>1, <3>2
  <2>6. ASSUME NEW v \in picks, v.live, v.del # r PROVE v \in picks'
    <3>1. v.from # r
      BY <2>2, <2>6
    <3> QED
      BY <2>1, <2>6, <3>1 DEF Published
  <2>7. Stored' = {v.row : v \in {w \in picks : w.live /\ w.del # r}}
                  \cup RowsOf(saves[r].item)
    BY <2>4, <2>5, <2>6 DEF Stored
  <2> QED
    BY <1>5, <2>1, <2>7
<1>6. CASE GiveUp(r) /\ ~CommitSave(r)
  <2>1. picks' = Discarded(r)
    BY <1>6 DEF GiveUp, RollBack
  <2>2. \A v \in picks : LET w == [v EXCEPT !.del = Null] IN w.row = v.row /\ w.live = v.live
    BY <1>1 DEF KnownInv, TypeOK, PickVersion
  <2>3. /\ \A w \in picks' : \E v \in picks : w.row = v.row /\ w.live = v.live
        /\ \A v \in picks : v.live => \E w \in picks' : w.row = v.row /\ w.live
    BY <2>1, <2>2 DEF Discarded
  <2> QED
    BY <1>6, <2>3 DEF Stored
<1> QED
  BY <1>2, <1>3, <1>4, <1>5, <1>6 DEF SaveStep

LEMMA OtherStored ==
  ASSUME SaveInv,
         \/ \E p \in PayCalls : QueryPayees(p) \/ PayUsers(p)
         \/ Tick \/ UNCHANGED predictionVars
  PROVE  Stored' = Stored
<1>1. picks' = picks
  BY DEF QueryPayees, PayUsers, Tick, predictionVars
<1> QED
  BY <1>1 DEF Stored

\* Predictions change only by a save that was checked between the dates of its kind,
\* however late it commits, and by the deletion of the account.
THEOREM LockedStay == Spec => LockedPicksStay
<1> DEFINE Allowed(row) ==
      \/ row.user \notin accounts'
      \/ \E r \in SaveCalls : /\ saves[r].pc = "commit" /\ saves'[r].answer = "ok"
                              /\ InWindow(KindOf(row), saves[r].checked)
<1>1. ASSUME SaveInv, [Next]_boardVars,
             NEW row \in (Stored \ Stored') \cup (Stored' \ Stored)
      PROVE  Allowed(row)
  <2>1. ASSUME NEW r \in SaveCalls, SaveStep(r) PROVE Allowed(row)
    <3>1. CommitSave(r)
      BY <1>1, <2>1, StepStored
    <3>2. KnownInv /\ VersionsInv /\ saves[r].pc = "commit"
      BY <1>1, <3>1, SaveMoves DEF SaveInv
    <3>3. saves[r].item \in Submissions /\ InWindow(saves[r].item.kind, saves[r].checked)
      BY <3>2, KnownSave DEF SaveInFlight, Checked
    <3>4. saves'[r].answer = "ok"
      BY <3>1, <3>2 DEF CommitSave, Answer, KnownInv, TypeOK, Idle
    <3>5. row \in RowsOf(saves[r].item) \/ \E v \in picks : v.row = row /\ v.del = r
      BY <1>1, <2>1, <3>1, StepStored DEF Stored
    <3>6. KindOf(row) = saves[r].item.kind
      <4>1. r # Null
        BY <3>2, VersionTypes DEF KnownInv
      <4> QED
        BY <3>2, <3>3, <3>5, <4>1, RowsOfType DEF VersionsInv, DeletersAreReplacing, Replaces
    <3> QED
      BY <3>2, <3>3, <3>4, <3>6
  <2>2. ASSUME NEW u \in Users, DeleteUser(u) PROVE Allowed(row)
    <3>1. row.user = u /\ accounts' = accounts \ {u}
      BY <1>1, <2>2 DEF DeleteUser, Stored
    <3> QED
      BY <3>1
  <2> QED
    BY <1>1, <2>1, <2>2, Steps, OtherStored
<1>2. SaveInv /\ [Next]_boardVars =>
        [\A row \in (Stored \ Stored') \cup (Stored' \ Stored) :
           \/ row.user \notin accounts'
           \/ \E r \in SaveCalls :
                /\ saves[r].pc = "commit" /\ saves'[r].answer = "ok"
                /\ InWindow(KindOf(row), saves[r].checked)]_predictionVars
  BY <1>1
<1> QED
  BY <1>2, SaveInvariance, PTL DEF Spec, LockedPicksStay

----------------------------------------------------------------------------
(***************************************************************************)
(* Saves that run alone                                                    *)
(***************************************************************************)
LEMMA SaveStepApart ==
  ASSUME AloneInv, NEW r \in SaveCalls, SaveStep(r)
  PROVE  AloneIsApart'
<1>1. KnownInv /\ AloneIsApart /\ saves \in [SaveCalls -> SaveCall]
  BY DEF AloneInv, SaveInv, KnownInv, TypeOK
<1>2. ASSUME NEW pc, Moves(r, pc), SaveInFlight(r), pc = "answered" \/ Keeps(r)
      PROVE  AloneIsApart'
  BY <1>1, <1>2 DEF AloneIsApart, SaveInFlight, Moves, Keeps
<1>3. CASE BeginSave(r)
  <2>1. PICK s \in Submissions, alone \in BOOLEAN : Begins(r, s, alone)
    BY <1>3, BeginSaveBegins
  <2>2. Moves(r, "check") /\ saves'[r].item = s /\ (saves'[r].alone <=> alone)
    BY <1>1, <1>3, <2>1, SaveMoves DEF Begins, SaveCall
  <2>3. ASSUME NEW q \in SaveCalls \ {r}, SaveInFlight(q), saves'[q].alone
        PROVE  ~Overlap(saves[q].item, s)
    <3>1. saves[q] \in SaveCall
      BY <1>1
    <3> QED
      BY <2>1, <2>3, <3>1 DEF Begins, SaveCall
  <2>4. ASSUME NEW q \in SaveCalls \ {r}, SaveInFlight(q), saves'[r].alone
        PROVE  ~Overlap(saves[q].item, s)
    BY <2>1, <2>2, <2>4 DEF Begins
  <2> SUFFICES ASSUME NEW x \in SaveCalls, NEW y \in SaveCalls, x # y,
                      SaveInFlight(x)', SaveInFlight(y)', saves'[x].alone
               PROVE  ~Overlap(saves'[y].item, saves'[x].item)
    BY DEF AloneIsApart
  <2>5. \A q \in SaveCalls \ {r} : SaveInFlight(q)' => SaveInFlight(q)
    BY <2>2 DEF Moves, SaveInFlight
  <2>6. CASE x = r
    BY <2>2, <2>4, <2>5, <2>6 DEF Moves
  <2>7. CASE y = r
    BY <2>2, <2>3, <2>5, <2>7, OverlapSymmetric DEF Moves
  <2>8. CASE x # r /\ y # r
    BY <1>1, <2>2, <2>5, <2>8 DEF Moves, AloneIsApart
  <2> QED
    BY <2>6, <2>7, <2>8
<1> QED
  BY <1>1, <1>2, <1>3, SaveMoves DEF SaveStep, SaveInFlight

\* A step of r keeps what the other saves have found.
LEMMA OthersFindAll ==
  ASSUME AloneFindsAll, NEW r \in SaveCalls, NEW pc, Moves(r, pc),
         \A w \in picks' : \A q \in SaveCalls \ {r} :
           /\ w.live /\ SaveInFlight(q) /\ saves[q].alone
           /\ Replaces(saves[q].item, w.row)
           => \E v \in picks : /\ v.live /\ v.row = w.row /\ v.from = w.from
                               /\ v.del = q => w.del = q,
         NEW q \in SaveCalls \ {r}, SaveInFlight(q)', saves'[q].alone,
         NEW w \in picks', w.live, Replaces(saves'[q].item, w.row)
  PROVE  /\ saves'[q].pc = "deleting" => w \in Seen(q)'
         /\ saves'[q].pc \in Deleted => w.del = q
<1>1. /\ SaveInFlight(q) /\ saves[q].alone /\ saves'[q].item = saves[q].item
      /\ saves'[q].pc = saves[q].pc /\ saves'[q].seen = saves[q].seen
  BY DEF Moves, SaveInFlight
<1>2. PICK v \in picks : /\ v.live /\ v.row = w.row /\ v.from = w.from
                         /\ v.del = q => w.del = q
  BY <1>1
<1>3. /\ saves[q].pc = "deleting" => v \in Seen(q)
      /\ saves[q].pc \in Deleted => v.del = q
  BY <1>1, <1>2 DEF AloneFindsAll
<1>4. v \in Seen(q) => w \in Seen(q)'
  BY <1>1, <1>2 DEF Seen
<1> QED
  BY <1>1, <1>2, <1>3, <1>4

LEMMA QuietFindsAll ==
  ASSUME AloneFindsAll, NEW r \in SaveCalls, NEW pc, Moves(r, pc), picks' = picks,
         \/ pc \in {"check", "delete", "answered"}
         \/ Keeps(r) /\ pc = "commit" /\ saves[r].pc = "standing"
  PROVE  AloneFindsAll'
<1> SUFFICES ASSUME NEW q \in SaveCalls, SaveInFlight(q)', saves'[q].alone,
                    NEW w \in picks', w.live, Replaces(saves'[q].item, w.row)
             PROVE  /\ saves'[q].pc = "deleting" => w \in Seen(q)'
                    /\ saves'[q].pc \in Deleted => w.del = q
  BY DEF AloneFindsAll
<1>1. CASE q # r
  BY <1>1, OthersFindAll
<1>2. CASE q = r
  BY <1>2 DEF AloneFindsAll, Moves, Keeps, SaveInFlight, Deleted
<1> QED
  BY <1>1, <1>2

LEMMA BeginDeleteFindsAll ==
  ASSUME AloneInv, NEW r \in SaveCalls, BeginDelete(r)
  PROVE  AloneFindsAll'
<1> SUFFICES ASSUME NEW q \in SaveCalls, SaveInFlight(q)', saves'[q].alone,
                    NEW w \in picks', w.live, Replaces(saves'[q].item, w.row)
             PROVE  /\ saves'[q].pc = "deleting" => w \in Seen(q)'
                    /\ saves'[q].pc \in Deleted => w.del = q
  BY DEF AloneFindsAll
<1>1. /\ KnownInv /\ AloneFindsAll /\ Moves(r, "deleting") /\ Keeps(r) /\ picks' = picks
  BY SaveMoves DEF AloneInv, SaveInv
<1>2. CASE q # r
  BY <1>1, <1>2, OthersFindAll
<1>3. CASE q = r
  <2>1. saves'[r].seen = {[row |-> v.row, from |-> v.from] :
                            v \in {x \in picks : x.live /\ Replaces(saves[r].item, x.row)}}
    BY <1>1 DEF BeginDelete, KnownInv, TypeOK, SaveCall
  <2>2. [row |-> w.row, from |-> w.from] \in saves'[r].seen
    BY <1>1, <1>3, <2>1 DEF Keeps
  <2> QED
    BY <1>1, <1>3, <2>2 DEF Seen, Moves, Deleted
<1> QED
  BY <1>2, <1>3

LEMMA DeletePicksFindsAll ==
  ASSUME AloneInv, NEW r \in SaveCalls, DeletePicks(r)
  PROVE  AloneFindsAll'
<1>1. /\ KnownInv /\ AloneFindsAll /\ Moves(r, "insert") /\ Keeps(r)
      /\ saves[r].pc = "deleting"
  BY SaveMoves DEF AloneInv, SaveInv
<1>2. picks' = {IF v \in Seen(r) THEN [v EXCEPT !.del = r] ELSE v : v \in picks}
  BY DEF DeletePicks
<1>3. \A w \in picks' : \E v \in picks :
        /\ w.row = v.row /\ w.from = v.from /\ w.live = v.live
        /\ IF v \in Seen(r) THEN w.del = r ELSE w = v
  <2>1. \A v \in picks : LET w == [v EXCEPT !.del = r]
                         IN  /\ w.row = v.row /\ w.from = v.from /\ w.live = v.live
                             /\ w.del = r
    BY <1>1 DEF KnownInv, TypeOK, PickVersion
  <2> QED
    BY <1>2, <2>1
<1>4. \A v \in Seen(r) : v.del \in {Null, r}
  BY <1>1 DEF DeletePicks, Free, Awaited
<1>5. \A q \in SaveCalls : q # Null
  BY <1>1, VersionTypes DEF KnownInv
<1> SUFFICES ASSUME NEW q \in SaveCalls, SaveInFlight(q)', saves'[q].alone,
                    NEW w \in picks', w.live, Replaces(saves'[q].item, w.row)
             PROVE  /\ saves'[q].pc = "deleting" => w \in Seen(q)'
                    /\ saves'[q].pc \in Deleted => w.del = q
  BY DEF AloneFindsAll
<1>6. CASE q # r
  <2>1. \A x \in picks' : \A p \in SaveCalls \ {r} :
          x.live => \E v \in picks : /\ v.live /\ v.row = x.row /\ v.from = x.from
                                     /\ v.del = p => x.del = p
    BY <1>3, <1>4, <1>5
  <2> QED
    BY <1>1, <1>6, <2>1, OthersFindAll
<1>7. CASE q = r
  BY <1>1, <1>3, <1>7 DEF AloneFindsAll, Moves, Keeps, SaveInFlight, Deleted
<1> QED
  BY <1>6, <1>7

LEMMA StorePicksFindsAll ==
  ASSUME AloneInv, NEW r \in SaveCalls, StorePicks(r)
  PROVE  AloneFindsAll'
<1>1. /\ KnownInv /\ AloneFindsAll /\ Moves(r, "standing") /\ Keeps(r)
      /\ saves[r].pc = "insert"
  BY SaveMoves DEF AloneInv, SaveInv
<1>2. \A w \in picks' : w.live => w \in picks
  BY DEF StorePicks, New
<1> SUFFICES ASSUME NEW q \in SaveCalls, SaveInFlight(q)', saves'[q].alone,
                    NEW w \in picks', w.live, Replaces(saves'[q].item, w.row)
             PROVE  /\ saves'[q].pc = "deleting" => w \in Seen(q)'
                    /\ saves'[q].pc \in Deleted => w.del = q
  BY DEF AloneFindsAll
<1>3. CASE q # r
  BY <1>1, <1>2, <1>3, OthersFindAll
<1>4. CASE q = r
  BY <1>1, <1>2, <1>4 DEF AloneFindsAll, Moves, Keeps, SaveInFlight, Deleted
<1> QED
  BY <1>3, <1>4

\* What a commit brings to life is no row that a save apart from it replaces.
LEMMA CommitFindsAll ==
  ASSUME AloneInv, NEW r \in SaveCalls, CommitSave(r)
  PROVE  AloneFindsAll'
<1>1. /\ KnownInv /\ VersionsInv /\ AloneFindsAll /\ AloneIsApart
      /\ Moves(r, "answered") /\ saves[r].pc = "commit" /\ picks' = Published(r)
  BY SaveMoves DEF AloneInv, SaveInv, CommitSave
<1>2. saves[r].item \in Submissions /\ SaveInFlight(r)
  BY <1>1, KnownSave DEF SaveInFlight
<1>3. \A v \in picks : v.from = r => v.row \in RowsOf(saves[r].item)
  BY <1>1 DEF VersionsInv, WritersAreInserting
<1>4. \A w \in picks' : \E v \in picks :
        \/ w = v
        \/ v.from = r /\ w.row = v.row
  <2>1. \A v \in picks : [v EXCEPT !.live = TRUE].row = v.row
    BY <1>1 DEF KnownInv, TypeOK, PickVersion
  <2> QED
    BY <1>1, <2>1 DEF Published
<1>5. ASSUME NEW w \in picks', NEW p \in SaveCalls \ {r}, w.live, SaveInFlight(p),
             saves[p].alone, Replaces(saves[p].item, w.row)
      PROVE  w \in picks
  <2>1. ~Overlap(saves[r].item, saves[p].item)
    BY <1>1, <1>2, <1>5 DEF AloneIsApart
  <2>2. saves[p].item \in Submissions
    BY <1>1, <1>5, KnownSave
  <2>3. w.row \notin RowsOf(saves[r].item)
    BY <1>2, <1>5, <2>1, <2>2, ApartReplacesNone
  <2> QED
    BY <1>3, <1>4, <2>3
<1> SUFFICES ASSUME NEW q \in SaveCalls, SaveInFlight(q)', saves'[q].alone,
                    NEW w \in picks', w.live, Replaces(saves'[q].item, w.row)
             PROVE  /\ saves'[q].pc = "deleting" => w \in Seen(q)'
                    /\ saves'[q].pc \in Deleted => w.del = q
  BY DEF AloneFindsAll
<1>6. q # r
  BY <1>1 DEF Moves, SaveInFlight
<1> QED
  BY <1>1, <1>5, <1>6, OthersFindAll

LEMMA GiveUpFindsAll ==
  ASSUME AloneInv, NEW r \in SaveCalls, GiveUp(r)
  PROVE  AloneFindsAll'
<1>1. KnownInv /\ AloneFindsAll /\ Moves(r, "answered") /\ picks' = Discarded(r)
  BY SaveMoves DEF AloneInv, SaveInv, GiveUp, RollBack
<1>2. \A w \in picks' : \E v \in picks :
        /\ w.row = v.row /\ w.from = v.from /\ w.live = v.live
        /\ v.del # r => w = v
  <2>1. \A v \in picks : LET w == [v EXCEPT !.del = Null]
                         IN  /\ w.row = v.row /\ w.from = v.from /\ w.live = v.live
    BY <1>1 DEF KnownInv, TypeOK, PickVersion
  <2> QED
    BY <1>1, <2>1 DEF Discarded
<1> SUFFICES ASSUME NEW q \in SaveCalls, SaveInFlight(q)', saves'[q].alone,
                    NEW w \in picks', w.live, Replaces(saves'[q].item, w.row)
             PROVE  /\ saves'[q].pc = "deleting" => w \in Seen(q)'
                    /\ saves'[q].pc \in Deleted => w.del = q
  BY DEF AloneFindsAll
<1>3. q # r
  BY <1>1 DEF Moves, SaveInFlight
<1>4. \A x \in picks' : \A p \in SaveCalls \ {r} :
        x.live => \E v \in picks : /\ v.live /\ v.row = x.row /\ v.from = x.from
                                   /\ v.del = p => x.del = p
  BY <1>2
<1> QED
  BY <1>1, <1>3, <1>4, OthersFindAll

LEMMA SaveStepFindsAll ==
  ASSUME AloneInv, NEW r \in SaveCalls, SaveStep(r)
  PROVE  AloneFindsAll'
<1>1. KnownInv /\ AloneFindsAll
  BY DEF AloneInv, SaveInv
<1>2. CASE BeginSave(r) \/ CheckLock(r) \/ InsertStanding(r)
  BY <1>1, <1>2, SaveMoves, QuietFindsAll
<1> QED
  BY <1>2, BeginDeleteFindsAll, DeletePicksFindsAll, StorePicksFindsAll, CommitFindsAll,
     GiveUpFindsAll DEF SaveStep

\* A row of the table is one of before or one that the step's submission asks for.
LEMMA SaveStepRows ==
  ASSUME KnownInv, NEW r \in SaveCalls, SaveStep(r)
  PROVE  \A w \in picks' : \/ \E v \in picks : w.row = v.row
                           \/ /\ saves[r].item \in Submissions
                              /\ w.row \in RowsOf(saves[r].item)
<1>1. \A v \in picks : /\ [v EXCEPT !.live = TRUE].row = v.row
                       /\ [v EXCEPT !.del = r].row = v.row
                       /\ [v EXCEPT !.del = Null].row = v.row
  BY DEF KnownInv, TypeOK, PickVersion
<1>2. CASE BeginSave(r) \/ CheckLock(r) \/ BeginDelete(r) \/ InsertStanding(r)
  BY <1>2, SaveMoves
<1>3. CASE DeletePicks(r)
  BY <1>1, <1>3 DEF DeletePicks
<1>4. CASE StorePicks(r)
  BY <1>4, StoreType DEF StorePicks, New
<1>5. CASE CommitSave(r)
  <2>1. picks' = Published(r)
    BY <1>5 DEF CommitSave
  <2>2. \A w \in picks' : \E v \in picks : w = v \/ w = [v EXCEPT !.live = TRUE]
    BY <2>1 DEF Published
  <2> QED
    BY <1>1, <2>2
<1>6. CASE GiveUp(r)
  BY <1>1, <1>6 DEF GiveUp, RollBack, Discarded
<1> QED
  BY <1>2, <1>3, <1>4, <1>5, <1>6 DEF SaveStep

LEMMA BracketRows ==
  ASSUME NEW s \in Submissions, s.kind = "knockout"
  PROVE  /\ \A letter \in LettersOf(s) : letter = Null
         /\ \A row \in RowsOf(s) : row.letter = Null
BY SubmissionAssumption, RowsOfType DEF LettersOf

LEMMA InitAlone == BoardInit => AloneInv
<1> SUFFICES ASSUME BoardInit PROVE AloneInv
  OBVIOUS
<1>1. picks = {} /\ \A r \in SaveCalls : ~SaveInFlight(r)
  BY DEF BoardInit, PredictionInit, Idle, SaveInFlight
<1> QED
  BY <1>1, InitSave DEF AloneInv, AloneIsApart, AloneFindsAll, BracketsHaveNoLetters

LEMMA StepAlone == AloneInv /\ [Next]_boardVars => AloneInv'
<1> SUFFICES ASSUME AloneInv, [Next]_boardVars
             PROVE  AloneIsApart' /\ AloneFindsAll' /\ BracketsHaveNoLetters'
  BY StepSave DEF AloneInv
<1>1. ASSUME NEW r \in SaveCalls, SaveStep(r)
      PROVE  AloneIsApart' /\ AloneFindsAll' /\ BracketsHaveNoLetters'
  <2>1. BracketsHaveNoLetters'
    BY <1>1, SaveStepRows, BracketRows, RowsOfType DEF AloneInv, SaveInv, BracketsHaveNoLetters
  <2> QED
    BY <1>1, <2>1, SaveStepApart, SaveStepFindsAll
<1>2. ASSUME saves' = saves, picks' \subseteq picks
      PROVE  AloneIsApart' /\ AloneFindsAll' /\ BracketsHaveNoLetters'
  BY <1>2 DEF AloneInv, AloneIsApart, AloneFindsAll, BracketsHaveNoLetters, SaveInFlight, Seen
<1>3. CASE \/ \E p \in PayCalls : QueryPayees(p) \/ PayUsers(p)
           \/ \E u \in Users : DeleteUser(u)
           \/ Tick \/ UNCHANGED predictionVars
  <2>1. saves' = saves /\ picks' \subseteq picks
    BY <1>3 DEF QueryPayees, PayUsers, DeleteUser, Tick, predictionVars
  <2> QED
    BY <1>2, <2>1
<1> QED
  BY <1>1, <1>3, Steps

LEMMA AloneInvariance == Spec => []AloneInv
BY InitAlone, StepAlone, PTL DEF Spec

\* What a save leaves that ran alone, and when it answers ok.
Beside(s) == {row \in Stored : \/ row.user # s.user \/ KindOf(row) # s.kind
                               \/ row.letter \notin LettersOf(s)}
LeavesWhole(r) ==
  LET s == saves[r].item
  IN  Stored' = IF saves'[r].answer = "ok" /\ RowsOf(s) # {}
                THEN Beside(s) \cup RowsOf(s) ELSE Stored

LEMMA AloneLeavesWhole ==
  ASSUME AloneInv, [Next]_boardVars, NEW r \in SaveCalls, AnswersAlone(r)
  PROVE  /\ LeavesWhole(r)
         /\ saves'[r].answer = "ok" /\ RowsOf(saves[r].item) # {} =>
              saves[r].pc = "commit"
<1>1. /\ KnownInv /\ VersionsInv /\ AloneFindsAll /\ BracketsHaveNoLetters /\ SaveInv
      /\ saves \in [SaveCalls -> SaveCall]
  BY DEF AloneInv, SaveInv, KnownInv, TypeOK
<1>2. SaveStep(r)
  <2>1. ASSUME NEW q \in SaveCalls, SaveStep(q) PROVE q = r
    <3>1. q # r => saves'[r].pc = saves[r].pc
      BY <1>1, <2>1, SaveMoves DEF SaveStep, Moves
    <3> QED
      BY <3>1 DEF AnswersAlone
  <2>2. saves' # saves
    BY DEF AnswersAlone
  <2> QED
    BY <2>1, <2>2, Steps
       DEF QueryPayees, PayUsers, DeleteUser, Tick, predictionVars
<1>3. \A code : Answer(r, code) => saves'[r].answer = code
  BY <1>1 DEF Answer, Idle
<1>4. CASE CommitSave(r)
  <2> DEFINE s == saves[r].item
  <2>1. /\ RowsOf(s) # {} /\ saves'[r].answer = "ok" /\ saves[r].pc = "commit"
        /\ Stored' = {v.row : v \in {w \in picks : w.live /\ w.del # r}} \cup RowsOf(s)
    BY <1>1, <1>2, <1>3, <1>4, StepStored, SaveMoves DEF CommitSave
  <2>2. s \in Submissions /\ s.kind \in Kinds /\ SaveInFlight(r) /\ saves[r].alone
    BY <1>1, <2>1, KnownSave DEF SaveInFlight, AnswersAlone
  <2>3. ASSUME NEW v \in picks, v.live
        PROVE  v.del = r <=> Replaces(s, v.row)
    <3>1. r # Null
      BY <1>1, VersionTypes DEF KnownInv
    <3> QED
      BY <1>1, <2>1, <2>2, <2>3, <3>1
         DEF VersionsInv, DeletersAreReplacing, AloneFindsAll, Deleted
  <2>4. ASSUME NEW v \in picks
        PROVE  Replaces(s, v.row) <=> /\ v.row.user = s.user /\ KindOf(v.row) = s.kind
                                      /\ v.row.letter \in LettersOf(s)
    <3>1. CASE s.kind = "group"
      BY <3>1 DEF Replaces
    <3>2. CASE s.kind = "knockout"
      <4>1. LettersOf(s) = {Null}
        <5>1. PICK row \in RowsOf(s) : TRUE
          BY <2>1
        <5>2. row.letter \in LettersOf(s)
          BY <2>2, RowsOfType
        <5> QED
          BY <2>2, <3>2, <5>2, BracketRows
      <4>2. KindOf(v.row) = "knockout" => v.row.letter = Null
        BY <1>1 DEF BracketsHaveNoLetters
      <4> QED
        BY <3>2, <4>1, <4>2 DEF Replaces
    <3> QED
      BY <2>2, <3>1, <3>2 DEF Kinds
  <2>5. {v.row : v \in {w \in picks : w.live /\ w.del # r}} = Beside(s)
    BY <2>3, <2>4 DEF Stored, Beside
  <2> QED
    BY <2>1, <2>5 DEF LeavesWhole
<1>5. CASE ~CommitSave(r)
  <2>1. Stored' = Stored
    BY <1>1, <1>2, <1>5, StepStored
  <2>2. saves'[r].answer = "ok" => RowsOf(saves[r].item) = {}
    <3>1. CASE GiveUp(r)
      BY <1>3, <3>1 DEF GiveUp, RollBack
    <3>2. CASE CheckLock(r)
      <4>1. saves'[r].pc = "answered"
        BY DEF AnswersAlone
      <4>2. saves' # [saves EXCEPT ![r].pc = "delete", ![r].checked = now]
        BY <1>1, <4>1 DEF SaveCall
      <4>3. Answer(r, "not_found") \/ Answer(r, "failed_precondition")
        BY <3>2, <4>2 DEF CheckLock
      <4> QED
        BY <1>3, <4>3
    <3>3. CASE ~GiveUp(r) /\ ~CheckLock(r)
      <4>1. saves'[r].pc # "answered"
        BY <1>1, <1>2, <1>5, <3>3, SaveMoves DEF SaveStep, Moves
      <4> QED
        BY <4>1 DEF AnswersAlone
    <3> QED
      BY <3>1, <3>2, <3>3
  <2> QED
    BY <2>1, <2>2 DEF LeavesWhole
<1> QED
  BY <1>4, <1>5

\* A save that no other save of the same rows overlapped leaves exactly what it was
\* asked to store, in place of the bracket or of the groups of the same letters, and
\* touches nothing else; any other answer leaves the tables alone.
THEOREM SavesStayWhole == Spec => SavesAreWhole
<1>1. AloneInv /\ [Next]_boardVars =>
        [\A r \in SaveCalls : AnswersAlone(r)
          => LET s == saves[r].item
             IN  Stored' =
                   IF saves'[r].answer = "ok" /\ RowsOf(s) # {}
                   THEN {row \in Stored : \/ row.user # s.user \/ KindOf(row) # s.kind
                                          \/ row.letter \notin LettersOf(s)}
                        \cup RowsOf(s)
                   ELSE Stored]_predictionVars
  BY AloneLeavesWhole DEF LeavesWhole, Beside
<1> QED
  BY <1>1, AloneInvariance, PTL DEF Spec, SavesAreWhole

----------------------------------------------------------------------------
(***************************************************************************)
(* What is read back                                                       *)
(***************************************************************************)
LEMMA SaveStepKeys ==
  ASSUME KnownInv, InsertedHaveKeys, NEW r \in SaveCalls, SaveStep(r)
  PROVE  InsertedHaveKeys'
<1>1. ASSUME NEW q \in SaveCalls \ {r}, saves'[q].pc \in Inserted
      PROVE  ~Repeats(saves'[q].item)
  BY <1>1, SaveMoves DEF SaveStep, Moves, InsertedHaveKeys
<1>2. ASSUME saves'[r].pc \in Inserted
      PROVE  ~Repeats(saves'[r].item)
  <2>1. StorePicks(r) \/ InsertStanding(r)
    BY <1>2, SaveMoves DEF SaveStep, Moves, Inserted
  <2>2. ~Repeats(saves[r].item)
    <3>1. CASE StorePicks(r)
      BY <3>1 DEF StorePicks, Refused
    <3>2. CASE InsertStanding(r)
      BY <3>2, SaveMoves DEF InsertedHaveKeys, Inserted
    <3> QED
      BY <2>1, <3>1, <3>2
  <2> QED
    BY <2>1, <2>2, SaveMoves DEF Keeps
<1> QED
  BY <1>1, <1>2 DEF InsertedHaveKeys

LEMMA KeysInvariance == Spec => []InsertedHaveKeys
<1>1. BoardInit => InsertedHaveKeys
  BY DEF BoardInit, PredictionInit, Idle, InsertedHaveKeys, Inserted
<1>2. ASSUME KnownInv, InsertedHaveKeys, [Next]_boardVars PROVE InsertedHaveKeys'
  <2>1. CASE \E r \in SaveCalls : SaveStep(r)
    BY <1>2, <2>1, SaveStepKeys
  <2>2. CASE saves' = saves
    BY <1>2, <2>2 DEF InsertedHaveKeys
  <2> QED
    BY <1>2, <2>1, <2>2, Steps
       DEF QueryPayees, PayUsers, DeleteUser, Tick, predictionVars
<1> QED
  BY <1>1, <1>2, KnownInvariance, PTL DEF Spec

\* A group that could be inserted has no more countries than there are, and so each of
\* them is a row, under the place it has in the list.
LEMMA EachIsARow ==
  ASSUME NEW s \in Submissions, s.kind = "group", ~Repeats(s),
         \A row \in RowsOf(s) : row.country # Null,
         NEW i \in DOMAIN s.picks
  PROVE  /\ s.picks[i] \in Pick /\ s.picks[i].round = Null
         /\ s.picks[i].order \in Seq(Countries \cup {Null})
         /\ \A j \in 1 .. Len(s.picks[i].order) :
              <<i, j>> \in Entries(s) /\ RowOf(s, i, j) \in RowsOf(s)
<1> DEFINE list == s.picks[i].order
           n == Len(list)
           C == Cardinality(Countries)
<1>1. s.picks[i] \in Pick /\ s.picks[i].round = Null
  BY SubmissionAssumption
<1>2. list \in Seq(Countries \cup {Null})
  BY <1>1 DEF Pick
<1>3. n \in Nat /\ DOMAIN list = 1 .. n /\ C \in Nat /\ IsFiniteSet(Countries)
  BY <1>2, FiniteAssumption, FS_CardinalityType
<1>4. ASSUME NEW j \in 1 .. n, j <= C + 1
      PROVE  /\ <<i, j>> \in Entries(s) /\ RowOf(s, i, j) \in RowsOf(s)
             /\ list[j] \in Countries
  <2>1. <<i, j>> \in Entries(s)
    BY <1>3, <1>4 DEF Entries
  <2>2. RowOf(s, i, j) \in RowsOf(s)
    BY <2>1 DEF RowsOf
  <2>3. RowOf(s, i, j).country = list[j]
    BY DEF RowOf
  <2> QED
    BY <1>2, <1>3, <2>1, <2>2, <2>3
<1>5. n <= C
  <2>1. SUFFICES ASSUME C < n PROVE FALSE
    BY <1>3
  <2> DEFINE D == 1 .. C + 1
             f == [j \in D |-> list[j]]
  <2>2. \A j \in D : j \in 1 .. n /\ j <= C + 1
    BY <1>3, <2>1
  <2>3. f \in [D -> Countries]
    BY <1>4, <2>2
  <2>4. IsFiniteSet(D) /\ Cardinality(D) = C + 1
    <3> DEFINE top == C + 1
    <3>1. 1 \in Int /\ top \in Int /\ ~(1 > top) /\ top - 1 + 1 = C + 1
      BY <1>3
    <3> HIDE DEF top
    <3>2. IsFiniteSet(1 .. top) /\ Cardinality(1 .. top) = C + 1
      BY <3>1, FS_Interval
    <3> QED
      BY <3>2 DEF top
  <2>5. C < Cardinality(D)
    BY <1>3, <2>4
  <2> HIDE DEF D, f
  <2>6. PICK j, k \in D : j # k /\ f[j] = f[k]
    BY <1>3, <2>3, <2>4, <2>5, FS_PigeonHole
  <2>7. <<i, j>> \in Entries(s) /\ <<i, k>> \in Entries(s) /\ list[j] = list[k]
    BY <1>4, <2>2, <2>6 DEF f
  <2>8. Key(RowOf(s, i, j)) = Key(RowOf(s, i, k))
    BY <2>7 DEF Key, RowOf
  <2>9. <<i, j>> # <<i, k>>
    BY <2>6
  <2> QED
    BY <2>7, <2>8, <2>9 DEF Repeats
<1>6. \A j \in 1 .. n : j <= C + 1
  BY <1>3, <1>5
<1> QED
  BY <1>1, <1>2, <1>4, <1>6

\* Its rows have one order by place: the one of the list.
LEMMA OneOrder ==
  ASSUME NEW s \in Submissions, s.kind = "group", ~Repeats(s),
         \A row \in RowsOf(s) : row.country # Null,
         NEW i \in DOMAIN s.picks
  PROVE  LET n == Len(s.picks[i].order)
         IN  ByPlace({RowOf(s, i, j) : j \in 1 .. n}) =
               {[j \in 1 .. n |-> RowOf(s, i, j)]}
<1> DEFINE n == Len(s.picks[i].order)
           D == 1 .. n
           F == {RowOf(s, i, j) : j \in D}
           o == [j \in D |-> RowOf(s, i, j)]
<1>1. n \in Nat
  BY EachIsARow
<1>2. \A j : RowOf(s, i, j).place = j
  BY DEF RowOf
<1>3. \A j, k \in D : j # k => o[j] # o[k]
  BY <1>2
<1>4. o \in [D -> F]
  OBVIOUS
<1>5. IsFiniteSet(D) /\ Cardinality(D) = n
  BY <1>1, FS_Interval
<1>6. o \in Bijection(D, F)
  <2>1. o \in Injection(D, F)
    BY <1>3, <1>4, Fun_IsInj
  <2>2. o \in Surjection(D, F)
    BY <1>4, Fun_IsSurj
  <2> QED
    BY <2>1, <2>2 DEF Bijection
<1>7. IsFiniteSet(F) /\ Cardinality(F) = n
  BY <1>5, <1>6, FS_Bijection DEF ExistsBijection
<1>8. \A j \in D : o[j].place = j
  BY <1>2
<1>9. \A row \in F : row.place \in D /\ row = o[row.place]
  BY <1>2
<1> HIDE DEF F, o
<1>10. o \in ByPlace(F)
  <2>1. o \in SetToSeqs(F)
    BY <1>3, <1>4, <1>7 DEF SetToSeqs
  <2>2. \A j, k \in D : j < k => o[j].place <= o[k].place
    BY <1>1, <1>8
  <2>3. DOMAIN o = D
    BY <1>4
  <2> QED
    BY <2>1, <2>2, <2>3 DEF ByPlace
<1>11. ASSUME NEW q \in ByPlace(F) PROVE q = o
  <2>1. /\ q \in [D -> F] /\ \A j, k \in D : j # k => q[j] # q[k]
        /\ \A j, k \in D : j < k => q[j].place <= q[k].place
    BY <1>7 DEF ByPlace, SetToSeqs
  <2> DEFINE p == [j \in D |-> q[j].place]
  <2>2. p \in [D -> D]
    BY <1>9, <2>1
  <2>3. \A j, k \in D : j # k => p[j] # p[k]
    BY <1>9, <2>1
  <2>4. \A j, k \in D : j < k => p[j] <= p[k]
    BY <2>1
  <2> HIDE DEF p
  <2>5. \A j \in D : p[j] = j
    BY <1>1, <2>2, <2>3, <2>4, OrderedNumbers
  <2>6. \A j \in D : q[j] = o[j]
    BY <1>9, <2>1, <2>5 DEF p
  <2> QED
    BY <1>4, <2>1, <2>6
<1> QED
  BY <1>10, <1>11 DEF F, o

\* So what is listed for one of its letters is the group as it was sent.
LEMMA ListedAsSent ==
  ASSUME NEW s \in Submissions, s.kind = "group", ~Repeats(s),
         \A row \in RowsOf(s) : row.country # Null,
         IsInjective([i \in DOMAIN s.picks |-> s.picks[i].letter]),
         NEW rows, RowsOf(s) \subseteq rows,
         \A row \in rows \ RowsOf(s) :
           \/ row.user # s.user \/ KindOf(row) # s.kind \/ row.letter \notin LettersOf(s)
  PROVE  {g \in ListGroupPicks(rows, s.user) : g.letter \in LettersOf(s)}
         = {g \in ToSet(s.picks) : g.order # <<>>}
<1> DEFINE Of(i) == [j \in 1 .. Len(s.picks[i].order) |-> RowOf(s, i, j)]
           Read(l, o) == [letter |-> l, order |-> [j \in DOMAIN o |-> o[j].country],
                          extra |-> Last(o).extra, round |-> Null]
           mine == {row \in rows : row.user = s.user /\ KindOf(row) = "group"}
           letters == {row.letter : row \in mine}
<1>1. ASSUME NEW i \in DOMAIN s.picks, NEW j \in 1 .. Len(s.picks[i].order)
      PROVE  /\ RowOf(s, i, j) \in rows /\ RowOf(s, i, j).user = s.user
             /\ KindOf(RowOf(s, i, j)) = "group"
             /\ RowOf(s, i, j).letter = s.picks[i].letter
             /\ RowOf(s, i, j).country = s.picks[i].order[j]
             /\ RowOf(s, i, j).extra = s.picks[i].extra
  BY EachIsARow DEF RowOf, KindOf
<1>2. ASSUME NEW i \in DOMAIN s.picks
      PROVE  GroupRows(rows, s.user, s.picks[i].letter)
             = {RowOf(s, i, j) : j \in 1 .. Len(s.picks[i].order)}
  <2>1. ASSUME NEW row \in GroupRows(rows, s.user, s.picks[i].letter)
        PROVE  \E j \in 1 .. Len(s.picks[i].order) : row = RowOf(s, i, j)
    <3>1. row \in RowsOf(s) /\ row.letter = s.picks[i].letter
      BY DEF GroupRows, LettersOf
    <3>2. PICK e \in Entries(s) : row = RowOf(s, e[1], e[2])
      BY <3>1 DEF RowsOf
    <3>3. e[1] \in DOMAIN s.picks /\ e[2] \in DOMAIN s.picks[e[1]].order
      BY <3>2 DEF Entries
    <3>4. s.picks[e[1]].letter = s.picks[i].letter
      BY <3>1, <3>2 DEF RowOf
    <3>5. e[1] = i
      BY <3>3, <3>4 DEF IsInjective
    <3>6. DOMAIN s.picks[i].order = 1 .. Len(s.picks[i].order)
      BY EachIsARow
    <3> QED
      BY <3>2, <3>3, <3>5, <3>6
  <2> QED
    BY <1>1, <2>1 DEF GroupRows
<1>3. ASSUME NEW i \in DOMAIN s.picks
      PROVE  ByPlace(GroupRows(rows, s.user, s.picks[i].letter)) = {Of(i)}
  BY <1>2, OneOrder
<1>4. ASSUME NEW i \in DOMAIN s.picks, s.picks[i].order # <<>>
      PROVE  Read(s.picks[i].letter, Of(i)) = s.picks[i]
  <2> DEFINE g == s.picks[i]
             n == Len(g.order)
  <2>1. g \in Pick /\ g.round = Null /\ g.order \in Seq(Countries \cup {Null})
    BY EachIsARow
  <2>2. n \in Nat /\ n # 0 /\ n \in 1 .. n /\ g.order = [j \in 1 .. n |-> g.order[j]]
    BY <1>4, <2>1
  <2>3. Len(Of(i)) = n /\ DOMAIN Of(i) = 1 .. n
    BY <2>2
  <2>4. Last(Of(i)) = RowOf(s, i, n)
    BY <2>2, <2>3 DEF Last
  <2>5. [j \in 1 .. n |-> Of(i)[j].country] = g.order
    BY <1>1, <2>2
  <2>6. Last(Of(i)).extra = g.extra
    BY <1>1, <2>2, <2>4
  <2>7. g = [letter |-> g.letter, order |-> g.order, extra |-> g.extra, round |-> g.round]
    BY <2>1 DEF Pick
  <2> HIDE DEF g, n, Of
  <2> QED
    BY <2>1, <2>3, <2>5, <2>6, <2>7 DEF g
<1>5. ListGroupPicks(rows, s.user) =
        UNION {{Read(l, o) : o \in ByPlace(GroupRows(rows, s.user, l))} : l \in letters}
  BY DEF ListGroupPicks
<1>6. ASSUME NEW i \in DOMAIN s.picks, s.picks[i].letter \in letters
      PROVE  s.picks[i].order # <<>>
  <2>1. PICK row \in mine : row.letter = s.picks[i].letter
    BY <1>6
  <2>2. row \in GroupRows(rows, s.user, s.picks[i].letter)
    BY <2>1 DEF GroupRows
  <2>3. PICK j \in 1 .. Len(s.picks[i].order) : TRUE
    BY <1>2, <2>2
  <2> QED
    BY <2>3
<1>7. ASSUME NEW l \in letters, l \in LettersOf(s),
             NEW o \in ByPlace(GroupRows(rows, s.user, l))
      PROVE  \E i \in DOMAIN s.picks : /\ s.picks[i].order # <<>>
                                       /\ Read(l, o) = s.picks[i]
  <2>1. PICK i \in DOMAIN s.picks : l = s.picks[i].letter
    BY <1>7 DEF LettersOf
  <2>2. o = Of(i) /\ s.picks[i].order # <<>>
    BY <1>3, <1>6, <2>1
  <2> QED
    BY <1>4, <2>1, <2>2
<1>8. ASSUME NEW i \in DOMAIN s.picks, s.picks[i].order # <<>>
      PROVE  /\ s.picks[i].letter \in LettersOf(s)
             /\ s.picks[i] \in ListGroupPicks(rows, s.user)
  <2>1. 1 \in 1 .. Len(s.picks[i].order)
    BY <1>8, EachIsARow
  <2>2. RowOf(s, i, 1) \in mine /\ RowOf(s, i, 1).letter = s.picks[i].letter
    BY <1>1, <2>1
  <2>3. s.picks[i].letter \in letters
    BY <2>2
  <2>4. Of(i) \in ByPlace(GroupRows(rows, s.user, s.picks[i].letter))
    BY <1>3
  <2>5. s.picks[i] = Read(s.picks[i].letter, Of(i))
    BY <1>4, <1>8
  <2>6. s.picks[i].letter \in LettersOf(s)
    BY DEF LettersOf
  <2> HIDE DEF Of, Read, letters
  <2> QED
    BY <1>5, <2>3, <2>4, <2>5, <2>6
<1>9. ToSet(s.picks) = {s.picks[i] : i \in DOMAIN s.picks}
  BY DEF ToSet
<1>10. ASSUME NEW g \in ListGroupPicks(rows, s.user), g.letter \in LettersOf(s)
       PROVE  g \in ToSet(s.picks) /\ g.order # <<>>
  <2>1. PICK l \in letters :
          g \in {Read(l, o) : o \in ByPlace(GroupRows(rows, s.user, l))}
    BY <1>5
  <2>2. PICK o \in ByPlace(GroupRows(rows, s.user, l)) : g = Read(l, o)
    BY <2>1
  <2> QED
    <3>1. g.letter = l
      BY <2>2
    <3>2. g.letter \in LettersOf(s)
      BY <1>10
    <3> HIDE DEF Read
    <3>3. PICK i \in DOMAIN s.picks : s.picks[i].order # <<>> /\ g = s.picks[i]
      BY <1>7, <2>2, <3>1, <3>2
    <3> QED
      BY <1>9, <3>3
<1> HIDE DEF Read, Of, mine, letters
<1> QED
  BY <1>8, <1>9, <1>10

\* (GroupsReadBack) What a user reads back after a save that no other save of the same
\* rows overlapped is what the user sent, group by group and in order, though the order
\* is stored as places of rows and the rows are listed in the order of those.
THEOREM GroupsAreReadBack == Spec => GroupsReadBack
<1>1. ASSUME AloneInv, InsertedHaveKeys, [Next]_boardVars, NEW r \in SaveCalls,
             AnswersAlone(r), saves'[r].answer = "ok", RowsOf(saves[r].item) # {},
             saves[r].item.kind = "group",
             IsInjective([i \in DOMAIN saves[r].item.picks |->
                            saves[r].item.picks[i].letter])
      PROVE  {g \in ListGroupPicks(Stored', saves[r].item.user) :
                g.letter \in LettersOf(saves[r].item)}
             = {g \in ToSet(saves[r].item.picks) : g.order # <<>>}
  <2> DEFINE s == saves[r].item
  <2>1. Stored' = Beside(s) \cup RowsOf(s) /\ saves[r].pc = "commit"
    BY <1>1, AloneLeavesWhole DEF LeavesWhole
  <2>2. KnownInv /\ VersionsInv /\ TypeOK
    BY <1>1 DEF AloneInv, SaveInv, KnownInv
  <2>3. s \in Submissions
    BY <2>1, <2>2, KnownSave DEF SaveInFlight
  <2>4. ~Repeats(s)
    BY <1>1, <2>1 DEF InsertedHaveKeys, Inserted
  <2>5. \A row \in RowsOf(s) : row.country # Null
    <3>1. ASSUME NEW row \in RowsOf(s) PROVE row.country # Null
      <4>1. New(r, row) \in picks
        BY <2>1, <2>2 DEF VersionsInv, RowsAreWritten, Inserted
      <4>2. row \in PickRow
        BY <2>2, <4>1, VersionTypes DEF New
      <4> QED
        BY <4>2, NullAssumption DEF PickRow
    <3> QED
      BY <3>1
  <2>6. \A row \in Stored' \ RowsOf(s) :
          \/ row.user # s.user \/ KindOf(row) # s.kind \/ row.letter \notin LettersOf(s)
    BY <2>1 DEF Beside
  <2>7. RowsOf(s) \subseteq Stored'
    BY <2>1
  <2> QED
    BY <1>1, <2>3, <2>4, <2>5, <2>6, <2>7, ListedAsSent
<1>2. AloneInv /\ InsertedHaveKeys /\ [Next]_boardVars =>
        [\A r \in SaveCalls :
           LET s == saves[r].item
           IN  /\ AnswersAlone(r) /\ saves'[r].answer = "ok" /\ s.kind = "group"
               /\ IsInjective([i \in DOMAIN s.picks |-> s.picks[i].letter])
               /\ RowsOf(s) # {}
               => {g \in ListGroupPicks(Stored', s.user) : g.letter \in LettersOf(s)}
                  = {g \in ToSet(s.picks) : g.order # <<>>}]_predictionVars
  BY <1>1
<1> QED
  BY <1>2, AloneInvariance, KeysInvariance, PTL DEF Spec, GroupsReadBack

----------------------------------------------------------------------------
(***************************************************************************)
(* Scores and payments                                                     *)
(***************************************************************************)
LEMMA AmountAdded ==
  ASSUME NEW score \in Score \cup {Null}, NEW item \in Payments, NEW kind \in Kinds
  PROVE  /\ Amount(score, kind) \in Nat
         /\ Amount(Add(score, item), kind) =
              Amount(score, kind) + IF item.kind = kind THEN item.points ELSE 0
<1> DEFINE old == IF score = Null THEN Zero ELSE score
<1>1. /\ old \in Score /\ item.kind \in Kinds /\ item.points \in Nat
      /\ Add(score, item) # Null
  BY PaymentAssumption, ScoreType
<1>2. Amount(score, kind) = old[kind]
  BY DEF Amount, Zero, Kinds
<1>3. Amount(Add(score, item), kind) = [old EXCEPT ![item.kind] = @ + item.points][kind]
  BY <1>1 DEF Add, Amount
<1> HIDE DEF old
<1>4. old[kind] \in Nat
  BY <1>1 DEF Score, Kinds
<1>5. [old EXCEPT ![item.kind] = @ + item.points][kind] =
        old[kind] + IF item.kind = kind THEN item.points ELSE 0
  <2>1. CASE item.kind = "group"
    BY <1>1, <2>1 DEF Score, Kinds
  <2>2. CASE item.kind = "knockout"
    BY <1>1, <2>2 DEF Score, Kinds
  <2> QED
    BY <1>1, <2>1, <2>2 DEF Kinds
<1> QED
  BY <1>2, <1>3, <1>4, <1>5

LEMMA PaidToNat ==
  ASSUME KnownInv, NEW u, NEW kind
  PROVE  \A p \in PayCalls : PaidTo(pays, u, kind)[p] \in Nat
BY PaymentAssumption DEF KnownInv, PaymentsAreKnown, PaidTo

\* No step of a save changes a score: it makes a missing row, which counts as zero.
LEMMA SaveStepAmount ==
  ASSUME SaveInv, NEW r \in SaveCalls, SaveStep(r), NEW u \in Users, NEW kind \in Kinds
  PROVE  Amount(standings'[u].cur, kind) = Amount(standings[u].cur, kind)
<1>1. KnownInv /\ StandingsAreHeld
  BY DEF SaveInv, StandingsInv
<1>2. CASE standings' = standings
  BY <1>2
<1>3. CASE standings' = Rows!Publish(standings, r) \/ standings' = Rows!Discard(standings, r)
  <2>1. CASE standings[u].by # r
    BY <1>1, <1>3, <2>1, EndStandings
  <2>2. CASE standings[u].by = r
    <3>1. standings[u].cur = Null /\ standings'[u].cur \in {Zero, Null}
      BY <1>1, <1>3, <2>2, EndStandings
    <3> QED
      BY <3>1, ScoreType DEF Amount, Zero, Kinds
  <2> QED
    BY <2>1, <2>2
<1>4. CASE InsertStanding(r)
  <2>1. /\ \A x \in Users \ {User(r)} : standings'[x] = standings[x]
        /\ IF standings[User(r)].cur = Null
           THEN standings'[User(r)] = [cur |-> Null, new |-> Zero, by |-> r]
           ELSE standings'[User(r)] = standings[User(r)]
    BY <1>1, <1>4, InsertStandingWrites
  <2>2. standings'[u].cur = standings[u].cur
    BY <2>1
  <2> QED
    BY <2>2
<1> QED
  BY <1>2, <1>3, <1>4 DEF SaveStep, BeginSave, CheckLock, BeginDelete, DeletePicks, StorePicks,
     CommitSave, GiveUp, RollBack

\* A payment that goes through adds its points to those it pays, and to nobody else.
LEMMA PayUsersPays ==
  ASSUME SaveInv, PaidInv, NEW p \in PayCalls, PayUsers(p)
  PROVE  PaidInv'
<1>1. KnownInv /\ accounts' = accounts /\ accounts \subseteq Users
      /\ pays \in [PayCalls -> PayCall] /\ pays[p].pc = "pay" /\ pays[p].answer # "ok"
  BY DEF SaveInv, KnownInv, TypeOK, PayUsers, PayInFlight, PaymentsAreKnown
<1> SUFFICES ASSUME NEW u \in accounts, NEW kind \in Kinds
             PROVE  Total(PaidTo(pays', u, kind), PayCalls) = Amount(standings'[u].cur, kind)
  BY <1>1 DEF PaidInv
<1> DEFINE w == PaidTo(pays, u, kind)
           v == PaidTo(pays', u, kind)
<1>2. Total(w, PayCalls) = Amount(standings[u].cur, kind) /\ u \in Users
  BY <1>1 DEF PaidInv
<1>3. \A q \in PayCalls : w[q] \in Nat
  BY <1>1, PaidToNat
<1>4. w[p] = 0
  BY <1>1 DEF PaidTo
<1>5. CASE standings' = standings /\
           pays' = [pays EXCEPT ![p].pc = "answered", ![p].answer = "internal"]
  <2>1. \A q \in PayCalls : w[q] = v[q]
    BY <1>1, <1>5 DEF PaidTo, PayCall
  <2> HIDE DEF w, v
  <2>2. Total(w, PayCalls) = Total(v, PayCalls)
    BY <2>1, TotalAgrees, FiniteAssumption
  <2> QED
    BY <1>2, <1>5, <2>2 DEF v
<1>6. CASE /\ pays' = [pays EXCEPT ![p].pc = "answered", ![p].answer = "ok"]
           /\ pays[p].item \in Payments
           /\ IF u \in pays[p].payees
              THEN standings'[u].cur = Add(standings[u].cur, pays[p].item)
              ELSE standings'[u] = standings[u]
  <2> DEFINE paid == IF u \in pays[p].payees /\ pays[p].item.kind = kind
                     THEN pays[p].item.points ELSE 0
  <2>1. v[p] = paid /\ paid \in Nat /\ \A q \in PayCalls \ {p} : w[q] = v[q]
    BY <1>1, <1>6, PaymentAssumption DEF PaidTo, PayCall
  <2>2. standings[u].cur \in Score \cup {Null}
    BY <1>1, <1>2, StandingTypes DEF KnownInv
  <2>3. /\ Amount(standings[u].cur, kind) \in Nat
        /\ Amount(standings'[u].cur, kind) = Amount(standings[u].cur, kind) + paid
    BY <1>6, <2>2, AmountAdded
  <2> HIDE DEF w, v, paid
  <2>4. \A q \in PayCalls : v[q] \in Nat
    BY <1>3, <2>1
  <2>5. Total(v, PayCalls) = Total(w, PayCalls) + (v[p] - w[p])
    BY <1>3, <2>1, <2>4, TotalUpdate, FiniteAssumption
  <2>6. Total(v, PayCalls) = Amount(standings'[u].cur, kind)
    BY <1>2, <1>4, <2>1, <2>3, <2>5
  <2> QED
    BY <2>6 DEF v
<1> QED
  BY <1>1, <1>2, <1>5, <1>6, PayUsersStandings

LEMMA SamePayments ==
  ASSUME KnownInv, PaidInv, accounts' \subseteq accounts,
         \A u \in accounts', kind \in Kinds :
           Amount(standings'[u].cur, kind) = Amount(standings[u].cur, kind),
         \A q \in PayCalls : pays'[q] = pays[q] \/ (pays[q].answer # "ok" /\ pays'[q].answer # "ok")
  PROVE  PaidInv'
<1> SUFFICES ASSUME NEW u \in accounts', NEW kind \in Kinds
             PROVE  Total(PaidTo(pays', u, kind), PayCalls) = Amount(standings'[u].cur, kind)
  BY DEF PaidInv
<1> DEFINE w == PaidTo(pays, u, kind)
           v == PaidTo(pays', u, kind)
<1>1. \A q \in PayCalls : w[q] = v[q]
  BY DEF PaidTo
<1>2. Total(w, PayCalls) = Amount(standings'[u].cur, kind)
  BY DEF PaidInv
<1> HIDE DEF w, v
<1>3. Total(w, PayCalls) = Total(v, PayCalls)
  BY <1>1, TotalAgrees, FiniteAssumption
<1> QED
  BY <1>2, <1>3 DEF v

LEMMA InitPaid == BoardInit => PaidInv
<1> SUFFICES ASSUME BoardInit, NEW u \in accounts, NEW kind \in Kinds
             PROVE  Total(PaidTo(pays, u, kind), PayCalls) = Amount(standings[u].cur, kind)
  BY DEF PaidInv
<1> DEFINE w == PaidTo(pays, u, kind)
<1>1. \A p \in PayCalls : w[p] = 0
  BY DEF PaidTo, BoardInit, PredictionInit
<1>2. Amount(standings[u].cur, kind) = 0
  BY DEF BoardInit, PredictionInit, Amount, Rows!Committed
<1> HIDE DEF w
<1>3. Total(w, PayCalls) = 0
  BY <1>1, TotalZero, FiniteAssumption
<1> QED
  BY <1>2, <1>3 DEF w

LEMMA StepPaid == SaveInv /\ PaidInv /\ [Next]_boardVars => PaidInv'
<1> SUFFICES ASSUME SaveInv, PaidInv, [Next]_boardVars PROVE PaidInv'
  OBVIOUS
<1>1. KnownInv /\ accounts \subseteq Users
  BY DEF SaveInv, KnownInv, TypeOK
<1>2. ASSUME NEW r \in SaveCalls, SaveStep(r) PROVE PaidInv'
  <2>1. pays' = pays /\ accounts' = accounts
    BY <1>2 DEF SaveStep, BeginSave, CheckLock, BeginDelete, DeletePicks, StorePicks,
           InsertStanding, CommitSave, GiveUp, RollBack
  <2>2. \A u \in accounts', kind \in Kinds :
          Amount(standings'[u].cur, kind) = Amount(standings[u].cur, kind)
    BY <1>1, <1>2, <2>1, SaveStepAmount
  <2> QED
    BY <1>1, <2>1, <2>2, SamePayments
<1>3. ASSUME NEW p \in PayCalls, QueryPayees(p) PROVE PaidInv'
  <2>1. standings' = standings /\ accounts' = accounts
    BY <1>3 DEF QueryPayees
  <2>2. pays[p].answer # "ok" /\ pays'[p].answer = pays[p].answer
        /\ \A q \in PayCalls \ {p} : pays'[q] = pays[q]
    <3>1. pays[p].answer # "ok" /\ pays \in [PayCalls -> PayCall]
      BY <1>1, <1>3 DEF QueryPayees, KnownInv, PaymentsAreKnown, TypeOK
    <3>2. \E item, payees :
            pays' = [pays EXCEPT ![p] = [pays[p] EXCEPT !.pc = "pay", !.item = item,
                                                        !.payees = payees]]
      <4>1. PICK item \in Payments :
              pays' = [pays EXCEPT
                ![p].pc = "pay", ![p].item = item,
                ![p].payees = {v.row.user : v \in
                                 {w \in picks : w.live /\ KindOf(w.row) = item.kind}}]
        BY <1>3 DEF QueryPayees
      <4> DEFINE payees == {v.row.user : v \in
                              {w \in picks : w.live /\ KindOf(w.row) = item.kind}}
      <4>2. pays' = [pays EXCEPT ![p] = [pays[p] EXCEPT !.pc = "pay", !.item = item,
                                                        !.payees = payees]]
        BY <4>1
      <4> HIDE DEF payees
      <4> QED
        BY <4>2
    <3> QED
      BY <3>1, <3>2 DEF PayCall
  <2> QED
    BY <1>1, <2>1, <2>2, SamePayments
<1>4. ASSUME NEW u \in Users, DeleteUser(u) PROVE PaidInv'
  <2>1. /\ pays' = pays /\ accounts' = accounts \ {u}
        /\ \A x \in Users \ {u} : standings'[x] = standings[x]
    BY <1>1, <1>4 DEF DeleteUser, KnownInv, TypeOK
  <2> QED
    BY <1>1, <2>1, SamePayments
<1>5. CASE Tick \/ UNCHANGED predictionVars
  BY <1>1, <1>5, SamePayments DEF Tick, predictionVars
<1> QED
  BY <1>2, <1>3, <1>4, <1>5, Steps, PayUsersPays

LEMMA PaidInvariance == Spec => []PaidInv
BY InitPaid, StepPaid, SaveInvariance, PTL DEF Spec

\* The score of a user is the sum of the payments that reached the user, whatever
\* saves make or find the row: no payment is lost or counted twice.
THEOREM ScoresStayPaid == Spec => []ScoresArePaid
<1>1. ASSUME KnownInv, PaidInv, NEW u \in accounts, NEW kind \in Kinds
      PROVE  MapThenSumSet(LAMBDA p : pays[p].item.points, Received(u, kind)) =
               IF standings[u].cur = Null THEN 0 ELSE standings[u].cur[kind]
  <2> DEFINE S == Received(u, kind)
             f == [p \in S |-> pays[p].item.points]
             g == [p \in PayCalls |-> IF p \in S THEN pays[p].item.points ELSE 0]
             w == PaidTo(pays, u, kind)
  <2>1. MapThenSumSet(LAMBDA p : pays[p].item.points, S) = Total(f, S)
    BY Zenon DEF Total, MapThenSumSet, MapThenFoldSet
  <2>2. /\ S \subseteq PayCalls /\ IsFiniteSet(S)
        /\ \A p \in S : w[p] = f[p] /\ w[p] \in Nat
        /\ \A p \in PayCalls : w[p] \in Nat /\ w[p] = IF p \in S THEN w[p] ELSE 0
    <3>1. S \subseteq PayCalls
      BY DEF Received
    <3>2. IsFiniteSet(S)
      BY <3>1, FiniteAssumption, FS_Subset
    <3>3. \A p \in PayCalls : w[p] \in Nat
      BY <1>1, PaidToNat
    <3>4. \A p \in PayCalls : w[p] = IF p \in S THEN pays[p].item.points ELSE 0
      BY DEF PaidTo, Received
    <3> QED
      BY <3>1, <3>2, <3>3, <3>4
  <2>3. Total(w, PayCalls) = Amount(standings[u].cur, kind)
    BY <1>1 DEF PaidInv
  <2> HIDE DEF S, f, w
  <2>4. Total(f, S) = Total(w, S)
    BY <2>2, TotalAgrees
  <2>5. Total(w, PayCalls) = Total(w, S)
    BY <2>2, TotalPart, FiniteAssumption
  <2> USE DEF S
  <2> QED
    BY <2>1, <2>3, <2>4, <2>5 DEF Amount
<1>2. KnownInv /\ PaidInv => ScoresArePaid
  BY <1>1 DEF ScoresArePaid
<1> QED
  BY <1>2, KnownInvariance, PaidInvariance, PTL

----------------------------------------------------------------------------
(***************************************************************************)
(* What a section of a leaderboard shows                                   *)
(***************************************************************************)
LEMMA LeastOfTwo ==
  ASSUME NEW m \in Nat, NEW n \in Nat
  PROVE  Min({m, n}) = IF m <= n THEN m ELSE n
<1>1. \A x, y \in {m, n} : (\A z \in {m, n} : x <= z) /\ (\A z \in {m, n} : y <= z) => x = y
  OBVIOUS
<1>2. \E x \in {m, n} : \A z \in {m, n} : x <= z
  OBVIOUS
<1>3. Min({m, n}) \in {m, n} /\ \A z \in {m, n} : Min({m, n}) <= z
  BY <1>2 DEF Min
<1> QED
  BY <1>3

LEMMA PageShows ==
  ASSUME NEW P, NEW s \in Seq(P), Distinct(s), NEW page \in Pages
  PROVE  LET shown == PageOf(s, page)
         IN  /\ shown \in Seq(P) /\ Distinct(shown)
             /\ page.offset = 0 /\ page.limit >= Len(s) => shown = s
<1> DEFINE first == page.offset + 1
           last == Min({page.offset + page.limit, Len(s)})
           shown == PageOf(s, page)
<1>1. page.offset \in Nat /\ page.limit \in Nat /\ Len(s) \in Nat
  BY BoardAssumption
<1>2. last = IF page.offset + page.limit <= Len(s) THEN page.offset + page.limit ELSE Len(s)
  <2>1. page.offset + page.limit \in Nat
    BY <1>1
  <2> QED
    BY <1>1, <2>1, LeastOfTwo
<1>3. shown = SubSeq(s, first, last)
  BY DEF PageOf
<1> HIDE DEF shown, last
<1>4. /\ first \in Int /\ first >= 1 /\ last \in Int /\ last <= Len(s)
      /\ \A i \in first .. last : i \in DOMAIN s /\ s[i] \in P
  BY <1>1, <1>2
<1> HIDE DEF first
<1>5. /\ shown \in Seq(P)
      /\ Len(shown) = IF first <= last THEN last - first + 1 ELSE 0
      /\ \A i \in 1 .. last - first + 1 : shown[i] = s[first + i - 1]
  BY <1>3, <1>4, SubSeqProperties
<1>6. \A i \in DOMAIN shown : /\ i \in 1 .. last - first + 1
                              /\ first + i - 1 \in DOMAIN s /\ shown[i] = s[first + i - 1]
  <2> SUFFICES ASSUME NEW i \in DOMAIN shown
               PROVE  /\ i \in 1 .. last - first + 1
                      /\ first + i - 1 \in DOMAIN s
    BY <1>5
  <2>1. i \in 1 .. Len(shown) /\ Len(shown) \in Nat
    BY <1>5
  <2>2. first <= last /\ i \in 1 .. last - first + 1
    BY <1>4, <1>5, <2>1
  <2>3. first + i - 1 \in first .. last
    BY <1>4, <2>2
  <2> QED
    BY <1>4, <2>2, <2>3
<1>7. Distinct(shown)
  <2> SUFFICES ASSUME NEW i \in DOMAIN shown, NEW j \in DOMAIN shown, i # j
               PROVE  shown[i] # shown[j]
    BY DEF Distinct
  <2>1. first + i - 1 # first + j - 1
    BY <1>4, <1>6
  <2> QED
    BY <1>6, <2>1 DEF Distinct
<1>8. ASSUME page.offset = 0, page.limit >= Len(s) PROVE shown = s
  <2>1. first = 1 /\ last = Len(s)
    BY <1>1, <1>2, <1>8 DEF first
  <2> QED
    BY <1>3, <2>1, SubSeqFull
<1> QED
  BY <1>5, <1>7, <1>8 DEF shown

LEMMA PointsType ==
  ASSUME TypeOK, NEW u \in accounts
  PROVE  /\ \A kind \in Kinds : /\ Points(u, kind) = Amount(standings[u].cur, kind)
                                /\ Points(u, kind) \in Nat
         /\ Points(u, "overall") = Points(u, "group") + Points(u, "knockout")
         /\ Points(u, "overall") \in Nat
<1>1. u \in Users /\ standings[u].cur \in Score \cup {Null}
  BY StandingTypes DEF TypeOK
<1>2. CASE standings[u].cur = Null
  BY <1>2 DEF Points, Amount
<1>3. CASE standings[u].cur \in Score /\ standings[u].cur # Null
  <2>1. standings[u].cur.group \in Nat /\ standings[u].cur.knockout \in Nat
    BY <1>3 DEF Score
  <2> QED
    BY <1>3, <2>1 DEF Points, Amount, Kinds
<1> QED
  BY <1>1, <1>2, <1>3

\* A list of entries that a statement of a leaderboard may return.
Lists(list, league, page, section) ==
  /\ list \in Seq(Entry) /\ NamesOnce(list)
  /\ \A i \in DOMAIN list : /\ list[i].name \in Listed(league)
                            /\ list[i].score = Points(list[i].name, section)
  /\ page.offset = 0 /\ page.limit >= Cardinality(Users) =>
       \A u \in Listed(league) : \E i \in DOMAIN list : list[i].name = u

LEMMA RankingLists ==
  ASSUME TypeOK, NEW league \in Leagues \cup {Null}, NEW page \in Pages,
         NEW section \in Kinds \cup {"overall"}, NEW s \in Rankings(league, section),
         NEW list,
         LET shown == PageOf(s, page)
         IN  list = [i \in DOMAIN shown |->
                       [name |-> shown[i], score |-> Points(shown[i], section)]]
  PROVE  Lists(list, league, page, section)
<1> DEFINE P == Listed(league)
           shown == PageOf(s, page)
<1>1. P \subseteq accounts /\ accounts \subseteq Users
  BY DEF Listed, TypeOK
<1>2. IsFiniteSet(P) /\ Cardinality(P) <= Cardinality(Users)
      /\ Cardinality(P) \in Nat /\ Cardinality(Users) \in Nat
  BY <1>1, FiniteAssumption, FS_Subset, FS_CardinalityType
<1>3. s \in SetToSeqs(P)
  BY DEF Rankings
<1>4. s \in Seq(P) /\ Elements(s) = P /\ Distinct(s)
  BY <1>2, <1>3, EachOnce
<1>5. Len(s) = Cardinality(P)
  <2>1. DOMAIN s = 1 .. Cardinality(P)
    BY <1>3 DEF SetToSeqs
  <2> QED
    BY <1>2, <1>4, <2>1
<1>6. /\ shown \in Seq(P) /\ Distinct(shown)
      /\ page.offset = 0 /\ page.limit >= Len(s) => shown = s
  BY <1>4, PageShows
<1>7. list = [i \in DOMAIN shown |->
                [name |-> shown[i], score |-> Points(shown[i], section)]]
  OBVIOUS
<1> HIDE DEF shown, P
<1>8. \A u \in P : Points(u, section) \in Nat /\ u \in Users
  BY <1>1, PointsType
<1>9. /\ DOMAIN list = DOMAIN shown /\ DOMAIN shown = 1 .. Len(shown) /\ Len(shown) \in Nat
      /\ \A i \in DOMAIN shown : /\ shown[i] \in P /\ list[i].name = shown[i]
                                 /\ list[i].score = Points(shown[i], section)
                                 /\ list[i] \in Entry
  <2>1. \A i \in DOMAIN shown : shown[i] \in P
    BY <1>6
  <2> QED
    BY <1>6, <1>7, <1>8, <2>1 DEF Entry
<1>10. list \in Seq(Entry)
  BY <1>7, <1>9
<1>11. NamesOnce(list)
  BY <1>6, <1>9 DEF NamesOnce, Distinct
<1>12. ASSUME page.offset = 0, page.limit >= Cardinality(Users), NEW u \in P
       PROVE  \E i \in DOMAIN list : list[i].name = u
  <2>1. page.limit \in Nat
    BY BoardAssumption
  <2>2. shown = s
    BY <1>2, <1>5, <1>6, <1>12, <2>1
  <2> QED
    BY <1>4, <1>9, <2>2 DEF Elements
<1> QED
  BY <1>9, <1>10, <1>11, <1>12 DEF Lists, P

\* The three steps of a leaderboard, as changes of its call.
LEMMA ReadBoardReads ==
  ASSUME BoardsInv, NEW b \in BoardCalls, ReadBoard(b)
  PROVE  \E list :
           \/ /\ boards[b].pc = "group"
              /\ Lists(list, boards[b].league, boards[b].page, "group")
              /\ boards' = [boards EXCEPT ![b] =
                              [boards[b] EXCEPT !.pc = "knockout", !.group = list]]
           \/ /\ boards[b].pc = "knockout"
              /\ Lists(list, boards[b].league, boards[b].page, "knockout")
              /\ boards' = [boards EXCEPT ![b] =
                              [boards[b] EXCEPT !.pc = "overall", !.knockout = list]]
           \/ /\ boards[b].pc = "overall"
              /\ Lists(list, boards[b].league, boards[b].page, "overall")
              /\ boards' = [boards EXCEPT ![b] =
                              [boards[b] EXCEPT !.pc = "answered", !.overall = list]]
<1>1. TypeOK /\ boards \in [BoardCalls -> Board]
  BY DEF BoardsInv, BoardTypeOK
<1>2. ASSUME NEW section \in Kinds \cup {"overall"}, NEW next,
             ReadSection(b, section, section, next)
      PROVE  \E list :
               /\ boards[b].pc = section
               /\ Lists(list, boards[b].league, boards[b].page, section)
               /\ boards' = [boards EXCEPT ![b] =
                               [[boards[b] EXCEPT !.pc = next] EXCEPT ![section] = list]]
  <2>1. boards[b].pc = section
    BY <1>2 DEF ReadSection
  <2>2. PICK s \in Rankings(boards[b].league, section) :
          LET shown == PageOf(s, boards[b].page)
          IN  boards' = [boards EXCEPT
                ![b].pc = next,
                ![b][section] =
                  [i \in DOMAIN shown |->
                     [name |-> shown[i], score |-> Points(shown[i], section)]]]
    BY <1>2 DEF ReadSection
  <2> DEFINE shown == PageOf(s, boards[b].page)
             list == [i \in DOMAIN shown |->
                        [name |-> shown[i], score |-> Points(shown[i], section)]]
  <2>3. boards' = [boards EXCEPT ![b].pc = next, ![b][section] = list]
    BY <2>2
  <2>4. boards[b].league \in Leagues \cup {Null} /\ boards[b].page \in Pages
    <3>1. boards[b].pc # "idle"
      BY <2>1 DEF Kinds
    <3> QED
      BY <1>1, <3>1 DEF BoardsInv, BoardReads, Board
  <2>5. Lists(list, boards[b].league, boards[b].page, section)
    BY <1>1, <2>4, RankingLists
  <2> HIDE DEF list
  <2>6. boards' = [boards EXCEPT ![b] =
                     [[boards[b] EXCEPT !.pc = next] EXCEPT ![section] = list]]
    BY <1>1, <2>3
  <2> QED
    BY <2>1, <2>5, <2>6
<1>3. CASE ReadSection(b, "group", "group", "knockout")
  <2>1. "group" \in Kinds \cup {"overall"}
    BY DEF Kinds
  <2>2. PICK list :
          /\ boards[b].pc = "group"
          /\ Lists(list, boards[b].league, boards[b].page, "group")
          /\ boards' = [boards EXCEPT ![b] =
                          [[boards[b] EXCEPT !.pc = "knockout"] EXCEPT !["group"] = list]]
    BY <1>2, <1>3, <2>1
  <2> QED
    BY <2>2
<1>4. CASE ReadSection(b, "knockout", "knockout", "overall")
  <2>1. "knockout" \in Kinds \cup {"overall"}
    BY DEF Kinds
  <2>2. PICK list :
          /\ boards[b].pc = "knockout"
          /\ Lists(list, boards[b].league, boards[b].page, "knockout")
          /\ boards' = [boards EXCEPT ![b] =
                          [[boards[b] EXCEPT !.pc = "overall"] EXCEPT !["knockout"] = list]]
    BY <1>2, <1>4, <2>1
  <2> QED
    BY <2>2
<1>5. CASE ReadSection(b, "overall", "overall", "answered")
  <2>1. "overall" \in Kinds \cup {"overall"}
    BY DEF Kinds
  <2>2. PICK list :
          /\ boards[b].pc = "overall"
          /\ Lists(list, boards[b].league, boards[b].page, "overall")
          /\ boards' = [boards EXCEPT ![b] =
                          [[boards[b] EXCEPT !.pc = "answered"] EXCEPT !["overall"] = list]]
    BY <1>2, <1>5, <2>1
  <2> QED
    BY <2>2
<1> QED
  BY <1>3, <1>4, <1>5 DEF ReadBoard

----------------------------------------------------------------------------
(***************************************************************************)
(* What a leaderboard has read is outgrown                                 *)
(***************************************************************************)
LEMMA AmountType ==
  ASSUME TypeOK, NEW u \in Users, NEW kind \in Kinds
  PROVE  Amount(standings[u].cur, kind) \in Nat
<1>1. standings[u].cur \in Score \cup {Null}
  BY StandingTypes
<1> QED
  BY <1>1 DEF Amount, Score, Kinds

\* Who still plays keeps the place in contest_standings, and no score falls.
LEMMA ScoresGrow ==
  ASSUME SaveInv, [Next]_boardVars, NEW u \in accounts'
  PROVE  /\ u \in accounts
         /\ standings[u].cur # Null => standings'[u].cur # Null
         /\ \A kind \in Kinds :
              Amount(standings[u].cur, kind) <= Amount(standings'[u].cur, kind)
<1>1. KnownInv /\ StandingsAreHeld /\ TypeOK /\ accounts \subseteq Users
  BY DEF SaveInv, StandingsInv, KnownInv, TypeOK
<1>2. ASSUME NEW r \in SaveCalls, SaveStep(r)
      PROVE  /\ u \in accounts
             /\ standings[u].cur # Null => standings'[u].cur # Null
             /\ \A kind \in Kinds :
                  Amount(standings[u].cur, kind) = Amount(standings'[u].cur, kind)
  <2>1. accounts' = accounts
    BY <1>2 DEF SaveStep, BeginSave, CheckLock, BeginDelete, DeletePicks, StorePicks,
           InsertStanding, CommitSave, GiveUp, RollBack
  <2>2. u \in Users
    BY <1>1, <2>1
  <2>3. standings[u].cur # Null => standings'[u].cur = standings[u].cur
    <3>1. CASE standings' = standings
      BY <3>1
    <3>2. CASE standings' = Rows!Publish(standings, r) \/ standings' = Rows!Discard(standings, r)
      BY <1>1, <2>2, <3>2, EndStandings
    <3>3. CASE InsertStanding(r)
      <4>1. /\ \A x \in Users \ {User(r)} : standings'[x] = standings[x]
            /\ standings[User(r)].cur # Null => standings'[User(r)] = standings[User(r)]
        BY <1>1, <3>3, InsertStandingWrites
      <4> QED
        BY <2>2, <4>1
    <3> QED
      BY <1>2, <3>1, <3>2, <3>3 DEF SaveStep, BeginSave, CheckLock, BeginDelete, DeletePicks,
         StorePicks, CommitSave, GiveUp, RollBack
  <2> QED
    BY <1>2, <2>1, <2>2, <2>3, SaveStepAmount
<1>3. ASSUME NEW p \in PayCalls, PayUsers(p)
      PROVE  /\ u \in accounts
             /\ standings[u].cur # Null => standings'[u].cur # Null
             /\ \A kind \in Kinds :
                  Amount(standings[u].cur, kind) <= Amount(standings'[u].cur, kind)
  <2>1. u \in accounts /\ u \in Users
    BY <1>1, <1>3 DEF PayUsers
  <2>2. standings[u].cur \in Score \cup {Null}
    BY <1>1, <2>1, StandingTypes
  <2>3. \/ standings'[u] = standings[u]
        \/ /\ pays[p].item \in Payments /\ standings'[u].cur # Null
           /\ standings'[u].cur = Add(standings[u].cur, pays[p].item)
    BY <1>1, <1>3, <2>1, PayUsersStandings
  <2>4. ASSUME NEW kind \in Kinds
        PROVE  Amount(standings[u].cur, kind) <= Amount(standings'[u].cur, kind)
    <3>1. CASE standings'[u] = standings[u]
      BY <1>1, <2>1, <3>1, AmountType
    <3>2. CASE /\ pays[p].item \in Payments
               /\ standings'[u].cur = Add(standings[u].cur, pays[p].item)
      <4>1. pays[p].item.points \in Nat
        BY <3>2, PaymentAssumption
      <4> QED
        BY <2>2, <3>2, <4>1, AmountAdded
    <3> QED
      BY <2>3, <3>1, <3>2
  <2> QED
    BY <2>1, <2>3, <2>4
<1>4. ASSUME u \in accounts, standings'[u] = standings[u]
      PROVE  /\ u \in accounts
             /\ standings[u].cur # Null => standings'[u].cur # Null
             /\ \A kind \in Kinds :
                  Amount(standings[u].cur, kind) <= Amount(standings'[u].cur, kind)
  BY <1>1, <1>4, AmountType
<1>5. ASSUME NEW x \in Users, DeleteUser(x)
      PROVE  u \in accounts /\ standings'[u] = standings[u]
  BY <1>1, <1>5 DEF DeleteUser, TypeOK
<1>6. CASE \/ \E p \in PayCalls : QueryPayees(p)
           \/ Tick \/ UNCHANGED predictionVars
  <2>1. u \in accounts /\ standings'[u] = standings[u]
    BY <1>6 DEF QueryPayees, Tick, predictionVars
  <2> QED
    BY <1>4, <2>1
<1> QED
  BY <1>1, <1>2, <1>3, <1>4, <1>5, <1>6, Steps, AmountType

\* Subcontests only go away, and entries only with their subcontest or user.
LEMMA EntriesStay ==
  ASSUME [Next]_boardVars
  PROVE  /\ leagues' \subseteq leagues
         /\ \A l \in leagues', u \in accounts' : <<l, u>> \in entries => <<l, u>> \in entries'
         /\ entries \subseteq Leagues \X Users => entries' \subseteq Leagues \X Users
<1>1. CASE PredictionStep
  BY <1>1 DEF PredictionStep, Within
<1>2. ASSUME NEW l \in Leagues, NEW u \in Users, JoinLeague(l, u)
      PROVE  /\ leagues' = leagues
             /\ entries' = entries \cup {<<l, u>>} /\ <<l, u>> \in Leagues \X Users
  BY <1>2 DEF JoinLeague
<1>3. ASSUME NEW l \in Leagues, DeleteLeague(l)
      PROVE  /\ leagues' \subseteq leagues /\ accounts' = accounts
             /\ entries' = {e \in entries : e[1] \in leagues' /\ e[2] \in accounts}
  BY <1>3 DEF DeleteLeague, Within, predictionVars
<1>4. CASE \/ \E b \in BoardCalls : BeginBoard(b) \/ ReadBoard(b)
           \/ AllAnswered \/ UNCHANGED boardVars
  <2>1. leagues' = leagues /\ entries' = entries
    BY <1>4 DEF BeginBoard, ReadBoard, ReadSection, AllAnswered, boardVars, leagueVars
  <2> QED
    BY <2>1
<1> QED
  BY <1>1, <1>2, <1>3, <1>4 DEF Next

LEMMA PlayersStay ==
  ASSUME SaveInv, TypeOK', [Next]_boardVars, NEW name \in accounts', NEW league,
         NEW section \in Kinds
  PROVE  /\ name \in accounts
         /\ Stands(league)' => Stands(league)
         /\ Stands(league)' /\ name \in Listed(league) => name \in Listed(league)'
         /\ Points(name, section) \in Nat /\ Points(name, section)' \in Nat
         /\ Points(name, section) <= Points(name, section)'
<1>1. name \in accounts /\ TypeOK
  BY ScoresGrow DEF SaveInv, KnownInv
<1>2. /\ Stands(league)' => Stands(league)
      /\ Stands(league)' /\ name \in Listed(league) => name \in Listed(league)'
  <2>1. standings[name].cur # Null => standings'[name].cur # Null
    BY ScoresGrow
  <2> QED
    BY <2>1, EntriesStay DEF Listed, Stands
<1>3. standings'[name].cur \in Score \cup {Null}
  BY DEF TypeOK, Rows!RowVersion
<1>4. Amount(standings'[name].cur, section) \in Nat
  BY <1>3 DEF Amount, Score, Kinds
<1>5. Points(name, section)' = Amount(standings'[name].cur, section)
  BY DEF Points, Amount, Kinds
<1>6. /\ Points(name, section) = Amount(standings[name].cur, section)
      /\ Points(name, section) \in Nat
  BY <1>1, PointsType
<1>7. Amount(standings[name].cur, section) <= Amount(standings'[name].cur, section)
  BY ScoresGrow
<1> QED
  BY <1>1, <1>2, <1>4, <1>5, <1>6, <1>7

\* A board that does not take the step stays right.
LEMMA BoardWaits ==
  ASSUME SaveInv, TypeOK', [Next]_boardVars, NEW b \in BoardCalls, BoardReads(b),
         boards'[b] = boards[b], boards[b] \in Board
  PROVE  BoardReads(b)'
<1>1. accounts' \subseteq accounts /\ leagues' \subseteq leagues
  BY ScoresGrow, EntriesStay
<1>2. ASSUME NEW section \in Kinds, ReadIsOutgrown(b, section)
      PROVE  ReadIsOutgrown(b, section)'
  <2>1. ASSUME NEW e, \E i \in DOMAIN boards[b][section] : e = boards[b][section][i],
               e.name \in accounts', NEW league, league = boards[b].league
        PROVE  /\ Stands(league)' => e.name \in Listed(league)'
               /\ e.score <= Points(e.name, section)'
    <3>1. e.score \in Nat
      <4>1. boards[b].group \in Seq(Entry) /\ boards[b].knockout \in Seq(Entry)
        BY DEF Board
      <4>2. boards[b][section] \in Seq(Entry)
        BY <4>1 DEF Kinds
      <4>3. e \in Entry
        BY <2>1, <4>2
      <4> QED
        BY <4>3 DEF Entry
    <3>2. /\ e.name \in accounts
          /\ Stands(league)' => Stands(league)
          /\ Stands(league)' /\ e.name \in Listed(league) => e.name \in Listed(league)'
          /\ Points(e.name, section) \in Nat /\ Points(e.name, section)' \in Nat
          /\ Points(e.name, section) <= Points(e.name, section)'
      BY <2>1, PlayersStay
    <3>3. /\ Stands(league) => e.name \in Listed(league)
          /\ e.score <= Points(e.name, section)
      BY <1>2, <2>1, <3>2 DEF ReadIsOutgrown
    <3> QED
      BY <3>1, <3>2, <3>3
  <2> QED
    BY <2>1 DEF ReadIsOutgrown
<1>3. AddsUp(b) => AddsUp(b)'
  BY <1>1 DEF AddsUp, Stands
<1>4. "group" \in Kinds /\ "knockout" \in Kinds
  BY DEF Kinds
<1> QED
  BY <1>2, <1>3, <1>4 DEF BoardReads

\* A step of board b: what it has read is as of now.
LEMMA FreshlyRead ==
  ASSUME NEW b \in BoardCalls, NEW section \in Kinds, NEW list,
         Lists(list, boards[b].league, boards[b].page, section),
         boards'[b][section] = list, boards'[b].league = boards[b].league,
         UNCHANGED <<predictionVars, leagueVars>>, TypeOK
  PROVE  ReadIsOutgrown(b, section)'
<1>1. \A i \in DOMAIN list : /\ list[i].name \in Listed(boards[b].league)
                             /\ list[i].score = Points(list[i].name, section)
  BY DEF Lists
<1>2. \A u \in accounts : Points(u, section) \in Nat
  BY PointsType
<1>3. accounts' = accounts /\ standings' = standings /\ leagues' = leagues /\ entries' = entries
  BY DEF predictionVars, leagueVars
<1>4. \A u : Points(u, section)' = Points(u, section)
  BY <1>3 DEF Points
<1>5. \A i \in DOMAIN list :
        list[i].name \in accounts => list[i].score <= Points(list[i].name, section)
  BY <1>1, <1>2
<1> SUFFICES ASSUME NEW i \in DOMAIN list, list[i].name \in accounts
             PROVE  /\ list[i].name \in Listed(boards[b].league)
                    /\ list[i].score <= Points(list[i].name, section)
  BY <1>3, <1>4 DEF ReadIsOutgrown, Listed, Points
<1> QED
  BY <1>1, <1>5

LEMMA StillOutgrown ==
  ASSUME NEW b \in BoardCalls, NEW section \in Kinds, ReadIsOutgrown(b, section),
         boards'[b][section] = boards[b][section], boards'[b].league = boards[b].league,
         UNCHANGED <<predictionVars, leagueVars>>
  PROVE  ReadIsOutgrown(b, section)'
BY DEF ReadIsOutgrown, predictionVars, leagueVars, Listed, Points, Stands

\* The overall section is read last, of scores that have outgrown the other two.
LEMMA OverallAddsUp ==
  ASSUME TypeOK, NEW b \in BoardCalls, boards[b] \in Board, boards[b].page \in Pages,
         ReadIsOutgrown(b, "group"), ReadIsOutgrown(b, "knockout"),
         NEW list, Lists(list, boards[b].league, boards[b].page, "overall"),
         boards'[b] = [boards[b] EXCEPT !.pc = "answered", !.overall = list],
         UNCHANGED <<predictionVars, leagueVars>>
  PROVE  AddsUp(b)'
<1> DEFINE group == boards[b].group
           knockout == boards[b].knockout
           page == boards[b].page
<1>1. /\ boards'[b].group = group /\ boards'[b].knockout = knockout
      /\ boards'[b].overall = list /\ boards'[b].page = page /\ accounts' = accounts
      /\ boards'[b].league = boards[b].league /\ leagues' = leagues
  BY DEF Board, predictionVars, leagueVars
<1>2. /\ page.limit \in Nat /\ page.offset \in Nat /\ Cardinality(Users) \in Nat
  BY BoardAssumption, FiniteAssumption, FS_CardinalityType
<1>3. ASSUME NEW i \in DOMAIN group, NEW j \in DOMAIN knockout, group[i].name = knockout[j].name
      PROVE  \/ \E l \in DOMAIN list : /\ list[l].name = group[i].name
                                       /\ list[l].score >= group[i].score + knockout[j].score
             \/ /\ \A l \in DOMAIN list : list[l].name # group[i].name
                /\ \/ group[i].name \notin accounts
                   \/ ~Stands(boards[b].league)
                   \/ page.offset > 0
                   \/ page.limit < Cardinality(Users)
  <2> DEFINE u == group[i].name
  <2>1. u \in accounts =>
          /\ Stands(boards[b].league) => u \in Listed(boards[b].league)
          /\ group[i].score <= Points(u, "group")
          /\ knockout[j].score <= Points(u, "knockout")
    BY <1>3 DEF ReadIsOutgrown
  <2>2. group[i].score \in Nat /\ knockout[j].score \in Nat
    <3>1. group \in Seq(Entry) /\ knockout \in Seq(Entry)
      BY DEF Board
    <3>2. group[i] \in Entry /\ knockout[j] \in Entry
      BY <3>1
    <3> QED
      BY <3>2 DEF Entry
  <2> HIDE DEF group, knockout, page
  <2>3. CASE \E l \in DOMAIN list : list[l].name = u
    <3>1. PICK l \in DOMAIN list : list[l].name = u
      BY <2>3
    <3>2. u \in accounts /\ list[l].score = Points(u, "overall")
      BY <3>1 DEF Lists, Listed
    <3>3. /\ Points(u, "group") \in Nat /\ Points(u, "knockout") \in Nat
          /\ Points(u, "overall") = Points(u, "group") + Points(u, "knockout")
      BY <3>2, PointsType DEF Kinds
    <3>4. list[l].score >= group[i].score + knockout[j].score
      BY <2>1, <2>2, <3>2, <3>3
    <3> QED
      BY <3>1, <3>4
  <2>4. CASE \A l \in DOMAIN list : list[l].name # u
    <3>1. \/ u \notin accounts \/ ~Stands(boards[b].league)
          \/ ~(page.offset = 0 /\ page.limit >= Cardinality(Users))
      BY <2>1, <2>4 DEF Lists, page
    <3> QED
      BY <1>2, <2>4, <3>1
  <2> QED
    BY <2>3, <2>4
<1> QED
  BY <1>1, <1>3 DEF AddsUp, Stands

LEMMA BoardSteps ==
  ASSUME TypeOK, BoardsInv, NEW b \in BoardCalls, BeginBoard(b) \/ ReadBoard(b)
  PROVE  /\ boards' \in [BoardCalls -> Board] /\ BoardReads(b)'
         /\ UNCHANGED <<predictionVars, leagueVars>>
         /\ \A c \in BoardCalls \ {b} : boards'[c] = boards[c]
<1>1. boards \in [BoardCalls -> Board] /\ BoardReads(b) /\ boards[b] \in Board
  BY DEF BoardsInv, BoardTypeOK
<1>2. UNCHANGED <<predictionVars, leagueVars>>
  BY DEF BeginBoard, ReadBoard, ReadSection
<1>3. "group" \in Kinds /\ "knockout" \in Kinds
  BY DEF Kinds
<1>4. CASE BeginBoard(b)
  <2>1. PICK league \in leagues \cup {Null}, page \in Pages :
          boards' = [boards EXCEPT ![b].pc = "group", ![b].league = league,
                                   ![b].page = page]
    BY <1>4 DEF BeginBoard
  <2> DEFINE call == [boards[b] EXCEPT !.pc = "group", !.league = league, !.page = page]
  <2>2. boards' = [boards EXCEPT ![b] = call]
    BY <2>1
  <2>3. /\ call \in Board /\ call.pc = "group" /\ call.page \in Pages
        /\ call.group = boards[b].group /\ call.knockout = boards[b].knockout
        /\ call.overall = boards[b].overall
    BY <1>1 DEF Board, BoardsInv, BoardTypeOK
  <2>4. boards[b].pc = "idle"
    BY <1>4 DEF BeginBoard
  <2> HIDE DEF call
  <2>5. BoardReads(b)'
    BY <1>1, <2>2, <2>3, <2>4 DEF BoardReads, ReadIsOutgrown
  <2> QED
    BY <1>1, <1>2, <2>2, <2>3, <2>5
<1>5. CASE ReadBoard(b)
  <2>1. ASSUME NEW list, boards[b].pc = "group",
               Lists(list, boards[b].league, boards[b].page, "group"),
               boards' = [boards EXCEPT ![b] =
                              [boards[b] EXCEPT !.pc = "knockout", !.group = list]]
        PROVE  boards' \in [BoardCalls -> Board] /\ BoardReads(b)'
    <3> DEFINE call == [boards[b] EXCEPT !.pc = "knockout", !.group = list]
    <3>1. /\ call \in Board /\ call.pc = "knockout" /\ call.page = boards[b].page
          /\ call.group = list /\ call.knockout = boards[b].knockout
          /\ call.overall = boards[b].overall /\ call.league = boards[b].league
      BY <1>1, <2>1 DEF Board, Lists
    <3>2. boards' = [boards EXCEPT ![b] = call]
      BY <2>1
    <3> HIDE DEF call
    <3>3. boards' \in [BoardCalls -> Board] /\ boards'[b] = call
      BY <1>1, <3>1, <3>2
    <3>4. ReadIsOutgrown(b, "group")'
      BY <1>2, <1>3, <2>1, <3>1, <3>3, FreshlyRead
    <3> QED
      BY <1>1, <2>1, <3>1, <3>3, <3>4 DEF BoardReads, ReadIsOutgrown, Lists
  <2>2. ASSUME NEW list, boards[b].pc = "knockout",
               Lists(list, boards[b].league, boards[b].page, "knockout"),
               boards' = [boards EXCEPT ![b] =
                              [boards[b] EXCEPT !.pc = "overall", !.knockout = list]]
        PROVE  boards' \in [BoardCalls -> Board] /\ BoardReads(b)'
    <3> DEFINE call == [boards[b] EXCEPT !.pc = "overall", !.knockout = list]
    <3>1. /\ call \in Board /\ call.pc = "overall" /\ call.page = boards[b].page
          /\ call.group = boards[b].group /\ call.knockout = list
          /\ call.overall = boards[b].overall /\ call.league = boards[b].league
      BY <1>1, <2>2 DEF Board, Lists
    <3>2. boards' = [boards EXCEPT ![b] = call]
      BY <2>2
    <3> HIDE DEF call
    <3>3. boards' \in [BoardCalls -> Board] /\ boards'[b] = call
      BY <1>1, <3>1, <3>2
    <3>4. ReadIsOutgrown(b, "knockout")'
      BY <1>2, <1>3, <2>2, <3>1, <3>3, FreshlyRead
    <3>5. ReadIsOutgrown(b, "group")'
      BY <1>1, <1>2, <1>3, <2>2, <3>1, <3>3, StillOutgrown DEF BoardReads
    <3> QED
      BY <1>1, <2>2, <3>1, <3>3, <3>4, <3>5 DEF BoardReads, Lists
  <2>3. ASSUME NEW list, boards[b].pc = "overall",
               Lists(list, boards[b].league, boards[b].page, "overall"),
               boards' = [boards EXCEPT ![b] =
                              [boards[b] EXCEPT !.pc = "answered", !.overall = list]]
        PROVE  boards' \in [BoardCalls -> Board] /\ BoardReads(b)'
    <3> DEFINE call == [boards[b] EXCEPT !.pc = "answered", !.overall = list]
    <3>1. /\ call \in Board /\ call.pc = "answered" /\ call.page = boards[b].page
          /\ call.group = boards[b].group /\ call.knockout = boards[b].knockout
          /\ call.overall = list
      BY <1>1, <2>3 DEF Board, Lists
    <3>2. boards' = [boards EXCEPT ![b] = call]
      BY <2>3
    <3>3. AddsUp(b)'
      <4>1. boards'[b] = [boards[b] EXCEPT !.pc = "answered", !.overall = list]
        BY <1>1, <2>3
      <4> QED
        BY <1>1, <1>2, <2>3, <4>1, OverallAddsUp DEF BoardReads
    <3> HIDE DEF call
    <3>4. boards' \in [BoardCalls -> Board] /\ boards'[b] = call
      BY <1>1, <3>1, <3>2
    <3> QED
      BY <1>1, <2>3, <3>1, <3>3, <3>4 DEF BoardReads, Lists
  <2>4. \A c \in BoardCalls \ {b} : boards'[c] = boards[c]
    BY <1>1, <1>5 DEF ReadBoard, ReadSection
  <2> QED
    BY <1>2, <1>5, <2>1, <2>2, <2>3, <2>4, ReadBoardReads
<1> QED
  BY <1>4, <1>5

LEMMA InitBoards == BoardInit => BoardsInv
<1> SUFFICES ASSUME BoardInit PROVE BoardsInv
  OBVIOUS
<1>1. BoardTypeOK
  <2>1. entries \subseteq Leagues \X Users
    BY BoardAssumption DEF BoardInit
  <2> QED
    BY <2>1, InitKnown DEF BoardInit, BoardTypeOK, KnownInv, Board
<1>2. \A b \in BoardCalls : BoardReads(b)
  BY DEF BoardInit, BoardReads, NamesOnce, ReadIsOutgrown
<1> QED
  BY <1>1, <1>2 DEF BoardsInv

LEMMA StepBoards == SaveInv /\ BoardsInv /\ [Next]_boardVars => BoardsInv'
<1> SUFFICES ASSUME SaveInv, BoardsInv, [Next]_boardVars PROVE BoardsInv'
  OBVIOUS
<1>1. /\ TypeOK /\ TypeOK' /\ boards \in [BoardCalls -> Board]
      /\ \A b \in BoardCalls : BoardReads(b)
      /\ leagues' \subseteq Leagues /\ entries' \subseteq Leagues \X Users
  BY StepKnown, EntriesStay DEF SaveInv, KnownInv, BoardsInv, BoardTypeOK
<1>2. ASSUME NEW b \in BoardCalls, boards'[b] = boards[b] PROVE BoardReads(b)'
  BY <1>1, <1>2, BoardWaits
<1>3. CASE boards' = boards
  BY <1>1, <1>2, <1>3 DEF BoardsInv, BoardTypeOK
<1>4. ASSUME NEW b \in BoardCalls, BeginBoard(b) \/ ReadBoard(b) PROVE BoardsInv'
  <2>1. /\ boards' \in [BoardCalls -> Board] /\ BoardReads(b)'
        /\ \A c \in BoardCalls \ {b} : boards'[c] = boards[c]
    BY <1>1, <1>4, BoardSteps
  <2> QED
    BY <1>1, <1>2, <2>1 DEF BoardsInv, BoardTypeOK
<1> QED
  BY <1>3, <1>4
     DEF Next, PredictionStep, JoinLeague, DeleteLeague, AllAnswered, boardVars

LEMMA BoardsInvariance == Spec => []BoardsInv
BY InitBoards, StepBoards, SaveInvariance, PTL DEF Spec

\* A leaderboard lists users and counts points in natural numbers, whatever pages
\* are asked for and whoever is deleted meanwhile.
THEOREM BoardsStayTyped == Spec => []BoardTypeOK
<1>1. BoardsInv => BoardTypeOK
  BY DEF BoardsInv
<1> QED
  BY <1>1, BoardsInvariance, PTL

\* What is shown of a user is the user's only entry.
LEMMA ShownIsEntry ==
  ASSUME NEW b \in BoardCalls, NEW section, NEW u, NamesOnce(boards[b][section]),
         NEW i \in DOMAIN boards[b][section], boards[b][section][i].name = u
  PROVE  Shown(b, section, u) = boards[b][section][i].score
<1> DEFINE list == boards[b][section]
           e == CHOOSE x \in ToSet(list) : x.name = u
<1>1. list[i] \in ToSet(list)
  BY DEF ToSet
<1>2. e \in ToSet(list) /\ e.name = u
  BY <1>1
<1> HIDE DEF e
<1>3. PICK j \in DOMAIN list : e = list[j]
  BY <1>2 DEF ToSet
<1>4. e = list[i]
  BY <1>2, <1>3 DEF NamesOnce
<1> QED
  BY <1>4 DEF Shown, e

\* The three sections are read at three times and yet agree: nobody's overall score
\* is below the sum of the other two, since the overall section is read last and
\* scores never fall; and on a page with room for all, whoever the first two show is
\* missing from the third only if the account or the subcontest has been deleted.
THEOREM BoardsStayExact == Spec => []BoardsAddUp
<1>1. ASSUME BoardsInv, NEW b \in BoardCalls, NEW u \in Users, boards[b].pc = "answered",
             Shows(b, "group", u), Shows(b, "knockout", u)
      PROVE  IF Shows(b, "overall", u)
             THEN Shown(b, "overall", u) >= Shown(b, "group", u) + Shown(b, "knockout", u)
             ELSE \/ u \notin accounts
                  \/ boards[b].league \notin leagues \cup {Null}
                  \/ boards[b].page.offset > 0
                  \/ boards[b].page.limit < Cardinality(Users)
  <2>1. BoardReads(b)
    BY <1>1 DEF BoardsInv
  <2>2. PICK i \in DOMAIN boards[b].group : boards[b].group[i].name = u
    BY <1>1 DEF Shows
  <2>3. PICK j \in DOMAIN boards[b].knockout : boards[b].knockout[j].name = u
    BY <1>1 DEF Shows
  <2>4. /\ Shown(b, "group", u) = boards[b].group[i].score
        /\ Shown(b, "knockout", u) = boards[b].knockout[j].score
    BY <2>1, <2>2, <2>3, ShownIsEntry DEF BoardReads
  <2>5. \A l \in DOMAIN boards[b].overall : boards[b].overall[l].name = u =>
          Shown(b, "overall", u) = boards[b].overall[l].score
    BY <2>1, ShownIsEntry DEF BoardReads
  <2>6. AddsUp(b)
    BY <1>1, <2>1 DEF BoardReads
  <2> QED
    BY <2>2, <2>3, <2>4, <2>5, <2>6 DEF AddsUp, Shows, Stands
<1>2. BoardsInv => BoardsAddUp
  BY <1>1 DEF BoardsAddUp
<1> QED
  BY <1>2, BoardsInvariance, PTL
=============================================================================
