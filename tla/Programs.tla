------------------------------ MODULE Programs ------------------------------
(***************************************************************************)
(* The two programs that drive the backend on a database of their own: one *)
(* runs at a time, may be stopped anywhere, and the next one finds the     *)
(* tables as they were left.                                               *)
(***************************************************************************)
EXTENDS Seeding, Acceptance

vars == <<contestVars, seedVars, scriptVars>>

Init == Empty /\ SeedIdle /\ ScriptIdle

\* A stopped program keeps nothing but what it has in the tables.
StopScript ==
  /\ step # 0 /\ step' = 0
  /\ leagues' = <<>> /\ left' = {}
  /\ account' = [p \in People |-> Null] /\ token' = [p \in People |-> Null]
  /\ UNCHANGED <<contestVars, seedVars>>

Next ==
  \/ step = 0 /\ SeedStep /\ UNCHANGED scriptVars
  \/ stage = "start" /\ ScriptStep /\ UNCHANGED seedVars
  \/ ScriptDone /\ UNCHANGED seedVars
  \/ StopScript

Spec == Init /\ [][Next]_vars

\* Neither program gets an answer it does not expect but for one: two of the users the
\* seed program draws may share a username or an e-mail, and then it ends before it has
\* a contest.  Otherwise every call of it is accepted and its counts (12 third places,
\* 32 that go through, 16 matches) are met; the acceptance program sees the refusals,
\* scores and rows of its script, and what it announces.  Since nothing deadlocks, both
\* come to their end whatever tables an earlier run left, the contests that were played
\* with a winner of every knockout match.
Played(m) == Completed(matches[m]) /\ (RoundOf[m] > 0 => HasWinner(matches[m]))

ProgramsSucceed ==
  /\ stage = "failed" => Collides(dice.people) /\ ~created
  /\ step # -1
  /\ stage = "report" /\ kind \notin {"future", "in-progress"} =>
       \A m \in AllMatches : Played(m)
  /\ AsAnnounced
=============================================================================
