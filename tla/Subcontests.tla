---------------------------- MODULE Subcontests ----------------------------
(***************************************************************************)
(* ContestService.CreateSubcontest, JoinSubcontest and DeleteSubcontest,   *)
(* and LeaderboardService.Subleaderboard up to its SELECTs.                *)
(***************************************************************************)
EXTENDS Sessions

UserExists(id) == \E u \in users : u.id = id
SubExists(id) == \E s \in subcontests : s.id = id
BySlug(slug) == {s \in subcontests : s.slug = slug}

GoOn(r, call) == Step(r, call) /\ UNCHANGED <<accountVars, contestVars, leagueVars>>

\* INSERT INTO subcontest_entries: both foreign keys, then the primary key.
InsertEntry(r, sub) ==
  LET entry == [sub |-> sub, user |-> calls[r].user]
  IN  \/ /\ ~UserExists(entry.user) \/ ~SubExists(sub)
         /\ Refuse(r, "unknown")
      \/ /\ UserExists(entry.user) /\ SubExists(sub) /\ entry \in entries
         /\ Refuse(r, "already_exists")
      \/ /\ UserExists(entry.user) /\ SubExists(sub) /\ entry \notin entries
         /\ entries' = entries \cup {entry}
         /\ Answer(r, "ok")
         /\ UNCHANGED <<accountVars, contestVars, subcontests>>

(***************************************************************************)
(* CreateSubcontest: look the contest up, insert the row, join it          *)
(***************************************************************************)
FindContest(r) ==
  /\ Arrives(r, "createSubcontest")
  /\ \E call \in AsUser(r) :
       \/ (\A c \in contests : c.slug # Req(r).contest) /\ Refuse(r, "unknown")
       \/ \E c \in contests :
            /\ c.slug = Req(r).contest
            /\ GoOn(r, [call EXCEPT !.pc = "insert", !.found = c.id])

\* The join code is drawn at random.
\* Mutant: slug is not UNIQUE.
InsertSameSlug(r) ==
  /\ calls[r].pc = "insert" /\ Req(r).op = "createSubcontest"
  /\ \E code \in JoinCodes :
       LET sub == [id |-> r, contest |-> calls[r].found, owner |-> calls[r].user,
                   code |-> code, title |-> Req(r).title, slug |-> SlugOf[Req(r).title]]
           taken == {s \in subcontests : s.code = code \/ s.title = sub.title}
       IN  \/ taken # {} /\ Refuse(r, "already_exists")
           \/ taken = {} /\ ~UserExists(sub.owner) /\ Refuse(r, "unknown")
           \/ /\ UserExists(sub.owner) /\ taken = {}
              /\ subcontests' = subcontests \cup {sub}
              /\ IF Req(r).selfJoin THEN Step(r, [calls[r] EXCEPT !.pc = "join"])
                                    ELSE Answer(r, "ok")
              /\ UNCHANGED <<accountVars, contestVars, entries>>
InsertSubcontest(r) ==
  /\ calls[r].pc = "insert" /\ Req(r).op = "createSubcontest"
  /\ \E code \in JoinCodes :
       LET sub == [id |-> r, contest |-> calls[r].found, owner |-> calls[r].user,
                   code |-> code, title |-> Req(r).title, slug |-> SlugOf[Req(r).title]]
           taken == {s \in subcontests : \/ s.code = code \/ s.title = sub.title
                                         \/ s.slug = sub.slug}
       IN  \/ taken # {} /\ Refuse(r, "already_exists")
           \/ taken = {} /\ ~UserExists(sub.owner) /\ Refuse(r, "unknown")
           \/ /\ UserExists(sub.owner) /\ taken = {}
              /\ subcontests' = subcontests \cup {sub}
              /\ IF Req(r).selfJoin THEN Step(r, [calls[r] EXCEPT !.pc = "join"])
                                    ELSE Answer(r, "ok")
              /\ UNCHANGED <<accountVars, contestVars, entries>>

\* Mutant: an error of the second statement is dropped.
SelfJoinUnchecked(r) ==
  /\ calls[r].pc = "join" /\ Req(r).op = "createSubcontest"
  /\ \/ InsertEntry(r, r)
     \/ Answer(r, "ok") /\ UNCHANGED <<accountVars, contestVars, leagueVars>>
SelfJoin(r) ==
  calls[r].pc = "join" /\ Req(r).op = "createSubcontest" /\ InsertEntry(r, r)

(***************************************************************************)
(* JoinSubcontest                                                          *)
(***************************************************************************)
FindByCode(r) ==
  /\ Arrives(r, "joinSubcontest")
  /\ \E call \in AsUser(r) :
       \/ (\A s \in subcontests : s.code # Req(r).code) /\ Refuse(r, "not_found")
       \/ \E s \in subcontests :
            /\ s.code = Req(r).code
            /\ GoOn(r, [call EXCEPT !.pc = "join", !.found = s.id])

\* Mutant: the subcontest is not a foreign key.
JoinAnyway(r) ==
  /\ calls[r].pc = "join" /\ Req(r).op = "joinSubcontest"
  /\ UserExists(calls[r].user)
  /\ entries' = entries \cup {[sub |-> calls[r].found, user |-> calls[r].user]}
  /\ Answer(r, "ok")
  /\ UNCHANGED <<accountVars, contestVars, subcontests>>
Join(r) ==
  /\ calls[r].pc = "join" /\ Req(r).op = "joinSubcontest"
  /\ InsertEntry(r, calls[r].found)

(***************************************************************************)
(* DeleteSubcontest: find by slug, compare the owner, delete by id         *)
(***************************************************************************)
FindOwn(r) ==
  /\ Arrives(r, "deleteSubcontest")
  /\ \E call \in AsUser(r) :
       \/ BySlug(Req(r).slug) = {} /\ Refuse(r, "not_found")
       \/ \E s \in BySlug(Req(r).slug) :
            \/ s.owner # call.user /\ Refuse(r, "permission_denied")
            \/ s.owner = call.user /\ GoOn(r, [call EXCEPT !.pc = "delete", !.found = s.id])

\* A subcontest that is gone already is a success too.
DeleteRows(r, rows) ==
  /\ subcontests' = subcontests \ rows
  /\ entries' = {e \in entries : \A s \in rows : e.sub # s.id}
  /\ Answer(r, "ok")
  /\ UNCHANGED <<accountVars, contestVars>>
\* Mutant: it is deleted by its slug.
DeleteBySlug(r) == calls[r].pc = "delete" /\ DeleteRows(r, BySlug(Req(r).slug))
DeleteSubcontest(r) ==
  calls[r].pc = "delete" /\ DeleteRows(r, {s \in subcontests : s.id = calls[r].found})

(***************************************************************************)
(* Subleaderboard: HasSubcontestAccess looks the slug up, then             *)
(* GetSubcontestBySlug does again                                          *)
(***************************************************************************)
CheckOwner(r) ==
  /\ Arrives(r, "subleaderboard")
  /\ \E call \in AsUser(r) :
       \/ BySlug(Req(r).slug) = {} /\ Refuse(r, "not_found")
       \/ \E s \in BySlug(Req(r).slug) :
            GoOn(r, [call EXCEPT !.pc = IF s.owner = call.user THEN "board" ELSE "member",
                                 !.found = s.id])

CheckMember(r) ==
  /\ calls[r].pc = "member"
  /\ IF [sub |-> calls[r].found, user |-> calls[r].user] \in entries
     THEN GoOn(r, [calls[r] EXCEPT !.pc = "board"])
     ELSE Refuse(r, "permission_denied")

FindBoard(r) ==
  /\ calls[r].pc = "board"
  /\ \/ BySlug(Req(r).slug) = {} /\ Refuse(r, "not_found")
     \/ \E s \in BySlug(Req(r).slug) :
          GoOn(r, [calls[r] EXCEPT !.pc = "answered", !.answer = "ok", !.shown = s.id])

SubcontestStep(r) ==
  \/ FindContest(r) \/ InsertSubcontest(r) \/ SelfJoin(r)
  \/ FindByCode(r) \/ Join(r)
  \/ FindOwn(r) \/ DeleteSubcontest(r)
  \/ CheckOwner(r) \/ CheckMember(r) \/ FindBoard(r)
=============================================================================
