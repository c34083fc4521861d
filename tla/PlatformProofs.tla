--------------------------- MODULE PlatformProofs ---------------------------
(***************************************************************************)
(* What races between accounts, subcontests and their deletions cannot do, *)
(* for any number of calls and any requests.                               *)
(***************************************************************************)
EXTENDS Platform, FiniteSetTheorems, TLAPS

(***************************************************************************)
(* The inductive invariant.  A handler acts on an id that it looked up     *)
(* earlier, so the invariant says what the caller still knows of that id:  *)
(* it names the row that was found or no row at all, for it is never given *)
(* to another row.                                                         *)
(***************************************************************************)
\* The subcontest that call `id` was to create has been inserted.
Inserted(id) ==
  /\ id \in Calls
  /\ Req(id).op = "createSubcontest"
  /\ calls[id].pc \in {"join", "answered"}

\* The calls that are about to use the subcontest they found.
HasFound(r) ==
  \/ calls[r].pc \in {"delete", "member", "board"}
  \/ calls[r].pc = "join" /\ Req(r).op = "joinSubcontest"

\* What was true of the row that was found still is, while there is one.
StillFound(r) ==
  /\ Inserted(calls[r].found)
  /\ \A s \in subcontests :
       s.id = calls[r].found =>
         /\ calls[r].pc = "join" => s.code = Req(r).code
         /\ calls[r].pc = "delete" => s.owner = calls[r].user
         /\ calls[r].pc \in {"member", "board"} => s.slug = Req(r).slug

\* The locals of a call at each of its statements.
Local(r) ==
  LET c == calls[r]
  IN  /\ c.pc # "answered" => c.answer = "none" /\ c.shown = Null
      /\ c.pc \in {"idle", "createUser"} => c.user = Null
      /\ c.pc \in {"insert", "join", "delete", "member", "board"} => c.user \in Calls
      /\ c.pc = "createUser" => c.req.op = "login" /\ c.req.email # Null
                                /\ c.req.username # Null
      /\ c.pc = "insert" => c.req.op = "createSubcontest" /\ c.found \in Calls
      /\ c.pc = "join" => \/ c.req.op = "joinSubcontest"
                          \/ c.req.op = "createSubcontest" /\ c.req.selfJoin
      /\ c.pc = "delete" => c.req.op = "deleteSubcontest"
      /\ c.pc \in {"member", "board"} => c.req.op = "subleaderboard"
      /\ c.pc \in {"countries", "matches", "standings"} => c.req.op = "createContest"

Proper(r) == Local(r) /\ (HasFound(r) => StillFound(r))

\* Ids come from the calls that inserted the rows; what is UNIQUE is unique.
AccountRows ==
  /\ \A u \in users : u.email = Req(u.id).email
  /\ \A t \in tokens : t.email = Req(t.sub).email
  /\ \A u, v \in users : u.email = v.email => u = v

SubcontestRows ==
  /\ \A s \in subcontests : Inserted(s.id) /\ s.owner = calls[s.id].user
  /\ \A s, t \in subcontests : s.id = t.id \/ s.slug = t.slug => s = t

\* EntriesAreJoined, of one entry.
Joined(e) ==
  /\ UserExists(e.user)
  /\ \E s \in subcontests, r \in Calls :
       /\ s.id = e.sub /\ calls[r].user = e.user
       /\ \/ Req(r).op = "joinSubcontest" /\ Req(r).code = s.code
          \/ r = s.id /\ Req(r).selfJoin

IInv ==
  /\ TypeOK
  /\ \A r \in Calls : Proper(r)
  /\ AccountRows /\ SubcontestRows
  /\ EntriesAreJoined /\ OwnersAreIn

(***************************************************************************)
(* One step of call r, whatever it does to the tables                      *)
(***************************************************************************)
Moves(r) ==
  /\ calls' \in [Calls -> Call]
  /\ \A q \in Calls : q # r => calls'[q] = calls[q]
  /\ Req(r)' = Req(r) /\ Local(r)'
  /\ calls[r].pc # "answered" /\ calls'[r].pc # "idle"
  /\ calls[r].user # Null => calls'[r].user = calls[r].user
  /\ calls[r].pc = "join" => calls'[r].pc = "answered"

----------------------------------------------------------------------------
LEMMA NullIsNoCall == Null \notin Calls
  BY SessionAssumption

\* Requests, users and inserted rows stay what they are.
LEMMA CallsKept ==
  ASSUME IInv, NEW r \in Calls, Moves(r)
  PROVE  /\ \A q \in Calls : Req(q)' = Req(q)
         /\ \A q \in Calls : calls[q].user # Null => calls'[q].user = calls[q].user
         /\ \A id : Inserted(id) => Inserted(id)' /\ calls'[id].user = calls[id].user
<1>1. \A q \in Calls : Req(q)' = Req(q)
  BY DEF Moves, Req
<1>2. \A q \in Calls : calls[q].user # Null => calls'[q].user = calls[q].user
  BY DEF Moves
<1>3. ASSUME NEW id, Inserted(id)
      PROVE  Inserted(id)' /\ calls'[id].user = calls[id].user
  <2>1. CASE id = r
    <3>1. calls[r].pc = "join" /\ calls'[r].pc = "answered"
      BY <1>3, <2>1 DEF Inserted, Moves
    <3>2. calls[r].user \in Calls
      BY <3>1 DEF IInv, Proper, Local
    <3>3. calls[r].user # Null
      BY <3>2, NullIsNoCall
    <3> QED
      BY <1>1, <1>2, <1>3, <2>1, <3>1, <3>3 DEF Inserted
  <2>2. CASE id # r
    BY <1>1, <1>3, <2>2 DEF Inserted, Moves
  <2> QED
    BY <2>1, <2>2
<1> QED
  BY <1>1, <1>2, <1>3

\* What the other calls know of subcontests survives every step that inserts no row but
\* that of its own call.
LEMMA CallsProper ==
  ASSUME IInv, NEW r \in Calls, Moves(r), HasFound(r)' => StillFound(r)',
         \A s \in subcontests' :
           s \in subcontests \/ (s.id = r /\ calls[r].pc = "insert")
  PROVE  \A q \in Calls : Proper(q)'
<1> SUFFICES ASSUME NEW q \in Calls, q # r
             PROVE  Proper(q)'
  BY DEF Moves, Proper
<1>1. calls'[q] = calls[q] /\ Req(q)' = Req(q) /\ Proper(q)
  BY CallsKept DEF Moves, IInv
<1>2. Local(q)'
  BY <1>1 DEF Proper, Local
<1>3. ASSUME HasFound(q)'
      PROVE  StillFound(q)'
  <2>1. PICK id : id = calls[q].found
    OBVIOUS
  <2>2. HasFound(q) /\ StillFound(q)
    BY <1>1, <1>3 DEF HasFound, Proper
  <2>3. Inserted(id)
    BY <2>1, <2>2 DEF StillFound, Inserted
  <2>4. Inserted(id)'
    BY <2>3, CallsKept
  <2>5. ASSUME NEW s \in subcontests', s.id = id
        PROVE  s \in subcontests
    BY <2>3, <2>5 DEF Inserted
  <2> QED
    BY <1>1, <2>1, <2>2, <2>4, <2>5 DEF StillFound, Inserted
<1> QED
  BY <1>2, <1>3 DEF Proper

LEMMA AccountsStay ==
  ASSUME IInv, NEW r \in Calls, Moves(r), UNCHANGED accountVars
  PROVE  AccountRows'
<1>1. \A u \in users : u.id \in Calls
  BY DEF IInv, TypeOK, UserRow
<1>2. \A t \in tokens : t.sub \in Calls
  BY DEF IInv, TypeOK, Token
<1>3. AccountRows /\ users' = users /\ tokens' = tokens
  BY DEF IInv, accountVars
<1>4. \A q \in Calls : Req(q)' = Req(q)
  BY CallsKept
<1> QED
  BY <1>1, <1>2, <1>3, <1>4 DEF AccountRows

\* Deleting rows and inserting none disturbs nothing that is said of each row.
LEMMA SubcontestsStay ==
  ASSUME IInv, NEW r \in Calls, Moves(r), subcontests' \subseteq subcontests
  PROVE  SubcontestRows'
<1>1. SubcontestRows
  BY DEF IInv
<1>2. ASSUME NEW s \in subcontests'
      PROVE  Inserted(s.id)' /\ s.owner = calls'[s.id].user
  <2>1. PICK id : id = s.id
    OBVIOUS
  <2>2. Inserted(id) /\ s.owner = calls[id].user
    BY <1>1, <2>1 DEF SubcontestRows, Inserted
  <2>3. Inserted(id)' /\ calls'[id].user = calls[id].user
    BY <2>2, CallsKept
  <2> QED
    BY <2>1, <2>2, <2>3 DEF Inserted
<1> QED
  BY <1>1, <1>2 DEF SubcontestRows

\* An entry keeps the user and the request it is owed to, for as long as its subcontest
\* and its user exist.
LEMMA EntriesStay ==
  ASSUME IInv, NEW r \in Calls, Moves(r),
         NEW e \in entries, NEW s \in subcontests, s \in subcontests', s.id = e.sub,
         UserExists(e.user)'
  PROVE  Joined(e)'
<1>1. PICK t \in subcontests, q \in Calls :
        /\ t.id = e.sub /\ calls[q].user = e.user
        /\ \/ Req(q).op = "joinSubcontest" /\ Req(q).code = t.code
           \/ q = t.id /\ Req(q).selfJoin
  BY DEF IInv, EntriesAreJoined
<1>2. t = s
  BY <1>1 DEF IInv, SubcontestRows
<1>3. e.user \in Calls
  BY DEF IInv, TypeOK, EntryRow
<1>4. calls'[q].user = calls[q].user /\ Req(q)' = Req(q)
  BY <1>1, <1>3, NullIsNoCall, CallsKept
<1> QED
  BY <1>1, <1>2, <1>4 DEF Joined

(***************************************************************************)
(* A step that leaves accounts and subcontests alone: a lookup, a refusal, *)
(* a statement of CreateContest                                            *)
(***************************************************************************)
ContestTypes ==
  /\ contests \subseteq ContestRow /\ countries \subseteq CountryRow
  /\ matches \subseteq MatchRow /\ groupStandings \subseteq StandingRow

LEMMA Elsewhere ==
  ASSUME IInv, NEW r \in Calls, Moves(r), HasFound(r)' => StillFound(r)',
         calls[r].pc = "join" => calls'[r].answer # "ok",
         UNCHANGED <<accountVars, leagueVars>>, ContestTypes'
  PROVE  IInv'
<1>1. UNCHANGED <<users, tokens, subcontests, entries>>
  BY DEF accountVars, leagueVars
<1>2. TypeOK'
  BY <1>1 DEF IInv, TypeOK, ContestTypes, Moves, Call
<1>3. (\A q \in Calls : Proper(q))'
  BY <1>1, CallsProper
<1>4. AccountRows' /\ SubcontestRows'
  BY <1>1, AccountsStay, SubcontestsStay
<1>5. EntriesAreJoined'
  <2> SUFFICES ASSUME NEW e \in entries
               PROVE  Joined(e)'
    BY <1>1 DEF EntriesAreJoined, Joined
  <2>1. UserExists(e.user)'
    BY <1>1 DEF IInv, EntriesAreJoined, UserExists
  <2>2. PICK s \in subcontests : s.id = e.sub
    BY DEF IInv, EntriesAreJoined
  <2> QED
    BY <1>1, <2>1, <2>2, EntriesStay
<1>6. OwnersAreIn'
  <2> SUFFICES ASSUME NEW s \in subcontests, calls'[s.id].answer = "ok", Req(s.id)'.selfJoin
               PROVE  [sub |-> s.id, user |-> s.owner] \in entries
    BY <1>1 DEF OwnersAreIn
  <2>1. Inserted(s.id)
    BY DEF IInv, SubcontestRows
  <2>2. s.id # r
    BY <2>1 DEF Inserted, Moves
  <2>3. calls[s.id].answer = "ok" /\ Req(s.id).selfJoin
    BY <2>1, <2>2, CallsKept DEF Inserted, Moves
  <2> QED
    BY <2>3 DEF IInv, OwnersAreIn
<1> QED
  BY <1>2, <1>3, <1>4, <1>5, <1>6 DEF IInv

----------------------------------------------------------------------------
(***************************************************************************)
(* The statements that only read                                           *)
(***************************************************************************)
LEMMA RefuseInvariant ==
  ASSUME IInv, NEW r \in Calls, calls[r].pc # "answered",
         NEW code \in Answers \ {"none", "ok"}, Refuse(r, code)
  PROVE  IInv'
<1>1. calls' = [calls EXCEPT ![r] =
                  [calls[r] EXCEPT !.pc = "answered", !.answer = code]]
  BY DEF Refuse, Answer, Step
<1>2. calls'[r] = [calls[r] EXCEPT !.pc = "answered", !.answer = code]
  BY <1>1 DEF IInv, TypeOK
<1>3. Moves(r)
  BY <1>1, <1>2 DEF Moves, Local, Req, IInv, TypeOK, Call
<1>4. ~HasFound(r)'
  BY <1>2 DEF HasFound
<1>5. calls'[r].answer # "ok"
  BY <1>2 DEF IInv, TypeOK, Call
<1>6. UNCHANGED <<accountVars, leagueVars>> /\ ContestTypes'
  BY DEF Refuse, contestVars, ContestTypes, IInv, TypeOK
<1> QED
  BY <1>3, <1>4, <1>5, <1>6, Elsewhere

\* A call goes on as c.
LEMMA GoesOn ==
  ASSUME IInv, NEW r \in Calls, NEW c \in Call,
         calls[r].pc \notin {"answered", "join"}, c.pc # "idle",
         c.req = Req(r), calls[r].user # Null => c.user = calls[r].user,
         GoOn(r, c), Local(r)', HasFound(r)' => StillFound(r)'
  PROVE  IInv'
<1>1. calls' = [calls EXCEPT ![r] = c]
  BY DEF GoOn, Step
<1>2. calls'[r] = c
  BY <1>1 DEF IInv, TypeOK
<1>3. Moves(r)
  BY <1>1, <1>2 DEF Moves, Req, IInv, TypeOK
<1>4. UNCHANGED <<accountVars, leagueVars>> /\ ContestTypes'
  BY DEF GoOn, contestVars, ContestTypes, IInv, TypeOK
<1> QED
  BY <1>3, <1>4, Elsewhere

\* The caller of a first statement.
LEMMA Caller ==
  ASSUME IInv, NEW r \in Calls, calls[r].pc = "idle", NEW call \in AsUser(r)
  PROVE  /\ call \in Call /\ call.pc = "idle" /\ call.req = Req(r)
         /\ call.user \in Calls /\ call = [calls[r] EXCEPT !.user = call.user]
         /\ call.answer = "none" /\ call.shown = Null /\ calls[r].user = Null
<1>1. PICK t \in tokens : call = [calls[r] EXCEPT !.user = t.sub]
  BY DEF AsUser, TokensOf
<1>2. t.sub \in Calls
  BY DEF IInv, TypeOK, Token
<1>3. calls[r] \in Call /\ Local(r)
  BY DEF IInv, TypeOK, Proper
<1> QED
  BY <1>1, <1>2, <1>3 DEF Call, Local, Req

LEMMA UnauthenticatedInvariant ==
  ASSUME IInv, NEW r \in Calls, Unauthenticated(r)
  PROVE  IInv'
BY RefuseInvariant DEF Unauthenticated, Arrives, Answers

LEMMA BreakInvariant ==
  ASSUME IInv, NEW r \in Calls, Break(r)
  PROVE  IInv'
BY RefuseInvariant DEF Break, InFlight, Answers

LEMMA FindContestInvariant ==
  ASSUME IInv, NEW r \in Calls, FindContest(r)
  PROVE  IInv'
<1>1. calls[r].pc = "idle" /\ Req(r).op = "createSubcontest"
  BY DEF FindContest, Arrives
<1>2. PICK call \in AsUser(r) :
        \/ Refuse(r, "unknown")
        \/ \E c \in contests :
             GoOn(r, [call EXCEPT !.pc = "insert", !.found = c.id])
  BY DEF FindContest
<1>3. CASE Refuse(r, "unknown")
  BY <1>1, <1>3, RefuseInvariant DEF Answers
<1>4. ASSUME NEW c \in contests, GoOn(r, [call EXCEPT !.pc = "insert", !.found = c.id])
      PROVE  IInv'
  <2> DEFINE next == [call EXCEPT !.pc = "insert", !.found = c.id]
  <2>1. c.id \in Calls
    BY DEF IInv, TypeOK, ContestRow
  <2>2. next \in Call /\ next.pc = "insert" /\ next.found = c.id /\ next.req = Req(r)
        /\ next.user \in Calls /\ next.answer = "none" /\ next.shown = Null
    BY <1>1, <2>1, Caller DEF Call
  <2>3. calls'[r] = next
    BY <1>4 DEF GoOn, Step, IInv, TypeOK
  <2> HIDE DEF next
  <2>4. Local(r)' /\ ~HasFound(r)'
    BY <1>1, <2>1, <2>2, <2>3 DEF Local, HasFound, Req
  <2>5. calls[r].user = Null
    BY <1>1, Caller
  <2> QED
    BY <1>1, <1>4, <2>2, <2>4, <2>5, GoesOn DEF next
<1> QED
  BY <1>2, <1>3, <1>4

\* A subcontest was found for a first statement of r.
LEMMA FindsSubcontest ==
  ASSUME IInv, NEW r \in Calls, calls[r].pc = "idle", NEW call \in AsUser(r),
         NEW s \in subcontests, NEW pc \in {"join", "delete", "member", "board"},
         pc = "join" => Req(r).op = "joinSubcontest" /\ s.code = Req(r).code,
         pc = "delete" => Req(r).op = "deleteSubcontest" /\ s.owner = call.user,
         pc \in {"member", "board"} => Req(r).op = "subleaderboard" /\ s.slug = Req(r).slug,
         GoOn(r, [call EXCEPT !.pc = pc, !.found = s.id])
  PROVE  IInv'
<1> DEFINE next == [call EXCEPT !.pc = pc, !.found = s.id]
<1>1. PICK id \in Calls : id = s.id /\ Inserted(id)
  BY DEF IInv, SubcontestRows, Inserted
<1>2. /\ next \in Call /\ next.pc = pc /\ next.found = id /\ next.req = Req(r)
      /\ next.user = call.user /\ call.user \in Calls
      /\ next.answer = "none" /\ next.shown = Null
  BY <1>1, Caller DEF Call
<1>3. calls' = [calls EXCEPT ![r] = next] /\ subcontests' = subcontests
  BY DEF GoOn, Step, leagueVars
<1>4. calls'[r] = next /\ calls'[id] = calls[id]
  BY <1>1, <1>3 DEF IInv, TypeOK, Inserted
<1> HIDE DEF next
<1>5. Local(r)'
  BY <1>2, <1>4 DEF Local, Req
<1>6. Inserted(id)'
  BY <1>1, <1>4 DEF Inserted, Req
<1>7. s.id = id /\ \A t \in subcontests : t.id = id => t = s
  BY <1>1 DEF IInv, SubcontestRows
<1>8. StillFound(r)'
  BY <1>2, <1>3, <1>4, <1>6, <1>7 DEF StillFound, Inserted, Req
<1>9. calls[r].user = Null
  BY Caller
<1> QED
  BY <1>2, <1>5, <1>8, <1>9, GoesOn DEF next

LEMMA FindByCodeInvariant ==
  ASSUME IInv, NEW r \in Calls, FindByCode(r)
  PROVE  IInv'
BY RefuseInvariant, FindsSubcontest DEF FindByCode, Arrives, Answers

LEMMA FindOwnInvariant ==
  ASSUME IInv, NEW r \in Calls, FindOwn(r)
  PROVE  IInv'
BY RefuseInvariant, FindsSubcontest DEF FindOwn, Arrives, Answers, BySlug

LEMMA CheckOwnerInvariant ==
  ASSUME IInv, NEW r \in Calls, CheckOwner(r)
  PROVE  IInv'
<1>1. calls[r].pc = "idle" /\ Req(r).op = "subleaderboard"
  BY DEF CheckOwner, Arrives
<1>2. PICK call \in AsUser(r) :
        \/ Refuse(r, "not_found")
        \/ \E s \in BySlug(Req(r).slug), pc \in {"member", "board"} :
             GoOn(r, [call EXCEPT !.pc = pc, !.found = s.id])
  BY DEF CheckOwner
<1> QED
  BY <1>1, <1>2, RefuseInvariant, FindsSubcontest DEF Answers, BySlug

LEMMA CheckMemberInvariant ==
  ASSUME IInv, NEW r \in Calls, CheckMember(r)
  PROVE  IInv'
<1>1. calls[r].pc = "member" /\ calls[r] \in Call /\ Local(r) /\ StillFound(r)
  BY DEF CheckMember, IInv, TypeOK, Proper, HasFound
<1>2. CASE Refuse(r, "permission_denied")
  BY <1>1, <1>2, RefuseInvariant DEF Answers
<1>3. CASE GoOn(r, [calls[r] EXCEPT !.pc = "board"])
  <2> DEFINE next == [calls[r] EXCEPT !.pc = "board"]
  <2>1. next \in Call /\ next.pc = "board" /\ next.req = Req(r)
        /\ next.user = calls[r].user /\ next.found = calls[r].found
        /\ next.answer = calls[r].answer /\ next.shown = calls[r].shown
    BY <1>1 DEF Call, Req
  <2>2. calls' = [calls EXCEPT ![r] = next] /\ subcontests' = subcontests
    BY <1>3 DEF GoOn, Step, leagueVars
  <2>3. calls'[r] = next /\ \A q \in Calls : q # r => calls'[q] = calls[q]
    BY <2>2 DEF IInv, TypeOK
  <2> HIDE DEF next
  <2>4. Local(r)'
    BY <1>1, <2>1, <2>3 DEF Local, Req
  <2>5. calls[r].found # r
    BY <1>1 DEF StillFound, Inserted
  <2>6. StillFound(r)'
    BY <1>1, <2>1, <2>2, <2>3, <2>5 DEF StillFound, Inserted, Req
  <2> QED
    BY <1>1, <1>3, <2>1, <2>4, <2>6, GoesOn DEF next
<1> QED
  BY <1>2, <1>3 DEF CheckMember

LEMMA FindBoardInvariant ==
  ASSUME IInv, NEW r \in Calls, FindBoard(r)
  PROVE  IInv'
<1>1. calls[r].pc = "board" /\ calls[r] \in Call /\ Local(r)
  BY DEF FindBoard, IInv, TypeOK, Proper
<1>2. CASE Refuse(r, "not_found")
  BY <1>1, <1>2, RefuseInvariant DEF Answers
<1>3. ASSUME NEW s \in subcontests,
             GoOn(r, [calls[r] EXCEPT !.pc = "answered", !.answer = "ok", !.shown = s.id])
      PROVE  IInv'
  <2> DEFINE next == [calls[r] EXCEPT !.pc = "answered", !.answer = "ok", !.shown = s.id]
  <2>1. s.id \in Calls
    BY DEF IInv, TypeOK, SubcontestRow
  <2>2. next \in Call /\ next.pc = "answered" /\ next.req = Req(r)
        /\ next.user = calls[r].user
    BY <1>1, <2>1 DEF Call, Req, Answers
  <2>3. calls'[r] = next
    BY <1>3 DEF GoOn, Step, IInv, TypeOK
  <2> HIDE DEF next
  <2>4. Local(r)' /\ ~HasFound(r)'
    BY <1>1, <2>2, <2>3 DEF Local, HasFound
  <2> QED
    BY <1>1, <1>3, <2>2, <2>4, GoesOn DEF next
<1> QED
  BY <1>1, <1>2, <1>3 DEF FindBoard, BySlug

----------------------------------------------------------------------------
(***************************************************************************)
(* Accounts                                                                *)
(***************************************************************************)
\* Requests are typed: no row gets a value that its column does not take.
LEMMA RequestTypes ==
  ASSUME IInv, NEW r \in Calls
  PROVE  /\ Req(r) \in Request
         /\ Req(r).op = "login" => /\ Req(r).email \in Emails \cup {Null}
                                   /\ Req(r).username \in Usernames \cup {Null}
         /\ Req(r).op = "createSubcontest" => Req(r).title \in Titles
         /\ Req(r).op = "createContest" => /\ Req(r).title \in Titles
                                           /\ Req(r).groups \in Seq(GroupList)
<1>1. Req(r) \in Request
  BY DEF IInv, TypeOK, Call, Req
<1> QED
  BY <1>1 DEF Request

\* A login succeeds: an account of the caller's email, new or not, is given a token.
LEMMA LogInInvariant ==
  ASSUME IInv, NEW r \in Calls, calls[r].pc \in {"idle", "createUser"},
         Req(r).op = "login",
         NEW user \in UserRow, user.email = Req(r).email,
         user.id = r \/ user \in users,
         LogIn(r, user), UNCHANGED <<contestVars, leagueVars>>,
         users' = users \/ (user.id = r /\ users' = users \cup {user}),
         \A u \in users : u.email = user.email => u = user
  PROVE  IInv'
<1> DEFINE next == [calls[r] EXCEPT !.pc = "answered", !.answer = "ok", !.user = user.id]
<1>1. /\ next \in Call /\ next.pc = "answered" /\ next.req = Req(r)
      /\ next.user = user.id /\ user.id \in Calls
  BY DEF IInv, TypeOK, Call, UserRow, Req, Answers
<1>2. calls' = [calls EXCEPT ![r] = next]
  BY DEF LogIn, Step
<1>3. calls'[r] = next
  BY <1>2 DEF IInv, TypeOK
<1> HIDE DEF next
<1>4. Local(r)' /\ ~HasFound(r)'
  BY <1>1, <1>3 DEF Local, HasFound
<1>5. calls[r].user = Null
  BY DEF IInv, Proper, Local
<1>6. Moves(r)
  BY <1>1, <1>2, <1>3, <1>4, <1>5 DEF Moves, Req, IInv, TypeOK
<1>7. UNCHANGED <<subcontests, entries, contests, countries, matches, groupStandings>>
  BY DEF contestVars, leagueVars
<1>8. tokens' = tokens \cup {[sub |-> user.id, email |-> user.email]}
  BY DEF LogIn
<1>9. TypeOK'
  BY <1>1, <1>6, <1>7, <1>8 DEF IInv, TypeOK, Moves, Token, UserRow
<1>10. (\A q \in Calls : Proper(q))'
  BY <1>4, <1>6, <1>7, CallsProper
<1>11. SubcontestRows'
  BY <1>6, <1>7, SubcontestsStay
<1>12. AccountRows'
  <2>1. \A q \in Calls : Req(q)' = Req(q)
    BY <1>6, CallsKept
  <2>2. user.email = Req(user.id).email
    BY DEF IInv, AccountRows
  <2>3. \A u \in users : u.id \in Calls /\ u.email = Req(u.id).email
    BY DEF IInv, TypeOK, UserRow, AccountRows
  <2>4. \A t \in tokens : t.sub \in Calls /\ t.email = Req(t.sub).email
    BY DEF IInv, TypeOK, Token, AccountRows
  <2>5. \A u, v \in users' : u.email = v.email => u = v
    BY DEF IInv, AccountRows
  <2> QED
    BY <1>1, <1>8, <2>1, <2>2, <2>3, <2>4, <2>5 DEF AccountRows
<1>13. EntriesAreJoined'
  <2> SUFFICES ASSUME NEW e \in entries
               PROVE  Joined(e)'
    BY <1>7 DEF EntriesAreJoined, Joined
  <2>1. UserExists(e.user)'
    BY DEF IInv, EntriesAreJoined, UserExists
  <2>2. PICK s \in subcontests : s.id = e.sub
    BY DEF IInv, EntriesAreJoined
  <2> QED
    BY <1>6, <1>7, <2>1, <2>2, EntriesStay
<1>14. OwnersAreIn'
  <2> SUFFICES ASSUME NEW s \in subcontests, calls'[s.id].answer = "ok", Req(s.id)'.selfJoin
               PROVE  [sub |-> s.id, user |-> s.owner] \in entries
    BY <1>7 DEF OwnersAreIn
  <2>1. Inserted(s.id)
    BY DEF IInv, SubcontestRows
  <2>2. calls'[s.id] = calls[s.id]
    BY <1>6, <2>1 DEF Inserted, Moves
  <2> QED
    BY <2>2 DEF IInv, OwnersAreIn, Req
<1> QED
  BY <1>9, <1>10, <1>11, <1>12, <1>13, <1>14 DEF IInv

LEMMA FindUserInvariant ==
  ASSUME IInv, NEW r \in Calls, FindUser(r)
  PROVE  IInv'
<1>1. calls[r].pc = "idle" /\ Req(r).op = "login" /\ calls[r] \in Call /\ Local(r)
  BY DEF FindUser, Arrives, IInv, TypeOK, Proper
<1>2. CASE Refuse(r, "unauthenticated") \/ Refuse(r, "not_found")
  BY <1>1, <1>2, RefuseInvariant DEF Answers
<1>3. ASSUME NEW u \in users, u.email = Req(r).email,
             LogIn(r, u), UNCHANGED <<users, contestVars, leagueVars>>
      PROVE  IInv'
  <2>1. u \in UserRow
    BY DEF IInv, TypeOK
  <2>2. \A v \in users : v.email = u.email => v = u
    BY DEF IInv, AccountRows
  <2> QED
    BY <1>1, <1>3, <2>1, <2>2, LogInInvariant
<1>4. CASE /\ Req(r).email # Null /\ Req(r).username # Null
           /\ Step(r, [calls[r] EXCEPT !.pc = "createUser"])
           /\ UNCHANGED <<accountVars, contestVars, leagueVars>>
  <2> DEFINE next == [calls[r] EXCEPT !.pc = "createUser"]
  <2>1. /\ next \in Call /\ next.pc = "createUser" /\ next.req = Req(r)
        /\ next.user = calls[r].user /\ next.answer = calls[r].answer
        /\ next.shown = calls[r].shown
    BY <1>1 DEF Call, Req
  <2>2. calls'[r] = next
    BY <1>4 DEF Step, IInv, TypeOK
  <2> HIDE DEF next
  <2>3. Local(r)' /\ ~HasFound(r)'
    BY <1>1, <1>4, <2>1, <2>2 DEF Local, HasFound, Req
  <2> QED
    BY <1>1, <1>4, <2>1, <2>3, GoesOn DEF GoOn, next
<1> QED
  BY <1>2, <1>3, <1>4 DEF FindUser

LEMMA CreateUserInvariant ==
  ASSUME IInv, NEW r \in Calls, CreateUser(r)
  PROVE  IInv'
<1> DEFINE user == [id |-> r, email |-> Req(r).email, username |-> Req(r).username]
<1>1. calls[r].pc = "createUser" /\ Local(r)
  BY DEF CreateUser, IInv, Proper
<1>2. CASE Refuse(r, "internal")
  BY <1>1, <1>2, RefuseInvariant DEF Answers
<1>3. CASE /\ \A u \in users : u.email # user.email
           /\ users' = users \cup {user} /\ LogIn(r, user)
           /\ UNCHANGED <<contestVars, leagueVars>>
  <2>1. Req(r).op = "login" /\ user \in UserRow
    BY <1>1, RequestTypes DEF Local, UserRow, Req
  <2> QED
    BY <1>1, <1>3, <2>1, LogInInvariant
<1> QED
  BY <1>2, <1>3 DEF CreateUser

----------------------------------------------------------------------------
(***************************************************************************)
(* Deletions                                                               *)
(***************************************************************************)
\* The call deletes subcontests with their entries, and maybe a user with all that the
\* user has.
LEMMA DeletionInvariant ==
  ASSUME IInv, NEW r \in Calls, calls[r].pc \in {"idle", "delete"},
         NEW c \in Call, c.pc = "answered", c.req = Req(r),
         calls[r].user # Null => c.user = calls[r].user,
         calls' = [calls EXCEPT ![r] = c],
         UNCHANGED <<tokens, contestVars>>,
         users' \subseteq users,
         subcontests' \subseteq subcontests,
         entries' \subseteq entries,
         \A e \in entries' : UserExists(e.user)' /\ SubExists(e.sub)',
         \A e \in entries \ entries', s \in subcontests' :
           e.sub = s.id => e.user # s.owner
  PROVE  IInv'
<1>1. calls'[r] = c
  BY DEF IInv, TypeOK
<1>2. Local(r)' /\ ~HasFound(r)'
  BY <1>1 DEF Local, HasFound
<1>3. Moves(r)
  BY <1>1, <1>2 DEF Moves, Req, IInv, TypeOK
<1>4. TypeOK'
  BY <1>3 DEF IInv, TypeOK, Moves, contestVars
<1>5. (\A q \in Calls : Proper(q))'
  BY <1>2, <1>3, CallsProper
<1>6. SubcontestRows'
  BY <1>3, SubcontestsStay
<1>7. AccountRows'
  <2>1. \A q \in Calls : Req(q)' = Req(q)
    BY <1>3, CallsKept
  <2> QED
    BY <2>1 DEF IInv, TypeOK, UserRow, Token, AccountRows
<1>8. EntriesAreJoined'
  <2> SUFFICES ASSUME NEW e \in entries'
               PROVE  Joined(e)'
    BY DEF EntriesAreJoined, Joined
  <2>1. PICK s \in subcontests' : s.id = e.sub
    BY DEF SubExists
  <2> QED
    BY <1>3, <2>1, EntriesStay
<1>9. OwnersAreIn'
  <2> SUFFICES ASSUME NEW s \in subcontests', calls'[s.id].answer = "ok", Req(s.id)'.selfJoin
               PROVE  [sub |-> s.id, user |-> s.owner] \in entries'
    BY DEF OwnersAreIn
  <2>1. Inserted(s.id)
    BY DEF IInv, SubcontestRows
  <2>2. calls'[s.id] = calls[s.id]
    BY <1>3, <2>1 DEF Inserted, Moves
  <2>3. [sub |-> s.id, user |-> s.owner] \in entries
    BY <2>2 DEF IInv, OwnersAreIn, Req
  <2> QED
    BY <2>3
<1> QED
  BY <1>4, <1>5, <1>6, <1>7, <1>8, <1>9 DEF IInv

LEMMA DeleteUserInvariant ==
  ASSUME IInv, NEW r \in Calls, DeleteUser(r)
  PROVE  IInv'
<1>1. calls[r].pc = "idle"
  BY DEF DeleteUser, Arrives
<1>2. CASE Refuse(r, "unknown")
  BY <1>1, <1>2, RefuseInvariant DEF Answers
<1>3. CASE ~Refuse(r, "unknown")
  <2> DEFINE owned(call) == {s \in subcontests : s.owner = call.user}
             next(call) == [call EXCEPT !.pc = "answered", !.answer = "ok"]
  <2>1. PICK call \in AsUser(r) :
          /\ users' = {u \in users : u.id # call.user}
          /\ subcontests' = subcontests \ owned(call)
          /\ entries' = {e \in entries : /\ e.user # call.user
                                         /\ \A s \in owned(call) : e.sub # s.id}
          /\ Step(r, next(call))
          /\ UNCHANGED <<tokens, contestVars>>
    BY <1>3 DEF DeleteUser
  <2>2. next(call) \in Call /\ next(call).pc = "answered" /\ next(call).req = Req(r)
        /\ calls[r].user = Null
    BY <1>1, Caller DEF Call, Answers
  <2>3. calls' = [calls EXCEPT ![r] = next(call)]
    BY <2>1 DEF Step
  <2>4. \A e \in entries' : UserExists(e.user)' /\ SubExists(e.sub)'
    BY <2>1 DEF IInv, EntriesAreJoined, UserExists, SubExists
  <2>5. ASSUME NEW e \in entries \ entries', NEW s \in subcontests', e.sub = s.id
        PROVE  e.user # s.owner
    <3>1. s.owner # call.user
      BY <2>1
    <3>2. \A t \in owned(call) : t.id # s.id
      BY <2>1 DEF IInv, SubcontestRows
    <3> QED
      BY <2>1, <2>5, <3>1, <3>2
  <2>6. users' \subseteq users /\ subcontests' \subseteq subcontests
        /\ entries' \subseteq entries
    BY <2>1
  <2> HIDE DEF next, owned
  <2> QED
    BY <1>1, <2>1, <2>2, <2>3, <2>4, <2>5, <2>6, DeletionInvariant
<1> QED
  BY <1>2, <1>3

LEMMA DeleteSubcontestInvariant ==
  ASSUME IInv, NEW r \in Calls, DeleteSubcontest(r)
  PROVE  IInv'
<1> DEFINE rows == {s \in subcontests : s.id = calls[r].found}
           next == [calls[r] EXCEPT !.pc = "answered", !.answer = "ok"]
<1>1. calls[r].pc = "delete" /\ DeleteRows(r, rows)
  BY DEF DeleteSubcontest
<1>2. /\ subcontests' = subcontests \ rows
      /\ entries' = {e \in entries : \A s \in rows : e.sub # s.id}
      /\ calls' = [calls EXCEPT ![r] = next]
      /\ UNCHANGED <<users, tokens, contestVars>>
  BY <1>1 DEF DeleteRows, Answer, Step, accountVars
<1>3. next \in Call /\ next.pc = "answered" /\ next.req = Req(r)
      /\ next.user = calls[r].user
  BY DEF IInv, TypeOK, Call, Answers, Req
<1>4. \A e \in entries' : UserExists(e.user)' /\ SubExists(e.sub)'
  BY <1>2 DEF IInv, EntriesAreJoined, UserExists, SubExists
<1>5. \A e \in entries \ entries', s \in subcontests' : e.sub # s.id
  BY <1>2
<1>6. subcontests' \subseteq subcontests /\ entries' \subseteq entries
  BY <1>2
<1> HIDE DEF next, rows
<1> QED
  BY <1>1, <1>2, <1>3, <1>4, <1>5, <1>6, DeletionInvariant

----------------------------------------------------------------------------
(***************************************************************************)
(* Insertions                                                              *)
(***************************************************************************)
\* The row is inserted; its owner is not in it yet, so that the call may only have
\* answered if it was not to join.
LEMMA RowInserted ==
  ASSUME IInv, NEW r \in Calls, calls[r].pc = "insert",
         NEW sub \in SubcontestRow, sub.id = r, sub.owner = calls[r].user,
         \A s \in subcontests : s.slug # sub.slug,
         NEW c \in Call, c.req = Req(r), c.user = calls[r].user,
         \/ c.pc = "join" /\ Req(r).selfJoin /\ c.answer = "none" /\ c.shown = Null
         \/ c.pc = "answered" /\ ~Req(r).selfJoin,
         calls' = [calls EXCEPT ![r] = c],
         subcontests' = subcontests \cup {sub},
         UNCHANGED <<accountVars, contestVars, entries>>
  PROVE  IInv'
<1>1. calls'[r] = c
  BY DEF IInv, TypeOK
<1>2. Req(r).op = "createSubcontest" /\ calls[r].user \in Calls
  BY DEF IInv, Proper, Local, Req
<1>3. Local(r)' /\ ~HasFound(r)'
  BY <1>1, <1>2 DEF Local, HasFound, Req
<1>4. Moves(r)
  BY <1>1, <1>3 DEF Moves, Req, IInv, TypeOK
<1>5. UNCHANGED <<users, tokens, entries>>
  BY DEF accountVars
<1>6. TypeOK'
  BY <1>4, <1>5 DEF IInv, TypeOK, Moves, contestVars
<1>7. (\A q \in Calls : Proper(q))'
  BY <1>3, <1>4, CallsProper
<1>8. AccountRows'
  BY <1>4, AccountsStay
<1>9. Inserted(r)' /\ calls'[r].user = sub.owner
  BY <1>1, <1>2 DEF Inserted, Req
<1>10. \A s \in subcontests : s.id # r /\ calls'[s.id] = calls[s.id]
  BY <1>4 DEF IInv, SubcontestRows, Inserted, Moves
<1>11. SubcontestRows'
  <2>1. SubcontestRows
    BY DEF IInv
  <2>2. \A s \in subcontests : Inserted(s.id)' /\ s.owner = calls'[s.id].user
    BY <1>10, <2>1 DEF SubcontestRows, Inserted, Req
  <2>3. Inserted(sub.id)' /\ sub.owner = calls'[sub.id].user
    BY <1>9 DEF Inserted
  <2>4. \A s \in subcontests : s.id # sub.id /\ s.slug # sub.slug
    BY <1>10
  <2> QED
    BY <2>1, <2>2, <2>3, <2>4 DEF SubcontestRows
<1>12. EntriesAreJoined'
  <2> SUFFICES ASSUME NEW e \in entries
               PROVE  Joined(e)'
    BY <1>5 DEF EntriesAreJoined, Joined
  <2>1. UserExists(e.user)'
    BY <1>5 DEF IInv, EntriesAreJoined, UserExists
  <2>2. PICK s \in subcontests : s.id = e.sub
    BY DEF IInv, EntriesAreJoined
  <2> QED
    BY <1>4, <2>1, <2>2, EntriesStay
<1>13. OwnersAreIn'
  <2> SUFFICES ASSUME NEW s \in subcontests', calls'[s.id].answer = "ok", Req(s.id)'.selfJoin
               PROVE  [sub |-> s.id, user |-> s.owner] \in entries
    BY <1>5 DEF OwnersAreIn
  <2>1. s # sub
    BY <1>1 DEF Req
  <2>2. s \in subcontests
    BY <2>1
  <2> QED
    BY <1>10, <2>2 DEF IInv, OwnersAreIn, Req
<1> QED
  BY <1>6, <1>7, <1>8, <1>11, <1>12, <1>13 DEF IInv

LEMMA InsertSubcontestInvariant ==
  ASSUME IInv, NEW r \in Calls, InsertSubcontest(r)
  PROVE  IInv'
<1>1. calls[r].pc = "insert" /\ calls[r] \in Call /\ Local(r)
  BY DEF InsertSubcontest, IInv, TypeOK, Proper
<1>2. CASE Refuse(r, "already_exists") \/ Refuse(r, "unknown")
  BY <1>1, <1>2, RefuseInvariant DEF Answers
<1>3. ASSUME NEW code \in JoinCodes,
             NEW sub, sub = [id |-> r, contest |-> calls[r].found,
                             owner |-> calls[r].user, code |-> code,
                             title |-> Req(r).title, slug |-> SlugOf[Req(r).title]],
             \A s \in subcontests : s.slug # sub.slug,
             subcontests' = subcontests \cup {sub},
             IF Req(r).selfJoin THEN Step(r, [calls[r] EXCEPT !.pc = "join"])
                                ELSE Answer(r, "ok"),
             UNCHANGED <<accountVars, contestVars, entries>>
      PROVE  IInv'
  <2>1. Req(r).title \in Titles
    BY <1>1, RequestTypes DEF Local, Req
  <2>2. sub \in SubcontestRow /\ sub.id = r /\ sub.owner = calls[r].user
    BY <1>1, <1>3, <2>1, SessionAssumption DEF SubcontestRow, Local
  <2>3. CASE Req(r).selfJoin
    <3> DEFINE next == [calls[r] EXCEPT !.pc = "join"]
    <3>1. /\ next \in Call /\ next.pc = "join" /\ next.req = Req(r)
          /\ next.user = calls[r].user /\ next.answer = "none" /\ next.shown = Null
      BY <1>1 DEF Call, Req, Local
    <3>2. calls' = [calls EXCEPT ![r] = next]
      BY <1>3, <2>3 DEF Step
    <3> HIDE DEF next
    <3> QED
      BY <1>1, <1>3, <2>2, <2>3, <3>1, <3>2, RowInserted
  <2>4. CASE ~Req(r).selfJoin
    <3> DEFINE next == [calls[r] EXCEPT !.pc = "answered", !.answer = "ok"]
    <3>1. /\ next \in Call /\ next.pc = "answered" /\ next.req = Req(r)
          /\ next.user = calls[r].user
      BY <1>1 DEF Call, Req, Answers
    <3>2. calls' = [calls EXCEPT ![r] = next]
      BY <1>3, <2>4 DEF Answer, Step
    <3> HIDE DEF next
    <3> QED
      BY <1>1, <1>3, <2>2, <2>4, <3>1, <3>2, RowInserted
  <2> QED
    BY <2>3, <2>4
<1> QED
  BY <1>2, <1>3 DEF InsertSubcontest

\* The caller joins the subcontest `found`, which has the code or is the caller's own.
LEMMA InsertEntryInvariant ==
  ASSUME IInv, NEW r \in Calls, calls[r].pc = "join", NEW found \in Calls,
         \A s \in subcontests :
           s.id = found => \/ Req(r).op = "joinSubcontest" /\ Req(r).code = s.code
                           \/ r = found /\ Req(r).selfJoin,
         found # r => Req(r).op # "createSubcontest",
         InsertEntry(r, found)
  PROVE  IInv'
<1> DEFINE next == [calls[r] EXCEPT !.pc = "answered", !.answer = "ok"]
<1>1. calls[r] \in Call /\ calls[r].user \in Calls
  BY DEF IInv, TypeOK, Proper, Local
<1> PICK entry : entry = [sub |-> found, user |-> calls[r].user]
  OBVIOUS
<1>2. CASE Refuse(r, "unknown") \/ Refuse(r, "already_exists")
  BY <1>2, RefuseInvariant DEF Answers
<1>3. CASE /\ UserExists(entry.user) /\ SubExists(found)
           /\ entries' = entries \cup {entry}
           /\ Answer(r, "ok")
           /\ UNCHANGED <<accountVars, contestVars, subcontests>>
  <2>1. next \in Call /\ next.pc = "answered" /\ next.req = Req(r)
        /\ next.user = calls[r].user
    BY <1>1 DEF Call, Req, Answers
  <2>2. calls' = [calls EXCEPT ![r] = next]
    BY <1>3 DEF Answer, Step
  <2>3. calls'[r] = next
    BY <2>2 DEF IInv, TypeOK
  <2> HIDE DEF next
  <2>4. Local(r)' /\ ~HasFound(r)'
    BY <2>1, <2>3 DEF Local, HasFound
  <2>5. Moves(r)
    BY <2>1, <2>2, <2>3, <2>4 DEF Moves, Req, IInv, TypeOK
  <2>6. UNCHANGED <<users, tokens, subcontests>>
    BY <1>3 DEF accountVars
  <2>7. TypeOK'
    BY <1>1, <1>3, <2>5, <2>6 DEF IInv, TypeOK, Moves, contestVars, EntryRow
  <2>8. (\A q \in Calls : Proper(q))'
    BY <2>4, <2>5, <2>6, CallsProper
  <2>9. AccountRows' /\ SubcontestRows'
    BY <1>3, <2>5, <2>6, AccountsStay, SubcontestsStay
  <2>10. Joined(entry)'
    <3>1. PICK s \in subcontests : s.id = found
      BY <1>3 DEF SubExists
    <3>2. Req(r)' = Req(r) /\ calls'[r].user = entry.user
      BY <2>1, <2>3 DEF Req
    <3>3. UserExists(entry.user)'
      BY <1>3, <2>6 DEF UserExists
    <3> QED
      BY <2>6, <3>1, <3>2, <3>3 DEF Joined
  <2>11. EntriesAreJoined'
    <3> SUFFICES ASSUME NEW e \in entries
                 PROVE  Joined(e)'
      BY <1>3, <2>10 DEF EntriesAreJoined, Joined
    <3>1. UserExists(e.user)'
      BY <2>6 DEF IInv, EntriesAreJoined, UserExists
    <3>2. PICK s \in subcontests : s.id = e.sub
      BY DEF IInv, EntriesAreJoined
    <3> QED
      BY <2>5, <2>6, <3>1, <3>2, EntriesStay
  <2>12. OwnersAreIn'
    <3> SUFFICES ASSUME NEW s \in subcontests, calls'[s.id].answer = "ok",
                        Req(s.id)'.selfJoin
                 PROVE  [sub |-> s.id, user |-> s.owner] \in entries \cup {entry}
      BY <1>3, <2>6 DEF OwnersAreIn
    <3>1. Inserted(s.id) /\ s.owner = calls[s.id].user
      BY DEF IInv, SubcontestRows
    <3>2. CASE s.id = r
      BY <3>1, <3>2 DEF Inserted
    <3>3. CASE s.id # r
      <4>1. calls'[s.id] = calls[s.id]
        BY <2>5, <3>1, <3>3 DEF Inserted, Moves
      <4> QED
        BY <4>1 DEF IInv, OwnersAreIn, Req
    <3> QED
      BY <3>2, <3>3
  <2> QED
    BY <2>7, <2>8, <2>9, <2>11, <2>12 DEF IInv
<1> QED
  BY <1>2, <1>3 DEF InsertEntry

LEMMA SelfJoinInvariant ==
  ASSUME IInv, NEW r \in Calls, SelfJoin(r)
  PROVE  IInv'
<1>1. calls[r].pc = "join" /\ Req(r).op = "createSubcontest" /\ Req(r).selfJoin
  BY DEF SelfJoin, IInv, Proper, Local, Req
<1> QED
  BY <1>1, InsertEntryInvariant DEF SelfJoin

LEMMA JoinInvariant ==
  ASSUME IInv, NEW r \in Calls, Join(r)
  PROVE  IInv'
<1>1. calls[r].pc = "join" /\ Req(r).op = "joinSubcontest" /\ StillFound(r)
  BY DEF Join, IInv, Proper, HasFound
<1>2. calls[r].found \in Calls
  BY <1>1 DEF StillFound, Inserted
<1> QED
  BY <1>1, <1>2, InsertEntryInvariant DEF Join, StillFound

----------------------------------------------------------------------------
(***************************************************************************)
(* CreateContest                                                           *)
(***************************************************************************)
\* The lists of a request hold countries.
LEMMA ListedCountries ==
  ASSUME IInv, NEW r \in Calls, Req(r).op = "createContest"
  PROVE  /\ \A k \in DOMAIN Groups(r) : /\ Groups(r)[k].letter \in Letters
                                        /\ Groups(r)[k].countries \in Seq(Countries)
         /\ CountriesOf(r) \subseteq Countries
<1>1. Groups(r) \in Seq(GroupList)
  BY RequestTypes DEF Groups
<1>2. \A k \in DOMAIN Groups(r) : Groups(r)[k] \in GroupList
  BY <1>1
<1>3. \A k \in DOMAIN Groups(r) : /\ Groups(r)[k].letter \in Letters
                                  /\ Groups(r)[k].countries \in Seq(Countries)
  BY <1>2 DEF GroupList
<1>4. ASSUME NEW k \in DOMAIN Groups(r), NEW i \in DOMAIN Groups(r)[k].countries
      PROVE  Groups(r)[k].countries[i] \in Countries
  BY <1>3, <1>4
<1>5. CountriesOf(r) \subseteq Countries
  BY <1>4 DEF CountriesOf
<1> QED
  BY <1>3, <1>5

\* A statement of CreateContest goes on to the next, or answers.
LEMMA ContestMoves ==
  ASSUME IInv, NEW r \in Calls, calls[r].pc \in {"countries", "matches", "standings"},
         NEW pc \in {"matches", "standings", "answered"},
         NEW answer \in Answers, pc # "answered" => answer = calls[r].answer,
         calls' = [calls EXCEPT ![r] = [calls[r] EXCEPT !.pc = pc, !.answer = answer]],
         UNCHANGED <<accountVars, leagueVars>>, ContestTypes'
  PROVE  IInv'
<1> DEFINE next == [calls[r] EXCEPT !.pc = pc, !.answer = answer]
<1>1. calls[r] \in Call /\ Local(r)
  BY DEF IInv, TypeOK, Proper
<1>2. /\ next \in Call /\ next.pc = pc /\ next.req = Req(r) /\ next.user = calls[r].user
      /\ next.answer = answer /\ next.shown = calls[r].shown
  BY <1>1 DEF Call, Req
<1>3. calls'[r] = next
  BY DEF IInv, TypeOK
<1> HIDE DEF next
<1>4. Local(r)' /\ ~HasFound(r)'
  BY <1>1, <1>2, <1>3 DEF Local, HasFound, Req
<1>5. Moves(r)
  BY <1>2, <1>3, <1>4 DEF Moves, Req, IInv, TypeOK, next
<1> QED
  BY <1>4, <1>5, Elsewhere

LEMMA InsertContestInvariant ==
  ASSUME IInv, NEW r \in Calls, InsertContest(r)
  PROVE  IInv'
<1> DEFINE row == [id |-> r, title |-> Req(r).title, slug |-> SlugOf[Req(r).title]]
<1>1. calls[r].pc = "idle" /\ Req(r).op = "createContest"
  BY DEF InsertContest, Arrives
<1>2. PICK call \in AsUser(r) :
        \/ Refuse(r, "permission_denied")
        \/ Refuse(r, "already_exists")
        \/ /\ contests' = contests \cup {row}
           /\ Step(r, [call EXCEPT !.pc = "countries", !.found = r])
           /\ UNCHANGED <<accountVars, leagueVars, countries, matches, groupStandings>>
  BY DEF InsertContest
<1>3. CASE Refuse(r, "permission_denied") \/ Refuse(r, "already_exists")
  BY <1>1, <1>3, RefuseInvariant DEF Answers
<1>4. CASE /\ contests' = contests \cup {row}
           /\ Step(r, [call EXCEPT !.pc = "countries", !.found = r])
           /\ UNCHANGED <<accountVars, leagueVars, countries, matches, groupStandings>>
  <2> DEFINE next == [call EXCEPT !.pc = "countries", !.found = r]
  <2>1. /\ next \in Call /\ next.pc = "countries" /\ next.req = Req(r)
        /\ next.answer = "none" /\ next.shown = Null /\ calls[r].user = Null
    BY <1>1, Caller DEF Call
  <2>2. calls' = [calls EXCEPT ![r] = next]
    BY <1>4 DEF Step
  <2>3. calls'[r] = next
    BY <2>2 DEF IInv, TypeOK
  <2> HIDE DEF next
  <2>4. Local(r)' /\ ~HasFound(r)'
    BY <1>1, <2>1, <2>3 DEF Local, HasFound, Req
  <2>5. Moves(r)
    BY <1>1, <2>1, <2>2, <2>3, <2>4 DEF Moves, Req, IInv, TypeOK
  <2>6. row \in ContestRow
    BY <1>1, RequestTypes, SessionAssumption DEF ContestRow
  <2>7. ContestTypes'
    BY <1>4, <2>6 DEF ContestTypes, IInv, TypeOK
  <2> QED
    BY <1>1, <1>4, <2>4, <2>5, <2>7, Elsewhere
<1> QED
  BY <1>2, <1>3, <1>4

LEMMA InsertCountriesInvariant ==
  ASSUME IInv, NEW r \in Calls, InsertCountries(r)
  PROVE  IInv'
<1> DEFINE new == {[code |-> c, name |-> FullName[c]] :
                     c \in CountriesOf(r) \ {row.code : row \in countries}}
           next == [calls[r] EXCEPT !.pc = "matches"]
<1>1. calls[r].pc = "countries" /\ Req(r).op = "createContest" /\ calls[r] \in Call
  BY DEF InsertCountries, IInv, TypeOK, Proper, Local, Req
<1>2. CASE Refuse(r, "already_exists")
  BY <1>1, <1>2, RefuseInvariant DEF Answers
<1>3. CASE /\ countries' = countries \cup new
           /\ Step(r, next)
           /\ UNCHANGED <<accountVars, leagueVars, contests, matches, groupStandings>>
  <2>1. new \subseteq CountryRow
    BY <1>1, ListedCountries DEF CountryRow
  <2>2. ContestTypes'
    BY <1>3, <2>1 DEF ContestTypes, IInv, TypeOK
  <2>3. next = [calls[r] EXCEPT !.pc = "matches", !.answer = calls[r].answer]
        /\ calls[r].answer \in Answers
    BY <1>1 DEF Call
  <2> QED
    BY <1>1, <1>3, <2>2, <2>3, ContestMoves DEF Step
<1> QED
  BY <1>2, <1>3 DEF InsertCountries

LEMMA InsertMatchesInvariant ==
  ASSUME IInv, NEW r \in Calls, InsertMatches(r)
  PROVE  IInv'
<1> DEFINE next == [calls[r] EXCEPT !.pc = "standings"]
<1>1. calls[r].pc = "matches" /\ Req(r).op = "createContest" /\ calls[r] \in Call
  BY DEF InsertMatches, IInv, TypeOK, Proper, Local, Req
<1>2. GroupMatches(r) \subseteq MatchRow
  <2> SUFFICES ASSUME NEW k \in DOMAIN Groups(r),
                      NEW i \in DOMAIN Groups(r)[k].countries,
                      NEW j \in DOMAIN Groups(r)[k].countries
               PROVE  [contest |-> r, round |-> 0, index |-> Null,
                       country1 |-> Groups(r)[k].countries[i],
                       country2 |-> Groups(r)[k].countries[j]] \in MatchRow
    BY DEF GroupMatches
  <2>1. Groups(r)[k].countries[i] \in Countries /\ Groups(r)[k].countries[j] \in Countries
    BY <1>1, ListedCountries
  <2> QED
    BY <2>1 DEF MatchRow
<1>3. Bracket(r) \subseteq MatchRow
  <2>1. \A k \in 1 .. 5 : MatchesInRound[k] \in 0 .. 16
    BY DEF MatchesInRound
  <2> QED
    BY <2>1 DEF Bracket, MatchRow
<1>4. ContestTypes'
  BY <1>2, <1>3 DEF InsertMatches, ContestTypes, IInv, TypeOK
<1>5. next = [calls[r] EXCEPT !.pc = "standings", !.answer = calls[r].answer]
      /\ calls[r].answer \in Answers
  BY <1>1 DEF Call
<1> QED
  BY <1>1, <1>4, <1>5, ContestMoves DEF InsertMatches, Step

LEMMA InsertStandingsInvariant ==
  ASSUME IInv, NEW r \in Calls, InsertStandings(r)
  PROVE  IInv'
<1> DEFINE new == UNION {{[contest |-> r, country |-> c, letter |-> Groups(r)[k].letter] :
                            c \in {d \in CountriesOf(r) : Listed(r, k, d) # {}}} :
                          k \in DOMAIN Groups(r)}
<1>1. calls[r].pc = "standings" /\ Req(r).op = "createContest"
  BY DEF InsertStandings, IInv, Proper, Local, Req
<1>2. CASE Refuse(r, "already_exists")
  BY <1>1, <1>2, RefuseInvariant DEF Answers
<1>3. CASE /\ groupStandings' = groupStandings \cup new
           /\ Answer(r, "ok")
           /\ UNCHANGED <<accountVars, leagueVars, contests, countries, matches>>
  <2>1. new \subseteq StandingRow
    BY <1>1, ListedCountries DEF StandingRow
  <2>2. ContestTypes'
    BY <1>3, <2>1 DEF ContestTypes, IInv, TypeOK
  <2> QED
    BY <1>1, <1>3, <2>2, ContestMoves DEF Answer, Step, Answers
<1> QED
  BY <1>2, <1>3 DEF InsertStandings

----------------------------------------------------------------------------
(***************************************************************************)
(* The invariant of the specification                                      *)
(***************************************************************************)
LEMMA InitInvariant ==
  ASSUME Init
  PROVE  IInv
<1>1. PICK script \in Scripts :
        calls = [r \in Calls |->
                   [pc |-> "idle", req |-> script[r], user |-> Null, found |-> Null,
                    shown |-> Null, answer |-> "none"]]
  BY DEF Init
<1>2. \A r \in Calls : script[r] \in Request
  BY SessionAssumption
<1>3. calls \in [Calls -> Call]
  BY <1>1, <1>2 DEF Call, Answers
<1>4. TypeOK
  BY <1>3 DEF Init, TypeOK
<1>5. \A r \in Calls : Proper(r)
  BY <1>1 DEF Proper, Local, HasFound
<1> QED
  BY <1>4, <1>5 DEF IInv, Init, AccountRows, SubcontestRows, EntriesAreJoined, OwnersAreIn

LEMMA StutterInvariant ==
  ASSUME IInv, UNCHANGED vars
  PROVE  IInv'
<1>1. \A r \in Calls : Proper(r)'
  BY DEF IInv, vars, Proper, Local, HasFound, StillFound, Inserted, Req
<1>2. AccountRows' /\ SubcontestRows'
  BY DEF IInv, vars, AccountRows, SubcontestRows, Inserted, Req
<1>3. EntriesAreJoined' /\ OwnersAreIn'
  BY DEF IInv, vars, EntriesAreJoined, OwnersAreIn, UserExists, Req
<1>4. TypeOK'
  BY DEF IInv, vars, TypeOK
<1> QED
  BY <1>1, <1>2, <1>3, <1>4 DEF IInv

LEMMA NextInvariant ==
  ASSUME IInv, [Next]_vars
  PROVE  IInv'
<1>1. ASSUME NEW r \in Calls, AccountStep(r)
      PROVE  IInv'
  BY <1>1, FindUserInvariant, CreateUserInvariant, DeleteUserInvariant DEF AccountStep
<1>2. ASSUME NEW r \in Calls, SubcontestStep(r)
      PROVE  IInv'
  BY <1>2, FindContestInvariant, InsertSubcontestInvariant, SelfJoinInvariant,
     FindByCodeInvariant, JoinInvariant, FindOwnInvariant, DeleteSubcontestInvariant,
     CheckOwnerInvariant, CheckMemberInvariant, FindBoardInvariant DEF SubcontestStep
<1>3. ASSUME NEW r \in Calls, ContestStep(r)
      PROVE  IInv'
  BY <1>3, InsertContestInvariant, InsertCountriesInvariant, InsertMatchesInvariant,
     InsertStandingsInvariant DEF ContestStep
<1>4. ASSUME NEW r \in Calls, Unauthenticated(r) \/ Break(r)
      PROVE  IInv'
  BY <1>4, UnauthenticatedInvariant, BreakInvariant
<1>5. CASE AllAnswered \/ UNCHANGED vars
  BY <1>5, StutterInvariant DEF AllAnswered
<1> QED
  BY <1>1, <1>2, <1>3, <1>4, <1>5 DEF Next

\* No step of any call breaks the invariant.
THEOREM Invariance == Spec => []IInv
<1>1. Init => IInv
  BY InitInvariant
<1>2. IInv /\ [Next]_vars => IInv'
  BY NextInvariant
<1> QED
  BY <1>1, <1>2, PTL DEF Spec

(***************************************************************************)
(* What the runs check                                                     *)
(***************************************************************************)
\* Every row and every call in progress is of its type, whatever the requests.
THEOREM TypeCorrect == Spec => []TypeOK
<1>1. IInv => TypeOK
  BY DEF IInv
<1> QED
  BY <1>1, Invariance, PTL

\* The tokens of one email never speak for two accounts that exist, nor for an account
\* of another email, however first logins and deletions race.
THEOREM OneAccountPerEmail == Spec => []LoginsAgree
<1>1. IInv => LoginsAgree
  <2> SUFFICES ASSUME IInv PROVE LoginsAgree
    OBVIOUS
  <2>1. \A t \in tokens, u \in users : t.sub = u.id => t.email = u.email
    BY DEF IInv, AccountRows
  <2>2. ASSUME NEW s \in tokens, NEW t \in tokens, s.email = t.email,
               UserExists(s.sub), UserExists(t.sub)
        PROVE  s.sub = t.sub
    <3>1. PICK u \in users, v \in users : u.id = s.sub /\ v.id = t.sub
      BY <2>2 DEF UserExists
    <3>2. u = v
      BY <2>1, <2>2, <3>1 DEF IInv, AccountRows
    <3> QED
      BY <3>1, <3>2
  <2> QED
    BY <2>1, <2>2 DEF LoginsAgree
<1> QED
  BY <1>1, Invariance, PTL

\* Whoever is in a subcontest exists, as it does, and asked for it.
THEOREM MembersAskedForIt == Spec => []EntriesAreJoined
<1>1. IInv => EntriesAreJoined
  BY DEF IInv
<1> QED
  BY <1>1, Invariance, PTL

\* Who was told that a subcontest was created with oneself in it is in it.
THEOREM OwnersJoined == Spec => []OwnersAreIn
<1>1. IInv => OwnersAreIn
  BY DEF IInv
<1> QED
  BY <1>1, Invariance, PTL

----------------------------------------------------------------------------
(***************************************************************************)
(* What one step may do                                                    *)
(***************************************************************************)
LEMMA DeletedByOwner ==
  ASSUME IInv, [Next]_vars, NEW s \in subcontests, s \notin subcontests'
  PROVE  \E r \in Calls :
           /\ calls'[r].pc = "answered" /\ calls[r].pc # "answered"
           /\ Req(r).op \in {"deleteSubcontest", "deleteUser"}
           /\ calls'[r].user = s.owner
<1>1. CASE \E r \in Calls : DeleteSubcontest(r)
  <2>1. PICK r \in Calls : DeleteSubcontest(r)
    BY <1>1
  <2>2. /\ calls[r].pc = "delete" /\ s.id = calls[r].found
        /\ calls' = [calls EXCEPT ![r] = [calls[r] EXCEPT !.pc = "answered", !.answer = "ok"]]
    BY <2>1 DEF DeleteSubcontest, DeleteRows, Answer, Step
  <2>3. calls'[r].pc = "answered" /\ calls'[r].user = calls[r].user
    BY <2>2 DEF IInv, TypeOK, Call
  <2>4. s.owner = calls[r].user /\ Req(r).op = "deleteSubcontest"
    BY <2>2 DEF IInv, Proper, Local, HasFound, StillFound, Req
  <2> QED
    BY <2>2, <2>3, <2>4
<1>2. CASE \E r \in Calls : DeleteUser(r)
  <2>1. PICK r \in Calls : DeleteUser(r)
    BY <1>2
  <2>2. calls[r].pc = "idle" /\ Req(r).op = "deleteUser"
    BY <2>1 DEF DeleteUser, Arrives
  <2>3. PICK call \in AsUser(r) :
          /\ s.owner = call.user
          /\ calls' = [calls EXCEPT ![r] = [call EXCEPT !.pc = "answered", !.answer = "ok"]]
    BY <2>1 DEF DeleteUser, Step, Refuse, leagueVars
  <2>4. calls'[r].pc = "answered" /\ calls'[r].user = call.user
    BY <2>2, <2>3, Caller DEF IInv, TypeOK, Call
  <2> QED
    BY <2>2, <2>3, <2>4
<1>3. CASE \E r \in Calls : SubcontestStep(r) /\ ~DeleteSubcontest(r)
  <2>1. PICK r \in Calls : SubcontestStep(r) /\ ~DeleteSubcontest(r)
    BY <1>3
  <2>2. CASE FindContest(r) \/ FindByCode(r) \/ FindOwn(r)
    BY <2>2 DEF FindContest, FindByCode, FindOwn, Refuse, GoOn, leagueVars
  <2>3. CASE CheckOwner(r) \/ CheckMember(r) \/ FindBoard(r)
    BY <2>3 DEF CheckOwner, CheckMember, FindBoard, Refuse, GoOn, leagueVars
  <2>4. CASE InsertSubcontest(r)
    BY <2>4 DEF InsertSubcontest, Refuse, leagueVars
  <2>5. CASE SelfJoin(r) \/ Join(r)
    BY <2>5 DEF SelfJoin, Join, InsertEntry, Refuse, leagueVars
  <2> QED
    BY <2>1, <2>2, <2>3, <2>4, <2>5 DEF SubcontestStep
<1>4. CASE \E r \in Calls : FindUser(r) \/ CreateUser(r)
  BY <1>4 DEF FindUser, CreateUser, Refuse, leagueVars
<1>5. CASE \E r \in Calls : ContestStep(r)
  BY <1>5 DEF ContestStep, InsertContest, InsertCountries, InsertMatches, InsertStandings,
     Refuse, leagueVars
<1>6. CASE \E r \in Calls : Unauthenticated(r) \/ Break(r)
  BY <1>6 DEF Unauthenticated, Break, Refuse, leagueVars
<1>7. CASE AllAnswered \/ UNCHANGED vars
  BY <1>7 DEF AllAnswered, vars
<1> QED
  BY <1>1, <1>2, <1>3, <1>4, <1>5, <1>6, <1>7 DEF Next, AccountStep

\* Only the second lookup of a leaderboard decides what is shown.
LEMMA StepShows ==
  ASSUME IInv, NEW q \in Calls, NEW call, call.shown = calls[q].shown, Step(q, call)
  PROVE  \A r \in Calls : calls'[r].shown = calls[r].shown
BY DEF Step, IInv, TypeOK

LEMMA RefuseShows ==
  ASSUME IInv, NEW q \in Calls, NEW code, Refuse(q, code)
  PROVE  \A r \in Calls : calls'[r].shown = calls[r].shown
BY StepShows DEF Refuse, Answer, IInv, TypeOK, Call

\* The record of a first statement shows nothing either.
LEMMA CallerShows ==
  ASSUME IInv, NEW q \in Calls, calls[q].pc = "idle", NEW call \in AsUser(q),
         NEW next, Step(q, next), next.shown = call.shown
  PROVE  \A r \in Calls : calls'[r].shown = calls[r].shown
<1>1. call.shown = calls[q].shown
  BY Caller DEF IInv, Proper, Local
<1> QED
  BY <1>1, StepShows

LEMMA AccountsShowNothing ==
  ASSUME IInv, NEW q \in Calls, AccountStep(q)
  PROVE  \A r \in Calls : calls'[r].shown = calls[r].shown
<1> calls[q] \in Call
  BY DEF IInv, TypeOK
<1>1. CASE FindUser(q)
  BY <1>1, RefuseShows, StepShows DEF FindUser, LogIn, Call
<1>2. CASE CreateUser(q)
  BY <1>2, RefuseShows, StepShows DEF CreateUser, LogIn, Call
<1>3. CASE DeleteUser(q)
  <2>1. calls[q].pc = "idle"
    BY <1>3 DEF DeleteUser, Arrives
  <2>2. PICK call \in AsUser(q) :
          Refuse(q, "unknown") \/ Step(q, [call EXCEPT !.pc = "answered", !.answer = "ok"])
    BY <1>3 DEF DeleteUser
  <2>3. call \in Call
    BY <2>1, Caller
  <2> QED
    BY <2>1, <2>2, <2>3, RefuseShows, CallerShows DEF Call
<1> QED
  BY <1>1, <1>2, <1>3 DEF AccountStep

LEMMA ContestsShowNothing ==
  ASSUME IInv, NEW q \in Calls, ContestStep(q)
  PROVE  \A r \in Calls : calls'[r].shown = calls[r].shown
<1> calls[q] \in Call
  BY DEF IInv, TypeOK
<1>1. CASE InsertContest(q)
  <2>1. calls[q].pc = "idle"
    BY <1>1 DEF InsertContest, Arrives
  <2>2. PICK call \in AsUser(q) :
          \/ Refuse(q, "permission_denied") \/ Refuse(q, "already_exists")
          \/ Step(q, [call EXCEPT !.pc = "countries", !.found = q])
    BY <1>1 DEF InsertContest
  <2>3. call \in Call
    BY <2>1, Caller
  <2> QED
    BY <2>1, <2>2, <2>3, RefuseShows, CallerShows DEF Call
<1>2. CASE InsertCountries(q)
  BY <1>2, RefuseShows, StepShows DEF InsertCountries, Call
<1>3. CASE InsertMatches(q)
  BY <1>3, StepShows DEF InsertMatches, Call
<1>4. CASE InsertStandings(q)
  BY <1>4, RefuseShows, StepShows DEF InsertStandings, Answer, Call
<1> QED
  BY <1>1, <1>2, <1>3, <1>4 DEF ContestStep

LEMMA SubcontestsShowNothing ==
  ASSUME IInv, NEW q \in Calls, SubcontestStep(q), ~FindBoard(q)
  PROVE  \A r \in Calls : calls'[r].shown = calls[r].shown
<1> calls[q] \in Call
  BY DEF IInv, TypeOK
<1>1. CASE FindContest(q) \/ FindByCode(q) \/ FindOwn(q) \/ CheckOwner(q)
  <2>1. calls[q].pc = "idle"
    BY <1>1 DEF FindContest, FindByCode, FindOwn, CheckOwner, Arrives
  <2>2. PICK call \in AsUser(q) :
          \/ \E code \in Answers : Refuse(q, code)
          \/ \E row : \E pc \in {"insert", "join", "delete", "member", "board"} :
               Step(q, [call EXCEPT !.pc = pc, !.found = row])
    BY <1>1 DEF FindContest, FindByCode, FindOwn, CheckOwner, GoOn, Answers
  <2>3. call \in Call
    BY <2>1, Caller
  <2> QED
    BY <2>1, <2>2, <2>3, RefuseShows, CallerShows DEF Call
<1>2. CASE InsertSubcontest(q)
  BY <1>2, RefuseShows, StepShows DEF InsertSubcontest, Answer, Call
<1>3. CASE SelfJoin(q) \/ Join(q)
  BY <1>3, RefuseShows, StepShows DEF SelfJoin, Join, InsertEntry, Answer, Call
<1>4. CASE DeleteSubcontest(q)
  BY <1>4, StepShows DEF DeleteSubcontest, DeleteRows, Answer, Call
<1>5. CASE CheckMember(q)
  BY <1>5, RefuseShows, StepShows DEF CheckMember, GoOn, Call
<1> QED
  BY <1>1, <1>2, <1>3, <1>4, <1>5 DEF SubcontestStep

LEMMA ShownWasChecked ==
  ASSUME IInv, [Next]_vars, NEW r \in Calls, calls[r].shown = Null, calls'[r].shown # Null
  PROVE  calls'[r].shown = calls[r].found \/ ~SubExists(calls[r].found)
<1>1. PICK q \in Calls : FindBoard(q)
  <2>1. ASSUME NEW q \in Calls, Unauthenticated(q) \/ Break(q)
        PROVE  FALSE
    BY <2>1, RefuseShows DEF Unauthenticated, Break
  <2>2. CASE AllAnswered \/ UNCHANGED vars
    BY <2>2 DEF AllAnswered, vars
  <2> QED
    BY <2>1, <2>2, AccountsShowNothing, ContestsShowNothing, SubcontestsShowNothing
    DEF Next
<1>2. CASE Refuse(q, "not_found")
  BY <1>2, RefuseShows
<1>3. ASSUME NEW s \in BySlug(Req(q).slug),
             GoOn(q, [calls[q] EXCEPT !.pc = "answered", !.answer = "ok", !.shown = s.id])
      PROVE  calls'[r].shown = calls[r].found \/ ~SubExists(calls[r].found)
  <2>1. /\ r # q => calls'[r] = calls[r]
        /\ calls'[q].shown = s.id
    BY <1>3 DEF GoOn, Step, IInv, TypeOK, Call
  <2>2. r = q /\ calls'[r].shown = s.id
    BY <2>1
  <2>3. \A t \in subcontests : t.id = calls[q].found => t.slug = Req(q).slug
    BY <1>1 DEF FindBoard, IInv, Proper, HasFound, StillFound
  <2>4. ASSUME NEW t \in subcontests, t.id = calls[q].found
        PROVE  t = s
    BY <1>3, <2>3, <2>4 DEF BySlug, IInv, SubcontestRows
  <2> QED
    BY <2>2, <2>4 DEF SubExists
<1> QED
  BY <1>1, <1>2, <1>3 DEF FindBoard

\* A subcontest is only deleted by its owner, or with its owner's account.
THEOREM DeletionsAreTheOwners == Spec => OnlyOwnersDelete
<1>1. IInv /\ [Next]_vars =>
        [\A s \in subcontests \ subcontests' :
           \E r \in Calls :
             /\ calls'[r].pc = "answered" /\ calls[r].pc # "answered"
             /\ Req(r).op \in {"deleteSubcontest", "deleteUser"}
             /\ calls'[r].user = s.owner]_vars
  BY DeletedByOwner
<1> QED
  BY <1>1, Invariance, PTL DEF Spec, OnlyOwnersDelete

\* The leaderboard that is shown is the one that was checked, unless that is gone.
THEOREM ShownBoardsWereChecked == Spec => BoardsShowWhatWasChecked
<1>1. IInv /\ [Next]_vars =>
        [\A r \in Calls :
           calls[r].shown = Null /\ calls'[r].shown # Null =>
             calls'[r].shown = calls[r].found \/ ~SubExists(calls[r].found)]_vars
  BY ShownWasChecked
<1> QED
  BY <1>1, Invariance, PTL DEF Spec, BoardsShowWhatWasChecked

----------------------------------------------------------------------------
(***************************************************************************)
(* Contests are whole                                                      *)
(***************************************************************************)
\* What the third and the fourth statement of CreateContest insert, and where a
\* contest in the making stands.
Listing(r) ==
  UNION {{[contest |-> r, country |-> c, letter |-> Groups(r)[k].letter] :
            c \in {d \in CountriesOf(r) : Listed(r, k, d) # {}}} :
          k \in DOMAIN Groups(r)}

PlacesOf(r, c) == UNION {{k} \X Listed(r, k, c) : k \in DOMAIN Groups(r)}

MatchesOf(r) == {m \in matches : m.contest = r}
StandingsOf(r) == {g \in groupStandings : g.contest = r}

Making(r) ==
  LET c == calls[r]
  IN  /\ MatchesOf(r) # {} => /\ c.req.op = "createContest"
                              /\ c.pc \in {"standings", "answered"}
      /\ StandingsOf(r) # {} => c.req.op = "createContest" /\ c.pc = "answered"
      /\ c.pc = "standings" => MatchesOf(r) = GroupMatches(r) \cup Bracket(r)
      /\ c.req.op = "createContest" /\ c.answer = "ok" =>
           /\ c.pc = "answered"
           /\ MatchesOf(r) = GroupMatches(r) \cup Bracket(r)
           /\ StandingsOf(r) = Listing(r)
           /\ \A d \in CountriesOf(r) : ~(Cardinality(PlacesOf(r, d)) > 1)

MadeInv ==
  /\ \A r \in Calls : Making(r)
  /\ \A k \in contests : k.id \in Calls /\ Req(k.id).op = "createContest"
  /\ \E script \in Scripts : \A r \in Calls : Req(r) = script[r]

\* A finite set that has not more than one element has at most one.
LEMMA AtMostOne ==
  ASSUME NEW S, IsFiniteSet(S), ~(Cardinality(S) > 1), NEW x \in S, NEW y \in S
  PROVE  x = y
<1>1. SUFFICES ASSUME x # y PROVE FALSE
  OBVIOUS
<1>2. IsFiniteSet({x}) /\ Cardinality({x}) = 1
  BY FS_Singleton
<1>3. Cardinality({x} \cup {y}) = 2
  BY <1>1, <1>2, FS_AddElement
<1>4. {x} \cup {y} \subseteq S
  OBVIOUS
<1>5. Cardinality({x} \cup {y}) <= Cardinality(S) /\ Cardinality(S) \in Nat
  BY <1>4, FS_Subset, FS_CardinalityType
<1> QED
  BY <1>3, <1>5

\* A country is finitely often on the lists of a request.
LEMMA FinitelyListed ==
  ASSUME IInv, NEW r \in Calls, Req(r).op = "createContest", NEW c
  PROVE  IsFiniteSet(PlacesOf(r, c))
<1>1. IsFiniteSet(DOMAIN Groups(r))
  <2>1. Groups(r) \in Seq(GroupList)
    BY RequestTypes DEF Groups
  <2> QED
    BY <2>1, FS_Interval
<1>2. ASSUME NEW k \in DOMAIN Groups(r)
      PROVE  IsFiniteSet({k} \X Listed(r, k, c))
  <2>1. Groups(r)[k].countries \in Seq(Countries)
    BY ListedCountries
  <2>2. IsFiniteSet(DOMAIN Groups(r)[k].countries)
    BY <2>1, FS_Interval
  <2>3. IsFiniteSet(Listed(r, k, c))
    BY <2>2, FS_Subset DEF Listed
  <2> QED
    BY <2>3, FS_Singleton, FS_Product
<1> DEFINE P == {{k} \X Listed(r, k, c) : k \in DOMAIN Groups(r)}
<1>3. IsFiniteSet(P)
  <2> DEFINE f == [k \in DOMAIN Groups(r) |-> {k} \X Listed(r, k, c)]
  <2>1. f \in Surjection(DOMAIN Groups(r), P)
    BY DEF Surjection
  <2> HIDE DEF f, P
  <2> QED
    BY <1>1, <2>1, FS_Surjection
<1>4. \A p \in P : IsFiniteSet(p)
  BY <1>2
<1> HIDE DEF P
<1>5. IsFiniteSet(UNION P)
  BY <1>3, <1>4, FS_UNION
<1> QED
  BY <1>5 DEF P, PlacesOf

\* A country of a contest that was made has one place on its lists.
LEMMA OnePlace ==
  ASSUME IInv, NEW r \in Calls, Req(r).op = "createContest",
         \A c \in CountriesOf(r) : ~(Cardinality(PlacesOf(r, c)) > 1),
         NEW k \in DOMAIN Groups(r), NEW i \in DOMAIN Groups(r)[k].countries,
         NEW l \in DOMAIN Groups(r), NEW j \in DOMAIN Groups(r)[l].countries,
         Groups(r)[k].countries[i] = Groups(r)[l].countries[j]
  PROVE  k = l /\ i = j
<1> DEFINE c == Groups(r)[k].countries[i]
<1>1. c \in CountriesOf(r)
  BY DEF CountriesOf
<1>2. i \in Listed(r, k, c) /\ j \in Listed(r, l, c)
  BY DEF Listed
<1>3. <<k, i>> \in PlacesOf(r, c) /\ <<l, j>> \in PlacesOf(r, c)
  BY <1>2 DEF PlacesOf
<1>4. IsFiniteSet(PlacesOf(r, c)) /\ ~(Cardinality(PlacesOf(r, c)) > 1)
  BY <1>1, FinitelyListed
<1>5. <<k, i>> = <<l, j>>
  <2> HIDE DEF c
  <2> QED
    BY <1>3, <1>4, AtMostOne
<1> QED
  BY <1>5

\* A contest that was made: what its rows are and whom its lists name.
Whole(r) ==
  /\ r \in Calls /\ Req(r).op = "createContest"
  /\ MatchesOf(r) = GroupMatches(r) \cup Bracket(r)
  /\ StandingsOf(r) = Listing(r)
  /\ \A c \in CountriesOf(r) : ~(Cardinality(PlacesOf(r, c)) > 1)

Entry(r, k, i) ==
  [contest |-> r, country |-> Groups(r)[k].countries[i], letter |-> Groups(r)[k].letter]

Pairing(r, k, i, j) ==
  [contest |-> r, round |-> 0, index |-> Null,
   country1 |-> Groups(r)[k].countries[i], country2 |-> Groups(r)[k].countries[j]]

\* It stands in the group whose list names it, and in no other.
LEMMA StandsInItsGroup ==
  ASSUME IInv, NEW r, Whole(r),
         NEW k \in DOMAIN Groups(r), NEW i \in DOMAIN Groups(r)[k].countries
  PROVE  GroupsOf(r, Groups(r)[k].countries[i]) = {Entry(r, k, i)}
<1> DEFINE c == Groups(r)[k].countries[i]
<1>1. c \in CountriesOf(r)
  BY DEF CountriesOf
<1>2. Entry(r, k, i) \in GroupsOf(r, c)
  <2>1. i \in Listed(r, k, c)
    BY DEF Listed
  <2>2. Entry(r, k, i) \in Listing(r)
    BY <1>1, <2>1 DEF Listing, Entry
  <2>3. Entry(r, k, i) \in StandingsOf(r)
    BY <2>2 DEF Whole
  <2> QED
    BY <2>3 DEF StandingsOf, GroupsOf, Entry
<1>3. ASSUME NEW g \in GroupsOf(r, c)
      PROVE  g = Entry(r, k, i)
  <2>1. g \in Listing(r) /\ g.country = c
    BY <1>3 DEF GroupsOf, Whole, StandingsOf
  <2>2. PICK l \in DOMAIN Groups(r), d \in CountriesOf(r) :
          Listed(r, l, d) # {} /\
          g = [contest |-> r, country |-> d, letter |-> Groups(r)[l].letter]
    BY <2>1 DEF Listing
  <2>3. d = c
    BY <2>1, <2>2
  <2>4. PICK j \in DOMAIN Groups(r)[l].countries : Groups(r)[l].countries[j] = c
    BY <2>2, <2>3 DEF Listed
  <2>5. l = k
    BY <2>4, OnePlace DEF Whole
  <2> QED
    BY <2>2, <2>3, <2>5 DEF Entry
<1> QED
  BY <1>2, <1>3

\* Two countries of a group meet once; countries of two groups never do.
LEMMA MeetOnce ==
  ASSUME IInv, NEW r, Whole(r),
         NEW k \in DOMAIN Groups(r), NEW i \in DOMAIN Groups(r)[k].countries,
         NEW l \in DOMAIN Groups(r), NEW j \in DOMAIN Groups(r)[l].countries,
         Groups(r)[k].countries[i] # Groups(r)[l].countries[j]
  PROVE  Meetings(r, Groups(r)[k].countries[i], Groups(r)[l].countries[j]) =
           IF k = l THEN {IF i < j THEN Pairing(r, k, i, j) ELSE Pairing(r, k, j, i)}
                    ELSE {}
<1> DEFINE c == Groups(r)[k].countries[i]
           d == Groups(r)[l].countries[j]
           M == Meetings(r, c, d)
<1>1. Groups(r)[k].countries \in Seq(Countries) /\ Groups(r)[l].countries \in Seq(Countries)
  BY ListedCountries DEF Whole
<1>2. i \in Nat /\ j \in Nat
  BY <1>1
<1>3. ASSUME NEW m \in M
      PROVE  /\ k = l
             /\ \/ i < j /\ m = Pairing(r, k, i, j)
                \/ j < i /\ m = Pairing(r, k, j, i)
  <2>1. /\ m \in GroupMatches(r) \cup Bracket(r)
        /\ {m.country1, m.country2} = {c, d}
    BY <1>3 DEF Meetings, Whole, MatchesOf
  <2>2. m \notin Bracket(r)
    BY <2>1 DEF Bracket
  <2>3. PICK n \in DOMAIN Groups(r) :
          \E a, b \in DOMAIN Groups(r)[n].countries : a < b /\ m = Pairing(r, n, a, b)
    <3>1. PICK g \in {Groups(r)[n] : n \in DOMAIN Groups(r)} :
            m \in {[contest |-> r, round |-> 0, index |-> Null,
                    country1 |-> g.countries[ij[1]], country2 |-> g.countries[ij[2]]] :
                    ij \in {p \in (DOMAIN g.countries) \X (DOMAIN g.countries) :
                              p[1] < p[2]}}
      BY <2>1, <2>2 DEF GroupMatches
    <3>2. PICK n \in DOMAIN Groups(r) : g = Groups(r)[n]
      OBVIOUS
    <3>3. PICK ij \in (DOMAIN g.countries) \X (DOMAIN g.countries) :
            /\ ij[1] < ij[2]
            /\ m = [contest |-> r, round |-> 0, index |-> Null,
                    country1 |-> g.countries[ij[1]], country2 |-> g.countries[ij[2]]]
      BY <3>1
    <3> QED
      BY <3>2, <3>3 DEF Pairing
  <2> PICK a, b \in DOMAIN Groups(r)[n].countries : a < b /\ m = Pairing(r, n, a, b)
    BY <2>3
  <2>4. /\ m.country1 = Groups(r)[n].countries[a]
        /\ m.country2 = Groups(r)[n].countries[b]
    BY DEF Pairing
  <2>5. CASE m.country1 = c /\ m.country2 = d
    <3>1. n = k /\ a = i
      BY <2>4, <2>5, OnePlace DEF Whole
    <3>2. n = l /\ b = j
      BY <2>4, <2>5, OnePlace DEF Whole
    <3> QED
      BY <2>3, <3>1, <3>2
  <2>6. CASE m.country1 = d /\ m.country2 = c
    <3>1. n = l /\ a = j
      BY <2>4, <2>6, OnePlace DEF Whole
    <3>2. n = k /\ b = i
      BY <2>4, <2>6, OnePlace DEF Whole
    <3> QED
      BY <2>3, <3>1, <3>2
  <2> QED
    BY <2>1, <2>5, <2>6
<1>4. ASSUME NEW a \in DOMAIN Groups(r)[k].countries,
             NEW b \in DOMAIN Groups(r)[k].countries, a < b
      PROVE  Pairing(r, k, a, b) \in MatchesOf(r)
  <2>1. <<a, b>> \in {p \in (DOMAIN Groups(r)[k].countries) \X
                             (DOMAIN Groups(r)[k].countries) : p[1] < p[2]}
    BY <1>4
  <2>2. Pairing(r, k, a, b) \in GroupMatches(r)
    BY <2>1 DEF GroupMatches, Pairing
  <2> QED
    BY <2>2 DEF Whole
<1>5. CASE k # l
  BY <1>3, <1>5
<1>6. CASE k = l /\ i < j
  <2>1. Pairing(r, k, i, j) \in M
    BY <1>4, <1>6 DEF Meetings, MatchesOf, Pairing
  <2> QED
    BY <1>2, <1>3, <1>6, <2>1
<1>7. CASE k = l /\ ~(i < j)
  <2>1. j < i
    BY <1>2, <1>7
  <2>2. Pairing(r, k, j, i) \in M
    BY <1>4, <1>7, <2>1 DEF Meetings, MatchesOf, Pairing
  <2> QED
    BY <1>2, <1>3, <1>7, <2>1, <2>2
<1> QED
  BY <1>5, <1>6, <1>7

\* The matches of a knockout round are numbered from 0.
LEMMA NumberedFromZero ==
  ASSUME NEW r, Whole(r), NEW n \in 1 .. 5
  PROVE  IndexesOf(r, n) = 0 .. MatchesInRound[n] - 1
<1>1. ASSUME NEW m \in matches, m.contest = r, m.round = n
      PROVE  m.index \in 0 .. MatchesInRound[n] - 1
  <2>1. m \in GroupMatches(r) \cup Bracket(r)
    BY <1>1 DEF Whole, MatchesOf
  <2>2. m \notin GroupMatches(r)
    BY <1>1 DEF GroupMatches
  <2> QED
    BY <1>1, <2>1, <2>2 DEF Bracket
<1>2. ASSUME NEW i \in 0 .. MatchesInRound[n] - 1
      PROVE  \E m \in matches : m.contest = r /\ m.round = n /\ m.index = i
  <2> DEFINE m == [contest |-> r, round |-> n, index |-> i, country1 |-> Null,
                   country2 |-> Null]
  <2>1. m \in Bracket(r)
    BY DEF Bracket
  <2>2. m \in MatchesOf(r)
    BY <2>1 DEF Whole
  <2> QED
    BY <2>2 DEF MatchesOf
<1> QED
  BY <1>1, <1>2 DEF IndexesOf

\* Halving the numbers up to 2n + 1 gives those up to n.
LEMMA Halves ==
  ASSUME NEW m \in Nat, NEW n \in Nat, m = 2 * n + 1
  PROVE  {i \div 2 : i \in 0 .. m} = 0 .. n
<1>1. ASSUME NEW i \in 0 .. m PROVE i \div 2 \in 0 .. n
  OBVIOUS
<1>2. ASSUME NEW i \in 0 .. n PROVE 2 * i \in 0 .. m /\ i = (2 * i) \div 2
  OBVIOUS
<1>3. ASSUME NEW i \in 0 .. n PROVE i \in {j \div 2 : j \in 0 .. m}
  BY <1>2
<1> QED
  BY <1>1, <1>3

LEMMA NumberedInHalves ==
  ASSUME NEW r, Whole(r)
  PROVE  /\ IndexesOf(r, 1) = 0 .. 15 /\ IndexesOf(r, 5) = {0, 1}
         /\ \A n \in 1 .. 3 : IndexesOf(r, n + 1) = {i \div 2 : i \in IndexesOf(r, n)}
<1>1. /\ IndexesOf(r, 1) = 0 .. 15 /\ IndexesOf(r, 2) = 0 .. 7
      /\ IndexesOf(r, 3) = 0 .. 3 /\ IndexesOf(r, 4) = 0 .. 1
      /\ IndexesOf(r, 5) = 0 .. 1
  BY NumberedFromZero DEF MatchesInRound
<1>2. /\ {i \div 2 : i \in 0 .. 15} = 0 .. 7
      /\ {i \div 2 : i \in 0 .. 7} = 0 .. 3
      /\ {i \div 2 : i \in 0 .. 3} = 0 .. 1
  <2>1. {i \div 2 : i \in 0 .. 15} = 0 .. 7
    <3>1. 15 = 2 * 7 + 1
      OBVIOUS
    <3> QED
      BY <3>1, Halves
  <2>2. {i \div 2 : i \in 0 .. 7} = 0 .. 3
    <3>1. 7 = 2 * 3 + 1
      OBVIOUS
    <3> QED
      BY <3>1, Halves
  <2>3. {i \div 2 : i \in 0 .. 3} = 0 .. 1
    <3>1. 3 = 2 * 1 + 1
      OBVIOUS
    <3> QED
      BY <3>1, Halves
  <2> QED
    BY <2>1, <2>2, <2>3
<1>3. ASSUME NEW n \in 1 .. 3
      PROVE  IndexesOf(r, n + 1) = {i \div 2 : i \in IndexesOf(r, n)}
  <2>1. /\ IndexesOf(r, 2) = {i \div 2 : i \in IndexesOf(r, 1)}
        /\ IndexesOf(r, 3) = {i \div 2 : i \in IndexesOf(r, 2)}
        /\ IndexesOf(r, 4) = {i \div 2 : i \in IndexesOf(r, 3)}
    BY <1>1, <1>2, Zenon
  <2>2. \/ n = 1 /\ n + 1 = 2
        \/ n = 2 /\ n + 1 = 3
        \/ n = 3 /\ n + 1 = 4
    OBVIOUS
  <2> QED
    BY <2>1, <2>2, Zenon
<1> QED
  BY <1>1, <1>3

(***************************************************************************)
(* The making of a contest                                                 *)
(***************************************************************************)
\* Only call q takes a step, and its request is what it was.
Only(q) ==
  /\ \A r \in Calls : r # q => calls'[r] = calls[r]
  /\ calls'[q].req = calls[q].req

LEMMA StepOnly ==
  ASSUME IInv, NEW q \in Calls, NEW call, call.req = calls[q].req, Step(q, call)
  PROVE  Only(q) /\ calls'[q] = call
BY DEF Step, Only, IInv, TypeOK

LEMMA RefuseOnly ==
  ASSUME IInv, NEW q \in Calls, NEW code, Refuse(q, code)
  PROVE  /\ Only(q) /\ calls'[q].pc = "answered" /\ calls'[q].answer = code
         /\ UNCHANGED <<matches, groupStandings, contests>>
<1> DEFINE next == [calls[q] EXCEPT !.pc = "answered", !.answer = code]
<1>1. next.req = calls[q].req /\ next.pc = "answered" /\ next.answer = code
  BY DEF IInv, TypeOK, Call
<1>2. Step(q, next) /\ UNCHANGED <<matches, groupStandings, contests>>
  BY DEF Refuse, Answer, contestVars
<1> HIDE DEF next
<1> QED
  BY <1>1, <1>2, StepOnly

\* The record of a first statement has the request of its call.
LEMMA CallerOnly ==
  ASSUME IInv, NEW q \in Calls, calls[q].pc = "idle", NEW call \in AsUser(q),
         NEW next, Step(q, next), next.req = call.req
  PROVE  Only(q) /\ calls'[q] = next
<1>1. call.req = calls[q].req
  BY Caller DEF Req
<1> QED
  BY <1>1, StepOnly

LEMMA AccountsOnly ==
  ASSUME IInv, NEW q \in Calls, AccountStep(q)
  PROVE  /\ Only(q) /\ Req(q).op # "createContest"
         /\ UNCHANGED <<matches, groupStandings, contests>>
<1> calls[q] \in Call
  BY DEF IInv, TypeOK
<1>1. CASE FindUser(q)
  BY <1>1, RefuseOnly, StepOnly DEF FindUser, LogIn, Call, Arrives, contestVars
<1>2. CASE CreateUser(q)
  <2>1. Req(q).op = "login"
    BY <1>2 DEF CreateUser, IInv, Proper, Local, Req
  <2> QED
    BY <1>2, <2>1, RefuseOnly, StepOnly DEF CreateUser, LogIn, Call, contestVars
<1>3. CASE DeleteUser(q)
  <2>1. calls[q].pc = "idle" /\ Req(q).op = "deleteUser"
    BY <1>3 DEF DeleteUser, Arrives
  <2>2. PICK call \in AsUser(q) :
          \/ Refuse(q, "unknown")
          \/ /\ Step(q, [call EXCEPT !.pc = "answered", !.answer = "ok"])
             /\ UNCHANGED contestVars
    BY <1>3 DEF DeleteUser
  <2>3. call \in Call
    BY <2>1, Caller
  <2> QED
    BY <2>1, <2>2, <2>3, RefuseOnly, CallerOnly DEF Call, contestVars
<1> QED
  BY <1>1, <1>2, <1>3 DEF AccountStep

LEMMA SubcontestsOnly ==
  ASSUME IInv, NEW q \in Calls, SubcontestStep(q)
  PROVE  /\ Only(q) /\ Req(q).op # "createContest"
         /\ UNCHANGED <<matches, groupStandings, contests>>
<1> calls[q] \in Call
  BY DEF IInv, TypeOK
<1>1. CASE FindContest(q) \/ FindByCode(q) \/ FindOwn(q) \/ CheckOwner(q)
  <2>1. calls[q].pc = "idle" /\ Req(q).op # "createContest"
    BY <1>1 DEF FindContest, FindByCode, FindOwn, CheckOwner, Arrives
  <2>2. PICK call \in AsUser(q) :
          \/ \E code \in Answers : Refuse(q, code)
          \/ \E row : \E pc \in {"insert", "join", "delete", "member", "board"} :
               /\ Step(q, [call EXCEPT !.pc = pc, !.found = row])
               /\ UNCHANGED contestVars
    BY <1>1 DEF FindContest, FindByCode, FindOwn, CheckOwner, GoOn, Answers
  <2>3. call \in Call
    BY <2>1, Caller
  <2> QED
    BY <2>1, <2>2, <2>3, RefuseOnly, CallerOnly DEF Call, contestVars
<1>2. CASE InsertSubcontest(q)
  BY <1>2, RefuseOnly, StepOnly DEF InsertSubcontest, Answer, Call, contestVars
<1>3. CASE SelfJoin(q) \/ Join(q)
  BY <1>3, RefuseOnly, StepOnly DEF SelfJoin, Join, InsertEntry, Answer, Call, contestVars
<1>4. CASE DeleteSubcontest(q)
  <2>1. Req(q).op = "deleteSubcontest"
    BY <1>4 DEF DeleteSubcontest, IInv, Proper, Local, Req
  <2> QED
    BY <1>4, <2>1, StepOnly DEF DeleteSubcontest, DeleteRows, Answer, Call, contestVars
<1>5. CASE CheckMember(q) \/ FindBoard(q)
  <2>1. Req(q).op = "subleaderboard"
    BY <1>5 DEF CheckMember, FindBoard, IInv, Proper, Local, Req
  <2> QED
    BY <1>5, <2>1, RefuseOnly, StepOnly DEF CheckMember, FindBoard, GoOn, Call, contestVars
<1> QED
  BY <1>1, <1>2, <1>3, <1>4, <1>5 DEF SubcontestStep

\* The other calls' contests are not disturbed by a step of q.
LEMMA OthersMade ==
  ASSUME MadeInv, NEW q \in Calls, Only(q),
         \A m \in matches' \ matches : m.contest = q, matches \subseteq matches',
         \A g \in groupStandings' \ groupStandings : g.contest = q,
         groupStandings \subseteq groupStandings',
         \A k \in contests' \ contests : k.id = q /\ Req(q).op = "createContest",
         Making(q)'
  PROVE  MadeInv'
<1>1. \A r \in Calls : Req(r)' = Req(r)
  BY DEF Only, Req
<1>2. ASSUME NEW r \in Calls, r # q
      PROVE  Making(r)'
  <2>1. calls'[r] = calls[r] /\ Groups(r)' = Groups(r)
    BY <1>1, <1>2 DEF Only, Groups
  <2>2. MatchesOf(r)' = MatchesOf(r) /\ StandingsOf(r)' = StandingsOf(r)
    BY <1>2 DEF MatchesOf, StandingsOf
  <2>3. /\ GroupMatches(r)' = GroupMatches(r) /\ Bracket(r)' = Bracket(r)
        /\ CountriesOf(r)' = CountriesOf(r)
        /\ \A k, c : Listed(r, k, c)' = Listed(r, k, c)
    BY <2>1 DEF GroupMatches, Bracket, CountriesOf, Listed
  <2>4. Listing(r)' = Listing(r) /\ \A c : PlacesOf(r, c)' = PlacesOf(r, c)
    BY <2>1, <2>3 DEF Listing, PlacesOf
  <2>5. Making(r)
    BY DEF MadeInv
  <2> QED
    BY <2>1, <2>2, <2>3, <2>4, <2>5 DEF Making
<1>3. \E script \in Scripts : \A r \in Calls : Req(r)' = script[r]
  BY <1>1 DEF MadeInv
<1>4. \A k \in contests' : k.id \in Calls /\ Req(k.id)'.op = "createContest"
  BY <1>1 DEF MadeInv
<1> QED
  BY <1>2, <1>3, <1>4 DEF MadeInv

\* Calls of other kinds and calls that are refused make nothing.
LEMMA NothingMade ==
  ASSUME IInv, IInv', MadeInv, NEW q \in Calls, Only(q),
         UNCHANGED <<matches, groupStandings, contests>>,
         \/ Req(q).op # "createContest"
         \/ calls'[q].pc = "answered" /\ calls'[q].answer # "ok"
  PROVE  MadeInv'
<1>1. MatchesOf(q)' = MatchesOf(q) /\ StandingsOf(q)' = StandingsOf(q) /\ Making(q)
  BY DEF MatchesOf, StandingsOf, MadeInv
<1>2. Local(q)' /\ calls'[q].req = Req(q)
  BY DEF IInv, Proper, Only, Req
<1>3. CASE Req(q).op # "createContest"
  BY <1>1, <1>2, <1>3, OthersMade DEF Making, Local, Req
<1>4. CASE calls'[q].pc = "answered" /\ calls'[q].answer # "ok"
  BY <1>1, <1>2, <1>4, OthersMade DEF Making, Req
<1> QED
  BY <1>3, <1>4

(***************************************************************************)
(* The four statements, one by one                                         *)
(***************************************************************************)
LEMMA InsertContestMade ==
  ASSUME IInv, IInv', MadeInv, NEW q \in Calls, InsertContest(q)
  PROVE  MadeInv'
<1>1. calls[q].pc = "idle" /\ Req(q).op = "createContest"
  BY DEF InsertContest, Arrives
<1>2. calls[q] \in Call /\ Making(q) /\ Local(q)
  BY DEF IInv, TypeOK, MadeInv, Proper
<1>3. PICK call \in AsUser(q) :
        \/ Refuse(q, "permission_denied") \/ Refuse(q, "already_exists")
        \/ /\ contests' = contests \cup {[id |-> q, title |-> Req(q).title,
                                          slug |-> SlugOf[Req(q).title]]}
           /\ Step(q, [call EXCEPT !.pc = "countries", !.found = q])
           /\ UNCHANGED <<accountVars, leagueVars, countries, matches, groupStandings>>
  BY DEF InsertContest
<1>4. call \in Call /\ call.req = calls[q].req /\ call.answer = calls[q].answer
  BY <1>1, Caller DEF Req, AsUser, IInv, TypeOK, Call
<1>5. CASE Refuse(q, "permission_denied") \/ Refuse(q, "already_exists")
  BY <1>5, RefuseOnly, NothingMade
<1>6. CASE /\ contests' = contests \cup {[id |-> q, title |-> Req(q).title,
                                          slug |-> SlugOf[Req(q).title]]}
           /\ Step(q, [call EXCEPT !.pc = "countries", !.found = q])
           /\ UNCHANGED <<accountVars, leagueVars, countries, matches, groupStandings>>
  <2> DEFINE next == [call EXCEPT !.pc = "countries", !.found = q]
  <2>1. next.req = call.req /\ next.pc = "countries" /\ next.answer = call.answer
    BY <1>4 DEF Call
  <2>2. Only(q) /\ calls'[q] = next
    BY <1>1, <1>6, <2>1, CallerOnly
  <2> HIDE DEF next
  <2>3. MatchesOf(q) = {} /\ StandingsOf(q) = {} /\ calls[q].answer = "none"
    BY <1>1, <1>2 DEF Making, Local
  <2>4. MatchesOf(q)' = {} /\ StandingsOf(q)' = {}
    BY <1>6, <2>3 DEF MatchesOf, StandingsOf
  <2>5. Making(q)'
    BY <1>4, <2>1, <2>2, <2>3, <2>4 DEF Making
  <2>6. \A k \in contests' \ contests : k.id = q
    BY <1>6
  <2> QED
    BY <1>1, <1>6, <2>2, <2>5, <2>6, OthersMade
<1> QED
  BY <1>3, <1>5, <1>6

LEMMA InsertCountriesMade ==
  ASSUME IInv, IInv', MadeInv, NEW q \in Calls, InsertCountries(q)
  PROVE  MadeInv'
<1>1. calls[q] \in Call /\ Making(q) /\ Local(q) /\ calls[q].pc = "countries"
  BY DEF IInv, TypeOK, MadeInv, Proper, InsertCountries
<1>2. CASE Refuse(q, "already_exists")
  BY <1>2, RefuseOnly, NothingMade
<1>3. CASE /\ Step(q, [calls[q] EXCEPT !.pc = "matches"])
           /\ UNCHANGED <<accountVars, leagueVars, contests, matches, groupStandings>>
  <2> DEFINE next == [calls[q] EXCEPT !.pc = "matches"]
  <2>1. /\ next.req = calls[q].req /\ next.pc = "matches"
        /\ next.answer = calls[q].answer
    BY <1>1 DEF Call
  <2>2. Only(q) /\ calls'[q] = next
    BY <1>3, <2>1, StepOnly
  <2> HIDE DEF next
  <2>3. MatchesOf(q) = {} /\ StandingsOf(q) = {} /\ calls[q].answer = "none"
    BY <1>1 DEF Making, Local
  <2>4. MatchesOf(q)' = {} /\ StandingsOf(q)' = {}
    BY <1>3, <2>3 DEF MatchesOf, StandingsOf
  <2>5. Making(q)'
    BY <2>1, <2>2, <2>3, <2>4 DEF Making
  <2> QED
    BY <1>3, <2>2, <2>5, OthersMade
<1> QED
  BY <1>2, <1>3 DEF InsertCountries

\* What the last two statements insert is of their contest.
LEMMA InsertedByQ ==
  ASSUME NEW q
  PROVE  /\ \A m \in GroupMatches(q) \cup Bracket(q) : m.contest = q
         /\ \A g \in Listing(q) : g.contest = q
<1>1. \A m \in GroupMatches(q) : m.contest = q
  BY DEF GroupMatches
<1>2. \A m \in Bracket(q) : m.contest = q
  BY DEF Bracket
<1>3. \A g \in Listing(q) : g.contest = q
  BY DEF Listing
<1> QED
  BY <1>1, <1>2, <1>3

\* The lists of a request are what they were.
LEMMA SameLists ==
  ASSUME NEW q, Req(q)' = Req(q)
  PROVE  /\ GroupMatches(q)' = GroupMatches(q) /\ Bracket(q)' = Bracket(q)
         /\ CountriesOf(q)' = CountriesOf(q) /\ Listing(q)' = Listing(q)
         /\ \A c : PlacesOf(q, c)' = PlacesOf(q, c)
<1>1. Groups(q)' = Groups(q)
  BY DEF Groups
<1>2. /\ GroupMatches(q)' = GroupMatches(q) /\ Bracket(q)' = Bracket(q)
      /\ CountriesOf(q)' = CountriesOf(q) /\ \A k, c : Listed(q, k, c)' = Listed(q, k, c)
  BY <1>1 DEF GroupMatches, Bracket, CountriesOf, Listed
<1> QED
  BY <1>1, <1>2 DEF Listing, PlacesOf

LEMMA InsertMatchesMade ==
  ASSUME IInv, MadeInv, NEW q \in Calls, InsertMatches(q)
  PROVE  MadeInv'
<1>1. calls[q] \in Call /\ Making(q) /\ Local(q) /\ calls[q].pc = "matches"
  BY DEF IInv, TypeOK, MadeInv, Proper, InsertMatches
<1> DEFINE next == [calls[q] EXCEPT !.pc = "standings"]
<1>2. /\ next.req = calls[q].req /\ next.pc = "standings"
      /\ next.answer = calls[q].answer
  BY <1>1 DEF Call
<1>3. Only(q) /\ calls'[q] = next
  BY <1>2, StepOnly DEF InsertMatches
<1> HIDE DEF next
<1>4. /\ MatchesOf(q) = {} /\ StandingsOf(q) = {} /\ calls[q].answer = "none"
      /\ calls[q].req.op = "createContest"
  BY <1>1 DEF Making, Local
<1>5. /\ GroupMatches(q)' = GroupMatches(q) /\ Bracket(q)' = Bracket(q)
  BY <1>3, SameLists DEF Only, Req
<1>6. matches' = matches \cup (GroupMatches(q) \cup Bracket(q))
  BY DEF InsertMatches
<1>7. MatchesOf(q)' = GroupMatches(q) \cup Bracket(q) /\ StandingsOf(q)' = {}
  <2>1. MatchesOf(q)' = MatchesOf(q) \cup (GroupMatches(q) \cup Bracket(q))
    BY <1>6, InsertedByQ DEF MatchesOf
  <2>2. StandingsOf(q)' = StandingsOf(q)
    BY DEF InsertMatches, StandingsOf
  <2> QED
    BY <1>4, <2>1, <2>2
<1>8. Making(q)'
  BY <1>2, <1>3, <1>4, <1>5, <1>7 DEF Making
<1>9. \A m \in matches' \ matches : m.contest = q
  BY <1>6, InsertedByQ
<1>10. matches \subseteq matches' /\ UNCHANGED <<contests, groupStandings>>
  BY <1>6 DEF InsertMatches
<1> QED
  BY <1>3, <1>8, <1>9, <1>10, OthersMade

LEMMA InsertStandingsMade ==
  ASSUME IInv, IInv', MadeInv, NEW q \in Calls, InsertStandings(q)
  PROVE  MadeInv'
<1>1. calls[q] \in Call /\ Making(q) /\ Local(q) /\ calls[q].pc = "standings"
  BY DEF IInv, TypeOK, MadeInv, Proper, InsertStandings
<1>2. CASE Refuse(q, "already_exists")
  BY <1>2, RefuseOnly, NothingMade
<1>3. CASE ~Refuse(q, "already_exists")
  <2>1. /\ ~\E c \in CountriesOf(q) : Cardinality(PlacesOf(q, c)) > 1
        /\ groupStandings' = groupStandings \cup Listing(q)
        /\ Answer(q, "ok")
        /\ UNCHANGED <<contests, matches>>
    BY <1>3 DEF InsertStandings, PlacesOf, Listing
  <2> DEFINE next == [calls[q] EXCEPT !.pc = "answered", !.answer = "ok"]
  <2>2. next.req = calls[q].req /\ next.pc = "answered"
    BY <1>1 DEF Call
  <2>3. Only(q) /\ calls'[q] = next
    BY <2>1, <2>2, StepOnly DEF Answer
  <2> HIDE DEF next
  <2>4. /\ MatchesOf(q) = GroupMatches(q) \cup Bracket(q) /\ StandingsOf(q) = {}
        /\ calls[q].req.op = "createContest"
    BY <1>1 DEF Making, Local
  <2>5. MatchesOf(q)' = MatchesOf(q) /\ StandingsOf(q)' = Listing(q)
    BY <2>1, <2>4, InsertedByQ DEF MatchesOf, StandingsOf
  <2>6. /\ GroupMatches(q)' = GroupMatches(q) /\ Bracket(q)' = Bracket(q)
        /\ CountriesOf(q)' = CountriesOf(q) /\ Listing(q)' = Listing(q)
        /\ \A c : PlacesOf(q, c)' = PlacesOf(q, c)
    BY <2>3, SameLists DEF Only, Req
  <2>7. Making(q)'
    BY <2>1, <2>2, <2>3, <2>4, <2>5, <2>6 DEF Making
  <2>8. \A g \in groupStandings' \ groupStandings : g.contest = q
    BY <2>1, InsertedByQ
  <2> QED
    BY <2>1, <2>3, <2>7, <2>8, OthersMade
<1> QED
  BY <1>2, <1>3

LEMMA InitMade ==
  ASSUME Init
  PROVE  MadeInv
<1>1. PICK script \in Scripts :
        calls = [r \in Calls |->
                   [pc |-> "idle", req |-> script[r], user |-> Null, found |-> Null,
                    shown |-> Null, answer |-> "none"]]
  BY DEF Init
<1>2. \A r \in Calls : Req(r) = script[r]
  BY <1>1 DEF Req
<1>3. matches = {} /\ groupStandings = {} /\ contests = {}
  BY DEF Init
<1>4. \A r \in Calls : MatchesOf(r) = {} /\ StandingsOf(r) = {}
  BY <1>3 DEF MatchesOf, StandingsOf
<1>5. ASSUME NEW r \in Calls
      PROVE  Making(r)
  <2>1. calls[r].pc = "idle" /\ calls[r].answer = "none"
    BY <1>1
  <2> QED
    BY <1>4, <2>1 DEF Making
<1> QED
  BY <1>2, <1>3, <1>5 DEF MadeInv

LEMMA StepMade ==
  ASSUME IInv, IInv', MadeInv, [Next]_vars
  PROVE  MadeInv'
<1>1. ASSUME NEW q \in Calls, AccountStep(q) PROVE MadeInv'
  BY <1>1, AccountsOnly, NothingMade
<1>2. ASSUME NEW q \in Calls, SubcontestStep(q) PROVE MadeInv'
  BY <1>2, SubcontestsOnly, NothingMade
<1>3. ASSUME NEW q \in Calls, ContestStep(q) PROVE MadeInv'
  BY <1>3, InsertContestMade, InsertCountriesMade, InsertMatchesMade, InsertStandingsMade
  DEF ContestStep
<1>4. ASSUME NEW q \in Calls, NEW code \in Answers \ {"ok"}, Refuse(q, code)
      PROVE  MadeInv'
  BY <1>4, RefuseOnly, NothingMade
<1>5. ASSUME NEW q \in Calls, Unauthenticated(q) \/ Break(q) PROVE MadeInv'
  BY <1>4, <1>5 DEF Unauthenticated, Break, Answers
<1>6. CASE UNCHANGED vars
  <2>1. ASSUME NEW r \in Calls
        PROVE  Making(r)'
    <3>1. Req(r)' = Req(r) /\ calls'[r] = calls[r] /\ Making(r)
      BY <1>6 DEF vars, Req, MadeInv
    <3>2. MatchesOf(r)' = MatchesOf(r) /\ StandingsOf(r)' = StandingsOf(r)
      BY <1>6 DEF vars, MatchesOf, StandingsOf
    <3> QED
      BY <3>1, <3>2, SameLists DEF Making
  <2> QED
    BY <1>6, <2>1 DEF vars, MadeInv, Req
<1> QED
  BY <1>1, <1>2, <1>3, <1>5, <1>6 DEF Next, AllAnswered

\* What was made for a contest that was answered as created is what was asked for.
LEMMA MadeWhole ==
  ASSUME LettersDiffer, IInv, MadeInv
  PROVE  ContestsAreWhole
<1> SUFFICES ASSUME NEW row \in contests, calls[row.id].answer = "ok"
             PROVE  /\ \A c \in CountriesOf(row.id) : Cardinality(GroupsOf(row.id, c)) = 1
                    /\ \A c, d \in CountriesOf(row.id) :
                         c # d =>
                           Cardinality(Meetings(row.id, c, d)) =
                             IF \E g \in GroupsOf(row.id, c), h \in GroupsOf(row.id, d) :
                                  g.letter = h.letter
                             THEN 1 ELSE 0
                    /\ IndexesOf(row.id, 1) = 0 .. 15
                    /\ \A round \in 1 .. 3 :
                         IndexesOf(row.id, round + 1) =
                           {i \div 2 : i \in IndexesOf(row.id, round)}
                    /\ IndexesOf(row.id, 5) = {0, 1}
  BY DEF ContestsAreWhole
<1> DEFINE r == row.id
<1>1. r \in Calls /\ Req(r).op = "createContest" /\ Whole(r)
  BY DEF MadeInv, Making, Req, Whole
<1> HIDE DEF r
<1>2. \A k, l \in DOMAIN Groups(r) : Groups(r)[k].letter = Groups(r)[l].letter => k = l
  BY <1>1 DEF LettersDiffer, MadeInv, Groups
<1>3. \A c \in CountriesOf(r) :
        \E k \in DOMAIN Groups(r) :
          \E i \in DOMAIN Groups(r)[k].countries : c = Groups(r)[k].countries[i]
  BY DEF CountriesOf
<1>4. ASSUME NEW c \in CountriesOf(r)
      PROVE  Cardinality(GroupsOf(r, c)) = 1
  <2> PICK k \in DOMAIN Groups(r) :
        \E i \in DOMAIN Groups(r)[k].countries : c = Groups(r)[k].countries[i]
    BY <1>3
  <2> PICK i \in DOMAIN Groups(r)[k].countries : c = Groups(r)[k].countries[i]
    OBVIOUS
  <2>1. GroupsOf(r, c) = {Entry(r, k, i)}
    BY <1>1, StandsInItsGroup
  <2> QED
    BY <2>1, FS_Singleton
<1>5. ASSUME NEW c \in CountriesOf(r), NEW d \in CountriesOf(r), c # d
      PROVE  Cardinality(Meetings(r, c, d)) =
               IF \E g \in GroupsOf(r, c), h \in GroupsOf(r, d) : g.letter = h.letter
               THEN 1 ELSE 0
  <2> PICK k \in DOMAIN Groups(r) :
        \E i \in DOMAIN Groups(r)[k].countries : c = Groups(r)[k].countries[i]
    BY <1>3
  <2> PICK i \in DOMAIN Groups(r)[k].countries : c = Groups(r)[k].countries[i]
    OBVIOUS
  <2> PICK l \in DOMAIN Groups(r) :
        \E j \in DOMAIN Groups(r)[l].countries : d = Groups(r)[l].countries[j]
    BY <1>3
  <2> PICK j \in DOMAIN Groups(r)[l].countries : d = Groups(r)[l].countries[j]
    OBVIOUS
  <2>1. GroupsOf(r, c) = {Entry(r, k, i)} /\ GroupsOf(r, d) = {Entry(r, l, j)}
    BY <1>1, StandsInItsGroup
  <2>2. Entry(r, k, i).letter = Entry(r, l, j).letter <=> k = l
    BY <1>2 DEF Entry
  <2>3. (\E g \in GroupsOf(r, c), h \in GroupsOf(r, d) : g.letter = h.letter) <=> k = l
    BY <2>1, <2>2
  <2>4. Meetings(r, c, d) =
          IF k = l THEN {IF i < j THEN Pairing(r, k, i, j) ELSE Pairing(r, k, j, i)}
                   ELSE {}
    BY <1>1, <1>5, MeetOnce
  <2>5. CASE k = l
    <3>1. Cardinality(Meetings(r, c, d)) = 1
      BY <2>4, <2>5, FS_Singleton
    <3> QED
      BY <2>3, <2>5, <3>1
  <2>6. CASE k # l
    <3>1. Cardinality(Meetings(r, c, d)) = 0
      BY <2>4, <2>6, FS_EmptySet
    <3> QED
      BY <2>3, <2>6, <3>1
  <2> QED
    BY <2>5, <2>6
<1>6. /\ IndexesOf(r, 1) = 0 .. 15 /\ IndexesOf(r, 5) = {0, 1}
      /\ \A n \in 1 .. 3 : IndexesOf(r, n + 1) = {i \div 2 : i \in IndexesOf(r, n)}
  BY <1>1, NumberedInHalves
<1> QED
  BY <1>4, <1>5, <1>6 DEF r

\* Four statements make a contest, and any call may be broken off between two of them or
\* overtaken by another of the same title: one that was answered as created has all its
\* matches and all its standings, each once, if the groups of a request have different
\* letters.
THEOREM ContestsStayWhole ==
  ASSUME LettersDiffer
  PROVE  Spec => []ContestsAreWhole
<1>1. Init => MadeInv
  BY InitMade
<1>2. IInv /\ IInv' /\ MadeInv /\ [Next]_vars => MadeInv'
  BY StepMade
<1>3. IInv /\ MadeInv => ContestsAreWhole
  BY MadeWhole
<1> QED
  BY <1>1, <1>2, <1>3, Invariance, PTL DEF Spec
=============================================================================
