------------------------------ MODULE Sessions ------------------------------
(***************************************************************************)
(* The tables of users, contests and subcontests, and the calls that work  *)
(* on them.  None of their handlers opens a transaction: every SQL         *)
(* statement commits on its own, and whatever happens between two of them  *)
(* is seen by the second.                                                  *)
(***************************************************************************)
EXTENDS Naturals, Sequences, FiniteSets

CONSTANTS
  Null,
  Calls,        \* numbered as they arrive; a row is named by the call that inserts it
  Scripts,      \* which requests are made: functions from Calls to requests
  Emails, Usernames, Superadmins,
  Titles, Slugs,
  SlugOf,       \* slug.Make
  JoinCodes, Letters, Countries,
  FullName      \* full_name of a country, by code

GroupList == [letter : Letters, countries : Seq(Countries)]

Request ==
  [op : {"login"}, email : Emails \cup {Null}, username : Usernames \cup {Null}]
  \cup [op : {"deleteUser"}, email : Emails]
  \cup [op : {"createContest"}, email : Emails, title : Titles, groups : Seq(GroupList)]
  \cup [op : {"createSubcontest"}, email : Emails, contest : Slugs, title : Titles,
        selfJoin : BOOLEAN]
  \cup [op : {"joinSubcontest"}, email : Emails, code : JoinCodes]
  \cup [op : {"deleteSubcontest", "subleaderboard"}, email : Emails, slug : Slugs]

ASSUME SessionAssumption ==
  /\ Calls \subseteq Nat
  /\ Null \notin Nat \cup Emails \cup Usernames \cup Titles \cup Slugs
  /\ Superadmins \subseteq Emails
  /\ SlugOf \in [Titles -> Slugs]
  /\ Countries = DOMAIN FullName
  /\ Scripts \subseteq [Calls -> Request]

VARIABLES
  users,        \* rows of users
  tokens,       \* session tokens that were issued; they outlive their account
  contests, countries, matches, groupStandings,
  subcontests, entries,   \* rows of subcontests and subcontest_entries
  calls

accountVars == <<users, tokens>>
contestVars == <<contests, countries, matches, groupStandings>>
leagueVars == <<subcontests, entries>>
vars == <<users, tokens, contests, countries, matches, groupStandings, subcontests,
          entries, calls>>

UserRow == [id : Calls, email : Emails, username : Usernames]
Token == [sub : Calls, email : Emails]
SubcontestRow == [id : Calls, contest : Calls, owner : Calls, code : JoinCodes,
                  title : Titles, slug : Slugs]
EntryRow == [sub : Calls, user : Calls]

Answers == {"none", "ok", "not_found", "already_exists", "permission_denied",
            "unauthenticated", "internal", "unknown"}

\* `user` is the subject of the token; `found` the contest or subcontest that was
\* looked up, `shown` the subcontest of the leaderboard that was answered.
Call ==
  [pc : {"idle", "createUser", "insert", "join", "delete", "member", "board",
         "countries", "matches", "standings", "answered"},
   req : Request,
   user : Calls \cup {Null}, found : Calls \cup {Null}, shown : Calls \cup {Null},
   answer : Answers]

InFlight(r) == calls[r].pc \notin {"idle", "answered"}

Req(r) == calls[r].req

Arrives(r, op) ==
  /\ calls[r].pc = "idle" /\ Req(r).op = op
  /\ \A q \in Calls : q < r => calls[q].pc # "idle"

Step(r, call) == calls' = [calls EXCEPT ![r] = call]

Answer(r, code) ==
  Step(r, [calls[r] EXCEPT !.pc = "answered", !.answer = code])

\* Neither the statement nor the interceptor found a reason to go on.
Refuse(r, code) == Answer(r, code) /\ UNCHANGED <<accountVars, contestVars, leagueVars>>

(***************************************************************************)
(* WithAuth: the first statement of a call is made for the subject of a    *)
(* token, which is believed: the table users is not read.                  *)
(***************************************************************************)
TokensOf(email) == {t \in tokens : t.email = email}

AsUser(r) == {[calls[r] EXCEPT !.user = t.sub] : t \in TokensOf(Req(r).email)}

Unauthenticated(r) ==
  /\ Req(r).op # "login" /\ Arrives(r, Req(r).op)
  /\ AsUser(r) = {}
  /\ Refuse(r, "unauthenticated")

\* The request is cancelled or the server stops: nothing is undone.
Break(r) == InFlight(r) /\ Refuse(r, "unknown")
=============================================================================
