------------------------------ MODULE Platform ------------------------------
(***************************************************************************)
(* Accounts, contests and subcontests together: calls of all kinds in any  *)
(* order, each statement on its own, any call broken off anywhere.         *)
(***************************************************************************)
EXTENDS Accounts, Subcontests, ContestCreation

TypeOK ==
  /\ users \subseteq UserRow
  /\ tokens \subseteq Token
  /\ contests \subseteq ContestRow
  /\ countries \subseteq CountryRow
  /\ matches \subseteq MatchRow
  /\ groupStandings \subseteq StandingRow
  /\ subcontests \subseteq SubcontestRow
  /\ entries \subseteq EntryRow
  /\ calls \in [Calls -> Call]

Init ==
  /\ users = {} /\ tokens = {}
  /\ contests = {} /\ countries = {} /\ matches = {} /\ groupStandings = {}
  /\ subcontests = {} /\ entries = {}
  /\ \E script \in Scripts :
       calls = [r \in Calls |->
                  [pc |-> "idle", req |-> script[r], user |-> Null, found |-> Null,
                   shown |-> Null, answer |-> "none"]]

AllAnswered == (\A r \in Calls : calls[r].pc = "answered") /\ UNCHANGED vars

Next ==
  \/ \E r \in Calls :
       \/ AccountStep(r) \/ SubcontestStep(r) \/ ContestStep(r)
       \/ Unauthenticated(r) \/ Break(r)
  \/ AllAnswered

Spec == Init /\ [][Next]_vars

----------------------------------------------------------------------------
\* Whoever logs in with an email gets the account of that email: the tokens of one
\* email never speak for two accounts that exist, nor for an account of another email,
\* though first logins race and accounts are deleted and made again.
LoginsAgree ==
  /\ \A t \in tokens, u \in users : t.sub = u.id => t.email = u.email
  /\ \A s, t \in tokens :
       /\ s.email = t.email
       /\ UserExists(s.sub) /\ UserExists(t.sub)
       => s.sub = t.sub

\* Whoever is in a subcontest exists, as the subcontest does, and asked for it: by the
\* code that subcontest has, or by creating it.  A subcontest that is deleted between
\* the lookup of its code and the insert is not joined, nor is one that got the code.
EntriesAreJoined ==
  \A e \in entries :
    /\ UserExists(e.user)
    /\ \E s \in subcontests, r \in Calls :
         /\ s.id = e.sub /\ calls[r].user = e.user
         /\ \/ Req(r).op = "joinSubcontest" /\ Req(r).code = s.code
            \/ r = s.id /\ Req(r).selfJoin

\* Who was told that a subcontest was created with oneself in it is in it, for as long
\* as the account and the subcontest exist, though the row and the membership are two
\* statements.
OwnersAreIn ==
  \A s \in subcontests :
    calls[s.id].answer = "ok" /\ Req(s.id).selfJoin =>
      [sub |-> s.id, user |-> s.owner] \in entries

\* A subcontest is only deleted by its owner, or with its owner's account, however
\* often its slug changes hands while a deletion is under way.
OnlyOwnersDelete ==
  [][\A s \in subcontests \ subcontests' :
       \E r \in Calls :
         /\ calls'[r].pc = "answered" /\ calls[r].pc # "answered"
         /\ Req(r).op \in {"deleteSubcontest", "deleteUser"}
         /\ calls'[r].user = s.owner]_vars

\* The leaderboard that is shown is that of the subcontest whose members were checked,
\* though the slug is looked up twice, unless that subcontest is gone.
BoardsShowWhatWasChecked ==
  [][\A r \in Calls :
       calls[r].shown = Null /\ calls'[r].shown # Null =>
         calls'[r].shown = calls[r].found \/ ~SubExists(calls[r].found)]_vars

\* A contest that was answered as created is whole, though four statements made it:
\* two countries have met exactly once on the list of matches if they share a group and
\* never if they do not, every country stands in its group, and the bracket is numbered
\* as UpdateMatch expects: from 16 matches on, match i of a round is followed by match
\* i div 2 of the next, and a third-place match is played beside the final.  What is
\* missing anything belongs to a call that has not answered so.
Meetings(k, c, d) == {m \in matches : m.contest = k /\ {m.country1, m.country2} = {c, d}}
GroupsOf(k, c) == {g \in groupStandings : g.contest = k /\ g.country = c}
IndexesOf(k, round) == {m.index : m \in {n \in matches : n.contest = k /\ n.round = round}}
ContestsAreWhole ==
  \A k \in contests :
    calls[k.id].answer = "ok" =>
      /\ \A c \in CountriesOf(k.id) : Cardinality(GroupsOf(k.id, c)) = 1
      /\ \A c, d \in CountriesOf(k.id) :
           c # d =>
             Cardinality(Meetings(k.id, c, d)) =
               IF \E g \in GroupsOf(k.id, c), h \in GroupsOf(k.id, d) : g.letter = h.letter
               THEN 1 ELSE 0
      /\ IndexesOf(k.id, 1) = 0 .. 15
      /\ \A round \in 1 .. 3 :
           IndexesOf(k.id, round + 1) = {i \div 2 : i \in IndexesOf(k.id, round)}
      /\ IndexesOf(k.id, 5) = {0, 1}
=============================================================================
