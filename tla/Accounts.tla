------------------------------ MODULE Accounts ------------------------------
(***************************************************************************)
(* AuthService.Login and UsersService.DeleteUser.                          *)
(***************************************************************************)
EXTENDS Sessions

\* Sign a token for the account and answer.
LogIn(r, user) ==
  /\ tokens' = tokens \cup {[sub |-> user.id, email |-> user.email]}
  /\ Step(r, [calls[r] EXCEPT !.pc = "answered", !.answer = "ok", !.user = user.id])

\* Google does not know the token (no email); FindByEmail.
\* Mutant: the username is not asked for.
FindAnyUser(r) ==
  /\ Arrives(r, "login")
  /\ LET found == {u \in users : u.email = Req(r).email}
     IN  \/ Req(r).email = Null /\ Refuse(r, "unauthenticated")
         \/ \E u \in found : LogIn(r, u) /\ UNCHANGED <<users, contestVars, leagueVars>>
         \/ /\ Req(r).email # Null /\ found = {}
            /\ Step(r, [calls[r] EXCEPT !.pc = "createUser"])
            /\ UNCHANGED <<accountVars, contestVars, leagueVars>>
FindUser(r) ==
  /\ Arrives(r, "login")
  /\ LET found == {u \in users : u.email = Req(r).email}
     IN  \/ Req(r).email = Null /\ Refuse(r, "unauthenticated")
         \/ \E u \in found : LogIn(r, u) /\ UNCHANGED <<users, contestVars, leagueVars>>
         \/ /\ Req(r).email # Null /\ found = {} /\ Req(r).username = Null
            /\ Refuse(r, "not_found")
         \/ /\ Req(r).email # Null /\ found = {} /\ Req(r).username # Null
            /\ Step(r, [calls[r] EXCEPT !.pc = "createUser"])
            /\ UNCHANGED <<accountVars, contestVars, leagueVars>>

\* The email or the username may have been taken since.
\* Mutant: email is not UNIQUE.
CreateUserAgain(r) ==
  /\ calls[r].pc = "createUser"
  /\ LET user == [id |-> r, email |-> Req(r).email, username |-> Req(r).username]
     IN  IF \E u \in users : u.username = user.username
         THEN Refuse(r, "internal")
         ELSE /\ users' = users \cup {user}
              /\ LogIn(r, user)
              /\ UNCHANGED <<contestVars, leagueVars>>
CreateUser(r) ==
  /\ calls[r].pc = "createUser"
  /\ LET user == [id |-> r, email |-> Req(r).email, username |-> Req(r).username]
     IN  IF \E u \in users : u.email = user.email \/ u.username = user.username
         THEN Refuse(r, "internal")
         ELSE /\ users' = users \cup {user}
              /\ LogIn(r, user)
              /\ UNCHANGED <<contestVars, leagueVars>>

\* ON DELETE CASCADE takes the subcontests of the user with their entries, and the
\* user's own entries.
DeleteUser(r) ==
  /\ Arrives(r, "deleteUser")
  /\ \E call \in AsUser(r) :
       IF \A u \in users : u.id # call.user THEN Refuse(r, "unknown")
       ELSE LET owned == {s \in subcontests : s.owner = call.user}
            IN  /\ users' = {u \in users : u.id # call.user}
                /\ subcontests' = subcontests \ owned
                /\ entries' = {e \in entries : /\ e.user # call.user
                                               /\ \A s \in owned : e.sub # s.id}
                /\ Step(r, [call EXCEPT !.pc = "answered", !.answer = "ok"])
                /\ UNCHANGED <<tokens, contestVars>>

AccountStep(r) == FindUser(r) \/ CreateUser(r) \/ DeleteUser(r)
=============================================================================
