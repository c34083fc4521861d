----------------------------- MODULE MCPlatform -----------------------------
\* Short lists of requests of one superadmin and one other user.
EXTENDS Platform, SequencesExt

CONSTANTS root, ann, n1, n2, t1, t2, slug, code, code2, a, b, c, d

\* Two titles with one slug, two countries with one name.
McSlugOf == [t \in {t1, t2} |-> slug]
McFullName == [k \in {a, b, c, d} |-> IF k = d THEN c ELSE k]

Login(email, name) == [op |-> "login", email |-> email, username |-> name]
Leave(email) == [op |-> "deleteUser", email |-> email]
NewContest(email, title, groups) ==
  [op |-> "createContest", email |-> email, title |-> title, groups |-> groups]
NewSub(email, title, selfJoin) ==
  [op |-> "createSubcontest", email |-> email, contest |-> slug, title |-> title,
   selfJoin |-> selfJoin]
JoinSub(email) == [op |-> "joinSubcontest", email |-> email, code |-> code]
DeleteSub(email) == [op |-> "deleteSubcontest", email |-> email, slug |-> slug]
Board(email) == [op |-> "subleaderboard", email |-> email, slug |-> slug]
Group(letter, list) == [letter |-> letter, countries |-> list]

\* Accounts: logins with and without a name, by the same email and for the same name,
\* between deletions.
AccountScripts ==
  SetToSeqs({Login(ann, n1), Login(ann, n2), Login(root, n1), Leave(ann), Login(ann, Null)})
    \cup {<<Login(ann, n1), Leave(ann), Login(ann, n1), Leave(ann), Login(Null, n1)>>}

\* Contests: two of one title, countries that are there already, a name that is taken,
\* a country in two groups, and a user who may not.
ContestScripts ==
  {<<Login(root, n1), Login(ann, n2)>> \o s :
     s \in SetToSeqs({NewContest(root, t1, <<Group("A", <<a, b, c>>)>>),
                      NewContest(root, t1, <<Group("A", <<b, a>>), Group("B", <<d>>)>>),
                      NewContest(root, t2, <<Group("A", <<a, b>>), Group("B", <<a>>)>>)})
             \cup {<<NewContest(ann, t1, <<>>), NewContest(root, t1, <<>>),
                     NewContest(root, t1, <<Group("A", <<b, a>>)>>)>>}}

\* Subcontests, the requests after the first in any order: deletions while the slug and
\* the code go to another subcontest, joins and leaderboards during deletions, an owner
\* who leaves.
SubcontestScripts ==
  UNION {{<<Login(root, n1), NewContest(root, t1, <<>>), Login(ann, n2), Head(s)>> \o
            [i \in 1 .. Len(s) - 1 |-> s[1 + p[i]]] : p \in SetToSeqs(1 .. Len(s) - 1)} :
     s \in {<<NewSub(root, t1, TRUE), DeleteSub(root), DeleteSub(root), NewSub(ann, t2, FALSE)>>,
            <<NewSub(root, t1, TRUE), JoinSub(ann), DeleteSub(root), NewSub(root, t2, TRUE)>>,
            <<NewSub(root, t1, FALSE), JoinSub(ann), Leave(root), JoinSub(ann)>>,
            <<NewSub(root, t1, FALSE), JoinSub(ann), Board(ann), DeleteSub(root),
              NewSub(root, t2, FALSE)>>,
            <<NewSub(ann, t1, TRUE), JoinSub(ann), Leave(ann), JoinSub(root)>>,
            <<NewSub(ann, t1, FALSE), Board(root), DeleteSub(root), Board(ann), JoinSub(root)>>}}

\* Calls that a script does not use are answered without effect.
Padded(script) ==
  [r \in Calls |-> IF r \in DOMAIN script THEN script[r] ELSE Board(root)]
McScripts ==
  {Padded(s) : s \in AccountScripts \cup ContestScripts \cup SubcontestScripts}

ASSUME LettersDiffer
=============================================================================
