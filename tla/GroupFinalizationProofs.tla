---------------------- MODULE GroupFinalizationProofs ----------------------
(***************************************************************************)
(* Group finalization, for any groups, predictions, calls and any number   *)
(* of them in progress: the tables and the locals keep their types and no  *)
(* payment is lost however the calls interleave; and when no two calls     *)
(* finalize the same thing of one group at once, finals never change, a    *)
(* group is ranked as a whole, and every user has exactly the points the   *)
(* predictions are worth.                                                  *)
(***************************************************************************)
EXTENDS GroupFinalization, CollectionTheorems

RankingStatements == {"countIncomplete", "countRanked", "rank", "queryPicks", "score"}
QualifierStatements ==
  {"findThird", "checkQualifier", "writeQualifier", "queryExtra", "bonus"}

(***************************************************************************)
(* The inductive invariants.  First what the locals of a call hold at each *)
(* statement.                                                              *)
(***************************************************************************)
Payees(item) ==
  IF item \in Rankings THEN {u \in Users : RankedPicks(item, u) # {}}
  ELSE Guessed(item)

Local(c) ==
  /\ c.pc = "idle" => c = Idle
  /\ c.pc \in RankingStatements => c.item \in Rankings
  /\ c.pc \in QualifierStatements => c.item \in Qualifiers
  /\ c.pc \in {"commit", "done"} => c.item \in Rankings \cup Qualifiers
  /\ c.pc \in {"countIncomplete", "countRanked"} => c.next = 1
  /\ c.pc = "rank" => c.next \in DOMAIN c.item.order
  /\ c.pc \in {"checkQualifier", "writeQualifier"} => c.third \in Countries
  /\ c.pc \in {"score", "bonus"} =>
       c.unpaid # <<>> /\ Distinct(c.unpaid) /\ Elements(c.unpaid) \subseteq Payees(c.item)
  /\ c.pc = "commit" => c.unpaid = <<>>

LocalInv == TypeOK /\ \A r \in Requests : Local(calls[r])

(***************************************************************************)
(* Payments: a call holds the scores it has paid, and they hold the        *)
(* committed score and all it owes.                                        *)
(***************************************************************************)
Owed(item, u) ==
  IF item \in Rankings THEN GroupPoints(item, u)
  ELSE IF u \in Guessed(item) THEN QualifierBonus
  ELSE 0

HasPaid(c, u) ==
  /\ c.pc \in {"score", "bonus", "commit"}
  /\ u \in Payees(c.item) \ Elements(c.unpaid)

Payments(r) ==
  \A u \in Users :
    /\ groupScore[u].by = r <=> HasPaid(calls[r], u)
    /\ HasPaid(calls[r], u) =>
         groupScore[u].new = groupScore[u].cur + Owed(calls[r].item, u)

PointsInv ==
  LocalInv /\ PointsAreNotLost /\ \A r \in Requests : Payments(r)

(***************************************************************************)
(* Finals: a call holds the rows of group_standings it has written, with a *)
(* position of the list or the qualifier; and while coordinated calls are  *)
(* in progress, what their checks have read is still committed.            *)
(***************************************************************************)
\* The statements at which a ranking, and a qualifier call, may have written.
Ranking(c) ==
  c.item \in Rankings /\ c.pc \in {"rank", "queryPicks", "score", "commit"}
Qualifying(c) ==
  /\ c.item \in Qualifiers
  /\ c.pc \in {"checkQualifier", "writeQualifier", "queryExtra", "bonus", "commit"}
Checked(c) == Qualifying(c) /\ c.pc # "checkQualifier"
Marked(c)  == Checked(c) /\ c.pc # "writeQualifier"

Listed(c, k) == \E i \in 1 .. c.next - 1 : c.item.order[i] = k
LastListed(c, k, i) ==
  /\ i \in 1 .. c.next - 1 /\ c.item.order[i] = k
  /\ \A j \in 1 .. c.next - 1 : c.item.order[j] = k => j <= i

Writes(r) ==
  LET c == calls[r]
  IN  \A k \in Countries :
        LET row == finals[k]
        IN  /\ row.by = r <=> (Ranking(c) /\ Listed(c, k)) \/ (Marked(c) /\ k = c.third)
            /\ row.by = r /\ Ranking(c) =>
                 LastListed(c, k, row.new.rank) /\ row.new.qualifier = row.cur.qualifier
            /\ row.by = r /\ Marked(c) =>
                 row.new.rank = row.cur.rank /\ row.new.qualifier = c.item.advances

Positions(c) ==
  /\ Ranking(c) => /\ c.next \in 1 .. Len(c.item.order) + 1
                   /\ \A i \in 1 .. c.next - 1 : c.item.order[i] \in Countries
  /\ Ranking(c) /\ c.pc # "rank" => c.next = Len(c.item.order) + 1
  /\ Qualifying(c) => c.third \in Countries

Fresh(c) ==
  /\ Ranking(c) => \A k \in Countries : Letter[k] = c.item.group => Rank(k) = Null
  /\ Qualifying(c) => Letter[c.third] = c.item.group /\ Rank(c.third) = 3
  /\ Checked(c) => finals[c.third].cur.qualifier = Null

\* In a group no rank is given twice, and only the third is marked.
FinalsAreSound ==
  /\ \A k \in Countries : finals[k].cur.qualifier # Null => Rank(k) = 3
  /\ \A k, l \in Countries :
       Letter[k] = Letter[l] /\ Rank(k) = Rank(l) /\ Rank(k) # Null => k = l

FinalsInv ==
  /\ LocalInv /\ Coordinated /\ FinalsAreSound
  /\ \A r \in Requests : Writes(r) /\ Positions(calls[r]) /\ Fresh(calls[r])

----------------------------------------------------------------------------
(***************************************************************************)
(* Lemmas about calls, payments and tables of row versions                 *)
(***************************************************************************)
\* No call is both a ranking and a qualifier call.
LEMMA CallsApart ==
  /\ \A k \in Rankings : k \notin Qualifiers /\ k.group \in Groups
                         /\ k.order \in Seq(Countries \cup {Null})
  /\ \A k \in Qualifiers : k.group \in Groups /\ k.advances \in BOOLEAN
<1>1. \A k \in Rankings : DOMAIN k = {"group", "order"}
  BY CallAssumption
<1>2. \A k \in Qualifiers : DOMAIN k = {"group", "advances"}
  BY CallAssumption
<1>3. \A k \in Rankings : k \notin Qualifiers
  BY <1>1, <1>2
<1> QED
  BY <1>3, CallAssumption

\* The points of a group are a sum of natural numbers over the user's picks.
PicksWorth(item) ==
  [p \in GroupPicks |-> BasePoints(RankIn(item.order, p.country)) * Multiplier(p.place)]

LEMMA GroupPointsSum ==
  ASSUME NEW item, NEW u
  PROVE  /\ GroupPoints(item, u) = Total(PicksWorth(item), RankedPicks(item, u))
         /\ GroupPoints(item, u) \in Nat
         /\ RankedPicks(item, u) = {} => GroupPoints(item, u) = 0
<1> DEFINE S == RankedPicks(item, u)
           w == PicksWorth(item)
<1>1. S \subseteq GroupPicks /\ IsFiniteSet(S)
  BY FiniteAssumption, FS_Subset DEF RankedPicks
<1>2. \A p \in S : w[p] \in Nat
  <2>1. \A rank : BasePoints(rank) \in Nat
    BY DEF BasePoints
  <2>2. \A place : Multiplier(place) \in Nat
    BY DEF Multiplier
  <2>3. \A a, b \in Nat : a * b \in Nat
    OBVIOUS
  <2> QED
    BY <1>1, <2>1, <2>2, <2>3 DEF PicksWorth
<1>3. GroupPoints(item, u) =
        Total([p \in S |-> BasePoints(RankIn(item.order, p.country)) * Multiplier(p.place)],
              S)
  BY Zenon DEF GroupPoints, Total, MapThenSumSet, MapThenFoldSet
<1>4. Total([p \in S |-> BasePoints(RankIn(item.order, p.country)) * Multiplier(p.place)],
            S) = Total(w, S)
  <2>1. \A p \in S :
          [q \in S |-> BasePoints(RankIn(item.order, q.country)) * Multiplier(q.place)][p]
          = w[p]
    BY <1>1 DEF PicksWorth
  <2> HIDE DEF S, w
  <2> QED
    BY <1>1, <2>1, TotalAgrees
<1>5. Total(w, S) \in Nat
  BY <1>1, <1>2, TotalNat
<1>6. S = {} => Total(w, S) = 0
  BY TotalEmpty
<1> QED
  BY <1>3, <1>4, <1>5, <1>6

\* Who is owed anything by a call is paid by it.
LEMMA OwedType ==
  ASSUME NEW item, NEW u \in Users
  PROVE  Owed(item, u) \in Nat /\ (u \notin Payees(item) => Owed(item, u) = 0)
<1>1. QualifierBonus \in Nat
  BY DEF QualifierBonus
<1> QED
  BY <1>1, GroupPointsSum DEF Owed, Payees

\* The orders the queries return are of users, and name every payee once.
LEMMA PayOrder ==
  ASSUME NEW item, NEW P, P = Payees(item), NEW order \in SetToSeqs(P)
  PROVE  /\ order \in Seq(Users) /\ Distinct(order) /\ Elements(order) = P
         /\ order = <<>> => P = {}
<1>1. P \subseteq Users
  BY DEF Payees, Guessed
<1>2. IsFiniteSet(P)
  BY <1>1, FiniteAssumption, FS_Subset
<1>3. /\ order \in Seq(P) /\ Elements(order) = P /\ Distinct(order)
      /\ order = <<>> => P = {}
  BY <1>2, EachOnce
<1>4. order \in Seq(Users)
  BY <1>1, <1>3
<1> QED
  BY <1>3, <1>4

\* Writing a value of its type keeps a row a row.
LEMMA WriteType ==
  ASSUME NEW V, NEW row \in Rows!RowVersion(V, Requests), NEW r \in Requests,
         NEW v \in V
  PROVE  /\ Rows!Write(row, r, v) \in Rows!RowVersion(V, Requests)
         /\ Rows!Read(row, r) \in V
  BY DEF Rows!Write, Rows!Read, Rows!RowVersion

\* Committing or rolling back keeps a table a table.
LEMMA EndType ==
  ASSUME NEW K, NEW V, NEW table \in [K -> Rows!RowVersion(V, Requests)], NEW r
  PROVE  /\ Rows!Publish(table, r) \in [K -> Rows!RowVersion(V, Requests)]
         /\ Rows!Discard(table, r) \in [K -> Rows!RowVersion(V, Requests)]
  BY DEF Rows!Publish, Rows!Discard, Rows!RowVersion, Rows!Committed

\* A statement of r only writes rows that are free or its own, and publishes none.
Touches(table, tableNext, r) ==
  \A k \in DOMAIN table :
    \/ tableNext[k] = table[k]
    \/ /\ table[k].by \in {Null, r} /\ tableNext[k].by = r
       /\ tableNext[k].cur = table[k].cur

\* A row of another call is what it was, and no row becomes another call's.
Spares(table, tableNext, q) ==
  \A k \in DOMAIN table :
    /\ table[k].by = q => tableNext[k] = table[k]
    /\ tableNext[k].by = q => table[k].by = q

LEMMA TouchesSpares ==
  ASSUME NEW table, NEW tableNext, NEW r \in Requests, Touches(table, tableNext, r)
  PROVE  /\ \A q \in Requests \ {r} : Spares(table, tableNext, q)
         /\ \A k \in DOMAIN table : tableNext[k].cur = table[k].cur
  BY NullAssumption DEF Touches, Spares

\* Giving rows back, at a commit or a rollback, concerns the rows of r alone.
LEMMA EndSpares ==
  ASSUME NEW table, NEW r \in Requests
  PROVE  \A q \in Requests \ {r} : Spares(table, Rows!Publish(table, r), q)
                                   /\ Spares(table, Rows!Discard(table, r), q)
  BY NullAssumption DEF Spares, Rows!Publish, Rows!Discard, Rows!Committed

----------------------------------------------------------------------------
(***************************************************************************)
(* Type correctness                                                        *)
(***************************************************************************)
\* A step that replaces the locals of one call and keeps the tables' types.
LEMMA CallStep ==
  ASSUME LocalInv, NEW r \in Requests, NEW d \in Call, Local(d),
         calls' = [calls EXCEPT ![r] = d],
         unplayed' \subseteq Groups,
         finals' \in [Countries -> Rows!RowVersion(FinalRow, Requests)],
         groupScore' \in [Users -> Rows!RowVersion(Nat, Requests)]
  PROVE  LocalInv'
<1>1. calls' \in [Requests -> Call] /\ \A q \in Requests : Local(calls'[q])
  BY DEF LocalInv, TypeOK
<1> QED
  BY <1>1 DEF LocalInv, TypeOK

LEMMA OnlyCalls ==
  ASSUME LocalInv, NEW r \in Requests, NEW d \in Call, Local(d),
         calls' = [calls EXCEPT ![r] = d],
         UNCHANGED <<unplayed, finals, groupScore>>
  PROVE  LocalInv'
  BY CallStep DEF LocalInv, TypeOK

LEMMA InitLocal == Init => LocalInv
<1> SUFFICES ASSUME Init PROVE LocalInv
  OBVIOUS
<1>1. calls \in [Requests -> Call] /\ \A r \in Requests : Local(calls[r])
  BY DEF Init, Idle, Call, Local, RankingStatements, QualifierStatements
<1>2. finals \in [Countries -> Rows!RowVersion(FinalRow, Requests)]
  BY DEF Init, Rows!RowVersion, Rows!Committed, FinalRow
<1>3. groupScore \in [Users -> Rows!RowVersion(Nat, Requests)]
  BY DEF Init, Rows!RowVersion, Rows!Committed
<1> QED
  BY <1>1, <1>2, <1>3 DEF Init, LocalInv, TypeOK

LEMMA IdleType == Idle \in Call /\ Idle.next = 1
  BY DEF Idle, Call

\* A call that begins has its item and nothing else.
LEMMA BeginLocal ==
  ASSUME LocalInv, NEW r \in Requests, BeginRankings(r) \/ BeginQualifier(r)
  PROVE  LocalInv'
<1>1. /\ calls[r] \in Call /\ calls[r] = Idle
      /\ UNCHANGED <<unplayed, finals, groupScore>>
  BY DEF LocalInv, TypeOK, Local, BeginRankings, BeginQualifier
<1>2. ASSUME NEW k \in Rankings,
             calls' = [calls EXCEPT ![r].pc = "countIncomplete", ![r].item = k]
      PROVE  LocalInv'
  <2> DEFINE d == [Idle EXCEPT !.pc = "countIncomplete", !.item = k]
  <2>1. d \in Call /\ Local(d)
    <3>1. d \in Call /\ d.pc = "countIncomplete" /\ d.item = k /\ d.next = 1
      BY IdleType DEF Call
    <3> QED
      BY <3>1 DEF Local, RankingStatements, QualifierStatements
  <2>2. calls' = [calls EXCEPT ![r] = d]
    BY <1>1, <1>2 DEF LocalInv, TypeOK
  <2> QED
    BY <1>1, <2>1, <2>2, OnlyCalls
<1>3. ASSUME NEW k \in Qualifiers,
             calls' = [calls EXCEPT ![r].pc = "findThird", ![r].item = k]
      PROVE  LocalInv'
  <2> DEFINE d == [Idle EXCEPT !.pc = "findThird", !.item = k]
  <2>1. d \in Call /\ Local(d)
    <3>1. d \in Call /\ d.pc = "findThird" /\ d.item = k /\ d.next = 1
      BY IdleType DEF Call
    <3> QED
      BY <3>1 DEF Local, RankingStatements, QualifierStatements
  <2>2. calls' = [calls EXCEPT ![r] = d]
    BY <1>1, <1>3 DEF LocalInv, TypeOK
  <2> QED
    BY <1>1, <2>1, <2>2, OnlyCalls
<1> QED
  BY <1>2, <1>3 DEF BeginRankings, BeginQualifier

LEMMA RollBackLocal ==
  ASSUME LocalInv, NEW r \in Requests, RollBack(r)
  PROVE  LocalInv'
<1> DEFINE d == [Idle EXCEPT !.pc = "failed"]
<1>1. d \in Call /\ Local(d)
  <2>1. d \in Call /\ d.pc = "failed"
    BY IdleType DEF Call
  <2> QED
    BY <2>1 DEF Local, RankingStatements, QualifierStatements
<1> QED
  BY <1>1, CallStep, EndType DEF RollBack, LocalInv, TypeOK

LEMMA CommitLocal ==
  ASSUME LocalInv, NEW r \in Requests, Commit(r)
  PROVE  LocalInv'
<1> DEFINE d == [calls[r] EXCEPT !.pc = "done"]
<1>1. d \in Call /\ Local(d)
  BY DEF Commit, At, LocalInv, TypeOK, Call, Local, RankingStatements, QualifierStatements
<1>2. calls' = [calls EXCEPT ![r] = d]
  BY DEF Commit, GoTo, LocalInv, TypeOK
<1> QED
  BY <1>1, <1>2, CallStep, EndType DEF Commit, LocalInv, TypeOK

\* The checks of a call that go on, and the queries and writes of finals.
LEMMA CountLocal ==
  ASSUME LocalInv, NEW r \in Requests, CountIncomplete(r) \/ CountRanked(r)
  PROVE  LocalInv'
<1> DEFINE c == calls[r]
<1>1. c \in Call /\ Local(c) /\ c.pc \in {"countIncomplete", "countRanked"}
  BY DEF LocalInv, TypeOK, CountIncomplete, CountRanked, At
<1>2. c.item \in Rankings /\ c.item.order \in Seq(Countries \cup {Null}) /\ c.next = 1
  BY <1>1, CallsApart DEF Local, RankingStatements
<1>3. ASSUME NEW pc \in {"countRanked", "rank", "queryPicks"}, GoTo(r, pc),
             pc = "rank" => c.item.order # <<>>,
             UNCHANGED <<unplayed, finals, groupScore>>
      PROVE  LocalInv'
  <2> DEFINE d == [c EXCEPT !.pc = pc]
  <2>1. pc = "rank" => 1 \in DOMAIN c.item.order
    BY <1>2, <1>3
  <2>2. /\ d \in Call /\ d.pc = pc /\ d.item = c.item /\ d.next = 1
    BY <1>1, <1>2 DEF Call
  <2>3. Local(d)
    BY <1>2, <2>1, <2>2 DEF Local, RankingStatements, QualifierStatements
  <2>4. calls' = [calls EXCEPT ![r] = d]
    BY <1>3 DEF GoTo, LocalInv, TypeOK
  <2> QED
    BY <1>3, <2>2, <2>3, <2>4, OnlyCalls
<1>4. CASE RollBack(r)
  BY <1>4, RollBackLocal
<1>5. CASE CountIncomplete(r) /\ ~RollBack(r)
  BY <1>3, <1>5 DEF CountIncomplete
<1>6. CASE CountRanked(r) /\ ~RollBack(r)
  <2>1. /\ GoTo(r, IF c.item.order = <<>> THEN "queryPicks" ELSE "rank")
        /\ UNCHANGED <<unplayed, finals, groupScore>>
    BY <1>6 DEF CountRanked
  <2> QED
    BY <1>3, <2>1
<1> QED
  BY <1>4, <1>5, <1>6

\* What a call is at when it ranks a country: the code, which has a row.
LEMMA RankCall ==
  ASSUME LocalInv, NEW r \in Requests, RankCountry(r), ~RollBack(r)
  PROVE  LET c == calls[r]
         IN  /\ c \in Call /\ Local(c) /\ c.pc = "rank" /\ c.item \in Rankings
             /\ c.item.order \in Seq(Countries \cup {Null})
             /\ c.next \in 1 .. Len(c.item.order)
             /\ Code(c) \in Countries /\ Code(c) = c.item.order[c.next]
             /\ finals[Code(c)].by \in {Null, r}
             /\ finals' = [finals EXCEPT
                  ![Code(c)] = Rows!Write(@, r, [Rows!Read(@, r) EXCEPT !.rank = c.next])]
             /\ calls' = [calls EXCEPT ![r].pc = AfterRank(c), ![r].next = @ + 1]
             /\ UNCHANGED <<unplayed, groupScore>>
<1> DEFINE c == calls[r]
<1>1. c \in Call /\ Local(c) /\ c.pc = "rank"
  BY DEF LocalInv, TypeOK, RankCountry, At
<1>2. c.item \in Rankings /\ c.item.order \in Seq(Countries \cup {Null})
      /\ c.next \in DOMAIN c.item.order
  BY <1>1, CallsApart DEF Local, RankingStatements
<1>3. c.next \in 1 .. Len(c.item.order) /\ c.item.order[c.next] \in Countries \cup {Null}
  BY <1>2
<1>4. Code(c) # Null
  BY DEF RankCountry
<1>5. Code(c) \in Countries
  BY <1>3, <1>4 DEF Code
<1>6. finals[Code(c)].by \in {Null, r}
  BY <1>1, <1>5 DEF RankCountry, At, Awaited
<1> QED
  BY <1>1, <1>2, <1>3, <1>4, <1>5, <1>6 DEF RankCountry, Code

LEMMA RankCountryLocal ==
  ASSUME LocalInv, NEW r \in Requests, RankCountry(r)
  PROVE  LocalInv'
<1> DEFINE c == calls[r]
<1>1. CASE RollBack(r)
  BY <1>1, RollBackLocal
<1>2. CASE ~RollBack(r)
  <2>1. /\ c \in Call /\ Local(c) /\ c.pc = "rank" /\ c.item \in Rankings
        /\ c.item.order \in Seq(Countries \cup {Null})
        /\ c.next \in 1 .. Len(c.item.order) /\ Code(c) \in Countries
        /\ finals' = [finals EXCEPT
             ![Code(c)] = Rows!Write(@, r, [Rows!Read(@, r) EXCEPT !.rank = c.next])]
        /\ calls' = [calls EXCEPT ![r].pc = AfterRank(c), ![r].next = @ + 1]
        /\ UNCHANGED <<unplayed, groupScore>>
    BY <1>2, RankCall
  <2> DEFINE d == [c EXCEPT !.pc = AfterRank(c), !.next = c.next + 1]
  <2>2. /\ AfterRank(c) \in {"rank", "queryPicks"}
        /\ AfterRank(c) = "rank" => c.next + 1 \in DOMAIN c.item.order
    BY <2>1 DEF AfterRank
  <2>3. d \in Call /\ d.pc = AfterRank(c) /\ d.item = c.item /\ d.next = c.next + 1
    <3>1. c.next + 1 \in Nat
      BY <2>1
    <3> QED
      BY <2>1, <2>2, <3>1 DEF Call
  <2>4. Local(d)
    BY <2>1, <2>2, <2>3 DEF Local, RankingStatements, QualifierStatements
  <2>5. calls' = [calls EXCEPT ![r] = d]
    BY <2>1 DEF LocalInv, TypeOK
  <2>6. finals' \in [Countries -> Rows!RowVersion(FinalRow, Requests)]
    <3>1. finals[Code(c)] \in Rows!RowVersion(FinalRow, Requests)
      BY <2>1 DEF LocalInv, TypeOK
    <3>2. [Rows!Read(finals[Code(c)], r) EXCEPT !.rank = c.next] \in FinalRow
      <4>1. Rows!Read(finals[Code(c)], r) \in FinalRow
        BY <3>1 DEF Rows!Read, Rows!RowVersion
      <4>2. c.next \in Nat \ {0}
        BY <2>1
      <4> QED
        BY <4>1, <4>2 DEF FinalRow
    <3> QED
      BY <2>1, <3>1, <3>2, WriteType DEF LocalInv, TypeOK
  <2> QED
    BY <2>1, <2>3, <2>4, <2>5, <2>6, CallStep DEF LocalInv, TypeOK
<1> QED
  BY <1>1, <1>2

\* A call that is to pay the users in `order` from here on.
LEMMA OrderLocal ==
  ASSUME LocalInv, NEW r \in Requests, NEW pc,
         \/ pc = "score" /\ calls[r].pc \in {"queryPicks", "score"}
         \/ pc = "bonus" /\ calls[r].pc \in {"queryExtra", "bonus"},
         NEW order \in Seq(Users), Distinct(order),
         Elements(order) \subseteq Payees(calls[r].item),
         calls' = [calls EXCEPT ![r].pc = AfterPay(order, pc), ![r].unpaid = order]
  PROVE  \E d \in Call : Local(d) /\ calls' = [calls EXCEPT ![r] = d]
<1> DEFINE c == calls[r]
           d == [c EXCEPT !.pc = AfterPay(order, pc), !.unpaid = order]
<1>1. c \in Call /\ Local(c)
  BY DEF LocalInv, TypeOK
<1>2. /\ AfterPay(order, pc) \in {"score", "bonus", "commit"}
      /\ AfterPay(order, pc) # "commit" => AfterPay(order, pc) = pc /\ order # <<>>
      /\ AfterPay(order, pc) = "commit" => order = <<>>
  BY DEF AfterPay
<1>3. c.item \in Rankings \cup Qualifiers
      /\ (pc = "score" => c.item \in Rankings) /\ (pc = "bonus" => c.item \in Qualifiers)
  BY <1>1 DEF Local, RankingStatements, QualifierStatements
<1>4. /\ d \in Call /\ d.pc = AfterPay(order, pc) /\ d.item = c.item
      /\ d.unpaid = order
  BY <1>1, <1>2 DEF Call
<1>5. Local(d)
  BY <1>2, <1>3, <1>4 DEF Local, RankingStatements, QualifierStatements
<1>6. calls' = [calls EXCEPT ![r] = d]
  BY DEF LocalInv, TypeOK
<1> QED
  BY <1>4, <1>5, <1>6

\* The queries name each payee once.
LEMMA QueryCall ==
  ASSUME LocalInv, NEW r \in Requests, QueryPicks(r) \/ QueryExtra(r)
  PROVE  \E order \in Seq(Users), pc \in {"score", "bonus"} :
           /\ IF pc = "score" THEN calls[r].pc = "queryPicks" ELSE calls[r].pc = "queryExtra"
           /\ Distinct(order) /\ Elements(order) = Payees(calls[r].item)
           /\ calls' = [calls EXCEPT ![r].pc = AfterPay(order, pc), ![r].unpaid = order]
           /\ UNCHANGED <<unplayed, finals, groupScore>>
<1> DEFINE c == calls[r]
<1>1. Local(c)
  BY DEF LocalInv
<1>2. CASE QueryPicks(r)
  <2>1. c.pc = "queryPicks" /\ UNCHANGED <<unplayed, finals, groupScore>>
    BY <1>2 DEF QueryPicks, At
  <2>2. {u \in Users : RankedPicks(c.item, u) # {}} = Payees(c.item)
    BY <1>1, <2>1 DEF Payees, Local, RankingStatements
  <2>3. PICK order \in SetToSeqs({u \in Users : RankedPicks(c.item, u) # {}}) :
          calls' = [calls EXCEPT ![r].pc = AfterPay(order, "score"), ![r].unpaid = order]
    BY <1>2 DEF QueryPicks
  <2>4. /\ order \in Seq(Users) /\ Distinct(order) /\ Elements(order) = Payees(c.item)
    <3> HIDE DEF c
    <3> QED
      BY <2>2, <2>3, PayOrder
  <2> QED
    BY <2>1, <2>3, <2>4
<1>3. CASE QueryExtra(r)
  <2>1. c.pc = "queryExtra" /\ UNCHANGED <<unplayed, finals, groupScore>>
    BY <1>3 DEF QueryExtra, At
  <2>2. Guessed(c.item) = Payees(c.item)
    BY <1>1, <2>1, CallsApart DEF Payees, Local, QualifierStatements
  <2>3. PICK order \in SetToSeqs(Guessed(c.item)) :
          calls' = [calls EXCEPT ![r].pc = AfterPay(order, "bonus"), ![r].unpaid = order]
    BY <1>3 DEF QueryExtra
  <2>4. /\ order \in Seq(Users) /\ Distinct(order) /\ Elements(order) = Payees(c.item)
    <3> HIDE DEF c
    <3> QED
      BY <2>2, <2>3, PayOrder
  <2> QED
    BY <2>1, <2>3, <2>4
<1> QED
  BY <1>2, <1>3

LEMMA QueryLocal ==
  ASSUME LocalInv, NEW r \in Requests, QueryPicks(r) \/ QueryExtra(r)
  PROVE  LocalInv'
<1>1. PICK order \in Seq(Users), pc \in {"score", "bonus"} :
        /\ IF pc = "score" THEN calls[r].pc = "queryPicks" ELSE calls[r].pc = "queryExtra"
        /\ Distinct(order) /\ Elements(order) = Payees(calls[r].item)
        /\ calls' = [calls EXCEPT ![r].pc = AfterPay(order, pc), ![r].unpaid = order]
        /\ UNCHANGED <<unplayed, finals, groupScore>>
  BY QueryCall
<1>2. PICK d \in Call : Local(d) /\ calls' = [calls EXCEPT ![r] = d]
  BY <1>1, OrderLocal
<1> QED
  BY <1>1, <1>2, OnlyCalls

\* What a payment does: it adds what is owed to the score of the first user.
LEMMA PayCall ==
  ASSUME LocalInv, NEW r \in Requests, ScoreUser(r) \/ PayBonus(r)
  PROVE  LET c == calls[r]
             u == Head(c.unpaid)
         IN  /\ c.pc \in {"score", "bonus"} /\ c.item \in Rankings \cup Qualifiers
             /\ c.unpaid \in Seq(Users) /\ c.unpaid # <<>> /\ Distinct(c.unpaid)
             /\ Elements(c.unpaid) \subseteq Payees(c.item)
             /\ u \in Users /\ u \in Elements(c.unpaid)
             /\ Tail(c.unpaid) \in Seq(Users) /\ Distinct(Tail(c.unpaid))
             /\ Elements(Tail(c.unpaid)) = Elements(c.unpaid) \ {u}
             /\ groupScore[u].by \in {Null, r}
             /\ groupScore' = [groupScore EXCEPT
                  ![u] = Rows!Write(groupScore[u], r,
                                    Rows!Read(groupScore[u], r) + Owed(c.item, u))]
             /\ calls' = [calls EXCEPT ![r].pc = AfterPay(Tail(c.unpaid), c.pc),
                                       ![r].unpaid = Tail(c.unpaid)]
             /\ UNCHANGED <<unplayed, finals>>
<1> DEFINE c == calls[r]
           u == Head(c.unpaid)
<1>1. c \in Call /\ Local(c) /\ c.pc \in {"score", "bonus"}
  BY DEF LocalInv, TypeOK, ScoreUser, PayBonus, Pay, At
<1>2. /\ c.unpaid \in Seq(Users) /\ c.unpaid # <<>> /\ Distinct(c.unpaid)
      /\ Elements(c.unpaid) \subseteq Payees(c.item)
  BY <1>1 DEF Call, Local
<1>3. u \in Users /\ Tail(c.unpaid) \in Seq(Users)
  BY <1>2
<1>4. /\ Distinct(Tail(c.unpaid)) /\ u \in Elements(c.unpaid)
      /\ Elements(Tail(c.unpaid)) = Elements(c.unpaid) \ {u}
  BY <1>2, WithoutFirst
<1>5. groupScore[u].by \in {Null, r}
  BY <1>1 DEF ScoreUser, PayBonus, Pay, At, Awaited
<1>6. CASE ScoreUser(r)
  <2>1. c.pc = "score" /\ c.item \in Rankings
    BY <1>1, <1>6 DEF ScoreUser, Local, RankingStatements
  <2>2. Owed(c.item, u) = GroupPoints(c.item, u)
    BY <2>1 DEF Owed
  <2> QED
    BY <1>1, <1>2, <1>3, <1>4, <1>5, <1>6, <2>1, <2>2 DEF ScoreUser, Pay
<1>7. CASE PayBonus(r)
  <2>1. c.pc = "bonus" /\ c.item \in Qualifiers /\ c.item \notin Rankings
    BY <1>1, <1>7, CallsApart DEF PayBonus, Pay, At, Local, QualifierStatements
  <2>2. Owed(c.item, u) = QualifierBonus
    BY <1>2, <1>4, <2>1 DEF Owed, Payees
  <2> QED
    BY <1>1, <1>2, <1>3, <1>4, <1>5, <1>7, <2>1, <2>2 DEF PayBonus, Pay
<1> QED
  BY <1>6, <1>7

LEMMA PayLocal ==
  ASSUME LocalInv, NEW r \in Requests, ScoreUser(r) \/ PayBonus(r)
  PROVE  LocalInv'
<1> DEFINE c == calls[r]
           u == Head(c.unpaid)
           rest == Tail(c.unpaid)
<1>1. /\ c.pc \in {"score", "bonus"} /\ u \in Users /\ u \in Elements(c.unpaid)
      /\ rest \in Seq(Users) /\ Distinct(rest)
      /\ Elements(c.unpaid) \subseteq Payees(c.item)
      /\ Elements(rest) = Elements(c.unpaid) \ {u}
      /\ groupScore' = [groupScore EXCEPT
           ![u] = Rows!Write(groupScore[u], r,
                             Rows!Read(groupScore[u], r) + Owed(c.item, u))]
      /\ calls' = [calls EXCEPT ![r].pc = AfterPay(rest, c.pc), ![r].unpaid = rest]
      /\ UNCHANGED <<unplayed, finals>>
  BY PayCall
<1>2. Elements(rest) \subseteq Payees(c.item)
  BY <1>1
<1>3. PICK d \in Call : Local(d) /\ calls' = [calls EXCEPT ![r] = d]
  <2> HIDE DEF rest
  <2> QED
    BY <1>1, <1>2, OrderLocal
<1>4. groupScore' \in [Users -> Rows!RowVersion(Nat, Requests)]
  <2>1. groupScore[u] \in Rows!RowVersion(Nat, Requests)
    BY <1>1 DEF LocalInv, TypeOK
  <2>2. Rows!Read(groupScore[u], r) \in Nat /\ Owed(c.item, u) \in Nat
    BY <1>1, <2>1, OwedType DEF Rows!Read, Rows!RowVersion
  <2>3. Rows!Read(groupScore[u], r) + Owed(c.item, u) \in Nat
    BY <2>2
  <2> QED
    BY <1>1, <2>1, <2>3, WriteType DEF LocalInv, TypeOK
<1> QED
  BY <1>1, <1>3, <1>4, CallStep DEF LocalInv, TypeOK

LEMMA FindThirdLocal ==
  ASSUME LocalInv, NEW r \in Requests, FindThird(r)
  PROVE  LocalInv'
<1> DEFINE c == calls[r]
<1>1. c \in Call /\ Local(c) /\ c.pc = "findThird" /\ c.item \in Qualifiers
  BY DEF LocalInv, TypeOK, FindThird, At, Local, QualifierStatements
<1>2. CASE RollBack(r)
  BY <1>2, RollBackLocal
<1>3. ASSUME NEW k \in Third(r, c.item.group),
             calls' = [calls EXCEPT ![r].pc = "checkQualifier", ![r].third = k],
             UNCHANGED <<unplayed, finals, groupScore>>
      PROVE  LocalInv'
  <2> DEFINE d == [c EXCEPT !.pc = "checkQualifier", !.third = k]
  <2>1. d \in Call /\ d.pc = "checkQualifier" /\ d.third = k /\ d.item = c.item
        /\ k \in Countries
    BY <1>1 DEF Call, Third
  <2>2. Local(d)
    BY <1>1, <2>1 DEF Local, RankingStatements, QualifierStatements
  <2>3. calls' = [calls EXCEPT ![r] = d]
    BY <1>3 DEF LocalInv, TypeOK
  <2> QED
    BY <1>3, <2>1, <2>2, <2>3, OnlyCalls
<1> QED
  BY <1>2, <1>3 DEF FindThird

LEMMA CheckQualifierLocal ==
  ASSUME LocalInv, NEW r \in Requests, CheckQualifier(r)
  PROVE  LocalInv'
<1> DEFINE c == calls[r]
           d == [c EXCEPT !.pc = "writeQualifier"]
<1>1. c \in Call /\ Local(c) /\ c.pc = "checkQualifier"
  BY DEF LocalInv, TypeOK, CheckQualifier, At
<1>2. CASE RollBack(r)
  BY <1>2, RollBackLocal
<1>3. CASE ~RollBack(r)
  <2>1. GoTo(r, "writeQualifier") /\ UNCHANGED <<unplayed, finals, groupScore>>
    BY <1>3 DEF CheckQualifier
  <2>2. d \in Call /\ Local(d)
    BY <1>1 DEF Call, Local, RankingStatements, QualifierStatements
  <2>3. calls' = [calls EXCEPT ![r] = d]
    BY <2>1 DEF GoTo, LocalInv, TypeOK
  <2> QED
    BY <2>1, <2>2, <2>3, OnlyCalls
<1> QED
  BY <1>2, <1>3

LEMMA WriteQualifierLocal ==
  ASSUME LocalInv, NEW r \in Requests, WriteQualifier(r)
  PROVE  LocalInv'
<1> DEFINE c == calls[r]
           d == [c EXCEPT !.pc = "queryExtra"]
           row == [Rows!Read(finals[c.third], r) EXCEPT !.qualifier = c.item.advances]
<1>1. c \in Call /\ Local(c) /\ c.pc = "writeQualifier"
  BY DEF LocalInv, TypeOK, WriteQualifier, At
<1>2. c.third \in Countries /\ c.item \in Qualifiers /\ c.item.advances \in BOOLEAN
  BY <1>1, CallsApart DEF Local, QualifierStatements
<1>3. d \in Call /\ Local(d)
  BY <1>1 DEF Call, Local, RankingStatements, QualifierStatements
<1>4. calls' = [calls EXCEPT ![r] = d]
  BY DEF WriteQualifier, GoTo, LocalInv, TypeOK
<1>5. finals' \in [Countries -> Rows!RowVersion(FinalRow, Requests)]
  <2>1. finals[c.third] \in Rows!RowVersion(FinalRow, Requests)
    BY <1>2 DEF LocalInv, TypeOK
  <2>2. Rows!Read(finals[c.third], r) \in FinalRow
    BY <2>1 DEF Rows!Read, Rows!RowVersion
  <2>3. row \in FinalRow
    BY <1>2, <2>2 DEF FinalRow
  <2> QED
    BY <1>2, <2>1, <2>3, WriteType DEF WriteQualifier, LocalInv, TypeOK
<1> QED
  BY <1>3, <1>4, <1>5, CallStep DEF WriteQualifier, LocalInv, TypeOK

LEMMA StepLocal == LocalInv /\ [Next]_vars => LocalInv'
<1> SUFFICES ASSUME LocalInv, [Next]_vars PROVE LocalInv'
  OBVIOUS
<1>1. ASSUME NEW g \in Groups, CompleteGroup(g) PROVE LocalInv'
  BY <1>1 DEF CompleteGroup, LocalInv, TypeOK
<1>2. ASSUME NEW r \in Requests, BeginRankings(r) \/ BeginQualifier(r) PROVE LocalInv'
  BY <1>2, BeginLocal
<1>3. ASSUME NEW r \in Requests, Statement(r) PROVE LocalInv'
  <2>1. CASE CountIncomplete(r) \/ CountRanked(r)
    BY <2>1, CountLocal
  <2>2. CASE RankCountry(r)
    BY <2>2, RankCountryLocal
  <2>3. CASE QueryPicks(r) \/ QueryExtra(r)
    BY <2>3, QueryLocal
  <2>4. CASE ScoreUser(r) \/ PayBonus(r)
    BY <2>4, PayLocal
  <2>5. CASE FindThird(r)
    BY <2>5, FindThirdLocal
  <2>6. CASE CheckQualifier(r)
    BY <2>6, CheckQualifierLocal
  <2>7. CASE WriteQualifier(r)
    BY <2>7, WriteQualifierLocal
  <2>8. CASE Commit(r)
    BY <2>8, CommitLocal
  <2> QED
    BY <1>3, <2>1, <2>2, <2>3, <2>4, <2>5, <2>6, <2>7, <2>8 DEF Statement
<1>4. ASSUME NEW r \in Requests, Abort(r) \/ DeadlockAbort(r) PROVE LocalInv'
  BY <1>4, RollBackLocal DEF Abort, DeadlockAbort
<1>5. CASE UNCHANGED vars
  BY <1>5 DEF LocalInv, TypeOK, vars
<1> QED
  BY <1>1, <1>2, <1>3, <1>4, <1>5 DEF Next, AllAnswered

LEMMA LocalInvariance == Spec => []LocalInv
  BY InitLocal, StepLocal, PTL DEF Spec

\* Type correctness of the finalization of groups: for any calls, the rows of the
\* tables and the locals of the calls are of their types, group scores included,
\* which are sums over the predictions.
THEOREM TypeCorrect == Spec => []TypeOK
<1>1. LocalInv => TypeOK
  BY DEF LocalInv
<1> QED
  BY <1>1, LocalInvariance, PTL

----------------------------------------------------------------------------
(***************************************************************************)
(* No payment is lost                                                      *)
(***************************************************************************)
\* What the calls that have committed owe a user.
PaidOf(f, u) ==
  [q \in Requests |-> IF f[q].pc # "done" THEN 0 ELSE Owed(f[q].item, u)]

LEMMA PaidOfType ==
  ASSUME NEW f, NEW u \in Users
  PROVE  \A q \in Requests : PaidOf(f, u)[q] \in Int
  BY OwedType DEF PaidOf

\* The scores are what the committed calls owe, in sums over functions.
ScoresPaid == \A u \in Users : groupScore[u].cur = Total(PaidOf(calls, u), Requests)

LEMMA PaidSum == PointsAreNotLost <=> ScoresPaid
<1>1. ASSUME NEW u \in Users
      PROVE  MapThenSumSet(LAMBDA r : PaidBy(r, u), Requests)
             = Total(PaidOf(calls, u), Requests)
  <2>1. MapThenSumSet(LAMBDA r : PaidBy(r, u), Requests)
        = Total([r \in Requests |-> PaidBy(r, u)], Requests)
    BY Zenon DEF Total, MapThenSumSet, MapThenFoldSet
  <2>2. [r \in Requests |-> PaidBy(r, u)] = PaidOf(calls, u)
    BY DEF PaidBy, PaidOf, Owed
  <2> QED
    BY <2>1, <2>2
<1> QED
  BY <1>1 DEF PointsAreNotLost, ScoresPaid

LEMMA PaidSumNext == PointsAreNotLost' <=> ScoresPaid'
<1>1. ASSUME NEW u \in Users
      PROVE  MapThenSumSet(LAMBDA r : PaidBy(r, u)', Requests)
             = Total(PaidOf(calls', u), Requests)
  <2>1. MapThenSumSet(LAMBDA r : PaidBy(r, u)', Requests)
        = Total([r \in Requests |-> PaidBy(r, u)'], Requests)
    BY Zenon DEF Total, MapThenSumSet, MapThenFoldSet
  <2>2. [r \in Requests |-> PaidBy(r, u)'] = PaidOf(calls', u)
    BY DEF PaidBy, PaidOf, Owed
  <2> QED
    BY <2>1, <2>2
<1> QED
  BY <1>1 DEF PointsAreNotLost, ScoresPaid

\* A statement after which r has not committed yet, and holds what it has paid.
LEMMA StillPaying ==
  ASSUME PointsInv, LocalInv', NEW r \in Requests,
         calls[r].pc # "done", calls'[r].pc # "done",
         \A q \in Requests \ {r} : calls'[q] = calls[q],
         \A u \in Users : groupScore'[u].cur = groupScore[u].cur,
         \A q \in Requests \ {r} : Spares(groupScore, groupScore', q),
         Payments(r)'
  PROVE  PointsInv'
<1>1. DOMAIN groupScore = Users
  BY DEF PointsInv, LocalInv, TypeOK
<1>2. ASSUME NEW q \in Requests
      PROVE  Payments(q)'
  <2>1. CASE q = r
    BY <2>1
  <2>2. CASE q # r
    <3>1. Payments(q) /\ calls'[q] = calls[q] /\ Spares(groupScore, groupScore', q)
      BY <2>2 DEF PointsInv
    <3> QED
      BY <1>1, <3>1 DEF Payments, Spares
  <2> QED
    BY <2>1, <2>2
<1>3. \A u \in Users : PaidOf(calls', u) = PaidOf(calls, u)
  BY DEF PaidOf
<1>4. ScoresPaid'
  BY <1>3, PaidSum DEF PointsInv, ScoresPaid
<1> QED
  BY <1>2, <1>4, PaidSumNext DEF PointsInv

\* A statement of a call that neither has nor gets anything paid.
LEMMA NotPaying ==
  ASSUME PointsInv, LocalInv', NEW r \in Requests,
         calls[r].pc \notin {"score", "bonus", "commit", "done"},
         calls'[r].pc \notin {"score", "bonus", "commit", "done"},
         \A q \in Requests \ {r} : calls'[q] = calls[q],
         UNCHANGED groupScore
  PROVE  PointsInv'
<1>1. Payments(r)'
  BY DEF PointsInv, Payments, HasPaid
<1>2. \A q \in Requests \ {r} : Spares(groupScore, groupScore', q)
  BY DEF Spares
<1> QED
  BY <1>1, <1>2, StillPaying

LEMMA RollBackPays ==
  ASSUME PointsInv, LocalInv', NEW r \in Requests, RollBack(r), calls[r].pc # "done"
  PROVE  PointsInv'
<1>1. /\ DOMAIN groupScore = Users /\ calls \in [Requests -> Call]
      /\ calls'[r].pc = "failed" /\ \A q \in Requests \ {r} : calls'[q] = calls[q]
      /\ groupScore' = Rows!Discard(groupScore, r)
  BY IdleType DEF RollBack, PointsInv, LocalInv, TypeOK, Call
<1>2. \A u \in Users : groupScore'[u].cur = groupScore[u].cur /\ groupScore'[u].by # r
  BY <1>1, NullAssumption DEF Rows!Discard, Rows!Committed
<1>3. Payments(r)'
  BY <1>1, <1>2 DEF Payments, HasPaid
<1> QED
  BY <1>1, <1>2, <1>3, EndSpares, StillPaying

LEMMA QueryPays ==
  ASSUME PointsInv, LocalInv', NEW r \in Requests, QueryPicks(r) \/ QueryExtra(r)
  PROVE  PointsInv'
<1> DEFINE c == calls[r]
<1>1. PICK order \in Seq(Users), pc \in {"score", "bonus"} :
        /\ IF pc = "score" THEN c.pc = "queryPicks" ELSE c.pc = "queryExtra"
        /\ Distinct(order) /\ Elements(order) = Payees(c.item)
        /\ calls' = [calls EXCEPT ![r].pc = AfterPay(order, pc), ![r].unpaid = order]
        /\ UNCHANGED <<unplayed, finals, groupScore>>
  BY QueryCall DEF PointsInv
<1>2. calls \in [Requests -> Call] /\ c.pc \notin {"score", "bonus", "commit", "done"}
  BY <1>1 DEF PointsInv, LocalInv, TypeOK
<1>3. /\ calls'[r].unpaid = order /\ calls'[r].item = c.item /\ calls'[r].pc # "done"
      /\ \A q \in Requests \ {r} : calls'[q] = calls[q]
  BY <1>1, <1>2 DEF AfterPay, Call
<1>4. Payments(r)'
  BY <1>1, <1>2, <1>3 DEF PointsInv, Payments, HasPaid
<1>5. \A q \in Requests \ {r} : Spares(groupScore, groupScore', q)
  BY <1>1 DEF Spares
<1> QED
  BY <1>1, <1>2, <1>3, <1>4, <1>5, StillPaying

LEMMA PayPays ==
  ASSUME PointsInv, LocalInv', NEW r \in Requests, ScoreUser(r) \/ PayBonus(r)
  PROVE  PointsInv'
<1> DEFINE c == calls[r]
           u == Head(c.unpaid)
           rest == Tail(c.unpaid)
<1>1. /\ c.pc \in {"score", "bonus"}
      /\ Elements(c.unpaid) \subseteq Payees(c.item)
      /\ u \in Users /\ u \in Elements(c.unpaid)
      /\ Elements(rest) = Elements(c.unpaid) \ {u}
      /\ groupScore[u].by \in {Null, r}
      /\ groupScore' = [groupScore EXCEPT
           ![u] = Rows!Write(groupScore[u], r,
                             Rows!Read(groupScore[u], r) + Owed(c.item, u))]
      /\ calls' = [calls EXCEPT ![r].pc = AfterPay(rest, c.pc), ![r].unpaid = rest]
  BY PayCall DEF PointsInv
<1>2. DOMAIN groupScore = Users /\ calls \in [Requests -> Call] /\ Payments(r)
  BY DEF PointsInv, LocalInv, TypeOK
<1>3. AfterPay(rest, c.pc) \in {"score", "bonus", "commit"}
  BY <1>1 DEF AfterPay
<1>4. /\ calls'[r].unpaid = rest /\ calls'[r].item = c.item
      /\ calls'[r].pc \in {"score", "bonus", "commit"}
      /\ \A q \in Requests \ {r} : calls'[q] = calls[q]
  BY <1>1, <1>2, <1>3 DEF Call
<1>5. groupScore[u].by # r
  BY <1>1, <1>2 DEF Payments, HasPaid
<1>6. groupScore'[u] = Rows!Write(groupScore[u], r, groupScore[u].cur + Owed(c.item, u))
  BY <1>1, <1>2, <1>5 DEF Rows!Read
<1>7. \A v \in Users \ {u} : groupScore'[v] = groupScore[v]
  BY <1>1, <1>2
<1>8. ASSUME NEW v \in Users
      PROVE  /\ groupScore'[v].by = r <=> HasPaid(calls'[r], v)
             /\ HasPaid(calls'[r], v) =>
                  groupScore'[v].new = groupScore'[v].cur + Owed(calls'[r].item, v)
  <2>1. HasPaid(calls'[r], v) <=> v = u \/ HasPaid(c, v)
    BY <1>1, <1>4 DEF HasPaid
  <2>2. CASE v = u
    BY <1>4, <1>6, <2>1, <2>2 DEF Rows!Write
  <2>3. CASE v # u
    BY <1>2, <1>4, <1>7, <2>1, <2>3 DEF Payments
  <2> QED
    BY <2>2, <2>3
<1>9. Payments(r)'
  BY <1>8 DEF Payments
<1>10. Touches(groupScore, groupScore', r)
  BY <1>1, <1>2, <1>6, <1>7 DEF Touches, Rows!Write
<1>11. /\ \A q \in Requests \ {r} : Spares(groupScore, groupScore', q)
       /\ \A v \in Users : groupScore'[v].cur = groupScore[v].cur
  BY <1>2, <1>10, TouchesSpares
<1> QED
  BY <1>1, <1>4, <1>9, <1>11, StillPaying

\* At the commit a call has paid everyone it owes anything.
LEMMA PaidAtCommit ==
  ASSUME PointsInv, NEW r \in Requests, Commit(r), NEW u \in Users
  PROVE  groupScore'[u].cur = groupScore[u].cur + Owed(calls[r].item, u)
<1> DEFINE c == calls[r]
<1>1. c.pc = "commit" /\ c.unpaid = <<>> /\ DOMAIN groupScore = Users
  BY DEF Commit, At, PointsInv, LocalInv, TypeOK, Local
<1>2. Elements(c.unpaid) = {}
  BY <1>1 DEF Elements
<1>3. HasPaid(c, u) <=> u \in Payees(c.item)
  BY <1>1, <1>2 DEF HasPaid
<1>4. groupScore'[u] = IF groupScore[u].by = r THEN Rows!Committed(groupScore[u].new)
                                               ELSE groupScore[u]
  BY <1>1 DEF Commit, Rows!Publish
<1>5. CASE u \in Payees(c.item)
  BY <1>3, <1>4, <1>5 DEF PointsInv, Payments, Rows!Committed
<1>6. CASE u \notin Payees(c.item)
  <2>1. Owed(c.item, u) = 0 /\ groupScore[u].by # r
    BY <1>3, <1>6, OwedType DEF PointsInv, Payments
  <2>2. groupScore[u].cur \in Nat
    BY DEF PointsInv, LocalInv, TypeOK, Rows!RowVersion
  <2> QED
    BY <1>4, <2>1, <2>2
<1> QED
  BY <1>5, <1>6

LEMMA CommitPays ==
  ASSUME PointsInv, LocalInv', NEW r \in Requests, Commit(r)
  PROVE  PointsInv'
<1> DEFINE c == calls[r]
<1>1. /\ DOMAIN groupScore = Users /\ calls \in [Requests -> Call] /\ c.pc = "commit"
      /\ groupScore' = Rows!Publish(groupScore, r)
  BY DEF Commit, At, PointsInv, LocalInv, TypeOK
<1>2. /\ calls'[r].pc = "done" /\ calls'[r].item = c.item
      /\ \A q \in Requests \ {r} : calls'[q] = calls[q]
  BY <1>1 DEF Commit, GoTo, Call
<1>3. ASSUME NEW q \in Requests
      PROVE  Payments(q)'
  <2>1. CASE q = r
    <3>1. \A u \in Users : groupScore'[u].by # r
      BY <1>1, NullAssumption DEF Rows!Publish, Rows!Committed
    <3> QED
      BY <1>2, <2>1, <3>1 DEF Payments, HasPaid
  <2>2. CASE q # r
    <3>1. Payments(q) /\ calls'[q] = calls[q] /\ Spares(groupScore, groupScore', q)
      BY <1>1, <1>2, <2>2, EndSpares DEF PointsInv
    <3> QED
      BY <1>1, <3>1 DEF Payments, Spares
  <2> QED
    BY <2>1, <2>2
<1>4. ASSUME NEW u \in Users
      PROVE  groupScore'[u].cur = Total(PaidOf(calls', u), Requests)
  <2>1. Total(PaidOf(calls', u), Requests)
        = Total(PaidOf(calls, u), Requests) + (PaidOf(calls', u)[r] - PaidOf(calls, u)[r])
    <3>1. \A q \in Requests \ {r} : PaidOf(calls, u)[q] = PaidOf(calls', u)[q]
      BY <1>2 DEF PaidOf
    <3>2. \A q \in Requests : PaidOf(calls, u)[q] \in Int /\ PaidOf(calls', u)[q] \in Int
      BY PaidOfType
    <3> QED
      BY <3>1, <3>2, FiniteAssumption, TotalUpdate
  <2>2. PaidOf(calls', u)[r] = Owed(c.item, u) /\ PaidOf(calls, u)[r] = 0
    BY <1>1, <1>2 DEF PaidOf
  <2>3. Owed(c.item, u) \in Nat /\ groupScore[u].cur \in Nat
    BY OwedType DEF PointsInv, LocalInv, TypeOK, Rows!RowVersion
  <2>4. groupScore[u].cur = Total(PaidOf(calls, u), Requests)
    BY PaidSum DEF PointsInv, ScoresPaid
  <2>5. groupScore'[u].cur = groupScore[u].cur + Owed(c.item, u)
    BY PaidAtCommit
  <2> QED
    BY <2>1, <2>2, <2>3, <2>4, <2>5
<1>5. ScoresPaid'
  BY <1>4 DEF ScoresPaid
<1> QED
  BY <1>3, <1>5, PaidSumNext DEF PointsInv

LEMMA InitPays == Init => PointsInv
<1> SUFFICES ASSUME Init PROVE PointsInv
  OBVIOUS
<1>1. \A r \in Requests : Payments(r)
  BY NullAssumption DEF Init, Idle, Payments, HasPaid, Rows!Committed
<1>2. ASSUME NEW u \in Users
      PROVE  groupScore[u].cur = Total(PaidOf(calls, u), Requests)
  <2>1. \A q \in Requests : PaidOf(calls, u)[q] = 0
    BY DEF Init, Idle, PaidOf
  <2>2. Total(PaidOf(calls, u), Requests) = 0
    BY <2>1, FiniteAssumption, TotalZero
  <2> QED
    BY <2>2 DEF Init, Rows!Committed
<1>3. ScoresPaid
  BY <1>2 DEF ScoresPaid
<1> QED
  BY <1>1, <1>3, PaidSum, InitLocal DEF PointsInv

\* The statements that neither query nor pay, and stay out of the payments.
LEMMA OtherStatements ==
  ASSUME LocalInv, NEW r \in Requests,
         \/ BeginRankings(r) \/ BeginQualifier(r) \/ CountIncomplete(r) \/ CountRanked(r)
         \/ RankCountry(r) \/ FindThird(r) \/ CheckQualifier(r) \/ WriteQualifier(r),
         ~RollBack(r)
  PROVE  /\ calls[r].pc \notin {"score", "bonus", "commit", "done"}
         /\ calls'[r].pc \notin {"score", "bonus", "commit", "done"}
         /\ \A q \in Requests \ {r} : calls'[q] = calls[q]
         /\ UNCHANGED groupScore
<1>1. calls \in [Requests -> Call]
  BY DEF LocalInv, TypeOK
<1>2. CASE BeginRankings(r) \/ BeginQualifier(r)
  BY <1>1, <1>2 DEF BeginRankings, BeginQualifier, Call
<1>3. CASE CountIncomplete(r) \/ CountRanked(r)
  BY <1>1, <1>3 DEF CountIncomplete, CountRanked, At, GoTo, Call
<1>4. CASE RankCountry(r)
  BY <1>1, <1>4 DEF RankCountry, At, AfterRank, Call
<1>5. CASE FindThird(r)
  BY <1>1, <1>5 DEF FindThird, At, Call
<1>6. CASE CheckQualifier(r) \/ WriteQualifier(r)
  BY <1>1, <1>6 DEF CheckQualifier, WriteQualifier, At, GoTo, Call
<1> QED
  BY <1>2, <1>3, <1>4, <1>5, <1>6

\* Where a call that rolls back comes from.
LEMMA RollsBackInFlight ==
  ASSUME NEW r \in Requests, RollBack(r),
         Statement(r) \/ Abort(r) \/ DeadlockAbort(r), LocalInv
  PROVE  calls[r].pc # "done"
<1>1. CASE Statement(r)
  BY <1>1 DEF Statement, CountIncomplete, CountRanked, RankCountry, QueryPicks,
     ScoreUser, FindThird, CheckQualifier, WriteQualifier, QueryExtra, PayBonus, Pay,
     Commit, At
<1>2. CASE Abort(r)
  BY <1>2 DEF Abort, InFlight, Answered
<1>3. CASE DeadlockAbort(r)
  <2>1. PICK s \in Requests : s \in Awaited(r)
    BY <1>3 DEF DeadlockAbort, Deadlocked, WaitsFor
  <2> QED
    BY <2>1 DEF Awaited
<1> QED
  BY <1>1, <1>2, <1>3

LEMMA StepPays == PointsInv /\ [Next]_vars => PointsInv'
<1> SUFFICES ASSUME PointsInv, [Next]_vars PROVE PointsInv'
  OBVIOUS
<1>1. LocalInv /\ LocalInv'
  BY StepLocal DEF PointsInv
<1>2. ASSUME UNCHANGED <<groupScore, calls>>
      PROVE  PointsInv'
  BY <1>1, <1>2, PaidSum, PaidSumNext DEF PointsInv, Payments, ScoresPaid
<1>3. ASSUME NEW g \in Groups, CompleteGroup(g)
      PROVE  PointsInv'
  BY <1>2, <1>3 DEF CompleteGroup
<1>4. ASSUME NEW r \in Requests, RollBack(r),
             Statement(r) \/ Abort(r) \/ DeadlockAbort(r)
      PROVE  PointsInv'
  BY <1>1, <1>4, RollsBackInFlight, RollBackPays
<1>5. ASSUME NEW r \in Requests, ~RollBack(r),
             \/ BeginRankings(r) \/ BeginQualifier(r)
             \/ CountIncomplete(r) \/ CountRanked(r) \/ RankCountry(r)
             \/ FindThird(r) \/ CheckQualifier(r) \/ WriteQualifier(r)
      PROVE  PointsInv'
  BY <1>1, <1>5, OtherStatements, NotPaying
<1>6. ASSUME NEW r \in Requests, RollBack(r), BeginRankings(r) \/ BeginQualifier(r)
      PROVE  PointsInv'
  <2>1. calls[r].pc # "done"
    BY <1>6 DEF BeginRankings, BeginQualifier
  <2> QED
    BY <1>1, <1>6, <2>1, RollBackPays
<1>7. ASSUME NEW r \in Requests, Statement(r)
      PROVE  PointsInv'
  <2>1. CASE QueryPicks(r) \/ QueryExtra(r)
    BY <1>1, <2>1, QueryPays
  <2>2. CASE ScoreUser(r) \/ PayBonus(r)
    BY <1>1, <2>2, PayPays
  <2>3. CASE Commit(r)
    BY <1>1, <2>3, CommitPays
  <2> QED
    BY <1>4, <1>5, <1>7, <2>1, <2>2, <2>3 DEF Statement
<1>8. ASSUME NEW r \in Requests, Abort(r) \/ DeadlockAbort(r)
      PROVE  PointsInv'
  BY <1>4, <1>8 DEF Abort, DeadlockAbort
<1>9. CASE UNCHANGED vars
  BY <1>2, <1>9 DEF vars
<1> QED
  BY <1>3, <1>5, <1>6, <1>7, <1>8, <1>9 DEF Next, AllAnswered

\* The points of every committed call arrive in full: whatever rankings and
\* qualifiers run together, for whatever groups and predictions, the group score
\* of a user is the sum of what the calls that have committed owe that user.  The
\* upsert adds to the row it has locked, so no read is stale.
THEOREM NoPaymentIsLost == Spec => []PointsAreNotLost
<1>1. PointsInv => PointsAreNotLost
  BY DEF PointsInv
<1> QED
  BY <1>1, InitPays, StepPays, PTL DEF Spec

----------------------------------------------------------------------------
(***************************************************************************)
(* Finals of coordinated calls                                             *)
(***************************************************************************)
\* A call whose rows are spared and whose reads are still committed goes on.
LEMMA OtherFinals ==
  ASSUME FinalsInv, NEW q \in Requests, calls'[q] = calls[q],
         Spares(finals, finals', q),
         Ranking(calls[q]) => \A k \in Countries :
           Letter[k] = calls[q].item.group => finals'[k].cur.rank = finals[k].cur.rank,
         Qualifying(calls[q]) =>
           /\ finals'[calls[q].third].cur.rank = finals[calls[q].third].cur.rank
           /\ Checked(calls[q]) => finals'[calls[q].third].cur.qualifier
                                   = finals[calls[q].third].cur.qualifier
  PROVE  Writes(q)' /\ Positions(calls'[q]) /\ Fresh(calls[q])'
<1> DEFINE c == calls[q]
<1>1. /\ DOMAIN finals = Countries /\ Writes(q) /\ Positions(c) /\ Fresh(c)
      /\ calls'[q] = c
  BY DEF FinalsInv, LocalInv, TypeOK
<1>2. Writes(q)'
  BY <1>1 DEF Writes, Spares
<1>3. Positions(calls'[q])
  BY <1>1
<1>4. Fresh(calls[q])'
  BY <1>1 DEF Fresh, Rank, Checked
<1> QED
  BY <1>2, <1>3, <1>4

\* A statement of r after which the committed rows are what they were.
LEMMA StillFinal ==
  ASSUME FinalsInv, LocalInv', Coordinated', NEW r \in Requests,
         \A q \in Requests \ {r} : calls'[q] = calls[q],
         \A k \in Countries : finals'[k].cur = finals[k].cur,
         \A q \in Requests \ {r} : Spares(finals, finals', q),
         Writes(r)', Positions(calls'[r]), Fresh(calls[r])'
  PROVE  FinalsInv'
<1>1. ASSUME NEW q \in Requests
      PROVE  Writes(q)' /\ Positions(calls'[q]) /\ Fresh(calls[q])'
  <2>1. CASE q = r
    BY <2>1
  <2>2. CASE q # r
    <3>1. Qualifying(calls[q]) => calls[q].third \in Countries
      BY DEF FinalsInv, Positions
    <3> QED
      BY <2>2, <3>1, OtherFinals
  <2> QED
    BY <2>1, <2>2
<1>2. FinalsAreSound'
  BY DEF FinalsInv, FinalsAreSound, Rank
<1> QED
  BY <1>1, <1>2 DEF FinalsInv

\* A step that leaves the finals alone and a call where it has written nothing.
LEMMA NothingWritten ==
  ASSUME FinalsInv, LocalInv', Coordinated', NEW r \in Requests,
         \A q \in Requests \ {r} : calls'[q] = calls[q],
         UNCHANGED finals,
         \A k \in Countries : finals[k].by # r,
         ~Ranking(calls'[r]) /\ ~Marked(calls'[r]),
         Positions(calls'[r]), Fresh(calls[r])'
  PROVE  FinalsInv'
<1>1. Writes(r)'
  BY DEF Writes
<1>2. \A q \in Requests \ {r} : Spares(finals, finals', q)
  BY DEF Spares
<1> QED
  BY <1>1, <1>2, StillFinal

\* A payment leaves what the call has written as it is.
LEMMA SameFinals ==
  ASSUME FinalsInv, LocalInv', Coordinated', NEW r \in Requests,
         \A q \in Requests \ {r} : calls'[q] = calls[q],
         UNCHANGED finals,
         calls'[r].item = calls[r].item, calls'[r].next = calls[r].next,
         calls'[r].third = calls[r].third,
         calls[r].pc \in {"queryPicks", "score", "queryExtra", "bonus"},
         calls'[r].pc \in {"score", "bonus", "commit"},
         Ranking(calls'[r]) = Ranking(calls[r]), Marked(calls'[r]) = Marked(calls[r])
  PROVE  FinalsInv'
<1> DEFINE c == calls[r]
           d == calls'[r]
<1>1. Writes(r) /\ Positions(c) /\ Fresh(c)
  BY DEF FinalsInv
<1>2. /\ Ranking(d) <=> Ranking(c)
      /\ Qualifying(d) => Marked(d)
      /\ Marked(d) <=> Marked(c)
      /\ Marked(c) => Qualifying(c) /\ Checked(c)
      /\ Checked(d) => Marked(d)
  BY DEF Qualifying, Marked, Checked
<1>3. \A k : Listed(d, k) <=> Listed(c, k)
  BY DEF Listed
<1>4. \A k, i : LastListed(d, k, i) <=> LastListed(c, k, i)
  BY DEF LastListed
<1>5. Writes(r)'
  BY <1>1, <1>2, <1>3, <1>4 DEF Writes
<1>6. Positions(d)
  BY <1>1, <1>2 DEF Positions
<1>7. Fresh(calls[r])'
  BY <1>1, <1>2 DEF Fresh, Rank
<1>8. \A q \in Requests \ {r} : Spares(finals, finals', q)
  BY DEF Spares
<1> QED
  BY <1>5, <1>6, <1>7, <1>8, StillFinal

\* What a call that has written nothing reads is committed.
LEMMA ReadsCommitted ==
  ASSUME FinalsInv, NEW r \in Requests, ~Ranking(calls[r]), ~Marked(calls[r])
  PROVE  \A k \in Countries : finals[k].by # r /\ Rows!Read(finals[k], r) = finals[k].cur
  BY DEF FinalsInv, Writes, Rows!Read

LEMMA BeginFinals ==
  ASSUME FinalsInv, LocalInv', Coordinated', NEW r \in Requests,
         BeginRankings(r) \/ BeginQualifier(r)
  PROVE  FinalsInv'
<1>1. /\ calls \in [Requests -> Call] /\ calls[r].pc = "idle" /\ UNCHANGED finals
      /\ calls'[r].pc \in {"countIncomplete", "findThird"}
      /\ \A q \in Requests \ {r} : calls'[q] = calls[q]
  BY DEF FinalsInv, LocalInv, TypeOK, BeginRankings, BeginQualifier, Call
<1>2. /\ ~Ranking(calls[r]) /\ ~Marked(calls[r])
      /\ ~Ranking(calls'[r]) /\ ~Qualifying(calls'[r])
  BY <1>1 DEF Ranking, Marked, Checked, Qualifying
<1>3. Positions(calls'[r]) /\ Fresh(calls[r])'
  BY <1>2 DEF Positions, Fresh, Checked
<1> QED
  BY <1>1, <1>2, <1>3, ReadsCommitted, NothingWritten DEF Marked, Checked

LEMMA RollBackFinals ==
  ASSUME FinalsInv, LocalInv', Coordinated', NEW r \in Requests, RollBack(r)
  PROVE  FinalsInv'
<1>1. /\ DOMAIN finals = Countries /\ calls \in [Requests -> Call]
      /\ calls'[r].pc = "failed" /\ \A q \in Requests \ {r} : calls'[q] = calls[q]
      /\ finals' = Rows!Discard(finals, r)
  BY IdleType DEF RollBack, FinalsInv, LocalInv, TypeOK, Call
<1>2. \A k \in Countries : finals'[k].cur = finals[k].cur /\ finals'[k].by # r
  BY <1>1, NullAssumption DEF Rows!Discard, Rows!Committed
<1>3. ~Ranking(calls'[r]) /\ ~Qualifying(calls'[r])
  BY <1>1 DEF Ranking, Qualifying
<1>4. Writes(r)'
  BY <1>2, <1>3 DEF Writes, Marked, Checked
<1>5. Positions(calls'[r]) /\ Fresh(calls[r])'
  BY <1>3 DEF Positions, Fresh, Checked
<1> QED
  BY <1>1, <1>2, <1>4, <1>5, EndSpares, StillFinal

LEMMA CountIncompleteFinals ==
  ASSUME FinalsInv, LocalInv', Coordinated', NEW r \in Requests, CountIncomplete(r)
  PROVE  FinalsInv'
<1>1. CASE RollBack(r)
  BY <1>1, RollBackFinals
<1>2. CASE ~RollBack(r)
  <2>1. /\ calls \in [Requests -> Call] /\ calls[r].pc = "countIncomplete"
        /\ UNCHANGED finals /\ calls'[r].pc = "countRanked"
        /\ \A q \in Requests \ {r} : calls'[q] = calls[q]
    BY <1>2 DEF FinalsInv, LocalInv, TypeOK, CountIncomplete, At, GoTo, Call
  <2>2. /\ ~Ranking(calls[r]) /\ ~Marked(calls[r])
        /\ ~Ranking(calls'[r]) /\ ~Qualifying(calls'[r])
    BY <2>1 DEF Ranking, Marked, Checked, Qualifying
  <2>3. Positions(calls'[r]) /\ Fresh(calls[r])'
    BY <2>2 DEF Positions, Fresh, Checked
  <2> QED
    BY <2>1, <2>2, <2>3, ReadsCommitted, NothingWritten DEF Marked, Checked
<1> QED
  BY <1>1, <1>2

\* The check that no country of the group is ranked yet, on committed rows.
LEMMA CountRankedFinals ==
  ASSUME FinalsInv, LocalInv', Coordinated', NEW r \in Requests, CountRanked(r)
  PROVE  FinalsInv'
<1> DEFINE c == calls[r]
           d == calls'[r]
<1>1. CASE RollBack(r)
  BY <1>1, RollBackFinals
<1>2. CASE ~RollBack(r)
  <2>1. /\ c \in Call /\ Local(c) /\ c.pc = "countRanked" /\ UNCHANGED finals
        /\ GoTo(r, IF c.item.order = <<>> THEN "queryPicks" ELSE "rank")
        /\ ~ \E k \in Countries : /\ Letter[k] = c.item.group
                                  /\ Rows!Read(finals[k], r).rank # Null
    BY <1>2 DEF FinalsInv, LocalInv, TypeOK, CountRanked, At
  <2>2. /\ c.item \in Rankings /\ c.item \notin Qualifiers /\ c.next = 1
        /\ c.item.order \in Seq(Countries \cup {Null})
    BY <2>1, CallsApart DEF Local, RankingStatements
  <2>3. /\ d.pc = IF c.item.order = <<>> THEN "queryPicks" ELSE "rank"
        /\ d.item = c.item /\ d.next = 1
        /\ \A q \in Requests \ {r} : calls'[q] = calls[q]
    BY <2>1, <2>2 DEF GoTo, FinalsInv, LocalInv, TypeOK, Call
  <2>4. ~Ranking(c) /\ ~Marked(c) /\ ~Qualifying(d) /\ ~Marked(d)
    BY <2>1, <2>2, <2>3 DEF Ranking, Marked, Checked, Qualifying
  <2>5. \A k \in Countries : /\ finals[k].by # r
                             /\ Letter[k] = c.item.group => finals[k].cur.rank = Null
    BY <2>1, <2>4, ReadsCommitted
  <2>6. Writes(r)'
    BY <2>1, <2>3, <2>4, <2>5 DEF Writes, Listed
  <2>7. Positions(d)
    BY <2>2, <2>3, <2>4 DEF Positions, Ranking
  <2>8. Fresh(calls[r])'
    BY <2>1, <2>3, <2>4, <2>5 DEF Fresh, Rank, Checked
  <2>9. \A q \in Requests \ {r} : Spares(finals, finals', q)
    BY <2>1 DEF Spares
  <2> QED
    BY <2>1, <2>3, <2>6, <2>7, <2>8, <2>9, StillFinal
<1> QED
  BY <1>1, <1>2

\* One rank more: of the country at the next position, the last one so far.
LEMMA RankCountryFinals ==
  ASSUME FinalsInv, LocalInv', Coordinated', NEW r \in Requests, RankCountry(r)
  PROVE  FinalsInv'
<1> DEFINE c == calls[r]
           d == calls'[r]
           n == c.next
           k0 == Code(c)
<1>1. CASE RollBack(r)
  BY <1>1, RollBackFinals
<1>2. CASE ~RollBack(r)
  <2>1. /\ c \in Call /\ Local(c) /\ c.pc = "rank" /\ c.item \in Rankings
        /\ c.item.order \in Seq(Countries \cup {Null})
        /\ n \in 1 .. Len(c.item.order)
        /\ k0 \in Countries /\ k0 = c.item.order[n]
        /\ finals[k0].by \in {Null, r}
        /\ finals' = [finals EXCEPT
             ![k0] = Rows!Write(@, r, [Rows!Read(@, r) EXCEPT !.rank = n])]
        /\ calls' = [calls EXCEPT ![r].pc = AfterRank(c), ![r].next = @ + 1]
    BY <1>2, RankCall DEF FinalsInv
  <2>2. /\ DOMAIN finals = Countries /\ calls \in [Requests -> Call]
        /\ \A k \in Countries : finals[k] \in Rows!RowVersion(FinalRow, Requests)
    BY DEF FinalsInv, LocalInv, TypeOK
  <2>3. /\ d.pc = AfterRank(c) /\ d.next = n + 1 /\ d.item = c.item
        /\ \A q \in Requests \ {r} : calls'[q] = calls[q]
    BY <2>1, <2>2 DEF Call
  <2> DEFINE m == Len(c.item.order)
  <2>20. n \in Nat /\ m \in Nat /\ 1 <= n /\ n <= m
    BY <2>1
  <2>21. d.next = n + 1
    BY <2>3
  <2>4. /\ d.pc \in {"rank", "queryPicks"}
        /\ d.pc = "queryPicks" => n = Len(c.item.order)
    <3>1. d.pc = IF n < m THEN "rank" ELSE "queryPicks"
      BY <2>3 DEF AfterRank
    <3> HIDE DEF n, m, d
    <3>2. d.pc \in {"rank", "queryPicks"} /\ (d.pc = "queryPicks" => n = m)
      BY <3>1, <2>20
    <3> QED
      BY <3>2 DEF m
  <2>5. /\ Ranking(c) /\ Ranking(d) /\ c.item \notin Qualifiers
        /\ ~Qualifying(c) /\ ~Qualifying(d) /\ ~Marked(c) /\ ~Marked(d)
    BY <2>1, <2>3, <2>4, CallsApart DEF Ranking, Qualifying, Marked, Checked
  <2>6. Writes(r) /\ Positions(c) /\ Fresh(c)
    BY DEF FinalsInv
  <2>7. /\ finals'[k0].by = r /\ finals'[k0].cur = finals[k0].cur
        /\ finals'[k0].new.rank = n
        /\ finals'[k0].new.qualifier = finals[k0].cur.qualifier
    <3>1. Rows!Read(finals[k0], r) \in FinalRow
      BY <2>1, <2>2 DEF Rows!Read, Rows!RowVersion
    <3>2. Rows!Read(finals[k0], r).qualifier = finals[k0].cur.qualifier
      BY <2>1, <2>5, <2>6 DEF Writes, Rows!Read
    <3>3. finals'[k0] = Rows!Write(finals[k0], r,
                                   [Rows!Read(finals[k0], r) EXCEPT !.rank = n])
      BY <2>1, <2>2
    <3> QED
      BY <3>1, <3>2, <3>3 DEF Rows!Write, FinalRow
  <2>8. \A k \in Countries \ {k0} : finals'[k] = finals[k]
    BY <2>1, <2>2
  <2>9. 1 .. d.next - 1 = (1 .. c.next - 1) \cup {n}
    <3> HIDE DEF n, d
    <3>1. 1 .. (n + 1) - 1 = (1 .. n - 1) \cup {n}
      BY <2>20
    <3> QED
      BY <2>21, <3>1 DEF n
  <2>10. \A k : Listed(d, k) <=> Listed(c, k) \/ k = k0
    BY <2>3, <2>9, <2>1 DEF Listed
  <2>11. LastListed(d, k0, n)
    <3>1. d.item.order[n] = k0
      BY <2>1, <2>3
    <3>2. n \in 1 .. d.next - 1 /\ \A j \in 1 .. d.next - 1 : j <= n
      <4> HIDE DEF n, d
      <4> QED
        BY <2>20, <2>21
    <3> QED
      BY <3>1, <3>2 DEF LastListed
  <2>12. \A k, i : k # k0 /\ LastListed(c, k, i) => LastListed(d, k, i)
    BY <2>1, <2>3, <2>9 DEF LastListed
  <2>13. Writes(r)'
    <3>1. ASSUME NEW k \in Countries
          PROVE  /\ finals'[k].by = r <=> Listed(d, k)
                 /\ finals'[k].by = r => /\ LastListed(d, k, finals'[k].new.rank)
                                         /\ finals'[k].new.qualifier
                                            = finals'[k].cur.qualifier
      <4>1. CASE k = k0
        BY <2>7, <2>10, <2>11, <4>1
      <4>2. CASE k # k0
        BY <2>5, <2>6, <2>8, <2>10, <2>12, <4>2 DEF Writes
      <4> QED
        BY <4>1, <4>2
    <3> QED
      BY <2>5, <3>1 DEF Writes
  <2>14. Positions(d)
    <3>1. d.next \in 1 .. Len(d.item.order) + 1
      <4>1. n + 1 \in 1 .. m + 1
        <5> HIDE DEF n, m
        <5> QED
          BY <2>20
      <4> QED
        BY <2>3, <4>1
    <3>2. \A i \in 1 .. d.next - 1 : d.item.order[i] \in Countries
      BY <2>1, <2>3, <2>5, <2>6, <2>9 DEF Positions
    <3>3. d.pc # "rank" => d.next = Len(d.item.order) + 1
      BY <2>3, <2>4
    <3> QED
      BY <2>5, <3>1, <3>2, <3>3 DEF Positions
  <2>15. \A k \in Countries : finals'[k].cur = finals[k].cur
    BY <2>7, <2>8
  <2>16. Fresh(calls[r])'
    BY <2>3, <2>5, <2>6, <2>15 DEF Fresh, Rank, Checked
  <2>17. Touches(finals, finals', r)
    BY <2>1, <2>2, <2>7, <2>8 DEF Touches
  <2>18. \A q \in Requests \ {r} : Spares(finals, finals', q)
    BY <2>17, TouchesSpares
  <2> QED
    BY <2>3, <2>13, <2>14, <2>15, <2>16, <2>18, StillFinal
<1> QED
  BY <1>1, <1>2

LEMMA QueryFinals ==
  ASSUME FinalsInv, LocalInv', Coordinated', NEW r \in Requests,
         QueryPicks(r) \/ QueryExtra(r)
  PROVE  FinalsInv'
<1> DEFINE c == calls[r]
           d == calls'[r]
<1>1. LocalInv /\ c \in Call /\ Local(c) /\ calls \in [Requests -> Call]
  BY DEF FinalsInv, LocalInv, TypeOK
<1>2. PICK order \in Seq(Users), pc \in {"score", "bonus"} :
        /\ IF pc = "score" THEN c.pc = "queryPicks" ELSE c.pc = "queryExtra"
        /\ calls' = [calls EXCEPT ![r].pc = AfterPay(order, pc), ![r].unpaid = order]
        /\ UNCHANGED <<unplayed, finals, groupScore>>
  BY <1>1, QueryCall
<1>3. /\ c.pc \in {"queryPicks", "queryExtra"} /\ UNCHANGED finals
      /\ d.pc \in {"score", "bonus", "commit"}
      /\ d.item = c.item /\ d.next = c.next /\ d.third = c.third
      /\ \A q \in Requests \ {r} : calls'[q] = calls[q]
  BY <1>1, <1>2 DEF AfterPay, Call
<1>4. d.pc = "score" => c.pc = "queryPicks"
  BY <1>1, <1>2 DEF AfterPay, Call
<1>5. d.pc = "bonus" => c.pc = "queryExtra"
  BY <1>1, <1>2 DEF AfterPay, Call
<1>6. /\ c.pc = "queryPicks" => c.item \in Rankings /\ c.item \notin Qualifiers
      /\ c.pc = "queryExtra" => c.item \in Qualifiers /\ c.item \notin Rankings
  BY <1>1, CallsApart DEF Local, RankingStatements, QualifierStatements
<1>7. Ranking(d) = Ranking(c) /\ Marked(d) = Marked(c)
  BY <1>3, <1>4, <1>5, <1>6 DEF Ranking, Marked, Checked, Qualifying
<1> QED
  BY <1>3, <1>7, SameFinals

LEMMA PayFinals ==
  ASSUME FinalsInv, LocalInv', Coordinated', NEW r \in Requests,
         ScoreUser(r) \/ PayBonus(r)
  PROVE  FinalsInv'
<1> DEFINE c == calls[r]
           d == calls'[r]
<1>1. LocalInv /\ c \in Call /\ Local(c) /\ calls \in [Requests -> Call]
  BY DEF FinalsInv, LocalInv, TypeOK
<1>2. /\ c.pc \in {"score", "bonus"} /\ UNCHANGED finals
      /\ calls' = [calls EXCEPT ![r].pc = AfterPay(Tail(c.unpaid), c.pc),
                                ![r].unpaid = Tail(c.unpaid)]
  BY <1>1, PayCall
<1>3. /\ d.pc \in {c.pc, "commit"}
      /\ d.item = c.item /\ d.next = c.next /\ d.third = c.third
      /\ \A q \in Requests \ {r} : calls'[q] = calls[q]
  BY <1>1, <1>2 DEF AfterPay, Call
<1>4. /\ c.pc = "score" => c.item \in Rankings /\ c.item \notin Qualifiers
      /\ c.pc = "bonus" => c.item \in Qualifiers /\ c.item \notin Rankings
  BY <1>1, CallsApart DEF Local, RankingStatements, QualifierStatements
<1>5. Ranking(d) = Ranking(c) /\ Marked(d) = Marked(c)
  BY <1>2, <1>3, <1>4 DEF Ranking, Marked, Checked, Qualifying
<1> QED
  BY <1>2, <1>3, <1>5, SameFinals

\* The third-placed country is one of the group with a committed third rank.
LEMMA FindThirdFinals ==
  ASSUME FinalsInv, LocalInv', Coordinated', NEW r \in Requests, FindThird(r)
  PROVE  FinalsInv'
<1> DEFINE c == calls[r]
           d == calls'[r]
<1>1. /\ c \in Call /\ Local(c) /\ c.pc = "findThird" /\ c.item \in Qualifiers
      /\ c.item \notin Rankings /\ calls \in [Requests -> Call]
  BY CallsApart DEF FinalsInv, LocalInv, TypeOK, FindThird, At, Local, QualifierStatements
<1>2. CASE RollBack(r)
  BY <1>2, RollBackFinals
<1>3. ASSUME NEW k \in Third(r, c.item.group),
             calls' = [calls EXCEPT ![r].pc = "checkQualifier", ![r].third = k],
             UNCHANGED <<unplayed, finals, groupScore>>
      PROVE  FinalsInv'
  <2>1. ~Ranking(c) /\ ~Marked(c)
    BY <1>1 DEF Ranking, Marked, Checked, Qualifying
  <2>2. /\ k \in Countries /\ Letter[k] = c.item.group /\ finals[k].cur.rank = 3
        /\ \A l \in Countries : finals[l].by # r
    BY <2>1, ReadsCommitted DEF Third
  <2>3. /\ d.pc = "checkQualifier" /\ d.third = k /\ d.item = c.item
        /\ \A q \in Requests \ {r} : calls'[q] = calls[q]
    BY <1>1, <1>3 DEF Call
  <2>4. ~Ranking(d) /\ ~Marked(d) /\ ~Checked(d)
    BY <2>3 DEF Ranking, Marked, Checked, Qualifying
  <2>5. Positions(d) /\ Fresh(calls[r])'
    BY <1>3, <2>2, <2>3, <2>4 DEF Positions, Fresh, Rank
  <2> QED
    BY <1>3, <2>2, <2>3, <2>4, <2>5, NothingWritten
<1> QED
  BY <1>2, <1>3 DEF FindThird

LEMMA CheckQualifierFinals ==
  ASSUME FinalsInv, LocalInv', Coordinated', NEW r \in Requests, CheckQualifier(r)
  PROVE  FinalsInv'
<1> DEFINE c == calls[r]
           d == calls'[r]
<1>1. /\ c \in Call /\ Local(c) /\ c.pc = "checkQualifier" /\ c.item \in Qualifiers
      /\ c.item \notin Rankings /\ c.third \in Countries /\ calls \in [Requests -> Call]
      /\ Positions(c) /\ Fresh(c)
  BY CallsApart DEF FinalsInv, LocalInv, TypeOK, CheckQualifier, At, Local,
     QualifierStatements
<1>2. CASE RollBack(r)
  BY <1>2, RollBackFinals
<1>3. CASE ~RollBack(r)
  <2>1. /\ GoTo(r, "writeQualifier") /\ UNCHANGED finals
        /\ Rows!Read(finals[c.third], r).qualifier = Null
    BY <1>3 DEF CheckQualifier
  <2>2. ~Ranking(c) /\ ~Marked(c) /\ Qualifying(c)
    BY <1>1 DEF Ranking, Marked, Checked, Qualifying
  <2>3. finals[c.third].cur.qualifier = Null /\ \A k \in Countries : finals[k].by # r
    BY <1>1, <2>1, <2>2, ReadsCommitted
  <2>4. /\ d.pc = "writeQualifier" /\ d.third = c.third /\ d.item = c.item
        /\ \A q \in Requests \ {r} : calls'[q] = calls[q]
    BY <1>1, <2>1 DEF GoTo, Call
  <2>5. ~Ranking(d) /\ ~Marked(d)
    BY <2>4 DEF Ranking, Marked, Checked, Qualifying
  <2>6. Positions(d)
    BY <1>1, <2>4, <2>5 DEF Positions
  <2>7. Fresh(calls[r])'
    BY <1>1, <2>1, <2>2, <2>3, <2>4, <2>5 DEF Fresh, Rank
  <2> QED
    BY <2>1, <2>3, <2>4, <2>5, <2>6, <2>7, NothingWritten
<1> QED
  BY <1>2, <1>3

LEMMA WriteQualifierFinals ==
  ASSUME FinalsInv, LocalInv', Coordinated', NEW r \in Requests, WriteQualifier(r)
  PROVE  FinalsInv'
<1> DEFINE c == calls[r]
           d == calls'[r]
           k0 == c.third
<1>1. /\ c \in Call /\ Local(c) /\ c.pc = "writeQualifier" /\ c.item \in Qualifiers
      /\ c.item \notin Rankings /\ k0 \in Countries /\ calls \in [Requests -> Call]
      /\ Positions(c) /\ Fresh(c) /\ finals[k0].by \in {Null, r}
  BY CallsApart DEF FinalsInv, LocalInv, TypeOK, WriteQualifier, At, Awaited, Local,
     QualifierStatements
<1>2. /\ DOMAIN finals = Countries
      /\ finals[k0] \in Rows!RowVersion(FinalRow, Requests)
  BY <1>1 DEF FinalsInv, LocalInv, TypeOK
<1>3. ~Ranking(c) /\ ~Marked(c) /\ Qualifying(c) /\ Checked(c)
  BY <1>1 DEF Ranking, Marked, Checked, Qualifying
<1>4. \A k \in Countries : finals[k].by # r /\ Rows!Read(finals[k], r) = finals[k].cur
  BY <1>3, ReadsCommitted
<1>5. finals' = [finals EXCEPT
        ![k0] = Rows!Write(@, r, [Rows!Read(@, r) EXCEPT !.qualifier = c.item.advances])]
  BY DEF WriteQualifier
<1>6. finals'[k0] = Rows!Write(finals[k0], r,
                               [finals[k0].cur EXCEPT !.qualifier = c.item.advances])
  BY <1>1, <1>2, <1>4, <1>5
<1>7. /\ finals'[k0].by = r /\ finals'[k0].cur = finals[k0].cur
      /\ finals'[k0].new.rank = finals[k0].cur.rank
      /\ finals'[k0].new.qualifier = c.item.advances
  BY <1>2, <1>6 DEF Rows!Write, Rows!RowVersion, FinalRow
<1>8. \A k \in Countries \ {k0} : finals'[k] = finals[k]
  BY <1>2, <1>5
<1>9. /\ d.pc = "queryExtra" /\ d.third = k0 /\ d.item = c.item
      /\ \A q \in Requests \ {r} : calls'[q] = calls[q]
  BY <1>1 DEF WriteQualifier, GoTo, Call
<1>10. ~Ranking(d) /\ Marked(d)
  BY <1>1, <1>9 DEF Ranking, Marked, Checked, Qualifying
<1>11. Writes(r)'
  BY <1>4, <1>7, <1>8, <1>9, <1>10 DEF Writes
<1>12. Positions(d)
  BY <1>1, <1>9, <1>10 DEF Positions
<1>13. \A k \in Countries : finals'[k].cur = finals[k].cur
  BY <1>7, <1>8
<1>14. Fresh(calls[r])'
  BY <1>1, <1>3, <1>9, <1>10, <1>13 DEF Fresh, Rank
<1>15. Touches(finals, finals', r)
  BY <1>1, <1>2, <1>7, <1>8 DEF Touches
<1>16. \A q \in Requests \ {r} : Spares(finals, finals', q)
  BY <1>15, TouchesSpares
<1> QED
  BY <1>9, <1>11, <1>12, <1>13, <1>14, <1>16, StillFinal

\* What a commit does to a row: nothing, or the row of a country of the group gets
\* its first rank, or the third-placed country its first mark.
FirstRank(r, k) ==
  /\ Ranking(calls[r]) /\ Letter[k] = calls[r].item.group
  /\ finals[k].cur.rank = Null /\ finals[k].cur.qualifier = Null
  /\ LastListed(calls[r], k, finals'[k].cur.rank)
  /\ finals'[k].cur.qualifier = Null

FirstMark(r, k) ==
  /\ Marked(calls[r]) /\ k = calls[r].third /\ Letter[k] = calls[r].item.group
  /\ finals[k].cur.rank = 3 /\ finals[k].cur.qualifier = Null
  /\ finals'[k].cur.rank = 3 /\ finals'[k].cur.qualifier = calls[r].item.advances

LEMMA CommittedRows ==
  ASSUME FinalsInv, ListsStayInGroup, NEW r \in Requests, Commit(r)
  PROVE  LET c == calls[r]
         IN  /\ \A k \in Countries :
                  IF (Ranking(c) /\ Listed(c, k)) \/ (Marked(c) /\ k = c.third)
                  THEN FirstRank(r, k) \/ FirstMark(r, k)
                  ELSE finals'[k].cur = finals[k].cur
             /\ c.pc = "commit"
             /\ IF c.item \in Rankings
                THEN /\ c.item \notin Qualifiers /\ Ranking(c) /\ ~Marked(c)
                     /\ c.next = Len(c.item.order) + 1
                     /\ c.item.order \in Seq(Countries \cup {Null})
                ELSE c.item \in Qualifiers /\ Marked(c) /\ ~Ranking(c)
<1> DEFINE c == calls[r]
<1>1. /\ c \in Call /\ Local(c) /\ c.pc = "commit" /\ DOMAIN finals = Countries
      /\ Writes(r) /\ Positions(c) /\ Fresh(c) /\ FinalsAreSound
      /\ finals' = Rows!Publish(finals, r)
  BY DEF Commit, At, FinalsInv, LocalInv, TypeOK
<1>2. c.item \in Rankings \cup Qualifiers
  BY <1>1 DEF Local
<1>3. IF c.item \in Rankings
      THEN c.item \notin Qualifiers /\ Ranking(c) /\ ~Marked(c)
      ELSE c.item \in Qualifiers /\ Marked(c) /\ ~Ranking(c)
  BY <1>1, <1>2, CallsApart DEF Ranking, Marked, Checked, Qualifying
<1>4. c.item \in Rankings => /\ c.next = Len(c.item.order) + 1
                             /\ c.item.order \in Seq(Countries \cup {Null})
  BY <1>1, <1>3, CallsApart DEF Positions
<1>5. ASSUME NEW k \in Countries
      PROVE  finals'[k].cur = IF finals[k].by = r THEN finals[k].new ELSE finals[k].cur
  BY <1>1 DEF Rows!Publish, Rows!Committed
<1>6. ASSUME NEW k \in Countries, Ranking(c), Listed(c, k)
      PROVE  FirstRank(r, k)
  <2>1. /\ finals[k].by = r /\ ~Marked(c) /\ c.item \in Rankings
    BY <1>1, <1>3, <1>6 DEF Writes
  <2>2. /\ LastListed(c, k, finals[k].new.rank)
        /\ finals[k].new.qualifier = finals[k].cur.qualifier
    BY <1>1, <1>6, <2>1 DEF Writes
  <2>3. Letter[k] = c.item.group
    <3>1. PICK i \in 1 .. c.next - 1 : c.item.order[i] = k
      BY <1>6 DEF Listed
    <3>2. i \in DOMAIN c.item.order
      BY <1>4, <2>1, <3>1
    <3> QED
      BY <2>1, <3>1, <3>2, NullAssumption DEF ListsStayInGroup
  <2>4. finals[k].cur.rank = Null
    BY <1>1, <1>6, <2>3 DEF Fresh, Rank
  <2>5. finals[k].cur.qualifier = Null
    <3>1. 3 # Null
      BY NullAssumption
    <3> QED
      BY <1>1, <2>4, <3>1 DEF FinalsAreSound, Rank
  <2> QED
    BY <1>5, <1>6, <2>1, <2>2, <2>3, <2>4, <2>5 DEF FirstRank
<1>7. ASSUME NEW k \in Countries, Marked(c), k = c.third
      PROVE  FirstMark(r, k)
  <2>1. finals[k].by = r /\ Checked(c) /\ Qualifying(c)
    BY <1>1, <1>7 DEF Writes, Marked, Checked
  <2>2. finals[k].new.rank = finals[k].cur.rank /\ finals[k].new.qualifier = c.item.advances
    BY <1>1, <1>7, <2>1 DEF Writes
  <2>3. Letter[k] = c.item.group /\ finals[k].cur.rank = 3 /\ finals[k].cur.qualifier = Null
    BY <1>1, <1>7, <2>1 DEF Fresh, Rank
  <2> QED
    BY <1>5, <1>7, <2>1, <2>2, <2>3 DEF FirstMark
<1>8. ASSUME NEW k \in Countries,
             ~((Ranking(c) /\ Listed(c, k)) \/ (Marked(c) /\ k = c.third))
      PROVE  finals'[k].cur = finals[k].cur
  BY <1>1, <1>5, <1>8 DEF Writes
<1> QED
  BY <1>1, <1>3, <1>4, <1>6, <1>7, <1>8

LEMMA CommitFinals ==
  ASSUME FinalsInv, LocalInv', Coordinated', ListsStayInGroup,
         NEW r \in Requests, Commit(r)
  PROVE  FinalsInv'
<1> DEFINE c == calls[r]
<1>1. /\ DOMAIN finals = Countries /\ calls \in [Requests -> Call] /\ c.pc = "commit"
      /\ calls'[r].pc = "done" /\ \A q \in Requests \ {r} : calls'[q] = calls[q]
      /\ finals' = Rows!Publish(finals, r) /\ Coordinated /\ FinalsAreSound
  BY DEF Commit, At, GoTo, Call, FinalsInv, LocalInv, TypeOK
<1>2. \A k \in Countries :
        finals'[k].cur = finals[k].cur \/ FirstRank(r, k) \/ FirstMark(r, k)
  BY CommittedRows
<1>3. /\ Ranking(c) => c.item \in Rankings
      /\ Marked(c) => c.item \in Qualifiers /\ c.item \notin Rankings
      /\ Ranking(c) => ~Marked(c)
  BY CallsApart DEF Ranking, Marked, Checked, Qualifying
<1>4. ASSUME NEW q \in Requests \ {r}
      PROVE  Writes(q)' /\ Positions(calls'[q]) /\ Fresh(calls[q])'
  <2> DEFINE e == calls[q]
  <2>1. /\ Positions(e) /\ Fresh(e) /\ calls'[q] = e /\ Spares(finals, finals', q)
    BY <1>1, <1>4, EndSpares DEF FinalsInv
  <2>2. Ranking(e) \/ Qualifying(e) => ~SameTask(c, e)
    BY <1>1 DEF Coordinated, InFlight, Answered, Ranking, Qualifying
  <2>3. ASSUME Ranking(e), NEW k \in Countries, Letter[k] = e.item.group
        PROVE  finals'[k].cur.rank = finals[k].cur.rank
    <3>1. ~FirstRank(r, k)
      BY <1>3, <2>2, <2>3 DEF FirstRank, SameTask, Ranking
    <3> QED
      BY <1>2, <3>1 DEF FirstMark
  <2>4. ASSUME Qualifying(e)
        PROVE  /\ finals'[e.third].cur.rank = finals[e.third].cur.rank
               /\ finals'[e.third].cur.qualifier = finals[e.third].cur.qualifier
    <3>1. e.third \in Countries /\ Letter[e.third] = e.item.group
          /\ finals[e.third].cur.rank = 3 /\ e.item \notin Rankings
      BY <2>1, <2>4, CallsApart DEF Positions, Fresh, Rank, Qualifying
    <3>2. ~FirstRank(r, e.third)
      BY <3>1, NullAssumption DEF FirstRank
    <3>3. ~FirstMark(r, e.third)
      BY <1>3, <2>2, <2>4, <3>1 DEF FirstMark, SameTask
    <3> QED
      BY <1>2, <3>1, <3>2, <3>3
  <2> QED
    BY <2>1, <2>3, <2>4, OtherFinals
<1>5. Writes(r)' /\ Positions(calls'[r]) /\ Fresh(calls[r])'
  <2>1. ~Ranking(calls'[r]) /\ ~Qualifying(calls'[r])
    BY <1>1 DEF Ranking, Qualifying
  <2>2. \A k \in Countries : finals'[k].by # r
    BY <1>1, NullAssumption DEF Rows!Publish, Rows!Committed
  <2> QED
    BY <2>1, <2>2 DEF Writes, Positions, Fresh, Marked, Checked
<1>6. ASSUME NEW k \in Countries
      PROVE  finals'[k].cur.qualifier # Null => finals'[k].cur.rank = 3
  BY <1>1, <1>2 DEF FirstRank, FirstMark, FinalsAreSound, Rank
<1>7. ASSUME NEW k \in Countries, NEW l \in Countries, Letter[k] = Letter[l],
             finals'[k].cur.rank = finals'[l].cur.rank, finals'[k].cur.rank # Null
      PROVE  k = l
  <2>1. \A n \in {k, l} : ~FirstRank(r, n) => finals'[n].cur.rank = finals[n].cur.rank
    BY <1>2 DEF FirstMark
  <2>2. CASE FirstRank(r, k) /\ FirstRank(r, l)
    BY <1>7, <2>2 DEF FirstRank, LastListed
  <2>3. CASE ~FirstRank(r, k) /\ ~FirstRank(r, l)
    BY <1>1, <1>7, <2>1, <2>3 DEF FinalsAreSound, Rank
  <2>4. ASSUME NEW n \in {k, l}, NEW m \in {k, l}, FirstRank(r, n), ~FirstRank(r, m)
        PROVE  FALSE
    <3>1. Ranking(c) /\ Letter[m] = c.item.group
      BY <1>7, <2>4 DEF FirstRank
    <3>2. finals[m].cur.rank = Null
      BY <1>7, <2>4, <3>1 DEF FinalsInv, Fresh, Rank
    <3> QED
      BY <1>7, <2>1, <2>4, <3>2
  <2> QED
    BY <2>2, <2>3, <2>4
<1>8. FinalsAreSound'
  BY <1>6, <1>7 DEF FinalsAreSound, Rank
<1>9. \A q \in Requests : Writes(q)' /\ Positions(calls'[q]) /\ Fresh(calls[q])'
  BY <1>4, <1>5
<1> QED
  BY <1>8, <1>9 DEF FinalsInv

LEMMA InitFinals == Init => FinalsInv
<1> SUFFICES ASSUME Init PROVE FinalsInv
  OBVIOUS
<1>1. \A r \in Requests : calls[r].pc = "idle"
  BY DEF Init, Idle
<1>2. \A k \in Countries : /\ finals[k].by = Null /\ finals[k].cur.rank = Null
                           /\ finals[k].cur.qualifier = Null
  BY DEF Init, Rows!Committed
<1>3. FinalsAreSound
  BY <1>2 DEF FinalsAreSound, Rank
<1>4. Coordinated
  BY <1>1 DEF Coordinated, InFlight
<1>5. ASSUME NEW r \in Requests
      PROVE  Writes(r) /\ Positions(calls[r]) /\ Fresh(calls[r])
  <2>1. ~Ranking(calls[r]) /\ ~Qualifying(calls[r]) /\ ~Checked(calls[r]) /\ ~Marked(calls[r])
    BY <1>1 DEF Ranking, Qualifying, Checked, Marked
  <2> QED
    BY <1>2, <2>1, NullAssumption DEF Writes, Positions, Fresh
<1> QED
  BY <1>3, <1>4, <1>5, InitLocal DEF FinalsInv

LEMMA StepFinals ==
  ListsStayInGroup /\ FinalsInv /\ [Next /\ Coordinated']_vars => FinalsInv'
<1> SUFFICES ASSUME ListsStayInGroup, FinalsInv, [Next /\ Coordinated']_vars
             PROVE  FinalsInv'
  OBVIOUS
<1>1. LocalInv /\ LocalInv'
  BY StepLocal DEF FinalsInv
<1>2. ASSUME UNCHANGED <<finals, calls>>
      PROVE  FinalsInv'
  BY <1>1, <1>2 DEF FinalsInv, FinalsAreSound, Writes, Fresh, Rank, Coordinated,
     InFlight, Answered
<1>3. ASSUME Next, Coordinated' PROVE FinalsInv'
  <2>1. ASSUME NEW g \in Groups, CompleteGroup(g) PROVE FinalsInv'
    BY <1>2, <2>1 DEF CompleteGroup
  <2>2. ASSUME NEW r \in Requests, BeginRankings(r) \/ BeginQualifier(r) PROVE FinalsInv'
    BY <1>1, <1>3, <2>2, BeginFinals
  <2>3. ASSUME NEW r \in Requests, Statement(r) PROVE FinalsInv'
    <3>1. CASE CountIncomplete(r)
      BY <1>1, <1>3, <3>1, CountIncompleteFinals
    <3>2. CASE CountRanked(r)
      BY <1>1, <1>3, <3>2, CountRankedFinals
    <3>3. CASE RankCountry(r)
      BY <1>1, <1>3, <3>3, RankCountryFinals
    <3>4. CASE QueryPicks(r) \/ QueryExtra(r)
      BY <1>1, <1>3, <3>4, QueryFinals
    <3>5. CASE ScoreUser(r) \/ PayBonus(r)
      BY <1>1, <1>3, <3>5, PayFinals
    <3>6. CASE FindThird(r)
      BY <1>1, <1>3, <3>6, FindThirdFinals
    <3>7. CASE CheckQualifier(r)
      BY <1>1, <1>3, <3>7, CheckQualifierFinals
    <3>8. CASE WriteQualifier(r)
      BY <1>1, <1>3, <3>8, WriteQualifierFinals
    <3>9. CASE Commit(r)
      BY <1>1, <1>3, <3>9, CommitFinals
    <3> QED
      BY <2>3, <3>1, <3>2, <3>3, <3>4, <3>5, <3>6, <3>7, <3>8, <3>9 DEF Statement
  <2>4. ASSUME NEW r \in Requests, Abort(r) \/ DeadlockAbort(r) PROVE FinalsInv'
    BY <1>1, <1>3, <2>4, RollBackFinals DEF Abort, DeadlockAbort
  <2>5. CASE UNCHANGED vars
    BY <1>2, <2>5 DEF vars
  <2> QED
    BY <1>3, <2>1, <2>2, <2>3, <2>4, <2>5 DEF Next, AllAnswered
<1>4. CASE UNCHANGED vars
  BY <1>2, <1>4 DEF vars
<1> QED
  BY <1>3, <1>4

LEMMA FinalsInvariance ==
  ASSUME ListsStayInGroup
  PROVE  CoordinatedSpec => []FinalsInv
<1>1. Init => FinalsInv
  BY InitFinals
<1>2. FinalsInv /\ [Next /\ Coordinated']_vars => FinalsInv'
  BY StepFinals
<1> QED
  BY <1>1, <1>2, PTL DEF CoordinatedSpec

\* What is committed changes at commits only.
LEMMA OnlyCommits ==
  ASSUME LocalInv, [Next]_vars
  PROVE  \/ \E r \in Requests : Commit(r)
         \/ /\ \A k \in Countries : finals'[k].cur = finals[k].cur
            /\ \A u \in Users : groupScore'[u].cur = groupScore[u].cur
<1> DEFINE Kept == /\ \A k \in Countries : finals'[k].cur = finals[k].cur
                   /\ \A u \in Users : groupScore'[u].cur = groupScore[u].cur
<1>1. DOMAIN finals = Countries /\ DOMAIN groupScore = Users
  BY DEF LocalInv, TypeOK
<1>2. ASSUME NEW r \in Requests, RollBack(r) PROVE Kept
  BY <1>1, <1>2 DEF RollBack, Rows!Discard, Rows!Committed
<1>3. ASSUME UNCHANGED <<finals, groupScore>> PROVE Kept
  BY <1>3
<1>4. ASSUME NEW r \in Requests, Statement(r), ~RollBack(r) PROVE Kept \/ Commit(r)
  <2>1. CASE CountIncomplete(r) \/ CountRanked(r) \/ FindThird(r) \/ CheckQualifier(r)
             \/ QueryPicks(r) \/ QueryExtra(r)
    BY <1>3, <1>4, <2>1 DEF CountIncomplete, CountRanked, FindThird, CheckQualifier,
       QueryPicks, QueryExtra
  <2>2. CASE RankCountry(r) \/ WriteQualifier(r)
    BY <1>1, <1>4, <2>2 DEF RankCountry, WriteQualifier, Rows!Write
  <2>3. CASE ScoreUser(r) \/ PayBonus(r)
    BY <1>1, <2>3 DEF ScoreUser, PayBonus, Pay, Rows!Write
  <2> QED
    BY <1>4, <2>1, <2>2, <2>3 DEF Statement
<1>5. ASSUME NEW r \in Requests, BeginRankings(r) \/ BeginQualifier(r) PROVE Kept
  BY <1>5 DEF BeginRankings, BeginQualifier
<1> QED
  BY <1>2, <1>3, <1>4, <1>5 DEF Next, CompleteGroup, Abort, DeadlockAbort, AllAnswered, vars

\* A step after which every row of finals is as it was, or has just been committed.
LEMMA RowsOfAStep ==
  ASSUME FinalsInv, ListsStayInGroup, [Next]_vars, NEW k \in Countries
  PROVE  \/ finals'[k].cur = finals[k].cur
         \/ \E r \in Requests : Commit(r) /\ (FirstRank(r, k) \/ FirstMark(r, k))
<1>1. LocalInv
  BY DEF FinalsInv
<1>2. ASSUME NEW r \in Requests, Commit(r)
      PROVE  finals'[k].cur = finals[k].cur \/ FirstRank(r, k) \/ FirstMark(r, k)
  BY <1>2, CommittedRows
<1> QED
  BY <1>1, <1>2, OnlyCommits

\* "Standings have already been finalized and cannot be updated again": no step of
\* coordinated calls changes a rank or a qualifier that is committed.  Each check
\* is made before the writes of its transaction; that no other call of the same
\* task commits in between is what the coordination is for.
THEOREM FinalsNeverChange ==
  ASSUME ListsStayInGroup
  PROVE  CoordinatedSpec => FinalsAreFinal
<1> DEFINE Kept(c) == /\ Rank(c) # Null => finals'[c].cur.rank = Rank(c)
                      /\ finals[c].cur.qualifier # Null =>
                           finals'[c].cur.qualifier = finals[c].cur.qualifier
<1>1. ASSUME FinalsInv, [Next /\ Coordinated']_vars, NEW c \in Countries
      PROVE  Kept(c)
  BY <1>1, RowsOfAStep DEF FirstRank, FirstMark, Rank
<1>2. FinalsInv /\ [Next /\ Coordinated']_vars => [\A c \in Countries : Kept(c)]_vars
  BY <1>1
<1> QED
  BY <1>2, FinalsInvariance, PTL DEF CoordinatedSpec, FinalsAreFinal

----------------------------------------------------------------------------
(***************************************************************************)
(* Groups are finalized whole                                              *)
(***************************************************************************)
RankedTogether ==
  \A k, l \in Countries : Letter[k] = Letter[l] /\ Rank(k) # Null => Rank(l) # Null

\* The list of a ranking that commits has no unknown code, and so it names, and
\* ranks, every country of its group.
LEMMA CommitRanksAll ==
  ASSUME FinalsInv, ListsStayInGroup, ListsAreWhole, NEW r \in Requests, Commit(r),
         Ranking(calls[r]), NEW l \in Countries, Letter[l] = calls[r].item.group
  PROVE  FirstRank(r, l)
<1> DEFINE c == calls[r]
<1>1. /\ c.item \in Rankings /\ ~Marked(c) /\ c.next = Len(c.item.order) + 1
      /\ c.item.order \in Seq(Countries \cup {Null})
      /\ (Ranking(c) /\ Listed(c, l)) => FirstRank(r, l) \/ FirstMark(r, l)
  BY CommittedRows DEF Ranking
<1>2. \A i \in 1 .. c.next - 1 : c.item.order[i] \in Countries
  BY DEF FinalsInv, Positions
<1>3. PICK i \in DOMAIN c.item.order : c.item.order[i] \in {l, Null}
  BY <1>1 DEF ListsAreWhole
<1>4. i \in 1 .. c.next - 1
  BY <1>1, <1>3
<1>5. c.item.order[i] = l
  BY <1>2, <1>3, <1>4, NullAssumption
<1>6. Listed(c, l)
  BY <1>4, <1>5 DEF Listed
<1> QED
  BY <1>1, <1>6 DEF FirstMark

LEMMA StepRanksTogether ==
  ASSUME FinalsInv, ListsStayInGroup, ListsAreWhole, RankedTogether, [Next]_vars
  PROVE  RankedTogether'
<1> SUFFICES ASSUME NEW k \in Countries, NEW l \in Countries, Letter[k] = Letter[l],
                    finals'[k].cur.rank # Null
             PROVE  finals'[l].cur.rank # Null
  BY DEF RankedTogether, Rank
<1>1. ASSUME NEW r, NEW n \in Countries, FirstRank(r, n)
      PROVE  finals'[n].cur.rank # Null
  BY <1>1, NullAssumption DEF FirstRank, LastListed
<1>2. CASE \E r \in Requests : Commit(r) /\ FirstRank(r, k)
  <2>1. PICK r \in Requests : Commit(r) /\ FirstRank(r, k)
    BY <1>2
  <2>2. Ranking(calls[r]) /\ Letter[l] = calls[r].item.group
    BY <2>1 DEF FirstRank
  <2> QED
    BY <1>1, <2>1, <2>2, CommitRanksAll
<1>3. CASE finals[k].cur.rank # Null
  <2>1. finals[l].cur.rank # Null
    BY <1>3 DEF RankedTogether, Rank
  <2> QED
    BY <1>1, <2>1, NullAssumption, RowsOfAStep DEF FirstMark
<1> QED
  BY <1>2, <1>3, NullAssumption, RowsOfAStep DEF FirstMark

\* Different ranks for all: as many ranks as countries.
LEMMA WholeGroups ==
  ASSUME FinalsAreSound, RankedTogether
  PROVE  GroupsAreFinalizedWhole
<1> SUFFICES ASSUME NEW g \in Groups
             PROVE  LET K     == {k \in Countries : Letter[k] = g}
                        ranks == {Rank(c) : c \in K}
                    IN  /\ Null \in ranks => ranks = {Null}
                        /\ Null \notin ranks => Cardinality(ranks) = Cardinality(K)
  BY DEF GroupsAreFinalizedWhole, FinalsAreSound
<1> DEFINE K     == {k \in Countries : Letter[k] = g}
           ranks == {Rank(c) : c \in K}
           f     == [k \in K |-> Rank(k)]
<1>1. Null \in ranks => ranks = {Null}
  BY DEF RankedTogether
<1>2. ASSUME Null \notin ranks
      PROVE  Cardinality(ranks) = Cardinality(K)
  <2>1. IsFiniteSet(K)
    BY FiniteAssumption, FS_Subset
  <2>2. \A k, l \in K : Rank(k) = Rank(l) => k = l
    BY <1>2 DEF FinalsAreSound
  <2>3. f \in Bijection(K, ranks)
    BY <2>2 DEF Bijection, Injection, Surjection, IsInjective
  <2> QED
    BY <2>1, <2>3, FS_Bijection DEF ExistsBijection
<1> QED
  BY <1>1, <1>2

\* A group is final as a whole or not at all: whatever coordinated calls commit,
\* the countries of a group all have a rank, every rank once, or none has, and only
\* a third-placed country is marked.  A ranking whose list is whole either ranks
\* every country of its group in one commit, or fails on an unknown code and the
\* ranks it has written are rolled back.
THEOREM GroupsStayWhole ==
  ASSUME ListsStayInGroup, ListsAreWhole
  PROVE  CoordinatedSpec => []GroupsAreFinalizedWhole
<1>1. Init => RankedTogether
  BY DEF Init, RankedTogether, Rank, Rows!Committed
<1>2. FinalsInv /\ RankedTogether /\ [Next /\ Coordinated']_vars => RankedTogether'
  BY StepRanksTogether DEF RankedTogether, Rank, vars
<1>3. FinalsInv /\ RankedTogether => GroupsAreFinalizedWhole
  BY WholeGroups DEF FinalsInv
<1> QED
  BY <1>1, <1>2, <1>3, FinalsInvariance, PTL DEF CoordinatedSpec

----------------------------------------------------------------------------
(***************************************************************************)
(* Group scores are what the finals make the predictions worth             *)
(***************************************************************************)
PicksOf(u) == {p \in GroupPicks : p.user = u}

\* What the committed finals make the picks, and the bonus of a group, worth.
PicksValue(u)   == Total([p \in PicksOf(u) |-> PickPoints(p)], PicksOf(u))
BonusesValue(u) == Total([g \in Groups |-> BonusPoints(g, u)], Groups)

ScoresAreWorth ==
  \A u \in Users : groupScore[u].cur = PicksValue(u) + BonusesValue(u)

LEMMA ScoreSums == GroupScoresExact <=> ScoresAreWorth
<1> SUFFICES ASSUME NEW u \in Users
             PROVE  /\ MapThenSumSet(PickPoints, PicksOf(u)) = PicksValue(u)
                    /\ MapThenSumSet(LAMBDA g : BonusPoints(g, u), Groups) = BonusesValue(u)
  BY DEF GroupScoresExact, ScoresAreWorth, PicksOf
<1>1. MapThenSumSet(PickPoints, PicksOf(u)) = PicksValue(u)
  BY Zenon DEF PicksValue, Total, MapThenSumSet, MapThenFoldSet
<1>2. MapThenSumSet(LAMBDA g : BonusPoints(g, u), Groups) = BonusesValue(u)
  BY Zenon DEF BonusesValue, Total, MapThenSumSet, MapThenFoldSet
<1> QED
  BY <1>1, <1>2

LEMMA PickPointsType ==
  ASSUME NEW p \in GroupPicks
  PROVE  PickPoints(p) \in Nat /\ PickPoints(p)' \in Nat /\ p.place \in 1 .. 4
<1>1. p.place \in 1 .. 4
  BY PickAssumption
<1>2. \A n \in 1 .. 4 : /\ 10 * (4 - n) \in Nat /\ 6 * (4 - n) \in Nat
                        /\ 3 * (4 - n) \in Nat /\ 1 * (4 - n) \in Nat
  OBVIOUS
<1> QED
  BY <1>1, <1>2 DEF PickPoints

LEMMA BonusPointsType ==
  ASSUME NEW g, NEW u
  PROVE  BonusPoints(g, u) \in Nat /\ BonusPoints(g, u)' \in Nat
  BY DEF BonusPoints

\* The position that counts is the last one, for the query as for the rank.
LEMMA RankInIsLast ==
  ASSUME NEW order \in Seq(Countries \cup {Null}), NEW k, NEW i \in DOMAIN order,
         order[i] = k, \A j \in DOMAIN order : order[j] = k => j <= i
  PROVE  RankIn(order, k) = i
<1> DEFINE S == {j \in DOMAIN order : order[j] = k}
<1>1. i \in S /\ S \subseteq Int /\ \A j \in S : i >= j
  OBVIOUS
<1>2. \A m \in S : (\A j \in S : m >= j) => m = i
  BY <1>1
<1> HIDE DEF S
<1>3. Max(S) = i
  BY <1>1, <1>2 DEF Max
<1> QED
  BY <1>3 DEF RankIn, S

\* The first rank of a country is worth what its points were computed to be.
LEMMA PickEarns ==
  ASSUME NEW p \in GroupPicks, NEW i \in Nat,
         finals'[p.country].cur.rank = i
  PROVE  PickPoints(p)' = BasePoints(i) * Multiplier(p.place)
<1>1. p.place \in {1, 2, 3, 4}
  BY PickPointsType
<1>2. PickPoints(p)' = CASE i = 1 -> 10 * (4 - p.place)
                         [] i = 2 -> 6 * (4 - p.place)
                         [] i = 3 -> 3 * (4 - p.place)
                         [] i = 4 -> 1 * (4 - p.place)
                         [] OTHER -> 0
  BY DEF PickPoints, Rank
<1>3. Multiplier(p.place) = 4 - p.place
  BY <1>1 DEF Multiplier
<1>4. 4 - p.place \in Nat
  BY <1>1
<1> HIDE DEF PickPoints
<1>5. \A n \in Nat : 0 * n = 0
  OBVIOUS
<1> QED
  BY <1>2, <1>3, <1>4, <1>5 DEF BasePoints

LEMMA NullIsNoRank == \A n \in Int : Null # n
  BY NullAssumption

\* When the ranking of a group commits, the picks of a user gain what it paid.
LEMMA RankingCommitScores ==
  ASSUME FinalsInv, PointsInv, ListsStayInGroup, PicksStayInGroup,
         NEW r \in Requests, Commit(r), calls[r].item \in Rankings, NEW u \in Users
  PROVE  /\ PicksValue(u)' = PicksValue(u) + Owed(calls[r].item, u)
         /\ BonusesValue(u)' = BonusesValue(u)
<1> DEFINE c == calls[r]
           item == c.item
           S == PicksOf(u)
           R == RankedPicks(item, u)
           old == [p \in S |-> PickPoints(p)]
           new == [p \in S |-> PickPoints(p)']
           paid == PicksWorth(item)
           gain == [p \in S |-> IF p \in R THEN paid[p] ELSE 0]
<1>1. /\ Ranking(c) /\ ~Marked(c) /\ c.next = Len(item.order) + 1
      /\ item.order \in Seq(Countries \cup {Null})
      /\ \A k \in Countries : IF Listed(c, k) THEN FirstRank(r, k) \/ FirstMark(r, k)
                              ELSE finals'[k].cur = finals[k].cur
  BY CommittedRows
<1>2. \A k \in Countries : IF Listed(c, k) THEN FirstRank(r, k)
                           ELSE finals'[k].cur = finals[k].cur
  BY <1>1 DEF FirstMark
<1>3. \A k \in Countries : finals'[k].cur.qualifier = finals[k].cur.qualifier
  BY <1>2 DEF FirstRank
<1>4. \A g \in Groups : BonusPoints(g, u)' = BonusPoints(g, u)
  BY <1>3 DEF BonusPoints
<1>5. BonusesValue(u)' = BonusesValue(u)
  BY <1>4 DEF BonusesValue
<1>6. IsFiniteSet(S) /\ S \subseteq GroupPicks /\ R \subseteq S
  BY FiniteAssumption, FS_Subset DEF PicksOf, RankedPicks
<1>7. \A p \in S : p.country \in Countries /\ p.letter = Letter[p.country]
  BY <1>6, PickAssumption DEF PicksStayInGroup
<1>8. \A p \in S : p \in R <=> Listed(c, p.country)
  <2>1. ASSUME NEW p \in S PROVE Listed(c, p.country) <=> p.country \in ToSet(item.order)
    BY <1>1 DEF Listed, ToSet
  <2>2. ASSUME NEW p \in S, Listed(c, p.country) PROVE p.letter = item.group
    BY <1>2, <1>7, <2>2 DEF FirstRank
  <2> QED
    BY <2>1, <2>2, <1>6 DEF RankedPicks, PicksOf
<1>9. ASSUME NEW p \in S
      PROVE  /\ new[p] = old[p] + gain[p]
             /\ old[p] \in Int /\ gain[p] \in Int /\ new[p] \in Int
  <2>1. PickPoints(p) \in Int /\ PickPoints(p)' \in Int
    BY <1>6, PickPointsType
  <2>2. CASE p \in R
    <3>1. FirstRank(r, p.country)
      BY <1>2, <1>7, <1>8, <2>2
    <3> DEFINE i == finals'[p.country].cur.rank
    <3>2. i \in DOMAIN item.order /\ item.order[i] = p.country
          /\ \A j \in DOMAIN item.order : item.order[j] = p.country => j <= i
      <4>1. DOMAIN item.order = 1 .. c.next - 1
        BY <1>1
      <4> QED
        BY <3>1, <4>1 DEF FirstRank, LastListed
    <3>3. RankIn(item.order, p.country) = i /\ i \in Nat
      BY <1>1, <3>2, RankInIsLast
    <3>4. PickPoints(p)' = BasePoints(i) * Multiplier(p.place)
      BY <1>6, <3>3, PickEarns
    <3>5. gain[p] = PickPoints(p)'
      BY <1>6, <2>2, <3>3, <3>4 DEF PicksWorth
    <3>6. PickPoints(p) = 0
      BY <3>1, NullIsNoRank DEF FirstRank, PickPoints, Rank
    <3> QED
      BY <2>1, <3>5, <3>6
  <2>3. CASE p \notin R
    <3>1. finals'[p.country].cur = finals[p.country].cur
      BY <1>2, <1>7, <1>8, <2>3
    <3>2. PickPoints(p)' = PickPoints(p)
      BY <3>1 DEF PickPoints, Rank
    <3> QED
      BY <2>1, <2>3, <3>2
  <2> QED
    BY <2>2, <2>3
<1>10. ASSUME NEW p \in S
       PROVE  PicksWorth(item)[p] \in Int
  <2>1. BasePoints(RankIn(item.order, p.country)) \in Nat
    BY DEF BasePoints
  <2>2. Multiplier(p.place) \in Nat
    BY DEF Multiplier
  <2>3. \A a, b \in Nat : a * b \in Int
    OBVIOUS
  <2> QED
    BY <1>6, <2>1, <2>2, <2>3 DEF PicksWorth
<1>11. PicksValue(u) = Total(old, S) /\ PicksValue(u)' = Total(new, S)
  BY DEF PicksValue, PicksOf
<1>12. Owed(item, u) = Total(paid, R)
  BY GroupPointsSum DEF Owed
<1>13. \A p \in S : gain[p] = IF p \in R THEN paid[p] ELSE 0
  OBVIOUS
<1> HIDE DEF S, R, old, new, gain, paid
<1>14. \A p \in S : paid[p] \in Int
  BY <1>10 DEF paid
<1>15. Total(new, S) = Total(old, S) + Total(gain, S)
  BY <1>6, <1>9, TotalPlus
<1>16. Total(gain, S) = Total(paid, R)
  BY <1>6, <1>13, <1>14, TotalPart
<1> QED
  BY <1>5, <1>11, <1>12, <1>15, <1>16

\* When the qualifier of a group commits, so does the bonus it paid for it.
LEMMA QualifierCommitScores ==
  ASSUME FinalsInv, PointsInv, ListsStayInGroup,
         NEW r \in Requests, Commit(r), calls[r].item \notin Rankings, NEW u \in Users
  PROVE  /\ PicksValue(u)' = PicksValue(u)
         /\ BonusesValue(u)' = BonusesValue(u) + Owed(calls[r].item, u)
<1> DEFINE c == calls[r]
           item == c.item
           k0 == c.third
           old == [g \in Groups |-> BonusPoints(g, u)]
           new == [g \in Groups |-> BonusPoints(g, u)']
<1>1. /\ Marked(c) /\ ~Ranking(c) /\ item \in Qualifiers
      /\ \A k \in Countries : IF k = k0 THEN FirstRank(r, k) \/ FirstMark(r, k)
                              ELSE finals'[k].cur = finals[k].cur
  BY CommittedRows
<1>2. k0 \in Countries /\ item.group \in Groups /\ item.advances \in BOOLEAN
  BY <1>1, CallsApart DEF FinalsInv, Positions, Marked, Checked
<1> PICK g0 \in Groups : g0 = item.group
  BY <1>2
<1>3. FirstMark(r, k0) /\ \A k \in Countries \ {k0} : finals'[k].cur = finals[k].cur
  BY <1>1, <1>2 DEF FirstRank
<1>4. \A k \in Countries : finals'[k].cur.rank = finals[k].cur.rank
  BY <1>3 DEF FirstMark
<1>5. ASSUME NEW p \in PicksOf(u) PROVE PickPoints(p)' = PickPoints(p)
  <2>1. p.country \in Countries
    BY PickAssumption DEF PicksOf
  <2> QED
    BY <1>4, <2>1 DEF PickPoints, Rank
<1>6. PicksValue(u)' = PicksValue(u)
  BY <1>5 DEF PicksValue, PicksOf
<1>7. ASSUME NEW g \in Groups \ {g0} PROVE BonusPoints(g, u)' = BonusPoints(g, u)
  BY <1>3, <1>7 DEF BonusPoints, FirstMark
<1>8. BonusPoints(g0, u) = 0
  <2>1. ASSUME NEW k \in Countries, Letter[k] = g0 PROVE finals[k].cur.qualifier = Null
    BY <1>2, <1>3, <2>1, NullIsNoRank DEF FirstMark, FinalsInv, FinalsAreSound, Rank
  <2>2. \A p \in GroupPicks : p.extra # Null
    BY PickAssumption, NullAssumption
  <2> QED
    BY <2>1, <2>2 DEF BonusPoints
<1>9. BonusPoints(g0, u)' = IF u \in Guessed(item) THEN 5 ELSE 0
  <2>1. Letter[k0] = g0 /\ finals'[k0].cur.qualifier = item.advances
    BY <1>3 DEF FirstMark
  <2>2. ASSUME NEW k \in Countries, Letter[k] = g0, k # k0
        PROVE  finals'[k].cur.qualifier = Null
    BY <1>2, <1>3, <2>2, NullIsNoRank DEF FirstMark, FinalsInv, FinalsAreSound, Rank
  <2>3. \A p \in GroupPicks : p.extra # Null
    BY PickAssumption, NullAssumption
  <2>4. (\E k \in Countries, p \in GroupPicks :
           /\ Letter[k] = g0 /\ p.letter = g0 /\ p.user = u
           /\ finals'[k].cur.qualifier = p.extra)
        <=> u \in Guessed(item)
    BY <1>2, <2>1, <2>2, <2>3 DEF Guessed
  <2> QED
    BY <2>4 DEF BonusPoints
<1>10. Owed(item, u) = IF u \in Guessed(item) THEN 5 ELSE 0
  BY DEF Owed, QualifierBonus
<1>11. /\ \A g \in Groups : old[g] \in Int /\ new[g] \in Int
       /\ \A g \in Groups \ {g0} : old[g] = new[g]
       /\ old[g0] = 0 /\ new[g0] = Owed(item, u)
  BY <1>2, <1>7, <1>8, <1>9, <1>10, BonusPointsType
<1>12. BonusesValue(u) = Total(old, Groups) /\ BonusesValue(u)' = Total(new, Groups)
  BY DEF BonusesValue
<1> HIDE DEF old, new
<1>13. Total(new, Groups) = Total(old, Groups) + (new[g0] - old[g0])
  BY <1>2, <1>11, FiniteAssumption, TotalUpdate
<1>14. new[g0] - old[g0] = Owed(item, u)
  <2>1. new[g0] \in Int
    BY <1>2, <1>11
  <2> QED
    BY <1>11, <2>1
<1> QED
  BY <1>6, <1>12, <1>13, <1>14

LEMMA ValueType ==
  ASSUME NEW u \in Users
  PROVE  PicksValue(u) \in Int /\ BonusesValue(u) \in Int
<1> DEFINE S == PicksOf(u)
           w == [p \in S |-> PickPoints(p)]
           b == [g \in Groups |-> BonusPoints(g, u)]
<1>1. IsFiniteSet(S) /\ \A p \in S : w[p] \in Int
  BY FiniteAssumption, FS_Subset, PickPointsType DEF PicksOf
<1>2. \A g \in Groups : b[g] \in Int
  BY BonusPointsType
<1>3. PicksValue(u) = Total(w, S) /\ BonusesValue(u) = Total(b, Groups)
  BY DEF PicksValue, BonusesValue
<1> HIDE DEF S, w, b
<1> QED
  BY <1>1, <1>2, <1>3, FiniteAssumption, TotalRemove

LEMMA StepScores ==
  ASSUME FinalsInv, PointsInv, ListsStayInGroup, PicksStayInGroup, ScoresAreWorth,
         [Next]_vars
  PROVE  ScoresAreWorth'
<1> SUFFICES ASSUME NEW u \in Users
             PROVE  groupScore'[u].cur = PicksValue(u)' + BonusesValue(u)'
  BY DEF ScoresAreWorth
<1>1. groupScore[u].cur = PicksValue(u) + BonusesValue(u)
  BY DEF ScoresAreWorth
<1>2. CASE \E r \in Requests : Commit(r)
  <2>1. PICK r \in Requests : Commit(r)
    BY <1>2
  <2>2. groupScore'[u].cur = groupScore[u].cur + Owed(calls[r].item, u)
    BY <2>1, PaidAtCommit
  <2>3. Owed(calls[r].item, u) \in Int /\ PicksValue(u) \in Int /\ BonusesValue(u) \in Int
    BY OwedType, ValueType
  <2>4. CASE calls[r].item \in Rankings
    BY <1>1, <2>1, <2>2, <2>3, <2>4, RankingCommitScores
  <2>5. CASE calls[r].item \notin Rankings
    BY <1>1, <2>1, <2>2, <2>3, <2>5, QualifierCommitScores
  <2> QED
    BY <2>4, <2>5
<1>3. CASE ~\E r \in Requests : Commit(r)
  <2>1. /\ \A k \in Countries : finals'[k].cur = finals[k].cur
        /\ groupScore'[u].cur = groupScore[u].cur
    BY <1>3, OnlyCommits DEF FinalsInv
  <2>2. ASSUME NEW p \in PicksOf(u) PROVE PickPoints(p)' = PickPoints(p)
    <3>1. p.country \in Countries
      BY PickAssumption DEF PicksOf
    <3> QED
      BY <2>1, <3>1 DEF PickPoints, Rank
  <2>3. \A g \in Groups : BonusPoints(g, u)' = BonusPoints(g, u)
    BY <2>1 DEF BonusPoints
  <2>4. PicksValue(u)' = PicksValue(u) /\ BonusesValue(u)' = BonusesValue(u)
    BY <2>2, <2>3 DEF PicksValue, BonusesValue, PicksOf
  <2> QED
    BY <1>1, <2>1, <2>4
<1> QED
  BY <1>2, <1>3

LEMMA InitScores == Init => ScoresAreWorth
<1> SUFFICES ASSUME Init, NEW u \in Users
             PROVE  groupScore[u].cur = PicksValue(u) + BonusesValue(u)
  BY DEF ScoresAreWorth
<1> DEFINE S == PicksOf(u)
           w == [p \in S |-> PickPoints(p)]
           b == [g \in Groups |-> BonusPoints(g, u)]
<1>1. groupScore[u].cur = 0
  BY DEF Init, Rows!Committed
<1>2. \A p \in S : p.country \in Countries /\ p.extra # Null
  BY PickAssumption, NullAssumption DEF PicksOf
<1>3. \A k \in Countries : Rank(k) = Null /\ finals[k].cur.qualifier = Null
  BY DEF Init, Rank, Rows!Committed
<1>4. IsFiniteSet(S) /\ \A p \in S : w[p] = 0
  BY <1>2, <1>3, NullIsNoRank, FiniteAssumption, FS_Subset DEF PickPoints, PicksOf
<1>5. \A g \in Groups : b[g] = 0
  BY <1>2, <1>3 DEF BonusPoints, PicksOf
<1>6. PicksValue(u) = Total(w, S) /\ BonusesValue(u) = Total(b, Groups)
  BY DEF PicksValue, BonusesValue
<1> HIDE DEF S, w, b
<1>7. Total(w, S) = 0 /\ Total(b, Groups) = 0
  BY <1>4, <1>5, FiniteAssumption, TotalZero
<1> QED
  BY <1>1, <1>6, <1>7

\* The points of group predictions, "calculated on a once per contest basis", are
\* right: at every moment the group score of a user is what the committed ranks and
\* qualifiers make all the picks of the user worth, nothing paid twice and nothing
\* missing.  A commit publishes the ranks and the points for them together; a pick
\* is worth something only from its country's first rank, and that rank is final.
THEOREM GroupScoresStayExact ==
  ASSUME ListsStayInGroup, PicksStayInGroup
  PROVE  CoordinatedSpec => []GroupScoresExact
<1> DEFINE Inv == FinalsInv /\ PointsInv /\ ScoresAreWorth
<1>1. Init => Inv
  BY InitFinals, InitPays, InitScores
<1>2. Inv /\ [Next /\ Coordinated']_vars => Inv'
  BY StepFinals, StepPays, StepScores
<1>3. Inv => GroupScoresExact
  BY ScoreSums
<1> QED
  BY <1>1, <1>2, <1>3, PTL DEF CoordinatedSpec
=============================================================================
