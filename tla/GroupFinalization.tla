------------------------- MODULE GroupFinalization -------------------------
(***************************************************************************)
(* ContestRepository.FinalizeGroupRankings and FinalizeThirdPlaceQualifier *)
(* statement by statement, for any number of calls in progress at once.    *)
(* Both check inside their transaction that the group is not final yet,    *)
(* write group_standings, and add the points the users' group predictions  *)
(* are worth to contest_standings.group_score.                             *)
(***************************************************************************)
EXTENDS ScoringRules, FiniteSets, Sequences, SequencesExt

CONSTANTS
  Groups,       \* group letters
  Countries,    \* countries of the contest
  Letter,       \* column group_standings.letter by country
  Users,
  GroupPicks,   \* rows of group_picks: [user, country, letter, place, extra]
  Rankings,     \* [group, order]: the calls of FinalizeGroupRankings there are;
                \* a code the countries table lacks is Null
  Qualifiers,   \* [group, advances]: the calls of FinalizeThirdPlaceQualifier
  Requests      \* each call is made at most once

ASSUME NullAssumption ==
  Null \notin Groups \cup Countries \cup Requests \cup Int \cup BOOLEAN

ASSUME LetterAssumption == Letter \in [Countries -> Groups]

ASSUME PickAssumption ==
  GroupPicks \subseteq
    [user : Users, country : Countries, letter : Groups, place : 1 .. 4,
     extra : BOOLEAN]

ASSUME CallAssumption ==
  /\ Rankings \subseteq [group : Groups, order : Seq(Countries \cup {Null})]
  /\ Qualifiers \subseteq [group : Groups, advances : BOOLEAN]

ASSUME FiniteAssumption ==
  /\ IsFiniteSet(Users) /\ IsFiniteSet(GroupPicks)
  /\ IsFiniteSet(Groups) /\ IsFiniteSet(Countries) /\ IsFiniteSet(Requests)

VARIABLES
  unplayed,    \* groups with a match that has no result yet
  finals,      \* columns rank and is_third_place_qualifier by country
  groupScore,  \* contest_standings.group_score by user; 0 without a row
  calls

vars == <<unplayed, finals, groupScore, calls>>

Rows == INSTANCE RowVersions

FinalRow == [rank : (Nat \ {0}) \cup {Null}, qualifier : BOOLEAN \cup {Null}]

\* `item` is the entry of Rankings or Qualifiers, `next` the position of the next
\* country to rank, `unpaid` the users not paid yet, `third` the third-placed.
Call ==
  [pc : {"idle", "countIncomplete", "countRanked", "rank", "queryPicks", "score",
         "findThird", "checkQualifier", "writeQualifier", "queryExtra", "bonus",
         "commit", "done", "failed"},
   item : Rankings \cup Qualifiers \cup {Null},
   next : Nat,
   unpaid : Seq(Users),
   third : Countries \cup {Null}]

Idle == [pc |-> "idle", item |-> Null, next |-> 1, unpaid |-> <<>>, third |-> Null]

Answered(r) == calls[r].pc \in {"done", "failed"}
InFlight(r) == ~Answered(r) /\ calls[r].pc # "idle"

TypeOK ==
  /\ unplayed \subseteq Groups
  /\ finals \in [Countries -> Rows!RowVersion(FinalRow, Requests)]
  /\ groupScore \in [Users -> Rows!RowVersion(Nat, Requests)]
  /\ calls \in [Requests -> Call]

Init ==
  /\ unplayed = Groups
  /\ finals = [c \in Countries |->
                 Rows!Committed([rank |-> Null, qualifier |-> Null])]
  /\ groupScore = [u \in Users |-> Rows!Committed(0)]
  /\ calls = [r \in Requests |-> Idle]

GoTo(r, pc) == calls' = [calls EXCEPT ![r].pc = pc]

\* Mutant: a failed transaction starts again from its checks.
RollBackAndRetry(r) ==
  /\ finals' = Rows!Discard(finals, r)
  /\ groupScore' = Rows!Discard(groupScore, r)
  /\ calls' = [calls EXCEPT ![r] =
        [Idle EXCEPT !.item = calls[r].item,
                     !.pc = IF calls[r].item \in Rankings THEN "countIncomplete"
                            ELSE "findThird"]]
  /\ UNCHANGED unplayed

RollBack(r) ==
  /\ finals' = Rows!Discard(finals, r)
  /\ groupScore' = Rows!Discard(groupScore, r)
  /\ calls' = [calls EXCEPT ![r] = [Idle EXCEPT !.pc = "failed"]]
  /\ UNCHANGED unplayed

\* The last match of a group is completed (UpdateMatch, in MatchRecording).
CompleteGroup(g) ==
  /\ g \in unplayed
  /\ unplayed' = unplayed \ {g}
  /\ UNCHANGED <<finals, groupScore, calls>>

(***************************************************************************)
(* Row locks, as in MatchRecording                                         *)
(***************************************************************************)
Code(c) == c.item.order[c.next]

Awaited(r) ==
  LET c == calls[r]
  IN  CASE c.pc = "rank" /\ Code(c) \in Countries -> {finals[Code(c)].by}
        [] c.pc = "writeQualifier"                -> {finals[c.third].by}
        [] c.pc \in {"score", "bonus"}            -> {groupScore[Head(c.unpaid)].by}
        [] OTHER                                  -> {}

At(r, pc) == calls[r].pc = pc /\ Awaited(r) \subseteq {Null, r}

WaitsFor(r, s) == r # s /\ s \in Awaited(r)

Deadlocked(r) ==
  \E S \in SUBSET Requests :
    /\ r \in S
    /\ \A q \in S : /\ \E s \in S : WaitsFor(q, s)
                    /\ \E s \in S : WaitsFor(s, q)

----------------------------------------------------------------------------
(***************************************************************************)
(* FinalizeGroupRankings                                                   *)
(***************************************************************************)
BeginRankings(r) ==
  /\ calls[r].pc = "idle"
  /\ \E k \in Rankings :
       calls' = [calls EXCEPT ![r].pc = "countIncomplete", ![r].item = k]
  /\ UNCHANGED <<unplayed, finals, groupScore>>

CountIncomplete(r) ==
  /\ At(r, "countIncomplete")
  /\ IF calls[r].item.group \in unplayed
     THEN RollBack(r)
     ELSE GoTo(r, "countRanked") /\ UNCHANGED <<unplayed, finals, groupScore>>

AfterRank(c) == IF c.next < Len(c.item.order) THEN "rank" ELSE "queryPicks"

\* Mutant: the group may be final already.
CountRankedUnchecked(r) ==
  /\ At(r, "countRanked")
  /\ GoTo(r, IF calls[r].item.order = <<>> THEN "queryPicks" ELSE "rank")
  /\ UNCHANGED <<unplayed, finals, groupScore>>

CountRanked(r) ==
  /\ At(r, "countRanked")
  /\ LET item == calls[r].item
     IN  IF \E c \in Countries : /\ Letter[c] = item.group
                                 /\ Rows!Read(finals[c], r).rank # Null
         THEN RollBack(r)
         ELSE /\ GoTo(r, IF item.order = <<>> THEN "queryPicks" ELSE "rank")
              /\ UNCHANGED <<unplayed, finals, groupScore>>

\* Mutants: ranks count from zero; an unknown code is skipped.
RankCountryFromZero(r) ==
  /\ At(r, "rank")
  /\ LET c == calls[r]
     IN  IF Code(c) = Null
         THEN RollBack(r)
         ELSE /\ finals' = [finals EXCEPT
                   ![Code(c)] = Rows!Write(@, r,
                      [Rows!Read(@, r) EXCEPT !.rank = c.next - 1])]
              /\ calls' = [calls EXCEPT ![r].pc = AfterRank(c), ![r].next = @ + 1]
              /\ UNCHANGED <<unplayed, groupScore>>
RankCountrySkipping(r) ==
  /\ At(r, "rank")
  /\ LET c == calls[r]
     IN  /\ finals' =
              IF Code(c) = Null THEN finals
              ELSE [finals EXCEPT
                      ![Code(c)] = Rows!Write(@, r,
                         [Rows!Read(@, r) EXCEPT !.rank = c.next])]
         /\ calls' = [calls EXCEPT ![r].pc = AfterRank(c), ![r].next = @ + 1]
         /\ UNCHANGED <<unplayed, groupScore>>

\* One country of the list; an unknown code undoes the ranks written before it.
RankCountry(r) ==
  /\ At(r, "rank")
  /\ LET c == calls[r]
     IN  IF Code(c) = Null
         THEN RollBack(r)
         ELSE /\ finals' = [finals EXCEPT
                   ![Code(c)] = Rows!Write(@, r,
                      [Rows!Read(@, r) EXCEPT !.rank = c.next])]
              /\ calls' = [calls EXCEPT ![r].pc = AfterRank(c), ![r].next = @ + 1]
              /\ UNCHANGED <<unplayed, groupScore>>

\* rankMap: the position of a country in the list (the last one, if repeated).
RankIn(order, country) == Max({i \in DOMAIN order : order[i] = country})

\* The picks of the group for countries that are in the list.
RankedPicks(item, user) ==
  {p \in GroupPicks : /\ p.user = user /\ p.letter = item.group
                      /\ p.country \in ToSet(item.order)}

GroupPoints(item, user) ==
  MapThenSumSet(
    LAMBDA p : BasePoints(RankIn(item.order, p.country)) * Multiplier(p.place),
    RankedPicks(item, user))

AfterPay(unpaid, pc) == IF unpaid = <<>> THEN "commit" ELSE pc

\* The users are paid in the order Go ranges over a map: any order.
QueryPicks(r) ==
  /\ At(r, "queryPicks")
  /\ \E order \in SetToSeqs({u \in Users : RankedPicks(calls[r].item, u) # {}}) :
       calls' = [calls EXCEPT ![r].pc = AfterPay(order, "score"),
                              ![r].unpaid = order]
  /\ UNCHANGED <<unplayed, finals, groupScore>>

\* Mutant: the upsert sets the score instead of adding to it.
PayWithoutAdd(r, pc, points) ==
  LET unpaid == calls[r].unpaid
  IN  /\ At(r, pc)
      /\ groupScore' = [groupScore EXCEPT ![Head(unpaid)] = Rows!Write(@, r, points)]
      /\ calls' = [calls EXCEPT ![r].pc = AfterPay(Tail(unpaid), pc),
                                ![r].unpaid = Tail(unpaid)]
      /\ UNCHANGED <<unplayed, finals>>

\* One upsert that adds `points` to the score of the next user.
Pay(r, pc, points) ==
  LET unpaid == calls[r].unpaid
  IN  /\ At(r, pc)
      /\ groupScore' = [groupScore EXCEPT
           ![Head(unpaid)] = Rows!Write(@, r, Rows!Read(@, r) + points)]
      /\ calls' = [calls EXCEPT ![r].pc = AfterPay(Tail(unpaid), pc),
                                ![r].unpaid = Tail(unpaid)]
      /\ UNCHANGED <<unplayed, finals>>

ScoreUser(r) ==
  calls[r].pc = "score" /\
  Pay(r, "score", GroupPoints(calls[r].item, Head(calls[r].unpaid)))

----------------------------------------------------------------------------
(***************************************************************************)
(* FinalizeThirdPlaceQualifier                                             *)
(***************************************************************************)
BeginQualifier(r) ==
  /\ calls[r].pc = "idle"
  /\ \E k \in Qualifiers :
       calls' = [calls EXCEPT ![r].pc = "findThird", ![r].item = k]
  /\ UNCHANGED <<unplayed, finals, groupScore>>

Third(r, g) == {c \in Countries : Letter[c] = g /\ Rows!Read(finals[c], r).rank = 3}

FindThird(r) ==
  /\ At(r, "findThird")
  /\ LET third == Third(r, calls[r].item.group)
     IN  \/ third = {} /\ RollBack(r)
         \/ /\ \E c \in third :
                 calls' = [calls EXCEPT ![r].pc = "checkQualifier", ![r].third = c]
            /\ UNCHANGED <<unplayed, finals, groupScore>>

CheckQualifier(r) ==
  /\ At(r, "checkQualifier")
  /\ IF Rows!Read(finals[calls[r].third], r).qualifier # Null
     THEN RollBack(r)
     ELSE GoTo(r, "writeQualifier") /\ UNCHANGED <<unplayed, finals, groupScore>>

WriteQualifier(r) ==
  /\ At(r, "writeQualifier")
  /\ LET c == calls[r]
     IN  finals' = [finals EXCEPT
           ![c.third] = Rows!Write(@, r,
              [Rows!Read(@, r) EXCEPT !.qualifier = c.item.advances])]
  /\ GoTo(r, "queryExtra")
  /\ UNCHANGED <<unplayed, groupScore>>

\* SELECT DISTINCT (user, extra_qualifier) for the group, keeping the hits.
Guessed(item) ==
  {u \in Users : \E p \in GroupPicks :
     p.user = u /\ p.letter = item.group /\ p.extra = item.advances}

QueryExtra(r) ==
  /\ At(r, "queryExtra")
  /\ \E order \in SetToSeqs(Guessed(calls[r].item)) :
       calls' = [calls EXCEPT ![r].pc = AfterPay(order, "bonus"),
                              ![r].unpaid = order]
  /\ UNCHANGED <<unplayed, finals, groupScore>>

PayBonus(r) == Pay(r, "bonus", QualifierBonus)

----------------------------------------------------------------------------
Commit(r) ==
  /\ At(r, "commit")
  /\ finals' = Rows!Publish(finals, r)
  /\ groupScore' = Rows!Publish(groupScore, r)
  /\ GoTo(r, "done")
  /\ UNCHANGED unplayed

\* The deferred Rollback after a cancelled context, a broken connection or a stop
\* of the server; and of the transaction PostgreSQL picks to end a deadlock.
Abort(r) == InFlight(r) /\ RollBack(r)
DeadlockAbort(r) == Deadlocked(r) /\ RollBack(r)

Statement(r) ==
  \/ CountIncomplete(r) \/ CountRanked(r) \/ RankCountry(r) \/ QueryPicks(r)
  \/ ScoreUser(r)
  \/ FindThird(r) \/ CheckQualifier(r) \/ WriteQualifier(r) \/ QueryExtra(r)
  \/ PayBonus(r)
  \/ Commit(r)

AllAnswered == (\A r \in Requests : Answered(r)) /\ UNCHANGED vars

Next ==
  \/ \E g \in Groups : CompleteGroup(g)
  \/ \E r \in Requests :
       \/ BeginRankings(r) \/ BeginQualifier(r)
       \/ Statement(r) \/ Abort(r) \/ DeadlockAbort(r)
  \/ AllAnswered

Fairness ==
  \A r \in Requests : WF_vars(Statement(r) \/ DeadlockAbort(r))

Spec == Init /\ [][Next]_vars
FairSpec == Spec /\ Fairness

\* No two calls that finalize the same thing of one group overlap.
SameTask(c, d) ==
  /\ c.item.group = d.item.group
  /\ (c.item \in Rankings) = (d.item \in Rankings)

Coordinated ==
  \A r, s \in Requests :
    r # s /\ InFlight(r) /\ InFlight(s) => ~SameTask(calls[r], calls[s])

CoordinatedSpec == Init /\ [][Next /\ Coordinated']_vars

----------------------------------------------------------------------------
(***************************************************************************)
(* What the handlers leave to their callers: the lists of an administrator *)
(* name countries of the group only, and all of them unless a code is      *)
(* unknown; the predictions of users are filed under the group of the      *)
(* country.                                                                *)
(***************************************************************************)
ListsStayInGroup ==
  \A k \in Rankings : \A i \in DOMAIN k.order :
    k.order[i] # Null => Letter[k.order[i]] = k.group

ListsAreWhole ==
  \A k \in Rankings : \A c \in Countries :
    Letter[c] = k.group => \E i \in DOMAIN k.order : k.order[i] \in {c, Null}

PicksStayInGroup == \A p \in GroupPicks : p.letter = Letter[p.country]

----------------------------------------------------------------------------
(***************************************************************************)
(* Properties                                                              *)
(***************************************************************************)
Rank(c) == finals[c].cur.rank

\* What the committed ranks and qualifiers make the picks of a user worth.
PickPoints(p) ==
  CASE Rank(p.country) = 1 -> 10 * (4 - p.place)
    [] Rank(p.country) = 2 -> 6 * (4 - p.place)
    [] Rank(p.country) = 3 -> 3 * (4 - p.place)
    [] Rank(p.country) = 4 -> 1 * (4 - p.place)
    [] OTHER               -> 0

BonusPoints(g, u) ==
  IF \E c \in Countries, p \in GroupPicks :
       /\ Letter[c] = g /\ p.letter = g /\ p.user = u
       /\ finals[c].cur.qualifier = p.extra
  THEN 5 ELSE 0

\* The group score of every user is what the picks are worth under the final
\* ranks and qualifiers: points are "calculated on a once per contest basis".
GroupScoresExact ==
  \A u \in Users :
    groupScore[u].cur =
      MapThenSumSet(PickPoints, {p \in GroupPicks : p.user = u})
      + MapThenSumSet(LAMBDA g : BonusPoints(g, u), Groups)

\* A group is ranked as a whole or not at all, its ranks are all different, and
\* only its third-placed country is marked as a qualifier or not.
GroupsAreFinalizedWhole ==
  \A g \in Groups :
    LET ranks == {Rank(c) : c \in {k \in Countries : Letter[k] = g}}
    IN  /\ Null \in ranks => ranks = {Null}
        /\ Null \notin ranks =>
             Cardinality(ranks) = Cardinality({k \in Countries : Letter[k] = g})
        /\ \A c \in Countries :
             finals[c].cur.qualifier # Null => Rank(c) = 3

\* "standings have already been finalized and cannot be updated again": a final
\* rank, and a final qualifier, never change.
FinalsAreFinal ==
  [][\A c \in Countries :
       /\ Rank(c) # Null => finals'[c].cur.rank = Rank(c)
       /\ finals[c].cur.qualifier # Null =>
            finals'[c].cur.qualifier = finals[c].cur.qualifier]_vars

\* Whatever runs together, the points of every committed call arrive in full.
PaidBy(r, u) ==
  LET item == calls[r].item
  IN  IF calls[r].pc # "done" THEN 0
      ELSE IF item \in Rankings THEN GroupPoints(item, u)
      ELSE IF u \in Guessed(item) THEN QualifierBonus
      ELSE 0

PointsAreNotLost ==
  \A u \in Users :
    groupScore[u].cur = MapThenSumSet(LAMBDA r : PaidBy(r, u), Requests)

\* A call that has begun is answered, deadlocks over users included.
Termination == \A r \in Requests : InFlight(r) ~> Answered(r)
=============================================================================
