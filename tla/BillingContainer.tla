--------------------------- MODULE BillingContainer ---------------------------
(***************************************************************************)
(* BillingServer's BillingContainer: what an account, one of its campaigns *)
(* and the campaign's groups (CCGs) have spent, day by day, and            *)
(* confirm_bid(), which confirms a bid on the three levels one after the   *)
(* other and takes back what a later level refuses.  Each level has its    *)
(* own lock; a step is one critical section.  Amounts are in the units of  *)
(* the decimal type, of which Scale make 1; one count stands for the       *)
(* impressions and the clicks, which the code treats alike.  Meanwhile     *)
(* stat() replaces the amounts of old days by those of the database.       *)
(***************************************************************************)
EXTENDS Sums

CONSTANTS Threads,    \* calls of confirm_bid() at a time
          Ccgs,       \* the groups of the campaign
          LastDay,    \* days are 1 .. LastDay
          Scale,      \* units of the decimal type in 1
          Budget,     \* the account's
          Limits,     \* of the campaign and of each group
          Bids,       \* the requests
          EndDay,     \* use_source_end_date: stat() replaces the days before it
          Coef,       \* limit_coef_, this server's share of what the database says
          Sources,    \* what stat() may find in the database
          MaxBids,    \* bound: calls of confirm_bid()
          MaxStats    \* bound: calls of stat()

Days == 1 .. LastDay
Entities == {"account", "campaign"} \cup Ccgs
NoLimit == -1

VecType == [amt : Int, imps : Int]
LimitType == [budget : Nat \cup {NoLimit}, daily : Int, imps : Int, dailyImps : Int,
              endDay : Int]
BidType == [known : BOOLEAN, forced : BOOLEAN, day : Days, ccg : Ccgs,
            acc : Int, amt : Int, imps : Int]

\* What the database says of one entity: prevDay is the last of the days summed
\* up in prev, sixty days back, or 0 when there is nothing to sum up.
SourceOk(src) ==
  /\ src.prevDay \in 0 .. LastDay /\ src.prev \in VecType
  /\ src.prevDay = 0 => src.prev = [amt |-> 0, imps |-> 0]
  /\ DOMAIN src.days \subseteq Days
  /\ \A d \in DOMAIN src.days : src.days[d] \in VecType /\ src.prevDay < d
  /\ src.prevDay < EndDay => \A b \in Bids : src.prevDay <= b.day

ASSUME ContainerAssumption ==
  /\ IsFiniteSet(Threads) /\ IsFiniteSet(Ccgs) /\ IsFiniteSet(Bids)
  /\ {"account", "campaign"} \cap Ccgs = {}
  /\ LastDay \in Nat /\ Scale \in Nat \ {0} /\ Budget \in Nat
  /\ Limits \in [Entities \ {"account"} -> LimitType]
  /\ Bids \subseteq BidType
  /\ \A b \in Bids : b.acc * b.amt >= 0 /\ (b.forced => b.known)
  /\ EndDay \in Days /\ Coef \in 0 .. Scale
  /\ \A s \in Sources : \A e \in Entities :
       s[e].there \in BOOLEAN /\ (s[e].there => SourceOk(s[e]))
  /\ MaxBids \in Nat /\ MaxStats \in Nat

VARIABLES
  holder,  \* the days of each entity: amounts of the day and of all before it
  pc,      \* where each call is
  bid,     \* its request
  conf,    \* what each level has confirmed
  avail,   \* what each level is asked to confirm
  rev,     \* what each level has to take back
  res,     \* no limit reached so far
  answer,  \* the last answer to each caller: what is left of the bid, and the result
  rated,   \* impressions in the rate amounts, which choose the groups to serve
  stat,    \* what stat() found; the level it replaces, the entities of it that are
           \* to do, and those of them that were not counted yet at the last portion
  paid,    \* what the answers say was confirmed (history)
  over,    \* what was added to each entity past its limits (history)
  calls, stats

vars == <<holder, pc, bid, conf, avail, rev, res, answer, rated, stat, paid, over,
          calls, stats>>
counters == <<paid, over, calls, stats>>

-----------------------------------------------------------------------------
(* Decimals; all arguments here have one sign. *)

Abs(x) == IF x < 0 THEN -x ELSE x

DivDec(x, y) == (Abs(x) * Scale) \div Abs(y)

\* RevenueDecimal::mul with DMR_FLOOR
MulDec(share, x) ==
  IF x < 0 THEN -((share * (-x)) \div Scale) ELSE (share * x) \div Scale

-----------------------------------------------------------------------------
(* AmountHolder *)

Vec(a, i) == [amt |-> a, imps |-> i]
Zero == Vec(0, 0)
Plus(u, v) == Vec(u.amt + v.amt, u.imps + v.imps)
Minus(u, v) == Vec(u.amt - v.amt, u.imps - v.imps)

NoDay == [there |-> FALSE, before |-> Zero, now |-> Zero]
NoDays == [d \in Days |-> NoDay]

There(h) == {d \in Days : h[d].there}

\* get_total_*(): from the last day.
Total(h) ==
  IF There(h) = {} THEN Zero
  ELSE LET d == Max(There(h)) IN Plus(h[d].before, h[d].now)

\* add_amount(): days may come in any order.
AddAmount(h, day, v) ==
  [d \in Days |->
     IF d = day
     THEN [there |-> TRUE, now |-> Plus(h[d].now, v),
           before |-> IF h[d].there \/ \A e \in There(h) : e >= d THEN h[d].before
                      ELSE LET p == h[Max({e \in There(h) : e < d})]
                           IN  Plus(p.before, p.now)]
     ELSE IF d > day /\ h[d].there THEN [h[d] EXCEPT !.before = Plus(@, v)]
     ELSE h[d]]

-----------------------------------------------------------------------------
(* DeliveryLimitsChecker::check_ *)

Below(n, limit) == limit = NoLimit \/ n < limit

\* A budget that is not there is read as 0.
BudgetOf(l) == IF l.budget = NoLimit THEN 0 ELSE l.budget

\* The budget of the day when the rest is spread over the remaining days.
DynamicBudget(h, l, day) ==
  LET remain == l.endDay - day + 1
  IN  IF remain > 0 THEN (BudgetOf(l) - Total(h).amt + h[day].now.amt) \div remain ELSE 0

\* An amount may be added while every limit has room for something: how much
\* is added makes no difference, the whole amount is.  A limit of impressions is
\* looked at together with the budget.
Check(h, l, day, amt) ==
  LET t == Total(h) now == h[day].now
  IN  IF amt > 0
      THEN /\ l.endDay # NoLimit \/ Below(now.amt, l.daily)
           /\ Below(now.imps, l.dailyImps)
           /\ \/ l.budget = NoLimit /\ l.imps = NoLimit
              \/ /\ t.amt < BudgetOf(l) /\ Below(t.imps, l.imps)
                 /\ l.endDay = NoLimit \/ now.amt < DynamicBudget(h, l, day)
      ELSE now.amt > 0 /\ now.imps > 0 /\ t.amt > 0 /\ t.imps > 0

CheckRequired(l) ==
  \E c \in {"budget", "daily", "imps", "dailyImps"} : l[c] # NoLimit

\* Mutant: a bid that passes the budget is confirmed whole.
ConfirmAccountWhole(h, amt, forced) ==
  LET room == Total(h).amt < Budget
  IN  IF ~ room /\ ~ forced THEN [ok |-> FALSE, amt |-> 0] ELSE [ok |-> room, amt |-> amt]

\* What a level answers to a request: [ok, amt], what it adds and its result.
ConfirmAccount(h, amt, forced) ==
  LET t == Total(h).amt
      room == t < Budget
  IN  IF ~ room /\ ~ forced THEN [ok |-> FALSE, amt |-> 0]
      ELSE IF forced \/ Budget - t > amt THEN [ok |-> room, amt |-> amt]
      ELSE [ok |-> FALSE, amt |-> Budget - t]

ConfirmLevel(h, l, day, amt, forced) ==
  LET ok == ~ CheckRequired(l) \/ Check(h, l, day, amt)
  IN  [ok |-> ok, amt |-> IF ok \/ forced THEN amt ELSE 0]

-----------------------------------------------------------------------------
(* replace_amount_: what the database knows of the days before EndDay takes *)
(* the place of what was counted here.                                      *)

NoSource == [there |-> FALSE]

\* This server's share of the database's amounts.
Part(v) == Vec(MulDec(Coef, v.amt), MulDec(Coef, v.imps))

\* The source's amounts before each day: the running sum of the loop over its days.
Upto(s) ==
  LET sum[d \in Days] ==
        IF d = 1 THEN Part(s.prev)
        ELSE IF d - 1 \in DOMAIN s.days THEN Plus(sum[d - 1], Part(s.days[d - 1]))
        ELSE sum[d - 1]
  IN  sum

\* Mutant: the sum of the database comes on top of the sum that days had here.
ReplaceKeepBefore(h, s) ==
  IF s.there /\ s.prevDay >= EndDay THEN h
  ELSE LET base == IF s.there THEN Upto(s)[EndDay] ELSE Zero
       IN  [d \in Days |->
              IF d >= EndDay
              THEN IF h[d].there THEN [h[d] EXCEPT !.before = Plus(@, base)] ELSE NoDay
              ELSE IF s.there /\ d \in DOMAIN s.days
              THEN [there |-> TRUE, before |-> Upto(s)[d], now |-> Part(s.days[d])]
              ELSE IF s.there /\ d = s.prevDay
              THEN [there |-> TRUE, before |-> Part(s.prev), now |-> Zero]
              ELSE NoDay]

Replace(h, s) ==
  IF s.there /\ s.prevDay >= EndDay THEN h
  ELSE LET kept == {d \in There(h) : d >= EndDay}
           cut == IF kept = {} THEN Zero ELSE h[Min(kept)].before
           base == IF s.there THEN Upto(s)[EndDay] ELSE Zero
       IN  [d \in Days |->
              IF d \in kept
              THEN [h[d] EXCEPT !.before = Plus(Minus(@, cut), base)]
              ELSE IF s.there /\ d \in DOMAIN s.days /\ d < EndDay
              THEN [there |-> TRUE, before |-> Upto(s)[d], now |-> Part(s.days[d])]
              ELSE IF s.there /\ d = s.prevDay
              THEN [there |-> TRUE, before |-> Part(s.prev), now |-> Zero]
              ELSE NoDay]

-----------------------------------------------------------------------------
(* A call of confirm_bid(). *)

Levels == {"account", "campaign", "ccg"}

Entity(b, l) == IF l = "ccg" THEN b.ccg ELSE l
Ask(b, l) == IF l = "account" THEN Vec(b.acc, 0) ELSE Vec(b.amt, b.imps)

AfterConfirm == [account |-> "campaign", campaign |-> "ccg", ccg |-> "rate"]
RevertPc == [ccg |-> "revCcg", campaign |-> "revCampaign", account |-> "revAccount"]
AfterRevert == [ccg |-> "revCampaign", campaign |-> "revAccount", account |-> "return"]

NoBid == [none |-> TRUE]
NoVec == [l \in Levels |-> Zero]
NoRev == [l \in Levels |-> 0]
Left(a, m, i) == [acc |-> a, amt |-> m, imps |-> i]
NoAnswer == [of |-> NoBid, left |-> Left(0, 0, 0), ok |-> TRUE]
NoStat == [src |-> NoSource, at |-> "none", todo |-> {}, fresh |-> {}]

Init ==
  /\ holder = [e \in Entities |-> NoDays]
  /\ pc = [t \in Threads |-> "idle"]
  /\ bid = [t \in Threads |-> NoBid]
  /\ conf = [t \in Threads |-> NoVec]
  /\ avail = [t \in Threads |-> NoVec]
  /\ rev = [t \in Threads |-> NoRev]
  /\ res = [t \in Threads |-> TRUE]
  /\ answer = [t \in Threads |-> NoAnswer]
  /\ rated = 0
  /\ stat = NoStat
  /\ paid = Left(0, 0, 0)
  /\ over = [e \in Entities |-> 0]
  /\ calls = 0 /\ stats = 0

\* An assertion that fails ends the process.
Alive == \A t \in Threads : pc[t] # "assert"

Begin(t, b) ==
  /\ Alive /\ pc[t] = "idle" /\ calls < MaxBids
  /\ calls' = calls + 1
  /\ IF b.known
     THEN /\ pc' = [pc EXCEPT ![t] = "account"]
          /\ bid' = [bid EXCEPT ![t] = b]
          /\ avail' = [avail EXCEPT ![t] = [l \in Levels |-> Ask(b, l)]]
          /\ UNCHANGED answer
     ELSE /\ answer' = [answer EXCEPT ![t] =
                          [of |-> b, left |-> Left(b.acc, b.amt, b.imps), ok |-> FALSE]]
          /\ UNCHANGED <<pc, bid, avail>>
  /\ UNCHANGED <<holder, conf, rev, res, rated, stat, paid, over, stats>>

\* recalc_remind_amounts_(): the least share that a level of "done" confirmed ...
Share(b, cf, done) ==
  Min({Scale} \cup {DivDec(cf[l].amt, Ask(b, l).amt) : l \in {k \in done : Ask(b, k).amt # 0}})

\* ... is what the levels before are cut to and the levels behind are asked for.
Target(b, cf, done, l) == MulDec(Share(b, cf, done), Ask(b, l).amt)

Done(l) == CASE l = "account" -> {"account"}
             [] l = "campaign" -> {"account", "campaign"}
             [] l = "ccg" -> Levels

RecalcAvail(b, cf, av, done) ==
  [l \in Levels |-> [av[l] EXCEPT !.amt = IF l \in done THEN 0 ELSE Target(b, cf, done, l)]]

\* Mutant: only the account takes its share back.
RecalcRevAccount(b, cf, rv, done) ==
  [l \in Levels |->
     IF l \in done \ {"campaign"} /\ Target(b, cf, done, l) # cf[l].amt
     THEN cf[l].amt - Target(b, cf, done, l) ELSE rv[l]]

RecalcRev(b, cf, rv, done) ==
  [l \in Levels |->
     IF l \in done /\ Target(b, cf, done, l) # cf[l].amt
     THEN cf[l].amt - Target(b, cf, done, l) ELSE rv[l]]

ConfirmedAt(b, l, amt) ==
  LET h == holder[Entity(b, l)]
  IN  IF l = "account" THEN ConfirmAccount(h, amt, b.forced)
      ELSE ConfirmLevel(h, Limits[Entity(b, l)], b.day, amt, b.forced)

\* confirm_account_bid_, and confirm_bid_ for the campaign and then the group,
\* with the recalculation that follows a refusal.
Confirm(t, l) ==
  LET b == bid[t]
      av == avail[t][l]
      c == ConfirmedAt(b, l, av.amt)
      v == IF c.amt = 0 THEN Zero ELSE Vec(c.amt, av.imps)
      cf == [conf[t] EXCEPT ![l] = v]
      short == ~ c.ok /\ ~ b.forced
  IN  /\ Alive /\ pc[t] = l
      /\ pc' = [pc EXCEPT ![t] = AfterConfirm[l]]
      /\ IF av.amt = 0
         THEN UNCHANGED <<holder, conf, avail, rev, res, over>>
         ELSE /\ holder' = [holder EXCEPT ![Entity(b, l)] =
                              IF c.amt = 0 THEN @ ELSE AddAmount(@, b.day, v)]
              /\ conf' = [conf EXCEPT ![t] = cf]
              /\ res' = [res EXCEPT ![t] = @ /\ c.ok]
              /\ avail' = [avail EXCEPT ![t] =
                             IF short THEN RecalcAvail(b, cf, @, Done(l)) ELSE @]
              /\ rev' = [rev EXCEPT ![t] =
                           IF short THEN RecalcRev(b, cf, @, Done(l)) ELSE @]
              /\ over' = [over EXCEPT ![Entity(b, l)] =
                           IF b.forced /\ c.amt > 0 THEN @ + c.amt ELSE @]
      /\ UNCHANGED <<bid, answer, rated, stat, paid, calls, stats>>

\* The impressions that go with what the group confirmed.
ConfirmedImps(b, cf) ==
  IF b.amt = 0 THEN b.imps
  ELSE MulDec(DivDec(cf["ccg"].amt, b.amt), b.imps)

\* confirm_bid_rate_()
Rate(t) ==
  /\ Alive /\ pc[t] = "rate"
  /\ pc' = [pc EXCEPT ![t] = "revCcg"]
  /\ rated' = rated + ConfirmedImps(bid[t], conf[t])
  /\ UNCHANGED <<holder, bid, conf, avail, rev, res, answer, stat, counters>>

\* revert_confirmed_bid_ and revert_account_confirmed_bid_: impressions stay.
Revert(t, l) ==
  LET e == Entity(bid[t], l)
      back == rev[t][l]
  IN  /\ Alive /\ pc[t] = RevertPc[l]
      /\ IF back = 0
         THEN /\ pc' = [pc EXCEPT ![t] = AfterRevert[l]]
              /\ UNCHANGED <<holder, conf, over>>
         ELSE IF There(holder[e]) = {}
         THEN /\ pc' = [pc EXCEPT ![t] = "assert"]
              /\ UNCHANGED <<holder, conf, over>>
         ELSE /\ pc' = [pc EXCEPT ![t] = AfterRevert[l]]
              /\ holder' = [holder EXCEPT ![e] = AddAmount(@, bid[t].day, Vec(-back, 0))]
              /\ conf' = [conf EXCEPT ![t][l].amt = IF l = "ccg" THEN @ ELSE @ - back]
              /\ over' = [over EXCEPT ![e] = IF back < 0 THEN @ - back ELSE @]
      /\ UNCHANGED <<bid, avail, rev, res, answer, rated, stat, paid, calls, stats>>

LeftOf(t) ==
  LET b == bid[t]
  IN  Left(b.acc - conf[t]["account"].amt, b.amt - conf[t]["campaign"].amt,
           b.imps - ConfirmedImps(b, conf[t]))

Return(t) ==
  LET b == bid[t]
      left == LeftOf(t)
  IN  /\ Alive /\ pc[t] = "return"
      /\ pc' = [pc EXCEPT ![t] = "idle"]
      /\ answer' = [answer EXCEPT ![t] = [of |-> b, left |-> left, ok |-> res[t]]]
      /\ paid' = Left(paid.acc + b.acc - left.acc, paid.amt + b.amt - left.amt,
                      paid.imps + b.imps - left.imps)
      /\ bid' = [bid EXCEPT ![t] = NoBid]
      /\ conf' = [conf EXCEPT ![t] = NoVec]
      /\ avail' = [avail EXCEPT ![t] = NoVec]
      /\ rev' = [rev EXCEPT ![t] = NoRev]
      /\ res' = [res EXCEPT ![t] = TRUE]
      /\ UNCHANGED <<holder, rated, stat, over, calls, stats>>

-----------------------------------------------------------------------------
(* stat(): the accounts, the campaigns and the groups, each level in portions *)
(* under its lock.                                                            *)

EntitiesOf(l) == IF l = "ccg" THEN Ccgs ELSE {l}

StatAt(src, l) == [src |-> src, at |-> l, todo |-> EntitiesOf(l), fresh |-> {}]

StatBegin(s) ==
  /\ Alive /\ stat.at = "none" /\ stats < MaxStats
  /\ stats' = stats + 1
  /\ stat' = StatAt(s, "account")
  /\ UNCHANGED <<holder, pc, bid, conf, avail, rev, res, answer, rated, paid, over, calls>>

\* A portion.  A holder that appeared since the last one is passed over (insert()
\* does nothing) when its key lies before the one the portion goes on from.
StatReplace(portion, passed) ==
  LET todo == stat.todo \ portion
  IN  /\ Alive /\ stat.at # "none"
      /\ portion \subseteq stat.todo /\ (portion = {} => stat.todo = {})
      /\ passed \subseteq {e \in portion \cap stat.fresh : There(holder[e]) # {}}
      /\ holder' = [e \in Entities |->
                      IF e \in portion \ passed THEN Replace(holder[e], stat.src[e])
                      ELSE holder[e]]
      /\ stat' = IF todo # {}
                 THEN [stat EXCEPT !.todo = todo,
                                   !.fresh = {e \in todo : There(holder[e]) = {}}]
                 ELSE IF stat.at = "ccg" THEN NoStat
                 ELSE StatAt(stat.src, AfterConfirm[stat.at])
      /\ UNCHANGED <<pc, bid, conf, avail, rev, res, answer, rated, counters>>

\* The process has ended, or the bounds are used up and nothing is under way.
Rest ==
  /\ Alive => /\ \A t \in Threads : pc[t] = "idle"
              /\ calls = MaxBids /\ stats = MaxStats /\ stat.at = "none"
  /\ UNCHANGED vars

Next ==
  \/ \E t \in Threads :
       \/ \E b \in Bids : Begin(t, b)
       \/ \E l \in Levels : Confirm(t, l) \/ Revert(t, l)
       \/ Rate(t)
       \/ Return(t)
  \/ \E s \in Sources : StatBegin(s)
  \/ \E portion \in SUBSET stat.todo : \E passed \in SUBSET portion :
       StatReplace(portion, passed)
  \/ Rest

Spec == Init /\ [][Next]_vars

-----------------------------------------------------------------------------
(* Properties *)

DayType == [there : BOOLEAN, before : VecType, now : VecType]
LeftType == [acc : Int, amt : Int, imps : Int]
Pcs == {"idle", "account", "campaign", "ccg", "rate", "revCcg", "revCampaign",
        "revAccount", "return", "assert"}

StatType == [src : Sources \cup {NoSource}, at : Levels \cup {"none"},
             todo : SUBSET Entities, fresh : SUBSET Entities]

\* The state has its type.
TypeOK ==
  /\ holder \in [Entities -> [Days -> DayType]]
  /\ pc \in [Threads -> Pcs]
  /\ bid \in [Threads -> Bids \cup {NoBid}]
  /\ \A t \in Threads : bid[t] = NoBid <=> pc[t] = "idle"
  /\ conf \in [Threads -> [Levels -> VecType]]
  /\ avail \in [Threads -> [Levels -> VecType]]
  /\ rev \in [Threads -> [Levels -> Int]]
  /\ res \in [Threads -> BOOLEAN]
  /\ answer \in [Threads -> [of : Bids \cup {NoBid}, left : LeftType, ok : BOOLEAN]]
  /\ rated \in Int /\ paid \in LeftType
  /\ stat \in StatType
  /\ over \in [Entities -> Nat]
  /\ calls \in 0 .. MaxBids /\ stats \in 0 .. MaxStats

\* confirm_account_bid_() reads the account's total and adds to it under one
\* lock and adds no more than the budget has left: however many calls are in
\* progress and whatever they will take back, all but the forced bids together
\* stay within the account's budget.  (A negative bid that is taken back adds
\* again, without a look at the budget.)  stat() puts other totals in their place.
AccountWithinBudget ==
  stats = 0 => Total(holder["account"]).amt - over["account"] <= Budget

\* At least the smallest amount there is.
LargestBid == Max({1} \cup {b.amt : b \in Bids})

\* DeliveryLimitsChecker lets a bid pass whole while its limit is not reached,
\* and looks and adds under one lock: a campaign or a group may pass its budget
\* by less than one bid, whatever calls run beside it.
OvershootByOne ==
  \A e \in Entities \ {"account"} :
    Limits[e].budget # NoLimit /\ stats = 0 =>
      Total(holder[e]).amt - over[e] < Limits[e].budget + LargestBid

\* The types and the limits: the parts above.
BudgetInv == TypeOK /\ AccountWithinBudget /\ OvershootByOne

Idle == \A t \in Threads : pc[t] = "idle"

CcgTotal == SumOver([c \in Ccgs |-> Total(holder[c]).amt], Ccgs)

\* A bid that a level refuses or cuts is taken back or cut on the other levels,
\* through the rounded shares of recalc_remind_amounts_(): when no call is in
\* progress the account, the campaign and its groups have counted exactly what
\* the callers were told, and the rate amounts have the impressions they were told.
LevelsAgree ==
  Idle /\ stats = 0 =>
    /\ Total(holder["account"]).amt = paid.acc
    /\ Total(holder["campaign"]).amt = paid.amt
    /\ CcgTotal = paid.amt
    /\ rated = paid.imps

\* add_amount() of the server returns the rest of a bid only when the result is
\* false: a true result leaves nothing of the amounts, and what is left is
\* between nothing and the bid.
AnswerExact ==
  \A t \in Threads : answer[t].of # NoBid =>
    LET a == answer[t]
    IN  /\ a.ok => a.left.acc = 0 /\ a.left.amt = 0
        /\ Abs(a.left.acc) <= Abs(a.of.acc) /\ a.left.acc * a.of.acc >= 0
        /\ Abs(a.left.amt) <= Abs(a.of.amt) /\ a.left.amt * a.of.amt >= 0

\* The amount before a day is that before the preceding day and that of the
\* day: add_amount() keeps it for days in any order, and replace_amount_() for
\* days counted here behind days of the database; the totals are read from the
\* last day only.
DaysChained ==
  \A e \in Entities : \A d \in There(holder[e]) :
    LET earlier == {c \in There(holder[e]) : c < d}
        h == holder[e]
    IN  earlier # {} =>
          h[d].before = Plus(h[Max(earlier)].before, h[Max(earlier)].now)

\* The comment "for future, now no reach": nothing is ever taken back from a
\* group.
CcgRevertUnreached == \A t \in Threads : rev[t]["ccg"] = 0

\* What callers are told is what was counted: the parts above.
AnswersAgree == LevelsAgree /\ AnswerExact /\ CcgRevertUnreached

=============================================================================
