----------------------- MODULE BillingContainer_proofs -----------------------
(***************************************************************************)
(* Proofs about BillingContainer, for any number of calls, groups, days    *)
(* and bids: the budgets, the answers and the chain of days.               *)
(***************************************************************************)
EXTENDS BillingContainer, NumberTheorems

-----------------------------------------------------------------------------
(* Decimals and shares *)

\* x lies between nothing and y.
Between(x, y) == (0 <= x /\ x <= y) \/ (y <= x /\ x <= 0)

USE DEF Days, Levels

LEMMA Numbers ==
  /\ LastDay \in Nat /\ Scale \in Nat \ {0} /\ Budget \in Nat
  /\ EndDay \in Days /\ Coef \in 0 .. Scale
BY ContainerAssumption

LEMMA BidFacts ==
  ASSUME NEW b \in Bids
  PROVE  /\ b.known \in BOOLEAN /\ b.forced \in BOOLEAN /\ b.day \in Days /\ b.ccg \in Ccgs
         /\ b.acc \in Int /\ b.amt \in Int /\ b.imps \in Int /\ b.acc * b.amt >= 0
         /\ (b.forced => b.known)
BY ContainerAssumption DEF BidType

LEMMA QuotientBounds ==
  ASSUME NEW n \in Nat, NEW s \in Nat \ {0}
  PROVE  /\ n \div s \in Nat
         /\ s * (n \div s) <= n /\ n < s * (n \div s) + s
OBVIOUS

\* n parts of m of x are no more than x.
LEMMA PartOf ==
  ASSUME NEW n \in Nat, NEW s \in Nat \ {0}, n <= s, NEW x \in Nat
  PROVE  (n * x) \div s \in 0 .. x
<1>1. n * x \in Nat /\ n * x <= s * x
  OBVIOUS
<1>2. PICK q \in Nat : q = (n * x) \div s
  BY <1>1, QuotientBounds
<1>3. s * q <= n * x
  BY <1>1, <1>2, QuotientBounds
<1>4. s * q <= s * x
  BY <1>1, <1>3
<1>5. q <= x
  <2>1. SUFFICES ASSUME q >= x + 1 PROVE FALSE
    OBVIOUS
  <2>2. s * q >= s * (x + 1)
    BY <2>1
  <2>3. s * (x + 1) = s * x + s
    OBVIOUS
  <2> QED BY <1>4, <2>2, <2>3
<1> QED BY <1>2, <1>5

LEMMA MulDecBetween ==
  ASSUME NEW share \in 0 .. Scale, NEW x \in Int
  PROVE  MulDec(share, x) \in Int /\ Between(MulDec(share, x), x)
<1>1. share \in Nat /\ share <= Scale /\ Scale \in Nat \ {0}
  BY Numbers
<1>2. CASE x < 0
  <2>1. -x \in Nat
    BY <1>2
  <2>2. (share * (-x)) \div Scale \in 0 .. (-x)
    BY <1>1, <2>1, PartOf
  <2>3. MulDec(share, x) = -((share * (-x)) \div Scale)
    BY <1>2 DEF MulDec
  <2> QED BY <1>2, <2>2, <2>3 DEF Between
<1>3. CASE x >= 0
  <2>1. (share * x) \div Scale \in 0 .. x
    BY <1>1, <1>3, PartOf
  <2>2. MulDec(share, x) = (share * x) \div Scale
    BY <1>3 DEF MulDec
  <2> QED BY <1>3, <2>1, <2>2 DEF Between
<1> QED BY <1>2, <1>3

LEMMA MulDecZero ==
  ASSUME NEW x \in Int
  PROVE  MulDec(0, x) = 0
BY Numbers DEF MulDec

LEMMA MulDecOfZero ==
  ASSUME NEW share \in Nat
  PROVE  MulDec(share, 0) = 0
BY Numbers DEF MulDec

LEMMA AbsType ==
  ASSUME NEW x \in Int
  PROVE  Abs(x) \in Nat /\ (x # 0 => Abs(x) # 0)
BY DEF Abs

LEMMA DivDecType ==
  ASSUME NEW x \in Int, NEW y \in Int, y # 0
  PROVE  DivDec(x, y) \in Nat
<1>1. Abs(x) * Scale \in Nat /\ Abs(y) \in Nat \ {0}
  BY AbsType, Numbers
<1> QED BY <1>1, QuotientBounds DEF DivDec

LEMMA DivDecZero ==
  ASSUME NEW y \in Int, y # 0
  PROVE  DivDec(0, y) = 0
<1>1. Abs(y) \in Nat \ {0} /\ Abs(0) = 0
  BY AbsType DEF Abs
<1> QED BY <1>1, Numbers DEF DivDec

LEMMA MulDecType ==
  ASSUME NEW share \in Nat, NEW x \in Int
  PROVE  MulDec(share, x) \in Int
<1>1. share * x \in Int /\ share * (-x) \in Int
  OBVIOUS
<1> QED BY <1>1, Numbers DEF MulDec

LEMMA AskType ==
  ASSUME NEW b \in Bids, NEW l \in Levels
  PROVE  Ask(b, l) \in VecType
BY BidFacts DEF Ask, VecType, Vec

\* The share that recalc_remind_amounts_() computes is at most 1, and 0 when a
\* level refused.
LEMMA ShareBounds ==
  ASSUME NEW b \in Bids, NEW cf \in [Levels -> VecType], NEW done \in SUBSET Levels
  PROVE  /\ Share(b, cf, done) \in 0 .. Scale
         /\ \A l \in done : Ask(b, l).amt # 0 /\ cf[l].amt = 0 => Share(b, cf, done) = 0
<1> DEFINE Asked == {k \in done : Ask(b, k).amt # 0}
           S == {Scale} \cup {DivDec(cf[l].amt, Ask(b, l).amt) : l \in Asked}
<1>1. \A l \in Asked : cf[l].amt \in Int /\ Ask(b, l).amt \in Int
  BY AskType DEF VecType
<1>2. \A l \in Asked : DivDec(cf[l].amt, Ask(b, l).amt) \in Nat
  BY <1>1, DivDecType
<1>3. S \subseteq Nat /\ Scale \in S
  BY <1>2, Numbers
<1>4. Share(b, cf, done) = Min(S)
  BY DEF Share
<1>5. Min(S) \in S /\ \A y \in S : Min(S) <= y
  <2> HIDE DEF S
  <2> QED BY <1>3, MinOf
<1>6. Min(S) \in 0 .. Scale
  <2> HIDE DEF S
  <2>1. Min(S) \in Nat
    BY <1>3, <1>5
  <2>2. Min(S) <= Scale
    BY <1>3, <1>5
  <2> QED BY <2>1, <2>2, Numbers
<1>7. ASSUME NEW l \in done, Ask(b, l).amt # 0, cf[l].amt = 0
      PROVE  Min(S) = 0
  <2>1. DivDec(cf[l].amt, Ask(b, l).amt) = 0
    BY <1>1, <1>7, DivDecZero
  <2>2. 0 \in S
    BY <1>7, <2>1
  <2> HIDE DEF S
  <2> QED BY <1>5, <1>6, <2>2
<1> QED BY <1>4, <1>6, <1>7

\* What a level is cut to is between nothing and what the bid asks of it.
LEMMA TargetBounds ==
  ASSUME NEW b \in Bids, NEW cf \in [Levels -> VecType], NEW done \in SUBSET Levels,
         NEW l \in Levels
  PROVE  /\ Target(b, cf, done, l) \in Int
         /\ Between(Target(b, cf, done, l), Ask(b, l).amt)
         /\ (\E k \in done : Ask(b, k).amt # 0 /\ cf[k].amt = 0) =>
              Target(b, cf, done, l) = 0
<1>1. Ask(b, l).amt \in Int
  BY AskType DEF VecType
<1>2. PICK share \in 0 .. Scale : share = Share(b, cf, done)
  BY ShareBounds
<1>3. Target(b, cf, done, l) = MulDec(share, Ask(b, l).amt)
  BY <1>2 DEF Target
<1>4. (\E k \in done : Ask(b, k).amt # 0 /\ cf[k].amt = 0) => share = 0
  BY <1>2, ShareBounds
<1> QED BY <1>1, <1>3, <1>4, MulDecBetween, MulDecZero

-----------------------------------------------------------------------------
(* The days of a holder *)

\* A day that a holder does not have is empty.
Blank(h) == \A d \in Days : ~h[d].there => h[d] = NoDay

\* Each day starts where the one before it ends.
Chained(h) ==
  \A c, d \in There(h) :
    c < d /\ (\A x \in There(h) : x <= c \/ d <= x) =>
      h[d].before = Plus(h[c].before, h[c].now)

\* Nothing is before the first day, or no bid is of an earlier one.
Founded(h) ==
  \A f \in There(h) :
    (\A d \in There(h) : f <= d) =>
      h[f].before = Zero \/ \A b \in Bids : f <= b.day

LEMMA VecParts ==
  ASSUME NEW v \in VecType
  PROVE  v.amt \in Int /\ v.imps \in Int /\ v = [amt |-> v.amt, imps |-> v.imps]
BY DEF VecType

LEMMA PlusType ==
  ASSUME NEW u \in VecType, NEW v \in VecType
  PROVE  /\ Plus(u, v) \in VecType /\ Minus(u, v) \in VecType
         /\ Plus(u, v).amt = u.amt + v.amt
BY VecParts DEF VecType, Plus, Minus, Vec

LEMMA PlusZero ==
  ASSUME NEW v \in VecType
  PROVE  Zero \in VecType /\ Plus(Zero, v) = v /\ Plus(v, Zero) = v /\ Minus(v, v) = Zero
BY VecParts DEF VecType, Plus, Minus, Zero, Vec

LEMMA PlusSwap ==
  ASSUME NEW u \in VecType, NEW v \in VecType, NEW w \in VecType
  PROVE  Plus(Plus(u, v), w) = Plus(Plus(u, w), v)
<1>1. /\ v.amt \in Int /\ v.imps \in Int /\ u.amt \in Int /\ u.imps \in Int
      /\ w.amt \in Int /\ w.imps \in Int
  BY DEF VecType
<1> QED BY <1>1 DEF Plus, Vec

LEMMA PlusAssoc ==
  ASSUME NEW u \in VecType, NEW v \in VecType, NEW w \in VecType
  PROVE  Plus(u, Plus(v, w)) = Plus(Plus(u, v), w)
<1>1. /\ v.amt \in Int /\ v.imps \in Int /\ u.amt \in Int /\ u.imps \in Int
      /\ w.amt \in Int /\ w.imps \in Int
  BY DEF VecType
<1> QED BY <1>1 DEF Plus, Vec

LEMMA PlusShift ==
  ASSUME NEW u \in VecType, NEW v \in VecType, NEW w \in VecType, NEW x \in VecType
  PROVE  Plus(Minus(Plus(u, v), w), x) = Plus(Plus(Minus(u, w), x), v)
<1>1. /\ v.amt \in Int /\ v.imps \in Int /\ u.amt \in Int /\ u.imps \in Int
      /\ w.amt \in Int /\ w.imps \in Int /\ x.amt \in Int /\ x.imps \in Int
  BY DEF VecType
<1> QED BY <1>1 DEF VecType, Plus, Minus, Zero, Vec

LEMMA DayMax ==
  ASSUME NEW S, S \subseteq Days, S # {}
  PROVE  Max(S) \in S /\ \A y \in S : y <= Max(S)
<1> DEFINE R == {LastDay - d : d \in S}
<1>0. \A d \in S : LastDay - d \in Nat
  BY Numbers
<1>1. R \subseteq Nat /\ R # {}
  BY <1>0
<1>2. PICK r \in R : \A q \in R : r <= q
  <2> HIDE DEF R
  <2> QED BY <1>1, LeastOf
<1>3. PICK x \in S : r = LastDay - x
  BY <1>2
<1>4. \A y \in S : LastDay - x <= LastDay - y
  BY <1>2, <1>3
<1>5. \A y \in S : y <= x
  BY <1>4, Numbers
<1>6. \E z \in S : \A y \in S : z >= y
  BY <1>5
<1> QED BY <1>6, Numbers DEF Max

LEMMA DayMin ==
  ASSUME NEW S, S \subseteq Days, S # {}
  PROVE  Min(S) \in S /\ \A y \in S : Min(S) <= y
<1>1. S \subseteq Nat
  BY Numbers
<1> QED BY <1>1, MinOf

LEMMA NoDayType == NoDay \in DayType /\ NoDays \in [Days -> DayType]
BY DEF NoDay, NoDays, DayType, VecType, Zero, Vec

\* The total is read from the last day.
LEMMA TotalIs ==
  ASSUME NEW h, NEW m \in There(h), \A d \in There(h) : d <= m
  PROVE  Total(h) = Plus(h[m].before, h[m].now)
<1>1. There(h) \subseteq Days /\ There(h) # {}
  BY DEF There
<1>2. Max(There(h)) \in There(h) /\ \A y \in There(h) : y <= Max(There(h))
  BY <1>1, DayMax
<1>3. Max(There(h)) = m
  BY <1>1, <1>2, Numbers
<1> QED BY <1>1, <1>3 DEF Total

LEMMA TotalType ==
  ASSUME NEW h \in [Days -> DayType]
  PROVE  Total(h) \in VecType
<1>1. CASE There(h) = {}
  BY <1>1 DEF Total, Zero, Vec, VecType
<1>2. CASE There(h) # {}
  <2>1. There(h) \subseteq Days
    BY DEF There
  <2>2. PICK m \in There(h) : \A d \in There(h) : d <= m
    BY <1>2, <2>1, DayMax
  <2>3. Total(h) = Plus(h[m].before, h[m].now)
    BY <2>2, TotalIs
  <2>4. h[m] \in DayType
    BY <2>1
  <2> QED BY <2>3, <2>4, PlusType DEF DayType
<1> QED BY <1>1, <1>2

\* What add_amount() does to each day.
Added(h, k, day, v) ==
  /\ k \in [Days -> DayType]
  /\ There(k) = There(h) \cup {day}
  /\ k[day].now = Plus(h[day].now, v)
  /\ h[day].there => k[day].before = h[day].before
  /\ \A p \in There(h) :
       ~ h[day].there /\ p < day /\ (\A e \in There(h) : e <= p \/ day <= e) =>
         k[day].before = Plus(h[p].before, h[p].now)
  /\ (\A e \in There(h) : day <= e) => k[day].before = h[day].before
  /\ \A d \in Days : d < day => k[d] = h[d]
  /\ \A d \in There(h) : day < d =>
       k[d].before = Plus(h[d].before, v) /\ k[d].now = h[d].now
  /\ \A d \in Days : d # day /\ ~ h[d].there => k[d] = h[d]

LEMMA AddDays ==
  ASSUME NEW h \in [Days -> DayType], NEW day \in Days, NEW v \in VecType, NEW k,
         k = AddAmount(h, day, v)
  PROVE  Added(h, k, day, v)
<1> DEFINE Before == {e \in There(h) : e < day}
           p0 == h[Max(Before)]
           first == h[day].there \/ \A e \in There(h) : e >= day
<1>0. There(h) \subseteq Days /\ Before \subseteq Days
  BY DEF There
<1>1. /\ k[day].there = TRUE /\ k[day].now = Plus(h[day].now, v)
      /\ k[day].before = IF first THEN h[day].before ELSE Plus(p0.before, p0.now)
  BY DEF AddAmount
<1>2. \A d \in Days : d > day /\ h[d].there =>
        k[d] = [h[d] EXCEPT !.before = Plus(h[d].before, v)]
  BY Numbers DEF AddAmount
<1>3. \A d \in Days : d # day /\ ~(d > day /\ h[d].there) => k[d] = h[d]
  BY DEF AddAmount
<1>4. \A d \in Days : h[d].before \in VecType /\ h[d].now \in VecType /\ h[d].there \in BOOLEAN
  BY DEF DayType
<1>5. ~first => Max(Before) \in Before /\ \A y \in Before : y <= Max(Before)
  <2>1. ~first => Before # {}
    BY <1>0, Numbers
  <2> HIDE DEF Before
  <2> QED BY <1>0, <2>1, DayMax
<1>6. k[day] \in DayType
  <2>1. k[day] = [there |-> TRUE, now |-> Plus(h[day].now, v),
                  before |-> IF first THEN h[day].before ELSE Plus(p0.before, p0.now)]
    BY DEF AddAmount
  <2>2. Plus(h[day].now, v) \in VecType
    BY <1>4, PlusType
  <2>3. ~first => Plus(p0.before, p0.now) \in VecType
    <3>1. ~first => Max(Before) \in Days
      BY <1>0, <1>5
    <3> HIDE DEF Before, first
    <3> QED BY <1>4, <3>1, PlusType
  <2> HIDE DEF first, p0
  <2> QED BY <1>4, <2>1, <2>2, <2>3 DEF DayType
<1>7. \A d \in Days : d # day => k[d] \in DayType
  <2>1. ASSUME NEW d \in Days, d > day, h[d].there PROVE k[d] \in DayType
    <3>1. Plus(h[d].before, v) \in VecType
      BY <1>4, PlusType
    <3> QED BY <1>2, <2>1, <3>1 DEF DayType
  <2> QED BY <1>3, <2>1
<1>8. k = [d \in Days |-> k[d]]
  BY DEF AddAmount
<1>9. k \in [Days -> DayType]
  BY <1>6, <1>7, <1>8
<1>10. \A d \in Days : d # day => k[d].there = h[d].there
  BY <1>2, <1>3 DEF DayType
<1>11. There(k) = There(h) \cup {day}
  BY <1>1, <1>10 DEF There
<1>12. ASSUME NEW p \in There(h), ~ h[day].there, p < day,
              \A e \in There(h) : e <= p \/ day <= e
       PROVE  k[day].before = Plus(h[p].before, h[p].now)
  <2>1. ~first /\ p \in Before
    BY <1>0, <1>12, Numbers
  <2>2. Max(Before) = p
    <3>1. Max(Before) \in There(h) /\ Max(Before) < day /\ p <= Max(Before)
      BY <1>5, <2>1
    <3>2. Max(Before) <= p
      <4> HIDE DEF Before
      <4> QED BY <1>0, <1>12, <3>1, Numbers
    <3> HIDE DEF Before
    <3> QED BY <1>0, <3>1, <3>2, Numbers
  <2> HIDE DEF first, Before
  <2> QED BY <1>1, <2>1, <2>2
<1>13. \A d \in There(h) : day < d =>
         k[d].before = Plus(h[d].before, v) /\ k[d].now = h[d].now
  <2>1. ASSUME NEW d \in There(h), day < d
        PROVE  k[d].before = Plus(h[d].before, v) /\ k[d].now = h[d].now
    <3>1. d \in Days /\ h[d].there /\ h[d] \in DayType
      BY DEF There
    <3>2. k[d] = [h[d] EXCEPT !.before = Plus(h[d].before, v)]
      BY <1>2, <2>1, <3>1, Numbers
    <3> QED BY <3>1, <3>2 DEF DayType
  <2> QED BY <2>1
<1>14. (\A e \in There(h) : day <= e) => k[day].before = h[day].before
  BY <1>0, <1>1, Numbers
<1>15. \A d \in Days : d < day => k[d] = h[d]
  BY <1>3, Numbers
<1>16. h[day].there => k[day].before = h[day].before
  BY <1>1
<1>17. \A d \in Days : d # day /\ ~ h[d].there => k[d] = h[d]
  BY <1>3
<1> HIDE DEF first, p0, Before
<1> QED BY <1>1, <1>9, <1>11, <1>12, <1>13, <1>14, <1>15, <1>16, <1>17 DEF Added

\* add_amount() adds to the total, whatever day it is given.
LEMMA AddTotal ==
  ASSUME NEW h \in [Days -> DayType], Blank(h), NEW day \in Days, NEW v \in VecType, NEW k,
         k = AddAmount(h, day, v)
  PROVE  Total(k) = Plus(Total(h), v) /\ Blank(k)
<1>1. /\ k \in [Days -> DayType]
      /\ There(k) = There(h) \cup {day}
      /\ k[day].now = Plus(h[day].now, v)
      /\ h[day].there => k[day].before = h[day].before
      /\ (\A e \in There(h) : day <= e) => k[day].before = h[day].before
      /\ \A d \in Days : d # day /\ ~ h[d].there => k[d] = h[d]
  <2>1. Added(h, k, day, v)
    BY AddDays
  <2> QED BY <2>1, Zenon DEF Added
<1>2. There(h) \subseteq Days /\ day \in There(k)
  BY <1>1 DEF There
<1>3. \A d \in Days : h[d].before \in VecType /\ h[d].now \in VecType /\ h[d].there \in BOOLEAN
  BY DEF DayType
<1>4. Blank(k)
  <2>1. SUFFICES ASSUME NEW d \in Days, ~k[d].there PROVE k[d] = NoDay
    BY DEF Blank
  <2>2. d \notin There(k) /\ d # day
    BY <1>2, <2>1 DEF There
  <2>3. ~h[d].there
    BY <1>1, <2>2 DEF There
  <2> QED BY <1>1, <2>2, <2>3 DEF Blank
<1>7. Added(h, k, day, v)
  BY AddDays
<1>5. CASE There(h) = {}
  <2>1. \A d \in There(k) : d <= day
    BY <1>1, <1>5
  <2>2. Total(k) = Plus(k[day].before, k[day].now)
    BY <1>2, <2>1, TotalIs
  <2>3. h[day] = NoDay
    BY <1>5 DEF There, Blank
  <2>4. k[day].before = Zero /\ k[day].now = Plus(Zero, v)
    BY <1>1, <1>5, <2>3 DEF NoDay
  <2>5. Total(h) = Zero
    BY <1>5 DEF Total
  <2> QED BY <1>4, <2>2, <2>4, <2>5, PlusZero
<1>6. CASE There(h) # {}
  <2>1. PICK m \in There(h) : \A d \in There(h) : d <= m
    BY <1>2, <1>6, DayMax
  <2>6. m \in Int /\ day \in Int /\ m \in Days
    BY <1>2, Numbers
  <2>2. Total(h) = Plus(h[m].before, h[m].now)
    BY <2>1, TotalIs
  <2>3. CASE day = m
    <3>1. \A d \in There(k) : d <= day
      BY <1>1, <2>1, <2>3
    <3>2. Total(k) = Plus(k[day].before, k[day].now)
      BY <1>2, <3>1, TotalIs
    <3>3. h[day].there
      BY <2>3 DEF There
    <3>4. Plus(h[m].before, Plus(h[m].now, v)) = Plus(Plus(h[m].before, h[m].now), v)
      BY <1>3, <2>6, PlusAssoc
    <3> QED BY <1>1, <1>4, <2>2, <2>3, <3>2, <3>3, <3>4
  <2>4. CASE day < m
    <3>1. \A d \in There(k) : d <= m
      BY <1>1, <2>1, <2>4, <2>6
    <3>2. Total(k) = Plus(k[m].before, k[m].now)
      BY <1>1, <3>1, TotalIs
    <3>3. k[m].before = Plus(h[m].before, v) /\ k[m].now = h[m].now
      BY <1>7, <2>4 DEF Added
    <3>4. Plus(Plus(h[m].before, v), h[m].now) = Plus(Plus(h[m].before, h[m].now), v)
      BY <1>3, <2>6, PlusSwap
    <3> QED BY <1>4, <2>2, <3>2, <3>3, <3>4
  <2>5. CASE m < day
    <3>1. \A d \in There(k) : d <= day
      BY <1>1, <1>2, <2>1, <2>5, Numbers
    <3>2. Total(k) = Plus(k[day].before, k[day].now)
      BY <1>2, <3>1, TotalIs
    <3>3. ~h[day].there
      BY <1>2, <2>1, <2>5, Numbers DEF There
    <3>4. k[day].before = Plus(h[m].before, h[m].now)
      BY <1>7, <2>1, <2>5, <3>3, <2>6 DEF Added
    <3>5. k[day].now = Plus(Zero, v)
      BY <1>1, <3>3 DEF Blank, NoDay
    <3>6. k[day].now = v
      BY <3>5, PlusZero
    <3> QED BY <1>4, <2>2, <3>2, <3>4, <3>6
  <2> QED BY <2>3, <2>4, <2>5, <2>6
<1> QED BY <1>5, <1>6

\* add_amount() keeps the chain, for the day of any bid.
LEMMA AddChain ==
  ASSUME NEW h \in [Days -> DayType], Blank(h), Chained(h), Founded(h),
         NEW b \in Bids, NEW v \in VecType, NEW k, k = AddAmount(h, b.day, v)
  PROVE  Chained(k) /\ Founded(k)
<1>1. PICK day \in Days : day = b.day
  BY BidFacts
<1>2. /\ k \in [Days -> DayType]
      /\ There(k) = There(h) \cup {day}
      /\ k[day].now = Plus(h[day].now, v)
      /\ h[day].there => k[day].before = h[day].before
      /\ (\A e \in There(h) : day <= e) => k[day].before = h[day].before
      /\ \A d \in Days : d < day => k[d] = h[d]
      /\ \A d \in There(h) : day < d =>
           k[d].before = Plus(h[d].before, v) /\ k[d].now = h[d].now
  <2>1. Added(h, k, day, v)
    BY <1>1, AddDays
  <2> QED BY <2>1, Zenon DEF Added
<1>3. \A p \in There(h) :
        ~ h[day].there /\ p < day /\ (\A e \in There(h) : e <= p \/ day <= e) =>
          k[day].before = Plus(h[p].before, h[p].now)
  <2>1. Added(h, k, day, v)
    BY <1>1, AddDays
  <2> QED BY <2>1, Zenon DEF Added
<1>4. There(h) \subseteq Days /\ There(k) \subseteq Days
  BY DEF There
<1>5. \A d \in Days : h[d].before \in VecType /\ h[d].now \in VecType /\ h[d].there \in BOOLEAN
  BY DEF DayType
<1>6. \A d \in Days : h[d].there <=> d \in There(h)
  BY <1>5 DEF There
<1>7. Chained(k)
  <2>1. SUFFICES ASSUME NEW c \in There(k), NEW d \in There(k), c < d,
                        \A x \in There(k) : x <= c \/ d <= x
                 PROVE  k[d].before = Plus(k[c].before, k[c].now)
    BY DEF Chained
  <2>2. c \in Days /\ d \in Days /\ c \in Int /\ d \in Int /\ day \in Int
    BY <1>4, Numbers
  <2>3. \A x \in There(h) : x <= c \/ d <= x
    BY <1>2, <2>1
  <2>4. day <= c \/ d <= day
    BY <1>2, <2>1
  <2>5. CASE d < day
    <3>1. c \in There(h) /\ d \in There(h)
      BY <1>2, <2>1, <2>2, <2>5
    <3>2. h[d].before = Plus(h[c].before, h[c].now)
      BY <2>1, <2>3, <3>1 DEF Chained
    <3>3. k[c] = h[c] /\ k[d] = h[d]
      BY <1>2, <2>1, <2>2, <2>5
    <3> QED BY <3>2, <3>3
  <2>6. CASE d = day
    <3>1. c \in There(h)
      BY <1>2, <2>1, <2>2, <2>6
    <3>2. k[c] = h[c]
      BY <1>2, <2>1, <2>2, <2>6
    <3>3. CASE h[day].there
      <4>1. h[d].before = Plus(h[c].before, h[c].now)
        BY <1>6, <2>1, <2>3, <2>6, <3>1, <3>3 DEF Chained
      <4> QED BY <1>2, <2>6, <3>2, <3>3, <4>1
    <3>4. CASE ~h[day].there
      BY <1>3, <2>1, <2>3, <2>6, <3>1, <3>2, <3>4
    <3> QED BY <3>3, <3>4
  <2>7. CASE c = day
    <3>1. d \in There(h) /\ day < d
      BY <1>2, <2>1, <2>2, <2>7
    <3>2. k[d].before = Plus(h[d].before, v)
      BY <1>2, <3>1
    <3>3. CASE h[day].there
      <4>1. h[d].before = Plus(h[c].before, h[c].now)
        BY <1>6, <2>1, <2>3, <2>7, <3>1, <3>3 DEF Chained
      <4>2. k[c].before = h[c].before /\ k[c].now = Plus(h[c].now, v)
        BY <1>2, <2>7, <3>3
      <4>3. Plus(h[c].before, Plus(h[c].now, v)) = Plus(Plus(h[c].before, h[c].now), v)
        BY <1>5, <2>2, PlusAssoc
      <4> QED BY <3>2, <4>1, <4>2, <4>3
    <3>4. CASE ~h[day].there
      <4>1. h[day].now = Zero /\ h[day].before = Zero
        BY <3>4 DEF Blank, NoDay
      <4>2. k[c].now = v
        BY <1>2, <2>7, <4>1, PlusZero
      <4>3. CASE \A e \in There(h) : day <= e
        <5>1. \A e \in There(h) : d <= e
          BY <1>6, <2>2, <2>3, <2>7, <3>4, <4>3, <1>4
        <5>2. ~(d <= b.day)
          BY <1>1, <2>2, <3>1
        <5>3. h[d].before = Zero
          BY <3>1, <5>1, <5>2 DEF Founded
        <5>4. k[c].before = Zero
          BY <1>2, <2>7, <4>1, <4>3
        <5> QED BY <3>2, <4>2, <5>3, <5>4
      <4>4. CASE ~ \A e \in There(h) : day <= e
        <5> DEFINE Before == {e \in There(h) : e < day}
        <5>1. Before \subseteq Days /\ Before # {}
          BY <1>4, <4>4, Numbers
        <5>2. PICK p \in Before : \A e \in Before : e <= p
          <6> HIDE DEF Before
          <6> QED BY <5>1, DayMax
        <5>3. p \in There(h) /\ p < day /\ p \in Int
          BY <5>1, <5>2, Numbers
        <5>4. \A e \in There(h) : e <= p \/ d <= e
          BY <1>4, <1>6, <2>3, <2>7, <3>4, <5>2, Numbers
        <5>5. k[c].before = Plus(h[p].before, h[p].now)
          <6>1. \A e \in There(h) : e <= p \/ day <= e
            BY <1>4, <5>2, Numbers
          <6> QED BY <1>3, <2>7, <3>4, <5>3, <6>1
        <5>6. h[d].before = Plus(h[p].before, h[p].now)
          <6>1. p < d
            BY <2>2, <3>1, <5>3
          <6> QED BY <3>1, <5>3, <5>4, <6>1 DEF Chained
        <5> QED BY <3>2, <4>2, <5>5, <5>6
      <4> QED BY <4>3, <4>4
    <3> QED BY <3>3, <3>4
  <2>8. CASE day < c
    <3>1. c \in There(h) /\ d \in There(h)
      BY <1>2, <2>1, <2>2, <2>8
    <3>2. h[d].before = Plus(h[c].before, h[c].now)
      BY <2>1, <2>3, <3>1 DEF Chained
    <3>3. /\ k[d].before = Plus(h[d].before, v)
          /\ k[c].before = Plus(h[c].before, v) /\ k[c].now = h[c].now
      BY <1>2, <2>1, <2>2, <2>8, <3>1
    <3>4. Plus(Plus(h[c].before, v), h[c].now) = Plus(Plus(h[c].before, h[c].now), v)
      BY <1>5, <2>2, PlusSwap
    <3> QED BY <3>2, <3>3, <3>4
  <2> QED BY <2>2, <2>4, <2>5, <2>6, <2>7, <2>8
<1>8. Founded(k)
  <2>1. SUFFICES ASSUME NEW f \in There(k), \A d \in There(k) : f <= d
                 PROVE  k[f].before = Zero \/ \A x \in Bids : f <= x.day
    BY DEF Founded
  <2>2. f <= day /\ f \in Int /\ day \in Int
    BY <1>2, <1>4, <2>1, Numbers
  <2>3. CASE f < day
    <3>1. f \in There(h) /\ (\A d \in There(h) : f <= d) /\ k[f] = h[f]
      BY <1>2, <1>4, <2>1, <2>3
    <3> QED BY <3>1 DEF Founded
  <2>4. CASE f = day
    <3>1. k[f].before = h[f].before /\ \A d \in There(h) : f <= d
      BY <1>2, <2>1, <2>4
    <3>2. CASE f \in There(h)
      BY <3>1, <3>2 DEF Founded
    <3>3. CASE f \notin There(h)
      BY <1>6, <2>4, <3>1, <3>3 DEF Blank, NoDay
    <3> QED BY <3>2, <3>3
  <2> QED BY <2>2, <2>3, <2>4
<1> QED BY <1>7, <1>8

\* DaysChained, which looks for the preceding day with Max.
LEMMA ChainedMeans ==
  ASSUME NEW h, Chained(h), NEW d \in There(h), {c \in There(h) : c < d} # {}
  PROVE  LET p == Max({c \in There(h) : c < d})
         IN  h[d].before = Plus(h[p].before, h[p].now)
<1> DEFINE Before == {c \in There(h) : c < d}
<1>1. There(h) \subseteq Days
  BY DEF There
<1>2. Before \subseteq Days
  BY <1>1
<1>3. PICK p : p = Max(Before)
  OBVIOUS
<1>4. p \in Before /\ \A y \in Before : y <= p
  <2> HIDE DEF Before
  <2>1. Before # {}
    BY DEF Before
  <2> QED BY <1>2, <1>3, <2>1, DayMax
<1>5. \A x \in There(h) : x <= p \/ d <= x
  BY <1>1, <1>4, Numbers
<1>6. h[d].before = Plus(h[p].before, h[p].now)
  BY <1>4, <1>5 DEF Chained
<1> QED BY <1>3, <1>6

-----------------------------------------------------------------------------
(* replace_amount_ *)

LEMMA DayInduction ==
  ASSUME NEW Good, \A d \in Days : d = 1 \/ d - 1 \in Good => d \in Good
  PROVE  Days \subseteq Good
<1> DEFINE Bad == {d \in Days : d \notin Good}
<1>1. SUFFICES ASSUME Bad # {} PROVE FALSE
  OBVIOUS
<1>2. Bad \subseteq Nat
  BY Numbers
<1>3. PICK d \in Bad : \A y \in Bad : d <= y
  <2> HIDE DEF Bad
  <2> QED BY <1>1, <1>2, LeastOf
<1>4. d \in Days /\ d \notin Good /\ d # 1
  BY <1>3
<1>5. d - 1 \in Days
  BY <1>4, Numbers
<1>6. d - 1 \in Bad
  BY <1>4, <1>5
<1>7. d <= d - 1 /\ d \in Int
  BY <1>3, <1>4, <1>6, Numbers
<1> QED BY <1>7

\* The running sum exists, and is what the loop computes.
LEMMA UptoIs ==
  ASSUME NEW src
  PROVE  /\ Upto(src)[1] = Part(src.prev)
         /\ \A d \in Days : d # 1 =>
              Upto(src)[d] = IF d - 1 \in DOMAIN src.days
                             THEN Plus(Upto(src)[d - 1], Part(src.days[d - 1]))
                             ELSE Upto(src)[d - 1]
<1> DEFINE Next1(g, d) == IF d - 1 \in DOMAIN src.days
                          THEN Plus(g[d - 1], Part(src.days[d - 1])) ELSE g[d - 1]
           Step(g, n) == [d \in 1 .. n |-> IF d = 1 THEN Part(src.prev) ELSE Next1(g, d)]
           Good == {n \in Days : \E g : g = Step(g, n)}
<1>1. ASSUME NEW n \in Days, n = 1 \/ n - 1 \in Good
      PROVE  n \in Good
  <2>1. CASE n = 1
    <3> DEFINE g == [d \in 1 .. n |-> Part(src.prev)]
    <3>1. g = Step(g, n)
      BY <2>1
    <3> QED BY <3>1
  <2>2. CASE n # 1
    <3>1. PICK g : g = Step(g, n - 1)
      BY <1>1, <2>2
    <3> DEFINE k == [d \in 1 .. n |-> IF d = 1 THEN Part(src.prev) ELSE Next1(g, d)]
    <3>2. \A d \in 1 .. n : d # 1 => d - 1 \in 1 .. (n - 1)
      BY Numbers
    <3>3. \A d \in 1 .. (n - 1) : d \in 1 .. n
      BY Numbers
    <3>4. \A d \in 1 .. (n - 1) : k[d] = g[d]
      BY <3>1, <3>3
    <3>5. \A d \in 1 .. n : d # 1 => k[d] = Next1(k, d)
      BY <3>2, <3>4
    <3>6. \A d \in 1 .. n : k[d] = IF d = 1 THEN Part(src.prev) ELSE Next1(k, d)
      BY <3>5
    <3>7. k = [d \in 1 .. n |-> k[d]]
      OBVIOUS
    <3>8. k = Step(k, n)
      <4> HIDE DEF k
      <4> QED BY <3>6, <3>7
    <3> QED BY <3>8
  <2> QED BY <2>1, <2>2
<1>2. Days \subseteq Good
  <2> HIDE DEF Good
  <2> QED BY <1>1, DayInduction
<1>3. LastDay \in Days /\ 1 \in Days
  BY Numbers
<1>4. PICK k : k = Step(k, LastDay)
  BY <1>2, <1>3
<1> DEFINE U == CHOOSE g : g = [d \in Days |->
                  IF d = 1 THEN Part(src.prev)
                  ELSE IF d - 1 \in DOMAIN src.days THEN Plus(g[d - 1], Part(src.days[d - 1]))
                  ELSE g[d - 1]]
<1>5. Upto(src) = U
  BY DEF Upto
<1>6. U = Step(U, LastDay)
  BY <1>4
<1>7. U[1] = Part(src.prev)
  <2> HIDE DEF U
  <2> QED BY <1>3, <1>6
<1>8. \A d \in Days : d # 1 => U[d] = Next1(U, d)
  <2> HIDE DEF U
  <2> QED BY <1>3, <1>6
<1> HIDE DEF U
<1> QED BY <1>5, <1>7, <1>8

LEMMA PartType ==
  ASSUME NEW v \in VecType
  PROVE  Part(v) \in VecType /\ (v = Zero => Part(v) = Zero)
<1>1. v.amt \in Int /\ v.imps \in Int /\ Coef \in Nat /\ 0 \in Int
  BY Numbers, VecParts
<1>2. MulDec(Coef, v.amt) \in Int /\ MulDec(Coef, v.imps) \in Int /\ MulDec(Coef, 0) = 0
  BY <1>1, MulDecType, MulDecOfZero
<1> QED BY <1>2 DEF Part, VecType, Vec, Zero

LEMMA UptoType ==
  ASSUME NEW src, SourceOk(src), NEW d \in Days
  PROVE  Upto(src)[d] \in VecType
<1> DEFINE Good == {n \in Days : Upto(src)[n] \in VecType}
<1>1. src.prev \in VecType /\ \A n \in DOMAIN src.days : src.days[n] \in VecType
  BY DEF SourceOk
<1>2. Part(src.prev) \in VecType /\ \A n \in DOMAIN src.days : Part(src.days[n]) \in VecType
  BY <1>1, PartType
<1>3. ASSUME NEW n \in Days, n = 1 \/ n - 1 \in Good
      PROVE  n \in Good
  <2>1. CASE n = 1
    BY <1>2, <2>1, UptoIs
  <2>2. CASE n # 1
    <3>1. Upto(src)[n - 1] \in VecType
      BY <1>3, <2>2
    <3>2. CASE n - 1 \in DOMAIN src.days
      <4>1. Upto(src)[n] = Plus(Upto(src)[n - 1], Part(src.days[n - 1]))
        BY <2>2, <3>2, UptoIs
      <4> QED BY <1>2, <3>1, <3>2, <4>1, PlusType
    <3>3. CASE n - 1 \notin DOMAIN src.days
      <4>1. Upto(src)[n] = Upto(src)[n - 1]
        BY <2>2, <3>3, UptoIs
      <4> QED BY <3>1, <4>1
    <3> QED BY <3>2, <3>3
  <2> QED BY <2>1, <2>2
<1>4. Days \subseteq Good
  <2> HIDE DEF Good
  <2> QED BY <1>3, DayInduction
<1> QED BY <1>4

\* Up to a day with no day of the source before it.
LEMMA UptoNone ==
  ASSUME NEW src, NEW d \in Days, \A x \in DOMAIN src.days : x \in Days => d <= x
  PROVE  Upto(src)[d] = Part(src.prev)
<1> DEFINE Good == {n \in Days : n <= d => Upto(src)[n] = Part(src.prev)}
<1>1. ASSUME NEW n \in Days, n = 1 \/ n - 1 \in Good
      PROVE  n \in Good
  <2>1. CASE n = 1
    BY <2>1, UptoIs
  <2>2. CASE n # 1 /\ n <= d
    <3>1. n - 1 \in Days /\ ~(d <= n - 1) /\ n - 1 <= d
      BY <2>2, Numbers
    <3>2. n - 1 \notin DOMAIN src.days
      BY <3>1
    <3>3. Upto(src)[n] = Upto(src)[n - 1]
      BY <2>2, <3>2, UptoIs
    <3>4. Upto(src)[n - 1] = Part(src.prev)
      BY <1>1, <2>2, <3>1
    <3> QED BY <3>3, <3>4
  <2>3. CASE ~(n <= d)
    BY <2>3
  <2> QED BY <2>1, <2>2, <2>3
<1>2. Days \subseteq Good
  <2> HIDE DEF Good
  <2> QED BY <1>1, DayInduction
<1>3. d \in Good /\ d <= d
  BY <1>2, Numbers
<1> QED BY <1>3

\* From a day of the source to the next one.
LEMMA UptoGap ==
  ASSUME NEW src, NEW c \in Days, NEW d \in Days, c < d, c \in DOMAIN src.days,
         \A x \in DOMAIN src.days : x \in Days => x <= c \/ d <= x
  PROVE  Upto(src)[d] = Plus(Upto(src)[c], Part(src.days[c]))
<1> DEFINE Good == {n \in Days : c < n /\ n <= d =>
                      Upto(src)[n] = Plus(Upto(src)[c], Part(src.days[c]))}
<1>0. c \in Int /\ d \in Int /\ \A n \in Days : n \in Int
  BY Numbers
<1>1. ASSUME NEW n \in Days, n = 1 \/ n - 1 \in Good
      PROVE  n \in Good
  <2>1. SUFFICES ASSUME c < n, n <= d
                 PROVE  Upto(src)[n] = Plus(Upto(src)[c], Part(src.days[c]))
    OBVIOUS
  <2>2. n # 1 /\ n \in Int
    BY <2>1, Numbers
  <2>3. CASE n - 1 = c
    BY <2>2, <2>3, UptoIs
  <2>4. CASE n - 1 # c
    <3>1. n - 1 \in Days /\ c < n - 1 /\ n - 1 <= d /\ ~(d <= n - 1)
      BY <2>1, <2>2, <2>4, Numbers
    <3>2. n - 1 \notin DOMAIN src.days
      BY <1>0, <3>1
    <3>3. Upto(src)[n] = Upto(src)[n - 1]
      BY <2>2, <3>2, UptoIs
    <3>4. Upto(src)[n - 1] = Plus(Upto(src)[c], Part(src.days[c]))
      BY <1>1, <2>2, <3>1
    <3> QED BY <3>3, <3>4
  <2> QED BY <2>3, <2>4
<1>2. Days \subseteq Good
  <2> HIDE DEF Good
  <2> QED BY <1>1, DayInduction
<1>3. d \in Good /\ d <= d
  BY <1>2, Numbers
<1> QED BY <1>3

\* replace_amount_() keeps the chain: the days of the source follow each other,
\* and the first day kept follows the last of them.
LEMMA ReplaceDays ==
  ASSUME NEW h \in [Days -> DayType], Blank(h), Chained(h), Founded(h),
         NEW src, src.there \in BOOLEAN, src.there => SourceOk(src),
         NEW k, k = Replace(h, src)
  PROVE  k \in [Days -> DayType] /\ Blank(k) /\ Chained(k) /\ Founded(k)
<1>1. CASE src.there /\ src.prevDay >= EndDay
  BY <1>1 DEF Replace
<1>2. CASE ~(src.there /\ src.prevDay >= EndDay)
  <2> DEFINE kept == {d \in There(h) : d >= EndDay}
             cut == IF kept = {} THEN Zero ELSE h[Min(kept)].before
             base == IF src.there THEN Upto(src)[EndDay] ELSE Zero
             S == {d \in Days : src.there /\ d \in DOMAIN src.days /\ d < EndDay}
             P == {d \in Days : src.there /\ d = src.prevDay}
  <2>0. /\ There(h) \subseteq Days /\ kept \subseteq Days
        /\ \A d \in Days : d \in Int /\ 1 <= d /\ EndDay \in Int /\ EndDay \in Days
    BY Numbers DEF There
  <2>1. /\ src.there => src.prevDay \in Int /\ src.prevDay >= 0 /\ src.prevDay < EndDay
        /\ src.there => \A d \in DOMAIN src.days : d \in Days /\ src.prevDay < d
        /\ src.there => (src.prevDay = 0 => src.prev = Zero) /\ src.prev \in VecType
        /\ src.there => src.prevDay \in Days \/ src.prevDay = 0
        /\ src.there => \A b \in Bids : src.prevDay <= b.day
        /\ src.there => \A d \in DOMAIN src.days : src.days[d] \in VecType
    BY <1>2, Numbers DEF SourceOk, Zero, Vec
  <2>2. \A d \in Days : h[d].before \in VecType /\ h[d].now \in VecType
    BY DEF DayType
  <2>3. kept # {} => Min(kept) \in kept /\ \A y \in kept : Min(kept) <= y
    <3> HIDE DEF kept
    <3> QED BY <2>0, DayMin
  <2>4. cut \in VecType
    <3>1. Zero \in VecType
      BY DEF Zero, Vec, VecType
    <3>2. kept # {} => Min(kept) \in Days
      BY <2>0, <2>3
    <3> HIDE DEF kept
    <3> QED BY <2>2, <3>1, <3>2
  <2>5. base \in VecType
    <3>1. Zero \in VecType
      BY DEF Zero, Vec, VecType
    <3>2. EndDay \in Days
      BY Numbers
    <3>3. src.there => Upto(src)[EndDay] \in VecType
      BY <3>2, UptoType
    <3> QED BY <3>1, <3>3
  <2>6. k = [d \in Days |->
              IF d \in kept
              THEN [h[d] EXCEPT !.before = Plus(Minus(h[d].before, cut), base)]
              ELSE IF src.there /\ d \in DOMAIN src.days /\ d < EndDay
              THEN [there |-> TRUE, before |-> Upto(src)[d], now |-> Part(src.days[d])]
              ELSE IF src.there /\ d = src.prevDay
              THEN [there |-> TRUE, before |-> Part(src.prev), now |-> Zero]
              ELSE NoDay]
    BY <1>2 DEF Replace
  <2> HIDE DEF cut, base
  <2>7. \A d \in kept : /\ k[d] \in DayType /\ k[d].there /\ k[d].now = h[d].now
                        /\ k[d].before = Plus(Minus(h[d].before, cut), base)
    <3>1. SUFFICES ASSUME NEW d \in kept
                   PROVE  /\ k[d] \in DayType /\ k[d].there /\ k[d].now = h[d].now
                          /\ k[d].before = Plus(Minus(h[d].before, cut), base)
      OBVIOUS
    <3>2. k[d] = [h[d] EXCEPT !.before = Plus(Minus(h[d].before, cut), base)]
      BY <2>0, <2>6
    <3>3. Plus(Minus(h[d].before, cut), base) \in VecType
      BY <2>0, <2>2, <2>4, <2>5, PlusType
    <3>4. h[d] \in DayType /\ h[d].there
      BY DEF There
    <3> QED BY <3>2, <3>3, <3>4 DEF DayType
  <2>8. \A d \in S : /\ k[d] \in DayType /\ k[d].there /\ d \notin kept
                     /\ k[d].before = Upto(src)[d] /\ k[d].now = Part(src.days[d])
    <3>1. SUFFICES ASSUME NEW d \in S
                   PROVE  /\ k[d] \in DayType /\ k[d].there /\ d \notin kept
                          /\ k[d].before = Upto(src)[d] /\ k[d].now = Part(src.days[d])
      OBVIOUS
    <3>2. d \notin kept
      BY <2>0
    <3>3. k[d] = [there |-> TRUE, before |-> Upto(src)[d], now |-> Part(src.days[d])]
      BY <2>6, <3>2
    <3>4. Upto(src)[d] \in VecType /\ Part(src.days[d]) \in VecType
      BY <2>1, UptoType, PartType
    <3> QED BY <3>2, <3>3, <3>4 DEF DayType
  <2>9. \A d \in P : /\ k[d] \in DayType /\ k[d].there /\ d \notin kept /\ d \notin S
                     /\ k[d].before = Part(src.prev) /\ k[d].now = Zero
    <3>1. SUFFICES ASSUME NEW d \in P
                   PROVE  /\ k[d] \in DayType /\ k[d].there /\ d \notin kept /\ d \notin S
                          /\ k[d].before = Part(src.prev) /\ k[d].now = Zero
      OBVIOUS
    <3>2. d \notin kept /\ d \notin S /\ d \notin DOMAIN src.days
      BY <2>0, <2>1
    <3>3. k[d] = [there |-> TRUE, before |-> Part(src.prev), now |-> Zero]
      BY <2>6, <3>2
    <3>4. Part(src.prev) \in VecType /\ Zero \in VecType
      BY <2>1, PartType DEF Zero, Vec, VecType
    <3> QED BY <3>2, <3>3, <3>4 DEF DayType
  <2>10. \A d \in Days : d \notin kept /\ d \notin S /\ d \notin P => k[d] = NoDay
    BY <2>6
  <2>11. There(k) = kept \cup S \cup P
    <3>1. kept \subseteq There(k) /\ S \subseteq There(k) /\ P \subseteq There(k)
      BY <2>0, <2>7, <2>8, <2>9 DEF There
    <3>2. \A d \in There(k) : d \in kept \/ d \in S \/ d \in P
      BY <2>10 DEF There, NoDay
    <3> QED BY <3>1, <3>2
  <2>12. k \in [Days -> DayType] /\ Blank(k)
    <3>1. \A d \in Days : k[d] \in DayType
      BY <2>7, <2>8, <2>9, <2>10, NoDayType
    <3>2. k = [d \in Days |-> k[d]]
      BY <2>6
    <3>3. Blank(k)
      BY <2>7, <2>8, <2>9, <2>10 DEF Blank
    <3> HIDE DEF kept, S, P
    <3> QED BY <3>1, <3>2, <3>3
  <2>13. ASSUME NEW d \in kept, \A x \in kept : d <= x
         PROVE  k[d].before = base
    <3>1. Min(kept) = d
      <4>1. Min(kept) \in kept /\ Min(kept) <= d /\ d <= Min(kept)
        BY <2>3, <2>13
      <4> QED BY <2>0, <4>1
    <3>2. cut = h[d].before
      BY <3>1 DEF cut
    <3>3. h[d].before \in VecType
      BY <2>0, <2>2
    <3> QED BY <2>5, <2>7, <3>2, <3>3, PlusZero
  <2>14. \A d \in S : /\ d \in Int /\ d < EndDay /\ d \in DOMAIN src.days /\ src.there
                      /\ src.prevDay < d /\ d \in Days
    BY <2>0, <2>1
  <2>15. \A d \in P : d \in Int /\ d < EndDay /\ src.there /\ d = src.prevDay /\ d \in Days
    BY <2>0, <2>1
  <2>16. \A d \in kept : d \in Int /\ d >= EndDay /\ d \in Days /\ d \in There(h)
    BY <2>0
  <2>17. src.there => \A x \in DOMAIN src.days : x < EndDay => x \in S
    BY <2>1
  <2>18. \A x \in There(h) : x >= EndDay => x \in kept
    OBVIOUS
  <2>19. src.there /\ src.prevDay # 0 => src.prevDay \in P
    BY <2>1
  <2>20. Zero \in VecType /\ (src.there => Part(src.prev) \in VecType)
    BY <2>1, PartType DEF Zero, Vec, VecType
  <2> HIDE DEF kept, S, P
  <2>21. Chained(k)
    <3>1. SUFFICES ASSUME NEW c \in There(k), NEW d \in There(k), c < d,
                          \A x \in There(k) : x <= c \/ d <= x
                   PROVE  k[d].before = Plus(k[c].before, k[c].now)
      BY DEF Chained
    <3>2. CASE c \in kept
      <4>1. d \in kept
        BY <2>0, <2>11, <2>14, <2>15, <2>16, <3>1, <3>2
      <4>2. \A x \in There(h) : x <= c \/ d <= x
        BY <2>0, <2>11, <2>16, <2>18, <3>1, <3>2
      <4>3. h[d].before = Plus(h[c].before, h[c].now)
        BY <2>16, <3>1, <3>2, <4>1, <4>2 DEF Chained
      <4>4. h[c].before \in VecType /\ h[c].now \in VecType
        BY <2>2, <2>16, <3>2
      <4>5. /\ k[d].before = Plus(Minus(Plus(h[c].before, h[c].now), cut), base)
            /\ k[c].before = Plus(Minus(h[c].before, cut), base) /\ k[c].now = h[c].now
        BY <2>7, <3>2, <4>1, <4>3
      <4> QED BY <2>4, <2>5, <4>4, <4>5, PlusShift
    <3>3. CASE c \notin kept /\ d \in kept
      <4>1. src.there /\ c \in Int /\ c < EndDay /\ c \in Days
        BY <2>11, <2>14, <2>15, <3>1, <3>3
      <4>2. \A x \in kept : d <= x
        BY <2>0, <2>11, <2>16, <3>1, <4>1
      <4>3. k[d].before = Upto(src)[EndDay]
        BY <2>13, <3>3, <4>1, <4>2 DEF base
      <4>4. \A x \in DOMAIN src.days : x <= c \/ EndDay <= x
        BY <2>0, <2>1, <2>11, <2>14, <2>16, <2>17, <3>1, <3>3, <4>1
      <4>5. CASE c \in S
        <5>1. Upto(src)[EndDay] = Plus(Upto(src)[c], Part(src.days[c]))
          BY <2>0, <2>14, <4>1, <4>4, <4>5, UptoGap
        <5> QED BY <2>8, <4>3, <4>5, <5>1
      <4>6. CASE c \in P
        <5>1. \A x \in DOMAIN src.days : EndDay <= x
          BY <2>0, <2>1, <2>15, <4>1, <4>4, <4>6
        <5>2. Upto(src)[EndDay] = Part(src.prev)
          BY <2>0, <4>1, <5>1, UptoNone
        <5> QED BY <2>9, <2>20, <4>1, <4>3, <4>6, <5>2, PlusZero
      <4> QED BY <2>11, <3>1, <3>3, <4>5, <4>6
    <3>4. CASE c \notin kept /\ d \notin kept
      <4>1. src.there /\ c \in Int /\ c < EndDay /\ c \in Days /\ d \in Int /\ d < EndDay
        BY <2>11, <2>14, <2>15, <3>1, <3>4
      <4>2. d \in S
        BY <2>11, <2>14, <2>15, <3>1, <3>4, <4>1
      <4>3. \A x \in DOMAIN src.days : x \in Days => x <= c \/ d <= x
        BY <2>0, <2>1, <2>11, <2>17, <3>1, <4>1
      <4>4. d \in Days
        BY <2>14, <4>2
      <4>5. CASE c \in S
        <5>1. Upto(src)[d] = Plus(Upto(src)[c], Part(src.days[c]))
          BY <2>14, <3>1, <4>1, <4>3, <4>4, <4>5, UptoGap
        <5> QED BY <2>8, <4>2, <4>5, <5>1
      <4>6. CASE c \in P
        <5>1. \A x \in DOMAIN src.days : x \in Days => d <= x
          BY <2>0, <2>1, <2>15, <4>1, <4>3, <4>6
        <5>2. Upto(src)[d] = Part(src.prev)
          BY <4>4, <5>1, UptoNone
        <5> QED BY <2>8, <2>9, <2>20, <4>1, <4>2, <4>6, <5>2, PlusZero
      <4> QED BY <2>11, <3>1, <3>4, <4>5, <4>6
    <3> QED BY <3>2, <3>3, <3>4
  <2>22. Founded(k)
    <3>1. SUFFICES ASSUME NEW f \in There(k), \A d \in There(k) : f <= d
                   PROVE  k[f].before = Zero \/ \A b \in Bids : f <= b.day
      BY DEF Founded
    <3>2. CASE f \in P
      BY <2>1, <2>15, <3>2
    <3>3. CASE f \notin P
      <4>1. src.there => src.prevDay = 0
        <5>1. SUFFICES ASSUME src.there, src.prevDay # 0 PROVE FALSE
          OBVIOUS
        <5>2. src.prevDay \in P /\ f <= src.prevDay
          BY <2>11, <2>19, <3>1, <5>1
        <5>3. src.prevDay \in Int /\ src.prevDay < EndDay /\ EndDay \in Int
          BY <2>1, <5>1, Numbers
        <5>4. CASE f \in S
          BY <2>14, <5>2, <5>3, <5>4
        <5>5. CASE f \in kept
          BY <2>16, <5>2, <5>3, <5>5
        <5> QED BY <2>11, <3>1, <3>3, <5>4, <5>5
      <4>2. src.there => Part(src.prev) = Zero
        BY <2>1, <4>1, PartType
      <4>3. CASE f \in S
        <5>1. \A x \in DOMAIN src.days : x \in Days => f <= x
          BY <2>0, <2>11, <2>14, <2>17, <3>1, <4>3
        <5>2. Upto(src)[f] = Part(src.prev)
          BY <2>14, <4>3, <5>1, UptoNone
        <5> QED BY <2>8, <2>14, <4>2, <4>3, <5>2
      <4>4. CASE f \in kept
        <5>1. k[f].before = base
          BY <2>11, <2>13, <3>1, <4>4
        <5>2. CASE src.there
          <6>1. \A x \in DOMAIN src.days : x \in Days => EndDay <= x
            BY <2>0, <2>11, <2>16, <2>17, <3>1, <4>4, <5>2
          <6>2. Upto(src)[EndDay] = Part(src.prev)
            BY <2>0, <2>16, <4>4, <6>1, UptoNone
          <6> QED BY <4>2, <5>1, <5>2, <6>2 DEF base
        <5>3. CASE ~src.there
          BY <5>1, <5>3 DEF base
        <5> QED BY <5>2, <5>3
      <4> QED BY <2>11, <3>1, <3>3, <4>3, <4>4
    <3> QED BY <3>2, <3>3
  <2> QED BY <2>12, <2>21, <2>22
<1> QED BY <1>1, <1>2

-----------------------------------------------------------------------------
(* The inductive invariant *)

\* Every holder is a chain of days.
DaysInv == \A e \in Entities : Blank(holder[e]) /\ Chained(holder[e]) /\ Founded(holder[e])

\* A call at p with bid b: what the levels have confirmed, what they are asked
\* for and what they still have to take back.
CallOk(p, b, cf, av, rv, r) ==
  /\ rv["ccg"] = 0
  /\ p \in {"idle", "account"} => r /\ \A l \in Levels : cf[l].amt = 0 /\ rv[l] = 0
  /\ p # "idle" =>
       \A l \in Levels : /\ Between(av[l].amt, Ask(b, l).amt)
                         /\ Between(cf[l].amt, Ask(b, l).amt)
  /\ p = "account" => \A l \in Levels : av[l].amt = Ask(b, l).amt
  /\ p = "campaign" =>
       /\ cf["campaign"].amt = 0 /\ cf["ccg"].amt = 0 /\ rv["campaign"] = 0
       /\ av["campaign"].amt = av["ccg"].amt
  /\ p = "ccg" =>
       cf["ccg"].amt = 0 /\ rv["campaign"] = 0 /\ av["ccg"].amt = cf["campaign"].amt
  /\ p \in {"rate", "revCcg", "revCampaign"} =>
       cf["ccg"].amt = cf["campaign"].amt - rv["campaign"]
  /\ p \in {"revAccount", "return"} => cf["ccg"].amt = cf["campaign"].amt
  /\ p \notin {"idle", "return", "assert"} => Between(cf["account"].amt - rv["account"], b.acc)
  /\ p # "idle" /\ r =>
       /\ \A l \in Levels : rv[l] = 0
       /\ p # "account" => cf["account"].amt = b.acc
       /\ p = "campaign" => av["campaign"].amt = b.amt
       /\ p \notin {"account", "campaign"} => cf["campaign"].amt = b.amt

CallInv(t) == CallOk(pc[t], bid[t], conf[t], avail[t], rev[t], res[t])
CallsInv == \A t \in Threads : CallInv(t)

StatInv == stat.at # "none" => stat.src \in Sources /\ stats > 0

\* The calls whose impressions are in the rate amounts, and what they added;
\* what each call has added to a level.
Counted(t) == pc[t] \in {"revCcg", "revCampaign", "revAccount", "return", "assert"}
RatedBy == [t \in Threads |-> IF Counted(t) THEN ConfirmedImps(bid[t], conf[t]) ELSE 0]
ConfBy(l) == [t \in Threads |-> conf[t][l].amt]

\* What a level counts is what the callers were told and what calls in progress
\* have added.
SumInv ==
  /\ stats = 0 =>
       /\ Total(holder["account"]).amt = paid.acc + SumOver(ConfBy("account"), Threads)
       /\ Total(holder["campaign"]).amt = paid.amt + SumOver(ConfBy("campaign"), Threads)
       /\ CcgTotal = paid.amt + SumOver(ConfBy("ccg"), Threads)
  /\ rated = paid.imps + SumOver(RatedBy, Threads)

IInv == TypeOK /\ DaysInv /\ CallsInv /\ StatInv /\ AnswerExact /\ SumInv
          /\ AccountWithinBudget /\ OvershootByOne

LEMMA NoBidNew == NoBid \notin Bids
<1>1. \A b \in Bids : "day" \in DOMAIN b
  BY ContainerAssumption DEF BidType
<1>2. "day" \notin DOMAIN NoBid
  BY DEF NoBid
<1> QED BY <1>1, <1>2

LEMMA Tables ==
  /\ AfterConfirm["account"] = "campaign" /\ AfterConfirm["campaign"] = "ccg"
  /\ AfterConfirm["ccg"] = "rate"
  /\ RevertPc["ccg"] = "revCcg" /\ RevertPc["campaign"] = "revCampaign"
  /\ RevertPc["account"] = "revAccount"
  /\ AfterRevert["ccg"] = "revCampaign" /\ AfterRevert["campaign"] = "revAccount"
  /\ AfterRevert["account"] = "return"
BY DEF AfterConfirm, RevertPc, AfterRevert

LEMMA EntityType ==
  ASSUME NEW b \in Bids, NEW l \in Levels
  PROVE  /\ Entity(b, l) \in Entities
         /\ Entity(b, "account") = "account" /\ Entity(b, "campaign") = "campaign"
         /\ Entity(b, "ccg") = b.ccg /\ b.ccg \in Ccgs
BY BidFacts DEF Entity, Entities

LEMMA EntityKinds ==
  /\ "account" \in Entities /\ "campaign" \in Entities /\ Ccgs \subseteq Entities
  /\ "account" \notin Ccgs /\ "campaign" \notin Ccgs
BY ContainerAssumption DEF Entities

LEMMA ZeroVecs ==
  /\ Zero \in VecType /\ Zero.amt = 0
  /\ NoVec \in [Levels -> VecType] /\ \A l \in Levels : NoVec[l].amt = 0
  /\ NoRev \in [Levels -> Int] /\ \A l \in Levels : NoRev[l] = 0
BY DEF NoVec, NoRev, Zero, Vec, VecType

-----------------------------------------------------------------------------
(* What one level answers *)

LEMMA ConfirmedFacts ==
  ASSUME TypeOK, NEW b \in Bids, NEW l \in Levels, NEW amt \in Int, amt # 0,
         NEW c, c = ConfirmedAt(b, l, amt)
  PROVE  /\ c.ok \in BOOLEAN /\ c.amt \in Int /\ Between(c.amt, amt)
         /\ c.ok \/ b.forced => c.amt = amt
         /\ l # "account" /\ ~c.ok /\ ~b.forced => c.amt = 0
         /\ l = "account" /\ ~b.forced /\ c.amt > 0 =>
              Total(holder["account"]).amt + c.amt <= Budget
         /\ l # "account" /\ ~b.forced /\ c.amt > 0
              /\ Limits[Entity(b, l)].budget # NoLimit =>
              Total(holder[Entity(b, l)]).amt < Limits[Entity(b, l)].budget
<1>1. PICK h : h = holder[Entity(b, l)]
  OBVIOUS
<1>2. h \in [Days -> DayType]
  BY <1>1, EntityType DEF TypeOK
<1>3. PICK T \in Int : T = Total(h).amt
  BY <1>2, TotalType DEF VecType
<1>4. b.forced \in BOOLEAN /\ Budget \in Int
  BY BidFacts, Numbers
<1>5. CASE l = "account"
  <2>1. c = ConfirmAccount(h, amt, b.forced) /\ h = holder["account"]
    BY <1>1, <1>5, EntityType DEF ConfirmedAt
  <2>2. PICK room \in BOOLEAN : room = (T < Budget)
    <3>1. (T < Budget) \in BOOLEAN
      OBVIOUS
    <3> QED BY <3>1
  <2>3. c = IF ~room /\ ~b.forced THEN [ok |-> FALSE, amt |-> 0]
            ELSE IF b.forced \/ Budget - T > amt THEN [ok |-> room, amt |-> amt]
            ELSE [ok |-> FALSE, amt |-> Budget - T]
    BY <1>3, <2>1, <2>2 DEF ConfirmAccount
  <2>4. room <=> T < Budget
    BY <2>2
  <2>5. /\ c.ok \in BOOLEAN /\ c.amt \in Int /\ Between(c.amt, amt)
        /\ c.ok \/ b.forced => c.amt = amt
        /\ ~b.forced /\ c.amt > 0 => T + c.amt <= Budget
    <3>1. CASE ~room /\ ~b.forced
      <4>0. c = [ok |-> FALSE, amt |-> 0]
        BY <2>3, <3>1, Zenon
      <4>1. c.ok = FALSE /\ c.amt = 0
        BY <4>0
      <4>2. c.ok \in BOOLEAN /\ ~c.ok
        BY <4>1, Zenon
      <4>3. c.amt \in Int /\ ~(c.amt > 0)
        BY <4>1
      <4>4. Between(c.amt, amt)
        BY <4>1 DEF Between
      <4> QED BY <3>1, <4>2, <4>3, <4>4
    <3>2. CASE ~(~room /\ ~b.forced) /\ (b.forced \/ Budget - T > amt)
      <4>0. c = [ok |-> room, amt |-> amt]
        BY <2>3, <3>2, Zenon
      <4>1. c.ok = room /\ c.amt = amt
        BY <4>0
      <4>2. ~b.forced => Budget - T > amt
        BY <3>2
      <4>3. ~b.forced => T + c.amt <= Budget
        BY <1>4, <4>1, <4>2
      <4> QED BY <4>1, <4>3 DEF Between
    <3>3. CASE ~(~room /\ ~b.forced) /\ ~(b.forced \/ Budget - T > amt)
      <4>1. c.ok = FALSE /\ c.amt = Budget - T
        BY <2>3, <3>3
      <4>2. room /\ ~b.forced /\ ~(Budget - T > amt)
        BY <3>3
      <4>3. c.amt \in Int /\ Between(c.amt, amt) /\ T + c.amt <= Budget
        BY <1>4, <2>4, <4>1, <4>2 DEF Between
      <4> QED BY <4>1, <4>2, <4>3
    <3> QED BY <3>1, <3>2, <3>3
  <2> QED BY <1>3, <1>5, <2>1, <2>5
<1>6. CASE l # "account"
  <2>1. PICK lim : lim = Limits[Entity(b, l)]
    OBVIOUS
  <2>2. PICK ok \in BOOLEAN : ok = (~ CheckRequired(lim) \/ Check(h, lim, b.day, amt))
    <3>1. (~ CheckRequired(lim) \/ Check(h, lim, b.day, amt)) \in BOOLEAN
      BY DEF CheckRequired, Check
    <3> QED BY <3>1
  <2>3. c.ok = ok /\ c.amt = IF ok \/ b.forced THEN amt ELSE 0
    BY <1>1, <1>6, <2>1, <2>2 DEF ConfirmedAt, ConfirmLevel
  <2>4. ASSUME ~b.forced, c.amt > 0, lim.budget # NoLimit
        PROVE  T < lim.budget
    <3>1. ok /\ amt > 0
      BY <2>3, <2>4
    <3>2. CheckRequired(lim)
      BY <2>4 DEF CheckRequired
    <3>3. Check(h, lim, b.day, amt)
      BY <2>2, <3>1, <3>2
    <3>4. Total(h).amt < BudgetOf(lim)
      BY <2>4, <3>1, <3>3 DEF Check
    <3> QED BY <1>3, <2>4, <3>4 DEF BudgetOf
  <2>5. c.ok \in BOOLEAN /\ c.amt \in Int /\ Between(c.amt, amt)
    BY <2>3 DEF Between
  <2>6. (c.ok \/ b.forced => c.amt = amt) /\ (~c.ok /\ ~b.forced => c.amt = 0)
    BY <2>3
  <2> QED BY <1>1, <1>3, <1>6, <2>1, <2>4, <2>5, <2>6
<1> QED BY <1>5, <1>6

-----------------------------------------------------------------------------
(* The sums over a step of one call *)

\* A step of t leaves the other calls alone.
OnlyCall(t) ==
  \A u \in Threads \ {t} :
    /\ pc'[u] = pc[u] /\ bid'[u] = bid[u] /\ conf'[u] = conf[u]
    /\ avail'[u] = avail[u] /\ rev'[u] = rev[u] /\ res'[u] = res[u]

\* A step adds x to the total of e.
Adds(e, x) ==
  /\ holder' \in [Entities -> [Days -> DayType]] /\ DaysInv'
  /\ Total(holder'[e]).amt = Total(holder[e]).amt + x
  /\ \A f \in Entities \ {e} : Total(holder'[f]).amt = Total(holder[f]).amt
  /\ CcgTotal' = CcgTotal + (IF e \in Ccgs THEN x ELSE 0)

LEMMA TotalInt ==
  ASSUME TypeOK
  PROVE  /\ \A e \in Entities : Total(holder[e]).amt \in Int
         /\ CcgTotal \in Int
<1>1. \A e \in Entities : Total(holder[e]).amt \in Int
  BY TotalType DEF TypeOK, VecType
<1>2. PICK f : f = [c \in Ccgs |-> Total(holder[c]).amt]
  OBVIOUS
<1>3. \A c \in Ccgs : f[c] \in Int
  BY <1>1, <1>2, EntityKinds
<1>4. IsFiniteSet(Ccgs)
  BY ContainerAssumption
<1>5. SumOver(f, Ccgs) \in Int
  BY <1>3, <1>4, SumType
<1> QED BY <1>1, <1>2, <1>5 DEF CcgTotal

LEMMA HolderSame ==
  ASSUME TypeOK, DaysInv, UNCHANGED holder, NEW e \in Entities
  PROVE  Adds(e, 0)
<1>1. holder' \in [Entities -> [Days -> DayType]] /\ DaysInv'
  BY DEF TypeOK, DaysInv
<1>2. CcgTotal' = CcgTotal
  BY DEF CcgTotal
<1> QED BY <1>1, <1>2, TotalInt DEF Adds

LEMMA HolderStep ==
  ASSUME TypeOK, DaysInv, NEW e \in Entities, NEW b \in Bids, NEW v \in VecType,
         holder' = [holder EXCEPT ![e] = AddAmount(holder[e], b.day, v)]
  PROVE  Adds(e, v.amt)
<1>1. PICK k : k = AddAmount(holder[e], b.day, v)
  OBVIOUS
<1>2. PICK h : h = holder[e]
  OBVIOUS
<1>3. /\ h \in [Days -> DayType] /\ Blank(h) /\ Chained(h) /\ Founded(h)
      /\ k = AddAmount(h, b.day, v) /\ b.day \in Days
  BY <1>1, <1>2, BidFacts DEF TypeOK, DaysInv
<1>4. k \in [Days -> DayType]
  <2>1. Added(h, k, b.day, v)
    BY <1>3, AddDays
  <2> QED BY <2>1 DEF Added
<1>5. Total(k) = Plus(Total(h), v) /\ Blank(k)
  BY <1>3, AddTotal
<1>6. Chained(k) /\ Founded(k)
  BY <1>3, AddChain
<1>7. holder \in [Entities -> [Days -> DayType]]
  BY DEF TypeOK
<1>8. holder' = [holder EXCEPT ![e] = k]
  BY <1>1
<1>9. holder' \in [Entities -> [Days -> DayType]]
  BY <1>4, <1>7, <1>8
<1>10. holder'[e] = k /\ \A f \in Entities \ {e} : holder'[f] = holder[f]
  BY <1>7, <1>8
<1>11. DaysInv'
  BY <1>5, <1>6, <1>10 DEF DaysInv
<1>12. Total(k).amt = Total(h).amt + v.amt /\ v.amt \in Int
  BY <1>3, <1>5, TotalType, PlusType, VecParts
<1>13. CcgTotal' = CcgTotal + (IF e \in Ccgs THEN v.amt ELSE 0)
  <2>1. PICK f : f = [c \in Ccgs |-> Total(holder[c]).amt]
    OBVIOUS
  <2>2. PICK g : g = [c \in Ccgs |-> Total(holder'[c]).amt]
    OBVIOUS
  <2>3. CcgTotal = SumOver(f, Ccgs) /\ CcgTotal' = SumOver(g, Ccgs)
    BY <2>1, <2>2 DEF CcgTotal
  <2>4. IsFiniteSet(Ccgs)
    BY ContainerAssumption
  <2>5. \A c \in Ccgs : f[c] \in Int
    BY <2>1, TotalInt, EntityKinds
  <2>6. \A c \in Ccgs \ {e} : g[c] = f[c]
    BY <1>10, <2>1, <2>2, EntityKinds
  <2>7. CASE e \in Ccgs
    <3>1. f[e] = Total(h).amt /\ g[e] = Total(h).amt + v.amt
      BY <1>2, <1>10, <1>12, <2>1, <2>2, <2>7
    <3>2. f[e] \in Int /\ g[e] = f[e] + v.amt /\ g[e] \in Int
      BY <1>12, <2>5, <2>7, <3>1
    <3>3. SumOver(g, Ccgs) = SumOver(f, Ccgs) - f[e] + g[e]
      BY <2>4, <2>5, <2>6, <2>7, <3>2, SumChange
    <3>4. SumOver(f, Ccgs) \in Int
      BY <2>4, <2>5, SumType
    <3> QED BY <1>12, <2>3, <2>7, <3>2, <3>3, <3>4
  <2>8. CASE e \notin Ccgs
    <3>1. \A c \in Ccgs : g[c] = f[c]
      BY <2>6, <2>8
    <3>2. SumOver(g, Ccgs) = SumOver(f, Ccgs)
      BY <2>4, <3>1, SumSame
    <3>3. CcgTotal \in Int
      BY TotalInt
    <3> QED BY <2>3, <2>8, <3>2, <3>3
  <2> QED BY <2>7, <2>8
<1> QED BY <1>2, <1>9, <1>10, <1>11, <1>12, <1>13 DEF Adds

LEMMA ConfSum ==
  ASSUME TypeOK, TypeOK', NEW t \in Threads, OnlyCall(t), NEW l \in Levels
  PROVE  /\ SumOver(ConfBy(l), Threads) \in Int
         /\ SumOver(ConfBy(l), Threads)' =
              SumOver(ConfBy(l), Threads) - conf[t][l].amt + conf'[t][l].amt
<1>1. PICK f : f = [u \in Threads |-> conf[u][l].amt]
  OBVIOUS
<1>2. PICK g : g = [u \in Threads |-> conf'[u][l].amt]
  OBVIOUS
<1>3. SumOver(ConfBy(l), Threads) = SumOver(f, Threads)
  BY <1>1 DEF ConfBy
<1>4. SumOver(ConfBy(l), Threads)' = SumOver(g, Threads)
  BY <1>2 DEF ConfBy
<1>5. IsFiniteSet(Threads)
  BY ContainerAssumption
<1>6. \A u \in Threads : conf[u][l].amt \in Int /\ conf'[u][l].amt \in Int
  <2>1. conf \in [Threads -> [Levels -> VecType]] /\ conf' \in [Threads -> [Levels -> VecType]]
    BY DEF TypeOK
  <2>2. \A u \in Threads : conf[u][l] \in VecType /\ conf'[u][l] \in VecType
    BY <2>1
  <2> QED BY <2>2, VecParts
<1>7. \A u \in Threads : f[u] \in Int /\ g[u] \in Int
  BY <1>1, <1>2, <1>6
<1>8. \A u \in Threads \ {t} : g[u] = f[u]
  BY <1>1, <1>2 DEF OnlyCall
<1>9. SumOver(g, Threads) = SumOver(f, Threads) - f[t] + g[t]
  BY <1>5, <1>7, <1>8, SumChange
<1>10. SumOver(f, Threads) \in Int
  BY <1>5, <1>7, SumType
<1> QED BY <1>1, <1>2, <1>3, <1>4, <1>9, <1>10

LEMMA ImpsType ==
  ASSUME NEW b \in Bids, NEW cf \in [Levels -> VecType]
  PROVE  ConfirmedImps(b, cf) \in Int
<1>1. cf["ccg"].amt \in Int /\ b.amt \in Int /\ b.imps \in Int
  BY BidFacts DEF VecType
<1>2. b.amt # 0 => DivDec(cf["ccg"].amt, b.amt) \in Nat
  BY <1>1, DivDecType
<1> QED BY <1>1, <1>2, MulDecType DEF ConfirmedImps

LEMMA RatedType ==
  ASSUME TypeOK, NEW t \in Threads
  PROVE  RatedBy[t] \in Int
<1>1. CASE Counted(t)
  <2>1. bid[t] \in Bids /\ conf[t] \in [Levels -> VecType]
    BY <1>1 DEF TypeOK, Counted
  <2> QED BY <1>1, <2>1, ImpsType DEF RatedBy
<1>2. CASE ~Counted(t)
  BY <1>2 DEF RatedBy
<1> QED BY <1>1, <1>2

LEMMA RatedTypes == TypeOK => \A u \in Threads : RatedBy[u] \in Int
BY RatedType

LEMMA RatedSum ==
  ASSUME TypeOK, TypeOK', NEW t \in Threads, OnlyCall(t)
  PROVE  /\ SumOver(RatedBy, Threads) \in Int
         /\ SumOver(RatedBy, Threads)' =
              SumOver(RatedBy, Threads) - RatedBy[t] + RatedBy'[t]
<1>1. PICK f : f = RatedBy
  OBVIOUS
<1>2. PICK g : g = RatedBy'
  OBVIOUS
<1>3. SumOver(RatedBy, Threads)' = SumOver(g, Threads)
  BY <1>2
<1>4. IsFiniteSet(Threads)
  BY ContainerAssumption
<1>5. \A u \in Threads : f[u] \in Int
  BY <1>1, RatedType
<1>6. \A u \in Threads : g[u] \in Int
  <2>1. (TypeOK => \A u \in Threads : RatedBy[u] \in Int)'
    BY RatedTypes, PTL
  <2> QED BY <1>2, <2>1
<1>7. \A u \in Threads \ {t} : g[u] = f[u]
  BY <1>1, <1>2 DEF OnlyCall, RatedBy, Counted
<1>8. SumOver(g, Threads) = SumOver(f, Threads) - f[t] + g[t]
  BY <1>4, <1>5, <1>6, <1>7, SumChange
<1>9. SumOver(f, Threads) \in Int
  BY <1>4, <1>5, SumType
<1> QED BY <1>1, <1>2, <1>3, <1>8, <1>9

\* A finite set of integers that is not empty has a greatest element.
LEMMA IntMax ==
  ASSUME NEW S, S \subseteq Int, S # {}, IsFiniteSet(S)
  PROVE  Max(S) \in S /\ \A y \in S : Max(S) >= y
<1> DEFINE Good == {T \in SUBSET S : T # {} => \E x \in T : \A y \in T : x >= y}
<1>1. ASSUME NEW T \in SUBSET S, \A x \in T : T \ {x} \in Good
      PROVE  T \in Good
  <2>1. SUFFICES ASSUME T # {} PROVE \E x \in T : \A y \in T : x >= y
    OBVIOUS
  <2>2. PICK x \in T : TRUE
    BY <2>1
  <2>3. CASE T \ {x} = {}
    BY <2>2, <2>3
  <2>4. CASE T \ {x} # {}
    <3>1. PICK z \in T \ {x} : \A y \in T \ {x} : z >= y
      BY <1>1, <2>4
    <3>2. x \in Int /\ z \in Int /\ \A y \in T : y \in Int
      BY <2>2, <3>1
    <3>3. CASE x >= z
      BY <2>2, <3>1, <3>2, <3>3
    <3>4. CASE z >= x
      BY <2>2, <3>1, <3>2, <3>4
    <3> QED BY <3>2, <3>3, <3>4
  <2> QED BY <2>3, <2>4
<1>2. S \in Good
  <2> HIDE DEF Good
  <2> QED BY <1>1, SubsetInduction
<1>3. \E x \in S : \A y \in S : x >= y
  BY <1>2
<1> QED BY <1>3 DEF Max

\* SumInv over a step of t that adds a, m and g on the three levels.
LEMMA SumsStep ==
  ASSUME TypeOK, TypeOK', SumInv, NEW t \in Threads, OnlyCall(t), UNCHANGED stats,
         NEW a \in Int, NEW m \in Int, NEW g \in Int,
         Total(holder'["account"]).amt = Total(holder["account"]).amt + a,
         Total(holder'["campaign"]).amt = Total(holder["campaign"]).amt + m,
         CcgTotal' = CcgTotal + g,
         paid'.acc + conf'[t]["account"].amt = paid.acc + conf[t]["account"].amt + a,
         paid'.amt + conf'[t]["campaign"].amt = paid.amt + conf[t]["campaign"].amt + m,
         paid'.amt + conf'[t]["ccg"].amt = paid.amt + conf[t]["ccg"].amt + g,
         rated' = rated + (paid'.imps - paid.imps) + (RatedBy'[t] - RatedBy[t])
  PROVE  SumInv'
<1>1. \A l \in Levels : conf[t][l].amt \in Int /\ conf'[t][l].amt \in Int
  <2>1. conf \in [Threads -> [Levels -> VecType]] /\ conf' \in [Threads -> [Levels -> VecType]]
    BY DEF TypeOK
  <2>2. \A l \in Levels : conf[t][l] \in VecType /\ conf'[t][l] \in VecType
    BY <2>1
  <2> QED BY <2>2, VecParts
<1>2. /\ paid.acc \in Int /\ paid.amt \in Int /\ paid.imps \in Int
      /\ paid'.acc \in Int /\ paid'.amt \in Int /\ paid'.imps \in Int
      /\ rated \in Int /\ rated' \in Int
  BY DEF TypeOK, LeftType
<1>3. RatedBy[t] \in Int /\ RatedBy'[t] \in Int
  <2>1. (TypeOK => \A u \in Threads : RatedBy[u] \in Int)'
    BY RatedTypes, PTL
  <2> QED BY <2>1, RatedType
<1>4. rated' = paid'.imps + SumOver(RatedBy, Threads)'
  <2>1. rated = paid.imps + SumOver(RatedBy, Threads)
    BY DEF SumInv
  <2> QED BY <1>2, <1>3, <2>1, RatedSum
<1>5. ASSUME stats = 0
      PROVE  Total(holder'["account"]).amt = paid'.acc + SumOver(ConfBy("account"), Threads)'
  <2>1. Total(holder["account"]).amt = paid.acc + SumOver(ConfBy("account"), Threads)
    BY <1>5 DEF SumInv
  <2>2. /\ SumOver(ConfBy("account"), Threads) \in Int
        /\ SumOver(ConfBy("account"), Threads)' =
             SumOver(ConfBy("account"), Threads) - conf[t]["account"].amt + conf'[t]["account"].amt
    BY ConfSum
  <2>3. PICK c \in Int, d \in Int : c = conf[t]["account"].amt /\ d = conf'[t]["account"].amt
    BY <1>1
  <2>4. PICK p \in Int, q \in Int : p = paid.acc /\ q = paid'.acc
    BY <1>2
  <2>5. PICK s \in Int, n \in Int : /\ s = SumOver(ConfBy("account"), Threads)
                                    /\ n = SumOver(ConfBy("account"), Threads)'
    BY <2>2, <1>1
  <2>6. n = s - c + d /\ q + d = p + c + a
    BY <2>2, <2>3, <2>4, <2>5
  <2>7. q + n = (p + s) + a
    BY ONLY p \in Int, q \in Int, s \in Int, c \in Int, d \in Int, a \in Int, <2>6
  <2> QED BY <2>1, <2>4, <2>5, <2>7
<1>6. ASSUME stats = 0
      PROVE  Total(holder'["campaign"]).amt = paid'.amt + SumOver(ConfBy("campaign"), Threads)'
  <2>1. Total(holder["campaign"]).amt = paid.amt + SumOver(ConfBy("campaign"), Threads)
    BY <1>6 DEF SumInv
  <2>2. /\ SumOver(ConfBy("campaign"), Threads) \in Int
        /\ SumOver(ConfBy("campaign"), Threads)' =
             SumOver(ConfBy("campaign"), Threads) - conf[t]["campaign"].amt + conf'[t]["campaign"].amt
    BY ConfSum
  <2>3. PICK c \in Int, d \in Int : c = conf[t]["campaign"].amt /\ d = conf'[t]["campaign"].amt
    BY <1>1
  <2>4. PICK p \in Int, q \in Int : p = paid.amt /\ q = paid'.amt
    BY <1>2
  <2>5. PICK s \in Int, n \in Int : /\ s = SumOver(ConfBy("campaign"), Threads)
                                    /\ n = SumOver(ConfBy("campaign"), Threads)'
    BY <2>2, <1>1
  <2>6. n = s - c + d /\ q + d = p + c + m
    BY <2>2, <2>3, <2>4, <2>5
  <2>7. q + n = (p + s) + m
    BY ONLY p \in Int, q \in Int, s \in Int, c \in Int, d \in Int, m \in Int, <2>6
  <2> QED BY <2>1, <2>4, <2>5, <2>7
<1>7. ASSUME stats = 0
      PROVE  CcgTotal' = paid'.amt + SumOver(ConfBy("ccg"), Threads)'
  <2>1. CcgTotal = paid.amt + SumOver(ConfBy("ccg"), Threads)
    BY <1>7 DEF SumInv
  <2>2. /\ SumOver(ConfBy("ccg"), Threads) \in Int
        /\ SumOver(ConfBy("ccg"), Threads)' =
             SumOver(ConfBy("ccg"), Threads) - conf[t]["ccg"].amt + conf'[t]["ccg"].amt
    BY ConfSum
  <2>3. PICK c \in Int, d \in Int : c = conf[t]["ccg"].amt /\ d = conf'[t]["ccg"].amt
    BY <1>1
  <2>4. PICK p \in Int, q \in Int : p = paid.amt /\ q = paid'.amt
    BY <1>2
  <2>5. PICK s \in Int, n \in Int : /\ s = SumOver(ConfBy("ccg"), Threads)
                                    /\ n = SumOver(ConfBy("ccg"), Threads)'
    BY <2>2, <1>1
  <2>6. n = s - c + d /\ q + d = p + c + g
    BY <2>2, <2>3, <2>4, <2>5
  <2>7. q + n = (p + s) + g
    BY ONLY p \in Int, q \in Int, s \in Int, c \in Int, d \in Int, g \in Int, <2>6
  <2> QED BY <2>1, <2>4, <2>5, <2>7
<1> QED BY <1>4, <1>5, <1>6, <1>7 DEF SumInv

LEMMA LargestBidType ==
  /\ LargestBid \in Int /\ LargestBid >= 1
  /\ \A b \in Bids : b.amt <= LargestBid
<1> DEFINE S == {1} \cup {b.amt : b \in Bids}
<1>1. S \subseteq Int /\ 1 \in S /\ \A b \in Bids : b.amt \in S
  BY BidFacts
<1>2. IsFiniteSet(S)
  <2>1. IsFiniteSet(Bids)
    BY ContainerAssumption
  <2>2. IsFiniteSet({b.amt : b \in Bids})
    <3>1. \A b \in Bids : b.amt \in {x.amt : x \in Bids}
      OBVIOUS
    <3> DEFINE f == [b \in Bids |-> b.amt]
    <3>2. f \in Surjection(Bids, {b.amt : b \in Bids})
      BY DEF Surjection
    <3> QED BY <2>1, <3>2, FS_Surjection
  <2>3. IsFiniteSet({1})
    BY FS_Singleton
  <2> QED BY <2>2, <2>3, FS_Union
<1>3. Max(S) \in S /\ \A y \in S : Max(S) >= y
  <2> HIDE DEF S
  <2> QED BY <1>1, <1>2, IntMax
<1> HIDE DEF S
<1>4. LargestBid = Max(S)
  BY DEF LargestBid, S
<1> QED BY <1>1, <1>3, <1>4

\* A level may add x, of which y counts as over its limits.
Allowed(e, x, y) ==
  \/ x <= y
  \/ e = "account" /\ Total(holder["account"]).amt + x <= Budget
  \/ /\ e # "account" /\ x <= LargestBid
     /\ Limits[e].budget # NoLimit => Total(holder[e]).amt < Limits[e].budget

\* The limits over a step that adds x to e, of which the part over the limits is y.
LEMMA LimitsStep ==
  ASSUME TypeOK, AccountWithinBudget, OvershootByOne, NEW e \in Entities, NEW x \in Int,
         UNCHANGED stats, Adds(e, x), NEW y \in Nat, over' = [over EXCEPT ![e] = @ + y],
         Allowed(e, x, y)
  PROVE  AccountWithinBudget' /\ OvershootByOne'
<1>1. over \in [Entities -> Nat] /\ over' \in [Entities -> Nat]
  <2>1. over \in [Entities -> Nat]
    BY DEF TypeOK
  <2>2. over[e] + y \in Nat
    BY <2>1
  <2> QED BY <2>1, <2>2
<1>2. \A f \in Entities : Total(holder[f]).amt \in Int /\ over[f] \in Nat /\ over'[f] \in Nat
  BY <1>1, TotalInt
<1>3. over'[e] = over[e] + y /\ \A f \in Entities \ {e} : over'[f] = over[f]
  BY <1>1
<1>4. /\ Total(holder'[e]).amt = Total(holder[e]).amt + x
      /\ \A f \in Entities \ {e} : Total(holder'[f]).amt = Total(holder[f]).amt
  BY DEF Adds
<1>5. AccountWithinBudget'
  <2>1. SUFFICES ASSUME stats = 0
                 PROVE  Total(holder'["account"]).amt - over'["account"] <= Budget
    BY DEF AccountWithinBudget
  <2>2. Total(holder["account"]).amt - over["account"] <= Budget
    BY <2>1 DEF AccountWithinBudget
  <2>3. CASE e # "account"
    BY <1>3, <1>4, <2>2, <2>3, EntityKinds
  <2>4. CASE e = "account"
    BY <1>2, <1>3, <1>4, <2>2, <2>4, Numbers DEF Allowed
  <2> QED BY <2>3, <2>4
<1>6. OvershootByOne'
  <2>1. SUFFICES ASSUME NEW f \in Entities \ {"account"}, Limits[f].budget # NoLimit, stats = 0
                 PROVE  Total(holder'[f]).amt - over'[f] < Limits[f].budget + LargestBid
    BY DEF OvershootByOne
  <2>2. Total(holder[f]).amt - over[f] < Limits[f].budget + LargestBid
    BY <2>1 DEF OvershootByOne
  <2>3. Limits[f].budget \in Int /\ LargestBid \in Int
    BY <2>1, ContainerAssumption, LargestBidType DEF LimitType, NoLimit
  <2>4. CASE f # e
    BY <1>3, <1>4, <2>2, <2>4
  <2>5. CASE f = e
    BY <1>2, <1>3, <1>4, <2>1, <2>2, <2>3, <2>5 DEF Allowed
  <2> QED BY <2>4, <2>5
<1> QED BY <1>5, <1>6

-----------------------------------------------------------------------------
(* One call *)

LEMMA AskAmts ==
  ASSUME NEW b \in Bids
  PROVE  /\ Ask(b, "account").amt = b.acc /\ Ask(b, "campaign").amt = b.amt
         /\ Ask(b, "ccg").amt = b.amt /\ b.acc \in Int /\ b.amt \in Int
BY BidFacts DEF Ask, Vec

LEMMA AmtTypes ==
  ASSUME NEW cf \in [Levels -> VecType], NEW l \in Levels
  PROVE  cf[l].amt \in Int /\ cf[l].imps \in Int
<1>1. cf[l] \in VecType
  OBVIOUS
<1> QED BY <1>1, VecParts

LEMMA CallSkip ==
  ASSUME NEW b \in Bids, NEW cf \in [Levels -> VecType], NEW av \in [Levels -> VecType],
         NEW rv \in [Levels -> Int], NEW r \in BOOLEAN, NEW l \in Levels,
         CallOk(l, b, cf, av, rv, r), av[l].amt = 0
  PROVE  CallOk(AfterConfirm[l], b, cf, av, rv, r)
<1>1. \A k \in Levels : cf[k].amt \in Int /\ av[k].amt \in Int /\ rv[k] \in Int
  BY AmtTypes
<1>2. \A k \in Levels : Between(av[k].amt, Ask(b, k).amt) /\ Between(cf[k].amt, Ask(b, k).amt)
  BY DEF CallOk
<1>3. CASE l = "account"
  BY <1>1, <1>2, <1>3, Tables, AskAmts DEF CallOk, Between
<1>4. CASE l = "campaign"
  BY <1>1, <1>2, <1>4, Tables, AskAmts DEF CallOk, Between
<1>5. CASE l = "ccg"
  BY <1>1, <1>2, <1>5, Tables, AskAmts DEF CallOk, Between
<1> QED BY <1>3, <1>4, <1>5

LEMMA CallPass ==
  ASSUME NEW b \in Bids, NEW cf \in [Levels -> VecType], NEW av \in [Levels -> VecType],
         NEW rv \in [Levels -> Int], NEW r \in BOOLEAN, NEW l \in Levels,
         CallOk(l, b, cf, av, rv, r),
         NEW cf2 \in [Levels -> VecType], NEW r2 \in BOOLEAN, r2 => r,
         cf2[l].amt = av[l].amt, \A k \in Levels \ {l} : cf2[k] = cf[k]
  PROVE  CallOk(AfterConfirm[l], b, cf2, av, rv, r2)
<1>1. \A k \in Levels : /\ cf[k].amt \in Int /\ av[k].amt \in Int /\ rv[k] \in Int
                        /\ cf2[k].amt \in Int
  BY AmtTypes
<1>2. \A k \in Levels : Between(av[k].amt, Ask(b, k).amt) /\ Between(cf2[k].amt, Ask(b, k).amt)
  BY DEF CallOk
<1>3. CASE l = "account"
  BY <1>1, <1>2, <1>3, Tables, AskAmts DEF CallOk, Between
<1>4. CASE l = "campaign"
  BY <1>1, <1>2, <1>4, Tables, AskAmts DEF CallOk, Between
<1>5. CASE l = "ccg"
  BY <1>1, <1>2, <1>5, Tables, AskAmts DEF CallOk, Between
<1> QED BY <1>3, <1>4, <1>5

\* What recalc_remind_amounts_() leaves.
LEMMA RecalcFacts ==
  ASSUME NEW b \in Bids, NEW cf \in [Levels -> VecType], NEW av \in [Levels -> VecType],
         NEW rv \in [Levels -> Int], NEW done \in SUBSET Levels,
         NEW av2, av2 = RecalcAvail(b, cf, av, done), NEW rv2, rv2 = RecalcRev(b, cf, rv, done)
  PROVE  /\ av2 \in [Levels -> VecType] /\ rv2 \in [Levels -> Int]
         /\ \A l \in Levels : Between(av2[l].amt, Ask(b, l).amt)
         /\ \A l \in Levels \ done : av2[l].amt = Target(b, cf, done, l) /\ rv2[l] = rv[l]
         /\ \A l \in done : av2[l].amt = 0
         /\ \A l \in done : \/ rv2[l] = cf[l].amt - Target(b, cf, done, l)
                            \/ rv2[l] = rv[l] /\ cf[l].amt = Target(b, cf, done, l)
<1>1. \A l \in Levels : /\ Target(b, cf, done, l) \in Int
                        /\ Between(Target(b, cf, done, l), Ask(b, l).amt)
                        /\ cf[l].amt \in Int /\ av[l] \in VecType /\ Ask(b, l).amt \in Int
  BY TargetBounds, AmtTypes, AskType, VecParts
<1>2. av2 = [l \in Levels |-> [av[l] EXCEPT !.amt =
                IF l \in done THEN 0 ELSE Target(b, cf, done, l)]]
  BY DEF RecalcAvail
<1>3. \A l \in Levels : /\ av2[l] \in VecType
                        /\ av2[l].amt = IF l \in done THEN 0 ELSE Target(b, cf, done, l)
  BY <1>1, <1>2 DEF VecType
<1>4. av2 \in [Levels -> VecType]
  BY <1>2, <1>3
<1>5. rv2 = [l \in Levels |->
               IF l \in done /\ Target(b, cf, done, l) # cf[l].amt
               THEN cf[l].amt - Target(b, cf, done, l) ELSE rv[l]]
  BY DEF RecalcRev
<1>6. rv2 \in [Levels -> Int]
  BY <1>1, <1>5
<1>7. \A l \in Levels : Between(av2[l].amt, Ask(b, l).amt)
  <2>1. \A l \in Levels : Between(0, Ask(b, l).amt)
    BY <1>1 DEF Between
  <2> QED BY <1>1, <1>3, <2>1
<1>8. \A l \in done : \/ rv2[l] = cf[l].amt - Target(b, cf, done, l)
                      \/ rv2[l] = rv[l] /\ cf[l].amt = Target(b, cf, done, l)
  BY <1>5
<1>9. \A l \in Levels \ done : av2[l].amt = Target(b, cf, done, l) /\ rv2[l] = rv[l]
  BY <1>3, <1>5
<1>10. \A l \in done : av2[l].amt = 0
  BY <1>3
<1> QED BY <1>4, <1>6, <1>7, <1>8, <1>9, <1>10

LEMMA CallShort ==
  ASSUME NEW b \in Bids, NEW cf \in [Levels -> VecType], NEW av \in [Levels -> VecType],
         NEW rv \in [Levels -> Int], NEW r \in BOOLEAN, NEW l \in Levels,
         CallOk(l, b, cf, av, rv, r), av[l].amt # 0,
         NEW cf2 \in [Levels -> VecType], Between(cf2[l].amt, av[l].amt),
         l # "account" => cf2[l].amt = 0, \A k \in Levels \ {l} : cf2[k] = cf[k],
         NEW av2, av2 = RecalcAvail(b, cf2, av, Done(l)),
         NEW rv2, rv2 = RecalcRev(b, cf2, rv, Done(l))
  PROVE  CallOk(AfterConfirm[l], b, cf2, av2, rv2, FALSE)
<1>1. \A k \in Levels : /\ cf[k].amt \in Int /\ av[k].amt \in Int /\ rv[k] \in Int
                        /\ cf2[k].amt \in Int /\ Ask(b, k).amt \in Int
  BY AmtTypes, AskType, VecParts
<1>2. \A k \in Levels : Between(av[k].amt, Ask(b, k).amt) /\ Between(cf[k].amt, Ask(b, k).amt)
  BY DEF CallOk
<1>3. \A k \in Levels : Between(cf2[k].amt, Ask(b, k).amt)
  <2>1. Between(cf2[l].amt, Ask(b, l).amt)
    BY <1>1, <1>2 DEF Between
  <2> QED BY <1>2, <2>1
<1>4. PICK done \in SUBSET Levels : done = Done(l) /\ l \in done
  BY DEF Done
<1>5. /\ av2 \in [Levels -> VecType] /\ rv2 \in [Levels -> Int]
      /\ \A k \in Levels : Between(av2[k].amt, Ask(b, k).amt)
      /\ \A k \in Levels \ done : av2[k].amt = Target(b, cf2, done, k) /\ rv2[k] = rv[k]
      /\ \A k \in done : av2[k].amt = 0
      /\ \A k \in done : \/ rv2[k] = cf2[k].amt - Target(b, cf2, done, k)
                         \/ rv2[k] = rv[k] /\ cf2[k].amt = Target(b, cf2, done, k)
  BY <1>4, RecalcFacts, SMTT(30)
<1>6. \A k \in Levels : /\ Target(b, cf2, done, k) \in Int
                        /\ Between(Target(b, cf2, done, k), Ask(b, k).amt)
  BY TargetBounds
<1>7. \A k \in Levels : av2[k].amt \in Int /\ rv2[k] \in Int
  BY <1>5, AmtTypes
<1>8. Ask(b, l).amt # 0
  BY <1>1, <1>2 DEF Between
<1>9. "account" \in done
  BY <1>4 DEF Done
<1>10. Between(cf["account"].amt - rv["account"], b.acc)
  BY DEF CallOk
<1>11. Between(cf2["account"].amt - rv2["account"], b.acc)
  <2>1. PICK T \in Int : T = Target(b, cf2, done, "account") /\ Between(T, b.acc)
    BY <1>6, AskAmts
  <2>2. rv2["account"] = cf2["account"].amt - T \/
          (rv2["account"] = rv["account"] /\ cf2["account"].amt = T)
    BY <1>5, <1>9, <2>1
  <2>3. CASE rv2["account"] = cf2["account"].amt - T
    BY <1>1, <1>7, <2>1, <2>3
  <2>4. CASE rv2["account"] = rv["account"] /\ cf2["account"].amt = T
    <3>1. CASE l = "account"
      <4>1. rv["account"] = 0
        BY <3>1 DEF CallOk
      <4> QED BY <1>1, <2>1, <2>4, <4>1
    <3>2. CASE l # "account"
      <4>1. cf2["account"] = cf["account"]
        BY <3>2
      <4> QED BY <1>10, <2>4, <4>1
    <3> QED BY <3>1, <3>2
  <2> QED BY <2>2, <2>3, <2>4
<1>12. CASE l = "account"
  <2>1. done = {"account"} /\ AfterConfirm[l] = "campaign"
    BY <1>4, <1>12, Tables DEF Done
  <2>2. rv["ccg"] = 0 /\ rv["campaign"] = 0 /\ cf["campaign"].amt = 0 /\ cf["ccg"].amt = 0
    BY <1>12 DEF CallOk
  <2>3. rv2["ccg"] = 0 /\ rv2["campaign"] = 0
    BY <1>5, <2>1, <2>2
  <2>4. cf2["campaign"].amt = 0 /\ cf2["ccg"].amt = 0
    BY <1>12, <2>2
  <2>5. av2["campaign"].amt = av2["ccg"].amt
    <3>1. Target(b, cf2, done, "campaign") = Target(b, cf2, done, "ccg")
      BY AskAmts DEF Target
    <3> QED BY <1>5, <2>1, <3>1
  <2> QED BY <1>3, <1>5, <1>11, <2>1, <2>3, <2>4, <2>5 DEF CallOk
<1>13. CASE l # "account"
  <2>1. \A k \in Levels : Target(b, cf2, done, k) = 0
    BY <1>4, <1>8, <1>13, TargetBounds
  <2>2. "campaign" \in done
    BY <1>4, <1>13 DEF Done
  <2>3. cf2["ccg"].amt = 0 /\ rv["ccg"] = 0 /\ rv["campaign"] = 0
    BY <1>13 DEF CallOk
  <2>4. rv2["ccg"] = 0
    BY <1>5, <2>1, <2>3
  <2>5. CASE l = "campaign"
    <3>1. done = {"account", "campaign"} /\ AfterConfirm[l] = "ccg"
      BY <1>4, <2>5, Tables DEF Done
    <3>2. cf2["campaign"].amt = 0 /\ rv2["campaign"] = 0
      BY <1>5, <2>1, <2>2, <2>3, <2>5
    <3>3. av2["ccg"].amt = 0
      BY <1>5, <2>1, <3>1
    <3> QED BY <1>3, <1>5, <1>11, <2>3, <2>4, <3>1, <3>2, <3>3 DEF CallOk
  <2>6. CASE l = "ccg"
    <3>1. AfterConfirm[l] = "rate"
      BY <2>6, Tables
    <3>2. cf2["ccg"].amt = cf2["campaign"].amt - rv2["campaign"]
      <4>1. rv2["campaign"] = cf2["campaign"].amt - 0 \/
              (rv2["campaign"] = rv["campaign"] /\ cf2["campaign"].amt = 0)
        BY <1>5, <2>1, <2>2
      <4> QED BY <1>1, <1>7, <2>3, <4>1
    <3> QED BY <1>3, <1>5, <1>11, <2>4, <3>1, <3>2 DEF CallOk
  <2> QED BY <1>13, <2>5, <2>6
<1> QED BY <1>12, <1>13

\* A revert, and the assertion instead of one.
LEMMA CallRevert ==
  ASSUME NEW b \in Bids, NEW cf \in [Levels -> VecType], NEW av \in [Levels -> VecType],
         NEW rv \in [Levels -> Int], NEW r \in BOOLEAN, NEW l \in Levels,
         CallOk(RevertPc[l], b, cf, av, rv, r),
         NEW cf2 \in [Levels -> VecType], cf2[l].amt = cf[l].amt - rv[l],
         \A k \in Levels \ {l} : cf2[k].amt = cf[k].amt
  PROVE  CallOk(AfterRevert[l], b, cf2, av, rv, r)
<1>1. \A k \in Levels : /\ cf[k].amt \in Int /\ av[k].amt \in Int /\ rv[k] \in Int
                        /\ cf2[k].amt \in Int
  BY AmtTypes
<1>2. \A k \in Levels : Between(av[k].amt, Ask(b, k).amt) /\ Between(cf[k].amt, Ask(b, k).amt)
  BY Tables DEF CallOk
<1>3. CASE l = "ccg"
  <2>1. \A k \in Levels : cf2[k].amt = cf[k].amt
    BY <1>1, <1>3 DEF CallOk
  <2> QED BY <1>1, <1>2, <1>3, <2>1, Tables, AskAmts DEF CallOk
<1>4. CASE l = "campaign"
  <2>1. /\ cf2["campaign"].amt = cf["ccg"].amt /\ cf2["ccg"].amt = cf["ccg"].amt
        /\ cf2["account"].amt = cf["account"].amt
    BY <1>1, <1>4, Tables DEF CallOk
  <2>2. r => \A k \in Levels : cf2[k].amt = cf[k].amt
    BY <1>1, <1>4, Tables DEF CallOk
  <2> QED BY <1>1, <1>2, <1>4, <2>1, <2>2, Tables, AskAmts DEF CallOk
<1>5. CASE l = "account"
  <2>1. /\ cf2["campaign"].amt = cf["campaign"].amt /\ cf2["ccg"].amt = cf["ccg"].amt
        /\ Between(cf2["account"].amt, b.acc)
    BY <1>1, <1>5, Tables DEF CallOk
  <2>2. r => \A k \in Levels : cf2[k].amt = cf[k].amt
    BY <1>1, <1>5, Tables DEF CallOk
  <2> QED BY <1>1, <1>2, <1>5, <2>1, <2>2, Tables, AskAmts DEF CallOk
<1> QED BY <1>3, <1>4, <1>5

LEMMA CallElse ==
  ASSUME NEW b \in Bids, NEW cf \in [Levels -> VecType], NEW av \in [Levels -> VecType],
         NEW rv \in [Levels -> Int], NEW r \in BOOLEAN
  PROVE  /\ \A l \in Levels : CallOk(RevertPc[l], b, cf, av, rv, r) =>
              CallOk("assert", b, cf, av, rv, r)
         /\ CallOk("rate", b, cf, av, rv, r) => CallOk("revCcg", b, cf, av, rv, r)
BY Tables DEF CallOk

-----------------------------------------------------------------------------
(* The steps *)

\* A step of t on level l that adds x there, of which y is over the limits.
StepOf(t, l, x, y) ==
  /\ TypeOK' /\ OnlyCall(t) /\ CallInv(t)'
  /\ Adds(Entity(bid[t], l), x)
  /\ over' = [over EXCEPT ![Entity(bid[t], l)] = @ + y]
  /\ Allowed(Entity(bid[t], l), x, y)
  /\ conf'[t][l].amt = conf[t][l].amt + x
  /\ \A k \in Levels \ {l} : conf'[t][k].amt = conf[t][k].amt
  /\ RatedBy'[t] = RatedBy[t]

LEMMA CallsStep ==
  ASSUME CallsInv, NEW t \in Threads, OnlyCall(t), CallInv(t)'
  PROVE  CallsInv'
<1>1. SUFFICES ASSUME NEW u \in Threads PROVE CallInv(u)'
  BY DEF CallsInv
<1>2. CASE u = t
  BY <1>2
<1>3. CASE u # t
  <2>1. CallInv(u)
    BY DEF CallsInv
  <2> QED BY <1>3, <2>1 DEF OnlyCall, CallInv
<1> QED BY <1>2, <1>3

LEMMA StepKeeps ==
  ASSUME IInv, NEW t \in Threads, NEW l \in Levels, NEW x \in Int, NEW y \in Nat,
         StepOf(t, l, x, y), bid[t] \in Bids, UNCHANGED <<paid, stats, answer, stat, rated>>
  PROVE  IInv'
<1>1. PICK e \in Entities : e = Entity(bid[t], l)
  BY EntityType
<1>2. TypeOK /\ TypeOK' /\ OnlyCall(t) /\ CallInv(t)' /\ Adds(e, x)
  BY <1>1 DEF IInv, StepOf
<1>3. CallsInv'
  BY <1>2, CallsStep DEF IInv
<1>4. DaysInv'
  BY <1>2 DEF Adds
<1>5. AccountWithinBudget' /\ OvershootByOne'
  <2>1. over' = [over EXCEPT ![e] = @ + y] /\ Allowed(e, x, y)
    BY <1>1 DEF StepOf
  <2>2. AccountWithinBudget /\ OvershootByOne /\ UNCHANGED stats
    BY DEF IInv
  <2> QED BY <1>2, <2>1, <2>2, LimitsStep
<1>6. AnswerExact' /\ StatInv'
  BY DEF IInv, AnswerExact, StatInv
<1>7. SumInv'
  <2>1. /\ Total(holder'[e]).amt = Total(holder[e]).amt + x
        /\ \A f \in Entities \ {e} : Total(holder'[f]).amt = Total(holder[f]).amt
        /\ CcgTotal' = CcgTotal + (IF e \in Ccgs THEN x ELSE 0)
    BY <1>2 DEF Adds
  <2>2. /\ conf'[t][l].amt = conf[t][l].amt + x
        /\ \A k \in Levels \ {l} : conf'[t][k].amt = conf[t][k].amt
        /\ RatedBy'[t] = RatedBy[t]
    BY DEF StepOf
  <2>3. /\ paid' = paid /\ stats' = stats /\ rated' = rated /\ SumInv
        /\ paid.acc \in Int /\ paid.amt \in Int /\ paid.imps \in Int /\ rated \in Int
    BY DEF IInv, TypeOK, LeftType
  <2>4. /\ \A f \in Entities : Total(holder[f]).amt \in Int
        /\ CcgTotal \in Int
    BY <1>2, TotalInt
  <2>5. \A k \in Levels : conf[t][k].amt \in Int
    <3>1. conf[t] \in [Levels -> VecType]
      BY <1>2 DEF TypeOK
    <3> QED BY <3>1, AmtTypes
  <2>6. RatedBy[t] \in Int
    BY <1>2, RatedType
  <2>7. rated' = rated + (paid'.imps - paid.imps) + (RatedBy'[t] - RatedBy[t])
    BY <2>2, <2>3, <2>6
  <2>8. CASE l = "account"
    <3>1. e = "account" /\ e \notin Ccgs
      BY <1>1, <2>8, EntityKinds DEF Entity
    <3>2. /\ Total(holder'["account"]).amt = Total(holder["account"]).amt + x
          /\ Total(holder'["campaign"]).amt = Total(holder["campaign"]).amt + 0
          /\ CcgTotal' = CcgTotal + 0
      BY <2>1, <2>4, <3>1, EntityKinds
    <3>3. /\ paid'.acc + conf'[t]["account"].amt = paid.acc + conf[t]["account"].amt + x
          /\ paid'.amt + conf'[t]["campaign"].amt = paid.amt + conf[t]["campaign"].amt + 0
          /\ paid'.amt + conf'[t]["ccg"].amt = paid.amt + conf[t]["ccg"].amt + 0
      BY <2>2, <2>3, <2>5, <2>8
    <3>4. 0 \in Int
      OBVIOUS
    <3> QED BY <1>2, <2>3, <2>7, <3>2, <3>3, <3>4, SumsStep
  <2>9. CASE l = "campaign"
    <3>1. e = "campaign" /\ e \notin Ccgs
      BY <1>1, <2>9, EntityKinds DEF Entity
    <3>2. /\ Total(holder'["account"]).amt = Total(holder["account"]).amt + 0
          /\ Total(holder'["campaign"]).amt = Total(holder["campaign"]).amt + x
          /\ CcgTotal' = CcgTotal + 0
      BY <2>1, <2>4, <3>1, EntityKinds
    <3>3. /\ paid'.acc + conf'[t]["account"].amt = paid.acc + conf[t]["account"].amt + 0
          /\ paid'.amt + conf'[t]["campaign"].amt = paid.amt + conf[t]["campaign"].amt + x
          /\ paid'.amt + conf'[t]["ccg"].amt = paid.amt + conf[t]["ccg"].amt + 0
      BY <2>2, <2>3, <2>5, <2>9
    <3>4. 0 \in Int
      OBVIOUS
    <3> QED BY <1>2, <2>3, <2>7, <3>2, <3>3, <3>4, SumsStep
  <2>10. CASE l = "ccg"
    <3>1. e \in Ccgs /\ e # "account" /\ e # "campaign"
      BY <1>1, <2>10, EntityKinds, BidFacts DEF Entity
    <3>2. /\ Total(holder'["account"]).amt = Total(holder["account"]).amt + 0
          /\ Total(holder'["campaign"]).amt = Total(holder["campaign"]).amt + 0
          /\ CcgTotal' = CcgTotal + x
      BY <2>1, <2>4, <3>1, EntityKinds
    <3>3. /\ paid'.acc + conf'[t]["account"].amt = paid.acc + conf[t]["account"].amt + 0
          /\ paid'.amt + conf'[t]["campaign"].amt = paid.amt + conf[t]["campaign"].amt + 0
          /\ paid'.amt + conf'[t]["ccg"].amt = paid.amt + conf[t]["ccg"].amt + x
      BY <2>2, <2>3, <2>5, <2>10
    <3>4. 0 \in Int
      OBVIOUS
    <3> QED BY <1>2, <2>3, <2>7, <3>2, <3>3, <3>4, SumsStep
  <2> QED BY <2>8, <2>9, <2>10
<1> QED BY <1>2, <1>3, <1>4, <1>5, <1>6, <1>7 DEF IInv

LEMMA BidOf ==
  ASSUME TypeOK, NEW t \in Threads, pc[t] # "idle"
  PROVE  /\ bid[t] \in Bids /\ conf[t] \in [Levels -> VecType] /\ avail[t] \in [Levels -> VecType]
         /\ rev[t] \in [Levels -> Int] /\ res[t] \in BOOLEAN
BY DEF TypeOK

LEMMA NextPcs ==
  \A l \in Levels : /\ AfterConfirm[l] \in Pcs \ {"idle"} /\ AfterRevert[l] \in Pcs \ {"idle"}
                    /\ RevertPc[l] \in {"revCcg", "revCampaign", "revAccount"}
                    /\ AfterConfirm[l] \in {"campaign", "ccg", "rate"}
                    /\ AfterRevert[l] \in {"revCampaign", "revAccount", "return"}
BY Tables DEF Pcs

LEMMA ConfirmSkip ==
  ASSUME IInv, NEW t \in Threads, NEW l \in Levels, Confirm(t, l), avail[t][l].amt = 0
  PROVE  StepOf(t, l, 0, 0)
<1>1. /\ pc[t] = l /\ pc' = [pc EXCEPT ![t] = AfterConfirm[l]]
      /\ UNCHANGED <<holder, conf, avail, rev, res, over, bid, answer, rated, stat, paid,
                     calls, stats>>
  BY DEF Confirm
<1>2. TypeOK /\ DaysInv /\ CallInv(t)
  BY DEF IInv, CallsInv
<1>3. /\ bid[t] \in Bids /\ conf[t] \in [Levels -> VecType] /\ avail[t] \in [Levels -> VecType]
      /\ rev[t] \in [Levels -> Int] /\ res[t] \in BOOLEAN
  BY <1>1, <1>2, BidOf
<1>4. pc'[t] = AfterConfirm[l] /\ \A u \in Threads \ {t} : pc'[u] = pc[u]
  BY <1>1, <1>2 DEF TypeOK
<1>5. TypeOK'
  <2>1. pc' \in [Threads -> Pcs]
    BY <1>1, <1>2, NextPcs DEF TypeOK
  <2>2. \A u \in Threads : bid[u] = NoBid <=> pc'[u] = "idle"
    BY <1>1, <1>2, <1>4, NextPcs DEF TypeOK
  <2> QED BY <1>1, <1>2, <2>1, <2>2 DEF TypeOK
<1>6. CallInv(t)'
  <2>1. CallOk(AfterConfirm[l], bid[t], conf[t], avail[t], rev[t], res[t])
    BY <1>1, <1>2, <1>3, CallSkip DEF CallInv
  <2> QED BY <1>1, <1>4, <2>1 DEF CallInv
<1>7. OnlyCall(t)
  BY <1>1, <1>4 DEF OnlyCall
<1>8. PICK e \in Entities : e = Entity(bid[t], l)
  BY <1>3, EntityType
<1>9. Adds(e, 0)
  BY <1>1, <1>2, HolderSame
<1>10. over' = [over EXCEPT ![e] = @ + 0] /\ Allowed(e, 0, 0)
  <2>1. over \in [Entities -> Nat]
    BY <1>2 DEF TypeOK
  <2> QED BY <1>1, <2>1 DEF Allowed
<1>11. \A k \in Levels : conf'[t][k].amt = conf[t][k].amt /\ conf[t][k].amt \in Int
  BY <1>1, <1>3, AmtTypes
<1>12. RatedBy'[t] = RatedBy[t]
  <2>1. ~Counted(t) /\ ~Counted(t)'
    BY <1>1, <1>4, NextPcs DEF Counted
  <2> QED BY <2>1 DEF RatedBy
<1> QED BY <1>5, <1>6, <1>7, <1>8, <1>9, <1>10, <1>11, <1>12 DEF StepOf

LEMMA ConfirmFull ==
  ASSUME IInv, NEW t \in Threads, NEW l \in Levels, Confirm(t, l), avail[t][l].amt # 0
  PROVE  \E x \in Int, y \in Nat : StepOf(t, l, x, y)
<1>1. PICK b, av, c, v, cf :
        /\ b = bid[t] /\ av = avail[t][l] /\ c = ConfirmedAt(b, l, av.amt)
        /\ v = IF c.amt = 0 THEN Zero ELSE Vec(c.amt, av.imps)
        /\ cf = [conf[t] EXCEPT ![l] = v]
  OBVIOUS
<1>2. PICK short \in BOOLEAN : short = (~ c.ok /\ ~ b.forced)
  <2>1. (~ c.ok /\ ~ b.forced) \in BOOLEAN
    OBVIOUS
  <2> QED BY <2>1
<1>3. /\ pc[t] = l /\ pc' = [pc EXCEPT ![t] = AfterConfirm[l]]
      /\ UNCHANGED <<bid, answer, rated, stat, paid, calls, stats>>
  BY DEF Confirm
<1>4. /\ holder' = [holder EXCEPT ![Entity(b, l)] =
                      IF c.amt = 0 THEN holder[Entity(b, l)]
                      ELSE AddAmount(holder[Entity(b, l)], b.day, v)]
      /\ conf' = [conf EXCEPT ![t] = cf]
      /\ res' = [res EXCEPT ![t] = res[t] /\ c.ok]
  BY <1>1 DEF Confirm
<1>5. /\ avail' = [avail EXCEPT ![t] =
                     IF short THEN RecalcAvail(b, cf, avail[t], Done(l)) ELSE avail[t]]
      /\ rev' = [rev EXCEPT ![t] =
                   IF short THEN RecalcRev(b, cf, rev[t], Done(l)) ELSE rev[t]]
      /\ over' = [over EXCEPT ![Entity(b, l)] =
                    IF b.forced /\ c.amt > 0 THEN over[Entity(b, l)] + c.amt
                    ELSE over[Entity(b, l)]]
  BY <1>1, <1>2 DEF Confirm
<1>6. TypeOK /\ DaysInv /\ CallInv(t)
  BY DEF IInv, CallsInv
<1>7. /\ b \in Bids /\ conf[t] \in [Levels -> VecType] /\ avail[t] \in [Levels -> VecType]
      /\ rev[t] \in [Levels -> Int] /\ res[t] \in BOOLEAN
  BY <1>1, <1>3, <1>6, BidOf
<1>8. av.amt \in Int /\ av.imps \in Int /\ av.amt # 0
  BY <1>1, <1>7, AmtTypes
<1>9. /\ c.ok \in BOOLEAN /\ c.amt \in Int /\ Between(c.amt, av.amt)
      /\ c.ok \/ b.forced => c.amt = av.amt
      /\ l # "account" /\ ~c.ok /\ ~b.forced => c.amt = 0
      /\ l = "account" /\ ~b.forced /\ c.amt > 0 =>
           Total(holder["account"]).amt + c.amt <= Budget
      /\ l # "account" /\ ~b.forced /\ c.amt > 0
           /\ Limits[Entity(b, l)].budget # NoLimit =>
           Total(holder[Entity(b, l)]).amt < Limits[Entity(b, l)].budget
  BY <1>1, <1>6, <1>7, <1>8, ConfirmedFacts
<1>10. v \in VecType /\ v.amt = c.amt
  BY <1>1, <1>8, <1>9 DEF Zero, Vec, VecType
<1>11. cf \in [Levels -> VecType] /\ cf[l].amt = c.amt /\ \A k \in Levels \ {l} : cf[k] = conf[t][k]
  BY <1>1, <1>7, <1>10
<1>12. PICK av2, rv2, r2 :
         /\ av2 = IF short THEN RecalcAvail(b, cf, avail[t], Done(l)) ELSE avail[t]
         /\ rv2 = IF short THEN RecalcRev(b, cf, rev[t], Done(l)) ELSE rev[t]
         /\ r2 = (res[t] /\ c.ok)
  OBVIOUS
<1>13. r2 \in BOOLEAN /\ (r2 => res[t] /\ c.ok)
  BY <1>12
<1>14. short <=> ~c.ok /\ ~b.forced
  BY <1>2
<1>15. /\ av2 \in [Levels -> VecType] /\ rv2 \in [Levels -> Int]
       /\ CallOk(AfterConfirm[l], b, cf, av2, rv2, r2)
  <2>1. CallOk(l, b, conf[t], avail[t], rev[t], res[t])
    BY <1>1, <1>3, <1>6 DEF CallInv
  <2>2. CASE short
    <3>1. /\ av2 = RecalcAvail(b, cf, avail[t], Done(l)) /\ rv2 = RecalcRev(b, cf, rev[t], Done(l))
      BY <1>12, <2>2
    <3>2. r2 = FALSE
      BY <1>12, <1>14, <2>2
    <3>3. Between(cf[l].amt, avail[t][l].amt) /\ (l # "account" => cf[l].amt = 0)
      BY <1>1, <1>9, <1>11, <1>14, <2>2
    <3>4. CallOk(AfterConfirm[l], b, cf, av2, rv2, FALSE)
      <4>1. PICK cf0, av0, rv0, r0 :
              cf0 = conf[t] /\ av0 = avail[t] /\ rv0 = rev[t] /\ r0 = res[t]
        OBVIOUS
      <4>2. /\ cf0 \in [Levels -> VecType] /\ av0 \in [Levels -> VecType]
            /\ rv0 \in [Levels -> Int] /\ r0 \in BOOLEAN
        BY <1>7, <4>1
      <4>3. /\ CallOk(l, b, cf0, av0, rv0, r0) /\ av0[l].amt # 0
            /\ Between(cf[l].amt, av0[l].amt) /\ \A k \in Levels \ {l} : cf[k] = cf0[k]
            /\ av2 = RecalcAvail(b, cf, av0, Done(l)) /\ rv2 = RecalcRev(b, cf, rv0, Done(l))
        BY <1>11, <2>1, <3>1, <3>3, <4>1
      <4>4. b \in Bids /\ l \in Levels /\ cf \in [Levels -> VecType]
        BY <1>7, <1>11
      <4>5. l # "account" => cf[l].amt = 0
        BY <3>3
      <4> HIDE DEF Levels
      <4> QED BY ONLY <4>2, <4>3, <4>4, <4>5, CallShort
    <3>5. Done(l) \in SUBSET Levels
      BY DEF Done
    <3>6. av2 \in [Levels -> VecType] /\ rv2 \in [Levels -> Int]
      BY <1>7, <1>11, <3>1, <3>5, RecalcFacts
    <3> QED BY <3>2, <3>4, <3>6
  <2>3. CASE ~short
    <3>1. av2 = avail[t] /\ rv2 = rev[t]
      BY <1>12, <2>3
    <3>2. cf[l].amt = avail[t][l].amt
      BY <1>1, <1>9, <1>11, <1>14, <2>3
    <3>3. CallOk(AfterConfirm[l], b, cf, avail[t], rev[t], r2)
      BY <1>7, <1>11, <1>13, <2>1, <3>2, CallPass
    <3> QED BY <1>7, <3>1, <3>3
  <2> QED BY <2>2, <2>3
<1>16. /\ avail' = [avail EXCEPT ![t] = av2] /\ rev' = [rev EXCEPT ![t] = rv2]
       /\ res' = [res EXCEPT ![t] = r2]
  BY <1>4, <1>5, <1>12
<1>17. /\ pc'[t] = AfterConfirm[l] /\ conf'[t] = cf /\ avail'[t] = av2 /\ rev'[t] = rv2
       /\ res'[t] = r2 /\ bid'[t] = b
  BY <1>1, <1>3, <1>4, <1>6, <1>16 DEF TypeOK
<1>18. OnlyCall(t)
  BY <1>3, <1>4, <1>6, <1>16 DEF TypeOK, OnlyCall
<1>19. CallInv(t)'
  BY <1>15, <1>17 DEF CallInv
<1>20. PICK e \in Entities : e = Entity(b, l)
  BY <1>7, EntityType
<1>21. Adds(e, c.amt)
  <2>1. CASE c.amt = 0
    <3>1. holder' = holder
      BY <1>4, <1>6, <2>1 DEF TypeOK
    <3> QED BY <1>6, <2>1, <3>1, HolderSame
  <2>2. CASE c.amt # 0
    <3>1. holder' = [holder EXCEPT ![e] = AddAmount(holder[e], b.day, v)]
      BY <1>4, <1>20, <2>2
    <3>2. Adds(e, v.amt)
      BY <1>6, <1>7, <1>10, <3>1, HolderStep
    <3> QED BY <1>10, <3>2
  <2> QED BY <2>1, <2>2
<1>22. PICK y \in Nat : /\ y = IF b.forced /\ c.amt > 0 THEN c.amt ELSE 0
                        /\ over' = [over EXCEPT ![e] = @ + y]
  <2>1. over \in [Entities -> Nat]
    BY <1>6 DEF TypeOK
  <2>2. CASE b.forced /\ c.amt > 0
    <3>0. over' = [over EXCEPT ![e] = @ + c.amt]
      BY <1>5, <1>20, <2>2, Zenon
    <3>1. c.amt \in Nat /\ over' = [over EXCEPT ![e] = @ + c.amt]
      BY <1>9, <2>2, <3>0
    <3> QED BY <2>2, <3>1
  <2>3. CASE ~(b.forced /\ c.amt > 0)
    <3>0. over' = [over EXCEPT ![e] = over[e]]
      BY <1>5, <1>20, <2>3, Zenon
    <3>1. over' = [over EXCEPT ![e] = over[e]] /\ over[e] + 0 = over[e]
      BY <2>1, <3>0
    <3>2. over' = [over EXCEPT ![e] = @ + 0] /\ 0 \in Nat
      BY <3>1
    <3> QED BY <2>3, <3>2
  <2> QED BY <2>2, <2>3
<1>23. TypeOK'
  <2>1. pc' \in [Threads -> Pcs]
    BY <1>3, <1>6, NextPcs DEF TypeOK
  <2>2. \A u \in Threads : bid'[u] = NoBid <=> pc'[u] = "idle"
    <3>1. bid' = bid /\ bid[t] # NoBid /\ pc'[t] # "idle"
      BY <1>3, <1>6, <1>17, NextPcs DEF TypeOK
    <3> QED BY <1>6, <1>18, <3>1 DEF TypeOK, OnlyCall
  <2>3. conf' \in [Threads -> [Levels -> VecType]] /\ avail' \in [Threads -> [Levels -> VecType]]
    BY <1>4, <1>6, <1>11, <1>15, <1>16 DEF TypeOK
  <2>4. rev' \in [Threads -> [Levels -> Int]] /\ res' \in [Threads -> BOOLEAN]
    BY <1>6, <1>13, <1>15, <1>16 DEF TypeOK
  <2>5. over' \in [Entities -> Nat]
    <3>1. over \in [Entities -> Nat]
      BY <1>6 DEF TypeOK
    <3>2. over[e] + y \in Nat
      BY <1>20, <1>22, <3>1
    <3> QED BY <1>22, <3>1, <3>2
  <2>6. holder' \in [Entities -> [Days -> DayType]]
    BY <1>21 DEF Adds
  <2> QED BY <1>3, <1>6, <2>1, <2>2, <2>3, <2>4, <2>5, <2>6 DEF TypeOK
<1>24. Allowed(e, c.amt, y)
  <2>1. CASE b.forced
    <3>1. c.amt <= y
      BY <1>9, <1>22, <2>1
    <3> QED BY <3>1 DEF Allowed
  <2>2. CASE ~b.forced /\ ~(c.amt > 0)
    <3>1. c.amt <= y
      BY <1>9, <1>22, <2>2
    <3> QED BY <3>1 DEF Allowed
  <2>3. CASE ~b.forced /\ c.amt > 0 /\ l = "account"
    <3>1. e = "account"
      BY <1>20, <2>3 DEF Entity
    <3> QED BY <1>9, <2>3, <3>1 DEF Allowed
  <2>4. CASE ~b.forced /\ c.amt > 0 /\ l # "account"
    <3>1. e # "account"
      BY <1>7, <1>20, <2>4, EntityKinds, BidFacts DEF Entity
    <3>2. c.amt <= LargestBid
      <4>1. Between(av.amt, b.amt) /\ b.amt \in Int
        BY <1>1, <1>3, <1>6, <1>7, <2>4, AskAmts DEF CallInv, CallOk
      <4>2. c.amt <= b.amt
        BY <1>8, <1>9, <2>4, <4>1 DEF Between
      <4>3. b.amt <= LargestBid /\ LargestBid \in Int
        BY <1>7, LargestBidType
      <4> QED BY <1>9, <4>1, <4>2, <4>3
    <3> QED BY <1>9, <1>20, <2>4, <3>1, <3>2 DEF Allowed
  <2> QED BY <2>1, <2>2, <2>3, <2>4
<1>25. conf[t][l].amt = 0
  BY <1>3, <1>6 DEF CallInv, CallOk
<1>26. conf'[t][l].amt = conf[t][l].amt + c.amt /\ \A k \in Levels \ {l} : conf'[t][k].amt = conf[t][k].amt
  BY <1>9, <1>11, <1>17, <1>25
<1>27. RatedBy'[t] = RatedBy[t]
  <2>1. ~Counted(t) /\ ~Counted(t)'
    BY <1>3, <1>17, NextPcs DEF Counted
  <2> QED BY <2>1 DEF RatedBy
<1>28. StepOf(t, l, c.amt, y)
  BY <1>1, <1>18, <1>19, <1>20, <1>21, <1>22, <1>23, <1>24, <1>26, <1>27 DEF StepOf
<1> QED BY <1>9, <1>28

LEMMA RevertStep ==
  ASSUME IInv, NEW t \in Threads, NEW l \in Levels, Revert(t, l)
  PROVE  \E x \in Int, y \in Nat : StepOf(t, l, x, y)
<1>1. PICK b, e, back : b = bid[t] /\ e = Entity(b, l) /\ back = rev[t][l]
  OBVIOUS
<1>2. /\ pc[t] = RevertPc[l]
      /\ UNCHANGED <<bid, avail, rev, res, answer, rated, stat, paid, calls, stats>>
  BY DEF Revert
<1>3. TypeOK /\ DaysInv /\ CallInv(t)
  BY DEF IInv, CallsInv
<1>4. pc[t] # "idle" /\ Counted(t)
  BY <1>2, NextPcs DEF Counted
<1>5. /\ b \in Bids /\ conf[t] \in [Levels -> VecType] /\ avail[t] \in [Levels -> VecType]
      /\ rev[t] \in [Levels -> Int] /\ res[t] \in BOOLEAN
  BY <1>1, <1>3, <1>4, BidOf
<1>6. e \in Entities /\ back \in Int
  BY <1>1, <1>5, EntityType
<1>7. \A k \in Levels : conf[t][k].amt \in Int
  BY <1>5, AmtTypes
<1>8. over \in [Entities -> Nat] /\ conf \in [Threads -> [Levels -> VecType]] /\ pc \in [Threads -> Pcs]
  BY <1>3 DEF TypeOK
<1>9. CallOk(RevertPc[l], b, conf[t], avail[t], rev[t], res[t])
  BY <1>1, <1>2, <1>3 DEF CallInv
<1>10. ASSUME NEW p \in Pcs \ {"idle"}, pc' = [pc EXCEPT ![t] = p]
       PROVE  /\ pc' \in [Threads -> Pcs] /\ pc'[t] = p
              /\ \A u \in Threads : bid'[u] = NoBid <=> pc'[u] = "idle"
              /\ \A u \in Threads \ {t} : pc'[u] = pc[u]
  <2>1. pc' \in [Threads -> Pcs] /\ pc'[t] = p /\ \A u \in Threads \ {t} : pc'[u] = pc[u]
    BY <1>8, <1>10
  <2>2. bid' = bid /\ bid[t] # NoBid
    BY <1>2, <1>3, <1>4 DEF TypeOK
  <2>3. \A u \in Threads : bid[u] = NoBid <=> pc[u] = "idle"
    BY <1>3 DEF TypeOK
  <2> QED BY <1>10, <2>1, <2>2, <2>3
<1>11. ASSUME NEW p \in {AfterRevert[l], "assert"}, pc' = [pc EXCEPT ![t] = p],
              UNCHANGED <<holder, conf, over>>,
              CallOk(p, b, conf[t], avail[t], rev[t], res[t])
       PROVE  StepOf(t, l, 0, 0)
  <2>1. p \in Pcs \ {"idle"} /\ p \in {"revCampaign", "revAccount", "return", "assert"}
    BY <1>11, NextPcs DEF Pcs
  <2>2. /\ pc' \in [Threads -> Pcs] /\ pc'[t] = p
        /\ \A u \in Threads : bid'[u] = NoBid <=> pc'[u] = "idle"
        /\ \A u \in Threads \ {t} : pc'[u] = pc[u]
    BY <1>10, <1>11, <2>1
  <2>3. TypeOK'
    BY <1>2, <1>3, <1>11, <2>2 DEF TypeOK
  <2>4. CallInv(t)'
    BY <1>1, <1>2, <1>11, <2>2 DEF CallInv
  <2>5. OnlyCall(t)
    BY <1>2, <1>11, <2>2 DEF OnlyCall
  <2>6. Adds(e, 0)
    BY <1>3, <1>6, <1>11, HolderSame
  <2>7. over' = [over EXCEPT ![e] = @ + 0] /\ Allowed(e, 0, 0)
    <3>1. over[e] + 0 = over[e]
      BY <1>6, <1>8
    <3> QED BY <1>8, <1>11, <3>1 DEF Allowed
  <2>8. \A k \in Levels : conf'[t][k].amt = conf[t][k].amt /\ conf[t][k].amt + 0 = conf[t][k].amt
    BY <1>7, <1>11
  <2>9. RatedBy'[t] = RatedBy[t]
    <3>1. Counted(t)'
      BY <2>1, <2>2 DEF Counted
    <3> QED BY <1>2, <1>4, <1>11, <3>1 DEF RatedBy
  <2> QED BY <1>1, <2>3, <2>4, <2>5, <2>6, <2>7, <2>8, <2>9 DEF StepOf
<1>12. CASE back = 0
  <2>1. pc' = [pc EXCEPT ![t] = AfterRevert[l]] /\ UNCHANGED <<holder, conf, over>>
    BY <1>1, <1>12 DEF Revert
  <2>2. CallOk(AfterRevert[l], b, conf[t], avail[t], rev[t], res[t])
    <3>1. conf[t][l].amt = conf[t][l].amt - rev[t][l]
      BY <1>1, <1>7, <1>12
    <3> QED BY <1>5, <1>9, <3>1, CallRevert
  <2>3. StepOf(t, l, 0, 0)
    BY <1>11, <2>1, <2>2
  <2> QED BY <2>3
<1>13. CASE back # 0 /\ There(holder[e]) = {}
  <2>1. pc' = [pc EXCEPT ![t] = "assert"] /\ UNCHANGED <<holder, conf, over>>
    BY <1>1, <1>13 DEF Revert
  <2>2. CallOk("assert", b, conf[t], avail[t], rev[t], res[t])
    BY <1>5, <1>9, CallElse
  <2>3. StepOf(t, l, 0, 0)
    BY <1>11, <2>1, <2>2
  <2> QED BY <2>3
<1>14. CASE back # 0 /\ There(holder[e]) # {}
  <2>1. l # "ccg"
    BY <1>1, <1>9, <1>14 DEF CallOk
  <2>2. PICK v : v = Vec(-back, 0)
    OBVIOUS
  <2>3. /\ pc' = [pc EXCEPT ![t] = AfterRevert[l]]
        /\ holder' = [holder EXCEPT ![e] = AddAmount(holder[e], b.day, v)]
        /\ over' = [over EXCEPT ![e] = IF back < 0 THEN @ - back ELSE @]
    BY <1>1, <1>14, <2>2 DEF Revert
  <2>4. PICK cf : cf = [conf[t] EXCEPT ![l] = [conf[t][l] EXCEPT !.amt = conf[t][l].amt - back]]
    OBVIOUS
  <2>5. conf' = [conf EXCEPT ![t] = cf]
    BY <1>1, <1>14, <2>1, <2>4 DEF Revert
  <2>6. /\ cf \in [Levels -> VecType] /\ cf[l].amt = conf[t][l].amt - back
        /\ \A k \in Levels \ {l} : cf[k] = conf[t][k]
    <3>1. conf[t][l] \in VecType /\ conf[t][l].amt - back \in Int
      BY <1>5, <1>6, <1>7
    <3>2. PICK w : w = [conf[t][l] EXCEPT !.amt = conf[t][l].amt - back]
      OBVIOUS
    <3>3. w \in VecType /\ w.amt = conf[t][l].amt - back
      BY <3>1, <3>2 DEF VecType
    <3> QED BY <1>5, <2>4, <3>2, <3>3
  <2>7. CallOk(AfterRevert[l], b, cf, avail[t], rev[t], res[t])
    <3>1. cf[l].amt = conf[t][l].amt - rev[t][l] /\ \A k \in Levels \ {l} : cf[k].amt = conf[t][k].amt
      BY <1>1, <2>6
    <3>2. cf \in [Levels -> VecType] /\ l \in Levels
      BY <2>6
    <3> HIDE DEF Levels
    <3> QED BY ONLY <1>5, <1>9, <3>1, <3>2, CallRevert
  <2>8. AfterRevert[l] \in Pcs \ {"idle"} /\ AfterRevert[l] \in {"revCampaign", "revAccount", "return"}
    BY NextPcs
  <2>9. /\ pc' \in [Threads -> Pcs] /\ pc'[t] = AfterRevert[l]
        /\ \A u \in Threads : bid'[u] = NoBid <=> pc'[u] = "idle"
        /\ \A u \in Threads \ {t} : pc'[u] = pc[u]
    BY <1>10, <2>3, <2>8
  <2>10. conf'[t] = cf /\ (\A u \in Threads \ {t} : conf'[u] = conf[u])
           /\ conf' \in [Threads -> [Levels -> VecType]]
    BY <1>8, <2>5, <2>6
  <2>11. v \in VecType /\ v.amt = -back
    BY <1>6, <2>2 DEF Vec, VecType
  <2>12. Adds(e, -back)
    <3>1. Adds(e, v.amt)
      BY <1>3, <1>5, <1>6, <2>3, <2>11, HolderStep
    <3> QED BY <2>11, <3>1
  <2>13. PICK y \in Nat : /\ y = IF back < 0 THEN -back ELSE 0
                          /\ over' = [over EXCEPT ![e] = @ + y]
    <3>1. over[e] \in Nat
      BY <1>6, <1>8
    <3>2. CASE back < 0
      <4>1. -back \in Nat /\ over[e] - back = over[e] + (-back)
        BY <1>6, <3>1, <3>2
      <4> QED BY <2>3, <3>2, <4>1
    <3>3. CASE ~(back < 0)
      <4>1. over[e] = over[e] + 0 /\ 0 \in Nat
        BY <3>1
      <4> QED BY <2>3, <3>3, <4>1
    <3> QED BY <3>2, <3>3
  <2>14. over' \in [Entities -> Nat]
    <3>1. over[e] + y \in Nat
      BY <1>6, <1>8, <2>13
    <3> QED BY <1>8, <2>13, <3>1
  <2>15. Allowed(e, -back, y)
    BY <1>6, <2>13 DEF Allowed
  <2>16. TypeOK'
    <3>1. holder' \in [Entities -> [Days -> DayType]]
      BY <2>12 DEF Adds
    <3> QED BY <1>2, <1>3, <2>9, <2>10, <2>14, <3>1 DEF TypeOK
  <2>17. CallInv(t)'
    BY <1>1, <1>2, <2>7, <2>9, <2>10 DEF CallInv
  <2>18. OnlyCall(t)
    BY <1>2, <2>9, <2>10 DEF OnlyCall
  <2>19. RatedBy'[t] = RatedBy[t]
    <3>1. Counted(t)'
      BY <2>8, <2>9 DEF Counted
    <3>2. cf["ccg"] = conf[t]["ccg"]
      BY <2>1, <2>6
    <3>3. ConfirmedImps(b, cf) = ConfirmedImps(b, conf[t])
      BY <3>2 DEF ConfirmedImps
    <3> QED BY <1>1, <1>2, <1>4, <2>10, <3>1, <3>3 DEF RatedBy
  <2>20. conf'[t][l].amt = conf[t][l].amt + (-back) /\ \A k \in Levels \ {l} : conf'[t][k].amt = conf[t][k].amt
    BY <1>6, <1>7, <2>6, <2>10
  <2>21. StepOf(t, l, -back, y)
    BY <1>1, <2>12, <2>13, <2>15, <2>16, <2>17, <2>18, <2>19, <2>20 DEF StepOf
  <2>22. -back \in Int
    BY <1>6
  <2> QED BY <2>21, <2>22
<1> QED BY <1>12, <1>13, <1>14

LEMMA ConfirmKeeps ==
  ASSUME IInv, NEW t \in Threads, NEW l \in Levels, Confirm(t, l) \/ Revert(t, l)
  PROVE  IInv'
<1>1. CASE Confirm(t, l)
  <2>1. bid[t] \in Bids /\ UNCHANGED <<paid, stats, answer, stat, rated>>
    BY <1>1, BidOf DEF Confirm, IInv
  <2>2. \E x \in Int, y \in Nat : StepOf(t, l, x, y)
    <3>1. CASE avail[t][l].amt = 0
      BY <1>1, <3>1, ConfirmSkip
    <3>2. CASE avail[t][l].amt # 0
      BY <1>1, <3>2, ConfirmFull
    <3> QED BY <3>1, <3>2
  <2> QED BY <2>1, <2>2, StepKeeps
<1>2. CASE Revert(t, l)
  <2>1. bid[t] \in Bids /\ UNCHANGED <<paid, stats, answer, stat, rated>>
    BY <1>2, BidOf, NextPcs DEF Revert, IInv
  <2>2. \E x \in Int, y \in Nat : StepOf(t, l, x, y)
    BY <1>2, RevertStep
  <2> QED BY <2>1, <2>2, StepKeeps
<1> QED BY <1>1, <1>2

\* A step of t that touches no holder.
LEMMA QuietKeeps ==
  ASSUME IInv, NEW t \in Threads, TypeOK', OnlyCall(t), CallInv(t)', AnswerExact',
         UNCHANGED <<holder, over, stats, stat>>,
         paid'.acc + conf'[t]["account"].amt = paid.acc + conf[t]["account"].amt,
         paid'.amt + conf'[t]["campaign"].amt = paid.amt + conf[t]["campaign"].amt,
         paid'.amt + conf'[t]["ccg"].amt = paid.amt + conf[t]["ccg"].amt,
         rated' = rated + (paid'.imps - paid.imps) + (RatedBy'[t] - RatedBy[t])
  PROVE  IInv'
<1>1. TypeOK /\ DaysInv /\ CallsInv /\ StatInv /\ SumInv
  BY DEF IInv
<1>2. CallsInv'
  BY <1>1, CallsStep
<1>3. DaysInv' /\ StatInv' /\ AccountWithinBudget' /\ OvershootByOne'
  BY DEF IInv, DaysInv, StatInv, AccountWithinBudget, OvershootByOne
<1>4. SumInv'
  <2>1. \A l \in Levels : conf[t][l].amt \in Int
    <3>1. conf[t] \in [Levels -> VecType]
      BY <1>1 DEF TypeOK
    <3> QED BY <3>1, AmtTypes
  <2>2. paid.acc \in Int /\ paid.amt \in Int
    BY <1>1 DEF TypeOK, LeftType
  <2>3. (\A e \in Entities : Total(holder[e]).amt \in Int) /\ CcgTotal \in Int /\ CcgTotal' = CcgTotal
    BY <1>1, TotalInt DEF CcgTotal
  <2>4. /\ Total(holder'["account"]).amt = Total(holder["account"]).amt + 0
        /\ Total(holder'["campaign"]).amt = Total(holder["campaign"]).amt + 0
        /\ CcgTotal' = CcgTotal + 0
    BY <2>3, EntityKinds
  <2>5. /\ paid'.acc + conf'[t]["account"].amt = paid.acc + conf[t]["account"].amt + 0
        /\ paid'.amt + conf'[t]["campaign"].amt = paid.amt + conf[t]["campaign"].amt + 0
        /\ paid'.amt + conf'[t]["ccg"].amt = paid.amt + conf[t]["ccg"].amt + 0
    BY <2>1, <2>2
  <2>6. 0 \in Int /\ stats' = stats
    OBVIOUS
  <2> QED BY <1>1, <2>4, <2>5, <2>6, SumsStep
<1> QED BY <1>2, <1>3, <1>4 DEF IInv

\* One answer of AnswerExact.
AnswerOk(a) ==
  a.of # NoBid =>
    /\ a.ok => a.left.acc = 0 /\ a.left.amt = 0
    /\ Abs(a.left.acc) <= Abs(a.of.acc) /\ a.left.acc * a.of.acc >= 0
    /\ Abs(a.left.amt) <= Abs(a.of.amt) /\ a.left.amt * a.of.amt >= 0

LEMMA AnswerStep ==
  ASSUME TypeOK, AnswerExact, NEW t \in Threads, NEW a, AnswerOk(a),
         answer' = [answer EXCEPT ![t] = a]
  PROVE  AnswerExact'
<1>1. answer'[t] = a /\ \A u \in Threads \ {t} : answer'[u] = answer[u]
  BY DEF TypeOK
<1>2. \A u \in Threads : AnswerOk(answer[u])
  BY DEF AnswerExact, AnswerOk
<1>3. \A u \in Threads : AnswerOk(answer'[u])
  BY <1>1, <1>2
<1> QED BY <1>3 DEF AnswerExact, AnswerOk

LEMMA ProductSign ==
  ASSUME NEW x \in Int, NEW y \in Int, Between(x, y)
  PROVE  (y - x) * y >= 0 /\ Abs(y - x) <= Abs(y)
<1>1. CASE y >= 0
  <2>1. y - x \in Nat /\ y \in Nat /\ y - x <= y
    BY <1>1 DEF Between
  <2>2. \A m, n \in Nat : m * n >= 0
    OBVIOUS
  <2> QED BY <2>1, <2>2 DEF Abs
<1>2. CASE y < 0
  <2>1. PICK m \in Nat, n \in Nat : m = -(y - x) /\ n = -y
    BY <1>2 DEF Between
  <2>2. m <= n
    BY <1>2, <2>1 DEF Between
  <2>3. m * n >= 0
    OBVIOUS
  <2>4. y - x = -m /\ y = -n
    BY <2>1
  <2>5. (-m) * (-n) = m * n
    OBVIOUS
  <2>6. (y - x) * y >= 0
    BY <2>3, <2>4, <2>5
  <2>7. Abs(y - x) = m /\ Abs(y) = n
    BY <2>4 DEF Abs
  <2> QED BY <2>2, <2>6, <2>7
<1> QED BY <1>1, <1>2

LEMMA BeginKeeps ==
  ASSUME IInv, NEW t \in Threads, NEW b \in Bids, Begin(t, b)
  PROVE  IInv'
<1>1. /\ pc[t] = "idle" /\ calls < MaxBids /\ calls' = calls + 1
      /\ UNCHANGED <<holder, conf, rev, res, rated, stat, paid, over, stats>>
  BY DEF Begin
<1>2. TypeOK /\ CallInv(t) /\ AnswerExact
  BY DEF IInv, CallsInv
<1>3. /\ b.known \in BOOLEAN /\ b.acc \in Int /\ b.amt \in Int /\ b.imps \in Int
      /\ Ask(b, "account").amt = b.acc /\ Ask(b, "campaign").amt = b.amt /\ Ask(b, "ccg").amt = b.amt
  BY BidFacts, AskAmts
<1>4. calls' \in 0 .. MaxBids
  <2>1. calls \in 0 .. MaxBids /\ MaxBids \in Nat
    BY <1>2, ContainerAssumption DEF TypeOK
  <2> QED BY <1>1, <2>1
<1>5. rated' = rated + (paid'.imps - paid.imps) + (RatedBy[t] - RatedBy[t])
  <2>1. rated \in Int /\ paid.imps \in Int /\ RatedBy[t] \in Int
    BY <1>2, RatedType DEF TypeOK, LeftType
  <2> QED BY <1>1, <2>1
<1>6. CASE b.known
  <2>1. /\ pc' = [pc EXCEPT ![t] = "account"] /\ bid' = [bid EXCEPT ![t] = b]
        /\ avail' = [avail EXCEPT ![t] = [l \in Levels |-> Ask(b, l)]] /\ answer' = answer
    BY <1>6 DEF Begin
  <2>2. PICK av : av = [l \in Levels |-> Ask(b, l)]
    OBVIOUS
  <2>3. av \in [Levels -> VecType] /\ \A l \in Levels : av[l].amt = Ask(b, l).amt
    BY <2>2, AskType
  <2>4. /\ pc'[t] = "account" /\ bid'[t] = b /\ avail'[t] = av
        /\ \A u \in Threads \ {t} : pc'[u] = pc[u] /\ bid'[u] = bid[u] /\ avail'[u] = avail[u]
    BY <1>2, <2>1, <2>2 DEF TypeOK
  <2>5. TypeOK'
    <3>1. pc' \in [Threads -> Pcs] /\ bid' \in [Threads -> Bids \cup {NoBid}]
      BY <1>2, <2>1 DEF TypeOK, Pcs
    <3>2. \A u \in Threads : bid'[u] = NoBid <=> pc'[u] = "idle"
      <4>1. \A u \in Threads : bid[u] = NoBid <=> pc[u] = "idle"
        BY <1>2 DEF TypeOK
      <4> QED BY <2>4, <4>1, NoBidNew
    <3>3. avail' \in [Threads -> [Levels -> VecType]]
      BY <1>2, <2>1, <2>2, <2>3 DEF TypeOK
    <3> QED BY <1>1, <1>2, <1>4, <2>1, <3>1, <3>2, <3>3 DEF TypeOK
  <2>6. OnlyCall(t)
    BY <1>1, <2>4 DEF OnlyCall
  <2>7. CallInv(t)'
    <3>1. res[t] /\ \A l \in Levels : conf[t][l].amt = 0 /\ rev[t][l] = 0
      BY <1>1, <1>2 DEF CallInv, CallOk
    <3>2. \A l \in Levels : Between(av[l].amt, Ask(b, l).amt) /\ Between(0, Ask(b, l).amt)
      BY <1>3, <2>3 DEF Between
    <3>3. Between(conf[t]["account"].amt - rev[t]["account"], b.acc)
      BY <1>3, <3>1 DEF Between
    <3>4. CallOk("account", b, conf[t], av, rev[t], res[t])
      BY <2>3, <3>1, <3>2, <3>3 DEF CallOk
    <3> QED BY <1>1, <2>4, <3>4 DEF CallInv
  <2>8. RatedBy'[t] = RatedBy[t]
    <3>1. ~Counted(t) /\ ~Counted(t)'
      BY <1>1, <2>4 DEF Counted
    <3> QED BY <3>1 DEF RatedBy
  <2>9. AnswerExact'
    BY <1>2, <2>1 DEF AnswerExact
  <2> QED BY <1>1, <1>5, <2>5, <2>6, <2>7, <2>8, <2>9, QuietKeeps
<1>7. CASE ~b.known
  <2>1. PICK a : a = [of |-> b, left |-> Left(b.acc, b.amt, b.imps), ok |-> FALSE]
    OBVIOUS
  <2>2. answer' = [answer EXCEPT ![t] = a] /\ UNCHANGED <<pc, bid, avail>>
    BY <1>7, <2>1 DEF Begin
  <2>3. AnswerOk(a)
    <3>1. a.of = b /\ a.left.acc = b.acc /\ a.left.amt = b.amt /\ ~a.ok
      BY <2>1 DEF Left
    <3>2. b.acc * b.acc >= 0 /\ b.amt * b.amt >= 0
      <4>1. \A x \in Int : Between(0, x) /\ x - 0 = x /\ 0 \in Int
        BY DEF Between
      <4> QED BY <1>3, <4>1, ProductSign
    <3>3. Abs(b.acc) \in Nat /\ Abs(b.amt) \in Nat
      BY <1>3, AbsType
    <3> QED BY <3>1, <3>2, <3>3 DEF AnswerOk
  <2>4. AnswerExact'
    BY <1>2, <2>2, <2>3, AnswerStep
  <2>5. TypeOK'
    <3>1. a \in [of : Bids \cup {NoBid}, left : LeftType, ok : BOOLEAN]
      BY <1>3, <2>1 DEF Left, LeftType
    <3>2. answer' \in [Threads -> [of : Bids \cup {NoBid}, left : LeftType, ok : BOOLEAN]]
      BY <1>2, <2>2, <3>1 DEF TypeOK
    <3> QED BY <1>1, <1>2, <1>4, <2>2, <3>2 DEF TypeOK
  <2>6. OnlyCall(t) /\ CallInv(t)' /\ RatedBy'[t] = RatedBy[t]
    BY <1>1, <1>2, <2>2 DEF OnlyCall, CallInv, RatedBy, Counted
  <2> QED BY <1>1, <1>5, <2>4, <2>5, <2>6, QuietKeeps
<1> QED BY <1>3, <1>6, <1>7

LEMMA RateKeeps ==
  ASSUME IInv, NEW t \in Threads, Rate(t)
  PROVE  IInv'
<1>1. /\ pc[t] = "rate" /\ pc' = [pc EXCEPT ![t] = "revCcg"]
      /\ rated' = rated + ConfirmedImps(bid[t], conf[t])
      /\ UNCHANGED <<holder, bid, conf, avail, rev, res, answer, stat, paid, over, calls, stats>>
  BY DEF Rate, counters
<1>2. TypeOK /\ CallInv(t) /\ AnswerExact
  BY DEF IInv, CallsInv
<1>3. /\ bid[t] \in Bids /\ conf[t] \in [Levels -> VecType] /\ avail[t] \in [Levels -> VecType]
      /\ rev[t] \in [Levels -> Int] /\ res[t] \in BOOLEAN
  BY <1>1, <1>2, BidOf
<1>4. pc'[t] = "revCcg" /\ (\A u \in Threads \ {t} : pc'[u] = pc[u]) /\ pc' \in [Threads -> Pcs]
  BY <1>1, <1>2 DEF TypeOK, Pcs
<1>5. PICK i \in Int : i = ConfirmedImps(bid[t], conf[t])
  BY <1>3, ImpsType
<1>6. TypeOK'
  <2>1. \A u \in Threads : bid'[u] = NoBid <=> pc'[u] = "idle"
    BY <1>1, <1>2, <1>4 DEF TypeOK
  <2>2. rated' \in Int
    BY <1>1, <1>2, <1>5 DEF TypeOK
  <2> QED BY <1>1, <1>2, <1>4, <2>1, <2>2 DEF TypeOK
<1>7. OnlyCall(t)
  BY <1>1, <1>4 DEF OnlyCall
<1>8. CallInv(t)'
  <2>1. CallOk("revCcg", bid[t], conf[t], avail[t], rev[t], res[t])
    BY <1>1, <1>2, <1>3, CallElse DEF CallInv
  <2> QED BY <1>1, <1>4, <2>1 DEF CallInv
<1>9. RatedBy[t] = 0 /\ RatedBy'[t] = i
  BY <1>1, <1>4, <1>5 DEF RatedBy, Counted
<1>10. rated' = rated + (paid'.imps - paid.imps) + (RatedBy'[t] - RatedBy[t])
  <2>1. rated \in Int /\ paid.imps \in Int
    BY <1>2 DEF TypeOK, LeftType
  <2> QED BY <1>1, <1>5, <1>9, <2>1
<1>11. AnswerExact'
  BY <1>1, <1>2 DEF AnswerExact
<1> QED BY <1>1, <1>6, <1>7, <1>8, <1>10, <1>11, QuietKeeps

LEMMA ReturnKeeps ==
  ASSUME IInv, NEW t \in Threads, Return(t)
  PROVE  IInv'
<1>1. PICK b \in Bids, cf \in [Levels -> VecType] : b = bid[t] /\ cf = conf[t] /\ pc[t] = "return"
  BY BidOf DEF Return, IInv
<1>2. TypeOK /\ CallInv(t) /\ AnswerExact
  BY DEF IInv, CallsInv
<1>3. PICK x \in Int, y \in Int, i \in Int :
        x = cf["account"].amt /\ y = cf["campaign"].amt /\ i = ConfirmedImps(b, cf)
  <2>1. cf["account"].amt \in Int /\ cf["campaign"].amt \in Int
    BY AmtTypes
  <2>2. ConfirmedImps(b, cf) \in Int
    BY ImpsType
  <2> QED BY <2>1, <2>2
<1>4. PICK left \in LeftType : left = Left(b.acc - x, b.amt - y, b.imps - i)
  <2>1. b.acc \in Int /\ b.amt \in Int /\ b.imps \in Int
    BY BidFacts
  <2>2. [acc |-> b.acc - x, amt |-> b.amt - y, imps |-> b.imps - i]
          \in [acc : Int, amt : Int, imps : Int]
    BY <2>1
  <2> QED BY <2>2 DEF Left, LeftType
<1>5. PICK a : a = [of |-> b, left |-> left, ok |-> res[t]]
  OBVIOUS
<1>6. /\ pc' = [pc EXCEPT ![t] = "idle"] /\ answer' = [answer EXCEPT ![t] = a]
      /\ paid' = Left(paid.acc + b.acc - left.acc, paid.amt + b.amt - left.amt,
                      paid.imps + b.imps - left.imps)
      /\ bid' = [bid EXCEPT ![t] = NoBid] /\ conf' = [conf EXCEPT ![t] = NoVec]
      /\ avail' = [avail EXCEPT ![t] = NoVec] /\ rev' = [rev EXCEPT ![t] = NoRev]
      /\ res' = [res EXCEPT ![t] = TRUE]
      /\ UNCHANGED <<holder, rated, stat, over, calls, stats>>
  BY <1>1, <1>3, <1>4, <1>5 DEF Return, LeftOf
<1>7. /\ pc'[t] = "idle" /\ bid'[t] = NoBid /\ conf'[t] = NoVec /\ avail'[t] = NoVec
      /\ rev'[t] = NoRev /\ res'[t]
      /\ \A u \in Threads \ {t} : pc'[u] = pc[u] /\ bid'[u] = bid[u] /\ conf'[u] = conf[u]
  BY <1>2, <1>6 DEF TypeOK
<1>8. OnlyCall(t)
  <2>1. \A u \in Threads \ {t} : avail'[u] = avail[u] /\ rev'[u] = rev[u] /\ res'[u] = res[u]
    BY <1>2, <1>6 DEF TypeOK
  <2> QED BY <1>7, <2>1 DEF OnlyCall
<1>9. /\ paid.acc \in Int /\ paid.amt \in Int /\ paid.imps \in Int
      /\ b.acc \in Int /\ b.amt \in Int /\ b.imps \in Int
      /\ left.acc = b.acc - x /\ left.amt = b.amt - y /\ left.imps = b.imps - i
  BY <1>2, <1>4, BidFacts DEF TypeOK, LeftType, Left
<1>10. paid'.acc = paid.acc + x /\ paid'.amt = paid.amt + y /\ paid'.imps = paid.imps + i
  BY <1>6, <1>9 DEF Left
<1>11. a \in [of : Bids \cup {NoBid}, left : LeftType, ok : BOOLEAN]
  BY <1>2, <1>5 DEF TypeOK
<1>12. TypeOK'
  <2>1. pc' \in [Threads -> Pcs] /\ bid' \in [Threads -> Bids \cup {NoBid}]
    BY <1>2, <1>6 DEF TypeOK, Pcs
  <2>2. \A u \in Threads : bid'[u] = NoBid <=> pc'[u] = "idle"
    <3>1. \A u \in Threads : bid[u] = NoBid <=> pc[u] = "idle"
      BY <1>2 DEF TypeOK
    <3> QED BY <1>7, <3>1
  <2>3. conf' \in [Threads -> [Levels -> VecType]] /\ avail' \in [Threads -> [Levels -> VecType]]
    BY <1>2, <1>6, ZeroVecs DEF TypeOK
  <2>4. rev' \in [Threads -> [Levels -> Int]] /\ res' \in [Threads -> BOOLEAN]
    BY <1>2, <1>6, ZeroVecs DEF TypeOK
  <2>5. answer' \in [Threads -> [of : Bids \cup {NoBid}, left : LeftType, ok : BOOLEAN]]
    BY <1>2, <1>6, <1>11 DEF TypeOK
  <2>6. paid' \in LeftType
    BY <1>6, <1>9 DEF Left, LeftType
  <2> QED BY <1>2, <1>6, <2>1, <2>2, <2>3, <2>4, <2>5, <2>6 DEF TypeOK
<1>13. CallInv(t)'
  <2>1. CallOk("idle", NoBid, NoVec, NoVec, NoRev, TRUE)
    BY ZeroVecs DEF CallOk
  <2>2. res'[t] = TRUE
    BY <1>2, <1>6 DEF TypeOK
  <2> QED BY <1>7, <2>1, <2>2 DEF CallInv
<1>14. CallOk("return", b, cf, avail[t], rev[t], res[t])
  BY <1>1, <1>2 DEF CallInv
<1>15. AnswerOk(a)
  <2>1. /\ Between(x, b.acc) /\ Between(y, b.amt)
        /\ res[t] => x = b.acc /\ y = b.amt
    BY <1>3, <1>14, AskAmts DEF CallOk
  <2>2. /\ Abs(b.acc - x) <= Abs(b.acc) /\ (b.acc - x) * b.acc >= 0
        /\ Abs(b.amt - y) <= Abs(b.amt) /\ (b.amt - y) * b.amt >= 0
    BY <1>9, <2>1, ProductSign
  <2>3. res[t] => left.acc = 0 /\ left.amt = 0
    BY <1>9, <2>1
  <2>4. a.of = b /\ a.left = left /\ a.ok = res[t]
    BY <1>5
  <2> QED BY <1>9, <2>2, <2>3, <2>4 DEF AnswerOk
<1>16. AnswerExact'
  BY <1>2, <1>6, <1>15, AnswerStep
<1>17. RatedBy[t] = i /\ RatedBy'[t] = 0
  BY <1>1, <1>3, <1>7 DEF RatedBy, Counted
<1>18. rated' = rated + (paid'.imps - paid.imps) + (RatedBy'[t] - RatedBy[t])
  <2>1. rated \in Int
    BY <1>2 DEF TypeOK
  <2> QED BY <1>6, <1>9, <1>10, <1>17, <2>1
<1>19. \A l \in Levels : conf'[t][l].amt = 0
  BY <1>7, ZeroVecs
<1>20. /\ paid'.acc + conf'[t]["account"].amt = paid.acc + conf[t]["account"].amt
       /\ paid'.amt + conf'[t]["campaign"].amt = paid.amt + conf[t]["campaign"].amt
       /\ paid'.amt + conf'[t]["ccg"].amt = paid.amt + conf[t]["ccg"].amt
  <2>1. cf["ccg"].amt = y
    BY <1>3, <1>14 DEF CallOk
  <2> QED BY <1>1, <1>3, <1>9, <1>10, <1>19, <2>1
<1> QED BY <1>6, <1>8, <1>12, <1>13, <1>16, <1>18, <1>20, QuietKeeps

\* The rates of a step that moves no call.
LEMMA RatesSame ==
  ASSUME UNCHANGED <<pc, bid, conf>>
  PROVE  SumOver(RatedBy, Threads)' = SumOver(RatedBy, Threads)
<1>1. RatedBy' = RatedBy
  BY DEF RatedBy, Counted
<1> QED BY <1>1

\* A step of stat(): the totals may be others, and no limit speaks of them.
LEMMA StatKeeps ==
  ASSUME IInv, TypeOK', DaysInv', StatInv', stats' # 0,
         UNCHANGED <<pc, bid, conf, avail, rev, res, answer, rated, paid, over, calls>>
  PROVE  IInv'
<1>1. CallsInv' /\ AnswerExact'
  BY DEF IInv, CallsInv, CallInv, AnswerExact
<1>2. SumInv'
  <2>1. rated = paid.imps + SumOver(RatedBy, Threads)
    BY DEF IInv, SumInv
  <2>2. rated' = paid'.imps + SumOver(RatedBy, Threads)'
    BY <2>1, RatesSame
  <2> QED BY <2>2 DEF SumInv
<1>3. AccountWithinBudget' /\ OvershootByOne'
  BY DEF AccountWithinBudget, OvershootByOne
<1> QED BY <1>1, <1>2, <1>3 DEF IInv

LEMMA StatAtType ==
  ASSUME NEW s \in Sources, NEW l \in Levels
  PROVE  StatAt(s, l) \in StatType /\ StatAt(s, l).at = l /\ StatAt(s, l).src = s
<1>1. EntitiesOf(l) \subseteq Entities
  BY EntityKinds DEF EntitiesOf, Levels
<1> QED BY <1>1 DEF StatAt, StatType

LEMMA StatBeginKeeps ==
  ASSUME IInv, NEW s \in Sources, StatBegin(s)
  PROVE  IInv'
<1>0. stat'.at = "account" /\ stat'.src = s /\ stat' \in StatType
  BY StatAtType DEF StatBegin, Levels
<1>1. /\ stats < MaxStats /\ stats' = stats + 1 /\ stat' = StatAt(s, "account")
      /\ UNCHANGED <<holder, pc, bid, conf, avail, rev, res, answer, rated, paid, over, calls>>
  BY DEF StatBegin
<1>2. stats \in 0 .. MaxStats /\ MaxStats \in Nat /\ TypeOK /\ DaysInv
  BY ContainerAssumption DEF IInv, TypeOK
<1>3. stats' \in 0 .. MaxStats /\ stats' > 0 /\ stats' # 0
  BY <1>1, <1>2
<1>4. stat' \in StatType
  BY <1>0
<1>5. TypeOK'
  BY <1>1, <1>2, <1>3, <1>4 DEF TypeOK
<1>6. DaysInv'
  BY <1>1, <1>2 DEF DaysInv
<1>7. StatInv'
  BY <1>0, <1>3 DEF StatInv
<1> QED BY <1>1, <1>3, <1>5, <1>6, <1>7, StatKeeps

LEMMA StatReplaceKeeps ==
  ASSUME IInv, NEW portion, NEW passed, StatReplace(portion, passed)
  PROVE  IInv'
<1> DEFINE es == portion \ passed
           todo == stat.todo \ portion
<1>1. /\ stat.at # "none"
      /\ holder' = [e \in Entities |->
                      IF e \in es THEN Replace(holder[e], stat.src[e]) ELSE holder[e]]
      /\ stat' = IF todo # {}
                 THEN [stat EXCEPT !.todo = todo,
                                   !.fresh = {e \in todo : There(holder[e]) = {}}]
                 ELSE IF stat.at = "ccg" THEN NoStat
                 ELSE StatAt(stat.src, AfterConfirm[stat.at])
      /\ UNCHANGED <<pc, bid, conf, avail, rev, res, answer, rated, paid, over, calls, stats>>
  BY DEF StatReplace, counters
<1>2. TypeOK /\ DaysInv /\ stat.src \in Sources /\ stats > 0 /\ stats \in Nat
  BY <1>1 DEF IInv, StatInv, TypeOK
<1>3. \A e \in Entities : /\ holder'[e] \in [Days -> DayType]
                          /\ Blank(holder'[e]) /\ Chained(holder'[e]) /\ Founded(holder'[e])
  <2>1. SUFFICES ASSUME NEW e \in Entities
                 PROVE  /\ holder'[e] \in [Days -> DayType]
                        /\ Blank(holder'[e]) /\ Chained(holder'[e]) /\ Founded(holder'[e])
    OBVIOUS
  <2>2. PICK h \in [Days -> DayType] : h = holder[e]
    BY <1>2 DEF TypeOK
  <2>3. Blank(h) /\ Chained(h) /\ Founded(h)
    BY <1>2, <2>2 DEF DaysInv
  <2>4. CASE e \in es
    <3>1. PICK src : src = stat.src[e]
      OBVIOUS
    <3>2. src.there \in BOOLEAN /\ (src.there => SourceOk(src))
      BY <1>2, <3>1, ContainerAssumption
    <3>3. holder'[e] = Replace(h, src)
      BY <1>1, <2>2, <2>4, <3>1
    <3> QED BY <2>3, <3>2, <3>3, ReplaceDays
  <2>5. CASE e \notin es
    <3>1. holder'[e] = h
      BY <1>1, <2>2, <2>5
    <3> QED BY <2>3, <3>1
  <2> QED BY <2>4, <2>5
<1>4. DaysInv'
  BY <1>3 DEF DaysInv
<1>5. holder' \in [Entities -> [Days -> DayType]]
  <2>1. PICK g : g = holder'
    OBVIOUS
  <2>2. g = [e \in Entities |-> g[e]]
    BY <1>1, <2>1
  <2>3. \A e \in Entities : g[e] \in [Days -> DayType]
    BY <1>3, <2>1
  <2> QED BY <2>1, <2>2, <2>3
<1>6. /\ stat' \in StatType
      /\ stat'.at # "none" => stat'.src \in Sources
  <2>1. stat \in StatType
    BY <1>2 DEF TypeOK
  <2>2. CASE todo # {}
    <3>1. /\ todo \in SUBSET Entities
          /\ {e \in todo : There(holder[e]) = {}} \in SUBSET Entities
      BY <2>1 DEF StatType
    <3>2. PICK f \in SUBSET Entities : f = {e \in todo : There(holder[e]) = {}}
      BY <3>1
    <3>3. PICK g \in SUBSET Entities : g = todo
      BY <3>1
    <3>4. stat' = [stat EXCEPT !.todo = g, !.fresh = f]
      BY <1>1, <2>2, <3>2, <3>3
    <3> QED BY <1>2, <2>1, <3>4 DEF StatType
  <2>3. CASE todo = {} /\ stat.at = "ccg"
    BY <1>1, <2>3 DEF NoStat, StatType
  <2>4. CASE todo = {} /\ stat.at # "ccg"
    <3>1. AfterConfirm[stat.at] \in Levels
      BY <1>1, <2>1, <2>4, Tables DEF StatType, Levels
    <3> QED BY <1>1, <1>2, <2>4, <3>1, StatAtType
  <2> QED BY <2>2, <2>3, <2>4
<1>7. TypeOK'
  BY <1>1, <1>2, <1>5, <1>6 DEF TypeOK
<1>8. StatInv' /\ stats' # 0
  BY <1>1, <1>2, <1>6 DEF StatInv
<1> QED BY <1>1, <1>4, <1>7, <1>8, StatKeeps

LEMMA StutterKeeps ==
  ASSUME IInv, UNCHANGED vars
  PROVE  IInv'
<1>1. UNCHANGED <<holder, pc, bid, conf, avail, rev, res, answer, rated, stat, paid, over,
                  calls, stats>>
  BY DEF vars
<1>2. TypeOK' /\ DaysInv' /\ CallsInv' /\ StatInv' /\ AnswerExact'
  <2>1. TypeOK'
    BY <1>1 DEF IInv, TypeOK
  <2>2. DaysInv' /\ StatInv'
    BY <1>1 DEF IInv, DaysInv, StatInv
  <2>3. CallsInv' /\ AnswerExact'
    BY <1>1 DEF IInv, CallsInv, CallInv, AnswerExact
  <2> QED BY <2>1, <2>2, <2>3
<1>3. SumInv'
  <2>1. SumOver(RatedBy, Threads)' = SumOver(RatedBy, Threads) /\ CcgTotal' = CcgTotal
    BY <1>1, RatesSame DEF CcgTotal
  <2>2. \A l \in Levels : SumOver(ConfBy(l), Threads)' = SumOver(ConfBy(l), Threads)
    BY <1>1 DEF ConfBy
  <2> QED BY <1>1, <2>1, <2>2 DEF IInv, SumInv
<1>4. AccountWithinBudget' /\ OvershootByOne'
  BY <1>1 DEF IInv, AccountWithinBudget, OvershootByOne
<1> QED BY <1>2, <1>3, <1>4 DEF IInv

LEMMA EmptyDays ==
  /\ There(NoDays) = {} /\ Total(NoDays).amt = 0
  /\ Blank(NoDays) /\ Chained(NoDays) /\ Founded(NoDays)
<1>1. \A d \in Days : NoDays[d] = NoDay /\ ~NoDays[d].there
  BY DEF NoDays, NoDay
<1>2. There(NoDays) = {}
  BY <1>1 DEF There
<1> QED BY <1>1, <1>2 DEF Total, Zero, Vec, Blank, Chained, Founded

LEMMA InitHolds ==
  ASSUME Init
  PROVE  IInv
<1>1. \A e \in Entities : holder[e] = NoDays
  BY DEF Init
<1>2. \A t \in Threads : /\ pc[t] = "idle" /\ bid[t] = NoBid /\ conf[t] = NoVec
                         /\ avail[t] = NoVec /\ rev[t] = NoRev /\ res[t] = TRUE
                         /\ answer[t] = NoAnswer
  BY DEF Init
<1>3. /\ rated = 0 /\ stat = NoStat /\ paid = Left(0, 0, 0) /\ stats = 0
      /\ over = [e \in Entities |-> 0]
  BY DEF Init
<1>4. TypeOK
  <2>1. holder \in [Entities -> [Days -> DayType]]
    BY NoDayType DEF Init
  <2>2. pc \in [Threads -> Pcs] /\ bid \in [Threads -> Bids \cup {NoBid}] /\ res \in [Threads -> BOOLEAN]
    BY DEF Init, Pcs
  <2>3. conf \in [Threads -> [Levels -> VecType]] /\ avail \in [Threads -> [Levels -> VecType]]
    BY ZeroVecs DEF Init
  <2>4. rev \in [Threads -> [Levels -> Int]]
    BY ZeroVecs DEF Init
  <2>5. NoAnswer \in [of : Bids \cup {NoBid}, left : LeftType, ok : BOOLEAN] /\ paid \in LeftType
    BY <1>3 DEF NoAnswer, Left, LeftType
  <2>6. answer \in [Threads -> [of : Bids \cup {NoBid}, left : LeftType, ok : BOOLEAN]]
    BY <2>5 DEF Init
  <2>7. stat \in StatType
    BY <1>3 DEF NoStat, StatType
  <2>8. over \in [Entities -> Nat] /\ rated \in Int
    BY <1>3
  <2>9. calls \in 0 .. MaxBids /\ stats \in 0 .. MaxStats
    BY ContainerAssumption DEF Init
  <2> QED BY <1>2, <2>1, <2>2, <2>3, <2>4, <2>5, <2>6, <2>7, <2>8, <2>9 DEF TypeOK
<1>5. DaysInv
  BY <1>1, EmptyDays DEF DaysInv
<1>6. CallsInv
  <2>1. CallOk("idle", NoBid, NoVec, NoVec, NoRev, TRUE)
    BY ZeroVecs DEF CallOk
  <2> QED BY <1>2, <2>1 DEF CallsInv, CallInv
<1>7. StatInv /\ AnswerExact
  BY <1>2, <1>3 DEF StatInv, NoStat, AnswerExact, NoAnswer
<1>8. SumInv
  <2>1. IsFiniteSet(Threads) /\ IsFiniteSet(Ccgs)
    BY ContainerAssumption
  <2>2. \A l \in Levels : SumOver(ConfBy(l), Threads) = 0
    <3>1. \A l \in Levels : \A t \in Threads : ConfBy(l)[t] = 0
      BY <1>2, ZeroVecs DEF ConfBy
    <3> QED BY <2>1, <3>1, SumZero
  <2>3. SumOver(RatedBy, Threads) = 0
    <3>1. \A t \in Threads : RatedBy[t] = 0
      BY <1>2 DEF RatedBy, Counted
    <3> QED BY <2>1, <3>1, SumZero
  <2>4. CcgTotal = 0
    <3>1. PICK f : f = [c \in Ccgs |-> Total(holder[c]).amt]
      OBVIOUS
    <3>2. \A c \in Ccgs : f[c] = 0
      BY <1>1, <3>1, EmptyDays, EntityKinds
    <3>3. SumOver(f, Ccgs) = 0
      BY <2>1, <3>2, SumZero
    <3> QED BY <3>1, <3>3 DEF CcgTotal
  <2>5. paid.acc = 0 /\ paid.amt = 0 /\ paid.imps = 0
    BY <1>3 DEF Left
  <2>6. Total(holder["account"]).amt = 0 /\ Total(holder["campaign"]).amt = 0
    BY <1>1, EmptyDays, EntityKinds
  <2> QED BY <1>3, <2>2, <2>3, <2>4, <2>5, <2>6 DEF SumInv
<1>9. AccountWithinBudget
  BY <1>1, <1>3, EmptyDays, EntityKinds, Numbers DEF AccountWithinBudget
<1>10. OvershootByOne
  <2>1. SUFFICES ASSUME NEW e \in Entities \ {"account"}, Limits[e].budget # NoLimit
                 PROVE  Total(holder[e]).amt - over[e] < Limits[e].budget + LargestBid
    BY DEF OvershootByOne
  <2>2. Total(holder[e]).amt = 0 /\ over[e] = 0
    BY <1>1, <1>3, EmptyDays
  <2>3. Limits[e].budget \in Nat
    BY <2>1, ContainerAssumption DEF LimitType
  <2> QED BY <2>2, <2>3, LargestBidType
<1> QED BY <1>4, <1>5, <1>6, <1>7, <1>8, <1>9, <1>10 DEF IInv

LEMMA NextKeeps ==
  ASSUME IInv, [Next]_vars
  PROVE  IInv'
<1>1. ASSUME NEW t \in Threads, NEW b \in Bids, Begin(t, b)
      PROVE  IInv'
  BY <1>1, BeginKeeps
<1>2. ASSUME NEW t \in Threads, NEW l \in Levels, Confirm(t, l) \/ Revert(t, l)
      PROVE  IInv'
  BY <1>2, ConfirmKeeps
<1>3. ASSUME NEW t \in Threads, Rate(t)
      PROVE  IInv'
  BY <1>3, RateKeeps
<1>4. ASSUME NEW t \in Threads, Return(t)
      PROVE  IInv'
  BY <1>4, ReturnKeeps
<1>5. ASSUME NEW s \in Sources, StatBegin(s)
      PROVE  IInv'
  BY <1>5, StatBeginKeeps
<1>6. ASSUME NEW portion, NEW passed, StatReplace(portion, passed)
      PROVE  IInv'
  BY <1>6, StatReplaceKeeps
<1>7. CASE Rest \/ UNCHANGED vars
  BY <1>7, StutterKeeps DEF Rest
<1> QED BY <1>1, <1>2, <1>3, <1>4, <1>5, <1>6, <1>7 DEF Next

LEMMA Invariance == Spec => []IInv
<1>1. Init => IInv
  BY InitHolds
<1>2. IInv /\ [Next]_vars => IInv'
  BY NextKeeps
<1> QED BY <1>1, <1>2, PTL DEF Spec

-----------------------------------------------------------------------------
(* What the invariant says *)

LEMMA InvDays == IInv => DaysChained
<1> SUFFICES ASSUME IInv, NEW e \in Entities, NEW d \in There(holder[e]),
                    {c \in There(holder[e]) : c < d} # {}
             PROVE  LET p == Max({c \in There(holder[e]) : c < d})
                    IN  holder[e][d].before = Plus(holder[e][p].before, holder[e][p].now)
  BY DEF DaysChained
<1>2. Chained(holder[e])
  BY DEF IInv, DaysInv
<1> QED BY <1>2, ChainedMeans

LEMMA InvAnswers == IInv => AnswersAgree
<1> SUFFICES ASSUME IInv PROVE AnswersAgree
  OBVIOUS
<1>2. CcgRevertUnreached /\ AnswerExact
  BY DEF IInv, CallsInv, CallInv, CallOk, CcgRevertUnreached
<1>3. ASSUME Idle, stats = 0
      PROVE  /\ Total(holder["account"]).amt = paid.acc
             /\ Total(holder["campaign"]).amt = paid.amt
             /\ CcgTotal = paid.amt
             /\ rated = paid.imps
  <2>1. IsFiniteSet(Threads)
    BY ContainerAssumption
  <2>2. \A l \in Levels : SumOver(ConfBy(l), Threads) = 0
    <3>1. \A t \in Threads : \A l \in Levels : conf[t][l].amt = 0
      BY <1>3 DEF IInv, CallsInv, CallInv, CallOk, Idle
    <3>2. \A l \in Levels : \A t \in Threads : ConfBy(l)[t] = 0
      BY <3>1 DEF ConfBy
    <3> QED BY <2>1, <3>2, SumZero
  <2>3. SumOver(RatedBy, Threads) = 0
    <3>1. \A t \in Threads : RatedBy[t] = 0
      BY <1>3 DEF RatedBy, Counted, Idle
    <3> QED BY <2>1, <3>1, SumZero
  <2>4. paid.acc \in Int /\ paid.amt \in Int /\ paid.imps \in Int
    BY DEF IInv, TypeOK, LeftType
  <2> QED BY <1>3, <2>2, <2>3, <2>4 DEF IInv, SumInv
<1> QED BY <1>2, <1>3 DEF AnswersAgree, LevelsAgree

\* However many calls of confirm_bid() run at a time, whatever they confirm on
\* one level and take back on another, the account's lock keeps all but the
\* forced bids within its budget, and those of the campaign and of each group
\* let no more than one bid pass the limit.
THEOREM BudgetsHold == Spec => []BudgetInv
<1>1. IInv => BudgetInv
  BY DEF IInv, BudgetInv
<1> QED BY <1>1, Invariance, PTL

\* Once the calls in progress have returned, the account, the campaign and its
\* groups have counted what confirm_bid() answered, through every refusal, cut
\* and revert; each answer is between nothing and its bid, and the revert of a
\* group is never reached.
THEOREM LevelsAgreeInTheEnd == Spec => []AnswersAgree
BY Invariance, InvAnswers, PTL

\* Whatever days add_amount() and replace_amount_() write, and in whatever
\* order, the amount before a day is all that the days before it have.
THEOREM DaysStayChained == Spec => []DaysChained
BY Invariance, InvDays, PTL

=============================================================================
