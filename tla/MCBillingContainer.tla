-------------------------- MODULE MCBillingContainer --------------------------
(* Bids on one campaign of one account, with two groups. *)
EXTENDS BillingContainer, TLC

CONSTANTS c1, c2

NoLimits == [budget |-> NoLimit, daily |-> NoLimit, imps |-> NoLimit,
             dailyImps |-> NoLimit, endDay |-> NoLimit]

Request(day, c, acc, amt, imps) ==
  [day |-> day, ccg |-> c, acc |-> acc, amt |-> amt, imps |-> imps,
   forced |-> FALSE, known |-> TRUE]

\* The campaign's budget is spread over the days; one group has a limit of
\* impressions, the other one of each day.
MCLimits ==
  [e \in {"campaign", c1, c2} |->
     CASE e = "campaign" -> [NoLimits EXCEPT !.budget = 7]
       [] e = c1 -> [NoLimits EXCEPT !.budget = 5, !.imps = 5, !.endDay = 2]
       [] e = c2 -> [NoLimits EXCEPT !.daily = 3, !.dailyImps = 2]]

\* The account pays in another currency than the campaign.  A day that stat()
\* replaces and two that it keeps; a bid that takes back, a forced one, and one
\* on an account the configuration does not know.
BidSet ==
  {Request(2, c1, 4, 3, 1), Request(4, c2, 3, 2, 2), Request(3, c1, -2, -2, -1),
   [Request(3, c2, 2, 2, 1) EXCEPT !.forced = TRUE],
   [Request(3, c1, 3, 2, 1) EXCEPT !.known = FALSE]}

ThreadSymmetry == Permutations(Threads)

Source(day, prev, days) == [there |-> TRUE, prevDay |-> day, prev |-> prev, days |-> days]

\* An account has no impressions.
V(e, amt, imps) == Vec(amt, IF e = "account" THEN 0 ELSE imps)

\* Days on both sides of EndDay; nothing of the campaign, a day of the account
\* and of one group, and the other group summed up past EndDay.
SourceSet ==
  {[e \in {"account", "campaign", c1, c2} |->
      Source(1, V(e, 3, 2), [d \in {2, 3} |-> V(e, 5, 1)])],
   [e \in {"account", "campaign", c1, c2} |->
      CASE e = "campaign" -> NoSource
        [] e = c1 -> Source(3, V(e, 6, 2), [d \in {} |-> Zero])
        [] OTHER -> Source(0, Zero, [d \in {1} |-> V(e, 4, 2)])]}

=============================================================================
