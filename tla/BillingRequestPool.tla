-------------------------- MODULE BillingRequestPool --------------------------
(***************************************************************************)
(* RequestInfoManager's BillingProcessor: amounts to be confirmed are      *)
(* divided over the billing servers, aggregated per server, sent by a pool *)
(* of Senders, moved on when a server refuses a part or cannot be reached, *)
(* and kept on disk from one process to the next.  A request is an         *)
(* aggregation key, a mode, its first time and one amount, which stands    *)
(* for the four the code treats alike.  A step is a critical section of a  *)
(* server's lock (the nested ones of non_empty_servers_lock_ included), of *)
(* non_empty_servers_lock_ alone, or one remote call.                      *)
(***************************************************************************)
EXTENDS Sums, Sequences, SequencesExt

CONSTANTS NServers,  \* billing servers
          Senders,   \* threads of Sender
          Adders,    \* threads that process impressions and clicks
          Delayer,   \* the thread of the task send_delayed_
          NoOne,     \* no sender waits
          Keys,      \* aggregation keys, in the order of FirstRequestLess
          Times,     \* times of requests
          Amounts,   \* amounts of requests
          MaxBatch,  \* the 100 requests of one call
          MaxAdds,   \* bound: calls of add()
          MaxFails,  \* bound: calls that end in ServerUnreachable and dumps that fail
          MaxStops   \* bound: orderly stops

ASSUME PoolAssumption ==
  /\ NServers \in Nat \ {0} /\ MaxBatch \in Nat \ {0}
  /\ IsFiniteSet(Senders) /\ Senders # {} /\ IsFiniteSet(Adders)
  /\ Senders \cap Adders = {} /\ {Delayer, NoOne} \cap (Senders \cup Adders) = {}
  /\ Delayer # NoOne
  /\ Keys \subseteq Nat /\ IsFiniteSet(Keys) /\ Keys # {}
  /\ Times \subseteq Nat \ {0} /\ Amounts \subseteq Int
  /\ MaxAdds \in Nat /\ MaxFails \in Nat /\ MaxStops \in Nat

Servers == 0 .. NServers - 1
Threads == Senders \cup Adders \cup {Delayer}
Modes == {"normal", "resend"}

VARIABLES
  phase,    \* of the process: loading, running, stopping, stopped
  active,   \* server->active
  amounts,  \* agg_amounts and send_amounts of each server
  listed,   \* non_empty_servers_: how often each server is in it
  delayed,  \* delayed_amounts_
  timers,   \* scheduled ActivateServerGoals
  file,     \* the file of amounts in storage_root
  unread,   \* the part of it that load() has still to read
  pc,       \* where each thread is
  srv,      \* the server it deals with
  idx,      \* its server_i
  hand,     \* the requests it holds
  job,      \* the request an adder divides
  left,     \* the servers it has still to give a share
  owed,     \* given to add() and in no answer confirmed (history)
  accepted, \* the last add() of an adder did not throw (history)
  saved,    \* the last dump did not fail (history)
  missed,   \* what each adder had in hand when the pool was saved (history)
  adds, fails, stops

disk == <<file, unread>>
vars == <<phase, active, amounts, listed, delayed, timers, disk, pc, srv, idx, hand,
          job, left, owed, accepted, saved, missed, adds, fails, stops>>

pool == <<active, amounts, listed, delayed, timers>>
dumped == <<saved, missed>>
history == <<owed, accepted, dumped, adds, fails, stops>>

-----------------------------------------------------------------------------
(* Requests and aggregators *)

NoRequest == [has |-> FALSE, t |-> 0, amt |-> 0]
Request(t, a) == [has |-> TRUE, t |-> t, amt |-> a]

\* One mode of an aggregator or of an array of requests: at most one per key.
NoRequests == [k \in Keys |-> NoRequest]
Nothing == [m \in Modes |-> NoRequests]
Only(k, r) == [NoRequests EXCEPT ![k] = r]
As(mode, rs) == [Nothing EXCEPT ![mode] = rs]

Present(h) == {p \in Modes \X Keys : h[p[1]][p[2]].has}
IsEmpty(h) == Present(h) = {}

\* Request::add
Sum2(r, q) ==
  IF ~ r.has THEN q ELSE IF ~ q.has THEN r
  ELSE Request(Min({r.t, q.t}), r.amt + q.amt)

\* add_to_aggregator_i_
Aggregate(h, g) == [m \in Modes |-> [k \in Keys |-> Sum2(h[m][k], g[m][k])]]

AmountOf(rs) == SumOver([k \in Keys |-> rs[k].amt], Keys)
Total(h) == AmountOf(h["normal"]) + AmountOf(h["resend"])

\* FirstRequestLess
Before(h, p, q) ==
  LET a == h[p[1]][p[2]] b == h[q[1]][q[2]]
  IN  \/ a.t < b.t
      \/ a.t = b.t /\ p[2] < q[2]
      \/ a.t = b.t /\ p[2] = q[2] /\ p[1] = "normal" /\ q[1] = "resend"

\* get_aggregator_requests_i_: what a call takes, the first max_requests.
FirstOf(h, max) ==
  IF Cardinality(Present(h)) <= max THEN Present(h)
  ELSE CHOOSE P \in kSubset(max, Present(h)) :
         \A p \in P, q \in Present(h) \ P : Before(h, p, q)

Restricted(h, P) ==
  [m \in Modes |-> [k \in Keys |-> IF <<m, k>> \in P THEN h[m][k] ELSE NoRequest]]

\* A server's share of an amount: the first one gets the remainder too.
\* RevenueDecimal::div() divides magnitudes.
ShareOfSize(a, s) == (a \div NServers) + (IF s = 0 THEN a % NServers ELSE 0)
Share(a, s) == IF a >= 0 THEN ShareOfSize(a, s) ELSE -ShareOfSize(-a, s)

-----------------------------------------------------------------------------
(* The list of servers with requests.  Its order is the first time of each *)
(* server alone, and multiset::erase() takes away all that compare equal.  *)

FirstTime(h) == Min({h[p[1]][p[2]].t : p \in Present(h)})

Earlier(s, u) ==
  /\ ~ IsEmpty(amounts[s])
  /\ IsEmpty(amounts[u]) \/ FirstTime(amounts[s]) < FirstTime(amounts[u])

Erased(s) ==
  [u \in Servers |-> IF Earlier(s, u) \/ Earlier(u, s) THEN listed[u] ELSE 0]

Inserted(l, s) == [l EXCEPT ![s] = @ + 1]

\* Those one signal() can wake.
Wakeable ==
  LET w == {x \in Senders : pc[x] = "waiting"} IN IF w = {} THEN {NoOne} ELSE w

\* x goes on at place, w is woken from its wait.
Goto(x, place, w) ==
  pc' = [y \in Threads |-> IF y = x THEN place ELSE IF y = w THEN "get" ELSE pc[y]]

NoJob == [key |-> 0, t |-> 0, amt |-> 0]

\* The local variables of a call end with it.
Leave(x) == srv' = [srv EXCEPT ![x] = 0] /\ idx' = [idx EXCEPT ![x] = 0]

Init ==
  /\ phase = "running"
  /\ active = [s \in Servers |-> TRUE]
  /\ amounts = [s \in Servers |-> Nothing]
  /\ listed = [s \in Servers |-> 0]
  /\ delayed = Nothing
  /\ timers = [s \in Servers |-> 0]
  /\ file = NoRequests /\ unread = NoRequests
  /\ pc = [x \in Threads |-> IF x \in Senders THEN "get" ELSE "idle"]
  /\ srv = [x \in Threads |-> 0]
  /\ idx = [x \in Threads |-> 0]
  /\ hand = [x \in Threads |-> Nothing]
  /\ job = [x \in Adders |-> NoJob]
  /\ left = [x \in Adders |-> <<>>]
  /\ owed = 0
  /\ accepted = [x \in Adders |-> TRUE]
  /\ saved = TRUE /\ missed = [x \in Adders |-> 0]
  /\ adds = 0 /\ fails = 0 /\ stops = 0

-----------------------------------------------------------------------------
(* add_to_server_() *)

\* Thread x, holding the lock of active server s, adds requests to it.
Put(x, s, g, place) ==
  /\ amounts' = [amounts EXCEPT ![s] = Aggregate(@, g)]
  /\ listed' = Inserted(IF IsEmpty(amounts[s]) THEN listed ELSE Erased(s), s)
  /\ \E w \in Wakeable : Goto(x, place, w)

-----------------------------------------------------------------------------
(* add_resend_to_server(srv + 1, hand) *)

\* Where a thread goes on after add_resend_to_server() or add_delayed().
Return(x) ==
  IF x \in Senders THEN "get"
  ELSE IF x = Delayer THEN "idle"
  ELSE IF left[x] = <<>> THEN "check" ELSE "add"

\* server_i of the first loop.
StartFirst(s) == IF s + 1 <= 1 THEN 1 ELSE 0

\* Mutant: the second loop begins with the first server again.
StartNextOver(s) == 0

\* server_i of the second loop, which is not entered at the last server.
StartNext(s) == IF s + 1 < NServers THEN s + 2 ELSE NServers

\* Normal requests, now marked, go to the first other server that is active.
ResendFirst(x) ==
  /\ pc[x] = "first" /\ ~ IsEmpty(As("normal", hand[x]["normal"]))
  /\ idx[x] < NServers
  /\ IF active[idx[x]]
     THEN /\ Put(x, idx[x], As("resend", hand[x]["normal"]), "next")
          /\ hand' = [hand EXCEPT ![x]["normal"] = NoRequests]
          /\ idx' = [idx EXCEPT ![x] = StartNext(srv[x])]
     ELSE /\ idx' = [idx EXCEPT ![x] = @ + 1]
          /\ UNCHANGED <<amounts, listed, pc, hand>>
  /\ UNCHANGED <<phase, active, delayed, timers, disk, srv, job, left, history>>

ResendFirstEnds(x) ==
  /\ pc[x] = "first"
  /\ IsEmpty(As("normal", hand[x]["normal"])) \/ idx[x] >= NServers
  /\ Goto(x, "next", NoOne)
  /\ idx' = [idx EXCEPT ![x] = StartNext(srv[x])]
  /\ UNCHANGED <<phase, pool, disk, srv, hand, job, left, history>>

\* Those that were marked before go further up.
ResendNext(x) ==
  /\ pc[x] = "next" /\ ~ IsEmpty(As("resend", hand[x]["resend"]))
  /\ idx[x] < NServers
  /\ IF active[idx[x]]
     THEN /\ Put(x, idx[x], As("resend", hand[x]["resend"]), "delay")
          /\ hand' = [hand EXCEPT ![x]["resend"] = NoRequests]
          /\ UNCHANGED idx
     ELSE /\ idx' = [idx EXCEPT ![x] = @ + 1]
          /\ UNCHANGED <<amounts, listed, pc, hand>>
  /\ UNCHANGED <<phase, active, delayed, timers, disk, srv, job, left, history>>

ResendNextEnds(x) ==
  /\ pc[x] = "next"
  /\ IsEmpty(As("resend", hand[x]["resend"])) \/ idx[x] >= NServers
  /\ Goto(x, "delay", NoOne)
  /\ UNCHANGED <<phase, pool, disk, srv, idx, hand, job, left, history>>

\* add_delayed(): what no server took waits for the task send_delayed_.
Delay(x) ==
  /\ pc[x] = "delay"
  /\ delayed' = Aggregate(Aggregate(delayed, As("resend", hand[x]["normal"])),
                          As("resend", hand[x]["resend"]))
  /\ hand' = [hand EXCEPT ![x] = Nothing]
  /\ Goto(x, Return(x), NoOne) /\ Leave(x)
  /\ UNCHANGED <<phase, active, amounts, listed, timers, disk, job, left, history>>

-----------------------------------------------------------------------------
(* RequestPool::add() *)

\* The order in which add_to_all_servers() gives the shares.
ShareOrder ==
  [i \in 1 .. NServers |-> IF i = 1 THEN 0 ELSE IF i = NServers THEN 1 ELSE i]

Add(x) ==
  /\ pc[x] = "idle" /\ phase \in {"running", "stopping"} /\ adds < MaxAdds
  /\ \E k \in Keys, t \in Times, a \in Amounts :
       /\ job' = [job EXCEPT ![x] = [key |-> k, t |-> t, amt |-> a]]
       /\ owed' = owed + a
  /\ accepted' = [accepted EXCEPT ![x] = FALSE]
  /\ left' = [left EXCEPT ![x] = ShareOrder]
  /\ adds' = adds + 1
  /\ Goto(x, "add", NoOne)
  /\ UNCHANGED <<phase, pool, disk, srv, idx, hand, dumped, fails, stops>>

\* load(): the requests of the file, one after the other, before any other
\* thread runs.  The file stays until the next dump replaces it.  It has only
\* the hour of a first time.
LoadOne(x) ==
  /\ pc[x] = "idle" /\ phase = "loading"
  /\ \A y \in Adders : pc[y] = "idle"
  /\ \E k \in Keys :
       /\ unread[k].has
       /\ job' = [job EXCEPT ![x] = [key |-> k, t |-> 0, amt |-> unread[k].amt]]
       /\ unread' = [unread EXCEPT ![k] = NoRequest]
  /\ left' = [left EXCEPT ![x] = ShareOrder]
  /\ Goto(x, "add", NoOne)
  /\ UNCHANGED <<phase, pool, file, srv, idx, hand, history>>

\* add_to_server(): a share goes to its server, or is treated as refused.
AddShare(x) ==
  /\ pc[x] = "add"
  /\ left' = [left EXCEPT ![x] = Tail(@)]
  /\ LET s == Head(left[x])
         g == Only(job[x].key, Request(job[x].t, Share(job[x].amt, s)))
     IN  IF active[s]
         THEN /\ Put(x, s, As("normal", g), IF Tail(left[x]) = <<>> THEN "check" ELSE "add")
              /\ UNCHANGED <<srv, idx, hand>>
         ELSE /\ srv' = [srv EXCEPT ![x] = s]
              /\ idx' = [idx EXCEPT ![x] = StartFirst(s)]
              /\ hand' = [hand EXCEPT ![x] = As("normal", g)]
              /\ Goto(x, "first", NoOne)
              /\ UNCHANGED <<amounts, listed>>
  /\ UNCHANGED <<phase, active, delayed, timers, disk, job, history>>

\* Mutant: a stopped pool is taken for an active one.
CheckActiveAlways(x) ==
  /\ pc[x] = "check"
  /\ accepted' = [accepted EXCEPT ![x] = TRUE]
  /\ job' = [job EXCEPT ![x] = NoJob]
  /\ Goto(x, "idle", NoOne)
  /\ UNCHANGED <<phase, pool, disk, srv, idx, hand, left, owed, dumped, adds, fails, stops>>

\* After the shares were given, add() throws if the pool was deactivated; load()
\* gives its shares without that check.
CheckActive(x) ==
  /\ pc[x] = "check"
  /\ accepted' = [accepted EXCEPT ![x] = phase \in {"loading", "running"}]
  /\ job' = [job EXCEPT ![x] = NoJob]
  /\ Goto(x, "idle", NoOne)
  /\ UNCHANGED <<phase, pool, disk, srv, idx, hand, left, owed, dumped, adds, fails, stops>>

-----------------------------------------------------------------------------
(* get_requests(), called by a sender *)

\* The first server of the list is taken out of it, without its lock.
PopServer(x) ==
  /\ pc[x] = "get" /\ phase = "running"
  /\ \E s \in Servers :
       /\ listed[s] > 0
       /\ \A u \in Servers : listed[u] > 0 => ~ Earlier(u, s)
       /\ listed' = [listed EXCEPT ![s] = @ - 1]
       /\ srv' = [srv EXCEPT ![x] = s]
  /\ Goto(x, "take", NoOne)
  /\ UNCHANGED <<phase, active, amounts, delayed, timers, disk, idx, hand, job, left, history>>

Wait(x) ==
  /\ pc[x] = "get" /\ phase = "running"
  /\ \A s \in Servers : listed[s] = 0
  /\ Goto(x, "waiting", NoOne)
  /\ UNCHANGED <<phase, pool, disk, srv, idx, hand, job, left, history>>

\* Under its lock: the server may be in the list again or empty by now.
TakeRequests(x) ==
  /\ pc[x] = "take"
  /\ LET s == srv[x]
         P == FirstOf(amounts[s], MaxBatch)
         rest == Restricted(amounts[s], Present(amounts[s]) \ P)
     IN  IF P = {}
         THEN Goto(x, "get", NoOne) /\ Leave(x) /\ UNCHANGED <<amounts, listed, hand>>
         ELSE /\ UNCHANGED <<srv, idx>>
              /\ hand' = [hand EXCEPT ![x] = Restricted(amounts[s], P)]
              /\ amounts' = [amounts EXCEPT ![s] = rest]
              /\ IF IsEmpty(rest)
                 THEN Goto(x, "send", NoOne) /\ listed' = Erased(s)
                 ELSE /\ listed' = Inserted(Erased(s), s)
                      /\ \E w \in Wakeable : Goto(x, "send", w)
  /\ UNCHANGED <<phase, active, delayed, timers, disk, job, left, history>>

\* The pool is deactivated.
EndSender(x) ==
  /\ pc[x] = "get" /\ phase # "running"
  /\ Goto(x, "ended", NoOne)
  /\ UNCHANGED <<phase, pool, disk, srv, idx, hand, job, left, history>>

-----------------------------------------------------------------------------
(* send_requests() and what a sender does afterwards *)

\* What may be left of an amount that a server confirms a part of.
Parts(a) == IF a >= 0 THEN 0 .. a ELSE a .. 0

\* A request is confirmed whole, or comes back with what is left of it, which
\* may be nothing.
Leftovers(r) ==
  {NoRequest} \cup (IF r.has THEN {Request(r.t, a) : a \in Parts(r.amt)} ELSE {})

\* The answers to requests h.
Answers(h) ==
  LET some == UNION {Leftovers(h[m][k]) : m \in Modes, k \in Keys}
  IN  {g \in [Modes -> [Keys -> some]] :
         \A m \in Modes, k \in Keys : g[m][k] \in Leftovers(h[m][k])}

\* The call is answered: hand holds the remainders.
Answered(x) ==
  \E g \in Answers(hand[x]) :
     /\ hand' = [hand EXCEPT ![x] = g]
     /\ owed' = owed - (Total(hand[x]) - Total(g))
     /\ UNCHANGED fails

\* The call fails.  The server may have done its work nevertheless: it will be
\* asked to confirm again what it has confirmed, and only the answer tells.
Unreachable(x) ==
  /\ fails < MaxFails
  /\ fails' = fails + 1
  /\ UNCHANGED <<hand, owed>>

Send(x) ==
  /\ pc[x] = "send"
  /\ \/ /\ Answered(x)
        /\ IF IsEmpty(hand'[x]) THEN Goto(x, "get", NoOne) /\ Leave(x)
           ELSE /\ Goto(x, "first", NoOne)
                /\ idx' = [idx EXCEPT ![x] = StartFirst(srv[x])]
                /\ UNCHANGED srv
     \/ /\ Unreachable(x)
        /\ Goto(x, "deactivate", NoOne)
        /\ idx' = [idx EXCEPT ![x] = StartFirst(srv[x])]
        /\ UNCHANGED srv
  /\ UNCHANGED <<phase, pool, disk, job, left, accepted, dumped, adds, stops>>

\* deactivate_server_() with the goal that will activate the server again.
DeactivateServer(x) ==
  /\ pc[x] = "deactivate"
  /\ active' = [active EXCEPT ![srv[x]] = FALSE]
  /\ timers' = [timers EXCEPT ![srv[x]] = @ + 1]
  /\ Goto(x, "first", NoOne)
  /\ UNCHANGED <<phase, amounts, listed, delayed, disk, srv, idx, hand, job, left, history>>

\* ActivateServerGoal: a server with requests is put into the list.
ActivateServer(s) ==
  /\ timers[s] > 0 /\ phase \in {"running", "stopping"}
  /\ timers' = [timers EXCEPT ![s] = @ - 1]
  /\ active' = [active EXCEPT ![s] = TRUE]
  /\ IF IsEmpty(amounts[s]) THEN UNCHANGED <<listed, pc>>
     ELSE /\ listed' = Inserted(listed, s)
          /\ \E w \in Wakeable : Goto(NoOne, "idle", w)
  /\ UNCHANGED <<phase, amounts, delayed, disk, srv, idx, hand, job, left, history>>

-----------------------------------------------------------------------------
(* send_delayed_() *)

TakeDelayed ==
  /\ pc[Delayer] = "idle" /\ phase = "running" /\ ~ IsEmpty(delayed)
  /\ hand' = [hand EXCEPT ![Delayer] = delayed]
  /\ delayed' = Nothing
  /\ idx' = [idx EXCEPT ![Delayer] = 0]
  /\ Goto(Delayer, "send", NoOne)
  /\ UNCHANGED <<phase, active, amounts, listed, timers, disk, srv, job, left, history>>

\* Every server is tried in turn with what the others have left.
SendDelayed ==
  /\ pc[Delayer] = "send"
  /\ ~ IsEmpty(hand[Delayer]) /\ idx[Delayer] < NServers
  /\ Answered(Delayer) \/ Unreachable(Delayer)
  /\ idx' = [idx EXCEPT ![Delayer] = @ + 1]
  /\ UNCHANGED <<phase, pool, disk, pc, srv, job, left, accepted, dumped, adds, stops>>

\* What is left is passed back.
SendDelayedEnds ==
  /\ pc[Delayer] = "send"
  /\ IsEmpty(hand[Delayer]) \/ idx[Delayer] = NServers
  /\ Goto(Delayer, "delay", NoOne)
  /\ UNCHANGED <<phase, pool, disk, srv, idx, hand, job, left, history>>

-----------------------------------------------------------------------------
(* An orderly stop, the last dump and the start of the next process *)

\* Mutant: the senders that wait are not woken.
DeactivateQuiet ==
  /\ phase = "running" /\ stops < MaxStops
  /\ phase' = "stopping" /\ stops' = stops + 1
  /\ UNCHANGED <<pool, disk, pc, srv, idx, hand, job, left, owed, accepted, dumped, adds,
                 fails>>

Deactivate ==
  /\ phase = "running" /\ stops < MaxStops
  /\ phase' = "stopping" /\ stops' = stops + 1
  /\ pc' = [x \in Threads |-> IF pc[x] = "waiting" THEN "get" ELSE pc[x]]
  /\ UNCHANGED <<pool, disk, srv, idx, hand, job, left, owed, accepted, dumped, adds, fails>>

\* save_amounts_(): the sums over all aggregators and both modes.  Of the times
\* nothing is kept that load() would use.
Saved ==
  LET SumOfModes(h, k) == h["normal"][k].amt + h["resend"][k].amt
      all(k) == SumOfModes(delayed, k)
                  + SumOver([s \in Servers |-> SumOfModes(amounts[s], k)], Servers)
      present(k) == \E m \in Modes : delayed[m][k].has \/ \E s \in Servers : amounts[s][m][k].has
  IN  [k \in Keys |-> IF present(k) THEN Request(0, all(k)) ELSE NoRequest]

\* dump() writes a new directory and renames it; dump_() logs a failure and goes
\* on.  One before the first rename leaves the older file, one between the two
\* renames leaves none, and one behind them does no harm.
WriteFile ==
  \/ file' = Saved /\ saved' = TRUE /\ UNCHANGED fails
  \/ /\ fails < MaxFails /\ fails' = fails + 1
     /\ file' \in {file, NoRequests} /\ saved' = FALSE

\* What threads hold: requests in their hands and shares not yet given.
Shares(a, ss) == SumOver([s \in Servers |-> Share(a, s)], ToSet(ss))
SharesLeft(x) == Shares(job[x].amt, left[x])

\* wait_object(): after the senders and tasks have ended the pool is saved.
Dump ==
  /\ phase = "stopping"
  /\ \A x \in Senders : pc[x] = "ended"
  /\ pc[Delayer] = "idle"
  /\ phase' = "stopped"
  /\ WriteFile
  /\ missed' = [x \in Adders |-> Total(hand[x]) + SharesLeft(x)]
  /\ UNCHANGED <<pool, unread, pc, srv, idx, hand, job, left, owed, accepted, adds, stops>>

\* The constructor of the next process, up to load().  What the last dump missed
\* is gone; after one that failed all that is owed is what the file says.
Restart ==
  /\ phase = "stopped"
  /\ phase' = "loading"
  /\ unread' = file
  /\ owed' = IF saved THEN owed - SumOver(missed, Adders) ELSE AmountOf(file)
  /\ accepted' = [x \in Adders |-> TRUE]
  /\ saved' = TRUE /\ missed' = [x \in Adders |-> 0]
  /\ active' = [s \in Servers |-> TRUE]
  /\ amounts' = [s \in Servers |-> Nothing]
  /\ listed' = [s \in Servers |-> 0]
  /\ delayed' = Nothing
  /\ timers' = [s \in Servers |-> 0]
  /\ pc' = [x \in Threads |-> IF x \in Senders THEN "ended" ELSE "idle"]
  /\ srv' = [x \in Threads |-> 0]
  /\ idx' = [x \in Threads |-> 0]
  /\ hand' = [x \in Threads |-> Nothing]
  /\ job' = [x \in Adders |-> NoJob]
  /\ left' = [x \in Adders |-> <<>>]
  /\ UNCHANGED <<file, adds, fails, stops>>

\* activate_object(): the senders start.
Activate ==
  /\ phase = "loading" /\ unread = NoRequests
  /\ \A x \in Adders : pc[x] = "idle"
  /\ phase' = "running"
  /\ pc' = [x \in Threads |-> IF x \in Senders THEN "get" ELSE "idle"]
  /\ UNCHANGED <<pool, disk, srv, idx, hand, job, left, history>>

-----------------------------------------------------------------------------

Resend(x) ==
  ResendFirst(x) \/ ResendFirstEnds(x) \/ ResendNext(x) \/ ResendNextEnds(x) \/ Delay(x)

Sender(x) ==
  \/ PopServer(x) \/ Wait(x) \/ TakeRequests(x) \/ EndSender(x)
  \/ Send(x) \/ DeactivateServer(x) \/ Resend(x)

Adder(x) == AddShare(x) \/ CheckActive(x) \/ Resend(x)

Delayed == SendDelayed \/ SendDelayedEnds \/ Delay(Delayer)

Next ==
  \/ \E x \in Senders : Sender(x)
  \/ \E x \in Adders : Add(x) \/ LoadOne(x) \/ Adder(x)
  \/ TakeDelayed \/ Delayed
  \/ \E s \in Servers : ActivateServer(s)
  \/ Deactivate \/ Dump \/ Restart \/ Activate

\* Threads go on and calls return; nobody has to stop or to restart the process.
Fairness ==
  /\ \A x \in Senders : WF_vars(Sender(x))
  /\ \A x \in Adders : WF_vars(Adder(x))
  /\ WF_vars(Delayed) /\ WF_vars(Dump)

Spec == Init /\ [][Next]_vars
FairSpec == Spec /\ Fairness

-----------------------------------------------------------------------------
(* Properties *)

Requests == {r \in [has : BOOLEAN, t : Nat, amt : Int] : r.has \/ r = NoRequest}
Aggregators == [Modes -> [Keys -> Requests]]

Places == {"idle", "add", "check", "get", "waiting", "take", "send", "deactivate",
           "first", "next", "delay", "ended"}

\* Types of the pool, the threads and the histories.
TypeOK ==
  /\ phase \in {"loading", "running", "stopping", "stopped"}
  /\ active \in [Servers -> BOOLEAN]
  /\ amounts \in [Servers -> Aggregators] /\ delayed \in Aggregators
  /\ listed \in [Servers -> Nat] /\ timers \in [Servers -> Nat]
  /\ file \in [Keys -> Requests] /\ unread \in [Keys -> Requests]
  /\ pc \in [Threads -> Places]
  /\ srv \in [Threads -> Servers] /\ idx \in [Threads -> 0 .. NServers + 1]
  /\ hand \in [Threads -> Aggregators]
  /\ job \in [Adders -> [key : Keys \cup {0}, t : Nat, amt : Int]]
  /\ left \in [Adders -> Seq(Servers)]
  /\ owed \in Int /\ missed \in [Adders -> Int]
  /\ saved \in BOOLEAN /\ accepted \in [Adders -> BOOLEAN]

InHands ==
  SumOver([x \in Threads |-> Total(hand[x])], Threads)
    + SumOver([x \in Adders |-> SharesLeft(x)], Adders)

\* What the process has still to confirm.
Outstanding ==
  InHands + Total(delayed) + SumOver([s \in Servers |-> Total(amounts[s])], Servers)
    + AmountOf(unread)

\* No amount is lost or counted twice while it is divided, aggregated, sent,
\* refused, moved on, delayed, saved and loaded: what was given to add() and is
\* in no answer confirmed is outstanding, also across a stop and a restart.
\* After a dump that failed, owed is what the file has.
Conservation == phase # "stopped" => Outstanding = owed

\* What add() took without an exception outlives an orderly stop whose dump does
\* not fail, although add() may run while the pool is deactivated and saved: the
\* check of the activity comes after the amounts were put into the pool.  The
\* file has all that is owed but what adders held, and their calls throw.
AcceptedKept ==
  phase = "stopped" /\ saved =>
    /\ AmountOf(file) = owed - SumOver(missed, Adders)
    /\ \A x \in Adders : accepted[x] => missed[x] = 0

\* A server in the list has requests: its place in the order, which is read
\* from its requests, does not change while it is there.
ListedNonEmpty == \A s \in Servers : listed[s] > 0 => ~ IsEmpty(amounts[s])

\* While a server is in the list some sender is awake to take it.
NoneSleepsInVain ==
  (\E s \in Servers : listed[s] > 0) => \E x \in Senders : pc[x] # "waiting"

\* Where each thread may be, and that it holds requests only there where it
\* sends them or moves them on; only adders run before and after the pool is.
Holding == {"send", "deactivate", "first", "next", "delay"}
PlacesInv ==
  /\ \A x \in Threads : pc[x] \notin Holding => hand[x] = Nothing
  /\ \A x \in Senders : pc[x] \notin {"idle", "add", "check"}
  /\ \A x \in Adders : pc[x] \in {"idle", "add", "check", "first", "next", "delay"}
  /\ pc[Delayer] \in {"idle", "send", "delay"}
  /\ phase \in {"loading", "stopped"} =>
       pc[Delayer] = "idle" /\ \A x \in Senders : pc[x] = "ended"
  /\ phase # "loading" => unread = NoRequests

\* Which servers an adder has still to visit, and that its call is not taken for
\* accepted before it returns.
JobOk(x) ==
  /\ \A i, j \in 1 .. Len(left[x]) : left[x][i] = left[x][j] => i = j
  /\ pc[x] \in {"idle", "check"} => left[x] = <<>>
  /\ pc[x] = "add" => left[x] # <<>>
  /\ left[x] # <<>> => job[x].key \in Keys
  /\ pc[x] = "idle" => job[x] = NoJob
  /\ pc[x] # "idle" /\ phase # "loading" => ~accepted[x]
JobsInv == \A x \in Adders : JobOk(x)

\* The pool keeps what it was given and sends it: the parts above.
PoolInv ==
  /\ TypeOK /\ PlacesInv /\ JobsInv
  /\ Conservation /\ AcceptedKept /\ ListedNonEmpty /\ NoneSleepsInVain

\* Refused requests do not go round the servers for ever: they are confirmed
\* or end among the delayed ones, and the senders come to rest.
SendersRest == <>[](\A x \in Senders : pc[x] \in {"waiting", "ended"})

\* wait_object() returns: every sender leaves get_requests(), the task ends and
\* the pool is saved.
StopReturns == (phase = "stopping") ~> (phase = "stopped")

=============================================================================
