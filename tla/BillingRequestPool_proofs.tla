---------------------- MODULE BillingRequestPool_proofs ----------------------
(***************************************************************************)
(* PoolInv is an invariant of BillingRequestPool, for any servers, threads,*)
(* keys, times and amounts: no amount is lost or counted twice on its way  *)
(* through the pool, and some sender is awake while a server is listed.    *)
(***************************************************************************)
EXTENDS BillingRequestPool, NumberTheorems

-----------------------------------------------------------------------------
(* Requests, aggregators and their amounts *)

LEMMA Numbers ==
  /\ NServers \in Nat \ {0} /\ 0 \in Servers /\ Servers \subseteq Nat
  /\ IsFiniteSet(Servers) /\ Cardinality(Servers) = NServers
  /\ IsFiniteSet(Threads) /\ IsFiniteSet(Adders) /\ IsFiniteSet(Keys)
<1>1. NServers \in Nat \ {0}
  BY PoolAssumption
<1>2. IsFiniteSet(0 .. NServers - 1) /\ Cardinality(0 .. NServers - 1) = NServers
  BY <1>1, FS_Interval
<1>3. IsFiniteSet(Senders \cup Adders) /\ IsFiniteSet({Delayer})
  BY PoolAssumption, FS_Union, FS_Singleton
<1>4. IsFiniteSet(Threads)
  BY <1>3, FS_Union DEF Threads
<1> QED BY <1>1, <1>2, <1>4, PoolAssumption DEF Servers

LEMMA RequestFacts ==
  ASSUME NEW t \in Nat, NEW a \in Int
  PROVE  Request(t, a) \in Requests /\ Request(t, a).amt = a /\ Request(t, a).has
BY DEF Request, Requests, NoRequest

LEMMA NoRequestFacts == NoRequest \in Requests /\ NoRequest.amt = 0 /\ ~NoRequest.has
BY DEF Requests, NoRequest

\* Two requests are added up.
LEMMA Sum2Facts ==
  ASSUME NEW r \in Requests, NEW q \in Requests
  PROVE  /\ Sum2(r, q) \in Requests
         /\ r.amt \in Int /\ q.amt \in Int /\ Sum2(r, q).amt = r.amt + q.amt
         /\ Sum2(r, q).has <=> r.has \/ q.has
<1>1. r.amt \in Int /\ q.amt \in Int /\ r.t \in Nat /\ q.t \in Nat
  BY DEF Requests
<1>2. CASE ~r.has
  BY <1>2, <1>1, NoRequestFacts DEF Sum2, Requests
<1>3. CASE ~q.has
  BY <1>3, <1>1, NoRequestFacts DEF Sum2, Requests
<1>4. CASE r.has /\ q.has
  <2>1. Min({r.t, q.t}) \in Nat
    BY <1>1, MinOf
  <2>2. Sum2(r, q) = Request(Min({r.t, q.t}), r.amt + q.amt)
    BY <1>4 DEF Sum2
  <2>3. r.amt + q.amt \in Int
    BY <1>1
  <2> QED BY <1>1, <1>4, <2>1, <2>2, <2>3, RequestFacts
<1> QED BY <1>2, <1>3, <1>4

\* What AmountOf() sums up.
Amts(rs) == [k \in Keys |-> rs[k].amt]

LEMMA AmountIs ==
  ASSUME NEW rs \in [Keys -> Requests]
  PROVE  /\ AmountOf(rs) = SumOver(Amts(rs), Keys) /\ AmountOf(rs) \in Int
         /\ \A k \in Keys : Amts(rs)[k] = rs[k].amt /\ rs[k].amt \in Int
<1>1. \A k \in Keys : Amts(rs)[k] = rs[k].amt /\ rs[k].amt \in Int
  BY DEF Amts, Requests
<1>2. SumOver(Amts(rs), Keys) \in Int
  BY <1>1, SumType, Numbers
<1> QED BY <1>1, <1>2 DEF AmountOf, Amts

LEMMA AmountNone == NoRequests \in [Keys -> Requests] /\ AmountOf(NoRequests) = 0
<1>1. NoRequests \in [Keys -> Requests]
  BY NoRequestFacts DEF NoRequests
<1>2. \A k \in Keys : Amts(NoRequests)[k] = 0
  BY NoRequestFacts DEF NoRequests, Amts
<1>3. SumOver(Amts(NoRequests), Keys) = 0
  BY <1>2, SumZero, Numbers
<1> QED BY <1>1, <1>3, AmountIs

\* Amounts that are sums at every key have the sum of the amounts.
LEMMA AmountAdd ==
  ASSUME NEW rs \in [Keys -> Requests], NEW qs \in [Keys -> Requests],
         NEW us \in [Keys -> Requests], \A k \in Keys : us[k].amt = rs[k].amt + qs[k].amt
  PROVE  AmountOf(us) = AmountOf(rs) + AmountOf(qs)
<1>1. PICK f, g, h : f = Amts(rs) /\ g = Amts(qs) /\ h = Amts(us)
  OBVIOUS
<1>2. \A k \in Keys : f[k] \in Int /\ g[k] \in Int /\ h[k] = f[k] + g[k]
  BY <1>1, AmountIs
<1>3. SumOver(h, Keys) = SumOver(f, Keys) + SumOver(g, Keys)
  BY <1>2, SumAdd, Numbers
<1> QED BY <1>1, <1>3, AmountIs

\* A change of one request changes the amount by as much.
LEMMA AmountChange ==
  ASSUME NEW rs \in [Keys -> Requests], NEW k \in Keys, NEW r \in Requests
  PROVE  /\ [rs EXCEPT ![k] = r] \in [Keys -> Requests]
         /\ AmountOf([rs EXCEPT ![k] = r]) = AmountOf(rs) - rs[k].amt + r.amt
<1>1. PICK qs : qs = [rs EXCEPT ![k] = r]
  OBVIOUS
<1>2. qs \in [Keys -> Requests] /\ qs[k] = r /\ \A j \in Keys \ {k} : qs[j] = rs[j]
  BY <1>1
<1>3. PICK f, g : f = Amts(rs) /\ g = Amts(qs)
  OBVIOUS
<1>4. /\ \A j \in Keys : f[j] \in Int /\ f[j] = rs[j].amt
      /\ \A j \in Keys : g[j] \in Int /\ g[j] = qs[j].amt
  BY <1>2, <1>3, AmountIs
<1>5. SumOver(g, Keys) = SumOver(f, Keys) - f[k] + g[k]
  BY <1>2, <1>4, SumChange, Numbers
<1>6. SumOver(g, Keys) = AmountOf(qs) /\ SumOver(f, Keys) = AmountOf(rs)
  BY <1>2, <1>3, AmountIs
<1> QED BY <1>1, <1>2, <1>4, <1>5, <1>6

LEMMA OnlyFacts ==
  ASSUME NEW k \in Keys, NEW t \in Nat, NEW a \in Int
  PROVE  /\ Only(k, Request(t, a)) \in [Keys -> Requests] /\ Only(k, Request(t, a))[k].has
         /\ AmountOf(Only(k, Request(t, a))) = a
<1>1. Request(t, a) \in Requests /\ Request(t, a).amt = a /\ Request(t, a).has
  BY RequestFacts
<1>2. NoRequests[k].amt = 0 /\ DOMAIN NoRequests = Keys
  BY NoRequestFacts DEF NoRequests
<1>3. /\ Only(k, Request(t, a)) \in [Keys -> Requests]
      /\ AmountOf(Only(k, Request(t, a))) = 0 - 0 + a
  <2>1. PICK q : q = Request(t, a)
    OBVIOUS
  <2>2. /\ [NoRequests EXCEPT ![k] = q] \in [Keys -> Requests]
        /\ AmountOf([NoRequests EXCEPT ![k] = q]) = AmountOf(NoRequests) - NoRequests[k].amt + q.amt
    <3>1. PICK n : n = NoRequests
      OBVIOUS
    <3>2. n \in [Keys -> Requests] /\ q \in Requests
      BY <1>1, <2>1, <3>1, AmountNone
    <3>3. /\ [n EXCEPT ![k] = q] \in [Keys -> Requests]
          /\ AmountOf([n EXCEPT ![k] = q]) = AmountOf(n) - n[k].amt + q.amt
      BY ONLY <3>2, k \in Keys, AmountChange
    <3> QED BY ONLY <3>1, <3>3
  <2> QED BY <1>1, <1>2, <2>1, <2>2, AmountNone DEF Only
<1>4. Only(k, Request(t, a))[k] = Request(t, a)
  BY <1>2 DEF Only
<1> QED BY <1>1, <1>3, <1>4

LEMMA TotalFacts ==
  ASSUME NEW h \in Aggregators
  PROVE  /\ h["normal"] \in [Keys -> Requests] /\ h["resend"] \in [Keys -> Requests]
         /\ AmountOf(h["normal"]) \in Int /\ AmountOf(h["resend"]) \in Int
         /\ Total(h) = AmountOf(h["normal"]) + AmountOf(h["resend"]) /\ Total(h) \in Int
<1>1. h["normal"] \in [Keys -> Requests] /\ h["resend"] \in [Keys -> Requests]
  BY DEF Aggregators, Modes
<1>2. AmountOf(h["normal"]) \in Int /\ AmountOf(h["resend"]) \in Int
  BY <1>1, AmountIs
<1> QED BY <1>1, <1>2 DEF Total

LEMMA TotalType == \A h \in Aggregators : Total(h) \in Int
BY TotalFacts

LEMMA NothingFacts == Nothing \in Aggregators /\ Total(Nothing) = 0 /\ IsEmpty(Nothing)
<1>1. Nothing["normal"] = NoRequests /\ Nothing["resend"] = NoRequests
  BY DEF Nothing, Modes
<1>2. Nothing \in Aggregators
  BY AmountNone DEF Nothing, Aggregators
<1>3. IsEmpty(Nothing)
  BY NoRequestFacts DEF IsEmpty, Present, Nothing, NoRequests
<1> QED BY <1>1, <1>2, <1>3, AmountNone DEF Total

\* Requests of one mode.
LEMMA AsFacts ==
  ASSUME NEW m \in Modes, NEW rs \in [Keys -> Requests]
  PROVE  /\ As(m, rs) \in Aggregators /\ Total(As(m, rs)) = AmountOf(rs)
         /\ IsEmpty(As(m, rs)) <=> \A k \in Keys : ~rs[k].has
<1>1. /\ As(m, rs) \in Aggregators /\ As(m, rs)[m] = rs
      /\ \A n \in Modes \ {m} : As(m, rs)[n] = NoRequests
  BY AmountNone DEF As, Nothing, Aggregators
<1>2. Total(As(m, rs)) = AmountOf(rs)
  <2>1. AmountOf(rs) \in Int
    BY AmountIs
  <2> QED BY <1>1, <2>1, AmountNone DEF Total, Modes
<1>3. IsEmpty(As(m, rs)) <=> \A k \in Keys : ~rs[k].has
  <2>1. ASSUME NEW k \in Keys, rs[k].has PROVE ~IsEmpty(As(m, rs))
    <3>1. <<m, k>> \in Present(As(m, rs))
      BY <1>1, <2>1 DEF Present
    <3> QED BY <3>1 DEF IsEmpty
  <2>2. ASSUME NEW p \in Present(As(m, rs)) PROVE \E k \in Keys : rs[k].has
    <3>1. p[1] \in Modes /\ p[2] \in Keys /\ As(m, rs)[p[1]][p[2]].has
      BY <2>2 DEF Present
    <3>2. p[1] = m
      BY <1>1, <3>1, NoRequestFacts DEF NoRequests
    <3> QED BY <1>1, <3>1, <3>2
  <2> QED BY <2>1, <2>2 DEF IsEmpty
<1> QED BY <1>1, <1>2, <1>3

\* add_to_aggregator_i_() adds the amounts.
LEMMA AggregateFacts ==
  ASSUME NEW h \in Aggregators, NEW g \in Aggregators
  PROVE  /\ Aggregate(h, g) \in Aggregators
         /\ Total(Aggregate(h, g)) = Total(h) + Total(g)
         /\ ~IsEmpty(g) => ~IsEmpty(Aggregate(h, g))
<1> DEFINE u == Aggregate(h, g)
<1>1. \A m \in Modes, k \in Keys :
        /\ h[m][k] \in Requests /\ g[m][k] \in Requests /\ u[m][k] = Sum2(h[m][k], g[m][k])
  BY DEF Aggregate, Aggregators
<1>2. \A m \in Modes, k \in Keys :
        /\ u[m][k] \in Requests /\ u[m][k].amt = h[m][k].amt + g[m][k].amt
        /\ g[m][k].has => u[m][k].has
  BY <1>1, Sum2Facts
<1>3. u \in Aggregators
  BY <1>1, Sum2Facts DEF Aggregate, Aggregators
<1> HIDE DEF u
<1>4. /\ AmountOf(u["normal"]) = AmountOf(h["normal"]) + AmountOf(g["normal"])
      /\ AmountOf(u["resend"]) = AmountOf(h["resend"]) + AmountOf(g["resend"])
  <2>1. "normal" \in Modes /\ "resend" \in Modes
    BY DEF Modes
  <2>2. ASSUME NEW m \in Modes PROVE AmountOf(u[m]) = AmountOf(h[m]) + AmountOf(g[m])
    <3>1. PICK rs, qs, us : rs = h[m] /\ qs = g[m] /\ us = u[m]
      OBVIOUS
    <3>2. /\ rs \in [Keys -> Requests] /\ qs \in [Keys -> Requests] /\ us \in [Keys -> Requests]
          /\ \A k \in Keys : us[k].amt = rs[k].amt + qs[k].amt
      BY <1>2, <1>3, <3>1 DEF Aggregators
    <3>3. AmountOf(us) = AmountOf(rs) + AmountOf(qs)
      BY ONLY <3>2, AmountAdd
    <3> QED BY ONLY <3>1, <3>3
  <2> QED BY <2>1, <2>2
<1>5. Total(u) = Total(h) + Total(g)
  BY <1>3, <1>4, TotalFacts
<1>6. ASSUME ~IsEmpty(g) PROVE ~IsEmpty(u)
  <2>1. PICK p \in Modes \X Keys : g[p[1]][p[2]].has
    BY <1>6 DEF IsEmpty, Present
  <2>2. p \in Present(u)
    BY <1>2, <2>1 DEF Present
  <2> QED BY <2>2 DEF IsEmpty
<1> QED BY <1>3, <1>5, <1>6 DEF u

LEMMA EmptyIs ==
  ASSUME NEW h \in Aggregators, IsEmpty(h)
  PROVE  h = Nothing
<1>1. \A m \in Modes, k \in Keys : h[m][k] = NoRequest
  <2>1. SUFFICES ASSUME NEW m \in Modes, NEW k \in Keys PROVE h[m][k] = NoRequest
    OBVIOUS
  <2>2. <<m, k>> \notin Present(h)
    BY DEF IsEmpty
  <2>3. ~h[m][k].has /\ h[m][k] \in Requests
    BY <2>2 DEF Present, Aggregators
  <2> QED BY <2>3 DEF Requests
<1> QED BY <1>1 DEF Nothing, NoRequests, Aggregators

\* A part and the rest have the amounts of the whole, whichever part it is.
LEMMA RestrictedFacts ==
  ASSUME NEW h \in Aggregators, NEW P
  PROVE  /\ Restricted(h, P) \in Aggregators
         /\ Restricted(h, Present(h) \ P) \in Aggregators
         /\ Total(h) = Total(Restricted(h, P)) + Total(Restricted(h, Present(h) \ P))
<1> DEFINE u == Restricted(h, P)
           v == Restricted(h, Present(h) \ P)
<1>1. u \in Aggregators /\ v \in Aggregators
  BY NoRequestFacts DEF Restricted, Aggregators
<1>2. ASSUME NEW m \in Modes, NEW k \in Keys PROVE h[m][k].amt = u[m][k].amt + v[m][k].amt
  <2>1. h[m][k] \in Requests /\ h[m][k].amt \in Int
    BY DEF Aggregators, Requests
  <2>2. <<m, k>> \in Present(h) <=> h[m][k].has
    BY DEF Present
  <2>3. u[m][k] = IF <<m, k>> \in P THEN h[m][k] ELSE NoRequest
    BY DEF Restricted
  <2>4. v[m][k] = IF <<m, k>> \in Present(h) \ P THEN h[m][k] ELSE NoRequest
    BY DEF Restricted
  <2>5. ~h[m][k].has => h[m][k].amt = 0
    BY <2>1, NoRequestFacts DEF Requests
  <2> QED BY <2>1, <2>2, <2>3, <2>4, <2>5, NoRequestFacts
<1> HIDE DEF u, v
<1>3. /\ AmountOf(h["normal"]) = AmountOf(u["normal"]) + AmountOf(v["normal"])
      /\ AmountOf(h["resend"]) = AmountOf(u["resend"]) + AmountOf(v["resend"])
  <2>1. "normal" \in Modes /\ "resend" \in Modes
    BY DEF Modes
  <2>2. ASSUME NEW m \in Modes PROVE AmountOf(h[m]) = AmountOf(u[m]) + AmountOf(v[m])
    <3>1. PICK rs, qs, us : rs = u[m] /\ qs = v[m] /\ us = h[m]
      OBVIOUS
    <3>2. /\ rs \in [Keys -> Requests] /\ qs \in [Keys -> Requests] /\ us \in [Keys -> Requests]
          /\ \A k \in Keys : us[k].amt = rs[k].amt + qs[k].amt
      BY <1>1, <1>2, <3>1 DEF Aggregators
    <3>3. AmountOf(us) = AmountOf(rs) + AmountOf(qs)
      BY ONLY <3>2, AmountAdd
    <3> QED BY ONLY <3>1, <3>3
  <2> QED BY <2>1, <2>2
<1>4. Total(h) = Total(u) + Total(v)
  BY <1>1, <1>3, TotalFacts
<1> QED BY <1>1, <1>4 DEF u, v

LEMMA AnswerFacts ==
  ASSUME NEW h \in Aggregators, NEW g \in Answers(h)
  PROVE  g \in Aggregators
<1>1. ASSUME NEW m \in Modes, NEW k \in Keys PROVE g[m][k] \in Requests
  <2>1. h[m][k] \in Requests /\ g[m][k] \in Leftovers(h[m][k])
    BY DEF Aggregators, Answers
  <2>2. h[m][k].t \in Nat /\ h[m][k].amt \in Int
    BY <2>1 DEF Requests
  <2>3. \A a \in Parts(h[m][k].amt) : a \in Int
    BY <2>2 DEF Parts
  <2>4. CASE g[m][k] = NoRequest
    BY <2>4, NoRequestFacts
  <2>5. CASE \E a \in Parts(h[m][k].amt) : g[m][k] = Request(h[m][k].t, a)
    BY <2>2, <2>3, <2>5, RequestFacts
  <2> QED BY <2>1, <2>4, <2>5 DEF Leftovers
<1>2. g \in [Modes -> [Keys -> Requests]]
  <2> DEFINE some == UNION {Leftovers(h[m][k]) : m \in Modes, k \in Keys}
  <2>1. g \in [Modes -> [Keys -> some]]
    BY DEF Answers
  <2> HIDE DEF some
  <2> QED BY <1>1, <2>1
<1> QED BY <1>2 DEF Aggregators

-----------------------------------------------------------------------------
(* The list, the shares and what is saved *)

LEMMA FirstTimeIs ==
  ASSUME NEW h \in Aggregators, ~IsEmpty(h)
  PROVE  FirstTime(h) \in Nat
<1> DEFINE T == {h[p[1]][p[2]].t : p \in Present(h)}
<1>1. \A p \in Present(h) : h[p[1]][p[2]] \in Requests
  BY DEF Present, Aggregators
<1>2. \A p \in Present(h) : h[p[1]][p[2]].t \in Nat
  BY <1>1 DEF Requests
<1>3. T \subseteq Nat /\ T # {}
  BY <1>2 DEF IsEmpty
<1>4. Min(T) \in T
  <2> HIDE DEF T
  <2> QED BY <1>3, MinOf
<1> QED BY <1>3, <1>4 DEF FirstTime

\* erase() takes a server that it is called for out of the list, and others may
\* go with it.
LEMMA ErasedFacts ==
  ASSUME amounts \in [Servers -> Aggregators], listed \in [Servers -> Nat], NEW s \in Servers
  PROVE  /\ Erased(s) \in [Servers -> Nat] /\ Erased(s)[s] = 0
         /\ \A u \in Servers : Erased(s)[u] > 0 => listed[u] > 0
<1>1. ~Earlier(s, s)
  BY FirstTimeIs DEF Earlier
<1> QED BY <1>1 DEF Erased

\* The shares of a magnitude.
LEMMA ShareOfSizeFacts ==
  ASSUME NEW a \in Nat
  PROVE  /\ \A s \in Servers : ShareOfSize(a, s) \in Nat
         /\ SumOver([s \in Servers |-> ShareOfSize(a, s)], Servers) = a
<1> DEFINE f == [s \in Servers |-> a \div NServers]
           g == [s \in Servers |-> ShareOfSize(a, s)]
<1>1. PICK q \in Nat, r \in Nat : /\ q = a \div NServers /\ r = a % NServers
                                  /\ a = NServers * q + r
  BY Numbers
<1>2. \A s \in Servers : /\ f[s] = q /\ g[s] = q + (IF s = 0 THEN r ELSE 0)
                         /\ g[s] = ShareOfSize(a, s)
  BY <1>1 DEF ShareOfSize
<1>3. \A s \in Servers : f[s] \in Int /\ g[s] \in Nat
  BY <1>2
<1> HIDE DEF f, g
<1>4. SumOver(f, Servers) = Cardinality(Servers) * q
  <2>1. \A s \in Servers : f[s] = q
    BY <1>2
  <2>2. q \in Int /\ IsFiniteSet(Servers)
    BY Numbers
  <2> QED BY ONLY <2>1, <2>2, SumConst, Zenon
<1>5. SumOver(g, Servers) = SumOver(f, Servers) - f[0] + g[0]
  <2>1. \A s \in Servers \ {0} : g[s] = f[s]
    BY <1>2
  <2>2. 0 \in Servers /\ IsFiniteSet(Servers) /\ g[0] \in Int /\ \A s \in Servers : f[s] \in Int
    BY <1>3, Numbers
  <2> QED BY ONLY <2>1, <2>2, SumChange
<1>6. f[0] = q /\ g[0] = q + r
  BY <1>2, Numbers
<1>7. PICK n \in Int : n = NServers * q /\ a = n + r /\ SumOver(f, Servers) = n
  BY <1>1, <1>4, Numbers
<1>8. SumOver(g, Servers) = a
  BY ONLY q \in Nat, r \in Nat, a \in Nat, <1>5, <1>6, <1>7
<1> QED BY <1>2, <1>3, <1>8 DEF g

\* The shares of an amount of either sign.
LEMMA ShareFacts ==
  ASSUME NEW a \in Int
  PROVE  /\ \A s \in Servers : Share(a, s) \in Int
         /\ SumOver([s \in Servers |-> Share(a, s)], Servers) = a
<1>1. CASE a >= 0
  <2>1. a \in Nat /\ \A s \in Servers : Share(a, s) = ShareOfSize(a, s)
    BY <1>1 DEF Share
  <2>2. PICK f, g : /\ f = [s \in Servers |-> Share(a, s)]
                    /\ g = [s \in Servers |-> ShareOfSize(a, s)]
    OBVIOUS
  <2>3. f = g
    BY <2>1, <2>2
  <2> QED BY <2>1, <2>2, <2>3, ShareOfSizeFacts
<1>2. CASE a < 0
  <2>1. PICK b \in Nat : b = -a
    BY <1>2
  <2>2. \A s \in Servers : Share(a, s) = -ShareOfSize(b, s)
    BY <1>2, <2>1 DEF Share
  <2>3. /\ \A s \in Servers : ShareOfSize(b, s) \in Nat
        /\ SumOver([s \in Servers |-> ShareOfSize(b, s)], Servers) = b
    BY ShareOfSizeFacts
  <2>4. PICK f, g, z : /\ f = [s \in Servers |-> Share(a, s)]
                       /\ g = [s \in Servers |-> ShareOfSize(b, s)]
                       /\ z = [s \in Servers |-> 0]
    OBVIOUS
  <2>5. \A s \in Servers : f[s] = -g[s] /\ g[s] \in Nat /\ z[s] = 0
    BY <2>2, <2>3, <2>4
  <2>6. \A s \in Servers : f[s] \in Int /\ g[s] \in Int /\ z[s] = f[s] + g[s]
    BY ONLY <2>5
  <2>7. SumOver(z, Servers) = SumOver(f, Servers) + SumOver(g, Servers)
    <3>1. IsFiniteSet(Servers)
      BY Numbers
    <3> QED BY ONLY <2>6, <3>1, SumAdd
  <2>8. SumOver(z, Servers) = 0 /\ SumOver(f, Servers) \in Int
    BY ONLY <2>5, <2>6, SumZero, SumType, Numbers
  <2>9. SumOver(g, Servers) = b
    BY <2>3, <2>4
  <2>10. SumOver(f, Servers) = a
    <3>1. PICK n \in Int : n = SumOver(f, Servers) /\ 0 = n + b
      BY ONLY <2>7, <2>8, <2>9
    <3>2. n = -b
      BY ONLY <3>1, n \in Int, b \in Nat
    <3>3. n = a
      BY ONLY <2>1, <3>2, a \in Int, b \in Nat
    <3> QED BY <3>1, <3>3
  <2> QED BY <2>4, <2>6, <2>10
<1> QED BY <1>1, <1>2

LEMMA ShareOrderFacts ==
  /\ ShareOrder \in Seq(Servers) /\ ShareOrder # <<>> /\ ToSet(ShareOrder) = Servers
  /\ \A i, j \in 1 .. Len(ShareOrder) : ShareOrder[i] = ShareOrder[j] => i = j
<1> DEFINE o == ShareOrder
<1>1. \A i \in 1 .. NServers : o[i] = IF i = 1 THEN 0 ELSE IF i = NServers THEN 1 ELSE i
  BY DEF ShareOrder
<1>2. \A i \in 1 .. NServers : o[i] \in Servers
  BY <1>1, Numbers DEF Servers
<1>3. o \in [1 .. NServers -> Servers]
  BY <1>2 DEF ShareOrder
<1>4. o \in Seq(Servers) /\ Len(o) = NServers /\ DOMAIN o = 1 .. NServers
  BY <1>3, Numbers
<1>5. o # <<>>
  BY <1>4, Numbers
<1>6. \A i, j \in 1 .. NServers : o[i] = o[j] => i = j
  BY <1>1, Numbers
<1>7. ASSUME NEW s \in Servers PROVE \E i \in 1 .. NServers : o[i] = s
  <2>1. CASE s = 0
    BY <1>1, <2>1, Numbers
  <2>2. CASE s = 1
    <3>1. NServers >= 2
      BY <2>2, Numbers DEF Servers
    <3>2. NServers \in 1 .. NServers /\ o[NServers] = 1
      BY <1>1, <3>1, Numbers
    <3> QED BY <2>2, <3>2
  <2>3. CASE s # 0 /\ s # 1
    <3>1. s \in 1 .. NServers /\ s # NServers
      BY <2>3, Numbers DEF Servers
    <3>2. o[s] = s
      BY <1>1, <2>3, <3>1
    <3> QED BY <3>1, <3>2
  <2> QED BY <2>1, <2>2, <2>3
<1>8. ToSet(o) = Servers
  BY <1>2, <1>4, <1>7 DEF ToSet
<1> QED BY <1>4, <1>5, <1>6, <1>8

\* The first of the servers that are left, and the others.
LEMMA TailFacts ==
  ASSUME NEW q \in Seq(Servers), q # <<>>,
         \A i, j \in 1 .. Len(q) : q[i] = q[j] => i = j
  PROVE  /\ Head(q) \in Servers /\ Tail(q) \in Seq(Servers)
         /\ \A i, j \in 1 .. Len(Tail(q)) : Tail(q)[i] = Tail(q)[j] => i = j
         /\ Head(q) \in ToSet(q) /\ ToSet(q) \subseteq Servers
         /\ ToSet(Tail(q)) = ToSet(q) \ {Head(q)}
<1>1. /\ Len(q) \in Nat \ {0} /\ Head(q) = q[1] /\ Tail(q) \in Seq(Servers)
      /\ Len(Tail(q)) = Len(q) - 1
      /\ \A i \in 1 .. Len(q) - 1 : Tail(q)[i] = q[i + 1]
      /\ \A i \in 1 .. Len(q) : q[i] \in Servers
  OBVIOUS
<1>2. ToSet(q) = {q[i] : i \in 1 .. Len(q)} /\ ToSet(Tail(q)) = {Tail(q)[i] : i \in 1 .. Len(q) - 1}
  <2>1. DOMAIN q = 1 .. Len(q) /\ DOMAIN Tail(q) = 1 .. Len(q) - 1
    <3>1. \A z \in Seq(Servers) : DOMAIN z = 1 .. Len(z)
      OBVIOUS
    <3> QED BY <1>1, <3>1
  <2> QED BY <2>1 DEF ToSet
<1>3. \A i, j \in 1 .. Len(Tail(q)) : Tail(q)[i] = Tail(q)[j] => i = j
  <2>1. SUFFICES ASSUME NEW i \in 1 .. Len(q) - 1, NEW j \in 1 .. Len(q) - 1,
                        Tail(q)[i] = Tail(q)[j]
                 PROVE  i = j
    BY <1>1
  <2>2. i + 1 \in 1 .. Len(q) /\ j + 1 \in 1 .. Len(q) /\ q[i + 1] = q[j + 1]
    BY <1>1, <2>1
  <2>3. i + 1 = j + 1
    BY <2>2
  <2> QED BY <2>3
<1>4. ASSUME NEW s PROVE s \in ToSet(Tail(q)) <=> s \in ToSet(q) /\ s # Head(q)
  <2>1. ASSUME NEW i \in 1 .. Len(q) - 1, s = Tail(q)[i] PROVE s \in ToSet(q) /\ s # Head(q)
    <3>1. i + 1 \in 1 .. Len(q) /\ s = q[i + 1] /\ i + 1 # 1 /\ 1 \in 1 .. Len(q)
      BY <1>1, <2>1
    <3> QED BY <1>1, <1>2, <3>1
  <2>2. ASSUME NEW i \in 1 .. Len(q), s = q[i], s # Head(q) PROVE s \in ToSet(Tail(q))
    <3>1. i - 1 \in 1 .. Len(q) - 1 /\ s = Tail(q)[i - 1]
      BY <1>1, <2>2
    <3> QED BY <1>2, <3>1
  <2> QED BY <1>2, <2>1, <2>2
<1>5. Head(q) \in ToSet(q)
  BY <1>1, <1>2
<1> QED BY <1>1, <1>2, <1>3, <1>4, <1>5

\* The shares of all servers are the amount, those of some are integers.
LEMMA SharesFacts ==
  ASSUME NEW a \in Int
  PROVE  /\ Shares(a, ShareOrder) = a /\ Shares(a, <<>>) = 0
         /\ \A q \in Seq(Servers) : Shares(a, q) \in Int
<1>1. PICK f : f = [s \in Servers |-> Share(a, s)]
  OBVIOUS
<1>2. SumOver(f, Servers) = a /\ \A s \in Servers : f[s] \in Int
  BY <1>1, ShareFacts
<1>3. Shares(a, ShareOrder) = a
  BY <1>1, <1>2, ShareOrderFacts DEF Shares
<1>4. Shares(a, <<>>) = 0
  <2>1. ToSet(<<>>) = {}
    BY DEF ToSet
  <2>2. SumOver(f, {}) = 0
    BY SumEmpty
  <2> QED BY <1>1, <2>1, <2>2 DEF Shares
<1>5. ASSUME NEW q \in Seq(Servers) PROVE Shares(a, q) \in Int
  <2>1. ToSet(q) \subseteq Servers
    <3>1. \A i \in DOMAIN q : q[i] \in Servers
      OBVIOUS
    <3> QED BY <3>1 DEF ToSet
  <2>2. IsFiniteSet(ToSet(q))
    BY <2>1, FS_Subset, Numbers
  <2>3. SumOver(f, ToSet(q)) \in Int
    BY <1>2, <2>1, <2>2, SumType
  <2> QED BY <1>1, <2>3 DEF Shares
<1> QED BY <1>3, <1>4, <1>5

LEMMA SharesType == \A a \in Int, q \in Seq(Servers) : Shares(a, q) \in Int
BY SharesFacts

\* The shares that are left, after one was given.
LEMMA ShareGiven ==
  ASSUME NEW a \in Int, NEW q \in Seq(Servers), q # <<>>,
         \A i, j \in 1 .. Len(q) : q[i] = q[j] => i = j
  PROVE  /\ Shares(a, q) = Share(a, Head(q)) + Shares(a, Tail(q))
         /\ Share(a, Head(q)) \in Int
<1>1. /\ Head(q) \in Servers /\ Head(q) \in ToSet(q) /\ ToSet(q) \subseteq Servers
      /\ ToSet(Tail(q)) = ToSet(q) \ {Head(q)}
  BY TailFacts
<1>2. IsFiniteSet(ToSet(q))
  BY <1>1, FS_Subset, Numbers
<1>3. PICK f : f = [s \in Servers |-> Share(a, s)]
  OBVIOUS
<1>4. f[Head(q)] = Share(a, Head(q)) /\ \A s \in Servers : f[s] \in Int
  BY <1>1, <1>3, ShareFacts
<1>5. SumOver(f, ToSet(q)) = f[Head(q)] + SumOver(f, ToSet(Tail(q)))
  <2>1. \A s \in ToSet(q) : f[s] \in Int
    BY <1>1, <1>4
  <2> QED BY ONLY <1>1, <1>2, <2>1, SumRemove
<1>6. Shares(a, q) = SumOver(f, ToSet(q)) /\ Shares(a, Tail(q)) = SumOver(f, ToSet(Tail(q)))
  BY <1>3 DEF Shares
<1> QED BY <1>1, <1>4, <1>5, <1>6

\* What is saved has the amounts of the servers and of the delayed requests.
LEMMA SavedFacts ==
  ASSUME amounts \in [Servers -> Aggregators], delayed \in Aggregators
  PROVE  /\ Saved \in [Keys -> Requests]
         /\ AmountOf(Saved) = Total(delayed) + SumOver([s \in Servers |-> Total(amounts[s])], Servers)
<1> DEFINE two(h) == [k \in Keys |-> h["normal"][k].amt + h["resend"][k].amt]
           F == [s \in Servers |-> two(amounts[s])]
           col == [k \in Keys |-> SumOver([s \in Servers |-> F[s][k]], Servers)]
           row == [s \in Servers |-> SumOver(F[s], Keys)]
           D == two(delayed)
<1>1. ASSUME NEW h \in Aggregators
      PROVE  SumOver(two(h), Keys) = Total(h) /\ \A k \in Keys : two(h)[k] \in Int
  <2>1. PICK f, g, w : f = Amts(h["normal"]) /\ g = Amts(h["resend"]) /\ w = two(h)
    OBVIOUS
  <2>2. \A k \in Keys : f[k] \in Int /\ g[k] \in Int /\ w[k] = f[k] + g[k]
    BY <2>1, AmountIs, TotalFacts
  <2>3. SumOver(w, Keys) = SumOver(f, Keys) + SumOver(g, Keys)
    BY ONLY <2>2, SumAdd, Numbers
  <2>4. SumOver(f, Keys) = AmountOf(h["normal"]) /\ SumOver(g, Keys) = AmountOf(h["resend"])
    BY <2>1, AmountIs, TotalFacts
  <2>5. Total(h) = AmountOf(h["normal"]) + AmountOf(h["resend"])
    BY TotalFacts
  <2>6. SumOver(w, Keys) = Total(h) /\ \A k \in Keys : w[k] \in Int
    BY ONLY <2>2, <2>3, <2>4, <2>5
  <2> QED BY <2>1, <2>6
<1>2. \A s \in Servers : row[s] = Total(amounts[s]) /\ \A k \in Keys : F[s][k] \in Int
  BY <1>1
<1>3. SumOver(row, Servers) = SumOver(col, Keys)
  <2>1. \A s \in Servers, k \in Keys : F[s][k] \in Int
    <3> HIDE DEF F, row
    <3> QED BY <1>2
  <2>2. IsFiniteSet(Servers) /\ IsFiniteSet(Keys)
    BY Numbers
  <2>3. PICK G, T, r, c : /\ G = F /\ r = row /\ c = col
                          /\ T = [k \in Keys |-> [s \in Servers |-> F[s][k]]]
    OBVIOUS
  <2>4. IsTable(G, T, r, c, Servers, Keys)
    <3> HIDE DEF F
    <3> QED BY <2>1, <2>3 DEF IsTable
  <2>5. SumOver(r, Servers) = SumOver(c, Keys)
    BY ONLY <2>2, <2>4, SumSwap
  <2> HIDE DEF row, col, F
  <2> QED BY <2>3, <2>5
<1>4. SumOver(row, Servers) = SumOver([s \in Servers |-> Total(amounts[s])], Servers)
  <2>1. PICK v : v = [s \in Servers |-> Total(amounts[s])]
    OBVIOUS
  <2>2. \A s \in Servers : row[s] = v[s]
    BY <1>2, <2>1
  <2>3. SumOver(row, Servers) = SumOver(v, Servers)
    <3> HIDE DEF row
    <3>1. IsFiniteSet(Servers)
      BY Numbers
    <3> QED BY ONLY <2>2, <3>1, SumSame
  <2> QED BY <2>1, <2>3
<1>5. ASSUME NEW k \in Keys
      PROVE  /\ col[k] \in Int /\ D[k] \in Int /\ Saved[k] \in Requests
             /\ Saved[k].amt = D[k] + col[k]
  <2> DEFINE c == [s \in Servers |-> F[s][k]]
             present == \E m \in Modes : \/ delayed[m][k].has
                                         \/ \E s \in Servers : amounts[s][m][k].has
  <2>1. \A s \in Servers : c[s] \in Int /\ c[s] = amounts[s]["normal"][k].amt + amounts[s]["resend"][k].amt
    BY <1>2
  <2>2. SumOver(c, Servers) \in Int
    <3> HIDE DEF c
    <3> QED BY <2>1, SumType, Numbers
  <2>3. D[k] \in Int /\ D[k] = delayed["normal"][k].amt + delayed["resend"][k].amt
    BY <1>1
  <2>4. c = [s \in Servers |-> amounts[s]["normal"][k].amt + amounts[s]["resend"][k].amt]
    OBVIOUS
  <2>5. Saved[k] = IF present THEN Request(0, D[k] + SumOver(c, Servers)) ELSE NoRequest
    <3> HIDE DEF c, D
    <3> QED BY <2>3, <2>4 DEF Saved
  <2>6. col[k] = SumOver(c, Servers)
    OBVIOUS
  <2>7. CASE present
    <3> HIDE DEF c, D, present, col
    <3> QED BY <2>2, <2>3, <2>5, <2>6, <2>7, RequestFacts
  <2>8. CASE ~present
    <3>1. \A m \in Modes : delayed[m][k].amt = 0 /\ \A s \in Servers : amounts[s][m][k].amt = 0
      <4>1. \A r \in Requests : ~r.has => r.amt = 0
        BY NoRequestFacts DEF Requests
      <4>2. \A m \in Modes : delayed[m][k] \in Requests /\ \A s \in Servers : amounts[s][m][k] \in Requests
        BY DEF Aggregators
      <4> QED BY <2>8, <4>1, <4>2
    <3>2. D[k] = 0 /\ \A s \in Servers : c[s] = 0
      <4>1. "normal" \in Modes /\ "resend" \in Modes
        BY DEF Modes
      <4> HIDE DEF c, D
      <4> QED BY <2>1, <2>3, <3>1, <4>1
    <3>3. SumOver(c, Servers) = 0
      <4> HIDE DEF c
      <4> QED BY <3>2, SumZero, Numbers
    <3> HIDE DEF c, D, present, col
    <3> QED BY <2>3, <2>5, <2>6, <2>8, <3>2, <3>3, NoRequestFacts
  <2> QED BY <2>7, <2>8
<1>6. Saved \in [Keys -> Requests]
  <2>1. Saved = [k \in Keys |-> Saved[k]]
    BY DEF Saved
  <2>2. \A k \in Keys : Saved[k] \in Requests
    BY <1>5
  <2> QED BY ONLY <2>1, <2>2
<1>7. AmountOf(Saved) = SumOver(D, Keys) + SumOver(col, Keys)
  <2>1. PICK f, g, w : f = D /\ g = col /\ w = Amts(Saved)
    OBVIOUS
  <2>2. \A k \in Keys : f[k] \in Int /\ g[k] \in Int /\ w[k] = f[k] + g[k]
    <3> HIDE DEF D, col
    <3> QED BY <1>5, <1>6, <2>1, AmountIs
  <2>3. SumOver(w, Keys) = SumOver(f, Keys) + SumOver(g, Keys)
    BY ONLY <2>2, SumAdd, Numbers
  <2>4. AmountOf(Saved) = SumOver(w, Keys)
    BY <1>6, <2>1, AmountIs
  <2> HIDE DEF D, col
  <2> QED BY <2>1, <2>3, <2>4
<1>8. SumOver(D, Keys) = Total(delayed)
  BY <1>1
<1> HIDE DEF D, col, row
<1> QED BY <1>3, <1>4, <1>6, <1>7, <1>8

-----------------------------------------------------------------------------
(* The parts of Outstanding, and how a step changes them *)

HandSum == SumOver([x \in Threads |-> Total(hand[x])], Threads)
ShareSum == SumOver([x \in Adders |-> SharesLeft(x)], Adders)
ServerSum == SumOver([s \in Servers |-> Total(amounts[s])], Servers)
UnreadSum == AmountOf(unread)

LEMMA ThreadKinds ==
  /\ Senders \subseteq Threads /\ Adders \subseteq Threads /\ Delayer \in Threads
  /\ NoOne \notin Threads /\ Senders \cap Adders = {}
  /\ Delayer \notin Senders /\ Delayer \notin Adders
  /\ \A x \in Threads : x \in Senders \/ x \in Adders \/ x = Delayer
BY PoolAssumption DEF Threads

LEMMA SumTypes ==
  TypeOK => /\ HandSum \in Int /\ ShareSum \in Int /\ ServerSum \in Int
            /\ Total(delayed) \in Int /\ UnreadSum \in Int
<1> SUFFICES ASSUME TypeOK
             PROVE  /\ HandSum \in Int /\ ShareSum \in Int /\ ServerSum \in Int
                    /\ Total(delayed) \in Int /\ UnreadSum \in Int
  OBVIOUS
<1>1. PICK f, g, h : /\ f = [x \in Threads |-> Total(hand[x])]
                     /\ g = [x \in Adders |-> SharesLeft(x)]
                     /\ h = [s \in Servers |-> Total(amounts[s])]
  OBVIOUS
<1>2. \A x \in Threads : f[x] \in Int
  BY <1>1, TotalFacts DEF TypeOK
<1>3. \A x \in Adders : g[x] \in Int
  <2>1. \A x \in Adders : job[x].amt \in Int /\ left[x] \in Seq(Servers)
    BY DEF TypeOK
  <2> QED BY <1>1, <2>1, SharesFacts DEF SharesLeft
<1>4. \A s \in Servers : h[s] \in Int
  BY <1>1, TotalFacts DEF TypeOK
<1>5. /\ SumOver(f, Threads) \in Int /\ SumOver(g, Adders) \in Int
      /\ SumOver(h, Servers) \in Int
  BY <1>2, <1>3, <1>4, SumType, Numbers
<1>6. Total(delayed) \in Int /\ UnreadSum \in Int
  BY TotalFacts, AmountIs DEF TypeOK, UnreadSum
<1> QED BY <1>1, <1>5, <1>6 DEF HandSum, ShareSum, ServerSum

LEMMA HandChange ==
  ASSUME TypeOK, TypeOK', NEW x \in Threads, \A y \in Threads \ {x} : hand'[y] = hand[y]
  PROVE  HandSum' = HandSum - Total(hand[x]) + Total(hand'[x])
<1>1. PICK f, g : f = [y \in Threads |-> Total(hand[y])] /\ g = [y \in Threads |-> Total(hand'[y])]
  OBVIOUS
<1>2. /\ \A y \in Threads : f[y] = Total(hand[y]) /\ g[y] = Total(hand'[y]) /\ f[y] \in Int
      /\ g[x] \in Int /\ \A y \in Threads \ {x} : g[y] = f[y]
  <2>1. \A y \in Threads : hand[y] \in Aggregators /\ hand'[y] \in Aggregators
    BY DEF TypeOK
  <2>2. \A y \in Threads : Total(hand[y]) \in Int /\ Total(hand'[y]) \in Int
    BY <2>1, TotalType
  <2> QED BY <1>1, <2>2
<1>3. SumOver(g, Threads) = SumOver(f, Threads) - f[x] + g[x]
  BY ONLY <1>2, x \in Threads, SumChange, Numbers
<1> QED BY <1>1, <1>2, <1>3 DEF HandSum

LEMMA ShareChange ==
  ASSUME TypeOK, TypeOK', NEW x \in Adders,
         \A y \in Adders \ {x} : left'[y] = left[y] /\ job'[y] = job[y]
  PROVE  ShareSum' = ShareSum - SharesLeft(x) + SharesLeft(x)'
<1>1. PICK f, g : f = [y \in Adders |-> SharesLeft(y)] /\ g = [y \in Adders |-> SharesLeft(y)']
  OBVIOUS
<1>2. \A y \in Adders : SharesLeft(y) \in Int /\ SharesLeft(y)' \in Int
  <2>1. \A y \in Adders : /\ job[y].amt \in Int /\ left[y] \in Seq(Servers)
                          /\ job'[y].amt \in Int /\ left'[y] \in Seq(Servers)
    BY DEF TypeOK
  <2>2. \A y \in Adders : SharesLeft(y) \in Int /\ SharesLeft(y)' \in Int
    BY <2>1, SharesType DEF SharesLeft
  <2> QED BY <2>2
<1>3. \A y \in Adders \ {x} : SharesLeft(y)' = SharesLeft(y)
  BY DEF SharesLeft
<1>4. /\ \A y \in Adders : f[y] = SharesLeft(y) /\ g[y] = SharesLeft(y)' /\ f[y] \in Int
      /\ g[x] \in Int /\ \A y \in Adders \ {x} : g[y] = f[y]
  BY <1>1, <1>2, <1>3
<1>5. SumOver(g, Adders) = SumOver(f, Adders) - f[x] + g[x]
  BY ONLY <1>4, x \in Adders, SumChange, Numbers
<1> QED BY <1>1, <1>4, <1>5 DEF ShareSum

LEMMA ServerChange ==
  ASSUME TypeOK, TypeOK', NEW s \in Servers, \A u \in Servers \ {s} : amounts'[u] = amounts[u]
  PROVE  ServerSum' = ServerSum - Total(amounts[s]) + Total(amounts'[s])
<1>1. PICK f, g : f = [u \in Servers |-> Total(amounts[u])] /\ g = [u \in Servers |-> Total(amounts'[u])]
  OBVIOUS
<1>2. /\ \A u \in Servers : f[u] = Total(amounts[u]) /\ g[u] = Total(amounts'[u]) /\ f[u] \in Int
      /\ g[s] \in Int /\ \A u \in Servers \ {s} : g[u] = f[u]
  <2>1. \A u \in Servers : amounts[u] \in Aggregators /\ amounts'[u] \in Aggregators
    BY DEF TypeOK
  <2>2. \A u \in Servers : Total(amounts[u]) \in Int /\ Total(amounts'[u]) \in Int
    BY <2>1, TotalType
  <2> QED BY <1>1, <2>2
<1>3. SumOver(g, Servers) = SumOver(f, Servers) - f[s] + g[s]
  <2>1. IsFiniteSet(Servers) /\ \A u \in Servers : f[u] \in Int
    BY <1>2, Numbers
  <2>2. g[s] \in Int /\ \A u \in Servers \ {s} : g[u] = f[u]
    BY <1>2
  <2> QED BY ONLY <2>1, <2>2, s \in Servers, SumChange
<1> QED BY <1>1, <1>2, <1>3 DEF ServerSum

\* A step moves amounts only, or changes what is owed by as much; and one behind
\* the last dump changes nothing that a stop has left.
BalanceKept ==
  /\ UNCHANGED <<file, saved, missed>>
  /\ phase # "loading" => unread' = unread
  /\ phase = "stopped" => owed' = owed /\ \A y \in Adders : accepted'[y] => accepted[y]
  /\ phase # "stopped" =>
       HandSum' + ShareSum' + Total(delayed)' + ServerSum' + UnreadSum' + owed
         = HandSum + ShareSum + Total(delayed) + ServerSum + UnreadSum + owed'

LEMMA BalanceStep ==
  ASSUME TypeOK, TypeOK', Conservation, AcceptedKept, phase' = phase, BalanceKept
  PROVE  Conservation' /\ AcceptedKept'
<1>1. CASE phase = "stopped"
  BY <1>1 DEF Conservation, AcceptedKept, BalanceKept
<1>2. CASE phase # "stopped"
  <2>1. /\ HandSum \in Int /\ ShareSum \in Int /\ ServerSum \in Int
        /\ Total(delayed) \in Int /\ UnreadSum \in Int
        /\ HandSum' \in Int /\ ShareSum' \in Int /\ ServerSum' \in Int
        /\ Total(delayed)' \in Int /\ UnreadSum' \in Int
    <3>1. (TypeOK => /\ HandSum \in Int /\ ShareSum \in Int /\ ServerSum \in Int
                     /\ Total(delayed) \in Int /\ UnreadSum \in Int)'
      BY SumTypes, PTL
    <3> QED BY <3>1, SumTypes
  <2>2. owed \in Int /\ owed' \in Int
    BY DEF TypeOK
  <2>3. /\ Outstanding = HandSum + ShareSum + Total(delayed) + ServerSum + UnreadSum
        /\ Outstanding' = HandSum' + ShareSum' + Total(delayed)' + ServerSum' + UnreadSum'
    BY DEF Outstanding, InHands, HandSum, ShareSum, ServerSum, UnreadSum
  <2>4. HandSum' + ShareSum' + Total(delayed)' + ServerSum' + UnreadSum' + owed
          = HandSum + ShareSum + Total(delayed) + ServerSum + UnreadSum + owed'
    BY <1>2 DEF BalanceKept
  <2>5. Outstanding = owed
    BY <1>2 DEF Conservation
  <2>6. Outstanding' = owed'
    BY ONLY <2>1, <2>2, <2>3, <2>4, <2>5
  <2> QED BY <1>2, <2>6 DEF Conservation, AcceptedKept
<1> QED BY <1>1, <1>2

-----------------------------------------------------------------------------
(* A step of thread x, which goes on at place and wakes w *)

PlaceFine(x, place) ==
  /\ place \in Holding \/ hand'[x] = Nothing
  /\ x \in Senders => place \notin {"idle", "add", "check"}
  /\ x \in Adders => place \in {"idle", "add", "check", "first", "next", "delay"}
  /\ x = Delayer => place \in {"idle", "send", "delay"}
  /\ x \notin Adders => phase \notin {"loading", "stopped"}

OthersKeep(x) ==
  /\ \A y \in Threads \ {x} : hand'[y] = hand[y]
  /\ \A y \in Adders \ {x} : /\ left'[y] = left[y] /\ job'[y] = job[y]
                            /\ accepted'[y] = accepted[y]

JobFine(x) == x \in Adders => JobOk(x)'

WakeFine(x, place, w) ==
  (\E s \in Servers : listed'[s] > 0) =>
     /\ place # "waiting"
     /\ w \in Wakeable \/ x \in Senders \/ \E s \in Servers : listed[s] > 0

LEMMA WakeableIs ==
  ASSUME NEW w \in Wakeable \cup {NoOne}
  PROVE  w = NoOne \/ (w \in Senders /\ pc[w] = "waiting")
BY DEF Wakeable

LEMMA ThreadStep ==
  ASSUME PoolInv, TypeOK', NEW x \in Threads, NEW place, NEW w \in Wakeable \cup {NoOne},
         Goto(x, place, w), phase' = phase, OthersKeep(x), PlaceFine(x, place),
         JobFine(x), BalanceKept, ListedNonEmpty', WakeFine(x, place, w)
  PROVE  PoolInv'
<1>1. TypeOK /\ PlacesInv /\ JobsInv /\ Conservation /\ AcceptedKept /\ NoneSleepsInVain
  BY DEF PoolInv
<1>2. w = NoOne \/ (w \in Senders /\ pc[w] = "waiting")
  BY WakeableIs
<1>3. \A y \in Threads : pc'[y] = IF y = x THEN place ELSE IF y = w THEN "get" ELSE pc[y]
  BY DEF Goto
<1>4. PlacesInv'
  <2>1. ASSUME NEW y \in Threads, pc'[y] \notin Holding PROVE hand'[y] = Nothing
    <3>1. CASE y = x
      BY <1>3, <2>1, <3>1 DEF PlaceFine
    <3>2. CASE y # x /\ y = w
      <4>1. pc[y] = "waiting"
        BY <1>2, <3>2, ThreadKinds
      <4> QED BY <1>1, <3>2, <4>1 DEF PlacesInv, Holding, OthersKeep
    <3>3. CASE y # x /\ y # w
      BY <1>1, <1>3, <2>1, <3>3 DEF PlacesInv, OthersKeep
    <3> QED BY <3>1, <3>2, <3>3
  <2>2. \A y \in Senders : pc'[y] \notin {"idle", "add", "check"}
    BY <1>1, <1>2, <1>3, ThreadKinds DEF PlacesInv, PlaceFine
  <2>3. \A y \in Adders : pc'[y] \in {"idle", "add", "check", "first", "next", "delay"}
    BY <1>1, <1>2, <1>3, ThreadKinds DEF PlacesInv, PlaceFine
  <2>4. pc'[Delayer] \in {"idle", "send", "delay"}
    BY <1>1, <1>2, <1>3, ThreadKinds DEF PlacesInv, PlaceFine
  <2>5. ASSUME phase' \in {"loading", "stopped"}
        PROVE  pc'[Delayer] = "idle" /\ \A y \in Senders : pc'[y] = "ended"
    <3>1. x \in Adders /\ w = NoOne
      BY <1>1, <1>2, <2>5 DEF PlacesInv, PlaceFine
    <3> QED BY <1>1, <1>3, <2>5, <3>1, ThreadKinds DEF PlacesInv
  <2>6. phase' # "loading" => unread' = NoRequests
    BY <1>1 DEF PlacesInv, BalanceKept
  <2> QED BY <2>1, <2>2, <2>3, <2>4, <2>5, <2>6 DEF PlacesInv
<1>5. JobsInv'
  <2>1. ASSUME NEW y \in Adders PROVE JobOk(y)'
    <3>1. CASE y = x
      BY <3>1 DEF JobFine
    <3>2. CASE y # x
      <4>1. /\ pc'[y] = pc[y] /\ left'[y] = left[y] /\ job'[y] = job[y]
            /\ accepted'[y] = accepted[y]
        BY <1>2, <1>3, <3>2, ThreadKinds DEF OthersKeep
      <4>2. JobOk(y)
        BY <1>1 DEF JobsInv
      <4> QED BY <4>1, <4>2 DEF JobOk
    <3> QED BY <3>1, <3>2
  <2> QED BY <2>1 DEF JobsInv
<1>6. Conservation' /\ AcceptedKept'
  BY <1>1, BalanceStep
<1>7. NoneSleepsInVain'
  <2>1. SUFFICES ASSUME \E s \in Servers : listed'[s] > 0
                 PROVE  \E y \in Senders : pc'[y] # "waiting"
    BY DEF NoneSleepsInVain
  <2>2. place # "waiting"
    BY <2>1 DEF WakeFine
  <2>3. \A y \in Senders : pc[y] # "waiting" \/ y = w \/ y = x => pc'[y] # "waiting"
    BY <1>3, <2>2, ThreadKinds
  <2>4. CASE w \in Wakeable
    BY <2>3, <2>4, PoolAssumption DEF Wakeable
  <2>5. CASE x \in Senders
    BY <2>3, <2>5
  <2>6. CASE \E s \in Servers : listed[s] > 0
    BY <1>1, <2>3, <2>6 DEF NoneSleepsInVain
  <2> QED BY <2>1, <2>4, <2>5, <2>6 DEF WakeFine
<1> QED BY <1>4, <1>5, <1>6, <1>7 DEF PoolInv

LEMMA GotoType ==
  ASSUME TypeOK, NEW x, NEW place \in Places, NEW w, Goto(x, place, w)
  PROVE  pc' \in [Threads -> Places]
BY DEF TypeOK, Goto, Places

\* A step that leaves x where it is.
LEMMA StayIsGoto ==
  ASSUME TypeOK, NEW x \in Threads, pc' = pc
  PROVE  Goto(x, pc[x], NoOne)
BY ThreadKinds DEF TypeOK, Goto

\* A step that moves no amount.
LEMMA QuietStep ==
  ASSUME PoolInv, TypeOK', NEW x \in Threads, NEW place, Goto(x, place, NoOne),
         UNCHANGED <<phase, amounts, delayed, disk, hand, job, left, owed, accepted, dumped>>,
         PlaceFine(x, place),
         x \in Adders => place \in {"first", "next", "delay"} /\ pc[x] # "idle",
         \A s \in Servers : listed'[s] > 0 => listed[s] > 0 /\ place # "waiting"
  PROVE  PoolInv'
<1>1. OthersKeep(x)
  BY DEF OthersKeep
<1>2. JobFine(x)
  <2>1. SUFFICES ASSUME x \in Adders PROVE JobOk(x)'
    BY DEF JobFine
  <2>2. JobOk(x) /\ pc'[x] \in {"first", "next", "delay"} /\ pc[x] # "idle"
    BY <2>1 DEF PoolInv, JobsInv, Goto
  <2> QED BY <2>2 DEF JobOk
<1>3. BalanceKept
  BY DEF BalanceKept, HandSum, ShareSum, SharesLeft, ServerSum, UnreadSum, disk, dumped
<1>4. ListedNonEmpty'
  BY DEF PoolInv, ListedNonEmpty
<1>5. WakeFine(x, place, NoOne)
  BY DEF WakeFine
<1> QED BY <1>1, <1>2, <1>3, <1>4, <1>5, ThreadStep

LEMMA StartTypes ==
  \A s \in Servers : StartFirst(s) \in 0 .. NServers + 1 /\ StartNext(s) \in 0 .. NServers + 1
BY Numbers DEF StartFirst, StartNext, Servers

LEMMA ResendEndsKeeps ==
  ASSUME PoolInv, NEW x \in Senders \cup Adders, ResendFirstEnds(x) \/ ResendNextEnds(x)
  PROVE  PoolInv'
<1>1. TypeOK /\ PlacesInv
  BY DEF PoolInv
<1>2. x \in Threads
  BY ThreadKinds
<1>3. PICK place \in {"next", "delay"} : Goto(x, place, NoOne)
  BY DEF ResendFirstEnds, ResendNextEnds
<1>4. /\ UNCHANGED <<phase, pool, disk, srv, hand, job, left, history>>
      /\ idx' = idx \/ idx' = [idx EXCEPT ![x] = StartNext(srv[x])]
  BY DEF ResendFirstEnds, ResendNextEnds
<1>5. pc[x] \in {"first", "next"}
  BY DEF ResendFirstEnds, ResendNextEnds
<1>6. TypeOK'
  <2>1. pc' \in [Threads -> Places]
    BY <1>1, <1>3, GotoType DEF Places
  <2>2. StartNext(srv[x]) \in 0 .. NServers + 1
    BY <1>1, <1>2, StartTypes DEF TypeOK
  <2>3. idx' \in [Threads -> 0 .. NServers + 1]
    BY <1>1, <1>4, <2>2 DEF TypeOK
  <2> QED BY <1>1, <1>4, <2>1, <2>3 DEF TypeOK, pool, history, dumped, disk
<1>7. PlaceFine(x, place)
  BY <1>1, <1>5, ThreadKinds DEF PlaceFine, Holding, PlacesInv
<1> QED BY <1>2, <1>3, <1>4, <1>5, <1>6, <1>7, QuietStep DEF pool, history

LEMMA PopKeeps ==
  ASSUME PoolInv, NEW x \in Senders, PopServer(x)
  PROVE  PoolInv'
<1>1. TypeOK /\ PlacesInv /\ x \in Threads
  BY ThreadKinds DEF PoolInv
<1>2. PICK s \in Servers : /\ listed[s] > 0 /\ listed' = [listed EXCEPT ![s] = @ - 1]
                           /\ srv' = [srv EXCEPT ![x] = s]
  BY DEF PopServer
<1>3. /\ UNCHANGED <<phase, active, amounts, delayed, timers, disk, idx, hand, job, left, history>>
      /\ Goto(x, "take", NoOne) /\ pc[x] = "get"
  BY DEF PopServer
<1>4. pc' \in [Threads -> Places]
  BY <1>1, <1>3, GotoType DEF Places
<1>5. /\ listed' \in [Servers -> Nat] /\ srv' \in [Threads -> Servers]
      /\ \A u \in Servers : listed'[u] > 0 => listed[u] > 0
  BY <1>1, <1>2 DEF TypeOK
<1>6. TypeOK'
  BY <1>1, <1>3, <1>4, <1>5 DEF TypeOK, history, dumped, disk
<1>7. PlaceFine(x, "take")
  BY <1>1, <1>3, ThreadKinds DEF PlaceFine, Holding, PlacesInv
<1> QED BY <1>1, <1>3, <1>5, <1>6, <1>7, ThreadKinds, QuietStep DEF history

LEMMA WaitKeeps ==
  ASSUME PoolInv, NEW x \in Senders, Wait(x) \/ EndSender(x)
  PROVE  PoolInv'
<1>1. TypeOK /\ PlacesInv /\ x \in Threads
  BY ThreadKinds DEF PoolInv
<1>2. PICK place \in {"waiting", "ended"} :
        /\ Goto(x, place, NoOne)
        /\ place = "waiting" => \A s \in Servers : listed[s] = 0
  BY DEF Wait, EndSender
<1>3. UNCHANGED <<phase, pool, disk, srv, idx, hand, job, left, history>> /\ pc[x] = "get"
  BY DEF Wait, EndSender
<1>4. pc' \in [Threads -> Places]
  BY <1>1, <1>2, GotoType DEF Places
<1>5. TypeOK'
  BY <1>1, <1>3, <1>4 DEF TypeOK, pool, history, dumped, disk
<1>6. PlaceFine(x, place)
  BY <1>1, <1>3, ThreadKinds DEF PlaceFine, Holding, PlacesInv
<1>7. \A s \in Servers : listed'[s] > 0 => listed[s] > 0 /\ place # "waiting"
  BY <1>2, <1>3 DEF pool
<1> QED BY <1>1, <1>2, <1>3, <1>5, <1>6, <1>7, ThreadKinds, QuietStep DEF pool, history

LEMMA DeactivateServerKeeps ==
  ASSUME PoolInv, NEW x \in Senders, DeactivateServer(x)
  PROVE  PoolInv'
<1>1. TypeOK /\ PlacesInv /\ x \in Threads
  BY ThreadKinds DEF PoolInv
<1>2. /\ active' = [active EXCEPT ![srv[x]] = FALSE]
      /\ timers' = [timers EXCEPT ![srv[x]] = @ + 1]
      /\ Goto(x, "first", NoOne) /\ pc[x] = "deactivate"
      /\ UNCHANGED <<phase, amounts, listed, delayed, disk, srv, idx, hand, job, left, history>>
  BY DEF DeactivateServer
<1>3. pc' \in [Threads -> Places]
  BY <1>1, <1>2, GotoType DEF Places
<1>4. active' \in [Servers -> BOOLEAN] /\ timers' \in [Servers -> Nat]
  BY <1>1, <1>2 DEF TypeOK
<1>5. TypeOK'
  BY <1>1, <1>2, <1>3, <1>4 DEF TypeOK, history, dumped, disk
<1>6. PlaceFine(x, "first")
  BY <1>1, <1>2, ThreadKinds DEF PlaceFine, Holding, PlacesInv
<1> QED BY <1>1, <1>2, <1>5, <1>6, QuietStep DEF history

LEMMA SendDelayedEndsKeeps ==
  ASSUME PoolInv, SendDelayedEnds
  PROVE  PoolInv'
<1>1. TypeOK /\ PlacesInv /\ Delayer \in Threads
  BY ThreadKinds DEF PoolInv
<1>2. /\ Goto(Delayer, "delay", NoOne) /\ pc[Delayer] = "send"
      /\ UNCHANGED <<phase, pool, disk, srv, idx, hand, job, left, history>>
  BY DEF SendDelayedEnds
<1>3. pc' \in [Threads -> Places]
  BY <1>1, <1>2, GotoType DEF Places
<1>4. TypeOK'
  BY <1>1, <1>2, <1>3 DEF TypeOK, pool, history, dumped, disk
<1>5. PlaceFine(Delayer, "delay")
  BY <1>1, <1>2, ThreadKinds DEF PlaceFine, Holding, PlacesInv
<1> QED BY <1>1, <1>2, <1>4, <1>5, QuietStep DEF pool, history

-----------------------------------------------------------------------------
(* Steps that move amounts *)

\* Requests are put into a server.
LEMMA PutFacts ==
  ASSUME TypeOK, ListedNonEmpty, NEW x, NEW s \in Servers, NEW g \in Aggregators, ~IsEmpty(g),
         NEW place, Put(x, s, g, place)
  PROVE  /\ amounts' \in [Servers -> Aggregators] /\ listed' \in [Servers -> Nat]
         /\ \A u \in Servers \ {s} : amounts'[u] = amounts[u]
         /\ Total(amounts'[s]) = Total(amounts[s]) + Total(g)
         /\ ListedNonEmpty'
         /\ \E w \in Wakeable : Goto(x, place, w)
<1>1. amounts \in [Servers -> Aggregators] /\ listed \in [Servers -> Nat]
  BY DEF TypeOK
<1>2. /\ amounts' = [amounts EXCEPT ![s] = Aggregate(amounts[s], g)]
      /\ listed' = Inserted(IF IsEmpty(amounts[s]) THEN listed ELSE Erased(s), s)
      /\ \E w \in Wakeable : Goto(x, place, w)
  BY DEF Put
<1>3. /\ Aggregate(amounts[s], g) \in Aggregators
      /\ Total(Aggregate(amounts[s], g)) = Total(amounts[s]) + Total(g)
      /\ ~IsEmpty(Aggregate(amounts[s], g))
  BY <1>1, AggregateFacts
<1>4. /\ amounts' \in [Servers -> Aggregators] /\ amounts'[s] = Aggregate(amounts[s], g)
      /\ \A u \in Servers \ {s} : amounts'[u] = amounts[u]
  BY <1>1, <1>2, <1>3
<1>5. PICK l \in [Servers -> Nat] : /\ listed' = Inserted(l, s)
                                    /\ \A u \in Servers : l[u] > 0 => listed[u] > 0
  BY <1>1, <1>2, ErasedFacts
<1>6. listed' \in [Servers -> Nat] /\ \A u \in Servers \ {s} : listed'[u] > 0 => listed[u] > 0
  BY <1>5 DEF Inserted
<1>7. ASSUME NEW u \in Servers, listed'[u] > 0 PROVE ~IsEmpty(amounts'[u])
  <2>1. CASE u = s
    BY <1>3, <1>4, <2>1
  <2>2. CASE u # s
    BY <1>4, <1>6, <1>7, <2>2 DEF ListedNonEmpty
  <2> QED BY <2>1, <2>2
<1> QED BY <1>2, <1>3, <1>4, <1>6, <1>7 DEF ListedNonEmpty

\* A step that leaves the job of x alone.
LEMMA HandJobFine ==
  ASSUME PoolInv, NEW x \in Threads, UNCHANGED <<phase, job, left, accepted>>,
         x \in Adders => /\ pc'[x] \in {"first", "next", "delay", "check", "add"}
                         /\ pc'[x] = "check" => left[x] = <<>>
                         /\ pc'[x] = "add" => left[x] # <<>>
                         /\ pc[x] # "idle"
  PROVE  JobFine(x)
<1>1. SUFFICES ASSUME x \in Adders PROVE JobOk(x)'
  BY DEF JobFine
<1>2. JobOk(x)
  BY <1>1 DEF PoolInv, JobsInv
<1> QED BY <1>1, <1>2 DEF JobOk

\* The requests of a mode in the hands of x go to a server.
LEMMA ResendStep ==
  ASSUME PoolInv, NEW x \in Senders \cup Adders, NEW m \in Modes, NEW s \in Servers,
         NEW place \in {"next", "delay"}, pc[x] \in {"first", "next"},
         ~IsEmpty(As(m, hand[x][m])), Put(x, s, As("resend", hand[x][m]), place),
         hand' = [hand EXCEPT ![x][m] = NoRequests],
         idx' \in [Threads -> 0 .. NServers + 1],
         UNCHANGED <<phase, active, delayed, timers, disk, srv, job, left, history>>
  PROVE  PoolInv'
<1>1. TypeOK /\ PlacesInv /\ ListedNonEmpty /\ x \in Threads
  BY ThreadKinds DEF PoolInv
<1>2. hand[x] \in Aggregators /\ hand[x][m] \in [Keys -> Requests]
  BY <1>1 DEF TypeOK, Aggregators
<1> DEFINE g == As("resend", hand[x][m])
<1>3. g \in Aggregators /\ Total(g) = AmountOf(hand[x][m]) /\ ~IsEmpty(g)
  <2>1. "resend" \in Modes
    BY DEF Modes
  <2> QED BY <1>2, <2>1, AsFacts
<1>4. /\ amounts' \in [Servers -> Aggregators] /\ listed' \in [Servers -> Nat]
      /\ \A u \in Servers \ {s} : amounts'[u] = amounts[u]
      /\ Total(amounts'[s]) = Total(amounts[s]) + Total(g)
      /\ ListedNonEmpty'
  <2> HIDE DEF g
  <2>1. Put(x, s, g, place)
    BY DEF g
  <2> QED BY <1>1, <1>3, <2>1, PutFacts
<1>5. PICK w \in Wakeable : Goto(x, place, w)
  BY DEF Put
<1>6. /\ hand' \in [Threads -> Aggregators] /\ \A y \in Threads \ {x} : hand'[y] = hand[y]
      /\ hand'[x] = [hand[x] EXCEPT ![m] = NoRequests]
  BY <1>1, <1>2, AmountNone DEF TypeOK, Aggregators
<1>7. /\ Total(hand[x]) \in Int /\ Total(hand'[x]) \in Int /\ AmountOf(hand[x][m]) \in Int
      /\ Total(hand[x]) = Total(hand'[x]) + AmountOf(hand[x][m])
  <2>1. hand'[x] \in Aggregators /\ hand'[x][m] = NoRequests
    BY <1>2, <1>6 DEF Aggregators
  <2>2. \A n \in Modes \ {m} : hand'[x][n] = hand[x][n]
    BY <1>2, <1>6 DEF Aggregators
  <2>3. /\ Total(hand'[x]) = AmountOf(hand'[x]["normal"]) + AmountOf(hand'[x]["resend"])
        /\ Total(hand[x]) = AmountOf(hand[x]["normal"]) + AmountOf(hand[x]["resend"])
        /\ AmountOf(hand[x]["normal"]) \in Int /\ AmountOf(hand[x]["resend"]) \in Int
        /\ Total(hand[x]) \in Int /\ Total(hand'[x]) \in Int
    BY <1>2, <2>1, TotalFacts
  <2>4. CASE m = "normal"
    <3>1. hand'[x]["resend"] = hand[x]["resend"]
      BY <2>2, <2>4 DEF Modes
    <3> QED BY <2>1, <2>3, <2>4, <3>1, AmountNone
  <2>5. CASE m = "resend"
    <3>1. hand'[x]["normal"] = hand[x]["normal"]
      BY <2>2, <2>5 DEF Modes
    <3> QED BY <2>1, <2>3, <2>5, <3>1, AmountNone
  <2> QED BY <2>4, <2>5 DEF Modes
<1> HIDE DEF g
<1>8. TypeOK'
  <2>1. pc' \in [Threads -> Places]
    <3>1. place \in Places
      BY DEF Places
    <3> QED BY ONLY <1>1, <1>5, <3>1, GotoType
  <2> QED BY <1>1, <1>4, <1>6, <2>1 DEF TypeOK, history, dumped, disk
<1>9. BalanceKept
  <2>1. HandSum' = HandSum - Total(hand[x]) + Total(hand'[x])
    BY <1>1, <1>6, <1>8, HandChange
  <2>2. ServerSum' = ServerSum - Total(amounts[s]) + Total(amounts'[s])
    BY <1>1, <1>4, <1>8, ServerChange
  <2>3. /\ ShareSum' = ShareSum /\ Total(delayed)' = Total(delayed) /\ UnreadSum' = UnreadSum
        /\ owed' = owed
    BY DEF ShareSum, SharesLeft, UnreadSum, history, disk
  <2>4. /\ HandSum \in Int /\ ShareSum \in Int /\ ServerSum \in Int /\ Total(delayed) \in Int
        /\ UnreadSum \in Int /\ owed \in Int /\ Total(amounts[s]) \in Int
    <3>1. amounts[s] \in Aggregators /\ owed \in Int
      BY <1>1 DEF TypeOK
    <3> QED BY <1>1, <3>1, SumTypes, TotalType
  <2>5. HandSum' + ShareSum' + Total(delayed)' + ServerSum' + UnreadSum' + owed
          = HandSum + ShareSum + Total(delayed) + ServerSum + UnreadSum + owed'
    BY ONLY <1>3, <1>4, <1>7, <2>1, <2>2, <2>3, <2>4
  <2> QED BY <2>5 DEF BalanceKept, history, dumped, disk
<1>10. PlaceFine(x, place)
  BY <1>1, ThreadKinds DEF PlaceFine, Holding, PlacesInv
<1>11. JobFine(x)
  <2>1. pc'[x] = place
    BY <1>1, <1>5 DEF Goto
  <2> QED BY <1>1, <2>1, HandJobFine DEF history
<1>12. OthersKeep(x) /\ WakeFine(x, place, w)
  BY <1>6 DEF OthersKeep, WakeFine, history
<1> QED BY <1>1, <1>4, <1>5, <1>8, <1>9, <1>10, <1>11, <1>12, ThreadStep

LEMMA ResendFirstKeeps ==
  ASSUME PoolInv, NEW x \in Senders \cup Adders, ResendFirst(x)
  PROVE  PoolInv'
<1>1. TypeOK /\ PlacesInv /\ x \in Threads
  BY ThreadKinds DEF PoolInv
<1>2. /\ pc[x] = "first" /\ ~IsEmpty(As("normal", hand[x]["normal"])) /\ idx[x] < NServers
      /\ UNCHANGED <<phase, active, delayed, timers, disk, srv, job, left, history>>
  BY DEF ResendFirst
<1>3. idx[x] \in Servers /\ idx[x] + 1 \in 0 .. NServers + 1
  <2>1. idx[x] \in 0 .. NServers + 1 /\ idx[x] < NServers /\ NServers \in Nat \ {0}
    BY <1>1, <1>2, Numbers DEF TypeOK
  <2> QED BY ONLY <2>1 DEF Servers
<1>4. CASE active[idx[x]]
  <2>1. /\ Put(x, idx[x], As("resend", hand[x]["normal"]), "next")
        /\ hand' = [hand EXCEPT ![x]["normal"] = NoRequests]
        /\ idx' = [idx EXCEPT ![x] = StartNext(srv[x])]
    BY <1>4 DEF ResendFirst
  <2>2. idx' \in [Threads -> 0 .. NServers + 1]
    BY <1>1, <2>1, StartTypes DEF TypeOK
  <2>3. "normal" \in Modes
    BY DEF Modes
  <2> QED BY <1>2, <1>3, <2>1, <2>2, <2>3, ResendStep
<1>5. CASE ~active[idx[x]]
  <2>1. /\ idx' = [idx EXCEPT ![x] = @ + 1] /\ UNCHANGED <<amounts, listed, pc, hand>>
    BY <1>5 DEF ResendFirst
  <2>2. Goto(x, "first", NoOne)
    BY <1>1, <1>2, <2>1, StayIsGoto
  <2>3. TypeOK'
    <3>1. idx' \in [Threads -> 0 .. NServers + 1]
      BY <1>1, <1>3, <2>1 DEF TypeOK
    <3> QED BY <1>1, <1>2, <2>1, <3>1 DEF TypeOK, history, dumped, disk
  <2>4. PlaceFine(x, "first")
    BY <1>1, <1>2, ThreadKinds DEF PlaceFine, Holding, PlacesInv
  <2> QED BY <1>1, <1>2, <2>1, <2>2, <2>3, <2>4, QuietStep DEF history
<1> QED BY <1>4, <1>5

LEMMA ResendNextKeeps ==
  ASSUME PoolInv, NEW x \in Senders \cup Adders, ResendNext(x)
  PROVE  PoolInv'
<1>1. TypeOK /\ PlacesInv /\ x \in Threads
  BY ThreadKinds DEF PoolInv
<1>2. /\ pc[x] = "next" /\ ~IsEmpty(As("resend", hand[x]["resend"])) /\ idx[x] < NServers
      /\ UNCHANGED <<phase, active, delayed, timers, disk, srv, job, left, history>>
  BY DEF ResendNext
<1>3. idx[x] \in Servers /\ idx[x] + 1 \in 0 .. NServers + 1
  <2>1. idx[x] \in 0 .. NServers + 1 /\ idx[x] < NServers /\ NServers \in Nat \ {0}
    BY <1>1, <1>2, Numbers DEF TypeOK
  <2> QED BY ONLY <2>1 DEF Servers
<1>4. CASE active[idx[x]]
  <2>1. /\ Put(x, idx[x], As("resend", hand[x]["resend"]), "delay")
        /\ hand' = [hand EXCEPT ![x]["resend"] = NoRequests] /\ idx' = idx
    BY <1>4 DEF ResendNext
  <2>2. idx' \in [Threads -> 0 .. NServers + 1]
    BY <1>1, <2>1 DEF TypeOK
  <2>3. "resend" \in Modes
    BY DEF Modes
  <2> QED BY <1>2, <1>3, <2>1, <2>2, <2>3, ResendStep
<1>5. CASE ~active[idx[x]]
  <2>1. /\ idx' = [idx EXCEPT ![x] = @ + 1] /\ UNCHANGED <<amounts, listed, pc, hand>>
    BY <1>5 DEF ResendNext
  <2>2. Goto(x, "next", NoOne)
    BY <1>1, <1>2, <2>1, StayIsGoto
  <2>3. TypeOK'
    <3>1. idx' \in [Threads -> 0 .. NServers + 1]
      BY <1>1, <1>3, <2>1 DEF TypeOK
    <3> QED BY <1>1, <1>2, <2>1, <3>1 DEF TypeOK, history, dumped, disk
  <2>4. PlaceFine(x, "next")
    BY <1>1, <1>2, ThreadKinds DEF PlaceFine, Holding, PlacesInv
  <2> QED BY <1>1, <1>2, <2>1, <2>2, <2>3, <2>4, QuietStep DEF history
<1> QED BY <1>4, <1>5

LEMMA DelayKeeps ==
  ASSUME PoolInv, NEW x \in Threads, Delay(x)
  PROVE  PoolInv'
<1>1. TypeOK /\ PlacesInv /\ JobsInv /\ ListedNonEmpty
  BY DEF PoolInv
<1>2. /\ pc[x] = "delay" /\ Goto(x, Return(x), NoOne) /\ hand' = [hand EXCEPT ![x] = Nothing]
      /\ srv' = [srv EXCEPT ![x] = 0] /\ idx' = [idx EXCEPT ![x] = 0]
      /\ UNCHANGED <<phase, active, amounts, listed, timers, disk, job, left, history>>
  BY DEF Delay, Leave
<1>3. /\ delayed \in Aggregators /\ hand[x] \in Aggregators
      /\ hand[x]["normal"] \in [Keys -> Requests] /\ hand[x]["resend"] \in [Keys -> Requests]
  BY <1>1, TotalFacts DEF TypeOK
<1>4. PICK g, h, d : /\ g = As("resend", hand[x]["normal"]) /\ h = As("resend", hand[x]["resend"])
                     /\ d = Aggregate(delayed, g) /\ delayed' = Aggregate(d, h)
  BY DEF Delay
<1>5. /\ g \in Aggregators /\ Total(g) = AmountOf(hand[x]["normal"])
      /\ h \in Aggregators /\ Total(h) = AmountOf(hand[x]["resend"])
  <2>1. "resend" \in Modes
    BY DEF Modes
  <2> QED BY <1>3, <1>4, <2>1, AsFacts
<1>6. d \in Aggregators /\ Total(d) = Total(delayed) + Total(g)
  BY <1>3, <1>4, <1>5, AggregateFacts
<1>7. delayed' \in Aggregators /\ Total(delayed') = Total(d) + Total(h)
  BY <1>4, <1>5, <1>6, AggregateFacts
<1>8. Return(x) \in {"get", "idle", "check", "add"} /\ Return(x) \in Places
  BY DEF Return, Places
<1>9. /\ hand' \in [Threads -> Aggregators] /\ hand'[x] = Nothing
      /\ \A y \in Threads \ {x} : hand'[y] = hand[y]
  BY <1>1, <1>2, NothingFacts DEF TypeOK
<1>10. TypeOK'
  <2>1. pc' \in [Threads -> Places]
    BY ONLY <1>1, <1>2, <1>8, GotoType
  <2>2. srv' \in [Threads -> Servers] /\ idx' \in [Threads -> 0 .. NServers + 1]
    BY <1>1, <1>2, Numbers DEF TypeOK
  <2> QED BY <1>1, <1>2, <1>7, <1>9, <2>1, <2>2 DEF TypeOK, history, dumped, disk
<1>11. BalanceKept
  <2>1. HandSum' = HandSum - Total(hand[x]) + Total(hand'[x])
    BY <1>1, <1>9, <1>10, HandChange
  <2>2. /\ ShareSum' = ShareSum /\ ServerSum' = ServerSum /\ UnreadSum' = UnreadSum /\ owed' = owed
    BY <1>2 DEF ShareSum, SharesLeft, ServerSum, UnreadSum, history, disk
  <2>3. /\ HandSum \in Int /\ ShareSum \in Int /\ ServerSum \in Int /\ Total(delayed) \in Int
        /\ UnreadSum \in Int /\ owed \in Int
    BY <1>1, SumTypes DEF TypeOK
  <2>4. /\ Total(hand[x]) = AmountOf(hand[x]["normal"]) + AmountOf(hand[x]["resend"])
        /\ AmountOf(hand[x]["normal"]) \in Int /\ AmountOf(hand[x]["resend"]) \in Int
        /\ Total(hand'[x]) = 0
    BY <1>3, <1>9, TotalFacts, NothingFacts
  <2>5. Total(delayed)' = Total(delayed) + Total(hand[x])
    BY <1>5, <1>6, <1>7, <2>3, <2>4
  <2>6. HandSum' + ShareSum' + Total(delayed)' + ServerSum' + UnreadSum' + owed
          = HandSum + ShareSum + Total(delayed) + ServerSum + UnreadSum + owed'
    BY ONLY <2>1, <2>2, <2>3, <2>4, <2>5
  <2> QED BY <1>2, <2>6 DEF BalanceKept, history, dumped, disk
<1>12. PlaceFine(x, Return(x))
  BY <1>1, <1>2, <1>9, ThreadKinds DEF PlaceFine, PlacesInv, Return
<1>13. JobFine(x)
  <2>1. pc'[x] = Return(x)
    BY <1>2 DEF Goto
  <2>2. ASSUME x \in Adders
        PROVE  /\ Return(x) \in {"check", "add"}
               /\ Return(x) = "check" => left[x] = <<>>
               /\ Return(x) = "add" => left[x] # <<>>
    BY <2>2, ThreadKinds DEF Return
  <2> QED BY <1>2, <2>1, <2>2, HandJobFine DEF history
<1>14. OthersKeep(x) /\ WakeFine(x, Return(x), NoOne) /\ ListedNonEmpty'
  BY <1>1, <1>2, <1>8, <1>9 DEF OthersKeep, WakeFine, history, ListedNonEmpty
<1> QED BY <1>2, <1>10, <1>11, <1>12, <1>13, <1>14, ThreadStep

LEMMA AddKeeps ==
  ASSUME PoolInv, NEW x \in Adders, Add(x) \/ LoadOne(x)
  PROVE  PoolInv'
<1>1. /\ TypeOK /\ PlacesInv /\ JobsInv /\ ListedNonEmpty /\ x \in Threads
      /\ x \notin Senders /\ x # Delayer
  BY ThreadKinds DEF PoolInv
<1>2. /\ pc[x] = "idle" /\ Goto(x, "add", NoOne) /\ left' = [left EXCEPT ![x] = ShareOrder]
      /\ UNCHANGED <<phase, pool, file, srv, idx, hand, saved, missed>>
  BY DEF Add, LoadOne, history, dumped, disk
<1>3. PICK k \in Keys, t \in Nat, a \in Int :
        /\ job' = [job EXCEPT ![x] = [key |-> k, t |-> t, amt |-> a]]
        /\ \/ /\ phase \in {"running", "stopping"} /\ unread' = unread /\ owed' = owed + a
              /\ accepted' = [accepted EXCEPT ![x] = FALSE]
           \/ /\ phase = "loading" /\ a = unread[k].amt
              /\ unread' = [unread EXCEPT ![k] = NoRequest]
              /\ owed' = owed /\ accepted' = accepted
  <2>1. CASE Add(x)
    BY <2>1, PoolAssumption DEF Add, disk
  <2>2. CASE LoadOne(x)
    <3>1. PICK k \in Keys : /\ job' = [job EXCEPT ![x] = [key |-> k, t |-> 0, amt |-> unread[k].amt]]
                            /\ unread' = [unread EXCEPT ![k] = NoRequest]
      BY <2>2 DEF LoadOne
    <3>2. unread[k].amt \in Int
      BY <1>1 DEF TypeOK, Requests
    <3> QED BY <2>2, <3>1, <3>2 DEF LoadOne, history
  <2> QED BY <2>1, <2>2
<1>4. /\ job'[x] = [key |-> k, t |-> t, amt |-> a] /\ left'[x] = ShareOrder
      /\ \A y \in Adders \ {x} : job'[y] = job[y] /\ left'[y] = left[y]
      /\ job' \in [Adders -> [key : Keys \cup {0}, t : Nat, amt : Int]]
      /\ left' \in [Adders -> Seq(Servers)]
  BY <1>1, <1>2, <1>3, ShareOrderFacts DEF TypeOK
<1>5. /\ unread' \in [Keys -> Requests] /\ owed' \in Int /\ owed \in Int
      /\ accepted' \in [Adders -> BOOLEAN]
      /\ \A y \in Adders \ {x} : accepted'[y] = accepted[y]
      /\ phase # "loading" => ~accepted'[x]
  <2>1. owed \in Int /\ unread \in [Keys -> Requests] /\ accepted \in [Adders -> BOOLEAN]
    BY <1>1 DEF TypeOK
  <2>2. CASE unread' = unread /\ owed' = owed + a /\ accepted' = [accepted EXCEPT ![x] = FALSE]
    BY <2>1, <2>2
  <2>3. CASE /\ unread' = [unread EXCEPT ![k] = NoRequest] /\ owed' = owed
             /\ accepted' = accepted /\ phase = "loading"
    BY <2>1, <2>3, NoRequestFacts
  <2> QED BY <1>3, <2>2, <2>3
<1>6. TypeOK'
  <2>1. pc' \in [Threads -> Places]
    BY <1>1, <1>2, GotoType DEF Places
  <2> QED BY <1>1, <1>2, <1>4, <1>5, <2>1 DEF TypeOK, pool
<1>7. left[x] = <<>> /\ job[x] = NoJob /\ hand[x] = Nothing /\ hand'[x] = Nothing
  BY <1>1, <1>2 DEF JobsInv, JobOk, PlacesInv, Holding
<1>8. SharesLeft(x) = 0 /\ SharesLeft(x)' = a
  <2>1. SharesLeft(x)' = Shares(a, ShareOrder)
    BY <1>4 DEF SharesLeft
  <2>2. SharesLeft(x) = Shares(0, <<>>)
    BY <1>7 DEF SharesLeft, NoJob
  <2> QED BY <2>1, <2>2, SharesFacts
<1>9. BalanceKept
  <2>1. ShareSum' = ShareSum - SharesLeft(x) + SharesLeft(x)'
    BY <1>1, <1>4, <1>6, ShareChange
  <2>2. HandSum' = HandSum /\ ServerSum' = ServerSum /\ Total(delayed)' = Total(delayed)
    BY <1>2 DEF HandSum, ServerSum, pool
  <2>3. /\ HandSum \in Int /\ ShareSum \in Int /\ ServerSum \in Int /\ Total(delayed) \in Int
        /\ UnreadSum \in Int
    BY <1>1, SumTypes
  <2>4. CASE phase \in {"running", "stopping"}
    <3>1. unread' = unread /\ UnreadSum' = UnreadSum /\ owed' = owed + a
      BY <1>3, <2>4 DEF UnreadSum
    <3>2. HandSum' + ShareSum' + Total(delayed)' + ServerSum' + UnreadSum' + owed
            = HandSum + ShareSum + Total(delayed) + ServerSum + UnreadSum + owed'
      BY ONLY <1>5, <1>8, <2>1, <2>2, <2>3, <3>1, a \in Int
    <3> QED BY <1>2, <2>4, <3>1, <3>2 DEF BalanceKept
  <2>5. CASE phase = "loading"
    <3>1. UnreadSum' = UnreadSum - a /\ owed' = owed
      <4>1. /\ a = unread[k].amt /\ unread' = [unread EXCEPT ![k] = NoRequest] /\ owed' = owed
            /\ unread \in [Keys -> Requests]
        BY <1>1, <1>3, <2>5 DEF TypeOK
      <4>2. AmountOf([unread EXCEPT ![k] = NoRequest])
              = AmountOf(unread) - unread[k].amt + NoRequest.amt
        BY <4>1, AmountChange, NoRequestFacts
      <4>3. AmountOf(unread) \in Int
        BY <4>1, AmountIs
      <4> QED BY <4>1, <4>2, <4>3, NoRequestFacts DEF UnreadSum
    <3>2. HandSum' + ShareSum' + Total(delayed)' + ServerSum' + UnreadSum' + owed
            = HandSum + ShareSum + Total(delayed) + ServerSum + UnreadSum + owed'
      BY ONLY <1>5, <1>8, <2>1, <2>2, <2>3, <3>1, a \in Int
    <3> QED BY <1>2, <2>5, <3>2 DEF BalanceKept
  <2> QED BY <1>3, <2>4, <2>5
<1>10. PlaceFine(x, "add")
  BY <1>1, <1>7 DEF PlaceFine
<1>11. JobFine(x)
  <2>1. pc'[x] = "add" /\ phase' = phase
    BY <1>1, <1>2 DEF Goto
  <2> QED BY <1>4, <1>5, <2>1, ShareOrderFacts DEF JobFine, JobOk
<1>12. OthersKeep(x) /\ WakeFine(x, "add", NoOne) /\ ListedNonEmpty'
  BY <1>1, <1>2, <1>4, <1>5 DEF OthersKeep, WakeFine, ListedNonEmpty, pool
<1> QED BY <1>1, <1>2, <1>6, <1>9, <1>10, <1>11, <1>12, ThreadStep

LEMMA CheckKeeps ==
  ASSUME PoolInv, NEW x \in Adders, CheckActive(x)
  PROVE  PoolInv'
<1>1. /\ TypeOK /\ PlacesInv /\ JobsInv /\ ListedNonEmpty /\ x \in Threads
      /\ x \notin Senders /\ x # Delayer
  BY ThreadKinds DEF PoolInv
<1>2. /\ pc[x] = "check" /\ Goto(x, "idle", NoOne) /\ job' = [job EXCEPT ![x] = NoJob]
      /\ accepted' = [accepted EXCEPT ![x] = phase \in {"loading", "running"}]
      /\ UNCHANGED <<phase, pool, disk, srv, idx, hand, left, owed, dumped>>
  BY DEF CheckActive
<1>3. left[x] = <<>> /\ hand[x] = Nothing
  BY <1>1, <1>2 DEF JobsInv, JobOk, PlacesInv, Holding
<1>4. /\ job'[x] = NoJob /\ \A y \in Adders \ {x} : job'[y] = job[y]
      /\ job' \in [Adders -> [key : Keys \cup {0}, t : Nat, amt : Int]]
      /\ job[x].amt \in Int
  BY <1>1, <1>2 DEF TypeOK, NoJob
<1>5. /\ accepted' \in [Adders -> BOOLEAN]
      /\ \A y \in Adders \ {x} : accepted'[y] = accepted[y]
      /\ phase = "stopped" => ~accepted'[x]
  <2>1. PICK b \in BOOLEAN : accepted' = [accepted EXCEPT ![x] = b] /\ (phase = "stopped" => ~b)
    <3>1. CASE phase \in {"loading", "running"}
      <4>1. (phase \in {"loading", "running"}) = TRUE
        BY <3>1
      <4> QED BY <1>2, <3>1, <4>1
    <3>2. CASE phase \notin {"loading", "running"}
      <4>1. (phase \in {"loading", "running"}) = FALSE
        BY <3>2
      <4> QED BY <1>2, <4>1
    <3> QED BY <3>1, <3>2
  <2>2. accepted \in [Adders -> BOOLEAN]
    BY <1>1 DEF TypeOK
  <2>3. /\ accepted' \in [Adders -> BOOLEAN] /\ accepted'[x] = b
        /\ \A y \in Adders \ {x} : accepted'[y] = accepted[y]
    BY <2>1, <2>2
  <2> QED BY <2>1, <2>3
<1>6. TypeOK'
  <2>1. pc' \in [Threads -> Places]
    BY <1>1, <1>2, GotoType DEF Places
  <2> QED BY <1>1, <1>2, <1>4, <1>5, <2>1 DEF TypeOK, pool, dumped, disk
<1>7. SharesLeft(x) = 0 /\ SharesLeft(x)' = 0
  <2>1. SharesLeft(x) = Shares(job[x].amt, <<>>) /\ SharesLeft(x)' = Shares(0, <<>>)
    BY <1>2, <1>3, <1>4 DEF SharesLeft, NoJob
  <2> QED BY <1>4, <2>1, SharesFacts
<1>8. BalanceKept
  <2>1. ShareSum' = ShareSum - SharesLeft(x) + SharesLeft(x)' /\ ShareSum \in Int
    BY <1>1, <1>2, <1>4, <1>6, ShareChange, SumTypes
  <2>2. ShareSum' = ShareSum
    BY <1>7, <2>1
  <2>3. /\ HandSum' = HandSum /\ ServerSum' = ServerSum /\ Total(delayed)' = Total(delayed)
        /\ UnreadSum' = UnreadSum /\ owed' = owed
    BY <1>2 DEF HandSum, ServerSum, UnreadSum, pool, disk
  <2>4. phase = "stopped" => \A y \in Adders : accepted'[y] => accepted[y]
    BY <1>5
  <2> QED BY <1>2, <2>2, <2>3, <2>4 DEF BalanceKept, dumped, disk
<1>9. PlaceFine(x, "idle")
  BY <1>1, <1>2, <1>3 DEF PlaceFine
<1>10. JobFine(x)
  <2>1. pc'[x] = "idle" /\ left'[x] = <<>>
    BY <1>1, <1>2, <1>3 DEF Goto
  <2> QED BY <1>4, <2>1 DEF JobFine, JobOk
<1>11. OthersKeep(x) /\ WakeFine(x, "idle", NoOne) /\ ListedNonEmpty'
  BY <1>1, <1>2, <1>4, <1>5 DEF OthersKeep, WakeFine, ListedNonEmpty, pool
<1> QED BY <1>1, <1>2, <1>6, <1>8, <1>9, <1>10, <1>11, ThreadStep

\* A share goes to its server, or into the hands of the adder.
LEMMA AddShareKeeps ==
  ASSUME PoolInv, NEW x \in Adders, AddShare(x)
  PROVE  PoolInv'
<1>1. /\ TypeOK /\ PlacesInv /\ JobsInv /\ ListedNonEmpty /\ JobOk(x) /\ x \in Threads
      /\ x \notin Senders /\ x # Delayer
  BY ThreadKinds DEF PoolInv, JobsInv
<1>2. PICK q \in Seq(Servers), k \in Keys, t \in Nat, a \in Int :
        /\ q = left[x] /\ q # <<>> /\ \A i, j \in 1 .. Len(q) : q[i] = q[j] => i = j
        /\ k = job[x].key /\ t = job[x].t /\ a = job[x].amt
  <2>1. pc[x] = "add" /\ left[x] \in Seq(Servers) /\ job[x].t \in Nat /\ job[x].amt \in Int
    BY <1>1 DEF AddShare, TypeOK
  <2> QED BY <1>1, <2>1 DEF JobOk
<1>3. PICK s : s = Head(q)
  OBVIOUS
<1>4. /\ s \in Servers /\ Tail(q) \in Seq(Servers)
      /\ \A i, j \in 1 .. Len(Tail(q)) : Tail(q)[i] = Tail(q)[j] => i = j
      /\ Shares(a, q) = Share(a, s) + Shares(a, Tail(q)) /\ Share(a, s) \in Int
      /\ Shares(a, Tail(q)) \in Int
  BY <1>2, <1>3, TailFacts, ShareGiven, SharesType
<1>5. PICK g : g = As("normal", Only(k, Request(t, Share(a, s))))
  OBVIOUS
<1>6. g \in Aggregators /\ Total(g) = Share(a, s) /\ ~IsEmpty(g)
  <2>1. PICK o : o = Only(k, Request(t, Share(a, s)))
    OBVIOUS
  <2>2. o \in [Keys -> Requests] /\ o[k].has /\ AmountOf(o) = Share(a, s)
    BY <1>4, <2>1, OnlyFacts
  <2>3. "normal" \in Modes
    BY DEF Modes
  <2> QED BY <1>5, <2>1, <2>2, <2>3, AsFacts
<1>7. /\ left' = [left EXCEPT ![x] = Tail(q)] /\ pc[x] = "add"
      /\ UNCHANGED <<phase, active, delayed, timers, disk, job, history>>
  BY <1>2 DEF AddShare
<1>8. /\ left' \in [Adders -> Seq(Servers)] /\ left'[x] = Tail(q)
      /\ \A y \in Adders \ {x} : left'[y] = left[y]
  BY <1>1, <1>4, <1>7 DEF TypeOK
<1>9. hand[x] = Nothing /\ Total(hand[x]) = 0
  BY <1>1, <1>7, NothingFacts DEF PlacesInv, Holding
<1>10. SharesLeft(x) = Shares(a, q) /\ SharesLeft(x)' = Shares(a, Tail(q))
  BY <1>2, <1>7, <1>8 DEF SharesLeft
<1>11. job'[x].key \in Keys /\ (phase' # "loading" => ~accepted'[x])
  BY <1>1, <1>2, <1>7 DEF JobOk, history
<1>12. /\ HandSum \in Int /\ ShareSum \in Int /\ ServerSum \in Int /\ Total(delayed) \in Int
       /\ UnreadSum \in Int /\ owed \in Int /\ Total(amounts[s]) \in Int
  <2>1. amounts[s] \in Aggregators /\ owed \in Int
    BY <1>1, <1>4 DEF TypeOK
  <2> QED BY <1>1, <2>1, SumTypes, TotalType
<1>13. Total(delayed)' = Total(delayed) /\ UnreadSum' = UnreadSum /\ owed' = owed
  BY <1>7 DEF UnreadSum, history, disk
<1>14. CASE active[s]
  <2>1. PICK place \in {"check", "add"} :
          /\ Put(x, s, g, place)
          /\ place = "check" <=> Tail(q) = <<>>
    BY <1>2, <1>3, <1>5, <1>14 DEF AddShare
  <2>2. UNCHANGED <<srv, idx, hand>>
    BY <1>2, <1>3, <1>14 DEF AddShare
  <2>3. /\ amounts' \in [Servers -> Aggregators] /\ listed' \in [Servers -> Nat]
        /\ \A u \in Servers \ {s} : amounts'[u] = amounts[u]
        /\ Total(amounts'[s]) = Total(amounts[s]) + Total(g)
        /\ ListedNonEmpty'
    <3>1. Put(x, s, g, place)
      BY <2>1
    <3>2. TypeOK /\ ListedNonEmpty /\ s \in Servers /\ g \in Aggregators /\ ~IsEmpty(g)
      BY <1>1, <1>4, <1>6
    <3> QED BY ONLY <3>1, <3>2, PutFacts
  <2>4. PICK w \in Wakeable : Goto(x, place, w)
    BY <2>1 DEF Put
  <2>5. TypeOK'
    <3>1. pc' \in [Threads -> Places]
      <4>1. place \in Places
        BY DEF Places
      <4> QED BY ONLY <1>1, <2>4, <4>1, GotoType
    <3> QED BY <1>1, <1>7, <1>8, <2>2, <2>3, <3>1 DEF TypeOK, history, dumped, disk
  <2>6. BalanceKept
    <3>1. ShareSum' = ShareSum - SharesLeft(x) + SharesLeft(x)'
      BY <1>1, <1>7, <1>8, <2>5, ShareChange
    <3>2. ServerSum' = ServerSum - Total(amounts[s]) + Total(amounts'[s])
      BY <1>1, <1>4, <2>3, <2>5, ServerChange
    <3>3. HandSum' = HandSum
      BY <2>2 DEF HandSum
    <3>4. HandSum' + ShareSum' + Total(delayed)' + ServerSum' + UnreadSum' + owed
            = HandSum + ShareSum + Total(delayed) + ServerSum + UnreadSum + owed'
      <4>1. /\ Total(amounts'[s]) = Total(amounts[s]) + Share(a, s)
            /\ SharesLeft(x) = Share(a, s) + SharesLeft(x)'
            /\ Share(a, s) \in Int /\ SharesLeft(x)' \in Int
        BY <1>4, <1>6, <1>10, <2>3
      <4>2. PICK c \in Int, d \in Int : c = Share(a, s) /\ d = SharesLeft(x)'
        BY <4>1
      <4>3. ShareSum' = ShareSum - (c + d) + d /\ ServerSum' = ServerSum + c
        BY <1>12, <3>1, <3>2, <4>1, <4>2
      <4> QED BY ONLY <1>12, <1>13, <3>3, <4>3, c \in Int, d \in Int
    <3> QED BY <1>7, <3>4 DEF BalanceKept, history, dumped, disk
  <2>7. PlaceFine(x, place)
    BY <1>1, <1>9, <2>2 DEF PlaceFine
  <2>8. JobFine(x)
    <3>1. pc'[x] = place
      BY <1>1, <2>4 DEF Goto
    <3> QED BY <1>4, <1>8, <1>11, <2>1, <3>1 DEF JobFine, JobOk
  <2>9. OthersKeep(x) /\ WakeFine(x, place, w)
    BY <1>7, <1>8, <2>2 DEF OthersKeep, WakeFine, history
  <2> QED BY <1>1, <1>7, <2>3, <2>4, <2>5, <2>6, <2>7, <2>8, <2>9, ThreadStep
<1>15. CASE ~active[s]
  <2>1. /\ srv' = [srv EXCEPT ![x] = s] /\ idx' = [idx EXCEPT ![x] = StartFirst(s)]
        /\ hand' = [hand EXCEPT ![x] = g] /\ Goto(x, "first", NoOne)
        /\ UNCHANGED <<amounts, listed>>
    BY <1>2, <1>3, <1>5, <1>15 DEF AddShare
  <2>2. /\ hand' \in [Threads -> Aggregators] /\ hand'[x] = g
        /\ \A y \in Threads \ {x} : hand'[y] = hand[y]
    BY <1>1, <1>6, <2>1 DEF TypeOK
  <2>3. TypeOK'
    <3>1. pc' \in [Threads -> Places]
      BY <1>1, <2>1, GotoType DEF Places
    <3>2. srv' \in [Threads -> Servers] /\ idx' \in [Threads -> 0 .. NServers + 1]
      BY <1>1, <1>4, <2>1, StartTypes DEF TypeOK
    <3> QED BY <1>1, <1>7, <1>8, <2>1, <2>2, <3>1, <3>2 DEF TypeOK, history, dumped, disk
  <2>4. BalanceKept
    <3>1. ShareSum' = ShareSum - SharesLeft(x) + SharesLeft(x)'
      BY <1>1, <1>7, <1>8, <2>3, ShareChange
    <3>2. HandSum' = HandSum - Total(hand[x]) + Total(hand'[x]) /\ Total(hand'[x]) = Share(a, s)
      BY <1>1, <1>6, <2>2, <2>3, HandChange
    <3>3. ServerSum' = ServerSum
      BY <2>1 DEF ServerSum
    <3>4. HandSum' + ShareSum' + Total(delayed)' + ServerSum' + UnreadSum' + owed
            = HandSum + ShareSum + Total(delayed) + ServerSum + UnreadSum + owed'
      <4>1. /\ SharesLeft(x) = Share(a, s) + SharesLeft(x)'
            /\ Share(a, s) \in Int /\ SharesLeft(x)' \in Int
        BY <1>4, <1>10
      <4>2. PICK c \in Int, d \in Int : c = Share(a, s) /\ d = SharesLeft(x)'
        BY <4>1
      <4>3. ShareSum' = ShareSum - (c + d) + d /\ HandSum' = HandSum + c
        BY <1>9, <1>12, <3>1, <3>2, <4>1, <4>2
      <4> QED BY ONLY <1>12, <1>13, <3>3, <4>3, c \in Int, d \in Int
    <3> QED BY <1>7, <3>4 DEF BalanceKept, history, dumped, disk
  <2>5. PlaceFine(x, "first")
    BY <1>1 DEF PlaceFine, Holding
  <2>6. JobFine(x)
    <3>1. pc'[x] = "first"
      BY <1>1, <2>1 DEF Goto
    <3> QED BY <1>4, <1>8, <1>11, <3>1 DEF JobFine, JobOk
  <2>7. OthersKeep(x) /\ WakeFine(x, "first", NoOne) /\ ListedNonEmpty'
    BY <1>1, <1>7, <1>8, <2>1, <2>2 DEF OthersKeep, WakeFine, history, ListedNonEmpty
  <2> QED BY <1>1, <1>7, <2>1, <2>3, <2>4, <2>5, <2>6, <2>7, ThreadStep
<1> QED BY <1>14, <1>15

\* A sender takes requests of its server, if it still has some.
LEMMA TakeKeeps ==
  ASSUME PoolInv, NEW x \in Senders, TakeRequests(x)
  PROVE  PoolInv'
<1>1. /\ TypeOK /\ PlacesInv /\ JobsInv /\ ListedNonEmpty /\ x \in Threads
      /\ x \notin Adders /\ x # Delayer
  BY ThreadKinds DEF PoolInv
<1>2. PICK s \in Servers, P \in {FirstOf(amounts[srv[x]], MaxBatch)} : s = srv[x]
  BY <1>1 DEF TypeOK
<1>3. /\ pc[x] = "take" /\ UNCHANGED <<phase, active, delayed, timers, disk, job, left, history>>
  BY DEF TakeRequests
<1>4. hand[x] = Nothing /\ Total(hand[x]) = 0
  BY <1>1, <1>3, NothingFacts DEF PlacesInv, Holding
<1>5. phase \notin {"loading", "stopped"}
  BY <1>1, <1>3 DEF PlacesInv
<1>6. CASE P = {}
  <2>1. /\ Goto(x, "get", NoOne) /\ srv' = [srv EXCEPT ![x] = 0] /\ idx' = [idx EXCEPT ![x] = 0]
        /\ UNCHANGED <<amounts, listed, hand>>
    BY <1>2, <1>6 DEF TakeRequests, Leave
  <2>2. TypeOK'
    <3>1. pc' \in [Threads -> Places]
      BY <1>1, <2>1, GotoType DEF Places
    <3>2. srv' \in [Threads -> Servers] /\ idx' \in [Threads -> 0 .. NServers + 1]
      BY <1>1, <2>1, Numbers DEF TypeOK
    <3> QED BY <1>1, <1>3, <2>1, <3>1, <3>2 DEF TypeOK, history, dumped, disk
  <2>3. PlaceFine(x, "get")
    BY <1>1, <1>4, <1>5, <2>1 DEF PlaceFine
  <2> QED BY <1>1, <1>3, <2>1, <2>2, <2>3, QuietStep DEF history
<1>7. CASE P # {}
  <2>1. PICK h, rest : /\ h = Restricted(amounts[s], P)
                       /\ rest = Restricted(amounts[s], Present(amounts[s]) \ P)
    OBVIOUS
  <2>2. /\ hand' = [hand EXCEPT ![x] = h] /\ amounts' = [amounts EXCEPT ![s] = rest]
        /\ UNCHANGED <<srv, idx>>
        /\ \/ IsEmpty(rest) /\ Goto(x, "send", NoOne) /\ listed' = Erased(s)
           \/ /\ ~IsEmpty(rest) /\ listed' = Inserted(Erased(s), s)
              /\ \E w \in Wakeable : Goto(x, "send", w)
    BY <1>2, <1>7, <2>1 DEF TakeRequests
  <2>3. PICK w \in Wakeable \cup {NoOne} : Goto(x, "send", w)
    BY <2>2
  <2>4. /\ h \in Aggregators /\ rest \in Aggregators /\ amounts[s] \in Aggregators
        /\ Total(amounts[s]) = Total(h) + Total(rest)
        /\ Total(h) \in Int /\ Total(rest) \in Int
    <3>1. amounts[s] \in Aggregators
      BY <1>1 DEF TypeOK
    <3> QED BY <2>1, <3>1, RestrictedFacts, TotalType
  <2>5. /\ hand' \in [Threads -> Aggregators] /\ hand'[x] = h
        /\ \A y \in Threads \ {x} : hand'[y] = hand[y]
        /\ amounts' \in [Servers -> Aggregators] /\ amounts'[s] = rest
        /\ \A u \in Servers \ {s} : amounts'[u] = amounts[u]
    BY <1>1, <2>2, <2>4 DEF TypeOK
  <2>6. /\ Erased(s) \in [Servers -> Nat] /\ Erased(s)[s] = 0
        /\ \A u \in Servers : Erased(s)[u] > 0 => listed[u] > 0
    BY <1>1, ErasedFacts DEF TypeOK
  <2>7. /\ listed' \in [Servers -> Nat]
        /\ IsEmpty(rest) => listed'[s] = 0
        /\ \A u \in Servers \ {s} : listed'[u] > 0 => listed[u] > 0
    BY <2>2, <2>6 DEF Inserted
  <2>8. ListedNonEmpty'
    <3>1. ASSUME NEW u \in Servers, listed'[u] > 0 PROVE ~IsEmpty(amounts'[u])
      <4>1. CASE u = s
        BY <2>5, <2>7, <3>1, <4>1
      <4>2. CASE u # s
        BY <1>1, <2>5, <2>7, <3>1, <4>2 DEF ListedNonEmpty
      <4> QED BY <4>1, <4>2
    <3> QED BY <3>1 DEF ListedNonEmpty
  <2>9. TypeOK'
    <3>1. pc' \in [Threads -> Places]
      BY <1>1, <2>3, GotoType DEF Places
    <3> QED BY <1>1, <1>3, <2>2, <2>5, <2>7, <3>1 DEF TypeOK, history, dumped, disk
  <2>10. BalanceKept
    <3>1. HandSum' = HandSum - Total(hand[x]) + Total(hand'[x])
      BY <1>1, <2>5, <2>9, HandChange
    <3>2. ServerSum' = ServerSum - Total(amounts[s]) + Total(amounts'[s])
      BY <1>1, <2>5, <2>9, ServerChange
    <3>3. /\ ShareSum' = ShareSum /\ Total(delayed)' = Total(delayed) /\ UnreadSum' = UnreadSum
          /\ owed' = owed
      BY <1>3 DEF ShareSum, SharesLeft, UnreadSum, history, disk
    <3>4. /\ HandSum \in Int /\ ShareSum \in Int /\ ServerSum \in Int /\ Total(delayed) \in Int
          /\ UnreadSum \in Int /\ owed \in Int
      BY <1>1, SumTypes DEF TypeOK
    <3>5. Total(hand'[x]) = Total(h) /\ Total(amounts'[s]) = Total(rest)
      BY <2>5
    <3>6. HandSum' + ShareSum' + Total(delayed)' + ServerSum' + UnreadSum' + owed
            = HandSum + ShareSum + Total(delayed) + ServerSum + UnreadSum + owed'
      BY ONLY <1>4, <2>4, <3>1, <3>2, <3>3, <3>4, <3>5
    <3> QED BY <1>3, <3>6 DEF BalanceKept, history, dumped, disk
  <2>11. PlaceFine(x, "send")
    BY <1>1, <1>5 DEF PlaceFine, Holding
  <2>12. JobFine(x)
    BY <1>1, <1>3, HandJobFine DEF history
  <2>13. OthersKeep(x) /\ WakeFine(x, "send", w)
    BY <1>3, <2>5 DEF OthersKeep, WakeFine, history
  <2> QED BY <1>1, <1>3, <2>3, <2>8, <2>9, <2>10, <2>11, <2>12, <2>13, ThreadStep
<1> QED BY <1>6, <1>7

\* A call of a server is answered or not: what it confirms is no longer owed.
LEMMA CallFacts ==
  ASSUME PoolInv, NEW x \in Threads \ Adders, pc[x] = "send",
         Answered(x) \/ Unreachable(x),
         UNCHANGED <<phase, pool, disk, job, left, accepted, dumped>>
  PROVE  /\ hand' \in [Threads -> Aggregators] /\ owed' \in Int
         /\ OthersKeep(x) /\ BalanceKept /\ phase \notin {"loading", "stopped"}
<1>1. TypeOK /\ PlacesInv
  BY DEF PoolInv
<1>2. phase \notin {"loading", "stopped"}
  BY <1>1, ThreadKinds DEF PlacesInv
<1>3. PICK h \in Aggregators : /\ hand' = [hand EXCEPT ![x] = h]
                               /\ owed' = owed - (Total(hand[x]) - Total(h))
  <2>1. hand[x] \in Aggregators /\ owed \in Int /\ hand \in [Threads -> Aggregators]
    BY <1>1 DEF TypeOK
  <2>2. Total(hand[x]) \in Int
    BY <2>1, TotalType
  <2>3. CASE Answered(x)
    BY <2>1, <2>3, AnswerFacts DEF Answered
  <2>4. CASE Unreachable(x)
    <3>1. hand' = [hand EXCEPT ![x] = hand[x]] /\ owed' = owed - (Total(hand[x]) - Total(hand[x]))
      BY <2>1, <2>2, <2>4 DEF Unreachable
    <3> QED BY <2>1, <3>1
  <2> QED BY <2>3, <2>4
<1>4. /\ hand' \in [Threads -> Aggregators] /\ hand'[x] = h
      /\ \A y \in Threads \ {x} : hand'[y] = hand[y]
  BY <1>1, <1>3 DEF TypeOK
<1>5. PICK f, g : f = [y \in Threads |-> Total(hand[y])] /\ g = [y \in Threads |-> Total(hand'[y])]
  OBVIOUS
<1>6. /\ \A y \in Threads : f[y] \in Int /\ g[y] \in Int
      /\ \A y \in Threads \ {x} : g[y] = f[y]
      /\ f[x] = Total(hand[x]) /\ g[x] = Total(h)
  <2>1. \A y \in Threads : hand[y] \in Aggregators /\ hand'[y] \in Aggregators
    BY <1>1, <1>4 DEF TypeOK
  <2>2. \A y \in Threads : Total(hand[y]) \in Int /\ Total(hand'[y]) \in Int
    BY <2>1, TotalType
  <2> QED BY <1>4, <1>5, <2>2
<1>7. SumOver(g, Threads) = SumOver(f, Threads) - f[x] + g[x]
  <2>1. x \in Threads
    OBVIOUS
  <2> QED BY ONLY <1>6, <2>1, SumChange, Numbers
<1>8. HandSum = SumOver(f, Threads) /\ HandSum' = SumOver(g, Threads)
  BY <1>5 DEF HandSum
<1>9. /\ HandSum \in Int /\ ShareSum \in Int /\ ServerSum \in Int /\ Total(delayed) \in Int
      /\ UnreadSum \in Int /\ owed \in Int /\ f[x] \in Int /\ g[x] \in Int
  BY <1>1, <1>6, SumTypes DEF TypeOK
<1>10. owed' = owed - (f[x] - g[x]) /\ owed' \in Int
  BY <1>3, <1>6, <1>9
<1>11. /\ ShareSum' = ShareSum /\ Total(delayed)' = Total(delayed) /\ ServerSum' = ServerSum
       /\ UnreadSum' = UnreadSum
  BY DEF ShareSum, SharesLeft, ServerSum, UnreadSum, pool, disk
<1>12. HandSum' + ShareSum' + Total(delayed)' + ServerSum' + UnreadSum' + owed
         = HandSum + ShareSum + Total(delayed) + ServerSum + UnreadSum + owed'
  BY ONLY <1>7, <1>8, <1>9, <1>10, <1>11
<1>13. BalanceKept
  BY <1>2, <1>12 DEF BalanceKept, disk, dumped
<1>14. OthersKeep(x)
  BY <1>4 DEF OthersKeep
<1> QED BY <1>2, <1>4, <1>10, <1>13, <1>14

LEMMA SendKeeps ==
  ASSUME PoolInv, NEW x \in Senders, Send(x)
  PROVE  PoolInv'
<1>1. /\ TypeOK /\ PlacesInv /\ JobsInv /\ ListedNonEmpty /\ x \in Threads
      /\ x \notin Adders /\ x # Delayer
  BY ThreadKinds DEF PoolInv
<1>2. /\ pc[x] = "send"
      /\ Answered(x) \/ Unreachable(x)
      /\ UNCHANGED <<phase, pool, disk, job, left, accepted, dumped, adds, stops>>
  BY DEF Send
<1>3. /\ hand' \in [Threads -> Aggregators] /\ owed' \in Int
      /\ OthersKeep(x) /\ BalanceKept /\ phase \notin {"loading", "stopped"}
  BY <1>1, <1>2, CallFacts
<1>4. PICK place \in {"get", "first", "deactivate"} :
        Goto(x, place, NoOne) /\ (place = "get" => IsEmpty(hand'[x]))
  BY DEF Send
<1>5. hand'[x] \in Aggregators
  BY <1>1, <1>3
<1>6. TypeOK'
  <2>1. pc' \in [Threads -> Places]
    <3>1. place \in Places
      BY DEF Places
    <3> QED BY ONLY <1>1, <1>4, <3>1, GotoType
  <2>2. StartFirst(srv[x]) \in 0 .. NServers + 1
    BY <1>1, StartTypes DEF TypeOK
  <2>3. /\ srv' = srv \/ srv' = [srv EXCEPT ![x] = 0]
        /\ idx' = [idx EXCEPT ![x] = 0] \/ idx' = [idx EXCEPT ![x] = StartFirst(srv[x])]
    BY DEF Send, Leave
  <2>4. srv' \in [Threads -> Servers] /\ idx' \in [Threads -> 0 .. NServers + 1]
    <3>1. /\ 0 \in Servers /\ 0 \in 0 .. NServers + 1
          /\ srv \in [Threads -> Servers] /\ idx \in [Threads -> 0 .. NServers + 1]
      BY <1>1, Numbers DEF TypeOK
    <3>2. srv' \in [Threads -> Servers]
      BY ONLY <2>3, <3>1
    <3>3. idx' \in [Threads -> 0 .. NServers + 1]
      BY ONLY <2>2, <2>3, <3>1
    <3> QED BY <3>2, <3>3
  <2> QED BY <1>1, <1>2, <1>3, <2>1, <2>4 DEF TypeOK, pool, dumped, disk
<1>7. PlaceFine(x, place)
  <2>1. place = "get" => hand'[x] = Nothing
    BY <1>4, <1>5, EmptyIs
  <2> QED BY <1>1, <1>3, <2>1 DEF PlaceFine, Holding
<1>8. JobFine(x)
  BY <1>1, <1>2, HandJobFine
<1>9. WakeFine(x, place, NoOne) /\ ListedNonEmpty'
  BY <1>1, <1>2 DEF WakeFine, ListedNonEmpty, pool
<1> QED BY <1>1, <1>2, <1>3, <1>4, <1>6, <1>7, <1>8, <1>9, ThreadStep

LEMMA SendDelayedKeeps ==
  ASSUME PoolInv, SendDelayed
  PROVE  PoolInv'
<1>1. /\ TypeOK /\ PlacesInv /\ JobsInv /\ ListedNonEmpty /\ Delayer \in Threads
      /\ Delayer \notin Adders /\ Delayer \notin Senders
  BY ThreadKinds DEF PoolInv
<1>2. /\ pc[Delayer] = "send"
      /\ Answered(Delayer) \/ Unreachable(Delayer)
      /\ idx[Delayer] < NServers /\ idx' = [idx EXCEPT ![Delayer] = @ + 1]
      /\ UNCHANGED <<phase, pool, disk, pc, srv, job, left, accepted, dumped, adds, stops>>
  BY DEF SendDelayed
<1>3. /\ hand' \in [Threads -> Aggregators] /\ owed' \in Int
      /\ OthersKeep(Delayer) /\ BalanceKept /\ phase \notin {"loading", "stopped"}
  BY <1>1, <1>2, CallFacts
<1>4. Goto(Delayer, "send", NoOne)
  BY <1>1, <1>2, StayIsGoto
<1>5. TypeOK'
  <2>1. idx[Delayer] + 1 \in 0 .. NServers + 1
    BY <1>1, <1>2, Numbers DEF TypeOK
  <2>2. idx' \in [Threads -> 0 .. NServers + 1]
    BY <1>1, <1>2, <2>1 DEF TypeOK
  <2> QED BY <1>1, <1>2, <1>3, <2>2 DEF TypeOK, pool, dumped, disk
<1>6. PlaceFine(Delayer, "send")
  BY <1>1, <1>3 DEF PlaceFine, Holding
<1>7. JobFine(Delayer)
  BY <1>1, <1>2, HandJobFine
<1>8. WakeFine(Delayer, "send", NoOne) /\ ListedNonEmpty'
  BY <1>1, <1>2 DEF WakeFine, ListedNonEmpty, pool
<1> QED BY <1>1, <1>2, <1>3, <1>4, <1>5, <1>6, <1>7, <1>8, ThreadStep

LEMMA TakeDelayedKeeps ==
  ASSUME PoolInv, TakeDelayed
  PROVE  PoolInv'
<1>1. /\ TypeOK /\ PlacesInv /\ JobsInv /\ ListedNonEmpty /\ Delayer \in Threads
      /\ Delayer \notin Adders /\ Delayer \notin Senders
  BY ThreadKinds DEF PoolInv
<1>2. /\ pc[Delayer] = "idle" /\ phase = "running" /\ Goto(Delayer, "send", NoOne)
      /\ hand' = [hand EXCEPT ![Delayer] = delayed] /\ delayed' = Nothing
      /\ idx' = [idx EXCEPT ![Delayer] = 0]
      /\ UNCHANGED <<phase, active, amounts, listed, timers, disk, srv, job, left, history>>
  BY DEF TakeDelayed
<1>3. /\ hand' \in [Threads -> Aggregators] /\ hand'[Delayer] = delayed
      /\ \A y \in Threads \ {Delayer} : hand'[y] = hand[y]
  BY <1>1, <1>2 DEF TypeOK
<1>4. TypeOK'
  <2>1. pc' \in [Threads -> Places]
    BY <1>1, <1>2, GotoType DEF Places
  <2>2. idx' \in [Threads -> 0 .. NServers + 1]
    BY <1>1, <1>2, Numbers DEF TypeOK
  <2> QED BY <1>1, <1>2, <1>3, <2>1, <2>2, NothingFacts DEF TypeOK, history, dumped, disk
<1>5. BalanceKept
  <2>1. HandSum' = HandSum - Total(hand[Delayer]) + Total(hand'[Delayer])
    BY <1>1, <1>3, <1>4, HandChange
  <2>2. Total(hand[Delayer]) = 0 /\ Total(hand'[Delayer]) = Total(delayed) /\ Total(delayed)' = 0
    BY <1>1, <1>2, <1>3, NothingFacts DEF PlacesInv, Holding
  <2>3. /\ ShareSum' = ShareSum /\ ServerSum' = ServerSum /\ UnreadSum' = UnreadSum /\ owed' = owed
    BY <1>2 DEF ShareSum, SharesLeft, ServerSum, UnreadSum, history, disk
  <2>4. /\ HandSum \in Int /\ ShareSum \in Int /\ ServerSum \in Int /\ Total(delayed) \in Int
        /\ UnreadSum \in Int /\ owed \in Int
    BY <1>1, SumTypes DEF TypeOK
  <2>5. HandSum' + ShareSum' + Total(delayed)' + ServerSum' + UnreadSum' + owed
          = HandSum + ShareSum + Total(delayed) + ServerSum + UnreadSum + owed'
    BY ONLY <2>1, <2>2, <2>3, <2>4
  <2> QED BY <1>2, <2>5 DEF BalanceKept, history, dumped, disk
<1>6. PlaceFine(Delayer, "send")
  BY <1>1, <1>2 DEF PlaceFine, Holding
<1>7. JobFine(Delayer)
  BY <1>1, <1>2, HandJobFine DEF history
<1>8. OthersKeep(Delayer) /\ WakeFine(Delayer, "send", NoOne) /\ ListedNonEmpty'
  BY <1>1, <1>2, <1>3 DEF OthersKeep, WakeFine, history, ListedNonEmpty
<1> QED BY <1>1, <1>2, <1>4, <1>5, <1>6, <1>7, <1>8, ThreadStep

-----------------------------------------------------------------------------
(* Steps of no thread *)

LEMMA ActivateServerKeeps ==
  ASSUME PoolInv, NEW s \in Servers, ActivateServer(s)
  PROVE  PoolInv'
<1>1. TypeOK /\ PlacesInv /\ JobsInv /\ ListedNonEmpty /\ NoneSleepsInVain
  BY DEF PoolInv
<1>2. /\ timers[s] > 0 /\ timers' = [timers EXCEPT ![s] = @ - 1]
      /\ active' = [active EXCEPT ![s] = TRUE] /\ phase \in {"running", "stopping"}
      /\ UNCHANGED <<phase, amounts, delayed, disk, srv, idx, hand, job, left, history>>
  BY DEF ActivateServer
<1>3. \/ UNCHANGED <<listed, pc>>
      \/ /\ ~IsEmpty(amounts[s]) /\ listed' = Inserted(listed, s)
         /\ \E w \in Wakeable : Goto(NoOne, "idle", w)
  BY DEF ActivateServer
<1>4. /\ active' \in [Servers -> BOOLEAN] /\ timers' \in [Servers -> Nat]
  BY <1>1, <1>2 DEF TypeOK
<1>5. BalanceKept
  BY <1>2
  DEF BalanceKept, HandSum, ShareSum, SharesLeft, ServerSum, UnreadSum, history, dumped, disk
<1>6. CASE UNCHANGED <<listed, pc>>
  <2>1. TypeOK'
    BY <1>1, <1>2, <1>4, <1>6 DEF TypeOK, history, dumped, disk
  <2>2. PlacesInv' /\ JobsInv' /\ ListedNonEmpty' /\ NoneSleepsInVain'
    BY <1>1, <1>2, <1>6
    DEF PlacesInv, JobsInv, JobOk, ListedNonEmpty, NoneSleepsInVain, history, disk
  <2>3. Conservation' /\ AcceptedKept'
    BY <1>1, <1>2, <1>5, <2>1, BalanceStep DEF PoolInv
  <2> QED BY <2>1, <2>2, <2>3 DEF PoolInv
<1>7. CASE /\ ~IsEmpty(amounts[s]) /\ listed' = Inserted(listed, s)
           /\ \E w \in Wakeable : Goto(NoOne, "idle", w)
  <2>1. PICK w \in Wakeable : Goto(NoOne, "idle", w)
    BY <1>7
  <2>2. w = NoOne \/ (w \in Senders /\ pc[w] = "waiting")
    BY WakeableIs
  <2>3. \A y \in Threads : pc'[y] = IF y = w THEN "get" ELSE pc[y]
    BY <2>1, ThreadKinds DEF Goto
  <2>4. TypeOK'
    <3>1. pc' \in [Threads -> Places]
      BY <1>1, <2>1, GotoType DEF Places
    <3>2. listed' \in [Servers -> Nat]
      BY <1>1, <1>7 DEF Inserted, TypeOK
    <3> QED BY <1>1, <1>2, <1>4, <3>1, <3>2 DEF TypeOK, history, dumped, disk
  <2>5. PlacesInv'
    <3>1. \A y \in Threads : pc'[y] \notin Holding => pc[y] \notin Holding
      BY <2>2, <2>3, ThreadKinds DEF Holding
    <3>2. \A y \in Threads \ Senders : pc'[y] = pc[y]
      BY <2>2, <2>3, ThreadKinds
    <3>3. \A y \in Senders : pc'[y] = pc[y] \/ pc'[y] = "get"
      BY <2>3, ThreadKinds
    <3> QED BY <1>1, <1>2, <3>1, <3>2, <3>3, ThreadKinds DEF PlacesInv, disk
  <2>6. JobsInv'
    <3>1. \A y \in Adders : pc'[y] = pc[y]
      BY <2>2, <2>3, ThreadKinds
    <3> QED BY <1>1, <1>2, <3>1 DEF JobsInv, JobOk, history
  <2>7. ListedNonEmpty'
    <3>1. \A u \in Servers \ {s} : listed'[u] = listed[u]
      BY <1>1, <1>7 DEF Inserted, TypeOK
    <3> QED BY <1>1, <1>2, <1>7, <3>1 DEF ListedNonEmpty
  <2>8. NoneSleepsInVain'
    <3>1. \A y \in Senders : pc[y] # "waiting" \/ y = w => pc'[y] # "waiting"
      BY <2>3, ThreadKinds
    <3>2. \E y \in Senders : pc[y] # "waiting" \/ y = w
      BY PoolAssumption DEF Wakeable
    <3> QED BY <3>1, <3>2 DEF NoneSleepsInVain
  <2>9. Conservation' /\ AcceptedKept'
    BY <1>1, <1>2, <1>5, <2>4, BalanceStep DEF PoolInv
  <2> QED BY <2>4, <2>5, <2>6, <2>7, <2>8, <2>9 DEF PoolInv
<1> QED BY <1>3, <1>6, <1>7

LEMMA DeactivateKeeps ==
  ASSUME PoolInv, Deactivate
  PROVE  PoolInv'
<1>1. TypeOK /\ PlacesInv /\ JobsInv /\ ListedNonEmpty /\ NoneSleepsInVain /\ Conservation
  BY DEF PoolInv
<1>2. /\ phase = "running" /\ phase' = "stopping"
      /\ UNCHANGED <<pool, disk, srv, idx, hand, job, left, owed, accepted, dumped>>
      /\ \A x \in Threads : pc'[x] = IF pc[x] = "waiting" THEN "get" ELSE pc[x]
  BY DEF Deactivate
<1>3. TypeOK'
  <2>1. pc' \in [Threads -> Places]
    BY <1>1 DEF Deactivate, TypeOK, Places
  <2> QED BY <1>1, <1>2, <2>1 DEF TypeOK, pool, dumped, disk
<1>4. PlacesInv'
  <2>1. \A y \in Threads : pc'[y] \notin Holding => pc[y] \notin Holding
    BY <1>2 DEF Holding
  <2>2. \A y \in Threads : pc[y] # "waiting" => pc'[y] = pc[y]
    BY <1>2
  <2>3. \A y \in Threads : pc'[y] = pc[y] \/ pc'[y] = "get"
    BY <1>2
  <2>4. \A y \in Adders : pc'[y] = pc[y]
    BY <1>1, <2>2, ThreadKinds DEF PlacesInv
  <2>5. pc'[Delayer] = pc[Delayer]
    BY <1>1, <2>2, ThreadKinds DEF PlacesInv
  <2> QED BY <1>1, <1>2, <2>1, <2>3, <2>4, <2>5, ThreadKinds DEF PlacesInv, disk
<1>5. JobsInv'
  <2>1. \A y \in Adders : pc'[y] = pc[y]
    BY <1>1, <1>2, ThreadKinds DEF PlacesInv
  <2> QED BY <1>1, <1>2, <2>1 DEF JobsInv, JobOk
<1>6. ListedNonEmpty'
  BY <1>1, <1>2 DEF ListedNonEmpty, pool
<1>7. NoneSleepsInVain'
  <2>1. \E x \in Senders : x \in Threads
    BY PoolAssumption, ThreadKinds
  <2> QED BY <1>2, <2>1 DEF NoneSleepsInVain
<1>8. Conservation' /\ AcceptedKept'
  <2>1. Outstanding' = Outstanding
    BY <1>2 DEF Outstanding, InHands, SharesLeft, pool, disk
  <2> QED BY <1>1, <1>2, <2>1 DEF Conservation, AcceptedKept
<1> QED BY <1>3, <1>4, <1>5, <1>6, <1>7, <1>8 DEF PoolInv

\* When the pool is saved only adders hold requests, and none whose add() has
\* returned.
LEMMA MissedFacts ==
  ASSUME PoolInv, Dump
  PROVE  /\ missed' \in [Adders -> Int] /\ SumOver(missed', Adders) = HandSum + ShareSum
         /\ \A x \in Adders : accepted[x] => missed'[x] = 0
<1>1. /\ TypeOK /\ PlacesInv /\ JobsInv /\ phase = "stopping"
      /\ \A x \in Senders : pc[x] = "ended"
      /\ pc[Delayer] = "idle"
      /\ missed' = [x \in Adders |-> Total(hand[x]) + SharesLeft(x)]
  BY DEF PoolInv, Dump
<1>2. PICK f, g, m :
        /\ f = [x \in Threads |-> Total(hand[x])] /\ g = [x \in Adders |-> SharesLeft(x)]
        /\ m = missed'
  OBVIOUS
<1>3. \A x \in Threads : f[x] \in Int
  BY <1>1, <1>2, TotalFacts DEF TypeOK
<1>4. \A x \in Adders : g[x] \in Int
  <2>1. \A x \in Adders : job[x].amt \in Int /\ left[x] \in Seq(Servers)
    BY <1>1 DEF TypeOK
  <2> QED BY <1>2, <2>1, SharesType DEF SharesLeft
<1>5. \A x \in Adders : f[x] \in Int /\ g[x] \in Int /\ m[x] = f[x] + g[x]
  BY <1>1, <1>2, <1>3, <1>4, ThreadKinds
<1>6. SumOver(f, Threads) = SumOver(f, Adders)
  <2>1. \A x \in Threads \ Adders : f[x] = 0
    <3>1. \A x \in Threads \ Adders : pc[x] \notin Holding
      BY <1>1, ThreadKinds DEF Holding
    <3>2. \A x \in Threads \ Adders : hand[x] = Nothing
      BY <1>1, <3>1 DEF PlacesInv
    <3> QED BY <1>2, <3>2, NothingFacts
  <2>2. Adders \subseteq Threads /\ IsFiniteSet(Threads)
    BY ThreadKinds, Numbers
  <2> QED BY ONLY <1>3, <2>1, <2>2, SumWithin
<1>7. SumOver(m, Adders) = SumOver(f, Adders) + SumOver(g, Adders)
  BY ONLY <1>5, SumAdd, Numbers
<1>8. SumOver(missed', Adders) = HandSum + ShareSum
  BY <1>2, <1>6, <1>7 DEF HandSum, ShareSum
<1>9. ASSUME NEW x \in Adders, accepted[x] PROVE missed'[x] = 0
  <2>1. pc[x] = "idle"
    BY <1>1, <1>9 DEF JobsInv, JobOk
  <2>2. left[x] = <<>> /\ job[x] = NoJob /\ hand[x] = Nothing
    BY <1>1, <2>1, ThreadKinds DEF JobsInv, JobOk, PlacesInv, Holding
  <2>3. SharesLeft(x) = Shares(0, <<>>)
    BY <2>2 DEF SharesLeft, NoJob
  <2>4. SharesLeft(x) = 0 /\ Total(hand[x]) = 0
    BY <2>2, <2>3, SharesFacts, NothingFacts
  <2> QED BY <1>1, <2>4
<1>10. missed' \in [Adders -> Int]
  <2>1. \A x \in Adders : m[x] \in Int
    BY ONLY <1>5
  <2> QED BY <1>1, <1>2, <2>1
<1> QED BY <1>8, <1>9, <1>10

LEMMA DumpKeeps ==
  ASSUME PoolInv, Dump
  PROVE  PoolInv'
<1>1. TypeOK /\ PlacesInv /\ JobsInv /\ ListedNonEmpty /\ NoneSleepsInVain /\ Conservation
  BY DEF PoolInv
<1>2. /\ phase = "stopping" /\ phase' = "stopped"
      /\ \A x \in Senders : pc[x] = "ended"
      /\ pc[Delayer] = "idle"
      /\ \/ file' = Saved /\ saved' = TRUE
         \/ file' \in {file, NoRequests} /\ saved' = FALSE
      /\ UNCHANGED <<pool, unread, pc, srv, idx, hand, job, left, owed, accepted>>
  BY DEF Dump, WriteFile
<1>3. Saved \in [Keys -> Requests] /\ AmountOf(Saved) = Total(delayed) + ServerSum
  BY <1>1, SavedFacts DEF TypeOK, ServerSum
<1>4. /\ missed' \in [Adders -> Int] /\ SumOver(missed', Adders) = HandSum + ShareSum
      /\ \A x \in Adders : accepted[x] => missed'[x] = 0
  BY MissedFacts
<1>5. TypeOK'
  <2>1. file' \in [Keys -> Requests] /\ saved' \in BOOLEAN
    BY <1>1, <1>2, <1>3, AmountNone DEF TypeOK
  <2> QED BY <1>1, <1>2, <1>4, <2>1 DEF TypeOK, pool
<1>6. PlacesInv' /\ JobsInv' /\ ListedNonEmpty' /\ NoneSleepsInVain'
  BY <1>1, <1>2 DEF PlacesInv, JobsInv, JobOk, ListedNonEmpty, NoneSleepsInVain, pool
<1>7. Conservation'
  BY <1>2 DEF Conservation
<1>8. ASSUME saved' PROVE AmountOf(file') = owed' - SumOver(missed', Adders)
  <2>1. file' = Saved
    BY <1>2, <1>8
  <2>2. UnreadSum = 0
    BY <1>1, <1>2, AmountNone DEF PlacesInv, UnreadSum
  <2>3. owed = HandSum + ShareSum + Total(delayed) + ServerSum + UnreadSum
    BY <1>1, <1>2
    DEF Conservation, Outstanding, InHands, HandSum, ShareSum, ServerSum, UnreadSum
  <2>4. /\ HandSum \in Int /\ ShareSum \in Int /\ ServerSum \in Int /\ Total(delayed) \in Int
    BY <1>1, SumTypes
  <2>5. Total(delayed) + ServerSum = owed - (HandSum + ShareSum)
    BY ONLY <2>2, <2>3, <2>4
  <2> QED BY <1>2, <1>3, <1>4, <2>1, <2>5
<1>9. AcceptedKept'
  BY <1>2, <1>4, <1>8 DEF AcceptedKept
<1> QED BY <1>5, <1>6, <1>7, <1>9 DEF PoolInv

\* Nothing but the file of amounts is left of an earlier process.
LEMMA EmptyPool ==
  ASSUME amounts = [s \in Servers |-> Nothing], delayed = Nothing,
         hand = [x \in Threads |-> Nothing], job = [x \in Adders |-> NoJob],
         left = [x \in Adders |-> <<>>]
  PROVE  HandSum = 0 /\ ShareSum = 0 /\ ServerSum = 0 /\ Total(delayed) = 0
<1>1. \A x \in Adders : SharesLeft(x) = 0
  <2>1. \A x \in Adders : SharesLeft(x) = Shares(0, <<>>)
    BY DEF SharesLeft, NoJob
  <2> QED BY <2>1, SharesFacts
<1>2. PICK f, g, h : /\ f = [x \in Threads |-> Total(hand[x])]
                     /\ g = [x \in Adders |-> SharesLeft(x)]
                     /\ h = [s \in Servers |-> Total(amounts[s])]
  OBVIOUS
<1>3. \A x \in Threads : f[x] = 0
  BY <1>2, NothingFacts
<1>4. \A x \in Adders : g[x] = 0
  BY <1>1, <1>2
<1>5. \A s \in Servers : h[s] = 0
  BY <1>2, NothingFacts
<1>6. SumOver(f, Threads) = 0 /\ SumOver(g, Adders) = 0 /\ SumOver(h, Servers) = 0
  BY <1>3, <1>4, <1>5, SumZero, Numbers
<1>7. HandSum = 0 /\ ShareSum = 0 /\ ServerSum = 0
  BY <1>2, <1>6 DEF HandSum, ShareSum, ServerSum
<1> QED BY <1>7, NothingFacts

\* A process that has only what is on disk, before or after it is loaded.
Fresh ==
  /\ amounts = [s \in Servers |-> Nothing] /\ delayed = Nothing
  /\ listed = [s \in Servers |-> 0] /\ timers = [s \in Servers |-> 0]
  /\ active = [s \in Servers |-> TRUE]
  /\ srv = [x \in Threads |-> 0] /\ idx = [x \in Threads |-> 0]
  /\ hand = [x \in Threads |-> Nothing]
  /\ job = [x \in Adders |-> NoJob] /\ left = [x \in Adders |-> <<>>]
  /\ file \in [Keys -> Requests] /\ unread \in [Keys -> Requests]
  /\ owed = UnreadSum /\ accepted = [x \in Adders |-> TRUE]
  /\ saved = TRUE /\ missed = [x \in Adders |-> 0]
  /\ \/ /\ phase = "running" /\ unread = NoRequests
        /\ pc = [x \in Threads |-> IF x \in Senders THEN "get" ELSE "idle"]
     \/ /\ phase = "loading"
        /\ pc = [x \in Threads |-> IF x \in Senders THEN "ended" ELSE "idle"]

LEMMA FreshPool == Fresh => PoolInv
<1> SUFFICES ASSUME Fresh PROVE PoolInv
  OBVIOUS
<1> USE DEF Fresh
<1>1. HandSum = 0 /\ ShareSum = 0 /\ ServerSum = 0 /\ Total(delayed) = 0
  BY EmptyPool
<1>2. UnreadSum \in Int
  BY AmountIs DEF UnreadSum
<1>3. pc \in [Threads -> Places]
  BY DEF Places
<1>4. /\ \A x \in Senders : pc[x] = "get" \/ pc[x] = "ended"
      /\ \A x \in Adders : pc[x] = "idle"
      /\ pc[Delayer] = "idle"
      /\ phase = "loading" => \A x \in Senders : pc[x] = "ended"
  BY ThreadKinds
<1>5. TypeOK
  <2>1. job \in [Adders -> [key : Keys \cup {0}, t : Nat, amt : Int]] /\ left \in [Adders -> Seq(Servers)]
    BY DEF NoJob
  <2>2. owed \in Int /\ phase \in {"running", "loading"}
    BY <1>2
  <2>3. srv \in [Threads -> Servers] /\ idx \in [Threads -> 0 .. NServers + 1]
    BY Numbers
  <2>4. /\ amounts \in [Servers -> Aggregators] /\ delayed \in Aggregators
        /\ hand \in [Threads -> Aggregators]
    BY NothingFacts
  <2>5. /\ active \in [Servers -> BOOLEAN] /\ listed \in [Servers -> Nat]
        /\ timers \in [Servers -> Nat]
    OBVIOUS
  <2>6. /\ file \in [Keys -> Requests] /\ unread \in [Keys -> Requests]
        /\ missed \in [Adders -> Int] /\ saved \in BOOLEAN /\ accepted \in [Adders -> BOOLEAN]
    OBVIOUS
  <2> QED BY ONLY <1>3, <2>1, <2>2, <2>3, <2>4, <2>5, <2>6 DEF TypeOK
<1>6. PlacesInv
  <2>1. phase # "stopped" /\ \A x \in Threads : hand[x] = Nothing
    OBVIOUS
  <2> QED BY <1>4, <2>1 DEF PlacesInv
<1>7. JobsInv
  <2>1. \A x \in Adders : job[x] = NoJob /\ left[x] = <<>>
    OBVIOUS
  <2> QED BY <1>4, <2>1 DEF JobsInv, JobOk
<1>8. Outstanding = owed
  <2>1. Outstanding = 0 + 0 + 0 + 0 + UnreadSum
    BY <1>1 DEF Outstanding, InHands, HandSum, ShareSum, ServerSum, UnreadSum
  <2> QED BY <1>2, <2>1
<1>9. Conservation /\ AcceptedKept
  BY <1>8 DEF Conservation, AcceptedKept
<1>10. ListedNonEmpty /\ NoneSleepsInVain
  BY DEF ListedNonEmpty, NoneSleepsInVain
<1> QED BY <1>5, <1>6, <1>7, <1>9, <1>10 DEF PoolInv

LEMMA InitFine == Init => PoolInv
<1> SUFFICES ASSUME Init PROVE PoolInv
  OBVIOUS
<1>1. file \in [Keys -> Requests] /\ unread \in [Keys -> Requests] /\ owed = UnreadSum
  BY AmountNone DEF Init, UnreadSum
<1> QED BY <1>1, FreshPool DEF Init, Fresh

\* What is owed to the next process is what it finds on disk.
LEMMA RestartKeeps ==
  ASSUME PoolInv, Restart
  PROVE  PoolInv'
<1>1. Fresh'
  <2>1. file \in [Keys -> Requests] /\ unread' = file /\ file' = file
    BY DEF PoolInv, TypeOK, Restart
  <2>2. owed' = AmountOf(file)
    BY DEF PoolInv, AcceptedKept, Restart
  <2>3. owed' = UnreadSum'
    BY <2>1, <2>2 DEF UnreadSum
  <2> QED BY <2>1, <2>3 DEF Restart, Fresh
<1>2. (Fresh => PoolInv)'
  BY FreshPool, PTL
<1> QED BY <1>1, <1>2

LEMMA ActivateKeeps ==
  ASSUME PoolInv, Activate
  PROVE  PoolInv'
<1>1. TypeOK /\ PlacesInv /\ JobsInv /\ ListedNonEmpty /\ Conservation
  BY DEF PoolInv
<1>2. /\ phase = "loading" /\ phase' = "running" /\ unread = NoRequests
      /\ \A x \in Adders : pc[x] = "idle"
      /\ UNCHANGED <<pool, disk, srv, idx, hand, job, left, history>>
      /\ \A x \in Threads : pc'[x] = IF x \in Senders THEN "get" ELSE "idle"
  BY DEF Activate
<1>3. TypeOK'
  <2>1. pc' \in [Threads -> Places]
    BY DEF Activate, Places
  <2> QED BY <1>1, <1>2, <2>1 DEF TypeOK, pool, history, dumped, disk
<1>4. PlacesInv'
  <2>1. \A x \in Threads : hand[x] = Nothing
    <3>1. \A x \in Threads : pc[x] \notin Holding
      BY <1>1, <1>2, ThreadKinds DEF PlacesInv, Holding
    <3> QED BY <1>1, <3>1 DEF PlacesInv
  <2>2. /\ \A x \in Senders : pc'[x] = "get"
        /\ \A x \in Adders : pc'[x] = "idle"
        /\ pc'[Delayer] = "idle"
    BY <1>2, ThreadKinds
  <2> QED BY <1>2, <2>1, <2>2 DEF PlacesInv, disk
<1>5. JobsInv'
  <2>1. \A x \in Adders : pc'[x] = pc[x]
    BY <1>2, ThreadKinds
  <2> QED BY <1>1, <1>2, <2>1 DEF JobsInv, JobOk
<1>6. ListedNonEmpty'
  BY <1>1, <1>2 DEF ListedNonEmpty, pool
<1>7. NoneSleepsInVain'
  BY <1>2, PoolAssumption, ThreadKinds DEF NoneSleepsInVain
<1>8. Conservation' /\ AcceptedKept'
  <2>1. Outstanding' = Outstanding /\ owed' = owed
    BY <1>2 DEF Outstanding, InHands, SharesLeft, pool, history, disk
  <2> QED BY <1>1, <1>2, <2>1 DEF Conservation, AcceptedKept
<1> QED BY <1>3, <1>4, <1>5, <1>6, <1>7, <1>8 DEF PoolInv

-----------------------------------------------------------------------------

LEMMA StutterKeeps ==
  ASSUME PoolInv, UNCHANGED vars
  PROVE  PoolInv'
<1>1. UNCHANGED <<phase, active, amounts, listed, delayed, timers, file, unread, pc, srv,
                  idx, hand, job, left, owed, accepted, saved, missed>>
  BY DEF vars, disk
<1>2. TypeOK' /\ PlacesInv' /\ JobsInv'
  BY <1>1 DEF PoolInv, TypeOK, PlacesInv, JobsInv, JobOk
<1>3. Outstanding' = Outstanding
  BY <1>1 DEF Outstanding, InHands, SharesLeft
<1>4. Conservation' /\ AcceptedKept'
  BY <1>1, <1>3 DEF PoolInv, Conservation, AcceptedKept
<1>5. ListedNonEmpty' /\ NoneSleepsInVain'
  BY <1>1 DEF PoolInv, ListedNonEmpty, NoneSleepsInVain
<1> QED BY <1>2, <1>4, <1>5 DEF PoolInv

LEMMA PoolStep == PoolInv /\ [Next]_vars => PoolInv'
<1> SUFFICES ASSUME PoolInv, [Next]_vars PROVE PoolInv'
  OBVIOUS
<1>1. ASSUME NEW x \in Senders \cup Adders, Resend(x) PROVE PoolInv'
  <2>1. x \in Threads
    BY ThreadKinds
  <2> QED
    BY <1>1, <2>1, ResendFirstKeeps, ResendNextKeeps, ResendEndsKeeps, DelayKeeps DEF Resend
<1>2. ASSUME NEW x \in Senders, Sender(x) PROVE PoolInv'
  BY <1>1, <1>2, PopKeeps, WaitKeeps, TakeKeeps, SendKeeps, DeactivateServerKeeps DEF Sender
<1>3. ASSUME NEW x \in Adders, Add(x) \/ LoadOne(x) \/ Adder(x) PROVE PoolInv'
  BY <1>1, <1>3, AddKeeps, AddShareKeeps, CheckKeeps DEF Adder
<1>4. ASSUME TakeDelayed \/ Delayed PROVE PoolInv'
  <2>1. Delayer \in Threads
    BY ThreadKinds
  <2> QED BY <1>4, <2>1, TakeDelayedKeeps, SendDelayedKeeps, SendDelayedEndsKeeps, DelayKeeps DEF Delayed
<1>5. ASSUME NEW s \in Servers, ActivateServer(s) PROVE PoolInv'
  BY <1>5, ActivateServerKeeps
<1>6. ASSUME Deactivate \/ Dump \/ Restart \/ Activate PROVE PoolInv'
  BY <1>6, DeactivateKeeps, DumpKeeps, RestartKeeps, ActivateKeeps
<1>7. ASSUME UNCHANGED vars PROVE PoolInv'
  BY <1>7, StutterKeeps
<1> QED BY <1>2, <1>3, <1>4, <1>5, <1>6, <1>7 DEF Next

\* In every reachable state, for amounts of either sign, what was given to add()
\* and is in no answer confirmed is in the pool, in the hands of a thread or on
\* disk; what add() took without an exception outlives an orderly stop whose
\* last dump does not fail; and no server is listed while all senders wait
\* (RequestPool of BillingProcessor).
THEOREM PoolHolds == Spec => []PoolInv
BY InitFine, PoolStep, PTL DEF Spec

=============================================================================
