--------------------- MODULE TransactionProfileMap_proofs ---------------------
(***************************************************************************)
(* Proofs about TransactionMap and TransactionProfileMap, for any clients, *)
(* keys and holders and any limit of waiters: one transaction per key,     *)
(* holders that live exactly as long as they are used, exact counters, and *)
(* profile updates that implement the atomic ones of AtomicProfiles.  And  *)
(* about AsyncMutex, the lock of a holder: it has one owner, loses no      *)
(* wakeup, lets nobody overtake its queue and implements ExclusiveLock, as *)
(* which the map uses it.                                                  *)
(***************************************************************************)
EXTENDS TransactionProfileMap, AsyncMutex, FiniteSetTheorems, TLAPS

\* Unlinking the i-th waiter of a queue keeps the others in their order.
LEMMA UnlinkFacts ==
  ASSUME NEW S, NEW q \in Seq(S), NEW i \in 1..Len(q)
  PROVE  /\ RemoveAt(q, i) \in Seq(S)
         /\ Len(RemoveAt(q, i)) = Len(q) - 1
         /\ \A j \in 1..Len(q) - 1 :
              RemoveAt(q, i)[j] = IF j < i THEN q[j] ELSE q[j + 1]
<1> DEFINE front == SubSeq(q, 1, i - 1)
           rest == SubSeq(q, i + 1, Len(q))
<1>1. front \in Seq(S) /\ rest \in Seq(S) /\ Len(front) = i - 1 /\ Len(rest) = Len(q) - i
  OBVIOUS
<1>2. \A j \in 1..i - 1 : front[j] = q[j]
  OBVIOUS
<1>3. \A j \in 1..Len(q) - i : rest[j] = q[i + j]
  OBVIOUS
<1> HIDE DEF front, rest
<1>4. front \o rest \in Seq(S) /\ Len(front \o rest) = Len(q) - 1
  BY <1>1
<1>5. ASSUME NEW j \in 1..Len(q) - 1
      PROVE  (front \o rest)[j] = IF j < i THEN q[j] ELSE q[j + 1]
  BY <1>1, <1>2, <1>3
<1> QED
  BY <1>4, <1>5 DEF RemoveAt, front, rest

\* Any set of clients is finite.
LEMMA ClientsFinite ==
  ASSUME NEW S \in SUBSET Clients
  PROVE  IsFiniteSet(S) /\ Cardinality(S) \in Nat /\ (Cardinality(S) = 0 <=> S = {})
<1>1. IsFiniteSet(S)
  BY TransactionMapAssumption, FS_Subset
<1> QED
  BY <1>1, FS_CardinalityType, FS_EmptySet

\* When one client moves, only its own share of a count can change.
LEMMA OneClientMoves ==
  ASSUME NEW P, NEW h \in Holders, NEW c \in Clients,
         \A d \in Clients \ {c} : pc'[d] = pc[d] /\ holder'[d] = holder[d]
  PROVE  Cardinality(ClientsAt(P, h)') =
           (Cardinality(ClientsAt(P, h)) - (IF pc[c] \in P /\ holder[c] = h THEN 1 ELSE 0))
             + (IF pc'[c] \in P /\ holder'[c] = h THEN 1 ELSE 0)
<1> DEFINE S == ClientsAt(P, h)
           T == ClientsAt(P, h)'
           R == S \ {c}
<1>1. /\ S \in SUBSET Clients /\ T \in SUBSET Clients /\ R \in SUBSET Clients
      /\ R = T \ {c}
      /\ c \in S <=> pc[c] \in P /\ holder[c] = h
      /\ c \in T <=> pc'[c] \in P /\ holder'[c] = h
  BY DEF ClientsAt
<1> HIDE DEF S, T, R
<1>2. /\ IsFiniteSet(S) /\ IsFiniteSet(T)
      /\ Cardinality(S) \in Nat /\ Cardinality(T) \in Nat /\ Cardinality(R) \in Nat
  BY <1>1, ClientsFinite
<1>3. Cardinality(R) = IF c \in S THEN Cardinality(S) - 1 ELSE Cardinality(S)
  BY <1>2, FS_RemoveElement DEF R
<1>4. Cardinality(R) = IF c \in T THEN Cardinality(T) - 1 ELSE Cardinality(T)
  BY <1>1, <1>2, FS_RemoveElement
<1>5. Cardinality(T) = (Cardinality(S) - (IF c \in S THEN 1 ELSE 0)) + (IF c \in T THEN 1 ELSE 0)
  BY <1>2, <1>3, <1>4
<1> QED
  BY <1>1, <1>5 DEF S, T

\* Init establishes the invariant of the map.
LEMMA MapInvInit == MapInit => MapInv
<1> SUFFICES ASSUME MapInit PROVE MapInv
  OBVIOUS
<1> USE TransactionMapAssumption DEF MapInit
<1>1. MapTypeOK
  BY DEF MapTypeOK, Pc
<1>2. OneTransactionPerKey /\ HolderInMap /\ NoHolderLeak /\ LockExact
  BY DEF OneTransactionPerKey, HolderInMap, NoHolderLeak, LockExact, HasLock
<1>3. CountersExact
  <2>1. ASSUME NEW h \in Holders
        PROVE  /\ UsersAt(h) = {}
               /\ ReturningAt(h) = {}
               /\ CountedAt(h) = {}
    BY DEF ClientsAt, UsersAt, ReturningAt, CountedAt, Counts
  <2>2. ASSUME NEW h \in Holders
        PROVE  /\ Cardinality(UsersAt(h)) = 0
               /\ Cardinality(ReturningAt(h)) = 0
               /\ Cardinality(CountedAt(h)) = 0
    BY <2>1, FS_EmptySet, Zenon
  <2> QED
    BY <2>2 DEF CountersExact
<1> QED
  BY <1>1, <1>2, <1>3 DEF MapInv

\* A holder has references exactly while a client works with it.
RefsWhileUsed ==
  \A h \in Holders : refs[h] > 0 <=> \E c \in Clients : pc[c] # "idle" /\ holder[c] = h

\* That follows from the exact counters.
LEMMA UsersHaveRefs == MapTypeOK /\ CountersExact => RefsWhileUsed
<1> SUFFICES ASSUME MapTypeOK, CountersExact, NEW h \in Holders
             PROVE  refs[h] > 0 <=> \E c \in Clients : pc[c] # "idle" /\ holder[c] = h
  BY DEF RefsWhileUsed
<1> DEFINE U == UsersAt(h)
           R == ReturningAt(h)
<1>1. /\ U \in SUBSET Clients /\ R \in SUBSET U
      /\ U # {} <=> \E c \in Clients : pc[c] # "idle" /\ holder[c] = h
  BY DEF ClientsAt, UsersAt, ReturningAt, MapTypeOK, Pc
<1>2. refs[h] = Cardinality(U) + Cardinality(R)
  BY DEF CountersExact
<1> HIDE DEF U, R
<1>3. /\ Cardinality(U) \in Nat /\ Cardinality(R) \in Nat
      /\ Cardinality(U) = 0 <=> U = {}
      /\ Cardinality(R) = 0 <=> R = {}
  BY <1>1, ClientsFinite
<1> QED
  BY <1>1, <1>2, <1>3

\* The counts of all three kinds when one client moves.
LEMMA CountsOfMove ==
  ASSUME MapTypeOK, MapTypeOK', NEW c \in Clients, NEW h \in Holders,
         \A d \in Clients \ {c} : pc'[d] = pc[d] /\ holder'[d] = holder[d]
  PROVE  /\ Cardinality(UsersAt(h)) \in Nat /\ Cardinality(ReturningAt(h)) \in Nat
         /\ Cardinality(CountedAt(h)) \in Nat
         /\ Cardinality(UsersAt(h)') =
              (Cardinality(UsersAt(h)) - (IF pc[c] # "idle" /\ holder[c] = h THEN 1 ELSE 0))
                + (IF pc'[c] # "idle" /\ holder'[c] = h THEN 1 ELSE 0)
         /\ Cardinality(ReturningAt(h)') =
              (Cardinality(ReturningAt(h)) - (IF pc[c] = "returning" /\ holder[c] = h THEN 1 ELSE 0))
                + (IF pc'[c] = "returning" /\ holder'[c] = h THEN 1 ELSE 0)
         /\ Cardinality(CountedAt(h)') =
              (Cardinality(CountedAt(h)) - (IF pc[c] \in Counts /\ holder[c] = h THEN 1 ELSE 0))
                + (IF pc'[c] \in Counts /\ holder'[c] = h THEN 1 ELSE 0)
<1>1. \A P : ClientsAt(P, h) \in SUBSET Clients
  BY DEF ClientsAt
<1>2. /\ Cardinality(UsersAt(h)) \in Nat /\ Cardinality(ReturningAt(h)) \in Nat
      /\ Cardinality(CountedAt(h)) \in Nat
  BY <1>1, ClientsFinite DEF UsersAt, ReturningAt, CountedAt
<1>3. Cardinality(ClientsAt(Pc \ {"idle"}, h)') =
        (Cardinality(ClientsAt(Pc \ {"idle"}, h)) - (IF pc[c] \in Pc \ {"idle"} /\ holder[c] = h THEN 1 ELSE 0))
          + (IF pc'[c] \in Pc \ {"idle"} /\ holder'[c] = h THEN 1 ELSE 0)
  BY OneClientMoves
<1>4. Cardinality(ClientsAt({"returning"}, h)') =
        (Cardinality(ClientsAt({"returning"}, h)) - (IF pc[c] \in {"returning"} /\ holder[c] = h THEN 1 ELSE 0))
          + (IF pc'[c] \in {"returning"} /\ holder'[c] = h THEN 1 ELSE 0)
  BY OneClientMoves
<1>5. Cardinality(CountedAt(h)') =
        (Cardinality(CountedAt(h)) - (IF pc[c] \in Counts /\ holder[c] = h THEN 1 ELSE 0))
          + (IF pc'[c] \in Counts /\ holder'[c] = h THEN 1 ELSE 0)
  BY OneClientMoves DEF CountedAt
<1>6. /\ pc[c] \in Pc \ {"idle"} <=> pc[c] # "idle"
      /\ pc'[c] \in Pc \ {"idle"} <=> pc'[c] # "idle"
      /\ \A x : x \in {"returning"} <=> x = "returning"
  BY DEF MapTypeOK
<1>7. Cardinality(UsersAt(h)') =
        (Cardinality(UsersAt(h)) - (IF pc[c] # "idle" /\ holder[c] = h THEN 1 ELSE 0))
          + (IF pc'[c] # "idle" /\ holder'[c] = h THEN 1 ELSE 0)
  BY <1>3, <1>6, Zenon DEF UsersAt
<1>8. Cardinality(ReturningAt(h)') =
        (Cardinality(ReturningAt(h)) - (IF pc[c] = "returning" /\ holder[c] = h THEN 1 ELSE 0))
          + (IF pc'[c] = "returning" /\ holder'[c] = h THEN 1 ELSE 0)
  BY <1>4, <1>6, Zenon DEF ReturningAt
<1> QED
  BY <1>2, <1>5, <1>7, <1>8

\* The references and the requests that a client at a place stands for.
RefsAt(p) == IF p = "idle" THEN 0 ELSE IF p = "returning" THEN 2 ELSE 1
RequestsAt(p) == IF p \in Counts THEN 1 ELSE 0

\* The counters stay exact when they follow the client that moves.
LEMMA CountersFollow ==
  ASSUME MapTypeOK, MapTypeOK', CountersExact, NEW c \in Clients,
         \A d \in Clients \ {c} : pc'[d] = pc[d] /\ holder'[d] = holder[d],
         \A g \in Holders :
           /\ refs'[g] = (refs[g] - (IF holder[c] = g THEN RefsAt(pc[c]) ELSE 0))
                           + (IF holder'[c] = g THEN RefsAt(pc'[c]) ELSE 0)
           /\ lockCount'[g] = (lockCount[g] - (IF holder[c] = g THEN RequestsAt(pc[c]) ELSE 0))
                           + (IF holder'[c] = g THEN RequestsAt(pc'[c]) ELSE 0)
  PROVE  CountersExact'
<1> SUFFICES ASSUME NEW g \in Holders
             PROVE  /\ refs'[g] = Cardinality(UsersAt(g)') + Cardinality(ReturningAt(g)')
                    /\ lockCount'[g] = Cardinality(CountedAt(g)')
  BY DEF CountersExact
<1>1. /\ refs[g] = Cardinality(UsersAt(g)) + Cardinality(ReturningAt(g))
      /\ lockCount[g] = Cardinality(CountedAt(g))
  BY DEF CountersExact
<1>2. /\ Cardinality(UsersAt(g)) \in Nat /\ Cardinality(ReturningAt(g)) \in Nat
      /\ Cardinality(CountedAt(g)) \in Nat
      /\ Cardinality(UsersAt(g)') =
           (Cardinality(UsersAt(g)) - (IF pc[c] # "idle" /\ holder[c] = g THEN 1 ELSE 0))
             + (IF pc'[c] # "idle" /\ holder'[c] = g THEN 1 ELSE 0)
      /\ Cardinality(ReturningAt(g)') =
           (Cardinality(ReturningAt(g)) - (IF pc[c] = "returning" /\ holder[c] = g THEN 1 ELSE 0))
             + (IF pc'[c] = "returning" /\ holder'[c] = g THEN 1 ELSE 0)
      /\ Cardinality(CountedAt(g)') =
           (Cardinality(CountedAt(g)) - (IF pc[c] \in Counts /\ holder[c] = g THEN 1 ELSE 0))
             + (IF pc'[c] \in Counts /\ holder'[c] = g THEN 1 ELSE 0)
  BY CountsOfMove
<1> QED
  BY <1>1, <1>2 DEF RefsAt, RequestsAt

\* Every step keeps the types and the exact counters.
LEMMA CountersStep ==
  ASSUME MapInv, [MapNext]_mapVars
  PROVE  MapTypeOK' /\ CountersExact'
<1> USE TransactionMapAssumption
<1>0. /\ MapTypeOK /\ CountersExact /\ LockExact /\ NoHolderLeak
      /\ \A c \in Clients : pc[c] # "idle" => holder[c] \in Holders /\ refs[holder[c]] > 0
      /\ \A k \in Keys : openMap[k] # None => openMap[k] \in Holders
  BY DEF MapInv, MapTypeOK, LockExact, HolderInMap
<1> DEFINE Others(c) == \A d \in Clients \ {c} : pc'[d] = pc[d] /\ holder'[d] = holder[d]
<1>1. ASSUME NEW c \in Clients, NEW k \in Keys, NEW h \in Holders, CreateHolder(c, k, h)
      PROVE  MapTypeOK' /\ CountersExact'
  <2>1. MapTypeOK' /\ Others(c)
    <3>1. queue' \in [Holders -> Seq(Coros)]
      BY <1>0, <1>1 DEF CreateHolder, MapTypeOK
    <3>2. /\ refs' \in [Holders -> Nat] /\ lockCount' \in [Holders -> Int]
          /\ owner' \in [Holders -> Clients \cup {None}]
      <4>1. \E n \in {1, 2} : refs' = [refs EXCEPT ![h] = n]
        BY <1>1 DEF CreateHolder
      <4>2. \E d \in {c, None} : owner' = [owner EXCEPT ![h] = d]
        BY <1>1 DEF CreateHolder
      <4>3. lockCount' = [lockCount EXCEPT ![h] = 1]
        BY <1>1 DEF CreateHolder
      <4> QED
        BY <1>0, <4>1, <4>2, <4>3 DEF MapTypeOK
    <3>3. pc' \in [Clients -> Pc] /\ Others(c)
      BY <1>0, <1>1 DEF CreateHolder, MapTypeOK, Pc
    <3> QED
      BY <1>0, <1>1, <3>1, <3>2, <3>3 DEF CreateHolder, MapTypeOK
  <2>2. refs[h] = 0 /\ lockCount[h] = 0
    <3>1. UsersAt(h) = {} /\ ReturningAt(h) = {} /\ CountedAt(h) = {}
      BY <1>0, <1>1, UsersHaveRefs, SMTT(30)
         DEF RefsWhileUsed, CreateHolder, UsersAt, ReturningAt, CountedAt, ClientsAt, Counts,
             MapTypeOK
    <3>2. Cardinality(CountedAt(h)) = 0
      BY <3>1, FS_EmptySet, Zenon
    <3> QED
      BY <1>0, <1>1, <3>2 DEF CreateHolder, CountersExact
  <2>3. ASSUME NEW g \in Holders
        PROVE  /\ refs'[g] = (refs[g] - (IF holder[c] = g THEN RefsAt(pc[c]) ELSE 0))
                               + (IF holder'[c] = g THEN RefsAt(pc'[c]) ELSE 0)
               /\ lockCount'[g] = (lockCount[g] - (IF holder[c] = g THEN RequestsAt(pc[c]) ELSE 0))
                               + (IF holder'[c] = g THEN RequestsAt(pc'[c]) ELSE 0)
    BY <1>0, <1>1, <2>1, <2>2 DEF CreateHolder, MapTypeOK, RefsAt, RequestsAt, Counts
  <2> QED
    BY <1>0, <2>1, <2>3, CountersFollow
<1>2. ASSUME NEW c \in Clients, NEW k \in Keys, Reject(c, k) PROVE MapTypeOK' /\ CountersExact'
  <2>1. MapTypeOK' /\ Others(c)
    BY <1>0, <1>2 DEF Reject, MapTypeOK, Pc
  <2>2. ASSUME NEW g \in Holders
        PROVE  /\ refs'[g] = (refs[g] - (IF holder[c] = g THEN RefsAt(pc[c]) ELSE 0))
                               + (IF holder'[c] = g THEN RefsAt(pc'[c]) ELSE 0)
               /\ lockCount'[g] = (lockCount[g] - (IF holder[c] = g THEN RequestsAt(pc[c]) ELSE 0))
                               + (IF holder'[c] = g THEN RequestsAt(pc'[c]) ELSE 0)
    BY <1>0, <1>2, <2>1 DEF Reject, MapTypeOK, RefsAt, RequestsAt, Counts
  <2> QED
    BY <1>0, <2>1, <2>2, CountersFollow
<1>3. ASSUME NEW c \in Clients, NEW k \in Keys, JoinHolder(c, k) PROVE MapTypeOK' /\ CountersExact'
  <2>1. MapTypeOK' /\ Others(c)
    BY <1>0, <1>3 DEF JoinHolder, MapTypeOK, Pc
  <2>2. ASSUME NEW g \in Holders
        PROVE  /\ refs'[g] = (refs[g] - (IF holder[c] = g THEN RefsAt(pc[c]) ELSE 0))
                               + (IF holder'[c] = g THEN RefsAt(pc'[c]) ELSE 0)
               /\ lockCount'[g] = (lockCount[g] - (IF holder[c] = g THEN RequestsAt(pc[c]) ELSE 0))
                               + (IF holder'[c] = g THEN RequestsAt(pc'[c]) ELSE 0)
    BY <1>0, <1>3, <2>1 DEF JoinHolder, MapTypeOK, RefsAt, RequestsAt, Counts
  <2> QED
    BY <1>0, <2>1, <2>2, CountersFollow
<1>4. ASSUME NEW c \in Clients, TakeLock(c) PROVE MapTypeOK' /\ CountersExact'
  <2>1. MapTypeOK' /\ Others(c)
    BY <1>0, <1>4 DEF TakeLock, MapTypeOK, Pc
  <2>2. ASSUME NEW g \in Holders
        PROVE  /\ refs'[g] = (refs[g] - (IF holder[c] = g THEN RefsAt(pc[c]) ELSE 0))
                               + (IF holder'[c] = g THEN RefsAt(pc'[c]) ELSE 0)
               /\ lockCount'[g] = (lockCount[g] - (IF holder[c] = g THEN RequestsAt(pc[c]) ELSE 0))
                               + (IF holder'[c] = g THEN RequestsAt(pc'[c]) ELSE 0)
    BY <1>0, <1>4, <2>1 DEF TakeLock, MapTypeOK, RefsAt, RequestsAt, Counts
  <2> QED
    BY <1>0, <2>1, <2>2, CountersFollow
<1>5. ASSUME NEW c \in Clients, RegisterWaiter(c) PROVE MapTypeOK' /\ CountersExact'
  <2>1. MapTypeOK' /\ Others(c)
    BY <1>0, <1>5 DEF RegisterWaiter, MapTypeOK, Pc
  <2>2. ASSUME NEW g \in Holders
        PROVE  /\ refs'[g] = (refs[g] - (IF holder[c] = g THEN RefsAt(pc[c]) ELSE 0))
                               + (IF holder'[c] = g THEN RefsAt(pc'[c]) ELSE 0)
               /\ lockCount'[g] = (lockCount[g] - (IF holder[c] = g THEN RequestsAt(pc[c]) ELSE 0))
                               + (IF holder'[c] = g THEN RequestsAt(pc'[c]) ELSE 0)
    BY <1>0, <1>5, <2>1 DEF RegisterWaiter, MapTypeOK, RefsAt, RequestsAt, Counts
  <2> QED
    BY <1>0, <2>1, <2>2, CountersFollow
<1>6. ASSUME NEW c \in Clients, CreateTransaction(c) PROVE MapTypeOK' /\ CountersExact'
  <2>1. MapTypeOK' /\ Others(c)
    BY <1>0, <1>6 DEF CreateTransaction, MapTypeOK, Pc
  <2>2. ASSUME NEW g \in Holders
        PROVE  /\ refs'[g] = (refs[g] - (IF holder[c] = g THEN RefsAt(pc[c]) ELSE 0))
                               + (IF holder'[c] = g THEN RefsAt(pc'[c]) ELSE 0)
               /\ lockCount'[g] = (lockCount[g] - (IF holder[c] = g THEN RequestsAt(pc[c]) ELSE 0))
                               + (IF holder'[c] = g THEN RequestsAt(pc'[c]) ELSE 0)
    BY <1>0, <1>6, <2>1 DEF CreateTransaction, MapTypeOK, RefsAt, RequestsAt, Counts
  <2> QED
    BY <1>0, <2>1, <2>2, CountersFollow
<1>7. ASSUME NEW c \in Clients, Return(c) PROVE MapTypeOK' /\ CountersExact'
  <2>1. MapTypeOK' /\ Others(c)
    BY <1>0, <1>7 DEF Return, RemoveRef, MapTypeOK, Pc
  <2>2. ASSUME NEW g \in Holders
        PROVE  /\ refs'[g] = (refs[g] - (IF holder[c] = g THEN RefsAt(pc[c]) ELSE 0))
                               + (IF holder'[c] = g THEN RefsAt(pc'[c]) ELSE 0)
               /\ lockCount'[g] = (lockCount[g] - (IF holder[c] = g THEN RequestsAt(pc[c]) ELSE 0))
                               + (IF holder'[c] = g THEN RequestsAt(pc'[c]) ELSE 0)
    BY <1>0, <1>7, <2>1 DEF Return, RemoveRef, MapTypeOK, RefsAt, RequestsAt, Counts
  <2> QED
    BY <1>0, <2>1, <2>2, CountersFollow
<1>8. ASSUME NEW c \in Clients, GiveUp(c) PROVE MapTypeOK' /\ CountersExact'
  <2>1. MapTypeOK' /\ Others(c)
    BY <1>0, <1>8 DEF GiveUp, RemoveRef, MapTypeOK, Pc
  <2>2. ASSUME NEW g \in Holders
        PROVE  /\ refs'[g] = (refs[g] - (IF holder[c] = g THEN RefsAt(pc[c]) ELSE 0))
                               + (IF holder'[c] = g THEN RefsAt(pc'[c]) ELSE 0)
               /\ lockCount'[g] = (lockCount[g] - (IF holder[c] = g THEN RequestsAt(pc[c]) ELSE 0))
                               + (IF holder'[c] = g THEN RequestsAt(pc'[c]) ELSE 0)
    BY <1>0, <1>8, <2>1 DEF GiveUp, RemoveRef, MapTypeOK, RefsAt, RequestsAt, Counts
  <2> QED
    BY <1>0, <2>1, <2>2, CountersFollow
<1>9. ASSUME NEW c \in Clients, CancelWaiter(c) PROVE MapTypeOK' /\ CountersExact'
  <2>1. MapTypeOK' /\ Others(c)
    <3>1. PICK i \in 1..Len(queue[holder[c]]) :
            queue' = [queue EXCEPT ![holder[c]] = RemoveAt(queue[holder[c]], i)]
      BY <1>9 DEF CancelWaiter
    <3>2. queue[holder[c]] \in Seq(Coros)
      BY <1>0, <1>9 DEF CancelWaiter, MapTypeOK
    <3>3. RemoveAt(queue[holder[c]], i) \in Seq(Coros)
      BY <3>2, UnlinkFacts
    <3>4. queue' \in [Holders -> Seq(Coros)]
      BY <1>0, <3>1, <3>3 DEF MapTypeOK
    <3> QED
      BY <1>0, <1>9, <3>4 DEF CancelWaiter, MapTypeOK, Pc
  <2>2. ASSUME NEW g \in Holders
        PROVE  /\ refs'[g] = (refs[g] - (IF holder[c] = g THEN RefsAt(pc[c]) ELSE 0))
                               + (IF holder'[c] = g THEN RefsAt(pc'[c]) ELSE 0)
               /\ lockCount'[g] = (lockCount[g] - (IF holder[c] = g THEN RequestsAt(pc[c]) ELSE 0))
                               + (IF holder'[c] = g THEN RequestsAt(pc'[c]) ELSE 0)
    BY <1>0, <1>9, <2>1 DEF CancelWaiter, MapTypeOK, RefsAt, RequestsAt, Counts
  <2> QED
    BY <1>0, <2>1, <2>2, CountersFollow
<1>10. ASSUME NEW c \in Clients, CancelCount(c) PROVE MapTypeOK' /\ CountersExact'
  <2>1. MapTypeOK' /\ Others(c)
    BY <1>0, <1>10 DEF CancelCount, MapTypeOK, Pc
  <2>2. ASSUME NEW g \in Holders
        PROVE  /\ refs'[g] = (refs[g] - (IF holder[c] = g THEN RefsAt(pc[c]) ELSE 0))
                               + (IF holder'[c] = g THEN RefsAt(pc'[c]) ELSE 0)
               /\ lockCount'[g] = (lockCount[g] - (IF holder[c] = g THEN RequestsAt(pc[c]) ELSE 0))
                               + (IF holder'[c] = g THEN RequestsAt(pc'[c]) ELSE 0)
    BY <1>0, <1>10, <2>1 DEF CancelCount, MapTypeOK, RefsAt, RequestsAt, Counts
  <2> QED
    BY <1>0, <2>1, <2>2, CountersFollow
<1>11. ASSUME NEW c \in Clients, CloseCount(c) PROVE MapTypeOK' /\ CountersExact'
  <2>1. MapTypeOK' /\ Others(c)
    BY <1>0, <1>11 DEF CloseCount, MapTypeOK, Pc
  <2>2. ASSUME NEW g \in Holders
        PROVE  /\ refs'[g] = (refs[g] - (IF holder[c] = g THEN RefsAt(pc[c]) ELSE 0))
                               + (IF holder'[c] = g THEN RefsAt(pc'[c]) ELSE 0)
               /\ lockCount'[g] = (lockCount[g] - (IF holder[c] = g THEN RequestsAt(pc[c]) ELSE 0))
                               + (IF holder'[c] = g THEN RequestsAt(pc'[c]) ELSE 0)
    BY <1>0, <1>11, <2>1 DEF CloseCount, MapTypeOK, RefsAt, RequestsAt, Counts
  <2> QED
    BY <1>0, <2>1, <2>2, CountersFollow
<1>12. ASSUME NEW c \in Clients, CloseRelease(c) PROVE MapTypeOK' /\ CountersExact'
  <2>1. MapTypeOK' /\ Others(c)
    BY <1>0, <1>12 DEF CloseRelease, RemoveRef, MapTypeOK, Pc
  <2>2. ASSUME NEW g \in Holders
        PROVE  /\ refs'[g] = (refs[g] - (IF holder[c] = g THEN RefsAt(pc[c]) ELSE 0))
                               + (IF holder'[c] = g THEN RefsAt(pc'[c]) ELSE 0)
               /\ lockCount'[g] = (lockCount[g] - (IF holder[c] = g THEN RequestsAt(pc[c]) ELSE 0))
                               + (IF holder'[c] = g THEN RequestsAt(pc'[c]) ELSE 0)
    BY <1>0, <1>12, <2>1 DEF CloseRelease, RemoveRef, MapTypeOK, RefsAt, RequestsAt, Counts
  <2> QED
    BY <1>0, <2>1, <2>2, CountersFollow
<1>13. ASSUME NEW c \in Clients, CloseUnlock(c) PROVE MapTypeOK' /\ CountersExact'
  <2> DEFINE q == queue[holder[c]]
  <2>1. q \in Seq(Coros) /\ pc[c] = "closing" /\ holder[c] \in Holders
    BY <1>0, <1>13 DEF CloseUnlock, MapTypeOK
  <2>2. CASE q = <<>>
    <3>1. /\ owner' = [owner EXCEPT ![holder[c]] = None]
          /\ pc' = [pc EXCEPT ![c] = "unlocked"]
          /\ UNCHANGED <<queue, openMap, refs, hkey, lockCount, holder>>
      BY <1>13, <2>2 DEF CloseUnlock
    <3>2. MapTypeOK' /\ Others(c)
      BY <1>0, <3>1 DEF MapTypeOK, Pc
    <3>3. ASSUME NEW g \in Holders
          PROVE  /\ refs'[g] = (refs[g] - (IF holder[c] = g THEN RefsAt(pc[c]) ELSE 0))
                               + (IF holder'[c] = g THEN RefsAt(pc'[c]) ELSE 0)
                 /\ lockCount'[g] = (lockCount[g] - (IF holder[c] = g THEN RequestsAt(pc[c]) ELSE 0))
                               + (IF holder'[c] = g THEN RequestsAt(pc'[c]) ELSE 0)
      BY <1>0, <2>1, <3>1, <3>2 DEF MapTypeOK, RefsAt, RequestsAt, Counts
    <3> QED
      BY <1>0, <3>2, <3>3, CountersFollow
  <2>3. CASE q # <<>>
    <3>1. /\ owner' = [owner EXCEPT ![holder[c]] = Head(q)]
          /\ queue' = [queue EXCEPT ![holder[c]] = Tail(q)]
          /\ pc' = [pc EXCEPT ![c] = "unlocked", ![Head(q)] = "granted"]
          /\ UNCHANGED <<openMap, refs, hkey, lockCount, holder>>
      BY <1>13, <2>3 DEF CloseUnlock
    <3>2. Head(q) \in Coros /\ Tail(q) \in Seq(Coros) /\ Len(q) > 0 /\ Head(q) = q[1]
      BY <2>1, <2>3
    <3>3. pc[Head(q)] = "waiting" /\ Head(q) \in Clients
      BY <1>0, <2>1, <3>2 DEF LockExact, Clients
    <3>4. MapTypeOK'
      BY <1>0, <2>1, <3>1, <3>2, <3>3 DEF MapTypeOK, Pc, Clients
    <3>5. ASSUME NEW d \in Clients
          PROVE  /\ holder'[d] = holder[d]
                 /\ pc[d] # "idle" <=> pc'[d] # "idle"
                 /\ pc[d] = "returning" <=> pc'[d] = "returning"
                 /\ pc[d] \in Counts <=> pc'[d] \in Counts
      BY <1>0, <2>1, <3>1, <3>3 DEF MapTypeOK, Counts
    <3>6. ASSUME NEW g \in Holders
          PROVE  UsersAt(g)' = UsersAt(g) /\ ReturningAt(g)' = ReturningAt(g) /\ CountedAt(g)' = CountedAt(g)
      BY <1>0, <3>4, <3>5 DEF UsersAt, ReturningAt, CountedAt, ClientsAt, MapTypeOK
    <3>7. ASSUME NEW g \in Holders
          PROVE  /\ refs'[g] = Cardinality(UsersAt(g)') + Cardinality(ReturningAt(g)')
                 /\ lockCount'[g] = Cardinality(CountedAt(g)')
      BY <1>0, <3>1, <3>6, Zenon DEF CountersExact
    <3> QED
      BY <3>4, <3>7 DEF CountersExact
  <2> QED
    BY <2>2, <2>3
<1>14. ASSUME UNCHANGED mapVars PROVE MapTypeOK' /\ CountersExact'
  <2>1. MapTypeOK'
    BY <1>0, <1>14 DEF mapVars, MapTypeOK
  <2>2. ASSUME NEW g \in Holders
        PROVE  UsersAt(g)' = UsersAt(g) /\ ReturningAt(g)' = ReturningAt(g) /\ CountedAt(g)' = CountedAt(g)
    BY <1>14 DEF mapVars, UsersAt, ReturningAt, CountedAt, ClientsAt
  <2>3. refs' = refs /\ lockCount' = lockCount
    BY <1>14 DEF mapVars
  <2> QED
    BY <1>0, <2>1, <2>2, <2>3, Zenon DEF CountersExact
<1> QED
  BY <1>1, <1>2, <1>3, <1>4, <1>5, <1>6, <1>7, <1>8, <1>9, <1>10, <1>11, <1>12, <1>13, <1>14
  DEF MapNext, GetTransaction, Progress

\* Every step keeps the owner and the waiters of each lock_.
LEMMA LockStep ==
  ASSUME MapInv, MapTypeOK', [MapNext]_mapVars
  PROVE  LockExact'
<1> USE TransactionMapAssumption DEF LockExact, HasLock
<1>0. /\ MapTypeOK /\ LockExact
      /\ \A c \in Clients : pc[c] # "idle" => holder[c] \in Holders
      /\ \A h \in Holders : \A i \in 1..Len(queue[h]) : queue[h][i] \in Coros
      /\ \A k \in Keys : openMap[k] # None => openMap[k] \in Holders
  BY DEF MapInv, MapTypeOK
<1>1. ASSUME NEW c \in Clients, NEW k \in Keys, NEW h \in Holders, CreateHolder(c, k, h)
      PROVE  LockExact'
  <2>1. \A d \in Clients : pc[d] # "idle" => holder[d] # h
    BY <1>0, <1>1, UsersHaveRefs DEF MapInv, RefsWhileUsed, CreateHolder
  <2>2. /\ queue' = [queue EXCEPT ![h] = <<>>] /\ holder' = [holder EXCEPT ![c] = h]
        /\ pc[c] = "idle"
        /\ \/ /\ pc' = [pc EXCEPT ![c] = "returning"]
              /\ owner' = [owner EXCEPT ![h] = c]
           \/ /\ pc' = [pc EXCEPT ![c] = "locking"]
              /\ owner' = [owner EXCEPT ![h] = None]
    BY <1>1 DEF CreateHolder
  <2> QED
    BY <1>0, <2>1, <2>2, SMTT(30) DEF MapTypeOK, Clients
<1>2. ASSUME NEW c \in Clients, NEW k \in Keys, Reject(c, k) PROVE LockExact'
  BY <1>0, <1>2 DEF Reject, MapTypeOK, Clients
<1>3. ASSUME NEW c \in Clients, NEW k \in Keys, JoinHolder(c, k) PROVE LockExact'
  BY <1>0, <1>3 DEF JoinHolder, MapTypeOK, Clients
<1>4. ASSUME NEW c \in Clients, TakeLock(c) PROVE LockExact'
  BY <1>0, <1>4 DEF TakeLock, MapTypeOK, Clients
<1>5. ASSUME NEW c \in Clients, RegisterWaiter(c) PROVE LockExact'
  BY <1>0, <1>5 DEF RegisterWaiter, MapTypeOK, Clients
<1>6. ASSUME NEW c \in Clients, CreateTransaction(c) PROVE LockExact'
  BY <1>0, <1>6 DEF CreateTransaction, MapTypeOK, Clients
<1>7. ASSUME NEW c \in Clients, Return(c) PROVE LockExact'
  BY <1>0, <1>7 DEF Return, RemoveRef, MapTypeOK, Clients
<1>8. ASSUME NEW c \in Clients, GiveUp(c) PROVE LockExact'
  BY <1>0, <1>8 DEF GiveUp, RemoveRef, MapTypeOK, Clients
<1>9. ASSUME NEW c \in Clients, CancelWaiter(c) PROVE LockExact'
  <2>0. PICK h \in Holders, q \in Seq(Coros) : h = holder[c] /\ q = queue[h]
    BY <1>0, <1>9 DEF CancelWaiter, MapTypeOK
  <2>1. /\ pc[c] = "waiting" /\ pc' = [pc EXCEPT ![c] = "unlinked"]
        /\ UNCHANGED <<owner, holder>>
    BY <1>9 DEF CancelWaiter
  <2>2. PICK i \in 1..Len(q) : q[i] = c /\ queue' = [queue EXCEPT ![h] = RemoveAt(q, i)]
    BY <1>9, <2>0 DEF CancelWaiter
  <2>3. PICK r : r = RemoveAt(q, i)
    OBVIOUS
  <2>4. /\ r \in Seq(Coros) /\ Len(r) = Len(q) - 1
        /\ \A j \in 1..Len(q) - 1 : r[j] = IF j < i THEN q[j] ELSE q[j + 1]
    BY <2>3, UnlinkFacts
  <2>5. queue'[h] = r /\ \A g \in Holders \ {h} : queue'[g] = queue[g]
    BY <1>0, <2>2, <2>3 DEF MapTypeOK
  <2>6. ASSUME NEW j \in 1..Len(r)
        PROVE  /\ pc'[r[j]] = "waiting" /\ holder'[r[j]] = h
               /\ \A m \in 1..Len(r) : r[j] = r[m] => j = m
    <3>1. \A a, b \in 1..Len(q) : q[a] = q[b] => a = b
      BY <1>0, <2>0
    <3>2. \A m \in 1..Len(r) :
            \E l \in 1..Len(q) : l = (IF m < i THEN m ELSE m + 1) /\ r[m] = q[l] /\ l # i
      <4>1. SUFFICES ASSUME NEW m \in 1..Len(r)
                     PROVE  \E l \in 1..Len(q) :
                              l = (IF m < i THEN m ELSE m + 1) /\ r[m] = q[l] /\ l # i
        OBVIOUS
      <4>2. Len(q) \in Nat /\ m \in 1..Len(q) - 1 /\ m \in Int /\ i \in Int
        BY <2>4
      <4>3. r[m] = IF m < i THEN q[m] ELSE q[m + 1]
        BY <2>4, <4>2
      <4>4. CASE m < i
        BY <4>2, <4>3, <4>4
      <4>5. CASE ~(m < i)
        BY <4>2, <4>3, <4>5
      <4> QED BY <4>4, <4>5
    <3>3. PICK l \in 1..Len(q) : l = (IF j < i THEN j ELSE j + 1) /\ r[j] = q[l] /\ l # i
      BY <3>2
    <3>4. q[l] # c
      BY <2>2, <3>1, <3>3
    <3>5. pc[q[l]] = "waiting" /\ holder[q[l]] = h /\ q[l] \in Clients
      BY <1>0, <2>0, <3>3 DEF Clients
    <3>6. ASSUME NEW m \in 1..Len(r), r[j] = r[m] PROVE j = m
      <4>1. PICK n \in 1..Len(q) : n = (IF m < i THEN m ELSE m + 1) /\ r[m] = q[n]
        BY <3>2
      <4>2. l = n
        BY <3>1, <3>3, <3>6, <4>1
      <4> QED
        BY <2>4, <3>3, <4>1, <4>2
    <3> QED
      BY <1>0, <2>1, <3>3, <3>4, <3>5, <3>6 DEF MapTypeOK
  <2>7. ASSUME NEW g \in Holders \ {h}, NEW j \in 1..Len(queue[g])
        PROVE  /\ pc'[queue[g][j]] = "waiting" /\ holder'[queue[g][j]] = g
               /\ \A m \in 1..Len(queue[g]) : queue[g][j] = queue[g][m] => j = m
    <3>1. queue[g][j] # c /\ queue[g][j] \in Clients
      BY <1>0, <2>0, <2>7 DEF Clients
    <3> QED
      BY <1>0, <2>1, <2>7, <3>1, SMTT(30) DEF MapTypeOK
  <2>8. ASSUME NEW g \in Holders, NEW j \in 1..Len(queue'[g])
        PROVE  /\ pc'[queue'[g][j]] = "waiting" /\ holder'[queue'[g][j]] = g
               /\ \A m \in 1..Len(queue'[g]) : queue'[g][j] = queue'[g][m] => j = m
    <3>1. CASE g = h
      BY <2>5, <2>6, <2>8, <3>1
    <3>2. CASE g # h
      BY <2>5, <2>7, <2>8, <3>2
    <3> QED
      BY <3>1, <3>2
  <2>9. /\ \A d \in Clients : pc'[d] = "idle" <=> holder'[d] = None
        /\ \A g \in Holders, d \in Clients :
             owner'[g] = d <=> holder'[d] = g /\ pc'[d] \in {"granted", "returning", "open", "closing"}
    BY <1>0, <2>1 DEF MapTypeOK
  <2> QED
    BY <2>8, <2>9
<1>10. ASSUME NEW c \in Clients, CancelCount(c) PROVE LockExact'
  BY <1>0, <1>10 DEF CancelCount, MapTypeOK, Clients
<1>11. ASSUME NEW c \in Clients, CloseCount(c) PROVE LockExact'
  BY <1>0, <1>11 DEF CloseCount, MapTypeOK, Clients
<1>12. ASSUME NEW c \in Clients, CloseRelease(c) PROVE LockExact'
  BY <1>0, <1>12 DEF CloseRelease, RemoveRef, MapTypeOK, Clients
<1>13. ASSUME NEW c \in Clients, CloseUnlock(c) PROVE LockExact'
  <2>0. PICK h \in Holders, q \in Seq(Coros) : h = holder[c] /\ q = queue[h]
    BY <1>0, <1>13 DEF CloseUnlock, MapTypeOK
  <2>1. pc[c] = "closing" /\ owner[h] = c
    BY <1>0, <1>13, <2>0 DEF CloseUnlock
  <2>2. CASE q = <<>>
    <3>1. /\ owner' = [owner EXCEPT ![h] = None]
          /\ pc' = [pc EXCEPT ![c] = "unlocked"]
          /\ UNCHANGED <<queue, holder>>
      BY <1>13, <2>0, <2>2 DEF CloseUnlock
    <3> QED
      BY <1>0, <2>0, <2>1, <3>1, SMTT(30) DEF MapTypeOK, Clients
  <2>3. CASE q # <<>>
    <3>1. /\ owner' = [owner EXCEPT ![h] = Head(q)]
          /\ queue' = [queue EXCEPT ![h] = Tail(q)]
          /\ pc' = [pc EXCEPT ![c] = "unlocked", ![Head(q)] = "granted"]
          /\ holder' = holder
      BY <1>13, <2>0, <2>3 DEF CloseUnlock
    <3>2. PICK e \in Coros, r \in Seq(Coros) :
            /\ e = Head(q) /\ r = Tail(q) /\ e = q[1] /\ Len(q) >= 1 /\ Len(r) = Len(q) - 1
            /\ \A j \in 1..Len(r) : r[j] = q[j + 1]
      <4>1. /\ Head(q) \in Coros /\ Tail(q) \in Seq(Coros)
            /\ Head(q) = q[1] /\ Len(q) >= 1 /\ Len(Tail(q)) = Len(q) - 1
        BY <2>3
      <4>2. \A j \in 1..Len(Tail(q)) : Tail(q)[j] = q[j + 1]
        BY <2>3
      <4> QED
        BY <4>1, <4>2
    <3>3. e \in Clients /\ pc[e] = "waiting" /\ holder[e] = h /\ e # c
      BY <1>0, <2>0, <2>1, <3>2 DEF Clients
    <3>4. /\ queue'[h] = r /\ \A g \in Holders \ {h} : queue'[g] = queue[g]
      BY <1>0, <3>1, <3>2 DEF MapTypeOK
    <3>5. /\ pc'[c] = "unlocked" /\ pc'[e] = "granted"
          /\ \A d \in Clients \ {c, e} : pc'[d] = pc[d]
      BY <1>0, <3>1, <3>2, <3>3 DEF MapTypeOK
    <3>6. /\ owner'[h] = e /\ \A g \in Holders \ {h} : owner'[g] = owner[g]
      BY <1>0, <3>1, <3>2 DEF MapTypeOK
    <3>7. ASSUME NEW d \in Clients PROVE pc'[d] = "idle" <=> holder'[d] = None
      <4>1. holder'[d] = holder[d] /\ (pc[d] = "idle" <=> holder[d] = None)
        BY <1>0, <3>1
      <4>2. CASE d \in {c, e}
        BY <2>1, <3>3, <3>5, <4>1, <4>2
      <4>3. CASE d \notin {c, e}
        BY <3>5, <4>1, <4>3
      <4> QED
        BY <4>2, <4>3
    <3>8. ASSUME NEW g \in Holders, NEW d \in Clients
          PROVE  owner'[g] = d <=> holder'[d] = g /\ pc'[d] \in {"granted", "returning", "open", "closing"}
      <4>1. holder'[d] = holder[d] /\ (owner[g] = d <=> holder[d] = g /\ pc[d] \in HasLock)
        BY <1>0, <3>1
      <4>2. CASE d = c
        BY <2>0, <2>1, <3>3, <3>5, <3>6, <4>1, <4>2
      <4>3. CASE d = e
        BY <3>3, <3>5, <3>6, <4>1, <4>3
      <4>4. CASE d \notin {c, e}
        BY <2>1, <3>5, <3>6, <4>1, <4>4
      <4> QED
        BY <4>2, <4>3, <4>4
    <3>9. ASSUME NEW g \in Holders, NEW j \in 1..Len(queue'[g])
          PROVE  /\ pc'[queue'[g][j]] = "waiting" /\ holder'[queue'[g][j]] = g
                 /\ \A m \in 1..Len(queue'[g]) : queue'[g][j] = queue'[g][m] => j = m
      <4>1. CASE g = h
        <5>1. \A a, b \in 1..Len(q) : q[a] = q[b] => a = b
          BY <1>0, <2>0, SMTT(30)
        <5>2. j \in 1..Len(r) /\ queue'[g] = r
          BY <3>4, <3>9, <4>1
        <5>3. /\ j + 1 \in 1..Len(q) /\ r[j] = q[j + 1]
              /\ \A m \in 1..Len(r) : m + 1 \in 1..Len(q) /\ r[m] = q[m + 1]
          BY <3>2, <5>2
        <5>4. pc[q[j + 1]] = "waiting" /\ holder[q[j + 1]] = h /\ q[j + 1] \in Clients
          BY <1>0, <2>0, <5>3 DEF Clients
        <5>5. q[j + 1] # e
          <6>1. 1 \in 1..Len(q) /\ j + 1 # 1
            BY <3>2, <5>2
          <6> QED
            BY <3>2, <5>1, <5>3, <6>1
        <5>6. ASSUME NEW m \in 1..Len(r), r[j] = r[m] PROVE j = m
          <6>1. j + 1 = m + 1
            BY <5>1, <5>3, <5>6
          <6> QED
            BY <5>2, <5>6, <6>1
        <5>7. pc'[r[j]] = "waiting" /\ holder'[r[j]] = h
          BY <2>1, <3>1, <3>5, <5>3, <5>4, <5>5
        <5> QED
          BY <4>1, <5>2, <5>6, <5>7
      <4>2. CASE g # h
        <5>1. queue'[g] = queue[g] /\ j \in 1..Len(queue[g])
          BY <3>4, <3>9, <4>2
        <5>2. /\ queue[g][j] \in Clients /\ queue[g][j] # e /\ queue[g][j] # c
              /\ pc[queue[g][j]] = "waiting" /\ holder[queue[g][j]] = g
          BY <1>0, <2>1, <3>3, <4>2, <5>1 DEF Clients
        <5>3. \A m \in 1..Len(queue[g]) : queue[g][j] = queue[g][m] => j = m
          BY <1>0, <5>1
        <5> QED
          BY <3>1, <3>5, <5>1, <5>2, <5>3
      <4> QED
        BY <4>1, <4>2
    <3> QED
      BY <3>7, <3>8, <3>9
  <2> QED
    BY <2>2, <2>3
<1>14. ASSUME UNCHANGED mapVars PROVE LockExact'
  BY <1>0, <1>14 DEF mapVars
<1> QED
  BY <1>1, <1>2, <1>3, <1>4, <1>5, <1>6, <1>7, <1>8, <1>9, <1>10, <1>11, <1>12, <1>13, <1>14
  DEF MapNext, GetTransaction, Progress

\* What the entries of the map and the holders in use say of each other.
Entries ==
  /\ \A k \in Keys : openMap[k] # None => refs[openMap[k]] > 0 /\ hkey[openMap[k]] = k
  /\ \A h \in Holders : refs[h] > 0 => openMap[hkey[h]] = h

\* Every step keeps the entries: the holder that an action creates is in nobody's
\* use, and the one that it erases is used by nobody else.
LEMMA EntriesStep ==
  ASSUME MapInv, MapTypeOK', [MapNext]_mapVars
  PROVE  Entries'
<1> USE TransactionMapAssumption DEF Entries
<1>0. /\ MapTypeOK /\ Entries
      /\ \A c \in Clients : pc[c] # "idle" => holder[c] \in Holders /\ refs[holder[c]] > 0
      /\ \A k \in Keys : openMap[k] # None => openMap[k] \in Holders
  BY DEF MapInv, MapTypeOK, LockExact, HolderInMap, NoHolderLeak
<1>1. ASSUME NEW h \in Holders, refs[h] > 0, RemoveRef(h), hkey' = hkey PROVE Entries'
  <2>1. CASE refs[h] = 1
    <3>1. /\ refs' = [refs EXCEPT ![h] = 0] /\ openMap' = [openMap EXCEPT ![hkey[h]] = None]
      BY <1>0, <1>1, <2>1 DEF RemoveRef, MapTypeOK
    <3>2. /\ refs'[h] = 0 /\ openMap'[hkey[h]] = None
          /\ \A g \in Holders \ {h} : refs'[g] = refs[g]
          /\ \A k \in Keys \ {hkey[h]} : openMap'[k] = openMap[k]
      BY <1>0, <3>1 DEF MapTypeOK
    <3>3. ASSUME NEW k \in Keys, openMap'[k] # None
          PROVE  refs'[openMap'[k]] > 0 /\ hkey[openMap'[k]] = k
      BY <1>0, <3>2, <3>3
    <3>4. ASSUME NEW g \in Holders, refs'[g] > 0 PROVE openMap'[hkey[g]] = g
      <4>1. g # h
        BY <3>2, <3>4
      <4>2. openMap[hkey[g]] = g /\ openMap[hkey[h]] = h /\ hkey[g] \in Keys
        BY <1>0, <1>1, <3>2, <3>4, <4>1 DEF MapTypeOK
      <4> QED
        BY <3>2, <4>1, <4>2
    <3> QED
      BY <1>1, <3>3, <3>4
  <2>2. CASE refs[h] # 1
    <3>1. refs' = [refs EXCEPT ![h] = refs[h] - 1] /\ openMap' = openMap /\ refs[h] - 1 > 0
      BY <1>0, <1>1, <2>2 DEF RemoveRef, MapTypeOK
    <3> QED
      BY <1>0, <1>1, <3>1 DEF MapTypeOK
  <2> QED
    BY <2>1, <2>2
<1>2. ASSUME NEW h \in Holders, refs[h] > 0, refs' = [refs EXCEPT ![h] = @ + 1],
             UNCHANGED <<openMap, hkey>>
      PROVE  Entries'
  BY <1>0, <1>2 DEF MapTypeOK
<1>3. ASSUME UNCHANGED <<openMap, refs, hkey>> PROVE Entries'
  BY <1>0, <1>3
<1>4. ASSUME NEW c \in Clients, NEW k \in Keys, NEW h \in Holders, CreateHolder(c, k, h)
      PROVE  Entries'
  <2>1. /\ openMap[k] = None /\ refs[h] = 0
        /\ openMap' = [openMap EXCEPT ![k] = h] /\ hkey' = [hkey EXCEPT ![h] = k]
        /\ \E n \in {1, 2} : refs' = [refs EXCEPT ![h] = n]
    BY <1>4 DEF CreateHolder
  <2> QED
    BY <1>0, <2>1 DEF MapTypeOK
<1>5. ASSUME NEW c \in Clients, NEW k \in Keys, Reject(c, k) \/ JoinHolder(c, k) PROVE Entries'
  BY <1>0, <1>2, <1>5 DEF Reject, JoinHolder
<1>6. ASSUME NEW c \in Clients, CreateTransaction(c) PROVE Entries'
  BY <1>0, <1>2, <1>6 DEF CreateTransaction
<1>7. ASSUME NEW c \in Clients, Return(c) \/ GiveUp(c) \/ CloseRelease(c) PROVE Entries'
  BY <1>0, <1>1, <1>7 DEF Return, GiveUp, CloseRelease
<1>8. ASSUME NEW c \in Clients, \/ TakeLock(c) \/ RegisterWaiter(c) \/ CancelWaiter(c)
                               \/ CancelCount(c) \/ CloseCount(c) \/ CloseUnlock(c)
      PROVE  Entries'
  BY <1>3, <1>8 DEF TakeLock, RegisterWaiter, CancelWaiter, CancelCount, CloseCount, CloseUnlock
<1>9. ASSUME UNCHANGED mapVars PROVE Entries'
  BY <1>3, <1>9 DEF mapVars
<1> QED
  BY <1>4, <1>5, <1>6, <1>7, <1>8, <1>9 DEF MapNext, GetTransaction, Progress

\* The parts of the invariant that follow from the others: whose lock it is and
\* which holder the map has leave one transaction per key.
LEMMA MapInvFromParts ==
  MapTypeOK /\ CountersExact /\ LockExact /\ Entries => MapInv
<1> SUFFICES ASSUME MapTypeOK, CountersExact, LockExact, Entries PROVE MapInv
  OBVIOUS
<1> USE TransactionMapAssumption
<1>1. RefsWhileUsed
  BY UsersHaveRefs
<1>2. HolderInMap
  BY <1>1 DEF RefsWhileUsed, HolderInMap, Entries, LockExact, MapTypeOK
<1>3. NoHolderLeak
  BY <1>1 DEF RefsWhileUsed, NoHolderLeak, Entries
<1>4. OneTransactionPerKey
  <2> SUFFICES ASSUME NEW c \in Clients, NEW d \in Clients, pc[c] \in HasLock, pc[d] \in HasLock,
                      hkey[holder[c]] = hkey[holder[d]]
               PROVE  c = d
    BY DEF OneTransactionPerKey
  <2>1. pc[c] # "idle" /\ pc[d] # "idle"
    BY DEF HasLock
  <2>2. holder[c] = holder[d] /\ holder[c] \in Holders
    BY <1>2, <2>1 DEF HolderInMap, LockExact, MapTypeOK
  <2>3. owner[holder[c]] = c /\ owner[holder[c]] = d
    BY <2>2 DEF LockExact
  <2> QED
    BY <2>3
<1> QED
  BY <1>2, <1>3, <1>4 DEF MapInv

\* Every step of the map keeps its invariant.
LEMMA MapStep == MapInv /\ [MapNext]_mapVars => MapInv'
<1> SUFFICES ASSUME MapInv, [MapNext]_mapVars PROVE MapInv'
  OBVIOUS
<1>1. MapTypeOK' /\ CountersExact'
  BY CountersStep
<1>2. LockExact'
  BY <1>1, LockStep
<1>3. Entries'
  BY <1>1, EntriesStep
<1>4. (MapTypeOK /\ CountersExact /\ LockExact /\ Entries => MapInv)'
  BY MapInvFromParts, PTL
<1> QED
  BY <1>1, <1>2, <1>3, <1>4

\* A step of the profile map is a step of the transaction map or leaves it alone.
LEMMA NextIsMapNext == [Next]_vars => [MapNext]_mapVars
BY DEF Next, vars, UserStep, GetProfile, SaveProfile, SaveProfileAsync, SaveUnread, RemoveProfile,
       Release,
       BaseApply, Callback, Close, MapNext

\* Only one transaction exists for a key, and holders, locks and counters of the
\* map fit, whatever transactions, waiters and destroyed coroutines do.
THEOREM MapCorrect == Spec => []MapInv
<1>1. Init => MapInv
  BY MapInvInit DEF Init
<1>2. MapInv /\ [Next]_vars => MapInv'
  BY MapStep, NextIsMapNext
<1> QED
  BY <1>1, <1>2, PTL DEF Spec

\* The map moves nobody out of a transaction that its user has open, and leaves
\* the transaction's key alone.
LEMMA OpenStays ==
  ASSUME MapInv, NEW b \in Clients, GetTransaction(b) \/ Progress(b) \/ CancelWaiter(b),
         NEW c \in Clients, pc[c] = "open"
  PROVE  pc'[c] = "open" /\ Key(c)' = Key(c)
<1> USE TransactionMapAssumption DEF Key
<1>0. /\ MapTypeOK /\ holder[c] \in Holders /\ refs[holder[c]] > 0
      /\ \A h \in Holders : \A i \in 1..Len(queue[h]) : pc[queue[h][i]] = "waiting"
  BY DEF MapInv, MapTypeOK, LockExact, HolderInMap
<1>1. ASSUME NEW k \in Keys, NEW h \in Holders, CreateHolder(b, k, h)
      PROVE pc'[c] = "open" /\ Key(c)' = Key(c)
  <2>1. b # c /\ holder[c] # h
    BY <1>0, <1>1 DEF CreateHolder
  <2> QED
    BY <1>0, <1>1, <2>1 DEF CreateHolder, MapTypeOK
<1>2. ASSUME NEW k \in Keys, Reject(b, k) \/ JoinHolder(b, k)
      PROVE pc'[c] = "open" /\ Key(c)' = Key(c)
  BY <1>0, <1>2 DEF Reject, JoinHolder, MapTypeOK
<1>3. ASSUME CloseUnlock(b) PROVE pc'[c] = "open" /\ Key(c)' = Key(c)
  <2>1. pc[b] = "closing" /\ UNCHANGED <<hkey, holder>>
    BY <1>3 DEF CloseUnlock
  <2>2. CASE queue[holder[b]] = <<>>
    BY <1>0, <1>3, <2>1, <2>2 DEF CloseUnlock, MapTypeOK
  <2>3. CASE queue[holder[b]] # <<>>
    <3>1. holder[b] \in Holders
      BY <2>1 DEF MapInv, LockExact, MapTypeOK
    <3>2. PICK q \in Seq(Coros) : q = queue[holder[b]]
      BY <1>0, <3>1 DEF MapTypeOK
    <3>3. Head(q) = q[1] /\ 1 \in 1..Len(q)
      BY <2>3, <3>2
    <3>4. Head(q) # c
      BY <1>0, <3>1, <3>2, <3>3
    <3>5. pc' = [pc EXCEPT ![b] = "unlocked", ![Head(q)] = "granted"]
      BY <1>3, <2>3, <3>2 DEF CloseUnlock
    <3> QED
      BY <1>0, <2>1, <3>4, <3>5 DEF MapTypeOK
  <2> QED
    BY <2>2, <2>3
<1>4. ASSUME \/ TakeLock(b) \/ RegisterWaiter(b) \/ CreateTransaction(b) \/ Return(b) \/ GiveUp(b)
             \/ CancelCount(b) \/ CloseRelease(b) \/ CancelWaiter(b)
      PROVE  pc'[c] = "open" /\ Key(c)' = Key(c)
  BY <1>0, <1>4 DEF TakeLock, RegisterWaiter, CreateTransaction, Return, GiveUp, CancelCount,
                    CloseRelease, CancelWaiter, MapTypeOK
<1> QED
  BY <1>1, <1>2, <1>3, <1>4 DEF GetTransaction, Progress

\* Init establishes what a transaction promises.
LEMMA ProfileInit == Init => ProfileInv
<1> SUFFICES ASSUME Init PROVE ProfileInv
  OBVIOUS
<1>1. MapTypeOK
  BY MapInvInit DEF Init, MapInv
<1> QED
  BY <1>1 DEF Init, ProfileInv, TypeOK, Isolation, AppliedUnderTransaction, Stage, Op

\* Every step keeps what a transaction promises: only the client that has the
\* key's transaction has an operation for it, and it cannot be closed meanwhile.
LEMMA ProfileStep == MapInv /\ MapInv' /\ ProfileInv /\ [Next]_vars => ProfileInv'
<1> SUFFICES ASSUME MapInv, MapTypeOK', ProfileInv, [Next]_vars PROVE ProfileInv'
  BY DEF MapInv
<1> USE TransactionMapAssumption
      DEF ProfileInv, TypeOK, Isolation, AppliedUnderTransaction, Stage, Op
<1>0. /\ \A c \in Clients : pc[c] = "open" => Key(c) \in Keys
      /\ \A c, d \in Clients : c # d /\ pc[c] = "open" /\ pc[d] = "open" => Key(c) # Key(d)
  BY DEF MapInv, MapTypeOK, LockExact, OneTransactionPerKey, HasLock, Key
<1>1. mapVars' = mapVars => \A c \in Clients : Key(c)' = Key(c) /\ pc'[c] = pc[c]
  BY DEF Key, mapVars
<1>2. ASSUME NEW c \in Clients, GetProfile(c) PROVE ProfileInv'
  BY <1>0, <1>1, <1>2 DEF GetProfile
<1>3. ASSUME NEW c \in Clients, SaveProfile(c) PROVE ProfileInv'
  BY <1>0, <1>1, <1>3 DEF SaveProfile
<1>4. ASSUME NEW c \in Clients, SaveProfileAsync(c) PROVE ProfileInv'
  BY <1>0, <1>1, <1>4 DEF SaveProfileAsync
<1>5. ASSUME NEW c \in Clients, RemoveProfile(c) \/ SaveUnread(c) PROVE ProfileInv'
  BY <1>0, <1>1, <1>5 DEF RemoveProfile, SaveUnread
<1>6. ASSUME NEW c \in Clients, Release(c) PROVE ProfileInv'
  BY <1>0, <1>1, <1>6 DEF Release
<1>7. ASSUME NEW c \in Clients, BaseApply(c) PROVE ProfileInv'
  BY <1>0, <1>1, <1>7 DEF BaseApply
<1>8. ASSUME NEW c \in Clients, Callback(c) PROVE ProfileInv'
  BY <1>0, <1>1, <1>8 DEF Callback
<1>9. ASSUME NEW c \in Clients, Close(c) PROVE ProfileInv'
  BY <1>0, <1>9 DEF Close, CloseCount, MapTypeOK, Key
<1>10. ASSUME NEW c \in Clients, GetTransaction(c) \/ Progress(c) \/ CancelWaiter(c),
              UNCHANGED profileVars
       PROVE  ProfileInv'
  <2>1. \A d \in Clients : pc[d] = "open" => pc'[d] = "open" /\ Key(d)' = Key(d)
    BY <1>10, OpenStays
  <2> QED
    BY <1>10, <2>1 DEF profileVars
<1>11. ASSUME UNCHANGED vars PROVE ProfileInv'
  BY <1>1, <1>11 DEF vars, profileVars
<1> QED
  BY <1>2, <1>3, <1>4, <1>5, <1>6, <1>7, <1>8, <1>9, <1>10, <1>11 DEF Next, UserStep

\* What a transaction has read stays what the base map holds until the
\* transaction's own operation, and every operation is applied while its
\* transaction is open, also after save_profile_async().
THEOREM ProfilesIsolated == Spec => []ProfileInv
<1>1. Init => ProfileInv
  BY ProfileInit
<1>2. MapInv /\ MapInv' /\ ProfileInv /\ [Next]_vars => ProfileInv'
  BY ProfileStep
<1> QED
  BY <1>1, <1>2, MapCorrect, PTL DEF Spec

\* No update is lost: the profile map implements read-modify-writes that are
\* single steps on the base map's profiles.
THEOREM UpdatesAtomic == Spec => NoLostUpdate
<1>1. Init => Atomic!ProfilesInit
  BY DEF Init, Atomic!ProfilesInit
<1>2. ASSUME MapInv, ProfileInv, [Next]_vars PROVE [Atomic!ProfilesNext]_db
  <2>1. ASSUME NEW c \in Clients, BaseApply(c) PROVE [Atomic!ProfilesNext]_db
    <3>1. Key(c) \in Keys
      <4>1. op[c] # "none"
        BY <2>1 DEF BaseApply
      <4>2. pc[c] = "open"
        BY <1>2, <4>1 DEF ProfileInv, AppliedUnderTransaction
      <4> QED
        BY <1>2, <4>2, TransactionMapAssumption DEF MapInv, MapTypeOK, LockExact, Key
    <3>2. CASE op[c] = "save" /\ db' = [db EXCEPT ![Key(c)] = profile[c]]
      <4>1. profile[c] = db[Key(c)] \cup {c}
        BY <1>2, <3>2 DEF ProfileInv, AppliedUnderTransaction
      <4>2. Atomic!Update(Key(c), c)
        BY <3>2, <4>1 DEF Atomic!Update
      <4> QED
        BY <3>1, <4>2 DEF Atomic!ProfilesNext
    <3>3. CASE db' = [db EXCEPT ![Key(c)] = {}]
      BY <3>1, <3>3 DEF Atomic!ProfilesNext, Atomic!Erase
    <3>4. CASE UNCHANGED db
      BY <3>4
    <3>5. \/ op[c] = "save" /\ db' = [db EXCEPT ![Key(c)] = profile[c]]
          \/ op[c] \in {"overwrite", "remove"} /\ db' = [db EXCEPT ![Key(c)] = {}]
          \/ UNCHANGED db
      BY <2>1, Zenon DEF BaseApply
    <3> QED
      BY <3>2, <3>3, <3>4, <3>5
  <2>2. CASE UNCHANGED db
    BY <2>2
  <2> QED
    BY <1>2, <2>1, <2>2
       DEF Next, vars, profileVars, UserStep, GetProfile, SaveProfile, SaveProfileAsync,
           SaveUnread, RemoveProfile,
           Release, Callback, Close
<1> QED
  BY <1>1, <1>2, MapCorrect, ProfilesIsolated, PTL DEF Spec, NoLostUpdate, Atomic!ProfilesSpec

\* A request with the check of max_waiters_ is admitted only while at most
\* max_waiters_ requests hold or want the key, itself included, and is refused
\* only when so many do, although lock_count_ is lowered outside the mutex.
THEOREM WaitersBounded == Spec => WaitersBound
<1> DEFINE Bound ==
      \A c \in Clients \ Unchecked :
        pc[c] = "idle" /\ MaxWaiters # 0 =>
          /\ pc'[c] \in Counts => Cardinality(CountedAt(holder[c])') <= MaxWaiters
          /\ pc'[c] = "rejected" => Cardinality(CountedAt(holder'[c])) >= MaxWaiters
<1>1. ASSUME MapInv, MapInv', [Next]_vars PROVE [Bound]_mapVars
  <2> USE TransactionMapAssumption
  <2>0. /\ MapTypeOK /\ MapTypeOK' /\ [MapNext]_mapVars
        /\ \A h \in Holders : lockCount[h] = Cardinality(CountedAt(h))
        /\ \A h \in Holders : lockCount'[h] = Cardinality(CountedAt(h)')
    BY <1>1, NextIsMapNext DEF MapInv, CountersExact
  <2>1. ASSUME MapNext, NEW c \in Clients \ Unchecked, pc[c] = "idle", MaxWaiters # 0,
               pc'[c] \in Counts \cup {"rejected"}
        PROVE  \/ \E k \in Keys, h \in Holders : CreateHolder(c, k, h)
               \/ \E k \in Keys : Reject(c, k) \/ JoinHolder(c, k)
    <3>1. PICK b \in Clients : GetTransaction(b) \/ Progress(b) \/ CancelWaiter(b) \/ CloseCount(b)
      BY <2>1 DEF MapNext
    <3>2. pc'[c] # pc[c]
      BY <2>1 DEF Counts
    <3>3. ASSUME CloseUnlock(b) PROVE FALSE
      <4>1. pc[b] = "closing" /\ holder[b] \in Holders
        BY <1>1, <3>3 DEF CloseUnlock, MapInv, MapTypeOK, LockExact
      <4>2. CASE queue[holder[b]] = <<>>
        BY <2>0, <2>1, <3>2, <3>3, <4>1, <4>2 DEF CloseUnlock, MapTypeOK
      <4>3. CASE queue[holder[b]] # <<>>
        <5>1. PICK q \in Seq(Coros) : q = queue[holder[b]]
          BY <2>0, <4>1 DEF MapTypeOK
        <5>2. Head(q) = q[1] /\ 1 \in 1..Len(q)
          BY <4>3, <5>1
        <5>3. pc[Head(q)] = "waiting"
          BY <1>1, <4>1, <5>1, <5>2 DEF MapInv, LockExact
        <5>4. pc' = [pc EXCEPT ![b] = "unlocked", ![Head(q)] = "granted"]
          BY <3>3, <4>3, <5>1 DEF CloseUnlock
        <5> QED
          BY <2>0, <2>1, <3>2, <4>1, <5>3, <5>4 DEF MapTypeOK
      <4> QED
        BY <4>2, <4>3
    <3>4. ASSUME \/ TakeLock(b) \/ RegisterWaiter(b) \/ CreateTransaction(b) \/ Return(b) \/ GiveUp(b)
                 \/ CancelCount(b) \/ CloseRelease(b) \/ CancelWaiter(b) \/ CloseCount(b)
          PROVE  FALSE
      BY <2>0, <2>1, <3>2, <3>4 DEF TakeLock, RegisterWaiter, CreateTransaction, Return, GiveUp,
         CancelCount, CloseRelease, CancelWaiter, CloseCount, MapTypeOK
    <3>5. GetTransaction(b)
      BY <3>1, <3>3, <3>4 DEF Progress
    <3>6. b = c
      BY <2>0, <3>2, <3>5 DEF GetTransaction, CreateHolder, Reject, JoinHolder, MapTypeOK
    <3> QED
      BY <3>5, <3>6 DEF GetTransaction
  <2>2. ASSUME NEW c \in Clients \ Unchecked, pc[c] = "idle", MaxWaiters # 0,
               NEW k \in Keys, NEW h \in Holders, CreateHolder(c, k, h)
        PROVE  /\ Cardinality(CountedAt(holder[c])') <= MaxWaiters
               /\ pc'[c] # "rejected"
    <3>1. holder'[c] = h /\ lockCount'[h] = 1 /\ pc'[c] # "rejected"
      BY <2>0, <2>2 DEF CreateHolder, MapTypeOK
    <3>2. Cardinality(CountedAt(h)') = 1
      BY <2>0, <3>1
    <3> QED
      BY <2>2, <3>1, <3>2
  <2>3. ASSUME NEW c \in Clients \ Unchecked, pc[c] = "idle", MaxWaiters # 0,
               NEW k \in Keys, JoinHolder(c, k)
        PROVE  /\ Cardinality(CountedAt(holder[c])') <= MaxWaiters
               /\ pc'[c] # "rejected"
    <3>1. PICK h \in Holders : h = openMap[k]
      BY <2>0, <2>3 DEF JoinHolder, MapTypeOK
    <3>2. /\ holder'[c] = h /\ lockCount'[h] = lockCount[h] + 1 /\ pc'[c] # "rejected"
          /\ lockCount[h] < MaxWaiters /\ lockCount[h] \in Int
      BY <2>0, <2>3, <3>1 DEF JoinHolder, MapTypeOK, Full
    <3>3. Cardinality(CountedAt(h)') <= MaxWaiters
      BY <2>0, <3>2
    <3> QED
      BY <3>2, <3>3
  <2>4. ASSUME NEW c \in Clients \ Unchecked, pc[c] = "idle", MaxWaiters # 0,
               NEW k \in Keys, Reject(c, k)
        PROVE  /\ Cardinality(CountedAt(holder'[c])) >= MaxWaiters
               /\ pc'[c] \notin Counts
    <3>1. PICK h \in Holders : h = openMap[k]
      BY <2>0, <2>4 DEF Reject, MapTypeOK
    <3>2. holder'[c] = h /\ lockCount[h] >= MaxWaiters /\ pc'[c] = "rejected"
      BY <2>0, <2>4, <3>1 DEF Reject, MapTypeOK, Full
    <3> QED
      BY <2>0, <3>2 DEF Counts
  <2> QED
    BY <2>0, <2>1, <2>2, <2>3, <2>4
<1>2. [Next]_vars /\ MapInv /\ MapInv' => [Bound]_mapVars
  BY <1>1
<1> QED
  BY <1>2, MapCorrect, PTL DEF Spec, WaitersBound

-----------------------------------------------------------------------------
(* The lock_ of a holder is an AsyncMutex, and the model of the map uses it *)
(* as an ExclusiveLock.  What follows is about the mutex itself.            *)

\* Init establishes the inductive invariant.
LEMMA InitMutexInv == MutexInit => MutexInv
<1> SUFFICES ASSUME MutexInit PROVE MutexInv
  OBVIOUS
<1>1. waiters = <<>> /\ waiters \in Seq(Coros) /\ Len(waiters) = 0
  BY DEF MutexInit
<1>2. MutexTypeOK
  BY <1>1 DEF MutexInit, MutexTypeOK, MutexPc
<1>3. QueueInv
  BY <1>1, MutexAssumption DEF MutexInit, QueueInv, Clients
<1>4. MutualExclusion /\ NoLostNotify
  BY <1>1 DEF MutexInit, MutualExclusion, NoLostNotify, Owners, Clients
<1> QED
  BY <1>2, <1>3, <1>4 DEF MutexInv

\* Every step keeps the types and the link between queue, sleepers and pc.
LEMMA MutexQueueStep ==
  ASSUME MutexTypeOK, QueueInv, [MutexNext]_mutexVars
  PROVE  MutexTypeOK' /\ QueueInv'
<1> USE MutexAssumption
<1>1. ASSUME NEW t \in Threads, ScopedLockTake(t) PROVE MutexTypeOK' /\ QueueInv'
  BY <1>1 DEF MutexTypeOK, QueueInv, ScopedLockTake, Clients, MutexPc
<1>2. ASSUME NEW t \in Threads, ScopedLockSleep(t) PROVE MutexTypeOK' /\ QueueInv'
  BY <1>2 DEF MutexTypeOK, QueueInv, ScopedLockSleep, Clients, MutexPc
<1>3. ASSUME NEW t \in Threads, SpuriousWake(t) PROVE MutexTypeOK' /\ QueueInv'
  BY <1>3 DEF MutexTypeOK, QueueInv, SpuriousWake, Clients, MutexPc
<1>4. ASSUME NEW c \in Coros, TryLock(c) PROVE MutexTypeOK' /\ QueueInv'
  BY <1>4 DEF MutexTypeOK, QueueInv, TryLock, Clients, MutexPc
<1>5. ASSUME NEW c \in Coros, Enqueue(c) PROVE MutexTypeOK' /\ QueueInv'
  BY <1>5 DEF MutexTypeOK, QueueInv, Enqueue, Clients, MutexPc
<1>6. ASSUME NEW c \in Coros, Cancel(c) PROVE MutexTypeOK' /\ QueueInv'
  <2>1. PICK i \in 1..Len(waiters) : waiters[i] = c /\ waiters' = RemoveAt(waiters, i)
    BY <1>6 DEF Cancel
  <2>2. /\ waiters' \in Seq(Coros)
        /\ Len(waiters') = Len(waiters) - 1
        /\ \A j \in 1..Len(waiters) - 1 :
             waiters'[j] = IF j < i THEN waiters[j] ELSE waiters[j + 1]
    BY <2>1, UnlinkFacts DEF MutexTypeOK
  <2>3. MutexTypeOK'
    BY <1>6, <2>2 DEF MutexTypeOK, Cancel, Clients, MutexPc
  <2>4. ASSUME NEW d \in Coros
        PROVE  (\E j \in 1..Len(waiters') : waiters'[j] = d)
                 <=> d # c /\ \E j \in 1..Len(waiters) : waiters[j] = d
    <3>1. ASSUME NEW j \in 1..Len(waiters), waiters[j] = d, d # c
          PROVE  \E k \in 1..Len(waiters') : waiters'[k] = d
      <4>1. CASE j < i
        BY <2>1, <2>2, <3>1, <4>1 DEF MutexTypeOK
      <4>2. CASE j > i
        <5>1. j - 1 \in 1..Len(waiters') /\ waiters'[j - 1] = waiters[j]
          BY <2>1, <2>2, <4>2 DEF MutexTypeOK
        <5> QED
          BY <5>1, <3>1
      <4> QED
        BY <2>1, <3>1, <4>1, <4>2 DEF MutexTypeOK
    <3>2. ASSUME NEW j \in 1..Len(waiters'), waiters'[j] = d
          PROVE  d # c /\ \E k \in 1..Len(waiters) : waiters[k] = d
      BY <2>1, <2>2, <3>2 DEF MutexTypeOK, QueueInv
    <3> QED
      BY <3>1, <3>2
  <2>5. ASSUME NEW j \in 1..Len(waiters'), NEW k \in 1..Len(waiters'), waiters'[j] = waiters'[k]
        PROVE  j = k
    <3>1. \A a, b \in 1..Len(waiters) : waiters[a] = waiters[b] => a = b
      BY DEF QueueInv
    <3>2. PICK a \in 1..Len(waiters) :
            waiters'[j] = waiters[a] /\ a = (IF j < i THEN j ELSE j + 1)
      BY <2>1, <2>2 DEF MutexTypeOK
    <3>3. PICK b \in 1..Len(waiters) :
            waiters'[k] = waiters[b] /\ b = (IF k < i THEN k ELSE k + 1)
      BY <2>1, <2>2 DEF MutexTypeOK
    <3>4. a = b
      BY <2>5, <3>1, <3>2, <3>3
    <3>5. Len(waiters) \in Nat /\ Len(waiters') = Len(waiters) - 1
      BY <2>2 DEF MutexTypeOK
    <3> QED
      BY ONLY <2>1, <3>2, <3>3, <3>4, <3>5, j \in 1..Len(waiters'), k \in 1..Len(waiters')
  <2> QED
    BY <1>6, <2>3, <2>4, <2>5 DEF MutexTypeOK, QueueInv, Cancel, Clients
<1>7. ASSUME NEW c \in Coros, Resume(c) PROVE MutexTypeOK' /\ QueueInv'
  BY <1>7 DEF MutexTypeOK, QueueInv, Resume, Clients, MutexPc
<1>8. ASSUME NEW c \in Clients, HandOver(c) PROVE MutexTypeOK' /\ QueueInv'
  <2> DEFINE h == Head(waiters)
  <2>1. /\ Len(waiters) >= 1 /\ h \in Coros /\ h = waiters[1] /\ lockPc[h] = "waiting"
        /\ waiters' \in Seq(Coros) /\ Len(waiters') = Len(waiters) - 1
        /\ \A j \in 1..Len(waiters') : waiters'[j] = waiters[j + 1]
    BY <1>8 DEF HandOver, MutexTypeOK, QueueInv
  <2>2. MutexTypeOK'
    BY <1>8, <2>1 DEF MutexTypeOK, HandOver, Clients, MutexPc
  <2>3. ASSUME NEW d \in Coros
        PROVE  (\E j \in 1..Len(waiters') : waiters'[j] = d)
                 <=> d # h /\ \E j \in 1..Len(waiters) : waiters[j] = d
    <3>1. ASSUME NEW j \in 1..Len(waiters), waiters[j] = d, d # h
          PROVE  j - 1 \in 1..Len(waiters') /\ waiters'[j - 1] = d
      BY <2>1, <3>1 DEF MutexTypeOK
    <3> QED
      BY <2>1, <3>1 DEF MutexTypeOK, QueueInv
  <2>4. \A j, k \in 1..Len(waiters') : waiters'[j] = waiters'[k] => j = k
    BY <2>1 DEF MutexTypeOK, QueueInv
  <2>5. /\ lockPc' = [lockPc EXCEPT ![c] = "out", ![h] = "granted"]
        /\ lockPc[c] = "holding" /\ lockPc[h] = "waiting" /\ asleep' = asleep
        /\ h \in Coros /\ h \notin Threads /\ lockPc \in [Clients -> MutexPc]
    BY <1>8, <2>1 DEF HandOver, MutexTypeOK
  <2>6. \A d \in Coros : lockPc'[d] = "waiting" <=> \E j \in 1..Len(waiters') : waiters'[j] = d
    <3>1. \A d \in Coros : lockPc'[d] = "waiting" <=> d # h /\ lockPc[d] = "waiting"
      BY <2>5 DEF Clients
    <3> QED
      BY <2>3, <3>1 DEF QueueInv
  <2>7. \A t \in Threads : /\ lockPc'[t] = "sleeping" <=> t \in asleep'
                           /\ lockPc'[t] \notin {"waiting", "granted"}
    BY <2>5 DEF Clients, QueueInv
  <2>8. \A d \in Coros : lockPc'[d] \notin {"sleeping", "woken"}
    BY <2>5 DEF Clients, QueueInv
  <2> QED
    BY <2>2, <2>4, <2>6, <2>7, <2>8 DEF QueueInv
<1>9. ASSUME NEW c \in Clients, Unlock(c) PROVE MutexTypeOK' /\ QueueInv'
  <2>1. /\ lockPc[c] = "holding" /\ locked' = FALSE
        /\ lockPc' = [lockPc EXCEPT ![c] = "notifying"]
        /\ UNCHANGED <<waiters, asleep>>
    BY <1>9 DEF Unlock
  <2> QED
    BY <2>1, ZenonT(60) DEF MutexTypeOK, QueueInv, Clients, MutexPc
<1>10. ASSUME NEW c \in Clients, NotifyOne(c) PROVE MutexTypeOK' /\ QueueInv'
  BY <1>10 DEF MutexTypeOK, QueueInv, NotifyOne, Clients, MutexPc
<1>11. ASSUME UNCHANGED mutexVars PROVE MutexTypeOK' /\ QueueInv'
  BY <1>11 DEF mutexVars, MutexTypeOK, QueueInv
<1> QED
  BY <1>1, <1>2, <1>3, <1>4, <1>5, <1>6, <1>7, <1>8, <1>9, <1>10, <1>11
  DEF MutexNext, ScopedLock

\* Every step keeps the single owner and the pending wakeup.
LEMMA MutexOwnerStep ==
  ASSUME MutexInv, [MutexNext]_mutexVars
  PROVE  MutualExclusion' /\ NoLostNotify'
<1> USE MutexAssumption
<1> USE DEF MutexInv, MutexTypeOK, QueueInv, MutualExclusion,
      NoLostNotify, Owners, Clients, MutexPc
<1>1. ASSUME NEW t \in Threads, ScopedLockTake(t)
      PROVE  MutualExclusion' /\ NoLostNotify'
  BY <1>1 DEF ScopedLockTake
<1>2. ASSUME NEW t \in Threads, ScopedLockSleep(t)
      PROVE  MutualExclusion' /\ NoLostNotify'
  BY <1>2 DEF ScopedLockSleep
<1>3. ASSUME NEW t \in Threads, SpuriousWake(t)
      PROVE  MutualExclusion' /\ NoLostNotify'
  BY <1>3 DEF SpuriousWake
<1>4. ASSUME NEW c \in Coros, TryLock(c)
      PROVE  MutualExclusion' /\ NoLostNotify'
  BY <1>4 DEF TryLock
<1>5. ASSUME NEW c \in Coros, Enqueue(c)
      PROVE  MutualExclusion' /\ NoLostNotify'
  BY <1>5 DEF Enqueue
<1>6. ASSUME NEW c \in Coros, Cancel(c)
      PROVE  MutualExclusion' /\ NoLostNotify'
  <2>1. lockPc[c] = "waiting" /\ locked
    BY <1>6 DEF Cancel
  <2> QED
    BY <1>6, <2>1 DEF Cancel
<1>7. ASSUME NEW c \in Coros, Resume(c)
      PROVE  MutualExclusion' /\ NoLostNotify'
  BY <1>7 DEF Resume
<1>8. ASSUME NEW c \in Clients, HandOver(c)
      PROVE  MutualExclusion' /\ NoLostNotify'
  <2>1. Head(waiters) \in Coros /\ lockPc[Head(waiters)] = "waiting" /\ locked
    BY <1>8 DEF HandOver
  <2> QED
    BY <1>8, <2>1 DEF HandOver
<1>9. ASSUME NEW c \in Clients, Unlock(c)
      PROVE  MutualExclusion' /\ NoLostNotify'
  BY <1>9 DEF Unlock
<1>10. ASSUME NEW c \in Clients, NotifyOne(c)
       PROVE  MutualExclusion' /\ NoLostNotify'
  BY <1>10 DEF NotifyOne
<1>11. ASSUME UNCHANGED mutexVars PROVE MutualExclusion' /\ NoLostNotify'
  BY <1>11 DEF mutexVars
<1> QED
  BY <1>1, <1>2, <1>3, <1>4, <1>5, <1>6, <1>7, <1>8, <1>9, <1>10, <1>11
  DEF MutexNext, ScopedLock

\* Mutual exclusion, an exact queue and no lost wakeup, for any number of
\* threads and coroutines.
THEOREM MutexInvariant == MutexSpec => []MutexInv
<1>1. MutexInv /\ [MutexNext]_mutexVars => MutexInv'
  BY MutexQueueStep, MutexOwnerStep DEF MutexInv
<1> QED
  BY InitMutexInv, <1>1, PTL DEF MutexSpec

\* While coroutines are queued, only the oldest becomes the owner.
THEOREM NoBargingHolds == MutexSpec => NoBarging
<1> DEFINE Step == waiters # <<>> =>
             \A c \in Clients : c \in Owners' \ Owners => c = Head(waiters)
<1>1. ASSUME MutexInv, MutexNext PROVE Step
  <2> SUFFICES ASSUME waiters # <<>>, NEW d \in Clients, d \in Owners', d \notin Owners
               PROVE  d = Head(waiters)
    OBVIOUS
  <2>1. locked
    BY <1>1 DEF MutexInv, MutualExclusion
  <2> USE <1>1, <2>1, MutexAssumption DEF MutexInv, MutexTypeOK, QueueInv, Owners, Clients, MutexPc
  <2>2. ASSUME NEW t \in Threads, ScopedLock(t) \/ SpuriousWake(t) PROVE FALSE
    BY <2>2, ZenonT(60)
    DEF ScopedLock, ScopedLockTake, ScopedLockSleep, SpuriousWake
  <2>3. ASSUME NEW c \in Coros, TryLock(c) \/ Enqueue(c) \/ Cancel(c) \/ Resume(c)
        PROVE  FALSE
    BY <2>3, ZenonT(60) DEF TryLock, Enqueue, Cancel, Resume
  <2>4. ASSUME NEW c \in Clients, Unlock(c) \/ NotifyOne(c) PROVE FALSE
    <3>1. CASE Unlock(c)
      BY <3>1 DEF Unlock
    <3>2. CASE NotifyOne(c)
      <4>1. \A e \in Clients : lockPc'[e] \in {"granted", "holding"} => lockPc'[e] = lockPc[e]
        BY <3>2 DEF NotifyOne
      <4> QED
        BY <4>1
    <3> QED
      BY <2>4, <3>1, <3>2
  <2>5. ASSUME NEW c \in Clients, HandOver(c) PROVE d = Head(waiters)
    BY <2>5 DEF HandOver
  <2> QED
    BY <1>1, <2>2, <2>3, <2>4, <2>5 DEF MutexNext
<1>2. ASSUME MutexInv, [MutexNext]_mutexVars PROVE [Step]_mutexVars
  BY <1>1, <1>2
<1> QED
  BY <1>2, MutexInvariant, PTL DEF MutexSpec, NoBarging

\* The owner of the abstract lock is the one client that owns the mutex.
LEMMA OwnerBarFacts ==
  ASSUME MutualExclusion
  PROVE  /\ ~locked => ownerBar = NoOwner
         /\ locked => ownerBar \in Clients /\ ownerBar # NoOwner
         /\ \A c \in Owners : ownerBar = c
BY MutexAssumption DEF MutualExclusion, ownerBar, Owners, Clients

\* The mutex implements the abstract lock: a step of the mutex takes it,
\* registers or withdraws a waiter, releases it or passes it on, or is not
\* visible to the lock's users.
THEOREM MutexRefinement == MutexSpec => ImplementsLock
<1>1. ASSUME MutexInit PROVE Lock!LockInit
  BY <1>1 DEF MutexInit, Lock!LockInit, ownerBar, Owners, Clients
<1>2. ASSUME MutexInv, MutexInv', [MutexNext]_mutexVars
      PROVE  [Lock!LockNext]_(Lock!lockVars)
  <2> USE MutexAssumption
  <2>0. /\ ~locked => ownerBar = NoOwner
        /\ locked => ownerBar \in Clients /\ ownerBar # NoOwner
        /\ \A c \in Owners : ownerBar = c
        /\ ~locked' => ownerBar' = NoOwner
        /\ locked' => ownerBar' \in Clients /\ ownerBar' # NoOwner
        /\ \A c \in Owners' : ownerBar' = c
    <3>1. (ownerBar = IF Owners = {} THEN NoOwner ELSE CHOOSE c \in Clients : c \in Owners)'
      BY DEF ownerBar
    <3>2. MutualExclusion /\ MutualExclusion'
      BY <1>2 DEF MutexInv
    <3> QED
      BY <3>1, <3>2, OwnerBarFacts DEF MutualExclusion, Owners, Clients
  <2>a. ASSUME Owners' = Owners PROVE ownerBar' = ownerBar
    BY <2>a DEF ownerBar
  <2>1. ASSUME NEW t \in Threads, ScopedLockTake(t) PROVE Lock!Take(t)
    <3>1. t \in Owners'
      BY <1>2, <2>1
      DEF ScopedLockTake, MutexInv, MutexTypeOK, Owners, Clients
    <3> QED
      BY <2>0, <2>1, <3>1 DEF ScopedLockTake, Lock!Take
  <2>2. ASSUME NEW t \in Threads, ScopedLockSleep(t) \/ SpuriousWake(t)
        PROVE  UNCHANGED Lock!lockVars
    <3>1. Owners' = Owners /\ waiters' = waiters
      BY <1>2, <2>2
      DEF ScopedLockSleep, SpuriousWake, MutexInv, MutexTypeOK,
            QueueInv, Owners, Clients
    <3> QED
      BY <2>a, <3>1 DEF Lock!lockVars
  <2>3. ASSUME NEW c \in Coros, TryLock(c) PROVE Lock!Take(c)
    <3>1. c \in Owners' /\ waiters = <<>>
      BY <1>2, <2>3
      DEF TryLock, MutexInv, MutexTypeOK, MutualExclusion, Owners,
            Clients
    <3> QED
      BY <2>0, <2>3, <3>1 DEF TryLock, Lock!Take
  <2>4. ASSUME NEW c \in Coros, Enqueue(c) PROVE Lock!Register(c)
    <3>1. Owners' = Owners
      BY <1>2, <2>4 DEF Enqueue, MutexInv, MutexTypeOK, Owners, Clients
    <3> QED
      BY <2>0, <2>a, <2>4, <3>1 DEF Enqueue, Lock!Register
  <2>5. ASSUME NEW c \in Coros, Cancel(c) PROVE Lock!Withdraw(c)
    <3>1. lockPc[c] = "waiting"
      BY <1>2, <2>5 DEF Cancel, MutexInv, QueueInv
    <3>2. Owners' = Owners
      BY <1>2, <2>5, <3>1
      DEF Cancel, MutexInv, MutexTypeOK, Owners, Clients
    <3> QED
      BY <2>a, <2>5, <3>2
      DEF Cancel, Lock!Withdraw, RemoveAt, Lock!RemoveAt
  <2>6. ASSUME NEW c \in Coros, Resume(c) PROVE UNCHANGED Lock!lockVars
    <3>1. Owners' = Owners /\ waiters' = waiters
      BY <1>2, <2>6 DEF Resume, MutexInv, MutexTypeOK, Owners, Clients
    <3> QED
      BY <2>a, <3>1 DEF Lock!lockVars
  <2>7. ASSUME NEW c \in Clients, HandOver(c) PROVE Lock!PassOn
    <3>1. Head(waiters) \in Coros /\ locked
      BY <1>2, <2>7
      DEF HandOver, MutexInv, MutexTypeOK, MutualExclusion, Owners
    <3>2. Head(waiters) \in Owners'
      BY <1>2, <2>7, <3>1
      DEF HandOver, MutexInv, MutexTypeOK, Owners, Clients
    <3> QED
      BY <2>0, <2>7, <3>1, <3>2 DEF HandOver, Lock!PassOn
  <2>8. ASSUME NEW c \in Clients, Unlock(c) PROVE Lock!Release
    <3>1. locked
      BY <1>2, <2>8 DEF Unlock, MutexInv, MutualExclusion, Owners
    <3> QED
      BY <2>0, <2>8, <3>1 DEF Unlock, Lock!Release
  <2>9. ASSUME NEW c \in Clients, NotifyOne(c) PROVE UNCHANGED Lock!lockVars
    <3>1. Owners' = Owners /\ waiters' = waiters
      BY <1>2, <2>9
      DEF NotifyOne, MutexInv, MutexTypeOK, QueueInv, Owners,
            Clients
    <3> QED
      BY <2>a, <3>1 DEF Lock!lockVars
  <2>10. ASSUME UNCHANGED mutexVars PROVE UNCHANGED Lock!lockVars
    <3>1. Owners' = Owners /\ waiters' = waiters
      BY <2>10 DEF mutexVars, Owners
    <3> QED
      BY <2>a, <3>1 DEF Lock!lockVars
  <2> QED
    BY <1>2, <2>1, <2>2, <2>3, <2>4, <2>5, <2>6, <2>7, <2>8, <2>9, <2>10
    DEF MutexNext, ScopedLock, Lock!LockNext, Clients
<1> QED
  BY <1>1, <1>2, MutexInvariant, PTL DEF MutexSpec, ImplementsLock, Lock!LockSpec

-----------------------------------------------------------------------------
(* What the map asks of lock_ is what AsyncMutex gives it. *)

CONSTANT AnyHolder  \* stands for each holder

HolderLock == INSTANCE ExclusiveLock
                WITH NoOwner <- None, owner <- owner[AnyHolder], queue <- queue[AnyHolder]

\* A holder that is not in use has a free lock and nobody waits for it.
LEMMA FreedLock ==
  ASSUME MapInv, NEW h \in Holders, refs[h] = 0
  PROVE  owner[h] = None /\ queue[h] = <<>>
<1>1. \A c \in Clients : pc[c] # "idle" => holder[c] # h
  BY UsersHaveRefs DEF MapInv, RefsWhileUsed, MapTypeOK
<1>2. owner[h] = None
  <2>1. \A c \in Clients : owner[h] # c
    BY <1>1 DEF MapInv, LockExact, HasLock
  <2> QED BY <2>1 DEF MapInv, MapTypeOK
<1>3. queue[h] = <<>>
  <2>1. queue[h] \in Seq(Coros) /\ \A i \in 1..Len(queue[h]) : queue[h][i] \in Clients
    BY DEF MapInv, MapTypeOK, Clients
  <2>2. \A i \in 1..Len(queue[h]) : FALSE
    BY <1>1, <2>1 DEF MapInv, LockExact
  <2> QED BY <2>1, <2>2
<1> QED BY <1>2, <1>3

\* Each step of the map on the lock of a holder is one of the abstract lock:
\* also the construction of a holder at the address of one that was freed.
LEMMA HolderLockStep ==
  ASSUME MapInv, [MapNext]_mapVars, AnyHolder \in Holders
  PROVE  [HolderLock!LockNext]_(HolderLock!lockVars)
<1> DEFINE Goal == [HolderLock!LockNext]_(HolderLock!lockVars)
<1> SUFFICES Goal
  OBVIOUS
<1>0. /\ MapTypeOK /\ owner \in [Holders -> Clients \cup {None}] /\ queue \in [Holders -> Seq(Coros)]
      /\ \A c \in Clients : pc[c] # "idle" => holder[c] \in Holders
  BY DEF MapInv, MapTypeOK, LockExact
<1>1. ASSUME UNCHANGED <<owner[AnyHolder], queue[AnyHolder]>> PROVE Goal
  BY <1>1 DEF HolderLock!lockVars
<1>2. ASSUME NEW c \in Clients, NEW k \in Keys, NEW g \in Holders, CreateHolder(c, k, g)
      PROVE  Goal
  <2>1. CASE g # AnyHolder
    BY <1>0, <1>1, <1>2, <2>1 DEF CreateHolder
  <2>2. CASE g = AnyHolder
    <3>1. owner[AnyHolder] = None /\ queue[AnyHolder] = <<>>
      BY <1>2, <2>2, FreedLock DEF CreateHolder
    <3>2. queue'[AnyHolder] = <<>> /\ owner'[AnyHolder] \in {c, None}
      BY <1>0, <1>2, <2>2 DEF CreateHolder
    <3>3. CASE owner'[AnyHolder] = c
      <4>1. HolderLock!Take(c)
        BY <3>1, <3>2, <3>3 DEF HolderLock!Take
      <4> QED BY <4>1 DEF HolderLock!LockNext
    <3>4. CASE owner'[AnyHolder] = None
      BY <1>1, <3>1, <3>2, <3>4
    <3> QED BY <3>2, <3>3, <3>4
  <2> QED BY <2>1, <2>2
<1>3. ASSUME NEW c \in Clients, TakeLock(c) PROVE Goal
  <2>1. holder[c] \in Holders /\ queue' = queue /\ owner' = [owner EXCEPT ![holder[c]] = c]
    BY <1>0, <1>3 DEF TakeLock
  <2>2. CASE holder[c] # AnyHolder
    BY <1>0, <1>1, <2>1, <2>2
  <2>3. CASE holder[c] = AnyHolder
    <3>1. HolderLock!Take(c)
      BY <1>0, <1>3, <2>1, <2>3 DEF TakeLock, HolderLock!Take
    <3> QED BY <3>1 DEF HolderLock!LockNext
  <2> QED BY <2>2, <2>3
<1>4. ASSUME NEW c \in Clients, RegisterWaiter(c) PROVE Goal
  <2>1. holder[c] \in Holders /\ owner' = owner
        /\ queue' = [queue EXCEPT ![holder[c]] = Append(@, c)]
    BY <1>0, <1>4 DEF RegisterWaiter
  <2>2. CASE holder[c] # AnyHolder
    BY <1>0, <1>1, <2>1, <2>2
  <2>3. CASE holder[c] = AnyHolder
    <3>1. HolderLock!Register(c)
      BY <1>0, <1>4, <2>1, <2>3 DEF RegisterWaiter, HolderLock!Register
    <3> QED BY <3>1 DEF HolderLock!LockNext
  <2> QED BY <2>2, <2>3
<1>5. ASSUME NEW c \in Clients, CancelWaiter(c) PROVE Goal
  <2>1. PICK i \in 1..Len(queue[holder[c]]) :
          queue[holder[c]][i] = c /\ queue' = [queue EXCEPT ![holder[c]] = RemoveAt(@, i)]
    BY <1>5 DEF CancelWaiter
  <2>2. holder[c] \in Holders /\ owner' = owner
    BY <1>0, <1>5 DEF CancelWaiter
  <2>3. CASE holder[c] # AnyHolder
    BY <1>0, <1>1, <2>1, <2>2, <2>3
  <2>4. CASE holder[c] = AnyHolder
    <3>1. queue'[AnyHolder] = RemoveAt(queue[AnyHolder], i)
      BY <1>0, <2>1, <2>4
    <3>2. HolderLock!Withdraw(c)
      BY <2>1, <2>2, <2>4, <3>1 DEF HolderLock!Withdraw, RemoveAt, HolderLock!RemoveAt
    <3> QED BY <3>2 DEF HolderLock!LockNext
  <2> QED BY <2>3, <2>4
<1>6. ASSUME NEW c \in Clients, CloseUnlock(c) PROVE Goal
  <2>1. holder[c] \in Holders /\ owner[holder[c]] = c /\ c # None
    BY <1>0, <1>6, TransactionMapAssumption DEF CloseUnlock, MapInv, LockExact, HasLock
  <2>2. CASE holder[c] # AnyHolder
    BY <1>0, <1>1, <1>6, <2>1, <2>2 DEF CloseUnlock
  <2>3. CASE holder[c] = AnyHolder /\ queue[AnyHolder] = <<>>
    <3>1. HolderLock!Release
      BY <1>0, <1>6, <2>1, <2>3 DEF CloseUnlock, HolderLock!Release
    <3> QED BY <3>1 DEF HolderLock!LockNext
  <2>4. CASE holder[c] = AnyHolder /\ queue[AnyHolder] # <<>>
    <3>1. HolderLock!PassOn
      BY <1>0, <1>6, <2>1, <2>4 DEF CloseUnlock, HolderLock!PassOn
    <3> QED BY <3>1 DEF HolderLock!LockNext
  <2> QED BY <2>2, <2>3, <2>4
<1>7. ASSUME NEW c \in Clients, NEW k \in Keys, Reject(c, k) \/ JoinHolder(c, k) PROVE Goal
  BY <1>1, <1>7 DEF Reject, JoinHolder
<1>8. ASSUME NEW c \in Clients,
             CreateTransaction(c) \/ Return(c) \/ CancelCount(c) \/ GiveUp(c) \/ CloseRelease(c)
               \/ CloseCount(c)
      PROVE  Goal
  BY <1>1, <1>8 DEF CreateTransaction, Return, CancelCount, GiveUp, CloseRelease, CloseCount
<1>9. CASE UNCHANGED mapVars
  BY <1>1, <1>9 DEF mapVars
<1> HIDE DEF Goal
<1>10. CASE MapNext
  <2>1. PICK c \in Clients : GetTransaction(c) \/ Progress(c) \/ CancelWaiter(c) \/ CloseCount(c)
    BY <1>10 DEF MapNext
  <2>2. CASE GetTransaction(c)
    BY <1>2, <1>7, <2>2, Zenon DEF GetTransaction
  <2>3. CASE Progress(c)
    BY <1>3, <1>4, <1>6, <1>8, <2>3, Zenon DEF Progress
  <2> QED BY <1>5, <1>8, <2>1, <2>2, <2>3, Zenon
<1> QED BY <1>9, <1>10

\* Whatever the requests, transactions and destroyed coroutines of the map do,
\* and however often a holder's address is used again, they use its lock_ as
\* the lock that AsyncMutex implements.
THEOREM HolderLocksExclusive ==
  ASSUME AnyHolder \in Holders
  PROVE  Spec => HolderLock!LockSpec
<1>1. Init => HolderLock!LockInit
  BY DEF Init, MapInit, HolderLock!LockInit
<1>2. MapInv /\ [Next]_vars => [HolderLock!LockNext]_(HolderLock!lockVars)
  BY HolderLockStep, NextIsMapNext
<1> QED
  BY <1>1, <1>2, MapCorrect, PTL DEF Spec, HolderLock!LockSpec

=============================================================================
