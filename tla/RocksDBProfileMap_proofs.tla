------------------------ MODULE RocksDBProfileMap_proofs ------------------------
(***************************************************************************)
(* The batching profile map: what draining rests on, the exclusion of      *)
(* batches on a key, and that callers see the store ProfileStore describes, *)
(* for any operations, keys, buckets, workers and sizes.                   *)
(***************************************************************************)
EXTENDS RocksDBProfileMap, NumberTheorems

-----------------------------------------------------------------------------
(* What the workers have together *)

\* The values of a function on a finite set are finitely many.
LEMMA ImageFinite ==
  ASSUME NEW S, IsFiniteSet(S), NEW g
  PROVE  IsFiniteSet({g[x] : x \in S})
<1> DEFINE T == {g[x] : x \in S}
           f == [x \in S |-> g[x]]
<1>1. f \in Surjection(S, T)
  BY DEF Surjection
<1> QED BY <1>1, FS_Surjection

\* With finite sets, what they have together is finite.
LEMMA TogetherFinite ==
  ASSUME NEW M, NEW W \in SUBSET Workers, \A w \in W : IsFiniteSet(M[w])
  PROVE  IsFiniteSet(UNION {{w} \X M[w] : w \in W})
<1>0. PICK g : g = [w \in W |-> {w} \X M[w]]
  OBVIOUS
<1>1. IsFiniteSet(W)
  BY ProfileMapAssumption, FS_Subset
<1>2. IsFiniteSet({g[w] : w \in W})
  BY <1>1, ImageFinite
<1>3. {g[w] : w \in W} = {{w} \X M[w] : w \in W}
  BY <1>0
<1>4. \A w \in W : IsFiniteSet({w} \X M[w])
  BY FS_Product, FS_Singleton
<1>5. IsFiniteSet({{w} \X M[w] : w \in W})
  BY <1>2, <1>3, Zenon
<1> QED BY <1>4, <1>5, FS_UNION

\* One worker's set changes.
LEMMA TogetherUpdate ==
  ASSUME NEW M, NEW N, NEW w \in Workers,
         \A u \in Workers : IsFiniteSet(M[u]), IsFiniteSet(N[w]),
         \A u \in Workers \ {w} : N[u] = M[u]
  PROVE  /\ Together(M) \in Nat /\ Together(N) \in Nat
         /\ Together(N) + Cardinality(M[w]) = Together(M) + Cardinality(N[w])
<1>1. PICK R : R = UNION {{u} \X M[u] : u \in Workers \ {w}}
  OBVIOUS
<1>2. IsFiniteSet(R)
  BY <1>1, TogetherFinite
<1>3. ASSUME NEW L, IsFiniteSet(L[w]), \A u \in Workers \ {w} : L[u] = M[u]
      PROVE  Together(L) = Cardinality(R) + Cardinality(L[w]) /\ Together(L) \in Nat
  <2>1. PICK A : A = {w} \X L[w]
    OBVIOUS
  <2>2. IsFiniteSet(A) /\ Cardinality(A) = Cardinality(L[w])
    <3>1. IsFiniteSet({w}) /\ Cardinality({w}) = 1
      BY FS_Singleton
    <3>2. Cardinality(L[w]) \in Nat
      BY <1>3, FS_CardinalityType
    <3>3. IsFiniteSet(A) /\ Cardinality(A) = Cardinality({w}) * Cardinality(L[w])
      BY <1>3, <2>1, <3>1, FS_Product
    <3> QED BY <3>1, <3>2, <3>3
  <2>3. UNION {{u} \X L[u] : u \in Workers} = R \cup A
    BY <1>1, <1>3, <2>1
  <2>4. R \cap A = {}
    BY <1>1, <2>1
  <2>5. Cardinality(R \cap A) = 0
    BY <2>4, FS_EmptySet, Zenon
  <2>6. Cardinality(R \cup A) = Cardinality(R) + Cardinality(A) - Cardinality(R \cap A)
        /\ Cardinality(R) \in Nat /\ Cardinality(A) \in Nat
    BY <1>2, <2>2, FS_Union, FS_CardinalityType
  <2>7. Together(L) = Cardinality(R \cup A)
    BY <2>3, Zenon DEF Together
  <2> QED BY <2>2, <2>5, <2>6, <2>7
<1>4. Together(M) = Cardinality(R) + Cardinality(M[w]) /\ Together(M) \in Nat
  BY <1>3
<1>5. Together(N) = Cardinality(R) + Cardinality(N[w]) /\ Together(N) \in Nat
  BY <1>3
<1>6. Cardinality(R) \in Nat /\ Cardinality(M[w]) \in Nat /\ Cardinality(N[w]) \in Nat
  BY <1>2, FS_CardinalityType
<1> QED BY <1>4, <1>5, <1>6

\* Nobody's set changes.
LEMMA TogetherSame ==
  ASSUME NEW M, NEW N, \A u \in Workers : N[u] = M[u]
  PROVE  Together(N) = Together(M)
<1>1. UNION {{u} \X N[u] : u \in Workers} = UNION {{u} \X M[u] : u \in Workers}
  OBVIOUS
<1> QED BY <1>1, Zenon DEF Together

\* Together they have nothing.
LEMMA TogetherNothing ==
  ASSUME NEW M, \A u \in Workers : IsFiniteSet(M[u])
  PROVE  Together(M) \in Nat /\ (Together(M) = 0 <=> \A u \in Workers : M[u] = {})
<1>1. PICK U : U = UNION {{u} \X M[u] : u \in Workers}
  OBVIOUS
<1>2. IsFiniteSet(U)
  BY <1>1, TogetherFinite
<1>3. Together(M) = Cardinality(U)
  BY <1>1 DEF Together
<1>4. U = {} <=> \A u \in Workers : M[u] = {}
  <2>1. ASSUME U = {}, NEW u \in Workers PROVE M[u] = {}
    <3>1. \A x \in M[u] : <<u, x>> \in U
      BY <1>1
    <3> QED BY <3>1, <2>1
  <2>2. ASSUME \A u \in Workers : M[u] = {} PROVE U = {}
    BY <1>1, <2>2
  <2> QED BY <2>1, <2>2
<1> QED BY <1>2, <1>3, <1>4, FS_CardinalityType, FS_EmptySet

-----------------------------------------------------------------------------
(* The inductive invariant: what relates the queue, the batches and the      *)
(* counts (Data), and where the workers and the owner are.                   *)

Data ==
  /\ BatchesHeld /\ InFlightExact /\ PendingExact /\ StampsBehind /\ AnsweredOnce
  /\ KeyExclusion

Inv == TypeOK /\ WorkersCounted /\ Data /\ DrainedForGood

Places == Busy \cup {"loop", "asleep", "timed", "draining", "exit"}
Collecting == {"collecting", "scanned", "subtracted"}

\* The worker goes on where it is, or it is woken.
Stays(w) == wpc'[w] = wpc[w] \/ (wpc[w] \in {"asleep", "timed"} /\ wpc'[w] = "loop")

LEMMA SetsFinite ==
  ASSUME TypeOK
  PROVE  /\ \A w \in Workers : IsFiniteSet(Moving[w])
         /\ \A k \in Keys : \A write \in BOOLEAN : \A w \in Workers :
              IsFiniteSet(InFlight(write, k)[w])
<1>1. \A w \in Workers : IsFiniteSet(batch[w]) /\ IsFiniteSet(touches[w])
  BY DEF TypeOK
<1>2. ASSUME NEW w \in Workers PROVE IsFiniteSet(Moving[w])
  BY <1>1, FS_EmptySet DEF Moving
<1>3. ASSUME NEW k \in Keys, NEW write \in BOOLEAN, NEW w \in Workers
      PROVE  IsFiniteSet(InFlight(write, k)[w])
  <2>1. InFlight(write, k)[w] \subseteq batch[w]
    BY DEF InFlight
  <2> QED BY <2>1, <1>1, FS_Subset
<1> QED BY <1>2, <1>3

LEMMA InitInv == Init => Inv
<1> SUFFICES ASSUME Init PROVE Inv
  OBVIOUS
<1> USE ProfileMapAssumption, BatchingQueueAssumption DEF Init
<1>1. TypeOK
  <2>1. IsFiniteSet(queue) /\ \A w \in Workers : IsFiniteSet(batch[w]) /\ IsFiniteSet(touches[w])
    BY FS_EmptySet
  <2>2. UNION {batch[w] : w \in Workers} = {}
    OBVIOUS
  <2>3. next \in 0 .. BucketCount - 1
    OBVIOUS
  <2>4. stateLock \in Workers \cup {NoOne} /\ db \in [Keys -> Ops \cup {Absent}]
    OBVIOUS
  <2>5. batch \in [Workers -> SUBSET Entries] /\ touches \in [Workers -> SUBSET (Keys \X Ops)]
    OBVIOUS
  <2> QED BY <2>1, <2>2, <2>3, <2>4, <2>5 DEF TypeOK
<1>2. WorkersCounted
  <2>1. {w \in Workers : wpc[w] \in Busy} = {}
    BY DEF Busy
  <2>2. Cardinality({w \in Workers : wpc[w] \in Busy}) = 0
    BY <2>1, FS_EmptySet, Zenon
  <2>3. \A w \in Workers : stateLock # w /\ wpc[w] = "loop"
    OBVIOUS
  <2> QED BY <2>2, <2>3 DEF WorkersCounted
<1>3. BatchesHeld /\ KeyExclusion
  BY DEF BatchesHeld, KeyExclusion, Holds
<1>4. InFlightExact
  <2>1. \A k \in Keys : \A write \in BOOLEAN : \A w \in Workers : InFlight(write, k)[w] = {}
    BY DEF InFlight
  <2>2. \A k \in Keys : \A write \in BOOLEAN : Together(InFlight(write, k)) = 0
    BY <1>1, <2>1, SetsFinite, TogetherNothing
  <2> QED BY <2>2 DEF InFlightExact
<1>5. PendingExact
  <2>1. Cardinality(queue) = 0
    BY FS_EmptySet, Zenon
  <2>2. {o \in Ops : spc[o] = "counted"} = {}
    OBVIOUS
  <2>3. Cardinality({o \in Ops : spc[o] = "counted"}) = 0
    BY <2>2, FS_EmptySet, Zenon
  <2>4. \A w \in Workers : Moving[w] = {}
    BY DEF Moving
  <2>5. Together(Moving) = 0
    BY <1>1, <2>4, SetsFinite, TogetherNothing
  <2> QED BY <2>1, <2>3, <2>5 DEF PendingExact
<1>6. StampsBehind /\ AnsweredOnce
  BY DEF StampsBehind, AnsweredOnce, Queued, InBatch
<1>7. DrainedForGood
  BY DEF DrainedForGood, Waited
<1> QED BY <1>1, <1>2, <1>3, <1>4, <1>5, <1>6, <1>7 DEF Inv, Data

\* No worker becomes or ceases to be one that may use the map.
LEMMA WorkersFrame ==
  ASSUME WorkersCounted, UNCHANGED <<active, stateLock>>,
         \A w \in Workers : wpc'[w] \in Busy <=> wpc[w] \in Busy,
         \A w \in Workers : wpc'[w] \in Collecting <=> wpc[w] \in Collecting
  PROVE  WorkersCounted'
<1>1. {w \in Workers : wpc'[w] \in Busy} = {w \in Workers : wpc[w] \in Busy}
  OBVIOUS
<1>2. Cardinality({w \in Workers : wpc'[w] \in Busy})
        = Cardinality({w \in Workers : wpc[w] \in Busy})
  BY <1>1, Zenon
<1> QED BY <1>2 DEF WorkersCounted, Collecting

\* A submission goes on before it is counted, or behind the insertion.
Follows(o) ==
  \/ spc'[o] = spc[o]
  \/ spc[o] = "new" /\ spc'[o] = "entered"
  \/ spc[o] \in {"inserted", "requested"} /\ spc'[o] \in {"requested", "submitted"}

\* A worker goes on with what it has in its hands.
Proceeds(w) ==
  \/ wpc'[w] = wpc[w]
  \/ wpc[w] \notin Holding /\ wpc'[w] \notin Holding
  \/ wpc[w] \in {"subtracted", "collected"} /\ wpc'[w] \in {"collected", "processing"}
  \/ wpc[w] = "requested" /\ wpc'[w] = "answering"
  \/ wpc[w] = "inserting" /\ touches[w] = {} /\ wpc'[w] = "requested"

\* A step that only follows and proceeds keeps queue, batches and counts in order.
LEMMA DataFrame ==
  ASSUME TypeOK, Data,
         UNCHANGED <<queue, pending, inRead, inWrite, clock, batch, touches, result, calls>>,
         \A o \in Ops : Follows(o), \A w \in Workers : Proceeds(w),
         \A o \in Ops : spc'[o] = "counted" => stamp'[o] = stamp[o],
         \A w \in Workers : wpc'[w] = "inserting" => stamp'[w] = stamp[w]
  PROVE  Data'
<1> USE DEF Data
<1>1. BatchesHeld'
  BY DEF BatchesHeld, Holding, Proceeds
<1>2. InFlightExact'
  <2>1. \A k \in Keys : \A write \in BOOLEAN : InFlight(write, k)' = InFlight(write, k)
    BY DEF InFlight
  <2>2. \A k \in Keys : \A write \in BOOLEAN :
           Together(InFlight(write, k))' = Together(InFlight(write, k))
    BY <2>1, Zenon DEF Together
  <2> QED BY <2>2 DEF InFlightExact
<1>3. PendingExact'
  <2>1. {o \in Ops : spc'[o] = "counted"} = {o \in Ops : spc[o] = "counted"}
    BY DEF Follows
  <2>2. Cardinality({o \in Ops : spc'[o] = "counted"}) = Cardinality({o \in Ops : spc[o] = "counted"})
    BY <2>1, Zenon
  <2>3. \A w \in Workers : (Moving')[w] = Moving[w]
    BY DEF Moving, Proceeds, Holding, BatchesHeld
  <2>4. Together(Moving') = Together(Moving)
    BY <2>3, TogetherSame
  <2>5. Together(Moving)' = Together(Moving')
    BY DEF Together
  <2> QED BY <2>2, <2>4, <2>5 DEF PendingExact
<1>4. StampsBehind'
  <2>1. \A o \in Ops : spc'[o] = "counted" => spc[o] = "counted"
    BY DEF Follows
  <2>2. \A w \in Workers : wpc'[w] = "inserting" => wpc[w] = "inserting"
    BY DEF Proceeds, Holding
  <2>3. \A w \in Workers : wpc'[w] = "inserting" =>
          \A t : TouchEntry(w, t)' = TouchEntry(w, t)
    BY DEF TouchEntry
  <2> QED BY <2>1, <2>2, <2>3 DEF StampsBehind
<1>5. AnsweredOnce'
  <2>1. \A o : (Queued(o)' <=> Queued(o)) /\ \A w : InBatch(w, o)' <=> InBatch(w, o)
    BY DEF Queued, InBatch
  <2>2. \A w \in Workers : wpc[w] \notin Holding => batch[w] = {}
    BY DEF BatchesHeld
  <2>3. \A w \in Workers, o \in Ops : InBatch(w, o) =>
          (wpc'[w] \in Decided <=> wpc[w] \in Decided)
          /\ (wpc'[w] = "completing" <=> wpc[w] = "completing")
    BY <2>2 DEF InBatch, Proceeds, Decided, Holding
  <2>4. \A o \in Ops : \A S \in {{"new", "entered", "counted"},
                                 {"new", "entered", "counted", "refused"}} :
          spc'[o] \in S <=> spc[o] \in S
    BY DEF Follows
  <2> QED BY <2>1, <2>3, <2>4 DEF AnsweredOnce
<1>6. KeyExclusion'
  BY DEF KeyExclusion, Holds, WriteBatch
<1> QED BY <1>1, <1>2, <1>3, <1>4, <1>5, <1>6

\* Where apply_ready_() and its notify_one() leave the workers.
LEMMA ApplyReadyMoves ==
  ASSUME TypeOK, NEW a \in Actors, NEW pcs \in [Workers -> Places], ApplyReady(a, pcs)
  PROVE  /\ wpc' \in [Workers -> Places]
         /\ ready' \in {"no", "later", "now"}
         /\ claim' \in [Actors -> {"none", "later", "now"}]
         /\ UNCHANGED <<registered, stopping>>
         /\ \A u \in Workers :
              wpc'[u] = pcs[u] \/ (wpc[u] \in {"asleep", "timed"} /\ wpc'[u] = "loop")
<1>1. wpc' \in NotifyOne(pcs) \cup {pcs}
  BY DEF ApplyReady
<1>2. CASE wpc' = pcs
  BY <1>2 DEF ApplyReady, TypeOK, Indexed
<1>3. CASE \E u \in Sleeping : wpc' = [pcs EXCEPT ![u] = "loop"]
  BY <1>3 DEF ApplyReady, TypeOK, Indexed, Sleeping, Places
<1> QED BY <1>1, <1>2, <1>3 DEF NotifyOne

-----------------------------------------------------------------------------
(* Steps that leave the queue and the batches alone *)

LEMMA EnterKeeps ==
  ASSUME Inv, NEW o \in Ops, Enter(o) PROVE Inv'
<1> USE ProfileMapAssumption DEF Inv, Enter, queueVars, readyVars, callVars
<1>1. TypeOK'
  BY DEF TypeOK, Busy, Actors
<1>2. WorkersCounted'
  BY WorkersFrame DEF TypeOK, Busy, Collecting
<1>3. Data'
  BY DataFrame DEF Follows, Proceeds, Holding, TypeOK, Actors
<1>4. DrainedForGood'
  BY DEF DrainedForGood, Submitting, Waited, TypeOK
<1> QED BY <1>1, <1>2, <1>3, <1>4

LEMMA RequestOpKeeps ==
  ASSUME Inv, NEW o \in Ops, RequestOp(o) PROVE Inv'
<1> USE ProfileMapAssumption DEF Inv, RequestOp, ReadyTime, queueVars, readyVars, callVars
<1>1. TypeOK'
  BY DEF TypeOK, Busy, Actors
<1>2. WorkersCounted'
  BY WorkersFrame DEF TypeOK, Busy, Collecting
<1>3. Data'
  BY DataFrame DEF Follows, Proceeds, Holding, TypeOK, Actors
<1>4. DrainedForGood'
  BY DEF DrainedForGood, Submitting, Waited, TypeOK
<1> QED BY <1>1, <1>2, <1>3, <1>4

LEMMA ApplyOpKeeps ==
  ASSUME Inv, NEW o \in Ops, ApplyOp(o) PROVE Inv'
<1> USE ProfileMapAssumption DEF Inv, ApplyOp, queueVars, callVars
<1>1. /\ wpc' \in [Workers -> Places] /\ ready' \in {"no", "later", "now"}
      /\ claim' \in [Actors -> {"none", "later", "now"}]
      /\ UNCHANGED <<registered, stopping>>
      /\ \A u \in Workers : Stays(u)
  <2>1. wpc \in [Workers -> Places]
    BY DEF TypeOK, Places, Busy
  <2> QED BY <2>1, ApplyReadyMoves DEF Stays, TypeOK, Actors
<1>2. TypeOK'
  BY <1>1 DEF TypeOK, Places
<1>3. WorkersCounted'
  BY <1>1, WorkersFrame DEF Stays, Busy, Collecting
<1>4. Data'
  BY <1>1, DataFrame DEF Follows, Proceeds, Stays, Holding, TypeOK
<1>5. DrainedForGood'
  BY <1>1 DEF DrainedForGood, Submitting, Waited, Stays, TypeOK
<1> QED BY <1>2, <1>3, <1>4, <1>5

LEMMA IdleKeeps ==
  ASSUME Inv, NEW w \in Workers, Idle(w) PROVE Inv'
<1> USE ProfileMapAssumption DEF Inv, Idle, Goto, queueVars, readyVars, callVars
<1>1. TypeOK'
  BY DEF TypeOK, Busy, Actors
<1>2. WorkersCounted'
  BY WorkersFrame DEF TypeOK, Busy, Collecting
<1>3. Data'
  BY DataFrame DEF Follows, Proceeds, Holding, TypeOK, Actors
<1>4. DrainedForGood'
  BY DEF DrainedForGood, Submitting, Waited, TypeOK
<1> QED BY <1>1, <1>2, <1>3, <1>4

LEMMA WaitUntilKeeps ==
  ASSUME Inv, NEW w \in Workers, WaitUntil(w) PROVE Inv'
<1> USE ProfileMapAssumption DEF Inv, WaitUntil, Goto, queueVars, readyVars, callVars
<1>1. TypeOK'
  BY DEF TypeOK, Busy, Actors
<1>2. WorkersCounted'
  BY WorkersFrame DEF TypeOK, Busy, Collecting
<1>3. Data'
  BY DataFrame DEF Follows, Proceeds, Holding, TypeOK, Actors
<1>4. DrainedForGood'
  BY DEF DrainedForGood, Submitting, Waited, TypeOK
<1> QED BY <1>1, <1>2, <1>3, <1>4

LEMMA TimePassesKeeps ==
  ASSUME Inv, TimePasses PROVE Inv'
<1> USE ProfileMapAssumption DEF Inv, TimePasses, queueVars, readyVars, callVars
<1>1. TypeOK'
  BY DEF TypeOK, Busy, Actors
<1>2. WorkersCounted'
  BY WorkersFrame DEF TypeOK, Busy, Collecting
<1>3. Data'
  BY DataFrame DEF Follows, Proceeds, Holding, TypeOK, Actors
<1>4. DrainedForGood'
  BY DEF DrainedForGood, Submitting, Waited, TypeOK
<1> QED BY <1>1, <1>2, <1>3, <1>4

LEMMA ApplyCollectedKeeps ==
  ASSUME Inv, NEW w \in Workers, ApplyCollected(w) PROVE Inv'
<1> USE ProfileMapAssumption DEF Inv, ApplyCollected, queueVars, callVars
<1>1. /\ wpc' \in [Workers -> Places] /\ ready' \in {"no", "later", "now"}
      /\ claim' \in [Actors -> {"none", "later", "now"}]
      /\ UNCHANGED <<registered, stopping>>
      /\ \A u \in Workers : IF u = w THEN wpc'[u] = "processing" ELSE Stays(u)
  <2>1. PICK pcs \in [Workers -> Places] : pcs = [wpc EXCEPT ![w] = "processing"]
    BY DEF TypeOK, Places, Busy
  <2>2. ApplyReady(w, pcs) /\ wpc[w] \notin {"asleep", "timed"}
    BY <2>1
  <2>3. \A u \in Workers : pcs[u] = IF u = w THEN "processing" ELSE wpc[u]
    BY <2>1 DEF TypeOK
  <2> QED BY <2>2, <2>3, ApplyReadyMoves DEF Stays, Actors
<1>2. TypeOK'
  BY <1>1 DEF TypeOK, Places
<1>3. WorkersCounted'
  BY <1>1, WorkersFrame DEF Stays, Busy, Collecting
<1>4. Data'
  BY <1>1, DataFrame DEF Follows, Proceeds, Stays, Holding, TypeOK
<1>5. DrainedForGood'
  BY <1>1 DEF DrainedForGood, Submitting, Waited, Stays, TypeOK
<1> QED BY <1>2, <1>3, <1>4, <1>5

LEMMA RequestTouchesKeeps ==
  ASSUME Inv, NEW w \in Workers, RequestTouches(w) PROVE Inv'
<1> USE ProfileMapAssumption
      DEF Inv, RequestTouches, Goto, ReadyTime, queueVars, readyVars, callVars
<1>1. TypeOK'
  BY DEF TypeOK, Busy, Actors
<1>2. WorkersCounted'
  BY WorkersFrame DEF TypeOK, Busy, Collecting
<1>3. Data'
  BY DataFrame DEF Follows, Proceeds, Holding, TypeOK, Actors
<1>4. DrainedForGood'
  BY DEF DrainedForGood, Submitting, Waited, TypeOK
<1> QED BY <1>1, <1>2, <1>3, <1>4

LEMMA ApplyTouchesKeeps ==
  ASSUME Inv, NEW w \in Workers, ApplyTouches(w) PROVE Inv'
<1> USE ProfileMapAssumption DEF Inv, ApplyTouches, queueVars, callVars
<1>1. /\ wpc' \in [Workers -> Places] /\ ready' \in {"no", "later", "now"}
      /\ claim' \in [Actors -> {"none", "later", "now"}]
      /\ UNCHANGED <<registered, stopping>>
      /\ \A u \in Workers : IF u = w THEN wpc'[u] = "answering" ELSE Stays(u)
  <2>1. PICK pcs \in [Workers -> Places] : pcs = [wpc EXCEPT ![w] = "answering"]
    BY DEF TypeOK, Places, Busy
  <2>2. ApplyReady(w, pcs) /\ wpc[w] \notin {"asleep", "timed"}
    BY <2>1
  <2>3. \A u \in Workers : pcs[u] = IF u = w THEN "answering" ELSE wpc[u]
    BY <2>1 DEF TypeOK
  <2> QED BY <2>2, <2>3, ApplyReadyMoves DEF Stays, Actors
<1>2. TypeOK'
  BY <1>1 DEF TypeOK, Places
<1>3. WorkersCounted'
  BY <1>1, WorkersFrame DEF Stays, Busy, Collecting
<1>4. Data'
  BY <1>1, DataFrame DEF Follows, Proceeds, Stays, Holding, TypeOK
<1>5. DrainedForGood'
  BY <1>1 DEF DrainedForGood, Submitting, Waited, Stays, TypeOK
<1> QED BY <1>2, <1>3, <1>4, <1>5

LEMMA ApplyCompletedKeeps ==
  ASSUME Inv, NEW w \in Workers, ApplyCompleted(w) PROVE Inv'
<1> USE ProfileMapAssumption DEF Inv, ApplyCompleted, queueVars, callVars
<1>1. /\ wpc' \in [Workers -> Places] /\ ready' \in {"no", "later", "now"}
      /\ claim' \in [Actors -> {"none", "later", "now"}]
      /\ UNCHANGED <<registered, stopping>>
      /\ \A u \in Workers : IF u = w THEN wpc'[u] = "finishing" ELSE Stays(u)
  <2>1. PICK pcs \in [Workers -> Places] : pcs = [wpc EXCEPT ![w] = "finishing"]
    BY DEF TypeOK, Places, Busy
  <2>2. ApplyReady(w, pcs) /\ wpc[w] \notin {"asleep", "timed"}
    BY <2>1
  <2>3. \A u \in Workers : pcs[u] = IF u = w THEN "finishing" ELSE wpc[u]
    BY <2>1 DEF TypeOK
  <2> QED BY <2>2, <2>3, ApplyReadyMoves DEF Stays, Actors
<1>2. TypeOK'
  BY <1>1 DEF TypeOK, Places
<1>3. WorkersCounted'
  BY <1>1, WorkersFrame DEF Stays, Busy, Collecting
<1>4. Data'
  BY <1>1, DataFrame DEF Follows, Proceeds, Stays, Holding, TypeOK
<1>5. DrainedForGood'
  BY <1>1 DEF DrainedForGood, Submitting, Waited, Stays, TypeOK
<1> QED BY <1>2, <1>3, <1>4, <1>5

LEMMA DeactivateKeeps ==
  ASSUME Inv, Deactivate PROVE Inv'
<1> USE ProfileMapAssumption DEF Inv, Deactivate, queueVars, readyVars, callVars
<1>1. TypeOK'
  <2>1. open' \in BOOLEAN
    OBVIOUS
  <2> QED BY <2>1 DEF TypeOK
<1>2. WorkersCounted'
  BY WorkersFrame DEF TypeOK, Busy, Collecting
<1>3. Data'
  BY DataFrame DEF Follows, Proceeds, Holding, TypeOK, Actors
<1>4. DrainedForGood'
  BY DEF DrainedForGood, Submitting, Waited, TypeOK
<1> QED BY <1>1, <1>2, <1>3, <1>4

LEMMA GateDrainedKeeps ==
  ASSUME Inv, GateDrained PROVE Inv'
<1> USE ProfileMapAssumption DEF Inv, GateDrained, queueVars, readyVars, callVars
<1>1. TypeOK'
  BY DEF TypeOK, Busy, Actors
<1>2. WorkersCounted'
  BY WorkersFrame DEF TypeOK, Busy, Collecting
<1>3. Data'
  BY DataFrame DEF Follows, Proceeds, Holding, TypeOK, Actors
<1>4. DrainedForGood'
  BY DEF DrainedForGood, Submitting, Waited, TypeOK
<1> QED BY <1>1, <1>2, <1>3, <1>4

LEMMA UnregisterKeeps ==
  ASSUME Inv, Unregister PROVE Inv'
<1> USE ProfileMapAssumption DEF Inv, Unregister, queueVars, readyVars, callVars
<1>1. TypeOK'
  <2>1. registered' \in BOOLEAN
    OBVIOUS
  <2> QED BY <2>1 DEF TypeOK
<1>2. WorkersCounted'
  BY WorkersFrame DEF TypeOK, Busy, Collecting
<1>3. Data'
  BY DataFrame DEF Follows, Proceeds, Holding, TypeOK, Actors
<1>4. DrainedForGood'
  BY DEF DrainedForGood, Submitting, Waited, TypeOK
<1> QED BY <1>1, <1>2, <1>3, <1>4

LEMMA StopProcessorKeeps ==
  ASSUME Inv, StopProcessor PROVE Inv'
<1> USE ProfileMapAssumption DEF Inv, StopProcessor, Sleeping, queueVars, readyVars, callVars
<1>1. TypeOK'
  BY DEF TypeOK, Busy, Actors
<1>2. WorkersCounted'
  BY WorkersFrame DEF TypeOK, Busy, Collecting
<1>3. Data'
  BY DataFrame DEF Follows, Proceeds, Holding, TypeOK, Actors
<1>4. DrainedForGood'
  BY DEF DrainedForGood, Submitting, Waited, TypeOK
<1> QED BY <1>1, <1>2, <1>3, <1>4

LEMMA JoinWorkersKeeps ==
  ASSUME Inv, JoinWorkers PROVE Inv'
<1> USE ProfileMapAssumption DEF Inv, JoinWorkers, queueVars, readyVars, callVars
<1>1. TypeOK'
  BY DEF TypeOK, Busy, Actors
<1>2. WorkersCounted'
  BY WorkersFrame DEF TypeOK, Busy, Collecting
<1>3. Data'
  BY DataFrame DEF Follows, Proceeds, Holding, TypeOK, Actors
<1>4. DrainedForGood'
  BY DEF DrainedForGood, Submitting, Waited, TypeOK
<1> QED BY <1>1, <1>2, <1>3, <1>4

LEMMA NotifyDrainedKeeps ==
  ASSUME Inv, NEW w \in Workers, NotifyDrained(w) PROVE Inv'
<1> USE ProfileMapAssumption DEF Inv, NotifyDrained, Goto, queueVars, readyVars, callVars
<1>1. TypeOK'
  BY DEF TypeOK, Busy, Actors
<1>2. WorkersCounted'
  BY WorkersFrame DEF TypeOK, Busy, Collecting
<1>3. Data'
  BY DataFrame DEF Follows, Proceeds, Holding, TypeOK, Actors
<1>4. DrainedForGood'
  BY DEF DrainedForGood, Submitting, Waited, TypeOK
<1> QED BY <1>1, <1>2, <1>3, <1>4

LEMMA FlushPendingKeeps ==
  ASSUME Inv, FlushPending PROVE Inv'
<1> USE ProfileMapAssumption DEF Inv, FlushPending, queueVars, readyVars, callVars
<1>1. TypeOK'
  BY DEF TypeOK, Busy, Actors
<1>2. WorkersCounted'
  BY WorkersFrame DEF TypeOK, Busy, Collecting
<1>3. Data'
  BY DataFrame DEF Follows, Proceeds, Holding, TypeOK, Actors
<1>4. DrainedForGood'
  BY DEF DrainedForGood, Submitting, Waited, TypeOK
<1> QED BY <1>1, <1>2, <1>3, <1>4

LEMMA ApplyFlushKeeps ==
  ASSUME Inv, ApplyFlush PROVE Inv'
<1> USE ProfileMapAssumption DEF Inv, ApplyFlush, Sleeping, queueVars, readyVars, callVars
<1>1. TypeOK'
  BY DEF TypeOK, Busy, Actors
<1>2. WorkersCounted'
  BY WorkersFrame DEF TypeOK, Busy, Collecting
<1>3. Data'
  BY DataFrame DEF Follows, Proceeds, Holding, TypeOK, Actors
<1>4. DrainedForGood'
  BY DEF DrainedForGood, Submitting, Waited, TypeOK
<1> QED BY <1>1, <1>2, <1>3, <1>4

\* start_batch() and finish_batch() count their worker.
LEMMA StartBatchKeeps ==
  ASSUME Inv, NEW w \in Workers, StartBatch(w) PROVE Inv'
<1> USE ProfileMapAssumption DEF Inv, StartBatch, Goto, queueVars, readyVars, callVars
<1>1. TypeOK'
  BY DEF TypeOK, Busy, Actors
<1>2. WorkersCounted'
  <2>1. PICK S : S = {u \in Workers : wpc[u] \in Busy}
    OBVIOUS
  <2>2. {u \in Workers : wpc'[u] \in Busy} = S \cup {w} /\ w \notin S
    BY <2>1 DEF TypeOK, Busy
  <2>3. IsFiniteSet(S)
    BY <2>1, FS_Subset
  <2>4. Cardinality(S \cup {w}) = Cardinality(S) + 1
    BY <2>2, <2>3, FS_AddElement
  <2>5. Cardinality({u \in Workers : wpc'[u] \in Busy}) = Cardinality(S \cup {w})
    BY <2>2, Zenon
  <2>6. active = Cardinality(S)
    BY <2>1 DEF WorkersCounted
  <2>7. active' = Cardinality({u \in Workers : wpc'[u] \in Busy})
    BY <2>4, <2>5, <2>6
  <2>8. \A u \in Workers : stateLock' = u <=> wpc'[u] \in {"collecting", "scanned", "subtracted"}
    BY DEF WorkersCounted, TypeOK
  <2> QED BY <2>7, <2>8 DEF WorkersCounted
<1>3. Data'
  BY DataFrame DEF Follows, Proceeds, Holding, TypeOK, Actors
<1>4. DrainedForGood'
  BY DEF DrainedForGood, Submitting, Waited, TypeOK
<1> QED BY <1>1, <1>2, <1>3, <1>4

LEMMA FinishBatchKeeps ==
  ASSUME Inv, NEW w \in Workers, FinishBatch(w) PROVE Inv'
<1> USE ProfileMapAssumption DEF Inv, FinishBatch, Goto, queueVars, readyVars, callVars
<1>2. WorkersCounted' /\ active' \in Nat
  <2>1. PICK S : S = {u \in Workers : wpc[u] \in Busy}
    OBVIOUS
  <2>2. {u \in Workers : wpc'[u] \in Busy} = S \ {w} /\ w \in S
    BY <2>1 DEF TypeOK, Busy
  <2>3. IsFiniteSet(S)
    BY <2>1, FS_Subset
  <2>4. Cardinality(S \ {w}) = Cardinality(S) - 1 /\ Cardinality(S \ {w}) \in Nat
    BY <2>2, <2>3, FS_RemoveElement, FS_CardinalityType
  <2>5. Cardinality({u \in Workers : wpc'[u] \in Busy}) = Cardinality(S \ {w})
    BY <2>2, Zenon
  <2>6. active = Cardinality(S)
    BY <2>1 DEF WorkersCounted
  <2>7. active' = Cardinality({u \in Workers : wpc'[u] \in Busy}) /\ active' \in Nat
    BY <2>4, <2>5, <2>6
  <2>8. \A u \in Workers : stateLock' = u <=> wpc'[u] \in {"collecting", "scanned", "subtracted"}
    BY DEF WorkersCounted, TypeOK
  <2> QED BY <2>7, <2>8 DEF WorkersCounted
<1>1. TypeOK'
  BY <1>2 DEF TypeOK, Busy, Actors
<1>3. Data'
  BY DataFrame DEF Follows, Proceeds, Holding, TypeOK, Actors
<1>4. DrainedForGood'
  BY DEF DrainedForGood, Submitting, Waited, TypeOK
<1> QED BY <1>1, <1>2, <1>3, <1>4

\* state_lock_ changes hands.
LEMMA LockFrame ==
  ASSUME WorkersCounted, UNCHANGED active,
         \A w \in Workers : wpc'[w] \in Busy <=> wpc[w] \in Busy,
         \A w \in Workers : stateLock' = w <=> wpc'[w] \in Collecting
  PROVE  WorkersCounted'
<1>1. {w \in Workers : wpc'[w] \in Busy} = {w \in Workers : wpc[w] \in Busy}
  OBVIOUS
<1>2. Cardinality({w \in Workers : wpc'[w] \in Busy})
        = Cardinality({w \in Workers : wpc[w] \in Busy})
  BY <1>1, Zenon
<1> QED BY <1>2 DEF WorkersCounted, Collecting

LEMMA CollectBeginKeeps ==
  ASSUME Inv, NEW w \in Workers, CollectBegin(w) PROVE Inv'
<1> USE ProfileMapAssumption DEF Inv, CollectBegin, Goto, queueVars, readyVars, callVars
<1>1. TypeOK'
  <2>1. published' \in BOOLEAN
    OBVIOUS
  <2> QED BY <2>1 DEF TypeOK, Busy, Actors
<1>2. WorkersCounted'
  <2>1. \A u \in Workers : wpc'[u] \in Busy <=> wpc[u] \in Busy
    BY DEF TypeOK, Busy
  <2>2. \A u \in Workers : stateLock' = u <=> wpc'[u] \in Collecting
    BY DEF TypeOK, Collecting, WorkersCounted
  <2> QED BY <2>1, <2>2, LockFrame
<1>3. Data'
  BY DataFrame DEF Follows, Proceeds, Holding, TypeOK, Actors
<1>4. DrainedForGood'
  BY DEF DrainedForGood, Submitting, Waited, TypeOK
<1> QED BY <1>1, <1>2, <1>3, <1>4

LEMMA ScanNothingKeeps ==
  ASSUME Inv, NEW w \in Workers, ScanNothing(w) PROVE Inv'
<1> USE ProfileMapAssumption DEF Inv, ScanNothing, Goto, queueVars, readyVars, callVars
<1>1. TypeOK'
  BY DEF TypeOK, Busy, Actors
<1>2. WorkersCounted'
  <2>1. \A u \in Workers : wpc'[u] \in Busy <=> wpc[u] \in Busy
    BY DEF TypeOK, Busy
  <2>2. \A u \in Workers : stateLock' = u <=> wpc'[u] \in Collecting
    BY DEF TypeOK, Collecting, WorkersCounted
  <2> QED BY <2>1, <2>2, LockFrame
<1>3. Data'
  BY DataFrame DEF Follows, Proceeds, Holding, TypeOK, Actors
<1>4. DrainedForGood'
  BY DEF DrainedForGood, Submitting, Waited, TypeOK
<1> QED BY <1>1, <1>2, <1>3, <1>4

LEMMA CollectEndKeeps ==
  ASSUME Inv, NEW w \in Workers, CollectEnd(w) PROVE Inv'
<1> USE ProfileMapAssumption
    DEF Inv, CollectEnd, RequestReady, ReadyTime, Goto, queueVars, readyVars, callVars
<1>1. TypeOK'
  <2>1. published' \in BOOLEAN
    BY DEF TypeOK
  <2> QED BY <2>1 DEF TypeOK, Busy, Actors
<1>2. WorkersCounted'
  <2>1. \A u \in Workers : wpc'[u] \in Busy <=> wpc[u] \in Busy
    BY DEF TypeOK, Busy
  <2>2. \A u \in Workers : stateLock' = u <=> wpc'[u] \in Collecting
    BY DEF TypeOK, Collecting, WorkersCounted
  <2> QED BY <2>1, <2>2, LockFrame
<1>3. Data'
  BY DataFrame DEF Follows, Proceeds, Holding, TypeOK, Actors
<1>4. DrainedForGood'
  BY DEF DrainedForGood, Submitting, Waited, TypeOK
<1> QED BY <1>1, <1>2, <1>3, <1>4

\* A queue without pending operations and active workers is drained for good.
LEMMA WaitDrainedKeeps ==
  ASSUME Inv, WaitDrained PROVE Inv'
<1> USE ProfileMapAssumption DEF Inv, WaitDrained, queueVars, readyVars, callVars
<1>1. TypeOK'
  BY DEF TypeOK, Busy, Actors
<1>2. WorkersCounted'
  BY WorkersFrame DEF TypeOK, Busy, Collecting
<1>3. Data'
  BY DataFrame DEF Follows, Proceeds, Holding, TypeOK, Actors
<1>4. DrainedForGood'
  <2>1. CASE IsDrained
    <3>1. PICK S : S = {w \in Workers : wpc[w] \in Busy}
      OBVIOUS
    <3>2. IsFiniteSet(S) /\ Cardinality(S) = 0
      BY <2>1, <3>1, FS_Subset DEF WorkersCounted, IsDrained
    <3>3. S = {}
      BY <3>2, FS_EmptySet
    <3>4. \A w \in Workers : wpc'[w] \in {"loop", "asleep", "timed", "draining", "exit"}
      BY <3>1, <3>3 DEF TypeOK, Busy
    <3> QED BY <2>1, <3>4 DEF DrainedForGood, Submitting, Waited, TypeOK, IsDrained
  <2>2. CASE ~IsDrained
    BY <2>2 DEF DrainedForGood, Submitting, Waited, TypeOK
  <2> QED BY <2>1, <2>2
<1> QED BY <1>1, <1>2, <1>3, <1>4

-----------------------------------------------------------------------------
(* Steps on the queue *)

\* The batches do not change.
LEMMA BatchFrame ==
  ASSUME Data, UNCHANGED <<inRead, inWrite, batch>>
  PROVE  InFlightExact' /\ KeyExclusion'
<1> USE DEF Data
<1>1. \A k \in Keys : \A write \in BOOLEAN : InFlight(write, k)' = InFlight(write, k)
  BY DEF InFlight
<1>2. \A k \in Keys : \A write \in BOOLEAN :
         Together(InFlight(write, k))' = Together(InFlight(write, k))
  BY <1>1, Zenon DEF Together
<1>3. InFlightExact'
  BY <1>2 DEF InFlightExact
<1>4. KeyExclusion'
  BY DEF KeyExclusion, Holds, WriteBatch
<1> QED BY <1>3, <1>4

\* The three parts of pending_operations_ are numbers.
LEMMA PendingParts ==
  ASSUME TypeOK
  PROVE  /\ Cardinality(queue) \in Nat
         /\ IsFiniteSet({o \in Ops : spc[o] = "counted"})
         /\ Cardinality({o \in Ops : spc[o] = "counted"}) \in Nat
         /\ Together(Moving) \in Nat
<1>1. IsFiniteSet(queue)
  BY DEF TypeOK
<1>2. IsFiniteSet({o \in Ops : spc[o] = "counted"})
  BY ProfileMapAssumption, FS_Subset
<1>3. Together(Moving) \in Nat
  BY SetsFinite, TogetherNothing
<1> QED BY <1>1, <1>2, <1>3, FS_CardinalityType

\* One worker's share of what is counted and not in the buckets changes.
LEMMA MovingStep ==
  ASSUME TypeOK, NEW w \in Workers, NEW S, NEW T, IsFiniteSet(T),
         Moving[w] = S, (Moving')[w] = T,
         \A u \in Workers : u # w => (Moving')[u] = Moving[u]
  PROVE  /\ Together(Moving) \in Nat /\ Together(Moving)' \in Nat
         /\ Together(Moving)' + Cardinality(S) = Together(Moving) + Cardinality(T)
<1>1. PICK M, N : M = Moving /\ N = Moving'
  OBVIOUS
<1>2. \A u \in Workers : IsFiniteSet(M[u])
  BY <1>1, SetsFinite
<1>3. IsFiniteSet(N[w]) /\ \A u \in Workers \ {w} : N[u] = M[u]
  BY <1>1
<1>4. /\ Together(M) \in Nat /\ Together(N) \in Nat
      /\ Together(N) + Cardinality(M[w]) = Together(M) + Cardinality(N[w])
  BY <1>2, <1>3, TogetherUpdate
<1>5. Cardinality(M[w]) = Cardinality(S) /\ Cardinality(N[w]) = Cardinality(T)
  BY <1>1, Zenon
<1>6. Together(M) = Together(Moving) /\ Together(N) = Together(Moving)'
  BY <1>1 DEF Together
<1> QED BY <1>4, <1>5, <1>6

LEMMA RefuseKeeps ==
  ASSUME Inv, NEW o \in Ops, Refuse(o) PROVE Inv'
<1> USE ProfileMapAssumption DEF Inv, Refuse, queueVars, readyVars, callVars
<1>1. TypeOK'
  BY DEF TypeOK, Busy, Actors
<1>2. WorkersCounted'
  BY WorkersFrame DEF TypeOK, Busy, Collecting
<1>3. Data'
  <2>1. InFlightExact' /\ KeyExclusion'
    BY BatchFrame
  <2>2. BatchesHeld'
    BY DEF Data, BatchesHeld
  <2>3. PendingExact'
    <3>1. {p \in Ops : spc'[p] = "counted"} = {p \in Ops : spc[p] = "counted"}
      BY DEF TypeOK
    <3>2. Cardinality({p \in Ops : spc'[p] = "counted"}) = Cardinality({p \in Ops : spc[p] = "counted"})
      BY <3>1, Zenon
    <3>3. Together(Moving)' = Together(Moving)
      BY DEF Together, Moving
    <3> QED BY <3>2, <3>3 DEF Data, PendingExact
  <2>4. StampsBehind'
    <3>1. \A p \in Ops : spc'[p] = "counted" => spc[p] = "counted"
      BY DEF TypeOK
    <3>2. \A w, t : TouchEntry(w, t)' = TouchEntry(w, t)
      BY DEF TouchEntry
    <3> QED BY <3>1, <3>2 DEF Data, StampsBehind
  <2>5. AnsweredOnce'
    <3>1. \A p : (Queued(p)' <=> Queued(p)) /\ \A w : InBatch(w, p)' <=> InBatch(w, p)
      BY DEF Queued, InBatch
    <3>2. ~Queued(o) /\ \A w \in Workers : ~InBatch(w, o)
      BY DEF Data, AnsweredOnce
    <3>3. calls'[o] = 1 /\ result'[o] # Pending /\ spc'[o] = "refused"
      BY DEF Data, AnsweredOnce, TypeOK
    <3>4. \A p \in Ops \ {o} : calls'[p] = calls[p] /\ result'[p] = result[p] /\ spc'[p] = spc[p]
      BY DEF TypeOK
    <3> QED BY <3>1, <3>2, <3>3, <3>4 DEF Data, AnsweredOnce
  <2> QED BY <2>1, <2>2, <2>3, <2>4, <2>5 DEF Data
<1>4. DrainedForGood'
  BY DEF DrainedForGood, Submitting, Waited, TypeOK
<1> QED BY <1>1, <1>2, <1>3, <1>4

\* enqueue() counts the operation before it is in the queue.
LEMMA CountOpKeeps ==
  ASSUME Inv, NEW o \in Ops, CountOp(o) PROVE Inv'
<1> USE ProfileMapAssumption DEF Inv, CountOp, AddPending, queueVars, readyVars, callVars
<1>1. TypeOK'
  BY DEF TypeOK, Busy, Actors
<1>2. WorkersCounted'
  BY WorkersFrame DEF TypeOK, Busy, Collecting
<1>3. Data'
  <2>1. InFlightExact' /\ KeyExclusion'
    BY BatchFrame
  <2>2. BatchesHeld'
    BY DEF Data, BatchesHeld
  <2>3. PendingExact'
    <3>1. PICK S : S = {p \in Ops : spc[p] = "counted"}
      OBVIOUS
    <3>2. {p \in Ops : spc'[p] = "counted"} = S \cup {o} /\ o \notin S
      BY <3>1 DEF TypeOK
    <3>3. Cardinality({p \in Ops : spc'[p] = "counted"}) = Cardinality(S \cup {o})
      BY <3>2, Zenon
    <3>4. IsFiniteSet(S) /\ Cardinality(S) \in Nat /\ Cardinality(queue) \in Nat
          /\ Together(Moving) \in Nat
      BY <3>1, PendingParts
    <3>5. Cardinality(S \cup {o}) = Cardinality(S) + 1
      BY <3>2, <3>4, FS_AddElement
    <3>6. Together(Moving)' = Together(Moving) /\ Cardinality(queue)' = Cardinality(queue)
      BY DEF Together, Moving
    <3>7. pending = Cardinality(queue) + Cardinality(S) + Together(Moving)
      BY <3>1 DEF Data, PendingExact
    <3>8. pending' = Cardinality(queue)' + Cardinality({p \in Ops : spc'[p] = "counted"})
                       + Together(Moving)'
      BY <3>3, <3>4, <3>5, <3>6, <3>7
    <3> QED BY <3>8 DEF PendingExact
  <2>4. StampsBehind'
    <3>1. \A p \in Ops : spc'[p] = "counted" => (p = o /\ stamp'[p] = clock)
                                              \/ (spc[p] = "counted" /\ stamp'[p] = stamp[p])
      BY DEF TypeOK, Actors
    <3>2. \A w \in Workers : stamp'[w] = stamp[w]
      BY DEF TypeOK, Actors
    <3>3. \A w \in Workers : \A t : TouchEntry(w, t)' = TouchEntry(w, t)
      BY <3>2 DEF TouchEntry
    <3>4. clock \in Nat /\ clock' = clock + 1 /\ (\A e \in queue : e.stamp \in Nat)
          /\ \A a \in Actors : stamp[a] \in Nat
      BY DEF TypeOK, Entries
    <3>5. \A e \in queue' : e.stamp < clock'
      BY <3>4 DEF Data, StampsBehind
    <3>6. \A p \in Ops : spc'[p] = "counted" => stamp'[p] < clock'
      BY <3>1, <3>4 DEF Data, StampsBehind, Actors
    <3>7. \A w \in Workers : wpc'[w] = "inserting" =>
            stamp'[w] < clock' /\ \A t \in touches'[w] : TouchEntry(w, t)' \notin queue'
      BY <3>2, <3>3, <3>4 DEF Data, StampsBehind, Actors
    <3> QED BY <3>5, <3>6, <3>7 DEF StampsBehind
  <2>5. AnsweredOnce'
    <3>1. \A p : (Queued(p)' <=> Queued(p)) /\ \A w : InBatch(w, p)' <=> InBatch(w, p)
      BY DEF Queued, InBatch
    <3>2. \A p \in Ops : \A S \in {{"new", "entered", "counted"},
                                   {"new", "entered", "counted", "refused"}} :
            spc'[p] \in S <=> spc[p] \in S
      BY DEF TypeOK
    <3> QED BY <3>1, <3>2 DEF Data, AnsweredOnce
  <2> QED BY <2>1, <2>2, <2>3, <2>4, <2>5 DEF Data
<1>4. DrainedForGood'
  BY DEF DrainedForGood, Submitting, Waited, TypeOK
<1> QED BY <1>1, <1>2, <1>3, <1>4

\* The operation is put into its bucket.
LEMMA InsertOpKeeps ==
  ASSUME Inv, NEW o \in Ops, InsertOp(o) PROVE Inv'
<1> USE ProfileMapAssumption DEF Inv, InsertOp, queueVars, readyVars, callVars
<1>0. PICK x : x = Entry(o)
  OBVIOUS
<1>a. /\ x \in Entries /\ x.op = o /\ x.type = OpType[o] /\ x.key = OpKey[o]
      /\ x.stamp = stamp[o] /\ queue' = queue \cup {x}
  BY <1>0 DEF Entry, Entries, TypeOK, Actors
<1>b. x \notin queue
  BY <1>a DEF Data, AnsweredOnce, Queued
<1>c. IsFiniteSet(queue') /\ Cardinality(queue') = Cardinality(queue) + 1
  <2>1. IsFiniteSet(queue \cup {x}) /\ Cardinality(queue \cup {x}) = Cardinality(queue) + 1
    BY <1>b, FS_AddElement DEF TypeOK
  <2> QED BY <2>1, <1>a, Zenon
<1>1. TypeOK'
  <2>1. queue' \subseteq Entries /\ stamp' \in [Actors -> Nat]
    BY <1>a, ZenonT(60) DEF TypeOK
  <2>2. \A e \in queue' \cup UNION {batch'[w] : w \in Workers} :
           IF e.op \in Ops THEN e.type = OpType[e.op] /\ e.key = OpKey[e.op]
                           ELSE e.type = "touch"
    BY <1>a DEF TypeOK
  <2> QED BY <1>c, <2>1, <2>2 DEF TypeOK
<1>2. WorkersCounted'
  BY WorkersFrame DEF TypeOK, Busy, Collecting
<1>3. Data'
  <2>1. InFlightExact' /\ KeyExclusion'
    BY BatchFrame
  <2>2. BatchesHeld'
    BY DEF Data, BatchesHeld
  <2>3. PendingExact'
    <3>1. PICK S : S = {p \in Ops : spc[p] = "counted"}
      OBVIOUS
    <3>2. {p \in Ops : spc'[p] = "counted"} = S \ {o} /\ o \in S
      BY <3>1 DEF TypeOK
    <3>3. Cardinality({p \in Ops : spc'[p] = "counted"}) = Cardinality(S \ {o})
      BY <3>2, Zenon
    <3>4. IsFiniteSet(S) /\ Cardinality(S) \in Nat /\ Cardinality(queue) \in Nat
          /\ Together(Moving) \in Nat
      BY <3>1, PendingParts
    <3>5. Cardinality(S \ {o}) = Cardinality(S) - 1
      BY <3>2, <3>4, FS_RemoveElement
    <3>6. Together(Moving)' = Together(Moving)
      BY DEF Together, Moving
    <3>7. pending = Cardinality(queue) + Cardinality(S) + Together(Moving)
      BY <3>1 DEF Data, PendingExact
    <3>8. pending' = Cardinality(queue') + Cardinality({p \in Ops : spc'[p] = "counted"})
                       + Together(Moving)'
      BY <1>c, <3>3, <3>4, <3>5, <3>6, <3>7
    <3> QED BY <3>8 DEF PendingExact
  <2>4. StampsBehind'
    <3>1. \A p \in Ops : spc'[p] = "counted" => spc[p] = "counted" /\ stamp'[p] = stamp[p]
      BY DEF TypeOK, Actors
    <3>2. \A w \in Workers : stamp'[w] = stamp[w]
      BY DEF TypeOK, Actors
    <3>3. \A w \in Workers : \A t : TouchEntry(w, t)' = TouchEntry(w, t) /\ TouchEntry(w, t) # x
      BY <3>2, <1>a DEF TouchEntry
    <3>4. \A e \in queue' : e.stamp < clock'
      BY <1>a DEF Data, StampsBehind
    <3>5. \A w \in Workers : wpc'[w] = "inserting" =>
            stamp'[w] < clock' /\ \A t \in touches'[w] : TouchEntry(w, t)' \notin queue'
      BY <1>a, <3>2, <3>3 DEF Data, StampsBehind
    <3> QED BY <3>1, <3>4, <3>5 DEF Data, StampsBehind
  <2>5. AnsweredOnce'
    <3>1. \A p : \A w : InBatch(w, p)' <=> InBatch(w, p)
      BY DEF InBatch
    <3>2. \A p : Queued(p)' <=> Queued(p) \/ p = o
      BY <1>a DEF Queued
    <3>3. ~Queued(o) /\ spc'[o] = "inserted" /\ calls[o] = 0 /\ \A w \in Workers : ~InBatch(w, o)
      BY DEF Data, AnsweredOnce, TypeOK
    <3>4. \A p \in Ops \ {o} : spc'[p] = spc[p]
      BY DEF TypeOK
    <3>5. \A e, f \in queue' : e.op = f.op /\ e.op \in Ops => e = f
      BY <1>a, <3>3 DEF Data, AnsweredOnce, Queued
    <3>6. ASSUME NEW p \in Ops
          PROVE  (/\ spc[p] \in {"new", "entered", "counted", "refused"} => ~Queued(p)
                  /\ \A w \in Workers : InBatch(w, p) =>
                       /\ ~Queued(p)
                       /\ spc[p] \notin {"new", "entered", "counted", "refused"}
                       /\ \A v \in Workers : InBatch(v, p) => v = w
                       /\ wpc[w] \in Decided => result[p] # Pending
                  /\ calls[p] = IF \/ spc[p] \in {"new", "entered", "counted"} \/ Queued(p)
                                   \/ \E w \in Workers : InBatch(w, p) /\ wpc[w] # "completing"
                                THEN 0 ELSE 1
                  /\ calls[p] = 1 => result[p] # Pending)'
      <4>1. CASE p = o
        BY <4>1, <3>1, <3>2, <3>3
      <4>2. CASE p # o
        BY <4>2, <3>1, <3>2, <3>4 DEF Data, AnsweredOnce
      <4> QED BY <4>1, <4>2
    <3> QED BY <3>5, <3>6 DEF AnsweredOnce
  <2> QED BY <2>1, <2>2, <2>3, <2>4, <2>5 DEF Data
<1>4. DrainedForGood'
  BY DEF DrainedForGood, Submitting, Waited, TypeOK
<1> QED BY <1>1, <1>2, <1>3, <1>4

\* enqueue_operations_() counts the touches of a worker, ...
LEMMA CountTouchesKeeps ==
  ASSUME Inv, NEW w \in Workers, CountTouches(w) PROVE Inv'
<1> USE ProfileMapAssumption DEF Inv, CountTouches, AddPending, Goto, queueVars, readyVars, callVars
<1>0. Cardinality(touches[w]) \in Nat /\ IsFiniteSet(touches[w])
  BY FS_CardinalityType DEF TypeOK
<1>1. TypeOK'
  BY <1>0 DEF TypeOK, Busy, Actors
<1>2. WorkersCounted'
  BY WorkersFrame DEF TypeOK, Busy, Collecting
<1>3. Data'
  <2>1. InFlightExact' /\ KeyExclusion'
    BY BatchFrame
  <2>2. BatchesHeld'
    BY DEF Data, BatchesHeld, Holding, TypeOK
  <2>3. PendingExact'
    <3>1. Moving[w] = {} /\ (Moving')[w] = touches[w]
      BY DEF Moving, TypeOK
    <3>2. \A u \in Workers : u # w => (Moving')[u] = Moving[u]
      BY DEF Moving, TypeOK
    <3>3. /\ Together(Moving) \in Nat /\ Together(Moving)' \in Nat
          /\ Together(Moving)' + Cardinality({}) = Together(Moving) + Cardinality(touches[w])
      BY <1>0, <3>1, <3>2, MovingStep
    <3>4. Cardinality({}) = 0
      BY FS_EmptySet
    <3>5. Cardinality(queue) \in Nat /\ Cardinality({o \in Ops : spc[o] = "counted"}) \in Nat
      BY PendingParts
    <3> QED BY <1>0, <3>3, <3>4, <3>5 DEF Data, PendingExact
  <2>4. StampsBehind'
    <3>1. \A o \in Ops : stamp'[o] = stamp[o]
      BY DEF TypeOK, Actors
    <3>2. \A u \in Workers : stamp'[u] = IF u = w THEN clock ELSE stamp[u]
      BY DEF TypeOK, Actors
    <3>3. \A u \in Workers : \A t : TouchEntry(u, t)'.stamp = stamp'[u]
      BY DEF TouchEntry
    <3>4. \A u \in Workers \ {w} : \A t : TouchEntry(u, t)' = TouchEntry(u, t)
      BY <3>2 DEF TouchEntry
    <3>5. clock \in Nat /\ clock' = clock + 1 /\ (\A e \in queue : e.stamp \in Nat)
          /\ \A a \in Actors : stamp[a] \in Nat
      BY DEF TypeOK, Entries
    <3>6. \A e \in queue' : e.stamp < clock'
      BY <3>5 DEF Data, StampsBehind
    <3>7. \A o \in Ops : spc'[o] = "counted" => stamp'[o] < clock'
      BY <3>1, <3>5 DEF Data, StampsBehind, Actors
    <3>8. \A u \in Workers : wpc'[u] = "inserting" =>
            stamp'[u] < clock' /\ \A t \in touches'[u] : TouchEntry(u, t)' \notin queue'
      <4>1. SUFFICES ASSUME NEW u \in Workers, wpc'[u] = "inserting"
                     PROVE  stamp'[u] < clock' /\ \A t \in touches'[u] : TouchEntry(u, t)' \notin queue'
        OBVIOUS
      <4>2. CASE u = w
        <5>1. stamp'[u] = clock /\ \A e \in queue : e.stamp # clock
          BY <4>2, <3>2, <3>5 DEF Data, StampsBehind
        <5> QED BY <5>1, <3>3, <3>5
      <4>3. CASE u # w
        BY <4>1, <4>3, <3>2, <3>4, <3>5 DEF Data, StampsBehind, TypeOK, Actors
      <4> QED BY <4>2, <4>3
    <3> QED BY <3>6, <3>7, <3>8 DEF StampsBehind
  <2>5. AnsweredOnce'
    <3>1. \A p : (Queued(p)' <=> Queued(p)) /\ \A u : InBatch(u, p)' <=> InBatch(u, p)
      BY DEF Queued, InBatch
    <3>2. \A u \in Workers : /\ wpc'[u] \in Decided <=> wpc[u] \in Decided
                             /\ wpc'[u] = "completing" <=> wpc[u] = "completing"
      BY DEF TypeOK, Decided
    <3> QED BY <3>1, <3>2 DEF Data, AnsweredOnce
  <2> QED BY <2>1, <2>2, <2>3, <2>4, <2>5 DEF Data
<1>4. DrainedForGood'
  BY DEF DrainedForGood, Submitting, Waited, TypeOK
<1> QED BY <1>1, <1>2, <1>3, <1>4

\* ... and puts them into their buckets.
LEMMA InsertTouchKeeps ==
  ASSUME Inv, NEW w \in Workers, NEW t \in touches[w], InsertTouch(w, t) PROVE Inv'
<1> USE ProfileMapAssumption DEF Inv, InsertTouch, queueVars, readyVars, callVars
<1>0. PICK x : x = TouchEntry(w, t)
  OBVIOUS
<1>a. /\ x.op = w /\ x.type = "touch" /\ queue' = queue \cup {x}
      /\ x.stamp = stamp[w] /\ w \notin Ops
  BY <1>0 DEF TouchEntry
<1>b. x \in Entries
  <2>1. t \in Keys \X Ops
    BY DEF TypeOK
  <2>2. t[1] \in Keys /\ t[2] \in Ops /\ stamp[w] \in Nat
    BY <2>1 DEF TypeOK, Actors
  <2> QED BY <2>2, <1>0 DEF TouchEntry, Entries
<1>c. x \notin queue
  BY <1>0 DEF Data, StampsBehind
<1>d. IsFiniteSet(queue') /\ Cardinality(queue') = Cardinality(queue) + 1
  <2>1. IsFiniteSet(queue \cup {x}) /\ Cardinality(queue \cup {x}) = Cardinality(queue) + 1
    BY <1>c, FS_AddElement DEF TypeOK
  <2> QED BY <2>1, <1>a, Zenon
<1>e. /\ touches'[w] = touches[w] \ {t} /\ \A u \in Workers \ {w} : touches'[u] = touches[u]
      /\ IsFiniteSet(touches[w]) /\ IsFiniteSet(touches[w] \ {t})
      /\ Cardinality(touches[w] \ {t}) = Cardinality(touches[w]) - 1
  BY FS_RemoveElement DEF TypeOK
<1>1. TypeOK'
  <2>1. queue' \subseteq Entries /\ touches' \in [Workers -> SUBSET (Keys \X Ops)]
    BY <1>a, <1>b DEF TypeOK
  <2>2. \A e \in queue' \cup UNION {batch'[u] : u \in Workers} :
           IF e.op \in Ops THEN e.type = OpType[e.op] /\ e.key = OpKey[e.op]
                           ELSE e.type = "touch"
    BY <1>a DEF TypeOK
  <2>3. \A u \in Workers : IsFiniteSet(batch'[u]) /\ IsFiniteSet(touches'[u])
    BY <1>e DEF TypeOK
  <2> QED BY <1>d, <2>1, <2>2, <2>3, ZenonT(60) DEF TypeOK
<1>2. WorkersCounted'
  BY WorkersFrame DEF TypeOK, Busy, Collecting
<1>3. Data'
  <2>1. InFlightExact' /\ KeyExclusion'
    BY BatchFrame
  <2>2. BatchesHeld'
    BY <1>e DEF Data, BatchesHeld
  <2>3. PendingExact'
    <3>1. Moving[w] = touches[w] /\ (Moving')[w] = touches[w] \ {t}
      BY <1>e DEF Moving, TypeOK
    <3>2. \A u \in Workers : u # w => (Moving')[u] = Moving[u]
      BY <1>e DEF Moving, TypeOK
    <3>3. /\ Together(Moving) \in Nat /\ Together(Moving)' \in Nat
          /\ Together(Moving)' + Cardinality(touches[w])
               = Together(Moving) + Cardinality(touches[w] \ {t})
      <4>1. IsFiniteSet(touches[w] \ {t}) /\ TypeOK
        BY <1>e
      <4> QED BY ONLY <4>1, <3>1, <3>2, w \in Workers, MovingStep
    <3>4. Cardinality(queue) \in Nat /\ Cardinality({o \in Ops : spc[o] = "counted"}) \in Nat
      BY PendingParts
    <3>5. Cardinality(touches[w]) \in Nat
      BY <1>e, FS_CardinalityType
    <3> QED BY <1>d, <1>e, <3>3, <3>4, <3>5 DEF Data, PendingExact
  <2>4. StampsBehind'
    <3>1. \A u, s : TouchEntry(u, s)' = TouchEntry(u, s)
      BY DEF TouchEntry
    <3>2. \A e \in queue' : e.stamp < clock'
      BY <1>a DEF Data, StampsBehind
    <3>3. ASSUME NEW u \in Workers, wpc'[u] = "inserting", NEW s \in touches'[u]
          PROVE  TouchEntry(u, s)' \notin queue'
      <4>1. s \in touches[u] /\ TouchEntry(u, s) \notin queue
        BY <1>e, <3>3 DEF Data, StampsBehind
      <4>2. TouchEntry(u, s) # x
        <5>1. CASE u # w
          BY <5>1, <1>a DEF TouchEntry
        <5>2. CASE u = w
          <6>1. s # t /\ s \in Keys \X Ops /\ t \in Keys \X Ops
            BY <5>2, <1>e, <4>1 DEF TypeOK
          <6>2. s[1] # t[1] \/ s[2] # t[2]
            BY <6>1
          <6> QED BY <6>2, <1>0 DEF TouchEntry
        <5> QED BY <5>1, <5>2
      <4> QED BY <4>1, <4>2, <3>1, <1>a
    <3> QED BY <3>2, <3>3 DEF Data, StampsBehind
  <2>5. AnsweredOnce'
    <3>1. \A p : \A u : InBatch(u, p)' <=> InBatch(u, p)
      BY DEF InBatch
    <3>2. \A p \in Ops : Queued(p)' <=> Queued(p)
      BY <1>a DEF Queued
    <3>3. \A e, f \in queue' : e.op = f.op /\ e.op \in Ops => e = f
      BY <1>a DEF Data, AnsweredOnce
    <3> QED BY <3>1, <3>2, <3>3 DEF Data, AnsweredOnce
  <2> QED BY <2>1, <2>2, <2>3, <2>4, <2>5 DEF Data
<1>4. DrainedForGood'
  BY DEF DrainedForGood, Submitting, Waited, TypeOK
<1> QED BY <1>1, <1>2, <1>3, <1>4

\* What was collected is subtracted.
LEMMA CollectSubKeeps ==
  ASSUME Inv, NEW w \in Workers, CollectSub(w) PROVE Inv'
<1> USE ProfileMapAssumption DEF Inv, CollectSub, Goto, queueVars, readyVars, callVars
<1>0. Cardinality(batch[w]) \in Nat /\ IsFiniteSet(batch[w])
  BY FS_CardinalityType DEF TypeOK
<1>1. PendingExact' /\ pending' \in Nat
  <2>1. Moving[w] = batch[w] /\ (Moving')[w] = {}
    BY DEF Moving, TypeOK
  <2>2. \A u \in Workers : u # w => (Moving')[u] = Moving[u]
    BY DEF Moving, TypeOK
  <2>3. IsFiniteSet({}) /\ Cardinality({}) = 0
    BY FS_EmptySet
  <2>4. /\ Together(Moving) \in Nat /\ Together(Moving)' \in Nat
        /\ Together(Moving)' + Cardinality(batch[w]) = Together(Moving) + Cardinality({})
    BY <2>1, <2>2, <2>3, MovingStep
  <2>5. Cardinality(queue) \in Nat /\ Cardinality({o \in Ops : spc[o] = "counted"}) \in Nat
    BY PendingParts
  <2>6. pending = Cardinality(queue) + Cardinality({o \in Ops : spc[o] = "counted"}) + Together(Moving)
    BY DEF Data, PendingExact
  <2>7. pending' \in Nat
    BY <1>0, <2>3, <2>4, <2>5, <2>6
  <2> QED BY <1>0, <2>3, <2>4, <2>5, <2>6, <2>7 DEF PendingExact
<1>2. TypeOK'
  BY <1>1 DEF TypeOK, Busy
<1>3. WorkersCounted'
  BY WorkersFrame DEF TypeOK, Busy, Collecting
<1>4. Data'
  <2>1. InFlightExact' /\ KeyExclusion'
    BY BatchFrame
  <2>2. BatchesHeld'
    BY DEF Data, BatchesHeld, Holding, TypeOK
  <2>3. StampsBehind'
    <3>1. \A u, s : TouchEntry(u, s)' = TouchEntry(u, s)
      BY DEF TouchEntry
    <3> QED BY <3>1 DEF Data, StampsBehind, TypeOK
  <2>4. AnsweredOnce'
    <3>1. \A p : (Queued(p)' <=> Queued(p)) /\ \A u : InBatch(u, p)' <=> InBatch(u, p)
      BY DEF Queued, InBatch
    <3>2. \A u \in Workers : /\ wpc'[u] \in Decided <=> wpc[u] \in Decided
                             /\ wpc'[u] = "completing" <=> wpc[u] = "completing"
      BY DEF TypeOK, Decided
    <3> QED BY <3>1, <3>2 DEF Data, AnsweredOnce
  <2> QED BY <1>1, <2>1, <2>2, <2>3, <2>4 DEF Data
<1>5. DrainedForGood'
  BY <1>1 DEF DrainedForGood, Submitting, Waited, TypeOK
<1> QED BY <1>2, <1>3, <1>4, <1>5

-----------------------------------------------------------------------------
(* Steps on the batches *)

\* The operations of a batch are those its callbacks are for.
LEMMA BatchOpsIn ==
  ASSUME TypeOK, NEW w \in Workers, NEW o \in Ops
  PROVE  o \in BatchOps(w) <=> InBatch(w, o)
<1>1. OpType[o] # "touch"
  BY ProfileMapAssumption
<1>2. \A e \in batch[w] : e.op = o => e.type # "touch"
  BY <1>1 DEF TypeOK
<1> QED BY <1>2 DEF BatchOps, InBatch

\* The operations of a batch get their results.
LEMMA DecideFrame ==
  ASSUME TypeOK, Data, NEW w \in Workers, NEW place \in {"answering", "touching"}, NEW T,
         UNCHANGED <<queue, pending, inRead, inWrite, clock, batch, calls, spc, stamp>>,
         wpc[w] = "processing", Goto(w, place),
         touches' = [touches EXCEPT ![w] = T], place = "answering" => T = {},
         \A o \in Ops : IF InBatch(w, o) THEN result'[o] # Pending ELSE result'[o] = result[o]
  PROVE  Data'
<1> USE ProfileMapAssumption DEF Data, Goto
<1>0. /\ wpc'[w] = place /\ touches'[w] = T
      /\ \A u \in Workers : u # w => wpc'[u] = wpc[u] /\ touches'[u] = touches[u]
  BY DEF TypeOK
<1>1. InFlightExact' /\ KeyExclusion'
  BY BatchFrame
<1>2. BatchesHeld'
  BY <1>0 DEF BatchesHeld, Holding
<1>3. PendingExact'
  <2>1. \A u \in Workers : (Moving')[u] = Moving[u]
    BY <1>0 DEF Moving
  <2>2. Together(Moving') = Together(Moving)
    BY <2>1, TogetherSame
  <2>3. Together(Moving)' = Together(Moving')
    BY DEF Together
  <2> QED BY <2>2, <2>3 DEF PendingExact
<1>4. StampsBehind'
  <2>1. \A u, s : TouchEntry(u, s)' = TouchEntry(u, s)
    BY DEF TouchEntry
  <2> QED BY <1>0, <2>1 DEF StampsBehind
<1>5. AnsweredOnce'
  <2>1. \A p : (Queued(p)' <=> Queued(p)) /\ \A u : InBatch(u, p)' <=> InBatch(u, p)
    BY DEF Queued, InBatch
  <2>2. \A u \in Workers : wpc'[u] = "completing" <=> wpc[u] = "completing"
    BY <1>0
  <2>3. \A u \in Workers : u # w => (wpc'[u] \in Decided <=> wpc[u] \in Decided)
    BY <1>0
  <2>4. \A e, f \in queue' : e.op = f.op /\ e.op \in Ops => e = f
    BY DEF AnsweredOnce
  <2>5. ASSUME NEW o \in Ops
        PROVE  (/\ spc[o] \in {"new", "entered", "counted", "refused"} => ~Queued(o)
                /\ \A u \in Workers : InBatch(u, o) =>
                     /\ ~Queued(o)
                     /\ spc[o] \notin {"new", "entered", "counted", "refused"}
                     /\ \A v \in Workers : InBatch(v, o) => v = u
                     /\ wpc[u] \in Decided => result[o] # Pending
                /\ calls[o] = IF \/ spc[o] \in {"new", "entered", "counted"} \/ Queued(o)
                                 \/ \E u \in Workers : InBatch(u, o) /\ wpc[u] # "completing"
                              THEN 0 ELSE 1
                /\ calls[o] = 1 => result[o] # Pending)'
    <3>1. CASE InBatch(w, o)
      BY <3>1, <2>1, <2>2 DEF AnsweredOnce
    <3>2. CASE ~InBatch(w, o)
      BY <3>2, <2>1, <2>2, <2>3 DEF AnsweredOnce
    <3> QED BY <3>1, <3>2
  <2> QED BY <2>4, <2>5 DEF AnsweredOnce
<1> QED BY <1>1, <1>2, <1>3, <1>4, <1>5

LEMMA ReadBatchKeeps ==
  ASSUME Inv, NEW w \in Workers, NEW bad, NEW touch \in SUBSET BatchKeys(w),
         ReadBatch(w, bad, touch)
  PROVE  Inv'
<1> USE ProfileMapAssumption DEF Inv, queueVars, readyVars, callVars
<1>0. PICK kept, T, place :
        /\ kept = IF open THEN touch ELSE {}
        /\ T = {<<k, db[k]>> : k \in kept}
        /\ place = IF kept = {} THEN "answering" ELSE "touching"
  OBVIOUS
<1>a. touches' = [touches EXCEPT ![w] = T] /\ Goto(w, place) /\ wpc[w] = "processing"
  BY <1>0 DEF ReadBatch
<1>b. /\ kept \subseteq BatchKeys(w) /\ place \in {"answering", "touching"}
      /\ place = "answering" => T = {}
      /\ place = "touching" => open
  BY <1>0
<1>c. BatchKeys(w) \subseteq Keys
  BY DEF BatchKeys, TypeOK, Entries
<1>d. \A k \in kept : db[k] \in Ops
  <2>1. \A k \in kept : db[k] # Absent
    BY <1>0 DEF ReadBatch, Touchable
  <2> QED BY <2>1, <1>b, <1>c DEF TypeOK
<1>e. IsFiniteSet(T)
  <2>1. IsFiniteSet(batch[w])
    BY DEF TypeOK
  <2>2. PICK g : g = [e \in batch[w] |-> e.key]
    OBVIOUS
  <2>3. IsFiniteSet({g[e] : e \in batch[w]})
    BY <2>1, ImageFinite
  <2>4. {g[e] : e \in batch[w]} = BatchKeys(w)
    BY <2>2 DEF BatchKeys
  <2>5. IsFiniteSet(BatchKeys(w))
    BY <2>3, <2>4, Zenon
  <2>6. IsFiniteSet(kept)
    BY <1>b, <2>5, FS_Subset
  <2>7. PICK h : h = [k \in kept |-> <<k, db[k]>>]
    OBVIOUS
  <2>8. IsFiniteSet({h[k] : k \in kept})
    BY <2>6, ImageFinite
  <2>9. {h[k] : k \in kept} = T
    BY <1>0, <2>7
  <2> QED BY <2>8, <2>9, Zenon
<1>f. \A o \in Ops : IF InBatch(w, o) THEN result'[o] # Pending ELSE result'[o] = result[o]
  <2>1. SUFFICES ASSUME NEW o \in Ops
                 PROVE  IF InBatch(w, o) THEN result'[o] # Pending ELSE result'[o] = result[o]
    OBVIOUS
  <2>2. o \in BatchOps(w) <=> InBatch(w, o)
    BY BatchOpsIn
  <2>3. result'[o] = IF o \notin BatchOps(w) THEN result[o]
                     ELSE IF OpKey[o] \in bad THEN "error" ELSE ReadValue(o)
    BY DEF ReadBatch
  <2>4. ReadValue(o) \in Ops \cup {Absent, "missing", "found"}
    BY DEF ReadValue, TypeOK
  <2> QED BY <2>2, <2>3, <2>4
<1>1. TypeOK'
  <2>1. T \subseteq Keys \X Ops
    BY <1>0, <1>b, <1>c, <1>d
  <2>2. touches' \in [Workers -> SUBSET (Keys \X Ops)]
        /\ \A u \in Workers : IsFiniteSet(touches'[u])
    BY <1>a, <1>e, <2>1 DEF TypeOK
  <2>3. wpc' \in [Workers -> Busy \cup {"loop", "asleep", "timed", "draining", "exit"}]
    BY <1>a, <1>b DEF Goto, TypeOK, Busy
  <2>4. result' \in [Ops -> Ops \cup {Absent, Pending, "ok", "error", "found", "missing"}]
    <3>1. \A o \in Ops : ReadValue(o) \in Ops \cup {Absent, "missing", "found"}
      BY DEF ReadValue, TypeOK
    <3>2. result' = [o \in Ops |-> IF o \notin BatchOps(w) THEN result[o]
                                   ELSE IF OpKey[o] \in bad THEN "error" ELSE ReadValue(o)]
      BY DEF ReadBatch
    <3> QED BY <3>1, <3>2 DEF TypeOK
  <2>5. UNCHANGED <<open, queue, next, pending, published, inRead, inWrite, active, stateLock,
                    ready, registered, stopping, db, clock, spc, opc, stamp, claim, batch, calls>>
    BY DEF ReadBatch
  <2> QED BY <2>2, <2>3, <2>4, <2>5 DEF TypeOK
<1>2. WorkersCounted'
  BY <1>a, <1>b, WorkersFrame DEF ReadBatch, Goto, TypeOK, Busy, Collecting
<1>3. Data'
  <2>1. UNCHANGED <<queue, pending, inRead, inWrite, clock, batch, calls, spc, stamp>>
    BY DEF ReadBatch
  <2> QED BY <2>1, <1>a, <1>b, <1>f, DecideFrame
<1>4. DrainedForGood'
  <2>1. open => opc = "running"
    BY DEF DrainedForGood
  <2> QED BY <2>1, <1>a, <1>b DEF DrainedForGood, Submitting, Waited, TypeOK, ReadBatch, Goto
<1> QED BY <1>1, <1>2, <1>3, <1>4

\* The write of a group that wins is one of the group.
LEMMA LatestIn ==
  ASSUME NEW S \in SUBSET Entries, IsFiniteSet(S), S # {}
  PROVE  Latest(S) \in S
<1>1. PICK from : from = IF {e \in S : e.type # "touch"} # {}
                           THEN {e \in S : e.type # "touch"} ELSE S
  OBVIOUS
<1>2. from \subseteq S /\ from # {} /\ IsFiniteSet(from)
  BY <1>1, FS_Subset
<1>3. Stamps(from) \subseteq Nat /\ Stamps(from) # {}
  BY <1>2 DEF Stamps, Entries
<1>4. IsFiniteSet(Stamps(from))
  <2>1. PICK g : g = [e \in from |-> e.stamp]
    OBVIOUS
  <2>2. IsFiniteSet({g[e] : e \in from})
    BY <1>2, ImageFinite
  <2>3. {g[e] : e \in from} = Stamps(from)
    BY <2>1 DEF Stamps
  <2> QED BY <2>2, <2>3, Zenon
<1>5. Max(Stamps(from)) \in Stamps(from)
  BY <1>3, <1>4, MaxOf
<1>6. \E e \in from : e.stamp = Max(Stamps(from))
  BY <1>5 DEF Stamps
<1>7. Latest(S) = CHOOSE e \in from : e.stamp = Max(Stamps(from))
  BY <1>1 DEF Latest
<1>8. Latest(S) \in from
  BY <1>6, <1>7, Zenon
<1> QED BY <1>2, <1>8

LEMMA WriteOkKeeps ==
  ASSUME Inv, NEW w \in Workers, WriteOk(w) PROVE Inv'
<1> USE ProfileMapAssumption DEF Inv, WriteOk, queueVars, readyVars, callVars
<1>0. \A k \in BatchKeys(w) : Winner(w, k).val \in Ops
  <2>1. SUFFICES ASSUME NEW k \in BatchKeys(w) PROVE Winner(w, k).val \in Ops
    OBVIOUS
  <2>2. PICK S : S = Group(batch[w], TRUE, k)
    OBVIOUS
  <2>3. \A e \in batch[w] : IsWrite(e) = TRUE
    <3>1. \A e \in batch[w] : IsWrite(e)
      BY DEF Data, BatchesHeld, WriteBatch
    <3> QED BY <3>1 DEF IsWrite
  <2>4. S \subseteq batch[w] /\ S # {}
    BY <2>2, <2>3 DEF Group, BatchKeys
  <2>5. S \in SUBSET Entries /\ IsFiniteSet(S)
    BY <2>4, FS_Subset DEF TypeOK
  <2>6. Latest(S) \in Entries
    BY <2>4, <2>5, LatestIn
  <2> QED BY <2>2, <2>6 DEF Winner, Entries
<1>1. TypeOK'
  <2>1. db' \in [Keys -> Ops \cup {Absent}]
    BY <1>0 DEF TypeOK
  <2>2. wpc' \in [Workers -> Busy \cup {"loop", "asleep", "timed", "draining", "exit"}]
    BY DEF Goto, TypeOK, Busy
  <2> QED BY <2>1, <2>2 DEF TypeOK
<1>2. WorkersCounted'
  BY WorkersFrame DEF Goto, TypeOK, Busy, Collecting
<1>3. Data'
  <2>1. touches' = [touches EXCEPT ![w] = {}]
    BY DEF Data, BatchesHeld, TypeOK
  <2>2. \A o \in Ops : IF InBatch(w, o) THEN result'[o] # Pending ELSE result'[o] = result[o]
    BY BatchOpsIn
  <2> QED BY <2>1, <2>2, DecideFrame
<1>4. DrainedForGood'
  BY DEF DrainedForGood, Submitting, Waited, TypeOK, Goto
<1> QED BY <1>1, <1>2, <1>3, <1>4

LEMMA WriteFailsKeeps ==
  ASSUME Inv, NEW w \in Workers, WriteFails(w) PROVE Inv'
<1> USE ProfileMapAssumption DEF Inv, WriteFails, queueVars, readyVars, callVars
<1>1. TypeOK'
  <2>1. open' \in BOOLEAN
    OBVIOUS
  <2>2. wpc' \in [Workers -> Busy \cup {"loop", "asleep", "timed", "draining", "exit"}]
    BY DEF Goto, TypeOK, Busy
  <2> QED BY <2>1, <2>2 DEF TypeOK
<1>2. WorkersCounted'
  BY WorkersFrame DEF Goto, TypeOK, Busy, Collecting
<1>3. Data'
  <2>1. touches' = [touches EXCEPT ![w] = {}]
    BY DEF Data, BatchesHeld, TypeOK
  <2>2. \A o \in Ops : IF InBatch(w, o) THEN result'[o] # Pending ELSE result'[o] = result[o]
    BY BatchOpsIn
  <2> QED BY <2>1, <2>2, DecideFrame
<1>4. DrainedForGood'
  BY DEF DrainedForGood, Submitting, Waited, TypeOK, Goto
<1> QED BY <1>1, <1>2, <1>3, <1>4

\* The callbacks of the batch.
LEMMA CallBackKeeps ==
  ASSUME Inv, NEW w \in Workers, CallBack(w) PROVE Inv'
<1> USE ProfileMapAssumption DEF Inv, CallBack, Goto, queueVars, readyVars, callVars
<1>1. TypeOK'
  <2>1. calls' \in [Ops -> Nat]
    BY DEF TypeOK
  <2>2. wpc' \in [Workers -> Busy \cup {"loop", "asleep", "timed", "draining", "exit"}]
    BY DEF TypeOK, Busy
  <2> QED BY <2>1, <2>2 DEF TypeOK
<1>2. WorkersCounted'
  BY WorkersFrame DEF TypeOK, Busy, Collecting
<1>3. Data'
  <2>0. wpc'[w] = "completing" /\ \A u \in Workers : u # w => wpc'[u] = wpc[u]
    BY DEF TypeOK
  <2>1. InFlightExact' /\ KeyExclusion'
    BY BatchFrame
  <2>2. BatchesHeld'
    BY <2>0 DEF Data, BatchesHeld, Holding
  <2>3. PendingExact'
    <3>1. \A u \in Workers : (Moving')[u] = Moving[u]
      BY <2>0 DEF Moving
    <3>2. Together(Moving') = Together(Moving)
      BY <3>1, TogetherSame
    <3>3. Together(Moving)' = Together(Moving')
      BY DEF Together
    <3> QED BY <3>2, <3>3 DEF Data, PendingExact
  <2>4. StampsBehind'
    <3>1. \A u, s : TouchEntry(u, s)' = TouchEntry(u, s)
      BY DEF TouchEntry
    <3> QED BY <2>0, <3>1 DEF Data, StampsBehind
  <2>5. AnsweredOnce'
    <3>1. \A p : (Queued(p)' <=> Queued(p)) /\ \A u : InBatch(u, p)' <=> InBatch(u, p)
      BY DEF Queued, InBatch
    <3>2. \A u \in Workers : wpc'[u] \in Decided <=> wpc[u] \in Decided
      BY <2>0 DEF Decided
    <3>3. \A o \in Ops : calls'[o] = calls[o] + IF InBatch(w, o) THEN 1 ELSE 0
      BY BatchOpsIn
    <3>4. \A e, f \in queue' : e.op = f.op /\ e.op \in Ops => e = f
      BY DEF Data, AnsweredOnce
    <3>5. ASSUME NEW o \in Ops
          PROVE  (/\ spc[o] \in {"new", "entered", "counted", "refused"} => ~Queued(o)
                  /\ \A u \in Workers : InBatch(u, o) =>
                       /\ ~Queued(o)
                       /\ spc[o] \notin {"new", "entered", "counted", "refused"}
                       /\ \A v \in Workers : InBatch(v, o) => v = u
                       /\ wpc[u] \in Decided => result[o] # Pending
                  /\ calls[o] = IF \/ spc[o] \in {"new", "entered", "counted"} \/ Queued(o)
                                   \/ \E u \in Workers : InBatch(u, o) /\ wpc[u] # "completing"
                                THEN 0 ELSE 1
                  /\ calls[o] = 1 => result[o] # Pending)'
      <4>1. CASE InBatch(w, o)
        <5>1. calls[o] = 0 /\ calls'[o] = 1
          BY <4>1, <3>3 DEF Data, AnsweredOnce
        <5>2. result[o] # Pending /\ ~Queued(o) /\ spc[o] \notin {"new", "entered", "counted", "refused"}
              /\ \A u \in Workers : InBatch(u, o) => u = w
          BY <4>1 DEF Data, AnsweredOnce, Decided
        <5> QED BY <5>1, <5>2, <2>0, <3>1
      <4>2. CASE ~InBatch(w, o)
        <5>1. calls'[o] = calls[o]
          BY <4>2, <3>3 DEF TypeOK
        <5>2. \A u \in Workers : InBatch(u, o) => u # w /\ wpc'[u] = wpc[u]
          BY <4>2, <2>0
        <5> QED BY <5>1, <5>2, <3>1, <3>2 DEF Data, AnsweredOnce
      <4> QED BY <4>1, <4>2
    <3> QED BY <3>4, <3>5 DEF AnsweredOnce
  <2> QED BY <2>1, <2>2, <2>3, <2>4, <2>5 DEF Data
<1>4. DrainedForGood'
  BY DEF DrainedForGood, Submitting, Waited, TypeOK
<1> QED BY <1>1, <1>2, <1>3, <1>4

\* One worker's batch changes from A to B: the number of operations in flight.
LEMMA InFlightStep ==
  ASSUME TypeOK, NEW w \in Workers, NEW A, NEW B, NEW k \in Keys, NEW write \in BOOLEAN,
         InFlight(write, k)[w] = A, (InFlight(write, k)')[w] = B, IsFiniteSet(B),
         \A u \in Workers : u # w => (InFlight(write, k)')[u] = InFlight(write, k)[u]
  PROVE  /\ Together(InFlight(write, k)) \in Nat /\ Together(InFlight(write, k))' \in Nat
         /\ Together(InFlight(write, k))' + Cardinality(A)
              = Together(InFlight(write, k)) + Cardinality(B)
<1>1. PICK M, N : M = InFlight(write, k) /\ N = InFlight(write, k)'
  OBVIOUS
<1>2. \A u \in Workers : IsFiniteSet(M[u])
  BY <1>1, SetsFinite
<1>3. IsFiniteSet(N[w]) /\ \A u \in Workers \ {w} : N[u] = M[u]
  BY <1>1
<1>4. /\ Together(M) \in Nat /\ Together(N) \in Nat
      /\ Together(N) + Cardinality(M[w]) = Together(M) + Cardinality(N[w])
  BY <1>2, <1>3, TogetherUpdate
<1>5. Cardinality(M[w]) = Cardinality(A) /\ Cardinality(N[w]) = Cardinality(B)
  BY <1>1, Zenon
<1>6. Together(M) = Together(InFlight(write, k)) /\ Together(N) = Together(InFlight(write, k))'
  BY <1>1 DEF Together
<1> QED BY <1>4, <1>5, <1>6

\* A homogeneous set of entries counts for the one kind and not for the other.
LEMMA CountOfKind ==
  ASSUME NEW S, IsFiniteSet(S), NEW k, NEW kind \in BOOLEAN, NEW write \in BOOLEAN,
         \A e \in S : IsWrite(e) <=> kind,
         NEW part \in SUBSET S,
         \A e \in S : e \in part <=> e.key = k /\ (IsWrite(e) <=> write)
  PROVE  /\ IsFiniteSet(part) /\ Cardinality(part) \in Nat
         /\ Cardinality(part) = IF kind = write THEN Count(S, k) ELSE 0
<1>1. part = {e \in S : e.key = k /\ (IsWrite(e) <=> write)}
  OBVIOUS
<1>2. IsFiniteSet(part) /\ Cardinality(part) \in Nat
  BY <1>1, FS_Subset, FS_CardinalityType
<1>3. CASE kind = write
  <2>1. part = {e \in S : e.key = k}
    BY <1>1, <1>3
  <2>2. Cardinality(part) = Count(S, k)
    BY <2>1, Zenon DEF Count
  <2> QED BY <1>1, <1>2, <1>3, <2>2
<1>4. CASE kind # write
  <2>1. part = {}
    BY <1>1, <1>4
  <2>2. Cardinality(part) = 0
    BY <2>1, FS_EmptySet, Zenon
  <2> QED BY <1>1, <1>2, <1>4, <2>2
<1> QED BY <1>3, <1>4

\* The keys of the batch are given free.
LEMMA CompleteBatchKeeps ==
  ASSUME Inv, NEW w \in Workers, CompleteBatch(w) PROVE Inv'
<1> USE ProfileMapAssumption DEF Inv, queueVars, readyVars, callVars
<1>a. /\ wpc[w] = "completing" /\ wpc' = [wpc EXCEPT ![w] = "completed"]
      /\ batch' = [batch EXCEPT ![w] = {}]
      /\ UNCHANGED <<open, queue, next, pending, active, stateLock, ready, registered, stopping,
                     db, clock, spc, opc, stamp, touches, result, calls>>
  BY DEF CompleteBatch, Goto
<1>b. /\ wpc'[w] = "completed" /\ batch'[w] = {}
      /\ \A u \in Workers : u # w => wpc'[u] = wpc[u] /\ batch'[u] = batch[u]
  BY <1>a DEF TypeOK
<1>c. \A k \in Keys : \A write \in BOOLEAN :
         /\ Together(InFlight(write, k)) \in Nat /\ Together(InFlight(write, k))' \in Nat
         /\ Together(InFlight(write, k))'
              = Together(InFlight(write, k))
                - IF WriteBatch(w) = write THEN Count(batch[w], k) ELSE 0
  <2>1. SUFFICES ASSUME NEW k \in Keys, NEW write \in BOOLEAN
                 PROVE /\ Together(InFlight(write, k)) \in Nat /\ Together(InFlight(write, k))' \in Nat
                       /\ Together(InFlight(write, k))'
                            = Together(InFlight(write, k))
                              - IF WriteBatch(w) = write THEN Count(batch[w], k) ELSE 0
    OBVIOUS
  <2>2. PICK A : A = {e \in batch[w] : e.key = k /\ (IsWrite(e) <=> write)}
    OBVIOUS
  <2>0. PICK B : B = {}
    OBVIOUS
  <2>3. InFlight(write, k)[w] = A /\ (InFlight(write, k)')[w] = B
    BY <1>b, <2>0, <2>2 DEF InFlight
  <2>4. \A u \in Workers : u # w => (InFlight(write, k)')[u] = InFlight(write, k)[u]
    BY <1>b DEF InFlight
  <2>5. IsFiniteSet(B) /\ Cardinality(B) = 0
    BY <2>0, FS_EmptySet
  <2>6. TypeOK /\ IsFiniteSet(batch[w])
    BY DEF TypeOK
  <2>7. /\ Together(InFlight(write, k)) \in Nat /\ Together(InFlight(write, k))' \in Nat
        /\ Together(InFlight(write, k))' + Cardinality(A)
             = Together(InFlight(write, k)) + Cardinality(B)
    BY ONLY <2>3, <2>4, <2>5, <2>6, w \in Workers, k \in Keys, write \in BOOLEAN, InFlightStep
  <2>8. PICK kind \in BOOLEAN : kind = WriteBatch(w)
    BY DEF WriteBatch
  <2>9. \A e \in batch[w] : IsWrite(e) <=> kind
    BY <2>8 DEF Data, BatchesHeld, WriteBatch
  <2>10. /\ Cardinality(A) \in Nat
         /\ Cardinality(A) = IF kind = write THEN Count(batch[w], k) ELSE 0
    <3>1. PICK S : S = batch[w]
      OBVIOUS
    <3>2. /\ IsFiniteSet(S) /\ \A e \in S : IsWrite(e) <=> kind
          /\ A \in SUBSET S
          /\ \A e \in S : e \in A <=> e.key = k /\ (IsWrite(e) <=> write)
      BY <3>1, <2>2, <2>6, <2>9
    <3>3. /\ Cardinality(A) \in Nat
          /\ Cardinality(A) = IF kind = write THEN Count(S, k) ELSE 0
      BY ONLY <3>2, kind \in BOOLEAN, write \in BOOLEAN, CountOfKind, ZenonT(60)
    <3> QED BY <3>1, <3>3
  <2> QED BY <2>5, <2>7, <2>8, <2>10
<1>d. \A k \in Keys :
        /\ inWrite'[k] = inWrite[k] - IF WriteBatch(w) = TRUE THEN Count(batch[w], k) ELSE 0
        /\ inRead'[k] = inRead[k] - IF WriteBatch(w) = FALSE THEN Count(batch[w], k) ELSE 0
  BY DEF CompleteBatch
<1>e. \A k \in Keys : /\ inWrite'[k] = Together(InFlight(TRUE, k))'
                     /\ inRead'[k] = Together(InFlight(FALSE, k))'
  <2>1. \A k \in Keys : /\ inWrite[k] = Together(InFlight(TRUE, k))
                       /\ inRead[k] = Together(InFlight(FALSE, k))
    BY DEF Data, InFlightExact
  <2> QED BY <2>1, <1>c, <1>d, ZenonT(60)
<1>1. TypeOK'
  <2>1. inRead' \in [Keys -> Nat] /\ inWrite' \in [Keys -> Nat]
    <3>1. \A k \in Keys : inWrite'[k] \in Nat /\ inRead'[k] \in Nat
      BY <1>c, <1>e
    <3>2. /\ inWrite' = [k \in Keys |-> inWrite'[k]]
          /\ inRead' = [k \in Keys |-> inRead'[k]]
      BY DEF CompleteBatch
    <3> QED BY <3>1, <3>2
  <2>2. published' \in BOOLEAN /\ claim' \in [Actors -> {"none", "later", "now"}]
    BY DEF CompleteBatch, RequestReady, ReadyTime, TypeOK
  <2>3. batch' \in [Workers -> SUBSET Entries] /\ (\A u \in Workers : IsFiniteSet(batch'[u]))
        /\ UNION {batch'[u] : u \in Workers} \subseteq UNION {batch[u] : u \in Workers}
    BY <1>a, <1>b, FS_EmptySet DEF TypeOK
  <2>4. wpc' \in [Workers -> Busy \cup {"loop", "asleep", "timed", "draining", "exit"}]
    BY <1>a DEF TypeOK, Busy
  <2> QED BY <1>a, <2>1, <2>2, <2>3, <2>4 DEF TypeOK
<1>2. WorkersCounted'
  BY <1>a, <1>b, WorkersFrame DEF TypeOK, Busy, Collecting
<1>3. Data'
  <2>1. InFlightExact'
    BY <1>e DEF InFlightExact
  <2>2. KeyExclusion'
    BY <1>b DEF Data, KeyExclusion, Holds, WriteBatch
  <2>3. BatchesHeld'
    BY <1>a, <1>b DEF Data, BatchesHeld, Holding
  <2>4. PendingExact'
    <3>1. \A u \in Workers : (Moving')[u] = Moving[u]
      BY <1>a, <1>b DEF Moving
    <3>2. Together(Moving') = Together(Moving)
      BY <3>1, TogetherSame
    <3>3. Together(Moving)' = Together(Moving')
      BY DEF Together
    <3> QED BY <1>a, <3>2, <3>3 DEF Data, PendingExact
  <2>5. StampsBehind'
    <3>1. \A u, s : TouchEntry(u, s)' = TouchEntry(u, s)
      BY <1>a DEF TouchEntry
    <3> QED BY <1>a, <1>b, <3>1 DEF Data, StampsBehind
  <2>6. AnsweredOnce'
    <3>1. \A p : Queued(p)' <=> Queued(p)
      BY <1>a DEF Queued
    <3>2. \A p : \A u \in Workers : InBatch(u, p)' <=> InBatch(u, p) /\ u # w
      BY <1>b DEF InBatch
    <3>3. \A e, f \in queue' : e.op = f.op /\ e.op \in Ops => e = f
      BY <1>a DEF Data, AnsweredOnce
    <3> QED BY <1>a, <1>b, <3>1, <3>2, <3>3 DEF Data, AnsweredOnce
  <2> QED BY <2>1, <2>2, <2>3, <2>4, <2>5, <2>6 DEF Data
<1>4. DrainedForGood'
  BY <1>a DEF DrainedForGood, Submitting, Waited, TypeOK
<1> QED BY <1>1, <1>2, <1>3, <1>4

-----------------------------------------------------------------------------
(* What collect_batch_i_() collects *)

LEMMA OffsetType ==
  ASSUME TypeOK, NEW k \in Keys
  PROVE  Offset(next, k) \in Nat
<1>1. Bucket[k] \in Nat /\ Bucket[k] + BucketCount - next \in Nat /\ BucketCount \in Nat \ {0}
  BY BatchingQueueAssumption DEF TypeOK
<1>2. \A a \in Nat : \A b \in Nat \ {0} : a % b \in Nat /\ a % b < b
  OBVIOUS
<1> QED BY <1>1, <1>2 DEF Offset

LEMMA GroupTimeType ==
  ASSUME TypeOK, NEW write, NEW k, Group(queue, write, k) # {}
  PROVE  GroupTime(queue, write, k) \in Nat
<1>1. Stamps(Group(queue, write, k)) \subseteq Nat /\ Stamps(Group(queue, write, k)) # {}
  BY DEF Stamps, Group, TypeOK, Entries
<1> QED BY <1>1, MinOf DEF GroupTime

\* The kind of the batch is one of which a group is ready.
LEMMA SelectedKindReady ==
  ASSUME TypeOK, SomeReady, NEW write, write = SelectWrites(queue, inRead, inWrite, next)
  PROVE  write \in BOOLEAN /\ ReadyKeys(queue, inRead, inWrite, write) # {}
<1>1. PICK writes, reads : /\ writes = ReadyKeys(queue, inRead, inWrite, TRUE)
                           /\ reads = ReadyKeys(queue, inRead, inWrite, FALSE)
  OBVIOUS
<1>2. PICK offsets : offsets = {Offset(next, k) : k \in writes \cup reads}
  OBVIOUS
<1>3. writes \cup reads # {} /\ writes \cup reads \subseteq Keys
  BY <1>1 DEF SomeReady, ReadyKeys
<1>4. offsets \subseteq Nat /\ offsets # {}
  BY <1>2, <1>3, OffsetType
<1>5. Min(offsets) \in offsets
  BY <1>4, MinOf
<1>6. PICK j \in writes \cup reads : Offset(next, j) = Min(offsets)
  BY <1>2, <1>5
<1>7. write \in BOOLEAN
  BY DEF SelectWrites
<1>8. CASE write
  <2>1. writes # {}
    BY <1>1, <1>2, <1>8 DEF SelectWrites
  <2> QED BY <1>1, <1>7, <1>8, <2>1
<1>9. CASE ~write
  <2>1. ~(\E k \in writes : Offset(next, k) = Min(offsets))
        \/ (\E k \in reads : Offset(next, k) = Min(offsets))
    BY <1>1, <1>2, <1>9 DEF SelectWrites
  <2>2. reads # {}
    BY <1>6, <2>1
  <2> QED BY <1>1, <1>7, <1>9, <2>2
<1> QED BY <1>8, <1>9

\* The first group that is ready, by bucket and then by age, is taken.
LEMMA SomeKeySelected ==
  ASSUME TypeOK, NEW write \in BOOLEAN, ReadyKeys(queue, inRead, inWrite, write) # {}
  PROVE  SelectedKeys(queue, inRead, inWrite, write, next) # {}
<1>1. PICK ks : ks = ReadyKeys(queue, inRead, inWrite, write)
  OBVIOUS
<1>2. ks \subseteq Keys /\ ks # {} /\ \A k \in ks : Group(queue, write, k) # {}
  BY <1>1 DEF ReadyKeys
<1>3. \A k \in ks : Offset(next, k) \in Nat /\ GroupTime(queue, write, k) \in Nat
  BY <1>2, OffsetType, GroupTimeType
<1>4. PICK offsets : offsets = {Offset(next, k) : k \in ks}
  OBVIOUS
<1>5. PICK first \in offsets : \A y \in offsets : first <= y
  BY <1>2, <1>3, <1>4, LeastOf
<1>6. PICK times : times = {GroupTime(queue, write, k) : k \in {j \in ks : Offset(next, j) = first}}
  OBVIOUS
<1>7. times \subseteq Nat /\ times # {}
  BY <1>3, <1>4, <1>5, <1>6
<1>8. PICK oldest \in times : \A y \in times : oldest <= y
  BY <1>7, LeastOf
<1>9. PICK k \in ks : Offset(next, k) = first /\ GroupTime(queue, write, k) = oldest
  BY <1>6, <1>8
<1>10. \A j \in ks : ~Before(queue, write, next, j, k)
  <2>1. SUFFICES ASSUME NEW j \in ks PROVE ~Before(queue, write, next, j, k)
    OBVIOUS
  <2>2. first <= Offset(next, j)
    BY <1>4, <1>5
  <2>3. Offset(next, j) = first => oldest <= GroupTime(queue, write, j)
    BY <1>6, <1>8
  <2> QED BY <2>2, <2>3, <1>3, <1>9 DEF Before
<1>11. {j \in ks : Before(queue, write, next, j, k)} = {}
  BY <1>10
<1>12. Cardinality({j \in ks : Before(queue, write, next, j, k)}) = 0
  BY <1>11, FS_EmptySet, Zenon
<1>13. Cardinality({j \in ks : Before(queue, write, next, j, k)}) < BatchSize
  BY <1>12, BatchingQueueAssumption
<1> QED BY <1>1, <1>9, <1>13 DEF SelectedKeys

\* A batch is not empty, and all reads or all writes, of keys that are free for it;
\* and a group is taken as a whole.
LEMMA CollectedFacts ==
  ASSUME TypeOK, SomeReady
  PROVE  /\ Collected \subseteq queue /\ Collected # {}
         /\ \E write \in BOOLEAN : \A e \in Collected :
              (IsWrite(e) <=> write) /\ KeyFree(inRead, inWrite, write, e.key)
         /\ \A e \in Collected, f \in queue :
              f.key = e.key /\ (IsWrite(f) <=> IsWrite(e)) => f \in Collected
<1>1. PICK write : write = SelectWrites(queue, inRead, inWrite, next)
  OBVIOUS
<1>2. write \in BOOLEAN /\ ReadyKeys(queue, inRead, inWrite, write) # {}
  BY <1>1, SelectedKindReady
<1>3. PICK ks : ks = SelectedKeys(queue, inRead, inWrite, write, next)
  OBVIOUS
<1>4. ks # {}
  BY <1>2, <1>3, SomeKeySelected
<1>5. \A k \in ks : Group(queue, write, k) # {} /\ KeyFree(inRead, inWrite, write, k)
  BY <1>3 DEF SelectedKeys, ReadyKeys
<1>6. Collected = UNION {Group(queue, write, k) : k \in ks}
  BY <1>1, <1>3 DEF Collected
<1>7. Collected \subseteq queue /\ Collected # {}
  BY <1>4, <1>5, <1>6 DEF Group
<1>8. ASSUME NEW e \in Collected
      PROVE  (IsWrite(e) <=> write) /\ KeyFree(inRead, inWrite, write, e.key)
  <2>1. PICK k \in ks : e \in Group(queue, write, k)
    BY <1>6
  <2> QED BY <2>1, <1>2, <1>5 DEF Group
<1>9. ASSUME NEW e \in Collected, NEW f \in queue, f.key = e.key, IsWrite(f) <=> IsWrite(e)
      PROVE  f \in Collected
  <2>1. PICK k \in ks : e \in Group(queue, write, k)
    BY <1>6
  <2>2. f \in Group(queue, write, k)
    BY <2>1, <1>9 DEF Group, IsWrite
  <2> QED BY <2>2, <1>6
<1> QED BY <1>2, <1>7, <1>8, <1>9

LEMMA NextBucketType ==
  ASSUME TypeOK, NEW S \in SUBSET queue, S # {}
  PROVE  NextBucket(next, {e.key : e \in S}) \in 0 .. BucketCount - 1
<1>1. PICK offsets : offsets = {Offset(next, k) : k \in {e.key : e \in S}}
  OBVIOUS
<1>2. \A e \in S : Offset(next, e.key) \in Nat
  BY OffsetType DEF TypeOK, Entries
<1>3. offsets \subseteq Nat /\ offsets # {}
  BY <1>1, <1>2
<1>4. IsFiniteSet(offsets)
  <2>1. PICK g : g = [e \in S |-> Offset(next, e.key)]
    OBVIOUS
  <2>2. IsFiniteSet(S)
    BY FS_Subset DEF TypeOK
  <2>3. IsFiniteSet({g[e] : e \in S})
    BY <2>2, ImageFinite
  <2>4. {g[e] : e \in S} = offsets
    BY <1>1, <2>1
  <2> QED BY <2>3, <2>4, Zenon
<1>5. Max(offsets) \in Nat
  BY <1>3, <1>4, MaxOf
<1>6. next + Max(offsets) + 1 \in Nat /\ BucketCount \in Nat \ {0}
  BY <1>5, BatchingQueueAssumption DEF TypeOK
<1>7. \A a \in Nat : \A b \in Nat \ {0} : a % b \in 0 .. b - 1
  OBVIOUS
<1>8. NextBucket(next, {e.key : e \in S}) = (next + Max(offsets) + 1) % BucketCount
  BY <1>1 DEF NextBucket
<1> QED BY <1>6, <1>7, <1>8

\* The collected operations move from the queue to the batch of the worker.
LEMMA ScanKeeps ==
  ASSUME Inv, NEW w \in Workers, Scan(w) PROVE Inv'
<1> USE ProfileMapAssumption DEF Inv, queueVars, readyVars, callVars
<1>0. PICK taken : taken = Collected
  OBVIOUS
<1>a. /\ wpc[w] = "collecting" /\ wpc' = [wpc EXCEPT ![w] = "scanned"]
      /\ queue' = queue \ taken /\ batch' = [batch EXCEPT ![w] = taken]
      /\ next' = NextBucket(next, {e.key : e \in taken})
      /\ UNCHANGED <<open, pending, published, active, stateLock, ready, registered, stopping,
                     db, clock, spc, opc, stamp, claim, touches, result, calls>>
  BY <1>0 DEF Scan, Goto
<1>b. taken \subseteq queue /\ taken # {}
  BY <1>0, CollectedFacts DEF Scan
<1>c. PICK kind \in BOOLEAN : \A e \in taken :
        (IsWrite(e) <=> kind) /\ KeyFree(inRead, inWrite, kind, e.key)
  BY <1>0, CollectedFacts DEF Scan
<1>d. /\ wpc'[w] = "scanned" /\ batch'[w] = taken /\ batch[w] = {} /\ touches[w] = {}
      /\ \A u \in Workers : u # w => wpc'[u] = wpc[u] /\ batch'[u] = batch[u]
  BY <1>a DEF TypeOK, Data, BatchesHeld, Holding
<1>e. IsFiniteSet(taken) /\ Cardinality(taken) \in Nat
  BY <1>b, FS_Subset, FS_CardinalityType DEF TypeOK
<1>f. \A k \in Keys :
        /\ inWrite'[k] = inWrite[k] + IF kind = TRUE THEN Count(taken, k) ELSE 0
        /\ inRead'[k] = inRead[k] + IF kind = FALSE THEN Count(taken, k) ELSE 0
  <2>1. (\E e \in taken : IsWrite(e)) <=> kind
    BY <1>b, <1>c
  <2>2. /\ inWrite' = [k \in Keys |-> inWrite[k] + IF \E e \in taken : IsWrite(e)
                                                     THEN Count(taken, k) ELSE 0]
        /\ inRead' = [k \in Keys |-> inRead[k] + IF \E e \in taken : IsWrite(e)
                                                   THEN 0 ELSE Count(taken, k)]
    BY <1>0 DEF Scan
  <2> QED BY <2>1, <2>2
<1>g. \A k \in Keys : \A write \in BOOLEAN :
         /\ Together(InFlight(write, k)) \in Nat /\ Together(InFlight(write, k))' \in Nat
         /\ Together(InFlight(write, k))'
              = Together(InFlight(write, k)) + IF kind = write THEN Count(taken, k) ELSE 0
  <2>1. SUFFICES ASSUME NEW k \in Keys, NEW write \in BOOLEAN
                 PROVE /\ Together(InFlight(write, k)) \in Nat /\ Together(InFlight(write, k))' \in Nat
                       /\ Together(InFlight(write, k))'
                            = Together(InFlight(write, k))
                              + IF kind = write THEN Count(taken, k) ELSE 0
    OBVIOUS
  <2>2. PICK A, B : A = {} /\ B = {e \in taken : e.key = k /\ (IsWrite(e) <=> write)}
    OBVIOUS
  <2>3. InFlight(write, k)[w] = A /\ (InFlight(write, k)')[w] = B
    BY <1>d, <2>2 DEF InFlight
  <2>4. \A u \in Workers : u # w => (InFlight(write, k)')[u] = InFlight(write, k)[u]
    BY <1>d DEF InFlight
  <2>5. Cardinality(A) = 0
    BY <2>2, FS_EmptySet
  <2>6. /\ IsFiniteSet(B) /\ Cardinality(B) \in Nat
        /\ Cardinality(B) = IF kind = write THEN Count(taken, k) ELSE 0
    <3>1. /\ \A e \in taken : IsWrite(e) <=> kind
          /\ B \in SUBSET taken
          /\ \A e \in taken : e \in B <=> e.key = k /\ (IsWrite(e) <=> write)
      BY <1>c, <2>2
    <3> QED BY ONLY <1>e, <3>1, kind \in BOOLEAN, write \in BOOLEAN, CountOfKind, ZenonT(60)
  <2>7. TypeOK
    OBVIOUS
  <2>8. /\ Together(InFlight(write, k)) \in Nat /\ Together(InFlight(write, k))' \in Nat
        /\ Together(InFlight(write, k))' + Cardinality(A)
             = Together(InFlight(write, k)) + Cardinality(B)
    BY ONLY <2>3, <2>4, <2>6, <2>7, w \in Workers, k \in Keys, write \in BOOLEAN, InFlightStep
  <2> QED BY <2>5, <2>6, <2>8
<1>h. \A k \in Keys : /\ inWrite[k] = Together(InFlight(TRUE, k))
                     /\ inRead[k] = Together(InFlight(FALSE, k))
  BY DEF Data, InFlightExact
<1>i. \A k \in Keys : /\ inWrite'[k] = Together(InFlight(TRUE, k))'
                     /\ inRead'[k] = Together(InFlight(FALSE, k))'
  BY <1>f, <1>g, <1>h, ZenonT(60)
<1>1. TypeOK'
  <2>1. inRead' \in [Keys -> Nat] /\ inWrite' \in [Keys -> Nat]
    <3>1. \A k \in Keys : inWrite'[k] \in Nat /\ inRead'[k] \in Nat
      BY <1>g, <1>i
    <3>2. /\ inWrite' = [k \in Keys |-> inWrite'[k]]
          /\ inRead' = [k \in Keys |-> inRead'[k]]
      BY DEF Scan
    <3> QED BY <3>1, <3>2
  <2>2. queue' \subseteq Entries /\ IsFiniteSet(queue')
    <3>1. IsFiniteSet(queue \ taken)
      BY FS_Difference DEF TypeOK
    <3> QED BY <1>a, <3>1 DEF TypeOK
  <2>3. batch' \in [Workers -> SUBSET Entries] /\ \A u \in Workers : IsFiniteSet(batch'[u])
    BY <1>a, <1>b, <1>d, <1>e DEF TypeOK
  <2>4. queue' \cup UNION {batch'[u] : u \in Workers} \subseteq queue \cup UNION {batch[u] : u \in Workers}
    BY <1>a, <1>b, <1>d
  <2>5. wpc' \in [Workers -> Busy \cup {"loop", "asleep", "timed", "draining", "exit"}]
    BY <1>a DEF TypeOK, Busy
  <2>6. next' \in 0 .. BucketCount - 1
    BY <1>a, <1>b, NextBucketType
  <2>7. \A e \in queue' \cup UNION {batch'[u] : u \in Workers} :
           IF e.op \in Ops THEN e.type = OpType[e.op] /\ e.key = OpKey[e.op]
                           ELSE e.type = "touch"
    BY <2>4 DEF TypeOK
  <2>8. \A u \in Workers : IsFiniteSet(touches'[u])
    BY <1>a DEF TypeOK
  <2> QED BY <1>a, <2>1, <2>2, <2>3, <2>5, <2>6, <2>7, <2>8 DEF TypeOK
<1>2. WorkersCounted'
  BY <1>a, <1>d, WorkersFrame DEF TypeOK, Busy, Collecting
<1>3. Data'
  <2>1. InFlightExact'
    BY <1>i DEF InFlightExact
  <2>2. KeyExclusion'
    <3>1. ASSUME NEW u \in Workers, u # w, NEW k \in Keys, NEW f \in batch[u], f.key = k,
                 NEW e \in taken, e.key = k
          PROVE  ~kind /\ ~IsWrite(f)
      <4>1. inWrite[k] = 0 /\ (kind => inRead[k] = 0)
        BY <1>c, <3>1 DEF KeyFree
      <4>2. ASSUME NEW write \in BOOLEAN, Together(InFlight(write, k)) = 0
            PROVE  ~(IsWrite(f) <=> write)
        <5>1. PICK M : M = InFlight(write, k)
          OBVIOUS
        <5>2. (\A v \in Workers : IsFiniteSet(M[v])) /\ Together(M) = 0
          BY <4>2, <5>1, SetsFinite
        <5>3. M[u] = {}
          BY ONLY <5>2, u \in Workers, TogetherNothing
        <5>4. (IsWrite(f) <=> write) => f \in M[u]
          BY <5>1, <3>1 DEF InFlight
        <5> QED BY <5>3, <5>4
      <4> QED BY <4>1, <4>2, <1>h
    <3>2. ASSUME NEW u \in Workers, u # w, NEW k \in Keys, Holds(u, k)', Holds(w, k)'
          PROVE  ~WriteBatch(u)' /\ ~WriteBatch(w)'
      <4>1. PICK f \in batch[u] : f.key = k
        BY <1>d, <3>2 DEF Holds
      <4>2. PICK e \in taken : e.key = k
        BY <1>d, <3>2 DEF Holds
      <4>3. ~kind /\ ~IsWrite(f)
        BY <3>1, <3>2, <4>1, <4>2
      <4>4. ~WriteBatch(u)'
        BY <1>d, <3>2, <4>1, <4>3 DEF WriteBatch, Data, BatchesHeld
      <4>5. ~WriteBatch(w)'
        BY <1>c, <1>d, <4>3 DEF WriteBatch
      <4> QED BY <4>4, <4>5
    <3>3. ASSUME NEW u \in Workers, NEW v \in Workers, u # v, u # w, v # w, NEW k \in Keys,
                 Holds(u, k)', Holds(v, k)'
          PROVE  ~WriteBatch(u)' /\ ~WriteBatch(v)'
      <4>1. batch'[u] = batch[u] /\ batch'[v] = batch[v]
        BY <1>d, <3>3
      <4> QED BY <4>1, <3>3 DEF Data, KeyExclusion, Holds, WriteBatch
    <3> QED BY <3>2, <3>3 DEF KeyExclusion
  <2>3. BatchesHeld'
    BY <1>a, <1>c, <1>d DEF Data, BatchesHeld, Holding
  <2>4. PendingExact'
    <3>1. PICK A, B : A = Moving[w] /\ B = taken
      OBVIOUS
    <3>2. A = {} /\ (Moving')[w] = B /\ \A u \in Workers : u # w => (Moving')[u] = Moving[u]
      BY <1>a, <1>d, <3>1 DEF Moving
    <3>3. /\ Together(Moving) \in Nat /\ Together(Moving)' \in Nat
          /\ Together(Moving)' + Cardinality(A) = Together(Moving) + Cardinality(B)
      <4>1. TypeOK /\ IsFiniteSet(B)
        BY <1>e, <3>1
      <4> QED BY ONLY <4>1, <3>1, <3>2, w \in Workers, MovingStep
    <3>4. Cardinality(A) = 0
      BY <3>2, FS_EmptySet, Zenon
    <3>5. Cardinality(queue \ taken) = Cardinality(queue) - Cardinality(taken)
      <4>1. Cardinality(queue \ taken) = Cardinality(queue) - Cardinality(queue \cap taken)
        BY FS_Difference DEF TypeOK
      <4>2. queue \cap taken = taken
        BY <1>b
      <4>3. Cardinality(queue \cap taken) = Cardinality(taken)
        BY <4>2, Zenon
      <4> QED BY <4>1, <4>3
    <3>6. Cardinality(queue)' = Cardinality(queue \ taken)
      BY <1>a, Zenon
    <3>7. Cardinality(queue) \in Nat /\ Cardinality({o \in Ops : spc[o] = "counted"}) \in Nat
      BY PendingParts
    <3>8. Cardinality({o \in Ops : spc[o] = "counted"})' = Cardinality({o \in Ops : spc[o] = "counted"})
      BY <1>a
    <3>9. pending = Cardinality(queue) + Cardinality({o \in Ops : spc[o] = "counted"}) + Together(Moving)
      BY DEF Data, PendingExact
    <3>10. pending' = Cardinality(queue)' + Cardinality({o \in Ops : spc[o] = "counted"})'
                        + Together(Moving)'
      BY <1>a, <1>e, <3>1, <3>3, <3>4, <3>5, <3>6, <3>7, <3>8, <3>9
    <3> QED BY <3>10 DEF PendingExact
  <2>5. StampsBehind'
    <3>1. \A u, s : TouchEntry(u, s)' = TouchEntry(u, s)
      BY <1>a DEF TouchEntry
    <3> QED BY <1>a, <1>d, <3>1 DEF Data, StampsBehind
  <2>6. AnsweredOnce'
    <3>1. \A e, f \in queue : e.op = f.op /\ e.op \in Ops => e = f
      BY DEF Data, AnsweredOnce
    <3>2. \A e, f \in queue' : e.op = f.op /\ e.op \in Ops => e = f
      BY <1>a, <3>1
    <3>3. \A o \in Ops : \A u \in Workers : u # w => (InBatch(u, o)' <=> InBatch(u, o))
      BY <1>d DEF InBatch
    <3>4. \A o \in Ops : InBatch(w, o)' => Queued(o) /\ ~Queued(o)'
      BY <1>a, <1>b, <1>d, <3>1 DEF InBatch, Queued
    <3>5. \A o \in Ops : ~InBatch(w, o)' => (Queued(o)' <=> Queued(o))
      BY <1>a, <1>b, <1>d DEF InBatch, Queued
    <3>6. \A o \in Ops : ~InBatch(w, o)
      BY <1>d DEF InBatch
    <3>7. ASSUME NEW o \in Ops
          PROVE  (/\ spc[o] \in {"new", "entered", "counted", "refused"} => ~Queued(o)
                  /\ \A u \in Workers : InBatch(u, o) =>
                       /\ ~Queued(o)
                       /\ spc[o] \notin {"new", "entered", "counted", "refused"}
                       /\ \A v \in Workers : InBatch(v, o) => v = u
                       /\ wpc[u] \in Decided => result[o] # Pending
                  /\ calls[o] = IF \/ spc[o] \in {"new", "entered", "counted"} \/ Queued(o)
                                   \/ \E u \in Workers : InBatch(u, o) /\ wpc[u] # "completing"
                                THEN 0 ELSE 1
                  /\ calls[o] = 1 => result[o] # Pending)'
      <4>1. CASE InBatch(w, o)'
        <5>1. /\ Queued(o) /\ ~Queued(o)' /\ calls[o] = 0
              /\ spc[o] \notin {"new", "entered", "counted", "refused"}
              /\ \A u \in Workers : ~InBatch(u, o)
          BY <4>1, <3>4 DEF Data, AnsweredOnce
        <5>2. \A u \in Workers : InBatch(u, o)' => u = w
          BY <5>1, <3>3
        <5>3. wpc'[w] \notin Decided /\ wpc'[w] # "completing"
          BY <1>d DEF Decided
        <5> QED BY <4>1, <5>1, <5>2, <5>3, <1>a
      <4>2. CASE ~InBatch(w, o)'
        <5>1. \A u \in Workers : InBatch(u, o)' <=> InBatch(u, o)
          BY <4>2, <3>3, <3>6
        <5>2. \A u \in Workers : InBatch(u, o) => wpc'[u] = wpc[u]
          BY <1>d, <3>6
        <5>3. Queued(o)' <=> Queued(o)
          BY <4>2, <3>5
        <5> QED BY <5>1, <5>2, <5>3, <1>a DEF Data, AnsweredOnce
      <4> QED BY <4>1, <4>2
    <3> QED BY <3>2, <3>7 DEF AnsweredOnce
  <2> QED BY <2>1, <2>2, <2>3, <2>4, <2>5, <2>6 DEF Data
<1>4. DrainedForGood'
  BY <1>a DEF DrainedForGood, Submitting, Waited, TypeOK
<1> QED BY <1>1, <1>2, <1>3, <1>4

-----------------------------------------------------------------------------

LEMMA NextKeepsInv == Inv /\ [Next]_vars => Inv'
<1> SUFFICES ASSUME Inv, [Next]_vars PROVE Inv'
  OBVIOUS
<1>1. ASSUME NEW o \in Ops, Enter(o) \/ Refuse(o) \/ Submit(o) PROVE Inv'
  BY <1>1, EnterKeeps, RefuseKeeps, CountOpKeeps, InsertOpKeeps, RequestOpKeeps, ApplyOpKeeps
     DEF Submit
<1>2. ASSUME NEW w \in Workers, Work(w) PROVE Inv'
  <2>1. CASE Idle(w) \/ WaitUntil(w) \/ StartBatch(w)
    BY <2>1, IdleKeeps, WaitUntilKeeps, StartBatchKeeps
  <2>2. CASE CollectBegin(w) \/ Scan(w) \/ ScanNothing(w) \/ CollectSub(w) \/ CollectEnd(w)
             \/ ApplyCollected(w)
    BY <2>2, CollectBeginKeeps, ScanKeeps, ScanNothingKeeps, CollectSubKeeps, CollectEndKeeps,
       ApplyCollectedKeeps
  <2>3. CASE ReadSome(w)
    <3>1. PICK bad \in SUBSET BatchKeys(w), touch \in SUBSET BatchKeys(w) :
            ReadBatch(w, bad, touch)
      BY <2>3 DEF ReadSome
    <3> QED BY <3>1, ReadBatchKeeps
  <2>4. CASE CountTouches(w) \/ (\E t \in touches[w] : InsertTouch(w, t))
             \/ RequestTouches(w) \/ ApplyTouches(w)
    BY <2>4, CountTouchesKeeps, InsertTouchKeeps, RequestTouchesKeeps, ApplyTouchesKeeps
  <2>5. CASE WriteOk(w) \/ WriteFails(w) \/ CallBack(w)
    BY <2>5, WriteOkKeeps, WriteFailsKeeps, CallBackKeeps
  <2>6. CASE CompleteBatch(w) \/ ApplyCompleted(w) \/ FinishBatch(w) \/ NotifyDrained(w)
    BY <2>6, CompleteBatchKeeps, ApplyCompletedKeeps, FinishBatchKeeps, NotifyDrainedKeeps
  <2> QED BY <1>2, <2>1, <2>2, <2>3, <2>4, <2>5, <2>6 DEF Work
<1>3. CASE TimePasses \/ Deactivate
  BY <1>3, TimePassesKeeps, DeactivateKeeps
<1>4. CASE WaitObject
  BY <1>4, GateDrainedKeeps, FlushPendingKeeps, ApplyFlushKeeps, WaitDrainedKeeps, UnregisterKeeps,
     StopProcessorKeeps, JoinWorkersKeeps DEF WaitObject
<1>5. CASE UNCHANGED vars
  <2> USE <1>5 DEF Inv, vars, queueVars, readyVars, callVars
  <2>1. TypeOK'
    BY DEF TypeOK
  <2>2. WorkersCounted'
    BY WorkersFrame
  <2>3. Data'
    BY DataFrame DEF Follows, Proceeds
  <2>4. DrainedForGood'
    BY DEF DrainedForGood, Submitting
  <2> QED BY <2>1, <2>2, <2>3, <2>4
<1> QED BY <1>1, <1>2, <1>3, <1>4, <1>5 DEF Next

\* What is not pending is not in the queue, and what is in no batch either has
\* been answered.
LEMMA InvDrains ==
  ASSUME Inv PROVE AnsweredBeforeWaitReturns /\ (OwnsProcessor => NoUseAfterWait)
<1>1. OwnsProcessor => NoUseAfterWait
  BY DEF Inv, DrainedForGood, NoUseAfterWait
<1>2. ASSUME opc \in Waited
      PROVE  /\ \A o \in Ops : spc[o] # "new" => calls[o] = 1 /\ result[o] # Pending
             /\ queue = {}
  <2>1. /\ pending = 0
        /\ \A w \in Workers : wpc[w] \in {"loop", "asleep", "timed", "draining", "exit",
                                         "selected", "finishing"}
        /\ ~Submitting
    BY <1>2 DEF Inv, DrainedForGood, Waited
  <2>2. Cardinality(queue) = 0
    BY <2>1, PendingParts DEF Inv, Data, PendingExact
  <2>3. queue = {}
    BY <2>2, FS_EmptySet DEF Inv, TypeOK
  <2>4. \A w \in Workers : batch[w] = {}
    BY <2>1 DEF Inv, Data, BatchesHeld, Holding
  <2>5. \A o \in Ops : ~Queued(o) /\ \A w \in Workers : ~InBatch(w, o)
    BY <2>3, <2>4 DEF Queued, InBatch
  <2>6. \A o \in Ops : spc[o] # "new" => spc[o] \notin {"new", "entered", "counted"}
    BY <2>1 DEF Submitting
  <2> QED BY <2>3, <2>5, <2>6 DEF Inv, Data, AnsweredOnce
<1> QED BY <1>1, <1>2 DEF AnsweredBeforeWaitReturns

LEMMA InvAlways == Spec => []Inv
BY InitInv, NextKeepsInv, PTL DEF Spec

\* When wait_object() has seen the queue drained, every operation that was let in
\* has been answered once and nothing is left in the buckets; the counts that this
\* is decided on are exact all the time, and after the join of its own workers
\* none uses the map.
THEOREM MapDrains == Spec => []DrainInv
<1>1. Inv => DrainInv
  BY InvDrains DEF Inv, Data, DrainInv
<1> QED BY <1>1, InvAlways, PTL

\* While a write of a key is in flight, no other batch holds the key.
THEOREM BatchesExclude == Spec => []KeyExclusion
<1>1. Inv => KeyExclusion
  BY DEF Inv, Data
<1> QED BY <1>1, InvAlways, PTL

-----------------------------------------------------------------------------
(* Callers see a store.  What this needs beyond Inv: a result is there from  *)
(* the database access on; what was submitted before an operation is ahead   *)
(* of it, by enqueue_time and in the batches; and a touch that is under way  *)
(* holds the profile that is still in the database.                          *)

AllEntries == queue \cup UNION {batch[w] : w \in Workers}

Results ==
  \A o \in Ops : result[o] # Pending <=>
                   calls[o] = 1 \/ \E w \in Workers : InBatch(w, o) /\ wpc[w] \in Decided

Ordered ==
  /\ \A e \in AllEntries : e.stamp < clock /\ (e.op \in Ops => e.val = e.op)
  /\ \A o \in Ops : \A p \in before[o] : p \in Ops /\ spc[p] = "submitted"
  /\ \A o \in Ops : \A f \in AllEntries : f.op \in before[o] =>
       /\ spc[o] = "counted" => f.stamp < stamp[o]
       /\ \A e \in AllEntries : e.op = o => f.stamp < e.stamp
  /\ \A w \in Workers : \A e \in queue, f \in batch[w] :
       ~(f.op \in Ops /\ e.op \in before[f.op] /\ e.key = f.key /\ IsWrite(e) /\ IsWrite(f))

TouchesFresh ==
  /\ \A e \in queue : e.type = "touch" =>
       db[e.key] = e.val /\ \A w \in Workers : Holds(w, e.key) => ~WriteBatch(w)
  /\ \A w \in Workers : \A t \in touches[w] : db[t[1]] = t[2] /\ Holds(w, t[1]) /\ ~WriteBatch(w)
  /\ \A w \in Workers : \A e \in batch[w] :
       e.type = "touch" /\ wpc[w] \notin Decided => db[e.key] = e.val

StoreInv ==
  Results /\ Ordered /\ TouchesFresh /\ DOMAIN before = Ops

LEMMA InitStoreInv == Init => StoreInv
<1> SUFFICES ASSUME Init PROVE StoreInv
  OBVIOUS
<1> USE DEF Init
<1>1. AllEntries = {} /\ \A w \in Workers : batch[w] = {} /\ touches[w] = {}
  BY DEF AllEntries
<1>2. Results
  BY <1>1 DEF Results, InBatch
<1>3. Ordered
  BY <1>1 DEF Ordered
<1>4. TouchesFresh
  BY <1>1 DEF TouchesFresh
<1> QED BY <1>2, <1>3, <1>4 DEF StoreInv

\* Steps of the workers and the owner that callers and database do not notice.
Quiet ==
  /\ UNCHANGED <<queue, batch, touches, result, calls, db, before, spc>>
  /\ clock' \in {clock, clock + 1}
  /\ \A o \in Ops : stamp'[o] = stamp[o]
  /\ \A w \in Workers : batch[w] # {} => (wpc'[w] \in Decided <=> wpc[w] \in Decided)

LEMMA QuietKeepsStore ==
  ASSUME Inv, StoreInv, Quiet PROVE StoreInv'
<1> USE DEF StoreInv, Quiet
<1>1. Results'
  <2>1. \A w, o : InBatch(w, o)' <=> InBatch(w, o)
    BY DEF InBatch
  <2>2. \A w \in Workers, o \in Ops : InBatch(w, o) => (wpc'[w] \in Decided <=> wpc[w] \in Decided)
    BY DEF InBatch
  <2> QED BY <2>1, <2>2 DEF Results
<1>2. Ordered'
  <2>1. AllEntries' = AllEntries
    BY DEF AllEntries
  <2>2. \A e \in AllEntries : e.stamp \in Nat
    BY DEF AllEntries, Inv, TypeOK, Entries
  <2>3. clock \in Nat
    BY DEF Inv, TypeOK
  <2>4. \A e \in AllEntries' : e.stamp < clock' /\ (e.op \in Ops => e.val = e.op)
    BY <2>1, <2>2, <2>3 DEF Ordered
  <2> QED BY <2>1, <2>4 DEF Ordered
<1>3. TouchesFresh'
  <2>1. \A w, k : (Holds(w, k)' <=> Holds(w, k)) /\ (WriteBatch(w)' <=> WriteBatch(w))
    BY DEF Holds, WriteBatch
  <2> QED BY <2>1 DEF TouchesFresh
<1> QED BY <1>1, <1>2, <1>3

LEMMA QuietIsStutter ==
  ASSUME Inv, StoreInv, Quiet PROVE UNCHANGED <<db, phaseBar, result, Returned, before>>
BY DEF Quiet, phaseBar, Returned

\* Which steps are quiet.
LEMMA WorkerQuiet ==
  ASSUME Inv, NEW w \in Workers,
         \/ Idle(w) \/ WaitUntil(w) \/ StartBatch(w) \/ CollectBegin(w) \/ ScanNothing(w)
         \/ CollectSub(w) \/ CollectEnd(w) \/ ApplyCollected(w) \/ CountTouches(w)
         \/ RequestTouches(w) \/ ApplyTouches(w) \/ ApplyCompleted(w) \/ FinishBatch(w)
         \/ NotifyDrained(w)
  PROVE  Quiet
<1> USE ProfileMapAssumption DEF queueVars, readyVars, callVars, Inv
<1>0. TypeOK /\ w \notin Ops /\ \A u \in Workers : wpc[u] \notin Holding => batch[u] = {}
  BY DEF Data, BatchesHeld
<1>1. CASE Idle(w) \/ WaitUntil(w) \/ StartBatch(w) \/ FinishBatch(w) \/ NotifyDrained(w)
  BY <1>0, <1>1 DEF Quiet, Idle, WaitUntil, StartBatch, FinishBatch, NotifyDrained, Goto, TypeOK,
     Holding
<1>2. CASE CollectBegin(w) \/ ScanNothing(w) \/ CollectSub(w)
  BY <1>0, <1>2 DEF Quiet, CollectBegin, ScanNothing, CollectSub, Goto, TypeOK, Holding, Decided
<1>3. CASE CollectEnd(w)
  BY <1>0, <1>3 DEF Quiet, CollectEnd, Goto, TypeOK, Decided
<1>4. CASE CountTouches(w)
  BY <1>0, <1>4 DEF Quiet, CountTouches, AddPending, Goto, TypeOK, Actors, Decided
<1>5. CASE RequestTouches(w)
  BY <1>0, <1>5 DEF Quiet, RequestTouches, Goto, TypeOK, Actors, Decided
<1>6. ASSUME NEW place \in {"processing", "answering", "finishing"},
             ApplyReady(w, [wpc EXCEPT ![w] = place])
      PROVE  /\ wpc'[w] = place \/ wpc[w] \in {"asleep", "timed"}
             /\ \A u \in Workers : u # w => Stays(u)
  <2>1. PICK pcs \in [Workers -> Places] : pcs = [wpc EXCEPT ![w] = place]
    BY <1>0 DEF TypeOK, Places, Busy
  <2>2. ApplyReady(w, pcs)
    BY <1>6, <2>1
  <2>3. \A u \in Workers : pcs[u] = IF u = w THEN place ELSE wpc[u]
    BY <1>0, <2>1 DEF TypeOK
  <2> QED BY <1>0, <2>2, <2>3, ApplyReadyMoves DEF Stays, Actors
<1>7. CASE ApplyCollected(w)
  BY <1>0, <1>6, <1>7 DEF Quiet, ApplyCollected, Stays, Holding, Decided
<1>8. CASE ApplyTouches(w)
  BY <1>0, <1>6, <1>8 DEF Quiet, ApplyTouches, Stays, Holding, Decided
<1>9. CASE ApplyCompleted(w)
  BY <1>0, <1>6, <1>9 DEF Quiet, ApplyCompleted, Stays, Holding, Decided
<1> QED BY <1>1, <1>2, <1>3, <1>4, <1>5, <1>7, <1>8, <1>9

LEMMA OwnerQuiet ==
  ASSUME Inv, TimePasses \/ Deactivate \/ WaitObject \/ UNCHANGED vars
  PROVE  Quiet
<1> USE ProfileMapAssumption DEF queueVars, readyVars, callVars, Inv
<1>0. TypeOK /\ \A u \in Workers : wpc[u] \notin Holding => batch[u] = {}
  BY DEF Data, BatchesHeld
<1>1. CASE UNCHANGED vars
  BY <1>1 DEF Quiet, vars
<1>2. CASE TimePasses
  BY <1>0, <1>2 DEF Quiet, TimePasses, Holding
<1>3. CASE Deactivate \/ GateDrained \/ FlushPending \/ WaitDrained \/ Unregister \/ JoinWorkers
  BY <1>3 DEF Quiet, Deactivate, GateDrained, FlushPending, WaitDrained, Unregister, JoinWorkers
<1>4. CASE ApplyFlush
  BY <1>0, <1>4 DEF Quiet, ApplyFlush, Sleeping, Holding
<1>5. CASE StopProcessor
  BY <1>0, <1>5 DEF Quiet, StopProcessor, Sleeping, Holding
<1> QED BY <1>1, <1>2, <1>3, <1>4, <1>5 DEF WaitObject

-----------------------------------------------------------------------------
(* The steps of a submission, and the store *)

\* What is not inserted yet has no entry.
LEMMA NoEntryYet ==
  ASSUME Inv, NEW o \in Ops, spc[o] \in {"new", "entered", "counted", "refused"}
  PROVE  /\ \A e \in AllEntries : e.op # o
         /\ \A w \in Workers : ~InBatch(w, o)
BY DEF Inv, Data, AnsweredOnce, AllEntries, Queued, InBatch

\* One submission goes on; queue, batches and database stay.
LEMMA SubmissionKeepsStore ==
  ASSUME Inv, StoreInv, NEW o \in Ops, spc[o] # "submitted",
         UNCHANGED <<queue, batch, touches, db>>, clock' \in {clock, clock + 1},
         \A w \in Workers : batch[w] # {} => (wpc'[w] \in Decided <=> wpc[w] \in Decided),
         \A p \in Ops : p # o => /\ spc'[p] = spc[p] /\ stamp'[p] = stamp[p]
                                 /\ result'[p] = result[p] /\ calls'[p] = calls[p]
                                 /\ before'[p] = before[p],
         DOMAIN before' = Ops,
         before'[o] = before[o] \/ (before'[o] = Returned /\ spc[o] = "new"),
         spc'[o] = "counted" => stamp'[o] = clock,
         result'[o] # Pending <=>
           calls'[o] = 1 \/ \E w \in Workers : InBatch(w, o) /\ wpc[w] \in Decided
  PROVE  StoreInv'
<1> USE DEF StoreInv
<1>1. Results'
  <2>1. \A w, p : InBatch(w, p)' <=> InBatch(w, p)
    BY DEF InBatch
  <2>2. \A w \in Workers, p \in Ops : InBatch(w, p) => (wpc'[w] \in Decided <=> wpc[w] \in Decided)
    BY DEF InBatch
  <2>3. ASSUME NEW p \in Ops
        PROVE  result'[p] # Pending <=>
                 calls'[p] = 1 \/ \E w \in Workers : InBatch(w, p)' /\ wpc'[w] \in Decided
    <3>1. CASE p = o
      BY <2>1, <2>2, <3>1
    <3>2. CASE p # o
      BY <2>1, <2>2, <3>2 DEF Results
    <3> QED BY <3>1, <3>2
  <2> QED BY <2>3 DEF Results
<1>2. Ordered'
  <2>1. AllEntries' = AllEntries
    BY DEF AllEntries
  <2>2. (\A e \in AllEntries : e.stamp \in Nat) /\ clock \in Nat
    BY DEF AllEntries, Inv, TypeOK, Entries
  <2>3. \A e \in AllEntries' : e.stamp < clock' /\ (e.op \in Ops => e.val = e.op)
    BY <2>1, <2>2 DEF Ordered
  <2>4. \A q \in Ops : \A p \in before'[q] : p \in Ops /\ spc'[p] = "submitted"
    BY DEF Ordered, Returned
  <2>5. before'[o] = Returned /\ spc[o] = "new" => \A e \in AllEntries : e.op # o
    BY NoEntryYet
  <2>6. ASSUME NEW q \in Ops, NEW f \in AllEntries, f.op \in before'[q]
        PROVE  /\ spc'[q] = "counted" => f.stamp < stamp'[q]
               /\ \A e \in AllEntries : e.op = q => f.stamp < e.stamp
    <3>1. CASE q = o
      BY <2>5, <2>6, <3>1 DEF Ordered
    <3>2. CASE q # o
      BY <2>6, <3>2 DEF Ordered
    <3> QED BY <3>1, <3>2
  <2>7. \A w \in Workers : \A e \in queue, f \in batch[w] :
          ~(f.op \in Ops /\ e.op \in before'[f.op] /\ e.key = f.key /\ IsWrite(e) /\ IsWrite(f))
    <3>1. \A w \in Workers : \A f \in batch[w] : f \in AllEntries
      BY DEF AllEntries
    <3>2. \A w \in Workers : \A f \in batch[w] : f.op \in Ops => before'[f.op] = before[f.op]
      BY <2>5, <3>1
    <3> QED BY <3>2 DEF Ordered
  <2> QED BY <2>1, <2>3, <2>4, <2>6, <2>7 DEF Ordered
<1>3. TouchesFresh'
  <2>1. \A w, k : (Holds(w, k)' <=> Holds(w, k)) /\ (WriteBatch(w)' <=> WriteBatch(w))
    BY DEF Holds, WriteBatch
  <2> QED BY <2>1 DEF TouchesFresh
<1> QED BY <1>1, <1>2, <1>3

\* The operations whose callback is to come have none of its effects.
LEMMA NewPhase ==
  ASSUME Inv, StoreInv, NEW o \in Ops, spc[o] \in {"new", "entered", "counted"}
  PROVE  calls[o] = 0 /\ result[o] = Pending
<1>1. calls[o] = 0 /\ \A w \in Workers : ~InBatch(w, o)
  BY DEF Inv, Data, AnsweredOnce
<1> QED BY <1>1 DEF StoreInv, Results

StoreStep == [Store!StoreNext]_(Store!svars)

LEMMA StutterIsStoreStep ==
  ASSUME UNCHANGED <<db, phaseBar, result, Returned, before>> PROVE StoreStep
BY DEF StoreStep, Store!svars

LEMMA EnterInStore ==
  ASSUME Inv, StoreInv, NEW o \in Ops, Enter(o) PROVE StoreInv' /\ StoreStep
<1> USE DEF Enter, queueVars, readyVars, callVars
<1>0. /\ spc[o] = "new" /\ spc' = [spc EXCEPT ![o] = "entered"]
      /\ before' = [before EXCEPT ![o] = Returned]
      /\ spc \in [Ops -> {"new", "entered", "counted", "inserted", "requested", "submitted",
                          "refused"}]
      /\ DOMAIN before = Ops
  BY DEF Inv, TypeOK, StoreInv
<1>1. StoreInv'
  <2>1. result[o] # Pending <=>
          calls[o] = 1 \/ \E w \in Workers : InBatch(w, o) /\ wpc[w] \in Decided
    BY DEF StoreInv, Results
  <2> QED BY <1>0, <2>1, SubmissionKeepsStore
<1>2. calls[o] = 0 /\ result[o] = Pending
  BY <1>0, NewPhase
<1>3. Returned' = Returned
  BY <1>0 DEF Returned
<1>4. phaseBar[o] = "new" /\ phaseBar' = [phaseBar EXCEPT ![o] = "pending"]
  BY <1>0, <1>2 DEF phaseBar
<1>5. Store!Invoke(o)
  BY <1>0, <1>3, <1>4 DEF Store!Invoke
<1>6. Store!StoreNext
  BY <1>5 DEF Store!StoreNext
<1> QED BY <1>1, <1>6 DEF StoreStep

LEMMA RefuseInStore ==
  ASSUME Inv, StoreInv, NEW o \in Ops, Refuse(o) PROVE StoreInv' /\ StoreStep
<1> USE ProfileMapAssumption DEF Refuse, queueVars, readyVars, callVars
<1>0. /\ spc[o] = "new" /\ spc' = [spc EXCEPT ![o] = "refused"]
      /\ result' = [result EXCEPT ![o] = "error"] /\ calls' = [calls EXCEPT ![o] = @ + 1]
      /\ spc \in [Ops -> {"new", "entered", "counted", "inserted", "requested", "submitted",
                          "refused"}]
      /\ calls \in [Ops -> Nat] /\ DOMAIN result = Ops /\ DOMAIN before = Ops
  BY DEF Inv, TypeOK, StoreInv
<1>1. calls[o] = 0 /\ result[o] = Pending
  BY <1>0, NewPhase
<1>2. calls'[o] = 1 /\ result'[o] # Pending
  BY <1>0, <1>1
<1>3. StoreInv'
  BY <1>0, <1>2, SubmissionKeepsStore
<1>4. Returned' = Returned
  BY <1>0 DEF Returned
<1>5. phaseBar[o] = "new" /\ phaseBar' = [phaseBar EXCEPT ![o] = "answered"]
  <2>1. \A p \in Ops : p # o => /\ calls'[p] = calls[p] /\ result'[p] = result[p]
                                /\ spc'[p] = spc[p]
    BY <1>0
  <2>2. spc[o] = "new" /\ calls'[o] # 0
    BY <1>0, <1>2
  <2>3. \A p \in Ops : phaseBar'[p] = IF p = o THEN "answered" ELSE phaseBar[p]
    BY ONLY <2>1, <2>2 DEF phaseBar
  <2>4. phaseBar[o] = "new"
    BY <1>1, <2>2 DEF phaseBar
  <2>5. phaseBar' = [p \in Ops |-> phaseBar'[p]] /\ DOMAIN phaseBar = Ops
    BY DEF phaseBar
  <2> QED BY ONLY <2>3, <2>4, <2>5, o \in Ops
<1>6. Store!Refuse(o)
  BY <1>0, <1>4, <1>5 DEF Store!Refuse
<1>7. Store!StoreNext
  BY <1>6 DEF Store!StoreNext
<1> QED BY <1>3, <1>7 DEF StoreStep

LEMMA CountOpInStore ==
  ASSUME Inv, StoreInv, NEW o \in Ops, CountOp(o) \/ RequestOp(o) PROVE StoreInv' /\ StoreStep
<1> USE DEF CountOp, AddPending, RequestOp, queueVars, readyVars, callVars
<1>0. /\ spc \in [Ops -> {"new", "entered", "counted", "inserted", "requested", "submitted",
                          "refused"}]
      /\ stamp \in [Actors -> Nat] /\ Ops \subseteq Actors /\ DOMAIN before = Ops
  BY DEF Inv, TypeOK, StoreInv, Actors
<1>1. StoreInv'
  <2>1. result[o] # Pending <=>
          calls[o] = 1 \/ \E w \in Workers : InBatch(w, o) /\ wpc[w] \in Decided
    BY DEF StoreInv, Results
  <2> QED BY <1>0, <2>1, SubmissionKeepsStore
<1>2. Returned' = Returned
  BY <1>0 DEF Returned
<1>3. phaseBar' = phaseBar
  BY <1>0 DEF phaseBar
<1> QED BY <1>1, <1>2, <1>3, StutterIsStoreStep

LEMMA ApplyOpInStore ==
  ASSUME Inv, StoreInv, NEW o \in Ops, ApplyOp(o) PROVE StoreInv' /\ StoreStep
<1> USE DEF ApplyOp, queueVars, readyVars, callVars
<1>0. /\ spc \in [Ops -> {"new", "entered", "counted", "inserted", "requested", "submitted",
                          "refused"}]
      /\ DOMAIN before = Ops
  BY DEF Inv, TypeOK, StoreInv
<1>1. \A w \in Workers : batch[w] # {} => (wpc'[w] \in Decided <=> wpc[w] \in Decided)
  <2>1. wpc \in [Workers -> Places] /\ o \in Actors
    BY DEF Inv, TypeOK, Places, Busy, Actors
  <2>2. \A u \in Workers : Stays(u)
    BY <2>1, ApplyReadyMoves DEF Stays, Inv
  <2> QED BY <2>2 DEF Stays, Inv, Data, BatchesHeld, Holding
<1>2. StoreInv'
  <2>1. result[o] # Pending <=>
          calls[o] = 1 \/ \E w \in Workers : InBatch(w, o) /\ wpc[w] \in Decided
    BY DEF StoreInv, Results
  <2> QED BY <1>0, <1>1, <2>1, SubmissionKeepsStore
<1>3. Returned' = Returned \cup {o}
  BY <1>0 DEF Returned
<1>4. phaseBar' = phaseBar /\ phaseBar[o] # "new"
  BY <1>0 DEF phaseBar
<1>5. Store!Return(o)
  BY <1>3, <1>4 DEF Store!Return
<1>6. Store!StoreNext
  BY <1>5 DEF Store!StoreNext
<1> QED BY <1>2, <1>6 DEF StoreStep

-----------------------------------------------------------------------------
(* The steps on queue and batches, and the store *)

LEMMA InsertOpInStore ==
  ASSUME Inv, StoreInv, NEW o \in Ops, InsertOp(o) PROVE StoreInv' /\ StoreStep
<1> USE ProfileMapAssumption DEF InsertOp, StoreInv, queueVars, readyVars, callVars
<1>0. /\ spc \in [Ops -> {"new", "entered", "counted", "inserted", "requested", "submitted",
                          "refused"}]
      /\ stamp \in [Actors -> Nat] /\ Ops \subseteq Actors /\ DOMAIN before = Ops
      /\ spc[o] = "counted" /\ clock \in Nat
  BY DEF Inv, TypeOK, Actors
<1>1. \A p \in Ops : p # o => spc'[p] = spc[p] /\ stamp'[p] = stamp[p]
  BY <1>0
<1>2. spc'[o] = "inserted"
  BY <1>0
<1>3. PICK x : x = Entry(o)
  OBVIOUS
<1>4. /\ x.op = o /\ x.val = o /\ x.stamp = stamp[o] /\ x.type # "touch"
      /\ queue' = queue \cup {x} /\ AllEntries' = AllEntries \cup {x}
  <2>1. x.op = o /\ x.val = o /\ x.stamp = stamp[o] /\ x.type = OpType[o]
    BY <1>3 DEF Entry
  <2> QED BY <1>3, <2>1 DEF AllEntries
<1>5. stamp[o] < clock
  BY <1>0 DEF Inv, Data, StampsBehind
<1>6. \A e \in AllEntries : e.op # o
  BY <1>0, NoEntryYet
<1>7. \A q \in Ops : o \notin before[q]
  BY <1>0 DEF Ordered
<1>8. Results'
  <2>1. \A w, p : InBatch(w, p)' <=> InBatch(w, p)
    BY DEF InBatch
  <2> QED BY <2>1 DEF Results
<1>9. Ordered'
  <2>1. \A e \in AllEntries' : e.stamp < clock' /\ (e.op \in Ops => e.val = e.op)
    BY <1>4, <1>5 DEF Ordered
  <2>2. \A q \in Ops : \A p \in before'[q] : p \in Ops /\ spc'[p] = "submitted"
    BY <1>1, <1>7 DEF Ordered
  <2>3. ASSUME NEW q \in Ops, NEW f \in AllEntries', f.op \in before'[q]
        PROVE  /\ spc'[q] = "counted" => f.stamp < stamp'[q]
               /\ \A e \in AllEntries' : e.op = q => f.stamp < e.stamp
    <3>1. f \in AllEntries /\ f.op \in before[q]
      BY <2>3, <1>4, <1>7
    <3>2. CASE q = o
      BY <3>1, <3>2, <1>0, <1>2, <1>4, <1>6 DEF Ordered
    <3>3. CASE q # o
      BY <3>1, <3>3, <1>1, <1>4 DEF Ordered
    <3> QED BY <3>2, <3>3
  <2>4. \A w \in Workers : \A e \in queue', f \in batch'[w] :
          ~(f.op \in Ops /\ e.op \in before'[f.op] /\ e.key = f.key /\ IsWrite(e) /\ IsWrite(f))
    BY <1>4, <1>7 DEF Ordered
  <2> QED BY <2>1, <2>2, <2>3, <2>4 DEF Ordered
<1>10. TouchesFresh'
  <2>1. \A w, k : (Holds(w, k)' <=> Holds(w, k)) /\ (WriteBatch(w)' <=> WriteBatch(w))
    BY DEF Holds, WriteBatch
  <2> QED BY <1>4, <2>1 DEF TouchesFresh
<1>11. Returned' = Returned
  BY <1>0 DEF Returned
<1>12. phaseBar' = phaseBar
  BY <1>0 DEF phaseBar
<1> QED BY <1>8, <1>9, <1>10, <1>11, <1>12, StutterIsStoreStep

LEMMA InsertTouchInStore ==
  ASSUME Inv, StoreInv, NEW w \in Workers, NEW t \in touches[w], InsertTouch(w, t)
  PROVE  StoreInv' /\ StoreStep
<1> USE ProfileMapAssumption DEF InsertTouch, StoreInv, queueVars, readyVars, callVars
<1>0. PICK x : x = TouchEntry(w, t)
  OBVIOUS
<1>1. /\ x.op = w /\ x.key = t[1] /\ x.val = t[2] /\ x.stamp = stamp[w]
      /\ queue' = queue \cup {x} /\ AllEntries' = AllEntries \cup {x}
      /\ w \notin Ops /\ stamp[w] < clock
  BY <1>0 DEF TouchEntry, AllEntries, Inv, Data, StampsBehind
<1>2. \A u \in Workers : touches'[u] \subseteq touches[u]
  BY DEF Inv, TypeOK
<1>3. \A q \in Ops : w \notin before[q]
  BY <1>1 DEF Ordered
<1>4. Results'
  <2>1. \A u, p : InBatch(u, p)' <=> InBatch(u, p)
    BY DEF InBatch
  <2> QED BY <2>1 DEF Results
<1>5. Ordered'
  <2>1. \A e \in AllEntries' : e.stamp < clock' /\ (e.op \in Ops => e.val = e.op)
    BY <1>1 DEF Ordered
  <2>2. ASSUME NEW q \in Ops, NEW f \in AllEntries', f.op \in before'[q]
        PROVE  /\ spc'[q] = "counted" => f.stamp < stamp'[q]
               /\ \A e \in AllEntries' : e.op = q => f.stamp < e.stamp
    <3>1. f \in AllEntries /\ f.op \in before[q]
      BY <2>2, <1>1, <1>3
    <3> QED BY <3>1, <1>1 DEF Ordered
  <2>3. \A u \in Workers : \A e \in queue', f \in batch'[u] :
          ~(f.op \in Ops /\ e.op \in before'[f.op] /\ e.key = f.key /\ IsWrite(e) /\ IsWrite(f))
    BY <1>1, <1>3 DEF Ordered
  <2> QED BY <2>1, <2>2, <2>3 DEF Ordered
<1>6. TouchesFresh'
  <2>1. \A u, k : (Holds(u, k)' <=> Holds(u, k)) /\ (WriteBatch(u)' <=> WriteBatch(u))
    BY DEF Holds, WriteBatch
  <2>2. db[t[1]] = t[2] /\ Holds(w, t[1]) /\ ~WriteBatch(w) /\ t[1] \in Keys
    <3>1. t \in Keys \X Ops
      BY DEF Inv, TypeOK
    <3> QED BY <3>1 DEF TouchesFresh
  <2>3. \A u \in Workers : Holds(u, t[1]) => ~WriteBatch(u)
    BY <2>2 DEF Inv, Data, KeyExclusion
  <2> QED BY <1>1, <1>2, <2>1, <2>2, <2>3 DEF TouchesFresh
<1>7. Returned' = Returned /\ phaseBar' = phaseBar
  BY DEF Returned, phaseBar
<1> QED BY <1>4, <1>5, <1>6, <1>7, StutterIsStoreStep

\* No entry is new, and none gets ahead of one that was submitted before it.
LEMMA OrderedShrinks ==
  ASSUME Ordered, AllEntries' \subseteq AllEntries, UNCHANGED <<clock, before, spc, stamp>>,
         \A w \in Workers : \A e \in queue', f \in batch'[w] :
           ~(f.op \in Ops /\ e.op \in before[f.op] /\ e.key = f.key /\ IsWrite(e) /\ IsWrite(f))
  PROVE  Ordered'
BY DEF Ordered

LEMMA ScanInStore ==
  ASSUME Inv, StoreInv, NEW w \in Workers, Scan(w) PROVE StoreInv' /\ StoreStep
<1> USE DEF StoreInv, queueVars, readyVars, callVars
<1>0. PICK taken : taken = Collected
  OBVIOUS
<1>1. /\ wpc[w] = "collecting" /\ wpc' = [wpc EXCEPT ![w] = "scanned"]
      /\ queue' = queue \ taken /\ batch' = [batch EXCEPT ![w] = taken]
      /\ UNCHANGED <<db, clock, spc, stamp, touches, result, calls, before>>
  BY <1>0 DEF Scan, Goto
<1>2. /\ taken \subseteq queue
      /\ \E write \in BOOLEAN : \A e \in taken : IsWrite(e) <=> write
      /\ \A e \in taken, f \in queue : f.key = e.key /\ (IsWrite(f) <=> IsWrite(e)) => f \in taken
  BY <1>0, CollectedFacts DEF Scan, Inv
<1>3. /\ wpc'[w] = "scanned" /\ batch'[w] = taken /\ batch[w] = {} /\ touches[w] = {}
      /\ \A u \in Workers : u # w => wpc'[u] = wpc[u] /\ batch'[u] = batch[u]
  BY <1>1 DEF Inv, TypeOK, Data, BatchesHeld, Holding
<1>4. wpc[w] \notin Decided /\ wpc'[w] \notin Decided
  BY <1>1, <1>3 DEF Decided
<1>5. Results'
  <2>1. \A u \in Workers, p \in Ops : u # w => (InBatch(u, p)' <=> InBatch(u, p))
    BY <1>3 DEF InBatch
  <2> QED BY <1>1, <1>3, <1>4, <2>1 DEF Results
<1>6. Ordered'
  <2>1. AllEntries' \subseteq AllEntries
    BY <1>1, <1>2, <1>3 DEF AllEntries
  <2>2. ASSUME NEW u \in Workers, NEW e \in queue', NEW f \in batch'[u],
               f.op \in Ops /\ e.op \in before[f.op] /\ e.key = f.key /\ IsWrite(e) /\ IsWrite(f)
        PROVE  FALSE
    <3>1. e \in queue /\ e \notin taken
      BY <1>1
    <3>2. CASE u = w
      BY <1>2, <1>3, <2>2, <3>1, <3>2
    <3>3. CASE u # w
      BY <1>3, <2>2, <3>1, <3>3 DEF Ordered
    <3> QED BY <3>2, <3>3
  <2> QED BY <1>1, <2>1, <2>2, OrderedShrinks
<1>7. TouchesFresh'
  <2>1. \A u \in Workers : u # w => /\ WriteBatch(u)' <=> WriteBatch(u)
                                    /\ \A k : Holds(u, k)' <=> Holds(u, k)
    BY <1>3 DEF WriteBatch, Holds
  <2>2. ASSUME NEW e \in queue', e.type = "touch"
        PROVE  db'[e.key] = e.val /\ \A u \in Workers : Holds(u, e.key)' => ~WriteBatch(u)'
    <3>1. e \in queue /\ e \notin taken /\ IsWrite(e)
      BY <1>1, <2>2 DEF IsWrite
    <3>2. db'[e.key] = e.val /\ \A u \in Workers : Holds(u, e.key) => ~WriteBatch(u)
      BY <1>1, <2>2, <3>1 DEF TouchesFresh
    <3>3. Holds(w, e.key)' => ~WriteBatch(w)'
      BY <1>2, <1>3, <3>1 DEF Holds, WriteBatch
    <3> QED BY <2>1, <3>2, <3>3
  <2>3. \A u \in Workers : \A t \in touches'[u] :
          db'[t[1]] = t[2] /\ Holds(u, t[1])' /\ ~WriteBatch(u)'
    BY <1>1, <1>3, <2>1 DEF TouchesFresh
  <2>4. \A u \in Workers : \A e \in batch'[u] :
          e.type = "touch" /\ wpc'[u] \notin Decided => db'[e.key] = e.val
    BY <1>1, <1>2, <1>3 DEF TouchesFresh
  <2> QED BY <2>2, <2>3, <2>4 DEF TouchesFresh
<1>8. Returned' = Returned /\ phaseBar' = phaseBar
  BY <1>1 DEF Returned, phaseBar
<1> QED BY <1>1, <1>5, <1>6, <1>7, <1>8, StutterIsStoreStep

LEMMA CompleteBatchInStore ==
  ASSUME Inv, StoreInv, NEW w \in Workers, CompleteBatch(w) PROVE StoreInv' /\ StoreStep
<1> USE DEF StoreInv, queueVars, readyVars, callVars
<1>1. /\ wpc[w] = "completing" /\ wpc' = [wpc EXCEPT ![w] = "completed"]
      /\ batch' = [batch EXCEPT ![w] = {}]
      /\ UNCHANGED <<queue, db, clock, spc, stamp, touches, result, calls, before>>
  BY DEF CompleteBatch, Goto
<1>2. /\ batch'[w] = {} /\ touches[w] = {}
      /\ \A u \in Workers : u # w => wpc'[u] = wpc[u] /\ batch'[u] = batch[u]
  BY <1>1 DEF Inv, TypeOK, Data, BatchesHeld
<1>3. Results'
  <2>1. \A u \in Workers, p \in Ops : InBatch(u, p)' <=> InBatch(u, p) /\ u # w
    BY <1>2 DEF InBatch
  <2>2. \A p \in Ops : InBatch(w, p) => calls[p] = 1
    BY <1>1 DEF Inv, Data, AnsweredOnce
  <2> QED BY <1>1, <1>2, <2>1, <2>2 DEF Results
<1>4. Ordered'
  <2>1. AllEntries' \subseteq AllEntries
    BY <1>1, <1>2 DEF AllEntries
  <2>2. \A u \in Workers : \A e \in queue', f \in batch'[u] :
          ~(f.op \in Ops /\ e.op \in before[f.op] /\ e.key = f.key /\ IsWrite(e) /\ IsWrite(f))
    BY <1>1, <1>2 DEF Ordered
  <2> QED BY <1>1, <2>1, <2>2, OrderedShrinks
<1>5. TouchesFresh'
  <2>1. \A u \in Workers : u # w => /\ WriteBatch(u)' <=> WriteBatch(u)
                                    /\ \A k : Holds(u, k)' <=> Holds(u, k)
    BY <1>2 DEF WriteBatch, Holds
  <2>2. ~WriteBatch(w)'
    BY <1>2 DEF WriteBatch
  <2> QED BY <1>1, <1>2, <2>1, <2>2 DEF TouchesFresh
<1>6. Returned' = Returned /\ phaseBar' = phaseBar
  BY <1>1 DEF Returned, phaseBar
<1> QED BY <1>1, <1>3, <1>4, <1>5, <1>6, StutterIsStoreStep

\* A batch is decided: its operations get their results, the database changes only
\* under the keys that a write batch holds.
Decides(w) ==
  /\ wpc[w] = "processing"
  /\ wpc'[w] \in {"answering", "touching"} /\ \A u \in Workers : u # w => wpc'[u] = wpc[u]
  /\ UNCHANGED <<queue, batch, clock, spc, stamp, calls, before>>
  /\ \A o \in Ops : IF InBatch(w, o) THEN result'[o] # Pending ELSE result'[o] = result[o]
  /\ \A u \in Workers : u # w => touches'[u] = touches[u]
  /\ \A t \in touches'[w] : db[t[1]] = t[2] /\ Holds(w, t[1]) /\ ~WriteBatch(w)
  /\ \A k \in Keys : db'[k] = db[k] \/ (WriteBatch(w) /\ Holds(w, k))

LEMMA DecidesKeepsStore ==
  ASSUME Inv, StoreInv, NEW w \in Workers, Decides(w) PROVE StoreInv'
<1> USE DEF StoreInv, Decides
<1>1. Results'
  <2>1. \A u \in Workers, p \in Ops : InBatch(u, p)' <=> InBatch(u, p)
    BY DEF InBatch
  <2>2. wpc'[w] \in Decided /\ wpc[w] \notin Decided
    BY DEF Decided
  <2> QED BY <2>1, <2>2 DEF Results
<1>2. Ordered'
  <2>1. AllEntries' \subseteq AllEntries
    BY DEF AllEntries
  <2> QED BY <2>1, OrderedShrinks DEF Ordered
<1>3. TouchesFresh'
  <2>1. \A u, k : (Holds(u, k)' <=> Holds(u, k)) /\ (WriteBatch(u)' <=> WriteBatch(u))
    BY DEF Holds, WriteBatch
  <2>2. wpc'[w] \in Decided
    BY DEF Decided
  <2>3. \A e \in queue' : e.type = "touch" =>
          db'[e.key] = e.val /\ \A u \in Workers : Holds(u, e.key)' => ~WriteBatch(u)'
    <3>1. \A e \in queue : e.key \in Keys
      BY DEF Inv, TypeOK, Entries
    <3> QED BY <2>1, <3>1 DEF TouchesFresh
  <2>4. ASSUME NEW u \in Workers, NEW t \in touches'[u]
        PROVE  db'[t[1]] = t[2] /\ Holds(u, t[1])' /\ ~WriteBatch(u)'
    <3>1. db[t[1]] = t[2] /\ Holds(u, t[1]) /\ ~WriteBatch(u)
      BY <2>4 DEF TouchesFresh
    <3>2. t[1] \in Keys
      BY <3>1 DEF Holds, Inv, TypeOK, Entries
    <3>3. ~(WriteBatch(w) /\ Holds(w, t[1]))
      BY <3>1, <3>2 DEF Inv, Data, KeyExclusion
    <3> QED BY <2>1, <3>1, <3>2, <3>3
  <2>5. ASSUME NEW u \in Workers, NEW e \in batch'[u], e.type = "touch", wpc'[u] \notin Decided
        PROVE  db'[e.key] = e.val
    <3>1. u # w /\ e \in batch[u] /\ wpc[u] \notin Decided
      BY <2>2, <2>5
    <3>2. Holds(u, e.key) /\ WriteBatch(u) /\ e.key \in Keys
      BY <2>5, <3>1 DEF Holds, WriteBatch, IsWrite, Inv, TypeOK, Entries
    <3>3. ~(WriteBatch(w) /\ Holds(w, e.key))
      BY <3>1, <3>2 DEF Inv, Data, KeyExclusion
    <3> QED BY <2>5, <3>1, <3>2, <3>3 DEF TouchesFresh
  <2> QED BY <2>3, <2>4, <2>5 DEF TouchesFresh
<1> QED BY <1>1, <1>2, <1>3

\* To the callers the operations of the batch were pending and are applied.
LEMMA DecidesApplies ==
  ASSUME Inv, StoreInv, NEW w \in Workers, Decides(w)
  PROVE  /\ Returned' = Returned /\ before' = before
         /\ BatchOps(w) \subseteq Ops
         /\ \A o \in BatchOps(w) : phaseBar[o] = "pending"
         /\ phaseBar' = [o \in Ops |-> IF o \in BatchOps(w) THEN "applied" ELSE phaseBar[o]]
<1> USE DEF StoreInv, Decides
<1>0. BatchOps(w) \subseteq Ops
  BY ProfileMapAssumption DEF BatchOps, Inv, TypeOK, Entries
<1>1. \A o \in Ops : o \in BatchOps(w) <=> InBatch(w, o)
  BY BatchOpsIn DEF Inv
<1>2. \A o \in BatchOps(w) : calls[o] = 0 /\ spc[o] # "new" /\ result[o] = Pending
  <2>1. SUFFICES ASSUME NEW o \in Ops, InBatch(w, o)
                 PROVE  calls[o] = 0 /\ spc[o] # "new" /\ result[o] = Pending
    BY <1>0, <1>1
  <2>2. calls[o] = 0 /\ spc[o] # "new" /\ \A u \in Workers : InBatch(u, o) => u = w
    BY <2>1 DEF Inv, Data, AnsweredOnce
  <2>3. wpc[w] \notin Decided
    BY DEF Decided
  <2> QED BY <2>2, <2>3 DEF Results
<1>3. \A o \in BatchOps(w) : phaseBar[o] = "pending"
  BY <1>0, <1>2 DEF phaseBar
<1>4. \A o \in Ops : phaseBar'[o] = IF o \in BatchOps(w) THEN "applied" ELSE phaseBar[o]
  BY <1>1, <1>2 DEF phaseBar
<1>5. phaseBar' = [o \in Ops |-> phaseBar'[o]]
  BY DEF phaseBar
<1>6. Returned' = Returned
  BY DEF Returned
<1> QED BY <1>0, <1>3, <1>4, <1>5, <1>6

LEMMA ReadBatchInStore ==
  ASSUME Inv, StoreInv, NEW w \in Workers, NEW bad, NEW touch \in SUBSET BatchKeys(w),
         ReadBatch(w, bad, touch)
  PROVE  StoreInv' /\ StoreStep
<1> USE ProfileMapAssumption DEF queueVars, readyVars, callVars
<1>0. PICK kept, T, place :
        /\ kept = IF open THEN touch ELSE {}
        /\ T = {<<k, db[k]>> : k \in kept}
        /\ place = IF kept = {} THEN "answering" ELSE "touching"
  OBVIOUS
<1>1. /\ touches' = [touches EXCEPT ![w] = T] /\ wpc' = [wpc EXCEPT ![w] = place]
      /\ wpc[w] = "processing" /\ ~WriteBatch(w)
      /\ UNCHANGED <<queue, batch, clock, db, spc, stamp, calls, before>>
      /\ result' = [o \in Ops |-> IF o \notin BatchOps(w) THEN result[o]
                                  ELSE IF OpKey[o] \in bad THEN "error" ELSE ReadValue(o)]
  BY <1>0 DEF ReadBatch, Goto
<1>2. \A o \in Ops : IF InBatch(w, o) THEN result'[o] # Pending ELSE result'[o] = result[o]
  <2>1. SUFFICES ASSUME NEW o \in Ops
                 PROVE  IF InBatch(w, o) THEN result'[o] # Pending ELSE result'[o] = result[o]
    OBVIOUS
  <2>2. o \in BatchOps(w) <=> InBatch(w, o)
    BY BatchOpsIn DEF Inv
  <2>3. ReadValue(o) \in Ops \cup {Absent, "missing", "found"}
    BY DEF ReadValue, Inv, TypeOK
  <2> QED BY <1>1, <2>2, <2>3
<1>3. Decides(w)
  <2>1. \A k \in kept : Holds(w, k)
    BY <1>0 DEF Holds, BatchKeys
  <2>2. wpc'[w] \in {"answering", "touching"} /\ \A u \in Workers : u # w => wpc'[u] = wpc[u]
    BY <1>0, <1>1 DEF Inv, TypeOK
  <2>3. touches'[w] = T /\ \A u \in Workers : u # w => touches'[u] = touches[u]
    BY <1>1 DEF Inv, TypeOK
  <2>4. \A t \in T : db[t[1]] = t[2] /\ Holds(w, t[1])
    BY <1>0, <2>1
  <2> QED BY <1>1, <1>2, <2>2, <2>3, <2>4 DEF Decides
<1>4. StoreInv'
  BY <1>3, DecidesKeepsStore
<1>5. /\ Returned' = Returned /\ before' = before /\ BatchOps(w) \subseteq Ops
      /\ \A o \in BatchOps(w) : phaseBar[o] = "pending"
      /\ phaseBar' = [o \in Ops |-> IF o \in BatchOps(w) THEN "applied" ELSE phaseBar[o]]
  BY <1>3, DecidesApplies
<1>6. CASE BatchOps(w) = {}
  <2>1. result' = result
    BY <1>1, <1>6 DEF Inv, TypeOK
  <2>2. phaseBar' = phaseBar
    BY <1>5, <1>6 DEF phaseBar
  <2> QED BY <1>1, <1>4, <1>5, <2>1, <2>2, StutterIsStoreStep
<1>7. CASE BatchOps(w) # {}
  <2>1. PICK S, wrong : S = BatchOps(w) /\ wrong = {o \in S : OpKey[o] \in bad}
    OBVIOUS
  <2>2. S \in SUBSET Store!Reads /\ wrong \in SUBSET S
    <3>1. \A o \in S : OpType[o] \notin {"touch", "save", "remove"}
      BY <1>1, <2>1 DEF BatchOps, WriteBatch, IsWrite, Inv, TypeOK
    <3> QED BY <1>5, <2>1, <3>1 DEF Store!Reads
  <2>3. Store!AllPending(S) /\ phaseBar' = Store!Applied(S)
    BY <1>5, <1>7, <2>1 DEF Store!AllPending, Store!Applied
  <2>4. result' = [o \in Ops |-> IF o \notin S THEN result[o]
                                 ELSE IF o \in wrong THEN "error" ELSE Store!ReadValue(o)]
    BY <1>1, <2>1 DEF ReadValue, Store!ReadValue
  <2>5. Store!ApplyReads(S, wrong)
    BY <1>1, <1>5, <2>3, <2>4 DEF Store!ApplyReads
  <2>6. Store!StoreNext
    BY <2>2, <2>5 DEF Store!StoreNext
  <2> QED BY <1>4, <2>6 DEF StoreStep
<1> QED BY <1>6, <1>7

LEMMA WriteFailsInStore ==
  ASSUME Inv, StoreInv, NEW w \in Workers, WriteFails(w) PROVE StoreInv' /\ StoreStep
<1> USE ProfileMapAssumption DEF queueVars, readyVars, callVars
<1>1. /\ wpc' = [wpc EXCEPT ![w] = "answering"] /\ wpc[w] = "processing" /\ WriteBatch(w)
      /\ UNCHANGED <<queue, batch, clock, db, spc, stamp, calls, before, touches>>
      /\ result' = [o \in Ops |-> IF o \in BatchOps(w) THEN "error" ELSE result[o]]
  BY DEF WriteFails, Goto
<1>2. \A o \in Ops : IF InBatch(w, o) THEN result'[o] # Pending ELSE result'[o] = result[o]
  BY <1>1, BatchOpsIn DEF Inv
<1>3. Decides(w)
  <2>1. wpc'[w] = "answering" /\ touches'[w] = {} /\ \A u \in Workers : u # w => wpc'[u] = wpc[u]
    BY <1>1 DEF Inv, TypeOK, Data, BatchesHeld
  <2> QED BY <1>1, <1>2, <2>1 DEF Decides
<1>4. StoreInv'
  BY <1>3, DecidesKeepsStore
<1>5. /\ Returned' = Returned /\ before' = before /\ BatchOps(w) \subseteq Ops
      /\ \A o \in BatchOps(w) : phaseBar[o] = "pending"
      /\ phaseBar' = [o \in Ops |-> IF o \in BatchOps(w) THEN "applied" ELSE phaseBar[o]]
  BY <1>3, DecidesApplies
<1>6. CASE BatchOps(w) = {}
  <2>1. result' = result
    BY <1>1, <1>6 DEF Inv, TypeOK
  <2>2. phaseBar' = phaseBar
    BY <1>5, <1>6 DEF phaseBar
  <2> QED BY <1>1, <1>4, <1>5, <2>1, <2>2, StutterIsStoreStep
<1>7. CASE BatchOps(w) # {}
  <2>1. PICK S : S = BatchOps(w)
    OBVIOUS
  <2>2. S \in SUBSET Store!Writes
    <3>1. \A e \in batch[w] : IsWrite(e)
      BY <1>1 DEF Inv, Data, BatchesHeld, WriteBatch
    <3>2. \A o \in S : OpType[o] \in {"save", "remove"}
      BY <1>5, <2>1, <3>1 DEF BatchOps, IsWrite, Inv, TypeOK
    <3> QED BY <1>5, <2>1, <3>2 DEF Store!Writes
  <2>3. Store!AllPending(S) /\ phaseBar' = Store!Applied(S)
    BY <1>5, <1>7, <2>1 DEF Store!AllPending, Store!Applied
  <2>4. Store!Fail(S)
    BY <1>1, <1>5, <2>1, <2>3 DEF Store!Fail
  <2>5. Store!StoreNext
    BY <2>2, <2>4 DEF Store!StoreNext
  <2> QED BY <1>4, <2>5 DEF StoreStep
<1> QED BY <1>6, <1>7

LEMMA CallBackInStore ==
  ASSUME Inv, StoreInv, NEW w \in Workers, CallBack(w) PROVE StoreInv' /\ StoreStep
<1> USE ProfileMapAssumption DEF StoreInv, queueVars, readyVars, callVars
<1>1. /\ wpc' = [wpc EXCEPT ![w] = "completing"] /\ wpc[w] = "answering"
      /\ UNCHANGED <<queue, batch, clock, db, spc, stamp, result, before, touches>>
      /\ calls' = [o \in Ops |-> calls[o] + IF o \in BatchOps(w) THEN 1 ELSE 0]
  BY DEF CallBack, Goto
<1>2. wpc'[w] = "completing" /\ \A u \in Workers : u # w => wpc'[u] = wpc[u]
  BY <1>1 DEF Inv, TypeOK
<1>3. \A u \in Workers : wpc'[u] \in Decided <=> wpc[u] \in Decided
  BY <1>1, <1>2 DEF Decided
<1>4. BatchOps(w) \subseteq Ops /\ \A o \in Ops : o \in BatchOps(w) <=> InBatch(w, o)
  <2>1. BatchOps(w) \subseteq Ops
    BY DEF BatchOps, Inv, TypeOK, Entries
  <2> QED BY <2>1, BatchOpsIn DEF Inv
<1>5. \A o \in Ops : IF o \in BatchOps(w) THEN /\ calls[o] = 0 /\ calls'[o] = 1
                                               /\ result[o] # Pending
                                          ELSE calls'[o] = calls[o]
  <2>1. \A o \in BatchOps(w) : calls[o] = 0 /\ result[o] # Pending
    BY <1>1, <1>4 DEF Inv, Data, AnsweredOnce, Decided
  <2>2. \A o \in Ops : calls[o] \in Nat
    BY DEF Inv, TypeOK
  <2> QED BY <1>1, <2>1, <2>2
<1>6. Results'
  <2>1. \A u, p : InBatch(u, p)' <=> InBatch(u, p)
    BY <1>1 DEF InBatch
  <2> QED BY <1>1, <1>3, <1>5, <2>1 DEF Results
<1>7. Ordered'
  <2>1. AllEntries' \subseteq AllEntries
    BY <1>1 DEF AllEntries
  <2> QED BY <1>1, <2>1, OrderedShrinks DEF Ordered
<1>8. TouchesFresh'
  <2>1. \A u, k : (Holds(u, k)' <=> Holds(u, k)) /\ (WriteBatch(u)' <=> WriteBatch(u))
    BY <1>1 DEF Holds, WriteBatch
  <2> QED BY <1>1, <1>3, <2>1 DEF TouchesFresh
<1>9. Returned' = Returned
  BY <1>1 DEF Returned
<1>10. \A o \in Ops : phaseBar'[o] = IF o \in BatchOps(w) THEN "answered" ELSE phaseBar[o]
  BY <1>1, <1>5 DEF phaseBar
<1>11. phaseBar' = [o \in Ops |-> phaseBar'[o]] /\ phaseBar = [o \in Ops |-> phaseBar[o]]
  BY DEF phaseBar
<1>12. CASE BatchOps(w) = {}
  <2>1. phaseBar' = phaseBar
    BY <1>10, <1>11, <1>12
  <2> QED BY <1>1, <1>6, <1>7, <1>8, <1>9, <2>1, StutterIsStoreStep
<1>13. CASE BatchOps(w) # {}
  <2>1. PICK S : S = BatchOps(w)
    OBVIOUS
  <2>2. \A o \in S : phaseBar[o] = "applied"
    BY <1>4, <1>5, <2>1 DEF phaseBar
  <2>3. Store!Answer(S)
    BY <1>1, <1>9, <1>10, <1>11, <1>13, <2>1, <2>2 DEF Store!Answer
  <2>4. Store!StoreNext
    BY <1>4, <2>1, <2>3 DEF Store!StoreNext
  <2> QED BY <1>1, <1>6, <1>7, <1>8, <2>4 DEF StoreStep
<1> QED BY <1>12, <1>13

\* The write of a group that wins is the newest save or remove, if there is any.
LEMMA LatestOf ==
  ASSUME NEW S \in SUBSET Entries, IsFiniteSet(S), NEW x \in S, x.type # "touch"
  PROVE  /\ Latest(S) \in S /\ Latest(S).type # "touch"
         /\ \A e \in S : e.type # "touch" => e.stamp <= Latest(S).stamp
<1>1. PICK real : real = {e \in S : e.type # "touch"}
  OBVIOUS
<1>2. real \subseteq S /\ x \in real /\ IsFiniteSet(real)
  BY <1>1, FS_Subset
<1>3. Stamps(real) \subseteq Nat /\ Stamps(real) # {}
  BY <1>2 DEF Stamps, Entries
<1>4. IsFiniteSet(Stamps(real))
  <2>1. PICK g : g = [e \in real |-> e.stamp]
    OBVIOUS
  <2>2. IsFiniteSet({g[e] : e \in real})
    BY <1>2, ImageFinite
  <2>3. {g[e] : e \in real} = Stamps(real)
    BY <2>1 DEF Stamps
  <2> QED BY <2>2, <2>3, Zenon
<1>5. Max(Stamps(real)) \in Stamps(real) /\ \A y \in Stamps(real) : Max(Stamps(real)) >= y
  BY <1>3, <1>4, MaxOf
<1>6. \E e \in real : e.stamp = Max(Stamps(real))
  BY <1>5 DEF Stamps
<1>7. Latest(S) = CHOOSE e \in real : e.stamp = Max(Stamps(real))
  BY <1>1, <1>2 DEF Latest
<1>8. Latest(S) \in real /\ Latest(S).stamp = Max(Stamps(real))
  BY <1>6, <1>7, Zenon
<1>9. \A e \in real : e.stamp \in Stamps(real) /\ e.stamp \in Nat
  BY <1>2 DEF Stamps, Entries
<1>10. \A e \in real : e.stamp <= Latest(S).stamp
  BY <1>3, <1>5, <1>8, <1>9
<1> QED BY <1>1, <1>2, <1>8, <1>10

LEMMA WriteOkInStore ==
  ASSUME Inv, StoreInv, NEW w \in Workers, WriteOk(w) PROVE StoreInv' /\ StoreStep
<1> USE ProfileMapAssumption DEF queueVars, readyVars, callVars
<1>1. /\ wpc' = [wpc EXCEPT ![w] = "answering"] /\ wpc[w] = "processing" /\ WriteBatch(w)
      /\ UNCHANGED <<queue, batch, clock, spc, stamp, calls, before, touches>>
      /\ result' = [o \in Ops |-> IF o \in BatchOps(w) THEN "ok" ELSE result[o]]
      /\ db' = [k \in Keys |->
                  IF k \notin BatchKeys(w) THEN db[k]
                  ELSE IF Winner(w, k).type = "remove" THEN Absent ELSE Winner(w, k).val]
  BY DEF WriteOk, Goto
<1>2. \A o \in Ops : IF InBatch(w, o) THEN result'[o] # Pending ELSE result'[o] = result[o]
  BY <1>1, BatchOpsIn DEF Inv
<1>3. Decides(w)
  <2>1. wpc'[w] = "answering" /\ touches'[w] = {} /\ \A u \in Workers : u # w => wpc'[u] = wpc[u]
    BY <1>1 DEF Inv, TypeOK, Data, BatchesHeld
  <2>2. \A k \in Keys : db'[k] = db[k] \/ Holds(w, k)
    BY <1>1 DEF Holds, BatchKeys
  <2> QED BY <1>1, <1>2, <2>1, <2>2 DEF Decides
<1>4. StoreInv'
  BY <1>3, DecidesKeepsStore
<1>5. /\ Returned' = Returned /\ before' = before /\ BatchOps(w) \subseteq Ops
      /\ \A o \in BatchOps(w) : phaseBar[o] = "pending"
      /\ phaseBar' = [o \in Ops |-> IF o \in BatchOps(w) THEN "applied" ELSE phaseBar[o]]
  BY <1>3, DecidesApplies
<1>6. /\ \A e \in batch[w] : IsWrite(e) /\ e \in Entries /\ e \in AllEntries
      /\ IsFiniteSet(batch[w]) /\ wpc[w] \notin Decided
      /\ \A e \in batch[w] : e.type # "touch" =>
           e.op \in Ops /\ e.type = OpType[e.op] /\ e.key = OpKey[e.op] /\ e.val = e.op
  BY <1>1 DEF Inv, Data, BatchesHeld, WriteBatch, TypeOK, Decided, AllEntries, StoreInv, Ordered
<1>7. \A k \in Keys : \A e \in batch[w] : e.key = k => e \in Group(batch[w], TRUE, k)
  BY <1>6 DEF Group, IsWrite
\* Keys of which the batch holds touches only.
<1>8. ASSUME NEW k \in Keys, \A o \in BatchOps(w) : OpKey[o] # k
      PROVE  db'[k] = db[k]
  <2>1. CASE k \notin BatchKeys(w)
    BY <1>1, <2>1
  <2>2. CASE k \in BatchKeys(w)
    <3>1. PICK S : S = Group(batch[w], TRUE, k)
      OBVIOUS
    <3>2. S \subseteq batch[w] /\ S # {} /\ \A e \in S : e.key = k
      BY <1>7, <2>2, <3>1 DEF Group, BatchKeys
    <3>3. S \in SUBSET Entries /\ IsFiniteSet(S)
      BY <1>6, <3>2, FS_Subset
    <3>4. Latest(S) \in S
      BY <3>2, <3>3, LatestIn
    <3>5. \A e \in S : e.type = "touch"
      BY <1>6, <1>8, <3>2 DEF BatchOps
    <3>6. Latest(S).type = "touch" /\ Latest(S).val = db[k]
      BY <1>6, <3>2, <3>4, <3>5 DEF StoreInv, TouchesFresh
    <3> QED BY <1>1, <2>2, <3>1, <3>6 DEF Winner
  <2> QED BY <2>1, <2>2
<1>9. CASE BatchOps(w) = {}
  <2>1. result' = result
    BY <1>1, <1>9 DEF Inv, TypeOK
  <2>2. phaseBar' = phaseBar
    BY <1>5, <1>9 DEF phaseBar
  <2>3. db' = db
    BY <1>1, <1>8, <1>9 DEF Inv, TypeOK
  <2> QED BY <1>4, <1>5, <2>1, <2>2, <2>3, StutterIsStoreStep
<1>10. CASE BatchOps(w) # {}
  <2>1. PICK S : S = BatchOps(w)
    OBVIOUS
  <2>2. S \in SUBSET Store!Writes
    <3>1. \A o \in S : OpType[o] \in {"save", "remove"}
      BY <1>5, <1>6, <2>1 DEF BatchOps, IsWrite
    <3> QED BY <1>5, <2>1, <3>1 DEF Store!Writes
  <2>3. Store!AllPending(S) /\ phaseBar' = Store!Applied(S)
    BY <1>5, <1>10, <2>1 DEF Store!AllPending, Store!Applied
  <2>4. \A o \in S : \E e \in batch[w] : e.op = o /\ e.type # "touch" /\ e.key = OpKey[o]
    BY <1>6, <2>1 DEF BatchOps
  <2>5. Store!InOrder(S)
    <3>1. SUFFICES ASSUME NEW o \in S, NEW p \in before[o], OpType[p] \in {"save", "remove"},
                          OpKey[p] = OpKey[o], phaseBar[p] = "pending"
                   PROVE  p \in S
      BY DEF Store!InOrder, Store!Writes
    <3>2. p \in Ops /\ o \in Ops /\ spc[p] = "submitted"
      BY <1>5, <2>1, <3>1 DEF StoreInv, Ordered
    <3>3. calls[p] = 0
      BY <3>1, <3>2 DEF phaseBar
    <3>4. Queued(p) \/ \E u \in Workers : InBatch(u, p)
      BY <3>2, <3>3 DEF Inv, Data, AnsweredOnce
    <3>5. PICK e \in batch[w] : e.op = o /\ e.type # "touch" /\ e.key = OpKey[o]
      BY <2>4
    <3>6. ~Queued(p)
      <4>1. ASSUME NEW f \in queue, f.op = p PROVE FALSE
        <5>1. IsWrite(f) /\ f.key = OpKey[p]
          BY <3>1, <3>2, <4>1 DEF Inv, TypeOK, IsWrite
        <5> QED BY <1>6, <3>1, <3>2, <3>5, <4>1, <5>1 DEF StoreInv, Ordered
      <4> QED BY <4>1 DEF Queued
    <3>0. PICK u \in Workers : InBatch(u, p)
      BY <3>4, <3>6
    <3>7. PICK f \in batch[u] : f.op = p
      BY <3>0 DEF InBatch
    <3>8. f.key = OpKey[p] /\ f.type = OpType[p] /\ OpKey[p] \in Keys
      BY <3>2, <3>7 DEF Inv, TypeOK
    <3>9. Holds(u, OpKey[p]) /\ Holds(w, OpKey[p]) /\ WriteBatch(w)
      BY <1>1, <3>1, <3>5, <3>7, <3>8 DEF Holds
    <3>10. u = w
      BY <3>8, <3>9 DEF Inv, Data, KeyExclusion
    <3> QED BY <2>1, <3>1, <3>7, <3>8, <3>10 DEF BatchOps
  <2>6. PICK last : last = [k \in {OpKey[o] : o \in S} |-> Winner(w, k).op]
    OBVIOUS
  <2>7. ASSUME NEW k \in {OpKey[o] : o \in S}
        PROVE  /\ k \in Keys /\ k \in BatchKeys(w)
               /\ last[k] \in S /\ OpKey[last[k]] = k
               /\ \A o \in Store!OnKey(S, k) : last[k] \notin before[o]
               /\ db'[k] = Store!Written(last[k])
    <3>1. PICK G : G = Group(batch[w], TRUE, k)
      OBVIOUS
    <3>2. PICK o \in S : OpKey[o] = k
      BY <2>7
    <3>3. PICK x \in batch[w] : x.op = o /\ x.type # "touch" /\ x.key = k
      BY <2>4, <3>2
    <3>4. k \in Keys /\ k \in BatchKeys(w) /\ x \in G
      <4>1. x \in Entries
        BY <1>6, <3>3
      <4>2. k \in Keys
        BY <3>3, <4>1 DEF Entries
      <4>3. k \in BatchKeys(w)
        BY <3>3 DEF BatchKeys
      <4>4. x \in G
        BY <1>7, <3>1, <3>3, <4>2
      <4> QED BY <4>2, <4>3, <4>4
    <3>5. G \in SUBSET Entries /\ IsFiniteSet(G) /\ G \subseteq batch[w] /\ \A e \in G : e.key = k
      BY <1>6, <3>1, FS_Subset DEF Group
    <3>6. PICK win : win = Latest(G)
      OBVIOUS
    <3>7. /\ win \in G /\ win.type # "touch"
          /\ \A e \in G : e.type # "touch" => e.stamp <= win.stamp
      BY <3>3, <3>4, <3>5, <3>6, LatestOf
    <3>8. last[k] = win.op /\ Winner(w, k) = win
      BY <2>6, <2>7, <3>1, <3>6 DEF Winner
    <3>9. win.op \in S /\ OpKey[win.op] = k /\ win.val = win.op /\ win.type = OpType[win.op]
      BY <1>6, <2>1, <3>5, <3>7 DEF BatchOps
    <3>10. ASSUME NEW p \in S, OpKey[p] = k, win.op \in before[p] PROVE FALSE
      <4>1. PICK e \in batch[w] : e.op = p /\ e.type # "touch" /\ e.key = k
        BY <2>4, <3>10
      <4>2. e \in G /\ e.stamp <= win.stamp
        BY <1>7, <3>1, <3>4, <3>7, <4>1
      <4>3. win.stamp < e.stamp
        BY <1>5, <1>6, <2>1, <3>5, <3>7, <3>10, <4>1 DEF StoreInv, Ordered
      <4>4. win.stamp \in Nat /\ e.stamp \in Nat
        BY <3>5, <3>7, <4>2 DEF Entries
      <4> QED BY <4>2, <4>3, <4>4
    <3>11. \A p \in Store!OnKey(S, k) : last[k] \notin before[p]
      BY <3>8, <3>10 DEF Store!OnKey
    <3>12. db'[k] = Store!Written(last[k])
      <4>1. OpType[win.op] \in {"save", "remove"}
        BY <2>2, <3>9 DEF Store!Writes
      <4> QED BY <1>1, <3>4, <3>8, <3>9, <4>1 DEF Store!Written
    <3> QED BY <3>4, <3>8, <3>9, <3>11, <3>12
  <2>8. last \in [{OpKey[o] : o \in S} -> S] /\ DOMAIN last = {OpKey[o] : o \in S}
    BY <2>6, <2>7
  <2>9. db' = [k \in Keys |-> IF k \in DOMAIN last THEN Store!Written(last[k]) ELSE db[k]]
    <3>1. \A k \in Keys : db'[k] = IF k \in DOMAIN last THEN Store!Written(last[k]) ELSE db[k]
      BY <1>8, <2>1, <2>7, <2>8
    <3>2. db' = [k \in Keys |-> db'[k]]
      BY <1>1
    <3> QED BY <3>1, <3>2
  <2>10. \A k \in DOMAIN last :
           /\ OpKey[last[k]] = k
           /\ \A o \in Store!OnKey(S, k) : last[k] \notin before[o]
    BY <2>7, <2>8
  <2>11. Store!ApplyWrites(S)
    BY <1>1, <1>5, <2>1, <2>3, <2>5, <2>8, <2>9, <2>10, ZenonT(60) DEF Store!ApplyWrites
  <2>12. Store!StoreNext
    BY <2>2, <2>11 DEF Store!StoreNext
  <2> QED BY <1>4, <2>12 DEF StoreStep
<1> QED BY <1>9, <1>10

-----------------------------------------------------------------------------

LEMMA NextInStore ==
  ASSUME Inv, StoreInv, [Next]_vars PROVE StoreInv' /\ StoreStep
<1>0. ASSUME Quiet PROVE StoreInv' /\ StoreStep
  BY <1>0, QuietKeepsStore, QuietIsStutter, StutterIsStoreStep
<1>1. ASSUME NEW o \in Ops, Enter(o) \/ Refuse(o) \/ Submit(o) PROVE StoreInv' /\ StoreStep
  BY <1>1, EnterInStore, RefuseInStore, CountOpInStore, InsertOpInStore, ApplyOpInStore
     DEF Submit
<1>2. ASSUME NEW w \in Workers, Work(w) PROVE StoreInv' /\ StoreStep
  <2>1. CASE \/ Idle(w) \/ WaitUntil(w) \/ StartBatch(w) \/ CollectBegin(w) \/ ScanNothing(w)
             \/ CollectSub(w) \/ CollectEnd(w) \/ ApplyCollected(w) \/ CountTouches(w)
             \/ RequestTouches(w) \/ ApplyTouches(w) \/ ApplyCompleted(w) \/ FinishBatch(w)
             \/ NotifyDrained(w)
    BY <1>0, <2>1, WorkerQuiet
  <2>2. CASE Scan(w) \/ CompleteBatch(w) \/ CallBack(w) \/ WriteOk(w) \/ WriteFails(w)
    BY <2>2, ScanInStore, CompleteBatchInStore, CallBackInStore, WriteOkInStore, WriteFailsInStore
  <2>3. CASE ReadSome(w)
    <3>1. PICK bad \in SUBSET BatchKeys(w), touch \in SUBSET BatchKeys(w) :
            ReadBatch(w, bad, touch)
      BY <2>3 DEF ReadSome
    <3> QED BY <3>1, ReadBatchInStore
  <2>4. CASE \E t \in touches[w] : InsertTouch(w, t)
    BY <2>4, InsertTouchInStore
  <2> QED BY <1>2, <2>1, <2>2, <2>3, <2>4 DEF Work
<1>3. CASE TimePasses \/ Deactivate \/ WaitObject \/ UNCHANGED vars
  BY <1>0, <1>3, OwnerQuiet
<1> QED BY <1>1, <1>2, <1>3 DEF Next

\* To its callers the map is a store: every operation that is not refused takes
\* effect at one instant between its call and its callback, writes of a key in
\* the order of their submission; a batch, a touch or a failed write never shows.
THEOREM MapImplementsStore == Spec => ImplementsStore
<1>1. Init => Store!StoreInit
  BY DEF Init, Store!StoreInit, phaseBar, Returned
<1>2. Inv /\ StoreInv /\ [Next]_vars => StoreInv' /\ [Store!StoreNext]_(Store!svars)
  BY NextInStore DEF StoreStep
<1>3. Spec => [](Inv /\ StoreInv)
  BY <1>2, InitInv, InitStoreInv, NextKeepsInv, PTL DEF Spec
<1>4. Spec => Store!StoreInit /\ [][Store!StoreNext]_(Store!svars)
  BY <1>1, <1>2, <1>3, PTL DEF Spec
<1> QED BY <1>4 DEF ImplementsStore, Store!StoreSpec

=============================================================================
