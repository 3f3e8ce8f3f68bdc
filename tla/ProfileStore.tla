------------------------------ MODULE ProfileStore ------------------------------
(***************************************************************************)
(* What RocksDBBatchingProfileMap promises to the callers of its async     *)
(* operations: a store in which every operation that is not refused takes  *)
(* effect at one instant between its call and its callback, the writes of  *)
(* a key in the order in which they were submitted, and every callback is  *)
(* called once.  Several writes may take effect in one instant; the result *)
(* is that of one that no other of them follows.                           *)
(***************************************************************************)
CONSTANTS Ops, OpType, OpKey, Keys, Absent, Pending

VARIABLES store,     \* the profile under each key
          phase,     \* new, pending, applied (not yet answered) or answered
          result,    \* what the callback is told
          returned,  \* operations whose submission has returned
          before     \* operations that had returned when this one was called

svars == <<store, phase, result, returned, before>>

Reads == {o \in Ops : OpType[o] \in {"get", "check"}}
Writes == {o \in Ops : OpType[o] \in {"save", "remove"}}

StoreInit ==
  /\ store = [k \in Keys |-> Absent]
  /\ phase = [o \in Ops |-> "new"]
  /\ result = [o \in Ops |-> Pending]
  /\ returned = {}
  /\ before = [o \in Ops |-> {}]

Invoke(o) ==
  /\ phase[o] = "new"
  /\ phase' = [phase EXCEPT ![o] = "pending"]
  /\ before' = [before EXCEPT ![o] = returned]
  /\ UNCHANGED <<store, result, returned>>

Refuse(o) ==
  /\ phase[o] = "new"
  /\ phase' = [phase EXCEPT ![o] = "answered"]
  /\ result' = [result EXCEPT ![o] = "error"]
  /\ UNCHANGED <<store, returned, before>>

Return(o) ==
  /\ phase[o] # "new"
  /\ returned' = returned \cup {o}
  /\ UNCHANGED <<store, phase, result, before>>

Applied(S) == [o \in Ops |-> IF o \in S THEN "applied" ELSE phase[o]]

AllPending(S) == S # {} /\ \A o \in S : phase[o] = "pending"

\* A check tells whether there is a profile, a get which one.
ReadValue(o) ==
  IF OpType[o] = "get" THEN store[OpKey[o]]
  ELSE IF store[OpKey[o]] = Absent THEN "missing" ELSE "found"

ApplyReads(S, bad) ==
  /\ AllPending(S)
  /\ phase' = Applied(S)
  /\ result' = [o \in Ops |-> IF o \notin S THEN result[o]
                              ELSE IF o \in bad THEN "error" ELSE ReadValue(o)]
  /\ UNCHANGED <<store, returned, before>>

Written(o) == IF OpType[o] = "save" THEN o ELSE Absent

OnKey(S, k) == {o \in S : OpKey[o] = k}

\* No write overtakes one of its key that had been submitted before it.
InOrder(S) ==
  \A o \in S : \A p \in before[o] :
    p \in Writes /\ OpKey[p] = OpKey[o] /\ phase[p] = "pending" => p \in S

ApplyWrites(S) ==
  /\ AllPending(S)
  /\ InOrder(S)
  /\ \E last \in [{OpKey[o] : o \in S} -> S] :
       /\ \A k \in DOMAIN last :
            /\ OpKey[last[k]] = k
            /\ \A o \in OnKey(S, k) : last[k] \notin before[o]
       /\ store' = [k \in Keys |->
                      IF k \in DOMAIN last THEN Written(last[k]) ELSE store[k]]
  /\ phase' = Applied(S)
  /\ result' = [o \in Ops |-> IF o \in S THEN "ok" ELSE result[o]]
  /\ UNCHANGED <<returned, before>>

\* A write batch that the database refuses changes nothing.
Fail(S) ==
  /\ AllPending(S)
  /\ phase' = Applied(S)
  /\ result' = [o \in Ops |-> IF o \in S THEN "error" ELSE result[o]]
  /\ UNCHANGED <<store, returned, before>>

Answer(S) ==
  /\ S # {}
  /\ \A o \in S : phase[o] = "applied"
  /\ phase' = [o \in Ops |-> IF o \in S THEN "answered" ELSE phase[o]]
  /\ UNCHANGED <<store, result, returned, before>>

StoreNext ==
  \/ \E o \in Ops : Invoke(o) \/ Refuse(o) \/ Return(o)
  \/ \E S \in SUBSET Reads : \E bad \in SUBSET S : ApplyReads(S, bad)
  \/ \E S \in SUBSET Writes : ApplyWrites(S) \/ Fail(S)
  \/ \E S \in SUBSET Ops : Answer(S)

StoreSpec == StoreInit /\ [][StoreNext]_svars

=============================================================================
