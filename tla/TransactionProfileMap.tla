------------------------ MODULE TransactionProfileMap ------------------------
(***************************************************************************)
(* ProfilingCommons/ProfileMap/TransactionProfileMap: profiles of a base   *)
(* map read, changed and saved under the transaction of their key.  It     *)
(* composes TransactionMap with the base map's asynchronous operations: an *)
(* operation takes effect on the base map (db) some time after it was      *)
(* submitted and its callback runs later still.  A transaction is closed   *)
(* when its last reference goes: the user's, or the one that the callback  *)
(* of save_profile_async() has captured.  A profile is the set of clients  *)
(* whose changes it contains; each client changes a profile by adding      *)
(* itself.                                                                 *)
(***************************************************************************)
EXTENDS TransactionMap

VARIABLES db,       \* the base map's profiles
          profile,  \* the profile each transaction has read, or wants saved
          stage,    \* what the transaction's user is doing
          op        \* the transaction's operation on the base map

profileVars == <<db, profile, stage, op>>

vars == <<mapVars, profileVars>>

\* "none": no transaction or no profile read yet; "read": has the profile;
\* "blocked": waits for its operation; "released": has dropped its reference.
Stage == {"none", "read", "blocked", "released"}

\* "none", submitted and not applied ("save", "overwrite", "remove"), or applied
\* and the callback not yet called ("done").
Op == {"none", "save", "overwrite", "remove", "done"}

Init ==
  /\ MapInit
  /\ db = [k \in Keys |-> {}]
  /\ profile = [c \in Clients |-> {}]
  /\ stage = [c \in Clients |-> "none"]
  /\ op = [c \in Clients |-> "none"]

Key(c) == hkey[holder[c]]

-----------------------------------------------------------------------------
(* The operations of an open transaction *)

\* get_profile() and co_get_profile() return what the base map holds.
GetProfile(c) ==
  /\ pc[c] = "open" /\ stage[c] = "none"
  /\ profile' = [profile EXCEPT ![c] = db[Key(c)]]
  /\ stage' = [stage EXCEPT ![c] = "read"]
  /\ UNCHANGED <<mapVars, db, op>>

\* save_profile() and co_save_profile() keep the user until the callback.
SaveProfile(c) ==
  /\ pc[c] = "open" /\ stage[c] = "read" /\ op[c] = "none"
  /\ profile' = [profile EXCEPT ![c] = @ \cup {c}]
  /\ op' = [op EXCEPT ![c] = "save"]
  /\ stage' = [stage EXCEPT ![c] = "blocked"]
  /\ UNCHANGED <<mapVars, db>>

\* save_profile_async() returns at once; the callback has the transaction.
SaveProfileAsync(c) ==
  /\ pc[c] = "open" /\ stage[c] = "read" /\ op[c] = "none"
  /\ profile' = [profile EXCEPT ![c] = @ \cup {c}]
  /\ op' = [op EXCEPT ![c] = "save"]
  /\ stage' = [stage EXCEPT ![c] = "released"]
  /\ UNCHANGED <<mapVars, db>>

\* The map's own save_profile() opens a transaction and saves a profile it has
\* not read, which has nobody's change.
SaveUnread(c) ==
  /\ pc[c] = "open" /\ stage[c] = "none" /\ op[c] = "none"
  /\ op' = [op EXCEPT ![c] = "overwrite"]
  /\ stage' = [stage EXCEPT ![c] = "blocked"]
  /\ UNCHANGED <<mapVars, db, profile>>

\* remove_profile() of the transaction, or of the map, which reads nothing before.
RemoveProfile(c) ==
  /\ pc[c] = "open" /\ stage[c] \in {"none", "read"} /\ op[c] = "none"
  /\ op' = [op EXCEPT ![c] = "remove"]
  /\ stage' = [stage EXCEPT ![c] = "blocked"]
  /\ UNCHANGED <<mapVars, db, profile>>

\* The base map applies the operation, or reports an error and does not.
BaseApply(c) ==
  /\ op[c] \in {"save", "overwrite", "remove"}
  /\ \/ db' = [db EXCEPT ![Key(c)] = IF op[c] = "save" THEN profile[c] ELSE {}]
     \/ UNCHANGED db
  /\ op' = [op EXCEPT ![c] = "done"]
  /\ UNCHANGED <<mapVars, profile, stage>>

\* The callback wakes the user of save_profile(), or drops the reference that
\* the callback of save_profile_async() holds.
Callback(c) ==
  /\ op[c] = "done"
  /\ op' = [op EXCEPT ![c] = "none"]
  /\ stage' = [stage EXCEPT ![c] = IF @ = "blocked" THEN "none" ELSE @]
  /\ UNCHANGED <<mapVars, db, profile>>

\* The user drops its reference between two operations.
Release(c) ==
  /\ pc[c] = "open" /\ stage[c] \in {"none", "read"}
  /\ stage' = [stage EXCEPT ![c] = "released"]
  /\ UNCHANGED <<mapVars, db, profile, op>>

\* Mutant: the callback of save_profile_async() does not keep the transaction.
CloseNotPinned(c) ==
  /\ stage[c] = "released"
  /\ CloseCount(c)
  /\ stage' = [stage EXCEPT ![c] = "none"]
  /\ UNCHANGED <<db, profile, op>>

\* The last reference is gone and ~TransactionBase starts.
Close(c) ==
  /\ stage[c] = "released" /\ op[c] = "none"
  /\ CloseCount(c)
  /\ stage' = [stage EXCEPT ![c] = "none"]
  /\ profile' = [profile EXCEPT ![c] = {}]
  /\ UNCHANGED <<db, op>>

-----------------------------------------------------------------------------

UserStep(c) ==
  GetProfile(c) \/ SaveProfile(c) \/ SaveProfileAsync(c) \/ SaveUnread(c)
    \/ RemoveProfile(c) \/ Release(c)

Next ==
  \E c \in Clients :
    \/ UserStep(c) \/ BaseApply(c) \/ Callback(c) \/ Close(c)
    \/ (GetTransaction(c) \/ Progress(c) \/ CancelWaiter(c)) /\ UNCHANGED profileVars

Spec == Init /\ [][Next]_vars

\* A client in the middle of a call goes on, the base map answers, and a
\* transaction, which lives in its user's scope, is dropped some time.
Fairness ==
  \A c \in Clients :
    /\ WF_vars(Progress(c) /\ UNCHANGED profileVars)
    /\ WF_vars(BaseApply(c)) /\ WF_vars(Callback(c)) /\ WF_vars(Close(c))
    /\ SF_vars(Release(c))

FairSpec == Spec /\ Fairness

-----------------------------------------------------------------------------
(* Properties *)

TypeOK ==
  /\ MapTypeOK
  /\ db \in [Keys -> SUBSET Clients]
  /\ profile \in [Clients -> SUBSET Clients]
  /\ stage \in [Clients -> Stage]
  /\ op \in [Clients -> Op]

\* Between the read and the end of the operation nobody else changes the
\* profile: what the transaction has read is what the base map still holds.
Isolation ==
  \A c \in Clients : stage[c] = "read" => profile[c] = db[Key(c)]

\* An operation that was submitted is applied under its own transaction, even
\* when the user has dropped the transaction right after save_profile_async(),
\* and a save that is under way is what the base map holds and the saver's change.
AppliedUnderTransaction ==
  \A c \in Clients :
    /\ op[c] # "none" => stage[c] \in {"blocked", "released"}
    /\ stage[c] # "none" => pc[c] = "open"
    /\ op[c] = "save" => profile[c] = db[Key(c)] \cup {c}

\* What a transaction promises its user: the two parts above.
ProfileInv == TypeOK /\ Isolation /\ AppliedUnderTransaction

Atomic == INSTANCE AtomicProfiles WITH Users <- Clients, ProfileKeys <- Keys, profiles <- db

\* No update is lost: each save adds the saver's change to the profile as it
\* is at that moment, although the saver read it earlier.
NoLostUpdate == Atomic!ProfilesSpec

=============================================================================
