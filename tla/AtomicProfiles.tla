----------------------------- MODULE AtomicProfiles -----------------------------
(***************************************************************************)
(* What the users of a transactional profile map rely on: a read-modify-   *)
(* write of a profile is one atomic step.  A profile is abstracted to the  *)
(* set of users whose changes it contains.                                 *)
(***************************************************************************)
CONSTANTS Users, ProfileKeys

VARIABLE profiles

ProfilesInit == profiles = [k \in ProfileKeys |-> {}]

Update(k, u) == profiles' = [profiles EXCEPT ![k] = @ \cup {u}]

\* A removal, or a save of a profile that was not read.
Erase(k) == profiles' = [profiles EXCEPT ![k] = {}]

ProfilesNext == \E k \in ProfileKeys : Erase(k) \/ \E u \in Users : Update(k, u)

ProfilesSpec == ProfilesInit /\ [][ProfilesNext]_profiles

=============================================================================
