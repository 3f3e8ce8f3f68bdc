----------------------------- MODULE ExclusiveLock -----------------------------
(***************************************************************************)
(* What a user of AsyncMutex may rely on: one owner at a time, and a queue *)
(* of registered waiters that nobody overtakes.  Whoever finds the queue   *)
(* empty and the lock free may take it; a release with waiters registered  *)
(* makes the oldest one the owner in the same step.                        *)
(***************************************************************************)
EXTENDS Naturals, SequencesExt

CONSTANTS Clients, NoOwner

VARIABLES owner,   \* the client that owns the lock, or NoOwner
          queue    \* the registered waiters, oldest first

lockVars == <<owner, queue>>

LockInit == owner = NoOwner /\ queue = <<>>

Take(c) ==
  /\ owner = NoOwner /\ queue = <<>>
  /\ owner' = c
  /\ UNCHANGED queue

Register(c) ==
  /\ owner # NoOwner
  /\ queue' = Append(queue, c)
  /\ UNCHANGED owner

Withdraw(c) ==
  /\ \E i \in 1..Len(queue) : queue[i] = c /\ queue' = RemoveAt(queue, i)
  /\ UNCHANGED owner

Release ==
  /\ owner # NoOwner
  /\ queue = <<>>
  /\ owner' = NoOwner
  /\ UNCHANGED queue

PassOn ==
  /\ owner # NoOwner
  /\ queue # <<>>
  /\ owner' = Head(queue)
  /\ queue' = Tail(queue)

LockNext ==
  \/ \E c \in Clients : Take(c) \/ Register(c) \/ Withdraw(c)
  \/ Release \/ PassOn

LockSpec == LockInit /\ [][LockNext]_lockVars

=============================================================================
