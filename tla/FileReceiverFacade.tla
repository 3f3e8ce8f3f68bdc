--------------------------- MODULE FileReceiverFacade ---------------------------
(***************************************************************************)
(* LogCommons/FileReceiverFacade: one queue over the FileReceivers of      *)
(* several log types.  Consumers take a file from the receiver whose       *)
(* eldest file is the eldest; receivers that had nothing left are set      *)
(* aside until they report a new top.  A receiver is seen as FileReceiver  *)
(* promises it: get_eldest() gives its eldest file and the next one, and a *)
(* file that becomes the eldest is reported after it was added.  A step is *)
(* a critical section of the receiver or of cond_; lock of a holder is     *)
(* held across steps.                                                      *)
(***************************************************************************)
EXTENDS Naturals, FiniteSets, FiniteSetsExt

CONSTANTS Receivers,  \* the log types, each with its receiver
          Consumers,  \* threads that call get_eldest()
          Adders,     \* threads that fetch or put back files
          Names,      \* the files' names, which are their times
          MaxRevert,  \* bound: files put back
          NoOne       \* a holder's lock is free

ASSUME FacadeAssumption ==
  /\ IsFiniteSet(Receivers) /\ IsFiniteSet(Consumers) /\ IsFiniteSet(Adders)
  /\ NoOne \notin Consumers
  /\ Names \subseteq Nat \ {0} /\ IsFiniteSet(Names)
  /\ MaxRevert \in Nat

Nothing == 0  \* no file, the empty string, and the time before all times

VARIABLES
  files,    \* what each receiver has to give
  ready,    \* file_receivers_; the others are in empty_file_receivers_
  key,      \* the key of each holder
  lock,     \* who holds the lock of each holder
  sleeping,   \* consumers that wait on cond_
  cpc,      \* where each consumer is
  holder,   \* the receiver it has chosen
  got,      \* the file it was given
  newTop,   \* the new_top it was told
  report,   \* the file each adder has yet to report, with its receiver
  active,   \* the facade is active
  added,    \* files added so far (history)
  reverts   \* files put back so far

facadeVars == <<files, ready, key, lock, sleeping, cpc, holder, got, newTop, report, active,
          added, reverts>>

NoReport == <<Nothing, Nothing>>

FacadeInit ==
  /\ \E r \in Receivers, there \in SUBSET Names :
       /\ files = [x \in Receivers |-> IF x = r THEN there ELSE {}]
       /\ added = there
  /\ ready = Receivers
  /\ key = [r \in Receivers |-> Nothing]
  /\ lock = [r \in Receivers |-> NoOne]
  /\ sleeping = {}
  /\ cpc = [c \in Consumers |-> "loop"]
  /\ holder = [c \in Consumers |-> NoOne]
  /\ got = [c \in Consumers |-> Nothing]
  /\ newTop = [c \in Consumers |-> Nothing]
  /\ report = [a \in Adders |-> NoReport]
  /\ active = TRUE
  /\ reverts = 0

Goto(c, place) == cpc' = [cpc EXCEPT ![c] = place]

Top(r) == IF files[r] = {} THEN Nothing ELSE Min(files[r])

-----------------------------------------------------------------------------
(* get_eldest() *)

\* The head of file_receivers_, which is kept sorted by key.
Head == {r \in ready : \A s \in ready : key[r] <= key[s]}

\* Under cond_: the end of the call, a wait, or a holder.  A consumer that has
\* a file or a facade that is not active ends the loop.
Choose(c) ==
  /\ cpc[c] = "loop" /\ active /\ ready # {}
  /\ \E r \in Head : holder' = [holder EXCEPT ![c] = r]
  /\ Goto(c, "lock")
  /\ UNCHANGED <<files, ready, key, lock, sleeping, got, newTop, report, active, added,
                 reverts>>

Wait(c) ==
  /\ cpc[c] = "loop" /\ active /\ ready = {}
  /\ sleeping' = sleeping \cup {c}
  /\ Goto(c, "asleep")
  /\ UNCHANGED <<files, ready, key, lock, holder, got, newTop, report, active, added,
                 reverts>>

Wake(c) ==
  /\ cpc[c] = "asleep" /\ c \notin sleeping
  /\ Goto(c, "loop")
  /\ UNCHANGED <<files, ready, key, lock, sleeping, holder, got, newTop, report, active,
                 added, reverts>>

\* timed_wait() until the timeout: the call ends without a file.
TimeIsUp(c) ==
  /\ cpc[c] \in {"loop", "asleep"}
  /\ sleeping' = sleeping \ {c}
  /\ Goto(c, "returned")
  /\ UNCHANGED <<files, ready, key, lock, holder, got, newTop, report, active, added,
                 reverts>>

NotActive(c) ==
  /\ cpc[c] = "loop" /\ ~active
  /\ Goto(c, "returned")
  /\ UNCHANGED <<files, ready, key, lock, sleeping, holder, got, newTop, report, active,
                 added, reverts>>

LockHolder(c) ==
  /\ cpc[c] = "lock" /\ lock[holder[c]] = NoOne
  /\ lock' = [lock EXCEPT ![holder[c]] = c]
  /\ Goto(c, "get")
  /\ UNCHANGED <<files, ready, key, sleeping, holder, got, newTop, report, active, added,
                 reverts>>

GetEldest(c) ==
  LET r == holder[c]
      left == files[r] \ {Top(r)}
  IN  /\ cpc[c] = "get"
      /\ got' = [got EXCEPT ![c] = Top(r)]
      /\ newTop' = [newTop EXCEPT ![c] = IF left = {} THEN Nothing ELSE Min(left)]
      /\ files' = [files EXCEPT ![r] = left]
      /\ Goto(c, "settle")
      /\ UNCHANGED <<ready, key, lock, sleeping, holder, report, active, added, reverts>>

\* The receiver was interrupted: the exception leaves get_eldest().
GetFails(c) ==
  /\ cpc[c] = "get" /\ ~active
  /\ lock' = [lock EXCEPT ![holder[c]] = NoOne]
  /\ holder' = [holder EXCEPT ![c] = NoOne]
  /\ Goto(c, "returned")
  /\ UNCHANGED <<files, ready, key, sleeping, got, newTop, report, active, added, reverts>>

\* Under cond_: the holder is set aside or its key is renewed.
Settle(c) ==
  LET r == holder[c]
      aside == newTop[c] = Nothing \/ got[c] = Nothing
  IN  /\ cpc[c] = "settle"
      /\ ready' = IF aside THEN ready \ {r} ELSE ready
      /\ key' = IF aside THEN key ELSE [key EXCEPT ![r] = newTop[c]]
      /\ lock' = [lock EXCEPT ![r] = NoOne]
      /\ newTop' = [newTop EXCEPT ![c] = Nothing]
      /\ Goto(c, IF got[c] = Nothing THEN "loop" ELSE "returned")
      /\ UNCHANGED <<files, sleeping, holder, got, report, active, added, reverts>>

\* The caller has processed the file, or nothing came, and calls again.
CallAgain(c) ==
  /\ cpc[c] = "returned" /\ active
  /\ got' = [got EXCEPT ![c] = Nothing]
  /\ holder' = [holder EXCEPT ![c] = NoOne]
  /\ Goto(c, "loop")
  /\ UNCHANGED <<files, ready, key, lock, sleeping, newTop, report, active, added,
                 reverts>>

-----------------------------------------------------------------------------
(* FileReceiver adds a file and then calls on_top_changed() *)

AddFile(a, r, f) ==
  /\ report[a] = NoReport
  /\ files' = [files EXCEPT ![r] = @ \cup {f}]
  /\ report' = [report EXCEPT ![a] = IF files[r] = {} \/ f < Min(files[r])
                                     THEN <<r, f>> ELSE NoReport]

Fetch(a, r, f) ==
  /\ f \notin added
  /\ AddFile(a, r, f)
  /\ added' = added \cup {f}
  /\ UNCHANGED <<ready, key, lock, sleeping, cpc, holder, got, newTop, active, reverts>>

\* The file of a consumer is put back where it came from.
Revert(a, c) ==
  /\ cpc[c] = "returned" /\ got[c] # Nothing
  /\ reverts < MaxRevert /\ reverts' = reverts + 1
  /\ AddFile(a, holder[c], got[c])
  /\ got' = [got EXCEPT ![c] = Nothing]
  /\ UNCHANGED <<ready, key, lock, sleeping, cpc, holder, newTop, active, added>>

\* Mutant: the report does not wait for a consumer that holds the holder's lock.
OnTopChangedUnlocked(a) ==
  LET r == report[a][1]
      f == report[a][2]
  IN  /\ report[a] # NoReport
      /\ ready' = ready \cup {r}
      /\ key' = IF r \notin ready \/ f < key[r] THEN [key EXCEPT ![r] = f] ELSE key
      /\ sleeping' = {}
      /\ report' = [report EXCEPT ![a] = NoReport]
      /\ UNCHANGED <<files, lock, cpc, holder, got, newTop, active, added, reverts>>

\* on_top_changed(): under the holder's lock and cond_.
OnTopChanged(a) ==
  LET r == report[a][1]
      f == report[a][2]
  IN  /\ report[a] # NoReport
      /\ lock[r] = NoOne
      /\ ready' = ready \cup {r}
      /\ key' = IF r \notin ready \/ f < key[r] THEN [key EXCEPT ![r] = f] ELSE key
      /\ sleeping' = {}
      /\ report' = [report EXCEPT ![a] = NoReport]
      /\ UNCHANGED <<files, lock, cpc, holder, got, newTop, active, added, reverts>>

\* Mutant: the waiting consumers are not woken.
DeactivateQuiet ==
  /\ active /\ active' = FALSE
  /\ UNCHANGED <<files, ready, key, lock, sleeping, cpc, holder, got, newTop, report, added,
                 reverts>>

DeactivateFacade ==
  /\ active /\ active' = FALSE
  /\ sleeping' = {}
  /\ UNCHANGED <<files, ready, key, lock, cpc, holder, got, newTop, report, added, reverts>>

-----------------------------------------------------------------------------

Step(c) ==
  \/ Choose(c) \/ Wait(c) \/ Wake(c) \/ NotActive(c) \/ LockHolder(c)
  \/ GetEldest(c) \/ GetFails(c) \/ Settle(c)

FacadeNext ==
  \/ \E c \in Consumers : Step(c) \/ TimeIsUp(c) \/ CallAgain(c)
  \/ \E a \in Adders :
       \/ \E r \in Receivers, f \in Names : Fetch(a, r, f)
       \/ \E c \in Consumers : Revert(a, c)
       \/ OnTopChanged(a)
  \/ DeactivateFacade

FacadeSpec == FacadeInit /\ [][FacadeNext]_facadeVars

\* Consumers run on and call again while the facade is active, and so do the
\* threads that report; the lock of a holder is handed out fairly.
FacadeFairness ==
  /\ \A c \in Consumers : SF_facadeVars(Step(c)) /\ WF_facadeVars(CallAgain(c))
  /\ \A a \in Adders : SF_facadeVars(OnTopChanged(a))

FacadeFairSpec == FacadeSpec /\ FacadeFairness

-----------------------------------------------------------------------------
(* Properties *)

FacadeTypeOK ==
  /\ files \in [Receivers -> SUBSET Names]
  /\ ready \subseteq Receivers
  /\ key \in [Receivers -> Names \cup {Nothing}]
  /\ lock \in [Receivers -> Consumers \cup {NoOne}]
  /\ sleeping \subseteq Consumers
  /\ cpc \in [Consumers -> {"loop", "asleep", "lock", "get", "settle", "returned"}]
  /\ holder \in [Consumers -> Receivers \cup {NoOne}]
  /\ got \in [Consumers -> Names \cup {Nothing}]
  /\ newTop \in [Consumers -> Names \cup {Nothing}]
  /\ report \in [Adders -> {NoReport} \cup (Receivers \X Names)]
  /\ added \subseteq Names /\ active \in BOOLEAN /\ reverts \in 0..MaxRevert

\* The report of r's eldest file, or of an elder one, is on the way.
Reported(r) ==
  \E a \in Adders : report[a] # NoReport /\ report[a][1] = r /\ report[a][2] <= Top(r)

\* A consumer is about to take from r, or to keep it among the ready ones.
Settling(r) ==
  \E c \in Consumers : holder[c] = r /\ cpc[c] = "settle" /\ newTop[c] # Nothing

\* A receiver that has a file is among those the consumers look at, or its report
\* is on the way: the race between the consumer that found it empty and the
\* thread that adds a file never strands it.
NoneStranded ==
  \A r \in Receivers : files[r] # {} => r \in ready \/ Reported(r)

\* A ready receiver is never ranked behind its own eldest file, except while the
\* report of that file is on the way or a consumer renews the key.
KeyNotLate ==
  \A r \in ready : files[r] # {} => key[r] <= Top(r) \/ Reported(r) \/ Settling(r)

\* No consumer sleeps while there is a receiver to look at.
NoneSleepsInVain == sleeping # {} => ready = {}

\* The lock of a holder belongs to the consumer that asks its receiver, and a
\* file that was given is of the holder the consumer remembers.
LockExact ==
  \A c \in Consumers :
    /\ cpc[c] \in {"lock", "get", "settle"} \/ got[c] # Nothing => holder[c] \in Receivers
    /\ \A r \in Receivers : lock[r] = c <=> holder[c] = r /\ cpc[c] \in {"get", "settle"}
    /\ got[c] # Nothing => cpc[c] \in {"settle", "returned"}
    /\ newTop[c] # Nothing => cpc[c] = "settle" /\ got[c] # Nothing

\* What a consumer was told of the next file is not overtaken before it has
\* settled the holder: a file that is added meanwhile and is elder, or is the
\* first one, has its own report.
AnswerNotStale ==
  \A c \in Consumers :
    cpc[c] = "settle" /\ files[holder[c]] # {} =>
      Reported(holder[c]) \/ (newTop[c] # Nothing /\ newTop[c] <= Top(holder[c]))

\* Receivers, keys and consumers agree: the parts above.
FacadeInv ==
  FacadeTypeOK /\ NoneStranded /\ KeyNotLate /\ NoneSleepsInVain /\ LockExact /\ AnswerNotStale

\* A file that was added is given to a consumer, as long as the facade is active.
EveryFileTaken ==
  \A r \in Receivers, f \in Names : (f \in files[r]) ~> (f \notin files[r] \/ ~active)

\* Every call returns once the facade was deactivated.
CallsReturn == ~active ~> \A c \in Consumers : cpc[c] = "returned"

\* Nobody and nothing waits for ever: the parts above.
FacadeLive == EveryFileTaken /\ CallsReturn

=============================================================================
