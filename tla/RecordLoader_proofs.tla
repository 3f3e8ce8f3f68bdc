-------------------------- MODULE RecordLoader_proofs --------------------------
(***************************************************************************)
(* Proofs about the log loaders: where they take their files from, and how *)
(* they load the records of one.  Of FileReceiverFacade: FacadeInv, for    *)
(* any receivers, consumers, threads that add files, and names.  Of        *)
(* RecordLoader: its safety for every number of records, window size and   *)
(* wake threshold.                                                         *)
(***************************************************************************)
EXTENDS RecordLoader, FileReceiverFacade, NumberTheorems

-----------------------------------------------------------------------------
(* FileReceiverFacade *)

\* Top() of a receiver with files is the eldest of them.
LEMMA TopIsEldest ==
  FacadeTypeOK =>
    \A r \in Receivers : files[r] # {} =>
      Top(r) \in files[r] /\ Top(r) \in Nat \ {0} /\ \A f \in files[r] : Top(r) <= f
<1> SUFFICES ASSUME FacadeTypeOK, NEW r \in Receivers, files[r] # {}
             PROVE  Top(r) \in files[r] /\ Top(r) \in Nat \ {0}
                    /\ \A f \in files[r] : Top(r) <= f
  OBVIOUS
<1>1. files[r] \subseteq Nat \ {0}
  BY FacadeAssumption DEF FacadeTypeOK
<1>2. files[r] \subseteq Nat
  BY <1>1
<1> QED BY <1>1, <1>2, MinOf DEF Top

-----------------------------------------------------------------------------

LEMMA InitFacade == FacadeInit => FacadeInv
<1> SUFFICES ASSUME FacadeInit PROVE FacadeInv
  OBVIOUS
<1> USE FacadeAssumption
<1>1. FacadeTypeOK
  BY DEF FacadeInit, FacadeTypeOK, Nothing, NoReport
<1>2. NoneStranded /\ NoneSleepsInVain
  BY DEF FacadeInit, NoneStranded, NoneSleepsInVain
<1>3. KeyNotLate
  <2> SUFFICES ASSUME NEW r \in ready, files[r] # {} PROVE key[r] <= Top(r)
    BY DEF KeyNotLate
  <2>1. r \in Receivers /\ key[r] = 0
    BY DEF FacadeInit, Nothing
  <2> QED BY <1>1, <2>1, TopIsEldest
<1>4. LockExact
  BY DEF FacadeInit, LockExact, Nothing
<1>5. AnswerNotStale
  BY DEF FacadeInit, AnswerNotStale
<1> QED BY <1>1, <1>2, <1>3, <1>4, <1>5 DEF FacadeInv

\* A step that touches no receiver and no key, and no consumer that settles,
\* keeps what relates files, keys and reports.
LEMMA QuietStep ==
  ASSUME FacadeInv,
         UNCHANGED <<files, ready, key, newTop, report>>,
         \A c \in Consumers : cpc'[c] = "settle" <=> cpc[c] = "settle",
         \A c \in Consumers : cpc[c] = "settle" => holder'[c] = holder[c]
  PROVE  NoneStranded' /\ KeyNotLate' /\ AnswerNotStale'
<1>1. \A r : Top(r)' = Top(r)
  BY DEF Top
<1>2. \A r : Reported(r)' <=> Reported(r)
  BY <1>1 DEF Reported
<1>3. \A r : Settling(r) => Settling(r)'
  BY DEF Settling
<1>4. NoneStranded'
  BY <1>2 DEF FacadeInv, NoneStranded
<1>5. KeyNotLate'
  BY <1>1, <1>2, <1>3 DEF FacadeInv, KeyNotLate
<1>6. AnswerNotStale'
  BY <1>1, <1>2 DEF FacadeInv, AnswerNotStale
<1> QED BY <1>4, <1>5, <1>6

-----------------------------------------------------------------------------
(* One lemma per action *)

LEMMA ChooseKeeps ==
  ASSUME FacadeInv, NEW c \in Consumers, Choose(c) PROVE FacadeInv'
<1> USE DEF FacadeInv, Choose, Goto
<1>1. PICK r \in Head : holder' = [holder EXCEPT ![c] = r]
  OBVIOUS
<1>2. r \in Receivers
  BY DEF Head, FacadeTypeOK
<1>3. FacadeTypeOK'
  BY <1>1, <1>2 DEF FacadeTypeOK
<1>4. LockExact' /\ NoneSleepsInVain'
  BY <1>1, <1>2 DEF FacadeTypeOK, LockExact, NoneSleepsInVain
<1>5. NoneStranded' /\ KeyNotLate' /\ AnswerNotStale'
  BY <1>1, QuietStep DEF FacadeTypeOK
<1> QED BY <1>3, <1>4, <1>5

LEMMA WaitKeeps ==
  ASSUME FacadeInv, NEW c \in Consumers, Wait(c) PROVE FacadeInv'
<1> USE DEF FacadeInv, Wait, Goto
<1>1. FacadeTypeOK'
  BY DEF FacadeTypeOK
<1>2. LockExact' /\ NoneSleepsInVain'
  BY DEF FacadeTypeOK, LockExact, NoneSleepsInVain
<1>3. NoneStranded' /\ KeyNotLate' /\ AnswerNotStale'
  BY QuietStep DEF FacadeTypeOK
<1> QED BY <1>1, <1>2, <1>3

LEMMA WakeKeeps ==
  ASSUME FacadeInv, NEW c \in Consumers, Wake(c) PROVE FacadeInv'
<1> USE DEF FacadeInv, Wake, Goto
<1>1. FacadeTypeOK'
  BY DEF FacadeTypeOK
<1>2. LockExact' /\ NoneSleepsInVain'
  BY DEF FacadeTypeOK, LockExact, NoneSleepsInVain
<1>3. NoneStranded' /\ KeyNotLate' /\ AnswerNotStale'
  BY QuietStep DEF FacadeTypeOK
<1> QED BY <1>1, <1>2, <1>3

LEMMA TimeIsUpKeeps ==
  ASSUME FacadeInv, NEW c \in Consumers, TimeIsUp(c) PROVE FacadeInv'
<1> USE DEF FacadeInv, TimeIsUp, Goto
<1>1. FacadeTypeOK'
  BY DEF FacadeTypeOK
<1>2. LockExact' /\ NoneSleepsInVain'
  BY DEF FacadeTypeOK, LockExact, NoneSleepsInVain
<1>3. NoneStranded' /\ KeyNotLate' /\ AnswerNotStale'
  BY QuietStep DEF FacadeTypeOK
<1> QED BY <1>1, <1>2, <1>3

LEMMA NotActiveKeeps ==
  ASSUME FacadeInv, NEW c \in Consumers, NotActive(c) PROVE FacadeInv'
<1> USE DEF FacadeInv, NotActive, Goto
<1>1. FacadeTypeOK'
  BY DEF FacadeTypeOK
<1>2. LockExact' /\ NoneSleepsInVain'
  BY DEF FacadeTypeOK, LockExact, NoneSleepsInVain
<1>3. NoneStranded' /\ KeyNotLate' /\ AnswerNotStale'
  BY QuietStep DEF FacadeTypeOK
<1> QED BY <1>1, <1>2, <1>3

LEMMA LockHolderKeeps ==
  ASSUME FacadeInv, NEW c \in Consumers, LockHolder(c) PROVE FacadeInv'
<1> USE DEF FacadeInv, LockHolder, Goto
<1>1. holder[c] \in Receivers
  BY DEF LockExact
<1>2. FacadeTypeOK'
  BY <1>1 DEF FacadeTypeOK
<1>3. LockExact' /\ NoneSleepsInVain'
  BY <1>1, FacadeAssumption DEF FacadeTypeOK, LockExact, NoneSleepsInVain
<1>4. NoneStranded' /\ KeyNotLate' /\ AnswerNotStale'
  BY QuietStep DEF FacadeTypeOK
<1> QED BY <1>2, <1>3, <1>4

LEMMA GetFailsKeeps ==
  ASSUME FacadeInv, NEW c \in Consumers, GetFails(c) PROVE FacadeInv'
<1> USE DEF FacadeInv, GetFails, Goto
<1>1. holder[c] \in Receivers
  BY DEF LockExact
<1>2. FacadeTypeOK'
  BY <1>1 DEF FacadeTypeOK
<1>3. LockExact' /\ NoneSleepsInVain'
  BY <1>1, FacadeAssumption DEF FacadeTypeOK, LockExact, NoneSleepsInVain
<1>4. NoneStranded' /\ KeyNotLate' /\ AnswerNotStale'
  BY QuietStep DEF FacadeTypeOK
<1> QED BY <1>2, <1>3, <1>4

LEMMA CallAgainKeeps ==
  ASSUME FacadeInv, NEW c \in Consumers, CallAgain(c) PROVE FacadeInv'
<1> USE DEF FacadeInv, CallAgain, Goto
<1>1. FacadeTypeOK'
  BY DEF FacadeTypeOK
<1>2. LockExact' /\ NoneSleepsInVain'
  BY DEF FacadeTypeOK, LockExact, NoneSleepsInVain
<1>3. NoneStranded' /\ KeyNotLate' /\ AnswerNotStale'
  BY QuietStep DEF FacadeTypeOK
<1> QED BY <1>1, <1>2, <1>3

LEMMA DeactivateKeeps ==
  ASSUME FacadeInv, DeactivateFacade PROVE FacadeInv'
<1> USE DEF FacadeInv, DeactivateFacade
<1>1. FacadeTypeOK'
  BY DEF FacadeTypeOK
<1>2. LockExact' /\ NoneSleepsInVain'
  BY DEF FacadeTypeOK, LockExact, NoneSleepsInVain
<1>3. NoneStranded' /\ KeyNotLate' /\ AnswerNotStale'
  BY QuietStep DEF FacadeTypeOK
<1> QED BY <1>1, <1>2, <1>3

\* The consumer that holds the lock takes the eldest file: what it is told of the
\* next one is true at that moment.
LEMMA GetEldestKeeps ==
  ASSUME FacadeInv, NEW c \in Consumers, GetEldest(c) PROVE FacadeInv'
<1> USE FacadeAssumption DEF FacadeInv
<1>1. PICK r \in Receivers : r = holder[c] /\ cpc[c] = "get" /\ lock[r] = c
  BY DEF GetEldest, LockExact
<1>2. PICK left \in SUBSET files[r] : left = files[r] \ {Top(r)}
  OBVIOUS
<1>3. /\ got' = [got EXCEPT ![c] = Top(r)]
      /\ newTop' = [newTop EXCEPT ![c] = IF left = {} THEN Nothing ELSE Min(left)]
      /\ files' = [files EXCEPT ![r] = left]
      /\ cpc' = [cpc EXCEPT ![c] = "settle"]
      /\ UNCHANGED <<ready, key, lock, sleeping, holder, report, active, added, reverts>>
  BY <1>1, <1>2 DEF GetEldest, Goto
<1>4. left \subseteq Names /\ left \subseteq Nat /\ files[r] \subseteq Names
  BY <1>2 DEF FacadeTypeOK
<1>5. Top(r) \in Names \cup {Nothing}
  BY <1>4, TopIsEldest DEF Top
<1>6. left # {} => Min(left) \in left
  BY <1>4, MinOf
<1>7. FacadeTypeOK'
  BY <1>3, <1>4, <1>5, <1>6 DEF FacadeTypeOK
<1>8. \A s \in Receivers : files'[s] = IF s = r THEN left ELSE files[s]
  BY <1>3 DEF FacadeTypeOK
<1>9. Top(r)' = IF left = {} THEN Nothing ELSE Min(left)
  BY <1>8 DEF Top
<1>10. \A s \in Receivers : s # r => Top(s)' = Top(s)
  BY <1>8 DEF Top
<1>11. left # {} => Top(r) <= Top(r)' /\ Top(r) \in Nat /\ Top(r)' \in Nat /\ Top(r) # Nothing
  BY <1>2, <1>4, <1>6, <1>9, TopIsEldest DEF Nothing
<1>12. \A s \in Receivers : files'[s] # {} /\ Reported(s) => Reported(s)'
  <2> SUFFICES ASSUME NEW s \in Receivers, files'[s] # {}, Reported(s) PROVE Reported(s)'
    OBVIOUS
  <2>1. CASE s # r
    BY <2>1, <1>3, <1>10 DEF Reported
  <2>2. CASE s = r
    <3>1. PICK a \in Adders : report[a] # NoReport /\ report[a][1] = r /\ report[a][2] <= Top(r)
      BY <2>2 DEF Reported
    <3>2. report[a][2] \in Nat
      BY <3>1 DEF FacadeTypeOK
    <3>3. report[a][2] <= Top(r)'
      BY <3>1, <3>2, <2>2, <1>8, <1>11
    <3> QED BY <3>1, <3>3, <2>2, <1>3 DEF Reported
  <2> QED BY <2>1, <2>2
<1>13. NoneStranded'
  BY <1>3, <1>8, <1>12 DEF NoneStranded
<1>14. NoneSleepsInVain'
  BY <1>3 DEF NoneSleepsInVain
<1>15. LockExact'
  <2>1. got[c] = Nothing /\ newTop[c] = Nothing
    BY <1>1 DEF LockExact
  <2>2. newTop'[c] # Nothing => got'[c] # Nothing
    BY <1>3, <1>11 DEF FacadeTypeOK
  <2> QED BY <1>1, <1>3, <2>1, <2>2 DEF LockExact, FacadeTypeOK
<1>16. \A s \in Receivers : s # r /\ Settling(s) => Settling(s)'
  BY <1>1, <1>3 DEF Settling, FacadeTypeOK
<1>17. left # {} => Settling(r)'
  <2>1. left # {} => newTop'[c] # Nothing
    BY <1>3, <1>4, <1>6 DEF Nothing, FacadeTypeOK
  <2>2. holder'[c] = r /\ cpc'[c] = "settle"
    BY <1>1, <1>3 DEF FacadeTypeOK
  <2> QED BY <2>1, <2>2 DEF Settling
<1>18. KeyNotLate'
  <2> SUFFICES ASSUME NEW s \in ready', files'[s] # {}
               PROVE  (key[s] <= Top(s) \/ Reported(s) \/ Settling(s))'
    BY DEF KeyNotLate
  <2>1. s \in Receivers /\ s \in ready
    BY <1>3 DEF FacadeTypeOK
  <2>2. CASE s = r
    BY <2>1, <2>2, <1>8, <1>17
  <2>3. CASE s # r
    BY <2>1, <2>3, <1>3, <1>8, <1>10, <1>12, <1>16 DEF KeyNotLate
  <2> QED BY <2>2, <2>3
<1>19. AnswerNotStale'
  <2> SUFFICES ASSUME NEW d \in Consumers, cpc'[d] = "settle", files'[holder'[d]] # {}
               PROVE  (\/ Reported(holder[d])
                       \/ newTop[d] # Nothing /\ newTop[d] <= Top(holder[d]))'
    BY DEF AnswerNotStale
  <2>1. CASE d = c
    <3>1. holder'[d] = r /\ left # {}
      BY <2>1, <1>1, <1>3, <1>8
    <3>2. newTop'[d] = Min(left) /\ Min(left) \in Nat \ {0}
      BY <2>1, <3>1, <1>3, <1>4, <1>6 DEF FacadeTypeOK
    <3> QED BY <3>1, <3>2, <1>9 DEF Nothing
  <2>2. CASE d # c
    <3>1. cpc[d] = "settle" /\ holder'[d] = holder[d] /\ newTop'[d] = newTop[d]
      BY <2>2, <1>3 DEF FacadeTypeOK
    <3>2. PICK s \in Receivers : s = holder[d] /\ s # r
      BY <3>1, <2>2, <1>1 DEF LockExact
    <3>3. Reported(s) \/ (newTop[d] # Nothing /\ newTop[d] <= Top(s))
      BY <3>1, <3>2, <1>8 DEF AnswerNotStale
    <3> QED BY <3>1, <3>2, <3>3, <1>8, <1>10, <1>12
  <2> QED BY <2>1, <2>2
<1> QED BY <1>7, <1>13, <1>14, <1>15, <1>18, <1>19

\* The holder is set aside or its key is renewed: an answer that is not stale
\* justifies both.
LEMMA SettleKeeps ==
  ASSUME FacadeInv, NEW c \in Consumers, Settle(c) PROVE FacadeInv'
<1> USE FacadeAssumption DEF FacadeInv
<1>1. PICK r \in Receivers : r = holder[c] /\ cpc[c] = "settle" /\ lock[r] = c
  BY DEF Settle, LockExact
<1>2. newTop[c] = Nothing \/ got[c] = Nothing <=> newTop[c] = Nothing
  BY DEF LockExact
<1>3. /\ ready' = IF newTop[c] = Nothing THEN ready \ {r} ELSE ready
      /\ key' = IF newTop[c] = Nothing THEN key ELSE [key EXCEPT ![r] = newTop[c]]
      /\ lock' = [lock EXCEPT ![r] = NoOne]
      /\ newTop' = [newTop EXCEPT ![c] = Nothing]
      /\ cpc' = [cpc EXCEPT ![c] = IF got[c] = Nothing THEN "loop" ELSE "returned"]
      /\ UNCHANGED <<files, sleeping, holder, got, report, active, added, reverts>>
  BY <1>1, <1>2 DEF Settle, Goto
<1>4. FacadeTypeOK'
  BY <1>1, <1>3 DEF FacadeTypeOK
<1>5. LockExact'
  BY <1>1, <1>3 DEF LockExact, FacadeTypeOK
<1>6. NoneSleepsInVain'
  BY <1>3 DEF NoneSleepsInVain
<1>7. \A s : Top(s)' = Top(s)
  BY <1>3 DEF Top
<1>8. \A s : Reported(s)' <=> Reported(s)
  BY <1>3, <1>7 DEF Reported
<1>9. files[r] # {} => Reported(r) \/ (newTop[c] # Nothing /\ newTop[c] <= Top(r))
  BY <1>1 DEF AnswerNotStale
<1>10. NoneStranded'
  BY <1>3, <1>8, <1>9 DEF NoneStranded
<1>11. \A s \in Receivers : s # r /\ Settling(s) => Settling(s)'
  BY <1>1, <1>3 DEF Settling, FacadeTypeOK
<1>12. KeyNotLate'
  <2> SUFFICES ASSUME NEW s \in ready', files'[s] # {}
               PROVE  (key[s] <= Top(s) \/ Reported(s) \/ Settling(s))'
    BY DEF KeyNotLate
  <2>1. s \in Receivers /\ s \in ready /\ files[s] # {}
    BY <1>3 DEF FacadeTypeOK
  <2>2. CASE s = r
    <3>1. newTop[c] # Nothing
      BY <2>2, <1>3
    <3>2. key'[s] = newTop[c]
      BY <3>1, <2>2, <1>3 DEF FacadeTypeOK
    <3> QED BY <3>1, <3>2, <2>1, <2>2, <1>7, <1>8, <1>9
  <2>3. CASE s # r
    <3>1. key'[s] = key[s]
      BY <2>1, <2>3, <1>3 DEF FacadeTypeOK
    <3> QED BY <3>1, <2>1, <2>3, <1>7, <1>8, <1>11 DEF KeyNotLate
  <2> QED BY <2>2, <2>3
<1>13. AnswerNotStale'
  <2> SUFFICES ASSUME NEW d \in Consumers, cpc'[d] = "settle", files'[holder'[d]] # {}
               PROVE  (\/ Reported(holder[d])
                       \/ newTop[d] # Nothing /\ newTop[d] <= Top(holder[d]))'
    BY DEF AnswerNotStale
  <2>1. d # c
    BY <1>3 DEF FacadeTypeOK
  <2>2. cpc[d] = "settle" /\ holder'[d] = holder[d] /\ newTop'[d] = newTop[d]
    BY <2>1, <1>3 DEF FacadeTypeOK
  <2> QED BY <2>2, <1>3, <1>7, <1>8 DEF AnswerNotStale
<1> QED BY <1>4, <1>5, <1>6, <1>10, <1>12, <1>13

\* A file that becomes the eldest is reported; any other changes no top.
LEMMA AddFileKeeps ==
  ASSUME FacadeInv, NEW a \in Adders, NEW r \in Receivers, NEW f \in Names,
         AddFile(a, r, f), UNCHANGED <<ready, key, cpc, holder, newTop>>
  PROVE  /\ files' \in [Receivers -> SUBSET Names]
         /\ report' \in [Adders -> {NoReport} \cup (Receivers \X Names)]
         /\ NoneStranded' /\ KeyNotLate' /\ AnswerNotStale'
<1> USE FacadeAssumption DEF FacadeInv
<1>1. /\ report[a] = NoReport
      /\ files' = [files EXCEPT ![r] = files[r] \cup {f}]
      /\ report' = [report EXCEPT ![a] = IF files[r] = {} \/ f < Min(files[r])
                                         THEN <<r, f>> ELSE NoReport]
  BY DEF AddFile, FacadeTypeOK
<1>2. files' \in [Receivers -> SUBSET Names]
  BY <1>1 DEF FacadeTypeOK
<1>3. report' \in [Adders -> {NoReport} \cup (Receivers \X Names)]
  BY <1>1 DEF FacadeTypeOK
<1>4. \A s \in Receivers : files'[s] = IF s = r THEN files[r] \cup {f} ELSE files[s]
  BY <1>1 DEF FacadeTypeOK
<1>5. \A s \in Receivers : s # r => Top(s)' = Top(s)
  BY <1>4 DEF Top
<1>6. Top(r)' \in files[r] \cup {f} /\ \A g \in files[r] \cup {f} : Top(r)' <= g
  <2>1. files[r] \cup {f} \subseteq Nat
    BY DEF FacadeTypeOK
  <2>2. Top(r)' = Min(files[r] \cup {f})
    BY <1>4 DEF Top
  <2> QED BY <2>1, <2>2, MinOf
<1>7. files[r] # {} => /\ Min(files[r]) = Top(r) /\ Top(r) \in files[r]
                       /\ \A g \in files[r] : Top(r) <= g
  BY TopIsEldest DEF Top
<1>8. files[r] \cup {f} \subseteq Nat \ {0}
  BY DEF FacadeTypeOK
<1>9. \A b \in Adders : report[b] # NoReport => report'[b] = report[b]
  BY <1>1 DEF FacadeTypeOK
<1>10. CASE files[r] = {} \/ f < Top(r)
  <2>1. Top(r)' = f
    BY <1>6, <1>7, <1>8, <1>10
  <2>2. report'[a] = <<r, f>>
    BY <1>1, <1>7, <1>10 DEF FacadeTypeOK
  <2>3. report'[a] # NoReport
    BY <2>2 DEF NoReport, Nothing
  <2>4. Reported(r)'
    <3>1. report'[a][1] = r /\ report'[a][2] = f
      BY <2>2
    <3>2. f <= Top(r)'
      BY <2>1, <1>8
    <3> QED BY <3>1, <3>2, <2>3 DEF Reported
  <2>5. \A s \in Receivers : Reported(s) => Reported(s)'
    BY <2>4, <1>5, <1>9 DEF Reported
  <2>6. NoneStranded'
    BY <2>4, <2>5, <1>4 DEF NoneStranded
  <2>7. KeyNotLate'
    <3> SUFFICES ASSUME NEW s \in ready', files'[s] # {}
                 PROVE  (key[s] <= Top(s) \/ Reported(s) \/ Settling(s))'
      BY DEF KeyNotLate
    <3>1. s \in Receivers /\ s \in ready
      BY DEF FacadeTypeOK
    <3>2. Settling(s) => Settling(s)'
      BY DEF Settling
    <3> QED BY <3>1, <3>2, <2>4, <2>5, <1>4, <1>5 DEF KeyNotLate
  <2>8. AnswerNotStale'
    <3> SUFFICES ASSUME NEW d \in Consumers, cpc'[d] = "settle", files'[holder'[d]] # {}
                 PROVE  (\/ Reported(holder[d])
                         \/ newTop[d] # Nothing /\ newTop[d] <= Top(holder[d]))'
      BY DEF AnswerNotStale
    <3>1. PICK s \in Receivers : s = holder[d] /\ s = holder'[d]
      BY DEF LockExact
    <3> QED BY <3>1, <2>4, <2>5, <1>4, <1>5 DEF AnswerNotStale
  <2> QED BY <2>6, <2>7, <2>8, <1>2, <1>3
<1>11. CASE ~(files[r] = {} \/ f < Top(r))
  <2>1. Top(r)' = Top(r)
    <3>1. Top(r)' \in Nat /\ Top(r) \in Nat /\ f \in Nat
      BY <1>6, <1>7, <1>8, <1>11
    <3>2. Top(r)' <= Top(r)
      BY <1>6, <1>7, <1>11
    <3>3. Top(r) <= Top(r)'
      BY <3>1, <1>6, <1>7, <1>11
    <3> QED BY <3>1, <3>2, <3>3
  <2>2. \A s \in Receivers : Top(s)' = Top(s)
    BY <2>1, <1>5
  <2>3. \A s \in Receivers : Reported(s) => Reported(s)'
    BY <2>2, <1>9 DEF Reported
  <2>4. \A s \in Receivers : files'[s] # {} => files[s] # {}
    BY <1>4, <1>11
  <2>5. NoneStranded'
    BY <2>3, <2>4 DEF NoneStranded
  <2>6. KeyNotLate'
    <3> SUFFICES ASSUME NEW s \in ready', files'[s] # {}
                 PROVE  (key[s] <= Top(s) \/ Reported(s) \/ Settling(s))'
      BY DEF KeyNotLate
    <3>1. s \in Receivers /\ s \in ready
      BY DEF FacadeTypeOK
    <3>2. Settling(s) => Settling(s)'
      BY DEF Settling
    <3> QED BY <3>1, <3>2, <2>2, <2>3, <2>4 DEF KeyNotLate
  <2>7. AnswerNotStale'
    <3> SUFFICES ASSUME NEW d \in Consumers, cpc'[d] = "settle", files'[holder'[d]] # {}
                 PROVE  (\/ Reported(holder[d])
                         \/ newTop[d] # Nothing /\ newTop[d] <= Top(holder[d]))'
      BY DEF AnswerNotStale
    <3>1. PICK s \in Receivers : s = holder[d] /\ s = holder'[d]
      BY DEF LockExact
    <3> QED BY <3>1, <2>2, <2>3, <2>4 DEF AnswerNotStale
  <2> QED BY <2>5, <2>6, <2>7, <1>2, <1>3
<1> QED BY <1>10, <1>11

LEMMA FetchKeeps ==
  ASSUME FacadeInv, NEW a \in Adders, NEW r \in Receivers, NEW f \in Names, Fetch(a, r, f)
  PROVE  FacadeInv'
<1> USE DEF FacadeInv, Fetch
<1>1. FacadeTypeOK'
  BY AddFileKeeps DEF FacadeTypeOK
<1>2. LockExact' /\ NoneSleepsInVain'
  BY DEF LockExact, NoneSleepsInVain
<1> QED BY <1>1, <1>2, AddFileKeeps

LEMMA RevertKeeps ==
  ASSUME FacadeInv, NEW a \in Adders, NEW c \in Consumers, Revert(a, c)
  PROVE  FacadeInv'
<1> USE FacadeAssumption DEF FacadeInv, Revert
<1>1. holder[c] \in Receivers /\ got[c] \in Names
  BY DEF LockExact, FacadeTypeOK
<1>2. /\ files' \in [Receivers -> SUBSET Names]
      /\ report' \in [Adders -> {NoReport} \cup (Receivers \X Names)]
      /\ NoneStranded' /\ KeyNotLate' /\ AnswerNotStale'
  BY <1>1, AddFileKeeps
<1>3. FacadeTypeOK'
  BY <1>2 DEF FacadeTypeOK
<1>4. LockExact' /\ NoneSleepsInVain'
  BY DEF LockExact, NoneSleepsInVain, FacadeTypeOK
<1> QED BY <1>2, <1>3, <1>4

\* A report may be stale: what it names may be gone, or an elder file may have
\* come.  The elder one then has a report of its own.
LEMMA OnTopChangedKeeps ==
  ASSUME FacadeInv, NEW a \in Adders, OnTopChanged(a) PROVE FacadeInv'
<1> USE FacadeAssumption DEF FacadeInv
<1>1. PICK r \in Receivers, f \in Names : report[a] = <<r, f>>
  <2>1. report[a] \in Receivers \X Names
    BY DEF OnTopChanged, FacadeTypeOK
  <2>2. report[a][1] \in Receivers /\ report[a][2] \in Names
        /\ report[a] = <<report[a][1], report[a][2]>>
    BY <2>1
  <2> QED BY <2>2
<1>2. /\ lock[r] = NoOne
      /\ ready' = ready \cup {r}
      /\ key' = IF r \notin ready \/ f < key[r] THEN [key EXCEPT ![r] = f] ELSE key
      /\ sleeping' = {}
      /\ report' = [report EXCEPT ![a] = NoReport]
      /\ UNCHANGED <<files, lock, cpc, holder, got, newTop, active, added, reverts>>
  BY <1>1 DEF OnTopChanged
<1>3. FacadeTypeOK'
  BY <1>1, <1>2 DEF FacadeTypeOK
<1>4. LockExact' /\ NoneSleepsInVain'
  BY <1>2 DEF LockExact, NoneSleepsInVain
<1>5. \A s : Top(s)' = Top(s)
  BY <1>2 DEF Top
<1>6. \A b \in Adders : b # a => report'[b] = report[b]
  BY <1>2 DEF FacadeTypeOK
<1>7. \A s \in Receivers : s # r /\ Reported(s) => Reported(s)'
  BY <1>1, <1>5, <1>6 DEF Reported
<1>8. Reported(r) => f <= Top(r) \/ Reported(r)'
  BY <1>1, <1>5, <1>6 DEF Reported
<1>9. NoneStranded'
  BY <1>2, <1>7 DEF NoneStranded
<1>10. \A d \in Consumers : cpc[d] = "settle" => holder[d] # r
  BY <1>2 DEF LockExact
<1>11. KeyNotLate'
  <2> SUFFICES ASSUME NEW s \in ready', files'[s] # {}
               PROVE  (key[s] <= Top(s) \/ Reported(s) \/ Settling(s))'
    BY DEF KeyNotLate
  <2>1. s \in Receivers /\ files[s] # {}
    BY <1>2 DEF FacadeTypeOK
  <2>2. CASE s # r
    <3>1. s \in ready /\ key'[s] = key[s]
      BY <2>1, <2>2, <1>2 DEF FacadeTypeOK
    <3>2. Settling(s) => Settling(s)'
      BY <1>2 DEF Settling
    <3> QED BY <3>1, <3>2, <2>1, <2>2, <1>5, <1>7 DEF KeyNotLate
  <2>3. CASE s = r
    <3>1. ~Settling(r)
      BY <1>10 DEF Settling
    <3>2. Top(r) \in Nat /\ key[r] \in Nat /\ f \in Nat
      <4>1. Top(r) \in Nat
        BY <2>1, <2>3, TopIsEldest
      <4>2. key[r] \in Names \cup {0}
        BY DEF FacadeTypeOK, Nothing
      <4>3. \A n \in Names \cup {0} : n \in Nat
        OBVIOUS
      <4> QED BY <4>1, <4>2, <4>3, Zenon
    <3>3. r \notin ready => Reported(r)
      BY <2>1, <2>3 DEF NoneStranded
    <3>4. r \in ready => key[r] <= Top(r) \/ Reported(r)
      BY <3>1, <2>1, <2>3 DEF KeyNotLate
    <3>5. key'[r] = IF r \notin ready \/ f < key[r] THEN f ELSE key[r]
      BY <1>2 DEF FacadeTypeOK
    <3>6. key'[r] <= Top(r) \/ Reported(r)'
      BY <3>2, <3>3, <3>4, <3>5, <1>8
    <3> QED BY <3>6, <2>3, <1>5
  <2> QED BY <2>2, <2>3
<1>12. AnswerNotStale'
  <2> SUFFICES ASSUME NEW d \in Consumers, cpc'[d] = "settle", files'[holder'[d]] # {}
               PROVE  (\/ Reported(holder[d])
                       \/ newTop[d] # Nothing /\ newTop[d] <= Top(holder[d]))'
    BY DEF AnswerNotStale
  <2>1. PICK s \in Receivers : s = holder[d] /\ s # r
    BY <1>2, <1>10 DEF LockExact
  <2> QED BY <2>1, <1>2, <1>5, <1>7 DEF AnswerNotStale
<1> QED BY <1>3, <1>4, <1>9, <1>11, <1>12

-----------------------------------------------------------------------------

LEMMA NextKeepsFacade == FacadeInv /\ [FacadeNext]_facadeVars => FacadeInv'
<1> SUFFICES ASSUME FacadeInv, [FacadeNext]_facadeVars PROVE FacadeInv'
  OBVIOUS
<1>1. ASSUME NEW c \in Consumers, Step(c) PROVE FacadeInv'
  BY <1>1, ChooseKeeps, WaitKeeps, WakeKeeps, NotActiveKeeps, LockHolderKeeps,
     GetEldestKeeps, GetFailsKeeps, SettleKeeps DEF Step
<1>2. ASSUME NEW c \in Consumers, TimeIsUp(c) \/ CallAgain(c) PROVE FacadeInv'
  BY <1>2, TimeIsUpKeeps, CallAgainKeeps
<1>3. ASSUME NEW a \in Adders, NEW r \in Receivers, NEW f \in Names, Fetch(a, r, f)
      PROVE  FacadeInv'
  BY <1>3, FetchKeeps
<1>4. ASSUME NEW a \in Adders, NEW c \in Consumers, Revert(a, c) PROVE FacadeInv'
  BY <1>4, RevertKeeps
<1>5. ASSUME NEW a \in Adders, OnTopChanged(a) PROVE FacadeInv'
  BY <1>5, OnTopChangedKeeps
<1>6. CASE DeactivateFacade
  BY <1>6, DeactivateKeeps
<1>7. CASE UNCHANGED facadeVars
  <2>1. FacadeTypeOK' /\ LockExact' /\ NoneSleepsInVain'
    BY <1>7 DEF FacadeInv, FacadeTypeOK, LockExact, NoneSleepsInVain, facadeVars
  <2>2. NoneStranded' /\ KeyNotLate' /\ AnswerNotStale'
    BY <1>7, QuietStep DEF facadeVars
  <2> QED BY <2>1, <2>2 DEF FacadeInv
<1> QED BY <1>1, <1>2, <1>3, <1>4, <1>5, <1>6, <1>7 DEF FacadeNext

\* The queue over the receivers is consistent: a receiver with a file is looked at
\* or reported, is not ranked behind its own eldest file, and nobody sleeps while
\* there is a receiver to look at - with any number of threads that add files,
\* whose reports arrive late and in any order.
THEOREM FacadeCorrect == FacadeSpec => []FacadeInv
BY InitFacade, NextKeepsFacade, PTL DEF FacadeSpec

-----------------------------------------------------------------------------
(* RecordLoader *)

\* Numbers less than W apart do not share a slot of a ring of W slots.
LEMMA ModDistinct ==
  ASSUME NEW W \in Nat \ {0}, NEW a \in Nat, NEW b \in Nat, a < b, b < a + W
  PROVE  a % W # b % W
<1>1. a = W * (a \div W) + (a % W) /\ b = W * (b \div W) + (b % W)
  OBVIOUS
<1>2. a \div W \in Nat /\ b \div W \in Nat
  OBVIOUS
<1> DEFINE x == a \div W
           y == b \div W
<1>3. SUFFICES ASSUME a % W = b % W PROVE FALSE
  OBVIOUS
<1>4. b - a = W * (y - x)
  BY <1>1, <1>2, <1>3
<1>5. CASE y - x <= 0
  BY <1>2, <1>4, <1>5
<1>6. CASE y - x >= 1
  BY <1>2, <1>4, <1>6
<1> QED BY <1>2, <1>5, <1>6

\* A slot is one of the ring's.
LEMMA ModRange ==
  ASSUME NEW W \in Nat \ {0}, NEW a \in Nat
  PROVE  a % W \in 0 .. W - 1
  OBVIOUS

-----------------------------------------------------------------------------
(* What the steps of the loader share *)

\* The tasks that run can be counted.
LEMMA RunningFinite ==
  /\ IsFiniteSet(Running)
  /\ Cardinality(Running) \in Nat
  /\ Cardinality(Running) = 0 <=> Running = {}
<1>1. IsFiniteSet(Tasks)
  BY FS_Interval, WindowAssumption DEF Tasks
<1>2. IsFiniteSet(Running)
  BY <1>1, FS_Subset DEF Running
<1> QED BY <1>2, FS_CardinalityType, FS_EmptySet

USE WindowAssumption

\* The window's account of its tasks stays as it is.
LEMMA SameWindow ==
  ASSUME RingInv, TaskInv,
         UNCHANGED <<completed, committed, started, inFlight, failed, task, processed>>,
         exception' = "none" <=> exception = "none"
  PROVE  RingInv' /\ TaskInv' /\ Running' = Running
<1>1. Running' = Running
  BY DEF Running
<1>2. RingInv'
  BY DEF RingInv, Uncommitted
<1>3. TaskInv'
  BY <1>1 DEF TaskInv, Uncommitted
<1> QED BY <1>1, <1>2, <1>3

\* A constructed window.
LEMMA FreshInv ==
  ASSUME NEW n \in 0 .. Sequences, FreshWindow(n)
  PROVE  RingInv' /\ TaskInv' /\ Running' = {}
<1>1. Running' = {}
  BY DEF Running, FreshWindow
<1>2. RingInv'
  BY DEF RingInv, Uncommitted, FreshWindow
<1>3. Cardinality(Running') = 0
  BY <1>1, FS_EmptySet
<1>4. TaskInv'
  BY <1>1, <1>3 DEF TaskInv, Uncommitted, FreshWindow, Tasks
<1> QED BY <1>1, <1>2, <1>4

\* A task that ends: one running task less.
LEMMA RunningEnds ==
  ASSUME NEW s \in Tasks, TaskInv, TypeOK, task[s] = "running",
         NEW end \in {"ok", "failed"}, task' = [task EXCEPT ![s] = end],
         inFlight' = inFlight - 1
  PROVE  /\ Running' = Running \ {s}
         /\ inFlight' = Cardinality(Running')
         /\ inFlight' \in Nat
<1>1. Running' = Running \ {s}
  BY DEF Running, TypeOK
<1>2. s \in Running
  BY DEF Running
<1>3. Cardinality(Running \ {s}) = Cardinality(Running) - 1
  BY <1>2, RunningFinite, FS_RemoveElement
<1>4. IsFiniteSet(Running \ {s})
  BY RunningFinite, FS_RemoveElement
<1> QED BY <1>1, <1>3, <1>4, FS_CardinalityType DEF TaskInv

-----------------------------------------------------------------------------
(* A task that ends well commits the run of ended tasks it completes *)

\* A nonempty set of natural numbers has a smallest element.
LEMMA SmallestOf ==
  ASSUME NEW S, S \subseteq Nat, S # {}
  PROVE  \E n \in S : \A i \in S : n <= i
<1> DEFINE R == OpToRel(<, Nat)
<1>1. IsWellFoundedOn(R, Nat)
  BY NatLessThanWellFounded
<1>2. \A x, y \in Nat : x < y => <<x, y>> \in R
  BY DEF OpToRel
<1> HIDE DEF R
<1>3. PICK n \in S : \A i \in S : <<i, n>> \notin R
  BY <1>1, WFMin
<1>4. \A i \in S : ~(i < n)
  BY <1>2, <1>3
<1> QED BY <1>3, <1>4

\* RunLength is a length that its definition describes.
LEMMA RunLengthIs ==
  ASSUME NEW ring \in [Slots -> BOOLEAN], committed \in Nat
  PROVE  /\ RunLength(ring) \in 0 .. WindowSize
         /\ \A i \in 0 .. RunLength(ring) - 1 : ring[(committed + i) % WindowSize]
         /\ RunLength(ring) = WindowSize \/ ~ring[(committed + RunLength(ring)) % WindowSize]
<1> DEFINE Set(i) == ring[(committed + i) % WindowSize]
           Ends == {i \in 0 .. WindowSize : i = WindowSize \/ ~Set(i)}
           Run(n) == /\ \A i \in 0 .. n - 1 : Set(i)
                     /\ n = WindowSize \/ ~Set(n)
<1> USE DEF WindowAssumption
<1>1. ASSUME NEW i \in Nat PROVE Set(i) \in BOOLEAN
  <2>1. (committed + i) % WindowSize \in Slots
    BY ModRange DEF Slots
  <2> QED BY <2>1
<1>2. PICK n \in Ends : \A i \in Ends : n <= i
  <2>1. Ends \subseteq Nat /\ WindowSize \in Ends
    OBVIOUS
  <2> HIDE DEF Ends
  <2> QED BY <2>1, SmallestOf
<1> HIDE DEF Set
<1>3. n \in 0 .. WindowSize /\ Run(n)
  <2>1. n \in 0 .. WindowSize /\ (n = WindowSize \/ ~Set(n))
    BY <1>2
  <2>2. ASSUME NEW i \in 0 .. n - 1 PROVE Set(i)
    <3>1. i \in 0 .. WindowSize /\ ~(n <= i)
      BY <2>1
    <3>2. i \notin Ends
      BY <1>2, <3>1
    <3> QED BY <1>1, <3>1, <3>2
  <2> QED BY <2>1, <2>2
<1>4. RunLength(ring) = CHOOSE k \in 0 .. WindowSize : Run(k)
  BY DEF RunLength, Set
<1> HIDE DEF Run
<1>5. RunLength(ring) \in 0 .. WindowSize /\ Run(RunLength(ring))
  BY <1>3, <1>4
<1> QED BY <1>5 DEF Run, Set

\* Two tasks of the window, or one and the next to be started while there is
\* room, do not share a slot.
LEMMA SlotsDistinct ==
  ASSUME NEW c \in Nat, NEW t \in Nat, NEW u \in Nat,
         c <= t, t < c + WindowSize, c <= u, u < c + WindowSize,
         t % WindowSize = u % WindowSize
  PROVE  t = u
<1> USE DEF WindowAssumption
<1>1. u < t + WindowSize /\ t < u + WindowSize
  OBVIOUS
<1>2. CASE t < u
  <2>1. t % WindowSize # u % WindowSize
    BY <1>1, <1>2, ModDistinct
  <2> QED BY <2>1
<1>3. CASE u < t
  <2>1. u % WindowSize # t % WindowSize
    BY <1>1, <1>3, ModDistinct
  <2> QED BY <2>1
<1> QED BY <1>2, <1>3

\* The ring after a task that ended well.
LEMMA RingCommits ==
  ASSUME TypeOK, RingInv, TaskInv, NEW s \in Tasks, TaskSucceeds(s)
  PROVE  /\ RingInv'
         /\ committed' \in Nat /\ committed <= committed'
         /\ completed' \in [Slots -> BOOLEAN]
         /\ \A t \in committed .. committed' - 1 : task'[t] = "ok"
<1> USE DEF WindowAssumption
<1> DEFINE ring == [completed EXCEPT ![s % WindowSize] = TRUE]
           n == RunLength(ring)
<1>1. /\ committed \in Nat /\ started \in Nat /\ committed <= started
      /\ started - committed <= WindowSize /\ started <= Sequences
      /\ completed \in [Slots -> BOOLEAN]
      /\ task \in [Tasks -> {"none", "running", "ok", "failed"}]
  BY DEF TypeOK, RingInv
<1>2. /\ task[s] = "running" /\ task' = [task EXCEPT ![s] = "ok"]
      /\ committed' = committed + n /\ started' = started
      /\ completed' =
           [i \in Slots |->
              ring[i] /\ ~ \E j \in 0 .. n - 1 : i = (committed + j) % WindowSize]
  BY DEF TaskSucceeds
<1>3. s \in Uncommitted /\ s \in Nat
  BY <1>2 DEF TaskInv, Running, Tasks
<1>4. ASSUME NEW t \in Nat PROVE t % WindowSize \in Slots
  BY ModRange DEF Slots
<1>5. /\ ring \in [Slots -> BOOLEAN]
      /\ ring[s % WindowSize] = TRUE
      /\ \A i \in Slots : i # s % WindowSize => ring[i] = completed[i]
  BY <1>1, <1>3, <1>4
<1>6. /\ n \in 0 .. WindowSize
      /\ \A i \in 0 .. n - 1 : ring[(committed + i) % WindowSize]
      /\ n = WindowSize \/ ~ring[(committed + n) % WindowSize]
  <2> HIDE DEF ring
  <2> QED BY <1>1, <1>5, RunLengthIs
<1> HIDE DEF ring, n
<1>7. Uncommitted \subseteq Nat /\ Uncommitted \subseteq Tasks
  BY <1>1 DEF Uncommitted, Tasks
<1>8. ASSUME NEW t \in Uncommitted, NEW u \in Uncommitted, t % WindowSize = u % WindowSize
      PROVE  t = u
  <2>1. /\ t \in Nat /\ committed <= t /\ t < committed + WindowSize
        /\ u \in Nat /\ committed <= u /\ u < committed + WindowSize
    BY <1>1 DEF Uncommitted
  <2> QED BY <1>1, <1>8, <2>1, SlotsDistinct
<1>9. ASSUME NEW i \in Slots
      PROVE  completed[i] <=> \E t \in Uncommitted : t % WindowSize = i /\ task[t] = "ok"
  BY DEF RingInv
<1>10. ASSUME NEW t \in Uncommitted PROVE ring[t % WindowSize] <=> task'[t] = "ok"
  <2>1. t % WindowSize \in Slots /\ s % WindowSize \in Slots
    BY <1>3, <1>4, <1>7
  <2>2. CASE t = s
    BY <1>1, <1>2, <1>5, <2>2
  <2>3. CASE t # s
    <3>1. t % WindowSize # s % WindowSize
      BY <1>3, <1>8, <2>3
    <3>2. ring[t % WindowSize] = completed[t % WindowSize]
      BY <1>5, <2>1, <3>1
    <3>3. task'[t] = task[t]
      BY <1>1, <1>2, <1>7, <2>3
    <3>4. completed[t % WindowSize] <=> task[t] = "ok"
      BY <1>8, <1>9, <2>1
    <3> QED BY <3>2, <3>3, <3>4
  <2> QED BY <2>2, <2>3
<1>11. committed + n <= started
  <2>1. SUFFICES ASSUME committed + n > started PROVE FALSE
    BY <1>1, <1>6
  <2>2. /\ started - committed \in 0 .. n - 1 /\ started < committed + WindowSize
        /\ committed + (started - committed) = started
    BY <1>1, <1>6, <2>1
  <2>3. ring[started % WindowSize]
    BY <1>6, <2>2
  <2>4. ASSUME NEW t \in Uncommitted PROVE t % WindowSize # started % WindowSize
    <3>1. /\ t \in Nat /\ committed <= t /\ t < started /\ committed <= started
          /\ t < committed + WindowSize
      BY <1>1 DEF Uncommitted
    <3>2. started < t + WindowSize
      BY <1>1, <2>2, <3>1
    <3> QED BY <1>1, <3>1, <3>2, ModDistinct
  <2>5. started % WindowSize \in Slots
    BY <1>1, <1>4
  <2>6. ring[started % WindowSize] = completed[started % WindowSize]
    BY <1>3, <1>5, <2>4, <2>5
  <2> QED BY <1>9, <2>3, <2>4, <2>5, <2>6
<1>12. ASSUME NEW t \in committed .. committed' - 1 PROVE task'[t] = "ok"
  <2>1. t \in Uncommitted /\ t - committed \in 0 .. n - 1 /\ committed + (t - committed) = t
    BY <1>1, <1>2, <1>6, <1>11 DEF Uncommitted
  <2> QED BY <1>6, <1>10, <2>1
<1>13. committed' < started' => task'[committed'] # "ok"
  <2>1. SUFFICES ASSUME committed + n < started PROVE task'[committed + n] # "ok"
    BY <1>2
  <2>2. n # WindowSize /\ committed + n \in Uncommitted
    BY <1>1, <1>6, <2>1 DEF Uncommitted
  <2> QED BY <1>6, <1>10, <2>2
<1>14. Uncommitted' = (committed + n) .. started - 1 /\ Uncommitted' \subseteq Uncommitted
  BY <1>1, <1>2, <1>6, <1>11 DEF Uncommitted
<1>15. ASSUME NEW i \in Slots
       PROVE  completed'[i] <=>
                \E t \in Uncommitted' : t % WindowSize = i /\ task'[t] = "ok"
  <2>1. ASSUME completed'[i]
        PROVE  \E t \in Uncommitted' : t % WindowSize = i /\ task'[t] = "ok"
    <3>1. ring[i] /\ \A j \in 0 .. n - 1 : i # (committed + j) % WindowSize
      BY <1>2, <2>1
    <3>2. PICK t \in Uncommitted : t % WindowSize = i
      BY <1>3, <1>5, <1>9, <3>1
    <3>3. task'[t] = "ok"
      BY <1>10, <3>1, <3>2
    <3>4. ~(t < committed + n)
      <4>1. SUFFICES ASSUME t < committed + n PROVE FALSE
        OBVIOUS
      <4>2. t - committed \in 0 .. n - 1 /\ committed + (t - committed) = t
        BY <1>1, <1>6, <4>1 DEF Uncommitted
      <4> QED BY <3>1, <3>2, <4>2
    <3>5. t \in Uncommitted'
      <4>1. t \in committed .. started - 1
        BY DEF Uncommitted
      <4> QED BY <1>1, <1>6, <1>14, <3>4, <4>1
    <3> QED BY <3>2, <3>3, <3>5
  <2>2. ASSUME NEW t \in Uncommitted', t % WindowSize = i, task'[t] = "ok"
        PROVE  completed'[i]
    <3>1. ring[i]
      BY <1>10, <1>14, <2>2
    <3>2. ASSUME NEW j \in 0 .. n - 1 PROVE i # (committed + j) % WindowSize
      <4>1. committed + j \in Uncommitted /\ t # committed + j
        <5>1. t \in (committed + n) .. started - 1
          BY <1>14
        <5>2. committed + j \in committed .. started - 1 /\ t # committed + j
          BY <1>1, <1>6, <1>11, <5>1
        <5> QED BY <5>2 DEF Uncommitted
      <4> QED BY <1>8, <1>14, <2>2, <4>1
    <3> QED BY <1>2, <3>1, <3>2
  <2> QED BY <2>1, <2>2
<1>16. RingInv'
  <2>1. /\ committed' <= started' /\ started' <= Sequences
        /\ started' - committed' <= WindowSize
    BY <1>1, <1>2, <1>6, <1>11
  <2> QED BY <1>13, <1>15, <2>1 DEF RingInv
<1>17. completed' \in [Slots -> BOOLEAN]
  BY <1>2
<1> QED BY <1>1, <1>2, <1>6, <1>12, <1>16, <1>17

-----------------------------------------------------------------------------
(* Every action preserves the invariant *)

\* OpenFile and Restart build a window.
LEMMA OpenInv ==
  ASSUME LoaderInv, OpenFile \/ Restart
  PROVE  LoaderInv'
<1> USE DEF WindowAssumption
<1> DEFINE n == IF OpenFile THEN nameLines ELSE 0
<1>1. n \in 0 .. Sequences /\ FreshWindow(n)
  BY DEF LoaderInv, TypeOK, OpenFile, Restart
<1>2. RingInv' /\ TaskInv' /\ Running' = {}
  <2> HIDE DEF n
  <2> QED BY <1>1, FreshInv
<1>3. TypeOK'
  <2>1. /\ completed' \in [Slots -> BOOLEAN]
        /\ task' \in [Tasks -> {"none", "running", "ok", "failed"}]
    BY <1>1 DEF FreshWindow
  <2>2. /\ committed' \in Nat /\ started' \in Nat /\ inFlight' \in Nat /\ sinceWait' \in Nat
        /\ exception' \in {"none", "set", "taken"}
    <3> HIDE DEF n
    <3> QED BY <1>1 DEF FreshWindow
  <2>3. failed' \in BOOLEAN /\ asleep' \in BOOLEAN
    BY <1>1, Zenon DEF FreshWindow
  <2>4. stopped' \in BOOLEAN /\ terminated' \in BOOLEAN
    BY Zenon DEF OpenFile, Restart, LoaderInv, TypeOK
  <2>5. /\ lines' \in 0 .. Sequences /\ sequence' \in 0 .. Sequences
        /\ pc' \in Pcs
        /\ UNCHANGED <<place, nameLines, processed>>
    BY DEF OpenFile, Restart, LoaderInv, TypeOK, Pcs
  <2> QED BY <2>1, <2>2, <2>3, <2>4, <2>5 DEF LoaderInv, TypeOK
<1>4. PassInv'
  BY <1>2 DEF LoaderInv, TypeOK, PassInv, OpenFile, Restart, FreshWindow
<1>5. CommittedPrefix'
  BY DEF LoaderInv, TypeOK, CommittedPrefix, OpenFile, Restart, FreshWindow, Tasks
<1>6. NoRecordLost'
  BY DEF LoaderInv, NoRecordLost, OpenFile, Restart
<1> QED BY <1>2, <1>3, <1>4, <1>5, <1>6 DEF LoaderInv

\* The steps that neither start nor end a task, except the disposal of the file.
LEMMA WaitInv ==
  ASSUME LoaderInv,
         \/ LoopHead \/ AwaitRoom \/ ClientSleeps \/ WaitForOthers \/ CommitProgress
         \/ CommitDrained \/ RethrowException \/ DestroyWindow \/ Deactivate \/ Resubmit
         \/ LoadFails
  PROVE  LoaderInv'
<1> USE DEF WindowAssumption
<1>1. /\ UNCHANGED <<completed, committed, started, inFlight, failed, task, processed>>
      /\ exception' = "none" <=> exception = "none"
      /\ sinceWait' \in {sinceWait, 0} /\ exception' \in {exception, "taken"}
  BY DEF LoopHead, AwaitRoom, ClientSleeps, WaitForOthers, CommitProgress, CommitDrained,
         RethrowException, DestroyWindow, Deactivate, Resubmit, LoadFails,
         windowVars, loaderVars,
         Sleep, ResetProgress, TakeException
<1>2. RingInv' /\ TaskInv' /\ Running' = Running
  BY <1>1, SameWindow DEF LoaderInv
<1>3. inFlight = 0 <=> Running = {}
  BY RunningFinite DEF LoaderInv, TaskInv
<1>4. committed <= Sequences /\ lines \in 0 .. Sequences /\ committed \in Nat
  BY DEF LoaderInv, RingInv, TypeOK
<1>5. /\ lines' \in {lines, committed}
      /\ lines' # lines => pc # "idle"
      /\ UNCHANGED <<nameLines, sequence>>
      /\ place' # place => place' # "deleted"
      /\ pc = "idle" <=> pc' = "idle"
  BY DEF LoopHead, AwaitRoom, ClientSleeps, WaitForOthers, CommitProgress, CommitDrained,
         RethrowException, DestroyWindow, Deactivate, Resubmit, LoadFails,
         windowVars, loaderVars
<1>6. TypeOK'
  <2>1. /\ pc' \in Pcs /\ asleep' \in BOOLEAN /\ stopped' \in BOOLEAN
        /\ terminated' \in BOOLEAN /\ place' \in {"intermediate", "error", "deleted"}
    BY ZenonT(60) DEF LoopHead, AwaitRoom, ClientSleeps, WaitForOthers, CommitProgress, CommitDrained,
           RethrowException, DestroyWindow, Deactivate, Resubmit, LoadFails,
         windowVars, loaderVars,
           Sleep, ResetProgress, TakeException, LoaderInv, TypeOK, Pcs
  <2> QED BY <1>1, <1>4, <1>5, <2>1 DEF LoaderInv, TypeOK
<1>7. PassInv'
  <2>1. pc' # "idle" => started' = sequence' /\ lines' <= committed'
    BY <1>1, <1>4, <1>5 DEF LoaderInv, PassInv
  <2>2. pc' \in {"admit", "waiting", "failing", "rethrow"} => sequence' < Sequences
    BY <1>5 DEF LoopHead, AwaitRoom, ClientSleeps, WaitForOthers, CommitProgress,
           CommitDrained, RethrowException, DestroyWindow, Deactivate, Resubmit, LoadFails,
           loaderVars,
           LoaderInv, PassInv, TypeOK
  <2>3. pc' \in {"idle", "rethrow_last", "finished", "failed"} => Running' = {}
    BY <1>2, <1>3 DEF LoopHead, AwaitRoom, ClientSleeps, WaitForOthers, CommitProgress,
           CommitDrained, RethrowException, DestroyWindow, Deactivate, Resubmit, LoadFails,
           loaderVars,
           LoaderInv, PassInv, NoneInFlight
  <2>4. pc' \in {"draining", "rethrow_last", "finished"} /\ ~terminated'
          => sequence' = Sequences
    BY <1>5 DEF LoopHead, AwaitRoom, ClientSleeps, WaitForOthers, CommitProgress,
           CommitDrained, RethrowException, DestroyWindow, Deactivate, Resubmit, LoadFails,
           loaderVars,
           LoaderInv, PassInv, TypeOK
  <2>5. pc' \in {"rethrow_last", "finished"} => lines' = committed'
    BY <1>1 DEF LoopHead, AwaitRoom, ClientSleeps, WaitForOthers, CommitProgress,
           CommitDrained, RethrowException, DestroyWindow, Deactivate, Resubmit, LoadFails,
           loaderVars,
           LoaderInv, PassInv
  <2>6. pc' = "finished" => ~failed'
    BY <1>1 DEF LoopHead, AwaitRoom, ClientSleeps, WaitForOthers, CommitProgress,
           CommitDrained, RethrowException, DestroyWindow, Deactivate, Resubmit, LoadFails,
           loaderVars,
           LoaderInv, PassInv, TaskInv
  <2> QED BY <2>1, <2>2, <2>3, <2>4, <2>5, <2>6 DEF PassInv
<1>8. CommittedPrefix'
  BY <1>1, <1>4, <1>5 DEF LoaderInv, CommittedPrefix, Tasks
<1>9. NoRecordLost'
  BY <1>1, <1>5 DEF LoaderInv, NoRecordLost
<1> QED BY <1>2, <1>6, <1>7, <1>8, <1>9 DEF LoaderInv

\* A record's task is started.
LEMMA StartInv ==
  ASSUME LoaderInv, StartRecord
  PROVE  LoaderInv'
<1> USE DEF WindowAssumption
<1>1. /\ TypeOK /\ RingInv /\ TaskInv /\ PassInv /\ CommittedPrefix /\ NoRecordLost
      /\ pc = "admit" /\ pc' = "loop" /\ started = sequence /\ sequence < Sequences
      /\ started - committed < WindowSize
  BY DEF LoaderInv, StartRecord, Full, PassInv, TypeOK
<1>2. /\ sequence \in Tasks /\ sequence \in Nat /\ committed \in Nat /\ committed <= sequence
      /\ started' = sequence + 1 /\ sequence' = sequence + 1
      /\ task' = [task EXCEPT ![sequence] = "running"]
      /\ inFlight' = inFlight + 1
  BY <1>1 DEF StartRecord, Start, TypeOK, RingInv, Tasks
<1>3. /\ UNCHANGED <<completed, committed, sinceWait, failed, exception, asleep>>
      /\ UNCHANGED <<place, nameLines, lines, stopped, terminated, processed>>
  BY DEF StartRecord, Start
<1>4. /\ task \in [Tasks -> {"none", "running", "ok", "failed"}]
      /\ task[sequence] = "none"
      /\ \A s \in Tasks : s # sequence => task'[s] = task[s]
      /\ task'[sequence] = "running"
  BY <1>1, <1>2 DEF TypeOK, TaskInv
<1>5. Running' = Running \cup {sequence} /\ sequence \notin Running
  BY <1>2, <1>4 DEF Running
<1>6. Cardinality(Running') = Cardinality(Running) + 1
  BY <1>5, RunningFinite, FS_AddElement
<1>7. Uncommitted \subseteq Tasks /\ Uncommitted' = Uncommitted \cup {sequence}
      /\ sequence \notin Uncommitted
  BY <1>1, <1>2, <1>3 DEF Uncommitted, Tasks
<1>8. TypeOK'
  BY <1>1, <1>2, <1>3, <1>4 DEF TypeOK, Pcs
<1>9. RingInv'
  <2>1. /\ committed' <= started' /\ started' <= Sequences
        /\ started' - committed' <= WindowSize
    BY <1>1, <1>2, <1>3
  <2>2. ASSUME NEW i \in Slots
        PROVE  completed'[i] <=> \E s \in Uncommitted' : s % WindowSize = i /\ task'[s] = "ok"
    <3>1. \A s \in Uncommitted : task'[s] = task[s]
      BY <1>4, <1>7
    <3>2. completed[i] <=> \E s \in Uncommitted : s % WindowSize = i /\ task[s] = "ok"
      BY <1>1 DEF RingInv
    <3> QED BY <1>3, <1>4, <1>7, <3>1, <3>2
  <2>3. task'[committed'] # "ok"
    <3>1. CASE committed = sequence
      BY <1>3, <1>4, <3>1
    <3>2. CASE committed # sequence
      <4>1. committed < started /\ committed \in Tasks
        BY <1>1, <1>2, <3>2 DEF Tasks
      <4> QED BY <1>1, <1>3, <1>4, <3>2, <4>1 DEF RingInv
    <3> QED BY <3>1, <3>2
  <2> QED BY <2>1, <2>2, <2>3 DEF RingInv
<1>10. TaskInv'
  <2>1. inFlight' = Cardinality(Running')
    BY <1>1, <1>2, <1>6 DEF TaskInv
  <2>2. Running' \subseteq Uncommitted'
    BY <1>1, <1>5, <1>7 DEF TaskInv
  <2>3. \A s \in Tasks : s >= started' => task'[s] = "none"
    <3>1. ASSUME NEW s \in Tasks, s >= started' PROVE s # sequence /\ s >= started
      BY <1>1, <1>2, <3>1 DEF Tasks
    <3> QED BY <1>1, <1>4, <3>1 DEF TaskInv
  <2>4. \A s \in Uncommitted' : task'[s] # "none"
    BY <1>1, <1>4, <1>7 DEF TaskInv
  <2>5. /\ \A s \in Tasks : task'[s] = "ok" => s \in processed'
        /\ \A s \in Tasks : task'[s] = "failed" => failed'
        /\ failed' <=> exception' # "none"
    BY <1>1, <1>3, <1>4 DEF TaskInv
  <2> QED BY <2>1, <2>2, <2>3, <2>4, <2>5 DEF TaskInv
<1>11. PassInv'
  BY <1>1, <1>2, <1>3 DEF PassInv
<1>12. CommittedPrefix' /\ NoRecordLost'
  BY <1>1, <1>3 DEF CommittedPrefix, NoRecordLost
<1> QED BY <1>8, <1>9, <1>10, <1>11, <1>12 DEF LoaderInv

\* A record's task ends well: what it commits was processed.
LEMMA ProcessedInv ==
  ASSUME LoaderInv, NEW s \in Tasks, RecordProcessed(s)
  PROVE  LoaderInv'
<1> USE DEF WindowAssumption
<1>1. TypeOK /\ RingInv /\ TaskInv /\ PassInv /\ CommittedPrefix /\ NoRecordLost
  BY DEF LoaderInv
<1>2. /\ task[s] = "running" /\ task' = [task EXCEPT ![s] = "ok"]
      /\ inFlight' = inFlight - 1 /\ sinceWait' = sinceWait + 1
      /\ asleep' \in BOOLEAN
      /\ processed' = processed \cup {s}
      /\ UNCHANGED <<started, failed, exception>>
      /\ UNCHANGED <<place, nameLines, lines, sequence, stopped, terminated, pc>>
  BY DEF RecordProcessed, TaskSucceeds, TaskEnded
<1>3. /\ RingInv'
      /\ committed' \in Nat /\ committed <= committed'
      /\ completed' \in [Slots -> BOOLEAN]
      /\ \A t \in committed .. committed' - 1 : task'[t] = "ok"
  BY <1>1, RingCommits DEF RecordProcessed
<1>4. Running' = Running \ {s} /\ inFlight' = Cardinality(Running') /\ inFlight' \in Nat
  BY <1>1, <1>2, RunningEnds
<1>5. /\ task \in [Tasks -> {"none", "running", "ok", "failed"}]
      /\ task' \in [Tasks -> {"none", "running", "ok", "failed"}]
      /\ task'[s] = "ok" /\ \A t \in Tasks : t # s => task'[t] = task[t]
      /\ committed \in Nat /\ started \in Nat /\ s \in Running
  BY <1>1, <1>2 DEF TypeOK, Running
<1>6. Uncommitted' \subseteq Uncommitted /\ Uncommitted \subseteq Tasks
      /\ \A t \in Uncommitted : t \notin Uncommitted' => t \in committed .. committed' - 1
  <2>1. /\ started \in Nat /\ started <= Sequences /\ started' = started
        /\ committed \in Nat /\ committed' \in Nat /\ committed <= committed'
    BY <1>1, <1>2, <1>3, <1>5 DEF RingInv
  <2>2. Uncommitted \subseteq Tasks
    BY <2>1 DEF Uncommitted, Tasks
  <2>3. PICK c \in Nat : committed' = c
    BY <2>1
  <2>4. Uncommitted' = c .. started - 1 /\ committed .. committed' - 1 = committed .. c - 1
    BY <2>1, <2>3 DEF Uncommitted
  <2>5. committed <= c /\ Uncommitted = committed .. started - 1
    BY <2>1, <2>3 DEF Uncommitted
  <2>6. /\ c .. started - 1 \subseteq committed .. started - 1
        /\ \A t \in committed .. started - 1 :
             t \notin c .. started - 1 => t \in committed .. c - 1
    BY <2>1, <2>5
  <2> QED BY <2>2, <2>4, <2>5, <2>6
<1>7. TypeOK'
  BY <1>1, <1>2, <1>3, <1>4, <1>5 DEF TypeOK
<1>8. TaskInv'
  <2>1. Running' \subseteq Uncommitted'
    <3>1. ASSUME NEW t \in Running' PROVE t \in Uncommitted /\ task'[t] # "ok"
      BY <1>1, <1>4 DEF TaskInv, Running
    <3> QED BY <1>3, <1>6, <3>1
  <2>2. \A t \in Tasks : t >= started' => task'[t] = "none"
    <3>1. s \in Uncommitted
      BY <1>1, <1>5 DEF TaskInv
    <3>2. ~(s >= started)
      BY <1>5, <3>1 DEF Uncommitted
    <3> QED BY <1>1, <1>2, <1>5, <3>2 DEF TaskInv
  <2>3. \A t \in Uncommitted' : task'[t] # "none"
    BY <1>1, <1>5, <1>6 DEF TaskInv
  <2>4. /\ \A t \in Tasks : task'[t] = "ok" => t \in processed'
        /\ \A t \in Tasks : task'[t] = "failed" => failed'
        /\ failed' <=> exception' # "none"
    BY <1>1, <1>2, <1>5 DEF TaskInv
  <2> QED BY <1>4, <2>1, <2>2, <2>3, <2>4 DEF TaskInv
<1>9. PassInv'
  <2>1. pc \notin {"idle", "rethrow_last", "finished", "failed"}
    BY <1>1, <1>5 DEF PassInv
  <2>2. lines' <= committed'
    BY <1>1, <1>2, <1>3, <1>5, <2>1 DEF PassInv, TypeOK
  <2> QED BY <1>1, <1>2, <2>1, <2>2 DEF PassInv
<1>10. CommittedPrefix'
  <2>1. SUFFICES ASSUME NEW t \in Tasks,
                        t < nameLines' \/ t < lines' \/ (pc' # "idle" /\ t < committed')
                 PROVE  t \in processed'
    BY DEF CommittedPrefix
  <2>2. CASE t < nameLines \/ t < lines \/ (pc # "idle" /\ t < committed)
    BY <1>1, <1>2, <2>2 DEF CommittedPrefix
  <2>3. CASE t < committed' /\ ~(t < committed)
    <3>1. t \in committed .. committed' - 1
      <4>1. t \in Nat /\ committed \in Nat
        BY <1>5 DEF Tasks
      <4>2. PICK c \in Nat : committed' = c
        BY <1>3
      <4> QED BY <2>3, <4>1, <4>2
    <3> QED BY <1>3, <1>8, <3>1 DEF TaskInv
  <2> QED BY <1>2, <2>1, <2>2, <2>3
<1>11. NoRecordLost'
  BY <1>1, <1>2 DEF NoRecordLost, TypeOK
<1> QED BY <1>3, <1>7, <1>8, <1>9, <1>10, <1>11 DEF LoaderInv

\* A record's task fails: the pass will, and the count stays where it is.
LEMMA FailsInv ==
  ASSUME LoaderInv, NEW s \in Tasks, RecordFails(s)
  PROVE  LoaderInv'
<1> USE DEF WindowAssumption
<1>1. TypeOK /\ RingInv /\ TaskInv /\ PassInv /\ CommittedPrefix /\ NoRecordLost
  BY DEF LoaderInv
<1>2. /\ task[s] = "running" /\ task' = [task EXCEPT ![s] = "failed"]
      /\ inFlight' = inFlight - 1 /\ sinceWait' = sinceWait + 1
      /\ asleep' \in BOOLEAN
      /\ exception' \in {"set", exception} /\ exception' # "none" /\ failed' = TRUE
      /\ UNCHANGED <<completed, committed, started>>
      /\ UNCHANGED loaderVars
  BY DEF RecordFails, TaskFails, TaskEnded
<1>3. Running' = Running \ {s} /\ inFlight' = Cardinality(Running') /\ inFlight' \in Nat
  BY <1>1, <1>2, RunningEnds
<1>4. /\ task' \in [Tasks -> {"none", "running", "ok", "failed"}]
      /\ task'[s] = "failed" /\ \A t \in Tasks : t # s => task'[t] = task[t]
      /\ s \in Running
      /\ Uncommitted \subseteq Tasks /\ Uncommitted' = Uncommitted
  BY <1>1, <1>2 DEF TypeOK, Running, RingInv, Uncommitted, Tasks
<1>5. TypeOK'
  BY <1>1, <1>2, <1>3, <1>4 DEF TypeOK, loaderVars
<1>6. \A t \in Tasks : task'[t] = "ok" <=> task[t] = "ok"
  BY <1>2, <1>4
<1>7. RingInv'
  <2>1. ASSUME NEW i \in Slots
        PROVE  completed'[i] <=> \E t \in Uncommitted' : t % WindowSize = i /\ task'[t] = "ok"
    BY <1>1, <1>2, <1>4, <1>6 DEF RingInv
  <2>2. committed' < started' => task'[committed'] # "ok"
    <3>1. ASSUME committed < started PROVE committed \in Tasks
      BY <1>1, <3>1 DEF RingInv, TypeOK, Tasks
    <3> QED BY <1>1, <1>2, <1>6, <3>1 DEF RingInv
  <2> QED BY <1>1, <1>2, <2>1, <2>2 DEF RingInv
<1>8. TaskInv'
  <2>1. \A t \in Tasks : t >= started' => task'[t] = "none"
    <3>1. s \in Uncommitted
      BY <1>1, <1>4 DEF TaskInv
    <3>2. ~(s >= started)
      BY <1>1, <3>1 DEF Uncommitted, TypeOK
    <3> QED BY <1>1, <1>2, <1>4, <3>2 DEF TaskInv
  <2>2. \A t \in Uncommitted' : task'[t] # "none"
    BY <1>1, <1>4 DEF TaskInv
  <2>3. /\ \A t \in Tasks : task'[t] = "ok" => t \in processed'
        /\ \A t \in Tasks : task'[t] = "failed" => failed'
        /\ failed' <=> exception' # "none"
    BY <1>1, <1>2, <1>6 DEF TaskInv, loaderVars
  <2>4. Running' \subseteq Uncommitted'
    BY <1>1, <1>3, <1>4 DEF TaskInv
  <2> QED BY <1>3, <2>1, <2>2, <2>3, <2>4 DEF TaskInv
<1>9. PassInv'
  <2>1. pc \notin {"idle", "rethrow_last", "finished", "failed"}
    BY <1>1, <1>4 DEF PassInv
  <2> QED BY <1>1, <1>2, <2>1 DEF PassInv, loaderVars
<1>10. CommittedPrefix' /\ NoRecordLost'
  BY <1>1, <1>2 DEF CommittedPrefix, NoRecordLost, loaderVars
<1> QED BY <1>5, <1>7, <1>8, <1>9, <1>10 DEF LoaderInv

\* When nothing runs and nothing failed, everything that was started is committed.
LEMMA AllCommitted ==
  ASSUME TypeOK, RingInv, TaskInv, Running = {}, ~failed
  PROVE  committed = started
<1> USE DEF WindowAssumption
<1>1. SUFFICES ASSUME committed < started PROVE FALSE
  BY DEF RingInv, TypeOK
<1>2. committed \in Tasks /\ committed \in Uncommitted
  BY <1>1 DEF TypeOK, RingInv, Tasks, Uncommitted
<1>3. task[committed] \in {"none", "running", "ok", "failed"}
  BY <1>2 DEF TypeOK
<1>4. task[committed] # "running"
  BY <1>2 DEF Running
<1> QED BY <1>1, <1>2, <1>3, <1>4 DEF RingInv, TaskInv

\* The file is deleted only after its last record.
LEMMA DisposeInv ==
  ASSUME LoaderInv, DisposeFile \/ DisposeFails
  PROVE  LoaderInv'
<1> USE DEF WindowAssumption
<1>1. /\ TypeOK /\ RingInv /\ TaskInv /\ PassInv /\ CommittedPrefix /\ NoRecordLost
      /\ pc \in {"finished", "failed"} /\ pc' = "idle" /\ nameLines' \in {lines, nameLines}
      /\ UNCHANGED <<windowVars, lines, sequence, stopped, terminated, processed>>
  BY DEF LoaderInv, DisposeFile, DisposeFails
<1>2. RingInv' /\ TaskInv' /\ Running' = Running
  BY <1>1, SameWindow DEF windowVars
<1>3. TypeOK'
  BY <1>1 DEF TypeOK, Pcs, windowVars, DisposeFile, DisposeFails
<1>4. PassInv'
  BY <1>1, <1>2 DEF PassInv
<1>5. CommittedPrefix'
  BY <1>1 DEF CommittedPrefix
<1>6. NoRecordLost'
  <2>1. CASE pc = "finished" /\ ~terminated
    <3>1. committed = started
      BY <1>1, <2>1, AllCommitted DEF PassInv
    <3>2. lines = Sequences
      BY <1>1, <2>1, <3>1 DEF PassInv
    <3>3. \A t \in Tasks : t \in processed
      BY <1>1, <3>2 DEF CommittedPrefix, Tasks
    <3> QED BY <1>1, <3>3 DEF NoRecordLost, TypeOK
  <2>2. CASE ~(pc = "finished" /\ ~terminated)
    BY <1>1, <2>2 DEF DisposeFile, DisposeFails, NoRecordLost
  <2> QED BY <2>1, <2>2
<1> QED BY <1>2, <1>3, <1>4, <1>5, <1>6 DEF LoaderInv

-----------------------------------------------------------------------------
(* The theorems *)

\* The loader's invariant holds for every file length, window size and wake
\* threshold.
THEOREM LoaderInvariant == Spec => []LoaderInv
<1> USE DEF WindowAssumption
<1>1. Init => LoaderInv
  <2> SUFFICES ASSUME Init PROVE LoaderInv
    OBVIOUS
  <2>1. TypeOK
    <3>1. /\ failed \in BOOLEAN /\ asleep \in BOOLEAN
          /\ stopped \in BOOLEAN /\ terminated \in BOOLEAN
      BY Zenon DEF Init, WindowInit
    <3>2. /\ completed \in [Slots -> BOOLEAN]
          /\ task \in [Tasks -> {"none", "running", "ok", "failed"}]
      BY DEF Init, WindowInit
    <3> QED BY <3>1, <3>2 DEF Init, WindowInit, TypeOK, Pcs
  <2>2. Running = {}
    BY DEF Init, WindowInit, Running
  <2>3. Cardinality(Running) = 0
    BY <2>2, FS_EmptySet
  <2>4. RingInv
    BY DEF Init, WindowInit, RingInv, Uncommitted
  <2>5. TaskInv
    BY <2>2, <2>3 DEF Init, WindowInit, TaskInv, Uncommitted, Tasks
  <2>6. PassInv
    BY <2>2 DEF Init, WindowInit, PassInv
  <2>7. CommittedPrefix /\ NoRecordLost
    BY DEF Init, WindowInit, CommittedPrefix, NoRecordLost, Tasks
  <2> QED BY <2>1, <2>4, <2>5, <2>6, <2>7 DEF LoaderInv
<1>2. LoaderInv /\ [Next]_vars => LoaderInv'
  <2> SUFFICES ASSUME LoaderInv, [Next]_vars PROVE LoaderInv'
    OBVIOUS
  <2>1. CASE OpenFile \/ Restart
    BY <2>1, OpenInv
  <2>2. CASE StartRecord
    BY <2>2, StartInv
  <2>3. CASE \/ LoopHead \/ AwaitRoom \/ ClientSleeps \/ WaitForOthers \/ CommitProgress
             \/ CommitDrained \/ RethrowException \/ DestroyWindow \/ Deactivate \/ Resubmit
         \/ LoadFails
    BY <2>3, WaitInv
  <2>4. CASE DisposeFile \/ DisposeFails
    BY <2>4, DisposeInv
  <2>5. ASSUME NEW s \in Tasks, RecordProcessed(s) PROVE LoaderInv'
    BY <2>5, ProcessedInv
  <2>6. ASSUME NEW s \in Tasks, RecordFails(s) PROVE LoaderInv'
    BY <2>6, FailsInv
  <2>7. CASE UNCHANGED vars
    <3>1. RingInv' /\ TaskInv' /\ Running' = Running
      BY <2>7, SameWindow DEF LoaderInv, vars, windowVars, loaderVars
    <3>2. TypeOK' /\ PassInv' /\ CommittedPrefix' /\ NoRecordLost'
      BY <2>7, <3>1 DEF LoaderInv, vars, windowVars, loaderVars, TypeOK, PassInv,
         CommittedPrefix, NoRecordLost
    <3> QED BY <3>1, <3>2 DEF LoaderInv
  <2> QED BY <2>1, <2>2, <2>3, <2>4, <2>5, <2>6, <2>7 DEF Next, Loader
<1> QED BY <1>1, <1>2, PTL DEF Spec

\* The ring of the window keeps the account of which tasks ended well.
THEOREM RingHolds == Spec => []RingInv
<1>1. LoaderInv => RingInv
  BY DEF LoaderInv
<1> QED BY <1>1, LoaderInvariant, PTL

\* Everything below a committed count was processed, across failures and crashes.
THEOREM CommittedPrefixHolds == Spec => []CommittedPrefix
<1>1. LoaderInv => CommittedPrefix
  BY DEF LoaderInv
<1> QED BY <1>1, LoaderInvariant, PTL

\* No record of a deleted file was lost.
THEOREM NoRecordLostHolds == Spec => []NoRecordLost
<1>1. LoaderInv => NoRecordLost
  BY DEF LoaderInv
<1> QED BY <1>1, LoaderInvariant, PTL

\* A pass that was stopped and met no failure takes over all that it started.
THEOREM OrderlyStopHolds == Spec => []OrderlyStop
<1>1. LoaderInv => OrderlyStop
  BY AllCommitted DEF LoaderInv, PassInv, OrderlyStop
<1> QED BY <1>1, LoaderInvariant, PTL

=============================================================================
