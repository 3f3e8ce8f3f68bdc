------------------------------ MODULE FileReceiver ------------------------------
(***************************************************************************)
(* LogCommons/FileReceiver with the FileThreadProcessor that drives it.    *)
(* A fetch thread moves log files from the input directory into the        *)
(* intermediate directory; the threads of the pool take the eldest file,   *)
(* process it and delete it, or put it back.  At most max_files_to_store_  *)
(* names are kept in memory; of the rest only the eldest is remembered,    *)
(* and the directory is scanned again when its turn comes.  The critical   *)
(* sections of files_lock_, the system calls and the reads of the          *)
(* directory are the steps.  Names are numbers, eldest first.              *)
(***************************************************************************)
EXTENDS Naturals, FiniteSets, FiniteSetsExt

CONSTANTS Names,          \* the files' names
          Threads,        \* the threads of the pool
          MaxFiles,       \* max_files_to_store_
          MaxFaults,      \* bound: files put back, or delivered again under their
                          \* old name, and restarts, together
          NoOne           \* cond_ of the pool is free

Empty == 0  \* the empty string
Mark  == 1  \* UNDEFINED_STATE_MARK, below every name

ASSUME ReceiverAssumption ==
  /\ Names \subseteq Nat \ {Empty, Mark} /\ IsFiniteSet(Names)
  /\ IsFiniteSet(Threads) /\ NoOne \notin Threads
  /\ MaxFiles \in Nat \ {0}
  /\ MaxFaults \in Nat

VARIABLES
  input,       \* input directory: files under their own name
  data,        \* input directory: files with the suffix C
  commit,      \* input directory: files ~name.commit
  dir,         \* the intermediate directory
  files,       \* files_
  oldest,      \* oldest_not_in_files_
  inProgress,  \* in_progress_files_
  processed,   \* processed_files_
  fetching,    \* fetch_internal_in_progress_
  must,        \* entries readdir() has yet to return unless they are removed
  seen,        \* entries readdir() has returned
  entry,       \* the entry whose handler is to run, or Empty
  fpc, fname,  \* where the fetch thread is, and its file
  cond,        \* who holds cond_ of the pool
  asleep,      \* threads that wait on cond_
  wpc, held,   \* where each thread is, and its file
  active,      \* the interrupter is active
  stopping,    \* the pool is terminating
  aborted,     \* an exception has left a noexcept function
  delivered,   \* files delivered so far (history)
  faults       \* what MaxFaults bounds

dirVars  == <<input, data, commit, dir>>
setVars  == <<files, oldest, inProgress, processed>>
scanVars == <<fetching, must, seen, entry>>
stopVars == <<active, stopping, aborted>>
vars == <<dirVars, setVars, scanVars, fpc, fname, cond, asleep, wpc, held, stopVars,
          delivered, faults>>

Init ==
  /\ input = {} /\ data = {} /\ commit = {} /\ dir = {}
  /\ files = {} /\ oldest = Mark /\ inProgress = {} /\ processed = {}
  /\ fetching = FALSE /\ must = {} /\ seen = {} /\ entry = Empty
  /\ fpc = "idle" /\ fname = Empty
  /\ cond = NoOne /\ asleep = {}
  /\ wpc = [t \in Threads |-> "loop"] /\ held = [t \in Threads |-> Empty]
  /\ active = TRUE /\ stopping = FALSE /\ aborted = FALSE
  /\ delivered = {}
  /\ faults = 0

Alive == ~aborted

-----------------------------------------------------------------------------
(* Other processes deliver files: at once, or the data and then a commit    *)
(* file.  A sender that was interrupted may send a file again.              *)

Deliver(f) ==
  /\ f \notin delivered
  /\ input' = input \cup {f}
  /\ delivered' = delivered \cup {f}
  /\ UNCHANGED <<data, commit, dir, setVars, scanVars, fpc, fname, cond, asleep, wpc,
                 held, stopVars, faults>>

DeliverData(f) ==
  /\ f \notin delivered
  /\ data' = data \cup {f}
  /\ delivered' = delivered \cup {f}
  /\ UNCHANGED <<input, commit, dir, setVars, scanVars, fpc, fname, cond, asleep, wpc,
                 held, stopVars, faults>>

DeliverCommit(f) ==
  /\ f \in data
  /\ commit' = commit \cup {f}
  /\ UNCHANGED <<input, data, dir, setVars, scanVars, fpc, fname, cond, asleep, wpc,
                 held, stopVars, delivered, faults>>

Redeliver(f) ==
  /\ f \in delivered /\ f \notin input \cup data
  /\ faults < MaxFaults
  /\ faults' = faults + 1
  /\ input' = input \cup {f}
  /\ UNCHANGED <<data, commit, dir, setVars, scanVars, fpc, fname, cond, asleep, wpc,
                 held, stopVars, delivered>>

-----------------------------------------------------------------------------
(* add_file_i_() *)

Smallest(a, b) == IF a = Empty THEN b ELSE IF b = Empty \/ a < b THEN a ELSE b

\* The names kept and the eldest that is not, after f was added.
AddFile(f, known, old) ==
  LET more == known \cup {f}
  IN  IF Cardinality(more) > MaxFiles
        THEN [files |-> more \ {Max(more)}, oldest |-> Smallest(old, Max(more))]
        ELSE [files |-> more, oldest |-> old]

\* The eldest file of a state of files_ and oldest_not_in_files_.
TopOf(known, old) == Smallest(old, IF known = {} THEN Empty ELSE Min(known))

Add(f) ==
  LET after == AddFile(f, files, oldest)
  IN  files' = after.files /\ oldest' = after.oldest

\* check_top_changed_(): whether the callbacks are to be made for f.
IsTop(f) == TopOf(files', oldest') = f

-----------------------------------------------------------------------------
(* fetch_files_handler_() and fetch_file_(), on the scheduler's thread.  A   *)
(* name that is known already throws, and the rest of the directory is left  *)
(* for the next fetch.                                                       *)

Known(f) == f \in files \cup inProgress

FetchFile(f) ==
  /\ ~Known(f)
  /\ dir' = dir \cup {f}
  /\ Add(f)
  /\ fname' = f
  /\ UNCHANGED <<inProgress, processed, scanVars, cond, asleep, wpc, held, stopVars,
                 delivered, faults>>

FetchRegular(f) ==
  /\ Alive /\ active /\ fpc = "idle" /\ f \in input
  /\ FetchFile(f)
  /\ input' = input \ {f}
  /\ fpc' = IF IsTop(f) THEN "callback" ELSE "idle"
  /\ UNCHANGED <<data, commit>>

FetchCommitted(f) ==
  /\ Alive /\ active /\ fpc = "idle" /\ f \in commit /\ f \in data
  /\ FetchFile(f)
  /\ data' = data \ {f}
  /\ fpc' = IF IsTop(f) THEN "commit_callback" ELSE "unlink"
  /\ UNCHANGED <<input, commit>>

\* A commit file without its data file.
FetchOrphan(f) ==
  /\ Alive /\ active /\ fpc = "idle" /\ f \in commit /\ f \notin data
  /\ fpc' = "unlink" /\ fname' = f
  /\ UNCHANGED <<dirVars, setVars, scanVars, cond, asleep, wpc, held, stopVars, delivered,
                 faults>>

\* Mutant: the callback wakes nobody.
FetchCallbackQuiet ==
  /\ Alive /\ fpc \in {"callback", "commit_callback"}
  /\ fpc' = IF fpc = "callback" THEN "idle" ELSE "unlink"
  /\ UNCHANGED <<dirVars, setVars, scanVars, fname, cond, asleep, wpc, held, stopVars,
                 delivered, faults>>

\* on_top_changed(): a broadcast under cond_.
FetchCallback ==
  /\ Alive /\ fpc \in {"callback", "commit_callback"}
  /\ cond = NoOne
  /\ asleep' = {}
  /\ fpc' = IF fpc = "callback" THEN "idle" ELSE "unlink"
  /\ UNCHANGED <<dirVars, setVars, scanVars, fname, cond, wpc, held, stopVars, delivered,
                 faults>>

UnlinkCommit ==
  /\ Alive /\ fpc = "unlink"
  /\ commit' = commit \ {fname}
  /\ fpc' = "idle"
  /\ UNCHANGED <<input, data, dir, setVars, scanVars, fname, cond, asleep, wpc, held,
                 stopVars, delivered, faults>>

-----------------------------------------------------------------------------
(* ProcessJob::work() and get_eldest(), under cond_ *)

Goto(t, place) == wpc' = [wpc EXCEPT ![t] = place]

Loop(t) ==
  /\ Alive /\ wpc[t] = "loop"
  /\ IF stopping
       THEN Goto(t, "exited") /\ UNCHANGED cond
       ELSE cond = NoOne /\ cond' = t /\ Goto(t, "get")
  /\ UNCHANGED <<dirVars, setVars, scanVars, fpc, fname, asleep, held, stopVars, delivered,
                 faults>>

\* Mutant: the eldest file is taken to be in files_ whenever there is one.
EldestKnownIfAny == oldest = Empty \/ files # {}

\* Nothing that is not in files_ is older than what is.
EldestKnown == oldest = Empty \/ (files # {} /\ oldest >= Min(files))

\* get_eldest_i_(): the file goes to the caller, who leaves cond_ with it.
Take(t) ==
  /\ IF files # {}
       THEN LET f == Min(files)
            IN  /\ files' = files \ {f}
                /\ inProgress' = inProgress \cup {f}
                /\ held' = [held EXCEPT ![t] = f]
                /\ cond' = NoOne
                /\ Goto(t, "process")
       ELSE /\ Goto(t, "nothing")
            /\ UNCHANGED <<files, inProgress, held, cond>>
  /\ UNCHANGED <<dirVars, oldest, processed, scanVars, fpc, fname, asleep, stopVars,
                 delivered, faults>>

GetEldest(t) ==
  /\ Alive /\ wpc[t] = "get"
  /\ ~fetching /\ EldestKnown
  /\ Take(t)

\* fetch_intermediate_dir_() begins: the directory is taken as known.
FetchIntermediate(t) ==
  /\ Alive /\ wpc[t] = "get"
  /\ ~EldestKnown
  /\ fetching' = TRUE
  /\ oldest' = Empty
  /\ must' = dir /\ seen' = {} /\ entry' = Empty
  /\ Goto(t, "scan")
  /\ UNCHANGED <<dirVars, files, inProgress, processed, fpc, fname, cond, asleep, held,
                 stopVars, delivered, faults>>

\* readdir(): what was there at the beginning is returned unless it is removed,
\* what is added or removed meanwhile may be.
ReadEntry(t) ==
  /\ Alive /\ wpc[t] = "scan" /\ entry = Empty
  /\ \E f \in (must \cup dir) \ seen :
       /\ entry' = f
       /\ must' = must \ {f}
       /\ seen' = seen \cup {f}
  /\ UNCHANGED <<dirVars, setVars, fetching, fpc, fname, cond, asleep, wpc, held, stopVars,
                 delivered, faults>>

\* Mutant: only files that are being processed are left out.
HandleEntryKnown(t) ==
  /\ Alive /\ wpc[t] = "scan" /\ entry # Empty /\ active
  /\ IF entry \in inProgress THEN UNCHANGED <<files, oldest>> ELSE Add(entry)
  /\ entry' = Empty
  /\ UNCHANGED <<dirVars, inProgress, processed, fetching, must, seen, fpc, fname, cond,
                 asleep, wpc, held, stopVars, delivered, faults>>

\* fetch_intermediate_dir_handler_()
HandleEntry(t) ==
  /\ Alive /\ wpc[t] = "scan" /\ entry # Empty /\ active
  /\ IF entry \in inProgress \cup processed THEN UNCHANGED <<files, oldest>>
                                            ELSE Add(entry)
  /\ entry' = Empty
  /\ UNCHANGED <<dirVars, inProgress, processed, fetching, must, seen, fpc, fname, cond,
                 asleep, wpc, held, stopVars, delivered, faults>>

\* The interrupter is no longer active: the exception passes get_eldest() and
\* leaves work(), which is noexcept.
Interrupted(t) ==
  /\ Alive /\ wpc[t] = "scan" /\ entry # Empty /\ ~active
  /\ aborted' = TRUE
  /\ UNCHANGED <<dirVars, setVars, scanVars, fpc, fname, cond, asleep, wpc, held, active,
                 stopping, delivered, faults>>

\* The end of the scan, and then get_eldest_i_() in a critical section of its own.
FetchedIntermediate(t) ==
  /\ Alive /\ wpc[t] = "scan" /\ entry = Empty
  /\ must \cap dir = {}
  /\ processed' = {}
  /\ fetching' = FALSE
  /\ Goto(t, "scanned")
  /\ UNCHANGED <<dirVars, files, oldest, inProgress, must, seen, entry, fpc, fname, cond,
                 asleep, held, stopVars, delivered, faults>>

GetScanned(t) ==
  /\ Alive /\ wpc[t] = "scanned"
  /\ Take(t)

\* No file: wait for a broadcast, unless the pool is terminating.
Sleep(t) ==
  /\ Alive /\ wpc[t] = "nothing"
  /\ cond' = NoOne
  /\ asleep' = IF stopping THEN asleep ELSE asleep \cup {t}
  /\ Goto(t, IF stopping THEN "loop" ELSE "asleep")
  /\ UNCHANGED <<dirVars, setVars, scanVars, fpc, fname, held, stopVars, delivered, faults>>

Wake(t) ==
  /\ Alive /\ wpc[t] = "asleep" /\ t \notin asleep
  /\ cond = NoOne
  /\ Goto(t, "loop")
  /\ UNCHANGED <<dirVars, setVars, scanVars, fpc, fname, cond, asleep, held, stopVars,
                 delivered, faults>>

-----------------------------------------------------------------------------
(* FileProcessor::process(), outside cond_ *)

\* The file is processed and deleted, or moved to the error directory.
Process(t) ==
  /\ Alive /\ wpc[t] = "process"
  /\ dir' = dir \ {held[t]}
  /\ Goto(t, "release")
  /\ UNCHANGED <<input, data, commit, setVars, scanVars, fpc, fname, cond, asleep, held,
                 stopVars, delivered, faults>>

\* The guard's destructor: file_processed_().
FileProcessed(t) ==
  /\ Alive /\ wpc[t] = "release"
  /\ inProgress' = inProgress \ {held[t]}
  /\ processed' = IF fetching THEN processed \cup {held[t]} ELSE processed
  /\ held' = [held EXCEPT ![t] = Empty]
  /\ Goto(t, "loop")
  /\ UNCHANGED <<dirVars, files, oldest, scanVars, fpc, fname, cond, asleep, stopVars,
                 delivered, faults>>

\* FileGuard::revert()
Revert(t) ==
  /\ Alive /\ wpc[t] = "process"
  /\ faults < MaxFaults
  /\ faults' = faults + 1
  /\ inProgress' = inProgress \ {held[t]}
  /\ Add(held[t])
  /\ held' = [held EXCEPT ![t] = Empty]
  /\ Goto(t, IF IsTop(held[t]) THEN "callback" ELSE "loop")
  /\ UNCHANGED <<dirVars, processed, scanVars, fpc, fname, cond, asleep, stopVars, delivered>>

RevertCallback(t) ==
  /\ Alive /\ wpc[t] = "callback"
  /\ cond = NoOne
  /\ asleep' = {}
  /\ Goto(t, "loop")
  /\ UNCHANGED <<dirVars, setVars, scanVars, fpc, fname, cond, held, stopVars, delivered,
                 faults>>

-----------------------------------------------------------------------------
(* FileThreadProcessor is deactivated: first the interrupter, then the pool, *)
(* which terminates the job.                                                 *)

Interrupt ==
  /\ Alive /\ active
  /\ active' = FALSE
  /\ UNCHANGED <<dirVars, setVars, scanVars, fpc, fname, cond, asleep, wpc, held, stopping,
                 aborted, delivered, faults>>

\* is_terminating() becomes true, and terminate() broadcasts under cond_.
Terminate ==
  /\ Alive /\ ~active /\ ~stopping
  /\ cond = NoOne
  /\ stopping' = TRUE
  /\ asleep' = {}
  /\ UNCHANGED <<dirVars, setVars, scanVars, fpc, fname, cond, wpc, held, active, aborted,
                 delivered, faults>>

Exited == \A t \in Threads : wpc[t] = "exited"

\* The process is started again after an orderly end or an abort, or it crashes.
Restart ==
  /\ faults < MaxFaults
  /\ faults' = faults + 1
  /\ files' = {} /\ oldest' = Mark /\ inProgress' = {} /\ processed' = {}
  /\ fetching' = FALSE /\ must' = {} /\ seen' = {} /\ entry' = Empty
  /\ fpc' = "idle" /\ fname' = Empty
  /\ cond' = NoOne /\ asleep' = {}
  /\ wpc' = [t \in Threads |-> "loop"] /\ held' = [t \in Threads |-> Empty]
  /\ active' = TRUE /\ stopping' = FALSE /\ aborted' = FALSE
  /\ UNCHANGED <<dirVars, delivered>>

-----------------------------------------------------------------------------

Fetch ==
  \/ \E f \in Names : FetchRegular(f) \/ FetchCommitted(f) \/ FetchOrphan(f)
  \/ FetchCallback \/ UnlinkCommit

Scan(t) ==
  \/ FetchIntermediate(t) \/ ReadEntry(t) \/ HandleEntry(t) \/ Interrupted(t)
  \/ FetchedIntermediate(t)

Work(t) ==
  \/ Loop(t) \/ GetEldest(t) \/ Scan(t) \/ GetScanned(t) \/ Sleep(t) \/ Wake(t)
  \/ Process(t) \/ FileProcessed(t) \/ RevertCallback(t)

Next ==
  \/ \E f \in Names : Deliver(f) \/ DeliverData(f) \/ DeliverCommit(f) \/ Redeliver(f)
  \/ Fetch
  \/ \E t \in Threads : Work(t) \/ Revert(t)
  \/ Interrupt \/ Terminate \/ Restart

Spec == Init /\ [][Next]_vars

\* The pool's threads and the periodic fetch run on; cond_ is handed to every
\* thread that keeps asking for it, and a stop that was begun is finished.
Fairness ==
  /\ \A t \in Threads : SF_vars(Work(t))
  /\ SF_vars(Fetch)
  /\ SF_vars(Terminate)

FairSpec == Spec /\ Fairness

-----------------------------------------------------------------------------
(* Properties *)

TypeOK ==
  /\ input \subseteq Names /\ data \subseteq Names /\ commit \subseteq Names
  /\ dir \subseteq Names /\ files \subseteq Names /\ delivered \subseteq Names
  /\ inProgress \subseteq Names /\ processed \subseteq Names
  /\ must \subseteq Names /\ seen \subseteq Names
  /\ oldest \in Names \cup {Empty, Mark}
  /\ entry \in Names \cup {Empty} /\ fname \in Names \cup {Empty}
  /\ fetching \in BOOLEAN /\ active \in BOOLEAN
  /\ stopping \in BOOLEAN /\ aborted \in BOOLEAN
  /\ fpc \in {"idle", "callback", "commit_callback", "unlink"}
  /\ cond \in Threads \cup {NoOne}
  /\ asleep \subseteq Threads
  /\ wpc \in [Threads -> {"loop", "get", "scan", "scanned", "nothing", "asleep",
                          "process", "release", "callback", "exited"}]
  /\ held \in [Threads -> Names \cup {Empty}]
  /\ Cardinality(files) <= MaxFiles

\* cond_ is held from the question for a file to its answer, so that one thread
\* at a time scans; what is remembered for the scan is forgotten with its end.
OneScan ==
  /\ \A t \in Threads : cond = t <=> wpc[t] \in {"get", "scan", "scanned", "nothing"}
  /\ fetching <=> \E t \in Threads : wpc[t] = "scan"
  /\ ~fetching => processed = {} /\ entry = Empty

\* A file that a thread works on is on disk, is nobody else's and is not on offer
\* to others, and what is on offer is on disk: also when the guard of a file is
\* dropped between the moment the scan reads its entry and the moment it is
\* handled.  The assertions of get_eldest_i_(), file_processed_() and revert_()
\* are part of it.
HeldOnce ==
  /\ \A t \in Threads : held[t] # Empty <=> wpc[t] \in {"process", "release"}
  /\ \A t \in Threads : held[t] # Empty => (held[t] \in dir <=> wpc[t] = "process")
  /\ \A t, u \in Threads : t # u /\ held[t] # Empty => held[t] # held[u]
  /\ inProgress = {held[t] : t \in Threads} \ {Empty}
  /\ files \subseteq dir \ inProgress

\* Entries the scan meets or has yet to meet are there, or it knows why they are not.
EntriesKnown ==
  fetching =>
    must \cup ({entry} \ {Empty}) \subseteq dir \cup inProgress \cup processed

\* A file of the intermediate directory is never forgotten: it is on offer, held,
\* not older than the eldest that is known to be missing, or the scan that runs
\* comes to it and will not take it for one that was processed meanwhile.
NoneForgotten ==
  \A f \in dir :
    \/ f \in files \cup inProgress
    \/ oldest # Empty /\ oldest <= f
    \/ fetching /\ f \notin processed /\ (f \in must \/ f = entry)

\* What a scan leaves out is not older than all it has kept: its thread need not
\* look again before it takes the eldest.
ScanKnowsEldest ==
  (\E t \in Threads : wpc[t] \in {"scan", "scanned"}) => EldestKnown

\* The directory and the names in memory agree: the parts above.
ReceiverInv ==
  TypeOK /\ OneScan /\ HeldOnce /\ EntriesKnown /\ NoneForgotten /\ ScanKnowsEldest

\* The file that is given out is the eldest of those nobody works on.
EldestFirst ==
  [][\A t \in Threads : wpc[t] \in {"get", "scanned"} /\ wpc'[t] = "process"
       => \A f \in dir \ inProgress : held'[t] <= f]_vars

\* While the server runs, a file that was delivered completely is processed.
EveryFileProcessed ==
  \A f \in Names : (f \in input \cup (data \cap commit) \cup dir)
    ~> (f \notin input \cup (data \cap commit) \cup dir \/ ~active)

\* The commit file of a file that was taken goes, at the latest after a restart.
CommitRemoved ==
  \A f \in Names : (f \in commit \ data) ~> (f \notin commit \/ ~active)

\* A stop ends all threads of the pool, unless the process has aborted.
StopReturns == ~active ~> (Exited \/ aborted \/ active)

\* Nothing is left waiting for ever: the parts above.
ReceiverLive == EveryFileProcessed /\ CommitRemoved /\ StopReturns

=============================================================================
