----------------------------- MODULE RecordLoader -----------------------------
(***************************************************************************)
(* RequestLogLoader's LogRecordFetcher (ExpressionMatcherLogLoader has the *)
(* same loop): the records of a log file are processed concurrently        *)
(* through an OrderedAsyncTaskWindow.  How far the file was processed is   *)
(* kept in its name (processed_lines_count) when the loader is stopped or  *)
(* fails, so that the next pass goes on from there.  A file that was       *)
(* processed to the end is deleted.  The process may crash at any moment.  *)
(***************************************************************************)
EXTENDS OrderedAsyncTaskWindow

VARIABLES place,      \* the file: "intermediate", "error" or "deleted"
          nameLines,  \* processed_lines_count in the file's name
          lines,      \* name_info.processed_lines_count of the running pass
          sequence,   \* the record the loop is at
          stopped,    \* the interrupter is not active
          terminated, \* the loop was left because of it
          pc,
          processed   \* the records that were ever processed (history)

loaderVars == <<place, nameLines, lines, sequence, stopped, terminated, pc, processed>>

vars == <<windowVars, loaderVars>>

Init ==
  /\ WindowInit
  /\ place = "intermediate"
  /\ nameLines = 0
  /\ lines = 0
  /\ sequence = 0
  /\ stopped = FALSE
  /\ terminated = FALSE
  /\ pc = "idle"
  /\ processed = {}

\* process(): the name is parsed and process_file_() builds the window.
OpenFile ==
  /\ pc = "idle" /\ place = "intermediate" /\ ~stopped
  /\ FreshWindow(nameLines)
  /\ lines' = nameLines
  /\ sequence' = nameLines
  /\ terminated' = FALSE
  /\ pc' = "loop"
  /\ UNCHANGED <<place, nameLines, stopped, processed>>

\* The file cannot be loaded; no window is built.
LoadFails ==
  /\ pc = "idle" /\ place = "intermediate" /\ ~stopped
  /\ place' = "error"
  /\ UNCHANGED <<windowVars, nameLines, lines, sequence, stopped, terminated, pc, processed>>

\* Mutant: the end of the file is noticed one record too late.
LoopHeadPastEnd ==
  /\ pc = "loop"
  /\ terminated' = (sequence <= Sequences /\ stopped)
  /\ pc' = IF sequence > Sequences \/ stopped THEN "draining" ELSE "admit"
  /\ UNCHANGED <<windowVars, place, nameLines, lines, sequence, stopped, processed>>

\* The head of the loop: the end of the file, or a stopped loader, ends it.
LoopHead ==
  /\ pc = "loop"
  /\ terminated' = (sequence < Sequences /\ stopped)
  /\ pc' = IF sequence = Sequences \/ stopped THEN "draining" ELSE "admit"
  /\ UNCHANGED <<windowVars, place, nameLines, lines, sequence, stopped, processed>>

\* Mutant: one task too many is let into the window.
StartRecordOverfull ==
  /\ pc = "admit"
  /\ started - committed <= WindowSize
  /\ Start(sequence)
  /\ sequence' = sequence + 1
  /\ pc' = "loop"
  /\ UNCHANGED <<place, nameLines, lines, stopped, terminated, processed>>

StartRecord ==
  /\ pc = "admit"
  /\ ~Full
  /\ Start(sequence)
  /\ sequence' = sequence + 1
  /\ pc' = "loop"
  /\ UNCHANGED <<place, nameLines, lines, stopped, terminated, processed>>

AwaitRoom ==
  /\ pc = "admit"
  /\ Full
  /\ pc' = "waiting"
  /\ UNCHANGED <<windowVars, place, nameLines, lines, sequence, stopped, terminated,
                 processed>>

\* What the client waits for: wait_progress() (its second wait is "failing"),
\* drain(), and the window's destructor when an exception leaves the function.
Awaited ==
  CASE pc = "waiting"                              -> Progressed
    [] pc \in {"failing", "draining", "unwinding"} -> NoneInFlight
    [] OTHER                                       -> TRUE

ClientSleeps ==
  /\ ~asleep /\ ~Awaited
  /\ Sleep
  /\ UNCHANGED loaderVars

WaitForOthers ==
  /\ pc = "waiting" /\ ~asleep
  /\ Progressed /\ failed /\ ~NoneInFlight
  /\ pc' = "failing"
  /\ UNCHANGED <<windowVars, place, nameLines, lines, sequence, stopped, terminated,
                 processed>>

\* wait_progress() returns and commit_completed() takes what it returns.
CommitProgress ==
  /\ pc \in {"waiting", "failing"} /\ ~asleep
  /\ Awaited
  /\ failed => NoneInFlight
  /\ ResetProgress
  /\ lines' = committed
  /\ pc' = "rethrow"
  /\ UNCHANGED <<place, nameLines, sequence, stopped, terminated, processed>>

\* Mutant: what ended since the last wait_progress() is not taken over.
CommitNothing ==
  /\ pc = "draining" /\ ~asleep
  /\ NoneInFlight
  /\ pc' = "rethrow_last"
  /\ UNCHANGED <<windowVars, place, nameLines, lines, sequence, stopped, terminated,
                 processed>>

CommitDrained ==
  /\ pc = "draining" /\ ~asleep
  /\ NoneInFlight
  /\ lines' = committed
  /\ pc' = "rethrow_last"
  /\ UNCHANGED <<windowVars, place, nameLines, sequence, stopped, terminated, processed>>

\* Mutant: what failed is forgotten.
RethrowNothing ==
  /\ pc \in {"rethrow", "rethrow_last"}
  /\ pc' = IF pc = "rethrow" THEN "admit" ELSE "finished"
  /\ UNCHANGED <<windowVars, place, nameLines, lines, sequence, stopped, terminated,
                 processed>>

RethrowException ==
  /\ pc \in {"rethrow", "rethrow_last"}
  /\ IF exception = "none"
       THEN /\ pc' = IF pc = "rethrow" THEN "admit" ELSE "finished"
            /\ UNCHANGED windowVars
       ELSE /\ pc' = "unwinding"
            /\ TakeException
  /\ UNCHANGED <<place, nameLines, lines, sequence, stopped, terminated, processed>>

DestroyWindow ==
  /\ pc = "unwinding" /\ ~asleep
  /\ NoneInFlight
  /\ pc' = "failed"
  /\ UNCHANGED <<windowVars, place, nameLines, lines, sequence, stopped, terminated,
                 processed>>

\* process() disposes of the file: deleted, renamed with the new count, or
\* renamed with it into the error folder.
DisposeFile ==
  /\ pc \in {"finished", "failed"}
  /\ place' = CASE pc = "failed" -> "error"
                [] terminated    -> "intermediate"
                [] OTHER         -> "deleted"
  /\ nameLines' = lines
  /\ pc' = "idle"
  /\ UNCHANGED <<windowVars, lines, sequence, stopped, terminated, processed>>

\* unlink(), rename() or the move into the error folder fails, which is logged:
\* the file stays as it is, for another pass.
DisposeFails ==
  /\ pc \in {"finished", "failed"}
  /\ pc' = "idle"
  /\ UNCHANGED <<windowVars, place, nameLines, lines, sequence, stopped, terminated,
                 processed>>

\* A task ends; a record whose task ended well is processed.
RecordProcessed(s) ==
  /\ TaskSucceeds(s)
  /\ processed' = processed \cup {s}
  /\ UNCHANGED <<place, nameLines, lines, sequence, stopped, terminated, pc>>

RecordFails(s) ==
  /\ TaskFails(s)
  /\ UNCHANGED loaderVars

(* The surroundings *)

Deactivate ==
  /\ ~stopped
  /\ stopped' = TRUE
  /\ UNCHANGED <<windowVars, place, nameLines, lines, sequence, terminated, pc, processed>>

\* The process ends, orderly or not, and is started again.  What was in memory
\* is gone; the file is where it was, with the name it had.
Restart ==
  /\ FreshWindow(0)
  /\ lines' = 0 /\ sequence' = 0 /\ stopped' = FALSE /\ terminated' = FALSE
  /\ pc' = "idle"
  /\ UNCHANGED <<place, nameLines, processed>>

\* Somebody moves the file back from the error folder.
Resubmit ==
  /\ place = "error" /\ pc = "idle"
  /\ place' = "intermediate"
  /\ UNCHANGED <<windowVars, nameLines, lines, sequence, stopped, terminated, pc, processed>>

-----------------------------------------------------------------------------

Loader ==
  \/ LoopHead \/ StartRecord \/ AwaitRoom \/ ClientSleeps \/ WaitForOthers
  \/ CommitProgress \/ CommitDrained \/ RethrowException \/ DestroyWindow
  \/ DisposeFile \/ DisposeFails

Next ==
  \/ OpenFile \/ LoadFails \/ Loader
  \/ \E s \in Tasks : RecordProcessed(s) \/ RecordFails(s)
  \/ Deactivate \/ Restart \/ Resubmit

Spec == Init /\ [][Next]_vars

\* The loader's thread runs on and every task that was started ends.
Fairness ==
  /\ WF_vars(Loader)
  /\ \A s \in Tasks : WF_vars(RecordProcessed(s) \/ RecordFails(s))

FairSpec == Spec /\ Fairness

-----------------------------------------------------------------------------
(* Properties *)

Pcs == {"idle", "loop", "admit", "waiting", "failing", "rethrow", "draining",
        "rethrow_last", "unwinding", "finished", "failed"}

TypeOK ==
  /\ completed \in [Slots -> BOOLEAN]
  /\ committed \in Nat /\ started \in Nat /\ inFlight \in Nat /\ sinceWait \in Nat
  /\ failed \in BOOLEAN /\ asleep \in BOOLEAN
  /\ stopped \in BOOLEAN /\ terminated \in BOOLEAN
  /\ exception \in {"none", "set", "taken"}
  /\ task \in [Tasks -> {"none", "running", "ok", "failed"}]
  /\ place \in {"intermediate", "error", "deleted"}
  /\ nameLines \in 0 .. Sequences /\ lines \in 0 .. Sequences /\ sequence \in 0 .. Sequences
  /\ pc \in Pcs
  /\ processed \subseteq Tasks

Uncommitted == committed .. started - 1

\* The ring tells the truth: a slot is set exactly when a task that is started
\* and not committed has ended well, no two such tasks share a slot, and the
\* oldest of them has not ended well.
RingInv ==
  /\ committed <= started /\ started <= Sequences
  /\ started - committed <= WindowSize
  /\ \A i \in Slots :
       completed[i] <=> \E s \in Uncommitted : s % WindowSize = i /\ task[s] = "ok"
  /\ committed < started => task[committed] # "ok"

\* Nothing below a committed count was skipped: neither below the window's, nor
\* below the one the pass has taken over, nor below the one in the file's name,
\* which all that comes after relies on.
CommittedPrefix ==
  \A s \in Tasks :
    s < nameLines \/ s < lines \/ (pc # "idle" /\ s < committed) => s \in processed

\* A file is deleted only when every record of it was processed, whatever failed,
\* however often the loader was stopped, and wherever it crashed.
NoRecordLost == place = "deleted" => processed = Tasks

\* A pass that is stopped and met no failure takes over everything it started:
\* the next pass does not process a record for the second time.
OrderlyStop == pc = "finished" /\ ~failed => lines = sequence

(* The inductive invariant behind the four properties above *)

Running == {s \in Tasks : task[s] = "running"}

TaskInv ==
  /\ inFlight = Cardinality(Running)
  /\ Running \subseteq Uncommitted
  /\ \A s \in Tasks : s >= started => task[s] = "none"
  /\ \A s \in Uncommitted : task[s] # "none"
  /\ \A s \in Tasks : task[s] = "ok" => s \in processed
  /\ \A s \in Tasks : task[s] = "failed" => failed
  /\ failed <=> exception # "none"

PassInv ==
  /\ pc # "idle" => started = sequence /\ lines <= committed
  /\ pc \in {"admit", "waiting", "failing", "rethrow"} => sequence < Sequences
  /\ pc \in {"idle", "rethrow_last", "finished", "failed"} => Running = {}
  /\ pc \in {"draining", "rethrow_last", "finished"} /\ ~terminated => sequence = Sequences
  /\ pc \in {"rethrow_last", "finished"} => lines = committed
  /\ pc = "finished" => ~failed

LoaderInv ==
  TypeOK /\ RingInv /\ TaskInv /\ PassInv /\ CommittedPrefix /\ NoRecordLost

\* A pass over the file ends.
PassEnds == pc = "loop" ~> pc = "idle"

=============================================================================
