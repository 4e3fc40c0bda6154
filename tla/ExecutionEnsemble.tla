--------------------------- MODULE ExecutionEnsemble ---------------------------
(***************************************************************************)
(* run_ensemble (backtest/execution_ensemble.py): one study repeated over  *)
(* seeds and cost scenarios, each trial a child process, at most           *)
(* MaxParallel at a time; or one after another.  Results are judged in the *)
(* order of the plan, whatever the order the children end in; the first    *)
(* that succeeds fixes the inputs all others must have used.               *)
(*                                                                         *)
(* Meanwhile somebody may commit to the repository or store old ticks,     *)
(* press Ctrl-C (again, even), a checkpoint may fail to be written, or the *)
(* parent may be killed.                                                   *)
(*                                                                         *)
(* Bounds: the trials, one change of the repository and one of the data.   *)
(***************************************************************************)
EXTENDS Integers, FiniteSets, Sequences, SequencesExt

CONSTANTS
  Trials,        \* number of trials
  MaxParallel    \* --max-parallel

VARIABLES
  git, data,     \* the state of the repository and of the stored ticks
  pc,            \* of the parent
  parallel,      \* max_parallel > 1
  status,        \* of each trial: as the parent holds it,
  disk,          \* and as results.json says
  nextTrial, nextResult,
  thread,        \* of each trial: none, ready, waiting, done
  child,         \* none, alive, dead
  exit,          \* of a dead child: [code, git, data]
  started,       \* trials whose child was ever started
  returned,      \* trials whose return code the parent has
  gathered,      \* done futures still to be collected
  finished,      \* trial -> git state seen when it was collected
  baseline,      \* common inputs, or None
  stopping,      \* the stop flag of the threads
  interrupted

vars == <<git, data, pc, parallel, status, disk, nextTrial, nextResult, thread, child,
          exit, started, returned, gathered, finished, baseline, stopping, interrupted>>
world == <<git, data>>
children == <<child, exit, started>>
progress == <<nextTrial, nextResult, returned, gathered, finished, baseline>>

Trial == 1 .. Trials
None == -1
Failed == [code |-> 1, git |-> 0, data |-> 0]
Futures == {i \in Trial : thread[i] \in {"ready", "waiting", "done"}} \ returned
Working == {"fill", "submit", "wait", "gather", "order", "sequence", "start", "waiting"}

Init ==
  /\ git = 0 /\ data = 0
  /\ parallel \in BOOLEAN
  /\ pc = IF parallel THEN "fill" ELSE "sequence"
  /\ status = [i \in Trial |-> "planned"] /\ disk = status
  /\ nextTrial = 1 /\ nextResult = 1
  /\ thread = [i \in Trial |-> "none"]
  /\ child = [i \in Trial |-> "none"] /\ exit = [i \in Trial |-> Failed]
  /\ started = {} /\ returned = {} /\ gathered = {}
  /\ finished = <<>> /\ baseline = None
  /\ stopping = FALSE /\ interrupted = FALSE

-----------------------------------------------------------------------------
(* Around the parent *)

Commit ==
  /\ git = 0 /\ git' = 1
  /\ UNCHANGED <<data, pc, parallel, status, disk, thread, children, progress, stopping, interrupted>>

TicksStored ==
  /\ data = 0 /\ data' = 1
  /\ UNCHANGED <<git, pc, parallel, status, disk, thread, children, progress, stopping, interrupted>>

\* A child reads the repository when it starts, the ticks until it ends.
StartChild(i) ==
  /\ child' = [child EXCEPT ![i] = "alive"]
  /\ exit' = [exit EXCEPT ![i] = [code |-> 0, git |-> git, data |-> data]]
  /\ started' = started \cup {i}

ChildEnds(i, code) ==
  /\ child[i] = "alive"
  /\ child' = [child EXCEPT ![i] = "dead"]
  /\ exit' = [exit EXCEPT ![i] = [code |-> code, git |-> @.git, data |-> data]]
  /\ UNCHANGED <<world, pc, parallel, status, disk, started, thread, progress, stopping, interrupted>>

\* run_trial, in a thread of the pool, up to the wait: the lock makes it one step.
ThreadStarts(i) ==
  /\ thread[i] = "ready"
  /\ IF stopping
     THEN thread' = [thread EXCEPT ![i] = "done"] /\ UNCHANGED children
     ELSE thread' = [thread EXCEPT ![i] = "waiting"] /\ StartChild(i)
  /\ UNCHANGED <<world, pc, parallel, status, disk, progress, stopping, interrupted>>

\* The process cannot be started: the future holds an OSError.
ThreadFails(i) ==
  /\ thread[i] = "ready" /\ ~stopping
  /\ thread' = [thread EXCEPT ![i] = "done"]
  /\ UNCHANGED <<world, pc, parallel, status, disk, children, progress, stopping, interrupted>>

ThreadEnds(i) ==
  /\ thread[i] = "waiting" /\ child[i] = "dead"
  /\ thread' = [thread EXCEPT ![i] = "done"]
  /\ UNCHANGED <<world, pc, parallel, status, disk, children, progress, stopping, interrupted>>

-----------------------------------------------------------------------------
(* The parent, in parallel *)

\* The next trial is marked and checkpointed before anything of it starts.
Mark ==
  /\ pc = "fill" /\ nextResult <= Trials
  /\ Cardinality(Futures) < MaxParallel /\ nextTrial <= Trials
  /\ status' = [status EXCEPT ![nextTrial] = "running"] /\ disk' = status'
  /\ pc' = "submit"
  /\ UNCHANGED <<world, parallel, thread, children, progress, stopping, interrupted>>

\* finished[trial] = ...
Collected(i, seen) == [j \in DOMAIN finished \cup {i} |-> IF j = i THEN seen ELSE finished[j]]

Submit(ok) ==
  /\ pc = "submit" /\ pc' = "fill"
  /\ nextTrial' = nextTrial + 1
  /\ IF ok
     THEN thread' = [thread EXCEPT ![nextTrial] = "ready"] /\ UNCHANGED <<status, disk, finished>>
     ELSE /\ status' = [status EXCEPT ![nextTrial] = "failed"] /\ disk' = status'
          /\ finished' = Collected(nextTrial, None)
          /\ UNCHANGED thread
  /\ UNCHANGED <<world, parallel, children, nextResult, returned, gathered, baseline,
                 stopping, interrupted>>

Filled ==
  /\ pc = "fill"
  /\ Cardinality(Futures) >= MaxParallel \/ nextTrial > Trials \/ nextResult > Trials
  /\ pc' = CASE nextResult > Trials -> "finally"
             [] nextResult <= Trials /\ Futures = {} -> "order"
             [] OTHER -> "wait"
  /\ UNCHANGED <<world, parallel, status, disk, thread, children, progress, stopping, interrupted>>

\* wait(futures, FIRST_COMPLETED)
Wait ==
  /\ pc = "wait"
  /\ gathered' = {i \in Futures : thread[i] = "done"}
  /\ gathered' # {}
  /\ pc' = "gather"
  /\ UNCHANGED <<world, parallel, status, disk, thread, children, nextTrial, nextResult,
                 returned, finished, baseline, stopping, interrupted>>

\* One of the done futures: the state of the repository is taken here.
Gather(i) ==
  /\ pc = "gather" /\ i \in gathered
  /\ gathered' = gathered \ {i}
  /\ returned' = returned \cup {i}
  /\ status' = [status EXCEPT ![i] = IF i \in started THEN @ ELSE "failed"]
  /\ finished' = Collected(i, IF i \in started /\ exit[i].code = 0 THEN git ELSE None)
  /\ IF gathered' = {} THEN pc' = "order" /\ disk' = status' ELSE UNCHANGED <<pc, disk>>
  /\ UNCHANGED <<world, parallel, thread, children, nextTrial, nextResult, baseline,
                 stopping, interrupted>>

\* _validate_trial and the comparison of the repository.
Valid(i, seen) ==
  /\ exit[i].code = 0
  /\ exit[i].git = 0
  /\ baseline \in {None, exit[i].data}
  /\ seen = 0

Judged(i, seen) ==
  /\ status' = [status EXCEPT ![i] = IF Valid(i, seen) THEN "succeeded" ELSE "failed"]
  /\ baseline' = IF Valid(i, seen) THEN exit[i].data ELSE baseline
  /\ disk' = status'

\* Mutant: results are judged as they come in.
Due_AsTheyCome == DOMAIN finished \cap {i \in Trial : status[i] = "running"}
\* while next_result in finished
Due == {nextResult} \cap DOMAIN finished

Order(i) ==
  /\ pc = "order" /\ i \in Due
  /\ IF status[i] # "failed"
     THEN Judged(i, finished[i])
     ELSE disk' = status /\ UNCHANGED <<status, baseline>>
  /\ nextResult' = nextResult + 1
  /\ UNCHANGED <<world, pc, parallel, thread, children, nextTrial, returned, gathered,
                 finished, stopping, interrupted>>

Ordered ==
  /\ pc = "order" /\ Due = {}
  /\ pc' = IF nextResult > Trials THEN "finally" ELSE "fill"
  /\ UNCHANGED <<world, parallel, status, disk, thread, children, progress, stopping, interrupted>>

-----------------------------------------------------------------------------
(* The end of it: Ctrl-C, a checkpoint that cannot be written, or all done *)

Interrupt ==
  /\ pc \in Working \ {"sequence", "start", "waiting"}
  /\ pc' = "caught" /\ interrupted' = TRUE
  /\ UNCHANGED <<world, parallel, status, disk, thread, children, progress, stopping>>

\* _write_json raises, once it was tried six times.
CheckpointFails ==
  /\ pc \in {"submit", "gather", "order"}
  /\ pc' = "finally"
  /\ UNCHANGED <<world, parallel, status, disk, thread, children, progress, stopping, interrupted>>

Caught ==
  /\ pc = "caught" /\ pc' = "finally"     \* SIGINT is ignored from here on
  /\ UNCHANGED <<world, parallel, status, disk, thread, children, progress, stopping, interrupted>>

\* A second Ctrl-C before that: only the pool is waited for.
InterruptAgain ==
  /\ pc = "caught" /\ pc' = "leaving"
  /\ UNCHANGED <<world, parallel, status, disk, thread, children, progress, stopping, interrupted>>

\* Threads that have not taken the lock will not start a child.
Stop ==
  /\ pc = "finally" /\ pc' = "terminate"
  /\ stopping' = TRUE
  /\ status' = [i \in Trial |->
       IF ~interrupted \/ status[i] # "running" THEN status[i]
       ELSE IF i \in started \cup returned THEN "failed" ELSE "planned"]
  /\ UNCHANGED <<world, parallel, disk, thread, children, progress, interrupted>>

\* terminate, wait, kill; and the last checkpoint, which may fail.
Terminate(written) ==
  /\ pc = "terminate" /\ pc' = "leaving"
  /\ child' = [i \in Trial |-> IF child[i] = "alive" THEN "dead" ELSE child[i]]
  /\ exit' = [i \in Trial |-> IF child[i] = "alive" THEN Failed ELSE exit[i]]
  /\ disk' = IF written THEN status ELSE disk
  /\ UNCHANGED <<world, parallel, status, started, thread, progress, stopping, interrupted>>

\* The pool's exit waits for its threads.
Leave ==
  /\ pc = "leaving" /\ pc' = "ended"
  /\ \A i \in Trial : thread[i] \in {"none", "done"}
  /\ UNCHANGED <<world, parallel, status, disk, thread, children, progress, stopping, interrupted>>

\* The parent is killed: its job ends the children, or nothing does.
Killed(job) ==
  /\ pc \in Working \cup {"caught", "finally", "terminate", "leaving"}
  /\ pc' = "killed"
  /\ thread' = [i \in Trial |-> "none"]
  /\ child' = [i \in Trial |-> IF job /\ child[i] = "alive" THEN "dead" ELSE child[i]]
  /\ exit' = [i \in Trial |-> IF job /\ child[i] = "alive" THEN Failed ELSE exit[i]]
  /\ UNCHANGED <<world, parallel, status, disk, started, progress, stopping, interrupted>>

-----------------------------------------------------------------------------
(* One after another *)

Begin ==
  /\ pc = "sequence"
  /\ IF nextTrial > Trials
     THEN pc' = "ended" /\ disk' = status /\ UNCHANGED status
     ELSE /\ status' = [status EXCEPT ![nextTrial] = "running"] /\ disk' = status'
          /\ pc' = "start"
  /\ UNCHANGED <<world, parallel, thread, children, progress, stopping, interrupted>>

Launch(ok) ==
  /\ pc = "start"
  /\ IF ok
     THEN StartChild(nextTrial) /\ pc' = "waiting" /\ UNCHANGED <<status, disk, nextTrial>>
     ELSE /\ status' = [status EXCEPT ![nextTrial] = "failed"] /\ disk' = status'
          /\ nextTrial' = nextTrial + 1 /\ pc' = "sequence"
          /\ UNCHANGED children
  /\ UNCHANGED <<world, parallel, thread, nextResult, returned, gathered, finished, baseline,
                 stopping, interrupted>>

Reap ==
  /\ pc = "waiting" /\ child[nextTrial] = "dead"
  /\ Judged(nextTrial, git)
  /\ nextTrial' = nextTrial + 1 /\ pc' = "sequence"
  /\ UNCHANGED <<world, parallel, thread, children, nextResult, returned, gathered, finished,
                 stopping, interrupted>>

\* Ctrl-C: the child is killed and waited for.
InterruptSequence ==
  /\ pc \in {"start", "waiting"} /\ pc' = "ended"
  /\ interrupted' = TRUE
  /\ child' = [i \in Trial |-> IF child[i] = "alive" THEN "dead" ELSE child[i]]
  /\ exit' = [i \in Trial |-> IF child[i] = "alive" THEN Failed ELSE exit[i]]
  /\ status' = [status EXCEPT ![nextTrial] = "failed"] /\ disk' = status'
  /\ UNCHANGED <<world, parallel, started, thread, progress, stopping>>

Next ==
  \/ Commit \/ TicksStored
  \/ \E i \in Trial : \/ \E code \in {0, 1} : ChildEnds(i, code)
                      \/ ThreadStarts(i) \/ ThreadFails(i) \/ ThreadEnds(i)
                      \/ Gather(i) \/ Order(i)
  \/ Mark \/ Filled \/ Wait \/ Ordered
  \/ \E ok \in BOOLEAN : Submit(ok) \/ Launch(ok) \/ Terminate(ok) \/ Killed(ok)
  \/ Interrupt \/ InterruptAgain \/ CheckpointFails \/ Caught \/ Stop \/ Leave
  \/ Begin \/ Reap \/ InterruptSequence

Spec == Init /\ [][Next]_vars

-----------------------------------------------------------------------------
(* Properties *)

\* The trials that may count: they ended well, on the planned code.
Sound == {i \in started : exit[i].code = 0 /\ exit[i].git = 0}

\* Whatever the order the children end in and however the run ends, the trials that
\* succeeded used the same code and ticks, those of the first of them in the plan; a
\* sound trial in front of it was refused only for a commit made meanwhile; what the
\* results say is "planned" was never started; and an orderly end leaves no child
\* behind (execution_ensemble.py, the comments in run_ensemble).
EnsembleHonest ==
  LET succeeded == {i \in Trial : status[i] = "succeeded"}
  IN  /\ succeeded \subseteq Sound
      /\ \A i \in succeeded : exit[i].data = baseline
      /\ succeeded # {} /\ git = 0 =>
           \A i \in Sound : i < nextResult /\ (\A j \in succeeded : i < j) => exit[i].data = baseline
      /\ \A i \in Trial : /\ disk[i] = "planned" => i \notin started
                          /\ disk[i] = "succeeded" => i \in succeeded
      /\ pc = "ended" => \A i \in Trial : child[i] # "alive"
=============================================================================
