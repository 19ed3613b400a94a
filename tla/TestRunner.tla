----------------------------- MODULE TestRunner -----------------------------
(***************************************************************************)
(* The test runner (src/src/unit_test.c): tf_run executes the selected     *)
(* tests itself, or forks worker processes that take indices of tests from *)
(* a pipe.  A test passes by returning; a failed CHECK aborts the process  *)
(* that runs it.                                                           *)
(***************************************************************************)
EXTENDS Integers, Sequences

CONSTANTS
    Jobs,         \* the values of -jobs
    MaxArgs,      \* MAX_ARGS, how many targets the slots hold
    MaxTargets,   \* MAX_TARGETS, how many run_concurrent accepts
    ByteSize,     \* values of the unsigned char written to the pipe
    PipeCapacity  \* bytes the pipe buffers

ASSUME RunnerAssumption ==
    /\ Jobs \subseteq Nat
    /\ MaxArgs \in Nat \ {0} /\ ByteSize \in Nat \ {0} /\ PipeCapacity \in Nat \ {0}
    /\ MaxTargets \in 0 .. ByteSize-1

Parent  == 0
Workers == UNION {1 .. j : j \in Jobs}
Running == -1 \* tf_run has not returned
Killed  == -2 \* the parent died of a signal: SIGABRT or SIGPIPE

VARIABLES
    num_processes,
    size,     \* targets.size
    run_all,  \* no target was named: the tests without RNG run too
    pc,       \* what the parent is doing
    it,       \* its loop counter
    status,   \* the status it will return
    exit,     \* what became of it
    failed,   \* history: setup, teardown or a system call of the parent failed
    worker,   \* what each worker is doing
    idx,      \* the index it has read
    pipe,     \* bytes in the pipe
    readers,  \* processes with the read end open
    writers,  \* processes with the write end open
    started,  \* history: how often each slot was run
    passed    \* history: the slots that were run to the end

config  == <<num_processes, size, run_all>>
parent  == <<pc, it, status, exit, failed>>
ends    == <<readers, writers>>
tests   == <<started, passed>>
runnerVars == <<config, parent, worker, idx, pipe, ends, tests>>

Slots == 0 .. size-1

RunnerInit ==
    /\ num_processes \in Jobs
    /\ size \in 1 .. MaxArgs
    /\ run_all \in BOOLEAN
    /\ pc = "no_rng" /\ it = 0 /\ status = 0 /\ exit = Running /\ failed = FALSE
    /\ worker = [w \in Workers |-> "none"]
    /\ idx = [w \in Workers |-> 0]
    /\ pipe = <<>>
    /\ readers = {} /\ writers = {}
    /\ started = [t \in Slots |-> 0]
    /\ passed = {}

\* The parent ends; the system closes its descriptors.
Exit(how) ==
    /\ exit' = how
    /\ pc' = "gone"
    /\ readers' = readers \ {Parent}
    /\ writers' = writers \ {Parent}

Goto(label) == pc' = label /\ it' = 0

\* A worker ends when it sees the end of the pipe, cannot read, or aborts.
Gone(w) == worker[w] \in {"none", "exited", "gave_up", "aborted"}

-----------------------------------------------------------------------------
(* tf_run *)

\* The tests that run before the RNG is initialized.
NoRng ==
    /\ pc = "no_rng"
    /\ \/ Goto("setup") /\ UNCHANGED <<exit, ends>>
       \/ run_all /\ Exit(Killed) /\ UNCHANGED it
    /\ UNCHANGED <<config, status, failed, worker, idx, pipe, tests>>

\* fn_setup, then the choice between the two ways to run the tests.
Setup ==
    /\ pc = "setup"
    /\ \/ /\ IF num_processes <= 1
                THEN Goto("sequential") /\ UNCHANGED <<exit, failed, ends>>
                ELSE IF size > MaxTargets
                THEN Exit(1) /\ failed' = TRUE /\ UNCHANGED it
                ELSE Goto("pipe") /\ UNCHANGED <<exit, failed, ends>>
       \/ Exit(1) /\ failed' = TRUE /\ UNCHANGED it
    /\ UNCHANGED <<config, status, worker, idx, pipe, tests>>

\* run_sequential: one test.
RunNext ==
    /\ pc = "sequential" /\ it < size
    /\ started' = [started EXCEPT ![it] = @ + 1]
    /\ \/ passed' = passed \cup {it} /\ it' = it + 1 /\ UNCHANGED <<pc, exit, ends>>
       \/ Exit(Killed) /\ UNCHANGED <<passed, it>>
    /\ UNCHANGED <<config, status, failed, worker, idx, pipe>>

SequentialDone ==
    /\ pc = "sequential" /\ it = size
    /\ Goto("teardown")
    /\ UNCHANGED <<config, status, exit, failed, worker, idx, pipe, ends, tests>>

Teardown ==
    /\ pc = "teardown"
    /\ \/ Exit(status) /\ UNCHANGED failed
       \/ Exit(1) /\ failed' = TRUE
    /\ UNCHANGED <<config, it, status, worker, idx, pipe, tests>>

-----------------------------------------------------------------------------
(* run_concurrent, the parent *)

\* A system call of run_concurrent failed: it returns EXIT_FAILURE.
Fail ==
    /\ status' = 1 /\ failed' = TRUE
    /\ Goto("teardown")

Pipe ==
    /\ pc = "pipe"
    /\ \/ /\ Goto("fork")
          /\ readers' = {Parent} /\ writers' = {Parent}
          /\ UNCHANGED <<status, failed>>
       \/ Fail /\ UNCHANGED ends
    /\ UNCHANGED <<config, exit, worker, idx, pipe, tests>>

\* fork: the child inherits both ends.
Fork ==
    /\ pc = "fork" /\ it < num_processes
    /\ \/ /\ worker' = [worker EXCEPT ![it + 1] = "forked"]
          /\ readers' = readers \cup {it + 1}
          /\ writers' = writers \cup {it + 1}
          /\ it' = it + 1
          /\ UNCHANGED <<pc, status, failed>>
       \/ Fail /\ UNCHANGED <<worker, ends>>
    /\ UNCHANGED <<config, exit, idx, pipe, tests>>

CloseRead ==
    /\ pc = "fork" /\ it = num_processes
    /\ Goto("write")
    /\ readers' = readers \ {Parent}
    /\ UNCHANGED <<config, status, exit, failed, worker, idx, pipe, writers, tests>>

\* One write.  It blocks while the pipe is full; without a reader it is a SIGPIPE.
Write ==
    /\ pc = "write" /\ it < size
    /\ \/ /\ readers # {} /\ Len(pipe) < PipeCapacity
          /\ pipe' = Append(pipe, it % ByteSize)
          /\ it' = it + 1
          /\ UNCHANGED <<pc, exit, ends>>
       \/ /\ readers = {}
          /\ Exit(Killed)
          /\ UNCHANGED <<it, pipe>>
    /\ UNCHANGED <<config, status, failed, worker, idx, tests>>

\* write returned -1: the parent gives up while workers may be running.
WriteFails ==
    /\ pc = "write" /\ it < size
    /\ Fail
    /\ writers' = writers \ {Parent}
    /\ UNCHANGED <<config, exit, worker, idx, pipe, readers, tests>>

\* Mutant: the write end stays open.
CloseWrite_KeptOpen ==
    /\ pc = "write" /\ it = size
    /\ Goto("wait")
    /\ UNCHANGED <<config, status, exit, failed, worker, idx, pipe, ends, tests>>

CloseWrite ==
    /\ pc = "write" /\ it = size
    /\ Goto("wait")
    /\ writers' = writers \ {Parent}
    /\ UNCHANGED <<config, status, exit, failed, worker, idx, pipe, readers, tests>>

\* Mutant: only the last worker's status is kept.
Wait_LastStatus ==
    /\ pc = "wait" /\ it < num_processes
    /\ Gone(it + 1)
    /\ status' = IF worker[it + 1] = "aborted" THEN 1 ELSE 0
    /\ it' = it + 1
    /\ UNCHANGED <<config, pc, exit, failed, worker, idx, pipe, ends, tests>>

\* waitpid: one worker has ended, with status 0 or by a signal.
Wait ==
    /\ pc = "wait" /\ it < num_processes
    /\ Gone(it + 1)
    /\ status' = IF worker[it + 1] = "aborted" THEN 1 ELSE status
    /\ it' = it + 1
    /\ UNCHANGED <<config, pc, exit, failed, worker, idx, pipe, ends, tests>>

\* waitpid returned -1: the worker, which may be running, counts as failed.
WaitFails ==
    /\ pc = "wait" /\ it < num_processes
    /\ status' = 1 /\ failed' = TRUE
    /\ it' = it + 1
    /\ UNCHANGED <<config, pc, exit, worker, idx, pipe, ends, tests>>

WaitDone ==
    /\ pc = "wait" /\ it = num_processes
    /\ Goto("teardown")
    /\ UNCHANGED <<config, status, exit, failed, worker, idx, pipe, ends, tests>>

-----------------------------------------------------------------------------
(* run_concurrent, worker w *)

\* Children never write.
ChildClose(w) ==
    /\ worker[w] = "forked"
    /\ worker' = [worker EXCEPT ![w] = "reading"]
    /\ writers' = writers \ {w}
    /\ UNCHANGED <<config, parent, idx, pipe, readers, tests>>

\* read returned one byte: the worker starts that test.
Read(w) ==
    /\ worker[w] = "reading" /\ pipe # <<>>
    /\ idx' = [idx EXCEPT ![w] = Head(pipe)]
    /\ pipe' = Tail(pipe)
    /\ worker' = [worker EXCEPT ![w] = "running"]
    /\ started' = [started EXCEPT ![Head(pipe)] = @ + 1]
    /\ UNCHANGED <<config, parent, ends, passed>>

\* Mutant: an empty pipe is taken for the end.
Eof_WritersIgnored(w) ==
    /\ worker[w] = "reading" /\ pipe = <<>>
    /\ worker' = [worker EXCEPT ![w] = "exited"]
    /\ readers' = readers \ {w}
    /\ UNCHANGED <<config, parent, idx, pipe, writers, tests>>

\* read returned 0: the pipe is empty and nobody can write to it.
Eof(w) ==
    /\ worker[w] = "reading" /\ pipe = <<>> /\ writers = {}
    /\ worker' = [worker EXCEPT ![w] = "exited"]
    /\ readers' = readers \ {w}
    /\ UNCHANGED <<config, parent, idx, pipe, writers, tests>>

\* read returned -1, which ends the loop as the end of the pipe does: the worker
\* exits with EXIT_SUCCESS, whatever is in the pipe.
ReadFails(w) ==
    /\ worker[w] = "reading"
    /\ worker' = [worker EXCEPT ![w] = "gave_up"]
    /\ readers' = readers \ {w}
    /\ UNCHANGED <<config, parent, idx, pipe, writers, tests>>

TestPasses(w) ==
    /\ worker[w] = "running"
    /\ worker' = [worker EXCEPT ![w] = "reading"]
    /\ passed' = passed \cup {idx[w]}
    /\ UNCHANGED <<config, parent, idx, pipe, ends, started>>

TestAborts(w) ==
    /\ worker[w] = "running"
    /\ worker' = [worker EXCEPT ![w] = "aborted"]
    /\ readers' = readers \ {w}
    /\ UNCHANGED <<config, parent, idx, pipe, writers, tests>>

-----------------------------------------------------------------------------
ParentStep ==
    NoRng \/ Setup \/ RunNext \/ SequentialDone \/ Teardown
    \/ Pipe \/ Fork \/ CloseRead \/ Write \/ CloseWrite \/ Wait \/ WaitDone

WorkerStep(w) ==
    ChildClose(w) \/ Read(w) \/ Eof(w) \/ TestPasses(w) \/ TestAborts(w)

\* Calls that fail where they could also have waited for another process.
CallFails == WriteFails \/ WaitFails \/ \E w \in Workers : ReadFails(w)

\* tf_run has returned and no process is left.
Terminated ==
    /\ exit # Running /\ \A w \in Workers : Gone(w)
    /\ UNCHANGED runnerVars

RunnerNext ==
    ParentStep \/ (\E w \in Workers : WorkerStep(w)) \/ CallFails \/ Terminated

\* Every process is scheduled, and every test ends.  No failing call has to help
\* a process out of waiting.
Fairness == WF_runnerVars(ParentStep) /\ \A w \in Workers : WF_runnerVars(WorkerStep(w))

RunnerSpec == RunnerInit /\ [][RunnerNext]_runnerVars /\ Fairness

-----------------------------------------------------------------------------
(***************************************************************************)
(* What the exit status of tf_run tells.  If all tests passed and no call  *)
(* of the parent failed it is 0.  If it is 0, no call of the parent failed *)
(* and no process is left; every test that was started has passed, so that *)
(* no crash is ever hidden; and a test that was not started is one that    *)
(* every single worker failed to read.                                     *)
(***************************************************************************)
StatusHonest ==
    /\ exit # Running /\ passed = Slots /\ ~failed => exit = 0
    /\ exit = 0 =>
          /\ ~failed /\ \A w \in Workers : Gone(w)
          /\ \A t \in Slots : started[t] = 1 => t \in passed
          /\ passed = Slots \/ \A w \in 1 .. num_processes : worker[w] = "gave_up"

(***************************************************************************)
(* unit_test.h: "Returns: EXIT_SUCCESS (0) if all tests passed,            *)
(* EXIT_FAILURE (non-zero) otherwise."  The code takes a read that fails   *)
(* for the end of the pipe, so this does not hold.                         *)
(***************************************************************************)
SuccessMeansPassed == exit = 0 => passed = Slots

(***************************************************************************)
(* A worker that aborts or cannot read takes no test with it but the one   *)
(* it runs.  Once the parent has written all indices, and as long as one   *)
(* worker got to the end of the pipe, every test was started; and none is  *)
(* ever started twice.                                                     *)
(***************************************************************************)
CrashIsContained ==
    /\ \A t \in Slots : started[t] <= 1
    /\ /\ pc = "wait" \/ (pc \in {"teardown", "gone"} /\ ~failed)
       /\ \E w \in Workers : worker[w] = "exited"
       => \A t \in Slots : started[t] = 1

(***************************************************************************)
(* tf_run returns and no process is left, whichever calls fail and         *)
(* whichever tests abort: nobody waits for a byte, for room in the pipe or *)
(* for a process for ever.                                                 *)
(***************************************************************************)
Ends == <>[](exit # Running /\ \A w \in Workers : Gone(w))
=============================================================================
