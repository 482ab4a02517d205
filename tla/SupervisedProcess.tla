-------------------------- MODULE SupervisedProcess --------------------------
(***************************************************************************)
(* Native process supervision (platform_runtime/windows/process.py): one   *)
(* call of run or run_appcontainer, the threads that drain and feed the    *)
(* child's pipes, the child and a process it starts.  The child is created *)
(* suspended, put in a kill-on-close job, resumed, waited for with a time  *)
(* limit, and its output is kept under one budget.                         *)
(***************************************************************************)
EXTENDS Naturals, FiniteSets, Sequences, FiniteSetsExt

CONSTANTS
    Budget,     \* chunks of output kept, stdout and stderr together
    PipeCap,    \* chunks a pipe holds
    Input,      \* chunks of the input payload; 0: no input pipe
    Descendant, \* whether the child may start a process
    MaxWrites,  \* chunks each process may write to each stream
    MaxFaults   \* native calls that fail

\* What the constants are.
SupervisionAssumption ==
    /\ Budget \in Nat /\ Input \in Nat /\ MaxWrites \in Nat /\ MaxFaults \in Nat
    /\ PipeCap \in Nat \ {0} /\ Descendant \in BOOLEAN

Procs == {"root", "kid"}
Streams == {"out", "err"}
WriteHandle == [out |-> "out_w", err |-> "err_w"]
ReadHandle == [out |-> "out_r", err |-> "err_r"]

VARIABLES
    os,       \* process -> "none", "suspended", "running", "dying" or "gone"
    job,      \* processes in the job object
    pipe,     \* stream -> chunks in the pipe, each named by who wrote it
    inpipe,   \* chunks in the input pipe
    handles,  \* handles the supervising process holds
    pc,       \* the supervisor's step
    flags,    \* process_created, process_finished, timed_out
    reader,   \* stream -> state of its draining thread
    feeder,   \* the input thread: state and chunks left
    budget,   \* _OutputBudget
    wrote,    \* observation: process -> stream -> chunks written
    result,   \* what the call returned
    faults

supervisionVars == <<os, job, pipe, inpipe, handles, pc, flags, reader, feeder, budget, wrote, result, faults>>
childVars == <<os, job, pipe, inpipe, wrote>>
threadVars == <<reader, feeder, budget>>

Alive(p) == os[p] \in {"suspended", "running", "dying"}
WriteEndOpen(s) == WriteHandle[s] \in handles \/ \E p \in Procs : Alive(p)
InputReadEndOpen == "in_r" \in handles \/ \E p \in Procs : Alive(p)

NoFlags == [created |-> FALSE, finished |-> FALSE, timedOut |-> FALSE]
NoResult == [reason |-> "none", out |-> <<>>, err |-> <<>>, truncated |-> FALSE]
Raised == [NoResult EXCEPT !.reason = "raised"]

SupervisionInit ==
    /\ os = [p \in Procs |-> "none"] /\ job = {}
    /\ pipe = [s \in Streams |-> <<>>] /\ inpipe = 0
    /\ handles = {} /\ pc = "job" /\ flags = NoFlags
    /\ reader = [s \in Streams |-> "idle"]
    /\ feeder = [state |-> "idle", left |-> Input, failed |-> FALSE]
    /\ budget = [remaining |-> Budget, out |-> <<>>, err |-> <<>>, truncated |-> FALSE, failed |-> FALSE]
    /\ wrote = [p \in Procs |-> [s \in Streams |-> 0]]
    /\ result = NoResult /\ faults = 0

-----------------------------------------------------------------------------
(* The child, and the process it starts.                                   *)

Write(p, s) ==
    /\ os[p] = "running" /\ wrote[p][s] < MaxWrites
    /\ Len(pipe[s]) < PipeCap
    /\ wrote' = [wrote EXCEPT ![p][s] = @ + 1]
    /\ pipe' = [pipe EXCEPT ![s] = IF ReadHandle[s] \in handles THEN Append(@, p) ELSE @]
    /\ UNCHANGED <<os, job, inpipe, handles, pc, flags, threadVars, result, faults>>

ReadInput(p) ==
    /\ os[p] = "running" /\ inpipe > 0
    /\ inpipe' = inpipe - 1
    /\ UNCHANGED <<os, job, pipe, wrote, handles, pc, flags, threadVars, result, faults>>

Spawn ==
    /\ Descendant /\ os["root"] = "running" /\ os["kid"] = "none"
    /\ os' = [os EXCEPT !["kid"] = "running"]
    /\ job' = IF "root" \in job THEN job \cup {"kid"} ELSE job
    /\ UNCHANGED <<pipe, inpipe, wrote, handles, pc, flags, threadVars, result, faults>>

Exit(p) ==
    /\ os[p] = "running"
    /\ os' = [os EXCEPT ![p] = "dying"]
    /\ UNCHANGED <<job, pipe, inpipe, wrote, handles, pc, flags, threadVars, result, faults>>

(* The kernel closes the handles of a process that ended.                  *)
Reap(p) ==
    /\ os[p] = "dying"
    /\ os' = [os EXCEPT ![p] = "gone"]
    /\ UNCHANGED <<job, pipe, inpipe, wrote, handles, pc, flags, threadVars, result, faults>>

Killed(ps) == [p \in Procs |-> IF p \in ps /\ os[p] \in {"suspended", "running"} THEN "dying" ELSE os[p]]

-----------------------------------------------------------------------------
(* The threads.                                                            *)

(* _OutputBudget.add: what fits the shared rest is kept.                   *)
Add(s, chunk) ==
    IF budget.remaining > 0
    THEN [budget EXCEPT ![s] = Append(@, chunk), !.remaining = @ - 1]
    ELSE [budget EXCEPT !.truncated = TRUE]

ThreadEnds(s) ==
    /\ reader' = [reader EXCEPT ![s] = "done"]
    /\ handles' = handles \ {ReadHandle[s]}

(* _drain_pipe: also a chunk that will not be kept is taken.               *)
Drain(s) ==
    /\ reader[s] = "reading" /\ pipe[s] # <<>>
    /\ budget' = Add(s, Head(pipe[s]))
    /\ pipe' = [pipe EXCEPT ![s] = Tail(@)]
    /\ UNCHANGED <<os, job, inpipe, wrote, handles, pc, flags, reader, feeder, result, faults>>
DrainEnds(s) ==
    /\ reader[s] = "reading" /\ pipe[s] = <<>> /\ ~WriteEndOpen(s)
    /\ ThreadEnds(s)
    /\ UNCHANGED <<childVars, pc, flags, feeder, budget, result, faults>>
DrainFails(s) ==
    /\ reader[s] = "reading" /\ faults < MaxFaults
    /\ faults' = faults + 1
    /\ budget' = [budget EXCEPT !.failed = TRUE]
    /\ ThreadEnds(s)
    /\ UNCHANGED <<childVars, pc, flags, feeder, result>>

(* _write_pipe: a broken pipe ends it quietly, another error is noted.     *)
Feed ==
    /\ feeder.state = "writing" /\ feeder.left > 0 /\ inpipe < PipeCap /\ InputReadEndOpen
    /\ inpipe' = inpipe + 1
    /\ feeder' = [feeder EXCEPT !.left = @ - 1]
    /\ UNCHANGED <<os, job, pipe, wrote, handles, pc, flags, reader, budget, result, faults>>
FeedEnds ==
    /\ feeder.state = "writing"
    /\ \/ /\ feeder.left = 0 \/ ~InputReadEndOpen
          /\ feeder' = [feeder EXCEPT !.state = "done"] /\ UNCHANGED faults
       \/ /\ feeder.left > 0 /\ faults < MaxFaults
          /\ faults' = faults + 1
          /\ feeder' = [feeder EXCEPT !.state = "done", !.failed = TRUE]
    /\ handles' = handles \ {"in_w"}
    /\ UNCHANGED <<childVars, pc, flags, reader, budget, result>>

-----------------------------------------------------------------------------
(* The call.                                                               *)

Native(next) == pc' = next /\ UNCHANGED faults
NativeFails(next) == faults < MaxFaults /\ faults' = faults + 1 /\ pc' = next

\* A failure before the try block leaves what was opened so far.
Open(step, new, next) ==
    /\ pc = step
    /\ \/ Native(next) /\ handles' = handles \cup new /\ UNCHANGED result
       \/ NativeFails("ended") /\ result' = Raised /\ UNCHANGED handles
    /\ UNCHANGED <<childVars, flags, threadVars>>

CreateJob == Open("job", {"job"}, "stdin")
OpenInput == Open("stdin", IF Input > 0 THEN {"in_r", "in_w"} ELSE {"in_r"}, "out")
CreatePipe(s) == Open(s, {ReadHandle[s], WriteHandle[s]}, IF s = "out" THEN "err" ELSE "create")

\* Faulty variant: the child runs as soon as it exists.
FirstState(p) == "running"
(* CREATE_SUSPENDED. *)
CreatedState(p) == "suspended"
CreateProcess ==
    /\ pc = "create"
    /\ \/ /\ Native("assign")
          /\ os' = [os EXCEPT !["root"] = CreatedState("root")]
          /\ handles' = handles \cup {"process", "thread"}
          /\ flags' = [flags EXCEPT !.created = TRUE]
       \/ NativeFails("cleanup") /\ UNCHANGED <<os, handles, flags>>
    /\ UNCHANGED <<job, pipe, inpipe, wrote, threadVars, result>>

AssignToJob ==
    /\ pc = "assign"
    /\ \/ Native("resume") /\ job' = job \cup {"root"}
       \/ NativeFails("cleanup") /\ UNCHANGED job
    /\ UNCHANGED <<os, pipe, inpipe, wrote, handles, flags, threadVars, result>>

Resume ==
    /\ pc = "resume"
    /\ \/ /\ Native("threads")
          /\ os' = [os EXCEPT !["root"] = IF @ = "suspended" THEN "running" ELSE @]
          /\ handles' = handles \ {"thread", "in_r", "out_w", "err_w"}
       \/ NativeFails("cleanup") /\ UNCHANGED <<os, handles>>
    /\ UNCHANGED <<job, pipe, inpipe, wrote, flags, threadVars, result>>

StartThreads ==
    /\ pc = "threads"
    /\ reader' = [s \in Streams |-> "reading"]
    /\ feeder' = [feeder EXCEPT !.state = IF Input > 0 THEN "writing" ELSE @]
    /\ pc' = "wait"
    /\ UNCHANGED <<childVars, handles, flags, budget, result, faults>>

Wait ==
    /\ pc = "wait"
    /\ \/ /\ os["root"] = "gone" /\ Native("join")
          /\ flags' = [flags EXCEPT !.finished = TRUE]
       \/ os["root"] # "gone" /\ Native("terminate") /\ flags' = [flags EXCEPT !.timedOut = TRUE]
       \/ NativeFails("cleanup") /\ UNCHANGED flags
    /\ UNCHANGED <<childVars, handles, threadVars, result>>

(* The time limit: the whole job ends, the root is waited for.             *)
Terminate ==
    /\ pc = "terminate"
    /\ \/ Native("reap") /\ os' = Killed(job)
       \/ NativeFails("cleanup") /\ UNCHANGED os
    /\ UNCHANGED <<job, pipe, inpipe, wrote, handles, flags, threadVars, result>>
AwaitRoot ==
    /\ pc = "reap"
    /\ \/ os["root"] = "gone" /\ Native("join") /\ flags' = [flags EXCEPT !.finished = TRUE]
       \/ os["root"] # "gone" /\ NativeFails("cleanup") /\ UNCHANGED flags
    /\ UNCHANGED <<childVars, handles, threadVars, result>>

Drained == \A s \in Streams : reader[s] = "done"
Fed == feeder.state # "writing"

(* The joins, each with a limit of 30 s: a thread that is still alive      *)
(* (somebody holds the pipe) or failed input is an error.                  *)
Join ==
    /\ pc = "join"
    /\ \/ Drained /\ Fed /\ ~feeder.failed /\ pc' = "result"
       \/ (~Drained \/ ~Fed \/ feeder.failed) /\ pc' = "cleanup"
    /\ UNCHANGED <<childVars, handles, flags, threadVars, result, faults>>

(* The exit status, asked only of a child that ended by itself, and        *)
(* budget.result.                                                          *)
Return ==
    /\ pc = "result"
    /\ \/ /\ Native("cleanup")
          /\ result' = IF budget.failed THEN Raised
                       ELSE [reason |-> IF flags.timedOut THEN "timed_out" ELSE "exited",
                             out |-> budget.out, err |-> budget.err, truncated |-> budget.truncated]
       \/ ~flags.timedOut /\ NativeFails("cleanup") /\ result' = Raised
    /\ UNCHANGED <<childVars, handles, flags, threadVars>>

(* The finally block: an unfinished root is ended and waited for at most   *)
(* 30 s ...                                                                *)
Cleanup ==
    /\ pc = "cleanup" /\ pc' = "close"
    /\ os' = IF flags.created /\ ~flags.finished THEN Killed({"root"}) ELSE os
    /\ result' = IF result.reason = "none" THEN Raised ELSE result
    /\ UNCHANGED <<job, pipe, inpipe, wrote, handles, flags, threadVars, faults>>

(* ... handles the threads do not own are closed ...                       *)
OwnedByThreads == IF reader["out"] = "idle" THEN {} ELSE {"out_r", "err_r", "in_w"}

(* ... and the last handle of the job ends what is still in it.            *)
KilledOnJobClose == Killed(job)
CloseHandles ==
    /\ pc = "close" /\ pc' = "ended"
    /\ handles' = handles \cap OwnedByThreads
    /\ os' = KilledOnJobClose
    /\ UNCHANGED <<job, pipe, inpipe, wrote, flags, threadVars, result, faults>>

(* The supervising process is killed: its handles close, its threads end.  *)
SupervisorKilled ==
    /\ pc \notin {"ended", "killed"} /\ pc' = "killed"
    /\ handles' = {}
    /\ os' = IF "job" \in handles THEN KilledOnJobClose ELSE os
    /\ reader' = [s \in Streams |-> "done"]
    /\ feeder' = [feeder EXCEPT !.state = "done"]
    /\ UNCHANGED <<job, pipe, inpipe, wrote, flags, budget, result, faults>>

CallStep ==
    \/ CreateJob \/ OpenInput \/ \E s \in Streams : CreatePipe(s)
    \/ CreateProcess \/ AssignToJob \/ Resume \/ StartThreads
    \/ Wait \/ Terminate \/ AwaitRoot \/ Join \/ Return \/ Cleanup \/ CloseHandles
ReaderStep(s) == Drain(s) \/ DrainEnds(s) \/ DrainFails(s)
FeederStep == Feed \/ FeedEnds
ChildStep(p) == ReadInput(p) \/ Exit(p) \/ \E s \in Streams : Write(p, s)

SupervisionNext ==
    \/ CallStep \/ FeederStep \/ Spawn \/ SupervisorKilled
    \/ \E s \in Streams : ReaderStep(s)
    \/ \E p \in Procs : ChildStep(p) \/ Reap(p)

SupervisionSpec == SupervisionInit /\ [][SupervisionNext]_supervisionVars

(* The supervisor's threads and the kernel go on; the children owe nothing.*)
FairSupervisionSpec ==
    /\ SupervisionSpec
    /\ WF_supervisionVars(CallStep) /\ WF_supervisionVars(FeederStep)
    /\ \A s \in Streams : WF_supervisionVars(ReaderStep(s))
    /\ \A p \in Procs : WF_supervisionVars(Reap(p))

-----------------------------------------------------------------------------
(* Types; stdout and stderr share one exact budget.                        *)
SupervisionTypeOK ==
    /\ os \in [Procs -> {"none", "suspended", "running", "dying", "gone"}]
    /\ job \subseteq Procs /\ inpipe \in 0..PipeCap
    /\ \A s \in Streams : Len(pipe[s]) <= PipeCap
    /\ result.reason \in {"none", "raised", "exited", "timed_out"}
    /\ budget.remaining + Len(budget.out) + Len(budget.err) = Budget

(* No process runs code outside the job object, at whatever call the       *)
(* launch fails or the supervisor is killed.                               *)
NothingRunsUnsupervised == \A p \in Procs : os[p] = "running" => p \in job

(* Once the call has returned or raised, or the supervisor is dead, no     *)
(* process of the tree runs on, also one the child left behind.            *)
TreeIsGone == pc \in {"ended", "killed"} => \A p \in Procs : os[p] # "running"

(* A result carries all that the tree wrote, or says that it was cut, and  *)
(* then the budget is used up.                                             *)
ReportedIsWhole ==
    result.reason \in {"exited", "timed_out"} =>
        IF result.truncated THEN Len(result.out) + Len(result.err) = Budget
        ELSE /\ Len(result.out) = wrote["root"]["out"] + wrote["kid"]["out"]
             /\ Len(result.err) = wrote["root"]["err"] + wrote["kid"]["err"]

(* After a call that got as far as creating a child, and once its threads  *)
(* are done, the supervisor holds no handle of it, whichever call failed.  *)
HandlesAreClosed ==
    pc = "ended" /\ flags.created /\ (\A s \in Streams : reader[s] # "reading")
    /\ feeder.state # "writing" => handles = {}

\* No process runs code outside the job object; once the call is over or the
\* supervisor dead, no process of the tree runs on; a result carries all that
\* the tree wrote or says that it was cut; and a call that created a child
\* holds no handle at its end: whichever native call fails, whatever the child
\* leaves behind, and wherever the supervisor is killed (windows/process.py).
ProcessesAreSupervised ==
    /\ SupervisionTypeOK /\ NothingRunsUnsupervised /\ TreeIsGone
    /\ ReportedIsWhole /\ HandlesAreClosed

Waiting == pc = "wait"
AllOver ==
    /\ pc \in {"ended", "killed"}
    /\ \A s \in Streams : reader[s] = "done"
    /\ feeder.state # "writing"
    /\ \A p \in Procs : ~Alive(p)

(* The call ends, its threads end and the tree ends, though the child      *)
(* never exits, never reads, or leaves a process that keeps the pipes open.*)
SupervisionEnds == Waiting ~> AllOver

Filled(s) == reader[s] = "reading" /\ Len(pipe[s]) = PipeCap
Emptied(s) == reader[s] = "done" \/ Len(pipe[s]) < PipeCap

(* A full pipe is emptied also when nothing more is kept, as long as its   *)
(* reader lives: a child that writes past the budget is not blocked.       *)
FullPipesAreDrained == \A s \in Streams : Filled(s) ~> Emptied(s)
=============================================================================
