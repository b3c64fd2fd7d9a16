----------------------------- MODULE VecExecutor -----------------------------
(***************************************************************************)
(* VecExecutor in the asynchronous mode (api/vec_api.cpp) and the result   *)
(* cells of VecValue (api/vec_value.cpp): compute puts a task into the     *)
(* queue of its place and returns a value that is completed later; whoever *)
(* needs the contents materializes it, and waits if it has to.             *)
(*                                                                         *)
(* The threads: the caller (the thread of a rank, which computes in        *)
(* program order, synchronizes the final outputs and destroys the executor)*)
(* one worker per place, and readers, which the caller joins before it     *)
(* destroys the executor.  A reader is a sender thread of a rank: it reads *)
(* inside MockCluster::publish, holding the mutex of the cluster, which    *)
(* abort_all needs, too.                                                   *)
(*                                                                         *)
(* A value is named by the position of its operation in the program, the   *)
(* ready input of the program by 0.  Every section of the code under a     *)
(* mutex is one step; notifying comes after unlocking and is another.      *)
(***************************************************************************)
EXTENDS Naturals, Sequences, FiniteSets

CONSTANTS
  Places,    \* the places operations are put on, one worker each
  Readers,   \* the other threads that read results
  Caller,
  Programs   \* the programs the caller may run

Threads == Places \cup Readers \cup {Caller}
Faults  == {"none", "metadata", "compute"}

ASSUME ExecutorConstantsOK ==
  /\ Places \cap Readers = {} /\ Caller \notin Places \cup Readers
  /\ \A p \in Programs :
       /\ p.ops \in Seq([inputs : Seq(Nat), place : Places, fault : Faults])
       /\ \A n \in DOMAIN p.ops : p.ops[n].inputs \in Seq(0 .. n - 1)
       /\ p.finals \in Seq(DOMAIN p.ops)
       /\ DOMAIN p.reads \subseteq Readers /\ \A r \in DOMAIN p.reads : p.reads[r] \in DOMAIN p.ops

VARIABLES
  program,   \* the program of this behaviour
  caller,    \* how far the caller has got
  next,      \* the operation it is at, then the final output, then the worker
  cell,      \* value -> State of its VecValue
  workers,   \* places -> the worker, in its loop or "none"
  queue,     \* place -> tasks
  task,      \* place -> the task being run
  operand,   \* place -> the operand of the task that comes next
  stopping,  \* the places whose worker has been told to stop
  reader,    \* reader -> how far it has got
  asleep     \* the threads inside a condition variable

vars == <<program, caller, next, cell, workers, queue, task, operand, stopping, reader, asleep>>

Op(n)  == program.ops[n]
Values == DOMAIN program.ops
NoTask == 0

State(v)     == IF v = 0 THEN "ready" ELSE cell[v]
Completed(v) == State(v) \in {"ready", "failed"}

\* What a reader does between its start and its end, and the one of it that goes
\* with the mutex of the cluster.
Publishing    == {"locking", "reading", "aborting"}
ClusterLocked == \E r \in Readers : reader[r] = "reading"

\* The value whose cell a thread waits for, as far as it waits for one.
Awaited(t) ==
  CASE t \in Places /\ workers[t] = "run"        -> Op(task[t]).inputs[operand[t]]
    [] t \in Readers /\ reader[t] = "reading"    -> program.reads[t]
    [] t = Caller /\ caller = "synchronize"      -> program.finals[next]
    [] OTHER                                     -> 0

\* materialize, while the cell is neither ready nor failed.
Sleep(t) ==
  /\ t \notin asleep
  /\ asleep' = asleep \cup {t}

Materialize(t, v) ==
  /\ ~Completed(v)
  /\ Sleep(t)
  /\ UNCHANGED <<program, caller, next, cell, workers, queue, task, operand, stopping, reader>>

-----------------------------------------------------------------------------
(***************************************************************************)
(* The caller: compute.                                                    *)
(***************************************************************************)
Computing == caller = "compute" /\ next <= Len(program.ops)

\* compute_metadata throws: the exception leaves compute, and the run.
RejectCompute ==
  /\ Computing /\ Op(next).fault = "metadata"
  /\ caller' = "threw"
  /\ UNCHANGED <<program, next, cell, workers, queue, task, operand, stopping, reader, asleep>>

\* The pending value is made and worker_for starts the worker if there is none.
WorkerFor ==
  /\ Computing /\ Op(next).fault # "metadata"
  /\ cell' = [cell EXCEPT ![next] = "pending"]
  /\ workers' = [workers EXCEPT ![Op(next).place] = IF @ = "none" THEN "look" ELSE @]
  /\ caller' = "enqueue"
  /\ UNCHANGED <<program, next, queue, task, operand, stopping, reader, asleep>>

Enqueue ==
  /\ caller = "enqueue"
  /\ queue' = [queue EXCEPT ![Op(next).place] = Append(@, next)]
  /\ caller' = "notify"
  /\ UNCHANGED <<program, next, cell, workers, task, operand, stopping, reader, asleep>>

\* notify_one: only the worker itself waits on its condition variable.
WorkerIdle(p) == workers[p] = "look" /\ p \in asleep

NotifyWorker ==
  /\ caller = "notify"
  /\ asleep' = {t \in asleep : ~(t = Op(next).place /\ WorkerIdle(t))}
  /\ next' = next + 1
  /\ caller' = "compute"
  /\ UNCHANGED <<program, cell, workers, queue, task, operand, stopping, reader>>

-----------------------------------------------------------------------------
(***************************************************************************)
(* The caller: synchronize for each final output, then the destructor.     *)
(***************************************************************************)
StartSynchronize ==
  /\ caller = "compute" /\ next > Len(program.ops)
  /\ caller' = "synchronize" /\ next' = 1
  /\ UNCHANGED <<program, cell, workers, queue, task, operand, stopping, reader, asleep>>

AwaitFinal ==
  /\ caller = "synchronize" /\ next <= Len(program.finals)
  /\ Materialize(Caller, program.finals[next])

\* Mutant: the exception of a failed value is dropped.
SynchronizeBlind ==
  /\ caller = "synchronize" /\ next <= Len(program.finals)
  /\ Completed(program.finals[next]) /\ Caller \notin asleep
  /\ next' = next + 1
  /\ UNCHANGED <<program, caller, cell, workers, queue, task, operand, stopping, reader, asleep>>

Synchronize ==
  /\ caller = "synchronize" /\ next <= Len(program.finals)
  /\ Completed(program.finals[next]) /\ Caller \notin asleep
  /\ IF State(program.finals[next]) = "ready"
     THEN next' = next + 1 /\ UNCHANGED caller
     ELSE caller' = "threw" /\ UNCHANGED next
  /\ UNCHANGED <<program, cell, workers, queue, task, operand, stopping, reader, asleep>>

Return ==
  /\ caller = "synchronize" /\ next > Len(program.finals)
  /\ caller' = "returned"
  /\ UNCHANGED <<program, next, cell, workers, queue, task, operand, stopping, reader, asleep>>

\* run() calls abort_all, which waits for the mutex of the cluster.
AbortAll ==
  /\ caller = "threw" /\ ~ClusterLocked
  /\ caller' = "aborted"
  /\ UNCHANGED <<program, next, cell, workers, queue, task, operand, stopping, reader, asleep>>

Left == caller \in {"returned", "aborted"}
StoppedAs == [returned |-> "stopping", aborted |-> "stopping after throw"]

\* stop: the worker map is taken away, after the readers have been joined.
Stop ==
  /\ Left
  /\ \A r \in Readers : reader[r] \notin Publishing
  /\ caller' = StoppedAs[caller]
  /\ UNCHANGED <<program, next, cell, workers, queue, task, operand, stopping, reader, asleep>>

Stopping == caller \in {"stopping", "stopping after throw"}
Started  == {p \in Places : workers[p] # "none"}

\* Each worker is told under its own mutex, and notified there.
StopWorker(p) ==
  /\ Stopping /\ p \in Started \ stopping
  /\ stopping' = stopping \cup {p}
  /\ asleep' = {t \in asleep : ~(t = p /\ WorkerIdle(t))}
  /\ UNCHANGED <<program, caller, next, cell, workers, queue, task, operand, reader>>

JoinWorkers ==
  /\ Stopping /\ Started \subseteq stopping
  /\ \A p \in Started : workers[p] = "exited"
  /\ caller' = IF caller = "stopping" THEN "gone" ELSE "gone after throw"
  /\ UNCHANGED <<program, next, cell, workers, queue, task, operand, stopping, reader, asleep>>

Gone == caller \in {"gone", "gone after throw"}

-----------------------------------------------------------------------------
(***************************************************************************)
(* The workers.                                                            *)
(***************************************************************************)
Looking(p) == workers[p] = "look" /\ p \notin asleep

WorkerWaits(p) ==
  /\ Looking(p) /\ queue[p] = <<>> /\ p \notin stopping
  /\ Sleep(p)
  /\ UNCHANGED <<program, caller, next, cell, workers, queue, task, operand, stopping, reader>>

\* Mutant: a worker told to stop leaves its queue behind.
WorkerExitsAtOnce(p) ==
  /\ Looking(p) /\ p \in stopping
  /\ workers' = [workers EXCEPT ![p] = "exited"]
  /\ UNCHANGED <<program, caller, next, cell, queue, task, operand, stopping, reader, asleep>>

WorkerExits(p) ==
  /\ Looking(p) /\ p \in stopping /\ queue[p] = <<>>
  /\ workers' = [workers EXCEPT ![p] = "exited"]
  /\ UNCHANGED <<program, caller, next, cell, queue, task, operand, stopping, reader, asleep>>

\* Mutant: the newest task first.
TakeNewest(p) ==
  /\ Looking(p) /\ queue[p] # <<>>
  /\ task' = [task EXCEPT ![p] = queue[p][Len(queue[p])]]
  /\ queue' = [queue EXCEPT ![p] = SubSeq(@, 1, Len(@) - 1)]
  /\ operand' = [operand EXCEPT ![p] = 1]
  /\ workers' = [workers EXCEPT ![p] = "run"]
  /\ UNCHANGED <<program, caller, next, cell, stopping, reader, asleep>>

\* Mutant: the task is not popped.
TakeTaskKeeping(p) ==
  /\ Looking(p) /\ queue[p] # <<>>
  /\ task' = [task EXCEPT ![p] = Head(queue[p])]
  /\ operand' = [operand EXCEPT ![p] = 1]
  /\ workers' = [workers EXCEPT ![p] = "run"]
  /\ UNCHANGED <<program, caller, next, cell, queue, stopping, reader, asleep>>

TakeTask(p) ==
  /\ Looking(p) /\ queue[p] # <<>>
  /\ task' = [task EXCEPT ![p] = Head(queue[p])]
  /\ queue' = [queue EXCEPT ![p] = Tail(@)]
  /\ operand' = [operand EXCEPT ![p] = 1]
  /\ workers' = [workers EXCEPT ![p] = "run"]
  /\ UNCHANGED <<program, caller, next, cell, stopping, reader, asleep>>

\* compute_now materializes one operand after the other.
AtOperand(p) ==
  /\ workers[p] = "run" /\ p \notin asleep
  /\ operand[p] <= Len(Op(task[p]).inputs)

AwaitOperand(p) == AtOperand(p) /\ Materialize(p, Op(task[p]).inputs[operand[p]])

\* Mutant: materialize does not wait.
ReadOperandUnready(p) ==
  /\ AtOperand(p)
  /\ State(Op(task[p]).inputs[operand[p]]) # "failed"
  /\ operand' = [operand EXCEPT ![p] = @ + 1]
  /\ UNCHANGED <<program, caller, next, cell, workers, queue, task, stopping, reader, asleep>>

ReadOperand(p) ==
  /\ AtOperand(p)
  /\ State(Op(task[p]).inputs[operand[p]]) = "ready"
  /\ operand' = [operand EXCEPT ![p] = @ + 1]
  /\ UNCHANGED <<program, caller, next, cell, workers, queue, task, stopping, reader, asleep>>

\* Mutant: whoever completes a value has to have the mutex of the cluster.
CompleteLocked(p, state) ==
  /\ ~ClusterLocked
  /\ cell' = [cell EXCEPT ![task[p]] = state]
  /\ workers' = [workers EXCEPT ![p] = "notify"]
  /\ UNCHANGED <<program, caller, next, queue, task, operand, stopping, reader, asleep>>

\* The task is over: fulfill, or fail with what compute_now threw.
Complete(p, state) ==
  /\ cell' = [cell EXCEPT ![task[p]] = state]
  /\ workers' = [workers EXCEPT ![p] = "notify"]
  /\ UNCHANGED <<program, caller, next, queue, task, operand, stopping, reader, asleep>>

FailOnOperand(p) ==
  /\ AtOperand(p)
  /\ State(Op(task[p]).inputs[operand[p]]) = "failed"
  /\ Complete(p, "failed")

Finish(p) ==
  /\ workers[p] = "run" /\ operand[p] > Len(Op(task[p]).inputs)
  /\ Complete(p, IF Op(task[p]).fault = "compute" THEN "failed" ELSE "ready")

\* notify_all on the cell.
NotifyReaders(p) ==
  /\ workers[p] = "notify"
  /\ asleep' = {t \in asleep : Awaited(t) # task[p]}
  /\ workers' = [workers EXCEPT ![p] = "look"]
  /\ task' = [task EXCEPT ![p] = NoTask]
  /\ UNCHANGED <<program, caller, next, cell, queue, operand, stopping, reader>>

WorkerStep(p) ==
  \/ WorkerWaits(p) \/ WorkerExits(p) \/ TakeTask(p)
  \/ AwaitOperand(p) \/ ReadOperand(p) \/ FailOnOperand(p)
  \/ Finish(p) \/ NotifyReaders(p)

-----------------------------------------------------------------------------
(***************************************************************************)
(* The readers, started by the caller once their value has been submitted. *)
(***************************************************************************)
StartReader(r) ==
  /\ reader[r] = "idle" /\ r \in DOMAIN program.reads
  /\ caller \in {"compute", "synchronize"} /\ cell[program.reads[r]] # "none"
  /\ reader' = [reader EXCEPT ![r] = "locking"]
  /\ UNCHANGED <<program, caller, next, cell, workers, queue, task, operand, stopping, asleep>>

\* MockCluster::aborted_.
Aborted ==
  \/ caller \in {"aborted", "stopping after throw", "gone after throw"}
  \/ \E r \in Readers : reader[r] = "threw"

Reader(r, state) ==
  /\ reader' = [reader EXCEPT ![r] = state]
  /\ UNCHANGED <<program, caller, next, cell, workers, queue, task, operand, stopping, asleep>>

LockCluster(r) ==
  /\ reader[r] = "locking" /\ ~ClusterLocked
  /\ Reader(r, IF Aborted THEN "threw" ELSE "reading")

\* deep_copy materializes the value, the mutex being held.
AwaitRead(r) == reader[r] = "reading" /\ Materialize(r, program.reads[r])

EndRead(r) ==
  /\ reader[r] = "reading" /\ r \notin asleep
  /\ Completed(program.reads[r])
  /\ Reader(r, IF State(program.reads[r]) = "ready" THEN "read" ELSE "aborting")

SenderAborts(r) ==
  /\ reader[r] = "aborting" /\ ~ClusterLocked
  /\ Reader(r, "threw")

ReaderStep(r) == LockCluster(r) \/ AwaitRead(r) \/ EndRead(r) \/ SenderAborts(r)

CallerStep ==
  \/ RejectCompute \/ WorkerFor \/ Enqueue \/ NotifyWorker
  \/ StartSynchronize \/ AwaitFinal \/ Synchronize \/ Return \/ AbortAll
  \/ Stop \/ JoinWorkers \/ \E p \in Places : StopWorker(p)

\* A condition variable may wake up by itself; every wait looks again.
Spurious == \E t \in asleep :
  /\ asleep' = asleep \ {t}
  /\ UNCHANGED <<program, caller, next, cell, workers, queue, task, operand, stopping, reader>>

Terminating == Gone /\ UNCHANGED vars

Init ==
  /\ program \in Programs
  /\ caller = "compute" /\ next = 1
  /\ cell = [v \in Values |-> "none"]
  /\ workers = [p \in Places |-> "none"]
  /\ queue = [p \in Places |-> <<>>]
  /\ task = [p \in Places |-> NoTask]
  /\ operand = [p \in Places |-> 1]
  /\ stopping = {}
  /\ reader = [r \in Readers |-> "idle"]
  /\ asleep = {}

Next ==
  \/ CallerStep
  \/ \E p \in Places : WorkerStep(p)
  \/ \E r \in Readers : StartReader(r) \/ ReaderStep(r)
  \/ Spurious
  \/ Terminating

Spec == Init /\ [][Next]_vars

\* The operating system runs every thread; whether and when the caller starts
\* its readers is the program's business.
FairSpec ==
  /\ Spec
  /\ WF_vars(CallerStep)
  /\ \A p \in Places : WF_vars(WorkerStep(p))
  /\ \A r \in Readers : WF_vars(ReaderStep(r))

-----------------------------------------------------------------------------
(***************************************************************************)
(* Properties.                                                             *)
(***************************************************************************)
\* The tasks of a place that are queued or running.
Unfinished(p) ==
  {queue[p][k] : k \in DOMAIN queue[p]} \cup IF workers[p] = "run" THEN {task[p]} ELSE {}

\* The variables have the types of what they stand for, and a task that is
\* queued or running still has its value to complete, no other task having it:
\* fulfill and fail never find it completed (an exception thrown by fail inside a
\* worker would end the process).
TypeOK ==
  /\ caller \in {"compute", "enqueue", "notify", "synchronize", "returned", "threw", "aborted", "stopping",
                 "stopping after throw", "gone", "gone after throw"}
  /\ next \in Nat \ {0}
  /\ cell \in [Values -> {"none", "pending", "ready", "failed"}]
  /\ workers \in [Places -> {"none", "look", "run", "notify", "exited"}]
  /\ \A p \in Places : queue[p] \in Seq(Values) /\ task[p] \in Values \cup {NoTask}
  /\ \A p \in Places : workers[p] = "run" => task[p] # NoTask
  /\ operand \in [Places -> Nat \ {0}]
  /\ stopping \subseteq Places
  /\ reader \in [Readers -> {"idle", "read", "threw"} \cup Publishing]
  /\ asleep \subseteq Threads
  /\ \A p \in Places : \A v \in Unfinished(p) : cell[v] = "pending" /\ Op(v).place = p

\* What the synchronous mode gives for a value of a program: no fault in the
\* operation, nor in anything it depends on.
SoundIn(p) ==
  LET sound[v \in 0 .. Len(p.ops)] ==
        v = 0 \/ /\ p.ops[v].fault = "none"
                 /\ \A k \in DOMAIN p.ops[v].inputs : sound[p.ops[v].inputs[k]]
  IN  sound

Sound == SoundIn(program)

\* However the workers interleave, a value is completed only when its operands
\* are, and with the outcome of the synchronous mode (plaintext-testing.md
\* section 2.1: both modes must give the same results).
SameAsSync ==
  \A v \in Values :
    /\ cell[v] = "ready" => Sound[v] /\ \A k \in DOMAIN Op(v).inputs : Completed(Op(v).inputs[k])
    /\ cell[v] = "failed" => ~Sound[v]

\* A failure on a worker reaches the caller if a final output depends on it, and
\* the caller is never stopped by anything else (synchronize rethrows).
FailureReported ==
  /\ caller \in {"returned", "stopping", "gone"} =>
       \A k \in DOMAIN program.finals : Sound[program.finals[k]]
  /\ caller \in {"threw", "aborted", "gone after throw"} =>
       \/ \E k \in DOMAIN program.finals : ~Sound[program.finals[k]]
       \/ \E v \in Values : Op(v).fault = "metadata"

\* When the destructor returns no promise is broken: every value handed out is
\* completed, and no worker holds a task (stop drains the queues).
Drained ==
  Gone => /\ \A v \in Values : cell[v] # "pending"
          /\ \A p \in Places : queue[p] = <<>> /\ workers[p] \in {"none", "exited"}

\* Workers that wait for each other's results, readers that hold the cluster's
\* mutex while they wait for one, abort_all waiting for that mutex and the
\* destructor all come to an end: tasks enter the queues in program order, so the
\* oldest unfinished one finds its operands finished, and no worker needs the mutex.
Termination == <>(Gone /\ \A r \in Readers : reader[r] \notin Publishing)
=============================================================================
