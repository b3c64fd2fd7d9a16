-------------------------- MODULE VecExecutorProofs --------------------------
(***************************************************************************)
(* The asynchronous executor, for every program, any number of places and  *)
(* any number of readers.                                                  *)
(*                                                                         *)
(* Besides TypeOK and SameAsSync, the invariant VecInv says which values   *)
(* have been submitted, that the tasks of a place are in program order,    *)
(* which operands a task has read, who is still to complete a pending      *)
(* value, and what a thread inside a condition variable waits for.         *)
(***************************************************************************)
EXTENDS VecExecutor, NaturalsInduction, WellFoundedInduction, TLAPS

-----------------------------------------------------------------------------
(***************************************************************************)
(* The parts of the invariant.                                             *)
(***************************************************************************)
\* The types of TypeOK.
Shapes ==
  /\ caller \in {"compute", "enqueue", "notify", "synchronize", "returned", "threw", "aborted", "stopping",
                 "stopping after throw", "gone", "gone after throw"}
  /\ next \in Nat \ {0}
  /\ cell \in [Values -> {"none", "pending", "ready", "failed"}]
  /\ workers \in [Places -> {"none", "look", "run", "notify", "exited"}]
  /\ \A p \in Places : queue[p] \in Seq(Values) /\ task[p] \in Values \cup {NoTask}
  /\ \A p \in Places : workers[p] = "run" => task[p] # NoTask
  /\ operand \in [Places -> Nat \ {0}]
  /\ stopping \subseteq Places
  /\ reader \in [Readers -> {"idle", "read", "threw"} \cup Publishing]
  /\ asleep \subseteq Threads

\* Queues and tasks are kept by place.
Tables == queue = [p \in Places |-> queue[p]] /\ task = [p \in Places |-> task[p]]

\* The last part of TypeOK.
Tasks == \A p \in Places : \A v \in Unfinished(p) : cell[v] = "pending" /\ Op(v).place = p

\* Values are submitted in program order, those before next and, once its cell
\* exists, next itself.
Submitted ==
  /\ caller = "compute" => \A v \in Values : cell[v] = "none" <=> v >= next
  /\ caller \in {"enqueue", "notify"} =>
       next \in Values /\ \A v \in Values : cell[v] = "none" <=> v > next
  /\ \A v \in Values : cell[v] # "none" =>
       /\ Op(v).fault # "metadata"
       /\ \A w \in 1 .. v : cell[w] # "none"

\* The tasks of a place are in program order, the running one first; the one not
\* yet enqueued comes after all of them.
InOrder ==
  \A p \in Places :
    /\ \A i, j \in DOMAIN queue[p] : i < j => queue[p][i] < queue[p][j]
    /\ workers[p] = "run" => \A i \in DOMAIN queue[p] : task[p] < queue[p][i]
    /\ caller = "enqueue" => \A v \in Unfinished(p) : v < next

\* A task goes on to its next operand only when the last one was there.
OperandsRead ==
  \A p \in Places : workers[p] = "run" =>
    \A k \in DOMAIN Op(task[p]).inputs : k < operand[p] => State(Op(task[p]).inputs[k]) = "ready"

\* Who completes a pending value: the worker that has its task, or will have it.
Held ==
  \A v \in Values : cell[v] = "pending" =>
    v \in Unfinished(Op(v).place) \/ (caller = "enqueue" /\ v = next)

\* A place with tasks has its worker.
Manned ==
  /\ \A p \in Places : workers[p] \in {"none", "exited"} => Unfinished(p) = {}
  /\ caller = "enqueue" => /\ cell[next] = "pending"
                           /\ workers[Op(next).place] # "none"
  /\ \A p \in Places : workers[p] = "exited" => p \in stopping
  /\ stopping # {} => Stopping \/ Gone
  /\ Gone => \A p \in Places : workers[p] \in {"none", "exited"}

\* What the caller knows of the final outputs.
Finals ==
  /\ caller = "synchronize" =>
       \A k \in DOMAIN program.finals : k < next => State(program.finals[k]) = "ready"
  /\ caller \in {"returned", "stopping", "gone"} =>
       \A k \in DOMAIN program.finals : State(program.finals[k]) = "ready"
  /\ caller \in {"threw", "aborted", "stopping after throw", "gone after throw"} =>
       \/ \E k \in DOMAIN program.finals : State(program.finals[k]) = "failed"
       \/ \E v \in Values : Op(v).fault = "metadata"

\* A worker about to notify has completed the value of its task.
Notifying ==
  \A p \in Places : workers[p] = "notify" =>
    task[p] \in Values /\ Completed(task[p])

\* Where a thread inside a condition variable is.
Sleepers ==
  \A t \in asleep :
    \/ t \in Places /\ workers[t] = "look"
    \/ t \in Places /\ workers[t] = "run" /\ operand[t] \in DOMAIN Op(task[t]).inputs
    \/ t \in Readers /\ reader[t] = "reading" /\ t \in DOMAIN program.reads
    \/ t = Caller /\ caller = "synchronize" /\ next \in DOMAIN program.finals

\* A thread sleeps only as long as there is nothing for it, or someone is about to
\* notify it: the notification after the unlocking is never missed, and none goes
\* to another thread.
NoLostWakeup ==
  \A t \in asleep :
    /\ t \in Places /\ workers[t] = "look" =>
         /\ queue[t] = <<>> \/ (caller = "notify" /\ Op(next).place = t)
         /\ t \notin stopping
    /\ ~(t \in Places /\ workers[t] = "look") =>
         ~Completed(Awaited(t)) \/ \E p \in Places : workers[p] = "notify" /\ task[p] = Awaited(t)

\* Workers never wait in a circle: of the values that some worker has still to
\* complete, the oldest has all its operands completed, and is being run or is the
\* next its worker takes.
OldestRuns ==
  \A p \in Places : \A v \in Unfinished(p) :
    (\A q \in Places : \A w \in Unfinished(q) : v <= w) =>
      /\ \A k \in DOMAIN Op(v).inputs : Completed(Op(v).inputs[k])
      /\ \/ workers[p] = "run" /\ task[p] = v
         \/ workers[p] \in {"look", "notify"} /\ Head(queue[p]) = v

\* A reader that has been started reads a value that has been submitted.
ReadersOK ==
  \A r \in Readers : reader[r] \in Publishing =>
    r \in DOMAIN program.reads /\ cell[program.reads[r]] # "none"

\* The inductive invariant.
VecInv ==
  /\ program \in Programs
  /\ Tables /\ Shapes /\ Tasks /\ Submitted /\ InOrder /\ OperandsRead /\ SameAsSync
  /\ Held /\ Manned /\ Finals /\ Notifying /\ ReadersOK /\ Sleepers /\ NoLostWakeup


-----------------------------------------------------------------------------
(***************************************************************************)
(* Programs, and what is sound in them.                                    *)
(***************************************************************************)
\* What ExecutorConstantsOK says of a program, operation by operation.
LEMMA ProgramShape ==
  ASSUME program \in Programs
  PROVE  /\ Len(program.ops) \in Nat /\ Values = 1 .. Len(program.ops)
         /\ \A v \in Values :
              /\ v \in Nat /\ v # 0
              /\ Op(v).place \in Places /\ Op(v).fault \in Faults
              /\ DOMAIN Op(v).inputs = 1 .. Len(Op(v).inputs) /\ Len(Op(v).inputs) \in Nat
              /\ \A k \in DOMAIN Op(v).inputs : Op(v).inputs[k] \in 0 .. v - 1
         /\ DOMAIN program.finals = 1 .. Len(program.finals) /\ Len(program.finals) \in Nat
         /\ \A k \in DOMAIN program.finals : program.finals[k] \in Values
         /\ DOMAIN program.reads \subseteq Readers
         /\ \A r \in DOMAIN program.reads : program.reads[r] \in Values
<1>1. /\ program.ops \in Seq([inputs : Seq(Nat), place : Places, fault : Faults])
      /\ \A n \in DOMAIN program.ops : program.ops[n].inputs \in Seq(0 .. n - 1)
      /\ program.finals \in Seq(DOMAIN program.ops)
      /\ DOMAIN program.reads \subseteq Readers
      /\ \A r \in DOMAIN program.reads : program.reads[r] \in DOMAIN program.ops
  BY ExecutorConstantsOK
<1>2. Len(program.ops) \in Nat /\ Values = 1 .. Len(program.ops)
  BY <1>1 DEF Values
<1>3. ASSUME NEW v \in Values
      PROVE  /\ v \in Nat /\ v # 0
             /\ Op(v).place \in Places /\ Op(v).fault \in Faults
             /\ Op(v).inputs \in Seq(0 .. v - 1)
  <2>1. v \in 1 .. Len(program.ops) /\ v \in DOMAIN program.ops
    BY <1>2 DEF Values
  <2>2. \A S : program.ops \in Seq(S) => program.ops[v] \in S
    BY <2>1
  <2>4. Op(v) \in [inputs : Seq(Nat), place : Places, fault : Faults]
    BY ONLY <1>1, <2>2 DEF Op
  <2>3. Op(v).inputs \in Seq(0 .. v - 1)
    BY <1>1, <2>1 DEF Op
  <2> QED
    BY <1>2, <2>1, <2>3, <2>4
<1>4. ASSUME NEW v \in Values
      PROVE  /\ DOMAIN Op(v).inputs = 1 .. Len(Op(v).inputs) /\ Len(Op(v).inputs) \in Nat
             /\ \A k \in DOMAIN Op(v).inputs : Op(v).inputs[k] \in 0 .. v - 1
  BY <1>3
<1>5. /\ DOMAIN program.finals = 1 .. Len(program.finals) /\ Len(program.finals) \in Nat
      /\ \A k \in DOMAIN program.finals : program.finals[k] \in Values
  BY <1>1 DEF Values
<1>6. DOMAIN program.reads \subseteq Readers /\ \A r \in DOMAIN program.reads : program.reads[r] \in Values
  BY <1>1 DEF Values
<1> QED
  BY <1>2, <1>3, <1>4, <1>5, <1>6

\* Every non-empty set of naturals has a least element.
LEMMA LeastNat ==
  ASSUME NEW S, S \subseteq Nat, S # {}
  PROVE  \E n \in S : \A m \in S : n <= m
<1>1. \E n \in S : \A m \in S : ~(<<m, n>> \in OpToRel(<, Nat))
  BY NatLessThanWellFounded, WFMin
<1>2. PICK n \in S : \A m \in S : ~(m < n)
  BY <1>1 DEF OpToRel
<1> QED
  BY <1>2

\* A value of a program is sound as far as its own operation and operands go.
SoundStep(p, v, s) ==
  v = 0 \/ /\ p.ops[v].fault = "none"
           /\ \A k \in DOMAIN p.ops[v].inputs : s[p.ops[v].inputs[k]]

\* The equation that defines SoundIn, up to value n.
SoundTo(p, n, s) == s = [v \in 0 .. n |-> SoundStep(p, v, s)]

\* The equation has a solution, so SoundIn(p) is one.
LEMMA SoundDefined ==
  ASSUME program \in Programs
  PROVE  SoundTo(program, Len(program.ops), Sound)
<1> DEFINE N == Len(program.ops)
           bad == {n \in Nat : n <= N /\ ~\E s : SoundTo(program, n, s)}
<1>1. ASSUME bad # {} PROVE FALSE
  <2>1. PICK m \in bad : \A y \in bad : m <= y
    BY <1>1, LeastNat
  <2>2. m \in Nat /\ m <= N /\ N \in Nat
    BY ProgramShape
  <2>3. CASE m = 0
    <3> DEFINE t == [v \in 0 .. 0 |-> TRUE]
    <3>1. \A v \in 0 .. 0 : SoundStep(program, v, t) = TRUE
      BY DEF SoundStep
    <3>2. SoundTo(program, 0, t)
      BY <3>1 DEF SoundTo
    <3> QED
      BY <2>3, <3>2
  <2>4. CASE m # 0
    <3>1. m - 1 \in Nat /\ m - 1 <= N /\ m - 1 \notin bad
      <4>1. m - 1 \in Nat /\ ~(m <= m - 1) /\ m - 1 <= N
        BY <2>2, <2>4
      <4> QED
        BY <2>1, <4>1
    <3>2. PICK s : SoundTo(program, m - 1, s)
      BY <3>1
    <3> DEFINE t == [j \in 0 .. m |-> IF j = m THEN SoundStep(program, m, s) ELSE s[j]]
    <3>3. ASSUME NEW j \in 0 .. m
          PROVE  t[j] = SoundStep(program, j, t)
      <4>1. ASSUME j # 0
            PROVE  /\ j \in Values
                   /\ \A k \in DOMAIN program.ops[j].inputs :
                        program.ops[j].inputs[k] \in 0 .. m - 1 /\ program.ops[j].inputs[k] # m
        BY <2>2, <4>1, ProgramShape DEF Op
      <4>2. \A i \in 0 .. m - 1 : t[i] = s[i]
        BY <2>2
      <4> HIDE DEF t
      <4>3. SoundStep(program, j, t) = SoundStep(program, j, s)
        BY <4>1, <4>2 DEF SoundStep
      <4>4. CASE j = m
        BY <4>3, <4>4 DEF t
      <4>5. CASE j # m
        <5>1. j \in 0 .. m - 1 /\ t[j] = s[j]
          BY <2>2, <4>2, <4>5
        <5>2. s[j] = SoundStep(program, j, s)
          BY <3>2, <5>1 DEF SoundTo
        <5> QED
          BY <4>3, <5>1, <5>2
      <4> QED
        BY <4>4, <4>5
    <3>4. DOMAIN t = 0 .. m /\ t = [j \in DOMAIN t |-> t[j]]
      OBVIOUS
    <3> HIDE DEF t
    <3>5. t = [j \in 0 .. m |-> SoundStep(program, j, t)]
      BY <3>3, <3>4
    <3>6. SoundTo(program, m, t)
      BY <3>5 DEF SoundTo
    <3> QED
      BY <2>1, <3>6
  <2> QED
    BY <2>3, <2>4
<1>2. \E s : SoundTo(program, N, s)
  <2>1. N \in Nat /\ N <= N
    BY ProgramShape
  <2> QED
    BY <1>1, <2>1
<1>3. Sound = CHOOSE s : SoundTo(program, N, s)
  BY DEF Sound, SoundIn, SoundTo, SoundStep
<1> QED
  BY <1>2, <1>3

\* A value is sound when its operation has no fault and its operands are sound.
LEMMA SoundAt ==
  ASSUME program \in Programs
  PROVE  /\ Sound[0]
         /\ \A v \in Values : Sound[v] <=> /\ Op(v).fault = "none"
                                           /\ \A k \in DOMAIN Op(v).inputs : Sound[Op(v).inputs[k]]
<1>1. Len(program.ops) \in Nat /\ Values = 1 .. Len(program.ops)
  BY ProgramShape
<1>2. \A v \in 0 .. Len(program.ops) : Sound[v] = SoundStep(program, v, Sound)
  BY SoundDefined DEF SoundTo
<1>3. Sound[0]
  <2>1. 0 \in 0 .. Len(program.ops)
    BY <1>1
  <2>2. SoundStep(program, 0, Sound) = TRUE
    BY DEF SoundStep
  <2> QED
    BY <1>2, <2>1, <2>2
<1>4. ASSUME NEW v \in Values
      PROVE  Sound[v] <=> /\ Op(v).fault = "none"
                          /\ \A k \in DOMAIN Op(v).inputs : Sound[Op(v).inputs[k]]
  <2>1. v \in 0 .. Len(program.ops) /\ v # 0
    BY <1>1
  <2> QED
    BY <1>2, <2>1 DEF SoundStep, Op
<1> QED
  BY <1>3, <1>4


-----------------------------------------------------------------------------
(***************************************************************************)
(* Steps that leave most of the state alone.                               *)
(***************************************************************************)
\* Each part of the invariant depends on these variables only.
LEMMA Framed ==
  ASSUME VecInv, program' = program
  PROVE  /\ UNCHANGED <<queue, task>> => Tables'
         /\ UNCHANGED <<cell, workers, queue, task>> => Tasks'
         /\ UNCHANGED <<caller, next, cell>> => Submitted' /\ Finals'
         /\ UNCHANGED <<caller, next, workers, queue, task>> => InOrder'
         /\ UNCHANGED <<cell, workers, task, operand>> => OperandsRead'
         /\ UNCHANGED cell => SameAsSync'
         /\ UNCHANGED <<caller, next, cell, workers, queue, task>> => Held'
         /\ UNCHANGED <<caller, next, cell, workers, queue, task, stopping>> => Manned'
         /\ UNCHANGED <<cell, workers, task>> => Notifying'
         /\ UNCHANGED <<cell, reader>> => ReadersOK'
         /\ UNCHANGED <<caller, next, workers, task, operand, reader>> /\ asleep' \subseteq asleep => Sleepers'
         /\ UNCHANGED <<caller, next, cell, workers, queue, task, operand, stopping, reader>>
              /\ asleep' \subseteq asleep => NoLostWakeup'
<1> USE DEF VecInv
<1>1. UNCHANGED <<caller, next, cell>> => Submitted' /\ Finals'
  BY ZenonT(30) DEF Submitted, Finals, Values, Op, State
<1>11. UNCHANGED <<queue, task>> => Tables'
  BY DEF Tables
<1>12. UNCHANGED <<cell, workers, queue, task>> => Tasks'
  BY DEF Tasks, Unfinished, Op
<1>2. UNCHANGED <<caller, next, workers, queue, task>> => InOrder'
  BY DEF InOrder, Unfinished
<1>3. UNCHANGED <<cell, workers, task, operand>> => OperandsRead'
  BY DEF OperandsRead, Op, State
<1>4. UNCHANGED cell => SameAsSync'
  BY DEF SameAsSync, Values, Op, State, Completed, Sound
<1>5. UNCHANGED <<caller, next, cell, workers, queue, task>> => Held'
  BY DEF Held, Unfinished, Values, Op
<1>6. UNCHANGED <<caller, next, cell, workers, queue, task, stopping>> => Manned'
  BY DEF Manned, Unfinished, Op, Stopping, Gone
<1>7. UNCHANGED <<cell, workers, task>> => Notifying'
  BY DEF Notifying, Values, Completed, State
<1>8. UNCHANGED <<cell, reader>> => ReadersOK'
  BY DEF ReadersOK
<1>9. ASSUME UNCHANGED <<caller, next, workers, task, operand, reader>>, asleep' \subseteq asleep
      PROVE  Sleepers'
  BY <1>9 DEF Sleepers, Op
<1>10. ASSUME UNCHANGED <<caller, next, cell, workers, queue, task, operand, stopping, reader>>,
              asleep' \subseteq asleep
       PROVE  NoLostWakeup'
  BY <1>10 DEF NoLostWakeup, Op, Awaited, Completed, State
<1> QED
  BY <1>1, <1>2, <1>3, <1>4, <1>5, <1>6, <1>7, <1>8, <1>9, <1>10, <1>11, <1>12

\* What is queued or running depends on these variables only.
LEMMA UnfinishedFramed ==
  ASSUME UNCHANGED <<workers, queue, task>>, NEW p
  PROVE  Unfinished(p)' = Unfinished(p)
  BY DEF Unfinished

\* What is queued or running is a pending value of that place.
LEMMA UnfinishedShape ==
  ASSUME VecInv, NEW p \in Places, NEW v \in Unfinished(p)
  PROVE  v \in Values /\ v \in Nat /\ cell[v] = "pending" /\ Op(v).place = p
<1>1. cell[v] = "pending" /\ Op(v).place = p
  BY DEF VecInv, Tasks
<1>2. v \in Values
  <2>1. queue[p] \in Seq(Values) /\ (workers[p] = "run" => task[p] \in Values)
    BY DEF VecInv, Shapes
  <2>2. \A k \in DOMAIN queue[p] : queue[p][k] \in Values
    BY <2>1
  <2> QED
    BY <2>1, <2>2 DEF Unfinished
<1> QED
  BY <1>1, <1>2, ProgramShape DEF VecInv

\* A thread wakes up without being notified.
LEMMA WakingKeeps ==
  ASSUME VecInv, Spurious
  PROVE  VecInv'
<1>1. UNCHANGED <<program, caller, next, cell, workers, queue, task, operand, stopping, reader>>
      /\ asleep' \subseteq asleep
  BY DEF Spurious
<1>2. Shapes'
  BY <1>1 DEF VecInv, Shapes, Values
<1>3. program' \in Programs
  BY <1>1 DEF VecInv
<1> QED
  BY <1>1, <1>2, <1>3, Framed DEF VecInv

\* A thread that sleeps, but not for tasks, sleeps for a value of the program.
LEMMA AwaitedShape ==
  ASSUME VecInv, NEW u \in asleep, ~(u \in Places /\ workers[u] = "look")
  PROVE  Awaited(u) \in 0 .. Len(program.ops)
<1>1. \A p \in Places : workers[p] = "run" => task[p] \in Values
  BY DEF VecInv, Shapes
<1>2. Places \cap Readers = {} /\ Caller \notin Places \cup Readers
  BY ExecutorConstantsOK
<1>3. Len(program.ops) \in Nat /\ Values = 1 .. Len(program.ops)
  BY ProgramShape DEF VecInv
<1>4. CASE u \in Places /\ workers[u] = "run" /\ operand[u] \in DOMAIN Op(task[u]).inputs
  <2>1. Awaited(u) = Op(task[u]).inputs[operand[u]]
    BY <1>2, <1>4 DEF Awaited
  <2>2. task[u] \in Values
    BY <1>1, <1>4
  <2>3. Op(task[u]).inputs[operand[u]] \in 0 .. task[u] - 1
    BY <1>4, <2>2, ProgramShape DEF VecInv
  <2> QED
    BY <1>3, <2>1, <2>2, <2>3
<1>5. CASE u \in Readers /\ reader[u] = "reading" /\ u \in DOMAIN program.reads
  <2>1. Awaited(u) = program.reads[u]
    BY <1>2, <1>5 DEF Awaited
  <2> QED
    BY <1>3, <1>5, <2>1, ProgramShape DEF VecInv
<1>6. CASE u = Caller /\ caller = "synchronize" /\ next \in DOMAIN program.finals
  <2>1. Awaited(u) = program.finals[next]
    BY <1>2, <1>6 DEF Awaited
  <2> QED
    BY <1>3, <1>6, <2>1, ProgramShape DEF VecInv
<1> QED
  BY <1>4, <1>5, <1>6 DEF VecInv, Sleepers

\* A thread begins to wait for a cell, at the place where Awaited says so.
LEMMA MaterializeKeeps ==
  ASSUME VecInv, NEW t \in Threads, NEW v, Materialize(t, v), Awaited(t) = v,
         \/ t \in Places /\ workers[t] = "run" /\ operand[t] \in DOMAIN Op(task[t]).inputs
         \/ t \in Readers /\ reader[t] = "reading"
         \/ t = Caller /\ caller = "synchronize" /\ next \in DOMAIN program.finals
  PROVE  VecInv'
<1>1. /\ UNCHANGED <<program, caller, next, cell, workers, queue, task, operand, stopping, reader>>
      /\ asleep' = asleep \cup {t} /\ ~Completed(v)
  BY DEF Materialize, Sleep
<1>2. Shapes'
  BY <1>1 DEF VecInv, Shapes, Values
<1>3. program' \in Programs
  BY <1>1 DEF VecInv
<1>4. Sleepers'
  BY <1>1 DEF VecInv, Sleepers, Op, ReadersOK, Publishing
<1>5. NoLostWakeup'
  <2>1. Places \cap Readers = {} /\ Caller \notin Places \cup Readers
    BY ExecutorConstantsOK
  <2>2. ~(t \in Places /\ workers[t] = "look")
    BY <2>1
  <2>3. \A u : Awaited(u)' = Awaited(u)
    BY <1>1 DEF Awaited, Op
  <2>4. \A u : Completed(u)' = Completed(u)
    BY <1>1 DEF Completed, State
  <2>5. ~Completed(Awaited(t))'
    BY <1>1, <2>3, <2>4 DEF Completed, State
  <2>6. ASSUME NEW u \in asleep
        PROVE  /\ u \in Places /\ workers[u] = "look" =>
                    /\ queue[u] = <<>> \/ (caller = "notify" /\ Op(next).place = u)
                    /\ u \notin stopping
               /\ ~(u \in Places /\ workers[u] = "look") =>
                    ~Completed(Awaited(u)) \/ \E p \in Places : workers[p] = "notify" /\ task[p] = Awaited(u)
    BY DEF VecInv, NoLostWakeup
  <2>7. \A w : Op(w)' = Op(w)
    BY <1>1 DEF Op
  <2> QED
    BY <1>1, <2>2, <2>3, <2>4, <2>5, <2>6, <2>7 DEF NoLostWakeup
<1> QED
  BY <1>1, <1>2, <1>3, <1>4, <1>5, Framed DEF VecInv

\* A reader goes from one state to another.
LEMMA ReaderKeeps ==
  ASSUME VecInv, NEW r \in Readers, NEW s \in {"idle", "read", "threw"} \cup Publishing,
         r \notin asleep, Reader(r, s),
         s \in Publishing => r \in DOMAIN program.reads /\ cell[program.reads[r]] # "none"
  PROVE  VecInv'
<1>1. /\ UNCHANGED <<program, caller, next, cell, workers, queue, task, operand, stopping, asleep>>
      /\ reader' = [reader EXCEPT ![r] = s]
  BY DEF Reader
<1>2. Shapes'
  BY <1>1 DEF VecInv, Shapes, Values
<1>3. program' \in Programs
  BY <1>1 DEF VecInv
<1>4. reader \in [Readers -> {"idle", "read", "threw"} \cup Publishing]
  BY DEF VecInv, Shapes
<1>5. ReadersOK'
  BY <1>1, <1>4 DEF VecInv, ReadersOK
<1>6. \A u \in asleep : u \in Readers => reader'[u] = reader[u]
  BY <1>1, <1>4
<1>7. Sleepers'
  BY <1>1, <1>6 DEF VecInv, Sleepers, Op
<1>8. NoLostWakeup'
  <2>1. \A u \in asleep : Awaited(u)' = Awaited(u)
    BY <1>1, <1>6 DEF Awaited, Op
  <2>2. \A u : Completed(u)' = Completed(u)
    BY <1>1 DEF Completed, State
  <2>3. \A u \in asleep : Completed(Awaited(u))' = Completed(Awaited(u))
    BY <1>1, <2>1, <2>2 DEF Completed, State
  <2> QED
    BY <1>1, <2>1, <2>3 DEF VecInv, NoLostWakeup, Op
<1> QED
  BY <1>1, <1>2, <1>3, <1>5, <1>7, <1>8, Framed DEF VecInv

\* The caller goes on after it has computed, or gives up.
LEMMA CallerKeeps ==
  ASSUME VecInv, UNCHANGED <<program, cell, workers, queue, task, operand, stopping, reader, asleep>>,
         caller \notin {"enqueue", "notify"}, Caller \notin asleep,
         caller' \in {"synchronize", "returned", "threw", "aborted", "stopping",
                      "stopping after throw", "gone", "gone after throw"},
         next' \in Nat \ {0}, Finals',
         Stopping \/ Gone => (Stopping \/ Gone)',
         Gone' => \A p \in Places : workers[p] \in {"none", "exited"}
  PROVE  VecInv'
<1>1. Shapes'
  BY DEF VecInv, Shapes, Values
<1>2. program' \in Programs
  BY DEF VecInv
<1>3. Submitted'
  BY DEF VecInv, Submitted, Values, Op
<1>4. InOrder'
  BY DEF VecInv, InOrder, Unfinished
<1>5. Held'
  BY DEF VecInv, Held, Unfinished, Values, Op
<1>6. Manned'
  <2>1. caller' # "enqueue" /\ \A p : Unfinished(p)' = Unfinished(p)
    BY UnfinishedFramed
  <2>2. stopping' # {} => (Stopping \/ Gone)'
    BY DEF VecInv, Manned
  <2>3. \A p \in Places : /\ workers'[p] \in {"none", "exited"} => Unfinished(p) = {}
                          /\ workers'[p] = "exited" => p \in stopping'
    BY DEF VecInv, Manned
  <2>4. Gone' => \A p \in Places : workers'[p] \in {"none", "exited"}
    OBVIOUS
  <2> QED
    BY <2>1, <2>2, <2>3, <2>4 DEF Manned
<1>7. Sleepers'
  BY DEF VecInv, Sleepers, Op
<1>8. NoLostWakeup'
  <2>4. ASSUME NEW u, u # Caller PROVE Awaited(u)' = Awaited(u)
    <3>1. CASE u \in Places /\ workers[u] = "run"
      <4>1. u \notin Readers
        BY <3>1, ExecutorConstantsOK
      <4> QED
        BY <2>4, <3>1, <4>1 DEF Awaited, Op
    <3>2. CASE u \in Readers /\ reader[u] = "reading" /\ ~(u \in Places /\ workers[u] = "run")
      BY <2>4, <3>2 DEF Awaited, Op
    <3>3. CASE ~(u \in Readers /\ reader[u] = "reading") /\ ~(u \in Places /\ workers[u] = "run")
      BY <2>4, <3>3 DEF Awaited, Op
    <3> QED
      BY <3>1, <3>2, <3>3
  <2>1. \A u \in asleep : Awaited(u)' = Awaited(u)
    BY <2>4
  <2>2. \A u : Completed(u)' = Completed(u)
    BY DEF Completed, State
  <2>3. \A u \in asleep : Completed(Awaited(u))' = Completed(Awaited(u))
    BY <2>1, <2>2 DEF Completed, State
  <2> QED
    BY <2>1, <2>3 DEF VecInv, NoLostWakeup, Op
<1> QED
  BY <1>1, <1>2, <1>3, <1>4, <1>5, <1>6, <1>7, <1>8, Framed DEF VecInv


-----------------------------------------------------------------------------
(***************************************************************************)
(* The caller.                                                             *)
(***************************************************************************)
\* Where the caller is when it is inside a condition variable.
LEMMA CallerAwake ==
  ASSUME VecInv, ~(caller = "synchronize" /\ next \in DOMAIN program.finals)
  PROVE  Caller \notin asleep
  BY ExecutorConstantsOK DEF VecInv, Sleepers

\* The steps of the caller that follow the last computation, or give up.
LEMMA GoingOnKeeps ==
  ASSUME VecInv,
         RejectCompute \/ StartSynchronize \/ Synchronize \/ Return \/ AbortAll \/ Stop \/ JoinWorkers
  PROVE  VecInv'
<1> USE DEF Gone, Stopping
<1>0. /\ Len(program.ops) \in Nat /\ Values = 1 .. Len(program.ops)
      /\ DOMAIN program.finals = 1 .. Len(program.finals) /\ Len(program.finals) \in Nat
      /\ next \in Nat \ {0}
  BY ProgramShape DEF VecInv, Shapes
<1>1. CASE RejectCompute
  <2>1. Caller \notin asleep
    BY <1>1, CallerAwake DEF RejectCompute, Computing
  <2>2. Finals'
    BY <1>0, <1>1 DEF Finals, RejectCompute, Computing, Op, Values
  <2> QED
    BY <1>0, <1>1, <2>1, <2>2, CallerKeeps DEF RejectCompute, Computing
<1>2. CASE StartSynchronize
  <2>1. Caller \notin asleep
    BY <1>2, CallerAwake DEF StartSynchronize
  <2>2. Finals'
    BY <1>0, <1>2 DEF Finals, StartSynchronize
  <2> QED
    BY <1>0, <1>2, <2>1, <2>2, CallerKeeps DEF StartSynchronize
<1>3. CASE Synchronize
  <2> DEFINE out == program.finals[next]
  <2>1. /\ caller = "synchronize" /\ next \in DOMAIN program.finals /\ Caller \notin asleep
        /\ UNCHANGED <<program, cell, workers, queue, task, operand, stopping, reader, asleep>>
        /\ \/ State(out) = "ready" /\ caller' = caller /\ next' = next + 1
           \/ State(out) = "failed" /\ caller' = "threw" /\ next' = next
    BY <1>0, <1>3 DEF Synchronize, Completed
  <2>2. \A v : State(v)' = State(v)
    BY <2>1 DEF State
  <2>3. \A k \in DOMAIN program.finals : k < next => State(program.finals[k]) = "ready"
    BY <2>1 DEF VecInv, Finals
  <2>4. CASE State(out) = "ready" /\ caller' = caller /\ next' = next + 1
    <3>1. \A k \in DOMAIN program.finals : k < next + 1 => State(program.finals[k]) = "ready"
      BY <1>0, <2>3, <2>4
    <3>2. Finals'
      BY <2>1, <2>2, <2>4, <3>1 DEF Finals
    <3>3. next' \in Nat \ {0}
      BY <1>0, <2>4
    <3> QED
      BY <2>1, <2>4, <3>2, <3>3, CallerKeeps
  <2>5. CASE State(out) = "failed" /\ caller' = "threw" /\ next' = next
    <3>1. Finals'
      BY <2>1, <2>2, <2>5 DEF Finals
    <3> QED
      BY <1>0, <2>1, <2>5, <3>1, CallerKeeps
  <2> QED
    BY <2>1, <2>4, <2>5
<1>4. CASE Return
  <2>1. Caller \notin asleep
    BY <1>0, <1>4, CallerAwake DEF Return
  <2>2. Finals'
    BY <1>0, <1>4 DEF VecInv, Finals, Return, State
  <2> QED
    BY <1>0, <1>4, <2>1, <2>2, CallerKeeps DEF Return
<1>5. CASE AbortAll
  <2>1. Caller \notin asleep
    BY <1>5, CallerAwake DEF AbortAll
  <2>2. Finals'
    BY <1>5 DEF VecInv, Finals, AbortAll, State, Values, Op
  <2> QED
    BY <1>0, <1>5, <2>1, <2>2, CallerKeeps DEF AbortAll
<1>6. CASE Stop
  <2>1. Caller \notin asleep
    BY <1>6, CallerAwake DEF Stop, Left
  <2>2. /\ UNCHANGED <<program, next, cell, workers, queue, task, operand, stopping, reader, asleep>>
        /\ \/ caller = "returned" /\ caller' = "stopping"
           \/ caller = "aborted" /\ caller' = "stopping after throw"
    <3>1. StoppedAs["returned"] = "stopping" /\ StoppedAs["aborted"] = "stopping after throw"
      BY DEF StoppedAs
    <3> QED
      BY <1>6, <3>1 DEF Stop, Left
  <2>3. Finals'
    BY <2>2 DEF VecInv, Finals, State, Values, Op
  <2> QED
    BY <1>0, <2>1, <2>2, <2>3, CallerKeeps
<1>7. CASE JoinWorkers
  <2>1. Caller \notin asleep
    BY <1>7, CallerAwake DEF JoinWorkers
  <2>2. Finals'
    BY <1>7 DEF VecInv, Finals, JoinWorkers, State, Values, Op
  <2>3. \A p \in Places : workers[p] \in {"none", "exited"}
    BY <1>7 DEF JoinWorkers, Started
  <2> QED
    BY <1>0, <1>7, <2>1, <2>2, <2>3, CallerKeeps DEF JoinWorkers
<1> QED
  BY <1>1, <1>2, <1>3, <1>4, <1>5, <1>6, <1>7

\* A worker is told to stop, and wakes up if it waits for tasks.
LEMMA StopWorkerKeeps ==
  ASSUME VecInv, NEW p \in Places, StopWorker(p)
  PROVE  VecInv'
<1>1. /\ UNCHANGED <<program, caller, next, cell, workers, queue, task, operand, reader>>
      /\ Stopping /\ stopping' = stopping \cup {p}
      /\ asleep' = {t \in asleep : ~(t = p /\ WorkerIdle(t))}
      /\ asleep' \subseteq asleep
  BY DEF StopWorker
<1>2. Shapes'
  BY <1>1 DEF VecInv, Shapes, Values
<1>3. program' \in Programs
  BY <1>1 DEF VecInv
<1>4. Manned'
  <2>1. \A q : Unfinished(q)' = Unfinished(q)
    BY <1>1, UnfinishedFramed
  <2>2. caller # "enqueue"
    BY <1>1 DEF Stopping
  <2> QED
    BY <1>1, <2>1, <2>2 DEF VecInv, Manned, Stopping, Gone
<1>5. NoLostWakeup'
  <2>1. \A u : Awaited(u)' = Awaited(u)
    BY <1>1 DEF Awaited, Op
  <2>2. \A u : Completed(Awaited(u))' = Completed(Awaited(u))
    BY <1>1, <2>1 DEF Completed, State
  <2>3. ASSUME NEW u \in asleep', u \in Places, workers[u] = "look"
        PROVE  u # p
    BY <1>1, <2>3 DEF WorkerIdle
  <2> QED
    BY <1>1, <2>1, <2>2, <2>3 DEF VecInv, NoLostWakeup, Op
<1> QED
  BY <1>1, <1>2, <1>3, <1>4, <1>5, Framed DEF VecInv

\* A value is handed out before its task is enqueued.
LEMMA WorkerForKeeps ==
  ASSUME VecInv, WorkerFor
  PROVE  VecInv'
<1> DEFINE at == Op(next).place
<1>1. /\ UNCHANGED <<program, next, queue, task, operand, stopping, reader, asleep>>
      /\ caller = "compute" /\ caller' = "enqueue"
      /\ Op(next).fault # "metadata" /\ next \in Values
      /\ cell' = [cell EXCEPT ![next] = "pending"]
      /\ workers' = [workers EXCEPT ![at] = IF @ = "none" THEN "look" ELSE @]
  <2>1. next \in Values
    <3>1. next \in Nat \ {0} /\ next <= Len(program.ops)
      BY DEF VecInv, Shapes, WorkerFor, Computing
    <3> QED
      BY <3>1, ProgramShape DEF VecInv
  <2> QED
    BY <2>1 DEF WorkerFor, Computing
<1>2. /\ at \in Places /\ next \in Nat /\ \A v \in Values : v \in Nat /\ v # 0
      /\ cell \in [Values -> {"none", "pending", "ready", "failed"}]
      /\ workers \in [Places -> {"none", "look", "run", "notify", "exited"}]
  BY <1>1, ProgramShape DEF VecInv, Shapes
<1> HIDE DEF at
<1>3. program' \in Programs /\ \A v : Op(v)' = Op(v)
  BY <1>1 DEF VecInv, Op
<1>4. Shapes'
  BY <1>1, <1>2 DEF VecInv, Shapes, Values
<1>5. /\ cell[next] = "none"
      /\ \A v \in Values : cell'[v] = IF v = next THEN "pending" ELSE cell[v]
      /\ \A v \in Values : cell[v] = "none" <=> v >= next
  BY <1>1, <1>2 DEF VecInv, Submitted
<1>6. \A p \in Places : /\ workers'[p] = IF p = at /\ workers[p] = "none" THEN "look" ELSE workers[p]
                        /\ workers'[p] = "run" <=> workers[p] = "run"
                        /\ workers'[p] = "notify" <=> workers[p] = "notify"
  BY <1>1, <1>2
<1>7. \A p \in Places : Unfinished(p)' = Unfinished(p)
  BY <1>1, <1>6 DEF Unfinished
<1>8. \A v \in 0 .. Len(program.ops) : Completed(v)' <=> Completed(v)
  BY <1>1, <1>2, <1>5, ProgramShape DEF VecInv, Completed, State
<1>9. \A v \in 0 .. Len(program.ops) : State(v) = "ready" => State(v)' = "ready"
  BY <1>1, <1>2, <1>5, ProgramShape DEF VecInv, State
<1>10. \A p \in Places : workers[p] = "run" => task[p] \in Values /\ cell[task[p]] = "pending"
  BY DEF VecInv, Shapes, Tasks, Unfinished
<1>11. Tasks'
  <2>1. ASSUME NEW p \in Places, NEW v \in Unfinished(p)
        PROVE  cell'[v] = "pending" /\ Op(v).place = p
    BY <1>5, UnfinishedShape
  <2> QED
    BY <1>3, <1>7, <2>1 DEF Tasks
<1>12. Submitted'
  <2>1. ASSUME NEW v \in Values, cell'[v] # "none"
        PROVE  Op(v).fault # "metadata" /\ \A w \in 1 .. v : cell'[w] # "none"
    <3>1. v <= next /\ \A w \in 1 .. v : w \in Values
      BY <1>2, <1>5, <2>1, ProgramShape DEF VecInv
    <3> QED
      BY <1>1, <1>2, <1>5, <2>1, <3>1 DEF VecInv, Submitted
  <2>2. \A v \in Values : cell'[v] = "none" <=> v > next
    BY <1>2, <1>5
  <2> QED
    BY <1>1, <1>3, <2>1, <2>2 DEF Submitted, Values
<1>13. InOrder'
  <2>1. ASSUME NEW p \in Places, NEW v \in Unfinished(p) PROVE v < next
    BY <1>2, <1>5, UnfinishedShape
  <2> QED
    BY <1>1, <1>6, <1>7, <2>1 DEF VecInv, InOrder
<1>14. OperandsRead'
  <2>1. ASSUME NEW p \in Places, workers[p] = "run", NEW k \in DOMAIN Op(task[p]).inputs
        PROVE  Op(task[p]).inputs[k] \in 0 .. Len(program.ops)
    BY <1>10, <2>1, ProgramShape DEF VecInv
  <2> QED
    BY <1>1, <1>3, <1>6, <1>9, <2>1 DEF VecInv, OperandsRead
<1>15. SameAsSync'
  <2>1. ASSUME NEW v \in Values, NEW k \in DOMAIN Op(v).inputs
        PROVE  Op(v).inputs[k] \in 0 .. Len(program.ops)
    BY ProgramShape DEF VecInv
  <2>2. Sound' = Sound /\ Values' = Values
    BY <1>1 DEF Sound, Values
  <2>3. \A v \in Values : cell'[v] \in {"ready", "failed"} => cell'[v] = cell[v]
    BY <1>5
  <2>4. \A v \in Values : \A k \in DOMAIN Op(v).inputs :
          Completed(Op(v).inputs[k])' <=> Completed(Op(v).inputs[k])
    BY <1>1, <1>8, <2>1 DEF Completed, State, Op
  <2> QED
    BY <1>3, <2>2, <2>3, <2>4 DEF VecInv, SameAsSync
<1>16. Held'
  <2>1. ASSUME NEW v \in Values, cell'[v] = "pending"
        PROVE  v \in Unfinished(Op(v).place) \/ v = next
    BY <1>1, <1>5, <2>1 DEF VecInv, Held
  <2>2. \A v \in Values : Op(v).place \in Places
    BY ProgramShape DEF VecInv
  <2> QED
    BY <1>1, <1>3, <1>7, <2>1, <2>2 DEF Held, Values
<1>17. Manned'
  <2>1. stopping = {}
    BY <1>1 DEF VecInv, Manned, Stopping, Gone
  <2>2. \A p \in Places : workers[p] # "exited"
    BY <2>1 DEF VecInv, Manned
  <2>3. cell'[next] = "pending" /\ workers'[at] # "none"
    BY <1>1, <1>2, <1>5, <1>6
  <2>4. ~Gone'
    BY <1>1 DEF Gone
  <2>5. \A p \in Places : workers'[p] \in {"none", "exited"} => Unfinished(p) = {}
    BY <1>6 DEF VecInv, Manned
  <2>6. \A p \in Places : workers'[p] # "exited"
    BY <1>6, <2>2
  <2> QED
    BY <1>1, <1>3, <1>7, <2>1, <2>3, <2>4, <2>5, <2>6 DEF Manned, at
<1>18. Finals'
  BY <1>1 DEF Finals
<1>19. Notifying'
  BY <1>1, <1>2, <1>5, <1>6 DEF VecInv, Notifying, Completed, State, Values
<1>20. ReadersOK'
  BY <1>1, <1>5, ProgramShape DEF VecInv, ReadersOK
<1>21. Sleepers'
  <2>1. Caller \notin asleep
    BY <1>1, CallerAwake
  <2>2. \A u \in asleep : u \in Places => workers[u] \in {"look", "run"} /\ workers'[u] = workers[u]
    BY <1>6, ExecutorConstantsOK DEF VecInv, Sleepers
  <2> QED
    BY <1>1, <1>3, <2>1, <2>2 DEF VecInv, Sleepers
<1>22. NoLostWakeup'
  <2>1. Caller \notin asleep
    BY <1>1, CallerAwake
  <2>2. \A u \in asleep : u \in Places => workers[u] \in {"look", "run"} /\ workers'[u] = workers[u]
    BY <1>6, ExecutorConstantsOK DEF VecInv, Sleepers
  <2>3. ASSUME NEW u \in asleep PROVE Awaited(u)' = Awaited(u)
    BY <1>1, <2>1, <2>2 DEF Awaited, Op
  <2>4. ASSUME NEW u \in asleep, ~(u \in Places /\ workers[u] = "look")
        PROVE  Awaited(u) \in 0 .. Len(program.ops)
    BY <2>4, AwaitedShape
  <2>5. ASSUME NEW u \in asleep, ~(u \in Places /\ workers[u] = "look")
        PROVE  Completed(Awaited(u))' <=> Completed(Awaited(u))
    BY <1>1, <1>8, <2>3, <2>4, <2>5 DEF Completed, State
  <2> QED
    BY <1>1, <1>3, <1>6, <2>2, <2>3, <2>5 DEF VecInv, NoLostWakeup
<1>23. Tables'
  BY <1>1, Framed DEF VecInv
<1> QED
  BY <1>3, <1>4, <1>11, <1>12, <1>13, <1>14, <1>15, <1>16, <1>17, <1>18, <1>19, <1>20, <1>21, <1>22, <1>23
     DEF VecInv


\* The task is appended to the queue of its place.
LEMMA EnqueueKeeps ==
  ASSUME VecInv, Enqueue
  PROVE  VecInv'
<1>0. PICK at : at = Op(next).place
  OBVIOUS
<1>1. /\ UNCHANGED <<program, next, cell, workers, task, operand, stopping, reader, asleep>>
      /\ caller = "enqueue" /\ caller' = "notify"
      /\ queue' = [queue EXCEPT ![at] = Append(@, next)]
  BY <1>0 DEF Enqueue
<1>2. next \in Values /\ next \in Nat /\ at \in Places /\ at = Op(next).place
      /\ cell[next] = "pending" /\ workers[at] # "none"
  BY <1>0, <1>1, ProgramShape DEF VecInv, Submitted, Manned
<1>3. program' \in Programs /\ \A v : Op(v)' = Op(v)
  BY <1>1 DEF VecInv, Op
<1>4. \A p \in Places : queue'[p] = IF p = at THEN Append(queue[p], next) ELSE queue[p]
  BY <1>1 DEF VecInv, Tables
<1>5. queue[at] \in Seq(Values)
  BY <1>2 DEF VecInv, Shapes
<1>6. /\ Len(queue[at]) \in Nat /\ DOMAIN queue[at] = 1 .. Len(queue[at])
      /\ queue'[at] \in Seq(Values)
      /\ DOMAIN queue'[at] = 1 .. Len(queue[at]) + 1
      /\ \A k \in 1 .. Len(queue[at]) : queue'[at][k] = queue[at][k]
      /\ queue'[at][Len(queue[at]) + 1] = next
  <2>1. queue'[at] = Append(queue[at], next)
    BY <1>2, <1>4
  <2>2. ASSUME NEW q \in Seq(Values)
        PROVE  /\ Len(q) \in Nat /\ DOMAIN q = 1 .. Len(q)
               /\ Append(q, next) \in Seq(Values) /\ DOMAIN Append(q, next) = 1 .. Len(q) + 1
               /\ \A k \in 1 .. Len(q) : Append(q, next)[k] = q[k]
               /\ Append(q, next)[Len(q) + 1] = next
    BY <1>2
  <2> QED
    BY <1>5, <2>1, <2>2
<1>7. \A p \in Places : p # at => Unfinished(p)' = Unfinished(p)
  BY <1>1, <1>4 DEF Unfinished
<1>8. Unfinished(at)' = Unfinished(at) \cup {next}
  <2>1. {queue'[at][k] : k \in DOMAIN queue'[at]} = {queue[at][k] : k \in DOMAIN queue[at]} \cup {next}
    BY SMTT(30), <1>6
  <2> QED
    BY <1>1, <2>1 DEF Unfinished
<1>9. Tables'
  BY <1>1 DEF VecInv, Tables
<1>10. Shapes'
  BY <1>1, <1>4, <1>6 DEF VecInv, Shapes, Values
<1>11. Tasks'
  <2>1. ASSUME NEW p \in Places, NEW v \in Unfinished(p)'
        PROVE  cell[v] = "pending" /\ Op(v).place = p
    BY <1>2, <1>7, <1>8, UnfinishedShape
  <2> QED
    BY <1>1, <1>3, <2>1 DEF Tasks
<1>12. Submitted'
  BY <1>1 DEF VecInv, Submitted, Values, Op
<1>13. InOrder'
  <2>1. \A k \in DOMAIN queue[at] : queue[at][k] \in Unfinished(at) /\ queue[at][k] < next
    <3>1. \A k \in DOMAIN queue[at] : queue[at][k] \in Unfinished(at)
      BY DEF Unfinished
    <3> QED
      BY <1>1, <1>2, <3>1 DEF VecInv, InOrder
  <2>2. \A i, j \in DOMAIN queue'[at] : i < j => queue'[at][i] < queue'[at][j]
    <3>1. \A i, j \in DOMAIN queue[at] : i < j => queue[at][i] < queue[at][j]
      BY <1>2 DEF VecInv, InOrder
    <3> QED
      BY SMTT(30), <1>6, <2>1, <3>1
  <2>3. workers[at] = "run" => \A i \in DOMAIN queue'[at] : task[at] < queue'[at][i]
    <3>1. workers[at] = "run" => task[at] < next /\ \A i \in DOMAIN queue[at] : task[at] < queue[at][i]
      <4>1. workers[at] = "run" => task[at] \in Unfinished(at)
        BY DEF Unfinished
      <4> QED
        BY <1>1, <1>2, <4>1 DEF VecInv, InOrder
    <3> QED
      BY <1>6, <3>1
  <2>4. \A p \in Places : p # at =>
          /\ \A i, j \in DOMAIN queue'[p] : i < j => queue'[p][i] < queue'[p][j]
          /\ workers[p] = "run" => \A i \in DOMAIN queue'[p] : task[p] < queue'[p][i]
    BY <1>4 DEF VecInv, InOrder
  <2> QED
    BY <1>1, <2>2, <2>3, <2>4 DEF InOrder
<1>14. Held'
  <2>1. \A v \in Values : Op(v).place \in Places
    BY ProgramShape DEF VecInv
  <2>2. \A v \in Values : cell[v] = "pending" => v \in Unfinished(Op(v).place) \/ v = next
    BY DEF VecInv, Held
  <2>3. ASSUME NEW v \in Values, cell[v] = "pending"
        PROVE  \E p \in Places : p = Op(v).place /\ v \in Unfinished(p)'
    BY <1>2, <1>7, <1>8, <2>1, <2>2, <2>3
  <2>4. ASSUME NEW v \in Values, cell[v] = "pending"
        PROVE  v \in Unfinished(Op(v).place)'
    BY <1>3, <2>3, <2>4 DEF Unfinished
  <2> QED
    BY <1>1, <2>4 DEF Held, Values
<1>15. Manned'
  <2>1. stopping = {}
    BY <1>1 DEF VecInv, Manned, Stopping, Gone
  <2>2. \A p \in Places : workers[p] # "exited"
    BY <2>1 DEF VecInv, Manned
  <2>3. \A p \in Places : workers[p] = "none" => Unfinished(p)' = {}
    BY <1>2, <1>7 DEF VecInv, Manned
  <2> QED
    BY <1>1, <2>1, <2>2, <2>3 DEF Manned, Gone
<1>16. Finals'
  BY <1>1 DEF Finals
<1>17. Sleepers'
  BY <1>1, <1>3 DEF VecInv, Sleepers
<1>18. NoLostWakeup'
  <2>1. Caller \notin asleep
    BY <1>1, CallerAwake
  <2>2. \A u : u # Caller => Awaited(u)' = Awaited(u)
    BY <1>1 DEF Awaited, Op
  <2>3. \A u \in asleep : Completed(Awaited(u))' = Completed(Awaited(u))
    BY <1>1, <2>1, <2>2 DEF Completed, State
  <2>4. \A u \in asleep : Awaited(u)' = Awaited(u)
    BY <2>1, <2>2
  <2>5. \A u \in asleep : u \in Places /\ workers[u] = "look" =>
          queue'[u] = <<>> \/ Op(next).place = u
    BY <1>1, <1>2, <1>4 DEF VecInv, NoLostWakeup
  <2> QED
    BY <1>1, <1>3, <2>3, <2>4, <2>5 DEF VecInv, NoLostWakeup
<1> QED
  BY <1>1, <1>3, <1>9, <1>10, <1>11, <1>12, <1>13, <1>14, <1>15, <1>16, <1>17, <1>18, Framed DEF VecInv

\* The worker of that place is notified.
LEMMA NotifyWorkerKeeps ==
  ASSUME VecInv, NotifyWorker
  PROVE  VecInv'
<1>1. /\ UNCHANGED <<program, cell, workers, queue, task, operand, stopping, reader>>
      /\ caller = "notify" /\ caller' = "compute" /\ next' = next + 1
      /\ asleep' = {t \in asleep : ~(t = Op(next).place /\ WorkerIdle(t))}
  BY DEF NotifyWorker
<1>2. next \in Values /\ next \in Nat /\ \A v \in Values : v \in Nat
  BY <1>1, ProgramShape DEF VecInv, Submitted
<1>3. program' \in Programs /\ \A v : Op(v)' = Op(v)
  BY <1>1 DEF VecInv, Op
<1>4. Shapes'
  BY <1>1, <1>2 DEF VecInv, Shapes, Values
<1>5. Submitted'
  BY <1>1, <1>2, <1>3 DEF VecInv, Submitted, Values
<1>6. InOrder'
  BY <1>1 DEF VecInv, InOrder, Unfinished
<1>7. Held'
  BY <1>1 DEF VecInv, Held, Unfinished, Values, Op
<1>8. Manned'
  <2>1. \A p : Unfinished(p)' = Unfinished(p)
    BY <1>1, UnfinishedFramed
  <2> QED
    BY <1>1, <2>1 DEF VecInv, Manned, Stopping, Gone
<1>9. Finals'
  BY <1>1 DEF Finals
<1>10. Caller \notin asleep
  BY <1>1, CallerAwake
<1>11. Sleepers'
  BY <1>1, <1>3, <1>10 DEF VecInv, Sleepers
<1>12. NoLostWakeup'
  <2>2. \A u : u # Caller => Awaited(u)' = Awaited(u)
    BY <1>1 DEF Awaited, Op
  <2>3. \A u \in asleep : Completed(Awaited(u))' = Completed(Awaited(u))
    BY <1>1, <1>10, <2>2 DEF Completed, State
  <2>4. \A u \in asleep : Awaited(u)' = Awaited(u)
    BY <1>10, <2>2
  <2>5. \A u \in asleep' : u \in Places /\ workers[u] = "look" => queue[u] = <<>> /\ u \notin stopping
    BY <1>1 DEF VecInv, NoLostWakeup, WorkerIdle
  <2> QED
    BY <1>1, <1>3, <2>3, <2>4, <2>5 DEF VecInv, NoLostWakeup
<1> QED
  BY <1>1, <1>3, <1>4, <1>5, <1>6, <1>7, <1>8, <1>9, <1>11, <1>12, Framed DEF VecInv


-----------------------------------------------------------------------------
(***************************************************************************)
(* The workers.                                                            *)
(***************************************************************************)
\* What a worker does on its own place does not touch what the sleepers wait for.
LEMMA OthersSleepOn ==
  ASSUME VecInv, NEW p \in Places, p \notin asleep,
         UNCHANGED <<program, caller, next, stopping, reader, asleep>>,
         \A q \in Places \ {p} : workers'[q] = workers[q] /\ queue'[q] = queue[q]
                                 /\ task'[q] = task[q] /\ operand'[q] = operand[q]
  PROVE  Sleepers' /\ \A u \in asleep : Awaited(u)' = Awaited(u)
<1>1. \A u \in asleep : u # p
  OBVIOUS
<1>2. Sleepers'
  BY <1>1 DEF VecInv, Sleepers, Op
<1>3. ASSUME NEW u \in asleep PROVE Awaited(u)' = Awaited(u)
  <2>1. u \in Places => workers'[u] = workers[u] /\ task'[u] = task[u] /\ operand'[u] = operand[u]
    BY <1>1
  <2> QED
    BY <2>1 DEF Awaited, Op
<1> QED
  BY <1>2, <1>3

\* A worker finds its queue empty and waits, under the mutex it looked with.
LEMMA WorkerWaitsKeeps ==
  ASSUME VecInv, NEW p \in Places, WorkerWaits(p)
  PROVE  VecInv'
<1>1. /\ UNCHANGED <<program, caller, next, cell, workers, queue, task, operand, stopping, reader>>
      /\ workers[p] = "look" /\ queue[p] = <<>> /\ p \notin stopping
      /\ asleep' = asleep \cup {p}
  BY DEF WorkerWaits, Looking, Sleep
<1>2. program' \in Programs
  BY <1>1 DEF VecInv
<1>3. Shapes'
  BY <1>1 DEF VecInv, Shapes, Values, Threads
<1>4. Sleepers'
  BY <1>1 DEF VecInv, Sleepers, Op
<1>5. NoLostWakeup'
  <2>1. \A u : Awaited(u)' = Awaited(u)
    BY <1>1 DEF Awaited, Op
  <2>2. \A u : Completed(Awaited(u))' = Completed(Awaited(u))
    BY <1>1, <2>1 DEF Completed, State
  <2> QED
    BY <1>1, <2>1, <2>2 DEF VecInv, NoLostWakeup, Op
<1> QED
  BY <1>1, <1>2, <1>3, <1>4, <1>5, Framed DEF VecInv

\* A worker that was told to stop leaves an empty queue behind.
LEMMA WorkerExitsKeeps ==
  ASSUME VecInv, NEW p \in Places, WorkerExits(p)
  PROVE  VecInv'
<1>1. /\ UNCHANGED <<program, caller, next, cell, queue, task, operand, stopping, reader, asleep>>
      /\ workers[p] = "look" /\ p \notin asleep /\ p \in stopping /\ queue[p] = <<>>
      /\ workers' = [workers EXCEPT ![p] = "exited"]
  BY DEF WorkerExits, Looking
<1>2. program' \in Programs
  BY <1>1 DEF VecInv
<1>3. \A q \in Places : workers'[q] = IF q = p THEN "exited" ELSE workers[q]
  BY <1>1 DEF VecInv, Shapes
<1>4. Shapes'
  BY <1>1, <1>3 DEF VecInv, Shapes, Values
<1>5. \A q \in Places : Unfinished(q)' = Unfinished(q)
  BY <1>1, <1>3 DEF Unfinished
<1>6. Unfinished(p) = {}
  BY <1>1 DEF Unfinished
<1>7. Tasks'
  BY <1>1, <1>5 DEF VecInv, Tasks, Op
<1>8. InOrder'
  BY <1>1, <1>3, <1>5 DEF VecInv, InOrder
<1>9. OperandsRead'
  BY <1>1, <1>3 DEF VecInv, OperandsRead, Op, State
<1>10. Held'
  <2>1. \A v \in Values : Op(v).place \in Places
    BY ProgramShape DEF VecInv
  <2> QED
    BY <1>1, <1>5, <2>1 DEF VecInv, Held, Values, Op
<1>11. Manned'
  <2>1. caller # "enqueue"
    BY <1>1 DEF VecInv, Manned, Stopping, Gone
  <2> QED
    BY <1>1, <1>3, <1>5, <1>6, <2>1 DEF VecInv, Manned, Stopping, Gone
<1>12. Notifying'
  BY <1>1, <1>3 DEF VecInv, Notifying, Values, Completed, State
<1>13. Sleepers' /\ \A u \in asleep : Awaited(u)' = Awaited(u)
  BY <1>1, <1>3, OthersSleepOn
<1>14. NoLostWakeup'
  <2>1. \A u \in asleep : Completed(Awaited(u))' = Completed(Awaited(u))
    BY <1>1, <1>13 DEF Completed, State
  <2> QED
    BY <1>1, <1>3, <1>13, <2>1 DEF VecInv, NoLostWakeup, Op
<1> QED
  BY <1>1, <1>2, <1>4, <1>7, <1>8, <1>9, <1>10, <1>11, <1>12, <1>13, <1>14, Framed DEF VecInv

\* The oldest task of a place is taken.
LEMMA TakeTaskKeeps ==
  ASSUME VecInv, NEW p \in Places, TakeTask(p)
  PROVE  VecInv'
<1>1. /\ UNCHANGED <<program, caller, next, cell, stopping, reader, asleep>>
      /\ workers[p] = "look" /\ p \notin asleep /\ queue[p] # <<>>
      /\ task' = [task EXCEPT ![p] = Head(queue[p])]
      /\ queue' = [queue EXCEPT ![p] = Tail(@)]
      /\ operand' = [operand EXCEPT ![p] = 1]
      /\ workers' = [workers EXCEPT ![p] = "run"]
  BY DEF TakeTask, Looking
<1>2. program' \in Programs
  BY <1>1 DEF VecInv
<1>3. \A q \in Places : /\ workers'[q] = IF q = p THEN "run" ELSE workers[q]
                        /\ task'[q] = IF q = p THEN Head(queue[p]) ELSE task[q]
                        /\ queue'[q] = IF q = p THEN Tail(queue[p]) ELSE queue[q]
                        /\ operand'[q] = IF q = p THEN 1 ELSE operand[q]
  BY <1>1 DEF VecInv, Shapes, Tables
<1>4. queue[p] \in Seq(Values)
  BY DEF VecInv, Shapes
<1>5. /\ DOMAIN queue[p] = 1 .. Len(queue[p]) /\ Len(queue[p]) \in Nat \ {0}
      /\ Head(queue[p]) \in Values /\ Head(queue[p]) = queue[p][1]
      /\ Tail(queue[p]) \in Seq(Values)
      /\ DOMAIN Tail(queue[p]) = 1 .. Len(queue[p]) - 1
      /\ \A k \in 1 .. Len(queue[p]) - 1 : Tail(queue[p])[k] = queue[p][k + 1]
  <2>1. ASSUME NEW q \in Seq(Values), q # <<>>
        PROVE  /\ DOMAIN q = 1 .. Len(q) /\ Len(q) \in Nat \ {0}
               /\ Head(q) \in Values /\ Head(q) = q[1]
               /\ Tail(q) \in Seq(Values) /\ DOMAIN Tail(q) = 1 .. Len(q) - 1
               /\ \A k \in 1 .. Len(q) - 1 : Tail(q)[k] = q[k + 1]
    BY <2>1
  <2> QED
    BY <1>1, <1>4, <2>1
<1>6. Head(queue[p]) # NoTask /\ Values \subseteq Nat
  BY <1>5, ProgramShape DEF VecInv, NoTask
<1>7. Shapes'
  <2>1. \A q \in Places : queue'[q] \in Seq(Values) /\ task'[q] \in Values \cup {NoTask}
    BY <1>3, <1>5 DEF VecInv, Shapes
  <2>2. \A q \in Places : workers'[q] = "run" => task'[q] # NoTask
    BY <1>3, <1>6 DEF VecInv, Shapes
  <2>3. /\ workers' \in [Places -> {"none", "look", "run", "notify", "exited"}]
        /\ operand' \in [Places -> Nat \ {0}]
    <3>1. \A S : operand \in [Places -> S] /\ 1 \in S => operand' \in [Places -> S]
      BY <1>1
    <3>2. \A S : workers \in [Places -> S] /\ "run" \in S => workers' \in [Places -> S]
      BY <1>1
    <3>3. 1 \in Nat \ {0}
      OBVIOUS
    <3>4. operand \in [Places -> Nat \ {0}] /\ workers \in [Places -> {"none", "look", "run", "notify", "exited"}]
      BY DEF VecInv, Shapes
    <3> QED
      BY <3>1, <3>2, <3>3, <3>4
  <2> QED
    BY <1>1, <2>1, <2>2, <2>3 DEF VecInv, Shapes, Values
<1>8. \A q \in Places : Unfinished(q)' = Unfinished(q)
  <2>1. {queue[p][k] : k \in DOMAIN queue[p]} =
          {Tail(queue[p])[k] : k \in DOMAIN Tail(queue[p])} \cup {Head(queue[p])}
    <3>1. \A k \in DOMAIN queue[p] : 
            k = 1 \/ (k - 1 \in DOMAIN Tail(queue[p]) /\ queue[p][k] = Tail(queue[p])[k - 1])
      BY <1>5
    <3>2. \A k \in DOMAIN Tail(queue[p]) : k + 1 \in DOMAIN queue[p] /\ Tail(queue[p])[k] = queue[p][k + 1]
      BY <1>5
    <3>3. 1 \in DOMAIN queue[p]
      BY <1>5
    <3>4. ASSUME NEW k \in DOMAIN queue[p]
          PROVE  queue[p][k] \in {Tail(queue[p])[j] : j \in DOMAIN Tail(queue[p])} \cup {Head(queue[p])}
      BY <1>5, <3>1
    <3>5. ASSUME NEW j \in DOMAIN Tail(queue[p])
          PROVE  Tail(queue[p])[j] \in {queue[p][k] : k \in DOMAIN queue[p]}
      BY <3>2
    <3>6. Head(queue[p]) \in {queue[p][k] : k \in DOMAIN queue[p]}
      BY <1>5, <3>3
    <3> QED
      BY ONLY <3>4, <3>5, <3>6
  <2>2. Unfinished(p)' = Unfinished(p)
    BY <1>1, <1>3, <2>1 DEF Unfinished
  <2>3. \A q \in Places \ {p} : Unfinished(q)' = Unfinished(q)
    BY <1>3 DEF Unfinished
  <2> QED
    BY <2>2, <2>3
<1>9. Tasks'
  BY <1>1, <1>8 DEF VecInv, Tasks, Op
<1>10. InOrder'
  <2>1. \A i, j \in DOMAIN queue[p] : i < j => queue[p][i] < queue[p][j]
    BY DEF VecInv, InOrder
  <2>2. ASSUME NEW i \in DOMAIN Tail(queue[p]), NEW j \in DOMAIN Tail(queue[p]), i < j
        PROVE  Tail(queue[p])[i] < Tail(queue[p])[j]
    <3>1. i + 1 \in DOMAIN queue[p] /\ j + 1 \in DOMAIN queue[p] /\ i + 1 < j + 1
      BY <1>5, <2>2
    <3>2. queue[p][i + 1] < queue[p][j + 1]
      BY <2>1, <3>1
    <3> QED
      BY <1>5, <3>2
  <2>3. ASSUME NEW i \in DOMAIN Tail(queue[p])
        PROVE  Head(queue[p]) < Tail(queue[p])[i]
    <3>1. i + 1 \in DOMAIN queue[p] /\ 1 \in DOMAIN queue[p] /\ 1 < i + 1
      BY <1>5
    <3>2. queue[p][1] < queue[p][i + 1]
      BY <2>1, <3>1
    <3> QED
      BY <1>5, <3>2
  <2>4. \A q \in Places : caller = "enqueue" => \A v \in Unfinished(q) : v < next
    BY DEF VecInv, InOrder
  <2>5. \A q \in Places \ {p} :
          /\ \A i, j \in DOMAIN queue'[q] : i < j => queue'[q][i] < queue'[q][j]
          /\ workers'[q] = "run" => \A i \in DOMAIN queue'[q] : task'[q] < queue'[q][i]
    BY <1>3 DEF VecInv, InOrder
  <2>6. /\ \A i, j \in DOMAIN queue'[p] : i < j => queue'[p][i] < queue'[p][j]
        /\ workers'[p] = "run" => \A i \in DOMAIN queue'[p] : task'[p] < queue'[p][i]
    BY <1>3, <2>2, <2>3
  <2>7. \A q \in Places : caller' = "enqueue" => \A v \in Unfinished(q)' : v < next'
    BY <1>1, <1>8, <2>4
  <2> QED
    BY <2>5, <2>6, <2>7 DEF InOrder
<1>11. OperandsRead'
  <2>1. ASSUME NEW q \in Places, workers'[q] = "run",
               NEW k \in DOMAIN Op(task'[q]).inputs, k < operand'[q]
        PROVE  State(Op(task'[q]).inputs[k]) = "ready"
    <3>1. CASE q = p
      <4>1. k \in Nat /\ k # 0 /\ k < 1
        BY <1>3, <1>5, <2>1, <3>1, ProgramShape DEF VecInv
      <4> QED
        BY <4>1
    <3>2. CASE q # p
      BY <1>3, <2>1, <3>2 DEF VecInv, OperandsRead
    <3> QED
      BY <3>1, <3>2
  <2> QED
    BY <1>1, <2>1 DEF OperandsRead, Op, State
<1>12. Held'
  <2>1. \A v \in Values : Op(v).place \in Places
    BY ProgramShape DEF VecInv
  <2> QED
    BY <1>1, <1>8, <2>1 DEF VecInv, Held, Values, Op
<1>13. Manned'
  <2>1. ~Gone
    BY <1>1 DEF VecInv, Manned
  <2>2. \A q \in Places : workers'[q] \in {"none", "exited"} => workers'[q] = workers[q]
    BY <1>3
  <2>3. \A q \in Places : workers[q] # "none" => workers'[q] # "none"
    BY <1>3
  <2>4. caller = "enqueue" => Op(next).place \in Places
    BY ProgramShape DEF VecInv, Submitted
  <2> QED
    BY <1>1, <1>8, <2>1, <2>2, <2>3, <2>4 DEF VecInv, Manned, Stopping, Gone, Op
<1>14. Notifying'
  BY <1>1, <1>3 DEF VecInv, Notifying, Values, Completed, State
<1>15. Sleepers' /\ \A u \in asleep : Awaited(u)' = Awaited(u)
  BY <1>1, <1>3, OthersSleepOn
<1>16. NoLostWakeup'
  <2>1. \A u \in asleep : Completed(Awaited(u))' = Completed(Awaited(u))
    BY <1>1, <1>15 DEF Completed, State
  <2> QED
    BY <1>1, <1>3, <1>15, <2>1 DEF VecInv, NoLostWakeup, Op
<1>17. Tables'
  BY <1>1 DEF VecInv, Tables
<1> QED
  BY <1>1, <1>2, <1>7, <1>9, <1>10, <1>11, <1>12, <1>13, <1>14, <1>15, <1>16, <1>17, Framed DEF VecInv

\* A worker has read an operand.
LEMMA ReadOperandKeeps ==
  ASSUME VecInv, NEW p \in Places, ReadOperand(p)
  PROVE  VecInv'
<1>1. /\ UNCHANGED <<program, caller, next, cell, workers, queue, task, stopping, reader, asleep>>
      /\ workers[p] = "run" /\ p \notin asleep
      /\ State(Op(task[p]).inputs[operand[p]]) = "ready"
      /\ operand' = [operand EXCEPT ![p] = @ + 1]
  BY DEF ReadOperand, AtOperand
<1>2. program' \in Programs
  BY <1>1 DEF VecInv
<1>3. /\ operand[p] \in Nat
      /\ \A q \in Places : operand'[q] = IF q = p THEN operand[p] + 1 ELSE operand[q]
  BY <1>1 DEF VecInv, Shapes
<1>4. Shapes'
  <2>1. operand' \in [Places -> Nat \ {0}]
    <3>1. \A S : operand \in [Places -> S] /\ operand[p] + 1 \in S => operand' \in [Places -> S]
      BY <1>1
    <3>2. operand[p] + 1 \in Nat \ {0}
      BY <1>3
    <3>3. operand \in [Places -> Nat \ {0}]
      BY DEF VecInv, Shapes
    <3> QED
      BY <3>1, <3>2, <3>3
  <2> QED
    BY <1>1, <2>1 DEF VecInv, Shapes, Values
<1>5. OperandsRead'
  <2>1. task[p] \in Values
    BY <1>1 DEF VecInv, Shapes
  <2>2. \A k \in DOMAIN Op(task[p]).inputs : k \in Nat
    BY <2>1, ProgramShape DEF VecInv
  <2>3. \A k \in DOMAIN Op(task[p]).inputs : k < operand[p] + 1 => k < operand[p] \/ k = operand[p]
    BY <1>3, <2>2
  <2> QED
    BY <1>1, <1>3, <2>3 DEF VecInv, OperandsRead, Op, State
<1>6. Sleepers' /\ \A u \in asleep : Awaited(u)' = Awaited(u)
  BY <1>1, <1>3, OthersSleepOn
<1>7. NoLostWakeup'
  <2>1. \A u \in asleep : Completed(Awaited(u))' = Completed(Awaited(u))
    BY <1>1, <1>6 DEF Completed, State
  <2> QED
    BY <1>1, <1>6, <2>1 DEF VecInv, NoLostWakeup, Op
<1> QED
  BY <1>1, <1>2, <1>4, <1>5, <1>6, <1>7, Framed DEF VecInv


\* A task is over: its value is completed, with the outcome of the synchronous mode.
LEMMA CompleteKeeps ==
  ASSUME VecInv, NEW p \in Places, NEW s \in {"ready", "failed"}, Complete(p, s),
         workers[p] = "run", p \notin asleep,
         s = "ready" => /\ Sound[task[p]]
                        /\ \A k \in DOMAIN Op(task[p]).inputs : Completed(Op(task[p]).inputs[k]),
         s = "failed" => ~Sound[task[p]]
  PROVE  VecInv'
<1>0. PICK v : v = task[p]
  OBVIOUS
<1>1. /\ UNCHANGED <<program, caller, next, queue, task, operand, stopping, reader, asleep>>
      /\ cell' = [cell EXCEPT ![v] = s]
      /\ workers' = [workers EXCEPT ![p] = "notify"]
  BY <1>0 DEF Complete
<1>2. v \in Unfinished(p)
  BY <1>0 DEF Unfinished
<1>3. v \in Values /\ v \in Nat /\ v # 0 /\ cell[v] = "pending" /\ Op(v).place = p
  BY <1>2, UnfinishedShape, ProgramShape DEF VecInv
<1>4. program' \in Programs /\ \A w : Op(w)' = Op(w)
  BY <1>1 DEF VecInv, Op
<1>5. /\ \A w \in Values : cell'[w] = IF w = v THEN s ELSE cell[w]
      /\ \A q \in Places : workers'[q] = IF q = p THEN "notify" ELSE workers[q]
  BY <1>1 DEF VecInv, Shapes
<1>6. Values = 1 .. Len(program.ops) /\ Len(program.ops) \in Nat
  BY ProgramShape DEF VecInv
<1>7. \A w \in 0 .. Len(program.ops) :
        /\ Completed(w)' <=> Completed(w) \/ w = v
        /\ State(w) \in {"ready", "failed"} => State(w)' = State(w)
  <2>1. ASSUME NEW w \in 0 .. Len(program.ops)
        PROVE  State(w)' = IF w = v THEN s ELSE State(w)
    BY <1>3, <1>5, <1>6 DEF State
  <2> QED
    BY <1>3, <2>1 DEF Completed, State
<1>8. \A w \in Values : \A k \in DOMAIN Op(w).inputs : Op(w).inputs[k] \in 0 .. Len(program.ops)
  BY ProgramShape DEF VecInv
<1>9. /\ \A q \in Places : Unfinished(q)' \subseteq Unfinished(q)
      /\ \A q \in Places : \A w \in Unfinished(q) : w = v \/ w \in Unfinished(q)'
      /\ \A q \in Places : v \notin Unfinished(q)'
  <2>1. \A q \in Places \ {p} : Unfinished(q)' = Unfinished(q)
    BY <1>1, <1>5 DEF Unfinished
  <2>2. Unfinished(p)' = {queue[p][k] : k \in DOMAIN queue[p]}
    BY <1>1, <1>5 DEF Unfinished
  <2>3. Unfinished(p) = {queue[p][k] : k \in DOMAIN queue[p]} \cup {v}
    BY <1>0 DEF Unfinished
  <2>4. \A q \in Places \ {p} : v \notin Unfinished(q)
    BY <1>3, UnfinishedShape
  <2>5. v \notin {queue[p][k] : k \in DOMAIN queue[p]}
    <3>1. \A k \in DOMAIN queue[p] : v < queue[p][k]
      BY <1>0 DEF VecInv, InOrder
    <3>2. ASSUME NEW k \in DOMAIN queue[p], queue[p][k] = v PROVE FALSE
      BY <1>3, <3>1, <3>2
    <3> QED
      BY <3>2
  <2> QED
    BY <2>1, <2>2, <2>3, <2>4, <2>5
<1>10. Shapes'
  <2>1. \A S, T : /\ cell \in [T -> S] /\ s \in S => cell' \in [T -> S]
                  /\ workers \in [Places -> S] /\ "notify" \in S => workers' \in [Places -> S]
    BY <1>1
  <2>2. /\ cell \in [Values -> {"none", "pending", "ready", "failed"}]
        /\ workers \in [Places -> {"none", "look", "run", "notify", "exited"}]
    BY DEF VecInv, Shapes
  <2>3. /\ cell' \in [Values -> {"none", "pending", "ready", "failed"}]
        /\ workers' \in [Places -> {"none", "look", "run", "notify", "exited"}]
    BY <2>1, <2>2
  <2>4. \A q \in Places : workers'[q] = "run" => task'[q] # NoTask
    BY <1>1, <1>5 DEF VecInv, Shapes
  <2> QED
    BY <1>1, <2>3, <2>4 DEF VecInv, Shapes, Values
<1>11. Tasks'
  <2>1. ASSUME NEW q \in Places, NEW w \in Unfinished(q)'
        PROVE  cell'[w] = "pending" /\ Op(w).place = q
    <3>1. w # v /\ w \in Unfinished(q)
      BY <1>9, <2>1
    <3> QED
      BY <1>5, <3>1, UnfinishedShape
  <2> QED
    BY <1>4, <2>1 DEF Tasks
<1>12. Submitted'
  <2>1. \A w \in Values : cell'[w] = "none" <=> cell[w] = "none"
    BY <1>3, <1>5
  <2>2. ASSUME NEW w \in Values, cell'[w] # "none"
        PROVE  Op(w).fault # "metadata" /\ \A u \in 1 .. w : cell'[u] # "none"
    <3>1. \A u \in 1 .. w : u \in Values
      BY <1>6
    <3> QED
      BY <2>1, <2>2, <3>1 DEF VecInv, Submitted
  <2> QED
    BY <1>1, <1>4, <2>1, <2>2 DEF VecInv, Submitted, Values
<1>13. InOrder'
  BY <1>1, <1>5, <1>9 DEF VecInv, InOrder
<1>14. OperandsRead'
  <2>1. ASSUME NEW q \in Places, workers'[q] = "run",
               NEW k \in DOMAIN Op(task[q]).inputs, k < operand[q]
        PROVE  State(Op(task[q]).inputs[k])' = "ready"
    <3>1. workers[q] = "run" /\ task[q] \in Values
      BY <1>5, <2>1 DEF VecInv, Shapes, NoTask
    <3>2. Op(task[q]).inputs[k] \in 0 .. Len(program.ops) /\ State(Op(task[q]).inputs[k]) = "ready"
      BY <1>8, <2>1, <3>1 DEF VecInv, OperandsRead
    <3>3. PICK w : w = Op(task[q]).inputs[k]
      OBVIOUS
    <3>4. State(w)' = "ready"
      BY <1>7, <3>2, <3>3
    <3> QED
      BY <1>1, <3>3, <3>4 DEF State, Op
  <2> QED
    BY <1>1, <2>1 DEF OperandsRead, Op, State
<1>15. SameAsSync'
  <2>1. ASSUME NEW w \in Values
        PROVE  /\ cell'[w] = "ready" => Sound[w] /\ \A k \in DOMAIN Op(w).inputs : Completed(Op(w).inputs[k])
               /\ cell'[w] = "failed" => ~Sound[w]
    <3>1. CASE w = v
      BY <1>0, <1>5, <3>1
    <3>2. CASE w # v
      BY <1>5, <3>2 DEF VecInv, SameAsSync
    <3> QED
      BY <3>1, <3>2
  <2>2. ASSUME NEW w \in Values, NEW k \in DOMAIN Op(w).inputs, Completed(Op(w).inputs[k])
        PROVE  Completed(Op(w).inputs[k])'
    <3>1. PICK u : u = Op(w).inputs[k]
      OBVIOUS
    <3>2. Completed(u)'
      BY <1>7, <1>8, <2>2, <3>1
    <3> QED
      BY <1>1, <3>1, <3>2 DEF Completed, State, Op
  <2>3. Sound' = Sound /\ Values' = Values
    BY <1>1 DEF Sound, Values
  <2> QED
    BY <1>4, <2>1, <2>2, <2>3 DEF SameAsSync
<1>16. Held'
  <2>1. ASSUME NEW w \in Values, cell'[w] = "pending"
        PROVE  w \in Unfinished(Op(w).place)' \/ (caller = "enqueue" /\ w = next)
    <3>1. w # v /\ cell[w] = "pending"
      BY <1>5, <2>1
    <3>2. PICK q \in Places : q = Op(w).place
      BY ProgramShape DEF VecInv
    <3>3. w \in Unfinished(q) \/ (caller = "enqueue" /\ w = next)
      BY <3>1, <3>2 DEF VecInv, Held
    <3>4. w \in Unfinished(q)' \/ (caller = "enqueue" /\ w = next)
      BY <1>9, <3>1, <3>3
    <3> QED
      BY <1>4, <3>2, <3>4
  <2> QED
    BY <1>1, <2>1 DEF Held, Values
<1>17. Manned'
  <2>1. \A q \in Places : workers'[q] \in {"none", "exited"} => workers'[q] = workers[q]
    BY <1>5
  <2>2. ~Gone
    BY DEF VecInv, Manned
  <2>3. ASSUME caller = "enqueue"
        PROVE  cell'[next] = "pending" /\ workers'[Op(next).place] # "none"
    <3>1. next \in Values /\ Op(next).place \in Places
      BY <2>3, ProgramShape DEF VecInv, Submitted
    <3>2. next # v
      BY <1>2, <1>3, <2>3 DEF VecInv, InOrder
    <3> QED
      BY <1>5, <2>3, <3>1, <3>2 DEF VecInv, Manned
  <2>4. \A q \in Places : workers'[q] \in {"none", "exited"} => Unfinished(q)' = {}
    BY <1>9, <2>1 DEF VecInv, Manned
  <2>5. \A q \in Places : workers'[q] = "exited" => q \in stopping
    BY <2>1 DEF VecInv, Manned
  <2>6. stopping # {} => Stopping \/ Gone
    BY DEF VecInv, Manned
  <2> QED
    BY <1>1, <1>4, <2>2, <2>3, <2>4, <2>5, <2>6 DEF Manned, Stopping, Gone
<1>18. Finals'
  <2>1. ASSUME NEW k \in DOMAIN program.finals
        PROVE  State(program.finals[k]) \in {"ready", "failed"} =>
                 State(program.finals[k])' = State(program.finals[k])
    <3>1. PICK w : w = program.finals[k]
      OBVIOUS
    <3>2. w \in 0 .. Len(program.ops)
      BY <1>6, <3>1, ProgramShape DEF VecInv
    <3> QED
      BY <1>1, <1>7, <3>1, <3>2 DEF State
  <2> QED
    BY <1>1, <1>4, <2>1 DEF VecInv, Finals, Values
<1>19. Notifying'
  <2>1. \A w \in Values : w \in 0 .. Len(program.ops)
    BY <1>6
  <2>2. ASSUME NEW q \in Places, workers'[q] = "notify" PROVE task[q] \in Values /\ Completed(task[q])'
    <3>1. PICK w : w = task[q]
      OBVIOUS
    <3>2. w \in Values /\ (Completed(w) \/ w = v)
      BY <1>0, <1>3, <1>5, <2>2, <3>1 DEF VecInv, Notifying
    <3>3. Completed(w)'
      BY <1>7, <2>1, <3>2
    <3> QED
      BY <1>1, <3>1, <3>2, <3>3 DEF Completed, State
  <2> QED
    BY <1>1, <2>2 DEF Notifying, Values, Completed, State
<1>20. ReadersOK'
  <2>1. \A r \in DOMAIN program.reads : cell[program.reads[r]] # "none" => cell'[program.reads[r]] # "none"
    BY <1>5, ProgramShape DEF VecInv
  <2> QED
    BY <1>1, <2>1 DEF VecInv, ReadersOK
<1>21. Sleepers' /\ \A u \in asleep : Awaited(u)' = Awaited(u)
  BY <1>1, <1>5, OthersSleepOn
<1>22. NoLostWakeup'
  <2>1. ASSUME NEW u \in asleep, ~(u \in Places /\ workers'[u] = "look")
        PROVE  ~Completed(Awaited(u))' \/ \E q \in Places : workers'[q] = "notify" /\ task[q] = Awaited(u)
    <3>1. ~(u \in Places /\ workers[u] = "look")
      BY <1>5, <2>1
    <3>2. ~Completed(Awaited(u)) \/ \E q \in Places : workers[q] = "notify" /\ task[q] = Awaited(u)
      BY <3>1 DEF VecInv, NoLostWakeup
    <3>3. CASE \E q \in Places : workers[q] = "notify" /\ task[q] = Awaited(u)
      BY <1>5, <3>3
    <3>4. CASE ~Completed(Awaited(u)) /\ Awaited(u) = v
      BY <1>0, <1>5, <3>4
    <3>5. CASE ~Completed(Awaited(u)) /\ Awaited(u) # v
      <4>1. PICK w : w = Awaited(u)
        OBVIOUS
      <4>2. w # 0 /\ ~Completed(w) /\ w # v
        BY <3>5, <4>1 DEF Completed, State
      <4>3. w \in Values
        BY <1>6, <3>1, <4>1, <4>2, AwaitedShape
      <4>4. ~Completed(w)'
        BY <1>5, <4>2, <4>3 DEF Completed, State
      <4> QED
        BY <1>21, <4>1, <4>4 DEF Completed, State
    <3> QED
      BY <3>2, <3>3, <3>4, <3>5
  <2>2. \A u \in asleep : u \in Places /\ workers'[u] = "look" =>
          /\ queue[u] = <<>> \/ (caller = "notify" /\ Op(next).place = u)
          /\ u \notin stopping
    BY <1>5 DEF VecInv, NoLostWakeup
  <2> QED
    BY <1>1, <1>4, <1>21, <2>1, <2>2 DEF NoLostWakeup
<1> QED
  BY <1>1, <1>4, <1>10, <1>11, <1>12, <1>13, <1>14, <1>15, <1>16, <1>17, <1>18, <1>19, <1>20, <1>21, <1>22, Framed
     DEF VecInv


\* The task ends without its value having been completed by anyone else, or fails on
\* an operand.
LEMMA TaskEnds ==
  ASSUME VecInv, NEW p \in Places, FailOnOperand(p) \/ Finish(p)
  PROVE  VecInv'
<1>1. workers[p] = "run"
  BY DEF FailOnOperand, Finish, AtOperand
<1>2. PICK v : v = task[p]
  OBVIOUS
<1>3. v \in Values /\ cell[v] = "pending"
  BY <1>1, <1>2 DEF VecInv, Shapes, Tasks, Unfinished, NoTask
<1>4. /\ Op(v).fault \in {"none", "compute"}
      /\ \A k \in DOMAIN Op(v).inputs : Op(v).inputs[k] = 0 \/ Op(v).inputs[k] \in Values
      /\ DOMAIN Op(v).inputs = 1 .. Len(Op(v).inputs) /\ Len(Op(v).inputs) \in Nat
      /\ operand[p] \in Nat \ {0}
  <2>1. Op(v).fault # "metadata"
    BY <1>3 DEF VecInv, Submitted
  <2>2. operand[p] \in Nat \ {0}
    BY DEF VecInv, Shapes
  <2>3. \A k \in DOMAIN Op(v).inputs : Op(v).inputs[k] \in 0 .. v - 1
    BY <1>3, ProgramShape DEF VecInv
  <2>4. v \in Nat /\ v \in 1 .. Len(program.ops) /\ Len(program.ops) \in Nat /\ Values = 1 .. Len(program.ops)
    BY <1>3, ProgramShape DEF VecInv
  <2> QED
    BY <1>3, <2>1, <2>2, <2>3, <2>4, ProgramShape DEF VecInv, Faults
<1>5. Sound[v] <=> /\ Op(v).fault = "none" /\ \A k \in DOMAIN Op(v).inputs : Sound[Op(v).inputs[k]]
  BY <1>3, SoundAt DEF VecInv
<1>6. \A w \in Values : /\ cell[w] = "ready" => Sound[w]
                        /\ cell[w] = "failed" => ~Sound[w]
  BY DEF VecInv, SameAsSync
<1>7. CASE FailOnOperand(p)
  <2>1. /\ operand[p] \in DOMAIN Op(v).inputs /\ p \notin asleep
        /\ State(Op(v).inputs[operand[p]]) = "failed" /\ Complete(p, "failed")
    BY <1>2, <1>4, <1>7 DEF FailOnOperand, AtOperand
  <2>2. ~Sound[Op(v).inputs[operand[p]]]
    BY <1>4, <1>6, <2>1 DEF State
  <2>3. ~Sound[task[p]]
    BY <1>2, <1>5, <2>1, <2>2
  <2> QED
    BY <1>1, <2>1, <2>3, CompleteKeeps
<1>8. CASE Finish(p)
  <2>1. operand[p] > Len(Op(v).inputs)
        /\ Complete(p, IF Op(v).fault = "compute" THEN "failed" ELSE "ready")
    BY <1>2, <1>8 DEF Finish
  <2>2. p \notin asleep
    <3>1. operand[p] \notin DOMAIN Op(task[p]).inputs
      BY <1>2, <1>4, <2>1
    <3> QED
      BY <1>1, <3>1, ExecutorConstantsOK DEF VecInv, Sleepers
  <2>3. ASSUME NEW k \in DOMAIN Op(v).inputs
        PROVE  State(Op(v).inputs[k]) = "ready" /\ Sound[Op(v).inputs[k]]
    <3>1. k < operand[p]
      BY <1>4, <2>1
    <3>2. State(Op(v).inputs[k]) = "ready"
      BY <1>1, <1>2, <3>1 DEF VecInv, OperandsRead
    <3> QED
      BY <1>4, <1>6, <3>2, SoundAt DEF State, VecInv
  <2>4. CASE Op(v).fault = "compute"
    <3>1. ~Sound[task[p]] /\ Complete(p, "failed")
      BY <1>2, <1>5, <2>1, <2>4
    <3> QED
      BY <1>1, <2>2, <3>1, CompleteKeeps
  <2>5. CASE Op(v).fault = "none"
    <3>1. Sound[task[p]] /\ Complete(p, "ready")
      BY <1>2, <1>5, <2>1, <2>3, <2>5
    <3>2. \A k \in DOMAIN Op(task[p]).inputs : Completed(Op(task[p]).inputs[k])
      BY <1>2, <2>3 DEF Completed
    <3> QED
      BY <1>1, <2>2, <3>1, <3>2, CompleteKeeps
  <2> QED
    BY <1>4, <2>4, <2>5
<1> QED
  BY <1>7, <1>8

\* All who sleep for the value are woken.
LEMMA NotifyReadersKeeps ==
  ASSUME VecInv, NEW p \in Places, NotifyReaders(p)
  PROVE  VecInv'
<1>1. /\ UNCHANGED <<program, caller, next, cell, queue, operand, stopping, reader>>
      /\ workers[p] = "notify"
      /\ asleep' = {t \in asleep : Awaited(t) # task[p]}
      /\ workers' = [workers EXCEPT ![p] = "look"]
      /\ task' = [task EXCEPT ![p] = NoTask]
  BY DEF NotifyReaders
<1>2. program' \in Programs /\ \A w : Op(w)' = Op(w)
  BY <1>1 DEF VecInv, Op
<1>3. \A q \in Places : /\ workers'[q] = IF q = p THEN "look" ELSE workers[q]
                        /\ task'[q] = IF q = p THEN NoTask ELSE task[q]
  BY <1>1 DEF VecInv, Shapes, Tables
<1>4. \A q \in Places : Unfinished(q)' = Unfinished(q)
  BY <1>1, <1>3 DEF Unfinished
<1>5. p \notin asleep
  BY <1>1, ExecutorConstantsOK DEF VecInv, Sleepers
<1>6. Shapes'
  <2>1. \A S : workers \in [Places -> S] /\ "look" \in S => workers' \in [Places -> S]
    BY <1>1
  <2>2. workers \in [Places -> {"none", "look", "run", "notify", "exited"}]
    BY DEF VecInv, Shapes
  <2>3. workers' \in [Places -> {"none", "look", "run", "notify", "exited"}]
    BY <2>1, <2>2
  <2>4. \A q \in Places : /\ workers'[q] = "run" => task'[q] # NoTask
                          /\ task'[q] \in Values \cup {NoTask}
    BY <1>3 DEF VecInv, Shapes
  <2> QED
    BY <1>1, <2>3, <2>4 DEF VecInv, Shapes, Values
<1>7. Tasks'
  BY <1>1, <1>2, <1>4 DEF VecInv, Tasks
<1>8. InOrder'
  BY <1>1, <1>3, <1>4 DEF VecInv, InOrder
<1>9. OperandsRead'
  BY <1>1, <1>2, <1>3 DEF VecInv, OperandsRead, State
<1>10. Held'
  <2>1. \A v \in Values : Op(v).place \in Places
    BY ProgramShape DEF VecInv
  <2> QED
    BY <1>1, <1>4, <2>1 DEF VecInv, Held, Values, Op
<1>11. Manned'
  <2>1. caller = "enqueue" => Op(next).place \in Places
    BY ProgramShape DEF VecInv, Submitted
  <2>2. \A q \in Places : /\ workers'[q] \in {"none", "exited"} => workers'[q] = workers[q]
                          /\ workers[q] # "none" => workers'[q] # "none"
    BY <1>3
  <2>3. ~Gone
    BY <1>1 DEF VecInv, Manned
  <2>4. \A q \in Places : workers'[q] \in {"none", "exited"} => Unfinished(q)' = {}
    BY <1>4, <2>2 DEF VecInv, Manned
  <2>5. \A q \in Places : workers'[q] = "exited" => q \in stopping
    BY <2>2 DEF VecInv, Manned
  <2>6. caller = "enqueue" => cell[next] = "pending" /\ workers'[Op(next).place] # "none"
    BY <2>1, <2>2 DEF VecInv, Manned
  <2>7. stopping # {} => Stopping \/ Gone
    BY DEF VecInv, Manned
  <2> QED
    BY <1>1, <1>2, <2>3, <2>4, <2>5, <2>6, <2>7 DEF Manned, Stopping, Gone
<1>12. Notifying'
  BY <1>1, <1>3 DEF VecInv, Notifying, Values, Completed, State
<1>13. \A u \in asleep : /\ Awaited(u)' = Awaited(u)
                         /\ u \in Places => workers'[u] = workers[u] /\ task'[u] = task[u]
  <2>1. \A u \in asleep : u \in Places => workers'[u] = workers[u] /\ task'[u] = task[u]
    BY <1>3, <1>5
  <2> QED
    BY <1>1, <2>1 DEF Awaited, Op
<1>14. Sleepers'
  BY <1>1, <1>2, <1>13 DEF VecInv, Sleepers
<1>15. NoLostWakeup'
  <2>1. ASSUME NEW u \in asleep', ~(u \in Places /\ workers'[u] = "look")
        PROVE  ~Completed(Awaited(u))' \/ \E q \in Places : workers'[q] = "notify" /\ task'[q] = Awaited(u)
    <3>1. u \in asleep /\ Awaited(u) # task[p] /\ ~(u \in Places /\ workers[u] = "look")
      BY <1>1, <1>13, <2>1
    <3>2. ~Completed(Awaited(u)) \/ \E q \in Places : workers[q] = "notify" /\ task[q] = Awaited(u)
      BY <3>1 DEF VecInv, NoLostWakeup
    <3>3. Completed(Awaited(u))' <=> Completed(Awaited(u))
      BY <1>1, <1>13, <3>1 DEF Completed, State
    <3> QED
      BY <1>3, <3>1, <3>2, <3>3
  <2>2. \A u \in asleep' : u \in Places /\ workers'[u] = "look" =>
          /\ queue[u] = <<>> \/ (caller = "notify" /\ Op(next).place = u)
          /\ u \notin stopping
    BY <1>1, <1>13 DEF VecInv, NoLostWakeup
  <2> QED
    BY <1>1, <1>2, <1>13, <2>1, <2>2 DEF NoLostWakeup
<1>16. Tables'
  BY <1>1 DEF VecInv, Tables
<1> QED
  BY <1>1, <1>2, <1>6, <1>7, <1>8, <1>9, <1>10, <1>11, <1>12, <1>14, <1>15, <1>16, Framed DEF VecInv


-----------------------------------------------------------------------------
(***************************************************************************)
(* The theorems.                                                           *)
(***************************************************************************)
\* Nothing has been submitted, nobody runs.
LEMMA InitKeeps ==
  ASSUME Init
  PROVE  VecInv
<1> USE DEF Init
<1>1. \A p \in Places : Unfinished(p) = {}
  BY DEF Unfinished
<1>2. Len(program.ops) \in Nat /\ Values = 1 .. Len(program.ops)
  BY ProgramShape
<1>3. \A v \in Values : cell[v] = "none"
  OBVIOUS
<1>4. Shapes
  <2>1. cell \in [Values -> {"none", "pending", "ready", "failed"}]
    OBVIOUS
  <2>2. workers \in [Places -> {"none", "look", "run", "notify", "exited"}]
    OBVIOUS
  <2>3. reader \in [Readers -> {"idle", "read", "threw"} \cup Publishing]
    OBVIOUS
  <2>4. \A p \in Places : queue[p] \in Seq(Values) /\ task[p] = NoTask /\ workers[p] = "none"
    OBVIOUS
  <2>5. operand \in [Places -> Nat \ {0}]
    <3>1. 1 \in Nat \ {0}
      OBVIOUS
    <3> QED
      BY <3>1
  <2> QED
    BY <2>1, <2>2, <2>3, <2>4, <2>5 DEF Shapes
<1>5. Tables /\ Tasks /\ InOrder /\ OperandsRead /\ SameAsSync /\ Held /\ Notifying
  BY <1>1, <1>3 DEF Tables, Tasks, InOrder, OperandsRead, SameAsSync, Held, Notifying
<1>6. Submitted
  BY <1>2, <1>3 DEF Submitted
<1>7. Manned /\ Finals /\ ReadersOK /\ Sleepers /\ NoLostWakeup
  BY <1>1 DEF Manned, Finals, ReadersOK, Sleepers, NoLostWakeup, Gone, Publishing
<1> QED
  BY <1>4, <1>5, <1>6, <1>7 DEF VecInv

\* A thread that finds its value not completed goes to sleep.
LEMMA WaitingKeeps ==
  ASSUME VecInv,
         \/ AwaitFinal
         \/ \E p \in Places : AwaitOperand(p)
         \/ \E r \in Readers : AwaitRead(r)
  PROVE  VecInv'
<1>1. Places \cap Readers = {} /\ Caller \notin Places \cup Readers
  BY ExecutorConstantsOK
<1>2. CASE AwaitFinal
  <2>1. /\ caller = "synchronize" /\ next \in DOMAIN program.finals
        /\ Materialize(Caller, program.finals[next])
    <3>1. next \in Nat \ {0} /\ next <= Len(program.finals)
      BY <1>2 DEF AwaitFinal, VecInv, Shapes
    <3> QED
      BY <1>2, <3>1, ProgramShape DEF AwaitFinal, VecInv
  <2>2. Awaited(Caller) = program.finals[next]
    BY <1>1, <2>1 DEF Awaited
  <2> QED
    BY <2>1, <2>2, MaterializeKeeps DEF Threads
<1>3. ASSUME NEW p \in Places, AwaitOperand(p) PROVE VecInv'
  <2>1. /\ workers[p] = "run" /\ operand[p] \in DOMAIN Op(task[p]).inputs
        /\ Materialize(p, Op(task[p]).inputs[operand[p]])
    <3>1. workers[p] = "run" /\ task[p] \in Values /\ operand[p] \in Nat \ {0}
      BY <1>3 DEF AwaitOperand, AtOperand, VecInv, Shapes
    <3> QED
      BY <1>3, <3>1, ProgramShape DEF AwaitOperand, AtOperand, VecInv
  <2>2. Awaited(p) = Op(task[p]).inputs[operand[p]]
    BY <1>1, <2>1 DEF Awaited
  <2> QED
    BY <2>1, <2>2, MaterializeKeeps DEF Threads
<1>4. ASSUME NEW r \in Readers, AwaitRead(r) PROVE VecInv'
  <2>1. reader[r] = "reading" /\ Materialize(r, program.reads[r])
    BY <1>4 DEF AwaitRead
  <2>2. Awaited(r) = program.reads[r]
    BY <1>1, <2>1 DEF Awaited
  <2> QED
    BY <2>1, <2>2, MaterializeKeeps DEF Threads
<1> QED
  BY <1>2, <1>3, <1>4

\* A reader starts, takes the mutex of the cluster, leaves it or aborts.
LEMMA ReadersKeep ==
  ASSUME VecInv, NEW r \in Readers,
         StartReader(r) \/ LockCluster(r) \/ EndRead(r) \/ SenderAborts(r)
  PROVE  VecInv'
<1>1. reader[r] # "reading" => r \notin asleep
  BY ExecutorConstantsOK DEF VecInv, Sleepers
<1>2. reader[r] \in Publishing => r \in DOMAIN program.reads /\ cell[program.reads[r]] # "none"
  BY DEF VecInv, ReadersOK
<1>3. CASE StartReader(r)
  <2>1. Reader(r, "locking") /\ r \notin asleep
        /\ r \in DOMAIN program.reads /\ cell[program.reads[r]] # "none"
    BY <1>1, <1>3 DEF StartReader, Reader
  <2> QED
    BY <2>1, ReaderKeeps DEF Publishing
<1>4. CASE LockCluster(r)
  <2>1. r \notin asleep /\ (Reader(r, "threw") \/ Reader(r, "reading"))
        /\ r \in DOMAIN program.reads /\ cell[program.reads[r]] # "none"
    BY <1>1, <1>2, <1>4 DEF LockCluster, Publishing
  <2> QED
    BY <2>1, ReaderKeeps DEF Publishing
<1>5. CASE EndRead(r)
  <2>1. r \notin asleep /\ (Reader(r, "read") \/ Reader(r, "aborting"))
        /\ r \in DOMAIN program.reads /\ cell[program.reads[r]] # "none"
    BY <1>2, <1>5 DEF EndRead, Publishing
  <2> QED
    BY <2>1, ReaderKeeps DEF Publishing
<1>6. CASE SenderAborts(r)
  <2>1. r \notin asleep /\ Reader(r, "threw")
    BY <1>1, <1>6 DEF SenderAborts
  <2> QED
    BY <2>1, ReaderKeeps DEF Publishing
<1> QED
  BY <1>3, <1>4, <1>5, <1>6

\* Every step keeps the invariant.
LEMMA NextKeeps ==
  ASSUME VecInv, [Next]_vars
  PROVE  VecInv'
<1>1. ASSUME CallerStep PROVE VecInv'
  BY <1>1, GoingOnKeeps, WorkerForKeeps, EnqueueKeeps, NotifyWorkerKeeps, StopWorkerKeeps, WaitingKeeps
     DEF CallerStep
<1>2. ASSUME NEW p \in Places, WorkerStep(p) PROVE VecInv'
  BY <1>2, WorkerWaitsKeeps, WorkerExitsKeeps, TakeTaskKeeps, ReadOperandKeeps, TaskEnds, NotifyReadersKeeps,
     WaitingKeeps
     DEF WorkerStep
<1>3. ASSUME NEW r \in Readers, StartReader(r) \/ ReaderStep(r) PROVE VecInv'
  BY <1>3, ReadersKeep, WaitingKeeps DEF ReaderStep
<1>4. ASSUME Spurious PROVE VecInv'
  BY <1>4, WakingKeeps
<1>5. ASSUME Terminating \/ UNCHANGED vars PROVE VecInv'
  <2>1. UNCHANGED <<program, caller, next, cell, workers, queue, task, operand, stopping, reader, asleep>>
    BY <1>5 DEF Terminating, vars
  <2>2. program' \in Programs /\ Shapes'
    BY <2>1 DEF VecInv, Shapes, Values
  <2> QED
    BY <2>1, <2>2, Framed DEF VecInv
<1> QED
  BY <1>1, <1>2, <1>3, <1>4, <1>5 DEF Next

\* The invariant of the asynchronous executor.
THEOREM VecInvariant == Spec => []VecInv
<1>1. Init => VecInv
  BY InitKeeps
<1>2. VecInv /\ [Next]_vars => VecInv'
  BY NextKeeps
<1> QED
  BY <1>1, <1>2, PTL DEF Spec

\* The variables have the types of what they stand for, and no promise is fulfilled
\* twice: a task that is queued or running has a value still to be completed.
THEOREM ExecutorTypes == Spec => []TypeOK
<1>1. VecInv => TypeOK
  BY DEF VecInv, Shapes, Tasks, TypeOK
<1> QED
  BY <1>1, VecInvariant, PTL

\* However the workers interleave, values are completed as the synchronous mode would.
THEOREM ModesAgree == Spec => []SameAsSync
<1>1. VecInv => SameAsSync
  BY DEF VecInv
<1> QED
  BY <1>1, VecInvariant, PTL

\* A failure on which a final output depends reaches the caller, and nothing else
\* stops it.
THEOREM FailuresReported == Spec => []FailureReported
<1>1. ASSUME VecInv PROVE FailureReported
  <2>1. \A k \in DOMAIN program.finals : program.finals[k] \in Values /\ program.finals[k] # 0
    BY <1>1, ProgramShape DEF VecInv
  <2>2. \A k \in DOMAIN program.finals : /\ State(program.finals[k]) = "ready" => Sound[program.finals[k]]
                                         /\ State(program.finals[k]) = "failed" => ~Sound[program.finals[k]]
    BY <1>1, <2>1 DEF VecInv, SameAsSync, State
  <2> QED
    BY <1>1, <2>2 DEF VecInv, Finals, FailureReported
<1> QED
  BY <1>1, VecInvariant, PTL

\* When the destructor returns, every value handed out is completed and no task is left.
THEOREM NothingLeftBehind == Spec => []Drained
<1>1. ASSUME VecInv, Gone PROVE /\ \A v \in Values : cell[v] # "pending"
                                /\ \A p \in Places : queue[p] = <<>> /\ workers[p] \in {"none", "exited"}
  <2>1. \A p \in Places : workers[p] \in {"none", "exited"} /\ Unfinished(p) = {}
    BY <1>1 DEF VecInv, Manned
  <2>2. \A v \in Values : Op(v).place \in Places
    BY <1>1, ProgramShape DEF VecInv
  <2>3. \A v \in Values : cell[v] # "pending"
    BY <1>1, <2>1, <2>2 DEF VecInv, Held, Gone
  <2>4. ASSUME NEW p \in Places PROVE queue[p] = <<>>
    <3>1. queue[p] \in Seq(Values)
      BY <1>1 DEF VecInv, Shapes
    <3>2. \A k \in DOMAIN queue[p] : queue[p][k] \in Unfinished(p)
      BY DEF Unfinished
    <3>3. DOMAIN queue[p] = {}
      BY <2>1, <3>2
    <3>4. ASSUME NEW q \in Seq(Values), q # <<>> PROVE 1 \in DOMAIN q
      BY <3>4
    <3> QED
      BY <3>1, <3>3, <3>4
  <2> QED
    BY <2>1, <2>3, <2>4
<1>2. VecInv => Drained
  BY <1>1 DEF Drained
<1> QED
  BY <1>2, VecInvariant, PTL

\* No notification is missed, though it comes after the unlocking.
THEOREM WakeupsArrive == Spec => []NoLostWakeup
<1>1. VecInv => NoLostWakeup
  BY DEF VecInv
<1> QED
  BY <1>1, VecInvariant, PTL

\* Workers never wait for each other in a circle.
THEOREM NoCircle == Spec => []OldestRuns
<1>1. ASSUME VecInv, NEW p \in Places, NEW v \in Unfinished(p),
             \A q \in Places : \A w \in Unfinished(q) : v <= w
      PROVE  /\ \A k \in DOMAIN Op(v).inputs : Completed(Op(v).inputs[k])
             /\ \/ workers[p] = "run" /\ task[p] = v
                \/ workers[p] \in {"look", "notify"} /\ Head(queue[p]) = v
  <2>1. v \in Values /\ v \in Nat /\ cell[v] = "pending" /\ Op(v).place = p
    BY <1>1, UnfinishedShape
  <2>2. \A q \in Places : Unfinished(q) \subseteq Nat
    BY <1>1, UnfinishedShape
  <2>3. ASSUME NEW k \in DOMAIN Op(v).inputs PROVE Completed(Op(v).inputs[k])
    <3>1. PICK w : w = Op(v).inputs[k]
      OBVIOUS
    <3>2. w \in 0 .. v - 1 /\ Values = 1 .. Len(program.ops) /\ Len(program.ops) \in Nat
      BY <1>1, <2>1, <3>1, ProgramShape DEF VecInv
    <3>3. CASE w = 0
      BY <3>1, <3>3 DEF Completed, State
    <3>4. CASE w # 0
      <4>1. w \in Values /\ w \in 1 .. v /\ ~(v <= w)
        BY <2>1, <3>2, <3>4
      <4>2. cell[w] # "none"
        BY <1>1, <2>1, <4>1 DEF VecInv, Submitted
      <4>3. cell[w] # "pending"
        <5>1. SUFFICES ASSUME cell[w] = "pending" PROVE FALSE
          OBVIOUS
        <5>2. Op(w).place \in Places
          BY <1>1, <4>1, ProgramShape DEF VecInv
        <5>3. w \notin Unfinished(Op(w).place)
          BY <1>1, <4>1, <5>2
        <5>4. caller = "enqueue" /\ w = next
          BY <1>1, <4>1, <5>1, <5>3 DEF VecInv, Held
        <5>5. v < w
          BY <1>1, <5>4 DEF VecInv, InOrder
        <5> QED
          BY <2>1, <3>2, <5>5
      <4> QED
        BY <1>1, <3>1, <3>4, <4>1, <4>2, <4>3 DEF VecInv, Shapes, Completed, State
    <3> QED
      BY <3>3, <3>4
  <2>4. workers[p] \in {"look", "run", "notify"}
    BY <1>1 DEF VecInv, Shapes, Manned
  <2>5. CASE workers[p] = "run"
    <3>1. task[p] \in Unfinished(p) /\ task[p] \in Nat
      BY <1>1, <2>2, <2>5 DEF Unfinished
    <3>2. ASSUME NEW k \in DOMAIN queue[p], v = queue[p][k] PROVE FALSE
      <4>1. task[p] < v
        BY <1>1, <2>5, <3>2 DEF VecInv, InOrder
      <4>2. v <= task[p]
        BY <1>1, <3>1
      <4> QED
        BY <2>1, <3>1, <4>1, <4>2
    <3>3. v = task[p]
      BY <3>2 DEF Unfinished
    <3> QED
      BY <2>3, <2>5, <3>3
  <2>6. CASE workers[p] # "run"
    <3>1. PICK k \in DOMAIN queue[p] : v = queue[p][k]
      BY <2>6 DEF Unfinished
    <3>2. DOMAIN queue[p] = 1 .. Len(queue[p]) /\ Len(queue[p]) \in Nat
      <4>1. queue[p] \in Seq(Values)
        BY <1>1 DEF VecInv, Shapes
      <4> QED
        BY <4>1
    <3>3. 1 \in DOMAIN queue[p] /\ Head(queue[p]) = queue[p][1] /\ k \in Nat
      BY <3>1, <3>2
    <3>4. queue[p][1] \in Unfinished(p)
      BY <3>3 DEF Unfinished
    <3>5. v <= queue[p][1] /\ queue[p][1] \in Nat
      BY <1>1, <2>2, <3>4
    <3>6. ASSUME k # 1 PROVE FALSE
      <4>1. 1 < k
        BY <3>1, <3>2, <3>6
      <4>2. queue[p][1] < v
        BY <1>1, <3>1, <3>3, <4>1 DEF VecInv, InOrder
      <4> QED
        BY <2>1, <3>5, <4>2
    <3> QED
      BY <2>3, <2>4, <2>6, <3>1, <3>3, <3>6
  <2> QED
    BY <2>5, <2>6
<1>2. VecInv => OldestRuns
  BY <1>1 DEF OldestRuns
<1> QED
  BY <1>2, VecInvariant, PTL
=============================================================================
