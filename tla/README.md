# A verification development for the CKKS plan runtime

TLA+ models of the RuntimePlan interpreter in this repository, the TLC runs that
check them on small instances, and TLAPS proofs for the facts that hold for every
instance. Paths below are relative to the repository's root.

## 1. Inventory of the system

A compiler emits one `RuntimePlan`; every rank loads the same plan and runs a
`SequentialRuntime` over it. The runtime is a template over an `Api` that computes
and communicates. Ranks share nothing but the Api.

| part | state it keeps | operations | what makes it correct |
|---|---|---|---|
| plan data model, `runtime/plan.hpp` | immutable | - | - |
| `PlanVerifier`, `runtime/verifier.cpp` | none | `verify`, `verify_runtime_target` | an accepted plan never drives a runtime into an inconsistent store, and never makes two messages look alike |
| `SequentialRuntime`, `runtime/runtime.hpp` | `store_`, `groups_`, `remaining_uses_`, `current_` | `run`: setup, preflight, bind inputs, the three phases, finish groups, synchronize, artifact; any exception ends in `abort_all` | the store holds exactly the values still needed; a group is waited for once; a value being sent stays; the artifact is complete; a second run starts clean |
| `MockCluster` / `MockVecApi`, `api/mock_api.*` | barrier table, `messages_`, `aborted_`, one mutex, one condition variable, a sender thread per communication | `preflight`, `publish`, `receive`, `communicate_async`, `wait`, `abort_all` | all ranks pass the barrier on agreement only; no message is taken for another; nobody sleeps for ever, whatever fails |
| `VecExecutor` / `VecValue`, `api/vec_*.{hpp,cpp}` | worker per place, task queues, result cells | `compute`, `stop`, `materialize`, `fulfill`, `fail` | each cell is completed once; every reader gets the result or the error; workers cannot wait in a circle |
| `MpiVecApi`, `api/mpi_api.*` | MPI requests of a handle | as MockVecApi, over MPI | as MockCluster; tags never collide; progress without assuming that sends are buffered |
| compute metadata: `verify_compute_metadata` in `verifier.cpp`, `compute_metadata` and `compute_now` in `vec_api.cpp` | none | one rule per kind of computation, stated three times | the three agree: nothing the verifier accepts fails or overflows later, no key is missing |
| readers: `json_utils.hpp`, `json_plan_reader`, `operator_spec_reader` | none | a document becomes a plan or an OperatorSpec, or an exception | what is accepted has the types and ranges the rest relies on, and says what the document says |
| loading: `plaintext_bundle`, `sha256`, `load_bundle` and preflight in `runtime.hpp` and the Apis | the slots by content | read the manifest, read the blobs a rank needs, compare switches and digests between ranks | ranks that run were deployed alike; every Encode finds the slots its digest names |
| `testing/` harness | one thread per rank | `run_mock_cluster`, comparisons | starts and joins every rank |
| comparison drivers, `experiments/` | the evaluator's table and use counts | `PlanAlignment`, `diff`, `diff_against_reference` | what differs is blamed on the right instruction, and only when a run went wrong; no lookup fails |
| `tools/`, `benchmarks/`, `integrations/` | - | environment probe, timing loop, offline generators | - |

How they interact. The harness (or `mpiexec`) starts one `run` per rank. `run` calls
the verifier, then the Api: `preflight` (a barrier), `validate_value`,
`encode_plaintext`, `compute`, `communicate_async` (which starts a sender thread in
the mock), `wait` (which joins the sender and blocks for the messages),
`synchronize`, and `abort_all` on any exception. A sender thread calls
`MockCluster::publish` and, when that fails, `abort_all`. The mock's `compute` goes to
a `VecExecutor`, which in its asynchronous mode answers with a value still to be
completed by a worker thread; `publish`, `synchronize` and later tasks materialize it.

Hard behaviours. Ranks and sender threads interleave around one monitor; a group is
finished on demand by whichever operand needs it first, or at the end; values are
released as soon as their last use is over, in an order that differs from the
plan's; every call of the Api may throw; `abort_all` publishes a flag and notifies
afterwards; an instance may be run again. `hazards` in `PROJECT.json` lists these
with the line where each one bites. Loading has no concurrency to speak of; what is hard
there is that every rank reads files of its own, checks them against each other in several
places of the code, and meets the others over one digest.

## 2. Modules

| module | models | notes |
|---|---|---|
| `RuntimePlan` | `runtime/plan.hpp`, lookups | pure operators; no recursion |
| `PlanVerifier` | the structural rules of `verifier.cpp` | one operator per rule |
| `SequentialRuntime` | `runtime/runtime.hpp` | ranks that do not interact; the Api returns, throws, or never comes back |
| `SequentialRuntimeProofs` | theorems about it: types and groups, then use counts, store, artifact | TLAPS |
| `MockRuntime` | SequentialRuntime with `api/mock_api.cpp` | closes the Api: every rank step is a step of SequentialRuntime together with the cluster's half |
| `MockRuntimeProofs` | theorems about it | TLAPS |
| `SpmdRun` | the contract of a cluster of runtimes | abstract specification |
| `MockRefinement` | MockRuntime implements SpmdRun | `INSTANCE ... WITH` |
| `ClusterValues` | what a value should hold, what a rank should return | shared by the two clusters |
| `ClusterProofs` | lemmas about `Origin`, operands and a rank's step, for both clusters | TLAPS |
| `MpiRuntime` | SequentialRuntime with `api/mpi_api.cpp` | MPI itself is external: matching by tag in sending order, eager sends, MPI_Allgather, MPI_Abort |
| `MpiRuntimeProofs` | theorems about it | TLAPS |
| `MpiRefinement` | MpiRuntime implements SpmdRun | the same contract, another mapping |
| `VecExecutor` | `api/vec_api.cpp`, `api/vec_value.cpp`, asynchronous mode, with `MockCluster::publish` and `abort_all` around it | caller, workers, readers that hold the cluster's mutex |
| `VecExecutorProofs` | theorems about it | TLAPS |
| `OperatorSpec` | the rules between the parts of an OperatorSpec, and the verifier's limits on values | pure operators, shared by CkksRules and the reader |
| `CkksRules` | the metadata rules of `verifier.cpp` and `vec_api.cpp` | a plan grows value by value |
| `CkksRulesProofs` | theorems about it | TLAPS |
| `JsonUtils` | JSON values and the leaf readers of `runtime/json_utils.hpp` | what is accepted, and what is made of it |
| `PlanReader` | `runtime/json_plan_reader.cpp` | a document is accepted or not, and its plan |
| `SpecReader` | `runtime/operator_spec_reader.cpp` | likewise, versions 1 and 2 |
| `PlanWriter` | the format of `docs/`, member by member | the other direction, written without the reader: `Describes(doc, plan)`; specification, not code |
| `Loading` | setup of `run` from files, `runtime/plaintext_bundle.cpp`, preflight | composes the readers, the verifier and the ranks |
| `LoadingProofs` | theorems about it | TLAPS |
| `DiffDrivers` | `experiments/dacapo_plan_vec_diff.cpp`, `dacapo_mlp_experiment.hpp` | two tools, one module |
| `DiffDriversProofs` | theorems about it | TLAPS |
| `MCRuntime`, `MCPlans`, `MCMock`, `MCMpi`, `MCVec`, `MCCkks`, `MCLoading`, `MCDiff` | instances for TLC | plans and arguments |

SequentialRuntime extends RuntimePlan and PlanVerifier; ClusterValues extends
SequentialRuntime; MockRuntime and MpiRuntime extend ClusterValues, and their
refinement modules instantiate SpmdRun. CkksRules extends OperatorSpec. PlanReader
extends PlanVerifier and JsonUtils, PlanWriter extends PlanReader, SpecReader extends
OperatorSpec and JsonUtils, Loading extends PlanWriter and SpecReader; DiffDrivers extends
PlanVerifier. VecExecutor stands alone. The proof modules follow: each extends the
module it is about, ClusterProofs both ClusterValues and SequentialRuntimeProofs,
MockRuntimeProofs and MpiRuntimeProofs their refinement and ClusterProofs.

### State and actions

`SequentialRuntime` keeps, per rank, `stage` (how far `run` has got), `pc`
(`current_`), `store` (`store_`: absent, ready or pending), `uses`
(`remaining_uses_`), `completed` (the flags of `groups_`), `waiting` (the group
`api_.wait` was called with) and `error`. Every rank pushes a group for every
communication, so a group is named by its instruction's position and `groups_` is
the set of communications before `pc`. Between two calls of the Api a rank touches
only its own state, so what it does there is one action:

| action | code |
|---|---|
| `Start` | entry of `run`: resets, `open_trace` |
| `Setup`, `RefusePlan` | `verify` .. `load_bundle` |
| `PreflightReturns` | `api_.preflight` came back |
| `BindInputs`, `RefuseInputs` | `bind_inputs` |
| `Skip`, `ExecuteEncode`, `ExecuteCompute`, `PostComm` | `execute_*`, with their calls of `ensure_ready`, `define_*` and `release_after_use` |
| `AwaitOperand`, `AwaitOldest`, `FinishGroup`, `Drained` | `ensure_ready` and `finish_all_groups` entering `api_.wait`; the rest of `finish_group` |
| `PublishArtifact` | `synchronize_final_outputs`, `make_artifact` |
| `ApiThrows`, `Panic` | any Api call throws; `abort_all` |

A computation whose operands are pending in several groups is several `AwaitOperand`
and `FinishGroup` steps and then `ExecuteCompute`: the operands are looked at again
in order, and those seen before are ready by then.

The runtime's own exceptions (`ValueStore`, `ensure_ready`, `release_after_use`) are
modelled as the code throws them, not assumed away: `NoStoreError` says they are
dead code for verified plans. Two orders are abstracted because nothing tells them
apart: the inputs are bound together although the code goes one by one (a missing
input throws before or after others were bound, and nothing reads the store after
that), and the releases of one instruction happen together (an operand used twice is
released twice, `UsedBy`).

`MockRuntime` adds the cluster. A critical section of the mutex is one action. A
thread inside `cv_.wait` is a member of `asleep`; `notify_all` empties `asleep`; a
woken thread looks at its predicate in a step of its own, and a wakeup may come for
no reason (`SpuriousWake`). Sender threads are `senders[r][i]`, publishing one slot
per step. `abort_all` is two steps, the flag and the notification after unlocking,
for ranks and for senders. The contents of a value are abstracted to the id of the
value it should equal, or `Garbage`: `Origin` says what each value should hold, and
a computation yields the right contents when all its operands are right.

`MpiRuntime` has one process per rank. A value is two messages, header and slots.
`communicate_async` sends both to every remote destination and posts the receive of
each header (`Communicate`); `wait` is entered by the runtime's step and then finishes
the sends (`Sent`), takes headers and slots slot by slot (`TakeHeader`, which posts the
receive of the slots, `TakeSlots`) and returns (`WaitReturns`). `preflight` is one
`MPI_Allgather` of the skip flags and, if they are not set, one of the digests
(`GatherSkips`, `CompareSkips`, `ComparePlans`); `gathers` keeps all a process ever put
into an Allgather, so a second run that meets the first would be seen. A tag that
exceeds `MPI_TAG_UB` throws where the code computes it. `Abort` is `MPI_Abort`, after
which `Kill` ends the other processes one at a time, at any moment.

`VecExecutor` names a value by the position of its operation; `cell` is the `State` of
its VecValue. The caller goes through `compute` in steps split at the mutexes
(`WorkerFor`, `Enqueue`, `NotifyWorker`, or `RejectCompute`), then synchronizes the
final outputs and destroys the executor (`Stop`, `StopWorker`, `JoinWorkers`). A worker
waits, takes the oldest task, materializes its operands in order, completes the cell
and notifies. Readers are the sender threads of a rank: `LockCluster`, `AwaitRead`,
`EndRead` are `publish`, which copies, and so materializes, the value while it holds the
cluster's mutex; the reader in state `reading` is the holder. `SenderAborts` and `AbortAll`
need the mutex, too. The readers' futures belong to the handles of the runtime and are
joined before the Api and its executor go away. Sleeping is a step under the mutex, notifying one after it, and
wakeups may be spurious. The faults are `metadata` (compute_metadata throws in the
caller) and `compute` (compute_now throws on the worker).

`CkksRules` has one action per way a value comes into a plan: `BindInput`, `Encode`,
`Compute`. A value is a record of what the descriptor says, what `compute_metadata`
predicts (`pending`), what `compute_now` gives (`payload`), its number of slots, and
how far a rotation turned them. `Derived` is the part the two functions of the executor
share; results are metadata, `Threw` or `Undefined` (int overflow). `ValueOk`,
`MetadataRule` and `SpecRule` are the verifier's; its comparisons are in `long long`
and therefore exact, while the executor adds ints up to `IntMax`. Places are reduced to
whether the computation is on a Host, and a boot profile stands for its id.

A JSON value is a record whose one field is its type; a numeral or a digest is such a
type of its own, so no text is put together. A part of a document has an operator that
says what is accepted (`...Ok`) and one that says what is made of it (`Read...`); a reader
function that throws is a part that is not accepted. The tables of latency and noise are
checked and dropped, since nothing here reads them.

`Loading` starts every rank with names of files; a name is its bytes, hence also its
digest, and two names may hold the same document. `ReadFiles` is the driver's two readers,
`Verify` the verifier with an OperatorSpec, `ReadManifest`, `ReadBlob` and `BundleLoaded`
are `PlaintextBundleLoader::load` (a blob file may hold anything, `BlobFiles`), `Preflight`
is the barrier and the comparison, `Abort` the panic of those who wait there. The digests
are compared where the code does, and only when the rank does not skip them.

`DiffDrivers` runs one of the two tools on a pair of plans. The contents of a value are the
term that was computed, so equal terms stand for the same bits in every slot; `culprit` is an
instruction of the tested run that leaves other slots or other metadata behind (`flaw`). `Align`
is `PlanAlignment::verify`, all six steps; `RunPlans` is `run_plan`, in which `validate_value`
stops a run with wrong metadata, and `index_artifacts`; `DiffLine` and `Conclude` are `diff`.
`RunOne`, `EvaluateInput`, `EvaluateLine` and `EvaluateFinal` are the experiment: its evaluator
keeps a table of values and releases them by count, as the runtime does, in code of its own.

The two tools compare differently. `compare` takes two NaN for equal, so there a value equals
itself (`Differ`). `compare_slots` knows only `==`, so a value with a NaN differs from itself.
`SlotsDiffer` therefore also asks `numbers`, which says of each value whether a slot is infinite
or NaN. What float64 arithmetic may yield is `Outcomes`: sums and products of finite numbers
may overflow, infinities may meet. `Numbers` are all assignments that follow it from finite
inputs and payloads, and `RunOne` takes any of them. `Mismatch` is the verdict of `record_diff`:
the slots, or the metadata against the descriptor. The second half never fires, since the run
has validated the same members (`ValidatedTells` in the proofs).

## 3. What the runs check

Plans are not a fixed example: `MCRuntime` enumerates **every** code of one or two
instructions over a pool of nine (transfers, a replicate, computations on host and
devices, one with the same operand twice, an encode; two of them share a transfer
id), with every cut between the phases and four lists of final outputs, and every
code of three or four that the verifier accepts. The verifier is part of the model
and refuses most of the short ones. World of two ranks; the runs look at rank 0,
which owns most places of the pool, since SequentialRuntime's ranks do not interact.
With four instructions a value is received, forwarded, used in a computation and
released at every possible moment; more instructions repeat these patterns.

| run | cfg | shows |
|---|---|---|
| `plans` | `MCRuntime.cfg` | the members stay consistent under an Api that may do anything: `UsesExact` (counts are exactly the uses to come), `StoreExact` (a value is stored exactly while needed), `WaitedOnce`, `NoStoreError`, `ArtifactComplete`, `SingleAssignment` |
| `mock` | `MCMock.cfg` | two ranks, any mixture of five plans (one illegal, one for another world size), retain modes and skip flags: contents are right under every schedule, equal good calls succeed, and the cluster implements `SpmdRun` |
| `faults` | `MCMockFaults.cfg` | every Api call may throw, and so may publish; wrong inputs, wrong device count, differing plans, and a second `run()` on the used cluster: `Termination` for every thread, and no rank past preflight without agreement |
| `mpi` | `MCMpi.cfg` | two processes, buffered sends, two calls of `run` each with any mixture of four plans and a skip flag: nothing of the first run is left in the runtime (`NoStoreError`, `UsesExact`), collectives of different runs never meet (`RunsAligned`), no two messages under way share a tag (`NoTagClash`), contents are right, good calls succeed |
| `mpi_rendezvous` | `MCMpiRendezvous.cfg` | three processes, a received value is forwarded, no send completes before its receive; computations and waits fail, tags exceed the bound: everyone ends, nothing stays pending after a return, and the processes implement `SpmdRun` |
| `vec` | `MCVec.cfg` | the asynchronous executor on every program of two or three operations on two places with at most one fault, and one or two readers: results and failures are those of the synchronous mode (`SameAsSync`, `FailureReported`), the destructor leaves nothing (`Drained`), every thread ends (`Termination`) |
| `ckks` | `MCCkks.cfg` | every legal plan of up to four values with all twelve kinds of computation: `MetadataAgrees`, `KeysCover` |
| `loading` | `MCLoading.cfg` | two ranks, digest checks on or off on each: a deployment that fits, with any one part of any document replaced, removed or added to, other bytes for the same document, exchanged or broken blobs. `LoadingTypeOK` (what the readers hand over has the types that SequentialRuntime and CkksRules assume), `PlanAsWritten`, `SameArtifacts`, `RightSlots` |
| `diff` | `MCDiff.cfg` | a plan of one rank and its distribution over two, either with any one thing changed, no or any one instruction going wrong in its slots or metadata, and any numbers that may come out: `NoFalseAlarm`, `CulpritFound`, both but for lines where the evaluator expects a NaN, `TableExact` |
| `mpi_split`, `trace_failure`, `ranges` | `MCMpiSplit.cfg`, `MCMockTrace.cfg`, `MCLoadingRanges.cfg` | violations, section 5 |

Bounds: `MaxRuns` (calls of `run` on one instance), `MaxCode` (length of plans in
MCRuntime), the pool and the plans. `TagUB` is 131 with two processes, the largest tag
of the plans used there (a narrower tag makes two of them equal), and 256 in
`mpi_rendezvous`, where the plan `far` has an id whose header fits and whose slots do
not. `EagerParts` says which of header (0) and slots (1) MPI buffers. Three operations
on two places are the fewest with which a worker waits for a task that is queued on
the other place behind an unrelated one; a second reader comes with the programs of two
operations, where it can be the one that has the mutex. `MaxValues` is 4 in `ckks`, so that a chain
multiply, relinearize, rescale or boot, rotate fits; `IntMax` is 4, so that scales and
components pass it; three levels let a rescale drop one level or, illegally, two. The
candidate OperatorSpecs contain two that the reader refuses. Plans with fewer slots
in an input than the OperatorSpec has are explored, but see section 6. `plans` switches the deadlock check
off because a rank that returned, or is blocked in an Api that never comes back, has
no next step. The mock runs keep it on: `Terminating` stutters only in the state
where every thread has been joined, so a deadlock is a thread left waiting.

Fairness, `FairMockSpec`: weak fairness for the steps of each rank's thread
and of each sender. The harness starts a thread per rank and `std::async` with
`launch::async` one per sender, and the operating system runs them. Nothing stronger
is needed: what `cv_.wait` waits for (an abort, a full table, a published message)
stays true once it is. `SpuriousWake` has no fairness.
`FairMpiSpec`: weak fairness for the steps of each process; `mpiexec` runs every process
and MPI makes progress inside the calls that wait. `FairSpec` of VecExecutor: weak
fairness for the caller, for each worker and for each reader once started, all of them
threads; not for `StartReader` and `Spurious`.
The `vec` run keeps the deadlock check on, too.

In `loading` the widths are small and in the order of the real ones: `IntMax` 64, `SafeMax`
512 (a blob's length), `LongMax` 1024, `WordMax` 2048 (ids), with a number beyond each among
the replacements. One changed part is enough, since no reader looks at two parts at once
except where a rule relates them, and each such rule is broken by a change of either side.
The base documents have every kind of member: both payloads, all attributes but one, a
device, a transfer, a boot profile, a noise table. `Deployments` gives both ranks good files,
or rank 0 one bad one. In `diff` the pairs are the two plans and each with one member
changed, which includes plans that the alignment refuses, plans that it accepts and the
verifier refuses, and equivalent plans. Longer plans add lines of the same three kinds. Both runs end in `Terminated` or `Ended`.

Every property has a mutant of the code that breaks it, listed in
`PROJECT.json`; the mutated operators stand next to the originals, each
with a comment `Mutant:` saying what it gets wrong.

## 4. What is proved

All theorems hold for every value of the constants: any set of ranks, any family of plans,
calls, programs, documents. The assumptions on constants are those the modules declare
(`ConstantsOK`, `ClusterConstantsOK`, `ExecutorConstantsOK` and so on: plans and programs have
the types of their structs, calls name a plan, defined names are distinct), and TLC evaluates
each of them on the instances. Where a theorem needs more it says so as a hypothesis.
The inductive invariants hold on the instances of section 3, too, where TLC checks them as
invariants (all but `Collected`, which quantifies over infinite lists).

### One rank: SequentialRuntimeProofs

`ConstantsOK` is all that is known of the plans, and the Api may return, throw or hang.

- `TypeCorrect`: `Spec => []TypeOK`. The part that is not shallow is `uses` staying
  in Nat, the code's guard before `--found->second`, and the entries of the store
  having places.
- `NoDoubleWait`: `Spec => []WaitedOnce`. `api_.wait` is called only on a posted,
  unfinished group.
- `CountsAreExact`, `StoreIsExact`, `BookkeepingNeverThrows`, `ArtifactsComplete`,
  `ValuesAssignedOnce`: the run `plans` for every plan, `UsesExact`, `StoreExact`,
  `NoStoreError`, `ArtifactComplete` and `SingleAssignment`.

`TypeOK` and `WaitedOnce` are not inductive. The first invariant is `ArgsOK` (a rank past
setup runs a plan the verifier accepted), then `TypeOK /\ GroupsKnown`: completed groups, the
group named by every pending value and the group of a wait in progress are communications
before `pc`, and a wait is on an unfinished one. `WaitedOnce` follows from `ensure_ready`'s
test (`AwaitOperand` goes only to a group not completed, else the variant access throws)
and from `finish_group`'s early return.

The second, `RuntimeInv`, rests on what the verifier grants. From its single pass follow
`OutputUnique` (one definition per value), that an operand is defined before it is used, and
that places agree. `EntryOK` then says what `store_` holds for a value as a function of
`current_` and the set of finished groups alone: whether it is absent, pending and in which
group, or ready. It is shown to survive an instruction and the end of a group as a fact about
the *plan*, without mentioning a state; `StoreInv` carries it, `UsesExact` and the absence of
errors through every step of a rank. The argument for `NoStoreError` is the usual one made
precise: an operand of the next instruction has a use to come, hence is in the store; an output
has no definition before, hence is not; what is released has a count above zero.

### The mock cluster: ClusterProofs, MockRuntimeProofs

- `MockIsRuntime`: `MockSpec => Spec`. The cluster is one of the Apis of SequentialRuntime, so
  all of the above holds of every rank.
- `AgreementBeforeWork` (`PreflightAgreement`), `SourceIsHeld` (`SourceHeldWhileSending`),
  `NothingLeftInFlight` (`NothingInFlight`), `MockTypes` (`MockTypeOK`).
- `ValuesAreRight`: `MockSpec => []CorrectValues`. No schedule, failure, wakeup or abort makes
  a ready value hold anything but what the plan says.

`MockInv` adds to `RuntimeInv`: a rank in the barrier is in preflight and brought the entry
the table has for it (`BarrierOK`), and `PreflightAgreement`; a sender belongs to a posted
communication, has published the slots before its next one, and is done once its group is
completed (`SenderOK`, `PostedOK`); a wait has received as many slots as are published for it
(`WaitOK`). That a rank's wait for a message ends with that message, and not with one of the
other rank's plan, needs `PreflightAgreement`. `ValuesInv` says that stores, senders and messages
hold the `Origin` of their value when the ranks compare digests. `Origin` follows values through
transfers, which is recursion over the plan; it is a recursive function, and the facts about it
(`OriginOf`: one unfolding per definition) are proved by the least counterexample
(`LeastNat`).

- `MockKeepsContract`: `MockSpec => ImplementsSpmdRun`, one run of the cluster (`MaxRuns = 1`,
  which is what SpmdRun is about), under `OnePlanIfSkipped`: calls that skip the digest checks
  name the same plan. Every step of the cluster is a step of the contract or changes nothing of it.

The contract needs two facts beyond the invariants: that a rank which has failed or returned stays
so (`OnceOK`), and that nobody agrees after a failure (`FailedEarly`): while the table is not
full, a rank fails only if some rank fails that has not entered its digest, and never will.
`ArtifactsPromised`, what a returned artifact holds, joins `ArtifactComplete` and `CorrectValues`.

### MPI: MpiRuntimeProofs

- `RunsStayAligned` (`RunsAligned`), `NothingStaysPending` (`NothingPending`), `MpiTypes`, and
  `RuntimeOverMpi`: the rank's own properties although `MPI_Abort` may end a process anywhere,
  which the open Api does not do.
- `TagsNeverClash` (`NoTagClash`) and `MpiValuesAreRight` (`CorrectValues`), for any number of
  runs on one communicator, under the hypothesis `OnePlanIfSkipped`: calls that skip the digest
  checks name the same plan.

MPI forgets nothing: collectives are matched by their number, and a message waits for a receive
with its tag in whichever run that is. `MpiInv` says, with a stamp for the j-th Allgather (its
run, first or second half of preflight; there is such a list, `Collected`), that all ranks take
the collectives in the same order, which gives `RunsAligned`. `PostedOK` knows every receive
of a live rank; `AwaitedSent` says that a send that was waited for has its receive in the same
run; `RendezvousUnique`, that unbuffered messages of one tag do not meet. This much needs no
hypothesis.

`FlowInv` says that each message under way belongs to the run its receiver is in, is a slot of
the receiver's plan that it has not taken, and holds the right contents (`Due`). It rests on
counting: a rank that goes on to the next run has received all it was sent (`AllGot`), and one
that was overtaken had nothing left to send (`Overtaken`). If ranks that skip digests have
different plans this is false, a message of one run stays and is taken in the next; TLC
finds both `NoTagClash` and `CorrectValues` violated then, the latter in a later run that does
compare digests. `OnePlanIfSkipped` is what section 6 asks of a deployment; `MCMpi` states it
of its instances in an `ASSUME`, so the runs and the theorems speak of the same calls.

- `MpiKeepsContract`: `MpiSpec => ImplementsSpmdRun` under the hypotheses of
  `MockKeepsContract`. Agreement is a fact about two collectives here, and it becomes true when
  the last rank enters its last one, before anybody has seen it; `FailedEarly` has a second case,
  flags that differ, after which nobody enters another collective.

### The asynchronous executor: VecExecutorProofs

- `ModesAgree` (`SameAsSync`), `FailuresReported` (`FailureReported`), `NothingLeftBehind`
  (`Drained`), `ExecutorTypes` (`TypeOK`).
- `WakeupsArrive`: `Spec => []NoLostWakeup`. A worker that sleeps has nothing to do or the
  caller is about to notify it; who sleeps on a value that is completed is about to be notified
  by the worker that completed it. The code notifies after unlocking.
- `NoCircle`: `Spec => []OldestRuns`. The oldest value still to be completed has all its operands
  completed and is being run or is the next its worker takes. This is why workers that wait
  for each other's results never form a circle, and with fairness why `Termination` holds.

`VecInv`: values are submitted in program order (`Submitted`), every queue is in that order with the
running task first (`InOrder`), a pending value is with its worker or on its way there (`Held`,
`Manned`), a worker has seen the operands before the current one ready (`OperandsRead`), the caller
the final outputs (`Finals`), and who sleeps is where the code sleeps (`Sleepers`).
`Sound`, what the synchronous mode would do, is a recursive function and handled like `Origin`.

### The other components

`CkksRulesProofs` proves all that the `ckks` run checks, for every
OperatorSpec, every set of descriptors, every range of int and plans of any length
(`RulesConstantsOK` gives only the types of the structs):

- `NoMetadataMismatch`: `Spec => []MetadataAgrees`. The lemma `RulesMatch` compares the
  verifier's rule with the executor's, kind by kind: the output's descriptor is an int,
  the verifier's equation is exact, hence the executor's sum does not overflow and is
  the same. `ComputedMatch` adds the checks only `compute_now` makes. `MetadataAgrees`
  says that operands agree with their descriptors and is inductive with `TypeOK`.
- `RulesTyped`: `Spec => []TypeOK`, levels within the OperatorSpec's and one component exactly
  for plaintexts; the other two need it.
- `RequirementsSuffice`: `Spec => []KeysCover`, from the two normalizations of a
  rotation step being the same function once slot counts agree, and from
  re-encryption being accepted on a Host only.
- `ProfilesAccepted`: `Spec => []ProfilesUsable`, that the reader's limits on a boot profile
  and the verifier's limits on a value fit. It is proved only: a state says no more of
  it than the initial one.

`LoadingProofs` proves, for any number of ranks and any files (`WidthsOK` says only that the
widths are numbers):

- `DeployedAlike`: `Spec => []SameArtifacts`. Preflight compares the plans' digests alone;
  that the OperatorSpecs and manifests are the same follows from what each rank checked of
  its own files against the digests in that plan.
- `SlotsFound`: `Spec => []RightSlots`, whether digests are skipped or not.

Neither is inductive. The invariant `IInv` has one part for what each stage has
established: the names are documents the readers accept, the verifier accepted, the manifest
is the plan's, the slots loaded are right and in the end complete, and nobody runs before
everybody has arrived and agrees (`MetInv`, which is what makes `Abort` harmless: a rank
that fails finds nobody running). One lemma per action, with `StepKeeps` and `FailKeeps` for
what they share. `BlobFits` is the arithmetic of bytes and slots.

- `HandedOverTyped`: `Spec => []LoadingTypeOK`. What `PlanDocOk` and `SpecDocOk` accept has the types
  of `RuntimePlan` and `OperatorSpec`, so `ConstantsOK` and `RulesConstantsOK` are no assumption
  about a plan that was read from a file.
- `RunsWhatWasWritten`: `Spec => []PlanAsWritten`, by walking through the reader and the format
  side by side, instruction kind by instruction kind, through the spellings of each enumeration.

Both suppose that documents are JSON values (`DocumentsIn`: nothing is known of them but
that, of any size and depth); the second that no integer is written `-0`, which the
reader takes for 0. `MCLoading` assumes the same of its documents, which TLC evaluates.

### The comparison tools: DiffDriversProofs

For any set of pairs of plans. `PairsOK`, the only assumption, says that they have the types of
struct RuntimePlan; whether the alignment or the verifier lets them through is up to the tools.

- `DifferencesAreReal`: `Spec => []NoFalseAlarm`. For dacapo_plan_vec_diff it is the correctness
  of PlanAlignment; for the evaluator it says that a false alarm is a NaN and nothing else.
- `CulpritComesFirst`: `Spec => []CulpritFound`.
- `LookupsSucceed`: `Spec => []TableExact`.

`Values` (the contents after each instruction) and `Walk` (the way back to a value of the
reference) are recursive functions, and the provers have no induction over data. That they
satisfy their equations is shown on the least counterexample, with the well-foundedness of
the naturals (`LeastNat`, `ValuesDefined`, `WalkDefined`). Under the verifier's rules this
becomes one equation per output, `ContentsOf`, and `ValuesByPosition` is the induction
that everything else uses: what the inputs have, and every instruction passes on from its operands
to its outputs, all values have. `LineageMeans` applies it to the distributed plan: each of its
values has the contents and the metadata of the reference's value it descends from. For
a transfer that is `LineageSent`, the lineage of an output is that of what was sent, which
needs that the walk is long enough to arrive; for a computation it is `InstructionAligned`,
operand by operand. `ContentsOfRuns` says what a culprit changes: its own output, and
nothing defined before it.

`ReportInv` is inductive: what was looked at so far has reported nothing before the culprit but
lines with a NaN, and the culprit once it was passed; a run that is compared has the metadata
described (`ValidatedTells`: an instruction has an output, which `validate_value` would refuse); and the evaluator's table holds what the plan means, whatever
the tested run left behind. `TableInv` adds the use counts: `uses` is what is pending from this line
on (`PendingCounted`), and the table holds exactly the defined values that are
pending, and an input nobody reads. An operand is pending at its line, so it is there; an output
was not defined before, so it replaces nothing. For dacapo_plan_vec_diff it needs that the
artifacts of a verified plan are all its values (`ArtifactsIndexed`).

### Only model-checked

All liveness: `Termination` and `Success`. Fairness and ENABLED are outside the prover's reach;
`NoLostWakeup` and `OldestRuns` are the safety part of one such argument.

## 5. Where documents and code disagree

- `trace_failure`: `run` opens the trace file before its `try` (`runtime.hpp:114`),
  so this failure does not reach `abort_all` and the other ranks wait in preflight
  for ever, against `plaintext-testing.md:380`.
- `ranges`: `read_int` compares a literal without a sign with the upper bound only
  (`json_utils.hpp:66`), so `read_positive_int` accepts 0, against
  `docs/operator-spec/v1/specification.md:41` and `:59`. For a plan the verifier catches what
  the reader lets through; for an OperatorSpec nothing does.
- `mpi_split`: `communicate_async` posts only the receive of the header; that of the
  slots is posted inside `wait` (`mpi_api.cpp:141`), after `wait` has completed the
  caller's own sends (`:131`). `communication-design.md:304-311` argues that runs cannot
  deadlock since the receiver posts its receive as soon as it interprets the
  instruction. When MPI does not buffer the slots (a large value), a legal plan on two
  processes blocks. With buffered slots, and with the plans of `mpi_rendezvous`, it
  does not.
- Not a run: nothing joins the ranks at the end, so one may return its artifact before
  another fails (`runtime.hpp:147`), while `plaintext-testing.md:330` says "全部 runtime
  要么完成，要么一起进入 fail-fast" (all complete or all fail together). `SpmdRun` states
  what does hold: whatever is returned is complete and right.
- Not a run, but in the states of `diff`: `compare_slots` has no case for NaN
  (`dacapo_mlp_experiment.hpp:171`). Nothing in `compute_now` asks for finite results, so a
  product may overflow and a difference of infinities is NaN, in the run as in the evaluator:
  each such line is reported though no instruction went wrong, with a `max_abs_diff` of 0
  (`std::max` drops the NaN), and the first line reported need not be what went wrong.
  `plaintext-testing.md:20` says of the comparison by instruction "能定位第一个出错的值" (it can
  locate the first wrong value) and `:287` compares by "NaN/Inf 分类" (their classification), as
  `compare` of the other tool (`dacapo_plan_vec_diff.cpp:391-393`) and `compare_values` in
  `testing/testing.cpp` do. `NoFalseAlarm` and `CulpritFound` state what holds: no line but
  these is reported wrongly, and the culprit is never missed.
- Not a run: `release_after_use` reclaims values, while `plaintext-testing.md:300` says
  "首期 runtime 不回收中间值" (no intermediate value is reclaimed), likewise
  `runtime-design.md:317` and `communication-design.md:298`. `StoreExact` states what holds.
- Not a run: `runtime-design.md` says an instance can run once since nothing is
  cleared; `run` now resets its members on entry, and `mpi` shows that it is enough.

## 6. Limits of the models

With digest checks skipped on every rank, preflight compares no plans: that this
happens only when all ranks skip is `SameArtifacts`. If they then
differ, a rank may wait for a message nobody sends. Giving every rank the same plan
is the deployment's duty in this mode: the runs give a skipping rank one plan, and
`OnePlanIfSkipped` states the assumption.

`MetadataAgrees` and `KeysCover` assume inputs that fill all slots. `validate_value`
compares the metadata of an external input with its descriptor and not its number of
slots, so a shorter input is bound, the first computation with an encoded plaintext
throws, and a rotation turns by a step for which no key was required.

In the asynchronous mode a failed computation on which no final output depends is
never rethrown: `FailureReported` speaks of the final outputs, as `run` synchronizes
only those. `MockRuntime` uses the synchronous mode; that the two give the same values
is `SameAsSync`, and that `publish` may wait for a value under the cluster's mutex is in
VecExecutor. There the caller does not wait for its readers before it synchronizes, as
`finish_all_groups` would: more schedules, not fewer.

Which slots of a value are infinite or NaN is not modelled in `DiffDrivers`, so `Outcomes`
admits more than some operands can give (a value minus itself never overflows). The theorems
and the run hold for all of it. In `Reference` of `MCDiff` the outcome NaN is real: a product is
rotated and the product subtracted, which brings infinite slots of the same sign together. That the run and the
evaluator compute the same bits from the same operands is assumed: they are the same
operations on `double`.

`diff_against_reference` dereferences `plan.plaintext_bundle` without looking
(`dacapo_mlp_experiment.hpp:270`); the model takes it that the plan has a bundle. A digest is
the name of the bytes, so two files never share one.

Not modelled: numeric contents of values, timing statistics, trace rows, diagnostics; the
syntax of JSON text and rounding to float64, SHA-256 itself; the injected delays, which are
interleavings; the wire encoding of a header; command lines, reports and expected outputs of
the drivers; the environment probe, the benchmark and the generators, which have no
protocol.

## 7. Plan

Done: `RuntimePlan`, `PlanVerifier`, `SequentialRuntime`, `MockRuntime`, `SpmdRun` and its two
refinements, `MpiRuntime`, `VecExecutor` with the cluster's mutex, `CkksRules`, the readers,
`Loading`, `DiffDrivers`; the proofs of section 4. Every invariant of a passing run has a theorem.

Left: the end-to-end driver (input slots, expected outputs), the JSON text layer.
