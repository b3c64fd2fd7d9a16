-------------------------- MODULE SequentialRuntime --------------------------
(***************************************************************************)
(* SequentialRuntime<Api> (runtime/runtime.hpp): one interpreter per rank, *)
(* every rank walking the whole plan in order, acting on its own part.     *)
(*                                                                         *)
(* The Api is left open here: a call returns, throws, or never comes back. *)
(* MockRuntime and the other compositions close it, so what holds of this  *)
(* module holds under every Api.  Everything a rank does between two Api   *)
(* calls touches only its own state, so it is one action.                  *)
(*                                                                         *)
(* A communication group is named by the position of its instruction: all  *)
(* ranks push a group for every communication, so groups_ is exactly the   *)
(* communications before pc.                                               *)
(***************************************************************************)
EXTENDS PlanVerifier

CONSTANTS
  Ranks,      \* the ranks modelled, a subset of 0 .. WorldSize - 1
  WorldSize,  \* world_size given to the constructor
  ValueIds,   \* every value id of every plan
  Plans,      \* plan name -> RuntimePlan; the name stands for the file's digest
  Args,       \* rank -> the argument records run() may be called with there
  Data,       \* what an Api value may contain
  NoData,
  MaxRuns     \* bound on the calls of run() on one instance

ASSUME ConstantsOK ==
  /\ WorldSize \in Nat
  /\ Ranks \subseteq 0 .. WorldSize - 1
  /\ MaxRuns \in Nat
  /\ NoData \notin Data
  /\ \A n \in DOMAIN Plans : IsPlan(Plans[n], ValueIds)
  /\ \A r \in Ranks : Args[r] # {}
  /\ \A r \in Ranks : \A a \in Args[r] :
       /\ a.plan \in DOMAIN Plans
       /\ a.skip \in BOOLEAN /\ a.retain \in BOOLEAN /\ a.trace \in BOOLEAN
       /\ a.inputs \subseteq ValueIds

VARIABLES
  arg,        \* rank -> the arguments of the current run()
  runs,       \* rank -> how many times run() has been entered
  stage,      \* rank -> how far run() has got
  pc,         \* rank -> position of current_ in the code
  store,      \* rank -> value id -> store_ entry
  uses,       \* rank -> value id -> remaining_uses_
  completed,  \* rank -> the groups whose `completed` flag is set
  waiting,    \* rank -> the group api_.wait was called with, 0 outside wait
  error       \* rank -> what the exception that ended the run was about

rtVars == <<arg, runs, stage, pc, store, uses, completed, waiting, error>>

Stages == {"idle", "setup", "preflight", "bind", "init", "exec", "sync",
           "done", "aborting", "panic"}
StoreErrors == {"absent", "place", "variant", "defined", "uses"}
Errors == {"none", "trace", "plan", "input", "api"} \cup StoreErrors

NoPlace == Place("none", 0, 0)
EntryStates == {"Absent", "Ready", "Pending"}
Entries == [state : EntryStates, place : Places \cup {NoPlace}, group : Nat,
            data : Data \cup {NoData}]
Absent == [state |-> "Absent", place |-> NoPlace, group |-> 0, data |-> NoData]
Ready(place, data) ==
  [state |-> "Ready", place |-> place, group |-> 0, data |-> data]
Pending(place, group) ==
  [state |-> "Pending", place |-> place, group |-> group, data |-> NoData]

-----------------------------------------------------------------------------
(***************************************************************************)
(* Reading the state of a rank.                                            *)
(***************************************************************************)
PlanOf(r) == Plans[arg[r].plan]
Retain(r) == arg[r].retain          \* DiffMode::AllValuesAfterRun
Instr(r)  == PlanOf(r).code[pc[r]]

\* execute_phase is at an instruction of the current phase.
Running(r) ==
  /\ waiting[r] = 0
  /\ \/ stage[r] = "init" /\ pc[r] <= PlanOf(r).inits
     \/ stage[r] = "exec" /\ pc[r] <= Len(PlanOf(r).code)

\* The phase is over: finish_all_groups is what remains of it.
Draining(r) ==
  /\ waiting[r] = 0
  /\ \/ stage[r] = "init" /\ pc[r] > PlanOf(r).inits
     \/ stage[r] = "exec" /\ pc[r] > Len(PlanOf(r).code)

\* Inside api_.wait, called by finish_group.
InWait(r) == waiting[r] # 0 /\ stage[r] \in {"init", "exec"}

Posted(r)     == {i \in Comms(PlanOf(r)) : i < pc[r]}
OpenGroups(r) == Posted(r) \ completed[r]
Least(S)      == CHOOSE i \in S : \A j \in S : i <= j

Ins(r)  == LocalIns(PlanOf(r), pc[r], r)
Outs(r) == LocalOuts(PlanOf(r), pc[r], r)
InEntry(r, k) == store[r][Instr(r).inputs[k]]

\* What ensure_ready throws for operand k of the current instruction.
OperandFault(r, k) ==
  CASE InEntry(r, k).state = "Absent"                        -> "absent"
    [] InEntry(r, k).place # InPlace(PlanOf(r), pc[r], k)    -> "place"
    [] /\ InEntry(r, k).state = "Pending"
       /\ InEntry(r, k).group \in completed[r]               -> "variant"
    [] OTHER                                                 -> "none"

\* The operands ensure_ready cannot hand out at once, the first one decides.
Unready(r) == {k \in Ins(r) : InEntry(r, k).state # "Ready" \/ OperandFault(r, k) # "none"}

-----------------------------------------------------------------------------
(***************************************************************************)
(* release_after_use for every local operand of instruction i, applied to  *)
(* the store s.  An operand used twice is released twice.                  *)
(***************************************************************************)
UsedBy(r, i, v) ==
  Cardinality({k \in LocalIns(PlanOf(r), i, r) : PlanOf(r).code[i].inputs[k] = v})

CanRelease(r, i) ==
  \/ Retain(r)
  \/ \A k \in LocalIns(PlanOf(r), i, r) :
       LET v == PlanOf(r).code[i].inputs[k] IN
       uses[r][v] >= UsedBy(r, i, v) /\ store[r][v].state # "Absent"

\* Mutant: an operand is released once too often.
UsesAfterTwice(r, i) ==
  IF Retain(r) THEN uses[r]
  ELSE [v \in ValueIds |-> uses[r][v] - 2 * UsedBy(r, i, v)]

UsesAfter(r, i) ==
  IF Retain(r) THEN uses[r]
  ELSE [v \in ValueIds |-> uses[r][v] - UsedBy(r, i, v)]

\* Mutant: the last use does not erase the value.
StoreAfterLeaks(r, i, s) == s

StoreAfter(r, i, s) ==
  IF Retain(r) THEN s
  ELSE [v \in ValueIds |->
          IF UsedBy(r, i, v) > 0 /\ uses[r][v] = UsedBy(r, i, v) THEN Absent ELSE s[v]]

\* The store with entry[k] under the k-th output of instruction i, for every
\* local output: define_ready, define_pending and the update after a wait.
WithOutputs(r, i, entry) ==
  [v \in ValueIds |->
     IF \E k \in LocalOuts(PlanOf(r), i, r) : PlanOf(r).code[i].outputs[k] = v
     THEN entry[CHOOSE k \in LocalOuts(PlanOf(r), i, r) : PlanOf(r).code[i].outputs[k] = v]
     ELSE store[r][v]]

Defined(r, entry) == WithOutputs(r, pc[r], entry)

OutputsAbsent(r) == \A k \in Outs(r) : store[r][Instr(r).outputs[k]].state = "Absent"

\* Mutant: final outputs are not counted as uses.
InitialUsesOfCode(r) ==
  [v \in ValueIds |->
     IF Retain(r) THEN 0
     ELSE Cardinality({s \in UseSites(PlanOf(r), r, v) : s[1] # FinalSite(PlanOf(r))})]

\* initialize_use_counts: one per operand position this rank acts on and per
\* final output it owns, nothing at all when every value is retained.
InitialUses(r) ==
  [v \in ValueIds |-> IF Retain(r) THEN 0 ELSE Cardinality(UseSites(PlanOf(r), r, v))]

-----------------------------------------------------------------------------
(***************************************************************************)
(* Actions.  run() catches every exception, and then calls abort_all.      *)
(***************************************************************************)
Throw(r, why) ==
  /\ stage' = [stage EXCEPT ![r] = "aborting"]
  /\ error' = [error EXCEPT ![r] = why]
  /\ UNCHANGED <<arg, runs, pc, store, uses, completed, waiting>>

\* abort_all does not return: run() leaves by the exception it throws.
Panic(r) ==
  /\ stage[r] = "aborting"
  /\ stage' = [stage EXCEPT ![r] = "panic"]
  /\ UNCHANGED <<arg, runs, pc, store, uses, completed, waiting, error>>

\* Mutants of Start: run() forgets to clear groups_, or remaining_uses_.
StartKeeping(r, keptUses, keptGroups) ==
  /\ stage[r] \in {"idle", "done", "panic"}
  /\ runs[r] < MaxRuns
  /\ \E a \in Args[r] : arg' = [arg EXCEPT ![r] = a]
  /\ runs' = [runs EXCEPT ![r] = @ + 1]
  /\ stage' = [stage EXCEPT ![r] = "setup"]
  /\ error' = [error EXCEPT ![r] = "none"]
  /\ pc' = [pc EXCEPT ![r] = 1]
  /\ store' = [store EXCEPT ![r] = [v \in ValueIds |-> Absent]]
  /\ uses' = [uses EXCEPT ![r] = keptUses]
  /\ completed' = [completed EXCEPT ![r] = keptGroups]
  /\ waiting' = [waiting EXCEPT ![r] = 0]
StartKeepsGroups(r) == StartKeeping(r, [v \in ValueIds |-> 0], completed[r])
StartKeepsUses(r)   == StartKeeping(r, uses[r], {})

\* Entry of run(): the members are reset and the call's arguments installed.
\* open_trace comes before the try block: when the trace file cannot be opened
\* (trace is FALSE) the exception leaves run() and abort_all is not called.
Start(r) ==
  /\ stage[r] \in {"idle", "done", "panic"}
  /\ runs[r] < MaxRuns
  /\ \E a \in Args[r] :
       /\ arg' = [arg EXCEPT ![r] = a]
       /\ stage' = [stage EXCEPT ![r] = IF a.trace THEN "setup" ELSE "panic"]
       /\ error' = [error EXCEPT ![r] = IF a.trace THEN "none" ELSE "trace"]
  /\ runs' = [runs EXCEPT ![r] = @ + 1]
  /\ pc' = [pc EXCEPT ![r] = 1]
  /\ store' = [store EXCEPT ![r] = [v \in ValueIds |-> Absent]]
  /\ uses' = [uses EXCEPT ![r] = [v \in ValueIds |-> 0]]
  /\ completed' = [completed EXCEPT ![r] = {}]
  /\ waiting' = [waiting EXCEPT ![r] = 0]

Accepted(r) ==
  /\ Verified(PlanOf(r))
  /\ RuntimeTargetOk(PlanOf(r), r, WorldSize, arg[r].devices)

\* verify, verify_runtime_target, initialize_use_counts, load_bundle.
Setup(r) ==
  /\ stage[r] = "setup"
  /\ Accepted(r)
  /\ uses' = [uses EXCEPT ![r] = [v \in ValueIds |-> @[v] + InitialUses(r)[v]]]
  /\ stage' = [stage EXCEPT ![r] = "preflight"]
  /\ UNCHANGED <<arg, runs, pc, store, completed, waiting, error>>

RefusePlan(r) ==
  /\ stage[r] = "setup"
  /\ ~Accepted(r)
  /\ Throw(r, "plan")

PreflightReturns(r) ==
  /\ stage[r] = "preflight"
  /\ stage' = [stage EXCEPT ![r] = "bind"]
  /\ UNCHANGED <<arg, runs, pc, store, uses, completed, waiting, error>>

\* bind_inputs: the caller binds exactly the external inputs placed here.
BindInputs(r, content) ==
  /\ stage[r] = "bind"
  /\ arg[r].inputs = LocalExternals(PlanOf(r), r)
  /\ IF \E v \in LocalExternals(PlanOf(r), r) : store[r][v].state # "Absent"
     THEN Throw(r, "defined")
     ELSE /\ store' = [store EXCEPT ![r] =
               [v \in ValueIds |-> IF v \in LocalExternals(PlanOf(r), r)
                                   THEN Ready(Desc(PlanOf(r), v).place, content[v])
                                   ELSE @[v]]]
          /\ stage' = [stage EXCEPT ![r] = "init"]
          /\ UNCHANGED <<arg, runs, pc, uses, completed, waiting, error>>

RefuseInputs(r) ==
  /\ stage[r] = "bind"
  /\ arg[r].inputs # LocalExternals(PlanOf(r), r)
  /\ Throw(r, "input")

-----------------------------------------------------------------------------
\* The exceptions of the runtime's own bookkeeping, at the current instruction
\* and when a group is finished.
InstructionFault(r) ==
  CASE Unready(r) # {}            -> OperandFault(r, Least(Unready(r)))
    [] ~OutputsAbsent(r)          -> "defined"
    [] /\ Instr(r).op = "Compute"
       /\ ~CanRelease(r, pc[r]) -> "uses"
    [] OTHER                      -> "none"

GroupOuts(r)   == LocalOuts(PlanOf(r), waiting[r], r)
GroupOut(r, k) == PlanOf(r).code[waiting[r]].outputs[k]

GroupFault(r) ==
  CASE \E k \in GroupOuts(r) : store[r][GroupOut(r, k)].state = "Absent" -> "absent"
    [] ~CanRelease(r, waiting[r]) -> "uses"
    [] OTHER -> "none"

\* Mutant: ensure_ready hands out a pending value.
NeverBlocked(r) == FALSE

\* ensure_ready meets a pending operand: finish_group calls api_.wait.
Blocked(r) == Unready(r) # {} /\ OperandFault(r, Least(Unready(r))) = "none"

AwaitOperand(r) ==
  /\ Running(r)
  /\ Blocked(r)
  /\ waiting' = [waiting EXCEPT ![r] = InEntry(r, Least(Unready(r))).group]
  /\ UNCHANGED <<arg, runs, stage, pc, store, uses, completed, error>>

\* An instruction whose operands need no wait: it goes through and leaves the
\* store and the counts as given, or ends the run with a bookkeeping exception.
Execute(r, newStore, newUses) ==
  /\ ~Blocked(r)
  /\ IF InstructionFault(r) # "none"
     THEN Throw(r, InstructionFault(r))
     ELSE /\ store' = [store EXCEPT ![r] = newStore]
          /\ uses' = [uses EXCEPT ![r] = newUses]
          /\ pc' = [pc EXCEPT ![r] = @ + 1]
          /\ UNCHANGED <<arg, runs, stage, completed, waiting, error>>

\* An Encode or Compute placed on another rank.
Skip(r) ==
  /\ Running(r) /\ Instr(r).op # "Comm" /\ Outs(r) = {}
  /\ Execute(r, store[r], uses[r])

\* execute_encode on the owner of the plaintext.
ExecuteEncode(r, data) ==
  /\ Running(r) /\ Instr(r).op = "Encode" /\ Outs(r) # {}
  /\ Execute(r, Defined(r, [k \in Outs(r) |-> Ready(OutPlace(PlanOf(r), pc[r], k), data)]), uses[r])

\* execute_compute: the output is defined before the operands are released.
ExecuteCompute(r, data) ==
  /\ Running(r) /\ Instr(r).op = "Compute" /\ Outs(r) # {}
  /\ Execute(r,
       StoreAfter(r, pc[r], Defined(r, [k \in Outs(r) |-> Ready(Instr(r).place, data)])),
       UsesAfter(r, pc[r]))

\* Mutant: the operands are released when the communication is posted.
PostCommReleases(r) ==
  /\ Running(r) /\ Instr(r).op = "Comm"
  /\ Execute(r,
       StoreAfter(r, pc[r],
         Defined(r, [k \in Outs(r) |-> Pending(Instr(r).destinations[k], pc[r])])),
       UsesAfter(r, pc[r]))

\* execute_communication, on every rank, involved or not: the local outputs
\* become pending and the operands stay until the group is finished.
PostComm(r) ==
  /\ Running(r) /\ Instr(r).op = "Comm"
  /\ Execute(r, Defined(r, [k \in Outs(r) |-> Pending(Instr(r).destinations[k], pc[r])]), uses[r])

-----------------------------------------------------------------------------
\* Mutant: finish_group does not look at `completed`.
AwaitOldestAgain(r) ==
  /\ Draining(r)
  /\ OpenGroups(r) # {}
  /\ waiting' = [waiting EXCEPT ![r] = Least(Posted(r))]
  /\ UNCHANGED <<arg, runs, stage, pc, store, uses, completed, error>>

\* finish_all_groups, in the order the groups were posted.
AwaitOldest(r) ==
  /\ Draining(r)
  /\ OpenGroups(r) # {}
  /\ waiting' = [waiting EXCEPT ![r] = Least(OpenGroups(r))]
  /\ UNCHANGED <<arg, runs, stage, pc, store, uses, completed, error>>

\* The rest of finish_group once api_.wait returned: outputs become ready,
\* the operands of the communication are released, the group is completed.
FinishGroup(r, content) ==
  LET arrived == WithOutputs(r, waiting[r],
        [k \in GroupOuts(r) |-> Ready(Desc(PlanOf(r), GroupOut(r, k)).place, content[GroupOut(r, k)])])
  IN
  /\ InWait(r)
  /\ IF GroupFault(r) # "none"
     THEN Throw(r, GroupFault(r))
     ELSE /\ store' = [store EXCEPT ![r] = StoreAfter(r, waiting[r], arrived)]
          /\ uses' = [uses EXCEPT ![r] = UsesAfter(r, waiting[r])]
          /\ completed' = [completed EXCEPT ![r] = @ \cup {waiting[r]}]
          /\ waiting' = [waiting EXCEPT ![r] = 0]
          /\ UNCHANGED <<arg, runs, stage, pc, error>>

\* Mutant: the phase ends without finish_all_groups.
DrainedEarly(r) ==
  /\ Draining(r)
  /\ stage' = [stage EXCEPT ![r] = IF stage[r] = "init" THEN "exec" ELSE "sync"]
  /\ UNCHANGED <<arg, runs, pc, store, uses, completed, waiting, error>>

Drained(r) ==
  /\ Draining(r)
  /\ OpenGroups(r) = {}
  /\ stage' = [stage EXCEPT ![r] = IF stage[r] = "init" THEN "exec" ELSE "sync"]
  /\ UNCHANGED <<arg, runs, pc, store, uses, completed, waiting, error>>

\* synchronize_final_outputs and make_artifact.
FinalReady(r, j) ==
  LET v == PlanOf(r).final[j] IN
  store[r][v].state = "Ready" /\ store[r][v].place = Desc(PlanOf(r), v).place

PublishArtifact(r) ==
  /\ stage[r] = "sync"
  /\ IF \A j \in LocalFinals(PlanOf(r), r) : FinalReady(r, j)
     THEN /\ stage' = [stage EXCEPT ![r] = "done"]
          /\ UNCHANGED <<arg, runs, pc, store, uses, completed, waiting, error>>
     ELSE Throw(r, "absent")

-----------------------------------------------------------------------------
\* The points where a call into the Api (or, in setup, the bundle loader)
\* may throw.
CallsApi(r) ==
  \/ stage[r] \in {"setup", "preflight"}
  \/ stage[r] = "bind" /\ LocalExternals(PlanOf(r), r) # {}
  \/ Running(r) /\ ~Blocked(r) /\ (Instr(r).op = "Comm" \/ Outs(r) # {})
  \/ InWait(r)
  \/ stage[r] = "sync" /\ LocalFinals(PlanOf(r), r) # {}

ApiThrows(r) == CallsApi(r) /\ Throw(r, "api")

-----------------------------------------------------------------------------
\* Before its first run() an instance has no plan; any argument record stands
\* for that, for nothing reads it until Start has replaced it.
Init ==
  /\ arg = [r \in Ranks |-> CHOOSE a \in Args[r] : TRUE]
  /\ runs = [r \in Ranks |-> 0]
  /\ stage = [r \in Ranks |-> "idle"]
  /\ pc = [r \in Ranks |-> 1]
  /\ store = [r \in Ranks |-> [v \in ValueIds |-> Absent]]
  /\ uses = [r \in Ranks |-> [v \in ValueIds |-> 0]]
  /\ completed = [r \in Ranks |-> {}]
  /\ waiting = [r \in Ranks |-> 0]
  /\ error = [r \in Ranks |-> "none"]

Step(r) ==
  \/ Start(r) \/ Setup(r) \/ RefusePlan(r) \/ PreflightReturns(r)
  \/ \E content \in [ValueIds -> Data] : BindInputs(r, content)
  \/ RefuseInputs(r)
  \/ Skip(r)
  \/ \E data \in Data : ExecuteEncode(r, data) \/ ExecuteCompute(r, data)
  \/ PostComm(r) \/ AwaitOperand(r) \/ AwaitOldest(r)
  \/ \E content \in [ValueIds -> Data] : FinishGroup(r, content)
  \/ Drained(r) \/ PublishArtifact(r)
  \/ ApiThrows(r) \/ Panic(r)

Next == \E r \in Ranks : Step(r)

Spec == Init /\ [][Next]_rtVars

-----------------------------------------------------------------------------
(***************************************************************************)
(* Properties.                                                             *)
(***************************************************************************)
\* Every variable has the shape of the member it stands for.
TypeOK ==
  /\ arg \in [Ranks -> UNION {Args[r] : r \in Ranks}]
  /\ runs \in [Ranks -> 0 .. MaxRuns]
  /\ stage \in [Ranks -> Stages]
  /\ pc \in [Ranks -> Nat \ {0}]
  /\ store \in [Ranks -> [ValueIds -> Entries]]
  /\ uses \in [Ranks -> [ValueIds -> Nat]]
  /\ completed \in [Ranks -> SUBSET Nat]
  /\ waiting \in [Ranks -> Nat]
  /\ error \in [Ranks -> Errors]

\* Stages with use counts in place, and with the caller's inputs bound.
Counted(r) == stage[r] \in {"preflight", "bind", "init", "exec", "sync", "done"}
Bound(r)   == stage[r] \in {"init", "exec", "sync", "done"}

\* The uses of v on rank r that have not been released: those of a
\* communication until its group is finished, those of a final output for good.
OpenUses(r, v) ==
  {s \in UseSites(PlanOf(r), r, v) :
     s[1] \notin completed[r] /\ (s[1] >= pc[r] \/ s[1] \in Comms(PlanOf(r)))}

\* v has been defined on rank r in this run.
Born(r, v) ==
  \/ v \in LocalExternals(PlanOf(r), r)
  \/ \E i \in DOMAIN PlanOf(r).code : i < pc[r] /\
       \E k \in LocalOuts(PlanOf(r), i, r) : PlanOf(r).code[i].outputs[k] = v

\* v is an output of a group of rank r that has not been finished.
InFlight(r, v, i) ==
  i \in OpenGroups(r) /\ \E k \in LocalOuts(PlanOf(r), i, r) : PlanOf(r).code[i].outputs[k] = v

\* A plan the verifier accepts never runs into the bookkeeping exceptions of
\* ValueStore, ensure_ready and release_after_use, whatever the Api does:
\* these throw sites (runtime.hpp 69, 73, 77, 83, 281-287, 393) are dead code.
NoStoreError == \A r \in Ranks : error[r] \notin StoreErrors

\* remaining_uses_ is at every moment the number of uses still to come
\* (initialize_use_counts, release_after_use).
UsesExact ==
  \A r \in Ranks : Counted(r) /\ ~Retain(r) =>
    \A v \in ValueIds : uses[r][v] = Cardinality(OpenUses(r, v))

\* A value is in store_ from its definition until its last use is released
\* (for good when it has no use, or when values are retained), pending exactly
\* while its group is unfinished, and at the place its descriptor names.
StoreExact ==
  \A r \in Ranks : Bound(r) => \A v \in ValueIds :
    /\ store[r][v].state # "Absent" <=>
         Born(r, v) /\ (Retain(r) \/ OpenUses(r, v) # {} \/ UseSites(PlanOf(r), r, v) = {})
    /\ store[r][v].state = "Pending" => InFlight(r, v, store[r][v].group)
    /\ store[r][v].state = "Ready" => \A i \in OpenGroups(r) : ~InFlight(r, v, i)
    /\ store[r][v].state # "Absent" => store[r][v].place = Desc(PlanOf(r), v).place

\* api_.wait is only called on a posted group that was never waited for, by
\* ensure_ready and finish_all_groups together (a handle waited twice throws).
WaitedOnce == \A r \in Ranks : InWait(r) => waiting[r] \in OpenGroups(r)

\* A run that returns has waited for every group, and its artifact is what the
\* mode promises: every value ever defined, or the final outputs and nothing
\* kept that had a use.
ArtifactComplete ==
  \A r \in Ranks : stage[r] = "done" =>
    /\ completed[r] = Comms(PlanOf(r))
    /\ \A j \in LocalFinals(PlanOf(r), r) : FinalReady(r, j)
    /\ \A v \in ValueIds :
         LET kept == store[r][v].state = "Ready" IN
         IF Retain(r) THEN kept <=> Born(r, v)
         ELSE kept => \/ UseSites(PlanOf(r), r, v) = {}
                      \/ \E j \in LocalFinals(PlanOf(r), r) : PlanOf(r).final[j] = v

\* Within a run a value that was released never comes back, and a defined one
\* changes only from pending to ready (single assignment, at run time).
SingleAssignment ==
  [][\A r \in Ranks : Bound(r) /\ runs'[r] = runs[r] =>
       \A v \in ValueIds :
         /\ Born(r, v) /\ store[r][v].state = "Absent" => store'[r][v].state = "Absent"
         /\ store[r][v].state = "Ready" =>
              store'[r][v].state = "Absent" \/ store'[r][v] = store[r][v]]_rtVars
=============================================================================
