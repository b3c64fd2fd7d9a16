----------------------- MODULE SequentialRuntimeProofs -----------------------
(***************************************************************************)
(* Proofs about SequentialRuntime, for every set of ranks, every family of *)
(* plans and arguments, and whatever the Api does.                         *)
(*                                                                         *)
(* The argument goes in three invariants, each resting on the one before:  *)
(*   ArgsOK      a rank past setup runs a plan the verifier accepted;      *)
(*   TypeOK      every member has its type;                                *)
(*   GroupsKnown completed groups, pending values and the group of a wait  *)
(*               in progress are all groups that have been posted.         *)
(* On them rests StoreInv, what is in the store (second part).             *)
(***************************************************************************)
EXTENDS SequentialRuntime, FiniteSetTheorems, TLAPS

AllArgs == UNION {Args[r] : r \in Ranks}

ArgsOK ==
  /\ arg \in [Ranks -> AllArgs]
  /\ \A r \in Ranks : arg[r] \in Args[r]
  /\ stage \in [Ranks -> Stages]
  /\ \A r \in Ranks : Counted(r) => Accepted(r)

-----------------------------------------------------------------------------
(***************************************************************************)
(* Lemmas about plans.                                                     *)
(***************************************************************************)
\* A plan that run() may be called with has the types of struct RuntimePlan.
LEMMA PlanTyped ==
  ASSUME NEW r \in Ranks, NEW a \in Args[r]
  PROVE  IsPlan(Plans[a.plan], ValueIds)
BY ConstantsOK

\* The descriptor of a described value is at a place (SequentialRuntime::desc).
LEMMA DescTyped ==
  ASSUME NEW p, IsPlan(p, ValueIds), NEW v, HasDesc(p, v)
  PROVE  Desc(p, v).place \in Places
BY DEF IsPlan, HasDesc, Desc

\* Least picks a member of any nonempty set of naturals (finish_all_groups walks
\* groups_ from the front, std::map and vector positions in order).
LEMMA LeastIn ==
  ASSUME NEW S, S \subseteq Nat, S # {}
  PROVE  Least(S) \in S
<1>1. \E x \in S : \A y \in S : ~ (<<y, x>> \in OpToRel(<, Nat))
  BY NatLessThanWellFounded, WFMin
<1>2. PICK x \in S : \A y \in S : ~ (y < x)
  BY <1>1 DEF OpToRel
<1>3. \A y \in S : x <= y
  BY <1>2
<1> QED
  BY <1>3 DEF Least

\* Every instruction of a plan has the type of its body.
LEMMA InstructionTyped ==
  ASSUME NEW p, IsPlan(p, ValueIds), NEW i \in DOMAIN p.code
  PROVE  p.code[i] \in Instructions(ValueIds)
<1>1. p.code \in Seq(Instructions(ValueIds))
  BY DEF IsPlan
<1>2. \A S : \A q \in Seq(S) : \A j \in DOMAIN q : q[j] \in S
  OBVIOUS
<1> QED
  BY <1>1, <1>2

\* A sequence has finitely many positions.
LEMMA SegmentFinite ==
  ASSUME NEW n \in Nat
  PROVE  IsFiniteSet(1 .. n)
<1>1. 1 \in Int /\ n \in Int
  OBVIOUS
<1> QED
  BY <1>1, FS_Interval

\* The operands and outputs of an instruction are finitely many positions.
LEMMA LocalPositions ==
  ASSUME NEW p, IsPlan(p, ValueIds), NEW i \in DOMAIN p.code, NEW r
  PROVE  /\ LocalIns(p, i, r) \subseteq DOMAIN p.code[i].inputs
         /\ LocalOuts(p, i, r) \subseteq DOMAIN p.code[i].outputs
         /\ IsFiniteSet(LocalIns(p, i, r))
<1>1. p.code[i].inputs \in Seq(ValueIds)
  BY InstructionTyped DEF Instructions
<1>2. DOMAIN p.code[i].inputs = 1 .. Len(p.code[i].inputs) /\ Len(p.code[i].inputs) \in Nat
  BY <1>1
<1>3. IsFiniteSet(DOMAIN p.code[i].inputs)
  BY <1>2, SegmentFinite
<1>4. LocalIns(p, i, r) \subseteq DOMAIN p.code[i].inputs
  BY DEF LocalIns
<1> QED
  BY <1>3, <1>4, FS_Subset DEF LocalOuts

\* The uses of a value are finitely many, so initialize_use_counts counts them.
LEMMA UseSitesFinite ==
  ASSUME NEW p, IsPlan(p, ValueIds), NEW r, NEW v
  PROVE  IsFiniteSet(UseSites(p, r, v)) /\ Cardinality(UseSites(p, r, v)) \in Nat
<1> DEFINE sites == [i \in DOMAIN p.code |-> {i} \X LocalIns(p, i, r)]
           all   == {{i} \X LocalIns(p, i, r) : i \in DOMAIN p.code}
           finals == {FinalSite(p)} \X LocalFinals(p, r)
<1>1. IsFiniteSet(DOMAIN p.code)
  <2>1. DOMAIN p.code = 1 .. Len(p.code) /\ Len(p.code) \in Nat
    BY DEF IsPlan
  <2>2. IsFiniteSet(1 .. Len(p.code))
    BY <2>1, SegmentFinite
  <2> QED
    BY <2>1, <2>2
<1>2. IsFiniteSet(all)
  <2>1. sites \in Surjection(DOMAIN p.code, all)
    BY DEF Surjection
  <2> QED
    BY <1>1, <2>1, FS_Surjection
<1>3. \A T \in all : IsFiniteSet(T)
  <2> SUFFICES ASSUME NEW i \in DOMAIN p.code PROVE IsFiniteSet({i} \X LocalIns(p, i, r))
    OBVIOUS
  <2> QED
    BY LocalPositions, FS_Singleton, FS_Product
<1>4. IsFiniteSet(UNION all)
  BY <1>2, <1>3, FS_UNION
<1>5. IsFiniteSet(finals)
  <2>1. DOMAIN p.final = 1 .. Len(p.final) /\ Len(p.final) \in Nat
    BY DEF IsPlan
  <2>2. IsFiniteSet(DOMAIN p.final)
    BY <2>1, SegmentFinite
  <2>3. IsFiniteSet(LocalFinals(p, r))
    BY <2>2, FS_Subset DEF LocalFinals
  <2> QED
    BY <2>3, FS_Singleton, FS_Product
<1>6. IsFiniteSet((UNION all) \cup finals)
  BY <1>4, <1>5, FS_Union
<1>7. UseSites(p, r, v) \subseteq (UNION all) \cup finals
  BY DEF UseSites
<1>8. IsFiniteSet(UseSites(p, r, v))
  BY <1>6, <1>7, FS_Subset
<1> QED
  BY <1>8, FS_CardinalityType

\* In a verified plan every output of an instruction is described and lands at
\* a place (execute_encode, execute_compute, execute_communication).
LEMMA OutputsPlaced ==
  ASSUME NEW p, IsPlan(p, ValueIds), Verified(p),
         NEW i \in DOMAIN p.code, NEW k \in DOMAIN p.code[i].outputs
  PROVE  /\ p.code[i].outputs[k] \in ValueIds
         /\ HasDesc(p, p.code[i].outputs[k])
         /\ OutPlace(p, i, k) \in Places
<1> DEFINE ins == p.code[i]
<1>1. ins \in Instructions(ValueIds)
  BY InstructionTyped
<1>2. ins.outputs \in Seq(ValueIds) /\ ins.destinations \in Seq(Places) /\ ins.place \in Places
  BY <1>1 DEF Instructions
<1>3. ins.outputs[k] \in ValueIds
  BY <1>2
<1>4. InstructionOk(p, i)
  BY DEF Verified
<1>5. CASE ins.op = "Comm"
  <2>1. CommOk(p, i)
    BY <1>4, <1>5 DEF InstructionOk
  <2>2. HasDesc(p, ins.outputs[k]) /\ Len(ins.destinations) = Len(ins.outputs)
    BY <2>1 DEF CommOk, DestinationsOk
  <2>3. k \in DOMAIN ins.destinations
    BY <1>2, <2>2
  <2>4. ins.destinations[k] \in Places
    BY <1>2, <2>3
  <2> QED
    BY <1>3, <1>5, <2>2, <2>4 DEF OutPlace
<1>6. CASE ins.op # "Comm"
  <2>1. Len(ins.outputs) = 1
    BY <1>6 DEF IsPlan
  <2>2. k = 1
    BY <1>2, <2>1
  <2>3. ins.op = "Encode" \/ ins.op = "Compute"
    BY <1>1, <1>6 DEF Instructions
  <2>4. HasDesc(p, ins.outputs[1])
    BY <1>4, <2>3 DEF InstructionOk, EncodeOk, ComputeOk
  <2>5. Desc(p, ins.outputs[1]).place \in Places
    BY <2>4, DescTyped
  <2> QED
    BY <1>2, <1>3, <2>2, <2>3, <2>4, <2>5 DEF OutPlace
<1> QED
  BY <1>5, <1>6

-----------------------------------------------------------------------------
\* Before the first run() every rank holds some argument record of its own.
LEMMA ArgsInit ==
  ASSUME Init
  PROVE  ArgsOK
BY ConstantsOK DEF Init, ArgsOK, AllArgs, Counted, Stages

\* Every step keeps the arguments of the call, and a rank only gets past setup
\* with a plan that PlanVerifier accepted (verify and verify_runtime_target).
LEMMA ArgsStep ==
  ASSUME ArgsOK, [Next]_rtVars
  PROVE  ArgsOK'
<1>1. CASE UNCHANGED rtVars
  BY <1>1 DEF ArgsOK, rtVars, Counted, Accepted, PlanOf
<1>2. ASSUME NEW r \in Ranks, Start(r) PROVE ArgsOK'
  BY <1>2 DEF ArgsOK, AllArgs, Start, Counted, Accepted, PlanOf, Stages
<1>3. ASSUME NEW r \in Ranks, Setup(r) PROVE ArgsOK'
  BY <1>3 DEF ArgsOK, Setup, Counted, Accepted, PlanOf, Stages
<1>4. ASSUME NEW r \in Ranks, NEW w, Throw(r, w) PROVE ArgsOK'
  BY <1>4 DEF ArgsOK, Throw, Counted, Accepted, PlanOf, Stages
<1>5. ASSUME NEW r \in Ranks,
             PreflightReturns(r) \/ Drained(r) \/ Panic(r)
      PROVE  ArgsOK'
  BY <1>5 DEF ArgsOK, PreflightReturns, Drained, Draining, Panic, Counted, Accepted, PlanOf, Stages
<1>6. ASSUME NEW r \in Ranks, NEW content, BindInputs(r, content) PROVE ArgsOK'
  BY <1>4, <1>6 DEF ArgsOK, BindInputs, Counted, Accepted, PlanOf, Stages
<1>7. ASSUME NEW r \in Ranks, NEW s, NEW u, Execute(r, s, u) PROVE ArgsOK'
  BY <1>4, <1>7 DEF ArgsOK, Execute, Counted, Accepted, PlanOf
<1>8. ASSUME NEW r \in Ranks, AwaitOperand(r) \/ AwaitOldest(r) PROVE ArgsOK'
  BY <1>8 DEF ArgsOK, AwaitOperand, AwaitOldest, Counted, Accepted, PlanOf
<1>9. ASSUME NEW r \in Ranks, NEW content, FinishGroup(r, content) PROVE ArgsOK'
  BY <1>4, <1>9 DEF ArgsOK, FinishGroup, Counted, Accepted, PlanOf
<1>10. ASSUME NEW r \in Ranks, PublishArtifact(r) PROVE ArgsOK'
  BY <1>4, <1>10 DEF ArgsOK, PublishArtifact, Counted, Accepted, PlanOf, Stages
<1> QED
  BY <1>1, <1>2, <1>3, <1>4, <1>5, <1>6, <1>7, <1>8, <1>9, <1>10
  DEF Next, Step, RefusePlan, RefuseInputs, Skip, ExecuteEncode, ExecuteCompute, PostComm,
      ApiThrows

\* The arguments installed by run() are those of the call, and the stages after
\* setup are only reached with a plan that PlanVerifier accepted.
THEOREM ArgsInvariant == Spec => []ArgsOK
<1>1. Init => ArgsOK
  BY ArgsInit
<1>2. ArgsOK /\ [Next]_rtVars => ArgsOK'
  BY ArgsStep
<1> QED
  BY <1>1, <1>2, PTL DEF Spec

-----------------------------------------------------------------------------
(***************************************************************************)
(* Types.                                                                  *)
(***************************************************************************)
\* Completed groups, the groups of pending values and the group of a wait in
\* progress are communications before current_, and a wait is never on a
\* completed group (groups_, PendingGroup::completed).
GroupsKnown ==
  \A r \in Ranks :
    /\ completed[r] \subseteq Posted(r)
    /\ \A v \in ValueIds :
         store[r][v].state = "Pending" => store[r][v].group \in Posted(r)
    /\ waiting[r] # 0 => waiting[r] \in OpenGroups(r)

\* The three forms of a store entry have the type of entries.
LEMMA EntriesTyped ==
  /\ Absent \in Entries
  /\ \A place \in Places : \A data \in Data : Ready(place, data) \in Entries
  /\ \A place \in Places : \A g \in Nat : Pending(place, g) \in Entries
BY DEF Absent, Ready, Pending, Entries, EntryStates

\* The plan of a rank is one of the plans of the model.
LEMMA PlanOfTyped ==
  ASSUME ArgsOK, NEW r \in Ranks
  PROVE  IsPlan(PlanOf(r), ValueIds)
BY PlanTyped DEF ArgsOK, PlanOf

\* While execute_phase runs, current_ is an instruction of the plan.
LEMMA RunningInPlan ==
  ASSUME ArgsOK, TypeOK, NEW r \in Ranks, Running(r)
  PROVE  pc[r] \in DOMAIN PlanOf(r).code
<1>1. /\ Len(PlanOf(r).code) \in Nat
      /\ DOMAIN PlanOf(r).code = 1 .. Len(PlanOf(r).code)
      /\ PlanOf(r).inits \in 0 .. Len(PlanOf(r).code)
  BY PlanOfTyped DEF IsPlan
<1>2. pc[r] \in Nat \ {0}
  BY DEF TypeOK
<1> QED
  BY <1>1, <1>2 DEF Running

\* How often an instruction uses a value on this rank is a number, positive
\* only for its own operands.
LEMMA UsedByTyped ==
  ASSUME ArgsOK, NEW r \in Ranks, NEW i \in DOMAIN PlanOf(r).code, NEW v
  PROVE  /\ UsedBy(r, i, v) \in Nat
         /\ (\A k \in LocalIns(PlanOf(r), i, r) : PlanOf(r).code[i].inputs[k] # v)
              => UsedBy(r, i, v) = 0
<1> DEFINE S == {k \in LocalIns(PlanOf(r), i, r) : PlanOf(r).code[i].inputs[k] = v}
<1>1. IsFiniteSet(LocalIns(PlanOf(r), i, r))
  BY PlanOfTyped, LocalPositions
<1>2. S \in SUBSET LocalIns(PlanOf(r), i, r)
  OBVIOUS
<1>3. IsFiniteSet(S)
  BY <1>1, <1>2, FS_Subset
<1>4. Cardinality(S) \in Nat
  BY <1>3, FS_CardinalityType
<1>5. S = {} => Cardinality(S) = 0
  BY FS_EmptySet
<1> QED
  BY <1>4, <1>5 DEF UsedBy

\* Releasing the operands of an instruction never takes a count below zero:
\* release_after_use throws first.
LEMMA UsesAfterTyped ==
  ASSUME ArgsOK, TypeOK, NEW r \in Ranks, NEW i \in DOMAIN PlanOf(r).code, CanRelease(r, i)
  PROVE  UsesAfter(r, i) \in [ValueIds -> Nat]
<1>1. uses[r] \in [ValueIds -> Nat]
  BY DEF TypeOK
<1>2. CASE Retain(r)
  BY <1>1, <1>2 DEF UsesAfter
<1>3. CASE ~Retain(r)
  <2> SUFFICES ASSUME NEW v \in ValueIds
               PROVE  uses[r][v] - UsedBy(r, i, v) \in Nat
    BY <1>3 DEF UsesAfter
  <2>1. UsedBy(r, i, v) \in Nat /\ uses[r][v] \in Nat
    BY <1>1, UsedByTyped
  <2>2. CASE \A k \in LocalIns(PlanOf(r), i, r) : PlanOf(r).code[i].inputs[k] # v
    BY <2>1, <2>2, UsedByTyped
  <2>3. CASE \E k \in LocalIns(PlanOf(r), i, r) : PlanOf(r).code[i].inputs[k] = v
    <3>1. uses[r][v] >= UsedBy(r, i, v)
      BY <1>3, <2>3 DEF CanRelease
    <3> QED
      BY <2>1, <3>1
  <2> QED
    BY <2>2, <2>3
<1> QED
  BY <1>2, <1>3

\* A release only takes entries out of the store.
LEMMA StoreAfterTyped ==
  ASSUME NEW r, NEW i, NEW s \in [ValueIds -> Entries]
  PROVE  /\ StoreAfter(r, i, s) \in [ValueIds -> Entries]
         /\ \A v \in ValueIds : StoreAfter(r, i, s)[v] \in {Absent, s[v]}
BY EntriesTyped DEF StoreAfter

\* Defining the outputs of an instruction puts the given entries in the store
\* and leaves the others alone.
LEMMA WithOutputsTyped ==
  ASSUME TypeOK, NEW r \in Ranks, NEW i, NEW entry,
         \A k \in LocalOuts(PlanOf(r), i, r) : entry[k] \in Entries
  PROVE  /\ WithOutputs(r, i, entry) \in [ValueIds -> Entries]
         /\ \A v \in ValueIds :
              \/ WithOutputs(r, i, entry)[v] = store[r][v]
              \/ \E k \in LocalOuts(PlanOf(r), i, r) : WithOutputs(r, i, entry)[v] = entry[k]
<1>1. store[r] \in [ValueIds -> Entries]
  BY DEF TypeOK
<1> DEFINE hits(v) == {k \in LocalOuts(PlanOf(r), i, r) : PlanOf(r).code[i].outputs[k] = v}
<1>2. ASSUME NEW v \in ValueIds
      PROVE  \/ WithOutputs(r, i, entry)[v] = store[r][v]
             \/ \E k \in LocalOuts(PlanOf(r), i, r) : WithOutputs(r, i, entry)[v] = entry[k]
  BY DEF WithOutputs
<1>3. WithOutputs(r, i, entry) = [v \in ValueIds |-> WithOutputs(r, i, entry)[v]]
  BY DEF WithOutputs
<1>4. \A v \in ValueIds : WithOutputs(r, i, entry)[v] \in Entries
  BY <1>1, <1>2
<1> QED
  BY <1>2, <1>3, <1>4

-----------------------------------------------------------------------------
(***************************************************************************)
(* Steps.                                                                  *)
(***************************************************************************)
IInv == ArgsOK /\ TypeOK /\ GroupsKnown
IInvStep == (TypeOK /\ GroupsKnown)'

\* An exception changes neither the members nor the groups.
LEMMA ThrowStep ==
  ASSUME IInv, NEW r \in Ranks, NEW why \in Errors, Throw(r, why)
  PROVE  IInvStep
BY DEF IInv, IInvStep, TypeOK, GroupsKnown, Throw, Stages, OpenGroups, Posted, PlanOf

\* An instruction that goes through, given what it leaves in the store and in
\* the counts (execute_phase).
LEMMA ExecuteStep ==
  ASSUME IInv, NEW r \in Ranks, Running(r), NEW newStore, NEW newUses,
         Execute(r, newStore, newUses),
         InstructionFault(r) = "none" =>
           /\ newStore \in [ValueIds -> Entries]
           /\ newUses \in [ValueIds -> Nat]
           /\ \A v \in ValueIds : newStore[v].state = "Pending" =>
                \/ newStore[v].group \in Posted(r)
                \/ newStore[v].group = pc[r] /\ Instr(r).op = "Comm"
  PROVE  IInvStep
<1>1. CASE InstructionFault(r) # "none"
  <2>1. InstructionFault(r) \in Errors
    BY DEF InstructionFault, OperandFault, Errors, StoreErrors
  <2> QED
    BY <1>1, <2>1, ThrowStep DEF Execute
<1>2. CASE InstructionFault(r) = "none"
  <2>1. /\ store' = [store EXCEPT ![r] = newStore]
        /\ uses' = [uses EXCEPT ![r] = newUses]
        /\ pc' = [pc EXCEPT ![r] = @ + 1]
        /\ UNCHANGED <<arg, runs, stage, completed, waiting, error>>
    BY <1>2 DEF Execute
  <2>2. TypeOK'
    BY <1>2, <2>1 DEF IInv, TypeOK
  <2>3. pc[r] \in DOMAIN PlanOf(r).code
    BY RunningInPlan DEF IInv
  <2>4. \A s \in Ranks : PlanOf(s)' = PlanOf(s)
    BY <2>1 DEF PlanOf
  <2>5. /\ \A s \in Ranks : Posted(s) \subseteq Posted(s)'
        /\ Instr(r).op = "Comm" => pc[r] \in Posted(r)'
    <3>1. \A i \in Comms(PlanOf(r)) : i \in Nat
      BY PlanOfTyped DEF IInv, IsPlan, Comms
    <3>2. pc \in [Ranks -> Nat \ {0}]
      BY DEF IInv, TypeOK
    <3> QED
      BY <2>1, <2>3, <2>4, <3>1, <3>2 DEF Posted, Comms, Instr
  <2>6. GroupsKnown'
    <3> SUFFICES ASSUME NEW s \in Ranks
                 PROVE  /\ completed'[s] \subseteq Posted(s)'
                        /\ \A v \in ValueIds : store'[s][v].state = "Pending" =>
                             store'[s][v].group \in Posted(s)'
                        /\ waiting'[s] # 0 => waiting'[s] \in OpenGroups(s)'
      BY DEF GroupsKnown
    <3>1. store \in [Ranks -> [ValueIds -> Entries]]
      BY DEF IInv, TypeOK
    <3> QED
      BY <1>2, <2>1, <2>5, <3>1 DEF IInv, GroupsKnown, OpenGroups
  <2> QED
    BY <2>2, <2>6 DEF IInvStep
<1> QED
  BY <1>1, <1>2

\* The instruction a rank is at, when it is not the Encode or Compute of
\* another rank, leaves well-typed entries under its outputs.
LEMMA OutputsOf ==
  ASSUME IInv, NEW r \in Ranks, Running(r), NEW k \in Outs(r)
  PROVE  /\ OutPlace(PlanOf(r), pc[r], k) \in Places
         /\ Instr(r).op = "Compute" => Instr(r).place \in Places
         /\ Instr(r).op = "Comm" => Instr(r).destinations[k] \in Places
<1>1. Verified(PlanOf(r))
  BY DEF IInv, ArgsOK, Running, Counted, Accepted
<1>2. pc[r] \in DOMAIN PlanOf(r).code
  BY RunningInPlan DEF IInv
<1>3. IsPlan(PlanOf(r), ValueIds)
  BY PlanOfTyped DEF IInv
<1>4. k \in DOMAIN PlanOf(r).code[pc[r]].outputs
  BY <1>2, <1>3, LocalPositions DEF Outs
<1>5. OutPlace(PlanOf(r), pc[r], k) \in Places
  BY <1>1, <1>2, <1>3, <1>4, OutputsPlaced
<1> QED
  BY <1>5 DEF OutPlace, Instr

\* Skip, Encode, Compute and communicate_async.
LEMMA InstructionStep ==
  ASSUME IInv, NEW r \in Ranks,
         \/ Skip(r) \/ PostComm(r)
         \/ \E data \in Data : ExecuteEncode(r, data) \/ ExecuteCompute(r, data)
  PROVE  IInvStep
<1> USE DEF IInv
<1>1. store[r] \in [ValueIds -> Entries] /\ uses[r] \in [ValueIds -> Nat]
  BY DEF TypeOK
<1>2. \A v \in ValueIds : store[r][v].state = "Pending" => store[r][v].group \in Posted(r)
  BY DEF GroupsKnown
<1>3. CASE Skip(r)
  BY <1>1, <1>2, <1>3, ExecuteStep DEF Skip
<1>4. CASE PostComm(r)
  <2> DEFINE entry == [k \in Outs(r) |-> Pending(Instr(r).destinations[k], pc[r])]
  <2>1. Running(r) /\ Instr(r).op = "Comm" /\ Execute(r, Defined(r, entry), uses[r])
    BY <1>4 DEF PostComm
  <2>2. pc[r] \in Nat
    BY DEF TypeOK
  <2>3. \A k \in LocalOuts(PlanOf(r), pc[r], r) : entry[k] \in Entries
    BY <2>1, <2>2, OutputsOf, EntriesTyped DEF Outs
  <2>4. Defined(r, entry) \in [ValueIds -> Entries]
    BY <2>3, WithOutputsTyped DEF Defined
  <2>5. \A v \in ValueIds : Defined(r, entry)[v].state = "Pending" =>
          Defined(r, entry)[v].group \in Posted(r) \/ Defined(r, entry)[v].group = pc[r]
    BY <1>2, <2>3, WithOutputsTyped DEF Defined, Pending, Outs
  <2> HIDE DEF entry
  <2> QED
    BY <1>1, <2>1, <2>4, <2>5, ExecuteStep
<1>5. ASSUME NEW data \in Data, ExecuteEncode(r, data) PROVE IInvStep
  <2> DEFINE entry == [k \in Outs(r) |-> Ready(OutPlace(PlanOf(r), pc[r], k), data)]
  <2>1. Running(r) /\ Execute(r, Defined(r, entry), uses[r])
    BY <1>5 DEF ExecuteEncode
  <2>2. \A k \in LocalOuts(PlanOf(r), pc[r], r) : entry[k] \in Entries
    BY <2>1, OutputsOf, EntriesTyped DEF Outs
  <2>3. Defined(r, entry) \in [ValueIds -> Entries]
    BY <2>2, WithOutputsTyped DEF Defined
  <2>4. \A v \in ValueIds : Defined(r, entry)[v].state = "Pending" =>
          Defined(r, entry)[v].group \in Posted(r)
    BY <1>2, <2>2, WithOutputsTyped DEF Defined, Ready, Outs
  <2> HIDE DEF entry
  <2> QED
    BY <1>1, <2>1, <2>3, <2>4, ExecuteStep
<1>6. ASSUME NEW data \in Data, ExecuteCompute(r, data) PROVE IInvStep
  <2> DEFINE entry == [k \in Outs(r) |-> Ready(Instr(r).place, data)]
             new   == StoreAfter(r, pc[r], Defined(r, entry))
  <2>1. /\ Running(r) /\ Instr(r).op = "Compute"
        /\ Execute(r, new, UsesAfter(r, pc[r]))
    BY <1>6 DEF ExecuteCompute
  <2>2. \A k \in LocalOuts(PlanOf(r), pc[r], r) : entry[k] \in Entries
    BY <2>1, OutputsOf, EntriesTyped DEF Outs
  <2>3. Defined(r, entry) \in [ValueIds -> Entries]
    BY <2>2, WithOutputsTyped DEF Defined
  <2>4. \A v \in ValueIds : Defined(r, entry)[v].state = "Pending" =>
          Defined(r, entry)[v].group \in Posted(r)
    BY <1>2, <2>2, WithOutputsTyped DEF Defined, Ready, Outs
  <2> HIDE DEF entry
  <2>5. new \in [ValueIds -> Entries]
    BY <2>3, StoreAfterTyped
  <2>6. \A v \in ValueIds : new[v].state = "Pending" => new[v].group \in Posted(r)
    BY <2>3, <2>4, StoreAfterTyped DEF Absent
  <2>7. InstructionFault(r) = "none" => UsesAfter(r, pc[r]) \in [ValueIds -> Nat]
    <3>1. InstructionFault(r) = "none" => CanRelease(r, pc[r]) \/ Unready(r) # {}
      BY <2>1 DEF InstructionFault
    <3>2. ~Blocked(r)
      BY <2>1 DEF Execute
    <3>3. InstructionFault(r) = "none" => Unready(r) = {}
      BY <3>2 DEF InstructionFault, Blocked
    <3> QED
      BY <2>1, <3>1, <3>3, RunningInPlan, UsesAfterTyped
  <2> HIDE DEF new
  <2> QED
    BY <2>1, <2>5, <2>6, <2>7, ExecuteStep
<1> QED
  BY <1>3, <1>4, <1>5, <1>6

\* finish_group after the wait: the outputs become ready, the operands are
\* released and the group is completed.
LEMMA FinishGroupStep ==
  ASSUME IInv, NEW r \in Ranks, NEW content \in [ValueIds -> Data], FinishGroup(r, content)
  PROVE  IInvStep
<1> USE DEF IInv
<1> DEFINE entry == [k \in GroupOuts(r) |->
                       Ready(Desc(PlanOf(r), GroupOut(r, k)).place, content[GroupOut(r, k)])]
           arrived == WithOutputs(r, waiting[r], entry)
<1>1. CASE GroupFault(r) # "none"
  <2>1. GroupFault(r) \in Errors
    BY DEF GroupFault, Errors, StoreErrors
  <2> QED
    BY <1>1, <2>1, ThrowStep DEF FinishGroup
<1>2. CASE GroupFault(r) = "none"
  <2>1. /\ store' = [store EXCEPT ![r] = StoreAfter(r, waiting[r], arrived)]
        /\ uses' = [uses EXCEPT ![r] = UsesAfter(r, waiting[r])]
        /\ completed' = [completed EXCEPT ![r] = @ \cup {waiting[r]}]
        /\ waiting' = [waiting EXCEPT ![r] = 0]
        /\ UNCHANGED <<arg, runs, stage, pc, error>>
    BY <1>2 DEF FinishGroup
  <2>2. waiting[r] \in OpenGroups(r) /\ waiting[r] \in DOMAIN PlanOf(r).code
    BY DEF FinishGroup, InWait, GroupsKnown, OpenGroups, Posted, Comms
  <2>3. IsPlan(PlanOf(r), ValueIds) /\ Verified(PlanOf(r))
    BY PlanOfTyped DEF FinishGroup, InWait, ArgsOK, Counted, Accepted
  <2>4. ASSUME NEW k \in LocalOuts(PlanOf(r), waiting[r], r) PROVE entry[k] \in Entries
    <3>1. k \in DOMAIN PlanOf(r).code[waiting[r]].outputs
      BY <2>2, <2>3, LocalPositions
    <3>2. GroupOut(r, k) \in ValueIds /\ HasDesc(PlanOf(r), GroupOut(r, k))
      BY <2>2, <2>3, <3>1, OutputsPlaced DEF GroupOut
    <3>3. Desc(PlanOf(r), GroupOut(r, k)).place \in Places
      BY <2>3, <3>2, DescTyped
    <3> QED
      BY <3>2, <3>3, EntriesTyped DEF GroupOuts
  <2>5. /\ arrived \in [ValueIds -> Entries]
        /\ \A v \in ValueIds : arrived[v].state = "Pending" => arrived[v].group \in Posted(r)
    BY <2>4, WithOutputsTyped DEF GroupsKnown, Ready, GroupOuts
  <2> HIDE DEF arrived
  <2> DEFINE new == StoreAfter(r, waiting[r], arrived)
  <2>6. /\ new \in [ValueIds -> Entries]
        /\ \A v \in ValueIds : new[v].state = "Pending" => new[v].group \in Posted(r)
    BY <2>5, StoreAfterTyped DEF Absent
  <2>7. UsesAfter(r, waiting[r]) \in [ValueIds -> Nat]
    BY <1>2, <2>2, UsesAfterTyped DEF GroupFault
  <2>8. waiting[r] \in Nat
    BY DEF TypeOK
  <2> HIDE DEF new
  <2>9. TypeOK'
    BY <2>1, <2>6, <2>7, <2>8 DEF TypeOK, new
  <2>10. \A s \in Ranks : Posted(s)' = Posted(s)
    BY <2>1 DEF Posted, PlanOf
  <2>11. GroupsKnown'
    BY <2>1, <2>2, <2>6, <2>10 DEF GroupsKnown, OpenGroups, TypeOK, new
  <2> QED
    BY <2>9, <2>11 DEF IInvStep
<1> QED
  BY <1>1, <1>2

\* ensure_ready waits for a group that has been posted and not completed, and
\* finish_all_groups for the oldest such group.
LEMMA AwaitStep ==
  ASSUME IInv, NEW r \in Ranks, AwaitOperand(r) \/ AwaitOldest(r)
  PROVE  IInvStep
<1> USE DEF IInv
<1>1. OpenGroups(r) \subseteq Nat
  BY PlanOfTyped DEF OpenGroups, Posted, Comms, IsPlan
<1>2. waiting'[r] \in OpenGroups(r)
  <2>1. CASE AwaitOldest(r)
    BY <1>1, <2>1, LeastIn DEF AwaitOldest, TypeOK
  <2>2. CASE AwaitOperand(r)
    <3> DEFINE k == Least(Unready(r))
    <3>1. pc[r] \in DOMAIN PlanOf(r).code /\ IsPlan(PlanOf(r), ValueIds)
      BY <2>2, RunningInPlan, PlanOfTyped DEF AwaitOperand
    <3>2. Instr(r).inputs \in Seq(ValueIds)
      BY <3>1, InstructionTyped DEF Instructions, Instr
    <3>3. Unready(r) \subseteq DOMAIN Instr(r).inputs
      BY <3>1, LocalPositions DEF Unready, Ins, Instr
    <3>4. k \in Unready(r)
      <4>1. Unready(r) \subseteq Nat
        BY <3>2, <3>3
      <4> QED
        BY <2>2, <4>1, LeastIn DEF AwaitOperand, Blocked
    <3>5. Instr(r).inputs[k] \in ValueIds
      BY <3>2, <3>3, <3>4
    <3>6. InEntry(r, k) \in Entries
      BY <3>5 DEF TypeOK, InEntry
    <3>7. OperandFault(r, k) = "none"
      BY <2>2 DEF AwaitOperand, Blocked
    <3>8. InEntry(r, k).state = "Pending" /\ InEntry(r, k).group \notin completed[r]
      BY <3>4, <3>6, <3>7 DEF Unready, OperandFault, Entries, EntryStates
    <3>9. InEntry(r, k).group \in Posted(r)
      BY <3>5, <3>8 DEF GroupsKnown, InEntry
    <3> HIDE DEF k
    <3> QED
      BY <2>2, <3>8, <3>9 DEF AwaitOperand, OpenGroups, TypeOK, k
  <2> QED
    BY <2>1, <2>2
<1>3. /\ waiting' = [waiting EXCEPT ![r] = waiting'[r]]
      /\ UNCHANGED <<arg, runs, stage, pc, store, uses, completed, error>>
  BY DEF AwaitOperand, AwaitOldest, TypeOK
<1>4. \A s \in Ranks : Posted(s)' = Posted(s) /\ OpenGroups(s)' = OpenGroups(s)
  BY <1>3 DEF Posted, OpenGroups, PlanOf
<1>5. TypeOK'
  BY <1>1, <1>2, <1>3 DEF TypeOK
<1>6. GroupsKnown'
  <2>1. \A s \in Ranks : waiting'[s] # 0 => waiting'[s] \in OpenGroups(s)
    BY <1>2, <1>3 DEF GroupsKnown, TypeOK
  <2> QED
    BY <2>1, <1>3, <1>4 DEF GroupsKnown
<1> QED
  BY <1>5, <1>6 DEF IInvStep

\* The entry of run() resets everything: no group, value or count is left.
LEMMA StartStep ==
  ASSUME IInv, ArgsOK', NEW r \in Ranks, Start(r)
  PROVE  IInvStep
<1> USE DEF IInv
<1>1. TypeOK'
  <2>1. [v \in ValueIds |-> Absent] \in [ValueIds -> Entries]
    BY EntriesTyped
  <2>2. \A s \in Ranks : runs'[s] \in 0 .. MaxRuns
    BY ConstantsOK DEF Start, TypeOK
  <2>3. arg' \in [Ranks -> UNION {Args[s] : s \in Ranks}] /\ stage' \in [Ranks -> Stages]
    BY DEF ArgsOK, AllArgs
  <2>4. runs' \in [Ranks -> 0 .. MaxRuns]
    BY <2>2 DEF Start, TypeOK
  <2>5. store' \in [Ranks -> [ValueIds -> Entries]]
    BY <2>1 DEF Start, TypeOK
  <2>6. /\ pc' \in [Ranks -> Nat \ {0}]
        /\ uses' \in [Ranks -> [ValueIds -> Nat]]
        /\ completed' \in [Ranks -> SUBSET Nat]
        /\ waiting' \in [Ranks -> Nat]
    BY DEF Start, TypeOK
  <2>7. error' \in [Ranks -> Errors]
    BY DEF Start, TypeOK, Errors
  <2> QED
    BY <2>3, <2>4, <2>5, <2>6, <2>7 DEF TypeOK
<1>2. \A s \in Ranks \ {r} : /\ Posted(s)' = Posted(s)
                              /\ OpenGroups(s)' = OpenGroups(s)
  BY DEF Start, Posted, OpenGroups, PlanOf, TypeOK
<1>3. GroupsKnown'
  BY <1>2 DEF GroupsKnown, Start, TypeOK, Absent
<1> QED
  BY <1>1, <1>3 DEF IInvStep

\* setup counts the uses, and bind_inputs makes the caller's inputs ready.
LEMMA SetupStep ==
  ASSUME IInv, NEW r \in Ranks, Setup(r)
  PROVE  IInvStep
<1> USE DEF IInv
<1>1. uses'[r] \in [ValueIds -> Nat]
  <2>1. \A v \in ValueIds : InitialUses(r)[v] \in Nat
    BY PlanOfTyped, UseSitesFinite DEF InitialUses
  <2>2. uses \in [Ranks -> [ValueIds -> Nat]]
    BY DEF TypeOK
  <2> QED
    BY <2>1, <2>2 DEF Setup
<1>2. TypeOK'
  BY <1>1 DEF Setup, TypeOK, Stages
<1>3. GroupsKnown'
  BY DEF Setup, GroupsKnown, Posted, OpenGroups, PlanOf
<1> QED
  BY <1>2, <1>3 DEF IInvStep

\* bind_inputs puts the caller's values in the store, or throws.
LEMMA BindStep ==
  ASSUME IInv, NEW r \in Ranks, NEW content \in [ValueIds -> Data], BindInputs(r, content)
  PROVE  IInvStep
<1> USE DEF IInv
<1> DEFINE p == PlanOf(r)
           bad == \E v \in LocalExternals(p, r) : store[r][v].state # "Absent"
           new == [v \in ValueIds |-> IF v \in LocalExternals(p, r)
                                      THEN Ready(Desc(p, v).place, content[v])
                                      ELSE store[r][v]]
<1>1. CASE bad
  <2>1. Throw(r, "defined")
    BY <1>1 DEF BindInputs
  <2>2. "defined" \in Errors
    BY DEF Errors, StoreErrors
  <2> QED
    BY <2>1, <2>2, ThrowStep
<1>2. CASE ~bad
  <2>1. /\ store' = [store EXCEPT ![r] = new]
        /\ stage' = [stage EXCEPT ![r] = "init"]
        /\ UNCHANGED <<arg, runs, pc, uses, completed, waiting, error>>
    BY <1>2 DEF BindInputs, TypeOK
  <2>2. IsPlan(p, ValueIds) /\ ExternalOk(p)
    BY PlanOfTyped DEF BindInputs, ArgsOK, Counted, Accepted, Verified
  <2>3. \A v \in LocalExternals(p, r) : Desc(p, v).place \in Places
    BY <2>2, DescTyped DEF ExternalOk, LocalExternals
  <2>4. \A v \in ValueIds : /\ new[v] \in Entries
                            /\ new[v].state = "Pending" => new[v].group \in Posted(r)
    BY <2>3, EntriesTyped DEF TypeOK, GroupsKnown, Ready
  <2>5. new \in [ValueIds -> Entries]
    BY <2>4
  <2> HIDE DEF new
  <2>6. TypeOK'
    BY <2>1, <2>5 DEF TypeOK, Stages
  <2>7. \A s \in Ranks : Posted(s)' = Posted(s) /\ OpenGroups(s)' = OpenGroups(s)
    BY <2>1 DEF Posted, OpenGroups, PlanOf
  <2>8. GroupsKnown'
    BY <2>1, <2>4, <2>7 DEF GroupsKnown, TypeOK
  <2> QED
    BY <2>6, <2>8 DEF IInvStep
<1> QED
  BY <1>1, <1>2

\* Steps that only move run() on.
LEMMA StageStep ==
  ASSUME IInv, NEW r \in Ranks,
         PreflightReturns(r) \/ Drained(r) \/ Panic(r)
  PROVE  IInvStep
BY DEF IInv, IInvStep, PreflightReturns, Drained, Panic, TypeOK, Stages, GroupsKnown,
       Posted, OpenGroups, PlanOf

\* synchronize_final_outputs and make_artifact change no member but the stage.
LEMMA ArtifactStep ==
  ASSUME IInv, NEW r \in Ranks, PublishArtifact(r)
  PROVE  IInvStep
<1>1. CASE \A j \in LocalFinals(PlanOf(r), r) : FinalReady(r, j)
  BY <1>1 DEF IInv, IInvStep, PublishArtifact, TypeOK, Stages, GroupsKnown, Posted, OpenGroups,
              PlanOf
<1>2. CASE ~ \A j \in LocalFinals(PlanOf(r), r) : FinalReady(r, j)
  <2>1. Throw(r, "absent") /\ "absent" \in Errors
    BY <1>2 DEF PublishArtifact, Errors, StoreErrors
  <2> QED
    BY <2>1, ThrowStep
<1> QED
  BY <1>1, <1>2

-----------------------------------------------------------------------------
\* A fresh runtime has its members typed and no groups.
LEMMA MembersInit ==
  ASSUME Init
  PROVE  TypeOK /\ GroupsKnown
<1>1. TypeOK
  <2>1. MaxRuns \in Nat
    BY ConstantsOK
  <2>2. \A r \in Ranks : arg[r] \in Args[r]
    BY ConstantsOK DEF Init
  <2> QED
    BY <2>1, <2>2, EntriesTyped DEF Init, TypeOK, Stages, Errors
<1>2. GroupsKnown
  BY DEF Init, GroupsKnown, Absent
<1> QED
  BY <1>1, <1>2

\* Every step of every rank keeps the members typed and the groups known.
LEMMA MembersStep ==
  ASSUME IInv, ArgsOK', [Next]_rtVars
  PROVE  IInvStep
<1>1. CASE UNCHANGED rtVars
  BY <1>1 DEF IInv, IInvStep, rtVars, TypeOK, GroupsKnown, Posted, OpenGroups, PlanOf
<1>2. ASSUME NEW r \in Ranks, Step(r) PROVE IInvStep
  <2>1. CASE Start(r)
    BY <2>1, StartStep
  <2>2. CASE Setup(r)
    BY <2>2, SetupStep
  <2>3. CASE RefusePlan(r) \/ RefuseInputs(r) \/ ApiThrows(r)
    BY <2>3, ThrowStep DEF RefusePlan, RefuseInputs, ApiThrows, Errors
  <2>4. CASE PreflightReturns(r) \/ Drained(r) \/ Panic(r)
    BY <2>4, StageStep
  <2>5. CASE \E content \in [ValueIds -> Data] : BindInputs(r, content)
    BY <2>5, BindStep
  <2>6. CASE \/ Skip(r) \/ PostComm(r)
             \/ \E data \in Data : ExecuteEncode(r, data) \/ ExecuteCompute(r, data)
    BY <2>6, InstructionStep
  <2>7. CASE AwaitOperand(r) \/ AwaitOldest(r)
    BY <2>7, AwaitStep
  <2>8. CASE \E content \in [ValueIds -> Data] : FinishGroup(r, content)
    BY <2>8, FinishGroupStep
  <2>9. CASE PublishArtifact(r)
    BY <2>9, ArtifactStep
  <2> QED
    BY <1>2, <2>1, <2>2, <2>3, <2>4, <2>5, <2>6, <2>7, <2>8, <2>9 DEF Step
<1> QED
  BY <1>1, <1>2 DEF Next

-----------------------------------------------------------------------------
(***************************************************************************)
(* The theorems.                                                           *)
(***************************************************************************)
\* Groups and types, over every behaviour.
THEOREM MembersInvariant == Spec => [](TypeOK /\ GroupsKnown)
<1>1. Init => TypeOK /\ GroupsKnown
  BY MembersInit
<1>2. ArgsOK /\ ArgsOK' /\ (TypeOK /\ GroupsKnown) /\ [Next]_rtVars => (TypeOK /\ GroupsKnown)'
  BY MembersStep DEF IInv, IInvStep
<1> QED
  BY <1>1, <1>2, ArgsInvariant, PTL DEF Spec

\* Every member of every runtime has its type, for every family of plans: in
\* particular no use count goes below zero (remaining_uses_).
THEOREM TypeCorrect == Spec => []TypeOK
BY MembersInvariant, PTL

\* api_.wait is only ever called with the handle of a group that was posted and
\* not waited for before, so that "communication handle waited twice" cannot
\* occur, whatever the plan and whatever the Api does (finish_group).
THEOREM NoDoubleWait == Spec => []WaitedOnce
<1>1. TypeOK /\ GroupsKnown => WaitedOnce
  BY DEF GroupsKnown, WaitedOnce, InWait
<1> QED
  BY <1>1, MembersInvariant, PTL

-----------------------------------------------------------------------------
(***************************************************************************)
(* ValueStore and the use counts of SequentialRuntime, for every verified  *)
(* plan, every set of ranks and every Api.                                 *)
(*                                                                         *)
(* First what PlanVerifier grants: outputs are unique, an operand is       *)
(* defined before it is used, and every place an instruction names is the  *)
(* place of the value there.  On that rests EntryOK: what store_ holds for *)
(* a value follows from current_ and the completed groups alone.  It is    *)
(* shown to survive an instruction and the end of a group as a fact about  *)
(* the plan; StoreInv then carries it through every step of a rank.        *)
(***************************************************************************)
PlanOK(p) == IsPlan(p, ValueIds) /\ Verified(p)

\* The operands of instruction i on rank r that use v.
SitesAt(p, r, v, i) == {s \in UseSites(p, r, v) : s[1] = i}

\* OpenUses, Born and InFlight as functions of current_ (n) and of the
\* completed groups (done).
OpenAt(p, r, v, n, done) ==
  {s \in UseSites(p, r, v) : s[1] \notin done /\ (s[1] >= n \/ s[1] \in Comms(p))}

BornAt(p, r, v, n) ==
  \/ v \in LocalExternals(p, r)
  \/ \E i \in DOMAIN p.code : i < n /\ \E k \in LocalOuts(p, i, r) : p.code[i].outputs[k] = v

FlightAt(p, r, v, n, done, i) ==
  /\ i \in Comms(p) /\ i < n /\ i \notin done
  /\ \E k \in LocalOuts(p, i, r) : p.code[i].outputs[k] = v

\* The store entry e of value v is what the rest of the state says it is.
EntryOK(p, r, v, retain, n, done, e) ==
  /\ e.state # "Absent" <=>
       BornAt(p, r, v, n) /\ (retain \/ OpenAt(p, r, v, n, done) # {} \/ UseSites(p, r, v) = {})
  /\ e.state = "Pending" => FlightAt(p, r, v, n, done, e.group)
  /\ \A i \in DOMAIN p.code : FlightAt(p, r, v, n, done, i) => e.state = "Pending"
  /\ e.state # "Absent" => e.place = Desc(p, v).place

-----------------------------------------------------------------------------
(***************************************************************************)
(* What PlanVerifier grants.                                               *)
(***************************************************************************)
\* The positions of a plan, and the shapes of its three instruction bodies
\* (struct RuntimePlan and the checks of arity in verify_instruction).
LEMMA PlanShape ==
  ASSUME NEW p, PlanOK(p)
  PROVE  /\ Len(p.code) \in Nat /\ DOMAIN p.code = 1 .. Len(p.code)
         /\ p.inits \in 0 .. Len(p.code)
         /\ Comms(p) \subseteq DOMAIN p.code
         /\ \A i \in DOMAIN p.code :
              /\ p.code[i].op \in {"Encode", "Compute", "Comm"}
              /\ p.code[i].inputs \in Seq(ValueIds) /\ p.code[i].outputs \in Seq(ValueIds)
              /\ InstructionOk(p, i)
              /\ p.code[i].op # "Comm" => DOMAIN p.code[i].outputs = {1}
              /\ p.code[i].op = "Encode" => DOMAIN p.code[i].inputs = {}
              /\ p.code[i].op = "Comm" => DOMAIN p.code[i].inputs = {1}
<1>1. /\ Len(p.code) \in Nat /\ DOMAIN p.code = 1 .. Len(p.code)
      /\ p.inits \in 0 .. Len(p.code)
  BY DEF PlanOK, IsPlan
<1>2. Comms(p) \subseteq DOMAIN p.code
  BY DEF Comms
<1>3. ASSUME NEW i \in DOMAIN p.code
      PROVE  /\ p.code[i].op \in {"Encode", "Compute", "Comm"}
             /\ p.code[i].inputs \in Seq(ValueIds) /\ p.code[i].outputs \in Seq(ValueIds)
             /\ InstructionOk(p, i)
             /\ p.code[i].op # "Comm" => DOMAIN p.code[i].outputs = {1}
             /\ p.code[i].op = "Encode" => DOMAIN p.code[i].inputs = {}
             /\ p.code[i].op = "Comm" => DOMAIN p.code[i].inputs = {1}
  <2>1. p.code[i] \in Instructions(ValueIds)
    BY InstructionTyped DEF PlanOK
  <2>2. /\ p.code[i].op \in {"Encode", "Compute", "Comm"}
        /\ p.code[i].inputs \in Seq(ValueIds) /\ p.code[i].outputs \in Seq(ValueIds)
    BY <2>1 DEF Instructions
  <2>3. InstructionOk(p, i)
    BY DEF PlanOK, Verified
  <2>4. p.code[i].op # "Comm" => Len(p.code[i].outputs) = 1
    BY DEF PlanOK, IsPlan
  <2>5. p.code[i].op = "Encode" => DOMAIN p.code[i].inputs = {}
    BY DEF PlanOK, IsPlan
  <2>6. p.code[i].op = "Comm" => Len(p.code[i].inputs) = 1
    BY <2>3 DEF InstructionOk, CommOk
  <2> QED
    BY <2>2, <2>3, <2>4, <2>5, <2>6
<1> QED
  BY <1>1, <1>2, <1>3

\* Single assignment: an output is none of the caller's inputs, and no other
\* slot of the plan defines it (the set `defined` of PlanVerifier::verify).
LEMMA OutputUnique ==
  ASSUME NEW p, PlanOK(p),
         NEW i \in DOMAIN p.code, NEW k \in DOMAIN p.code[i].outputs
  PROVE  /\ \A j \in DOMAIN p.external : p.external[j] # p.code[i].outputs[k]
         /\ \A j \in DOMAIN p.code : \A l \in DOMAIN p.code[j].outputs :
              p.code[j].outputs[l] = p.code[i].outputs[k] => j = i /\ l = k
<1>1. \A j \in DOMAIN p.code : OutputsFresh(p, j)
  BY PlanShape DEF InstructionOk
<1>2. \A j \in DOMAIN p.code : j \in Int
  BY PlanShape
<1>3. ASSUME NEW j \in DOMAIN p.external PROVE p.external[j] # p.code[i].outputs[k]
  BY <1>1 DEF OutputsFresh, DefinedBy
<1>4. ASSUME NEW a \in DOMAIN p.code, NEW b \in DOMAIN p.code, a < b,
             NEW l \in DOMAIN p.code[a].outputs, NEW m \in DOMAIN p.code[b].outputs
      PROVE  p.code[a].outputs[l] # p.code[b].outputs[m]
  <2>1. a <= b - 1
    BY <1>2, <1>4
  <2>2. p.code[a].outputs[l] \in DefinedBy(p, b - 1)
    BY <2>1 DEF DefinedBy
  <2> QED
    BY <1>1, <2>2 DEF OutputsFresh
<1>5. ASSUME NEW j \in DOMAIN p.code, NEW l \in DOMAIN p.code[j].outputs,
             p.code[j].outputs[l] = p.code[i].outputs[k]
      PROVE  j = i /\ l = k
  <2>1. ~(j < i) /\ ~(i < j)
    BY <1>4, <1>5
  <2>2. j = i
    BY <1>2, <2>1
  <2> QED
    BY <1>1, <1>5, <2>2 DEF OutputsFresh
<1> QED
  BY <1>3, <1>5

\* Every place an instruction names is where its descriptor puts the value, and
\* an operand was defined by the caller or by an earlier instruction
\* (verify_compute, verify_communication).
LEMMA PlacesAgree ==
  ASSUME NEW p, PlanOK(p), NEW i \in DOMAIN p.code
  PROVE  /\ \A k \in DOMAIN p.code[i].inputs :
              /\ p.code[i].inputs[k] \in ValueIds
              /\ p.code[i].inputs[k] \in DefinedBy(p, i - 1)
              /\ InPlace(p, i, k) = Desc(p, p.code[i].inputs[k]).place
         /\ \A k \in DOMAIN p.code[i].outputs :
              /\ p.code[i].outputs[k] \in ValueIds
              /\ OutPlace(p, i, k) = Desc(p, p.code[i].outputs[k]).place
<1> DEFINE ins == p.code[i]
<1>1. /\ ins.op \in {"Encode", "Compute", "Comm"}
      /\ ins.inputs \in Seq(ValueIds) /\ ins.outputs \in Seq(ValueIds)
      /\ InstructionOk(p, i)
      /\ ins.op # "Comm" => DOMAIN ins.outputs = {1}
      /\ ins.op = "Encode" => DOMAIN ins.inputs = {}
      /\ ins.op = "Comm" => DOMAIN ins.inputs = {1}
  BY PlanShape
<1>2. /\ \A k \in DOMAIN ins.inputs : ins.inputs[k] \in ValueIds
      /\ \A k \in DOMAIN ins.outputs : ins.outputs[k] \in ValueIds
  BY <1>1
<1>3. CASE ins.op = "Encode"
  BY <1>1, <1>2, <1>3 DEF OutPlace
<1>4. CASE ins.op = "Compute"
  <2>1. ComputeOk(p, i)
    BY <1>1, <1>4 DEF InstructionOk
  <2> QED
    BY <1>1, <1>2, <1>4, <2>1 DEF InPlace, OutPlace, ComputeOk
<1>5. CASE ins.op = "Comm"
  <2>1. CommOk(p, i)
    BY <1>1, <1>5 DEF InstructionOk
  <2> QED
    BY <1>1, <1>2, <1>5, <2>1 DEF InPlace, OutPlace, CommOk, DestinationsOk
<1> QED
  BY <1>1, <1>3, <1>4, <1>5

\* An operand of an instruction is on this rank before the instruction, and a
\* final output is once the code has ended (the define-before-use rule).
LEMMA OperandBorn ==
  ASSUME NEW p, PlanOK(p), NEW r
  PROVE  /\ \A i \in DOMAIN p.code : \A k \in LocalIns(p, i, r) :
              p.code[i].inputs[k] \in ValueIds /\ BornAt(p, r, p.code[i].inputs[k], i)
         /\ \A j \in LocalFinals(p, r) :
              p.final[j] \in ValueIds /\ BornAt(p, r, p.final[j], Len(p.code) + 1)
<1>1. /\ Len(p.code) \in Nat /\ DOMAIN p.code = 1 .. Len(p.code)
  BY PlanShape
<1>2. ASSUME NEW n \in 0 .. Len(p.code), NEW v \in DefinedBy(p, n), Desc(p, v).place.rank = r
      PROVE  BornAt(p, r, v, n + 1)
  <2>1. CASE \E k \in DOMAIN p.external : p.external[k] = v
    BY <1>2, <2>1 DEF BornAt, LocalExternals
  <2>2. CASE \E i \in DOMAIN p.code :
               i <= n /\ \E k \in DOMAIN p.code[i].outputs : p.code[i].outputs[k] = v
    <3>1. PICK i \in DOMAIN p.code :
            i <= n /\ \E k \in DOMAIN p.code[i].outputs : p.code[i].outputs[k] = v
      BY <2>2
    <3> PICK k \in DOMAIN p.code[i].outputs : p.code[i].outputs[k] = v
      BY <3>1
    <3>2. k \in LocalOuts(p, i, r)
      BY <1>2, <3>1, PlacesAgree DEF LocalOuts
    <3>3. i < n + 1
      BY <1>1, <3>1
    <3> QED
      BY <3>1, <3>2, <3>3 DEF BornAt
  <2> QED
    BY <1>2, <2>1, <2>2 DEF DefinedBy
<1>3. ASSUME NEW i \in DOMAIN p.code, NEW k \in LocalIns(p, i, r)
      PROVE  p.code[i].inputs[k] \in ValueIds /\ BornAt(p, r, p.code[i].inputs[k], i)
  <2>1. k \in DOMAIN p.code[i].inputs /\ InPlace(p, i, k).rank = r
    BY DEF LocalIns
  <2>2. /\ p.code[i].inputs[k] \in ValueIds
        /\ p.code[i].inputs[k] \in DefinedBy(p, i - 1)
        /\ Desc(p, p.code[i].inputs[k]).place.rank = r
    BY <2>1, PlacesAgree
  <2>3. i - 1 \in 0 .. Len(p.code) /\ (i - 1) + 1 = i
    BY <1>1
  <2>4. BornAt(p, r, p.code[i].inputs[k], (i - 1) + 1)
    BY <1>2, <2>2, <2>3
  <2> QED
    BY <2>2, <2>3, <2>4
<1>4. ASSUME NEW j \in LocalFinals(p, r)
      PROVE  p.final[j] \in ValueIds /\ BornAt(p, r, p.final[j], Len(p.code) + 1)
  <2>1. j \in DOMAIN p.final /\ Desc(p, p.final[j]).place.rank = r
    BY DEF LocalFinals
  <2>2. p.final[j] \in DefinedBy(p, Len(p.code))
    BY <2>1 DEF PlanOK, Verified, FinalsOk
  <2>3. p.final \in Seq(ValueIds)
    BY DEF PlanOK, IsPlan
  <2> QED
    BY <1>1, <1>2, <2>1, <2>2, <2>3
<1> QED
  BY <1>3, <1>4

\* The form of a use site: an operand position this rank acts on, or a final
\* output it owns (initialize_use_counts).
LEMMA SiteForm ==
  ASSUME NEW p, PlanOK(p), NEW r, NEW v
  PROVE  /\ \A s \in UseSites(p, r, v) :
              /\ s = <<s[1], s[2]>>
              /\ \/ /\ s[1] \in DOMAIN p.code /\ s[2] \in LocalIns(p, s[1], r)
                    /\ p.code[s[1]].inputs[s[2]] = v
                 \/ /\ s[1] = FinalSite(p) /\ s[2] \in LocalFinals(p, r)
                    /\ p.final[s[2]] = v
         /\ \A i \in DOMAIN p.code : \A k \in LocalIns(p, i, r) :
              p.code[i].inputs[k] = v => <<i, k>> \in UseSites(p, r, v)
         /\ \A j \in LocalFinals(p, r) :
              p.final[j] = v => <<FinalSite(p), j>> \in UseSites(p, r, v)
         /\ \A s \in UseSites(p, r, v) : s[1] \in 1 .. FinalSite(p)
         /\ FinalSite(p) \notin DOMAIN p.code
<1>1. /\ Len(p.code) \in Nat /\ DOMAIN p.code = 1 .. Len(p.code)
  BY PlanShape
<1>2. ASSUME NEW s \in UseSites(p, r, v)
      PROVE  /\ s = <<s[1], s[2]>>
             /\ \/ /\ s[1] \in DOMAIN p.code /\ s[2] \in LocalIns(p, s[1], r)
                   /\ p.code[s[1]].inputs[s[2]] = v
                \/ /\ s[1] = FinalSite(p) /\ s[2] \in LocalFinals(p, r)
                   /\ p.final[s[2]] = v
  BY DEF UseSites
<1>3. ASSUME NEW i \in DOMAIN p.code, NEW k \in LocalIns(p, i, r), p.code[i].inputs[k] = v
      PROVE  <<i, k>> \in UseSites(p, r, v)
  <2>1. <<i, k>> \in {i} \X LocalIns(p, i, r)
    OBVIOUS
  <2> QED
    BY <1>3, <2>1 DEF UseSites
<1>4. ASSUME NEW j \in LocalFinals(p, r), p.final[j] = v
      PROVE  <<FinalSite(p), j>> \in UseSites(p, r, v)
  BY <1>4 DEF UseSites
<1>5. \A s \in UseSites(p, r, v) : s[1] \in 1 .. FinalSite(p)
  BY <1>1, <1>2 DEF FinalSite
<1>6. FinalSite(p) \notin DOMAIN p.code
  BY <1>1 DEF FinalSite
<1> QED
  BY <1>2, <1>3, <1>4, <1>5, <1>6

\* No use of a value comes before or with the instruction that defines it.
LEMMA UsesComeLater ==
  ASSUME NEW p, PlanOK(p), NEW r,
         NEW i \in DOMAIN p.code, NEW k \in DOMAIN p.code[i].outputs,
         NEW s \in UseSites(p, r, p.code[i].outputs[k])
  PROVE  s[1] > i
<1> DEFINE v == p.code[i].outputs[k]
<1>1. /\ Len(p.code) \in Nat /\ DOMAIN p.code = 1 .. Len(p.code)
  BY PlanShape
<1>2. CASE s[1] = FinalSite(p)
  BY <1>1, <1>2 DEF FinalSite
<1>3. CASE s[1] \in DOMAIN p.code /\ s[2] \in LocalIns(p, s[1], r) /\ p.code[s[1]].inputs[s[2]] = v
  <2>1. v \in DefinedBy(p, s[1] - 1)
    BY <1>3, PlacesAgree DEF LocalIns
  <2>2. PICK j \in DOMAIN p.code : j <= s[1] - 1 /\ \E l \in DOMAIN p.code[j].outputs : p.code[j].outputs[l] = v
    BY <2>1, OutputUnique DEF DefinedBy
  <2>3. j = i
    BY <2>2, OutputUnique
  <2> QED
    BY <1>1, <1>3, <2>2, <2>3
<1> QED
  BY <1>2, <1>3, SiteForm

\* The sites of one instruction are as many as the operands it releases
\* (release_after_use once per local operand).
LEMMA SitesCounted ==
  ASSUME NEW p, PlanOK(p), NEW r, NEW v, NEW i \in DOMAIN p.code
  PROVE  /\ IsFiniteSet(SitesAt(p, r, v, i))
         /\ Cardinality(SitesAt(p, r, v, i))
              = Cardinality({k \in LocalIns(p, i, r) : p.code[i].inputs[k] = v})
<1> DEFINE K == {k \in LocalIns(p, i, r) : p.code[i].inputs[k] = v}
           f == [k \in K |-> <<i, k>>]
<1>1. SitesAt(p, r, v, i) = {<<i, k>> : k \in K}
  BY SiteForm DEF SitesAt
<1>2. IsFiniteSet(K)
  <2>1. IsFiniteSet(LocalIns(p, i, r))
    BY LocalPositions DEF PlanOK
  <2> QED
    BY <2>1, FS_Subset
<1>3. f \in Bijection(K, SitesAt(p, r, v, i))
  <2>1. f \in [K -> SitesAt(p, r, v, i)]
    BY <1>1
  <2>2. \A a \in K : f[a] = <<i, a>>
    OBVIOUS
  <2> HIDE DEF f
  <2>3. \A a, b \in K : f[a] = f[b] => a = b
    BY <2>2
  <2>4. ASSUME NEW t \in SitesAt(p, r, v, i) PROVE \E a \in K : f[a] = t
    <3> PICK a \in K : t = <<i, a>>
      BY <1>1
    <3> QED
      BY <2>2
  <2> QED
    BY <2>1, <2>3, <2>4 DEF Bijection, Injection, IsInjective, Surjection
<1> QED
  BY <1>2, <1>3, FS_Bijection DEF ExistsBijection

-----------------------------------------------------------------------------
(***************************************************************************)
(* Open uses as current_ and the completed groups move on.                 *)
(***************************************************************************)
\* At the start every use is open; an Encode or Compute closes its own, a
\* communication closes its own when its group is finished.
LEMMA OpenStart ==
  ASSUME NEW p, PlanOK(p), NEW r, NEW v
  PROVE  OpenAt(p, r, v, 1, {}) = UseSites(p, r, v)
<1>1. Len(p.code) \in Nat
  BY PlanShape
<1>2. \A s \in UseSites(p, r, v) : s[1] >= 1
  BY <1>1, SiteForm DEF FinalSite
<1> QED
  BY <1>2 DEF OpenAt

\* execute_phase moves past instruction i.
LEMMA OpenAdvance ==
  ASSUME NEW p, PlanOK(p), NEW r, NEW v, NEW i \in DOMAIN p.code, NEW done, i \notin done
  PROVE  /\ SitesAt(p, r, v, i) \subseteq OpenAt(p, r, v, i, done)
         /\ p.code[i].op = "Comm" =>
              OpenAt(p, r, v, i + 1, done) = OpenAt(p, r, v, i, done)
         /\ p.code[i].op # "Comm" =>
              OpenAt(p, r, v, i + 1, done) = OpenAt(p, r, v, i, done) \ SitesAt(p, r, v, i)
<1>1. /\ Len(p.code) \in Nat /\ DOMAIN p.code = 1 .. Len(p.code)
  BY PlanShape
<1>2. \A s \in UseSites(p, r, v) : s[1] \in Int
  BY <1>1, SiteForm DEF FinalSite
<1>3. \A s \in UseSites(p, r, v) : s[1] >= i + 1 <=> s[1] >= i /\ s[1] # i
  BY <1>1, <1>2
<1>4. i >= i
  BY <1>1
<1>5. i \in Comms(p) <=> p.code[i].op = "Comm"
  BY DEF Comms
<1> QED
  BY <1>3, <1>4, <1>5 DEF OpenAt, SitesAt

\* finish_group completes group w.
LEMMA OpenFinish ==
  ASSUME NEW p, PlanOK(p), NEW r, NEW v, NEW n, NEW done, NEW w \in Comms(p), w \notin done
  PROVE  /\ SitesAt(p, r, v, w) \subseteq OpenAt(p, r, v, n, done)
         /\ OpenAt(p, r, v, n, done \cup {w}) = OpenAt(p, r, v, n, done) \ SitesAt(p, r, v, w)
BY DEF OpenAt, SitesAt

\* Open uses are finitely many.
LEMMA OpenFinite ==
  ASSUME NEW p, PlanOK(p), NEW r, NEW v, NEW n, NEW done
  PROVE  /\ IsFiniteSet(OpenAt(p, r, v, n, done))
         /\ Cardinality(OpenAt(p, r, v, n, done)) \in Nat
<1>1. IsFiniteSet(UseSites(p, r, v))
  BY UseSitesFinite DEF PlanOK
<1>2. IsFiniteSet(OpenAt(p, r, v, n, done))
  BY <1>1, FS_Subset DEF OpenAt
<1> QED
  BY <1>2, FS_CardinalityType

-----------------------------------------------------------------------------
(***************************************************************************)
(* What store_ holds for one value, as a function of current_ and of the   *)
(* completed groups.                                                       *)
(***************************************************************************)
\* After bind_inputs store_ holds the caller's values on this rank.
LEMMA BindEntry ==
  ASSUME NEW p, PlanOK(p), NEW r, NEW v, NEW retain, NEW data
  PROVE  EntryOK(p, r, v, retain, 1, {},
           IF v \in LocalExternals(p, r) THEN Ready(Desc(p, v).place, data) ELSE Absent)
<1>1. DOMAIN p.code \subseteq 1 .. Len(p.code) /\ Len(p.code) \in Nat
  BY PlanShape
<1>2. \A i \in DOMAIN p.code : ~(i < 1)
  BY <1>1
<1>3. BornAt(p, r, v, 1) <=> v \in LocalExternals(p, r)
  BY <1>2 DEF BornAt
<1>4. \A i \in DOMAIN p.code : ~FlightAt(p, r, v, 1, {}, i)
  BY <1>2 DEF FlightAt
<1> QED
  BY <1>3, <1>4, OpenStart DEF EntryOK, Ready, Absent

\* What an instruction or the end of a group leaves in the store for v: nothing
\* after the last use, what it defines, or what was there.
Left(released, defines, new, e) == IF released THEN Absent ELSE IF defines THEN new ELSE e

Defines(p, r, i, v) == \E k \in LocalOuts(p, i, r) : p.code[i].outputs[k] = v
LastUse(p, r, i, v, n, done) ==
  /\ SitesAt(p, r, v, i) # {}
  /\ OpenAt(p, r, v, n, done) \ SitesAt(p, r, v, i) = {}

\* execute_phase moves past instruction i: its outputs are defined, ready or
\* pending, and an Encode or Compute releases its operands, which were ready.
LEMMA AdvanceEntry ==
  ASSUME NEW p, PlanOK(p), NEW r, NEW v, NEW retain \in BOOLEAN,
         NEW i \in DOMAIN p.code, NEW done, \A g \in done : g < i,
         NEW e, EntryOK(p, r, v, retain, i, done, e),
         SitesAt(p, r, v, i) # {} => e.state = "Ready",
         NEW new,
         Defines(p, r, i, v) =>
           /\ new.place = Desc(p, v).place
           /\ p.code[i].op = "Comm" => new.state = "Pending" /\ new.group = i
           /\ p.code[i].op # "Comm" => new.state = "Ready"
  PROVE  EntryOK(p, r, v, retain, i + 1, done,
           Left(~retain /\ p.code[i].op # "Comm" /\ LastUse(p, r, i, v, i, done),
                Defines(p, r, i, v), new, e))
<1> DEFINE open  == OpenAt(p, r, v, i, done)
           open2 == OpenAt(p, r, v, i + 1, done)
           all   == UseSites(p, r, v)
           sites == SitesAt(p, r, v, i)
<1>1. /\ Len(p.code) \in Nat /\ DOMAIN p.code = 1 .. Len(p.code)
  BY PlanShape
<1>2. \A j \in DOMAIN p.code : j < i + 1 <=> j < i \/ j = i
  BY <1>1
<1>3. i \notin done
  BY <1>1
<1>4. /\ p.code[i].op = "Comm" => open2 = open
      /\ p.code[i].op # "Comm" => open2 = open \ sites
      /\ sites \subseteq open /\ open \subseteq all
  <2>1. open \subseteq all
    BY DEF OpenAt
  <2> QED
    BY <1>3, <2>1, OpenAdvance
<1>5. CASE Defines(p, r, i, v)
  <2>1. PICK k \in LocalOuts(p, i, r) : p.code[i].outputs[k] = v
    BY <1>5 DEF Defines
  <2>2. k \in DOMAIN p.code[i].outputs
    BY DEF LocalOuts
  <2>3. \A s \in all : s[1] > i /\ s[1] \in Int
    <3>1. \A s \in all : s[1] > i
      BY <2>1, <2>2, UsesComeLater
    <3>2. \A s \in all : s[1] \in 1 .. FinalSite(p)
      BY SiteForm
    <3> QED
      BY <1>1, <3>1, <3>2 DEF FinalSite
  <2>4. sites = {}
    BY <1>1, <2>3 DEF SitesAt
  <2>5. open2 = all
    <3>1. \A s \in all : s[1] >= i + 1
      BY <1>1, <2>3
    <3>2. \A s \in all : s[1] \notin done
      BY <1>1, <2>3
    <3> QED
      BY <3>1, <3>2 DEF OpenAt
  <2>6. BornAt(p, r, v, i + 1)
    BY <1>2, <2>1 DEF BornAt
  <2>7. \A j \in DOMAIN p.code : FlightAt(p, r, v, i + 1, done, j) => j = i /\ p.code[i].op = "Comm"
    BY <2>1, <2>2, OutputUnique DEF FlightAt, LocalOuts, Comms
  <2>8. p.code[i].op = "Comm" => FlightAt(p, r, v, i + 1, done, i)
    BY <1>2, <1>3, <2>1 DEF FlightAt, Comms
  <2>9. new.state # "Absent"
    BY <1>5
  <2>10. EntryOK(p, r, v, retain, i + 1, done, new)
    BY <1>5, <2>5, <2>6, <2>7, <2>8, <2>9 DEF EntryOK
  <2> QED
    BY <1>5, <2>4, <2>10 DEF Left, LastUse
<1>6. CASE ~Defines(p, r, i, v)
  <2>1. BornAt(p, r, v, i + 1) <=> BornAt(p, r, v, i)
    BY <1>2, <1>6 DEF BornAt, Defines
  <2>2. \A j : FlightAt(p, r, v, i + 1, done, j) <=> FlightAt(p, r, v, i, done, j)
    BY <1>2, <1>6 DEF FlightAt, Defines, Comms
  <2>3. CASE ~retain /\ p.code[i].op # "Comm" /\ LastUse(p, r, i, v, i, done)
    <3>1. open2 = {} /\ all # {} /\ e.state = "Ready"
      BY <1>4, <2>3 DEF LastUse
    <3>2. \A j \in DOMAIN p.code : ~FlightAt(p, r, v, i, done, j)
      BY <3>1 DEF EntryOK
    <3>3. EntryOK(p, r, v, retain, i + 1, done, Absent)
      BY <2>2, <2>3, <3>1, <3>2 DEF EntryOK, Absent
    <3> QED
      BY <2>3, <3>3 DEF Left
  <2>4. CASE ~(~retain /\ p.code[i].op # "Comm" /\ LastUse(p, r, i, v, i, done))
    <3>1. retain \/ (open2 # {} <=> open # {})
      BY <1>4, <2>4 DEF LastUse
    <3>2. EntryOK(p, r, v, retain, i + 1, done, e)
      BY <2>1, <2>2, <3>1 DEF EntryOK
    <3> QED
      BY <1>6, <2>4, <3>2 DEF Left
  <2> QED
    BY <2>3, <2>4
<1> QED
  BY <1>5, <1>6

\* finish_group completes group w: its outputs are ready, its operands released.
LEMMA FinishEntry ==
  ASSUME NEW p, PlanOK(p), NEW r, NEW v, NEW retain \in BOOLEAN,
         NEW n, NEW done, NEW w \in Comms(p), w < n, w \notin done,
         NEW e, EntryOK(p, r, v, retain, n, done, e),
         SitesAt(p, r, v, w) # {} => e.state = "Ready",
         NEW new,
         Defines(p, r, w, v) => new.place = Desc(p, v).place /\ new.state = "Ready"
  PROVE  EntryOK(p, r, v, retain, n, done \cup {w},
           Left(~retain /\ LastUse(p, r, w, v, n, done), Defines(p, r, w, v), new, e))
<1> DEFINE open  == OpenAt(p, r, v, n, done)
           open2 == OpenAt(p, r, v, n, done \cup {w})
           all   == UseSites(p, r, v)
           sites == SitesAt(p, r, v, w)
<1>1. w \in DOMAIN p.code /\ DOMAIN p.code \subseteq Int
  BY PlanShape
<1>2. open2 = open \ sites /\ sites \subseteq open /\ open \subseteq all
  <2>1. open \subseteq all
    BY DEF OpenAt
  <2>2. sites \subseteq open
    BY OpenFinish
  <2>3. open2 = open \ sites
    BY DEF OpenAt, SitesAt
  <2> QED
    BY <2>1, <2>2, <2>3
<1>3. CASE Defines(p, r, w, v)
  <2>1. PICK k \in LocalOuts(p, w, r) : p.code[w].outputs[k] = v
    BY <1>3 DEF Defines
  <2>2. k \in DOMAIN p.code[w].outputs
    BY DEF LocalOuts
  <2>3. \A s \in all : s[1] # w
    <3> SUFFICES ASSUME NEW s \in all PROVE s[1] # w
      OBVIOUS
    <3>1. s[1] > w
      BY <1>1, <2>1, <2>2, UsesComeLater
    <3> QED
      BY <1>1, <3>1
  <2>4. sites = {}
    BY <2>3 DEF SitesAt
  <2>5. FlightAt(p, r, v, n, done, w)
    BY <2>1 DEF FlightAt
  <2>6. e.state = "Pending"
    BY <1>1, <2>5 DEF EntryOK
  <2>7. \A j \in DOMAIN p.code : ~FlightAt(p, r, v, n, done \cup {w}, j)
    BY <1>1, <2>1, <2>2, OutputUnique DEF FlightAt, LocalOuts
  <2>8. EntryOK(p, r, v, retain, n, done \cup {w}, new)
    BY <1>2, <1>3, <2>4, <2>6, <2>7 DEF EntryOK
  <2> QED
    BY <1>3, <2>4, <2>8 DEF Left, LastUse
<1>4. CASE ~Defines(p, r, w, v)
  <2>1. \A j : FlightAt(p, r, v, n, done \cup {w}, j) <=> FlightAt(p, r, v, n, done, j)
    BY <1>4 DEF FlightAt, Defines
  <2>2. CASE ~retain /\ LastUse(p, r, w, v, n, done)
    <3>1. open2 = {} /\ all # {} /\ e.state = "Ready"
      BY <1>2, <2>2 DEF LastUse
    <3>2. \A j \in DOMAIN p.code : ~FlightAt(p, r, v, n, done, j)
      BY <3>1 DEF EntryOK
    <3>3. EntryOK(p, r, v, retain, n, done \cup {w}, Absent)
      BY <2>1, <2>2, <3>1, <3>2 DEF EntryOK, Absent
    <3> QED
      BY <2>2, <3>3 DEF Left
  <2>3. CASE ~(~retain /\ LastUse(p, r, w, v, n, done))
    <3>1. retain \/ (open2 # {} <=> open # {})
      BY <1>2, <2>3 DEF LastUse
    <3>2. EntryOK(p, r, v, retain, n, done \cup {w}, e)
      BY <2>1, <3>1 DEF EntryOK
    <3> QED
      BY <1>4, <2>3, <3>2 DEF Left
  <2> QED
    BY <2>2, <2>3
<1> QED
  BY <1>3, <1>4

-----------------------------------------------------------------------------
(***************************************************************************)
(* The invariant.                                                          *)
(***************************************************************************)
\* Until the caller's inputs are bound nothing has been done.
Untouched(r) ==
  stage[r] \in {"setup", "preflight", "bind"} =>
    /\ pc[r] = 1 /\ completed[r] = {}
    /\ \A v \in ValueIds : store[r][v] = Absent
    /\ stage[r] = "setup" => \A v \in ValueIds : uses[r][v] = 0

PcInPlan(r) ==
  /\ Bound(r) => pc[r] <= Len(PlanOf(r).code) + 1
  /\ stage[r] \in {"sync", "done"} =>
       pc[r] = Len(PlanOf(r).code) + 1 /\ OpenGroups(r) = {}

CountsExact(r) ==
  Counted(r) /\ ~Retain(r) =>
    \A v \in ValueIds :
      uses[r][v] = Cardinality(OpenAt(PlanOf(r), r, v, pc[r], completed[r]))

EntriesExact(r) ==
  Bound(r) => \A v \in ValueIds :
    EntryOK(PlanOf(r), r, v, Retain(r), pc[r], completed[r], store[r][v])

\* The operands of an open group are on hand.
OperandsHeld(r) ==
  Bound(r) => \A i \in OpenGroups(r) : \A k \in LocalIns(PlanOf(r), i, r) :
    store[r][PlanOf(r).code[i].inputs[k]].state = "Ready"

RankOK(r) ==
  /\ Untouched(r) /\ PcInPlan(r)
  /\ CountsExact(r) /\ EntriesExact(r) /\ OperandsHeld(r)
  /\ error[r] \notin StoreErrors

StoreInv == \A r \in Ranks : RankOK(r)

\* A rank past setup runs a verified plan.
LEMMA RankPlan ==
  ASSUME ArgsOK, NEW r \in Ranks, Counted(r)
  PROVE  /\ PlanOK(PlanOf(r)) /\ RuntimeTargetOk(PlanOf(r), r, WorldSize, arg[r].devices)
         /\ Retain(r) \in BOOLEAN
<1>1. arg[r] \in Args[r]
  BY DEF ArgsOK
<1>2. Retain(r) \in BOOLEAN
  BY <1>1, ConstantsOK DEF Retain
<1> QED
  BY <1>2, PlanOfTyped DEF ArgsOK, Accepted, PlanOK

\* An operand of the current instruction, or of an open group, is in the store.
LEMMA OperandKept ==
  ASSUME NEW p, PlanOK(p), NEW r, NEW v, NEW retain, NEW n \in Int, NEW done, NEW e,
         EntryOK(p, r, v, retain, n, done, e),
         NEW i \in DOMAIN p.code, i <= n, i \notin done, i = n \/ i \in Comms(p),
         NEW k \in LocalIns(p, i, r), p.code[i].inputs[k] = v
  PROVE  e.state # "Absent" /\ e.place = Desc(p, v).place
<1>1. DOMAIN p.code \subseteq Int
  BY PlanShape
<1>2. BornAt(p, r, v, i)
  BY OperandBorn
<1>3. \A j \in DOMAIN p.code : j < i => j < n
  BY <1>1
<1>4. BornAt(p, r, v, n)
  BY <1>2, <1>3 DEF BornAt
<1>5. <<i, k>> \in UseSites(p, r, v)
  BY SiteForm
<1>6. i = n => i >= n
  BY <1>1
<1>7. <<i, k>> \in OpenAt(p, r, v, n, done)
  BY <1>5, <1>6 DEF OpenAt
<1> QED
  BY <1>4, <1>7 DEF EntryOK

\* release_after_use for instruction i finds a count and a value, and takes the
\* sites of i from the open uses.
LEMMA ReleaseExact ==
  ASSUME IInv, NEW r \in Ranks, RankOK(r), Bound(r),
         NEW i \in DOMAIN PlanOf(r).code, i <= pc[r], i \notin completed[r],
         i = pc[r] \/ i \in Comms(PlanOf(r))
  PROVE  /\ CanRelease(r, i)
         /\ ~Retain(r) => \A v \in ValueIds :
              UsesAfter(r, i)[v] =
                Cardinality(OpenAt(PlanOf(r), r, v, pc[r], completed[r])
                              \ SitesAt(PlanOf(r), r, v, i))
         /\ \A s : \A v \in ValueIds :
              StoreAfter(r, i, s)[v] =
                IF ~Retain(r) /\ LastUse(PlanOf(r), r, i, v, pc[r], completed[r])
                THEN Absent ELSE s[v]
<1> DEFINE p == PlanOf(r)
           open(v)  == OpenAt(p, r, v, pc[r], completed[r])
           sites(v) == SitesAt(p, r, v, i)
<1>1. PlanOK(p) /\ Retain(r) \in BOOLEAN
  BY RankPlan DEF IInv, Bound, Counted
<1>2. pc[r] \in Int
  BY DEF IInv, TypeOK
<1>3. ASSUME NEW v
      PROVE  /\ IsFiniteSet(open(v)) /\ Cardinality(open(v)) \in Nat
             /\ IsFiniteSet(sites(v)) /\ Cardinality(sites(v)) = UsedBy(r, i, v)
             /\ sites(v) \subseteq open(v)
  <2>1. IsFiniteSet(open(v)) /\ Cardinality(open(v)) \in Nat
    BY <1>1, OpenFinite
  <2>2. IsFiniteSet(sites(v)) /\ Cardinality(sites(v)) = UsedBy(r, i, v)
    BY <1>1, SitesCounted DEF UsedBy
  <2>3. i = pc[r] => i >= pc[r]
    BY <1>2
  <2>4. sites(v) \subseteq open(v)
    BY <2>3 DEF OpenAt, SitesAt
  <2> QED
    BY <2>1, <2>2, <2>4
<1>4. ASSUME NEW v
      PROVE  /\ IsFiniteSet(open(v) \ sites(v))
             /\ Cardinality(open(v) \ sites(v)) \in Nat
             /\ Cardinality(open(v) \ sites(v)) = Cardinality(open(v)) - UsedBy(r, i, v)
             /\ UsedBy(r, i, v) \in Nat
             /\ UsedBy(r, i, v) <= Cardinality(open(v))
             /\ UsedBy(r, i, v) > 0 <=> sites(v) # {}
             /\ UsedBy(r, i, v) = Cardinality(open(v)) <=> open(v) \ sites(v) = {}
  <2>1. /\ IsFiniteSet(open(v)) /\ Cardinality(open(v)) \in Nat
        /\ IsFiniteSet(sites(v)) /\ Cardinality(sites(v)) = UsedBy(r, i, v)
        /\ open(v) \cap sites(v) = sites(v)
    BY <1>3
  <2> HIDE DEF open, sites
  <2>2. /\ IsFiniteSet(open(v) \ sites(v))
        /\ Cardinality(open(v) \ sites(v)) = Cardinality(open(v)) - Cardinality(open(v) \cap sites(v))
    BY <2>1, FS_Difference
  <2>3. Cardinality(open(v) \ sites(v)) \in Nat /\ UsedBy(r, i, v) \in Nat
    BY <2>1, <2>2, FS_CardinalityType
  <2>4. UsedBy(r, i, v) = 0 <=> sites(v) = {}
    BY <2>1, FS_EmptySet
  <2>5. Cardinality(open(v) \ sites(v)) = 0 <=> open(v) \ sites(v) = {}
    BY <2>2, FS_EmptySet
  <2> QED
    BY <2>1, <2>2, <2>3, <2>4, <2>5
<1>5. ~Retain(r) => \A v \in ValueIds : uses[r][v] = Cardinality(open(v))
  BY DEF RankOK, CountsExact, Bound, Counted
<1> HIDE DEF open, sites
<1>6. CanRelease(r, i)
  <2> SUFFICES ASSUME ~Retain(r), NEW k \in LocalIns(p, i, r)
               PROVE  /\ uses[r][p.code[i].inputs[k]] >= UsedBy(r, i, p.code[i].inputs[k])
                      /\ store[r][p.code[i].inputs[k]].state # "Absent"
    BY DEF CanRelease
  <2>1. p.code[i].inputs[k] \in ValueIds
    BY <1>1, OperandBorn
  <2> PICK n \in Int : n = pc[r]
    BY <1>2
  <2>2. EntryOK(p, r, p.code[i].inputs[k], Retain(r), n, completed[r], store[r][p.code[i].inputs[k]])
    BY <2>1 DEF RankOK, EntriesExact
  <2>3. /\ i \in DOMAIN p.code /\ i <= n /\ i \notin completed[r]
        /\ i = n \/ i \in Comms(p)
        /\ k \in LocalIns(p, i, r)
    OBVIOUS
  <2> HIDE DEF p
  <2>4. store[r][p.code[i].inputs[k]].state # "Absent"
    BY <1>1, <2>2, <2>3, OperandKept
  <2> QED
    BY <1>4, <1>5, <2>1, <2>4
<1>7. ~Retain(r) => \A v \in ValueIds : UsesAfter(r, i)[v] = Cardinality(open(v) \ sites(v))
  BY <1>4, <1>5 DEF UsesAfter
<1>8. ASSUME NEW s, NEW v \in ValueIds
      PROVE  StoreAfter(r, i, s)[v] =
               IF ~Retain(r) /\ LastUse(p, r, i, v, pc[r], completed[r]) THEN Absent ELSE s[v]
  <2>1. LastUse(p, r, i, v, pc[r], completed[r]) <=> sites(v) # {} /\ open(v) \ sites(v) = {}
    BY DEF LastUse, open, sites
  <2>2. CASE Retain(r)
    BY <2>2 DEF StoreAfter
  <2>3. CASE ~Retain(r)
    BY <1>4, <1>5, <2>1, <2>3 DEF StoreAfter
  <2> QED
    BY <2>2, <2>3
<1> QED
  BY <1>6, <1>7, <1>8 DEF open, sites

\* The value of an operand of the current instruction or of an open group.
LEMMA OperandEntry ==
  ASSUME IInv, NEW r \in Ranks, RankOK(r), Bound(r),
         NEW i \in DOMAIN PlanOf(r).code, i <= pc[r], i \notin completed[r],
         i = pc[r] \/ i \in Comms(PlanOf(r)),
         NEW k \in LocalIns(PlanOf(r), i, r), NEW v, PlanOf(r).code[i].inputs[k] = v
  PROVE  /\ v \in ValueIds
         /\ store[r][v].state # "Absent"
         /\ store[r][v].place = InPlace(PlanOf(r), i, k)
<1>1. PlanOK(PlanOf(r))
  BY RankPlan DEF IInv, Bound, Counted
<1>2. v \in ValueIds
  BY <1>1, OperandBorn
<1>3. PICK n \in Int : n = pc[r]
  BY DEF IInv, TypeOK
<1>4. EntryOK(PlanOf(r), r, v, Retain(r), n, completed[r], store[r][v])
  BY <1>2, <1>3 DEF RankOK, EntriesExact
<1>5. i <= n /\ (i = n \/ i \in Comms(PlanOf(r)))
  BY <1>3
<1>6. store[r][v].state # "Absent" /\ store[r][v].place = Desc(PlanOf(r), v).place
  BY <1>1, <1>4, <1>5, OperandKept
<1>7. InPlace(PlanOf(r), i, k) = Desc(PlanOf(r), v).place
  BY <1>1, PlacesAgree DEF LocalIns
<1> QED
  BY <1>2, <1>6, <1>7

\* A local output of the current instruction is not in the store yet.
LEMMA OutputEntry ==
  ASSUME IInv, NEW r \in Ranks, RankOK(r), Running(r),
         NEW v \in ValueIds, Defines(PlanOf(r), r, pc[r], v)
  PROVE  store[r][v].state = "Absent" /\ ~Born(r, v)
<1> DEFINE p == PlanOf(r)
<1>1. PlanOK(p) /\ Bound(r)
  BY RankPlan DEF IInv, Running, Bound, Counted
<1>2. pc[r] \in DOMAIN p.code
  BY RunningInPlan DEF IInv
<1>3. PICK k \in LocalOuts(p, pc[r], r) : p.code[pc[r]].outputs[k] = v
  BY DEF Defines
<1>4. k \in DOMAIN p.code[pc[r]].outputs
  BY DEF LocalOuts
<1>5. /\ \A j \in DOMAIN p.external : p.external[j] # v
      /\ \A j \in DOMAIN p.code : \A l \in DOMAIN p.code[j].outputs :
           p.code[j].outputs[l] = v => j = pc[r]
  BY <1>1, <1>2, <1>3, <1>4, OutputUnique
<1>6. ~(pc[r] < pc[r])
  BY <1>2, PlanShape, <1>1
<1>7. ~BornAt(p, r, v, pc[r])
  BY <1>5, <1>6 DEF BornAt, LocalExternals, LocalOuts
<1>8. EntryOK(p, r, v, Retain(r), pc[r], completed[r], store[r][v])
  BY <1>1 DEF RankOK, EntriesExact
<1> QED
  BY <1>7, <1>8 DEF EntryOK, Born, BornAt

\* The position of a group: a communication before current_, not completed.
LEMMA OpenGroupAt ==
  ASSUME IInv, NEW r \in Ranks, NEW w \in OpenGroups(r)
  PROVE  /\ w \in DOMAIN PlanOf(r).code /\ w \in Comms(PlanOf(r))
         /\ w < pc[r] /\ w <= pc[r] /\ w \notin completed[r] /\ w \in Nat
         /\ completed[r] \subseteq {i \in Comms(PlanOf(r)) : i < pc[r]}
<1>1. w \in DOMAIN PlanOf(r).code /\ w \in Comms(PlanOf(r)) /\ w < pc[r] /\ w \notin completed[r]
  BY DEF OpenGroups, Posted, Comms
<1>2. DOMAIN PlanOf(r).code \subseteq Nat /\ pc[r] \in Int
  <2>1. IsPlan(PlanOf(r), ValueIds)
    BY PlanOfTyped DEF IInv
  <2>2. DOMAIN PlanOf(r).code \subseteq Nat
    BY <2>1 DEF IsPlan
  <2>3. pc[r] \in Int
    BY DEF IInv, TypeOK
  <2> QED
    BY <2>2, <2>3
<1> QED
  BY <1>1, <1>2 DEF IInv, GroupsKnown, Posted

\* current_ is an instruction that has not been completed.
LEMMA CurrentAt ==
  ASSUME IInv, NEW r \in Ranks, Running(r)
  PROVE  /\ pc[r] \in DOMAIN PlanOf(r).code /\ pc[r] <= pc[r] /\ pc[r] \in Nat
         /\ pc[r] \notin completed[r] /\ \A g \in completed[r] : g < pc[r]
         /\ PlanOK(PlanOf(r)) /\ Retain(r) \in BOOLEAN /\ Bound(r) /\ Counted(r)
<1>1. Bound(r) /\ Counted(r)
  BY DEF Running, Bound, Counted
<1>2. pc[r] \in DOMAIN PlanOf(r).code /\ pc[r] \in Nat
  BY RunningInPlan DEF IInv, TypeOK
<1>3. \A g \in completed[r] : g < pc[r]
  BY DEF IInv, GroupsKnown, Posted
<1> QED
  BY <1>1, <1>2, <1>3, RankPlan DEF IInv

\* ensure_ready, define_ready, define_pending and release_after_use find what
\* they ask for: none of their exceptions is thrown at the current instruction.
LEMMA NoInstructionFault ==
  ASSUME IInv, NEW r \in Ranks, RankOK(r), Running(r)
  PROVE  InstructionFault(r) = "none"
<1> DEFINE p == PlanOf(r)
<1>1. /\ PlanOK(p) /\ Bound(r) /\ pc[r] \in DOMAIN p.code /\ pc[r] <= pc[r]
      /\ pc[r] \notin completed[r]
  BY CurrentAt
<1>2. ASSUME NEW k \in Ins(r) PROVE OperandFault(r, k) = "none"
  <2> DEFINE v == Instr(r).inputs[k]
  <2>1. /\ v \in ValueIds /\ store[r][v].state # "Absent"
        /\ store[r][v].place = InPlace(p, pc[r], k)
    BY <1>1, OperandEntry DEF Ins, Instr
  <2>2. EntryOK(p, r, v, Retain(r), pc[r], completed[r], store[r][v])
    BY <1>1, <2>1 DEF RankOK, EntriesExact
  <2>3. store[r][v].state = "Pending" => store[r][v].group \notin completed[r]
    BY <2>2 DEF EntryOK, FlightAt
  <2> QED
    BY <2>1, <2>3 DEF OperandFault, InEntry
<1>3. Unready(r) # {} => OperandFault(r, Least(Unready(r))) = "none"
  <2>1. Ins(r) \subseteq Nat
    BY <1>1, PlanShape DEF Ins, LocalIns
  <2>2. Unready(r) \subseteq Ins(r)
    BY DEF Unready
  <2> QED
    BY <1>2, <2>1, <2>2, LeastIn
<1>4. OutputsAbsent(r)
  <2> SUFFICES ASSUME NEW k \in Outs(r) PROVE store[r][Instr(r).outputs[k]].state = "Absent"
    BY DEF OutputsAbsent
  <2>1. Instr(r).outputs[k] \in ValueIds
    BY <1>1, PlacesAgree DEF Outs, LocalOuts, Instr
  <2>2. Defines(p, r, pc[r], Instr(r).outputs[k])
    BY DEF Defines, Outs, Instr
  <2> QED
    BY <2>1, <2>2, OutputEntry
<1>5. CanRelease(r, pc[r])
  BY <1>1, ReleaseExact
<1> QED
  BY <1>3, <1>4, <1>5 DEF InstructionFault

\* finish_group finds its outputs pending and its operands counted.
LEMMA NoGroupFault ==
  ASSUME IInv, NEW r \in Ranks, RankOK(r), InWait(r)
  PROVE  GroupFault(r) = "none"
<1> DEFINE p == PlanOf(r)
<1>1. waiting[r] \in OpenGroups(r) /\ Bound(r)
  BY DEF IInv, GroupsKnown, InWait, Bound
<1>2. PlanOK(p)
  BY <1>1, RankPlan DEF IInv, Bound, Counted
<1>3. /\ waiting[r] \in DOMAIN p.code /\ waiting[r] \in Comms(p)
      /\ waiting[r] < pc[r] /\ waiting[r] <= pc[r] /\ waiting[r] \notin completed[r]
  BY <1>1, OpenGroupAt
<1>4. ASSUME NEW k \in GroupOuts(r) PROVE store[r][GroupOut(r, k)].state # "Absent"
  <2> DEFINE v == GroupOut(r, k)
  <2>1. v \in ValueIds
    BY <1>2, <1>3, PlacesAgree DEF GroupOuts, GroupOut, LocalOuts
  <2>2. EntryOK(p, r, v, Retain(r), pc[r], completed[r], store[r][v])
    BY <1>1, <2>1 DEF RankOK, EntriesExact
  <2>3. FlightAt(p, r, v, pc[r], completed[r], waiting[r])
    BY <1>3 DEF FlightAt, GroupOuts, GroupOut
  <2>4. store[r][v].state = "Pending"
    BY <1>3, <2>2, <2>3 DEF EntryOK
  <2> QED
    BY <2>4
<1>5. CanRelease(r, waiting[r])
  BY <1>1, <1>3, ReleaseExact
<1> QED
  BY <1>4, <1>5 DEF GroupFault

-----------------------------------------------------------------------------
(***************************************************************************)
(* Steps.                                                                  *)
(***************************************************************************)
\* The members of the runtime of rank s stay as they are.
Same(s) ==
  /\ arg'[s] = arg[s] /\ runs'[s] = runs[s] /\ stage'[s] = stage[s] /\ pc'[s] = pc[s]
  /\ store'[s] = store[s] /\ uses'[s] = uses[s] /\ completed'[s] = completed[s]
  /\ waiting'[s] = waiting[s] /\ error'[s] = error[s]

\* An instance of SequentialRuntime only touches its own members.
LEMMA OthersSame ==
  ASSUME IInv, NEW r \in Ranks, Step(r), NEW s \in Ranks, s # r
  PROVE  Same(s)
<1> USE DEF IInv, Same
<1>1. ASSUME NEW w, Throw(r, w) PROVE Same(s)
  BY <1>1 DEF Throw, TypeOK
<1>2. ASSUME NEW a, NEW b, Execute(r, a, b) PROVE Same(s)
  BY <1>1, <1>2 DEF Execute, TypeOK
<1>3. CASE Start(r)
  BY <1>3 DEF Start, TypeOK
<1>4. CASE Setup(r)
  BY <1>4 DEF Setup, TypeOK
<1>5. CASE RefusePlan(r) \/ RefuseInputs(r) \/ ApiThrows(r)
  BY <1>1, <1>5 DEF RefusePlan, RefuseInputs, ApiThrows
<1>6. CASE PreflightReturns(r) \/ Drained(r) \/ Panic(r)
  BY <1>6 DEF PreflightReturns, Drained, Panic, TypeOK
<1>7. CASE \E content \in [ValueIds -> Data] : BindInputs(r, content)
  BY <1>1, <1>7 DEF BindInputs, TypeOK
<1>8. CASE \/ Skip(r) \/ PostComm(r)
           \/ \E data \in Data : ExecuteEncode(r, data) \/ ExecuteCompute(r, data)
  BY <1>2, <1>8 DEF Skip, PostComm, ExecuteEncode, ExecuteCompute
<1>9. CASE AwaitOperand(r) \/ AwaitOldest(r)
  BY <1>9 DEF AwaitOperand, AwaitOldest, TypeOK
<1>10. CASE \E content \in [ValueIds -> Data] : FinishGroup(r, content)
  BY <1>1, <1>10 DEF FinishGroup, TypeOK
<1>11. CASE PublishArtifact(r)
  BY <1>1, <1>11 DEF PublishArtifact, TypeOK
<1> QED
  BY <1>3, <1>4, <1>5, <1>6, <1>7, <1>8, <1>9, <1>10, <1>11 DEF Step

\* A rank whose members stay as they are keeps its invariant.
LEMMA FrameRank ==
  ASSUME NEW s \in Ranks, RankOK(s), Same(s)
  PROVE  RankOK(s)'
<1> USE DEF RankOK, Same, Counted, Bound, Retain, PlanOf, OpenGroups, Posted
<1>1. Untouched(s)'
  BY DEF Untouched
<1>2. PcInPlan(s)'
  BY DEF PcInPlan
<1>3. CountsExact(s)'
  BY DEF CountsExact
<1>4. EntriesExact(s)'
  BY DEF EntriesExact
<1>5. OperandsHeld(s)'
  BY DEF OperandsHeld
<1> QED
  BY <1>1, <1>2, <1>3, <1>4, <1>5

\* A stage in which nothing is asked of the members.
LEMMA IdleRank ==
  ASSUME NEW r \in Ranks, stage'[r] \in {"aborting", "panic"}, error'[r] \notin StoreErrors
  PROVE  RankOK(r)'
BY DEF RankOK, Untouched, PcInPlan, CountsExact, EntriesExact, OperandsHeld, Counted, Bound

\* The entry of run(), verification and counting, preflight.
LEMMA BeginRank ==
  ASSUME IInv, NEW r \in Ranks, RankOK(r), Start(r) \/ Setup(r) \/ PreflightReturns(r)
  PROVE  RankOK(r)'
<1> USE DEF IInv
<1>1. CASE Start(r)
  <2>1. \/ stage'[r] = "setup" /\ error'[r] = "none"
        \/ stage'[r] = "panic" /\ error'[r] = "trace"
    BY <1>1 DEF Start, TypeOK
  <2>2. /\ pc'[r] = 1 /\ completed'[r] = {}
        /\ \A v \in ValueIds : store'[r][v] = Absent /\ uses'[r][v] = 0
    BY <1>1 DEF Start, TypeOK
  <2> QED
    BY <2>1, <2>2 DEF RankOK, Untouched, PcInPlan, CountsExact, EntriesExact, OperandsHeld,
                      Counted, Bound, StoreErrors
<1>2. CASE Setup(r)
  <2>1. /\ stage'[r] = "preflight" /\ stage[r] = "setup" /\ Accepted(r)
        /\ \A v \in ValueIds : uses'[r][v] = uses[r][v] + InitialUses(r)[v]
        /\ UNCHANGED <<arg, pc, store, completed, error>>
    BY <1>2 DEF Setup, TypeOK
  <2>2. /\ pc[r] = 1 /\ completed[r] = {}
        /\ \A v \in ValueIds : store[r][v] = Absent /\ uses[r][v] = 0
    BY <2>1 DEF RankOK, Untouched
  <2>3. PlanOK(PlanOf(r))
    BY <2>1, PlanOfTyped DEF PlanOK, Accepted
  <2>4. ~Retain(r) => \A v \in ValueIds :
          uses'[r][v] = Cardinality(OpenAt(PlanOf(r), r, v, 1, {}))
    <3> SUFFICES ASSUME ~Retain(r), NEW v \in ValueIds
                 PROVE  uses'[r][v] = Cardinality(OpenAt(PlanOf(r), r, v, 1, {}))
      OBVIOUS
    <3>1. OpenAt(PlanOf(r), r, v, 1, {}) = UseSites(PlanOf(r), r, v)
      BY <2>3, OpenStart
    <3>2. Cardinality(UseSites(PlanOf(r), r, v)) \in Nat
      BY <2>3, UseSitesFinite DEF PlanOK
    <3> QED
      BY <2>1, <2>2, <3>1, <3>2 DEF InitialUses
  <2>5. CountsExact(r)'
    BY <2>1, <2>2, <2>4 DEF CountsExact, Retain, PlanOf
  <2> QED
    BY <2>1, <2>2, <2>5 DEF RankOK, Untouched, PcInPlan, EntriesExact, OperandsHeld, Bound
<1>3. CASE PreflightReturns(r)
  <2>1. /\ stage'[r] = "bind" /\ stage[r] = "preflight"
        /\ UNCHANGED <<arg, pc, store, uses, completed, error>>
    BY <1>3 DEF PreflightReturns, TypeOK
  <2> QED
    BY <2>1 DEF RankOK, Untouched, PcInPlan, CountsExact, EntriesExact, OperandsHeld,
                Counted, Bound, Retain, PlanOf
<1> QED
  BY <1>1, <1>2, <1>3

\* bind_inputs finds the store empty.
LEMMA BindRank ==
  ASSUME IInv, NEW r \in Ranks, RankOK(r),
         NEW content \in [ValueIds -> Data], BindInputs(r, content)
  PROVE  RankOK(r)'
<1> USE DEF IInv
<1> DEFINE p == PlanOf(r)
<1>1. /\ stage[r] = "bind" /\ pc[r] = 1 /\ completed[r] = {}
      /\ \A v \in ValueIds : store[r][v] = Absent
  BY DEF BindInputs, RankOK, Untouched
<1>2. PlanOK(p)
  BY <1>1, RankPlan DEF Counted
<1>3. \A v \in LocalExternals(p, r) : v \in ValueIds
  BY <1>2 DEF PlanOK, IsPlan, LocalExternals
<1>4. /\ stage' = [stage EXCEPT ![r] = "init"]
      /\ store' = [store EXCEPT ![r] =
           [v \in ValueIds |-> IF v \in LocalExternals(p, r)
                               THEN Ready(Desc(p, v).place, content[v]) ELSE store[r][v]]]
      /\ UNCHANGED <<arg, runs, pc, uses, completed, waiting, error>>
  BY <1>1, <1>3 DEF BindInputs, Absent, TypeOK
<1>5. stage'[r] = "init"
  BY <1>4 DEF TypeOK
<1>6. \A v \in ValueIds : store'[r][v] = IF v \in LocalExternals(p, r)
                                          THEN Ready(Desc(p, v).place, content[v]) ELSE Absent
  BY <1>1, <1>4 DEF TypeOK
<1>7. \A v \in ValueIds : EntryOK(p, r, v, Retain(r), 1, {}, store'[r][v])
  <2> SUFFICES ASSUME NEW v \in ValueIds PROVE EntryOK(p, r, v, Retain(r), 1, {}, store'[r][v])
    OBVIOUS
  <2>1. EntryOK(p, r, v, Retain(r), 1, {},
          IF v \in LocalExternals(p, r) THEN Ready(Desc(p, v).place, content[v]) ELSE Absent)
    BY <1>2, BindEntry
  <2> QED
    BY <1>6, <2>1
<1>8. EntriesExact(r)'
  BY <1>1, <1>4, <1>7 DEF EntriesExact, Retain, PlanOf
<1>9. CountsExact(r)'
  BY <1>1, <1>4 DEF RankOK, CountsExact, Counted, Retain, PlanOf
<1>10. OpenGroups(r)' = {}
  <2>1. DOMAIN p.code \subseteq 1 .. Len(p.code) /\ Len(p.code) \in Nat
    BY <1>2, PlanShape
  <2>2. \A i \in Comms(p) : ~(i < 1)
    BY <2>1 DEF Comms
  <2> QED
    BY <1>1, <1>4, <2>2 DEF OpenGroups, Posted, PlanOf
<1>11. PcInPlan(r)'
  <2>1. 1 <= Len(p.code) + 1
    BY <1>2, PlanShape
  <2> QED
    BY <1>1, <1>4, <1>5, <2>1 DEF PcInPlan, PlanOf
<1> QED
  BY <1>4, <1>5, <1>8, <1>9, <1>10, <1>11 DEF RankOK, Untouched, OperandsHeld

\* WithOutputs puts one of the given entries under each local output.
LEMMA WithOutputsAt ==
  ASSUME NEW r, NEW i, NEW entry, NEW v \in ValueIds
  PROVE  /\ Defines(PlanOf(r), r, i, v) =>
              \E k \in LocalOuts(PlanOf(r), i, r) :
                PlanOf(r).code[i].outputs[k] = v /\ WithOutputs(r, i, entry)[v] = entry[k]
         /\ ~Defines(PlanOf(r), r, i, v) => WithOutputs(r, i, entry)[v] = store[r][v]
BY DEF WithOutputs, Defines

\* An operand with a site at a position of the plan is one of the local ones.
LEMMA SiteOperand ==
  ASSUME NEW p, PlanOK(p), NEW r, NEW v, NEW i \in DOMAIN p.code, SitesAt(p, r, v, i) # {}
  PROVE  \E k \in LocalIns(p, i, r) : p.code[i].inputs[k] = v
<1>1. PICK s \in SitesAt(p, r, v, i) : TRUE
  OBVIOUS
<1>2. s \in UseSites(p, r, v) /\ s[1] = i
  BY <1>1 DEF SitesAt
<1>3. FinalSite(p) \notin DOMAIN p.code
  BY SiteForm
<1> QED
  BY <1>2, <1>3, SiteForm

\* An operand of an open group that is not pending is there.
LEMMA HeldNext ==
  ASSUME NEW p, PlanOK(p), NEW r, NEW retain, NEW n \in Int, NEW done,
         NEW i \in Comms(p), i < n, i \notin done,
         NEW k \in LocalIns(p, i, r), NEW v, p.code[i].inputs[k] = v,
         NEW e, EntryOK(p, r, v, retain, n, done, e), e.state \in {"Ready", "Absent"}
  PROVE  e.state = "Ready"
<1>1. i \in DOMAIN p.code /\ i <= n
  BY PlanShape DEF Comms
<1> QED
  BY <1>1, OperandKept

\* execute_phase moves past the current instruction, given what that leaves in
\* the store (`given` under the outputs, nothing after a last use) and in the
\* counts.
LEMMA AdvanceRank ==
  ASSUME IInv, NEW r \in Ranks, RankOK(r), Running(r),
         NEW newStore, NEW newUses, NEW given, Execute(r, newStore, newUses),
         \A v \in ValueIds :
           /\ newStore[v] =
                Left(~Retain(r) /\ Instr(r).op # "Comm"
                       /\ LastUse(PlanOf(r), r, pc[r], v, pc[r], completed[r]),
                     Defines(PlanOf(r), r, pc[r], v), given[v], store[r][v])
           /\ Defines(PlanOf(r), r, pc[r], v) =>
                /\ given[v].place = Desc(PlanOf(r), v).place
                /\ Instr(r).op = "Comm" => given[v].state = "Pending" /\ given[v].group = pc[r]
                /\ Instr(r).op # "Comm" => given[v].state = "Ready"
           /\ ~Retain(r) =>
                newUses[v] = Cardinality(OpenAt(PlanOf(r), r, v, pc[r] + 1, completed[r]))
  PROVE  RankOK(r)'
<1> USE DEF IInv
<1> DEFINE p == PlanOf(r)
           i == pc[r]
           done == completed[r]
<1>1. /\ i \in DOMAIN p.code /\ i <= i /\ i \in Nat /\ i \notin done /\ \A g \in done : g < i
      /\ PlanOK(p) /\ Retain(r) \in BOOLEAN /\ Bound(r) /\ Counted(r)
  BY CurrentAt
<1>2. InstructionFault(r) = "none" /\ ~Blocked(r)
  BY NoInstructionFault DEF Execute
<1>3. /\ store'[r] = newStore /\ uses'[r] = newUses /\ pc'[r] = i + 1
      /\ UNCHANGED <<arg, runs, stage, completed, waiting, error>>
  BY <1>2 DEF Execute, TypeOK
<1>4. \A k \in LocalIns(p, i, r) : store[r][p.code[i].inputs[k]].state = "Ready"
  <2>1. Unready(r) = {}
    BY <1>2 DEF InstructionFault, Blocked
  <2> QED
    BY <2>1 DEF Unready, Ins, InEntry, Instr
<1>5. ASSUME NEW v \in ValueIds
      PROVE  /\ EntryOK(p, r, v, Retain(r), i + 1, done, newStore[v])
             /\ store[r][v].state = "Ready" => newStore[v].state \in {"Ready", "Absent"}
  <2>1. EntryOK(p, r, v, Retain(r), i, done, store[r][v])
    BY <1>1 DEF RankOK, EntriesExact
  <2>2. SitesAt(p, r, v, i) # {} => store[r][v].state = "Ready"
    BY <1>1, <1>4, SiteOperand
  <2>3. Defines(p, r, i, v) =>
          /\ given[v].place = Desc(p, v).place
          /\ p.code[i].op = "Comm" => given[v].state = "Pending" /\ given[v].group = i
          /\ p.code[i].op # "Comm" => given[v].state = "Ready"
    BY DEF Instr
  <2>4. newStore[v] = Left(~Retain(r) /\ p.code[i].op # "Comm" /\ LastUse(p, r, i, v, i, done),
                           Defines(p, r, i, v), given[v], store[r][v])
    BY DEF Instr
  <2>5. EntryOK(p, r, v, Retain(r), i + 1, done, newStore[v])
    <3> HIDE DEF p, i, done
    <3>1. EntryOK(p, r, v, Retain(r), i + 1, done,
            Left(~Retain(r) /\ p.code[i].op # "Comm" /\ LastUse(p, r, i, v, i, done),
                 Defines(p, r, i, v), given[v], store[r][v]))
      BY <1>1, <2>1, <2>2, <2>3, AdvanceEntry
    <3> QED
      BY <2>4, <3>1
  <2>6. store[r][v].state = "Ready" => ~Defines(p, r, i, v)
    BY OutputEntry
  <2> QED
    BY <2>4, <2>5, <2>6 DEF Left, Absent
<1>6. EntriesExact(r)'
  BY <1>3, <1>5 DEF EntriesExact, Retain, PlanOf
<1>7. CountsExact(r)'
  BY <1>3 DEF CountsExact, Counted, Retain, PlanOf
<1>8. PcInPlan(r)'
  <2>1. i + 1 <= Len(p.code) + 1
    BY <1>1, PlanShape
  <2>2. stage[r] \in {"init", "exec"}
    BY DEF Running
  <2> QED
    BY <1>3, <2>1, <2>2 DEF PcInPlan, PlanOf
<1>9. OperandsHeld(r)'
  <2> SUFFICES ASSUME NEW g \in OpenGroups(r)', NEW k \in LocalIns(p, g, r)
               PROVE  store'[r][p.code[g].inputs[k]].state = "Ready"
    BY <1>3 DEF OperandsHeld, PlanOf
  <2> DEFINE v == p.code[g].inputs[k]
  <2>1. g \in Comms(p) /\ g < i + 1 /\ g \notin done
    BY <1>3 DEF OpenGroups, Posted, PlanOf
  <2>2. g \in DOMAIN p.code /\ g \in Int
    BY <1>1, <2>1, PlanShape DEF Comms
  <2>3. v \in ValueIds
    BY <1>1, <2>2, OperandBorn
  <2>4. store[r][v].state = "Ready"
    <3>1. CASE g = i
      BY <1>4, <3>1
    <3>2. CASE g # i
      <4>1. g \in OpenGroups(r)
        BY <1>1, <2>1, <2>2, <3>2 DEF OpenGroups, Posted
      <4> QED
        BY <1>1, <4>1 DEF RankOK, OperandsHeld
    <3> QED
      BY <3>1, <3>2
  <2>5. newStore[v].state \in {"Ready", "Absent"}
    BY <1>5, <2>3, <2>4
  <2>6. EntryOK(p, r, v, Retain(r), i + 1, done, newStore[v])
    BY <1>5, <2>3
  <2>7. i + 1 \in Int
    BY <1>1
  <2>8. newStore[v].state = "Ready"
    <3>1. p.code[g].inputs[k] = v
      OBVIOUS
    <3> HIDE DEF p, i, done, v
    <3> QED
      BY <1>1, <2>1, <2>5, <2>6, <2>7, <3>1, HeldNext
  <2> QED
    BY <1>3, <2>8
<1>10. Untouched(r)'
  BY <1>1, <1>3 DEF Untouched, Bound
<1> QED
  BY <1>3, <1>6, <1>7, <1>8, <1>9, <1>10 DEF RankOK

\* Skip, Encode, Compute and communicate_async.
LEMMA ExecuteRank ==
  ASSUME IInv, NEW r \in Ranks, RankOK(r),
         \/ Skip(r) \/ PostComm(r)
         \/ \E data \in Data : ExecuteEncode(r, data) \/ ExecuteCompute(r, data)
  PROVE  RankOK(r)'
<1> DEFINE p == PlanOf(r)
           i == pc[r]
           done == completed[r]
           sites(v) == SitesAt(p, r, v, i)
           open(v) == OpenAt(p, r, v, i, done)
<1>1. Running(r)
  BY DEF Skip, PostComm, ExecuteEncode, ExecuteCompute
<1>2. /\ i \in DOMAIN p.code /\ i <= i /\ i \in Nat /\ i \notin done
      /\ PlanOK(p) /\ Retain(r) \in BOOLEAN /\ Bound(r) /\ Counted(r)
  BY <1>1, CurrentAt
<1>3. /\ p.code[i].op \in {"Encode", "Compute", "Comm"} /\ Instr(r) = p.code[i]
      /\ p.code[i].op # "Comm" => DOMAIN p.code[i].outputs = {1}
      /\ p.code[i].op = "Encode" => DOMAIN p.code[i].inputs = {}
  BY <1>2, PlanShape DEF Instr
<1>4. ASSUME NEW v
      PROVE  OpenAt(p, r, v, i + 1, done) = IF p.code[i].op = "Comm" THEN open(v) ELSE open(v) \ sites(v)
  BY <1>2, OpenAdvance
<1>5. \A k \in Outs(r) : /\ k \in DOMAIN p.code[i].outputs
                         /\ OutPlace(p, i, k) = Desc(p, p.code[i].outputs[k]).place
  BY <1>2, PlacesAgree DEF Outs, LocalOuts
<1>6. ~Retain(r) => \A v \in ValueIds : uses[r][v] = Cardinality(open(v))
  BY <1>2 DEF RankOK, CountsExact
<1>7. ASSUME p.code[i].op # "Comm", LocalIns(p, i, r) = {}, NEW v
      PROVE  sites(v) = {} /\ open(v) \ sites(v) = open(v)
  BY <1>2, <1>7, SiteOperand
<1>8. CASE Skip(r)
  <2>1. p.code[i].op # "Comm" /\ Outs(r) = {} /\ Execute(r, store[r], uses[r])
    BY <1>3, <1>8 DEF Skip
  <2>2. LocalIns(p, i, r) = {}
    <3>1. CASE p.code[i].op = "Encode"
      BY <1>3, <3>1 DEF LocalIns
    <3>2. CASE p.code[i].op = "Compute"
      <4>1. 1 \notin LocalOuts(p, i, r) /\ 1 \in DOMAIN p.code[i].outputs
        BY <1>3, <2>1 DEF Outs
      <4>2. p.code[i].place.rank # r
        BY <3>2, <4>1 DEF LocalOuts, OutPlace
      <4> QED
        BY <3>2, <4>2 DEF LocalIns, InPlace
    <3> QED
      BY <1>3, <2>1, <3>1, <3>2
  <2>3. \A v : ~Defines(p, r, i, v)
    BY <2>1 DEF Defines, Outs
  <2>4. \A v : ~LastUse(p, r, i, v, i, done) /\ OpenAt(p, r, v, i + 1, done) = open(v)
    BY <1>4, <1>7, <2>1, <2>2 DEF LastUse
  <2>5. \A v \in ValueIds :
          /\ store[r][v] = Left(~Retain(r) /\ Instr(r).op # "Comm" /\ LastUse(p, r, i, v, i, done),
                                Defines(p, r, i, v), store[r][v], store[r][v])
          /\ ~Retain(r) => uses[r][v] = Cardinality(OpenAt(p, r, v, i + 1, done))
    BY <1>6, <2>3, <2>4 DEF Left
  <2> QED
    BY <1>1, <2>1, <2>3, <2>5, AdvanceRank
<1>9. ASSUME NEW data \in Data, ExecuteEncode(r, data) PROVE RankOK(r)'
  <2> DEFINE entry == [k \in Outs(r) |-> Ready(OutPlace(p, i, k), data)]
             new == Defined(r, entry)
  <2>1. p.code[i].op = "Encode" /\ Execute(r, new, uses[r])
    BY <1>3, <1>9 DEF ExecuteEncode
  <2>2. LocalIns(p, i, r) = {}
    BY <1>3, <2>1 DEF LocalIns
  <2>3. \A v : ~LastUse(p, r, i, v, i, done) /\ OpenAt(p, r, v, i + 1, done) = open(v)
    BY <1>4, <1>7, <2>1, <2>2 DEF LastUse
  <2>4. \A k \in Outs(r) : entry[k].state = "Ready" /\ entry[k].place = OutPlace(p, i, k)
    BY DEF Ready
  <2> HIDE DEF entry
  <2>5. ASSUME NEW v \in ValueIds
        PROVE  /\ Defines(p, r, i, v) => new[v].state = "Ready" /\ new[v].place = Desc(p, v).place
               /\ ~Defines(p, r, i, v) => new[v] = store[r][v]
    BY <1>5, <2>4, WithOutputsAt DEF Defined, Outs
  <2> HIDE DEF new
  <2>6. \A v \in ValueIds :
          /\ new[v] = Left(~Retain(r) /\ Instr(r).op # "Comm" /\ LastUse(p, r, i, v, i, done),
                           Defines(p, r, i, v), new[v], store[r][v])
          /\ Defines(p, r, i, v) =>
               /\ new[v].place = Desc(p, v).place
               /\ Instr(r).op = "Comm" => new[v].state = "Pending" /\ new[v].group = i
               /\ Instr(r).op # "Comm" => new[v].state = "Ready"
          /\ ~Retain(r) => uses[r][v] = Cardinality(OpenAt(p, r, v, i + 1, done))
    BY <1>3, <1>6, <2>1, <2>3, <2>5 DEF Left
  <2> QED
    BY <1>1, <2>1, <2>6, AdvanceRank
<1>10. ASSUME NEW data \in Data, ExecuteCompute(r, data) PROVE RankOK(r)'
  <2> DEFINE entry == [k \in Outs(r) |-> Ready(Instr(r).place, data)]
             given == Defined(r, entry)
             new == StoreAfter(r, i, given)
             counts == UsesAfter(r, i)
  <2>1. p.code[i].op = "Compute" /\ Execute(r, new, counts)
    BY <1>3, <1>10 DEF ExecuteCompute
  <2>2. \A k \in Outs(r) : entry[k].state = "Ready" /\ entry[k].place = OutPlace(p, i, k)
    BY <1>3, <2>1 DEF Ready, OutPlace
  <2> HIDE DEF entry
  <2>3. ASSUME NEW v \in ValueIds
        PROVE  /\ Defines(p, r, i, v) => given[v].state = "Ready" /\ given[v].place = Desc(p, v).place
               /\ ~Defines(p, r, i, v) => given[v] = store[r][v]
    BY <1>5, <2>2, WithOutputsAt DEF Defined, Outs
  <2> HIDE DEF given
  <2>4. /\ ~Retain(r) => \A v \in ValueIds : counts[v] = Cardinality(open(v) \ sites(v))
        /\ \A v \in ValueIds :
             new[v] = IF ~Retain(r) /\ LastUse(p, r, i, v, i, done) THEN Absent ELSE given[v]
    BY <1>2, ReleaseExact
  <2> HIDE DEF new, counts
  <2>5. \A v \in ValueIds :
          /\ new[v] = Left(~Retain(r) /\ Instr(r).op # "Comm" /\ LastUse(p, r, i, v, i, done),
                           Defines(p, r, i, v), given[v], store[r][v])
          /\ Defines(p, r, i, v) =>
               /\ given[v].place = Desc(p, v).place
               /\ Instr(r).op = "Comm" => given[v].state = "Pending" /\ given[v].group = i
               /\ Instr(r).op # "Comm" => given[v].state = "Ready"
          /\ ~Retain(r) => counts[v] = Cardinality(OpenAt(p, r, v, i + 1, done))
    BY <1>3, <1>4, <2>1, <2>3, <2>4 DEF Left
  <2> QED
    BY <1>1, <2>1, <2>5, AdvanceRank
<1>11. CASE PostComm(r)
  <2> DEFINE entry == [k \in Outs(r) |-> Pending(Instr(r).destinations[k], i)]
             new == Defined(r, entry)
  <2>1. p.code[i].op = "Comm" /\ Execute(r, new, uses[r])
    BY <1>3, <1>11 DEF PostComm
  <2>2. \A k \in Outs(r) : /\ entry[k].state = "Pending" /\ entry[k].group = i
                           /\ entry[k].place = OutPlace(p, i, k)
    BY <1>3, <2>1 DEF Pending, OutPlace
  <2> HIDE DEF entry
  <2>3. ASSUME NEW v \in ValueIds
        PROVE  /\ Defines(p, r, i, v) =>
                    new[v].state = "Pending" /\ new[v].group = i /\ new[v].place = Desc(p, v).place
               /\ ~Defines(p, r, i, v) => new[v] = store[r][v]
    BY <1>5, <2>2, WithOutputsAt DEF Defined, Outs
  <2> HIDE DEF new
  <2>4. \A v \in ValueIds :
          /\ new[v] = Left(~Retain(r) /\ Instr(r).op # "Comm" /\ LastUse(p, r, i, v, i, done),
                           Defines(p, r, i, v), new[v], store[r][v])
          /\ Defines(p, r, i, v) =>
               /\ new[v].place = Desc(p, v).place
               /\ Instr(r).op = "Comm" => new[v].state = "Pending" /\ new[v].group = i
               /\ Instr(r).op # "Comm" => new[v].state = "Ready"
          /\ ~Retain(r) => uses[r][v] = Cardinality(OpenAt(p, r, v, i + 1, done))
    BY <1>3, <1>4, <1>6, <2>1, <2>3 DEF Left
  <2> QED
    BY <1>1, <2>1, <2>4, AdvanceRank
<1> QED
  BY <1>8, <1>9, <1>10, <1>11

\* finish_group after the wait: the group is completed, its outputs are ready,
\* its operands released, those of the other groups kept.
LEMMA FinishRank ==
  ASSUME IInv, NEW r \in Ranks, RankOK(r),
         NEW content \in [ValueIds -> Data], FinishGroup(r, content)
  PROVE  RankOK(r)'
<1> USE DEF IInv
<1> DEFINE p == PlanOf(r)
           n == pc[r]
           w == waiting[r]
           done == completed[r]
           entry == [k \in GroupOuts(r) |->
                       Ready(Desc(PlanOf(r), GroupOut(r, k)).place, content[GroupOut(r, k)])]
           arrived == WithOutputs(r, w, entry)
           new == StoreAfter(r, w, arrived)
           counts == UsesAfter(r, w)
<1>1. InWait(r) /\ w \in OpenGroups(r) /\ Bound(r) /\ Counted(r)
  BY DEF FinishGroup, InWait, GroupsKnown, Bound, Counted
<1>2. /\ w \in DOMAIN p.code /\ w \in Comms(p) /\ w < n /\ w <= n /\ w \notin done /\ w \in Nat
      /\ n \in Nat
  BY <1>1, OpenGroupAt DEF TypeOK
<1>3. PlanOK(p) /\ Retain(r) \in BOOLEAN
  BY <1>1, RankPlan
<1>4. /\ store'[r] = new /\ uses'[r] = counts /\ completed'[r] = done \cup {w}
      /\ UNCHANGED <<arg, runs, stage, pc, error>>
  BY <1>1, NoGroupFault DEF FinishGroup, TypeOK
<1>5. ASSUME NEW v \in ValueIds
      PROVE  /\ Defines(p, r, w, v) =>
                  arrived[v].state = "Ready" /\ arrived[v].place = Desc(p, v).place
             /\ ~Defines(p, r, w, v) => arrived[v] = store[r][v]
  <2>1. \A k \in GroupOuts(r) : /\ entry[k].state = "Ready"
                                /\ entry[k].place = Desc(p, p.code[w].outputs[k]).place
    BY DEF Ready, GroupOut
  <2> HIDE DEF entry
  <2> QED
    BY <2>1, WithOutputsAt DEF GroupOuts
<1> HIDE DEF arrived
<1>6. /\ ~Retain(r) => \A v \in ValueIds :
           counts[v] = Cardinality(OpenAt(p, r, v, n, done) \ SitesAt(p, r, v, w))
      /\ \A v \in ValueIds :
           new[v] = IF ~Retain(r) /\ LastUse(p, r, w, v, n, done) THEN Absent ELSE arrived[v]
  BY <1>1, <1>2, ReleaseExact
<1> HIDE DEF new, counts
<1>7. ASSUME NEW v \in ValueIds
      PROVE  /\ EntryOK(p, r, v, Retain(r), n, done \cup {w}, new[v])
             /\ store[r][v].state = "Ready" => new[v].state \in {"Ready", "Absent"}
  <2>1. EntryOK(p, r, v, Retain(r), n, done, store[r][v])
    BY <1>1 DEF RankOK, EntriesExact
  <2>2. SitesAt(p, r, v, w) # {} => store[r][v].state = "Ready"
    BY <1>1, <1>2, <1>3, SiteOperand DEF RankOK, OperandsHeld
  <2>3. new[v] = Left(~Retain(r) /\ LastUse(p, r, w, v, n, done), Defines(p, r, w, v),
                      arrived[v], store[r][v])
    BY <1>5, <1>6 DEF Left
  <2>4. EntryOK(p, r, v, Retain(r), n, done \cup {w}, new[v])
    <3> HIDE DEF p, n, w, done
    <3>1. EntryOK(p, r, v, Retain(r), n, done \cup {w},
            Left(~Retain(r) /\ LastUse(p, r, w, v, n, done), Defines(p, r, w, v),
                 arrived[v], store[r][v]))
      BY <1>2, <1>3, <1>5, <2>1, <2>2, FinishEntry
    <3> QED
      BY <2>3, <3>1
  <2>5. store[r][v].state = "Ready" => new[v].state \in {"Ready", "Absent"}
    BY <1>5, <2>3 DEF Left, Absent
  <2> QED
    BY <2>4, <2>5
<1>8. EntriesExact(r)'
  BY <1>4, <1>7 DEF EntriesExact, Retain, PlanOf
<1>9. CountsExact(r)'
  <2>1. \A v : OpenAt(p, r, v, n, done \cup {w}) = OpenAt(p, r, v, n, done) \ SitesAt(p, r, v, w)
    BY <1>2 DEF OpenAt, SitesAt
  <2> QED
    BY <1>4, <1>6, <2>1 DEF CountsExact, Counted, Retain, PlanOf
<1>10. stage[r] \in {"init", "exec"}
  BY <1>1 DEF InWait
<1>11. PcInPlan(r)'
  BY <1>1, <1>4, <1>10 DEF RankOK, PcInPlan, PlanOf, Bound
<1>12. OperandsHeld(r)'
  <2> SUFFICES ASSUME NEW g \in OpenGroups(r)', NEW k \in LocalIns(p, g, r)
               PROVE  store'[r][p.code[g].inputs[k]].state = "Ready"
    BY <1>4 DEF OperandsHeld, PlanOf
  <2> DEFINE v == p.code[g].inputs[k]
  <2>1. g \in OpenGroups(r) /\ g \in Comms(p) /\ g < n /\ g \notin done \cup {w}
    BY <1>4 DEF OpenGroups, Posted, PlanOf
  <2>2. v \in ValueIds
    BY <1>3, <2>1, OperandBorn DEF Comms
  <2>3. store[r][v].state = "Ready"
    BY <1>1, <2>1 DEF RankOK, OperandsHeld
  <2>4. new[v].state \in {"Ready", "Absent"}
    BY <1>7, <2>2, <2>3
  <2>5. EntryOK(p, r, v, Retain(r), n, done \cup {w}, new[v])
    BY <1>7, <2>2
  <2>6. n \in Int
    BY <1>2
  <2>7. new[v].state = "Ready"
    <3> HIDE DEF p, n, w, done
    <3> QED
      BY <1>3, <2>1, <2>4, <2>5, <2>6, HeldNext
  <2> QED
    BY <1>4, <2>7
<1>13. Untouched(r)'
  BY <1>4, <1>10 DEF Untouched
<1> QED
  BY <1>4, <1>8, <1>9, <1>11, <1>12, <1>13 DEF RankOK

\* At the end of a run every final output of this rank is there.
LEMMA FinalsReady ==
  ASSUME IInv, NEW r \in Ranks, RankOK(r), stage[r] \in {"sync", "done"}
  PROVE  \A j \in LocalFinals(PlanOf(r), r) : FinalReady(r, j)
<1> DEFINE p == PlanOf(r)
<1>1. Bound(r) /\ Counted(r)
  BY DEF Bound, Counted
<1>2. PlanOK(p)
  BY <1>1, RankPlan DEF IInv
<1>3. pc[r] = FinalSite(p) /\ OpenGroups(r) = {}
  BY DEF RankOK, PcInPlan, FinalSite
<1> SUFFICES ASSUME NEW j \in LocalFinals(p, r) PROVE FinalReady(r, j)
  OBVIOUS
<1> DEFINE v == p.final[j]
<1>4. v \in ValueIds /\ BornAt(p, r, v, FinalSite(p))
  BY <1>2, OperandBorn DEF FinalSite
<1>5. EntryOK(p, r, v, Retain(r), FinalSite(p), completed[r], store[r][v])
  BY <1>1, <1>3, <1>4 DEF RankOK, EntriesExact
<1>6. <<FinalSite(p), j>> \in OpenAt(p, r, v, FinalSite(p), completed[r])
  <2>1. <<FinalSite(p), j>> \in UseSites(p, r, v)
    BY <1>2, SiteForm
  <2>2. FinalSite(p) \notin completed[r]
    BY <1>2, SiteForm DEF IInv, GroupsKnown, Posted, Comms
  <2>3. FinalSite(p) >= FinalSite(p)
    BY <1>2, PlanShape DEF FinalSite
  <2> QED
    BY <2>1, <2>2, <2>3 DEF OpenAt
<1>7. store[r][v].state # "Absent" /\ store[r][v].place = Desc(p, v).place
  BY <1>4, <1>5, <1>6 DEF EntryOK
<1>8. store[r][v].state # "Pending"
  BY <1>3, <1>5 DEF EntryOK, FlightAt, OpenGroups, Posted
<1>9. store[r][v] \in Entries
  BY <1>4 DEF IInv, TypeOK
<1> QED
  BY <1>7, <1>8, <1>9 DEF FinalReady, Entries, EntryStates

\* Waiting, the end of a phase, and the artifact.
LEMMA StageRank ==
  ASSUME IInv, NEW r \in Ranks, RankOK(r),
         \/ AwaitOperand(r) \/ AwaitOldest(r) \/ Drained(r) \/ PublishArtifact(r)
  PROVE  RankOK(r)'
<1> USE DEF IInv
<1>1. CASE AwaitOperand(r) \/ AwaitOldest(r)
  <2>1. UNCHANGED <<arg, runs, stage, pc, store, uses, completed, error>>
    BY <1>1 DEF AwaitOperand, AwaitOldest
  <2> QED
    BY ZenonT(30), <2>1 DEF RankOK, Untouched, PcInPlan, CountsExact, EntriesExact, OperandsHeld, Counted,
                Bound, Retain, PlanOf, OpenGroups, Posted
<1>2. ASSUME UNCHANGED <<arg, pc, store, uses, completed, error>>, Bound(r),
             stage'[r] \in {"init", "exec", "sync", "done"},
             stage'[r] \in {"sync", "done"} =>
               pc[r] = Len(PlanOf(r).code) + 1 /\ OpenGroups(r) = {}
      PROVE  RankOK(r)'
  <2>1. Untouched(r)'
    BY <1>2 DEF Untouched
  <2>2. PcInPlan(r)'
    BY <1>2 DEF RankOK, PcInPlan, PlanOf, OpenGroups, Posted
  <2>3. CountsExact(r)'
    BY <1>2 DEF RankOK, CountsExact, Bound, Counted, Retain, PlanOf
  <2>4. EntriesExact(r)'
    BY <1>2 DEF RankOK, EntriesExact, Bound, Retain, PlanOf
  <2>5. OperandsHeld(r)'
    BY <1>2 DEF RankOK, OperandsHeld, Bound, PlanOf, OpenGroups, Posted
  <2> QED
    BY <1>2, <2>1, <2>2, <2>3, <2>4, <2>5 DEF RankOK
<1>3. CASE Drained(r)
  <2>1. /\ stage[r] = "init" \/ (stage[r] = "exec" /\ pc[r] > Len(PlanOf(r).code))
        /\ OpenGroups(r) = {} /\ Bound(r) /\ Counted(r)
        /\ stage'[r] = IF stage[r] = "init" THEN "exec" ELSE "sync"
        /\ UNCHANGED <<arg, pc, store, uses, completed, error>>
    BY <1>3 DEF Drained, Draining, Bound, Counted, TypeOK
  <2>2. stage[r] = "exec" => pc[r] = Len(PlanOf(r).code) + 1
    <3>1. Len(PlanOf(r).code) \in Nat /\ pc[r] \in Nat
      BY <2>1, RankPlan, PlanShape DEF TypeOK
    <3>2. pc[r] <= Len(PlanOf(r).code) + 1
      BY <2>1 DEF RankOK, PcInPlan
    <3> QED
      BY <2>1, <3>1, <3>2
  <2> QED
    BY <1>2, <2>1, <2>2
<1>4. CASE PublishArtifact(r)
  <2>1. stage[r] = "sync" /\ Bound(r)
    BY <1>4 DEF PublishArtifact, Bound
  <2>2. stage'[r] = "done" /\ UNCHANGED <<arg, pc, store, uses, completed, error>>
    BY <1>4, <2>1, FinalsReady DEF PublishArtifact, TypeOK
  <2> QED
    BY <1>2, <2>1, <2>2 DEF RankOK, PcInPlan
<1> QED
  BY <1>1, <1>3, <1>4

\* Every step of the runtime keeps the invariant of the rank that takes it.
LEMMA OwnStep ==
  ASSUME IInv, NEW r \in Ranks, RankOK(r), Step(r)
  PROVE  RankOK(r)'
<1>1. ASSUME NEW why, why \notin StoreErrors, Throw(r, why) PROVE RankOK(r)'
  <2>1. stage'[r] = "aborting" /\ error'[r] = why
    BY <1>1 DEF Throw, IInv, TypeOK
  <2> QED
    BY <1>1, <2>1, IdleRank
<1>2. CASE RefusePlan(r) \/ RefuseInputs(r) \/ ApiThrows(r)
  BY <1>1, <1>2 DEF RefusePlan, RefuseInputs, ApiThrows, StoreErrors
<1>3. CASE Panic(r)
  <2>1. stage'[r] = "panic" /\ error'[r] = error[r]
    BY <1>3 DEF Panic, IInv, TypeOK
  <2> QED
    BY <2>1, IdleRank DEF RankOK
<1>4. CASE Start(r) \/ Setup(r) \/ PreflightReturns(r)
  BY <1>4, BeginRank
<1>5. CASE \E content \in [ValueIds -> Data] : BindInputs(r, content)
  BY <1>5, BindRank
<1>6. CASE \/ Skip(r) \/ PostComm(r)
           \/ \E data \in Data : ExecuteEncode(r, data) \/ ExecuteCompute(r, data)
  BY <1>6, ExecuteRank
<1>7. CASE \E content \in [ValueIds -> Data] : FinishGroup(r, content)
  BY <1>7, FinishRank
<1>8. CASE AwaitOperand(r) \/ AwaitOldest(r) \/ Drained(r) \/ PublishArtifact(r)
  BY <1>8, StageRank
<1> QED
  BY <1>2, <1>3, <1>4, <1>5, <1>6, <1>7, <1>8 DEF Step

\* One step of one runtime keeps the invariant of all of them.
LEMMA StoreStep ==
  ASSUME IInv, StoreInv, NEW r \in Ranks, Step(r)
  PROVE  StoreInv'
<1> SUFFICES ASSUME NEW s \in Ranks PROVE RankOK(s)'
  BY DEF StoreInv
<1>1. CASE s = r
  BY <1>1, OwnStep DEF StoreInv
<1>2. CASE s # r
  BY <1>2, OthersSame, FrameRank DEF StoreInv
<1> QED
  BY <1>1, <1>2

\* A step that is not the start of a run redefines no value: one that is ready,
\* or that was defined and has been released, stays or goes (define_ready,
\* define_pending and the update after a wait only fill entries of their own).
LEMMA NothingRedefined ==
  ASSUME IInv, NEW r \in Ranks, RankOK(r), Step(r), Bound(r), runs'[r] = runs[r],
         NEW v \in ValueIds,
         store[r][v].state = "Ready" \/ (Born(r, v) /\ store[r][v].state = "Absent")
  PROVE  store'[r][v] \in {Absent, store[r][v]}
<1> USE DEF IInv
<1> DEFINE p == PlanOf(r)
<1>1. ASSUME NEW w, Throw(r, w) PROVE store'[r][v] = store[r][v]
  BY <1>1 DEF Throw
<1>2. ~Start(r)
  BY DEF Start, TypeOK
<1>3. /\ ~Setup(r) /\ ~PreflightReturns(r) /\ ~Panic(r) /\ ~RefusePlan(r) /\ ~RefuseInputs(r)
      /\ \A content : ~BindInputs(r, content)
  BY DEF Bound, Setup, PreflightReturns, Panic, RefusePlan, RefuseInputs, BindInputs
<1>4. ASSUME NEW s, NEW u, Running(r), Execute(r, s, u),
             ~Defines(p, r, pc[r], v) => s[v] \in {Absent, store[r][v]}
      PROVE  store'[r][v] \in {Absent, store[r][v]}
  <2>1. ~Defines(p, r, pc[r], v)
    BY <1>4, OutputEntry
  <2>2. store'[r] = s
    BY <1>4, NoInstructionFault DEF Execute, TypeOK
  <2> QED
    BY <1>4, <2>1, <2>2
<1>5. \A entry : ~Defines(p, r, pc[r], v) => Defined(r, entry)[v] = store[r][v]
  BY WithOutputsAt DEF Defined
<1>6. \A i, s : StoreAfter(r, i, s)[v] \in {Absent, s[v]}
  BY DEF StoreAfter
<1>7. CASE Skip(r) \/ PostComm(r)
  BY <1>4, <1>5, <1>7 DEF Skip, PostComm
<1>8. CASE \E data \in Data : ExecuteEncode(r, data) \/ ExecuteCompute(r, data)
  <2>1. PICK data \in Data : ExecuteEncode(r, data) \/ ExecuteCompute(r, data)
    BY <1>8
  <2>2. CASE ExecuteEncode(r, data)
    BY <1>4, <1>5, <2>2 DEF ExecuteEncode
  <2>3. CASE ExecuteCompute(r, data)
    <3> DEFINE given == Defined(r, [k \in Outs(r) |-> Ready(Instr(r).place, data)])
    <3>1. Running(r) /\ Execute(r, StoreAfter(r, pc[r], given), UsesAfter(r, pc[r]))
      BY <2>3 DEF ExecuteCompute
    <3>2. ~Defines(p, r, pc[r], v) => given[v] = store[r][v]
      BY <1>5
    <3> HIDE DEF given
    <3>3. StoreAfter(r, pc[r], given)[v] \in {Absent, given[v]}
      BY <1>6
    <3> QED
      BY <1>4, <3>1, <3>2, <3>3
  <2> QED
    BY <2>1, <2>2, <2>3
<1>9. CASE \E content \in [ValueIds -> Data] : FinishGroup(r, content)
  <2> PICK content \in [ValueIds -> Data] : FinishGroup(r, content)
    BY <1>9
  <2> DEFINE arrived == WithOutputs(r, waiting[r],
               [k \in GroupOuts(r) |-> Ready(Desc(PlanOf(r), GroupOut(r, k)).place,
                                             content[GroupOut(r, k)])])
  <2>1. InWait(r) /\ waiting[r] \in OpenGroups(r)
    BY DEF FinishGroup, InWait, GroupsKnown
  <2>2. store'[r] = StoreAfter(r, waiting[r], arrived)
    BY <2>1, NoGroupFault DEF FinishGroup, TypeOK
  <2>3. ~Defines(p, r, waiting[r], v) => arrived[v] = store[r][v]
    BY WithOutputsAt
  <2> HIDE DEF arrived
  <2>4. ~Defines(p, r, waiting[r], v)
    <3>1. EntryOK(p, r, v, Retain(r), pc[r], completed[r], store[r][v])
      BY DEF RankOK, EntriesExact
    <3>2. Defines(p, r, waiting[r], v) => FlightAt(p, r, v, pc[r], completed[r], waiting[r])
      BY <2>1, OpenGroupAt DEF FlightAt, Defines
    <3>3. waiting[r] \in DOMAIN p.code
      BY <2>1, OpenGroupAt
    <3>4. store[r][v].state # "Pending"
      OBVIOUS
    <3> QED
      BY <3>1, <3>2, <3>3, <3>4 DEF EntryOK
  <2> QED
    BY <1>6, <2>2, <2>3, <2>4
<1>10. CASE AwaitOperand(r) \/ AwaitOldest(r) \/ Drained(r)
  BY <1>10 DEF AwaitOperand, AwaitOldest, Drained
<1>11. CASE PublishArtifact(r) \/ ApiThrows(r)
  BY <1>1, <1>11 DEF PublishArtifact, ApiThrows
<1> QED
  BY <1>2, <1>3, <1>7, <1>8, <1>9, <1>10, <1>11 DEF Step

-----------------------------------------------------------------------------
(***************************************************************************)
(* The theorems.                                                           *)
(***************************************************************************)
\* The invariants of the runtime, together: what a composition that closes the
\* Api builds on (SequentialRuntime<MockVecApi>, SequentialRuntime<MpiVecApi>).
RuntimeInv == IInv /\ StoreInv

\* A fresh runtime satisfies them.
LEMMA RuntimeInit ==
  ASSUME Init
  PROVE  RuntimeInv
<1>1. ArgsOK
  BY ArgsInit
<1>2. TypeOK /\ GroupsKnown
  BY MembersInit
<1>3. StoreInv
  BY DEF Init, StoreInv, RankOK, Untouched, PcInPlan, CountsExact, EntriesExact, OperandsHeld,
         Counted, Bound, StoreErrors
<1> QED
  BY <1>1, <1>2, <1>3 DEF RuntimeInv, IInv

\* Every step of every runtime keeps them.
LEMMA RuntimeKept ==
  ASSUME RuntimeInv, [Next]_rtVars
  PROVE  RuntimeInv'
<1> USE DEF RuntimeInv
<1>1. ArgsOK'
  BY ArgsStep DEF IInv
<1>2. IInvStep
  BY <1>1, MembersStep
<1>3. StoreInv'
  <2>1. CASE UNCHANGED rtVars
    <3> SUFFICES ASSUME NEW s \in Ranks PROVE RankOK(s)'
      BY DEF StoreInv
    <3> QED
      BY <2>1, FrameRank DEF StoreInv, Same, rtVars
  <2>2. CASE Next
    BY <2>2, StoreStep DEF Next
  <2> QED
    BY <2>1, <2>2
<1> QED
  BY <1>1, <1>2, <1>3 DEF IInv, IInvStep

\* The counts of the invariant are remaining_uses_.
LEMMA CountsHold ==
  ASSUME RuntimeInv
  PROVE  UsesExact
BY DEF RuntimeInv, StoreInv, RankOK, CountsExact, UsesExact, OpenUses, OpenAt

\* Its entries are those of store_.
LEMMA StoreHolds ==
  ASSUME RuntimeInv
  PROVE  StoreExact
<1> SUFFICES ASSUME IInv, StoreInv, NEW r \in Ranks, Bound(r), NEW v \in ValueIds
             PROVE
               /\ store[r][v].state # "Absent" <=>
                    /\ Born(r, v)
                    /\ Retain(r) \/ OpenUses(r, v) # {} \/ UseSites(PlanOf(r), r, v) = {}
               /\ store[r][v].state = "Pending" => InFlight(r, v, store[r][v].group)
               /\ store[r][v].state = "Ready" => \A i \in OpenGroups(r) : ~InFlight(r, v, i)
               /\ store[r][v].state # "Absent" => store[r][v].place = Desc(PlanOf(r), v).place
  BY DEF StoreExact, RuntimeInv
<1>1. EntryOK(PlanOf(r), r, v, Retain(r), pc[r], completed[r], store[r][v])
  BY DEF StoreInv, RankOK, EntriesExact
<1>2. /\ OpenUses(r, v) = OpenAt(PlanOf(r), r, v, pc[r], completed[r])
      /\ Born(r, v) <=> BornAt(PlanOf(r), r, v, pc[r])
      /\ \A i : InFlight(r, v, i) <=> FlightAt(PlanOf(r), r, v, pc[r], completed[r], i)
  BY DEF OpenUses, OpenAt, Born, BornAt, InFlight, FlightAt, OpenGroups, Posted
<1>3. \A i \in OpenGroups(r) : i \in DOMAIN PlanOf(r).code
  BY DEF OpenGroups, Posted, Comms
<1> QED
  BY <1>1, <1>2, <1>3 DEF EntryOK

\* And with every group finished they are what make_artifact collects.
LEMMA ArtifactHolds ==
  ASSUME RuntimeInv
  PROVE  ArtifactComplete
<1> SUFFICES ASSUME IInv, StoreInv, NEW r \in Ranks, stage[r] = "done"
             PROVE
               /\ completed[r] = Comms(PlanOf(r))
               /\ \A j \in LocalFinals(PlanOf(r), r) : FinalReady(r, j)
               /\ \A v \in ValueIds :
                    LET kept == store[r][v].state = "Ready" IN
                    IF Retain(r) THEN kept <=> Born(r, v)
                    ELSE kept => \/ UseSites(PlanOf(r), r, v) = {}
                                 \/ \E j \in LocalFinals(PlanOf(r), r) : PlanOf(r).final[j] = v
  BY DEF ArtifactComplete, RuntimeInv
<1> DEFINE p == PlanOf(r)
<1>1. RankOK(r) /\ Bound(r) /\ PlanOK(p) /\ Retain(r) \in BOOLEAN
  BY RankPlan DEF StoreInv, Bound, Counted, IInv
<1>2. pc[r] = FinalSite(p) /\ OpenGroups(r) = {}
  BY <1>1 DEF RankOK, PcInPlan, FinalSite
<1>3. completed[r] = Comms(p)
  <2>1. \A i \in Comms(p) : i < pc[r]
    BY <1>1, <1>2, PlanShape DEF FinalSite
  <2> QED
    BY <1>2, <2>1 DEF IInv, GroupsKnown, OpenGroups, Posted
<1>4. \A j \in LocalFinals(p, r) : FinalReady(r, j)
  BY <1>1, FinalsReady
<1>5. ASSUME NEW v \in ValueIds
      PROVE  /\ Retain(r) => (store[r][v].state = "Ready" <=> Born(r, v))
             /\ ~Retain(r) /\ store[r][v].state = "Ready" =>
                  \/ UseSites(p, r, v) = {}
                  \/ \E j \in LocalFinals(p, r) : p.final[j] = v
  <2>1. EntryOK(p, r, v, Retain(r), pc[r], completed[r], store[r][v])
    BY <1>1 DEF RankOK, EntriesExact
  <2>2. Born(r, v) <=> BornAt(p, r, v, pc[r])
    BY DEF Born, BornAt
  <2>3. store[r][v].state # "Pending"
    BY <1>2, <2>1 DEF EntryOK, FlightAt, OpenGroups, Posted
  <2>4. store[r][v].state \in EntryStates
    BY DEF IInv, TypeOK, Entries
  <2>5. Retain(r) => (store[r][v].state = "Ready" <=> Born(r, v))
    BY <2>1, <2>2, <2>3, <2>4 DEF EntryOK, EntryStates
  <2>6. ASSUME ~Retain(r), store[r][v].state = "Ready", UseSites(p, r, v) # {}
        PROVE  \E j \in LocalFinals(p, r) : p.final[j] = v
    <3>1. PICK s \in OpenAt(p, r, v, pc[r], completed[r]) : TRUE
      BY <2>1, <2>6 DEF EntryOK
    <3>2. s \in UseSites(p, r, v) /\ s[1] \notin Comms(p) /\ s[1] >= FinalSite(p)
      BY <1>2, <1>3, <3>1 DEF OpenAt
    <3>3. ~(s[1] \in DOMAIN p.code)
      BY <1>1, <3>2, PlanShape DEF FinalSite
    <3> QED
      BY <1>1, <3>2, <3>3, SiteForm
  <2> QED
    BY <2>5, <2>6
<1> QED
  BY <1>3, <1>4, <1>5

\* The store, the counts and the groups of every rank agree at every moment.
THEOREM StoreInvariant == Spec => []RuntimeInv
<1>1. Init => RuntimeInv
  BY RuntimeInit
<1>2. RuntimeInv /\ [Next]_rtVars => RuntimeInv'
  BY RuntimeKept
<1> QED
  BY <1>1, <1>2, PTL DEF Spec

\* The throw sites of the runtime's own bookkeeping are dead code for every
\* verified plan and every Api: ValueStore, ensure_ready, release_after_use.
THEOREM BookkeepingNeverThrows == Spec => []NoStoreError
<1>1. RuntimeInv => NoStoreError
  BY DEF RuntimeInv, StoreInv, RankOK, NoStoreError
<1> QED
  BY <1>1, StoreInvariant, PTL

\* remaining_uses_ is the number of uses still to come.
THEOREM CountsAreExact == Spec => []UsesExact
<1>1. RuntimeInv => UsesExact
  BY CountsHold
<1> QED
  BY <1>1, StoreInvariant, PTL

\* A value is in store_ exactly from its definition to its last use, pending
\* exactly while its group is open, at the place of its descriptor.
THEOREM StoreIsExact == Spec => []StoreExact
<1>1. RuntimeInv => StoreExact
  BY StoreHolds
<1> QED
  BY <1>1, StoreInvariant, PTL

\* A run that returns has waited for every group and returns what its mode
\* promises (finish_all_groups, make_artifact).
THEOREM ArtifactsComplete == Spec => []ArtifactComplete
<1>1. RuntimeInv => ArtifactComplete
  BY ArtifactHolds
<1> QED
  BY <1>1, StoreInvariant, PTL

\* Values are assigned once within a run: a released value does not come back,
\* and a ready one is never replaced by another.
THEOREM ValuesAssignedOnce == Spec => SingleAssignment
<1> DEFINE Once ==
      \A r \in Ranks : Bound(r) /\ runs'[r] = runs[r] =>
        \A v \in ValueIds :
          /\ Born(r, v) /\ store[r][v].state = "Absent" => store'[r][v].state = "Absent"
          /\ store[r][v].state = "Ready" =>
               store'[r][v].state = "Absent" \/ store'[r][v] = store[r][v]
<1>1. RuntimeInv /\ Next => Once
  <2> SUFFICES ASSUME IInv, StoreInv, NEW q \in Ranks, Step(q), NEW r \in Ranks, Bound(r),
                      runs'[r] = runs[r], NEW v \in ValueIds,
                      store[r][v].state = "Ready" \/ (Born(r, v) /\ store[r][v].state = "Absent")
               PROVE  store'[r][v] \in {Absent, store[r][v]}
    BY DEF Next, Absent, RuntimeInv
  <2>1. CASE q # r
    BY <2>1, OthersSame DEF Same
  <2>2. CASE q = r
    BY <2>2, NothingRedefined DEF StoreInv
  <2> QED
    BY <2>1, <2>2
<1> QED
  BY <1>1, StoreInvariant, PTL DEF Spec, SingleAssignment
=============================================================================
