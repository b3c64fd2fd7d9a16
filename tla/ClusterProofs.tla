---------------------------- MODULE ClusterProofs ----------------------------
(***************************************************************************)
(* What the proofs about the two clusters share: the steps a rank takes    *)
(* without its Api are steps of SequentialRuntime, what they leave alone,  *)
(* and that a ready value has contents.                                    *)
(***************************************************************************)
EXTENDS ClusterValues, SequentialRuntimeProofs

\* A ready value has contents.
DataOK ==
  \A r \in Ranks : \A v \in ValueIds :
    store[r][v].state = "Ready" => store[r][v].data \in Data

\* What a rank was called with, and the positions of its plan.
LEMMA CallTyped ==
  ASSUME ArgsOK, NEW r \in Ranks
  PROVE  /\ arg[r].plan \in DOMAIN Plans /\ arg[r].skip \in BOOLEAN
         /\ Brought(r) \in Requests
         /\ DOMAIN PlanOf(r).code \subseteq Positions
<1>1. arg[r] \in Args[r]
  BY DEF ArgsOK
<1>2. arg[r].plan \in DOMAIN Plans /\ arg[r].skip \in BOOLEAN
  BY <1>1, ConstantsOK
<1> QED
  BY <1>2 DEF Brought, Requests, PlanOf, Positions

\* The contents a step of a rank writes come from Data, whoever supplies them
\* (execute_encode, execute_compute, bind_inputs, finish_group).
LEMMA DataKept ==
  ASSUME RuntimeInv, DataOK, [Next]_rtVars
  PROVE  DataOK'
<1> USE DEF RuntimeInv, IInv
<1> SUFFICES ASSUME NEW s \in Ranks, NEW v \in ValueIds, store'[s][v].state = "Ready"
             PROVE  store'[s][v].data \in Data
  BY DEF DataOK
<1>1. CASE store'[s][v] = store[s][v]
  BY <1>1 DEF DataOK
<1>2. CASE store'[s][v] # store[s][v]
  <2>1. Step(s)
    <3>1. ~UNCHANGED rtVars
      BY <1>2 DEF rtVars
    <3>2. PICK r \in Ranks : Step(r)
      BY <3>1 DEF Next
    <3>3. r = s
      BY <1>2, <3>2, OthersSame DEF Same
    <3> QED
      BY <3>2, <3>3
  <2>2. ASSUME NEW w, Throw(s, w) PROVE FALSE
    BY <1>2, <2>2 DEF Throw
  <2>3. ASSUME NEW i, NEW entry, \A k \in LocalOuts(PlanOf(s), i, s) : entry[k].data \in Data
        PROVE  \/ WithOutputs(s, i, entry)[v] = store[s][v]
               \/ WithOutputs(s, i, entry)[v].data \in Data
    BY <2>3, WithOutputsAt
  <2>4. \A i, q : StoreAfter(s, i, q)[v] \in {Absent, q[v]}
    BY DEF StoreAfter
  <2>5. ASSUME NEW n, NEW u, Execute(s, n, u),
               \/ n[v] = Absent \/ n[v] = store[s][v]
               \/ n[v].state = "Ready" => n[v].data \in Data
        PROVE  store'[s][v].data \in Data
    <3>1. store'[s] = n
      BY <2>2, <2>5 DEF Execute, TypeOK
    <3> QED
      BY <1>2, <2>5, <3>1 DEF Absent
  <2>6. CASE Start(s)
    BY <2>6 DEF Start, TypeOK, Absent
  <2>7. CASE \E content \in [ValueIds -> Data] : BindInputs(s, content)
    <3> PICK content \in [ValueIds -> Data] : BindInputs(s, content)
      BY <2>7
    <3>1. store'[s][v] = IF v \in LocalExternals(PlanOf(s), s)
                         THEN Ready(Desc(PlanOf(s), v).place, content[v]) ELSE store[s][v]
      BY <2>2 DEF BindInputs, TypeOK
    <3> QED
      BY <1>2, <3>1 DEF Ready
  <2>8. CASE Skip(s)
    BY <2>5, <2>8 DEF Skip
  <2>9. CASE PostComm(s)
    <3> DEFINE entry == [k \in Outs(s) |-> Pending(Instr(s).destinations[k], pc[s])]
               n == Defined(s, entry)
    <3>1. Execute(s, n, uses[s])
      BY <2>9 DEF PostComm
    <3>2. \A k \in Outs(s) : entry[k].state # "Ready"
      BY DEF Pending
    <3> HIDE DEF entry
    <3>3. n[v] = store[s][v] \/ n[v].state # "Ready"
      BY <3>2, WithOutputsAt DEF Defined, Outs
    <3> HIDE DEF n
    <3> QED
      BY <2>5, <3>1, <3>3
  <2>10. CASE \E data \in Data : ExecuteEncode(s, data) \/ ExecuteCompute(s, data)
    <3>1. PICK data \in Data : ExecuteEncode(s, data) \/ ExecuteCompute(s, data)
      BY <2>10
    <3>2. CASE ExecuteEncode(s, data)
      <4> DEFINE entry == [k \in Outs(s) |-> Ready(OutPlace(PlanOf(s), pc[s], k), data)]
                 n == Defined(s, entry)
      <4>1. Execute(s, n, uses[s])
        BY <3>2 DEF ExecuteEncode
      <4>2. \A k \in LocalOuts(PlanOf(s), pc[s], s) : entry[k].data \in Data
        BY DEF Ready, Outs
      <4> HIDE DEF entry
      <4>3. n[v] = store[s][v] \/ n[v].data \in Data
        BY <2>3, <4>2 DEF Defined
      <4> HIDE DEF n
      <4> QED
        BY <2>5, <4>1, <4>3
    <3>3. CASE ExecuteCompute(s, data)
      <4> DEFINE entry == [k \in Outs(s) |-> Ready(Instr(s).place, data)]
                 n == Defined(s, entry)
                 m == StoreAfter(s, pc[s], n)
      <4>1. Execute(s, m, UsesAfter(s, pc[s]))
        BY <3>3 DEF ExecuteCompute
      <4>2. \A k \in LocalOuts(PlanOf(s), pc[s], s) : entry[k].data \in Data
        BY DEF Ready, Outs
      <4> HIDE DEF entry
      <4>3. n[v] = store[s][v] \/ n[v].data \in Data
        BY <2>3, <4>2 DEF Defined
      <4> HIDE DEF n
      <4>4. m[v] \in {Absent, n[v]}
        BY <2>4
      <4> HIDE DEF m
      <4> QED
        BY <2>5, <4>1, <4>3, <4>4
    <3> QED
      BY <3>1, <3>2, <3>3
  <2>11. CASE \E content \in [ValueIds -> Data] : FinishGroup(s, content)
    <3> PICK content \in [ValueIds -> Data] : FinishGroup(s, content)
      BY <2>11
    <3> DEFINE entry == [k \in GroupOuts(s) |-> Ready(Desc(PlanOf(s), GroupOut(s, k)).place,
                                                      content[GroupOut(s, k)])]
               n == WithOutputs(s, waiting[s], entry)
    <3>1. store'[s] = StoreAfter(s, waiting[s], n)
      BY <2>2 DEF FinishGroup, TypeOK
    <3>2. \A k \in GroupOuts(s) : GroupOut(s, k) \in ValueIds
      <4>1. waiting[s] \in OpenGroups(s) /\ Counted(s)
        BY DEF FinishGroup, InWait, GroupsKnown, Counted
      <4>2. waiting[s] \in DOMAIN PlanOf(s).code
        BY <4>1, OpenGroupAt
      <4> QED
        BY <4>1, <4>2, RankPlan, PlacesAgree DEF GroupOuts, GroupOut, LocalOuts
    <3>3. \A k \in LocalOuts(PlanOf(s), waiting[s], s) : entry[k].data \in Data
      BY <3>2 DEF Ready, GroupOuts
    <3> HIDE DEF entry
    <3>4. n[v] = store[s][v] \/ n[v].data \in Data
      BY <2>3, <3>3
    <3> HIDE DEF n
    <3>5. store'[s][v] \in {Absent, n[v]}
      BY <2>4, <3>1
    <3> QED
      BY <1>2, <3>4, <3>5 DEF Absent
  <2>12. CASE Setup(s) \/ PreflightReturns(s) \/ AwaitOperand(s) \/ AwaitOldest(s) \/ Drained(s) \/ Panic(s)
    BY <1>2, <2>12 DEF Setup, PreflightReturns, AwaitOperand, AwaitOldest, Drained, Panic
  <2>13. CASE RefusePlan(s) \/ RefuseInputs(s) \/ ApiThrows(s) \/ PublishArtifact(s)
    BY <1>2, <2>2, <2>13 DEF RefusePlan, RefuseInputs, ApiThrows, PublishArtifact
  <2> QED
    BY <2>1, <2>6, <2>7, <2>8, <2>9, <2>10, <2>11, <2>12, <2>13 DEF Step
<1> QED
  BY <1>1, <1>2

\* What a rank does without its Api is a step of its runtime, whose executor
\* returns contents (execute_encode and execute_compute over VecExecutor).
LEMMA LocalIsStep ==
  ASSUME RuntimeInv, NEW r \in Ranks, RuntimeStep(r)
  PROVE  Step(r)
<1> USE DEF RuntimeInv, IInv
<1>1. [v \in ValueIds |-> v] \in [ValueIds -> Data]
  BY ClusterConstantsOK
<1>2. ASSUME Running(r), Instr(r).op # "Comm"
      PROVE  Instr(r).outputs[1] \in ValueIds
  <2>1. pc[r] \in DOMAIN PlanOf(r).code /\ PlanOK(PlanOf(r))
    BY <1>2, CurrentAt
  <2> QED
    BY <1>2, <2>1, PlanShape, PlacesAgree DEF Instr
<1>3. ASSUME Running(r), Instr(r).op # "Comm"
      PROVE  Instr(r).outputs[1] \in Data /\ Result(r, Instr(r).outputs[1]) \in Data
  BY <1>2, <1>3, ClusterConstantsOK DEF Result
<1>4. CASE ExecuteEncode(r, Instr(r).outputs[1])
  BY <1>3, <1>4 DEF Step, ExecuteEncode
<1>5. CASE ExecuteCompute(r, Result(r, Instr(r).outputs[1]))
  <2>1. Running(r) /\ Instr(r).op = "Compute"
    BY <1>5 DEF ExecuteCompute
  <2>2. PICK data \in Data : data = Result(r, Instr(r).outputs[1])
    BY <1>3, <2>1
  <2>3. ExecuteCompute(r, data)
    BY <1>5, <2>2
  <2> QED
    BY <2>3 DEF Step
<1>6. CASE BindInputs(r, [v \in ValueIds |-> v])
  BY <1>1, <1>6 DEF Step
<1> QED
  BY <1>4, <1>5, <1>6 DEF RuntimeStep, Step

\* And what such a step leaves alone: the call, the completed groups and, but
\* for the start of a wait, `waiting`; current_ moves past no communication.
LEMMA LocalEffect ==
  ASSUME RuntimeInv, NEW r \in Ranks, RuntimeStep(r)
  PROVE  /\ arg'[r] = arg[r] /\ runs'[r] = runs[r] /\ completed'[r] = completed[r]
         /\ stage[r] \in {"setup", "bind", "init", "exec", "sync"}
         /\ PastPreflight(r)' => PastPreflight(r)
         /\ ~InWait(r)
         /\ \/ waiting'[r] = waiting[r]
            \/ waiting[r] = 0 /\ stage'[r] = stage[r] /\ stage[r] \in {"init", "exec"}
         /\ \/ pc'[r] = pc[r] /\ (Bound(r)' => Bound(r))
            \/ pc'[r] = pc[r] /\ pc[r] = 1 /\ completed[r] = {}
            \/ /\ pc'[r] = pc[r] + 1 /\ stage'[r] = stage[r] /\ Running(r)
               /\ pc[r] \in Nat /\ pc[r] \notin Comms(PlanOf(r))
<1> USE DEF RuntimeInv, IInv
<1>1. CASE RefusePlan(r) \/ RefuseInputs(r)
  BY <1>1 DEF RefusePlan, RefuseInputs, Throw, TypeOK, Bound, InWait, PastPreflight
<1>2. CASE Setup(r)
  BY <1>2 DEF Setup, TypeOK, Bound, InWait, PastPreflight
<1>3. CASE BindInputs(r, [v \in ValueIds |-> v])
  <2>1. stage[r] = "bind" /\ pc[r] = 1 /\ completed[r] = {} /\ ~InWait(r)
    BY <1>3 DEF BindInputs, InWait, StoreInv, RankOK, Untouched
  <2>2. /\ stage'[r] \in {"init", "aborting"}
        /\ UNCHANGED <<arg, runs, pc, completed, waiting>>
    BY <1>3 DEF BindInputs, Throw, TypeOK
  <2> QED
    BY <2>1, <2>2 DEF PastPreflight
<1>4. ASSUME NEW s, NEW u, Running(r), Instr(r).op # "Comm", Execute(r, s, u)
      PROVE  /\ UNCHANGED <<arg, runs, completed, waiting, stage>>
             /\ pc'[r] = pc[r] + 1 /\ pc[r] \in Nat /\ pc[r] \notin Comms(PlanOf(r))
             /\ ~InWait(r) /\ stage[r] \in {"init", "exec"}
  BY <1>4, NoInstructionFault DEF Execute, TypeOK, Running, InWait, Comms, Instr, StoreInv
<1>5. CASE \/ Skip(r) \/ ExecuteEncode(r, Instr(r).outputs[1])
           \/ ExecuteCompute(r, Result(r, Instr(r).outputs[1]))
  <2>1. Running(r) /\ Instr(r).op # "Comm" /\ \E s, u : Execute(r, s, u)
    BY <1>5 DEF Skip, ExecuteEncode, ExecuteCompute
  <2>2. /\ UNCHANGED <<arg, runs, completed, waiting, stage>>
        /\ pc'[r] = pc[r] + 1 /\ pc[r] \in Nat /\ pc[r] \notin Comms(PlanOf(r))
        /\ ~InWait(r) /\ stage[r] \in {"init", "exec"}
    BY <1>4, <2>1
  <2> QED
    BY <2>1, <2>2 DEF PastPreflight
<1>6. CASE AwaitOperand(r) \/ AwaitOldest(r)
  BY <1>6 DEF AwaitOperand, AwaitOldest, Running, Draining, TypeOK, Bound, InWait, PastPreflight
<1>7. CASE Drained(r)
  BY <1>7 DEF Drained, Draining, TypeOK, Bound, InWait, PastPreflight
<1>8. CASE PublishArtifact(r)
  <2>1. stage[r] = "sync" /\ stage'[r] \in {"done", "aborting"}
        /\ UNCHANGED <<arg, runs, pc, completed, waiting>>
    BY <1>8 DEF PublishArtifact, Throw, TypeOK
  <2> QED
    BY <2>1 DEF Bound, InWait, PastPreflight
<1> QED
  BY <1>1, <1>2, <1>3, <1>5, <1>6, <1>7, <1>8 DEF RuntimeStep

\* communicate_async on the source is handed a ready operand.
LEMMA SourceReady ==
  ASSUME RuntimeInv, NEW r \in Ranks, Running(r), Instr(r).op = "Comm", ~Blocked(r),
         SourceIsLocal(r, pc[r])
  PROVE  InEntry(r, 1).state = "Ready" /\ Instr(r).inputs[1] \in ValueIds
<1> USE DEF RuntimeInv, IInv
<1>1. pc[r] \in DOMAIN PlanOf(r).code /\ PlanOK(PlanOf(r))
  BY CurrentAt
<1>2. InstructionFault(r) = "none"
  BY NoInstructionFault DEF StoreInv
<1>3. 1 \in Ins(r)
  BY <1>1, PlanShape DEF Ins, LocalIns, InPlace, SourceIsLocal, Instr
<1>4. InEntry(r, 1).state = "Ready"
  BY <1>2, <1>3 DEF InstructionFault, Blocked, Unready
<1> QED
  BY <1>1, <1>3, <1>4, OperandBorn DEF Ins, Instr

\* So the posting of a communication sends what is there.
LEMMA PostReady ==
  ASSUME RuntimeInv, NEW r \in Ranks, PostComm(r), SourceIsLocal(r, pc[r])
  PROVE  InEntry(r, 1).state = "Ready" /\ Instr(r).inputs[1] \in ValueIds
<1>1. Running(r) /\ Instr(r).op = "Comm" /\ ~Blocked(r)
  BY DEF PostComm, Execute
<1> QED
  BY <1>1, SourceReady

\* communicate_async and the runtime's half of execute_communication always go
\* through: current_ moves past the communication, whose operand was ready.
LEMMA PostEffect ==
  ASSUME RuntimeInv, DataOK, NEW r \in Ranks, PostComm(r)
  PROVE  /\ UNCHANGED <<arg, runs, stage, completed, waiting, error>>
         /\ pc[r] \in Comms(PlanOf(r)) /\ pc[r] \in Nat /\ pc'[r] = pc[r] + 1
         /\ pc' = [pc EXCEPT ![r] = pc[r] + 1]
         /\ waiting[r] = 0 /\ stage[r] \in {"init", "exec"} /\ Bound(r)
         /\ SourceIsLocal(r, pc[r]) => InEntry(r, 1).data \in Data
<1> USE DEF RuntimeInv, IInv
<1> DEFINE p == PlanOf(r)
<1>1. Running(r) /\ Instr(r).op = "Comm" /\ RankOK(r)
  BY DEF PostComm, StoreInv
<1>2. pc[r] \in DOMAIN p.code /\ pc[r] \in Nat /\ PlanOK(p) /\ Bound(r)
  BY <1>1, CurrentAt
<1>3. InstructionFault(r) = "none"
  BY <1>1, NoInstructionFault
<1>4. \E s, u : Execute(r, s, u)
  BY DEF PostComm
<1>5. /\ UNCHANGED <<arg, runs, stage, completed, waiting, error>>
      /\ pc' = [pc EXCEPT ![r] = pc[r] + 1] /\ ~Blocked(r)
  BY <1>3, <1>4 DEF Execute, TypeOK
<1>6. ASSUME SourceIsLocal(r, pc[r]) PROVE InEntry(r, 1).data \in Data
  BY <1>6, PostReady DEF InEntry, DataOK
<1> QED
  BY <1>1, <1>2, <1>5, <1>6 DEF Comms, Instr, Running, TypeOK

\* finish_group after the wait always goes through.
LEMMA FinishEffect ==
  ASSUME RuntimeInv, NEW r \in Ranks, NEW content, FinishGroup(r, content)
  PROVE  /\ UNCHANGED <<arg, runs, stage, pc, error>>
         /\ waiting' = [waiting EXCEPT ![r] = 0]
         /\ completed' = [completed EXCEPT ![r] = @ \cup {waiting[r]}]
         /\ InWait(r) /\ Bound(r) /\ waiting[r] \in OpenGroups(r)
<1>1. InWait(r) /\ Bound(r) /\ waiting[r] \in OpenGroups(r) /\ RankOK(r)
  BY DEF FinishGroup, InWait, Bound, GroupsKnown, RuntimeInv, IInv, StoreInv
<1> QED
  BY <1>1, NoGroupFault DEF FinishGroup, RuntimeInv

\* A communication of a verified plan has one operand, taken from where it is,
\* and at least one output (struct CommAction, verify_communication).
LEMMA CommShape ==
  ASSUME NEW p, PlanOK(p), NEW i \in Comms(p)
  PROVE  /\ i \in DOMAIN p.code /\ i \in Nat /\ i # 0 /\ p.code[i].op = "Comm"
         /\ p.code[i].id \in Nat
         /\ DOMAIN p.code[i].inputs = {1} /\ p.code[i].inputs[1] \in ValueIds
         /\ Len(p.code[i].outputs) \in Nat \ {0}
         /\ DOMAIN p.code[i].outputs = 1 .. Len(p.code[i].outputs)
         /\ \A k \in DOMAIN p.code[i].outputs :
              p.code[i].destinations[k].rank \in 0 .. p.world_size - 1
         /\ p.code[i].sources[1].rank \in 0 .. p.world_size - 1
<1>1. i \in DOMAIN p.code /\ i \in Nat /\ i # 0 /\ p.code[i].op = "Comm"
  BY PlanShape DEF Comms
<1>2. p.code[i] \in Instructions(ValueIds)
  BY <1>1, InstructionTyped DEF PlanOK
<1>3. p.code[i].id \in Nat /\ p.code[i].outputs \in Seq(ValueIds)
  BY <1>2 DEF Instructions
<1>4. CommOk(p, i) /\ DOMAIN p.code[i].inputs = {1} /\ p.code[i].inputs \in Seq(ValueIds)
  BY <1>1, PlanShape DEF InstructionOk
<1>5. Len(p.code[i].outputs) # 0
  BY <1>1, <1>4 DEF CommOk, PlanOK, IsPlan, CommKinds
<1>6. p.code[i].inputs[1] \in ValueIds
  BY <1>4
<1>7. /\ \A k \in DOMAIN p.code[i].outputs :
           p.code[i].destinations[k].rank \in 0 .. p.world_size - 1
      /\ p.code[i].sources[1].rank \in 0 .. p.world_size - 1
  BY <1>4 DEF CommOk, DestinationsOk, PlaceExists
<1> QED
  BY <1>1, <1>3, <1>4, <1>5, <1>6, <1>7


-----------------------------------------------------------------------------
(***************************************************************************)
(* What a value should contain.  Sources is a recursive function: that one *)
(* exists is shown on its least counterexample, and so is what it computes.*)
(***************************************************************************)
\* A nonempty set of naturals has a least element.
LEMMA LeastNat ==
  ASSUME NEW S, S \subseteq Nat, S # {}
  PROVE  \E m \in S : \A y \in S : m <= y
<1>1. \E x \in S : \A y \in S : ~ (<<y, x>> \in OpToRel(<, Nat))
  BY NatLessThanWellFounded, WFMin
<1>2. PICK x \in S : \A y \in S : ~ (y < x)
  BY <1>1 DEF OpToRel
<1> QED
  BY <1>2

\* The equation that defines Sources, up to instruction n.
SourcesTo(p, n, s) ==
  s = [m \in 0 .. n |-> IF m = 0 THEN [v \in ValueIds |-> v] ELSE Carried(p, m, s[m - 1])]

\* The equation has a solution, so Sources(p) is one.
LEMMA SourcesDefined ==
  ASSUME NEW p, Len(p.code) \in Nat
  PROVE  SourcesTo(p, Len(p.code), Sources(p))
<1> DEFINE bad == {n \in Nat : ~\E s : SourcesTo(p, n, s)}
<1>1. ASSUME bad # {} PROVE FALSE
  <2>1. PICK m \in bad : \A y \in bad : m <= y
    BY <1>1, LeastNat
  <2>2. m \in Nat
    OBVIOUS
  <2>3. CASE m = 0
    <3> DEFINE t == [j \in 0 .. 0 |-> [v \in ValueIds |-> v]]
    <3>1. SourcesTo(p, 0, t)
      BY DEF SourcesTo
    <3> QED
      BY <2>3, <3>1
  <2>4. CASE m # 0
    <3>1. m - 1 \in Nat /\ m - 1 \notin bad
      <4>1. m - 1 \in Nat /\ ~(m <= m - 1)
        BY <2>2, <2>4
      <4> QED
        BY <2>1, <4>1
    <3>2. PICK s : SourcesTo(p, m - 1, s)
      BY <3>1
    <3> DEFINE t == [j \in 0 .. m |-> IF j = m THEN Carried(p, m, s[m - 1]) ELSE s[j]]
    <3>3. ASSUME NEW j \in 0 .. m
          PROVE  t[j] = IF j = 0 THEN [v \in ValueIds |-> v] ELSE Carried(p, j, t[j - 1])
      <4>1. CASE j = m
        <5>1. t[j - 1] = s[m - 1] /\ t[j] = Carried(p, m, s[m - 1])
          BY <2>2, <2>4, <4>1
        <5> QED
          BY <2>4, <4>1, <5>1
      <4>2. CASE j # m
        <5>1. j \in 0 .. m - 1 /\ t[j] = s[j] /\ (j # 0 => t[j - 1] = s[j - 1])
          BY <2>2, <4>2
        <5> HIDE DEF t
        <5>2. s[j] = IF j = 0 THEN [v \in ValueIds |-> v] ELSE Carried(p, j, s[j - 1])
          BY <3>2, <5>1 DEF SourcesTo
        <5> QED
          BY <5>1, <5>2
      <4> QED
        BY <4>1, <4>2
    <3>4. DOMAIN t = 0 .. m /\ t = [j \in DOMAIN t |-> t[j]]
      OBVIOUS
    <3> HIDE DEF t
    <3>5. SourcesTo(p, m, t)
      BY <3>3, <3>4 DEF SourcesTo
    <3> QED
      BY <2>1, <3>5
  <2> QED
    BY <2>3, <2>4
<1>2. \E s : SourcesTo(p, Len(p.code), s)
  BY <1>1
<1>3. Sources(p) = CHOOSE s : SourcesTo(p, Len(p.code), s)
  BY DEF Sources, SourcesTo
<1> QED
  BY <1>2, <1>3

\* What Sources computes at each instruction.
LEMMA SourcesAt ==
  ASSUME NEW p, PlanOK(p)
  PROVE  /\ \A v \in ValueIds : Sources(p)[0][v] = v
         /\ \A n \in DOMAIN p.code : \A v \in ValueIds :
              Sources(p)[n][v] = Sources(p)[n - 1][IF n \in Carrier(p, v)
                                                   THEN p.code[n].inputs[1] ELSE v]
<1>1. Len(p.code) \in Nat /\ DOMAIN p.code = 1 .. Len(p.code)
  BY PlanShape
<1>2. Sources(p) = [m \in 0 .. Len(p.code) |-> IF m = 0 THEN [v \in ValueIds |-> v]
                                               ELSE Carried(p, m, Sources(p)[m - 1])]
  BY <1>1, SourcesDefined DEF SourcesTo
<1>3. Sources(p)[0] = [v \in ValueIds |-> v]
  BY <1>1, <1>2
<1>4. ASSUME NEW n \in DOMAIN p.code PROVE Sources(p)[n] = Carried(p, n, Sources(p)[n - 1])
  <2>1. n \in 0 .. Len(p.code) /\ n # 0
    BY <1>1
  <2> QED
    BY <1>2, <2>1
<1>5. ASSUME NEW n, NEW before, NEW v \in ValueIds
      PROVE  Carried(p, n, before)[v] = before[IF n \in Carrier(p, v) THEN p.code[n].inputs[1] ELSE v]
  BY DEF Carried
<1>6. \A v \in ValueIds : Sources(p)[0][v] = v
  BY <1>3
<1> QED
  BY <1>4, <1>5, <1>6

\* What a value should contain is settled once no communication carries it any
\* more.
LEMMA SourcesSettled ==
  ASSUME NEW p, PlanOK(p), NEW v \in ValueIds, NEW m \in 0 .. Len(p.code),
         \A j \in Carrier(p, v) : j <= m
  PROVE  \A n \in m .. Len(p.code) : Sources(p)[n][v] = Sources(p)[m][v]
<1> DEFINE bad == {n \in Nat : n \in m .. Len(p.code) /\ Sources(p)[n][v] # Sources(p)[m][v]}
<1>1. Len(p.code) \in Nat /\ DOMAIN p.code = 1 .. Len(p.code) /\ m \in Nat
  BY PlanShape
<1>2. ASSUME bad # {} PROVE FALSE
  <2>1. PICK n \in bad : \A y \in bad : n <= y
    BY <1>2, LeastNat
  <2>2. n \in Nat /\ n \in m .. Len(p.code) /\ Sources(p)[n][v] # Sources(p)[m][v]
    OBVIOUS
  <2>3. n # m
    BY <2>2
  <2>4. n - 1 \in Nat /\ n - 1 \in m .. Len(p.code) /\ n \in DOMAIN p.code /\ ~(n <= n - 1) /\ ~(n <= m)
    BY <1>1, <2>2, <2>3
  <2>5. n \notin Carrier(p, v)
    BY <2>4
  <2>6. Sources(p)[n][v] = Sources(p)[n - 1][v]
    BY <2>4, <2>5, SourcesAt
  <2>7. Sources(p)[n - 1][v] = Sources(p)[m][v]
    BY <2>1, <2>4
  <2> QED
    BY <2>2, <2>6, <2>7
<1> QED
  BY <1>1, <1>2

\* The contents a verified plan asks for: of an external input, an encoded or a
\* computed value its own, of the output of a communication its operand's.
LEMMA OriginOf ==
  ASSUME NEW p, PlanOK(p)
  PROVE  /\ \A v \in ValueIds : Carrier(p, v) = {} => Origin(p)[v] = v
         /\ \A i \in Comms(p) : \A k \in DOMAIN p.code[i].outputs :
              Origin(p)[p.code[i].outputs[k]] = Origin(p)[p.code[i].inputs[1]]
<1>1. Len(p.code) \in Nat /\ DOMAIN p.code = 1 .. Len(p.code)
  BY PlanShape
<1>2. ASSUME NEW v \in ValueIds, Carrier(p, v) = {} PROVE Origin(p)[v] = v
  <2>1. \A n \in 0 .. Len(p.code) : Sources(p)[n][v] = Sources(p)[0][v]
    BY <1>1, <1>2, SourcesSettled
  <2> QED
    BY <1>1, <2>1, SourcesAt DEF Origin
<1>3. ASSUME NEW i \in Comms(p), NEW k \in DOMAIN p.code[i].outputs
      PROVE  Origin(p)[p.code[i].outputs[k]] = Origin(p)[p.code[i].inputs[1]]
  <2> DEFINE out == p.code[i].outputs[k]
             in == p.code[i].inputs[1]
  <2>1. /\ i \in DOMAIN p.code /\ i \in Nat /\ i # 0
        /\ 1 \in DOMAIN p.code[i].inputs /\ in \in ValueIds
    BY CommShape
  <2>2. out \in ValueIds /\ in \in DefinedBy(p, i - 1)
    BY <2>1, PlacesAgree
  <2>3. \A j \in Carrier(p, out) : j = i
    BY <2>1, OutputUnique DEF Carrier, Comms
  <2>4. i \in Carrier(p, out)
    BY DEF Carrier
  <2>5. ASSUME NEW j \in Carrier(p, in) PROVE j <= i - 1
    <3>1. PICK l \in DOMAIN p.code[j].outputs : p.code[j].outputs[l] = in
      BY DEF Carrier
    <3>2. j \in DOMAIN p.code /\ j \in Nat
      BY <1>1 DEF Carrier, Comms
    <3>3. CASE \E a \in DOMAIN p.external : p.external[a] = in
      BY <3>1, <3>2, <3>3, OutputUnique
    <3>4. CASE \E a \in DOMAIN p.code : a <= i - 1 /\ \E l2 \in DOMAIN p.code[a].outputs :
                 p.code[a].outputs[l2] = in
      BY <3>1, <3>2, <3>4, OutputUnique
    <3> QED
      BY <2>2, <3>3, <3>4 DEF DefinedBy
  <2> HIDE DEF out, in
  <2>6. Sources(p)[i][out] = Sources(p)[i - 1][in]
    BY <2>1, <2>2, <2>4, SourcesAt DEF in
  <2>7. Origin(p)[out] = Sources(p)[i][out]
    <3>1. i \in 0 .. Len(p.code) /\ Len(p.code) \in i .. Len(p.code) /\ i <= i
      BY <1>1, <2>1
    <3>2. \A j \in Carrier(p, out) : j <= i
      BY <2>3, <3>1
    <3>3. \A n \in i .. Len(p.code) : Sources(p)[n][out] = Sources(p)[i][out]
      BY <2>2, <3>1, <3>2, SourcesSettled
    <3> QED
      BY <3>1, <3>3 DEF Origin
  <2>8. Origin(p)[in] = Sources(p)[i - 1][in]
    <3>1. i - 1 \in 0 .. Len(p.code) /\ Len(p.code) \in i - 1 .. Len(p.code)
      BY <1>1, <2>1
    <3>2. PICK m \in 0 .. Len(p.code) : m = i - 1
      BY <3>1
    <3>3. \A n \in m .. Len(p.code) : Sources(p)[n][in] = Sources(p)[m][in]
      BY <2>1, <2>5, <3>2, SourcesSettled DEF in
    <3> QED
      BY <3>1, <3>2, <3>3 DEF Origin
  <2> QED
    BY <2>6, <2>7, <2>8 DEF out, in
<1> QED
  BY <1>2, <1>3


-----------------------------------------------------------------------------
(***************************************************************************)
(* Right values stay right.                                                *)
(***************************************************************************)
\* The value an Encode or a Compute defines, and an external input, is carried
\* by no communication.
LEMMA OwnOrigin ==
  ASSUME NEW p, PlanOK(p)
  PROVE  /\ \A k \in DOMAIN p.external : Origin(p)[p.external[k]] = p.external[k]
         /\ \A i \in DOMAIN p.code : \A k \in DOMAIN p.code[i].outputs :
              i \notin Comms(p) => Origin(p)[p.code[i].outputs[k]] = p.code[i].outputs[k]
<1>1. \A j \in Comms(p) : j \in DOMAIN p.code
  BY DEF Comms
<1>2. ASSUME NEW k \in DOMAIN p.external PROVE Origin(p)[p.external[k]] = p.external[k]
  <2>1. p.external[k] \in ValueIds
    BY DEF PlanOK, IsPlan
  <2>2. \A i \in DOMAIN p.code : \A l \in DOMAIN p.code[i].outputs :
          p.code[i].outputs[l] # p.external[k]
    BY OutputUnique
  <2>3. Carrier(p, p.external[k]) = {}
    BY <1>1, <2>2 DEF Carrier
  <2> QED
    BY <2>1, <2>3, OriginOf
<1>3. ASSUME NEW i \in DOMAIN p.code, NEW k \in DOMAIN p.code[i].outputs, i \notin Comms(p)
      PROVE  Origin(p)[p.code[i].outputs[k]] = p.code[i].outputs[k]
  <2>1. p.code[i].outputs[k] \in ValueIds
    BY PlacesAgree
  <2>2. \A j \in DOMAIN p.code : \A l \in DOMAIN p.code[j].outputs :
          p.code[j].outputs[l] = p.code[i].outputs[k] => j = i
    BY OutputUnique
  <2>3. Carrier(p, p.code[i].outputs[k]) = {}
    BY <1>1, <1>3, <2>2 DEF Carrier
  <2> QED
    BY <2>1, <2>3, OriginOf
<1> QED
  BY <1>2, <1>3

\* The ranks that meet rank r in a run have its plan: preflight compared them, or
\* the deployment saw to it.
OnePlan(r) == ~arg[r].skip \/ OnePlanIfSkipped

\* The store of rank r holds what the plan says it should.
RightValues(r) ==
  Bound(r) /\ OnePlan(r) =>
    \A v \in ValueIds : store[r][v].state = "Ready" =>
      store[r][v].data = Origin(PlanOf(r))[v]

\* execute_compute reads every operand of the computation on its rank, ready.
LEMMA OperandsRead ==
  ASSUME RuntimeInv, NEW r \in Ranks, Running(r), Instr(r).op = "Compute", Outs(r) # {},
         ~Blocked(r), NEW k \in DOMAIN Instr(r).inputs
  PROVE  InEntry(r, k).state = "Ready" /\ Instr(r).inputs[k] \in ValueIds
<1> USE DEF RuntimeInv, IInv
<1>1. pc[r] \in DOMAIN PlanOf(r).code /\ PlanOK(PlanOf(r))
  BY CurrentAt
<1>2. Instr(r).place.rank = r
  BY DEF Outs, LocalOuts, OutPlace, Instr
<1>3. k \in Ins(r)
  BY <1>2 DEF Ins, LocalIns, InPlace, Instr
<1>4. InstructionFault(r) = "none"
  BY NoInstructionFault DEF StoreInv
<1>5. InEntry(r, k).state = "Ready"
  BY <1>3, <1>4 DEF InstructionFault, Blocked, Unready
<1> QED
  BY <1>1, <1>3, <1>5, OperandBorn DEF Ins, Instr

\* A step of the runtime and its executor, the posting of a communication and
\* the end of a group whose contents arrived right keep the store right.
LEMMA ValuesKept ==
  ASSUME RuntimeInv, NEW r \in Ranks, RightValues(r),
         \/ RuntimeStep(r) \/ PostComm(r)
         \/ \E content \in [ValueIds -> Data] :
              /\ FinishGroup(r, content)
              /\ OnePlan(r) => \A k \in GroupOuts(r) :
                   content[GroupOut(r, k)] = Origin(PlanOf(r))[GroupOut(r, k)]
  PROVE  RightValues(r)'
<1> USE DEF RuntimeInv, IInv
<1> DEFINE p == PlanOf(r)
<1>1. /\ arg'[r] = arg[r]
      /\ BindInputs(r, [v \in ValueIds |-> v]) \/ (Bound(r)' => Bound(r))
  <2>1. CASE RuntimeStep(r)
    <3>1. arg'[r] = arg[r]
      BY <2>1, LocalEffect
    <3>2. ASSUME ~BindInputs(r, [v \in ValueIds |-> v]), Bound(r)' PROVE Bound(r)
      <4>1. ASSUME NEW a, NEW b, Execute(r, a, b) PROVE stage'[r] = stage[r] \/ stage'[r] = "aborting"
        BY <4>1 DEF Execute, Throw, TypeOK
      <4>2. ASSUME NEW w, Throw(r, w) PROVE stage'[r] = "aborting"
        BY <4>2 DEF Throw, TypeOK
      <4>3. CASE Setup(r)
        BY <3>2, <4>3 DEF Setup, Bound, TypeOK
      <4>4. CASE RefusePlan(r) \/ RefuseInputs(r)
        BY <3>2, <4>2, <4>4 DEF RefusePlan, RefuseInputs, Bound
      <4>5. CASE Skip(r) \/ ExecuteEncode(r, Instr(r).outputs[1])
                 \/ ExecuteCompute(r, Result(r, Instr(r).outputs[1]))
        BY <3>2, <4>1, <4>5 DEF Skip, ExecuteEncode, ExecuteCompute, Bound
      <4>6. CASE AwaitOperand(r) \/ AwaitOldest(r)
        BY <3>2, <4>6 DEF AwaitOperand, AwaitOldest, Bound
      <4>7. CASE Drained(r)
        BY <4>7 DEF Drained, Draining, Bound
      <4>8. CASE PublishArtifact(r)
        BY <4>8 DEF PublishArtifact, Bound
      <4> QED
        BY <2>1, <3>2, <4>3, <4>4, <4>5, <4>6, <4>7, <4>8 DEF RuntimeStep
    <3> QED
      BY <3>1, <3>2
  <2>2. CASE PostComm(r)
    BY <2>2, CurrentAt DEF PostComm, Execute, Throw
  <2>3. ASSUME NEW content, FinishGroup(r, content) PROVE arg' = arg /\ Bound(r)
    BY <2>3 DEF FinishGroup, InWait, Bound, Throw
  <2> QED
    BY <2>1, <2>2, <2>3
<1> SUFFICES ASSUME Bound(r)', OnePlan(r)', NEW v \in ValueIds, store'[r][v].state = "Ready"
             PROVE  store'[r][v].data = Origin(p)[v]
  BY <1>1 DEF RightValues, PlanOf
<1>2. OnePlan(r)
  BY <1>1 DEF OnePlan
<1>3. CASE BindInputs(r, [u \in ValueIds |-> u])
  <2>1. stage[r] = "bind" /\ store[r][v] = Absent
    BY <1>3 DEF BindInputs, StoreInv, RankOK, Untouched
  <2>2. v \in LocalExternals(p, r) /\ store'[r][v] = Ready(Desc(p, v).place, v)
    BY <1>3, <2>1 DEF BindInputs, Throw, TypeOK, Absent
  <2>3. PlanOK(p)
    BY <2>1, RankPlan DEF Counted
  <2> QED
    BY <2>2, <2>3, OwnOrigin DEF LocalExternals, Ready
<1>4. CASE ~BindInputs(r, [u \in ValueIds |-> u])
  <2>1. Bound(r) /\ PlanOK(p)
    BY <1>1, <1>4, RankPlan DEF Bound, Counted
  <2>2. \A u \in ValueIds : store[r][u].state = "Ready" => store[r][u].data = Origin(p)[u]
    BY <1>2, <2>1 DEF RightValues
  <2>3. CASE store'[r][v] = store[r][v]
    BY <2>2, <2>3
  <2>4. CASE store'[r][v] # store[r][v]
    <3>1. ASSUME NEW w, Throw(r, w) PROVE FALSE
      BY <2>4, <3>1 DEF Throw
    <3>2. ASSUME NEW n, NEW u, Execute(r, n, u) PROVE store'[r] = n /\ ~Blocked(r)
      BY <3>1, <3>2 DEF Execute, TypeOK
    <3>3. ASSUME NEW i, NEW entry
          PROVE  \/ WithOutputs(r, i, entry)[v] = store[r][v]
                 \/ \E k \in LocalOuts(p, i, r) :
                      WithOutputs(r, i, entry)[v] = entry[k] /\ p.code[i].outputs[k] = v
      BY WithOutputsAt
    <3>4. \A i, q : StoreAfter(r, i, q)[v] \in {Absent, q[v]}
      BY DEF StoreAfter
    <3>5. ASSUME Running(r), Instr(r).op # "Comm", NEW k \in Outs(r), Instr(r).outputs[k] = v
          PROVE  Instr(r).outputs[1] = v /\ Origin(p)[v] = v
      <4>1. pc[r] \in DOMAIN p.code
        BY <3>5, CurrentAt
      <4>2. DOMAIN p.code[pc[r]].outputs = {1}
        BY <2>1, <3>5, <4>1, PlanShape DEF Instr
      <4>3. k = 1 /\ 1 \in DOMAIN p.code[pc[r]].outputs
        BY <3>5, <4>2 DEF Outs, LocalOuts
      <4>4. pc[r] \notin Comms(p)
        BY <3>5 DEF Comms, Instr
      <4> QED
        BY <2>1, <3>5, <4>1, <4>3, <4>4, OwnOrigin DEF Instr
    <3>6. CASE Skip(r)
      BY <2>4, <3>2, <3>6 DEF Skip
    <3>7. CASE PostComm(r)
      <4> DEFINE entry == [k \in Outs(r) |-> Pending(Instr(r).destinations[k], pc[r])]
                 n == Defined(r, entry)
      <4>1. store'[r] = n
        BY <3>2, <3>7 DEF PostComm
      <4>2. \A k \in LocalOuts(p, pc[r], r) : entry[k].state # "Ready"
        BY DEF Pending, Outs
      <4> HIDE DEF entry
      <4>3. n[v] = store[r][v] \/ n[v].state # "Ready"
        BY <3>3, <4>2 DEF Defined
      <4> QED
        BY <2>4, <4>1, <4>3
    <3>8. CASE ExecuteEncode(r, Instr(r).outputs[1])
      <4> DEFINE entry == [k \in Outs(r) |-> Ready(OutPlace(p, pc[r], k), Instr(r).outputs[1])]
                 n == Defined(r, entry)
      <4>1. store'[r] = n /\ Running(r) /\ Instr(r).op # "Comm"
        BY <3>2, <3>8 DEF ExecuteEncode
      <4>2. \A k \in LocalOuts(p, pc[r], r) : entry[k].data = Instr(r).outputs[1]
        BY DEF Ready, Outs
      <4> HIDE DEF entry
      <4>3. PICK k \in LocalOuts(p, pc[r], r) : n[v] = entry[k] /\ p.code[pc[r]].outputs[k] = v
        BY <2>4, <3>3, <4>1 DEF Defined
      <4>4. Instr(r).outputs[1] = v /\ Origin(p)[v] = v
        BY <3>5, <4>1, <4>3 DEF Outs, Instr
      <4> QED
        BY <4>1, <4>2, <4>3, <4>4
    <3>9. CASE ExecuteCompute(r, Result(r, Instr(r).outputs[1]))
      <4> DEFINE data == Result(r, Instr(r).outputs[1])
                 entry == [k \in Outs(r) |-> Ready(Instr(r).place, data)]
                 n == Defined(r, entry)
                 m == StoreAfter(r, pc[r], n)
      <4>1. store'[r] = m /\ Running(r) /\ Instr(r).op = "Compute" /\ Outs(r) # {} /\ ~Blocked(r)
        BY <3>2, <3>9 DEF ExecuteCompute
      <4>2. data = Instr(r).outputs[1]
        <5>1. \A k \in DOMAIN Instr(r).inputs :
                InEntry(r, k).state = "Ready" /\ Instr(r).inputs[k] \in ValueIds
          BY <4>1, OperandsRead
        <5>2. \A k \in DOMAIN Instr(r).inputs :
                InEntry(r, k).data = Origin(PlanOf(r))[Instr(r).inputs[k]]
          BY <2>2, <5>1 DEF InEntry
        <5> QED
          BY <5>2 DEF Result
      <4>3. \A k \in LocalOuts(p, pc[r], r) : entry[k].data = data
        BY DEF Ready, Outs
      <4>4. m[v] = n[v] \/ m[v] = Absent
        BY <3>4
      <4> HIDE DEF data, entry, m
      <4>5. m[v] = n[v] /\ n[v] # store[r][v]
        BY <2>4, <4>1, <4>4 DEF Absent
      <4>6. PICK k \in LocalOuts(p, pc[r], r) : n[v] = entry[k] /\ p.code[pc[r]].outputs[k] = v
        BY <3>3, <4>5 DEF Defined
      <4>7. Instr(r).outputs[1] = v /\ Origin(p)[v] = v
        BY <3>5, <4>1, <4>6 DEF Outs, Instr
      <4> QED
        BY <4>1, <4>2, <4>3, <4>5, <4>6, <4>7
    <3>10. ASSUME NEW content \in [ValueIds -> Data], FinishGroup(r, content),
                  \A k \in GroupOuts(r) : content[GroupOut(r, k)] = Origin(p)[GroupOut(r, k)]
           PROVE  store'[r][v].data = Origin(p)[v]
      <4> DEFINE entry == [k \in GroupOuts(r) |-> Ready(Desc(p, GroupOut(r, k)).place,
                                                        content[GroupOut(r, k)])]
                 n == WithOutputs(r, waiting[r], entry)
      <4>1. store'[r] = StoreAfter(r, waiting[r], n)
        BY <3>1, <3>10 DEF FinishGroup, TypeOK
      <4>2. store'[r][v] \in {Absent, n[v]}
        BY <3>4, <4>1
      <4>3. \A k \in LocalOuts(p, waiting[r], r) :
              entry[k].data = Origin(p)[p.code[waiting[r]].outputs[k]]
        BY <3>10 DEF Ready, GroupOuts, GroupOut
      <4> HIDE DEF entry
      <4>4. n[v] = store[r][v] \/ n[v].data = Origin(p)[v]
        BY <3>3, <4>3
      <4> HIDE DEF n
      <4> QED
        BY <2>4, <4>2, <4>4 DEF Absent
    <3>11. CASE Setup(r) \/ AwaitOperand(r) \/ AwaitOldest(r) \/ Drained(r)
      BY <2>4, <3>11 DEF Setup, AwaitOperand, AwaitOldest, Drained
    <3>12. CASE RefusePlan(r) \/ RefuseInputs(r) \/ PublishArtifact(r)
      BY <2>4, <3>1, <3>12 DEF RefusePlan, RefuseInputs, PublishArtifact
    <3> QED
      BY <1>2, <1>4, <3>6, <3>7, <3>8, <3>9, <3>10, <3>11, <3>12 DEF RuntimeStep
  <2> QED
    BY <2>3, <2>4
<1> QED
  BY <1>3, <1>4

-----------------------------------------------------------------------------
(***************************************************************************)
(* What a rank that returns gives back.                                    *)
(***************************************************************************)
\* make_artifact returns what the agreed plan promises this rank: every value
\* it owns, or its final outputs, each with the contents the plan determines.
LEMMA ArtifactPromised ==
  ASSUME RuntimeInv, NEW r \in Ranks, RightValues(r), OnePlan(r), stage[r] = "done",
         NEW q, q[r] = Brought(r)
  PROVE  Artifact(r) \in Promised(q, r)
<1> DEFINE p == PlanOf(r)
<1>1. /\ Bound(r) /\ Counted(r) /\ RankOK(r)
      /\ pc[r] = Len(p.code) + 1
  BY DEF Bound, Counted, RuntimeInv, StoreInv, RankOK, PcInPlan
<1>2. PlanOK(p) /\ Retain(r) \in BOOLEAN
  BY <1>1, RankPlan DEF RuntimeInv, IInv
<1>3. Plans[q[r].plan] = p
  BY DEF Brought, PlanOf
<1>4. \A v \in ValueIds : store[r][v].state = "Ready" => store[r][v].data = Origin(p)[v]
  BY <1>1 DEF RightValues
<1>5. ASSUME NEW S, S \subseteq ValueIds, \A v \in S : store[r][v].state = "Ready",
             S \in {OwnFinals(p, r), OwnValues(p, r)}
      PROVE  [v \in S |-> store[r][v].data] \in Promised(q, r)
  <2>1. [v \in S |-> store[r][v].data] = [v \in S |-> Origin(p)[v]]
    BY <1>4, <1>5
  <2> QED
    BY <1>3, <1>5, <2>1 DEF Promised
<1>6. CASE Retain(r)
  <2> DEFINE S == {v \in ValueIds : store[r][v].state = "Ready"}
  <2>1. \A v \in ValueIds : store[r][v].state = "Ready" <=> Born(r, v)
    BY <1>6, ArtifactHolds DEF ArtifactComplete
  <2>2. ASSUME NEW v PROVE v \in OwnValues(p, r) <=> Born(r, v)
    <3>1. \A i \in DOMAIN p.code : i < pc[r]
      BY <1>1, <1>2, PlanShape
    <3> QED
      BY <3>1 DEF OwnValues, Born
  <2>3. OwnValues(p, r) \subseteq ValueIds
    <3>1. LocalExternals(p, r) \subseteq ValueIds
      BY <1>2 DEF LocalExternals, PlanOK, IsPlan
    <3>2. \A i \in DOMAIN p.code : \A k \in LocalOuts(p, i, r) : p.code[i].outputs[k] \in ValueIds
      BY <1>2, PlacesAgree DEF LocalOuts
    <3> QED
      BY <3>1, <3>2 DEF OwnValues
  <2>4. S = OwnValues(p, r)
    BY <2>1, <2>2, <2>3
  <2>5. [v \in S |-> store[r][v].data] \in Promised(q, r)
    BY <1>5, <2>4
  <2> QED
    BY <1>6, <2>5 DEF Artifact
<1>7. CASE ~Retain(r)
  <2> DEFINE S == OwnFinals(p, r)
  <2>1. \A j \in LocalFinals(p, r) : p.final[j] \in ValueIds /\ store[r][p.final[j]].state = "Ready"
    <3>1. \A j \in LocalFinals(p, r) : FinalReady(r, j)
      BY ArtifactHolds DEF ArtifactComplete
    <3>2. \A j \in LocalFinals(p, r) : p.final[j] \in ValueIds
      BY <1>2 DEF LocalFinals, PlanOK, IsPlan
    <3> QED
      BY <3>1, <3>2 DEF FinalReady
  <2>2. S \subseteq ValueIds /\ \A v \in S : store[r][v].state = "Ready"
    BY <2>1 DEF OwnFinals
  <2>3. [v \in S |-> store[r][v].data] \in Promised(q, r)
    BY <1>5, <2>2
  <2> QED
    BY <1>7, <2>3 DEF Artifact
<1> QED
  BY <1>2, <1>6, <1>7
=============================================================================
