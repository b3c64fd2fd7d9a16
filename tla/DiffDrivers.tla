---------------------------- MODULE DiffDrivers ----------------------------
(***************************************************************************)
(* The two comparison tools of experiments/.  dacapo_plan_vec_diff runs a  *)
(* single-rank reference plan and a distributed plan, after it has made    *)
(* sure that one is the other spread over ranks (PlanAlignment), and       *)
(* compares them value by value.  diff_against_reference evaluates a       *)
(* single-rank plan beside the runtime and compares line by line.          *)
(*                                                                         *)
(* What a tool is there to find is one instruction of the tested run that  *)
(* leaves wrong slots or wrong metadata behind, the culprit.  Slots are    *)
(* the terms that were computed: equal terms have the same bits in every   *)
(* slot.  The same bits need not compare equal: NaN # NaN, so the          *)
(* evaluator also knows which values came out as infinite or NaN.          *)
(***************************************************************************)
EXTENDS PlanVerifier

CONSTANTS Pairs  \* the pairs of plans the tools are given: [reference, distributed]

\* A plan as it was read: the types of struct RuntimePlan, and its values a list.
PlanTyped(p) ==
  /\ IsPlan(p, Nat)
  /\ p.values \in Seq({p.values[k] : k \in DOMAIN p.values})

ASSUME PairsOK ==
  \A given \in Pairs : PlanTyped(given.reference) /\ PlanTyped(given.distributed)

VARIABLES
  tool,     \* which of the two runs
  pair,
  culprit,  \* position of the culprit, 0 for none
  flaw,     \* what it gets wrong: slots or metadata
  stage,
  line,     \* the instruction, then the final output, to be compared next
  numbers,  \* value -> the worst number among its slots, as evaluated
  table,    \* `reference`: value -> contents evaluated so far
  uses,     \* value -> how often it is still to be read
  report    \* the lines that differ

vars == <<tool, pair, culprit, flaw, stage, line, numbers, table, uses, report>>

\* The plan whose run is tested.
Tested == IF tool = "plans" THEN pair.distributed ELSE pair.reference

WrongSlots == IF flaw = "slots" THEN culprit ELSE 0
WrongMetadata == IF flaw = "metadata" THEN culprit ELSE 0

-----------------------------------------------------------------------------
(***************************************************************************)
(* What a run leaves behind.                                               *)
(***************************************************************************)
Output(p, i) == p.code[i].outputs[1]

Term(p, i, operands) ==
  CASE p.code[i].op = "Encode"  -> <<"encode", p.data[i].payload>>
    [] p.code[i].op = "Compute" -> <<"compute", p.code[i].kind, p.data[i].attrs, operands>>
    [] OTHER                    -> operands[1]

\* What the values are after instruction n, given what they were before; when it
\* is the one that goes wrong, its outputs get wrong contents.
Executed(p, wrong, n, before) ==
  LET ins == p.code[n]
      new == {ins.outputs[k] : k \in DOMAIN ins.outputs}
  IN  [v \in DOMAIN before \cup new |->
         IF v \notin new THEN before[v]
         ELSE IF n = wrong THEN <<"wrong">>
         ELSE Term(p, n, [k \in DOMAIN ins.inputs |-> before[ins.inputs[k]]])]

Ids(p) == {p.values[k].id : k \in DOMAIN p.values}
Inputs(p) == {p.external[k] : k \in DOMAIN p.external}

\* run_plan: the value of each id, after each instruction.
Values(p, wrong) ==
  LET after[n \in 0 .. Len(p.code)] ==
        IF n = 0 THEN [v \in Inputs(p) |-> <<"input", v>>]
        ELSE Executed(p, wrong, n, after[n - 1])
  IN  after

Contents(p, wrong) == Values(p, wrong)[Len(p.code)]

\* The kind and the metadata that come with the slots.
Described(p, v) == <<Desc(p, v).kind, Desc(p, v).meta>>

Metadata(p, wrong, v) ==
  IF wrong # 0 /\ \E k \in DOMAIN p.code[wrong].outputs : p.code[wrong].outputs[k] = v
  THEN <<"wrong">> ELSE Described(p, v)

\* validate_value: the run stops at a value that is not what the plan describes.
Validated(p, wrong) == \A v \in Ids(p) : Metadata(p, wrong, v) = Described(p, v)

\* The artifacts of a run of all ranks with AllValuesAfterRun: who has which value.
Artifacts(p) ==
  [r \in 0 .. p.world_size - 1 |->
     LocalExternals(p, r)
     \cup UNION {{p.code[i].outputs[k] : k \in LocalOuts(p, i, r)} : i \in DOMAIN p.code}]

\* index_artifacts: at the place described, once, and nothing is missing.
IndexOk(p) ==
  LET owned == Artifacts(p) IN
  /\ \A r \in DOMAIN owned : \A v \in owned[r] : HasDesc(p, v) /\ Desc(p, v).place.rank = r
  /\ \A q, r \in DOMAIN owned : q # r => owned[q] \cap owned[r] = {}
  /\ Cardinality(UNION {owned[r] : r \in DOMAIN owned}) = Len(p.values)

-----------------------------------------------------------------------------
(***************************************************************************)
(* PlanAlignment: every rule of verify, and the lineage of a value.        *)
(***************************************************************************)
Work(p) == DOMAIN p.code \ Comms(p)

SameMetadata(v, w) == v.kind = w.kind /\ v.meta = w.meta

TargetsAligned(ref, d) ==
  /\ ref.world_size = 1 /\ ref.device_counts = <<0>>
  /\ ref.target_id = d.target_id /\ ref.capability_version = d.capability_version
  /\ ref.operator_spec = d.operator_spec
  /\ ref.external = d.external
  /\ \A k \in DOMAIN d.external :
       HasDesc(d, d.external[k]) /\ Desc(d, d.external[k]).place = Place("Host", 0, 0)

ReferenceIndexed(ref) ==
  /\ Comms(ref) = {}
  /\ \A i, j \in Work(ref) : Output(ref, i) = Output(ref, j) => i = j

\* resolve: from one transfer output to what was sent, until the reference knows
\* it.  A walk that does not end among the reference's values (no such transfer,
\* or a cycle) is an error.
Sent(d, v) == {i \in Comms(d) : Output(d, i) = v}

Back(ref, d, v) ==
  IF v \in Ids(ref) \/ Sent(d, v) = {} THEN v
  ELSE d.code[CHOOSE i \in Sent(d, v) : TRUE].inputs[1]

Walk(ref, d, v) ==
  LET walk[n \in 0 .. Len(d.code)] == IF n = 0 THEN v ELSE Back(ref, d, walk[n - 1])
  IN  walk

Lineage(ref, d, v) == Walk(ref, d, v)[Len(d.code)]

TransfersIndexed(ref, d) ==
  /\ \A i \in Comms(d) :
       /\ d.code[i].kind = "Transfer" /\ d.data[i].hint = "PointToPoint"
       /\ {Len(d.code[i].inputs), Len(d.code[i].outputs), Len(d.code[i].sources),
           Len(d.code[i].destinations), Len(d.code[i].types)} = {1}
       /\ Output(d, i) \notin Ids(ref)
  /\ \A i, j \in Comms(d) : Output(d, i) = Output(d, j) => i = j
  /\ \A i \in Comms(d) : Lineage(ref, d, Output(d, i)) \in Ids(ref)

ValuesAligned(ref, d) ==
  /\ \A v \in Ids(ref) : HasDesc(d, v) /\ SameMetadata(Desc(ref, v), Desc(d, v))
  /\ \A i \in Comms(d) :
       /\ Lineage(ref, d, d.code[i].inputs[1]) \in Ids(ref)
       /\ HasDesc(d, Output(d, i))
       /\ SameMetadata(Desc(ref, Lineage(ref, d, d.code[i].inputs[1])), Desc(d, Output(d, i)))

Traces(ref, d, v, w) == Lineage(ref, d, v) = w /\ w \in Ids(ref)

\* Mutant: operands are counted, not traced.
InstructionAlignedByCount(ref, d, i) ==
  \E j \in Work(ref) :
    /\ Output(ref, j) = Output(d, i)
    /\ d.code[i].op = ref.code[j].op /\ d.code[i].kind = ref.code[j].kind
    /\ d.data[i].payload = ref.data[j].payload /\ d.data[i].attrs = ref.data[j].attrs
    /\ Len(d.code[i].inputs) = Len(ref.code[j].inputs)

\* The instruction with the same output, and operands that come from its operands.
InstructionAligned(ref, d, i) ==
  \E j \in Work(ref) :
    /\ Output(ref, j) = Output(d, i)
    /\ d.code[i].op = ref.code[j].op /\ d.code[i].kind = ref.code[j].kind
    /\ d.data[i].payload = ref.data[j].payload /\ d.data[i].attrs = ref.data[j].attrs
    /\ Len(d.code[i].inputs) = Len(ref.code[j].inputs)
    /\ \A k \in DOMAIN d.code[i].inputs : Traces(ref, d, d.code[i].inputs[k], ref.code[j].inputs[k])

InstructionsAligned(ref, d) ==
  /\ \A i \in Work(d) : InstructionAligned(ref, d, i)
  /\ \A i, j \in Work(d) : Output(d, i) = Output(d, j) => i = j
  /\ Cardinality(Work(d)) = Cardinality(Work(ref))

OutputsAligned(ref, d) ==
  /\ Len(ref.final) = Len(d.final)
  /\ \A k \in DOMAIN d.final : Traces(ref, d, d.final[k], ref.final[k])

Aligned(ref, d) ==
  /\ TargetsAligned(ref, d) /\ ReferenceIndexed(ref) /\ TransfersIndexed(ref, d)
  /\ ValuesAligned(ref, d) /\ InstructionsAligned(ref, d) /\ OutputsAligned(ref, d)

-----------------------------------------------------------------------------
(***************************************************************************)
(* dacapo_plan_vec_diff.                                                   *)
(***************************************************************************)
Goto(to) == stage' = to
Unchanged == UNCHANGED <<tool, pair, culprit, flaw>>

Align ==
  /\ tool = "plans" /\ stage = "start"
  /\ Goto(IF Aligned(pair.reference, pair.distributed) THEN "run" ELSE "refused")
  /\ Unchanged /\ UNCHANGED <<line, numbers, table, uses, report>>

\* run_plan and index_artifacts, for both plans: the cluster refuses a plan that
\* its verifier refuses, and a run whose metadata are wrong.
RunPlans ==
  LET plans == {pair.reference, pair.distributed} IN
  /\ tool = "plans" /\ stage = "run"
  /\ Goto(IF (\E p \in plans : ~Verified(p)) \/ ~Validated(pair.distributed, WrongMetadata) THEN "refused"
          ELSE IF \E p \in plans : ~IndexOk(p) THEN "thrown" ELSE "compare")
  /\ Unchanged /\ UNCHANGED <<line, numbers, table, uses, report>>

\* Mutant: a mismatch must be one of slots and of metadata.
DifferInBoth(v, w) ==
  /\ Contents(pair.reference, 0)[v] # Contents(pair.distributed, WrongSlots)[w]
  /\ Metadata(pair.reference, 0, v) # Metadata(pair.distributed, WrongMetadata, w)

\* compare and mismatched: the slots and the metadata of a value of each plan.  Two
\* slots that are NaN are equal here, so equal terms are.
Differ(v, w) ==
  LET ref == pair.reference
      d == pair.distributed
  IN  \/ Contents(ref, 0)[v] # Contents(d, WrongSlots)[w]
      \/ Metadata(ref, 0, v) # Metadata(d, WrongMetadata, w)

\* diff: the instructions of the distributed plan, then the final outputs.
DiffLine ==
  LET d == pair.distributed
      n == Len(d.code)
      ids == IF line <= n
             THEN <<Lineage(pair.reference, d, Output(d, line)), Output(d, line)>>
             ELSE <<pair.reference.final[line - n], d.final[line - n]>>
  IN
  /\ tool = "plans" /\ stage = "compare" /\ line <= n + Len(d.final)
  /\ report' = IF Differ(ids[1], ids[2]) THEN report \cup {line} ELSE report
  /\ line' = line + 1
  /\ Unchanged /\ UNCHANGED <<stage, numbers, table, uses>>

Conclude ==
  /\ tool = "plans" /\ stage = "compare"
  /\ line > Len(pair.distributed.code) + Len(pair.distributed.final)
  /\ Goto(IF report = {} THEN "pass" ELSE "fail")
  /\ Unchanged /\ UNCHANGED <<line, numbers, table, uses, report>>

-----------------------------------------------------------------------------
(***************************************************************************)
(* diff_against_reference.  A value is evaluated into the table and leaves *)
(* it with its last use.  The bundle that the plan refers to is there:     *)
(* the code takes it without looking.                                      *)
(***************************************************************************)
Reads(p, v) == {s \in UNION {{i} \X DOMAIN p.code[i].inputs : i \in DOMAIN p.code} :
                  p.code[s[1]].inputs[s[2]] = v}

\* Mutant: the final output is not counted.
CountUsesOfInstructions(p) == [v \in Ids(p) |-> Cardinality(Reads(p, v))]

\* Mutant: instructions are counted, not their operands.
CountUsesDistinct(p) ==
  [v \in Ids(p) |-> Cardinality({s[1] : s \in Reads(p, v)}) + Cardinality({k \in DOMAIN p.final : p.final[k] = v})]

CountUses(p) ==
  [v \in Ids(p) |-> Cardinality(Reads(p, v)) + Cardinality({k \in DOMAIN p.final : p.final[k] = v})]

\* What may come out of a computation in float64, slot by slot: "infinite" has an
\* infinite slot and no NaN, "nan" has a NaN.  Which slots is not modelled, so this is
\* all that any slots may give.
Sums == {"AddCC", "AddCP", "SubCC", "SubCP"}
Products == {"MulCC", "MulCP"}

Outcomes(kind, operands) ==
  LET infinite == {k \in DOMAIN operands : operands[k] = "infinite"}
      nan == {k \in DOMAIN operands : operands[k] = "nan"}
  IN
  CASE nan # {} -> {"nan"}
    [] nan = {} /\ kind \notin Sums \cup Products -> {operands[1]}
    [] nan = {} /\ kind \in Sums \cup Products /\ infinite = {} -> {"finite", "infinite"}
    [] nan = {} /\ kind \in Sums /\ Cardinality(infinite) = 1 -> {"infinite"}
    [] OTHER -> {"infinite", "nan"}

\* The numbers of the values of a plan, as they may come out.  The input and what is
\* encoded were read as finite numbers; a copy has the slots it copies.
Numbers(p) ==
  {f \in [Ids(p) -> {"finite", "infinite", "nan"}] :
     /\ \A v \in Inputs(p) : f[v] = "finite"
     /\ \A i \in DOMAIN p.code :
          LET ins == p.code[i].inputs
              operands == [k \in DOMAIN ins |-> f[ins[k]]]
              outcomes == CASE p.code[i].op = "Encode"  -> {"finite"}
                            [] p.code[i].op = "Compute" -> Outcomes(p.code[i].kind, operands)
                            [] OTHER                    -> {operands[1]}
          IN  \A k \in DOMAIN p.code[i].outputs : f[p.code[i].outputs[k]] \in outcomes}

\* load_context and a run on a cluster of one rank, with a ciphertext for input.
RunOne ==
  LET p == pair.reference IN
  /\ tool = "evaluator" /\ stage = "start"
  /\ IF /\ Len(p.external) = 1
        /\ Verified(p) /\ RuntimeTargetOk(p, 0, 1, p.device_counts[1])
        /\ Desc(p, p.external[1]).kind = "Ciphertext"
        /\ Validated(p, WrongMetadata)
     THEN Goto("input") /\ numbers' \in Numbers(p)
     ELSE Goto("refused") /\ UNCHANGED numbers
  /\ Unchanged /\ UNCHANGED <<line, table, uses, report>>

\* Mutant: slots are equal when their difference is zero, which two infinities have not.
SlotsDifferByDifference(v, expected) ==
  expected # Contents(pair.reference, WrongSlots)[v] \/ numbers[v] # "finite"

\* compare_slots, of a value that the evaluator expects to have certain slots: there
\* is no case for NaN, which differs from itself.
SlotsDiffer(v, expected) ==
  expected # Contents(pair.reference, WrongSlots)[v] \/ numbers[v] = "nan"

\* record_diff: a line is reported for its slots or for its metadata.
Mismatch(v, expected) ==
  \/ SlotsDiffer(v, expected)
  \/ Metadata(pair.reference, WrongMetadata, v) # Described(pair.reference, v)

\* Artifacts are looked up with `at`.
Recorded(v) == v \in Artifacts(pair.reference)[0]

\* The line of the external input, which is line 0 of the report.
EvaluateInput ==
  LET p == pair.reference
      input == p.external[1]
  IN
  /\ tool = "evaluator" /\ stage = "input"
  /\ table' = [v \in {input} |-> <<"input", v>>]
  /\ uses' = CountUses(p)
  /\ IF ~Recorded(input) THEN Goto("thrown") /\ UNCHANGED report
     ELSE /\ Goto("compare")
          /\ report' = IF Mismatch(input, <<"input", input>>) THEN report \cup {0} ELSE report
  /\ Unchanged /\ UNCHANGED <<line, numbers>>

\* Mutant: an operand that occurs twice is released once.
ReleasedOnce(ins) == [v \in DOMAIN uses |-> IF \E k \in DOMAIN ins : ins[k] = v THEN uses[v] - 1 ELSE uses[v]]

Released(ins) == [v \in DOMAIN uses |-> uses[v] - Cardinality({k \in DOMAIN ins : ins[k] = v})]

EvaluateLine ==
  LET p == pair.reference
      ins == p.code[line].inputs
      out == Output(p, line)
      expected == Term(p, line, [k \in DOMAIN ins |-> table[ins[k]]])
      left == Released(ins)
  IN
  /\ tool = "evaluator" /\ stage = "compare" /\ line <= Len(p.code)
  /\ IF p.code[line].op = "Comm" THEN Goto("refused") /\ UNCHANGED <<line, table, uses, report>>
     ELSE IF ~Recorded(out) \/ \E k \in DOMAIN ins : ins[k] \notin DOMAIN table
     THEN Goto("thrown") /\ UNCHANGED <<line, table, uses, report>>
     ELSE /\ report' = IF Mismatch(out, expected) THEN report \cup {line} ELSE report
          /\ LET kept == {v \in DOMAIN table : ~(\E k \in DOMAIN ins : ins[k] = v) \/ left[v] # 0}
                 new == IF uses[out] # 0 THEN {out} ELSE {}
             IN table' = [v \in kept \cup new |-> IF v = out THEN expected ELSE table[v]]
          /\ uses' = left
          /\ line' = line + 1
          /\ UNCHANGED stage
  /\ Unchanged /\ UNCHANGED numbers

\* One final output, and its last use.
EvaluateFinal ==
  LET p == pair.reference IN
  /\ tool = "evaluator" /\ stage = "compare" /\ line = Len(p.code) + 1
  /\ IF Len(p.final) # 1 THEN Goto("refused") /\ UNCHANGED <<line, table, uses>>
     ELSE IF ~Recorded(p.final[1]) \/ uses[p.final[1]] = 0 THEN Goto("thrown") /\ UNCHANGED <<line, table, uses>>
     ELSE /\ Goto(IF report = {} THEN "pass" ELSE "fail")
          /\ uses' = [uses EXCEPT ![p.final[1]] = @ - 1]
          /\ table' = [v \in DOMAIN table \ (IF uses[p.final[1]] = 1 THEN {p.final[1]} ELSE {}) |-> table[v]]
          /\ line' = line + 1
  /\ Unchanged /\ UNCHANGED <<numbers, report>>

Ended == stage \in {"pass", "fail", "refused", "thrown"} /\ UNCHANGED vars

Init ==
  /\ tool \in {"plans", "evaluator"} /\ pair \in Pairs
  /\ culprit \in 0 .. Len(Tested.code) /\ flaw \in {"slots", "metadata"}
  /\ stage = "start" /\ line = 1 /\ numbers = <<>> /\ table = <<>> /\ uses = <<>> /\ report = {}

Next ==
  \/ Align \/ RunPlans \/ DiffLine \/ Conclude
  \/ RunOne \/ EvaluateInput \/ EvaluateLine \/ EvaluateFinal
  \/ Ended

Spec == Init /\ [][Next]_vars

-----------------------------------------------------------------------------
(***************************************************************************)
(* Properties.                                                             *)
(***************************************************************************)
\* A line of the evaluator that it expects to hold a NaN.
NaNLine(k) ==
  tool = "evaluator" /\ k \in DOMAIN pair.reference.code /\ numbers[Output(pair.reference, k)] = "nan"

\* No false alarm: what passes PlanAlignment computes the same, so a line that
\* differs comes from a run that went wrong (dacapo_plan_vec_diff), and the table
\* of diff_against_reference never holds another value than the plan means: without
\* a culprit it reports the lines with a NaN and no other.
NoFalseAlarm == \A k \in report : culprit # 0 \/ NaNLine(k)

\* No miss: a run in which some instruction went wrong fails the comparison, and
\* the first line that differs, but for lines with a NaN, is that instruction.
CulpritFound ==
  stage \in {"pass", "fail"} /\ culprit # 0 =>
    stage = "fail" /\ culprit \in report /\ \A k \in report : culprit <= k \/ NaNLine(k)

\* What is still to be read of a value, from the next line on.
ReadsAhead(p, v) ==
  Cardinality({s \in Reads(p, v) : s[1] >= line})
  + IF line <= Len(p.code) + 1 THEN Cardinality({k \in DOMAIN p.final : p.final[k] = v}) ELSE 0

\* No lookup of a plan that was let through fails (index_artifacts, the table and
\* the use counts), and between two lines the table holds what was evaluated and
\* is still to be read, nothing else but an input that nobody reads.
TableExact ==
  /\ stage # "thrown"
  /\ tool = "evaluator" /\ stage \in {"compare", "pass", "fail"} =>
       LET p == Tested
           known == {p.external[1]} \cup {Output(p, i) : i \in {j \in DOMAIN p.code : j < line}}
       IN
       /\ \A v \in Ids(p) : uses[v] = ReadsAhead(p, v)
       /\ \A v \in known : v \in DOMAIN table <=> uses[v] # 0 \/ (v = p.external[1] /\ Reads(p, v) = {} /\ p.final[1] # v)
       /\ DOMAIN table \subseteq known
=============================================================================
