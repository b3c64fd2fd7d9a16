-------------------------- MODULE CkksRulesProofs --------------------------
(***************************************************************************)
(* Proofs about CkksRules, for every OperatorSpec, every set of metadata   *)
(* and plans of any length.  The heart is RulesMatch: what                 *)
(* verify_compute_metadata lets pass is what the executor derives.  By     *)
(* induction over the plan the metadata of every value then agree; the     *)
(* rest of the invariant carries the operands' types along.                *)
(***************************************************************************)
EXTENDS CkksRules, TLAPS

\* A computation one of whose operands is missing has no metadata rule.
LEMMA OperandsTyped ==
  ASSUME NEW kind \in Kinds, NEW in \in Seq(Meta), KindsOk(kind, in)
  PROVE  /\ in[1] \in Meta
         /\ Len(in) = 2 => in[2] \in Meta
         /\ kind \in Unary => Len(in) = 1
         /\ kind \notin Unary => Len(in) = 2
BY DEF KindsOk

\* verify_compute_metadata is as strict as compute_metadata and compute_now: a
\* computation that passed the verifier is derived without a throw or overflow,
\* and its metadata are those of its descriptor.
LEMMA RulesMatch ==
  ASSUME NEW kind \in Kinds, NEW in \in Seq(Meta), NEW out \in Meta, NEW a, NEW host,
         KindsOk(kind, in), SameBase(in, out), MetadataRule(kind, in, out, a, host)
  PROVE  Derived(kind, in, a) = out
<1> DEFINE x == in[1]
           y == in[2]
<1>1. /\ x \in Meta
      /\ Len(in) = 2 => y \in Meta
      /\ kind \in Unary => Len(in) = 1
      /\ kind \notin Unary => Len(in) = 2
  BY OperandsTyped
<1>2. /\ x.kind = "Ciphertext" /\ out.kind = x.kind /\ out.ntt = x.ntt
      /\ Len(in) = 2 => x.level = y.level /\ x.ntt = y.ntt
  BY DEF KindsOk, SameBase
<1>3. IntMax \in Nat
  BY RulesConstantsOK
<1>4. a.level = out.level => (a.level < x.level <=> ~(a.level >= x.level))
  BY <1>1 DEF Meta, Ints
<1>5. CASE kind \in Adding
  <2>1. AddRule(in, out)
    BY <1>5 DEF Adding, MetadataRule
  <2>2. out = x /\ x.scale = y.scale
    BY <2>1 DEF AddRule
  <2> QED
    BY <1>2, <1>5, <2>2 DEF Adding, Multiplying, Derived
<1>6. CASE kind \in Multiplying
  <2>1. Len(in) = 2 /\ y \in Meta
    BY <1>1, <1>6 DEF Multiplying, Unary
  <2>2. /\ out.level = x.level /\ out.scale = x.scale + y.scale
        /\ out.components = IF kind = "MulCC" THEN x.components + y.components - 1
                            ELSE x.components
    BY <1>6 DEF Multiplying, MetadataRule, MulRule
  <2>3. /\ out.scale \in 0 .. IntMax /\ out.components \in 0 .. IntMax
        /\ x.scale \in 0 .. IntMax /\ y.scale \in 0 .. IntMax
    BY <1>1, <2>1 DEF Meta, Ints
  <2>4. ~(y.scale > IntMax - x.scale)
    BY <1>3, <2>2, <2>3
  <2>5. ~(out.components > IntMax)
    BY <1>3, <2>3
  <2>6. Product(kind, in) = [x EXCEPT !.scale = out.scale, !.components = out.components]
    BY <2>2, <2>4, <2>5 DEF Product
  <2>7. Product(kind, in) = out
    <3>1. \A m, n \in Meta : m.kind = n.kind /\ m.level = n.level /\ m.ntt = n.ntt
              => n = [m EXCEPT !.scale = n.scale, !.components = n.components]
      BY DEF Meta
    <3>2. out = [x EXCEPT !.scale = out.scale, !.components = out.components]
      BY <1>1, <1>2, <2>2, <3>1
    <3> QED
      BY <2>6, <3>2
  <2> QED
    BY <1>2, <1>6, <2>7 DEF Derived, Multiplying, Adding
<1>7. CASE kind \in {"Negate", "Rotate"}
  BY <1>1, <1>7 DEF Unary, Adding, Multiplying, Derived, MetadataRule
<1>8. CASE kind = "Rescale"
  <2>1. a.level < x.level /\ a.level = out.level /\ out = [x EXCEPT !.level = a.level, !.scale = a.scale]
    BY <1>1, <1>2, <1>8 DEF MetadataRule, Meta
  <2> QED
    BY <1>2, <1>8, <1>4, <2>1 DEF Adding, Multiplying, Derived
<1>9. CASE kind = "ModSwitch"
  <2>1. a.level < x.level /\ a.level = out.level /\ out = [x EXCEPT !.level = a.level]
    BY <1>1, <1>2, <1>9 DEF MetadataRule, Meta
  <2> QED
    BY <1>2, <1>9, <1>4, <2>1 DEF Adding, Multiplying, Derived
<1>10. CASE kind = "Relinearize"
  <2>1. x.components = 3 /\ out = [x EXCEPT !.components = 2]
    BY <1>1, <1>2, <1>10 DEF MetadataRule, Meta
  <2> QED
    BY <1>1, <1>10, <2>1 DEF Unary, Adding, Multiplying, Derived
<1>11. CASE kind = "Boot"
  <2>1. out = [x EXCEPT !.level = a.level, !.scale = a.scale, !.components = a.components]
    BY <1>1, <1>2, <1>11 DEF MetadataRule, Meta, Adding, Multiplying
  <2> QED
    BY <1>1, <1>11, <2>1 DEF Unary, Adding, Multiplying, Derived
<1> QED
  BY <1>5, <1>6, <1>7, <1>8, <1>9, <1>10, <1>11 DEF Kinds, Unary

\* Carrying a computation out gives what issuing it promised, if the operands
\* have equally many slots (require_compatible).
LEMMA ComputedMatch ==
  ASSUME NEW kind \in Kinds, NEW in \in Seq(Meta), NEW out \in Meta, NEW a, NEW host,
         NEW slots, Len(slots) = 2 => slots[1] = slots[2],
         KindsOk(kind, in), SameBase(in, out), MetadataRule(kind, in, out, a, host)
  PROVE  Computed(kind, in, slots, a) = out
<1>1. kind = "Rescale" => a.scale = out.scale
  BY DEF MetadataRule
<1>2. kind = "Rescale" => ~(a.scale < 0)
  BY <1>1, RulesConstantsOK DEF Meta, Ints
<1> QED
  BY <1>2, RulesMatch DEF Computed

-----------------------------------------------------------------------------
(***************************************************************************)
(* The induction over the plan.                                            *)
(***************************************************************************)
LEMMA InitTyped == Init => TypeOK /\ MetadataAgrees /\ KeysCover
BY DEF Init, TypeOK, MetadataAgrees, KeysCover

\* What a computation of a legal plan adds.
Added(v, kind, in, a, host) ==
  LET descs == [k \in DOMAIN in |-> in[k].desc] IN
  \E out \in Descs :
    /\ SameBase(descs, out) /\ MetadataRule(kind, descs, out, a, host) /\ ValueOk(spec, out)
    /\ v = Value(out, Derived(kind, [k \in DOMAIN in |-> in[k].pending], a),
                 Computed(kind, [k \in DOMAIN in |-> in[k].payload],
                          [k \in DOMAIN in |-> in[k].slots], a),
                 in[1].slots, Turned(kind, in[1].slots, a))

(* A launched operation adds exactly one value, built by its rule (Compute).  *)
LEMMA ComputeAdds ==
  ASSUME NEW kind \in Kinds, NEW in \in Operands(kind), NEW a, NEW host,
         Compute(kind, in, a, host)
  PROVE  \E v : Added(v, kind, in, a, host) /\ values' = values \cup {v}
BY DEF Compute, Added

\* The operands are values of the plan, so their descriptors have their type.
LEMMA OperandsInPlan ==
  ASSUME TypeOK, NEW kind \in Kinds, NEW in \in Operands(kind)
  PROVE  /\ in \in Seq(values) /\ in[1] \in values
         /\ Len(in) = 2 => in[2] \in values
         /\ [k \in DOMAIN in |-> in[k].desc] \in Seq(Meta)
<1>1. CASE \E v \in values : in = <<v>>
  <2>1. PICK v \in values : in = <<v>>
    BY <1>1
  <2>2. [k \in DOMAIN in |-> in[k].desc] = <<v.desc>>
    BY <2>1
  <2>3. v.desc \in Meta
    BY RulesConstantsOK DEF TypeOK
  <2> QED
    BY <2>1, <2>2, <2>3
<1>2. CASE \E v, w \in values : in = <<v, w>>
  <2>1. PICK v \in values, w \in values : in = <<v, w>>
    BY <1>2
  <2>2. [k \in DOMAIN in |-> in[k].desc] = <<v.desc, w.desc>>
    BY <2>1
  <2>3. v.desc \in Meta /\ w.desc \in Meta
    BY RulesConstantsOK DEF TypeOK
  <2> QED
    BY <2>1, <2>2, <2>3
<1> QED
  BY <1>1, <1>2 DEF Operands

\* The types are kept.
LEMMA TypeStep == TypeOK /\ [Next]_vars => TypeOK'
<1> SUFFICES ASSUME TypeOK, [Next]_vars PROVE TypeOK'
  OBVIOUS
<1>1. CASE UNCHANGED vars
  BY <1>1 DEF TypeOK, vars
<1>2. ASSUME NEW d \in Inputs, NEW slots \in SlotCounts, BindInput(d, slots) PROVE TypeOK'
  <2>1. d \in Descs /\ d \in Meta /\ slots \in Nat \ {0}
    BY RulesConstantsOK
  <2> QED
    BY <1>2, <2>1 DEF TypeOK, BindInput, Value, ValueOk, Meta, Ints
<1>3. ASSUME NEW d \in Inputs, Encode(d) PROVE TypeOK'
  <2>1. d \in Descs /\ d \in Meta /\ spec.slots \in Nat \ {0}
    BY RulesConstantsOK DEF TypeOK
  <2> QED
    BY <1>3, <2>1 DEF TypeOK, Encode, Value, ValueOk, Meta, Ints
<1>4. ASSUME NEW kind \in Kinds, NEW in \in Operands(kind), NEW a, NEW host,
             Compute(kind, in, a, host)
      PROVE  TypeOK'
  <2>1. PICK v : Added(v, kind, in, a, host) /\ values' = values \cup {v}
    BY <1>4, ComputeAdds
  <2>2. in[1] \in values
    BY OperandsInPlan
  <2>3. v.desc \in Descs /\ ValueOk(spec, v.desc) /\ v.slots = in[1].slots
    BY <2>1 DEF Added, Value
  <2>4. v.desc \in Meta
    BY <2>3, RulesConstantsOK
  <2>5. v.desc.kind = "Plaintext" <=> v.desc.components = 1
    BY <2>3, <2>4 DEF ValueOk, Meta, Ints
  <2>6. CapabilitiesOf(kind, a, host) \subseteq {"Encode", "HostCompute", "BootNative", "BootDecryptReencrypt"}
    BY DEF CapabilitiesOf
  <2> QED
    BY <1>4, <2>1, <2>2, <2>3, <2>5, <2>6 DEF TypeOK, Compute, ValueOk
<1> QED
  BY <1>1, <1>2, <1>3, <1>4 DEF Next

\* No value is removed, so slots once missing stay missing.
LEMMA FullSlotsBefore == [Next]_vars /\ FullSlots' => FullSlots
<1> SUFFICES ASSUME [Next]_vars PROVE values \subseteq values' /\ spec' = spec
  BY DEF FullSlots
<1>1. ASSUME NEW kind \in Kinds, NEW in \in Operands(kind), NEW a, NEW host,
             Compute(kind, in, a, host)
      PROVE  values \subseteq values' /\ spec' = spec
  BY <1>1, ComputeAdds DEF Compute
<1>2. CASE \E d \in Inputs : \E slots \in SlotCounts : BindInput(d, slots)
  BY <1>2 DEF BindInput
<1>3. CASE \E d \in Inputs : Encode(d)
  BY <1>3 DEF Encode
<1>4. CASE UNCHANGED vars
  BY <1>4 DEF vars
<1> QED
  BY <1>1, <1>2, <1>3, <1>4 DEF Next

\* Metadata agree from operand to result.
LEMMA AgreeStep == TypeOK /\ MetadataAgrees /\ [Next]_vars => MetadataAgrees'
<1> DEFINE Agrees(v) == v.pending = v.desc /\ v.payload \in {v.desc, Threw}
<1> SUFFICES ASSUME TypeOK, MetadataAgrees, [Next]_vars
             PROVE  \A v \in values' : /\ Agrees(v)
                                       /\ FullSlots' => v.payload = v.desc
  BY DEF MetadataAgrees
<1>1. \A v \in values : /\ Agrees(v)
                        /\ FullSlots' => v.payload = v.desc /\ v.slots = spec.slots
  BY FullSlotsBefore DEF MetadataAgrees, FullSlots
<1> HIDE DEF Agrees
<1>2. CASE UNCHANGED vars
  BY <1>1, <1>2 DEF vars
<1>3. CASE \E d \in Inputs : \E slots \in SlotCounts : BindInput(d, slots)
  BY <1>1, <1>3 DEF BindInput, Value, Agrees
<1>4. CASE \E d \in Inputs : Encode(d)
  BY <1>1, <1>4 DEF Encode, Value, Agrees
<1>5. ASSUME NEW kind \in Kinds, NEW in \in Operands(kind), NEW a, NEW host,
             Compute(kind, in, a, host)
      PROVE  \A v \in values' : Agrees(v) /\ (FullSlots' => v.payload = v.desc)
  <2> DEFINE descs == [k \in DOMAIN in |-> in[k].desc]
             slots == [k \in DOMAIN in |-> in[k].slots]
  <2>1. PICK v : Added(v, kind, in, a, host) /\ values' = values \cup {v}
    BY <1>5, ComputeAdds
  <2>2. PICK out \in Descs :
          /\ SameBase(descs, out) /\ MetadataRule(kind, descs, out, a, host)
          /\ v = Value(out, Derived(kind, [k \in DOMAIN in |-> in[k].pending], a),
                       Computed(kind, [k \in DOMAIN in |-> in[k].payload], slots, a),
                       in[1].slots, Turned(kind, in[1].slots, a))
    BY <2>1 DEF Added
  <2>3. in \in Seq(values) /\ descs \in Seq(Meta) /\ KindsOk(kind, descs)
    BY <1>5, OperandsInPlan DEF Compute
  <2>4. \A k \in DOMAIN in : in[k].pending = in[k].desc /\ in[k].payload = in[k].desc
    <3>1. \A w \in values : w.payload # Threw
      BY <1>5 DEF Compute, Sane
    <3>2. \A w \in values : w.pending = w.desc /\ w.payload = w.desc
      BY <1>1, <3>1 DEF Agrees
    <3>3. \A k \in DOMAIN in : in[k] \in values
      BY <2>3
    <3> QED
      BY <3>2, <3>3
  <2>5. /\ [k \in DOMAIN in |-> in[k].pending] = descs
        /\ [k \in DOMAIN in |-> in[k].payload] = descs
    BY <2>4
  <2>6. out \in Meta
    BY RulesConstantsOK
  <2>7. Derived(kind, descs, a) = out
    BY <2>2, <2>3, <2>6, RulesMatch
  <2>8. Computed(kind, descs, slots, a) \in {out, Threw}
    BY <2>7 DEF Computed
  <2>9. FullSlots' => Computed(kind, descs, slots, a) = out
    <3> SUFFICES ASSUME FullSlots' PROVE Computed(kind, descs, slots, a) = out
      OBVIOUS
    <3>1. \A k \in DOMAIN in : slots[k] = spec.slots
      BY <1>1, <2>3
    <3>2. Len(slots) = 2 => slots[1] = slots[2]
      BY <2>3, <3>1
    <3> QED
      BY <2>2, <2>3, <2>6, <3>2, ComputedMatch
  <2>10. v.desc = out /\ v.pending = out /\ v.payload = Computed(kind, descs, slots, a)
    BY <2>2, <2>5, <2>7 DEF Value
  <2>11. Agrees(v) /\ (FullSlots' => v.payload = v.desc)
    BY <2>8, <2>9, <2>10 DEF Agrees
  <2> QED
    BY <1>1, <2>1, <2>11
<1> QED
  BY <1>2, <1>3, <1>4, <1>5 DEF Next

\* In a plan that passed the verifier no computation overflows or gives metadata
\* other than its descriptor says, and none throws if all inputs fill their
\* slots: PlanVerifier::verify and VecExecutor agree for every OperatorSpec and
\* every plan.
THEOREM NoMetadataMismatch == Spec => []MetadataAgrees
<1>1. Init => TypeOK /\ MetadataAgrees
  BY InitTyped
<1>2. TypeOK /\ MetadataAgrees /\ [Next]_vars => (TypeOK /\ MetadataAgrees)'
  BY TypeStep, AgreeStep
<1> QED
  BY <1>1, <1>2, PTL DEF Spec
-----------------------------------------------------------------------------
(***************************************************************************)
(* Requirements and boot profiles.                                         *)
(***************************************************************************)
\* What a computation of a legal plan needs is added to the requirements.
LEMMA ComputeCovered ==
  ASSUME TypeOK, KeysCover, NEW kind \in Kinds, NEW in \in Operands(kind), NEW a, NEW host,
         Compute(kind, in, a, host)
  PROVE  KeysCover'
<1> DEFINE descs == [k \in DOMAIN in |-> in[k].desc]
<1>1. /\ SpecRule(spec, kind, descs, a) /\ spec' = spec
      /\ keys' = keys \cup KeysOf(spec, kind, a)
      /\ capabilities' = capabilities \cup CapabilitiesOf(kind, a, host)
  BY DEF Compute
<1>2. PICK v : Added(v, kind, in, a, host) /\ values' = values \cup {v}
  BY ComputeAdds
<1>3. in[1] \in values /\ v.turned = Turned(kind, in[1].slots, a)
  BY <1>2, OperandsInPlan DEF Added, Value
<1>4. ASSUME FullSlots', NEW step \in v.turned
      PROVE  step # 0 /\ <<"Galois", step>> \in keys'
  <2>1. in[1].slots = spec.slots
    BY <1>1, <1>2, <1>3, <1>4 DEF FullSlots
  <2>2. kind = "Rotate" /\ step = Normalized(a.steps, spec.slots)
    BY <1>3, <1>4, <2>1 DEF Turned, Normalized
  <2> QED
    BY <1>1, <2>2 DEF SpecRule, KeysOf
<1>5. FullSlots' => FullSlots
  BY <1>1, <1>2 DEF FullSlots
<1>6. ASSUME "BootDecryptReencrypt" \in CapabilitiesOf(kind, a, host)
      PROVE  "HostCompute" \in CapabilitiesOf(kind, a, host) /\ <<"Secret", 0>> \in KeysOf(spec, kind, a)
  <2>1. kind = "Boot" /\ a.impl # "Native"
    BY <1>6 DEF CapabilitiesOf
  <2>2. PICK b \in spec.boots : b.impl = a.impl
    BY <1>1, <2>1 DEF SpecRule, BootMatches
  <2>3. a.impl = "DecryptReencrypt"
    BY <2>1, <2>2, RulesConstantsOK DEF TypeOK, Profile
  <2>4. host
    BY <1>2, <2>1, <2>3 DEF Added, MetadataRule
  <2> QED
    BY <2>1, <2>3, <2>4 DEF CapabilitiesOf, KeysOf
<1> QED
  BY <1>1, <1>2, <1>4, <1>5, <1>6 DEF KeysCover

(* No step turns slots without its Galois key, or re-encrypts without Host.   *)
LEMMA KeysStep == TypeOK /\ KeysCover /\ [Next]_vars => KeysCover'
<1> SUFFICES ASSUME TypeOK, KeysCover, [Next]_vars PROVE KeysCover'
  OBVIOUS
<1>1. FullSlots' => FullSlots
  BY FullSlotsBefore
<1>2. CASE UNCHANGED vars
  BY <1>1, <1>2 DEF KeysCover, vars
<1>3. CASE \E d \in Inputs : \E slots \in SlotCounts : BindInput(d, slots)
  BY <1>1, <1>3 DEF KeysCover, BindInput, Value
<1>4. CASE \E d \in Inputs : Encode(d)
  BY <1>1, <1>4 DEF KeysCover, Encode, Value
<1> QED
  BY <1>2, <1>3, <1>4, ComputeCovered DEF Next

\* Every rotation turns the slots by a step whose Galois key preflight has
\* checked, and re-encryption has the Host and the secret key (PlanRequirements).
THEOREM RequirementsSuffice == Spec => []KeysCover
<1>1. Init => TypeOK /\ KeysCover
  BY InitTyped
<1>2. TypeOK /\ KeysCover /\ [Next]_vars => (TypeOK /\ KeysCover)'
  BY TypeStep, KeysStep
<1> QED
  BY <1>1, <1>2, PTL DEF Spec

\* The plan so far stays within the types of the structs, its values within the limits of
\* verify_value, and every input and result is bound to metadata of those types.
THEOREM RulesTyped == Spec => []TypeOK
<1>1. Init => TypeOK
  BY InitTyped
<1>2. TypeOK /\ [Next]_vars => TypeOK'
  BY TypeStep
<1>3. QED
  BY <1>1, <1>2, PTL DEF Spec

\* The reader of the OperatorSpec holds a boot profile against the same limits as
\* the verifier holds the values of a plan.
THEOREM ProfilesAccepted == Spec => []ProfilesUsable
<1>1. Init => TypeOK
  BY InitTyped
<1>2. TypeOK /\ [Next]_vars => TypeOK'
  BY TypeStep
<1>3. TypeOK => ProfilesUsable
  <2> SUFFICES ASSUME TypeOK, NEW b \in spec.boots
               PROVE  /\ b.level + 1 \in DOMAIN spec.moduli
                      /\ ValueOk(spec, [kind |-> "Ciphertext", level |-> b.level, scale |-> b.scale,
                                        components |-> b.components, ntt |-> TRUE])
    BY DEF ProfilesUsable
  <2>1. SpecOk(spec) /\ ProfileOk(spec, b)
    BY DEF TypeOK, SpecOk
  <2>2. spec.lower \in Nat /\ spec.upper \in Nat /\ spec.moduli \in Seq(Nat) /\ b.level \in Nat
    BY RulesConstantsOK DEF TypeOK, Ints, Profile
  <2>3. b.level + 1 \in DOMAIN spec.moduli
    BY <2>1, <2>2 DEF SpecOk, ProfileOk
  <2>4. b.level \in spec.lower .. spec.upper /\ b.scale < Budget(spec, b.level) /\ b.components >= 2
    BY <2>1 DEF ProfileOk
  <2> QED
    BY <2>3, <2>4 DEF ValueOk
<1> QED
  BY <1>1, <1>2, <1>3, PTL DEF Spec
=============================================================================
