----------------------------- MODULE CkksRules -----------------------------
(***************************************************************************)
(* The CKKS metadata of a plan, three times: what the plan says of each    *)
(* value and verify_compute_metadata lets pass (runtime/verifier.cpp), what*)
(* the executor predicts when a computation is issued (compute_metadata)   *)
(* and what it really produces (compute_now, both api/vec_api.cpp).  The   *)
(* limits come from the OperatorSpec (runtime/operator_spec_reader.cpp).   *)
(*                                                                         *)
(* A behaviour builds a legal plan value by value; a value is a record of  *)
(* the three.  The context is one and the same everywhere and is left out, *)
(* as are the contents of the slots.                                       *)
(***************************************************************************)
EXTENDS OperatorSpec, FiniteSets

CONSTANTS
  Specs,      \* candidate OperatorSpecs, as read
  IntMax,     \* numeric_limits<int>::max()
  Descs,      \* the metadata a plan may give its values
  Inputs,     \* those of external inputs and encoded plaintexts
  SlotCounts, \* how many slots an external input may have
  Attributes, \* compute kind -> the attributes it may come with
  MaxValues   \* bound on the values of a plan

Unary  == {"Negate", "Rotate", "Rescale", "ModSwitch", "Relinearize", "Boot"}
Adding == {"AddCC", "SubCC", "AddCP", "SubCP"}
Multiplying == {"MulCC", "MulCP"}
Kinds  == Unary \cup Adding \cup Multiplying
TakesPlain == {"AddCP", "SubCP", "MulCP"}

Ints == 0 .. IntMax
Meta == [kind : {"Ciphertext", "Plaintext"}, level : Ints, scale : Ints,
         components : Ints, ntt : BOOLEAN]
Profile == [impl : {"Native", "DecryptReencrypt"}, min : Ints, max : Ints,
            in_components : Ints, level : Ints, scale : Ints,
            components : Ints, secret : BOOLEAN, host : BOOLEAN]

\* Zero is among the moduli and components: read_int compares an unsigned
\* number with its maximum only (json_utils.hpp 66).

ASSUME RulesConstantsOK ==
  /\ IntMax \in Nat
  /\ \A s \in Specs : /\ s.moduli \in Seq(Nat) /\ Len(s.moduli) > 0
                      /\ s.lower \in Ints /\ s.upper \in Ints
                      /\ s.slots \in Nat \ {0} /\ s.max_drop \in Ints
                      /\ s.supported \subseteq Kinds /\ s.boots \subseteq Profile
  /\ Descs \subseteq Meta /\ Inputs \subseteq Descs
  /\ SlotCounts \subseteq Nat \ {0}
  /\ DOMAIN Attributes = Kinds

VARIABLES
  spec,          \* the OperatorSpec
  values,        \* the values defined so far
  keys,          \* PlanRequirements::keys
  capabilities   \* PlanRequirements::capabilities

vars == <<spec, values, keys, capabilities>>

-----------------------------------------------------------------------------
(***************************************************************************)
(* verify_compute_metadata and the rules of verify about one computation:  *)
(* in is the sequence of operand descriptors, out the output's, a the      *)
(* attributes, host whether the place is a Host.                           *)
(***************************************************************************)
KindsOk(kind, in) ==
  /\ Len(in) = IF kind \in Unary THEN 1 ELSE 2
  /\ in[1].kind = "Ciphertext"
  /\ Len(in) = 2 => in[2].kind = IF kind \in TakesPlain THEN "Plaintext" ELSE "Ciphertext"

SameBase(in, out) ==
  /\ out.kind = "Ciphertext" /\ out.ntt = in[1].ntt
  /\ Len(in) = 2 => in[2].ntt = in[1].ntt /\ in[2].level = in[1].level

\* Mutant: the scales of the operands of an addition may differ.
AddRuleAnyScale(in, out) == out = in[1]

AddRule(in, out) == in[1].scale = in[2].scale /\ out = in[1]

MulRule(in, out) ==
  /\ out.level = in[1].level
  /\ out.scale = in[1].scale + in[2].scale

MetadataRule(kind, in, out, a, host) ==
  CASE kind \in {"AddCC", "SubCC"} -> AddRule(in, out) /\ in[1].components = in[2].components
    [] kind \in {"AddCP", "SubCP"} -> AddRule(in, out)
    [] kind = "MulCC" -> /\ MulRule(in, out)
                         /\ out.components = in[1].components + in[2].components - 1
    [] kind = "MulCP" -> MulRule(in, out) /\ out.components = in[1].components
    [] kind = "Negate" -> out = in[1]
    [] kind = "Rotate" -> a.steps # 0 /\ in[1].components = 2 /\ out = in[1]
    [] kind = "Rescale" -> /\ a.level < in[1].level
                           /\ out.level = a.level /\ out.scale = a.scale
                           /\ out.components = in[1].components
    [] kind = "ModSwitch" -> /\ a.level < in[1].level
                             /\ out.level = a.level /\ out.scale = in[1].scale
                             /\ out.components = in[1].components
    [] kind = "Relinearize" -> /\ in[1].components = 3 /\ out.components = 2
                               /\ out.level = in[1].level /\ out.scale = in[1].scale
    [] OTHER -> /\ out.level = a.level /\ out.scale = a.scale /\ out.components = a.components
                /\ a.impl = "DecryptReencrypt" => host

\* C++'s remainder has the sign of the dividend.
CRemainder(n, m) == IF n >= 0 THEN n % m ELSE -((-n) % m)

\* Mutant: the sign of a backward rotation is dropped.
NormalizedAbsolute(steps, slots) == (IF steps >= 0 THEN steps ELSE -steps) % slots

Normalized(steps, slots) ==
  LET remainder == CRemainder(steps, slots) IN
  IF remainder < 0 THEN remainder + slots ELSE remainder

BootMatches(b, in, a) ==
  /\ a.profile = b
  /\ b.impl = a.impl
  /\ in[1].level \in b.min .. b.max /\ in[1].components = b.in_components
  /\ a.level = b.level /\ a.scale = b.scale /\ a.components = b.components

SpecRule(s, kind, in, a) ==
  /\ kind \in s.supported
  /\ kind = "Rotate" => Normalized(a.steps, s.slots) # 0
  /\ kind = "Rescale" => in[1].level - a.level <= s.max_drop
  /\ kind = "Boot" => \E b \in s.boots : BootMatches(b, in, a)

KeysOf(s, kind, a) ==
  CASE kind = "Rotate"      -> {<<"Galois", Normalized(a.steps, s.slots)>>}
    [] kind = "Relinearize" -> {<<"Relin", 0>>}
    [] kind = "Boot" /\ a.impl = "DecryptReencrypt" -> {<<"Secret", 0>>}
    [] OTHER                -> {}

CapabilitiesOf(kind, a, host) ==
  (IF host THEN {"HostCompute"} ELSE {})
  \cup (IF kind # "Boot" THEN {}
        ELSE IF a.impl = "Native" THEN {"BootNative"} ELSE {"BootDecryptReencrypt"})

-----------------------------------------------------------------------------
(***************************************************************************)
(* The executor.  Both of its functions give the metadata of the output,   *)
(* throw, or overflow an int; in is the operands' metadata as they know it.*)
(***************************************************************************)
NoMeta(why) == [kind |-> why, level |-> 0, scale |-> 0, components |-> 1, ntt |-> FALSE]
Threw     == NoMeta("threw")
Undefined == NoMeta("undefined")

Product(kind, in) ==
  LET components == IF kind = "MulCC" THEN in[1].components + in[2].components - 1
                    ELSE in[1].components
  IN  IF in[2].scale > IntMax - in[1].scale THEN Threw
      ELSE IF components > IntMax THEN Undefined
      ELSE [in[1] EXCEPT !.scale = in[1].scale + in[2].scale, !.components = components]

\* What compute_metadata and compute_now do alike.
Derived(kind, in, a) ==
  IF ~KindsOk(kind, in) THEN Threw
  ELSE IF Len(in) = 2 /\ (in[1].level # in[2].level \/ in[1].ntt # in[2].ntt) THEN Threw
  ELSE
  CASE kind \in Adding -> IF in[1].scale # in[2].scale THEN Threw ELSE in[1]
    [] kind \in Multiplying -> Product(kind, in)
    [] kind \in {"Negate", "Rotate"} -> in[1]
    [] kind = "Rescale" -> IF a.level >= in[1].level THEN Threw
                           ELSE [in[1] EXCEPT !.level = a.level, !.scale = a.scale]
    [] kind = "ModSwitch" -> IF a.level >= in[1].level THEN Threw
                             ELSE [in[1] EXCEPT !.level = a.level]
    [] kind = "Relinearize" -> IF in[1].components <= 2 THEN Threw
                               ELSE [in[1] EXCEPT !.components = 2]
    [] OTHER -> [in[1] EXCEPT !.level = a.level, !.scale = a.scale, !.components = a.components]

\* compute_now also sees the slots, and refuses a negative scale.
Computed(kind, in, slots, a) ==
  IF \/ Len(slots) = 2 /\ slots[1] # slots[2]
     \/ kind = "Rescale" /\ a.scale < 0
  THEN Threw ELSE Derived(kind, in, a)

\* How far std::rotate turns the slots.
Turned(kind, slots, a) ==
  LET remainder == CRemainder(a.steps, slots) IN
  IF kind # "Rotate" THEN {} ELSE {IF remainder < 0 THEN remainder + slots ELSE remainder}

-----------------------------------------------------------------------------
(***************************************************************************)
(* Building a plan.                                                        *)
(***************************************************************************)
Value(desc, pending, payload, slots, turned) ==
  [desc |-> desc, pending |-> pending, payload |-> payload, slots |-> slots, turned |-> turned]

\* A run ends at the first computation that throws.
Sane == \A v \in values : {v.pending, v.payload} \cap {Threw, Undefined} = {}

Room == Cardinality(values) < MaxValues

\* bind_inputs: validate_value compares the metadata with the descriptor, not
\* the number of slots.
BindInput(d, slots) ==
  /\ Room /\ ValueOk(spec, d)
  /\ values' = values \cup {Value(d, d, d, slots, {})}
  /\ UNCHANGED <<spec, keys, capabilities>>

\* encode_plaintext pads to the capacity.
Encode(d) ==
  /\ Room /\ ValueOk(spec, d) /\ d.kind = "Plaintext"
  /\ values' = values \cup {Value(d, d, d, spec.slots, {})}
  /\ capabilities' = capabilities \cup {"Encode"}
  /\ UNCHANGED <<spec, keys>>

\* A computation of a legal plan, and what becomes of it.
Compute(kind, in, a, host) ==
  LET descs == [k \in DOMAIN in |-> in[k].desc] IN
  /\ Room /\ Sane
  /\ KindsOk(kind, descs)
  /\ SpecRule(spec, kind, descs, a)
  /\ \E out \in Descs :
       /\ SameBase(descs, out)
       /\ MetadataRule(kind, descs, out, a, host)
       /\ ValueOk(spec, out)
       /\ values' = values \cup
            {Value(out, Derived(kind, [k \in DOMAIN in |-> in[k].pending], a),
                   Computed(kind, [k \in DOMAIN in |-> in[k].payload],
                            [k \in DOMAIN in |-> in[k].slots], a),
                   in[1].slots, Turned(kind, in[1].slots, a))}
  /\ keys' = keys \cup KeysOf(spec, kind, a)
  /\ capabilities' = capabilities \cup CapabilitiesOf(kind, a, host)
  /\ UNCHANGED spec

Operands(kind) == {<<v>> : v \in values} \cup {<<v, w>> : v \in values, w \in values}

Init ==
  /\ spec \in {s \in Specs : SpecOk(s)}
  /\ values = {} /\ keys = {} /\ capabilities = {}

Next ==
  \/ \E d \in Inputs : \E slots \in SlotCounts : BindInput(d, slots)
  \/ \E d \in Inputs : Encode(d)
  \/ \E kind \in Kinds : \E in \in Operands(kind) : \E a \in Attributes[kind] :
       \E host \in BOOLEAN : Compute(kind, in, a, host)

Spec == Init /\ [][Next]_vars

-----------------------------------------------------------------------------
(***************************************************************************)
(* Properties.                                                             *)
(***************************************************************************)
\* The variables have the types of what they stand for; a value of a legal plan
\* is at a level of the OperatorSpec, and a plaintext just when it has one
\* component.
TypeOK ==
  /\ spec \in Specs /\ SpecOk(spec)
  /\ \A v \in values :
       /\ v.desc \in Descs /\ v.slots \in Nat \ {0}
       /\ v.desc.level \in spec.lower .. spec.upper
       /\ v.desc.kind = "Plaintext" <=> v.desc.components = 1
  /\ capabilities \subseteq {"Encode", "HostCompute", "BootNative", "BootDecryptReencrypt"}

FullSlots == \A v \in values : v.slots = spec.slots

\* In a plan that passed the verifier no computation overflows or gives metadata
\* other than its descriptor says, neither when it is issued nor when it is
\* carried out, so fulfill never meets a mismatch (vec_value.cpp 45).  One that
\* is carried out may still throw, but only if some input came with another
\* number of slots than the OperatorSpec has (require_compatible, vec_api.cpp 12).
MetadataAgrees ==
  \A v \in values : /\ v.pending = v.desc /\ v.payload \in {v.desc, Threw}
                    /\ FullSlots => v.payload = v.desc

\* What preflight has checked is enough: a rotation turns the slots by a step
\* other than zero whose Galois key is required (the verifier and the executor
\* normalize it apart, verifier.cpp 157 and vec_api.cpp 171), and re-encryption
\* has the Host and the secret key it needs.
KeysCover ==
  /\ FullSlots => \A v \in values : \A step \in v.turned : step # 0 /\ <<"Galois", step>> \in keys
  /\ "BootDecryptReencrypt" \in capabilities => "HostCompute" \in capabilities /\ <<"Secret", 0>> \in keys

\* What a boot profile of an accepted OperatorSpec puts out is a value that
\* the verifier accepts in a plan, at one of the levels of the modulus chain.
ProfilesUsable ==
  \A b \in spec.boots :
    /\ b.level + 1 \in DOMAIN spec.moduli
    /\ ValueOk(spec, [kind |-> "Ciphertext", level |-> b.level, scale |-> b.scale,
                      components |-> b.components, ntt |-> TRUE])
=============================================================================
