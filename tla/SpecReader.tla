----------------------------- MODULE SpecReader -----------------------------
(***************************************************************************)
(* OperatorSpecReader (runtime/operator_spec_reader.cpp), versions 1 and 2 *)
(* of the document, on the rules of OperatorSpec.  The tables of latency   *)
(* and noise, the default scale and the provenance are for compilers and   *)
(* are not kept: the runtime has no use for them.                          *)
(***************************************************************************)
EXTENDS OperatorSpec, JsonUtils, FiniteSets

IsNull(v) == Is(v, "null")

\* read_latency, read_noise: null, or one number for each level.
TableOk(v, rows, Row(_)) == IsNull(v) \/ (ItemsOk(v, Row) /\ Len(v.array) = rows)

LatencyOk(v, rows) == LET Row(e) == LeafOk("count", e) IN TableOk(v, rows, Row)
NoiseOk(v, rows)   == LET Row(e) == LeafOk("number", e) /\ Number(e) >= 0 IN TableOk(v, rows, Row)

Ordinary == DOMAIN Enums.compute \ {"boot"}

OperatorShape(name) ==
  LET common == {"supported", "latency_us_by_level", "noise_by_level"} IN
  [m \in common \cup (IF name = "rescale" THEN {"max_levels_per_op"} ELSE {}) |->
     CASE m = "supported" -> "bool" [] m = "max_levels_per_op" -> "positive" [] OTHER -> "any"]

OperatorOk(v, name, rows, version) ==
  /\ ObjectOk(v, OperatorShape(name))
  /\ LatencyOk(v.object.latency_us_by_level, rows)
  /\ IF version = 1 THEN IsNull(v.object.noise_by_level) ELSE NoiseOk(v.object.noise_by_level, rows)

HostShape == [needs_secret_key |-> "bool", needs_host_compute |-> "bool"]

ProfileShape(version) ==
  LET numbers == {"input_level_min", "input_level_max", "output_level", "output_scale_log2"}
      tables == IF version = 1 THEN {"latency_us"}
                ELSE {"latency_us_by_input_level", "noise_by_input_level"}
  IN
  [m \in numbers \cup tables \cup {"profile_id", "implementation", "input_components",
                                   "output_components", "host_requirements"} |->
     CASE m \in numbers -> "nonnegative"
       [] m \in {"input_components", "output_components"} -> "positive"
       [] m = "profile_id" -> "string" [] m = "implementation" -> "boot"
       [] m = "latency_us" -> "count" [] OTHER -> "any"]

ProfileDocOk(v, rows, version) ==
  /\ ObjectOk(v, ProfileShape(version))
  /\ ObjectOk(v.object.host_requirements, HostShape)
  /\ version = 2 => /\ LatencyOk(v.object.latency_us_by_input_level, rows)
                    /\ NoiseOk(v.object.noise_by_input_level, rows)

ReadProfile(v) ==
  LET o == v.object IN
  [id |-> o.profile_id, impl |-> Enum("boot", o.implementation),
   min |-> Number(o.input_level_min), max |-> Number(o.input_level_max),
   in_components |-> Number(o.input_components), level |-> Number(o.output_level),
   scale |-> Number(o.output_scale_log2), components |-> Number(o.output_components),
   secret |-> o.host_requirements.object.needs_secret_key.bool,
   host |-> o.host_requirements.object.needs_host_compute.bool]

-----------------------------------------------------------------------------
ContextShape ==
  [context_id |-> "string", poly_degree |-> "count", rns_moduli_log2 |-> "any",
   max_modulus_log2 |-> "bits", default_scale_log2 |-> "nonnegative"]

\* 2, 4, 8, ...: halving it comes to 1.
IsPowerOfTwo(n) ==
  LET halves[k \in 0 .. n] == IF k <= 1 THEN k = 1 ELSE k % 2 = 0 /\ halves[k \div 2]
  IN  n >= 2 /\ halves[n]

ContextOk(v) ==
  /\ ObjectOk(v, ContextShape)
  /\ LET o == v.object IN
       /\ IsPowerOfTwo(Number(o.poly_degree))
       /\ LET Bits(e) == LeafOk("bits", e) IN ItemsOk(o.rns_moduli_log2, Bits)
       /\ o.rns_moduli_log2.array # <<>>
       /\ \A k \in DOMAIN o.rns_moduli_log2.array :
            Number(o.rns_moduli_log2.array[k]) <= Number(o.max_modulus_log2)

ProvenanceShape ==
  [kind |-> "string", repository |-> "string", revision |-> "string", path |-> "string",
   source_sha256 |-> "sha"]

SpecMembers(version) ==
  {"spec_format_version", "spec_id", "version", "status", "target_id", "rescale_mode",
   "context", "levels", "operators", "boot_profiles"}
  \cup IF version = 1 THEN {} ELSE {"noise_unit", "provenance"}

Statuses(version) == {IF version = 1 THEN "placeholder" ELSE "imported", "validated"}

\* Some table of noise is there: those of the operators or of a profile.
HasNoise(o) ==
  \/ \E name \in Ordinary : ~IsNull(o.operators.object[name].object.noise_by_level)
  \/ \E k \in DOMAIN o.boot_profiles.array :
       ~IsNull(o.boot_profiles.array[k].object.noise_by_input_level)

IdentityOk(o, version) ==
  /\ LeafOk("string", o.spec_id) /\ LeafOk("positive", o.version) /\ LeafOk("string", o.target_id)
  /\ LeafOk("rescale_mode", o.rescale_mode)
  /\ Is(o.status, "string") /\ o.status.string \in Statuses(version)
  /\ version = 2 => /\ (IsNull(o.noise_unit) \/ LeafOk("string", o.noise_unit))
                    /\ ObjectOk(o.provenance, ProvenanceShape)

OperatorsOk(v, rows, version) ==
  /\ HasMembers(v, DOMAIN Enums.compute, {})
  /\ \A name \in Ordinary : OperatorOk(v.object[name], name, rows, version)
  /\ ObjectOk(v.object.boot, [supported |-> "bool"])

LevelsShape == [lower_bound |-> "nonnegative", upper_bound |-> "nonnegative"]

ReadSpecDoc(v) ==
  LET o == v.object
      c == o.context.object
      Supported(name) == o.operators.object[name].object.supported.bool
  IN
  [id |-> o.spec_id, version |-> Number(o.version), target_id |-> o.target_id,
   context_id |-> c.context_id, slots |-> Number(c.poly_degree) \div 2,
   moduli |-> Items(c.rns_moduli_log2, Number),
   lower |-> Number(o.levels.object.lower_bound), upper |-> Number(o.levels.object.upper_bound),
   supported |-> {Enums.compute[name] : name \in {n \in DOMAIN Enums.compute : Supported(n)}},
   max_drop |-> Number(o.operators.object.rescale.object.max_levels_per_op),
   boots |-> {ReadProfile(o.boot_profiles.array[k]) : k \in DOMAIN o.boot_profiles.array}]

SpecDocOk(v) ==
  /\ Is(v, "object") /\ "spec_format_version" \in DOMAIN v.object
  /\ LeafOk("nonnegative", v.object.spec_format_version)
  /\ LET o == v.object
         version == Number(o.spec_format_version)
         rows == Number(o.levels.object.upper_bound) + 1
     IN
       /\ version \in {1, 2}
       /\ HasMembers(v, SpecMembers(version), {})
       /\ IdentityOk(o, version)
       /\ ContextOk(o.context)
       /\ ObjectOk(o.levels, LevelsShape)
       /\ OperatorsOk(o.operators, rows, version)
       /\ LET Profile(e) == ProfileDocOk(e, rows, version) IN ItemsOk(o.boot_profiles, Profile)
       /\ LET spec == ReadSpecDoc(v) IN
            /\ SpecOk(spec)
            /\ Cardinality({b.id : b \in spec.boots}) = Len(o.boot_profiles.array)
       /\ version = 2 => (HasNoise(o) <=> ~IsNull(o.noise_unit))
=============================================================================
