----------------------------- MODULE PlanReader -----------------------------
(***************************************************************************)
(* RuntimePlanJsonReader (runtime/json_plan_reader.cpp): which documents   *)
(* are plans, and the plan that is made of one.  The plan is the record of *)
(* RuntimePlan with what that module leaves out: its target's identity,    *)
(* the bundle it refers to (<<>> for none), and in `data` the ordinal of   *)
(* each instruction with its attributes, payload or hint.                  *)
(***************************************************************************)
EXTENDS PlanVerifier, JsonUtils

PlaceShape ==
  [host   |-> [kind |-> "place", rank |-> "nonnegative"],
   device |-> [kind |-> "place", rank |-> "nonnegative", index |-> "nonnegative"]]

PlaceOk(v) == Tagged(v, "kind", DOMAIN PlaceShape) /\ ObjectOk(v, PlaceShape[Tag(v, "kind")])

ReadPlace(v) ==
  Place(Enum("place", v.object.kind), Number(v.object.rank),
        IF Tag(v, "kind") = "host" THEN 0 ELSE Number(v.object.index))

RefShape(digest) ==
  [m \in {"id", "version", digest} |->
     CASE m = "id" -> "string" [] m = "version" -> "positive" [] m = digest -> "sha"]

\* read_operator_spec and read_bundle_ref: digest is the member with the hash.
ReadRef(v, digest) ==
  [id |-> v.object.id, version |-> Number(v.object.version), digest |-> v.object[digest].sha]

TargetShape ==
  [target_id |-> "string", capability_version |-> "positive", operator_spec |-> "any",
   world_size |-> "positive", device_counts |-> "any"]

DocTargetOk(v) ==
  /\ ObjectOk(v, TargetShape)
  /\ ObjectOk(v.object.operator_spec, RefShape("source_sha256"))
  /\ LET Count(c) == LeafOk("nonnegative", c) IN ItemsOk(v.object.device_counts, Count)
  /\ Len(v.object.device_counts.array) = Number(v.object.world_size)

ValueShape ==
  [id |-> "id", kind |-> "value_kind", place |-> "any", context |-> "string",
   level |-> "nonnegative", scale_log2 |-> "nonnegative", ntt |-> "bool", components |-> "positive"]

ValueDescOk(v) == ObjectOk(v, ValueShape) /\ PlaceOk(v.object.place)

\* Mutant: two members of one type in the wrong order of the initializer list.
ReadValueDescSwapped(v) ==
  LET o == v.object IN
  [id |-> Id(o.id), kind |-> Enum("value_kind", o.kind), place |-> ReadPlace(o.place),
   meta |-> [context |-> o.context, level |-> Number(o.scale_log2), scale |-> Number(o.level),
             ntt |-> o.ntt.bool, components |-> Number(o.components)]]

ReadValueDesc(v) ==
  LET o == v.object IN
  [id |-> Id(o.id), kind |-> Enum("value_kind", o.kind), place |-> ReadPlace(o.place),
   meta |-> [context |-> o.context, level |-> Number(o.level), scale |-> Number(o.scale_log2),
             ntt |-> o.ntt.bool, components |-> Number(o.components)]]

IdsOk(v)   == LET IsId(e) == LeafOk("id", e) IN ItemsOk(v, IsId)
KindsOf(v) == LET Kind(e) == Enum("value_kind", e) IN Items(v, Kind)

-----------------------------------------------------------------------------
(***************************************************************************)
(* Instructions.                                                           *)
(***************************************************************************)
PayloadShape ==
  [inline |-> [kind |-> "string", values |-> "any"],
   bundle |-> [kind |-> "string", content |-> "sha"]]

EncodeDocOk(v) ==
  /\ ObjectOk(v, [ordinal |-> "nonnegative", kind |-> "string", payload |-> "any", output |-> "id"])
  /\ LET payload == v.object.payload IN
       /\ Tagged(payload, "kind", DOMAIN PayloadShape)
       /\ ObjectOk(payload, PayloadShape[Tag(payload, "kind")])
       /\ Tag(payload, "kind") = "inline" =>
            /\ LET IsNumber(e) == LeafOk("number", e) IN ItemsOk(payload.object.values, IsNumber)
            /\ payload.object.values.array # <<>>

\* The numbers of a payload stay as they are: rounding to float64 is left out.
ReadPayload(v) ==
  IF Tag(v, "kind") = "inline" THEN [inline |-> v.object.values.array]
  ELSE [content |-> v.object.content.sha]

AttrsShape ==
  [rotate |-> [steps |-> "int"],
   rescale |-> [target_level |-> "nonnegative", target_scale_log2 |-> "nonnegative"],
   mod_switch |-> [target_level |-> "nonnegative"],
   boot |-> [target_level |-> "nonnegative", target_scale_log2 |-> "nonnegative",
             target_components |-> "positive", operator_profile |-> "string",
             implementation |-> "boot"]]

\* The members of AttrsShape under the names of the structs, as CkksRules has them.
ReadAttrs(op, v) ==
  LET o == v.object IN
  CASE op = "rotate"     -> [steps |-> Number(o.steps)]
    [] op = "rescale"    -> [level |-> Number(o.target_level), scale |-> Number(o.target_scale_log2)]
    [] op = "mod_switch" -> [level |-> Number(o.target_level)]
    [] op = "boot"       -> [level |-> Number(o.target_level), scale |-> Number(o.target_scale_log2),
                             components |-> Number(o.target_components),
                             profile |-> o.operator_profile, impl |-> Enum("boot", o.implementation)]

ComputeShape ==
  [ordinal |-> "nonnegative", kind |-> "string", op |-> "compute", place |-> "any",
   inputs |-> "any", output |-> "id"]

ComputeDocOk(v) ==
  /\ Tagged(v, "op", DOMAIN Enums.compute)
  /\ LET op == Tag(v, "op") IN
       IF op \in DOMAIN AttrsShape
       THEN /\ ObjectOk(v, [m \in DOMAIN ComputeShape \cup {"attrs"} |->
                              IF m = "attrs" THEN "any" ELSE ComputeShape[m]])
            /\ ObjectOk(v.object.attrs, AttrsShape[op])
       ELSE ObjectOk(v, ComputeShape)
  /\ PlaceOk(v.object.place) /\ IdsOk(v.object.inputs)

CommDocOk(v) ==
  /\ ObjectOk(v, [ordinal |-> "nonnegative", kind |-> "string", transfer_id |-> "id",
                  hint |-> "hint", inputs |-> "any", outputs |-> "any", sources |-> "any",
                  destinations |-> "any", output_kinds |-> "any"])
  /\ IdsOk(v.object.inputs) /\ IdsOk(v.object.outputs)
  /\ ItemsOk(v.object.sources, PlaceOk) /\ ItemsOk(v.object.destinations, PlaceOk)
  /\ LET IsKind(e) == LeafOk("value_kind", e) IN ItemsOk(v.object.output_kinds, IsKind)

InstructionDocOk(v) ==
  /\ Tagged(v, "kind", {"encode", "compute", "transfer", "replicate"})
  /\ CASE Tag(v, "kind") = "encode"  -> EncodeDocOk(v)
       [] Tag(v, "kind") = "compute" -> ComputeDocOk(v)
       [] OTHER                      -> CommDocOk(v)

ReadInstruction(v) ==
  LET o == v.object IN
  CASE o.kind.string = "encode"  -> Encode(Id(o.output))
    [] o.kind.string = "compute" ->
         Compute(Enum("compute", o.op), Items(o.inputs, Id), Id(o.output), ReadPlace(o.place))
    [] OTHER ->
         [op |-> "Comm", kind |-> Enum("comm", o.kind), id |-> Id(o.transfer_id),
          place |-> Place("Host", 0, 0),
          inputs |-> Items(o.inputs, Id), outputs |-> Items(o.outputs, Id),
          sources |-> Items(o.sources, ReadPlace),
          destinations |-> Items(o.destinations, ReadPlace), types |-> KindsOf(o.output_kinds)]

\* The rest of an instruction: ordinal, and payload, attributes or hint.
ReadData(v) ==
  LET o == v.object IN
  [ordinal |-> Number(o.ordinal),
   payload |-> IF "payload" \in DOMAIN o THEN ReadPayload(o.payload) ELSE [none |-> 0],
   attrs   |-> IF "attrs" \in DOMAIN o THEN ReadAttrs(o.op.string, o.attrs) ELSE [none |-> 0],
   hint    |-> IF "hint" \in DOMAIN o THEN Enum("hint", o.hint) ELSE "none"]

-----------------------------------------------------------------------------
(***************************************************************************)
(* The document.                                                           *)
(***************************************************************************)
Phases == {"initialization", "execution", "finalization"}

PlanMembers ==
  {"format_version", "plan_id", "target", "values", "external_inputs", "final_outputs"} \cup Phases

PlanDocOk(v) ==
  /\ HasMembers(v, PlanMembers, {"plaintext_bundle"})
  /\ LET o == v.object IN
       /\ LeafOk("nonnegative", o.format_version) /\ Number(o.format_version) = 1
       /\ LeafOk("id", o.plan_id)
       /\ DocTargetOk(o.target)
       /\ "plaintext_bundle" \in DOMAIN o => ObjectOk(o.plaintext_bundle, RefShape("manifest_sha256"))
       /\ ItemsOk(o.values, ValueDescOk)
       /\ \A phase \in Phases : ItemsOk(o[phase], InstructionDocOk)
       /\ IdsOk(o.external_inputs) /\ IdsOk(o.final_outputs)

ReadPlanDoc(v) ==
  LET o == v.object
      t == o.target.object
      instructions == o.initialization.array \o o.execution.array \o o.finalization.array
  IN
  [plan_id |-> Id(o.plan_id), target_id |-> t.target_id,
   capability_version |-> Number(t.capability_version),
   operator_spec |-> ReadRef(t.operator_spec, "source_sha256"),
   world_size |-> Number(t.world_size), device_counts |-> Items(t.device_counts, Number),
   bundle |-> IF "plaintext_bundle" \in DOMAIN o
              THEN <<ReadRef(o.plaintext_bundle, "manifest_sha256")>> ELSE <<>>,
   values |-> Items(o.values, ReadValueDesc),
   external |-> Items(o.external_inputs, Id), final |-> Items(o.final_outputs, Id),
   code |-> Items([array |-> instructions], ReadInstruction),
   data |-> Items([array |-> instructions], ReadData),
   inits |-> Len(o.initialization.array)]
=============================================================================
