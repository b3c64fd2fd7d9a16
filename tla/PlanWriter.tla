----------------------------- MODULE PlanWriter -----------------------------
(***************************************************************************)
(* The format of a plan document, as the V1 schema lays it out             *)
(* (docs/runtime-plan/v1/schema.json): how each part of a plan is written. *)
(* It is the specification that PlanReader is held against, member by      *)
(* member.                                                                 *)
(***************************************************************************)
EXTENDS PlanReader

Obj(members) == [object |-> members]
Str(s) == [string |-> s]
Int_(n) == IF n < 0 THEN [int |-> n] ELSE [uint |-> n]
Numeral(n) == [numeral |-> [zeros |-> 0, value |-> n]]
Digest(name) == [sha |-> name]
Spelled(type, e) == Str(CHOOSE s \in DOMAIN Enums[type] : Enums[type][s] = e)
Arr(s, Write(_)) == [array |-> [k \in DOMAIN s |-> Write(s[k])]]
Kind(k) == Spelled("value_kind", k)

PlaceDoc(p) ==
  Obj([m \in {"kind", "rank"} \cup (IF p.kind = "Host" THEN {} ELSE {"index"}) |->
         CASE m = "kind" -> Spelled("place", p.kind) [] m = "rank" -> Int_(p.rank) [] OTHER -> Int_(p.index)])

RefDoc(ref, digest) ==
  Obj([m \in {"id", "version", digest} |->
         CASE m = "id" -> ref.id [] m = "version" -> Int_(ref.version) [] OTHER -> Digest(ref.digest)])

ValueDoc(v) ==
  Obj([id |-> Numeral(v.id), kind |-> Kind(v.kind), place |-> PlaceDoc(v.place),
       context |-> v.meta.context, level |-> Int_(v.meta.level), scale_log2 |-> Int_(v.meta.scale),
       ntt |-> [bool |-> v.meta.ntt], components |-> Int_(v.meta.components)])

AttrsDoc(kind, a) ==
  Obj(CASE kind = "Rotate"    -> [steps |-> Int_(a.steps)]
        [] kind = "Rescale"   -> [target_level |-> Int_(a.level), target_scale_log2 |-> Int_(a.scale)]
        [] kind = "ModSwitch" -> [target_level |-> Int_(a.level)]
        [] kind = "Boot" ->
             [target_level |-> Int_(a.level), target_scale_log2 |-> Int_(a.scale),
              target_components |-> Int_(a.components), operator_profile |-> a.profile,
              implementation |-> Spelled("boot", a.impl)])

InstructionDoc(ins, d) ==
  LET ordinal == Int_(d.ordinal)
      computation ==
        [ordinal |-> ordinal, kind |-> Str("compute"), op |-> Spelled("compute", ins.kind),
         place |-> PlaceDoc(ins.place), inputs |-> Arr(ins.inputs, Numeral),
         output |-> Numeral(ins.outputs[1])]
  IN
  Obj(CASE ins.op = "Encode" ->
             [ordinal |-> ordinal, kind |-> Str("encode"), output |-> Numeral(ins.outputs[1]),
              payload |-> IF "inline" \in DOMAIN d.payload
                          THEN Obj([kind |-> Str("inline"), values |-> [array |-> d.payload.inline]])
                          ELSE Obj([kind |-> Str("bundle"), content |-> Digest(d.payload.content)])]
        [] ins.op = "Compute" ->
             [m \in DOMAIN computation \cup (IF "none" \in DOMAIN d.attrs THEN {} ELSE {"attrs"}) |->
                IF m = "attrs" THEN AttrsDoc(ins.kind, d.attrs) ELSE computation[m]]
        [] OTHER ->
             [ordinal |-> ordinal, kind |-> Spelled("comm", ins.kind), transfer_id |-> Numeral(ins.id),
              hint |-> Spelled("hint", d.hint), inputs |-> Arr(ins.inputs, Numeral),
              outputs |-> Arr(ins.outputs, Numeral), sources |-> Arr(ins.sources, PlaceDoc),
              destinations |-> Arr(ins.destinations, PlaceDoc), output_kinds |-> Arr(ins.types, Kind)])

\* p is the plan that document v describes: every member is where it belongs and
\* nothing was dropped, filled in or cut.
Describes(v, p) ==
  LET o == v.object IN
  /\ v = Obj([o EXCEPT
              !.plan_id = Numeral(p.plan_id),
              !.target = Obj([target_id |-> p.target_id,
                              capability_version |-> Int_(p.capability_version),
                              operator_spec |-> RefDoc(p.operator_spec, "source_sha256"),
                              world_size |-> Int_(p.world_size),
                              device_counts |-> Arr(p.device_counts, Int_)]),
              !.values = Arr(p.values, ValueDoc),
              !.external_inputs = Arr(p.external, Numeral),
              !.final_outputs = Arr(p.final, Numeral)])
  /\ IF p.bundle = <<>> THEN "plaintext_bundle" \notin DOMAIN o
     ELSE o.plaintext_bundle = RefDoc(p.bundle[1], "manifest_sha256")
  /\ Len(o.initialization.array) = p.inits
  /\ o.initialization.array \o o.execution.array \o o.finalization.array
       = [i \in DOMAIN p.code |-> InstructionDoc(p.code[i], p.data[i])]
=============================================================================
