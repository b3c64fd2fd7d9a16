----------------------------- MODULE MCLoading -----------------------------
(***************************************************************************)
(* Instances of Loading: one plan, OperatorSpec and bundle that fit, each  *)
(* document also with any one of its parts replaced, removed or added to.  *)
(* A file is named <<kind, path of the part, change>>; change 0 is the     *)
(* document as it is, change -1 other bytes with the same document.        *)
(***************************************************************************)
EXTENDS Loading, TLC

PlanName(change) == <<"plan", <<>>, change>>
SpecName(change) == <<"spec", <<>>, change>>
ManifestName(change) == <<"manifest", <<>>, change>>
BlobName(n) == <<"blob", n, 0>>

Num(n) == [uint |-> n]
Empty == [array |-> <<>>]
Nothing == [null |-> 0]
HostPlace(rank) == Obj([kind |-> Str("host"), rank |-> Num(rank)])
DevicePlace(rank) == Obj([kind |-> Str("device"), rank |-> Num(rank), index |-> Num(0)])

ValueJson(id, kind, place, components) ==
  Obj([id |-> Numeral(id), kind |-> Str(kind), place |-> place, context |-> Str("ctx"),
       level |-> Num(1), scale_log2 |-> Num(2), ntt |-> [bool |-> TRUE], components |-> Num(components)])

Cipher(id) == ValueJson(id, "ciphertext", HostPlace(0), 2)

EncodeJson(n, payload, output) ==
  Obj([ordinal |-> Num(n), kind |-> Str("encode"), payload |-> payload, output |-> Numeral(output)])

BundlePayload(n) == Obj([kind |-> Str("bundle"), content |-> Digest(BlobName(n))])

ComputeJson(n, op, inputs, output) ==
  [ordinal |-> Num(n), kind |-> Str("compute"), op |-> Str(op), place |-> HostPlace(0),
   inputs |-> Arr(inputs, Numeral), output |-> Numeral(output)]

WithAttrs(members, attrs) == Obj(("attrs" :> Obj(attrs)) @@ members)

BasePlan ==
  Obj([format_version |-> Num(1), plan_id |-> Numeral(5),
       target |-> Obj([target_id |-> Str("t"), capability_version |-> Num(1), world_size |-> Num(2),
                       operator_spec |-> Obj([id |-> Str("s"), version |-> Num(1),
                                              source_sha256 |-> Digest(SpecName(0))]),
                       device_counts |-> [array |-> <<Num(0), Num(1)>>]]),
       plaintext_bundle |-> Obj([id |-> Str("b"), version |-> Num(1),
                                 manifest_sha256 |-> Digest(ManifestName(0))]),
       values |-> [array |-> <<ValueJson(1, "plaintext", HostPlace(0), 1),
                               ValueJson(2, "plaintext", HostPlace(1), 1),
                               ValueJson(3, "plaintext", HostPlace(0), 1),
                               Cipher(4), Cipher(6), Cipher(7), Cipher(8), Cipher(9),
                               ValueJson(10, "ciphertext", DevicePlace(1), 2)>>],
       external_inputs |-> [array |-> <<Numeral(4)>>],
       initialization |-> [array |->
         << EncodeJson(0, BundlePayload(1), 1), EncodeJson(1, BundlePayload(2), 2),
            EncodeJson(2, Obj([kind |-> Str("inline"), values |-> [array |-> <<[float |-> 0], Num(3)>>]]), 3)>>],
       execution |-> [array |->
         << Obj(ComputeJson(3, "mul_cp", <<4, 1>>, 6)),
            WithAttrs(ComputeJson(4, "rotate", <<6>>, 7), [steps |-> [int |-> -1]]),
            WithAttrs(ComputeJson(5, "rescale", <<7>>, 8),
                      [target_level |-> Num(1), target_scale_log2 |-> Num(2)]),
            WithAttrs(ComputeJson(6, "boot", <<8>>, 9),
                      [target_level |-> Num(1), target_scale_log2 |-> Num(2), target_components |-> Num(2),
                       operator_profile |-> Str("p"), implementation |-> Str("native")])>>],
       finalization |-> [array |->
         << Obj([ordinal |-> Num(7), kind |-> Str("transfer"), transfer_id |-> Numeral(1),
                 hint |-> Str("auto"), inputs |-> Arr(<<9>>, Numeral), outputs |-> Arr(<<10>>, Numeral),
                 sources |-> [array |-> <<HostPlace(0)>>],
                 destinations |-> [array |-> <<DevicePlace(1)>>],
                 output_kinds |-> [array |-> <<Str("ciphertext")>>]])>>],
       final_outputs |-> [array |-> <<Numeral(10)>>]])

OperatorJson == Obj([supported |-> [bool |-> TRUE], latency_us_by_level |-> Nothing,
                     noise_by_level |-> [array |-> <<[float |-> 0], Num(1)>>]])

BaseSpec ==
  Obj([spec_format_version |-> Num(2), spec_id |-> Str("s"), version |-> Num(1),
       status |-> Str("imported"), target_id |-> Str("t"), rescale_mode |-> Str("lazy"),
       noise_unit |-> Str("bit"),
       provenance |-> Obj([kind |-> Str("k"), repository |-> Str("r"), revision |-> Str("v"),
                           path |-> Str("p"), source_sha256 |-> Digest(SpecName(0))]),
       context |-> Obj([context_id |-> Str("ctx"), poly_degree |-> Num(4), max_modulus_log2 |-> Num(8),
                        rns_moduli_log2 |-> [array |-> <<Num(4), Num(4)>>], default_scale_log2 |-> Num(2)]),
       levels |-> Obj([lower_bound |-> Num(0), upper_bound |-> Num(1)]),
       operators |-> Obj([name \in DOMAIN Enums.compute |->
         CASE name = "boot" -> Obj([supported |-> [bool |-> TRUE]])
           [] name = "rescale" -> Obj(("max_levels_per_op" :> Num(1)) @@ OperatorJson.object)
           [] OTHER -> OperatorJson]),
       boot_profiles |-> [array |->
         << Obj([profile_id |-> Str("p"), implementation |-> Str("native"),
                 input_level_min |-> Num(0), input_level_max |-> Num(1), input_components |-> Num(2),
                 output_level |-> Num(1), output_scale_log2 |-> Num(2), output_components |-> Num(2),
                 latency_us_by_input_level |-> [array |-> <<Num(3), Num(3)>>],
                 noise_by_input_level |-> Nothing,
                 host_requirements |-> Obj([needs_secret_key |-> [bool |-> FALSE],
                                            needs_host_compute |-> [bool |-> FALSE]])])>>]])

BaseManifest ==
  Obj([bundle_format_version |-> Num(1), bundle_id |-> Str("b"), version |-> Num(1),
       blobs |-> [array |-> [n \in 1 .. 2 |->
                    Obj([content |-> Digest(BlobName(n)), byte_length |-> Num(16)])]]])

-----------------------------------------------------------------------------
(***************************************************************************)
(* One part of a document changed.                                         *)
(***************************************************************************)
RECURSIVE Paths(_)
Paths(v) ==
  {<<>>} \cup IF Is(v, "object")
              THEN UNION {{<<m>> \o path : path \in Paths(v.object[m])} : m \in DOMAIN v.object}
              ELSE IF Is(v, "array")
              THEN UNION {{<<k>> \o path : path \in Paths(v.array[k])} : k \in DOMAIN v.array}
              ELSE {}

RECURSIVE At(_, _)
At(v, path) ==
  IF path = <<>> THEN v
  ELSE At(IF Is(v, "object") THEN v.object[Head(path)] ELSE v.array[Head(path)], Tail(path))

RECURSIVE Replace(_, _, _)
Replace(v, path, new) ==
  IF path = <<>> THEN new
  ELSE IF Is(v, "object")
       THEN [object |-> [v.object EXCEPT ![Head(path)] = Replace(@, Tail(path), new)]]
       ELSE [array |-> [v.array EXCEPT ![Head(path)] = Replace(@, Tail(path), new)]]

\* What a part may be replaced by: any part, and those that are a name in a list.
Junk ==
  << Nothing, Num(0), Num(2), Num(IntMax + 1), [int |-> -1], [float |-> -1], Str(""), Str("x"),
     Numeral(3), Numeral(WordMax + 1), [numeral |-> [zeros |-> 1, value |-> 3]],
     Digest(BlobName(3)), [bool |-> FALSE], Empty, Obj(<<>>) >>

Spellings ==
  <<Str("device"), Str("plaintext"), Str("negate"), Str("tree"), Str("validated"), Str("decrypt_reencrypt")>>

Words == UNION {DOMAIN Enums[type] : type \in DOMAIN Enums}
         \cup {"encode", "compute", "inline", "bundle", "imported"}

\* The other changes: the first member removed, an unknown one added, an array
\* cut short or doubled.
Changes == Len(Junk) + Len(Spellings) + 2

Apply(v, change) ==
  IF change <= Len(Junk) THEN Junk[change]
  ELSE IF change < Changes - 1 THEN Spellings[change - Len(Junk)]
  ELSE IF Is(v, "object") /\ DOMAIN v.object # {} THEN
    IF change = Changes THEN Obj(("zz" :> Nothing) @@ v.object)
    ELSE Obj([m \in DOMAIN v.object \ {CHOOSE m \in DOMAIN v.object : TRUE} |-> v.object[m]])
  ELSE IF Is(v, "array") /\ v.array # <<>> THEN
    [array |-> IF change = Changes THEN Tail(v.array) ELSE v.array \o <<v.array[1]>>]
  ELSE v

\* The parts that are changed: of the values and instructions those that differ.
PlanParts == {path \in Paths(BasePlan) :
               Len(path) > 1 /\ path[1] = "values" => path[2] \in {1, 9}}
SpecParts == {path \in Paths(BaseSpec) :
               Len(path) > 1 /\ path[1] = "operators" => path[2] \in {"rotate", "rescale", "boot"}}

ChangesOf(v) ==
  IF Is(v, "string") /\ v.string \in Words THEN 1 .. Changes
  ELSE 1 .. Len(Junk) \cup {Changes - 1, Changes}

\* The documents with one part changed, the one that is as it was left out.
Texts(kind, base, parts) ==
  LET name(path, change) == <<kind, path, change>> IN
  [n \in UNION {{name(path, change) : change \in {c \in ChangesOf(At(base, path)) :
                                           Apply(At(base, path), c) # At(base, path)}}
                 : path \in parts} \cup {name(<<>>, 0), name(<<>>, -1)}
     |-> IF n[3] < 1 THEN base ELSE Replace(base, n[2], Apply(At(base, n[2]), n[3]))]

\* No bundle: everything is inline.
InlinePlan ==
  LET inline == Obj([kind |-> Str("inline"), values |-> [array |-> <<Num(1)>>]])
      plan == Replace(Replace(BasePlan, <<"initialization", 1, "payload">>, inline),
                      <<"initialization", 2, "payload">>, inline)
  IN  Obj([m \in DOMAIN plan.object \ {"plaintext_bundle"} |-> plan.object[m]])

PlanTexts == Texts("plan", BasePlan, PlanParts) @@ (PlanName(-2) :> InlinePlan)
SpecTexts == Texts("spec", BaseSpec, SpecParts)
ManifestTexts == Texts("manifest", BaseManifest, Paths(BaseManifest))

\* TLC keeps the value of a definition, not that of a constant replaced by one.
AllTexts == PlanTexts @@ SpecTexts @@ ManifestTexts
MCText == AllTexts

RECURSIVE PartsOf(_)
PartsOf(v) ==
  {v} \cup IF Is(v, "object") THEN UNION {PartsOf(v.object[m]) : m \in DOMAIN v.object}
           ELSE IF Is(v, "array") THEN UNION {PartsOf(v.array[k]) : k \in DOMAIN v.array}
           ELSE {}

\* What the theorems about the readers suppose: the documents with all their parts are
\* JSON values (beside the path to a change a document is as it was).
ASSUME DocumentsAreJson ==
  LET texts == AllTexts
      parts == UNION {PartsOf(At(texts[n], n[2])) : n \in DOMAIN texts}
      changed == UNION {{At(texts[n], SubSeq(n[2], 1, k)) : k \in 0 .. Len(n[2])} : n \in DOMAIN texts}
  IN  \E json \in {parts \cup changed} : DocumentsIn(json) /\ MinusZero \notin json

MCBlobs == [name \in {BlobName(n) : n \in 1 .. 5} |->
              [length |-> IF name = BlobName(4) THEN 8 ELSE 16, finite |-> name # BlobName(5)]]
MCBlobFiles == DOMAIN MCBlobs

Files(plans, specs, manifests) == [plan : plans, spec : specs, manifest : manifests]

\* Both ranks have the right documents or other bytes, or rank 0 has one that is not
\* as it should be, or both have the plan without a bundle.
AllDeployments ==
  LET same == Files({PlanName(0), PlanName(-1)}, {SpecName(0), SpecName(-1)},
                    {ManifestName(0), ManifestName(-1)})
      right == Files({PlanName(0)}, {SpecName(0)}, {ManifestName(0)})
      changed == Files(DOMAIN PlanTexts, {SpecName(0)}, {ManifestName(0)})
                 \cup Files({PlanName(0)}, DOMAIN SpecTexts, {ManifestName(0)})
                 \cup Files({PlanName(0)}, {SpecName(0)}, DOMAIN ManifestTexts)
      inline == Files({PlanName(-2)}, {SpecName(0)}, {ManifestName(0)})
      Pairs(s, t) == {<<x, y>> : x \in s, y \in t}
  IN  {[r \in 0 .. 1 |-> pair[r + 1]] :
         pair \in Pairs(same, same) \cup Pairs(changed, right) \cup Pairs(inline, inline)}
MCDeployments == AllDeployments
=============================================================================
