------------------------------ MODULE Loading ------------------------------
(***************************************************************************)
(* From files to a running rank.  Every rank reads a plan and an           *)
(* OperatorSpec of its own, verifies one against the other, loads what it  *)
(* needs of the plaintext bundle (runtime/plaintext_bundle.cpp) and meets  *)
(* the others in preflight.  A file is named by its bytes, so the name is  *)
(* the digest; two names may hold the same document, spelled differently.  *)
(***************************************************************************)
EXTENDS PlanWriter, SpecReader

CONSTANTS
  Ranks,
  Text,         \* name of a JSON file -> the document
  Deployments,  \* the files the ranks may be started with: rank -> [plan, spec, manifest]
  Blobs,        \* name of a blob -> [length, finite]
  BlobFiles     \* what reading the file of a blob may find

VARIABLES
  skip,   \* rank -> RuntimeResources::skip_artifact_digest_checks
  files,  \* rank -> [plan, spec, manifest], source_sha256 of what it reads
  stage,  \* rank -> what it does next
  slots   \* rank -> bundle_slots_: content -> what it was decoded from

vars == <<skip, files, stage, slots>>

Stages == {"read", "verify", "manifest", "blobs", "preflight", "running", "failed"}

\* J is a set of JSON values that the documents and all their parts are among.
DocumentsIn(J) ==
  LET text == Text IN JsonClosed(J) /\ \A n \in DOMAIN text : text[n] \in J

Goto(r, to) == stage' = [stage EXCEPT ![r] = to]

\* An exception: what was loaded is gone with it.
Fail(r) == Goto(r, "failed") /\ slots' = [slots EXCEPT ![r] = <<>>] /\ UNCHANGED <<skip, files>>

-----------------------------------------------------------------------------
(***************************************************************************)
(* The driver reads a plan and an OperatorSpec and starts the runtime on   *)
(* them.  read_text parses and hashes the same bytes.                      *)
(***************************************************************************)
PlanNames == LET text == Text IN {n \in DOMAIN text : PlanDocOk(text[n])}
SpecNames == LET text == Text IN {n \in DOMAIN text : SpecDocOk(text[n])}

Plans == LET text == Text IN [n \in PlanNames |-> ReadPlanDoc(text[n])]
Specs == LET text == Text IN [n \in SpecNames |-> ReadSpecDoc(text[n])]

PlanOf(r) == Plans[files[r].plan]
SpecOf(r) == Specs[files[r].spec]
Read(r) == stage[r] \notin {"read", "failed"}

ReadFiles(r) ==
  /\ stage[r] = "read"
  /\ IF files[r].plan \in PlanNames /\ files[r].spec \in SpecNames
     THEN Goto(r, "verify") /\ UNCHANGED <<skip, files, slots>>
     ELSE Fail(r)

-----------------------------------------------------------------------------
(***************************************************************************)
(* PlanVerifier::verify with an OperatorSpec; what it says of each         *)
(* computation beyond places and kinds is in CkksRules, and                *)
(* verify_runtime_target, about the process it runs in, in PlanVerifier.   *)
(***************************************************************************)
\* Mutant: id and version are taken as proof enough.
SpecMatchesByName(p, s, source, skipped) ==
  /\ p.operator_spec.id = s.id /\ p.operator_spec.version = s.version
  /\ p.target_id = s.target_id

SpecMatches(p, s, source, skipped) ==
  /\ p.operator_spec.id = s.id /\ p.operator_spec.version = s.version
  /\ ~skipped => p.operator_spec.digest = source
  /\ p.target_id = s.target_id

Described(v) == [kind |-> v.kind, level |-> v.meta.level, scale |-> v.meta.scale,
                 components |-> v.meta.components]

IsBundled(p, i) == p.code[i].op = "Encode" /\ "content" \in DOMAIN p.data[i].payload
IsInline(p, i)  == p.code[i].op = "Encode" /\ "inline" \in DOMAIN p.data[i].payload

\* Mutant: the payload of an Encode may be of any length.
PayloadsOkAnyLength(p, s) ==
  (p.bundle # <<>>) = (\E i \in DOMAIN p.code : IsBundled(p, i))

PayloadsOk(p, s) ==
  /\ \A i \in DOMAIN p.code : IsInline(p, i) => Len(p.data[i].payload.inline) <= s.slots
  /\ (p.bundle # <<>>) = (\E i \in DOMAIN p.code : IsBundled(p, i))

Fits(p, s, source, skipped) ==
  /\ TargetOk(p) /\ p.capability_version > 0
  /\ SpecMatches(p, s, source, skipped)
  /\ \A k \in DOMAIN p.values : /\ p.values[k].meta.context = s.context_id
                                /\ ValueOk(s, Described(p.values[k]))
  /\ Verified(p)
  /\ \A i \in DOMAIN p.data : p.data[i].ordinal = i - 1
  /\ PayloadsOk(p, s)

Accepted(r) == Fits(PlanOf(r), SpecOf(r), files[r].spec, skip[r])

Verify(r) ==
  /\ stage[r] = "verify"
  /\ IF Accepted(r)
     THEN /\ Goto(r, IF PlanOf(r).bundle = <<>> THEN "preflight" ELSE "manifest")
          /\ UNCHANGED <<skip, files, slots>>
     ELSE Fail(r)

-----------------------------------------------------------------------------
(***************************************************************************)
(* PlaintextBundleLoader::load.                                            *)
(***************************************************************************)
BlobShape == [content |-> "sha", byte_length |-> "length"]

ManifestOk(v, ref) ==
  /\ ObjectOk(v, [bundle_format_version |-> "nonnegative", bundle_id |-> "string",
                  version |-> "positive", blobs |-> "any"])
  /\ Number(v.object.bundle_format_version) = 1
  /\ v.object.bundle_id = ref.id /\ Number(v.object.version) = ref.version
  /\ LET BlobOk(b) == ObjectOk(b, BlobShape) IN ItemsOk(v.object.blobs, BlobOk)
  /\ LET blobs == v.object.blobs.array IN
       \A j, k \in DOMAIN blobs : blobs[j].object.content = blobs[k].object.content => j = k

ReadManifest(r) ==
  /\ stage[r] = "manifest"
  /\ LET ref == PlanOf(r).bundle[1] IN
     IF (~skip[r] => files[r].manifest = ref.digest) /\ ManifestOk(Text[files[r].manifest], ref)
     THEN Goto(r, "blobs") /\ UNCHANGED <<skip, files, slots>>
     ELSE Fail(r)

\* The contents that the Encode instructions of rank r refer to.
Contents(p, r) ==
  {p.data[i].payload.content : i \in {j \in DOMAIN p.code :
     j <= p.inits /\ IsBundled(p, j) /\ Desc(p, p.code[j].outputs[1]).place.rank = r}}

Needed(r) == Contents(PlanOf(r), r)

Entries(r) == LET blobs == Text[files[r].manifest].object.blobs.array IN
              {blobs[k].object : k \in DOMAIN blobs}

\* Mutant: the content of a blob is left to the manifest's digest.
BlobOkByLength(r, content, name) ==
  /\ \E entry \in Entries(r) :
       entry.content.sha = content /\ Blobs[name].length = entry.byte_length.uint
  /\ Blobs[name].finite
  /\ Blobs[name].length \div 8 <= SpecOf(r).slots

BlobOk(r, content, name) ==
  /\ \E entry \in Entries(r) :
       entry.content.sha = content /\ Blobs[name].length = entry.byte_length.uint
  /\ name = content
  /\ Blobs[name].finite
  /\ Blobs[name].length \div 8 <= SpecOf(r).slots

\* The code takes the contents in the order of their digests; any order will do.
ReadBlob(r) ==
  /\ stage[r] = "blobs"
  /\ \E content \in Needed(r) \ DOMAIN slots[r], name \in BlobFiles :
       IF BlobOk(r, content, name)
       THEN /\ slots' = [slots EXCEPT ![r] = [c \in DOMAIN @ \cup {content} |->
                                                IF c = content THEN name ELSE @[c]]]
            /\ UNCHANGED <<skip, files, stage>>
       ELSE Fail(r)

BundleLoaded(r) ==
  /\ stage[r] = "blobs" /\ Needed(r) \subseteq DOMAIN slots[r]
  /\ Goto(r, "preflight")
  /\ UNCHANGED <<skip, files, slots>>

-----------------------------------------------------------------------------
(***************************************************************************)
(* preflight of the two Apis: everyone arrives, then the switches and the  *)
(* digests of the plans are compared.                                      *)
(***************************************************************************)
\* Mutant: a rank looks only at its own switch.
AgreedOwnSwitch == \A q, r \in Ranks : skip[q] \/ files[q].plan = files[r].plan

Agreed ==
  \A q, r \in Ranks : /\ skip[q] = skip[r]
                      /\ ~skip[q] => files[q].plan = files[r].plan

Preflight(r) ==
  /\ stage[r] = "preflight"
  /\ \A q \in Ranks : stage[q] \in {"preflight", "running"}
  /\ IF Agreed
     THEN Goto(r, "running") /\ UNCHANGED <<skip, files, slots>>
     ELSE Fail(r)

\* Somebody failed, and with him those who wait in preflight.
Abort(r) ==
  /\ stage[r] = "preflight" /\ \E q \in Ranks : stage[q] = "failed"
  /\ Fail(r)

Init ==
  /\ skip \in [Ranks -> BOOLEAN]
  /\ files \in Deployments
  /\ stage = [r \in Ranks |-> "read"]
  /\ slots = [r \in Ranks |-> <<>>]

Terminated == (\A r \in Ranks : stage[r] \in {"running", "failed"}) /\ UNCHANGED vars

Next ==
  \/ \E r \in Ranks :
       \/ ReadFiles(r) \/ Verify(r)
       \/ ReadManifest(r) \/ ReadBlob(r) \/ BundleLoaded(r)
       \/ Preflight(r) \/ Abort(r)
  \/ Terminated

Spec == Init /\ [][Next]_vars

-----------------------------------------------------------------------------
(***************************************************************************)
(* Properties.                                                             *)
(***************************************************************************)
IsSpec(s) ==
  LET Ints == 0 .. IntMax IN
  /\ s.moduli \in Seq(Nat) /\ s.moduli # <<>>
  /\ {s.lower, s.upper, s.max_drop} \subseteq Ints /\ s.slots \in Nat \ {0}
  /\ \A b \in s.boots :
       {b.min, b.max, b.in_components, b.level, b.scale, b.components} \subseteq Ints

\* What the readers hand over has the types that the rest of the development
\* assumes of it: plans those of ConstantsOK in SequentialRuntime, OperatorSpecs
\* those of RulesConstantsOK in CkksRules.
LoadingTypeOK ==
  /\ stage \in [Ranks -> Stages]
  /\ \A r \in Ranks : Read(r) => IsPlan(PlanOf(r), 0 .. WordMax)
  /\ \A r \in Ranks : Read(r) => IsSpec(SpecOf(r))

\* What runs is what was written (read_document of the plan reader fills structs
\* by position): the plan of a rank says what its document says.
PlanAsWritten ==
  \A r \in Ranks : Read(r) => Describes(Text[files[r].plan], PlanOf(r))

\* Two ranks that run were deployed alike, although each read files of its own:
\* the same switch and, unless it skips, the same plan, OperatorSpec and manifest,
\* of which preflight compares only the first.  A skipping rank still runs
\* a plan made for the OperatorSpec and the bundle it names.
SameArtifacts ==
  \A q, r \in Ranks :
    stage[q] = "running" /\ stage[r] = "running" =>
      /\ skip[q] = skip[r]
      /\ ~skip[q] => /\ files[q].plan = files[r].plan /\ files[q].spec = files[r].spec
                     /\ PlanOf(q).bundle # <<>> => files[q].manifest = files[r].manifest
      /\ PlanOf(r).operator_spec.id = SpecOf(r).id

SlotsOk(r, p, s) ==
  \A i \in DOMAIN p.code :
    /\ IsBundled(p, i) /\ Desc(p, p.code[i].outputs[1]).place.rank = r =>
         LET content == p.data[i].payload.content IN
         /\ content \in DOMAIN slots[r] /\ slots[r][content] = content
         /\ Blobs[content].length <= 8 * s.slots
    /\ IsInline(p, i) => Len(p.data[i].payload.inline) <= s.slots

\* On a rank that runs, every Encode of its own finds its slots
\* (bundle_slots_.at in execute_encode never throws), they are the very bytes
\* its digest names, digest checks or not, and they fit a plaintext.
RightSlots == \A r \in Ranks : stage[r] = "running" => SlotsOk(r, PlanOf(r), SpecOf(r))

\* What an OperatorSpec calls a positive integer is one: every modulus, and how many
\* levels a Rescale may drop (docs/operator-spec/v1/specification.md).
InRange ==
  \A r \in Ranks : Read(r) =>
    LET s == SpecOf(r) IN
    /\ s.max_drop >= 1
    /\ \A k \in DOMAIN s.moduli : s.moduli[k] >= 1
=============================================================================
