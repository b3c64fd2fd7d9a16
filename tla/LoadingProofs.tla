--------------------------- MODULE LoadingProofs ---------------------------
(***************************************************************************)
(* Ranks that run were deployed alike, and find the slots they need: what  *)
(* the checks of each rank on its own files and the comparison in          *)
(* preflight add up to, for any number of ranks and any files.  What the   *)
(* readers make of a document is typed, and says what the document says.   *)
(***************************************************************************)
EXTENDS Loading, TLAPS

Checked  == {"manifest", "blobs", "preflight", "running"}
Arrived  == {"preflight", "running"}

\* What a rank works on are documents that the readers accept.
NamesOk(r) == files[r].plan \in PlanNames /\ files[r].spec \in SpecNames
NamesInv == \A r \in Ranks : stage[r] \in {"verify"} \cup Checked => NamesOk(r)

\* What verify established of rank r's plan and OperatorSpec still stands.
AcceptedInv == \A r \in Ranks : stage[r] \in Checked => Accepted(r)

\* So does what load_bundle established of its manifest.
ManifestInv ==
  \A r \in Ranks : stage[r] \in {"blobs"} \cup Arrived /\ PlanOf(r).bundle # <<>> =>
    /\ ~skip[r] => files[r].manifest = PlanOf(r).bundle[1].digest
    /\ ManifestOk(Text[files[r].manifest], PlanOf(r).bundle[1])

\* Slots belong to the content they are filed under, and are all there in the end.
SlotsInv ==
  \A r \in Ranks :
    /\ \A c \in DOMAIN slots[r] : stage[r] \in {"blobs"} \cup Arrived /\ BlobOk(r, c, slots[r][c])
    /\ stage[r] \in Arrived /\ PlanOf(r).bundle # <<>> => Needed(r) \subseteq DOMAIN slots[r]

\* Nobody runs before everybody has arrived and all agree; nobody fails after that.
MetInv ==
  \A r \in Ranks : stage[r] = "running" => Agreed /\ \A q \in Ranks : stage[q] \in Arrived

IInv ==
  /\ stage \in [Ranks -> Stages] /\ DOMAIN slots = Ranks
  /\ NamesInv /\ AcceptedInv /\ ManifestInv /\ SlotsInv /\ MetInv

-----------------------------------------------------------------------------
\* At the start no rank has read anything, and nothing is claimed of it.
LEMMA InitIInv == Init => IInv
  BY DEF Init, IInv, NamesInv, AcceptedInv, ManifestInv, SlotsInv, MetInv, Stages, Checked, Arrived

\* Nothing that is known of a rank's files changes with the files unchanged.
LEMMA SameFiles ==
  ASSUME skip' = skip, files' = files
  PROVE  /\ Agreed' = Agreed
         /\ \A r \in Ranks : /\ Accepted(r)' = Accepted(r)
                             /\ PlanOf(r)' = PlanOf(r) /\ SpecOf(r)' = SpecOf(r)
                             /\ Needed(r)' = Needed(r)
                             /\ \A c, n : BlobOk(r, c, n)' = BlobOk(r, c, n)
  BY DEF Agreed, Accepted, PlanOf, SpecOf, Needed, BlobOk, Entries

\* A rank that has not arrived may fail, or go on.
LEMMA FailKeeps ==
  ASSUME IInv, NEW r \in Ranks, Fail(r), \A q \in Ranks : stage[q] # "running"
  PROVE  IInv'
  <1>1. /\ stage' = [stage EXCEPT ![r] = "failed"]
        /\ slots' = [slots EXCEPT ![r] = <<>>]
        /\ skip' = skip /\ files' = files
    BY DEF Fail, Goto
  <1>2. DOMAIN slots = Ranks /\ stage \in [Ranks -> Stages]
    BY DEF IInv
  <1>3. stage' \in [Ranks -> Stages] /\ DOMAIN slots' = Ranks
    BY <1>1, <1>2 DEF Stages
  <1>4. NamesInv' /\ AcceptedInv' /\ ManifestInv'
    BY <1>1, <1>2, SameFiles DEF IInv, NamesInv, NamesOk, AcceptedInv, ManifestInv, Checked, Arrived
  <1>5. SlotsInv'
    <2> SUFFICES ASSUME NEW q \in Ranks
                 PROVE  /\ \A c \in DOMAIN slots'[q] :
                             stage'[q] \in {"blobs"} \cup Arrived /\ BlobOk(q, c, slots[q][c])'
                        /\ stage'[q] \in Arrived /\ PlanOf(q)'.bundle # <<>> =>
                             Needed(q)' \subseteq DOMAIN slots'[q]
      BY DEF SlotsInv
    <2>1. CASE q = r
      BY <1>1, <1>2, <2>1 DEF Arrived
    <2>2. CASE q # r
      <3>1. slots'[q] = slots[q] /\ stage'[q] = stage[q]
        BY <1>1, <1>2, <2>2
      <3> QED
        <4>1. /\ PlanOf(q)' = PlanOf(q) /\ Needed(q)' = Needed(q)
              /\ \A c : BlobOk(q, c, slots[q][c])' = BlobOk(q, c, slots'[q][c])
          BY <1>1, SameFiles DEF BlobOk, Entries, SpecOf
        <4> QED
          BY <3>1, <4>1 DEF IInv, SlotsInv
    <2> QED
      BY <2>1, <2>2
  <1>6. MetInv'
    BY <1>1, <1>2 DEF IInv, MetInv
  <1> QED
    BY <1>3, <1>4, <1>5, <1>6 DEF IInv

\* Nobody is running while some rank has not arrived.
LEMMA NotYetRunning ==
  ASSUME IInv, NEW r \in Ranks, stage[r] \notin Arrived
  PROVE  \A q \in Ranks : stage[q] # "running"
  BY DEF IInv, MetInv

\* A step of rank r to stage `to`, when its part of the invariant is shown.
LEMMA StepKeeps ==
  ASSUME IInv, NEW r \in Ranks, NEW to \in Stages \ {"running"},
         stage[r] \notin Arrived, Goto(r, to), slots' = slots, skip' = skip, files' = files,
         to \in {"verify"} \cup Checked => NamesOk(r),
         to \in Checked => Accepted(r),
         to \in {"blobs"} \cup Arrived /\ PlanOf(r).bundle # <<>> =>
           /\ ~skip[r] => files[r].manifest = PlanOf(r).bundle[1].digest
           /\ ManifestOk(Text[files[r].manifest], PlanOf(r).bundle[1]),
         DOMAIN slots[r] = {} \/ to \in {"blobs"} \cup Arrived,
         to \in Arrived /\ PlanOf(r).bundle # <<>> => Needed(r) \subseteq DOMAIN slots[r]
  PROVE  IInv'
  <1>1. stage' = [stage EXCEPT ![r] = to] /\ stage \in [Ranks -> Stages]
    BY DEF Goto, IInv
  <1>2. stage' \in [Ranks -> Stages] /\ DOMAIN slots' = Ranks
    BY <1>1 DEF IInv
  <1>3. NamesInv' /\ AcceptedInv'
    BY <1>1, SameFiles DEF IInv, NamesInv, NamesOk, AcceptedInv
  <1>4. ManifestInv'
    BY <1>1, SameFiles DEF IInv, ManifestInv
  <1>5. SlotsInv'
    BY <1>1, SameFiles DEF IInv, SlotsInv
  <1>6. MetInv'
    BY <1>1, NotYetRunning DEF MetInv
  <1> QED
    BY <1>2, <1>3, <1>4, <1>5, <1>6 DEF IInv

\* RuntimePlanJsonReader and OperatorSpecReader let a rank go on with documents they accept.
LEMMA ReadFilesKeeps ==
  ASSUME IInv, NEW r \in Ranks, ReadFiles(r)
  PROVE  IInv'
  <1>1. stage[r] = "read" /\ \A q \in Ranks : stage[q] # "running"
    BY NotYetRunning DEF ReadFiles, Arrived
  <1>2. DOMAIN slots[r] = {}
    BY <1>1 DEF IInv, SlotsInv, Arrived
  <1>3. CASE Fail(r)
    BY <1>1, <1>3, FailKeeps
  <1>4. CASE NamesOk(r) /\ Goto(r, "verify") /\ UNCHANGED <<skip, files, slots>>
    BY <1>1, <1>2, <1>4, StepKeeps DEF Stages, Checked, Arrived
  <1> QED
    BY <1>3, <1>4 DEF ReadFiles, NamesOk

\* PlanVerifier::verify lets a rank go on with a plan that fits its OperatorSpec.
LEMMA VerifyKeeps ==
  ASSUME IInv, NEW r \in Ranks, Verify(r)
  PROVE  IInv'
  <1>1. stage[r] = "verify" /\ \A q \in Ranks : stage[q] # "running"
    BY NotYetRunning DEF Verify, Arrived
  <1>2. DOMAIN slots[r] = {} /\ NamesOk(r)
    BY <1>1 DEF IInv, NamesInv, SlotsInv, Arrived
  <1>3. CASE Fail(r)
    BY <1>1, <1>3, FailKeeps
  <1>4. CASE Accepted(r) /\ UNCHANGED <<skip, files, slots>>
    <2> DEFINE to == IF PlanOf(r).bundle = <<>> THEN "preflight" ELSE "manifest"
    <2>1. CASE Goto(r, to)
      BY <1>1, <1>2, <1>4, <2>1, StepKeeps DEF Stages, Checked, Arrived
    <2>2. CASE Fail(r)
      BY <1>3, <2>2
    <2> QED
      BY <2>1, <2>2 DEF Verify
  <1> QED
    BY <1>3, <1>4 DEF Verify

\* read_manifest lets a rank go on with the manifest its plan refers to.
LEMMA ReadManifestKeeps ==
  ASSUME IInv, NEW r \in Ranks, ReadManifest(r)
  PROVE  IInv'
  <1>1. stage[r] = "manifest" /\ \A q \in Ranks : stage[q] # "running"
    BY NotYetRunning DEF ReadManifest, Arrived
  <1>2. DOMAIN slots[r] = {} /\ NamesOk(r) /\ Accepted(r)
    BY <1>1 DEF IInv, NamesInv, SlotsInv, AcceptedInv, Arrived, Checked
  <1> DEFINE ref == PlanOf(r).bundle[1]
             matches == /\ ~skip[r] => files[r].manifest = ref.digest
                        /\ ManifestOk(Text[files[r].manifest], ref)
  <1>3. CASE Fail(r)
    BY <1>1, <1>3, FailKeeps
  <1>4. CASE matches /\ Goto(r, "blobs") /\ UNCHANGED <<skip, files, slots>>
    BY <1>1, <1>2, <1>4, StepKeeps DEF Stages, Checked, Arrived
  <1> QED
    BY <1>3, <1>4 DEF ReadManifest

\* PlaintextBundleLoader::load files slots under the content that was asked for.
LEMMA ReadBlobKeeps ==
  ASSUME IInv, NEW r \in Ranks, ReadBlob(r)
  PROVE  IInv'
  <1>1. stage[r] = "blobs" /\ \A q \in Ranks : stage[q] # "running"
    BY NotYetRunning DEF ReadBlob, Arrived
  <1>2. CASE Fail(r)
    BY <1>1, <1>2, FailKeeps
  <1>3. ASSUME NEW content \in Needed(r) \ DOMAIN slots[r], NEW name \in BlobFiles,
               BlobOk(r, content, name),
               slots' = [slots EXCEPT ![r] = [c \in DOMAIN @ \cup {content} |->
                                                IF c = content THEN name ELSE @[c]]],
               UNCHANGED <<skip, files, stage>>
        PROVE  IInv'
    <2>1. DOMAIN slots = Ranks /\ DOMAIN slots' = Ranks
      BY <1>3 DEF IInv
    <2>2. \A c \in DOMAIN slots[r] : BlobOk(r, c, slots[r][c])
      BY DEF IInv, SlotsInv
    <2>3. \A c \in DOMAIN slots'[r] : BlobOk(r, c, slots'[r][c])
      BY <1>3, <2>1, <2>2
    <2>4. \A q \in Ranks \ {r} : slots'[q] = slots[q]
      BY <1>3, <2>1
    <2>5. SlotsInv'
      <3>3. \A q \in Ranks : \A c : BlobOk(q, c, slots[q][c])' <=> BlobOk(q, c, slots'[q][c])
        BY SMTT(30), <1>3 DEF BlobOk, Entries, SpecOf
      <3> SUFFICES ASSUME NEW q \in Ranks
                   PROVE  /\ \A c \in DOMAIN slots'[q] :
                               stage[q] \in {"blobs"} \cup Arrived /\ BlobOk(q, c, slots'[q][c])
                          /\ stage[q] \in Arrived /\ PlanOf(q).bundle # <<>> =>
                               Needed(q) \subseteq DOMAIN slots'[q]
        BY <1>3, <3>3, SameFiles DEF SlotsInv
      <3>1. CASE q = r
        BY <1>1, <2>3, <3>1 DEF Arrived
      <3>2. CASE q # r
        BY <2>4, <3>2 DEF IInv, SlotsInv
      <3> QED
        BY <3>1, <3>2
    <2>6. NamesInv' /\ AcceptedInv' /\ ManifestInv'
      BY <1>3, SameFiles DEF IInv, NamesInv, NamesOk, AcceptedInv, ManifestInv
    <2>7. MetInv' /\ stage' \in [Ranks -> Stages]
      BY <1>1, <1>3 DEF IInv, MetInv
    <2> QED
      BY <2>1, <2>5, <2>6, <2>7 DEF IInv
  <1> QED
    BY <1>2, <1>3 DEF ReadBlob

\* load_bundle returns when every content that the rank needs is there.
LEMMA BundleLoadedKeeps ==
  ASSUME IInv, NEW r \in Ranks, BundleLoaded(r)
  PROVE  IInv'
  <1>1. stage[r] = "blobs" /\ Needed(r) \subseteq DOMAIN slots[r]
    BY DEF BundleLoaded
  <1>2. /\ NamesOk(r) /\ Accepted(r)
        /\ PlanOf(r).bundle # <<>> =>
             /\ ~skip[r] => files[r].manifest = PlanOf(r).bundle[1].digest
             /\ ManifestOk(Text[files[r].manifest], PlanOf(r).bundle[1])
    BY <1>1 DEF IInv, NamesInv, AcceptedInv, ManifestInv, Checked
  <1> QED
    BY <1>1, <1>2, StepKeeps DEF BundleLoaded, Stages, Arrived

\* preflight lets a rank run when all have arrived and agree.
LEMMA PreflightKeeps ==
  ASSUME IInv, NEW r \in Ranks, Preflight(r)
  PROVE  IInv'
  <1>1. stage[r] = "preflight" /\ \A q \in Ranks : stage[q] \in Arrived
    BY DEF Preflight, Arrived
  <1>2. CASE ~Agreed
    <2>1. \A q \in Ranks : stage[q] # "running"
      BY <1>2 DEF IInv, MetInv
    <2> QED
      BY <1>2, <2>1, FailKeeps DEF Preflight
  <1>3. CASE Agreed
    <2>1. /\ stage' = [stage EXCEPT ![r] = "running"] /\ stage \in [Ranks -> Stages]
          /\ slots' = slots /\ skip' = skip /\ files' = files
      BY <1>3 DEF Preflight, Goto, IInv
    <2>2. stage' \in [Ranks -> Stages] /\ DOMAIN slots' = Ranks
      BY <2>1 DEF IInv, Stages
    <2>3. NamesInv' /\ AcceptedInv' /\ ManifestInv'
      BY <1>1, <2>1, SameFiles DEF IInv, NamesInv, NamesOk, AcceptedInv, ManifestInv, Checked, Arrived
    <2>4. SlotsInv'
      BY <1>1, <2>1, SameFiles DEF IInv, SlotsInv, Arrived
    <2>5. MetInv'
      BY <1>1, <1>3, <2>1, SameFiles DEF MetInv, Arrived
    <2> QED
      BY <2>2, <2>3, <2>4, <2>5 DEF IInv
  <1> QED
    BY <1>2, <1>3

\* abort_all stops a rank in preflight, where nobody can be running yet.
LEMMA AbortKeeps ==
  ASSUME IInv, NEW r \in Ranks, Abort(r)
  PROVE  IInv'
  <1>1. \E q \in Ranks : stage[q] \notin Arrived
    BY DEF Abort, Arrived
  <1> QED
    BY <1>1, NotYetRunning, FailKeeps DEF Abort

\* The inductive invariant: what each stage of loading (run, before its phases) has
\* established of a rank's files, and that preflight is passed by all or by none.
THEOREM LoadingInvariant == Spec => []IInv
  <1>1. Init => IInv
    BY InitIInv
  <1>2. IInv /\ [Next]_vars => IInv'
    <2> SUFFICES ASSUME IInv, [Next]_vars PROVE IInv'
      OBVIOUS
    <2>1. CASE UNCHANGED vars
      BY <2>1, SameFiles DEF vars, IInv, NamesInv, NamesOk, AcceptedInv, ManifestInv, SlotsInv, MetInv
    <2>2. CASE Terminated
      BY <2>1, <2>2 DEF Terminated
    <2>3. ASSUME NEW r \in Ranks,
                 \/ ReadFiles(r) \/ Verify(r) \/ ReadManifest(r) \/ ReadBlob(r)
                 \/ BundleLoaded(r) \/ Preflight(r) \/ Abort(r)
          PROVE  IInv'
      BY <2>3, ReadFilesKeeps, VerifyKeeps, ReadManifestKeeps, ReadBlobKeeps,
         BundleLoadedKeeps, PreflightKeeps, AbortKeeps
    <2> QED
      BY <2>1, <2>2, <2>3 DEF Next
  <1> QED
    BY <1>1, <1>2, PTL DEF Spec

\* Ranks that run read the same plan and, for that plan, the same OperatorSpec and
\* the same manifest, although preflight compares the plans alone.
THEOREM DeployedAlike == Spec => []SameArtifacts
  <1>1. IInv => SameArtifacts
    <2> SUFFICES ASSUME IInv, NEW q \in Ranks, NEW r \in Ranks,
                        stage[q] = "running", stage[r] = "running"
                 PROVE  /\ skip[q] = skip[r]
                        /\ ~skip[q] => /\ files[q].plan = files[r].plan
                                       /\ files[q].spec = files[r].spec
                                       /\ PlanOf(q).bundle # <<>> =>
                                            files[q].manifest = files[r].manifest
                        /\ PlanOf(r).operator_spec.id = SpecOf(r).id
      BY DEF SameArtifacts
    <2>1. Agreed /\ Accepted(q) /\ Accepted(r)
      BY DEF IInv, MetInv, AcceptedInv, Checked
    <2>2. \A s \in {q, r} : /\ PlanOf(s).operator_spec.id = SpecOf(s).id
                            /\ ~skip[s] => PlanOf(s).operator_spec.digest = files[s].spec
      BY <2>1 DEF Accepted, Fits, SpecMatches
    <2>3. \A s \in {q, r} : ~skip[s] /\ PlanOf(s).bundle # <<>> =>
                              files[s].manifest = PlanOf(s).bundle[1].digest
      BY DEF IInv, ManifestInv, Arrived
    <2>4. skip[q] = skip[r] /\ (~skip[q] => files[q].plan = files[r].plan)
      BY <2>1 DEF Agreed
    <2> QED
      BY <2>2, <2>3, <2>4 DEF PlanOf
  <1> QED
    BY <1>1, LoadingInvariant, PTL

-----------------------------------------------------------------------------
(***************************************************************************)
(* The slots of an Encode.                                                 *)
(***************************************************************************)
\* What read_safe_uint returns where it accepts.
LEMMA CountIsNat ==
  ASSUME NEW v, LeafOk("count", v)
  PROVE  Number(v) \in Nat
  BY WidthsOK DEF LeafOk, SafeUintOk, Number, Is, Enums

\* A byte_length that read_manifest accepts is a whole number of float64.
LEMMA LengthIsWhole ==
  ASSUME NEW v, LeafOk("length", v)
  PROVE  v.uint \in Nat /\ v.uint % 8 = 0
  BY WidthsOK DEF LeafOk, SafeUintOk, Is, Enums

\* The slot count of an accepted OperatorSpec, half its poly_degree, is a number.
LEMMA SlotsAreNat ==
  ASSUME NEW n \in SpecNames
  PROVE  Specs[n].slots \in Nat
  <1> DEFINE context == Text[n].object.context
  <1>1. SpecDocOk(Text[n])
    BY DEF SpecNames
  <1>2. ContextOk(context)
    BY <1>1 DEF SpecDocOk
  <1>3. LeafOk("count", context.object.poly_degree)
    BY <1>2 DEF ContextOk, ObjectOk, ContextShape
  <1>4. Number(context.object.poly_degree) \in Nat
    BY <1>3, CountIsNat
  <1>5. Specs[n].slots = Number(context.object.poly_degree) \div 2
    BY DEF Specs, ReadSpecDoc
  <1> QED
    BY <1>4, <1>5

\* A blob that was let through holds no more numbers than there are slots.
LEMMA BlobFits ==
  ASSUME NEW r \in Ranks, NEW c, NEW name, BlobOk(r, c, name), NamesOk(r),
         NEW ref, ManifestOk(Text[files[r].manifest], ref)
  PROVE  name = c /\ Blobs[c].length <= 8 * SpecOf(r).slots
  <1>1. PICK entry \in Entries(r) : Blobs[name].length = entry.byte_length.uint
    BY DEF BlobOk
  <1>2. LeafOk("length", entry.byte_length)
    BY <1>1 DEF Entries, ManifestOk, ItemsOk, ObjectOk, BlobShape
  <1>3. Blobs[name].length \in Nat /\ Blobs[name].length % 8 = 0
    BY <1>1, <1>2, LengthIsWhole
  <1>4. SpecOf(r).slots \in Nat
    BY SlotsAreNat DEF NamesOk, SpecOf
  <1>5. Blobs[name].length \div 8 <= SpecOf(r).slots /\ name = c
    BY DEF BlobOk
  <1> QED
    BY <1>3, <1>4, <1>5

\* Every Encode of a rank that runs finds the slots its plan names, and they fit,
\* with digest checks or without: bundle_slots_.at never throws.
THEOREM SlotsFound == Spec => []RightSlots
  <1>1. IInv => RightSlots
    <2> SUFFICES ASSUME IInv, NEW r \in Ranks, stage[r] = "running",
                        NEW i \in DOMAIN PlanOf(r).code
                 PROVE  LET p == PlanOf(r) IN
                        /\ IsBundled(p, i) /\ Desc(p, p.code[i].outputs[1]).place.rank = r =>
                             LET content == p.data[i].payload.content IN
                             /\ content \in DOMAIN slots[r] /\ slots[r][content] = content
                             /\ Blobs[content].length <= 8 * SpecOf(r).slots
                        /\ IsInline(p, i) =>
                             Len(p.data[i].payload.inline) <= SpecOf(r).slots
      BY DEF RightSlots, SlotsOk
    <2> DEFINE p == PlanOf(r)
               content == p.data[i].payload.content
    <2>1. NamesOk(r) /\ Accepted(r)
      BY DEF IInv, NamesInv, AcceptedInv, Checked
    <2>2. PayloadsOk(p, SpecOf(r)) /\ Verified(p)
      BY <2>1 DEF Accepted, Fits
    <2>3. ASSUME IsBundled(p, i), Desc(p, p.code[i].outputs[1]).place.rank = r
          PROVE  /\ content \in DOMAIN slots[r] /\ slots[r][content] = content
                 /\ Blobs[content].length <= 8 * SpecOf(r).slots
      <3>1. i <= p.inits
        BY <2>2, <2>3 DEF Verified, InstructionOk, EncodeOk, IsBundled
      <3>2. content \in Needed(r)
        BY <2>3, <3>1 DEF Needed, Contents
      <3>3. p.bundle # <<>>
        BY <2>2, <2>3 DEF PayloadsOk
      <3>4. content \in DOMAIN slots[r] /\ BlobOk(r, content, slots[r][content])
        BY <3>2, <3>3 DEF IInv, SlotsInv, Arrived
      <3>5. ManifestOk(Text[files[r].manifest], p.bundle[1])
        BY <3>3 DEF IInv, ManifestInv, Arrived
      <3> QED
        BY <2>1, <3>4, <3>5, BlobFits
    <2>4. IsInline(p, i) => Len(p.data[i].payload.inline) <= SpecOf(r).slots
      BY <2>2 DEF PayloadsOk
    <2> QED
      BY <2>3, <2>4
  <1> QED
    BY <1>1, LoadingInvariant, PTL

-----------------------------------------------------------------------------
(***************************************************************************)
(* What the readers hand over has the types that the rest assumes of it,   *)
(* when the documents are made of JSON values.                             *)
(***************************************************************************)
\* What read_id, read_int, read_safe_uint and the readers of enumerations return.
LEMMA LeafTypes ==
  ASSUME NEW J, JsonClosed(J), NEW v \in J
  PROVE  /\ LeafOk("nonnegative", v) => Number(v) \in 0 .. IntMax
         /\ LeafOk("positive", v) => Number(v) \in 0 .. IntMax
         /\ LeafOk("bits", v) => Number(v) \in Nat
         /\ LeafOk("count", v) => Number(v) \in Nat
         /\ LeafOk("id", v) => Id(v) \in 0 .. WordMax
         /\ LeafOk("value_kind", v) => Enum("value_kind", v) \in ValueKinds
         /\ LeafOk("place", v) => Enum("place", v) \in PlaceKinds
  <1>1. /\ Is(v, "uint") => v.uint \in Nat
        /\ Is(v, "int") => v.int \in Int
        /\ Is(v, "numeral") => v.numeral.value \in Nat
    BY DEF JsonClosed
  <1>2. IntMax \in Nat /\ LongMax \in Nat /\ WordMax \in Nat
    BY WidthsOK
  <1>3. LeafOk("nonnegative", v) => Number(v) \in 0 .. IntMax
    <2>1. LeafOk("nonnegative", v) <=> IntOk(v, 0, IntMax)
      BY DEF LeafOk, Enums
    <2> QED
      BY <1>1, <1>2, <2>1 DEF IntOk, Number
  <1>4. LeafOk("positive", v) => Number(v) \in 0 .. IntMax
    <2>1. LeafOk("positive", v) <=> IntOk(v, 1, IntMax)
      BY DEF LeafOk, Enums
    <2> QED
      BY <1>1, <1>2, <2>1 DEF IntOk, Number
  <1>5. LeafOk("bits", v) => Number(v) \in Nat
    <2>1. LeafOk("bits", v) <=> IntOk(v, 1, 64)
      BY DEF LeafOk, Enums
    <2> QED
      BY <1>1, <2>1 DEF IntOk, Number
  <1>6. LeafOk("count", v) => Number(v) \in Nat
    <2>1. LeafOk("count", v) <=> SafeUintOk(v, 0, LongMax)
      BY DEF LeafOk, Enums
    <2> QED
      BY <1>1, <1>2, <2>1 DEF SafeUintOk, Number
  <1>7. LeafOk("id", v) => Id(v) \in 0 .. WordMax
    <2>1. LeafOk("id", v) <=> IdOk(v)
      BY DEF LeafOk, Enums
    <2> QED
      BY <1>1, <1>2, <2>1 DEF IdOk, Id
  <1>8. LeafOk("value_kind", v) => Enum("value_kind", v) \in ValueKinds
    BY DEF LeafOk, Enums, Enum, ValueKinds
  <1>9. LeafOk("place", v) => Enum("place", v) \in PlaceKinds
    BY DEF LeafOk, Enums, Enum, PlaceKinds
  <1> QED
    BY <1>3, <1>4, <1>5, <1>6, <1>7, <1>8, <1>9

\* require_members and the readers of the members, one by one.
LEMMA MembersOf ==
  ASSUME NEW J, JsonClosed(J), NEW v \in J, NEW shape, ObjectOk(v, shape)
  PROVE  /\ DOMAIN v.object = DOMAIN shape
         /\ \A m \in DOMAIN shape : v.object[m] \in J /\ LeafOk(shape[m], v.object[m])
  BY DEF ObjectOk, HasMembers, JsonClosed, Is

\* read_place.
LEMMA PlaceTyped ==
  ASSUME NEW J, JsonClosed(J), NEW v \in J, PlaceOk(v)
  PROVE  ReadPlace(v) \in Places
  <1> DEFINE tag == Tag(v, "kind")
  <1>1. tag \in {"host", "device"} /\ ObjectOk(v, PlaceShape[tag])
    BY DEF PlaceOk, Tagged, Tag, PlaceShape
  <1>2. /\ "kind" \in DOMAIN PlaceShape[tag] /\ PlaceShape[tag].kind = "place"
        /\ "rank" \in DOMAIN PlaceShape[tag] /\ PlaceShape[tag].rank = "nonnegative"
        /\ tag = "device" => "index" \in DOMAIN PlaceShape[tag] /\ PlaceShape[tag].index = "nonnegative"
    BY <1>1 DEF PlaceShape
  <1> HIDE DEF tag
  <1>3. /\ v.object.kind \in J /\ LeafOk("place", v.object.kind)
        /\ v.object.rank \in J /\ LeafOk("nonnegative", v.object.rank)
        /\ tag = "device" => v.object.index \in J /\ LeafOk("nonnegative", v.object.index)
    BY <1>1, <1>2, MembersOf
  <1>4. /\ Enum("place", v.object.kind) \in PlaceKinds
        /\ Number(v.object.rank) \in Int
        /\ tag = "device" => Number(v.object.index) \in Int
    BY <1>3, LeafTypes
  <1> QED
    BY <1>1, <1>4 DEF ReadPlace, Place, Places, tag

\* A list made of a list, element by element.
LEMMA ListTyped ==
  ASSUME NEW T, NEW n \in Nat, NEW f, f = [k \in 1 .. n |-> f[k]], \A k \in 1 .. n : f[k] \in T
  PROVE  f \in Seq(T) /\ Len(f) = n
  OBVIOUS

\* The lists of ids, kinds and places.
LEMMA ListsTyped ==
  ASSUME NEW J, JsonClosed(J), NEW v \in J, Is(v, "array")
  PROVE  /\ v.array \in Seq(J)
         /\ IdsOk(v) => Items(v, Id) \in Seq(0 .. WordMax)
         /\ ItemsOk(v, PlaceOk) => Items(v, ReadPlace) \in Seq(Places)
         /\ LET IsKind(e) == LeafOk("value_kind", e) IN
              ItemsOk(v, IsKind) => KindsOf(v) \in Seq(ValueKinds)
  <1> DEFINE n == Len(v.array)
  <1>1. v.array \in Seq(J)
    BY DEF JsonClosed
  <1>2. n \in Nat /\ DOMAIN v.array = 1 .. n /\ \A k \in 1 .. n : v.array[k] \in J
    BY <1>1
  <1> HIDE DEF n
  <1>3. IdsOk(v) => Items(v, Id) \in Seq(0 .. WordMax)
    <2> DEFINE f == Items(v, Id)
    <2> SUFFICES ASSUME IdsOk(v) PROVE f \in Seq(0 .. WordMax)
      OBVIOUS
    <2>1. \A k \in 1 .. n : LeafOk("id", v.array[k])
      BY <1>2 DEF IdsOk, ItemsOk
    <2>2. f = [k \in 1 .. n |-> Id(v.array[k])]
      BY <1>2 DEF Items
    <2>3. \A k \in 1 .. n : f[k] \in 0 .. WordMax
      BY <1>2, <2>1, <2>2, LeafTypes
    <2>4. f = [k \in 1 .. n |-> f[k]]
      BY <2>2
    <2> HIDE DEF f
    <2> QED
      BY <1>2, <2>3, <2>4, ListTyped
  <1>4. ItemsOk(v, PlaceOk) => Items(v, ReadPlace) \in Seq(Places)
    <2> DEFINE f == Items(v, ReadPlace)
    <2> SUFFICES ASSUME ItemsOk(v, PlaceOk) PROVE f \in Seq(Places)
      OBVIOUS
    <2>1. \A k \in 1 .. n : PlaceOk(v.array[k])
      BY <1>2 DEF ItemsOk
    <2>2. f = [k \in 1 .. n |-> ReadPlace(v.array[k])]
      BY <1>2 DEF Items
    <2>3. \A k \in 1 .. n : f[k] \in Places
      BY <1>2, <2>1, <2>2, PlaceTyped
    <2>4. f = [k \in 1 .. n |-> f[k]]
      BY <2>2
    <2> HIDE DEF f
    <2> QED
      BY <1>2, <2>3, <2>4, ListTyped
  <1>5. (\A k \in 1 .. n : LeafOk("value_kind", v.array[k])) => KindsOf(v) \in Seq(ValueKinds)
    <2> DEFINE f == KindsOf(v)
    <2> SUFFICES ASSUME \A k \in 1 .. n : LeafOk("value_kind", v.array[k]) PROVE f \in Seq(ValueKinds)
      OBVIOUS
    <2>1. f = [k \in 1 .. n |-> Enum("value_kind", v.array[k])]
      BY <1>2 DEF KindsOf, Items
    <2>2. \A k \in 1 .. n : f[k] \in ValueKinds
      BY <1>2, <2>1, LeafTypes
    <2>3. f = [k \in 1 .. n |-> f[k]]
      BY <2>1
    <2> HIDE DEF f
    <2> QED
      BY <1>2, <2>2, <2>3, ListTyped
  <1> QED
    BY <1>1, <1>2, <1>3, <1>4, <1>5 DEF ItemsOk

\* What IsPlan asks of one instruction.
OneInstruction(e) ==
  /\ e \in Instructions(0 .. WordMax)
  /\ e.op # "Comm" => Len(e.outputs) = 1
  /\ e.op = "Encode" => e.inputs = <<>>
  /\ e.op = "Compute" => e.kind \in DOMAIN ExpectedInputs
  /\ e.op = "Comm" => e.kind \in CommKinds

\* A record of the parts that an instruction has.
LEMMA InstructionTyped ==
  ASSUME NEW op \in {"Encode", "Compute", "Comm"}, NEW kind \in InstructionKinds, NEW id \in Nat,
         NEW place \in Places, NEW inputs \in Seq(0 .. WordMax), NEW outputs \in Seq(0 .. WordMax),
         NEW sources \in Seq(Places), NEW destinations \in Seq(Places), NEW types \in Seq(ValueKinds)
  PROVE  [op |-> op, kind |-> kind, id |-> id, place |-> place, inputs |-> inputs,
          outputs |-> outputs, sources |-> sources, destinations |-> destinations, types |-> types]
           \in Instructions(0 .. WordMax)
  BY Zenon DEF Instructions

\* read_instruction: an Encode.
LEMMA EncodeTyped ==
  ASSUME NEW J, JsonClosed(J), NEW v \in J, InstructionDocOk(v), Tag(v, "kind") = "encode"
  PROVE  OneInstruction(ReadInstruction(v))
  <1>1. EncodeDocOk(v)
    BY DEF InstructionDocOk
  <1> DEFINE shape == [ordinal |-> "nonnegative", kind |-> "string", payload |-> "any", output |-> "id"]
  <1>2. ObjectOk(v, shape) /\ "output" \in DOMAIN shape /\ shape["output"] = "id"
    BY <1>1 DEF EncodeDocOk
  <1> HIDE DEF shape
  <1>3. v.object.output \in J /\ LeafOk("id", v.object.output)
    BY <1>2, MembersOf
  <1>4. Id(v.object.output) \in 0 .. WordMax
    BY <1>3, LeafTypes
  <1>5. ReadInstruction(v) = Encode(Id(v.object.output))
    BY DEF ReadInstruction, Tag
  <1>6. Encode(Id(v.object.output)) \in Instructions(0 .. WordMax)
    <2>1. /\ <<Id(v.object.output)>> \in Seq(0 .. WordMax) /\ <<>> \in Seq(0 .. WordMax)
          /\ <<>> \in Seq(Places) /\ <<>> \in Seq(ValueKinds)
          /\ Place("Host", 0, 0) \in Places
      BY <1>4 DEF Place, Places, PlaceKinds
    <2> QED
      <3>1. "Encode" \in InstructionKinds /\ 0 \in Nat /\ "Encode" \in {"Encode", "Compute", "Comm"}
        BY DEF InstructionKinds
      <3> QED
        BY <2>1, <3>1, InstructionTyped, Zenon DEF Encode
  <1> QED
    BY <1>5, <1>6 DEF OneInstruction, Encode

\* read_instruction: a computation.
LEMMA ComputeTyped ==
  ASSUME NEW J, JsonClosed(J), NEW v \in J, InstructionDocOk(v), Tag(v, "kind") = "compute"
  PROVE  OneInstruction(ReadInstruction(v))
  <1>1. /\ ComputeDocOk(v) /\ v.object.kind.string = "compute"
        /\ Is(v, "object")
    BY DEF InstructionDocOk, Tag, Tagged
  <1> DEFINE o == v.object
             kind == Enum("compute", o.op)
  <1>2. v.object.op.string \in DOMAIN Enums.compute
    BY <1>1 DEF ComputeDocOk, Tagged
  <1>3. kind \in DOMAIN ExpectedInputs /\ kind \in InstructionKinds
    BY <1>2 DEF Enums, Enum, ExpectedInputs, InstructionKinds
  <1>4. PICK shape : /\ ObjectOk(v, shape)
                     /\ {"place", "inputs", "output"} \subseteq DOMAIN shape
                     /\ shape["output"] = "id"
    <2>1. CASE Tag(v, "op") \in DOMAIN AttrsShape
      <3> DEFINE shape == [m \in DOMAIN ComputeShape \cup {"attrs"} |->
                             IF m = "attrs" THEN "any" ELSE ComputeShape[m]]
      <3>1. ObjectOk(v, shape)
        BY <1>1, <2>1 DEF ComputeDocOk
      <3>2. {"place", "inputs", "output"} \subseteq DOMAIN shape /\ shape["output"] = "id"
        BY DEF ComputeShape
      <3> QED
        BY <3>1, <3>2
    <2>2. CASE Tag(v, "op") \notin DOMAIN AttrsShape
      <3>1. ObjectOk(v, ComputeShape)
        BY <1>1, <2>2 DEF ComputeDocOk
      <3>2. {"place", "inputs", "output"} \subseteq DOMAIN ComputeShape /\ ComputeShape["output"] = "id"
        BY DEF ComputeShape
      <3> QED
        BY <3>1, <3>2
    <2> QED
      BY <2>1, <2>2
  <1>5. /\ o.place \in J /\ o.inputs \in J /\ o.output \in J
        /\ LeafOk("id", o.output)
    BY <1>4, MembersOf
  <1>6. PlaceOk(o.place) /\ IdsOk(o.inputs) /\ Is(o.inputs, "array")
    BY <1>1 DEF ComputeDocOk, IdsOk, ItemsOk
  <1>7. /\ Id(o.output) \in 0 .. WordMax /\ ReadPlace(o.place) \in Places
        /\ Items(o.inputs, Id) \in Seq(0 .. WordMax)
    BY <1>5, <1>6, LeafTypes, PlaceTyped, ListsTyped
  <1>8. ReadInstruction(v) = Compute(kind, Items(o.inputs, Id), Id(o.output), ReadPlace(o.place))
    BY <1>1 DEF ReadInstruction
  <1>9. Compute(kind, Items(o.inputs, Id), Id(o.output), ReadPlace(o.place))
          \in Instructions(0 .. WordMax)
    <2>1. /\ <<Id(o.output)>> \in Seq(0 .. WordMax)
          /\ <<>> \in Seq(Places) /\ <<>> \in Seq(ValueKinds)
          /\ 0 \in Nat /\ "Compute" \in {"Encode", "Compute", "Comm"}
      BY <1>7
    <2> QED
      BY <1>3, <1>7, <2>1, InstructionTyped, Zenon DEF Compute
  <1> QED
    BY <1>3, <1>8, <1>9 DEF OneInstruction, Compute

\* read_instruction: a communication.
LEMMA CommTyped ==
  ASSUME NEW J, JsonClosed(J), NEW v \in J, InstructionDocOk(v),
         Tag(v, "kind") \notin {"encode", "compute"}
  PROVE  OneInstruction(ReadInstruction(v))
  <1>1. /\ CommDocOk(v) /\ v.object.kind.string \in {"transfer", "replicate"}
        /\ v.object.kind.string \notin {"encode", "compute"}
    BY DEF InstructionDocOk, Tag, Tagged
  <1> DEFINE o == v.object
             kind == Enum("comm", o.kind)
             shape == [ordinal |-> "nonnegative", kind |-> "string", transfer_id |-> "id",
                       hint |-> "hint", inputs |-> "any", outputs |-> "any", sources |-> "any",
                       destinations |-> "any", output_kinds |-> "any"]
  <1>2. kind \in CommKinds /\ kind \in InstructionKinds
    BY <1>1 DEF Enums, Enum, CommKinds, InstructionKinds
  <1>3. /\ ObjectOk(v, shape)
        /\ {"transfer_id", "inputs", "outputs", "sources", "destinations", "output_kinds"}
             \subseteq DOMAIN shape
        /\ shape["transfer_id"] = "id"
    BY <1>1 DEF CommDocOk
  <1> HIDE DEF shape
  <1>4. /\ o.transfer_id \in J /\ LeafOk("id", o.transfer_id)
        /\ o.inputs \in J /\ o.outputs \in J /\ o.sources \in J /\ o.destinations \in J
        /\ o.output_kinds \in J
    BY <1>3, MembersOf
  <1>5. Id(o.transfer_id) \in Nat
    BY <1>4, LeafTypes, WidthsOK
  <1>6. /\ IdsOk(o.inputs) /\ IdsOk(o.outputs)
        /\ ItemsOk(o.sources, PlaceOk) /\ ItemsOk(o.destinations, PlaceOk)
        /\ LET IsKind(e) == LeafOk("value_kind", e) IN ItemsOk(o.output_kinds, IsKind)
    BY <1>1 DEF CommDocOk
  <1>7. /\ Is(o.inputs, "array") /\ Is(o.outputs, "array") /\ Is(o.sources, "array")
        /\ Is(o.destinations, "array") /\ Is(o.output_kinds, "array")
    BY <1>6 DEF IdsOk, ItemsOk
  <1>8. /\ Items(o.inputs, Id) \in Seq(0 .. WordMax) /\ Items(o.outputs, Id) \in Seq(0 .. WordMax)
        /\ Items(o.sources, ReadPlace) \in Seq(Places)
        /\ Items(o.destinations, ReadPlace) \in Seq(Places)
        /\ KindsOf(o.output_kinds) \in Seq(ValueKinds)
    BY <1>4, <1>6, <1>7, ListsTyped
  <1> DEFINE e ==
          [op |-> "Comm", kind |-> kind, id |-> Id(o.transfer_id), place |-> Place("Host", 0, 0),
           inputs |-> Items(o.inputs, Id), outputs |-> Items(o.outputs, Id),
           sources |-> Items(o.sources, ReadPlace),
           destinations |-> Items(o.destinations, ReadPlace), types |-> KindsOf(o.output_kinds)]
  <1>9. ReadInstruction(v) = e
    BY <1>1 DEF ReadInstruction
  <1>10. ReadInstruction(v) \in Instructions(0 .. WordMax)
    <2>1. Place("Host", 0, 0) \in Places /\ "Comm" \in {"Encode", "Compute", "Comm"}
      BY DEF Place, Places, PlaceKinds
    <2> QED
      <3>1. e \in Instructions(0 .. WordMax)
        BY <1>2, <1>5, <1>8, <2>1, InstructionTyped, Zenon
      <3> QED
        BY <1>9, <3>1
  <1> QED
    BY <1>2, <1>9, <1>10 DEF OneInstruction

\* read_instruction.
LEMMA InstructionsTyped ==
  ASSUME NEW J, JsonClosed(J), NEW v \in J, InstructionDocOk(v)
  PROVE  OneInstruction(ReadInstruction(v))
  BY EncodeTyped, ComputeTyped, CommTyped

\* read_values: a descriptor.
LEMMA ValueDescTyped ==
  ASSUME NEW J, JsonClosed(J), NEW v \in J, ValueDescOk(v)
  PROVE  /\ ReadValueDesc(v).id \in 0 .. WordMax
         /\ ReadValueDesc(v).kind \in ValueKinds
         /\ ReadValueDesc(v).place \in Places
  <1> DEFINE o == v.object
  <1>1. ObjectOk(v, ValueShape) /\ PlaceOk(o.place)
    BY DEF ValueDescOk
  <1>2. /\ {"id", "kind", "place"} \subseteq DOMAIN ValueShape
        /\ ValueShape["id"] = "id" /\ ValueShape["kind"] = "value_kind"
    BY DEF ValueShape
  <1>3. /\ o.id \in J /\ o.kind \in J /\ o.place \in J
        /\ LeafOk("id", o.id) /\ LeafOk("value_kind", o.kind)
    BY <1>1, <1>2, MembersOf
  <1>4. /\ Id(o.id) \in 0 .. WordMax /\ Enum("value_kind", o.kind) \in ValueKinds
        /\ ReadPlace(o.place) \in Places
    BY <1>1, <1>3, LeafTypes, PlaceTyped
  <1> QED
    BY <1>4 DEF ReadValueDesc

\* The three phases of a plan as one list of instructions.
LEMMA PhasesTyped ==
  ASSUME NEW J, JsonClosed(J), NEW v \in J, PlanDocOk(v)
  PROVE  LET o == v.object
             code == o.initialization.array \o o.execution.array \o o.finalization.array
         IN  /\ Len(o.initialization.array) \in 0 .. Len(code)
             /\ code \in Seq({e \in J : InstructionDocOk(e)})
  <1> DEFINE o == v.object
             T == {e \in J : InstructionDocOk(e)}
  <1>1. HasMembers(v, PlanMembers, {"plaintext_bundle"})
    BY DEF PlanDocOk
  <1>2. \A phase \in Phases : o[phase].array \in Seq(T)
    <2> SUFFICES ASSUME NEW phase \in Phases PROVE o[phase].array \in Seq(T)
      OBVIOUS
    <2>1. o[phase] \in J
      BY <1>1 DEF HasMembers, PlanMembers, JsonClosed
    <2>2. ItemsOk(o[phase], InstructionDocOk)
      BY DEF PlanDocOk
    <2>3. o[phase].array \in Seq(J) /\ \A k \in DOMAIN o[phase].array : InstructionDocOk(o[phase].array[k])
      BY <2>1, <2>2 DEF ItemsOk, JsonClosed
    <2> QED
      BY <2>3
  <1>3. /\ o.initialization.array \in Seq(T) /\ o.execution.array \in Seq(T)
        /\ o.finalization.array \in Seq(T)
    BY <1>2 DEF Phases
  <1> HIDE DEF T
  <1>4. ASSUME NEW a \in Seq(T), NEW b \in Seq(T), NEW c \in Seq(T)
        PROVE  Len(a) \in 0 .. Len(a \o b \o c) /\ a \o b \o c \in Seq(T)
    OBVIOUS
  <1> QED
    BY <1>3, <1>4 DEF T

\* RuntimePlanJsonReader::read: the plan has the types of the members of RuntimePlan.
LEMMA PlanTyped ==
  ASSUME NEW J, JsonClosed(J), NEW v \in J, PlanDocOk(v)
  PROVE  IsPlan(ReadPlanDoc(v), 0 .. WordMax)
  <1> DEFINE o == v.object
             docs == o.initialization.array \o o.execution.array \o o.finalization.array
             p == ReadPlanDoc(v)
             n == Len(docs)
  <1>1. HasMembers(v, PlanMembers, {"plaintext_bundle"})
    BY DEF PlanDocOk
  <1>2. /\ Len(o.initialization.array) \in 0 .. n
        /\ docs \in Seq({e \in J : InstructionDocOk(e)})
    BY PhasesTyped
  <1>4. /\ p.inits = Len(o.initialization.array)
        /\ p.external = Items(o.external_inputs, Id) /\ p.final = Items(o.final_outputs, Id)
        /\ p.values = Items(o.values, ReadValueDesc)
        /\ p.code = Items([array |-> docs], ReadInstruction)
    BY DEF ReadPlanDoc
  <1> HIDE DEF docs
  <1>3. n \in Nat /\ DOMAIN docs = 1 .. n
        /\ \A k \in 1 .. n : docs[k] \in J /\ InstructionDocOk(docs[k])
    BY <1>2
  <1>5. p.code = [k \in 1 .. n |-> ReadInstruction(docs[k])]
    BY <1>3, <1>4 DEF Items
  <1>6. /\ IdsOk(o.external_inputs) /\ IdsOk(o.final_outputs) /\ ItemsOk(o.values, ValueDescOk)
        /\ o.external_inputs \in J /\ o.final_outputs \in J /\ o.values \in J
    BY <1>1 DEF PlanDocOk, HasMembers, PlanMembers, JsonClosed
  <1> HIDE DEF n, p
  <1>7. \A k \in 1 .. n : OneInstruction(p.code[k])
    BY <1>3, <1>5, InstructionsTyped
  <1>8. p.code \in Seq(Instructions(0 .. WordMax)) /\ Len(p.code) = n
    <2>1. \A k \in 1 .. n : p.code[k] \in Instructions(0 .. WordMax)
      BY <1>7 DEF OneInstruction
    <2>2. p.code = [k \in 1 .. n |-> p.code[k]]
      BY <1>5
    <2> QED
      BY <1>3, <2>1, <2>2, ListTyped
  <1>9. \A i \in DOMAIN p.code : OneInstruction(p.code[i])
    BY <1>5, <1>7
  <1>10. p.inits \in 0 .. Len(p.code)
    BY <1>2, <1>4, <1>8
  <1>11. p.external \in Seq(0 .. WordMax) /\ p.final \in Seq(0 .. WordMax)
    BY <1>4, <1>6, ListsTyped DEF IdsOk, ItemsOk
  <1>12. \A k \in DOMAIN p.values : /\ p.values[k].id \in 0 .. WordMax
                                   /\ p.values[k].kind \in ValueKinds
                                   /\ p.values[k].place \in Places
    <2>1. o.values.array \in Seq(J) /\ \A k \in DOMAIN o.values.array : ValueDescOk(o.values.array[k])
      BY <1>6 DEF ItemsOk, JsonClosed
    <2>2. p.values = [k \in DOMAIN o.values.array |-> ReadValueDesc(o.values.array[k])]
      BY <1>4 DEF Items
    <2> QED
      BY <2>1, <2>2, ValueDescTyped
  <1> QED
    BY <1>8, <1>9, <1>10, <1>11, <1>12 DEF IsPlan, OneInstruction, p

\* read_boot_profiles: the numbers of one profile.
LEMMA ProfileTyped ==
  ASSUME NEW J, JsonClosed(J), NEW v \in J, NEW rows, NEW version, ProfileDocOk(v, rows, version)
  PROVE  LET b == ReadProfile(v) IN
         {b.min, b.max, b.in_components, b.level, b.scale, b.components} \subseteq 0 .. IntMax
  <1> DEFINE shape == ProfileShape(version)
             o == v.object
             numbers == {"input_level_min", "input_level_max", "output_level", "output_scale_log2"}
             counts == {"input_components", "output_components"}
  <1>1. ObjectOk(v, shape)
    BY DEF ProfileDocOk
  <1>2. /\ numbers \cup counts \subseteq DOMAIN shape
        /\ \A m \in numbers : shape[m] = "nonnegative"
        /\ \A m \in counts : shape[m] = "positive"
    BY DEF ProfileShape
  <1> HIDE DEF shape
  <1>3. \A m \in numbers \cup counts : Number(o[m]) \in 0 .. IntMax
    BY <1>1, <1>2, MembersOf, LeafTypes
  <1> QED
    BY <1>3 DEF ReadProfile

\* parse of the OperatorSpec reader: the ranges that RulesConstantsOK takes for granted.
LEMMA SpecTyped ==
  ASSUME NEW J, JsonClosed(J), NEW v \in J, SpecDocOk(v)
  PROVE  IsSpec(ReadSpecDoc(v))
  <1> DEFINE o == v.object
             version == Number(o.spec_format_version)
             rows == Number(o.levels.object.upper_bound) + 1
             s == ReadSpecDoc(v)
             c == o.context.object
             moduli == c.rns_moduli_log2
  <1>1. /\ version \in {1, 2}
        /\ HasMembers(v, SpecMembers(version), {})
        /\ ContextOk(o.context)
        /\ ObjectOk(o.levels, LevelsShape)
        /\ OperatorsOk(o.operators, rows, version)
        /\ LET Profile(e) == ProfileDocOk(e, rows, version) IN ItemsOk(o.boot_profiles, Profile)
    BY DEF SpecDocOk
  <1>2. /\ o.context \in J /\ o.levels \in J /\ o.operators \in J /\ o.boot_profiles \in J
    BY <1>1 DEF HasMembers, SpecMembers, JsonClosed
  <1>3. /\ s.slots = Number(c.poly_degree) \div 2 /\ s.moduli = Items(moduli, Number)
        /\ s.lower = Number(o.levels.object.lower_bound)
        /\ s.upper = Number(o.levels.object.upper_bound)
        /\ s.max_drop = Number(o.operators.object.rescale.object.max_levels_per_op)
        /\ s.boots = {ReadProfile(o.boot_profiles.array[k]) : k \in DOMAIN o.boot_profiles.array}
    BY DEF ReadSpecDoc
  <1> HIDE DEF version, rows, s
  <1>4. s.moduli \in Seq(Nat) /\ s.moduli # <<>>
    <2>1. moduli \in J
      <3>1. ObjectOk(o.context, ContextShape) /\ "rns_moduli_log2" \in DOMAIN ContextShape
        BY <1>1 DEF ContextOk, ContextShape
      <3> QED
        BY <1>2, <3>1, MembersOf
    <2>2. /\ moduli.array \in Seq(J) /\ moduli.array # <<>>
          /\ \A k \in DOMAIN moduli.array : LeafOk("bits", moduli.array[k])
      BY <1>1, <2>1 DEF ContextOk, ItemsOk, JsonClosed
    <2> DEFINE f == s.moduli
               n == Len(moduli.array)
    <2>3. n \in Nat /\ n # 0 /\ DOMAIN moduli.array = 1 .. n
      BY <2>2
    <2>4. f = [k \in 1 .. n |-> Number(moduli.array[k])]
      BY <1>3, <2>2 DEF Items
    <2> HIDE DEF f, n
    <2>5. f = [k \in 1 .. n |-> f[k]]
      BY <2>4
    <2>6. \A k \in 1 .. n : f[k] \in Nat
      BY <2>2, <2>3, <2>4, LeafTypes
    <2>7. f \in Seq(Nat) /\ Len(f) = n
      BY <2>3, <2>5, <2>6, ListTyped
    <2> QED
      BY <2>3, <2>7 DEF f
  <1>5. s.lower \in 0 .. IntMax /\ s.upper \in 0 .. IntMax
    <2>1. /\ "lower_bound" \in DOMAIN LevelsShape /\ LevelsShape["lower_bound"] = "nonnegative"
          /\ "upper_bound" \in DOMAIN LevelsShape /\ LevelsShape["upper_bound"] = "nonnegative"
      BY DEF LevelsShape
    <2>2. /\ o.levels.object.lower_bound \in J /\ LeafOk("nonnegative", o.levels.object.lower_bound)
          /\ o.levels.object.upper_bound \in J /\ LeafOk("nonnegative", o.levels.object.upper_bound)
      BY <1>1, <1>2, <2>1, MembersOf
    <2> QED
      BY <1>3, <2>2, LeafTypes
  <1>6. s.max_drop \in 0 .. IntMax
    <2> DEFINE rescale == o.operators.object.rescale
    <2>1. /\ HasMembers(o.operators, DOMAIN Enums.compute, {})
          /\ OperatorOk(rescale, "rescale", rows, version)
      BY <1>1 DEF OperatorsOk, Ordinary, Enums
    <2>2. rescale \in J
      BY <1>2, <2>1 DEF HasMembers, Enums, JsonClosed
    <2>3. /\ ObjectOk(rescale, OperatorShape("rescale"))
          /\ "max_levels_per_op" \in DOMAIN OperatorShape("rescale")
          /\ OperatorShape("rescale")["max_levels_per_op"] = "positive"
      BY <2>1 DEF OperatorOk, OperatorShape
    <2>4. /\ rescale.object["max_levels_per_op"] \in J
          /\ LeafOk("positive", rescale.object["max_levels_per_op"])
      BY <2>2, <2>3, MembersOf
    <2> QED
      BY <1>3, <2>4, LeafTypes
  <1>7. s.slots \in Nat \ {0}
    <2>1. ObjectOk(o.context, ContextShape) /\ IsPowerOfTwo(Number(c.poly_degree))
      BY <1>1 DEF ContextOk
    <2>2. "poly_degree" \in DOMAIN ContextShape /\ ContextShape["poly_degree"] = "count"
      BY DEF ContextShape
    <2>3. Number(c.poly_degree) \in Nat
      BY <1>2, <2>1, <2>2, MembersOf, LeafTypes
    <2>4. Number(c.poly_degree) >= 2
      BY <2>1 DEF IsPowerOfTwo
    <2> QED
      BY <1>3, <2>3, <2>4
  <1>8. \A b \in s.boots :
          {b.min, b.max, b.in_components, b.level, b.scale, b.components} \subseteq 0 .. IntMax
    <2>1. /\ o.boot_profiles.array \in Seq(J)
          /\ \A k \in DOMAIN o.boot_profiles.array :
               ProfileDocOk(o.boot_profiles.array[k], rows, version)
      BY <1>1, <1>2 DEF ItemsOk, JsonClosed
    <2> QED
      BY <1>3, <2>1, ProfileTyped
  <1> QED
    BY <1>4, <1>5, <1>6, <1>7, <1>8 DEF IsSpec, s

\* What plan_reader and operator_spec_reader hand to a rank has the types that the
\* proofs about the runtime and about the rules of CKKS assume, for documents made of
\* whatever JSON values.
THEOREM HandedOverTyped ==
  ASSUME NEW J, DocumentsIn(J)
  PROVE  Spec => []LoadingTypeOK
  <1>1. IInv => LoadingTypeOK
    <2> SUFFICES ASSUME IInv PROVE LoadingTypeOK
      OBVIOUS
    <2>1. stage \in [Ranks -> Stages]
      BY DEF IInv
    <2>2. ASSUME NEW r \in Ranks, Read(r)
          PROVE  IsPlan(PlanOf(r), 0 .. WordMax) /\ IsSpec(SpecOf(r))
      <3>1. stage[r] \in {"verify"} \cup Checked
        BY <2>1, <2>2 DEF Read, Stages, Checked
      <3>2. files[r].plan \in PlanNames /\ files[r].spec \in SpecNames
        BY <3>1 DEF IInv, NamesInv, NamesOk
      <3>3. /\ JsonClosed(J)
            /\ Text[files[r].plan] \in J /\ PlanDocOk(Text[files[r].plan])
            /\ Text[files[r].spec] \in J /\ SpecDocOk(Text[files[r].spec])
            /\ PlanOf(r) = ReadPlanDoc(Text[files[r].plan])
            /\ SpecOf(r) = ReadSpecDoc(Text[files[r].spec])
        BY <3>2 DEF DocumentsIn, PlanNames, SpecNames, PlanOf, SpecOf, Plans, Specs
      <3> QED
        BY <3>3, PlanTyped, SpecTyped
    <2> QED
      BY <2>1, <2>2 DEF LoadingTypeOK
  <1> QED
    BY <1>1, LoadingInvariant, PTL

-----------------------------------------------------------------------------
(***************************************************************************)
(* A plan says what its document says: written back, each part that a      *)
(* reader accepts is the part it was read from, for documents of JSON      *)
(* values J in which no zero has a minus sign.                             *)
(***************************************************************************)
Plain(J) == JsonClosed(J) /\ MinusZero \notin J

\* A value is its one field.
LEMMA OneField ==
  ASSUME NEW J, Plain(J), NEW v \in J
  PROVE  /\ Is(v, "uint") => v = [uint |-> v.uint]
         /\ Is(v, "int") => v = [int |-> v.int] /\ v.int < 0
         /\ Is(v, "numeral") => v = [numeral |-> v.numeral]
         /\ Is(v, "sha") => v = [sha |-> v.sha]
         /\ Is(v, "string") => v = [string |-> v.string]
         /\ Is(v, "bool") => v = [bool |-> v.bool]
         /\ Is(v, "array") => v = [array |-> v.array]
         /\ Is(v, "object") => v = [object |-> v.object]
         /\ ~(Is(v, "uint") /\ Is(v, "int"))
  <1>1. PICK type \in JsonTypes : Is(v, type) /\ v = [t \in {type} |-> v[t]]
    BY DEF Plain, JsonClosed, Is
  <1>2. \A t : Is(v, t) => t = type
    BY <1>1 DEF Is
  <1>3. Is(v, "int") => v = [int |-> v.int] /\ v.int < 0
    <2>1. Is(v, "int") => v = [int |-> v.int]
      BY <1>1, <1>2
    <2>2. Is(v, "int") => v.int \in Int /\ v.int <= 0 /\ v # [int |-> 0]
      BY DEF Plain, JsonClosed, MinusZero
    <2> QED
      BY <2>1, <2>2
  <1> QED
    BY <1>1, <1>2, <1>3

\* The spellings of an enumeration are as many as its values.
LEMMA OneSpelling ==
  ASSUME NEW type \in {"value_kind", "place", "compute", "comm", "hint", "boot"},
         NEW s \in DOMAIN Enums[type]
  PROVE  Spelled(type, Enums[type][s]) = Str(s)
  <1>1. \A t \in DOMAIN Enums[type] : Enums[type][t] = Enums[type][s] => t = s
    <2>1. CASE type = "compute"
      BY <2>1 DEF Enums
    <2>2. CASE type = "hint"
      BY <2>2 DEF Enums
    <2>3. CASE type \in {"value_kind", "place", "comm", "boot"}
      BY <2>3 DEF Enums
    <2> QED
      BY <2>1, <2>2, <2>3
  <1>2. (CHOOSE t \in DOMAIN Enums[type] : Enums[type][t] = Enums[type][s]) = s
    BY <1>1
  <1> QED
    BY <1>2 DEF Spelled

\* The leaves written back.
LEMMA LeavesWritten ==
  ASSUME NEW J, Plain(J), NEW v \in J
  PROVE  /\ LeafOk("nonnegative", v) => Int_(Number(v)) = v
         /\ LeafOk("positive", v) => Int_(Number(v)) = v
         /\ LeafOk("int", v) => Int_(Number(v)) = v
         /\ LeafOk("id", v) => Numeral(Id(v)) = v
         /\ LeafOk("sha", v) => Digest(v.sha) = v
         /\ LeafOk("bool", v) => [bool |-> v.bool] = v
         /\ \A type \in {"value_kind", "place", "compute", "hint", "boot"} :
              LeafOk(type, v) => Spelled(type, Enum(type, v)) = v
  <1>1. Is(v, "uint") => v.uint \in Nat /\ Int_(Number(v)) = v
    <2>1. Is(v, "uint") => v.uint \in Nat /\ v = [uint |-> v.uint]
      BY OneField DEF Plain, JsonClosed
    <2> QED
      BY <2>1 DEF Int_, Number
  <1>2. Is(v, "int") => v.int < 0 /\ Int_(Number(v)) = v
    <2>1. Is(v, "int") => v.int < 0 /\ v = [int |-> v.int] /\ ~Is(v, "uint")
      BY OneField
    <2> QED
      BY <2>1 DEF Int_, Number
  <1>3. \A min, max : IntOk(v, min, max) => Int_(Number(v)) = v
    BY <1>1, <1>2 DEF IntOk
  <1>4. /\ LeafOk("nonnegative", v) <=> IntOk(v, 0, IntMax)
        /\ LeafOk("positive", v) <=> IntOk(v, 1, IntMax)
    BY DEF LeafOk, Enums
  <1>5. LeafOk("int", v) <=> IntOk(v, -IntMax - 1, IntMax)
    BY DEF LeafOk, Enums
  <1>6. LeafOk("id", v) => Numeral(Id(v)) = v
    <2>1. LeafOk("id", v) <=> IdOk(v)
      BY DEF LeafOk, Enums
    <2>2. Is(v, "numeral") => v.numeral \in [zeros : Nat, value : Nat] /\ v = [numeral |-> v.numeral]
      BY OneField DEF Plain, JsonClosed
    <2>3. ASSUME IdOk(v) PROVE v.numeral = [zeros |-> 0, value |-> v.numeral.value]
      BY <2>2, <2>3 DEF IdOk
    <2> QED
      BY <2>1, <2>2, <2>3 DEF IdOk, Id, Numeral
  <1>7. /\ LeafOk("sha", v) => Digest(v.sha) = v
        /\ LeafOk("bool", v) => [bool |-> v.bool] = v
    <2>1. (LeafOk("sha", v) <=> Is(v, "sha")) /\ (LeafOk("bool", v) <=> Is(v, "bool"))
      BY DEF LeafOk, Enums
    <2> QED
      BY <2>1, OneField DEF Digest
  <1>8. ASSUME NEW type \in {"value_kind", "place", "compute", "hint", "boot"}, LeafOk(type, v)
        PROVE  Spelled(type, Enum(type, v)) = v
    <2>1. Is(v, "string") /\ v.string \in DOMAIN Enums[type]
      <3>1. type \in DOMAIN Enums
        BY DEF Enums
      <3> QED
        BY <1>8, <3>1, Zenon DEF LeafOk
    <2> QED
      BY <2>1, OneField, OneSpelling DEF Enum, Str
  <1> QED
    BY <1>3, <1>4, <1>5, <1>6, <1>7, <1>8

\* An object with the members of a shape is any function with those values.
LEMMA ObjectWritten ==
  ASSUME NEW J, Plain(J), NEW v \in J, NEW shape, ObjectOk(v, shape),
         NEW f, f = [m \in DOMAIN shape |-> f[m]], \A m \in DOMAIN shape : f[m] = v.object[m]
  PROVE  Obj(f) = v
  <1>1. Is(v, "object") /\ v = [object |-> v.object] /\ v.object \in [DOMAIN v.object -> J]
    BY OneField DEF Plain, JsonClosed, ObjectOk, HasMembers
  <1>2. DOMAIN v.object = DOMAIN shape
    BY MembersOf DEF Plain
  <1>3. f = v.object
    BY <1>1, <1>2
  <1> QED
    BY <1>1, <1>3 DEF Obj

\* A list, written back element by element.
LEMMA ListWritten ==
  ASSUME NEW J, Plain(J), NEW v \in J, Is(v, "array"),
         NEW f, f = [k \in DOMAIN v.array |-> f[k]], \A k \in DOMAIN v.array : f[k] = v.array[k]
  PROVE  [array |-> f] = v
  <1>1. v = [array |-> v.array] /\ v.array \in Seq(J)
    BY OneField DEF Plain, JsonClosed
  <1>2. f = v.array
    BY <1>1
  <1> QED
    BY <1>1, <1>2

\* read_place.
LEMMA PlaceWritten ==
  ASSUME NEW J, Plain(J), NEW v \in J, PlaceOk(v)
  PROVE  PlaceDoc(ReadPlace(v)) = v
  <1> DEFINE tag == Tag(v, "kind")
             o == v.object
             p == ReadPlace(v)
             shape == PlaceShape[tag]
  <1>1. tag \in {"host", "device"} /\ ObjectOk(v, shape) /\ tag = o.kind.string
    BY DEF PlaceOk, Tagged, Tag, PlaceShape
  <1>2. /\ DOMAIN shape = {"kind", "rank"} \cup (IF tag = "host" THEN {} ELSE {"index"})
        /\ shape["kind"] = "place" /\ shape["rank"] = "nonnegative"
        /\ tag = "device" => shape["index"] = "nonnegative"
    BY <1>1 DEF PlaceShape
  <1> HIDE DEF shape
  <1>3. /\ o["kind"] \in J /\ LeafOk("place", o["kind"])
        /\ o["rank"] \in J /\ LeafOk("nonnegative", o["rank"])
        /\ tag = "device" => o["index"] \in J /\ LeafOk("nonnegative", o["index"])
    BY <1>1, <1>2, MembersOf DEF Plain
  <1>4. /\ Spelled("place", Enum("place", o.kind)) = o.kind
        /\ Int_(Number(o.rank)) = o.rank
        /\ tag = "device" => Int_(Number(o.index)) = o.index
    BY <1>3, LeavesWritten
  <1>5. /\ p.kind = Enum("place", o.kind) /\ p.rank = Number(o.rank)
        /\ tag = "device" => p.index = Number(o.index)
        /\ p.kind = "Host" <=> tag = "host"
    BY <1>1 DEF ReadPlace, Place, Enum, Enums, Tag
  <1> DEFINE f == [m \in {"kind", "rank"} \cup (IF p.kind = "Host" THEN {} ELSE {"index"}) |->
                     CASE m = "kind" -> Spelled("place", p.kind)
                       [] m = "rank" -> Int_(p.rank) [] OTHER -> Int_(p.index)]
  <1>6. PlaceDoc(p) = Obj(f)
    BY DEF PlaceDoc
  <1> HIDE DEF tag, p
  <1>7. DOMAIN f = DOMAIN shape
    BY <1>1, <1>2, <1>5
  <1>8. \A m \in DOMAIN shape : f[m] = o[m]
    BY <1>1, <1>2, <1>4, <1>5
  <1>9. f = [m \in DOMAIN shape |-> f[m]]
    BY <1>7
  <1> HIDE DEF f
  <1> QED
    BY <1>1, <1>6, <1>8, <1>9, ObjectWritten DEF p

\* read_operator_spec and read_bundle_ref.
LEMMA RefWritten ==
  ASSUME NEW J, Plain(J), NEW v \in J, NEW digest \in {"source_sha256", "manifest_sha256"},
         ObjectOk(v, RefShape(digest))
  PROVE  RefDoc(ReadRef(v, digest), digest) = v
  <1> DEFINE o == v.object
             ref == ReadRef(v, digest)
             shape == RefShape(digest)
             f == [m \in {"id", "version", digest} |->
                     CASE m = "id" -> ref.id [] m = "version" -> Int_(ref.version)
                       [] OTHER -> Digest(ref.digest)]
  <1>1. /\ DOMAIN shape = {"id", "version", digest}
        /\ shape["version"] = "positive" /\ shape[digest] = "sha"
    BY DEF RefShape
  <1> HIDE DEF shape
  <1>2. /\ o["version"] \in J /\ LeafOk("positive", o["version"])
        /\ o[digest] \in J /\ LeafOk("sha", o[digest])
    BY <1>1, MembersOf DEF Plain, shape
  <1>3. Int_(Number(o.version)) = o.version /\ Digest(o[digest].sha) = o[digest]
    BY <1>2, LeavesWritten
  <1>4. ref.id = o.id /\ ref.version = Number(o.version) /\ ref.digest = o[digest].sha
    BY DEF ReadRef
  <1>5. RefDoc(ref, digest) = Obj(f)
    BY DEF RefDoc
  <1> HIDE DEF ref
  <1>6. \A m \in DOMAIN shape : f[m] = o[m]
    BY <1>1, <1>3, <1>4
  <1>7. f = [m \in DOMAIN shape |-> f[m]]
    BY <1>1
  <1> HIDE DEF f
  <1> QED
    BY <1>5, <1>6, <1>7, ObjectWritten DEF ref, shape

\* read_values: a descriptor.
LEMMA ValueWritten ==
  ASSUME NEW J, Plain(J), NEW v \in J, ValueDescOk(v)
  PROVE  ValueDoc(ReadValueDesc(v)) = v
  <1> DEFINE o == v.object
             d == ReadValueDesc(v)
             f == [id |-> Numeral(d.id), kind |-> Kind(d.kind), place |-> PlaceDoc(d.place),
                   context |-> d.meta.context, level |-> Int_(d.meta.level),
                   scale_log2 |-> Int_(d.meta.scale), ntt |-> [bool |-> d.meta.ntt],
                   components |-> Int_(d.meta.components)]
  <1>1. ObjectOk(v, ValueShape) /\ PlaceOk(o.place)
    BY DEF ValueDescOk
  <1>2. \A m \in DOMAIN ValueShape : o[m] \in J /\ LeafOk(ValueShape[m], o[m])
    BY <1>1, MembersOf DEF Plain
  <1>3. /\ o.id \in J /\ o.kind \in J /\ o.place \in J /\ o.level \in J /\ o.scale_log2 \in J
        /\ o.ntt \in J /\ o.components \in J
        /\ LeafOk("id", o.id) /\ LeafOk("value_kind", o.kind) /\ LeafOk("nonnegative", o.level)
        /\ LeafOk("nonnegative", o.scale_log2) /\ LeafOk("bool", o.ntt)
        /\ LeafOk("positive", o.components)
    BY <1>2 DEF ValueShape
  <1>4. /\ Numeral(Id(o.id)) = o.id /\ Kind(Enum("value_kind", o.kind)) = o.kind
        /\ PlaceDoc(ReadPlace(o.place)) = o.place
        /\ Int_(Number(o.level)) = o.level /\ Int_(Number(o.scale_log2)) = o.scale_log2
        /\ [bool |-> o.ntt.bool] = o.ntt /\ Int_(Number(o.components)) = o.components
    BY <1>1, <1>3, LeavesWritten, PlaceWritten DEF Kind
  <1>5. /\ d.id = Id(o.id) /\ d.kind = Enum("value_kind", o.kind) /\ d.place = ReadPlace(o.place)
        /\ d.meta.context = o.context /\ d.meta.level = Number(o.level)
        /\ d.meta.scale = Number(o.scale_log2) /\ d.meta.ntt = o.ntt.bool
        /\ d.meta.components = Number(o.components)
    BY DEF ReadValueDesc
  <1>6. ValueDoc(d) = Obj(f)
    BY DEF ValueDoc
  <1> HIDE DEF d
  <1>7. f = [m \in DOMAIN ValueShape |-> f[m]] /\ \A m \in DOMAIN ValueShape : f[m] = o[m]
    BY <1>4, <1>5 DEF ValueShape
  <1> HIDE DEF f
  <1> QED
    BY <1>1, <1>6, <1>7, ObjectWritten DEF d

\* The lists of ids, places and kinds.
LEMMA ListsWritten ==
  ASSUME NEW J, Plain(J), NEW v \in J, Is(v, "array")
  PROVE  /\ IdsOk(v) => Arr(Items(v, Id), Numeral) = v
         /\ ItemsOk(v, PlaceOk) => Arr(Items(v, ReadPlace), PlaceDoc) = v
         /\ ItemsOk(v, ValueDescOk) => Arr(Items(v, ReadValueDesc), ValueDoc) = v
         /\ (\A k \in DOMAIN v.array : LeafOk("value_kind", v.array[k])) => Arr(KindsOf(v), Kind) = v
         /\ (\A k \in DOMAIN v.array : LeafOk("nonnegative", v.array[k])) =>
              Arr(Items(v, Number), Int_) = v
  <1> DEFINE D == DOMAIN v.array
  <1>1. \A k \in D : v.array[k] \in J
    BY DEF Plain, JsonClosed
  <1>2. IdsOk(v) => Arr(Items(v, Id), Numeral) = v
    <2> DEFINE f == [k \in D |-> Numeral(Id(v.array[k]))]
    <2>1. IdsOk(v) => \A k \in D : LeafOk("id", v.array[k])
      BY DEF IdsOk, ItemsOk
    <2>2. IdsOk(v) => \A k \in D : f[k] = v.array[k]
      BY <1>1, <2>1, LeavesWritten
    <2>3. Arr(Items(v, Id), Numeral) = [array |-> f]
      BY DEF Arr, Items
    <2>4. f = [k \in D |-> f[k]]
      OBVIOUS
    <2> HIDE DEF f
    <2> QED
      BY <2>2, <2>3, <2>4, ListWritten
  <1>3. ItemsOk(v, PlaceOk) => Arr(Items(v, ReadPlace), PlaceDoc) = v
    <2> DEFINE f == [k \in D |-> PlaceDoc(ReadPlace(v.array[k]))]
    <2>1. ItemsOk(v, PlaceOk) => \A k \in D : f[k] = v.array[k]
      BY <1>1, PlaceWritten DEF ItemsOk
    <2>2. Arr(Items(v, ReadPlace), PlaceDoc) = [array |-> f]
      BY DEF Arr, Items
    <2>3. f = [k \in D |-> f[k]]
      OBVIOUS
    <2> HIDE DEF f
    <2> QED
      BY <2>1, <2>2, <2>3, ListWritten
  <1>4. ItemsOk(v, ValueDescOk) => Arr(Items(v, ReadValueDesc), ValueDoc) = v
    <2> DEFINE f == [k \in D |-> ValueDoc(ReadValueDesc(v.array[k]))]
    <2>1. ItemsOk(v, ValueDescOk) => \A k \in D : f[k] = v.array[k]
      BY <1>1, ValueWritten DEF ItemsOk
    <2>2. Arr(Items(v, ReadValueDesc), ValueDoc) = [array |-> f]
      BY DEF Arr, Items
    <2>3. f = [k \in D |-> f[k]]
      OBVIOUS
    <2> HIDE DEF f
    <2> QED
      BY <2>1, <2>2, <2>3, ListWritten
  <1>5. (\A k \in D : LeafOk("value_kind", v.array[k])) => Arr(KindsOf(v), Kind) = v
    <2> DEFINE f == [k \in D |-> Kind(Enum("value_kind", v.array[k]))]
    <2>1. (\A k \in D : LeafOk("value_kind", v.array[k])) => \A k \in D : f[k] = v.array[k]
      BY <1>1, LeavesWritten DEF Kind
    <2>2. Arr(KindsOf(v), Kind) = [array |-> f]
      BY DEF Arr, KindsOf, Items
    <2>3. f = [k \in D |-> f[k]]
      OBVIOUS
    <2> HIDE DEF f
    <2> QED
      BY <2>1, <2>2, <2>3, ListWritten
  <1>6. (\A k \in D : LeafOk("nonnegative", v.array[k])) => Arr(Items(v, Number), Int_) = v
    <2> DEFINE f == [k \in D |-> Int_(Number(v.array[k]))]
    <2>1. (\A k \in D : LeafOk("nonnegative", v.array[k])) => \A k \in D : f[k] = v.array[k]
      BY <1>1, LeavesWritten
    <2>2. Arr(Items(v, Number), Int_) = [array |-> f]
      BY DEF Arr, Items
    <2>3. f = [k \in D |-> f[k]]
      OBVIOUS
    <2> HIDE DEF f
    <2> QED
      BY <2>1, <2>2, <2>3, ListWritten
  <1> QED
    BY <1>2, <1>3, <1>4, <1>5, <1>6

\* read_attrs: each operator's attributes.
LEMMA AttrsWritten ==
  ASSUME NEW J, Plain(J), NEW v \in J, NEW op \in DOMAIN AttrsShape, ObjectOk(v, AttrsShape[op])
  PROVE  /\ AttrsDoc(Enums.compute[op], ReadAttrs(op, v)) = v
         /\ "none" \notin DOMAIN ReadAttrs(op, v)
  <1> DEFINE o == v.object
             a == ReadAttrs(op, v)
             shape == AttrsShape[op]
  <1>1. op \in {"rotate", "rescale", "mod_switch", "boot"}
    BY DEF AttrsShape
  <1>2. \A m \in DOMAIN shape : o[m] \in J /\ LeafOk(shape[m], o[m])
    BY MembersOf DEF Plain
  <1>3. CASE op = "rotate"
    <2> DEFINE f == [steps |-> Int_(a.steps)]
    <2>1. o.steps \in J /\ LeafOk("int", o.steps)
      BY <1>2, <1>3 DEF AttrsShape
    <2>2. a = [steps |-> Number(o.steps)]
      BY <1>3 DEF ReadAttrs
    <2>3. AttrsDoc("Rotate", a) = Obj(f) /\ Enums.compute[op] = "Rotate"
      BY <1>3 DEF AttrsDoc, Enums
    <2>4. f = [m \in DOMAIN shape |-> f[m]] /\ \A m \in DOMAIN shape : f[m] = o[m]
      BY <1>3, <2>1, <2>2, LeavesWritten DEF AttrsShape
    <2>5. "none" \notin DOMAIN a
      BY <2>2
    <2> HIDE DEF f, a, shape
    <2> QED
      BY <2>3, <2>4, <2>5, ObjectWritten DEF a, shape
  <1>4. CASE op = "rescale"
    <2> DEFINE f == [target_level |-> Int_(a.level), target_scale_log2 |-> Int_(a.scale)]
    <2>1. /\ o.target_level \in J /\ LeafOk("nonnegative", o.target_level)
          /\ o.target_scale_log2 \in J /\ LeafOk("nonnegative", o.target_scale_log2)
      BY <1>2, <1>4 DEF AttrsShape
    <2>2. a = [level |-> Number(o.target_level), scale |-> Number(o.target_scale_log2)]
      BY <1>4 DEF ReadAttrs
    <2>3. AttrsDoc("Rescale", a) = Obj(f) /\ Enums.compute[op] = "Rescale"
      BY <1>4 DEF AttrsDoc, Enums
    <2>4. f = [m \in DOMAIN shape |-> f[m]] /\ \A m \in DOMAIN shape : f[m] = o[m]
      BY <1>4, <2>1, <2>2, LeavesWritten DEF AttrsShape
    <2>5. "none" \notin DOMAIN a
      BY <2>2
    <2> HIDE DEF f, a, shape
    <2> QED
      BY <2>3, <2>4, <2>5, ObjectWritten DEF a, shape
  <1>5. CASE op = "mod_switch"
    <2> DEFINE f == [target_level |-> Int_(a.level)]
    <2>1. o.target_level \in J /\ LeafOk("nonnegative", o.target_level)
      BY <1>2, <1>5 DEF AttrsShape
    <2>2. a = [level |-> Number(o.target_level)]
      BY <1>5 DEF ReadAttrs
    <2>3. AttrsDoc("ModSwitch", a) = Obj(f) /\ Enums.compute[op] = "ModSwitch"
      BY <1>5 DEF AttrsDoc, Enums
    <2>4. f = [m \in DOMAIN shape |-> f[m]] /\ \A m \in DOMAIN shape : f[m] = o[m]
      BY <1>5, <2>1, <2>2, LeavesWritten DEF AttrsShape
    <2>5. "none" \notin DOMAIN a
      BY <2>2
    <2> HIDE DEF f, a, shape
    <2> QED
      BY <2>3, <2>4, <2>5, ObjectWritten DEF a, shape
  <1>6. CASE op = "boot"
    <2> DEFINE f == [target_level |-> Int_(a.level), target_scale_log2 |-> Int_(a.scale),
                     target_components |-> Int_(a.components), operator_profile |-> a.profile,
                     implementation |-> Spelled("boot", a.impl)]
    <2>1. /\ o.target_level \in J /\ LeafOk("nonnegative", o.target_level)
          /\ o.target_scale_log2 \in J /\ LeafOk("nonnegative", o.target_scale_log2)
          /\ o.target_components \in J /\ LeafOk("positive", o.target_components)
          /\ o.implementation \in J /\ LeafOk("boot", o.implementation)
      BY <1>2, <1>6 DEF AttrsShape
    <2>2. a = [level |-> Number(o.target_level), scale |-> Number(o.target_scale_log2),
               components |-> Number(o.target_components),
               profile |-> o.operator_profile, impl |-> Enum("boot", o.implementation)]
      BY <1>6 DEF ReadAttrs
    <2>3. AttrsDoc("Boot", a) = Obj(f) /\ Enums.compute[op] = "Boot"
      BY <1>6 DEF AttrsDoc, Enums
    <2>4. f = [m \in DOMAIN shape |-> f[m]] /\ \A m \in DOMAIN shape : f[m] = o[m]
      BY <1>6, <2>1, <2>2, LeavesWritten DEF AttrsShape
    <2>5. "none" \notin DOMAIN a
      BY <2>2
    <2> HIDE DEF f, a, shape
    <2> QED
      BY <2>3, <2>4, <2>5, ObjectWritten DEF a, shape
  <1> QED
    BY <1>1, <1>3, <1>4, <1>5, <1>6

\* read_payload: inline numbers, or the content of a blob.
LEMMA PayloadWritten ==
  ASSUME NEW J, Plain(J), NEW v \in J, Tagged(v, "kind", DOMAIN PayloadShape),
         ObjectOk(v, PayloadShape[Tag(v, "kind")]),
         Tag(v, "kind") = "inline" => Is(v.object.values, "array")
  PROVE  (IF "inline" \in DOMAIN ReadPayload(v)
          THEN Obj([kind |-> Str("inline"), values |-> [array |-> ReadPayload(v).inline]])
          ELSE Obj([kind |-> Str("bundle"), content |-> Digest(ReadPayload(v).content)])) = v
  <1> DEFINE o == v.object
             tag == Tag(v, "kind")
             shape == PayloadShape[tag]
  <1>1. tag \in {"inline", "bundle"} /\ tag = o.kind.string /\ Is(o.kind, "string")
    BY DEF Tagged, Tag, PayloadShape
  <1>2. \A m \in DOMAIN shape : o[m] \in J /\ LeafOk(shape[m], o[m])
    BY MembersOf DEF Plain
  <1>3. o.kind \in J /\ o.kind = Str(tag)
    <2>1. o.kind \in J
      BY <1>1, <1>2 DEF PayloadShape
    <2> QED
      BY <1>1, <2>1, OneField DEF Str
  <1>4. CASE tag = "inline"
    <2> DEFINE f == [kind |-> Str("inline"), values |-> [array |-> o.values.array]]
    <2>1. o.values \in J /\ Is(o.values, "array")
      BY <1>2, <1>4 DEF PayloadShape
    <2>2. [array |-> o.values.array] = o.values
      BY <2>1, OneField
    <2>3. f = [m \in DOMAIN shape |-> f[m]] /\ \A m \in DOMAIN shape : f[m] = o[m]
      BY <1>3, <1>4, <2>2 DEF PayloadShape
    <2>4. ReadPayload(v) = [inline |-> o.values.array]
      BY <1>4 DEF ReadPayload
    <2> HIDE DEF f, shape
    <2>5. Obj(f) = v
      BY <2>3, ObjectWritten DEF shape
    <2> QED
      BY <2>4, <2>5 DEF f
  <1>5. CASE tag = "bundle"
    <2> DEFINE f == [kind |-> Str("bundle"), content |-> Digest(o.content.sha)]
    <2>1. o.content \in J /\ LeafOk("sha", o.content)
      BY <1>2, <1>5 DEF PayloadShape
    <2>2. Digest(o.content.sha) = o.content
      BY <2>1, LeavesWritten
    <2>3. f = [m \in DOMAIN shape |-> f[m]] /\ \A m \in DOMAIN shape : f[m] = o[m]
      BY <1>3, <1>5, <2>2 DEF PayloadShape
    <2>4. ReadPayload(v) = [content |-> o.content.sha]
      BY <1>5 DEF ReadPayload
    <2> HIDE DEF f, shape
    <2>5. Obj(f) = v
      BY <2>3, ObjectWritten DEF shape
    <2> QED
      BY <2>4, <2>5 DEF f
  <1> QED
    BY <1>1, <1>4, <1>5

\* read_instruction: an Encode.
LEMMA EncodeWritten ==
  ASSUME NEW J, Plain(J), NEW v \in J, InstructionDocOk(v), Tag(v, "kind") = "encode"
  PROVE  InstructionDoc(ReadInstruction(v), ReadData(v)) = v
  <1> DEFINE o == v.object
             d == ReadData(v)
             ins == ReadInstruction(v)
             shape == [ordinal |-> "nonnegative", kind |-> "string", payload |-> "any", output |-> "id"]
             f == [ordinal |-> Int_(d.ordinal), kind |-> Str("encode"),
                   output |-> Numeral(ins.outputs[1]),
                   payload |-> IF "inline" \in DOMAIN d.payload
                               THEN Obj([kind |-> Str("inline"), values |-> [array |-> d.payload.inline]])
                               ELSE Obj([kind |-> Str("bundle"), content |-> Digest(d.payload.content)])]
  <1>1. /\ EncodeDocOk(v) /\ ObjectOk(v, shape)
        /\ Is(o.kind, "string") /\ o.kind.string = "encode"
    BY DEF InstructionDocOk, EncodeDocOk, Tagged, Tag
  <1>2. \A m \in DOMAIN shape : m \in DOMAIN o /\ o[m] \in J /\ LeafOk(shape[m], o[m])
    BY <1>1, MembersOf DEF Plain
  <1>3. /\ o.ordinal \in J /\ o.kind \in J /\ o.payload \in J /\ o.output \in J
        /\ LeafOk("nonnegative", o.ordinal) /\ LeafOk("id", o.output)
        /\ "payload" \in DOMAIN o
    BY <1>2
  <1>4. /\ Int_(Number(o.ordinal)) = o.ordinal /\ Numeral(Id(o.output)) = o.output
        /\ Str("encode") = o.kind
    BY <1>1, <1>3, LeavesWritten, OneField DEF Str
  <1>5. /\ d.ordinal = Number(o.ordinal) /\ d.payload = ReadPayload(o.payload)
        /\ ins = Encode(Id(o.output))
    BY <1>1, <1>3 DEF ReadData, ReadInstruction
  <1>6. ins.op = "Encode" /\ ins.outputs[1] = Id(o.output)
    BY <1>5 DEF Encode
  <1>7. f.payload = o.payload
    <2>1. /\ Tagged(o.payload, "kind", DOMAIN PayloadShape)
          /\ ObjectOk(o.payload, PayloadShape[Tag(o.payload, "kind")])
          /\ Tag(o.payload, "kind") = "inline" => Is(o.payload.object.values, "array")
      BY <1>1 DEF EncodeDocOk, ItemsOk
    <2> QED
      BY <1>3, <1>5, <2>1, PayloadWritten
  <1>8. InstructionDoc(ins, d) = Obj(f)
    BY <1>6 DEF InstructionDoc
  <1>9. f.ordinal = o.ordinal /\ f.kind = o.kind /\ f.output = o.output
    BY <1>4, <1>5, <1>6
  <1>10. DOMAIN f = DOMAIN shape /\ f = [m \in DOMAIN shape |-> f[m]]
    OBVIOUS
  <1> HIDE DEF f
  <1>11. \A m \in DOMAIN shape : f[m] = o[m]
    BY <1>7, <1>9
  <1> HIDE DEF shape, ins, d
  <1> QED
    BY <1>1, <1>8, <1>10, <1>11, ObjectWritten DEF ins, d

\* read_instruction: a computation.
LEMMA ComputeWritten ==
  ASSUME NEW J, Plain(J), NEW v \in J, InstructionDocOk(v), Tag(v, "kind") = "compute"
  PROVE  InstructionDoc(ReadInstruction(v), ReadData(v)) = v
  <1> DEFINE o == v.object
             d == ReadData(v)
             ins == ReadInstruction(v)
             op == o.op.string
             kind == Enum("compute", o.op)
             members == DOMAIN ComputeShape \cup (IF op \in DOMAIN AttrsShape THEN {"attrs"} ELSE {})
             shape == [m \in members |-> IF m = "attrs" THEN "any" ELSE ComputeShape[m]]
             base == [ordinal |-> Int_(d.ordinal), kind |-> Str("compute"),
                      op |-> Spelled("compute", ins.kind), place |-> PlaceDoc(ins.place),
                      inputs |-> Arr(ins.inputs, Numeral), output |-> Numeral(ins.outputs[1])]
             f == [m \in DOMAIN base \cup (IF "none" \in DOMAIN d.attrs THEN {} ELSE {"attrs"}) |->
                     IF m = "attrs" THEN AttrsDoc(ins.kind, d.attrs) ELSE base[m]]
  <1>1. /\ ComputeDocOk(v) /\ Is(o.kind, "string") /\ o.kind.string = "compute"
        /\ op \in DOMAIN Enums.compute /\ Tag(v, "op") = op
    BY DEF InstructionDocOk, ComputeDocOk, Tagged, Tag
  <1>2. ObjectOk(v, shape) /\ (op \in DOMAIN AttrsShape => ObjectOk(o.attrs, AttrsShape[op]))
    <2>1. CASE op \in DOMAIN AttrsShape
      BY <1>1, <2>1 DEF ComputeDocOk
    <2>2. CASE op \notin DOMAIN AttrsShape
      <3>1. ObjectOk(v, ComputeShape)
        BY <1>1, <2>2 DEF ComputeDocOk
      <3>2. shape = ComputeShape
        BY <2>2 DEF ComputeShape
      <3> QED
        BY <2>2, <3>1, <3>2
    <2> QED
      BY <2>1, <2>2
  <1>3. /\ DOMAIN shape = members
        /\ members = {"ordinal", "kind", "op", "place", "inputs", "output"}
                       \cup (IF op \in DOMAIN AttrsShape THEN {"attrs"} ELSE {})
        /\ shape["ordinal"] = "nonnegative" /\ shape["op"] = "compute" /\ shape["output"] = "id"
    BY DEF ComputeShape
  <1> HIDE DEF shape, members
  <1>4. DOMAIN o = members /\ \A m \in members : o[m] \in J /\ LeafOk(shape[m], o[m])
    BY <1>2, <1>3, MembersOf DEF Plain
  <1>5. /\ o["ordinal"] \in J /\ o["kind"] \in J /\ o["op"] \in J /\ o["place"] \in J
        /\ o["inputs"] \in J /\ o["output"] \in J
        /\ LeafOk("nonnegative", o["ordinal"]) /\ LeafOk("compute", o["op"])
        /\ LeafOk("id", o["output"])
        /\ "payload" \notin DOMAIN o
        /\ "attrs" \in DOMAIN o <=> op \in DOMAIN AttrsShape
        /\ op \in DOMAIN AttrsShape => o["attrs"] \in J
    BY <1>3, <1>4
  <1>6. PlaceOk(o.place) /\ IdsOk(o.inputs) /\ Is(o.inputs, "array")
    BY <1>1 DEF ComputeDocOk, IdsOk, ItemsOk
  <1>7. /\ d.ordinal = Number(o.ordinal)
        /\ ins = Compute(kind, Items(o.inputs, Id), Id(o.output), ReadPlace(o.place))
        /\ kind = Enums.compute[op]
    BY <1>1 DEF ReadData, ReadInstruction, Enum
  <1>8. /\ ins.op = "Compute" /\ ins.kind = kind /\ ins.place = ReadPlace(o.place)
        /\ ins.inputs = Items(o.inputs, Id) /\ ins.outputs[1] = Id(o.output)
    BY <1>7 DEF Compute
  <1>9. /\ base.ordinal = o.ordinal /\ base.kind = o.kind /\ base.op = o.op
        /\ base.place = o.place /\ base.inputs = o.inputs /\ base.output = o.output
    <2>1. Int_(d.ordinal) = o.ordinal /\ Numeral(ins.outputs[1]) = o.output
      BY <1>5, <1>7, <1>8, LeavesWritten
    <2>2. Str("compute") = o.kind
      BY <1>1, <1>5, OneField DEF Str
    <2>3. Spelled("compute", ins.kind) = o.op
      BY <1>5, <1>8, LeavesWritten
    <2>4. PlaceDoc(ins.place) = o.place /\ Arr(ins.inputs, Numeral) = o.inputs
      BY <1>5, <1>6, <1>8, PlaceWritten, ListsWritten
    <2> QED
      BY <2>1, <2>2, <2>3, <2>4
  <1>10. /\ "none" \in DOMAIN d.attrs <=> op \notin DOMAIN AttrsShape
         /\ op \in DOMAIN AttrsShape => AttrsDoc(ins.kind, d.attrs) = o.attrs
    <2>1. CASE op \in DOMAIN AttrsShape
      <3>1. d.attrs = ReadAttrs(op, o.attrs)
        BY <1>5, <2>1 DEF ReadData
      <3> QED
        BY <1>2, <1>5, <1>7, <1>8, <2>1, <3>1, AttrsWritten
    <2>2. CASE op \notin DOMAIN AttrsShape
      <3>1. d.attrs = [none |-> 0]
        BY <1>5, <2>2 DEF ReadData
      <3> QED
        BY <2>2, <3>1
    <2> QED
      BY <2>1, <2>2
  <1>11. InstructionDoc(ins, d) = Obj(f)
    BY <1>8 DEF InstructionDoc
  <1>12. DOMAIN base = {"ordinal", "kind", "op", "place", "inputs", "output"}
    OBVIOUS
  <1> HIDE DEF base, ins, d
  <1>13. f = [m \in DOMAIN shape |-> f[m]]
    BY <1>3, <1>10, <1>12
  <1>14. \A m \in DOMAIN shape : f[m] = o[m]
    BY <1>3, <1>9, <1>10, <1>12
  <1> HIDE DEF f, op
  <1> QED
    BY <1>2, <1>11, <1>13, <1>14, ObjectWritten DEF ins, d

\* read_instruction: a communication.
LEMMA CommWritten ==
  ASSUME NEW J, Plain(J), NEW v \in J, InstructionDocOk(v),
         Tag(v, "kind") \notin {"encode", "compute"}
  PROVE  InstructionDoc(ReadInstruction(v), ReadData(v)) = v
  <1> DEFINE o == v.object
             d == ReadData(v)
             ins == ReadInstruction(v)
             shape == [ordinal |-> "nonnegative", kind |-> "string", transfer_id |-> "id",
                       hint |-> "hint", inputs |-> "any", outputs |-> "any", sources |-> "any",
                       destinations |-> "any", output_kinds |-> "any"]
             f == [ordinal |-> Int_(d.ordinal), kind |-> Spelled("comm", ins.kind),
                   transfer_id |-> Numeral(ins.id), hint |-> Spelled("hint", d.hint),
                   inputs |-> Arr(ins.inputs, Numeral), outputs |-> Arr(ins.outputs, Numeral),
                   sources |-> Arr(ins.sources, PlaceDoc),
                   destinations |-> Arr(ins.destinations, PlaceDoc),
                   output_kinds |-> Arr(ins.types, Kind)]
  <1>1. /\ CommDocOk(v) /\ ObjectOk(v, shape) /\ Is(o.kind, "string")
        /\ o.kind.string \in {"transfer", "replicate"}
        /\ o.kind.string \notin {"encode", "compute"}
    BY DEF InstructionDocOk, CommDocOk, Tag, Tagged
  <1>2. \A m \in DOMAIN shape : m \in DOMAIN o /\ o[m] \in J /\ LeafOk(shape[m], o[m])
    BY <1>1, MembersOf DEF Plain
  <1>3. /\ o.ordinal \in J /\ o.kind \in J /\ o.transfer_id \in J /\ o.hint \in J
        /\ o.inputs \in J /\ o.outputs \in J /\ o.sources \in J /\ o.destinations \in J
        /\ o.output_kinds \in J
        /\ LeafOk("nonnegative", o.ordinal) /\ LeafOk("id", o.transfer_id)
        /\ LeafOk("hint", o.hint) /\ "hint" \in DOMAIN o
    BY <1>2
  <1>4. /\ IdsOk(o.inputs) /\ IdsOk(o.outputs)
        /\ ItemsOk(o.sources, PlaceOk) /\ ItemsOk(o.destinations, PlaceOk)
        /\ Is(o.output_kinds, "array")
        /\ \A k \in DOMAIN o.output_kinds.array : LeafOk("value_kind", o.output_kinds.array[k])
    BY <1>1 DEF CommDocOk, ItemsOk
  <1>5. /\ Is(o.inputs, "array") /\ Is(o.outputs, "array") /\ Is(o.sources, "array")
        /\ Is(o.destinations, "array")
    BY <1>4 DEF IdsOk, ItemsOk
  <1>6. /\ d.ordinal = Number(o.ordinal) /\ d.hint = Enum("hint", o.hint)
        /\ ins.op = "Comm" /\ ins.kind = Enum("comm", o.kind) /\ ins.id = Id(o.transfer_id)
        /\ ins.inputs = Items(o.inputs, Id) /\ ins.outputs = Items(o.outputs, Id)
        /\ ins.sources = Items(o.sources, ReadPlace)
        /\ ins.destinations = Items(o.destinations, ReadPlace)
        /\ ins.types = KindsOf(o.output_kinds)
    BY <1>1, <1>3 DEF ReadData, ReadInstruction
  <1>7. InstructionDoc(ins, d) = Obj(f)
    BY <1>6 DEF InstructionDoc
  <1> HIDE DEF ins, d
  <1>8. f.ordinal = o.ordinal /\ f.transfer_id = o.transfer_id /\ f.hint = o.hint
    BY <1>3, <1>6, LeavesWritten
  <1>9. f.kind = o.kind
    <2>1. o.kind.string \in DOMAIN Enums["comm"] /\ o.kind = Str(o.kind.string)
      BY <1>1, <1>3, OneField DEF Enums, Str
    <2> QED
      BY <1>6, <2>1, OneSpelling DEF Enum
  <1>10. /\ f.inputs = o.inputs /\ f.outputs = o.outputs /\ f.sources = o.sources
         /\ f.destinations = o.destinations /\ f.output_kinds = o.output_kinds
    BY <1>3, <1>4, <1>5, <1>6, ListsWritten
  <1>11. DOMAIN f = DOMAIN shape /\ f = [m \in DOMAIN shape |-> f[m]]
    OBVIOUS
  <1> HIDE DEF f
  <1>12. \A m \in DOMAIN shape : f[m] = o[m]
    BY <1>8, <1>9, <1>10
  <1> HIDE DEF shape
  <1> QED
    BY <1>1, <1>7, <1>11, <1>12, ObjectWritten DEF ins, d

\* read_instruction.
LEMMA InstructionWritten ==
  ASSUME NEW J, Plain(J), NEW v \in J, InstructionDocOk(v)
  PROVE  InstructionDoc(ReadInstruction(v), ReadData(v)) = v
  BY EncodeWritten, ComputeWritten, CommWritten

\* read_target.
LEMMA TargetWritten ==
  ASSUME NEW J, Plain(J), NEW v \in J, DocTargetOk(v)
  PROVE  LET t == v.object IN
         Obj([target_id |-> t.target_id, capability_version |-> Int_(Number(t.capability_version)),
              operator_spec |-> RefDoc(ReadRef(t.operator_spec, "source_sha256"), "source_sha256"),
              world_size |-> Int_(Number(t.world_size)),
              device_counts |-> Arr(Items(t.device_counts, Number), Int_)]) = v
  <1> DEFINE t == v.object
             f == [target_id |-> t.target_id, capability_version |-> Int_(Number(t.capability_version)),
                   operator_spec |-> RefDoc(ReadRef(t.operator_spec, "source_sha256"), "source_sha256"),
                   world_size |-> Int_(Number(t.world_size)),
                   device_counts |-> Arr(Items(t.device_counts, Number), Int_)]
             shape == TargetShape
  <1>1. /\ ObjectOk(v, shape) /\ ObjectOk(t.operator_spec, RefShape("source_sha256"))
        /\ Is(t.device_counts, "array")
        /\ \A k \in DOMAIN t.device_counts.array : LeafOk("nonnegative", t.device_counts.array[k])
    BY DEF DocTargetOk, ItemsOk
  <1>2. \A m \in DOMAIN shape : t[m] \in J /\ LeafOk(shape[m], t[m])
    BY <1>1, MembersOf DEF Plain
  <1>3. /\ t.capability_version \in J /\ t.world_size \in J /\ t.operator_spec \in J
        /\ t.device_counts \in J
        /\ LeafOk("positive", t.capability_version) /\ LeafOk("positive", t.world_size)
    BY <1>2 DEF TargetShape
  <1>4. /\ f.target_id = t.target_id /\ f.capability_version = t.capability_version
        /\ f.world_size = t.world_size
    BY <1>3, LeavesWritten
  <1>5. f.operator_spec = t.operator_spec /\ f.device_counts = t.device_counts
    BY <1>1, <1>3, RefWritten, ListsWritten
  <1>6. DOMAIN f = DOMAIN shape /\ f = [m \in DOMAIN shape |-> f[m]]
    BY DEF TargetShape
  <1> HIDE DEF f
  <1>7. \A m \in DOMAIN shape : f[m] = t[m]
    BY <1>4, <1>5 DEF TargetShape
  <1> HIDE DEF shape
  <1>8. Obj(f) = v
    BY <1>1, <1>6, <1>7, ObjectWritten
  <1> QED
    BY <1>8 DEF f

\* RuntimePlanJsonReader::read: the structs hold what the members of their names say.
LEMMA PlanWritten ==
  ASSUME NEW J, Plain(J), NEW v \in J, PlanDocOk(v)
  PROVE  Describes(v, ReadPlanDoc(v))
  <1> DEFINE o == v.object
             t == o.target.object
             docs == o.initialization.array \o o.execution.array \o o.finalization.array
             p == ReadPlanDoc(v)
             n == Len(docs)
  <1>1. HasMembers(v, PlanMembers, {"plaintext_bundle"})
    BY DEF PlanDocOk
  <1>2. /\ o \in [DOMAIN o -> J] /\ v = [object |-> o] /\ PlanMembers \subseteq DOMAIN o
    BY <1>1, OneField DEF HasMembers, Plain, JsonClosed
  <1>3. /\ LeafOk("id", o.plan_id) /\ DocTargetOk(o.target) /\ ItemsOk(o.values, ValueDescOk)
        /\ IdsOk(o.external_inputs) /\ IdsOk(o.final_outputs)
        /\ "plaintext_bundle" \in DOMAIN o => ObjectOk(o.plaintext_bundle, RefShape("manifest_sha256"))
    BY DEF PlanDocOk
  <1>4. /\ o.plan_id \in J /\ o.target \in J /\ o.values \in J /\ o.external_inputs \in J
        /\ o.final_outputs \in J
        /\ "plaintext_bundle" \in DOMAIN o => o.plaintext_bundle \in J
    BY <1>2 DEF PlanMembers
  <1>5. /\ p.plan_id = Id(o.plan_id) /\ p.target_id = t.target_id
        /\ p.capability_version = Number(t.capability_version)
        /\ p.operator_spec = ReadRef(t.operator_spec, "source_sha256")
        /\ p.world_size = Number(t.world_size) /\ p.device_counts = Items(t.device_counts, Number)
        /\ p.bundle = (IF "plaintext_bundle" \in DOMAIN o
                       THEN <<ReadRef(o.plaintext_bundle, "manifest_sha256")>> ELSE <<>>)
        /\ p.values = Items(o.values, ReadValueDesc)
        /\ p.external = Items(o.external_inputs, Id) /\ p.final = Items(o.final_outputs, Id)
        /\ p.code = Items([array |-> docs], ReadInstruction)
        /\ p.data = Items([array |-> docs], ReadData)
        /\ p.inits = Len(o.initialization.array)
    BY DEF ReadPlanDoc
  <1>6. docs \in Seq({e \in J : InstructionDocOk(e)})
    BY PhasesTyped DEF Plain
  <1> HIDE DEF p, docs
  <1>7. v = Obj([o EXCEPT
                 !.plan_id = Numeral(p.plan_id),
                 !.target = Obj([target_id |-> p.target_id,
                                 capability_version |-> Int_(p.capability_version),
                                 operator_spec |-> RefDoc(p.operator_spec, "source_sha256"),
                                 world_size |-> Int_(p.world_size),
                                 device_counts |-> Arr(p.device_counts, Int_)]),
                 !.values = Arr(p.values, ValueDoc),
                 !.external_inputs = Arr(p.external, Numeral),
                 !.final_outputs = Arr(p.final, Numeral)])
    <2>1. Numeral(p.plan_id) = o.plan_id
      BY <1>3, <1>4, <1>5, LeavesWritten
    <2>2. Obj([target_id |-> p.target_id, capability_version |-> Int_(p.capability_version),
               operator_spec |-> RefDoc(p.operator_spec, "source_sha256"),
               world_size |-> Int_(p.world_size),
               device_counts |-> Arr(p.device_counts, Int_)]) = o.target
      BY <1>3, <1>4, <1>5, TargetWritten
    <2>3. Is(o.values, "array") /\ Is(o.external_inputs, "array") /\ Is(o.final_outputs, "array")
      BY <1>3 DEF IdsOk, ItemsOk
    <2>4. /\ Arr(p.values, ValueDoc) = o.values /\ Arr(p.external, Numeral) = o.external_inputs
          /\ Arr(p.final, Numeral) = o.final_outputs
      BY <1>3, <1>4, <1>5, <2>3, ListsWritten
    <2>5. [o EXCEPT !.plan_id = o.plan_id, !.target = o.target, !.values = o.values,
                    !.external_inputs = o.external_inputs, !.final_outputs = o.final_outputs] = o
      BY <1>2
    <2> QED
      BY <1>2, <2>1, <2>2, <2>4, <2>5 DEF Obj
  <1>8. IF p.bundle = <<>> THEN "plaintext_bundle" \notin DOMAIN o
        ELSE o.plaintext_bundle = RefDoc(p.bundle[1], "manifest_sha256")
    BY <1>3, <1>4, <1>5, RefWritten
  <1>9. docs = [i \in DOMAIN p.code |-> InstructionDoc(p.code[i], p.data[i])]
    <2>1. /\ docs = [i \in DOMAIN docs |-> docs[i]]
          /\ \A i \in DOMAIN docs : docs[i] \in J /\ InstructionDocOk(docs[i])
      BY <1>6
    <2>2. /\ p.code = [i \in DOMAIN docs |-> ReadInstruction(docs[i])]
          /\ p.data = [i \in DOMAIN docs |-> ReadData(docs[i])]
      BY <1>5 DEF Items
    <2>3. \A i \in DOMAIN docs : InstructionDoc(p.code[i], p.data[i]) = docs[i]
      BY <2>1, <2>2, InstructionWritten
    <2> QED
      BY <2>1, <2>2, <2>3
  <1> QED
    BY <1>5, <1>7, <1>8, <1>9 DEF Describes, p, docs

\* The reader of plans (read and the functions it is made of) drops nothing, fills in
\* nothing and swaps nothing: what a rank runs is, written back in the format of the
\* schema, the document it read.
THEOREM RunsWhatWasWritten ==
  ASSUME NEW J, DocumentsIn(J), MinusZero \notin J
  PROVE  Spec => []PlanAsWritten
  <1>1. IInv => PlanAsWritten
    <2> SUFFICES ASSUME IInv, NEW r \in Ranks, Read(r)
                 PROVE  Describes(Text[files[r].plan], PlanOf(r))
      BY DEF PlanAsWritten
    <2>1. stage[r] \in {"verify"} \cup Checked
      BY DEF IInv, Read, Stages, Checked
    <2>2. files[r].plan \in PlanNames
      BY <2>1 DEF IInv, NamesInv, NamesOk
    <2>3. /\ Plain(J) /\ Text[files[r].plan] \in J /\ PlanDocOk(Text[files[r].plan])
          /\ PlanOf(r) = ReadPlanDoc(Text[files[r].plan])
      BY <2>2 DEF DocumentsIn, Plain, PlanNames, PlanOf, Plans
    <2> QED
      BY <2>3, PlanWritten
  <1> QED
    BY <1>1, LoadingInvariant, PTL
=============================================================================
