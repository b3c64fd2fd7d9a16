---------------------------- MODULE RuntimePlan ----------------------------
(***************************************************************************)
(* The RuntimePlan data model (runtime/plan.hpp): a straight-line program  *)
(* in single-assignment form that every rank interprets.  A plan is a      *)
(* record                                                                  *)
(*                                                                         *)
(*   world_size, device_counts : the compiled target                       *)
(*   values    : sequence of value descriptors [id, kind, place, meta]     *)
(*   external  : sequence of value ids bound by the caller                 *)
(*   code      : initialization \o execution \o finalization               *)
(*   inits     : length of the initialization prefix of code               *)
(*   final     : sequence of final output ids                              *)
(*                                                                         *)
(* The execution and finalization lists are interpreted back to back and   *)
(* under the same rules, so the model keeps one sequence and one cut.      *)
(* A descriptor's context, level, scale, NTT flag and component count are  *)
(* one opaque `meta`: the structural rules only compare it.                *)
(***************************************************************************)
EXTENDS Integers, Sequences, FiniteSets

PlaceKinds == {"Host", "Device"}
ValueKinds == {"Plaintext", "Ciphertext"}
CommKinds  == {"Transfer", "Replicate"}

\* Place: where a value lives and where a computation runs.
Place(kind, rank, index) == [kind |-> kind, rank |-> rank, index |-> index]

Places == [kind : PlaceKinds, rank : Int, index : Int]

\* The arity and operand kinds of each computation (expected_inputs).
ExpectedInputs ==
  LET two  == {"AddCC", "SubCC", "MulCC"}
      plain == {"AddCP", "SubCP", "MulCP"}
      one  == {"Negate", "Rotate", "Rescale", "ModSwitch", "Relinearize", "Boot"}
  IN  [k \in two \cup plain \cup one |->
         CASE k \in two   -> <<"Ciphertext", "Ciphertext">>
           [] k \in plain -> <<"Ciphertext", "Plaintext">>
           [] k \in one   -> <<"Ciphertext">>]

InstructionKinds == {"Encode"} \cup CommKinds \cup DOMAIN ExpectedInputs

(***************************************************************************)
(* Instructions.  The three instruction bodies share one record shape:     *)
(* Encode has no inputs, Compute runs at one place, Comm names a source    *)
(* place per input and a destination place per output.                     *)
(***************************************************************************)
Encode(output) ==
  [op |-> "Encode", kind |-> "Encode", id |-> 0, place |-> Place("Host", 0, 0),
   inputs |-> <<>>, outputs |-> <<output>>,
   sources |-> <<>>, destinations |-> <<>>, types |-> <<>>]

Compute(kind, inputs, output, place) ==
  [op |-> "Compute", kind |-> kind, id |-> 0, place |-> place,
   inputs |-> inputs, outputs |-> <<output>>,
   sources |-> <<>>, destinations |-> <<>>, types |-> <<>>]

Comm(kind, id, input, source, outputs, destinations, type) ==
  [op |-> "Comm", kind |-> kind, id |-> id, place |-> source,
   inputs |-> <<input>>, outputs |-> outputs,
   sources |-> <<source>>, destinations |-> destinations,
   types |-> [k \in DOMAIN outputs |-> type]]

\* The types of the members of struct RuntimePlan, for value ids from ids:
\* what the JSON reader hands over, before any rule is checked.
Instructions(ids) ==
  [op : {"Encode", "Compute", "Comm"}, kind : InstructionKinds, id : Nat, place : Places,
   inputs : Seq(ids), outputs : Seq(ids),
   sources : Seq(Places), destinations : Seq(Places), types : Seq(ValueKinds)]

IsPlan(p, ids) ==
  /\ p.code \in Seq(Instructions(ids))
  /\ \A i \in DOMAIN p.code :
       /\ p.code[i].op # "Comm"  => Len(p.code[i].outputs) = 1
       /\ p.code[i].op = "Encode" => p.code[i].inputs = <<>>
       /\ p.code[i].op = "Compute" => p.code[i].kind \in DOMAIN ExpectedInputs
       /\ p.code[i].op = "Comm" => p.code[i].kind \in CommKinds
  /\ p.inits \in 0 .. Len(p.code)
  /\ p.external \in Seq(ids) /\ p.final \in Seq(ids)
  /\ \A k \in DOMAIN p.values :
       /\ p.values[k].id \in ids
       /\ p.values[k].kind \in ValueKinds
       /\ p.values[k].place \in Places

-----------------------------------------------------------------------------
(***************************************************************************)
(* Lookups.                                                                *)
(***************************************************************************)
HasDesc(p, v) == \E k \in DOMAIN p.values : p.values[k].id = v

\* desc(id): the descriptor of a value.  The code returns the first match;
\* a plan with two is refused before any lookup of the runtime.
Desc(p, v) == p.values[CHOOSE k \in DOMAIN p.values : p.values[k].id = v]

\* The place an instruction takes its k-th input from, and leaves its k-th
\* output at.  Encode leaves its plaintext where the descriptor says.
InPlace(p, i, k) ==
  IF p.code[i].op = "Compute" THEN p.code[i].place ELSE p.code[i].sources[k]

OutPlace(p, i, k) ==
  CASE p.code[i].op = "Encode"  -> Desc(p, p.code[i].outputs[k]).place
    [] p.code[i].op = "Compute" -> p.code[i].place
    [] OTHER                    -> p.code[i].destinations[k]

\* The operand positions of instruction i that rank r acts on.
LocalIns(p, i, r)  == {k \in DOMAIN p.code[i].inputs  : InPlace(p, i, k).rank = r}
LocalOuts(p, i, r) == {k \in DOMAIN p.code[i].outputs : OutPlace(p, i, k).rank = r}

\* The values bound by the caller on rank r, and the final outputs rank r owns.
LocalExternals(p, r) ==
  {p.external[k] : k \in {j \in DOMAIN p.external : Desc(p, p.external[j]).place.rank = r}}
LocalFinals(p, r) ==
  {j \in DOMAIN p.final : Desc(p, p.final[j]).place.rank = r}

(***************************************************************************)
(* The places of a plan where rank r uses value v: operand k of            *)
(* instruction i is <<i, k>>, and final output j is <<Len(code)+1, j>>.    *)
(* remaining_uses_ starts as the number of these sites.                    *)
(***************************************************************************)
FinalSite(p) == Len(p.code) + 1

UseSites(p, r, v) ==
  {s \in UNION {{i} \X LocalIns(p, i, r) : i \in DOMAIN p.code} : p.code[s[1]].inputs[s[2]] = v}
  \cup {s \in {FinalSite(p)} \X LocalFinals(p, r) : p.final[s[2]] = v}

\* The values defined by the caller or by the first n instructions.
DefinedBy(p, n) ==
  {p.external[k] : k \in DOMAIN p.external}
  \cup UNION {{p.code[i].outputs[k] : k \in DOMAIN p.code[i].outputs} :
                i \in {j \in DOMAIN p.code : j <= n}}

Comms(p) == {i \in DOMAIN p.code : p.code[i].op = "Comm"}
=============================================================================
