---------------------------- MODULE PlanVerifier ----------------------------
(***************************************************************************)
(* PlanVerifier::verify and verify_runtime_target (runtime/verifier.cpp):  *)
(* the structural rules a plan must satisfy before a rank touches it, each *)
(* rule an operator named for what it refuses.  The code walks the         *)
(* instruction lists once, carrying the set `defined`; here the rule of    *)
(* instruction i reads the same set as DefinedBy(p, i - 1).                *)
(*                                                                         *)
(* Left to other modules: the arithmetic of levels, scales and components  *)
(* (verify_compute_metadata beyond kinds and places) and the OperatorSpec  *)
(* support tables.                                                         *)
(***************************************************************************)
EXTENDS RuntimePlan

\* check_place: the place exists in the compiled target.
PlaceExists(p, place) ==
  /\ place.rank \in 0 .. p.world_size - 1
  /\ \/ place.kind = "Host" /\ place.index = 0
     \/ place.kind = "Device" /\ place.index \in 0 .. p.device_counts[place.rank + 1] - 1

TargetOk(p) ==
  /\ p.world_size > 0
  /\ Len(p.device_counts) = p.world_size
  /\ \A k \in DOMAIN p.device_counts : p.device_counts[k] >= 0

ValuesOk(p) ==
  /\ \A k \in DOMAIN p.values : PlaceExists(p, p.values[k].place)
  /\ \A j, k \in DOMAIN p.values : p.values[j].id = p.values[k].id => j = k

\* External inputs have a descriptor, live on a Host and are listed once.
ExternalOk(p) ==
  /\ \A k \in DOMAIN p.external :
       HasDesc(p, p.external[k]) /\ Desc(p, p.external[k]).place.kind = "Host"
  /\ \A j, k \in DOMAIN p.external : p.external[j] = p.external[k] => j = k

-----------------------------------------------------------------------------
EncodeOk(p, i) ==
  LET out == p.code[i].outputs[1] IN
  /\ i <= p.inits
  /\ HasDesc(p, out)
  /\ Desc(p, out).kind = "Plaintext"
  /\ Desc(p, out).place.kind = "Host"

\* Mutant: operands of the right kind may be at any place.
ComputeOkAnywhere(p, i) ==
  LET ins == p.code[i]
      out == ins.outputs[1]
  IN
  /\ PlaceExists(p, ins.place)
  /\ Len(ins.inputs) = Len(ExpectedInputs[ins.kind])
  /\ \A k \in DOMAIN ins.inputs :
       /\ ins.inputs[k] \in DefinedBy(p, i - 1)
       /\ Desc(p, ins.inputs[k]).kind = ExpectedInputs[ins.kind][k]
  /\ HasDesc(p, out)
  /\ Desc(p, out).kind = "Ciphertext"
  /\ Desc(p, out).place = ins.place

ComputeOk(p, i) ==
  LET ins == p.code[i]
      out == ins.outputs[1]
  IN
  /\ PlaceExists(p, ins.place)
  /\ Len(ins.inputs) = Len(ExpectedInputs[ins.kind])
  /\ \A k \in DOMAIN ins.inputs :
       /\ ins.inputs[k] \in DefinedBy(p, i - 1)
       /\ Desc(p, ins.inputs[k]).kind = ExpectedInputs[ins.kind][k]
       /\ Desc(p, ins.inputs[k]).place = ins.place
  /\ HasDesc(p, out)
  /\ Desc(p, out).kind = "Ciphertext"
  /\ Desc(p, out).place = ins.place

\* Mutant: transfer ids are not compared.
TransferIdAny(p, i) == TRUE

\* Each transfer id is used by one communication only.
TransferIdFresh(p, i) ==
  \A j \in Comms(p) : p.code[j].id = p.code[i].id => j >= i

DestinationsOk(p, i) ==
  LET ins == p.code[i]
      src == Desc(p, ins.inputs[1])
  IN
  \A k \in DOMAIN ins.outputs :
    /\ PlaceExists(p, ins.destinations[k])
    /\ ins.destinations[k] # src.place
    /\ \A j \in DOMAIN ins.outputs : ins.destinations[j] = ins.destinations[k] => j = k
    /\ HasDesc(p, ins.outputs[k])
    /\ Desc(p, ins.outputs[k]).place = ins.destinations[k]
    /\ ins.types[k] = src.kind
    /\ Desc(p, ins.outputs[k]).kind = src.kind
    /\ Desc(p, ins.outputs[k]).meta = src.meta

CommOk(p, i) ==
  LET ins == p.code[i] IN
  /\ TransferIdFresh(p, i)
  /\ Len(ins.inputs) = 1 /\ Len(ins.sources) = 1
  /\ ins.inputs[1] \in DefinedBy(p, i - 1)
  /\ PlaceExists(p, ins.sources[1])
  /\ Desc(p, ins.inputs[1]).place = ins.sources[1]
  /\ Len(ins.destinations) = Len(ins.outputs) /\ Len(ins.types) = Len(ins.outputs)
  /\ ins.kind = "Transfer"  => Len(ins.outputs) = 1
  /\ ins.kind = "Replicate" => Len(ins.outputs) >= 2
  /\ DestinationsOk(p, i)

\* Mutant: only computations are checked for single assignment.
OutputsFreshOfComputes(p, i) ==
  p.code[i].op # "Comm" =>
    \A k \in DOMAIN p.code[i].outputs : p.code[i].outputs[k] \notin DefinedBy(p, i - 1)

\* Single assignment: no output was defined before, by the caller, by an
\* earlier instruction or by an earlier slot of this one.
OutputsFresh(p, i) ==
  LET out == p.code[i].outputs IN
  \A k \in DOMAIN out :
    /\ out[k] \notin DefinedBy(p, i - 1)
    /\ \A j \in DOMAIN out : out[j] = out[k] => j = k

InstructionOk(p, i) ==
  /\ p.code[i].op = "Encode"  => EncodeOk(p, i)
  /\ p.code[i].op = "Compute" => ComputeOk(p, i)
  /\ p.code[i].op = "Comm"    => CommOk(p, i)
  /\ OutputsFresh(p, i)

FinalsOk(p) ==
  /\ p.final # <<>>
  /\ \A k \in DOMAIN p.final :
       HasDesc(p, p.final[k]) /\ p.final[k] \in DefinedBy(p, Len(p.code))
  /\ \A j, k \in DOMAIN p.final : p.final[j] = p.final[k] => j = k

\* Every described value occurs somewhere in the plan.
NoUnusedDesc(p) ==
  \A k \in DOMAIN p.values : p.values[k].id \in DefinedBy(p, Len(p.code))

Verified(p) ==
  /\ TargetOk(p)
  /\ ValuesOk(p)
  /\ ExternalOk(p)
  /\ \A i \in DOMAIN p.code : InstructionOk(p, i)
  /\ FinalsOk(p)
  /\ NoUnusedDesc(p)

\* verify_runtime_target: the process is one of the ranks the plan was
\* compiled for and has the devices the plan expects there.
RuntimeTargetOk(p, rank, worldSize, localDevices) ==
  /\ worldSize = p.world_size
  /\ rank \in 0 .. worldSize - 1
  /\ localDevices = p.device_counts[rank + 1]
=============================================================================
