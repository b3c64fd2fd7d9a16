------------------------------- MODULE MCDiff -------------------------------
(***************************************************************************)
(* Instances of DiffDrivers: a plan on one rank, the same plan spread over *)
(* two, and either with one thing changed.                                 *)
(***************************************************************************)
EXTENDS DiffDrivers

H0 == Place("Host", 0, 0)
H1 == Place("Host", 1, 0)

Value(id, kind, place) == [id |-> id, kind |-> kind, place |-> place, meta |-> 1]
Cipher(id, place) == Value(id, "Ciphertext", place)

Plain    == [payload |-> [none |-> 0], attrs |-> [none |-> 0], hint |-> "none"]
Sends    == [Plain EXCEPT !.hint = "PointToPoint"]
Payload  == [Plain EXCEPT !.payload = [content |-> 1]]
Steps(n) == [Plain EXCEPT !.attrs = [steps |-> n]]

Send(id, input, from, output, to, type) == Comm("Transfer", id, input, from, <<output>>, <<to>>, type)

Plan(worldSize, values, code, data, inits, final) ==
  [target_id |-> "t", capability_version |-> 1, operator_spec |-> "s", world_size |-> worldSize,
   device_counts |-> [r \in 1 .. worldSize |-> 0], values |-> values, external |-> <<1>>,
   code |-> code, data |-> data, inits |-> inits, final |-> final]

Reference ==
  Plan(1, <<Cipher(1, H0), Value(2, "Plaintext", H0), Cipher(3, H0), Cipher(4, H0), Cipher(5, H0)>>,
       <<Encode(2), Compute("MulCP", <<1, 2>>, 3, H0), Compute("Rotate", <<3>>, 4, H0),
         Compute("SubCC", <<4, 3>>, 5, H0)>>,
       <<Payload, Plain, Steps(1), Plain>>, 1, <<5>>)

\* 3 and 4 are computed on rank 1 and come back for 5, as 13 and 14.
Distributed ==
  Plan(2, <<Cipher(1, H0), Value(2, "Plaintext", H0), Cipher(11, H1), Value(12, "Plaintext", H1),
            Cipher(3, H1), Cipher(4, H1), Cipher(13, H0), Cipher(14, H0), Cipher(5, H0), Cipher(15, H1)>>,
       <<Encode(2), Send(1, 1, H0, 11, H1, "Ciphertext"), Send(2, 2, H0, 12, H1, "Plaintext"),
         Compute("MulCP", <<11, 12>>, 3, H1), Compute("Rotate", <<3>>, 4, H1),
         Send(3, 3, H1, 13, H0, "Ciphertext"), Send(4, 4, H1, 14, H0, "Ciphertext"),
         Compute("SubCC", <<14, 13>>, 5, H0), Send(5, 5, H0, 15, H1, "Ciphertext")>>,
       <<Payload, Sends, Sends, Plain, Steps(1), Sends, Sends, Plain, Sends>>, 1, <<15>>)

Without(seq, i) == SubSeq(seq, 1, i - 1) \o SubSeq(seq, i + 1, Len(seq))
Swapped(seq, i) == [seq EXCEPT ![i] = seq[i + 1], ![i + 1] = seq[i]]

\* One thing changed, of either plan.
Variants(p) ==
  {[p EXCEPT !.target_id = "u"], [p EXCEPT !.capability_version = 2], [p EXCEPT !.operator_spec = "u"],
   [p EXCEPT !.external = <<>>], [p EXCEPT !.external = <<1, 9>>],
   [p EXCEPT !.external = <<3>>], [p EXCEPT !.world_size = 3]}
  \cup {[p EXCEPT !.final = f] : f \in {<<>>, <<3>>, <<4>>, <<1>>, <<5, 3>>, <<99>>, <<13>>, <<14>>}}
  \cup {[p EXCEPT !.values[k].meta = 2] : k \in DOMAIN p.values}
  \cup {[p EXCEPT !.values[k].kind = "Plaintext"] : k \in DOMAIN p.values}
  \cup {[p EXCEPT !.values[k].place = place] : k \in DOMAIN p.values, place \in {H0, H1}}
  \cup {[p EXCEPT !.values = Without(@, k)] : k \in DOMAIN p.values}
  \cup {[p EXCEPT !.values = Append(@, Cipher(id, H0))] : id \in {1, 9}}
  \cup {[p EXCEPT !.code = Without(@, i), !.data = Without(@, i)] : i \in DOMAIN p.code}
  \cup {[p EXCEPT !.code = Swapped(@, i), !.data = Swapped(@, i)] : i \in 1 .. Len(p.code) - 1}
  \cup {[p EXCEPT !.code = Append(@, p.code[i]), !.data = Append(@, p.data[i])] : i \in DOMAIN p.code}
  \cup {[p EXCEPT !.data[i] = d] : i \in DOMAIN p.code,
          d \in {Sends, Steps(2), [Payload EXCEPT !.payload = [content |-> 2]], [Plain EXCEPT !.hint = "Auto"]}}
  \cup {[p EXCEPT !.code[i].kind = kind] :
          i \in {j \in DOMAIN p.code : p.code[j].op = "Compute"}, kind \in {"AddCC", "SubCC", "Negate"}}
  \cup {[p EXCEPT !.code[i].kind = "Replicate"] : i \in Comms(p)}
  \cup {[p EXCEPT !.code[i].outputs[1] = v] : i \in DOMAIN p.code, v \in {3, 4, 11, 13}}
  \cup UNION {{[p EXCEPT !.code[i].inputs[k] = v] : k \in DOMAIN p.code[i].inputs, v \in {1, 3, 4, 13}}
                : i \in DOMAIN p.code}

\* Other single-rank plans: a value used twice, an output that is the input, an input
\* nobody reads, a device.
Doubled ==
  [Reference EXCEPT !.code[4] = Compute("MulCC", <<3, 3>>, 5, H0), !.code[3] = Compute("Rotate", <<3>>, 4, H0)]
Echo == [Reference EXCEPT !.final = <<1>>]
Constant ==
  Plan(1, <<Cipher(1, H0), Value(2, "Plaintext", H0)>>, <<Encode(2)>>, <<Payload>>, 1, <<2>>)

OnDevice ==
  [Plan(1, <<Cipher(1, H0), Cipher(11, Place("Device", 0, 0))>>,
        <<Send(1, 1, H0, 11, Place("Device", 0, 0), "Ciphertext")>>, <<Sends>>, 1, <<11>>)
   EXCEPT !.device_counts = <<1>>]

ChangedPlans == {Reference, Doubled, Echo, Constant, OnDevice} \cup Variants(Reference)

AllPairs ==
  {[reference |-> p, distributed |-> Distributed] : p \in ChangedPlans}
  \cup {[reference |-> Reference, distributed |-> d] : d \in {Distributed, Reference} \cup Variants(Distributed)}
MCPairs == AllPairs
=============================================================================
