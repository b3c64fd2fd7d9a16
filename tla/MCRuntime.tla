----------------------------- MODULE MCRuntime -----------------------------
(***************************************************************************)
(* SequentialRuntime over every plan of up to MaxCode instructions drawn   *)
(* from a pool: legal and illegal ones together, so that the verifier has  *)
(* something to refuse.  World of two ranks with one device each.          *)
(***************************************************************************)
EXTENDS SequentialRuntime

CONSTANT MaxCode

H0 == Place("Host", 0, 0)
D0 == Place("Device", 0, 0)
D1 == Place("Device", 1, 0)

Described(id, kind, place) == [id |-> id, kind |-> kind, place |-> place, meta |-> "m"]

Descs ==
  << Described(1, "Ciphertext", H0), Described(2, "Ciphertext", D0),
     Described(3, "Ciphertext", D0), Described(4, "Ciphertext", H0),
     Described(5, "Ciphertext", D1), Described(6, "Plaintext", H0),
     Described(7, "Ciphertext", D1) >>

Pool ==
  { Comm("Transfer", 1, 1, H0, <<2>>, <<D0>>, "Ciphertext"),
    Comm("Replicate", 2, 1, H0, <<2, 5>>, <<D0, D1>>, "Ciphertext"),
    Comm("Transfer", 3, 5, D1, <<3>>, <<D0>>, "Ciphertext"),
    Comm("Transfer", 2, 2, D0, <<4>>, <<H0>>, "Ciphertext"),
    Compute("MulCC", <<2, 2>>, 3, D0),
    Compute("Negate", <<1>>, 3, D0),
    Compute("AddCP", <<1, 6>>, 4, H0),
    Compute("Negate", <<5>>, 7, D1),
    Encode(6) }

\* Exactly the values a plan mentions are described, in id order.
Mentioned(code) ==
  {1} \cup UNION {{code[i].outputs[k] : k \in DOMAIN code[i].outputs}
                  \cup {code[i].inputs[k] : k \in DOMAIN code[i].inputs} : i \in DOMAIN code}

PlanFor(code, inits, final) ==
  [world_size |-> 2, device_counts |-> <<1, 1>>,
   values |-> SelectSeq(Descs, LAMBDA d : d.id \in Mentioned(code)),
   external |-> <<1>>, code |-> code, inits |-> inits, final |-> final]

\* A plan's name is the plan's contents: two files differ when they do.
\* Every code of up to two instructions, and the legal ones up to MaxCode,
\* which never repeat an instruction.
Finals == {<<3>>, <<4>>, <<2, 5>>, <<1, 4>>}
Names(codes) == {<<code, inits, final>> \in codes \X (0 .. 2) \X Finals : inits <= Len(code)}
Distinct(n) == {code \in [1 .. n -> Pool] : \A i, j \in 1 .. n : code[i] = code[j] => i = j}
Legal(names) == {x \in names : Verified(PlanFor(x[1], x[2], x[3]))}

MCNames ==
  Names([1 .. 1 -> Pool]) \cup Names([1 .. 2 -> Pool])
  \cup Legal(UNION {Names(Distinct(n)) : n \in 3 .. MaxCode})
MCPlans == [x \in MCNames |-> PlanFor(x[1], x[2], x[3])]

\* The caller binds the right external input, none, or one too many.
LegalArgs ==
  [plan : MCNames, skip : {FALSE}, retain : BOOLEAN, inputs : {{1}},
   devices : {1}, trace : {TRUE}]
WrongArgs ==
  [plan : Legal(Names([1 .. 1 -> Pool])), skip : {FALSE}, retain : {FALSE},
   inputs : {{}, {1, 6}},
   devices : {1, 2}, trace : BOOLEAN]
ArgSet == LegalArgs \cup WrongArgs
MCArgs == [r \in Ranks |-> ArgSet]
=============================================================================
