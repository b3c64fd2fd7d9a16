------------------------------ MODULE MCPlans ------------------------------
(***************************************************************************)
(* The plans that the cluster runs share: small ones, chosen so that ranks *)
(* cross.  Each waits for the other, a value is replicated to both, an     *)
(* operand is used twice, a received value is sent on, two ranks need what *)
(* they exchange in opposite orders.                                       *)
(***************************************************************************)
EXTENDS RuntimePlan

H0 == Place("Host", 0, 0)
D0 == Place("Device", 0, 0)
D1 == Place("Device", 1, 0)
H1 == Place("Host", 1, 0)
H2 == Place("Host", 2, 0)

Described(id, kind, place) == [id |-> id, kind |-> kind, place |-> place, meta |-> "m"]
Cipher(id, place) == Described(id, "Ciphertext", place)

PlanOver(world, values, external, code, inits, final) ==
  [world_size |-> world, device_counts |-> [k \in 1 .. world |-> 1], values |-> values,
   external |-> external, code |-> code, inits |-> inits, final |-> final]

\* Replicate the input to both devices, square it on rank 1, send that to rank 0.
RoundTrip ==
  PlanOver(2, <<Cipher(1, H0), Cipher(2, D0), Cipher(3, D1), Cipher(4, D1), Cipher(5, D0)>>, <<1>>,
    << Comm("Replicate", 1, 1, H0, <<2, 3>>, <<D0, D1>>, "Ciphertext"),
       Compute("MulCC", <<3, 3>>, 4, D1),
       Comm("Transfer", 2, 4, D1, <<5>>, <<D0>>, "Ciphertext") >>, 1, <<5, 2>>)

\* Each rank has an input and sends it to the other, which negates it.
Exchange ==
  PlanOver(2, <<Cipher(1, H0), Cipher(2, H1), Cipher(3, H1), Cipher(4, H0), Cipher(5, H1)>>, <<1, 2>>,
    << Comm("Transfer", 1, 1, H0, <<3>>, <<H1>>, "Ciphertext"),
       Comm("Transfer", 2, 2, H1, <<4>>, <<H0>>, "Ciphertext"),
       Compute("AddCC", <<3, 2>>, 5, H1) >>, 0, <<4, 5>>)

\* A plaintext encoded on rank 0 is preloaded onto rank 1 and used there.
Preload ==
  PlanOver(2, <<Described(1, "Plaintext", H0), Described(2, "Plaintext", D1), Cipher(3, H1),
             Cipher(4, D1), Cipher(5, D1)>>, <<3>>,
    << Encode(1), Comm("Transfer", 7, 1, H0, <<2>>, <<D1>>, "Plaintext"),
       Comm("Transfer", 9, 3, H1, <<4>>, <<D1>>, "Ciphertext"),
       Compute("MulCP", <<4, 2>>, 5, D1) >>, 2, <<5>>)

\* Rejected: the two transfers share an id, so their messages would share a key.
SharedId == [Exchange EXCEPT !.code[2].id = 1]

\* Three ranks: a value reaches rank 2 both straight and through rank 1, and
\* what rank 2 makes of it goes back to rank 0.
Relay ==
  PlanOver(3, <<Cipher(1, H0), Cipher(2, H1), Cipher(3, H2), Cipher(4, H2), Cipher(5, H2),
                Cipher(6, H0)>>, <<1>>,
    << Comm("Replicate", 1, 1, H0, <<2, 3>>, <<H1, H2>>, "Ciphertext"),
       Comm("Transfer", 2, 2, H1, <<4>>, <<H2>>, "Ciphertext"),
       Compute("AddCC", <<3, 4>>, 5, H2),
       Comm("Transfer", 3, 5, H2, <<6>>, <<H0>>, "Ciphertext") >>, 0, <<6>>)

\* The same with a transfer id that a small MPI_TAG_UB leaves no tag for.
FarRelay == [Relay EXCEPT !.code[4].id = 4]

\* The replicate's own rank needs it before it can make the transfer, the other
\* rank needs the transfer before it asks for its part of the replicate.
Split ==
  PlanOver(2, <<Cipher(1, H0), Cipher(2, D0), Cipher(3, D1), Cipher(4, D0), Cipher(5, D1),
                Cipher(6, D1)>>, <<1>>,
    << Comm("Replicate", 1, 1, H0, <<2, 3>>, <<D0, D1>>, "Ciphertext"),
       Compute("AddCC", <<2, 2>>, 4, D0),
       Comm("Transfer", 2, 4, D0, <<5>>, <<D1>>, "Ciphertext"),
       Compute("AddCC", <<5, 3>>, 6, D1) >>, 0, <<6>>)

MCPlans == [n \in {"trip", "exchange", "preload", "shared", "relay", "far", "split"} |->
              CASE n = "trip" -> RoundTrip [] n = "exchange" -> Exchange
                [] n = "preload" -> Preload [] n = "shared" -> SharedId
                [] n = "relay" -> Relay [] n = "far" -> FarRelay
                [] n = "split" -> Split]
=============================================================================
