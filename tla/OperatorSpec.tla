---------------------------- MODULE OperatorSpec ----------------------------
(***************************************************************************)
(* The rules that hold between the parts of an OperatorSpec                *)
(* (runtime/operator_spec_reader.cpp): levels against the chain of moduli, *)
(* boot profiles against both, the values of a plan against the spec.      *)
(***************************************************************************)
EXTENDS Integers, Sequences

\* The log2 of the modulus left at a level: moduli 0 .. level.
Budget(s, level) ==
  LET sum[k \in 0 .. Len(s.moduli)] == IF k = 0 THEN 0 ELSE sum[k - 1] + s.moduli[k]
  IN  sum[level + 1]

ProfileOk(s, b) ==
  /\ b.min <= b.max /\ b.min >= s.lower /\ b.max <= s.upper
  /\ b.level \in s.lower .. s.upper
  /\ b.in_components >= 2 /\ b.components >= 2
  /\ b.scale < Budget(s, b.level)
  /\ b.impl = "DecryptReencrypt" => b.secret /\ b.host
  /\ b.impl = "Native" => ~b.secret /\ ~b.host

SpecOk(s) ==
  /\ s.lower <= s.upper /\ s.upper < Len(s.moduli)
  /\ \A b \in s.boots : ProfileOk(s, b)
  /\ "Boot" \in s.supported <=> s.boots # {}

\* Mutant: the components of a plaintext are not looked at.
ValueOkAnyPlaintext(s, d) ==
  /\ d.level \in s.lower .. s.upper
  /\ d.scale < Budget(s, d.level)
  /\ d.kind = "Ciphertext" => d.components >= 2

\* verify, the loop over the value descriptors (runtime/verifier.cpp).
ValueOk(s, d) ==
  /\ d.level \in s.lower .. s.upper
  /\ d.scale < Budget(s, d.level)
  /\ d.kind = "Plaintext" => d.components = 1
  /\ d.kind = "Ciphertext" => d.components >= 2
=============================================================================
