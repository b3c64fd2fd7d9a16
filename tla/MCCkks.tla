------------------------------- MODULE MCCkks -------------------------------
(***************************************************************************)
(* CkksRules with ints up to 4, three levels of two bits and four slots:   *)
(* small enough for scales and components to pass the largest int.         *)
(***************************************************************************)
EXTENDS CkksRules

Boot(impl, min, max, level, scale, components) ==
  [impl |-> impl, min |-> min, max |-> max, in_components |-> 2, level |-> level,
   scale |-> scale, components |-> components, secret |-> impl # "Native", host |-> impl # "Native"]

Native    == Boot("Native", 0, 1, 2, 1, 2)
Reencrypt == Boot("DecryptReencrypt", 0, 0, 1, 2, 2)

OperatorSpec(supported, boots) ==
  [moduli |-> <<2, 2, 2>>, lower |-> 0, upper |-> 2, slots |-> 4, max_drop |-> 1,
   supported |-> supported, boots |-> boots]

\* One with both profiles, one without Boot and with an empty modulus; the last two are refused: a scale
\* beyond the modulus of its level, and Boot claimed without a profile.
MCSpecs ==
  {OperatorSpec(Kinds, {Native, Reencrypt}),
   [OperatorSpec(Kinds \ {"Boot"}, {}) EXCEPT !.moduli = <<2, 0, 2>>],
   OperatorSpec(Kinds, {Boot("Native", 0, 1, 0, 3, 2)}), OperatorSpec(Kinds, {})}

Cipher(level, scale, components) ==
  [kind |-> "Ciphertext", level |-> level, scale |-> scale, components |-> components, ntt |-> TRUE]
Plain(level, scale) ==
  [kind |-> "Plaintext", level |-> level, scale |-> scale, components |-> 1, ntt |-> TRUE]

\* A plaintext that the verifier refuses.
Odd == [Plain(2, 1) EXCEPT !.components = 2]

MCDescs ==
  {Cipher(level, scale, components) : level \in 0 .. 2, scale \in 0 .. 4, components \in 2 .. 4}
  \cup {Plain(level, scale) : level \in 0 .. 2, scale \in 0 .. 4} \cup {Odd}

MCInputs == {Cipher(2, 1, 2), Cipher(2, 3, 3), Cipher(1, 1, 2), Plain(2, 1), Plain(1, 2), Odd}

Attrs(level, scale, components, steps, impl, profile) ==
  [level |-> level, scale |-> scale, components |-> components, steps |-> steps,
   impl |-> impl, profile |-> profile]
NoProfile == Native
Plainly(steps, level, scale) == Attrs(level, scale, 2, steps, "Native", NoProfile)

MCAttributes ==
  [kind \in Kinds |->
     CASE kind = "Rotate"    -> {Plainly(steps, 0, 0) : steps \in {-7, -4, -1, 0, 2, 4, 6}}
       [] kind = "Rescale"   -> {Plainly(0, level, scale) : level \in 0 .. 2, scale \in {0, 1}}
       [] kind = "ModSwitch" -> {Plainly(0, level, 0) : level \in 0 .. 2}
       [] kind = "Boot"      -> {Attrs(2, 1, 2, 0, "Native", Native),
                                 Attrs(1, 2, 2, 0, "DecryptReencrypt", Reencrypt),
                                 Attrs(2, 2, 2, 0, "Native", Native)}
       [] OTHER              -> {Plainly(0, 0, 0)}]
=============================================================================
