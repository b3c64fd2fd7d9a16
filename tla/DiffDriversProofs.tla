------------------------- MODULE DiffDriversProofs -------------------------
(***************************************************************************)
(* The two comparison tools, for plans of any length.                      *)
(*                                                                         *)
(* Contents and Lineage are recursive functions: that one exists is shown  *)
(* on its least counterexample.  What a verified plan leaves behind is     *)
(* then an equation between the contents of an output and those of its     *)
(* operands, and everything said of all values follows from one induction  *)
(* over the positions of a plan (ValuesByPosition).                        *)
(***************************************************************************)
EXTENDS DiffDrivers, FiniteSetTheorems, NaturalsInduction, WellFoundedInduction, TLAPS

\* A plan that the verifier has let through.
PlanOK(p) == PlanTyped(p) /\ Verified(p)

\* A nonempty set of naturals has a least element.
LEMMA LeastNat ==
  ASSUME NEW S, S \subseteq Nat, S # {}
  PROVE  \E m \in S : \A y \in S : m <= y
<1>1. \E x \in S : \A y \in S : ~ (<<y, x>> \in OpToRel(<, Nat))
  BY NatLessThanWellFounded, WFMin
<1>2. PICK x \in S : \A y \in S : ~ (y < x)
  BY <1>1 DEF OpToRel
<1> QED
  BY <1>2

-----------------------------------------------------------------------------
(***************************************************************************)
(* What PlanVerifier grants.                                               *)
(***************************************************************************)
\* The positions of a plan, and the shapes of its instruction bodies (struct
\* RuntimePlan and the checks of arity in PlanVerifier::verify).
LEMMA PlanShape ==
  ASSUME NEW p, PlanOK(p)
  PROVE  /\ Len(p.code) \in Nat /\ DOMAIN p.code = 1 .. Len(p.code)
         /\ Len(p.final) \in Nat /\ DOMAIN p.final = 1 .. Len(p.final)
         /\ Len(p.external) \in Nat /\ DOMAIN p.external = 1 .. Len(p.external)
         /\ Len(p.values) \in Nat /\ DOMAIN p.values = 1 .. Len(p.values)
         /\ \A i \in DOMAIN p.code :
              /\ p.code[i].op \in {"Encode", "Compute", "Comm"}
              /\ p.code[i].inputs \in Seq(Nat) /\ p.code[i].outputs \in Seq(Nat)
              /\ InstructionOk(p, i)
              /\ p.code[i].op # "Comm" => DOMAIN p.code[i].outputs = {1}
              /\ p.code[i].op = "Encode" => DOMAIN p.code[i].inputs = {}
              /\ p.code[i].op = "Comm" => DOMAIN p.code[i].inputs = {1}
<1> USE DEF PlanOK, PlanTyped, IsPlan
<1>1. /\ Len(p.code) \in Nat /\ DOMAIN p.code = 1 .. Len(p.code)
      /\ Len(p.final) \in Nat /\ DOMAIN p.final = 1 .. Len(p.final)
      /\ Len(p.external) \in Nat /\ DOMAIN p.external = 1 .. Len(p.external)
  OBVIOUS
<1>2. Len(p.values) \in Nat /\ DOMAIN p.values = 1 .. Len(p.values)
  OBVIOUS
<1>3. ASSUME NEW i \in DOMAIN p.code
      PROVE  /\ p.code[i].op \in {"Encode", "Compute", "Comm"}
             /\ p.code[i].inputs \in Seq(Nat) /\ p.code[i].outputs \in Seq(Nat)
             /\ InstructionOk(p, i)
             /\ p.code[i].op # "Comm" => DOMAIN p.code[i].outputs = {1}
             /\ p.code[i].op = "Encode" => DOMAIN p.code[i].inputs = {}
             /\ p.code[i].op = "Comm" => DOMAIN p.code[i].inputs = {1}
  <2>1. p.code[i] \in Instructions(Nat)
    OBVIOUS
  <2>2. /\ p.code[i].op \in {"Encode", "Compute", "Comm"}
        /\ p.code[i].inputs \in Seq(Nat) /\ p.code[i].outputs \in Seq(Nat)
    BY <2>1 DEF Instructions
  <2>3. InstructionOk(p, i)
    BY DEF Verified
  <2>4. p.code[i].op # "Comm" => Len(p.code[i].outputs) = 1
    OBVIOUS
  <2>5. p.code[i].op = "Encode" => DOMAIN p.code[i].inputs = {}
    OBVIOUS
  <2>6. p.code[i].op = "Comm" => Len(p.code[i].inputs) = 1
    BY <2>3 DEF InstructionOk, CommOk
  <2> QED
    BY <2>2, <2>3, <2>4, <2>5, <2>6
<1> QED
  BY <1>1, <1>2, <1>3

\* The values there are before and after an instruction (the set `defined` of
\* PlanVerifier::verify).
LEMMA DefinedStep ==
  ASSUME NEW p, PlanOK(p)
  PROVE  /\ DefinedBy(p, 0) = Inputs(p)
         /\ \A n \in DOMAIN p.code :
              /\ DefinedBy(p, n) = DefinedBy(p, n - 1)
                                   \cup {p.code[n].outputs[k] : k \in DOMAIN p.code[n].outputs}
              /\ \A k \in DOMAIN p.code[n].outputs : p.code[n].outputs[k] \notin DefinedBy(p, n - 1)
              /\ \A k \in DOMAIN p.code[n].inputs : p.code[n].inputs[k] \in DefinedBy(p, n - 1)
<1> DEFINE outs(i) == {p.code[i].outputs[k] : k \in DOMAIN p.code[i].outputs}
<1>1. Len(p.code) \in Nat /\ DOMAIN p.code = 1 .. Len(p.code)
  BY PlanShape
<1>2. \A n : DefinedBy(p, n) = Inputs(p) \cup UNION {outs(i) : i \in {j \in DOMAIN p.code : j <= n}}
  BY DEF DefinedBy, Inputs
<1>3. {j \in DOMAIN p.code : j <= 0} = {}
  BY <1>1
<1>4. ASSUME NEW n \in DOMAIN p.code
      PROVE  {j \in DOMAIN p.code : j <= n} = {j \in DOMAIN p.code : j <= n - 1} \cup {n}
  BY <1>1
<1> HIDE DEF outs
<1>5. DefinedBy(p, 0) = Inputs(p)
  BY <1>2, <1>3
<1>6. ASSUME NEW n \in DOMAIN p.code
      PROVE  DefinedBy(p, n) = DefinedBy(p, n - 1) \cup outs(n)
  BY <1>2, <1>4
<1>7. ASSUME NEW n \in DOMAIN p.code
      PROVE  /\ \A k \in DOMAIN p.code[n].outputs : p.code[n].outputs[k] \notin DefinedBy(p, n - 1)
             /\ \A k \in DOMAIN p.code[n].inputs : p.code[n].inputs[k] \in DefinedBy(p, n - 1)
  <2>1. InstructionOk(p, n) /\ p.code[n].op \in {"Encode", "Compute", "Comm"}
    BY PlanShape
  <2>2. OutputsFresh(p, n)
    BY <2>1 DEF InstructionOk
  <2>3. CASE p.code[n].op = "Encode"
    BY <2>2, <2>3, PlanShape DEF OutputsFresh
  <2>4. CASE p.code[n].op = "Compute"
    <3>1. ComputeOk(p, n)
      BY <2>1, <2>4 DEF InstructionOk
    <3> QED
      BY <2>2, <3>1 DEF OutputsFresh, ComputeOk
  <2>5. CASE p.code[n].op = "Comm"
    <3>1. CommOk(p, n)
      BY <2>1, <2>5 DEF InstructionOk
    <3>2. DOMAIN p.code[n].inputs = {1}
      BY <2>5, PlanShape
    <3> QED
      BY <2>2, <3>1, <3>2 DEF OutputsFresh, CommOk
  <2> QED
    BY <2>1, <2>3, <2>4, <2>5
<1> QED
  BY <1>5, <1>6, <1>7 DEF outs

\* Every value that is defined is described, at the place it is defined at, and
\* the other way round.
LEMMA DefinedDescribed ==
  ASSUME NEW p, PlanOK(p)
  PROVE  /\ DefinedBy(p, Len(p.code)) = Ids(p)
         /\ \A k \in DOMAIN p.external : HasDesc(p, p.external[k])
         /\ \A i \in DOMAIN p.code : \A k \in DOMAIN p.code[i].outputs :
              /\ HasDesc(p, p.code[i].outputs[k])
              /\ OutPlace(p, i, k) = Desc(p, p.code[i].outputs[k]).place
<1>1. \A k \in DOMAIN p.external : HasDesc(p, p.external[k])
  BY DEF PlanOK, Verified, ExternalOk
<1>2. ASSUME NEW i \in DOMAIN p.code, NEW k \in DOMAIN p.code[i].outputs
      PROVE  /\ HasDesc(p, p.code[i].outputs[k])
             /\ OutPlace(p, i, k) = Desc(p, p.code[i].outputs[k]).place
  <2>1. InstructionOk(p, i) /\ p.code[i].op \in {"Encode", "Compute", "Comm"}
    BY PlanShape
  <2>2. CASE p.code[i].op = "Encode"
    BY <2>1, <2>2, PlanShape DEF InstructionOk, EncodeOk, OutPlace
  <2>3. CASE p.code[i].op = "Compute"
    <3>1. ComputeOk(p, i) /\ k = 1
      BY <2>1, <2>3, PlanShape DEF InstructionOk
    <3> QED
      BY <2>3, <3>1 DEF ComputeOk, OutPlace
  <2>4. CASE p.code[i].op = "Comm"
    <3>1. DestinationsOk(p, i)
      BY <2>1, <2>4 DEF InstructionOk, CommOk
    <3> QED
      BY <2>4, <3>1 DEF DestinationsOk, OutPlace
  <2> QED
    BY <2>1, <2>2, <2>3, <2>4
<1>3. DefinedBy(p, Len(p.code)) \subseteq Ids(p)
  <2>1. \A v : HasDesc(p, v) <=> v \in Ids(p)
    BY DEF HasDesc, Ids
  <2> QED
    BY <1>1, <1>2, <2>1 DEF DefinedBy
<1>4. Ids(p) \subseteq DefinedBy(p, Len(p.code))
  BY DEF Ids, PlanOK, Verified, NoUnusedDesc
<1> QED
  BY <1>1, <1>2, <1>3, <1>4

\* The inputs have a property, and every instruction passes it from its operands
\* on to its outputs: then all values up to there have it.
LEMMA ValuesByPosition ==
  ASSUME NEW p, PlanOK(p), NEW n \in 0 .. Len(p.code), NEW S, Inputs(p) \subseteq S,
         \A i \in 1 .. n :
           (\A k \in DOMAIN p.code[i].inputs : p.code[i].inputs[k] \in S)
             => \A k \in DOMAIN p.code[i].outputs : p.code[i].outputs[k] \in S
  PROVE  DefinedBy(p, n) \subseteq S
<1> DEFINE bad == {m \in Nat : m <= n /\ ~(DefinedBy(p, m) \subseteq S)}
<1>1. Len(p.code) \in Nat /\ DOMAIN p.code = 1 .. Len(p.code)
  BY PlanShape
<1>2. ASSUME bad # {} PROVE FALSE
  <2>1. PICK m \in bad : \A y \in bad : m <= y
    BY <1>2, LeastNat
  <2>2. m \in Nat /\ m <= n /\ ~(DefinedBy(p, m) \subseteq S)
    OBVIOUS
  <2>3. m # 0
    BY <2>2, DefinedStep
  <2>4. m \in 1 .. n /\ m \in DOMAIN p.code /\ m - 1 \in Nat /\ m - 1 <= n /\ ~(m <= m - 1)
    BY <1>1, <2>2, <2>3
  <2>5. DefinedBy(p, m - 1) \subseteq S
    BY <2>1, <2>4
  <2>6. \A k \in DOMAIN p.code[m].inputs : p.code[m].inputs[k] \in S
    BY <2>4, <2>5, DefinedStep
  <2>7. \A k \in DOMAIN p.code[m].outputs : p.code[m].outputs[k] \in S
    BY <2>4, <2>6
  <2> QED
    BY <2>2, <2>4, <2>5, <2>7, DefinedStep
<1>3. n \in Nat /\ n <= n
  BY <1>1
<1> QED
  BY <1>2, <1>3

-----------------------------------------------------------------------------
(***************************************************************************)
(* What a run leaves behind.                                               *)
(***************************************************************************)
Start(p) == [v \in Inputs(p) |-> <<"input", v>>]

\* The equation that defines Values, up to instruction n.
ValuesTo(p, wrong, n, s) ==
  s = [m \in 0 .. n |-> IF m = 0 THEN Start(p) ELSE Executed(p, wrong, m, s[m - 1])]

\* The equation has a solution, so Values is one (run_plan).
LEMMA ValuesDefined ==
  ASSUME NEW p, NEW wrong, Len(p.code) \in Nat
  PROVE  ValuesTo(p, wrong, Len(p.code), Values(p, wrong))
<1> DEFINE bad == {n \in Nat : ~\E s : ValuesTo(p, wrong, n, s)}
<1>1. ASSUME bad # {} PROVE FALSE
  <2>1. PICK m \in bad : \A y \in bad : m <= y
    BY <1>1, LeastNat
  <2>2. m \in Nat
    OBVIOUS
  <2>3. CASE m = 0
    <3> DEFINE t == [j \in 0 .. 0 |-> Start(p)]
    <3>1. ValuesTo(p, wrong, 0, t)
      BY DEF ValuesTo
    <3> QED
      BY <2>3, <3>1
  <2>4. CASE m # 0
    <3>1. m - 1 \in Nat /\ m - 1 \notin bad
      <4>1. m - 1 \in Nat /\ ~(m <= m - 1)
        BY <2>2, <2>4
      <4> QED
        BY <2>1, <4>1
    <3>2. PICK s : ValuesTo(p, wrong, m - 1, s)
      BY <3>1
    <3> DEFINE t == [j \in 0 .. m |-> IF j = m THEN Executed(p, wrong, m, s[m - 1]) ELSE s[j]]
    <3>3. ASSUME NEW j \in 0 .. m
          PROVE  t[j] = IF j = 0 THEN Start(p) ELSE Executed(p, wrong, j, t[j - 1])
      <4>1. CASE j = m
        <5>1. t[j - 1] = s[m - 1] /\ t[j] = Executed(p, wrong, m, s[m - 1])
          BY <2>2, <2>4, <4>1
        <5> QED
          BY <2>4, <4>1, <5>1
      <4>2. CASE j # m
        <5>1. j \in 0 .. m - 1 /\ t[j] = s[j] /\ (j # 0 => t[j - 1] = s[j - 1])
          BY <2>2, <4>2
        <5> HIDE DEF t
        <5>2. s[j] = IF j = 0 THEN Start(p) ELSE Executed(p, wrong, j, s[j - 1])
          BY <3>2, <5>1 DEF ValuesTo
        <5> QED
          BY <5>1, <5>2
      <4> QED
        BY <4>1, <4>2
    <3>4. DOMAIN t = 0 .. m /\ t = [j \in DOMAIN t |-> t[j]]
      OBVIOUS
    <3> HIDE DEF t
    <3>5. ValuesTo(p, wrong, m, t)
      BY <3>3, <3>4 DEF ValuesTo
    <3> QED
      BY <2>1, <3>5
  <2> QED
    BY <2>3, <2>4
<1>2. \E s : ValuesTo(p, wrong, Len(p.code), s)
  BY <1>1
<1>3. Values(p, wrong) = CHOOSE s : ValuesTo(p, wrong, Len(p.code), s)
  BY DEF Values, ValuesTo, Start
<1> QED
  BY <1>2, <1>3

\* What Values computes at each instruction.
LEMMA ValuesAt ==
  ASSUME NEW p, PlanOK(p), NEW wrong
  PROVE  /\ Values(p, wrong)[0] = Start(p)
         /\ \A n \in DOMAIN p.code :
              Values(p, wrong)[n] = Executed(p, wrong, n, Values(p, wrong)[n - 1])
<1>1. Len(p.code) \in Nat /\ DOMAIN p.code = 1 .. Len(p.code)
  BY PlanShape
<1>2. Values(p, wrong) = [m \in 0 .. Len(p.code) |-> IF m = 0 THEN Start(p)
                                 ELSE Executed(p, wrong, m, Values(p, wrong)[m - 1])]
  BY <1>1, ValuesDefined DEF ValuesTo
<1>3. Values(p, wrong)[0] = Start(p)
  BY <1>1, <1>2
<1>4. ASSUME NEW n \in DOMAIN p.code
      PROVE  Values(p, wrong)[n] = Executed(p, wrong, n, Values(p, wrong)[n - 1])
  <2>1. n \in 0 .. Len(p.code) /\ n # 0
    BY <1>1
  <2> QED
    BY <1>2, <2>1
<1> QED
  BY <1>3, <1>4

\* After n instructions there are the values those define, and a value stays what
\* it is once it is defined.
LEMMA ValuesSettled ==
  ASSUME NEW p, PlanOK(p), NEW wrong
  PROVE  \A n \in 0 .. Len(p.code) :
           /\ DOMAIN Values(p, wrong)[n] = DefinedBy(p, n)
           /\ \A m \in 0 .. n : \A v \in DefinedBy(p, m) :
                v \in DefinedBy(p, n) /\ Values(p, wrong)[n][v] = Values(p, wrong)[m][v]
<1> DEFINE V == Values(p, wrong)
           Good(n) == /\ DOMAIN V[n] = DefinedBy(p, n)
                      /\ \A m \in 0 .. n : \A v \in DefinedBy(p, m) :
                           v \in DefinedBy(p, n) /\ V[n][v] = V[m][v]
           bad == {n \in Nat : n <= Len(p.code) /\ ~Good(n)}
<1>1. Len(p.code) \in Nat /\ DOMAIN p.code = 1 .. Len(p.code)
  BY PlanShape
<1>2. Good(0)
  <2>1. DOMAIN V[0] = DefinedBy(p, 0)
    <3>1. V[0] = Start(p) /\ DefinedBy(p, 0) = Inputs(p)
      BY ValuesAt, DefinedStep
    <3> QED
      BY <3>1 DEF Start
  <2>2. \A m \in 0 .. 0 : m = 0
    OBVIOUS
  <2> HIDE DEF V
  <2> QED
    BY <2>1, <2>2
<1>3. ASSUME NEW n \in DOMAIN p.code, Good(n - 1) PROVE Good(n)
  <2> DEFINE new == {p.code[n].outputs[k] : k \in DOMAIN p.code[n].outputs}
  <2>1. V[n] = Executed(p, wrong, n, V[n - 1])
    BY ValuesAt
  <2>2. DefinedBy(p, n) = DefinedBy(p, n - 1) \cup new
    BY DefinedStep
  <2>3. DOMAIN V[n] = DefinedBy(p, n)
    BY <1>3, <2>1, <2>2 DEF Executed
  <2>4. ASSUME NEW v \in DefinedBy(p, n - 1) PROVE v \in DefinedBy(p, n) /\ V[n][v] = V[n - 1][v]
    <3>1. v \notin new
      BY DefinedStep
    <3>2. v \in DOMAIN V[n - 1]
      BY <1>3
    <3> HIDE DEF V
    <3> QED
      BY <2>1, <2>2, <3>1, <3>2 DEF Executed
  <2>5. \A m \in 0 .. n : m = n \/ m \in 0 .. n - 1
    BY <1>1
  <2> HIDE DEF V
  <2> QED
    BY <1>3, <2>3, <2>4, <2>5
<1> HIDE DEF Good
<1>4. ASSUME bad # {} PROVE FALSE
  <2>1. PICK m \in bad : \A y \in bad : m <= y
    BY <1>4, LeastNat
  <2>2. m \in Nat /\ m <= Len(p.code) /\ ~Good(m)
    OBVIOUS
  <2>3. m \in DOMAIN p.code /\ m - 1 \in Nat /\ m - 1 <= Len(p.code) /\ ~(m <= m - 1)
    BY <1>1, <1>2, <2>2
  <2> QED
    BY <1>3, <2>1, <2>2, <2>3
<1>5. \A n \in 0 .. Len(p.code) : Good(n)
  BY <1>1, <1>4
<1> QED
  BY <1>5 DEF Good

\* What instruction i is applied to.
Operands(p, wrong, i) ==
  [l \in DOMAIN p.code[i].inputs |-> Contents(p, wrong)[p.code[i].inputs[l]]]

\* The contents of an input, and of an output in terms of the operands' contents
\* (the loop of run_plan, when every value is assigned once).
LEMMA ContentsOf ==
  ASSUME NEW p, PlanOK(p), NEW wrong
  PROVE  /\ \A v \in Inputs(p) : Contents(p, wrong)[v] = <<"input", v>>
         /\ \A i \in DOMAIN p.code : \A k \in DOMAIN p.code[i].outputs :
              Contents(p, wrong)[p.code[i].outputs[k]] =
                IF i = wrong THEN <<"wrong">> ELSE Term(p, i, Operands(p, wrong, i))
<1> DEFINE V == Values(p, wrong)
           C == Contents(p, wrong)
<1>1. Len(p.code) \in Nat /\ DOMAIN p.code = 1 .. Len(p.code)
  BY PlanShape
<1>2. C = V[Len(p.code)]
  BY DEF Contents
<1>3. \A m \in 0 .. Len(p.code) : \A v \in DefinedBy(p, m) : C[v] = V[m][v]
  BY <1>1, <1>2, ValuesSettled
<1>4. ASSUME NEW v \in Inputs(p) PROVE C[v] = <<"input", v>>
  <2>1. C[v] = V[0][v]
    BY <1>1, <1>3, DefinedStep
  <2>2. V[0] = Start(p)
    BY ValuesAt
  <2> QED
    BY <2>1, <2>2 DEF Start
<1>5. ASSUME NEW i \in DOMAIN p.code, NEW k \in DOMAIN p.code[i].outputs
      PROVE  C[p.code[i].outputs[k]] =
               IF i = wrong THEN <<"wrong">> ELSE Term(p, i, Operands(p, wrong, i))
  <2> DEFINE v == p.code[i].outputs[k]
             new == {p.code[i].outputs[l] : l \in DOMAIN p.code[i].outputs}
             before == [l \in DOMAIN p.code[i].inputs |-> V[i - 1][p.code[i].inputs[l]]]
             after == Operands(p, wrong, i)
  <2>1. i \in 0 .. Len(p.code) /\ i - 1 \in 0 .. Len(p.code)
    BY <1>1
  <2>2. v \in new /\ v \in DefinedBy(p, i)
    BY DefinedStep
  <2>3. C[v] = V[i][v]
    BY <1>3, <2>1, <2>2
  <2>4. V[i] = Executed(p, wrong, i, V[i - 1])
    BY ValuesAt
  <2>5. V[i][v] = IF i = wrong THEN <<"wrong">> ELSE Term(p, i, before)
    <3> HIDE DEF V, v
    <3> QED
      BY <2>2, <2>4 DEF Executed
  <2>6. ASSUME NEW l \in DOMAIN p.code[i].inputs
        PROVE  C[p.code[i].inputs[l]] = V[i - 1][p.code[i].inputs[l]]
    BY <1>3, <2>1, DefinedStep
  <2>7. before = after
    BY <2>6 DEF Operands
  <2> HIDE DEF V, C
  <2> HIDE DEF before, after
  <2>8. C[v] = IF i = wrong THEN <<"wrong">> ELSE Term(p, i, after)
    BY <2>3, <2>5, <2>7
  <2> QED
    BY <2>8 DEF after
<1> QED
  BY <1>4, <1>5

\* A run in which nothing goes wrong has no wrong contents, and one that goes
\* wrong leaves what is defined before its culprit as it should be.
LEMMA ContentsOfRuns ==
  ASSUME NEW p, PlanOK(p)
  PROVE  /\ \A v \in DefinedBy(p, Len(p.code)) : Contents(p, 0)[v] # <<"wrong">>
         /\ \A wrong \in DOMAIN p.code :
              /\ \A v \in DefinedBy(p, wrong - 1) : Contents(p, wrong)[v] = Contents(p, 0)[v]
              /\ \A k \in DOMAIN p.code[wrong].outputs :
                   Contents(p, wrong)[p.code[wrong].outputs[k]] = <<"wrong">>
<1> DEFINE C == Contents(p, 0)
<1>1. Len(p.code) \in Nat /\ DOMAIN p.code = 1 .. Len(p.code)
  BY PlanShape
<1>2. DefinedBy(p, Len(p.code)) \subseteq {v \in DefinedBy(p, Len(p.code)) : C[v] # <<"wrong">>}
  <2> DEFINE S == {v \in DefinedBy(p, Len(p.code)) : C[v] # <<"wrong">>}
  <2>0. Len(p.code) \in 0 .. Len(p.code)
    BY <1>1
  <2>1. Inputs(p) \subseteq DefinedBy(p, Len(p.code))
    BY DEF Inputs, DefinedBy
  <2>2. Inputs(p) \subseteq S
    <3>1. \A v \in Inputs(p) : C[v] = <<"input", v>>
      BY ContentsOf
    <3>2. \A v : <<"input", v>> # <<"wrong">>
      OBVIOUS
    <3> HIDE DEF C
    <3> QED
      BY <2>1, <3>1, <3>2
  <2>3. ASSUME NEW i \in 1 .. Len(p.code), \A k \in DOMAIN p.code[i].inputs : p.code[i].inputs[k] \in S,
               NEW k \in DOMAIN p.code[i].outputs
        PROVE  p.code[i].outputs[k] \in S
    <3> DEFINE operands == Operands(p, 0, i)
    <3>1. i \in DOMAIN p.code /\ i # 0
      BY <1>1
    <3>2. p.code[i].outputs[k] \in DefinedBy(p, Len(p.code))
      BY <1>1, <3>1 DEF DefinedBy
    <3>3. C[p.code[i].outputs[k]] = Term(p, i, operands)
      BY <3>1, ContentsOf
    <3>4. p.code[i].op = "Comm" => operands[1] # <<"wrong">>
      BY <2>3, <3>1, PlanShape DEF Operands
    <3>5. p.code[i].op \in {"Encode", "Compute", "Comm"}
      BY <3>1, PlanShape
    <3> HIDE DEF operands
    <3>6. Term(p, i, operands) # <<"wrong">>
      <4>1. CASE p.code[i].op = "Encode"
        <5>1. Term(p, i, operands) = <<"encode", p.data[i].payload>>
          BY <4>1 DEF Term
        <5>2. \A x : <<"encode", x>> # <<"wrong">>
          OBVIOUS
        <5> QED
          BY <5>1, <5>2
      <4>2. CASE p.code[i].op = "Compute"
        <5>1. Term(p, i, operands) = <<"compute", p.code[i].kind, p.data[i].attrs, operands>>
          BY <4>2 DEF Term
        <5>2. \A x, y, z : <<"compute", x, y, z>> # <<"wrong">>
          OBVIOUS
        <5> QED
          BY <5>1, <5>2
      <4>3. CASE p.code[i].op = "Comm"
        BY <3>4, <4>3 DEF Term
      <4> QED
        BY <3>5, <4>1, <4>2, <4>3
    <3> QED
      BY <3>2, <3>3, <3>6
  <2> HIDE DEF S
  <2>4. DefinedBy(p, Len(p.code)) \subseteq S
    BY <2>0, <2>2, <2>3, ValuesByPosition
  <2> QED
    BY <2>4 DEF S
<1>3. ASSUME NEW w \in DOMAIN p.code, NEW v \in DefinedBy(p, w - 1)
      PROVE  Contents(p, w)[v] = C[v]
  <2> DEFINE D == Contents(p, w)
             S == {u \in DefinedBy(p, Len(p.code)) : D[u] = C[u]}
  <2>1. Inputs(p) \subseteq S
    <3>1. \A u \in Inputs(p) : C[u] = <<"input", u>> /\ D[u] = <<"input", u>>
      BY ContentsOf
    <3>2. Inputs(p) \subseteq DefinedBy(p, Len(p.code))
      BY DEF Inputs, DefinedBy
    <3> HIDE DEF C, D
    <3> QED
      BY <3>1, <3>2
  <2>2. ASSUME NEW i \in 1 .. w - 1, \A k \in DOMAIN p.code[i].inputs : p.code[i].inputs[k] \in S,
               NEW k \in DOMAIN p.code[i].outputs
        PROVE  p.code[i].outputs[k] \in S
    <3> DEFINE a == Operands(p, 0, i)
               b == Operands(p, w, i)
    <3>1. i \in DOMAIN p.code /\ i # 0 /\ i # w
      BY <1>1
    <3>2. p.code[i].outputs[k] \in DefinedBy(p, Len(p.code))
      BY <1>1, <3>1 DEF DefinedBy
    <3>3. C[p.code[i].outputs[k]] = Term(p, i, a) /\ D[p.code[i].outputs[k]] = Term(p, i, b)
      BY <3>1, ContentsOf
    <3>4. a = b
      BY <2>2 DEF Operands
    <3> HIDE DEF a, b, C, D
    <3> QED
      BY <3>2, <3>3, <3>4
  <2>3. w - 1 \in 0 .. Len(p.code)
    BY <1>1
  <2> HIDE DEF S
  <2>4. DefinedBy(p, w - 1) \subseteq S
    BY <2>1, <2>2, <2>3, ValuesByPosition
  <2> QED
    BY <2>4 DEF S
<1>4. ASSUME NEW w \in DOMAIN p.code, NEW k \in DOMAIN p.code[w].outputs
      PROVE  Contents(p, w)[p.code[w].outputs[k]] = <<"wrong">>
  BY ContentsOf
<1> QED
  BY <1>2, <1>3, <1>4

-----------------------------------------------------------------------------
(***************************************************************************)
(* Lineages.                                                               *)
(***************************************************************************)
\* The equation that defines Walk, up to its n-th step.
WalkTo(ref, d, v, n, s) ==
  s = [m \in 0 .. n |-> IF m = 0 THEN v ELSE Back(ref, d, s[m - 1])]

\* The equation has a solution, so Walk is one (PlanAlignment::resolve).
LEMMA WalkDefined ==
  ASSUME NEW ref, NEW d, NEW v, Len(d.code) \in Nat
  PROVE  WalkTo(ref, d, v, Len(d.code), Walk(ref, d, v))
<1> DEFINE bad == {n \in Nat : ~\E s : WalkTo(ref, d, v, n, s)}
<1>1. ASSUME bad # {} PROVE FALSE
  <2>1. PICK m \in bad : \A y \in bad : m <= y
    BY <1>1, LeastNat
  <2>2. m \in Nat
    OBVIOUS
  <2>3. CASE m = 0
    <3> DEFINE t == [j \in 0 .. 0 |-> v]
    <3>1. WalkTo(ref, d, v, 0, t)
      BY DEF WalkTo
    <3> QED
      BY <2>3, <3>1
  <2>4. CASE m # 0
    <3>1. m - 1 \in Nat /\ m - 1 \notin bad
      <4>1. m - 1 \in Nat /\ ~(m <= m - 1)
        BY <2>2, <2>4
      <4> QED
        BY <2>1, <4>1
    <3>2. PICK s : WalkTo(ref, d, v, m - 1, s)
      BY <3>1
    <3> DEFINE t == [j \in 0 .. m |-> IF j = m THEN Back(ref, d, s[m - 1]) ELSE s[j]]
    <3>3. ASSUME NEW j \in 0 .. m
          PROVE  t[j] = IF j = 0 THEN v ELSE Back(ref, d, t[j - 1])
      <4>1. CASE j = m
        <5>1. t[j - 1] = s[m - 1] /\ t[j] = Back(ref, d, s[m - 1])
          BY <2>2, <2>4, <4>1
        <5> QED
          BY <2>4, <4>1, <5>1
      <4>2. CASE j # m
        <5>1. j \in 0 .. m - 1 /\ t[j] = s[j] /\ (j # 0 => t[j - 1] = s[j - 1])
          BY <2>2, <4>2
        <5> HIDE DEF t
        <5>2. s[j] = IF j = 0 THEN v ELSE Back(ref, d, s[j - 1])
          BY <3>2, <5>1 DEF WalkTo
        <5> QED
          BY <5>1, <5>2
      <4> QED
        BY <4>1, <4>2
    <3>4. DOMAIN t = 0 .. m /\ t = [j \in DOMAIN t |-> t[j]]
      OBVIOUS
    <3> HIDE DEF t
    <3>5. WalkTo(ref, d, v, m, t)
      BY <3>3, <3>4 DEF WalkTo
    <3> QED
      BY <2>1, <3>5
  <2> QED
    BY <2>3, <2>4
<1>2. \E s : WalkTo(ref, d, v, Len(d.code), s)
  BY <1>1
<1>3. Walk(ref, d, v) = CHOOSE s : WalkTo(ref, d, v, Len(d.code), s)
  BY DEF Walk, WalkTo
<1> QED
  BY <1>2, <1>3

\* One step of a walk after the other.
LEMMA WalkAt ==
  ASSUME NEW ref, NEW d, NEW v, Len(d.code) \in Nat
  PROVE  /\ Walk(ref, d, v)[0] = v
         /\ \A n \in 1 .. Len(d.code) :
              Walk(ref, d, v)[n] = Back(ref, d, Walk(ref, d, v)[n - 1])
<1>1. Walk(ref, d, v) = [m \in 0 .. Len(d.code) |-> IF m = 0 THEN v
                                                    ELSE Back(ref, d, Walk(ref, d, v)[m - 1])]
  BY WalkDefined DEF WalkTo
<1>2. Walk(ref, d, v)[0] = v
  BY <1>1
<1>3. ASSUME NEW n \in 1 .. Len(d.code)
      PROVE  Walk(ref, d, v)[n] = Back(ref, d, Walk(ref, d, v)[n - 1])
  <2>1. n \in 0 .. Len(d.code) /\ n # 0
    OBVIOUS
  <2> QED
    BY <1>1, <2>1
<1> QED
  BY <1>2, <1>3

\* A value that the reference knows is its own lineage.
LEMMA LineageKnown ==
  ASSUME NEW ref, NEW d, Len(d.code) \in Nat, NEW v \in Ids(ref)
  PROVE  Lineage(ref, d, v) = v
<1> DEFINE W == Walk(ref, d, v)
           bad == {n \in Nat : n <= Len(d.code) /\ W[n] # v}
<1>1. ASSUME bad # {} PROVE FALSE
  <2>1. PICK n \in bad : \A y \in bad : n <= y
    BY <1>1, LeastNat
  <2>2. n \in Nat /\ n <= Len(d.code) /\ W[n] # v
    OBVIOUS
  <2>3. n # 0
    BY <2>2, WalkAt
  <2>4. n \in 1 .. Len(d.code) /\ n - 1 \in Nat /\ n - 1 <= Len(d.code) /\ ~(n <= n - 1)
    BY <2>2, <2>3
  <2>5. W[n - 1] = v
    BY <2>1, <2>4
  <2>6. W[n] = Back(ref, d, W[n - 1])
    BY <2>4, WalkAt
  <2> QED
    BY <2>2, <2>5, <2>6 DEF Back
<1> QED
  BY <1>1 DEF Lineage

\* What a transfer delivers has the lineage of what it was given (resolve follows
\* the transfer back).
LEMMA LineageSent ==
  ASSUME NEW ref, NEW d, Len(d.code) \in Nat, DOMAIN d.code = 1 .. Len(d.code),
         TransfersIndexed(ref, d), NEW i \in Comms(d)
  PROVE  Lineage(ref, d, Output(d, i)) = Lineage(ref, d, d.code[i].inputs[1])
<1> DEFINE out == Output(d, i)
           w == d.code[i].inputs[1]
           N == Len(d.code)
           Wo == Walk(ref, d, out)
           Wi == Walk(ref, d, w)
           bad == {n \in Nat : n \in 1 .. N /\ Wo[n] # Wi[n - 1]}
<1>1. N \in Nat /\ N >= 1
  BY DEF Comms
<1>2. out \notin Ids(ref) /\ Sent(d, out) = {i} /\ Lineage(ref, d, out) \in Ids(ref)
  BY DEF TransfersIndexed, Sent
<1>3. Back(ref, d, out) = w
  BY <1>2 DEF Back
<1>4. Wo[0] = out /\ Wi[0] = w
  BY WalkAt
<1>5. \A n \in 1 .. N : Wo[n] = Back(ref, d, Wo[n - 1]) /\ Wi[n] = Back(ref, d, Wi[n - 1])
  BY WalkAt
<1>6. Lineage(ref, d, out) = Wo[N] /\ Lineage(ref, d, w) = Wi[N]
  BY DEF Lineage
<1> HIDE DEF Wo, Wi, out, w
<1>7. ASSUME bad # {} PROVE FALSE
  <2>1. PICK n \in bad : \A y \in bad : n <= y
    BY <1>7, LeastNat
  <2>2. n \in Nat /\ n \in 1 .. N /\ Wo[n] # Wi[n - 1]
    OBVIOUS
  <2>3. CASE n = 1
    BY <1>3, <1>4, <1>5, <2>2, <2>3
  <2>4. CASE n # 1
    <3>1. n - 1 \in Nat /\ n - 1 \in 1 .. N /\ ~(n <= n - 1)
      BY <1>1, <2>2, <2>4
    <3>2. Wo[n - 1] = Wi[(n - 1) - 1]
      BY <2>1, <3>1
    <3> QED
      BY <1>5, <2>2, <3>1, <3>2
  <2> QED
    BY <2>3, <2>4
<1>8. N \in Nat /\ N \in 1 .. N
  BY <1>1
<1>9. Wo[N] = Wi[N - 1]
  BY <1>7, <1>8
<1>10. Wi[N] = Wi[N - 1]
  BY <1>2, <1>5, <1>6, <1>8, <1>9 DEF Back
<1> QED
  BY <1>6, <1>9, <1>10 DEF out, w

-----------------------------------------------------------------------------
(***************************************************************************)
(* What PlanAlignment grants of two plans that the verifier accepts, too.  *)
(***************************************************************************)
\* Every value of the distributed plan stands for one of the reference, with the
\* same contents and the same metadata.
LEMMA LineageMeans ==
  ASSUME NEW ref, NEW d, PlanOK(ref), PlanOK(d), Aligned(ref, d)
  PROVE  \A v \in Ids(d) :
           /\ Lineage(ref, d, v) \in Ids(ref)
           /\ Contents(ref, 0)[Lineage(ref, d, v)] = Contents(d, 0)[v]
           /\ SameMetadata(Desc(ref, Lineage(ref, d, v)), Desc(d, v))
<1> DEFINE L(v) == Lineage(ref, d, v)
           C == Contents(ref, 0)
           D == Contents(d, 0)
           S == {v \in Ids(d) : /\ L(v) \in Ids(ref) /\ C[L(v)] = D[v]
                                /\ SameMetadata(Desc(ref, L(v)), Desc(d, v))}
<1>1. Len(d.code) \in Nat /\ DOMAIN d.code = 1 .. Len(d.code)
  BY PlanShape
<1>2. \A v \in Ids(ref) : L(v) = v /\ SameMetadata(Desc(ref, v), Desc(d, v))
  BY <1>1, LineageKnown DEF Aligned, ValuesAligned
<1>3. Inputs(d) \subseteq S
  <2>1. Inputs(d) = Inputs(ref)
    BY DEF Inputs, Aligned, TargetsAligned
  <2>2. Inputs(d) \subseteq Ids(d) /\ Inputs(ref) \subseteq Ids(ref)
    BY DefinedDescribed DEF Inputs, HasDesc, Ids
  <2>3. \A v \in Inputs(d) : C[v] = <<"input", v>> /\ D[v] = <<"input", v>>
    BY <2>1, ContentsOf
  <2> HIDE DEF C, D, L
  <2> QED
    BY <1>2, <2>1, <2>2, <2>3
<1>4. ASSUME NEW i \in 1 .. Len(d.code), \A k \in DOMAIN d.code[i].inputs : d.code[i].inputs[k] \in S,
             NEW k \in DOMAIN d.code[i].outputs
      PROVE  d.code[i].outputs[k] \in S
  <2> DEFINE out == d.code[i].outputs[k]
  <2>1. i \in DOMAIN d.code /\ i # 0
    BY <1>1
  <2>2. out \in Ids(d)
    BY <2>1, DefinedDescribed DEF HasDesc, Ids
  <2>3. D[out] = Term(d, i, Operands(d, 0, i))
    BY <2>1, ContentsOf
  <2>4. CASE d.code[i].op = "Comm"
    <3> DEFINE w == d.code[i].inputs[1]
    <3>1. i \in Comms(d) /\ TransfersIndexed(ref, d)
      BY <2>1, <2>4 DEF Comms, Aligned
    <3>2. k = 1 /\ out = Output(d, i)
      <4>1. Len(d.code[i].outputs) = 1
        BY <3>1 DEF TransfersIndexed
      <4>2. d.code[i].outputs \in Seq(Nat)
        BY <2>1, PlanShape
      <4> QED
        BY <4>1, <4>2 DEF Output
    <3>3. L(out) = L(w)
      BY <1>1, <3>1, <3>2, LineageSent
    <3>4. w \in S /\ 1 \in DOMAIN d.code[i].inputs
      BY <1>4, <2>1, <2>4, PlanShape
    <3>5. D[out] = D[w]
      BY <2>3, <2>4, <3>4 DEF Term, Operands
    <3>6. SameMetadata(Desc(ref, L(w)), Desc(d, out))
      BY <3>1, <3>2 DEF Aligned, ValuesAligned
    <3> HIDE DEF L, C, D, out, w
    <3>7. out \in S
      BY <2>2, <3>3, <3>4, <3>5, <3>6
    <3> QED
      BY <3>7 DEF out
  <2>5. CASE d.code[i].op # "Comm"
    <3>1. i \in Work(d)
      BY <2>1, <2>5 DEF Work, Comms
    <3>2. InstructionAligned(ref, d, i)
      BY <3>1 DEF Aligned, InstructionsAligned
    <3>3. PICK j \in Work(ref) :
            /\ Output(ref, j) = Output(d, i)
            /\ d.code[i].op = ref.code[j].op /\ d.code[i].kind = ref.code[j].kind
            /\ d.data[i].payload = ref.data[j].payload /\ d.data[i].attrs = ref.data[j].attrs
            /\ Len(d.code[i].inputs) = Len(ref.code[j].inputs)
            /\ \A l \in DOMAIN d.code[i].inputs :
                 Traces(ref, d, d.code[i].inputs[l], ref.code[j].inputs[l])
      BY <3>2 DEF InstructionAligned
    <3>4. j \in DOMAIN ref.code /\ j # 0
      BY <3>3, PlanShape DEF Work
    <3>5. k = 1 /\ 1 \in DOMAIN ref.code[j].outputs /\ out = ref.code[j].outputs[1]
      <4>1. DOMAIN d.code[i].outputs = {1}
        BY <2>1, <2>5, PlanShape
      <4>2. DOMAIN ref.code[j].outputs = {1}
        BY <2>5, <3>3, <3>4, PlanShape
      <4> QED
        BY <3>3, <4>1, <4>2 DEF Output
    <3>6. out \in Ids(ref)
      BY <3>4, <3>5, DefinedDescribed DEF HasDesc, Ids
    <3>7. C[out] = Term(ref, j, Operands(ref, 0, j))
      BY <3>4, <3>5, ContentsOf
    <3>8. Operands(ref, 0, j) = Operands(d, 0, i)
      <4>1. DOMAIN d.code[i].inputs = DOMAIN ref.code[j].inputs
        <5>1. d.code[i].inputs \in Seq(Nat) /\ ref.code[j].inputs \in Seq(Nat)
          BY <2>1, <3>4, PlanShape
        <5> QED
          BY <3>3, <5>1
      <4>2. ASSUME NEW l \in DOMAIN d.code[i].inputs
            PROVE  C[ref.code[j].inputs[l]] = D[d.code[i].inputs[l]]
        <5>1. L(d.code[i].inputs[l]) = ref.code[j].inputs[l]
          BY <3>3 DEF Traces
        <5>2. C[L(d.code[i].inputs[l])] = D[d.code[i].inputs[l]]
          BY <1>4
        <5> QED
          BY <5>1, <5>2
      <4> QED
        BY <4>1, <4>2 DEF Operands
    <3>9. Term(ref, j, Operands(ref, 0, j)) = Term(d, i, Operands(d, 0, i))
      BY <3>3, <3>8 DEF Term
    <3> HIDE DEF L, C, D, out
    <3>10. out \in S
      BY <1>2, <2>2, <2>3, <3>6, <3>7, <3>9
    <3> QED
      BY <3>10 DEF out
  <2> QED
    BY <2>4, <2>5
<1>5. Len(d.code) \in 0 .. Len(d.code)
  BY <1>1
<1> HIDE DEF S
<1>6. DefinedBy(d, Len(d.code)) \subseteq S
  BY <1>3, <1>4, <1>5, ValuesByPosition
<1> QED
  BY <1>6, DefinedDescribed DEF S

-----------------------------------------------------------------------------
(***************************************************************************)
(* What is reported.                                                       *)
(***************************************************************************)
\* How far a run of a tool has got: what it has looked at, and what it may
\* rely on since.
RunOK ==
  /\ tool \in {"plans", "evaluator"} /\ pair \in Pairs
  /\ culprit \in 0 .. Len(Tested.code) /\ flaw \in {"slots", "metadata"}
  /\ stage \in {"start", "run", "input", "compare", "pass", "fail", "refused", "thrown"}
  /\ stage \in {"start", "run", "input"} => line = 1
  /\ tool = "plans" /\ stage \in {"run", "compare", "pass", "fail"} =>
       Aligned(pair.reference, pair.distributed)
  /\ stage \in {"input", "compare", "pass", "fail"} =>
       /\ Verified(pair.reference) /\ WrongMetadata = 0
       /\ tool = "plans" => Verified(pair.distributed)
       /\ tool = "evaluator" => pair.reference.world_size = 1 /\ Len(pair.reference.external) = 1
       /\ line \in Nat /\ line >= 1
  /\ stage = "input" => tool = "evaluator" /\ numbers[pair.reference.external[1]] = "finite"
  /\ stage \in {"pass", "fail"} =>
       line > Len(Tested.code) /\ (stage = "pass" <=> report = {})

\* What the lines so far have said: nothing before the culprit, nor without one,
\* but where there is a NaN, and the culprit itself.
ReportOK ==
  /\ \A k \in report : (culprit # 0 /\ culprit <= k) \/ NaNLine(k)
  /\ stage \in {"start", "run", "input"} => report = {}
  /\ stage \in {"compare", "pass", "fail"} /\ culprit # 0 /\ line > culprit => culprit \in report

\* The table holds what the plan means.
TableMeans ==
  tool = "evaluator" /\ stage = "compare" =>
    \A v \in DOMAIN table : v \in Ids(pair.reference) /\ table[v] = Contents(pair.reference, 0)[v]

ReportInv == RunOK /\ ReportOK /\ TableMeans

\* An instruction is told from its culprit by its output.
LEMMA OutputTells ==
  ASSUME NEW p, PlanOK(p), NEW wrong \in 0 .. Len(p.code),
         NEW i \in DOMAIN p.code, 1 \in DOMAIN p.code[i].outputs
  PROVE  /\ Output(p, i) \in Ids(p)
         /\ wrong = 0 \/ i < wrong => Contents(p, wrong)[Output(p, i)] = Contents(p, 0)[Output(p, i)]
         /\ wrong = i => Contents(p, wrong)[Output(p, i)] # Contents(p, 0)[Output(p, i)]
<1> DEFINE out == Output(p, i)
<1>1. Len(p.code) \in Nat /\ DOMAIN p.code = 1 .. Len(p.code)
  BY PlanShape
<1>2. out \in Ids(p) /\ out \in DefinedBy(p, Len(p.code))
  BY DefinedDescribed DEF HasDesc, Ids, Output
<1>3. ASSUME i < wrong PROVE Contents(p, wrong)[out] = Contents(p, 0)[out]
  <2>1. wrong \in DOMAIN p.code /\ i <= wrong - 1
    BY <1>1, <1>3
  <2>2. out \in DefinedBy(p, wrong - 1)
    BY <2>1 DEF DefinedBy, Output
  <2> QED
    BY <2>1, <2>2, ContentsOfRuns
<1>4. ASSUME wrong = i PROVE Contents(p, wrong)[out] # Contents(p, 0)[out]
  <2>1. Contents(p, wrong)[out] = <<"wrong">>
    BY <1>4, ContentsOfRuns DEF Output
  <2>2. Contents(p, 0)[out] # <<"wrong">>
    BY <1>2, ContentsOfRuns
  <2> QED
    BY <2>1, <2>2
<1> QED
  BY <1>2, <1>3, <1>4

\* Both plans of a pair were read, and an instruction has an output to compare.
LEMMA PairTyped ==
  ASSUME pair \in Pairs
  PROVE  PlanTyped(pair.reference) /\ PlanTyped(pair.distributed) /\ PlanTyped(Tested)
BY PairsOK DEF Tested

\* A run of a verified plan in which an instruction gets the metadata wrong is
\* stopped: the instruction has an output, and validate_value looks at it.
LEMMA ValidatedTells ==
  ASSUME NEW p, PlanOK(p), NEW wrong \in 0 .. Len(p.code), Validated(p, wrong)
  PROVE  wrong = 0
<1> SUFFICES ASSUME wrong # 0 PROVE FALSE
  OBVIOUS
<1>1. wrong \in DOMAIN p.code
  BY PlanShape
<1>2. 1 \in DOMAIN p.code[wrong].outputs
  <2>1. CASE p.code[wrong].op = "Comm"
    <3>1. CommOk(p, wrong) /\ p.code[wrong].kind \in CommKinds
      BY <1>1, <2>1, PlanShape DEF InstructionOk, PlanOK, PlanTyped, IsPlan
    <3>2. Len(p.code[wrong].outputs) = 1 \/ Len(p.code[wrong].outputs) >= 2
      BY <3>1 DEF CommOk, CommKinds
    <3>3. p.code[wrong].outputs \in Seq(Nat)
      BY <1>1, PlanShape
    <3> QED
      BY <3>2, <3>3
  <2>2. CASE p.code[wrong].op # "Comm"
    BY <1>1, <2>2, PlanShape
  <2> QED
    BY <2>1, <2>2
<1> DEFINE out == p.code[wrong].outputs[1]
<1>3. out \in Ids(p)
  BY <1>1, <1>2, DefinedDescribed DEF HasDesc, Ids
<1>4. Metadata(p, wrong, out) = <<"wrong">>
  BY <1>2 DEF Metadata
<1>5. Metadata(p, wrong, out) = Described(p, out)
  BY <1>3 DEF Validated
<1>6. <<"wrong">> # Described(p, out)
  BY DEF Described
<1> QED
  BY <1>4, <1>5, <1>6

\* So what is compared has the metadata described, and the culprit's slots are wrong.
LEMMA SlotsAreWrong ==
  ASSUME RunOK, stage \in {"input", "compare", "pass", "fail"}
  PROVE  WrongSlots = culprit /\ WrongMetadata = 0
BY DEF RunOK, WrongSlots, WrongMetadata

LEMMA MetadataDescribed ==
  ASSUME NEW p, NEW v
  PROVE  Metadata(p, 0, v) = Described(p, v)
BY DEF Metadata

\* dacapo_plan_vec_diff compares each value with the one it stands for, so it sees
\* exactly what the culprit has changed (compare).
LEMMA DifferTells ==
  ASSUME PlanOK(pair.reference), PlanOK(pair.distributed),
         Aligned(pair.reference, pair.distributed), NEW v \in Ids(pair.distributed),
         WrongSlots = culprit, WrongMetadata = 0
  PROVE  Differ(Lineage(pair.reference, pair.distributed, v), v)
           <=> Contents(pair.distributed, culprit)[v] # Contents(pair.distributed, 0)[v]
<1> DEFINE L == Lineage(pair.reference, pair.distributed, v)
<1>1. /\ Contents(pair.reference, 0)[L] = Contents(pair.distributed, 0)[v]
      /\ SameMetadata(Desc(pair.reference, L), Desc(pair.distributed, v))
  BY LineageMeans
<1> HIDE DEF L
<1>2. Metadata(pair.reference, 0, L) = Metadata(pair.distributed, WrongMetadata, v)
  BY <1>1, MetadataDescribed DEF SameMetadata, Described
<1>3. Differ(L, v) <=> Contents(pair.distributed, culprit)[v] # Contents(pair.distributed, 0)[v]
  BY <1>1, <1>2 DEF Differ
<1> QED
  BY <1>3 DEF L

LEMMA ReportStart == Init => ReportInv
<1> SUFFICES ASSUME Init PROVE ReportInv
  OBVIOUS
<1> USE DEF Init
<1>1. RunOK
  BY DEF RunOK
<1>2. ReportOK
  BY DEF ReportOK
<1>3. TableMeans
  BY DEF TableMeans
<1> QED
  BY <1>1, <1>2, <1>3 DEF ReportInv

\* The next stage without another line.
LEMMA StageKeeps ==
  ASSUME ReportInv, Unchanged, line' = line, report' = report,
         numbers' = numbers \/ stage = "start",
         \/ stage' = "refused" \/ stage' = "thrown"
         \/ /\ stage = "start" /\ tool = "plans" /\ stage' = "run"
            /\ Aligned(pair.reference, pair.distributed)
         \/ /\ stage = "run" /\ tool = "plans" /\ stage' = "compare"
            /\ Verified(pair.reference) /\ Verified(pair.distributed) /\ WrongMetadata = 0
         \/ /\ stage = "start" /\ tool = "evaluator" /\ stage' = "input" /\ Verified(pair.reference)
            /\ pair.reference.world_size = 1 /\ Len(pair.reference.external) = 1 /\ WrongMetadata = 0
            /\ numbers'[pair.reference.external[1]] = "finite"
         \/ stage = "input" /\ stage' = "compare"
         \/ /\ stage = "compare" /\ tool = "plans" /\ line > Len(Tested.code)
            /\ stage' = IF report = {} THEN "pass" ELSE "fail"
  PROVE  RunOK' /\ ReportOK'
<1> USE DEF ReportInv, Unchanged
<1>1. Tested' = Tested /\ WrongMetadata' = WrongMetadata
  BY DEF Tested, WrongMetadata
<1>2. Len(Tested.code) \in Nat
  BY PairTyped DEF RunOK, PlanTyped, IsPlan
<1>3. stage \in {"start", "run", "input"} => ~(culprit # 0 /\ line > culprit)
  BY <1>2 DEF RunOK
<1>4. RunOK'
  BY <1>1 DEF RunOK
<1>5. \A k \in report : NaNLine(k)' = NaNLine(k)
  BY DEF NaNLine, ReportOK
<1>6. ReportOK'
  BY <1>3, <1>5 DEF ReportOK, RunOK
<1> QED
  BY <1>4, <1>6

\* One more line, in which something differs only if it comes from the culprit or is
\* not a number, and certainly if the line is the culprit's.
LEMMA LineKeeps ==
  ASSUME ReportInv, Unchanged, numbers' = numbers, stage = "compare", line' = line + 1,
         NEW differs \in BOOLEAN,
         report' = (IF differs THEN report \cup {line} ELSE report),
         culprit = 0 \/ line < culprit => ~differs \/ NaNLine(line),
         culprit = line => differs,
         \/ stage' = "compare"
         \/ stage' = "pass" /\ report' = {} /\ line' > Len(Tested.code)
         \/ stage' = "fail" /\ report' # {} /\ line' > Len(Tested.code)
  PROVE  RunOK' /\ ReportOK'
<1> USE DEF ReportInv, Unchanged
<1>1. Tested' = Tested /\ WrongMetadata' = WrongMetadata
  BY DEF Tested, WrongMetadata
<1>2. /\ Len(Tested.code) \in Nat /\ line \in Nat /\ line >= 1
      /\ culprit \in Nat /\ culprit <= Len(Tested.code)
  <2>1. Len(Tested.code) \in Nat
    BY PairTyped DEF RunOK, PlanTyped, IsPlan
  <2> QED
    BY <2>1 DEF RunOK
<1>3. RunOK'
  <2>1. stage' \in {"compare", "pass", "fail"} /\ line + 1 \in Nat /\ line + 1 >= 1
    BY <1>2
  <2>2. stage' \in {"pass", "fail"} => line' > Len(Tested.code) /\ (stage' = "pass" <=> report' = {})
    OBVIOUS
  <2> QED
    BY <1>1, <2>1, <2>2, Zenon DEF RunOK
<1>4. \A k : NaNLine(k)' = NaNLine(k)
  BY DEF NaNLine
<1>5. \A k \in report' : (culprit # 0 /\ culprit <= k) \/ NaNLine(k)
  BY <1>2 DEF ReportOK
<1>6. culprit # 0 /\ line + 1 > culprit => culprit \in report'
  BY <1>2 DEF ReportOK
<1>7. ReportOK'
  BY <1>4, <1>5, <1>6 DEF ReportOK
<1> QED
  BY <1>3, <1>7

LEMMA DiffLineReports ==
  ASSUME ReportInv, DiffLine
  PROVE  ReportInv'
<1> DEFINE ref == pair.reference
           d == pair.distributed
           n == Len(d.code)
           v == IF line <= n THEN Output(d, line) ELSE d.final[line - n]
           w == IF line <= n THEN Lineage(ref, d, Output(d, line)) ELSE ref.final[line - n]
<1> USE DEF ReportInv
<1>1. /\ tool = "plans" /\ stage = "compare" /\ line <= n + Len(d.final)
      /\ line' = line + 1 /\ Unchanged /\ stage' = stage /\ numbers' = numbers
  BY DEF DiffLine
<1>2. report' = IF Differ(w, v) THEN report \cup {line} ELSE report
  BY DEF DiffLine
<1>3. /\ PlanOK(ref) /\ PlanOK(d) /\ Aligned(ref, d) /\ Tested = d
      /\ WrongSlots = culprit /\ WrongMetadata = 0
  BY <1>1, PairTyped, SlotsAreWrong DEF RunOK, PlanOK, Tested
<1>4. /\ n \in Nat /\ DOMAIN d.code = 1 .. n /\ Len(d.final) \in Nat /\ DOMAIN d.final = 1 .. Len(d.final)
      /\ line \in Nat /\ line >= 1 /\ culprit \in 0 .. n
  BY <1>1, <1>3, PlanShape DEF RunOK
<1>5. CASE line <= n
  <2>1. line \in DOMAIN d.code
    BY <1>4, <1>5
  <2>2. 1 \in DOMAIN d.code[line].outputs
    <3>1. CASE d.code[line].op = "Comm"
      <4>1. Len(d.code[line].outputs) = 1
        BY <1>3, <2>1, <3>1 DEF Aligned, TransfersIndexed, Comms
      <4>2. d.code[line].outputs \in Seq(Nat)
        BY <1>3, <2>1, PlanShape
      <4> QED
        BY <4>1, <4>2
    <3>2. CASE d.code[line].op # "Comm"
      BY <1>3, <2>1, <3>2, PlanShape
    <3> QED
      BY <3>1, <3>2
  <2>3. v = Output(d, line) /\ w = Lineage(ref, d, v) /\ v \in Ids(d)
    BY <1>3, <1>5, <2>1, <2>2, OutputTells
  <2>4. Differ(w, v) <=> Contents(d, culprit)[v] # Contents(d, 0)[v]
    BY <1>3, <2>3, DifferTells
  <2>5. /\ culprit = 0 \/ line < culprit => ~Differ(w, v)
        /\ culprit = line => Differ(w, v)
    BY <1>3, <1>4, <2>1, <2>2, <2>3, <2>4, OutputTells
  <2> DEFINE differs == Differ(w, v)
  <2>6. differs \in BOOLEAN
    BY DEF Differ
  <2> HIDE DEF differs, v, w
  <2> QED
    BY <1>1, <1>2, <2>5, <2>6, LineKeeps DEF TableMeans, Unchanged, differs
<1>6. CASE line > n
  <2> DEFINE k == line - n
  <2>1. k \in DOMAIN d.final /\ v = d.final[k] /\ w = ref.final[k]
    <3>1. \A a, b, c \in Nat : c > a /\ c <= a + b => ~(c <= a) /\ c - a \in 1 .. b
      OBVIOUS
    <3>2. ~(line <= n) /\ k \in 1 .. Len(d.final)
      BY <1>1, <1>4, <1>6, <3>1
    <3> QED
      BY <1>4, <3>2
  <2>2. w = Lineage(ref, d, v)
    BY <1>3, <2>1 DEF Aligned, OutputsAligned, Traces
  <2>3. v \in Ids(d)
    BY <1>3, <2>1 DEF PlanOK, Verified, FinalsOk, HasDesc, Ids
  <2>4. Differ(w, v) <=> Contents(d, culprit)[v] # Contents(d, 0)[v]
    BY <1>3, <2>2, <2>3, DifferTells
  <2>5. /\ culprit = 0 \/ line < culprit => ~Differ(w, v)
        /\ culprit = line => Differ(w, v)
    BY <1>4, <1>6, <2>4
  <2> DEFINE differs == Differ(w, v)
  <2>6. differs \in BOOLEAN
    BY DEF Differ
  <2> HIDE DEF differs, v, w
  <2> QED
    BY <1>1, <1>2, <2>5, <2>6, LineKeeps DEF TableMeans, Unchanged, differs
<1> QED
  BY <1>4, <1>5, <1>6

LEMMA EvaluateLineReports ==
  ASSUME ReportInv, EvaluateLine
  PROVE  ReportInv'
<1> DEFINE p == pair.reference
           ins == p.code[line].inputs
           out == Output(p, line)
           expected == Term(p, line, [k \in DOMAIN ins |-> table[ins[k]]])
           differs == Mismatch(out, expected)
<1> USE DEF ReportInv
<1>1. tool = "evaluator" /\ stage = "compare" /\ line <= Len(p.code) /\ Unchanged /\ numbers' = numbers
  BY DEF EvaluateLine
<1>2. PlanOK(p) /\ Tested = p
  BY <1>1, PairTyped DEF RunOK, PlanOK, Tested
<1>3. line \in DOMAIN p.code /\ culprit \in 0 .. Len(p.code) /\ line \in Nat
  BY <1>1, <1>2, PlanShape DEF RunOK
<1>4. CASE p.code[line].op = "Comm" \/ ~Recorded(out) \/ \E k \in DOMAIN ins : ins[k] \notin DOMAIN table
  <2>1. (stage' = "refused" \/ stage' = "thrown") /\ line' = line /\ report' = report
    BY <1>4 DEF EvaluateLine, Goto
  <2> QED
    BY <1>1, <2>1, StageKeeps DEF TableMeans
<1>5. CASE p.code[line].op # "Comm" /\ Recorded(out) /\ \A k \in DOMAIN ins : ins[k] \in DOMAIN table
  <2>1. /\ report' = IF differs THEN report \cup {line} ELSE report
        /\ line' = line + 1 /\ stage' = "compare"
        /\ \A v \in DOMAIN table' : table'[v] = IF v = out THEN expected ELSE table[v]
        /\ \A v \in DOMAIN table' : v # out => v \in DOMAIN table
    <3> DEFINE kept == {v \in DOMAIN table : ~(\E k \in DOMAIN ins : ins[k] = v) \/ Released(ins)[v] # 0}
               new == IF uses[out] # 0 THEN {out} ELSE {}
    <3>1. /\ report' = IF differs THEN report \cup {line} ELSE report
          /\ line' = line + 1 /\ stage' = stage
          /\ table' = [v \in kept \cup new |-> IF v = out THEN expected ELSE table[v]]
      BY <1>5, Zenon DEF EvaluateLine
    <3>2. kept \subseteq DOMAIN table /\ new \subseteq {out}
      OBVIOUS
    <3> HIDE DEF kept, new, expected, out, differs
    <3> QED
      BY <1>1, <3>1, <3>2
  <2>2. 1 \in DOMAIN p.code[line].outputs
    BY <1>2, <1>3, <1>5, PlanShape
  <2>3. expected = Contents(p, 0)[out]
    <3>1. Contents(p, 0)[out] = Term(p, line, Operands(p, 0, line))
      BY <1>2, <1>3, <2>2, ContentsOf, PlanShape DEF Output
    <3>2. [k \in DOMAIN ins |-> table[ins[k]]] = Operands(p, 0, line)
      BY <1>1, <1>5 DEF TableMeans, Operands
    <3> QED
      BY <3>1, <3>2
  <2>4. /\ out \in Ids(p)
        /\ culprit = 0 \/ line < culprit => ~differs \/ NaNLine(line)
        /\ culprit = line => differs
    <3>1. WrongSlots = culprit /\ WrongMetadata = 0
      BY <1>1, SlotsAreWrong
    <3>2. differs <=> expected # Contents(p, culprit)[out] \/ numbers[out] = "nan"
      <4> HIDE DEF expected, out
      <4>1. Metadata(p, WrongMetadata, out) = Described(p, out)
        BY <3>1, MetadataDescribed
      <4> QED
        BY <3>1, <4>1 DEF Mismatch, SlotsDiffer
    <3>3. numbers[out] = "nan" => NaNLine(line)
      BY <1>1, <1>3 DEF NaNLine
    <3>4. /\ out \in Ids(p)
          /\ culprit = 0 \/ line < culprit => expected = Contents(p, culprit)[out]
          /\ culprit = line => expected # Contents(p, culprit)[out]
      BY <1>2, <1>3, <2>2, <2>3, OutputTells
    <3> HIDE DEF differs, expected, out
    <3> QED
      BY <3>2, <3>3, <3>4
  <2>5. differs \in BOOLEAN
    BY DEF Mismatch, SlotsDiffer
  <2> HIDE DEF differs, expected, out
  <2>6. RunOK' /\ ReportOK'
    BY <1>1, <2>1, <2>4, <2>5, LineKeeps
  <2>7. TableMeans'
    BY <1>1, <2>1, <2>3, <2>4 DEF TableMeans, Unchanged
  <2> QED
    BY <2>6, <2>7
<1> QED
  BY <1>4, <1>5

LEMMA EvaluateFinalReports ==
  ASSUME ReportInv, EvaluateFinal
  PROVE  ReportInv'
<1> USE DEF ReportInv
<1>1. /\ tool = "evaluator" /\ stage = "compare" /\ line = Len(pair.reference.code) + 1
      /\ Unchanged /\ report' = report /\ numbers' = numbers
  BY DEF EvaluateFinal
<1>2. Tested = pair.reference
  BY <1>1 DEF Tested
<1>3. Len(Tested.code) \in Nat /\ culprit \in 0 .. Len(Tested.code)
  BY PairTyped DEF RunOK, PlanTyped, IsPlan
<1>4. \/ stage' \in {"refused", "thrown"} /\ line' = line
      \/ stage' = (IF report = {} THEN "pass" ELSE "fail") /\ line' = line + 1
  BY DEF EvaluateFinal, Goto
<1>5. CASE stage' \in {"refused", "thrown"} /\ line' = line
  BY <1>1, <1>5, StageKeeps DEF TableMeans
<1>6. CASE stage' = (IF report = {} THEN "pass" ELSE "fail") /\ line' = line + 1
  <2>1. line' > Len(Tested.code) /\ culprit # line
    BY <1>1, <1>2, <1>3, <1>6
  <2> QED
    BY <1>1, <1>6, <2>1, LineKeeps DEF TableMeans
<1> QED
  BY <1>4, <1>5, <1>6

LEMMA RunOneReports ==
  ASSUME ReportInv, RunOne
  PROVE  ReportInv'
<1> DEFINE p == pair.reference
<1> USE DEF ReportInv
<1>1. tool = "evaluator" /\ stage = "start" /\ Unchanged /\ line' = line /\ report' = report
  BY DEF RunOne
<1>2. \/ stage' = "refused"
      \/ /\ stage' = "input" /\ Len(p.external) = 1 /\ Verified(p) /\ p.world_size = 1
         /\ Validated(p, WrongMetadata) /\ numbers' \in Numbers(p)
  BY DEF RunOne, Goto, RuntimeTargetOk
<1>3. TableMeans'
  BY <1>1, <1>2 DEF TableMeans
<1>4. CASE stage' = "refused"
  BY <1>1, <1>3, <1>4, StageKeeps
<1>5. CASE /\ stage' = "input" /\ Len(p.external) = 1 /\ Verified(p) /\ p.world_size = 1
           /\ Validated(p, WrongMetadata) /\ numbers' \in Numbers(p)
  <2>1. PlanOK(p) /\ Tested = p
    BY <1>1, <1>5, PairTyped DEF RunOK, PlanOK, Tested
  <2>2. WrongMetadata \in 0 .. Len(p.code)
    BY <2>1, PlanShape DEF RunOK, WrongMetadata
  <2>3. WrongMetadata = 0
    BY <1>5, <2>1, <2>2, ValidatedTells
  <2>4. p.external[1] \in Inputs(p)
    BY <1>5, <2>1, PlanShape DEF Inputs
  <2>5. numbers'[p.external[1]] = "finite"
    BY <1>5, <2>4 DEF Numbers
  <2> QED
    BY <1>1, <1>3, <1>5, <2>3, <2>5, StageKeeps
<1> QED
  BY <1>2, <1>4, <1>5

LEMMA EvaluateInputReports ==
  ASSUME ReportInv, EvaluateInput
  PROVE  ReportInv'
<1> DEFINE p == pair.reference
           x == p.external[1]
<1> USE DEF ReportInv
<1>1. /\ tool = "evaluator" /\ stage = "input" /\ Unchanged /\ line' = line /\ numbers' = numbers
      /\ table' = [v \in {x} |-> <<"input", v>>]
  BY DEF EvaluateInput
<1>2. /\ PlanOK(p) /\ Len(p.external) = 1 /\ numbers[x] = "finite" /\ Tested = p
      /\ WrongSlots = culprit /\ WrongMetadata = 0 /\ culprit \in 0 .. Len(p.code)
  BY <1>1, PairTyped, SlotsAreWrong DEF RunOK, PlanOK, Tested
<1>3. x \in Inputs(p) /\ x \in Ids(p)
  <2>1. 1 \in DOMAIN p.external
    BY <1>2, PlanShape
  <2> QED
    BY <1>2, <2>1, DefinedDescribed DEF Inputs, HasDesc, Ids
<1>4. Contents(p, 0)[x] = <<"input", x>> /\ Contents(p, culprit)[x] = <<"input", x>>
  BY <1>2, <1>3, ContentsOf
<1> HIDE DEF x
<1>5. ~Mismatch(x, <<"input", x>>)
  <2>1. Metadata(p, WrongMetadata, x) = Described(p, x)
    BY <1>2, MetadataDescribed
  <2> QED
    BY <1>2, <1>4, <2>1 DEF Mismatch, SlotsDiffer
<1>6. (stage' = "thrown" \/ stage' = "compare") /\ report' = report
  BY <1>5 DEF EvaluateInput, Goto, x
<1>7. TableMeans'
  BY <1>1, <1>3, <1>4 DEF TableMeans, Unchanged
<1> QED
  BY <1>1, <1>6, <1>7, StageKeeps

\* Every step keeps what has been reported right.
LEMMA ReportKept == ReportInv /\ [Next]_vars => ReportInv'
<1> SUFFICES ASSUME ReportInv, [Next]_vars PROVE ReportInv'
  OBVIOUS
<1>1. CASE UNCHANGED vars
  BY <1>1 DEF vars, ReportInv, RunOK, ReportOK, TableMeans, Tested, WrongMetadata, NaNLine
<1>2. CASE Align
  <2>1. TableMeans'
    BY <1>2 DEF Align, Unchanged, TableMeans
  <2> QED
    BY <1>2, <2>1, StageKeeps DEF Align, Goto, ReportInv
<1>3. CASE RunPlans
  <2>1. TableMeans'
    BY <1>3 DEF RunPlans, Unchanged, TableMeans
  <2>2. Verified(pair.distributed) /\ Validated(pair.distributed, WrongMetadata) => WrongMetadata = 0
    <3> SUFFICES ASSUME Verified(pair.distributed), Validated(pair.distributed, WrongMetadata)
                 PROVE  WrongMetadata = 0
      OBVIOUS
    <3>1. PlanOK(pair.distributed) /\ culprit \in 0 .. Len(pair.distributed.code)
      BY <1>3, PairTyped DEF RunPlans, ReportInv, RunOK, PlanOK, Tested
    <3>2. WrongMetadata \in 0 .. Len(pair.distributed.code)
      BY <3>1, PlanShape DEF WrongMetadata
    <3> QED
      BY <3>1, <3>2, ValidatedTells
  <2> QED
    BY <1>3, <2>1, <2>2, StageKeeps DEF RunPlans, Goto, ReportInv
<1>4. CASE Conclude
  <2>1. TableMeans'
    BY <1>4 DEF Conclude, Unchanged, TableMeans
  <2>2. line > Len(Tested.code)
    <3>1. pair \in Pairs /\ line \in Nat /\ tool = "plans" /\ Tested = pair.distributed
      BY <1>4 DEF Conclude, ReportInv, RunOK, Tested
    <3>2. Len(pair.distributed.code) \in Nat /\ Len(pair.distributed.final) \in Nat
      BY <3>1, PairTyped DEF PlanTyped, IsPlan
    <3>3. \A a, b, c \in Nat : c > a + b => c > a
      OBVIOUS
    <3> QED
      BY <1>4, <3>1, <3>2, <3>3 DEF Conclude
  <2> QED
    BY <1>4, <2>1, <2>2, StageKeeps DEF Conclude, Goto, ReportInv
<1>5. CASE DiffLine \/ RunOne \/ EvaluateInput \/ EvaluateLine \/ EvaluateFinal
  BY <1>5, DiffLineReports, RunOneReports, EvaluateInputReports, EvaluateLineReports, EvaluateFinalReports
<1>6. CASE Ended
  BY <1>1, <1>6 DEF Ended
<1> QED
  BY <1>1, <1>2, <1>3, <1>4, <1>5, <1>6 DEF Next

THEOREM ReportInvariant == Spec => []ReportInv
  BY ReportStart, ReportKept, PTL DEF Spec

\* Whatever plans dacapo_plan_vec_diff and diff_against_reference are given: if no
\* instruction of the tested run goes wrong, the first reports no line, so
\* PlanAlignment lets through only plans that compute the same, and the second none
\* but those where it expects a NaN itself.
THEOREM DifferencesAreReal == Spec => []NoFalseAlarm
<1>1. ReportInv => NoFalseAlarm
  BY DEF ReportInv, ReportOK, NoFalseAlarm
<1> QED
  BY <1>1, ReportInvariant, PTL

\* Whatever plans they are given: a comparison that comes to its end fails if an
\* instruction went wrong, and the first line it reports is that instruction or
\* one where the evaluator expects a NaN.
THEOREM CulpritComesFirst == Spec => []CulpritFound
<1>1. ReportInv => CulpritFound
  <2> SUFFICES ASSUME ReportInv, stage \in {"pass", "fail"}, culprit # 0
               PROVE  stage = "fail" /\ culprit \in report /\ \A k \in report : culprit <= k \/ NaNLine(k)
    BY DEF CulpritFound
  <2>1. line > culprit
    <3>1. line \in Nat /\ line > Len(Tested.code) /\ culprit \in 0 .. Len(Tested.code) /\ pair \in Pairs
      BY DEF ReportInv, RunOK
    <3>2. Len(Tested.code) \in Nat
      BY <3>1, PairTyped DEF PlanTyped, IsPlan
    <3> QED
      BY <3>1, <3>2
  <2>2. culprit \in report
    BY <2>1 DEF ReportInv, ReportOK
  <2> QED
    BY <2>2 DEF ReportInv, RunOK, ReportOK
<1> QED
  BY <1>1, ReportInvariant, PTL

-----------------------------------------------------------------------------
(***************************************************************************)
(* index_artifacts.                                                        *)
(***************************************************************************)
\* The artifacts of a run of a verified plan are all its values, each on the rank
\* that its descriptor says.
LEMMA ArtifactsIndexed ==
  ASSUME NEW p, PlanOK(p)
  PROVE  /\ IndexOk(p)
         /\ UNION {Artifacts(p)[r] : r \in DOMAIN Artifacts(p)} = Ids(p)
<1> DEFINE owned == Artifacts(p)
           all == UNION {owned[r] : r \in DOMAIN owned}
<1>1. \A r \in DOMAIN owned : owned[r] =
        LocalExternals(p, r) \cup UNION {{p.code[i].outputs[k] : k \in LocalOuts(p, i, r)} : i \in DOMAIN p.code}
  BY DEF Artifacts
<1>2. DOMAIN owned = 0 .. p.world_size - 1
  BY DEF Artifacts
<1> HIDE DEF owned
<1>3. ASSUME NEW r \in DOMAIN owned, NEW v \in owned[r]
      PROVE  HasDesc(p, v) /\ Desc(p, v).place.rank = r
  <2>1. CASE v \in LocalExternals(p, r)
    BY <2>1, DefinedDescribed DEF LocalExternals
  <2>2. CASE \E i \in DOMAIN p.code : \E k \in LocalOuts(p, i, r) : v = p.code[i].outputs[k]
    <3> PICK i \in DOMAIN p.code : \E k \in LocalOuts(p, i, r) : v = p.code[i].outputs[k]
      BY <2>2
    <3>1. PICK k \in LocalOuts(p, i, r) : v = p.code[i].outputs[k]
      OBVIOUS
    <3>2. k \in DOMAIN p.code[i].outputs /\ OutPlace(p, i, k).rank = r
      BY DEF LocalOuts
    <3> QED
      BY <3>1, <3>2, DefinedDescribed
  <2> QED
    BY <1>1, <2>1, <2>2
<1>4. \A q, r \in DOMAIN owned : q # r => owned[q] \cap owned[r] = {}
  BY <1>3
<1>5. all \subseteq Ids(p)
  BY <1>3 DEF HasDesc, Ids
<1>6. ASSUME NEW v \in Ids(p) PROVE v \in all
  <2> DEFINE r == Desc(p, v).place.rank
  <2>1. r \in DOMAIN owned
    <3>1. \E k \in DOMAIN p.values : p.values[k].id = v
      BY DEF Ids
    <3>2. PICK k \in DOMAIN p.values : Desc(p, v) = p.values[k]
      BY <3>1 DEF Desc
    <3>3. PlaceExists(p, p.values[k].place)
      BY DEF PlanOK, Verified, ValuesOk
    <3> QED
      BY <1>2, <3>2, <3>3 DEF PlaceExists
  <2>2. v \in owned[r]
    <3>1. v \in DefinedBy(p, Len(p.code))
      BY DefinedDescribed
    <3>2. CASE \E k \in DOMAIN p.external : p.external[k] = v
      BY <1>1, <2>1, <3>2 DEF LocalExternals
    <3>3. CASE \E i \in DOMAIN p.code : \E k \in DOMAIN p.code[i].outputs : p.code[i].outputs[k] = v
      <4> PICK i \in DOMAIN p.code : \E k \in DOMAIN p.code[i].outputs : p.code[i].outputs[k] = v
        BY <3>3
      <4>1. PICK k \in DOMAIN p.code[i].outputs : p.code[i].outputs[k] = v
        OBVIOUS
      <4>2. k \in LocalOuts(p, i, r)
        BY <4>1, DefinedDescribed DEF LocalOuts
      <4> QED
        BY <1>1, <2>1, <4>1, <4>2
    <3> QED
      BY <3>1, <3>2, <3>3 DEF DefinedBy
  <2> QED
    BY <2>1, <2>2
<1>7. Cardinality(Ids(p)) = Len(p.values)
  <2> DEFINE n == Len(p.values)
             f == [k \in 1 .. n |-> p.values[k].id]
  <2>1. n \in Nat /\ DOMAIN p.values = 1 .. n
    BY PlanShape
  <2>2. \A j, k \in 1 .. n : p.values[j].id = p.values[k].id => j = k
    BY <2>1 DEF PlanOK, Verified, ValuesOk
  <2>3. \A k \in 1 .. n : f[k] = p.values[k].id /\ f[k] \in Ids(p)
    BY <2>1 DEF Ids
  <2>4. \A v \in Ids(p) : \E k \in 1 .. n : p.values[k].id = v
    BY <2>1 DEF Ids
  <2>5. f \in [1 .. n -> Ids(p)]
    BY <2>3
  <2> HIDE DEF f
  <2>6. f \in Bijection(1 .. n, Ids(p))
    BY <2>2, <2>3, <2>4, <2>5 DEF Bijection, Injection, IsInjective, Surjection
  <2>7. IsFiniteSet(1 .. n) /\ Cardinality(1 .. n) = n
    <3> HIDE DEF n
    <3>1. IsFiniteSet(1 .. n) /\ Cardinality(1 .. n) = IF 1 > n THEN 0 ELSE n - 1 + 1
      BY <2>1, FS_Interval
    <3> QED
      BY <2>1, <3>1
  <2> QED
    BY <2>6, <2>7, FS_Bijection DEF ExistsBijection
<1>8. all = Ids(p)
  BY <1>5, <1>6
<1> QED
  BY <1>3, <1>4, <1>7, <1>8 DEF IndexOk, owned

\* On one rank they are all in its artifact: `at` finds them.
LEMMA ArtifactsOfOne ==
  ASSUME PlanOK(pair.reference), pair.reference.world_size = 1
  PROVE  \A v \in Ids(pair.reference) : Recorded(v)
<1> DEFINE owned == Artifacts(pair.reference)
<1>1. DOMAIN owned = {0}
  BY DEF Artifacts
<1>2. UNION {owned[r] : r \in DOMAIN owned} = Ids(pair.reference)
  BY ArtifactsIndexed
<1>3. \A v : Recorded(v) <=> v \in owned[0]
  BY DEF Recorded
<1> HIDE DEF owned
<1> QED
  BY <1>1, <1>2, <1>3

-----------------------------------------------------------------------------
(***************************************************************************)
(* The table and the use counts of diff_against_reference.                 *)
(***************************************************************************)
ReadsFrom(p, v, n) == {s \in Reads(p, v) : s[1] >= n}
FinalsOf(p, v) == {k \in DOMAIN p.final : p.final[k] = v}
UsedAt(p, i, v) == {k \in DOMAIN p.code[i].inputs : p.code[i].inputs[k] = v}

\* A read is an operand of an instruction.
LEMMA ReadForm ==
  ASSUME NEW p, PlanOK(p), NEW v
  PROVE  /\ \A s \in Reads(p, v) : /\ s = <<s[1], s[2]>> /\ s[1] \in DOMAIN p.code
                                   /\ s[2] \in UsedAt(p, s[1], v)
         /\ \A i \in DOMAIN p.code : \A k \in UsedAt(p, i, v) : <<i, k>> \in Reads(p, v)
<1>1. \A s \in Reads(p, v) : /\ s = <<s[1], s[2]>> /\ s[1] \in DOMAIN p.code
                             /\ s[2] \in UsedAt(p, s[1], v)
  BY DEF Reads, UsedAt
<1>2. ASSUME NEW i \in DOMAIN p.code, NEW k \in UsedAt(p, i, v)
      PROVE  <<i, k>> \in Reads(p, v)
  <2>1. <<i, k>> \in {i} \X DOMAIN p.code[i].inputs /\ p.code[i].inputs[k] = v
    BY DEF UsedAt
  <2> QED
    BY <2>1 DEF Reads
<1> QED
  BY <1>1, <1>2

\* Reads are finitely many.
LEMMA ReadsFinite ==
  ASSUME NEW p, PlanOK(p), NEW v
  PROVE  /\ IsFiniteSet(Reads(p, v)) /\ Cardinality(Reads(p, v)) \in Nat
         /\ \A n : IsFiniteSet(ReadsFrom(p, v, n)) /\ Cardinality(ReadsFrom(p, v, n)) \in Nat
         /\ IsFiniteSet(FinalsOf(p, v)) /\ Cardinality(FinalsOf(p, v)) \in Nat
         /\ \A i \in DOMAIN p.code : IsFiniteSet(UsedAt(p, i, v)) /\ Cardinality(UsedAt(p, i, v)) \in Nat
<1> DEFINE sites == [i \in DOMAIN p.code |-> {i} \X DOMAIN p.code[i].inputs]
           all   == {{i} \X DOMAIN p.code[i].inputs : i \in DOMAIN p.code}
<1>1. \A n \in Nat : IsFiniteSet(1 .. n)
  BY FS_Interval
<1>2. IsFiniteSet(DOMAIN p.code) /\ IsFiniteSet(DOMAIN p.final)
  BY <1>1, PlanShape
<1>3. ASSUME NEW i \in DOMAIN p.code PROVE IsFiniteSet(DOMAIN p.code[i].inputs)
  <2>1. p.code[i].inputs \in Seq(Nat)
    BY PlanShape
  <2>2. Len(p.code[i].inputs) \in Nat /\ DOMAIN p.code[i].inputs = 1 .. Len(p.code[i].inputs)
    BY <2>1
  <2> QED
    BY <1>1, <2>2
<1>4. IsFiniteSet(all)
  <2>1. sites \in Surjection(DOMAIN p.code, all)
    BY DEF Surjection
  <2> QED
    BY <1>2, <2>1, FS_Surjection
<1>5. \A T \in all : IsFiniteSet(T)
  <2> SUFFICES ASSUME NEW i \in DOMAIN p.code PROVE IsFiniteSet({i} \X DOMAIN p.code[i].inputs)
    OBVIOUS
  <2> QED
    BY <1>3, FS_Singleton, FS_Product
<1>6. IsFiniteSet(UNION all)
  BY <1>4, <1>5, FS_UNION
<1>7. IsFiniteSet(Reads(p, v))
  BY <1>6, FS_Subset DEF Reads
<1>8. \A n : IsFiniteSet(ReadsFrom(p, v, n))
  BY <1>7, FS_Subset DEF ReadsFrom
<1>9. IsFiniteSet(FinalsOf(p, v))
  BY <1>2, FS_Subset DEF FinalsOf
<1>10. \A i \in DOMAIN p.code : IsFiniteSet(UsedAt(p, i, v))
  BY <1>3, FS_Subset DEF UsedAt
<1> QED
  BY <1>7, <1>8, <1>9, <1>10, FS_CardinalityType

\* The reads of the first line and those past the last one, and how many an
\* instruction takes away.
LEMMA ReadsCounted ==
  ASSUME NEW p, PlanOK(p), NEW v
  PROVE  /\ ReadsFrom(p, v, 1) = Reads(p, v)
         /\ \A n \in Nat : n > Len(p.code) => ReadsFrom(p, v, n) = {}
         /\ \A i \in DOMAIN p.code :
              Cardinality(ReadsFrom(p, v, i + 1))
                = Cardinality(ReadsFrom(p, v, i)) - Cardinality(UsedAt(p, i, v))
<1>1. Len(p.code) \in Nat /\ DOMAIN p.code = 1 .. Len(p.code)
  BY PlanShape
<1>2. \A s \in Reads(p, v) : s[1] \in 1 .. Len(p.code)
  BY <1>1, ReadForm
<1>3. ReadsFrom(p, v, 1) = Reads(p, v)
  BY <1>1, <1>2 DEF ReadsFrom
<1>4. ASSUME NEW n \in Nat, n > Len(p.code) PROVE ReadsFrom(p, v, n) = {}
  BY <1>1, <1>2, <1>4 DEF ReadsFrom
<1>5. ASSUME NEW i \in DOMAIN p.code
      PROVE  Cardinality(ReadsFrom(p, v, i + 1))
               = Cardinality(ReadsFrom(p, v, i)) - Cardinality(UsedAt(p, i, v))
  <2> DEFINE K == UsedAt(p, i, v)
             now == {<<i, k>> : k \in K}
             f == [k \in K |-> <<i, k>>]
  <2>1. now \subseteq ReadsFrom(p, v, i)
    BY <1>1, ReadForm DEF ReadsFrom
  <2>2. ReadsFrom(p, v, i + 1) = ReadsFrom(p, v, i) \ now
    <3>1. ASSUME NEW s \in Reads(p, v) PROVE s \in now <=> s[1] = i
      BY ReadForm
    <3>2. ASSUME NEW s \in Reads(p, v) PROVE s[1] >= i + 1 <=> s[1] >= i /\ s[1] # i
      BY <1>1, <1>2
    <3> HIDE DEF now
    <3> QED
      BY <3>1, <3>2 DEF ReadsFrom
  <2>3. IsFiniteSet(K) /\ IsFiniteSet(ReadsFrom(p, v, i))
    BY ReadsFinite
  <2>4. f \in Bijection(K, now)
    <3>1. f \in [K -> now]
      OBVIOUS
    <3>2. \A a \in K : f[a] = <<i, a>>
      OBVIOUS
    <3>3. \A t \in now : \E a \in K : t = <<i, a>>
      OBVIOUS
    <3> HIDE DEF f, now
    <3> QED
      BY <3>1, <3>2, <3>3 DEF Bijection, Injection, IsInjective, Surjection
  <2>5. IsFiniteSet(now) /\ Cardinality(now) = Cardinality(K)
    BY <2>3, <2>4, FS_Bijection DEF ExistsBijection
  <2> HIDE DEF now, K
  <2>6. ReadsFrom(p, v, i) \cap now = now
    BY <2>1
  <2> DEFINE ahead == ReadsFrom(p, v, i)
  <2>7. Cardinality(ahead \ now) = Cardinality(ahead) - Cardinality(ahead \cap now)
    <3>1. IsFiniteSet(ahead)
      BY <2>3
    <3> HIDE DEF ahead
    <3> QED
      BY <3>1, FS_Difference
  <2> QED
    BY <2>2, <2>5, <2>6, <2>7 DEF K
<1> QED
  BY <1>3, <1>4, <1>5

\* What is still to be read of a value, from line n on.
Pending(p, v, n) ==
  Cardinality(ReadsFrom(p, v, n)) + IF n <= Len(p.code) + 1 THEN Cardinality(FinalsOf(p, v)) ELSE 0

\* The use counts are what is pending (count_uses), a line takes off what it reads,
\* and an operand is pending at its line.
LEMMA PendingCounted ==
  ASSUME NEW p, PlanOK(p), NEW v
  PROVE  /\ Pending(p, v, 1) = Cardinality(Reads(p, v)) + Cardinality(FinalsOf(p, v))
         /\ \A i \in DOMAIN p.code :
              /\ Pending(p, v, i) \in Nat /\ Cardinality(UsedAt(p, i, v)) \in Nat
              /\ Pending(p, v, i + 1) = Pending(p, v, i) - Cardinality(UsedAt(p, i, v))
              /\ UsedAt(p, i, v) # {} => Pending(p, v, i) # 0 /\ Reads(p, v) # {}
              /\ UsedAt(p, i, v) = {} => Pending(p, v, i + 1) = Pending(p, v, i)
         /\ Pending(p, v, Len(p.code) + 1) = Cardinality(FinalsOf(p, v))
         /\ Pending(p, v, Len(p.code) + 2) = 0
<1> DEFINE N == Len(p.code)
           finals == Cardinality(FinalsOf(p, v))
<1>1. N \in Nat /\ DOMAIN p.code = 1 .. N
  BY PlanShape
<1>2. finals \in Nat
  BY ReadsFinite
<1>3. 1 <= N + 1 /\ N + 1 <= N + 1 /\ ~(N + 2 <= N + 1) /\ N + 1 \in Nat /\ N + 2 \in Nat
      /\ N + 1 > N /\ N + 2 > N
  BY <1>1
<1>4. Pending(p, v, 1) = Cardinality(Reads(p, v)) + finals
  BY <1>3, ReadsCounted DEF Pending
<1>5. ASSUME NEW i \in DOMAIN p.code
      PROVE  /\ Pending(p, v, i) \in Nat /\ Cardinality(UsedAt(p, i, v)) \in Nat
             /\ Pending(p, v, i + 1) = Pending(p, v, i) - Cardinality(UsedAt(p, i, v))
             /\ UsedAt(p, i, v) # {} => Pending(p, v, i) # 0 /\ Reads(p, v) # {}
             /\ UsedAt(p, i, v) = {} => Pending(p, v, i + 1) = Pending(p, v, i)
  <2> DEFINE ahead == Cardinality(ReadsFrom(p, v, i))
             later == Cardinality(ReadsFrom(p, v, i + 1))
             used == Cardinality(UsedAt(p, i, v))
  <2>1. i <= N + 1 /\ i + 1 <= N + 1
    BY <1>1
  <2>2. Pending(p, v, i) = ahead + finals /\ Pending(p, v, i + 1) = later + finals
    BY <2>1 DEF Pending
  <2>3. ahead \in Nat /\ later \in Nat /\ used \in Nat
    BY ReadsFinite
  <2>4. later = ahead - used
    BY ReadsCounted
  <2>5. ASSUME UsedAt(p, i, v) # {} PROVE used # 0 /\ Reads(p, v) # {}
    <3>1. used # 0
      BY <2>5, ReadsFinite, FS_EmptySet
    <3>2. Reads(p, v) # {}
      BY <2>5, ReadForm
    <3> QED
      BY <3>1, <3>2
  <2>6. UsedAt(p, i, v) = {} => used = 0
    BY FS_EmptySet
  <2> HIDE DEF ahead, later, used, finals
  <2>7. UsedAt(p, i, v) # {} => Pending(p, v, i) # 0 /\ Reads(p, v) # {}
    BY <1>2, <2>2, <2>3, <2>4, <2>5
  <2>8. /\ Pending(p, v, i) \in Nat
        /\ Pending(p, v, i + 1) = Pending(p, v, i) - used
        /\ used = 0 => Pending(p, v, i + 1) = Pending(p, v, i)
    BY <1>2, <2>2, <2>3, <2>4
  <2> QED
    BY <2>3, <2>6, <2>7, <2>8 DEF used
<1>6. Pending(p, v, N + 1) = finals
  <2>1. Cardinality(ReadsFrom(p, v, N + 1)) = 0
    BY <1>3, ReadsCounted, FS_EmptySet
  <2> QED
    BY <1>2, <1>3, <2>1 DEF Pending
<1>7. Pending(p, v, N + 2) = 0
  <2>1. Cardinality(ReadsFrom(p, v, N + 2)) = 0
    BY <1>3, ReadsCounted, FS_EmptySet
  <2> QED
    BY <1>3, <2>1 DEF Pending
<1> QED
  BY <1>4, <1>5, <1>6, <1>7

\* An input that nobody reads: it is never released.
Idle(p, v) == v = p.external[1] /\ Reads(p, v) = {} /\ p.final[1] # v

\* Between two lines: the counts are exact, and the table holds, of the values
\* there are, those that are pending and an idle input.
TableAt(p, n) ==
  /\ DOMAIN uses = Ids(p)
  /\ \A v \in Ids(p) : uses[v] = Pending(p, v, n)
  /\ DOMAIN table = {v \in DefinedBy(p, n - 1) : uses[v] # 0 \/ Idle(p, v)}

TableOK ==
  tool = "evaluator" /\ stage \in {"compare", "pass", "fail"} =>
    LET p == pair.reference IN
    /\ Len(p.external) = 1
    /\ stage = "compare" => line <= Len(p.code) + 1
    /\ stage # "compare" => line = Len(p.code) + 2 /\ Len(p.final) = 1
    /\ \A i \in DOMAIN p.code : i < line => p.code[i].op # "Comm"
    /\ TableAt(p, line)

TableInv == stage # "thrown" /\ TableOK

\* Every defined value of a verified plan has a descriptor, so a use count.
LEMMA DefinedKnown ==
  ASSUME NEW p, PlanOK(p), NEW n \in Int
  PROVE  DefinedBy(p, n) \subseteq Ids(p)
<1>1. Len(p.code) \in Nat /\ DOMAIN p.code = 1 .. Len(p.code)
  BY PlanShape
<1>2. DefinedBy(p, n) \subseteq DefinedBy(p, Len(p.code))
  BY <1>1 DEF DefinedBy
<1> QED
  BY <1>2, DefinedDescribed

LEMMA EvaluateInputTable ==
  ASSUME ReportInv, EvaluateInput
  PROVE  TableInv'
<1> DEFINE p == pair.reference
           x == p.external[1]
<1>1. /\ tool = "evaluator" /\ stage = "input" /\ Unchanged /\ line' = line
      /\ line = 1 /\ pair \in Pairs /\ Len(p.external) = 1 /\ Verified(p) /\ p.world_size = 1
      /\ table' = [v \in {x} |-> <<"input", v>>]
      /\ uses' = CountUses(p)
  BY DEF EvaluateInput, ReportInv, RunOK
<1>2. PlanOK(p)
  BY <1>1, PairTyped DEF PlanOK
<1>3. /\ Len(p.code) \in Nat /\ DOMAIN p.code = 1 .. Len(p.code)
      /\ DOMAIN p.external = {1} /\ Len(p.final) \in Nat /\ DOMAIN p.final = 1 .. Len(p.final)
  BY <1>2, <1>1, PlanShape
<1>4. DOMAIN uses' = Ids(p) /\ \A v \in Ids(p) : uses'[v] = Pending(p, v, 1)
  <2>1. DOMAIN uses' = Ids(p)
    BY <1>1 DEF CountUses
  <2>2. ASSUME NEW v \in Ids(p) PROVE uses'[v] = Pending(p, v, 1)
    <3>1. uses'[v] = Cardinality(Reads(p, v)) + Cardinality(FinalsOf(p, v))
      BY <1>1 DEF CountUses, FinalsOf
    <3> QED
      BY <1>2, <3>1, PendingCounted
  <2> QED
    BY <2>1, <2>2
<1>5. DefinedBy(p, 0) = {x} /\ x \in Ids(p)
  <2>1. Inputs(p) = {x}
    BY <1>3 DEF Inputs
  <2> QED
    BY <1>2, <2>1, DefinedStep, DefinedKnown
<1>6. uses'[x] # 0 \/ Idle(p, x)
  <2>1. ASSUME ~Idle(p, x) PROVE Reads(p, x) # {} \/ FinalsOf(p, x) # {}
    <3>1. 1 \in DOMAIN p.final
      BY <1>2, <1>3 DEF PlanOK, Verified, FinalsOk, PlanTyped, IsPlan
    <3> QED
      BY <2>1, <3>1 DEF Idle, FinalsOf
  <2>2. /\ IsFiniteSet(Reads(p, x)) /\ Cardinality(Reads(p, x)) \in Nat
        /\ IsFiniteSet(FinalsOf(p, x)) /\ Cardinality(FinalsOf(p, x)) \in Nat
    BY <1>2, ReadsFinite
  <2>3. uses'[x] = Cardinality(Reads(p, x)) + Cardinality(FinalsOf(p, x))
    BY <1>2, <1>4, <1>5, PendingCounted
  <2>4. /\ Reads(p, x) # {} => Cardinality(Reads(p, x)) # 0
        /\ FinalsOf(p, x) # {} => Cardinality(FinalsOf(p, x)) # 0
    BY <2>2, FS_EmptySet
  <2> HIDE DEF x
  <2> QED
    BY <2>1, <2>2, <2>3, <2>4
<1>7. TableAt(p, 1)'
  <2>1. 1 - 1 = 0 /\ DOMAIN table' = {x}
    BY <1>1
  <2>2. DOMAIN table' = {v \in DefinedBy(p, 1 - 1) : uses'[v] # 0 \/ Idle(p, v)}
    BY <1>5, <1>6, <2>1
  <2> HIDE DEF x
  <2> QED
    BY <1>1, <1>4, <2>2 DEF TableAt, Unchanged
<1>8. pair' = pair /\ stage' = "compare"
  <2>1. Recorded(x)
    BY <1>2, <1>1, <1>5, ArtifactsOfOne
  <2> QED
    BY <1>1, <2>1 DEF EvaluateInput, Unchanged, Goto
<1> QED
  BY <1>1, <1>3, <1>7, <1>8 DEF TableInv, TableOK

LEMMA EvaluateLineTable ==
  ASSUME ReportInv, TableInv, EvaluateLine
  PROVE  TableInv'
<1> DEFINE p == pair.reference
           ins == p.code[line].inputs
           out == Output(p, line)
           left == Released(ins)
           used(v) == Cardinality(UsedAt(p, line, v))
<1>1. /\ tool = "evaluator" /\ stage = "compare" /\ line <= Len(p.code) /\ Unchanged
      /\ pair \in Pairs /\ line \in Nat /\ line >= 1 /\ Verified(p) /\ p.world_size = 1
  BY DEF EvaluateLine, ReportInv, RunOK
<1>2. PlanOK(p) /\ Len(p.code) \in Nat /\ DOMAIN p.code = 1 .. Len(p.code) /\ line \in DOMAIN p.code
  <2>1. PlanOK(p)
    BY <1>1, PairTyped DEF PlanOK
  <2> QED
    BY <1>1, <2>1, PlanShape
<1>3. /\ Len(p.external) = 1
      /\ \A i \in DOMAIN p.code : i < line => p.code[i].op # "Comm"
      /\ TableAt(p, line)
  BY <1>1 DEF TableInv, TableOK
<1>4. CASE p.code[line].op = "Comm"
  <2>1. stage' = "refused"
    BY <1>4 DEF EvaluateLine, Goto
  <2> QED
    BY <2>1 DEF TableInv, TableOK
<1>5. CASE p.code[line].op # "Comm"
  <2>1. \A k \in DOMAIN ins : ins[k] \in DOMAIN table /\ ins[k] \in Ids(p)
    <3> SUFFICES ASSUME NEW k \in DOMAIN ins
                 PROVE  ins[k] \in DOMAIN table /\ ins[k] \in Ids(p)
      OBVIOUS
    <3>1. ins[k] \in DefinedBy(p, line - 1)
      BY <1>2, DefinedStep
    <3>2. ins[k] \in Ids(p)
      BY <1>1, <1>2, <3>1, DefinedKnown
    <3>3. k \in UsedAt(p, line, ins[k])
      BY DEF UsedAt
    <3>4. Pending(p, ins[k], line) # 0
      <4> DEFINE v == ins[k]
      <4>1. UsedAt(p, line, v) # {}
        BY <3>3
      <4> HIDE DEF v
      <4>2. Pending(p, v, line) # 0
        BY <1>2, <4>1, PendingCounted
      <4> QED
        BY <4>2 DEF v
    <3> QED
      BY <1>3, <3>1, <3>2, <3>4 DEF TableAt
  <2>2. /\ stage' = "compare" /\ line' = line + 1 /\ uses' = left
        /\ DOMAIN table' = {v \in DOMAIN table : ~(\E k \in DOMAIN ins : ins[k] = v) \/ left[v] # 0}
                           \cup (IF uses[out] # 0 THEN {out} ELSE {})
    <3>1. Recorded(out)
      <4>1. 1 \in DOMAIN p.code[line].outputs
        BY <1>2, <1>5, PlanShape
      <4>2. out \in Ids(p)
        BY <1>2, <4>1, DefinedDescribed DEF HasDesc, Ids, Output
      <4> QED
        BY <1>1, <1>2, <4>2, ArtifactsOfOne
    <3>2. /\ stage' = stage /\ line' = line + 1 /\ uses' = left
          /\ LET kept == {v \in DOMAIN table : ~(\E k \in DOMAIN ins : ins[k] = v) \/ left[v] # 0}
                 new == IF uses[out] # 0 THEN {out} ELSE {}
             IN table' = [v \in kept \cup new |->
                            IF v = out THEN Term(p, line, [k \in DOMAIN ins |-> table[ins[k]]]) ELSE table[v]]
      BY <1>5, <2>1, <3>1, Zenon DEF EvaluateLine
    <3> HIDE DEF left, out, ins
    <3> QED
      BY <1>1, <3>2
  <2>3. DOMAIN uses = Ids(p) /\ \A v \in Ids(p) : uses[v] = Pending(p, v, line)
    BY <1>3 DEF TableAt
  <2>4. DOMAIN uses' = Ids(p) /\ \A v \in Ids(p) : uses'[v] = uses[v] - used(v)
    BY <2>2, <2>3 DEF Released, UsedAt
  <2>5. \A v \in Ids(p) : uses'[v] = Pending(p, v, line + 1)
    <3> TAKE v \in Ids(p)
    <3>1. Pending(p, v, line + 1) = Pending(p, v, line) - used(v)
      BY <1>2, PendingCounted
    <3> HIDE DEF used
    <3> QED
      BY <2>3, <2>4, <3>1
  <2>6. \A v \in Ids(p) : ~(\E k \in DOMAIN ins : ins[k] = v) => uses'[v] = uses[v]
    <3> SUFFICES ASSUME NEW v \in Ids(p), ~(\E k \in DOMAIN ins : ins[k] = v)
                 PROVE  uses'[v] = uses[v]
      OBVIOUS
    <3>1. UsedAt(p, line, v) = {}
      BY DEF UsedAt
    <3>2. Pending(p, v, line + 1) = Pending(p, v, line)
      BY <1>2, <3>1, PendingCounted
    <3> QED
      BY <2>3, <2>5, <3>2
  <2>7. \A k \in DOMAIN ins : ~Idle(p, ins[k])
    <3> TAKE k \in DOMAIN ins
    <3>1. k \in UsedAt(p, line, ins[k])
      BY DEF UsedAt
    <3>2. Reads(p, ins[k]) # {}
      BY <1>2, <3>1, PendingCounted
    <3> QED
      BY <3>2 DEF Idle
  <2>8. /\ DefinedBy(p, line) = DefinedBy(p, line - 1) \cup {out}
        /\ out \notin DefinedBy(p, line - 1) /\ out \in Ids(p)
        /\ p.external[1] \in DefinedBy(p, line - 1)
    <3>1. DOMAIN p.code[line].outputs = {1}
      BY <1>2, <1>5, PlanShape
    <3>2. DefinedBy(p, line) = DefinedBy(p, line - 1) \cup {out} /\ out \notin DefinedBy(p, line - 1)
      BY <1>2, <3>1, DefinedStep DEF Output
    <3>3. out \in Ids(p)
      BY <1>1, <1>2, <3>2, DefinedKnown
    <3>4. 1 \in DOMAIN p.external
      BY <1>2, <1>3, PlanShape
    <3>5. p.external[1] \in DefinedBy(p, line - 1)
      BY <3>4 DEF DefinedBy
    <3> QED
      BY <3>2, <3>3, <3>5
  <2>9. ~Idle(p, out) /\ ~\E k \in DOMAIN ins : ins[k] = out
    <3>1. \A k \in DOMAIN ins : ins[k] \in DefinedBy(p, line - 1)
      BY <1>2, DefinedStep
    <3> HIDE DEF out
    <3> QED
      BY <2>8, <3>1 DEF Idle
  <2>10. DOMAIN table = {v \in DefinedBy(p, line - 1) : uses[v] # 0 \/ Idle(p, v)}
    BY <1>3 DEF TableAt
  <2>11. DefinedBy(p, line - 1) \subseteq Ids(p)
    BY <1>1, <1>2, DefinedKnown
  <2>12. DOMAIN table' = {v \in DefinedBy(p, line) : uses'[v] # 0 \/ Idle(p, v)}
    <3> DEFINE operand(v) == \E k \in DOMAIN ins : ins[k] = v
    <3>1. \A v : operand(v) => v \in DOMAIN table /\ ~Idle(p, v)
      BY <2>1, <2>7
    <3>2. \A v \in Ids(p) : ~operand(v) => uses'[v] = uses[v]
      BY <2>6
    <3>3. DOMAIN table' = {v \in DOMAIN table : ~operand(v) \/ uses'[v] # 0}
                          \cup (IF uses[out] # 0 THEN {out} ELSE {})
      BY <2>2
    <3>4. ~Idle(p, out) /\ ~operand(out)
      BY <2>9
    <3> HIDE DEF operand, out, ins
    <3>5. ASSUME NEW v \in DefinedBy(p, line - 1)
          PROVE  v \in DOMAIN table' <=> uses'[v] # 0 \/ Idle(p, v)
      <4>1. v # out /\ v \in Ids(p)
        BY <2>8, <2>11
      <4>2. v \in DOMAIN table' <=> v \in DOMAIN table /\ (~operand(v) \/ uses'[v] # 0)
        BY <3>3, <4>1
      <4>3. v \in DOMAIN table <=> uses[v] # 0 \/ Idle(p, v)
        BY <2>10
      <4> QED
        BY <3>1, <3>2, <4>1, <4>2, <4>3
    <3>6. out \in DOMAIN table' <=> uses'[out] # 0 \/ Idle(p, out)
      <4>1. out \notin DOMAIN table
        BY <2>8, <2>10
      <4>2. uses'[out] = uses[out]
        BY <2>8, <3>2, <3>4
      <4> QED
        BY <3>3, <3>4, <4>1, <4>2
    <3>7. DOMAIN table' \subseteq DefinedBy(p, line)
      BY <2>8, <2>10, <3>3
    <3> QED
      BY <2>8, <3>5, <3>6, <3>7
  <2>13. TableAt(p, line)'
    <3>1. (line + 1) - 1 = line /\ p' = p /\ line' = line + 1 /\ line' - 1 = line
      BY <1>1, <2>2 DEF Unchanged
    <3>2. DOMAIN table' = {v \in DefinedBy(p, line' - 1) : uses'[v] # 0 \/ Idle(p, v)}
      BY <2>12, <3>1
    <3>3. \A v \in Ids(p) : uses'[v] = Pending(p, v, line')
      BY <2>5, <3>1
    <3> QED
      BY <2>4, <3>1, <3>2, <3>3 DEF TableAt
  <2>14. \A i \in DOMAIN p.code : i < line + 1 => p.code[i].op # "Comm"
    BY <1>1, <1>2, <1>3, <1>5
  <2>15. pair' = pair /\ line + 1 <= Len(p.code) + 1
    BY <1>1, <1>2 DEF Unchanged
  <2> QED
    BY <1>3, <2>2, <2>13, <2>14, <2>15 DEF TableInv, TableOK
<1> QED
  BY <1>4, <1>5

LEMMA EvaluateFinalTable ==
  ASSUME ReportInv, TableInv, EvaluateFinal
  PROVE  TableInv'
<1> DEFINE p == pair.reference
           f == p.final[1]
           n == Len(p.code)
<1>1. /\ tool = "evaluator" /\ stage = "compare" /\ line = n + 1 /\ Unchanged
      /\ pair \in Pairs /\ Verified(p) /\ p.world_size = 1
  BY DEF EvaluateFinal, ReportInv, RunOK
<1>2. PlanOK(p) /\ n \in Nat /\ DOMAIN p.code = 1 .. n
  <2>1. PlanOK(p)
    BY <1>1, PairTyped DEF PlanOK
  <2> QED
    BY <2>1, PlanShape
<1>3. /\ Len(p.external) = 1
      /\ \A i \in DOMAIN p.code : p.code[i].op # "Comm"
      /\ TableAt(p, line)
  BY <1>1, <1>2 DEF TableInv, TableOK
<1>4. CASE Len(p.final) # 1
  <2>1. stage' = "refused"
    BY <1>4 DEF EvaluateFinal, Goto
  <2> QED
    BY <2>1 DEF TableInv, TableOK
<1>5. CASE Len(p.final) = 1
  <2>1. DOMAIN p.final = {1} /\ f \in Ids(p)
    <3>1. DOMAIN p.final = {1}
      BY <1>2, <1>5, PlanShape
    <3>2. f \in DefinedBy(p, n)
      BY <1>2, <3>1 DEF PlanOK, Verified, FinalsOk
    <3> QED
      BY <1>2, <3>1, <3>2, DefinedDescribed
  <2>2. \A v \in Ids(p) : uses[v] = Cardinality(FinalsOf(p, v))
    <3> TAKE v \in Ids(p)
    <3>1. Pending(p, v, n + 1) = Cardinality(FinalsOf(p, v))
      BY <1>2, PendingCounted
    <3> QED
      BY <1>1, <1>3, <3>1 DEF TableAt
  <2>3. uses[f] = 1
    <3>1. FinalsOf(p, f) = {1}
      BY <2>1 DEF FinalsOf
    <3> QED
      BY <2>1, <2>2, <3>1, FS_Singleton
  <2>4. \A v \in Ids(p) : v # f => uses[v] = 0
    <3> SUFFICES ASSUME NEW v \in Ids(p), v # f PROVE uses[v] = 0
      OBVIOUS
    <3>1. FinalsOf(p, v) = {}
      BY <2>1 DEF FinalsOf
    <3> QED
      BY <2>2, <3>1, FS_EmptySet
  <2>5. /\ stage' \in {"pass", "fail"} /\ line' = line + 1
        /\ uses' = [uses EXCEPT ![f] = @ - 1]
        /\ DOMAIN table' = DOMAIN table \ {f}
    <3>1. Recorded(f)
      BY <1>1, <1>2, <2>1, ArtifactsOfOne
    <3> QED
      BY <1>5, <2>3, <3>1 DEF EvaluateFinal, Goto
  <2>6. DOMAIN uses' = Ids(p) /\ \A v \in Ids(p) : uses'[v] = 0
    <3>1. DOMAIN uses = Ids(p)
      BY <1>3 DEF TableAt
    <3> HIDE DEF f
    <3> QED
      BY <2>1, <2>3, <2>4, <2>5, <3>1
  <2>7. line' = n + 2 /\ p' = p
    BY <1>1, <1>2, <2>5 DEF Unchanged
  <2>8. \A v \in Ids(p) : uses'[v] = Pending(p, v, line')
    <3> TAKE v \in Ids(p)
    <3>1. Pending(p, v, n + 2) = 0
      BY <1>2, PendingCounted
    <3> QED
      BY <2>6, <2>7, <3>1
  <2>9. DOMAIN table' = {v \in DefinedBy(p, line' - 1) : uses'[v] # 0 \/ Idle(p, v)}
    <3>1. line - 1 = n /\ line' - 1 = n + 1
      BY <1>1, <1>2, <2>7
    <3>2. DefinedBy(p, n + 1) = Ids(p) /\ DefinedBy(p, n) = Ids(p)
      <4>1. DefinedBy(p, n + 1) = DefinedBy(p, n)
        BY <1>2 DEF DefinedBy
      <4> QED
        BY <1>2, <4>1, DefinedDescribed
    <3>3. DOMAIN table = {v \in DefinedBy(p, line - 1) : uses[v] # 0 \/ Idle(p, v)}
      BY <1>3 DEF TableAt
    <3>4. DOMAIN table = {v \in Ids(p) : uses[v] # 0 \/ Idle(p, v)}
      BY <3>1, <3>2, <3>3
    <3>5. ~Idle(p, f)
      BY DEF Idle
    <3> HIDE DEF f
    <3>6. DOMAIN table' = {v \in Ids(p) : uses'[v] # 0 \/ Idle(p, v)}
      BY <2>3, <2>4, <2>5, <2>6, <3>4, <3>5
    <3> QED
      BY <3>1, <3>2, <3>6
  <2>10. TableAt(p, line)'
    BY <2>6, <2>7, <2>8, <2>9 DEF TableAt
  <2> QED
    BY <1>3, <1>5, <2>5, <2>7, <2>10 DEF TableInv, TableOK
<1> QED
  BY <1>4, <1>5

\* Every step keeps the table exact.
LEMMA TableKept == ReportInv /\ TableInv /\ [Next]_vars => TableInv'
<1> SUFFICES ASSUME ReportInv, TableInv, [Next]_vars PROVE TableInv'
  OBVIOUS
<1>1. CASE UNCHANGED vars
  BY <1>1 DEF vars, TableInv, TableOK, TableAt
<1>2. CASE Align \/ DiffLine \/ Conclude
  <2>1. tool' = "plans" /\ stage' # "thrown"
    BY <1>2 DEF Align, DiffLine, Conclude, Goto, Unchanged, TableInv
  <2> QED
    BY <2>1 DEF TableInv, TableOK
<1>3. CASE RunPlans
  <2>1. tool' = "plans" /\ tool = "plans" /\ pair \in Pairs
    BY <1>3 DEF RunPlans, Unchanged, ReportInv, RunOK
  <2>2. \A q \in {pair.reference, pair.distributed} : Verified(q) => IndexOk(q)
    BY <2>1, PairTyped, ArtifactsIndexed DEF PlanOK
  <2>3. stage' # "thrown"
    BY <1>3, <2>2 DEF RunPlans, Goto
  <2> QED
    BY <2>1, <2>3 DEF TableInv, TableOK
<1>4. CASE RunOne
  <2>1. stage' \in {"input", "refused"}
    BY <1>4 DEF RunOne, Goto
  <2> QED
    BY <2>1 DEF TableInv, TableOK
<1>5. CASE EvaluateInput \/ EvaluateLine \/ EvaluateFinal
  BY <1>5, EvaluateInputTable, EvaluateLineTable, EvaluateFinalTable
<1>6. CASE Ended
  BY <1>1, <1>6 DEF Ended
<1> QED
  BY <1>1, <1>2, <1>3, <1>4, <1>5, <1>6 DEF Next

\* Whatever plans they are given: no lookup of index_artifacts or of
\* diff_against_reference fails, and its table holds what is still to be read.
THEOREM LookupsSucceed == Spec => []TableExact
<1>1. Init => TableInv
  BY DEF Init, TableInv, TableOK
<1>2. ReportInv /\ TableInv => TableExact
  <2> SUFFICES ASSUME ReportInv, TableInv, tool = "evaluator", stage \in {"compare", "pass", "fail"}
               PROVE  LET p == Tested
                          known == {p.external[1]} \cup {Output(p, i) : i \in {j \in DOMAIN p.code : j < line}}
                      IN
                      /\ \A v \in Ids(p) : uses[v] = ReadsAhead(p, v)
                      /\ \A v \in known : v \in DOMAIN table <=>
                           uses[v] # 0 \/ (v = p.external[1] /\ Reads(p, v) = {} /\ p.final[1] # v)
                      /\ DOMAIN table \subseteq known
    BY DEF TableExact, TableInv
  <2> DEFINE p == pair.reference
             known == {p.external[1]} \cup {Output(p, i) : i \in {j \in DOMAIN p.code : j < line}}
  <2>1. Tested = p /\ PlanOK(p) /\ line \in Nat
    BY PairTyped DEF ReportInv, RunOK, PlanOK, Tested
  <2>2. /\ Len(p.external) = 1 /\ TableAt(p, line)
        /\ \A i \in DOMAIN p.code : i < line => p.code[i].op # "Comm"
    BY DEF TableInv, TableOK
  <2>3. \A v : ReadsAhead(p, v) = Pending(p, v, line)
    BY DEF ReadsAhead, Pending, ReadsFrom, FinalsOf
  <2>4. known = DefinedBy(p, line - 1)
    <3>1. Len(p.code) \in Nat /\ DOMAIN p.code = 1 .. Len(p.code) /\ DOMAIN p.external = {1}
      BY <2>1, <2>2, PlanShape
    <3>2. \A j \in DOMAIN p.code : j < line <=> j <= line - 1
      BY <2>1, <3>1
    <3>3. \A j \in DOMAIN p.code : j < line => DOMAIN p.code[j].outputs = {1}
      BY <2>1, <2>2, PlanShape
    <3>4. \A v : v \in known <=>
            v = p.external[1] \/ \E j \in DOMAIN p.code : j < line /\ v = p.code[j].outputs[1]
      BY DEF Output
    <3>5. \A v : v \in DefinedBy(p, line - 1) <=>
            \/ \E k \in DOMAIN p.external : v = p.external[k]
            \/ \E j \in DOMAIN p.code : j <= line - 1 /\ \E k \in DOMAIN p.code[j].outputs : v = p.code[j].outputs[k]
      BY DEF DefinedBy
    <3>6. ASSUME NEW v
          PROVE  v \in DefinedBy(p, line - 1) <=>
                   v = p.external[1] \/ \E j \in DOMAIN p.code : j < line /\ v = p.code[j].outputs[1]
      <4>1. (\E k \in DOMAIN p.external : v = p.external[k]) <=> v = p.external[1]
        BY <3>1
      <4>2. ASSUME NEW j \in DOMAIN p.code
            PROVE  (j <= line - 1 /\ \E k \in DOMAIN p.code[j].outputs : v = p.code[j].outputs[k])
                     <=> (j < line /\ v = p.code[j].outputs[1])
        BY <3>2, <3>3
      <4> QED
        BY <3>5, <4>1, <4>2
    <3> HIDE DEF known
    <3> QED
      BY <3>4, <3>6
  <2> HIDE DEF known
  <2>5. /\ \A v \in Ids(p) : uses[v] = ReadsAhead(p, v)
        /\ \A v \in known : v \in DOMAIN table <=>
             uses[v] # 0 \/ (v = p.external[1] /\ Reads(p, v) = {} /\ p.final[1] # v)
        /\ DOMAIN table \subseteq known
    BY <2>2, <2>3, <2>4 DEF TableAt, Idle
  <2> QED
    BY <2>1, <2>5 DEF known
<1> QED
  BY <1>1, <1>2, TableKept, ReportInvariant, PTL DEF Spec
=============================================================================
