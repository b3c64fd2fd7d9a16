------------------------------- MODULE MCVec -------------------------------
(***************************************************************************)
(* VecExecutor on all programs of two or three operations on two places,   *)
(* at most one of them faulty.  The first place is where the first         *)
(* operation goes; one more thread reads the last value but one and, where *)
(* there are two operations, another the last.                             *)
(***************************************************************************)
EXTENDS VecExecutor

CONSTANTS p1, p2, r1, r2

\* An operation takes one earlier value or two.
InputsOf(n) == {<<v>> : v \in 0 .. n - 1} \cup {<<v, w>> : v \in 0 .. n - 1, w \in 0 .. n - 1}

OpsOf(n) == [inputs : InputsOf(n), place : IF n = 1 THEN {p1} ELSE {p1, p2}, fault : Faults]

OneFault(ops) == Cardinality({n \in DOMAIN ops : ops[n].fault # "none"}) <= 1

Ops2 == {<<a, b>> : a \in OpsOf(1), b \in OpsOf(2)}

\* The third operation needs the second one, and perhaps the first, in either order.
Ops3 ==
  {<<a, b, c>> : a \in {o \in OpsOf(1) : Len(o.inputs) = 1}, b \in OpsOf(2),
                 c \in {o \in OpsOf(3) : o.inputs \in {<<1, 2>>, <<2, 1>>, <<2, 0>>}}}

ReadersOf(ops) == IF Len(ops) = 2 THEN {r1, r2} ELSE {r1}

MCPrograms ==
  {[ops |-> ops, finals |-> <<Len(ops)>>,
    reads |-> [r \in ReadersOf(ops) |-> IF r = r1 THEN Len(ops) - 1 ELSE Len(ops)]] :
     ops \in {s \in Ops2 \cup Ops3 : OneFault(s)}}
=============================================================================
