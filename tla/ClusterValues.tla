--------------------------- MODULE ClusterValues ---------------------------
(***************************************************************************)
(* What the ranks of a cluster compute together, whichever Api joins them. *)
(* The contents of a value are abstracted to the id of the value whose     *)
(* contents it should have, or Garbage.  MockRuntime and MpiRuntime close  *)
(* the Api of SequentialRuntime on top of this module.                     *)
(***************************************************************************)
EXTENDS SequentialRuntime

CONSTANTS
  Faults,   \* the Api calls that may throw in this instance
  Garbage   \* contents of a value that is not what it should be

\* A cluster has at least one rank (MockCluster's constructor, MPI_COMM_WORLD).
ASSUME ClusterConstantsOK ==
  /\ WorldSize # 0 /\ Ranks = 0 .. WorldSize - 1
  /\ Data = ValueIds \cup {Garbage} /\ Garbage \notin ValueIds

\* Code positions that occur in some plan.
Positions == UNION {DOMAIN Plans[n].code : n \in DOMAIN Plans}

\* The communication an output belongs to.
Carrier(p, v) ==
  {i \in Comms(p) : \E k \in DOMAIN p.code[i].outputs : p.code[i].outputs[k] = v}

\* What values should contain after instruction n, given what they should
\* before: the output of a communication whatever its operand should.
Carried(p, n, before) ==
  [v \in ValueIds |-> before[IF n \in Carrier(p, v) THEN p.code[n].inputs[1] ELSE v]]

\* What a value should contain: the result of its computation, copied by every
\* communication on the way.
Sources(p) ==
  LET source[n \in 0 .. Len(p.code)] ==
        IF n = 0 THEN [v \in ValueIds |-> v] ELSE Carried(p, n, source[n - 1])
  IN  source

Origin(p) == Sources(p)[Len(p.code)]

\* The contents of the output of a computation: right if every operand is.
Result(r, out) ==
  IF \A k \in DOMAIN Instr(r).inputs :
       InEntry(r, k).data = Origin(PlanOf(r))[Instr(r).inputs[k]]
  THEN out ELSE Garbage

SourceIsLocal(r, i) == PlanOf(r).code[i].sources[1].rank = r

\* The steps of a rank that involve the runtime and the executor alone.
RuntimeStep(r) ==
  \/ Setup(r) \/ RefusePlan(r)
  \/ BindInputs(r, [v \in ValueIds |-> v])
  \/ RefuseInputs(r)
  \/ Skip(r)
  \/ ExecuteEncode(r, Instr(r).outputs[1])
  \/ ExecuteCompute(r, Result(r, Instr(r).outputs[1]))
  \/ AwaitOperand(r) \/ AwaitOldest(r) \/ Drained(r) \/ PublishArtifact(r)

\* An Api call throws of its own: bundle loading, a missing capability or key,
\* value validation, an injected failure, a wrong number or kind of outputs, a
\* final materialization.
FaultPoint(r) ==
  CASE stage[r] = "setup"     -> "bundle"
    [] stage[r] = "preflight" -> "preflight"
    [] stage[r] = "bind"      -> "validate"
    [] stage[r] = "sync"      -> "synchronize"
    [] InWait(r)              -> "wait"
    [] OTHER                  -> Instr(r).op

-----------------------------------------------------------------------------
(***************************************************************************)
(* What a rank brings to preflight, and what the callers get back.         *)
(***************************************************************************)
Brought(r) == [plan |-> arg[r].plan, skip |-> arg[r].skip]
Requests   == [plan : DOMAIN Plans, skip : BOOLEAN]

\* With digests skipped preflight does not compare plans: that calls which may
\* meet in such a run name the same plan is then the deployment's part of the
\* bargain (RuntimeResources::skip_artifact_digest_checks).
OnePlanIfSkipped ==
  \A r, s \in Ranks : \A a \in Args[r], b \in Args[s] : a.skip /\ b.skip => a.plan = b.plan

\* Consistent requests are one SPMD program.
Consistent(q) == \A r, s \in Ranks : q[r] = q[s]

\* make_artifact under the two modes, for a plan whose values are all right.
OwnFinals(p, r) == {p.final[j] : j \in LocalFinals(p, r)}
OwnValues(p, r) ==
  LocalExternals(p, r)
  \cup UNION {{p.code[i].outputs[k] : k \in LocalOuts(p, i, r)} : i \in DOMAIN p.code}

Promised(q, r) ==
  LET p == Plans[q[r].plan]
  IN  {[v \in S |-> Origin(p)[v]] : S \in {OwnFinals(p, r), OwnValues(p, r)}}

Artifact(r) ==
  LET kept == IF Retain(r) THEN {v \in ValueIds : store[r][v].state = "Ready"}
              ELSE OwnFinals(PlanOf(r), r)
  IN  [v \in kept |-> store[r][v].data]

-----------------------------------------------------------------------------
PastPreflight(r) == stage[r] \in {"bind", "init", "exec", "sync", "done"}

\* What run() was called with deserves success on every rank.
GoodCalls ==
  /\ \A r \in Ranks : arg[r].trace /\ Accepted(r)
  /\ \A r \in Ranks : arg[r].inputs = LocalExternals(PlanOf(r), r)
  /\ \A r, s \in Ranks : Brought(r) = Brought(s)

\* Every ready value holds what the plan says it should, whichever rank
\* computed it and however the messages were interleaved: no message is taken
\* for another, and no operand is read before it arrived (the difftest of
\* plaintext-testing.md, over every schedule).
CorrectValues ==
  \A r \in Ranks : Bound(r) /\ ~arg[r].skip =>
    \A v \in ValueIds : store[r][v].state = "Ready" =>
      store[r][v].data = Origin(PlanOf(r))[v]

\* When no Api call fails, the ranks are given the same legal plan and the right
\* inputs, every rank returns its artifact.
Success == <>[](GoodCalls => \A r \in Ranks : stage[r] = "done")
=============================================================================
