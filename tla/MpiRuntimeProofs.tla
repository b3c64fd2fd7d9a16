-------------------------- MODULE MpiRuntimeProofs --------------------------
(***************************************************************************)
(* The processes over MpiVecApi, for every number of ranks, every family   *)
(* of plans, every choice of failing calls and any number of runs on one   *)
(* communicator.                                                           *)
(*                                                                         *)
(* Unlike the mock cluster MPI keeps what a process left behind: the       *)
(* collectives are matched by their number alone, a message stays until a  *)
(* receive with its tag is posted, in whichever run that is.  MpiInv says  *)
(* that the n-th collective of all ranks is of the same run, which         *)
(* receives of a rank are posted, and that a message whose send had to be  *)
(* awaited is gone before its tag is used again.  FlowInv says what each    *)
(* message under way, each posted receive and each value received holds,   *)
(* provided that ranks which run without preflight run one plan.           *)
(***************************************************************************)
EXTENDS MpiRefinement, ClusterProofs

\* A rank that may take another step of its own.
Alive(r) == stage[r] \notin {"aborting", "panic"}

\* The members of the variables that are indexed by rank.
TablesOK ==
  /\ gathers = [r \in Ranks |-> gathers[r]]
  /\ gathering = [r \in Ranks |-> gathering[r]]
  /\ inbox = [r \in Ranks |-> inbox[r]]

-----------------------------------------------------------------------------
(***************************************************************************)
(* The collectives.  at[j] is the run the j-th Allgather belongs to and    *)
(* whether it is the first or the second of that run's preflight.          *)
(***************************************************************************)
Stamps == [run : Nat, half : {1, 2}]
Stamp(run, half) == [run |-> run, half |-> half]

\* The j-th Allgather was the last of its run for rank r, and all ranks passed it.
Passed(at, r, j) ==
  \A s \in Ranks :
    /\ Len(gathers[s]) >= j
    /\ gathers[s][j].skip = gathers[r][j].skip
    /\ gathers[r][j].skip \/ (at[j].half = 2 /\ gathers[s][j].plan = gathers[r][j].plan)

\* What a rank has put into the collectives of its own and of earlier runs.
EntriesKnown(at, r) ==
  \A j \in 1 .. Len(gathers[r]) :
    /\ at[j].run \in 1 .. runs[r]
    /\ at[j].run = runs[r] => gathers[r][j] = Brought(r)
    /\ at[j].half = 2 => ~gathers[r][j].skip

\* Which collective follows which.
Succession(at, r) ==
  /\ Len(gathers[r]) > 0 => at[1] = Stamp(1, 1)
  /\ \A j \in 1 .. Len(gathers[r]) - 1 :
       IF at[j].half = 1 /\ ~gathers[r][j].skip
       THEN /\ at[j + 1] = Stamp(at[j].run, 2)
            /\ \A s \in Ranks : Len(gathers[s]) >= j /\ ~gathers[s][j].skip
       ELSE /\ at[j + 1] = Stamp(at[j].run + 1, 1)
            /\ Passed(at, r, j)

\* Where a rank is in the collectives.
Position(at, r) ==
  LET n == Len(gathers[r]) IN
  /\ stage[r] = "idle" => n = 0 /\ runs[r] = 0
  /\ stage[r] \in {"setup", "preflight"} /\ gathering[r] = 0 =>
       \/ n = 0 /\ runs[r] = 1
       \/ n > 0 /\ runs[r] = at[n].run + 1 /\ Passed(at, r, n)
  /\ stage[r] = "preflight" /\ gathering[r] # 0 =>
       n > 0 /\ at[n] = Stamp(runs[r], gathering[r])
  /\ PastPreflight(r) => n > 0 /\ at[n].run = runs[r] /\ Passed(at, r, n)
  /\ gathering[r] # 0 => stage[r] \in {"preflight", "panic"}

InStep(at) ==
  /\ at \in [Nat -> Stamps]
  /\ \A r \in Ranks : EntriesKnown(at, r) /\ Succession(at, r) /\ Position(at, r)

Collected == \E at \in [Nat -> Stamps] : InStep(at)

-----------------------------------------------------------------------------
(***************************************************************************)
(* Messages and requests.                                                  *)
(***************************************************************************)
\* A message of the sender's current run is one of a posted communication.
SentNow(m) ==
  LET p == PlanOf(m.from) IN
  m.run = runs[m.from] /\ Alive(m.from) =>
    /\ m.group \in Posted(m.from)
    /\ \E k \in Remote(m.from, m.group) :
         /\ m.tag = Tag(p.code[m.group].id, k, m.part)
         /\ k \in 1 .. 32
         /\ m.to = p.code[m.group].destinations[k].rank

WireOK ==
  \A m \in wire :
    /\ m.part \in {Header, Slots} /\ m.to # m.from
    /\ \E half \in 0 .. m.tag : m.tag = 2 * half + m.part
    /\ m.run <= runs[m.from]
    /\ SentNow(m)

\* The slots of group i that have arrived or been copied on rank r.
GotOf(r, i) == {e.slot : e \in {x \in inbox[r] : x.group = i}}

\* The receives a rank that is still running has posted: the headers of its
\* unfinished groups, and inside wait the slots whose header came.
ReceiveKnown(recv) ==
  LET r == recv.to IN
  \/ \E i \in OpenGroups(r) : \E k \in Incoming(r, i) \ GotOf(r, i) :
       recv = Receive(r, i, k, Header)
  \/ /\ InWait(r) /\ Missing(r) # {}
     /\ recv = SlotsReceive(r) /\ HeaderReceive(r) \notin posted

PostedOK ==
  \A recv \in posted :
    /\ recv.to \in Ranks
    /\ runs[recv.to] >= 1 /\ \A q \in Ranks : runs[q] >= runs[recv.to]
    /\ Alive(recv.to) => ReceiveKnown(recv)

\* The handles hold slots of posted groups, and those a rank keeps for itself
\* from the start.
HandlesOK ==
  \A r \in Ranks : Alive(r) =>
    /\ \A e \in inbox[r] : e.group \in Posted(r)
    /\ \A i \in Posted(r) : Copied(r, i) \subseteq GotOf(r, i)

\* A send that was awaited has its receive, and the receiver is in that run.
Awaited(m) == m.run < runs[m.from] \/ m.group \in completed[m.from]
Rendezvous == {m \in wire : m.part \notin EagerParts}
AwaitedSent ==
  \A m \in Rendezvous : Awaited(m) =>
    /\ \E recv \in posted : Matches(m, recv)
    /\ runs[m.to] = m.run

\* No two of the messages that wait for their receive have the same tag.
RendezvousUnique ==
  \A m, n \in Rendezvous : m.from = n.from /\ m.to = n.to /\ m.tag = n.tag => m = n

MpiInv ==
  /\ RuntimeInv /\ DataOK /\ MpiTypeOK /\ TablesOK
  /\ Collected
  /\ WireOK /\ PostedOK /\ HandlesOK /\ AwaitedSent /\ RendezvousUnique

-----------------------------------------------------------------------------
(***************************************************************************)
(* A step of a process is a step of its runtime, unless MPI ends it.       *)
(***************************************************************************)
\* A process that MPI ends leaves its members as they are.
LEMMA KillKept ==
  ASSUME RuntimeInv, NEW r \in Ranks, Kill(r)
  PROVE  RuntimeInv'
<1> USE DEF RuntimeInv, IInv
<1>1. /\ UNCHANGED <<arg, runs, pc, store, uses, completed, waiting, error>>
      /\ stage' = [stage EXCEPT ![r] = "panic"]
  BY DEF Kill
<1>2. TypeOK'
  BY <1>1 DEF TypeOK, Stages
<1>3. ArgsOK'
  BY <1>1 DEF ArgsOK, Stages, Counted, Accepted, PlanOf
<1>4. GroupsKnown'
  BY <1>1 DEF GroupsKnown, Posted, OpenGroups, PlanOf
<1>5. ASSUME NEW s \in Ranks PROVE RankOK(s)'
  <2>1. CASE s = r
    <3>1. stage'[r] = "panic" /\ error'[r] \notin StoreErrors
      BY <1>1 DEF TypeOK, StoreInv, RankOK
    <3> QED
      BY <2>1, <3>1, IdleRank
  <2>2. CASE s # r
    <3>1. Same(s)
      BY <1>1, <2>2 DEF Same, TypeOK
    <3> QED
      BY <3>1, FrameRank DEF StoreInv
  <2> QED
    BY <2>1, <2>2
<1> QED
  BY <1>2, <1>3, <1>4, <1>5 DEF StoreInv

\* A verified plan's places are ranks of the communicator.
LEMMA PlacesAreRanks ==
  ASSUME RuntimeInv, NEW r \in Ranks, Counted(r), NEW i \in Comms(PlanOf(r))
  PROVE  /\ PlanOK(PlanOf(r)) /\ i \in Positions
         /\ PlanOf(r).code[i].sources[1].rank \in Ranks
         /\ \A k \in DOMAIN PlanOf(r).code[i].outputs :
              PlanOf(r).code[i].destinations[k].rank \in Ranks
<1>1. PlanOK(PlanOf(r)) /\ PlanOf(r).world_size = WorldSize
  BY RankPlan DEF RuntimeInv, IInv, RuntimeTargetOk
<1>2. i \in Positions
  BY <1>1, CommShape, CallTyped DEF RuntimeInv, IInv
<1> QED
  BY <1>1, <1>2, CommShape, ClusterConstantsOK

\* wait has a value for every output of the group: received or copied.
LEMMA ArrivedTyped ==
  ASSUME RuntimeInv, HandlesOK, MpiTypeOK, NEW r \in Ranks, InWait(r), Missing(r) = {}
  PROVE  Arrived(r) \in [ValueIds -> Data]
<1>1. waiting[r] \in Posted(r) /\ Alive(r)
  BY DEF InWait, Alive, RuntimeInv, IInv, GroupsKnown, OpenGroups
<1>2. Copied(r, waiting[r]) \subseteq GotOf(r, waiting[r])
  BY <1>1 DEF HandlesOK
<1>3. GroupOuts(r) \subseteq GotOf(r, waiting[r])
  BY <1>2 DEF Missing, Incoming, Got, GotOf, GroupOuts
<1>4. ASSUME NEW k \in GroupOuts(r)
      PROVE  \E e \in inbox[r] : e.group = waiting[r] /\ GroupOut(r, e.slot) = GroupOut(r, k)
  <2>1. k \in GotOf(r, waiting[r])
    BY <1>3
  <2> QED
    BY <2>1 DEF GotOf
<1>5. \A e \in inbox[r] : e.data \in Data
  BY DEF MpiTypeOK
<1>6. Garbage \in Data
  BY ClusterConstantsOK
<1>7. ASSUME NEW v \in ValueIds
      PROVE  (IF \E k \in GroupOuts(r) : GroupOut(r, k) = v
              THEN (CHOOSE e \in inbox[r] : e.group = waiting[r] /\ GroupOut(r, e.slot) = v).data
              ELSE Garbage) \in Data
  BY <1>4, <1>5, <1>6
<1> QED
  BY <1>7 DEF Arrived

\* What a process does is a step of its runtime, or leaves the runtimes alone,
\* or MPI ends it (SequentialRuntime<MpiVecApi> is SequentialRuntime).
LEMMA RankIsStep ==
  ASSUME MpiInv, NEW r \in Ranks, RankStep(r)
  PROVE  Step(r) \/ UNCHANGED rtVars \/ Kill(r)
<1>1. ASSUME CallsApi(r), Throw(r, "api") PROVE Step(r)
  BY <1>1 DEF ApiThrows, Step
<1>2. CASE Restart(r)
  BY <1>2 DEF Restart, Step
<1>3. CASE RuntimeStep(r)
  BY <1>3, LocalIsStep DEF MpiInv
<1>4. ASSUME NEW ok, stage[r] = "preflight", LeavePreflight(r, ok)
      PROVE  Step(r)
  <2>1. CallsApi(r)
    BY <1>4 DEF CallsApi
  <2>2. Throw(r, "api") \/ PreflightReturns(r)
    BY <1>4 DEF LeavePreflight
  <2> QED
    BY <1>1, <2>1, <2>2 DEF Step
<1>5. CASE GatherSkips(r)
  BY <1>5 DEF GatherSkips
<1>6. CASE CompareSkips(r)
  <2>1. stage[r] = "preflight"
    BY <1>6 DEF CompareSkips
  <2>2. LeavePreflight(r, FALSE) \/ LeavePreflight(r, TRUE) \/ UNCHANGED rtVars
    BY <1>6 DEF CompareSkips
  <2> QED
    BY <1>4, <2>1, <2>2
<1>7. CASE ComparePlans(r)
  <2>1. PICK ok \in BOOLEAN : stage[r] = "preflight" /\ LeavePreflight(r, ok)
    BY <1>7 DEF ComparePlans
  <2> QED
    BY <1>4, <2>1
<1>8. CASE Communicate(r)
  <2>1. CallsApi(r)
    BY <1>8 DEF Communicate, CallsApi
  <2>2. Throw(r, "api") \/ PostComm(r)
    BY <1>8 DEF Communicate
  <2> QED
    BY <1>1, <2>1, <2>2 DEF Step
<1>9. CASE TakeHeader(r)
  <2>1. CallsApi(r)
    BY <1>9 DEF TakeHeader, CallsApi
  <2>2. Throw(r, "api") \/ UNCHANGED rtVars
    BY <1>9 DEF TakeHeader
  <2> QED
    BY <1>1, <2>1, <2>2
<1>10. CASE TakeSlots(r)
  BY <1>10 DEF TakeSlots
<1>11. CASE WaitReturns(r)
  <2>1. InWait(r) /\ Missing(r) = {} /\ FinishGroup(r, Arrived(r))
    BY <1>11 DEF WaitReturns
  <2>2. Arrived(r) \in [ValueIds -> Data]
    BY <2>1, ArrivedTyped DEF MpiInv
  <2>3. PICK content \in [ValueIds -> Data] : content = Arrived(r)
    BY <2>2
  <2>4. FinishGroup(r, content)
    BY <2>1, <2>3
  <2> QED
    BY <2>4 DEF Step
<1>12. CASE Abort(r)
  BY <1>12 DEF Abort, Step
<1>13. CASE CallThrows(r)
  BY <1>13 DEF CallThrows, Step
<1> QED
  BY <1>2, <1>3, <1>5, <1>6, <1>7, <1>8, <1>9, <1>10, <1>11, <1>12, <1>13 DEF RankStep

\* So the invariants of the runtimes are kept.
LEMMA RuntimesKept ==
  ASSUME MpiInv, [MpiNext]_vars
  PROVE  RuntimeInv' /\ DataOK'
<1> USE DEF MpiInv
<1>1. ASSUME [Next]_rtVars PROVE RuntimeInv' /\ DataOK'
  BY <1>1, RuntimeKept, DataKept
<1>2. ASSUME NEW r \in Ranks, Kill(r) PROVE RuntimeInv' /\ DataOK'
  <2>1. UNCHANGED store
    BY <1>2 DEF Kill
  <2> QED
    BY <1>2, <2>1, KillKept DEF DataOK
<1>3. ASSUME NEW r \in Ranks, RankStep(r) PROVE RuntimeInv' /\ DataOK'
  <2>1. CASE Step(r)
    BY <1>1, <2>1 DEF Next
  <2>2. CASE UNCHANGED rtVars
    BY <1>1, <2>2
  <2> QED
    BY <1>2, <1>3, <2>1, <2>2, RankIsStep
<1>4. ASSUME UNCHANGED vars PROVE UNCHANGED rtVars
  BY <1>4 DEF vars
<1> QED
  BY <1>1, <1>3, <1>4 DEF MpiNext, Terminating

\* A process changes nothing that another one holds.
LEMMA RankFrame ==
  ASSUME MpiInv, NEW r \in Ranks, RankStep(r), NEW s \in Ranks, s # r
  PROVE  Same(s) /\ gathers'[s] = gathers[s] /\ gathering'[s] = gathering[s] /\ inbox'[s] = inbox[s]
<1> USE DEF MpiInv
<1>1. Same(s)
  <2>1. CASE Step(r)
    BY <2>1, OthersSame DEF RuntimeInv
  <2>2. CASE UNCHANGED rtVars
    BY <2>2 DEF rtVars, Same
  <2>3. CASE Kill(r)
    BY <2>3 DEF Kill, Same, RuntimeInv, IInv, TypeOK
  <2> QED
    BY <2>1, <2>2, <2>3, RankIsStep
<1>2. gathers'[s] = gathers[s] /\ gathering'[s] = gathering[s] /\ inbox'[s] = inbox[s]
  BY DEF RankStep, Restart, GatherSkips, CompareSkips, ComparePlans, EnterGather, LeavePreflight,
         Communicate, TakeHeader, TakeSlots, WaitReturns, Abort, Kill, CallThrows, mpiVars, TablesOK
<1> QED
  BY <1>1, <1>2


-----------------------------------------------------------------------------
(***************************************************************************)
(* The collectives stay in step.                                           *)
(***************************************************************************)
\* What a rank brings is added to what it brought before.
LEMMA Entered ==
  ASSUME MpiInv, NEW r \in Ranks, NEW n, EnterGather(r, n)
  PROVE  /\ \A s \in Ranks : Len(gathers[s]) \in Nat
         /\ Len(gathers'[r]) = Len(gathers[r]) + 1
         /\ gathers'[r][Len(gathers[r]) + 1] = Brought(r)
         /\ \A j \in 1 .. Len(gathers[r]) : gathers'[r][j] = gathers[r][j]
         /\ \A s \in Ranks : s # r => gathers'[s] = gathers[s] /\ gathering'[s] = gathering[s]
         /\ gathering'[r] = n
<1>1. \A s \in Ranks : gathers[s] \in Seq(Requests)
  BY DEF MpiInv, MpiTypeOK
<1>2. Brought(r) \in Requests
  BY CallTyped DEF MpiInv, RuntimeInv, IInv
<1>3. gathers'[r] = Append(gathers[r], Brought(r)) /\ gathering'[r] = n
      /\ \A s \in Ranks : s # r => gathers'[s] = gathers[s] /\ gathering'[s] = gathering[s]
  BY DEF EnterGather, MpiInv, TablesOK
<1> QED
  BY <1>1, <1>2, <1>3

\* The collective a rank enters has the stamp of its place in that rank's run,
\* whether or not others are in it already.
LEMMA NextStamp ==
  ASSUME MpiInv, NEW at, InStep(at), NEW r \in Ranks, NEW h \in {1, 2},
         LET n == Len(gathers[r]) IN
           \/ h = 1 /\ n = 0 /\ runs[r] = 1
           \/ h = 1 /\ n > 0 /\ runs[r] = at[n].run + 1 /\ Passed(at, r, n)
           \/ /\ h = 2 /\ n > 0 /\ at[n] = Stamp(runs[r], 1)
              /\ \A s \in Ranks : Len(gathers[s]) >= n /\ ~gathers[s][n].skip
  PROVE  \E b \in [Nat -> Stamps] :
           /\ b[Len(gathers[r]) + 1] = Stamp(runs[r], h)
           /\ \A s \in Ranks : \A j \in 1 .. Len(gathers[s]) : b[j] = at[j]
<1> DEFINE n == Len(gathers[r])
<1>1. at \in [Nat -> Stamps] /\ runs[r] \in Nat
  BY DEF InStep, MpiInv, RuntimeInv, IInv, TypeOK
<1>2. \A s \in Ranks : Len(gathers[s]) \in Nat
  BY DEF MpiInv, MpiTypeOK
<1>3. CASE \E s \in Ranks : Len(gathers[s]) >= n + 1
  <2>1. PICK s \in Ranks : Len(gathers[s]) >= n + 1
    BY <1>3
  <2>2. Succession(at, s)
    BY DEF InStep
  <2>3. at[n + 1] = Stamp(runs[r], h)
    <3>1. CASE n = 0
      <4>1. h = 1 /\ runs[r] = 1
        BY <3>1
      <4>2. Len(gathers[s]) > 0
        BY <1>2, <2>1, <3>1
      <4> QED
        BY <2>2, <3>1, <4>1, <4>2 DEF Succession
    <3>2. CASE n > 0
      <4>1. n \in 1 .. Len(gathers[s]) - 1 /\ n \in Nat
        BY <1>2, <2>1, <3>2
      <4>2. IF at[n].half = 1 /\ ~gathers[s][n].skip
            THEN at[n + 1] = Stamp(at[n].run, 2)
            ELSE at[n + 1] = Stamp(at[n].run + 1, 1)
        BY <2>2, <4>1 DEF Succession
      <4>3. CASE h = 1
        <5>1. runs[r] = at[n].run + 1 /\ Passed(at, r, n)
          BY <3>2, <4>3
        <5>2. gathers[s][n].skip \/ at[n].half = 2
          BY <5>1 DEF Passed
        <5> QED
          BY <4>2, <4>3, <5>1, <5>2
      <4>4. CASE h = 2
        <5>1. at[n] = Stamp(runs[r], 1) /\ ~gathers[s][n].skip
          BY <3>2, <4>4
        <5> QED
          BY <4>2, <4>4, <5>1 DEF Stamp
      <4> QED
        BY <4>3, <4>4
    <3> QED
      BY <1>2, <3>1, <3>2
  <2> QED
    BY <1>1, <2>3
<1>4. CASE \A s \in Ranks : Len(gathers[s]) <= n
  <2> DEFINE b == [at EXCEPT ![n + 1] = Stamp(runs[r], h)]
  <2>1. Stamp(runs[r], h) \in Stamps
    BY <1>1 DEF Stamp, Stamps
  <2>2. b \in [Nat -> Stamps] /\ b[n + 1] = Stamp(runs[r], h)
    BY <1>1, <1>2, <2>1
  <2>3. \A s \in Ranks : \A j \in 1 .. Len(gathers[s]) : b[j] = at[j]
    BY <1>1, <1>2, <1>4
  <2> QED
    BY <2>2, <2>3
<1> QED
  BY <1>2, <1>3, <1>4

\* A collective that all passed stays passed, whatever is entered after it.
LEMMA PassedStays ==
  ASSUME MpiInv, NEW at, NEW b, NEW r \in Ranks, NEW j \in 1 .. Len(gathers[r]), Passed(at, r, j),
         \A s \in Ranks :
           /\ Len(gathers'[s]) \in Nat /\ Len(gathers'[s]) >= Len(gathers[s])
           /\ \A k \in 1 .. Len(gathers[s]) : gathers'[s][k] = gathers[s][k] /\ b[k] = at[k]
  PROVE  Passed(b, r, j)'
<1>1. \A s \in Ranks : Len(gathers[s]) \in Nat
  BY DEF MpiInv, MpiTypeOK
<1>2. ASSUME NEW s \in Ranks
      PROVE  /\ Len(gathers'[s]) >= j
             /\ gathers'[s][j] = gathers[s][j] /\ b[j] = at[j]
  <2>1. Len(gathers[s]) >= j
    BY DEF Passed
  <2>2. j \in 1 .. Len(gathers[s])
    BY <1>1, <2>1
  <2> QED
    BY <1>1, <2>1, <2>2
<1> QED
  BY <1>2 DEF Passed

\* A rank that brings nothing keeps its history.
LEMMA HistoryKept ==
  ASSUME MpiInv, NEW at, NEW b, InStep(at), NEW r \in Ranks, gathers'[r] = gathers[r],
         \/ runs'[r] = runs[r] /\ arg'[r] = arg[r]
         \/ runs'[r] = runs[r] + 1,
         \A s \in Ranks :
           /\ Len(gathers'[s]) \in Nat /\ Len(gathers'[s]) >= Len(gathers[s])
           /\ \A k \in 1 .. Len(gathers[s]) : gathers'[s][k] = gathers[s][k] /\ b[k] = at[k]
  PROVE  EntriesKnown(b, r)' /\ Succession(b, r)'
<1>1. /\ \A s \in Ranks : Len(gathers[s]) \in Nat
      /\ runs[r] \in Nat /\ at \in [Nat -> Stamps]
  <2>1. \A s \in Ranks : Len(gathers[s]) \in Nat
    BY DEF MpiInv, MpiTypeOK
  <2>2. runs[r] \in Nat
    BY DEF MpiInv, RuntimeInv, IInv, TypeOK
  <2> QED
    BY <2>1, <2>2 DEF InStep
<1>2. EntriesKnown(at, r) /\ Succession(at, r)
  BY DEF InStep
<1>3. EntriesKnown(b, r)'
  <2> SUFFICES ASSUME NEW j \in 1 .. Len(gathers[r])
               PROVE  /\ b[j].run \in 1 .. runs'[r]
                      /\ b[j].run = runs'[r] => gathers'[r][j] = Brought(r)'
                      /\ b[j].half = 2 => ~gathers'[r][j].skip
    BY DEF EntriesKnown
  <2>1. /\ b[j] = at[j] /\ gathers'[r][j] = gathers[r][j] /\ at[j].run \in 1 .. runs[r]
        /\ at[j].run = runs[r] => gathers[r][j] = Brought(r)
        /\ at[j].half = 2 => ~gathers[r][j].skip
    BY <1>2 DEF EntriesKnown
  <2>2. CASE runs'[r] = runs[r] /\ arg'[r] = arg[r]
    BY <2>1, <2>2 DEF Brought
  <2>3. CASE runs'[r] = runs[r] + 1
    BY <1>1, <2>1, <2>3
  <2> QED
    BY <2>2, <2>3
<1>4. Succession(b, r)'
  <2>1. ASSUME Len(gathers'[r]) > 0 PROVE b[1] = Stamp(1, 1)
    <3>1. 1 \in 1 .. Len(gathers[r])
      BY <1>1, <2>1
    <3> QED
      BY <1>2, <2>1, <3>1 DEF Succession
  <2>2. ASSUME NEW j \in 1 .. Len(gathers'[r]) - 1
        PROVE  IF b[j].half = 1 /\ ~gathers'[r][j].skip
               THEN /\ b[j + 1] = Stamp(b[j].run, 2)
                    /\ \A s \in Ranks : Len(gathers'[s]) >= j /\ ~gathers'[s][j].skip
               ELSE /\ b[j + 1] = Stamp(b[j].run + 1, 1)
                    /\ Passed(b, r, j)'
    <3>1. /\ j \in 1 .. Len(gathers[r]) - 1 /\ j \in 1 .. Len(gathers[r])
          /\ j + 1 \in 1 .. Len(gathers[r])
      BY <1>1
    <3>2. /\ b[j] = at[j] /\ b[j + 1] = at[j + 1] /\ gathers'[r][j] = gathers[r][j]
      BY <3>1
    <3>3. CASE at[j].half = 1 /\ ~gathers[r][j].skip
      <4>1. /\ at[j + 1] = Stamp(at[j].run, 2)
            /\ \A s \in Ranks : Len(gathers[s]) >= j /\ ~gathers[s][j].skip
        BY <1>2, <3>1, <3>3 DEF Succession
      <4>2. ASSUME NEW s \in Ranks PROVE Len(gathers'[s]) >= j /\ ~gathers'[s][j].skip
        <5>1. j \in 1 .. Len(gathers[s])
          BY <1>1, <4>1
        <5> QED
          BY SMTT(30), <1>1, <4>1, <5>1
      <4> QED
        BY <3>2, <3>3, <4>1, <4>2
    <3>4. CASE ~(at[j].half = 1 /\ ~gathers[r][j].skip)
      <4>1. at[j + 1] = Stamp(at[j].run + 1, 1) /\ Passed(at, r, j)
        BY <1>2, <3>1, <3>4 DEF Succession
      <4>2. Passed(b, r, j)'
        BY <3>1, <4>1, PassedStays
      <4> QED
        BY <3>2, <3>4, <4>1, <4>2
    <3> QED
      BY <3>3, <3>4
  <2> QED
    BY <2>1, <2>2 DEF Succession
<1> QED
  BY <1>3, <1>4


\* A rank that brings nothing, and gets no further than its collectives allow.
LEMMA StageKeepsStep ==
  ASSUME MpiInv, NEW at, InStep(at), NEW r \in Ranks, gathers' = gathers,
         \A s \in Ranks : s # r => Same(s) /\ gathering'[s] = gathering[s],
         \/ /\ runs'[r] = runs[r] /\ arg'[r] = arg[r]
            /\ \/ stage'[r] = stage[r] /\ gathering'[r] = gathering[r]
               \/ stage'[r] = "aborting" /\ gathering'[r] = 0
               \/ stage'[r] = "panic" /\ gathering'[r] = gathering[r]
               \/ stage[r] = "setup" /\ stage'[r] = "preflight" /\ gathering'[r] = gathering[r]
               \/ PastPreflight(r) /\ PastPreflight(r)' /\ gathering'[r] = gathering[r]
               \/ /\ stage[r] = "preflight" /\ gathering[r] # 0
                  /\ stage'[r] = "bind" /\ gathering'[r] = 0
                  /\ Passed(at, r, Len(gathers[r]))
         \/ /\ runs'[r] = runs[r] + 1 /\ stage[r] \in {"idle", "done"}
            /\ stage'[r] \in {"setup", "panic"} /\ gathering'[r] = gathering[r]
  PROVE  InStep(at)'
<1>1. at \in [Nat -> Stamps] /\ \A s \in Ranks : Len(gathers[s]) \in Nat
  BY DEF InStep, MpiInv, MpiTypeOK
<1>2. \A s \in Ranks : (runs'[s] = runs[s] /\ arg'[s] = arg[s]) \/ runs'[s] = runs[s] + 1
  BY DEF Same
<1>3. \A s \in Ranks : EntriesKnown(at, s)' /\ Succession(at, s)'
  BY <1>1, <1>2, HistoryKept
<1>4. \A s \in Ranks : \A n : Passed(at, s, n)' <=> Passed(at, s, n)
  BY DEF Passed
<1>5. ASSUME NEW s \in Ranks PROVE Position(at, s)'
  <2>1. Position(at, s)
    BY DEF InStep
  <2>2. CASE s # r
    BY <1>4, <2>1, <2>2 DEF Position, Same, PastPreflight
  <2>3. CASE s = r
    <3> DEFINE n == Len(gathers[r])
    <3>1. /\ stage[r] = "idle" => n = 0 /\ runs[r] = 0
          /\ stage[r] \in {"setup", "preflight"} /\ gathering[r] = 0 =>
               \/ n = 0 /\ runs[r] = 1
               \/ n > 0 /\ runs[r] = at[n].run + 1 /\ Passed(at, r, n)
          /\ stage[r] = "preflight" /\ gathering[r] # 0 =>
               n > 0 /\ at[n] = Stamp(runs[r], gathering[r])
          /\ PastPreflight(r) => n > 0 /\ at[n].run = runs[r] /\ Passed(at, r, n)
          /\ gathering[r] # 0 => stage[r] \in {"preflight", "panic"}
      BY <2>1, <2>3 DEF Position
    <3>2. CASE stage'[r] = "panic"
      BY <2>3, <3>2 DEF Position, PastPreflight
    <3>3. CASE stage'[r] = "aborting" /\ gathering'[r] = 0
      BY <2>3, <3>3 DEF Position, PastPreflight
    <3>4. CASE /\ runs'[r] = runs[r] + 1 /\ stage[r] \in {"idle", "done"}
               /\ stage'[r] = "setup" /\ gathering'[r] = gathering[r]
      BY <1>4, <2>3, <3>1, <3>4 DEF Position, PastPreflight
    <3>5. CASE runs'[r] = runs[r] /\ stage'[r] = stage[r] /\ gathering'[r] = gathering[r]
      BY <1>4, <2>3, <3>1, <3>5 DEF Position, PastPreflight
    <3>6. CASE /\ runs'[r] = runs[r] /\ stage[r] = "setup" /\ stage'[r] = "preflight"
               /\ gathering'[r] = gathering[r]
      BY <1>4, <2>3, <3>1, <3>6 DEF Position, PastPreflight
    <3>7. CASE /\ runs'[r] = runs[r] /\ PastPreflight(r) /\ PastPreflight(r)'
               /\ gathering'[r] = gathering[r]
      BY <1>4, <2>3, <3>1, <3>7 DEF Position, PastPreflight
    <3>8. CASE /\ runs'[r] = runs[r] /\ stage[r] = "preflight" /\ gathering[r] # 0
               /\ stage'[r] = "bind" /\ gathering'[r] = 0
               /\ Passed(at, r, Len(gathers[r]))
      BY <1>4, <2>3, <3>1, <3>8 DEF Position, PastPreflight, Stamp
    <3> QED
      BY <3>2, <3>3, <3>4, <3>5, <3>6, <3>7, <3>8
  <2> QED
    BY <2>2, <2>3
<1> QED
  BY <1>1, <1>3, <1>5 DEF InStep

\* A rank enters a collective: the others are in it, or will be.
LEMMA EnterKeepsStep ==
  ASSUME MpiInv, NEW at, InStep(at), NEW r \in Ranks, NEW h \in {1, 2},
         UNCHANGED rtVars, EnterGather(r, h), stage[r] = "preflight",
         \/ h = 1 /\ gathering[r] = 0
         \/ /\ h = 2 /\ gathering[r] = 1 /\ ~arg[r].skip
            /\ \A s \in Ranks : /\ Len(gathers[s]) >= Len(gathers[r])
                                /\ ~gathers[s][Len(gathers[r])].skip
  PROVE  Collected'
<1> DEFINE n == Len(gathers[r])
<1>1. /\ \A s \in Ranks : Len(gathers[s]) \in Nat
      /\ Len(gathers'[r]) = n + 1
      /\ gathers'[r][n + 1] = Brought(r)
      /\ \A j \in 1 .. n : gathers'[r][j] = gathers[r][j]
      /\ \A s \in Ranks : s # r => gathers'[s] = gathers[s] /\ gathering'[s] = gathering[s]
      /\ gathering'[r] = h
  BY Entered
<1>2. /\ Position(at, r) /\ EntriesKnown(at, r) /\ Succession(at, r)
      /\ at \in [Nat -> Stamps]
  BY DEF InStep
<1>3. /\ h = 1 => \/ n = 0 /\ runs[r] = 1
                  \/ n > 0 /\ runs[r] = at[n].run + 1 /\ Passed(at, r, n)
      /\ h = 2 => n > 0 /\ at[n] = Stamp(runs[r], 1)
  BY <1>2 DEF Position
<1>4. PICK b \in [Nat -> Stamps] :
        /\ b[n + 1] = Stamp(runs[r], h)
        /\ \A s \in Ranks : \A j \in 1 .. Len(gathers[s]) : b[j] = at[j]
  BY <1>3, NextStamp
<1>5. \A s \in Ranks :
        /\ Len(gathers'[s]) \in Nat /\ Len(gathers'[s]) >= Len(gathers[s])
        /\ \A k \in 1 .. Len(gathers[s]) : gathers'[s][k] = gathers[s][k] /\ b[k] = at[k]
  BY <1>1, <1>4
<1>6. /\ arg' = arg /\ runs' = runs /\ stage' = stage /\ runs[r] \in Nat
      /\ \A s \in Ranks : Brought(s)' = Brought(s)
  BY DEF rtVars, Brought, MpiInv, RuntimeInv, IInv, TypeOK
<1>7. runs[r] >= 1
  <2>1. CASE n > 0 /\ h = 1
    <3>1. at[n].run \in Nat
      BY <1>1, <1>2, <2>1 DEF Stamps
    <3> QED
      BY <1>3, <2>1, <3>1
  <2>2. CASE n = 0 /\ h = 1
    BY <1>3, <2>2
  <2>3. CASE h = 2
    <3>1. n \in 1 .. n /\ at[n] = Stamp(runs[r], 1)
      BY <1>1, <1>3, <2>3
    <3>2. at[n].run \in 1 .. runs[r]
      BY <1>2, <3>1 DEF EntriesKnown
    <3> QED
      BY <1>6, <3>2
  <2> QED
    BY <1>1, <2>1, <2>2, <2>3
<1>8. ASSUME NEW s \in Ranks, s # r PROVE EntriesKnown(b, s)' /\ Succession(b, s)' /\ Position(b, s)'
  <2>1. EntriesKnown(b, s)' /\ Succession(b, s)'
    BY <1>1, <1>5, <1>6, <1>8, HistoryKept
  <2>2. Position(b, s)'
    <3>1. Position(at, s) /\ gathers'[s] = gathers[s] /\ gathering'[s] = gathering[s]
      BY <1>1, <1>8 DEF InStep
    <3>2. ASSUME Len(gathers[s]) > 0
          PROVE  /\ b[Len(gathers[s])] = at[Len(gathers[s])]
                 /\ Passed(at, s, Len(gathers[s])) => Passed(b, s, Len(gathers[s]))'
      <4>1. Len(gathers[s]) \in 1 .. Len(gathers[s])
        BY <1>1, <3>2
      <4>2. b[Len(gathers[s])] = at[Len(gathers[s])]
        BY <1>4, <4>1
      <4>3. PICK j \in 1 .. Len(gathers[s]) : j = Len(gathers[s])
        BY <4>1
      <4>4. ASSUME Passed(at, s, j) PROVE Passed(b, s, j)'
        BY <1>5, <4>4, PassedStays
      <4>5. Len(gathers'[s]) = j /\ Len(gathers[s]) = j
        BY <3>1, <4>3
      <4> QED
        BY <3>1, <4>2, <4>3, <4>4, <4>5 DEF Passed
    <3> QED
      BY <1>6, <3>1, <3>2 DEF Position, PastPreflight
  <2> QED
    BY <2>1, <2>2
<1>9. EntriesKnown(b, r)'
  <2> SUFFICES ASSUME NEW j \in 1 .. n + 1
               PROVE  /\ b[j].run \in 1 .. runs[r]
                      /\ b[j].run = runs[r] => gathers'[r][j] = Brought(r)
                      /\ b[j].half = 2 => ~gathers'[r][j].skip
    BY <1>1, <1>6 DEF EntriesKnown
  <2>1. CASE j = n + 1
    BY <1>1, <1>4, <1>6, <1>7, <2>1 DEF Stamp, Brought
  <2>2. CASE j \in 1 .. n
    BY <1>1, <1>2, <1>4, <2>2 DEF EntriesKnown
  <2> QED
    BY <1>1, <2>1, <2>2
<1>10. Succession(b, r)'
  <2>1. b[1] = Stamp(1, 1)
    <3>1. CASE n = 0
      BY <1>3, <1>4, <3>1
    <3>2. CASE n > 0
      <4>1. 1 \in 1 .. n
        BY <1>1, <3>2
      <4> QED
        BY <1>2, <1>4, <3>2, <4>1 DEF Succession
    <3> QED
      BY <1>1, <3>1, <3>2
  <2>2. ASSUME NEW j \in 1 .. n
        PROVE  IF b[j].half = 1 /\ ~gathers'[r][j].skip
               THEN /\ b[j + 1] = Stamp(b[j].run, 2)
                    /\ \A s \in Ranks : Len(gathers'[s]) >= j /\ ~gathers'[s][j].skip
               ELSE /\ b[j + 1] = Stamp(b[j].run + 1, 1)
                    /\ Passed(b, r, j)'
    <3>1. b[j] = at[j] /\ gathers'[r][j] = gathers[r][j] /\ j \in Nat
      BY <1>1, <1>4
    <3>2. Passed(at, r, j) => Passed(b, r, j)'
      BY <1>5, PassedStays
    <3>3. ASSUME \A s \in Ranks : Len(gathers[s]) >= j /\ ~gathers[s][j].skip
          PROVE  \A s \in Ranks : Len(gathers'[s]) >= j /\ ~gathers'[s][j].skip
      <4> SUFFICES ASSUME NEW s \in Ranks
                   PROVE  Len(gathers'[s]) >= j /\ ~gathers'[s][j].skip
        OBVIOUS
      <4>1. j \in 1 .. Len(gathers[s])
        BY <1>1, <3>1, <3>3
      <4> QED
        BY <1>1, <1>5, <3>1, <3>3, <4>1
    <3>4. CASE j = n
      <4>1. CASE h = 1
        <5>1. runs[r] = at[n].run + 1 /\ Passed(at, r, n)
          BY <1>1, <1>3, <3>4, <4>1
        <5>2. gathers[r][n].skip \/ at[n].half = 2
          BY <5>1 DEF Passed
        <5> QED
          BY <1>4, <3>1, <3>2, <3>4, <4>1, <5>1, <5>2
      <4>2. CASE h = 2
        <5>1. at[n] = Stamp(runs[r], 1)
          BY <1>3, <4>2
        <5>2. \A s \in Ranks : Len(gathers[s]) >= n /\ ~gathers[s][n].skip
          BY <4>2
        <5> QED
          BY <1>4, <3>1, <3>3, <3>4, <4>2, <5>1, <5>2 DEF Stamp
      <4> QED
        BY <4>1, <4>2
    <3>5. CASE j # n
      <4>1. j \in 1 .. n - 1 /\ j + 1 \in 1 .. n
        BY <1>1, <3>5
      <4>2. b[j + 1] = at[j + 1]
        BY <1>4, <4>1
      <4>3. IF at[j].half = 1 /\ ~gathers[r][j].skip
            THEN /\ at[j + 1] = Stamp(at[j].run, 2)
                 /\ \A s \in Ranks : Len(gathers[s]) >= j /\ ~gathers[s][j].skip
            ELSE /\ at[j + 1] = Stamp(at[j].run + 1, 1)
                 /\ Passed(at, r, j)
        BY <1>2, <4>1 DEF Succession
      <4> QED
        BY <3>1, <3>2, <3>3, <4>2, <4>3
    <3> QED
      BY <3>4, <3>5
  <2>3. Len(gathers'[r]) - 1 = n
    BY <1>1
  <2> QED
    BY <2>1, <2>2, <2>3 DEF Succession
<1>11. Position(b, r)'
  BY <1>1, <1>4, <1>6 DEF Position, PastPreflight
<1>12. InStep(b)'
  BY <1>8, <1>9, <1>10, <1>11 DEF InStep
<1> QED
  BY <1>4, <1>12 DEF Collected


\* What a step without the Api does to the stage of its rank.
LEMMA LocalStages ==
  ASSUME RuntimeInv, NEW r \in Ranks, RuntimeStep(r)
  PROVE  \/ stage'[r] = stage[r]
         \/ stage'[r] = "aborting"
         \/ stage[r] = "setup" /\ stage'[r] = "preflight"
         \/ PastPreflight(r) /\ PastPreflight(r)'
<1> USE DEF RuntimeInv, IInv, TypeOK
<1>1. ASSUME NEW w, Throw(r, w) PROVE stage'[r] = "aborting"
  BY <1>1 DEF Throw
<1>2. ASSUME NEW a, NEW b, Execute(r, a, b) PROVE stage'[r] = stage[r] \/ stage'[r] = "aborting"
  BY <1>1, <1>2 DEF Execute
<1>3. CASE Setup(r)
  BY <1>3 DEF Setup
<1>4. CASE RefusePlan(r) \/ RefuseInputs(r)
  BY <1>1, <1>4 DEF RefusePlan, RefuseInputs
<1>5. CASE BindInputs(r, [v \in ValueIds |-> v])
  BY <1>1, <1>5 DEF BindInputs, PastPreflight
<1>6. CASE \/ Skip(r) \/ ExecuteEncode(r, Instr(r).outputs[1])
           \/ ExecuteCompute(r, Result(r, Instr(r).outputs[1]))
  BY <1>2, <1>6 DEF Skip, ExecuteEncode, ExecuteCompute
<1>7. CASE AwaitOperand(r) \/ AwaitOldest(r)
  BY <1>7 DEF AwaitOperand, AwaitOldest
<1>8. CASE Drained(r)
  BY <1>8 DEF Drained, Draining, PastPreflight
<1>9. CASE PublishArtifact(r)
  BY <1>1, <1>9 DEF PublishArtifact, PastPreflight
<1> QED
  BY <1>3, <1>4, <1>5, <1>6, <1>7, <1>8, <1>9 DEF RuntimeStep

\* What is gathered is a skip flag and a plan.
LEMMA EntryTyped ==
  ASSUME MpiInv, NEW s \in Ranks
  PROVE  /\ Len(gathers[s]) \in Nat
         /\ \A j \in 1 .. Len(gathers[s]) : gathers[s][j].skip \in BOOLEAN
<1>1. gathers[s] \in Seq(Requests)
  BY DEF MpiInv, MpiTypeOK
<1>2. ASSUME NEW j \in 1 .. Len(gathers[s]) PROVE gathers[s][j].skip \in BOOLEAN
  <2>1. gathers[s][j] \in Requests
    BY <1>1
  <2> QED
    BY <2>1 DEF Requests
<1> QED
  BY <1>1, <1>2

\* Every step keeps the collectives in step (MpiVecApi::preflight).
LEMMA CollectedKept ==
  ASSUME MpiInv, [MpiNext]_vars
  PROVE  Collected'
<1>1. PICK at \in [Nat -> Stamps] : InStep(at)
  BY DEF MpiInv, Collected
<1>2. CASE UNCHANGED vars
  <2>1. InStep(at)'
    BY <1>1, <1>2 DEF vars, rtVars, mpiVars, InStep, EntriesKnown, Succession, Position, Passed,
                      PastPreflight, Brought
  <2> QED
    BY <2>1 DEF Collected
<1>3. ASSUME NEW r \in Ranks, RankStep(r) PROVE Collected'
  <2>1. \A s \in Ranks : s # r => Same(s) /\ gathering'[s] = gathering[s]
    BY <1>3, RankFrame
  <2>2. Position(at, r) /\ stage \in [Ranks -> Stages] /\ runs \in [Ranks -> 0 .. MaxRuns]
        /\ gathering = [s \in Ranks |-> gathering[s]] /\ RuntimeInv /\ DataOK
    BY <1>1 DEF InStep, MpiInv, RuntimeInv, IInv, TypeOK, TablesOK
  <2>3. gathering[r] # 0 => stage[r] \in {"preflight", "panic"}
    BY <2>2 DEF Position
  <2> DEFINE Goes ==
         \/ /\ runs'[r] = runs[r] /\ arg'[r] = arg[r]
            /\ \/ stage'[r] = stage[r] /\ gathering'[r] = gathering[r]
               \/ stage'[r] = "aborting" /\ gathering'[r] = 0
               \/ stage'[r] = "panic" /\ gathering'[r] = gathering[r]
               \/ stage[r] = "setup" /\ stage'[r] = "preflight" /\ gathering'[r] = gathering[r]
               \/ PastPreflight(r) /\ PastPreflight(r)' /\ gathering'[r] = gathering[r]
               \/ /\ stage[r] = "preflight" /\ gathering[r] # 0
                  /\ stage'[r] = "bind" /\ gathering'[r] = 0
                  /\ Passed(at, r, Len(gathers[r]))
         \/ /\ runs'[r] = runs[r] + 1 /\ stage[r] \in {"idle", "done"}
            /\ stage'[r] \in {"setup", "panic"} /\ gathering'[r] = gathering[r]
  <2>4. ASSUME gathers' = gathers, Goes PROVE Collected'
    <3>1. InStep(at)'
      BY <1>1, <2>1, <2>4, StageKeepsStep
    <3> QED
      BY <1>1, <3>1 DEF Collected
  <2>5. ASSUME NEW w, Throw(r, w)
        PROVE  stage'[r] = "aborting" /\ runs'[r] = runs[r] /\ arg'[r] = arg[r]
    BY <2>2, <2>5 DEF Throw
  <2>6. CASE Restart(r)
    <3>1. /\ stage[r] \in {"idle", "done"} /\ runs'[r] = runs[r] + 1
          /\ stage'[r] \in {"setup", "panic"}
      BY <2>2, <2>6 DEF Restart, Start
    <3>2. UNCHANGED <<gathers, gathering>>
      BY <2>6 DEF Restart
    <3> QED
      BY <2>4, <3>1, <3>2
  <2>7. CASE RuntimeStep(r) /\ UNCHANGED mpiVars
    <3>1. UNCHANGED <<gathers, gathering>>
      BY <2>7 DEF mpiVars
    <3>2. arg'[r] = arg[r] /\ runs'[r] = runs[r] /\ gathering[r] = 0
      BY <2>2, <2>3, <2>7, LocalEffect
    <3> QED
      BY <2>2, <2>4, <2>7, <3>1, <3>2, LocalStages
  <2>8. CASE GatherSkips(r)
    <3>1. UNCHANGED rtVars /\ EnterGather(r, 1) /\ stage[r] = "preflight" /\ gathering[r] = 0
      BY <2>8 DEF GatherSkips
    <3> QED
      BY <1>1, <3>1, EnterKeepsStep
  <2> DEFINE n == Len(gathers[r])
  <2>9. ASSUME stage[r] = "preflight", gathering[r] # 0
        PROVE  /\ n \in 1 .. n /\ at[n] = Stamp(runs[r], gathering[r])
               /\ gathers[r][n] = Brought(r) /\ arg[r].skip \in BOOLEAN
               /\ gathering[r] = 2 => ~arg[r].skip
    <3>1. n > 0 /\ at[n] = Stamp(runs[r], gathering[r])
      BY <2>2, <2>9 DEF Position
    <3>2. n \in Nat
      BY DEF MpiInv, MpiTypeOK
    <3>3. n \in 1 .. n
      BY <3>1, <3>2
    <3>4. gathers[r][n] = Brought(r) /\ (at[n].half = 2 => ~gathers[r][n].skip)
      BY <1>1, <3>1, <3>3 DEF InStep, EntriesKnown, Stamp
    <3>5. arg[r].skip \in BOOLEAN
      BY <2>2, CallTyped DEF RuntimeInv, IInv
    <3> QED
      BY <3>1, <3>3, <3>4, <3>5 DEF Stamp, Brought
  <2>10. CASE CompareSkips(r)
    <3>1. /\ stage[r] = "preflight" /\ gathering[r] = 1 /\ Gathered(r)
          /\ \/ LeavePreflight(r, FALSE)
             \/ /\ LeavePreflight(r, TRUE) /\ arg[r].skip /\ \A b \in Column(r) : b.skip
             \/ /\ \A b \in Column(r) : b.skip = arg[r].skip
                /\ ~(arg[r].skip /\ \A b \in Column(r) : b.skip)
                /\ EnterGather(r, 2) /\ UNCHANGED rtVars
      BY <2>10 DEF CompareSkips
    <3>2. \A s \in Ranks : gathers[s][n] \in Column(r) /\ Len(gathers[s]) >= n
      BY <3>1 DEF Column, Gathered
    <3>3. CASE LeavePreflight(r, FALSE)
      BY <2>2, <2>4, <2>5, <3>3 DEF LeavePreflight
    <3>4. CASE LeavePreflight(r, TRUE) /\ arg[r].skip /\ \A b \in Column(r) : b.skip
      <4>1. gathers[r][n].skip /\ \A s \in Ranks : gathers[s][n].skip
        BY <3>2, <3>4
      <4>2. \A s \in Ranks : gathers[s][n].skip \in BOOLEAN
        <5>1. \A s \in Ranks : n \in 1 .. Len(gathers[s])
          BY <2>9, <3>1, <3>2, EntryTyped
        <5> QED
          BY <5>1, EntryTyped
      <4>3. Passed(at, r, n)
        BY <3>2, <4>1, <4>2 DEF Passed
      <4>4. /\ stage'[r] = "bind" /\ runs' = runs /\ arg' = arg
            /\ gathering'[r] = 0 /\ gathers' = gathers
        BY <2>2, <3>4 DEF LeavePreflight, PreflightReturns
      <4> QED
        BY <2>4, <3>1, <4>3, <4>4
    <3>5. CASE /\ \A b \in Column(r) : b.skip = arg[r].skip
               /\ ~(arg[r].skip /\ \A b \in Column(r) : b.skip)
               /\ EnterGather(r, 2) /\ UNCHANGED rtVars
      <4>1. ~arg[r].skip
        BY <2>9, <3>1, <3>5
      <4>2. \A s \in Ranks : Len(gathers[s]) >= n /\ ~gathers[s][n].skip
        BY <3>2, <3>5, <4>1
      <4> QED
        BY <1>1, <3>1, <3>5, <4>1, <4>2, EnterKeepsStep
    <3> QED
      BY <3>1, <3>3, <3>4, <3>5
  <2>11. CASE ComparePlans(r)
    <3>1. /\ stage[r] = "preflight" /\ gathering[r] = 2 /\ Gathered(r)
          /\ LeavePreflight(r, \A b \in Column(r) : b.plan = arg[r].plan)
      BY <2>11 DEF ComparePlans
    <3>2. \A s \in Ranks : gathers[s][n] \in Column(r) /\ Len(gathers[s]) >= n
      BY <3>1 DEF Column, Gathered
    <3>3. CASE ~ \A b \in Column(r) : b.plan = arg[r].plan
      BY <2>2, <2>4, <2>5, <3>1, <3>3 DEF LeavePreflight
    <3>4. CASE \A b \in Column(r) : b.plan = arg[r].plan
      <4>1. at[n] = Stamp(runs[r], 2) /\ gathers[r][n] = Brought(r) /\ ~arg[r].skip
            /\ n \in 1 .. n
        BY <2>9, <3>1
      <4>2. \A s \in Ranks : gathers[s][n].plan = gathers[r][n].plan
        BY <3>2, <3>4, <4>1 DEF Brought
      <4>3. \A s \in Ranks : ~gathers[s][n].skip
        <5> SUFFICES ASSUME NEW s \in Ranks PROVE ~gathers[s][n].skip
          OBVIOUS
        <5>1. n \in 1 .. Len(gathers[s])
          <6>1. Len(gathers[s]) \in Nat
            BY DEF MpiInv, MpiTypeOK
          <6> QED
            BY <3>2, <4>1, <6>1
        <5>2. EntriesKnown(at, s)
          BY <1>1 DEF InStep
        <5> QED
          BY <4>1, <5>1, <5>2 DEF EntriesKnown, Stamp
      <4>4. \A s \in Ranks : gathers[s][n].skip \in BOOLEAN
        <5>1. \A s \in Ranks : n \in 1 .. Len(gathers[s])
          BY <3>2, <4>1, EntryTyped
        <5> QED
          BY <5>1, EntryTyped
      <4>5. Passed(at, r, n)
        BY <3>2, <4>1, <4>2, <4>3, <4>4 DEF Passed, Stamp
      <4>6. LeavePreflight(r, TRUE)
        BY <3>1, <3>4
      <4>7. /\ stage'[r] = "bind" /\ runs' = runs /\ arg' = arg
            /\ gathering'[r] = 0 /\ gathers' = gathers
        BY <2>2, <4>6 DEF LeavePreflight, PreflightReturns
      <4> QED
        BY <2>4, <3>1, <4>5, <4>7
    <3> QED
      BY <3>3, <3>4
  <2>12. CASE Communicate(r)
    <3>1. UNCHANGED <<gathers, gathering>>
      BY <2>12 DEF Communicate
    <3>2. Running(r) /\ gathering[r] = 0
      BY <2>3, <2>12 DEF Communicate, Running
    <3>3. Throw(r, "api") \/ PostComm(r)
      BY <2>12 DEF Communicate
    <3>4. PostComm(r) => arg' = arg /\ runs' = runs /\ stage' = stage
      BY <2>2, PostEffect
    <3> QED
      BY <2>4, <2>5, <3>1, <3>2, <3>3, <3>4
  <2>13. CASE TakeHeader(r) \/ TakeSlots(r)
    <3>1. UNCHANGED <<gathers, gathering>> /\ gathering[r] = 0
      BY <2>3, <2>13 DEF TakeHeader, TakeSlots, InWait
    <3>2. Throw(r, "api") \/ UNCHANGED rtVars
      BY <2>13 DEF TakeHeader, TakeSlots
    <3> QED
      BY <2>4, <2>5, <3>1, <3>2 DEF rtVars
  <2>14. CASE WaitReturns(r)
    <3>1. UNCHANGED <<gathers, gathering>> /\ FinishGroup(r, Arrived(r))
      BY <2>14 DEF WaitReturns, mpiVars
    <3>2. UNCHANGED <<arg, runs, stage>>
      BY <2>2, <3>1, FinishEffect
    <3> QED
      BY <2>4, <3>1, <3>2
  <2>15. CASE Abort(r) \/ Kill(r)
    <3>1. UNCHANGED <<gathers, gathering, arg, runs>> /\ stage'[r] = "panic"
      BY <2>2, <2>15 DEF Abort, Kill, Panic, mpiVars
    <3> QED
      BY <2>4, <3>1
  <2>16. CASE CallThrows(r)
    <3>1. UNCHANGED <<gathers, gathering>> /\ ApiThrows(r)
          /\ (stage[r] = "preflight" => gathering[r] = 0)
      BY <2>16 DEF CallThrows, mpiVars
    <3>2. CallsApi(r) /\ Throw(r, "api")
      BY <3>1 DEF ApiThrows
    <3>3. stage[r] # "panic"
      BY <3>2 DEF CallsApi, Running, InWait
    <3> QED
      BY <2>3, <2>4, <2>5, <3>1, <3>2, <3>3
  <2> HIDE DEF Goes
  <2> QED
    BY <1>3, <2>6, <2>7, <2>8, <2>10, <2>11, <2>12, <2>13, <2>14, <2>15, <2>16 DEF RankStep
<1> QED
  BY <1>2, <1>3 DEF MpiNext, Terminating


\* Whoever works on its n-th run has met every other rank in it, and they agreed.
LEMMA AlignedRuns ==
  ASSUME MpiInv
  PROVE  RunsAligned
<1>1. PICK at \in [Nat -> Stamps] : InStep(at)
  BY DEF MpiInv, Collected
<1> SUFFICES ASSUME NEW r \in Ranks, NEW s \in Ranks, PastPreflight(r)
             PROVE  /\ runs[s] >= runs[r]
                    /\ runs[s] = runs[r] => /\ arg[s].skip = arg[r].skip
                                            /\ arg[r].skip \/ arg[s].plan = arg[r].plan
  BY DEF RunsAligned
<1> DEFINE n == Len(gathers[r])
<1>2. n > 0 /\ at[n].run = runs[r] /\ Passed(at, r, n)
  BY <1>1 DEF InStep, Position
<1>3. n \in 1 .. n /\ n \in 1 .. Len(gathers[s])
  <2>1. Len(gathers[s]) >= n
    BY <1>2 DEF Passed
  <2> QED
    BY <1>2, <2>1, EntryTyped
<1>4. gathers[r][n] = Brought(r)
  BY <1>1, <1>2, <1>3 DEF InStep, EntriesKnown
<1>5. at[n].run \in 1 .. runs[s] /\ (at[n].run = runs[s] => gathers[s][n] = Brought(s))
  BY <1>1, <1>3 DEF InStep, EntriesKnown
<1>6. runs[s] \in Nat
  BY DEF MpiInv, RuntimeInv, IInv, TypeOK
<1>7. runs[s] >= runs[r]
  BY <1>2, <1>5, <1>6
<1>8. ASSUME runs[s] = runs[r]
      PROVE  /\ arg[s].skip = arg[r].skip
             /\ arg[r].skip \/ arg[s].plan = arg[r].plan
  BY <1>2, <1>4, <1>5, <1>8 DEF Passed, Brought
<1> QED
  BY <1>7, <1>8

-----------------------------------------------------------------------------
(***************************************************************************)
(* Tags, messages and receives.                                            *)
(***************************************************************************)
\* A tag that fits is one MPI accepts, and its last bit is the part.
LEMMA TagRange ==
  ASSUME NEW id \in Nat, NEW k \in Nat \ {0}, NEW part \in {Header, Slots}, TagFits(id, k, part)
  PROVE  /\ k \in 1 .. 32 /\ Tag(id, k, part) \in 0 .. TagUB
         /\ \E half \in 0 .. Tag(id, k, part) : Tag(id, k, part) = 2 * half + part
<1> USE DEF Header, Slots, Suffix, MpiConstantsOK
<1>1. TagUB \in Nat
  BY MpiConstantsOK
<1>2. k \in 1 .. 32
  BY DEF TagFits
<1>3. id * 64 + Suffix(k, part) \in Nat
  BY <1>2
<1>4. id * 64 + Suffix(k, part) <= TagUB
  <2> DEFINE room == TagUB - Suffix(k, part)
  <2>1. room \in Nat
    BY <1>1, <1>2 DEF TagFits
  <2>2. id <= room \div 64
    BY DEF TagFits
  <2> HIDE DEF room
  <2>3. id * 64 <= room
    BY <2>1, <2>2
  <2> QED
    BY <1>1, <1>2, <2>3 DEF room
<1>5. id * 32 + (k - 1) \in 0 .. Tag(id, k, part) /\ Tag(id, k, part) = 2 * (id * 32 + (k - 1)) + part
  BY <1>2 DEF Tag
<1>6. Tag(id, k, part) \in 0 .. TagUB
  BY <1>1, <1>3, <1>4 DEF Tag
<1>7. \E half \in 0 .. Tag(id, k, part) : Tag(id, k, part) = 2 * half + part
  BY <1>5
<1> QED
  BY <1>2, <1>6, <1>7

\* The earliest of some messages is one of them.
LEMMA EarliestIn ==
  ASSUME NEW S, S # {}, \A m \in S : m.run \in Nat /\ m.group \in Nat
  PROVE  Earliest(S) \in S
<1> DEFINE R == {m.run : m \in S}
<1>1. PICK a \in R : \A x \in R : a <= x
  BY LeastNat
<1> DEFINE First == {m \in S : m.run = a}
           G == {m.group : m \in First}
<1>2. PICK b \in G : \A x \in G : b <= x
  <2>1. G \subseteq Nat /\ G # {}
    BY <1>1
  <2> HIDE DEF G
  <2> QED
    BY <2>1, LeastNat
<1>3. PICK e \in S : e.run = a /\ e.group = b
  BY <1>2
<1>4. ASSUME NEW n \in S PROVE e.run < n.run \/ (e.run = n.run /\ e.group <= n.group)
  <2>1. a <= n.run /\ a \in Nat /\ n.run \in Nat
    BY <1>1
  <2>2. CASE n.run = a
    <3>1. b <= n.group
      BY <1>2, <2>2
    <3> QED
      BY <1>3, <2>2, <3>1
  <2> QED
    BY <1>3, <2>1, <2>2
<1> QED
  BY <1>3, <1>4 DEF Earliest

\* What wait takes is a message that matches its receive.
LEMMA TakenIs ==
  ASSUME MpiInv, NEW recv, Arrivals(recv) # {}
  PROVE  Earliest(Arrivals(recv)) \in wire /\ Matches(Earliest(Arrivals(recv)), recv)
<1>1. ASSUME NEW m \in wire PROVE m.run \in Nat /\ m.group \in Nat
  <2>1. Positions \subseteq Nat
    BY ConstantsOK DEF Positions, IsPlan
  <2>2. m.run \in 1 .. MaxRuns /\ m.group \in Positions
    BY DEF MpiInv, MpiTypeOK
  <2>3. MaxRuns \in Nat
    BY ConstantsOK
  <2>4. m.run \in Nat
    BY <2>2, <2>3
  <2> QED
    BY <2>1, <2>2, <2>4
<1>2. Earliest(Arrivals(recv)) \in Arrivals(recv)
  BY <1>1, EarliestIn DEF Arrivals
<1> QED
  BY <1>2 DEF Arrivals


\* A rank past preflight is in its first or a later run.
LEMMA RunBegun ==
  ASSUME MpiInv, NEW r \in Ranks, PastPreflight(r)
  PROVE  runs[r] \in 1 .. MaxRuns
<1>1. PICK at \in [Nat -> Stamps] : InStep(at)
  BY DEF MpiInv, Collected
<1>2. Len(gathers[r]) > 0 /\ at[Len(gathers[r])].run = runs[r]
  BY <1>1 DEF InStep, Position
<1>3. Len(gathers[r]) \in 1 .. Len(gathers[r])
  BY <1>2, EntryTyped
<1>4. at[Len(gathers[r])].run \in 1 .. runs[r]
  BY <1>1, <1>3 DEF InStep, EntriesKnown
<1>5. runs[r] \in 0 .. MaxRuns /\ MaxRuns \in Nat
  BY ConstantsOK DEF MpiInv, RuntimeInv, IInv, TypeOK
<1> QED
  BY <1>2, <1>4, <1>5

\* communicate_async at the current instruction.
LEMMA CommunicateEffect ==
  ASSUME MpiInv, NEW r \in Ranks, Communicate(r)
  PROVE  /\ Running(r) /\ ~Blocked(r) /\ Instr(r).op = "Comm"
         /\ PastPreflight(r) /\ Counted(r) /\ Alive(r) /\ PlanOK(PlanOf(r))
         /\ pc[r] \in Comms(PlanOf(r)) /\ pc[r] \in Nat /\ waiting[r] = 0
         /\ pc[r] \notin completed[r]
         /\ runs[r] \in 1 .. MaxRuns
         /\ UNCHANGED <<arg, runs, completed, waiting>>
         /\ \/ stage'[r] = "aborting" /\ pc' = pc
            \/ /\ stage' = stage /\ pc' = [pc EXCEPT ![r] = pc[r] + 1]
               /\ ~Misfit(r)
<1>1. Running(r) /\ ~Blocked(r) /\ Instr(r).op = "Comm"
  BY DEF Communicate
<1>2. /\ pc[r] \in DOMAIN PlanOf(r).code /\ pc[r] \in Nat /\ pc[r] \notin completed[r]
      /\ PlanOK(PlanOf(r)) /\ Bound(r) /\ Counted(r)
  BY <1>1, CurrentAt DEF MpiInv, RuntimeInv
<1>3. PastPreflight(r) /\ Alive(r)
  BY <1>2 DEF Bound, PastPreflight, Alive
<1>4. runs[r] \in 1 .. MaxRuns
  BY <1>3, RunBegun
<1>5. InstructionFault(r) = "none"
  BY <1>1, NoInstructionFault DEF MpiInv, RuntimeInv, StoreInv
<1>6. CASE Misfit(r)
  <2>1. Throw(r, "api")
    BY <1>5, <1>6 DEF Communicate
  <2>2. stage'[r] = "aborting" /\ UNCHANGED <<arg, runs, completed, waiting, pc>>
    BY <2>1 DEF Throw, MpiInv, RuntimeInv, IInv, TypeOK
  <2> QED
    BY <1>1, <1>2, <1>3, <1>4, <2>2 DEF Comms, Instr, Running
<1>7. CASE ~Misfit(r)
  <2>1. PostComm(r)
    BY <1>5, <1>7 DEF Communicate
  <2>2. UNCHANGED <<arg, runs, stage, completed, waiting>> /\ pc' = [pc EXCEPT ![r] = pc[r] + 1]
    BY <2>1, PostEffect DEF MpiInv
  <2> QED
    BY <1>1, <1>2, <1>3, <1>4, <1>7, <2>2 DEF Comms, Instr, Running
<1> QED
  BY <1>6, <1>7

\* What a source sends.
LEMMA NewSendIs ==
  ASSUME MpiInv, NEW r \in Ranks, Communicate(r), NEW m \in NewSends(r)
  PROVE  /\ m.from = r /\ m.to \in Ranks /\ m.to # r /\ m.part \in {Header, Slots}
         /\ m.tag \in 0 .. TagUB /\ \E half \in 0 .. m.tag : m.tag = 2 * half + m.part
         /\ m.run = runs[r] /\ m.group = pc[r] /\ m.data \in Data
         /\ \E k \in Remote(r, pc[r]) :
              /\ m = Message(r, pc[r], k, m.part, InEntry(r, 1).data)
              /\ m.tag = Tag(PlanOf(r).code[pc[r]].id, k, m.part)
              /\ k \in 1 .. 32
              /\ m.to = PlanOf(r).code[pc[r]].destinations[k].rank
<1> DEFINE p == PlanOf(r)
           ins == p.code[pc[r]]
<1>1. /\ Running(r) /\ ~Blocked(r) /\ Instr(r).op = "Comm" /\ Counted(r) /\ PlanOK(p)
      /\ pc[r] \in Comms(p)
  BY CommunicateEffect
<1>2. PICK k \in Remote(r, pc[r]), part \in {Header, Slots} :
        Fits(r, k, part) /\ m = Message(r, pc[r], k, part, InEntry(r, 1).data)
  BY DEF NewSends
<1>3. /\ k \in DOMAIN ins.outputs /\ SourceIsLocal(r, pc[r]) /\ ins.destinations[k].rank # r
  BY <1>2 DEF Remote
<1>4. ins.id \in Nat /\ k \in Nat \ {0}
  BY <1>1, <1>3, CommShape
<1>5. ins.destinations[k].rank \in Ranks
  BY <1>1, <1>3, PlacesAreRanks DEF MpiInv
<1>6. InEntry(r, 1).data \in Data
  BY <1>1, <1>3, SourceReady DEF InEntry, DataOK, MpiInv
<1>7. TagFits(ins.id, k, part)
  BY <1>2 DEF Fits, Instr
<1>8. /\ k \in 1 .. 32 /\ Tag(ins.id, k, part) \in 0 .. TagUB
      /\ \E half \in 0 .. Tag(ins.id, k, part) : Tag(ins.id, k, part) = 2 * half + part
  BY <1>4, <1>7, TagRange
<1>9. /\ m.from = r /\ m.to = ins.destinations[k].rank /\ m.part = part
      /\ m.tag = Tag(ins.id, k, part)
      /\ m.run = runs[r] /\ m.group = pc[r] /\ m.data = InEntry(r, 1).data
  BY <1>2 DEF Message
<1> QED
  BY <1>2, <1>3, <1>5, <1>6, <1>8, <1>9

\* And what a receiver waits for.
LEMMA NewReceiveIs ==
  ASSUME MpiInv, NEW r \in Ranks, Communicate(r), NEW recv \in NewReceives(r)
  PROVE  /\ recv.to = r /\ recv.from \in Ranks /\ recv.tag \in 0 .. TagUB
         /\ \E k \in Incoming(r, pc[r]) : recv = Receive(r, pc[r], k, Header)
<1> DEFINE p == PlanOf(r)
           ins == p.code[pc[r]]
<1>1. Counted(r) /\ PlanOK(p) /\ pc[r] \in Comms(p)
  BY CommunicateEffect
<1>2. PICK k \in Incoming(r, pc[r]) : Fits(r, k, Header) /\ recv = Receive(r, pc[r], k, Header)
  BY DEF NewReceives
<1>3. ins.id \in Nat /\ k \in Nat \ {0}
  BY <1>1, <1>2, CommShape DEF Incoming, LocalOuts
<1>4. ins.sources[1].rank \in Ranks
  BY <1>1, PlacesAreRanks DEF MpiInv
<1>5. Tag(ins.id, k, Header) \in 0 .. TagUB
  BY <1>2, <1>3, TagRange DEF Fits, Instr, Header
<1>6. recv.to = r /\ recv.from = ins.sources[1].rank /\ recv.tag = Tag(ins.id, k, Header)
  BY <1>2 DEF Receive
<1> QED
  BY <1>2, <1>4, <1>5, <1>6

\* A wait in progress is for a posted group of a verified plan, and its next
\* slot is one of the group's.
LEMMA WaitingFor ==
  ASSUME MpiInv, NEW r \in Ranks, InWait(r)
  PROVE  /\ PlanOK(PlanOf(r)) /\ Counted(r) /\ PastPreflight(r) /\ Alive(r)
         /\ waiting[r] \in OpenGroups(r) /\ waiting[r] \in Comms(PlanOf(r))
         /\ waiting[r] \in Positions /\ Id(r) \in Nat
         /\ Missing(r) \subseteq Nat \ {0}
         /\ Missing(r) # {} => Least(Missing(r)) \in Missing(r)
<1>1. waiting[r] \in OpenGroups(r) /\ Counted(r) /\ PastPreflight(r) /\ Alive(r)
  BY DEF InWait, Counted, PastPreflight, Alive, MpiInv, RuntimeInv, IInv, GroupsKnown
<1>2. waiting[r] \in Comms(PlanOf(r))
  BY <1>1 DEF OpenGroups, Posted
<1>3. PlanOK(PlanOf(r)) /\ waiting[r] \in Positions
  BY <1>1, <1>2, PlacesAreRanks DEF MpiInv
<1>4. Id(r) \in Nat /\ Missing(r) \subseteq Nat \ {0}
  BY <1>2, <1>3, CommShape DEF Id, Missing, Incoming, LocalOuts
<1>5. Missing(r) # {} => Least(Missing(r)) \in Missing(r)
  BY <1>4, LeastIn
<1> QED
  BY <1>1, <1>2, <1>3, <1>4, <1>5

\* Everything else leaves the messages and the requests alone.
LEMMA QuietSteps ==
  ASSUME NEW r \in Ranks, RankStep(r)
  PROVE  \/ UNCHANGED <<wire, posted, inbox>> /\ ~Restart(r)
         \/ Restart(r) \/ Communicate(r) \/ TakeHeader(r) \/ TakeSlots(r)
BY DEF RankStep, GatherSkips, CompareSkips, ComparePlans, WaitReturns, Abort, Kill, CallThrows, mpiVars


-----------------------------------------------------------------------------
(***************************************************************************)
(* The messages and the requests stay in order.                            *)
(***************************************************************************)
\* The start of another run: the handles of the last one are gone, and with the
\* first instruction still ahead nothing has been posted.
LEMMA RestartEffect ==
  ASSUME MpiInv, NEW r \in Ranks, Restart(r)
  PROVE  /\ stage[r] \in {"idle", "done"} /\ stage'[r] \in {"setup", "panic"}
         /\ runs'[r] = runs[r] + 1 /\ runs[r] \in Nat
         /\ inbox'[r] = {} /\ UNCHANGED <<wire, posted>>
         /\ Posted(r)' = {}
         /\ \A recv \in posted : recv.to # r
<1>1. /\ stage[r] \in {"idle", "done"} /\ stage'[r] \in {"setup", "panic"}
      /\ runs'[r] = runs[r] + 1 /\ runs[r] \in Nat /\ pc'[r] = 1
  BY DEF Restart, Start, MpiInv, RuntimeInv, IInv, TypeOK
<1>2. inbox'[r] = {} /\ UNCHANGED <<wire, posted>>
  BY DEF Restart, MpiInv, TablesOK
<1>3. Posted(r)' = {}
  <2>1. arg'[r] \in Args[r]
    BY DEF Restart, Start, MpiInv, RuntimeInv, IInv, TypeOK
  <2>2. IsPlan(PlanOf(r)', ValueIds)
    BY <2>1, ConstantsOK DEF PlanOf
  <2>3. \A i \in Comms(PlanOf(r)') : i \in Nat /\ i >= 1
    BY <2>2 DEF IsPlan, Comms
  <2>4. \A i \in Comms(PlanOf(r)') : ~ i < 1
    BY <2>3
  <2> QED
    BY <1>1, <2>4 DEF Posted
<1>4. ASSUME NEW recv \in posted, recv.to = r PROVE FALSE
  <2>1. runs[r] >= 1 /\ (Alive(r) => ReceiveKnown(recv))
    BY <1>4 DEF MpiInv, PostedOK
  <2>2. CASE stage[r] = "idle"
    <3>1. runs[r] = 0
      <4>1. PICK at \in [Nat -> Stamps] : InStep(at)
        BY DEF MpiInv, Collected
      <4> QED
        BY <2>2, <4>1 DEF InStep, Position
    <3> QED
      BY <2>1, <3>1
  <2>3. CASE stage[r] = "done"
    <3>1. OpenGroups(r) = {}
      BY <2>3 DEF MpiInv, RuntimeInv, StoreInv, RankOK, PcInPlan
    <3>2. ReceiveKnown(recv) /\ ~InWait(r)
      BY <2>1, <2>3 DEF Alive, InWait
    <3> QED
      BY <1>4, <3>1, <3>2 DEF ReceiveKnown
  <2> QED
    BY <1>1, <2>2, <2>3
<1> QED
  BY <1>1, <1>2, <1>3, <1>4

\* Every other step: the call stays, and only the communication at hand is posted.
LEMMA SameRun ==
  ASSUME MpiInv, NEW r \in Ranks, RankStep(r), ~Restart(r)
  PROVE  /\ arg'[r] = arg[r] /\ runs'[r] = runs[r]
         /\ PlanOf(r)' = PlanOf(r)
         /\ Alive(r)' => Alive(r)
         /\ ~Communicate(r) => (Alive(r)' => Posted(r)' = Posted(r))
         /\ \/ completed'[r] = completed[r]
            \/ WaitReturns(r) /\ completed'[r] = completed[r] \cup {waiting[r]}
         /\ \/ waiting'[r] = waiting[r]
            \/ RuntimeStep(r) \/ WaitReturns(r)
<1> USE DEF MpiInv, RuntimeInv
<1>1. ASSUME NEW w, Throw(r, w)
      PROVE  /\ UNCHANGED <<arg, runs, pc, completed, waiting>> /\ stage'[r] = "aborting"
  BY <1>1 DEF Throw, IInv, TypeOK
<1>2. CASE RuntimeStep(r)
  <2>1. /\ arg'[r] = arg[r] /\ runs'[r] = runs[r] /\ completed'[r] = completed[r]
        /\ stage[r] \in {"setup", "bind", "init", "exec", "sync"}
        /\ \/ pc'[r] = pc[r]
           \/ pc'[r] = pc[r] + 1 /\ pc[r] \in Nat /\ pc[r] \notin Comms(PlanOf(r))
    BY <1>2, LocalEffect
  <2>2. Alive(r)
    BY <2>1 DEF Alive
  <2>3. PlanOf(r)' = PlanOf(r)
    BY <2>1 DEF PlanOf
  <2>4. Posted(r)' = Posted(r)
    <3>1. CASE pc'[r] = pc[r]
      BY <2>3, <3>1 DEF Posted
    <3>2. CASE pc'[r] = pc[r] + 1 /\ pc[r] \in Nat /\ pc[r] \notin Comms(PlanOf(r))
      <4>1. \A i \in Comms(PlanOf(r)) : i \in Nat
        BY PlanOfTyped DEF IInv, IsPlan, Comms
      <4>2. \A i \in Comms(PlanOf(r)) : i < pc[r] + 1 <=> i < pc[r]
        BY <3>2, <4>1
      <4> QED
        BY <2>3, <3>2, <4>2 DEF Posted
    <3> QED
      BY <2>1, <3>1, <3>2
  <2> QED
    BY <1>2, <2>1, <2>2, <2>3, <2>4
<1>3. ASSUME UNCHANGED <<arg, runs, pc, completed, waiting>>, Alive(r)' => Alive(r)
      PROVE  /\ arg'[r] = arg[r] /\ runs'[r] = runs[r]
             /\ PlanOf(r)' = PlanOf(r)
             /\ Alive(r)' => Alive(r)
             /\ Posted(r)' = Posted(r)
             /\ completed'[r] = completed[r]
             /\ waiting'[r] = waiting[r]
  BY <1>3 DEF PlanOf, Posted
<1>4. CASE GatherSkips(r) \/ CompareSkips(r) \/ ComparePlans(r)
  <2>1. stage[r] = "preflight"
    BY <1>4 DEF GatherSkips, CompareSkips, ComparePlans
  <2>2. Throw(r, "api") \/ PreflightReturns(r) \/ UNCHANGED rtVars
    BY <1>4 DEF GatherSkips, CompareSkips, ComparePlans, LeavePreflight
  <2>3. UNCHANGED <<arg, runs, pc, completed, waiting>>
    BY <1>1, <2>2 DEF PreflightReturns, rtVars
  <2> QED
    BY <1>3, <2>1, <2>3 DEF Alive
<1>5. CASE Communicate(r)
  <2>1. UNCHANGED <<arg, runs, completed, waiting>> /\ Alive(r)
    BY <1>5, CommunicateEffect
  <2> QED
    BY <1>5, <2>1 DEF PlanOf
<1>6. CASE TakeHeader(r) \/ TakeSlots(r)
  <2>1. Throw(r, "api") \/ UNCHANGED rtVars
    BY <1>6 DEF TakeHeader, TakeSlots
  <2>2. Alive(r)
    BY <1>6 DEF TakeHeader, TakeSlots, InWait, Alive
  <2>3. UNCHANGED <<arg, runs, pc, completed, waiting>>
    BY <1>1, <2>1 DEF rtVars
  <2> QED
    BY <1>3, <2>2, <2>3
<1>7. CASE WaitReturns(r)
  <2>1. FinishGroup(r, Arrived(r))
    BY <1>7 DEF WaitReturns
  <2>2. /\ UNCHANGED <<arg, runs, stage, pc>>
        /\ completed' = [completed EXCEPT ![r] = @ \cup {waiting[r]}]
    BY <2>1, FinishEffect
  <2>3. completed'[r] = completed[r] \cup {waiting[r]}
    BY <2>2 DEF IInv, TypeOK
  <2> QED
    BY <1>7, <2>2, <2>3 DEF PlanOf, Posted, Alive
<1>8. CASE Abort(r) \/ Kill(r)
  <2>1. UNCHANGED <<arg, runs, pc, completed, waiting>> /\ stage'[r] = "panic"
    BY <1>8 DEF Abort, Panic, Kill, IInv, TypeOK
  <2> QED
    BY <1>3, <2>1 DEF Alive
<1>9. CASE CallThrows(r)
  <2>1. Throw(r, "api")
    BY <1>9 DEF CallThrows, ApiThrows
  <2>2. UNCHANGED <<arg, runs, pc, completed, waiting>> /\ stage'[r] = "aborting"
    BY <1>1, <2>1
  <2> QED
    BY <1>3, <2>2 DEF Alive
<1> QED
  BY <1>2, <1>4, <1>5, <1>6, <1>7, <1>8, <1>9 DEF RankStep

\* No rank's count of runs goes back.
LEMMA RunsGrow ==
  ASSUME MpiInv, NEW r \in Ranks, RankStep(r), NEW q \in Ranks
  PROVE  runs'[q] >= runs[q] /\ runs[q] \in Nat /\ runs'[q] \in Nat
<1>1. runs[q] \in Nat /\ runs[r] \in Nat
  BY DEF MpiInv, RuntimeInv, IInv, TypeOK
<1>2. CASE q # r
  BY <1>1, <1>2, RankFrame DEF Same
<1>3. CASE q = r /\ Restart(r)
  BY <1>1, <1>3, RestartEffect
<1>4. CASE q = r /\ ~Restart(r)
  BY <1>1, <1>4, SameRun
<1> QED
  BY <1>2, <1>3, <1>4

\* The two receives of the next slot are for this rank, come from the rank of
\* the group's source, and differ in their tags.
LEMMA WaitReceives ==
  ASSUME MpiInv, NEW r \in Ranks, InWait(r), Missing(r) # {}
  PROVE  /\ Least(Missing(r)) \in Missing(r) /\ Least(Missing(r)) \in Nat \ {0} /\ Id(r) \in Nat
         /\ HeaderReceive(r).to = r /\ SlotsReceive(r).to = r
         /\ HeaderReceive(r).from \in Ranks /\ SlotsReceive(r).from \in Ranks
         /\ HeaderReceive(r).tag = Tag(Id(r), Least(Missing(r)), Header)
         /\ SlotsReceive(r).tag = Tag(Id(r), Least(Missing(r)), Slots)
         /\ SlotsReceive(r).tag # HeaderReceive(r).tag
         /\ TagFits(Id(r), Least(Missing(r)), Slots) => SlotsReceive(r).tag \in 0 .. TagUB
<1> DEFINE k == Least(Missing(r))
<1>1. /\ k \in Missing(r) /\ k \in Nat \ {0} /\ Id(r) \in Nat
      /\ Counted(r) /\ waiting[r] \in Comms(PlanOf(r))
  BY WaitingFor
<1>2. PlanOf(r).code[waiting[r]].sources[1].rank \in Ranks
  BY <1>1, PlacesAreRanks DEF MpiInv
<1> HIDE DEF k
<1>3. Tag(Id(r), k, Slots) # Tag(Id(r), k, Header)
  BY <1>1 DEF Tag, Suffix, Header, Slots
<1>4. TagFits(Id(r), k, Slots) => Tag(Id(r), k, Slots) \in 0 .. TagUB
  BY <1>1, TagRange
<1> QED
  BY <1>1, <1>2, <1>3, <1>4 DEF k, HeaderReceive, SlotsReceive, Receive, Id

\* The members stay what they are declared to be.
LEMMA TypesKept ==
  ASSUME MpiInv, NEW r \in Ranks, RankStep(r)
  PROVE  MpiTypeOK' /\ TablesOK'
<1>1. TablesOK'
  BY DEF RankStep, Restart, GatherSkips, CompareSkips, ComparePlans, EnterGather, LeavePreflight,
         Communicate, TakeHeader, TakeSlots, WaitReturns, Abort, Kill, CallThrows, mpiVars, TablesOK,
         MpiInv
<1>2. ASSUME NEW s \in Ranks PROVE gathers'[s] \in Seq(Requests) /\ gathering'[s] \in 0 .. 2
  <2>1. gathers[s] \in Seq(Requests) /\ gathering[s] \in 0 .. 2
    BY DEF MpiInv, MpiTypeOK
  <2>2. Brought(s) \in Requests
    BY CallTyped DEF MpiInv, RuntimeInv, IInv
  <2>3. ASSUME NEW n \in {1, 2}, EnterGather(r, n)
        PROVE  gathers'[s] \in Seq(Requests) /\ gathering'[s] \in 0 .. 2
    <3>1. \/ gathers'[s] = gathers[s] /\ gathering'[s] = gathering[s]
          \/ gathers'[s] = Append(gathers[s], Brought(s)) /\ gathering'[s] = n
      BY <2>3 DEF EnterGather, MpiInv, TablesOK
    <3>2. Append(gathers[s], Brought(s)) \in Seq(Requests)
      BY <2>1, <2>2
    <3> QED
      BY SMTT(30), <2>1, <3>1, <3>2
  <2>4. ASSUME NEW ok, LeavePreflight(r, ok)
        PROVE  gathers'[s] \in Seq(Requests) /\ gathering'[s] \in 0 .. 2
    BY <2>1, <2>4 DEF LeavePreflight, MpiInv, TablesOK
  <2>5. CASE gathers'[s] = gathers[s] /\ gathering'[s] = gathering[s]
    BY <2>1, <2>5
  <2>6. \/ gathers'[s] = gathers[s] /\ gathering'[s] = gathering[s]
        \/ \E n \in {1, 2} : EnterGather(r, n)
        \/ \E ok : LeavePreflight(r, ok)
    BY DEF RankStep, Restart, GatherSkips, CompareSkips, ComparePlans,
           Communicate, TakeHeader, TakeSlots, WaitReturns, Abort, Kill, CallThrows, mpiVars
  <2> QED
    BY <2>3, <2>4, <2>5, <2>6
<1>3. ASSUME NEW m \in wire'
      PROVE  /\ m.from \in Ranks /\ m.to \in Ranks /\ m.tag \in 0 .. TagUB
             /\ m.group \in Positions /\ m.run \in 1 .. MaxRuns /\ m.data \in Data
  <2>1. CASE m \in wire
    BY <2>1 DEF MpiInv, MpiTypeOK
  <2>2. CASE Communicate(r) /\ m \in NewSends(r)
    <3>1. /\ m.from = r /\ m.to \in Ranks /\ m.tag \in 0 .. TagUB
          /\ m.run = runs[r] /\ m.group = pc[r] /\ m.data \in Data
      BY <2>2, NewSendIs
    <3>2. pc[r] \in Comms(PlanOf(r)) /\ Counted(r) /\ runs[r] \in 1 .. MaxRuns
      BY <2>2, CommunicateEffect
    <3>3. pc[r] \in Positions
      BY <3>2, PlacesAreRanks DEF MpiInv
    <3> QED
      BY <3>1, <3>2, <3>3
  <2>3. m \in wire \/ (Communicate(r) /\ m \in NewSends(r))
    BY QuietSteps DEF Restart, Communicate, TakeHeader, TakeSlots
  <2> QED
    BY <2>1, <2>2, <2>3
<1>4. ASSUME NEW recv \in posted'
      PROVE  recv.from \in Ranks /\ recv.to \in Ranks /\ recv.tag \in 0 .. TagUB
  <2>1. CASE recv \in posted
    BY <2>1 DEF MpiInv, MpiTypeOK
  <2>2. CASE Communicate(r) /\ recv \in NewReceives(r)
    BY <2>2, NewReceiveIs
  <2>3. CASE TakeHeader(r) /\ recv = SlotsReceive(r) /\ recv \notin posted
    <3>1. InWait(r) /\ Missing(r) # {} /\ TagFits(Id(r), Least(Missing(r)), Slots)
      BY <2>3 DEF TakeHeader
    <3> QED
      BY <2>3, <3>1, WaitReceives
  <2>4. \/ recv \in posted
        \/ Communicate(r) /\ recv \in NewReceives(r)
        \/ TakeHeader(r) /\ recv = SlotsReceive(r) /\ recv \notin posted
    BY QuietSteps DEF Restart, Communicate, TakeHeader, TakeSlots
  <2> QED
    BY <2>1, <2>2, <2>3, <2>4
<1>5. ASSUME NEW s \in Ranks, NEW e \in inbox'[s]
      PROVE  e \in [group : Positions, slot : Nat, data : Data]
  <2>1. CASE e \in inbox[s]
    BY <2>1 DEF MpiInv, MpiTypeOK
  <2>2. CASE s # r
    BY <1>5, <2>1, <2>2, RankFrame
  <2>3. CASE s = r /\ e \notin inbox[r]
    <3>1. inbox'[r] # {} /\ inbox'[r] # inbox[r]
      BY <1>5, <2>3
    <3>2. CASE Restart(r)
      BY <3>1, <3>2, RestartEffect
    <3>3. CASE Communicate(r)
      <4>1. PICK k \in Copied(r, pc[r]) :
              e = [group |-> pc[r], slot |-> k, data |-> InEntry(r, 1).data]
        BY <1>5, <2>3, <3>3 DEF Communicate, MpiInv, TablesOK
      <4>2. /\ Running(r) /\ ~Blocked(r) /\ Instr(r).op = "Comm" /\ Counted(r) /\ PlanOK(PlanOf(r))
            /\ pc[r] \in Comms(PlanOf(r))
        BY <3>3, CommunicateEffect
      <4>3. SourceIsLocal(r, pc[r]) /\ k \in DOMAIN PlanOf(r).code[pc[r]].outputs
        BY <4>1 DEF Copied, LocalOuts
      <4>4. pc[r] \in Positions /\ k \in Nat
        BY <4>2, <4>3, PlacesAreRanks, CommShape DEF MpiInv
      <4>5. InEntry(r, 1).data \in Data
        BY <4>2, <4>3, SourceReady DEF InEntry, DataOK, MpiInv
      <4> QED
        BY <4>1, <4>4, <4>5
    <3>4. CASE TakeSlots(r)
      <4> DEFINE m == Earliest(Arrivals(SlotsReceive(r)))
      <4>1. /\ InWait(r) /\ Missing(r) # {} /\ Arrivals(SlotsReceive(r)) # {}
            /\ e = [group |-> waiting[r], slot |-> Least(Missing(r)), data |-> m.data]
        BY <1>5, <2>3, <3>4 DEF TakeSlots, MpiInv, TablesOK
      <4>2. m \in wire
        BY <4>1, TakenIs
      <4>3. m.data \in Data
        BY <4>2 DEF MpiInv, MpiTypeOK
      <4>4. Least(Missing(r)) \in Nat /\ waiting[r] \in Positions
        BY <4>1, WaitReceives, WaitingFor
      <4> QED
        BY <4>1, <4>3, <4>4
    <3>5. CASE TakeHeader(r)
      BY <3>1, <3>5 DEF TakeHeader
    <3> QED
      BY <3>1, <3>2, <3>3, <3>4, <3>5, QuietSteps
  <2> QED
    BY <1>5, <2>1, <2>2, <2>3
<1>6. killed' \in BOOLEAN
  BY DEF RankStep, Restart, GatherSkips, CompareSkips, ComparePlans, EnterGather, LeavePreflight,
         Communicate, TakeHeader, TakeSlots, WaitReturns, Abort, Kill, CallThrows, mpiVars,
         MpiInv, MpiTypeOK
<1> QED
  BY <1>1, <1>2, <1>3, <1>4, <1>5, <1>6 DEF MpiTypeOK

\* communicate_async that goes through adds the current instruction to groups_.
LEMMA PostedNow ==
  ASSUME MpiInv, NEW r \in Ranks, Communicate(r), Alive(r)'
  PROVE  /\ Posted(r)' = Posted(r) \cup {pc[r]} /\ pc[r] \notin Posted(r)
         /\ PlanOf(r)' = PlanOf(r) /\ ~Misfit(r)
<1>1. /\ pc[r] \in Comms(PlanOf(r)) /\ pc[r] \in Nat
      /\ arg' = arg /\ pc' = [pc EXCEPT ![r] = pc[r] + 1] /\ ~Misfit(r)
  BY CommunicateEffect DEF Alive
<1>2. PlanOf(r)' = PlanOf(r) /\ pc'[r] = pc[r] + 1
  BY <1>1 DEF PlanOf, MpiInv, RuntimeInv, IInv, TypeOK
<1>3. \A i \in Comms(PlanOf(r)) : i \in Nat
  BY PlanOfTyped DEF MpiInv, RuntimeInv, IInv, IsPlan, Comms
<1>4. \A i \in Comms(PlanOf(r)) : i < pc[r] + 1 <=> (i < pc[r] \/ i = pc[r])
  BY <1>1, <1>3
<1>5. ~ pc[r] < pc[r]
  BY <1>1
<1> QED
  BY <1>1, <1>2, <1>4, <1>5 DEF Posted

\* No group is taken back.
LEMMA PostedStays ==
  ASSUME MpiInv, NEW r \in Ranks, RankStep(r), ~Restart(r), Alive(r)'
  PROVE  /\ Posted(r) \subseteq Posted(r)'
         /\ ~Communicate(r) => Posted(r)' = Posted(r)
<1>1. CASE Communicate(r)
  BY <1>1, PostedNow
<1>2. CASE ~Communicate(r)
  BY <1>2, SameRun
<1> QED
  BY <1>1, <1>2

\* Where the messages come from.
LEMMA WireStep ==
  ASSUME NEW r \in Ranks, RankStep(r), NEW m \in wire'
  PROVE  m \in wire \/ (Communicate(r) /\ m \in NewSends(r))
BY QuietSteps DEF Restart, Communicate, TakeHeader, TakeSlots

\* What another process is doing, and with which plan, is the same afterwards.
LEMMA OthersWork ==
  ASSUME MpiInv, NEW r \in Ranks, RankStep(r), NEW s \in Ranks, s # r
  PROVE  /\ arg'[s] = arg[s] /\ runs'[s] = runs[s] /\ stage'[s] = stage[s]
         /\ completed'[s] = completed[s] /\ waiting'[s] = waiting[s]
         /\ inbox'[s] = inbox[s]
         /\ PlanOf(s)' = PlanOf(s) /\ (Alive(s)' <=> Alive(s)) /\ (InWait(s)' <=> InWait(s))
         /\ Posted(s)' = Posted(s) /\ OpenGroups(s)' = OpenGroups(s)
<1>1. Same(s) /\ inbox'[s] = inbox[s]
  BY RankFrame
<1>2. PlanOf(s)' = PlanOf(s)
  BY <1>1 DEF PlanOf, Same
<1> QED
  BY <1>1, <1>2 DEF Same, Alive, InWait, Posted, OpenGroups

\* A message of the current run stays one of a posted communication.
LEMMA WireKept ==
  ASSUME MpiInv, NEW r \in Ranks, RankStep(r)
  PROVE  WireOK'
<1> SUFFICES ASSUME NEW m \in wire'
             PROVE  /\ m.part \in {Header, Slots} /\ m.to # m.from
                    /\ \E half \in 0 .. m.tag : m.tag = 2 * half + m.part
                    /\ m.run <= runs'[m.from]
                    /\ SentNow(m)'
  BY DEF WireOK
<1>1. CASE m \in wire
  <2>1. /\ m.part \in {Header, Slots} /\ m.to # m.from
        /\ \E half \in 0 .. m.tag : m.tag = 2 * half + m.part
        /\ m.run <= runs[m.from] /\ SentNow(m)
    BY <1>1 DEF MpiInv, WireOK
  <2>2. m.from \in Ranks /\ m.run \in 1 .. MaxRuns /\ MaxRuns \in Nat
    BY <1>1, ConstantsOK DEF MpiInv, MpiTypeOK
  <2>3. /\ runs'[m.from] >= runs[m.from] /\ runs[m.from] \in Nat /\ runs'[m.from] \in Nat
        /\ m.run \in Nat
    BY <2>2, RunsGrow
  <2>4. m.run <= runs'[m.from]
    BY <2>1, <2>3
  <2>5. CASE m.from # r
    <3>1. /\ runs'[m.from] = runs[m.from] /\ PlanOf(m.from)' = PlanOf(m.from)
          /\ (Alive(m.from)' <=> Alive(m.from)) /\ Posted(m.from)' = Posted(m.from)
      BY <2>2, <2>5, OthersWork
    <3>2. SentNow(m)'
      BY <2>1, <3>1 DEF SentNow, Remote, SourceIsLocal
    <3> QED
      BY <2>1, <2>4, <3>2
  <2>6. CASE m.from = r /\ Restart(r)
    <3>1. runs'[r] = runs[r] + 1
      BY <2>6, RestartEffect
    <3>2. ~ m.run = runs'[m.from]
      BY <2>1, <2>3, <2>6, <3>1
    <3> QED
      BY <2>1, <2>4, <3>2 DEF SentNow
  <2>7. CASE m.from = r /\ ~Restart(r)
    <3>1. SentNow(m)'
      <4>1. SUFFICES ASSUME m.run = runs'[m.from], Alive(r)'
                     PROVE  SentNow(m)'
        BY <2>7 DEF SentNow
      <4>2. /\ runs'[r] = runs[r] /\ PlanOf(r)' = PlanOf(r) /\ Alive(r)
            /\ Posted(r) \subseteq Posted(r)'
        BY <2>7, <4>1, SameRun, PostedStays
      <4> QED
        BY <2>1, <2>7, <4>1, <4>2 DEF SentNow, Remote, SourceIsLocal
    <3> QED
      BY <2>1, <2>4, <3>1
  <2> QED
    BY <2>5, <2>6, <2>7
<1>2. CASE Communicate(r) /\ m \in NewSends(r)
  <2>1. /\ m.from = r /\ m.to # r /\ m.part \in {Header, Slots}
        /\ \E half \in 0 .. m.tag : m.tag = 2 * half + m.part
        /\ m.run = runs[r] /\ m.group = pc[r]
        /\ \E k \in Remote(r, pc[r]) :
             /\ m.tag = Tag(PlanOf(r).code[pc[r]].id, k, m.part)
             /\ k \in 1 .. 32
             /\ m.to = PlanOf(r).code[pc[r]].destinations[k].rank
    BY <1>2, NewSendIs
  <2>2. runs[r] \in Nat /\ runs' = runs
    BY <1>2, CommunicateEffect DEF MpiInv, RuntimeInv, IInv, TypeOK
  <2>3. m.run <= runs'[m.from]
    BY <2>1, <2>2
  <2>4. ASSUME Alive(r)'
        PROVE  pc[r] \in Posted(r)' /\ PlanOf(r)' = PlanOf(r)
    BY <1>2, <2>4, PostedNow
  <2>5. SentNow(m)'
    BY ZenonT(30), <2>1, <2>4 DEF SentNow, Remote, SourceIsLocal
  <2> QED
    BY <2>1, <2>3, <2>5
<1> QED
  BY <1>1, <1>2, WireStep

\* The handles hold what was received or copied since run() was called.
LEMMA HandlesKept ==
  ASSUME MpiInv, NEW r \in Ranks, RankStep(r)
  PROVE  HandlesOK'
<1> SUFFICES ASSUME NEW s \in Ranks, Alive(s)'
             PROVE  /\ \A e \in inbox'[s] : e.group \in Posted(s)'
                    /\ \A i \in Posted(s)' : Copied(s, i)' \subseteq GotOf(s, i)'
  BY DEF HandlesOK
<1>1. ASSUME Alive(s)
      PROVE  /\ \A e \in inbox[s] : e.group \in Posted(s)
             /\ \A i \in Posted(s) : Copied(s, i) \subseteq GotOf(s, i)
  BY <1>1 DEF MpiInv, HandlesOK
<1>2. ASSUME PlanOf(s)' = PlanOf(s)
      PROVE  \A i : Copied(s, i)' = Copied(s, i)
  BY <1>2 DEF Copied, SourceIsLocal
<1>3. CASE s # r
  <2>1. /\ inbox'[s] = inbox[s] /\ PlanOf(s)' = PlanOf(s) /\ Alive(s)
        /\ Posted(s)' = Posted(s)
    BY <1>3, OthersWork
  <2> QED
    BY <1>1, <1>2, <2>1 DEF GotOf
<1>4. CASE s = r /\ Restart(r)
  BY <1>4, RestartEffect
<1>5. CASE s = r /\ Communicate(r)
  <2>1. /\ Alive(r) /\ PlanOf(r)' = PlanOf(r)
        /\ Posted(r)' = Posted(r) \cup {pc[r]}
    BY <1>5, PostedNow, CommunicateEffect
  <2>2. inbox'[r] = inbox[r] \cup
          {[group |-> pc[r], slot |-> k, data |-> InEntry(r, 1).data] : k \in Copied(r, pc[r])}
    BY <1>5 DEF Communicate, MpiInv, TablesOK
  <2>3. \A e \in inbox'[r] : e.group \in Posted(r)'
    BY <1>1, <1>5, <2>1, <2>2
  <2>4. ASSUME NEW i \in Posted(r)' PROVE Copied(r, i) \subseteq GotOf(r, i)'
    <3>1. CASE i = pc[r]
      <4>1. ASSUME NEW k \in Copied(r, i) PROVE k \in GotOf(r, i)'
        <5> DEFINE e == [group |-> pc[r], slot |-> k, data |-> InEntry(r, 1).data]
        <5>1. e \in inbox'[r]
          BY <2>2, <3>1
        <5>2. e.group = i /\ e.slot = k
          BY <3>1
        <5> QED
          BY <5>1, <5>2 DEF GotOf
      <4> QED
        BY <4>1
    <3>2. CASE i \in Posted(r)
      <4>1. Copied(r, i) \subseteq GotOf(r, i)
        BY <1>1, <1>5, <2>1, <3>2
      <4> QED
        BY <2>2, <4>1 DEF GotOf
    <3> QED
      BY <2>1, <3>1, <3>2
  <2> QED
    BY <1>2, <1>5, <2>1, <2>3, <2>4
<1>6. CASE s = r /\ TakeSlots(r)
  <2>1. ~Restart(r) /\ ~Communicate(r)
    BY <1>6 DEF TakeSlots, InWait, Communicate, Running, Restart, Start
  <2>2. Alive(r) /\ PlanOf(r)' = PlanOf(r) /\ Posted(r)' = Posted(r)
    BY <1>6, <2>1, SameRun
  <2>3. waiting[r] \in Posted(r)
    BY <1>6, WaitingFor DEF TakeSlots, OpenGroups
  <2>4. PICK data : inbox'[r] = inbox[r] \cup
          {[group |-> waiting[r], slot |-> Least(Missing(r)), data |-> data]}
    BY <1>6 DEF TakeSlots, MpiInv, TablesOK
  <2>5. \A e \in inbox'[r] : e.group \in Posted(r)'
    BY <1>1, <1>6, <2>2, <2>3, <2>4
  <2>6. \A i \in Posted(r)' : GotOf(r, i) \subseteq GotOf(r, i)'
    BY <2>4 DEF GotOf
  <2> QED
    BY <1>1, <1>2, <1>6, <2>2, <2>5, <2>6
<1>7. CASE s = r /\ ~Restart(r) /\ ~Communicate(r) /\ ~TakeSlots(r)
  <2>1. inbox' = inbox
    BY <1>7, QuietSteps DEF TakeHeader
  <2>2. Alive(r) /\ PlanOf(r)' = PlanOf(r) /\ Posted(r)' = Posted(r)
    BY <1>7, SameRun
  <2> QED
    BY <1>1, <1>2, <1>7, <2>1, <2>2 DEF GotOf
<1> QED
  BY <1>3, <1>4, <1>5, <1>6, <1>7

\* The tag of a header is never one of slots.
LEMMA TagParts ==
  ASSUME NEW id \in Nat, NEW k \in Nat \ {0}, NEW id2 \in Nat, NEW k2 \in Nat \ {0}
  PROVE  Tag(id, k, Slots) # Tag(id2, k2, Header)
BY DEF Tag, Suffix, Header, Slots

\* Where the receives come from.
LEMMA PostedStep ==
  ASSUME NEW r \in Ranks, RankStep(r), NEW recv \in posted'
  PROVE  \/ recv \in posted
         \/ Communicate(r) /\ recv \in NewReceives(r)
         \/ TakeHeader(r) /\ recv = SlotsReceive(r)
BY QuietSteps DEF Restart, Communicate, TakeHeader, TakeSlots

\* A header still awaited stays awaited.
LEMMA HeaderKnown ==
  ASSUME NEW r \in Ranks, NEW i, i \in OpenGroups(r)', NEW k \in Incoming(r, i), k \notin GotOf(r, i)',
         PlanOf(r)' = PlanOf(r), NEW recv, recv.to = r, recv = Receive(r, i, k, Header)
  PROVE  ReceiveKnown(recv)'
<1>1. Incoming(r, i)' = Incoming(r, i)
  BY DEF Incoming, Copied, SourceIsLocal
<1>2. Receive(r, i, k, Header)' = Receive(r, i, k, Header)
  BY DEF Receive
<1> QED
  BY <1>1, <1>2 DEF ReceiveKnown

\* The receives of another process are known as before.
LEMMA OthersReceives ==
  ASSUME MpiInv, NEW r \in Ranks, RankStep(r), NEW recv \in posted, recv.to # r, Alive(recv.to)'
  PROVE  ReceiveKnown(recv)'
<1>1. PICK s \in Ranks : s = recv.to
  BY DEF MpiInv, PostedOK
<1>2. /\ inbox'[s] = inbox[s] /\ PlanOf(s)' = PlanOf(s) /\ Alive(s) /\ waiting'[s] = waiting[s]
      /\ (InWait(s)' <=> InWait(s)) /\ OpenGroups(s)' = OpenGroups(s)
  BY <1>1, OthersWork
<1>3. ReceiveKnown(recv)
  BY <1>1, <1>2 DEF MpiInv, PostedOK
<1>4. CASE \E i \in OpenGroups(s) : \E k \in Incoming(s, i) \ GotOf(s, i) :
             recv = Receive(s, i, k, Header)
  <2>1. PICK i \in OpenGroups(s) : \E k \in Incoming(s, i) \ GotOf(s, i) :
               recv = Receive(s, i, k, Header)
    BY <1>4
  <2>2. PICK k \in Incoming(s, i) \ GotOf(s, i) : recv = Receive(s, i, k, Header)
    BY <2>1
  <2>3. i \in OpenGroups(s)' /\ k \notin GotOf(s, i)'
    BY <1>2, <2>2 DEF GotOf
  <2> QED
    BY <1>1, <1>2, <2>2, <2>3, HeaderKnown
<1>5. CASE /\ InWait(s) /\ Missing(s) # {}
           /\ recv = SlotsReceive(s) /\ HeaderReceive(s) \notin posted
  <2>1. Missing(s)' = Missing(s)
    BY <1>2 DEF Missing, Incoming, Copied, SourceIsLocal, Got
  <2>2. SlotsReceive(s)' = SlotsReceive(s) /\ HeaderReceive(s)' = HeaderReceive(s)
    BY <1>2, <2>1 DEF SlotsReceive, HeaderReceive, Receive
  <2>3. HeaderReceive(s) \notin posted'
    <3>1. HeaderReceive(s).to = s
      BY DEF HeaderReceive, Receive
    <3>2. ASSUME TakeHeader(r) PROVE SlotsReceive(r).to = r
      BY DEF SlotsReceive, Receive
    <3>3. ASSUME HeaderReceive(s) \in posted' PROVE FALSE
      <4>1. PICK h \in posted' : h = HeaderReceive(s)
        BY <3>3
      <4>2. h \in posted \/ h.to = r
        BY <3>2, PostedStep, NewReceiveIs
      <4> QED
        BY <1>1, <1>5, <3>1, <4>1, <4>2
    <3> QED
      BY <3>3
  <2> QED
    BY <1>1, <1>2, <1>5, <2>1, <2>2, <2>3 DEF ReceiveKnown
<1> QED
  BY <1>1, <1>3, <1>4, <1>5 DEF ReceiveKnown

\* A step outside wait leaves the receives of its process as they are.
LEMMA QuietReceives ==
  ASSUME MpiInv, NEW r \in Ranks, RankStep(r), ~Restart(r), Alive(r)',
         inbox' = inbox, NEW recv \in posted, recv.to = r,
         \/ ~InWait(r)
         \/ WaitReturns(r)
  PROVE  ReceiveKnown(recv)'
<1>1. /\ PlanOf(r)' = PlanOf(r) /\ Alive(r) /\ Posted(r) \subseteq Posted(r)'
      /\ \/ completed'[r] = completed[r]
         \/ WaitReturns(r) /\ completed'[r] = completed[r] \cup {waiting[r]}
  BY SameRun, PostedStays
<1>2. ReceiveKnown(recv) /\ ~(InWait(r) /\ Missing(r) # {})
  BY <1>1 DEF MpiInv, PostedOK, WaitReturns
<1>3. PICK i \in OpenGroups(r) : \E k \in Incoming(r, i) \ GotOf(r, i) :
             recv = Receive(r, i, k, Header)
  BY <1>2 DEF ReceiveKnown
<1>4. PICK k \in Incoming(r, i) \ GotOf(r, i) : recv = Receive(r, i, k, Header)
  BY <1>3
<1>5. WaitReturns(r) => i # waiting[r]
  BY <1>4 DEF WaitReturns, Missing, Got, GotOf
<1>6. i \in OpenGroups(r)'
  BY <1>1, <1>5 DEF OpenGroups
<1>7. k \notin GotOf(r, i)'
  BY <1>4 DEF GotOf
<1> QED
  BY <1>1, <1>4, <1>6, <1>7, HeaderKnown

\* communicate_async posts the headers of the slots that are to come.
LEMMA CommunicateReceives ==
  ASSUME MpiInv, NEW r \in Ranks, Communicate(r), Alive(r)', NEW recv \in posted', recv.to = r
  PROVE  ReceiveKnown(recv)'
<1>1. /\ PlanOf(r)' = PlanOf(r) /\ Alive(r)
      /\ Posted(r)' = Posted(r) \cup {pc[r]} /\ pc[r] \notin Posted(r)
      /\ completed' = completed /\ waiting[r] = 0 /\ pc[r] \notin completed[r]
  BY PostedNow, CommunicateEffect
<1>2. OpenGroups(r)' = OpenGroups(r) \cup {pc[r]} /\ pc[r] \notin OpenGroups(r)
  BY <1>1 DEF OpenGroups
<1>3. inbox'[r] = inbox[r] \cup
        {[group |-> pc[r], slot |-> k, data |-> InEntry(r, 1).data] : k \in Copied(r, pc[r])}
  BY DEF Communicate, MpiInv, TablesOK
<1>4. CASE recv \in posted
  <2>1. ReceiveKnown(recv) /\ ~InWait(r)
    BY <1>1, <1>4 DEF MpiInv, PostedOK, InWait
  <2>2. PICK i \in OpenGroups(r) : \E k \in Incoming(r, i) \ GotOf(r, i) :
               recv = Receive(r, i, k, Header)
    BY <2>1 DEF ReceiveKnown
  <2>3. PICK k \in Incoming(r, i) \ GotOf(r, i) : recv = Receive(r, i, k, Header)
    BY <2>2
  <2>4. i \in OpenGroups(r)' /\ i # pc[r]
    BY <1>2
  <2>5. k \notin GotOf(r, i)'
    BY <1>3, <2>3, <2>4 DEF GotOf
  <2> QED
    BY <1>1, <2>3, <2>4, <2>5, HeaderKnown
<1>5. CASE recv \in NewReceives(r)
  <2>1. PICK i : i = pc[r]
    OBVIOUS
  <2>2. PICK k \in Incoming(r, i) : recv = Receive(r, i, k, Header)
    BY <1>5, <2>1, NewReceiveIs
  <2>3. k \notin Copied(r, i)
    BY DEF Incoming
  <2>4. \A e \in inbox[r] : e.group # i
    BY <1>1, <2>1 DEF MpiInv, HandlesOK
  <2>5. \A e \in inbox'[r] : e.group = i => e.slot \in Copied(r, i)
    BY <1>3, <2>1, <2>4
  <2>6. k \notin GotOf(r, i)'
    BY <2>3, <2>5 DEF GotOf
  <2>7. i \in OpenGroups(r)'
    BY <1>2, <2>1
  <2> QED
    BY <1>1, <2>2, <2>6, <2>7, HeaderKnown
<1> QED
  BY <1>4, <1>5 DEF Communicate

\* Inside wait a header gives way to the slots, and the slots to what is left.
LEMMA TakeReceives ==
  ASSUME MpiInv, NEW r \in Ranks, TakeHeader(r) \/ TakeSlots(r), Alive(r)',
         NEW recv \in posted', recv.to = r
  PROVE  ReceiveKnown(recv)'
<1> DEFINE H == HeaderReceive(r)
           S == SlotsReceive(r)
           l == Least(Missing(r))
<1>1. InWait(r) /\ Missing(r) # {}
  BY DEF TakeHeader, TakeSlots
<1>2. /\ l \in Missing(r) /\ l \in Nat \ {0} /\ Id(r) \in Nat /\ H.to = r /\ S.to = r
      /\ S.tag = Tag(Id(r), l, Slots) /\ S # H
      /\ waiting[r] \in OpenGroups(r) /\ PlanOK(PlanOf(r)) /\ Alive(r)
  BY <1>1, WaitReceives, WaitingFor
<1>3. UNCHANGED rtVars
  <2>1. TakeHeader(r) /\ Throw(r, "api") => ~Alive(r)'
    BY DEF Throw, Alive, MpiInv, RuntimeInv, IInv, TypeOK
  <2> QED
    BY <2>1 DEF TakeHeader, TakeSlots
<1>4. /\ PlanOf(r)' = PlanOf(r) /\ OpenGroups(r)' = OpenGroups(r) /\ waiting'[r] = waiting[r]
      /\ InWait(r)'
  BY <1>1, <1>3 DEF rtVars, PlanOf, OpenGroups, Posted, InWait
<1>5. ASSUME NEW e \in posted, e.to = r PROVE ReceiveKnown(e)
  BY <1>2, <1>5 DEF MpiInv, PostedOK
<1>6. CASE TakeHeader(r)
  <2>1. H \in posted /\ inbox' = inbox
        /\ (posted' = (posted \ {H}) \cup {S} \/ posted' = posted \ {H})
    BY <1>6 DEF TakeHeader
  <2>2. CASE recv \in posted
    <3>1. \E i \in OpenGroups(r) : \E k \in Incoming(r, i) \ GotOf(r, i) : recv = Receive(r, i, k, Header)
      BY <1>5, <2>1, <2>2 DEF ReceiveKnown
    <3>2. PICK i \in OpenGroups(r) : \E k \in Incoming(r, i) \ GotOf(r, i) :
                 recv = Receive(r, i, k, Header)
      BY <3>1
    <3>3. PICK k \in Incoming(r, i) \ GotOf(r, i) : recv = Receive(r, i, k, Header)
      BY <3>2
    <3>4. k \notin GotOf(r, i)' /\ i \in OpenGroups(r)'
      BY <1>4, <2>1, <3>3 DEF GotOf
    <3> QED
      BY <1>4, <3>3, <3>4, HeaderKnown
  <2>3. CASE recv = S
    <3>1. Missing(r)' = Missing(r)
      BY <1>4, <2>1 DEF Missing, Incoming, Copied, SourceIsLocal, Got
    <3>2. SlotsReceive(r)' = S /\ HeaderReceive(r)' = H
      BY <1>4, <3>1 DEF SlotsReceive, HeaderReceive, Receive
    <3>3. H \notin posted'
      BY <1>2, <2>1
    <3> QED
      BY <1>1, <1>2, <1>4, <2>3, <3>1, <3>2, <3>3 DEF ReceiveKnown
  <2> QED
    BY <2>1, <2>2, <2>3
<1>7. CASE TakeSlots(r)
  <2>1. S \in posted /\ posted' = posted \ {S}
    BY <1>7 DEF TakeSlots
  <2>2. PICK data : inbox'[r] = inbox[r] \cup
          {[group |-> waiting[r], slot |-> Least(Missing(r)), data |-> data]}
    BY <1>7 DEF TakeSlots, MpiInv, TablesOK
  <2>3. H \notin posted
    <3>1. ReceiveKnown(S)
      BY <1>2, <1>5, <2>1
    <3>2. ASSUME NEW i \in OpenGroups(r), NEW k \in Incoming(r, i), S = Receive(r, i, k, Header)
          PROVE  FALSE
      <4>1. i \in Comms(PlanOf(r)) /\ k \in DOMAIN PlanOf(r).code[i].outputs
        BY DEF OpenGroups, Posted, Incoming, LocalOuts
      <4>2. PlanOf(r).code[i].id \in Nat /\ k \in Nat \ {0}
        BY <1>2, <4>1, CommShape
      <4>3. S.tag = Tag(PlanOf(r).code[i].id, k, Header)
        BY <3>2 DEF Receive
      <4> HIDE DEF S, l
      <4> QED
        BY <1>2, <4>2, <4>3, TagParts
    <3> QED
      BY <1>2, <3>1, <3>2 DEF ReceiveKnown
  <2>4. recv \in posted /\ recv # S
    BY <2>1
  <2>5. \E i \in OpenGroups(r) : \E k \in Incoming(r, i) \ GotOf(r, i) : recv = Receive(r, i, k, Header)
    BY <1>5, <2>4 DEF ReceiveKnown
  <2>6. PICK i \in OpenGroups(r) : \E k \in Incoming(r, i) \ GotOf(r, i) :
               recv = Receive(r, i, k, Header)
    BY <2>5
  <2>7. PICK k \in Incoming(r, i) \ GotOf(r, i) : recv = Receive(r, i, k, Header)
    BY <2>6
  <2>8. i = waiting[r] => k # l
    BY <2>3, <2>4, <2>7 DEF HeaderReceive
  <2>9. ASSUME NEW e \in inbox'[r], e.group = i PROVE e.slot # k
    BY <2>2, <2>7, <2>8, <2>9 DEF GotOf
  <2>10. k \notin GotOf(r, i)' /\ i \in OpenGroups(r)'
    BY <1>4, <2>9 DEF GotOf
  <2> QED
    BY <1>4, <2>7, <2>10, HeaderKnown
<1> QED
  BY <1>6, <1>7

\* The receives of every process stay known, and nobody is behind their run.
LEMMA PostedKept ==
  ASSUME MpiInv, NEW r \in Ranks, RankStep(r)
  PROVE  PostedOK'
<1> SUFFICES ASSUME NEW recv \in posted'
             PROVE  /\ recv.to \in Ranks
                    /\ runs'[recv.to] >= 1 /\ \A q \in Ranks : runs'[q] >= runs'[recv.to]
                    /\ Alive(recv.to)' => ReceiveKnown(recv)'
  BY DEF PostedOK
<1>1. \A q \in Ranks : runs'[q] >= runs[q] /\ runs[q] \in Nat /\ runs'[q] \in Nat
  BY RunsGrow
<1>2. recv \notin posted => recv.to = r /\ (Communicate(r) \/ TakeHeader(r))
  <2>1. SlotsReceive(r).to = r
    BY DEF SlotsReceive, Receive
  <2> QED
    BY <2>1, PostedStep, NewReceiveIs
<1>3. recv.to \in Ranks
  BY <1>2 DEF MpiInv, PostedOK
<1>4. runs[recv.to] >= 1 /\ \A q \in Ranks : runs[q] >= runs[recv.to]
  <2>1. CASE recv \in posted
    BY <2>1 DEF MpiInv, PostedOK
  <2>2. CASE recv.to = r /\ Communicate(r)
    <3>1. PastPreflight(r) /\ runs[r] \in 1 .. MaxRuns
      BY <2>2, CommunicateEffect
    <3>2. runs[r] >= 1
      BY <1>1, <3>1
    <3> QED
      BY <2>2, <3>1, <3>2, AlignedRuns DEF RunsAligned
  <2>3. CASE recv.to = r /\ TakeHeader(r)
    <3>1. HeaderReceive(r) \in posted /\ HeaderReceive(r).to = r
      BY <2>3 DEF TakeHeader, HeaderReceive, Receive
    <3> QED
      BY <2>3, <3>1 DEF MpiInv, PostedOK
  <2> QED
    BY <1>2, <2>1, <2>2, <2>3
<1>5. runs'[recv.to] = runs[recv.to]
  <2>1. CASE recv.to = r
    <3>1. ~Restart(r)
      <4>1. SUFFICES ASSUME Restart(r) PROVE FALSE
        OBVIOUS
      <4>2. recv \in posted
        BY <4>1, RestartEffect
      <4> QED
        BY <2>1, <4>1, <4>2, RestartEffect
    <3> QED
      BY <2>1, <3>1, SameRun
  <2>2. CASE recv.to # r
    BY <1>3, <2>2, OthersWork
  <2> QED
    BY <2>1, <2>2
<1>6. runs'[recv.to] >= 1 /\ \A q \in Ranks : runs'[q] >= runs'[recv.to]
  <2>1. ASSUME NEW q \in Ranks PROVE runs'[q] >= runs'[recv.to]
    <3>1. runs'[q] >= runs[q] /\ runs[q] >= runs[recv.to]
      BY <1>1, <1>4
    <3>2. runs'[q] \in Nat /\ runs[q] \in Nat /\ runs[recv.to] \in Nat
      BY <1>1, <1>3
    <3> QED
      BY <1>5, <3>1, <3>2
  <2> QED
    BY <1>4, <1>5, <2>1
<1>7. ASSUME Alive(recv.to)' PROVE ReceiveKnown(recv)'
  <2>1. CASE recv.to # r
    BY <1>2, <1>7, <2>1, OthersReceives
  <2>2. CASE recv.to = r
    <3>1. CASE Restart(r)
      BY <2>2, <3>1, RestartEffect
    <3>2. CASE Communicate(r)
      BY <1>7, <2>2, <3>2, CommunicateReceives
    <3>3. CASE TakeHeader(r) \/ TakeSlots(r)
      BY <1>7, <2>2, <3>3, TakeReceives
    <3>4. CASE ~Restart(r) /\ ~Communicate(r) /\ ~TakeHeader(r) /\ ~TakeSlots(r)
      <4>1. inbox' = inbox /\ posted' = posted
        BY <3>4, QuietSteps
      <4>2. ~InWait(r) \/ WaitReturns(r)
        <5>1. CASE RuntimeStep(r)
          BY <5>1, LocalEffect DEF MpiInv
        <5>2. CASE GatherSkips(r) \/ CompareSkips(r) \/ ComparePlans(r)
          BY <5>2 DEF GatherSkips, CompareSkips, ComparePlans, InWait
        <5>3. CASE Abort(r) \/ Kill(r) \/ CallThrows(r)
          <6>1. stage'[r] \in {"aborting", "panic"}
            BY <5>3 DEF Abort, Panic, Kill, CallThrows, ApiThrows, Throw, MpiInv, RuntimeInv, IInv, TypeOK
          <6> QED
            BY <1>7, <2>2, <6>1 DEF Alive
        <5> QED
          BY <3>4, <5>1, <5>2, <5>3 DEF RankStep
      <4> QED
        BY <1>7, <2>2, <3>4, <4>1, <4>2, QuietReceives
    <3> QED
      BY <3>1, <3>2, <3>3, <3>4
  <2> QED
    BY <2>1, <2>2
<1> QED
  BY <1>3, <1>6, <1>7

\* A message that matches the same receive as another one is the same part of
\* its transfer, and so waits for its receive if the other does.
LEMMA SamePart ==
  ASSUME MpiInv, NEW m \in wire, NEW n \in wire, m.tag = n.tag
  PROVE  m.part = n.part
<1>1. /\ m.part \in {0, 1} /\ n.part \in {0, 1} /\ m.tag \in 0 .. TagUB /\ n.tag \in 0 .. TagUB
      /\ (\E half \in 0 .. m.tag : m.tag = 2 * half + m.part)
      /\ (\E half \in 0 .. n.tag : n.tag = 2 * half + n.part)
  BY DEF MpiInv, WireOK, Header, Slots, MpiTypeOK
<1>2. TagUB \in Nat
  BY MpiConstantsOK
<1>3. PICK a \in 0 .. m.tag : m.tag = 2 * a + m.part
  BY <1>1
<1>4. PICK b \in 0 .. n.tag : n.tag = 2 * b + n.part
  BY <1>1
<1>5. a \in Int /\ b \in Int
  BY <1>1, <1>2
<1>6. 2 * a + m.part = 2 * b + n.part
  BY <1>3, <1>4
<1> QED
  BY <1>1, <1>5, <1>6

\* The receive of a rendezvous message is only taken back with the message.
LEMMA ReceiveStays ==
  ASSUME MpiInv, NEW r \in Ranks, RankStep(r), NEW m \in Rendezvous, m \in wire',
         NEW recv \in posted, Matches(m, recv)
  PROVE  recv \in posted'
<1>1. ASSUME NEW x, x = recv, Arrivals(x) # {}, wire' = wire \ {Earliest(Arrivals(x))} PROVE FALSE
  <2>1. PICK t : t = Earliest(Arrivals(x))
    OBVIOUS
  <2>2. t \in wire /\ Matches(t, x)
    BY <1>1, <2>1, TakenIs
  <2>3. m.from = t.from /\ m.to = t.to /\ m.tag = t.tag /\ m \in wire
    BY <1>1, <2>2 DEF Matches, Rendezvous
  <2>4. t.part = m.part
    BY <2>2, <2>3, SamePart
  <2>5. t \in Rendezvous
    BY <2>2, <2>4 DEF Rendezvous
  <2>6. t = m
    BY <2>3, <2>5 DEF MpiInv, RendezvousUnique
  <2> QED
    BY <1>1, <2>1, <2>6
<1>2. CASE TakeHeader(r)
  <2>1. recv # HeaderReceive(r)
    BY <1>1, <1>2 DEF TakeHeader
  <2> QED
    BY <1>2, <2>1 DEF TakeHeader
<1>3. CASE TakeSlots(r)
  <2>1. recv # SlotsReceive(r)
    BY <1>1, <1>3 DEF TakeSlots
  <2> QED
    BY <1>3, <2>1 DEF TakeSlots
<1>4. CASE ~TakeHeader(r) /\ ~TakeSlots(r)
  BY <1>4, QuietSteps DEF Restart, Communicate
<1> QED
  BY <1>2, <1>3, <1>4

\* A send that was awaited has its receive in the receiver's same run.
LEMMA AwaitedKept ==
  ASSUME MpiInv, NEW r \in Ranks, RankStep(r)
  PROVE  AwaitedSent'
<1> SUFFICES ASSUME NEW m \in Rendezvous', Awaited(m)'
             PROVE  /\ \E recv \in posted' : Matches(m, recv)
                    /\ runs'[m.to] = m.run
  BY DEF AwaitedSent, Matches
<1>1. m \in wire' /\ m.part \notin EagerParts
  BY DEF Rendezvous
<1>2. m \in wire
  <2>1. SUFFICES ASSUME Communicate(r), m \in NewSends(r) PROVE FALSE
    BY <1>1, WireStep
  <2>2. m.from = r /\ m.run = runs[r] /\ m.group = pc[r]
    BY <2>1, NewSendIs
  <2>3. runs' = runs /\ completed' = completed /\ pc[r] \notin completed[r] /\ runs[r] \in Nat
    BY <2>1, CommunicateEffect DEF MpiInv, RuntimeInv, IInv, TypeOK
  <2> QED
    BY <2>2, <2>3 DEF Awaited
<1>3. m \in Rendezvous
  BY <1>1, <1>2 DEF Rendezvous
<1>4. /\ m.from \in Ranks /\ m.to \in Ranks /\ m.to # m.from /\ m.run \in Nat
      /\ m.run <= runs[m.from] /\ runs[m.from] \in Nat /\ runs[m.to] \in Nat
  <2>1. /\ m.from \in Ranks /\ m.to \in Ranks /\ m.run \in 1 .. MaxRuns /\ MaxRuns \in Nat
    BY <1>2, ConstantsOK DEF MpiInv, MpiTypeOK
  <2>2. runs[m.from] \in Nat /\ runs[m.to] \in Nat
    BY <2>1, RunsGrow
  <2> QED
    BY <1>2, <2>1, <2>2 DEF MpiInv, WireOK
<1>5. CASE Awaited(m)
  <2>1. PICK recv \in posted : Matches(m, recv) /\ runs[m.to] = m.run
    BY <1>3, <1>5 DEF MpiInv, AwaitedSent
  <2>2. recv \in posted'
    BY <1>1, <1>3, <2>1, ReceiveStays
  <2>3. ~(m.to = r /\ Restart(r))
    BY <2>1, RestartEffect DEF Matches
  <2>4. runs'[m.to] = runs[m.to]
    <3>1. CASE m.to = r
      BY <2>3, <3>1, SameRun
    <3>2. CASE m.to # r
      BY <1>4, <3>2, OthersWork
    <3> QED
      BY <3>1, <3>2
  <2> QED
    BY <2>1, <2>2, <2>4
<1>6. CASE ~Awaited(m)
  <2>1. m.run = runs[m.from] /\ m.group \notin completed[m.from]
    BY <1>4, <1>6 DEF Awaited
  <2>2. m.from = r
    <3>1. SUFFICES ASSUME m.from # r PROVE FALSE
      OBVIOUS
    <3>2. runs'[m.from] = runs[m.from] /\ completed'[m.from] = completed[m.from]
      BY <1>4, <3>1, OthersWork
    <3> QED
      BY <1>6, <3>2 DEF Awaited
  <2>3. ~Restart(r)
    <3>1. SUFFICES ASSUME Restart(r) PROVE FALSE
      OBVIOUS
    <3>2. stage[r] \in {"idle", "done"}
      BY <3>1, RestartEffect
    <3>3. Alive(r) /\ m.group \in Posted(r)
      BY <1>2, <2>1, <2>2, <3>2 DEF Alive, MpiInv, WireOK, SentNow
    <3>4. CASE stage[r] = "idle"
      <4>1. runs[r] = 0
        BY <3>4 DEF MpiInv, Collected, InStep, Position
      <4>2. m.run \in 1 .. MaxRuns /\ MaxRuns \in Nat
        BY <1>2, ConstantsOK DEF MpiInv, MpiTypeOK
      <4> QED
        BY <2>1, <2>2, <4>1, <4>2
    <3>5. CASE stage[r] = "done"
      <4>1. OpenGroups(r) = {}
        BY <3>5 DEF MpiInv, RuntimeInv, StoreInv, RankOK, PcInPlan
      <4> QED
        BY <2>1, <2>2, <3>3, <4>1 DEF OpenGroups
    <3> QED
      BY <3>2, <3>4, <3>5
  <2>4. runs'[r] = runs[r]
    BY <2>3, SameRun
  <2>5. WaitReturns(r) /\ m.group = waiting[r]
    BY <1>4, <2>1, <2>2, <2>3, <2>4, SameRun DEF Awaited
  <2>6. SendDone(m) /\ InWait(r) /\ posted' = posted
    BY <1>2, <2>1, <2>2, <2>5 DEF WaitReturns, Sent, mpiVars
  <2>7. PICK recv \in posted : Matches(m, recv)
    BY <1>1, <2>6 DEF SendDone
  <2>8. runs[r] >= runs[m.to]
    BY <1>4, <2>2, <2>7 DEF Matches, MpiInv, PostedOK
  <2>9. runs[m.to] >= runs[r]
    BY <1>4, <2>6, WaitingFor, AlignedRuns DEF RunsAligned
  <2>10. runs'[m.to] = runs[m.to]
    BY <1>4, <2>2, OthersWork
  <2> QED
    BY <1>4, <2>1, <2>2, <2>6, <2>7, <2>8, <2>9, <2>10
<1> QED
  BY <1>5, <1>6

\* Two rendezvous messages never compete for a receive.
LEMMA UniqueKept ==
  ASSUME MpiInv, NEW r \in Ranks, RankStep(r)
  PROVE  RendezvousUnique'
<1>1. ASSUME NEW m \in NewSends(r), Communicate(r), NEW n \in wire, n.part \notin EagerParts,
             m.from = n.from, m.to = n.to, m.tag = n.tag
      PROVE  FALSE
  <2> DEFINE p == PlanOf(r)
  <2>1. /\ m.from = r /\ m.to \in Ranks /\ m.run = runs[r] /\ m.group = pc[r]
        /\ m.part \in {Header, Slots}
    BY <1>1, NewSendIs
  <2>2. PICK k \in Remote(r, pc[r]) : m.tag = Tag(p.code[pc[r]].id, k, m.part) /\ k \in 1 .. 32
    BY <1>1, NewSendIs
  <2>3. /\ PastPreflight(r) /\ Alive(r) /\ PlanOK(p) /\ pc[r] \in Comms(p) /\ pc[r] \in Nat
    BY <1>1, CommunicateEffect
  <2>4. n.run <= runs[r] /\ SentNow(n) /\ n.part \in {Header, Slots}
    BY <1>1, <2>1 DEF MpiInv, WireOK
  <2>5. n.run \in Nat /\ runs[r] \in Nat /\ runs[m.to] \in Nat
    <3>1. n.run \in 1 .. MaxRuns /\ MaxRuns \in Nat
      BY ConstantsOK DEF MpiInv, MpiTypeOK
    <3> QED
      BY <2>1, <3>1, RunsGrow
  <2>6. CASE n.run < runs[r]
    <3>1. n \in Rendezvous /\ Awaited(n)
      BY <1>1, <2>1, <2>6 DEF Rendezvous, Awaited
    <3>2. runs[m.to] = n.run
      BY <1>1, <3>1 DEF MpiInv, AwaitedSent
    <3>3. runs[m.to] >= runs[r]
      BY <2>1, <2>3, AlignedRuns DEF RunsAligned
    <3> QED
      BY <2>5, <2>6, <3>2, <3>3
  <2>7. CASE n.run = runs[r]
    <3>1. PICK l \in Remote(r, n.group) : /\ n.tag = Tag(p.code[n.group].id, l, n.part)
                                          /\ l \in 1 .. 32 /\ n.group \in Posted(r)
      BY <1>1, <2>1, <2>3, <2>4, <2>7 DEF SentNow
    <3>2. n.group \in Comms(p) /\ n.group < pc[r]
      BY <3>1 DEF Posted
    <3>3. /\ p.code[pc[r]].id \in Nat /\ p.code[n.group].id \in Nat
          /\ n.group \in Nat /\ pc[r] \in DOMAIN p.code /\ p.code[pc[r]].op = "Comm"
          /\ n.group \in DOMAIN p.code /\ p.code[n.group].op = "Comm"
      BY <2>3, <3>2, CommShape
    <3>4. p.code[pc[r]].id = p.code[n.group].id
      <4>1. PICK a \in {Header, Slots}, b \in {Header, Slots} : a = m.part /\ b = n.part
        BY <2>1, <2>4
      <4>2. PICK x \in Nat, y \in Nat : x = p.code[pc[r]].id /\ y = p.code[n.group].id
        BY <3>3
      <4>3. Tag(x, k, a) = Tag(y, l, b)
        BY <1>1, <2>2, <3>1, <4>1, <4>2
      <4>4. k \in 1 .. 32 /\ l \in 1 .. 32
        BY <2>2, <3>1
      <4>5. x = y
        <5>1. PICK i \in 1 .. 32, j \in 1 .. 32 : i = k /\ j = l
          BY <4>4
        <5>2. Tag(x, i, a) = Tag(y, j, b)
          BY <4>3, <5>1
        <5> QED
          BY <5>2 DEF Tag, Suffix, Header, Slots
      <4> QED
        BY <4>2, <4>5
    <3>5. TransferIdFresh(p, pc[r])
      BY <2>3, <3>3, PlanShape DEF InstructionOk, CommOk
    <3>6. n.group >= pc[r]
      BY <3>2, <3>4, <3>5 DEF TransferIdFresh
    <3> QED
      BY <2>3, <3>2, <3>3, <3>6
  <2> QED
    BY <2>4, <2>5, <2>6, <2>7
<1>2. ASSUME NEW m \in NewSends(r), NEW n \in NewSends(r), Communicate(r), m.tag = n.tag
      PROVE  m = n
  <2>1. pc[r] \in Comms(PlanOf(r)) /\ PlanOK(PlanOf(r))
    BY <1>2, CommunicateEffect
  <2>2. PlanOf(r).code[pc[r]].id \in Nat
    BY <2>1, CommShape
  <2>3. PICK k \in Remote(r, pc[r]) :
          /\ m = Message(r, pc[r], k, m.part, InEntry(r, 1).data)
          /\ m.tag = Tag(PlanOf(r).code[pc[r]].id, k, m.part)
          /\ k \in 1 .. 32 /\ m.part \in {Header, Slots}
    BY <1>2, NewSendIs
  <2>4. PICK l \in Remote(r, pc[r]) :
          /\ n = Message(r, pc[r], l, n.part, InEntry(r, 1).data)
          /\ n.tag = Tag(PlanOf(r).code[pc[r]].id, l, n.part)
          /\ l \in 1 .. 32 /\ n.part \in {Header, Slots}
    BY <1>2, NewSendIs
  <2>5. k = l /\ m.part = n.part
    <3>1. PICK id \in Nat : id = PlanOf(r).code[pc[r]].id
      BY <2>2
    <3>2. PICK a \in {Header, Slots}, b \in {Header, Slots} : a = m.part /\ b = n.part
      BY <2>3, <2>4
    <3>3. Tag(id, k, a) = Tag(id, l, b)
      BY <1>2, <2>3, <2>4, <3>1, <3>2
    <3>4. k \in 1 .. 32 /\ l \in 1 .. 32
      BY <2>3, <2>4
    <3>5. k = l /\ a = b
      <4>1. PICK i \in 1 .. 32, j \in 1 .. 32 : i = k /\ j = l
        BY <3>4
      <4>2. Tag(id, i, a) = Tag(id, j, b)
        BY <3>3, <4>1
      <4>3. i = j /\ a = b
        BY <4>2 DEF Tag, Suffix, Header, Slots
      <4> QED
        BY <4>1, <4>3
    <3> QED
      BY <3>2, <3>5
  <2> QED
    BY <2>3, <2>4, <2>5
<1> SUFFICES ASSUME NEW m \in wire', NEW n \in wire', m.part \notin EagerParts, n.part \notin EagerParts,
                    m.from = n.from, m.to = n.to, m.tag = n.tag
             PROVE  m = n
  BY DEF RendezvousUnique, Rendezvous
<1>3. CASE m \in wire /\ n \in wire
  BY <1>3 DEF MpiInv, RendezvousUnique, Rendezvous
<1>4. m \in wire \/ (Communicate(r) /\ m \in NewSends(r))
  BY WireStep
<1>5. n \in wire \/ (Communicate(r) /\ n \in NewSends(r))
  BY WireStep
<1> QED
  BY <1>1, <1>2, <1>3, <1>4, <1>5

-----------------------------------------------------------------------------
(***************************************************************************)
(* The invariant, and what it says.                                        *)
(***************************************************************************)
\* MpiVecApi starts with nothing sent, posted or gathered.
LEMMA MpiInvInit ==
  ASSUME MpiInit
  PROVE  MpiInv
<1> USE DEF MpiInit
<1>1. RuntimeInv
  BY RuntimeInit DEF MpiInit
<1>2. DataOK
  BY DEF DataOK, Init, Absent
<1>3. MpiTypeOK /\ TablesOK
  <2>1. TablesOK /\ wire = {} /\ posted = {} /\ killed = FALSE
        /\ \A r \in Ranks : gathers[r] = <<>> /\ gathering[r] = 0 /\ inbox[r] = {}
    BY DEF TablesOK
  <2>2. \A r \in Ranks : gathers[r] \in Seq(Requests) /\ gathering[r] \in 0 .. 2
    BY <2>1
  <2>3. \A r \in Ranks : inbox[r] \subseteq [group : Positions, slot : Nat, data : Data]
    BY <2>1
  <2> QED
    BY <2>1, <2>2, <2>3 DEF MpiTypeOK
<1>4. \A r \in Ranks : stage[r] = "idle" /\ runs[r] = 0 /\ pc[r] = 1
  BY DEF Init
<1>5. Collected
  <2> DEFINE at == [j \in Nat |-> Stamp(0, 1)]
  <2>1. at \in [Nat -> Stamps]
    BY DEF Stamps, Stamp
  <2>2. \A r \in Ranks : Len(gathers[r]) = 0 /\ gathering[r] = 0
    OBVIOUS
  <2> HIDE DEF at
  <2>3. InStep(at)
    BY <1>4, <2>1, <2>2 DEF InStep, EntriesKnown, Succession, Position, PastPreflight
  <2> QED
    BY <2>1, <2>3 DEF Collected
<1>6. WireOK /\ PostedOK /\ AwaitedSent /\ RendezvousUnique
  BY DEF WireOK, PostedOK, AwaitedSent, RendezvousUnique, Rendezvous
<1>7. HandlesOK
  <2>1. ASSUME NEW r \in Ranks PROVE Posted(r) = {}
    <3>1. IsPlan(PlanOf(r), ValueIds)
      BY <1>1, PlanOfTyped DEF RuntimeInv, IInv
    <3>2. \A i \in Comms(PlanOf(r)) : i \in Nat /\ i >= 1
      BY <3>1 DEF IsPlan, Comms
    <3> QED
      BY <1>4, <3>2 DEF Posted
  <2> QED
    BY <2>1 DEF HandlesOK
<1> QED
  BY <1>1, <1>2, <1>3, <1>5, <1>6, <1>7 DEF MpiInv

\* And every step of a process keeps the invariant.
LEMMA MpiInvKept ==
  ASSUME MpiInv, [MpiNext]_vars
  PROVE  MpiInv'
<1>1. RuntimeInv' /\ DataOK' /\ Collected'
  BY RuntimesKept, CollectedKept
<1>2. ASSUME NEW r \in Ranks, RankStep(r) PROVE MpiInv'
  BY <1>1, <1>2, TypesKept, WireKept, PostedKept, HandlesKept, AwaitedKept, UniqueKept DEF MpiInv
<1>3. ASSUME UNCHANGED vars PROVE MpiInv'
  <2>1. UNCHANGED rtVars /\ UNCHANGED mpiVars
    BY <1>3 DEF vars
  <2>2. /\ MpiTypeOK' /\ TablesOK'
    BY <2>1 DEF mpiVars, MpiInv, MpiTypeOK, TablesOK
  <2>3. /\ wire' = wire /\ posted' = posted /\ inbox' = inbox
        /\ arg' = arg /\ runs' = runs /\ stage' = stage /\ pc' = pc
        /\ completed' = completed /\ waiting' = waiting
    BY <2>1 DEF mpiVars, rtVars
  <2>4. WireOK'
    BY <2>3 DEF MpiInv, WireOK, SentNow, Alive, PlanOf, Posted, Remote, SourceIsLocal
  <2>5. PostedOK'
    <3>1. ASSUME NEW recv, ReceiveKnown(recv) PROVE ReceiveKnown(recv)'
      BY <2>3, <3>1 DEF ReceiveKnown, PlanOf, Posted, OpenGroups, Copied, Incoming, SourceIsLocal,
                        GotOf, Got, Missing, InWait, SlotsReceive, HeaderReceive, Receive
    <3> QED
      BY <2>3, <3>1 DEF MpiInv, PostedOK, Alive
  <2>6. HandlesOK'
    BY <2>3 DEF MpiInv, HandlesOK, Alive, PlanOf, Posted, Copied, SourceIsLocal, GotOf
  <2>7. AwaitedSent' /\ RendezvousUnique'
    BY <2>3 DEF MpiInv, AwaitedSent, Awaited, RendezvousUnique, Rendezvous, Matches
  <2> QED
    BY <1>1, <2>2, <2>4, <2>5, <2>6, <2>7 DEF MpiInv
<1> QED
  BY <1>2, <1>3 DEF MpiNext, Terminating

\* What holds of the processes at every moment.
THEOREM MpiInvariant == MpiSpec => []MpiInv
<1>1. MpiInit => MpiInv
  BY MpiInvInit
<1>2. MpiInv /\ [MpiNext]_vars => MpiInv'
  BY MpiInvKept
<1> QED
  BY <1>1, <1>2, PTL DEF MpiSpec

\* Requests and messages name ranks, tags in range and groups of their run
\* (MpiVecApi::tag, communicate_async, wait).
THEOREM MpiTypes == MpiSpec => []MpiTypeOK
<1>1. MpiInv => MpiTypeOK
  BY DEF MpiInv
<1> QED
  BY <1>1, MpiInvariant, PTL

\* However far apart the processes are, the two collectives of preflight keep
\* them in the same run with the same call before any of them works
\* (MpiVecApi::preflight on a communicator used again).
THEOREM RunsStayAligned == MpiSpec => []RunsAligned
<1>1. MpiInv => RunsAligned
  BY AlignedRuns
<1> QED
  BY <1>1, MpiInvariant, PTL

\* A process that returns has no request left with MPI (finish_all_groups,
\* MpiVecApi::wait).
THEOREM NothingStaysPending == MpiSpec => []NothingPending
<1>1. ASSUME MpiInv PROVE NothingPending
  <2> SUFFICES ASSUME NEW r \in Ranks, stage[r] = "done"
               PROVE  /\ \A m \in wire : m.from = r => SendDone(m)
                      /\ \A recv \in posted : recv.to # r
    BY DEF NothingPending
  <2>1. OpenGroups(r) = {} /\ Alive(r) /\ ~InWait(r)
    BY <1>1 DEF MpiInv, RuntimeInv, StoreInv, RankOK, PcInPlan, Alive, InWait
  <2>2. ASSUME NEW m \in wire, m.from = r, m.part \notin EagerParts
        PROVE  \E recv \in posted : Matches(m, recv)
    <3>1. m.run <= runs[r] /\ (m.run = runs[r] => m.group \in Posted(r))
      BY <1>1, <2>1, <2>2 DEF MpiInv, WireOK, SentNow
    <3>2. m.run \in Nat /\ runs[r] \in Nat
      <4>1. m.run \in 1 .. MaxRuns /\ MaxRuns \in Nat
        BY <1>1, ConstantsOK DEF MpiInv, MpiTypeOK
      <4> QED
        BY <1>1, <4>1 DEF MpiInv, RuntimeInv, IInv, TypeOK
    <3>3. Awaited(m)
      BY <2>1, <2>2, <3>1, <3>2 DEF Awaited, OpenGroups
    <3> QED
      BY <1>1, <2>2, <3>3 DEF MpiInv, AwaitedSent, Rendezvous
  <2>3. ASSUME NEW recv \in posted, recv.to = r PROVE FALSE
    BY <1>1, <2>1, <2>3 DEF MpiInv, PostedOK, ReceiveKnown
  <2> QED
    BY <2>2, <2>3 DEF SendDone
<1> QED
  BY <1>1, MpiInvariant, PTL

\* Although MPI may end a process at any moment, what SequentialRuntime promises
\* of its store, its counts and its artifact holds over MpiVecApi as well.
THEOREM RuntimeOverMpi == MpiSpec => [](NoStoreError /\ UsesExact /\ StoreExact /\ ArtifactComplete)
<1>1. MpiInv => NoStoreError /\ UsesExact /\ StoreExact /\ ArtifactComplete
  BY CountsHold, StoreHolds, ArtifactHolds
     DEF MpiInv, RuntimeInv, StoreInv, RankOK, NoStoreError
<1> QED
  BY <1>1, MpiInvariant, PTL

-----------------------------------------------------------------------------
(***************************************************************************)
(* When the ranks that meet in a run have the same plan, every message is  *)
(* taken in the run it was sent in, for the slot it was sent for.          *)
(***************************************************************************)
\* The header of slot k of group i has been received, or the slot itself.
Reached(s, i, k) ==
  \/ k \in GotOf(s, i)
  \/ /\ InWait(s) /\ Missing(s) # {}
     /\ i = waiting[s] /\ k = Least(Missing(s)) /\ SlotsReceive(s) \in posted

\* Rank f has posted communication i of the run rank s is in.
HasSent(f, s, i) ==
  runs[f] > runs[s] \/ (runs[f] = runs[s] /\ (Alive(f) => i \in Posted(f)))

\* The slots of a posted communication have tags of their own.
SlotsFit ==
  \A s \in Ranks : Alive(s) => \A i \in Posted(s) : Incoming(s, i) \subseteq 1 .. 32

\* Nothing is received that was not sent in this run.
SentFirst ==
  \A s \in Ranks : Counted(s) =>
    \A i \in Posted(s) : \A k \in Incoming(s, i) :
      Reached(s, i, k) => HasSent(PlanOf(s).code[i].sources[1].rank, s, i)

\* A completed group has all its slots.
AllGot ==
  \A s \in Ranks : Alive(s) => \A i \in completed[s] : Incoming(s, i) \subseteq GotOf(s, i)

\* A rank that others have overtaken has nothing left to send to them.
SendsTo(f, i, s) == \E k \in Remote(f, i) : PlanOf(f).code[i].destinations[k].rank = s
Overtaken ==
  \A f, s \in Ranks :
    /\ runs[s] <= runs[f] + 1
    /\ runs[s] > runs[f] /\ runs[f] > 0 /\ Alive(f) =>
         \A i \in Comms(PlanOf(f)) : SendsTo(f, i, s) => i \in Posted(f)

\* Message m is slot k of communication i of the plan of its receiver s, with the
\* right contents, and has not been received before.
DueAs(m, s, i, k) ==
  LET p == PlanOf(s) IN
  /\ k \in DOMAIN p.code[i].outputs /\ k \in 1 .. 32 /\ p.code[i].destinations[k].rank = s
  /\ m.tag = Tag(p.code[i].id, k, m.part)
  /\ OnePlan(s) => m.data = Origin(p)[p.code[i].outputs[k]]
  /\ k \notin GotOf(s, i)
  /\ m.part = Header => ~Reached(s, i, k)

Due(m) ==
  LET s == m.to IN
  /\ m.run = runs[s]
  /\ Alive(s) =>
       /\ Counted(s) /\ m.group \in Comms(PlanOf(s))
       /\ PlanOf(s).code[m.group].sources[1].rank = m.from
       /\ \E k \in 1 .. 32 : DueAs(m, s, m.group, k)

\* What the handles hold is right.
InboxRight ==
  \A s \in Ranks : Alive(s) =>
    \A e \in inbox[s] :
      /\ e.slot \in DOMAIN PlanOf(s).code[e.group].outputs
      /\ OnePlan(s) =>
           e.data = Origin(PlanOf(s))[PlanOf(s).code[e.group].outputs[e.slot]]

FlowInv ==
  /\ MpiInv
  /\ SlotsFit /\ SentFirst /\ AllGot /\ Overtaken
  /\ \A m \in wire : Due(m)
  /\ NoTagClash
  /\ InboxRight
  /\ \A r \in Ranks : RightValues(r)

\* Ranks that meet in a run past preflight have the same call.
LEMMA SamePlan ==
  ASSUME MpiInv, OnePlanIfSkipped, NEW r \in Ranks, NEW s \in Ranks,
         PastPreflight(r), runs[s] = runs[r]
  PROVE  PlanOf(s) = PlanOf(r) /\ arg[s].skip = arg[r].skip
<1>1. arg[s].skip = arg[r].skip /\ (arg[r].skip \/ arg[s].plan = arg[r].plan)
  BY AlignedRuns DEF RunsAligned
<1>2. arg[r] \in Args[r] /\ arg[s] \in Args[s]
  BY DEF MpiInv, RuntimeInv, IInv, ArgsOK
<1>3. arg[r].skip => arg[s].plan = arg[r].plan
  BY ZenonT(30), <1>1, <1>2 DEF OnePlanIfSkipped
<1> QED
  BY <1>1, <1>3 DEF PlanOf

\* A slot that a rank receives comes from another rank and is sent to it there.
LEMMA IncomingIs ==
  ASSUME NEW p, PlanOK(p), NEW s, PlanOf(s) = p, NEW i \in Comms(p), NEW k
  PROVE  /\ k \in Incoming(s, i) =>
              /\ k \in DOMAIN p.code[i].outputs /\ k \in Nat \ {0}
              /\ p.code[i].destinations[k].rank = s
              /\ p.code[i].sources[1].rank # s
         /\ (/\ k \in DOMAIN p.code[i].outputs
             /\ p.code[i].destinations[k].rank = s
             /\ p.code[i].sources[1].rank # s) => k \in Incoming(s, i)
<1>1. p.code[i].op = "Comm" /\ \A l \in DOMAIN p.code[i].outputs : l \in Nat \ {0}
  BY CommShape
<1>2. \A l : OutPlace(p, i, l) = p.code[i].destinations[l]
  BY <1>1 DEF OutPlace
<1>3. LocalOuts(p, i, s) = {l \in DOMAIN p.code[i].outputs : p.code[i].destinations[l].rank = s}
  BY <1>2 DEF LocalOuts
<1>4. Incoming(s, i) = IF p.code[i].sources[1].rank = s THEN {} ELSE LocalOuts(p, i, s)
  BY DEF Incoming, Copied, SourceIsLocal
<1>5. CASE p.code[i].sources[1].rank = s
  BY <1>4, <1>5
<1>6. CASE p.code[i].sources[1].rank # s
  <2>1. k \in Incoming(s, i) <=> k \in DOMAIN p.code[i].outputs /\ p.code[i].destinations[k].rank = s
    BY <1>3, <1>4, <1>6
  <2> QED
    BY <1>1, <1>6, <2>1
<1> QED
  BY <1>5, <1>6

\* A transfer id belongs to one communication of a plan (PlanVerifier).
LEMMA SameTransfer ==
  ASSUME NEW p, PlanOK(p), NEW i \in Comms(p), NEW j \in Comms(p),
         p.code[i].id = p.code[j].id
  PROVE  i = j
<1>1. /\ i \in DOMAIN p.code /\ j \in DOMAIN p.code /\ i \in Nat /\ j \in Nat
      /\ p.code[i].op = "Comm" /\ p.code[j].op = "Comm"
  BY CommShape
<1>2. TransferIdFresh(p, i) /\ TransferIdFresh(p, j)
  BY <1>1, PlanShape DEF InstructionOk, CommOk
<1>3. i >= j /\ j >= i
  BY <1>1, <1>2 DEF TransferIdFresh
<1> QED
  BY <1>1, <1>3

\* The slots receive is posted only once its header came.
LEMMA SlotsAfterHeader ==
  ASSUME MpiInv, NEW r \in Ranks, NEW i \in Comms(PlanOf(r)), NEW k \in Nat \ {0}, Counted(r),
         Receive(r, i, k, Slots) \in posted
  PROVE  /\ InWait(r) /\ Missing(r) # {} /\ Receive(r, i, k, Slots) = SlotsReceive(r)
         /\ HeaderReceive(r) \notin posted
<1>1. PICK recv \in posted : recv = Receive(r, i, k, Slots)
  OBVIOUS
<1>2. recv.to = r /\ Alive(r) /\ PlanOK(PlanOf(r))
  BY <1>1, RankPlan DEF Receive, Counted, Alive, MpiInv, RuntimeInv, IInv
<1>3. ReceiveKnown(recv)
  BY <1>2 DEF MpiInv, PostedOK
<1>4. PlanOf(r).code[i].id \in Nat /\ recv.tag = Tag(PlanOf(r).code[i].id, k, Slots)
  BY <1>1, <1>2, CommShape DEF Receive
<1>5. ASSUME NEW j \in OpenGroups(r), NEW l \in Incoming(r, j), recv = Receive(r, j, l, Header)
      PROVE  FALSE
  <2>1. j \in Comms(PlanOf(r))
    BY DEF OpenGroups, Posted
  <2>2. PlanOf(r).code[j].id \in Nat /\ l \in Nat \ {0}
    BY <1>2, <2>1, CommShape, IncomingIs
  <2>3. recv.tag = Tag(PlanOf(r).code[j].id, l, Header)
    BY <1>5 DEF Receive
  <2> QED
    BY <1>4, <2>2, <2>3, TagParts
<1> QED
  BY <1>1, <1>2, <1>3, <1>5 DEF ReceiveKnown

\* A rank at work in the same run as one past preflight has a verified plan: it
\* is in the collectives of that run or behind them.
LEMMA Joined ==
  ASSUME MpiInv, NEW f \in Ranks, NEW s \in Ranks, PastPreflight(f), runs[s] = runs[f], Alive(s)
  PROVE  Counted(s)
<1>1. PICK at \in [Nat -> Stamps] : InStep(at)
  BY DEF MpiInv, Collected
<1> DEFINE a == Len(gathers[f])
           b == Len(gathers[s])
<1>2. /\ a \in Nat /\ b \in Nat /\ a > 0 /\ at[a].run = runs[f] /\ b >= a /\ runs[s] \in Nat
      /\ runs[s] >= 1
  <2>1. a \in Nat /\ b \in Nat
    BY EntryTyped
  <2>2. a > 0 /\ at[a].run = runs[f] /\ Passed(at, f, a)
    BY <1>1 DEF InStep, Position
  <2>3. b >= a
    BY <2>2 DEF Passed
  <2>4. runs[f] \in 1 .. MaxRuns
    BY RunBegun
  <2>5. runs[s] \in Nat
    BY DEF MpiInv, RuntimeInv, IInv, TypeOK
  <2>6. MaxRuns \in Nat
    BY ConstantsOK
  <2> QED
    BY <2>1, <2>2, <2>3, <2>4, <2>5, <2>6
<1>3. stage[s] # "idle"
  BY <1>1, <1>2 DEF InStep, Position
<1>4. stage[s] # "setup"
  <2>1. SUFFICES ASSUME stage[s] = "setup" PROVE FALSE
    OBVIOUS
  <2>2. gathering[s] = 0
    BY <1>1, <2>1 DEF InStep, Position
  <2>3. (b = 0 /\ runs[s] = 1) \/ (b > 0 /\ runs[s] = at[b].run + 1)
    BY <1>1, <2>1, <2>2 DEF InStep, Position
  <2> DEFINE late == {j \in Nat : j \in a .. b /\ ~(at[j].run >= runs[s])}
  <2>4. late # {}
    <3>1. b > 0 /\ runs[s] = at[b].run + 1
      BY <1>2, <2>3
    <3>3. at[b].run \in Nat
      BY <1>1, <1>2 DEF Stamps
    <3>2. ~(at[b].run >= runs[s])
      BY <1>2, <3>1, <3>3
    <3> QED
      BY <1>2, <3>2
  <2>5. PICK j \in late : \A x \in late : j <= x
    BY <2>4, LeastNat
  <2>6. j \in Nat /\ j \in a .. b /\ ~(at[j].run >= runs[s])
    OBVIOUS
  <2>7. j # a
    BY <1>2, <2>6
  <2>8. j - 1 \in Nat /\ j - 1 \in a .. b /\ j - 1 \in 1 .. b - 1 /\ ~(j <= j - 1)
    BY <1>2, <2>6, <2>7
  <2>9. at[j - 1].run >= runs[s]
    BY <2>5, <2>8
  <2> HIDE DEF late
  <2>10. PICK i \in 1 .. b - 1 : i = j - 1
    BY <2>8
  <2>11. at[i + 1].run = at[i].run \/ at[i + 1].run = at[i].run + 1
    <3>1. Succession(at, s)
      BY <1>1 DEF InStep
    <3>2. at[i + 1] = Stamp(at[i].run, 2) \/ at[i + 1] = Stamp(at[i].run + 1, 1)
      BY <3>1 DEF Succession
    <3> QED
      BY <3>2 DEF Stamp
  <2>12. i + 1 = j /\ at[i].run \in Nat
    BY <1>1, <1>2, <2>6, <2>8, <2>10 DEF Stamps
  <2> QED
    BY <1>2, <2>6, <2>9, <2>10, <2>11, <2>12
<1> QED
  BY <1>3, <1>4 DEF Alive, Counted, MpiInv, RuntimeInv, IInv, TypeOK, Stages

\* A rank in wait had a verified plan before its last step.
LEMMA StageBack ==
  ASSUME MpiInv, NEW r \in Ranks, RankStep(r), ~Restart(r), InWait(r)'
  PROVE  Counted(r)
<1>1. SUFFICES ASSUME ~Counted(r) PROVE FALSE
  OBVIOUS
<1>2. stage[r] \in {"idle", "setup", "aborting", "panic"}
  BY <1>1 DEF Counted, MpiInv, RuntimeInv, IInv, TypeOK, Stages
<1>3. stage'[r] \in {"init", "exec"}
  BY DEF InWait
<1>4. ASSUME NEW w, Throw(r, w) PROVE FALSE
  BY <1>3, <1>4 DEF Throw, MpiInv, RuntimeInv, IInv, TypeOK
<1>5. CASE RuntimeStep(r)
  BY <1>2, <1>3, <1>5, LocalStages DEF MpiInv, PastPreflight
<1>6. CASE GatherSkips(r) \/ CompareSkips(r) \/ ComparePlans(r)
  BY <1>2, <1>6 DEF GatherSkips, CompareSkips, ComparePlans
<1>7. CASE Communicate(r) \/ TakeHeader(r) \/ TakeSlots(r) \/ WaitReturns(r)
  BY <1>2, <1>7 DEF Communicate, TakeHeader, TakeSlots, WaitReturns, Running, InWait
<1>8. CASE Abort(r) \/ Kill(r)
  BY <1>3, <1>8 DEF Abort, Panic, Kill, MpiInv, RuntimeInv, IInv, TypeOK
<1>9. CASE CallThrows(r)
  BY <1>4, <1>9 DEF CallThrows, ApiThrows
<1> QED
  BY <1>5, <1>6, <1>7, <1>8, <1>9 DEF RankStep

\* A slot from another rank gets into the handles by TakeSlots alone.
LEMMA GotStep ==
  ASSUME MpiInv, NEW r \in Ranks, RankStep(r), ~Restart(r),
         NEW i, NEW k \in Incoming(r, i), k \in GotOf(r, i)'
  PROVE  \/ k \in GotOf(r, i)
         \/ TakeSlots(r) /\ i = waiting[r] /\ k = Least(Missing(r))
<1>1. PICK e \in inbox'[r] : e.group = i /\ e.slot = k
  BY DEF GotOf
<1>2. CASE e \in inbox[r]
  BY <1>1, <1>2 DEF GotOf
<1>3. CASE Communicate(r) /\ e \notin inbox[r]
  <2>1. PICK l \in Copied(r, pc[r]) :
          e = [group |-> pc[r], slot |-> l, data |-> InEntry(r, 1).data]
    BY <1>1, <1>3 DEF Communicate, MpiInv, TablesOK
  <2>2. k \in Copied(r, i)
    BY <1>1, <2>1
  <2> QED
    BY <2>2 DEF Incoming
<1>4. CASE TakeSlots(r) /\ e \notin inbox[r]
  <2>1. e.group = waiting[r] /\ e.slot = Least(Missing(r))
    BY <1>1, <1>4 DEF TakeSlots, MpiInv, TablesOK
  <2> QED
    BY <1>1, <1>4, <2>1
<1>5. e \in inbox[r] \/ Communicate(r) \/ TakeSlots(r)
  BY <1>1, QuietSteps DEF TakeHeader
<1> QED
  BY <1>2, <1>3, <1>4, <1>5

\* Only the two receives of wait add to what a rank has reached of others.
LEMMA ReachedStep ==
  ASSUME MpiInv, NEW r \in Ranks, RankStep(r), ~Restart(r), Alive(r)',
         NEW i \in Comms(PlanOf(r)), NEW k \in Incoming(r, i), k \in Nat \ {0}, Reached(r, i, k)'
  PROVE  \/ Reached(r, i, k)
         \/ /\ TakeHeader(r) /\ InWait(r) /\ Missing(r) # {}
            /\ i = waiting[r] /\ k = Least(Missing(r))
<1>1. /\ PlanOf(r)' = PlanOf(r) /\ Alive(r)
      /\ waiting'[r] = waiting[r] \/ RuntimeStep(r) \/ WaitReturns(r)
  BY SameRun
<1>2. CASE k \in GotOf(r, i)'
  BY <1>2, GotStep DEF Reached, TakeSlots
<1>3. CASE /\ InWait(r)' /\ Missing(r)' # {}
           /\ i = waiting'[r] /\ k = Least(Missing(r))' /\ SlotsReceive(r)' \in posted'
  <2>1. SlotsReceive(r)' = Receive(r, i, k, Slots)
    BY <1>1, <1>3 DEF SlotsReceive, Receive
  <2>2. PICK recv \in posted' : recv = Receive(r, i, k, Slots)
    BY <1>3, <2>1
  <2>3. Counted(r)
    BY <1>3, StageBack
  <2>4. ASSUME InWait(r), ~TakeSlots(r)
        PROVE  i = waiting[r] /\ Missing(r)' = Missing(r)
    <3>1. ~RuntimeStep(r)
      BY <2>4, LocalEffect DEF MpiInv
    <3>2. ~WaitReturns(r)
      <4>1. SUFFICES ASSUME WaitReturns(r) PROVE FALSE
        OBVIOUS
      <4>2. waiting' = [waiting EXCEPT ![r] = 0]
        BY <4>1, FinishEffect DEF WaitReturns, MpiInv
      <4>3. waiting'[r] = 0
        BY <4>2 DEF MpiInv, RuntimeInv, IInv, TypeOK
      <4> QED
        BY <1>3, <4>3 DEF InWait
    <3>3. waiting'[r] = waiting[r]
      BY <1>1, <3>1, <3>2
    <3>4. inbox' = inbox
      <4>1. ~Communicate(r)
        BY <2>4, CommunicateEffect DEF InWait
      <4> QED
        BY <2>4, <4>1, QuietSteps DEF TakeHeader
    <3> QED
      BY <1>1, <1>3, <3>3, <3>4 DEF Missing, Incoming, Copied, SourceIsLocal, Got
  <2>5. CASE recv \in posted
    <3>1. InWait(r) /\ Missing(r) # {} /\ recv = SlotsReceive(r)
      BY <2>2, <2>3, <2>5, SlotsAfterHeader
    <3>2. ~TakeSlots(r)
      BY <3>1 DEF TakeSlots
    <3>3. i = waiting[r] /\ Missing(r)' = Missing(r)
      BY <2>4, <3>1, <3>2
    <3>4. k = Least(Missing(r))
      BY <1>3, <3>3
    <3> QED
      BY <2>5, <3>1, <3>3, <3>4 DEF Reached
  <2>6. CASE Communicate(r)
    <3>1. waiting'[r] = 0
      BY <2>6, CommunicateEffect
    <3> QED
      BY <1>3, <3>1 DEF InWait
  <2>7. CASE TakeHeader(r) /\ recv \notin posted
    <3>1. InWait(r) /\ ~TakeSlots(r) /\ Missing(r) # {}
      BY <2>7 DEF TakeHeader, TakeSlots
    <3>2. i = waiting[r] /\ Missing(r)' = Missing(r)
      BY <2>4, <3>1
    <3> QED
      BY <1>3, <2>7, <3>1, <3>2
  <2> QED
    BY <2>5, <2>6, <2>7, PostedStep
<1> QED
  BY <1>2, <1>3 DEF Reached

\* What another process has reached does not grow by a step of this one.
LEMMA OthersReached ==
  ASSUME MpiInv, NEW r \in Ranks, RankStep(r), NEW s \in Ranks, s # r
  PROVE  /\ \A i : GotOf(s, i)' = GotOf(s, i)
         /\ \A i : Incoming(s, i)' = Incoming(s, i)
         /\ \A i, k : Reached(s, i, k)' => Reached(s, i, k)
<1> USE OthersWork
<1>1. \A i : GotOf(s, i)' = GotOf(s, i)
  BY DEF GotOf
<1>2. \A j : Incoming(s, j)' = Incoming(s, j)
  BY DEF Incoming, Copied, SourceIsLocal
<1>3. Missing(s)' = Missing(s) /\ SlotsReceive(s)' = SlotsReceive(s)
  BY ZenonT(30), <1>2 DEF Missing, Got, SlotsReceive, Receive, Incoming, Copied, SourceIsLocal
<1>4. ASSUME InWait(s), Missing(s) # {}, SlotsReceive(s) \in posted' PROVE SlotsReceive(s) \in posted
  <2>1. PICK recv \in posted' : recv = SlotsReceive(s)
    BY <1>4
  <2>2. recv.to = s
    BY <2>1 DEF SlotsReceive, Receive
  <2>3. ~(Communicate(r) /\ recv \in NewReceives(r))
    BY <2>2, NewReceiveIs
  <2>4. ~(TakeHeader(r) /\ recv = SlotsReceive(r))
    BY <2>2 DEF SlotsReceive, Receive
  <2> QED
    BY <2>1, <2>3, <2>4, PostedStep
<1> QED
  BY <1>1, <1>2, <1>3, <1>4 DEF Reached

\* What was sent stays sent, for as long as the receiver is in its run.
LEMMA HasSentStays ==
  ASSUME MpiInv, NEW r \in Ranks, RankStep(r), NEW f \in Ranks, NEW s \in Ranks,
         ~(s = r /\ Restart(r)), NEW i, HasSent(f, s, i)
  PROVE  HasSent(f, s, i)'
<1>1. runs'[s] = runs[s]
  BY OthersWork, SameRun
<1>2. runs'[f] >= runs[f] /\ runs[f] \in Nat /\ runs'[f] \in Nat /\ runs[s] \in Nat
  BY RunsGrow
<1>3. CASE runs[f] > runs[s]
  BY <1>1, <1>2, <1>3 DEF HasSent
<1>4. CASE runs[f] = runs[s] /\ f = r /\ Restart(r)
  <2>1. runs'[f] = runs[f] + 1
    BY <1>4, RestartEffect
  <2> QED
    BY <1>1, <1>2, <1>4, <2>1 DEF HasSent
<1>5. CASE runs[f] = runs[s] /\ ~(f = r /\ Restart(r))
  <2>1. runs'[f] = runs[f]
    BY <1>5, OthersWork, SameRun
  <2>2. Alive(f)' => Alive(f) /\ Posted(f) \subseteq Posted(f)'
    <3>1. CASE f = r
      BY <1>5, <3>1, SameRun, PostedStays
    <3>2. CASE f # r
      BY <3>2, OthersWork
    <3> QED
      BY <3>1, <3>2
  <2>3. Alive(f) => i \in Posted(f)
    BY <1>2, <1>5 DEF HasSent
  <2> QED
    BY <1>1, <1>5, <2>1, <2>2, <2>3 DEF HasSent
<1> QED
  BY <1>3, <1>4, <1>5 DEF HasSent

\* Only posted communications have been reached.
LEMMA ReachedPosted ==
  ASSUME MpiInv, NEW s \in Ranks, Alive(s), NEW i, NEW k, Reached(s, i, k)
  PROVE  i \in Posted(s)
<1>1. CASE k \in GotOf(s, i)
  BY <1>1 DEF GotOf, MpiInv, HandlesOK
<1>2. CASE InWait(s) /\ i = waiting[s]
  BY <1>2, WaitingFor DEF OpenGroups
<1> QED
  BY <1>1, <1>2 DEF Reached

\* A rank inside a run leaves its stages behind only when the run fails.
LEMMA CountedStays ==
  ASSUME MpiInv, NEW r \in Ranks, RankStep(r), ~Restart(r), Counted(r), Alive(r)'
  PROVE  Counted(r)'
<1>1. stage[r] \in {"preflight", "bind", "init", "exec", "sync", "done"}
  BY DEF Counted
<1>2. stage'[r] \notin {"aborting", "panic"} /\ stage \in [Ranks -> Stages]
  BY DEF Alive, MpiInv, RuntimeInv, IInv, TypeOK
<1>3. ASSUME NEW w, Throw(r, w) PROVE FALSE
  BY <1>2, <1>3 DEF Throw
<1>4. CASE RuntimeStep(r)
  BY <1>1, <1>2, <1>4, LocalStages DEF MpiInv, PastPreflight, Counted
<1>5. CASE GatherSkips(r) \/ CompareSkips(r) \/ ComparePlans(r)
  BY <1>1, <1>2, <1>3, <1>5
     DEF GatherSkips, CompareSkips, ComparePlans, LeavePreflight, PreflightReturns, Counted, rtVars
<1>6. CASE Communicate(r)
  BY <1>1, <1>2, <1>6, CommunicateEffect DEF Counted
<1>7. CASE TakeHeader(r) \/ TakeSlots(r)
  BY <1>1, <1>2, <1>3, <1>7 DEF TakeHeader, TakeSlots, Counted, rtVars
<1>8. CASE WaitReturns(r)
  BY <1>1, <1>2, <1>3, <1>8 DEF WaitReturns, FinishGroup, Counted
<1>9. CASE Abort(r) \/ Kill(r) \/ CallThrows(r)
  BY <1>2, <1>3, <1>9 DEF Abort, Panic, Kill, CallThrows, ApiThrows
<1> QED
  BY <1>4, <1>5, <1>6, <1>7, <1>8, <1>9 DEF RankStep

\* The handles of a run only gain outputs.
LEMMA InboxGrows ==
  ASSUME MpiInv, NEW r \in Ranks, RankStep(r), ~Restart(r)
  PROVE  inbox[r] \subseteq inbox'[r]
BY QuietSteps DEF Communicate, TakeHeader, TakeSlots, MpiInv, TablesOK

\* What wait takes is what it waits for: the message sent in this run for that
\* slot (MpiVecApi::wait, matching by tag alone).
LEMMA TakenDue ==
  ASSUME FlowInv, NEW r \in Ranks, InWait(r), Missing(r) # {}, NEW part \in {Header, Slots},
         NEW m \in wire, Matches(m, Receive(r, waiting[r], Least(Missing(r)), part))
  PROVE  /\ m.part = part /\ m.group = waiting[r] /\ m.to = r
         /\ DueAs(m, r, waiting[r], Least(Missing(r)))
         /\ HasSent(PlanOf(r).code[waiting[r]].sources[1].rank, r, waiting[r])
<1> DEFINE p == PlanOf(r)
           w == waiting[r]
           l == Least(Missing(r))
<1>1. /\ MpiInv /\ PlanOK(p) /\ Alive(r) /\ w \in Comms(p) /\ w \in Posted(r)
      /\ l \in Missing(r)
  BY WaitingFor DEF FlowInv, OpenGroups
<1>2. l \in 1 .. 32
  BY <1>1 DEF FlowInv, SlotsFit, Missing
<1>3. /\ m.to = r /\ m.tag = Tag(p.code[w].id, l, part)
      /\ m.from = p.code[w].sources[1].rank
  BY DEF Matches, Receive
<1>4. m.part \in {Header, Slots} /\ m.run <= runs[m.from] /\ SentNow(m) /\ m.from \in Ranks
  BY <1>1 DEF MpiInv, WireOK, MpiTypeOK
<1>5. /\ m.run = runs[r] /\ m.group \in Comms(p)
      /\ \E k \in 1 .. 32 : DueAs(m, r, m.group, k)
  BY <1>1, <1>3 DEF FlowInv, Due
<1>6. PICK k \in 1 .. 32 : DueAs(m, r, m.group, k)
  BY <1>5
<1>7. Tag(p.code[m.group].id, k, m.part) = Tag(p.code[w].id, l, part)
  BY <1>3, <1>6 DEF DueAs
<1>8. m.group = w /\ k = l /\ m.part = part
  <2>1. m.part \in 0 .. 1 /\ part \in 0 .. 1
    BY <1>4 DEF Header, Slots
  <2>2. PICK x \in Nat, y \in Nat, a \in 0 .. 1, b \in 0 .. 1, z \in 1 .. 32 :
          x = p.code[m.group].id /\ y = p.code[w].id /\ a = m.part /\ b = part /\ z = l
    BY <1>1, <1>2, <1>5, <2>1, CommShape
  <2>3. Tag(x, k, a) = Tag(y, z, b)
    BY <1>7, <2>2
  <2>4. x = y /\ k = z /\ a = b
    <3>1. (a = 0 \/ a = 1) /\ (b = 0 \/ b = 1)
      OBVIOUS
    <3>2. x * 64 + (2 * (k - 1) + a) = y * 64 + (2 * (z - 1) + b)
      BY <2>3 DEF Tag, Suffix
    <3> QED
      BY ONLY <3>1, <3>2, x \in Nat, y \in Nat, k \in 1 .. 32, z \in 1 .. 32
  <2> QED
    BY <1>1, <1>5, <2>2, <2>4, SameTransfer
<1>9. runs[m.from] \in Nat /\ runs[r] \in Nat
  BY <1>1, <1>4 DEF MpiInv, RuntimeInv, IInv, TypeOK
<1>10. HasSent(m.from, r, w)
  BY <1>4, <1>5, <1>8, <1>9 DEF HasSent, SentNow
<1> QED
  BY <1>3, <1>6, <1>8, <1>10

\* What a rank sends is due: the receiver is in the same run, with the same plan,
\* and has not had that slot before.
LEMMA NewMessage ==
  ASSUME FlowInv, OnePlanIfSkipped, NEW r \in Ranks, Communicate(r), NEW m \in NewSends(r)
  PROVE  Due(m)
<1>1. /\ MpiInv /\ Running(r) /\ ~Blocked(r) /\ Instr(r).op = "Comm"
      /\ PastPreflight(r) /\ Counted(r) /\ Alive(r) /\ PlanOK(PlanOf(r))
      /\ pc[r] \in Comms(PlanOf(r)) /\ pc[r] \in Nat /\ runs[r] \in 1 .. MaxRuns
  BY CommunicateEffect DEF FlowInv
<1>2. PICK s \in Ranks : s = m.to
  BY <1>1, NewSendIs
<1>3. /\ m.from = r /\ s # r /\ m.part \in {Header, Slots}
      /\ m.run = runs[r] /\ m.group = pc[r]
  BY <1>1, <1>2, NewSendIs
<1>4. PICK k \in Remote(r, pc[r]) :
        /\ m = Message(r, pc[r], k, m.part, InEntry(r, 1).data)
        /\ m.tag = Tag(PlanOf(r).code[pc[r]].id, k, m.part)
        /\ k \in 1 .. 32
        /\ s = PlanOf(r).code[pc[r]].destinations[k].rank
  BY <1>1, <1>2, NewSendIs
<1>5. SourceIsLocal(r, pc[r]) /\ k \in DOMAIN PlanOf(r).code[pc[r]].outputs
  BY <1>4 DEF Remote
<1>6. pc[r] \notin Posted(r)
  BY <1>1 DEF Posted
<1>7. runs[s] = runs[r]
  <2>1. runs[s] >= runs[r]
    BY <1>1, AlignedRuns DEF RunsAligned
  <2>2. runs[s] \in Nat /\ runs[r] \in Nat /\ MaxRuns \in Nat
    BY <1>1, ConstantsOK DEF MpiInv, RuntimeInv, IInv, TypeOK
  <2>3. SendsTo(r, pc[r], s)
    BY <1>4 DEF SendsTo
  <2>4. ~(runs[s] > runs[r])
    BY <1>1, <1>6, <2>2, <2>3 DEF FlowInv, Overtaken
  <2> QED
    BY <2>1, <2>2, <2>4
<1>8. PlanOf(s) = PlanOf(r) /\ arg[s].skip = arg[r].skip
  BY <1>1, <1>7, SamePlan
<1>9. ASSUME OnePlan(r)
      PROVE  m.data = Origin(PlanOf(r))[PlanOf(r).code[pc[r]].outputs[k]]
  <2>1. m.data = InEntry(r, 1).data
    BY <1>4 DEF Message
  <2>2. InEntry(r, 1).state = "Ready" /\ Instr(r).inputs[1] \in ValueIds
    BY <1>1, <1>5, SourceReady DEF MpiInv
  <2>3. Bound(r) /\ RightValues(r)
    BY <1>1 DEF Bound, Running, FlowInv
  <2>4. m.data = Origin(PlanOf(r))[Instr(r).inputs[1]]
    BY <1>9, <2>1, <2>2, <2>3 DEF RightValues, InEntry
  <2> QED
    BY <1>1, <1>5, <2>4, OriginOf DEF Instr
<1>10. ASSUME Alive(s) PROVE ~Reached(s, pc[r], k)
  <2>1. SUFFICES ASSUME Reached(s, pc[r], k) PROVE FALSE
    OBVIOUS
  <2>2. pc[r] \in Posted(s)
    BY <1>1, <1>10, <2>1, ReachedPosted
  <2>3. k \in Incoming(s, pc[r])
    <3>1. /\ k \in DOMAIN PlanOf(s).code[pc[r]].outputs
          /\ PlanOf(s).code[pc[r]].destinations[k].rank = s
          /\ PlanOf(s).code[pc[r]].sources[1].rank # s
      BY <1>3, <1>4, <1>5, <1>8 DEF SourceIsLocal
    <3>2. PlanOK(PlanOf(s)) /\ pc[r] \in Comms(PlanOf(s))
      BY <1>1, <1>8
    <3> QED
      BY <3>1, <3>2, IncomingIs
  <2>4. HasSent(PlanOf(s).code[pc[r]].sources[1].rank, s, pc[r])
    <3>1. Counted(s)
      BY <1>1, <1>7, <1>10, Joined
    <3> QED
      BY <2>1, <2>2, <2>3, <3>1 DEF FlowInv, SentFirst
  <2>5. HasSent(r, s, pc[r])
    BY <1>5, <1>8, <2>4 DEF SourceIsLocal
  <2> QED
    BY <1>1, <1>6, <1>7, <2>5, ConstantsOK DEF HasSent
<1>11. ASSUME Alive(s) PROVE DueAs(m, s, pc[r], k)
  <2>1. k \notin GotOf(s, pc[r])
    BY <1>10, <1>11 DEF Reached
  <2> QED
    BY <1>4, <1>5, <1>8, <1>9, <1>10, <1>11, <2>1 DEF DueAs, OnePlan
<1>12. ASSUME Alive(s) PROVE Counted(s)
  BY <1>1, <1>7, <1>12, Joined
<1> QED
  BY <1>1, <1>2, <1>3, <1>4, <1>5, <1>7, <1>8, <1>11, <1>12 DEF Due, SourceIsLocal

-----------------------------------------------------------------------------

\* A rank gets into the stages of a verified plan from setup only.
LEMMA CountedBack ==
  ASSUME MpiInv, NEW r \in Ranks, RankStep(r), ~Restart(r), Counted(r)'
  PROVE  /\ Alive(r) /\ Alive(r)'
         /\ Counted(r) \/ (Posted(r) = {} /\ ~InWait(r))
<1>1. Alive(r)'
  BY DEF Counted, Alive
<1>2. Alive(r)
  BY <1>1, SameRun
<1>3. ASSUME stage[r] = "idle" PROVE FALSE
  <2>1. ~RuntimeStep(r)
    BY <1>3, LocalEffect DEF MpiInv
  <2>2. ~(GatherSkips(r) \/ CompareSkips(r) \/ ComparePlans(r))
    BY <1>3 DEF GatherSkips, CompareSkips, ComparePlans
  <2>3. ~(Communicate(r) \/ TakeHeader(r) \/ TakeSlots(r) \/ WaitReturns(r))
    BY <1>3 DEF Communicate, TakeHeader, TakeSlots, WaitReturns, Running, InWait
  <2>4. ~(Abort(r) \/ CallThrows(r))
    BY <1>3 DEF Abort, Panic, CallThrows, ApiThrows, CallsApi, Running, InWait
  <2>5. ~Kill(r)
    BY <1>1 DEF Kill, Alive, MpiInv, RuntimeInv, IInv, TypeOK
  <2> QED
    BY <2>1, <2>2, <2>3, <2>4, <2>5 DEF RankStep
<1>4. ASSUME stage[r] = "setup" PROVE Posted(r) = {} /\ ~InWait(r)
  <2>1. pc[r] = 1
    BY <1>4 DEF MpiInv, RuntimeInv, StoreInv, RankOK, Untouched
  <2>2. \A i \in Comms(PlanOf(r)) : i \in Nat /\ i # 0
    <3>1. IsPlan(PlanOf(r), ValueIds)
      BY PlanOfTyped DEF MpiInv, RuntimeInv, IInv
    <3> QED
      BY <3>1 DEF IsPlan, Comms
  <2> QED
    BY <1>4, <2>1, <2>2 DEF Posted, InWait
<1> QED
  BY <1>1, <1>2, <1>3, <1>4 DEF Alive, Counted, MpiInv, RuntimeInv, IInv, TypeOK, Stages

-----------------------------------------------------------------------------
\* What is received was sent in this run, after every step.
LEMMA SentFirstKept ==
  ASSUME FlowInv, NEW r \in Ranks, RankStep(r)
  PROVE  SentFirst'
<1>1. SUFFICES ASSUME NEW s \in Ranks, Counted(s)', NEW i, i \in Posted(s)',
                      NEW k, k \in Incoming(s, i)', Reached(s, i, k)',
                      NEW f, f = (PlanOf(s).code[i].sources[1].rank)'
               PROVE  HasSent(f, s, i)'
  BY DEF SentFirst
<1>2. MpiInv
  BY DEF FlowInv
<1>3. ASSUME Counted(s), Reached(s, i, k), k \in Incoming(s, i), PlanOf(s)' = PlanOf(s),
             ~(s = r /\ Restart(r))
      PROVE  HasSent(f, s, i)'
  <2>1. Alive(s)
    BY <1>3 DEF Counted, Alive
  <2>2. i \in Posted(s)
    BY <1>2, <1>3, <2>1, ReachedPosted
  <2>3. HasSent(PlanOf(s).code[i].sources[1].rank, s, i)
    BY <1>3, <2>2 DEF FlowInv, SentFirst
  <2>4. f = PlanOf(s).code[i].sources[1].rank
    BY <1>1, <1>3
  <2>5. f \in Ranks
    BY <1>2, <1>3, <2>2, <2>4, PlacesAreRanks DEF MpiInv, Posted
  <2>6. HasSent(f, s, i)
    BY <2>3, <2>4
  <2> QED
    BY <1>2, <1>3, <2>5, <2>6, HasSentStays
<1>4. CASE s # r
  <2>1. Counted(s)
    BY <1>1, <1>2, <1>4, OthersWork DEF Counted
  <2>2. Reached(s, i, k) /\ k \in Incoming(s, i) /\ PlanOf(s)' = PlanOf(s)
    BY <1>1, <1>2, <1>4, OthersWork, OthersReached
  <2> QED
    BY <1>3, <1>4, <2>1, <2>2
<1>5. CASE s = r /\ Restart(r)
  BY <1>1, <1>2, <1>5, RestartEffect
<1>6. CASE s = r /\ ~Restart(r)
  <2>1. /\ Alive(r) /\ Alive(r)' /\ PlanOf(r)' = PlanOf(r)
        /\ Counted(r) \/ (Posted(r) = {} /\ ~InWait(r))
    BY <1>1, <1>2, <1>6, CountedBack, SameRun
  <2>2. i \in Comms(PlanOf(r))
    BY <1>1, <1>6, <2>1 DEF Posted
  <2>3. k \in Incoming(r, i)
    BY <1>1, <1>6, <2>1 DEF Incoming, Copied, SourceIsLocal
  <2>4. PlanOK(PlanOf(r))
    <3>1. ArgsOK'
      BY <1>2, RuntimesKept DEF MpiNext, RuntimeInv, IInv
    <3>2. arg'[r] \in Args[r] /\ Verified(PlanOf(r))'
      BY <1>1, <1>6, <3>1 DEF ArgsOK, Accepted
    <3>3. Verified(PlanOf(r))
      BY <2>1, <3>2
    <3> QED
      BY <1>2, <3>3, PlanOfTyped DEF PlanOK, MpiInv, RuntimeInv, IInv
  <2>5. k \in Nat \ {0}
    BY <2>2, <2>3, <2>4, IncomingIs
  <2>6. CASE Reached(r, i, k)
    <3>1. i \in Posted(r)
      BY <1>2, <2>1, <2>6, ReachedPosted
    <3>2. Counted(r)
      BY <2>1, <3>1
    <3> QED
      BY <1>3, <1>6, <2>1, <2>3, <2>6, <3>2
  <2>7. CASE /\ TakeHeader(r) /\ InWait(r) /\ Missing(r) # {}
             /\ i = waiting[r] /\ k = Least(Missing(r))
    <3>1. PICK m \in wire : Matches(m, HeaderReceive(r))
      BY <1>2, <2>7, TakenIs DEF TakeHeader
    <3>2. HasSent(PlanOf(r).code[waiting[r]].sources[1].rank, r, waiting[r])
      BY <2>7, <3>1, TakenDue DEF HeaderReceive
    <3>3. f = PlanOf(r).code[i].sources[1].rank
      BY <1>1, <1>6, <2>1
    <3>4. f \in Ranks
      BY <1>2, <2>7, <3>3, WaitingFor, PlacesAreRanks DEF MpiInv
    <3>5. HasSent(f, r, i)
      BY <2>7, <3>2, <3>3
    <3> QED
      BY <1>2, <1>6, <3>4, <3>5, HasSentStays
  <2> QED
    BY <1>1, <1>2, <1>6, <2>1, <2>2, <2>3, <2>5, <2>6, <2>7, ReachedStep
<1> QED
  BY <1>4, <1>5, <1>6

\* The slots of what a rank posts have tags of their own.
LEMMA SlotsFitKept ==
  ASSUME FlowInv, NEW r \in Ranks, RankStep(r)
  PROVE  SlotsFit'
<1>1. SUFFICES ASSUME NEW s \in Ranks, Alive(s)', NEW i, i \in Posted(s)', NEW k, k \in Incoming(s, i)'
               PROVE  k \in 1 .. 32
  BY DEF SlotsFit
<1>2. MpiInv
  BY DEF FlowInv
<1>3. CASE s # r
  <2>1. Alive(s) /\ i \in Posted(s)
    BY <1>1, <1>2, <1>3, OthersWork
  <2>2. k \in Incoming(s, i)
    BY <1>1, <1>2, <1>3, OthersReached
  <2> QED
    BY <2>1, <2>2 DEF FlowInv, SlotsFit
<1>4. CASE s = r /\ Restart(r)
  BY <1>1, <1>2, <1>4, RestartEffect
<1>5. CASE s = r /\ ~Restart(r)
  <2>1. Alive(r) /\ PlanOf(r)' = PlanOf(r)
    BY <1>1, <1>2, <1>5, SameRun
  <2>2. k \in Incoming(r, i)
    BY <1>1, <1>5, <2>1 DEF Incoming, Copied, SourceIsLocal
  <2>3. CASE i \in Posted(r)
    BY <2>1, <2>2, <2>3 DEF FlowInv, SlotsFit
  <2>4. CASE i \notin Posted(r)
    <3>1. Communicate(r)
      BY <1>1, <1>2, <1>5, <2>4, PostedStays
    <3>2. i = pc[r] /\ ~Misfit(r)
      BY <1>1, <1>2, <1>5, <2>4, <3>1, PostedNow
    <3>3. PlanOK(PlanOf(r)) /\ i \in Comms(PlanOf(r))
      BY <1>2, <3>1, <3>2, CommunicateEffect
    <3>4. PICK id \in Nat, l \in Nat \ {0} : id = PlanOf(r).code[i].id /\ l = k
      BY <2>2, <3>3, CommShape, IncomingIs
    <3>5. TagFits(id, l, Header)
      BY <2>2, <3>2, <3>4 DEF Misfit, Fits, Instr
    <3> QED
      BY <3>4, <3>5 DEF TagFits
  <2> QED
    BY <2>3, <2>4
<1> QED
  BY <1>3, <1>4, <1>5

\* A group is completed when wait has all its slots.
LEMMA AllGotKept ==
  ASSUME FlowInv, NEW r \in Ranks, RankStep(r)
  PROVE  AllGot'
<1>1. SUFFICES ASSUME NEW s \in Ranks, Alive(s)', NEW i, i \in completed'[s], NEW k, k \in Incoming(s, i)'
               PROVE  k \in GotOf(s, i)'
  BY DEF AllGot
<1>2. MpiInv
  BY DEF FlowInv
<1>3. CASE s # r
  <2>1. Alive(s) /\ i \in completed[s]
    BY <1>1, <1>2, <1>3, OthersWork
  <2>2. k \in Incoming(s, i) /\ GotOf(s, i)' = GotOf(s, i)
    BY <1>1, <1>2, <1>3, OthersReached
  <2> QED
    BY <2>1, <2>2 DEF FlowInv, AllGot
<1>4. CASE s = r /\ Restart(r)
  <2>1. completed'[r] = {}
    BY <1>2, <1>4 DEF Restart, Start, MpiInv, RuntimeInv, IInv, TypeOK
  <2> QED
    BY <1>1, <1>4, <2>1
<1>5. CASE s = r /\ ~Restart(r)
  <2>1. Alive(r) /\ PlanOf(r)' = PlanOf(r)
    BY <1>1, <1>2, <1>5, SameRun
  <2>2. k \in Incoming(r, i)
    BY <1>1, <1>5, <2>1 DEF Incoming, Copied, SourceIsLocal
  <2>3. k \in GotOf(r, i)
    <3>1. CASE i \in completed[r]
      BY <2>1, <2>2, <3>1 DEF FlowInv, AllGot
    <3>2. CASE WaitReturns(r) /\ i = waiting[r]
      BY <2>2, <3>2 DEF WaitReturns, Missing, Got, GotOf
    <3> QED
      BY <1>1, <1>2, <1>5, <3>1, <3>2, SameRun
  <2>4. inbox[r] \subseteq inbox'[r]
    BY <1>2, <1>5, InboxGrows
  <2> QED
    BY <1>5, <2>3, <2>4 DEF GotOf
<1> QED
  BY <1>3, <1>4, <1>5

\* A rank that begins another run has what the others were to send it.
LEMMA OvertakenKept ==
  ASSUME FlowInv, OnePlanIfSkipped, NEW r \in Ranks, RankStep(r)
  PROVE  Overtaken'
<1>1. MpiInv
  BY DEF FlowInv
<1>2. \A q \in Ranks : runs[q] \in Nat /\ runs'[q] \in Nat /\ runs'[q] >= runs[q]
  BY <1>1, RunsGrow
<1>3. \A q \in Ranks : q # r \/ ~Restart(r) => runs'[q] = runs[q]
  BY <1>1, OthersWork, SameRun
<1>4. ASSUME Restart(r), NEW f \in Ranks
      PROVE  runs'[r] = runs[r] + 1 /\ runs[r] <= runs[f]
             /\ (stage[r] = "done" \/ runs[r] = 0)
  <2>1. runs'[r] = runs[r] + 1 /\ stage[r] \in {"idle", "done"}
    BY <1>1, <1>4, RestartEffect
  <2>2. stage[r] = "idle" => runs[r] = 0
    <3>1. PICK at \in [Nat -> Stamps] : InStep(at)
      BY <1>1 DEF MpiInv, Collected
    <3> QED
      BY <3>1 DEF InStep, Position
  <2>3. stage[r] = "done" => runs[f] >= runs[r]
    BY <1>1, AlignedRuns DEF RunsAligned, PastPreflight
  <2> QED
    BY <1>2, <2>1, <2>2, <2>3
<1>5. ASSUME NEW f \in Ranks, NEW s \in Ranks PROVE runs'[s] <= runs'[f] + 1
  <2>1. runs[s] <= runs[f] + 1
    BY DEF FlowInv, Overtaken
  <2>2. CASE s = r /\ Restart(r)
    BY <1>2, <1>4, <2>2
  <2>3. CASE ~(s = r /\ Restart(r))
    <3>1. runs'[s] = runs[s]
      BY <1>3, <2>3
    <3> QED
      BY <1>2, <2>1, <3>1
  <2> QED
    BY <2>2, <2>3
<1>6. ASSUME NEW f \in Ranks, NEW s \in Ranks, runs'[s] > runs'[f], runs'[f] > 0, Alive(f)',
             NEW i, i \in Comms(PlanOf(f))', SendsTo(f, i, s)'
      PROVE  i \in Posted(f)'
  <2>1. ~(f = r /\ Restart(r))
    <3>1. SUFFICES ASSUME f = r, Restart(r) PROVE FALSE
      OBVIOUS
    <3>2. s # r
      BY <1>2, <1>6, <3>1
    <3>3. runs'[f] = runs[f] + 1 /\ runs'[s] = runs[s] /\ runs[s] <= runs[f] + 1
      BY <1>3, <1>4, <3>1, <3>2 DEF FlowInv, Overtaken
    <3> QED
      BY <1>2, <1>6, <3>3
  <2>2. /\ Alive(f) /\ PlanOf(f)' = PlanOf(f) /\ Posted(f) \subseteq Posted(f)'
        /\ runs'[f] = runs[f]
    <3>1. CASE f = r
      BY <1>1, <1>6, <2>1, <3>1, SameRun, PostedStays
    <3>2. CASE f # r
      BY <1>1, <1>6, <3>2, OthersWork
    <3> QED
      BY <3>1, <3>2
  <2>3. i \in Comms(PlanOf(f)) /\ SendsTo(f, i, s)
    BY <1>6, <2>2 DEF SendsTo, Remote, SourceIsLocal
  <2>4. CASE ~(s = r /\ Restart(r))
    <3>1. runs'[s] = runs[s]
      BY <1>3, <2>4
    <3>2. i \in Posted(f)
      BY <1>6, <2>2, <2>3, <3>1 DEF FlowInv, Overtaken
    <3> QED
      BY <2>2, <3>2
  <2>5. CASE s = r /\ Restart(r)
    <3>1. runs'[r] = runs[r] + 1 /\ runs[r] <= runs[f] /\ (stage[r] = "done" \/ runs[r] = 0)
      BY <1>4, <2>5
    <3>2. runs[f] = runs[r] /\ stage[r] = "done"
      BY <1>2, <1>6, <2>2, <2>5, <3>1
    <3>3. PastPreflight(r) /\ Counted(r) /\ Alive(r)
      BY <3>2 DEF PastPreflight, Counted, Alive
    <3>4. PlanOf(f) = PlanOf(r)
      BY <1>1, <3>2, <3>3, SamePlan
    <3>5. PlanOK(PlanOf(r))
      BY <1>1, <3>3, RankPlan DEF MpiInv, RuntimeInv, IInv
    <3>6. PICK k \in Remote(f, i) : PlanOf(f).code[i].destinations[k].rank = r
      BY <2>3, <2>5 DEF SendsTo
    <3>7. k \in Incoming(r, i) /\ PlanOf(r).code[i].sources[1].rank = f
      BY <2>3, <3>4, <3>5, <3>6, IncomingIs DEF Remote, SourceIsLocal
    <3>8. completed[r] = Comms(PlanOf(r))
      BY <1>1, <3>2, ArtifactHolds DEF MpiInv, RuntimeInv, StoreInv, RankOK, ArtifactComplete
    <3>9. Reached(r, i, k)
      BY <2>3, <3>3, <3>4, <3>7, <3>8 DEF FlowInv, AllGot, Reached
    <3>10. i \in Posted(r)
      BY <1>1, <3>3, <3>9, ReachedPosted
    <3>11. HasSent(f, r, i)
      BY <3>3, <3>7, <3>9, <3>10 DEF FlowInv, SentFirst
    <3>12. i \in Posted(f)
      BY <1>2, <2>2, <3>2, <3>11 DEF HasSent
    <3> QED
      BY <2>2, <3>12
  <2> QED
    BY <2>4, <2>5
<1> QED
  BY <1>5, <1>6 DEF Overtaken

\* A new message has a tag of its own (MpiVecApi::tag, the transfer ids of a plan).
LEMMA NewTag ==
  ASSUME FlowInv, OnePlanIfSkipped, NEW r \in Ranks, Communicate(r), NEW m \in NewSends(r),
         NEW n, n \in wire \/ n \in NewSends(r),
         m.from = n.from, m.to = n.to, m.tag = n.tag
  PROVE  m = n
<1> DEFINE p == PlanOf(r)
<1>1. /\ MpiInv /\ PlanOK(p) /\ Alive(r)
      /\ pc[r] \in Comms(p) /\ pc[r] \in Nat
  BY CommunicateEffect DEF FlowInv
<1>2. /\ m.from = r /\ m.to \in Ranks /\ m.run = runs[r] /\ m.group = pc[r]
      /\ m.part \in {Header, Slots}
  BY <1>1, NewSendIs
<1>3. PICK k \in Remote(r, pc[r]) :
        /\ m = Message(r, pc[r], k, m.part, InEntry(r, 1).data)
        /\ m.tag = Tag(p.code[pc[r]].id, k, m.part) /\ k \in 1 .. 32
  BY <1>1, NewSendIs
<1>4. /\ n.group \in Comms(p) /\ n.part \in {Header, Slots}
      /\ n \notin NewSends(r) => n.group \in Posted(r)
      /\ \E l \in 1 .. 32 : /\ n.tag = Tag(p.code[n.group].id, l, n.part)
                            /\ n \in NewSends(r) =>
                                 n = Message(r, pc[r], l, n.part, InEntry(r, 1).data)
  <2>1. CASE n \in NewSends(r)
    <3>1. n.group = pc[r] /\ n.part \in {Header, Slots}
      BY <1>1, <2>1, NewSendIs
    <3>2. \E l \in 1 .. 32 : /\ n.tag = Tag(p.code[pc[r]].id, l, n.part)
                             /\ n = Message(r, pc[r], l, n.part, InEntry(r, 1).data)
      BY <1>1, <2>1, NewSendIs
    <3> QED
      BY <1>1, <2>1, <3>1, <3>2
  <2>2. CASE n \in wire /\ n \notin NewSends(r)
    <3>1. n.from = r /\ n.part \in {Header, Slots} /\ SentNow(n)
      BY <1>1, <1>2, <2>2 DEF MpiInv, WireOK
    <3>2. Due(m) /\ Due(n)
      BY <2>2, NewMessage DEF FlowInv
    <3>3. n.run = runs[r]
      BY <1>2, <3>2 DEF Due
    <3>4. n.group \in Posted(r) /\ \E l \in 1 .. 32 : n.tag = Tag(p.code[n.group].id, l, n.part)
      BY <1>1, <3>1, <3>3 DEF SentNow
    <3> QED
      BY <2>2, <3>1, <3>4 DEF Posted
  <2> QED
    BY <2>1, <2>2
<1>5. PICK l \in 1 .. 32 : /\ n.tag = Tag(p.code[n.group].id, l, n.part)
                           /\ n \in NewSends(r) =>
                                n = Message(r, pc[r], l, n.part, InEntry(r, 1).data)
  BY <1>4
<1>6. n.group = pc[r] /\ l = k /\ n.part = m.part
  <2>1. m.part \in 0 .. 1 /\ n.part \in 0 .. 1
    BY <1>2, <1>4 DEF Header, Slots
  <2>2. PICK x \in Nat, y \in Nat, a \in 0 .. 1, b \in 0 .. 1 :
          x = p.code[pc[r]].id /\ y = p.code[n.group].id /\ a = m.part /\ b = n.part
    BY <1>1, <1>4, <2>1, CommShape
  <2>3. Tag(x, k, a) = Tag(y, l, b)
    BY <1>3, <1>5, <2>2
  <2>4. x = y /\ k = l /\ a = b
    <3>1. (a = 0 \/ a = 1) /\ (b = 0 \/ b = 1)
      OBVIOUS
    <3>2. x * 64 + (2 * (k - 1) + a) = y * 64 + (2 * (l - 1) + b)
      BY <2>3 DEF Tag, Suffix
    <3>3. k \in 1 .. 32
      BY <1>3
    <3> QED
      BY ONLY <3>1, <3>2, <3>3, x \in Nat, y \in Nat, l \in 1 .. 32
  <2> QED
    BY <1>1, <1>4, <2>2, <2>4, SameTransfer
<1>7. n \in NewSends(r)
  BY <1>1, <1>4, <1>6 DEF Posted
<1> QED
  BY <1>3, <1>5, <1>6, <1>7

\* No step brings two messages with the same tag under way.
LEMMA NoClashKept ==
  ASSUME FlowInv, OnePlanIfSkipped, NEW r \in Ranks, RankStep(r)
  PROVE  NoTagClash'
<1>1. SUFFICES ASSUME NEW m \in wire', NEW n \in wire', m.from = n.from, m.to = n.to, m.tag = n.tag
               PROVE  m = n
  BY DEF NoTagClash
<1>2. CASE m \in wire /\ n \in wire
  BY <1>1, <1>2 DEF FlowInv, NoTagClash
<1>3. CASE Communicate(r) /\ m \in NewSends(r)
  BY <1>1, <1>3, NewTag, WireStep
<1>4. CASE Communicate(r) /\ n \in NewSends(r)
  BY <1>1, <1>4, NewTag, WireStep
<1> QED
  BY <1>2, <1>3, <1>4, WireStep

\* What is due to another rank stays due.
LEMMA DueElsewhere ==
  ASSUME MpiInv, NEW r \in Ranks, RankStep(r), NEW m, m.to \in Ranks, m.to # r, Due(m)
  PROVE  Due(m)'
<1>1. PICK s \in Ranks : s = m.to
  OBVIOUS
<1>2. /\ arg'[s] = arg[s] /\ runs'[s] = runs[s] /\ PlanOf(s)' = PlanOf(s)
      /\ (Alive(s)' <=> Alive(s)) /\ (Counted(s)' <=> Counted(s))
  BY <1>1, OthersWork DEF Counted
<1>3. /\ \A i : GotOf(s, i)' = GotOf(s, i)
      /\ \A i, k : Reached(s, i, k)' => Reached(s, i, k)
  BY <1>1, OthersReached
<1>4. ASSUME NEW i, NEW k, DueAs(m, s, i, k) PROVE DueAs(m, s, i, k)'
  BY <1>2, <1>3, <1>4 DEF DueAs, OnePlan
<1>5. m.run = runs'[s]
  BY <1>1, <1>2 DEF Due
<1>6. ASSUME Alive(s)'
      PROVE  /\ Counted(s)' /\ m.group \in Comms(PlanOf(s))'
             /\ PlanOf(s).code[m.group].sources[1].rank = m.from
             /\ \E k \in 1 .. 32 : DueAs(m, s, m.group, k)'
  BY <1>1, <1>2, <1>4, <1>6 DEF Due
<1> QED
  BY <1>1, <1>2, <1>5, <1>6 DEF Due

\* A slot that is due has not been received, and the receiver waits for it.
LEMMA DueIncoming ==
  ASSUME FlowInv, NEW m \in wire, NEW s \in Ranks, s = m.to, Alive(s), NEW k \in 1 .. 32,
         DueAs(m, s, m.group, k)
  PROVE  k \in Incoming(s, m.group) /\ k \in Nat \ {0} /\ PlanOK(PlanOf(s))
<1>1. MpiInv /\ m.from # s
  BY DEF FlowInv, MpiInv, WireOK
<1>2. /\ Counted(s) /\ m.group \in Comms(PlanOf(s))
      /\ PlanOf(s).code[m.group].sources[1].rank = m.from
  BY DEF FlowInv, Due
<1>3. PlanOK(PlanOf(s))
  BY <1>1, <1>2, RankPlan DEF MpiInv, RuntimeInv, IInv
<1>4. /\ k \in DOMAIN PlanOf(s).code[m.group].outputs
      /\ PlanOf(s).code[m.group].destinations[k].rank = s
  BY DEF DueAs
<1>5. k \in Incoming(s, m.group)
  BY <1>1, <1>2, <1>3, <1>4, IncomingIs
<1> QED
  BY <1>3, <1>5

\* Nothing is due to a rank that has finished its run.
LEMMA NoneDueWhenDone ==
  ASSUME FlowInv, NEW m \in wire, NEW s \in Ranks, s = m.to, Alive(s)
  PROVE  Counted(s) /\ stage[s] # "done"
<1>1. Counted(s) /\ m.group \in Comms(PlanOf(s)) /\ \E k \in 1 .. 32 : DueAs(m, s, m.group, k)
  BY DEF FlowInv, Due
<1>2. PICK k \in 1 .. 32 : DueAs(m, s, m.group, k)
  BY <1>1
<1>3. k \in Incoming(s, m.group) /\ k \notin GotOf(s, m.group)
  BY <1>2, DueIncoming DEF DueAs
<1>4. stage[s] = "done" => completed[s] = Comms(PlanOf(s))
  BY ArtifactHolds DEF FlowInv, MpiInv, ArtifactComplete
<1> QED
  BY <1>1, <1>3, <1>4 DEF FlowInv, AllGot

\* What is due to a rank stays due until that rank takes it.
LEMMA DueHere ==
  ASSUME FlowInv, NEW r \in Ranks, RankStep(r), NEW m \in wire, m \in wire', m.to = r
  PROVE  Due(m)'
<1>1. MpiInv /\ Due(m)
  BY DEF FlowInv
<1>2. CASE Restart(r)
  <2>1. stage[r] \in {"idle", "done"}
    BY <1>1, <1>2, RestartEffect
  <2>2. Alive(r) /\ (stage[r] = "done" \/ ~Counted(r))
    BY <2>1 DEF Alive, Counted
  <2> QED
    BY <2>2, NoneDueWhenDone
<1>3. CASE ~Restart(r)
  <2>1. runs'[r] = runs[r] /\ arg'[r] = arg[r] /\ PlanOf(r)' = PlanOf(r)
    BY <1>1, <1>3, SameRun
  <2>2. m.run = runs'[r]
    BY <1>1, <2>1 DEF Due
  <2>3. SUFFICES ASSUME Alive(r)'
                 PROVE  /\ Counted(r)' /\ m.group \in Comms(PlanOf(r))'
                        /\ (PlanOf(r).code[m.group].sources[1].rank)' = m.from
                        /\ \E k \in 1 .. 32 : DueAs(m, r, m.group, k)'
    BY <2>2 DEF Due
  <2>4. Alive(r)
    BY <1>1, <1>3, <2>3, SameRun
  <2>5. /\ Counted(r) /\ m.group \in Comms(PlanOf(r))
        /\ PlanOf(r).code[m.group].sources[1].rank = m.from
        /\ \E k \in 1 .. 32 : DueAs(m, r, m.group, k)
    BY <1>1, <2>4 DEF Due
  <2>6. PICK k \in 1 .. 32 : DueAs(m, r, m.group, k)
    BY <2>5
  <2>7. k \in Incoming(r, m.group) /\ k \in Nat \ {0}
    BY <2>4, <2>6, DueIncoming
  <2>8. ASSUME TakeSlots(r), m.group = waiting[r], k = Least(Missing(r)), m.part = Slots
        PROVE  FALSE
    <3>1. Arrivals(SlotsReceive(r)) # {} /\ wire' = wire \ {Earliest(Arrivals(SlotsReceive(r)))}
      BY <2>8 DEF TakeSlots
    <3>2. PICK t \in wire : t = Earliest(Arrivals(SlotsReceive(r))) /\ Matches(t, SlotsReceive(r))
      BY <1>1, <3>1, TakenIs
    <3>3. Matches(m, SlotsReceive(r))
      BY <2>5, <2>6, <2>8 DEF Matches, SlotsReceive, Receive, DueAs
    <3>4. m = t
      BY <3>2, <3>3 DEF FlowInv, NoTagClash, Matches
    <3> QED
      BY <3>1, <3>2, <3>4
  <2>9. ASSUME TakeHeader(r), m.group = waiting[r], k = Least(Missing(r)), m.part = Header
        PROVE  FALSE
    <3>1. Arrivals(HeaderReceive(r)) # {} /\ wire' = wire \ {Earliest(Arrivals(HeaderReceive(r)))}
      BY <2>9 DEF TakeHeader
    <3>2. PICK t \in wire : t = Earliest(Arrivals(HeaderReceive(r))) /\ Matches(t, HeaderReceive(r))
      BY <1>1, <3>1, TakenIs
    <3>3. Matches(m, HeaderReceive(r))
      BY <2>5, <2>6, <2>9 DEF Matches, HeaderReceive, Receive, DueAs
    <3>4. m = t
      BY <3>2, <3>3 DEF FlowInv, NoTagClash, Matches
    <3> QED
      BY <3>1, <3>2, <3>4
  <2>10. m.part \in {Header, Slots}
    BY <1>1 DEF MpiInv, WireOK
  <2>11. m.part = Header => ~Reached(r, m.group, k)'
    BY <1>1, <1>3, <2>3, <2>5, <2>6, <2>7, <2>9, ReachedStep DEF DueAs
  <2>12. k \notin GotOf(r, m.group)'
    <3>1. CASE m.part = Header
      BY <2>11, <3>1 DEF Reached
    <3>2. CASE m.part = Slots
      BY <1>1, <1>3, <2>6, <2>7, <2>8, <3>2, GotStep DEF DueAs
    <3> QED
      BY <2>10, <3>1, <3>2
  <2>13. DueAs(m, r, m.group, k)'
    BY <2>1, <2>6, <2>11, <2>12 DEF DueAs, OnePlan
  <2>14. Counted(r)'
    BY <1>1, <1>3, <2>3, <2>5, CountedStays
  <2> QED
    BY <2>1, <2>5, <2>13, <2>14
<1> QED
  BY <1>2, <1>3

\* Every message under way is due, after every step.
LEMMA DueKept ==
  ASSUME FlowInv, OnePlanIfSkipped, NEW r \in Ranks, RankStep(r), NEW m \in wire'
  PROVE  Due(m)'
<1>1. CASE m \in wire
  <2>1. m.to \in Ranks /\ MpiInv /\ Due(m)
    BY <1>1 DEF FlowInv, MpiInv, MpiTypeOK
  <2> QED
    BY <1>1, <2>1, DueHere, DueElsewhere
<1>2. CASE Communicate(r) /\ m \in NewSends(r)
  <2>1. MpiInv /\ Due(m)
    BY <1>2, NewMessage DEF FlowInv
  <2>2. m.to \in Ranks /\ m.to # r
    BY <1>2, <2>1, NewSendIs
  <2> QED
    BY <2>1, <2>2, DueElsewhere
<1> QED
  BY <1>1, <1>2, WireStep

-----------------------------------------------------------------------------
\* A source keeps for itself what it sends, and what is taken is what was due.
LEMMA InboxKept ==
  ASSUME FlowInv, NEW r \in Ranks, RankStep(r)
  PROVE  InboxRight'
<1>1. SUFFICES ASSUME NEW s \in Ranks, Alive(s)', NEW e \in inbox'[s]
               PROVE  /\ (e.slot \in DOMAIN PlanOf(s).code[e.group].outputs)'
                      /\ OnePlan(s)' =>
                           (e.data = Origin(PlanOf(s))[PlanOf(s).code[e.group].outputs[e.slot]])'
  BY DEF InboxRight
<1>2. MpiInv
  BY DEF FlowInv
<1>3. ASSUME Alive(s), e \in inbox[s], PlanOf(s)' = PlanOf(s), arg'[s] = arg[s]
      PROVE  /\ (e.slot \in DOMAIN PlanOf(s).code[e.group].outputs)'
             /\ OnePlan(s)' =>
                  (e.data = Origin(PlanOf(s))[PlanOf(s).code[e.group].outputs[e.slot]])'
  BY <1>3 DEF FlowInv, InboxRight, OnePlan
<1>4. CASE s # r
  BY <1>1, <1>2, <1>3, <1>4, OthersWork
<1>5. CASE s = r /\ Restart(r)
  BY <1>1, <1>2, <1>5, RestartEffect
<1>6. CASE s = r /\ ~Restart(r)
  <2>1. Alive(r) /\ PlanOf(r)' = PlanOf(r) /\ arg'[r] = arg[r]
    BY <1>1, <1>2, <1>6, SameRun
  <2>2. SUFFICES /\ e.slot \in DOMAIN PlanOf(r).code[e.group].outputs
                 /\ OnePlan(r) =>
                      e.data = Origin(PlanOf(r))[PlanOf(r).code[e.group].outputs[e.slot]]
    BY <1>6, <2>1 DEF OnePlan
  <2>3. CASE e \in inbox[r]
    BY <2>1, <2>3 DEF FlowInv, InboxRight
  <2>4. CASE Communicate(r) /\ e \notin inbox[r]
    <3>1. PICK k \in Copied(r, pc[r]) :
            e = [group |-> pc[r], slot |-> k, data |-> InEntry(r, 1).data]
      BY <1>1, <1>2, <1>6, <2>4 DEF Communicate, MpiInv, TablesOK
    <3>2. /\ Running(r) /\ ~Blocked(r) /\ Instr(r).op = "Comm" /\ PlanOK(PlanOf(r))
          /\ pc[r] \in Comms(PlanOf(r))
      BY <1>2, <2>4, CommunicateEffect
    <3>3. SourceIsLocal(r, pc[r]) /\ k \in DOMAIN PlanOf(r).code[pc[r]].outputs
      BY <3>1 DEF Copied, LocalOuts
    <3>4. ASSUME OnePlan(r)
          PROVE  e.data = Origin(PlanOf(r))[PlanOf(r).code[pc[r]].outputs[k]]
      <4>1. InEntry(r, 1).state = "Ready" /\ Instr(r).inputs[1] \in ValueIds
        BY <1>2, <3>2, <3>3, SourceReady DEF MpiInv
      <4>2. Bound(r) /\ RightValues(r)
        BY <3>2 DEF Bound, Running, FlowInv
      <4>3. e.data = Origin(PlanOf(r))[Instr(r).inputs[1]]
        BY <3>1, <3>4, <4>1, <4>2 DEF RightValues, InEntry
      <4> QED
        BY <3>2, <3>3, <4>3, OriginOf DEF Instr
    <3> QED
      BY <3>1, <3>3, <3>4
  <2>5. CASE TakeSlots(r) /\ e \notin inbox[r]
    <3>1. PICK m \in wire : m = Earliest(Arrivals(SlotsReceive(r))) /\ Matches(m, SlotsReceive(r))
      BY <1>2, <2>5, TakenIs DEF TakeSlots
    <3>2. e.group = waiting[r] /\ e.slot = Least(Missing(r)) /\ e.data = m.data
      BY <1>1, <1>2, <1>6, <2>5, <3>1 DEF TakeSlots, MpiInv, TablesOK
    <3>3. DueAs(m, r, waiting[r], Least(Missing(r)))
      BY <2>5, <3>1, TakenDue DEF TakeSlots, SlotsReceive
    <3> QED
      BY <3>2, <3>3 DEF DueAs
  <2>6. e \in inbox[r] \/ Communicate(r) \/ TakeSlots(r)
    BY <1>1, <1>6, QuietSteps DEF TakeHeader
  <2> QED
    BY <2>3, <2>4, <2>5, <2>6
<1> QED
  BY <1>4, <1>5, <1>6

\* Once nothing is missing, wait hands the right contents to the runtime.
LEMMA ArrivedRight ==
  ASSUME FlowInv, NEW r \in Ranks, InWait(r), Missing(r) = {}, OnePlan(r), NEW k \in GroupOuts(r)
  PROVE  Arrived(r)[GroupOut(r, k)] = Origin(PlanOf(r))[GroupOut(r, k)]
<1>1. MpiInv /\ Alive(r) /\ PlanOK(PlanOf(r)) /\ waiting[r] \in Posted(r) /\ waiting[r] \in Comms(PlanOf(r))
  BY WaitingFor DEF FlowInv, OpenGroups
<1>2. Copied(r, waiting[r]) \subseteq GotOf(r, waiting[r])
  BY <1>1 DEF MpiInv, HandlesOK
<1>3. k \in GotOf(r, waiting[r])
  BY <1>2 DEF Missing, Incoming, Got, GotOf, GroupOuts
<1>4. \E e \in inbox[r] : e.group = waiting[r] /\ GroupOut(r, e.slot) = GroupOut(r, k)
  BY <1>3 DEF GotOf
<1> DEFINE e == CHOOSE e \in inbox[r] : e.group = waiting[r] /\ GroupOut(r, e.slot) = GroupOut(r, k)
<1>5. e \in inbox[r] /\ e.group = waiting[r] /\ GroupOut(r, e.slot) = GroupOut(r, k)
  BY <1>4
<1>6. GroupOut(r, k) \in ValueIds
  <2>1. k \in DOMAIN PlanOf(r).code[waiting[r]].outputs
    BY DEF GroupOuts, LocalOuts
  <2> QED
    BY <1>1, <2>1, OutputsPlaced, CommShape DEF PlanOK, GroupOut
<1>7. Arrived(r)[GroupOut(r, k)] = e.data
  BY <1>6 DEF Arrived
<1>8. e.data = Origin(PlanOf(r))[GroupOut(r, e.slot)]
  BY <1>1, <1>5 DEF FlowInv, InboxRight, GroupOut
<1> QED
  BY <1>5, <1>7, <1>8

\* The stores stay right.
LEMMA RightKept ==
  ASSUME FlowInv, NEW r \in Ranks, RankStep(r), NEW s \in Ranks
  PROVE  RightValues(s)'
<1>1. MpiInv /\ RuntimeInv /\ RightValues(s) /\ RightValues(r)
  BY DEF FlowInv, MpiInv
<1>2. CASE s # r
  <2>1. Same(s) /\ PlanOf(s)' = PlanOf(s)
    BY <1>1, <1>2, RankFrame, OthersWork
  <2> QED
    BY <1>1, <2>1 DEF RightValues, Bound, Same, OnePlan
<1>3. SUFFICES ASSUME s = r PROVE RightValues(r)'
  BY <1>2
<1>4. ASSUME ~Bound(r)' PROVE RightValues(r)'
  BY <1>4 DEF RightValues
<1>5. ASSUME UNCHANGED rtVars PROVE RightValues(r)'
  BY <1>1, <1>5 DEF rtVars, RightValues, Bound, PlanOf, OnePlan
<1>6. ASSUME NEW w, Throw(r, w) PROVE RightValues(r)'
  BY <1>1, <1>4, <1>6 DEF Throw, Bound, RuntimeInv, IInv, TypeOK
<1>7. CASE Restart(r)
  <2>1. stage'[r] \in {"setup", "panic"}
    BY <1>1, <1>7, RestartEffect
  <2> QED
    BY <1>4, <2>1 DEF Bound
<1>8. CASE RuntimeStep(r)
  BY <1>1, <1>8, ValuesKept
<1>9. CASE GatherSkips(r) \/ CompareSkips(r) \/ ComparePlans(r)
  <2>1. CASE PreflightReturns(r)
    BY <1>1, <1>4, <2>1 DEF PreflightReturns, Bound, RuntimeInv, IInv, TypeOK
  <2> QED
    BY <1>5, <1>6, <1>9, <2>1 DEF GatherSkips, CompareSkips, ComparePlans, LeavePreflight
<1>10. CASE Communicate(r)
  BY <1>1, <1>6, <1>10, ValuesKept DEF Communicate
<1>11. CASE TakeHeader(r) \/ TakeSlots(r)
  BY <1>5, <1>6, <1>11 DEF TakeHeader, TakeSlots
<1>12. CASE WaitReturns(r)
  <2>1. InWait(r) /\ Missing(r) = {} /\ FinishGroup(r, Arrived(r))
    BY <1>12 DEF WaitReturns
  <2>2. Arrived(r) \in [ValueIds -> Data]
    BY <1>1, <2>1, ArrivedTyped DEF MpiInv
  <2>3. OnePlan(r) => \A k \in GroupOuts(r) :
          Arrived(r)[GroupOut(r, k)] = Origin(PlanOf(r))[GroupOut(r, k)]
    BY <2>1, ArrivedRight
  <2> QED
    BY <1>1, <2>1, <2>2, <2>3, ValuesKept
<1>13. CASE Abort(r) \/ Kill(r)
  BY <1>1, <1>4, <1>13 DEF Abort, Panic, Kill, Bound, RuntimeInv, IInv, TypeOK
<1>14. CASE CallThrows(r)
  BY <1>6, <1>14 DEF CallThrows, ApiThrows
<1> QED
  BY <1>7, <1>8, <1>9, <1>10, <1>11, <1>12, <1>13, <1>14 DEF RankStep

-----------------------------------------------------------------------------
(***************************************************************************)
(* The invariant and the theorems.                                         *)
(***************************************************************************)
\* Before the first step nothing is under way and nothing is bound.
LEMMA FlowInvInit ==
  ASSUME MpiInit
  PROVE  FlowInv
<1>1. MpiInv
  BY MpiInvInit
<1>2. /\ \A r \in Ranks : runs[r] = 0 /\ stage[r] = "idle" /\ completed[r] = {} /\ pc[r] = 1
      /\ \A r \in Ranks : inbox[r] = {}
      /\ wire = {}
  BY DEF MpiInit, Init
<1>3. \A r \in Ranks : Posted(r) = {}
  <2>1. ASSUME NEW r \in Ranks PROVE \A i \in Comms(PlanOf(r)) : i \in Nat /\ i # 0
    <3>1. IsPlan(PlanOf(r), ValueIds)
      BY <1>1, PlanOfTyped DEF MpiInv, RuntimeInv, IInv
    <3> QED
      BY <3>1 DEF IsPlan, Comms
  <2> QED
    BY <1>2, <2>1 DEF Posted
<1>4. SlotsFit /\ SentFirst
  BY <1>3 DEF SlotsFit, SentFirst
<1>5. AllGot /\ Overtaken
  BY <1>2 DEF AllGot, Overtaken
<1>6. (\A m \in wire : Due(m)) /\ NoTagClash /\ InboxRight
  BY <1>2 DEF NoTagClash, InboxRight
<1>7. \A r \in Ranks : RightValues(r)
  BY <1>2 DEF RightValues, Bound
<1> QED
  BY <1>1, <1>4, <1>5, <1>6, <1>7 DEF FlowInv

\* Every step of the cluster keeps it.
LEMMA FlowInvKept ==
  ASSUME FlowInv, OnePlanIfSkipped, [MpiNext]_vars
  PROVE  FlowInv'
<1>1. MpiInv'
  BY MpiInvKept DEF FlowInv
<1>2. CASE UNCHANGED vars
  <2>1. /\ UNCHANGED <<arg, runs, stage, pc, store, completed, waiting>>
        /\ UNCHANGED <<wire, posted, inbox>>
    BY <1>2 DEF vars, rtVars, mpiVars
  <2>2. \A s : /\ PlanOf(s)' = PlanOf(s) /\ (Alive(s)' <=> Alive(s)) /\ (Counted(s)' <=> Counted(s))
               /\ Posted(s)' = Posted(s) /\ (Bound(s)' <=> Bound(s))
    BY <2>1 DEF PlanOf, Alive, Counted, Posted, Bound
  <2>3. \A s, i : Incoming(s, i)' = Incoming(s, i) /\ GotOf(s, i)' = GotOf(s, i)
    BY <2>1, <2>2 DEF Incoming, Copied, SourceIsLocal, GotOf
  <2>4. \A s, i, k : Reached(s, i, k)' <=> Reached(s, i, k)
    <3>1. ASSUME NEW s PROVE /\ InWait(s)' <=> InWait(s)
                            /\ Missing(s)' = Missing(s)
                            /\ SlotsReceive(s)' = SlotsReceive(s)
      <4>1. InWait(s)' <=> InWait(s)
        BY <2>1 DEF InWait
      <4>2. Missing(s)' = Missing(s)
        BY <2>1, <2>2 DEF Missing, Got, Incoming, Copied, SourceIsLocal
      <4>3. SlotsReceive(s)' = SlotsReceive(s)
        BY <2>1, <2>2, <4>2 DEF SlotsReceive, Receive
      <4> QED
        BY <4>1, <4>2, <4>3
    <3> QED
      BY <2>1, <2>3, <3>1 DEF Reached
  <2>5. SlotsFit'
    BY <2>2, <2>3 DEF FlowInv, SlotsFit
  <2>6. SentFirst'
    BY <2>1, <2>2, <2>3, <2>4 DEF FlowInv, SentFirst, HasSent
  <2>7. AllGot'
    BY <2>1, <2>2, <2>3 DEF FlowInv, AllGot
  <2>8. Overtaken'
    BY <2>1, <2>2 DEF FlowInv, Overtaken, SendsTo, Remote, SourceIsLocal
  <2>9. ASSUME NEW m \in wire' PROVE Due(m)'
    BY <2>1, <2>2, <2>3, <2>4 DEF FlowInv, Due, DueAs, OnePlan
  <2>10. NoTagClash'
    BY <2>1 DEF FlowInv, NoTagClash
  <2>11. InboxRight'
    BY <2>1, <2>2 DEF FlowInv, InboxRight, OnePlan
  <2>12. \A r \in Ranks : RightValues(r)'
    BY <2>1, <2>2 DEF FlowInv, RightValues, OnePlan
  <2> QED
    BY <1>1, <2>5, <2>6, <2>7, <2>8, <2>9, <2>10, <2>11, <2>12 DEF FlowInv
<1>3. CASE \E r \in Ranks : RankStep(r)
  <2>1. PICK r \in Ranks : RankStep(r)
    BY <1>3
  <2>2. SlotsFit' /\ SentFirst' /\ AllGot' /\ Overtaken'
    BY <2>1, SlotsFitKept, SentFirstKept, AllGotKept, OvertakenKept
  <2>3. \A m \in wire' : Due(m)'
    BY <2>1, DueKept
  <2>4. NoTagClash' /\ InboxRight'
    BY <2>1, NoClashKept, InboxKept
  <2>5. \A s \in Ranks : RightValues(s)'
    BY <2>1, RightKept
  <2> QED
    BY <1>1, <2>2, <2>3, <2>4, <2>5 DEF FlowInv
<1> QED
  BY <1>2, <1>3 DEF MpiNext, Terminating

\* Every message is taken in the run it was sent in, when those who skip the
\* digests have the same plan.
THEOREM FlowInvariant == ASSUME OnePlanIfSkipped PROVE MpiSpec => []FlowInv
<1>1. MpiInit => FlowInv
  BY FlowInvInit
<1>2. FlowInv /\ [MpiNext]_vars => FlowInv'
  BY FlowInvKept
<1> QED
  BY <1>1, <1>2, PTL DEF MpiSpec

\* Matching by tag is matching by transfer, slot and part, in whichever run
\* (MpiVecApi::tag, one communicator for all runs).
THEOREM TagsNeverClash == ASSUME OnePlanIfSkipped PROVE MpiSpec => []NoTagClash
<1>1. FlowInv => NoTagClash
  BY DEF FlowInv
<1> QED
  BY <1>1, FlowInvariant, PTL

\* Every ready value holds what the plan says it should, over every schedule,
\* every failure and every number of runs (MpiVecApi, SequentialRuntime::run).
THEOREM MpiValuesAreRight == ASSUME OnePlanIfSkipped PROVE MpiSpec => []CorrectValues
<1>1. FlowInv => CorrectValues
  BY DEF FlowInv, RightValues, CorrectValues, OnePlan
<1> QED
  BY <1>1, FlowInvariant, PTL

-----------------------------------------------------------------------------
(***************************************************************************)
(* The contract of SpmdRun, for one run of the processes.                  *)
(***************************************************************************)
Failing(r) == stage[r] \in {"aborting", "panic"}

\* In its only run a rank enters one collective, or two that none skips; who is
\* past preflight knows that all have entered theirs, with the same call.
OneRun(r) ==
  LET n == Len(gathers[r]) IN
  /\ n > 0 => runs[r] = 1 /\ gathers[r][1] = Brought(r) /\ n <= GathersDue(r)
  /\ stage[r] \in {"idle", "setup"} => n = 0
  /\ stage[r] = "preflight" => n = gathering[r]
  /\ PastPreflight(r) => AllGathered /\ Consistent(BroughtFirst)

\* A failure before the ranks have met keeps a rank from a collective it owes,
\* or ranks that disagree on skipping have brought that to light.
FailedEarly ==
  ~AllGathered /\ (killed \/ \E r \in Ranks : Failing(r)) =>
    \/ \E r \in Ranks : Failing(r) /\ Len(gathers[r]) < GathersDue(r)
    \/ \E r, s \in Ranks : /\ Len(gathers[r]) > 0 /\ Len(gathers[s]) > 0
                           /\ gathers[r][1].skip # gathers[s][1].skip

SpmdInv == FlowInv /\ FailedEarly /\ \A r \in Ranks : OneRun(r)

\* In one run the first collective bears the stamp (1, 1), the second (1, 2).
LEMMA TwoCollectives ==
  ASSUME MpiInv, MaxRuns = 1, NEW at \in [Nat -> Stamps], InStep(at),
         NEW r \in Ranks, Len(gathers[r]) > 0
  PROVE  /\ runs[r] = 1 /\ gathers[r][1] = Brought(r)
         /\ at[1] = Stamp(1, 1)
         /\ \/ Len(gathers[r]) = 1
            \/ /\ Len(gathers[r]) = 2 /\ at[2] = Stamp(1, 2)
               /\ ~arg[r].skip
<1> DEFINE n == Len(gathers[r])
<1>1. n \in Nat /\ 1 \in 1 .. n
  BY EntryTyped
<1>2. runs[r] \in 0 .. 1
  BY DEF MpiInv, RuntimeInv, IInv, TypeOK
<1>3. /\ \A j \in 1 .. n : at[j].run \in 1 .. runs[r] /\ (at[j].run = runs[r] => gathers[r][j] = Brought(r))
      /\ at[1] = Stamp(1, 1)
  BY <1>1 DEF InStep, EntriesKnown, Succession
<1>4. runs[r] = 1 /\ \A j \in 1 .. n : at[j].run = 1 /\ gathers[r][j] = Brought(r)
  BY <1>1, <1>2, <1>3
<1>5. CASE n = 1
  BY <1>1, <1>3, <1>4, <1>5
<1>6. CASE n > 1
  <2>1. 1 \in 1 .. n - 1 /\ 2 \in 1 .. n
    BY <1>1, <1>6
  <2>2. IF at[1].half = 1 /\ ~gathers[r][1].skip
        THEN at[1 + 1] = Stamp(at[1].run, 2)
        ELSE at[1 + 1] = Stamp(at[1].run + 1, 1)
    BY <2>1 DEF InStep, Succession
  <2>3. at[1].half = 1 /\ at[1].run = 1 /\ at[2].run = 1
    BY <1>3, <1>4, <2>1 DEF Stamp
  <2>4. ~gathers[r][1].skip /\ at[2] = Stamp(1, 2)
    BY <2>2, <2>3 DEF Stamp
  <2>5. ~arg[r].skip
    BY <1>1, <1>4, <2>4 DEF Brought
  <2>6. n = 2
    <3> SUFFICES ASSUME n # 2 PROVE FALSE
      OBVIOUS
    <3>0. n > 2
      BY <1>1, <1>6
    <3>1. 2 \in 1 .. n - 1 /\ 3 \in 1 .. n
      BY <1>1, <3>0
    <3>2. IF at[2].half = 1 /\ ~gathers[r][2].skip
          THEN at[2 + 1] = Stamp(at[2].run, 2)
          ELSE at[2 + 1] = Stamp(at[2].run + 1, 1)
      BY <3>1 DEF InStep, Succession
    <3>3. at[3].run = 1
      BY <1>4, <3>1
    <3> QED
      BY <2>4, <3>2, <3>3 DEF Stamp
  <2> QED
    BY <1>1, <1>3, <1>4, <2>4, <2>5, <2>6
<1>7. CASE ~ n > 1
  <2>1. \A m \in Nat : m > 0 /\ ~ m > 1 => m = 1
    OBVIOUS
  <2>2. n = 1
    BY <1>1, <1>7, <2>1
  <2> QED
    BY <1>5, <2>2
<1> QED
  BY <1>6, <1>7

\* That is what the invariant of any number of runs says of one run.
LEMMA InOneRun ==
  ASSUME MpiInv, OnePlanIfSkipped, MaxRuns = 1, NEW r \in Ranks
  PROVE  OneRun(r)
<1> DEFINE n == Len(gathers[r])
<1>1. PICK at \in [Nat -> Stamps] : InStep(at)
  BY DEF MpiInv, Collected
<1>2. n \in Nat /\ gathering[r] \in 0 .. 2 /\ runs[r] \in 0 .. 1
  BY EntryTyped DEF MpiInv, MpiTypeOK, RuntimeInv, IInv, TypeOK
<1>3. ASSUME n > 0
      PROVE  runs[r] = 1 /\ gathers[r][1] = Brought(r) /\ n <= GathersDue(r)
  <2>1. /\ runs[r] = 1 /\ gathers[r][1] = Brought(r)
        /\ n = 1 \/ (n = 2 /\ ~arg[r].skip)
    BY <1>1, <1>3, TwoCollectives
  <2>2. CASE n = 1
    BY <2>1, <2>2 DEF GathersDue
  <2>3. CASE n = 2
    <3>1. GathersDue(r) = 2
      BY <2>1, <2>3 DEF GathersDue
    <3> QED
      BY <2>1, <2>3, <3>1
  <2> QED
    BY <2>1, <2>2, <2>3
<1>4. /\ stage[r] = "idle" => n = 0
      /\ stage[r] \in {"setup", "preflight"} /\ gathering[r] = 0 =>
           n = 0 \/ (n > 0 /\ runs[r] = at[n].run + 1)
      /\ stage[r] = "preflight" /\ gathering[r] # 0 =>
           n > 0 /\ at[n] = Stamp(runs[r], gathering[r])
      /\ PastPreflight(r) => n > 0 /\ Passed(at, r, n)
      /\ stage[r] = "setup" => gathering[r] = 0
  BY <1>1 DEF InStep, Position
<1>5. n > 0 => at[n].run = 1 /\ at[n].half = n /\ n \in {1, 2}
  <2>1. n > 0 => at[1] = Stamp(1, 1) /\ (n = 1 \/ (n = 2 /\ at[2] = Stamp(1, 2)))
    BY <1>1, TwoCollectives
  <2>2. CASE n = 1
    BY <2>1, <2>2 DEF Stamp
  <2>3. CASE n = 2
    BY <2>1, <2>3 DEF Stamp
  <2> QED
    BY <2>1, <2>2, <2>3
<1>6. stage[r] \in {"idle", "setup"} => n = 0
  BY <1>2, <1>3, <1>4, <1>5
<1>7. stage[r] = "preflight" => n = gathering[r]
  BY <1>2, <1>3, <1>4, <1>5 DEF Stamp
<1>8. ASSUME PastPreflight(r)
      PROVE  AllGathered /\ Consistent(BroughtFirst)
  <2>1. n \in {1, 2} /\ Passed(at, r, n) /\ gathers[r][1] = Brought(r) /\ runs[r] = 1
    BY <1>3, <1>4, <1>5, <1>8
  <2>2. \A s \in Ranks : Len(gathers[s]) \in Nat /\ Len(gathers[s]) >= n
    BY <2>1, EntryTyped DEF Passed
  <2>3. \A s \in Ranks : runs[s] = 1 /\ gathers[s][1] = Brought(s)
    BY <1>1, <2>1, <2>2, TwoCollectives
  <2>4. \A s \in Ranks : arg[s].skip = arg[r].skip /\ (arg[r].skip \/ arg[s].plan = arg[r].plan)
    BY <1>8, <2>1, <2>3, AlignedRuns DEF RunsAligned
  <2>5. arg[r].skip \/ n = 2
    <3> SUFFICES ASSUME n = 1 PROVE arg[r].skip
      BY <2>1
    <3>1. gathers[r][1].skip
      BY <1>5, <2>1 DEF Passed
    <3> QED
      BY <2>1, <3>1 DEF Brought
  <2>6. AllGathered
    BY <2>1, <2>2, <2>4, <2>5 DEF AllGathered, GathersDue
  <2>7. ASSUME NEW s \in Ranks PROVE Brought(s) = Brought(r)
    <3>1. arg[r] \in Args[r] /\ arg[s] \in Args[s]
      BY DEF MpiInv, RuntimeInv, IInv, ArgsOK
    <3>2. arg[r].skip /\ arg[s].skip => arg[r].plan = arg[s].plan
      BY ZenonT(30), <3>1 DEF OnePlanIfSkipped
    <3> QED
      BY <2>4, <3>2 DEF Brought
  <2>8. \A s \in Ranks : BroughtFirst[s] = Brought(r)
    BY <2>3, <2>7 DEF BroughtFirst
  <2> QED
    BY <2>6, <2>8 DEF Consistent
<1> QED
  BY <1>3, <1>6, <1>7, <1>8 DEF OneRun

\* What has been gathered stays; a rank adds to it inside preflight only.
LEMMA GathersGrow ==
  ASSUME MpiInv, NEW r \in Ranks, RankStep(r)
  PROVE  /\ \/ UNCHANGED gathers
            \/ stage[r] = "preflight" /\ UNCHANGED rtVars
         /\ \A s \in Ranks : /\ Len(gathers'[s]) >= Len(gathers[s]) /\ Len(gathers[s]) \in Nat
                             /\ Len(gathers'[s]) \in Nat
                             /\ Len(gathers[s]) > 0 => gathers'[s][1] = gathers[s][1]
         /\ \A s \in Ranks : s # r => gathers'[s] = gathers[s]
<1>1. \A s \in Ranks : Len(gathers[s]) \in Nat
  BY EntryTyped
<1>2. CASE UNCHANGED gathers
  BY <1>1, <1>2
<1>3. CASE ~UNCHANGED gathers
  <2>1. GatherSkips(r) \/ CompareSkips(r)
    BY <1>3 DEF RankStep, Restart, ComparePlans, LeavePreflight, Communicate, TakeHeader, TakeSlots,
                WaitReturns, Abort, Kill, CallThrows, mpiVars
  <2>2. stage[r] = "preflight"
    BY <2>1 DEF GatherSkips, CompareSkips
  <2>3. UNCHANGED rtVars /\ (EnterGather(r, 1) \/ EnterGather(r, 2))
    <3>1. CASE GatherSkips(r)
      BY <3>1 DEF GatherSkips, rtVars
    <3>2. CASE CompareSkips(r)
      BY <1>3, <3>2 DEF CompareSkips, LeavePreflight
    <3> QED
      BY <2>1, <3>1, <3>2
  <2>4. /\ Len(gathers'[r]) = Len(gathers[r]) + 1
        /\ \A j \in 1 .. Len(gathers[r]) : gathers'[r][j] = gathers[r][j]
        /\ \A s \in Ranks : s # r => gathers'[s] = gathers[s]
    BY <2>3, Entered
  <2> QED
    BY <1>1, <2>2, <2>3, <2>4
<1> QED
  BY <1>2, <1>3

\* run() has returned, or the process is at its end: it does nothing more.
LEMMA OverForGood ==
  ASSUME MpiInv, MaxRuns = 1, NEW r \in Ranks, RankStep(r)
  PROVE  /\ stage[r] \notin {"done", "panic"}
         /\ Restart(r) => stage[r] = "idle"
<1>1. RuntimeInv /\ runs[r] \in 0 .. MaxRuns
  BY DEF MpiInv, RuntimeInv, IInv, TypeOK
<1>2. stage[r] = "done" => runs[r] = MaxRuns
  <2>1. stage[r] = "done" => runs[r] \in 1 .. MaxRuns
    BY RunBegun DEF PastPreflight
  <2> QED
    BY <1>1, <2>1
<1>3. CASE Restart(r)
  BY <1>1, <1>2, <1>3 DEF Restart, Start
<1>4. CASE ~Restart(r)
  <2>1. CASE RuntimeStep(r)
    BY <1>1, <1>4, <2>1, LocalEffect
  <2>2. CASE Kill(r)
    BY <1>2, <1>4, <2>2 DEF Kill, Over
  <2>3. CASE ~RuntimeStep(r) /\ ~Kill(r)
    BY <1>4, <2>3 DEF RankStep, GatherSkips, CompareSkips, ComparePlans, Communicate, TakeHeader,
       TakeSlots, WaitReturns, Abort, Panic, CallThrows, ApiThrows, CallsApi, Running, InWait
  <2> QED
    BY <2>1, <2>2, <2>3
<1> QED
  BY <1>3, <1>4

\* What a rank owes to the collectives is settled with its call.
LEMMA DueStays ==
  ASSUME MpiInv, MaxRuns = 1, \A q \in Ranks : OneRun(q), NEW r \in Ranks, RankStep(r)
  PROVE  /\ \A s \in Ranks : GathersDue(s)' = GathersDue(s) \/ (Restart(r) /\ s = r)
         /\ Restart(r) => /\ Len(gathers[r]) = 0 /\ UNCHANGED gathers
                          /\ ~AllGathered /\ ~AllGathered'
<1>1. \A s \in Ranks : s # r => arg'[s] = arg[s]
  BY RankFrame DEF Same
<1>2. ~Restart(r) => arg'[r] = arg[r]
  BY SameRun
<1>3. ASSUME Restart(r)
      PROVE  Len(gathers[r]) = 0 /\ UNCHANGED gathers
  <2>1. stage[r] = "idle"
    BY <1>3, OverForGood
  <2> QED
    BY <1>3, <2>1 DEF Restart, OneRun
<1>4. GathersDue(r) \in {1, 2} /\ GathersDue(r)' \in {1, 2}
  BY DEF GathersDue
<1>5. Restart(r) => ~AllGathered /\ ~AllGathered'
  BY <1>3, <1>4 DEF AllGathered
<1>6. \A s \in Ranks : arg'[s] = arg[s] => GathersDue(s)' = GathersDue(s)
  BY DEF GathersDue
<1> QED
  BY <1>1, <1>2, <1>3, <1>5, <1>6

\* Once all have gathered they have, and what they brought stays.
LEMMA GatheredStays ==
  ASSUME MpiInv, MaxRuns = 1, \A q \in Ranks : OneRun(q), NEW r \in Ranks, RankStep(r), AllGathered
  PROVE  AllGathered' /\ BroughtFirst' = BroughtFirst
<1>1. ~Restart(r)
  BY DueStays
<1>2. ASSUME NEW s \in Ranks PROVE Len(gathers'[s]) >= GathersDue(s)'
  <2>1. GathersDue(s)' = GathersDue(s) /\ GathersDue(s) \in {1, 2}
    BY <1>1, DueStays DEF GathersDue
  <2>2. Len(gathers'[s]) >= Len(gathers[s]) /\ Len(gathers[s]) \in Nat /\ Len(gathers'[s]) \in Nat
    BY GathersGrow
  <2>3. Len(gathers[s]) >= GathersDue(s)
    BY DEF AllGathered
  <2> QED
    BY <2>1, <2>2, <2>3
<1>3. ASSUME NEW s \in Ranks PROVE gathers'[s][1] = gathers[s][1]
  <2>1. Len(gathers[s]) > 0
    BY EntryTyped DEF AllGathered, GathersDue
  <2> QED
    BY <2>1, GathersGrow
<1> QED
  BY <1>2, <1>3 DEF AllGathered, BroughtFirst

\* Whoever fails first, before the ranks have met, owes a collective or has
\* seen another flag than its own.
LEMMA NewFailure ==
  ASSUME MpiInv, MaxRuns = 1, \A q \in Ranks : OneRun(q), NEW r \in Ranks, RankStep(r),
         ~killed, ~AllGathered, ~Failing(r), Failing(r)'
  PROVE  \/ Len(gathers'[r]) < GathersDue(r)'
         \/ \E s \in Ranks : /\ Len(gathers[r]) > 0 /\ Len(gathers[s]) > 0
                             /\ gathers[r][1].skip # gathers[s][1].skip
<1>1. ~PastPreflight(r) /\ OneRun(r) /\ RuntimeInv /\ stage \in [Ranks -> Stages]
  BY DEF OneRun, MpiInv, RuntimeInv, IInv, TypeOK
<1>2. GathersDue(r)' \in {1, 2}
  BY DEF GathersDue
<1>3. ASSUME Len(gathers[r]) = 0, UNCHANGED gathers PROVE Len(gathers'[r]) < GathersDue(r)'
  BY <1>2, <1>3
<1>4. CASE Restart(r)
  BY <1>3, <1>4, DueStays
<1>5. CASE RuntimeStep(r) /\ UNCHANGED mpiVars
  <2>1. stage[r] = "setup"
    BY <1>1, <1>5, LocalEffect DEF PastPreflight
  <2> QED
    BY <1>1, <1>3, <1>5, <2>1 DEF OneRun, mpiVars
<1>6. CASE GatherSkips(r)
  BY <1>6 DEF GatherSkips, Failing, rtVars
<1>7. CASE CompareSkips(r)
  <2>1. /\ stage[r] = "preflight" /\ gathering[r] = 1 /\ Gathered(r)
        /\ (\E b \in Column(r) : b.skip # arg[r].skip) \/ LeavePreflight(r, TRUE) \/ UNCHANGED rtVars
    BY <1>7 DEF CompareSkips
  <2>2. ~LeavePreflight(r, TRUE)
    BY <1>1 DEF LeavePreflight, PreflightReturns, Failing
  <2>3. stage' # stage
    BY DEF Failing
  <2>4. PICK s \in Ranks : gathers[s][Len(gathers[r])].skip # arg[r].skip
    BY <2>1, <2>2, <2>3 DEF Column, rtVars
  <2>5. Len(gathers[r]) = 1 /\ gathers[r][1] = Brought(r)
    BY <1>1, <2>1 DEF OneRun
  <2>6. Len(gathers[s]) >= 1 /\ Len(gathers[s]) \in Nat
    BY <2>1, <2>5, EntryTyped DEF Gathered
  <2> QED
    BY <2>4, <2>5, <2>6 DEF Brought
<1>8. CASE ComparePlans(r)
  <2>1. Len(gathers[r]) = 2 /\ Gathered(r)
    BY <1>1, <1>8 DEF ComparePlans, OneRun
  <2>2. \A s \in Ranks : Len(gathers[s]) >= 2
    BY <2>1 DEF Gathered
  <2>3. AllGathered
    BY <2>2, EntryTyped DEF AllGathered, GathersDue
  <2> QED
    BY <2>3
<1>9. CASE Communicate(r) \/ TakeHeader(r) \/ TakeSlots(r) \/ WaitReturns(r)
  BY <1>1, <1>9 DEF Communicate, TakeHeader, TakeSlots, WaitReturns, Running, InWait, PastPreflight
<1>10. CASE Abort(r) \/ Kill(r)
  BY <1>10 DEF Abort, Panic, Kill, Failing
<1>11. CASE CallThrows(r)
  <2>1. stage[r] \in {"setup", "preflight"} /\ (stage[r] = "preflight" => gathering[r] = 0)
    BY <1>1, <1>11 DEF CallThrows, ApiThrows, CallsApi, Running, InWait, PastPreflight
  <2> QED
    BY <1>1, <1>3, <1>11, <2>1 DEF CallThrows, OneRun, mpiVars
<1> QED
  BY <1>4, <1>5, <1>6, <1>7, <1>8, <1>9, <1>10, <1>11 DEF RankStep

\* The reason for a failure before the ranks have met stays one.
LEMMA FailedEarlyKept ==
  ASSUME SpmdInv, MaxRuns = 1, [MpiNext]_vars
  PROVE  FailedEarly'
<1>1. MpiInv /\ FailedEarly /\ \A q \in Ranks : OneRun(q)
  BY DEF SpmdInv, FlowInv
<1>2. CASE UNCHANGED vars
  BY <1>1, <1>2 DEF FailedEarly, Failing, AllGathered, GathersDue, vars, rtVars, mpiVars
<1>3. ASSUME NEW r \in Ranks, RankStep(r) PROVE FailedEarly'
  <2> DEFINE Short == \E t \in Ranks : Failing(t) /\ Len(gathers[t]) < GathersDue(t)
             Split == \E t, s \in Ranks : /\ Len(gathers[t]) > 0 /\ Len(gathers[s]) > 0
                                          /\ gathers[t][1].skip # gathers[s][1].skip
  <2> SUFFICES ASSUME ~AllGathered', killed' \/ \E t \in Ranks : Failing(t)'
               PROVE  Short' \/ Split'
    BY DEF FailedEarly
  <2>1. ~AllGathered
    BY <1>1, <1>3, GatheredStays
  <2>2. ASSUME NEW t \in Ranks, NEW s \in Ranks, Len(gathers[t]) > 0, Len(gathers[s]) > 0,
               gathers[t][1].skip # gathers[s][1].skip
        PROVE  Split'
    <3>1. /\ Len(gathers'[t]) > 0 /\ gathers'[t][1] = gathers[t][1]
          /\ Len(gathers'[s]) > 0 /\ gathers'[s][1] = gathers[s][1]
      BY <1>1, <1>3, <2>2, GathersGrow
    <3> QED
      BY <2>2, <3>1
  <2>3. ASSUME NEW t \in Ranks, Failing(t), Len(gathers[t]) < GathersDue(t)
        PROVE  Short'
    <3>1. ~Restart(r) \/ t # r
      BY <1>1, <1>3, <2>3, OverForGood DEF Failing
    <3>2. GathersDue(t)' = GathersDue(t)
      BY <1>1, <1>3, <3>1, DueStays
    <3>3. Failing(t)' /\ gathers'[t] = gathers[t]
      <4>1. CASE t # r
        BY <1>1, <1>3, <2>3, <4>1, RankFrame DEF Failing, Same
      <4>2. CASE t = r
        <5>1. gathers' = gathers
          BY <1>1, <1>3, <2>3, <4>2, GathersGrow DEF Failing
        <5>2. ~Alive(r)
          BY <2>3, <4>2 DEF Failing, Alive
        <5>3. ~Alive(r)'
          BY <1>1, <1>3, <3>1, <4>2, <5>2, SameRun
        <5> QED
          BY <4>2, <5>1, <5>3 DEF Alive, Failing
      <4> QED
        BY <4>1, <4>2
    <3> QED
      BY <2>3, <3>2, <3>3
  <2>4. CASE killed \/ \E t \in Ranks : Failing(t)
    <3>1. Short \/ Split
      BY <1>1, <2>1, <2>4 DEF FailedEarly
    <3> QED
      BY <2>2, <2>3, <3>1
  <2>5. CASE ~killed /\ \A t \in Ranks : ~Failing(t)
    <3>1. ~killed'
      BY <1>3, <2>5 DEF RankStep, Restart, GatherSkips, CompareSkips, ComparePlans, Communicate,
         TakeHeader, TakeSlots, WaitReturns, Abort, Panic, Failing, Kill, CallThrows, mpiVars
    <3>2. PICK t \in Ranks : Failing(t)'
      BY <3>1
    <3>3. Failing(r)'
      BY <1>1, <1>3, <2>5, <3>2, RankFrame DEF Failing, Same
    <3>4. \/ Len(gathers'[r]) < GathersDue(r)'
          \/ \E s \in Ranks : /\ Len(gathers[r]) > 0 /\ Len(gathers[s]) > 0
                              /\ gathers[r][1].skip # gathers[s][1].skip
      BY <1>1, <1>3, <2>1, <2>5, <3>3, NewFailure
    <3> QED
      BY <2>2, <3>3, <3>4
  <2> QED
    BY <2>4, <2>5
<1> QED
  BY <1>2, <1>3 DEF MpiNext, Terminating

\* The invariant behind the contract.
LEMMA SpmdInvStart ==
  ASSUME MpiInit, OnePlanIfSkipped, MaxRuns = 1
  PROVE  SpmdInv
<1>1. FlowInv
  BY FlowInvInit
<1>2. \A r \in Ranks : OneRun(r)
  BY <1>1, InOneRun DEF FlowInv
<1>3. FailedEarly
  BY DEF MpiInit, Init, FailedEarly, Failing
<1> QED
  BY <1>1, <1>2, <1>3 DEF SpmdInv

LEMMA SpmdInvKept ==
  ASSUME SpmdInv, OnePlanIfSkipped, MaxRuns = 1, [MpiNext]_vars
  PROVE  FlowInv' /\ FailedEarly'
BY FlowInvKept, FailedEarlyKept DEF SpmdInv

\* The three outcomes of a rank.
LEMMA OutcomeIs ==
  ASSUME NEW r \in Ranks
  PROVE  /\ stage[r] = "done" => Outcome(r) = Artifact(r)
         /\ stage[r] = "panic" => Outcome(r) = FailedRank
         /\ stage[r] \notin {"done", "panic"} => Outcome(r) = UndecidedRank
<1>1. stage[r] = "done" => Outcome(r) = Artifact(r)
  BY Zenon DEF Outcome
<1>2. "done" # "panic"
  OBVIOUS
<1>3. stage[r] = "panic" => Outcome(r) = FailedRank
  BY <1>2, Zenon DEF Outcome
<1>4. stage[r] # "done" /\ stage[r] # "panic" => Outcome(r) = UndecidedRank
  BY Zenon DEF Outcome
<1> QED
  BY <1>1, <1>3, <1>4

LEMMA OutcomeIsNext ==
  ASSUME NEW r \in Ranks
  PROVE  /\ stage'[r] = "done" => Outcome(r)' = Artifact(r)'
         /\ stage'[r] = "panic" => Outcome(r)' = FailedRank
         /\ stage'[r] \notin {"done", "panic"} => Outcome(r)' = UndecidedRank
<1>1. stage'[r] = "done" => Outcome(r)' = Artifact(r)'
  BY Zenon DEF Outcome
<1>2. "done" # "panic"
  OBVIOUS
<1>3. stage'[r] = "panic" => Outcome(r)' = FailedRank
  BY <1>2, Zenon DEF Outcome
<1>4. stage'[r] # "done" /\ stage'[r] # "panic" => Outcome(r)' = UndecidedRank
  BY Zenon DEF Outcome
<1> QED
  BY <1>1, <1>3, <1>4

\* What the ranks that have returned gave back is what the agreed plan promises.
ArtifactsPromised ==
  \A r \in Ranks : stage[r] = "done" => Artifact(r) \in Promised(BroughtFirst, r)

LEMMA ArtifactsArePromised ==
  ASSUME SpmdInv, OnePlanIfSkipped
  PROVE  ArtifactsPromised
<1> SUFFICES ASSUME NEW r \in Ranks, stage[r] = "done"
             PROVE  Artifact(r) \in Promised(BroughtFirst, r)
  BY DEF ArtifactsPromised
<1>1. MpiInv /\ RuntimeInv /\ RightValues(r) /\ OnePlan(r) /\ OneRun(r)
  BY DEF SpmdInv, FlowInv, MpiInv, OnePlan
<1>2. AllGathered
  BY <1>1 DEF OneRun, PastPreflight
<1>3. Len(gathers[r]) > 0
  BY <1>1, <1>2, EntryTyped DEF AllGathered, GathersDue
<1>4. BroughtFirst[r] = Brought(r)
  BY <1>1, <1>3 DEF OneRun, BroughtFirst
<1> QED
  BY <1>1, <1>4, ArtifactPromised

\* A rank decides outside the collectives, and returns from make_artifact alone.
LEMMA Decision ==
  ASSUME SpmdInv, MaxRuns = 1, NEW r \in Ranks, RankStep(r), stage'[r] \in {"done", "panic"}
  PROVE  /\ AllGathered' <=> AllGathered
         /\ BroughtFirst' = BroughtFirst
         /\ stage'[r] = "done" => stage[r] = "sync"
<1>1. MpiInv /\ RuntimeInv /\ stage \in [Ranks -> Stages] /\ \A q \in Ranks : OneRun(q)
  BY DEF SpmdInv, FlowInv, MpiInv, RuntimeInv, IInv, TypeOK
<1>2. stage[r] \notin {"done", "panic"}
  BY <1>1, OverForGood
<1>3. gathers' = gathers
  BY <1>1, <1>2, GathersGrow DEF rtVars
<1>4. AllGathered' <=> AllGathered
  BY <1>1, <1>3, DueStays DEF AllGathered
<1>5. ASSUME stage'[r] = "done" PROVE stage[r] = "sync"
  <2>1. ASSUME NEW w, Throw(r, w) PROVE FALSE
    BY <1>1, <1>5, <2>1 DEF Throw
  <2>2. CASE Restart(r) \/ Abort(r) \/ Kill(r)
    BY <1>1, <1>5, <2>2 DEF Restart, Start, Abort, Panic, Kill
  <2>3. CASE RuntimeStep(r)
    <3>1. ASSUME NEW a, NEW b, Execute(r, a, b) PROVE stage'[r] \in {stage[r], "aborting"}
      BY <1>1, <3>1 DEF Execute, Throw
    <3> QED
      BY <1>1, <1>2, <1>5, <2>3, <3>1 DEF RuntimeStep, Setup, RefusePlan, RefuseInputs, BindInputs,
         Skip, ExecuteEncode, ExecuteCompute, AwaitOperand, AwaitOldest, Drained, PublishArtifact, Throw
  <2>4. CASE GatherSkips(r) \/ CompareSkips(r) \/ ComparePlans(r)
    <3>1. Throw(r, "api") \/ PreflightReturns(r) \/ UNCHANGED rtVars
      BY <2>4 DEF GatherSkips, CompareSkips, ComparePlans, LeavePreflight
    <3> QED
      BY <1>1, <1>2, <1>5, <2>1, <3>1 DEF PreflightReturns, rtVars
  <2>5. CASE Communicate(r)
    BY <1>1, <1>2, <1>5, <2>5, CommunicateEffect
  <2>6. CASE TakeHeader(r) \/ TakeSlots(r)
    <3>1. Throw(r, "api") \/ UNCHANGED rtVars
      BY <2>6 DEF TakeHeader, TakeSlots
    <3> QED
      BY <1>2, <1>5, <2>1, <3>1 DEF rtVars
  <2>7. CASE WaitReturns(r)
    <3>1. FinishGroup(r, Arrived(r))
      BY <2>7 DEF WaitReturns
    <3> QED
      BY <1>1, <1>2, <1>5, <3>1, FinishEffect
  <2>8. CASE CallThrows(r)
    BY <2>1, <2>8 DEF CallThrows, ApiThrows
  <2> QED
    BY <2>2, <2>3, <2>4, <2>5, <2>6, <2>7, <2>8 DEF RankStep
<1> QED
  BY <1>3, <1>4, <1>5 DEF BroughtFirst

\* Who enters the last collective due finds nobody returned or ended.
LEMMA AllUndecided ==
  ASSUME SpmdInv, MaxRuns = 1, NEW r \in Ranks, RankStep(r),
         ~AllGathered, AllGathered', Consistent(BroughtFirst)'
  PROVE  /\ \A s \in Ranks : stage[s] \notin {"done", "panic"}
         /\ \A s \in Ranks : stage'[s] \notin {"done", "panic"}
<1>1. MpiInv /\ FailedEarly /\ stage \in [Ranks -> Stages] /\ \A q \in Ranks : OneRun(q)
  BY DEF SpmdInv, FlowInv, MpiInv, RuntimeInv, IInv, TypeOK
<1>2. ~Restart(r) /\ \A s \in Ranks : GathersDue(s)' = GathersDue(s)
  BY <1>1, DueStays
<1>3. ~UNCHANGED gathers
  BY <1>2 DEF AllGathered
<1>4. stage[r] = "preflight" /\ UNCHANGED rtVars /\ \A s \in Ranks : s # r => gathers'[s] = gathers[s]
  BY <1>1, <1>3, GathersGrow
<1>5. \A s \in Ranks : stage[s] # "done"
  BY <1>1 DEF OneRun, PastPreflight
<1>6. ASSUME NEW t \in Ranks, stage[t] = "panic" PROVE FALSE
  <2>1. CASE \E u \in Ranks : Failing(u) /\ Len(gathers[u]) < GathersDue(u)
    <3>1. PICK u \in Ranks : Failing(u) /\ Len(gathers[u]) < GathersDue(u)
      BY <2>1
    <3>2. u # r
      BY <1>4, <3>1 DEF Failing
    <3>3. Len(gathers[u]) >= GathersDue(u)
      BY <1>2, <1>4, <3>2 DEF AllGathered
    <3>4. Len(gathers[u]) \in Nat /\ GathersDue(u) \in {1, 2}
      BY <1>1, EntryTyped DEF GathersDue
    <3> QED
      BY <3>1, <3>3, <3>4
  <2>2. ASSUME NEW u \in Ranks, NEW s \in Ranks, Len(gathers[u]) > 0, Len(gathers[s]) > 0,
               gathers[u][1].skip # gathers[s][1].skip
        PROVE  FALSE
    <3>1. gathers'[u][1] = gathers[u][1] /\ gathers'[s][1] = gathers[s][1]
      BY <1>1, <2>2, GathersGrow
    <3>2. gathers'[u][1] = gathers'[s][1]
      BY DEF Consistent, BroughtFirst
    <3> QED
      BY <2>2, <3>1, <3>2
  <2> QED
    BY <1>1, <1>6, <2>1, <2>2 DEF FailedEarly, Failing
<1> QED
  BY <1>4, <1>5, <1>6 DEF rtVars

\* Full collectives hold requests.
BroughtOK == AllGathered => BroughtFirst \in [Ranks -> Requests]

LEMMA BroughtTyped ==
  ASSUME MpiInv
  PROVE  BroughtOK
<1> SUFFICES ASSUME AllGathered PROVE BroughtFirst \in [Ranks -> Requests]
  BY DEF BroughtOK
<1>1. ASSUME NEW s \in Ranks PROVE gathers[s][1] \in Requests
  <2>1. gathers[s] \in Seq(Requests) /\ Len(gathers[s]) \in Nat
    BY EntryTyped DEF MpiInv, MpiTypeOK
  <2>2. Len(gathers[s]) >= GathersDue(s) /\ GathersDue(s) \in {1, 2}
    BY DEF AllGathered, GathersDue
  <2>3. 1 \in 1 .. Len(gathers[s])
    BY <2>1, <2>2
  <2> QED
    BY <2>1, <2>3
<1> QED
  BY <1>1 DEF BroughtFirst

\* Every step of the processes is a step of the contract, or none.
LEMMA ContractStep ==
  ASSUME SpmdInv, SpmdInv', ArtifactsPromised', BroughtOK', MaxRuns = 1, [MpiNext]_vars
  PROVE  [Contract!Next]_(Contract!spmdVars)
<1> DEFINE O == [r \in Ranks |-> Outcome(r)]
<1>1. MpiInv /\ \A q \in Ranks : OneRun(q)
  BY DEF SpmdInv, FlowInv
<1>2. ASSUME NEW s \in Ranks, Same(s) PROVE Outcome(s)' = Outcome(s)
  <2>1. Artifact(s)' = Artifact(s)
    BY <1>2 DEF Same, Artifact, Retain, OwnFinals, LocalFinals, PlanOf
  <2>2. stage'[s] = stage[s]
    BY <1>2 DEF Same
  <2> QED
    BY <2>1, <2>2, OutcomeIs, OutcomeIsNext
<1>3. CASE UNCHANGED vars
  <2>1. \A s \in Ranks : Outcome(s)' = Outcome(s)
    BY <1>2, <1>3 DEF vars, rtVars, Same
  <2>2. (AllGathered' <=> AllGathered) /\ BroughtFirst' = BroughtFirst
    BY <1>3 DEF vars, rtVars, mpiVars, AllGathered, GathersDue, BroughtFirst
  <2>3. Agreement' = Agreement
    BY <2>2 DEF Agreement, Consistent
  <2> QED
    BY <2>1, <2>3 DEF Contract!spmdVars
<1>4. ASSUME NEW r \in Ranks, RankStep(r) PROVE [Contract!Next]_(Contract!spmdVars)
  <2>1. \A s \in Ranks : s # r => Outcome(s)' = Outcome(s)
    BY <1>1, <1>2, <1>4, RankFrame
  <2>2. stage[r] \notin {"done", "panic"} /\ Outcome(r) = UndecidedRank
    BY <1>1, <1>4, OverForGood, OutcomeIs
  <2>3. CASE stage'[r] \in {"done", "panic"}
    <3>1. (AllGathered' <=> AllGathered) /\ BroughtFirst' = BroughtFirst
      BY <1>4, <2>3, Decision
    <3>2. Agreement' = Agreement
      BY <3>1 DEF Agreement, Consistent
    <3>3. O' = [O EXCEPT ![r] = Outcome(r)']
      BY <2>1
    <3>4. CASE stage'[r] = "panic"
      <4>1. Outcome(r)' = FailedRank
        BY <3>4, OutcomeIsNext
      <4>2. Contract!Fail(r)
        BY <2>2, <3>2, <3>3, <4>1 DEF Contract!Fail
      <4> QED
        BY <4>2 DEF Contract!Next
    <3>5. CASE stage'[r] = "done"
      <4>1. stage[r] = "sync"
        BY <1>4, <3>5, Decision
      <4>2. AllGathered /\ Consistent(BroughtFirst)
        BY <1>1, <4>1 DEF OneRun, PastPreflight
      <4>3. BroughtFirst \in [Ranks -> Requests]
        BY <1>1, <4>2, BroughtTyped DEF BroughtOK
      <4>4. Agreement = BroughtFirst /\ Agreement # Unagreed
        BY <4>2, <4>3, RefinementConstantsOK DEF Agreement
      <4>5. Outcome(r)' \in Promised(BroughtFirst, r)
        <5>1. Outcome(r)' = Artifact(r)'
          BY <3>5, OutcomeIsNext
        <5>2. Artifact(r)' \in Promised(BroughtFirst, r)'
          BY <3>5 DEF ArtifactsPromised
        <5>3. Promised(BroughtFirst, r)' = Promised(BroughtFirst, r)
          BY <3>1 DEF Promised
        <5> QED
          BY <5>1, <5>2, <5>3
      <4>6. Contract!Return(r)
        BY <2>2, <3>2, <3>3, <4>4, <4>5 DEF Contract!Return
      <4> QED
        BY <4>6 DEF Contract!Next
    <3> QED
      BY <2>3, <3>4, <3>5
  <2>4. CASE stage'[r] \notin {"done", "panic"}
    <3>1. O' = O
      BY <2>1, <2>2, <2>4, OutcomeIsNext
    <3>2. CASE Agreement' = Agreement
      BY <3>1, <3>2 DEF Contract!spmdVars
    <3>3. CASE Agreement' # Agreement
      <4>1. ~AllGathered
        BY <1>1, <1>4, <3>3, GatheredStays DEF Agreement, Consistent
      <4>2. AllGathered' /\ Consistent(BroughtFirst)' /\ Agreement' = BroughtFirst' /\ Agreement = Unagreed
        BY <3>3, <4>1 DEF Agreement
      <4>4. \A s \in Ranks : Outcome(s) = UndecidedRank
        BY <1>4, <4>1, <4>2, AllUndecided, OutcomeIs
      <4>5. Contract!Agree
        BY <3>1, <4>2, <4>4 DEF Contract!Agree, Consistent, BroughtOK
      <4> QED
        BY <4>5 DEF Contract!Next
    <3> QED
      BY <3>2, <3>3
  <2> QED
    BY <2>3, <2>4
<1> QED
  BY <1>3, <1>4 DEF MpiNext, Terminating

\* One run of processes over MpiVecApi keeps the contract: no rank returns unless
\* all have brought the same plan, what it returns is what that plan determines
\* for it, and a process that MPI ends has returned nothing (MpiVecApi::preflight,
\* abort_all, SequentialRuntime::run).  That calls which skip the comparison of
\* plans name the same one is the caller's part.
THEOREM MpiKeepsContract ==
  ASSUME OnePlanIfSkipped, MaxRuns = 1
  PROVE  MpiSpec => ImplementsSpmdRun
<1>1. MpiInit => SpmdInv
  BY SpmdInvStart
<1>2. SpmdInv /\ [MpiNext]_vars => FlowInv' /\ FailedEarly'
  BY SpmdInvKept
<1>3. FlowInv /\ FailedEarly => SpmdInv
  BY InOneRun DEF SpmdInv, FlowInv
<1>4. SpmdInv => ArtifactsPromised
  BY ArtifactsArePromised
<1>5. SpmdInv => BroughtOK
  BY BroughtTyped DEF SpmdInv, FlowInv
<1>6. SpmdInv /\ SpmdInv' /\ ArtifactsPromised' /\ BroughtOK' /\ [MpiNext]_vars
        => [Contract!Next]_(Contract!spmdVars)
  BY ContractStep
<1>7. MpiInit => Contract!Init
  <2> SUFFICES ASSUME MpiInit PROVE Contract!Init
    OBVIOUS
  <2>1. \A r \in Ranks : Outcome(r) = UndecidedRank
    BY OutcomeIs DEF MpiInit, Init
  <2>2. 0 \in Ranks
    BY ConstantsOK, ClusterConstantsOK
  <2>3. Len(gathers[0]) = 0 /\ GathersDue(0) \in {1, 2}
    BY <2>2 DEF MpiInit, GathersDue
  <2>4. Agreement = Unagreed
    BY <2>2, <2>3 DEF Agreement, AllGathered
  <2> QED
    BY <2>1, <2>4 DEF Contract!Init
<1> QED
  BY <1>1, <1>2, <1>3, <1>4, <1>5, <1>6, <1>7, PTL DEF MpiSpec, Contract!Spec, ImplementsSpmdRun
=============================================================================
