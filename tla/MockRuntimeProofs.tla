-------------------------- MODULE MockRuntimeProofs --------------------------
(***************************************************************************)
(* The cluster of runtimes over MockVecApi, for every number of ranks,     *)
(* every family of plans, every choice of failing calls and any number of  *)
(* runs.                                                                   *)
(*                                                                         *)
(* MockInv adds to the invariants of the runtimes what ties them to the    *)
(* cluster: who sleeps in the barrier, which senders exist and how far     *)
(* they have got, and which slots the wait in progress has found.  With it *)
(* every step of the cluster is a step of one runtime or of none, so the   *)
(* theorems about SequentialRuntime carry over.                            *)
(***************************************************************************)
EXTENDS MockRefinement, ClusterProofs

\* A rank inside the barrier has left its entry in the table.
BarrierOK == \A r \in barrier : stage[r] = "preflight" /\ digests[r] = Brought(r)

\* What a sender has published, and where it is.
SenderOK(r, i) ==
  LET s  == senders[r][i]
      id == PlanOf(r).code[i].id
      end == Len(PlanOf(r).code[i].outputs)
  IN
  s.state # "none" =>
    /\ i \in Posted(r) /\ SourceIsLocal(r, i)
    /\ s.data \in Data
    /\ s.next \in Nat \ {0}
    /\ \A k \in 1 .. end : k < s.next => Published(<<id, k>>)
    /\ s.state = "publishing" => s.next <= end
    /\ s.state = "done" => s.next > end

\* Every communication that starts here has its sender, and a completed one has
\* joined it.
PostedOK(r) ==
  Bound(r) => \A i \in Posted(r) : SourceIsLocal(r, i) =>
    /\ senders[r][i].state # "none"
    /\ i \in completed[r] => senders[r][i].state = "done"

\* The slots that the wait in progress has received are published.
WaitOK(r) ==
  stage[r] \notin {"aborting", "panic"} =>
    IF waiting[r] = 0 THEN received[r] = 0
    ELSE /\ InWait(r)
         /\ \A k \in Slots(r) :
              Cardinality({j \in Slots(r) : j < k}) < received[r] => Published(SlotKey(r, k))

TablesOK == MockTypeOK /\ digests = [r \in Ranks |-> digests[r]]

MockInv ==
  /\ RuntimeInv /\ DataOK /\ TablesOK /\ BarrierOK
  /\ \A r \in Ranks : \A i \in Positions : SenderOK(r, i)
  /\ \A r \in Ranks : PostedOK(r) /\ WaitOK(r)
  /\ PreflightAgreement

-----------------------------------------------------------------------------
(***************************************************************************)
(* A step of the cluster is a step of a runtime.                           *)
(***************************************************************************)
\* Once a rank has received as many slots as it owns, it has a message for each
\* (MockVecApi::wait, MockCluster::receive).
LEMMA AllPublished ==
  ASSUME MockInv, NEW r \in Ranks, InWait(r), AllReceived(r), NEW k \in Slots(r)
  PROVE  Published(SlotKey(r, k))
<1>1. waiting[r] \in DOMAIN PlanOf(r).code /\ PlanOK(PlanOf(r)) /\ waiting[r] \in Comms(PlanOf(r))
  <2>1. waiting[r] \in OpenGroups(r) /\ Counted(r)
    BY DEF MockInv, RuntimeInv, IInv, GroupsKnown, InWait, Counted
  <2> QED
    BY <2>1, OpenGroupAt, RankPlan DEF MockInv, RuntimeInv, IInv
<1>2. IsFiniteSet(Slots(r))
  <2>1. Slots(r) \in SUBSET DOMAIN PlanOf(r).code[waiting[r]].outputs
    BY DEF Slots, LocalOuts
  <2>2. IsFiniteSet(DOMAIN PlanOf(r).code[waiting[r]].outputs)
    BY <1>1, CommShape, SegmentFinite
  <2> QED
    BY <2>1, <2>2, FS_Subset
<1> DEFINE before == {j \in Slots(r) : j < k}
<1>3. before \in SUBSET Slots(r)
  OBVIOUS
<1>4. k \in Nat
  BY <1>1, CommShape DEF Slots, LocalOuts
<1>5. before # Slots(r)
  BY <1>4
<1> HIDE DEF before
<1>6. /\ IsFiniteSet(before) /\ Cardinality(before) <= Cardinality(Slots(r))
      /\ Cardinality(before) = Cardinality(Slots(r)) => before = Slots(r)
  BY <1>2, <1>3, FS_Subset
<1>7. Cardinality(before) \in Nat /\ Cardinality(Slots(r)) \in Nat
  BY <1>2, <1>6, FS_CardinalityType
<1>8. Cardinality(before) < received[r]
  BY <1>5, <1>6, <1>7 DEF AllReceived
<1>9. WaitOK(r) /\ waiting[r] # 0 /\ stage[r] \notin {"aborting", "panic"}
  BY DEF MockInv, InWait
<1> QED
  BY <1>8, <1>9 DEF WaitOK, before

\* And each has contents.
LEMMA ArrivedTyped ==
  ASSUME MockInv, NEW r \in Ranks, InWait(r), AllReceived(r)
  PROVE  Arrived(r) \in [ValueIds -> Data]
<1>1. ASSUME NEW k \in Slots(r) PROVE Message(SlotKey(r, k)).data \in Data
  <2>1. Published(SlotKey(r, k))
    BY AllPublished
  <2>2. Message(SlotKey(r, k)) \in messages
    BY <2>1 DEF Published, Message
  <2> QED
    BY <2>2 DEF MockInv, TablesOK, MockTypeOK
<1>2. Garbage \in Data
  BY ClusterConstantsOK
<1>3. ASSUME NEW v \in ValueIds
      PROVE  (IF \E k \in Slots(r) : GroupOut(r, k) = v
              THEN Message(SlotKey(r, CHOOSE k \in Slots(r) : GroupOut(r, k) = v)).data
              ELSE Garbage) \in Data
  BY <1>1, <1>2
<1> QED
  BY <1>3 DEF Arrived

\* What a rank does is a step of its runtime, or leaves all of them alone
\* (SequentialRuntime<MockVecApi> is SequentialRuntime).
LEMMA RankIsStep ==
  ASSUME MockInv, NEW r \in Ranks, RankStep(r)
  PROVE  Step(r) \/ UNCHANGED rtVars
<1>1. ASSUME CallsApi(r), Throw(r, "api") PROVE Step(r)
  BY <1>1 DEF ApiThrows, Step
<1>2. CASE Restart(r)
  BY <1>2 DEF Restart, Step
<1>3. CASE LocalStep(r)
  BY <1>3, LocalIsStep DEF LocalStep, MockInv
<1>4. ASSUME NEW d, NEW awake, LeaveBarrier(r, d, awake), stage[r] = "preflight"
      PROVE  Step(r)
  <2>1. CallsApi(r)
    BY <1>4 DEF CallsApi
  <2>2. Throw(r, "api") \/ PreflightReturns(r)
    BY <1>4 DEF LeaveBarrier
  <2> QED
    BY <1>1, <2>1, <2>2 DEF Step
<1>5. CASE EnterPreflight(r)
  BY <1>4, <1>5 DEF EnterPreflight
<1>6. CASE PreflightTwice(r)
  BY <1>1, <1>6 DEF PreflightTwice, CallsApi
<1>7. CASE WakeInPreflight(r)
  BY <1>4, <1>7 DEF WakeInPreflight, MockInv, BarrierOK
<1>8. CASE Communicate(r)
  BY <1>8 DEF Communicate, Step
<1>9. CASE SenderFailed(r) \/ Receive(r)
  BY <1>1, <1>9 DEF SenderFailed, Receive, CallsApi
<1>10. CASE WaitReturns(r)
  BY <1>10, ArrivedTyped DEF WaitReturns, Step
<1>11. CASE SetAborted(r) \/ NotifyAborted(r) \/ CallThrows(r)
  BY <1>11 DEF SetAborted, NotifyAborted, CallThrows, Step
<1> QED
  BY <1>2, <1>3, <1>5, <1>6, <1>7, <1>8, <1>9, <1>10, <1>11 DEF RankStep

\* Senders and spurious wakeups touch no runtime.
LEMMA ClusterStep ==
  ASSUME MockInv, [MockNext]_vars
  PROVE  [Next]_rtVars
<1>1. ASSUME NEW r \in Ranks, RankStep(r) PROVE [Next]_rtVars
  BY <1>1, RankIsStep DEF Next
<1>2. ASSUME NEW r \in Ranks, NEW i, SenderStep(r, i) PROVE UNCHANGED rtVars
  BY <1>2 DEF SenderStep, Publish, SenderAborts, SenderNotifies
<1>3. ASSUME NEW r \in Ranks, SpuriousWake(r) PROVE UNCHANGED rtVars
  BY <1>3 DEF SpuriousWake
<1>4. CASE UNCHANGED vars
  BY <1>4 DEF vars
<1> QED
  BY <1>1, <1>2, <1>3, <1>4 DEF MockNext, Terminating

-----------------------------------------------------------------------------
(***************************************************************************)
(* What the steps of a rank leave alone.                                   *)
(***************************************************************************)
\* The barrier, the receiving half of wait and abort_all: the steps in which a
\* rank neither interprets its plan nor starts or joins a sender.
CallStep(r) ==
  \/ EnterPreflight(r) \/ PreflightTwice(r) \/ WakeInPreflight(r)
  \/ SenderFailed(r) \/ Receive(r)
  \/ SetAborted(r) \/ NotifyAborted(r) \/ CallThrows(r)

\* They only move run() on: from preflight to bind_inputs, or out of its try
\* block.
LEMMA CallEffect ==
  ASSUME MockInv, NEW r \in Ranks, CallStep(r)
  PROVE  /\ UNCHANGED <<arg, runs, pc, store, uses, completed, waiting, senders, messages>>
         /\ \/ stage' = stage
            \/ stage' = [stage EXCEPT ![r] = "aborting"]
            \/ stage' = [stage EXCEPT ![r] = "panic"]
            \/ stage' = [stage EXCEPT ![r] = "bind"] /\ stage[r] = "preflight"
         /\ ~Receive(r) => received' = received
<1>1. ASSUME NEW d, NEW awake, LeaveBarrier(r, d, awake)
      PROVE  /\ UNCHANGED <<arg, runs, pc, store, uses, completed, waiting>>
             /\ \/ stage' = [stage EXCEPT ![r] = "aborting"]
                \/ stage' = [stage EXCEPT ![r] = "bind"] /\ stage[r] = "preflight"
  <2>1. Throw(r, "api") \/ PreflightReturns(r)
    BY <1>1 DEF LeaveBarrier
  <2> QED
    BY <2>1 DEF Throw, PreflightReturns
<1>2. CASE EnterPreflight(r) \/ WakeInPreflight(r)
  BY <1>1, <1>2 DEF EnterPreflight, WakeInPreflight, rtVars, Receive, InWait
<1>3. CASE PreflightTwice(r) \/ SenderFailed(r) \/ CallThrows(r)
  BY <1>3 DEF PreflightTwice, SenderFailed, CallThrows, ApiThrows, Throw, clusterVars
<1>4. CASE Receive(r)
  BY <1>4 DEF Receive, Throw, rtVars
<1>5. CASE SetAborted(r) \/ NotifyAborted(r)
  BY <1>5 DEF SetAborted, NotifyAborted, Panic, rtVars
<1> QED
  BY <1>2, <1>3, <1>4, <1>5 DEF CallStep

-----------------------------------------------------------------------------
(***************************************************************************)
(* Senders.                                                                *)
(***************************************************************************)
\* A rank's position and its sender stay, or only the position moves on.
LEMMA SenderFrame ==
  ASSUME NEW r \in Ranks, NEW i \in Positions, SenderOK(r, i),
         arg'[r] = arg[r], senders'[r][i] = senders[r][i],
         Posted(r) \subseteq Posted(r)', messages \subseteq messages'
  PROVE  SenderOK(r, i)'
<1>1. PlanOf(r)' = PlanOf(r)
  BY DEF PlanOf
<1>2. SourceIsLocal(r, i)' = SourceIsLocal(r, i)
  BY <1>1 DEF SourceIsLocal
<1>3. \A id, k : Published(<<id, k>>) => Published(<<id, k>>)'
  BY DEF Published
<1> QED
  BY <1>1, <1>2, <1>3 DEF SenderOK

\* The communications before current_ when it moves past one instruction.
LEMMA PostedGrows ==
  ASSUME RuntimeInv, NEW r \in Ranks, arg'[r] = arg[r],
         pc'[r] = pc[r] \/ pc'[r] = pc[r] + 1
  PROVE  /\ Posted(r) \subseteq Posted(r)'
         /\ \A i \in Posted(r)' : i \in Posted(r) \/ (i = pc[r] /\ i \in Comms(PlanOf(r)))
<1>1. pc[r] \in Nat
  BY DEF RuntimeInv, IInv, TypeOK
<1>2. Comms(PlanOf(r)) \subseteq Nat
  BY PlanOfTyped DEF RuntimeInv, IInv, IsPlan, Comms
<1>3. Comms(PlanOf(r))' = Comms(PlanOf(r))
  BY DEF PlanOf
<1> QED
  BY <1>1, <1>2, <1>3 DEF Posted

\* A step of a rank keeps the facts about its own senders.
LEMMA OwnSenders ==
  ASSUME MockInv, NEW r \in Ranks, RankStep(r)
  PROVE  PostedOK(r)' /\ \A i \in Positions : SenderOK(r, i)'
<1> USE DEF MockInv
<1>1. CASE Restart(r)
  <2>1. ~Bound(r)' /\ \A i \in Positions : senders'[r][i] = NoSender
    BY <1>1 DEF Restart, Start, Bound, RuntimeInv, IInv, TypeOK, TablesOK, MockTypeOK
  <2>2. PostedOK(r)'
    BY <2>1 DEF PostedOK
  <2>3. ASSUME NEW i \in Positions PROVE SenderOK(r, i)'
    <3>1. senders'[r][i].state = "none"
      BY <2>1 DEF NoSender, Sender
    <3> QED
      BY <3>1 DEF SenderOK
  <2> QED
    BY <2>2, <2>3
<1>2. CASE LocalStep(r)
  <2>1. /\ RuntimeStep(r) /\ senders' = senders /\ messages' = messages
        /\ arg'[r] = arg[r] /\ completed'[r] = completed[r]
    BY <1>2, LocalEffect DEF LocalStep, clusterVars
  <2>2. \/ pc'[r] = pc[r] /\ (Bound(r)' => Bound(r))
        \/ pc'[r] = pc[r] /\ pc[r] = 1 /\ completed[r] = {}
        \/ /\ pc'[r] = pc[r] + 1 /\ stage'[r] = stage[r] /\ Running(r)
           /\ pc[r] \in Nat /\ pc[r] \notin Comms(PlanOf(r))
    BY <2>1, LocalEffect
  <2>3. Posted(r) \subseteq Posted(r)' /\ \A i \in Posted(r)' : i \in Posted(r)
    <3>1. pc'[r] = pc[r] \/ pc'[r] = pc[r] + 1
      BY <2>2
    <3>2. /\ Posted(r) \subseteq Posted(r)'
          /\ \A i \in Posted(r)' : i \in Posted(r) \/ (i = pc[r] /\ i \in Comms(PlanOf(r)))
      BY <2>1, <3>1, PostedGrows
    <3>3. CASE pc'[r] = pc[r]
      BY <2>1, <3>2, <3>3 DEF Posted, PlanOf
    <3> QED
      BY <2>2, <3>2, <3>3
  <2>4. \A i \in Positions : SenderOK(r, i)'
    BY <2>1, <2>3, SenderFrame
  <2>5. CASE Bound(r)
    BY <2>1, <2>3, <2>4, <2>5 DEF PostedOK, SourceIsLocal, PlanOf
  <2>6. CASE ~Bound(r) /\ Bound(r)'
    <3>1. pc'[r] = 1 /\ Posted(r)' = {i \in Comms(PlanOf(r)) : i < 1}
      BY <2>1, <2>2, <2>6 DEF Posted, PlanOf, Running, Bound
    <3>2. Comms(PlanOf(r)) \subseteq Nat \ {0}
      BY PlanOfTyped DEF RuntimeInv, IInv, IsPlan, Comms
    <3>3. Posted(r)' = {}
      BY <3>1, <3>2
    <3> QED
      BY <2>4, <3>3 DEF PostedOK
  <2>7. CASE ~Bound(r)'
    BY <2>4, <2>7 DEF PostedOK
  <2> QED
    BY <2>4, <2>5, <2>6, <2>7
<1>3. CASE Communicate(r)
  <2> DEFINE p == PlanOf(r)
             new == Sender("publishing", 1, InEntry(r, 1).data)
  <2>1. /\ PostComm(r) /\ messages' = messages
        /\ senders' = IF stage'[r] # "aborting" /\ SourceIsLocal(r, pc[r])
                      THEN [senders EXCEPT ![r][pc[r]] = new] ELSE senders
    BY <1>3 DEF Communicate
  <2>2. /\ UNCHANGED <<arg, stage, completed>> /\ Bound(r) /\ stage[r] # "aborting"
        /\ pc[r] \in Comms(p) /\ pc[r] \in Nat /\ pc'[r] = pc[r] + 1
        /\ SourceIsLocal(r, pc[r]) => InEntry(r, 1).data \in Data
    BY <2>1, PostEffect
  <2>3. pc[r] \in Positions /\ pc[r] \notin completed[r] /\ PlanOK(p)
    <3>1. pc[r] \in DOMAIN p.code
      BY <2>2 DEF Comms
    <3>2. \A g \in completed[r] : g < pc[r]
      BY DEF RuntimeInv, IInv, GroupsKnown, Posted
    <3> QED
      BY <2>2, <3>1, <3>2, CallTyped, RankPlan DEF RuntimeInv, IInv, Bound, Counted
  <2>4. /\ \A i \in Positions : i # pc[r] => senders'[r][i] = senders[r][i]
        /\ SourceIsLocal(r, pc[r]) => senders'[r][pc[r]] = new
        /\ ~SourceIsLocal(r, pc[r]) => senders'[r][pc[r]] = senders[r][pc[r]]
    BY <2>1, <2>2, <2>3 DEF TablesOK, MockTypeOK
  <2>5. /\ Posted(r) \subseteq Posted(r)' /\ pc[r] \in Posted(r)'
        /\ \A i \in Posted(r)' : i \in Posted(r) \/ i = pc[r]
    BY <2>2, PostedGrows DEF Posted, PlanOf
  <2>6. ASSUME NEW i \in Positions, i = pc[r], SourceIsLocal(r, i) PROVE SenderOK(r, i)'
    <3>1. Len(p.code[i].outputs) \in Nat \ {0}
      BY <2>2, <2>3, <2>6, CommShape
    <3>2. PlanOf(r)' = p
      BY <2>2 DEF PlanOf
    <3>3. SourceIsLocal(r, i)'
      BY <2>6, <3>2 DEF SourceIsLocal
    <3>4. /\ senders'[r][i].state = "publishing" /\ senders'[r][i].next = 1
          /\ senders'[r][i].data \in Data
      BY <2>2, <2>4, <2>6 DEF Sender
    <3>5. i \in Posted(r)'
      BY <2>5, <2>6
    <3> QED
      BY <3>1, <3>2, <3>3, <3>4, <3>5 DEF SenderOK
  <2>7. ASSUME NEW i \in Positions, i # pc[r] \/ ~SourceIsLocal(r, pc[r]) PROVE SenderOK(r, i)'
    <3>1. senders'[r][i] = senders[r][i] /\ arg'[r] = arg[r] /\ messages \subseteq messages'
      BY <2>1, <2>2, <2>4, <2>7
    <3> QED
      BY <2>5, <3>1, SenderFrame
  <2>8. PostedOK(r)'
    <3> SUFFICES ASSUME NEW i \in Posted(r)', SourceIsLocal(r, i)'
                 PROVE  /\ senders'[r][i].state # "none"
                        /\ i \in completed'[r] => senders'[r][i].state = "done"
      BY DEF PostedOK
    <3>1. SourceIsLocal(r, i)
      BY <2>2 DEF SourceIsLocal, PlanOf
    <3>2. CASE i = pc[r]
      BY <2>2, <2>3, <2>4, <3>1, <3>2 DEF Sender
    <3>3. CASE i # pc[r]
      <4>1. i \in Posted(r)
        BY <2>5, <3>3
      <4>2. i \in Positions
        BY <4>1, <2>3, CallTyped DEF Posted, Comms, RuntimeInv, IInv
      <4> QED
        BY <2>2, <2>4, <3>1, <3>3, <4>1, <4>2 DEF PostedOK
    <3> QED
      BY <3>2, <3>3
  <2> QED
    BY <2>6, <2>7, <2>8
<1>4. CASE WaitReturns(r)
  <2>1. /\ FinishGroup(r, Arrived(r)) /\ Joined(r)
        /\ senders' = senders /\ messages' = messages
    BY <1>4 DEF WaitReturns
  <2>2. /\ UNCHANGED <<arg, runs, stage, pc>> /\ Bound(r)
        /\ completed' = [completed EXCEPT ![r] = @ \cup {waiting[r]}]
    BY <2>1, FinishEffect
  <2>3. completed'[r] = completed[r] \cup {waiting[r]}
    BY <2>2 DEF RuntimeInv, IInv, TypeOK
  <2>4. Posted(r)' = Posted(r)
    BY <2>2 DEF Posted, PlanOf
  <2>5. \A i \in Positions : SenderOK(r, i)'
    BY <2>1, <2>2, <2>4, SenderFrame
  <2> QED
    BY <2>1, <2>2, <2>3, <2>4, <2>5 DEF PostedOK, SourceIsLocal, PlanOf, Joined
<1>5. CASE CallStep(r)
  <2>1. UNCHANGED <<arg, pc, completed, senders, messages>>
    BY <1>5, CallEffect
  <2>2. Bound(r)' => Bound(r)
    BY <1>5, CallEffect DEF Bound, RuntimeInv, IInv, TypeOK
  <2>3. Posted(r)' = Posted(r)
    BY <2>1 DEF Posted, PlanOf
  <2>4. \A i \in Positions : SenderOK(r, i)'
    BY <2>1, <2>3, SenderFrame
  <2> QED
    BY <2>1, <2>2, <2>3, <2>4 DEF PostedOK, SourceIsLocal, PlanOf
<1> QED
  BY <1>1, <1>2, <1>3, <1>4, <1>5 DEF RankStep, CallStep

\* No rank reaches into another one's senders, progress or entry in the table:
\* they meet in the published messages alone.
LEMMA RankFrame ==
  ASSUME MockInv, NEW r \in Ranks, RankStep(r), NEW s \in Ranks, s # r
  PROVE  /\ Same(s)
         /\ senders'[s] = senders[s] /\ received'[s] = received[s]
         /\ messages' = messages /\ digests'[s] = digests[s]
         /\ s \in barrier' => s \in barrier
<1> USE DEF MockInv
<1>1. Same(s)
  <2>1. CASE Step(r)
    BY <2>1, OthersSame DEF RuntimeInv
  <2>2. CASE UNCHANGED rtVars
    BY <2>2 DEF rtVars, Same
  <2> QED
    BY <2>1, <2>2, RankIsStep
<1>2. /\ received \in [Ranks -> Nat] /\ senders \in [Ranks -> [Positions ->
           [state : SenderStates, next : Nat, data : Data \cup {NoData}]]]
      /\ digests = [q \in Ranks |-> digests[q]]
  BY DEF TablesOK, MockTypeOK
<1>3. CASE Restart(r) \/ LocalStep(r) \/ Communicate(r) \/ WaitReturns(r)
  BY <1>1, <1>2, <1>3 DEF Restart, LocalStep, Communicate, WaitReturns, clusterVars
<1>4. CASE CallStep(r)
  <2>1. senders' = senders /\ messages' = messages
    BY <1>4, CallEffect
  <2>2. received'[s] = received[s]
    BY <1>2, <1>4, CallEffect DEF Receive
  <2>3. digests'[s] = digests[s] /\ (s \in barrier' => s \in barrier)
    BY <1>2, <1>4 DEF CallStep, EnterPreflight, PreflightTwice, WakeInPreflight, LeaveBarrier,
                      SenderFailed, Receive, SetAborted, NotifyAborted, CallThrows, clusterVars
  <2> QED
    BY <1>1, <2>1, <2>2, <2>3
<1> QED
  BY <1>3, <1>4 DEF RankStep, CallStep

\* What is said of a rank's senders and of its wait outlives the steps of the
\* others, which only add messages.
LEMMA OthersKept ==
  ASSUME MockInv, NEW s \in Ranks, Same(s), senders'[s] = senders[s],
         received'[s] = received[s], messages \subseteq messages'
  PROVE  /\ PostedOK(s)' /\ WaitOK(s)'
         /\ \A i \in Positions : SenderOK(s, i)'
<1>1. /\ arg'[s] = arg[s] /\ stage'[s] = stage[s] /\ pc'[s] = pc[s]
      /\ completed'[s] = completed[s] /\ waiting'[s] = waiting[s]
  BY DEF Same
<1>2. Posted(s)' = Posted(s)
  BY <1>1 DEF Posted, PlanOf
<1>3. \A i \in Positions : SenderOK(s, i)'
  <2>1. \A i \in Positions : SenderOK(s, i)
    BY DEF MockInv
  <2> QED
    BY <1>1, <1>2, <2>1, SenderFrame
<1>4. PostedOK(s)'
  <2>1. PostedOK(s)
    BY DEF MockInv
  <2> QED
    BY <1>1, <1>2, <2>1 DEF PostedOK, Bound, SourceIsLocal, PlanOf
<1>5. WaitOK(s)'
  <2>1. WaitOK(s)
    BY DEF MockInv
  <2>2. Slots(s)' = Slots(s) /\ \A k : SlotKey(s, k)' = SlotKey(s, k)
    BY <1>1 DEF Slots, SlotKey, PlanOf
  <2>3. \A key : Published(key) => Published(key)'
    BY DEF Published
  <2>4. InWait(s)' = InWait(s)
    BY <1>1 DEF InWait
  <2> QED
    BY <1>1, <2>1, <2>2, <2>3, <2>4 DEF WaitOK
<1> QED
  BY <1>3, <1>4, <1>5

-----------------------------------------------------------------------------
(***************************************************************************)
(* The receiving half of wait.                                             *)
(***************************************************************************)
\* A rank owns finitely many slots of a communication, and two of them have
\* different numbers of slots before them.
LEMMA SlotRank ==
  ASSUME NEW p, PlanOK(p), NEW w \in Comms(p), NEW r, NEW k \in LocalOuts(p, w, r)
  PROVE  /\ Cardinality({j \in LocalOuts(p, w, r) : j < k}) \in Nat
         /\ \A l \in LocalOuts(p, w, r) :
              Cardinality({j \in LocalOuts(p, w, r) : j < l})
                = Cardinality({j \in LocalOuts(p, w, r) : j < k}) => l = k
<1> DEFINE S == LocalOuts(p, w, r)
           B(l) == {j \in S : j < l}
<1>1. IsFiniteSet(S) /\ S \subseteq Nat
  <2>1. S \in SUBSET DOMAIN p.code[w].outputs
    BY DEF LocalOuts
  <2>2. DOMAIN p.code[w].outputs = 1 .. Len(p.code[w].outputs)
        /\ Len(p.code[w].outputs) \in Nat \ {0}
    BY CommShape
  <2>3. IsFiniteSet(DOMAIN p.code[w].outputs)
    BY <2>2, SegmentFinite
  <2> QED
    BY <2>1, <2>2, <2>3, FS_Subset
<1> HIDE DEF S
<1>2. ASSUME NEW l \in S PROVE B(l) \in SUBSET S /\ IsFiniteSet(B(l)) /\ Cardinality(B(l)) \in Nat
  <2>1. B(l) \in SUBSET S
    OBVIOUS
  <2> HIDE DEF B
  <2> QED
    BY <1>1, <2>1, FS_Subset, FS_CardinalityType
<1>3. ASSUME NEW l \in S, NEW m \in S, l < m
      PROVE  Cardinality(B(l)) < Cardinality(B(m))
  <2>1. B(l) \in SUBSET B(m) /\ l \in B(m) /\ l \notin B(l)
    <3>1. l \in Nat /\ m \in Nat /\ \A j \in S : j \in Nat
      BY <1>1
    <3>2. \A j \in S : j < l => j < m
      BY <1>3, <3>1
    <3>3. l \in B(m)
      BY <1>3
    <3>4. l \notin B(l)
      BY <3>1
    <3>5. \A j \in B(l) : j \in B(m)
      BY <3>2
    <3> HIDE DEF B
    <3> QED
      BY <3>3, <3>4, <3>5
  <2>2. IsFiniteSet(B(m)) /\ Cardinality(B(l)) \in Nat /\ Cardinality(B(m)) \in Nat
    BY <1>2
  <2> HIDE DEF B
  <2>3. /\ Cardinality(B(l)) <= Cardinality(B(m))
        /\ Cardinality(B(l)) = Cardinality(B(m)) => B(l) = B(m)
    BY <2>1, <2>2, FS_Subset
  <2> QED
    BY <2>1, <2>2, <2>3
<1>4. ASSUME NEW l \in S, Cardinality(B(l)) = Cardinality(B(k)) PROVE l = k
  <2>1. k \in S
    BY DEF S
  <2>2. Cardinality(B(l)) \in Nat /\ Cardinality(B(k)) \in Nat
    BY <1>2, <2>1
  <2>3. ~(l < k) /\ ~(k < l)
    <3>1. l < k => Cardinality(B(l)) < Cardinality(B(k))
      BY <1>3, <2>1
    <3>2. k < l => Cardinality(B(k)) < Cardinality(B(l))
      BY <1>3, <2>1
    <3> HIDE DEF B
    <3> QED
      BY <1>4, <2>2, <3>1, <3>2
  <2> QED
    BY <1>1, <2>1, <2>3
<1> QED
  BY <1>2, <1>4 DEF S


\* A step of a rank keeps the count of what its wait has received: a slot is
\* counted once its message is published, the slots in ascending order
\* (MockVecApi::wait).
LEMMA OwnWait ==
  ASSUME MockInv, RuntimeInv', NEW r \in Ranks, RankStep(r)
  PROVE  WaitOK(r)'
<1> USE DEF MockInv
<1>1. received \in [Ranks -> Nat] /\ WaitOK(r) /\ waiting[r] \in Nat
  BY DEF TablesOK, MockTypeOK, RuntimeInv, IInv, TypeOK
<1>2. ASSUME waiting'[r] = 0, received'[r] = 0 PROVE WaitOK(r)'
  BY <1>2 DEF WaitOK
<1>3. CASE Restart(r)
  <2>1. waiting'[r] = 0 /\ received'[r] = 0
    BY <1>1, <1>3 DEF Restart, Start, RuntimeInv, IInv, TypeOK
  <2> QED
    BY <1>2, <2>1
<1>4. CASE LocalStep(r)
  <2>1. RuntimeStep(r) /\ received' = received
    BY <1>4 DEF LocalStep, clusterVars
  <2>2. /\ stage[r] \in {"setup", "bind", "init", "exec", "sync"} /\ ~InWait(r)
        /\ \/ waiting'[r] = waiting[r]
           \/ waiting[r] = 0 /\ stage'[r] = stage[r] /\ stage[r] \in {"init", "exec"}
    BY <2>1, LocalEffect
  <2>3. waiting[r] = 0 /\ received'[r] = 0
    BY <1>1, <2>1, <2>2 DEF WaitOK
  <2>4. CASE waiting'[r] # 0
    <3> DEFINE p == PlanOf(r)'
               w == waiting'[r]
    <3>1. stage'[r] \in {"init", "exec"} /\ InWait(r)'
      BY <2>2, <2>3, <2>4 DEF InWait
    <3>2. w \in Comms(p)
      BY <2>4 DEF RuntimeInv, IInv, GroupsKnown, OpenGroups, Posted
    <3>3. PlanOK(p)
      <4>1. Accepted(r)' /\ arg'[r] \in Args[r]
        BY <3>1 DEF RuntimeInv, IInv, ArgsOK, Counted
      <4> QED
        BY <4>1, PlanTyped DEF PlanOK, Accepted, PlanOf
    <3>4. Slots(r)' = LocalOuts(p, w, r)
      BY DEF Slots
    <3> HIDE DEF p, w
    <3>5. \A k \in Slots(r)' : Cardinality({j \in Slots(r)' : j < k}) \in Nat
      BY <3>2, <3>3, <3>4, SlotRank
    <3>6. \A k \in Slots(r)' : ~(Cardinality({j \in Slots(r)' : j < k}) < 0)
      BY <3>5
    <3> QED
      BY <2>3, <2>4, <3>1, <3>6 DEF WaitOK
  <2> QED
    BY <1>2, <2>3, <2>4
<1>5. CASE Communicate(r)
  <2>1. PostComm(r) /\ received' = received
    BY <1>5 DEF Communicate
  <2>2. waiting' = waiting /\ waiting[r] = 0 /\ stage[r] \in {"init", "exec"}
    BY <2>1, PostEffect
  <2>3. received[r] = 0
    BY <1>1, <2>2 DEF WaitOK
  <2> QED
    BY <1>2, <2>1, <2>2, <2>3
<1>6. CASE WaitReturns(r)
  <2>1. FinishGroup(r, Arrived(r)) /\ received'[r] = 0
    BY <1>1, <1>6 DEF WaitReturns
  <2>2. waiting'[r] = 0
    <3>1. waiting' = [waiting EXCEPT ![r] = 0]
      BY <2>1, FinishEffect
    <3> QED
      BY <3>1 DEF RuntimeInv, IInv, TypeOK
  <2> QED
    BY <1>2, <2>1, <2>2
<1>7. CASE CallStep(r)
  <2>1. /\ UNCHANGED <<arg, waiting, messages>>
        /\ \/ stage' = stage
           \/ stage' = [stage EXCEPT ![r] = "aborting"]
           \/ stage' = [stage EXCEPT ![r] = "panic"]
           \/ stage' = [stage EXCEPT ![r] = "bind"] /\ stage[r] = "preflight"
        /\ ~Receive(r) => received' = received
    BY <1>7, CallEffect
  <2>2. \/ stage'[r] = stage[r] \/ stage'[r] \in {"aborting", "panic"}
        \/ stage'[r] = "bind" /\ stage[r] = "preflight"
    BY <2>1 DEF RuntimeInv, IInv, TypeOK
  <2>3. /\ Slots(r)' = Slots(r) /\ \A k : SlotKey(r, k)' = SlotKey(r, k)
        /\ \A key : Published(key)' = Published(key)
    BY <2>1 DEF Slots, SlotKey, PlanOf, Published
  <2>4. CASE stage'[r] \in {"aborting", "panic"}
    BY <2>4 DEF WaitOK
  <2>5. CASE stage'[r] = "bind" /\ stage[r] = "preflight"
    <3>1. waiting[r] = 0 /\ received[r] = 0
      BY <1>1, <2>5 DEF WaitOK, InWait
    <3>2. received' = received
      BY <2>1, <2>5 DEF Receive, InWait
    <3> QED
      BY <1>2, <2>1, <3>1, <3>2
  <2>6. CASE stage'[r] = stage[r] /\ received' = received
    <3>1. InWait(r)' = InWait(r)
      BY <2>1, <2>6 DEF InWait
    <3> QED
      BY <1>1, <2>1, <2>3, <2>6, <3>1 DEF WaitOK
  <2>7. CASE /\ stage'[r] = stage[r] /\ stage[r] \notin {"aborting", "panic"}
             /\ received' # received
    <3>1. /\ InWait(r) /\ Published(SlotKey(r, NextSlot(r)))
          /\ received' = [received EXCEPT ![r] = received[r] + 1]
      BY <2>1, <2>7 DEF Receive, Throw
    <3>2. received'[r] = received[r] + 1 /\ waiting[r] # 0 /\ InWait(r)'
      BY <1>1, <2>1, <2>7, <3>1 DEF InWait
    <3>3. PlanOK(PlanOf(r)) /\ waiting[r] \in Comms(PlanOf(r))
      <4>1. waiting[r] \in OpenGroups(r) /\ Counted(r)
        BY <3>1 DEF RuntimeInv, IInv, GroupsKnown, InWait, Counted
      <4> QED
        BY <4>1, OpenGroupAt, RankPlan DEF RuntimeInv, IInv
    <3>4. ASSUME NEW k \in Slots(r), Cardinality({j \in Slots(r) : j < k}) < received[r] + 1
          PROVE  Published(SlotKey(r, k))
      <4>1. /\ Cardinality({j \in Slots(r) : j < k}) \in Nat
            /\ \A l \in Slots(r) : Cardinality({j \in Slots(r) : j < l})
                 = Cardinality({j \in Slots(r) : j < k}) => l = k
        BY <3>3, SlotRank DEF Slots
      <4>2. CASE Cardinality({j \in Slots(r) : j < k}) < received[r]
        BY <1>1, <2>7, <3>2, <4>2 DEF WaitOK
      <4>3. CASE Cardinality({j \in Slots(r) : j < k}) = received[r]
        <5>1. NextSlot(r) \in Slots(r)
              /\ Cardinality({j \in Slots(r) : j < NextSlot(r)}) = received[r]
          BY <4>3 DEF NextSlot
        <5>2. NextSlot(r) = k
          BY <4>1, <4>3, <5>1
        <5> QED
          BY <3>1, <5>2
      <4> QED
        BY <1>1, <3>4, <4>1, <4>2, <4>3
    <3> QED
      BY <2>1, <2>3, <3>2, <3>4 DEF WaitOK
  <2>8. CASE stage'[r] = stage[r] /\ stage[r] \in {"aborting", "panic"}
    BY <2>8 DEF WaitOK
  <2> QED
    BY <2>2, <2>4, <2>5, <2>6, <2>7, <2>8
<1> QED
  BY <1>3, <1>4, <1>5, <1>6, <1>7 DEF RankStep, CallStep


-----------------------------------------------------------------------------
(***************************************************************************)
(* The barrier.                                                            *)
(***************************************************************************)
\* A rank that gets past the barrier has seen a full table of agreeing entries,
\* its own among them (MockCluster::preflight).
LEMMA PassedBarrier ==
  ASSUME MockInv, NEW r \in Ranks,
         EnterPreflight(r) \/ WakeInPreflight(r), stage'[r] \notin {"preflight", "aborting"}
  PROVE  AllArrived(digests') /\ Agreed(digests') /\ digests'[r] = Brought(r)
<1> USE DEF MockInv
<1>1. stage \in [Ranks -> Stages] /\ digests = [q \in Ranks |-> digests[q]]
  BY DEF RuntimeInv, IInv, TypeOK, TablesOK
<1>2. ASSUME NEW d, NEW awake, LeaveBarrier(r, d, awake) PROVE ~aborted /\ Agreed(d)
  <2>1. ~Throw(r, "api")
    BY <1>1 DEF Throw
  <2> QED
    BY <1>2, <2>1 DEF LeaveBarrier
<1>3. CASE EnterPreflight(r)
  <2> DEFINE d == [digests EXCEPT ![r] = Brought(r)]
  <2>1. LeaveBarrier(r, d, {}) /\ digests' = d /\ (aborted \/ AllArrived(d))
    BY <1>1, <1>3 DEF EnterPreflight, rtVars
  <2>2. d[r] = Brought(r)
    BY <1>1
  <2> HIDE DEF d
  <2> QED
    BY <1>2, <2>1, <2>2
<1>4. CASE WakeInPreflight(r)
  <2>1. /\ LeaveBarrier(r, digests, asleep) /\ digests' = digests
        /\ aborted \/ AllArrived(digests)
    BY <1>1, <1>4 DEF WakeInPreflight, BarrierOK, rtVars
  <2>2. digests[r] = Brought(r)
    BY <1>4 DEF WakeInPreflight, BarrierOK
  <2> QED
    BY <1>2, <2>1, <2>2
<1> QED
  BY <1>3, <1>4

\* The table only changes where it was empty.
LEMMA TableGrows ==
  ASSUME NEW r \in Ranks, RankStep(r), AllArrived(digests)
  PROVE  digests' = digests
BY DEF RankStep, Restart, LocalStep, EnterPreflight, PreflightTwice, WakeInPreflight,
       Communicate, SenderFailed, Receive, WaitReturns, SetAborted, NotifyAborted,
       CallThrows, clusterVars, AllArrived

\* The barrier lets nobody pass before all have agreed.
LEMMA AgreementKept ==
  ASSUME MockInv, NEW r \in Ranks, RankStep(r)
  PROVE  PreflightAgreement'
<1> USE DEF MockInv
<1>1. stage \in [Ranks -> Stages] /\ IInv
  BY DEF RuntimeInv, IInv, TypeOK
<1> SUFFICES ASSUME NEW s \in Ranks, PastPreflight(s)'
             PROVE  AllArrived(digests') /\ Agreed(digests') /\ digests'[s] = Brought(s)'
  BY DEF PreflightAgreement, AllArrived, Agreed
<1>2. ASSUME PastPreflight(s), arg'[s] = arg[s]
      PROVE  AllArrived(digests') /\ Agreed(digests') /\ digests'[s] = Brought(s)'
  <2>1. AllArrived(digests) /\ Agreed(digests) /\ digests[s] = Brought(s)
    BY <1>2 DEF PreflightAgreement
  <2>2. digests' = digests
    BY <2>1, TableGrows
  <2> QED
    BY <1>2, <2>1, <2>2 DEF Brought
<1>3. CASE s # r
  <2>1. Same(s)
    BY <1>3, RankFrame
  <2> QED
    BY <1>2, <2>1 DEF Same, PastPreflight
<1>4. CASE s = r
  <2>1. CASE Restart(r)
    BY <1>1, <1>4, <2>1 DEF Restart, Start, PastPreflight
  <2>2. CASE LocalStep(r)
    <3>1. RuntimeStep(r)
      BY <2>2 DEF LocalStep
    <3>2. arg'[r] = arg[r] /\ (PastPreflight(r)' => PastPreflight(r))
      BY <3>1, LocalEffect
    <3> QED
      BY <1>2, <1>4, <3>2
  <2>3. CASE Communicate(r)
    <3>1. PostComm(r)
      BY <2>3 DEF Communicate
    <3>2. UNCHANGED <<arg, stage>>
      BY <3>1, PostEffect
    <3> QED
      BY <1>2, <1>4, <3>2 DEF PastPreflight
  <2>4. CASE WaitReturns(r)
    <3>1. FinishGroup(r, Arrived(r))
      BY <2>4 DEF WaitReturns
    <3>2. UNCHANGED <<arg, stage>>
      BY <3>1, FinishEffect
    <3> QED
      BY <1>2, <1>4, <3>2 DEF PastPreflight
  <2>5. CASE CallStep(r)
    <3>1. /\ arg' = arg
          /\ \/ stage' = stage
             \/ stage' = [stage EXCEPT ![r] = "aborting"]
             \/ stage' = [stage EXCEPT ![r] = "panic"]
             \/ stage' = [stage EXCEPT ![r] = "bind"] /\ stage[r] = "preflight"
      BY <2>5, CallEffect
    <3>2. CASE PastPreflight(r)
      BY <1>2, <1>4, <3>1, <3>2
    <3>3. CASE ~PastPreflight(r)
      <4>1. stage'[r] = "bind" /\ stage[r] = "preflight"
        BY <1>1, <1>4, <3>1, <3>3 DEF PastPreflight
      <4>2. EnterPreflight(r) \/ WakeInPreflight(r)
        BY <1>1, <2>5, <4>1 DEF CallStep, PreflightTwice, SenderFailed, Receive, InWait,
                                SetAborted, NotifyAborted, CallThrows, ApiThrows, Throw, Panic, rtVars
      <4>3. AllArrived(digests') /\ Agreed(digests') /\ digests'[r] = Brought(r)
        BY <4>1, <4>2, PassedBarrier
      <4> QED
        BY <1>4, <3>1, <4>3 DEF Brought
    <3> QED
      BY <3>2, <3>3
  <2> QED
    BY <2>1, <2>2, <2>3, <2>4, <2>5 DEF RankStep, CallStep
<1> QED
  BY <1>3, <1>4

\* A rank inside the barrier takes no other step.
LEMMA BarrierKept ==
  ASSUME MockInv, NEW r \in Ranks, RankStep(r)
  PROVE  BarrierOK'
<1> USE DEF MockInv
<1>1. /\ stage \in [Ranks -> Stages] /\ IInv /\ barrier \subseteq Ranks
      /\ digests = [q \in Ranks |-> digests[q]]
  BY DEF RuntimeInv, IInv, TypeOK, TablesOK, MockTypeOK
<1>2. \A s \in barrier : s \in Ranks /\ stage[s] = "preflight" /\ digests[s] = Brought(s)
  BY <1>1 DEF BarrierOK
<1>3. ASSUME NEW s \in barrier', s # r
      PROVE  stage'[s] = "preflight" /\ digests'[s] = Brought(s)'
  <2>1. s \in Ranks
    BY <1>1, <1>3 DEF RankStep, Restart, LocalStep, EnterPreflight, PreflightTwice, WakeInPreflight,
                      LeaveBarrier, Communicate, SenderFailed, Receive, WaitReturns, SetAborted,
                      NotifyAborted, CallThrows, clusterVars
  <2>2. Same(s) /\ digests'[s] = digests[s] /\ s \in barrier
    BY <1>3, <2>1, RankFrame
  <2> QED
    BY <1>2, <2>2 DEF Same, Brought
<1>4. ASSUME r \in barrier' PROVE stage'[r] = "preflight" /\ digests'[r] = Brought(r)'
  <2>1. CASE EnterPreflight(r)
    <3>1. ~LeaveBarrier(r, [digests EXCEPT ![r] = Brought(r)], {})
      BY <1>4 DEF LeaveBarrier
    <3>2. /\ stage[r] = "preflight" /\ UNCHANGED rtVars
          /\ digests' = [digests EXCEPT ![r] = Brought(r)]
      BY <2>1, <3>1 DEF EnterPreflight
    <3> QED
      BY <1>1, <3>2 DEF rtVars, Brought
  <2>2. CASE WakeInPreflight(r)
    <3>1. ~LeaveBarrier(r, digests, asleep)
      BY <1>4 DEF LeaveBarrier
    <3>2. r \in barrier /\ UNCHANGED rtVars /\ digests' = digests
      BY <2>2, <3>1 DEF WakeInPreflight
    <3> QED
      BY <1>2, <3>2 DEF rtVars, Brought
  <2>3. CASE ~EnterPreflight(r) /\ ~WakeInPreflight(r)
    <3>1. r \in barrier /\ stage[r] = "preflight"
      BY <1>2, <1>4, <2>3 DEF RankStep, Restart, LocalStep, PreflightTwice,
                      Communicate, SenderFailed, Receive, WaitReturns, SetAborted,
                      NotifyAborted, CallThrows, clusterVars
    <3>2. ~LocalStep(r) /\ ~Restart(r)
      <4>1. RuntimeStep(r) => stage[r] \in {"setup", "bind", "init", "exec", "sync"}
        BY LocalEffect
      <4> QED
        BY <3>1, <4>1 DEF LocalStep, Restart, Start
    <3> QED
      BY <2>3, <3>1, <3>2 DEF RankStep, PreflightTwice, Communicate, PostComm, Running,
                      SenderFailed, Receive, WaitReturns, FinishGroup, InWait, SetAborted,
                      NotifyAborted, Panic, CallThrows
  <2> QED
    BY <2>1, <2>2, <2>3
<1> QED
  BY <1>3, <1>4 DEF BarrierOK


-----------------------------------------------------------------------------
(***************************************************************************)
(* Sender threads.                                                         *)
(***************************************************************************)
\* What a step of a sender does to its thread: publish stores the message of
\* the next slot, everything else leaves the messages alone
\* (communicate_async's lambda).
LEMMA SenderEffect ==
  ASSUME MockInv, NEW q \in Ranks, NEW i \in Positions, SenderStep(q, i)
  PROVE  /\ UNCHANGED <<rtVars, digests, barrier, received>>
         /\ senders[q][i].state \in {"publishing", "failing", "notifying"}
         /\ \E state \in SenderStates \ {"none"} : \E next \in Nat \ {0} :
              /\ senders' = [senders EXCEPT ![q][i] = Sender(state, next, senders[q][i].data)]
              /\ \/ /\ messages' = messages /\ next = senders[q][i].next
                    /\ state \in {"failing", "notifying", "panic"}
                 \/ /\ messages' = messages \cup
                         {[id |-> PlanOf(q).code[i].id, slot |-> senders[q][i].next,
                           data |-> senders[q][i].data]}
                    /\ senders[q][i].state = "publishing"
                    /\ next = senders[q][i].next + 1
                    /\ state = IF senders[q][i].next = Len(PlanOf(q).code[i].outputs)
                               THEN "done" ELSE "publishing"
<1> DEFINE s == senders[q][i]
<1>1. s.state # "none" => s.next \in Nat \ {0}
  BY DEF MockInv, SenderOK
<1> DEFINE new == [id |-> PlanOf(q).code[i].id, slot |-> s.next, data |-> s.data]
           end == Len(PlanOf(q).code[i].outputs)
           after == IF s.next = end THEN "done" ELSE "publishing"
           Moved(state, next) == senders' = [senders EXCEPT ![q][i] = Sender(state, next, s.data)]
<1>2. CASE Publish(q, i)
  <2>1. UNCHANGED <<rtVars, digests, barrier, received>> /\ s.state = "publishing"
    BY <1>2 DEF Publish
  <2>2. \/ Moved("panic", s.next) /\ messages' = messages
        \/ Moved(after, s.next + 1) /\ messages' = messages \cup {new}
        \/ Moved("failing", s.next) /\ messages' = messages
    BY <1>2 DEF Publish, SetSender
  <2>3. CASE \E state \in {"panic", "failing"} : Moved(state, s.next) /\ messages' = messages
    BY <1>1, <2>1, <2>3 DEF SenderStates
  <2>4. CASE Moved(after, s.next + 1) /\ messages' = messages \cup {new}
    <3>1. after \in SenderStates \ {"none"} /\ s.next + 1 \in Nat \ {0}
      BY <1>1, <2>1 DEF SenderStates
    <3> QED
      BY <2>1, <2>4, <3>1
  <2> QED
    BY <2>2, <2>3, <2>4
<1>3. CASE SenderAborts(q, i) \/ SenderNotifies(q, i)
  <2>1. /\ UNCHANGED <<rtVars, digests, barrier, received>>
        /\ s.state \in {"failing", "notifying"} /\ messages' = messages
        /\ \E state \in {"notifying", "panic"} : Moved(state, s.next)
    BY <1>3 DEF SenderAborts, SenderNotifies, SetSender
  <2> QED
    BY <1>1, <2>1 DEF SenderStates
<1> QED
  BY <1>2, <1>3 DEF SenderStep

\* The thread that moved has published every slot before its next one, and is
\* done after the last.
LEMMA MovedSender ==
  ASSUME MockInv, NEW q \in Ranks, NEW i \in Positions, SenderStep(q, i)
  PROVE  SenderOK(q, i)' /\ messages \subseteq messages'
<1> DEFINE s == senders[q][i]
           id == PlanOf(q).code[i].id
           end == Len(PlanOf(q).code[i].outputs)
           new == [id |-> id, slot |-> s.next, data |-> s.data]
<1>1. PICK state \in SenderStates \ {"none"}, next \in Nat \ {0} :
        /\ senders' = [senders EXCEPT ![q][i] = Sender(state, next, s.data)]
        /\ \/ /\ messages' = messages /\ next = s.next
              /\ state \in {"failing", "notifying", "panic"}
           \/ /\ messages' = messages \cup {new}
              /\ s.state = "publishing" /\ next = s.next + 1
              /\ state = IF s.next = end THEN "done" ELSE "publishing"
  BY SenderEffect
<1>2. s.state # "none" /\ UNCHANGED rtVars
  BY SenderEffect
<1>3. /\ i \in Posted(q) /\ SourceIsLocal(q, i) /\ s.data \in Data /\ s.next \in Nat \ {0}
      /\ \A k \in 1 .. end : k < s.next => Published(<<id, k>>)
      /\ s.state = "publishing" => s.next <= end
  BY <1>2 DEF MockInv, SenderOK
<1>4. end \in Nat
  <2>1. i \in DOMAIN PlanOf(q).code /\ IsPlan(PlanOf(q), ValueIds)
    BY <1>3, PlanOfTyped DEF MockInv, RuntimeInv, IInv, Posted, Comms
  <2>2. PlanOf(q).code[i] \in Instructions(ValueIds)
    BY <2>1, InstructionTyped
  <2> QED
    BY <2>2 DEF Instructions
<1>5. senders'[q][i] = Sender(state, next, s.data)
  BY <1>1 DEF MockInv, TablesOK, MockTypeOK
<1>6. /\ Posted(q)' = Posted(q) /\ SourceIsLocal(q, i)' = SourceIsLocal(q, i)
      /\ PlanOf(q)' = PlanOf(q)
  BY <1>2 DEF rtVars, Posted, SourceIsLocal, PlanOf
<1>7. messages \subseteq messages'
  BY <1>1
<1>8. ASSUME NEW k \in 1 .. end, k < next
      PROVE  \E m \in messages' : m.id = id /\ m.slot = k
  <2>1. CASE k < s.next
    <3>1. Published(<<id, k>>)
      BY <1>3, <2>1
    <3> QED
      BY <1>7, <3>1 DEF Published
  <2>2. CASE ~(k < s.next)
    <3>1. k = s.next /\ messages' = messages \cup {new}
      BY <1>1, <1>3, <1>4, <1>8, <2>2
    <3>2. new \in messages' /\ new.id = id /\ new.slot = k
      BY <3>1
    <3> QED
      BY <3>2
  <2> QED
    BY <2>1, <2>2
<1>9. /\ state = "publishing" => next <= end
      /\ state = "done" => next > end
  BY <1>1, <1>3, <1>4
<1> HIDE DEF s, id, end, new
<1>10. /\ senders'[q][i].state = state /\ senders'[q][i].next = next
       /\ senders'[q][i].data \in Data
  BY <1>3, <1>5 DEF Sender
<1>11. SenderOK(q, i)'
  BY <1>3, <1>6, <1>8, <1>9, <1>10 DEF SenderOK, Published, id, end
<1> QED
  BY <1>7, <1>11

\* A step of a sender keeps what is said of every rank.
LEMMA SenderKept ==
  ASSUME MockInv, NEW q \in Ranks, NEW i \in Positions, SenderStep(q, i)
  PROVE  /\ \A r \in Ranks : PostedOK(r)' /\ WaitOK(r)'
         /\ \A r \in Ranks : \A j \in Positions : SenderOK(r, j)'
         /\ BarrierOK' /\ PreflightAgreement'
<1>1. PICK state \in SenderStates \ {"none"} :
        \E next : senders' = [senders EXCEPT ![q][i] = Sender(state, next, senders[q][i].data)]
  BY SenderEffect
<1>2. /\ UNCHANGED <<rtVars, digests, barrier, received>>
      /\ senders[q][i].state \in {"publishing", "failing", "notifying"}
  BY SenderEffect
<1>3. SenderOK(q, i)' /\ messages \subseteq messages'
  BY MovedSender
<1>4. /\ \A r \in Ranks : r # q => senders'[r] = senders[r]
      /\ \A j \in Positions : j # i => senders'[q][j] = senders[q][j]
      /\ senders'[q][i].state # "none"
  BY <1>1 DEF MockInv, TablesOK, MockTypeOK, Sender
<1>5. \A r \in Ranks : Same(r) /\ received'[r] = received[r]
  BY <1>2 DEF rtVars, Same
<1>6. ASSUME NEW r \in Ranks, r # q
      PROVE  PostedOK(r)' /\ WaitOK(r)' /\ \A j \in Positions : SenderOK(r, j)'
  BY <1>3, <1>4, <1>5, <1>6, OthersKept
<1>7. ASSUME NEW j \in Positions PROVE SenderOK(q, j)'
  <2>1. CASE j = i
    BY <1>3, <2>1
  <2>2. CASE j # i
    <3>1. SenderOK(q, j) /\ senders'[q][j] = senders[q][j]
      BY <1>4, <2>2 DEF MockInv
    <3>2. arg'[q] = arg[q] /\ Posted(q) \subseteq Posted(q)'
      BY <1>2 DEF rtVars, Posted, PlanOf
    <3> QED
      BY <1>3, <3>1, <3>2, SenderFrame
  <2> QED
    BY <2>1, <2>2
<1>8. PostedOK(q)'
  <2> SUFFICES ASSUME Bound(q)', NEW j \in Posted(q)', SourceIsLocal(q, j)'
               PROVE  /\ senders'[q][j].state # "none"
                      /\ j \in completed'[q] => senders'[q][j].state = "done"
    BY DEF PostedOK
  <2>1. Bound(q) /\ j \in Posted(q) /\ SourceIsLocal(q, j) /\ completed' = completed
    BY <1>2 DEF rtVars, Bound, Posted, SourceIsLocal, PlanOf
  <2>2. /\ senders[q][j].state # "none"
        /\ j \in completed[q] => senders[q][j].state = "done"
    BY <2>1 DEF MockInv, PostedOK
  <2>3. j \in Positions
    BY <2>1, CallTyped DEF Posted, Comms, MockInv, RuntimeInv, IInv
  <2>4. CASE j = i
    BY <1>2, <1>4, <2>1, <2>2, <2>4
  <2>5. CASE j # i
    BY <1>4, <2>1, <2>2, <2>3, <2>5
  <2> QED
    BY <2>4, <2>5
<1>9. WaitOK(q)'
  <2>1. WaitOK(q)
    BY DEF MockInv
  <2>2. /\ Slots(q)' = Slots(q) /\ \A k : SlotKey(q, k)' = SlotKey(q, k)
        /\ InWait(q)' = InWait(q)
    BY <1>2 DEF rtVars, Slots, SlotKey, PlanOf, InWait
  <2>3. \A key : Published(key) => Published(key)'
    BY <1>3 DEF Published
  <2>4. /\ stage'[q] = stage[q] /\ waiting'[q] = waiting[q] /\ received'[q] = received[q]
    BY <1>2 DEF rtVars
  <2> QED
    BY <2>1, <2>2, <2>3, <2>4 DEF WaitOK
<1>10. BarrierOK' /\ PreflightAgreement'
  <2>1. BarrierOK /\ PreflightAgreement
    BY DEF MockInv
  <2> QED
    BY <1>2, <2>1 DEF BarrierOK, PreflightAgreement, PastPreflight, AllArrived, Agreed, Brought, rtVars
<1> QED
  BY <1>6, <1>7, <1>8, <1>9, <1>10


-----------------------------------------------------------------------------
(***************************************************************************)
(* The tables of the cluster.                                              *)
(***************************************************************************)
\* Every step of the cluster keeps the shapes of its tables.
LEMMA TablesKept ==
  ASSUME MockInv, [MockNext]_vars
  PROVE  TablesOK'
<1> DEFINE Threads == [Ranks -> [Positions ->
                        [state : SenderStates, next : Nat, data : Data \cup {NoData}]]]
           Request(d) == /\ d = [q \in Ranks |-> d[q]]
                         /\ \A r \in Ranks : d[r] # NotArrived => d[r] \in Requests
           Messages == [id : Nat, slot : Nat \ {0}, data : Data]
           Kept == /\ Request(digests') /\ messages' \subseteq Messages /\ aborted' \in BOOLEAN
                   /\ asleep' \subseteq Ranks /\ barrier' \subseteq Ranks /\ aborting' \subseteq Ranks
                   /\ received' \in [Ranks -> Nat] /\ senders' \in Threads
<1>1. /\ Request(digests) /\ messages \subseteq Messages /\ aborted \in BOOLEAN
      /\ asleep \subseteq Ranks /\ barrier \subseteq Ranks /\ aborting \subseteq Ranks
      /\ received \in [Ranks -> Nat] /\ senders \in Threads
  BY DEF MockInv, TablesOK, MockTypeOK, Requests
<1>2. SUFFICES Kept
  BY DEF TablesOK, MockTypeOK, Requests
<1>3. ASSUME NEW r \in Ranks, NEW i \in Positions, NEW state \in SenderStates, NEW next \in Nat,
             NEW data \in Data \cup {NoData},
             senders' = [senders EXCEPT ![r][i] = Sender(state, next, data)]
      PROVE  senders' \in Threads
  <2>1. Sender(state, next, data) \in [state : SenderStates, next : Nat, data : Data \cup {NoData}]
    BY DEF Sender
  <2> QED
    BY <1>1, <1>3, <2>1
<1>4. ASSUME NEW r \in Ranks, Restart(r) PROVE Kept
  <2>1. senders' \in Threads
    BY <1>1, <1>4 DEF Restart, NoSender, Sender, SenderStates
  <2> HIDE DEF Threads, Request, Messages
  <2> QED
    BY <1>1, <1>4, <2>1 DEF Restart
<1>5. ASSUME NEW r \in Ranks, LocalStep(r) \/ SpuriousWake(r) PROVE Kept
  <2> HIDE DEF Threads, Request, Messages
  <2> QED
    BY <1>1, <1>5 DEF LocalStep, SpuriousWake, clusterVars
<1>6. ASSUME NEW r \in Ranks, Communicate(r) PROVE Kept
  <2>1. /\ PostComm(r) /\ UNCHANGED <<digests, messages, aborted, asleep, barrier, aborting, received>>
        /\ senders' = IF stage'[r] # "aborting" /\ SourceIsLocal(r, pc[r])
                      THEN [senders EXCEPT ![r][pc[r]] = Sender("publishing", 1, InEntry(r, 1).data)]
                      ELSE senders
    BY <1>6 DEF Communicate
  <2>2. /\ pc[r] \in Comms(PlanOf(r))
        /\ SourceIsLocal(r, pc[r]) => InEntry(r, 1).data \in Data
    BY <2>1, PostEffect DEF MockInv
  <2>3. pc[r] \in Positions
    BY <2>2, CallTyped DEF MockInv, RuntimeInv, IInv, Comms
  <2>4. CASE senders' = senders
    BY <1>1, <2>1, <2>4
  <2>5. CASE senders' # senders
    <3>1. /\ senders' = [senders EXCEPT ![r][pc[r]] = Sender("publishing", 1, InEntry(r, 1).data)]
          /\ InEntry(r, 1).data \in Data
      BY <2>1, <2>2, <2>5
    <3>2. PICK i \in Positions : i = pc[r]
      BY <2>3
    <3>3. PICK data \in Data : data = InEntry(r, 1).data
      BY <3>1
    <3>4. senders' = [senders EXCEPT ![r][i] = Sender("publishing", 1, data)]
      BY <3>1, <3>2, <3>3
    <3>5. senders' \in Threads
      <4>1. "publishing" \in SenderStates /\ 1 \in Nat /\ data \in Data \cup {NoData}
        BY DEF SenderStates
      <4> HIDE DEF Threads
      <4> QED
        BY <1>3, <3>4, <4>1
    <3> HIDE DEF Threads, Request, Messages
    <3> QED
      BY <1>1, <2>1, <3>5
  <2> QED
    BY <2>4, <2>5
<1>7. ASSUME NEW r \in Ranks, WaitReturns(r) PROVE Kept
  <2>1. received' \in [Ranks -> Nat]
    BY <1>1, <1>7 DEF WaitReturns
  <2> HIDE DEF Threads, Request, Messages
  <2> QED
    BY <1>1, <1>7, <2>1 DEF WaitReturns
<1>8. ASSUME NEW r \in Ranks, CallStep(r) PROVE Kept
  <2>1. senders' = senders /\ messages' = messages
    BY <1>8, CallEffect DEF CallStep
  <2>2. Request(digests')
    <3>1. CASE EnterPreflight(r)
      <4>1. digests' = [digests EXCEPT ![r] = Brought(r)]
        BY <3>1 DEF EnterPreflight
      <4>2. Brought(r) \in Requests
        BY CallTyped DEF MockInv, RuntimeInv, IInv
      <4> QED
        BY <1>1, <4>1, <4>2
    <3>2. CASE ~EnterPreflight(r)
      <4>1. digests' = digests
        BY <1>8, <3>2 DEF CallStep, PreflightTwice, WakeInPreflight, SenderFailed, Receive,
                          SetAborted, NotifyAborted, CallThrows, clusterVars
      <4> QED
        BY <1>1, <4>1
    <3> QED
      BY <3>1, <3>2
  <2>3. received' \in [Ranks -> Nat]
    <3>1. CASE Receive(r)
      BY SMTT(30), <1>1, <3>1 DEF Receive
    <3>2. CASE ~Receive(r)
      BY <1>1, <1>8, <3>2, CallEffect
    <3> QED
      BY <3>1, <3>2
  <2>4. aborting' \subseteq Ranks
    BY <1>1, <1>8 DEF CallStep, EnterPreflight, PreflightTwice, WakeInPreflight, SenderFailed,
                      Receive, SetAborted, NotifyAborted, CallThrows, clusterVars
  <2>5. ASSUME NEW d, NEW awake \in SUBSET Ranks, LeaveBarrier(r, d, awake)
        PROVE  aborted' \in BOOLEAN /\ asleep' \subseteq Ranks /\ barrier' \subseteq Ranks
    BY <1>1, <2>5 DEF LeaveBarrier
  <2>6. aborted' \in BOOLEAN /\ asleep' \subseteq Ranks /\ barrier' \subseteq Ranks
    <3>1. CASE EnterPreflight(r)
      BY <1>1, <2>5, <3>1 DEF EnterPreflight
    <3>2. CASE WakeInPreflight(r)
      BY <1>1, <2>5, <3>2 DEF WakeInPreflight
    <3>3. CASE ~EnterPreflight(r) /\ ~WakeInPreflight(r)
      BY <1>1, <1>8, <3>3 DEF CallStep, PreflightTwice, SenderFailed,
                      Receive, SetAborted, NotifyAborted, CallThrows, clusterVars
    <3> QED
      BY <3>1, <3>2, <3>3
  <2> HIDE DEF Threads, Request, Messages
  <2> QED
    BY <1>1, <2>1, <2>2, <2>3, <2>4, <2>6
<1>9. ASSUME NEW q \in Ranks, NEW i \in Positions, SenderStep(q, i) PROVE Kept
  <2> DEFINE s == senders[q][i]
             id == PlanOf(q).code[i].id
             new == [id |-> id, slot |-> s.next, data |-> s.data]
  <2>1. UNCHANGED <<rtVars, digests, barrier, received>> /\ s.state # "none"
    BY <1>9, SenderEffect
  <2>2. PICK state \in SenderStates, next \in Nat :
          /\ senders' = [senders EXCEPT ![q][i] = Sender(state, next, s.data)]
          /\ messages' \in {messages, messages \cup {new}}
    BY <1>9, SenderEffect
  <2>3. i \in Posted(q) /\ s.data \in Data /\ s.next \in Nat \ {0}
    BY <2>1 DEF MockInv, SenderOK
  <2>4. id \in Nat
    <3>1. i \in DOMAIN PlanOf(q).code /\ IsPlan(PlanOf(q), ValueIds)
      BY <2>3, PlanOfTyped DEF MockInv, RuntimeInv, IInv, Posted, Comms
    <3>2. PlanOf(q).code[i] \in Instructions(ValueIds)
      BY <3>1, InstructionTyped
    <3> QED
      BY <3>2 DEF Instructions
  <2>5. new \in Messages
    BY <2>3, <2>4
  <2>6. messages' \subseteq Messages
    <3> HIDE DEF Messages, new
    <3> QED
      BY <1>1, <2>2, <2>5
  <2>7. senders' \in Threads
    <3>1. PICK data \in Data : data = s.data
      BY <2>3
    <3>2. senders' = [senders EXCEPT ![q][i] = Sender(state, next, data)]
      BY <2>2, <3>1
    <3> HIDE DEF Threads
    <3> QED
      BY <1>3, <3>2
  <2>8. aborted' \in BOOLEAN /\ asleep' \subseteq Ranks /\ aborting' \subseteq Ranks
    BY <1>1, <1>9 DEF SenderStep, Publish, SenderAborts, SenderNotifies
  <2> HIDE DEF Threads, Request, Messages, new
  <2> QED
    BY <1>1, <2>1, <2>6, <2>7, <2>8
<1>10. CASE UNCHANGED vars
  <2> HIDE DEF Threads, Request, Messages
  <2> QED
    BY <1>1, <1>10 DEF vars, clusterVars
<1> HIDE DEF Threads, Request, Messages
<1> QED
  BY <1>4, <1>5, <1>6, <1>7, <1>8, <1>9, <1>10 DEF MockNext, RankStep, CallStep, Terminating


-----------------------------------------------------------------------------
(***************************************************************************)
(* The invariant of the cluster.                                           *)
(***************************************************************************)
\* A new cluster and new instances (MockCluster's constructor).
LEMMA MockStart ==
  ASSUME MockInit
  PROVE  MockInv
<1>1. Init
  BY DEF MockInit
<1>2. RuntimeInv
  BY <1>1, RuntimeInit
<1>3. DataOK
  BY <1>1 DEF Init, DataOK, Absent
<1>4. \A r \in Ranks : stage[r] = "idle" /\ waiting[r] = 0
  BY <1>1 DEF Init
<1>5. \A r \in Ranks : received[r] = 0 /\ \A i \in Positions : senders[r][i].state = "none"
  BY DEF MockInit, NoSender, Sender
<1>6. TablesOK
  BY DEF MockInit, TablesOK, MockTypeOK, NoSender, Sender, SenderStates
<1>7. \A r \in Ranks : PostedOK(r) /\ WaitOK(r)
  BY <1>4, <1>5 DEF PostedOK, WaitOK, Bound
<1>8. \A r \in Ranks : \A i \in Positions : SenderOK(r, i)
  BY <1>5 DEF SenderOK
<1>9. BarrierOK /\ PreflightAgreement
  BY <1>4 DEF MockInit, BarrierOK, PreflightAgreement, PastPreflight
<1> QED
  BY <1>2, <1>3, <1>6, <1>7, <1>8, <1>9 DEF MockInv

\* Every step of a rank's thread, of a sender thread or of the condition
\* variable keeps the invariant.
LEMMA MockKept ==
  ASSUME MockInv, [MockNext]_vars
  PROVE  MockInv'
<1>1. [Next]_rtVars
  BY ClusterStep
<1>2. RuntimeInv' /\ DataOK' /\ TablesOK'
  BY <1>1, RuntimeKept, DataKept, TablesKept DEF MockInv
<1> DEFINE Rest == /\ \A r \in Ranks : PostedOK(r)' /\ WaitOK(r)'
                   /\ \A r \in Ranks : \A i \in Positions : SenderOK(r, i)'
                   /\ BarrierOK' /\ PreflightAgreement'
<1>3. ASSUME NEW r \in Ranks, RankStep(r) PROVE Rest
  <2>1. ASSUME NEW s \in Ranks
        PROVE  PostedOK(s)' /\ WaitOK(s)' /\ \A i \in Positions : SenderOK(s, i)'
    <3>1. CASE s = r
      BY <1>2, <1>3, <3>1, OwnSenders, OwnWait
    <3>2. CASE s # r
      <4>1. /\ Same(s) /\ senders'[s] = senders[s] /\ received'[s] = received[s]
            /\ messages' = messages \/ messages \subseteq messages'
        BY <1>3, <3>2, RankFrame
      <4>2. messages \subseteq messages'
        BY <4>1
      <4> QED
        BY <4>1, <4>2, OthersKept
    <3> QED
      BY <3>1, <3>2
  <2>2. BarrierOK' /\ PreflightAgreement'
    BY <1>3, BarrierKept, AgreementKept
  <2> QED
    BY <2>1, <2>2
<1>4. ASSUME NEW q \in Ranks, NEW i \in Positions, SenderStep(q, i) PROVE Rest
  BY <1>4, SenderKept
<1>5. ASSUME UNCHANGED <<rtVars, digests, messages, barrier, received, senders>> PROVE Rest
  <2>1. ASSUME NEW s \in Ranks
        PROVE  PostedOK(s)' /\ WaitOK(s)' /\ \A i \in Positions : SenderOK(s, i)'
    <3>1. Same(s)
      BY <1>5 DEF rtVars, Same
    <3> QED
      BY <1>5, <3>1, OthersKept
  <2>2. BarrierOK /\ PreflightAgreement
    BY DEF MockInv
  <2>3. BarrierOK' /\ PreflightAgreement'
    BY <1>5, <2>2 DEF BarrierOK, PreflightAgreement, PastPreflight, AllArrived, Agreed, Brought, rtVars
  <2> QED
    BY <2>1, <2>3
<1>6. ASSUME NEW r \in Ranks, SpuriousWake(r)
      PROVE  UNCHANGED <<rtVars, digests, messages, barrier, received, senders>>
  BY <1>6 DEF SpuriousWake
<1>7. ASSUME UNCHANGED vars PROVE Rest
  BY <1>5, <1>7 DEF vars, clusterVars
<1>8. Rest
  <2> HIDE DEF Rest
  <2> QED
    BY <1>3, <1>4, <1>5, <1>6, <1>7 DEF MockNext, Terminating
<1> QED
  BY <1>2, <1>8 DEF MockInv

\* The invariant of the cluster.
THEOREM MockInvariant == MockSpec => []MockInv
<1>1. MockInit => MockInv
  BY MockStart
<1>2. MockInv /\ [MockNext]_vars => MockInv'
  BY MockKept
<1> QED
  BY <1>1, <1>2, PTL DEF MockSpec

\* SequentialRuntime<MockVecApi> is SequentialRuntime: the cluster supplies one
\* of the behaviours the open Api was allowed, so every theorem about Spec holds
\* of the cluster.
THEOREM MockIsRuntime == MockSpec => Spec
<1>1. MockInit => Init
  BY DEF MockInit
<1>2. MockInv /\ [MockNext]_vars => [Next]_rtVars
  BY ClusterStep
<1> QED
  BY <1>1, <1>2, MockInvariant, PTL DEF MockSpec, Spec

\* The cluster's tables, wait sets and sender threads have their shape.
THEOREM MockTypes == MockSpec => []MockTypeOK
<1>1. MockInv => MockTypeOK
  BY DEF MockInv, TablesOK
<1> QED
  BY <1>1, MockInvariant, PTL

\* No rank touches its inputs or computes before all ranks have brought their
\* plans and agree (MockCluster::preflight).
THEOREM AgreementBeforeWork == MockSpec => []PreflightAgreement
<1>1. MockInv => PreflightAgreement
  BY DEF MockInv
<1> QED
  BY <1>1, MockInvariant, PTL

\* What a sender thread publishes stays in the sending rank's store until the
\* thread is joined: release_after_use comes after the wait.
THEOREM SourceIsHeld == MockSpec => []SourceHeldWhileSending
<1>1. ASSUME MockInv PROVE SourceHeldWhileSending
  <2> SUFFICES ASSUME NEW r \in Ranks, Bound(r), NEW i \in Positions,
                      senders[r][i].state \notin {"none", "done", "panic"}
               PROVE  /\ i \in OpenGroups(r)
                      /\ store[r][PlanOf(r).code[i].inputs[1]].state = "Ready"
    BY DEF SourceHeldWhileSending
  <2>1. i \in Posted(r) /\ SourceIsLocal(r, i)
    BY <1>1 DEF MockInv, SenderOK
  <2>2. i \notin completed[r]
    BY <1>1, <2>1 DEF MockInv, PostedOK
  <2>3. i \in OpenGroups(r)
    BY <2>1, <2>2 DEF OpenGroups
  <2>4. 1 \in LocalIns(PlanOf(r), i, r)
    <3>1. PlanOK(PlanOf(r)) /\ i \in Comms(PlanOf(r))
      BY <1>1, <2>1, RankPlan DEF MockInv, RuntimeInv, IInv, Bound, Counted, Posted
    <3> QED
      BY <2>1, <3>1, CommShape DEF LocalIns, InPlace, SourceIsLocal
  <2>5. OperandsHeld(r)
    BY <1>1 DEF MockInv, RuntimeInv, StoreInv, RankOK
  <2> QED
    BY <2>3, <2>4, <2>5 DEF OperandsHeld
<1> QED
  BY <1>1, MockInvariant, PTL

\* A rank that returned its artifact has joined every sender, and all it sends
\* is published (finish_all_groups, MockVecApi::wait).
THEOREM NothingLeftInFlight == MockSpec => []NothingInFlight
<1>1. ASSUME MockInv PROVE NothingInFlight
  <2> SUFFICES ASSUME NEW r \in Ranks, stage[r] = "done",
                      NEW i \in Comms(PlanOf(r)), SourceIsLocal(r, i)
               PROVE  /\ senders[r][i].state = "done"
                      /\ \A k \in DOMAIN PlanOf(r).code[i].outputs :
                           Published(<<PlanOf(r).code[i].id, k>>)
    BY DEF NothingInFlight
  <2>1. PlanOK(PlanOf(r)) /\ Bound(r)
    BY <1>1, RankPlan DEF MockInv, RuntimeInv, IInv, Bound, Counted
  <2>2. pc[r] = Len(PlanOf(r).code) + 1 /\ OpenGroups(r) = {}
    BY <1>1 DEF MockInv, RuntimeInv, StoreInv, RankOK, PcInPlan
  <2>3. i \in Posted(r)
    <3>1. Len(PlanOf(r).code) \in Nat /\ i \in 1 .. Len(PlanOf(r).code)
      BY <2>1, PlanShape
    <3> QED
      BY <2>2, <3>1 DEF Posted
  <2>4. i \in completed[r]
    BY <2>2, <2>3 DEF OpenGroups
  <2>5. senders[r][i].state = "done"
    BY <1>1, <2>1, <2>3, <2>4 DEF MockInv, PostedOK
  <2>6. i \in Positions
    BY <1>1, CallTyped DEF MockInv, RuntimeInv, IInv, Comms
  <2> DEFINE end == Len(PlanOf(r).code[i].outputs)
             next == senders[r][i].next
  <2>7. /\ \A k \in 1 .. end : k < next => Published(<<PlanOf(r).code[i].id, k>>)
        /\ next > end /\ next \in Nat
    BY <1>1, <2>5, <2>6 DEF MockInv, SenderOK
  <2>8. end \in Nat /\ DOMAIN PlanOf(r).code[i].outputs = 1 .. end
    BY <2>1, CommShape
  <2> HIDE DEF end, next
  <2>9. \A k \in 1 .. end : k < next
    BY <2>7, <2>8
  <2> QED
    BY <2>5, <2>7, <2>8, <2>9
<1> QED
  BY <1>1, MockInvariant, PTL


-----------------------------------------------------------------------------
(***************************************************************************)
(* Values.                                                                 *)
(***************************************************************************)
\* All ranks have met in preflight, and agree.
Met == AllArrived(digests) /\ Agreed(digests)

\* What is in the table was brought by a call of run().
TableOK ==
  \A r \in Ranks : digests[r] # NotArrived =>
    \E a \in Args[r] : digests[r] = [plan |-> a.plan, skip |-> a.skip]

\* A sender was started by a rank that had met the others, with the right value.
SenderRight(r, i) ==
  senders[r][i].state # "none" =>
    /\ Met /\ digests[r] = Brought(r) /\ PlanOK(PlanOf(r))
    /\ OnePlan(r) => senders[r][i].data = Origin(PlanOf(r))[PlanOf(r).code[i].inputs[1]]

\* A message is what a communication of the agreed plan sends.
MessageRight(m) ==
  /\ Met
  /\ \E q \in Ranks : LET p == Plans[digests[q].plan] IN
       PlanOK(p) /\ \E i \in Comms(p) :
         /\ p.code[i].id = m.id
         /\ (~digests[q].skip \/ OnePlanIfSkipped) => m.data = Origin(p)[p.code[i].inputs[1]]

ValuesInv ==
  /\ MockInv /\ TableOK
  /\ \A r \in Ranks : RightValues(r)
  /\ \A r \in Ranks : \A i \in Positions : SenderRight(r, i)
  /\ \A m \in messages : MessageRight(m)

\* Ranks that have met were called with one plan, when that is compared or a call
\* that skips the comparison has no other.
LEMMA MetOnePlan ==
  ASSUME Met, TableOK, NEW q \in Ranks, NEW r \in Ranks,
         ~digests[r].skip \/ OnePlanIfSkipped
  PROVE  digests[q].skip = digests[r].skip /\ digests[q].plan = digests[r].plan
<1>1. digests[q].skip = digests[r].skip /\ (digests[r].skip \/ digests[q].plan = digests[r].plan)
  BY DEF Met, Agreed
<1>2. PICK a \in Args[q] : digests[q] = [plan |-> a.plan, skip |-> a.skip]
  BY DEF Met, AllArrived, TableOK
<1>3. PICK b \in Args[r] : digests[r] = [plan |-> b.plan, skip |-> b.skip]
  BY DEF Met, AllArrived, TableOK
<1>4. CASE digests[r].skip
  <2>1. a.skip /\ b.skip
    BY <1>1, <1>2, <1>3, <1>4
  <2>2. a.plan = b.plan
    BY <1>4, <2>1 DEF OnePlanIfSkipped
  <2> QED
    BY <1>1, <1>2, <1>3, <2>2
<1> QED
  BY <1>1, <1>4

\* What wait returns is what the plan says of the group's outputs: the key of a
\* message names one communication of the one plan all ranks agreed on.
LEMMA ArrivedRight ==
  ASSUME ValuesInv, NEW r \in Ranks, InWait(r), AllReceived(r), OnePlan(r)
  PROVE  \A k \in GroupOuts(r) :
           Arrived(r)[GroupOut(r, k)] = Origin(PlanOf(r))[GroupOut(r, k)]
<1> DEFINE p == PlanOf(r)
           w == waiting[r]
<1>1. MockInv
  BY DEF ValuesInv
<1>2. PlanOK(p) /\ w \in Comms(p)
  <2>1. w \in OpenGroups(r) /\ Counted(r)
    BY <1>1 DEF MockInv, RuntimeInv, IInv, GroupsKnown, InWait, Counted
  <2> QED
    BY <1>1, <2>1, OpenGroupAt, RankPlan DEF MockInv, RuntimeInv, IInv
<1>3. digests[r] = Brought(r)
  BY <1>1 DEF MockInv, PreflightAgreement, PastPreflight, InWait
<1>4. ASSUME NEW m \in messages, m.id = p.code[w].id
      PROVE  m.data = Origin(p)[p.code[w].inputs[1]]
  <2>1. MessageRight(m)
    BY DEF ValuesInv
  <2>2. PICK q \in Ranks : LET b == Plans[digests[q].plan] IN
          PlanOK(b) /\ \E i \in Comms(b) :
            /\ b.code[i].id = m.id
            /\ (~digests[q].skip \/ OnePlanIfSkipped) => m.data = Origin(b)[b.code[i].inputs[1]]
    BY <2>1 DEF MessageRight
  <2>3. ~digests[r].skip \/ OnePlanIfSkipped
    BY <1>3 DEF Brought, OnePlan
  <2>4. digests[q].skip = digests[r].skip /\ digests[q].plan = digests[r].plan
    BY <2>1, <2>3, MetOnePlan DEF MessageRight, ValuesInv
  <2>5. (~digests[q].skip \/ OnePlanIfSkipped) /\ Plans[digests[q].plan] = p
    BY <1>3, <2>3, <2>4 DEF Brought, PlanOf
  <2>6. PICK i \in Comms(p) : p.code[i].id = m.id /\ m.data = Origin(p)[p.code[i].inputs[1]]
    BY <2>2, <2>5
  <2>7. i = w
    <3>1. i \in DOMAIN p.code /\ w \in DOMAIN p.code /\ i \in Nat /\ w \in Nat
          /\ p.code[i].op = "Comm" /\ p.code[w].op = "Comm"
      BY <1>2, CommShape
    <3>2. TransferIdFresh(p, i) /\ TransferIdFresh(p, w)
      BY <1>2, <3>1, PlanShape DEF InstructionOk, CommOk
    <3>3. w >= i /\ i >= w
      BY <1>2, <1>4, <2>6, <3>2 DEF TransferIdFresh
    <3> QED
      BY <3>1, <3>3
  <2> QED
    BY <2>6, <2>7
<1>5. ASSUME NEW k \in GroupOuts(r)
      PROVE  Arrived(r)[GroupOut(r, k)] = Origin(p)[GroupOut(r, k)]
  <2> DEFINE v == GroupOut(r, k)
             j == CHOOSE l \in Slots(r) : GroupOut(r, l) = v
             m == Message(SlotKey(r, j))
  <2>1. k \in Slots(r)
    BY DEF Slots, GroupOuts
  <2>2. j \in Slots(r) /\ GroupOut(r, j) = v
    BY <2>1
  <2>3. v \in ValueIds
    BY <1>2, CommShape, PlacesAgree DEF GroupOuts, GroupOut, LocalOuts
  <2>4. Arrived(r)[v] = m.data
    BY <2>1, <2>3 DEF Arrived
  <2> HIDE DEF j
  <2>5. Published(SlotKey(r, j))
    BY <1>1, <2>2, AllPublished
  <2>6. m \in messages /\ m.id = p.code[w].id
    BY <2>5 DEF Published, SlotKey, Message
  <2> HIDE DEF m
  <2>7. m.data = Origin(p)[p.code[w].inputs[1]]
    BY <1>4, <2>6
  <2>8. Origin(p)[v] = Origin(p)[p.code[w].inputs[1]]
    <3>1. k \in DOMAIN p.code[w].outputs /\ v = p.code[w].outputs[k]
      BY DEF GroupOuts, GroupOut, LocalOuts
    <3> QED
      BY <1>2, <3>1, OriginOf
  <2> QED
    BY <2>4, <2>7, <2>8
<1> QED
  BY <1>5

\* A step of a rank keeps its store right.
LEMMA RankValues ==
  ASSUME ValuesInv, NEW r \in Ranks, RankStep(r)
  PROVE  RightValues(r)'
<1>1. MockInv /\ RuntimeInv /\ RightValues(r)
  BY DEF ValuesInv, MockInv
<1>2. CASE Restart(r)
  <2>1. ~Bound(r)'
    BY <1>1, <1>2 DEF Restart, Start, Bound, RuntimeInv, IInv, TypeOK
  <2> QED
    BY <2>1 DEF RightValues
<1>3. CASE LocalStep(r)
  BY <1>1, <1>3, ValuesKept DEF LocalStep
<1>4. CASE Communicate(r)
  BY <1>1, <1>4, ValuesKept DEF Communicate
<1>5. CASE WaitReturns(r)
  <2>1. FinishGroup(r, Arrived(r)) /\ InWait(r) /\ AllReceived(r)
    BY <1>5 DEF WaitReturns
  <2>2. Arrived(r) \in [ValueIds -> Data]
    BY <1>1, <2>1, ArrivedTyped
  <2>3. OnePlan(r) => \A k \in GroupOuts(r) :
          Arrived(r)[GroupOut(r, k)] = Origin(PlanOf(r))[GroupOut(r, k)]
    BY <2>1, ArrivedRight
  <2> QED
    BY <1>1, <2>1, <2>2, <2>3, ValuesKept
<1>6. CASE CallStep(r)
  <2>1. UNCHANGED <<arg, store>>
    BY <1>1, <1>6, CallEffect
  <2>2. Bound(r)' => Bound(r)
    BY <1>1, <1>6, CallEffect DEF Bound, RuntimeInv, IInv, TypeOK
  <2> QED
    BY <1>1, <2>1, <2>2 DEF RightValues, PlanOf, OnePlan
<1> QED
  BY <1>2, <1>3, <1>4, <1>5, <1>6 DEF RankStep, CallStep

\* Once all have met, the table is final.
LEMMA MetForGood ==
  ASSUME Met, [MockNext]_vars
  PROVE  digests' = digests /\ Met'
<1>1. digests' = digests
  BY TableGrows DEF Met, MockNext, SpuriousWake, SenderStep, Publish, SenderAborts, SenderNotifies,
                    Terminating, vars, clusterVars
<1> QED
  BY <1>1 DEF Met, AllArrived, Agreed

\* What is said of a rank's senders outlives every step that leaves the thread's
\* data and the rank's call alone.
LEMMA SenderRightFrame ==
  ASSUME [MockNext]_vars, NEW r \in Ranks, NEW i \in Positions, SenderRight(r, i),
         arg'[r] = arg[r], senders'[r][i].data = senders[r][i].data,
         senders[r][i].state # "none" \/ senders'[r][i].state = "none"
  PROVE  SenderRight(r, i)'
<1>1. CASE senders'[r][i].state = "none"
  BY <1>1 DEF SenderRight
<1>2. CASE senders[r][i].state # "none"
  <2>1. /\ Met /\ digests[r] = Brought(r) /\ PlanOK(PlanOf(r))
        /\ OnePlan(r) => senders[r][i].data = Origin(PlanOf(r))[PlanOf(r).code[i].inputs[1]]
    BY <1>2 DEF SenderRight
  <2>2. digests' = digests /\ Met'
    BY <2>1, MetForGood
  <2>3. PlanOf(r)' = PlanOf(r) /\ Brought(r)' = Brought(r)
    BY DEF PlanOf, Brought
  <2> QED
    BY <2>1, <2>2, <2>3 DEF SenderRight, OnePlan
<1> QED
  BY <1>1, <1>2

\* communicate_async hands the sender a right value.
LEMMA OwnSenderRight ==
  ASSUME ValuesInv, [MockNext]_vars, NEW r \in Ranks, RankStep(r), NEW i \in Positions
  PROVE  SenderRight(r, i)'
<1>1. MockInv /\ RuntimeInv /\ DataOK /\ SenderRight(r, i)
  BY DEF ValuesInv, MockInv
<1>2. CASE Restart(r)
  <2>1. senders'[r][i].state = "none"
    BY <1>1, <1>2 DEF Restart, NoSender, Sender, MockInv, TablesOK, MockTypeOK
  <2> QED
    BY <2>1 DEF SenderRight
<1>3. CASE LocalStep(r) \/ WaitReturns(r) \/ CallStep(r)
  <2>1. senders' = senders
    BY <1>1, <1>3, CallEffect DEF LocalStep, WaitReturns, clusterVars
  <2>2. arg'[r] = arg[r]
    BY <1>1, <1>3, CallEffect, LocalEffect, FinishEffect DEF LocalStep, WaitReturns
  <2> QED
    BY <1>1, <2>1, <2>2, SenderRightFrame
<1>4. CASE Communicate(r)
  <2>1. /\ PostComm(r)
        /\ senders' = senders \/ senders' = [senders EXCEPT ![r][pc[r]] =
                                    Sender("publishing", 1, InEntry(r, 1).data)]
        /\ stage'[r] # "aborting" /\ ~SourceIsLocal(r, pc[r]) => senders' = senders
    BY <1>4 DEF Communicate
  <2>2. UNCHANGED <<arg, stage>> /\ pc[r] \in Comms(PlanOf(r)) /\ Bound(r) /\ waiting[r] = 0
    BY <1>1, <2>1, PostEffect
  <2>3. CASE senders'[r][i] = senders[r][i]
    BY <1>1, <2>2, <2>3, SenderRightFrame
  <2>4. CASE senders'[r][i] # senders[r][i]
    <3>1. /\ i = pc[r] /\ senders'[r][i].data = InEntry(r, 1).data
          /\ SourceIsLocal(r, pc[r]) \/ stage'[r] = "aborting"
      BY <1>1, <2>1, <2>4 DEF MockInv, TablesOK, MockTypeOK, Sender
    <3>2. SourceIsLocal(r, pc[r])
      BY <2>2, <3>1 DEF Bound
    <3>3. Met /\ digests[r] = Brought(r)
      BY <1>1, <2>2 DEF MockInv, PreflightAgreement, PastPreflight, Bound, Met
    <3>4. digests' = digests /\ Met'
      BY <3>3, MetForGood
    <3>5. ASSUME OnePlan(r)
          PROVE  InEntry(r, 1).data = Origin(PlanOf(r))[PlanOf(r).code[pc[r]].inputs[1]]
      <4>1. InEntry(r, 1).state = "Ready" /\ Instr(r).inputs[1] \in ValueIds
        BY <1>1, <2>1, <3>2, PostReady
      <4>2. RightValues(r)
        BY DEF ValuesInv
      <4> QED
        BY <2>2, <3>5, <4>1, <4>2 DEF RightValues, InEntry, Instr
    <3>6. PlanOf(r)' = PlanOf(r) /\ Brought(r)' = Brought(r)
      BY <2>2 DEF PlanOf, Brought
    <3>7. PlanOK(PlanOf(r))
      BY <1>1, <2>2, RankPlan DEF RuntimeInv, IInv, Bound, Counted
    <3> QED
      BY <2>2, <3>1, <3>3, <3>4, <3>5, <3>6, <3>7 DEF SenderRight, OnePlan
  <2> QED
    BY <2>3, <2>4
<1> QED
  BY <1>2, <1>3, <1>4 DEF RankStep, CallStep


\* A message is right when published, and for ever after.
LEMMA MessagesRight ==
  ASSUME ValuesInv, [MockNext]_vars, NEW m \in messages'
  PROVE  MessageRight(m)'
<1>1. MockInv
  BY DEF ValuesInv
<1>2. CASE m \in messages
  <2>1. MessageRight(m)
    BY <1>2 DEF ValuesInv
  <2>2. digests' = digests /\ Met'
    BY <2>1, MetForGood DEF MessageRight
  <2> QED
    BY <2>1, <2>2 DEF MessageRight
<1>3. CASE m \notin messages
  <2>1. PICK q \in Ranks, i \in Positions : SenderStep(q, i)
    <3>1. \A r \in Ranks : RankStep(r) => messages' = messages
      BY DEF RankStep, Restart, LocalStep, EnterPreflight, PreflightTwice, WakeInPreflight,
             Communicate, SenderFailed, Receive, WaitReturns, SetAborted, NotifyAborted,
             CallThrows, clusterVars
    <3>2. \A r \in Ranks : SpuriousWake(r) => messages' = messages
      BY DEF SpuriousWake
    <3>3. UNCHANGED vars => messages' = messages
      BY DEF vars, clusterVars
    <3> QED
      BY <1>3, <3>1, <3>2, <3>3 DEF MockNext, Terminating
  <2> DEFINE p == PlanOf(q)
             s == senders[q][i]
  <2>2. /\ digests' = digests /\ s.state \in {"publishing", "failing", "notifying"}
        /\ m.id = p.code[i].id /\ m.data = s.data
    BY <1>1, <1>3, <2>1, SenderEffect
  <2>3. /\ Met /\ digests[q] = Brought(q) /\ PlanOK(p)
        /\ OnePlan(q) => s.data = Origin(p)[p.code[i].inputs[1]]
    BY <2>2 DEF ValuesInv, SenderRight
  <2>4. i \in Posted(q)
    BY <1>1, <2>2 DEF MockInv, SenderOK
  <2>5. PlanOK(p) /\ i \in Comms(p)
    BY <2>3, <2>4 DEF Posted
  <2>6. Plans[digests'[q].plan] = p /\ digests'[q].skip = arg[q].skip
    <3>1. digests'[q] = [plan |-> arg[q].plan, skip |-> arg[q].skip]
      BY <2>2, <2>3 DEF Brought
    <3>2. digests'[q].plan = arg[q].plan /\ digests'[q].skip = arg[q].skip
      BY <3>1
    <3> QED
      BY <3>2 DEF PlanOf
  <2> HIDE DEF p
  <2>7. Met'
    BY <2>3, MetForGood
  <2>8. /\ p.code[i].id = m.id
        /\ (~digests'[q].skip \/ OnePlanIfSkipped) => m.data = Origin(p)[p.code[i].inputs[1]]
    BY <2>2, <2>3, <2>6 DEF p, OnePlan
  <2> QED
    BY <2>5, <2>6, <2>7, <2>8 DEF MessageRight
<1> QED
  BY <1>2, <1>3

\* A rank puts its own call into the table (MockCluster::preflight).
LEMMA TableKept ==
  ASSUME ValuesInv, [MockNext]_vars
  PROVE  TableOK'
<1>1. MockInv /\ TableOK
  BY DEF ValuesInv
<1>2. digests' = digests \/ \E r \in Ranks : digests' = [digests EXCEPT ![r] = Brought(r)]
  BY DEF MockNext, RankStep, Restart, LocalStep, EnterPreflight, PreflightTwice, WakeInPreflight,
         Communicate, SenderFailed, Receive, WaitReturns, SetAborted, NotifyAborted, CallThrows,
         SpuriousWake, SenderStep, Publish, SenderAborts, SenderNotifies,
         Terminating, vars, clusterVars
<1>3. CASE digests' = digests
  BY <1>1, <1>3 DEF TableOK
<1>4. ASSUME NEW r \in Ranks, digests' = [digests EXCEPT ![r] = Brought(r)] PROVE TableOK'
  <2>1. arg[r] \in Args[r]
    BY <1>1 DEF MockInv, RuntimeInv, IInv, ArgsOK
  <2>2. \A s \in Ranks : digests'[s] = IF s = r THEN Brought(r) ELSE digests[s]
    BY <1>1, <1>4 DEF MockInv, TablesOK
  <2> QED
    BY <1>1, <2>1, <2>2 DEF TableOK, Brought
<1> QED
  BY <1>2, <1>3, <1>4

\* Nobody else's step disturbs what is right of a rank or of its senders.
LEMMA ValuesOfOthers ==
  ASSUME ValuesInv, [MockNext]_vars, NEW s \in Ranks, ~RankStep(s)
  PROVE  RightValues(s)' /\ \A i \in Positions : SenderRight(s, i)'
<1>1. MockInv /\ RightValues(s) /\ \A i \in Positions : SenderRight(s, i)
  BY DEF ValuesInv
<1>2. /\ Same(s)
      /\ \A i \in Positions :
           /\ senders'[s][i].data = senders[s][i].data
           /\ senders[s][i].state # "none" \/ senders'[s][i].state = "none"
  <2> DEFINE Rest == Same(s) /\ \A i \in Positions :
               /\ senders'[s][i].data = senders[s][i].data
               /\ senders[s][i].state # "none" \/ senders'[s][i].state = "none"
  <2>1. ASSUME NEW r \in Ranks, RankStep(r) PROVE Rest
    BY <1>1, <2>1, RankFrame
  <2>2. ASSUME UNCHANGED <<rtVars, senders>> PROVE Rest
    BY <2>2 DEF rtVars, Same
  <2>3. ASSUME NEW q \in Ranks, NEW j \in Positions, SenderStep(q, j) PROVE Rest
    <3>1. /\ UNCHANGED rtVars
          /\ senders[q][j].state # "none"
          /\ \E state \in SenderStates : \E next \in Nat :
               senders' = [senders EXCEPT ![q][j] = Sender(state, next, senders[q][j].data)]
      BY <1>1, <2>3, SenderEffect
    <3>2. senders \in [Ranks -> [Positions ->
            [state : SenderStates, next : Nat, data : Data \cup {NoData}]]]
      BY <1>1 DEF MockInv, TablesOK, MockTypeOK
    <3>3. ASSUME NEW i \in Positions
          PROVE  /\ senders'[s][i].data = senders[s][i].data
                 /\ senders[s][i].state # "none" \/ senders'[s][i].state = "none"
      <4>1. CASE s = q /\ i = j
        BY <3>1, <3>2, <4>1 DEF Sender
      <4>2. CASE ~(s = q /\ i = j)
        BY <3>1, <3>2, <4>2
      <4> QED
        BY <4>1, <4>2
    <3>4. Same(s)
      BY <3>1 DEF rtVars, Same
    <3> QED
      BY <3>3, <3>4
  <2>4. \A r \in Ranks : SpuriousWake(r) => UNCHANGED <<rtVars, senders>>
    BY DEF SpuriousWake
  <2>5. UNCHANGED vars => UNCHANGED <<rtVars, senders>>
    BY DEF vars, clusterVars
  <2>6. Rest
    <3> HIDE DEF Rest
    <3> QED
      BY <2>1, <2>2, <2>3, <2>4, <2>5 DEF MockNext, Terminating
  <2> QED
    BY <2>6
<1>3. RightValues(s)'
  BY <1>1, <1>2 DEF RightValues, Same, Bound, PlanOf, OnePlan
<1>4. ASSUME NEW i \in Positions PROVE SenderRight(s, i)'
  <2>1. arg'[s] = arg[s]
    BY <1>2 DEF Same
  <2> QED
    BY <1>1, <1>2, <2>1, SenderRightFrame
<1> QED
  BY <1>3, <1>4

\* Every step of a rank keeps the values right, its own, those its senders hold and
\* those under way (MockVecApi::communicate_async, Runtime::finish_group).
LEMMA ValuesInvKept ==
  ASSUME ValuesInv, [MockNext]_vars
  PROVE  ValuesInv'
<1>1. MockInv'
  BY MockKept DEF ValuesInv
<1>2. ASSUME NEW r \in Ranks PROVE RightValues(r)'
  BY RankValues, ValuesOfOthers
<1>3. ASSUME NEW r \in Ranks, NEW i \in Positions PROVE SenderRight(r, i)'
  BY OwnSenderRight, ValuesOfOthers
<1>4. \A m \in messages' : MessageRight(m)'
  BY MessagesRight
<1>5. TableOK'
  BY TableKept
<1> QED
  BY <1>1, <1>2, <1>3, <1>4, <1>5 DEF ValuesInv

\* Whatever the schedule and whichever calls fail, a ready value holds what the
\* plan says it should: no message is taken for another, no operand is read
\* before it arrived (MockCluster::receive, SequentialRuntime::run).
THEOREM ValuesAreRight == MockSpec => []CorrectValues
<1>1. MockInit => ValuesInv
  <2> SUFFICES ASSUME MockInit PROVE ValuesInv
    OBVIOUS
  <2>1. MockInv
    BY MockStart
  <2>2. ASSUME NEW r \in Ranks PROVE RightValues(r)
    BY DEF MockInit, Init, RightValues, Bound
  <2>3. ASSUME NEW r \in Ranks, NEW i \in Positions PROVE SenderRight(r, i)
    BY DEF MockInit, SenderRight, NoSender, Sender
  <2>4. messages = {} /\ TableOK
    BY DEF MockInit, TableOK
  <2> QED
    BY <2>1, <2>2, <2>3, <2>4 DEF ValuesInv
<1>2. ValuesInv /\ [MockNext]_vars => ValuesInv'
  BY ValuesInvKept
<1>3. ValuesInv => CorrectValues
  BY DEF ValuesInv, RightValues, CorrectValues, OnePlan
<1> QED
  BY <1>1, <1>2, <1>3, PTL DEF MockSpec

-----------------------------------------------------------------------------
(***************************************************************************)
(* The contract of SpmdRun, for one run of the cluster.                    *)
(***************************************************************************)
Failing(r) == stage[r] \in {"aborting", "panic"}

\* In its only run a rank brings its call to the barrier once, and stays there
\* until it leaves preflight for good.
OnceOK(r) ==
  /\ stage[r] # "idle" => runs[r] # 0
  /\ digests[r] # NotArrived => stage[r] \notin {"idle", "setup"} /\ digests[r] = Brought(r)
  /\ stage[r] = "preflight" /\ digests[r] # NotArrived => r \in barrier

\* A failure before the ranks have met is that of a rank which never came, so
\* that they never will.
FailedEarly ==
  ~AllArrived(digests) /\ (aborted \/ \E r \in Ranks : Failing(r)) =>
    \E r \in Ranks : Failing(r) /\ digests[r] = NotArrived

SpmdInv == ValuesInv /\ FailedEarly /\ \A r \in Ranks : OnceOK(r)

\* run() has returned, or left by its exception: nothing more is done on that
\* rank.
LEMMA OverForGood ==
  ASSUME SpmdInv, MaxRuns = 1, NEW r \in Ranks, RankStep(r)
  PROVE  /\ stage[r] \notin {"done", "panic"}
         /\ Restart(r) => stage[r] = "idle"
<1>1. MockInv /\ RuntimeInv /\ OnceOK(r)
  BY DEF SpmdInv, ValuesInv, MockInv
<1>2. runs[r] \in 0 .. MaxRuns
  BY <1>1 DEF RuntimeInv, IInv, TypeOK
<1>3. CASE Restart(r)
  BY <1>1, <1>2, <1>3 DEF Restart, Start, OnceOK
<1>4. CASE LocalStep(r)
  <2>1. stage[r] \in {"setup", "bind", "init", "exec", "sync"}
    BY <1>1, <1>4, LocalEffect DEF LocalStep
  <2> QED
    BY <2>1 DEF Restart, Start
<1>5. CASE Communicate(r) \/ WaitReturns(r)
  BY <1>5 DEF Communicate, PostComm, Running, WaitReturns, InWait, Restart, Start
<1>6. CASE CallStep(r)
  BY <1>1, <1>6 DEF CallStep, EnterPreflight, PreflightTwice, WakeInPreflight, BarrierOK, MockInv,
                    SenderFailed, Receive, InWait, SetAborted, NotifyAborted, Panic,
                    CallThrows, ApiThrows, CallsApi, Running, Restart, Start
<1> QED
  BY <1>3, <1>4, <1>5, <1>6 DEF RankStep, CallStep

\* Whoever fails before the ranks have met does so instead of meeting them.
LEMMA NewFailure ==
  ASSUME SpmdInv, MaxRuns = 1, NEW r \in Ranks, RankStep(r),
         ~aborted, ~AllArrived(digests'), ~Failing(r), Failing(r)'
  PROVE  digests[r] = NotArrived /\ digests'[r] = NotArrived
<1>1. /\ MockInv /\ RuntimeInv /\ OnceOK(r) /\ stage \in [Ranks -> Stages]
      /\ BarrierOK /\ digests = [q \in Ranks |-> digests[q]]
  BY DEF SpmdInv, ValuesInv, MockInv, RuntimeInv, IInv, TypeOK, TablesOK
<1>2. ~AllArrived(digests)
  BY TableGrows DEF AllArrived
<1>3. ~PastPreflight(r)
  BY <1>1, <1>2 DEF MockInv, PreflightAgreement
<1>4. CASE Restart(r)
  BY <1>1, <1>4, OverForGood DEF Restart, OnceOK
<1>5. CASE LocalStep(r)
  <2>1. stage[r] \in {"setup", "bind", "init", "exec", "sync"} /\ digests' = digests
    BY <1>1, <1>5, LocalEffect DEF LocalStep, clusterVars
  <2> QED
    BY <1>1, <1>3, <2>1 DEF PastPreflight, OnceOK
<1>6. CASE Communicate(r) \/ WaitReturns(r)
  BY <1>3, <1>6 DEF Communicate, PostComm, Running, WaitReturns, InWait, PastPreflight
<1>7. CASE EnterPreflight(r)
  BY <1>7 DEF EnterPreflight, Failing, rtVars
<1>8. CASE WakeInPreflight(r)
  BY <1>8 DEF WakeInPreflight, Failing, rtVars
<1>9. CASE PreflightTwice(r)
  BY <1>1, <1>9 DEF PreflightTwice, OnceOK
<1>10. CASE SenderFailed(r) \/ Receive(r)
  BY <1>3, <1>10 DEF SenderFailed, Receive, InWait, PastPreflight
<1>11. CASE SetAborted(r) \/ NotifyAborted(r)
  BY <1>11 DEF SetAborted, NotifyAborted, Panic, Failing
<1>12. CASE CallThrows(r)
  BY <1>1, <1>3, <1>12 DEF CallThrows, ApiThrows, CallsApi, Running, InWait, PastPreflight, OnceOK,
                           clusterVars
<1> QED
  BY <1>4, <1>5, <1>6, <1>7, <1>8, <1>9, <1>10, <1>11, <1>12 DEF RankStep

\* What a step is to the other ranks' calls, to the table and to aborted_.
LEMMA StepOf ==
  ASSUME MockInv, [MockNext]_vars, NEW s \in Ranks, ~RankStep(s)
  PROVE  Same(s) /\ digests'[s] = digests[s]
<1>1. CASE \E r \in Ranks : RankStep(r)
  BY <1>1, RankFrame
<1>2. CASE UNCHANGED <<rtVars, digests>>
  BY <1>2 DEF rtVars, Same
<1>3. UNCHANGED <<rtVars, digests>> \/ \E r \in Ranks : RankStep(r)
  BY DEF MockNext, SpuriousWake, SenderStep, Publish, SenderAborts, SenderNotifies,
         Terminating, vars, clusterVars
<1> QED
  BY <1>1, <1>2, <1>3

\* In one run a rank passes the barrier once (SequentialRuntime::run).
LEMMA OnceKept ==
  ASSUME SpmdInv, MaxRuns = 1, [MockNext]_vars, NEW r \in Ranks
  PROVE  OnceOK(r)'
<1>1. /\ MockInv /\ RuntimeInv /\ OnceOK(r) /\ TypeOK /\ BarrierOK
      /\ digests = [q \in Ranks |-> digests[q]] /\ barrier \subseteq Ranks
  BY DEF SpmdInv, ValuesInv, MockInv, RuntimeInv, IInv, TablesOK, MockTypeOK
<1>2. /\ stage \in [Ranks -> Stages] /\ runs \in [Ranks -> 0 .. 1]
  BY <1>1 DEF TypeOK
<1>3. CASE ~RankStep(r)
  <2>1. Same(r) /\ digests'[r] = digests[r]
    BY <1>1, <1>3, StepOf
  <2>2. r \in barrier => r \in barrier'
    <3>1. ASSUME NEW q \in Ranks, RankStep(q), q # r PROVE r \in barrier => r \in barrier'
      BY <1>1, <3>1 DEF RankStep, Restart, LocalStep, EnterPreflight, PreflightTwice,
           WakeInPreflight, LeaveBarrier, Communicate, SenderFailed, Receive, WaitReturns,
           SetAborted, NotifyAborted, CallThrows, clusterVars
    <3>2. barrier' = barrier \/ \E q \in Ranks : RankStep(q)
      BY DEF MockNext, SpuriousWake, SenderStep, Publish, SenderAborts, SenderNotifies,
             Terminating, vars, clusterVars
    <3>3. CASE barrier' = barrier
      BY <3>3
    <3>4. ASSUME NEW q \in Ranks, RankStep(q) PROVE q # r
      BY <1>3, <3>4
    <3> QED
      BY <3>1, <3>2, <3>3, <3>4
  <2> QED
    BY <1>1, <2>1, <2>2 DEF OnceOK, Same, Brought
<1>4. CASE Restart(r)
  <2>1. stage[r] = "idle" /\ digests' = digests
    <3>1. RankStep(r)
      BY <1>4 DEF RankStep
    <3>2. stage[r] = "idle"
      BY <1>4, <3>1, OverForGood
    <3> QED
      BY <1>4, <3>2 DEF Restart
  <2>2. digests'[r] = NotArrived
    BY <1>1, <2>1 DEF OnceOK
  <2>3. runs'[r] = runs[r] + 1
    BY <1>2, <1>4 DEF Restart, Start
  <2> QED
    BY <1>2, <2>2, <2>3 DEF OnceOK
<1>5. CASE LocalStep(r)
  <2>1. /\ arg'[r] = arg[r] /\ runs'[r] = runs[r] /\ UNCHANGED <<digests, barrier>>
        /\ stage[r] \in {"setup", "bind", "init", "exec", "sync"}
    BY <1>1, <1>5, LocalEffect DEF LocalStep, clusterVars
  <2>2. runs'[r] # 0
    BY <1>1, <2>1 DEF OnceOK
  <2>3. CASE stage[r] = "setup"
    BY <1>1, <2>1, <2>2, <2>3 DEF OnceOK
  <2>4. CASE stage[r] # "setup"
    <3>1. ASSUME NEW a, NEW b, Execute(r, a, b) PROVE stage'[r] \in {stage[r], "aborting"}
      BY <1>2, <3>1 DEF Execute, Throw
    <3>2. stage'[r] \notin {"idle", "setup", "preflight"}
      BY <1>2, <1>5, <2>1, <2>4, <3>1 DEF LocalStep, RuntimeStep, Setup, RefusePlan, RefuseInputs, BindInputs,
         Skip, ExecuteEncode, ExecuteCompute, AwaitOperand, AwaitOldest, Drained, PublishArtifact, Throw
    <3> QED
      BY <1>1, <2>1, <2>2, <3>2 DEF OnceOK, Brought
  <2> QED
    BY <2>3, <2>4
<1>6. CASE Communicate(r) \/ WaitReturns(r)
  <2>1. CASE Communicate(r)
    <3>1. PostComm(r) /\ UNCHANGED <<digests, barrier>>
      BY <2>1 DEF Communicate
    <3>2. UNCHANGED <<arg, runs, stage>>
      BY <1>1, <3>1, PostEffect DEF MockInv
    <3> QED
      BY <1>1, <3>1, <3>2 DEF OnceOK, Brought
  <2>2. CASE WaitReturns(r)
    <3>1. FinishGroup(r, Arrived(r)) /\ UNCHANGED <<digests, barrier>>
      BY <2>2 DEF WaitReturns
    <3>2. UNCHANGED <<arg, runs, stage>>
      BY <1>1, <3>1, FinishEffect
    <3> QED
      BY <1>1, <3>1, <3>2 DEF OnceOK, Brought
  <2> QED
    BY <1>6, <2>1, <2>2
<1>7. CASE CallStep(r)
  <2>1. /\ UNCHANGED <<arg, runs>>
        /\ \/ stage' = stage
           \/ stage' = [stage EXCEPT ![r] = "aborting"]
           \/ stage' = [stage EXCEPT ![r] = "panic"]
           \/ stage' = [stage EXCEPT ![r] = "bind"] /\ stage[r] = "preflight"
    BY <1>1, <1>7, CallEffect
  <2>2. stage[r] # "idle"
    BY <1>1, <1>7 DEF CallStep, EnterPreflight, PreflightTwice, WakeInPreflight, BarrierOK,
                    SenderFailed, Receive, InWait, SetAborted, NotifyAborted, Panic,
                    CallThrows, ApiThrows, CallsApi, Running
  <2>3. runs'[r] # 0
    BY <1>1, <2>1, <2>2 DEF OnceOK
  <2>4. CASE EnterPreflight(r)
    <3>1. digests'[r] = Brought(r) /\ stage[r] = "preflight"
      BY <1>1, <2>4 DEF EnterPreflight
    <3>2. stage'[r] = "preflight" => r \in barrier'
      BY <1>2, <2>4 DEF EnterPreflight, LeaveBarrier, Throw, PreflightReturns
    <3> QED
      BY <1>2, <2>1, <2>3, <3>1, <3>2 DEF OnceOK, Brought
  <2>5. CASE WakeInPreflight(r)
    <3>1. r \in barrier /\ stage[r] = "preflight" /\ digests' = digests
      BY <1>1, <2>5 DEF WakeInPreflight, BarrierOK
    <3>2. stage'[r] = "preflight" => r \in barrier'
      BY <1>2, <2>5, <3>1 DEF WakeInPreflight, LeaveBarrier, Throw, PreflightReturns
    <3> QED
      BY <1>1, <1>2, <2>1, <2>3, <3>1, <3>2 DEF OnceOK, Brought
  <2>6. CASE ~EnterPreflight(r) /\ ~WakeInPreflight(r)
    <3>1. UNCHANGED <<digests, barrier>>
      BY <1>7, <2>6 DEF CallStep, PreflightTwice, SenderFailed, Receive, SetAborted,
                      NotifyAborted, CallThrows, clusterVars
    <3> QED
      BY <1>1, <1>2, <2>1, <2>2, <2>3, <3>1 DEF OnceOK, Brought
  <2> QED
    BY <2>4, <2>5, <2>6
<1> QED
  BY <1>3, <1>4, <1>5, <1>6, <1>7 DEF RankStep, CallStep

\* aborted_ is set by a rank that failed, or with the ranks having met: by one
\* that saw them disagree, or by a sender.
LEMMA FailedEarlyKept ==
  ASSUME SpmdInv, MaxRuns = 1, [MockNext]_vars
  PROVE  FailedEarly'
<1>1. MockInv /\ RuntimeInv /\ FailedEarly /\ \A r \in Ranks : OnceOK(r)
  BY DEF SpmdInv, ValuesInv, MockInv
<1>2. stage \in [Ranks -> Stages] /\ digests = [q \in Ranks |-> digests[q]]
  BY <1>1 DEF MockInv, RuntimeInv, IInv, TypeOK, TablesOK
<1> SUFFICES ASSUME ~AllArrived(digests'), aborted' \/ \E r \in Ranks : Failing(r)'
             PROVE  \E r \in Ranks : Failing(r)' /\ digests'[r] = NotArrived
  BY DEF FailedEarly, AllArrived
<1>3. ~Met /\ ~AllArrived(digests)
  <2>1. AllArrived(digests) => digests' = digests
    BY TableGrows DEF MockNext, SpuriousWake, SenderStep, Publish, SenderAborts, SenderNotifies,
                      Terminating, vars, clusterVars
  <2> QED
    BY <2>1 DEF Met, AllArrived
<1>4. ASSUME NEW t \in Ranks, Failing(t), digests[t] = NotArrived
      PROVE  Failing(t)' /\ digests'[t] = NotArrived
  <2>1. CASE ~RankStep(t)
    BY <1>1, <1>4, <2>1, StepOf DEF Same, Failing
  <2>2. CASE RankStep(t)
    <3>1. SetAborted(t) \/ NotifyAborted(t)
      <4>1. ~Restart(t)
        BY <1>4, <2>2, OverForGood DEF Failing
      <4>2. ~LocalStep(t)
        BY <1>1, <1>4, LocalEffect DEF LocalStep, Failing, MockInv
      <4> QED
        BY <1>1, <1>4, <2>2, <4>1, <4>2 DEF RankStep, EnterPreflight, PreflightTwice, WakeInPreflight,
             BarrierOK, MockInv, Failing, Communicate, PostComm, Running, WaitReturns, FinishGroup,
             SenderFailed, Receive, InWait, CallThrows, ApiThrows, CallsApi
    <3> QED
      BY <1>2, <1>4, <3>1 DEF SetAborted, NotifyAborted, Panic, Failing, rtVars
  <2> QED
    BY <2>1, <2>2
<1>5. CASE aborted \/ \E r \in Ranks : Failing(r)
  BY <1>1, <1>3, <1>4, <1>5 DEF FailedEarly
<1>6. CASE ~aborted /\ \A r \in Ranks : ~Failing(r)
  <2>1. ~aborted'
    <3>1. ASSUME NEW r \in Ranks, RankStep(r) PROVE ~aborted'
      BY <1>6, <3>1 DEF RankStep, Restart, LocalStep, EnterPreflight, PreflightTwice,
           WakeInPreflight, LeaveBarrier, Communicate, SenderFailed, Receive, WaitReturns,
           SetAborted, Failing, NotifyAborted, CallThrows, clusterVars
    <3>2. ASSUME NEW r \in Ranks, NEW i \in Positions, SenderStep(r, i) PROVE ~aborted'
      <4>1. senders[r][i].state = "none"
        BY <1>3 DEF SpmdInv, ValuesInv, SenderRight
      <4> QED
        BY <1>6, <3>2, <4>1 DEF SenderStep, Publish, SenderAborts, SenderNotifies
    <3> QED
      BY <1>6, <3>1, <3>2 DEF MockNext, SpuriousWake, Terminating, vars, clusterVars
  <2>2. PICK r \in Ranks : Failing(r)'
    BY <2>1
  <2>3. RankStep(r)
    BY <1>1, <1>6, <2>2, StepOf DEF Same, Failing
  <2> QED
    BY <1>6, <2>2, <2>3, NewFailure
<1> QED
  BY <1>5, <1>6

\* The invariant behind the contract.
LEMMA SpmdInvStart ==
  ASSUME MockInit
  PROVE  SpmdInv
<1>1. MockInv
  BY MockStart
<1>2. ASSUME NEW r \in Ranks PROVE RightValues(r) /\ OnceOK(r)
  BY DEF MockInit, Init, RightValues, Bound, OnceOK
<1>3. ASSUME NEW r \in Ranks, NEW i \in Positions PROVE SenderRight(r, i)
  BY DEF MockInit, SenderRight, NoSender, Sender
<1>4. messages = {} /\ TableOK
  BY DEF MockInit, TableOK
<1>5. FailedEarly
  BY DEF MockInit, Init, FailedEarly, Failing
<1> QED
  BY <1>1, <1>2, <1>3, <1>4, <1>5 DEF SpmdInv, ValuesInv

LEMMA SpmdInvKept ==
  ASSUME SpmdInv, MaxRuns = 1, [MockNext]_vars
  PROVE  SpmdInv'
<1>1. ValuesInv'
  BY ValuesInvKept DEF SpmdInv
<1>2. FailedEarly'
  BY FailedEarlyKept
<1>3. ASSUME NEW r \in Ranks PROVE OnceOK(r)'
  BY <1>3, OnceKept
<1> QED
  BY <1>1, <1>2, <1>3 DEF SpmdInv

\* A full table of agreeing entries is one SPMD program.
LEMMA MetIsConsistent ==
  ASSUME NEW d, AllArrived(d), Agreed(d), OnePlanIfSkipped, d = [r \in Ranks |-> d[r]],
         \A r \in Ranks : \E a \in Args[r] : d[r] = [plan |-> a.plan, skip |-> a.skip]
  PROVE  d \in [Ranks -> Requests] /\ Consistent(d)
<1>1. ASSUME NEW r \in Ranks PROVE d[r] \in Requests
  <2>1. PICK a \in Args[r] : d[r] = [plan |-> a.plan, skip |-> a.skip]
    OBVIOUS
  <2>2. a.plan \in DOMAIN Plans /\ a.skip \in BOOLEAN
    BY ConstantsOK
  <2> QED
    BY <2>1, <2>2 DEF Requests
<1>2. ASSUME NEW r \in Ranks, NEW s \in Ranks PROVE d[r] = d[s]
  <2>1. PICK a \in Args[r] : d[r] = [plan |-> a.plan, skip |-> a.skip]
    OBVIOUS
  <2>2. PICK b \in Args[s] : d[s] = [plan |-> b.plan, skip |-> b.skip]
    OBVIOUS
  <2>3. a.skip = b.skip /\ (a.skip \/ a.plan = b.plan)
    BY <2>1, <2>2 DEF Agreed
  <2>4. a.plan = b.plan
    BY <2>3 DEF OnePlanIfSkipped
  <2> QED
    BY <2>1, <2>2, <2>3, <2>4
<1>3. d \in [Ranks -> Requests]
  BY <1>1
<1> QED
  BY <1>2, <1>3 DEF Consistent

\* The three outcomes of a rank.
LEMMA OutcomeIs ==
  ASSUME NEW r \in Ranks
  PROVE  /\ stage[r] = "done" => Outcome(r) = Artifact(r)
         /\ stage[r] = "panic" => Outcome(r) = FailedRank
         /\ stage[r] \notin {"done", "panic"} => Outcome(r) = UndecidedRank
<1>1. stage[r] = "done" => Outcome(r) = Artifact(r)
  BY Zenon DEF Outcome
<1>2. "done" # "panic"
  OBVIOUS
<1>3. stage[r] = "panic" => Outcome(r) = FailedRank
  BY <1>2, Zenon DEF Outcome
<1>4. stage[r] # "done" /\ stage[r] # "panic" => Outcome(r) = UndecidedRank
  BY Zenon DEF Outcome
<1> QED
  BY <1>1, <1>3, <1>4

LEMMA OutcomeIsNext ==
  ASSUME NEW r \in Ranks
  PROVE  /\ stage'[r] = "done" => Outcome(r)' = Artifact(r)'
         /\ stage'[r] = "panic" => Outcome(r)' = FailedRank
         /\ stage'[r] \notin {"done", "panic"} => Outcome(r)' = UndecidedRank
<1>1. stage'[r] = "done" => Outcome(r)' = Artifact(r)'
  BY Zenon DEF Outcome
<1>2. "done" # "panic"
  OBVIOUS
<1>3. stage'[r] = "panic" => Outcome(r)' = FailedRank
  BY <1>2, Zenon DEF Outcome
<1>4. stage'[r] # "done" /\ stage'[r] # "panic" => Outcome(r)' = UndecidedRank
  BY Zenon DEF Outcome
<1> QED
  BY <1>1, <1>3, <1>4

\* What the ranks that have returned gave back is what the table promises.
ArtifactsPromised ==
  \A r \in Ranks : stage[r] = "done" => Artifact(r) \in Promised(digests, r)

LEMMA ArtifactsArePromised ==
  ASSUME SpmdInv, OnePlanIfSkipped
  PROVE  ArtifactsPromised
<1> SUFFICES ASSUME NEW r \in Ranks, stage[r] = "done"
             PROVE  Artifact(r) \in Promised(digests, r)
  BY DEF ArtifactsPromised
<1>1. RuntimeInv /\ RightValues(r) /\ OnePlan(r)
  BY DEF SpmdInv, ValuesInv, MockInv, OnePlan
<1>2. digests[r] = Brought(r)
  BY DEF SpmdInv, ValuesInv, MockInv, PreflightAgreement, PastPreflight
<1> QED
  BY <1>1, <1>2, ArtifactPromised

\* A rank decides outside the barrier, and returns from make_artifact alone.
LEMMA Decision ==
  ASSUME SpmdInv, MaxRuns = 1, NEW r \in Ranks, RankStep(r), stage'[r] \in {"done", "panic"}
  PROVE  digests' = digests /\ (stage'[r] = "done" => stage[r] = "sync")
<1>1. MockInv /\ RuntimeInv /\ stage \in [Ranks -> Stages] /\ stage[r] \notin {"done", "panic"}
  BY OverForGood DEF SpmdInv, ValuesInv, MockInv, RuntimeInv, IInv, TypeOK
<1>2. CASE Restart(r)
  BY <1>1, <1>2 DEF Restart, Start
<1>3. CASE LocalStep(r)
  <2>1. ASSUME NEW a, NEW b, Execute(r, a, b) PROVE stage'[r] \in {stage[r], "aborting"}
    BY <1>1, <2>1 DEF Execute, Throw
  <2>2. stage'[r] = "done" => stage[r] = "sync"
    BY <1>1, <1>3, <2>1 DEF LocalStep, RuntimeStep, Setup, RefusePlan, RefuseInputs, BindInputs,
       Skip, ExecuteEncode, ExecuteCompute, AwaitOperand, AwaitOldest, Drained, PublishArtifact, Throw
  <2> QED
    BY <1>3, <2>2 DEF LocalStep, clusterVars
<1>4. CASE Communicate(r) \/ WaitReturns(r)
  <2>1. CASE Communicate(r)
    <3>1. PostComm(r)
      BY <2>1 DEF Communicate
    <3> QED
      BY <1>1, <3>1, PostEffect DEF MockInv
  <2>2. CASE WaitReturns(r)
    <3>1. FinishGroup(r, Arrived(r))
      BY <2>2 DEF WaitReturns
    <3> QED
      BY <1>1, <3>1, FinishEffect
  <2> QED
    BY <1>4, <2>1, <2>2
<1>5. CASE CallStep(r)
  <2>1. \/ stage' = stage
        \/ stage' = [stage EXCEPT ![r] = "aborting"]
        \/ stage' = [stage EXCEPT ![r] = "panic"]
        \/ stage' = [stage EXCEPT ![r] = "bind"] /\ stage[r] = "preflight"
    BY <1>1, <1>5, CallEffect
  <2>2. stage'[r] # "done"
    BY <1>1, <2>1
  <2>3. ~EnterPreflight(r)
    BY <1>1, <2>2 DEF EnterPreflight, LeaveBarrier, Throw, PreflightReturns, rtVars
  <2> QED
    BY <1>5, <2>2, <2>3 DEF CallStep, PreflightTwice, WakeInPreflight, SenderFailed, Receive,
       SetAborted, NotifyAborted, CallThrows, clusterVars
<1> QED
  BY <1>2, <1>3, <1>4, <1>5 DEF RankStep, CallStep

\* The last rank to arrive finds the others waiting for it.
LEMMA AllUndecided ==
  ASSUME SpmdInv, MaxRuns = 1, NEW r \in Ranks, RankStep(r),
         ~AllArrived(digests), AllArrived(digests')
  PROVE  /\ \A s \in Ranks : stage[s] \notin {"done", "panic"}
         /\ \A s \in Ranks : stage'[s] \notin {"done", "panic"}
<1>1. MockInv /\ FailedEarly /\ stage \in [Ranks -> Stages]
      /\ digests = [q \in Ranks |-> digests[q]]
  BY DEF SpmdInv, ValuesInv, MockInv, RuntimeInv, IInv, TypeOK, TablesOK
<1>2. ~UNCHANGED digests
  BY DEF AllArrived
<1>3. EnterPreflight(r)
  BY <1>2 DEF RankStep, Restart, LocalStep, PreflightTwice, WakeInPreflight, Communicate,
     SenderFailed, Receive, WaitReturns, SetAborted, NotifyAborted, CallThrows, clusterVars
<1>4. stage[r] = "preflight"
  BY <1>3 DEF EnterPreflight
<1>5. \A s \in Ranks : stage[s] # "done"
  BY <1>1 DEF MockInv, PreflightAgreement, PastPreflight
<1>6. \A s \in Ranks : s # r => digests'[s] = digests[s]
  BY <1>1, <1>3 DEF EnterPreflight
<1>7. \A s \in Ranks : stage[s] # "panic"
  BY <1>1, <1>4, <1>6 DEF FailedEarly, Failing, AllArrived
<1>8. stage'[r] \notin {"done", "panic"}
  BY <1>2, Decision
<1>9. \A s \in Ranks : s # r => stage'[s] = stage[s]
  BY <1>1, RankFrame DEF Same
<1> QED
  BY <1>5, <1>7, <1>8, <1>9

\* Every step of the cluster is a step of the contract, or none: the arrival of
\* the last rank is the agreement, the end of run() on a rank its outcome.
LEMMA ContractStep ==
  ASSUME SpmdInv, SpmdInv', ArtifactsPromised', OnePlanIfSkipped, MaxRuns = 1, [MockNext]_vars
  PROVE  [Contract!Next]_(Contract!spmdVars)
<1> DEFINE O == [r \in Ranks |-> Outcome(r)]
<1>1. MockInv /\ digests = [q \in Ranks |-> digests[q]]
  BY DEF SpmdInv, ValuesInv, MockInv, TablesOK
<1>2. ASSUME NEW s \in Ranks, Same(s) PROVE Outcome(s)' = Outcome(s)
  <2>1. Artifact(s)' = Artifact(s)
    BY <1>2 DEF Same, Artifact, Retain, OwnFinals, LocalFinals, PlanOf
  <2>2. stage'[s] = stage[s]
    BY <1>2 DEF Same
  <2> QED
    BY <2>1, <2>2, OutcomeIs, OutcomeIsNext
<1>3. CASE UNCHANGED <<rtVars, digests>>
  <2>1. \A s \in Ranks : Outcome(s)' = Outcome(s)
    BY <1>2, <1>3 DEF rtVars, Same
  <2>2. Agreement' = Agreement
    BY <1>3 DEF Agreement, AllArrived, Agreed
  <2> QED
    BY <2>1, <2>2 DEF Contract!spmdVars
<1>4. ASSUME NEW r \in Ranks, RankStep(r) PROVE [Contract!Next]_(Contract!spmdVars)
  <2>1. \A s \in Ranks : s # r => Outcome(s)' = Outcome(s)
    BY <1>1, <1>2, <1>4, RankFrame
  <2>2. stage[r] \notin {"done", "panic"} /\ Outcome(r) = UndecidedRank
    BY <1>4, OverForGood, OutcomeIs
  <2>3. CASE stage'[r] \in {"done", "panic"}
    <3>1. digests' = digests /\ Agreement' = Agreement
      BY <1>4, <2>3, Decision DEF Agreement, AllArrived, Agreed
    <3>2. O' = [O EXCEPT ![r] = Outcome(r)']
      BY <2>1
    <3>3. CASE stage'[r] = "panic"
      <4>1. Outcome(r)' = FailedRank
        BY <3>3, OutcomeIsNext
      <4>2. Contract!Fail(r)
        BY <2>2, <3>1, <3>2, <4>1 DEF Contract!Fail
      <4> QED
        BY <4>2 DEF Contract!Next
    <3>4. CASE stage'[r] = "done"
      <4>1. stage[r] = "sync"
        BY <1>4, <3>4, Decision
      <4>2. AllArrived(digests) /\ Agreed(digests)
        BY <1>1, <4>1 DEF MockInv, PreflightAgreement, PastPreflight
      <4>3. digests \in [Ranks -> Requests]
        BY <1>1, <4>2, MetIsConsistent DEF SpmdInv, ValuesInv, TableOK, AllArrived
      <4>4. Agreement = digests /\ Agreement # Unagreed
        BY <4>2, <4>3, RefinementConstantsOK DEF Agreement
      <4>5. Outcome(r)' \in Promised(digests, r)
        <5>1. Outcome(r)' = Artifact(r)'
          BY <3>4, OutcomeIsNext
        <5>2. Artifact(r)' \in Promised(digests, r)'
          BY <3>4 DEF ArtifactsPromised
        <5>3. Promised(digests, r)' = Promised(digests, r)
          BY <3>1 DEF Promised
        <5> QED
          BY <5>1, <5>2, <5>3
      <4>6. Contract!Return(r)
        BY <2>2, <3>1, <3>2, <4>4, <4>5 DEF Contract!Return
      <4> QED
        BY <4>6 DEF Contract!Next
    <3> QED
      BY <2>3, <3>3, <3>4
  <2>4. CASE stage'[r] \notin {"done", "panic"}
    <3>1. O' = O
      BY <2>1, <2>2, <2>4, OutcomeIsNext
    <3>2. CASE Agreement' = Agreement
      BY <3>1, <3>2 DEF Contract!spmdVars
    <3>3. CASE Agreement' # Agreement
      <4>1. ~AllArrived(digests)
        BY <1>4, <3>3, TableGrows DEF Agreement, AllArrived, Agreed
      <4>2. AllArrived(digests') /\ Agreed(digests') /\ Agreement' = digests' /\ Agreement = Unagreed
        BY <3>3, <4>1 DEF Agreement, AllArrived, Agreed
      <4>3. digests' \in [Ranks -> Requests] /\ Consistent(digests')
        BY <4>2, MetIsConsistent DEF SpmdInv, ValuesInv, MockInv, TablesOK, TableOK, AllArrived
      <4>4. \A s \in Ranks : Outcome(s) = UndecidedRank
        BY <1>4, <4>1, <4>2, AllUndecided, OutcomeIs
      <4>5. Contract!Agree
        BY <3>1, <4>2, <4>3, <4>4 DEF Contract!Agree
      <4> QED
        BY <4>5 DEF Contract!Next
    <3> QED
      BY <3>2, <3>3
  <2> QED
    BY <2>3, <2>4
<1>5. UNCHANGED <<rtVars, digests>> \/ \E r \in Ranks : RankStep(r)
  BY DEF MockNext, SpuriousWake, SenderStep, Publish, SenderAborts, SenderNotifies,
         Terminating, vars, clusterVars
<1> QED
  BY <1>3, <1>4, <1>5

\* One run of a cluster of SequentialRuntime<MockVecApi> keeps the contract: all
\* ranks agree or none returns, what a rank returns is what the agreed plan
\* determines for it, and it returns or fails once (MockCluster::preflight,
\* SequentialRuntime::run).  That calls which skip the comparison of plans name
\* the same one is the caller's part.
THEOREM MockKeepsContract ==
  ASSUME OnePlanIfSkipped, MaxRuns = 1
  PROVE  MockSpec => ImplementsSpmdRun
<1>1. MockInit => SpmdInv
  BY SpmdInvStart
<1>2. SpmdInv /\ [MockNext]_vars => SpmdInv'
  BY SpmdInvKept
<1>3. SpmdInv => ArtifactsPromised
  BY ArtifactsArePromised
<1>4. SpmdInv /\ SpmdInv' /\ ArtifactsPromised' /\ [MockNext]_vars
        => [Contract!Next]_(Contract!spmdVars)
  BY ContractStep
<1>5. MockInit => Contract!Init
  <2> SUFFICES ASSUME MockInit PROVE Contract!Init
    OBVIOUS
  <2>1. \A r \in Ranks : Outcome(r) = UndecidedRank
    BY OutcomeIs DEF MockInit, Init
  <2>2. 0 \in Ranks
    BY ConstantsOK, ClusterConstantsOK
  <2>3. Agreement = Unagreed
    BY <2>2 DEF Agreement, MockInit, AllArrived
  <2> QED
    BY <2>1, <2>3 DEF Contract!Init
<1> QED
  BY <1>1, <1>2, <1>3, <1>4, <1>5, PTL DEF MockSpec, Contract!Spec, ImplementsSpmdRun
=============================================================================
