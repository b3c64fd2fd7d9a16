---------------------------- MODULE MockRuntime ----------------------------
(***************************************************************************)
(* SequentialRuntime over MockVecApi: the ranks of one process, one thread *)
(* each, joined by a MockCluster (api/mock_api.cpp).  The cluster is a     *)
(* monitor, one mutex and one condition variable: a critical section is    *)
(* one action, a thread inside cv_.wait is in `asleep` until some          *)
(* notify_all, and only then looks at its predicate again.                 *)
(*                                                                         *)
(* communicate_async starts a sender thread (std::async) that publishes    *)
(* the output slots one by one; wait joins that thread and then receives   *)
(* the slots this rank owns.  Computation is the synchronous VecExecutor   *)
(* mode.                                                                   *)
(***************************************************************************)
EXTENDS ClusterValues

CONSTANT NotArrived  \* table entry of a rank that has not called preflight

VARIABLES
  digests,   \* rank -> what it brought to preflight: plan_digests_, skip_digest_checks_
  messages,  \* messages_: the published [id, slot, data] records
  aborted,   \* aborted_
  asleep,    \* ranks blocked in cv_.wait
  barrier,   \* ranks inside MockCluster::preflight
  aborting,  \* ranks inside abort_all, between unlock and notify_all
  received,  \* rank -> how many slots the wait in progress has received
  senders    \* rank -> instruction -> its sender thread

clusterVars == <<digests, messages, aborted, asleep, barrier, aborting, received, senders>>
vars == <<rtVars, clusterVars>>

SenderStates == {"none", "publishing", "failing", "notifying", "done", "panic"}
Sender(state, next, data) == [state |-> state, next |-> next, data |-> data]
NoSender == Sender("none", 0, NoData)

-----------------------------------------------------------------------------
(***************************************************************************)
(* MockCluster::preflight, a barrier that compares what the ranks brought. *)
(***************************************************************************)
AllArrived(d) == \A r \in Ranks : d[r] # NotArrived

\* Mutant: plans are not compared.
AgreedOnSkip(d) == \A r, s \in Ranks : d[r].skip = d[s].skip

\* The ranks agree: on the skip flag, and unless it is set on the plan.
Agreed(d) ==
  \A r, s \in Ranks : d[r].skip = d[s].skip /\ (d[r].skip \/ d[r].plan = d[s].plan)

\* Mutant: a full table is taken for an agreement.
LeaveBarrierFull(r, d, awake) ==
  /\ barrier' = barrier \ {r}
  /\ IF aborted THEN Throw(r, "api") ELSE PreflightReturns(r)
  /\ asleep' = awake /\ UNCHANGED aborted

\* The end of preflight, from the predicate of cv_.wait on, with the table d
\* in force and `awake` what is asleep if nobody notifies.
LeaveBarrier(r, d, awake) ==
  /\ barrier' = barrier \ {r}
  /\ CASE aborted -> /\ Throw(r, "api")
                     /\ asleep' = awake /\ UNCHANGED aborted
       [] ~aborted /\ ~Agreed(d) -> /\ Throw(r, "api")
                                    /\ asleep' = {} /\ aborted' = TRUE
       [] OTHER -> /\ PreflightReturns(r)
                   /\ asleep' = awake /\ UNCHANGED aborted

\* A rank arrives, notifies, and passes at once or goes to sleep.
EnterPreflight(r) ==
  LET d == [digests EXCEPT ![r] = Brought(r)] IN
  /\ stage[r] = "preflight"
  /\ r \notin barrier
  /\ digests[r] = NotArrived
  /\ digests' = d
  /\ IF aborted \/ AllArrived(d)
     THEN LeaveBarrier(r, d, {})
     ELSE /\ barrier' = barrier \cup {r}
          /\ asleep' = {r}
          /\ UNCHANGED <<rtVars, aborted>>
  /\ UNCHANGED <<messages, aborting, received, senders>>

\* "rank called preflight twice": the cluster outlived an earlier run.
PreflightTwice(r) ==
  /\ stage[r] = "preflight"
  /\ r \notin barrier
  /\ digests[r] # NotArrived
  /\ Throw(r, "api")
  /\ UNCHANGED clusterVars

\* A notified rank looks at the predicate again.
WakeInPreflight(r) ==
  /\ r \in barrier \ asleep
  /\ IF aborted \/ AllArrived(digests)
     THEN LeaveBarrier(r, digests, asleep)
     ELSE /\ asleep' = asleep \cup {r}
          /\ UNCHANGED <<rtVars, barrier, aborted>>
  /\ UNCHANGED <<digests, messages, aborting, received, senders>>

-----------------------------------------------------------------------------
(***************************************************************************)
(* Sender threads: MockCluster::publish slot by slot.                      *)
(***************************************************************************)
Published(key) == \E m \in messages : m.id = key[1] /\ m.slot = key[2]

\* Mutant: the sender counts slots from zero.
CommunicateFromZero(r) ==
  /\ PostComm(r)
  /\ senders' =
       IF stage'[r] # "aborting" /\ SourceIsLocal(r, pc[r])
       THEN [senders EXCEPT ![r][pc[r]] = Sender("publishing", 0, InEntry(r, 1).data)]
       ELSE senders
  /\ UNCHANGED <<digests, messages, aborted, asleep, barrier, aborting, received>>

\* communicate_async, then the runtime's half of execute_communication.
Communicate(r) ==
  /\ PostComm(r)
  /\ senders' =
       IF stage'[r] # "aborting" /\ SourceIsLocal(r, pc[r])
       THEN [senders EXCEPT ![r][pc[r]] = Sender("publishing", 1, InEntry(r, 1).data)]
       ELSE senders
  /\ UNCHANGED <<digests, messages, aborted, asleep, barrier, aborting, received>>

SetSender(r, i, state, next) ==
  senders' = [senders EXCEPT ![r][i] = Sender(state, next, @.data)]

\* publish: the cluster is aborted, the message is stored, or an injected
\* failure or a duplicate key throws.
Publish(r, i) ==
  LET s   == senders[r][i]
      id  == PlanOf(r).code[i].id
      end == Len(PlanOf(r).code[i].outputs)
  IN
  /\ s.state = "publishing"
  /\ \/ /\ aborted
        /\ SetSender(r, i, "panic", s.next)
        /\ UNCHANGED <<messages, asleep>>
     \/ /\ ~aborted /\ ~Published(<<id, s.next>>)
        /\ messages' = messages \cup {[id |-> id, slot |-> s.next, data |-> s.data]}
        /\ asleep' = {}
        /\ SetSender(r, i, IF s.next = end THEN "done" ELSE "publishing", s.next + 1)
     \/ /\ ~aborted /\ ("publish" \in Faults \/ Published(<<id, s.next>>))
        /\ SetSender(r, i, "failing", s.next)
        /\ UNCHANGED <<messages, asleep>>
  /\ UNCHANGED <<rtVars, digests, aborted, barrier, aborting, received>>

\* The sender's catch block: abort_all, whose notify_all comes after unlock.
SenderAborts(r, i) ==
  /\ senders[r][i].state = "failing"
  /\ aborted' = TRUE
  /\ SetSender(r, i, "notifying", senders[r][i].next)
  /\ UNCHANGED <<rtVars, digests, messages, asleep, barrier, aborting, received>>

SenderNotifies(r, i) ==
  /\ senders[r][i].state = "notifying"
  /\ asleep' = {}
  /\ SetSender(r, i, "panic", senders[r][i].next)
  /\ UNCHANGED <<rtVars, digests, messages, aborted, barrier, aborting, received>>

-----------------------------------------------------------------------------
(***************************************************************************)
(* MockVecApi::wait: join the sender, then receive the local slots.        *)
(***************************************************************************)
Slots(r) == LocalOuts(PlanOf(r), waiting[r], r)
NextSlot(r) == CHOOSE k \in Slots(r) : Cardinality({j \in Slots(r) : j < k}) = received[r]
AllReceived(r) == received[r] = Cardinality(Slots(r))
JoinedNever(r) == TRUE    \* Mutant: wait does not join the sender.
Joined(r) == senders[r][waiting[r]].state \in {"none", "done"}

\* The message of slot k of the group being waited for, looked up by its key.
SlotKey(r, k) == <<PlanOf(r).code[waiting[r]].id, k>>
MessageOfSlot(key) ==     \* Mutant: the transfer id is not part of the key.
  CHOOSE m \in messages : m.slot = key[2]
Message(key) == CHOOSE m \in messages : m.id = key[1] /\ m.slot = key[2]

\* sender.get() rethrows what ended the sender.
SenderFailed(r) ==
  /\ InWait(r)
  /\ senders[r][waiting[r]].state = "panic"
  /\ Throw(r, "api")
  /\ UNCHANGED clusterVars

\* MockCluster::receive for the next slot: asleep until it is published or the
\* cluster aborted.  The message stays where it is.
Receive(r) ==
  /\ InWait(r)
  /\ Joined(r)
  /\ ~AllReceived(r)
  /\ r \notin asleep
  /\ \/ /\ aborted
        /\ Throw(r, "api")
        /\ UNCHANGED <<asleep, received>>
     \/ /\ ~aborted /\ ~Published(SlotKey(r, NextSlot(r)))
        /\ asleep' = asleep \cup {r}
        /\ UNCHANGED <<rtVars, received>>
     \/ /\ ~aborted /\ Published(SlotKey(r, NextSlot(r)))
        /\ received' = [received EXCEPT ![r] = @ + 1]
        /\ UNCHANGED <<rtVars, asleep>>
  /\ UNCHANGED <<digests, messages, aborted, barrier, aborting, senders>>

\* wait returns the outputs in slot order, and the runtime installs them.
Arrived(r) ==
  [v \in ValueIds |->
     IF \E k \in Slots(r) : GroupOut(r, k) = v
     THEN Message(SlotKey(r, CHOOSE k \in Slots(r) : GroupOut(r, k) = v)).data
     ELSE Garbage]

WaitReturns(r) ==
  /\ InWait(r)
  /\ Joined(r)
  /\ AllReceived(r)
  /\ FinishGroup(r, Arrived(r))
  /\ received' = [received EXCEPT ![r] = 0]
  /\ UNCHANGED <<digests, messages, aborted, asleep, barrier, aborting, senders>>

-----------------------------------------------------------------------------
(***************************************************************************)
(* abort_all, called with every exception that leaves run()'s try block.   *)
(***************************************************************************)
SetAborted(r) ==
  /\ stage[r] = "aborting"
  /\ r \notin aborting
  /\ aborted' = TRUE
  /\ aborting' = aborting \cup {r}
  /\ UNCHANGED <<rtVars, digests, messages, asleep, barrier, received, senders>>

\* Mutant: abort_all sets the flag and wakes nobody.
NotifyNobody(r) ==
  /\ r \in aborting
  /\ Panic(r)
  /\ aborting' = aborting \ {r}
  /\ UNCHANGED <<digests, messages, aborted, asleep, barrier, received, senders>>

NotifyAborted(r) ==
  /\ r \in aborting
  /\ Panic(r)
  /\ aborting' = aborting \ {r}
  /\ asleep' = {}
  /\ UNCHANGED <<digests, messages, aborted, barrier, received, senders>>

\* An Api call throws of its own, or a message arrives but is not as described.
CallThrows(r) ==
  /\ r \notin barrier \cup asleep
  /\ ApiThrows(r)
  /\ FaultPoint(r) \in Faults
  /\ stage[r] = "preflight" => digests[r] = NotArrived
  /\ InWait(r) => /\ Joined(r) /\ Slots(r) # {}
                  /\ ~AllReceived(r) => ~aborted /\ Published(SlotKey(r, NextSlot(r)))
  /\ UNCHANGED clusterVars

\* run() again on the same instance: clearing groups_ joins every sender.
Restart(r) ==
  /\ Start(r)
  /\ \A i \in Positions : senders[r][i].state \in {"none", "done", "panic"}
  /\ senders' = [senders EXCEPT ![r] = [i \in Positions |-> NoSender]]
  /\ received' = [received EXCEPT ![r] = 0]
  /\ UNCHANGED <<digests, messages, aborted, asleep, barrier, aborting>>

LocalStep(r) == RuntimeStep(r) /\ UNCHANGED clusterVars

\* A condition variable may wake a thread for no reason.
SpuriousWake(r) ==
  /\ r \in asleep
  /\ asleep' = asleep \ {r}
  /\ UNCHANGED <<rtVars, digests, messages, aborted, barrier, aborting, received, senders>>

RankStep(r) ==
  \/ Restart(r) \/ LocalStep(r)
  \/ EnterPreflight(r) \/ PreflightTwice(r) \/ WakeInPreflight(r)
  \/ Communicate(r) \/ SenderFailed(r) \/ Receive(r) \/ WaitReturns(r)
  \/ SetAborted(r) \/ NotifyAborted(r) \/ CallThrows(r)

SenderStep(r, i) ==
  Publish(r, i) \/ SenderAborts(r, i) \/ SenderNotifies(r, i)

\* run_mock_cluster joins the rank threads: nothing is left to do.
Finished ==
  /\ \A r \in Ranks : stage[r] \in {"done", "panic"} /\ runs[r] = MaxRuns
  /\ \A r \in Ranks : \A i \in Positions :
       senders[r][i].state \in {"none", "done", "panic"}
Terminating == Finished /\ UNCHANGED vars

MockInit ==
  /\ Init
  /\ digests = [r \in Ranks |-> NotArrived]
  /\ messages = {}
  /\ aborted = FALSE
  /\ asleep = {} /\ barrier = {} /\ aborting = {}
  /\ received = [r \in Ranks |-> 0]
  /\ senders = [r \in Ranks |-> [i \in Positions |-> NoSender]]

MockNext ==
  \/ \E r \in Ranks : RankStep(r) \/ SpuriousWake(r)
  \/ \E r \in Ranks : \E i \in Positions : SenderStep(r, i)
  \/ Terminating

MockSpec == MockInit /\ [][MockNext]_vars

\* The operating system runs every thread that can run: the harness starts each
\* rank's thread, and communicate_async each sender.  What cv_.wait waits for
\* stays true once it is, so weak fairness is all that is asked.
FairMockSpec ==
  /\ MockSpec
  /\ \A r \in Ranks : WF_vars(RankStep(r))
  /\ \A r \in Ranks : \A i \in Positions : WF_vars(SenderStep(r, i))

-----------------------------------------------------------------------------
(***************************************************************************)
(* Properties.                                                             *)
(***************************************************************************)
\* The cluster's tables, the wait sets and the sender threads have their shape.
MockTypeOK ==
  /\ \A r \in Ranks : digests[r] # NotArrived =>
       digests[r] \in [plan : DOMAIN Plans, skip : BOOLEAN]
  /\ messages \subseteq [id : Nat, slot : Nat \ {0}, data : Data]
  /\ aborted \in BOOLEAN
  /\ asleep \subseteq Ranks /\ barrier \subseteq Ranks /\ aborting \subseteq Ranks
  /\ received \in [Ranks -> Nat]
  /\ senders \in [Ranks -> [Positions ->
       [state : SenderStates, next : Nat, data : Data \cup {NoData}]]]

\* No rank touches its inputs, encodes, computes or sends before every rank has
\* brought its plan and the ranks agree on it (MockCluster::preflight): same
\* skip flag, and same digest unless digests are skipped.
PreflightAgreement ==
  \A r \in Ranks : PastPreflight(r) =>
    /\ AllArrived(digests) /\ Agreed(digests)
    /\ digests[r] = Brought(r)

\* While a sender thread is still publishing, its group is unfinished on the
\* sending rank and the value being sent is in that rank's store.
SourceHeldWhileSending ==
  \A r \in Ranks : Bound(r) => \A i \in Positions :
    senders[r][i].state \notin {"none", "done", "panic"} =>
      /\ i \in OpenGroups(r)
      /\ store[r][PlanOf(r).code[i].inputs[1]].state = "Ready"

\* A rank that returned an artifact leaves nothing of its own in flight: all its
\* senders are over and everything it sends is in messages_
\* (validation-and-errors.md 152).
NothingInFlight ==
  \A r \in Ranks : stage[r] = "done" => \A i \in Comms(PlanOf(r)) :
    SourceIsLocal(r, i) =>
      /\ senders[r][i].state = "done"
      /\ \A k \in DOMAIN PlanOf(r).code[i].outputs : Published(<<PlanOf(r).code[i].id, k>>)

\* Whatever fails, and wherever the other ranks are at that moment, every rank
\* returns or leaves run() with the panic and every sender ends: no lost
\* wakeup in the barrier or in receive, no rank waiting for a message that will
\* not come.
Termination == <>Finished

\* plaintext-testing.md 380: any error calls abort_all and all runtimes stop.
ErrorStopsAll ==
  \A r \in Ranks : stage[r] = "panic" ~> Finished
=============================================================================
