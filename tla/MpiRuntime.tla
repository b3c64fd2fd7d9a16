----------------------------- MODULE MpiRuntime -----------------------------
(***************************************************************************)
(* SequentialRuntime over MpiVecApi (api/mpi_api.cpp): one process per     *)
(* rank.  A value travels as two messages, a header and its slots; the     *)
(* receive of the header is posted when the communication is interpreted,  *)
(* that of the slots only inside wait, once the header is there.           *)
(*                                                                         *)
(* MPI itself is not in the repository and is modelled by what its callers *)
(* rely on: messages between two processes match by tag, in the order they *)
(* were sent; a send of a part in EagerParts completes by itself, any      *)
(* other when its receive is posted; a collective returns once every       *)
(* process has entered it; MPI_Abort ends every process sooner or later.   *)
(***************************************************************************)
EXTENDS ClusterValues

CONSTANTS
  EagerParts,  \* the parts whose sends the MPI library buffers
  TagUB        \* MPI_TAG_UB

ASSUME MpiConstantsOK ==
  /\ EagerParts \subseteq {0, 1}
  /\ TagUB \in Nat

VARIABLES
  gathers,   \* rank -> what it has put into each MPI_Allgather so far
  gathering, \* rank -> the Allgather of preflight it is in, 0 outside
  wire,      \* the messages sent and not received
  posted,    \* the receives posted and not completed
  inbox,     \* rank -> the output slots its handles hold: [group, slot, data]
  killed     \* MPI_Abort has been called

mpiVars == <<gathers, gathering, wire, posted, inbox, killed>>
vars == <<rtVars, mpiVars>>

-----------------------------------------------------------------------------
(***************************************************************************)
(* preflight: one MPI_Allgather of the skip flags and, unless they are     *)
(* set, one of the plan digests.  The n-th Allgather of one process meets  *)
(* the n-th of every other.                                                *)
(***************************************************************************)
Gathered(r) == \A s \in Ranks : Len(gathers[s]) >= Len(gathers[r])
Column(r)   == {gathers[s][Len(gathers[r])] : s \in Ranks}

EnterGather(r, n) ==
  /\ gathers' = [gathers EXCEPT ![r] = Append(@, Brought(r))]
  /\ gathering' = [gathering EXCEPT ![r] = n]

LeavePreflight(r, ok) ==
  /\ IF ok THEN PreflightReturns(r) ELSE Throw(r, "api")
  /\ gathering' = [gathering EXCEPT ![r] = 0]
  /\ UNCHANGED gathers

GatherSkips(r) ==
  /\ stage[r] = "preflight" /\ gathering[r] = 0
  /\ EnterGather(r, 1)
  /\ UNCHANGED <<rtVars, wire, posted, inbox, killed>>

\* Mutant: with checks skipped there is no collective at all.
CompareSkipsAlone(r) ==
  /\ stage[r] = "preflight" /\ gathering[r] = 1
  /\ IF arg[r].skip THEN LeavePreflight(r, TRUE)
     ELSE Gathered(r) /\ EnterGather(r, 2) /\ UNCHANGED rtVars
  /\ UNCHANGED <<wire, posted, inbox, killed>>

CompareSkips(r) ==
  /\ stage[r] = "preflight" /\ gathering[r] = 1
  /\ Gathered(r)
  /\ CASE \E b \in Column(r) : b.skip # arg[r].skip -> LeavePreflight(r, FALSE)
       [] arg[r].skip /\ \A b \in Column(r) : b.skip -> LeavePreflight(r, TRUE)
       [] OTHER -> EnterGather(r, 2) /\ UNCHANGED rtVars
  /\ UNCHANGED <<wire, posted, inbox, killed>>

\* Mutant: the digests are gathered and not compared.
ComparePlansNever(r) ==
  /\ stage[r] = "preflight" /\ gathering[r] = 2
  /\ Gathered(r)
  /\ LeavePreflight(r, TRUE)
  /\ UNCHANGED <<wire, posted, inbox, killed>>

ComparePlans(r) ==
  /\ stage[r] = "preflight" /\ gathering[r] = 2
  /\ Gathered(r)
  /\ LeavePreflight(r, \A b \in Column(r) : b.plan = arg[r].plan)
  /\ UNCHANGED <<wire, posted, inbox, killed>>

-----------------------------------------------------------------------------
(***************************************************************************)
(* Tags.  Slots are numbered from 1 here and from 0 in the code.           *)
(***************************************************************************)
Header == 0
Slots  == 1
Suffix(slot, part) == 2 * (slot - 1) + part

\* Mutant: the transfer id is not compared with the limit.
TagFitsSlot(id, slot, part) == slot - 1 < 32 /\ Suffix(slot, part) <= TagUB

TagFits(id, slot, part) ==
  /\ slot - 1 < 32
  /\ Suffix(slot, part) <= TagUB
  /\ id <= (TagUB - Suffix(slot, part)) \div 64

\* Mutant: one bit too few for the slots of a replicate.
TagNarrow(id, slot, part) == id * 2 + Suffix(slot, part)

Tag(id, slot, part) == id * 64 + Suffix(slot, part)

-----------------------------------------------------------------------------
(***************************************************************************)
(* Messages and requests.                                                  *)
(***************************************************************************)
Message(r, i, slot, part, data) ==
  [from |-> r, to |-> PlanOf(r).code[i].destinations[slot].rank,
   tag |-> Tag(PlanOf(r).code[i].id, slot, part), part |-> part,
   run |-> runs[r], group |-> i, data |-> data]

Receive(r, i, slot, part) ==
  [from |-> PlanOf(r).code[i].sources[1].rank, to |-> r,
   tag |-> Tag(PlanOf(r).code[i].id, slot, part)]

Matches(m, recv) == m.from = recv.from /\ m.to = recv.to /\ m.tag = recv.tag

Arrivals(recv) == {m \in wire : Matches(m, recv)}

\* MPI does not let messages overtake each other.
Earliest(S) ==
  CHOOSE m \in S : \A n \in S : m.run < n.run \/ (m.run = n.run /\ m.group <= n.group)

SendDone(m) == m.part \in EagerParts \/ \E recv \in posted : Matches(m, recv)

\* Mutant: a source that keeps a copy for itself sends none.
RemoteUnlessCopied(r, i) ==
  {k \in DOMAIN PlanOf(r).code[i].outputs :
     SourceIsLocal(r, i) /\ LocalOuts(PlanOf(r), i, r) = {}}

\* The output slots of group i that rank r sends to others, copies for itself,
\* and receives.
Remote(r, i) == {k \in DOMAIN PlanOf(r).code[i].outputs :
                   SourceIsLocal(r, i) /\ PlanOf(r).code[i].destinations[k].rank # r}
Copied(r, i)   == IF SourceIsLocal(r, i) THEN LocalOuts(PlanOf(r), i, r) ELSE {}
Incoming(r, i) == LocalOuts(PlanOf(r), i, r) \ Copied(r, i)

\* The requests communicate_async makes for the current instruction, as far as
\* their tags fit.
Fits(r, slot, part) == TagFits(Instr(r).id, slot, part)
NewSends(r) ==
  {Message(r, pc[r], kp[1], kp[2], InEntry(r, 1).data) :
     kp \in {x \in Remote(r, pc[r]) \X {Header, Slots} : Fits(r, x[1], x[2])}}
NewReceives(r) ==
  {Receive(r, pc[r], k, Header) : k \in {x \in Incoming(r, pc[r]) : Fits(r, x, Header)}}
Misfit(r) ==
  \/ \E k \in Remote(r, pc[r]) : \E part \in {Header, Slots} : ~Fits(r, k, part)
  \/ \E k \in Incoming(r, pc[r]) : ~Fits(r, k, Header)

\* communicate_async, then the runtime's half of execute_communication.
Communicate(r) ==
  /\ Running(r) /\ Instr(r).op = "Comm" /\ ~Blocked(r)
  /\ IF InstructionFault(r) = "none" /\ Misfit(r) THEN Throw(r, "api") ELSE PostComm(r)
  /\ wire' = wire \cup NewSends(r)
  /\ posted' = posted \cup NewReceives(r)
  /\ inbox' = [inbox EXCEPT ![r] = @ \cup
       {[group |-> pc[r], slot |-> k, data |-> InEntry(r, 1).data] : k \in Copied(r, pc[r])}]
  /\ UNCHANGED <<gathers, gathering, killed>>

-----------------------------------------------------------------------------
(***************************************************************************)
(* wait: MPI_Waitall on the sends, then slot by slot the header, the       *)
(* receive of the slots, and the slots.                                    *)
(***************************************************************************)
\* Mutant: wait does not complete the sends.
SentUnawaited(r) == TRUE

Sent(r) ==
  \A m \in wire : m.from = r /\ m.run = runs[r] /\ m.group = waiting[r] => SendDone(m)

Got(r)     == {e.slot : e \in {x \in inbox[r] : x.group = waiting[r]}}
Missing(r) == Incoming(r, waiting[r]) \ Got(r)
Id(r)      == PlanOf(r).code[waiting[r]].id

\* The receive that wait is blocked in for its next slot.
HeaderReceive(r) == Receive(r, waiting[r], Least(Missing(r)), Header)
SlotsReceive(r)  == Receive(r, waiting[r], Least(Missing(r)), Slots)

TakeHeader(r) ==
  /\ InWait(r) /\ Sent(r) /\ Missing(r) # {}
  /\ HeaderReceive(r) \in posted
  /\ Arrivals(HeaderReceive(r)) # {}
  /\ wire' = wire \ {Earliest(Arrivals(HeaderReceive(r)))}
  /\ IF TagFits(Id(r), Least(Missing(r)), Slots)
     THEN /\ posted' = (posted \ {HeaderReceive(r)}) \cup {SlotsReceive(r)}
          /\ UNCHANGED rtVars
     ELSE /\ posted' = posted \ {HeaderReceive(r)}
          /\ Throw(r, "api")
  /\ UNCHANGED <<gathers, gathering, inbox, killed>>

TakeSlots(r) ==
  LET m == Earliest(Arrivals(SlotsReceive(r))) IN
  /\ InWait(r) /\ Missing(r) # {}
  /\ SlotsReceive(r) \in posted
  /\ Arrivals(SlotsReceive(r)) # {}
  /\ wire' = wire \ {m}
  /\ posted' = posted \ {SlotsReceive(r)}
  /\ inbox' = [inbox EXCEPT ![r] = @ \cup
       {[group |-> waiting[r], slot |-> Least(Missing(r)), data |-> m.data]}]
  /\ UNCHANGED <<rtVars, gathers, gathering, killed>>

\* The outputs, sorted by slot, go to the runtime.
Arrived(r) ==
  [v \in ValueIds |->
     IF \E k \in GroupOuts(r) : GroupOut(r, k) = v
     THEN (CHOOSE e \in inbox[r] : e.group = waiting[r] /\ GroupOut(r, e.slot) = v).data
     ELSE Garbage]

WaitReturns(r) ==
  /\ InWait(r) /\ Sent(r) /\ Missing(r) = {}
  /\ FinishGroup(r, Arrived(r))
  /\ UNCHANGED mpiVars

-----------------------------------------------------------------------------
\* Mutant: an exception ends its own process only.
AbortSelf(r) == Panic(r) /\ UNCHANGED mpiVars

\* abort_all: MPI_Abort.
Abort(r) ==
  /\ Panic(r)
  /\ killed' = TRUE
  /\ UNCHANGED <<gathers, gathering, wire, posted, inbox>>

Over(r) == stage[r] = "panic" \/ (stage[r] = "done" /\ runs[r] = MaxRuns)

\* MPI ends a process, wherever it is.
Kill(r) ==
  /\ killed /\ ~Over(r)
  /\ stage' = [stage EXCEPT ![r] = "panic"]
  /\ UNCHANGED <<arg, runs, pc, store, uses, completed, waiting, error, mpiVars>>

CallThrows(r) ==
  /\ ApiThrows(r)
  /\ FaultPoint(r) \in Faults
  /\ stage[r] = "preflight" => gathering[r] = 0
  /\ InWait(r) => Sent(r) /\ Incoming(r, waiting[r]) # {} /\ Missing(r) = {}
  /\ UNCHANGED mpiVars

\* run() again: the handles of the last run go with groups_.
Restart(r) ==
  /\ stage[r] # "panic"
  /\ Start(r)
  /\ inbox' = [inbox EXCEPT ![r] = {}]
  /\ UNCHANGED <<gathers, gathering, wire, posted, killed>>

RankStep(r) ==
  \/ Restart(r)
  \/ RuntimeStep(r) /\ UNCHANGED mpiVars
  \/ GatherSkips(r) \/ CompareSkips(r) \/ ComparePlans(r)
  \/ Communicate(r) \/ TakeHeader(r) \/ TakeSlots(r) \/ WaitReturns(r)
  \/ Abort(r) \/ Kill(r) \/ CallThrows(r)

Finished    == \A r \in Ranks : Over(r)
Terminating == Finished /\ UNCHANGED vars

MpiInit ==
  /\ Init
  /\ gathers = [r \in Ranks |-> <<>>]
  /\ gathering = [r \in Ranks |-> 0]
  /\ wire = {} /\ posted = {}
  /\ inbox = [r \in Ranks |-> {}]
  /\ killed = FALSE

MpiNext == (\E r \in Ranks : RankStep(r)) \/ Terminating

MpiSpec == MpiInit /\ [][MpiNext]_vars

\* mpiexec runs every process; MPI delivers what was sent to a process that
\* waits for it, and kills what it was told to kill.
FairMpiSpec == MpiSpec /\ \A r \in Ranks : WF_vars(RankStep(r))

-----------------------------------------------------------------------------
(***************************************************************************)
(* Properties.                                                             *)
(***************************************************************************)
\* Requests and messages name ranks, tags in range and groups of their run.
MpiTypeOK ==
  /\ \A r \in Ranks : gathers[r] \in Seq(Requests) /\ gathering[r] \in 0 .. 2
  /\ \A m \in wire : /\ m.from \in Ranks /\ m.to \in Ranks /\ m.tag \in 0 .. TagUB
                     /\ m.group \in Positions /\ m.run \in 1 .. MaxRuns /\ m.data \in Data
  /\ \A recv \in posted : recv.from \in Ranks /\ recv.to \in Ranks /\ recv.tag \in 0 .. TagUB
  /\ \A r \in Ranks : inbox[r] \subseteq [group : Positions, slot : Nat, data : Data]
  /\ killed \in BOOLEAN

\* No rank works on its n-th run before every rank has begun its own n-th run,
\* under the same skip flag and, unless it is set, with the same plan
\* (MpiVecApi::preflight, two collectives, on a communicator used again).
RunsAligned ==
  \A r, s \in Ranks : PastPreflight(r) =>
    /\ runs[s] >= runs[r]
    /\ runs[s] = runs[r] => /\ arg[s].skip = arg[r].skip
                            /\ arg[r].skip \/ arg[s].plan = arg[r].plan

\* Two messages under way from one rank to another never have the same tag:
\* matching by tag is matching by transfer, slot and part (MpiVecApi::tag), also
\* when a second run uses the same tags again.
NoTagClash ==
  \A m, n \in wire : m.from = n.from /\ m.to = n.to /\ m.tag = n.tag => m = n

\* When a rank returns, none of its requests is pending: the buffers that die
\* with its handles are no longer MPI's.
NothingPending ==
  \A r \in Ranks : stage[r] = "done" =>
    /\ \A m \in wire : m.from = r => SendDone(m)
    /\ \A recv \in posted : recv.to # r

\* Whatever fails, every process returns or is ended.
Termination == <>Finished

\* communication-design.md 304-311: ranks that interpret the same communications
\* in the same order do not deadlock.
DeadlockFree == Success
=============================================================================
