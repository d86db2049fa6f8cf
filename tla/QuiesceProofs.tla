--------------------------- MODULE QuiesceProofs ---------------------------
(***************************************************************************)
(* What is proved of Quiesce, for any disks, sources, cutovers, stops,     *)
(* pauses and faults: its type invariant; that a pause holds; that each    *)
(* disk implements ConsistentPass; and, when no Stop overtakes a run that  *)
(* is about to set or clear requests, that every request has its owner and *)
(* that the disks stay frozen together.                                    *)
(***************************************************************************)
EXTENDS Quiesce, TLAPS

USE DiskAssumption, BoundAssumption, StopAssumption DEF Runs, Mechanisms

---------------------------------------------------------------------------
(***************************************************************************)
(* Types.                                                                  *)
(***************************************************************************)

LEMMA TypeInit == Init => TypeOK
<1> SUFFICES ASSUME Init PROVE TypeOK
  OBVIOUS
<1>1. enabled \in BOOLEAN /\ up \in BOOLEAN
  BY DEF Init
<1>2. QED
  BY <1>1 DEF Init, TypeOK, AgentPcs, RunPcs

\* What an agent's step leaves of the agents and of the faults.
AgentsTyped ==
    /\ agent \in [Disks -> AgentPcs]
    /\ first \in [Disks -> BOOLEAN]
    /\ consistent \in [Disks -> BOOLEAN]

LEMMA GotoTyped ==
  ASSUME TypeOK, NEW d \in Disks, NEW pc \in AgentPcs, Goto(d, pc)
  PROVE  AgentsTyped'
  BY DEF TypeOK, AgentsTyped, Goto

LEMMA TriesTyped ==
  ASSUME TypeOK, NEW d \in Disks, NEW pc \in AgentPcs, NEW f \in BOOLEAN, NEW c \in BOOLEAN,
         Tries(d, pc, f, c)
  PROVE  AgentsTyped'
  BY DEF TypeOK, AgentsTyped, Tries

LEMMA OffTyped ==
  ASSUME TypeOK, NEW d \in Disks, GoOff(d)
  PROVE  AgentsTyped'
  BY DEF TypeOK, AgentsTyped, Tries, GoOff, AgentPcs

LEMMA FailsTyped ==
  ASSUME TypeOK, NEW d \in Disks, Fails(d)
  PROVE  AgentsTyped'
<1>1. CASE Goto(d, "refusal")
  BY <1>1, GotoTyped DEF AgentPcs
<1>2. CASE GoOff(d)
  BY <1>2, OffTyped
<1>3. QED
  BY <1>1, <1>2 DEF Fails

LEMMA FaultTyped ==
  ASSUME TypeOK, Fault \/ NoFault
  PROVE  stops' \in 0 .. MaxStops /\ pauses' \in 0 .. MaxPauses /\ faults' \in 0 .. MaxFaults
  BY DEF TypeOK, Fault, NoFault, budget

LEMMA TypeAgent ==
  ASSUME TypeOK, NEW d \in Disks, AgentStep(d) \/ Breaks(d)
  PROVE  TypeOK'
<1> USE DEF request, control, runs
<1>1. CASE Starts(d)
  <2>1. (mechanism[d] = "pinned") \in BOOLEAN
    OBVIOUS
  <2>2. AgentsTyped'
    BY <1>1, <2>1, TriesTyped DEF Starts, AgentPcs
  <2>3. QED
    BY <1>1, <2>2 DEF Starts, TypeOK, AgentsTyped, budget
<1>2. CASE Handshake(d)
  <2>1. AgentsTyped'
    BY <1>2, GotoTyped, OffTyped DEF Handshake, AgentPcs
  <2>2. Fault \/ NoFault
    BY <1>2 DEF Handshake
  <2>3. QED
    BY <1>2, <2>1, <2>2, FaultTyped DEF Handshake, TypeOK, AgentsTyped
<1>3. CASE TriesAgain(d)
  <2>1. (mechanism[d] # "none") \in BOOLEAN
    OBVIOUS
  <2>2. AgentsTyped'
    BY <1>3, <2>1, GotoTyped, OffTyped, TriesTyped DEF TriesAgain, AgentPcs
  <2>3. Fault \/ NoFault
    BY <1>3 DEF TriesAgain
  <2>4. QED
    BY <1>3, <2>2, <2>3, FaultTyped DEF TriesAgain, TypeOK, AgentsTyped
<1>4. CASE Breaks(d)
  BY <1>4, FailsTyped, FaultTyped DEF Breaks, TypeOK, AgentsTyped
<1>5. CASE Lands(d)
  <2>1. AgentsTyped'
    BY <1>5, FailsTyped, OffTyped DEF Lands
  <2>2. Fault \/ NoFault
    BY <1>5 DEF Lands
  <2>3. sincePause' \in [Disks -> Nat]
    BY <1>5 DEF Lands, TypeOK
  <2>4. marking' \in [Disks -> {"nothing", "done", "refused"}]
    BY <1>5 DEF Lands, TypeOK
  <2>5. QED
    BY <1>5, <2>1, <2>2, <2>3, <2>4, FaultTyped DEF Lands, TypeOK, AgentsTyped
<1>6. CASE ReportsRefusal(d)
  <2>1. AgentsTyped'
    BY <1>6, OffTyped DEF ReportsRefusal
  <2>2. Fault \/ NoFault
    BY <1>6 DEF ReportsRefusal
  <2>3. marking' \in [Disks -> {"nothing", "done", "refused"}]
    BY <1>6 DEF ReportsRefusal, TypeOK
  <2>4. QED
    BY <1>6, <2>1, <2>2, <2>3, FaultTyped DEF ReportsRefusal, TypeOK, AgentsTyped
<1>7. CASE HelloAck(d)
  <2>1. AgentsTyped'
    BY <1>7, GotoTyped, OffTyped DEF HelloAck, AgentPcs
  <2>2. QED
    BY <1>7, <2>1, FaultTyped DEF HelloAck, TypeOK, AgentsTyped
<1>8. CASE Marks(d)
  <2>1. done' \in [Disks -> BOOLEAN] /\ refused' \in [Disks -> BOOLEAN]
    BY <1>8 DEF Marks, TypeOK
  <2>2. marking' \in [Disks -> {"nothing", "done", "refused"}]
    BY <1>8 DEF Marks, TypeOK
  <2>3. QED
    BY <1>8, <2>1, <2>2 DEF Marks, TypeOK, agents, budget
<1>9. QED
  BY <1>1, <1>2, <1>3, <1>4, <1>5, <1>6, <1>7, <1>8 DEF AgentStep

LEMMA TypeOperator ==
  ASSUME TypeOK, Operator
  PROVE  TypeOK'
<1> USE DEF TypeOK, AgentPcs, RunPcs, agents, runs, request, budget
<1>1. CASE StartReplication
  BY <1>1 DEF StartReplication
<1>2. CASE PauseReplication
  <2>1. enabled' \in BOOLEAN /\ up' \in BOOLEAN
    BY <1>2 DEF PauseReplication
  <2>2. QED
    BY <1>2, <2>1 DEF PauseReplication
<1>3. CASE StopMigration
  BY <1>3 DEF StopMigration, Forget
<1>4. ASSUME NEW r \in Runs, StartMigration(r) PROVE TypeOK'
  BY <1>4 DEF StartMigration
<1>5. QED
  BY <1>1, <1>2, <1>3, <1>4 DEF Operator

LEMMA TypeRun ==
  ASSUME TypeOK, NEW r \in Runs, RunStep(r) \/ TimesOut(r)
  PROVE  TypeOK'
<1> USE DEF TypeOK, AgentPcs, RunPcs, agents, runs, request, budget, RunTo, Returns
<1>1. CASE SkipsQuiesce(r)
  <2>1. CASE RunTo(r, "drain") /\ UNCHANGED finalizes
    BY <1>1, <2>1 DEF SkipsQuiesce
  <2>2. CASE Returns(r)
    BY <1>1, <2>2 DEF SkipsQuiesce
  <2>3. QED
    BY <1>1, <2>1, <2>2 DEF SkipsQuiesce
<1>2. ASSUME NEW d \in Disks, Asks(r, d) PROVE TypeOK'
  BY <1>2 DEF Asks
<1>3. CASE Settles(r)
  <2>1. CASE Returns(r)
    BY <1>3, <2>1 DEF Settles
  <2>2. ASSUME run' = [run EXCEPT ![r] = "drain"],
               all' = [all EXCEPT ![r] = \A d \in Disks : done[d]],
               UNCHANGED <<live, asked, finalizes>>
        PROVE  TypeOK'
    <3>1. (\A d \in Disks : done[d]) \in BOOLEAN
      OBVIOUS
    <3>2. all' \in [Runs -> BOOLEAN]
      BY <2>2, <3>1
    <3>3. QED
      BY <1>3, <2>2, <3>2 DEF Settles
  <2>3. QED
    BY <1>3, <2>1, <2>2 DEF Settles
<1>4. CASE TimesOut(r)
  BY <1>4 DEF TimesOut
<1>5. CASE DrainBegins(r)
  BY <1>5 DEF DrainBegins
<1>6. CASE DrainEnds(r)
  BY <1>6 DEF DrainEnds, Forget
<1>7. QED
  BY <1>1, <1>2, <1>3, <1>4, <1>5, <1>6 DEF RunStep

\* Every state of the quiesce is well typed, whatever the disks and the bounds.
THEOREM QuiesceTypeCorrect == Spec => []TypeOK
<1>1. TypeOK /\ [Next]_vars => TypeOK'
  <2> SUFFICES ASSUME TypeOK, [Next]_vars PROVE TypeOK'
    OBVIOUS
  <2>1. CASE UNCHANGED vars
    BY <2>1 DEF TypeOK, vars, agents, runs, request, control, budget
  <2>2. QED
    BY <2>1, TypeAgent, TypeOperator, TypeRun DEF Next
<1>2. QED
  BY <1>1, TypeInit, PTL DEF Spec

---------------------------------------------------------------------------
(***************************************************************************)
(* A pause.                                                                *)
(***************************************************************************)

\* Behind a closed gate, a session that is still to land was let in before the gate
\* closed, or by a fault: so a disk has landed no more passes than there were faults.
InFlight ==
    \A d \in Disks : ~GateOpen /\ agent[d] \in {"gated", "stream"} => sincePause[d] <= faults

PauseInv == PauseHolds /\ InFlight

\* A step that opens no gate and lets no agent past it.
LEMMA PauseUntouched ==
  ASSUME TypeOK, TypeOK', PauseInv,
         GateOpen => GateOpen', faults' >= faults, UNCHANGED sincePause,
         \A d \in Disks : agent[d]' \in {"gated", "stream"} => agent[d] \in {"gated", "stream"}
  PROVE  PauseInv'
<1>1. \A d \in Disks : sincePause[d] \in Nat
  BY DEF TypeOK
<1>2. faults \in Nat /\ faults' \in Nat
  BY DEF TypeOK
<1>3. PauseHolds'
  BY <1>1, <1>2 DEF PauseInv, PauseHolds
<1>4. InFlight'
  BY <1>1, <1>2 DEF PauseInv, InFlight
<1>5. QED
  BY <1>3, <1>4 DEF PauseInv

LEMMA PauseAgent ==
  ASSUME TypeOK, TypeOK', PauseInv, NEW d \in Disks, AgentStep(d) \/ Breaks(d)
  PROVE  PauseInv'
<1>1. faults \in Nat /\ faults' \in Nat /\ \A e \in Disks : sincePause[e] \in Nat
  BY DEF TypeOK
<1>2. Fault => faults' = faults + 1
  BY DEF Fault
<1>3. NoFault => faults' = faults
  BY DEF NoFault, budget
<1>4. agent \in [Disks -> AgentPcs]
  BY DEF TypeOK
<1> USE DEF Goto, Tries, GoOff, Fails
<1>5. CASE Starts(d)
  BY <1>1, <1>4, <1>5, PauseUntouched DEF Starts, control, budget, GateOpen
<1>6. CASE Handshake(d)
  <2>1. UNCHANGED <<enabled, state, sincePause>>
    BY <1>6 DEF Handshake, control
  <2>2. GateOpen' = GateOpen
    BY <2>1 DEF GateOpen
  <2>3. faults' >= faults
    BY <1>1, <1>2, <1>3, <1>6 DEF Handshake
  <2>4. CASE GateOpen
    BY <1>1, <2>1, <2>2, <2>3, <2>4 DEF PauseInv, PauseHolds, InFlight
  <2>5. CASE ~GateOpen /\ Fault
    <3>1. \A e \in Disks : sincePause[e]' <= faults'
      BY <1>1, <1>2, <2>1, <2>5 DEF PauseInv, PauseHolds
    <3>2. QED
      BY <1>1, <3>1, <2>1 DEF PauseInv, PauseHolds, InFlight
  <2>6. CASE GoOff(d)
    BY <1>4, <2>1, <2>2, <2>3, <2>6, PauseUntouched
  <2>7. QED
    BY <1>6, <2>4, <2>5, <2>6 DEF Handshake
<1>7. CASE TriesAgain(d)
  <2>1. UNCHANGED <<enabled, state, sincePause>>
    BY <1>7 DEF TriesAgain, control
  <2>2. faults' >= faults
    BY <1>1, <1>2, <1>3, <1>7 DEF TriesAgain
  <2>3. \A e \in Disks : agent[e]' \in {"gated", "stream"} => agent[e] \in {"gated", "stream"}
    BY <1>4, <1>7 DEF TriesAgain
  <2>4. QED
    BY <2>1, <2>2, <2>3, PauseUntouched DEF GateOpen
<1>8. CASE Breaks(d)
  <2>1. UNCHANGED <<enabled, state, sincePause>>
    BY <1>8 DEF Breaks, control
  <2>2. faults' >= faults
    BY <1>1, <1>2, <1>8 DEF Breaks
  <2>3. \A e \in Disks : agent[e]' \in {"gated", "stream"} => agent[e] \in {"gated", "stream"}
    BY <1>4, <1>8 DEF Breaks
  <2>4. QED
    BY <2>1, <2>2, <2>3, PauseUntouched DEF GateOpen
<1>9. CASE Lands(d)
  <2>1. GateOpen' = GateOpen
    BY <1>9 DEF Lands, GateOpen
  <2>2. faults' >= faults
    BY <1>1, <1>2, <1>3, <1>9 DEF Lands
  <2>3. /\ agent'[d] \notin {"gated", "stream"}
        /\ \A e \in Disks \ {d} : agent'[e] = agent[e]
    BY <1>4, <1>9 DEF Lands
  <2>4. \A e \in Disks \ {d} : sincePause'[e] = sincePause[e]
    BY <1>9 DEF Lands, TypeOK
  <2>5. sincePause'[d] <= 1 + faults
    <3>1. sincePause'[d] = IF GateOpen THEN 0 ELSE sincePause[d] + 1
      BY <1>9 DEF Lands, TypeOK
    <3>2. ~GateOpen => sincePause[d] <= faults
      BY <1>9 DEF Lands, PauseInv, InFlight
    <3>3. QED
      BY <1>1, <3>1, <3>2
  <2>6. \A e \in Disks : sincePause'[e] \in Nat
    BY DEF TypeOK
  <2>7. PauseHolds'
    BY <1>1, <2>2, <2>4, <2>5, <2>6 DEF PauseInv, PauseHolds
  <2>8. InFlight'
    BY <1>1, <2>1, <2>2, <2>3, <2>4, <2>6 DEF PauseInv, InFlight
  <2>9. QED
    BY <2>7, <2>8 DEF PauseInv
<1>10. CASE ReportsRefusal(d)
  <2>1. UNCHANGED <<enabled, state, sincePause>>
    BY <1>10 DEF ReportsRefusal, control
  <2>2. faults' >= faults
    BY <1>1, <1>2, <1>3, <1>10 DEF ReportsRefusal
  <2>3. \A e \in Disks : agent[e]' \in {"gated", "stream"} => agent[e] \in {"gated", "stream"}
    BY <1>4, <1>10 DEF ReportsRefusal
  <2>4. QED
    BY <2>1, <2>2, <2>3, PauseUntouched DEF GateOpen
<1>11. CASE HelloAck(d)
  <2>1. UNCHANGED <<enabled, state, sincePause>>
    BY <1>11 DEF HelloAck, control
  <2>2. faults' >= faults
    BY <1>1, <1>3, <1>11 DEF HelloAck
  <2>3. \A e \in Disks : agent[e]' \in {"gated", "stream"} => agent[e] \in {"gated", "stream"}
    BY <1>4, <1>11 DEF HelloAck
  <2>4. QED
    BY <2>1, <2>2, <2>3, PauseUntouched DEF GateOpen
<1>12. CASE Marks(d)
  BY <1>1, <1>12, PauseUntouched DEF Marks, control, budget, agents, GateOpen
<1>13. QED
  BY <1>5, <1>6, <1>7, <1>8, <1>9, <1>10, <1>11, <1>12 DEF AgentStep

LEMMA PauseControl ==
  ASSUME TypeOK, TypeOK', PauseInv, Operator \/ \E r \in Runs : RunStep(r) \/ TimesOut(r)
  PROVE  PauseInv'
<1>1. faults \in Nat /\ faults' \in Nat /\ \A e \in Disks : sincePause[e] \in Nat
  BY DEF TypeOK
<1> USE DEF agents, budget
<1>2. CASE StartReplication
  BY <1>1, <1>2, PauseUntouched DEF StartReplication, GateOpen
<1>3. ASSUME UNCHANGED faults, sincePause' = [d \in Disks |-> 0] PROVE PauseInv'
  BY <1>1, <1>3 DEF PauseInv, PauseHolds, InFlight
<1>4. CASE PauseReplication \/ StopMigration
  BY <1>3, <1>4 DEF PauseReplication, StopMigration
<1>5. ASSUME NEW r \in Runs, StartMigration(r) PROVE PauseInv'
  BY <1>1, <1>5, PauseUntouched DEF StartMigration, GateOpen
<1>6. ASSUME NEW r \in Runs, RunStep(r) \/ TimesOut(r) PROVE PauseInv'
  BY <1>1, <1>6, PauseUntouched
     DEF RunStep, TimesOut, SkipsQuiesce, Asks, Settles, DrainBegins, DrainEnds, GateOpen
<1>7. QED
  BY <1>2, <1>4, <1>5, <1>6 DEF Operator

\* Paused is paused: behind the closed gate a disk takes the pass that was in flight,
\* and one more for every look at the row that failed, whatever the operator does.
THEOREM PauseHeld == Spec => []PauseHolds
<1>1. Init => PauseInv
  BY DEF Init, PauseInv, PauseHolds, InFlight
<1>2. TypeOK /\ TypeOK' /\ PauseInv /\ [Next]_vars => PauseInv'
  <2> SUFFICES ASSUME TypeOK, TypeOK', PauseInv, [Next]_vars PROVE PauseInv'
    OBVIOUS
  <2>1. CASE UNCHANGED vars
    BY <2>1 DEF PauseInv, PauseHolds, InFlight, GateOpen, vars, agents, control, budget
  <2>2. QED
    BY <2>1, PauseAgent, PauseControl DEF Next
<1>3. PauseInv => PauseHolds
  BY DEF PauseInv
<1>4. QED
  BY <1>1, <1>2, <1>3, QuiesceTypeCorrect, PTL DEF Spec

---------------------------------------------------------------------------
(***************************************************************************)
(* Requests have owners, when no Stop overtakes a run about to ask.        *)
(***************************************************************************)

\* A run that still asks has a good context: a Stop would have waited for it.
AskersLive == \A r \in Runs : run[r] \in {"begin", "ask"} => live[r]

Owns(r)  == live[r] /\ run[r] \in {"ask", "wait", "drain", "draining"}
OwnerInv == AskersLive /\ RequestHasOwner

LEMMA OwnerRun ==
  ASSUME TypeOK, OwnerInv, NEW r \in Runs, RunStep(r) \/ TimesOut(r)
  PROVE  OwnerInv'
<1>1. run \in [Runs -> RunPcs]
  BY DEF TypeOK
<1> USE DEF OwnerInv, AskersLive, RequestHasOwner, Owns, RunTo, Returns, request
<1>2. CASE SkipsQuiesce(r)
  BY <1>1, <1>2 DEF SkipsQuiesce
<1>3. ASSUME NEW d \in Disks, Asks(r, d) PROVE OwnerInv'
  BY <1>1, <1>3 DEF Asks
<1>4. CASE Settles(r)
  BY <1>1, <1>4 DEF Settles
<1>5. CASE TimesOut(r)
  BY <1>1, <1>5 DEF TimesOut
<1>6. CASE DrainBegins(r)
  BY <1>1, <1>6 DEF DrainBegins
<1>7. CASE DrainEnds(r)
  <2>1. \A d \in Disks : ~req'[d]
    BY <1>7 DEF DrainEnds, Forget
  <2>2. QED
    BY <1>1, <1>7, <2>1 DEF DrainEnds
<1>8. QED
  BY <1>2, <1>3, <1>4, <1>5, <1>6, <1>7 DEF RunStep

LEMMA OwnerOperator ==
  ASSUME ~MayOvertake, TypeOK, OwnerInv, Operator
  PROVE  OwnerInv'
<1> USE DEF OwnerInv, AskersLive, RequestHasOwner, Owns, request, runs
<1>1. run \in [Runs -> RunPcs] /\ live \in [Runs -> BOOLEAN]
  BY DEF TypeOK
<1>2. CASE StartReplication
  BY <1>2 DEF StartReplication
<1>3. CASE PauseReplication
  BY <1>3 DEF PauseReplication
<1>4. CASE StopMigration
  <2>1. \A d \in Disks : ~req'[d]
    BY <1>4 DEF StopMigration, Forget
  <2>2. \A r \in Runs : run'[r] \notin {"begin", "ask"}
    BY <1>4 DEF StopMigration, Hasty
  <2>3. QED
    BY <2>1, <2>2
<1>5. ASSUME NEW r \in Runs, StartMigration(r) PROVE OwnerInv'
  BY <1>1, <1>5 DEF StartMigration
<1>6. QED
  BY <1>2, <1>3, <1>4, <1>5 DEF Operator

LEMMA OwnerAgent ==
  ASSUME TypeOK, OwnerInv, NEW d \in Disks, AgentStep(d) \/ Breaks(d)
  PROVE  OwnerInv'
<1>1. UNCHANGED <<req, run, live>>
  BY DEF AgentStep, Starts, Handshake, HelloAck, TriesAgain, Breaks, Lands, ReportsRefusal,
         Marks, request, control, runs
<1>2. QED
  BY <1>1 DEF OwnerInv, AskersLive, RequestHasOwner, Owns

\* No request outlives the cutover that made it, or its stop, however cutovers and
\* stops follow each other: no disk is left whose live passes are bounced for ever.
THEOREM RequestsHaveOwners ==
    ASSUME ~MayOvertake
    PROVE  Spec => []RequestHasOwner
<1>1. Init => OwnerInv
  BY DEF Init, OwnerInv, AskersLive, RequestHasOwner
<1>2. TypeOK /\ OwnerInv /\ [Next]_vars => OwnerInv'
  <2> SUFFICES ASSUME TypeOK, OwnerInv, [Next]_vars PROVE OwnerInv'
    OBVIOUS
  <2>1. CASE UNCHANGED vars
    BY <2>1 DEF OwnerInv, AskersLive, RequestHasOwner, vars, control, runs, request
  <2>2. QED
    BY <2>1, OwnerRun, OwnerOperator, OwnerAgent DEF Next
<1>3. OwnerInv => RequestHasOwner
  BY DEF OwnerInv
<1>4. QED
  BY <1>1, <1>2, <1>3, QuiesceTypeCorrect, PTL DEF Spec

---------------------------------------------------------------------------
(***************************************************************************)
(* What a disk promises a cutover that waits for it.                       *)
(***************************************************************************)

\* A disk that is marked while it is asked holds a consistent pass and streams no other;
\* one that is about to be marked holds a consistent pass, and no session has begun since.
Done(d) ==
    /\ req[d] /\ done[d] =>
        landed[d] = "consistent" /\ (agent[d] = "stream" => consistent[d])
    /\ marking[d] = "done" => landed[d] = "consistent"
    /\ marking[d] # "nothing" => agent[d] \notin {"gated", "stream"}

DoneMeans == \A d \in Disks : Done(d)

\* A pass that lands is the disk's own; the disk is about to be marked if the pass is
\* consistent and asked for.
LEMMA LandsOn ==
  ASSUME TypeOK, NEW d \in Disks, Lands(d)
  PROVE  /\ agent[d] = "stream" /\ agent'[d] \notin {"hello", "gated", "stream"}
         /\ \A e \in Disks \ {d} : /\ agent'[e] = agent[e] /\ consistent'[e] = consistent[e]
                                  /\ landed'[e] = landed[e] /\ marking'[e] = marking[e]
         /\ landed'[d] = "consistent" <=> consistent[d]
         /\ marking'[d] = IF consistent[d] /\ req[d] THEN "done" ELSE marking[d]
         /\ UNCHANGED <<req, done>>
<1>1. /\ agent \in [Disks -> AgentPcs] /\ consistent \in [Disks -> BOOLEAN]
      /\ landed \in [Disks -> {"nothing", "live", "consistent"}]
      /\ marking \in [Disks -> {"nothing", "done", "refused"}]
  BY DEF TypeOK
<1> USE DEF Lands, GoOff, Fails, Goto, Tries
<1>2. agent[d] = "stream" /\ agent'[d] \notin {"hello", "gated", "stream"}
  BY <1>1
<1>3. UNCHANGED <<req, done>>
  OBVIOUS
<1>4. \A e \in Disks \ {d} : agent'[e] = agent[e] /\ consistent'[e] = consistent[e]
  BY <1>1
<1>5. \A e \in Disks \ {d} : landed'[e] = landed[e] /\ marking'[e] = marking[e]
  BY <1>1
<1>6. landed'[d] = "consistent" <=> consistent[d]
  BY <1>1
<1>7. marking'[d] = IF consistent[d] /\ req[d] THEN "done" ELSE marking[d]
  BY <1>1
<1>8. QED
  BY <1>2, <1>3, <1>4, <1>5, <1>6, <1>7

\* A mark is the disk's own, and all that the step changes.
LEMMA MarksOn ==
  ASSUME TypeOK, NEW d \in Disks, Marks(d)
  PROVE  /\ marking[d] # "nothing" /\ marking'[d] = "nothing"
         /\ done'[d] <=> done[d] \/ marking[d] = "done"
         /\ \A e \in Disks \ {d} : marking'[e] = marking[e] /\ done'[e] = done[e]
         /\ UNCHANGED <<agent, consistent, req, landed>>
<1>1. done \in [Disks -> BOOLEAN] /\ marking \in [Disks -> {"nothing", "done", "refused"}]
  BY DEF TypeOK
<1>2. UNCHANGED <<agent, consistent, req, landed>>
  BY DEF Marks, agents
<1>3. QED
  BY <1>1, <1>2 DEF Marks, Accepting

\* Neither a landing nor a mark.
Elsewhere(d) == (AgentStep(d) \/ Breaks(d)) /\ ~Lands(d) /\ ~Marks(d)

\* The other steps of an agent land nothing and mark nothing as done; what begins to
\* stream was not bounced, and no session begins before the last has been accounted for.
LEMMA AgentKeepsLanded ==
  ASSUME TypeOK, NEW d \in Disks, Elsewhere(d)
  PROVE  /\ UNCHANGED <<req, landed, done>>
         /\ \A e \in Disks \ {d} : /\ agent'[e] = agent[e] /\ consistent'[e] = consistent[e]
                                  /\ marking'[e] = marking[e]
         /\ agent'[d] = "stream" => agent[d] = "gated" /\ (consistent'[d] \/ ~req[d])
         /\ agent'[d] = "gated" => marking[d] = "nothing"
         /\ marking'[d] # marking[d] => marking'[d] = "refused" /\ agent'[d] = "off"
         /\ Serving(d)' => up \/ Serving(d)
<1>1. /\ agent \in [Disks -> AgentPcs] /\ consistent \in [Disks -> BOOLEAN]
      /\ marking \in [Disks -> {"nothing", "done", "refused"}]
  BY DEF TypeOK
<1> USE DEF Goto, Tries, GoOff, Fails, request, Serving, Accepting
<1>2. CASE Starts(d)
  BY <1>1, <1>2 DEF Starts
<1>3. CASE Handshake(d)
  <2>1. UNCHANGED <<req, landed, done, marking>> /\ agent[d] = "hello" /\ marking[d] = "nothing"
    BY <1>3 DEF Handshake
  <2>2. \A e \in Disks \ {d} : agent'[e] = agent[e] /\ consistent'[e] = consistent[e]
    BY <1>1, <1>3 DEF Handshake
  <2>3. agent'[d] \in {"off", "gated"}
    BY <1>1, <1>3 DEF Handshake
  <2>4. QED
    BY <2>1, <2>2, <2>3
<1>4. CASE HelloAck(d)
  <2>1. agent'[d] = "stream" => consistent[d] \/ ~req[d]
    BY <1>1, <1>4 DEF HelloAck, Bounced
  <2>2. UNCHANGED <<req, landed, done, marking>> /\ agent[d] = "gated"
    BY <1>4 DEF HelloAck
  <2>3. \A e \in Disks \ {d} : agent'[e] = agent[e] /\ consistent'[e] = consistent[e]
    BY <1>1, <1>4 DEF HelloAck
  <2>4. agent'[d] = "stream" => consistent'[d] = consistent[d]
    BY <1>1, <1>4 DEF HelloAck
  <2>5. agent'[d] \in {"off", "stream", "again"}
    BY <1>1, <1>4 DEF HelloAck
  <2>6. QED
    BY <2>1, <2>2, <2>3, <2>4, <2>5
<1>5. CASE TriesAgain(d)
  <2>1. \A e \in Disks \ {d} : agent'[e] = agent[e] /\ consistent'[e] = consistent[e]
    BY <1>1, <1>5 DEF TriesAgain
  <2>2. agent'[d] \notin {"gated", "stream"} /\ (agent'[d] = "hello" => up)
    BY <1>1, <1>5 DEF TriesAgain
  <2>3. UNCHANGED <<req, landed, done, marking>>
    BY <1>5 DEF TriesAgain
  <2>4. QED
    BY <2>1, <2>2, <2>3
<1>6. CASE Breaks(d)
  <2>1. \A e \in Disks \ {d} : agent'[e] = agent[e] /\ consistent'[e] = consistent[e]
    BY <1>1, <1>6 DEF Breaks
  <2>2. agent'[d] \notin {"hello", "gated", "stream"}
    BY <1>1, <1>6 DEF Breaks
  <2>3. UNCHANGED <<req, landed, done, marking>>
    BY <1>6 DEF Breaks
  <2>4. QED
    BY <2>1, <2>2, <2>3
<1>7. CASE ReportsRefusal(d)
  <2>1. /\ agent'[d] = "off"
        /\ \A e \in Disks \ {d} : agent'[e] = agent[e] /\ consistent'[e] = consistent[e]
    BY <1>1, <1>7 DEF ReportsRefusal
  <2>2. /\ marking'[d] # marking[d] => marking'[d] = "refused" /\ up
        /\ \A e \in Disks \ {d} : marking'[e] = marking[e]
    BY <1>1, <1>7 DEF ReportsRefusal
  <2>3. UNCHANGED <<req, landed, done>> /\ marking[d] = "nothing"
    BY <1>7 DEF ReportsRefusal
  <2>4. QED
    BY <2>1, <2>2, <2>3
<1>8. QED
  BY <1>2, <1>3, <1>4, <1>5, <1>6, <1>7 DEF Elsewhere, AgentStep

\* What a cutover's steps and the operator's do to requests, marks and targets: they ask
\* anew, forget everything, or leave all of it alone.
LEMMA ControlOfRequests ==
  ASSUME TypeOK, Operator \/ (\E r \in Runs : RunStep(r) \/ TimesOut(r))
  PROVE  /\ UNCHANGED <<agent, consistent, landed, marking>>
         /\ \/ UNCHANGED <<req, done>>
            \/ Forget
            \/ \E d \in Disks : /\ req' = [req EXCEPT ![d] = TRUE]
                               /\ done' = [done EXCEPT ![d] = FALSE]
<1> USE DEF request, agents, Forget
<1>1. CASE Operator
  BY <1>1 DEF Operator, StartReplication, PauseReplication, StopMigration, StartMigration
<1>2. ASSUME NEW r \in Runs, RunStep(r) \/ TimesOut(r)
      PROVE  /\ UNCHANGED <<agent, consistent, landed, marking>>
             /\ \/ UNCHANGED <<req, done>>
                \/ Forget
                \/ \E d \in Disks : /\ req' = [req EXCEPT ![d] = TRUE]
                                   /\ done' = [done EXCEPT ![d] = FALSE]
  <2>1. CASE SkipsQuiesce(r) \/ Settles(r) \/ TimesOut(r) \/ DrainBegins(r)
    BY <2>1 DEF SkipsQuiesce, Settles, TimesOut, DrainBegins
  <2>2. CASE DrainEnds(r)
    BY <2>2 DEF DrainEnds
  <2>3. ASSUME NEW d \in Disks, Asks(r, d)
        PROVE  /\ UNCHANGED <<agent, consistent, landed, marking>>
               /\ req' = [req EXCEPT ![d] = TRUE] /\ done' = [done EXCEPT ![d] = FALSE]
    BY <2>3 DEF Asks
  <2>4. QED
    BY <1>2, <2>1, <2>2, <2>3 DEF RunStep
<1>3. QED
  BY <1>1, <1>2

LEMMA DoneStep ==
  ASSUME TypeOK, DoneMeans, [Next]_vars
  PROVE  DoneMeans'
<1>1. ASSUME NEW d \in Disks, Lands(d) PROVE DoneMeans'
  BY <1>1, LandsOn DEF DoneMeans, Done
<1>2. ASSUME NEW d \in Disks, Elsewhere(d) PROVE DoneMeans'
  <2>1. \A e \in Disks \ {d} : Done(e)'
    BY <1>2, AgentKeepsLanded DEF DoneMeans, Done
  <2>2. Done(d)'
    BY <1>2, AgentKeepsLanded DEF DoneMeans, Done
  <2>3. QED
    BY <2>1, <2>2 DEF DoneMeans
<1>6. ASSUME NEW d \in Disks, Marks(d) PROVE DoneMeans'
  <2>1. \A e \in Disks \ {d} : Done(e)'
    BY <1>6, MarksOn DEF DoneMeans, Done
  <2>2. Done(d)'
    BY <1>6, MarksOn DEF DoneMeans, Done
  <2>3. QED
    BY <2>1, <2>2 DEF DoneMeans
<1>3. CASE Operator \/ (\E r \in Runs : RunStep(r) \/ TimesOut(r))
  <2>1. UNCHANGED <<agent, consistent, landed, marking>>
    BY <1>3, ControlOfRequests
  <2>2. CASE UNCHANGED <<req, done>>
    BY <2>1, <2>2 DEF DoneMeans, Done
  <2>3. CASE Forget
    BY <2>1, <2>3 DEF Forget, DoneMeans, Done
  <2>4. ASSUME NEW d \in Disks, req' = [req EXCEPT ![d] = TRUE], done' = [done EXCEPT ![d] = FALSE]
        PROVE  DoneMeans'
    <3>1. \A e \in Disks : done'[e] => e # d /\ done[e] /\ req'[e] = req[e]
      BY <2>4 DEF TypeOK
    <3>2. QED
      BY <2>1, <3>1 DEF DoneMeans, Done
  <2>5. QED
    BY <1>3, <2>2, <2>3, <2>4, ControlOfRequests
<1>4. CASE UNCHANGED vars
  BY <1>4 DEF vars, agents, request, DoneMeans, Done
<1>5. QED
  BY <1>1, <1>2, <1>3, <1>4, <1>6 DEF Next, Elsewhere

LEMMA DoneAlways == Spec => [](TypeOK /\ DoneMeans)
<1>1. Init => DoneMeans
  BY DEF Init, DoneMeans, Done
<1>2. QED
  BY <1>1, DoneStep, QuiesceTypeCorrect, PTL DEF Spec

\* A step maps to one of ConsistentPass for each disk, or to none.
LEMMA KeepsRequestStep ==
  ASSUME TypeOK, TypeOK', DoneMeans, DoneMeans', [Next]_vars, NEW d \in Disks
  PROVE  [Disk(d)!Next]_(Disk(d)!vars)
<1>t. req \in [Disks -> BOOLEAN] /\ done \in [Disks -> BOOLEAN]
      /\ req' \in [Disks -> BOOLEAN] /\ done' \in [Disks -> BOOLEAN]
  BY DEF TypeOK
<1> USE DEF Disk!Next, Disk!vars, Disk!Ask, Disk!Take, Disk!Mark, Disk!Drop
<1>1. ASSUME NEW e \in Disks, Lands(e) PROVE [Disk(d)!Next]_(Disk(d)!vars)
  <2>1. CASE e # d
    BY <1>1, <2>1, LandsOn
  <2>2. CASE e = d
    BY <1>t, <1>1, <2>2, LandsOn DEF DoneMeans, Done
  <2>3. QED
    BY <2>1, <2>2
<1>2. ASSUME NEW e \in Disks, Elsewhere(e) PROVE [Disk(d)!Next]_(Disk(d)!vars)
  BY <1>2, AgentKeepsLanded
<1>6. ASSUME NEW e \in Disks, Marks(e) PROVE [Disk(d)!Next]_(Disk(d)!vars)
  <2>1. CASE e # d \/ marking[d] # "done"
    <3>1. done'[d] = done[d] /\ req'[d] = req[d] /\ landed'[d] = landed[d]
      BY <1>t, <1>6, <2>1, MarksOn
    <3>2. QED
      BY <3>1
  <2>2. CASE e = d /\ marking[d] = "done"
    <3>1. done'[d] = TRUE /\ req'[d] = req[d] /\ landed'[d] = landed[d]
      BY <1>t, <1>6, <2>2, MarksOn
    <3>2. landed[d] = "consistent"
      BY <2>2 DEF DoneMeans, Done
    <3>3. QED
      BY <3>1, <3>2
  <2>3. QED
    BY <2>1, <2>2
<1>3. CASE Operator \/ (\E r \in Runs : RunStep(r) \/ TimesOut(r))
  <2>1. UNCHANGED landed
    BY <1>3, ControlOfRequests
  <2>2. CASE UNCHANGED <<req, done>>
    BY <2>1, <2>2
  <2>3. CASE Forget
    BY <2>1, <2>3 DEF Forget
  <2>4. ASSUME NEW e \in Disks, req' = [req EXCEPT ![e] = TRUE], done' = [done EXCEPT ![e] = FALSE]
        PROVE  [Disk(d)!Next]_(Disk(d)!vars)
    BY <1>t, <2>1, <2>4
  <2>5. QED
    BY <1>3, <2>2, <2>3, <2>4, ControlOfRequests
<1>4. CASE UNCHANGED vars
  BY <1>4 DEF vars, request
<1>5. QED
  BY <1>1, <1>2, <1>3, <1>4, <1>6 DEF Next, Elsewhere

\* Every disk of a migration keeps its promise to whichever cutover waits for it, for any
\* number of disks and runs, and even when Stops overtake runs that are about to ask.
THEOREM KeepsItsRequest == Spec => KeepsRequest
<1>1. Init => \A d \in Disks : Disk(d)!Init
  <2>1. ASSUME Init, NEW d \in Disks PROVE Disk(d)!Init
    BY <2>1 DEF Init, Disk!Init
  <2>2. QED
    BY <2>1
<1>2. TypeOK /\ TypeOK' /\ DoneMeans /\ DoneMeans' /\ [Next]_vars
        => [\A d \in Disks : [Disk(d)!Next]_(Disk(d)!vars)]_<<req, done, landed>>
  BY KeepsRequestStep
<1>3. QED
  BY <1>1, <1>2, DoneAlways, PTL DEF Spec, KeepsRequest

\* That is: what a migration does is, for each of its disks, ConsistentPass.
THEOREM EachDiskRefines == \A d \in Disks : Spec => Disk(d)!Spec
<1>1. SUFFICES ASSUME NEW d \in Disks PROVE Spec => Disk(d)!Spec
  OBVIOUS
<1>2. Init => Disk(d)!Init
  BY DEF Init, Disk!Init
<1>3. TypeOK /\ TypeOK' /\ DoneMeans /\ DoneMeans' /\ [Next]_vars
        => [Disk(d)!Next]_(Disk(d)!vars)
  BY KeepsRequestStep
<1>4. QED
  BY <1>2, <1>3, DoneAlways, PTL DEF Spec, Disk!Spec

---------------------------------------------------------------------------
(***************************************************************************)
(* The disks stay frozen together.                                         *)
(***************************************************************************)

\* Cutovers are started in order; only the one started last asks, while migrating;
\* a run that has not settled has found nothing; and a draining run has closed the
\* receivers, which only a Stop opens again.
RunsInOrder ==
    /\ \A p, r \in Runs : p < r /\ run[p] = "unused" => run[r] = "unused"
    /\ \A r \in Runs :
        /\ run[r] \in {"begin", "ask"} => Newest(r) /\ state = "migrating"
        /\ run[r] \in {"unused", "begin", "ask", "wait"} => ~all[r]
        /\ run[r] = "draining" => ~up

\* A disk the cutover has asked is marked, or about to be, under its own request only.
Fresh ==
    \A r \in Runs :
        /\ Newest(r) /\ state = "migrating" =>
            \A d \in asked[r] : done[d] \/ marking[d] = "done" => req[d]
        /\ run[r] = "unused" => asked[r] = {}
        /\ run[r] = "wait" => asked[r] = Disks

Frozen(r) == Newest(r) /\ state = "migrating" /\ run[r] \in {"drain", "draining", "frozen"} /\ all[r]

\* Consistent passes are kept in place by requests that are still met, which bounce
\* any other pass, or else by receivers closed and idle.
Held ==
    \A r \in Runs : Frozen(r) =>
        /\ \A d \in Disks : landed[d] = "consistent"
        /\ \/ \A d \in Disks : req[d] /\ done[d]
           \/ ~up /\ \A d \in Disks : ~Serving(d)

FrozenInv == RunsInOrder /\ Fresh /\ Held

LEMMA FrozenAgent ==
  ASSUME TypeOK, DoneMeans, FrozenInv, NEW d \in Disks, AgentStep(d) \/ Breaks(d)
  PROVE  FrozenInv'
<1>1. UNCHANGED <<req, run, live, asked, all, up>>
  BY DEF AgentStep, Starts, Handshake, HelloAck, TriesAgain, Breaks, Lands, ReportsRefusal,
         Marks, request, control, runs
<1>2. (state' = "migrating") = (state = "migrating")
  BY DEF AgentStep, Starts, Handshake, HelloAck, TriesAgain, Breaks, Lands, ReportsRefusal,
         Marks, control
<1>3. RunsInOrder'
  BY <1>1, <1>2 DEF FrozenInv, RunsInOrder, Newest
<1>4. \A r \in Runs : Frozen(r)' = Frozen(r) /\ Newest(r)' = Newest(r)
  BY <1>1, <1>2 DEF Frozen, Newest
<1>5. \A e \in Disks : done'[e] \/ marking'[e] = "done" => req[e] \/ done[e] \/ marking[e] = "done"
  <2>1. CASE Elsewhere(d)
    BY <2>1, AgentKeepsLanded
  <2>2. CASE Lands(d)
    BY <2>2, LandsOn
  <2>3. CASE Marks(d)
    BY <2>3, MarksOn
  <2>4. QED
    BY <2>1, <2>2, <2>3 DEF Elsewhere
<1>6. Fresh'
  <2>1. \A r \in Runs : asked[r] \subseteq Disks
    BY DEF TypeOK
  <2>2. QED
    BY <1>1, <1>2, <1>4, <1>5, <2>1 DEF FrozenInv, Fresh
<1>7. CASE Elsewhere(d)
  <2>1. \A e \in Disks : Serving(e)' => up \/ Serving(e)
    <3>1. \A e \in Disks \ {d} : Serving(e)' = Serving(e)
      BY <1>7, AgentKeepsLanded DEF Serving, Accepting
    <3>2. QED
      BY <1>7, <3>1, AgentKeepsLanded
  <2>2. UNCHANGED <<landed, done>>
    BY <1>7, AgentKeepsLanded
  <2>3. Held'
    BY <1>1, <1>4, <2>1, <2>2 DEF FrozenInv, Held
  <2>4. QED
    BY <1>3, <1>6, <2>3 DEF FrozenInv
<1>8. CASE Lands(d) \/ Marks(d)
  <2> SUFFICES ASSUME NEW r \in Runs, Frozen(r)
               PROVE  /\ \A e \in Disks : landed'[e] = "consistent"
                      /\ \A e \in Disks : req'[e] /\ done'[e]
    BY <1>3, <1>4, <1>6 DEF FrozenInv, Held
  <2>1. Serving(d)
    BY <1>8, LandsOn, MarksOn DEF Serving, Accepting
  <2>2. \A e \in Disks : req[e] /\ done[e] /\ landed[e] = "consistent"
    BY <2>1 DEF FrozenInv, Held
  <2>3. CASE Lands(d)
    <3>1. consistent[d]
      BY <2>2, <2>3, LandsOn DEF DoneMeans, Done
    <3>2. QED
      BY <2>2, <2>3, <3>1, LandsOn
  <2>4. CASE Marks(d)
    BY <2>2, <2>4, MarksOn
  <2>5. QED
    BY <1>8, <2>3, <2>4
<1>9. QED
  BY <1>7, <1>8 DEF Elsewhere

\* A step of one run that asks nothing, forgets nothing and opens nothing.
LEMMA FrozenRunOnly ==
  ASSUME TypeOK, DoneMeans, FrozenInv, NEW r \in Runs,
         run[r] # "unused", run'[r] \notin {"unused", "begin", "ask", "wait"},
         \A q \in Runs \ {r} : run'[q] = run[q] /\ all'[q] = all[q] /\ asked'[q] = asked[q],
         asked'[r] \subseteq asked[r],
         UNCHANGED <<state, req, done, marking, landed, agent, consistent>>,
         up' => up, run'[r] = "draining" => ~up',
         all'[r] /\ ~all[r] => run[r] = "wait" /\ \A d \in Disks : done[d],
         Frozen(r)' => run[r] \in {"wait", "drain", "draining"}
  PROVE  FrozenInv'
<1>2. \A q \in Runs : (run'[q] = "unused") = (run[q] = "unused")
  OBVIOUS
<1>3. \A q \in Runs : Newest(q)' = Newest(q)
  BY <1>2 DEF Newest
<1>4. RunsInOrder'
  BY <1>2, <1>3 DEF FrozenInv, RunsInOrder
<1>5. \A q \in Runs : asked'[q] \subseteq asked[q]
  OBVIOUS
<1>6. Fresh'
  BY <1>2, <1>3, <1>5 DEF FrozenInv, Fresh
<1>7. Held'
  <2> SUFFICES ASSUME NEW q \in Runs, Frozen(q)'
               PROVE  /\ \A d \in Disks : landed[d] = "consistent"
                      /\ \/ \A d \in Disks : req[d] /\ done[d]
                         \/ ~up' /\ \A d \in Disks : ~Serving(d)
    BY DEF Held, Serving, Accepting
  <2>1. CASE Frozen(q)
    BY <2>1 DEF FrozenInv, Held
  <2>2. CASE ~Frozen(q)
    <3>1. q = r
      BY <1>3, <2>2 DEF Frozen
    <3>2. Newest(r) /\ state = "migrating" /\ all'[r]
      BY <1>3, <3>1 DEF Frozen
    <3>3. run[r] = "wait" /\ \A d \in Disks : done[d]
      <4>1. CASE all[r]
        BY <2>2, <3>1, <3>2, <4>1 DEF Frozen, FrozenInv, RunsInOrder
      <4>2. CASE ~all[r]
        BY <3>2, <4>2
      <4>3. QED
        BY <4>1, <4>2
    <3>4. \A d \in Disks : req[d]
      BY <3>2, <3>3 DEF FrozenInv, Fresh
    <3>5. QED
      BY <3>3, <3>4 DEF DoneMeans, Done
  <2>3. QED
    BY <2>1, <2>2
<1>8. QED
  BY <1>4, <1>6, <1>7 DEF FrozenInv

LEMMA FrozenRun ==
  ASSUME TypeOK, DoneMeans, FrozenInv, NEW r \in Runs, RunStep(r) \/ TimesOut(r)
  PROVE  FrozenInv'
<1>1. /\ run \in [Runs -> RunPcs] /\ all \in [Runs -> BOOLEAN]
      /\ asked \in [Runs -> SUBSET Disks]
  BY DEF TypeOK
<1>2. \A q \in Runs : run[q] \in {"begin", "ask", "wait"} => ~all[q]
  BY DEF FrozenInv, RunsInOrder
<1> USE DEF RunTo, Returns, request, agents
<1>3. CASE SkipsQuiesce(r)
  <2>1. run[r] = "begin" /\ run'[r] \in {"drain", "returned"} /\ UNCHANGED all
    BY <1>1, <1>3 DEF SkipsQuiesce
  <2>2. ~all[r]
    BY <1>2, <2>1
  <2>3. /\ \A q \in Runs \ {r} : run'[q] = run[q] /\ asked'[q] = asked[q]
        /\ asked'[r] \subseteq asked[r]
    BY <1>1, <1>3 DEF SkipsQuiesce
  <2>4. UNCHANGED <<state, req, done, marking, landed, agent, consistent, up>>
    BY <1>3 DEF SkipsQuiesce
  <2>5. QED
    BY <2>1, <2>2, <2>3, <2>4, FrozenRunOnly DEF Frozen
<1>4. ASSUME NEW d \in Disks, Asks(r, d) PROVE FrozenInv'
  <2>1. run[r] \in {"begin", "ask"} /\ Newest(r) /\ ~all[r] /\ state = "migrating"
    BY <1>4 DEF Asks, FrozenInv, RunsInOrder
  <2>2. run'[r] \in {"wait", "ask"} /\ \A q \in Runs \ {r} : run'[q] = run[q]
    BY <1>1, <1>4 DEF Asks
  <2>3. UNCHANGED <<all, state, up, landed, agent, consistent, marking>>
    BY <1>4 DEF Asks
  <2>4. \A q \in Runs : (run'[q] = "unused") = (run[q] = "unused")
    BY <2>1, <2>2
  <2>5. \A q \in Runs : Newest(q)' = Newest(q)
    BY <2>4 DEF Newest
  <2>6. RunsInOrder'
    BY <2>1, <2>2, <2>3, <2>4, <2>5 DEF FrozenInv, RunsInOrder
  <2>7. \A q \in Runs : ~Frozen(q)'
    <3> SUFFICES ASSUME NEW q \in Runs, Frozen(q)' PROVE FALSE
      OBVIOUS
    <3>1. Newest(q) /\ all[q]
      BY <2>3, <2>5 DEF Frozen
    <3>2. q = r
      BY <2>1, <3>1, <1>1 DEF Newest
    <3>3. QED
      BY <2>1, <3>1, <3>2
  <2>8. Fresh'
    <3>1. /\ asked'[r] = asked[r] \cup {d} /\ req'[d] = TRUE
          /\ \A e \in Disks \ {d} : req'[e] = req[e] /\ done'[e] = done[e]
          /\ \A q \in Runs \ {r} : asked'[q] = asked[q]
          /\ run'[r] = "wait" => asked'[r] = Disks
      BY <1>1, <1>4 DEF Asks, TypeOK
    <3>2. \A q \in Runs : Newest(q) => q = r
      BY <2>1, <1>1 DEF Newest
    <3>3. \A q \in Runs : Newest(q)' /\ state' = "migrating" =>
            \A e \in asked'[q] : done'[e] \/ marking'[e] = "done" => req'[e]
      <4> SUFFICES ASSUME NEW e \in asked'[r], done'[e] \/ marking'[e] = "done" PROVE req'[e]
        BY <2>5, <3>2
      <4>1. CASE e = d
        BY <3>1, <4>1
      <4>2. CASE e # d
        <5>1. e \in asked[r] /\ e \in Disks
          BY <1>1, <3>1, <4>2
        <5>2. done[e] \/ marking[e] = "done" => req[e]
          BY <2>1, <5>1 DEF FrozenInv, Fresh
        <5>3. QED
          BY <2>3, <3>1, <4>2, <5>1, <5>2
      <4>3. QED
        BY <4>1, <4>2
    <3>4. \A q \in Runs : run'[q] = "unused" => asked'[q] = {}
      BY <2>2, <3>1 DEF FrozenInv, Fresh
    <3>5. \A q \in Runs : run'[q] = "wait" => asked'[q] = Disks
      BY <2>2, <3>1 DEF FrozenInv, Fresh
    <3>6. QED
      BY <3>3, <3>4, <3>5 DEF Fresh
  <2>9. QED
    BY <2>6, <2>7, <2>8 DEF FrozenInv, Held
<1>5. CASE Settles(r)
  <2>1. /\ run[r] = "wait" /\ asked'[r] \subseteq asked[r]
        /\ \A q \in Runs \ {r} : run'[q] = run[q] /\ all'[q] = all[q] /\ asked'[q] = asked[q]
    BY <1>1, <1>5 DEF Settles
  <2>2. UNCHANGED <<state, marking, req, done, landed, agent, consistent, up>>
    BY <1>5 DEF Settles
  <2>3. CASE Returns(r)
    <3>1. run'[r] = "returned" /\ ~all'[r]
      BY <1>1, <1>2, <2>1, <2>3
    <3>2. QED
      BY <2>1, <2>2, <3>1, FrozenRunOnly DEF Frozen
  <2>4. CASE run' = [run EXCEPT ![r] = "drain"] /\ all' = [all EXCEPT ![r] = \A d \in Disks : done[d]]
    <3>1. run'[r] = "drain" /\ (all'[r] => \A d \in Disks : done[d])
      BY <1>1, <2>4
    <3>2. QED
      BY <2>1, <2>2, <3>1, FrozenRunOnly DEF Frozen
  <2>5. QED
    BY <1>5, <2>3, <2>4 DEF Settles
<1>6. CASE TimesOut(r)
  <2>1. run[r] = "wait" /\ run'[r] = "drain" /\ \A q \in Runs \ {r} : run'[q] = run[q]
    BY <1>1, <1>6 DEF TimesOut
  <2>2. UNCHANGED <<all, asked, marking, state, req, done, landed, agent, consistent, up>>
    BY <1>6 DEF TimesOut
  <2>3. ~all[r]
    BY <1>2, <2>1
  <2>4. QED
    BY <2>1, <2>2, <2>3, FrozenRunOnly DEF Frozen
<1>7. CASE DrainBegins(r)
  <2>1. run[r] = "drain" /\ run'[r] = "draining" /\ \A q \in Runs \ {r} : run'[q] = run[q]
    BY <1>1, <1>7 DEF DrainBegins
  <2>2. ~up' /\ UNCHANGED <<all, asked, marking, state, req, done, landed, agent, consistent>>
    BY <1>7 DEF DrainBegins
  <2>3. QED
    BY <2>1, <2>2, FrozenRunOnly DEF Frozen
<1>8. CASE DrainEnds(r)
  <2>1. run[r] = "draining" /\ run'[r] = "frozen" /\ \A q \in Runs \ {r} : run'[q] = run[q]
    BY <1>1, <1>8 DEF DrainEnds
  <2>2. UNCHANGED <<all, asked, marking, state, landed, agent, consistent, up>>
    BY <1>8 DEF DrainEnds, Forget
  <2>3. ~up /\ \A d \in Disks : ~Serving(d)
    BY <1>8, <2>1 DEF DrainEnds, FrozenInv, RunsInOrder
  <2>5. \A q \in Runs : Newest(q)' = Newest(q)
    BY <2>1 DEF Newest
  <2>6. RunsInOrder'
    BY <2>1, <2>2, <2>5 DEF FrozenInv, RunsInOrder
  <2>7. \A q \in Runs : Frozen(q)' => Frozen(q)
    BY <2>1, <2>2, <2>5 DEF Frozen
  <2>8. Held'
    BY <2>2, <2>3, <2>7 DEF FrozenInv, Held, Serving, Accepting
  <2>9. Fresh'
    <3>1. \A d \in Disks : ~done'[d] /\ marking'[d] = "nothing"
      BY <1>8, <2>2, <2>3 DEF DrainEnds, Forget, Serving, Accepting
    <3>2. \A q \in Runs : asked'[q] \subseteq Disks
      BY <1>1, <2>2
    <3>3. QED
      BY <2>1, <2>2, <3>1, <3>2 DEF FrozenInv, Fresh
  <2>10. QED
    BY <2>6, <2>8, <2>9 DEF FrozenInv
<1>9. QED
  BY <1>3, <1>4, <1>5, <1>6, <1>7, <1>8 DEF RunStep

LEMMA FrozenOperator ==
  ASSUME ~MayOvertake, TypeOK, DoneMeans, FrozenInv, Operator
  PROVE  FrozenInv'
<1>1. run \in [Runs -> RunPcs] /\ all \in [Runs -> BOOLEAN]
  BY DEF TypeOK
<1> USE DEF request, runs, agents
<1>2. ASSUME UNCHANGED <<req, done, marking, landed, agent, consistent, run, all, asked, up,
                         state>>
      PROVE  FrozenInv'
  BY <1>2 DEF FrozenInv, RunsInOrder, Fresh, Held, Frozen, Newest, Serving, Accepting
<1>3. CASE StartReplication \/ PauseReplication
  BY <1>2, <1>3 DEF StartReplication, PauseReplication
<1>4. CASE StopMigration
  <2>1. \A q \in Runs : run[q] \notin {"begin", "ask", "drain", "draining"}
    BY <1>4 DEF StopMigration, Hasty
  <2>2. state' # "migrating" /\ UNCHANGED <<run, all, asked>>
    BY <1>4 DEF StopMigration
  <2>4. RunsInOrder'
    BY <2>1, <2>2 DEF FrozenInv, RunsInOrder
  <2>5. QED
    BY <2>2, <2>4 DEF FrozenInv, Fresh, Held, Frozen
<1>5. ASSUME NEW r \in Runs, StartMigration(r) PROVE FrozenInv'
  <2>1. /\ run[r] = "unused" /\ \A q \in Runs : q < r => run[q] # "unused"
        /\ run'[r] = "begin" /\ \A q \in Runs \ {r} : run'[q] = run[q]
        /\ state = "replicating" /\ state' = "migrating"
    BY <1>1, <1>5 DEF StartMigration
  <2>2. UNCHANGED <<req, done, marking, landed, agent, consistent, all, asked, up>>
    BY <1>5 DEF StartMigration
  <2>3. \A q \in Runs : q > r => run[q] = "unused"
    BY <2>1 DEF FrozenInv, RunsInOrder
  <2>4. \A q \in Runs : run'[q] # "unused" <=> q <= r
    BY <2>1, <2>3
  <2>5. \A q \in Runs : Newest(q)' <=> q = r
    BY <2>4 DEF Newest
  <2>6. \A q \in Runs : run[q] \notin {"begin", "ask"}
    BY <2>1 DEF FrozenInv, RunsInOrder
  <2>7. ~all[r]
    BY <2>1 DEF FrozenInv, RunsInOrder
  <2>8. RunsInOrder'
    <3>1. \A p, q \in Runs : p < q /\ run'[p] = "unused" => run'[q] = "unused"
      BY <2>4
    <3>2. \A q \in Runs : run'[q] \in {"begin", "ask"} => Newest(q)'
      BY <2>1, <2>5, <2>6
    <3>3. \A q \in Runs : run'[q] \in {"unused", "begin", "ask", "wait"} => ~all'[q]
      BY <2>1, <2>2, <2>7 DEF FrozenInv, RunsInOrder
    <3>4. \A q \in Runs : run'[q] = "draining" => ~up'
      BY <2>1, <2>2 DEF FrozenInv, RunsInOrder
    <3>5. QED
      BY <2>1, <3>1, <3>2, <3>3, <3>4 DEF RunsInOrder
  <2>9. \A q \in Runs : ~Frozen(q)'
    BY <2>1, <2>5 DEF Frozen
  <2>10. Fresh'
    <3>1. asked[r] = {}
      BY <2>1 DEF FrozenInv, Fresh
    <3>2. QED
      BY <2>1, <2>2, <2>5, <3>1 DEF FrozenInv, Fresh
  <2>11. QED
    BY <2>8, <2>9, <2>10 DEF FrozenInv, Held
<1>6. QED
  BY <1>3, <1>4, <1>5 DEF Operator

\* Every disk stays on the pass it announced, for any disks and sources, and whatever
\* older cutovers, stopped or not, still do beside the one that froze it.
THEOREM DisksFrozenTogether ==
    ASSUME ~MayOvertake
    PROVE  Spec => []FrozenTogether
<1>1. Init => FrozenInv
  BY DEF Init, FrozenInv, RunsInOrder, Fresh, Held, Frozen, Newest
<1>2. TypeOK /\ DoneMeans /\ FrozenInv /\ [Next]_vars => FrozenInv'
  <2> SUFFICES ASSUME TypeOK, DoneMeans, FrozenInv, [Next]_vars PROVE FrozenInv'
    OBVIOUS
  <2>1. CASE UNCHANGED vars
    BY <2>1 DEF FrozenInv, RunsInOrder, Fresh, Held, Frozen, Newest, Serving, Accepting,
                vars, control, runs, request, agents
  <2>2. QED
    BY <2>1, FrozenAgent, FrozenRun, FrozenOperator DEF Next
<1>3. FrozenInv => FrozenTogether
  BY DEF FrozenInv, Held, Frozen, FrozenTogether
<1>4. QED
  BY <1>1, <1>2, <1>3, DoneAlways, PTL DEF Spec

=============================================================================
