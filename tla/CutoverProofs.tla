--------------------------- MODULE CutoverProofs ---------------------------
(***************************************************************************)
(* What is proved of Cutover, for any number of runs, receivers, stops and *)
(* restarts: its type invariant; that clean-up never goes by an artifact   *)
(* that is gone; and, with the console's buttons, no command that writes   *)
(* over another, no stop that comes too late and no overrun drain, that it *)
(* is safe to power the source off when the console says so, that what is  *)
(* cloned is one pass, and that what is launched is there.                 *)
(***************************************************************************)
EXTENDS Cutover, TLAPS

USE BoundAssumption, OperatorAssumption DEF Runs, Listeners, Stops, Resources

---------------------------------------------------------------------------
(***************************************************************************)
(* Types.                                                                  *)
(***************************************************************************)

LEMMA TypeInit == Init => TypeOK
<1> SUFFICES ASSUME Init PROVE TypeOK
  OBVIOUS
<1>1. cached \in BOOLEAN
  BY DEF Init
<1>2. pc \in [Runs -> RunPcs] /\ guided \in [Runs -> BOOLEAN]
  BY DEF Init, RunPcs
<1>3. launch \in [Runs -> BOOLEAN] /\ live \in [Runs -> BOOLEAN]
  BY <1>2 DEF Init
<1>4. session \in [Listeners -> {"unused", "idle", "stream", "apply"}] /\ up \in Listeners
  BY DEF Init
<1>5. waits \in [Runs -> Listeners \cup {0}] /\ seen \in [Runs -> SUBSET Resources]
  BY DEF Init
<1>6. copy \in [Runs -> Devices] /\ device \in Devices /\ image \in Devices
  BY DEF Init, Devices
<1>7. stop \in [Stops -> StopPcs] /\ restarts \in 0 .. MaxRestarts
  BY DEF Init, StopPcs
<1>8. state \in States /\ finalizes \in Runs \cup {0}
  BY DEF Init, States
<1>9. recorded = {} /\ cloud = {} /\ removing = {} /\ interrupted = {}
  BY DEF Init
<1>10. QED
  BY <1>1, <1>2, <1>3, <1>4, <1>5, <1>6, <1>7, <1>8, <1>9 DEF TypeOK

\* Steps of a run that only go on to another place.
LEMMA GotoTyped ==
  ASSUME TypeOK, NEW r \in Runs, NEW there \in RunPcs, Goto(r, there)
  PROVE  /\ pc' \in [Runs -> RunPcs]
         /\ UNCHANGED given
  BY DEF TypeOK, Goto

LEMMA RetireTyped ==
  ASSUME TypeOK, NEW over \in SUBSET Runs, Retire(over)
  PROVE  /\ pc' \in [Runs -> RunPcs]
         /\ guided' \in [Runs -> BOOLEAN] /\ launch' \in [Runs -> BOOLEAN]
         /\ live' \in [Runs -> BOOLEAN]
         /\ waits' \in [Runs -> Listeners \cup {0}]
         /\ seen' \in [Runs -> SUBSET Resources]
         /\ copy' \in [Runs -> Devices]
<1>1. pc' \in [Runs -> RunPcs]
  BY DEF TypeOK, Retire, RunPcs
<1>2. guided' \in [Runs -> BOOLEAN] /\ launch' \in [Runs -> BOOLEAN] /\ live' \in [Runs -> BOOLEAN]
  BY DEF TypeOK, Retire
<1>3. waits' \in [Runs -> Listeners \cup {0}]
  BY DEF TypeOK, Retire
<1>4. seen' \in [Runs -> SUBSET Resources] /\ copy' \in [Runs -> Devices]
  BY DEF TypeOK, Retire, Devices
<1>5. QED
  BY <1>1, <1>2, <1>3, <1>4

LEMMA FailsTyped ==
  ASSUME TypeOK, NEW r \in Runs, RunFails(r)
  PROVE  state' \in States /\ pc' \in [Runs -> RunPcs] /\ UNCHANGED given
  BY GotoTyped DEF TypeOK, RunFails, SetState, Row, States, RunPcs

LEMMA EnsureTyped ==
  ASSUME TypeOK, EnsureReceivers
  PROVE  /\ up' \in Listeners \cup {0}
         /\ session' \in [Listeners -> {"unused", "idle", "stream", "apply"}]
  BY DEF TypeOK, EnsureReceivers, receiverVars

LEMMA DeleteTyped ==
  ASSUME TypeOK, NEW artifacts, Delete(artifacts)
  PROVE  cloud' \subseteq Resources
  BY DEF TypeOK, Delete

\* What a step leaves unchanged.
LEMMA TypeOperator ==
  ASSUME TypeOK, Operator
  PROVE  TypeOK'
<1> USE DEF storeVars, given, run, receiverVars, target, others, handlers, untouched
<1>1. ASSUME NEW r \in Runs, NEW there \in {"asked", "confirmed"}, NEW g \in BOOLEAN, NEW l \in BOOLEAN,
             Admit(r, there, g, l)
      PROVE  TypeOK'
  BY <1>1 DEF Admit, TypeOK, RunPcs
<1>2. ASSUME NEW r \in Runs, NEW g \in BOOLEAN, NEW l \in BOOLEAN, StartMigration(r, g, l)
      PROVE  TypeOK'
  BY <1>1, <1>2 DEF StartMigration
<1>3. ASSUME NEW r \in Runs, NEW l \in BOOLEAN, CompleteCutover(r, l)
      PROVE  TypeOK'
  BY <1>1, <1>3 DEF CompleteCutover
<1>4. ASSUME NEW k \in Stops, AdmitStop(k) \/ StopMigration(k) PROVE TypeOK'
  <2>1. stop' \in [Stops -> StopPcs]
    BY <1>4 DEF AdmitStop, StopMigration, TypeOK, StopPcs
  <2>2. state' \in States
    BY <1>4 DEF AdmitStop, StopMigration, TypeOK, SetState, Row, States
  <2>3. QED
    BY <1>4, <2>1, <2>2 DEF AdmitStop, StopMigration, TypeOK
<1>5. ASSUME NEW k \in Stops, StopCancels(k) PROVE TypeOK'
  <2>1. stop' \in [Stops -> StopPcs]
    BY <1>5 DEF StopCancels, TypeOK, StopPcs
  <2>2. QED
    BY <1>5, <2>1 DEF StopCancels, TypeOK, CancelRun
<1>6. ASSUME NEW k \in Stops, StopReopens(k) PROVE TypeOK'
  <2>1. stop' \in [Stops -> StopPcs]
    BY <1>6 DEF StopReopens, TypeOK, StopPcs
  <2>2. /\ up' \in Listeners \cup {0}
        /\ session' \in [Listeners -> {"unused", "idle", "stream", "apply"}]
    BY <1>6, EnsureTyped DEF StopReopens, TypeOK
  <2>3. QED
    BY <1>6, <2>1, <2>2 DEF StopReopens, TypeOK
<1>7. ASSUME NEW how \in {"delete", "close"}, RemoveMigration(how) PROVE TypeOK'
  <2>1. cloud' \subseteq Resources
    BY <1>7, DeleteTyped DEF RemoveMigration, TypeOK
  <2>2. QED
    BY <1>7, <2>1 DEF RemoveMigration, TypeOK, CancelRun
<1>8. ASSUME NEW how \in {"delete", "close"}, RemoveRow(how) PROVE TypeOK'
  <2>1. state' \in States /\ recorded' \subseteq Resources
    BY <1>8 DEF RemoveRow, TypeOK, States
  <2>2. interrupted' \subseteq {"clean-up", "deletion"}
    BY <1>8 DEF RemoveRow, TypeOK
  <2>3. QED
    BY <1>8, <2>1, <2>2 DEF RemoveRow, TypeOK
<1>9. QED
  BY <1>2, <1>3, <1>4, <1>5, <1>6, <1>7, <1>8 DEF Operator, StopStep

LEMMA TypeRun ==
  ASSUME TypeOK, NEW r \in Runs, RunStep(r)
  PROVE  TypeOK'
<1> USE DEF storeVars, run, receiverVars, target, others, handlers, untouched
<1>1. CASE LaunchRun(r)
  BY <1>1 DEF LaunchRun, TypeOK, Goto, RunPcs, given
<1>2. CASE BeginRun(r)
  BY <1>2 DEF BeginRun, TypeOK, Goto, RunPcs, given
<1>3. CASE QuiesceEnds(r)
  BY <1>3 DEF QuiesceEnds, TypeOK, Goto, RunPcs, given
<1>4. CASE DrainBegins(r)
  BY <1>4 DEF DrainBegins, TypeOK, RunPcs
<1>5. CASE DrainEnds(r)
  <2>1. session' \in [Listeners -> {"unused", "idle", "stream", "apply"}]
    BY <1>5 DEF DrainEnds, TypeOK
  <2>2. QED
    BY <1>5, <2>1 DEF DrainEnds, TypeOK, RunPcs
<1>6. CASE ConvertBegins(r)
  <2>1. cached' \in BOOLEAN
    BY <1>6 DEF ConvertBegins, TypeOK
  <2>2. device' \in Devices
    BY <1>6 DEF ConvertBegins, TypeOK, Devices
  <2>3. pc' \in [Runs -> RunPcs] /\ UNCHANGED given
    BY <1>6 DEF ConvertBegins, TypeOK, Goto, RunPcs
  <2>4. QED
    BY <1>6, <2>1, <2>2, <2>3 DEF ConvertBegins, TypeOK, given
<1>7. CASE ConvertEnds(r)
  <2>1. CASE RunFails(r)
    BY <1>7, <2>1, FailsTyped DEF ConvertEnds, TypeOK, given, Devices
  <2>2. CASE Goto(r, IF guided[r] THEN "park" ELSE "clean") \/ Goto(r, "clean")
    <3>1. pc' \in [Runs -> RunPcs] /\ UNCHANGED given
      BY <2>2, GotoTyped DEF RunPcs
    <3>2. device' \in Devices /\ state' \in States
      BY <1>7, FailsTyped DEF ConvertEnds, TypeOK, Devices
    <3>3. QED
      BY <1>7, <3>1, <3>2 DEF ConvertEnds, TypeOK, given
  <2>3. QED
    BY <1>7, <2>1, <2>2 DEF ConvertEnds
<1>8. CASE Park(r)
  BY <1>8 DEF Park, SetState, Row, TypeOK, Goto, RunPcs, given, States
<1>9. CASE CleanBegins(r)
  BY <1>9, DeleteTyped DEF CleanBegins, TypeOK, Goto, RunPcs, given
<1>10. CASE CleanEnds(r)
  <2>1. recorded' \subseteq Resources
    BY <1>10 DEF CleanEnds, TypeOK, ClonesOf
  <2>2. QED
    BY <1>10, <2>1 DEF CleanEnds, TypeOK, RunPcs
<1>11. CASE CloneVolume(r)
  <2>1. CASE RunFails(r)
    BY <1>11, <2>1, FailsTyped DEF CloneVolume, TypeOK, given
  <2>2. CASE ~RunFails(r)
    <3>1. cloud' \subseteq Resources
      BY <1>11, <2>2 DEF CloneVolume, TypeOK
    <3>2. copy' \in [Runs -> Devices]
      BY <1>11, <2>2 DEF CloneVolume, TypeOK, Devices
    <3>3. pc' \in [Runs -> RunPcs]
      BY <1>11, <2>2 DEF CloneVolume, TypeOK, RunPcs
    <3>4. QED
      BY <1>11, <2>2, <3>1, <3>2, <3>3 DEF CloneVolume, TypeOK
  <2>3. QED
    BY <2>1, <2>2
<1>12. CASE RecordClone(r)
  <2>1. recorded' \subseteq Resources
    BY <1>12 DEF RecordClone, Row, TypeOK
  <2>2. pc' \in [Runs -> RunPcs] /\ UNCHANGED given /\ state' \in States /\ image' \in Devices
    <3>1. CASE RunFails(r) /\ UNCHANGED image
      BY <3>1, FailsTyped DEF TypeOK
    <3>2. CASE Goto(r, IF launch[r] THEN "create" ELSE "finish") /\ image' = copy[r]
               /\ UNCHANGED state
      BY <3>2, GotoTyped DEF TypeOK, RunPcs
    <3>3. QED
      BY <1>12, <3>1, <3>2 DEF RecordClone
  <2>3. QED
    BY <1>12, <2>1, <2>2 DEF RecordClone, TypeOK, given
<1>13. CASE CreateInstance(r)
  <2>1. pc' \in [Runs -> RunPcs] /\ UNCHANGED given /\ state' \in States
    BY <1>13, FailsTyped DEF CreateInstance, TypeOK, Goto, RunPcs, given
  <2>2. cloud' \subseteq Resources
    BY <1>13 DEF CreateInstance, TypeOK
  <2>3. QED
    BY <1>13, <2>1, <2>2 DEF CreateInstance, TypeOK, given
<1>14. CASE RecordInstance(r)
  <2>1. recorded' \subseteq Resources
    BY <1>14 DEF RecordInstance, Row, ClonesOf, TypeOK
  <2>2. QED
    BY <1>14, <2>1 DEF RecordInstance, TypeOK, Goto, RunPcs, given
<1>15. CASE BootInstance(r)
  BY <1>15, FailsTyped DEF BootInstance, TypeOK, Goto, RunPcs, given
<1>16. CASE Finish(r)
  BY <1>16 DEF Finish, SetState, Row, TypeOK, Goto, RunPcs, given, States
<1>17. CASE RunReturns(r)
  BY <1>17, RetireTyped DEF RunReturns, TypeOK
<1>19. CASE Accept(r)
  BY <1>19 DEF Accept, SetState, Row, TypeOK, States, RunPcs
<1>18. QED
  BY <1>1, <1>2, <1>3, <1>4, <1>5, <1>6, <1>7, <1>8, <1>9, <1>10, <1>11, <1>12, <1>13,
     <1>14, <1>15, <1>16, <1>17, <1>19 DEF RunStep

LEMMA TypeReceivers ==
  ASSUME TypeOK, ReceiverStep \/ Restart
  PROVE  TypeOK'
<1> USE DEF storeVars, given, run, receiverVars, target, others, handlers, untouched
<1>1. ASSUME NEW g \in Listeners, SessionBegins(g) PROVE TypeOK'
  BY <1>1 DEF SessionBegins, TypeOK
<1>2. ASSUME NEW g \in Listeners, SessionApplies(g) PROVE TypeOK'
  BY <1>2 DEF SessionApplies, TypeOK, Devices
<1>3. ASSUME NEW g \in Listeners, SessionEnds(g) PROVE TypeOK'
  BY <1>3 DEF SessionEnds, TypeOK
<1>4. CASE Restart
  <2>1. {r \in Runs : Running(r)} \in SUBSET Runs
    OBVIOUS
  <2>2. up' \in Listeners \cup {0}
    BY <1>4 DEF Restart
  <2>3. session' \in [Listeners -> {"unused", "idle", "stream", "apply"}]
    <3> DEFINE quiet == [g \in Listeners |-> IF session[g] = "unused" THEN "unused" ELSE "idle"]
    <3>1. quiet \in [Listeners -> {"unused", "idle", "stream", "apply"}]
      OBVIOUS
    <3>2. session' = quiet \/ \E g \in Listeners : session' = [quiet EXCEPT ![g] = "idle"]
      BY <1>4 DEF Restart
    <3>3. QED
      BY <3>1, <3>2
  <2>4. interrupted' \subseteq {"clean-up", "deletion"}
    BY <1>4 DEF Restart, TypeOK
  <2>5. restarts' \in 0 .. MaxRestarts /\ finalizes' \in Runs \cup {0}
    BY <1>4 DEF Restart, TypeOK
  <2>10. cached' \in BOOLEAN
    BY <1>4 DEF Restart
  <2>6. Retire({r \in Runs : Running(r)})
    BY <1>4 DEF Restart
  <2>7. /\ pc' \in [Runs -> RunPcs]
        /\ guided' \in [Runs -> BOOLEAN] /\ launch' \in [Runs -> BOOLEAN]
        /\ live' \in [Runs -> BOOLEAN]
        /\ waits' \in [Runs -> Listeners \cup {0}]
        /\ seen' \in [Runs -> SUBSET Resources]
        /\ copy' \in [Runs -> Devices]
    BY <2>1, <2>6, RetireTyped
  <2>8. UNCHANGED <<state, recorded, cloud, device, image>> /\ removing' = {}
    BY <1>4 DEF Restart
  <2>11. stop' \in [Stops -> StopPcs]
    BY <1>4 DEF Restart, StopPcs
  <2>9. QED
    BY <2>2, <2>3, <2>4, <2>5, <2>7, <2>8, <2>10, <2>11 DEF TypeOK
<1>5. QED
  BY <1>1, <1>2, <1>3, <1>4 DEF ReceiverStep

\* Every state of a cutover is well typed, whatever is bounded how.
THEOREM CutoverTypeCorrect == Spec => []TypeOK
<1>1. TypeOK /\ [Next]_vars => TypeOK'
  <2> SUFFICES ASSUME TypeOK, [Next]_vars PROVE TypeOK'
    OBVIOUS
  <2>1. CASE UNCHANGED vars
    BY <2>1 DEF TypeOK, vars, storeVars, given, run, receiverVars, target, others, handlers
  <2>2. QED
    BY <2>1, TypeOperator, TypeRun, TypeReceivers DEF Next
<1>2. QED
  BY <1>1, TypeInit, PTL DEF Spec

---------------------------------------------------------------------------
(***************************************************************************)
(* What the row names exists.                                              *)
(***************************************************************************)

BeforeClone    == {"unused", "asked", "confirmed", "starting", "resuming", "begin", "quiesce", "drain", "draining",
                   "convert", "converting", "park", "clean", "cleaning", "clone", "cloned"}
BeforeInstance == BeforeClone \cup {"create", "created"}

\* Nothing names an artifact before the run that makes it has recorded it.
Unnamed(x) == x \notin recorded /\ \A q \in Runs : x \notin seen[q]

Fresh ==
    \A r \in Runs :
        /\ pc[r] \in BeforeClone => Unnamed(<<"clone", r>>)
        /\ pc[r] \in BeforeInstance => Unnamed(<<"instance", r>>)
        /\ pc[r] = "cloned" => <<"clone", r>> \in cloud
        /\ pc[r] = "created" => <<"instance", r>> \in cloud

\* What the row names and is gone, is what some run is about to make the row forget.
Accounted ==
    \/ "delete" \in removing
    \/ interrupted # {}
    \/ \A x \in recorded \ cloud : \E r \in Runs : pc[r] = "cleaning" /\ x \in seen[r]

LEMMA Clones ==
  ASSUME NEW row, row \subseteq Resources
  PROVE  /\ ClonesOf(row) \subseteq row
         /\ \A r \in Runs : <<"clone", r>> \in row => <<"clone", r>> \in ClonesOf(row)
         /\ \A r \in Runs : <<"instance", r>> \notin ClonesOf(row)
  BY DEF ClonesOf

\* Best effort deletes nothing but what it is given.
LEMMA Deleted ==
  ASSUME NEW artifacts, Delete(artifacts)
  PROVE  cloud' \subseteq cloud /\ cloud \ artifacts \subseteq cloud'
  BY DEF Delete

LEMMA FreshKept ==
  ASSUME TypeOK, TypeOK', Fresh, recorded' \subseteq recorded,
         \A q \in Runs : seen'[q] \subseteq seen[q] \cup recorded,
         \A r \in Runs :
            /\ pc'[r] \in BeforeClone => pc[r] \in BeforeClone
            /\ pc'[r] \in BeforeInstance => pc[r] \in BeforeInstance
            /\ pc'[r] = "cloned" => <<"clone", r>> \in cloud'
            /\ pc'[r] = "created" => <<"instance", r>> \in cloud'
  PROVE  Fresh'
  BY DEF Fresh, Unnamed

\* A step that deletes nothing, and names and makes nothing.
LEMMA FreshPlain ==
  ASSUME TypeOK, TypeOK', Fresh, UNCHANGED <<recorded, seen>>, cloud \subseteq cloud',
         \A r \in Runs : \/ pc'[r] = pc[r]
                         \/ /\ pc'[r] \notin {"cloned", "created"}
                            /\ pc'[r] \in BeforeClone => pc[r] \in BeforeClone
                            /\ pc'[r] \in BeforeInstance => pc[r] \in BeforeInstance
  PROVE  Fresh'
<1>1. \A r \in Runs : /\ pc[r] = "cloned" => <<"clone", r>> \in cloud
                      /\ pc[r] = "created" => <<"instance", r>> \in cloud
  BY DEF Fresh
<1>2. QED
  BY <1>1, FreshKept

LEMMA FreshOperator ==
  ASSUME TypeOK, TypeOK', Fresh, Operator
  PROVE  Fresh'
<1>0. \A r \in Runs : /\ pc[r] = "cloned" => <<"clone", r>> \in cloud \ recorded
                      /\ pc[r] = "created" => <<"instance", r>> \in cloud \ recorded
  BY DEF Fresh, Unnamed, BeforeClone, BeforeInstance
<1> USE DEF storeVars, given, run, receiverVars, target, others, handlers, untouched
<1>1. ASSUME NEW r \in Runs, NEW there \in {"asked", "confirmed"}, NEW g \in BOOLEAN,
             NEW l \in BOOLEAN, Admit(r, there, g, l)
      PROVE  Fresh'
  <2>1. pc[r] = "unused" /\ pc' = [pc EXCEPT ![r] = there] /\ pc \in [Runs -> RunPcs]
    BY <1>1 DEF Admit, NextRun, TypeOK
  <2>2. UNCHANGED <<recorded, cloud>> /\ \A q \in Runs : seen'[q] \subseteq seen[q] \cup recorded
    BY <1>1 DEF Admit, TypeOK
  <2>3. QED
    BY <1>0, <2>1, <2>2, FreshKept DEF BeforeClone, BeforeInstance
<1>2. ASSUME NEW r \in Runs, NEW g \in BOOLEAN, NEW l \in BOOLEAN, StartMigration(r, g, l)
      PROVE  Fresh'
  BY <1>1, <1>2 DEF StartMigration
<1>3. ASSUME NEW r \in Runs, NEW l \in BOOLEAN, CompleteCutover(r, l)
      PROVE  Fresh'
  BY <1>1, <1>3 DEF CompleteCutover
<1>4. ASSUME NEW k \in Stops, AdmitStop(k) \/ StopStep(k) PROVE Fresh'
  BY <1>4, FreshPlain DEF AdmitStop, StopStep, StopCancels, StopMigration, StopReopens, CancelRun
<1>6. ASSUME NEW how \in {"delete", "close"}, RemoveMigration(how) PROVE Fresh'
  <2>1. UNCHANGED <<pc, seen, recorded>>
    BY <1>6 DEF RemoveMigration, CancelRun
  <2>2. cloud \ recorded \subseteq cloud'
    BY <1>6, Deleted DEF RemoveMigration
  <2>3. QED
    BY <1>0, <2>1, <2>2, FreshKept
<1>7. ASSUME NEW how \in {"delete", "close"}, RemoveRow(how) PROVE Fresh'
  BY <1>0, <1>7, FreshKept DEF RemoveRow
<1>8. QED
  BY <1>2, <1>3, <1>4, <1>6, <1>7 DEF Operator

LEMMA FreshRun ==
  ASSUME TypeOK, TypeOK', Fresh, NEW r \in Runs, RunStep(r)
  PROVE  Fresh'
<1>0. \A q \in Runs : /\ pc[q] = "cloned" => <<"clone", q>> \in cloud
                      /\ pc[q] = "created" => <<"instance", q>> \in cloud
                      /\ pc[q] = "cloned" => \A p \in Runs : <<"clone", q>> \notin seen[p]
                      /\ pc[q] = "created" => \A p \in Runs : <<"instance", q>> \notin seen[p]
  BY DEF Fresh, Unnamed, BeforeClone, BeforeInstance
<1>t. pc \in [Runs -> RunPcs] /\ recorded \subseteq Resources /\ seen \in [Runs -> SUBSET Resources]
  BY DEF TypeOK
<1> USE DEF storeVars, given, run, receiverVars, target, others, handlers, untouched
<1>1. ASSUME NEW there, UNCHANGED <<recorded, seen>>, cloud \subseteq cloud',
             pc' = [pc EXCEPT ![r] = there],
             there \notin {"unused", "cloned", "created"},
             there \in BeforeClone => pc[r] \in BeforeClone,
             there \in BeforeInstance => pc[r] \in BeforeInstance
      PROVE  Fresh'
  BY <1>t, <1>1, FreshPlain
<1>2. ASSUME RunFails(r), UNCHANGED <<recorded, cloud>> PROVE Fresh'
  BY <1>1, <1>2 DEF RunFails, Goto, BeforeClone, BeforeInstance
<1>3. CASE LaunchRun(r)
  BY <1>1, <1>3 DEF LaunchRun, Goto, BeforeClone, BeforeInstance
<1>4. CASE BeginRun(r)
  BY <1>1, <1>4 DEF BeginRun, Goto, BeforeClone, BeforeInstance
<1>5. CASE QuiesceEnds(r)
  BY <1>1, <1>5 DEF QuiesceEnds, Goto, BeforeClone, BeforeInstance
<1>6. CASE DrainBegins(r)
  BY <1>1, <1>6 DEF DrainBegins, BeforeClone, BeforeInstance
<1>7. CASE DrainEnds(r)
  BY <1>1, <1>7 DEF DrainEnds, BeforeClone, BeforeInstance
<1>8. CASE ConvertBegins(r)
  BY <1>1, <1>8 DEF ConvertBegins, Goto, BeforeClone, BeforeInstance
<1>9. CASE ConvertEnds(r)
  BY <1>1, <1>2, <1>9 DEF ConvertEnds, Goto, BeforeClone, BeforeInstance
<1>10. CASE Park(r)
  BY <1>1, <1>10 DEF Park, Goto, BeforeClone, BeforeInstance
<1>11. CASE CleanBegins(r)
  <2>1. cloud \ seen[r] \subseteq cloud'
    BY <1>11, Deleted DEF CleanBegins
  <2>2. pc' = [pc EXCEPT ![r] = "cleaning"] /\ pc[r] = "clean" /\ UNCHANGED <<recorded, seen>>
    BY <1>11 DEF CleanBegins, Goto
  <2>3. QED
    BY <1>0, <1>t, <2>1, <2>2, FreshKept DEF BeforeClone, BeforeInstance
<1>12. CASE CleanEnds(r)
  <2>1. recorded' \subseteq recorded
    BY <1>t, <1>12, Clones DEF CleanEnds
  <2>2. \A q \in Runs : seen'[q] \subseteq seen[q]
    BY <1>t, <1>12 DEF CleanEnds
  <2>3. pc' = [pc EXCEPT ![r] = "clone"] /\ pc[r] = "cleaning" /\ UNCHANGED cloud
    BY <1>12 DEF CleanEnds
  <2>4. QED
    BY <1>0, <1>t, <2>1, <2>2, <2>3, FreshKept DEF BeforeClone, BeforeInstance
<1>13. CASE CloneVolume(r)
  <2>1. CASE pc' = [pc EXCEPT ![r] = "cloned"] /\ cloud' = cloud \cup {<<"clone", r>>} /\ UNCHANGED seen
    <3>1. pc[r] = "clone" /\ UNCHANGED recorded
      BY <1>13 DEF CloneVolume
    <3>2. QED
      BY <1>0, <1>t, <2>1, <3>1, FreshKept DEF BeforeClone, BeforeInstance
  <2>2. QED
    BY <1>2, <1>13, <2>1 DEF CloneVolume
<1>14. CASE RecordClone(r)
  <2>1. CASE RunFails(r) /\ UNCHANGED recorded
    BY <1>2, <1>14, <2>1 DEF RecordClone
  <2>2. CASE \E there \in {"create", "finish"} : Goto(r, there)
    <3>1. recorded' \subseteq recorded \cup {<<"clone", r>>} /\ UNCHANGED <<cloud, seen>>
      BY <1>14, <2>2 DEF RecordClone, Row, Goto
    <3>2. pc[r] = "cloned" /\ pc'[r] \in {"create", "finish"} /\ \A q \in Runs \ {r} : pc'[q] = pc[q]
      BY <1>t, <1>14, <2>2 DEF RecordClone, Goto
    <3>3. ASSUME NEW q \in Runs PROVE <<"instance", q>> # <<"clone", r>> /\ (q # r => <<"clone", q>> # <<"clone", r>>)
      OBVIOUS
    <3>4. QED
      BY <1>0, <3>1, <3>2, <3>3 DEF Fresh, Unnamed, BeforeClone, BeforeInstance
  <2>3. QED
    BY <1>14, <2>1, <2>2 DEF RecordClone
<1>15. CASE CreateInstance(r)
  <2>1. CASE Goto(r, "created") /\ cloud' = cloud \cup {<<"instance", r>>}
    <3>1. pc[r] = "create" /\ UNCHANGED recorded
      BY <1>15 DEF CreateInstance
    <3>2. QED
      BY <1>0, <1>t, <2>1, <3>1, FreshKept DEF BeforeClone, BeforeInstance, Goto
  <2>2. QED
    BY <1>2, <1>15, <2>1 DEF CreateInstance
<1>16. CASE RecordInstance(r)
  <2>1. recorded' \subseteq recorded \cup {<<"instance", r>>} /\ UNCHANGED <<cloud, seen>>
    BY <1>t, <1>16, Clones DEF RecordInstance, Row, Goto
  <2>2. pc[r] = "created" /\ pc'[r] \in {"boot", "ending"} /\ \A q \in Runs \ {r} : pc'[q] = pc[q]
    BY <1>t, <1>16 DEF RecordInstance, Goto
  <2>3. ASSUME NEW q \in Runs PROVE <<"clone", q>> # <<"instance", r>> /\ (q # r => <<"instance", q>> # <<"instance", r>>)
    OBVIOUS
  <2>4. QED
    BY <1>0, <2>1, <2>2, <2>3 DEF Fresh, Unnamed, BeforeClone, BeforeInstance
<1>17. CASE BootInstance(r)
  BY <1>1, <1>2, <1>17 DEF BootInstance, Goto, BeforeClone, BeforeInstance
<1>18. CASE Finish(r)
  BY <1>1, <1>18 DEF Finish, Goto, BeforeClone, BeforeInstance
<1>19. CASE RunReturns(r)
  <2>1. \A q \in Runs : pc'[q] = "done" \/ pc'[q] = pc[q]
    BY <1>19 DEF RunReturns, Retire
  <2>2. UNCHANGED <<recorded, cloud>> /\ \A q \in Runs : seen'[q] \subseteq seen[q]
    BY <1>19 DEF RunReturns, Retire
  <2>3. QED
    BY <1>0, <2>1, <2>2, FreshKept DEF BeforeClone, BeforeInstance
<1>21. CASE Accept(r)
  BY <1>1, <1>21 DEF Accept, BeforeClone, BeforeInstance
<1>20. QED
  BY <1>3, <1>4, <1>5, <1>6, <1>7, <1>8, <1>9, <1>10, <1>11, <1>12, <1>13, <1>14, <1>15,
     <1>16, <1>17, <1>18, <1>19, <1>21 DEF RunStep

LEMMA FreshReceivers ==
  ASSUME TypeOK, TypeOK', Fresh, ReceiverStep \/ Restart
  PROVE  Fresh'
<1>1. CASE ReceiverStep
  <2>1. UNCHANGED <<recorded, seen, cloud, pc>>
    BY <1>1 DEF ReceiverStep, SessionBegins, SessionApplies, SessionEnds, storeVars, run, given
  <2>2. QED
    BY <2>1, FreshPlain
<1>2. CASE Restart
  <2>1. UNCHANGED <<recorded, cloud>>
    BY <1>2 DEF Restart, storeVars
  <2>2. \A q \in Runs : (pc'[q] = "done" \/ pc'[q] = pc[q]) /\ seen'[q] \subseteq seen[q]
    BY <1>2 DEF Restart, Retire
  <2>3. \A q \in Runs : /\ pc[q] = "cloned" => <<"clone", q>> \in cloud
                        /\ pc[q] = "created" => <<"instance", q>> \in cloud
    BY DEF Fresh
  <2>4. QED
    BY <2>1, <2>2, <2>3, FreshKept DEF BeforeClone, BeforeInstance
<1>3. QED
  BY <1>1, <1>2

LEMMA AlwaysFresh == Spec => []Fresh
<1>1. Init => Fresh
  BY DEF Init, Fresh, Unnamed
<1>2. TypeOK /\ TypeOK' /\ Fresh /\ [Next]_vars => Fresh'
  <2> SUFFICES ASSUME TypeOK, TypeOK', Fresh, [Next]_vars PROVE Fresh'
    OBVIOUS
  <2>1. CASE UNCHANGED vars
    BY <2>1 DEF Fresh, Unnamed, vars, storeVars, run, given
  <2>2. QED
    BY <2>1, FreshOperator, FreshRun, FreshReceivers DEF Next
<1>3. QED
  BY <1>1, <1>2, CutoverTypeCorrect, PTL DEF Spec

\* A step that lets no artifact go, and no run that is cleaning up forget.
LEMMA AccountedKept ==
  ASSUME Accounted, "delete" \in removing => "delete" \in removing', interrupted \subseteq interrupted',
         recorded' \subseteq recorded \cup cloud', cloud \subseteq cloud',
         \A r \in Runs : pc[r] = "cleaning" => pc'[r] = "cleaning" /\ seen'[r] = seen[r]
  PROVE  Accounted'
<1>1. CASE \A x \in recorded \ cloud : \E r \in Runs : pc[r] = "cleaning" /\ x \in seen[r]
  <2>1. \A x \in recorded' \ cloud' : \E r \in Runs : pc'[r] = "cleaning" /\ x \in seen'[r]
    BY <1>1
  <2>2. QED
    BY <2>1 DEF Accounted
<1>2. CASE "delete" \in removing \/ interrupted # {}
  BY <1>2 DEF Accounted
<1>3. QED
  BY <1>1, <1>2 DEF Accounted

LEMMA AccountedOperator ==
  ASSUME TypeOK, Accounted, Operator
  PROVE  Accounted'
<1>t. pc \in [Runs -> RunPcs] /\ seen \in [Runs -> SUBSET Resources]
  BY DEF TypeOK
<1> USE DEF storeVars, given, run, receiverVars, target, others, handlers, untouched
<1>1. ASSUME NEW r \in Runs, NEW there, NEW g, NEW l, Admit(r, there, g, l)
      PROVE  Accounted'
  BY <1>t, <1>1, AccountedKept DEF Admit, NextRun
<1>2. ASSUME NEW r \in Runs, NEW g \in BOOLEAN, NEW l \in BOOLEAN, StartMigration(r, g, l)
      PROVE  Accounted'
  BY <1>1, <1>2 DEF StartMigration
<1>3. ASSUME NEW r \in Runs, NEW l \in BOOLEAN, CompleteCutover(r, l)
      PROVE  Accounted'
  BY <1>1, <1>3 DEF CompleteCutover
<1>4. ASSUME NEW k \in Stops, AdmitStop(k) \/ StopStep(k) PROVE Accounted'
  BY <1>4, AccountedKept DEF AdmitStop, StopStep, StopCancels, StopMigration, StopReopens, CancelRun
<1>6. ASSUME NEW how \in {"delete", "close"}, RemoveMigration(how) PROVE Accounted'
  <2>1. CASE how = "delete"
    BY <1>6, <2>1 DEF RemoveMigration, Accounted
  <2>2. CASE how = "close"
    BY <1>6, <2>2, AccountedKept DEF RemoveMigration, CancelRun
  <2>3. QED
    BY <2>1, <2>2
<1>7. ASSUME NEW how \in {"delete", "close"}, RemoveRow(how) PROVE Accounted'
  <2>1. CASE recorded' = {}
    BY <2>1 DEF Accounted
  <2>2. CASE how = "delete" /\ recorded' # {}
    BY <1>7, <2>2 DEF RemoveRow, Accounted
  <2>3. CASE how = "close" /\ recorded' # {}
    BY <1>7, <2>3, AccountedKept DEF RemoveRow
  <2>4. QED
    BY <2>1, <2>2, <2>3
<1>8. QED
  BY <1>2, <1>3, <1>4, <1>6, <1>7 DEF Operator

LEMMA AccountedRun ==
  ASSUME TypeOK, Fresh, Accounted, NEW r \in Runs, RunStep(r)
  PROVE  Accounted'
<1>t. /\ pc \in [Runs -> RunPcs] /\ seen \in [Runs -> SUBSET Resources]
      /\ recorded \subseteq Resources
  BY DEF TypeOK
<1> USE DEF storeVars, given, run, receiverVars, target, others, handlers, untouched
<1>1. ASSUME UNCHANGED <<seen, removing, interrupted>>, cloud \subseteq cloud',
             recorded' \subseteq recorded \cup cloud', pc[r] # "cleaning",
             \E there : pc' = [pc EXCEPT ![r] = there]
      PROVE  Accounted'
  BY <1>t, <1>1, AccountedKept
<1>2. CASE LaunchRun(r)
  BY <1>1, <1>2 DEF LaunchRun, Goto
<1>3. CASE BeginRun(r)
  BY <1>1, <1>3 DEF BeginRun, Goto
<1>4. CASE QuiesceEnds(r)
  BY <1>1, <1>4 DEF QuiesceEnds, Goto
<1>5. CASE DrainBegins(r)
  BY <1>1, <1>5 DEF DrainBegins
<1>6. CASE DrainEnds(r)
  BY <1>1, <1>6 DEF DrainEnds
<1>7. CASE ConvertBegins(r)
  BY <1>1, <1>7 DEF ConvertBegins, Goto
<1>8. CASE ConvertEnds(r)
  BY <1>1, <1>8 DEF ConvertEnds, Goto, RunFails
<1>9. CASE Park(r)
  BY <1>1, <1>9 DEF Park, Goto
<1>10. CASE CleanBegins(r)
  <2>1. cloud \ seen[r] \subseteq cloud'
    BY <1>10, Deleted DEF CleanBegins
  <2>2. /\ pc'[r] = "cleaning" /\ \A q \in Runs \ {r} : pc'[q] = pc[q]
        /\ UNCHANGED <<recorded, seen, removing, interrupted>>
    BY <1>t, <1>10 DEF CleanBegins, Goto
  <2>3. ASSUME \A x \in recorded \ cloud : \E q \in Runs : pc[q] = "cleaning" /\ x \in seen[q]
        PROVE  \A x \in recorded' \ cloud' : \E q \in Runs : pc'[q] = "cleaning" /\ x \in seen'[q]
    BY <2>1, <2>2, <2>3
  <2>4. QED
    BY <2>2, <2>3 DEF Accounted
<1>11. CASE CleanEnds(r)
  <2>1. /\ pc'[r] = "clone" /\ \A q \in Runs \ {r} : pc'[q] = pc[q] /\ seen'[q] = seen[q]
        /\ UNCHANGED <<cloud, removing, interrupted>>
    BY <1>t, <1>11 DEF CleanEnds
  <2>2. CASE ClonesOf(seen[r]) # {}
    BY <1>11, <2>2 DEF CleanEnds, Accounted
  <2>3. CASE ClonesOf(seen[r]) = {}
    <3>1. recorded' = ClonesOf(recorded)
      BY <1>11, <2>3 DEF CleanEnds
    <3>2. \A x \in recorded' : x \in recorded /\ x \notin seen[r]
      BY <2>3, <3>1 DEF ClonesOf
    <3>3. ASSUME \A x \in recorded \ cloud : \E q \in Runs : pc[q] = "cleaning" /\ x \in seen[q]
          PROVE  \A x \in recorded' \ cloud' : \E q \in Runs : pc'[q] = "cleaning" /\ x \in seen'[q]
      BY <2>1, <3>2, <3>3
    <3>4. QED
      BY <2>1, <3>3 DEF Accounted
  <2>4. QED
    BY <2>2, <2>3
<1>12. CASE CloneVolume(r)
  BY <1>1, <1>12 DEF CloneVolume, Goto, RunFails
<1>13. CASE RecordClone(r)
  <2>1. <<"clone", r>> \in cloud
    BY <1>13 DEF RecordClone, Fresh
  <2>2. recorded' \subseteq recorded \cup cloud
    BY <1>13, <2>1 DEF RecordClone, Row
  <2>3. QED
    BY <1>1, <1>13, <2>2 DEF RecordClone, Goto, RunFails
<1>14. CASE CreateInstance(r)
  BY <1>1, <1>14 DEF CreateInstance, Goto, RunFails
<1>15. CASE RecordInstance(r)
  <2>1. <<"instance", r>> \in cloud
    BY <1>15 DEF RecordInstance, Fresh
  <2>2. recorded' \subseteq recorded \cup cloud
    BY <1>t, <1>15, <2>1, Clones DEF RecordInstance, Row
  <2>3. QED
    BY <1>1, <1>15, <2>2 DEF RecordInstance, Goto
<1>16. CASE BootInstance(r)
  BY <1>1, <1>16 DEF BootInstance, Goto, RunFails
<1>17. CASE Finish(r)
  BY <1>1, <1>17 DEF Finish, Goto
<1>18. CASE RunReturns(r)
  <2>1. \A q \in Runs : pc[q] = "cleaning" => pc'[q] = "cleaning" /\ seen'[q] = seen[q]
    BY <1>18 DEF RunReturns, Retire
  <2>2. QED
    BY <1>18, <2>1, AccountedKept DEF RunReturns
<1>20. CASE Accept(r)
  BY <1>1, <1>20 DEF Accept
<1>19. QED
  BY <1>2, <1>3, <1>4, <1>5, <1>6, <1>7, <1>8, <1>9, <1>10, <1>11, <1>12, <1>13, <1>14,
     <1>15, <1>16, <1>17, <1>18, <1>20 DEF RunStep

LEMMA AccountedReceivers ==
  ASSUME TypeOK, Accounted, ReceiverStep \/ Restart
  PROVE  Accounted'
<1>1. CASE ReceiverStep
  <2>1. UNCHANGED <<recorded, seen, cloud, pc, removing, interrupted>>
    BY <1>1 DEF ReceiverStep, SessionBegins, SessionApplies, SessionEnds, storeVars, run, given,
                untouched, others, handlers
  <2>2. QED
    BY <2>1, AccountedKept
<1>2. CASE Restart
  <2>1. UNCHANGED <<recorded, cloud>> /\ interrupted \subseteq interrupted'
    BY <1>2 DEF Restart, storeVars
  <2>2. CASE "delete" \in removing \/ \E r \in Runs : pc[r] = "cleaning"
    <3>1. interrupted' # {}
      BY <1>2, <2>2 DEF Restart
    <3>2. QED
      BY <3>1 DEF Accounted
  <2>3. CASE "delete" \notin removing /\ ~\E r \in Runs : pc[r] = "cleaning"
    BY <2>1, <2>3 DEF Accounted
  <2>4. QED
    BY <2>2, <2>3
<1>3. QED
  BY <1>1, <1>2

\* Clean-up, Delete and the console never go by an artifact that is gone, but for one that
\* something is just deleting or was when the appliance died: for any number of runs,
\* in any overlap, with the commands pressed in any order.
THEOREM CutoverRecordedExists == Spec => []RecordedExists
<1>1. Init => Accounted
  BY DEF Init, Accounted
<1>2. TypeOK /\ Fresh /\ Accounted /\ [Next]_vars => Accounted'
  <2> SUFFICES ASSUME TypeOK, Fresh, Accounted, [Next]_vars PROVE Accounted'
    OBVIOUS
  <2>1. CASE UNCHANGED vars
    BY <2>1, AccountedKept DEF vars, storeVars, run, given, others, handlers
  <2>2. QED
    BY <2>1, AccountedOperator, AccountedRun, AccountedReceivers DEF Next
<1>3. Accounted => RecordedExists
  BY DEF Accounted, RecordedExists
<1>4. QED
  BY <1>1, <1>2, <1>3, CutoverTypeCorrect, AlwaysFresh, PTL DEF Spec

---------------------------------------------------------------------------
(***************************************************************************)
(* A cutover by the console's buttons.                                     *)
(***************************************************************************)

Gone     == Deleting \/ state = "removed"
Active(g) == session[g] \in {"stream", "apply"}

\* Where a run is not at work, unless it is at the beginning and has not been stopped: a
\* run stopped there goes no further.
Aside    == {"unused", "asked", "confirmed", "begin", "quiesce", "ending", "done"}
Busy(r)  == pc[r] \notin Aside \/ (pc[r] \in {"begin", "quiesce"} /\ live[r])

USE DEF Aside

\* One run at a time is at work, uncancelled, and only while migrating.
Alone ==
    \A r \in Runs :
        Busy(r) => state = "migrating" /\ live[r] /\ \A q \in Runs : Busy(q) => q = r

\* The receivers listen until the drain, which waits for the last session, or until what
\* stops the run has brought them back; until then the device is the replica.
Quiet ==
    /\ up # 0 => \/ state = "replicating" \/ Stopping
                 \/ \E r \in Runs : Busy(r) /\ pc[r] \in {"starting", "begin", "quiesce", "drain"}
    /\ \A g \in Listeners :
        Active(g) => up = g \/ \E r \in Runs : pc[r] = "draining" /\ waits[r] = g
    /\ up # 0 \/ (\E g \in Listeners : Active(g)) => device = "replica"

\* The device is never passes and conversion at once, and it is what the state says.
Unmixed ==
    /\ device # "mixed" /\ image # "mixed" /\ \A r \in Runs : copy[r] # "mixed"
    /\ state = "replicating" => device = "replica"
    /\ state = "awaiting_cutover" => device = "converted"
    /\ \A r \in Runs : /\ pc[r] = "converting" => device = "partial"
                       /\ pc[r] = "park" => device = "converted"

Has(kind) == \E r \in Runs : <<kind, r>> \in recorded \cap cloud

\* What has been recorded on the way to the launch is there.
Kept ==
    /\ state = "launched" => Has("clone") /\ Has("instance")
    /\ \A r \in Runs :
        /\ pc[r] \in {"create", "created", "boot", "finish"} => Has("clone")
        /\ pc[r] = "boot" \/ (pc[r] = "finish" /\ launch[r]) => Has("instance")

\* Between the cancel of a Stop and the receivers it brings back nothing is at work, and
\* nothing has been done to the replica.
Stopped ==
    /\ Stopping => /\ state \in {"migrating", "replicating"}
                   /\ device = "replica"
                   /\ \A r \in Runs : ~Busy(r)
    /\ \A k \in Stops : stop[k] = "reopens" => state = "replicating"

Sound == Alone /\ Quiet /\ Unmixed /\ Kept /\ Stopped
ConsoleInv == Gone \/ Sound

Early == {"starting", "begin", "quiesce", "drain"}
Late  == RunPcs \ (Early \cup {"unused", "asked", "confirmed", "ending", "done", "draining"})

Console == ConsoleOnly /\ ~MayOverrun /\ ~MayStopLate /\ ~MayRace

\* A run leaves the handlers of other commands alone.
LEMMA RunKeepsOthers ==
  ASSUME NEW r \in Runs, RunStep(r)
  PROVE  UNCHANGED others
  BY DEF RunStep, Accept, LaunchRun, BeginRun, QuiesceEnds, DrainBegins, DrainEnds,
       ConvertBegins, ConvertEnds, Park, CleanBegins, CleanEnds, CloneVolume, RecordClone,
       CreateInstance, RecordInstance, BootInstance, Finish, RunReturns, RunFails, untouched

\* A deletion is not undone.
LEMMA GoneStays ==
  ASSUME TypeOK, Next, Gone
  PROVE  Gone'
<1> USE DEF Gone, Deleting, SetState, Row, storeVars, untouched, target, others, handlers
<1>1. CASE Operator
  <2>1. ASSUME NEW r \in Runs, NEW g \in BOOLEAN, NEW l \in BOOLEAN,
               StartMigration(r, g, l) \/ CompleteCutover(r, l)
        PROVE  UNCHANGED <<removing, interrupted, state>>
    BY <2>1 DEF StartMigration, CompleteCutover, Admit
  <2>2. ASSUME NEW k \in Stops, AdmitStop(k) \/ StopStep(k)
        PROVE  UNCHANGED <<removing, interrupted>> /\ (state = "removed" => state' = "removed")
    BY <2>2 DEF AdmitStop, StopStep, StopCancels, StopMigration, StopReopens
  <2>3. ASSUME NEW how \in {"delete", "close"}, RemoveMigration(how) PROVE Gone'
    BY <2>3 DEF RemoveMigration
  <2>4. ASSUME NEW how \in {"delete", "close"}, RemoveRow(how) PROVE Gone'
    BY <2>4 DEF RemoveRow
  <2>5. QED
    BY <1>1, <2>1, <2>2, <2>3, <2>4 DEF Operator
<1>2. ASSUME NEW r \in Runs, RunStep(r) PROVE Gone'
  <2>1. UNCHANGED <<removing, interrupted>>
    BY <1>2, RunKeepsOthers
  <2>2. state = "removed" => state' = "removed"
    BY <1>2 DEF RunStep, Accept, LaunchRun, BeginRun, QuiesceEnds, DrainBegins, DrainEnds,
       ConvertBegins, ConvertEnds, Park, CleanBegins, CleanEnds, CloneVolume, RecordClone,
       CreateInstance, RecordInstance, BootInstance, Finish, RunReturns, RunFails
  <2>3. QED
    BY <2>1, <2>2
<1>3. CASE ReceiverStep
  BY <1>3 DEF ReceiverStep, SessionBegins, SessionApplies, SessionEnds
<1>4. CASE Restart
  <2>1. state' = state /\ interrupted \subseteq interrupted'
    BY <1>4 DEF Restart
  <2>2. "delete" \in removing => "deletion" \in interrupted'
    BY <1>4 DEF Restart
  <2>3. QED
    BY <2>1, <2>2
<1>5. QED
  BY <1>1, <1>2, <1>3, <1>4 DEF Next

\* What is known while a run is at work.
LEMMA WhileBusy ==
  ASSUME TypeOK, Sound, NEW r \in Runs, Busy(r)
  PROVE  /\ state = "migrating" /\ live[r]
         /\ \A q \in Runs : q # r => pc[q] \in Aside /\ ~Busy(q)
         /\ ~Stopping
         /\ up # 0 => pc[r] \in Early
         /\ \A g \in Listeners : Active(g) => up = g \/ (pc[r] = "draining" /\ waits[r] = g)
         /\ pc[r] # "converting" => ~Converting
         /\ pc[r] \in Late => up = 0 /\ ~Applying /\ \A g \in Listeners : ~Active(g)
<1>1. state = "migrating" /\ live[r] /\ \A q \in Runs : q # r => pc[q] \in Aside /\ ~Busy(q)
  BY DEF Sound, Alone, Busy
<1>9. ~Stopping
  BY DEF Sound, Stopped
<1>2. up # 0 => pc[r] \in Early
  BY <1>1, <1>9 DEF Sound, Quiet, Early
<1>3. \A g \in Listeners : Active(g) => up = g \/ (pc[r] = "draining" /\ waits[r] = g)
  BY <1>1 DEF Sound, Quiet
<1>4. pc[r] \in Late => pc[r] \notin Early /\ pc[r] # "draining"
  BY DEF Late
<1>5. pc[r] \in Late => \A g \in Listeners : ~Active(g)
  BY <1>2, <1>3, <1>4
<1>6. Applying => \E g \in Listeners : Active(g)
  BY DEF Applying, Active
<1>7. pc[r] # "converting" => ~Converting
  BY <1>1 DEF Converting
<1>8. QED
  BY <1>1, <1>2, <1>3, <1>4, <1>5, <1>6, <1>7, <1>9

\* Nothing is at work, and nothing is received, unless the state says so.
LEMMA WhileIdle ==
  ASSUME Sound, state # "migrating"
  PROVE  /\ \A r \in Runs : pc[r] \in Aside /\ ~Busy(r)
         /\ \A g \in Listeners : Active(g) => up = g
         /\ state # "replicating" => up = 0 /\ \A g \in Listeners : ~Active(g)
<1>1. \A r \in Runs : pc[r] \in Aside /\ ~Busy(r)
  BY DEF Sound, Alone, Busy
<1>2. \A g \in Listeners : Active(g) => up = g
  BY <1>1 DEF Sound, Quiet
<1>3. state # "replicating" => up = 0
  BY <1>1 DEF Sound, Quiet, Stopped
<1>4. QED
  BY <1>1, <1>2, <1>3

\* While a run is at work nothing is being stopped.
LEMMA StoppedKept ==
  ASSUME TypeOK, Sound, NEW r \in Runs, Busy(r), UNCHANGED stop
  PROVE  Stopped'
<1>1. ~Stopping
  BY WhileBusy
<1>2. \A k \in Stops : stop'[k] = stop[k] /\ stop[k] \notin {"cancelled", "reopens"}
  BY <1>1 DEF Stopping
<1>3. QED
  BY <1>2 DEF Stopped, Stopping

\* A step of the one run at work, from one place of it to another.
LEMMA AloneKept ==
  ASSUME TypeOK, Sound, NEW r \in Runs, Busy(r), NEW there, UNCHANGED live,
         pc' = [pc EXCEPT ![r] = there], state' = state \/ there = "ending"
  PROVE  Alone'
<1>1. \A q \in Runs : q # r => ~Busy(q)'
  <2>1. ASSUME NEW q \in Runs, q # r PROVE pc'[q] = pc[q] /\ live'[q] = live[q] /\ ~Busy(q)
    BY <2>1, WhileBusy DEF TypeOK
  <2>2. QED
    BY <2>1 DEF Busy
<1>2. Busy(r)' => state' = "migrating" /\ live'[r]
  BY WhileBusy DEF Busy, TypeOK
<1>3. QED
  BY <1>1, <1>2 DEF Alone

\* Past the drain nothing is received, and nothing else works on the target.
LEMMA LateSound ==
  ASSUME TypeOK, TypeOK', Sound, NEW r \in Runs, pc[r] \in Late, NEW there,
         UNCHANGED <<up, session, live, stop>>,
         pc' = [pc EXCEPT ![r] = there], state' = state \/ there = "ending",
         Unmixed', Kept'
  PROVE  Sound'
<1>1. Busy(r)
  BY DEF Late, Early, Busy
<1>2. Alone'
  BY <1>1, AloneKept
<1>3. up' = 0 /\ \A g \in Listeners : ~Active(g)'
  BY <1>1, WhileBusy DEF Active
<1>4. Quiet'
  BY <1>3 DEF Quiet
<1>6. Stopped'
  BY <1>1, StoppedKept
<1>5. QED
  BY <1>2, <1>4, <1>6 DEF Sound

\* A step of the run that leaves the target and what is recorded alone.
LEMMA UnmixedPlain ==
  ASSUME TypeOK, Sound, NEW r \in Runs, Busy(r), NEW there,
         UNCHANGED <<device, image, copy>>,
         pc' = [pc EXCEPT ![r] = there], there \notin {"converting", "park"},
         state' = state \/ state' \notin {"replicating", "awaiting_cutover"}
  PROVE  Unmixed'
<1>1. \A q \in Runs : pc'[q] \notin {"converting", "park"} \/ pc'[q] = pc[q]
  BY DEF TypeOK
<1>2. QED
  BY <1>1 DEF Sound, Unmixed

LEMMA KeptPlain ==
  ASSUME TypeOK, Sound, NEW r \in Runs, Busy(r), NEW there,
         pc' = [pc EXCEPT ![r] = there],
         there \notin {"create", "created", "boot", "finish"}, state' # "launched"
  PROVE  Kept'
<1>0. pc \in [Runs -> RunPcs] /\ \A q \in Runs : q # r => pc[q] \in Aside /\ ~Busy(q)
  BY WhileBusy DEF TypeOK
<1>1. \A q \in Runs : pc'[q] \notin {"create", "created", "boot", "finish"}
  BY <1>0
<1>2. QED
  BY <1>1 DEF Kept

LEMMA KeptOn ==
  ASSUME TypeOK, Sound, NEW r \in Runs, Busy(r), NEW there,
         pc' = [pc EXCEPT ![r] = there], state' # "launched", Has("clone")',
         there = "boot" \/ (there = "finish" /\ launch'[r]) => Has("instance")'
  PROVE  Kept'
<1>0. pc \in [Runs -> RunPcs] /\ \A q \in Runs : q # r => pc[q] \in Aside /\ ~Busy(q)
  BY WhileBusy DEF TypeOK
<1>1. \A q \in Runs : q # r => pc'[q] \notin {"create", "created", "boot", "finish"}
  BY <1>0
<1>2. pc'[r] = there
  BY DEF TypeOK
<1>3. QED
  BY <1>1, <1>2 DEF Kept

\* A run that fails.
LEMMA FailsSound ==
  ASSUME TypeOK, TypeOK', Sound, ~Gone, NEW r \in Runs, pc[r] \in Late, RunFails(r),
         UNCHANGED <<up, session, device, image, stop>>
  PROVE  Sound'
<1>1. Busy(r)
  BY DEF Late, Early, Busy
<1>2. state' = "failed" /\ pc' = [pc EXCEPT ![r] = "ending"] /\ UNCHANGED given
  BY <1>1, WhileBusy DEF RunFails, Goto, SetState, Row, Gone
<1>3. Unmixed'
  BY <1>1, <1>2, UnmixedPlain DEF given
<1>4. Kept'
  BY <1>1, <1>2, KeptPlain
<1>5. QED
  BY <1>2, <1>3, <1>4, LateSound DEF given

\* A Stop in time: the run it cancels, if any, goes no further, and the replica is as the
\* passes have left it.
LEMMA CancelSound ==
  ASSUME TypeOK, TypeOK', Console, Sound, NEW k \in Stops, StopCancels(k)
  PROVE  Sound'
<1>t. live \in [Runs -> BOOLEAN] /\ stop \in [Stops -> StopPcs]
  BY DEF TypeOK
<1>1. /\ UNCHANGED <<state, pc, launch, waits, copy, recorded, cloud, device, image, up, session>>
      /\ \A r \in Runs : live'[r] => live[r] /\ r # finalizes
  BY DEF StopCancels, CancelRun, target, storeVars, receiverVars
<1>2. /\ device = "replica" /\ state \in {"migrating", "replicating"}
      /\ \A r \in Runs : Busy(r) => r = finalizes /\ pc[r] \in {"begin", "quiesce"}
  BY DEF StopCancels, StopsLate, Console, Running, Sound, Alone, Busy
<1>3. \A r \in Runs : ~Busy(r)' /\ pc[r] # "draining"
  BY <1>1, <1>2 DEF Busy
<1>4. Alone'
  BY <1>3 DEF Alone
<1>5. stop'[k] = "cancelled" /\ \A j \in Stops : j # k => stop'[j] = stop[j]
  BY <1>t DEF StopCancels
<1>6. Quiet'
  <2>1. \A g \in Listeners : Active(g) => up = g
    BY <1>3 DEF Sound, Quiet
  <2>2. Stopping'
    BY <1>5 DEF Stopping
  <2>3. QED
    BY <1>1, <1>2, <2>1, <2>2 DEF Quiet, Active
<1>7. Unmixed' /\ Kept'
  BY <1>1, <1>2 DEF Sound, Unmixed, Kept, Has
<1>8. Stopped'
  <2>1. \A j \in Stops : stop'[j] = "reopens" => state' = "replicating"
    BY <1>1, <1>5 DEF Sound, Stopped
  <2>2. QED
    BY <1>1, <1>2, <1>3, <2>1 DEF Stopped
<1>9. QED
  BY <1>4, <1>6, <1>7, <1>8 DEF Sound

LEMMA StopSound ==
  ASSUME TypeOK, TypeOK', Sound, ~Gone, NEW k \in Stops, StopMigration(k)
  PROVE  Sound'
<1>t. stop \in [Stops -> StopPcs]
  BY DEF TypeOK
<1>1. /\ state' = "replicating" /\ stop[k] = "cancelled"
      /\ UNCHANGED <<recorded, cloud, pc, guided, launch, live, waits, seen, copy, up, session,
                     device, image>>
  BY DEF StopMigration, SetState, Row, Gone, target, receiverVars, run, given
<1>2. device = "replica" /\ \A r \in Runs : ~Busy(r)
  BY <1>1 DEF Sound, Stopped, Stopping
<1>3. \A r \in Runs : ~Busy(r)' /\ pc[r] # "draining"
  BY <1>1, <1>2 DEF Busy
<1>4. Alone' /\ Stopped'
  BY <1>1, <1>2, <1>3 DEF Alone, Stopped
<1>5. Quiet'
  <2>1. \A g \in Listeners : Active(g) => up = g
    BY <1>3 DEF Sound, Quiet
  <2>2. QED
    BY <1>1, <1>2, <2>1 DEF Quiet, Active
<1>6. Unmixed' /\ Kept'
  BY <1>1, <1>2 DEF Sound, Unmixed, Kept, Has
<1>7. QED
  BY <1>4, <1>5, <1>6 DEF Sound

LEMMA ReopenSound ==
  ASSUME TypeOK, TypeOK', Sound, ~Gone, NEW k \in Stops, StopReopens(k)
  PROVE  Sound'
<1>t. /\ session \in [Listeners -> {"unused", "idle", "stream", "apply"}]
      /\ stop \in [Stops -> StopPcs]
  BY DEF TypeOK
<1>1. /\ stop[k] = "reopens" /\ stop' = [stop EXCEPT ![k] = "answered"] /\ EnsureReceivers
      /\ UNCHANGED <<state, recorded, cloud, pc, guided, launch, live, waits, seen, copy,
                     device, image>>
  BY DEF StopReopens, Gone, target, storeVars, run, given
<1>2. /\ state = "replicating" /\ device = "replica" /\ \A r \in Runs : ~Busy(r)
  BY <1>1 DEF Sound, Stopped, Stopping
<1>3. \A r \in Runs : ~Busy(r)' /\ pc[r] # "draining"
  BY <1>1, <1>2 DEF Busy
<1>4. Alone' /\ Stopped'
  BY <1>1, <1>2, <1>3 DEF Alone, Stopped
<1>5. \A g \in Listeners : Active(g) => up = g
  BY <1>3 DEF Sound, Quiet
<1>6. \A g \in Listeners : Active(g)' => up' = g
  <2>1. CASE up # 0
    BY <1>1, <1>5, <2>1 DEF EnsureReceivers, receiverVars, Active
  <2>2. CASE up = 0
    <3>1. PICK g \in Listeners : session' = [session EXCEPT ![g] = "idle"]
      BY <1>1, <2>2 DEF EnsureReceivers
    <3>2. \A h \in Listeners : ~Active(h)
      BY <1>5, <2>2
    <3>3. QED
      BY <1>t, <3>1, <3>2 DEF Active
  <2>3. QED
    BY <2>1, <2>2
<1>7. Quiet'
  BY <1>1, <1>2, <1>6 DEF Quiet
<1>8. Unmixed' /\ Kept'
  BY <1>1, <1>2 DEF Sound, Unmixed, Kept, Has
<1>9. QED
  BY <1>4, <1>7, <1>8 DEF Sound

\* A command that has looked and is not overtaken starts the one run.
LEMMA AcceptSound ==
  ASSUME TypeOK, TypeOK', Console, Sound, ~Gone, NEW r \in Runs, Accept(r)
  PROVE  Sound'
<1>t. pc \in [Runs -> RunPcs] /\ live \in [Runs -> BOOLEAN]
  BY DEF TypeOK
<1>0. ~Overtaken(r) /\ pc[r] \in {"asked", "confirmed"}
  BY DEF Accept, Console
<1>1. /\ ~Stopping /\ state # "migrating"
      /\ pc[r] = "confirmed" => state # "replicating"
  BY <1>0 DEF Overtaken, Startable, Completable, Console
<1> DEFINE there == IF pc[r] = "asked" THEN "starting" ELSE "resuming"
<1>2. /\ pc' = [pc EXCEPT ![r] = there] /\ state' = "migrating"
      /\ live' = [live EXCEPT ![r] = TRUE]
      /\ UNCHANGED <<waits, copy, recorded, cloud, up, session, device, image, stop>>
  BY DEF Accept, SetState, Row, Gone, receiverVars, untouched, target, others, handlers
<1>3. \A q \in Runs : q # r => pc'[q] \in Aside /\ ~Busy(q)'
  <2>1. ASSUME NEW q \in Runs, q # r
        PROVE  pc'[q] = pc[q] /\ live'[q] = live[q] /\ pc[q] \in Aside /\ ~Busy(q)
    BY <1>t, <1>1, <1>2, <2>1, WhileIdle
  <2>2. QED
    BY <2>1 DEF Busy
<1>4. pc'[r] = there /\ live'[r]
  BY <1>t, <1>2
<1>5. Alone'
  BY <1>2, <1>3, <1>4 DEF Alone
<1>6. Quiet'
  <2>1. \A g \in Listeners : Active(g)' => up' = g
    BY <1>1, <1>2, WhileIdle DEF Active
  <2>2. up' # 0 => there = "starting"
    BY <1>0, <1>1, <1>2, WhileIdle
  <2>3. up' # 0 \/ (\E g \in Listeners : Active(g)') => device' = "replica"
    BY <1>2 DEF Sound, Quiet, Active
  <2>4. QED
    BY <1>4, <2>1, <2>2, <2>3 DEF Quiet, Busy
<1>7. Unmixed'
  BY <1>2, <1>3, <1>4 DEF Sound, Unmixed
<1>8. Kept'
  BY <1>2, <1>3, <1>4 DEF Kept
<1>9. Stopped'
  BY <1>1, <1>2 DEF Stopped, Stopping
<1>10. QED
  BY <1>5, <1>6, <1>7, <1>8, <1>9 DEF Sound

LEMMA SoundOperator ==
  ASSUME TypeOK, TypeOK', Console, Sound, ~Gone, Operator
  PROVE  Gone' \/ Sound'
<1>t. pc \in [Runs -> RunPcs] /\ live \in [Runs -> BOOLEAN]
  BY DEF TypeOK
<1> USE DEF storeVars, receiverVars, target, others, handlers, untouched
<1>1. ASSUME NEW r \in Runs, NEW there \in {"asked", "confirmed"}, NEW g, NEW l, Admit(r, there, g, l)
      PROVE  Sound'
  <2>1. /\ pc[r] = "unused" /\ pc' = [pc EXCEPT ![r] = there]
        /\ UNCHANGED <<state, live, waits, copy, recorded, cloud, up, session, device, image, stop>>
        /\ \A q \in Runs : q # r => launch'[q] = launch[q]
    BY <1>1 DEF Admit, NextRun, TypeOK
  <2>2. pc'[r] \in {"asked", "confirmed"} /\ \A q \in Runs : q # r => pc'[q] = pc[q]
    BY <1>t, <2>1
  <2>3. \A q \in Runs : (Busy(q)' <=> Busy(q)) /\ (Busy(q) => q # r)
    BY <2>1, <2>2 DEF Busy
  <2>4. Alone'
    BY <2>1, <2>3 DEF Sound, Alone
  <2>5. Quiet'
    BY <2>1, <2>2, <2>3 DEF Sound, Quiet, Active, Stopping
  <2>6. Unmixed' /\ Kept'
    BY <2>1, <2>2 DEF Sound, Unmixed, Kept, Has
  <2>7. Stopped'
    BY <2>1, <2>3 DEF Sound, Stopped, Stopping
  <2>8. QED
    BY <2>4, <2>5, <2>6, <2>7 DEF Sound
<1>2. ASSUME NEW r \in Runs, NEW g \in BOOLEAN, NEW l \in BOOLEAN, StartMigration(r, g, l)
      PROVE  Sound'
  BY <1>1, <1>2 DEF StartMigration
<1>3. ASSUME NEW r \in Runs, NEW l \in BOOLEAN, CompleteCutover(r, l)
      PROVE  Sound'
  BY <1>1, <1>3 DEF CompleteCutover
<1>4. ASSUME NEW k \in Stops, AdmitStop(k) PROVE Sound'
  <2>1. UNCHANGED <<state, recorded, cloud, run, up, session, device, image>>
    BY <1>4 DEF AdmitStop
  <2>2. \A j \in Stops : (stop'[j] = stop[j]) \/ (stop'[j] = "admitted" /\ stop[j] = "unused")
    BY <1>4 DEF AdmitStop, NextStop, TypeOK
  <2>3. (Stopping' <=> Stopping) /\ \A j \in Stops : stop'[j] = "reopens" => stop[j] = "reopens"
    BY <2>2 DEF Stopping
  <2>4. Alone' /\ Quiet'
    BY <2>1, <2>3 DEF Sound, Alone, Busy, Quiet, Active, run, given
  <2>5. Unmixed' /\ Kept' /\ Stopped'
    BY <2>1, <2>3 DEF Sound, Stopped, Busy, Unmixed, Kept, Has, run, given
  <2>6. QED
    BY <2>4, <2>5 DEF Sound
<1>5. ASSUME NEW k \in Stops, StopStep(k) PROVE Sound'
  BY <1>5, CancelSound, StopSound, ReopenSound DEF StopStep
<1>6. ASSUME RemoveMigration("close") PROVE Sound'
  <2>1. /\ state \in {"image_ready", "launched"} /\ up' = 0
        /\ UNCHANGED <<pc, waits, copy, state, recorded, cloud, session, device, image, stop>>
    BY <1>6 DEF RemoveMigration, CancelRun
  <2>2. \A q \in Runs : pc[q] \in Aside /\ ~Busy(q) /\ (live'[q] => live[q])
    BY <1>t, <1>6, <2>1, WhileIdle DEF RemoveMigration, CancelRun
  <2>3. Alone'
    BY <2>1, <2>2 DEF Alone, Busy
  <2>4. Quiet'
    BY <2>1, WhileIdle DEF Quiet, Active
  <2>5. Unmixed' /\ Kept'
    BY <2>1, <2>2 DEF Sound, Unmixed, Kept, Has
  <2>6. Stopped'
    BY <2>1 DEF Sound, Stopped, Stopping
  <2>7. QED
    BY <2>3, <2>4, <2>5, <2>6 DEF Sound
<1>7. ASSUME RemoveMigration("delete") PROVE Gone'
  BY <1>7 DEF RemoveMigration, Gone, Deleting
<1>8. ASSUME NEW how \in {"delete", "close"}, RemoveRow(how) PROVE Gone' \/ Sound'
  <2>1. CASE state' = "removed" \/ how = "delete"
    BY <1>8, <2>1 DEF RemoveRow, Gone, Deleting
  <2>2. CASE ~(state' = "removed" \/ how = "delete")
    <3>1. UNCHANGED <<state, recorded, cloud, run, up, session, device, image, stop>>
      BY <1>8, <2>2 DEF RemoveRow
    <3>2. Alone' /\ Quiet'
      BY <3>1 DEF Sound, Alone, Busy, Quiet, Active, Stopping, run, given
    <3>3. Unmixed' /\ Kept' /\ Stopped'
      BY <3>1 DEF Sound, Stopped, Stopping, Busy, Unmixed, Kept, Has, run, given
    <3>4. QED
      BY <3>2, <3>3 DEF Sound
  <2>3. QED
    BY <2>1, <2>2
<1>9. QED
  BY <1>2, <1>3, <1>4, <1>5, <1>6, <1>7, <1>8 DEF Operator

\* The steps up to the conversion.
LEMMA SoundFreeze ==
  ASSUME TypeOK, TypeOK', Console, Sound, ~Gone, NEW r \in Runs, Busy(r),
         LaunchRun(r) \/ BeginRun(r) \/ QuiesceEnds(r) \/ DrainBegins(r) \/ DrainEnds(r)
  PROVE  Sound'
<1>t. pc \in [Runs -> RunPcs] /\ waits \in [Runs -> Listeners \cup {0}]
      /\ session \in [Listeners -> {"unused", "idle", "stream", "apply"}]
  BY DEF TypeOK
<1>b. Busy(r)
  OBVIOUS
<1>w. /\ state = "migrating" /\ live[r] /\ \A q \in Runs : q # r => pc[q] \in Aside /\ ~Busy(q)
      /\ up # 0 => pc[r] \in Early
      /\ \A g \in Listeners : Active(g) => up = g \/ (pc[r] = "draining" /\ waits[r] = g)
      /\ up # 0 \/ (\E g \in Listeners : Active(g)) => device = "replica"
  BY <1>b, WhileBusy DEF Sound, Quiet
<1> USE DEF storeVars, receiverVars, target, others, handlers, untouched, given
<1>1. UNCHANGED <<live, device, image, copy, state>>
  BY DEF LaunchRun, BeginRun, QuiesceEnds, DrainBegins, DrainEnds, Goto
<1>2. \E there \in {"begin", "convert", "quiesce", "drain", "draining"} :
         pc' = [pc EXCEPT ![r] = there]
  BY <1>w DEF LaunchRun, BeginRun, QuiesceEnds, DrainBegins, DrainEnds, Goto
<1>3. Alone' /\ Unmixed' /\ Kept'
  BY <1>b, <1>w, <1>1, <1>2, AloneKept, UnmixedPlain, KeptPlain
<1>6. Stopped'
  <2>1. UNCHANGED stop
    BY DEF LaunchRun, BeginRun, QuiesceEnds, DrainBegins, DrainEnds
  <2>2. QED
    BY <1>b, <2>1, StoppedKept
<1>4. Quiet'
  <2>1. CASE UNCHANGED receiverVars /\ UNCHANGED waits /\ pc[r] # "draining" /\ (pc[r] \in Early => pc'[r] \in Early)
    <3>1. pc[r] \in Early => Busy(r)'
      BY <1>w, <1>1, <2>1 DEF Busy, Early
    <3>2. QED
      BY <1>w, <1>1, <2>1, <3>1 DEF Quiet, Active, Early
  <2>2. CASE DrainBegins(r)
    <3>1. up' = 0 /\ session' = session /\ pc'[r] = "draining" /\ waits'[r] = up /\ pc[r] = "drain"
      BY <1>t, <2>2 DEF DrainBegins
    <3>2. QED
      BY <1>w, <1>1, <3>1 DEF Quiet, Active
  <2>3. CASE DrainEnds(r)
    <3>1. up' = up /\ pc[r] = "draining"
      BY <2>3 DEF DrainEnds
    <3>2. up = 0
      BY <1>w, <3>1 DEF Early
    <3>3. ASSUME NEW g \in Listeners PROVE ~Active(g)'
      <4>1. CASE waits[r] # g
        <5>1. ~Active(g)
          BY <1>w, <3>2, <4>1
        <5>2. session'[g] = session[g]
          BY <1>t, <2>3, <4>1 DEF DrainEnds
        <5>3. QED
          BY <5>1, <5>2 DEF Active
      <4>2. CASE waits[r] = g
        BY <1>t, <2>3, <4>2 DEF DrainEnds, Active, Console
      <4>3. QED
        BY <4>1, <4>2
    <3>4. QED
      BY <3>1, <3>2, <3>3 DEF Quiet
  <2>4. CASE LaunchRun(r) \/ BeginRun(r) \/ QuiesceEnds(r)
    BY <1>t, <1>w, <2>1, <2>4 DEF LaunchRun, BeginRun, QuiesceEnds, Goto, Early
  <2>5. QED
    BY <2>2, <2>3, <2>4
<1>5. QED
  BY <1>3, <1>4, <1>6 DEF Sound

\* The steps of a run that has been stopped: it returns.
LEMMA StoppedSound ==
  ASSUME TypeOK, Sound, NEW r \in Runs, ~Busy(r), BeginRun(r) \/ QuiesceEnds(r)
  PROVE  Sound'
<1>1. /\ ~live[r] /\ pc[r] \in {"begin", "quiesce"}
      /\ \E there \in {"quiesce", "ending"} : pc' = [pc EXCEPT ![r] = there]
      /\ UNCHANGED <<state, recorded, cloud, up, session, device, image, stop>>
      /\ UNCHANGED <<launch, live, waits, copy>>
  BY DEF Busy, BeginRun, QuiesceEnds, Goto, given, storeVars, receiverVars, target, untouched,
         others, handlers
<1>2. \A q \in Runs : q # r => pc'[q] = pc[q]
  BY <1>1 DEF TypeOK
<1>3. pc'[r] \in {"quiesce", "ending"}
  BY <1>1 DEF TypeOK
<1>4. \A q \in Runs : (Busy(q)' <=> Busy(q)) /\ (Busy(q) => pc'[q] = pc[q])
  BY <1>1, <1>2, <1>3 DEF Busy
<1>5. Alone' /\ Quiet' /\ Stopped'
  BY <1>1, <1>2, <1>3, <1>4 DEF Sound, Alone, Quiet, Active, Stopped, Stopping
<1>6. Unmixed' /\ Kept'
  BY <1>1, <1>2, <1>3 DEF Sound, Unmixed, Kept, Has
<1>7. QED
  BY <1>5, <1>6 DEF Sound

\* The steps from the conversion on.
LEMMA SoundLate ==
  ASSUME TypeOK, TypeOK', Fresh, Console, Sound, ~Gone, NEW r \in Runs, pc[r] \in Late, RunStep(r)
  PROVE  Sound'
<1>t. /\ pc \in [Runs -> RunPcs] /\ copy \in [Runs -> Devices]
      /\ recorded \subseteq Resources /\ cloud \subseteq Resources
  BY DEF TypeOK
<1>b. Busy(r)
  BY DEF Late, Early, Busy
<1>w. /\ state = "migrating" /\ live[r] /\ state # "removed"
      /\ \A q \in Runs : q # r => pc[q] \in Aside /\ ~Busy(q)
      /\ ~Applying /\ (pc[r] # "converting" => ~Converting)
  BY <1>b, WhileBusy
<1>u. /\ device # "mixed" /\ image # "mixed" /\ \A q \in Runs : copy[q] # "mixed"
      /\ pc[r] = "converting" => device = "partial"
      /\ pc[r] = "park" => device = "converted"
  BY DEF Sound, Unmixed
<1>k. /\ pc[r] \in {"create", "created", "boot", "finish"} => Has("clone")
      /\ pc[r] = "boot" \/ (pc[r] = "finish" /\ launch[r]) => Has("instance")
  BY DEF Sound, Kept
<1>x. UNCHANGED stop
  BY RunKeepsOthers DEF others, handlers
<1>n. ~LaunchRun(r) \/ pc[r] = "resuming"
  BY DEF LaunchRun, Late, Early
<1>o. ~Accept(r) /\ ~BeginRun(r) /\ ~QuiesceEnds(r) /\ ~DrainBegins(r) /\ ~DrainEnds(r) /\ ~RunReturns(r)
  BY DEF Accept, BeginRun, QuiesceEnds, DrainBegins, DrainEnds, RunReturns, Late, Early
<1> USE DEF storeVars, receiverVars, target, others, handlers, untouched, given
\* Plain steps.
<1>1. ASSUME NEW there, there \notin {"converting", "park", "create", "created", "boot", "finish"},
             pc' = [pc EXCEPT ![r] = there], UNCHANGED <<live, state, up, session, device, image, copy>>
      PROVE  Sound'
  <2>1. Unmixed' /\ Kept'
    BY <1>b, <1>w, <1>1, UnmixedPlain, KeptPlain
  <2>2. QED
    BY <1>1, <2>1, <1>x, LateSound
<1>2. ASSUME RunFails(r), UNCHANGED <<up, session, device, image>> PROVE Sound'
  BY <1>2, <1>x, FailsSound
<1>3. CASE LaunchRun(r)
  BY <1>n, <1>1, <1>3 DEF LaunchRun, Goto
<1>4. CASE ConvertBegins(r)
  <2>1. CASE Goto(r, "clean") /\ UNCHANGED device
    BY <1>1, <1>4, <2>1 DEF ConvertBegins, Goto
  <2>2. CASE Goto(r, "converting") /\ device' = "partial"
    <3>1. pc' = [pc EXCEPT ![r] = "converting"] /\ UNCHANGED <<live, state, up, session, image, copy>>
      BY <1>4, <2>2 DEF ConvertBegins, Goto
    <3>2. \A q \in Runs : pc'[q] # "park"
      BY <1>t, <1>w, <3>1
    <3>3. Unmixed'
      BY <1>u, <1>w, <2>2, <3>1, <3>2 DEF Unmixed
    <3>4. Kept'
      BY <1>b, <1>w, <3>1, KeptPlain
    <3>5. QED
      BY <3>1, <3>3, <3>4, <1>x, LateSound
  <2>3. QED
    BY <1>u, <1>w, <1>4, <2>1, <2>2 DEF ConvertBegins
<1>5. CASE ConvertEnds(r)
  <2>1. CASE RunFails(r) /\ UNCHANGED device
    BY <1>2, <1>5, <2>1 DEF ConvertEnds
  <2>2. CASE ~(RunFails(r) /\ UNCHANGED device)
    <3>1. /\ UNCHANGED <<live, state, up, session, image, copy>>
          /\ device' \in {device, "converted"} /\ pc[r] = "converting"
          /\ \/ pc' = [pc EXCEPT ![r] = "clean"]
             \/ pc' = [pc EXCEPT ![r] = "park"] /\ device' = "converted"
      BY <1>u, <1>5, <2>2 DEF ConvertEnds, Goto
    <3>2. \A q \in Runs : pc'[q] # "converting" /\ (pc'[q] = "park" => device' = "converted")
      BY <1>t, <1>w, <3>1
    <3>3. Unmixed'
      BY <1>u, <1>w, <3>1, <3>2 DEF Unmixed
    <3>4. Kept'
      BY <1>b, <1>w, <3>1, KeptPlain
    <3>5. QED
      BY <3>1, <3>3, <3>4, <1>x, LateSound
  <2>3. QED
    BY <2>1, <2>2
<1>6. CASE Park(r)
  <2>1. /\ pc' = [pc EXCEPT ![r] = "ending"] /\ state' = "awaiting_cutover" /\ device = "converted"
        /\ UNCHANGED <<live, up, session, device, image, copy>>
    BY <1>u, <1>w, <1>6 DEF Park, SetState, Row, Goto
  <2>2. \A q \in Runs : pc'[q] \notin {"converting", "park"}
    BY <1>t, <1>w, <2>1
  <2>3. Unmixed'
    BY <1>u, <2>1, <2>2 DEF Unmixed
  <2>4. Kept'
    BY <1>b, <2>1, KeptPlain
  <2>5. QED
    BY <2>1, <2>3, <2>4, <1>x, LateSound
<1>7. CASE CleanBegins(r)
  BY <1>1, <1>7 DEF CleanBegins, Goto
<1>8. CASE CleanEnds(r)
  BY <1>1, <1>8 DEF CleanEnds
<1>9. CASE CloneVolume(r)
  <2>1. CASE RunFails(r)
    BY <1>2, <1>9, <2>1 DEF CloneVolume
  <2>2. CASE ~RunFails(r)
    <3>1. /\ pc' = [pc EXCEPT ![r] = "cloned"] /\ UNCHANGED <<live, state, up, session, device, image>>
          /\ copy' = [copy EXCEPT ![r] = device]
      BY <1>w, <1>9, <2>2 DEF CloneVolume
    <3>2. \A q \in Runs : copy'[q] # "mixed" /\ pc'[q] \notin {"converting", "park"}
      BY <1>t, <1>u, <1>w, <3>1
    <3>3. Unmixed'
      BY <1>u, <1>w, <3>1, <3>2 DEF Unmixed
    <3>4. Kept'
      BY <1>b, <1>w, <3>1, KeptPlain
    <3>5. QED
      BY <3>1, <3>3, <3>4, <1>x, LateSound
  <2>3. QED
    BY <2>1, <2>2
<1>10. CASE RecordClone(r)
  <2>1. CASE RunFails(r) /\ UNCHANGED image
    BY <1>2, <1>10, <2>1 DEF RecordClone
  <2>2. CASE ~(RunFails(r) /\ UNCHANGED image)
    <3>1. /\ \E there \in {"create", "finish"} :
                pc' = [pc EXCEPT ![r] = there] /\ (there = "finish" => ~launch'[r])
          /\ UNCHANGED <<live, state, up, session, device, copy, cloud>>
          /\ recorded' = {<<"clone", r>>} /\ image' = copy[r]
      BY <1>w, <1>10, <2>2 DEF RecordClone, Row, Goto
    <3>2. <<"clone", r>> \in cloud'
      BY <1>10, <3>1 DEF RecordClone, Fresh
    <3>3. Has("clone")'
      BY <3>1, <3>2 DEF Has
    <3>4. Kept'
      BY <1>b, <1>w, <3>1, <3>3, KeptOn
    <3>5. \A q \in Runs : pc'[q] \notin {"converting", "park"}
      BY <1>t, <1>w, <3>1
    <3>6. Unmixed'
      BY <1>u, <1>w, <3>1, <3>5 DEF Unmixed
    <3>7. QED
      BY <3>1, <3>4, <3>6, <1>x, LateSound
  <2>3. QED
    BY <2>1, <2>2
\* From the clone to the launch.
<1>11. ASSUME NEW there, there \in {"created", "boot", "finish"},
              pc' = [pc EXCEPT ![r] = there], UNCHANGED <<live, state, up, session, device, image, copy>>,
              Has("clone")', there = "boot" \/ (there = "finish" /\ launch'[r]) => Has("instance")'
       PROVE  Sound'
  <2>1. Unmixed'
    BY <1>b, <1>w, <1>11, UnmixedPlain
  <2>2. Kept'
    BY <1>b, <1>w, <1>11, KeptOn
  <2>3. QED
    BY <1>11, <2>1, <2>2, <1>x, LateSound
<1>12. CASE CreateInstance(r)
  <2>1. CASE RunFails(r)
    BY <1>2, <1>12, <2>1 DEF CreateInstance
  <2>2. CASE Goto(r, "created") /\ cloud \subseteq cloud' /\ UNCHANGED state
    <3>1. Has("clone") /\ UNCHANGED recorded
      BY <1>k, <1>12 DEF CreateInstance
    <3>2. Has("clone")'
      BY <2>2, <3>1 DEF Has
    <3>3. pc' = [pc EXCEPT ![r] = "created"] /\ UNCHANGED <<live, state, up, session, device, image, copy>>
      BY <1>12, <2>2 DEF CreateInstance, Goto
    <3>4. QED
      BY <1>11, <3>2, <3>3
  <2>3. QED
    BY <1>12, <2>1, <2>2 DEF CreateInstance
<1>13. CASE RecordInstance(r)
  <2>1. /\ pc' = [pc EXCEPT ![r] = "boot"] /\ UNCHANGED <<live, state, up, session, device, image, copy, cloud>>
        /\ recorded' = ClonesOf(recorded) \cup {<<"instance", r>>}
    BY <1>w, <1>13 DEF RecordInstance, Row, Goto
  <2>2. Has("clone") /\ <<"instance", r>> \in cloud
    BY <1>k, <1>13 DEF RecordInstance, Fresh
  <2>3. Has("clone")'
    BY <1>t, <2>1, <2>2, Clones DEF Has
  <2>4. Has("instance")'
    BY <2>1, <2>2 DEF Has
  <2>5. QED
    BY <1>11, <2>1, <2>3, <2>4
<1>14. CASE BootInstance(r)
  <2>1. CASE RunFails(r)
    BY <1>2, <1>14, <2>1 DEF BootInstance
  <2>2. CASE Goto(r, "finish") /\ UNCHANGED state
    BY <1>k, <1>11, <1>14, <2>2 DEF BootInstance, Goto, Has
  <2>3. QED
    BY <1>14, <2>1, <2>2 DEF BootInstance
<1>15. CASE Finish(r)
  <2>1. /\ pc' = [pc EXCEPT ![r] = "ending"] /\ UNCHANGED <<live, up, session, device, image, copy, recorded, cloud>>
        /\ state' = IF launch[r] THEN "launched" ELSE "image_ready"
    BY <1>w, <1>15 DEF Finish, SetState, Row, Goto
  <2>2. Unmixed'
    BY <1>b, <2>1, UnmixedPlain
  <2>3. launch[r] => Has("clone")' /\ Has("instance")'
    BY <1>k, <1>15, <2>1 DEF Finish, Has
  <2>4. \A q \in Runs : pc'[q] \notin {"create", "created", "boot", "finish"}
    BY <1>t, <1>w, <2>1
  <2>5. Kept'
    BY <2>1, <2>3, <2>4 DEF Kept
  <2>6. QED
    BY <2>1, <2>2, <2>5, <1>x, LateSound
<1>16. QED
  BY <1>o, <1>3, <1>4, <1>5, <1>6, <1>7, <1>8, <1>9, <1>10, <1>12, <1>13, <1>14, <1>15 DEF RunStep

LEMMA SoundRun ==
  ASSUME TypeOK, TypeOK', Fresh, Console, Sound, ~Gone, NEW r \in Runs, RunStep(r)
  PROVE  Sound'
<1>1. CASE LaunchRun(r) \/ BeginRun(r) \/ QuiesceEnds(r) \/ DrainBegins(r) \/ DrainEnds(r)
  <2>1. CASE Busy(r)
    BY <1>1, <2>1, SoundFreeze
  <2>2. CASE ~Busy(r)
    <3>1. BeginRun(r) \/ QuiesceEnds(r)
      BY <1>1, <2>2 DEF LaunchRun, DrainBegins, DrainEnds, Busy
    <3>2. QED
      BY <2>2, <3>1, StoppedSound
  <2>3. QED
    BY <2>1, <2>2
<1>2. CASE RunReturns(r)
  <2>1. /\ pc[r] = "ending" /\ Retire({r})
        /\ UNCHANGED <<state, recorded, cloud, up, session, device, image, stop>>
    BY <1>2 DEF RunReturns, storeVars, receiverVars, untouched, target, others, handlers
  <2>2. \A q \in Runs : \/ q = r /\ pc'[q] = "done" /\ copy'[q] = "replica"
                        \/ /\ q # r /\ pc'[q] = pc[q] /\ waits'[q] = waits[q]
                           /\ copy'[q] = copy[q] /\ launch'[q] = launch[q]
    BY <2>1 DEF Retire, TypeOK
  <2>3. \A q \in Runs : q # r => (live'[q] <=> live[q])
    BY <2>1 DEF Retire
  <2>4. Alone'
    BY <2>1, <2>2, <2>3 DEF Sound, Alone, Busy
  <2>5. Quiet'
    <3>1. \A q \in Runs : Busy(q) => Busy(q)' /\ pc'[q] = pc[q]
      BY <2>1, <2>2, <2>3 DEF Busy
    <3>2. QED
      BY <2>1, <2>2, <3>1 DEF Sound, Quiet, Active, Stopping
  <2>6. Unmixed'
    BY <2>1, <2>2 DEF Sound, Unmixed
  <2>7. Kept'
    BY <2>1, <2>2 DEF Sound, Kept, Has
  <2>9. Stopped'
    BY <2>1, <2>2, <2>3 DEF Sound, Stopped, Stopping, Busy
  <2>8. QED
    BY <2>4, <2>5, <2>6, <2>7, <2>9 DEF Sound
<1>5. CASE Accept(r)
  BY <1>5, AcceptSound
<1>3. CASE ~Accept(r) /\ ~RunReturns(r) /\ ~(LaunchRun(r) \/ BeginRun(r) \/ QuiesceEnds(r) \/ DrainBegins(r) \/ DrainEnds(r))
  <2>1. pc[r] \in Late
    BY <1>3 DEF RunStep, ConvertBegins, ConvertEnds, Park, CleanBegins, CleanEnds, CloneVolume,
         RecordClone, CreateInstance, RecordInstance, BootInstance, Finish, Late, Early, RunPcs
  <2>2. QED
    BY <2>1, SoundLate
<1>4. QED
  BY <1>1, <1>2, <1>3, <1>5

LEMMA SoundReceivers ==
  ASSUME TypeOK, TypeOK', Sound, ~Gone, ReceiverStep \/ Restart
  PROVE  Sound'
<1>s. session \in [Listeners -> {"unused", "idle", "stream", "apply"}]
  BY DEF TypeOK
<1> USE DEF storeVars, target, untouched, others, handlers
<1>1. ASSUME UNCHANGED <<run, state, recorded, cloud, up, device, image, stop>>,
             \A g \in Listeners : Active(g)' => Active(g) \/ up = g
      PROVE  Sound'
  <2>1. Alone' /\ Unmixed' /\ Kept'
    BY <1>1 DEF Sound, Alone, Busy, Unmixed, Kept, Has, run, given
  <2>4. Stopped'
    BY <1>1 DEF Sound, Stopped, Stopping, Busy, run, given
  <2>2. Quiet'
    <3>1. \A g \in Listeners : Active(g)' => up' = g \/ \E r \in Runs : pc'[r] = "draining" /\ waits'[r] = g
      BY <1>1 DEF Sound, Quiet, run, given
    <3>2. \A g \in Listeners : Active(g)' => Active(g) \/ up # 0
      BY <1>1
    <3>3. QED
      BY <1>1, <3>1, <3>2 DEF Sound, Quiet, Stopping, Busy, run, given
  <2>3. QED
    BY <2>1, <2>2, <2>4 DEF Sound
<1>2. ASSUME NEW g \in Listeners, SessionBegins(g) PROVE Sound'
  BY <1>s, <1>1, <1>2 DEF SessionBegins, Active
<1>3. ASSUME NEW g \in Listeners, SessionApplies(g) PROVE Sound'
  <2>1. Active(g) /\ device = "replica"
    BY <1>3 DEF SessionApplies, Active, Sound, Quiet
  <2>2. QED
    BY <1>s, <1>1, <1>3, <2>1 DEF SessionApplies, Active
<1>4. ASSUME NEW g \in Listeners, SessionEnds(g) PROVE Sound'
  BY <1>s, <1>1, <1>4 DEF SessionEnds, Active
<1>5. CASE Restart
  <2>1. /\ UNCHANGED <<state, recorded, cloud, device, image>>
        /\ Retire({r \in Runs : Running(r)})
        /\ up' # 0 => state = "replicating"
    BY <1>5 DEF Restart
  <2>2. \A g \in Listeners : ~Active(g)'
    BY <1>5 DEF Restart, Active
  <2>3. \A q \in Runs : pc'[q] \in {"unused", "done"} /\ copy'[q] \in {"replica", copy[q]}
    BY <2>1 DEF Retire, Running
  <2>4. Alone'
    BY <2>3 DEF Alone, Busy
  <2>5. Unmixed'
    BY <2>1, <2>3 DEF Sound, Unmixed
  <2>6. Quiet'
    BY <2>1, <2>2 DEF Quiet, Sound, Unmixed
  <2>7. Kept'
    BY <2>1, <2>3 DEF Sound, Kept, Has
  <2>9. Stopped'
    BY <1>5 DEF Restart, Stopped, Stopping
  <2>8. QED
    BY <2>4, <2>5, <2>6, <2>7, <2>9 DEF Sound
<1>6. QED
  BY <1>2, <1>3, <1>4, <1>5 DEF ReceiverStep

LEMMA AlwaysConsole ==
  ASSUME ConsoleOnly, ~MayOverrun, ~MayStopLate, ~MayRace
  PROVE  Spec => []ConsoleInv
<1>c. Console
  BY DEF Console
<1>1. Init => ConsoleInv
  <2> SUFFICES ASSUME Init PROVE ConsoleInv
    OBVIOUS
  <2>1. Alone /\ Kept
    BY DEF Init, Alone, Busy, Kept
  <2>2. Quiet /\ Unmixed
    BY DEF Init, Quiet, Active, Unmixed
  <2>3. Stopped
    BY DEF Init, Stopped, Stopping
  <2>4. QED
    BY <2>1, <2>2, <2>3 DEF ConsoleInv, Sound
<1>2. TypeOK /\ TypeOK' /\ Fresh /\ ConsoleInv /\ [Next]_vars => ConsoleInv'
  <2> SUFFICES ASSUME TypeOK, TypeOK', Fresh, ConsoleInv, [Next]_vars PROVE ConsoleInv'
    OBVIOUS
  <2>1. CASE UNCHANGED vars
    <3>1. Gone => Gone'
      BY <2>1 DEF Gone, Deleting, vars, storeVars, others, handlers
    <3>2. Sound => Sound'
      <4>1. Alone => Alone'
        BY <2>1 DEF Alone, Busy, vars, storeVars, run, given
      <4>2. Quiet => Quiet'
        BY <2>1 DEF Quiet, Active, Busy, Stopping, vars, storeVars, run, given, receiverVars,
                    target, others, handlers
      <4>3. (Unmixed => Unmixed') /\ (Kept => Kept')
        BY <2>1 DEF Unmixed, Kept, Has, vars, storeVars, run, given, target
      <4>4. Stopped => Stopped'
        BY <2>1 DEF Stopped, Stopping, Busy, vars, storeVars, run, given, target, others, handlers
      <4>5. QED
        BY <4>1, <4>2, <4>3, <4>4 DEF Sound
    <3>3. QED
      BY <3>1, <3>2 DEF ConsoleInv
  <2>2. CASE Next
    <3>1. Gone => Gone'
      BY <2>2, GoneStays
    <3>2. ~Gone => Gone' \/ Sound'
      BY <1>c, <2>2, <3>1, SoundOperator, SoundRun, SoundReceivers DEF ConsoleInv, Next
    <3>3. QED
      BY <3>1, <3>2 DEF ConsoleInv
  <2>3. QED
    BY <2>1, <2>2
<1>3. QED
  BY <1>1, <1>2, CutoverTypeCorrect, AlwaysFresh, PTL DEF Spec

\* When the console says that the source may be powered off, nothing is received and the
\* target is converted: for any number of runs, stops, restarts and deletions, with the
\* console's buttons, when no command writes over what another has done since it looked, no
\* Stop comes too late to put everything back and no drain gives up on a pass it is applying.
THEOREM CutoverSafeToPowerOff ==
  ASSUME ConsoleOnly, ~MayOverrun, ~MayStopLate, ~MayRace
  PROVE  Spec => []SafeToPowerOff
<1>1. ConsoleInv => SafeToPowerOff
  <2> SUFFICES ASSUME ConsoleInv, state = "awaiting_cutover", ~Deleting
               PROVE  up = 0 /\ (\A g \in Listeners : ~Active(g)) /\ device = "converted"
    BY DEF SafeToPowerOff, Active
  <2>1. Sound
    BY DEF ConsoleInv, Gone
  <2>2. QED
    BY <2>1, WhileIdle DEF Sound, Unmixed
<1>2. QED
  BY <1>1, AlwaysConsole, PTL

\* What a finished cutover cloned is one pass and its conversion, under the same assumptions.
THEOREM CutoverClonesOnePass ==
  ASSUME ConsoleOnly, ~MayOverrun, ~MayStopLate, ~MayRace
  PROVE  Spec => []ClonesOnePass
<1>1. ConsoleInv => ClonesOnePass
  BY DEF ConsoleInv, Gone, Sound, Unmixed, ClonesOnePass
<1>2. QED
  BY <1>1, AlwaysConsole, PTL

\* What is shown as launched has its instance and its clone, under the same assumptions.
THEOREM CutoverLaunchedHasInstance ==
  ASSUME ConsoleOnly, ~MayOverrun, ~MayStopLate, ~MayRace
  PROVE  Spec => []LaunchedHasInstance
<1>1. ConsoleInv => LaunchedHasInstance
  BY DEF ConsoleInv, Gone, Sound, Kept, Has, LaunchedHasInstance
<1>2. QED
  BY <1>1, AlwaysConsole, PTL
=============================================================================
