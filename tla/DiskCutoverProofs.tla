------------------------- MODULE DiskCutoverProofs -------------------------
(***************************************************************************)
(* Theorems about DiskCutover, for any disks, runs, stops and restarts: its*)
(* type invariant and that no token outlives its run; and, as long as no   *)
(* cutover is started before the one that was stopped has returned, that a *)
(* launched instance holds the whole image, that the command shown is      *)
(* good, and that everything made is accounted for.                        *)
(***************************************************************************)
EXTENDS DiskCutover, TLAPS

RunRecords == [pc : RunPcs, live : BOOLEAN, seen : Rows, todo : SUBSET DataDisks, token : BOOLEAN]
Guests     == [pc : {"idle", "script", "copy"}, token : Runs \cup {0}, torn : BOOLEAN]
Tokens     == [token : Runs \cup {0}, cmd : Runs \cup {0}]
Budgets    == [stops : 0 .. MaxStops, restarts : 0 .. MaxRestarts]

(***************************************************************************)
(* Type correctness.                                                       *)
(***************************************************************************)

\* Another run, or nothing, in a row.
LEMMA RowTypes ==
    /\ Empty \in Rows
    /\ \A o \in Rows, r \in Runs : [o EXCEPT !.inst = r] \in Rows
    /\ \A o \in Rows, r \in Runs, d \in DataDisks : [o EXCEPT !.clone[d] = r] \in Rows
    /\ \A o \in Rows : o.inst \in Runs \cup {0} /\ o.clone \in [DataDisks -> Runs \cup {0}]
<1>1. Empty \in Rows
  BY DEF Empty, Rows
<1>2. \A o \in Rows, r \in Runs : [o EXCEPT !.inst = r] \in Rows
  BY DEF Rows
<1>3. \A o \in Rows, r \in Runs, d \in DataDisks : [o EXCEPT !.clone[d] = r] \in Rows
  BY DEF Rows
<1>4. \A o \in Rows : o.inst \in Runs \cup {0} /\ o.clone \in [DataDisks -> Runs \cup {0}]
  BY DEF Rows
<1>5. QED
  BY <1>1, <1>2, <1>3, <1>4

LEMMA RunTypes ==
    /\ Unused \in RunRecords /\ Done \in RunRecords
    /\ Unused.pc = "unused" /\ Done.pc = "done"
<1>1. Unused \in RunRecords
  BY RowTypes DEF Unused, RunRecords, RunPcs
<1>2. QED
  BY <1>1 DEF Done, Unused, RunRecords, RunPcs

\* Run r is at pc now; nothing else of it, and no other run, is changed.
Moved(r, pc) ==
    /\ run' \in [Runs -> RunRecords]
    /\ run'[r].pc = pc
    /\ run'[r].live = run[r].live /\ run'[r].seen = run[r].seen
    /\ run'[r].todo = run[r].todo /\ run'[r].token = run[r].token
    /\ \A q \in Runs \ {r} : run'[q] = run[q]

LEMMA GotoMoves ==
    ASSUME run \in [Runs -> RunRecords], NEW r \in Runs, NEW pc \in RunPcs, Goto(r, pc)
    PROVE  Moved(r, pc)
<1>1. run' = [run EXCEPT ![r] = [run[r] EXCEPT !.pc = pc]]
  BY DEF Goto
<1>2. run[r] \in RunRecords
  OBVIOUS
<1>3. [run[r] EXCEPT !.pc = pc] \in RunRecords
  BY <1>2 DEF RunRecords
<1>4. run'[r] = [run[r] EXCEPT !.pc = pc] /\ \A q \in Runs \ {r} : run'[q] = run[q]
  BY <1>1
<1>5. run' \in [Runs -> RunRecords]
  BY <1>1, <1>3
<1>6. QED
  BY <1>2, <1>4, <1>5 DEF Moved, RunRecords

LEMMA FailMoves ==
    ASSUME TypeOK, NEW r \in Runs, Fails(r)
    PROVE  /\ Moved(r, "ending")
           /\ state' \in {"replicating", "migrating", "launched", "failed"}
           /\ state' = "failed" \/ (~run[r].live /\ state' = state)
<1>1. run \in [Runs -> RunRecords] /\ "ending" \in RunPcs
  BY DEF TypeOK, RunRecords, RunPcs
<1>2. Goto(r, "ending") /\ (state' = "failed" \/ (~run[r].live /\ state' = state))
  BY DEF Fails
<1>3. QED
  BY <1>1, <1>2, GotoMoves DEF TypeOK

\* The type invariant with its sets named, now and in the next state.
LEMMA Typed ==
    TypeOK <=>
        /\ state \in {"replicating", "migrating", "launched", "failed"} /\ row \in Rows
        /\ run \in [Runs -> RunRecords] /\ inst \in [Runs -> {"none", "off", "rescue", "running"}]
        /\ watched \in [Runs -> BOOLEAN]
        /\ disk \in [Runs -> {"none", "blank", "partial", "cut short", "whole"}]
        /\ clones \subseteq DataDisks \X Runs /\ guest \in [Runs -> Guests]
        /\ register \subseteq Runs /\ card \in Runs \cup {0} /\ saved \in Tokens
        /\ late \in [Runs -> 0 .. 2] /\ budget \in Budgets
        /\ lost \subseteq Artifacts /\ stranded \in Runs \cup {0} /\ restored \subseteq Runs
BY DEF TypeOK, RunRecords, Guests, Tokens, Budgets

LEMMA TypedNext ==
    ASSUME /\ state' \in {"replicating", "migrating", "launched", "failed"} /\ row' \in Rows
           /\ run' \in [Runs -> RunRecords]
           /\ inst' \in [Runs -> {"none", "off", "rescue", "running"}]
           /\ watched' \in [Runs -> BOOLEAN]
           /\ disk' \in [Runs -> {"none", "blank", "partial", "cut short", "whole"}]
           /\ clones' \subseteq DataDisks \X Runs /\ guest' \in [Runs -> Guests]
           /\ register' \subseteq Runs /\ card' \in Runs \cup {0} /\ saved' \in Tokens
           /\ late' \in [Runs -> 0 .. 2] /\ budget' \in Budgets
           /\ lost' \subseteq Artifacts /\ stranded' \in Runs \cup {0} /\ restored' \subseteq Runs
    PROVE  TypeOK'
BY DEF TypeOK, RunRecords, Guests, Tokens, Budgets

\* What each step of a run does, and that it keeps the types.
LEMMA StartStep ==
    ASSUME TypeOK, NEW r \in Runs, StartMigration(r)
    PROVE  /\ TypeOK'
           /\ At(r, "unused") /\ state # "launched" /\ state' = "migrating" /\ stranded' = 0
           /\ MayLag \/ \A q \in Runs : ~Running(q)
           /\ run'[r].pc = "begin" /\ run'[r].live /\ run'[r].seen = row
           /\ run'[r].todo = DataDisks
           /\ \A q \in Runs \ {r} : run'[q] = run[q]
           /\ UNCHANGED <<row, cloud, guest, stream, late, budget, lost, restored>>
<1>t. run \in [Runs -> RunRecords] /\ row \in Rows
  BY Typed
<1> DEFINE new == [Unused EXCEPT !.pc = "begin", !.live = TRUE, !.seen = row, !.todo = DataDisks]
<1>1. run' = [run EXCEPT ![r] = new]
  BY DEF StartMigration
<1>2. new \in RunRecords /\ new.pc = "begin" /\ new.live /\ new.seen = row /\ new.todo = DataDisks
  BY <1>t, RunTypes DEF RunRecords, RunPcs
<1>3. run' \in [Runs -> RunRecords] /\ run'[r] = new /\ \A q \in Runs \ {r} : run'[q] = run[q]
  BY <1>t, <1>1, <1>2
<1>4. /\ At(r, "unused") /\ state # "launched" /\ state' = "migrating" /\ stranded' = 0
      /\ MayLag \/ \A q \in Runs : ~Running(q)
      /\ UNCHANGED <<row, cloud, guest, stream, late, budget, lost, restored>>
  BY DEF StartMigration
<1>5. TypeOK'
  BY <1>3, <1>4, Typed, TypedNext DEF cloud, stream
<1>6. QED
  BY <1>2, <1>3, <1>4, <1>5

LEMMA StopStep ==
    ASSUME TypeOK, StopMigration
    PROVE  /\ TypeOK'
           /\ state' = "replicating" /\ stranded' = 0
           /\ \A q \in Runs :
                 /\ run'[q].pc = run[q].pc /\ ~run'[q].live /\ run'[q].seen = run[q].seen
                 /\ run'[q].todo = run[q].todo /\ run'[q].token = run[q].token
                 /\ guest'[q].pc = guest[q].pc
           /\ UNCHANGED <<row, cloud, stream, late, lost, restored, budget.restarts>>
<1>t. run \in [Runs -> RunRecords] /\ guest \in [Runs -> Guests] /\ budget \in Budgets
  BY Typed
<1>1. ASSUME NEW q \in Runs
      PROVE  /\ run'[q] \in RunRecords
             /\ run'[q].pc = run[q].pc /\ ~run'[q].live /\ run'[q].seen = run[q].seen
             /\ run'[q].todo = run[q].todo /\ run'[q].token = run[q].token
  <2>1. run'[q] = [run[q] EXCEPT !.live = FALSE] /\ run[q] \in RunRecords
    BY <1>t DEF StopMigration
  <2>2. QED
    BY <2>1 DEF RunRecords
<1>2. ASSUME NEW q \in Runs PROVE guest'[q] \in Guests /\ guest'[q].pc = guest[q].pc
  <2>1. guest'[q] = [guest[q] EXCEPT !.torn = (guest[q].pc = "copy")] /\ guest[q] \in Guests
    BY <1>t DEF StopMigration
  <2>2. QED
    BY <2>1 DEF Guests
<1>3. run' \in [Runs -> RunRecords] /\ guest' \in [Runs -> Guests]
  <2>1. /\ run' = [r \in Runs |-> [run[r] EXCEPT !.live = FALSE]]
        /\ guest' = [r \in Runs |-> [guest[r] EXCEPT !.torn = guest[r].pc = "copy"]]
    BY DEF StopMigration
  <2>2. (\A q \in Runs : run'[q] \in RunRecords) /\ \A q \in Runs : guest'[q] \in Guests
    BY <1>1, <1>2
  <2>3. QED
    BY <2>1, <2>2
<1>4. budget' \in Budgets /\ budget'.restarts = budget.restarts
  BY <1>t, BoundAssumption DEF StopMigration, Budgets
<1>5. /\ state' = "replicating" /\ stranded' = 0
      /\ UNCHANGED <<row, cloud, stream, late, lost, restored>>
  BY DEF StopMigration
<1>6. TypeOK'
  BY <1>3, <1>4, <1>5, Typed, TypedNext DEF cloud, stream
<1>7. QED
  BY <1>1, <1>2, <1>4, <1>5, <1>6

\* What is deleted is what the row the run was given points at; what is kept is lost.
LEMMA CleanStep ==
    ASSUME TypeOK, NEW r \in Runs, CleansUp(r)
    PROVE  /\ TypeOK'
           /\ At(r, "begin") /\ run[r].live
           /\ run'[r].pc = "create" /\ run'[r].live = run[r].live
           /\ run'[r].todo = run[r].todo /\ run'[r].token = run[r].token
           /\ \A q \in Runs \ {r} : run'[q] = run[q]
           /\ row'.inst = 0
           /\ \A d \in DataDisks :
                 row'.clone[d] = IF run[r].seen.clone[d] # 0 THEN 0 ELSE row.clone[d]
           /\ \A q \in Runs :
                 \/ inst'[q] = "none" /\ guest'[q].pc = "idle" /\ q = run[r].seen.inst
                 \/ /\ inst'[q] = inst[q] /\ guest'[q] = guest[q] /\ disk'[q] = disk[q]
                    /\ q = run[r].seen.inst /\ inst[q] # "none" => <<"instance", q>> \in lost'
           /\ clones' \subseteq clones /\ lost \subseteq lost'
           /\ \A x \in clones :
                 IF run[r].seen.clone[x[1]] = x[2] THEN x \in clones' => x \in lost'
                 ELSE x \in clones'
           /\ UNCHANGED <<state, watched, stream, late, budget, stranded, restored>>
<1>t. /\ run \in [Runs -> RunRecords] /\ row \in Rows /\ lost \subseteq Artifacts
      /\ inst \in [Runs -> {"none", "off", "rescue", "running"}] /\ guest \in [Runs -> Guests]
      /\ disk \in [Runs -> {"none", "blank", "partial", "cut short", "whole"}]
      /\ clones \subseteq DataDisks \X Runs
  BY Typed
<1>s. run[r].seen \in Rows /\ run[r] \in RunRecords
  BY <1>t DEF RunRecords
<1>1. PICK kept \in SUBSET Old(r) :
          LET gone == Old(r) \ kept
          IN /\ inst' = [q \in Runs |-> IF <<"instance", q>> \in gone THEN "none" ELSE inst[q]]
             /\ guest' = [q \in Runs |-> IF <<"instance", q>> \in gone THEN Idle ELSE guest[q]]
             /\ disk' = [q \in Runs |-> IF <<"instance", q>> \in gone THEN "none" ELSE disk[q]]
             /\ clones' = clones \ gone
             /\ lost' = lost \cup {x \in kept : x[1] = "instance" => inst[x[2]] # "none"}
  BY DEF CleansUp
<1> DEFINE gone == Old(r) \ kept
<1>2. \A q \in Runs : <<"instance", q>> \in Old(r) <=> q = run[r].seen.inst
  BY <1>s, RowTypes, DiskAssumption DEF Old, Runs
<1>3. \A d \in DataDisks, q \in Runs : <<d, q>> \in Old(r) <=> q = run[r].seen.clone[d]
  BY <1>s, RowTypes, DiskAssumption DEF Old, Runs
<1>4. Old(r) \subseteq Artifacts
  BY <1>s, RowTypes DEF Old, Artifacts
<1>5. Idle \in Guests /\ Idle.pc = "idle"
  BY DEF Idle, Guests
<1>6. /\ inst' \in [Runs -> {"none", "off", "rescue", "running"}] /\ guest' \in [Runs -> Guests]
      /\ disk' \in [Runs -> {"none", "blank", "partial", "cut short", "whole"}]
      /\ clones' \subseteq DataDisks \X Runs /\ lost' \subseteq Artifacts
  BY <1>t, <1>1, <1>4, <1>5
<1>7. ASSUME NEW q \in Runs
      PROVE  \/ inst'[q] = "none" /\ guest'[q].pc = "idle" /\ q = run[r].seen.inst
             \/ /\ inst'[q] = inst[q] /\ guest'[q] = guest[q] /\ disk'[q] = disk[q]
                /\ q = run[r].seen.inst /\ inst[q] # "none" => <<"instance", q>> \in lost'
  <2>1. CASE <<"instance", q>> \in gone
    BY <1>1, <1>2, <1>5, <2>1
  <2>2. CASE <<"instance", q>> \notin gone
    <3>1. inst'[q] = inst[q] /\ guest'[q] = guest[q] /\ disk'[q] = disk[q]
      BY <1>1, <2>2
    <3>2. ASSUME q = run[r].seen.inst, inst[q] # "none" PROVE <<"instance", q>> \in lost'
      <4>1. <<"instance", q>> \in kept
        BY <1>2, <2>2, <3>2
      <4>2. QED
        BY <1>1, <3>2, <4>1
    <3>3. QED
      BY <3>1, <3>2
  <2>3. QED
    BY <2>1, <2>2
<1>8. clones' \subseteq clones /\ lost \subseteq lost'
  BY <1>1
<1>9. ASSUME NEW x \in clones
      PROVE  IF run[r].seen.clone[x[1]] = x[2] THEN x \in clones' => x \in lost' ELSE x \in clones'
  <2> x \in DataDisks \X Runs
    BY <1>t
  <2>1. PICK d \in DataDisks, q \in Runs : x = <<d, q>>
    OBVIOUS
  <2>2. x[1] = d /\ x[2] = q /\ d # "instance"
    BY <2>1, DiskAssumption
  <2>3. x \in clones' /\ x \in Old(r) => x \in kept
    BY <1>1
  <2>4. x \in kept => x \in lost'
    BY <1>1, <2>2
  <2>5. QED
    BY <1>1, <1>3, <2>1, <2>2, <2>3, <2>4
<1>10. /\ row' \in Rows /\ row'.inst = 0
       /\ \A d \in DataDisks :
             row'.clone[d] = IF run[r].seen.clone[d] # 0 THEN 0 ELSE row.clone[d]
  <2>1. row' = [inst |-> 0,
                clone |-> [d \in DataDisks |-> IF run[r].seen.clone[d] # 0 THEN 0 ELSE row.clone[d]]]
    BY DEF CleansUp
  <2>2. \A d \in DataDisks : row.clone[d] \in Runs \cup {0}
    BY <1>t, RowTypes
  <2>3. QED
    BY <2>1, <2>2 DEF Rows
<1>11. /\ run' \in [Runs -> RunRecords]
       /\ run'[r].pc = "create" /\ run'[r].live = run[r].live
       /\ run'[r].todo = run[r].todo /\ run'[r].token = run[r].token
       /\ \A q \in Runs \ {r} : run'[q] = run[q]
  <2> DEFINE new == [run[r] EXCEPT !.pc = "create", !.seen = Empty]
  <2>1. run' = [run EXCEPT ![r] = new]
    BY <1>t DEF CleansUp
  <2>2. /\ new \in RunRecords
        /\ new.pc = "create" /\ new.live = run[r].live
        /\ new.todo = run[r].todo /\ new.token = run[r].token
    BY <1>s, RowTypes DEF RunRecords, RunPcs
  <2>3. run'[r] = new /\ \A q \in Runs \ {r} : run'[q] = run[q]
    BY <1>t, <2>1
  <2>4. QED
    BY <1>t, <2>1, <2>2, <2>3
<1>12. /\ At(r, "begin") /\ run[r].live
       /\ UNCHANGED <<state, watched, stream, late, budget, stranded, restored>>
  BY DEF CleansUp
<1>13. TypeOK'
  BY <1>6, <1>10, <1>11, <1>12, Typed, TypedNext DEF stream
<1>14. QED
  BY <1>7, <1>8, <1>9, <1>10, <1>11, <1>12, <1>13

\* A step to the next place, or to the run's end.
LEMMA CreateStep ==
    ASSUME TypeOK, NEW r \in Runs, CreatesInstance(r)
    PROVE  /\ TypeOK'
           /\ At(r, "create")
           /\ \/ /\ Moved(r, "created") /\ state' = state /\ lost' = lost
                 /\ inst' = [inst EXCEPT ![r] = "off"]
              \/ /\ Moved(r, "ending") /\ (state' = "failed" \/ state' = state)
                 /\ \/ inst' = [inst EXCEPT ![r] = "off"] /\ lost' = lost \cup {<<"instance", r>>}
                    \/ inst' = inst /\ lost' = lost
           /\ UNCHANGED <<row, watched, disk, clones, guest, stream, late, budget, stranded, restored>>
<1>t. run \in [Runs -> RunRecords] /\ inst \in [Runs -> {"none", "off", "rescue", "running"}]
      /\ lost \subseteq Artifacts /\ <<"instance", r>> \in Artifacts /\ "created" \in RunPcs
  BY Typed DEF Artifacts, RunPcs
<1>1. /\ At(r, "create")
      /\ UNCHANGED <<row, watched, disk, clones, guest, stream, late, budget, stranded, restored>>
  BY DEF CreatesInstance
<1>2. \/ /\ Goto(r, "created") /\ state' = state /\ lost' = lost
         /\ inst' = [inst EXCEPT ![r] = "off"]
      \/ /\ Fails(r)
         /\ \/ inst' = [inst EXCEPT ![r] = "off"] /\ lost' = lost \cup {<<"instance", r>>}
            \/ inst' = inst /\ lost' = lost
  BY DEF CreatesInstance
<1>3. \/ /\ Moved(r, "created") /\ state' = state /\ lost' = lost
         /\ inst' = [inst EXCEPT ![r] = "off"]
      \/ /\ Moved(r, "ending") /\ (state' = "failed" \/ state' = state)
         /\ state' \in {"replicating", "migrating", "launched", "failed"}
         /\ \/ inst' = [inst EXCEPT ![r] = "off"] /\ lost' = lost \cup {<<"instance", r>>}
            \/ inst' = inst /\ lost' = lost
  <2>1. CASE Goto(r, "created") /\ state' = state /\ lost' = lost /\ inst' = [inst EXCEPT ![r] = "off"]
    BY <1>t, <2>1, GotoMoves
  <2>2. CASE /\ Fails(r)
             /\ \/ inst' = [inst EXCEPT ![r] = "off"] /\ lost' = lost \cup {<<"instance", r>>}
                \/ inst' = inst /\ lost' = lost
    BY <2>2, FailMoves
  <2>3. QED
    BY <1>2, <2>1, <2>2
<1>4. /\ inst' \in [Runs -> {"none", "off", "rescue", "running"}] /\ lost' \subseteq Artifacts
      /\ run' \in [Runs -> RunRecords] /\ state' \in {"replicating", "migrating", "launched", "failed"}
  BY <1>t, <1>3, Typed DEF Moved
<1>5. TypeOK'
  BY <1>1, <1>4, Typed, TypedNext DEF stream
<1>6. QED
  BY <1>1, <1>3, <1>5

LEMMA RecordStep ==
    ASSUME TypeOK, NEW r \in Runs, RecordsInstance(r)
    PROVE  /\ TypeOK'
           /\ At(r, "created")
           /\ \/ /\ Moved(r, "disk") /\ lost' = lost
                 /\ row'.inst = r /\ row'.clone = row.clone
              \/ Moved(r, "ending") /\ row' = row /\ lost' = lost \cup {<<"instance", r>>}
           /\ UNCHANGED <<state, inst, disk, clones, guest, stream, late, budget, stranded, restored>>
<1>t. run \in [Runs -> RunRecords] /\ watched \in [Runs -> BOOLEAN] /\ row \in Rows
      /\ lost \subseteq Artifacts /\ <<"instance", r>> \in Artifacts
      /\ "disk" \in RunPcs /\ "ending" \in RunPcs
  BY Typed DEF Artifacts, RunPcs
<1>1. /\ At(r, "created")
      /\ UNCHANGED <<state, inst, disk, clones, guest, stream, late, budget, stranded, restored>>
  BY DEF RecordsInstance
<1>2. CASE run[r].live
  <2>1. /\ row' = [row EXCEPT !.inst = r] /\ lost' = lost /\ Goto(r, "disk")
        /\ \E on \in BOOLEAN : watched' = [watched EXCEPT ![r] = on]
    BY <1>2 DEF RecordsInstance
  <2>2. Moved(r, "disk") /\ watched' \in [Runs -> BOOLEAN]
    BY <1>t, <2>1, GotoMoves
  <2>3. row' \in Rows /\ row'.inst = r /\ row'.clone = row.clone
    BY <1>t, <2>1 DEF Rows
  <2>4. TypeOK'
    BY <1>1, <2>1, <2>2, <2>3, Typed, TypedNext DEF Moved, stream
  <2>5. QED
    BY <1>1, <2>1, <2>2, <2>3, <2>4
<1>3. CASE ~run[r].live
  <2>1. /\ lost' = lost \cup {<<"instance", r>>} /\ Goto(r, "ending")
        /\ UNCHANGED <<row, watched>>
    BY <1>3 DEF RecordsInstance
  <2>2. Moved(r, "ending")
    BY <1>t, <2>1, GotoMoves
  <2>3. TypeOK'
    BY <1>t, <1>1, <2>1, <2>2, Typed, TypedNext DEF Moved, stream
  <2>4. QED
    BY <1>1, <2>1, <2>2, <2>3
<1>4. QED
  BY <1>2, <1>3

LEMMA DiskStep ==
    ASSUME TypeOK, NEW r \in Runs, CreatesDisk(r)
    PROVE  /\ TypeOK'
           /\ At(r, "disk")
           /\ \/ /\ state' = state
                 /\ \/ Moved(r, "register") /\ DataDisks = {}
                    \/ Moved(r, "clone")
              \/ Moved(r, "ending") /\ (state' = "failed" \/ state' = state)
           /\ \A q \in Runs \ {r} : disk'[q] = disk[q]
           /\ UNCHANGED <<row, inst, watched, clones, guest, stream, late, budget, history>>
<1>t. run \in [Runs -> RunRecords] /\ "register" \in RunPcs /\ "clone" \in RunPcs
      /\ disk \in [Runs -> {"none", "blank", "partial", "cut short", "whole"}]
  BY Typed DEF RunPcs
<1>1. /\ At(r, "disk")
      /\ UNCHANGED <<row, inst, watched, clones, guest, stream, late, budget, history>>
  BY DEF CreatesDisk
<1>2. disk' = [disk EXCEPT ![r] = "blank"] \/ disk' = disk
  BY DEF CreatesDisk
<1>3. \/ /\ state' = state
         /\ (Goto(r, "register") /\ DataDisks = {}) \/ Goto(r, "clone")
      \/ Fails(r)
  BY DEF CreatesDisk
<1>4. /\ \/ /\ state' = state
            /\ \/ Moved(r, "register") /\ DataDisks = {}
               \/ Moved(r, "clone")
         \/ Moved(r, "ending") /\ (state' = "failed" \/ state' = state)
      /\ state' \in {"replicating", "migrating", "launched", "failed"}
  BY <1>t, <1>3, GotoMoves, FailMoves, Typed
<1>5. /\ disk' \in [Runs -> {"none", "blank", "partial", "cut short", "whole"}]
      /\ \A q \in Runs \ {r} : disk'[q] = disk[q]
  BY <1>t, <1>2
<1>6. TypeOK'
  BY <1>1, <1>4, <1>5, Typed, TypedNext DEF Moved, stream, history
<1>7. QED
  BY <1>1, <1>4, <1>5, <1>6

LEMMA CloneStep ==
    ASSUME TypeOK, NEW r \in Runs, ClonesData(r)
    PROVE  /\ TypeOK'
           /\ At(r, "clone")
           /\ \/ /\ \E d \in run[r].todo :
                       /\ \A q \in Runs : <<d, q>> \notin clones
                       /\ clones' = clones \cup {<<d, r>>}
                       /\ \/ Moved(r, "cloned") /\ state' = state /\ lost' = lost
                          \/ Moved(r, "ending") /\ lost' = lost \cup {<<d, r>>}
              \/ Moved(r, "ending") /\ clones' = clones /\ lost' = lost
           /\ run'[r].pc = "ending" => state' = "failed" \/ state' = state
           /\ UNCHANGED <<row, inst, watched, disk, guest, stream, late, budget, stranded, restored>>
<1>t. run \in [Runs -> RunRecords] /\ run[r].todo \subseteq DataDisks /\ "cloned" \in RunPcs
      /\ clones \subseteq DataDisks \X Runs /\ lost \subseteq Artifacts
      /\ \A d \in DataDisks : <<d, r>> \in Artifacts
  BY Typed DEF RunPcs, RunRecords, Artifacts
<1>1. /\ At(r, "clone")
      /\ UNCHANGED <<row, inst, watched, disk, guest, stream, late, budget, stranded, restored>>
  BY DEF ClonesData
<1>2. CASE Fails(r) /\ UNCHANGED <<clones, lost>>
  <2>1. Moved(r, "ending") /\ state' \in {"replicating", "migrating", "launched", "failed"}
        /\ (state' = "failed" \/ state' = state)
    BY <1>2, FailMoves
  <2>2. TypeOK'
    BY <1>1, <1>2, <2>1, Typed, TypedNext DEF Moved, stream
  <2>3. QED
    BY <1>1, <1>2, <2>1, <2>2
<1>3. ASSUME NEW d \in run[r].todo,
             /\ \A q \in Runs : <<d, q>> \notin clones
             /\ clones' = clones \cup {<<d, r>>}
             /\ \/ Goto(r, "cloned") /\ UNCHANGED <<state, lost>>
                \/ Fails(r) /\ lost' = lost \cup {<<d, r>>}
      PROVE  /\ TypeOK'
             /\ \/ Moved(r, "cloned") /\ state' = state /\ lost' = lost
                \/ Moved(r, "ending") /\ lost' = lost \cup {<<d, r>>}
             /\ run'[r].pc = "ending" => state' = "failed" \/ state' = state
  <2>1. CASE Goto(r, "cloned") /\ UNCHANGED <<state, lost>>
    <3>1. Moved(r, "cloned")
      BY <1>t, <2>1, GotoMoves
    <3>2. clones' \subseteq DataDisks \X Runs /\ lost' = lost /\ state' = state
      BY <1>t, <1>3, <2>1
    <3>3. run' \in [Runs -> RunRecords] /\ run'[r].pc # "ending"
      BY <3>1 DEF Moved
    <3>4. TypeOK'
      BY <1>1, <3>2, <3>3, Typed, TypedNext DEF stream
    <3>5. QED
      BY <3>1, <3>2, <3>3, <3>4
  <2>2. CASE Fails(r) /\ lost' = lost \cup {<<d, r>>}
    <3>1. Moved(r, "ending") /\ state' \in {"replicating", "migrating", "launched", "failed"}
          /\ (state' = "failed" \/ state' = state)
      BY <2>2, FailMoves
    <3>2. clones' \subseteq DataDisks \X Runs /\ lost' \subseteq Artifacts
      BY <1>t, <1>3, <2>2
    <3>3. TypeOK'
      BY <1>1, <3>1, <3>2, Typed, TypedNext DEF Moved, stream
    <3>4. QED
      BY <2>2, <3>1, <3>3
  <2>3. QED
    BY <1>3, <2>1, <2>2
<1>4. \/ \E d \in run[r].todo :
            /\ \A q \in Runs : <<d, q>> \notin clones
            /\ clones' = clones \cup {<<d, r>>}
            /\ \/ Goto(r, "cloned") /\ UNCHANGED <<state, lost>>
               \/ Fails(r) /\ lost' = lost \cup {<<d, r>>}
      \/ Fails(r) /\ UNCHANGED <<clones, lost>>
  BY DEF ClonesData
<1>5. QED
  BY <1>1, <1>2, <1>3, <1>4

\* The clone of disk d is in the row, or lost with its run.
CloneRecorded(r, d) ==
    /\ <<d, r>> \in clones \ lost
    /\ \/ /\ lost' = lost
          /\ row'.inst = row.inst
          /\ \A e \in DataDisks : row'.clone[e] = IF e = d THEN r ELSE row.clone[e]
          /\ run'[r].pc = IF run[r].todo = {d} THEN "register" ELSE "clone"
          /\ run'[r].live = run[r].live /\ run'[r].todo = run[r].todo \ {d}
          /\ run'[r].token = run[r].token
          /\ \A q \in Runs \ {r} : run'[q] = run[q]
       \/ Moved(r, "ending") /\ row' = row /\ lost' = lost \cup {<<d, r>>}

LEMMA RecordCloneStep ==
    ASSUME TypeOK, NEW r \in Runs, RecordsClone(r)
    PROVE  /\ TypeOK'
           /\ At(r, "cloned")
           /\ \E d \in run[r].todo : CloneRecorded(r, d)
           /\ UNCHANGED <<state, cloud, guest, stream, late, budget, stranded, restored>>
<1>t. run \in [Runs -> RunRecords] /\ run[r] \in RunRecords /\ run[r].todo \subseteq DataDisks
      /\ "ending" \in RunPcs /\ row \in Rows /\ lost \subseteq Artifacts
      /\ \A d \in DataDisks : <<d, r>> \in Artifacts
  BY Typed DEF RunPcs, RunRecords, Artifacts
<1>1. /\ At(r, "cloned")
      /\ UNCHANGED <<state, cloud, guest, stream, late, budget, stranded, restored>>
  BY DEF RecordsClone
<1>2. PICK d \in run[r].todo :
          /\ <<d, r>> \in clones \ lost
          /\ IF run[r].live
             THEN /\ row' = [row EXCEPT !.clone[d] = r]
                  /\ run' = [run EXCEPT ![r].pc = IF run[r].todo = {d} THEN "register" ELSE "clone",
                                        ![r].todo = @ \ {d}]
                  /\ UNCHANGED lost
             ELSE lost' = lost \cup {<<d, r>>} /\ Goto(r, "ending") /\ UNCHANGED row
  BY DEF RecordsClone
<1>3. CASE run[r].live
  <2> DEFINE new == [run[r] EXCEPT !.pc = IF run[r].todo = {d} THEN "register" ELSE "clone",
                                   !.todo = @ \ {d}]
  <2>1. run' = [run EXCEPT ![r] = new]
    BY <1>t, <1>2, <1>3
  <2>2. /\ new \in RunRecords
        /\ new.pc = (IF run[r].todo = {d} THEN "register" ELSE "clone")
        /\ new.live = run[r].live /\ new.todo = run[r].todo \ {d} /\ new.token = run[r].token
    BY <1>t DEF RunRecords, RunPcs
  <2>3. /\ run' \in [Runs -> RunRecords]
        /\ run'[r] = new /\ \A q \in Runs \ {r} : run'[q] = run[q]
    BY <1>t, <2>1, <2>2
  <2>4. row' = [row EXCEPT !.clone = [row.clone EXCEPT ![d] = r]]
    BY <1>2, <1>3
  <2>5. row.clone \in [DataDisks -> Runs \cup {0}]
    BY <1>t, RowTypes
  <2>6. row'.inst = row.inst /\ row'.clone = [row.clone EXCEPT ![d] = r] /\ row' \in Rows
    BY <1>t, <2>4, <2>5 DEF Rows
  <2>7. \A e \in DataDisks : row'.clone[e] = IF e = d THEN r ELSE row.clone[e]
    BY <2>5, <2>6
  <2>8. TypeOK'
    BY <1>1, <1>2, <1>3, <2>3, <2>6, Typed, TypedNext DEF stream, cloud
  <2>9. /\ lost' = lost
        /\ row'.inst = row.inst
        /\ \A e \in DataDisks : row'.clone[e] = IF e = d THEN r ELSE row.clone[e]
        /\ run'[r].pc = IF run[r].todo = {d} THEN "register" ELSE "clone"
        /\ run'[r].live = run[r].live /\ run'[r].todo = run[r].todo \ {d}
        /\ run'[r].token = run[r].token
        /\ \A q \in Runs \ {r} : run'[q] = run[q]
    <3>1. lost' = lost
      BY <1>2, <1>3
    <3>2. QED
      BY <2>2, <2>3, <2>6, <2>7, <3>1
  <2>10. QED
    <3> HIDE DEF new
    <3>1. <<d, r>> \in clones \ lost
      BY <1>2
    <3>2. CloneRecorded(r, d)
      BY <2>9, <3>1 DEF CloneRecorded
    <3>3. QED
      BY <1>1, <2>8, <3>2
<1>4. CASE ~run[r].live
  <2>1. Moved(r, "ending") /\ row' = row /\ lost' = lost \cup {<<d, r>>}
    BY <1>t, <1>2, <1>4, GotoMoves
  <2>2. lost' \subseteq Artifacts
    BY <1>t, <2>1
  <2>3. TypeOK'
    BY <1>1, <2>1, <2>2, Typed, TypedNext DEF Moved, stream, cloud
  <2>4. CloneRecorded(r, d)
    BY <1>2, <2>1 DEF CloneRecorded
  <2>5. QED
    BY <1>1, <2>3, <2>4
<1>5. QED
  BY <1>3, <1>4

LEMMA RegisterStep ==
    ASSUME TypeOK, NEW r \in Runs, Registers(r)
    PROVE  /\ TypeOK'
           /\ At(r, "register")
           /\ register' = register \cup {r} /\ saved'.token = r
           /\ run'[r].pc = "command" /\ run'[r].live = run[r].live /\ run'[r].seen = run[r].seen
           /\ run'[r].todo = run[r].todo /\ run'[r].token
           /\ \A q \in Runs \ {r} : run'[q] = run[q]
           /\ UNCHANGED <<state, row, cloud, guest, card, late, budget, history>>
<1>t. run \in [Runs -> RunRecords] /\ run[r] \in RunRecords /\ register \subseteq Runs
  BY Typed
<1> DEFINE new == [run[r] EXCEPT !.pc = "command", !.token = TRUE]
<1>1. run' = [run EXCEPT ![r] = new]
  BY <1>t DEF Registers
<1>2. /\ new \in RunRecords /\ new.pc = "command" /\ new.live = run[r].live
      /\ new.seen = run[r].seen /\ new.todo = run[r].todo /\ new.token
  BY <1>t DEF RunRecords, RunPcs
<1>3. run' \in [Runs -> RunRecords] /\ run'[r] = new /\ \A q \in Runs \ {r} : run'[q] = run[q]
  BY <1>t, <1>1, <1>2
<1>4. saved' \in Tokens /\ saved'.token = r
  BY DEF Registers, Tokens
<1>5. /\ At(r, "register") /\ register' = register \cup {r}
      /\ UNCHANGED <<state, row, cloud, guest, card, late, budget, history>>
  BY DEF Registers
<1>6. TypeOK'
  BY <1>t, <1>3, <1>4, <1>5, Typed, TypedNext DEF cloud, history
<1>7. QED
  BY <1>2, <1>3, <1>4, <1>5, <1>6

LEMMA CommandStep ==
    ASSUME TypeOK, NEW r \in Runs, SetsCommand(r)
    PROVE  /\ TypeOK'
           /\ At(r, "command") /\ Moved(r, "rescue")
           /\ card' = r /\ saved'.token = saved.token
           /\ saved.token # 0 => saved'.cmd = r
           /\ UNCHANGED <<state, row, cloud, guest, register, late, budget, history>>
<1>t. run \in [Runs -> RunRecords] /\ saved \in Tokens /\ "rescue" \in RunPcs
  BY Typed DEF RunPcs
<1>1. /\ At(r, "command") /\ card' = r /\ Goto(r, "rescue")
      /\ UNCHANGED <<state, row, cloud, guest, register, late, budget, history>>
  BY DEF SetsCommand
<1>2. Moved(r, "rescue")
  BY <1>t, <1>1, GotoMoves
<1>3. /\ saved' \in Tokens /\ saved'.token = saved.token
      /\ saved.token # 0 => saved'.cmd = r
  <2>1. CASE saved = Nothing
    BY <1>t, <2>1 DEF SetsCommand, Nothing
  <2>2. CASE saved # Nothing
    <3>1. saved' = [saved EXCEPT !.cmd = r]
      BY <2>2 DEF SetsCommand
    <3>2. QED
      BY <1>t, <3>1 DEF Tokens
  <2>3. QED
    BY <2>1, <2>2
<1>4. TypeOK'
  BY <1>1, <1>2, <1>3, Typed, TypedNext DEF Moved, cloud, history
<1>5. QED
  BY <1>1, <1>2, <1>3, <1>4

LEMMA RescueStep ==
    ASSUME TypeOK, NEW r \in Runs, Rescues(r)
    PROVE  /\ TypeOK'
           /\ At(r, "rescue")
           /\ \/ /\ Moved(r, "wait") /\ run[r].live /\ state' = state
                 /\ inst' = [inst EXCEPT ![r] = "rescue"]
              \/ /\ Moved(r, "ending") /\ inst' = inst
                 /\ state' = "failed" \/ state' = state
           /\ UNCHANGED <<row, watched, disk, clones, guest, stream, late, budget, history>>
<1>t. run \in [Runs -> RunRecords] /\ "wait" \in RunPcs
      /\ inst \in [Runs -> {"none", "off", "rescue", "running"}]
  BY Typed DEF RunPcs
<1>1. /\ At(r, "rescue")
      /\ UNCHANGED <<row, watched, disk, clones, guest, stream, late, budget, history>>
  BY DEF Rescues
<1>2. CASE run[r].live /\ inst' = [inst EXCEPT ![r] = "rescue"] /\ Goto(r, "wait") /\ state' = state
  <2>1. Moved(r, "wait")
    BY <1>t, <1>2, GotoMoves
  <2>2. inst' \in [Runs -> {"none", "off", "rescue", "running"}]
    BY <1>t, <1>2
  <2>3. TypeOK'
    BY <1>1, <1>2, <2>1, <2>2, Typed, TypedNext DEF Moved, stream, history
  <2>4. QED
    BY <1>1, <1>2, <2>1, <2>3
<1>3. CASE Fails(r) /\ inst' = inst
  <2>1. Moved(r, "ending") /\ state' \in {"replicating", "migrating", "launched", "failed"}
        /\ (state' = "failed" \/ state' = state)
    BY <1>3, FailMoves
  <2>2. TypeOK'
    BY <1>1, <1>3, <2>1, Typed, TypedNext DEF Moved, stream, history
  <2>3. QED
    BY <1>1, <1>3, <2>1, <2>2
<1>4. QED
  BY <1>2, <1>3 DEF Rescues

LEMMA DoneStep ==
    ASSUME TypeOK, NEW r \in Runs, CopyDone(r)
    PROVE  /\ TypeOK'
           /\ At(r, "wait") /\ run[r].live /\ inst[r] = "off" /\ Moved(r, "attach")
           /\ register' = {} /\ saved'.token = 0
           /\ UNCHANGED <<state, row, cloud, guest, late, budget, history>>
<1>t. run \in [Runs -> RunRecords] /\ "attach" \in RunPcs
  BY Typed DEF RunPcs
<1>1. /\ At(r, "wait") /\ run[r].live /\ inst[r] = "off" /\ Goto(r, "attach")
      /\ register' = {} /\ card' = 0 /\ saved' = Nothing
      /\ UNCHANGED <<state, row, cloud, guest, late, budget, history>>
  BY DEF CopyDone, DropStream
<1>2. Moved(r, "attach")
  BY <1>t, <1>1, GotoMoves
<1>3. Nothing \in Tokens /\ Nothing.token = 0
  BY DEF Nothing, Tokens
<1>4. TypeOK'
  BY <1>1, <1>2, <1>3, Typed, TypedNext DEF Moved, cloud, history
<1>5. QED
  BY <1>1, <1>2, <1>3, <1>4

LEMMA OverStep ==
    ASSUME TypeOK, NEW r \in Runs, BudgetOver(r) \/ StopsWaiting(r)
    PROVE  /\ TypeOK'
           /\ run[r].pc \in {"begin", "wait"} /\ Moved(r, "ending")
           /\ state' = "failed" \/ state' = state
           /\ UNCHANGED <<row, cloud, guest, stream, late, budget, history>>
<1>t. run \in [Runs -> RunRecords] /\ "ending" \in RunPcs
  BY Typed DEF RunPcs
<1>1. /\ run[r].pc \in {"begin", "wait"}
      /\ UNCHANGED <<row, cloud, guest, stream, late, budget, history>>
  BY DEF BudgetOver, StopsWaiting, At
<1>2. /\ Moved(r, "ending") /\ state' \in {"replicating", "migrating", "launched", "failed"}
      /\ state' = "failed" \/ state' = state
  <2>1. CASE BudgetOver(r)
    BY <2>1, FailMoves DEF BudgetOver
  <2>2. CASE StopsWaiting(r)
    BY <1>t, <2>2, GotoMoves, Typed DEF StopsWaiting
  <2>3. QED
    BY <2>1, <2>2
<1>3. TypeOK'
  BY <1>1, <1>2, Typed, TypedNext DEF Moved, cloud, stream, history
<1>4. QED
  BY <1>1, <1>2, <1>3

LEMMA AttachStep ==
    ASSUME TypeOK, NEW r \in Runs, Attaches(r)
    PROVE  /\ TypeOK'
           /\ At(r, "attach")
           /\ \/ Moved(r, "boot") /\ state' = state
              \/ Moved(r, "ending") /\ (state' = "failed" \/ state' = state)
           /\ UNCHANGED <<row, cloud, guest, stream, late, budget, history>>
<1>t. run \in [Runs -> RunRecords] /\ "boot" \in RunPcs
  BY Typed DEF RunPcs
<1>1. /\ At(r, "attach")
      /\ UNCHANGED <<row, cloud, guest, stream, late, budget, history>>
  BY DEF Attaches
<1>2. (Goto(r, "boot") /\ state' = state) \/ Fails(r)
  BY DEF Attaches
<1>3. /\ \/ Moved(r, "boot") /\ state' = state
         \/ Moved(r, "ending") /\ (state' = "failed" \/ state' = state)
      /\ state' \in {"replicating", "migrating", "launched", "failed"}
  BY <1>t, <1>2, GotoMoves, FailMoves, Typed
<1>4. TypeOK'
  BY <1>1, <1>3, Typed, TypedNext DEF Moved, cloud, stream, history
<1>5. QED
  BY <1>1, <1>3, <1>4

LEMMA BootStep ==
    ASSUME TypeOK, NEW r \in Runs, Boots(r)
    PROVE  /\ TypeOK'
           /\ At(r, "boot")
           /\ \/ Moved(r, "finish") /\ state' = state /\ inst' = [inst EXCEPT ![r] = "running"]
              \/ Moved(r, "ending") /\ (state' = "failed" \/ state' = state) /\ inst' = inst
           /\ UNCHANGED <<row, disk, clones, guest, stream, late, budget, history>>
<1>t. run \in [Runs -> RunRecords] /\ "finish" \in RunPcs
      /\ inst \in [Runs -> {"none", "off", "rescue", "running"}] /\ watched \in [Runs -> BOOLEAN]
  BY Typed DEF RunPcs
<1>1. /\ At(r, "boot")
      /\ UNCHANGED <<row, disk, clones, guest, stream, late, budget, history>>
  BY DEF Boots
<1>2. watched' = [watched EXCEPT ![r] = TRUE] \/ watched' = watched
  BY DEF Boots
<1>3. watched' \in [Runs -> BOOLEAN]
  BY <1>t, <1>2
<1>4. \/ Goto(r, "finish") /\ state' = state /\ inst' = [inst EXCEPT ![r] = "running"]
      \/ Fails(r) /\ inst' = inst
  BY DEF Boots
<1>5. /\ \/ Moved(r, "finish") /\ state' = state /\ inst' = [inst EXCEPT ![r] = "running"]
         \/ Moved(r, "ending") /\ (state' = "failed" \/ state' = state) /\ inst' = inst
      /\ state' \in {"replicating", "migrating", "launched", "failed"}
  BY <1>t, <1>4, GotoMoves, FailMoves, Typed
<1>6. inst' \in [Runs -> {"none", "off", "rescue", "running"}]
  BY <1>t, <1>4
<1>7. TypeOK'
  BY <1>1, <1>3, <1>5, <1>6, Typed, TypedNext DEF Moved, stream, history
<1>8. QED
  BY <1>1, <1>5, <1>7

LEMMA FinishStep ==
    ASSUME TypeOK, NEW r \in Runs, Finishes(r)
    PROVE  /\ TypeOK'
           /\ At(r, "finish") /\ Moved(r, "ending") /\ state' = "launched"
           /\ row'.inst = r /\ row'.clone = row.clone
           /\ UNCHANGED <<cloud, guest, stream, late, budget, history>>
<1>t. run \in [Runs -> RunRecords] /\ row \in Rows /\ "ending" \in RunPcs
  BY Typed DEF RunPcs
<1>1. /\ At(r, "finish") /\ Goto(r, "ending") /\ state' = "launched"
      /\ row' = [row EXCEPT !.inst = r]
      /\ UNCHANGED <<cloud, guest, stream, late, budget, history>>
  BY DEF Finishes
<1>2. Moved(r, "ending")
  BY <1>t, <1>1, GotoMoves
<1>3. row' \in Rows /\ row'.inst = r /\ row'.clone = row.clone
  BY <1>t, <1>1 DEF Rows
<1>4. TypeOK'
  BY <1>1, <1>2, <1>3, Typed, TypedNext DEF Moved, cloud, stream, history
<1>5. QED
  BY <1>1, <1>2, <1>3, <1>4

LEMMA ReturnStep ==
    ASSUME TypeOK, NEW r \in Runs, RunReturns(r)
    PROVE  /\ TypeOK'
           /\ At(r, "ending") /\ run'[r].pc = "done"
           /\ \A q \in Runs \ {r} : run'[q] = run[q]
           /\ IF run[r].token THEN register' = {} /\ saved'.token = 0
              ELSE UNCHANGED stream
           /\ UNCHANGED <<state, row, cloud, guest, late, budget, history>>
<1>t. run \in [Runs -> RunRecords]
  BY Typed
<1>1. /\ At(r, "ending") /\ run' = [run EXCEPT ![r] = Done]
      /\ IF run[r].token THEN register' = {} /\ card' = 0 /\ saved' = Nothing
         ELSE UNCHANGED stream
      /\ UNCHANGED <<state, row, cloud, guest, late, budget, history>>
  BY DEF RunReturns, DropStream
<1>2. run' \in [Runs -> RunRecords] /\ run'[r].pc = "done" /\ \A q \in Runs \ {r} : run'[q] = run[q]
  BY <1>t, <1>1, RunTypes
<1>3. Nothing \in Tokens /\ Nothing.token = 0
  BY DEF Nothing, Tokens
<1>4. /\ register' \subseteq Runs /\ card' \in Runs \cup {0} /\ saved' \in Tokens
  <2>1. CASE run[r].token
    BY <1>1, <1>3, <2>1
  <2>2. CASE ~run[r].token
    BY <1>1, <2>2, Typed DEF stream
  <2>3. QED
    BY <2>1, <2>2
<1>5. TypeOK'
  BY <1>1, <1>2, <1>4, Typed, TypedNext DEF cloud, history
<1>6. IF run[r].token THEN register' = {} /\ saved'.token = 0 ELSE UNCHANGED stream
  BY <1>1, <1>3
<1>7. QED
  BY <1>1, <1>2, <1>5, <1>6

\* What the rescue system does, and what passing time does.
LEMMA PasteStep ==
    ASSUME TypeOK, NEW r \in Runs, Pastes(r)
    PROVE  /\ TypeOK'
           /\ inst[r] = "rescue" /\ card # 0
           /\ guest'[r].pc = "script" /\ guest'[r].token = card /\ ~guest'[r].torn
           /\ \A q \in Runs \ {r} : guest'[q] = guest[q]
           /\ UNCHANGED <<state, row, run, cloud, stream, late, budget, history>>
<1>t. guest \in [Runs -> Guests] /\ card \in Runs \cup {0}
  BY Typed
<1> DEFINE new == [pc |-> "script", token |-> card, torn |-> FALSE]
<1>1. /\ inst[r] = "rescue" /\ card # 0
      /\ guest' = [guest EXCEPT ![r] = new]
      /\ UNCHANGED <<state, row, run, cloud, stream, late, budget, history>>
  BY DEF Pastes
<1>2. new \in Guests
  BY <1>t DEF Guests
<1>3. guest' \in [Runs -> Guests] /\ guest'[r] = new /\ \A q \in Runs \ {r} : guest'[q] = guest[q]
  BY <1>t, <1>1, <1>2
<1>4. TypeOK'
  BY <1>1, <1>3, Typed, TypedNext DEF cloud, stream, history
<1>5. QED
  BY <1>1, <1>3, <1>4

LEMMA PowerStep ==
    ASSUME TypeOK, NEW r \in Runs, PowersOff(r)
    PROVE  /\ guest' \in [Runs -> Guests] /\ inst' \in [Runs -> {"none", "off", "rescue", "running"}]
           /\ guest'[r].pc = "idle" /\ (inst'[r] = "off" \/ inst'[r] = inst[r])
           /\ \A q \in Runs \ {r} : guest'[q] = guest[q] /\ inst'[q] = inst[q]
<1>t. guest \in [Runs -> Guests] /\ inst \in [Runs -> {"none", "off", "rescue", "running"}]
  BY Typed
<1>1. Idle \in Guests /\ Idle.pc = "idle"
  BY DEF Idle, Guests
<1>2. guest' = [guest EXCEPT ![r] = Idle]
  BY DEF PowersOff
<1>3. inst' = [inst EXCEPT ![r] = "off"] \/ inst' = inst
  BY DEF PowersOff
<1>4. guest' \in [Runs -> Guests] /\ guest'[r].pc = "idle" /\ \A q \in Runs \ {r} : guest'[q] = guest[q]
  BY <1>t, <1>1, <1>2
<1>5. QED
  BY <1>t, <1>3, <1>4

\* A script whose token is refused powers off with the disk as it was.
LEMMA DownloadStep ==
    ASSUME TypeOK, NEW r \in Runs, Downloads(r)
    PROVE  /\ TypeOK'
           /\ guest[r].pc = "script"
           /\ \/ /\ guest'[r].pc = "copy" /\ guest'[r].token = guest[r].token
                 /\ guest'[r].torn = (state # "migrating")
                 /\ inst' = inst
              \/ /\ ~Authorized(guest[r].token) /\ guest'[r].pc = "idle"
                 /\ inst'[r] = "off" \/ inst'[r] = inst[r]
           /\ \A q \in Runs \ {r} :
                 guest'[q] = guest[q] /\ inst'[q] = inst[q] /\ disk'[q] = disk[q]
           /\ UNCHANGED <<state, row, run, watched, clones, stream, late, budget, history>>
<1>t. guest \in [Runs -> Guests] /\ inst \in [Runs -> {"none", "off", "rescue", "running"}]
      /\ disk \in [Runs -> {"none", "blank", "partial", "cut short", "whole"}]
  BY Typed
<1>1. /\ guest[r].pc = "script"
      /\ UNCHANGED <<state, row, run, watched, clones, stream, late, budget, history>>
  BY DEF Downloads
<1>2. CASE Authorized(guest[r].token)
  <2> DEFINE new == [guest[r] EXCEPT !.pc = "copy", !.torn = (state # "migrating")]
  <2>1. guest' = [guest EXCEPT ![r] = new] /\ disk' = [disk EXCEPT ![r] = "partial"] /\ inst' = inst
    BY <1>t, <1>2 DEF Downloads
  <2>2. /\ new \in Guests /\ new.pc = "copy" /\ new.token = guest[r].token
        /\ new.torn = (state # "migrating")
    <3>1. guest[r] \in Guests
      BY <1>t
    <3>2. QED
      BY <3>1 DEF Guests
  <2>3. guest' \in [Runs -> Guests] /\ guest'[r] = new /\ \A q \in Runs \ {r} : guest'[q] = guest[q]
    BY <1>t, <2>1, <2>2
  <2>4. /\ disk' \in [Runs -> {"none", "blank", "partial", "cut short", "whole"}]
        /\ \A q \in Runs \ {r} : disk'[q] = disk[q]
    BY <1>t, <2>1
  <2>5. TypeOK'
    BY <1>1, <2>1, <2>3, <2>4, Typed, TypedNext DEF stream, history
  <2>6. QED
    BY <1>1, <2>1, <2>2, <2>3, <2>4, <2>5
<1>3. CASE ~Authorized(guest[r].token)
  <2>1. PowersOff(r) /\ disk' = disk
    BY <1>3 DEF Downloads
  <2>2. /\ guest' \in [Runs -> Guests] /\ inst' \in [Runs -> {"none", "off", "rescue", "running"}]
        /\ guest'[r].pc = "idle" /\ (inst'[r] = "off" \/ inst'[r] = inst[r])
        /\ \A q \in Runs \ {r} : guest'[q] = guest[q] /\ inst'[q] = inst[q]
    BY <2>1, PowerStep
  <2>3. TypeOK'
    BY <1>1, <2>1, <2>2, Typed, TypedNext DEF stream, history
  <2>4. QED
    BY <1>1, <1>3, <2>1, <2>2, <2>3
<1>4. QED
  BY <1>2, <1>3

\* A copy ends with the disk whole or cut short, unless the image was torn.
LEMMA CopyEndStep ==
    ASSUME TypeOK, NEW r \in Runs, Copied(r) \/ Truncated(r)
    PROVE  /\ TypeOK'
           /\ guest[r].pc = "copy" /\ guest'[r].pc = "idle"
           /\ disk'[r] \in {"whole", "cut short"} \/ guest[r].torn
           /\ inst'[r] = "off" \/ inst'[r] = inst[r]
           /\ \A q \in Runs \ {r} :
                 guest'[q] = guest[q] /\ inst'[q] = inst[q] /\ disk'[q] = disk[q]
           /\ UNCHANGED <<state, row, run, watched, clones, stream, late, budget, history>>
<1>t. disk \in [Runs -> {"none", "blank", "partial", "cut short", "whole"}]
  BY Typed
<1>1. /\ guest[r].pc = "copy" /\ PowersOff(r)
      /\ UNCHANGED <<state, row, run, watched, clones, stream, late, budget, history>>
  BY DEF Copied, Truncated
<1>2. /\ guest' \in [Runs -> Guests] /\ inst' \in [Runs -> {"none", "off", "rescue", "running"}]
      /\ guest'[r].pc = "idle" /\ (inst'[r] = "off" \/ inst'[r] = inst[r])
      /\ \A q \in Runs \ {r} : guest'[q] = guest[q] /\ inst'[q] = inst[q]
  BY <1>1, PowerStep
<1>3. \/ disk' = [disk EXCEPT ![r] = "whole"]
      \/ disk' = [disk EXCEPT ![r] = "cut short"]
      \/ disk' = [disk EXCEPT ![r] = "partial"] /\ guest[r].torn
  BY DEF Copied, Truncated
<1>4. /\ disk' \in [Runs -> {"none", "blank", "partial", "cut short", "whole"}]
      /\ disk'[r] \in {"whole", "cut short"} \/ guest[r].torn
      /\ \A q \in Runs \ {r} : disk'[q] = disk[q]
  BY <1>t, <1>3
<1>5. TypeOK'
  BY <1>1, <1>2, <1>4, Typed, TypedNext DEF stream, history
<1>6. QED
  BY <1>1, <1>2, <1>4, <1>5

LEMMA AgeStep ==
    ASSUME TypeOK, NEW r \in Runs, Ages(r)
    PROVE  /\ TypeOK'
           /\ saved.token = r \/ r \in register
           /\ run[r].pc \notin {"command", "rescue"}
           /\ At(r, "wait") /\ run[r].live => late[r] = 0 /\ late'[r] = 1
           /\ late[r] < late'[r]
           /\ \A q \in Runs \ {r} : late'[q] = late[q]
           /\ UNCHANGED <<state, row, run, cloud, guest, stream, budget, history>>
<1>t. late \in [Runs -> 0 .. 2]
  BY Typed
<1>1. /\ saved.token = r \/ r \in register
      /\ late[r] < 2 /\ (late[r] = 1 => ~(At(r, "wait") /\ run[r].live))
      /\ run[r].pc \notin {"command", "rescue"}
      /\ late' = [late EXCEPT ![r] = @ + 1]
      /\ UNCHANGED <<state, row, run, cloud, guest, stream, budget, history>>
  BY DEF Ages
<1>2. /\ late' \in [Runs -> 0 .. 2] /\ late'[r] = late[r] + 1 /\ late[r] \in 0 .. 1
      /\ \A q \in Runs \ {r} : late'[q] = late[q]
  BY <1>t, <1>1
<1>3. TypeOK'
  BY <1>1, <1>2, Typed, TypedNext DEF cloud, stream, history
<1>4. QED
  BY <1>1, <1>2, <1>3

\* What a restart brings back.
Back == IF state = "migrating" /\ saved.token # 0 /\ late[saved.token] < 2 THEN saved ELSE Nothing

LEMMA RestartStep ==
    ASSUME TypeOK, Restart
    PROVE  /\ TypeOK'
           /\ \A q \in Runs : run'[q].pc = IF run[q].pc = "unused" THEN "unused" ELSE "done"
           /\ \A q \in Runs : At(q, "created") => <<"instance", q>> \in lost'
           /\ lost \subseteq lost'
           /\ \A x \in clones : At(x[2], "cloned") /\ row.clone[x[1]] # x[2] => x \in lost'
           /\ register' = {Back.token} \ {0} /\ card' = Back.cmd
           /\ register' \subseteq restored' /\ restored \subseteq restored'
           /\ saved' = IF state = "migrating" THEN Back ELSE saved
           /\ \/ At(stranded', "wait") /\ run[stranded'].live /\ stranded' \in Runs
              \/ stranded' = stranded /\ \A q \in Runs : ~(At(q, "wait") /\ run[q].live)
           /\ \A q \in Runs :
                 \/ guest'[q].pc = "idle" /\ guest[q].pc = "copy"
                 \/ guest'[q] = guest[q] /\ guest[q].pc # "copy" /\ inst'[q] = inst[q]
           /\ \A q \in Runs :
                 \/ inst'[q] = "off" /\ guest[q].pc = "copy"
                 \/ inst'[q] = inst[q]
           /\ budget'.restarts # 0
           /\ UNCHANGED <<state, row, watched, disk, clones, late>>
<1>t. /\ run \in [Runs -> RunRecords] /\ guest \in [Runs -> Guests] /\ budget \in Budgets
      /\ inst \in [Runs -> {"none", "off", "rescue", "running"}] /\ saved \in Tokens
      /\ lost \subseteq Artifacts /\ clones \subseteq DataDisks \X Runs
      /\ stranded \in Runs \cup {0} /\ restored \subseteq Runs
  BY Typed
<1>1. /\ run' \in [Runs -> RunRecords]
      /\ \A q \in Runs : run'[q].pc = IF run[q].pc = "unused" THEN "unused" ELSE "done"
  <2>1. run' = [r \in Runs |-> IF Running(r) THEN Done ELSE run[r]]
    BY DEF Restart
  <2>2. \A q \in Runs : run'[q] = IF Running(q) THEN Done ELSE run[q]
    BY <2>1
  <2>3. run' \in [Runs -> RunRecords]
    BY <1>t, <2>1, RunTypes
  <2>4. QED
    BY <2>2, <2>3, RunTypes DEF Running
<1>2. /\ lost' \subseteq Artifacts /\ lost \subseteq lost'
      /\ \A q \in Runs : At(q, "created") => <<"instance", q>> \in lost'
      /\ \A x \in clones : At(x[2], "cloned") /\ row.clone[x[1]] # x[2] => x \in lost'
  <2>1. lost' = lost \cup {<<"instance", r>> : r \in {q \in Runs : At(q, "created")}}
                     \cup {x \in clones : At(x[2], "cloned") /\ row.clone[x[1]] # x[2]}
    BY DEF Restart
  <2>2. QED
    BY <1>t, <2>1 DEF Artifacts
<1>3. Back \in Tokens
  BY <1>t DEF Back, Nothing, Tokens
<1>4. /\ register' = {Back.token} \ {0} /\ card' = Back.cmd
      /\ restored' = restored \cup ({Back.token} \ {0})
      /\ saved' = IF state = "migrating" THEN Back ELSE saved
  BY DEF Restart, Back
<1>5. /\ register' \subseteq Runs /\ card' \in Runs \cup {0} /\ saved' \in Tokens
      /\ restored' \subseteq Runs /\ register' \subseteq restored' /\ restored \subseteq restored'
  BY <1>t, <1>3, <1>4 DEF Tokens
<1>6. /\ stranded' \in Runs \cup {0}
      /\ \/ At(stranded', "wait") /\ run[stranded'].live /\ stranded' \in Runs
         \/ stranded' = stranded /\ \A q \in Runs : ~(At(q, "wait") /\ run[q].live)
  <2>1. stranded' = IF \E r \in Runs : At(r, "wait") /\ run[r].live
                    THEN CHOOSE r \in Runs : At(r, "wait") /\ run[r].live
                    ELSE stranded
    BY DEF Restart
  <2>2. CASE \E r \in Runs : At(r, "wait") /\ run[r].live
    BY <2>1, <2>2
  <2>3. CASE ~\E r \in Runs : At(r, "wait") /\ run[r].live
    BY <1>t, <2>1, <2>3
  <2>4. QED
    BY <2>2, <2>3
<1>7. Idle \in Guests /\ Idle.pc = "idle"
  BY DEF Idle, Guests
<1>8. /\ guest' \in [Runs -> Guests]
      /\ inst' \in [Runs -> {"none", "off", "rescue", "running"}]
      /\ \A q \in Runs : guest'[q] = IF guest[q].pc = "copy" THEN Idle ELSE guest[q]
      /\ \A q \in Runs : inst'[q] = IF guest[q].pc = "copy" /\ ~watched[q] THEN "off" ELSE inst[q]
  <2>1. /\ guest' = [r \in Runs |-> IF guest[r].pc = "copy" THEN Idle ELSE guest[r]]
        /\ inst' = [r \in Runs |-> IF guest[r].pc = "copy" /\ ~watched[r] THEN "off" ELSE inst[r]]
    BY DEF Restart
  <2>2. QED
    BY <1>t, <1>7, <2>1
<1>9. budget' \in Budgets /\ budget'.restarts # 0
  BY <1>t, BoundAssumption DEF Restart, Budgets
<1>10. UNCHANGED <<state, row, watched, disk, clones, late>>
  BY DEF Restart
<1>11. TypeOK'
  BY <1>1, <1>2, <1>5, <1>6, <1>8, <1>9, <1>10, Typed, TypedNext
<1>12. /\ \A q \in Runs :
             \/ guest'[q].pc = "idle" /\ guest[q].pc = "copy"
             \/ guest'[q] = guest[q] /\ guest[q].pc # "copy" /\ inst'[q] = inst[q]
       /\ \A q \in Runs : (inst'[q] = "off" /\ guest[q].pc = "copy") \/ inst'[q] = inst[q]
  BY <1>7, <1>8
<1>13. QED
  BY <1>1, <1>2, <1>4, <1>5, <1>6, <1>9, <1>10, <1>11, <1>12

(***************************************************************************)
(* The type invariant.                                                     *)
(***************************************************************************)

LEMMA InitTyped == Init => TypeOK
<1> SUFFICES ASSUME Init PROVE TypeOK
  OBVIOUS
<1>1. Nothing \in Tokens /\ Idle \in Guests /\ Empty \in Rows /\ Unused \in RunRecords
  BY RowTypes, RunTypes DEF Nothing, Idle, Tokens, Guests
<1>2. [stops |-> 0, restarts |-> 0] \in Budgets
  BY BoundAssumption DEF Budgets
<1>3. QED
  BY <1>1, <1>2, Typed DEF Init

LEMMA StutterTyped ==
    ASSUME TypeOK, UNCHANGED vars
    PROVE  TypeOK'
<1>1. UNCHANGED <<state, row, run, cloud, guest, stream, late, budget, history>>
  BY DEF vars
<1>2. QED
  BY <1>1, Typed, TypedNext DEF cloud, stream, history

\* The steps of Next, one by one.
LEMMA Steps ==
    ASSUME [Next]_vars
    PROVE  \/ \E r \in Runs :
                 \/ StartMigration(r) \/ CleansUp(r) \/ CreatesInstance(r) \/ RecordsInstance(r)
                 \/ CreatesDisk(r) \/ ClonesData(r) \/ RecordsClone(r) \/ Registers(r)
                 \/ SetsCommand(r) \/ Rescues(r) \/ CopyDone(r) \/ BudgetOver(r) \/ StopsWaiting(r)
                 \/ Attaches(r) \/ Boots(r) \/ Finishes(r) \/ RunReturns(r)
                 \/ Pastes(r) \/ Downloads(r) \/ Copied(r) \/ Truncated(r) \/ Ages(r)
           \/ StopMigration \/ Restart \/ UNCHANGED vars
BY DEF Next, RunStep

\* The type invariant, for every number of runs, stops and restarts, and whatever may
\* lag: the state of finalizeDisk and of its stream has the shape declared for it.
THEOREM DiskTypeCorrect == Spec => []TypeOK
<1>1. ASSUME TypeOK, [Next]_vars PROVE TypeOK'
  BY <1>1, Steps, StutterTyped, StartStep, StopStep, CleanStep, CreateStep, RecordStep, DiskStep,
     CloneStep, RecordCloneStep, RegisterStep, CommandStep, RescueStep, DoneStep, OverStep,
     AttachStep, BootStep, FinishStep, ReturnStep, PasteStep, DownloadStep, CopyEndStep, AgeStep,
     RestartStep
<1>2. QED
  BY InitTyped, <1>1, PTL DEF Spec

(***************************************************************************)
(* No token outlives its run.                                              *)
(***************************************************************************)

\* A token still known is its run's, whose return will drop it.
TokenKept ==
    \A r \in Runs :
        /\ r \in register /\ r \notin restored => Running(r) /\ run[r].token
        /\ saved.token = r /\ budget.restarts = 0 => Running(r) /\ run[r].token

\* A step that leaves the tokens alone, and every run that has one at work.
LeavesTokens ==
    /\ register' = register /\ saved'.token = saved.token
    /\ restored' = restored /\ budget'.restarts = budget.restarts
    /\ \A q \in Runs : Running(q) /\ run[q].token => Running(q)' /\ run'[q].token

LEMMA MovedLeaves ==
    ASSUME NEW r \in Runs, NEW pc \in RunPcs \ {"unused", "done"}, Moved(r, pc)
    PROVE  \A q \in Runs : Running(q) /\ run[q].token => Running(q)' /\ run'[q].token
<1>1. \A q \in Runs \ {r} : run'[q] = run[q]
  BY DEF Moved
<1>2. run'[r].token = run[r].token /\ run'[r].pc \notin {"unused", "done"}
  BY DEF Moved
<1>3. QED
  BY <1>1, <1>2 DEF Running

LEMMA TokenKeptNext ==
    ASSUME TypeOK, TokenKept, [Next]_vars
    PROVE  TokenKept'
<1>0. ASSUME LeavesTokens PROVE TokenKept'
  BY <1>0 DEF TokenKept, LeavesTokens
<1>p. {"created", "ending", "disk", "clone", "register", "cloned", "rescue", "wait", "attach",
       "boot", "finish"} \subseteq RunPcs \ {"unused", "done"}
  BY DEF RunPcs
<1>1. ASSUME NEW r \in Runs, StartMigration(r) PROVE LeavesTokens
  BY <1>1, StartStep DEF LeavesTokens, stream, Running, At
<1>2. ASSUME NEW r \in Runs, CleansUp(r) PROVE LeavesTokens
  BY <1>2, CleanStep DEF LeavesTokens, stream, Running, At
<1>3. ASSUME NEW r \in Runs, CreatesInstance(r) PROVE LeavesTokens
  BY <1>p, <1>3, CreateStep, MovedLeaves DEF LeavesTokens, stream
<1>4. ASSUME NEW r \in Runs, RecordsInstance(r) PROVE LeavesTokens
  BY <1>p, <1>4, RecordStep, MovedLeaves DEF LeavesTokens, stream
<1>5. ASSUME NEW r \in Runs, CreatesDisk(r) PROVE LeavesTokens
  BY <1>p, <1>5, DiskStep, MovedLeaves DEF LeavesTokens, stream, history
<1>6. ASSUME NEW r \in Runs, ClonesData(r) PROVE LeavesTokens
  BY <1>p, <1>6, CloneStep, MovedLeaves DEF LeavesTokens, stream
<1>7. ASSUME NEW r \in Runs, RecordsClone(r) PROVE LeavesTokens
  <2>1. \/ /\ run'[r].pc \in {"register", "clone"} /\ run'[r].token = run[r].token
           /\ \A q \in Runs \ {r} : run'[q] = run[q]
        \/ Moved(r, "ending")
    BY <1>7, RecordCloneStep DEF CloneRecorded
  <2>2. \A q \in Runs : Running(q) /\ run[q].token => Running(q)' /\ run'[q].token
    BY <1>p, <2>1, MovedLeaves DEF Running
  <2>3. QED
    BY <1>7, <2>2, RecordCloneStep DEF LeavesTokens, stream
<1>8. ASSUME NEW r \in Runs, Registers(r) PROVE TokenKept'
  <2>1. /\ register' = register \cup {r} /\ saved'.token = r /\ restored' = restored
        /\ budget' = budget
        /\ run'[r].pc = "command" /\ run'[r].token /\ \A q \in Runs \ {r} : run'[q] = run[q]
    BY <1>8, RegisterStep DEF history
  <2>2. QED
    BY <2>1 DEF TokenKept, Running
<1>9. ASSUME NEW r \in Runs, SetsCommand(r) PROVE LeavesTokens
  BY <1>p, <1>9, CommandStep, MovedLeaves DEF LeavesTokens, history
<1>10. ASSUME NEW r \in Runs, Rescues(r) PROVE LeavesTokens
  BY <1>p, <1>10, RescueStep, MovedLeaves DEF LeavesTokens, stream, history
<1>11. ASSUME NEW r \in Runs, CopyDone(r) PROVE TokenKept'
  BY <1>11, DoneStep DEF TokenKept, Runs
<1>12. ASSUME NEW r \in Runs, BudgetOver(r) \/ StopsWaiting(r) PROVE LeavesTokens
  BY <1>p, <1>12, OverStep, MovedLeaves DEF LeavesTokens, stream, history
<1>13. ASSUME NEW r \in Runs, Attaches(r) PROVE LeavesTokens
  BY <1>p, <1>13, AttachStep, MovedLeaves DEF LeavesTokens, stream, history
<1>14. ASSUME NEW r \in Runs, Boots(r) PROVE LeavesTokens
  BY <1>p, <1>14, BootStep, MovedLeaves DEF LeavesTokens, stream, history
<1>15. ASSUME NEW r \in Runs, Finishes(r) PROVE LeavesTokens
  BY <1>p, <1>15, FinishStep, MovedLeaves DEF LeavesTokens, stream, history
<1>16. ASSUME NEW r \in Runs, RunReturns(r) PROVE TokenKept'
  <2>1. CASE run[r].token
    BY <1>16, <2>1, ReturnStep DEF TokenKept, Runs
  <2>2. CASE ~run[r].token
    <3>1. UNCHANGED stream /\ restored' = restored /\ budget' = budget
      BY <1>16, <2>2, ReturnStep DEF history
    <3>2. \A q \in Runs : Running(q) /\ run[q].token => Running(q)' /\ run'[q].token
      BY <1>16, <2>2, ReturnStep DEF Running
    <3>3. QED
      BY <1>0, <3>1, <3>2 DEF LeavesTokens, stream
  <2>3. QED
    BY <2>1, <2>2
<1>17. ASSUME NEW r \in Runs, Pastes(r) PROVE LeavesTokens
  BY <1>17, PasteStep DEF LeavesTokens, stream, history, Running
<1>18. ASSUME NEW r \in Runs, Downloads(r) PROVE LeavesTokens
  BY <1>18, DownloadStep DEF LeavesTokens, stream, history, Running
<1>19. ASSUME NEW r \in Runs, Copied(r) \/ Truncated(r) PROVE LeavesTokens
  BY <1>19, CopyEndStep DEF LeavesTokens, stream, history, Running
<1>20. ASSUME NEW r \in Runs, Ages(r) PROVE LeavesTokens
  BY <1>20, AgeStep DEF LeavesTokens, stream, history, Running
<1>21. ASSUME StopMigration PROVE LeavesTokens
  BY <1>21, StopStep DEF LeavesTokens, stream, Running
<1>22. ASSUME Restart PROVE TokenKept'
  BY <1>22, RestartStep DEF TokenKept
<1>23. ASSUME UNCHANGED vars PROVE LeavesTokens
  BY <1>23 DEF vars, LeavesTokens, stream, history, Running
<1>24. QED
  BY Steps, <1>0, <1>1, <1>2, <1>3, <1>4, <1>5, <1>6, <1>7, <1>8, <1>9, <1>10, <1>11, <1>12,
     <1>13, <1>14, <1>15, <1>16, <1>17, <1>18, <1>19, <1>20, <1>21, <1>22, <1>23

\* A token does not outlive its run, whatever becomes of the run, however many cutovers
\* overlap: only a restart of the appliance (restoreCutoverState) can leave a token
\* behind that no finalizeDisk will drop.
THEOREM TokensEnd == Spec => []TokenEndsWithRun
<1>1. Init => TokenKept
  BY DEF Init, TokenKept, Nothing, Runs
<1>2. TypeOK /\ TokenKept /\ [Next]_vars => TokenKept'
  BY TokenKeptNext
<1>3. TokenKept => TokenEndsWithRun
  BY DEF TokenKept, TokenEndsWithRun
<1>4. QED
  BY DiskTypeCorrect, <1>1, <1>2, <1>3, PTL DEF Spec
(***************************************************************************)
(* The invariant.                                                          *)
(***************************************************************************)

\* The places of a run: before its token, with its instance recorded, with all its
\* clones recorded, past the disk.
Tokenless == {"unused", "begin", "create", "created", "disk", "clone", "cloned", "register"}
Making    == {"create", "created", "disk", "clone", "cloned"}
Made      == {"register", "command", "rescue", "wait", "attach", "boot", "finish"}

\* One run is at work, and while it has not been stopped, its migration is migrating.
Alone ==
    /\ \A p, q \in Runs : Running(p) /\ Running(q) => p = q
    /\ \A r \in Runs : Running(r) /\ run[r].live /\ ~At(r, "ending") => state = "migrating"

\* The row holds what the run has made so far, and nothing else.
RowFollows ==
    \A r \in Runs :
        /\ At(r, "begin") => run[r].seen = row
        /\ run[r].pc \in {"create", "created"} => row.inst = 0
        /\ run[r].pc \in (Making \cup Made) \ {"create", "created"} => row.inst = r
        /\ run[r].pc \in {"begin", "create", "created", "disk"} => run[r].todo = DataDisks
        /\ run[r].pc \in Made => run[r].todo = {}
        /\ run[r].pc \in Making \cup Made =>
              \A d \in DataDisks : row.clone[d] = IF d \in run[r].todo THEN 0 ELSE r

\* A clone about to be recorded is the only one that is not, and what is recorded exists.
ClonesFollow ==
    /\ \A r \in Runs : At(r, "cloned") =>
          \E d \in run[r].todo :
              /\ <<d, r>> \in clones
              /\ \A x \in clones : x[2] = r /\ x[1] # d => row.clone[x[1]] = r \/ x \in lost
    /\ \A d \in DataDisks : row.clone[d] # 0 => <<d, row.clone[d]>> \in clones

\* Only an instance in rescue mode runs the script, and the instance has what its run
\* needs of it at its place: while the run waits, it is off only behind the end of a
\* copy of the run's own image.
Rescued(r) == guest[r].pc # "idle" => inst[r] = "rescue"

InPlace(r) ==
    /\ run[r].pc \in {"unused", "begin", "create"} => inst[r] = "none"
    /\ run[r].pc \in {"created", "disk", "clone", "cloned", "register", "command", "rescue"} =>
          inst[r] = "off"
    /\ At(r, "wait") => inst[r] \in {"off", "rescue"}
    /\ run[r].pc \in {"attach", "boot"} => inst[r] = "off"
    /\ At(r, "finish") => inst[r] = "running"
    /\ run[r].pc \in {"attach", "boot", "finish"} => disk[r] \in {"whole", "cut short"}

CopiesOwn(r) ==
    At(r, "wait") /\ run[r].live =>
        /\ inst[r] = "off" => disk[r] \in {"whole", "cut short"}
        /\ guest[r].pc # "idle" => guest[r].token = r /\ ~guest[r].torn

InstanceFollows == \A r \in Runs : Rescued(r) /\ InPlace(r) /\ CopiesOwn(r)

\* The run's token is good from its registration until the wait is over.
TokenFollows ==
    \A r \in Runs :
        /\ run[r].pc \in Tokenless => r \notin register /\ saved.token # r /\ late[r] = 0
        /\ run[r].pc \in {"command", "rescue", "wait"} => r \in register /\ saved.token = r
        /\ run[r].pc \in {"rescue", "wait"} => card = r /\ saved.cmd = r
        /\ run[r].pc \in {"command", "rescue"} => late[r] = 0
        /\ At(r, "wait") /\ run[r].live => late[r] < 2

\* A run cut short in its wait left its migration migrating, with nothing else at work.
StrandedWaits ==
    stranded # 0 => state = "migrating" /\ \A r \in Runs : ~Running(r)

\* What a restart has brought back of a wait it cut short, still makes the command good.
Restored ==
    \A r \in Runs : stranded = r /\ late[r] < 2 =>
        card = r /\ Authorized(r) /\ saved = [token |-> r, cmd |-> r]

LaunchedRests == state = "launched" => \A r \in Runs : Running(r) => At(r, "ending")

DiskInv ==
    /\ Alone /\ RowFollows /\ ClonesFollow /\ InstanceFollows /\ TokenFollows
    /\ StrandedWaits /\ LaunchedRests
    /\ LaunchedWhole /\ Restored /\ Accounted


(***************************************************************************)
(* Each part is kept.                                                      *)
(***************************************************************************)

\* A run that is at work is alone, and a step of it leaves the others where they are.
LEMMA Others ==
    ASSUME Alone, NEW r \in Runs, Running(r)
    PROVE  \A q \in Runs \ {r} : run[q].pc \in {"unused", "done"}
BY DEF Alone, Running

RunActs(r) ==
    \/ CleansUp(r) \/ CreatesInstance(r) \/ RecordsInstance(r) \/ CreatesDisk(r) \/ ClonesData(r)
    \/ RecordsClone(r) \/ Registers(r) \/ SetsCommand(r) \/ Rescues(r) \/ CopyDone(r)
    \/ BudgetOver(r) \/ StopsWaiting(r) \/ Attaches(r) \/ Boots(r) \/ Finishes(r) \/ RunReturns(r)

GuestActs(r) == Pastes(r) \/ Downloads(r) \/ Copied(r) \/ Truncated(r)

LEMMA RunActsAlone ==
    ASSUME TypeOK, Alone, NEW r \in Runs, RunActs(r)
    PROVE  /\ Running(r)
           /\ run'[r].pc \in RunPcs \ {"unused"}
           /\ At(r, "ending") => run'[r].pc = "done"
           /\ run'[r].pc # "done" => run'[r].live = run[r].live
           /\ run'[r].pc \notin {"ending", "done"} => state' = state
           /\ state' \in {state, "failed"} \/ (At(r, "finish") /\ state' = "launched")
           /\ stranded' = stranded
           /\ \A q \in Runs \ {r} : run'[q] = run[q] /\ run[q].pc \in {"unused", "done"}
<1> USE DEF At, Moved, Running, RunPcs, history
<1>1. CASE CleansUp(r)
  BY <1>1, CleanStep, Others
<1>2. CASE CreatesInstance(r)
  BY <1>2, CreateStep, Others
<1>3. CASE RecordsInstance(r)
  BY <1>3, RecordStep, Others
<1>4. CASE CreatesDisk(r)
  BY <1>4, DiskStep, Others
<1>5. CASE ClonesData(r)
  BY <1>5, CloneStep, Others
<1>6. CASE RecordsClone(r)
  BY <1>6, RecordCloneStep, Others DEF CloneRecorded
<1>7. CASE Registers(r)
  BY <1>7, RegisterStep, Others
<1>8. CASE SetsCommand(r)
  BY <1>8, CommandStep, Others
<1>9. CASE Rescues(r)
  BY <1>9, RescueStep, Others
<1>10. CASE CopyDone(r)
  BY <1>10, DoneStep, Others
<1>11. CASE BudgetOver(r) \/ StopsWaiting(r)
  BY <1>11, OverStep, Others
<1>12. CASE Attaches(r)
  BY <1>12, AttachStep, Others
<1>13. CASE Boots(r)
  BY <1>13, BootStep, Others
<1>14. CASE Finishes(r)
  BY <1>14, FinishStep, Others
<1>15. CASE RunReturns(r)
  BY <1>15, ReturnStep, Others
<1>16. QED
  BY <1>1, <1>2, <1>3, <1>4, <1>5, <1>6, <1>7, <1>8, <1>9, <1>10, <1>11, <1>12, <1>13, <1>14,
     <1>15 DEF RunActs

\* A step of the rescue system or of time leaves the runs alone, and nearly all else.
LEMMA OtherActs ==
    ASSUME TypeOK, NEW r \in Runs, GuestActs(r) \/ Ages(r)
    PROVE  UNCHANGED <<state, row, run, watched, clones, stream, budget, history>>
BY PasteStep, DownloadStep, CopyEndStep, AgeStep DEF GuestActs, cloud

LEMMA Kinds ==
    ASSUME [Next]_vars
    PROVE  \/ \E r \in Runs : StartMigration(r) \/ RunActs(r) \/ GuestActs(r) \/ Ages(r)
           \/ StopMigration \/ Restart \/ UNCHANGED vars
BY Steps DEF RunActs, GuestActs

LEMMA AloneNext ==
    ASSUME TypeOK, Alone, ~MayLag, [Next]_vars
    PROVE  Alone'
<1>1. ASSUME NEW r \in Runs, StartMigration(r) PROVE Alone'
  BY <1>1, StartStep DEF Alone, Running, At
<1>2. ASSUME NEW r \in Runs, RunActs(r) PROVE Alone'
  <2>1. \A q \in Runs : Running(q)' => q = r
    BY <1>2, RunActsAlone DEF Running
  <2>2. Running(r)' /\ run'[r].live /\ ~At(r, "ending")' => state' = "migrating"
    BY <1>2, RunActsAlone DEF Alone, Running, At
  <2>3. QED
    BY <2>1, <2>2 DEF Alone
<1>3. ASSUME NEW r \in Runs, GuestActs(r) \/ Ages(r) PROVE Alone'
  BY <1>3, OtherActs DEF Alone, Running, At
<1>4. ASSUME StopMigration PROVE Alone'
  BY <1>4, StopStep DEF Alone, Running, At
<1>5. ASSUME Restart PROVE Alone'
  BY <1>5, RestartStep DEF Alone, Running, At
<1>6. ASSUME UNCHANGED vars PROVE Alone'
  BY <1>6 DEF vars, Alone, Running, At
<1>7. QED
  BY Kinds, <1>1, <1>2, <1>3, <1>4, <1>5, <1>6

LEMMA StrandedNext ==
    ASSUME TypeOK, Alone, StrandedWaits, LaunchedRests, ~MayLag, [Next]_vars
    PROVE  StrandedWaits' /\ LaunchedRests'
<1>1. ASSUME NEW r \in Runs, StartMigration(r) PROVE StrandedWaits' /\ LaunchedRests'
  BY <1>1, StartStep DEF StrandedWaits, LaunchedRests
<1>2. ASSUME NEW r \in Runs, RunActs(r) PROVE StrandedWaits' /\ LaunchedRests'
  <2>1. stranded' = 0
    BY <1>2, RunActsAlone DEF StrandedWaits
  <2>2. StrandedWaits'
    BY <2>1 DEF StrandedWaits
  <2>3. state' = "launched" => run'[r].pc \in {"ending", "done"}
    BY <1>2, RunActsAlone DEF LaunchedRests, At
  <2>4. LaunchedRests'
    BY <1>2, <2>3, RunActsAlone DEF LaunchedRests, Running, At
  <2>5. QED
    BY <2>2, <2>4
<1>3. ASSUME NEW r \in Runs, GuestActs(r) \/ Ages(r) PROVE StrandedWaits' /\ LaunchedRests'
  BY <1>3, OtherActs DEF StrandedWaits, LaunchedRests, Running, At, history
<1>4. ASSUME StopMigration PROVE StrandedWaits' /\ LaunchedRests'
  BY <1>4, StopStep DEF StrandedWaits, LaunchedRests
<1>5. ASSUME Restart PROVE StrandedWaits' /\ LaunchedRests'
  <2>1. \A q \in Runs : ~Running(q)'
    BY <1>5, RestartStep DEF Running
  <2>2. stranded' # 0 => state' = "migrating"
    BY <1>5, RestartStep DEF Alone, StrandedWaits, Running, At
  <2>3. QED
    BY <2>1, <2>2 DEF StrandedWaits, LaunchedRests
<1>6. ASSUME UNCHANGED vars PROVE StrandedWaits' /\ LaunchedRests'
  BY <1>6 DEF vars, StrandedWaits, LaunchedRests, Running, At, history
<1>7. QED
  BY Kinds, <1>1, <1>2, <1>3, <1>4, <1>5, <1>6
LEMMA RowFollowsNext ==
    ASSUME TypeOK, Alone, RowFollows, ~MayLag, [Next]_vars
    PROVE  RowFollows'
<1> USE DEF At, Making, Made
<1>1. ASSUME NEW r \in Runs, StartMigration(r) PROVE RowFollows'
  BY <1>1, StartStep DEF RowFollows, Running
<1>2. ASSUME NEW r \in Runs, RunActs(r),
             run'[r].pc = "begin" => run'[r].seen = row',
             run'[r].pc \in {"create", "created"} => row'.inst = 0,
             run'[r].pc \in (Making \cup Made) \ {"create", "created"} => row'.inst = r,
             run'[r].pc \in {"begin", "create", "created", "disk"} => run'[r].todo = DataDisks,
             run'[r].pc \in Made => run'[r].todo = {},
             run'[r].pc \in Making \cup Made =>
                 \A d \in DataDisks : row'.clone[d] = IF d \in run'[r].todo THEN 0 ELSE r
      PROVE  RowFollows'
  BY <1>2, RunActsAlone DEF RowFollows
<1>3. ASSUME NEW r \in Runs, RunActs(r), run'[r].pc \in {"ending", "done"} PROVE RowFollows'
  BY <1>3, <1>2
<1>4. ASSUME NEW r \in Runs, CleansUp(r) PROVE RowFollows'
  <2>1. /\ row'.inst = 0
        /\ \A d \in DataDisks : row'.clone[d] = IF row.clone[d] # 0 THEN 0 ELSE row.clone[d]
        /\ run'[r].pc = "create" /\ run'[r].todo = DataDisks
    BY <1>4, CleanStep DEF RowFollows
  <2>2. QED
    BY <1>2, <1>4, <2>1 DEF RunActs
<1>5. ASSUME NEW r \in Runs, CreatesInstance(r) PROVE RowFollows'
  <2>1. CASE run'[r].pc = "ending"
    BY <1>3, <1>5, <2>1 DEF RunActs
  <2>2. CASE run'[r].pc # "ending"
    <3>1. At(r, "create") /\ Moved(r, "created") /\ row' = row
      BY <1>5, <2>2, CreateStep DEF Moved
    <3>2. QED
      BY <1>2, <1>5, <3>1 DEF RunActs, Moved, RowFollows
  <2>3. QED
    BY <2>1, <2>2
<1>6. ASSUME NEW r \in Runs, RecordsInstance(r) PROVE RowFollows'
  <2>1. CASE run'[r].pc = "ending"
    BY <1>3, <1>6, <2>1 DEF RunActs
  <2>2. CASE run'[r].pc # "ending"
    <3>1. At(r, "created") /\ Moved(r, "disk") /\ row'.inst = r /\ row'.clone = row.clone
      BY <1>6, <2>2, RecordStep DEF Moved
    <3>2. QED
      BY <1>2, <1>6, <3>1 DEF RunActs, Moved, RowFollows
  <2>3. QED
    BY <2>1, <2>2
<1>7. ASSUME NEW r \in Runs, CreatesDisk(r) PROVE RowFollows'
  <2>1. CASE run'[r].pc = "ending"
    BY <1>3, <1>7, <2>1 DEF RunActs
  <2>2. CASE run'[r].pc # "ending"
    <3>1. At(r, "disk") /\ row' = row /\ run[r].todo = DataDisks
      BY <1>7, DiskStep DEF RowFollows
    <3>2. (Moved(r, "register") /\ DataDisks = {}) \/ Moved(r, "clone")
      BY <1>7, <2>2, DiskStep DEF Moved
    <3>3. QED
      BY <1>2, <1>7, <3>1, <3>2 DEF RunActs, Moved, RowFollows
  <2>3. QED
    BY <2>1, <2>2
<1>8. ASSUME NEW r \in Runs, ClonesData(r) PROVE RowFollows'
  <2>1. CASE run'[r].pc = "ending"
    BY <1>3, <1>8, <2>1 DEF RunActs
  <2>2. CASE run'[r].pc # "ending"
    <3>1. At(r, "clone") /\ row' = row /\ Moved(r, "cloned")
      BY <1>8, <2>2, CloneStep DEF Moved
    <3>2. QED
      BY <1>2, <1>8, <3>1 DEF RunActs, Moved, RowFollows
  <2>3. QED
    BY <2>1, <2>2
<1>9. ASSUME NEW r \in Runs, RecordsClone(r) PROVE RowFollows'
  <2>1. CASE run'[r].pc = "ending"
    BY <1>3, <1>9, <2>1 DEF RunActs
  <2>2. CASE run'[r].pc # "ending"
    <3>0. PICK d \in run[r].todo : CloneRecorded(r, d)
      BY <1>9, RecordCloneStep
    <3>1. /\ row'.inst = row.inst
          /\ \A e \in DataDisks : row'.clone[e] = IF e = d THEN r ELSE row.clone[e]
          /\ run'[r].pc = IF run[r].todo = {d} THEN "register" ELSE "clone"
          /\ run'[r].todo = run[r].todo \ {d}
      BY <2>2, <3>0 DEF Moved, CloneRecorded
    <3>2. /\ At(r, "cloned") /\ row.inst = r
          /\ \A e \in DataDisks : row.clone[e] = IF e \in run[r].todo THEN 0 ELSE r
      BY <1>9, RecordCloneStep DEF RowFollows
    <3>3. \A e \in DataDisks : row'.clone[e] = IF e \in run'[r].todo THEN 0 ELSE r
      BY <3>1, <3>2
    <3>4. run'[r].pc \in Made => run'[r].todo = {}
      BY <3>1
    <3>5. QED
      BY <1>2, <1>9, <3>1, <3>2, <3>3, <3>4 DEF RunActs
  <2>3. QED
    BY <2>1, <2>2
<1>10. ASSUME NEW r \in Runs, Registers(r) PROVE RowFollows'
  BY <1>2, <1>10, RegisterStep DEF RunActs, RowFollows
<1>11. ASSUME NEW r \in Runs, SetsCommand(r) PROVE RowFollows'
  BY <1>2, <1>11, CommandStep DEF RunActs, RowFollows, Moved
<1>12. ASSUME NEW r \in Runs, Rescues(r) PROVE RowFollows'
  <2>1. At(r, "rescue") /\ row' = row /\ (Moved(r, "wait") \/ Moved(r, "ending"))
    BY <1>12, RescueStep
  <2>2. QED
    BY <1>2, <1>12, <2>1 DEF RunActs, RowFollows, Moved
<1>13. ASSUME NEW r \in Runs, CopyDone(r) PROVE RowFollows'
  BY <1>2, <1>13, DoneStep DEF RunActs, RowFollows, Moved
<1>14. ASSUME NEW r \in Runs, BudgetOver(r) \/ StopsWaiting(r) PROVE RowFollows'
  BY <1>3, <1>14, OverStep DEF RunActs, Moved
<1>15. ASSUME NEW r \in Runs, Attaches(r) PROVE RowFollows'
  <2>1. At(r, "attach") /\ row' = row /\ (Moved(r, "boot") \/ Moved(r, "ending"))
    BY <1>15, AttachStep
  <2>2. QED
    BY <1>2, <1>15, <2>1 DEF RunActs, RowFollows, Moved
<1>16. ASSUME NEW r \in Runs, Boots(r) PROVE RowFollows'
  <2>1. At(r, "boot") /\ row' = row /\ (Moved(r, "finish") \/ Moved(r, "ending"))
    BY <1>16, BootStep
  <2>2. QED
    BY <1>2, <1>16, <2>1 DEF RunActs, RowFollows, Moved
<1>17. ASSUME NEW r \in Runs, Finishes(r) \/ RunReturns(r) PROVE RowFollows'
  BY <1>3, <1>17, FinishStep, ReturnStep DEF RunActs, Moved
<1>18. ASSUME NEW r \in Runs, GuestActs(r) \/ Ages(r) PROVE RowFollows'
  BY <1>18, OtherActs DEF RowFollows
<1>19. ASSUME StopMigration PROVE RowFollows'
  BY <1>19, StopStep DEF RowFollows
<1>20. ASSUME Restart PROVE RowFollows'
  BY <1>20, RestartStep DEF RowFollows
<1>21. ASSUME UNCHANGED vars PROVE RowFollows'
  BY <1>21 DEF vars, RowFollows
<1>22. QED
  BY Steps, <1>1, <1>4, <1>5, <1>6, <1>7, <1>8, <1>9, <1>10, <1>11, <1>12, <1>13, <1>14, <1>15,
     <1>16, <1>17, <1>18, <1>19, <1>20, <1>21 DEF GuestActs
LEMMA TokenFollowsNext ==
    ASSUME TypeOK, Alone, TokenFollows, ~MayLag, [Next]_vars
    PROVE  TokenFollows'
<1> USE DEF At, Tokenless
<1>y. 0 \notin Runs
  BY DEF Runs
<1>z. 0 \notin Runs /\ saved \in Tokens
  BY <1>y, Typed
<1>1. ASSUME NEW r \in Runs, StartMigration(r) PROVE TokenFollows'
  BY <1>1, StartStep DEF TokenFollows, stream
\* A step of a run at work that leaves the tokens alone, on one side of the wait.
<1>2. ASSUME NEW r \in Runs, RunActs(r), UNCHANGED <<stream, late>>,
             run'[r].pc \in Tokenless => run[r].pc \in Tokenless,
             run'[r].pc \notin {"command", "rescue"},
             run'[r].pc = "wait" => run[r].pc = "rescue"
      PROVE  TokenFollows'
  BY <1>2, RunActsAlone DEF TokenFollows, stream
<1>3. ASSUME NEW r \in Runs, CleansUp(r) PROVE TokenFollows'
  BY <1>2, <1>3, CleanStep DEF RunActs
<1>4. ASSUME NEW r \in Runs, CreatesInstance(r) PROVE TokenFollows'
  <2>1. At(r, "create") /\ run'[r].pc \in {"created", "ending"} /\ UNCHANGED <<stream, late>>
    BY <1>4, CreateStep DEF Moved
  <2>2. QED
    BY <1>2, <1>4, <2>1 DEF RunActs
<1>5. ASSUME NEW r \in Runs, RecordsInstance(r) PROVE TokenFollows'
  <2>1. At(r, "created") /\ run'[r].pc \in {"disk", "ending"} /\ UNCHANGED <<stream, late>>
    BY <1>5, RecordStep DEF Moved
  <2>2. QED
    BY <1>2, <1>5, <2>1 DEF RunActs
<1>6. ASSUME NEW r \in Runs, CreatesDisk(r) PROVE TokenFollows'
  <2>1. At(r, "disk") /\ run'[r].pc \in {"register", "clone", "ending"} /\ UNCHANGED <<stream, late>>
    BY <1>6, DiskStep DEF Moved
  <2>2. QED
    BY <1>2, <1>6, <2>1 DEF RunActs
<1>7. ASSUME NEW r \in Runs, ClonesData(r) PROVE TokenFollows'
  <2>1. At(r, "clone") /\ run'[r].pc \in {"cloned", "ending"} /\ UNCHANGED <<stream, late>>
    BY <1>7, CloneStep DEF Moved
  <2>2. QED
    BY <1>2, <1>7, <2>1 DEF RunActs
<1>8. ASSUME NEW r \in Runs, RecordsClone(r) PROVE TokenFollows'
  <2>1. /\ At(r, "cloned") /\ run'[r].pc \in {"clone", "register", "ending"}
        /\ UNCHANGED <<stream, late>>
    BY <1>8, RecordCloneStep DEF Moved, CloneRecorded
  <2>2. QED
    BY <1>2, <1>8, <2>1 DEF RunActs
<1>9. ASSUME NEW r \in Runs, Registers(r) PROVE TokenFollows'
  <2>1. /\ late' = late /\ register' = register \cup {r} /\ saved'.token = r
        /\ At(r, "register") /\ run'[r].pc = "command"
    BY <1>9, RegisterStep
  <2>2. \A q \in Runs \ {r} : run'[q] = run[q] /\ run[q].pc \in {"unused", "done"}
    BY <1>9, RunActsAlone DEF RunActs
  <2>3. QED
    BY <2>1, <2>2 DEF TokenFollows
<1>10. ASSUME NEW r \in Runs, SetsCommand(r) PROVE TokenFollows'
  <2>1. /\ late' = late /\ register' = register /\ saved'.token = saved.token /\ card' = r
        /\ At(r, "command") /\ run'[r].pc = "rescue"
        /\ saved.token # 0 => saved'.cmd = r
    BY <1>10, CommandStep DEF Moved
  <2>2. \A q \in Runs \ {r} : run'[q] = run[q] /\ run[q].pc \in {"unused", "done"}
    BY <1>10, RunActsAlone DEF RunActs
  <2>3. saved.token = r
    BY <2>1 DEF TokenFollows
  <2>4. QED
    BY <1>z, <2>1, <2>2, <2>3 DEF TokenFollows
<1>11. ASSUME NEW r \in Runs, Rescues(r) PROVE TokenFollows'
  <2>1. At(r, "rescue") /\ run'[r].pc \in {"wait", "ending"} /\ UNCHANGED <<stream, late>>
    BY <1>11, RescueStep DEF Moved
  <2>2. QED
    BY <1>2, <1>11, <2>1 DEF RunActs
<1>12. ASSUME NEW r \in Runs, CopyDone(r) PROVE TokenFollows'
  <2>1. /\ late' = late /\ register' = {} /\ saved'.token = 0 /\ run'[r].pc = "attach"
    BY <1>12, DoneStep DEF Moved
  <2>2. \A q \in Runs \ {r} : run'[q] = run[q] /\ run[q].pc \in {"unused", "done"}
    BY <1>12, RunActsAlone DEF RunActs
  <2>3. QED
    BY <1>z, <2>1, <2>2 DEF TokenFollows
<1>13. ASSUME NEW r \in Runs, BudgetOver(r) \/ StopsWaiting(r) PROVE TokenFollows'
  BY <1>2, <1>13, OverStep DEF RunActs, Moved
<1>14. ASSUME NEW r \in Runs, Attaches(r) PROVE TokenFollows'
  <2>1. At(r, "attach") /\ run'[r].pc \in {"boot", "ending"} /\ UNCHANGED <<stream, late>>
    BY <1>14, AttachStep DEF Moved
  <2>2. QED
    BY <1>2, <1>14, <2>1 DEF RunActs
<1>15. ASSUME NEW r \in Runs, Boots(r) PROVE TokenFollows'
  <2>1. At(r, "boot") /\ run'[r].pc \in {"finish", "ending"} /\ UNCHANGED <<stream, late>>
    BY <1>15, BootStep DEF Moved
  <2>2. QED
    BY <1>2, <1>15, <2>1 DEF RunActs
<1>16. ASSUME NEW r \in Runs, Finishes(r) PROVE TokenFollows'
  BY <1>2, <1>16, FinishStep DEF RunActs, Moved
<1>17. ASSUME NEW r \in Runs, RunReturns(r) PROVE TokenFollows'
  <2>1. /\ late' = late /\ run'[r].pc = "done"
        /\ (register' = {} /\ saved'.token = 0) \/ UNCHANGED stream
    BY <1>17, ReturnStep
  <2>2. \A q \in Runs \ {r} : run'[q] = run[q] /\ run[q].pc \in {"unused", "done"}
    BY <1>17, RunActsAlone DEF RunActs
  <2>3. QED
    BY <1>z, <2>1, <2>2 DEF TokenFollows, stream
<1>18. ASSUME NEW r \in Runs, GuestActs(r) PROVE TokenFollows'
  <2>1. late' = late
    BY <1>18, PasteStep, DownloadStep, CopyEndStep DEF GuestActs
  <2>2. QED
    BY <1>18, <2>1, OtherActs DEF TokenFollows, stream
<1>19. ASSUME NEW r \in Runs, Ages(r) PROVE TokenFollows'
  <2>1. /\ saved.token = r \/ r \in register
        /\ run[r].pc \notin {"command", "rescue"}
        /\ run[r].pc = "wait" /\ run[r].live => late'[r] = 1
        /\ \A q \in Runs \ {r} : late'[q] = late[q]
        /\ UNCHANGED <<run, stream>>
    BY <1>19, AgeStep
  <2>2. QED
    BY <2>1 DEF TokenFollows, stream
<1>20. ASSUME StopMigration PROVE TokenFollows'
  BY <1>20, StopStep DEF TokenFollows, stream
<1>21. ASSUME Restart PROVE TokenFollows'
  <2>1. Back.token \in {saved.token, 0} /\ saved'.token \in {saved.token, 0}
    BY <1>21, RestartStep DEF Back, Nothing
  <2>2. \A q \in Runs : run'[q].pc = "done" \/ (run'[q].pc = "unused" /\ run[q].pc = "unused")
    BY <1>21, RestartStep
  <2>3. register' = {Back.token} \ {0} /\ late' = late
    BY <1>21, RestartStep
  <2>4. QED
    BY <1>z, <2>1, <2>2, <2>3 DEF TokenFollows
<1>22. ASSUME UNCHANGED vars PROVE TokenFollows'
  BY <1>22 DEF vars, TokenFollows, stream
<1>23. QED
  BY Steps, <1>1, <1>3, <1>4, <1>5, <1>6, <1>7, <1>8, <1>9, <1>10, <1>11, <1>12, <1>13, <1>14,
     <1>15, <1>16, <1>17, <1>18, <1>19, <1>20, <1>21, <1>22 DEF GuestActs

\* The instance of a run that a step passes by.
LEMMA PassedBy ==
    ASSUME NEW q \in Runs, InstanceFollows,
           run'[q].pc = run[q].pc, run'[q].live => run[q].live,
           inst'[q] = inst[q], disk'[q] = disk[q],
           guest'[q] = guest[q] \/ (guest'[q].pc = guest[q].pc /\ ~run'[q].live)
    PROVE  Rescued(q)' /\ InPlace(q)' /\ CopiesOwn(q)'
<1>1. Rescued(q) /\ InPlace(q) /\ CopiesOwn(q)
  BY DEF InstanceFollows
<1>2. Rescued(q)'
  BY <1>1 DEF Rescued
<1>3. InPlace(q)'
  BY <1>1 DEF InPlace, At
<1>4. CopiesOwn(q)'
  BY <1>1 DEF CopiesOwn, At
<1>5. QED
  BY <1>2, <1>3, <1>4

LEMMA InstanceFollowsNext ==
    ASSUME TypeOK, Alone, TokenFollows, InstanceFollows, ~MayLag, [Next]_vars
    PROVE  InstanceFollows'
<1> USE DEF At
<1>t. inst \in [Runs -> {"none", "off", "rescue", "running"}]
  BY Typed
<1>f. \A q \in Runs : Rescued(q) /\ InPlace(q) /\ CopiesOwn(q)
  BY DEF InstanceFollows
\* A step of one run, by its effect on that run's instance.
<1>0. ASSUME NEW r \in Runs, RunActs(r),
             \A q \in Runs \ {r} : inst'[q] = inst[q] /\ disk'[q] = disk[q],
             guest' = guest, Rescued(r)', InPlace(r)', CopiesOwn(r)'
      PROVE  InstanceFollows'
  <2>1. ASSUME NEW q \in Runs \ {r} PROVE Rescued(q)' /\ InPlace(q)' /\ CopiesOwn(q)'
    <3>1. run'[q] = run[q] /\ inst'[q] = inst[q] /\ disk'[q] = disk[q] /\ guest'[q] = guest[q]
      BY <1>0, RunActsAlone
    <3>2. QED
      BY <3>1, PassedBy
  <2>2. QED
    BY <1>0, <2>1 DEF InstanceFollows
\* One that leaves the cloud alone.
<1>1. ASSUME NEW r \in Runs, RunActs(r), inst' = inst, disk' = disk, guest' = guest,
             \/ run'[r].pc \in {"ending", "done"}
             \/ /\ run[r].pc \in {"created", "disk", "clone", "cloned", "register", "command"}
                /\ run'[r].pc \in {"disk", "clone", "cloned", "register", "command", "rescue"}
             \/ /\ run[r].pc = "wait" /\ run[r].live /\ inst[r] = "off"
                /\ run'[r].pc = "attach"
             \/ run[r].pc = "attach" /\ run'[r].pc = "boot"
      PROVE  InstanceFollows'
  <2>1. Rescued(r)'
    BY <1>1, <1>f DEF Rescued
  <2>2. InPlace(r)'
    <3>1. InPlace(r) /\ CopiesOwn(r)
      BY <1>f
    <3>2. QED
      BY <1>1, <3>1 DEF InPlace, CopiesOwn
  <2>3. CopiesOwn(r)'
    BY <1>1 DEF CopiesOwn
  <2>4. QED
    BY <1>0, <1>1, <2>1, <2>2, <2>3
<1>2. ASSUME NEW r \in Runs, StartMigration(r) PROVE InstanceFollows'
  <2>1. /\ At(r, "unused") /\ run'[r].pc = "begin" /\ \A q \in Runs \ {r} : run'[q] = run[q]
        /\ inst' = inst /\ disk' = disk /\ guest' = guest
    BY <1>2, StartStep DEF cloud
  <2>2. \A q \in Runs \ {r} : Rescued(q)' /\ InPlace(q)' /\ CopiesOwn(q)'
    BY <2>1, PassedBy
  <2>3. Rescued(r)' /\ InPlace(r)' /\ CopiesOwn(r)'
    BY <1>f, <2>1 DEF Rescued, InPlace, CopiesOwn
  <2>4. QED
    BY <2>2, <2>3 DEF InstanceFollows
<1>3. ASSUME NEW r \in Runs, CleansUp(r) PROVE InstanceFollows'
  <2>1. ASSUME NEW q \in Runs PROVE Rescued(q)' /\ InPlace(q)' /\ CopiesOwn(q)'
    <3>1. \/ inst'[q] = "none" /\ guest'[q].pc = "idle"
          \/ inst'[q] = inst[q] /\ guest'[q] = guest[q] /\ disk'[q] = disk[q]
      BY <1>3, CleanStep
    <3>2. \/ run[q].pc = "begin" /\ run'[q].pc = "create"
          \/ run'[q] = run[q] /\ run[q].pc \in {"unused", "done"}
      BY <1>3, CleanStep, RunActsAlone DEF RunActs
    <3>3. Rescued(q)'
      BY <1>f, <3>1 DEF Rescued
    <3>4. InPlace(q)'
      BY <1>f, <3>1, <3>2 DEF InPlace
    <3>5. CopiesOwn(q)'
      BY <3>2 DEF CopiesOwn
    <3>6. QED
      BY <3>3, <3>4, <3>5
  <2>2. QED
    BY <2>1 DEF InstanceFollows
<1>4. ASSUME NEW r \in Runs, CreatesInstance(r) PROVE InstanceFollows'
  <2>1. /\ At(r, "create") /\ guest' = guest /\ disk' = disk
        /\ \/ run'[r].pc \in {"created", "ending"} /\ inst' = [inst EXCEPT ![r] = "off"]
           \/ run'[r].pc = "ending" /\ inst' = inst
    BY <1>4, CreateStep DEF Moved
  <2>2. CASE run'[r].pc = "ending" /\ inst' = inst
    BY <1>1, <1>4, <2>1, <2>2 DEF RunActs
  <2>3. CASE run'[r].pc \in {"created", "ending"} /\ inst' = [inst EXCEPT ![r] = "off"]
    <3>1. inst'[r] = "off" /\ \A q \in Runs \ {r} : inst'[q] = inst[q]
      BY <1>t, <2>3
    <3>2. guest[r].pc = "idle"
      BY <1>f, <2>1 DEF Rescued, InPlace
    <3>3. Rescued(r)' /\ InPlace(r)' /\ CopiesOwn(r)'
      BY <2>1, <2>3, <3>1, <3>2 DEF Rescued, InPlace, CopiesOwn
    <3>4. QED
      BY <1>0, <1>4, <2>1, <3>1, <3>3 DEF RunActs
  <2>4. QED
    BY <2>1, <2>2, <2>3
<1>5. ASSUME NEW r \in Runs, RecordsInstance(r) PROVE InstanceFollows'
  <2>1. /\ At(r, "created") /\ run'[r].pc \in {"disk", "ending"}
        /\ inst' = inst /\ disk' = disk /\ guest' = guest
    BY <1>5, RecordStep DEF Moved
  <2>2. QED
    BY <1>1, <1>5, <2>1 DEF RunActs
<1>6. ASSUME NEW r \in Runs, CreatesDisk(r) PROVE InstanceFollows'
  <2>1. /\ At(r, "disk") /\ run'[r].pc \in {"register", "clone", "ending"}
        /\ \A q \in Runs \ {r} : disk'[q] = disk[q]
        /\ inst' = inst /\ guest' = guest
    BY <1>6, DiskStep DEF Moved
  <2>2. Rescued(r)' /\ InPlace(r)' /\ CopiesOwn(r)'
    BY <1>f, <2>1 DEF Rescued, InPlace, CopiesOwn
  <2>3. QED
    BY <1>0, <1>6, <2>1, <2>2 DEF RunActs
<1>7. ASSUME NEW r \in Runs, ClonesData(r) PROVE InstanceFollows'
  <2>1. /\ At(r, "clone") /\ run'[r].pc \in {"cloned", "ending"}
        /\ inst' = inst /\ disk' = disk /\ guest' = guest
    BY <1>7, CloneStep DEF Moved
  <2>2. QED
    BY <1>1, <1>7, <2>1 DEF RunActs
<1>8. ASSUME NEW r \in Runs, RecordsClone(r) PROVE InstanceFollows'
  <2>1. /\ At(r, "cloned") /\ run'[r].pc \in {"clone", "register", "ending"}
        /\ inst' = inst /\ disk' = disk /\ guest' = guest
    BY <1>8, RecordCloneStep DEF Moved, CloneRecorded, cloud
  <2>2. QED
    BY <1>1, <1>8, <2>1 DEF RunActs
<1>9. ASSUME NEW r \in Runs, Registers(r) \/ SetsCommand(r) PROVE InstanceFollows'
  <2>1. /\ run[r].pc \in {"register", "command"} /\ run'[r].pc \in {"command", "rescue"}
        /\ inst' = inst /\ disk' = disk /\ guest' = guest
    BY <1>9, RegisterStep, CommandStep DEF Moved, cloud
  <2>2. QED
    BY <1>1, <1>9, <2>1 DEF RunActs
<1>10. ASSUME NEW r \in Runs, Rescues(r) PROVE InstanceFollows'
  <2>1. /\ At(r, "rescue") /\ guest' = guest /\ disk' = disk
        /\ \/ run'[r].pc = "wait" /\ inst' = [inst EXCEPT ![r] = "rescue"]
           \/ run'[r].pc = "ending" /\ inst' = inst
    BY <1>10, RescueStep DEF Moved
  <2>2. CASE run'[r].pc = "ending" /\ inst' = inst
    BY <1>1, <1>10, <2>1, <2>2 DEF RunActs
  <2>3. CASE run'[r].pc = "wait" /\ inst' = [inst EXCEPT ![r] = "rescue"]
    <3>1. inst'[r] = "rescue" /\ \A q \in Runs \ {r} : inst'[q] = inst[q]
      BY <1>t, <2>3
    <3>2. guest[r].pc = "idle"
      BY <1>f, <2>1 DEF Rescued, InPlace
    <3>3. Rescued(r)' /\ InPlace(r)' /\ CopiesOwn(r)'
      BY <2>1, <2>3, <3>1, <3>2 DEF Rescued, InPlace, CopiesOwn
    <3>4. QED
      BY <1>0, <1>10, <2>1, <3>1, <3>3 DEF RunActs
  <2>4. QED
    BY <2>1, <2>2, <2>3
<1>11. ASSUME NEW r \in Runs, CopyDone(r) PROVE InstanceFollows'
  <2>1. /\ At(r, "wait") /\ run[r].live /\ inst[r] = "off" /\ run'[r].pc = "attach"
        /\ inst' = inst /\ disk' = disk /\ guest' = guest
    BY <1>11, DoneStep DEF Moved, cloud
  <2>2. QED
    BY <1>1, <1>11, <2>1 DEF RunActs
<1>12. ASSUME NEW r \in Runs, BudgetOver(r) \/ StopsWaiting(r) PROVE InstanceFollows'
  BY <1>1, <1>12, OverStep DEF RunActs, Moved, cloud
<1>13. ASSUME NEW r \in Runs, Attaches(r) PROVE InstanceFollows'
  <2>1. /\ At(r, "attach") /\ run'[r].pc \in {"boot", "ending"}
        /\ inst' = inst /\ disk' = disk /\ guest' = guest
    BY <1>13, AttachStep DEF Moved, cloud
  <2>2. QED
    BY <1>1, <1>13, <2>1 DEF RunActs
<1>14. ASSUME NEW r \in Runs, Boots(r) PROVE InstanceFollows'
  <2>1. /\ At(r, "boot") /\ guest' = guest /\ disk' = disk
        /\ \/ run'[r].pc = "finish" /\ inst' = [inst EXCEPT ![r] = "running"]
           \/ run'[r].pc = "ending" /\ inst' = inst
    BY <1>14, BootStep DEF Moved
  <2>2. CASE run'[r].pc = "ending" /\ inst' = inst
    BY <1>1, <1>14, <2>1, <2>2 DEF RunActs
  <2>3. CASE run'[r].pc = "finish" /\ inst' = [inst EXCEPT ![r] = "running"]
    <3>1. inst'[r] = "running" /\ \A q \in Runs \ {r} : inst'[q] = inst[q]
      BY <1>t, <2>3
    <3>2. guest[r].pc = "idle" /\ disk[r] \in {"whole", "cut short"}
      BY <1>f, <2>1 DEF Rescued, InPlace
    <3>3. Rescued(r)' /\ InPlace(r)' /\ CopiesOwn(r)'
      BY <2>1, <2>3, <3>1, <3>2 DEF Rescued, InPlace, CopiesOwn
    <3>4. QED
      BY <1>0, <1>14, <2>1, <3>1, <3>3 DEF RunActs
  <2>4. QED
    BY <2>1, <2>2, <2>3
<1>15. ASSUME NEW r \in Runs, Finishes(r) \/ RunReturns(r) PROVE InstanceFollows'
  BY <1>1, <1>15, FinishStep, ReturnStep DEF RunActs, Moved, cloud
\* A step of the rescue system, by its effect on the instance it runs on.
<1>16. ASSUME NEW r \in Runs, run' = run,
              \A q \in Runs \ {r} :
                 guest'[q] = guest[q] /\ inst'[q] = inst[q] /\ disk'[q] = disk[q],
              inst[r] = "rescue", inst'[r] \in {"off", "rescue"}, Rescued(r)', CopiesOwn(r)'
       PROVE  InstanceFollows'
  <2>1. \A q \in Runs \ {r} : Rescued(q)' /\ InPlace(q)' /\ CopiesOwn(q)'
    BY <1>16, PassedBy
  <2>2. InPlace(r)'
    <3>1. InPlace(r)
      BY <1>f
    <3>2. QED
      BY <1>16, <3>1 DEF InPlace
  <2>3. QED
    BY <1>16, <2>1, <2>2 DEF InstanceFollows
<1>17. ASSUME NEW r \in Runs, Pastes(r) PROVE InstanceFollows'
  <2>1. /\ inst[r] = "rescue" /\ inst' = inst /\ disk' = disk /\ run' = run
        /\ guest'[r].token = card /\ ~guest'[r].torn
        /\ \A q \in Runs \ {r} : guest'[q] = guest[q]
    BY <1>17, PasteStep DEF cloud
  <2>2. At(r, "wait") => card = r
    BY DEF TokenFollows
  <2>3. Rescued(r)' /\ CopiesOwn(r)'
    BY <2>1, <2>2 DEF Rescued, CopiesOwn
  <2>4. QED
    BY <1>16, <2>1, <2>3
<1>18. ASSUME NEW r \in Runs, Downloads(r) PROVE InstanceFollows'
  <2>1. inst[r] = "rescue" /\ guest[r].pc # "idle"
    BY <1>18, <1>f, DownloadStep DEF Rescued
  <2>2. /\ run' = run
        /\ \A q \in Runs \ {r} : guest'[q] = guest[q] /\ inst'[q] = inst[q] /\ disk'[q] = disk[q]
    BY <1>18, DownloadStep
  <2>3. At(r, "wait") /\ run[r].live =>
           /\ guest[r].token = r /\ Authorized(r) /\ state = "migrating"
    BY <1>f, <2>1 DEF CopiesOwn, TokenFollows, Authorized, Alone, Running
  <2>4. \/ /\ guest'[r].token = guest[r].token /\ guest'[r].torn = (state # "migrating")
           /\ inst' = inst
        \/ /\ ~Authorized(guest[r].token) /\ guest'[r].pc = "idle"
           /\ inst'[r] = "off" \/ inst'[r] = inst[r]
    BY <1>18, DownloadStep
  <2>5. inst'[r] \in {"off", "rescue"} /\ Rescued(r)'
    BY <2>1, <2>4 DEF Rescued
  <2>6. CopiesOwn(r)'
    BY <2>1, <2>2, <2>3, <2>4 DEF CopiesOwn
  <2>7. QED
    BY <1>16, <2>1, <2>2, <2>5, <2>6
<1>19. ASSUME NEW r \in Runs, Copied(r) \/ Truncated(r) PROVE InstanceFollows'
  <2>1. inst[r] = "rescue" /\ guest[r].pc # "idle"
    BY <1>19, <1>f, CopyEndStep DEF Rescued
  <2>2. /\ run' = run /\ guest'[r].pc = "idle"
        /\ disk'[r] \in {"whole", "cut short"} \/ guest[r].torn
        /\ inst'[r] = "off" \/ inst'[r] = inst[r]
        /\ \A q \in Runs \ {r} : guest'[q] = guest[q] /\ inst'[q] = inst[q] /\ disk'[q] = disk[q]
    BY <1>19, CopyEndStep
  <2>3. At(r, "wait") /\ run[r].live => ~guest[r].torn
    BY <1>f, <2>1 DEF CopiesOwn
  <2>4. inst'[r] \in {"off", "rescue"} /\ Rescued(r)' /\ CopiesOwn(r)'
    BY <2>1, <2>2, <2>3 DEF Rescued, CopiesOwn
  <2>5. QED
    BY <1>16, <2>1, <2>2, <2>4
<1>20. ASSUME NEW r \in Runs, Ages(r) PROVE InstanceFollows'
  <2>1. run' = run /\ inst' = inst /\ disk' = disk /\ guest' = guest
    BY <1>20, AgeStep DEF cloud
  <2>2. QED
    BY <2>1, PassedBy DEF InstanceFollows
<1>21. ASSUME StopMigration PROVE InstanceFollows'
  <2>1. ASSUME NEW q \in Runs PROVE Rescued(q)' /\ InPlace(q)' /\ CopiesOwn(q)'
    <3>1. /\ run'[q].pc = run[q].pc /\ ~run'[q].live /\ guest'[q].pc = guest[q].pc
          /\ inst'[q] = inst[q] /\ disk'[q] = disk[q]
      BY <1>21, StopStep DEF cloud
    <3>2. QED
      BY <3>1, PassedBy
  <2>2. QED
    BY <2>1 DEF InstanceFollows
<1>22. ASSUME Restart PROVE InstanceFollows'
  <2>1. ASSUME NEW q \in Runs PROVE Rescued(q)' /\ InPlace(q)' /\ CopiesOwn(q)'
    <3>1. run'[q].pc = "done" \/ (run'[q].pc = "unused" /\ run[q].pc = "unused")
      BY <1>22, RestartStep
    <3>2. \/ guest'[q].pc = "idle" /\ guest[q].pc # "idle"
          \/ guest'[q] = guest[q] /\ inst'[q] = inst[q]
      BY <1>22, RestartStep
    <3>3. Rescued(q)'
      BY <1>f, <3>2 DEF Rescued
    <3>4. InPlace(q)'
      BY <1>f, <3>1, <3>2 DEF InPlace, Rescued
    <3>5. CopiesOwn(q)'
      BY <3>1 DEF CopiesOwn
    <3>6. QED
      BY <3>3, <3>4, <3>5
  <2>2. QED
    BY <2>1 DEF InstanceFollows
<1>23. ASSUME UNCHANGED vars PROVE InstanceFollows'
  <2>1. run' = run /\ inst' = inst /\ disk' = disk /\ guest' = guest
    BY <1>23 DEF vars, cloud
  <2>2. QED
    BY <2>1, PassedBy DEF InstanceFollows
<1>24. QED
  BY Steps, <1>2, <1>3, <1>4, <1>5, <1>6, <1>7, <1>8, <1>9, <1>10, <1>11, <1>12, <1>13, <1>14,
     <1>15, <1>17, <1>18, <1>19, <1>20, <1>21, <1>22, <1>23
\* The steps of a run that make nothing and delete nothing.
MakesNothing(r) ==
    \/ CreatesDisk(r) \/ Registers(r) \/ SetsCommand(r) \/ Rescues(r) \/ CopyDone(r)
    \/ BudgetOver(r) \/ StopsWaiting(r) \/ Attaches(r) \/ Boots(r) \/ Finishes(r) \/ RunReturns(r)

LEMMA MakesNothingStep ==
    ASSUME TypeOK, Alone, RowFollows, InstanceFollows, NEW r \in Runs, MakesNothing(r)
    PROVE  /\ row'.inst = row.inst /\ row'.clone = row.clone
           /\ clones' = clones /\ lost' = lost
           /\ run[r].pc \notin {"created", "cloned"} /\ run'[r].pc \notin {"created", "cloned"}
           /\ \A q \in Runs : inst'[q] # "none" => inst[q] # "none"
           /\ \A q \in Runs \ {r} : run'[q] = run[q] /\ run[q].pc \in {"unused", "done"}
<1> USE DEF At, Moved
<1>t. inst \in [Runs -> {"none", "off", "rescue", "running"}]
  BY Typed
<1>q. \A q \in Runs \ {r} : run'[q] = run[q] /\ run[q].pc \in {"unused", "done"}
  BY RunActsAlone DEF MakesNothing, RunActs
<1>i. run[r].pc \in {"rescue", "boot"} => inst[r] = "off"
  BY DEF InstanceFollows, InPlace
<1>1. CASE CreatesDisk(r)
  BY <1>q, <1>1, DiskStep DEF history
<1>2. CASE Registers(r) \/ SetsCommand(r)
  BY <1>q, <1>2, RegisterStep, CommandStep DEF history, cloud
<1>3. CASE Rescues(r)
  <2>1. /\ At(r, "rescue") /\ row' = row /\ clones' = clones /\ lost' = lost
        /\ run'[r].pc \in {"wait", "ending"}
        /\ inst' = [inst EXCEPT ![r] = "rescue"] \/ inst' = inst
    BY <1>3, RescueStep DEF history
  <2>2. \A q \in Runs \ {r} : inst'[q] = inst[q]
    BY <1>t, <2>1
  <2>3. QED
    BY <1>q, <1>i, <2>1, <2>2
<1>4. CASE CopyDone(r)
  BY <1>q, <1>4, DoneStep DEF history, cloud
<1>5. CASE BudgetOver(r) \/ StopsWaiting(r)
  BY <1>q, <1>5, OverStep DEF history, cloud
<1>6. CASE Attaches(r)
  <2>1. /\ At(r, "attach") /\ row' = row /\ clones' = clones /\ lost' = lost
        /\ run'[r].pc \in {"boot", "ending"} /\ inst' = inst
    BY <1>6, AttachStep DEF history, cloud
  <2>2. QED
    BY <1>q, <2>1
<1>7. CASE Boots(r)
  <2>1. /\ At(r, "boot") /\ row' = row /\ clones' = clones /\ lost' = lost
        /\ run'[r].pc \in {"finish", "ending"}
        /\ inst' = [inst EXCEPT ![r] = "running"] \/ inst' = inst
    BY <1>7, BootStep DEF history
  <2>2. \A q \in Runs \ {r} : inst'[q] = inst[q]
    BY <1>t, <2>1
  <2>3. QED
    BY <1>q, <1>i, <2>1, <2>2
<1>8. CASE Finishes(r)
  <2>1. /\ At(r, "finish") /\ row'.inst = r /\ row'.clone = row.clone
        /\ clones' = clones /\ lost' = lost /\ inst' = inst
        /\ run'[r].pc = "ending"
    BY <1>8, FinishStep DEF history, cloud
  <2>2. row.inst = r
    BY <2>1 DEF RowFollows, Making, Made
  <2>3. QED
    BY <1>q, <2>1, <2>2
<1>9. CASE RunReturns(r)
  BY <1>q, <1>9, ReturnStep DEF history, cloud
<1>10. QED
  BY <1>1, <1>2, <1>3, <1>4, <1>5, <1>6, <1>7, <1>8, <1>9 DEF MakesNothing

LEMMA ClonesFollowNext ==
    ASSUME TypeOK, Alone, RowFollows, InstanceFollows, ClonesFollow, Accounted, ~MayLag, [Next]_vars
    PROVE  ClonesFollow'
<1> USE DEF At
<1>t. clones \subseteq DataDisks \X Runs /\ row \in Rows
  BY Typed
\* A step after which no clone waits to be recorded.
<1>0. ASSUME \A q \in Runs : run'[q].pc # "cloned",
             \A d \in DataDisks : row'.clone[d] # 0 => <<d, row'.clone[d]>> \in clones'
      PROVE  ClonesFollow'
  BY <1>0 DEF ClonesFollow
\* A step that leaves clones, row and runs alone.
<1>1. ASSUME row' = row, clones' = clones, lost' = lost,
             \A q \in Runs : run'[q].pc = run[q].pc /\ run'[q].todo = run[q].todo
      PROVE  ClonesFollow'
  BY <1>1 DEF ClonesFollow
<1>2. ASSUME NEW r \in Runs, StartMigration(r) PROVE ClonesFollow'
  BY <1>0, <1>2, StartStep DEF ClonesFollow, Running, cloud
<1>3. ASSUME NEW r \in Runs, CleansUp(r) PROVE ClonesFollow'
  <2>1. \A d \in DataDisks : row'.clone[d] = IF row.clone[d] # 0 THEN 0 ELSE row.clone[d]
    BY <1>3, CleanStep DEF RowFollows
  <2>2. \A q \in Runs : run'[q].pc # "cloned"
    BY <1>3, CleanStep, RunActsAlone DEF RunActs
  <2>3. QED
    BY <1>0, <2>1, <2>2
<1>4. ASSUME NEW r \in Runs, CreatesInstance(r) \/ RecordsInstance(r) PROVE ClonesFollow'
  <2>1. row'.clone = row.clone /\ clones' = clones /\ run'[r].pc \in {"created", "disk", "ending"}
    BY <1>4, CreateStep, RecordStep DEF Moved
  <2>2. \A q \in Runs : run'[q].pc # "cloned"
    BY <1>4, <2>1, RunActsAlone DEF RunActs
  <2>3. QED
    BY <1>0, <2>1, <2>2 DEF ClonesFollow
<1>5. ASSUME NEW r \in Runs, MakesNothing(r) PROVE ClonesFollow'
  <2>1. /\ row'.clone = row.clone /\ clones' = clones
        /\ \A q \in Runs : run'[q].pc # "cloned"
    BY <1>5, MakesNothingStep
  <2>2. QED
    BY <1>0, <2>1 DEF ClonesFollow
<1>6. ASSUME NEW r \in Runs, ClonesData(r) PROVE ClonesFollow'
  <2>1. At(r, "clone") /\ row' = row /\ clones \subseteq clones' /\ run[r].todo \subseteq DataDisks
    BY <1>6, CloneStep, Typed DEF RunRecords
  <2>2. \A d \in DataDisks : row'.clone[d] # 0 => <<d, row'.clone[d]>> \in clones'
    BY <2>1 DEF ClonesFollow
  <2>3. CASE run'[r].pc = "ending"
    <3>1. \A q \in Runs : run'[q].pc # "cloned"
      BY <1>6, <2>3, RunActsAlone DEF RunActs
    <3>2. QED
      BY <1>0, <2>2, <3>1
  <2>4. CASE run'[r].pc # "ending"
    <3>1. PICK d \in run[r].todo : clones' = clones \cup {<<d, r>>} /\ Moved(r, "cloned") /\ lost' = lost
      BY <1>6, <2>4, CloneStep DEF Moved
    <3>2. d \in run'[r].todo /\ <<d, r>> \in clones'
      BY <3>1 DEF Moved
    <3>3. ASSUME NEW x \in clones', x[2] = r, x[1] # d
          PROVE  row'.clone[x[1]] = r \/ x \in lost'
      <4>1. x \in clones
        BY <3>1, <3>3
      <4>2. row.clone[x[1]] = x[2] \/ x \in lost
        BY <2>1, <3>3, <4>1 DEF Accounted
      <4>3. QED
        BY <2>1, <3>1, <3>3, <4>2
    <3>4. \A q \in Runs \ {r} : run'[q].pc # "cloned"
      BY <1>6, RunActsAlone DEF RunActs
    <3>5. QED
      BY <2>2, <3>2, <3>3, <3>4 DEF ClonesFollow
  <2>5. QED
    BY <2>3, <2>4
<1>7. ASSUME NEW r \in Runs, RecordsClone(r) PROVE ClonesFollow'
  <2>1. run'[r].pc \in {"clone", "register", "ending"} /\ clones' = clones
    BY <1>7, RecordCloneStep DEF Moved, CloneRecorded, cloud
  <2>2. \A q \in Runs : run'[q].pc # "cloned"
    BY <1>7, <2>1, RunActsAlone DEF RunActs
  <2>3. PICK d \in run[r].todo : CloneRecorded(r, d)
    BY <1>7, RecordCloneStep
  <2>4. \A e \in DataDisks : row'.clone[e] # 0 => <<e, row'.clone[e]>> \in clones'
    BY <2>1, <2>3 DEF ClonesFollow, CloneRecorded
  <2>5. QED
    BY <1>0, <2>2, <2>4
<1>8. ASSUME NEW r \in Runs, GuestActs(r) \/ Ages(r) PROVE ClonesFollow'
  BY <1>1, <1>8, OtherActs DEF history
<1>9. ASSUME StopMigration PROVE ClonesFollow'
  BY <1>1, <1>9, StopStep DEF cloud
<1>10. ASSUME Restart PROVE ClonesFollow'
  <2>1. row' = row /\ clones' = clones /\ \A q \in Runs : run'[q].pc # "cloned"
    BY <1>10, RestartStep
  <2>2. QED
    BY <1>0, <2>1 DEF ClonesFollow
<1>11. ASSUME UNCHANGED vars PROVE ClonesFollow'
  BY <1>1, <1>11 DEF vars, cloud, history
<1>12. QED
  BY Steps, <1>2, <1>3, <1>4, <1>5, <1>6, <1>7, <1>8, <1>9, <1>10, <1>11 DEF MakesNothing, GuestActs

LEMMA AccountedNext ==
    ASSUME TypeOK, Alone, RowFollows, InstanceFollows, ClonesFollow, Accounted, ~MayLag, [Next]_vars
    PROVE  Accounted'
<1> USE DEF At
<1>t. /\ clones \subseteq DataDisks \X Runs /\ row \in Rows
      /\ inst \in [Runs -> {"none", "off", "rescue", "running"}]
  BY Typed
<1>z. 0 \notin Runs
  BY DEF Runs
<1>x. \A x \in clones : x[1] \in DataDisks /\ x[2] \in Runs
  BY <1>t
\* A step that makes, deletes and records nothing.
<1>1. ASSUME row'.inst = row.inst, row'.clone = row.clone, clones' = clones, lost' = lost,
             \A q \in Runs : inst'[q] # "none" => inst[q] # "none",
             \A q \in Runs : run[q].pc \in {"created", "cloned"} => run'[q].pc = run[q].pc
      PROVE  Accounted'
  <2>1. \A q \in Runs : inst'[q] # "none" =>
            row'.inst = q \/ run'[q].pc = "created" \/ <<"instance", q>> \in lost'
    BY <1>1 DEF Accounted
  <2>2. \A x \in clones' : row'.clone[x[1]] = x[2] \/ run'[x[2]].pc = "cloned" \/ x \in lost'
    BY <1>1, <1>x DEF Accounted
  <2>3. QED
    BY <2>1, <2>2 DEF Accounted
<1>2. ASSUME NEW r \in Runs, StartMigration(r) PROVE Accounted'
  <2>1. /\ row' = row /\ inst' = inst /\ clones' = clones /\ lost' = lost
        /\ run[r].pc = "unused" /\ \A q \in Runs \ {r} : run'[q] = run[q]
    BY <1>2, StartStep DEF cloud
  <2>2. QED
    BY <1>1, <2>1
<1>3. ASSUME NEW r \in Runs, CleansUp(r) PROVE Accounted'
  <2>1. \A q \in Runs : run[q].pc \notin {"created", "cloned"}
    BY <1>3, CleanStep, RunActsAlone DEF RunActs
  <2>2. run[r].seen = row /\ lost \subseteq lost'
    BY <1>3, CleanStep DEF RowFollows
  <2>3. ASSUME NEW q \in Runs, inst'[q] # "none" PROVE <<"instance", q>> \in lost'
    <3>1. inst'[q] = inst[q] /\ (q = row.inst /\ inst[q] # "none" => <<"instance", q>> \in lost')
      BY <1>3, <2>2, <2>3, CleanStep
    <3>2. row.inst = q \/ <<"instance", q>> \in lost
      BY <2>1, <2>3, <3>1 DEF Accounted
    <3>3. QED
      BY <2>2, <2>3, <3>1, <3>2
  <2>4. ASSUME NEW x \in clones' PROVE x \in lost'
    <3>1. x \in clones /\ (row.clone[x[1]] = x[2] => x \in lost')
      BY <1>3, <2>2, CleanStep
    <3>2. row.clone[x[1]] = x[2] \/ x \in lost
      BY <1>x, <2>1, <3>1 DEF Accounted
    <3>3. QED
      BY <2>2, <3>1, <3>2
  <2>5. QED
    BY <2>3, <2>4 DEF Accounted
<1>4. ASSUME NEW r \in Runs, CreatesInstance(r) PROVE Accounted'
  <2>1. /\ At(r, "create") /\ row' = row /\ clones' = clones
        /\ \/ /\ run'[r].pc = "created" /\ lost' = lost /\ inst' = [inst EXCEPT ![r] = "off"]
           \/ inst' = [inst EXCEPT ![r] = "off"] /\ lost' = lost \cup {<<"instance", r>>}
           \/ inst' = inst /\ lost' = lost
    BY <1>4, CreateStep DEF Moved
  <2>2. \A q \in Runs \ {r} : inst'[q] = inst[q] /\ run'[q] = run[q]
    BY <1>t, <1>4, <2>1, RunActsAlone DEF RunActs
  <2>3. lost \subseteq lost'
    BY <2>1
  <2>4. inst'[r] # "none" => run'[r].pc = "created" \/ <<"instance", r>> \in lost' \/ inst'[r] = inst[r]
    BY <2>1
  <2>5. ASSUME NEW q \in Runs, inst'[q] # "none"
        PROVE  row'.inst = q \/ run'[q].pc = "created" \/ <<"instance", q>> \in lost'
    BY <2>1, <2>2, <2>3, <2>4, <2>5 DEF Accounted
  <2>6. ASSUME NEW x \in clones'
        PROVE  row'.clone[x[1]] = x[2] \/ run'[x[2]].pc = "cloned" \/ x \in lost'
    <3>1. x \in clones /\ x[2] \in Runs
      BY <1>x, <2>1
    <3>2. row.clone[x[1]] = x[2] \/ run[x[2]].pc = "cloned" \/ x \in lost
      BY <3>1 DEF Accounted
    <3>3. QED
      BY <2>1, <2>2, <2>3, <3>1, <3>2
  <2>7. QED
    BY <2>5, <2>6 DEF Accounted
<1>5. ASSUME NEW r \in Runs, RecordsInstance(r) PROVE Accounted'
  <2>1. /\ At(r, "created") /\ inst' = inst /\ clones' = clones /\ row'.clone = row.clone
        /\ \/ row'.inst = r /\ lost' = lost
           \/ row' = row /\ lost' = lost \cup {<<"instance", r>>}
    BY <1>5, RecordStep
  <2>2. row.inst = 0
    BY <2>1 DEF RowFollows
  <2>3. \A q \in Runs \ {r} : run'[q] = run[q]
    BY <1>5, RunActsAlone DEF RunActs
  <2>4. ASSUME NEW q \in Runs, inst'[q] # "none"
        PROVE  row'.inst = q \/ run'[q].pc = "created" \/ <<"instance", q>> \in lost'
    BY <1>z, <2>1, <2>2, <2>3, <2>4 DEF Accounted
  <2>5. ASSUME NEW x \in clones'
        PROVE  row'.clone[x[1]] = x[2] \/ run'[x[2]].pc = "cloned" \/ x \in lost'
    <3>1. x \in clones /\ x[2] \in Runs
      BY <1>x, <2>1
    <3>2. row.clone[x[1]] = x[2] \/ run[x[2]].pc = "cloned" \/ x \in lost
      BY <3>1 DEF Accounted
    <3>3. QED
      BY <2>1, <2>3, <3>1, <3>2
  <2>6. QED
    BY <2>4, <2>5 DEF Accounted
<1>6. ASSUME NEW r \in Runs, MakesNothing(r) PROVE Accounted'
  BY <1>1, <1>6, MakesNothingStep
<1>7. ASSUME NEW r \in Runs, ClonesData(r) PROVE Accounted'
  <2>1. /\ At(r, "clone") /\ row' = row /\ inst' = inst /\ lost \subseteq lost'
        /\ \/ clones' = clones
           \/ \E d \in run[r].todo :
                 /\ clones' = clones \cup {<<d, r>>}
                 /\ run'[r].pc = "cloned" \/ <<d, r>> \in lost'
    BY <1>7, CloneStep DEF Moved
  <2>2. \A q \in Runs \ {r} : run'[q] = run[q]
    BY <1>7, RunActsAlone DEF RunActs
  <2>3. \A q \in Runs : inst'[q] # "none" =>
             row'.inst = q \/ run'[q].pc = "created" \/ <<"instance", q>> \in lost'
    BY <2>1, <2>2 DEF Accounted
  <2>4. ASSUME NEW x \in clones'
        PROVE  row'.clone[x[1]] = x[2] \/ run'[x[2]].pc = "cloned" \/ x \in lost'
    <3>1. CASE x \in clones
      <4>1. x[2] \in Runs /\ (row.clone[x[1]] = x[2] \/ run[x[2]].pc = "cloned" \/ x \in lost)
        BY <1>x, <3>1 DEF Accounted
      <4>2. QED
        BY <2>1, <2>2, <4>1
    <3>2. CASE x \notin clones
      <4>1. PICK d \in run[r].todo :
                /\ clones' = clones \cup {<<d, r>>}
                /\ run'[r].pc = "cloned" \/ <<d, r>> \in lost'
        BY <2>1, <2>4, <3>2
      <4>2. x = <<d, r>> /\ x[2] = r
        BY <2>4, <3>2, <4>1
      <4>3. QED
        BY <4>1, <4>2
    <3>3. QED
      BY <3>1, <3>2
  <2>5. QED
    BY <2>3, <2>4 DEF Accounted
<1>8. ASSUME NEW r \in Runs, RecordsClone(r) PROVE Accounted'
  <2>0. PICK d \in run[r].todo : CloneRecorded(r, d)
    BY <1>8, RecordCloneStep
  <2>1. /\ At(r, "cloned") /\ inst' = inst /\ clones' = clones
        /\ row'.inst = row.inst /\ lost \subseteq lost'
    BY <1>8, <2>0, RecordCloneStep DEF cloud, CloneRecorded
  <2>2. /\ <<d, r>> \in clones \ lost
        /\ \/ \A e \in DataDisks : row'.clone[e] = IF e = d THEN r ELSE row.clone[e]
           \/ row' = row /\ lost' = lost \cup {<<d, r>>}
    BY <2>0 DEF CloneRecorded
  <2>3. PICK c \in run[r].todo :
            \A x \in clones : x[2] = r /\ x[1] # c => row.clone[x[1]] = r \/ x \in lost
    BY <2>1 DEF ClonesFollow
  <2>4. \A e \in run[r].todo : row.clone[e] = 0
    <3>1. run[r].todo \subseteq DataDisks
      BY Typed DEF RunRecords
    <3>2. QED
      BY <2>1, <3>1 DEF RowFollows, Making, Made
  <2>5. c = d
    <3>1. <<d, r>>[1] = d /\ <<d, r>>[2] = r
      OBVIOUS
    <3>2. QED
      BY <1>z, <2>2, <2>3, <2>4, <3>1
  <2>6. \A q \in Runs \ {r} : run'[q] = run[q] /\ run[q].pc \in {"unused", "done"}
    BY <1>8, RunActsAlone DEF RunActs
  <2>7. \A q \in Runs : inst'[q] # "none" =>
             row'.inst = q \/ run'[q].pc = "created" \/ <<"instance", q>> \in lost'
    BY <2>1, <2>6 DEF Accounted
  <2>8. ASSUME NEW x \in clones'
        PROVE  row'.clone[x[1]] = x[2] \/ x \in lost'
    <3>1. x \in clones /\ x[1] \in DataDisks /\ x[2] \in Runs /\ x = <<x[1], x[2]>>
      BY <1>t, <2>1
    <3>2. CASE x[2] = r /\ x[1] = d
      BY <2>2, <3>1, <3>2
    <3>3. CASE x[2] = r /\ x[1] # d
      <4>1. row.clone[x[1]] = r \/ x \in lost
        BY <2>3, <2>5, <3>1, <3>3
      <4>2. QED
        BY <2>1, <2>2, <3>1, <3>3, <4>1
    <3>4. CASE x[2] # r
      <4>1. row.clone[x[1]] = x[2] \/ x \in lost
        BY <2>6, <3>1, <3>4 DEF Accounted
      <4>2. x[1] = d => row.clone[x[1]] = 0
        BY <2>4
      <4>3. QED
        BY <1>z, <2>1, <2>2, <3>1, <4>1, <4>2
    <3>5. QED
      BY <3>2, <3>3, <3>4
  <2>9. QED
    BY <2>7, <2>8 DEF Accounted
<1>9. ASSUME NEW r \in Runs, GuestActs(r) \/ Ages(r) PROVE Accounted'
  <2>1. UNCHANGED <<row, run, clones, lost>>
    BY <1>9, OtherActs DEF history
  <2>2. \A q \in Runs : inst'[q] # "none" => inst[q] # "none"
    <3>1. CASE Ages(r)
      BY <3>1, AgeStep DEF cloud
    <3>2. CASE Pastes(r)
      BY <3>2, PasteStep DEF cloud
    <3>3. CASE Downloads(r)
      <4>1. inst[r] # "none" /\ \A q \in Runs \ {r} : inst'[q] = inst[q]
        BY <3>3, DownloadStep DEF InstanceFollows, Rescued
      <4>2. QED
        BY <4>1
    <3>4. CASE Copied(r) \/ Truncated(r)
      <4>1. inst[r] # "none" /\ \A q \in Runs \ {r} : inst'[q] = inst[q]
        BY <3>4, CopyEndStep DEF InstanceFollows, Rescued
      <4>2. QED
        BY <4>1
    <3>5. QED
      BY <1>9, <3>1, <3>2, <3>3, <3>4 DEF GuestActs
  <2>3. QED
    BY <1>1, <2>1, <2>2
<1>10. ASSUME StopMigration PROVE Accounted'
  BY <1>1, <1>10, StopStep DEF cloud
<1>11. ASSUME Restart PROVE Accounted'
  <2>1. /\ row' = row /\ clones' = clones /\ lost \subseteq lost'
        /\ \A q \in Runs : run[q].pc = "created" => <<"instance", q>> \in lost'
        /\ \A x \in clones : run[x[2]].pc = "cloned" /\ row.clone[x[1]] # x[2] => x \in lost'
    BY <1>11, RestartStep
  <2>2. \A q \in Runs : inst'[q] # "none" => inst[q] # "none"
    BY <1>11, RestartStep DEF InstanceFollows, Rescued
  <2>3. QED
    BY <1>x, <2>1, <2>2 DEF Accounted
<1>12. ASSUME UNCHANGED vars PROVE Accounted'
  BY <1>1, <1>12 DEF vars, cloud, history
<1>13. QED
  BY Steps, <1>2, <1>3, <1>4, <1>5, <1>6, <1>7, <1>8, <1>9, <1>10, <1>11, <1>12
     DEF MakesNothing, GuestActs
LEMMA LaunchedNext ==
    ASSUME TypeOK, Alone, RowFollows, InstanceFollows, ClonesFollow, LaunchedRests, LaunchedWhole,
           ~MayLag, [Next]_vars
    PROVE  LaunchedWhole'
<1> USE DEF At
<1>z. 0 \notin Runs
  BY DEF Runs
\* Elsewhere, a launched instance is neither deleted nor written to.
<1>1. ASSUME state' = state, row' = row, clones' = clones,
             \A q \in Runs : inst[q] = "running" => inst'[q] = "running" /\ disk'[q] = disk[q]
      PROVE  LaunchedWhole'
  <2>1. row.inst \in Runs \cup {0}
    BY Typed, RowTypes
  <2>2. QED
    BY <1>1, <2>1 DEF LaunchedWhole
<1>2. ASSUME NEW r \in Runs, StartMigration(r) PROVE LaunchedWhole'
  BY <1>2, StartStep DEF LaunchedWhole
<1>3. ASSUME NEW r \in Runs, Finishes(r) PROVE LaunchedWhole'
  <2>1. /\ At(r, "finish") /\ row'.inst = r /\ row'.clone = row.clone
        /\ inst' = inst /\ disk' = disk /\ clones' = clones
    BY <1>3, FinishStep DEF cloud
  <2>2. inst[r] = "running" /\ disk[r] \in {"whole", "cut short"}
    BY <2>1 DEF InstanceFollows, InPlace
  <2>3. \A d \in DataDisks : row.clone[d] = r
    BY <2>1 DEF RowFollows, Making, Made
  <2>4. \A d \in DataDisks : <<d, row.clone[d]>> \in clones
    BY <1>z, <2>3 DEF ClonesFollow
  <2>5. QED
    BY <1>z, <2>1, <2>2, <2>4 DEF LaunchedWhole
<1>4. ASSUME NEW r \in Runs, RunReturns(r) PROVE LaunchedWhole'
  BY <1>1, <1>4, ReturnStep DEF cloud
\* Any other step of a run leaves a migration that is not launched, or makes it so.
<1>5. ASSUME NEW r \in Runs, RunActs(r), run[r].pc \notin {"finish", "ending"} PROVE LaunchedWhole'
  BY <1>5, RunActsAlone DEF LaunchedRests, LaunchedWhole
<1>6. ASSUME NEW r \in Runs, RunActs(r), ~Finishes(r), ~RunReturns(r) PROVE LaunchedWhole'
  <2>1. run[r].pc \notin {"finish", "ending"}
    BY <1>6, CleanStep, CreateStep, RecordStep, DiskStep, CloneStep, RecordCloneStep, RegisterStep,
       CommandStep, RescueStep, DoneStep, OverStep, AttachStep, BootStep DEF RunActs
  <2>2. QED
    BY <1>5, <1>6, <2>1
<1>7. ASSUME NEW r \in Runs, GuestActs(r) \/ Ages(r) PROVE LaunchedWhole'
  <2>1. state' = state /\ row' = row /\ clones' = clones
    BY <1>7, OtherActs
  <2>2. \A q \in Runs : inst[q] = "running" => inst'[q] = "running" /\ disk'[q] = disk[q]
    <3>1. CASE Pastes(r) \/ Ages(r)
      BY <3>1, PasteStep, AgeStep DEF cloud
    <3>2. CASE Downloads(r) \/ Copied(r) \/ Truncated(r)
      <4>1. /\ guest[r].pc # "idle"
            /\ \A q \in Runs \ {r} : inst'[q] = inst[q] /\ disk'[q] = disk[q]
        BY <3>2, DownloadStep, CopyEndStep
      <4>2. inst[r] = "rescue"
        BY <4>1 DEF InstanceFollows, Rescued
      <4>3. QED
        BY <4>1, <4>2
    <3>3. QED
      BY <1>7, <3>1, <3>2 DEF GuestActs
  <2>3. QED
    BY <1>1, <2>1, <2>2
<1>8. ASSUME StopMigration PROVE LaunchedWhole'
  BY <1>8, StopStep DEF LaunchedWhole
<1>9. ASSUME Restart PROVE LaunchedWhole'
  <2>1. state' = state /\ row' = row /\ clones' = clones /\ disk' = disk
    BY <1>9, RestartStep
  <2>2. \A q \in Runs : inst[q] = "running" => inst'[q] = "running"
    BY <1>9, RestartStep DEF InstanceFollows, Rescued
  <2>3. QED
    BY <1>1, <2>1, <2>2
<1>10. ASSUME UNCHANGED vars PROVE LaunchedWhole'
  BY <1>1, <1>10 DEF vars, cloud
<1>11. QED
  BY Kinds, <1>2, <1>3, <1>4, <1>6, <1>7, <1>8, <1>9, <1>10

\* While a run waits, its command is usable by what follows the run.
LEMMA UsableParts ==
    ASSUME TypeOK, TokenFollows
    PROVE  CommandUsable <=> Restored
<1>1. ASSUME NEW r \in Runs, At(r, "wait"), run[r].live
      PROVE  card = r /\ Authorized(r) /\ saved = [token |-> r, cmd |-> r]
  <2>1. r \in register /\ saved.token = r /\ card = r /\ saved.cmd = r /\ late[r] < 2
    BY <1>1 DEF TokenFollows, At
  <2>2. saved \in Tokens
    BY Typed
  <2>3. saved = [token |-> r, cmd |-> r]
    BY <2>1, <2>2 DEF Tokens
  <2>4. QED
    BY <2>1, <2>3 DEF Authorized
<1>2. QED
  BY <1>1 DEF CommandUsable, Restored

LEMMA RestoredNext ==
    ASSUME TypeOK, Alone, TokenFollows, StrandedWaits, Restored, ~MayLag, [Next]_vars
    PROVE  Restored'
<1>z. 0 \notin Runs
  BY DEF Runs
<1>1. ASSUME stranded' = 0 PROVE Restored'
  BY <1>z, <1>1 DEF Restored
<1>2. ASSUME UNCHANGED <<stream, stranded>>, \A q \in Runs : late'[q] < 2 => late[q] < 2
      PROVE  Restored'
  BY <1>2 DEF Restored, Authorized, stream
<1>3. ASSUME NEW r \in Runs, StartMigration(r) PROVE Restored'
  BY <1>1, <1>3, StartStep
<1>4. ASSUME NEW r \in Runs, RunActs(r) PROVE Restored'
  <2>1. stranded' = 0
    BY <1>4, RunActsAlone DEF StrandedWaits
  <2>2. QED
    BY <1>1, <2>1
<1>5. ASSUME NEW r \in Runs, GuestActs(r) PROVE Restored'
  BY <1>2, <1>5, OtherActs, PasteStep, DownloadStep, CopyEndStep DEF GuestActs, history
<1>6. ASSUME NEW r \in Runs, Ages(r) PROVE Restored'
  <2>1. late \in [Runs -> 0 .. 2] /\ late' \in [Runs -> 0 .. 2]
    BY <1>6, AgeStep, Typed DEF TypeOK
  <2>2. \A q \in Runs : late'[q] < 2 => late[q] < 2
    BY <1>6, <2>1, AgeStep
  <2>3. QED
    BY <1>2, <1>6, <2>2, OtherActs DEF history
<1>7. ASSUME StopMigration PROVE Restored'
  BY <1>1, <1>7, StopStep
\* What is brought back is the token and the command of the run that waited, or waits
\* no longer since an earlier restart.
<1>8. ASSUME Restart, NEW r \in Runs, stranded' = r, late'[r] < 2
      PROVE  card' = r /\ Authorized(r)' /\ saved' = [token |-> r, cmd |-> r]
  <2>1. late' = late
    BY <1>8, RestartStep
  <2>2. saved = [token |-> r, cmd |-> r] /\ state = "migrating"
    <3>1. CASE stranded' = stranded
      BY <1>z, <1>8, <2>1, <3>1 DEF Restored, StrandedWaits
    <3>2. CASE At(r, "wait") /\ run[r].live
      <4>1. saved.token = r /\ saved.cmd = r /\ state = "migrating"
        BY <3>2 DEF TokenFollows, Alone, Running, At
      <4>2. saved \in Tokens
        BY Typed
      <4>3. QED
        BY <4>1, <4>2 DEF Tokens
    <3>3. QED
      BY <1>8, <3>1, <3>2, RestartStep
  <2>3. Back = saved
    BY <1>8, <1>z, <2>1, <2>2 DEF Back
  <2>4. register' = {r} /\ card' = r /\ saved' = [token |-> r, cmd |-> r]
    BY <1>8, <1>z, <2>2, <2>3, RestartStep
  <2>5. QED
    BY <1>8, <2>4 DEF Authorized
<1>9. ASSUME UNCHANGED vars PROVE Restored'
  BY <1>2, <1>9 DEF vars, history
<1>10. ASSUME Restart PROVE Restored'
  BY <1>8, <1>10 DEF Restored
<1>11. QED
  BY Kinds, <1>3, <1>4, <1>5, <1>6, <1>7, <1>9, <1>10

(***************************************************************************)
(* The theorems.                                                           *)
(***************************************************************************)

LEMMA DiskInvInit == Init => DiskInv
<1> SUFFICES ASSUME Init PROVE DiskInv
  OBVIOUS
<1>1. \A r \in Runs : run[r].pc = "unused" /\ guest[r].pc = "idle" /\ inst[r] = "none" /\ late[r] = 0
  BY DEF Init, Unused, Idle
<1>2. 0 \notin Runs
  BY DEF Runs
<1>3. row.inst = 0 /\ saved.token = 0 /\ \A d \in DataDisks : row.clone[d] = 0
  BY DEF Init, Empty, Nothing
<1>4. Alone /\ RowFollows /\ ClonesFollow
  BY <1>1, <1>3 DEF Alone, Running, RowFollows, ClonesFollow, At, Making, Made
<1>5. InstanceFollows
  BY <1>1 DEF InstanceFollows, Rescued, InPlace, CopiesOwn, At
<1>6. TokenFollows
  BY <1>1, <1>2, <1>3 DEF Init, TokenFollows, Tokenless, At
<1>7. StrandedWaits /\ LaunchedRests /\ LaunchedWhole
  BY DEF Init, StrandedWaits, LaunchedRests, LaunchedWhole
<1>8. Restored
  BY <1>2 DEF Init, Restored
<1>9. Accounted
  BY <1>1 DEF Init, Accounted
<1>10. QED
  BY <1>4, <1>5, <1>6, <1>7, <1>8, <1>9 DEF DiskInv

LEMMA DiskInvNext ==
    ASSUME TypeOK, DiskInv, ~MayLag, [Next]_vars, TypeOK'
    PROVE  DiskInv'
<1> USE DEF DiskInv
<1>1. Alone'
  BY AloneNext
<1>2. RowFollows'
  BY RowFollowsNext
<1>3. ClonesFollow'
  BY ClonesFollowNext
<1>4. InstanceFollows'
  BY InstanceFollowsNext
<1>5. TokenFollows'
  BY TokenFollowsNext
<1>6. StrandedWaits' /\ LaunchedRests'
  BY StrandedNext
<1>7. LaunchedWhole'
  BY LaunchedNext
<1>8. Restored'
  BY RestoredNext
<1>9. Accounted'
  BY AccountedNext
<1>10. QED
  BY <1>1, <1>2, <1>3, <1>4, <1>5, <1>6, <1>7, <1>8, <1>9

LEMMA DiskInvAlways ==
    ASSUME ~MayLag
    PROVE  Spec => [](TypeOK /\ DiskInv)
<1>1. Init => DiskInv
  BY DiskInvInit
<1>2. TypeOK /\ DiskInv /\ [Next]_vars /\ TypeOK' => DiskInv'
  BY DiskInvNext
<1>3. QED
  BY DiskTypeCorrect, <1>1, <1>2, PTL DEF Spec

\* A migration is shown as launched only with its recorded instance running from a disk
\* some copy was written to, to its end or to where its download broke off, and with a
\* recorded clone of every other disk: as long as no cutover is started before the one
\* that was stopped has returned.
THEOREM DiskLaunchedWhole ==
    ASSUME ~MayLag
    PROVE  Spec => []LaunchedWhole
<1>1. DiskInv => LaunchedWhole
  BY DEF DiskInv
<1>2. QED
  BY DiskInvAlways, <1>1, PTL

\* Under the same assumption, the command the card shows while finalizeDisk waits works,
\* and so does the one that restoreCutoverState shows after a restart has cut that wait
\* short, until the token's own end.
THEOREM DiskCommandUsable ==
    ASSUME ~MayLag
    PROVE  Spec => []CommandUsable
<1>1. TypeOK /\ DiskInv => CommandUsable
  BY UsableParts DEF DiskInv
<1>2. QED
  BY DiskInvAlways, <1>1, PTL

\* Under the same assumption, every instance and every clone that finalizeDisk has made
\* is pointed at by the row, about to be, or known to be lost with an answer, with a
\* deletion that failed, or with the run.
THEOREM DiskAccounted ==
    ASSUME ~MayLag
    PROVE  Spec => []Accounted
<1>1. DiskInv => Accounted
  BY DEF DiskInv
<1>2. QED
  BY DiskInvAlways, <1>1, PTL
=============================================================================
