----------------------------- MODULE Onboarding -----------------------------
(***************************************************************************)
(* From the create form to the first session of the source's agent, and    *)
(* back: handleCreateMigration with its roll-back, the disks' volumes in   *)
(* the Linode account, their receivers and ports, the enrollment of agents,*)
(* the token in Settings, Delete and Close, a restart of the appliance and *)
(* its redeployment with a new database (migrations.go, server.go,         *)
(* enroll.go, store/appliance.go).                                         *)
(*                                                                         *)
(* A migration is named by the number of its creation, which stands for its*)
(* enrollment token: no two share one.  Ids of disks restart with a new    *)
(* database; a disk's receiver port and its volume's label are its id, the *)
(* label's other part, the name, being cut to fit.  The appliance has a    *)
(* Linode of its own (without one there are no volumes to speak of).  What *)
(* a migration does once enrolled is the business of Quiesce and Cutover:  *)
(* here it is cut over at some point, stopped or done.                     *)
(***************************************************************************)
EXTENDS Integers, Sequences

CONSTANTS
    MaxCreations, \* bound: creations of a migration
    Forms,        \* what the operator may enter, creation by creation
    Plans,        \* the account's plans: their class and local disk
    GiB,          \* bytes to a GiB, a parameter so that TLC can count them
    FloorGiB,     \* the smallest volume, in GiB
    MaxRefusals,  \* bound: volumes refused, or that do not become active
    MaxFaults,    \* bound: lost clients and answers, failed reads, writes, deletions
    MaxRestarts,  \* bound: restarts and redeployments
    MayCross      \* may a deletion, or the token's removal, cross a creation or a Stop?

Creations == 1 .. MaxCreations

\* A form: the size entered for each disk, boot disk first, and the real one; the boot
\* target; the class and the plan picked, or "any".
IsForm(f) ==
    /\ f.declared \in Seq(Nat \ {0}) /\ Len(f.declared) \in 1 .. 8
    /\ f.real \in Seq(Nat \ {0}) /\ Len(f.real) = Len(f.declared)
    /\ f.target \in {"disk", "volume"}
    /\ f.class \in {"shared", "dedicated"}
    /\ f.plan \in (DOMAIN Plans) \cup {"any"}

ASSUME CreationAssumption == /\ MaxCreations \in Nat \ {0}
                             /\ \A f \in Forms : /\ DOMAIN f = Creations
                                               /\ \A c \in Creations : IsForm(f[c])
ASSUME PlanAssumption     == \A p \in DOMAIN Plans :
                                Plans[p].class \in {"shared", "dedicated"} /\ Plans[p].disk \in Nat
ASSUME SizeAssumption     == GiB \in Nat \ {0} /\ FloorGiB \in Nat
ASSUME BoundAssumption    == /\ MaxRefusals \in Nat /\ MaxFaults \in Nat
                             /\ MaxRestarts \in Nat
ASSUME CrossAssumption    == MayCross \in BOOLEAN

VARIABLES
    form,      \* what the operator enters
    token,     \* the Linode token in Settings, and whether the API takes it
    row,       \* each migration's row: its state, or "none"
    inserted,  \* the disks that have a row
    diskId,    \* their ids, which outlive the rows in labels and in agents
    ported,    \* the disks with a receiver_port
    recorded,  \* the disks with a volume_id
    nextId,    \* the database's sequence
    cloud,     \* the volumes that exist
    create,    \* each creation's handler
    removal,   \* handleDeleteLinodeToken
    delete,    \* handleDeleteMigration or handleCloseMigration
    stopping,  \* the migrations whose Stop has yet to bring the receivers back
    receivers, \* s.receivers, and whether a receiver knows its enrollment
    installed, \* the disks for which a source has an agent, by enrollment
    budget     \* refusals, faults and restarts so far

\* History: volumes lost by an accident the code does not pretend to survive,
\* creations whose handler lost its client, its store or its life, and migrations an
\* error has left without a receiver.
VARIABLES lost, abandoned, deaf

NumDisks(c) == Len(form[c].declared)
DisksOf(c)  == 1 .. NumDisks(c)
AllDisks    == {d \in Creations \X (1 .. 8) : d[2] \in DisksOf(d[1])}

rows == <<row, inserted, diskId, ported, recorded, nextId>>
commands == <<removal, delete, stopping>>
listening == <<receivers, deaf>>
history == <<lost, abandoned>>
vars == <<form, token, rows, cloud, create, commands, listening, installed, budget, history>>

CreatePcs == {"unused", "insert", "port", "volume", "record", "wait", "open", "listen",
              "rollback", "unrow", "ended"}

TypeOK ==
    /\ form \in Forms
    /\ token \in {"none", "works", "revoked"}
    /\ row \in [Creations -> {"none", "created", "awaiting_agent", "migrating", "launched",
                             "failed"}]
    /\ inserted \in [Creations -> SUBSET (1 .. 8)]
    /\ ported \in [Creations -> SUBSET (1 .. 8)]
    /\ recorded \in [Creations -> SUBSET (1 .. 8)]
    /\ installed \in [Creations -> SUBSET (1 .. 8)]
    /\ \A c \in Creations : /\ inserted[c] \subseteq DisksOf(c)
                            /\ ported[c] \subseteq inserted[c]
                            /\ recorded[c] \subseteq inserted[c]
                            /\ installed[c] \subseteq DisksOf(c)
    /\ diskId \in [AllDisks -> Nat]
    /\ nextId \in Nat \ {0}
    /\ cloud \subseteq AllDisks
    /\ create \in [Creations -> [pc : CreatePcs, disk : 1 .. 8, gone : BOOLEAN]]
    /\ removal \in {"idle", "clear"}
    /\ delete \in [pc : {"idle", "clean", "drop"}, of : Creations, sees : SUBSET (1 .. 8)]
    /\ receivers \subseteq [of : AllDisks, checked : BOOLEAN]
    /\ budget \in [refusals : 0 .. MaxRefusals, faults : 0 .. MaxFaults,
                   restarts : 0 .. MaxRestarts]
    /\ lost \subseteq AllDisks
    /\ abandoned \subseteq Creations
    /\ deaf \subseteq Creations
    /\ stopping \subseteq Creations

Init ==
    /\ form \in Forms
    /\ token = "none"
    /\ row = [c \in Creations |-> "none"]
    /\ inserted = [c \in Creations |-> {}]
    /\ diskId = [d \in AllDisks |-> 0]
    /\ ported = [c \in Creations |-> {}]
    /\ recorded = [c \in Creations |-> {}]
    /\ nextId = 1
    /\ cloud = {}
    /\ create = [c \in Creations |-> [pc |-> "unused", disk |-> 1, gone |-> FALSE]]
    /\ removal = "idle"
    /\ delete = [pc |-> "idle", of |-> 1, sees |-> {}]
    /\ receivers = {}
    /\ installed = [c \in Creations |-> {}]
    /\ budget = [refusals |-> 0, faults |-> 0, restarts |-> 0]
    /\ stopping = {}
    /\ lost = {} /\ abandoned = {} /\ deaf = {}

(***************************************************************************)
(* Helpers.                                                                *)
(***************************************************************************)

NoFault == UNCHANGED budget
Fault   == budget.faults < MaxFaults /\ budget' = [budget EXCEPT !.faults = @ + 1]
Refusal == budget.refusals < MaxRefusals /\ budget' = [budget EXCEPT !.refusals = @ + 1]

InProgress(c) == create[c].pc \notin {"unused", "ended"}
At(c, pc)     == create[c].pc = pc
Goto(c, pc)   == create' = [create EXCEPT ![c].pc = pc]
Gone(c)       == create[c].gone
ThisDisk(c)   == <<c, create[c].disk>>
HasRow(c)     == create[c].disk \in inserted[c]
Volumes(c, I) == {<<c, i>> : i \in I} \cap cloud

\* isMigrationActive.
Active(c) == row[c] \in {"created", "awaiting_agent", "migrating"}

\* The next disk's turn, or the end of the loop.
NextDisk(c) ==
    create' = IF create[c].disk < NumDisks(c)
              THEN [create EXCEPT ![c].pc = "port", ![c].disk = @ + 1]
              ELSE [create EXCEPT ![c].pc = "open"]

\* ClosestType: the smallest plan of the class that holds so many bytes.
Holding(class, bytes) == {p \in DOMAIN Plans : Plans[p].class = class /\ Plans[p].disk >= bytes}
ClosestType(class, bytes) ==
    CHOOSE p \in Holding(class, bytes) :
        \A q \in Holding(class, bytes) : Plans[p].disk <= Plans[q].disk

\* The plan of a local-disk boot has to hold the boot disk alone; a volume boot takes
\* any plan, or leaves it to the launch.
PlanResolves(f) ==
    f.target = "disk" =>
        IF f.plan = "any" THEN Holding(f.class, f.declared[1]) # {}
        ELSE f.plan \in Holding(f.class, f.declared[1])
PlanOf(f) == IF f.target = "disk" /\ f.plan = "any" THEN ClosestType(f.class, f.declared[1])
             ELSE f.plan

\* A slip: the size in whole GiB, rounded down.
VolumeSize_RoundsDown(bytes) ==
    GiB * (IF bytes \div GiB < FloorGiB THEN FloorGiB ELSE bytes \div GiB)

\* The volume's size: the disk's, rounded up to whole GiB, and no smaller than the floor.
VolumeSize(bytes) ==
    LET gib == (bytes + GiB - 1) \div GiB
    IN  GiB * (IF gib < FloorGiB THEN FloorGiB ELSE gib)

\* deviceSizeMismatch.
SizeMismatch(declared, reported) == reported < declared \div 2 \/ reported > declared * 2

\* OpenDeviceWrite: a volume is never resized; a plain file, for want of one, is.
FitsTarget(bytes, d) == d[2] \in recorded[d[1]] => bytes <= VolumeSize(form[d[1]].declared[d[2]])

\* volumeLabel: the same id makes the same label, whatever database gave it out.
LabelTaken(d) == \E v \in cloud : diskId[v] = diskId[d]

\* cleanupMigrationResources, on a row that names the volumes of I: none is deleted
\* without a token that works, and a deletion that fails is only logged.
CleansUp(c, I) ==
    /\ receivers' = {r \in receivers : r.of[1] # c}
    /\ \E kept \in SUBSET Volumes(c, I) :
        /\ IF token # "works" THEN kept = Volumes(c, I) /\ NoFault
           ELSE IF kept = {} THEN NoFault ELSE Fault
        /\ cloud' = cloud \ (Volumes(c, I) \ kept)
        /\ lost' = (lost \ Volumes(c, I)) \cup kept

\* DeleteMigration, its disks with it.
DropsRow(c) ==
    /\ row' = [row EXCEPT ![c] = "none"]
    /\ inserted' = [inserted EXCEPT ![c] = {}]
    /\ ported' = [ported EXCEPT ![c] = {}]
    /\ recorded' = [recorded EXCEPT ![c] = {}]
    /\ UNCHANGED <<diskId, nextId>>

\* The disks of C that have a port and no receiver.
Deaf(C, already) == {d \in AllDisks : /\ d[1] \in C /\ d[2] \in ported[d[1]]
                                      /\ \A r \in already : r.of # d}

\* ensureReceivers for the migrations of C, on top of what listens already.  An error
\* (the row cannot be read, nor the certificate, or the port is taken) ends it with the
\* disks after that one silent, and is logged.  A receiver that cannot read its
\* enrollment takes any agent, for as long as it lives.
Listening(C, already, restarts) ==
    LET new == Deaf(C, already)
    IN  \E silent \in SUBSET new :
        \E unread \in SUBSET (new \ silent) :
            /\ \A d \in silent, e \in new : e[1] = d[1] /\ d[2] <= e[2] => e \in silent
            /\ silent \cup unread # {} => budget.faults < MaxFaults
            /\ receivers' = already \cup {[of |-> d, checked |-> d \notin unread] : d \in new \ silent}
            /\ deaf' = (deaf \ C) \cup {d[1] : d \in silent}
            /\ budget' = [budget EXCEPT !.restarts = @ + restarts,
                                        !.faults = @ + IF silent \cup unread = {} THEN 0 ELSE 1]

-----------------------------------------------------------------------------
(***************************************************************************)
(* Slips: a definition below with one plausible mistake in it, to show that*)
(* a property would notice.  No specification uses these.                  *)
(***************************************************************************)

\* The volume's id is recorded once the volume is active.
CreatesVolume_RecordsLater(c) ==
    /\ At(c, "volume")
    /\ \/ (token = "none" \/ Gone(c)) /\ NextDisk(c) /\ NoFault /\ UNCHANGED <<cloud, lost>>
       \/ /\ token = "revoked" \/ LabelTaken(ThisDisk(c))
          /\ Goto(c, "rollback") /\ NoFault /\ UNCHANGED <<cloud, lost>>
       \/ Goto(c, "rollback") /\ Refusal /\ UNCHANGED <<cloud, lost>>
       \/ /\ token = "works" /\ ~LabelTaken(ThisDisk(c)) /\ ~Gone(c)
          /\ cloud' = cloud \cup {ThisDisk(c)}
          /\ \/ Goto(c, "record") /\ NoFault
             \/ Goto(c, "rollback") /\ Refusal
          /\ UNCHANGED lost
    /\ UNCHANGED <<form, token, rows, commands, listening, installed, abandoned>>

\* A volume that does not become active ends the creation with an error and no more.
WaitsActive_NoRollback(c) ==
    /\ At(c, "wait")
    /\ \/ NextDisk(c) /\ ~Gone(c) /\ NoFault
       \/ Goto(c, "ended") /\ (IF Gone(c) THEN NoFault ELSE Refusal)
    /\ UNCHANGED <<form, token, rows, cloud, commands, listening, installed, history>>

\* A restart brings back the receivers of new migrations.
Serves_NewOnly(c) == row[c] = "created"

-----------------------------------------------------------------------------
(***************************************************************************)
(* handleCreateMigration, under a request that may lose its client: every  *)
(* look at the store or the API fails from then on, those of the roll-back *)
(* too.                                                                    *)
(***************************************************************************)

\* The token works, and the form is complete with a plan to it, or it is turned down.
ReceivesRequest(c) ==
    /\ At(c, "unused") /\ \A b \in Creations : b < c => ~At(b, "unused")
    /\ token = "works"
    /\ MayCross \/ removal = "idle"
    /\ IF PlanResolves(form[c]) THEN Goto(c, "insert") ELSE Goto(c, "ended")
    /\ UNCHANGED <<form, token, rows, cloud, commands, listening, installed, budget,
                   history>>

\* The handler is over, and its creation not as it should be.
Abandons(c) ==
    /\ Goto(c, "ended")
    /\ abandoned' = abandoned \cup {c}

\* CreateMigration: the migration's row, then the disks', without a transaction; an
\* error in between is not rolled back.
InsertsRows(c) ==
    /\ At(c, "insert")
    /\ \E n \in 0 .. NumDisks(c) :
        /\ \/ n = NumDisks(c) /\ ~Gone(c) /\ NoFault /\ Goto(c, "port") /\ UNCHANGED abandoned
           \/ n < NumDisks(c) /\ ~Gone(c) /\ Fault /\ Abandons(c)
        /\ row' = [row EXCEPT ![c] = "created"]
        /\ inserted' = [inserted EXCEPT ![c] = 1 .. n]
        /\ diskId' = [d \in AllDisks |-> IF d[1] = c /\ d[2] <= n THEN nextId + d[2] - 1
                                         ELSE diskId[d]]
        /\ nextId' = nextId + n
    /\ UNCHANGED <<form, token, ported, recorded, cloud, commands, listening,
                   installed, lost>>

\* Its client gone, CreateMigration inserts nothing.
InsertsNothing(c) ==
    /\ At(c, "insert") /\ Gone(c)
    /\ Abandons(c)
    /\ UNCHANGED <<form, token, rows, cloud, commands, listening, installed, budget,
                   lost>>

\* AssignDiskPort.
AssignsPort(c) ==
    /\ At(c, "port")
    /\ \/ /\ Goto(c, "rollback") /\ UNCHANGED ported
          /\ IF Gone(c) THEN NoFault ELSE Fault
       \/ /\ Goto(c, "volume") /\ ~Gone(c) /\ NoFault
          /\ ported' = [ported EXCEPT ![c] = @ \cup ({create[c].disk} \cap inserted[c])]
    /\ UNCHANGED <<form, token, row, inserted, diskId, recorded, nextId, cloud, commands, listening, installed, history>>

\* provisionDiskStorage: no token that can be read, no volume; the API may refuse one,
\* or make it and its answer be lost.
CreatesVolume(c) ==
    /\ At(c, "volume")
    /\ \/ (token = "none" \/ Gone(c)) /\ NextDisk(c) /\ NoFault /\ UNCHANGED <<cloud, lost>>
       \/ /\ token = "revoked" \/ LabelTaken(ThisDisk(c))
          /\ Goto(c, "rollback") /\ NoFault /\ UNCHANGED <<cloud, lost>>
       \/ Goto(c, "rollback") /\ Refusal /\ UNCHANGED <<cloud, lost>>
       \/ /\ token = "works" /\ ~LabelTaken(ThisDisk(c)) /\ ~Gone(c)
          /\ cloud' = cloud \cup {ThisDisk(c)}
          /\ \/ Goto(c, "record") /\ NoFault /\ UNCHANGED lost
             \/ Goto(c, "rollback") /\ Fault /\ lost' = lost \cup {ThisDisk(c)}
    /\ UNCHANGED <<form, token, rows, commands, listening, installed, abandoned>>

\* SetDiskVolume, before the wait for the volume; its error is ignored, and it is none
\* that the disk's row has gone.
RecordsVolume(c) ==
    /\ At(c, "record")
    /\ Goto(c, "wait")
    /\ \/ /\ ~Gone(c) /\ NoFault /\ UNCHANGED lost
          /\ recorded' = [recorded EXCEPT ![c] = @ \cup ({create[c].disk} \cap inserted[c])]
       \/ /\ IF Gone(c) THEN NoFault ELSE Fault
          /\ lost' = lost \cup {ThisDisk(c)} /\ UNCHANGED recorded
    /\ UNCHANGED <<form, token, row, inserted, diskId, ported, nextId, cloud, commands, listening, installed, abandoned>>

\* WaitVolumeActive.
WaitsActive(c) ==
    /\ At(c, "wait")
    /\ \/ NextDisk(c) /\ ~Gone(c) /\ NoFault
       \/ Goto(c, "rollback") /\ (IF Gone(c) THEN NoFault ELSE Refusal)
    /\ UNCHANGED <<form, token, rows, cloud, commands, listening, installed, history>>

\* Awaiting its agent, if the row is still there; that this is written is not looked at,
Opens(c) ==
    /\ At(c, "open") /\ ~Gone(c)
    /\ \/ /\ row' = [row EXCEPT ![c] = IF @ = "none" THEN @ ELSE "awaiting_agent"]
          /\ NoFault /\ UNCHANGED abandoned
       \/ Fault /\ abandoned' = abandoned \cup {c} /\ UNCHANGED row
    /\ Goto(c, "listen")
    /\ UNCHANGED <<form, token, inserted, diskId, ported, recorded, nextId, cloud, commands,
                   listening, installed, lost>>

\* its receivers listen.
Listens(c) ==
    /\ At(c, "listen") /\ ~Gone(c)
    /\ Listening({c}, receivers, 0)
    /\ Goto(c, "ended")
    /\ UNCHANGED <<form, token, rows, cloud, commands, installed, history>>

\* rollbackCreate: what the row names so far,
RollsBack(c) ==
    /\ At(c, "rollback") /\ ~Gone(c)
    /\ CleansUp(c, recorded[c])
    /\ Goto(c, "unrow")
    /\ UNCHANGED <<form, token, rows, commands, deaf, installed, abandoned>>

\* then the row; nobody looks whether that is done.
Unrows(c) ==
    /\ At(c, "unrow") /\ ~Gone(c)
    /\ \/ DropsRow(c) /\ Goto(c, "ended") /\ NoFault /\ UNCHANGED abandoned
       \/ Fault /\ Abandons(c) /\ UNCHANGED rows
    /\ UNCHANGED <<form, token, cloud, commands, listening, installed, lost>>

\* Any of these four does nothing once the client has gone.
Abandoned(c) ==
    /\ create[c].pc \in {"open", "listen", "rollback", "unrow"} /\ Gone(c)
    /\ Abandons(c)
    /\ UNCHANGED <<form, token, rows, cloud, commands, listening, installed, budget,
                   lost>>

ClientGoes(c) ==
    /\ InProgress(c) /\ ~Gone(c)
    /\ create' = [create EXCEPT ![c].gone = TRUE]
    /\ Fault
    /\ UNCHANGED <<form, token, rows, cloud, commands, listening, installed, history>>

Creating(c) ==
    \/ ReceivesRequest(c) \/ InsertsRows(c) \/ InsertsNothing(c) \/ AssignsPort(c)
    \/ CreatesVolume(c) \/ RecordsVolume(c) \/ WaitsActive(c) \/ Opens(c) \/ Listens(c)
    \/ RollsBack(c) \/ Unrows(c) \/ Abandoned(c) \/ ClientGoes(c)

-----------------------------------------------------------------------------
(***************************************************************************)
(* Settings, Delete and Close.                                             *)
(***************************************************************************)

\* handleSetLinodeToken takes a token the API accepts, of the appliance's own account.
SetLinodeToken ==
    /\ token # "works"
    /\ token' = "works"
    /\ UNCHANGED <<form, rows, cloud, create, commands, listening, installed, budget,
                   history>>

\* Somebody revokes it.
TokenRevoked ==
    /\ token = "works"
    /\ token' = "revoked"
    /\ Fault
    /\ UNCHANGED <<form, rows, cloud, create, commands, listening, installed, history>>

\* handleDeleteLinodeToken: no active migration is seen,
FindsNoneActive ==
    /\ removal = "idle" /\ token # "none"
    /\ \A c \in Creations : ~Active(c)
    /\ MayCross \/ \A c \in Creations : ~InProgress(c)
    /\ removal' = "clear"
    /\ UNCHANGED <<form, token, rows, cloud, create, delete, stopping, listening, installed,
                   budget, history>>

\* and the token goes.
DeletesToken ==
    /\ removal = "clear"
    /\ removal' = "idle"
    /\ token' = "none"
    /\ UNCHANGED <<form, rows, cloud, create, delete, stopping, listening, installed, budget,
                   history>>

\* handleDeleteMigration loads the row and its disks; handleCloseMigration, of a
\* launched one, keeps what was launched, which is not a disk's volume.
LoadsRow(c) ==
    /\ delete.pc = "idle"
    /\ row[c] # "none"
    /\ MayCross \/ ~(InProgress(c) \/ c \in stopping)
    /\ delete' = [pc |-> "clean", of |-> c, sees |-> recorded[c]]
    /\ UNCHANGED <<form, token, rows, cloud, create, removal, stopping, listening, installed,
                   budget, history>>

CleansUpDeleted ==
    /\ delete.pc = "clean"
    /\ CleansUp(delete.of, delete.sees)
    /\ delete' = [delete EXCEPT !.pc = "drop"]
    /\ UNCHANGED <<form, token, rows, create, removal, stopping, deaf, installed, abandoned>>

\* A row that cannot be deleted stays, its receivers stopped and its volumes gone.
DeletesRow ==
    /\ delete.pc = "drop"
    /\ \/ DropsRow(delete.of) /\ NoFault /\ UNCHANGED deaf
       \/ Fault /\ deaf' = deaf \cup {delete.of} /\ UNCHANGED rows
    /\ delete' = [pc |-> "idle", of |-> 1, sees |-> {}]
    /\ UNCHANGED <<form, token, cloud, create, removal, stopping, receivers, installed, history>>

SetsRow(c, state) ==
    /\ row' = [row EXCEPT ![c] = state]
    /\ UNCHANGED <<form, token, inserted, diskId, ported, recorded, nextId, cloud, create, removal,
                   delete, deaf, installed, history>>

\* A cutover, ahead of its drain or past it.
CutsOver(c) ==
    /\ row[c] = "awaiting_agent"
    /\ SetsRow(c, "migrating")
    /\ receivers' \in {receivers, {r \in receivers : r.of[1] # c}}
    /\ UNCHANGED <<stopping, budget>>

IsDone(c) ==
    /\ row[c] = "migrating"
    /\ \E done \in {"launched", "failed"} : SetsRow(c, done)
    /\ receivers' = {r \in receivers : r.of[1] # c}
    /\ UNCHANGED <<stopping, budget>>

\* handleStopMigration, one at a time: the cutover is over, though nobody looks whether
\* that is written,
StopsCutover(c) ==
    /\ row[c] = "migrating" /\ c \notin stopping
    /\ MayCross \/ delete.pc = "idle" \/ delete.of # c
    /\ \/ SetsRow(c, "awaiting_agent") /\ NoFault
       \/ SetsRow(c, row[c]) /\ Fault
    /\ stopping' = stopping \cup {c}
    /\ UNCHANGED receivers

\* and the row is read again for the receivers it should have.
Reopens(c) ==
    /\ c \in stopping
    /\ stopping' = stopping \ {c}
    /\ Listening({c}, receivers, 0)
    /\ UNCHANGED <<form, token, rows, cloud, create, removal, delete, installed, history>>

Operator ==
    \/ SetLinodeToken \/ TokenRevoked \/ FindsNoneActive \/ DeletesToken
    \/ CleansUpDeleted \/ DeletesRow
    \/ \E c \in Creations : LoadsRow(c) \/ CutsOver(c) \/ IsDone(c) \/ StopsCutover(c) \/ Reopens(c)

-----------------------------------------------------------------------------
(***************************************************************************)
(* The source's side.                                                      *)
(***************************************************************************)

\* handleAgentInstaller: an agent per disk, with its port and the enrollment's job id;
\* a disk without a port gets an agent that will not find one.
Installs(c) ==
    /\ row[c] # "none"
    /\ installed[c] # ported[c]
    /\ installed' = [installed EXCEPT ![c] = ported[c]]
    /\ UNCHANGED <<form, token, rows, cloud, create, commands, listening, budget,
                   history>>

\* handleUninstallScript.
Uninstalls(c) ==
    /\ installed[c] # {}
    /\ installed' = [installed EXCEPT ![c] = {}]
    /\ UNCHANGED <<form, token, rows, cloud, create, commands, listening, budget,
                   history>>

\* checkAgentHello: a receiver that knows its enrollment refuses any other, and one that
\* reads a disk of quite another size.
Admits(r, c, i) ==
    /\ r.checked => r.of[1] = c
    /\ ~SizeMismatch(form[r.of[1]].declared[r.of[2]], form[c].real[i])

Source == \E c \in Creations : Installs(c) \/ Uninstalls(c)

-----------------------------------------------------------------------------
(***************************************************************************)
(* The appliance restarts, or is deployed anew.                            *)
(***************************************************************************)

\* StartActiveReceivers: not those of a migration in the state it was created in.
Serves(c) == row[c] = "awaiting_agent"

\* What dies with the process, and the volume whose id was about to be recorded.
ProcessDies ==
    /\ create' = [c \in Creations |-> IF InProgress(c) THEN [create[c] EXCEPT !.pc = "ended"]
                                      ELSE create[c]]
    /\ abandoned' = abandoned \cup {c \in Creations : InProgress(c)}
    /\ removal' = "idle"
    /\ delete' = [pc |-> "idle", of |-> 1, sees |-> {}]
    /\ stopping' = {}

Restart ==
    /\ budget.restarts < MaxRestarts
    /\ ProcessDies
    /\ lost' = lost \cup {ThisDisk(c) : c \in {b \in Creations : At(b, "record")}}
    /\ Listening({c \in Creations : Serves(c)}, {}, 1)
    /\ UNCHANGED <<form, token, rows, cloud, installed>>

\* A new database: ids start again, the volumes of the old one stay in the account and
\* its agents on their sources.
Redeployed ==
    /\ budget.restarts < MaxRestarts
    /\ ProcessDies
    /\ token' = "none"
    /\ row' = [c \in Creations |-> "none"]
    /\ inserted' = [c \in Creations |-> {}]
    /\ ported' = [c \in Creations |-> {}]
    /\ recorded' = [c \in Creations |-> {}]
    /\ nextId' = 1
    /\ lost' = cloud
    /\ receivers' = {} /\ deaf' = {}
    /\ budget' = [budget EXCEPT !.restarts = @ + 1]
    /\ UNCHANGED <<form, diskId, cloud, installed>>

Next ==
    \/ Operator \/ Source \/ Restart \/ Redeployed
    \/ \E c \in Creations : Creating(c)

Spec == Init /\ [][Next]_vars

-----------------------------------------------------------------------------
(***************************************************************************)
(* Properties.                                                             *)
(***************************************************************************)

\* Every volume in the account is one a row names, or is about to, so that Delete or a
\* roll-back will find it: only an accident loses one.
VolumesAccounted ==
    \A v \in cloud \ lost :
        \/ v[2] \in recorded[v[1]]
        \/ At(v[1], "record") /\ v[2] = create[v[1]].disk

\* A creation that ends by itself leaves a migration awaiting its agent with a port and
\* a volume on every disk, or nothing.
CreatedWhole ==
    \A c \in Creations \ abandoned :
        At(c, "ended") /\ row[c] # "none" =>
            /\ row[c] # "created"
            /\ inserted[c] = DisksOf(c) /\ ported[c] = DisksOf(c)
            /\ \A i \in DisksOf(c) : i \in recorded[c] \/ <<c, i>> \in lost

\* Every disk of a migration awaiting its agent has its receiver, across stopped cutovers
\* and restarts, unless starting it or deleting its row has failed, and none outlives its
\* migration: its port and its device will be another's.
ReceiversFollowRows ==
    /\ \A r \in receivers : row[r.of[1]] # "none"
    /\ \A c \in Creations \ (abandoned \cup deaf) :
        /\ At(c, "ended") /\ row[c] = "awaiting_agent" /\ c \notin stopping
        /\ ~(delete.of = c /\ delete.pc = "drop")
        => \A i \in DisksOf(c) : \E r \in receivers : r.of = <<c, i>>

\* The size of a disk rounded up when it was entered, its own agent is let in, and the
\* disk fits its volume and the plan: rounding, floor and tolerance do not get in each
\* other's way, in three places of the code.
RoundedSizesFit ==
    \A r \in receivers :
        LET c == r.of[1]
            i == r.of[2]
            real == form[c].real[i]
        IN  i \in installed[c] /\ form[c].declared[i] \in real .. 2 * real =>
                /\ Admits(r, c, i)
                /\ FitsTarget(real, r.of)
                /\ i = 1 /\ form[c].target = "disk" => real <= Plans[PlanOf(form[c])].disk
=============================================================================
