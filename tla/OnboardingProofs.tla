-------------------------- MODULE OnboardingProofs --------------------------
(***************************************************************************)
(* What is proved of Onboarding, for any number of creations of any forms  *)
(* and any plans: its type invariant, and that sizes rounded up fit, at    *)
(* all times; and, when neither a deletion nor the token's removal crosses *)
(* a creation, nor a deletion a Stop, that no volume is forgotten, that a  *)
(* creation leaves a whole migration or nothing, and that receivers follow *)
(* rows.  The first two follow from one invariant, Sound, the others from  *)
(* a second, Kept, which says of each migration what its handler has done  *)
(* by the place it is at.                                                  *)
(***************************************************************************)
EXTENDS Onboarding, WellFoundedInduction, TLAPS

\* The variables by the groups a step leaves alone.
USE DEF commands, listening

---------------------------------------------------------------------------
(***************************************************************************)
(* The invariants.                                                         *)
(***************************************************************************)

\* Before its rows are inserted there is nothing of a migration.
Blank(c) ==
    create[c].pc \in {"unused", "insert"} =>
        /\ row[c] = "none" /\ create[c].disk = 1
        /\ inserted[c] = {} /\ ported[c] = {} /\ recorded[c] = {}
        /\ \A v \in cloud : v[1] # c

\* A creation is at one of its disks.
InRange(c) == create[c].disk \in DisksOf(c)

\* What has rows, receivers or a handler has a plan that fits.
Resolved(c) ==
    \/ PlanResolves(form[c])
    \/ /\ ~InProgress(c)
       /\ inserted[c] = {}
       /\ \A r \in receivers : r.of[1] # c

Sound == TypeOK /\ \A c \in Creations : Blank(c) /\ InRange(c) /\ Resolved(c)

\* No deletion meets a creation in progress or a Stop, nor does the removal of the token
\* meet a creation; a deletion knows of all volumes the row names; what is stopped has
\* been opened.
Uncrossed(c) ==
    /\ delete.pc # "idle" /\ delete.of = c => At(c, "ended") /\ c \notin stopping
    /\ c \in stopping => row[c] # "none" /\ create[c].pc \in {"listen", "ended"}
    /\ delete.pc = "clean" /\ delete.of = c => delete.sees = recorded[c]
    /\ InProgress(c) => token # "none" /\ removal = "idle"

\* While it is in progress a migration has all its rows, in the state that goes with
\* the place.
Rowed(c) ==
    /\ InProgress(c) /\ ~At(c, "insert") => inserted[c] = DisksOf(c)
    /\ create[c].pc \in {"port", "volume", "record", "wait", "open", "rollback", "unrow"} =>
        row[c] = "created"
    /\ At(c, "listen") => row[c] # "none" /\ (c \notin abandoned => row[c] # "created")

\* A disk has its port, and its volume, unless an accident took it.
Stored(c, i) == i \in ported[c] /\ (i \in recorded[c] \/ <<c, i>> \in lost)

\* A handler that still has its client has provided the disks before the one it is at.
Provided(c) ==
    ~Gone(c) =>
        /\ create[c].pc \in {"port", "volume", "record", "wait"} =>
            \A i \in DisksOf(c) : i < create[c].disk => Stored(c, i)
        /\ create[c].pc \in {"volume", "record"} => create[c].disk \in ported[c]
        /\ At(c, "wait") => Stored(c, create[c].disk)
        /\ create[c].pc \in {"open", "listen"} => \A i \in DisksOf(c) : Stored(c, i)

\* CreatedWhole, of one migration.
Whole(c) ==
    c \notin abandoned /\ At(c, "ended") /\ row[c] # "none" =>
        /\ row[c] # "created"
        /\ inserted[c] = DisksOf(c)
        /\ \A i \in DisksOf(c) : Stored(c, i)

\* VolumesAccounted, of one migration; and what is about to be dropped names none.
Accounted(c) ==
    /\ \A v \in cloud \ lost :
        v[1] = c => v[2] \in recorded[c] \/ (At(c, "record") /\ v[2] = create[c].disk)
    /\ At(c, "unrow") => \A v \in cloud \ lost : v[1] # c
    /\ delete.pc = "drop" /\ delete.of = c => \A v \in cloud \ lost : v[1] # c

\* ReceiversFollowRows, of one migration.
Heard(c) ==
    /\ \A r \in receivers :
        r.of[1] = c => /\ row[c] # "none"
                       /\ create[c].pc \in {"listen", "ended"}
                       /\ ~(delete.pc = "drop" /\ delete.of = c)
    /\ /\ c \notin abandoned \cup deaf /\ c \notin stopping
       /\ At(c, "ended") /\ row[c] = "awaiting_agent"
       /\ ~(delete.of = c /\ delete.pc = "drop")
       => \A i \in DisksOf(c) : \E r \in receivers : r.of = <<c, i>>

Kept(c) == Uncrossed(c) /\ Rowed(c) /\ Provided(c) /\ Whole(c) /\ Accounted(c) /\ Heard(c)
KeptAll == \A c \in Creations : Kept(c)

---------------------------------------------------------------------------
(***************************************************************************)
(* Types.                                                                  *)
(***************************************************************************)

Handlers == [pc : CreatePcs, disk : 1 .. 8, gone : BOOLEAN]
Budgets  == [refusals : 0 .. MaxRefusals, faults : 0 .. MaxFaults, restarts : 0 .. MaxRestarts]
RowStates == {"none", "created", "awaiting_agent", "migrating", "launched", "failed"}

\* Forms are as the form's checks leave them.
LEMMA FormTyped ==
  ASSUME form \in Forms, NEW c \in Creations
  PROVE  /\ IsForm(form[c])
         /\ NumDisks(c) \in 1 .. 8
         /\ DisksOf(c) \subseteq 1 .. 8
         /\ 1 \in DisksOf(c)
<1>1. IsForm(form[c])
  BY CreationAssumption
<1>2. NumDisks(c) \in 1 .. 8
  BY <1>1 DEF IsForm, NumDisks
<1>3. QED
  BY <1>1, <1>2 DEF DisksOf

\* A disk is its migration and its place.
LEMMA DiskIsPair ==
  ASSUME form \in Forms
  PROVE  /\ \A v \in AllDisks : /\ v = <<v[1], v[2]>>
                                /\ v[1] \in Creations
                                /\ v[2] \in DisksOf(v[1])
         /\ \A c \in Creations : \A i \in DisksOf(c) : <<c, i>> \in AllDisks
<1>1. \A c \in Creations : DisksOf(c) \subseteq 1 .. 8
  BY FormTyped
<1>2. QED
  BY <1>1 DEF AllDisks

\* What a handler's step does to its place.
LEMMA GotoTyped ==
  ASSUME TypeOK, NEW c \in Creations, NEW pc \in CreatePcs, Goto(c, pc)
  PROVE  /\ create' \in [Creations -> Handlers]
         /\ create'[c].pc = pc
         /\ create'[c].disk = create[c].disk /\ create'[c].gone = create[c].gone
         /\ \A b \in Creations : b # c => create'[b] = create[b]
<1>1. create \in [Creations -> Handlers]
  BY DEF TypeOK, Handlers
<1>2. create' = [create EXCEPT ![c] = [create[c] EXCEPT !.pc = pc]]
  BY <1>1 DEF Goto
<1>3. [create[c] EXCEPT !.pc = pc] \in Handlers
  BY <1>1 DEF Handlers
<1>4. QED
  BY <1>1, <1>2, <1>3 DEF Handlers

\* The next disk is one of the migration's, and the last is the end of the loop.
LEMMA NextDiskTyped ==
  ASSUME TypeOK, NEW c \in Creations, InRange(c), NextDisk(c)
  PROVE  /\ create' \in [Creations -> Handlers]
         /\ create'[c].gone = create[c].gone
         /\ \/ /\ create'[c].pc = "port"
               /\ create'[c].disk = create[c].disk + 1
               /\ create'[c].disk \in DisksOf(c)
            \/ /\ create'[c].pc = "open"
               /\ create'[c].disk = create[c].disk
               /\ create[c].disk = NumDisks(c)
         /\ \A b \in Creations : b # c => create'[b] = create[b]
<1>1. create \in [Creations -> Handlers] /\ form \in Forms
  BY DEF TypeOK, Handlers
<1>2. NumDisks(c) \in 1 .. 8 /\ create[c].disk \in 1 .. NumDisks(c)
  BY <1>1, FormTyped DEF InRange, DisksOf
<1>3. CASE create[c].disk < NumDisks(c)
  <2>1. create' = [create EXCEPT ![c] = [create[c] EXCEPT !.pc = "port", !.disk = @ + 1]]
    BY <1>1, <1>3 DEF NextDisk
  <2>2. /\ [create[c] EXCEPT !.pc = "port", !.disk = @ + 1] \in Handlers
        /\ create[c].disk + 1 \in DisksOf(c)
    <3>1. create[c].disk + 1 \in 1 .. 8 /\ create[c].disk + 1 \in 1 .. NumDisks(c)
      BY <1>2, <1>3
    <3>2. QED
      BY <1>1, <3>1 DEF Handlers, CreatePcs, DisksOf
  <2>3. QED
    BY <1>1, <2>1, <2>2 DEF Handlers
<1>4. CASE ~(create[c].disk < NumDisks(c))
  <2>1. create' = [create EXCEPT ![c] = [create[c] EXCEPT !.pc = "open"]]
    BY <1>1, <1>4 DEF NextDisk
  <2>2. [create[c] EXCEPT !.pc = "open"] \in Handlers
    BY <1>1 DEF Handlers, CreatePcs
  <2>3. create[c].disk = NumDisks(c)
    BY <1>2, <1>4
  <2>4. QED
    BY <1>1, <2>1, <2>2, <2>3 DEF Handlers
<1>5. QED
  BY <1>3, <1>4

\* An accident is counted, or there is none.
LEMMA BudgetTyped ==
  ASSUME TypeOK, NoFault \/ Fault \/ Refusal
  PROVE  budget' \in Budgets
<1>1. budget \in Budgets /\ MaxFaults \in Nat /\ MaxRefusals \in Nat
  BY BoundAssumption DEF TypeOK, Budgets
<1>2. CASE NoFault
  BY <1>1, <1>2 DEF NoFault
<1>3. CASE Fault
  <2>1. budget.faults + 1 \in 0 .. MaxFaults /\ budget' = [budget EXCEPT !.faults = @ + 1]
    BY <1>1, <1>3 DEF Fault, Budgets
  <2>2. QED
    BY <1>1, <2>1 DEF Budgets
<1>4. CASE Refusal
  <2>1. budget.refusals + 1 \in 0 .. MaxRefusals /\ budget' = [budget EXCEPT !.refusals = @ + 1]
    BY <1>1, <1>4 DEF Refusal, Budgets
  <2>2. QED
    BY <1>1, <2>1 DEF Budgets
<1>5. QED
  BY <1>2, <1>3, <1>4

\* cleanupMigrationResources: only volumes that the row names go, those that it names
\* and that stay are counted as lost, and of other migrations nothing changes.
LEMMA CleansUpEffect ==
  ASSUME TypeOK, NEW c \in Creations, NEW I, CleansUp(c, I)
  PROVE  /\ receivers' = {r \in receivers : r.of[1] # c}
         /\ budget' \in Budgets
         /\ cloud' \subseteq cloud
         /\ lost' \subseteq AllDisks
         /\ \A v \in AllDisks : v[1] # c => (v \in cloud' <=> v \in cloud) /\ (v \in lost' <=> v \in lost)
         /\ \A v \in cloud' \ lost' : v \in cloud \ lost /\ ~(v[1] = c /\ v[2] \in I)
         /\ \A i \in DisksOf(c) : <<c, i>> \in lost /\ i \notin I => <<c, i>> \in lost'
<1>1. PICK kept \in SUBSET Volumes(c, I) :
        /\ IF token # "works" THEN kept = Volumes(c, I) /\ NoFault
           ELSE IF kept = {} THEN NoFault ELSE Fault
        /\ cloud' = cloud \ (Volumes(c, I) \ kept)
        /\ lost' = (lost \ Volumes(c, I)) \cup kept
  BY DEF CleansUp
<1>2. budget' \in Budgets
  BY <1>1, BudgetTyped
<1>3. cloud \subseteq AllDisks /\ lost \subseteq AllDisks /\ form \in Forms
  BY DEF TypeOK
<1>4. /\ \A v \in Volumes(c, I) : v \in cloud /\ v[1] = c /\ v[2] \in I
      /\ \A v \in cloud : v[1] = c /\ v[2] \in I => v \in Volumes(c, I)
  BY <1>3, DiskIsPair DEF Volumes
<1>5. receivers' = {r \in receivers : r.of[1] # c}
  BY DEF CleansUp
<1>6. \A v \in AllDisks : v[1] # c => (v \in cloud' <=> v \in cloud) /\ (v \in lost' <=> v \in lost)
  BY <1>1, <1>4
<1>7. \A v \in cloud' \ lost' : v \in cloud \ lost /\ ~(v[1] = c /\ v[2] \in I)
  BY <1>1, <1>4
<1>8. \A i \in DisksOf(c) : <<c, i>> \in lost /\ i \notin I => <<c, i>> \in lost'
  BY <1>1, <1>4
<1>9. QED
  BY <1>1, <1>2, <1>3, <1>4, <1>5, <1>6, <1>7, <1>8

\* What a deletion or a roll-back drops.
LEMMA DropsRowEffect ==
  ASSUME TypeOK, NEW c \in Creations, DropsRow(c)
  PROVE  /\ row'[c] = "none" /\ inserted'[c] = {} /\ ported'[c] = {} /\ recorded'[c] = {}
         /\ \A b \in Creations : b # c =>
                /\ row'[b] = row[b] /\ inserted'[b] = inserted[b]
                /\ ported'[b] = ported[b] /\ recorded'[b] = recorded[b]
         /\ row' \in [Creations -> RowStates]
         /\ inserted' \in [Creations -> SUBSET (1 .. 8)]
         /\ ported' \in [Creations -> SUBSET (1 .. 8)]
         /\ recorded' \in [Creations -> SUBSET (1 .. 8)]
BY DEF TypeOK, DropsRow, RowStates

\* ensureReceivers: a receiver is added for disks of C that have a port, and for all of
\* them unless the migration is left deaf.
LEMMA ListeningEffect ==
  ASSUME TypeOK, NEW C, NEW already, already \subseteq receivers,
         NEW restarts \in {0, 1}, restarts = 1 => budget.restarts < MaxRestarts,
         Listening(C, already, restarts)
  PROVE  /\ receivers' \subseteq [of : AllDisks, checked : BOOLEAN]
         /\ already \subseteq receivers'
         /\ \A r \in receivers' \ already : r.of[1] \in C /\ r.of[2] \in ported[r.of[1]]
         /\ \A d \in AllDisks : d[1] \in C /\ d[1] \notin deaf' /\ d[2] \in ported[d[1]] =>
                \E r \in receivers' : r.of = d
         /\ deaf' \subseteq Creations
         /\ \A c \in Creations \ C : c \in deaf' <=> c \in deaf
         /\ budget' \in Budgets
<1> DEFINE new == Deaf(C, already)
<1>1. PICK silent \in SUBSET new : \E unread \in SUBSET (new \ silent) :
        /\ silent \cup unread # {} => budget.faults < MaxFaults
        /\ receivers' = already \cup {[of |-> d, checked |-> d \notin unread] : d \in new \ silent}
        /\ deaf' = (deaf \ C) \cup {d[1] : d \in silent}
        /\ budget' = [budget EXCEPT !.restarts = @ + restarts,
                                    !.faults = @ + IF silent \cup unread = {} THEN 0 ELSE 1]
  BY DEF Listening
<1>2. PICK unread \in SUBSET (new \ silent) :
        /\ silent \cup unread # {} => budget.faults < MaxFaults
        /\ receivers' = already \cup {[of |-> d, checked |-> d \notin unread] : d \in new \ silent}
        /\ deaf' = (deaf \ C) \cup {d[1] : d \in silent}
        /\ budget' = [budget EXCEPT !.restarts = @ + restarts,
                                    !.faults = @ + IF silent \cup unread = {} THEN 0 ELSE 1]
  BY <1>1
<1>3. /\ new \subseteq AllDisks
      /\ \A d \in new : d[1] \in C /\ d[2] \in ported[d[1]]
      /\ \A d \in AllDisks : d[1] \in C /\ d[2] \in ported[d[1]] =>
            d \in new \/ \E r \in already : r.of = d
  BY DEF Deaf
<1> HIDE DEF new
<1>4. /\ receivers \subseteq [of : AllDisks, checked : BOOLEAN] /\ budget \in Budgets
      /\ deaf \subseteq Creations
      /\ \A d \in AllDisks : d[1] \in Creations
  BY DiskIsPair DEF TypeOK, Budgets
<1>5. budget' \in Budgets
  <2>1. MaxFaults \in Nat /\ MaxRestarts \in Nat
    BY BoundAssumption
  <2>2. budget.faults + (IF silent \cup unread = {} THEN 0 ELSE 1) \in 0 .. MaxFaults
    BY <1>2, <1>4, <2>1 DEF Budgets
  <2>3. budget.restarts + restarts \in 0 .. MaxRestarts
    BY <1>4, <2>1 DEF Budgets
  <2>4. QED
    BY <1>2, <1>4, <2>2, <2>3 DEF Budgets
<1>6. receivers' \subseteq [of : AllDisks, checked : BOOLEAN]
  <2>1. \A d \in new : [of |-> d, checked |-> d \notin unread] \in [of : AllDisks, checked : BOOLEAN]
    BY <1>3
  <2>2. QED
    BY <1>2, <1>4, <2>1
<1>7. \A r \in receivers' \ already : r.of[1] \in C /\ r.of[2] \in ported[r.of[1]]
  BY <1>2, <1>3
<1>8. ASSUME NEW d \in AllDisks, d[1] \in C, d[1] \notin deaf', d[2] \in ported[d[1]]
      PROVE  \E r \in receivers' : r.of = d
  <2>1. CASE \E r \in already : r.of = d
    BY <1>2, <2>1
  <2>2. CASE d \in new
    <3>1. d \notin silent
      BY <1>2, <1>8
    <3>2. [of |-> d, checked |-> d \notin unread] \in receivers'
      BY <1>2, <2>2, <3>1
    <3>3. QED
      BY <3>2
  <2>3. QED
    BY <1>3, <1>8, <2>1, <2>2
<1>9. /\ deaf' \subseteq Creations
      /\ \A c \in Creations \ C : c \in deaf' <=> c \in deaf
  BY <1>2, <1>3, <1>4
<1>10. QED
  BY <1>2, <1>5, <1>6, <1>7, <1>8, <1>9

\* What is entered stays, and with it how many disks there are.
LEMMA DisksStay ==
  ASSUME UNCHANGED form
  PROVE  AllDisks' = AllDisks /\ \A c \in Creations : DisksOf(c)' = DisksOf(c)
BY DEF AllDisks, DisksOf, NumDisks

\* The types of a state by the name of its sets; AllDisks of the next state is that of
\* this one.
Typed ==
  /\ row \in [Creations -> RowStates]
  /\ inserted \in [Creations -> SUBSET (1 .. 8)]
  /\ ported \in [Creations -> SUBSET (1 .. 8)]
  /\ recorded \in [Creations -> SUBSET (1 .. 8)]
  /\ installed \in [Creations -> SUBSET (1 .. 8)]
  /\ \A c \in Creations : /\ inserted[c] \subseteq DisksOf(c)
                          /\ ported[c] \subseteq inserted[c]
                          /\ recorded[c] \subseteq inserted[c]
                          /\ installed[c] \subseteq DisksOf(c)
  /\ token \in {"none", "works", "revoked"}
  /\ nextId \in Nat \ {0}
  /\ create \in [Creations -> Handlers]
  /\ removal \in {"idle", "clear"}
  /\ delete \in [pc : {"idle", "clean", "drop"}, of : Creations, sees : SUBSET (1 .. 8)]
  /\ budget \in Budgets
  /\ abandoned \subseteq Creations
  /\ deaf \subseteq Creations
  /\ stopping \subseteq Creations
  /\ form \in Forms

LEMMA TypeParts ==
  TypeOK <=> /\ Typed
             /\ diskId \in [AllDisks -> Nat]
             /\ cloud \subseteq AllDisks
             /\ receivers \subseteq [of : AllDisks, checked : BOOLEAN]
             /\ lost \subseteq AllDisks
BY DEF TypeOK, Typed, RowStates, Handlers, Budgets

LEMMA TypeNext ==
  ASSUME Typed', UNCHANGED form,
         diskId' \in [AllDisks -> Nat],
         cloud' \subseteq AllDisks,
         receivers' \subseteq [of : AllDisks, checked : BOOLEAN],
         lost' \subseteq AllDisks
  PROVE  TypeOK'
<1>1. AllDisks' = AllDisks
  BY DisksStay
<1>2. QED
  BY <1>1 DEF TypeOK, Typed, RowStates, Handlers, Budgets

\* Every step of a handler leaves types as they are.
LEMMA CreatingTyped ==
  ASSUME TypeOK, NEW c \in Creations, Blank(c), InRange(c), Creating(c)
  PROVE  TypeOK'
<1> USE DEF Typed
<1>0. /\ Typed
      /\ diskId \in [AllDisks -> Nat] /\ cloud \subseteq AllDisks
      /\ receivers \subseteq [of : AllDisks, checked : BOOLEAN]
      /\ lost \subseteq AllDisks
      /\ ThisDisk(c) \in AllDisks
      /\ DisksOf(c) \subseteq 1 .. 8
  BY TypeParts, FormTyped, DiskIsPair DEF InRange, ThisDisk
<1>a. UNCHANGED form
  BY DEF Creating, ReceivesRequest, InsertsRows, InsertsNothing, AssignsPort, CreatesVolume,
         RecordsVolume, WaitsActive, Opens, Listens, RollsBack, Unrows, Abandoned, ClientGoes
<1>b. \A b \in Creations : DisksOf(b)' = DisksOf(b)
  BY <1>a, DisksStay
<1>c. \A pc \in CreatePcs : Goto(c, pc) => create' \in [Creations -> Handlers]
  BY GotoTyped
<1>d. NextDisk(c) => create' \in [Creations -> Handlers]
  BY NextDiskTyped
<1>e. NoFault \/ Fault \/ Refusal => budget' \in Budgets
  BY BudgetTyped
<1>f. Abandons(c) => create' \in [Creations -> Handlers] /\ abandoned' \subseteq Creations
  BY <1>0, <1>c DEF Abandons, CreatePcs
<1>1. CASE ReceivesRequest(c)
  <2>1. create' \in [Creations -> Handlers]
    BY <1>1, <1>c DEF ReceivesRequest, CreatePcs
  <2>2. QED
    BY <1>0, <1>1, <1>b, <2>1, TypeNext DEF ReceivesRequest, rows, history
<1>2. CASE InsertsRows(c)
  <2>1. PICK n \in 0 .. NumDisks(c) :
        /\ \/ NoFault /\ Goto(c, "port") /\ UNCHANGED abandoned
           \/ Fault /\ Abandons(c)
        /\ row' = [row EXCEPT ![c] = "created"]
        /\ inserted' = [inserted EXCEPT ![c] = 1 .. n]
        /\ diskId' = [d \in AllDisks |-> IF d[1] = c /\ d[2] <= n THEN nextId + d[2] - 1
                                         ELSE diskId[d]]
        /\ nextId' = nextId + n
    BY <1>2 DEF InsertsRows
  <2>2. NumDisks(c) \in 1 .. 8 /\ 1 .. n \subseteq DisksOf(c)
    BY <1>0, FormTyped DEF DisksOf
  <2>3. \A d \in AllDisks : d[2] \in 1 .. 8
    BY <1>0, FormTyped, DiskIsPair
  <2>4. diskId' \in [AllDisks -> Nat]
    <3>1. ASSUME NEW d \in AllDisks PROVE nextId + d[2] - 1 \in Nat /\ diskId[d] \in Nat
      <4>1. d[2] \in 1 .. 8 /\ nextId \in Nat \ {0}
        BY <1>0, <2>3
      <4>2. QED
        BY <1>0, <4>1
    <3>2. QED
      BY <2>1, <3>1
  <2>5. /\ UNCHANGED <<form, token, ported, recorded, cloud, commands, listening,
                       installed, lost>>
        /\ ported[c] = {} /\ recorded[c] = {}
    BY <1>2 DEF InsertsRows, Blank, At
  <2>6. create' \in [Creations -> Handlers] /\ abandoned' \subseteq Creations /\ budget' \in Budgets
    BY <1>0, <1>c, <1>e, <1>f, <2>1 DEF CreatePcs
  <2>7. row' \in [Creations -> RowStates]
    BY <1>0, <2>1 DEF RowStates
  <2>8. inserted' \in [Creations -> SUBSET (1 .. 8)] /\ nextId' \in Nat \ {0}
    BY <1>0, <2>1, <2>2
  <2>9. \A b \in Creations : inserted'[b] \subseteq DisksOf(b) /\ ported'[b] \subseteq inserted'[b]
                             /\ recorded'[b] \subseteq inserted'[b]
    BY <1>0, <2>1, <2>2, <2>5
  <2>10. QED
    BY <1>0, <1>b, <2>4, <2>5, <2>6, <2>7, <2>8, <2>9, TypeNext
<1>3. CASE InsertsNothing(c)
  BY <1>0, <1>3, <1>b, <1>f, TypeNext DEF InsertsNothing, rows
<1>4. CASE AssignsPort(c)
  <2>1. create' \in [Creations -> Handlers] /\ budget' \in Budgets
    BY <1>4, <1>c, <1>e DEF AssignsPort, CreatePcs
  <2>2. ported' = ported \/ ported' = [ported EXCEPT ![c] = @ \cup ({create[c].disk} \cap inserted[c])]
    BY <1>4 DEF AssignsPort
  <2>3. /\ ported' \in [Creations -> SUBSET (1 .. 8)]
        /\ \A b \in Creations : ported'[b] \subseteq inserted[b]
    BY <1>0, <2>2
  <2>4. QED
    BY <1>0, <1>4, <1>b, <2>1, <2>3, TypeNext DEF AssignsPort, history
<1>5. CASE CreatesVolume(c)
  <2>1. create' \in [Creations -> Handlers] /\ budget' \in Budgets
    BY <1>5, <1>c, <1>d, <1>e DEF CreatesVolume, CreatePcs
  <2>2. cloud' \subseteq AllDisks /\ lost' \subseteq AllDisks
    BY <1>0, <1>5 DEF CreatesVolume
  <2>3. QED
    BY <1>0, <1>5, <1>b, <2>1, <2>2, TypeNext DEF CreatesVolume, rows
<1>6. CASE RecordsVolume(c)
  <2>1. create' \in [Creations -> Handlers] /\ budget' \in Budgets
    BY <1>6, <1>c, <1>e DEF RecordsVolume, CreatePcs
  <2>2. \/ recorded' = recorded
        \/ recorded' = [recorded EXCEPT ![c] = @ \cup ({create[c].disk} \cap inserted[c])]
    BY <1>6 DEF RecordsVolume
  <2>3. /\ recorded' \in [Creations -> SUBSET (1 .. 8)]
        /\ \A b \in Creations : recorded'[b] \subseteq inserted[b]
    BY <1>0, <2>2
  <2>4. lost' \subseteq AllDisks
    BY <1>0, <1>6 DEF RecordsVolume
  <2>5. QED
    BY <1>0, <1>6, <1>b, <2>1, <2>3, <2>4, TypeNext DEF RecordsVolume
<1>7. CASE WaitsActive(c)
  <2>1. create' \in [Creations -> Handlers] /\ budget' \in Budgets
    BY <1>7, <1>c, <1>d, <1>e DEF WaitsActive, CreatePcs
  <2>2. QED
    BY <1>0, <1>7, <1>b, <2>1, TypeNext DEF WaitsActive, rows, history
<1>8. CASE Opens(c)
  <2>1. create' \in [Creations -> Handlers]
    BY <1>8, <1>c DEF Opens, CreatePcs
  <2>2. row' \in [Creations -> RowStates]
    BY <1>0, <1>8 DEF Opens, RowStates
  <2>3. abandoned' \subseteq Creations /\ budget' \in Budgets
    BY <1>0, <1>8, <1>e DEF Opens
  <2>4. QED
    BY <1>0, <1>8, <1>b, <2>1, <2>2, <2>3, TypeNext DEF Opens
<1>9. CASE Listens(c)
  <2>1. create' \in [Creations -> Handlers]
    BY <1>9, <1>c DEF Listens, CreatePcs
  <2>2. /\ receivers' \subseteq [of : AllDisks, checked : BOOLEAN]
        /\ deaf' \subseteq Creations /\ budget' \in Budgets
    BY <1>9, ListeningEffect DEF Listens
  <2>3. QED
    BY <1>0, <1>9, <1>b, <2>1, <2>2, TypeNext DEF Listens, rows, history
<1>10. CASE RollsBack(c)
  <2>1. create' \in [Creations -> Handlers]
    BY <1>10, <1>c DEF RollsBack, CreatePcs
  <2>2. /\ receivers' \subseteq [of : AllDisks, checked : BOOLEAN]
        /\ budget' \in Budgets /\ cloud' \subseteq AllDisks /\ lost' \subseteq AllDisks
    BY <1>0, <1>10, CleansUpEffect DEF RollsBack
  <2>3. QED
    BY <1>0, <1>10, <1>b, <2>1, <2>2, TypeNext DEF RollsBack, rows
<1>11. CASE Unrows(c)
  <2>1. create' \in [Creations -> Handlers] /\ abandoned' \subseteq Creations /\ budget' \in Budgets
    BY <1>0, <1>11, <1>c, <1>e, <1>f DEF Unrows, CreatePcs
  <2>2. /\ row' \in [Creations -> RowStates]
        /\ inserted' \in [Creations -> SUBSET (1 .. 8)]
        /\ ported' \in [Creations -> SUBSET (1 .. 8)]
        /\ recorded' \in [Creations -> SUBSET (1 .. 8)]
        /\ \A b \in Creations : /\ inserted'[b] \subseteq DisksOf(b)
                                /\ ported'[b] \subseteq inserted'[b]
                                /\ recorded'[b] \subseteq inserted'[b]
    <3>1. CASE DropsRow(c)
      BY <1>0, <3>1, DropsRowEffect
    <3>2. CASE UNCHANGED rows
      BY <1>0, <3>2 DEF rows
    <3>3. QED
      BY <1>11, <3>1, <3>2 DEF Unrows
  <2>3. UNCHANGED <<diskId, nextId>>
    BY <1>11 DEF Unrows, DropsRow, rows
  <2>4. QED
    BY <1>0, <1>11, <1>b, <2>1, <2>2, <2>3, TypeNext DEF Unrows
<1>12. CASE Abandoned(c)
  BY <1>0, <1>12, <1>b, <1>f, TypeNext DEF Abandoned, rows
<1>13. CASE ClientGoes(c)
  <2>1. create' = [create EXCEPT ![c] = [create[c] EXCEPT !.gone = TRUE]]
    BY <1>0, <1>13 DEF ClientGoes
  <2>2. [create[c] EXCEPT !.gone = TRUE] \in Handlers
    BY <1>0 DEF Handlers
  <2>3. create' \in [Creations -> Handlers] /\ budget' \in Budgets
    BY <1>0, <1>13, <1>e, <2>1, <2>2 DEF ClientGoes
  <2>4. QED
    BY <1>0, <1>13, <1>b, <2>3, TypeNext DEF ClientGoes, rows, history
<1>14. QED
  BY <1>1, <1>2, <1>3, <1>4, <1>5, <1>6, <1>7, <1>8, <1>9, <1>10, <1>11, <1>12, <1>13
     DEF Creating

\* So does every other step.
LEMMA OthersTyped ==
  ASSUME TypeOK, \A c \in Creations : InRange(c), Operator \/ Source \/ Restart \/ Redeployed
  PROVE  TypeOK'
<1> USE DEF Typed
<1>0. /\ Typed
      /\ diskId \in [AllDisks -> Nat] /\ cloud \subseteq AllDisks
      /\ receivers \subseteq [of : AllDisks, checked : BOOLEAN]
      /\ lost \subseteq AllDisks
      /\ \A c \in Creations : DisksOf(c) \subseteq 1 .. 8 /\ ThisDisk(c) \in AllDisks
      /\ 1 \in Creations
  BY TypeParts, FormTyped, DiskIsPair, CreationAssumption DEF Creations, InRange, ThisDisk
<1>a. UNCHANGED form
  BY DEF Operator, Source, Restart, Redeployed, SetLinodeToken, TokenRevoked, FindsNoneActive,
         DeletesToken, CleansUpDeleted, DeletesRow, LoadsRow, CutsOver, IsDone, StopsCutover,
         Reopens, SetsRow, Installs, Uninstalls
<1>b. \A b \in Creations : DisksOf(b)' = DisksOf(b)
  BY <1>a, DisksStay
<1>1. CASE SetLinodeToken
  BY <1>0, <1>1, <1>b, TypeNext DEF SetLinodeToken, rows, history
<1>2. CASE TokenRevoked
  <2>1. budget' \in Budgets
    BY <1>2, BudgetTyped DEF TokenRevoked
  <2>2. QED
    BY <1>0, <1>2, <1>b, <2>1, TypeNext DEF TokenRevoked, rows, history
<1>3. CASE FindsNoneActive
  BY <1>0, <1>3, <1>b, TypeNext DEF FindsNoneActive, rows, history
<1>4. CASE DeletesToken
  BY <1>0, <1>4, <1>b, TypeNext DEF DeletesToken, rows, history
<1>5. CASE CleansUpDeleted
  <2>1. /\ delete.of \in Creations
        /\ delete' \in [pc : {"idle", "clean", "drop"}, of : Creations, sees : SUBSET (1 .. 8)]
    BY <1>0, <1>5 DEF CleansUpDeleted
  <2>2. /\ receivers' \subseteq [of : AllDisks, checked : BOOLEAN]
        /\ budget' \in Budgets /\ cloud' \subseteq AllDisks /\ lost' \subseteq AllDisks
    BY <1>0, <1>5, <2>1, CleansUpEffect DEF CleansUpDeleted
  <2>3. QED
    BY <1>0, <1>5, <1>b, <2>1, <2>2, TypeNext DEF CleansUpDeleted, rows
<1>6. CASE DeletesRow
  <2>1. /\ delete.of \in Creations
        /\ delete' \in [pc : {"idle", "clean", "drop"}, of : Creations, sees : SUBSET (1 .. 8)]
    BY <1>0, <1>6 DEF DeletesRow
  <2>2. /\ row' \in [Creations -> RowStates]
        /\ inserted' \in [Creations -> SUBSET (1 .. 8)]
        /\ ported' \in [Creations -> SUBSET (1 .. 8)]
        /\ recorded' \in [Creations -> SUBSET (1 .. 8)]
        /\ \A b \in Creations : /\ inserted'[b] \subseteq DisksOf(b)
                                /\ ported'[b] \subseteq inserted'[b]
                                /\ recorded'[b] \subseteq inserted'[b]
    <3>1. CASE DropsRow(delete.of)
      BY <1>0, <2>1, <3>1, DropsRowEffect
    <3>2. CASE UNCHANGED rows
      BY <1>0, <3>2 DEF rows
    <3>3. QED
      BY <1>6, <3>1, <3>2 DEF DeletesRow
  <2>3. UNCHANGED <<diskId, nextId>>
    BY <1>6 DEF DeletesRow, DropsRow, rows
  <2>4. deaf' \subseteq Creations /\ budget' \in Budgets
    BY <1>0, <1>6, <2>1, BudgetTyped DEF DeletesRow
  <2>5. QED
    BY <1>0, <1>6, <1>b, <2>1, <2>2, <2>3, <2>4, TypeNext DEF DeletesRow, history
<1>7. ASSUME NEW c \in Creations, LoadsRow(c) PROVE TypeOK'
  BY <1>0, <1>7, <1>b, TypeNext DEF LoadsRow, rows, history
<1>d. ASSUME NEW c \in Creations, NEW state \in RowStates, SetsRow(c, state),
             receivers' \subseteq receivers, stopping' \subseteq Creations, budget' \in Budgets
      PROVE  TypeOK'
  <2>1. row' \in [Creations -> RowStates]
    BY <1>0, <1>d DEF SetsRow
  <2>2. QED
    BY <1>0, <1>d, <1>b, <2>1, TypeNext DEF SetsRow, history
<1>8. ASSUME NEW c \in Creations, CutsOver(c) \/ IsDone(c) \/ StopsCutover(c) PROVE TypeOK'
  <2>1. \E state \in RowStates : SetsRow(c, state)
    BY <1>0, <1>8 DEF CutsOver, IsDone, StopsCutover, RowStates
  <2>2. receivers' \subseteq receivers /\ stopping' \subseteq Creations /\ budget' \in Budgets
    BY <1>0, <1>8, BudgetTyped DEF CutsOver, IsDone, StopsCutover
  <2>3. QED
    BY <1>d, <2>1, <2>2
<1>13. ASSUME NEW c \in Creations, Reopens(c) PROVE TypeOK'
  <2>1. /\ receivers' \subseteq [of : AllDisks, checked : BOOLEAN]
        /\ deaf' \subseteq Creations /\ budget' \in Budgets
    BY <1>13, ListeningEffect DEF Reopens
  <2>2. QED
    BY <1>0, <1>13, <1>b, <2>1, TypeNext DEF Reopens, rows, history
<1>9. ASSUME NEW c \in Creations, Installs(c) PROVE TypeOK'
  <2>1. installed' = [installed EXCEPT ![c] = ported[c]]
    BY <1>9 DEF Installs
  <2>2. /\ installed' \in [Creations -> SUBSET (1 .. 8)]
        /\ \A b \in Creations : installed'[b] \subseteq DisksOf(b)
    BY <1>0, <2>1
  <2>3. QED
    BY <1>0, <1>9, <1>b, <2>2, TypeNext DEF Installs, rows, history
<1>10. ASSUME NEW c \in Creations, Uninstalls(c) PROVE TypeOK'
  <2>1. installed' = [installed EXCEPT ![c] = {}]
    BY <1>10 DEF Uninstalls
  <2>2. /\ installed' \in [Creations -> SUBSET (1 .. 8)]
        /\ \A b \in Creations : installed'[b] \subseteq DisksOf(b)
    BY <1>0, <2>1
  <2>3. QED
    BY <1>0, <1>10, <1>b, <2>2, TypeNext DEF Uninstalls, rows, history
<1>c. ProcessDies => /\ create' \in [Creations -> Handlers]
                     /\ abandoned' \subseteq Creations
                     /\ removal' \in {"idle", "clear"} /\ stopping' \subseteq Creations
                     /\ delete' \in [pc : {"idle", "clean", "drop"}, of : Creations, sees : SUBSET (1 .. 8)]
  <2>1. \A c \in Creations : [create[c] EXCEPT !.pc = "ended"] \in Handlers
    BY <1>0 DEF Handlers, CreatePcs
  <2>2. QED
    BY <1>0, <2>1 DEF ProcessDies
<1>11. CASE Restart
  <2>1. /\ ProcessDies
        /\ lost' = lost \cup {ThisDisk(c) : c \in {b \in Creations : At(b, "record")}}
        /\ UNCHANGED <<form, token, rows, cloud, installed>>
    BY <1>11 DEF Restart
  <2>2. /\ receivers' \subseteq [of : AllDisks, checked : BOOLEAN]
        /\ deaf' \subseteq Creations /\ budget' \in Budgets
    BY <1>11, ListeningEffect DEF Restart
  <2>3. lost' \subseteq AllDisks
    BY <1>0, <2>1
  <2>4. QED
    BY <1>0, <1>b, <1>c, <2>1, <2>2, <2>3, TypeNext DEF rows
<1>12. CASE Redeployed
  <2>1. budget.restarts + 1 \in 0 .. MaxRestarts /\ budget' = [budget EXCEPT !.restarts = @ + 1]
    BY <1>0, <1>12, BoundAssumption DEF Redeployed, Budgets
  <2>2. budget' \in Budgets
    BY <1>0, <2>1 DEF Budgets
  <2>3. QED
    BY <1>0, <1>12, <1>b, <1>c, <2>2, TypeNext DEF Redeployed, RowStates
<1>14. QED
  BY <1>1, <1>2, <1>3, <1>4, <1>5, <1>6, <1>7, <1>8, <1>9, <1>10, <1>11, <1>12, <1>13
     DEF Operator, Source

---------------------------------------------------------------------------
(***************************************************************************)
(* What a step leaves alone.                                               *)
(***************************************************************************)

\* All that is kept of a migration stays as it is.
Apart(c) ==
  /\ create'[c] = create[c]
  /\ row'[c] = row[c] /\ inserted'[c] = inserted[c]
  /\ ported'[c] = ported[c] /\ recorded'[c] = recorded[c]
  /\ \A v \in AllDisks : v[1] = c => (v \in cloud' <=> v \in cloud) /\ (v \in lost' <=> v \in lost)
  /\ \A r \in receivers \cup receivers' : r.of[1] = c => (r \in receivers' <=> r \in receivers)
  /\ c \in abandoned' <=> c \in abandoned
  /\ c \in deaf' <=> c \in deaf
  /\ c \in stopping' <=> c \in stopping

\* A handler touches its own migration alone, and none of what the others share.
LEMMA CreatingApart ==
  ASSUME TypeOK, NEW b \in Creations, InRange(b), Creating(b)
  PROVE  /\ UNCHANGED <<form, commands, token, installed>>
         /\ \A c \in Creations : c # b => Apart(c)
<1>0. /\ Typed /\ ThisDisk(b) = <<b, create[b].disk>>
      /\ cloud \subseteq AllDisks /\ lost \subseteq AllDisks
  BY TypeParts DEF ThisDisk
<1>a. UNCHANGED <<form, commands, token, installed>>
  BY DEF Creating, ReceivesRequest, InsertsRows, InsertsNothing, AssignsPort, CreatesVolume,
         RecordsVolume, WaitsActive, Opens, Listens, RollsBack, Unrows, Abandoned, ClientGoes
<1> SUFFICES ASSUME NEW c \in Creations, c # b PROVE Apart(c)
  BY <1>a
<1> USE <1>a
<1>b. \A pc \in CreatePcs : Goto(b, pc) => create'[c] = create[c]
  BY GotoTyped
<1>c. NextDisk(b) => create'[c] = create[c]
  BY NextDiskTyped
<1>d. Abandons(b) => create'[c] = create[c] /\ (c \in abandoned' <=> c \in abandoned)
  BY <1>b DEF Abandons, CreatePcs
<1>1. CASE ReceivesRequest(b)
  <2>1. create'[c] = create[c]
    BY <1>1, <1>b DEF ReceivesRequest, CreatePcs
  <2>2. QED
    BY <1>1, <2>1 DEF ReceivesRequest, rows, history, Apart
<1>2. CASE InsertsRows(b)
  <2>1. /\ create'[c] = create[c] /\ (c \in abandoned' <=> c \in abandoned)
        /\ row'[c] = row[c] /\ inserted'[c] = inserted[c]
    BY <1>0, <1>2, <1>b, <1>d DEF InsertsRows, CreatePcs, Typed
  <2>2. QED
    BY <1>2, <2>1 DEF InsertsRows, Apart
<1>3. CASE InsertsNothing(b)
  BY <1>3, <1>d DEF InsertsNothing, rows, Apart
<1>4. CASE AssignsPort(b)
  <2>1. create'[c] = create[c] /\ ported'[c] = ported[c]
    BY <1>0, <1>4, <1>b DEF AssignsPort, CreatePcs, Typed
  <2>2. QED
    BY <1>4, <2>1 DEF AssignsPort, history, Apart
<1>5. CASE CreatesVolume(b)
  <2>1. create'[c] = create[c]
    BY <1>5, <1>b, <1>c DEF CreatesVolume, CreatePcs
  <2>2. \A v \in AllDisks : v[1] = c => (v \in cloud' <=> v \in cloud) /\ (v \in lost' <=> v \in lost)
    BY <1>0, <1>5 DEF CreatesVolume
  <2>3. QED
    BY <1>5, <2>1, <2>2 DEF CreatesVolume, rows, Apart
<1>6. CASE RecordsVolume(b)
  <2>1. create'[c] = create[c] /\ recorded'[c] = recorded[c]
    BY <1>0, <1>6, <1>b DEF RecordsVolume, CreatePcs, Typed
  <2>2. \A v \in AllDisks : v[1] = c => (v \in lost' <=> v \in lost)
    BY <1>0, <1>6 DEF RecordsVolume
  <2>3. QED
    BY <1>6, <2>1, <2>2 DEF RecordsVolume, Apart
<1>7. CASE WaitsActive(b)
  <2>1. create'[c] = create[c]
    BY <1>7, <1>b, <1>c DEF WaitsActive, CreatePcs
  <2>2. QED
    BY <1>7, <2>1 DEF WaitsActive, rows, history, Apart
<1>8. CASE Opens(b)
  <2>1. create'[c] = create[c] /\ row'[c] = row[c] /\ (c \in abandoned' <=> c \in abandoned)
    BY <1>0, <1>8, <1>b DEF Opens, CreatePcs, Typed
  <2>2. QED
    BY <1>8, <2>1 DEF Opens, Apart
<1>9. CASE Listens(b)
  <2>1. create'[c] = create[c]
    BY <1>9, <1>b DEF Listens, CreatePcs
  <2>2. /\ \A r \in receivers \cup receivers' : r.of[1] = c => (r \in receivers' <=> r \in receivers)
        /\ c \in deaf' <=> c \in deaf
    BY <1>9, ListeningEffect DEF Listens
  <2>3. QED
    BY <1>9, <2>1, <2>2 DEF Listens, rows, history, Apart
<1>10. CASE RollsBack(b)
  <2>1. create'[c] = create[c]
    BY <1>10, <1>b DEF RollsBack, CreatePcs
  <2>2. /\ receivers' = {r \in receivers : r.of[1] # b}
        /\ \A v \in AllDisks : v[1] # b => (v \in cloud' <=> v \in cloud) /\ (v \in lost' <=> v \in lost)
    BY <1>10, CleansUpEffect DEF RollsBack
  <2>3. QED
    BY <1>10, <2>1, <2>2 DEF RollsBack, rows, Apart
<1>11. CASE Unrows(b)
  <2>1. create'[c] = create[c]
    BY <1>11, <1>b, <1>d DEF Unrows, CreatePcs
  <2>2. /\ row'[c] = row[c] /\ inserted'[c] = inserted[c]
        /\ ported'[c] = ported[c] /\ recorded'[c] = recorded[c]
        /\ c \in abandoned' <=> c \in abandoned
    BY <1>11, <1>d, DropsRowEffect DEF Unrows, rows
  <2>3. QED
    BY <1>11, <2>1, <2>2 DEF Unrows, Apart
<1>12. CASE Abandoned(b)
  BY <1>12, <1>d DEF Abandoned, rows, Apart
<1>13. CASE ClientGoes(b)
  <2>1. create'[c] = create[c]
    BY <1>0, <1>13 DEF ClientGoes, Typed
  <2>2. QED
    BY <1>13, <2>1 DEF ClientGoes, rows, history, Apart
<1>14. QED
  BY <1>1, <1>2, <1>3, <1>4, <1>5, <1>6, <1>7, <1>8, <1>9, <1>10, <1>11, <1>12, <1>13
     DEF Creating

---------------------------------------------------------------------------
(***************************************************************************)
(* Sound, kept by every step.                                              *)
(***************************************************************************)

LEMMA SoundApart ==
  ASSUME TypeOK, TypeOK', UNCHANGED form, NEW c \in Creations, Apart(c),
         Blank(c), InRange(c), Resolved(c)
  PROVE  Blank(c)' /\ InRange(c)' /\ Resolved(c)'
<1>1. DisksOf(c)' = DisksOf(c)
  BY DisksStay
<1>2. /\ form' = form
      /\ cloud' \subseteq AllDisks
      /\ create'[c] = create[c]
      /\ row'[c] = row[c] /\ inserted'[c] = inserted[c]
      /\ ported'[c] = ported[c] /\ recorded'[c] = recorded[c]
      /\ \A v \in AllDisks : v[1] = c => (v \in cloud' <=> v \in cloud)
      /\ \A r \in receivers' : r.of[1] = c => r \in receivers
  BY DisksStay DEF Apart, TypeOK
<1>3. Blank(c)'
  BY <1>2 DEF Blank
<1>4. InRange(c)'
  BY <1>1, <1>2 DEF InRange
<1>5. Resolved(c)'
  BY <1>2 DEF Resolved, PlanResolves, InProgress
<1>6. QED
  BY <1>3, <1>4, <1>5

LEMMA SoundCreating ==
  ASSUME TypeOK, NEW c \in Creations, Creating(c), Blank(c), InRange(c), Resolved(c)
  PROVE  Blank(c)' /\ InRange(c)' /\ Resolved(c)'
<1>0. Typed /\ UNCHANGED form
  BY TypeParts, CreatingApart
<1>1. DisksOf(c)' = DisksOf(c)
  BY <1>0, DisksStay
<1>2. ASSUME PlanResolves(form[c]) PROVE Resolved(c)'
  BY <1>0, <1>2 DEF Resolved, PlanResolves
<1>3. ASSUME InProgress(c) PROVE PlanResolves(form[c])
  BY <1>3 DEF Resolved
<1>4. ASSUME NEW pc \in CreatePcs, Goto(c, pc)
      PROVE  InRange(c)' /\ (pc \notin {"unused", "insert"} => Blank(c)')
  BY <1>1, <1>4, GotoTyped DEF InRange, Blank
<1>5. NextDisk(c) => InRange(c)' /\ Blank(c)'
  BY <1>1, NextDiskTyped DEF InRange, Blank
<1>6. CASE ReceivesRequest(c)
  <2>1. CASE PlanResolves(form[c])
    <3>1. Goto(c, "insert") /\ At(c, "unused")
      BY <1>6, <2>1 DEF ReceivesRequest
    <3>2. InRange(c)'
      BY <1>4, <3>1 DEF CreatePcs
    <3>3. Blank(c)'
      <4>1. create'[c].disk = create[c].disk
        BY <3>1, GotoTyped DEF CreatePcs
      <4>2. QED
        BY <1>6, <3>1, <4>1 DEF ReceivesRequest, rows, Blank, At
    <3>4. QED
      BY <1>2, <2>1, <3>2, <3>3
  <2>2. CASE ~PlanResolves(form[c])
    <3>1. Goto(c, "ended") /\ UNCHANGED <<rows, receivers>>
      BY <1>6, <2>2 DEF ReceivesRequest
    <3>2. create'[c].pc = "ended"
      BY <3>1, GotoTyped DEF CreatePcs
    <3>3. Resolved(c)'
      BY <1>0, <2>2, <3>1, <3>2 DEF Resolved, InProgress, rows
    <3>4. QED
      BY <1>4, <3>1, <3>3 DEF CreatePcs
  <2>3. QED
    BY <2>1, <2>2
<1>7. CASE ~ReceivesRequest(c)
  <2>1. InProgress(c)
    BY <1>7 DEF Creating, InsertsRows, InsertsNothing, AssignsPort, CreatesVolume,
       RecordsVolume, WaitsActive, Opens, Listens, RollsBack, Unrows, Abandoned, ClientGoes,
       At, InProgress
  <2>2. \/ \E pc \in CreatePcs \ {"unused", "insert"} : Goto(c, pc)
        \/ NextDisk(c)
        \/ ClientGoes(c)
    BY <1>7 DEF Creating, InsertsRows, InsertsNothing, AssignsPort, CreatesVolume,
       RecordsVolume, WaitsActive, Opens, Listens, RollsBack, Unrows, Abandoned, Abandons,
       CreatePcs
  <2>3. ClientGoes(c) => InRange(c)' /\ Blank(c)'
    <3>1. SUFFICES ASSUME ClientGoes(c) PROVE InRange(c)' /\ Blank(c)'
      OBVIOUS
    <3>2. /\ create'[c].pc = create[c].pc /\ create'[c].disk = create[c].disk
          /\ UNCHANGED <<rows, cloud>>
      BY <1>0, <3>1 DEF ClientGoes, Typed, Handlers
    <3>3. QED
      BY <1>1, <3>2 DEF InRange, Blank, rows
  <2>4. InRange(c)' /\ Blank(c)'
    BY <1>4, <1>5, <2>2, <2>3
  <2>5. QED
    BY <1>2, <1>3, <2>1, <2>4
<1>8. QED
  BY <1>6, <1>7

\* No row appears, nothing is inserted, and no volume made.
Lessens(c) ==
  /\ row[c] = "none" => row'[c] = "none"
  /\ inserted'[c] \subseteq inserted[c]
  /\ ported'[c] \subseteq ported[c]
  /\ recorded'[c] \subseteq recorded[c]
  /\ cloud' \subseteq cloud

LEMMA SoundOthers ==
  ASSUME Sound, Operator \/ Source \/ Restart \/ Redeployed, NEW c \in Creations
  PROVE  Blank(c)' /\ InRange(c)' /\ Resolved(c)'
<1>0. Typed /\ UNCHANGED form /\ TypeOK
  BY TypeParts DEF Sound, Operator, Source, Restart, Redeployed, SetLinodeToken, TokenRevoked,
     FindsNoneActive, DeletesToken, CleansUpDeleted, DeletesRow, LoadsRow, CutsOver, IsDone,
     StopsCutover, Reopens, SetsRow, Installs, Uninstalls
<1>1. DisksOf(c)' = DisksOf(c)
  BY <1>0, DisksStay
<1>2. Blank(c) /\ InRange(c) /\ Resolved(c)
  BY DEF Sound
<1>3. Lessens(c)
  <2> USE DEF Lessens
  <2>1. CASE CleansUpDeleted
    <3>1. delete.of \in Creations
      BY <1>0 DEF Typed
    <3>2. QED
      BY <1>0, <2>1, <3>1, CleansUpEffect DEF CleansUpDeleted, rows
  <2>2. CASE DeletesRow
    <3>1. delete.of \in Creations
      BY <1>0 DEF Typed
    <3>2. QED
      BY <1>0, <2>2, <3>1, DropsRowEffect DEF DeletesRow, rows
  <2>3. ASSUME NEW b \in Creations, CutsOver(b) \/ IsDone(b) \/ StopsCutover(b)
        PROVE  Lessens(c)
    BY <1>0, <2>3 DEF CutsOver, IsDone, StopsCutover, SetsRow, Typed, RowStates
  <2>4. ASSUME NEW b \in Creations, Reopens(b)
        PROVE  Lessens(c)
    BY <2>4 DEF Reopens, rows
  <2>5. QED
    BY <2>1, <2>2, <2>3, <2>4 DEF Operator, Source, Restart, Redeployed, SetLinodeToken,
       TokenRevoked, FindsNoneActive, DeletesToken, LoadsRow, Installs, Uninstalls, rows
\* The only handlers' steps are their ends.
<1>4. create'[c] = create[c] \/ (InProgress(c) /\ create'[c] = [create[c] EXCEPT !.pc = "ended"])
  BY DEF Operator, Source, Restart, Redeployed, SetLinodeToken, TokenRevoked, FindsNoneActive,
     DeletesToken, CleansUpDeleted, DeletesRow, LoadsRow, CutsOver, IsDone, StopsCutover,
     Reopens, SetsRow, Installs, Uninstalls, ProcessDies
\* The only new receivers are those of disks that have a port.
<1>5. \A r \in receivers' : r.of[1] = c => r \in receivers \/ ported[c] # {}
  <2>1. CASE CleansUpDeleted
    <3>1. delete.of \in Creations
      BY <1>0 DEF Typed
    <3>2. QED
      BY <1>0, <2>1, <3>1, CleansUpEffect DEF CleansUpDeleted
  <2>2. CASE Restart
    BY <1>0, <2>2, ListeningEffect DEF Restart
  <2>3. ASSUME NEW b \in Creations, Reopens(b)
        PROVE  \A r \in receivers' : r.of[1] = c => r \in receivers \/ ported[c] # {}
    BY <1>0, <2>3, ListeningEffect DEF Reopens
  <2>4. QED
    BY <2>1, <2>2, <2>3 DEF Operator, Source, Redeployed, SetLinodeToken, TokenRevoked,
       FindsNoneActive, DeletesToken, DeletesRow, LoadsRow, CutsOver, IsDone, StopsCutover,
       Installs, Uninstalls
<1>6. /\ create[c] \in Handlers
      /\ create'[c].disk = create[c].disk
      /\ create'[c].pc = create[c].pc \/ create'[c].pc = "ended"
      /\ InProgress(c)' => InProgress(c)
  <2>1. create[c] \in Handlers
    BY <1>0 DEF Typed
  <2>2. QED
    BY <1>4, <2>1 DEF Handlers, InProgress
<1>7. Blank(c)'
  BY <1>2, <1>3, <1>6 DEF Blank, Lessens
<1>8. InRange(c)'
  BY <1>1, <1>2, <1>6 DEF InRange
<1>9. Resolved(c)'
  <2>1. CASE PlanResolves(form[c])
    BY <1>0, <2>1 DEF Resolved, PlanResolves
  <2>2. CASE ~PlanResolves(form[c])
    <3>1. inserted[c] = {} /\ ported[c] = {} /\ ~InProgress(c) /\ \A r \in receivers : r.of[1] # c
      BY <1>0, <1>2, <2>2 DEF Resolved, Typed
    <3>2. QED
      BY <1>3, <1>5, <1>6, <3>1 DEF Resolved, Lessens
  <2>3. QED
    BY <2>1, <2>2
<1>10. QED
  BY <1>7, <1>8, <1>9

LEMMA SoundStep ==
  ASSUME Sound, [Next]_vars
  PROVE  Sound'
<1>0. TypeOK /\ \A c \in Creations : Blank(c) /\ InRange(c) /\ Resolved(c)
  BY DEF Sound
<1>1. CASE Operator \/ Source \/ Restart \/ Redeployed
  BY <1>0, <1>1, OthersTyped, SoundOthers DEF Sound
<1>2. ASSUME NEW b \in Creations, Creating(b) PROVE Sound'
  <2>1. TypeOK'
    BY <1>0, <1>2, CreatingTyped
  <2>2. UNCHANGED form /\ \A c \in Creations : c # b => Apart(c)
    BY <1>0, <1>2, CreatingApart
  <2>3. ASSUME NEW c \in Creations PROVE Blank(c)' /\ InRange(c)' /\ Resolved(c)'
    <3>1. CASE c = b
      BY <1>0, <1>2, <3>1, SoundCreating
    <3>2. CASE c # b
      BY <1>0, <2>1, <2>2, <3>2, SoundApart
    <3>3. QED
      BY <3>1, <3>2
  <2>4. QED
    BY <2>1, <2>3 DEF Sound
<1>3. CASE UNCHANGED vars
  <2>1. TypeOK'
    BY <1>0, <1>3 DEF vars, rows, history, TypeOK, AllDisks, DisksOf, NumDisks
  <2>2. ASSUME NEW c \in Creations PROVE Blank(c)' /\ InRange(c)' /\ Resolved(c)'
    BY <1>0, <1>3, <2>1, SoundApart DEF vars, rows, history, Apart
  <2>3. QED
    BY <2>1, <2>2 DEF Sound
<1>4. QED
  BY <1>1, <1>2, <1>3 DEF Next

LEMMA SoundInit == Init => Sound
<1> SUFFICES ASSUME Init PROVE Sound
  OBVIOUS
<1>1. form \in Forms /\ 1 \in Creations
  BY CreationAssumption DEF Init, Creations
<1>2. \A c \in Creations : 1 \in DisksOf(c)
  BY <1>1, FormTyped
<1>3. [pc |-> "unused", disk |-> 1, gone |-> FALSE] \in Handlers
  BY DEF Handlers, CreatePcs
<1>4. TypeOK
  <2>1. create \in [Creations -> Handlers] /\ budget \in Budgets
    BY <1>3, BoundAssumption DEF Init, Budgets
  <2>2. Typed
    BY <1>1, <2>1 DEF Init, Typed, RowStates
  <2>3. QED
    BY <2>2, TypeParts DEF Init
<1>5. ASSUME NEW c \in Creations PROVE Blank(c) /\ InRange(c) /\ Resolved(c)
  BY <1>2 DEF Init, Blank, InRange, Resolved, InProgress
<1>6. QED
  BY <1>4, <1>5 DEF Sound

LEMMA AlwaysSound == Spec => []Sound
<1>1. Sound /\ [Next]_vars => Sound'
  BY SoundStep
<1>2. QED
  BY <1>1, SoundInit, PTL DEF Spec

\* Every state of an onboarding is well typed: a port or a volume is only ever recorded
\* for a disk that has a row, and a disk's agent is installed for a disk there is.
THEOREM OnboardingTypeCorrect == Spec => []TypeOK
<1>1. Sound => TypeOK
  BY DEF Sound
<1>2. QED
  BY <1>1, AlwaysSound, PTL

---------------------------------------------------------------------------
(***************************************************************************)
(* Sizes.                                                                  *)
(***************************************************************************)

\* Rounding up to whole GiB does not make a size smaller, and neither does the floor.
LEMMA VolumeHolds ==
  ASSUME NEW bytes \in Nat
  PROVE  VolumeSize(bytes) \in Nat /\ bytes <= VolumeSize(bytes)
<1> DEFINE gib == (bytes + GiB - 1) \div GiB
<1>1. GiB \in Nat \ {0} /\ FloorGiB \in Nat
  BY SizeAssumption
<1>2. bytes + GiB - 1 \in Nat
  BY <1>1
<1>3. gib \in Nat /\ bytes + GiB - 1 < gib * GiB + GiB
  BY <1>1, <1>2
<1> HIDE DEF gib
<1>4. gib * GiB \in Nat
  BY <1>1, <1>3
<1>5. bytes <= gib * GiB
  BY <1>1, <1>3, <1>4
<1>6. CASE gib < FloorGiB
  <2>1. VolumeSize(bytes) = GiB * FloorGiB
    BY <1>6 DEF VolumeSize, gib
  <2>2. gib * GiB <= FloorGiB * GiB
    BY <1>1, <1>3, <1>6
  <2>3. GiB * FloorGiB = FloorGiB * GiB /\ FloorGiB * GiB \in Nat
    BY <1>1
  <2>4. QED
    BY <1>4, <1>5, <2>1, <2>2, <2>3
<1>7. CASE ~(gib < FloorGiB)
  <2>1. VolumeSize(bytes) = GiB * gib
    BY <1>7 DEF VolumeSize, gib
  <2>2. GiB * gib = gib * GiB
    BY <1>1, <1>3
  <2>3. QED
    BY <1>4, <1>5, <2>1, <2>2
<1>8. QED
  BY <1>6, <1>7

\* A set of numbers with a member has a least one.
LEMMA LeastOfNumbers ==
  ASSUME NEW S, S \subseteq Nat, S # {}
  PROVE  \E n \in S : \A m \in S : n <= m
<1>1. /\ IsWellFoundedOn(OpToRel(<, Nat), Nat)
      /\ \A m, n \in Nat : m < n => <<m, n>> \in OpToRel(<, Nat)
  <2>1. \A m, n \in Nat : m < n => <<m, n>> \in OpToRel(<, Nat)
    BY DEF OpToRel
  <2>2. QED
    BY <2>1, NatLessThanWellFounded
<1>2. \E R : /\ IsWellFoundedOn(R, Nat)
             /\ \A m, n \in Nat : m < n => <<m, n>> \in R
  BY <1>1, Zenon
<1>3. PICK R : /\ IsWellFoundedOn(R, Nat)
               /\ \A m, n \in Nat : m < n => <<m, n>> \in R
  BY <1>2
<1>4. \E n \in S : \A m \in S : ~ (<<m, n>> \in R)
  <2>1. IsWellFoundedOn(R, Nat)
    BY <1>3
  <2>2. ASSUME NEW P, NEW Q, IsWellFoundedOn(P, Q), NEW T, T \subseteq Q, T # {}
        PROVE  \E x \in T : \A y \in T : ~(<<y, x>> \in P)
    BY <2>2, WFMin, ZenonT(30)
  <2>3. QED
    BY <2>1, <2>2, ZenonT(30)
<1>5. \E n \in S : \A m \in S : ~ (m < n)
  BY <1>3, <1>4, Zenon
<1>6. QED
  BY <1>5

\* The plan a boot from the local disk takes is one there is, and holds the boot disk.
LEMMA PlanHolds ==
  ASSUME NEW f, IsForm(f), PlanResolves(f), f.target = "disk"
  PROVE  /\ PlanOf(f) \in DOMAIN Plans
         /\ Plans[PlanOf(f)].disk \in Nat
         /\ f.declared[1] <= Plans[PlanOf(f)].disk
<1>1. CASE f.plan # "any"
  BY <1>1, PlanAssumption DEF PlanResolves, PlanOf, Holding
<1>2. CASE f.plan = "any"
  <2> DEFINE H == Holding(f.class, f.declared[1])
             D == {Plans[p].disk : p \in H}
  <2>1. H # {} /\ H \subseteq DOMAIN Plans
    BY <1>2 DEF PlanResolves, Holding
  <2>2. D \subseteq Nat /\ D # {}
    BY <2>1, PlanAssumption
  <2>3. \E n \in D : \A m \in D : n <= m
    BY <2>2, LeastOfNumbers
  <2>4. \E p \in H : \A q \in H : Plans[p].disk <= Plans[q].disk
    BY <2>3
  <2>5. ClosestType(f.class, f.declared[1]) \in H
    BY <2>4 DEF ClosestType
  <2>6. QED
    BY <1>2, <2>1, <2>5, PlanAssumption DEF PlanOf, Holding
<1>3. QED
  BY <1>1, <1>2

\* A receiver's migration has been created with a plan that fits, so what was rounded up
\* when it was entered is let in, and fits its volume and its plan.
THEOREM RoundedSizesDoFit == Spec => []RoundedSizesFit
<1>1. Sound => RoundedSizesFit
  <2>1. SUFFICES ASSUME Sound, NEW r \in receivers,
                        r.of[2] \in installed[r.of[1]],
                        form[r.of[1]].declared[r.of[2]] \in
                            form[r.of[1]].real[r.of[2]] .. 2 * form[r.of[1]].real[r.of[2]]
                 PROVE  /\ Admits(r, r.of[1], r.of[2])
                        /\ FitsTarget(form[r.of[1]].real[r.of[2]], r.of)
                        /\ r.of[2] = 1 /\ form[r.of[1]].target = "disk" =>
                            form[r.of[1]].real[r.of[2]] <= Plans[PlanOf(form[r.of[1]])].disk
    BY DEF RoundedSizesFit
  <2> DEFINE c == r.of[1]
             i == r.of[2]
             real == form[c].real[i]
             declared == form[c].declared[i]
  <2>2. r.of \in AllDisks /\ form \in Forms
    BY <2>1 DEF Sound, TypeOK
  <2>3. c \in Creations /\ i \in DisksOf(c) /\ IsForm(form[c])
    BY <2>2, DiskIsPair, FormTyped
  <2>4. i \in 1 .. Len(form[c].declared) /\ Len(form[c].real) = Len(form[c].declared)
    BY <2>3 DEF DisksOf, NumDisks, IsForm
  <2>5. real \in Nat \ {0} /\ declared \in Nat \ {0}
    <3>1. form[c].declared \in Seq(Nat \ {0}) /\ form[c].real \in Seq(Nat \ {0})
      BY <2>3 DEF IsForm
    <3>2. i \in 1 .. Len(form[c].declared) /\ i \in 1 .. Len(form[c].real)
      BY <2>4
    <3>3. form[c].declared[i] \in Nat \ {0}
      BY <3>1, <3>2
    <3>4. form[c].real[i] \in Nat \ {0}
      BY <3>1, <3>2
    <3>5. QED
      BY <3>3, <3>4
  <2>6. real <= declared /\ declared <= 2 * real
    BY <2>1, <2>5
  <2>7. PlanResolves(form[c])
    BY <2>1, <2>3 DEF Sound, Resolved
  <2> HIDE DEF c, i, real, declared
  <2>8. ~SizeMismatch(declared, real)
    BY <2>5, <2>6 DEF SizeMismatch
  <2>9. real <= VolumeSize(declared)
    BY <2>5, <2>6, VolumeHolds
  <2>10. i = 1 /\ form[c].target = "disk" => real <= Plans[PlanOf(form[c])].disk
    BY <2>3, <2>5, <2>6, <2>7, PlanHolds DEF declared
  <2>11. QED
    BY <2>8, <2>9, <2>10 DEF Admits, FitsTarget, c, i, real, declared
<1>2. QED
  BY <1>1, AlwaysSound, PTL

---------------------------------------------------------------------------
(***************************************************************************)
(* Kept, kept by every step, when nothing crosses a creation.              *)
(***************************************************************************)

Deleting(c) == delete.pc # "idle" /\ delete.of = c

\* A migration that a step leaves alone is as it was.
LEMMA KeptApart ==
  ASSUME TypeOK, TypeOK', UNCHANGED form, NEW c \in Creations, Apart(c), Kept(c),
         delete' = delete \/ (~Deleting(c) /\ ~Deleting(c)'),
         InProgress(c) => token' # "none" /\ removal' = "idle"
  PROVE  Kept(c)'
<1>0. /\ create'[c] = create[c]
      /\ row'[c] = row[c] /\ inserted'[c] = inserted[c]
      /\ ported'[c] = ported[c] /\ recorded'[c] = recorded[c]
      /\ c \in abandoned' <=> c \in abandoned
      /\ c \in deaf' <=> c \in deaf
      /\ c \in stopping' <=> c \in stopping
      /\ DisksOf(c)' = DisksOf(c) /\ form' = form
  BY DisksStay DEF Apart
<1>1. /\ \A i \in DisksOf(c) : <<c, i>> \in lost' <=> <<c, i>> \in lost
      /\ \A v \in cloud' \ lost' : v[1] = c => v \in cloud \ lost
  <2>1. \A i \in DisksOf(c) : <<c, i>> \in AllDisks /\ <<c, i>>[1] = c
    BY DiskIsPair DEF TypeOK
  <2>2. cloud' \subseteq AllDisks
    BY DisksStay DEF TypeOK
  <2>3. QED
    BY <2>1, <2>2 DEF Apart
<1>2. Uncrossed(c)'
  BY <1>0 DEF Kept, Uncrossed, Deleting, InProgress, At
<1>3. Rowed(c)'
  BY <1>0 DEF Kept, Rowed, InProgress, At
<1>4. \A i \in DisksOf(c) : Stored(c, i)' <=> Stored(c, i)
  BY <1>0, <1>1 DEF Stored
<1>5. Provided(c)'
  <2>1. At(c, "wait") /\ Stored(c, create[c].disk) => Stored(c, create[c].disk)'
    <3>1. ported[c] \subseteq DisksOf(c)
      BY DEF TypeOK
    <3>2. QED
      BY <1>0, <1>4, <3>1 DEF Stored
  <2>2. QED
    BY <1>0, <1>4, <2>1 DEF Kept, Provided, Gone, At, Stored
<1>6. Whole(c)'
  BY <1>0, <1>4 DEF Kept, Whole, At
<1>7. Accounted(c)'
  BY <1>0, <1>1 DEF Kept, Accounted, At, Deleting
<1>8. Heard(c)'
  <2>1. \A r \in receivers \cup receivers' : r.of[1] = c => (r \in receivers' <=> r \in receivers)
    BY DEF Apart
  <2>2. \A i : (\E r \in receivers : r.of = <<c, i>>) => \E r \in receivers' : r.of = <<c, i>>
    BY <2>1
  <2>3. (delete.pc = "drop" /\ delete.of = c)' <=> (delete.pc = "drop" /\ delete.of = c)
    BY DEF Deleting
  <2>4. /\ \A r \in receivers : r.of[1] = c => /\ row[c] # "none"
                                               /\ create[c].pc \in {"listen", "ended"}
                                               /\ ~(delete.pc = "drop" /\ delete.of = c)
        /\ c \notin abandoned \cup deaf /\ c \notin stopping
           /\ At(c, "ended") /\ row[c] = "awaiting_agent"
           /\ ~(delete.of = c /\ delete.pc = "drop")
           => \A i \in DisksOf(c) : \E r \in receivers : r.of = <<c, i>>
    BY DEF Kept, Heard
  <2>5. QED
    BY <1>0, <2>1, <2>2, <2>3, <2>4 DEF Heard, At
<1>9. QED
  BY <1>2, <1>3, <1>5, <1>6, <1>7, <1>8 DEF Kept

\* A step of the handler itself.
LEMMA KeptCreating ==
  ASSUME Sound, TypeOK', ~MayCross, NEW c \in Creations, Kept(c), Creating(c)
  PROVE  Kept(c)'
<1>0. /\ TypeOK /\ Typed /\ form \in Forms
      /\ Blank(c) /\ InRange(c)
      /\ UNCHANGED <<form, removal, delete, stopping, token>>
      /\ cloud \subseteq AllDisks /\ lost \subseteq AllDisks
      /\ create[c] \in Handlers
      /\ \A b \in Creations : recorded[b] \subseteq DisksOf(b) /\ ported[b] \subseteq DisksOf(b)
  BY TypeParts, CreatingApart DEF Sound, Typed
<1>1. /\ DisksOf(c)' = DisksOf(c)
      /\ DisksOf(c) = 1 .. NumDisks(c) /\ NumDisks(c) \in 1 .. 8 /\ create[c].disk \in 1 .. NumDisks(c)
      /\ ThisDisk(c) = <<c, create[c].disk>>
      /\ \A v \in AllDisks : v = <<v[1], v[2]>>
      /\ cloud' \subseteq AllDisks
      /\ \A i \in DisksOf(c) : <<c, i>> \in AllDisks
  BY <1>0, DisksStay, FormTyped, DiskIsPair DEF DisksOf, InRange, ThisDisk, TypeOK
<1>2. At(c, "unused") \/ InProgress(c)
  BY DEF Creating, ReceivesRequest, InsertsRows, InsertsNothing, AssignsPort, CreatesVolume,
     RecordsVolume, WaitsActive, Opens, Listens, RollsBack, Unrows, Abandoned, ClientGoes,
     At, InProgress
<1>3. ~Deleting(c) /\ ~Deleting(c)'
  BY <1>0, <1>2 DEF Kept, Uncrossed, Deleting, At, InProgress
\* A Stop may come as soon as the row is there to be cut over.
<1>4. ~At(c, "listen") => c \notin stopping /\ \A r \in receivers : r.of[1] # c
  BY <1>2 DEF Kept, Uncrossed, Heard, At, InProgress
<1>5. Uncrossed(c)'
  <2>1. InProgress(c) => token # "none" /\ removal = "idle"
    BY DEF Kept, Uncrossed
  <2>2. ReceivesRequest(c) => token # "none" /\ removal = "idle"
    BY DEF ReceivesRequest
  <2>3. ~InProgress(c) => ReceivesRequest(c)
    BY DEF Creating, InsertsRows, InsertsNothing, AssignsPort, CreatesVolume,
       RecordsVolume, WaitsActive, Opens, Listens, RollsBack, Unrows, Abandoned, ClientGoes,
       At, InProgress
  <2>4. c \in stopping => row'[c] # "none" /\ create'[c].pc \in {"listen", "ended"}
    <3>1. SUFFICES ASSUME c \in stopping
                   PROVE  row'[c] # "none" /\ create'[c].pc \in {"listen", "ended"}
      OBVIOUS
    <3>2. At(c, "listen") /\ row[c] # "none"
      BY <1>4, <3>1 DEF Kept, Uncrossed
    <3>3. Listens(c) \/ Abandoned(c) \/ ClientGoes(c)
      BY <3>2 DEF Creating, ReceivesRequest, InsertsRows, InsertsNothing, AssignsPort,
         CreatesVolume, RecordsVolume, WaitsActive, Opens, RollsBack, Unrows, At
    <3>4. UNCHANGED row
      BY <3>3 DEF Listens, Abandoned, ClientGoes, rows
    <3>5. Goto(c, "ended") => create'[c].pc = "ended"
      BY <1>0, GotoTyped DEF CreatePcs
    <3>6. ClientGoes(c) => create'[c].pc = create[c].pc
      BY <1>0 DEF ClientGoes, Typed, Handlers
    <3>7. QED
      BY <3>2, <3>3, <3>4, <3>5, <3>6 DEF Listens, Abandoned, Abandons, At
  <2>5. QED
    BY <1>0, <1>3, <2>1, <2>2, <2>3, <2>4 DEF Uncrossed, Deleting
<1>6. ASSUME create'[c].pc # "ended" \/ c \in abandoned' \/ row'[c] = "none",
             \A r \in receivers' : r.of[1] # c
      PROVE  Whole(c)' /\ Heard(c)'
  BY <1>6, Zenon DEF Whole, Heard, At
<1>7. ASSUME \A v \in cloud' \ lost' : v[1] = c => v \in cloud \ lost,
             recorded'[c] = recorded[c], ~At(c, "record"), create'[c].pc # "unrow"
      PROVE  Accounted(c)'
  BY <1>3, <1>7 DEF Kept, Accounted, Deleting, At
<1>8. ASSUME NEW pc \in CreatePcs, Goto(c, pc)
      PROVE  create'[c].pc = pc /\ create'[c].disk = create[c].disk /\ create'[c].gone = create[c].gone
  BY <1>0, <1>8, GotoTyped
<1>9. ASSUME Rowed(c)', Provided(c)', Whole(c)', Heard(c)', Accounted(c)' PROVE Kept(c)'
  BY <1>5, <1>9 DEF Kept
\* Handlers that end without having made it, or that never began.
<1>10. ASSUME create'[c].pc = "ended", c \in abandoned' \/ row'[c] = "none",
              UNCHANGED <<cloud, lost, receivers>>, recorded'[c] = recorded[c], ~At(c, "record"),
              row'[c] = row[c] \/ ~At(c, "listen")
       PROVE  Kept(c)'
  <2>1. Rowed(c)' /\ Provided(c)'
    BY <1>10 DEF Rowed, Provided, InProgress, At
  <2>2. Accounted(c)'
    BY <1>7, <1>10
  <2>3. Whole(c)'
    BY <1>10, Zenon DEF Whole, At
  <2>4. Heard(c)'
    <3>1. \A r \in receivers : r.of[1] = c => row'[c] # "none"
      BY <1>4, <1>10 DEF Kept, Heard
    <3>2. create'[c].pc = "ended" /\ receivers' = receivers
          /\ (c \in abandoned' \/ row'[c] = "none")
      BY <1>10
    <3>3. QED
      BY <1>3, <3>1, <3>2 DEF Heard, Deleting
  <2>5. QED
    BY <1>9, <2>1, <2>2, <2>3, <2>4
<1>11. ASSUME Abandons(c) PROVE create'[c].pc = "ended" /\ c \in abandoned'
  BY <1>8, <1>11 DEF Abandons, CreatePcs
<1>12. CASE ReceivesRequest(c)
  <2>1. /\ create'[c].pc \in {"insert", "ended"}
        /\ UNCHANGED <<rows, cloud, lost, receivers>> /\ row[c] = "none"
        /\ create[c].pc = "unused"
    BY <1>0, <1>8, <1>12 DEF ReceivesRequest, history, CreatePcs, At, Blank
  <2>2. Rowed(c)' /\ Provided(c)'
    BY <2>1 DEF Rowed, Provided, InProgress, At
  <2>3. Whole(c)' /\ Heard(c)' /\ Accounted(c)'
    BY <1>4, <1>6, <1>7, <2>1 DEF rows, At
  <2>4. QED
    BY <1>9, <2>2, <2>3
<1>13. CASE InsertsRows(c)
  <2>1. PICK n \in 0 .. NumDisks(c) :
        /\ \/ n = NumDisks(c) /\ Goto(c, "port")
           \/ Abandons(c)
        /\ row' = [row EXCEPT ![c] = "created"]
        /\ inserted' = [inserted EXCEPT ![c] = 1 .. n]
    BY <1>13 DEF InsertsRows
  <2>2. UNCHANGED <<ported, recorded, cloud, receivers, lost>> /\ At(c, "insert")
    BY <1>13 DEF InsertsRows
  <2>3. CASE Abandons(c)
    BY <1>10, <1>11, <2>2, <2>3 DEF At
  <2>4. CASE n = NumDisks(c) /\ Goto(c, "port")
    <3>1. /\ create'[c].pc = "port" /\ create'[c].disk = 1
          /\ row'[c] = "created" /\ inserted'[c] = DisksOf(c)
      BY <1>0, <1>1, <1>8, <2>1, <2>2, <2>4 DEF CreatePcs, Typed, Blank, At
    <3>2. Rowed(c)' /\ Provided(c)'
      BY <1>1, <3>1 DEF Rowed, Provided, InProgress, At
    <3>3. Whole(c)' /\ Heard(c)' /\ Accounted(c)'
      BY <1>4, <1>6, <1>7, <2>2, <3>1 DEF At
    <3>4. QED
      BY <1>9, <3>2, <3>3
  <2>5. QED
    BY <2>1, <2>3, <2>4
<1>14. CASE InsertsNothing(c)
  BY <1>10, <1>11, <1>14 DEF InsertsNothing, rows, At
<1>15. CASE Abandoned(c)
  BY <1>10, <1>11, <1>15 DEF Abandoned, rows, At
<1>16. CASE ClientGoes(c)
  <2>1. /\ create'[c].pc = create[c].pc /\ create'[c].disk = create[c].disk /\ create'[c].gone
        /\ UNCHANGED <<rows, cloud, receivers, history>>
    BY <1>0, <1>16 DEF ClientGoes, Typed, Handlers
  <2>2. Rowed(c)' /\ Provided(c)'
    BY <1>1, <2>1 DEF Kept, Rowed, Provided, Gone, InProgress, At, rows, history
  <2>3. Accounted(c)'
    BY <1>3, <2>1 DEF Kept, Accounted, Deleting, At, rows, history
  <2>4. Whole(c)' /\ Heard(c)'
    BY <1>3, <1>16, <2>1 DEF ClientGoes, InProgress, Kept, Whole, Heard, Deleting, At, rows
  <2>5. QED
    BY <1>9, <2>2, <2>3, <2>4
\* From here on its rows are there.
<1>17. ASSUME InProgress(c), ~At(c, "insert")
       PROVE  /\ inserted[c] = DisksOf(c)
              /\ create[c].pc # "listen" => row[c] = "created"
              /\ At(c, "listen") => row[c] # "none" /\ (c \notin abandoned => row[c] # "created")
              /\ token # "none"
  BY <1>0, <1>17 DEF Kept, Rowed, Uncrossed, InProgress, At, Handlers, CreatePcs
<1>18. CASE AssignsPort(c)
  <2>1. At(c, "port") /\ inserted[c] = DisksOf(c) /\ row[c] = "created"
    BY <1>17, <1>18 DEF AssignsPort, At, InProgress
  <2>2. UNCHANGED <<row, inserted, recorded, cloud, receivers, lost>>
    BY <1>18 DEF AssignsPort, history
  <2>3. create'[c].disk = create[c].disk /\ create'[c].gone = create[c].gone
    BY <1>8, <1>18 DEF AssignsPort, CreatePcs
  <2>4. \/ create'[c].pc = "rollback"
        \/ create'[c].pc = "volume" /\ ported'[c] = ported[c] \cup {create[c].disk}
    BY <1>0, <1>1, <1>8, <1>18, <2>1 DEF AssignsPort, CreatePcs, Typed
  <2>5. Rowed(c)'
    BY <1>1, <2>1, <2>2, <2>4 DEF Rowed, InProgress, At
  <2>6. Provided(c)'
    BY <1>1, <2>1, <2>2, <2>3, <2>4 DEF Kept, Provided, Stored, Gone, At
  <2>7. Whole(c)' /\ Heard(c)' /\ Accounted(c)'
    BY <1>4, <1>6, <1>7, <2>1, <2>2, <2>4 DEF At
  <2>8. QED
    BY <1>9, <2>5, <2>6, <2>7
<1>19. CASE CreatesVolume(c)
  <2>1. At(c, "volume") /\ inserted[c] = DisksOf(c) /\ row[c] = "created" /\ token # "none"
    BY <1>17, <1>19 DEF CreatesVolume, At, InProgress
  <2>2. UNCHANGED <<rows, receivers>>
    BY <1>19 DEF CreatesVolume
  <2>3. \/ /\ Gone(c) /\ UNCHANGED <<cloud, lost>> /\ create'[c].gone = create[c].gone
           /\ create'[c].pc \in {"port", "open"}
        \/ /\ create'[c].pc = "rollback"
           /\ \/ UNCHANGED <<cloud, lost>>
              \/ cloud' = cloud \cup {ThisDisk(c)} /\ lost' = lost \cup {ThisDisk(c)}
        \/ /\ create'[c].pc = "record" /\ create'[c].disk = create[c].disk
           /\ create'[c].gone = create[c].gone
           /\ cloud' = cloud \cup {ThisDisk(c)} /\ UNCHANGED lost
    <3>1. NextDisk(c) => create'[c].gone = create[c].gone /\ create'[c].pc \in {"port", "open"}
      BY <1>0, NextDiskTyped
    <3>2. QED
      BY <1>8, <1>19, <2>1, <3>1 DEF CreatesVolume, CreatePcs
  <2>4. Rowed(c)'
    BY <1>1, <2>1, <2>2, <2>3 DEF Rowed, InProgress, At, rows
  <2>5. Provided(c)'
    BY <1>1, <2>1, <2>2, <2>3 DEF Kept, Provided, Stored, Gone, At, rows
  <2>6. Accounted(c)'
    BY <1>1, <1>3, <2>1, <2>2, <2>3 DEF Kept, Accounted, Deleting, At, rows
  <2>7. Whole(c)' /\ Heard(c)'
    BY <1>4, <1>6, <2>1, <2>2, <2>3 DEF At
  <2>8. QED
    BY <1>9, <2>4, <2>5, <2>6, <2>7
<1>20. CASE RecordsVolume(c)
  <2>1. At(c, "record") /\ inserted[c] = DisksOf(c) /\ row[c] = "created"
    BY <1>17, <1>20 DEF RecordsVolume, At, InProgress
  <2>2. UNCHANGED <<row, inserted, ported, cloud, receivers>>
    BY <1>20 DEF RecordsVolume
  <2>3. create'[c].pc = "wait" /\ create'[c].disk = create[c].disk /\ create'[c].gone = create[c].gone
    BY <1>8, <1>20 DEF RecordsVolume, CreatePcs
  <2>4. \/ recorded'[c] = recorded[c] \cup {create[c].disk} /\ UNCHANGED lost
        \/ recorded'[c] = recorded[c] /\ lost' = lost \cup {ThisDisk(c)}
    BY <1>0, <1>1, <1>20, <2>1 DEF RecordsVolume, Typed
  <2>5. Rowed(c)'
    BY <1>1, <2>1, <2>2, <2>3 DEF Rowed, InProgress, At
  <2>6. Provided(c)'
    BY <1>1, <2>1, <2>2, <2>3, <2>4 DEF Kept, Provided, Stored, Gone, At
  <2>7. Accounted(c)'
    BY <1>1, <1>3, <2>1, <2>2, <2>3, <2>4 DEF Kept, Accounted, Deleting, At
  <2>8. Whole(c)' /\ Heard(c)'
    BY <1>4, <1>6, <2>1, <2>2, <2>3 DEF At
  <2>9. QED
    BY <1>9, <2>5, <2>6, <2>7, <2>8
<1>21. CASE WaitsActive(c)
  <2>1. At(c, "wait") /\ inserted[c] = DisksOf(c) /\ row[c] = "created"
    BY <1>17, <1>21 DEF WaitsActive, At, InProgress
  <2>2. UNCHANGED <<rows, cloud, receivers, lost>>
    BY <1>21 DEF WaitsActive, history
  <2>3. \/ create'[c].pc = "rollback"
        \/ /\ create'[c].pc = "port" /\ create'[c].disk = create[c].disk + 1
           /\ create'[c].gone = create[c].gone
        \/ /\ create'[c].pc = "open" /\ create[c].disk = NumDisks(c)
           /\ create'[c].gone = create[c].gone
    BY <1>0, <1>8, <1>21, NextDiskTyped DEF WaitsActive, CreatePcs
  <2>4. Rowed(c)'
    BY <1>1, <2>1, <2>2, <2>3 DEF Rowed, InProgress, At, rows
  <2>5. Provided(c)'
    <3>1. ASSUME ~Gone(c), NEW i \in DisksOf(c), i < create[c].disk + 1 PROVE Stored(c, i)
      BY <1>1, <2>1, <3>1 DEF Kept, Provided, At
    <3>2. \A i \in DisksOf(c) : Stored(c, i)' <=> Stored(c, i)
      BY <2>2 DEF Stored, rows
    <3>3. QED
      BY <1>1, <2>3, <3>1, <3>2 DEF Provided, Gone, At
  <2>6. Whole(c)' /\ Heard(c)' /\ Accounted(c)'
    BY <1>4, <1>6, <1>7, <2>1, <2>2, <2>3 DEF At, rows
  <2>7. QED
    BY <1>9, <2>4, <2>5, <2>6
<1>22. CASE Opens(c)
  <2>1. At(c, "open") /\ inserted[c] = DisksOf(c) /\ row[c] = "created"
    BY <1>17, <1>22 DEF Opens, At, InProgress
  <2>2. UNCHANGED <<inserted, ported, recorded, cloud, receivers, lost>>
    BY <1>22 DEF Opens
  <2>3. /\ create'[c].pc = "listen" /\ create'[c].gone = create[c].gone
        /\ \/ row'[c] = "awaiting_agent"
           \/ row'[c] = "created" /\ c \in abandoned'
    BY <1>0, <1>8, <1>22, <2>1 DEF Opens, CreatePcs, Typed
  <2>4. Rowed(c)' /\ Provided(c)'
    BY <1>1, <2>1, <2>2, <2>3 DEF Kept, Rowed, Provided, Stored, Gone, InProgress, At
  <2>5. Whole(c)' /\ Heard(c)' /\ Accounted(c)'
    BY <1>4, <1>6, <1>7, <2>1, <2>2, <2>3 DEF At
  <2>6. QED
    BY <1>9, <2>4, <2>5
<1>23. CASE Listens(c)
  <2>1. /\ At(c, "listen") /\ inserted[c] = DisksOf(c) /\ ~Gone(c)
        /\ row[c] # "none" /\ (c \notin abandoned => row[c] # "created")
    BY <1>17, <1>23 DEF Listens, At, InProgress
  <2>2. UNCHANGED <<rows, cloud, history>> /\ create'[c].pc = "ended"
    BY <1>8, <1>23 DEF Listens, CreatePcs
  <2>3. \A i \in DisksOf(c) : Stored(c, i)
    BY <2>1 DEF Kept, Provided, At
  <2>4. \A d \in AllDisks : d[1] \in {c} /\ d[1] \notin deaf' /\ d[2] \in ported[d[1]] =>
            \E r \in receivers' : r.of = d
    BY <1>0, <1>23, ListeningEffect DEF Listens
  <2>5. Rowed(c)' /\ Provided(c)'
    BY <2>2 DEF Rowed, Provided, InProgress, At
  <2>6. Whole(c)'
    BY <1>1, <2>1, <2>2, <2>3 DEF Whole, Stored, rows, history
  <2>7. Heard(c)'
    <3>1. c \notin deaf' => \A i \in DisksOf(c) : \E r \in receivers' : r.of = <<c, i>>
      BY <1>1, <2>3, <2>4 DEF Stored
    <3>2. QED
      BY <1>1, <1>3, <2>1, <2>2, <3>1 DEF Heard, Deleting, At, rows
  <2>8. Accounted(c)'
    BY <1>7, <2>1, <2>2 DEF At, rows, history
  <2>9. QED
    BY <1>9, <2>5, <2>6, <2>7, <2>8
<1>24. CASE RollsBack(c)
  <2>1. At(c, "rollback") /\ inserted[c] = DisksOf(c) /\ row[c] = "created"
    BY <1>17, <1>24 DEF RollsBack, At, InProgress
  <2>2. UNCHANGED rows /\ create'[c].pc = "unrow"
    BY <1>8, <1>24 DEF RollsBack, CreatePcs
  <2>3. /\ receivers' = {r \in receivers : r.of[1] # c}
        /\ \A v \in cloud' \ lost' : v \in cloud \ lost /\ ~(v[1] = c /\ v[2] \in recorded[c])
    BY <1>0, <1>24, CleansUpEffect DEF RollsBack
  <2>4. Rowed(c)' /\ Provided(c)'
    BY <1>1, <2>1, <2>2 DEF Rowed, Provided, InProgress, At, rows
  <2>5. Whole(c)' /\ Heard(c)'
    BY <1>6, <2>2, <2>3
  <2>6. Accounted(c)'
    BY <1>3, <2>1, <2>2, <2>3 DEF Kept, Accounted, Deleting, At, rows
  <2>7. QED
    BY <1>9, <2>4, <2>5, <2>6
<1>25. CASE Unrows(c)
  <2>1. At(c, "unrow") /\ UNCHANGED <<cloud, lost, receivers>> /\ create'[c].pc = "ended"
    BY <1>8, <1>11, <1>25 DEF Unrows, CreatePcs
  <2>2. CASE UNCHANGED rows /\ Abandons(c)
    BY <1>10, <1>11, <2>1, <2>2 DEF rows, At
  <2>3. CASE DropsRow(c)
    <3>1. row'[c] = "none"
      BY <1>0, <2>3, DropsRowEffect
    <3>2. Rowed(c)' /\ Provided(c)'
      BY <2>1 DEF Rowed, Provided, InProgress, At
    <3>3. Whole(c)' /\ Heard(c)'
      BY <1>4, <1>6, <2>1, <3>1 DEF At
    <3>4. Accounted(c)'
      BY <1>3, <2>1 DEF Kept, Accounted, Deleting, At
    <3>5. QED
      BY <1>9, <3>2, <3>3, <3>4
  <2>4. QED
    BY <1>25, <2>2, <2>3 DEF Unrows
<1>26. QED
  BY <1>12, <1>13, <1>14, <1>15, <1>16, <1>18, <1>19, <1>20, <1>21, <1>22, <1>23, <1>24,
     <1>25 DEF Creating

\* Settings, the source, and the loading of a row: what is kept of a migration stays.
LEMMA KeptQuiet ==
  ASSUME Sound, TypeOK', ~MayCross, KeptAll, NEW c \in Creations,
         \/ SetLinodeToken \/ TokenRevoked \/ FindsNoneActive \/ DeletesToken
         \/ \E b \in Creations : LoadsRow(b) \/ Installs(b) \/ Uninstalls(b)
  PROVE  Kept(c)'
<1>0. TypeOK /\ Kept(c) /\ Blank(c)
  BY DEF Sound, KeptAll
<1>1. UNCHANGED form /\ Apart(c)
  BY DEF SetLinodeToken, TokenRevoked, FindsNoneActive, DeletesToken, LoadsRow, Installs,
     Uninstalls, Apart, rows, history
<1>2. InProgress(c) => token' # "none" /\ removal' = "idle"
  BY <1>0 DEF SetLinodeToken, TokenRevoked, FindsNoneActive, DeletesToken, LoadsRow, Installs,
     Uninstalls, Kept, Uncrossed
<1>3. CASE delete' = delete \/ (~Deleting(c) /\ ~Deleting(c)')
  BY <1>0, <1>1, <1>2, <1>3, KeptApart
\* Its row is loaded for a deletion: it has one, so it is not being created.
<1>4. CASE ~(delete' = delete \/ (~Deleting(c) /\ ~Deleting(c)'))
  <2>1. /\ LoadsRow(c) /\ delete.pc = "idle"
        /\ delete' = [pc |-> "clean", of |-> c, sees |-> recorded[c]]
    BY <1>4 DEF SetLinodeToken, TokenRevoked, FindsNoneActive, DeletesToken, LoadsRow, Installs,
       Uninstalls, Deleting
  <2>2. UNCHANGED <<form, token, rows, cloud, create, removal, stopping, listening, lost, abandoned>>
    BY <2>1 DEF LoadsRow, history
  <2>3. At(c, "ended") /\ c \notin stopping
    BY <1>0, <2>1 DEF LoadsRow, Blank, InProgress, At
  <2>4. delete'.pc = "clean" /\ delete'.sees = recorded[c]
    BY <2>1
  <2>5. DisksOf(c)' = DisksOf(c)
    BY <2>2, DisksStay
  <2>6. Uncrossed(c)'
    BY <1>0, <2>2, <2>3, <2>4 DEF Kept, Uncrossed, At, InProgress, rows
  <2>7. Rowed(c)' /\ Provided(c)'
    BY <2>2, <2>3 DEF Rowed, Provided, At, InProgress
  <2>8. Whole(c)'
    BY <1>0, <2>2, <2>5 DEF Kept, Whole, Stored, At, rows
  <2>9. Accounted(c)'
    BY <1>0, <2>2, <2>4 DEF Kept, Accounted, At, rows
  <2>10. Heard(c)'
    BY <1>0, <2>1, <2>2, <2>4, <2>5 DEF Kept, Heard, At, rows
  <2>11. QED
    BY <2>6, <2>7, <2>8, <2>9, <2>10 DEF Kept
<1>5. QED
  BY <1>3, <1>4

\* A cutover, its end and its Stop change the row of a migration that has been opened,
\* and may end its receivers.
LEMMA KeptCutover ==
  ASSUME Sound, TypeOK', ~MayCross, KeptAll, NEW c \in Creations, NEW b \in Creations,
         CutsOver(b) \/ IsDone(b) \/ StopsCutover(b)
  PROVE  Kept(c)'
<1>0. TypeOK /\ Typed /\ Kept(c) /\ Blank(c)
  BY TypeParts DEF Sound, KeptAll
<1>1. /\ UNCHANGED <<form, token, inserted, ported, recorded, cloud, create, removal, delete,
                     lost, abandoned, deaf>>
      /\ row[b] \in {"awaiting_agent", "migrating"}
      /\ receivers' \in {receivers, {r \in receivers : r.of[1] # b}}
  BY DEF CutsOver, IsDone, StopsCutover, SetsRow, history
<1>2. PICK state \in {"awaiting_agent", "migrating", "launched", "failed"} :
        /\ row' = [row EXCEPT ![b] = state]
        /\ state = "awaiting_agent" => b \in stopping'
  <2>1. CutsOver(b) => row' = [row EXCEPT ![b] = "migrating"]
    BY DEF CutsOver, SetsRow
  <2>2. IsDone(b) => \E done \in {"launched", "failed"} : row' = [row EXCEPT ![b] = done]
    BY DEF IsDone, SetsRow
  <2>3. StopsCutover(b) => /\ \/ row' = [row EXCEPT ![b] = "awaiting_agent"]
                              \/ row' = [row EXCEPT ![b] = "migrating"]
                           /\ b \in stopping'
    BY DEF StopsCutover, SetsRow
  <2>4. QED
    BY <2>1, <2>2, <2>3
<1>3. /\ stopping' = stopping \/ (stopping' = stopping \cup {b} /\ ~Deleting(b))
      /\ stopping \subseteq stopping'
  BY DEF CutsOver, IsDone, StopsCutover, Deleting
<1>4. CASE c # b
  <2>1. row'[c] = row[c]
    BY <1>0, <1>2, <1>4 DEF Typed
  <2>2. Apart(c)
    BY <1>1, <1>3, <1>4, <2>1 DEF Apart
  <2>3. InProgress(c) => token' # "none" /\ removal' = "idle"
    BY <1>0, <1>1 DEF Kept, Uncrossed
  <2>4. QED
    BY <1>0, <1>1, <2>2, <2>3, KeptApart
<1>5. CASE c = b
  <2>1. /\ row'[c] \in {"awaiting_agent", "migrating", "launched", "failed"}
        /\ row'[c] = "awaiting_agent" => c \in stopping'
    BY <1>0, <1>2, <1>5 DEF Typed
  <2>2. DisksOf(c)' = DisksOf(c)
    BY <1>1, DisksStay
  <2>3. create[c].pc \in {"listen", "ended"}
    BY <1>0, <1>1, <1>5 DEF Kept, Rowed, Blank, Typed, Handlers, CreatePcs
  <2>4. Uncrossed(c)'
    BY <1>0, <1>1, <1>3, <1>5, <2>1, <2>3 DEF Kept, Uncrossed, Deleting, At, InProgress
  <2>5. Rowed(c)'
    BY <1>0, <1>1, <2>1, <2>2, <2>3 DEF Kept, Rowed, At, InProgress
  <2>6. Provided(c)'
    BY <1>0, <1>1, <2>2 DEF Kept, Provided, Stored, Gone, At
  <2>7. Whole(c)'
    BY <1>0, <1>1, <1>5, <2>1, <2>2 DEF Kept, Whole, Stored, At
  <2>8. Accounted(c)'
    BY <1>0, <1>1 DEF Kept, Accounted, At
  <2>9. Heard(c)'
    BY <1>0, <1>1, <2>1 DEF Kept, Heard, At
  <2>10. QED
    BY <2>4, <2>5, <2>6, <2>7, <2>8, <2>9 DEF Kept
<1>6. QED
  BY <1>4, <1>5

\* A Stop brings the receivers back.
LEMMA KeptReopens ==
  ASSUME Sound, TypeOK', KeptAll, NEW c \in Creations, NEW b \in Creations, Reopens(b)
  PROVE  Kept(c)'
<1>0. TypeOK /\ Kept(c) /\ stopping \subseteq Creations
  BY DEF Sound, KeptAll, TypeOK
<1>1. /\ UNCHANGED <<form, token, rows, cloud, create, removal, delete, lost, abandoned>>
      /\ b \in stopping /\ stopping' = stopping \ {b}
  BY DEF Reopens, history
<1>2. /\ receivers \subseteq receivers'
      /\ \A r \in receivers' \ receivers : r.of[1] = b
      /\ \A d \in AllDisks : d[1] \in {b} /\ d[1] \notin deaf' /\ d[2] \in ported[d[1]] =>
            \E r \in receivers' : r.of = d
      /\ \A a \in Creations \ {b} : a \in deaf' <=> a \in deaf
  BY <1>0, ListeningEffect DEF Reopens
<1>3. CASE c # b
  <2>1. Apart(c)
    BY <1>1, <1>2, <1>3 DEF Apart, rows
  <2>2. InProgress(c) => token' # "none" /\ removal' = "idle"
    BY <1>0, <1>1 DEF Kept, Uncrossed
  <2>3. QED
    BY <1>0, <1>1, <2>1, <2>2, KeptApart
<1>4. CASE c = b
  <2>1. DisksOf(c)' = DisksOf(c)
    BY <1>1, DisksStay
  <2>2. row[c] # "none" /\ create[c].pc \in {"listen", "ended"} /\ ~Deleting(c)
    BY <1>0, <1>1, <1>4 DEF Kept, Uncrossed, Deleting
  <2>3. Uncrossed(c)'
    BY <1>0, <1>1, <1>4 DEF Kept, Uncrossed, At, InProgress
  <2>4. Rowed(c)'
    BY <1>0, <1>1, <2>1 DEF Kept, Rowed, At, InProgress, rows
  <2>5. Provided(c)'
    BY <1>0, <1>1, <2>1 DEF Kept, Provided, Stored, Gone, At, rows
  <2>6. Whole(c)'
    BY <1>0, <1>1, <2>1 DEF Kept, Whole, Stored, At, rows
  <2>7. Accounted(c)'
    BY <1>0, <1>1 DEF Kept, Accounted, At, rows
  <2>8. Heard(c)'
    <3>1. ASSUME c \notin abandoned, c \notin deaf', At(c, "ended"), row[c] = "awaiting_agent",
                 NEW i \in DisksOf(c)
          PROVE  \E r \in receivers' : r.of = <<c, i>>
      <4>1. i \in ported[c]
        BY <1>0, <3>1 DEF Kept, Whole, Stored
      <4>2. <<c, i>> \in AllDisks
        BY <1>0, DiskIsPair DEF TypeOK
      <4>3. QED
        BY <1>2, <1>4, <3>1, <4>1, <4>2
    <3>2. QED
      BY <1>1, <2>1, <2>2, <3>1 DEF Heard, Deleting, At, rows
  <2>9. QED
    BY <2>3, <2>4, <2>5, <2>6, <2>7, <2>8 DEF Kept
<1>5. QED
  BY <1>3, <1>4

\* A deletion cleans up and drops the row it loaded; of others it touches nothing.
LEMMA KeptDeletion ==
  ASSUME Sound, TypeOK', KeptAll, NEW c \in Creations, CleansUpDeleted \/ DeletesRow
  PROVE  Kept(c)'
<1>0. /\ TypeOK /\ Typed /\ Kept(c) /\ delete.of \in Creations
      /\ delete \in [pc : {"idle", "clean", "drop"}, of : Creations, sees : SUBSET (1 .. 8)]
      /\ cloud \subseteq AllDisks /\ cloud' \subseteq AllDisks
      /\ UNCHANGED <<form, token, create, removal, stopping, abandoned>>
      /\ \A b \in Creations : recorded[b] \subseteq DisksOf(b)
  BY TypeParts, DisksStay DEF Sound, KeptAll, CleansUpDeleted, DeletesRow, history, TypeOK, Typed
<1>1. DisksOf(c)' = DisksOf(c)
  BY <1>0, DisksStay
<1>2. InProgress(c) => token' # "none" /\ removal' = "idle"
  BY <1>0 DEF Kept, Uncrossed
<1>3. CASE CleansUpDeleted
  <2>1. /\ delete.pc = "clean" /\ delete'.pc = "drop" /\ delete'.of = delete.of
        /\ UNCHANGED <<rows, deaf>>
    BY <1>0, <1>3 DEF CleansUpDeleted
  <2>2. /\ receivers' = {r \in receivers : r.of[1] # delete.of}
        /\ \A v \in AllDisks : v[1] # delete.of =>
              (v \in cloud' <=> v \in cloud) /\ (v \in lost' <=> v \in lost)
        /\ \A v \in cloud' \ lost' :
              v \in cloud \ lost /\ ~(v[1] = delete.of /\ v[2] \in delete.sees)
        /\ \A i \in DisksOf(delete.of) :
              <<delete.of, i>> \in lost /\ i \notin delete.sees => <<delete.of, i>> \in lost'
    BY <1>0, <1>3, CleansUpEffect DEF CleansUpDeleted
  <2>3. CASE c # delete.of
    <3>1. Apart(c)
      BY <1>0, <2>1, <2>2, <2>3 DEF Apart, rows
    <3>2. QED
      BY <1>0, <1>2, <2>1, <2>3, <3>1, KeptApart DEF Deleting
  <2>4. CASE c = delete.of
    <3>1. At(c, "ended") /\ delete.sees = recorded[c] /\ c \notin stopping
      BY <1>0, <2>1, <2>4 DEF Kept, Uncrossed
    <3>2. Uncrossed(c)' /\ Rowed(c)' /\ Provided(c)'
      BY <1>0, <2>1, <3>1 DEF Uncrossed, Rowed, Provided, InProgress, At
    <3>3. Whole(c)'
      <4>1. \A i \in DisksOf(c) : Stored(c, i) => Stored(c, i)'
        BY <2>1, <2>2, <2>4, <3>1 DEF Stored, rows
      <4>2. QED
        BY <1>0, <1>1, <2>1, <4>1 DEF Kept, Whole, At, rows
    <3>4. Accounted(c)'
      BY <1>0, <2>1, <2>2, <2>4, <3>1 DEF Kept, Accounted, At, rows
    <3>5. Heard(c)'
      BY <1>0, <2>1, <2>2, <2>4 DEF Heard, At
    <3>6. QED
      BY <3>2, <3>3, <3>4, <3>5 DEF Kept
  <2>5. QED
    BY <2>3, <2>4
<1>4. CASE DeletesRow
  <2>1. /\ delete.pc = "drop" /\ delete'.pc = "idle"
        /\ UNCHANGED <<cloud, receivers, lost>>
        /\ \/ DropsRow(delete.of) /\ UNCHANGED deaf
           \/ UNCHANGED rows /\ deaf' = deaf \cup {delete.of}
    BY <1>4 DEF DeletesRow, history
  <2>2. CASE c # delete.of
    <3>1. /\ row'[c] = row[c] /\ inserted'[c] = inserted[c]
          /\ ported'[c] = ported[c] /\ recorded'[c] = recorded[c]
          /\ c \in deaf' <=> c \in deaf
      BY <1>0, <2>1, <2>2, DropsRowEffect DEF rows
    <3>2. Apart(c)
      BY <1>0, <2>1, <3>1 DEF Apart
    <3>3. QED
      BY <1>0, <1>2, <2>1, <2>2, <3>2, KeptApart DEF Deleting
  <2>3. CASE c = delete.of
    <3>1. At(c, "ended") /\ c \notin stopping
      BY <1>0, <2>1, <2>3 DEF Kept, Uncrossed
    <3>2. Uncrossed(c)' /\ Rowed(c)' /\ Provided(c)'
      BY <1>0, <2>1, <3>1 DEF Uncrossed, Rowed, Provided, InProgress, At
    <3>3. \A r \in receivers' : r.of[1] # c
      BY <1>0, <2>1, <2>3 DEF Kept, Heard
    <3>4. Accounted(c)'
      BY <1>0, <2>1, <2>3, <3>1 DEF Kept, Accounted, At
    <3>5. CASE DropsRow(delete.of)
      <4>1. row'[c] = "none"
        BY <1>0, <2>3, <3>5, DropsRowEffect
      <4>2. Whole(c)' /\ Heard(c)'
        BY <3>3, <4>1 DEF Whole, Heard
      <4>3. QED
        BY <3>2, <3>4, <4>2 DEF Kept
    <3>6. CASE UNCHANGED rows /\ deaf' = deaf \cup {delete.of}
      <4>1. Whole(c)'
        BY <1>0, <1>1, <2>1, <3>6 DEF Kept, Whole, Stored, At, rows
      <4>2. Heard(c)'
        BY <2>3, <3>3, <3>6 DEF Heard
      <4>3. QED
        BY <3>2, <3>4, <4>1, <4>2 DEF Kept
    <3>7. QED
      BY <2>1, <3>5, <3>6
  <2>4. QED
    BY <2>2, <2>3
<1>5. QED
  BY <1>3, <1>4

\* The appliance's process dies, and its database with it, or not.
LEMMA KeptRestart ==
  ASSUME Sound, TypeOK', KeptAll, NEW c \in Creations, Restart \/ Redeployed
  PROVE  Kept(c)'
<1>0. /\ TypeOK /\ Typed /\ Kept(c) /\ Blank(c)
      /\ create[c] \in Handlers
      /\ UNCHANGED form
  BY TypeParts DEF Sound, KeptAll, Restart, Redeployed, Typed
<1>1. DisksOf(c)' = DisksOf(c)
  BY <1>0, DisksStay
<1>2. /\ delete'.pc = "idle" /\ stopping' = {}
      /\ InProgress(c) => create'[c].pc = "ended" /\ c \in abandoned'
      /\ ~InProgress(c) => create'[c] = create[c] /\ (c \in abandoned' <=> c \in abandoned)
      /\ create'[c].pc \in {"unused", "ended"}
  <2>1. ProcessDies
    BY DEF Restart, Redeployed
  <2>2. /\ create'[c] = IF InProgress(c) THEN [create[c] EXCEPT !.pc = "ended"] ELSE create[c]
        /\ c \in abandoned' <=> c \in abandoned \/ InProgress(c)
        /\ delete'.pc = "idle" /\ stopping' = {}
    BY <2>1 DEF ProcessDies
  <2>3. QED
    BY <1>0, <2>2 DEF InProgress, Handlers
<1>3. Uncrossed(c)' /\ Rowed(c)' /\ Provided(c)'
  BY <1>2 DEF Uncrossed, Rowed, Provided, InProgress, At
<1>4. CASE Restart
  <2>1. /\ UNCHANGED <<rows, cloud>>
        /\ lost' = lost \cup {ThisDisk(b) : b \in {b \in Creations : At(b, "record")}}
    BY <1>4 DEF Restart
  <2>2. /\ \A r \in receivers' : r.of[1] \in {b \in Creations : Serves(b)}
        /\ \A d \in AllDisks :
              d[1] \in {b \in Creations : Serves(b)} /\ d[1] \notin deaf' /\ d[2] \in ported[d[1]] =>
                \E r \in receivers' : r.of = d
    BY <1>0, <1>4, ListeningEffect DEF Restart
  <2>3. Whole(c)'
    <3>1. \A i \in DisksOf(c) : Stored(c, i) => Stored(c, i)'
      BY <2>1 DEF Stored, rows
    <3>2. QED
      BY <1>0, <1>1, <1>2, <2>1, <3>1 DEF Kept, Whole, At, rows, InProgress
  <2>4. Accounted(c)'
    <3>1. SUFFICES ASSUME NEW v \in cloud' \ lost', v[1] = c PROVE v[2] \in recorded[c]
      BY <1>2, <2>1, <3>1 DEF Accounted, rows, At
    <3>2. v \in AllDisks /\ v = <<v[1], v[2]>> /\ v \in cloud \ lost
      BY <1>0, <2>1, DiskIsPair DEF TypeOK
    <3>3. At(c, "record") => ThisDisk(c) \in lost'
      BY <2>1
    <3>4. QED
      BY <1>0, <3>1, <3>2, <3>3 DEF Kept, Accounted, ThisDisk
  <2>5. Heard(c)'
    <3>1. ASSUME NEW r \in receivers', r.of[1] = c
          PROVE  row'[c] # "none" /\ create'[c].pc = "ended"
      <4>1. row'[c] = row[c] /\ row[c] = "awaiting_agent"
        BY <2>1, <2>2, <3>1 DEF rows, Serves
      <4>2. create'[c].pc = "ended"
        BY <1>0, <1>2, <4>1 DEF Blank, InProgress
      <4>3. QED
        BY <4>1, <4>2
    <3>2. ASSUME c \notin abandoned', c \notin deaf', At(c, "ended")', row'[c] = "awaiting_agent",
                 NEW i \in DisksOf(c)
          PROVE  \E r \in receivers' : r.of = <<c, i>>
      <4>1. row[c] = "awaiting_agent" /\ c \notin abandoned /\ At(c, "ended")
        BY <1>2, <2>1, <3>2 DEF rows, At
      <4>2. i \in ported[c]
        BY <1>0, <4>1 DEF Kept, Whole, Stored
      <4>3. <<c, i>> \in AllDisks
        BY <1>0, DiskIsPair DEF TypeOK
      <4>4. QED
        BY <2>2, <3>2, <4>1, <4>2, <4>3 DEF Serves
    <3>3. QED
      BY <1>1, <1>2, <3>1, <3>2 DEF Heard, At
  <2>6. QED
    BY <1>3, <2>3, <2>4, <2>5 DEF Kept
<1>5. CASE Redeployed
  <2>1. row'[c] = "none" /\ lost' = cloud' /\ receivers' = {}
    BY <1>5 DEF Redeployed
  <2>2. Whole(c)' /\ Accounted(c)' /\ Heard(c)'
    BY <2>1 DEF Whole, Accounted, Heard
  <2>3. QED
    BY <1>3, <2>2 DEF Kept
<1>6. QED
  BY <1>4, <1>5

LEMMA KeptStep ==
  ASSUME Sound, Sound', ~MayCross, KeptAll, [Next]_vars
  PROVE  KeptAll'
<1>0. TypeOK /\ TypeOK' /\ \A c \in Creations : Kept(c) /\ InRange(c)
  BY DEF Sound, KeptAll
<1> SUFFICES ASSUME NEW c \in Creations PROVE Kept(c)'
  BY DEF KeptAll
<1>1. CASE Operator
  BY <1>0, <1>1, KeptQuiet, KeptCutover, KeptReopens, KeptDeletion DEF Operator
<1>2. CASE Source
  BY <1>0, <1>2, KeptQuiet DEF Source
<1>3. CASE Restart \/ Redeployed
  BY <1>0, <1>3, KeptRestart
<1>4. ASSUME NEW b \in Creations, Creating(b) PROVE Kept(c)'
  <2>1. CASE b = c
    BY <1>0, <1>4, <2>1, KeptCreating
  <2>2. CASE b # c
    <3>1. UNCHANGED <<form, removal, delete, token>> /\ Apart(c)
      BY <1>0, <1>4, <2>2, CreatingApart
    <3>2. InProgress(c) => token' # "none" /\ removal' = "idle"
      BY <1>0, <3>1 DEF Kept, Uncrossed
    <3>3. QED
      BY <1>0, <3>1, <3>2, KeptApart
  <2>3. QED
    BY <2>1, <2>2
<1>5. CASE UNCHANGED vars
  <2>1. UNCHANGED <<form, removal, delete, token>> /\ Apart(c)
    BY <1>5 DEF vars, rows, history, Apart
  <2>2. InProgress(c) => token' # "none" /\ removal' = "idle"
    BY <1>0, <2>1 DEF Kept, Uncrossed
  <2>3. QED
    BY <1>0, <2>1, <2>2, KeptApart
<1>6. QED
  BY <1>1, <1>2, <1>3, <1>4, <1>5 DEF Next

LEMMA AlwaysKept ==
  ASSUME ~MayCross
  PROVE  Spec => [](Sound /\ KeptAll)
<1>1. Init => KeptAll
  BY DEF Init, KeptAll, Kept, Uncrossed, Rowed, Provided, Whole, Accounted, Heard, InProgress, At
<1>2. Sound /\ KeptAll /\ [Next]_vars => (Sound /\ KeptAll)'
  BY SoundStep, KeptStep
<1>3. QED
  BY <1>1, <1>2, SoundInit, PTL DEF Spec

---------------------------------------------------------------------------
(***************************************************************************)
(* What follows.                                                           *)
(***************************************************************************)

\* When no deletion and no removal of the token crosses a creation, nor a deletion a Stop,
\* a volume is always one a row names, or is about to, but for those an accident lost:
\* through roll-backs, lost clients, failed writes, deletions, restarts and redeployments.
THEOREM VolumesAreAccounted ==
  ASSUME ~MayCross
  PROVE  Spec => []VolumesAccounted
<1>1. Sound /\ KeptAll => VolumesAccounted
  <2>1. SUFFICES ASSUME Sound, KeptAll, NEW v \in cloud \ lost
                 PROVE  \/ v[2] \in recorded[v[1]]
                        \/ At(v[1], "record") /\ v[2] = create[v[1]].disk
    BY DEF VolumesAccounted
  <2>2. v[1] \in Creations
    BY <2>1, DiskIsPair DEF Sound, TypeOK
  <2>3. QED
    BY <2>1, <2>2 DEF KeptAll, Kept, Accounted
<1>2. QED
  BY <1>1, AlwaysKept, PTL

\* So is a creation that ended by itself whole, or nothing is left of it.
THEOREM CreationIsWhole ==
  ASSUME ~MayCross
  PROVE  Spec => []CreatedWhole
<1>1. Sound /\ KeptAll => CreatedWhole
  <2>1. SUFFICES ASSUME Sound, KeptAll, NEW c \in Creations \ abandoned,
                        At(c, "ended"), row[c] # "none"
                 PROVE  /\ row[c] # "created"
                        /\ inserted[c] = DisksOf(c) /\ ported[c] = DisksOf(c)
                        /\ \A i \in DisksOf(c) : i \in recorded[c] \/ <<c, i>> \in lost
    BY DEF CreatedWhole
  <2>2. ported[c] \subseteq DisksOf(c)
    BY <2>1 DEF Sound, TypeOK
  <2>3. QED
    BY <2>1, <2>2 DEF KeptAll, Kept, Whole, Stored
<1>2. QED
  BY <1>1, AlwaysKept, PTL

\* And the receivers that listen are those of the migrations there are: all of one that
\* awaits its agent, across stopped cutovers and restarts, unless an error has kept one
\* from being started or a row from being deleted, and none of one that has gone.
THEOREM ReceiversDoFollowRows ==
  ASSUME ~MayCross
  PROVE  Spec => []ReceiversFollowRows
<1>1. Sound /\ KeptAll => ReceiversFollowRows
  <2>1. SUFFICES ASSUME Sound, KeptAll PROVE ReceiversFollowRows
    OBVIOUS
  <2>2. \A r \in receivers : r.of[1] \in Creations
    BY <2>1, DiskIsPair DEF Sound, TypeOK
  <2>3. \A r \in receivers : row[r.of[1]] # "none"
    BY <2>1, <2>2 DEF KeptAll, Kept, Heard
  <2>4. QED
    BY <2>1, <2>3 DEF ReceiversFollowRows, KeptAll, Kept, Heard
<1>2. QED
  BY <1>1, AlwaysKept, PTL
=============================================================================
