---------------------------- MODULE AuditProofs ----------------------------
(***************************************************************************)
(* Theorems about Audit, for any migrations, buffer and faults: its type   *)
(* invariant, that what counts as uploaded is in the bucket, and that a    *)
(* bucket said to be gone is.                                              *)
(***************************************************************************)
EXTENDS Audit, TLAPS

(***************************************************************************)
(* Type correctness.                                                       *)
(***************************************************************************)

Uploaders == [pc : {"idle", "next", "render", "put", "confirm"}, todo : SUBSET Streams,
              stream : Streams, mark : Nat, text : Nat, uses : Records, sees : BOOLEAN]
Handlings == [pc : {"none", "create", "lookup", "save", "unready", "list", "empty", "drop",
                    "clear"},
              found : Records, names : SUBSET Streams]
Budgets   == [entries : 0 .. MaxEntries, requests : 0 .. MaxRequests, faults : 0 .. MaxFaults]

\* The values of the records, after each kind of update the actions make.
LEMMA UploaderTypes ==
    ASSUME NEW u \in Uploaders
    PROVE  /\ \A pc \in {"next", "render", "put", "confirm"}, s \in Streams :
                  [u EXCEPT !.pc = pc, !.todo = @ \ {s}] \in Uploaders
           /\ \A s \in Streams : [u EXCEPT !.todo = @ \ {s}] \in Uploaders
           /\ \A S \in SUBSET Streams, rec \in Records :
                  [u EXCEPT !.pc = "next", !.todo = S, !.uses = rec] \in Uploaders
           /\ \A s \in Streams, n \in Nat :
                  [u EXCEPT !.pc = "render", !.stream = s, !.mark = n] \in Uploaders
           /\ \A n \in Nat : [u EXCEPT !.pc = "put", !.text = n] \in Uploaders
           /\ \A b \in BOOLEAN : [u EXCEPT !.pc = "confirm", !.sees = b] \in Uploaders
<1>1. \A pc \in {"next", "render", "put", "confirm"}, s \in Streams :
          [u EXCEPT !.pc = pc, !.todo = @ \ {s}] \in Uploaders
  BY DEF Uploaders
<1>2. \A s \in Streams : [u EXCEPT !.todo = @ \ {s}] \in Uploaders
  BY DEF Uploaders
<1>3. \A S \in SUBSET Streams, rec \in Records :
          [u EXCEPT !.pc = "next", !.todo = S, !.uses = rec] \in Uploaders
  BY DEF Uploaders
<1>4. \A s \in Streams, n \in Nat :
          [u EXCEPT !.pc = "render", !.stream = s, !.mark = n] \in Uploaders
  BY DEF Uploaders
<1>5. \A n \in Nat : [u EXCEPT !.pc = "put", !.text = n] \in Uploaders
  BY DEF Uploaders
<1>6. \A b \in BOOLEAN : [u EXCEPT !.pc = "confirm", !.sees = b] \in Uploaders
  BY DEF Uploaders
<1>7. QED
  BY <1>1, <1>2, <1>3, <1>4, <1>5, <1>6

LEMMA HandlingTypes ==
    ASSUME NEW r \in Handlings
    PROVE  /\ \A pc \in {"create", "lookup", "unready", "drop", "clear"} :
                  [r EXCEPT !.pc = pc] \in Handlings
           /\ \A pc \in {"save", "list"}, rec \in Records :
                  [r EXCEPT !.pc = pc, !.found = rec] \in Handlings
           /\ \A S \in SUBSET Streams : [r EXCEPT !.pc = "empty", !.names = S] \in Handlings
           /\ NoRequest \in Handlings
<1>1. \A pc \in {"create", "lookup", "unready", "drop", "clear"} : [r EXCEPT !.pc = pc] \in Handlings
  BY DEF Handlings
<1>2. \A pc \in {"save", "list"}, rec \in Records :
          [r EXCEPT !.pc = pc, !.found = rec] \in Handlings
  BY DEF Handlings
<1>3. \A S \in SUBSET Streams : [r EXCEPT !.pc = "empty", !.names = S] \in Handlings
  BY DEF Handlings
<1>4. NoRequest \in Handlings
  BY DEF Handlings, NoRequest, Records
<1>5. QED
  BY <1>1, <1>2, <1>3, <1>4

LEMMA BudgetTypes ==
    ASSUME budget \in Budgets, Fault \/ Entry \/ Asks \/ NoFault
    PROVE  budget' \in Budgets
<1>1. CASE Fault
  BY <1>1, BoundAssumption DEF Fault, Budgets
<1>2. CASE Entry
  BY <1>2, BoundAssumption DEF Entry, Budgets
<1>3. CASE Asks
  BY <1>3, BoundAssumption DEF Asks, Budgets
<1>4. CASE NoFault
  BY <1>4 DEF NoFault
<1>5. QED
  BY <1>1, <1>2, <1>3, <1>4

\* The channel never holds more than it has room for.
LEMMA QueueTypes ==
    ASSUME queue \in Seq(Streams), Len(queue) <= Buffer
    PROVE  /\ \A s \in Streams : Enqueue(s) => queue' \in Seq(Streams) /\ Len(queue') <= Buffer
           /\ queue # << >> => /\ Tail(queue) \in Seq(Streams) /\ Len(Tail(queue)) <= Buffer
                               /\ Head(queue) \in Streams
<1>1. ASSUME NEW s \in Streams, Enqueue(s) PROVE queue' \in Seq(Streams) /\ Len(queue') <= Buffer
  BY <1>1, AuditAssumption DEF Enqueue
<1>2. ASSUME queue # << >>
      PROVE  /\ Tail(queue) \in Seq(Streams) /\ Len(Tail(queue)) <= Buffer /\ Head(queue) \in Streams
  BY <1>2, AuditAssumption
<1>3. QED
  BY <1>1, <1>2

\* What is in the bucket, after something is put there or deleted.
IsBucket(objs, t) == /\ DOMAIN objs \subseteq Streams /\ \A s \in DOMAIN objs : objs[s] \in Nat
                     /\ t \subseteq Streams

LEMMA WriteTypes ==
    ASSUME IsBucket(objects, thinned), NEW s \in Streams, NEW text \in Nat, Write(s, text)
    PROVE  IsBucket(objects', thinned')
BY DEF IsBucket, Write

LEMMA RemoveTypes ==
    ASSUME IsBucket(objects, thinned), NEW S, Remove(S)
    PROVE  IsBucket(objects', thinned')
<1>1. /\ DOMAIN objects' = DOMAIN objects \ S
      /\ \A s \in DOMAIN objects \ S : objects'[s] = objects[s]
      /\ thinned' = thinned \cup (S \cap DOMAIN objects)
  BY DEF Remove, Restrict
<1>2. QED
  BY <1>1 DEF IsBucket

\* The same, with the records' sets named.
LEMMA Typed ==
    TypeOK <=>
        /\ queue \in Seq(Streams) /\ Len(queue) <= Buffer
        /\ log \in [Streams -> Nat]
        /\ row \in [Migrations -> {"none", "active", "finished", "deleted"}]
        /\ token \in BOOLEAN /\ ready \in BOOLEAN /\ record \in Records /\ exists \in BOOLEAN
        /\ IsBucket(objects, thinned)
        /\ uploader \in Uploaders /\ seen \in [Streams -> Nat] /\ request \in Handlings
        /\ budget \in Budgets /\ misled \in BOOLEAN
BY DEF TypeOK, IsBucket, Uploaders, Handlings, Budgets

\* And in the next state.
LEMMA TypedNext ==
    ASSUME /\ queue' \in Seq(Streams) /\ Len(queue') <= Buffer
           /\ log' \in [Streams -> Nat]
           /\ row' \in [Migrations -> {"none", "active", "finished", "deleted"}]
           /\ token' \in BOOLEAN /\ ready' \in BOOLEAN /\ record' \in Records
           /\ exists' \in BOOLEAN /\ IsBucket(objects', thinned')
           /\ uploader' \in Uploaders /\ seen' \in [Streams -> Nat] /\ request' \in Handlings
           /\ budget' \in Budgets /\ misled' \in BOOLEAN
    PROVE  TypeOK'
BY DEF TypeOK, IsBucket, Uploaders, Handlings, Budgets

LEMMA InitType == Init => TypeOK
<1> SUFFICES ASSUME Init PROVE TypeOK
  OBVIOUS
<1> USE DEF Init
<1>1. queue \in Seq(Streams) /\ Len(queue) <= Buffer
  BY AuditAssumption
<1>2. log \in [Streams -> Nat] /\ seen \in [Streams -> Nat]
  BY DEF Fresh
<1>3. row \in [Migrations -> {"none", "active", "finished", "deleted"}]
  OBVIOUS
<1>4. IsBucket(objects, thinned)
  BY DEF IsBucket, NoObjects
<1>5. uploader \in Uploaders
  BY DEF Uploaders, Idle, Streams, Records
<1>6. request \in Handlings
  BY DEF Handlings, NoRequest, Records
<1>7. budget \in Budgets
  BY BoundAssumption DEF Budgets
<1>8. QED
  BY <1>1, <1>2, <1>3, <1>4, <1>5, <1>6, <1>7, Typed DEF Records

LEMMA EntryType ==
    ASSUME TypeOK,
           \/ \E s \in Streams : Logged(s)
           \/ \E m \in Migrations : HasEvent(m) \/ MigrationMoves(m)
           \/ Drains
    PROVE  TypeOK'
<1> USE DEF settings, bucket, history
<1>t. /\ queue \in Seq(Streams) /\ Len(queue) <= Buffer
      /\ log \in [Streams -> Nat] /\ Migrations \subseteq Streams
      /\ row \in [Migrations -> {"none", "active", "finished", "deleted"}]
      /\ budget \in Budgets
  BY Typed DEF Streams
<1>1. ASSUME NEW s \in Streams, Logged(s) PROVE TypeOK'
  <2>1. queue' \in Seq(Streams) /\ Len(queue') <= Buffer
    BY <1>t, <1>1, QueueTypes DEF Logged
  <2>2. budget' \in Budgets
    BY <1>t, <1>1, BudgetTypes DEF Logged
  <2>3. QED
    BY <1>1, <2>1, <2>2, Typed, TypedNext DEF Logged
<1>2. ASSUME NEW m \in Migrations, HasEvent(m) PROVE TypeOK'
  <2>1. log' \in [Streams -> Nat]
    BY <1>t, <1>2 DEF HasEvent
  <2>2. budget' \in Budgets
    BY <1>t, <1>2, BudgetTypes DEF HasEvent
  <2>3. QED
    BY <1>2, <2>1, <2>2, Typed, TypedNext DEF HasEvent
<1>3. ASSUME NEW m \in Migrations, MigrationMoves(m) PROVE TypeOK'
  <2>1. log' \in [Streams -> Nat]
    BY <1>t, <1>3 DEF MigrationMoves
  <2>2. row' \in [Migrations -> {"none", "active", "finished", "deleted"}]
    BY <1>t, <1>3 DEF MigrationMoves
  <2>3. QED
    BY <1>3, <2>1, <2>2, Typed, TypedNext DEF MigrationMoves
<1>4. CASE Drains
  <2>1. queue' \in Seq(Streams) /\ Len(queue') <= Buffer /\ Head(queue) \in Streams
    BY <1>t, <1>4, QueueTypes DEF Drains
  <2>2. log' \in [Streams -> Nat]
    BY <1>t, <1>4, <2>1 DEF Drains
  <2>3. budget' \in Budgets
    BY <1>t, <1>4, BudgetTypes DEF Drains
  <2>4. QED
    BY <1>4, <2>1, <2>2, <2>3, Typed, TypedNext DEF Drains
<1>5. QED
  BY <1>1, <1>2, <1>3, <1>4

LEMMA UploadType ==
    ASSUME TypeOK, Uploads
    PROVE  TypeOK'
<1> USE DEF settings, bucket, history
<1>t. /\ queue \in Seq(Streams) /\ Len(queue) <= Buffer /\ log \in [Streams -> Nat]
      /\ uploader \in Uploaders /\ seen \in [Streams -> Nat] /\ budget \in Budgets
      /\ record \in Records /\ exists \in BOOLEAN /\ IsBucket(objects, thinned)
      /\ Main \in Streams /\ Listed \subseteq Streams /\ Idle \in Uploaders
  BY Typed DEF Streams, Listed, Idle, Uploaders, Records
<1>u. /\ uploader.stream \in Streams /\ uploader.mark \in Nat /\ uploader.text \in Nat
      /\ uploader.todo \subseteq Streams
  BY <1>t DEF Uploaders
<1>1. CASE Ticks
  <2>1. uploader' \in Uploaders
    BY <1>t, <1>1, UploaderTypes DEF Ticks
  <2>2. QED
    BY <1>1, <2>1, Typed, TypedNext DEF Ticks
<1>2. CASE ReadsWatermark
  <2>1. PICK s \in uploader.todo :
            uploader' = IF log[s] = seen[s] THEN [uploader EXCEPT !.todo = @ \ {s}]
                        ELSE [uploader EXCEPT !.pc = "render", !.stream = s, !.mark = log[s]]
    BY <1>2 DEF ReadsWatermark
  <2>2. s \in Streams /\ log[s] \in Nat
    BY <1>t, <1>u
  <2>3. uploader' \in Uploaders
    BY <1>t, <2>1, <2>2, UploaderTypes
  <2>4. QED
    BY <1>2, <2>3, Typed, TypedNext DEF ReadsWatermark
<1>3. CASE Flushed
  BY <1>3, <1>t DEF Flushed, TypeOK, Uploaders
<1>4. CASE Renders
  <2>1. log[uploader.stream] \in Nat
    BY <1>t, <1>u
  <2>2. uploader' \in Uploaders
    <3>1. \/ uploader' = [uploader EXCEPT !.pc = "put", !.text = log[uploader.stream]]
          \/ uploader' = [uploader EXCEPT !.pc = "put", !.text = 0]
      BY <1>4 DEF Renders
    <3>2. /\ [uploader EXCEPT !.pc = "put", !.text = log[uploader.stream]] \in Uploaders
          /\ [uploader EXCEPT !.pc = "put", !.text = 0] \in Uploaders
      BY <1>t, <2>1, UploaderTypes
    <3>3. QED
      BY <1>t, <3>1, <3>2
  <2>3. budget' \in Budgets
    BY <1>t, <1>4, BudgetTypes DEF Renders
  <2>4. QED
    BY <1>4, <2>2, <2>3, Typed, TypedNext DEF Renders
<1>5. CASE Puts
  <2>1. uploader' \in Uploaders
    BY <1>t, <1>u, <1>5, UploaderTypes DEF Puts
  <2>2. seen' \in [Streams -> Nat]
    BY <1>t, <1>u, <1>5 DEF Puts
  <2>3. IsBucket(objects', thinned')
    BY <1>t, <1>u, <1>5, WriteTypes DEF Puts
  <2>4. QED
    BY <1>5, <2>1, <2>2, <2>3, Typed, TypedNext DEF Puts
<1>6. CASE PutFails
  <2>1. uploader' \in Uploaders
    BY <1>t, <1>u, <1>6, UploaderTypes DEF PutFails
  <2>2. IsBucket(objects', thinned')
    <3>1. CASE UNCHANGED <<objects, thinned>>
      BY <1>t, <3>1
    <3>2. CASE Write(uploader.stream, uploader.text)
      BY <1>t, <1>u, <3>2, WriteTypes
    <3>3. QED
      BY <1>6, <3>1, <3>2 DEF PutFails
  <2>3. budget' \in Budgets
    BY <1>t, <1>6, BudgetTypes DEF PutFails
  <2>4. QED
    BY <1>6, <2>1, <2>2, <2>3, Typed, TypedNext DEF PutFails
<1>7. CASE PutMisses
  <2>1. uploader' \in Uploaders
    BY <1>t, <1>7, UploaderTypes DEF PutMisses
  <2>2. budget' \in Budgets
    BY <1>t, <1>7, BudgetTypes DEF PutMisses
  <2>3. QED
    BY <1>7, <2>1, <2>2, Typed, TypedNext DEF PutMisses
<1>8. CASE Confirms
  <2>1. uploader' \in Uploaders
    <3>1. \/ uploader' = [uploader EXCEPT !.pc = "next", !.todo = @ \ {uploader.stream}]
          \/ uploader' = Idle
      BY <1>8 DEF Confirms
    <3>2. /\ [uploader EXCEPT !.pc = "next", !.todo = @ \ {uploader.stream}] \in Uploaders
      BY <1>t, <1>u, UploaderTypes
    <3>3. QED
      BY <1>t, <3>1, <3>2
  <2>2. /\ queue' \in Seq(Streams) /\ Len(queue') <= Buffer
        /\ ready' \in BOOLEAN /\ record' \in Records
    <3>1. CASE uploader.sees
      BY <1>t, <1>8, <3>1, QueueTypes DEF Confirms, SaveBucket, Records
    <3>2. CASE ~uploader.sees
      BY <1>t, <1>8, <3>2 DEF Confirms, Unready
    <3>3. QED
      BY <3>1, <3>2
  <2>3. QED
    BY <1>8, <2>1, <2>2, Typed, TypedNext DEF Confirms
<1>9. QED
  BY <1>1, <1>2, <1>3, <1>4, <1>5, <1>6, <1>7, <1>8 DEF Uploads

LEMMA RequestType ==
    ASSUME TypeOK, Requests
    PROVE  TypeOK'
<1> USE DEF settings, bucket, history
<1>t. request \in Handlings /\ budget \in Budgets /\ record \in Records /\ "own" \in Records
  BY Typed DEF Records
<1>1. budget' \in Budgets
  BY <1>t, BudgetTypes DEF Requests, SetLinodeToken, DeleteLinodeToken, ProvisionAuditBucket,
     RefreshAuditBucket, DeleteAuditBucket
<1>2. request' \in Handlings
  <2>1. CASE SetLinodeToken \/ DeleteLinodeToken
    BY <1>t, <2>1, HandlingTypes DEF SetLinodeToken, DeleteLinodeToken, Proceeds
  <2>2. CASE ProvisionAuditBucket \/ RefreshAuditBucket
    <3>1. \/ request' = [request EXCEPT !.pc = "save", !.found = "own"]
          \/ request' = [request EXCEPT !.pc = "create"]
          \/ request' = [request EXCEPT !.pc = "unready"]
          \/ request' = request
      BY <2>2 DEF ProvisionAuditBucket, RefreshAuditBucket, Proceeds
    <3>2. /\ [request EXCEPT !.pc = "save", !.found = "own"] \in Handlings
          /\ [request EXCEPT !.pc = "create"] \in Handlings
          /\ [request EXCEPT !.pc = "unready"] \in Handlings
      BY <1>t, HandlingTypes
    <3>3. QED
      BY <1>t, <3>1, <3>2
  <2>3. CASE DeleteAuditBucket
    BY <1>t, <2>3, HandlingTypes DEF DeleteAuditBucket, Proceeds
  <2>4. QED
    BY <2>1, <2>2, <2>3 DEF Requests
<1>3. token' \in BOOLEAN /\ misled' \in BOOLEAN
  BY DEF Requests, SetLinodeToken, DeleteLinodeToken, ProvisionAuditBucket, RefreshAuditBucket,
     DeleteAuditBucket, TypeOK
<1>4. UNCHANGED <<queue, log, row, ready, record, bucket, uploader, seen, thinned>>
  BY DEF Requests, SetLinodeToken, DeleteLinodeToken, ProvisionAuditBucket, RefreshAuditBucket,
     DeleteAuditBucket
<1>5. QED
  BY <1>1, <1>2, <1>3, <1>4, Typed, TypedNext

LEMMA HandlerType ==
    ASSUME TypeOK, Handles
    PROVE  TypeOK'
<1> USE DEF settings, bucket, history
<1>t. /\ request \in Handlings /\ budget \in Budgets /\ IsBucket(objects, thinned)
      /\ queue \in Seq(Streams) /\ Len(queue) <= Buffer /\ Main \in Streams
      /\ "own" \in Records /\ "made up" \in Records /\ "none" \in Records
  BY Typed DEF Records, Streams
<1>r. request.found \in Records /\ request.names \subseteq Streams /\ DOMAIN objects \subseteq Streams
  BY <1>t DEF Handlings, IsBucket
<1>1. CASE CreatesBucket
  <2>1. request' \in Handlings
    <3>1. \/ request' = [request EXCEPT !.pc = "lookup"]
          \/ request' = [request EXCEPT !.pc = "save", !.found = "own"]
          \/ request' = [request EXCEPT !.pc = "unready"]
      BY <1>1 DEF CreatesBucket, Proceeds
    <3>2. /\ [request EXCEPT !.pc = "lookup"] \in Handlings
          /\ [request EXCEPT !.pc = "save", !.found = "own"] \in Handlings
          /\ [request EXCEPT !.pc = "unready"] \in Handlings
      BY <1>t, HandlingTypes
    <3>3. QED
      BY <1>t, <3>1, <3>2
  <2>2. IsBucket(objects', thinned') /\ exists' \in BOOLEAN
    BY <1>t, <1>1 DEF CreatesBucket, IsBucket, NoObjects, TypeOK
  <2>3. budget' \in Budgets
    BY <1>t, <1>1, BudgetTypes DEF CreatesBucket
  <2>4. QED
    BY <1>1, <2>1, <2>2, <2>3, Typed, TypedNext DEF CreatesBucket
<1>2. CASE LooksUp
  <2>1. request' \in Handlings
    <3>1. \/ request' = [request EXCEPT !.pc = "save", !.found = "own"]
          \/ request' = [request EXCEPT !.pc = "save", !.found = "made up"]
      BY <1>2 DEF LooksUp
    <3>2. /\ [request EXCEPT !.pc = "save", !.found = "own"] \in Handlings
          /\ [request EXCEPT !.pc = "save", !.found = "made up"] \in Handlings
      BY <1>t, HandlingTypes
    <3>3. QED
      BY <1>t, <3>1, <3>2
  <2>2. budget' \in Budgets
    BY <1>t, <1>2, BudgetTypes DEF LooksUp
  <2>3. QED
    BY <1>2, <2>1, <2>2, Typed, TypedNext DEF LooksUp
<1>3. CASE Saves
  <2>1. /\ queue' \in Seq(Streams) /\ Len(queue') <= Buffer
        /\ ready' \in BOOLEAN /\ record' \in Records /\ request' \in Handlings
    BY <1>t, <1>r, <1>3, QueueTypes, HandlingTypes DEF Saves, SaveBucket, Answers
  <2>2. QED
    BY <1>3, <2>1, Typed, TypedNext DEF Saves
<1>4. CASE SetsError \/ Clears
  <2>1. ready' \in BOOLEAN /\ record' \in Records /\ request' \in Handlings
    BY <1>t, <1>4, HandlingTypes DEF SetsError, Clears, Unready, Answers, TypeOK
  <2>2. QED
    BY <1>4, <2>1, Typed, TypedNext DEF SetsError, Clears
<1>5. CASE ListsObjects
  <2>1. request' \in Handlings
    BY <1>t, <1>r, <1>5, HandlingTypes DEF ListsObjects, Proceeds, Answers
  <2>2. budget' \in Budgets
    BY <1>t, <1>5, BudgetTypes DEF ListsObjects
  <2>3. QED
    BY <1>5, <2>1, <2>2, Typed, TypedNext DEF ListsObjects
<1>6. CASE Empties
  <2>1. request' \in Handlings
    BY <1>t, <1>6, HandlingTypes DEF Empties, Proceeds, Answers
  <2>2. IsBucket(objects', thinned')
    BY <1>t, <1>6, RemoveTypes DEF Empties
  <2>3. budget' \in Budgets
    BY <1>t, <1>6, BudgetTypes DEF Empties
  <2>4. QED
    BY <1>6, <2>1, <2>2, <2>3, Typed, TypedNext DEF Empties
<1>7. CASE DropsBucket
  <2>1. request' \in Handlings
    BY <1>t, <1>7, HandlingTypes DEF DropsBucket, Proceeds, Answers
  <2>2. budget' \in Budgets
    BY <1>t, <1>7, BudgetTypes DEF DropsBucket
  <2>3. exists' \in BOOLEAN
    BY <1>7 DEF DropsBucket, TypeOK
  <2>4. QED
    BY <1>7, <2>1, <2>2, <2>3, Typed, TypedNext DEF DropsBucket
<1>8. QED
  BY <1>1, <1>2, <1>3, <1>4, <1>5, <1>6, <1>7 DEF Handles

LEMMA FaultType ==
    ASSUME TypeOK, BucketDeleted \/ Restart
    PROVE  TypeOK'
<1> USE DEF settings, bucket, history
<1>t. request \in Handlings /\ budget \in Budgets /\ IsBucket(objects, thinned)
  BY Typed
<1>1. budget' \in Budgets
  BY <1>t, BudgetTypes DEF BucketDeleted, Restart
<1>2. CASE BucketDeleted
  <2>1. IsBucket(objects', thinned')
    BY <1>t, <1>2, RemoveTypes DEF BucketDeleted
  <2>2. QED
    BY <1>1, <1>2, <2>1, Typed, TypedNext DEF BucketDeleted
<1>3. CASE Restart
  <2>1. Idle \in Uploaders /\ Fresh \in [Streams -> Nat]
    BY DEF Idle, Fresh, Uploaders, Streams, Records
  <2>2. << >> \in Seq(Streams) /\ Len(<< >>) <= Buffer
    BY AuditAssumption
  <2>3. /\ uploader' \in Uploaders /\ request' \in Handlings /\ seen' \in [Streams -> Nat]
        /\ queue' \in Seq(Streams) /\ Len(queue') <= Buffer
    BY <1>3, <1>t, <2>1, <2>2, HandlingTypes DEF Restart
  <2>4. QED
    BY <1>1, <1>3, <2>3, Typed, TypedNext DEF Restart
<1>4. QED
  BY <1>2, <1>3

LEMMA StepType == TypeOK /\ [Next]_vars => TypeOK'
<1> SUFFICES ASSUME TypeOK, [Next]_vars PROVE TypeOK'
  OBVIOUS
<1>1. CASE Next
  BY <1>1, EntryType, UploadType, RequestType, HandlerType, FaultType DEF Next
<1>2. CASE UNCHANGED vars
  BY <1>2 DEF vars, settings, bucket, history, TypeOK
<1>3. QED
  BY <1>1, <1>2

\* Whatever is logged, uploaded, asked for and lost, every variable keeps to its type,
\* the channel to its capacity among them.
THEOREM AuditTypeCorrect == Spec => []TypeOK
<1>1. QED
  BY InitType, StepType, PTL DEF Spec

(***************************************************************************)
(* What is uploaded.  The watermark is read before the rows, so that the   *)
(* text put is never behind it, nor behind what was uploaded before.       *)
(***************************************************************************)

\* The watermarks, the uploader's among them, are not ahead of the log.
MarksInLog ==
    /\ \A s \in Streams : seen[s] <= log[s]
    /\ uploader.pc \in {"render", "put"} => uploader.mark <= log[uploader.stream]

\* The text about to be put, unless rows could not be read, has what it is to replace.
TextCovers ==
    uploader.pc = "put" /\ uploader.text # 0 =>
        uploader.mark <= uploader.text /\ seen[uploader.stream] <= uploader.text

UploadInv ==
    /\ ~exists => DOMAIN objects = {}
    /\ MarksInLog /\ TextCovers /\ UploadedIsThere

\* After a put, a stream that is not thinned has its new text or is another one's.
LEMMA WriteCovers ==
    ASSUME NEW s \in Streams, NEW text \in Nat, Write(s, text)
    PROVE  /\ s \notin thinned' => text # 0 /\ s \in DOMAIN objects' /\ objects'[s] = text
           /\ \A t \in Streams \ thinned' : t # s =>
                 /\ t \notin thinned
                 /\ t \in DOMAIN objects => t \in DOMAIN objects' /\ objects'[t] = objects[t]
BY DEF Write

\* After a deletion, a stream that is not thinned has what it had.
LEMMA RemoveCovers ==
    ASSUME NEW S, Remove(S)
    PROVE  /\ DOMAIN objects' \subseteq DOMAIN objects
           /\ \A t \in Streams \ thinned' :
                 /\ t \notin thinned
                 /\ t \in DOMAIN objects => t \in DOMAIN objects' /\ objects'[t] = objects[t]
BY DEF Remove, Restrict

\* What is neither the uploader's, the log's nor the bucket's changes nothing.
LEMMA SameUpload ==
    ASSUME UploadInv, UNCHANGED <<exists, objects, thinned, uploader, seen, log>>
    PROVE  UploadInv'
BY DEF UploadInv, MarksInLog, TextCovers, UploadedIsThere

\* A log only grows.
LEMMA GrownLog ==
    ASSUME TypeOK, UploadInv, UNCHANGED <<exists, objects, thinned, uploader, seen>>,
           \E s \in Streams : log' = [log EXCEPT ![s] = @ + 1]
    PROVE  UploadInv'
<1>1. \A s \in Streams : log[s] \in Nat /\ seen[s] \in Nat /\ log'[s] \in {log[s], log[s] + 1}
  BY DEF TypeOK
<1>2. uploader.stream \in Streams /\ uploader.mark \in Nat
  BY DEF TypeOK
<1>3. MarksInLog'
  BY <1>1, <1>2 DEF UploadInv, MarksInLog
<1>4. TextCovers' /\ UploadedIsThere'
  BY DEF UploadInv, TextCovers, UploadedIsThere
<1>5. QED
  BY <1>3, <1>4 DEF UploadInv

\* Nor does a deletion change anything: what is gone is thinned.
LEMMA RemovedObjects ==
    ASSUME TypeOK, UploadInv, NEW S, Remove(S), UNCHANGED <<uploader, seen, log>>,
           exists' = exists \/ S = DOMAIN objects
    PROVE  UploadInv'
<1>1. MarksInLog' /\ TextCovers'
  BY DEF UploadInv, MarksInLog, TextCovers
<1>2. UploadedIsThere'
  BY RemoveCovers DEF UploadInv, UploadedIsThere
<1>3. ~exists' => DOMAIN objects' = {}
  <2>1. CASE exists' = exists
    BY <2>1, RemoveCovers DEF UploadInv
  <2>2. CASE S = DOMAIN objects
    BY <2>2 DEF Remove, Restrict
  <2>3. QED
    BY <2>1, <2>2
<1>4. QED
  BY <1>1, <1>2, <1>3 DEF UploadInv

LEMMA UploadsKept ==
    ASSUME TypeOK, UploadInv, Uploads
    PROVE  UploadInv'
<1> USE DEF settings, bucket, history
<1>t. /\ uploader \in Uploaders /\ log \in [Streams -> Nat] /\ seen \in [Streams -> Nat]
      /\ uploader.stream \in Streams /\ uploader.mark \in Nat /\ uploader.text \in Nat
      /\ \A s \in Streams : log[s] \in Nat /\ seen[s] \in Nat
  BY DEF TypeOK, Uploaders
<1>1. CASE Ticks \/ Flushed \/ PutMisses \/ Confirms
  <2>1. UNCHANGED <<exists, objects, thinned, seen, log>>
    BY <1>1 DEF Ticks, Flushed, PutMisses, Confirms
  <2>2. uploader'.pc \notin {"render", "put"}
    <3>1. CASE Ticks \/ Flushed
      <4>1. \/ uploader' = Idle
            \/ uploader' = [uploader EXCEPT !.pc = "next", !.todo = Listed, !.uses = record]
        BY <3>1 DEF Ticks, Flushed
      <4>2. [uploader EXCEPT !.pc = "next", !.todo = Listed, !.uses = record].pc = "next"
        BY <1>t DEF Uploaders
      <4>3. Idle.pc = "idle"
        BY DEF Idle
      <4>4. uploader'.pc \in {"idle", "next"}
        BY <4>1, <4>2, <4>3, Zenon
      <4>5. QED
        BY <4>4
    <3>2. CASE PutMisses
      <4>1. \E b \in BOOLEAN : uploader' = [uploader EXCEPT !.pc = "confirm", !.sees = b]
        BY <3>2 DEF PutMisses, TypeOK
      <4>2. QED
        BY <1>t, <4>1 DEF Uploaders
    <3>3. CASE Confirms
      <4>1. \/ uploader' = Idle
            \/ uploader' = [uploader EXCEPT !.pc = "next", !.todo = @ \ {uploader.stream}]
        BY <3>3 DEF Confirms
      <4>2. [uploader EXCEPT !.pc = "next", !.todo = @ \ {uploader.stream}].pc = "next"
        BY <1>t DEF Uploaders
      <4>3. Idle.pc = "idle"
        BY DEF Idle
      <4>4. uploader'.pc \in {"idle", "next"}
        BY <4>1, <4>2, <4>3, Zenon
      <4>5. QED
        BY <4>4
    <3>4. QED
      BY <1>1, <3>1, <3>2, <3>3
  <2>3. QED
    BY <2>1, <2>2 DEF UploadInv, MarksInLog, TextCovers, UploadedIsThere
<1>2. CASE ReadsWatermark
  <2>1. uploader.pc = "next" /\ UNCHANGED <<exists, objects, thinned, seen, log>>
    BY <1>2 DEF ReadsWatermark
  <2>2. PICK s \in uploader.todo :
            uploader' = IF log[s] = seen[s] THEN [uploader EXCEPT !.todo = @ \ {s}]
                        ELSE [uploader EXCEPT !.pc = "render", !.stream = s, !.mark = log[s]]
    BY <1>2 DEF ReadsWatermark
  <2>3. s \in Streams
    BY <1>t DEF Uploaders
  <2>4. \/ uploader'.pc = "next"
        \/ uploader'.pc = "render" /\ uploader'.stream = s /\ uploader'.mark = log[s]
    BY <1>t, <2>1, <2>2 DEF Uploaders
  <2>5. MarksInLog'
    BY <1>t, <2>1, <2>3, <2>4 DEF UploadInv, MarksInLog
  <2>6. QED
    BY <2>1, <2>4, <2>5 DEF UploadInv, TextCovers, UploadedIsThere
<1>3. CASE Renders
  <2>1. uploader.pc = "render" /\ UNCHANGED <<exists, objects, thinned, seen, log>>
    BY <1>3 DEF Renders
  <2>2. /\ uploader'.pc = "put" /\ uploader'.stream = uploader.stream
        /\ uploader'.mark = uploader.mark /\ uploader'.text \in {0, log[uploader.stream]}
    BY <1>t, <1>3 DEF Renders, Uploaders
  <2>3. TextCovers' /\ MarksInLog'
    BY <1>t, <2>1, <2>2 DEF UploadInv, MarksInLog, TextCovers
  <2>4. QED
    BY <2>1, <2>3 DEF UploadInv, UploadedIsThere
<1>4. CASE Puts
  <2>1. /\ uploader.pc = "put" /\ exists /\ uploader'.pc = "next" /\ UNCHANGED <<exists, log>>
        /\ seen' = [seen EXCEPT ![uploader.stream] = uploader.mark]
        /\ Write(uploader.stream, uploader.text)
    BY <1>t, <1>4 DEF Puts, Reaches, Uploaders
  <2>2. \A s \in Streams : seen'[s] = IF s = uploader.stream THEN uploader.mark ELSE seen[s]
    BY <1>t, <2>1
  <2>3. MarksInLog' /\ TextCovers'
    BY <1>t, <2>1, <2>2 DEF UploadInv, MarksInLog, TextCovers
  <2>4. UploadedIsThere'
    <3>1. SUFFICES ASSUME NEW s \in Streams \ thinned', seen'[s] > 0
                   PROVE  s \in DOMAIN objects' /\ objects'[s] >= seen'[s]
      BY DEF UploadedIsThere
    <3>2. CASE s = uploader.stream
      <4>1. uploader.text # 0 /\ s \in DOMAIN objects' /\ objects'[s] = uploader.text
        BY <1>t, <2>1, <3>2, WriteCovers
      <4>2. uploader.mark <= uploader.text
        BY <2>1, <4>1 DEF UploadInv, TextCovers
      <4>3. QED
        BY <1>t, <2>2, <3>2, <4>1, <4>2
    <3>3. CASE s # uploader.stream
      <4>1. /\ s \notin thinned
            /\ s \in DOMAIN objects => s \in DOMAIN objects' /\ objects'[s] = objects[s]
        BY <1>t, <2>1, <3>3, WriteCovers
      <4>2. QED
        BY <2>2, <3>1, <3>3, <4>1 DEF UploadInv, UploadedIsThere
    <3>4. QED
      BY <3>2, <3>3
  <2>5. QED
    BY <2>1, <2>3, <2>4 DEF UploadInv
<1>5. CASE PutFails
  <2>1. /\ uploader.pc = "put" /\ uploader'.pc = "next" /\ UNCHANGED <<exists, log, seen>>
        /\ UNCHANGED <<objects, thinned>> \/ (exists /\ Write(uploader.stream, uploader.text))
    BY <1>t, <1>5 DEF PutFails, Reaches, Uploaders
  <2>2. MarksInLog' /\ TextCovers'
    BY <2>1 DEF UploadInv, MarksInLog, TextCovers
  <2>3. CASE UNCHANGED <<objects, thinned>>
    BY <2>1, <2>2, <2>3 DEF UploadInv, UploadedIsThere
  <2>4. CASE exists /\ Write(uploader.stream, uploader.text)
    <3>1. SUFFICES ASSUME NEW s \in Streams \ thinned', seen[s] > 0
                   PROVE  s \in DOMAIN objects' /\ objects'[s] >= seen[s]
      BY <2>1, <2>2, <2>4 DEF UploadInv, UploadedIsThere
    <3>2. CASE s = uploader.stream
      <4>1. uploader.text # 0 /\ s \in DOMAIN objects' /\ objects'[s] = uploader.text
        BY <1>t, <2>4, <3>2, WriteCovers
      <4>2. QED
        BY <1>t, <2>1, <3>2, <4>1 DEF UploadInv, TextCovers
    <3>3. CASE s # uploader.stream
      <4>1. /\ s \notin thinned
            /\ s \in DOMAIN objects => s \in DOMAIN objects' /\ objects'[s] = objects[s]
        BY <1>t, <2>4, <3>3, WriteCovers
      <4>2. QED
        BY <3>1, <4>1 DEF UploadInv, UploadedIsThere
    <3>4. QED
      BY <3>2, <3>3
  <2>5. QED
    BY <2>1, <2>3, <2>4
<1>6. QED
  BY <1>1, <1>2, <1>3, <1>4, <1>5 DEF Uploads

LEMMA UploadKept ==
    ASSUME TypeOK, UploadInv, [Next]_vars
    PROVE  UploadInv'
<1> USE DEF settings, bucket, history
<1>t. Migrations \subseteq Streams /\ queue \in Seq(Streams)
  BY DEF TypeOK, Streams
<1>1. CASE \/ \E s \in Streams : Logged(s)
           \/ Requests \/ UNCHANGED vars
           \/ LooksUp \/ Saves \/ SetsError \/ ListsObjects \/ Clears
  <2>1. UNCHANGED <<exists, objects, thinned, uploader, seen, log>>
    BY <1>1 DEF Logged, Requests, SetLinodeToken, DeleteLinodeToken, ProvisionAuditBucket,
       RefreshAuditBucket, DeleteAuditBucket, LooksUp, Saves, SetsError, ListsObjects, Clears, vars
  <2>2. QED
    BY <2>1, SameUpload
<1>2. CASE Drains
  <2>1. Head(queue) \in Streams
    BY <1>t, <1>2 DEF Drains
  <2>2. UNCHANGED <<exists, objects, thinned, uploader, seen>>
    BY <1>2 DEF Drains
  <2>3. log' = [log EXCEPT ![Head(queue)] = @ + 1] \/ log' = log
    BY <1>2 DEF Drains
  <2>4. QED
    BY <2>1, <2>2, <2>3, SameUpload, GrownLog
<1>3. ASSUME NEW m \in Migrations, HasEvent(m) \/ MigrationMoves(m) PROVE UploadInv'
  <2>1. UNCHANGED <<exists, objects, thinned, uploader, seen>>
    BY <1>3 DEF HasEvent, MigrationMoves
  <2>2. log' = [log EXCEPT ![m] = @ + 1] \/ log' = log
    BY <1>3 DEF HasEvent, MigrationMoves
  <2>3. QED
    BY <1>t, <2>1, <2>2, SameUpload, GrownLog
<1>4. CASE Uploads
  BY <1>4, UploadsKept
<1>5. CASE CreatesBucket
  <2>1. UNCHANGED <<thinned, uploader, seen, log>>
    BY <1>5 DEF CreatesBucket
  <2>2. CASE UNCHANGED bucket
    BY <2>1, <2>2, SameUpload
  <2>3. CASE ~exists /\ exists' /\ objects' = NoObjects
    <3>1. DOMAIN objects = {} /\ DOMAIN objects' = {}
      BY <2>3 DEF UploadInv, NoObjects
    <3>2. QED
      BY <2>1, <2>3, <3>1 DEF UploadInv, MarksInLog, TextCovers, UploadedIsThere
  <2>4. QED
    BY <1>5, <2>2, <2>3 DEF CreatesBucket
<1>6. CASE Empties
  <2>1. UNCHANGED <<exists, uploader, seen, log>>
    BY <1>6 DEF Empties
  <2>2. UNCHANGED <<objects, thinned>> \/ \E S \in SUBSET request.names : Remove(S)
    BY <1>6 DEF Empties
  <2>3. QED
    BY <2>1, <2>2, SameUpload, RemovedObjects
<1>7. CASE DropsBucket
  <2>1. UNCHANGED <<objects, thinned, uploader, seen, log>> /\ (exists' = exists \/ DOMAIN objects = {})
    BY <1>7 DEF DropsBucket
  <2>2. QED
    BY <2>1 DEF UploadInv, MarksInLog, TextCovers, UploadedIsThere
<1>8. CASE BucketDeleted
  <2>1. Remove(DOMAIN objects) /\ UNCHANGED <<uploader, seen, log>>
    BY <1>8 DEF BucketDeleted
  <2>2. QED
    BY <2>1, RemovedObjects
<1>9. CASE Restart
  <2>1. /\ uploader'.pc = "idle" /\ \A s \in Streams : seen'[s] = 0
        /\ UNCHANGED <<log, exists, objects, thinned>>
    BY <1>9 DEF Restart, Idle, Fresh
  <2>2. \A s \in Streams : log[s] \in Nat
    BY DEF TypeOK
  <2>3. QED
    BY <2>1, <2>2 DEF UploadInv, MarksInLog, TextCovers, UploadedIsThere
<1>10. QED
  BY <1>1, <1>2, <1>3, <1>4, <1>5, <1>6, <1>7, <1>8, <1>9 DEF Next, Handles

\* What the uploader will not upload again is in the bucket, unless objects have been
\* deleted since or rows could not be read, for any migrations and whatever fails.
THEOREM AuditUploadedIsThere == Spec => []UploadedIsThere
<1>1. Init => UploadInv
  BY DEF Init, UploadInv, MarksInLog, TextCovers, UploadedIsThere, Fresh, Idle, NoObjects
<1>2. UploadInv => UploadedIsThere
  BY DEF UploadInv
<1>3. QED
  BY <1>1, <1>2, UploadKept, AuditTypeCorrect, PTL DEF Spec

(***************************************************************************)
(* What is deleted.  A record made up, which may lead nowhere, comes of a  *)
(* listing that failed.                                                    *)
(***************************************************************************)

GoneInv ==
    /\ record = "made up" \/ request.found = "made up" => misled
    /\ request.pc \in {"list", "empty"} => request.found \in {"own", "made up"}
    /\ DeletedIsGone

LEMMA GoneKept ==
    ASSUME TypeOK, GoneInv, [Next]_vars
    PROVE  GoneInv'
<1> USE DEF settings, bucket, history
<1>t. request \in Handlings /\ record \in Records
  BY Typed
<1>1. CASE \/ \E s \in Streams : Logged(s)
           \/ \E m \in Migrations : HasEvent(m) \/ MigrationMoves(m)
           \/ Drains \/ Uploads \/ Empties \/ BucketDeleted \/ Restart \/ UNCHANGED vars
  <2>1. misled' = misled
    BY <1>1 DEF Logged, HasEvent, MigrationMoves, Drains, Uploads, Ticks, ReadsWatermark, Flushed,
       Renders, Puts, PutFails, PutMisses, Confirms, Empties, BucketDeleted, Restart, vars
  <2>2. record' \in {record, "own"}
    BY <1>1 DEF Logged, HasEvent, MigrationMoves, Drains, Uploads, Ticks, ReadsWatermark, Flushed,
       Renders, Puts, PutFails, PutMisses, Confirms, Empties, BucketDeleted, Restart, vars,
       SaveBucket, Unready
  <2>3. exists' => exists
    BY <1>1 DEF Logged, HasEvent, MigrationMoves, Drains, Uploads, Ticks, ReadsWatermark, Flushed,
       Renders, Puts, PutFails, PutMisses, Confirms, Empties, BucketDeleted, Restart, vars
  <2>4. CASE Empties
    <3>1. /\ request.pc = "empty"
          /\ \/ request' = NoRequest
             \/ request' = [request EXCEPT !.pc = "drop"]
             \/ request' = [request EXCEPT !.pc = "clear"] /\ ~Reaches(request.found)
      BY <2>4 DEF Empties, Proceeds, Answers
    <3>2. \/ request'.found = "none" /\ request'.pc = "none"
          \/ request'.found = request.found /\ request'.pc = "drop"
          \/ request'.found = request.found /\ request'.pc = "clear" /\ ~Reaches(request.found)
      BY <1>t, <3>1 DEF Handlings, NoRequest
    <3>3. QED
      BY <2>1, <2>2, <2>3, <3>1, <3>2 DEF GoneInv, DeletedIsGone, Reaches
  <2>5. CASE ~Empties
    <3>1. request' = request \/ request' = NoRequest
      BY <1>1, <2>5 DEF Logged, HasEvent, MigrationMoves, Drains, Uploads, Ticks, ReadsWatermark,
         Flushed, Renders, Puts, PutFails, PutMisses, Confirms, BucketDeleted, Restart, vars
    <3>2. /\ request'.found \in {request.found, "none"}
          /\ request'.pc = "none" \/ (request'.pc = request.pc /\ request'.found = request.found)
      BY <3>1 DEF NoRequest
    <3>3. QED
      BY <2>1, <2>2, <2>3, <3>2 DEF GoneInv, DeletedIsGone
  <2>6. QED
    BY <2>4, <2>5
<1>2. CASE Requests
  <2>1. request.pc = "none" /\ record' = record /\ exists' = exists
    BY <1>2 DEF Requests, SetLinodeToken, DeleteLinodeToken, ProvisionAuditBucket, RefreshAuditBucket,
       DeleteAuditBucket
  <2>2. misled => misled'
    BY <1>2 DEF Requests, SetLinodeToken, DeleteLinodeToken, ProvisionAuditBucket, RefreshAuditBucket,
       DeleteAuditBucket
  <2>3. CASE DeleteAuditBucket
    <3>1. \/ request' = [request EXCEPT !.pc = "list", !.found = record] /\ record # "none"
          \/ request' = [request EXCEPT !.pc = "list", !.found = "own"]
          \/ request' = [request EXCEPT !.pc = "clear"] /\ (exists => misled')
      BY <2>3 DEF DeleteAuditBucket, Proceeds
    <3>2. \/ request'.pc = "list" /\ request'.found = record /\ record # "none"
          \/ request'.pc = "list" /\ request'.found = "own"
          \/ request'.pc = "clear" /\ request'.found = request.found /\ (exists => misled')
      BY <1>t, <3>1 DEF Handlings
    <3>3. QED
      BY <1>t, <2>1, <2>2, <3>2 DEF GoneInv, DeletedIsGone, Records
  <2>4. CASE ~DeleteAuditBucket
    <3>1. \/ request' = [request EXCEPT !.pc = "save", !.found = "own"]
          \/ request' = [request EXCEPT !.pc = "create"]
          \/ request' = [request EXCEPT !.pc = "unready"]
          \/ request' = request
      BY <1>2, <2>4 DEF Requests, SetLinodeToken, DeleteLinodeToken, ProvisionAuditBucket,
         RefreshAuditBucket, Proceeds
    <3>2. /\ request'.found \in {request.found, "own"}
          /\ request'.pc \in {"save", "create", "unready", "none"}
      BY <1>t, <2>1, <3>1 DEF Handlings
    <3>3. QED
      BY <2>1, <2>2, <3>2 DEF GoneInv, DeletedIsGone
  <2>5. QED
    BY <2>3, <2>4
<1>3. CASE CreatesBucket
  <2>1. /\ misled' = misled /\ record' = record
        /\ \/ request' = [request EXCEPT !.pc = "lookup"]
           \/ request' = [request EXCEPT !.pc = "save", !.found = "own"]
           \/ request' = [request EXCEPT !.pc = "unready"]
    BY <1>3 DEF CreatesBucket, Proceeds
  <2>2. request'.found \in {request.found, "own"} /\ request'.pc \in {"lookup", "save", "unready"}
    BY <1>t, <2>1 DEF Handlings
  <2>3. QED
    BY <2>1, <2>2 DEF GoneInv, DeletedIsGone
<1>4. CASE LooksUp
  <2>1. /\ record' = record
        /\ \/ request' = [request EXCEPT !.pc = "save", !.found = "own"] /\ misled' = misled
           \/ request' = [request EXCEPT !.pc = "save", !.found = "made up"] /\ misled'
    BY <1>4 DEF LooksUp
  <2>2. request'.pc = "save" /\ (misled' \/ (request'.found = "own" /\ misled' = misled))
    BY <1>t, <2>1 DEF Handlings
  <2>3. QED
    BY <2>1, <2>2 DEF GoneInv, DeletedIsGone
<1>5. CASE Saves \/ SetsError \/ Clears
  <2>1. /\ misled' = misled /\ request' = NoRequest
        /\ record' \in {record, request.found, "none"}
    BY <1>5 DEF Saves, SetsError, Clears, SaveBucket, Unready, Answers
  <2>2. QED
    BY <2>1 DEF GoneInv, DeletedIsGone, NoRequest
<1>6. CASE ListsObjects
  <2>1. /\ misled' = misled /\ record' = record /\ exists' = exists /\ request.pc = "list"
        /\ \/ request' = [request EXCEPT !.pc = "empty", !.names = DOMAIN objects]
           \/ request' = [request EXCEPT !.pc = "clear"] /\ ~Reaches(request.found)
           \/ request' = NoRequest
    BY <1>6 DEF ListsObjects, Proceeds, Answers
  <2>2. \/ request'.pc = "empty" /\ request'.found = request.found
        \/ request'.pc = "clear" /\ request'.found = request.found /\ ~Reaches(request.found)
        \/ request'.pc = "none" /\ request'.found = "none"
    <3>1. CASE request' = [request EXCEPT !.pc = "empty", !.names = DOMAIN objects]
      BY <1>t, <3>1 DEF Handlings
    <3>2. CASE request' = [request EXCEPT !.pc = "clear"] /\ ~Reaches(request.found)
      BY <1>t, <3>2 DEF Handlings
    <3>3. CASE request' = NoRequest
      BY <3>3 DEF NoRequest
    <3>4. QED
      BY <2>1, <3>1, <3>2, <3>3
  <2>3. QED
    BY <2>1, <2>2 DEF GoneInv, DeletedIsGone, Reaches
<1>7. CASE DropsBucket
  <2>1. /\ misled' = misled /\ record' = record
        /\ \/ request' = [request EXCEPT !.pc = "clear"] /\ ~exists'
           \/ request' = NoRequest
    BY <1>7 DEF DropsBucket, Proceeds, Answers
  <2>2. \/ request'.pc = "clear" /\ request'.found = request.found /\ ~exists'
        \/ request'.pc = "none" /\ request'.found = "none"
    BY <1>t, <2>1 DEF Handlings, NoRequest
  <2>3. QED
    BY <2>1, <2>2 DEF GoneInv, DeletedIsGone
<1>8. QED
  BY <1>1, <1>2, <1>3, <1>4, <1>5, <1>6, <1>7 DEF Next, Handles

\* When the operator is about to be told that the bucket is gone, it is, unless a listing
\* that failed was taken for an account without it.
THEOREM AuditDeletedIsGone == Spec => []DeletedIsGone
<1>1. Init => GoneInv
  BY DEF Init, GoneInv, DeletedIsGone, NoRequest
<1>2. GoneInv => DeletedIsGone
  BY DEF GoneInv
<1>3. QED
  BY <1>1, <1>2, GoneKept, AuditTypeCorrect, PTL DEF Spec
=============================================================================
