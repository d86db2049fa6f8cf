------------------------------- MODULE Audit -------------------------------
(***************************************************************************)
(* The audit trail (audit.go, store/audit.go, objstore.go and the handlers *)
(* of server.go about it): entries go through a buffered channel into the  *)
(* database, an uploader puts each stream's whole log into an Object       *)
(* Storage bucket when it has grown, and the operator sets the token, makes*)
(* the bucket, looks for it and deletes it, one request at a time.         *)
(*                                                                         *)
(* A stream is the main log or a migration's.  Its log is its number of    *)
(* rows: the watermark, made of the highest ids in its two tables, is      *)
(* another exactly when there are more of them.  The record of a bucket in *)
(* the settings is the account's own, or one made up for want of it, which *)
(* lacks the bucket's cluster.                                             *)
(***************************************************************************)
EXTENDS Naturals, Sequences, Functions

CONSTANTS
    Migrations,      \* those that may be created
    Buffer,          \* the channel's capacity
    RegionIsCluster, \* does a bucket's path begin with its region's name?
    MaxEntries,      \* bound: entries that nothing modelled here writes
    MaxRequests,     \* bound: requests of the operator
    MaxFaults        \* bound: errors, lost answers, restarts

ASSUME AuditAssumption == Buffer \in Nat \ {0} /\ RegionIsCluster \in BOOLEAN
ASSUME BoundAssumption == MaxEntries \in Nat /\ MaxRequests \in Nat /\ MaxFaults \in Nat

Main == "main"
Streams == {Main} \cup Migrations

VARIABLES
    queue,    \* the channel
    log,      \* the database: rows of each stream
    row,      \* the migrations
    token,    \* is there a token?
    ready,    \* the setting audit_ready
    record,   \* the setting audit_bucket: "none", "own" or "made up"
    exists,   \* is there a bucket?
    objects,  \* what is in it: a log per name
    uploader, \* flushAudit
    seen,     \* what it takes for uploaded
    request,  \* the handler at work
    budget    \* entries, requests and faults so far

\* History: streams whose object lost lines behind the uploader's back, and whether a
\* handler took a listing that failed for an account without the bucket.
VARIABLES thinned, misled

settings == <<token, ready, record>>
bucket   == <<exists, objects>>
history  == <<thinned, misled>>
vars == <<queue, log, row, settings, bucket, uploader, seen, request, budget, history>>

Records == {"none", "own", "made up"}

TypeOK ==
    /\ queue \in Seq(Streams) /\ Len(queue) <= Buffer
    /\ log \in [Streams -> Nat]
    /\ row \in [Migrations -> {"none", "active", "finished", "deleted"}]
    /\ token \in BOOLEAN /\ ready \in BOOLEAN /\ record \in Records
    /\ exists \in BOOLEAN
    /\ DOMAIN objects \subseteq Streams /\ \A s \in DOMAIN objects : objects[s] \in Nat
    /\ uploader \in [pc : {"idle", "next", "render", "put", "confirm"}, todo : SUBSET Streams,
                     stream : Streams, mark : Nat, text : Nat, uses : Records, sees : BOOLEAN]
    /\ seen \in [Streams -> Nat]
    /\ request \in [pc : {"none", "create", "lookup", "save", "unready", "list", "empty", "drop",
                          "clear"},
                    found : Records, names : SUBSET Streams]
    /\ budget \in [entries : 0 .. MaxEntries, requests : 0 .. MaxRequests,
                   faults : 0 .. MaxFaults]
    /\ thinned \subseteq Streams /\ misled \in BOOLEAN

Idle      == [pc |-> "idle", todo |-> {}, stream |-> Main, mark |-> 0, text |-> 0,
              uses |-> "none", sees |-> FALSE]
NoRequest == [pc |-> "none", found |-> "none", names |-> {}]
Fresh     == [s \in Streams |-> 0]
NoObjects == [s \in {} |-> 0]

Init ==
    /\ queue = << >>
    /\ log = Fresh
    /\ row = [m \in Migrations |-> "none"]
    /\ token = FALSE /\ ready = FALSE /\ record = "none"
    /\ exists \in BOOLEAN /\ objects = NoObjects
    /\ uploader = Idle /\ seen = Fresh
    /\ request = NoRequest
    /\ budget = [entries |-> 0, requests |-> 0, faults |-> 0]
    /\ thinned = {} /\ misled = FALSE

(***************************************************************************)
(* Helpers.                                                                *)
(***************************************************************************)

NoFault == UNCHANGED budget
Fault   == budget.faults < MaxFaults /\ budget' = [budget EXCEPT !.faults = @ + 1]
Entry   == budget.entries < MaxEntries /\ budget' = [budget EXCEPT !.entries = @ + 1]
Asks    == budget.requests < MaxRequests /\ budget' = [budget EXCEPT !.requests = @ + 1]

Listed == {Main} \cup {m \in Migrations : row[m] \in {"active", "finished"}}
Active == {m \in Migrations : row[m] = "active"}

\* recordAudit drops what the channel has no room for.
Enqueue(s) == queue' = IF Len(queue) < Buffer THEN Append(queue, s) ELSE queue

\* pathSeg: where a record leads.
Reaches(rec) == exists /\ (rec = "own" \/ (rec = "made up" /\ RegionIsCluster))

\* saveAuditBucket tells the audit trail of it.
SaveBucket(rec) == record' = rec /\ ready' = TRUE /\ Enqueue(Main)

\* setAuditErr.
Unready == ready' = FALSE /\ UNCHANGED record

\* PutObject overwrites the stream's object, with an empty log if it could not be read.
Write(s, text) ==
    /\ objects' = [t \in DOMAIN objects \cup {s} |-> IF t = s THEN text ELSE objects[t]]
    /\ thinned' = IF text = 0 THEN thinned \cup {s} ELSE thinned \ {s}

\* The objects of S go.
Remove(S) ==
    /\ objects' = Restrict(objects, DOMAIN objects \ S)
    /\ thinned' = thinned \cup (S \cap DOMAIN objects)

-----------------------------------------------------------------------------
(***************************************************************************)
(* Slips: a definition below with one plausible mistake in it, to show that*)
(* a property would notice.  No specification uses these.                  *)
(***************************************************************************)

\* The watermark is read after the rows, and tells of one that was not among them.
Puts_MarksLate ==
    /\ uploader.pc = "put" /\ Reaches(uploader.uses)
    /\ Write(uploader.stream, uploader.text)
    /\ seen' = [seen EXCEPT ![uploader.stream] = log[uploader.stream]]
    /\ uploader' = [uploader EXCEPT !.pc = "next", !.todo = @ \ {uploader.stream}]
    /\ UNCHANGED <<queue, log, row, settings, exists, request, budget, misled>>

\* Any error in emptying the bucket is taken for its absence.
Empties_AnyError ==
    /\ request.pc = "empty"
    /\ \/ Reaches(request.found) /\ request' = [request EXCEPT !.pc = "drop"]
          /\ Remove(request.names) /\ NoFault
       \/ request' = [request EXCEPT !.pc = "clear"] /\ UNCHANGED <<objects, thinned>>
          /\ (IF Reaches(request.found) THEN Fault ELSE NoFault)
    /\ UNCHANGED <<queue, log, row, settings, exists, uploader, seen, misled>>

\* An upload that fails for a reason of its own ends the pass, for good.
PutFails_Remembers ==
    /\ uploader.pc = "put"
    /\ Fault
    /\ seen' = [seen EXCEPT ![uploader.stream] = uploader.mark]
    /\ uploader' = [uploader EXCEPT !.pc = "next", !.todo = @ \ {uploader.stream}]
    /\ UNCHANGED <<queue, log, row, settings, bucket, request, history>>

-----------------------------------------------------------------------------
(***************************************************************************)
(* Entries.                                                                *)
(***************************************************************************)

\* recordAudit: a line of the system's log, or a console action.
Logged(s) ==
    /\ s \in Listed
    /\ Entry
    /\ Enqueue(s)
    /\ UNCHANGED <<log, row, settings, bucket, uploader, seen, request, history>>

\* auditDrain; an error of the store's is ignored.
Drains ==
    /\ queue # << >>
    /\ queue' = Tail(queue)
    /\ \/ log' = [log EXCEPT ![Head(queue)] = @ + 1] /\ NoFault
       \/ UNCHANGED log /\ Fault
    /\ UNCHANGED <<row, settings, bucket, uploader, seen, request, history>>

\* AddEvent.
HasEvent(m) ==
    /\ m \in Listed \ {Main}
    /\ Entry
    /\ log' = [log EXCEPT ![m] = @ + 1]
    /\ UNCHANGED <<queue, row, settings, bucket, uploader, seen, request, history>>

\* A migration is created with its first event, ends, and is deleted.
MigrationMoves(m) ==
    /\ \/ row[m] = "none" /\ row' = [row EXCEPT ![m] = "active"]
          /\ log' = [log EXCEPT ![m] = @ + 1]
       \/ row[m] = "active" /\ row' = [row EXCEPT ![m] = "finished"] /\ UNCHANGED log
       \/ row[m] \in {"active", "finished"} /\ row' = [row EXCEPT ![m] = "deleted"]
          /\ UNCHANGED log
    /\ UNCHANGED <<queue, settings, bucket, uploader, seen, request, budget, history>>

-----------------------------------------------------------------------------
(***************************************************************************)
(* auditUploader: every twenty seconds, flushAudit.                        *)
(***************************************************************************)

\* The bucket as the settings have it, the token, the streams.
Ticks ==
    /\ uploader.pc = "idle"
    /\ ready /\ record # "none" /\ token
    /\ uploader' = [uploader EXCEPT !.pc = "next", !.todo = Listed, !.uses = record]
    /\ UNCHANGED <<queue, log, row, settings, bucket, seen, request, budget, history>>

\* The watermark says whether a stream is worth its upload.
ReadsWatermark ==
    /\ uploader.pc = "next"
    /\ \E s \in uploader.todo :
        uploader' = IF log[s] = seen[s] THEN [uploader EXCEPT !.todo = @ \ {s}]
                    ELSE [uploader EXCEPT !.pc = "render", !.stream = s, !.mark = log[s]]
    /\ UNCHANGED <<queue, log, row, settings, bucket, seen, request, budget, history>>

Flushed ==
    /\ uploader.pc = "next" /\ uploader.todo = {}
    /\ uploader' = Idle
    /\ UNCHANGED <<queue, log, row, settings, bucket, seen, request, budget, history>>

\* renderAudit: the rows there are by now; rows it cannot read are left out of the text.
Renders ==
    /\ uploader.pc = "render"
    /\ \/ uploader' = [uploader EXCEPT !.pc = "put", !.text = log[uploader.stream]] /\ NoFault
       \/ uploader' = [uploader EXCEPT !.pc = "put", !.text = 0] /\ Fault
    /\ UNCHANGED <<queue, log, row, settings, bucket, seen, request, history>>

\* The stream is as uploaded as the
\* watermark read before its rows says.
Puts ==
    /\ uploader.pc = "put" /\ Reaches(uploader.uses)
    /\ Write(uploader.stream, uploader.text)
    /\ seen' = [seen EXCEPT ![uploader.stream] = uploader.mark]
    /\ uploader' = [uploader EXCEPT !.pc = "next", !.todo = @ \ {uploader.stream}]
    /\ UNCHANGED <<queue, log, row, settings, exists, request, budget, misled>>

\* Some other error, or its answer is lost: the next tick will try again.
PutFails ==
    /\ uploader.pc = "put"
    /\ Fault
    /\ \/ UNCHANGED <<objects, thinned>>
       \/ Reaches(uploader.uses) /\ Write(uploader.stream, uploader.text)
    /\ uploader' = [uploader EXCEPT !.pc = "next", !.todo = @ \ {uploader.stream}]
    /\ UNCHANGED <<queue, log, row, settings, exists, seen, request, misled>>

\* Not found: the account is asked, before what it says is written.
PutMisses ==
    /\ uploader.pc = "put" /\ ~Reaches(uploader.uses)
    /\ \/ uploader' = [uploader EXCEPT !.pc = "confirm", !.sees = exists] /\ NoFault
       \/ uploader' = [uploader EXCEPT !.pc = "confirm", !.sees = FALSE] /\ Fault
    /\ UNCHANGED <<queue, log, row, settings, bucket, seen, request, history>>

\* The bucket is there, and so is its record, for the next tick to use; or the bucket is
\* given up.
Confirms ==
    /\ uploader.pc = "confirm"
    /\ IF uploader.sees
       THEN /\ SaveBucket("own")
            /\ uploader' = [uploader EXCEPT !.pc = "next", !.todo = @ \ {uploader.stream}]
       ELSE Unready /\ uploader' = Idle /\ UNCHANGED queue
    /\ UNCHANGED <<log, row, token, bucket, seen, request, budget, history>>

Uploads == Ticks \/ ReadsWatermark \/ Flushed \/ Renders \/ Puts \/ PutFails \/ PutMisses \/ Confirms

-----------------------------------------------------------------------------
(***************************************************************************)
(* The operator's requests.                                                *)
(***************************************************************************)

Proceeds(pc) == request' = [request EXCEPT !.pc = pc]
Answers      == request' = NoRequest

\* handleSetLinodeToken, which ends in ensureAuditBucket.
SetLinodeToken ==
    /\ request.pc = "none" /\ Asks
    /\ token' = TRUE
    /\ Proceeds("create")
    /\ UNCHANGED <<queue, log, row, ready, record, bucket, uploader, seen, history>>

\* handleDeleteLinodeToken; the bucket and what is known of it stay.
DeleteLinodeToken ==
    /\ request.pc = "none" /\ Asks
    /\ Active = {}
    /\ token' = FALSE
    /\ UNCHANGED <<queue, log, row, ready, record, bucket, uploader, seen, request, history>>

\* handleProvisionAuditBucket: a bucket that is seen in the account is taken.
ProvisionAuditBucket ==
    /\ request.pc = "none" /\ Asks /\ token
    /\ \/ exists /\ request' = [request EXCEPT !.pc = "save", !.found = "own"]
       \/ Proceeds("create")
    /\ UNCHANGED <<queue, log, row, settings, bucket, uploader, seen, history>>

\* handleRefreshAuditBucket: nothing is done about a listing that fails.
RefreshAuditBucket ==
    /\ request.pc = "none" /\ Asks /\ token
    /\ \/ exists /\ request' = [request EXCEPT !.pc = "save", !.found = "own"]
       \/ ~exists /\ Proceeds("unready")
       \/ UNCHANGED request
    /\ UNCHANGED <<queue, log, row, settings, bucket, uploader, seen, history>>

\* ensureAuditBucket.
CreatesBucket ==
    /\ request.pc = "create"
    /\ \/ exists /\ Proceeds("lookup") /\ NoFault /\ UNCHANGED bucket
       \/ ~exists /\ exists' = TRUE /\ objects' = NoObjects /\ NoFault
          /\ request' = [request EXCEPT !.pc = "save", !.found = "own"]
       \/ Proceeds("unready") /\ Fault /\ UNCHANGED bucket
    /\ UNCHANGED <<queue, log, row, settings, uploader, seen, history>>

\* It is there already: its record is looked up, or made up.
LooksUp ==
    /\ request.pc = "lookup"
    /\ \/ exists /\ request' = [request EXCEPT !.pc = "save", !.found = "own"]
          /\ NoFault /\ UNCHANGED misled
       \/ request' = [request EXCEPT !.pc = "save", !.found = "made up"]
          /\ (IF exists THEN Fault ELSE NoFault) /\ misled' = TRUE
    /\ UNCHANGED <<queue, log, row, settings, bucket, uploader, seen, thinned>>

\* saveAuditBucket, at the end of three handlers.
Saves ==
    /\ request.pc = "save"
    /\ SaveBucket(request.found)
    /\ Answers
    /\ UNCHANGED <<log, row, token, bucket, uploader, seen, budget, history>>

\* setAuditErr.
SetsError ==
    /\ request.pc = "unready"
    /\ Unready
    /\ Answers
    /\ UNCHANGED <<queue, log, row, token, bucket, uploader, seen, budget, history>>

\* handleDeleteAuditBucket: no migration is active, and the bucket is the one of the
\* settings or else the account's.
DeleteAuditBucket ==
    /\ request.pc = "none" /\ Asks
    /\ Active = {} /\ token
    /\ IF ready /\ record # "none"
       THEN request' = [request EXCEPT !.pc = "list", !.found = record] /\ UNCHANGED misled
       ELSE \/ /\ exists /\ UNCHANGED misled
               /\ request' = [request EXCEPT !.pc = "list", !.found = "own"]
            \/ Proceeds("clear") /\ misled' = (misled \/ exists)
    /\ UNCHANGED <<queue, log, row, settings, bucket, uploader, seen, thinned>>

\* ListObjects; a bucket that is not found is taken for one that is gone.
ListsObjects ==
    /\ request.pc = "list"
    /\ \/ Reaches(request.found) /\ NoFault
          /\ request' = [request EXCEPT !.pc = "empty", !.names = DOMAIN objects]
       \/ ~Reaches(request.found) /\ Proceeds("clear") /\ NoFault
       \/ Answers /\ Fault
    /\ UNCHANGED <<queue, log, row, settings, bucket, uploader, seen, history>>

\* DeleteObject, of every name that was listed, or of some before one that fails.
Empties ==
    /\ request.pc = "empty"
    /\ \/ Reaches(request.found) /\ Remove(request.names) /\ Proceeds("drop") /\ NoFault
       \/ ~Reaches(request.found) /\ Proceeds("clear") /\ NoFault /\ UNCHANGED <<objects, thinned>>
       \/ /\ Reaches(request.found) /\ Answers /\ Fault
          /\ \E some \in SUBSET request.names : Remove(some)
    /\ UNCHANGED <<queue, log, row, settings, exists, uploader, seen, misled>>

\* DeleteBucket: refused if something was put there meanwhile.
DropsBucket ==
    /\ request.pc = "drop"
    /\ \/ ~exists /\ Proceeds("clear") /\ NoFault /\ UNCHANGED exists
       \/ exists /\ DOMAIN objects = {} /\ exists' = FALSE
          /\ ((Proceeds("clear") /\ NoFault) \/ (Answers /\ Fault))
       \/ exists /\ Answers /\ UNCHANGED exists
          /\ (IF DOMAIN objects = {} THEN Fault ELSE NoFault)
    /\ UNCHANGED <<queue, log, row, settings, objects, uploader, seen, history>>

\* clearAuditBucket.
Clears ==
    /\ request.pc = "clear"
    /\ ready' = FALSE /\ record' = "none"
    /\ Answers
    /\ UNCHANGED <<queue, log, row, token, bucket, uploader, seen, budget, history>>

Handles ==
    \/ CreatesBucket \/ LooksUp \/ Saves \/ SetsError
    \/ ListsObjects \/ Empties \/ DropsBucket \/ Clears

Requests ==
    \/ SetLinodeToken \/ DeleteLinodeToken \/ ProvisionAuditBucket \/ RefreshAuditBucket
    \/ DeleteAuditBucket

-----------------------------------------------------------------------------
\* Somebody deletes the bucket in Cloud Manager.
BucketDeleted ==
    /\ exists /\ exists' = FALSE
    /\ Remove(DOMAIN objects)
    /\ Fault
    /\ UNCHANGED <<queue, log, row, settings, uploader, seen, request, misled>>

\* The process dies, with what was queued: main's context is never cancelled, so there
\* is no last flush.
Restart ==
    /\ Fault
    /\ queue' = << >>
    /\ uploader' = Idle /\ seen' = Fresh
    /\ request' = NoRequest
    /\ UNCHANGED <<log, row, settings, bucket, history>>

Next ==
    \/ \E s \in Streams : Logged(s)
    \/ \E m \in Migrations : HasEvent(m) \/ MigrationMoves(m)
    \/ Drains \/ Uploads \/ Requests \/ Handles \/ BucketDeleted \/ Restart

Spec == Init /\ [][Next]_vars

\* The two goroutines run on, and a handler does.
FairSpec == Spec /\ WF_vars(Drains) /\ WF_vars(Uploads) /\ WF_vars(Handles)

-----------------------------------------------------------------------------
(***************************************************************************)
(* Properties.                                                             *)
(***************************************************************************)

\* What the uploader will not upload again is in the bucket, unless objects have been
\* deleted since or a read of the database went wrong: a row that comes between the
\* watermark and the text is uploaded twice, never not at all.
UploadedIsThere ==
    \A s \in Streams \ thinned :
        seen[s] > 0 => s \in DOMAIN objects /\ objects[s] >= seen[s]

\* When the operator is about to be told that the bucket is gone, it is: a path that
\* does not lead to it is not mistaken for its absence.
DeletedIsGone == request.pc = "clear" /\ ~misled => ~exists

\* The uploader has a bucket it can reach.
Connected == token /\ ready /\ Reaches(record)

\* Every stream's log gets to the bucket in the end, as long as there is one,
\* whatever uploads failed before.
LogsReachBucket ==
    \A s \in Streams :
        <>[]Connected => <>[](s \in Listed \ thinned /\ log[s] > 0 =>
                                s \in DOMAIN objects /\ objects[s] = log[s])
=============================================================================
