------------------------------- MODULE DMEra -------------------------------
(***************************************************************************)
(* Change tracking by a device-mapper era target (internal/cbt/dmera.go):  *)
(* the source that writes, the target that notes it, and the pass that     *)
(* goes by the notes (cmd/agent/main.go, replicate).  A pass reads the     *)
(* device as it is, or an LVM snapshot of it that prepareSource has taken  *)
(* before the tracker was asked for anything.                              *)
(*                                                                         *)
(* The state, the geometry and what is right are in EraState.  What has    *)
(* been read is taken to arrive: Replication is about that.                *)
(***************************************************************************)
EXTENDS EraState

CONSTANTS
    MaxEra,         \* bound: the eras
    MayRollMidPass, \* may something else roll the era over during a pass?
    MayWriteBetween \* may the source write between the LVM snapshot and the candidates?

ASSUME EraAssumption ==
    MaxEra \in Nat /\ MayRollMidPass \in BOOLEAN /\ MayWriteBetween \in BOOLEAN

kernel == <<cur, era, held>>
kept   == <<manifest, last, stale>>
source == <<imaged, behind>>
pass   == <<step, cand, left, obs, moved, source>>
vars   == <<kernel, kept, pass>>

-----------------------------------------------------------------------------

Init ==
    /\ cur = 1
    /\ era = [e \in EraBlocks |-> 0]
    /\ held = FALSE
    /\ manifest = FALSE
    /\ last = 0
    /\ step = "idle"
    /\ imaged = FALSE
    /\ cand = {}
    /\ left = {}
    /\ obs = 0
    /\ stale = Bytes
    /\ moved = {}
    /\ behind = {}

\* The pass is over, for better or worse; a snapshot it has read is removed.
Idle ==
    /\ step' = "idle" /\ cand' = {} /\ left' = {} /\ obs' = 0 /\ moved' = {}
    /\ imaged' = FALSE /\ behind' = {}

RollsOver == cur < MaxEra /\ cur' = cur + 1

-----------------------------------------------------------------------------
(***************************************************************************)
(* Slips: a definition below with one plausible mistake in it, to show that*)
(* a property would notice.  No specification uses these.                  *)
(***************************************************************************)

\* What is observed is the era the rollover will begin.
Observes_Next ==
    /\ step = "saved"
    /\ obs' = cur + 1
    /\ step' = "observed"
    /\ UNCHANGED <<kernel, kept, cand, left, moved, source>>

\* The pass reads the device itself, though there is a snapshot.
ReadsBlock_Live(i) ==
    /\ step = "pass"
    /\ i \in left
    /\ left' = left \ {i}
    /\ moved' = {x \in moved : ~Holds(i, x)}
    /\ UNCHANGED <<kernel, kept, step, cand, obs, source>>

-----------------------------------------------------------------------------
(***************************************************************************)
(* The source and its era target.                                          *)
(***************************************************************************)

\* The source writes a byte.
SourceWrites(x) ==
    /\ step = "begun" /\ imaged /\ last > 0 => MayWriteBetween
    /\ era' = [era EXCEPT ![EraOf(x)] = cur]
    /\ stale' = stale \cup {x}
    /\ moved' = IF step \in {"idle", "begun"} THEN {} ELSE moved \cup {x}
    /\ behind' = IF imaged THEN behind \cup {x} ELSE {}
    /\ UNCHANGED <<cur, held, manifest, last, step, imaged, cand, left, obs>>

\* The target is suspended and resumed, or somebody else's snapshot is taken.
OthersRoll ==
    /\ step = "idle" \/ MayRollMidPass
    /\ RollsOver
    /\ UNCHANGED <<era, held, kept, pass>>

-----------------------------------------------------------------------------
(***************************************************************************)
(* One pass.                                                               *)
(***************************************************************************)

\* prepareSource, with an LVM snapshot or without.
Begins ==
    /\ step = "idle"
    /\ step' = "begun"
    /\ imaged' \in BOOLEAN
    /\ UNCHANGED <<kernel, kept, cand, left, obs, moved, behind>>

\* The blocks to read, and the next manifest: empty, or a copy of the last one.
Reads(blocks, copied) ==
    /\ step' = "pass"
    /\ left' = blocks
    /\ moved' = copied
    /\ cand' = {}
    /\ UNCHANGED <<kept, obs, source>>

\* Candidates, when there is no era to start from.
ConsidersAll ==
    /\ step = "begun"
    /\ last = 0
    /\ Reads(Blocks, Bytes)
    /\ UNCHANGED kernel

\* take_metadata_snap rolls the era over, and fails while a snapshot is held; what
\* era_invalidate will read is as of now.
TakesSnapshot ==
    /\ step = "begun"
    /\ last > 0
    /\ ~held
    /\ held' = TRUE
    /\ RollsOver
    /\ cand' = WrittenSince(last)
    /\ step' = "snap"
    /\ UNCHANGED <<era, kept, left, obs, moved, source>>

\* drop_metadata_snap, deferred; then the candidates, unless the pass is a full one.
DropsSnapshot ==
    /\ step = "snap"
    /\ held' = FALSE
    /\ \/ IF manifest THEN Reads(cand, stale) ELSE Reads(Blocks, Bytes)
       \/ Idle /\ UNCHANGED kept
    /\ UNCHANGED <<cur, era>>

\* A block is read, hashed and, if it has changed, sent: as it is, or was.
ReadsBlock(i) ==
    /\ step = "pass"
    /\ i \in left
    /\ left' = left \ {i}
    /\ moved' = {x \in moved : Holds(i, x) => x \in behind}
    /\ UNCHANGED <<kernel, kept, step, cand, obs, source>>

\* The manifest is saved on the receiver's acknowledgement,
SavesManifest ==
    /\ step = "pass"
    /\ left = {}
    /\ manifest' = TRUE
    /\ stale' = moved
    /\ step' = "saved"
    /\ UNCHANGED <<kernel, last, cand, left, obs, moved, source>>

\* and behind it Checkpoint: the current era is observed,
Observes ==
    /\ step = "saved"
    /\ obs' = cur
    /\ step' = "observed"
    /\ UNCHANGED <<kernel, kept, cand, left, moved, source>>

\* rolled over,
Rolls ==
    /\ step = "observed"
    /\ RollsOver
    /\ step' = "rolled"
    /\ UNCHANGED <<era, held, kept, cand, left, obs, moved, source>>

\* and kept.
KeepsEra ==
    /\ step = "rolled"
    /\ last' = obs
    /\ Idle
    /\ UNCHANGED <<kernel, manifest, stale>>

\* An error, a signal or a crash, at any point of it.  The handler of a signal does
\* not run what Candidates has deferred.
PassFails ==
    /\ step # "idle"
    /\ Idle
    /\ UNCHANGED <<kernel, kept>>

\* The state files are the operator's to lose.
LosesManifest ==
    /\ step = "idle"
    /\ manifest
    /\ manifest' = FALSE
    /\ UNCHANGED <<kernel, last, stale, pass>>

LosesEra ==
    /\ step = "idle"
    /\ last > 0
    /\ last' = 0
    /\ UNCHANGED <<kernel, manifest, stale, pass>>

Next ==
    \/ \E x \in Bytes : SourceWrites(x)
    \/ OthersRoll
    \/ Begins \/ ConsidersAll \/ TakesSnapshot \/ DropsSnapshot
    \/ \E i \in Blocks : ReadsBlock(i)
    \/ SavesManifest \/ Observes \/ Rolls \/ KeepsEra \/ PassFails
    \/ LosesManifest \/ LosesEra

Spec == Init /\ [][Next]_vars
=============================================================================
