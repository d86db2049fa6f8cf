------------------------------ MODULE EraState ------------------------------
(***************************************************************************)
(* What change tracking by a device-mapper era target goes by              *)
(* (internal/cbt/dmera.go), with the manifest it goes with                 *)
(* (internal/blockdiff).  The kernel notes for every era block the era in  *)
(* which it was last written; a pass reads only the agent blocks that      *)
(* overlap an era block written since the era it kept.  Here are the state *)
(* of the device, the target and the pass, and what is right about it; the *)
(* steps that move it are in DMEra.                                        *)
(*                                                                         *)
(* The two kinds of block have different sizes, neither a multiple of the  *)
(* other, and the device need not be a multiple of either; so the content  *)
(* is followed byte by byte.                                               *)
(***************************************************************************)
EXTENDS Integers

CONSTANTS
    DeviceSize,     \* in bytes
    BlockSize,      \* the agent's block, in bytes
    EraBytes        \* the era target's block, in bytes

ASSUME SizeAssumption ==
    DeviceSize \in Nat \ {0} /\ BlockSize \in Nat \ {0} /\ EraBytes \in Nat \ {0}

VARIABLES
    cur,      \* the target's current era
    era,      \* the era in which each era block was last written
    held,     \* does the target hold a metadata snapshot?
    manifest, \* is there a manifest of this geometry?
    last,     \* the era in the checkpoint file; 0 when there is none
    step,     \* the agent's place
    imaged,   \* does the pass read an LVM snapshot?
    cand,     \* the candidates of the pass
    left,     \* the blocks it has yet to read
    obs       \* the era Checkpoint has observed

\* The bytes that differ from what the manifest has hashed, from what the next one has
\* so far, and from the snapshot that is read.
VARIABLES stale, moved, behind

(***************************************************************************)
(* Geometry.                                                               *)
(***************************************************************************)

Bytes == 0 .. DeviceSize - 1

\* Slips of two definitions that follow: a short last block is forgotten; an era block
\* counts for the agent block it begins in.
BlockLen_FullOnly(i)     == IF (i + 1) * BlockSize <= DeviceSize THEN BlockSize ELSE 0
Overlaps_StartOnly(e, i) == i = (e * EraBytes) \div BlockSize

\* NumBlocks: the last block may be short.
NumBlocks == (DeviceSize + BlockSize - 1) \div BlockSize

\* BlockLen.
BlockLen(i) == IF i * BlockSize + BlockSize <= DeviceSize
               THEN BlockSize ELSE DeviceSize - i * BlockSize

Blocks      == 0 .. NumBlocks - 1
Holds(i, x) == i * BlockSize <= x /\ x < i * BlockSize + BlockLen(i)

EraOf(x)  == x \div EraBytes
EraBlocks == {EraOf(x) : x \in Bytes}

\* mark: from the first byte of an era block to its last.
Overlaps(e, i) ==
    /\ (e * EraBytes) \div BlockSize <= i
    /\ i <= ((e + 1) * EraBytes - 1) \div BlockSize

\* The agent blocks that overlap an era block written since an era, inclusive.
WrittenSince(n) == {i \in Blocks : \E e \in EraBlocks : era[e] >= n /\ Overlaps(e, i)}

-----------------------------------------------------------------------------
(***************************************************************************)
(* What is right.                                                          *)
(***************************************************************************)

Steps == {"idle", "begun", "snap", "pass", "saved", "observed", "rolled"}

\* An era that is kept is a number read from the target, a candidate is a block.
EraTypeOK ==
    /\ cur \in Nat
    /\ era \in [EraBlocks -> Nat]
    /\ held \in BOOLEAN
    /\ manifest \in BOOLEAN
    /\ last \in Nat
    /\ step \in Steps
    /\ imaged \in BOOLEAN
    /\ cand \subseteq Blocks
    /\ left \subseteq Blocks
    /\ obs \in Nat
    /\ stale \subseteq Bytes
    /\ moved \subseteq Bytes
    /\ behind \subseteq Bytes

\* A byte is considered by the next pass.
Considered(x) == \E i \in WrittenSince(last) : Holds(i, x)

\* The tracker may report too much, but it never misses a change: whatever differs
\* from the manifest is in a block the next pass will read, after every failure
\* between the pass, the manifest and the kept era.
NoChangeMissed == manifest /\ last > 0 => \A x \in stale : Considered(x)

\* A pass that has read an LVM snapshot has left the target at the snapshot's instant,
\* though it has read the candidates only: what differs is what was written since.
PassIsItsImage == imaged /\ step \in {"saved", "observed", "rolled"} => stale = behind
=============================================================================
