------------------------- MODULE SourcePassProofs -------------------------
(***************************************************************************)
(* What is proved of the two things that a pass of the agent asks of its   *)
(* source.  Of SourceSnapshot, for any filesystems mounted in any tree:    *)
(* its type invariant, that an agent that has ended has released the       *)
(* source, that a pass read as consistent is, that a snapshot shows the    *)
(* application at rest, and that nothing is frozen while the device is     *)
(* read.  Of DMEra, for every size of device, block and era block: its     *)
(* type invariant, and, when nothing but the agent rolls the era over      *)
(* during a pass and nothing is written between the LVM snapshot it reads  *)
(* and its candidates, that the tracker never misses a change and that a   *)
(* pass over a snapshot leaves the target at the snapshot's instant.       *)
(*                                                                         *)
(* DMEra is here as the instance Era, over the state of EraState, as it    *)
(* and SourceSnapshot have an Init and a Next each.                        *)
(***************************************************************************)
EXTENDS SourceSnapshot, EraState, TLAPS

---------------------------------------------------------------------------
(***************************************************************************)
(* The snapshot's type invariant.                                          *)
(***************************************************************************)

LEMMA TypeStep ==
  ASSUME TypeOK, [Next]_vars
  PROVE  TypeOK'
<1> USE DEF TypeOK, Modes, Pcs, At, Goto, Exit, freezes
<1>1. CASE ListsFilesystems
  BY <1>1 DEF ListsFilesystems
<1>2. CASE RunsPreHook
  BY <1>2 DEF RunsPreHook
<1>3. CASE ThawsAtOnce
  BY <1>3 DEF ThawsAtOnce
<1>4. CASE Quiesced
  BY <1>4 DEF Quiesced, Resumes
<1>5. ASSUME NEW m \in Filesystems, Freezes(m) PROVE TypeOK'
  BY <1>5 DEF Freezes
<1>6. ASSUME NEW m \in Filesystems, RefusesFreeze(m) PROVE TypeOK'
  BY <1>6 DEF RefusesFreeze
<1>7. ASSUME NEW m \in Filesystems, Remounts(m) PROVE TypeOK'
  BY <1>7 DEF Remounts
<1>8. ASSUME NEW m \in Filesystems, RefusesRemount(m) PROVE TypeOK'
  BY <1>8 DEF RefusesRemount
<1>9. ASSUME NEW m \in Filesystems, Restores(m) PROVE TypeOK'
  BY <1>9 DEF Restores
<1>10. ASSUME NEW m \in Filesystems, WatchdogThaws(m) PROVE TypeOK'
  BY <1>10 DEF WatchdogThaws, Disarms
<1>11. CASE CreatesSnapshot
  BY <1>11 DEF CreatesSnapshot
<1>12. CASE ResumesSource
  BY <1>12 DEF ResumesSource, Resumes
<1>13. CASE ResolvesPath
  BY <1>13 DEF ResolvesPath
<1>14. CASE PassEnds
  BY <1>14 DEF PassEnds
<1>15. CASE CleansUp
  BY <1>15 DEF CleansUp, Resumes
<1>16. CASE Signalled
  BY <1>16 DEF Signalled
<1>17. CASE Killed
  BY <1>17 DEF Killed
<1>18. ASSUME NEW m \in Filesystems, BeginsThaw(m) PROVE TypeOK'
  BY <1>18 DEF BeginsThaw, Disarms
<1>19. ASSUME NEW m \in Filesystems, ThawEnds(m) PROVE TypeOK'
  BY <1>19 DEF ThawEnds
<1>20. CASE UNCHANGED vars
  BY <1>20 DEF vars
<1>21. QED
  BY <1>1, <1>2, <1>3, <1>4, <1>5, <1>6, <1>7, <1>8, <1>9, <1>10, <1>11, <1>12, <1>13,
     <1>14, <1>15, <1>16, <1>17, <1>18, <1>19, <1>20 DEF Next

\* Every state of a snapshot is well typed, whatever the filesystems.
THEOREM SnapshotTypeCorrect == Spec => []TypeOK
<1>1. Init => TypeOK
  BY DEF Init, TypeOK, Modes, Pcs
<1>2. TypeOK /\ [Next]_vars => TypeOK'
  BY TypeStep
<1>3. QED
  BY <1>1, <1>2, PTL DEF Spec

---------------------------------------------------------------------------
(***************************************************************************)
(* What has been taken, at each place, is still to be given back.          *)
(***************************************************************************)

\* Only prepareRemountRO remounts, and before it has got to all only those it has.
RemountedOnly ==
    /\ \A m \in Filesystems : fs[m] = "ro" => mode = "remountro"
    /\ mode = "remountro" /\ At("hook") => todo = Filesystems
    /\ mode = "remountro" /\ At("quiesce") => \A m \in Filesystems : m \in todo \/ fs[m] = "ro"
    /\ mode = "remountro" /\ At("read") /\ handler = "idle" =>
        \A m \in Filesystems : fs[m] = "ro"

\* What is frozen is watched or being thawed, unless a thaw of it has failed; and all of
\* it is thawed before the device is read, in one mode each before the next.
FrozenWatched ==
    /\ \A m \in Filesystems : fs[m] = "frozen" => m \in dog \cup thawing \cup failed
    /\ dog \cup thawing # {} => mode \in {"fsfreeze", "lvm"}
    /\ dog \cup thawing # {} /\ process = "up" =>
        pc \in (IF mode = "lvm" THEN {"quiesce", "create", "created", "resume"} ELSE {"thaw"})

\* The application is held from the hook to the snapshot, or to the end of the pass
\* when the filesystems stay read-only; longer only when the post-hook has failed.
ApplicationHeld ==
    process = "up" =>
        /\ pc \in {"prepare", "hook"} => app = "running"
        /\ hooked /\ pc \in {"quiesce", "thaw", "create"} => app = "quiesced"
        /\ pc \in {"path", "read", "undo"} /\ mode # "remountro" =>
            app = "running" \/ "hook" \in failed

\* There is a snapshot from lvcreate to the cleanup of LVM's mode.
SnapshotKept ==
    /\ hooked /\ snap # "none" => snap = "quiesced"
    /\ snap # "none" => mode = "lvm"
    /\ process = "up" =>
        /\ pc \in {"prepare", "hook", "quiesce", "thaw", "create", "resume"} => snap = "none"
        /\ pc \in {"created", "path"} => snap # "none"
        /\ mode = "lvm" /\ pc = "read" /\ handler = "idle" => snap # "none"

\* Where each mode may be, and the handler of a signal.
Places ==
    process = "up" =>
        /\ pc # "end"
        /\ pc \in {"prepare", "hook"} => \A m \in Filesystems : fs[m] = "rw"
        /\ pc \in {"create", "created", "resume", "path"} => mode = "lvm"
        /\ pc = "thaw" => mode = "fsfreeze"
        /\ pc \in {"hook", "quiesce"} => mode # "none"
        /\ handler = "cleans" => pc \in {"read", "undo"}

Orderly ==
    /\ RemountedOnly /\ FrozenWatched /\ ApplicationHeld /\ SnapshotKept /\ Places
    /\ SourceReleased

LEMMA OrderlyStep ==
  ASSUME TypeOK, Orderly, [Next]_vars
  PROVE  Orderly'
<1> USE DEF Orderly, RemountedOnly, FrozenWatched, ApplicationHeld, SnapshotKept, Places,
            SourceReleased, FreezeRefused, TypeOK, Modes, Pcs, At, Goto, Exit, freezes
<1>1. CASE ListsFilesystems
  BY <1>1 DEF ListsFilesystems
<1>2. CASE RunsPreHook
  BY <1>2 DEF RunsPreHook
<1>3. CASE Quiesced
  BY <1>3 DEF Quiesced, Resumes
<1>4. CASE CreatesSnapshot
  BY <1>4 DEF CreatesSnapshot
<1>5. CASE ResolvesPath
  BY <1>5 DEF ResolvesPath
<1>6. CASE PassEnds
  BY <1>6 DEF PassEnds
<1>7. CASE CleansUp
  BY <1>7 DEF CleansUp, Cleaning, Resumes, ReadOnly
<1>8. CASE Signalled
  BY <1>8 DEF Signalled
<1>9. CASE Killed
  BY <1>9 DEF Killed
<1>10. ASSUME NEW m \in Filesystems, Freezes(m) PROVE Orderly'
  BY <1>10 DEF Freezes
<1>11. ASSUME NEW m \in Filesystems, RefusesFreeze(m) PROVE Orderly'
  BY <1>11 DEF RefusesFreeze, Deepest
<1>12. ASSUME NEW m \in Filesystems, Remounts(m) PROVE Orderly'
  BY <1>12 DEF Remounts
<1>13. ASSUME NEW m \in Filesystems, RefusesRemount(m) PROVE Orderly'
  BY <1>13 DEF RefusesRemount
<1>14. ASSUME NEW m \in Filesystems, Restores(m) PROVE Orderly'
  BY <1>14 DEF Restores, Cleaning
<1>15. CASE ThawsAtOnce
  BY <1>15 DEF ThawsAtOnce
<1>16. CASE ResumesSource
  BY <1>16 DEF ResumesSource, Resumes
<1>17. ASSUME NEW m \in Filesystems, WatchdogThaws(m) PROVE Orderly'
  BY <1>17 DEF WatchdogThaws, Disarms
<1>18. ASSUME NEW m \in Filesystems, BeginsThaw(m) PROVE Orderly'
  BY <1>18 DEF BeginsThaw, Disarms, Shallowest
<1>19. ASSUME NEW m \in Filesystems, ThawEnds(m) PROVE Orderly'
  BY <1>19 DEF ThawEnds
<1>20. CASE UNCHANGED vars
  BY <1>20 DEF vars
<1>21. QED
  BY <1>1, <1>2, <1>3, <1>4, <1>5, <1>6, <1>7, <1>8, <1>9, <1>10, <1>11, <1>12,
     <1>13, <1>14, <1>15, <1>16, <1>17, <1>18, <1>19, <1>20 DEF Next

LEMMA AlwaysOrderly == Spec => []Orderly
<1>1. Init => Orderly
  BY DEF Init, Orderly, RemountedOnly, FrozenWatched, ApplicationHeld, SnapshotKept, Places,
         SourceReleased, At
<1>2. TypeOK /\ Orderly /\ [Next]_vars => Orderly'
  BY OrderlyStep
<1>3. QED
  BY <1>1, <1>2, SnapshotTypeCorrect, PTL DEF Spec

\* An agent that has ended by itself or by a signal during its pass has undone what it
\* did to the source, or tried to, but for the application when a freeze was refused: in
\* every mode, however deep its mounts are nested and whatever commands failed.
THEOREM SourceIsReleased == Spec => []SourceReleased
  BY AlwaysOrderly, PTL DEF Orderly

\* A pass is read from a snapshot, or from filesystems all of which are read-only, when
\* it claims to be: until its end or until the handler of a signal releases the source.
THEOREM PassIsPointInTime == Spec => []PointInTime
<1>1. Orderly => PointInTime
  BY DEF Orderly, RemountedOnly, SnapshotKept, PointInTime, At
<1>2. QED
  BY <1>1, AlwaysOrderly, PTL

\* The application is quiesced from its hook until the snapshot has been taken.
THEOREM SnapshotIsAtRest == Spec => []SnapshotAtRest
<1>1. Orderly => SnapshotAtRest
  BY DEF Orderly, SnapshotKept, SnapshotAtRest
<1>2. QED
  BY <1>1, AlwaysOrderly, PTL

\* By the time the device is read every freeze has been lifted, or could not be.
THEOREM NothingHeldFrozen == Spec => []NeverHeldFrozen
<1>1. TypeOK /\ Orderly => NeverHeldFrozen
  BY DEF TypeOK, Orderly, FrozenWatched, NeverHeldFrozen, At
<1>2. QED
  BY <1>1, AlwaysOrderly, SnapshotTypeCorrect, PTL

---------------------------------------------------------------------------
(***************************************************************************)
(* The tracker.                                                            *)
(***************************************************************************)

CONSTANTS MaxEra, MayRollMidPass, MayWriteBetween

\* The pass and the source that writes meanwhile (DMEra).
Era == INSTANCE DMEra

---------------------------------------------------------------------------
(***************************************************************************)
(* Geometry.                                                               *)
(***************************************************************************)

\* Division, as the prover knows it.
LEMMA DivBounds ==
    ASSUME NEW a \in Nat, NEW b \in Nat \ {0}
    PROVE  /\ a \div b \in Nat
           /\ (a \div b) * b <= a
           /\ a < (a \div b) * b + b
  OBVIOUS

\* A larger offset is in no earlier block.
LEMMA DivMonotone ==
    ASSUME NEW a \in Nat, NEW c \in Nat, a <= c, NEW b \in Nat \ {0}
    PROVE  a \div b <= c \div b
<1> DEFINE q == a \div b
           p == c \div b
<1>1. q \in Nat /\ q * b <= a /\ a < q * b + b
  BY DivBounds
<1>2. p \in Nat /\ p * b <= c /\ c < p * b + b
  BY DivBounds
<1> HIDE DEF q, p
<1>3. SUFFICES ASSUME p + 1 <= q PROVE FALSE
  <2>1. q \in Nat /\ p \in Nat
    BY <1>1, <1>2
  <2>2. QED
    BY <2>1, <1>3 DEF q, p
<1>4. (p + 1) * b <= q * b
  BY <1>1, <1>2, <1>3
<1>5. QED
  BY <1>1, <1>2, <1>4

\* Every byte is held by the agent block of its offset, the last block included
\* (blockdiff's NumBlocks and BlockLen).
LEMMA BlockOfByte ==
    ASSUME NEW x \in Era!Bytes
    PROVE  /\ x \div BlockSize \in Era!Blocks
           /\ Era!Holds(x \div BlockSize, x)
<1> DEFINE i == x \div BlockSize
           n == Era!NumBlocks
<1>1. /\ x \in Nat /\ x < DeviceSize
      /\ DeviceSize \in Nat \ {0} /\ BlockSize \in Nat \ {0}
  BY SizeAssumption DEF Era!Bytes
<1>2. i \in Nat /\ i * BlockSize <= x /\ x < i * BlockSize + BlockSize
  BY <1>1, DivBounds
<1>3. /\ n \in Nat
      /\ DeviceSize + BlockSize - 1 < n * BlockSize + BlockSize
  <2>1. DeviceSize + BlockSize - 1 \in Nat
    BY <1>1
  <2>2. QED
    BY <1>1, <2>1, DivBounds DEF Era!NumBlocks
<1> HIDE DEF i, n
<1>4. i < n
  <2>1. SUFFICES ASSUME n <= i PROVE FALSE
    BY <1>2, <1>3
  <2>2. n * BlockSize <= i * BlockSize
    BY <1>1, <1>2, <1>3, <2>1
  <2>3. n * BlockSize \in Nat /\ i * BlockSize \in Nat
    BY <1>1, <1>2, <1>3
  <2>4. QED
    BY <1>1, <1>2, <1>3, <2>2, <2>3
<1>5. i \in Era!Blocks
  BY <1>2, <1>3, <1>4 DEF Era!Blocks, n
<1>6. Era!Holds(i, x)
  <2>1. i * BlockSize \in Nat
    BY <1>1, <1>2
  <2>2. QED
    BY <1>1, <1>2, <2>1 DEF Era!Holds, Era!BlockLen
<1>7. QED
  BY <1>5, <1>6 DEF i

\* The agent block of a byte overlaps its era block, whatever the two sizes
\* (Candidates, mark).
LEMMA BlockOverlapsEra ==
    ASSUME NEW x \in Era!Bytes
    PROVE  Era!Overlaps(Era!EraOf(x), x \div BlockSize)
<1> DEFINE e == x \div EraBytes
<1>1. /\ x \in Nat
      /\ BlockSize \in Nat \ {0} /\ EraBytes \in Nat \ {0}
  BY SizeAssumption DEF Era!Bytes
<1>2. e \in Nat /\ e * EraBytes <= x /\ x < e * EraBytes + EraBytes
  BY <1>1, DivBounds
<1> HIDE DEF e
<1>3. e * EraBytes \in Nat
  BY <1>1, <1>2
<1>4. (e + 1) * EraBytes = e * EraBytes + EraBytes
  BY <1>1, <1>2
<1>5. (e + 1) * EraBytes - 1 \in Nat /\ x <= (e + 1) * EraBytes - 1
  BY <1>1, <1>2, <1>3, <1>4
<1>6. (e * EraBytes) \div BlockSize <= x \div BlockSize
  BY <1>1, <1>2, <1>3, DivMonotone
<1>7. x \div BlockSize <= ((e + 1) * EraBytes - 1) \div BlockSize
  BY <1>1, <1>5, DivMonotone
<1>8. QED
  BY <1>6, <1>7 DEF Era!Overlaps, Era!EraOf, e

\* A byte written in or after an era is considered by a pass from that era.
LEMMA WrittenIsConsidered ==
    ASSUME NEW x \in Era!Bytes, NEW n, era[Era!EraOf(x)] >= n
    PROVE  \E i \in Era!WrittenSince(n) : Era!Holds(i, x)
<1>1. Era!EraOf(x) \in Era!EraBlocks
  BY DEF Era!EraBlocks
<1>2. x \div BlockSize \in Era!WrittenSince(n)
  BY <1>1, BlockOfByte, BlockOverlapsEra DEF Era!WrittenSince
<1>3. QED
  BY <1>2, BlockOfByte

-----------------------------------------------------------------------------
(***************************************************************************)
(* The type invariant.                                                     *)
(***************************************************************************)

\* The state of the target, the files and the pass keeps its type: an era that is kept
\* is a number read from the target, a candidate is a block of the device.
THEOREM EraTypeCorrect == Era!Spec => []Era!EraTypeOK
<1>1. Era!Init => Era!EraTypeOK
  <2>1. Era!Init => era \in [Era!EraBlocks -> Nat]
    BY DEF Era!Init
  <2>2. Era!Init => manifest \in BOOLEAN /\ held \in BOOLEAN
    BY DEF Era!Init
  <2>3. Era!Init => /\ stale \subseteq Era!Bytes /\ moved \subseteq Era!Bytes
                   /\ behind \subseteq Era!Bytes /\ imaged \in BOOLEAN
                   /\ cand \subseteq Era!Blocks /\ left \subseteq Era!Blocks
    BY DEF Era!Init
  <2>4. Era!Init => cur \in Nat /\ last \in Nat /\ obs \in Nat /\ step \in Era!Steps
    BY DEF Era!Init, Era!Steps
  <2>5. QED
    BY <2>1, <2>2, <2>3, <2>4 DEF Era!EraTypeOK
<1>2. Era!EraTypeOK /\ [Era!Next]_Era!vars => Era!EraTypeOK'
  <2> SUFFICES ASSUME Era!EraTypeOK, [Era!Next]_Era!vars PROVE Era!EraTypeOK'
    OBVIOUS
  <2> USE DEF Era!EraTypeOK, Era!Steps
  <2>1. ASSUME NEW x \in Era!Bytes, Era!SourceWrites(x) PROVE Era!EraTypeOK'
    BY <2>1 DEF Era!SourceWrites, Era!EraBlocks
  <2>2. CASE Era!OthersRoll
    BY <2>2 DEF Era!OthersRoll, Era!RollsOver, Era!kept, Era!pass, Era!source
  <2>0. CASE Era!Begins
    BY <2>0 DEF Era!Begins, Era!kernel, Era!kept
  <2>3. CASE Era!ConsidersAll
    BY <2>3 DEF Era!ConsidersAll, Era!Reads, Era!kernel, Era!kept, Era!source
  <2>4. CASE Era!TakesSnapshot
    <3>1. Era!WrittenSince(last) \subseteq Era!Blocks
      BY DEF Era!WrittenSince
    <3>2. QED
      BY <2>4, <3>1 DEF Era!TakesSnapshot, Era!RollsOver, Era!kept, Era!source
  <2>5. CASE Era!DropsSnapshot
    <3>1. CASE manifest /\ Era!Reads(cand, stale)
      BY <2>5, <3>1 DEF Era!DropsSnapshot, Era!Reads, Era!kept, Era!source
    <3>2. CASE ~manifest /\ Era!Reads(Era!Blocks, Era!Bytes)
      BY <2>5, <3>2 DEF Era!DropsSnapshot, Era!Reads, Era!kept, Era!source
    <3>3. CASE Era!Idle /\ UNCHANGED Era!kept
      BY <2>5, <3>3 DEF Era!DropsSnapshot, Era!Idle, Era!kept, Era!source
    <3>4. QED
      BY <2>5, <3>1, <3>2, <3>3 DEF Era!DropsSnapshot, Era!source
  <2>6. ASSUME NEW i \in Era!Blocks, Era!ReadsBlock(i) PROVE Era!EraTypeOK'
    BY <2>6 DEF Era!ReadsBlock, Era!kernel, Era!kept, Era!source
  <2>7. CASE Era!SavesManifest
    BY <2>7 DEF Era!SavesManifest, Era!kernel, Era!source
  <2>8. CASE Era!Observes
    BY <2>8 DEF Era!Observes, Era!kernel, Era!kept, Era!source
  <2>9. CASE Era!Rolls
    BY <2>9 DEF Era!Rolls, Era!RollsOver, Era!kept, Era!source
  <2>10. CASE Era!KeepsEra
    BY <2>10 DEF Era!KeepsEra, Era!Idle, Era!kernel
  <2>11. CASE Era!PassFails
    BY <2>11 DEF Era!PassFails, Era!Idle, Era!kernel, Era!kept, Era!source
  <2>12. CASE Era!LosesManifest
    BY <2>12 DEF Era!LosesManifest, Era!kernel, Era!pass, Era!source
  <2>13. CASE Era!LosesEra
    BY <2>13 DEF Era!LosesEra, Era!kernel, Era!pass, Era!source
  <2>14. CASE UNCHANGED Era!vars
    BY <2>14 DEF Era!vars, Era!kernel, Era!kept, Era!pass, Era!source
  <2>15. QED
    BY <2>0, <2>1, <2>2, <2>3, <2>4, <2>5, <2>6, <2>7, <2>8, <2>9, <2>10, <2>11, <2>12,
       <2>13, <2>14 DEF Era!Next
<1>3. QED
  BY <1>1, <1>2, PTL DEF Era!Spec

\* Era's blocks and bytes are those of EraState.
LEMMA SameGeometry ==
    /\ \A n : Era!WrittenSince(n) = WrittenSince(n)
    /\ \A i, x : Era!Holds(i, x) = Holds(i, x)
<1> USE DEF Era!Bytes, Bytes, Era!NumBlocks, NumBlocks, Era!BlockLen, BlockLen, Era!EraOf, EraOf
<1>1. Era!Blocks = Blocks /\ Era!EraBlocks = EraBlocks
  BY DEF Era!Blocks, Blocks, Era!EraBlocks, EraBlocks
<1>2. \A e, i : Era!Overlaps(e, i) = Overlaps(e, i)
  BY DEF Era!Overlaps, Overlaps
<1>3. QED
  BY <1>1, <1>2 DEF Era!WrittenSince, WrittenSince, Era!Holds, Holds

-----------------------------------------------------------------------------
(***************************************************************************)
(* No change is missed.                                                    *)
(***************************************************************************)

\* Bytes that were written in or after an era.
Since(n, xs) == \A x \in xs : era[Era!EraOf(x)] >= n

\* Bytes that are in one of some blocks, or were written in or after an era.
InOrSince(blocks, n, xs) ==
    \A x \in xs : (\E i \in blocks : Era!Holds(i, x)) \/ era[Era!EraOf(x)] >= n

\* No era is kept or observed before it began.
ErasBegun == last <= cur /\ obs <= cur

\* What differs from the manifest was written since the era that is kept,
SinceKept == manifest /\ last > 0 => Since(last, stale)

\* and through the pass is a candidate, is yet to be read, or was written since the
\* pass rolled the era over; the era observed behind the pass is no later than that.
ThroughPass ==
    /\ step = "snap" /\ manifest => InOrSince(cand, cur, stale)
    /\ step = "pass" => InOrSince(left, cur, moved)
    /\ step = "saved" => Since(cur, stale)
    /\ step \in {"observed", "rolled"} => Since(obs, stale)

\* What the snapshot that is read lacks was written since the rollover as well: what is
\* written before, while the tracker has yet to be asked, would be in an earlier era.
BehindImage ==
    /\ step = "idle" => ~imaged /\ behind = {}
    /\ step = "begun" /\ last > 0 => behind = {}
    /\ step \in {"begun", "snap", "pass"} => Since(cur, behind)

Tracked == ErasBegun /\ SinceKept /\ ThroughPass /\ BehindImage

\* A byte the source writes was written in any era that has begun; what was written
\* since an era still was.
LEMMA WritingKeepsSince ==
    ASSUME Era!EraTypeOK, NEW x \in Era!Bytes, Era!SourceWrites(x),
           NEW y \in Era!Bytes, NEW n \in Nat, n <= cur,
           y = x \/ era[Era!EraOf(y)] >= n
    PROVE  era'[Era!EraOf(y)] >= n
<1>1. Era!EraOf(x) \in Era!EraBlocks /\ Era!EraOf(y) \in Era!EraBlocks
  BY DEF Era!EraBlocks
<1>2. era \in [Era!EraBlocks -> Nat] /\ cur \in Nat /\ era' = [era EXCEPT ![Era!EraOf(x)] = cur]
  BY DEF Era!EraTypeOK, Era!SourceWrites
<1>3. CASE Era!EraOf(y) = Era!EraOf(x)
  BY <1>1, <1>2, <1>3
<1>4. CASE Era!EraOf(y) # Era!EraOf(x)
  BY <1>1, <1>2, <1>4
<1>5. QED
  BY <1>3, <1>4

LEMMA TrackedInductive ==
    ASSUME Era!EraTypeOK, Tracked, ~MayRollMidPass, ~MayWriteBetween, [Era!Next]_Era!vars
    PROVE  Tracked'
<1> USE DEF Tracked, ErasBegun, SinceKept, ThroughPass, BehindImage, Since, InOrSince
<1>0. /\ cur \in Nat /\ last \in Nat /\ obs \in Nat
      /\ era \in [Era!EraBlocks -> Nat]
      /\ \A x \in Era!Bytes : Era!EraOf(x) \in Era!EraBlocks /\ era[Era!EraOf(x)] \in Nat
      /\ stale \subseteq Era!Bytes /\ moved \subseteq Era!Bytes /\ behind \subseteq Era!Bytes
  <2>1. \A x \in Era!Bytes : Era!EraOf(x) \in Era!EraBlocks
    BY DEF Era!EraBlocks
  <2>2. QED
    BY <2>1 DEF Era!EraTypeOK
<1>1. ASSUME NEW x \in Era!Bytes, Era!SourceWrites(x) PROVE Tracked'
  <2>1. /\ stale' = stale \cup {x} /\ moved' \subseteq moved \cup {x}
        /\ behind' \subseteq behind \cup {x}
        /\ UNCHANGED <<cur, manifest, last, step, imaged, cand, left, obs>>
    BY <1>1 DEF Era!SourceWrites
  <2>2. ErasBegun'
    BY <2>1
  <2>3. SinceKept'
    BY <1>0, <1>1, <2>1, WritingKeepsSince
  <2>4. step = "snap" /\ manifest => InOrSince(cand, cur, stale)'
    BY <1>0, <1>1, <2>1, WritingKeepsSince
  <2>5. step = "pass" => InOrSince(left, cur, moved)'
    BY <1>0, <1>1, <2>1, WritingKeepsSince
  <2>6. step = "saved" => Since(cur, stale)'
    BY <1>0, <1>1, <2>1, WritingKeepsSince
  <2>7. step \in {"observed", "rolled"} => Since(obs, stale)'
    BY <1>0, <1>1, <2>1, WritingKeepsSince
  <2>8. /\ step = "idle" => behind' = {}
        /\ step = "begun" /\ last > 0 => behind' = {}
    BY <1>1 DEF Era!SourceWrites
  <2>9. step \in {"begun", "snap", "pass"} => Since(cur, behind)'
    BY <1>0, <1>1, <2>1, WritingKeepsSince
  <2>10. QED
    BY <2>1, <2>2, <2>3, <2>4, <2>5, <2>6, <2>7, <2>8, <2>9
\* Nothing but the agent rolls the era over while a pass runs.
<1>2. CASE Era!OthersRoll
  BY <1>0, <1>2 DEF Era!OthersRoll, Era!RollsOver, Era!kept, Era!pass, Era!source
\* A snapshot that has just been taken lacks nothing.
<1>15. CASE Era!Begins
  BY <1>0, <1>15 DEF Era!Begins, Era!kernel, Era!kept
\* A pass with no era to start from reads every block.
<1>3. CASE Era!ConsidersAll
  <2>1. \A x \in Era!Bytes : \E i \in Era!Blocks : Era!Holds(i, x)
    BY BlockOfByte
  <2>2. QED
    BY <1>0, <1>3, <2>1 DEF Era!ConsidersAll, Era!Reads, Era!kernel, Era!kept, Era!source
\* What was written since the kept era is a candidate.
<1>4. CASE Era!TakesSnapshot
  <2>1. manifest => \A x \in stale : \E i \in Era!WrittenSince(last) : Era!Holds(i, x)
    BY <1>0, <1>4, WrittenIsConsidered DEF Era!TakesSnapshot, Era!source
  <2>2. QED
    BY <1>0, <1>4, <2>1 DEF Era!TakesSnapshot, Era!RollsOver, Era!kept, Era!source
<1>5. CASE Era!DropsSnapshot
  <2>1. \A x \in Era!Bytes : \E i \in Era!Blocks : Era!Holds(i, x)
    BY BlockOfByte
  <2>2. CASE manifest /\ Era!Reads(cand, stale)
    BY <1>0, <1>5, <2>2 DEF Era!DropsSnapshot, Era!Reads, Era!kept, Era!source
  <2>3. CASE ~manifest /\ Era!Reads(Era!Blocks, Era!Bytes)
    BY <1>0, <1>5, <2>1, <2>3 DEF Era!DropsSnapshot, Era!Reads, Era!kept, Era!source
  <2>4. CASE Era!Idle /\ UNCHANGED Era!kept
    BY <1>0, <1>5, <2>4 DEF Era!DropsSnapshot, Era!Idle, Era!kept, Era!source
  <2>5. QED
    BY <1>5, <2>2, <2>3, <2>4 DEF Era!DropsSnapshot, Era!source
\* A byte of a block that has been read is no longer moved.
<1>6. ASSUME NEW i \in Era!Blocks, Era!ReadsBlock(i) PROVE Tracked'
  BY <1>0, <1>6 DEF Era!ReadsBlock, Era!kernel, Era!kept, Era!source
<1>7. CASE Era!SavesManifest
  <2>1. \A x \in moved : era[Era!EraOf(x)] >= cur
    BY <1>7 DEF Era!SavesManifest, Era!source
  <2>2. \A x \in moved : era[Era!EraOf(x)] >= last
    BY <1>0, <2>1
  <2>3. QED
    BY <1>0, <1>7, <2>1, <2>2 DEF Era!SavesManifest, Era!kernel, Era!source
<1>8. CASE Era!Observes
  BY <1>0, <1>8 DEF Era!Observes, Era!kernel, Era!kept, Era!source
<1>9. CASE Era!Rolls
  BY <1>0, <1>9 DEF Era!Rolls, Era!RollsOver, Era!kept, Era!source
<1>10. CASE Era!KeepsEra
  BY <1>0, <1>10 DEF Era!KeepsEra, Era!Idle, Era!kernel
<1>11. CASE Era!PassFails
  BY <1>0, <1>11 DEF Era!PassFails, Era!Idle, Era!kernel, Era!kept, Era!source
<1>12. CASE Era!LosesManifest
  BY <1>0, <1>12 DEF Era!LosesManifest, Era!kernel, Era!pass, Era!source
<1>13. CASE Era!LosesEra
  BY <1>0, <1>13 DEF Era!LosesEra, Era!kernel, Era!pass, Era!source
<1>14. CASE UNCHANGED Era!vars
  BY <1>14 DEF Era!vars, Era!kernel, Era!kept, Era!pass, Era!source
<1>16. QED
  BY <1>1, <1>2, <1>3, <1>4, <1>5, <1>6, <1>7, <1>8, <1>9, <1>10, <1>11, <1>12,
     <1>13, <1>14, <1>15 DEF Era!Next

LEMMA AlwaysTracked ==
    ASSUME ~MayRollMidPass, ~MayWriteBetween
    PROVE  Era!Spec => []Tracked
<1>1. Era!Init => Tracked
  BY DEF Era!Init, Tracked, ErasBegun, SinceKept, ThroughPass, BehindImage, Since
<1>2. Era!EraTypeOK /\ Tracked /\ [Era!Next]_Era!vars => Tracked'
  BY TrackedInductive
<1>3. QED
  BY <1>1, <1>2, EraTypeCorrect, PTL DEF Era!Spec

\* Whatever differs from the manifest is read by the next pass, for every size of
\* device, block and era block, and whatever fails between the pass, the manifest and
\* the kept era: provided that nothing but the agent rolls the era over during a pass,
\* and nothing is written between the LVM snapshot a pass reads and its candidates.
THEOREM EraNoChangeMissed ==
    ASSUME ~MayRollMidPass, ~MayWriteBetween
    PROVE  Era!Spec => []NoChangeMissed
<1>1. Era!EraTypeOK /\ Tracked => NoChangeMissed
  <2> SUFFICES ASSUME Era!EraTypeOK, Tracked, manifest, last > 0, NEW x \in stale
               PROVE  \E i \in Era!WrittenSince(last) : Era!Holds(i, x)
    BY SameGeometry DEF NoChangeMissed, Considered
  <2>1. x \in Era!Bytes /\ era[Era!EraOf(x)] >= last
    BY DEF Era!EraTypeOK, Tracked, SinceKept, Since
  <2>2. QED
    BY <2>1, WrittenIsConsidered
<1>2. QED
  BY <1>1, EraTypeCorrect, AlwaysTracked, PTL

-----------------------------------------------------------------------------
(***************************************************************************)
(* A pass over a snapshot leaves the snapshot's instant.                   *)
(***************************************************************************)

\* Bytes that the snapshot lacks, or that are in one of some blocks.
BehindOrIn(blocks, xs) == \A x \in xs : x \in behind \/ \E i \in blocks : Era!Holds(i, x)

\* What the snapshot lacks differs from what is hashed, and is all that will, once the
\* candidates have been read.
ImageRead ==
    imaged =>
        /\ step \in {"begun", "snap"} => behind \subseteq stale
        /\ step = "snap" /\ manifest => BehindOrIn(cand, stale)
        /\ step = "pass" => behind \subseteq moved /\ BehindOrIn(left, moved)
        /\ step \in {"saved", "observed", "rolled"} => stale = behind

LEMMA ImageReadInductive ==
    ASSUME Era!EraTypeOK, Tracked, ImageRead, [Era!Next]_Era!vars
    PROVE  ImageRead'
<1> USE DEF ImageRead, BehindOrIn
<1>0. /\ stale \subseteq Era!Bytes /\ moved \subseteq Era!Bytes /\ behind \subseteq Era!Bytes
      /\ step \in Era!Steps
      /\ \A x \in Era!Bytes : \E i \in Era!Blocks : Era!Holds(i, x)
  BY BlockOfByte DEF Era!EraTypeOK
<1>1. ASSUME NEW x \in Era!Bytes, Era!SourceWrites(x) PROVE ImageRead'
  BY <1>1 DEF Era!SourceWrites
<1>2. CASE Era!OthersRoll
  BY <1>2 DEF Era!OthersRoll, Era!kept, Era!pass, Era!source
<1>3. CASE Era!Begins
  BY <1>3 DEF Era!Begins, Era!kept, Tracked, BehindImage
<1>4. CASE Era!ConsidersAll
  BY <1>0, <1>4 DEF Era!ConsidersAll, Era!Reads, Era!kept, Era!source
\* What differs was written since the kept era, so it is a candidate.
<1>5. CASE Era!TakesSnapshot
  <2>1. manifest => \A x \in stale : \E i \in Era!WrittenSince(last) : Era!Holds(i, x)
    BY <1>0, <1>5, WrittenIsConsidered DEF Era!TakesSnapshot, Tracked, SinceKept, Since
  <2>2. QED
    BY <1>5, <2>1 DEF Era!TakesSnapshot, Era!kept, Era!source
<1>6. CASE Era!DropsSnapshot
  <2>1. CASE manifest /\ Era!Reads(cand, stale)
    BY <1>6, <2>1 DEF Era!DropsSnapshot, Era!Reads, Era!kept, Era!source
  <2>2. CASE ~manifest /\ Era!Reads(Era!Blocks, Era!Bytes)
    BY <1>0, <1>6, <2>2 DEF Era!DropsSnapshot, Era!Reads, Era!kept, Era!source
  <2>3. CASE Era!Idle /\ UNCHANGED Era!kept
    BY <2>3 DEF Era!Idle
  <2>4. QED
    BY <1>6, <2>1, <2>2, <2>3 DEF Era!DropsSnapshot
\* A block is left with what the snapshot lacks of it, and nothing else.
<1>7. ASSUME NEW i \in Era!Blocks, Era!ReadsBlock(i) PROVE ImageRead'
  BY <1>7 DEF Era!ReadsBlock, Era!kept, Era!source
<1>8. CASE Era!SavesManifest
  BY <1>8 DEF Era!SavesManifest, Era!source
<1>9. CASE Era!Observes
  BY <1>9 DEF Era!Observes, Era!kept, Era!source
<1>10. CASE Era!Rolls
  BY <1>10 DEF Era!Rolls, Era!kept, Era!source
<1>11. CASE Era!KeepsEra \/ Era!PassFails
  BY <1>11 DEF Era!KeepsEra, Era!PassFails, Era!Idle
<1>12. CASE Era!LosesManifest \/ Era!LosesEra
  BY <1>12 DEF Era!LosesManifest, Era!LosesEra, Era!pass, Era!source
<1>13. CASE UNCHANGED Era!vars
  BY <1>13 DEF Era!vars, Era!kept, Era!pass, Era!source
<1>14. QED
  BY <1>1, <1>2, <1>3, <1>4, <1>5, <1>6, <1>7, <1>8, <1>9, <1>10, <1>11, <1>12, <1>13
     DEF Era!Next

\* A pass that has read an LVM snapshot has left the target at the snapshot's instant,
\* having read the candidates only, for every size of device, block and era block: under
\* the two provisos of EraNoChangeMissed.
THEOREM EraPassIsItsImage ==
    ASSUME ~MayRollMidPass, ~MayWriteBetween
    PROVE  Era!Spec => []PassIsItsImage
<1>1. Era!Init => ImageRead
  BY DEF Era!Init, ImageRead
<1>2. Era!EraTypeOK /\ Tracked /\ ImageRead /\ [Era!Next]_Era!vars => ImageRead'
  BY ImageReadInductive
<1>3. ImageRead => PassIsItsImage
  BY DEF ImageRead, PassIsItsImage
<1>4. QED
  BY <1>1, <1>2, <1>3, EraTypeCorrect, AlwaysTracked, PTL DEF Era!Spec
=============================================================================
