------------------------- MODULE SourceCheckProofs -------------------------
(***************************************************************************)
(* What is proved of SourceCheck, for any tokens, runs, probe ports and    *)
(* sources: its type invariant, that both copies of the rules give one     *)
(* verdict, that a port reported blocked was blocked, and that no probe    *)
(* listener outlives its check.                                            *)
(***************************************************************************)
EXTENDS SourceCheck, TLAPS

---------------------------------------------------------------------------
(***************************************************************************)
(* The two copies of the rules.                                            *)
(***************************************************************************)

\* The console looks at every disk, the script at the largest that is not
\* ephemeral and at the list of the ephemeral ones: the same severities.
LEMMA DisksAgree ==
  ASSUME NEW f, NEW method
  PROVE  UNION {DiskRule(d, method) : d \in f.disks}
           = When(LargestIsHuge(f), IF method = "volume" THEN "fail" ELSE "warn")
               \cup When(\E d \in f.disks : d.ephemeral, "warn")
  BY DEF DiskRule, When, LargestIsHuge

\* The look at the root filesystem, in the order of either copy.
LEMMA RootAgrees ==
  ASSUME NEW f, f.luks \in BOOLEAN
  PROVE  RootRule(f) = ScriptRoot(f)
  BY DEF RootRule, ScriptRoot

\* The verdicts agree on any facts at all, whatever the disks.
LEMMA RulesAgree ==
  ASSUME NEW f, f.luks \in BOOLEAN
  PROVE  AssessSource(f) = ScriptVerdict(f)
<1> SUFFICES ASSUME NEW method \in Methods
             PROVE  AssessSource(f)[method] = ScriptVerdict(f)[method]
  BY DEF AssessSource, ScriptVerdict
<1> DEFINE before == When(~f.x86, "fail") \cup When(~f.osKnown, "warn")
                       \cup When(~f.systemd, "warn") \cup When(f.reach = "blocked", "warn")
           size   == When(LargestIsHuge(f), IF method = "volume" THEN "fail" ELSE "warn")
           eph    == When(\E d \in f.disks : d.ephemeral, "warn")
           raid   == When(f.raid, "warn")
           table  == When(f.table \in {"gpt", "dos"} /\ ~f.mbr, "warn")
           efi    == When(f.efi /\ ~f.mbr, "warn")
           kind   == When(f.kind \notin {"", "grub", "unknown", "none"}, "warn")
<1>1. AssessSource(f)[method] =
        Worst(before \cup RootRule(f) \cup raid \cup BootRules(f)
                \cup UNION {DiskRule(d, method) : d \in f.disks})
  BY DEF AssessSource
<1>2. ScriptVerdict(f)[method] =
        Worst(before \cup ScriptRoot(f) \cup raid \cup table \cup efi \cup kind \cup size \cup eph)
  BY DEF ScriptVerdict
<1>3. BootRules(f) = table \cup efi \cup kind
  BY DEF BootRules
<1>4. RootRule(f) = ScriptRoot(f)
  BY RootAgrees
<1>5. UNION {DiskRule(d, method) : d \in f.disks} = size \cup eph
  BY DisksAgree
<1> HIDE DEF before, size, eph, raid, table, efi, kind
<1>6. before \cup ScriptRoot(f) \cup raid \cup (table \cup efi \cup kind) \cup (size \cup eph)
        = before \cup ScriptRoot(f) \cup raid \cup table \cup efi \cup kind \cup size \cup eph
  OBVIOUS
<1> QED  BY <1>1, <1>2, <1>3, <1>4, <1>5, <1>6

---------------------------------------------------------------------------
(***************************************************************************)
(* Types.                                                                  *)
(***************************************************************************)

LEMMA VerdictTypes ==
  ASSUME NEW f  PROVE  ScriptVerdict(f) \in Said
<1>1. ASSUME NEW S PROVE Worst(S) \in Verdicts
  BY DEF Worst, Verdicts
<1>2. PICK severities : ScriptVerdict(f) = [method \in Methods |-> Worst(severities[method])]
  <2> DEFINE severities == [method \in Methods |->
         When(~f.x86, "fail") \cup When(~f.osKnown, "warn") \cup When(~f.systemd, "warn")
           \cup When(f.reach = "blocked", "warn") \cup ScriptRoot(f) \cup When(f.raid, "warn")
           \cup When(f.table \in {"gpt", "dos"} /\ ~f.mbr, "warn")
           \cup When(f.efi /\ ~f.mbr, "warn")
           \cup When(f.kind \notin {"", "grub", "unknown", "none"}, "warn")
           \cup When(LargestIsHuge(f), IF method = "volume" THEN "fail" ELSE "warn")
           \cup When(\E d \in f.disks : d.ephemeral, "warn")]
  <2>1. ScriptVerdict(f) = [method \in Methods |-> Worst(severities[method])]
    BY DEF ScriptVerdict
  <2> QED  BY <2>1
<1> QED  BY <1>1, <1>2 DEF Said

\* What the script finds and says is what the types allow.
LEMMA FoundTypes ==
  ASSUME NEW p, source \in Machines
  PROVE  /\ Gathers(source, Reach(p)) \in Found
         /\ ScriptVerdict(Gathers(source, Reach(p))) \in Said
<1>1. Reach(p) \in Reaches
  BY DEF Reach, Reaches
<1>2. Gathers(source, Reach(p)) \in Found
  BY <1>1 DEF Found
<1> QED  BY <1>2, VerdictTypes

LEMMA InitTypes == Init => TypeOK
  BY DEF Init, TypeOK, CheckState, RunStep

\* Dropping tokens keeps the types, whichever they are.
LEMMA DropsTypes ==
  ASSUME TypeOK, NEW cs, Drops(cs)
  PROVE  /\ state' \in [Checks -> CheckState]
         /\ report' \in [Checks -> Found \cup {None}]
         /\ probeLn' \in [Checks -> BOOLEAN]
<1>1. state' \in [Checks -> CheckState]
  BY DEF Drops, TypeOK, CheckState
<1>2. report' \in [Checks -> Found \cup {None}]
  BY DEF Drops, TypeOK
<1>3. probeLn' \in [Checks -> BOOLEAN]
  BY DEF Drops, TypeOK
<1> QED  BY <1>1, <1>2, <1>3

LEMMA NextTypes == TypeOK /\ [Next]_vars => TypeOK'
<1> SUFFICES ASSUME TypeOK, [Next]_vars PROVE TypeOK'
  OBVIOUS
<1> USE DEF TypeOK, run, outside, check
<1>1. ASSUME NEW c \in Checks, CreatesCheck(c) PROVE TypeOK'
  <2>1. FreePorts \subseteq ProbePorts
    BY DEF FreePorts
  <2>2. CASE UNCHANGED <<probePort, probeLn>>
    BY <1>1, <2>2 DEF CreatesCheck, CheckState
  <2>3. ASSUME NEW p \in FreePorts, probePort' = [probePort EXCEPT ![c] = p],
               probeLn' = [probeLn EXCEPT ![c] = TRUE]
        PROVE  TypeOK'
    BY <1>1, <2>1, <2>3 DEF CreatesCheck, CheckState
  <2> QED  BY <1>1, <2>2, <2>3 DEF CreatesCheck
<1>2. ASSUME NEW c \in Checks, Expires(c) PROVE TypeOK'
  BY <1>2, DropsTypes DEF Expires
<1>3. CASE Restart
  BY <1>3, DropsTypes DEF Restart
<1>4. ASSUME NEW r \in Runs, NEW c \in Checks, Fetches(r, c) PROVE TypeOK'
  BY <1>4 DEF Fetches, RunStep
<1>5. ASSUME NEW r \in Runs, Prints(r) PROVE TypeOK'
  <2> DEFINE f == Gathers(source, Reach(dials[r]))
             live == state[token[r]] = "live" /\ report[token[r]] = None
  <2>1. f \in Found /\ ScriptVerdict(f) \in Said
    BY FoundTypes
  <2>2. live \in BOOLEAN
    OBVIOUS
  <2>3. /\ step'  = [step EXCEPT ![r] = "printed"]
        /\ found' = [found EXCEPT ![r] = f]
        /\ said'  = [said EXCEPT ![r] = ScriptVerdict(f)]
        /\ fresh' = [fresh EXCEPT ![r] = live]
        /\ pathOpen' = [pathOpen EXCEPT ![r] = path]
        /\ UNCHANGED <<check, token, dials, outside>>
    BY <1>5 DEF Prints
  <2> HIDE DEF f, live
  <2> QED  BY <2>1, <2>2, <2>3 DEF RunStep
<1>6. ASSUME NEW r \in Runs, Posts(r) PROVE TypeOK'
  BY <1>6 DEF Posts, RunStep
<1>7. ASSUME NEW r \in Runs, Undelivered(r) PROVE TypeOK'
  BY <1>7 DEF Undelivered, RunStep
<1>8. CASE Firewall
  BY <1>8 DEF Firewall
<1>9. CASE UNCHANGED vars
  BY <1>9 DEF vars
<1> QED  BY <1>1, <1>2, <1>3, <1>4, <1>5, <1>6, <1>7, <1>8, <1>9 DEF Next

\* Every reachable state of the source check is well typed.
THEOREM SourceCheckTypeCorrect == Spec => []TypeOK
  BY InitTypes, NextTypes, PTL DEF Spec

---------------------------------------------------------------------------
(***************************************************************************)
(* Two verdicts on the same facts.                                         *)
(***************************************************************************)

\* What a run printed is the script's verdict on what it found, and what a
\* token's report shows is what a run that is over has printed.
Printed ==
  /\ \A r \in Runs : said[r] # None => found[r] \in Found /\ said[r] = ScriptVerdict(found[r])
  /\ \A r \in Runs : step[r] \in {"printed", "over"} => said[r] # None
  /\ \A c \in Checks : report[c] # None =>
       \E r \in Runs : step[r] = "over" /\ token[r] = c /\ found[r] = report[c]

\* The root filesystem is looked at behind a Boolean, on every source.
LEMMA FoundLuks ==
  ASSUME NEW f \in Found PROVE f.luks \in BOOLEAN
<1>1. PICK m \in Machines, reach \in Reaches : f = Gathers(m, reach)
  BY DEF Found
<1>2. f.luks = (m.root # "none" /\ m.luks)
  BY <1>1 DEF Gathers
<1>3. (m.root # "none" /\ m.luks) \in BOOLEAN
  BY Zenon
<1> QED  BY <1>2, <1>3, Zenon

LEMMA PrintedInit == Init => Printed
  BY DEF Init, Printed

LEMMA PrintedNext == TypeOK /\ Printed /\ [Next]_vars => Printed'
<1> SUFFICES ASSUME TypeOK, Printed, [Next]_vars PROVE Printed'
  OBVIOUS
<1> USE DEF Printed, run, check, outside
<1>0. TypeOK'
  BY NextTypes
<1>1. ASSUME UNCHANGED run,
             \A c \in Checks : report'[c] # None => report'[c] = report[c]
      PROVE  Printed'
  BY <1>1
<1>2. ASSUME NEW c \in Checks, CreatesCheck(c) PROVE Printed'
  BY <1>2, <1>1 DEF CreatesCheck
<1>3. ASSUME NEW cs, Drops(cs), UNCHANGED run PROVE Printed'
  BY <1>3, <1>1 DEF Drops
<1>4. ASSUME NEW r \in Runs, NEW c \in Checks, Fetches(r, c) PROVE Printed'
  <2>1. /\ step' = [step EXCEPT ![r] = "fetched"] /\ token' = [token EXCEPT ![r] = c]
        /\ step[r] = "idle" /\ UNCHANGED <<report, found, said>>
    BY <1>4 DEF Fetches
  <2> QED  BY <2>1 DEF TypeOK
<1>5. ASSUME NEW r \in Runs, Prints(r) PROVE Printed'
  <2> DEFINE f == Gathers(source, Reach(dials[r]))
  <2>1. f \in Found /\ ScriptVerdict(f) \in Said
    BY FoundTypes DEF TypeOK
  <2>2. /\ step[r] = "fetched"
        /\ step'  = [step EXCEPT ![r] = "printed"]
        /\ found' = [found EXCEPT ![r] = f]
        /\ said'  = [said EXCEPT ![r] = ScriptVerdict(f)]
        /\ UNCHANGED <<token, report>>
    BY <1>5 DEF Prints
  <2> HIDE DEF f
  <2> QED  BY <2>1, <2>2, NoneAssumption DEF TypeOK
<1>6. ASSUME NEW r \in Runs, Posts(r) PROVE Printed'
  <2>1. /\ step[r] = "printed" /\ step' = [step EXCEPT ![r] = "over"]
        /\ report' = [report EXCEPT ![token[r]] = found[r]]
        /\ UNCHANGED <<token, found, said>>
    BY <1>6 DEF Posts
  <2> QED  BY <2>1 DEF TypeOK
<1>7. ASSUME NEW r \in Runs, Undelivered(r) PROVE Printed'
  BY <1>7 DEF Undelivered, TypeOK
<1>8. CASE Firewall
  BY <1>8, <1>1 DEF Firewall
<1>9. CASE UNCHANGED vars
  BY <1>9, <1>1 DEF vars
<1> QED  BY <1>2, <1>3, <1>4, <1>5, <1>6, <1>7, <1>8, <1>9 DEF Next, Expires, Restart

\* On any source, with any disks, the console shows the verdict the terminal did.
THEOREM SourceCheckVerdictsAgree == Spec => []VerdictsAgree
<1>1. Printed => VerdictsAgree
  <2> SUFFICES ASSUME Printed PROVE VerdictsAgree
    OBVIOUS
  <2>1. ASSUME NEW f \in Found PROVE AssessSource(f) = ScriptVerdict(f)
    BY RulesAgree, FoundLuks
  <2> QED  BY <2>1 DEF Printed, VerdictsAgree
<1> QED  BY <1>1, InitTypes, NextTypes, PrintedInit, PrintedNext, PTL DEF Spec

---------------------------------------------------------------------------
(***************************************************************************)
(* The probe listeners.                                                    *)
(***************************************************************************)

\* A live token without a report still has the listener its script dials.
Armed ==
  /\ \A c \in Checks : state[c] = "live" /\ report[c] = None => probePort[c] = 0 \/ probeLn[c]
  /\ \A c \in Checks : state[c] = "unused" => report[c] = None /\ ~probeLn[c] /\ probePort[c] = 0
  /\ \A r \in Runs : step[r] = "fetched" =>
       token[r] \in Checks /\ state[token[r]] # "unused" /\ dials[r] = probePort[token[r]]
  /\ \A r \in Runs : step[r] \in {"printed", "over"} => found[r] \in Found

LEMMA ListenersInit == Init => Armed /\ ListenersOwned /\ BlockedIsBlocked
  BY DEF Init, Armed, ListenersOwned, BlockedIsBlocked

LEMMA ListenersNext ==
  TypeOK /\ Armed /\ ListenersOwned /\ [Next]_vars => Armed' /\ ListenersOwned'
<1> SUFFICES ASSUME TypeOK, Armed, ListenersOwned, [Next]_vars
             PROVE  Armed' /\ ListenersOwned'
  OBVIOUS
<1> USE DEF Armed, run, check, outside
<1>1. ASSUME NEW c \in Checks, CreatesCheck(c) PROVE Armed' /\ ListenersOwned'
  <2>1. /\ state[c] = "unused" /\ state' = [state EXCEPT ![c] = "live"]
        /\ UNCHANGED <<report, step, token, dials, found, taken>>
    BY <1>1 DEF CreatesCheck
  <2>2. CASE UNCHANGED <<probePort, probeLn>>
    <3>1. Armed'
      BY <2>1, <2>2 DEF TypeOK
    <3>2. ListenersOwned'
      BY <2>1, <2>2 DEF TypeOK, ListenersOwned
    <3> QED  BY <3>1, <3>2
  <2>3. ASSUME NEW p \in FreePorts, probePort' = [probePort EXCEPT ![c] = p],
               probeLn' = [probeLn EXCEPT ![c] = TRUE]
        PROVE  Armed' /\ ListenersOwned'
    <3>1. p \in ProbePorts \ taken /\ \A d \in Checks : probeLn[d] => probePort[d] # p
      BY DEF FreePorts, Listening
    <3>2. Armed'
      BY <2>1, <2>3 DEF TypeOK
    <3>3. ListenersOwned'
      BY <2>1, <2>3, <3>1 DEF TypeOK, ListenersOwned
    <3> QED  BY <3>2, <3>3
  <2> QED  BY <1>1, <2>2, <2>3 DEF CreatesCheck
<1>2. ASSUME NEW cs, \A c \in Checks : c \in cs => state[c] = "live",
             Drops(cs), UNCHANGED <<probePort, run, outside>>
      PROVE  Armed' /\ ListenersOwned'
  <2>1. Armed'
    BY <1>2 DEF Drops, TypeOK
  <2>2. ListenersOwned'
    BY <1>2 DEF Drops, ListenersOwned
  <2> QED  BY <2>1, <2>2
<1>3. ASSUME NEW c \in Checks, Expires(c) PROVE Armed' /\ ListenersOwned'
  BY <1>3, <1>2 DEF Expires
<1>4. CASE Restart
  BY <1>4, <1>2 DEF Restart
<1>5. ASSUME NEW r \in Runs, NEW c \in Checks, Fetches(r, c) PROVE Armed' /\ ListenersOwned'
  <2>1. Armed'
    BY <1>5 DEF Fetches, TypeOK
  <2>2. ListenersOwned'
    BY <1>5 DEF Fetches, ListenersOwned
  <2> QED  BY <2>1, <2>2
<1>6. ASSUME NEW r \in Runs, Prints(r) PROVE Armed' /\ ListenersOwned'
  <2> DEFINE f == Gathers(source, Reach(dials[r]))
  <2>1. f \in Found
    BY FoundTypes DEF TypeOK
  <2>2. /\ step'  = [step EXCEPT ![r] = "printed"]
        /\ found' = [found EXCEPT ![r] = f]
        /\ UNCHANGED <<check, token, dials, taken>>
    BY <1>6 DEF Prints
  <2> HIDE DEF f
  <2>3. Armed'
    BY <2>1, <2>2 DEF TypeOK
  <2>4. ListenersOwned'
    BY <2>2 DEF ListenersOwned
  <2> QED  BY <2>3, <2>4
<1>7. ASSUME NEW r \in Runs, Posts(r) PROVE Armed' /\ ListenersOwned'
  <2>1. /\ step[r] = "printed" /\ step' = [step EXCEPT ![r] = "over"]
        /\ state[token[r]] = "live"
        /\ report' = [report EXCEPT ![token[r]] = found[r]]
        /\ probeLn' = [probeLn EXCEPT ![token[r]] = FALSE]
        /\ UNCHANGED <<state, probePort, token, dials, found, taken>>
    BY <1>7 DEF Posts
  <2>2. found[r] # None
    BY <2>1, NoneAssumption
  <2>3. Armed'
    BY <2>1, <2>2 DEF TypeOK
  <2>4. ListenersOwned'
    BY <2>1 DEF TypeOK, ListenersOwned
  <2> QED  BY <2>3, <2>4
<1>8. ASSUME NEW r \in Runs, Undelivered(r) PROVE Armed' /\ ListenersOwned'
  <2>1. Armed'
    BY <1>8 DEF Undelivered, TypeOK
  <2>2. ListenersOwned'
    BY <1>8 DEF Undelivered, ListenersOwned
  <2> QED  BY <2>1, <2>2
<1>9. CASE Firewall
  BY <1>9 DEF Firewall, ListenersOwned
<1>10. CASE UNCHANGED vars
  BY <1>10 DEF vars, ListenersOwned
<1> QED  BY <1>1, <1>3, <1>4, <1>5, <1>6, <1>7, <1>8, <1>9, <1>10 DEF Next

\* No probe listener outlives its check, and none shares a port.
THEOREM SourceCheckListenersOwned == Spec => []ListenersOwned
  BY InitTypes, NextTypes, ListenersInit, ListenersNext, PTL DEF Spec

\* A probe on a live token without a report reads as blocked behind a closed
\* path only.
LEMMA BlockedNext ==
  TypeOK /\ Armed /\ BlockedIsBlocked /\ [Next]_vars => BlockedIsBlocked'
<1> SUFFICES ASSUME TypeOK, Armed, BlockedIsBlocked, [Next]_vars PROVE BlockedIsBlocked'
  OBVIOUS
<1> USE DEF BlockedIsBlocked, run, check, outside
<1>1. ASSUME UNCHANGED <<found, fresh, pathOpen>> PROVE BlockedIsBlocked'
  BY <1>1
<1>2. ASSUME NEW r \in Runs, Prints(r) PROVE BlockedIsBlocked'
  <2> DEFINE f == Gathers(source, Reach(dials[r]))
             live == state[token[r]] = "live" /\ report[token[r]] = None
  <2>1. /\ found' = [found EXCEPT ![r] = f]
        /\ fresh' = [fresh EXCEPT ![r] = live]
        /\ pathOpen' = [pathOpen EXCEPT ![r] = path]
        /\ step[r] = "fetched"
    BY <1>2 DEF Prints
  <2>2. f.reach = Reach(dials[r])
    BY DEF Gathers
  <2>3. live /\ Reach(dials[r]) = "blocked" => ~path
    <3>1. token[r] \in Checks /\ dials[r] = probePort[token[r]]
      BY <2>1 DEF Armed
    <3>2. live /\ dials[r] # 0 => Listening(dials[r])
      BY <3>1 DEF Armed, Listening
    <3> QED  BY <3>2 DEF Reach
  <2>4. live \in BOOLEAN /\ path \in BOOLEAN
    BY DEF TypeOK
  <2> HIDE DEF f, live
  <2> QED  BY <2>1, <2>2, <2>3, <2>4 DEF TypeOK
<1> QED  BY <1>1, <1>2 DEF Next, vars, CreatesCheck, Expires, Restart, Fetches, Posts,
                           Undelivered, Firewall

\* A port reported blocked, on a live token that has no report, was blocked.
THEOREM SourceCheckBlockedIsBlocked == Spec => []BlockedIsBlocked
  BY InitTypes, NextTypes, ListenersInit, ListenersNext, BlockedNext, PTL DEF Spec

=============================================================================
