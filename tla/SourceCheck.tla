---------------------------- MODULE SourceCheck ----------------------------
(***************************************************************************)
(* The source check of internal/appliance/sourcecheck.go: the console      *)
(* mints a token and opens a throwaway probe listener, the operator runs a *)
(* one-line script on the source, the script reads facts, tries the probe  *)
(* port, prints a verdict of its own and posts the facts, and the console  *)
(* judges the same facts again.  One source, looked at by several runs of  *)
(* the command, across expiry, restarts of the appliance and a firewall    *)
(* that is opened between two runs.                                        *)
(***************************************************************************)
EXTENDS Integers, FiniteSets, FiniteSetsExt

CONSTANTS Checks,        \* tokens the console mints
          Runs,          \* executions of the command on the source
          ProbePorts,    \* the top ports of the receiver range (5 in the code)
          Machines,      \* the sources looked at
          None

ASSUME ProbePortsAssumption ==
  IsFiniteSet(ProbePorts) /\ ProbePorts \subseteq Nat \ {0}

VARIABLES state,      \* of every token
          probePort,  \* the port baked into its script, 0 for none
          probeLn,    \* whether its probe listener is open
          report      \* the facts last posted for it

VARIABLES step,       \* of every execution of the command
          token,      \* the token of the script it fetched
          dials,      \* the port its script dials
          found,      \* the facts it gathered
          said        \* the verdict it printed

VARIABLES source,     \* what the source really is
          taken,      \* probe ports some disk's receiver already listens on
          path        \* whether the data path is open

\* History: whether a run probed while its token was live and had no report,
\* and whether the path was open then.
VARIABLES fresh, pathOpen

check   == <<state, probePort, probeLn, report>>
run     == <<step, token, dials, found, said, fresh, pathOpen>>
outside == <<source, taken, path>>
vars    == <<check, run, outside>>

Methods    == {"volume", "disk"}
Verdicts   == {"ok", "warn", "fail"}
Reaches    == {"untested", "open", "blocked"}
CheckState == {"unused", "live", "gone"}
Said       == [Methods -> Verdicts]
RunStep    == {"idle", "fetched", "printed", "over"}

When(condition, severity) == IF condition THEN {severity} ELSE {}

---------------------------------------------------------------------------
(* The facts the script reads *)

\* The boot sector counts when GRUB is in it, or when a GPT bios_grub
\* partition is found (sgdisk) and not empty.
HasBootloader(m) ==
  /\ m.root = "disk"
  /\ \/ m.loader = "sector"
     \/ m.loader = "biosgrub" /\ m.table = "gpt" /\ m.sgdisk

LoaderKind(m) ==
  CASE m.files = "grub"                -> "grub"
    [] m.files \in {"syslinux", "lilo"} -> "other"
    [] m.files = "noboot" /\ ~m.efi    -> "none"
    [] OTHER                           -> "unknown"

\* A disk is the cloud's scratch disk only where the script looks: on Azure.
Ephemeral(m, d) == m.azure /\ d.scratch

\* The root filesystem is traced to its device, that to a disk, or neither.
Gathers(m, reach) ==
  [x86     |-> m.x86,
   osKnown |-> m.osKnown,
   systemd |-> m.systemd,
   rootFS  |-> m.rootFS,
   luks    |-> m.root # "none" /\ m.luks,
   raid    |-> m.root # "none" /\ m.raid,
   table   |-> IF m.root = "disk" THEN m.table ELSE "unknown",
   mbr     |-> HasBootloader(m),
   efi     |-> m.efi,
   kind    |-> LoaderKind(m),
   disks   |-> {[huge |-> d.huge, ephemeral |-> Ephemeral(m, d)] : d \in m.disks},
   reach   |-> reach]

\* What the script may find, on any of the sources.
Found == {Gathers(m, reach) : m \in Machines, reach \in Reaches}

ASSUME NoneAssumption == None \notin Found \cup Checks \cup Said

---------------------------------------------------------------------------
(* The verdict, on the appliance and in the script *)

\* worsen, in either copy: a fail stays, a warn only lifts an ok, so that the
\* verdict is the worst of the rules that apply, in whatever order.
Worst(severities) ==
  IF "fail" \in severities THEN "fail"
  ELSE IF "warn" \in severities THEN "warn" ELSE "ok"

RootRule(f) ==
  IF ~f.luks /\ f.rootFS = "ext4" THEN {}
  ELSE IF ~f.luks /\ f.rootFS \in {"", "btrfs"} THEN {"warn"} ELSE {"fail"}

BootRules(f) ==
  When(f.table \in {"gpt", "dos"} /\ ~f.mbr, "warn")
    \cup When(f.efi /\ ~f.mbr, "warn")
    \cup When(f.kind \notin {"", "grub", "unknown", "none"}, "warn")

\* An ephemeral disk is warned about and its size is not looked at.
DiskRule(d, method) ==
  IF d.ephemeral THEN {"warn"}
  ELSE When(d.huge, IF method = "volume" THEN "fail" ELSE "warn")

\* assessSource: the verdict of the console on a report.
AssessSource(f) ==
  [method \in Methods |-> Worst(
     When(~f.x86, "fail") \cup When(~f.osKnown, "warn") \cup When(~f.systemd, "warn")
       \cup When(f.reach = "blocked", "warn") \cup RootRule(f) \cup When(f.raid, "warn")
       \cup BootRules(f) \cup UNION {DiskRule(d, method) : d \in f.disks})]

\* A slip: every disk counts for the largest one, the scratch disk too.
LargestIsHuge_Any(f) == \E d \in f.disks : d.huge

\* MAXDISK, the largest disk that is not ephemeral.
LargestIsHuge(f) == \E d \in f.disks : ~d.ephemeral /\ d.huge

ScriptRoot(f) ==
  IF f.luks THEN {"fail"}
  ELSE IF f.rootFS = "ext4" THEN {}
  ELSE IF f.rootFS \in {"btrfs", ""} THEN {"warn"} ELSE {"fail"}

\* The verdict the script prints: its own copy of the rules, with its own
\* look at the root filesystem and at the disks.
ScriptVerdict(f) ==
  [method \in Methods |-> Worst(
     When(~f.x86, "fail") \cup When(~f.osKnown, "warn") \cup When(~f.systemd, "warn")
       \cup When(f.reach = "blocked", "warn") \cup ScriptRoot(f) \cup When(f.raid, "warn")
       \cup When(f.table \in {"gpt", "dos"} /\ ~f.mbr, "warn")
       \cup When(f.efi /\ ~f.mbr, "warn")
       \cup When(f.kind \notin {"", "grub", "unknown", "none"}, "warn")
       \cup When(LargestIsHuge(f), IF method = "volume" THEN "fail" ELSE "warn")
       \cup When(\E d \in f.disks : d.ephemeral, "warn"))]

---------------------------------------------------------------------------
(* The appliance *)

Listening(p) == \E c \in Checks : probeLn[c] /\ probePort[c] = p

Init ==
  /\ state     = [c \in Checks |-> "unused"]
  /\ probePort = [c \in Checks |-> 0]
  /\ probeLn   = [c \in Checks |-> FALSE]
  /\ report    = [c \in Checks |-> None]
  /\ step      = [r \in Runs |-> "idle"]
  /\ token     = [r \in Runs |-> None]
  /\ dials     = [r \in Runs |-> 0]
  /\ found     = [r \in Runs |-> None]
  /\ said      = [r \in Runs |-> None]
  /\ fresh     = [r \in Runs |-> FALSE]
  /\ pathOpen  = [r \in Runs |-> FALSE]
  /\ source \in Machines
  /\ taken  \in SUBSET ProbePorts
  /\ path   \in BOOLEAN

\* A slip: the loop goes one port too far.
FreePorts_OnePast ==
  {p \in (ProbePorts \cup {Min(ProbePorts) - 1}) \ taken : ~Listening(p)}

FreePorts == {p \in ProbePorts \ taken : ~Listening(p)}

\* A slip: the port is noted whether or not the listen succeeded.
CreatesCheck_NotesFirst(c) ==
  /\ state[c] = "unused"
  /\ state'     = [state EXCEPT ![c] = "live"]
  /\ probePort' = [probePort EXCEPT ![c] = Max(ProbePorts)]
  /\ probeLn'   = [probeLn EXCEPT ![c] = Max(ProbePorts) \in FreePorts]
  /\ UNCHANGED <<report, run, outside>>

\* handleSourceCheckCreate: the highest probe port it can listen on, or none.
CreatesCheck(c) ==
  /\ state[c] = "unused"
  /\ state' = [state EXCEPT ![c] = "live"]
  /\ \/ FreePorts = {} /\ UNCHANGED <<probePort, probeLn>>
     \/ \E p \in FreePorts :
           /\ \A q \in FreePorts : q <= p
           /\ probePort' = [probePort EXCEPT ![c] = p]
           /\ probeLn'   = [probeLn EXCEPT ![c] = TRUE]
  /\ UNCHANGED <<report, run, outside>>

\* A slip: the tokens are forgotten and their listeners are not closed.
Drops_LeavesListener(cs) ==
  /\ state'  = [c \in Checks |-> IF c \in cs THEN "gone" ELSE state[c]]
  /\ report' = [c \in Checks |-> IF c \in cs THEN None ELSE report[c]]
  /\ UNCHANGED probeLn

\* dropSourceCheck, of one token, or of all when the process ends.
Drops(cs) ==
  /\ state'   = [c \in Checks |-> IF c \in cs THEN "gone" ELSE state[c]]
  /\ report'  = [c \in Checks |-> IF c \in cs THEN None ELSE report[c]]
  /\ probeLn' = [c \in Checks |-> probeLn[c] /\ c \notin cs]

\* The time is over: the timer of the creation fires, or lookupSourceCheck
\* notices first; the token is dropped either way.
Expires(c) ==
  /\ state[c] = "live"
  /\ Drops({c})
  /\ UNCHANGED <<probePort, run, outside>>

\* A restart of the appliance: tokens and listeners are in memory only.
Restart ==
  LET live == {c \in Checks : state[c] = "live"} IN
  /\ live # {}
  /\ Drops(live)
  /\ UNCHANGED <<probePort, run, outside>>

\* The operator opens or closes the firewall on the data path.
Firewall ==
  /\ path' = ~path
  /\ UNCHANGED <<check, run, source, taken>>

---------------------------------------------------------------------------
(* The script *)

\* handleSourceCheckScript: a live token gets the script with its probe port.
Fetches(r, c) ==
  /\ step[r] = "idle"
  /\ state[c] = "live"
  /\ step'  = [step EXCEPT ![r] = "fetched"]
  /\ token' = [token EXCEPT ![r] = c]
  /\ dials' = [dials EXCEPT ![r] = probePort[c]]
  /\ UNCHANGED <<check, found, said, fresh, pathOpen, outside>>

\* The probe: a TCP connection to the port the script carries.
Reach(p) ==
  IF p = 0 THEN "untested"
  ELSE IF path /\ Listening(p) THEN "open" ELSE "blocked"

\* The script gathers, probes and prints its verdict.
Prints(r) ==
  LET c == token[r]
      f == Gathers(source, Reach(dials[r]))
  IN  /\ step[r] = "fetched"
      /\ step'  = [step EXCEPT ![r] = "printed"]
      /\ found' = [found EXCEPT ![r] = f]
      /\ said'  = [said EXCEPT ![r] = ScriptVerdict(f)]
      /\ fresh' = [fresh EXCEPT ![r] = state[c] = "live" /\ report[c] = None]
      /\ pathOpen' = [pathOpen EXCEPT ![r] = path]
      /\ UNCHANGED <<check, token, dials, outside>>

\* handleSourceCheckReport: the report is kept, over an earlier one, and the
\* probe listener closed.  The run is over whether or not the answer arrives.
Posts(r) ==
  LET c == token[r] IN
  /\ step[r] = "printed"
  /\ state[c] = "live"
  /\ report'  = [report EXCEPT ![c] = found[r]]
  /\ probeLn' = [probeLn EXCEPT ![c] = FALSE]
  /\ step'    = [step EXCEPT ![r] = "over"]
  /\ UNCHANGED <<state, probePort, token, dials, found, said, fresh, pathOpen, outside>>

\* The console cannot be reached, or knows the token no more: the script
\* prints that its result could not be delivered.
Undelivered(r) ==
  /\ step[r] = "printed"
  /\ step' = [step EXCEPT ![r] = "over"]
  /\ UNCHANGED <<check, token, dials, found, said, fresh, pathOpen, outside>>

Next ==
  \/ \E c \in Checks : CreatesCheck(c) \/ Expires(c)
  \/ \E r \in Runs : \/ \E c \in Checks : Fetches(r, c)
                     \/ Prints(r) \/ Posts(r) \/ Undelivered(r)
  \/ Restart \/ Firewall

Spec == Init /\ [][Next]_vars

---------------------------------------------------------------------------
(* Properties *)

\* Types of the tokens the appliance holds and of the runs of its command.
TypeOK ==
  /\ state \in [Checks -> CheckState]
  /\ probePort \in [Checks -> ProbePorts \cup {0}]
  /\ probeLn \in [Checks -> BOOLEAN]
  /\ report \in [Checks -> Found \cup {None}]
  /\ step \in [Runs -> RunStep]
  /\ token \in [Runs -> Checks \cup {None}]
  /\ dials \in [Runs -> ProbePorts \cup {0}]
  /\ found \in [Runs -> Found \cup {None}]
  /\ said \in [Runs -> Said \cup {None}]
  /\ fresh \in [Runs -> BOOLEAN] /\ pathOpen \in [Runs -> BOOLEAN]
  /\ source \in Machines /\ taken \subseteq ProbePorts /\ path \in BOOLEAN

\* The console and the operator's terminal never give the same facts two
\* verdicts: the two copies of the rules ("keep both in sync") agree on what
\* every run found and on every report the console shows.
VerdictsAgree ==
  /\ \A r \in Runs : said[r] # None => AssessSource(found[r]) = said[r]
  /\ \A c \in Checks : report[c] # None =>
       \E r \in Runs : token[r] = c /\ said[r] = AssessSource(report[c])

\* A run told that the data port is blocked, while its token is live and has
\* no report yet, really has a closed path: the listener it dialled was there.
BlockedIsBlocked ==
  \A r \in Runs : fresh[r] /\ found[r].reach = "blocked" => ~pathOpen[r]

\* No probe listener outlives what it is for: one that is open belongs to a
\* live token without a report, never sits on a receiver's port and is alone
\* on its own.
ListenersOwned ==
  \A c \in Checks : probeLn[c] =>
    /\ state[c] = "live" /\ report[c] = None
    /\ probePort[c] \in ProbePorts \ taken
    /\ \A d \in Checks \ {c} : probeLn[d] => probePort[d] # probePort[c]

=============================================================================
