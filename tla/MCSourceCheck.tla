--------------------------- MODULE MCSourceCheck ---------------------------
(* A source that migrates without a remark, a virtual machine of a cloud    *)
(* (GPT, UEFI, a bios_grub partition, a scratch disk), and every source     *)
(* that differs from one of them in a single fact.                          *)
EXTENDS SourceCheck

Disk(huge, scratch) == [huge |-> huge, scratch |-> scratch]

Clean == [x86 |-> TRUE, osKnown |-> TRUE, systemd |-> TRUE, rootFS |-> "ext4",
          root |-> "disk", luks |-> FALSE, raid |-> FALSE, table |-> "none",
          loader |-> "sector", sgdisk |-> TRUE, files |-> "grub", efi |-> FALSE,
          azure |-> FALSE, disks |-> {Disk(FALSE, FALSE)}]

Other == [x86 |-> {FALSE}, osKnown |-> {FALSE}, systemd |-> {FALSE},
          rootFS |-> {"", "btrfs", "zfs"}, root |-> {"device", "none"}, luks |-> {TRUE},
          raid |-> {TRUE}, table |-> {"gpt", "dos"}, loader |-> {"biosgrub", "absent"},
          sgdisk |-> {FALSE}, files |-> {"syslinux", "noboot", "unread"}, efi |-> {TRUE},
          azure |-> {TRUE}, disks |-> {{Disk(TRUE, FALSE)}, {Disk(FALSE, FALSE), Disk(TRUE, TRUE)}}]

Departures(m) == UNION {{[m EXCEPT ![f] = v] : v \in Other[f]} : f \in DOMAIN Clean}

Cloud == [Clean EXCEPT !.table = "gpt", !.loader = "biosgrub", !.efi = TRUE,
                       !.disks = {Disk(FALSE, FALSE), Disk(TRUE, TRUE)}]

MCMachines == {Clean, Cloud} \cup Departures(Clean) \cup Departures(Cloud)

MCProbePorts == 11 .. 12
=============================================================================
