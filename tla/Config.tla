------------------------------- MODULE Config -------------------------------
(***************************************************************************)
(* What a command makes of its settings (Config::resolve) and of the quota *)
(* the remote reports (Governor::new) before it does anything: the budgets *)
(* the other modules take as constants, or an error.                       *)
(*                                                                         *)
(* A setting is a number, a directory, or Unset.  Settings that no other   *)
(* setting is compared with (the order, the paths, the trash policy, the   *)
(* encoder's effort) are left out.                                         *)
(***************************************************************************)
EXTENDS Integers

CONSTANTS
  Unset,      \* None: a field that is not given
  MibPerGb,   \* 1024
  MaxMib,     \* u32::MAX, what the semaphores count to
  Tenths,     \* DEFAULT_BUDGET_FRACTION of the free space, in tenths
  Defaults    \* the DEFAULT_ constants

SizeFields == {"stagingBudget", "maxFile", "cloudReserve", "reclaimWhenLow"}

(* Precedence: the command line, then the file.                            *)
Merged(file, ov) == [k \in DOMAIN file |-> IF ov[k] # Unset THEN ov[k] ELSE file[k]]

Given(s, field) == IF s[field] # Unset THEN s[field] ELSE Defaults[field]

Mib(gb) == gb * MibPerGb

(* gb_to_mib refuses what a u32 of MiB cannot hold.                        *)
Trackable(s) == \A k \in SizeFields : s[k] # Unset => Mib(s[k]) <= MaxMib

(* The auto-detected budget saturates instead.                             *)
StagingBudget(s, free) ==
  LET share == (free * Tenths) \div 10 IN
  IF s.stagingBudget # Unset THEN Mib(s.stagingBudget)
  ELSE IF share <= MaxMib THEN share ELSE MaxMib

MaxFile(s, free) ==
  IF s.maxFile # Unset THEN Mib(s.maxFile) ELSE StagingBudget(s, free) \div 2

CloudReserve(s) == Mib(Given(s, "cloudReserve"))

(* Zero switches the floor off, also where the file has one.               *)
ReclaimWhenLow(s) ==
  IF s.reclaimWhenLow \in {Unset, 0} THEN Unset ELSE Mib(s.reclaimWhenLow)

CpuCores(s, cores) == IF s.cpuCores \in {Unset, 0} THEN cores ELSE s.cpuCores

(* The staging space has to be there and to hold a file.                   *)
RoomToWork(s, free) ==
  /\ s.stagingBudget # Unset => StagingBudget(s, free) <= free
  /\ StagingBudget(s, free) # 0
  /\ s.maxFile # Unset => MaxFile(s, free) <= StagingBudget(s, free)
  /\ MaxFile(s, free) # 0

(* Emptying the trash mid-run leaves a copy of each original, and one that *)
(* no conversion is written over.                                          *)
CopiesKept(s) ==
  /\ ReclaimWhenLow(s) # Unset => s.keepOriginals # Unset
  /\ s.keepOriginals # Unset => s.keepOriginals # s.keepConverted

(* What Config::resolve goes through without an error.                     *)
Resolves(s, machine) ==
  /\ Trackable(s)
  /\ RoomToWork(s, machine.free)
  /\ CopiesKept(s)
  /\ Given(s, "nonVideoCores") < CpuCores(s, machine.cores)
  /\ Given(s, "netConcurrency") # 0
  /\ Given(s, "apiConcurrency") # 0

CloudCapacity(s, machine) ==
  LET rest == machine.cloudFree - CloudReserve(s) IN IF rest > 0 THEN rest ELSE 0

(* Governor::new: the largest file a run may take has to fit the quota.    *)
Starts(s, machine) ==
  /\ Resolves(s, machine)
  /\ CloudCapacity(s, machine) # 0
  /\ MaxFile(s, machine.free) <= CloudCapacity(s, machine)

MaxInFlight(s, machine) == CpuCores(s, machine.cores) + Given(s, "netConcurrency")

(* How many jobs run side by side that reserve this much staging each: a   *)
(* job holds it from before the download to its end.                       *)
SideBySide(s, machine, reserved) ==
  LET room  == StagingBudget(s, machine.free) \div reserved
      tasks == MaxInFlight(s, machine)
  IN  IF room < tasks THEN room ELSE tasks
=============================================================================
