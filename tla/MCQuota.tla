------------------------------ MODULE MCQuota ------------------------------
(* Three files of 3 MiB that shrink to 2, 2 and 1; an older original of 2.  *)
(* The deployments are what Config makes of the commands below, of which it *)
(* refuses some.  A gigabyte is one MiB here.                               *)
EXTENDS Quota

MCFiles  == {"a", "b", "c"}
MCSize   == [f \in MCFiles \cup {"old"} |-> IF f = "old" THEN 2 ELSE 3]
MCOutput == [f \in MCFiles |-> IF f = "c" THEN 1 ELSE 2]

C == INSTANCE Config WITH
  Unset <- NoFloor, MibPerGb <- 1, MaxMib <- 40, Tenths <- 7,
  Defaults <- [cloudReserve |-> 5, nonVideoCores |-> 1, netConcurrency |-> 1,
               apiConcurrency |-> 1]

(* A config.toml that gives what follows and leaves the rest out.           *)
File ==
  [ stagingBudget |-> NoFloor, maxFile |-> 3, cloudReserve |-> 2,
    reclaimWhenLow |-> 3, keepOriginals |-> "originals", keepConverted |-> NoFloor,
    cpuCores |-> 0, nonVideoCores |-> NoFloor, netConcurrency |-> NoFloor,
    apiConcurrency |-> NoFloor ]

(* The command line sets one thing, or none.                                *)
With(key, value) ==
  C!Merged(File, [k \in DOMAIN File |-> IF k = key THEN value ELSE NoFloor])

Machine(free, cloudFree) == [free |-> free, cores |-> 2, cloudFree |-> cloudFree]

(* What an earlier run left in the trash, and on record as being there.     *)
Command(s, machine, inTrash, onRecord, mayFail) ==
  [s |-> s, machine |-> machine, trash |-> inTrash, owed |-> onRecord, fails |-> mayFail]

(* Side by side without a floor; alone with one above every output and an   *)
(* older original in the trash; alone with one below some and a stale row;  *)
(* side by side with one, and with calls that fail and an original that is  *)
(* not on record.                                                           *)
Accepted ==
  { Command(With("reclaimWhenLow", 0), Machine(35, 6), {}, {}, FALSE),
    Command(With("reclaimWhenLow", 4), Machine(13, 5), {"old"}, {"old"}, FALSE),
    Command(With("reclaimWhenLow", 1), Machine(13, 5), {}, {"old"}, FALSE),
    Command(File, Machine(35, 6), {}, {}, FALSE),
    Command(File, Machine(35, 6), {"old"}, {}, TRUE) }

(* Too little quota, one directory for both copies, no room for a file, a   *)
(* budget above the free space or above what is tracked, no core for video. *)
Refused ==
  { Command(File, Machine(35, 4), {}, {}, FALSE),
    Command(With("cloudReserve", 9), Machine(35, 6), {}, {}, FALSE),
    Command(With("keepConverted", "originals"), Machine(35, 6), {}, {}, FALSE),
    Command(With("maxFile", 25), Machine(35, 6), {}, {}, FALSE),
    Command(With("stagingBudget", 36), Machine(35, 6), {}, {}, FALSE),
    Command(With("reclaimWhenLow", 41), Machine(35, 6), {}, {}, FALSE),
    Command(With("nonVideoCores", 2), Machine(35, 6), {}, {}, FALSE),
    Command([File EXCEPT !.keepOriginals = NoFloor], Machine(35, 6), {}, {}, FALSE) }

P == INSTANCE Policy WITH MinUsefulBytes <- 0, NoDuration <- NoFloor

(* What a FLAC conversion of such a file reserves, in whole MiB.            *)
Reserved(keep) == (P!Reservation("flac", 3, keep) + 99) \div 100

Deployed(c) ==
  [ capacity |-> C!CloudCapacity(c.s, c.machine),
    floor    |-> C!ReclaimWhenLow(c.s),
    keep     |-> c.s.keepOriginals # NoFloor,
    inFlight |-> C!SideBySide(c.s, c.machine, Reserved(c.s.keepOriginals # NoFloor)),
    trash    |-> c.trash,
    owed     |-> c.owed,
    fails    |-> c.fails ]

MCSetups ==
  {Deployed(c) : c \in {c \in Accepted \cup Refused : C!Starts(c.s, c.machine)}}

ASSUME OnlyAccepted ==
  \A c \in Accepted \cup Refused : C!Starts(c.s, c.machine) <=> c \in Accepted
=============================================================================
