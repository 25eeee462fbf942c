------------------------------- MODULE Quota -------------------------------
(***************************************************************************)
(* The remote budget of `run --execute` (Governor::cloud, release_cloud,   *)
(* Lease::hold and reclaim_if_low): a job leases the MiB of its output     *)
(* before it uploads, keeps them spent after it ends because the original  *)
(* is in the trash and still billed, and a job that finds the budget low   *)
(* may empty the trash and return what that freed.                         *)
(*                                                                         *)
(* Sizes are whole MiB; a rounding of less than one per file is left to    *)
(* the configured reserve.  The rest of a job is module Replace.           *)
(***************************************************************************)
EXTENDS FiniteSets, Functions, Integers, Sequences

CONSTANTS
  Files,         \* the files of this run
  Size,          \* of each original, those of earlier runs included
  Output,        \* of each replacement
  NoFloor,       \* reclaim_when_low_mib is not configured
  Setups         \* the runs there may be, each a record of
                 \*   capacity  what `about` reported, less cloud_reserve_mib
                 \*   floor     opts.reclaim_when_low_mib
                 \*   keep      whether opts.keep_originals is configured
                 \*   inFlight  how many jobs max_in_flight and the staging
                 \*             budget let run side by side
                 \*   trash     files of earlier runs whose original is in the trash
                 \*   owed      files of earlier runs whose row says that it is
                 \*   fails     whether calls to the remote and the ledger may fail

Nobody == "nobody"

(* A conversion that saves too little is skipped; a file above max_file_gb *)
(* is, too, and a run does not start with less quota than max_file_gb, nor *)
(* with a floor and no keep_originals (module Config).                     *)
ASSUME QuotaAssumption ==
  /\ IsFiniteSet(DOMAIN Size) /\ \A f \in DOMAIN Size : Size[f] \in Nat
  /\ DOMAIN Output = Files /\ Files \subseteq DOMAIN Size /\ Nobody \notin Files
  /\ \A f \in Files : Output[f] \in 1 .. Size[f] - 1
  /\ \A s \in Setups :
        /\ s.capacity \in Nat /\ \A f \in Files : Size[f] <= s.capacity
        /\ s.floor \in Nat \cup {NoFloor} /\ s.keep \in BOOLEAN
        /\ s.floor # NoFloor => s.keep
        /\ s.inFlight \in Nat \ {0}
        /\ s.trash \cup s.owed \subseteq DOMAIN Size \ Files
        /\ s.fails \in BOOLEAN

Sem == INSTANCE Semaphore

VARIABLES
  setup,      \* this run
  cloud,      \* the semaphore of the budget
  stage,      \* where the job of each file is
  purger,     \* who holds the reclaiming mutex
  trash,      \* the files whose original is in the trash
  purged,     \* the files whose original is gone for good
  stored,     \* the files whose replacement, or part of it, is on the remote
  owed,       \* the rows that are done, trashed and not reclaimed
  kept        \* the files whose original was copied to keep_originals

vars == <<setup, cloud, stage, purger, trash, purged, stored, owed, kept>>

Stages == {"todo", "checking", "queueing", "purging", "crediting", "asking",
           "waiting", "leased", "uploaded", "deleted", "ended"}

(* What earlier runs left need not agree: a run killed between cleanup and *)
(* mark_reclaimed leaves rows without an original, one killed before       *)
(* record_conversion an original without a row.                            *)
Init ==
  /\ setup \in Setups
  /\ cloud = Sem!Fresh(setup.capacity)
  /\ stage = [f \in Files |-> "todo"]
  /\ purger = Nobody
  /\ trash = setup.trash
  /\ purged = {}
  /\ stored = {}
  /\ owed = setup.owed
  /\ kept = {}

InFlight == {f \in Files : stage[f] \notin {"todo", "ended"}}

Move(f, a, b) ==
  /\ stage[f] = a
  /\ stage' = [stage EXCEPT ![f] = b]
  /\ UNCHANGED setup

Total(size, S) == SumFunctionOnSet(size, S)

-----------------------------------------------------------------------------
(* reclaim_if_low.                                                         *)

Low == Sem!Available(cloud) < setup.floor

(* mutant: the copy of the original is left for later                      *)
ArriveUnkept(f) ==
  /\ Cardinality(InFlight) < setup.inFlight
  /\ Move(f, "todo", IF setup.floor = NoFloor THEN "asking" ELSE "checking")
  /\ UNCHANGED <<cloud, purger, trash, purged, stored, owed, kept>>

(* A converted file reaches the budget.  Where a copy of the original is   *)
(* configured, it is taken before anything else.                           *)
Arrive(f) ==
  /\ Cardinality(InFlight) < setup.inFlight
  /\ Move(f, "todo", IF setup.floor = NoFloor THEN "asking" ELSE "checking")
  /\ kept' = IF setup.keep THEN kept \cup {f} ELSE kept
  /\ UNCHANGED <<cloud, purger, trash, purged, stored, owed>>

Check(f) ==
  /\ Move(f, "checking", IF Low THEN "queueing" ELSE "asking")
  /\ UNCHANGED <<cloud, purger, trash, purged, stored, owed, kept>>

(* mutant: the budget is not looked at again under the mutex               *)
LockWithoutRecheck(f) ==
  /\ purger = Nobody
  /\ Move(f, "queueing", "purging")
  /\ purger' = f
  /\ UNCHANGED <<cloud, trash, purged, stored, owed, kept>>

(* One purge answers every job that noticed the shortage together.         *)
Lock(f) ==
  /\ purger = Nobody
  /\ Move(f, "queueing", IF Low THEN "purging" ELSE "asking")
  /\ purger' = IF Low THEN f ELSE Nobody
  /\ UNCHANGED <<cloud, trash, purged, stored, owed, kept>>

Empties == trash' = {} /\ purged' = purged \cup trash

Purge(f) ==
  /\ Move(f, "purging", "crediting")
  /\ Empties
  /\ UNCHANGED <<cloud, purger, stored, owed, kept>>

(* The call reports an error, and the run carries on.                      *)
PurgeFails(f) ==
  /\ setup.fails
  /\ Move(f, "purging", "asking")
  /\ Empties \/ UNCHANGED <<trash, purged>>
  /\ purger' = Nobody
  /\ UNCHANGED <<cloud, stored, owed, kept>>

(* mutant: the mutex is not given back                                     *)
CreditUnderLock(f) ==
  /\ Move(f, "crediting", "asking")
  /\ cloud' = Sem!Give(cloud, Total(Size, owed))
  /\ owed' = {}
  /\ UNCHANGED <<purger, trash, purged, stored, kept>>

(* mark_reclaimed and release_cloud.                                       *)
Credit(f) ==
  /\ Move(f, "crediting", "asking")
  /\ cloud' = Sem!Give(cloud, Total(Size, owed))
  /\ owed' = {}
  /\ purger' = Nobody
  /\ UNCHANGED <<trash, purged, stored, kept>>

CreditFails(f) ==
  /\ setup.fails
  /\ Move(f, "crediting", "asking")
  /\ purger' = Nobody
  /\ UNCHANGED <<cloud, trash, purged, stored, owed, kept>>

-----------------------------------------------------------------------------
(* The lease, and the stages that rely on it.                              *)

(* cloud(): joins the queue.                                               *)
Ask(f) ==
  /\ Move(f, "asking", "waiting")
  /\ cloud' = Sem!Enqueue(cloud, f, Output[f])
  /\ UNCHANGED <<purger, trash, purged, stored, owed, kept>>

(* mutant: the permits are taken and the request stays in the queue        *)
LeaseByCount(f) ==
  /\ Sem!Granted(cloud, f)
  /\ Move(f, "waiting", "leased")
  /\ cloud' = Sem!Take(cloud, Output[f])
  /\ UNCHANGED <<purger, trash, purged, stored, owed, kept>>

Lease(f) ==
  /\ Sem!Granted(cloud, f)
  /\ Move(f, "waiting", "leased")
  /\ cloud' = Sem!Grant(cloud, f)
  /\ UNCHANGED <<purger, trash, purged, stored, owed, kept>>

Upload(f) ==
  /\ Move(f, "leased", "uploaded")
  /\ stored' = stored \cup {f}
  /\ UNCHANGED <<cloud, purger, trash, purged, owed, kept>>

Delete(f) ==
  /\ Move(f, "uploaded", "deleted")
  /\ trash' = trash \cup {f}
  /\ UNCHANGED <<cloud, purger, purged, stored, owed, kept>>

(* mutant: the lease is dropped when the job ends                          *)
RecordAndDrop(f) ==
  /\ Move(f, "deleted", "ended")
  /\ owed' = owed \cup {f}
  /\ cloud' = Sem!Give(cloud, Output[f])
  /\ UNCHANGED <<purger, trash, purged, stored, kept>>

(* record_conversion, then hold: the permits are forgotten.                *)
Record(f) ==
  /\ Move(f, "deleted", "ended")
  /\ owed' = owed \cup {f}
  /\ UNCHANGED <<cloud, purger, trash, purged, stored, kept>>

(* A call reports an error, whatever it did; the lease is dropped.         *)
BreaksOff(f) ==
  /\ setup.fails
  /\ \/ /\ Move(f, "leased", "ended")
        /\ stored' \in {stored, stored \cup {f}}
        /\ UNCHANGED trash
     \/ /\ Move(f, "uploaded", "ended")
        /\ trash' \in {trash, trash \cup {f}}
        /\ UNCHANGED stored
     \/ /\ Move(f, "deleted", "ended")
        /\ UNCHANGED <<trash, stored>>
  /\ cloud' = Sem!Give(cloud, Output[f])
  /\ UNCHANGED <<purger, purged, owed, kept>>

Proceed(f) ==
  \/ Check(f) \/ Lock(f)
  \/ Purge(f) \/ PurgeFails(f) \/ Credit(f) \/ CreditFails(f)
  \/ Ask(f) \/ Lease(f) \/ Upload(f) \/ Delete(f) \/ Record(f) \/ BreaksOff(f)

Next == \E f \in Files : Arrive(f) \/ Proceed(f)

Spec == Init /\ [][Next]_vars

(* Files keep coming while there is room, and a job goes on when it can.   *)
(* The mutex is handed over in turn.                                       *)
FairSpec ==
  /\ Spec
  /\ \A f \in Files : WF_vars(Arrive(f)) /\ WF_vars(Proceed(f)) /\ SF_vars(Lock(f))
-----------------------------------------------------------------------------
(* Properties.                                                             *)

TypeOK ==
  /\ setup \in Setups
  /\ cloud.permits \in 0 .. setup.capacity + Total(Size, DOMAIN Size)
  /\ Sem!Waiting(cloud) = {f \in Files : stage[f] = "waiting"}
  /\ stage \in [Files -> Stages]
  /\ purger \in Files \cup {Nobody}
  /\ trash \cup purged \subseteq Files \cup setup.trash
  /\ owed \subseteq Files \cup setup.owed
  /\ stored \cup kept \subseteq Files

Alone == setup.inFlight = 1

(* The quota that is really free, in the same unit as the budget.          *)
FreeSpace == setup.capacity - Total(Output, stored) + Total(Size, purged)

Leased == {f \in Files \ stored : stage[f] = "leased"}

(* The rows an earlier run should have marked as reclaimed and did not.    *)
Stale == setup.owed \ setup.trash

(* What the budget still offers, with what it has promised to uploads to   *)
(* come, fits into the space that is really free: no upload runs into the  *)
(* quota (governor.rs, lines 73-80 and 201-222; pipeline.rs, 580-596).     *)
(* True of jobs side by side that never purge, and of a job that purges    *)
(* alone, as long as no call fails, but for the rows that an earlier run   *)
(* left stale: the first purge credits them for space long given back, and *)
(* the budget is overstated by as much and no more.                        *)
BudgetHonest ==
  (setup.floor = NoFloor \/ Alone) /\ ~setup.fails =>
    cloud.permits + Total(Output, Leased) <= FreeSpace + Total(Size, Stale \ owed)

(* The trash is emptied only while the budget is low: several jobs that    *)
(* notice the same shortage do not each destroy what the others have       *)
(* replaced since (pipeline.rs, lines 239-243).  A job that fails meanwhile *)
(* returns its lease, and the purge it made needless still happens.        *)
PurgedOnlyWhenLow == [][purged' # purged /\ ~setup.fails => Low]_vars

(* Emptying the trash mid-run leaves one way back for each original: the   *)
(* local copy (pipeline.rs, lines 232-234; config.rs, lines 286-288), but  *)
(* for those an earlier run had put there, with a copy or without.         *)
WayBack == purged \subseteq kept \cup setup.trash

(* The budget is below what the file asks and not below the floor.         *)
Stalled(f) ==
  /\ stage[f] = "waiting"
  /\ setup.floor # NoFloor
  /\ setup.floor <= cloud.permits /\ cloud.permits < Output[f]

(* A job that runs alone is through in the end (pipeline.rs, lines         *)
(* 228-230: the purge "lets the run continue instead of stalling on a      *)
(* budget that is only notionally full"), or waits for good with the       *)
(* budget below its output and not below the floor: that never happens     *)
(* under a floor as high as the largest output.  Side by side it is false, *)
(* for jobs whose wait no purge interrupts.                                *)
EveryJobEnds ==
  \A f \in Files :
    Alone /\ ~setup.fails /\ stage[f] = "checking" ~> stage[f] = "ended" \/ Stalled(f)

-----------------------------------------------------------------------------
(* What a comment says and the code does not do: it is violated with two   *)
(* jobs side by side and a floor, and after a purge with stale rows.       *)

(* governor.rs, lines 75-77: an upload "that finished has consumed real    *)
(* quota", and "Holding the slice keeps the budget honest about that".  It *)
(* does not when one job records while another empties the trash.          *)
BudgetNeverOverstated ==
  ~setup.fails => cloud.permits + Total(Output, Leased) <= FreeSpace
=============================================================================
