------------------------------ MODULE CpuPool ------------------------------
(***************************************************************************)
(* How cores are granted to encodes and verifications (governor.rs, cpu,   *)
(* one_core and CpuLease::drop): two semaphores decide who may have a      *)
(* core, and a list behind a mutex says which core it is.                  *)
(*                                                                         *)
(* One step is what lies between two operations another job can come       *)
(* between: each try_acquire, the wait, taking core ids, and the two       *)
(* halves of dropping a lease.                                             *)
(***************************************************************************)
EXTENDS FiniteSets, Integers, Sequences

CONSTANTS
  Jobs,            \* the jobs that want cores, again and again
  VideoJobs,       \* those whose recipe is AV1 or FFV1
  CpuCores,        \* cfg.cpu_cores
  NonVideoCores    \* cfg.non_video_cores

(* Config::resolve demands no more than this; the default of               *)
(* NonVideoCores is 2.                                                     *)
ASSUME CpuPoolAssumption ==
  /\ VideoJobs \subseteq Jobs
  /\ CpuCores \in Nat
  /\ NonVideoCores \in Nat
  /\ NonVideoCores < CpuCores

Sem == INSTANCE Semaphore

VideoCores == CpuCores - NonVideoCores

Cores == 0 .. CpuCores - 1

CoresFor(j) == IF j \in VideoJobs THEN VideoCores ELSE 1

VARIABLES
  cpuVideo,    \* the semaphore of the cores video may take
  cpuOther,    \* the semaphore of the cores reserved for everything else
  freeCores,   \* free_cores
  stage,       \* where each job is
  from,        \* which semaphore the job's permits are from
  cores        \* the cores each job's lease names

vars == <<cpuVideo, cpuOther, freeCores, stage, from, cores>>

Stages == {"idle", "tryVideo", "queued", "permitted", "working", "returning"}

Init ==
  /\ cpuVideo = Sem!Fresh(VideoCores)
  /\ cpuOther = Sem!Fresh(NonVideoCores)
  /\ freeCores = Cores
  /\ stage = [j \in Jobs |-> "idle"]
  /\ from = [j \in Jobs |-> "none"]
  /\ cores = [j \in Jobs |-> {}]

Move(j, a, b) ==
  /\ stage[j] = a
  /\ stage' = [stage EXCEPT ![j] = b]

Permitted(j, a, sem) ==
  /\ Move(j, a, "permitted")
  /\ from' = [from EXCEPT ![j] = sem]

-----------------------------------------------------------------------------
(* Video waits for all of its cores in its own pool.                       *)
AskVideo(j) ==
  /\ j \in VideoJobs
  /\ Move(j, "idle", "queued")
  /\ from' = [from EXCEPT ![j] = "video"]
  /\ cpuVideo' = Sem!Enqueue(cpuVideo, j, VideoCores)
  /\ UNCHANGED <<cpuOther, freeCores, cores>>

(* one_core: the other pool if it has a core right now, ...                *)
TryOther(j) ==
  /\ j \notin VideoJobs
  /\ \/ /\ Sem!CanTry(cpuOther, 1)
        /\ cpuOther' = Sem!Take(cpuOther, 1)
        /\ Permitted(j, "idle", "other")
     \/ /\ ~Sem!CanTry(cpuOther, 1)
        /\ Move(j, "idle", "tryVideo")
        /\ UNCHANGED <<cpuOther, from>>
  /\ UNCHANGED <<cpuVideo, freeCores, cores>>

(* mutant: the borrower waits for a video core instead of trying for one   *)
QueueOnVideo(j) ==
  /\ Move(j, "tryVideo", "queued")
  /\ cpuVideo' = Sem!Enqueue(cpuVideo, j, 1)
  /\ from' = [from EXCEPT ![j] = "video"]
  /\ UNCHANGED <<cpuOther, freeCores, cores>>

(* mutant: a borrowed core is taken past the requests that wait for it     *)
BargeIn(j) ==
  /\ \/ /\ cpuVideo.permits > 0
        /\ cpuVideo' = Sem!Take(cpuVideo, 1)
        /\ Permitted(j, "tryVideo", "video")
        /\ UNCHANGED cpuOther
     \/ /\ cpuVideo.permits = 0
        /\ Move(j, "tryVideo", "queued")
        /\ cpuOther' = Sem!Enqueue(cpuOther, j, 1)
        /\ from' = [from EXCEPT ![j] = "other"]
        /\ UNCHANGED cpuVideo
  /\ UNCHANGED <<freeCores, cores>>

(* ... else a video core if one is idle right now, else the queue of the   *)
(* other pool.                                                             *)
TryVideo(j) ==
  /\ \/ /\ Sem!CanTry(cpuVideo, 1)
        /\ cpuVideo' = Sem!Take(cpuVideo, 1)
        /\ Permitted(j, "tryVideo", "video")
        /\ UNCHANGED cpuOther
     \/ /\ ~Sem!CanTry(cpuVideo, 1)
        /\ Move(j, "tryVideo", "queued")
        /\ cpuOther' = Sem!Enqueue(cpuOther, j, 1)
        /\ from' = [from EXCEPT ![j] = "other"]
        /\ UNCHANGED cpuVideo
  /\ UNCHANGED <<freeCores, cores>>

Granted(j) ==
  /\ Move(j, "queued", "permitted")
  /\ \/ /\ from[j] = "video"
        /\ Sem!Granted(cpuVideo, j)
        /\ cpuVideo' = Sem!Grant(cpuVideo, j)
        /\ UNCHANGED cpuOther
     \/ /\ from[j] = "other"
        /\ Sem!Granted(cpuOther, j)
        /\ cpuOther' = Sem!Grant(cpuOther, j)
        /\ UNCHANGED cpuVideo
  /\ UNCHANGED <<freeCores, from, cores>>

(* mutant: the core ids are read and not taken                             *)
PeekCores(j) ==
  /\ Move(j, "permitted", "working")
  /\ \E some \in SUBSET freeCores :
        /\ Cardinality(some) = CoresFor(j)
        /\ cores' = [cores EXCEPT ![j] = some]
  /\ UNCHANGED <<cpuVideo, cpuOther, freeCores, from>>

(* Core ids are popped one by one; when the list runs out the lease is     *)
(* short, and nothing reports it.                                          *)
TakeCores(j) ==
  /\ Move(j, "permitted", "working")
  /\ \E some \in SUBSET freeCores :
        /\ Cardinality(some) = IF Cardinality(freeCores) < CoresFor(j)
                               THEN Cardinality(freeCores) ELSE CoresFor(j)
        /\ cores' = [cores EXCEPT ![j] = some]
        /\ freeCores' = freeCores \ some
  /\ UNCHANGED <<cpuVideo, cpuOther, from>>

(* CpuLease::drop runs first, then its fields are dropped.                 *)
ReturnCores(j) ==
  /\ Move(j, "working", "returning")
  /\ freeCores' = freeCores \cup cores[j]
  /\ cores' = [cores EXCEPT ![j] = {}]
  /\ UNCHANGED <<cpuVideo, cpuOther, from>>

(* mutant: every permit goes back to the video pool                        *)
ReleaseToVideo(j) ==
  /\ Move(j, "returning", "idle")
  /\ from' = [from EXCEPT ![j] = "none"]
  /\ cpuVideo' = Sem!Give(cpuVideo, CoresFor(j))
  /\ UNCHANGED <<cpuOther, freeCores, cores>>

ReleasePermit(j) ==
  /\ Move(j, "returning", "idle")
  /\ from' = [from EXCEPT ![j] = "none"]
  /\ IF from[j] = "video"
     THEN cpuVideo' = Sem!Give(cpuVideo, CoresFor(j)) /\ UNCHANGED cpuOther
     ELSE cpuOther' = Sem!Give(cpuOther, 1) /\ UNCHANGED cpuVideo
  /\ UNCHANGED <<freeCores, cores>>

Proceed(j) ==
  \/ TryVideo(j) \/ Granted(j) \/ TakeCores(j) \/ ReturnCores(j) \/ ReleasePermit(j)

Next == \E j \in Jobs : AskVideo(j) \/ TryOther(j) \/ Proceed(j)

(* A job that asked goes on when it can, and what runs on its cores ends:  *)
(* an encoder reads a finite file.  Nobody has to ask.                     *)
Spec == Init /\ [][Next]_vars

FairSpec == Spec /\ \A j \in Jobs : WF_vars(Proceed(j))
-----------------------------------------------------------------------------
TypeOK ==
  /\ cpuVideo.permits \in 0..VideoCores
  /\ cpuOther.permits \in 0..NonVideoCores
  /\ Sem!Waiting(cpuVideo) \cup Sem!Waiting(cpuOther) \subseteq Jobs
  /\ freeCores \subseteq Cores
  /\ stage \in [Jobs -> Stages]
  /\ from \in [Jobs -> {"none", "video", "other"}]
  /\ cores \in [Jobs -> SUBSET Cores]

(* No core is pinned by two encoders at once, and none is lost: a core is  *)
(* free or named by exactly one lease (governor.rs, lines 268-282).        *)
EachCoreOnce ==
  \A c \in Cores :
    LET holders == {j \in Jobs : c \in cores[j]} IN
    IF c \in freeCores THEN holders = {} ELSE \E j \in Jobs : holders = {j}

(* "The permit guarantees availability, so the pool cannot be short"       *)
(* (governor.rs, line 272): no encoder is started on fewer cores than it   *)
(* asked for, although permits and cores change hands in separate steps.   *)
FullGrant == \A j \in Jobs : stage[j] = "working" => Cardinality(cores[j]) = CoresFor(j)

(* The reserve's cores in use, each by a job that needs one core.          *)
HoldsReserve ==
  {j \in Jobs : from[j] = "other" /\ stage[j] \in {"permitted", "working", "returning"}}

(* A job that needs one core waits only while the whole reserve is in the  *)
(* hands of jobs like it: no request for video ever stands before it       *)
(* (lines 123-128).                                                        *)
ReserveIsForOthers ==
  \A j \in Jobs \ VideoJobs :
    stage[j] = "queued" /\ ~Sem!Granted(cpuOther, j) =>
      Cardinality(HoldsReserve) + Cardinality({k \in Jobs : Sem!Granted(cpuOther, k)})
        = NonVideoCores

(* A lease is what was asked for, and it is waited for no longer than by   *)
(* others like it.                                                         *)
LeasesAsPromised == FullGrant /\ ReserveIsForOthers

(* Whoever asked gets its cores in the end: a video is not starved by the  *)
(* jobs that borrow its cores, nor they by it (lines 123-131, 284-290).    *)
EveryRequestServed ==
  \A j \in Jobs : stage[j] \in {"queued", "tryVideo"} ~> stage[j] = "working"
=============================================================================
