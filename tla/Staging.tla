------------------------------ MODULE Staging ------------------------------
(***************************************************************************)
(* The job directories under <staging_dir>/work: created or adopted by a   *)
(* job under its number, removed when the job ends, left behind by a kill, *)
(* and sorted through when the next run starts (staging.rs; Pipeline::     *)
(* take_salvaged and the first half of try_process).  Numbers start again  *)
(* at zero in every run, and a directory keeps its number.                 *)
(*                                                                         *)
(* One step is what a job does between two points where another job's task *)
(* can touch the directories or the index of salvaged downloads.           *)
(***************************************************************************)
EXTENDS FiniteSets, Integers

CONSTANTS
  Files,      \* remote paths
  Versions,   \* for each file, the (size, mod_time) pairs it may have
  Widths,     \* the values opts.max_in_flight may have
  Nothing     \* no directory, no claim, no input

ASSUME StagingAssumption ==
  /\ IsFiniteSet(Files)
  /\ \A f \in Files : Versions[f] # {}
  /\ Widths \subseteq Nat \ {0}
  /\ Nothing \notin Nat

Stages == {"idle", "numbered", "placing", "claiming", "downloading", "ready", "over"}

(* Every file gets at most one number in a run.                            *)
JobIds == 0 .. Cardinality(Files) - 1

(* claimed.json, and the bytes of a download.                              *)
Claim(f, v)         == [path |-> f, version |-> v]
Bytes(f, v, whole)  == [of |-> f, version |-> v, whole |-> whole]

EmptyDir == [claim |-> Nothing, input |-> Nothing]

VARIABLES
  width,      \* opts.max_in_flight, the same in every run
  dirs,       \* the job directories, by number
  salvaged,   \* Pipeline.salvaged: which directory holds a file's download
  version,    \* the size and mod_time the ledger has for each file
  stage, id,  \* where each job is, and its number
  from,       \* the directory a job is about to adopt
  used,       \* the bytes each file was converted from
  nextId, up

stagingVars == <<width, dirs, salvaged, version, stage, id, from, used, nextId, up>>

(* The download in a directory, if both are there.                         *)
InputOf(i) == IF dirs[i] = Nothing THEN Nothing ELSE dirs[i].input

NoSalvage == [f \in Files |-> Nothing]

StagingInit ==
  /\ width \in Widths
  /\ dirs = [i \in JobIds |-> Nothing]
  /\ salvaged = NoSalvage
  /\ version \in {v \in [Files -> UNION {Versions[f] : f \in Files}] :
                    \A f \in Files : v[f] \in Versions[f]}
  /\ stage = [f \in Files |-> "idle"]
  /\ id = [f \in Files |-> Nothing]
  /\ from = [f \in Files |-> Nothing]
  /\ used = [f \in Files |-> Nothing]
  /\ nextId = 0
  /\ up = FALSE

-----------------------------------------------------------------------------
(* salvage_orphans.                                                        *)

(* mutant: any download counts as whole                                    *)
AnyInput(dir) == dir # Nothing /\ dir.claim # Nothing /\ dir.input # Nothing

(* read_claimed and input_is_complete: the length is the claimed one.      *)
Reusable(dir) ==
  /\ dir # Nothing
  /\ dir.claim # Nothing
  /\ dir.input # Nothing
  /\ dir.input.whole
  /\ dir.input.version = dir.claim.version

HoldersOf(f) == {i \in JobIds : Reusable(dirs[i]) /\ dirs[i].claim.path = f}

(* mutant: the numbers go on from the last run                             *)
StartKeepsCount ==
  /\ ~up
  /\ up' = TRUE
  /\ salvaged' = NoSalvage
  /\ stage' = [f \in Files |-> "idle"]
  /\ UNCHANGED <<width, dirs, version, id, from, used, nextId>>

(* Of two directories with the same file the one read last is indexed.     *)
Start ==
  /\ ~up
  /\ up' = TRUE
  /\ salvaged' \in {s \in [Files -> JobIds \cup {Nothing}] :
                      \A f \in Files : IF HoldersOf(f) = {} THEN s[f] = Nothing
                                       ELSE s[f] \in HoldersOf(f)}
  /\ dirs' = [i \in JobIds |-> IF Reusable(dirs[i]) THEN dirs[i] ELSE Nothing]
  /\ nextId' = 0
  /\ stage' = [f \in Files |-> "idle"]
  /\ UNCHANGED <<width, version, id, from, used>>

(* The file changes on the remote and a scan sees it, between runs.        *)
Edit(f) ==
  /\ ~up
  /\ used[f] = Nothing
  /\ \E v \in Versions[f] \ {version[f]} : version' = [version EXCEPT ![f] = v]
  /\ UNCHANGED <<width, dirs, salvaged, stage, id, from, used, nextId, up>>

(* Killed: no directory is removed.                                        *)
Kill ==
  /\ up
  /\ up' = FALSE
  /\ stage' = [f \in Files |-> "idle"]
  /\ UNCHANGED <<width, dirs, salvaged, version, id, from, used, nextId>>

Active == {f \in Files : stage[f] \notin {"idle", "over"}}

(* The run ends by itself, at its limit or with nothing left to claim.     *)
Finish ==
  /\ up
  /\ Active = {}
  /\ up' = FALSE
  /\ UNCHANGED <<width, dirs, salvaged, version, stage, id, from, used, nextId>>

-----------------------------------------------------------------------------
(* One job.                                                                *)

Move(f, a, b) ==
  /\ up
  /\ stage[f] = a
  /\ stage' = [stage EXCEPT ![f] = b]

Number(f) ==
  /\ used[f] = Nothing
  /\ Cardinality(Active) < width
  /\ Move(f, "idle", "numbered")
  /\ id' = [id EXCEPT ![f] = nextId]
  /\ nextId' = nextId + 1
  /\ UNCHANGED <<width, dirs, salvaged, version, from, used, up>>

(* mutant: a claim is believed whatever version it names                   *)
AnyClaim(f, dir) == dir # Nothing /\ dir.claim # Nothing

(* still_matches: size and mod_time, and not the path.                     *)
StillMatches(f, dir) ==
  dir # Nothing /\ dir.claim # Nothing /\ dir.claim.version = version[f]

(* take_salvaged: what no longer matches is removed.                       *)
TakeSalvaged(f) ==
  /\ Move(f, "numbered", "placing")
  /\ salvaged' = [salvaged EXCEPT ![f] = Nothing]
  /\ \/ /\ salvaged[f] = Nothing
        /\ from' = [from EXCEPT ![f] = Nothing]
        /\ UNCHANGED dirs
     \/ /\ salvaged[f] # Nothing
        /\ StillMatches(f, dirs[salvaged[f]])
        /\ from' = [from EXCEPT ![f] = salvaged[f]]
        /\ UNCHANGED dirs
     \/ /\ salvaged[f] # Nothing
        /\ ~StillMatches(f, dirs[salvaged[f]])
        /\ from' = [from EXCEPT ![f] = Nothing]
        /\ dirs' = [dirs EXCEPT ![salvaged[f]] = Nothing]
  /\ UNCHANGED <<width, version, id, used, nextId, up>>

(* A download that is there is used; otherwise it has to be made.          *)
AfterPlacing(f) ==
  /\ Move(f, "placing", IF dirs'[id[f]].input # Nothing THEN "ready" ELSE "claiming")
  /\ UNCHANGED <<width, salvaged, version, id, from, used, nextId, up>>

(* Workspace::create                                                       *)
Create(f) ==
  /\ from[f] = Nothing
  /\ dirs' = [dirs EXCEPT ![id[f]] = EmptyDir]
  /\ AfterPlacing(f)

(* mutant: the destination is cleared before anything else                 *)
AdoptCleared(f) ==
  /\ from[f] # Nothing
  /\ dirs[from[f]] # Nothing
  /\ dirs' = [dirs EXCEPT ![id[f]] = EmptyDir]
  /\ AfterPlacing(f)

(* Workspace::adopt: the directory is renamed to this job's number.        *)
Adopt(f) ==
  /\ from[f] # Nothing
  /\ dirs[from[f]] # Nothing
  /\ dirs' = [i \in JobIds |-> IF i = id[f] THEN dirs[from[f]]
                               ELSE IF i = from[f] THEN Nothing ELSE dirs[i]]
  /\ AfterPlacing(f)

(* Something the job needs is gone: it ends with an error.  What had its   *)
(* number is gone by the time that adopting fails.                         *)
Fail(f) ==
  /\ \/ /\ stage[f] = "placing"
        /\ from[f] # Nothing
        /\ dirs[from[f]] = Nothing
        /\ dirs' = [dirs EXCEPT ![id[f]] = Nothing]
     \/ /\ stage[f] = "claiming"
        /\ dirs[id[f]] = Nothing
        /\ UNCHANGED dirs
     \/ /\ stage[f] = "ready"
        /\ InputOf(id[f]) = Nothing
        /\ dirs' = [dirs EXCEPT ![id[f]] = Nothing]
  /\ up
  /\ stage' = [stage EXCEPT ![f] = "over"]
  /\ UNCHANGED <<width, salvaged, version, id, from, used, nextId, up>>

WriteClaim(f) ==
  /\ Move(f, "claiming", "downloading")
  /\ dirs[id[f]] # Nothing
  /\ dirs' = [dirs EXCEPT ![id[f]].claim = Claim(f, version[f])]
  /\ UNCHANGED <<width, salvaged, version, id, from, used, nextId, up>>

(* The daemon writes the file, and a directory for it if there is none.    *)
Receive(f, whole) ==
  LET dir == IF dirs[id[f]] = Nothing THEN EmptyDir ELSE dirs[id[f]] IN
  dirs' = [dirs EXCEPT ![id[f]] = [dir EXCEPT !.input = Bytes(f, version[f], whole)]]

DownloadPart(f) ==
  /\ up
  /\ stage[f] = "downloading"
  /\ Receive(f, FALSE)
  /\ UNCHANGED <<width, salvaged, version, stage, id, from, used, nextId, up>>

Download(f) ==
  /\ Move(f, "downloading", "ready")
  /\ Receive(f, TRUE)
  /\ UNCHANGED <<width, salvaged, version, id, from, used, nextId, up>>

(* The job reads its input and ends; its directory is dropped with it.     *)
Convert(f) ==
  /\ Move(f, "ready", "over")
  /\ InputOf(id[f]) # Nothing
  /\ used' = [used EXCEPT ![f] = dirs[id[f]].input]
  /\ dirs' = [dirs EXCEPT ![id[f]] = Nothing]
  /\ UNCHANGED <<width, salvaged, version, id, from, nextId, up>>

Job(f) ==
  \/ Number(f) \/ TakeSalvaged(f) \/ Create(f) \/ Adopt(f) \/ Fail(f)
  \/ WriteClaim(f) \/ DownloadPart(f) \/ Download(f) \/ Convert(f)

StagingNext ==
  \/ Start \/ Kill \/ Finish
  \/ \E f \in Files : Edit(f) \/ Job(f)

StagingSpec == StagingInit /\ [][StagingNext]_stagingVars
-----------------------------------------------------------------------------
(* Properties.                                                             *)

StagingTypeOK ==
  LET AllVersions == UNION {Versions[f] : f \in Files}
      Dirs == [ claim : [path : Files, version : AllVersions] \cup {Nothing},
                input : [of : Files, version : AllVersions, whole : BOOLEAN] \cup {Nothing} ]
  IN
  /\ width \in Widths
  /\ dirs \in [JobIds -> Dirs \cup {Nothing}]
  /\ salvaged \in [Files -> JobIds \cup {Nothing}]
  /\ stage \in [Files -> Stages]
  /\ id \in [Files -> JobIds \cup {Nothing}]
  /\ from \in [Files -> JobIds \cup {Nothing}]
  /\ \A f \in Files : version[f] \in Versions[f]
  /\ nextId \in 0 .. Cardinality(Files)
  /\ up \in BOOLEAN

(* What a file is converted from is that file, as the ledger knows it, and *)
(* whole - whichever run downloaded it, whatever was killed in between and *)
(* whoever had the directory's number since: staging.rs, lines 17-22, and  *)
(* 189-191, "reusing one would feed a truncated source to the encoder and  *)
(* call the result a faithful conversion".  True of one job at a time; of  *)
(* two, one may create the directory the other is about to adopt, and fill *)
(* it before it is renamed.                                                *)
InputIsOwn ==
  width = 1 =>
    \A f \in Files : used[f] # Nothing => used[f] = Bytes(f, version[f], TRUE)

(* The directory a job decides to adopt is one made for its own file       *)
(* (staging.rs, lines 17-18, "so a later run can tell whether the download *)
(* inside it is still the right file").  The path a claim names is never   *)
(* compared, so this relies on no two files sharing size and mod_time:     *)
(* with two that do, one job adopts the directory created for the other.   *)
TakesItsOwn ==
  [][\A f \in Files :
       from'[f] \notin {Nothing, from[f]} => dirs[from'[f]].claim.path = f]_stagingVars

(* A whole download of a file as the ledger has it.                        *)
Current(f, i) == Reusable(dirs[i]) /\ dirs[i].claim = Claim(f, version[f])

(* A file is still to be fetched, or its download to be taken up.          *)
Waits(f) == stage[f] \notin {"ready", "over"}

Lost(f, i) ==
  /\ Waits(f) /\ Current(f, i) /\ version'[f] = version[f]
  /\ \A j \in JobIds : ~Current(f, j)'

(* What an earlier run fetched is there for the file's next job, however   *)
(* many runs and kills later, under whatever numbers its directory and the *)
(* job get (staging.rs, lines 52-73 and 139-143; pipeline.rs, lines        *)
(* 381-387): salvaging, taking it up and the failures of its own job leave *)
(* it whole.  The one thing that destroys it is a job of another file that *)
(* was given the number of its directory.                                  *)
DownloadsKept ==
  [][\A f \in Files : \A i \in JobIds : Lost(f, i) =>
       \E g \in Files \ {f} : id[g] = i /\ stage'[g] # stage[g]]_stagingVars

(* The same without the exception, as staging.rs, lines 139-143, has it: a *)
(* complete download is worth keeping.                                     *)
NeverThrownAway == [][\A f \in Files : \A i \in JobIds : ~Lost(f, i)]_stagingVars
=============================================================================
