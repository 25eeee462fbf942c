------------------------------ MODULE Replace ------------------------------
(***************************************************************************)
(* How `run --execute` replaces files on the remote: one job per claimed   *)
(* ledger row, from the download to record_conversion, together with the   *)
(* calls that fail, the calls that took effect although they reported an   *)
(* error, Ctrl-C, a process that dies between any two steps, the `scan`    *)
(* and the `run` that follow, and the emptying of the trash.               *)
(*                                                                         *)
(* One step is one call to the remote or to the ledger, or one local stage *)
(* of a job.  What the encoders do is left out: a job either obtains an    *)
(* output that verified or it does not.  A call may take effect after its  *)
(* caller was told that it failed, or was killed (module Rcd).  The claim  *)
(* loop's own bookkeeping is module RunLoop, the budgets are modules       *)
(* CpuPool and Quota, the directories that keep a download are module      *)
(* Staging.                                                                *)
(***************************************************************************)
EXTENDS LedgerTable, FiniteSets, Naturals

CONSTANTS
  Paths,        \* every name on the remote that matters, staging names included
  Library,      \* the names holding a file when the ledger is first filled
  Convertible,  \* the names some recipe may convert what is under
  Source,       \* what that is: the file of the library, or the replacement
                \* of another, as of a remuxed .ts that AV1 converts again
  Out,          \* swap_extension: where the replacement of a file is to live
  Part,         \* the ".verified-recompress-N.part" name next to a file
  Nothing,      \* no file under this name
  HasHash,      \* whether the backend answers operations/hashsumfile
  MaxInFlight   \* opts.max_in_flight

Forms == {"original", "converted", "torn"}

Contents == [of : Paths, form : Forms]

Original(p)  == [of |-> p, form |-> "original"]
Converted(p) == [of |-> p, form |-> "converted"]
Torn(p)      == [of |-> p, form |-> "torn"]

ASSUME ReplaceAssumption ==
  /\ Convertible \cup Library \subseteq Paths
  /\ Out \in [Convertible -> Paths]
  /\ Part \in [Convertible -> Paths]
  /\ Nothing \notin Contents
  /\ \A p \in Convertible :
       IF p \in Library THEN Source[p] = Original(p)
       ELSE \E q \in Convertible \ {p} : Out[q] = p /\ Source[p] = Converted(q)
  /\ \A p \in Convertible : Out[p] = p => Part[p] \notin Library
  /\ HasHash \in BOOLEAN
  /\ MaxInFlight \in Nat \ {0}

(* The recipe keeps the container, so the output path is the input path.   *)
InPlace(p) == Out[p] = p

Target(p) == IF InPlace(p) THEN Part[p] ELSE Out[p]

VARIABLES
  live,       \* what each name on the remote holds
  trash,      \* the contents in the remote's trash
  rows,       \* the ledger
  job,        \* the job of each row: its phase and the bytes it works from
  staged,     \* the whole download a killed run left for each row
  late,       \* the call for each row that nobody waits for any more
  up,         \* a `run` is in progress
  cancelled,  \* Ctrl-C was seen by this run
  purger      \* who emptied the trash and has yet to call mark_reclaimed

vars == <<live, trash, rows, job, staged, late, up, cancelled, purger>>

Phases == {"idle", "claimed", "fetched", "encoded", "clear", "uploaded",
           "confirmed", "deleted", "renamed", "erring", "failed", "interrupted"}

Calls == {"upload", "withdraw", "delete", "rename"}

Idle == [phase |-> "idle", input |-> Nothing]

(* A size is not a number here but what was sized: an original, its        *)
(* replacement (smaller by at least MIN_GAIN) and a torn upload differ.    *)
Listing ==
  [p \in {q \in Paths : live[q] # Nothing} |-> [size |-> live[p], hash |-> NoHash]]

EmptyTable == [p \in Paths |-> Absent]

(* The drive has been scanned once and no run has started.                 *)
Init ==
  /\ live = [p \in Paths |-> IF p \in Library THEN Original(p) ELSE Nothing]
  /\ trash = {}
  /\ rows = [p \in Paths |-> IF p \in Library
                             THEN Fresh([size |-> Original(p), hash |-> NoHash]) ELSE Absent]
  /\ job = [p \in Paths |-> Idle]
  /\ staged = [p \in Convertible |-> Nothing]
  /\ late = [p \in Convertible |-> "none"]
  /\ up = FALSE
  /\ cancelled = FALSE
  /\ purger = "nobody"

-----------------------------------------------------------------------------
(* The run as a whole.                                                     *)

(* run_convert up to Pipeline::run.                                        *)
Start(retry) ==
  /\ ~up
  /\ purger = "nobody"
  /\ LET recovered == RecoverClaimed(rows)
         retried   == IF retry THEN RetryFailed(recovered) ELSE recovered
     IN  rows' = ReopenSkipped(retried, {"settings", "out_of_scope"})
  /\ up' = TRUE
  /\ cancelled' = FALSE
  /\ UNCHANGED <<live, trash, job, staged, late, purger>>

Cancel ==
  /\ up
  /\ ~cancelled
  /\ cancelled' = TRUE
  /\ UNCHANGED <<live, trash, rows, job, staged, late, up, purger>>

Active == {p \in Paths : job[p].phase # "idle"}

Step(p, from, to) ==
  /\ job[p].phase = from
  /\ job' = [job EXCEPT ![p].phase = to]

(* The loop hands the row to a task.  A row may still be claimed after     *)
(* Ctrl-C: the flag is read before the wait for room, not after it.  That  *)
(* no call of an earlier job for the row is still under way is assumed.    *)
ClaimNext(p) ==
  /\ up
  /\ Cardinality(Active) < MaxInFlight
  /\ p \in Claimable(rows, Convertible)
  /\ late[p] = "none"
  /\ Step(p, "idle", "claimed")
  /\ rows' = Claim(rows, p)
  /\ UNCHANGED <<live, trash, staged, late, up, cancelled, purger>>

(* Every job ended and the loop with it, and run_convert returns; the      *)
(* daemon is killed, and what it still had under way goes with it.         *)
Finish ==
  /\ up
  /\ Active = {}
  /\ purger = "nobody"
  /\ up' = FALSE
  /\ late' = [p \in Convertible |-> "none"]
  /\ UNCHANGED <<live, trash, rows, job, staged, cancelled, purger>>

(* The call a job may have made when it is killed.                         *)
UnderWay(p) ==
  CASE job[p].phase = "clear"                   -> "upload"
    [] job[p].phase = "uploaded"                -> "withdraw"
    [] job[p].phase = "confirmed"               -> "delete"
    [] job[p].phase = "deleted" /\ InPlace(p)   -> "rename"
    [] OTHER                                    -> late[p]

(* kill -9, a second Ctrl-C, a power cut: every task is gone, and so is a  *)
(* purge that has not been recorded.  A whole download stays if its recipe *)
(* has not deleted it yet; a call that was made may still land.            *)
Crash ==
  /\ up \/ purger # "nobody"
  /\ up' = FALSE
  /\ purger' = "nobody"
  /\ job' = [p \in Paths |-> Idle]
  /\ late' = [p \in Convertible |-> UnderWay(p)]
  /\ \E kept \in SUBSET {p \in Active : job[p].input # Nothing /\ job[p].input = rows[p].size} :
        staged' = [p \in Convertible |-> IF p \in kept THEN job[p].input ELSE staged[p]]
  /\ UNCHANGED <<live, trash, rows, cancelled>>

(* run_scan over the whole remote, between runs.                           *)
Scan ==
  /\ ~up
  /\ purger = "nobody"
  /\ rows' = Sync(RecoverClaimed(rows), Paths, Listing)
  /\ UNCHANGED <<live, trash, job, staged, late, up, cancelled, purger>>

(* run_cleanup after a run, and the job that finds the budget low in       *)
(* reclaim_if_low: first the remote's trash, then the ledger's rows.       *)
EmptyTrash(who) ==
  /\ purger = "nobody"
  /\ trash' = {}
  /\ purger' = who
  /\ UNCHANGED <<live, rows, job, staged, late, up, cancelled>>

Cleanup == ~up /\ EmptyTrash("command")

ReclaimIfLow(p) == job[p].phase = "clear" /\ EmptyTrash(p)

(* Unless one of the two calls reports an error.                           *)
RecordPurge ==
  /\ purger # "nobody"
  /\ rows' \in {MarkReclaimed(rows), rows}
  /\ purger' = "nobody"
  /\ UNCHANGED <<live, trash, job, staged, late, up, cancelled>>

-----------------------------------------------------------------------------
(* try_process, one stage at a time.                                       *)

(* The directory of the download is cleared, because the row has changed   *)
(* or another job is given its number, or swept when the run ends.         *)
Discard(p) ==
  /\ staged[p] # Nothing
  /\ staged' = [staged EXCEPT ![p] = Nothing]
  /\ UNCHANGED <<live, trash, rows, job, late, up, cancelled, purger>>

(* The policy declines the file, on its name and size or on its bytes, or  *)
(* the conversion saves too little.                                        *)
Decline(p, why) ==
  /\ job[p].phase \in {"claimed", "fetched"}
  /\ rows' = SetState(rows, p, "skipped", why)
  /\ job' = [job EXCEPT ![p] = Idle]
  /\ UNCHANGED <<live, trash, staged, late, up, cancelled, purger>>

(* still_matches: the row is as it was when the download was made.         *)
Reusable(p) == staged[p] # Nothing /\ staged[p] = rows[p].size

(* A download that was salvaged is used, whatever the remote now holds.    *)
Reuse(p) ==
  /\ job[p].phase = "claimed"
  /\ Reusable(p)
  /\ job' = [job EXCEPT ![p] = [phase |-> "fetched", input |-> staged[p]]]
  /\ staged' = [staged EXCEPT ![p] = Nothing]
  /\ UNCHANGED <<live, trash, rows, late, up, cancelled, purger>>

Fetch(p) ==
  /\ job[p].phase = "claimed"
  /\ ~Reusable(p)
  /\ live[p] # Nothing
  /\ job' = [job EXCEPT ![p] = [phase |-> "fetched", input |-> live[p]]]
  /\ staged' = [staged EXCEPT ![p] = Nothing]
  /\ UNCHANGED <<live, trash, rows, late, up, cancelled, purger>>

(* mutant: the digest of the original is not carried along                 *)
EncodeUnhashed(p) ==
  /\ job[p] = [phase |-> "fetched", input |-> Source[p]]
  /\ job' = [job EXCEPT ![p] = [phase |-> "encoded", input |-> Nothing]]
  /\ UNCHANGED <<live, trash, rows, staged, late, up, cancelled, purger>>

(* Encoded and verified.  Of its own output the policy converts only what  *)
(* Source says.                                                            *)
Encode(p) ==
  /\ job[p].input = Source[p]
  /\ Step(p, "fetched", "encoded")
  /\ UNCHANGED <<live, trash, rows, staged, late, up, cancelled, purger>>

(* The destination is looked at only when it is not the source itself.     *)
DestinationFree(p) == InPlace(p) \/ live[Out[p]] = Nothing

CheckDestination(p) ==
  /\ Step(p, "encoded", IF DestinationFree(p) THEN "clear" ELSE "erring")
  /\ UNCHANGED <<live, trash, rows, staged, late, up, cancelled, purger>>

(* The daemon stores the file, or something short of it.                   *)
Upload(p) ==
  /\ purger # p
  /\ Step(p, "clear", "uploaded")
  /\ \E landed \in {Converted(p), Torn(p)} : live' = [live EXCEPT ![Target(p)] = landed]
  /\ UNCHANGED <<trash, rows, staged, late, up, cancelled, purger>>

(* A call reports an error, and may take effect at any later time or not   *)
(* at all.                                                                 *)
GivesUp(p, from, call) ==
  /\ Step(p, from, "erring")
  /\ late' = [late EXCEPT ![p] = call]
  /\ UNCHANGED <<live, trash, rows, staged, up, cancelled, purger>>

UploadFails(p) == purger # p /\ GivesUp(p, "clear", "upload")

(* mutant: confirming stops at the presence of the target                  *)
AcceptedIfPresent(p) == live[Target(p)] # Nothing

(* confirm_upload accepts: the sizes match, and the hashes if there are    *)
(* any.  Without a hash a torn upload of the right size passes.            *)
Accepted(p) ==
  \/ live[Target(p)] = Converted(p)
  \/ ~HasHash /\ live[Target(p)] = Torn(p)

Confirm(p) ==
  /\ Accepted(p)
  /\ Step(p, "uploaded", "confirmed")
  /\ UNCHANGED <<live, trash, rows, staged, late, up, cancelled, purger>>

(* A file moves to the trash; a name that holds nothing cannot be deleted. *)
MoveToTrash(n) ==
  /\ live[n] # Nothing
  /\ trash' = trash \cup {live[n]}
  /\ live' = [live EXCEPT ![n] = Nothing]

(* The upload is not accepted, or the calls that would tell fail; deleting *)
(* the target is tried, and its own error ignored.                         *)
ConfirmFails(p) ==
  \/ GivesUp(p, "uploaded", "withdraw")
  \/ /\ Step(p, "uploaded", "erring")
     /\ MoveToTrash(Target(p))
     /\ UNCHANGED <<rows, staged, late, up, cancelled, purger>>

(* mutant: the original goes before its replacement is confirmed           *)
DeleteUnconfirmed(p) ==
  /\ Step(p, "uploaded", "deleted")
  /\ MoveToTrash(p)
  /\ UNCHANGED <<rows, staged, late, up, cancelled, purger>>

DeleteOriginal(p) ==
  /\ Step(p, "confirmed", "deleted")
  /\ MoveToTrash(p)
  /\ UNCHANGED <<rows, staged, late, up, cancelled, purger>>

DeleteFails(p) == GivesUp(p, "confirmed", "delete")

MoveIntoPlace(p) ==
  /\ live[Part[p]] # Nothing
  /\ live' = [live EXCEPT ![Out[p]] = live[Part[p]], ![Part[p]] = Nothing]

Rename(p) ==
  /\ InPlace(p)
  /\ Step(p, "deleted", "renamed")
  /\ MoveIntoPlace(p)
  /\ UNCHANGED <<trash, rows, staged, late, up, cancelled, purger>>

RenameFails(p) == InPlace(p) /\ GivesUp(p, "deleted", "rename")

(* What a call does after its caller has gone, if anything.                *)
Lands(p) ==
  /\ late[p] # "none"
  /\ late' = [late EXCEPT ![p] = "none"]
  /\ \/ /\ late[p] = "upload"
        /\ \E landed \in {Converted(p), Torn(p)} : live' = [live EXCEPT ![Target(p)] = landed]
        /\ UNCHANGED trash
     \/ late[p] = "withdraw" /\ MoveToTrash(Target(p))
     \/ late[p] = "delete" /\ MoveToTrash(p)
     \/ late[p] = "rename" /\ MoveIntoPlace(p) /\ UNCHANGED trash
     \/ UNCHANGED <<live, trash>>
  /\ UNCHANGED <<rows, job, staged, up, cancelled, purger>>

(* mutant: the conversion is recorded as soon as the original is deleted   *)
RecordEarly(p) ==
  /\ job[p].phase = "deleted"
  /\ rows' = RecordConversion(rows, p, Out[p], job[p].input)
  /\ job' = [job EXCEPT ![p] = IF InPlace(p) THEN @ ELSE Idle]
  /\ UNCHANGED <<live, trash, staged, late, up, cancelled, purger>>

(* Nothing is left to do but to record it.                                 *)
Replaced(p) == job[p].phase = IF InPlace(p) THEN "renamed" ELSE "deleted"

(* The original's digest goes in with the rest: it is what a restore is    *)
(* checked against.                                                        *)
Record(p) ==
  /\ Replaced(p)
  /\ rows' = RecordConversion(rows, p, Out[p], job[p].input)
  /\ job' = [job EXCEPT ![p] = Idle]
  /\ UNCHANGED <<live, trash, staged, late, up, cancelled, purger>>

(* Anything local goes wrong: a full disk, an encoder that was killed, an  *)
(* output that fails verification, a download or a stat that fails, the    *)
(* ledger.                                                                 *)
JobFails(p) ==
  /\ purger # p
  /\ job[p].phase \in {"claimed", "fetched", "encoded", "clear"} \/ Replaced(p)
  /\ job' = [job EXCEPT ![p].phase = "erring"]
  /\ UNCHANGED <<live, trash, rows, staged, late, up, cancelled, purger>>

(* process(): an error is an interruption if Ctrl-C has been seen by now,  *)
(* else a failure.                                                         *)
Errs(p) ==
  /\ Step(p, "erring", IF cancelled THEN "interrupted" ELSE "failed")
  /\ UNCHANGED <<live, trash, rows, staged, late, up, cancelled, purger>>

(* The row is written; an error of the ledger is ignored.                  *)
Settle(p) ==
  /\ job[p].phase \in {"failed", "interrupted"}
  /\ LET s == IF job[p].phase = "failed" THEN "failed" ELSE "pending"
     IN  rows' \in {SetState(rows, p, s, "none"), rows}
  /\ job' = [job EXCEPT ![p] = Idle]
  /\ UNCHANGED <<live, trash, staged, late, up, cancelled, purger>>

Process(p) ==
  \/ \E why \in {"nature", "settings"} : Decline(p, why)
  \/ Reuse(p) \/ Fetch(p) \/ Encode(p) \/ CheckDestination(p) \/ ReclaimIfLow(p)
  \/ Upload(p) \/ UploadFails(p)
  \/ Confirm(p) \/ ConfirmFails(p)
  \/ DeleteOriginal(p) \/ DeleteFails(p)
  \/ Rename(p) \/ RenameFails(p)
  \/ Record(p) \/ JobFails(p) \/ Errs(p) \/ Settle(p)

Next ==
  \/ \E retry \in BOOLEAN : Start(retry)
  \/ Cancel \/ Finish \/ Crash \/ Scan \/ Cleanup \/ RecordPurge
  \/ \E p \in Convertible : ClaimNext(p) \/ Process(p) \/ Discard(p) \/ Lands(p)

Spec == Init /\ [][Next]_vars
-----------------------------------------------------------------------------
(* Properties.                                                             *)

TypeOK ==
  /\ live \in [Paths -> Contents \cup {Nothing}]
  /\ trash \subseteq Contents
  /\ rows \in Table(Paths, Contents, Contents)
  /\ job \in [Paths -> [phase : Phases, input : Contents \cup {Nothing}]]
  /\ staged \in [Convertible -> Contents \cup {Nothing}]
  /\ late \in [Convertible -> Calls \cup {"none"}]
  /\ up \in BOOLEAN
  /\ cancelled \in BOOLEAN
  /\ purger \in Convertible \cup {"nobody", "command"}

(* The names a job for the file touches.                                   *)
Names(p) == {p, Out[p], Target(p)}

(* No other convertible file shares a name with this one.  The code looks  *)
(* at each destination but reserves none, and lets a replacement be        *)
(* converted again under its own row, so this is a condition on the file;  *)
(* module MCCollision shows what follows where it is false.                *)
Apart(p) ==
  p \in Convertible => \A q \in Convertible \ {p} : Names(p) \cap Names(q) = {}

Kept == {p \in Library : Apart(p)}

(* The original or a verified replacement is live on the remote, whole.    *)
Whole(p) == \E n \in Paths : live[n] \in {Original(p), Converted(p)}

(* The original went to the trash and its replacement is not yet under its *)
(* name: what a kill between the two last calls leaves.                    *)
CutShort(p) == p \in Convertible /\ InPlace(p) /\ live[p] = Nothing

(* Whatever fails, is cancelled, crashes, lands late or is purged, and in  *)
(* whatever order: no step takes the last whole copy of a file off the     *)
(* remote.  Nothing depends on the trash, so this survives `cleanup`       *)
(* (pipeline.rs, lines 541-646).  The exception is a file whose in-place   *)
(* replacement was cut short: the next run may store it again from the     *)
(* salvaged download, over the only copy (lines 384-409, 570, 623).        *)
NothingLost ==
  [][\A p \in Kept : Whole(p) => Whole(p)' \/ CutShort(p)]_vars

(* A `done` row is a record one can act on: the replacement it names is    *)
(* live and whole, the original is not, and the digest it holds is that of *)
(* the original.  It holds across crashes between any two steps because    *)
(* record_conversion comes last (pipeline.rs, lines 648-657).              *)
DoneIsTrue ==
  \A p \in Kept \cap Convertible : rows[p].state = "done" =>
    /\ rows[p].output = Out[p]
    /\ live[Out[p]] = Converted(p)
    /\ live[p] # Original(p)
    /\ rows[p].hash = Original(p)

(* Of each file that is apart, what is live on the remote and whole.       *)
CopiesLive ==
  [p \in Kept |->
     { c \in {"original", "replacement"} :
         \E n \in Paths :
            live[n] = IF c = "original" THEN Original(p) ELSE Converted(p) }]

Promised == INSTANCE Promise
  WITH Library  <- Kept,
       Delicate <- {p \in Kept \cap Convertible : InPlace(p)},
       copies   <- CopiesLive,
       recorded <- Kept \cap InState(rows, "done")

(* The abstract promise, kept step by step: an original is retired only    *)
(* from beside its whole replacement, a conversion is recorded only once   *)
(* the replacement stands alone, and only a file that is replaced in place *)
(* and not recorded can lose a replacement that stands alone.              *)
KeepsPromise == Promised!Spec

-----------------------------------------------------------------------------
(* What the documentation says and the code does not do.                   *)

(* README.md, lines 50-51: the remote "is never left mid-replacement".     *)
(* With no run in progress each file is there under its own name or under  *)
(* that of its replacement.  False of a file that is replaced in place.    *)
NeverMidReplacement ==
  ~up => \A p \in Convertible : live[p] # Nothing \/ live[Out[p]] = Converted(p)

(* README.md, line 50: the original is deleted only once its replacement   *)
(* is confirmed, so every file of the library is live and whole.  False    *)
(* where two files share a destination.                                    *)
EveryFileWhole == \A p \in Library : Whole(p)
=============================================================================
