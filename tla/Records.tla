------------------------------ MODULE Records ------------------------------
(***************************************************************************)
(* What becomes of a conversion after it was recorded: the commands that   *)
(* come later, one at a time, over the ledger's rows and the remote.  Runs *)
(* convert more, scans look again, the trash is emptied by `cleanup` or by *)
(* a run's policy, `verify` and `restore` go by the rows, any of them may  *)
(* be killed, and meanwhile days pass and the owner edits and deletes      *)
(* files on the drive.                                                     *)
(*                                                                         *)
(* How a run replaces a file is module Replace, of which two steps are     *)
(* left: the replacement is live and the original in the trash, then the   *)
(* row is done.                                                            *)
(***************************************************************************)
EXTENDS LedgerTable, Naturals, FiniteSets

CONSTANTS
  Paths,        \* the names on the drive
  Library,      \* those some recipe converts
  Out,          \* where it puts the replacement
  Exact,        \* those whose recipe is byte-exact
  Versions,     \* the contents the owner gives a file
  First,        \* the one it has at the beginning
  SizeOf,       \* the size of each version of each file
  Nothing,
  Retention,    \* purge_after_days
  MaxDay,       \* bound on the clock
  MaxEdits      \* bound on what the owner does

Files == [of : Library, ver : Versions, form : {"original", "converted"}]

Original(p, v)  == [of |-> p, ver |-> v, form |-> "original"]
ConvertedOf(f)  == [f EXCEPT !.form = "converted"]
OriginalOf(f)   == [f EXCEPT !.form = "original"]

(* A replacement is as large as any other of the same size before.         *)
Size(f) == <<f.form, SizeOf[f.of][f.ver]>>

ASSUME RecordsAssumption ==
  /\ Library \subseteq Paths /\ Exact \subseteq Library /\ First \in Versions
  /\ Out \in [Library -> Paths \ Library]
  /\ Nothing \notin Files /\ NoHash \notin Files
  /\ Retention \in Nat /\ MaxDay \in Nat /\ MaxEdits \in Nat

VARIABLES
  live,       \* what each name holds
  trash,      \* the originals in the trash, each with the day it got there
  rows,       \* the ledger
  converted,  \* of each row, what was converted, which fixes its output_size
  trashedAt,  \* of each row, trashed_at
  listed,     \* what a listing with digests last showed at each path since
              \* its conversion was recorded (history)
  cmd,        \* the command that is running and where it is
  today,
  edits

vars == <<live, trash, rows, converted, trashedAt, listed, cmd, today, edits>>

(* A listing without --hash, which is the default, carries no digests.     *)
Listing(hashed) ==
  [p \in {q \in Paths : live[q] # Nothing} |->
     [size |-> Size(live[p]), hash |-> IF hashed THEN live[p] ELSE NoHash]]

Idle == [at |-> "idle", path |-> NoPath, file |-> Nothing]

Init ==
  /\ live = [p \in Paths |-> IF p \in Library THEN Original(p, First) ELSE Nothing]
  /\ trash = {}
  /\ rows = [p \in Paths |-> IF live[p] = Nothing THEN Absent ELSE Fresh(Listing(FALSE)[p])]
  /\ converted = [p \in Paths |-> Nothing]
  /\ trashedAt = [p \in Paths |-> 0]
  /\ listed = [p \in Paths |-> Nothing]
  /\ cmd = Idle
  /\ today = 0 /\ edits = 0

Goes(at) == cmd' = [cmd EXCEPT !.at = at]
Ends     == cmd' = Idle

-----------------------------------------------------------------------------
(* run --execute.                                                          *)
Run(retry) ==
  /\ cmd.at = "idle"
  /\ LET recovered == RecoverClaimed(rows)
         retried   == IF retry THEN RetryFailed(recovered) ELSE recovered
     IN  rows' = ReopenSkipped(retried, {"settings", "out_of_scope"})
  /\ Goes("loop")
  /\ UNCHANGED <<live, trash, converted, trashedAt, listed, today, edits>>

Replaceable(p) ==
  p \in Library /\ live[p] # Nothing /\ live[p].form = "original" /\ live[Out[p]] = Nothing

(* A job up to the deletion of the original.                               *)
Convert(p) ==
  /\ cmd.at = "loop" /\ p \in Claimable(rows, Paths) /\ Replaceable(p)
  /\ rows' = Claim(rows, p)
  /\ live' = [live EXCEPT ![Out[p]] = ConvertedOf(live[p]), ![p] = Nothing]
  /\ trash' = trash \cup {[file |-> live[p], from |-> p, since |-> today]}
  /\ cmd' = [cmd EXCEPT !.at = "replaced", !.path = p, !.file = live[p]]
  /\ UNCHANGED <<converted, trashedAt, listed, today, edits>>

(* A job that ends without: the file is gone, the name of the replacement  *)
(* is taken, or no recipe is for it.                                       *)
Decline(p) ==
  /\ cmd.at = "loop" /\ p \in Claimable(rows, Paths) /\ ~Replaceable(p)
  /\ rows' = IF live[p] # Nothing /\ (p \notin Library \/ live[p].form = "converted")
             THEN SetState(rows, p, "skipped", "nature")
             ELSE SetState(rows, p, "failed", "none")
  /\ UNCHANGED <<live, trash, converted, trashedAt, listed, cmd, today, edits>>

(* mutant: set_state(done) and no more                                     *)
RecordState ==
  /\ cmd.at = "replaced"
  /\ rows' = SetState(rows, cmd.path, "done", "none")
  /\ cmd' = [Idle EXCEPT !.at = "loop"]
  /\ UNCHANGED <<live, trash, converted, trashedAt, listed, today, edits>>

(* record_conversion; the digest is of the bytes that were converted.      *)
Record ==
  /\ cmd.at = "replaced"
  /\ rows' = RecordConversion(rows, cmd.path, Out[cmd.path], cmd.file)
  /\ converted' = [converted EXCEPT ![cmd.path] = cmd.file]
  /\ trashedAt' = [trashedAt EXCEPT ![cmd.path] = today]
  /\ listed' = [listed EXCEPT ![cmd.path] = Nothing]
  /\ cmd' = [Idle EXCEPT !.at = "loop"]
  /\ UNCHANGED <<live, trash, today, edits>>

TooRecent == {p \in PendingReclaim(rows) : trashedAt[p] + Retention > today}

(* mutant: one old original takes the rest with it                         *)
AgedReadyByOldest == PendingReclaim(rows) \ TooRecent # {}

(* do_pending_reclaim_aged and Aged::ready.                                *)
AgedReady == PendingReclaim(rows) # {} /\ TooRecent = {}

(* The run is through, stopped or at its limit; then its trash_policy.     *)
Return ==
  /\ cmd.at = "loop"
  /\ \/ Ends                               \* keep
     \/ Goes("emptying")                   \* purge_now
     \/ Goes(IF AgedReady THEN "expiring" ELSE "idle")
  /\ UNCHANGED <<live, trash, rows, converted, trashedAt, listed, today, edits>>

(* run_cleanup, in its own right or at the end of a run.                   *)
Cleanup ==
  /\ cmd.at = "idle"
  /\ Goes("emptying")
  /\ UNCHANGED <<live, trash, rows, converted, trashedAt, listed, today, edits>>

Empty ==
  /\ cmd.at \in {"emptying", "expiring"}
  /\ trash' = {}
  /\ Goes("emptied")
  /\ UNCHANGED <<live, rows, converted, trashedAt, listed, today, edits>>

RecordPurge ==
  /\ cmd.at = "emptied"
  /\ rows' = MarkReclaimed(rows)
  /\ Ends
  /\ UNCHANGED <<live, trash, converted, trashedAt, listed, today, edits>>

-----------------------------------------------------------------------------
(* scan, with and without --hash.                                          *)
Scan ==
  /\ cmd.at = "idle"
  /\ \E hashed \in BOOLEAN :
       /\ rows' = Sync(RecoverClaimed(rows), Paths, Listing(hashed))
       /\ listed' = [p \in Paths |->
                       IF hashed /\ live[p] # Nothing /\ rows[p].state = "done"
                       THEN live[p] ELSE listed[p]]
  /\ UNCHANGED <<live, trash, converted, trashedAt, cmd, today, edits>>

-----------------------------------------------------------------------------
(* verify and restore: completed and completed_for, then verify_one, or    *)
(* run_restore, for one row.  Nothing but their own calls lies between     *)
(* their steps, so all up to the proof is one step.                        *)
Output(p) == live[rows[p].output]

(* The size recorded with a conversion is that of what it made.            *)
SizeRecorded(p) == Output(p) # Nothing /\ Size(Output(p)) = Size(ConvertedOf(converted[p]))

(* djxl and flac rebuild what was converted, and nothing from another      *)
(* file.                                                                   *)
Rebuilt(p) ==
  IF Output(p) # Nothing /\ Output(p).form = "converted" THEN OriginalOf(Output(p)) ELSE Nothing

(* mutant: what was rebuilt is not compared with the digest                *)
ConfirmedAnyhow(p) == Rebuilt(p) # Nothing

(* confirm, which needs the digest the row has.                            *)
Confirmed(p) == Rebuilt(p) # Nothing /\ rows[p].hash = Rebuilt(p)

Finds(p, what, file) ==
  /\ cmd' = [at |-> what, path |-> p, file |-> file]
  /\ UNCHANGED <<live, trash, rows, converted, trashedAt, listed, today, edits>>

(* What cannot be rebuilt is looked for, and no more is said of it.        *)
Verify(p) ==
  /\ cmd.at = "idle" /\ p \in Completed(rows)
  /\ \/ ~SizeRecorded(p) /\ Finds(p, "refuted", Nothing)
     \/ SizeRecorded(p) /\ p \notin Exact /\ Finds(p, "present", Nothing)
     \/ /\ SizeRecorded(p) /\ p \in Exact
        /\ IF Confirmed(p) THEN Finds(p, "verified", Rebuilt(p)) ELSE Finds(p, "refuted", Nothing)

Restore(p) ==
  /\ cmd.at = "idle" /\ p \in Completed(rows) \cap Exact
  /\ Confirmed(p)
  /\ Finds(p, "rebuilt", Rebuilt(p))

(* stat and upload, or, without --execute, neither.                        *)
PutBack ==
  /\ cmd.at = "rebuilt"
  /\ \/ live[cmd.path] = Nothing /\ live' = [live EXCEPT ![cmd.path] = cmd.file]
     \/ UNCHANGED live
  /\ Ends
  /\ UNCHANGED <<trash, rows, converted, trashedAt, listed, today, edits>>

Said ==
  /\ cmd.at \in {"verified", "present", "refuted"}
  /\ Ends
  /\ UNCHANGED <<live, trash, rows, converted, trashedAt, listed, today, edits>>

-----------------------------------------------------------------------------
(* A kill, an error, a connection lost: the command ends where it is.      *)
Crash ==
  /\ cmd.at # "idle"
  /\ Ends
  /\ UNCHANGED <<live, trash, rows, converted, trashedAt, listed, today, edits>>

(* Time matters where a day is written down or compared.                   *)
Tick ==
  /\ cmd.at \in {"idle", "replaced"} /\ today < MaxDay
  /\ today' = today + 1
  /\ UNCHANGED <<live, trash, rows, converted, trashedAt, listed, cmd, edits>>

(* The owner, between commands: saves a version of a file, puts one in the *)
(* place of a replacement, does both at a time, or deletes something.      *)
Owner ==
  /\ cmd.at = "idle" /\ edits < MaxEdits
  /\ \/ \E p \in Library, v \in Versions :
          \/ live' = [live EXCEPT ![p] = Original(p, v)]
          \/ live' = [live EXCEPT ![Out[p]] = ConvertedOf(Original(p, v))]
          \/ live' = [live EXCEPT ![p] = Original(p, v), ![Out[p]] = ConvertedOf(Original(p, v))]
     \/ \E p \in Paths : live' = [live EXCEPT ![p] = Nothing]
  /\ edits' = edits + 1
  /\ UNCHANGED <<trash, rows, converted, trashedAt, listed, cmd, today>>

Next ==
  \/ \E retry \in BOOLEAN : Run(retry)
  \/ \E p \in Paths : Convert(p) \/ Decline(p) \/ Verify(p) \/ Restore(p)
  \/ Record \/ Return \/ Cleanup \/ Empty \/ RecordPurge \/ Scan
  \/ PutBack \/ Said
  \/ Crash \/ Tick \/ Owner

Spec == Init /\ [][Next]_vars

-----------------------------------------------------------------------------
Stages ==
  {"idle", "loop", "replaced", "emptying", "expiring", "emptied", "rebuilt",
   "verified", "present", "refuted"}

TypeOK ==
  /\ live \in [Paths -> Files \cup {Nothing}]
  /\ trash \subseteq [file : Files, from : Library, since : 0..MaxDay]
  /\ \A p \in InState(rows, "done") : rows[p].output = Out[p] /\ converted[p] # Nothing
  /\ converted \in [Paths -> Files \cup {Nothing}]
  /\ trashedAt \in [Paths -> 0..MaxDay]
  /\ listed \in [Paths -> Files \cup {Nothing}]
  /\ cmd.at \in Stages /\ cmd.path \in Paths \cup {NoPath}
  /\ today \in 0..MaxDay

(* Whether the ledger knows that this original is in the trash.            *)
OnRecord(t) == rows[t.from].state = "done" /\ converted[t.from] = t.file

(* A purge by age destroys no original that is younger than the period, of *)
(* those on record.  (An original whose record was lost in a crash, or     *)
(* whose path was scanned with another file, goes with the rest.)          *)
RetentionKept ==
  [][cmd.at = "expiring" /\ trash' # trash =>
       \A t \in trash : OnRecord(t) => t.since + Retention <= today]_vars

(* What verify calls rebuilt, and what restore puts back, is the original  *)
(* that the row's conversion replaced, or else a file that a later scan    *)
(* with digests found in its place: never one that this path did not hold, *)
(* whatever was edited, moved, scanned or converted again since.           *)
RebuiltIsReplaced ==
  cmd.at \in {"rebuilt", "verified"} =>
    /\ cmd.file \in Files
    /\ cmd.file \in {converted[cmd.path], listed[cmd.path]}

(* The record of a conversion stands until its path holds a file of        *)
(* another size than the original had.                                     *)
RecordsStand ==
  [][\A p \in Paths : rows[p].state = "done" /\ rows'[p].state # "done" =>
       live[p] # Nothing /\ Size(live[p]) # rows[p].size]_vars

(* A byte-exact record whose replacement is there, as it was made, can be  *)
(* rebuilt and confirmed: verify passes and restore delivers.              *)
StaysProvable ==
  \A p \in Completed(rows) \cap Exact :
    live[rows[p].output] = ConvertedOf(converted[p]) => Confirmed(p)
=============================================================================
