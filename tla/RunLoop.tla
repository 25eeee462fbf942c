------------------------------ MODULE RunLoop ------------------------------
(***************************************************************************)
(* The claim loop of `run` (Pipeline::run and Pipeline::process): rows are *)
(* claimed from the ledger in the run's order and handed to tasks, a       *)
(* bounded number at a time, until nothing is pending, the limit is        *)
(* reached, or Ctrl-C is seen; then the tasks are waited for.              *)
(*                                                                         *)
(* One step of the loop is what lies between two awaits.  A task is the    *)
(* steps the loop and Ctrl-C can tell apart: its work, its wait for remote *)
(* quota, the verdict on its error and the write of its row; what it does  *)
(* on the remote is module Replace.                                        *)
(***************************************************************************)
EXTENDS LedgerTable, FiniteSets, Functions, Integers

CONSTANTS
  Files,         \* the rows of the ledger
  Rank,          \* the run's order of files, a total one (order_clause)
  Limits,        \* the values opts.limit may have in a run with --execute
  DryLimits,     \* and in one without, a dry run
  NoLimit,       \* --limit not given
  MaxInFlight,   \* opts.max_in_flight
  Strands,       \* whether a task may panic, or fail to write its row
  LedgerFails    \* whether the loop's own ledger commands may fail

ASSUME RunLoopAssumption ==
  /\ IsFiniteSet(Files) /\ "nobody" \notin Files
  /\ Rank \in [Files -> Nat] /\ IsInjective(Rank)
  /\ {Strands, LedgerFails} \subseteq BOOLEAN
  /\ Limits \cup DryLimits \subseteq Nat \cup {NoLimit} /\ NoLimit \notin Nat
  /\ MaxInFlight \in Nat \ {0}

Outcomes == {"converted", "skipped", "failed", "cancelled"}
Nobody   == "nobody"

(* Where a task is; "failing" and "interrupted" are the verdicts on an     *)
(* error that is not yet in the ledger.                                    *)
Phases == {"none", "working", "waiting", "uploading", "failing", "interrupted"}

VARIABLES
  rows,       \* the ledger
  at,         \* where the loop is
  taken,      \* the row claimed and not yet placed with a task
  phase,      \* where the task of each file is
  unjoined,   \* how many ended tasks the JoinSet still holds, by outcome
  started,    \* how many files this run gave a task, counted up to a limit
  execute,    \* opts.execute of this run
  limit,      \* opts.limit of this run
  excluded,   \* the files the globs of this run's scope exclude
  cancelled,
  late,       \* how many files were claimed in this run after Ctrl-C
  stranded    \* the files whose task ended in this run without settling its row

(* What every run starts afresh.                                           *)
thisRun == <<started, execute, limit, excluded, cancelled, late, stranded>>

vars == <<rows, at, taken, phase, unjoined, thisRun>>

NoTask == [f \in Files |-> "none"]

(* The files whose task has not ended.                                     *)
Running == {f \in Files : phase[f] # "none"}

None == [o \in Outcomes |-> 0]

(* tasks.len(): a task that ended still counts until it is joined.         *)
TasksLen ==
  Cardinality(Running)
    + unjoined["converted"] + unjoined["skipped"] + unjoined["failed"] + unjoined["cancelled"]

Init ==
  /\ rows = [f \in Files |-> Fresh([size |-> "listed", hash |-> NoHash])]
  /\ at = "idle"
  /\ taken = Nobody
  /\ phase = NoTask
  /\ unjoined = None
  /\ started = 0
  /\ execute = TRUE
  /\ limit = NoLimit
  /\ excluded = {}
  /\ cancelled = FALSE
  /\ late = 0
  /\ stranded = {}

(* --execute and --limit                                                  *)
Options ==
  \/ execute' = TRUE  /\ limit' \in Limits
  \/ execute' = FALSE /\ limit' \in DryLimits

(* mutant: what an earlier scope set aside is not reopened                 *)
StartSameScope(retry, out) ==
  /\ at = "idle"
  /\ rows' = ReopenSkipped(RecoverClaimed(rows), {"settings"})
  /\ at' = "top"
  /\ Options
  /\ excluded' = out
  /\ started' = 0
  /\ cancelled' = FALSE
  /\ late' = 0
  /\ stranded' = {}
  /\ UNCHANGED <<taken, phase, unjoined>>

(* mutant: what an earlier run left claimed stays so                       *)
StartUnrecovered(retry, out) ==
  /\ at = "idle"
  /\ rows' = ReopenSkipped(IF retry THEN RetryFailed(rows) ELSE rows, {"settings", "out_of_scope"})
  /\ at' = "top"
  /\ Options
  /\ excluded' = out
  /\ started' = 0
  /\ cancelled' = FALSE
  /\ late' = 0
  /\ stranded' = {}
  /\ UNCHANGED <<taken, phase, unjoined>>

(* run_convert: another run, with the same settings or another scope.      *)
Start(retry, out) ==
  /\ at = "idle"
  /\ LET recovered == RecoverClaimed(rows)
         retried   == IF retry THEN RetryFailed(recovered) ELSE recovered
     IN  rows' = ReopenSkipped(retried, {"settings", "out_of_scope"})
  /\ at' = "top"
  /\ Options
  /\ excluded' = out
  /\ started' = 0
  /\ cancelled' = FALSE
  /\ late' = 0
  /\ stranded' = {}
  /\ UNCHANGED <<taken, phase, unjoined>>

Cancel ==
  /\ at # "idle"
  /\ cancelled' = TRUE
  /\ UNCHANGED <<rows, at, taken, phase, unjoined, started, execute, limit, excluded, late,
                 stranded>>

-----------------------------------------------------------------------------
(* The loop.                                                               *)

LimitReached == limit # NoLimit /\ started >= limit

(* mutant: the cancellation is left to the tasks                           *)
TopUnaware ==
  /\ at = "top"
  /\ at' = IF LimitReached THEN "draining" ELSE "claiming"
  /\ UNCHANGED <<rows, taken, phase, unjoined, thisRun>>

(* The two checks at the head of the loop, the only place that reads the   *)
(* cancellation.                                                           *)
Top ==
  /\ at = "top"
  /\ at' = IF cancelled \/ LimitReached THEN "draining" ELSE "claiming"
  /\ UNCHANGED <<rows, taken, phase, unjoined, thisRun>>

(* mutant: an outcome is merged although no task has ended                 *)
JoinUnchecked(o) ==
  /\ unjoined' = [unjoined EXCEPT ![o] = @ - 1]
  /\ UNCHANGED <<rows, taken, phase, started, execute, limit, excluded, cancelled, late, stranded>>

(* join_next or try_join_next: one ended task leaves the JoinSet.         *)
Join(o) ==
  /\ unjoined[o] > 0
  /\ unjoined' = [unjoined EXCEPT ![o] = @ - 1]
  /\ UNCHANGED <<rows, taken, phase, started, execute, limit, excluded, cancelled, late, stranded>>

NoRoom == TasksLen >= MaxInFlight

WaitForRoom(o) ==
  /\ at = "claiming"
  /\ NoRoom
  /\ Join(o)
  /\ UNCHANGED at

(* ORDER BY ... LIMIT 1                                                    *)
FirstOf(S) == CHOOSE f \in S : \A g \in S : Rank[f] <= Rank[g]

ClaimNext ==
  /\ at = "claiming"
  /\ ~NoRoom
  /\ LET pending == Claimable(rows, Files) IN
     IF pending = {}
     THEN /\ at' = "draining"
          /\ UNCHANGED <<rows, taken, late>>
     ELSE /\ taken' = FirstOf(pending)
          /\ rows' = Claim(rows, FirstOf(pending))
          /\ at' = "placing"
          /\ late' = IF cancelled THEN late + 1 ELSE late
  /\ UNCHANGED <<phase, unjoined, started, execute, limit, excluded, cancelled, stranded>>

(* An excluded file is skipped and not counted as started; any other gets  *)
(* a task.                                                                 *)
Place ==
  /\ at = "placing"
  /\ taken' = Nobody
  /\ \/ /\ taken \in excluded
        /\ rows' = SetState(rows, taken, "skipped", "out_of_scope")
        /\ at' = "top"
        /\ UNCHANGED <<phase, started>>
     \/ /\ taken \notin excluded
        /\ phase' = [phase EXCEPT ![taken] = "working"]
        /\ started' = IF limit = NoLimit THEN started ELSE started + 1
        /\ at' = "collecting"
        /\ UNCHANGED rows
  /\ UNCHANGED <<unjoined, execute, limit, excluded, cancelled, late, stranded>>

(* Collect anything that ended while this one was being claimed.           *)
Collect(o) ==
  /\ at = "collecting"
  /\ Join(o)
  /\ UNCHANGED at

CollectedAll ==
  /\ at = "collecting"
  /\ unjoined = None
  /\ at' = "top"
  /\ UNCHANGED <<rows, taken, phase, unjoined, thisRun>>

Drain(o) ==
  /\ at = "draining"
  /\ Join(o)
  /\ UNCHANGED at

Drained ==
  /\ at = "draining"
  /\ TasksLen = 0
  /\ at' = "returned"
  /\ UNCHANGED <<rows, taken, phase, unjoined, thisRun>>

(* The summary is printed and the process ends.                            *)
Exit ==
  /\ at = "returned"
  /\ at' = "idle"
  /\ UNCHANGED <<rows, taken, phase, unjoined, thisRun>>

(* The tasks and what they have not reported are gone.                     *)
Abandon ==
  /\ at' = "idle"
  /\ taken' = Nobody
  /\ phase' = NoTask
  /\ unjoined' = None
  /\ UNCHANGED <<rows, thisRun>>

(* A ledger command of the loop fails: run returns the error, the JoinSet  *)
(* is dropped and its tasks are aborted where they stand.                  *)
GiveUp ==
  /\ LedgerFails
  /\ at \in {"claiming", "placing"}
  /\ at = "claiming" => ~NoRoom
  /\ at = "placing" => taken \in excluded
  /\ Abandon

(* A second Ctrl-C, or a kill.                                             *)
Kill == at # "idle" /\ Abandon

-----------------------------------------------------------------------------
(* The tasks.                                                              *)

Moves(f, a, b) ==
  /\ phase[f] = a
  /\ phase' = [phase EXCEPT ![f] = b]
  /\ UNCHANGED <<rows, at, taken, unjoined, thisRun>>

(* The lease of remote quota: there is room, or the task waits for it.     *)
AsksForQuota(f) == execute /\ (Moves(f, "working", "uploading") \/ Moves(f, "working", "waiting"))

GetsQuota(f) == Moves(f, "waiting", "uploading")

Ended(f, o) ==
  /\ phase' = [phase EXCEPT ![f] = "none"]
  /\ unjoined' = [unjoined EXCEPT ![o] = @ + 1]
  /\ UNCHANGED <<at, taken, started, execute, limit, excluded, cancelled, late>>

(* Its last write is in the ledger; all that is left is to report.         *)
Ends(f, o) == Ended(f, o) /\ UNCHANGED stranded

(* A dry run leaves the row where it found it.                             *)
Converts(f) ==
  /\ phase[f] = IF execute THEN "uploading" ELSE "working"
  /\ Ends(f, "converted")
  /\ rows' = IF execute THEN RecordConversion(rows, f, f, NoHash)
             ELSE SetState(rows, f, "pending", "none")

Skips(f, why) ==
  /\ phase[f] = "working"
  /\ Ends(f, "skipped")
  /\ rows' = SetState(rows, f, "skipped", why)

(* mutant: every error puts its file back, to be tried again               *)
ErrsAsPending(f) == \E p \in {"working", "uploading"} : Moves(f, p, "interrupted")

(* An error is an interruption if Ctrl-C has been seen, else a failure.    *)
Errs(f) ==
  \E p \in {"working", "uploading"} : Moves(f, p, IF cancelled THEN "interrupted" ELSE "failing")

(* The verdict is written, Ctrl-C or not in the meantime.                  *)
Settles(f) ==
  \/ /\ phase[f] = "failing"
     /\ Ends(f, "failed")
     /\ rows' = SetState(rows, f, "failed", "none")
  \/ /\ phase[f] = "interrupted"
     /\ Ends(f, "cancelled")
     /\ rows' = SetState(rows, f, "pending", "none")

(* The task panics, or its last write to the ledger fails and the error is *)
(* ignored: the outcome is merged, the row stays claimed.                  *)
Stranded(f) ==
  /\ Strands
  /\ \/ phase[f] # "none" /\ Ended(f, "failed")
     \/ phase[f] = "interrupted" /\ Ended(f, "cancelled")
  /\ stranded' = stranded \cup {f}
  /\ UNCHANGED rows

Task(f) ==
  \/ AsksForQuota(f)
  \/ Converts(f)
  \/ \E why \in {"nature", "settings"} : Skips(f, why)
  \/ Errs(f) \/ Settles(f)
  \/ Stranded(f)

Loop ==
  \/ Top \/ ClaimNext \/ Place \/ CollectedAll \/ Drained \/ GiveUp
  \/ \E o \in Outcomes : WaitForRoom(o) \/ Collect(o) \/ Drain(o)

Next ==
  \/ \E retry \in BOOLEAN, out \in SUBSET Files : Start(retry, out)
  \/ Cancel \/ Loop \/ Exit \/ Kill
  \/ \E f \in Files : Task(f) \/ GetsQuota(f)

Spec == Init /\ [][Next]_vars

(* The loop is polled whenever it can go on.  A task comes to its end as   *)
(* long as no other waits for quota, with all the staging space it holds:  *)
(* a transfer gives up when it stalls, an encoder reads a finite file.     *)
(* Nothing says that quota is ever given to those who wait for it, nor     *)
(* that anybody presses Ctrl-C or starts another run.                      *)
Unhindered(f) == Task(f) /\ \A g \in Files : phase[g] # "waiting"

FairSpec == Spec /\ WF_vars(Loop) /\ \A f \in Files : WF_vars(Unhindered(f))
-----------------------------------------------------------------------------
(* Properties.                                                             *)

TypeOK ==
  /\ rows \in Table(Files, {"listed"}, {NoHash})
  /\ at \in {"idle", "top", "claiming", "placing", "collecting", "draining",
             "returned"}
  /\ taken \in Files \cup {Nobody}
  /\ phase \in [Files -> Phases]
  /\ unjoined \in [Outcomes -> 0..MaxInFlight]
  /\ started \in Nat
  /\ execute \in BOOLEAN
  /\ limit \in Limits \cup DryLimits \cup {NoLimit}
  /\ excluded \subseteq Files
  /\ cancelled \in BOOLEAN
  /\ late \in Nat
  /\ stranded \subseteq Files

(* A run that returns because nothing was pending has left nothing behind: *)
(* each file was settled, and only what the scope excludes was set aside   *)
(* for it, even when an earlier run had another scope.  A row put back by  *)
(* a task can only be there because of Ctrl-C.                             *)
NothingOverlooked ==
  (at = "returned" /\ execute /\ ~cancelled /\ ~LimitReached) =>
    /\ InState(rows, "pending") = {}
    /\ \A f \in Files : rows[f].state = "skipped" /\ rows[f].reason = "out_of_scope"
                          => f \in excluded

(* After Ctrl-C at most one more file is taken, by a loop that was waiting *)
(* for room when it came: the README's line 356, "The first Ctrl-C stops   *)
(* new files being claimed", is off by that one (pipeline.rs, 163-190).    *)
AtMostOneLate == late <= 1

(* A claimed row belongs to one task, or to the loop that is about to give *)
(* it one, whatever an earlier run left behind when it was killed or gave  *)
(* up (ledger.rs, recover_claimed): no file is taken twice, and none stays *)
(* claimed but those whose own task panicked or could not write its row,   *)
(* which this run does not take again (pipeline.rs, lines 176 and 333-345).*)
ClaimedHasOwner ==
  at # "idle" =>
    /\ InState(rows, "claimed") = Running \cup ({taken} \ {Nobody}) \cup stranded
    /\ taken \notin Running /\ (Running \cup {taken}) \cap stranded = {}

(* Every run ends: when nothing is pending, at the limit, or after Ctrl-C  *)
(* (pipeline.rs, lines 154-155), unless some task waits for quota for ever *)
(* (lines 588-592), Ctrl-C or not.  A dry run without a limit ends only    *)
(* after Ctrl-C: its rows go back to pending while the loop still claims.  *)
Terminates ==
  \/ at # "idle" /\ (execute \/ limit # NoLimit \/ cancelled) ~> at \in {"returned", "idle"}
  \/ <>[](\E f \in Files : phase[f] = "waiting")
=============================================================================
