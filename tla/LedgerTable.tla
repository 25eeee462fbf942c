---------------------------- MODULE LedgerTable ----------------------------
(***************************************************************************)
(* The rows of the SQLite ledger and what each command of its actor does   *)
(* to them, as operators from a table to a table.  A table is a function   *)
(* from every path to its row; a path without a row maps to Absent.  The   *)
(* actor runs one command at a time, each in one transaction, so a module  *)
(* that owns the table takes one of these operators as a single step.      *)
(***************************************************************************)
CONSTANTS
  NoPath,     \* output_path IS NULL
  NoHash      \* blake3 IS NULL

States == {"pending", "claimed", "done", "skipped", "failed"}

(* Why a row is skipped, by what may reopen it: its bytes ("nature"), the  *)
(* settings of the run ("settings"), or the scope of the run.              *)
Reasons == {"none", "nature", "settings", "out_of_scope"}

Row(Paths, Sizes, Hashes) ==
  [ state     : States,
    reason    : Reasons,
    size      : Sizes,
    hash      : Hashes \cup {NoHash},
    output    : Paths \cup {NoPath},
    trashed   : BOOLEAN,
    reclaimed : BOOLEAN ]

Absent == [state |-> "absent"]

Table(Paths, Sizes, Hashes) == [Paths -> Row(Paths, Sizes, Hashes) \cup {Absent}]

HasRow(rows, p) == rows[p].state # "absent"

InState(rows, s) == {p \in DOMAIN rows : rows[p].state = s}

-----------------------------------------------------------------------------
(* do_sync: insert what the listing shows and the ledger does not know,    *)
(* refresh what it knows, reset it to pending when the size differs, then  *)
(* sweep the rows under the scanned scope that were not listed, unless     *)
(* they are done.  A listing maps the listed paths to [size, hash].        *)

Fresh(entry) ==
  [ state |-> "pending", reason |-> "none", size |-> entry.size, hash |-> entry.hash,
    output |-> NoPath, trashed |-> FALSE, reclaimed |-> FALSE ]

Refresh(row, entry) ==
  LET changed == row.size # entry.size IN
  [row EXCEPT !.size   = entry.size,
              !.hash   = entry.hash,
              !.state  = IF changed THEN "pending" ELSE @,
              !.reason = IF changed THEN "none" ELSE @]

Upsert(row, entry) == IF row.state = "absent" THEN Fresh(entry) ELSE Refresh(row, entry)

(* mutant: a finished row is swept like any other                          *)
SweptToo(row) == TRUE

Swept(row) == row.state # "done"

Sync(rows, scope, listing) ==
  [p \in DOMAIN rows |->
     IF p \in DOMAIN listing THEN Upsert(rows[p], listing[p])
     ELSE IF p \in scope /\ Swept(rows[p]) THEN Absent
     ELSE rows[p]]

-----------------------------------------------------------------------------
(* claim_next takes one of these rows; which one is the run's order.       *)
Claimable(rows, within) == {p \in within : rows[p].state = "pending"}

Claim(rows, p) == [rows EXCEPT ![p].state = "claimed"]

(* set_state fails when there is no row; the table is then unchanged.      *)
SetState(rows, p, s, why) ==
  IF HasRow(rows, p) THEN [rows EXCEPT ![p].state = s, ![p].reason = why] ELSE rows

RecoverClaimed(rows) ==
  [p \in DOMAIN rows |->
     IF rows[p].state = "claimed" THEN [rows[p] EXCEPT !.state = "pending"] ELSE rows[p]]

RetryFailed(rows) ==
  [p \in DOMAIN rows |->
     IF rows[p].state = "failed"
     THEN [rows[p] EXCEPT !.state = "pending", !.reason = "none"] ELSE rows[p]]

ReopenSkipped(rows, reasons) ==
  [p \in DOMAIN rows |->
     IF rows[p].state = "skipped" /\ rows[p].reason \in reasons
     THEN [rows[p] EXCEPT !.state = "pending", !.reason = "none"] ELSE rows[p]]

RecordConversion(rows, p, output, digest) ==
  IF HasRow(rows, p)
  THEN [rows EXCEPT ![p].state = "done", ![p].reason = "none", ![p].output = output,
                    ![p].hash = digest, ![p].trashed = TRUE, ![p].reclaimed = FALSE]
  ELSE rows

-----------------------------------------------------------------------------
(* The rows whose original the ledger believes is still in the trash.      *)
PendingReclaim(rows) ==
  {p \in DOMAIN rows : /\ rows[p].state = "done"
                       /\ rows[p].trashed
                       /\ ~rows[p].reclaimed}

MarkReclaimed(rows) ==
  [p \in DOMAIN rows |->
     IF p \in PendingReclaim(rows) THEN [rows[p] EXCEPT !.reclaimed = TRUE] ELSE rows[p]]

(* What verify, restore and report work from.                              *)
Completed(rows) == {p \in DOMAIN rows : rows[p].state = "done" /\ rows[p].output # NoPath}
=============================================================================
