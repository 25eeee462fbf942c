------------------------- MODULE LedgerTableProofs -------------------------
(***************************************************************************)
(* What each ledger command preserves: applied to a table it yields a      *)
(* table.  Stated once, for any paths, sizes and hashes, and cited by the  *)
(* proofs about the modules that own a table.                              *)
(***************************************************************************)
EXTENDS LedgerTable, TLAPS

(* Two tables agree on what is done: the same rows are, and they are equal *)
(* there.                                                                  *)
SameDone(rows, others) ==
  \A p \in DOMAIN rows : /\ rows[p].state = "done" <=> others[p].state = "done"
                         /\ rows[p].state = "done" => others[p] = rows[p]

(* A path whose row is in a proper state has a row, and conversely.        *)
LEMMA HasRowIsRow ==
  ASSUME NEW Paths, NEW Sizes, NEW Hashes, NEW rows \in Table(Paths, Sizes, Hashes),
         NEW p \in Paths
  PROVE  /\ HasRow(rows, p) <=> rows[p] \in Row(Paths, Sizes, Hashes)
         /\ rows[p].state \in States => HasRow(rows, p)
         /\ DOMAIN rows = Paths
  BY DEF Table, Row, Absent, HasRow, States

(* Claim takes a table to a table (do_claim_next).                         *)
LEMMA ClaimIsTable ==
  ASSUME NEW Paths, NEW Sizes, NEW Hashes, NEW rows \in Table(Paths, Sizes, Hashes),
         NEW p \in Paths, rows[p].state = "pending"
  PROVE  Claim(rows, p) \in Table(Paths, Sizes, Hashes)
  <1>1. rows[p] \in Row(Paths, Sizes, Hashes)
    BY HasRowIsRow DEF States
  <1>2. [rows[p] EXCEPT !.state = "claimed"] \in Row(Paths, Sizes, Hashes)
    BY <1>1 DEF Row, States
  <1> QED
    BY <1>2 DEF Claim, Table

(* set_state takes a table to a table (do_set_state).                      *)
LEMMA SetStateIsTable ==
  ASSUME NEW Paths, NEW Sizes, NEW Hashes, NEW rows \in Table(Paths, Sizes, Hashes),
         NEW p \in Paths, NEW s \in States, NEW why \in Reasons
  PROVE  SetState(rows, p, s, why) \in Table(Paths, Sizes, Hashes)
  <1>1. CASE ~HasRow(rows, p)
    BY <1>1 DEF SetState
  <1>2. CASE HasRow(rows, p)
    <2>1. rows[p] \in Row(Paths, Sizes, Hashes)
      BY <1>2, HasRowIsRow
    <2>2. [rows[p] EXCEPT !.state = s, !.reason = why] \in Row(Paths, Sizes, Hashes)
      BY <2>1 DEF Row
    <2> QED
      BY <1>2, <2>2 DEF SetState, Table
  <1> QED
    BY <1>1, <1>2

(* recover_claimed takes a table to a table (do_recover_claimed).          *)
LEMMA RecoverIsTable ==
  ASSUME NEW Paths, NEW Sizes, NEW Hashes, NEW rows \in Table(Paths, Sizes, Hashes)
  PROVE  RecoverClaimed(rows) \in Table(Paths, Sizes, Hashes)
  <1>1. ASSUME NEW p \in Paths, rows[p].state = "claimed"
        PROVE  [rows[p] EXCEPT !.state = "pending"] \in Row(Paths, Sizes, Hashes)
    <2>1. rows[p] \in Row(Paths, Sizes, Hashes)
      BY <1>1, HasRowIsRow DEF States
    <2> QED
      BY <2>1 DEF Row, States
  <1> QED
    BY <1>1 DEF RecoverClaimed, Table

(* retry_failed takes a table to a table (do_retry_failed).                *)
LEMMA RetryIsTable ==
  ASSUME NEW Paths, NEW Sizes, NEW Hashes, NEW rows \in Table(Paths, Sizes, Hashes)
  PROVE  RetryFailed(rows) \in Table(Paths, Sizes, Hashes)
  <1>1. ASSUME NEW p \in Paths, rows[p].state = "failed"
        PROVE  [rows[p] EXCEPT !.state = "pending", !.reason = "none"]
                 \in Row(Paths, Sizes, Hashes)
    <2>1. rows[p] \in Row(Paths, Sizes, Hashes)
      BY <1>1, HasRowIsRow DEF States
    <2> QED
      BY <2>1 DEF Row, States, Reasons
  <1> QED
    BY <1>1 DEF RetryFailed, Table

(* reopen_skipped takes a table to a table (do_reopen_skipped).            *)
LEMMA ReopenIsTable ==
  ASSUME NEW Paths, NEW Sizes, NEW Hashes, NEW rows \in Table(Paths, Sizes, Hashes),
         NEW reasons
  PROVE  ReopenSkipped(rows, reasons) \in Table(Paths, Sizes, Hashes)
  <1>1. ASSUME NEW p \in Paths, rows[p].state = "skipped"
        PROVE  [rows[p] EXCEPT !.state = "pending", !.reason = "none"]
                 \in Row(Paths, Sizes, Hashes)
    <2>1. rows[p] \in Row(Paths, Sizes, Hashes)
      BY <1>1, HasRowIsRow DEF States
    <2> QED
      BY <2>1 DEF Row, States, Reasons
  <1> QED
    BY <1>1 DEF ReopenSkipped, Table

(* record_conversion takes a table to a table (do_record_conversion).      *)
LEMMA RecordIsTable ==
  ASSUME NEW Paths, NEW Sizes, NEW Hashes, NEW rows \in Table(Paths, Sizes, Hashes),
         NEW p \in Paths, NEW output \in Paths, NEW digest \in Hashes
  PROVE  RecordConversion(rows, p, output, digest) \in Table(Paths, Sizes, Hashes)
  <1>1. CASE ~HasRow(rows, p)
    BY <1>1 DEF RecordConversion
  <1>2. CASE HasRow(rows, p)
    <2> DEFINE done == [rows[p] EXCEPT !.state = "done", !.reason = "none", !.output = output,
                                       !.hash = digest, !.trashed = TRUE, !.reclaimed = FALSE]
    <2>1. rows[p] \in Row(Paths, Sizes, Hashes)
      BY <1>2, HasRowIsRow
    <2>2. done \in Row(Paths, Sizes, Hashes)
      BY <2>1 DEF Row, States, Reasons
    <2>3. RecordConversion(rows, p, output, digest) = [rows EXCEPT ![p] = done]
      BY <1>2 DEF RecordConversion, Table
    <2> QED
      BY <2>2, <2>3 DEF Table
  <1> QED
    BY <1>1, <1>2

(* mark_reclaimed takes a table to a table (do_mark_reclaimed).            *)
LEMMA MarkIsTable ==
  ASSUME NEW Paths, NEW Sizes, NEW Hashes, NEW rows \in Table(Paths, Sizes, Hashes)
  PROVE  MarkReclaimed(rows) \in Table(Paths, Sizes, Hashes)
  <1>1. ASSUME NEW p \in Paths, rows[p].state = "done"
        PROVE  [rows[p] EXCEPT !.reclaimed = TRUE] \in Row(Paths, Sizes, Hashes)
    <2>1. rows[p] \in Row(Paths, Sizes, Hashes)
      BY <1>1, HasRowIsRow DEF States
    <2> QED
      BY <2>1 DEF Row
  <1> QED
    BY <1>1 DEF MarkReclaimed, PendingReclaim, Table

(* sync takes a table to a table, whatever part of the remote was listed   *)
(* (do_sync).                                                              *)
LEMMA SyncIsTable ==
  ASSUME NEW Paths, NEW Sizes, NEW Hashes, NEW rows \in Table(Paths, Sizes, Hashes),
         NEW scope, NEW listing, DOMAIN listing \subseteq Paths,
         \A p \in DOMAIN listing : /\ listing[p].size \in Sizes
                                   /\ listing[p].hash \in Hashes \cup {NoHash}
  PROVE  Sync(rows, scope, listing) \in Table(Paths, Sizes, Hashes)
  <1>1. ASSUME NEW p \in Paths, p \in DOMAIN listing
        PROVE  Upsert(rows[p], listing[p]) \in Row(Paths, Sizes, Hashes)
    <2>1. CASE rows[p].state = "absent"
      BY <1>1, <2>1 DEF Upsert, Fresh, Row, States, Reasons
    <2>2. CASE rows[p].state # "absent"
      <3>1. rows[p] \in Row(Paths, Sizes, Hashes)
        BY <2>2, HasRowIsRow DEF HasRow
      <3> QED
        BY <1>1, <2>2, <3>1 DEF Upsert, Refresh, Row, States, Reasons
    <2> QED
      BY <2>1, <2>2
  <1> QED
    BY <1>1 DEF Sync, Table

(* Claiming, failing, skipping, recovering, retrying and reopening leave   *)
(* the finished rows alone (do_claim_next, do_set_state,                   *)
(* do_recover_claimed, do_retry_failed, do_reopen_skipped).                *)
LEMMA DoneIsLeftAlone ==
  ASSUME NEW Paths, NEW Sizes, NEW Hashes, NEW rows \in Table(Paths, Sizes, Hashes)
  PROVE  /\ SameDone(rows, RecoverClaimed(rows))
         /\ SameDone(rows, RetryFailed(rows))
         /\ \A reasons : SameDone(rows, ReopenSkipped(rows, reasons))
         /\ \A p \in Paths : rows[p].state = "pending" => SameDone(rows, Claim(rows, p))
         /\ \A p \in Paths, s \in States, why \in Reasons :
              rows[p].state # "done" /\ s # "done" => SameDone(rows, SetState(rows, p, s, why))
  <1>0. /\ DOMAIN rows = Paths
        /\ \A p \in Paths : HasRow(rows, p) => rows[p] \in Row(Paths, Sizes, Hashes)
    <2>1. ASSUME NEW p \in Paths, HasRow(rows, p)
          PROVE  rows[p] \in Row(Paths, Sizes, Hashes)
      BY <2>1, HasRowIsRow
    <2> QED
      BY <2>1 DEF Table
  <1>1. \A p \in Paths : rows[p].state = "claimed" => HasRow(rows, p)
    BY DEF HasRow
  <1>2. SameDone(rows, RecoverClaimed(rows))
    BY <1>0, <1>1 DEF SameDone, RecoverClaimed, Row
  <1>3. SameDone(rows, RetryFailed(rows))
    BY <1>0 DEF SameDone, RetryFailed, Row, HasRow
  <1>4. ASSUME NEW reasons
        PROVE  SameDone(rows, ReopenSkipped(rows, reasons))
    BY <1>0 DEF SameDone, ReopenSkipped, Row, HasRow
  <1>5. ASSUME NEW p \in Paths, rows[p].state = "pending"
        PROVE  SameDone(rows, Claim(rows, p))
    <2>1. [rows[p] EXCEPT !.state = "claimed"].state = "claimed"
      BY <1>0, <1>5 DEF Row, HasRow
    <2> QED
      BY <1>0, <1>5, <2>1 DEF SameDone, Claim
  <1>6. ASSUME NEW p \in Paths, NEW s \in States, NEW why \in Reasons,
               rows[p].state # "done", s # "done"
        PROVE  SameDone(rows, SetState(rows, p, s, why))
    <2>1. CASE HasRow(rows, p)
      <3> DEFINE u == [rows EXCEPT ![p].state = s, ![p].reason = why]
      <3>1. rows[p] \in Row(Paths, Sizes, Hashes)
        BY <1>0, <2>1
      <3>2. u[p].state = s
        BY <1>0, <3>1 DEF Row
      <3>3. \A q \in Paths : q # p => u[q] = rows[q]
        BY <1>0
      <3> QED
        BY <1>0, <1>6, <2>1, <3>2, <3>3 DEF SameDone, SetState
    <2>2. CASE ~HasRow(rows, p)
      BY <2>2 DEF SameDone, SetState
    <2> QED
      BY <2>1, <2>2
  <1> QED
    BY <1>2, <1>3, <1>4, <1>5, <1>6

(* A finished row stays finished through a scan unless the listing shows   *)
(* its path with another size, and no scan finishes a row (do_sync).       *)
LEMMA ScanOfDone ==
  ASSUME NEW Paths, NEW Sizes, NEW Hashes, NEW rows \in Table(Paths, Sizes, Hashes),
         NEW scope, NEW listing, NEW p \in Paths
  PROVE  LET after == Sync(rows, scope, listing)[p] IN
         /\ after.state = "done" =>
              /\ rows[p].state = "done"
              /\ p \notin DOMAIN listing => after = rows[p]
              /\ p \in DOMAIN listing =>
                   /\ after.hash = listing[p].hash
                   /\ after.output = rows[p].output
                   /\ after.trashed = rows[p].trashed
                   /\ after.reclaimed = rows[p].reclaimed
         /\ rows[p].state = "done" /\ after.state # "done" =>
              p \in DOMAIN listing /\ listing[p].size # rows[p].size
  <1> DEFINE after == Sync(rows, scope, listing)[p]
  <1>1. DOMAIN rows = Paths
    BY DEF Table
  <1>2. CASE p \notin DOMAIN listing
    <2>1. after = IF p \in scope /\ Swept(rows[p]) THEN Absent ELSE rows[p]
      BY <1>1, <1>2 DEF Sync
    <2> QED
      BY <1>2, <2>1 DEF Swept, Absent
  <1>3. CASE p \in DOMAIN listing /\ rows[p].state = "absent"
    <2>1. after = Fresh(listing[p])
      BY <1>1, <1>3 DEF Sync, Upsert
    <2> QED
      BY <1>3, <2>1 DEF Fresh
  <1>4. CASE p \in DOMAIN listing /\ rows[p].state # "absent"
    <2>1. after = Refresh(rows[p], listing[p])
      BY <1>1, <1>4 DEF Sync, Upsert
    <2>2. rows[p] \in Row(Paths, Sizes, Hashes)
      BY <1>4, HasRowIsRow DEF HasRow
    <2>3. CASE rows[p].size # listing[p].size
      <3>1. after.state = "pending"
        BY <2>1, <2>2, <2>3 DEF Refresh, Row
      <3> QED
        BY <1>4, <2>3, <3>1
    <2>4. CASE rows[p].size = listing[p].size
      <3>1. /\ after.state = rows[p].state /\ after.hash = listing[p].hash
            /\ after.output = rows[p].output /\ after.trashed = rows[p].trashed
            /\ after.reclaimed = rows[p].reclaimed
        BY <2>1, <2>2, <2>4 DEF Refresh, Row
      <3> QED
        BY <1>4, <3>1
    <2> QED
      BY <2>3, <2>4
  <1> QED
    BY <1>2, <1>3, <1>4
=============================================================================
