--------------------------- MODULE ReplaceProofs ---------------------------
(***************************************************************************)
(* For every library, every set of convertible files and every bound on    *)
(* the jobs in flight, on a backend that reports hashes: NothingLost and   *)
(* DoneIsTrue of module Replace, and that it implements module Promise.    *)
(* Its type invariant does not even need the hashes.                       *)
(***************************************************************************)
EXTENDS Replace, LedgerTableProofs

-----------------------------------------------------------------------------
(* The inductive invariant.  NothingLost and DoneIsTrue are not inductive: *)
(* they say nothing of jobs half way, of calls that are still to land, nor *)
(* why a later scan leaves a done row alone.                               *)

Working  == {"claimed", "fetched", "encoded", "clear", "uploaded", "confirmed", "deleted",
             "renamed"}
Encoded  == {"encoded", "clear", "uploaded", "confirmed", "deleted", "renamed"}
Carrying == Encoded \cup {"fetched"}

(* A job that has encoded worked from what the policy converts.            *)
Sourced(p) == job[p].phase \in Encoded => job[p].input = Source[p]

(* What holds of every convertible file, whoever shares its names: its job *)
(* holds the row, has no call behind it, and writes to no file that no     *)
(* recipe converts, because it found the name taken.                       *)
Owned(p) ==
  /\ Sourced(p)
  /\ job[p].phase # "idle" => rows[p].state = "claimed" /\ up
  /\ job[p].phase \in Working => late[p] = "none"
  /\ job[p].phase = "renamed" => InPlace(p)
  /\ late[p] = "rename" => InPlace(p)
  /\ Target(p) \in Library \ Convertible =>
       /\ job[p].phase \notin {"clear", "uploaded", "confirmed"}
       /\ late[p] \in {"none", "delete"}

(* The rest is about the files that share no name.  Beside the original a  *)
(* target is uploaded to only while the original is live; once the upload  *)
(* is confirmed the target holds the replacement.                          *)
JobKnows(p) ==
  /\ job[p].phase \in Carrying /\ job[p].input = Original(p) => rows[p].size = Original(p)
  /\ job[p].phase \in {"clear", "uploaded", "confirmed"} => InPlace(p) \/ live[p] = Original(p)
  /\ job[p].phase = "uploaded" => live[Target(p)] \in {Converted(p), Torn(p)}
  /\ job[p].phase \in {"confirmed", "deleted"} => live[Target(p)] = Converted(p)
  /\ job[p].phase = "deleted" => live[p] = Nothing
  /\ job[p].phase = "renamed" => live[p] = Converted(p)

(* The same of a call that nobody waits for any more.                      *)
LateKnows(p) ==
  /\ late[p] \in {"upload", "withdraw"} => InPlace(p) \/ live[p] = Original(p)
  /\ late[p] \in {"delete", "rename"} => live[Target(p)] = Converted(p)
  /\ late[p] = "rename" => live[p] = Nothing

(* Where a whole copy of the file is, or that its name is empty.           *)
CopyAt(p) ==
  IF InPlace(p) THEN live[p] \in {Original(p), Converted(p), Nothing}
  ELSE live[p] = Original(p) \/ live[Out[p]] = Converted(p)

(* An original that is live was listed with its own size, so a done row is *)
(* reset by a scan exactly when it was replaced in place.                  *)
RowKnows(p) ==
  /\ live[p] = Original(p) /\ HasRow(rows, p) => rows[p].size = Original(p)
  /\ rows[p].state = "done" =>
       /\ rows[p].size = Original(p)
       /\ rows[p].output = Out[p]
       /\ rows[p].hash = Original(p)
       /\ live[Out[p]] = Converted(p)
       /\ live[p] = IF InPlace(p) THEN Converted(p) ELSE Nothing
       /\ late[p] = "none"

FileInv(p) == JobKnows(p) /\ LateKnows(p) /\ CopyAt(p) /\ RowKnows(p)

IInv ==
  /\ TypeOK
  /\ \A p \in Convertible : Owned(p)
  /\ \A p \in Kept \cap Convertible : FileInv(p)
  /\ \A p \in Library \ Convertible : live[p] = Original(p)
  /\ \A p \in Paths \ Convertible : job[p].phase = "idle"

-----------------------------------------------------------------------------
(* Types.                                                                  *)

(* What a scan lists has the types a table expects (run_scan).             *)
LEMMA ListingTyped ==
  ASSUME TypeOK
  PROVE  /\ DOMAIN Listing \subseteq Paths
         /\ \A p \in DOMAIN Listing : /\ Listing[p].size \in Contents
                                      /\ Listing[p].hash \in Contents \cup {NoHash}
  BY DEF TypeOK, Listing

LEMMA ContentsTyped ==
  ASSUME NEW p \in Paths
  PROVE  /\ Original(p) \in Contents
         /\ Converted(p) \in Contents
         /\ Torn(p) \in Contents
  BY DEF Original, Converted, Torn, Contents, Forms

LEMMA TargetTyped ==
  ASSUME NEW p \in Convertible
  PROVE  /\ p \in Paths
         /\ Out[p] \in Paths
         /\ Part[p] \in Paths
         /\ Target(p) \in Paths
  BY ReplaceAssumption DEF Target

(* What the policy converts is an original or a replacement.               *)
LEMMA SourceTyped ==
  ASSUME NEW p \in Convertible
  PROVE  Source[p] \in Contents
  <1>1. CASE p \in Library
    BY <1>1, ContentsTyped, TargetTyped, ReplaceAssumption
  <1>2. CASE p \notin Library
    <2>1. PICK q \in Convertible : Source[p] = Converted(q)
      BY <1>2, ReplaceAssumption
    <2> QED
      BY <2>1, ContentsTyped, TargetTyped
  <1> QED
    BY <1>1, <1>2

(* Moving a file to the trash keeps the types of both.                     *)
LEMMA TrashTyped ==
  ASSUME TypeOK, NEW n \in Paths, MoveToTrash(n)
  PROVE  /\ live' \in [Paths -> Contents \cup {Nothing}]
         /\ trash' \subseteq Contents
  BY DEF TypeOK, MoveToTrash

LEMMA InitTyped == Init => TypeOK
  <1> SUFFICES ASSUME Init PROVE TypeOK
    OBVIOUS
  <1>1. live \in [Paths -> Contents \cup {Nothing}]
    BY ContentsTyped DEF Init
  <1>2. rows \in Table(Paths, Contents, Contents)
    BY ContentsTyped DEF Init, Table, Row, Fresh, States, Reasons
  <1>3. job \in [Paths -> [phase : Phases, input : Contents \cup {Nothing}]]
    BY DEF Init, Idle, Phases
  <1> QED
    BY <1>1, <1>2, <1>3 DEF Init, TypeOK

(* A job's own stages keep the types; what it records is what it fetched.  *)
LEMMA ProcessTyped ==
  ASSUME TypeOK, NEW p \in Convertible, Sourced(p), Process(p)
  PROVE  TypeOK'
  <1> DEFINE Jobs == [Paths -> [phase : Phases, input : Contents \cup {Nothing}]]
             Rows == Table(Paths, Contents, Contents)
  <1> USE TargetTyped, ContentsTyped
  <1>1. ASSUME NEW to \in Phases, job' = [job EXCEPT ![p].phase = to]
        PROVE  job' \in Jobs
    BY <1>1 DEF TypeOK
  <1>2. ASSUME job' = [job EXCEPT ![p] = Idle]
        PROVE  job' \in Jobs
    BY <1>2 DEF TypeOK, Idle, Phases
  <1>3. ASSUME NEW s \in States, NEW why \in Reasons, rows' = SetState(rows, p, s, why)
        PROVE  rows' \in Rows
    BY <1>3, SetStateIsTable DEF TypeOK
  <1>4. ASSUME NEW why \in {"nature", "settings"}, Decline(p, why)
        PROVE  TypeOK'
    BY <1>2, <1>3, <1>4 DEF TypeOK, Decline, States, Reasons
  <1>5. ASSUME Fetch(p) \/ Reuse(p)
        PROVE  TypeOK'
    <2>1. PICK c \in Contents \cup {Nothing} :
                 job' = [job EXCEPT ![p] = [phase |-> "fetched", input |-> c]]
      BY <1>5 DEF TypeOK, Fetch, Reuse
    <2>2. job' \in Jobs
      BY <2>1 DEF TypeOK, Phases
    <2>3. /\ staged' = [staged EXCEPT ![p] = Nothing]
          /\ UNCHANGED <<live, trash, rows, late, up, cancelled, purger>>
      BY <1>5 DEF Fetch, Reuse
    <2> QED
      BY <2>2, <2>3 DEF TypeOK
  <1>6. ASSUME Encode(p) \/ CheckDestination(p) \/ Confirm(p) \/ JobFails(p) \/ Errs(p)
        PROVE  TypeOK'
    BY <1>1, <1>6
       DEF TypeOK, Encode, CheckDestination, Confirm, JobFails, Errs, Step, Phases
  <1>7. ASSUME ReclaimIfLow(p)
        PROVE  TypeOK'
    BY <1>7 DEF TypeOK, ReclaimIfLow, EmptyTrash
  <1>8. ASSUME Upload(p)
        PROVE  TypeOK'
    BY <1>1, <1>8 DEF TypeOK, Upload, Step, Phases
  <1>9. ASSUME NEW from, NEW call \in Calls, GivesUp(p, from, call)
        PROVE  TypeOK'
    BY <1>1, <1>9 DEF TypeOK, GivesUp, Step, Phases
  <1>10. ASSUME DeleteOriginal(p) \/ (ConfirmFails(p) /\ ~GivesUp(p, "uploaded", "withdraw"))
         PROVE  TypeOK'
    BY <1>1, <1>10, TrashTyped DEF TypeOK, ConfirmFails, DeleteOriginal, Step, Phases
  <1>11. ASSUME Rename(p)
         PROVE  TypeOK'
    BY <1>1, <1>11 DEF TypeOK, Rename, MoveIntoPlace, Step, Phases
  <1>12. ASSUME Settle(p)
         PROVE  TypeOK'
    <2>1. rows' \in Rows
      <3>1. rows' = rows \/ \E s \in {"failed", "pending"} : rows' = SetState(rows, p, s, "none")
        BY <1>12 DEF Settle
      <3> QED
        BY <1>3, <3>1 DEF TypeOK, States, Reasons
    <2> QED
      BY <1>2, <1>12, <2>1 DEF TypeOK, Settle
  <1>13. ASSUME Record(p)
         PROVE  TypeOK'
    <2>1. job[p].input \in Contents
      BY <1>13, SourceTyped DEF Record, Replaced, Sourced, Encoded
    <2>2. rows' \in Rows
      BY <1>13, <2>1, RecordIsTable DEF TypeOK, Record
    <2> QED
      BY <1>2, <1>13, <2>2 DEF TypeOK, Record
  <1> QED
    BY <1>4, <1>5, <1>6, <1>7, <1>8, <1>9, <1>10, <1>11, <1>12, <1>13
       DEF Process, UploadFails, ConfirmFails, DeleteFails, RenameFails, Calls

(* A call that lands late writes what it would have written in time.       *)
LEMMA LandsTyped ==
  ASSUME TypeOK, NEW p \in Convertible, Lands(p) \/ Discard(p)
  PROVE  TypeOK'
  <1> USE TargetTyped, ContentsTyped
  <1>1. ASSUME Discard(p)
        PROVE  TypeOK'
    BY <1>1 DEF TypeOK, Discard
  <1>2. ASSUME Lands(p)
        PROVE  TypeOK'
    <2>1. live' \in [Paths -> Contents \cup {Nothing}] /\ trash' \subseteq Contents
      <3>1. CASE MoveToTrash(Target(p)) \/ MoveToTrash(p)
        BY <3>1, TrashTyped
      <3>2. CASE MoveIntoPlace(p) /\ UNCHANGED trash
        BY <3>2 DEF TypeOK, MoveIntoPlace
      <3>3. CASE /\ \E landed \in {Converted(p), Torn(p)} : live' = [live EXCEPT ![Target(p)] = landed]
                 /\ UNCHANGED trash
        BY <3>3 DEF TypeOK
      <3> QED
        BY <1>2, <3>1, <3>2, <3>3 DEF TypeOK, Lands
    <2>2. late' \in [Convertible -> Calls \cup {"none"}]
      BY <1>2 DEF TypeOK, Lands
    <2> QED
      BY <1>2, <2>1, <2>2 DEF TypeOK, Lands
  <1> QED
    BY <1>1, <1>2

(* The commands that reset rows when a run starts: no row gains a state    *)
(* other than pending, and no row changes its size.                        *)
LEMMA ResetRows ==
  ASSUME TypeOK, NEW retry \in BOOLEAN, Start(retry)
  PROVE  /\ TypeOK'
         /\ \A p \in Paths :
              /\ rows'[p].state = "done" => rows'[p] = rows[p]
              /\ HasRow(rows', p) => HasRow(rows, p) /\ rows'[p].size = rows[p].size
  <1> DEFINE R == RecoverClaimed(rows)
             T == IF retry THEN RetryFailed(R) ELSE R
  <1>1. R \in Table(Paths, Contents, Contents)
    BY RecoverIsTable DEF TypeOK
  <1>2. T \in Table(Paths, Contents, Contents)
    BY <1>1, RetryIsTable
  <1>3. rows' = ReopenSkipped(T, {"settings", "out_of_scope"})
    BY DEF Start
  <1>4. rows' \in Table(Paths, Contents, Contents)
    BY <1>2, <1>3, ReopenIsTable
  <1>5. TypeOK'
    BY <1>4 DEF TypeOK, Start
  <1> SUFFICES ASSUME NEW p \in Paths
               PROVE  /\ rows'[p].state = "done" => rows'[p] = rows[p]
                      /\ HasRow(rows', p) => HasRow(rows, p) /\ rows'[p].size = rows[p].size
    BY <1>5
  <1>6. CASE ~HasRow(rows, p)
    <2>1. rows[p] = Absent
      BY <1>6 DEF TypeOK, Table, Row, HasRow, States
    <2>2. R[p] = Absent
      BY <2>1 DEF RecoverClaimed, TypeOK, Table, Absent
    <2>3. T[p] = Absent
      BY <1>1, <2>2 DEF RetryFailed, Table, Absent
    <2> HIDE DEF R, T
    <2>4. p \in DOMAIN T /\ T[p].state # "skipped"
      BY <1>2, <2>3 DEF Table, Absent
    <2>5. rows'[p] = Absent
      BY <1>3, <2>3, <2>4 DEF ReopenSkipped
    <2> QED
      BY <2>1, <2>5 DEF HasRow, Absent
  <1>7. CASE HasRow(rows, p)
    <2>1. rows[p] \in Row(Paths, Contents, Contents)
      BY <1>7, HasRowIsRow DEF TypeOK
    <2>2. R[p] = IF rows[p].state = "claimed" THEN [rows[p] EXCEPT !.state = "pending"]
                 ELSE rows[p]
      BY DEF RecoverClaimed, TypeOK, Table
    <2>3. /\ R[p] \in Row(Paths, Contents, Contents)
          /\ R[p].size = rows[p].size
          /\ R[p].state = "done" => R[p] = rows[p]
      BY <2>1, <2>2 DEF Row, States
    <2>4. T[p] = IF retry /\ R[p].state = "failed"
                 THEN [R[p] EXCEPT !.state = "pending", !.reason = "none"] ELSE R[p]
      BY <1>1 DEF RetryFailed, Table
    <2>5. /\ T[p] \in Row(Paths, Contents, Contents)
          /\ T[p].size = rows[p].size
          /\ T[p].state = "done" => T[p] = rows[p]
      BY <2>3, <2>4 DEF Row, States, Reasons
    <2>6. rows'[p] = IF T[p].state = "skipped" /\ T[p].reason \in {"settings", "out_of_scope"}
                     THEN [T[p] EXCEPT !.state = "pending", !.reason = "none"] ELSE T[p]
      BY <1>2, <1>3 DEF ReopenSkipped, Table
    <2> HIDE DEF R, T
    <2>7. /\ rows'[p].size = rows[p].size
          /\ rows'[p].state = "done" => rows'[p] = rows[p]
      BY <2>5, <2>6 DEF Row, States, Reasons
    <2> QED
      BY <1>7, <2>7
  <1> QED
    BY <1>6, <1>7

(* A scan: what is listed has the size it has on the remote, what is not   *)
(* listed keeps its row if it is done.                                     *)
LEMMA ScannedRows ==
  ASSUME TypeOK, Scan
  PROVE  /\ TypeOK'
         /\ \A p \in Paths :
              /\ live[p] # Nothing =>
                   /\ rows'[p].size = live[p]
                   /\ rows'[p].state = "done" => rows[p].state = "done"
                                              /\ rows[p].size = live[p]
              /\ live[p] = Nothing /\ rows'[p].state = "done" => rows'[p] = rows[p]
  <1> DEFINE R == RecoverClaimed(rows)
  <1>1. R \in Table(Paths, Contents, Contents)
    BY RecoverIsTable DEF TypeOK
  <1>2. rows' = Sync(R, Paths, Listing)
    BY DEF Scan
  <1>3. rows' \in Table(Paths, Contents, Contents)
    BY <1>1, <1>2, ListingTyped, SyncIsTable
  <1>4. TypeOK'
    BY <1>3 DEF TypeOK, Scan
  <1> SUFFICES ASSUME NEW p \in Paths
               PROVE  /\ live[p] # Nothing =>
                           /\ rows'[p].size = live[p]
                           /\ rows'[p].state = "done" => rows[p].state = "done"
                                                      /\ rows[p].size = live[p]
                      /\ live[p] = Nothing /\ rows'[p].state = "done" => rows'[p] = rows[p]
    BY <1>4
  <1>5. R[p] = IF rows[p].state = "claimed" THEN [rows[p] EXCEPT !.state = "pending"]
               ELSE rows[p]
    BY DEF RecoverClaimed, TypeOK, Table
  <1>6. R[p].state = "done" => R[p] = rows[p]
    <2>1. CASE rows[p].state = "claimed"
      <3>1. rows[p] \in Row(Paths, Contents, Contents)
        BY <2>1, HasRowIsRow DEF TypeOK, States
      <3> QED
        BY <1>5, <2>1, <3>1 DEF Row
    <2> QED
      BY <1>5, <2>1
  <1> HIDE DEF R
  <1>7. CASE live[p] # Nothing
    <2>1. p \in DOMAIN Listing /\ Listing[p] = [size |-> live[p], hash |-> NoHash]
      BY <1>7 DEF Listing
    <2>2. rows'[p] = Upsert(R[p], Listing[p])
      BY <1>1, <1>2, <2>1 DEF Sync, Table
    <2>3. CASE R[p].state = "absent"
      BY <1>7, <2>1, <2>2, <2>3 DEF Upsert, Fresh
    <2>4. CASE R[p].state # "absent"
      <3>1. R[p] \in Row(Paths, Contents, Contents)
        BY <1>1, <2>4, HasRowIsRow DEF HasRow
      <3>2. /\ rows'[p].size = live[p]
            /\ rows'[p].state = "done" => R[p].state = "done" /\ R[p].size = live[p]
        BY <2>1, <2>2, <2>4, <3>1 DEF Upsert, Refresh, Row
      <3> QED
        BY <1>6, <1>7, <3>2
    <2> QED
      BY <2>3, <2>4
  <1>8. CASE live[p] = Nothing
    <2>1. p \notin DOMAIN Listing
      BY <1>8 DEF Listing
    <2>2. rows'[p] = IF Swept(R[p]) THEN Absent ELSE R[p]
      BY <1>1, <1>2, <2>1 DEF Sync, Table
    <2> QED
      BY <1>6, <1>8, <2>2 DEF Absent
  <1> QED
    BY <1>7, <1>8

(* Every command of the run keeps the types.                               *)
LEMMA CommandTyped ==
  ASSUME TypeOK,
         \/ \E retry \in BOOLEAN : Start(retry)
         \/ Cancel \/ Finish \/ Crash \/ Scan \/ Cleanup \/ RecordPurge
         \/ \E p \in Convertible : ClaimNext(p)
  PROVE  TypeOK'
  <1>1. ASSUME NEW retry \in BOOLEAN, Start(retry)
        PROVE  TypeOK'
    BY <1>1, ResetRows
  <1>2. ASSUME Scan
        PROVE  TypeOK'
    BY <1>2, ScannedRows
  <1>3. ASSUME Cancel \/ Finish \/ Cleanup
        PROVE  TypeOK'
    BY <1>3 DEF Cancel, Finish, Cleanup, EmptyTrash, TypeOK, Calls
  <1>4. ASSUME RecordPurge
        PROVE  TypeOK'
    <2>1. MarkReclaimed(rows) \in Table(Paths, Contents, Contents)
      BY MarkIsTable DEF TypeOK
    <2> QED
      BY <1>4, <2>1 DEF RecordPurge, TypeOK
  <1>5. ASSUME Crash
        PROVE  TypeOK'
    <2>1. staged' \in [Convertible -> Contents \cup {Nothing}]
      BY <1>5, TargetTyped DEF Crash, TypeOK
    <2>2. late' \in [Convertible -> Calls \cup {"none"}]
      <3>1. \A p \in Convertible : UnderWay(p) \in Calls \cup {"none"}
        BY DEF UnderWay, Calls, TypeOK
      <3> QED
        BY <1>5, <3>1 DEF Crash
    <2>3. job' \in [Paths -> [phase : Phases, input : Contents \cup {Nothing}]]
      BY <1>5 DEF Crash, Idle, Phases
    <2> QED
      BY <1>5, <2>1, <2>2, <2>3 DEF Crash, TypeOK
  <1>6. ASSUME NEW p \in Convertible, ClaimNext(p)
        PROVE  TypeOK'
    <2>1. rows' \in Table(Paths, Contents, Contents)
      BY <1>6, TargetTyped, ClaimIsTable DEF TypeOK, ClaimNext, Claimable
    <2> QED
      BY <1>6, <2>1, TargetTyped DEF TypeOK, ClaimNext, Step, Phases
  <1> QED
    BY <1>1, <1>2, <1>3, <1>4, <1>5, <1>6

(* No step changes what a job fetched once it has encoded it.              *)
LEMMA StaysSourced ==
  ASSUME TypeOK, NEW p \in Convertible, Sourced(p), [Next]_vars
  PROVE  Sourced(p)'
  <1> USE DEF Sourced, Encoded
  <1> USE TargetTyped
  <1> DEFINE Same    == job'[p] = job[p]
             Carried == job'[p].input = Source[p]
  <1>1. ASSUME NEW q \in Convertible, Process(q)
        PROVE  Sourced(p)'
    <2>1. \/ Same
          \/ job'[p] = Idle
          \/ job'[p].phase \in {"fetched", "erring", "failed", "interrupted"}
          \/ Carried
      <3>1. ASSUME NEW from \in Encoded, NEW to, Step(q, from, to)
            PROVE  Same \/ Carried
        BY <3>1 DEF TypeOK, Step
      <3>2. ASSUME \/ CheckDestination(q) \/ Upload(q) \/ UploadFails(q) \/ Confirm(q)
                   \/ ConfirmFails(q) \/ DeleteOriginal(q) \/ DeleteFails(q)
                   \/ Rename(q) \/ RenameFails(q)
            PROVE  Same \/ Carried
        BY <3>1, <3>2
           DEF CheckDestination, Upload, UploadFails, Confirm, ConfirmFails, DeleteOriginal,
               DeleteFails, Rename, RenameFails, GivesUp, Phases
      <3>3. ASSUME Encode(q)
            PROVE  Same \/ Carried
        BY <3>3 DEF Encode, Step, TypeOK
      <3>4. ASSUME Fetch(q) \/ Reuse(q)
            PROVE  Same \/ job'[p].phase = "fetched"
        BY <3>4 DEF Fetch, Reuse, TypeOK
      <3>5. ASSUME JobFails(q) \/ Errs(q)
            PROVE  Same \/ job'[p].phase \in {"erring", "failed", "interrupted"}
        BY <3>5 DEF JobFails, Errs, Step, TypeOK
      <3>6. ASSUME NEW why, Decline(q, why) \/ Record(q) \/ Settle(q)
            PROVE  Same \/ job'[p] = Idle
        BY <3>6 DEF Decline, Record, Settle, TypeOK
      <3>7. ASSUME ReclaimIfLow(q)
            PROVE  Same
        BY <3>7 DEF ReclaimIfLow, EmptyTrash
      <3> QED
        BY <1>1, <3>2, <3>3, <3>4, <3>5, <3>6, <3>7 DEF Process
    <2> QED
      BY <2>1 DEF Idle
  <1>2. ASSUME NEW q \in Convertible, ClaimNext(q)
        PROVE  Sourced(p)'
    BY <1>2 DEF TypeOK, ClaimNext, Step
  <1>3. ASSUME Crash
        PROVE  Sourced(p)'
    BY <1>3 DEF Crash, Idle
  <1>4. ASSUME UNCHANGED job
        PROVE  Sourced(p)'
    BY <1>4
  <1> QED
    BY <1>1, <1>2, <1>3, <1>4
       DEF Next, vars, Start, Cancel, Finish, Scan, Cleanup, EmptyTrash, RecordPurge, Discard,
           Lands

(* Every command, every stage and every late call keeps the types of the   *)
(* remote, the trash, the ledger and the jobs, whatever the names.         *)
THEOREM TypeCorrect == Spec => []TypeOK
  <1> DEFINE TInv == TypeOK /\ \A p \in Convertible : Sourced(p)
  <1>1. Init => TInv
    BY InitTyped, TargetTyped DEF Init, Idle, Sourced, Encoded
  <1>2. TInv /\ [Next]_vars => TInv'
    <2> SUFFICES ASSUME TInv, [Next]_vars PROVE TypeOK'
      BY StaysSourced
    <2>1. ASSUME NEW p \in Convertible, Process(p) \/ Discard(p) \/ Lands(p)
          PROVE  TypeOK'
      BY <2>1, ProcessTyped, LandsTyped
    <2>2. ASSUME UNCHANGED vars
          PROVE  TypeOK'
      BY <2>2 DEF vars, TypeOK
    <2> QED
      BY <2>1, <2>2, CommandTyped DEF Next
  <1>3. TInv => TypeOK
    OBVIOUS
  <1> QED
    BY <1>1, <1>2, <1>3, PTL DEF Spec

-----------------------------------------------------------------------------
(* One job at a time.                                                      *)

(* A stage of the job, or a call it left behind.                           *)
Stage(p) == Process(p) \/ Discard(p) \/ Lands(p)

(* What a stage does to the remote, as one of four things.                 *)
LEMMA StageWrites ==
  ASSUME NEW p \in Convertible, Owned(p), Stage(p)
  PROVE  \/ UNCHANGED live
         \/ MoveToTrash(p) \/ MoveToTrash(Target(p))
         \/ \E c \in {Converted(p), Torn(p)} : live' = [live EXCEPT ![Target(p)] = c]
         \/ InPlace(p) /\ MoveIntoPlace(p)
  <1>1. CASE Process(p)
    BY <1>1
       DEF Process, Decline, Reuse, Fetch, Encode, CheckDestination, ReclaimIfLow, EmptyTrash,
           Upload, UploadFails, Confirm, ConfirmFails, DeleteOriginal, DeleteFails, GivesUp,
           Rename, RenameFails, Record, JobFails, Errs, Settle
  <1>2. CASE Discard(p)
    BY <1>2 DEF Discard
  <1>3. CASE Lands(p)
    BY <1>3 DEF Lands, Owned
  <1> QED
    BY <1>1, <1>2, <1>3 DEF Stage

(* A stage of the job of p writes to no name but p's own and its target's, *)
(* and to no other row, job or late call.                                  *)
Local(p) ==
  /\ live \in [Paths -> Contents \cup {Nothing}]
  /\ live' \in [Paths -> Contents \cup {Nothing}]
  /\ \A n \in Paths \ {p, Target(p)} : live'[n] = live[n]
  /\ \A n \in Paths \ {p} : rows'[n] = rows[n] /\ job'[n] = job[n]
  /\ \A q \in Convertible \ {p} : late'[q] = late[q]
  /\ up' = up

LEMMA StageLocal ==
  ASSUME TypeOK, TypeOK', NEW p \in Convertible, Owned(p), Stage(p)
  PROVE  Local(p)
  <1> USE TargetTyped
  <1> DEFINE Files == \A n \in Paths \ {p, Target(p)} : live'[n] = live[n]
             Rows  == \A n \in Paths \ {p} : rows'[n] = rows[n]
             Jobs  == \A n \in Paths \ {p} : job'[n] = job[n]
             Lates == \A q \in Convertible \ {p} : late'[q] = late[q]
  <1>1. Files
    <2>1. ASSUME NEW n \in {p, Target(p)}, MoveToTrash(n)
          PROVE  Files
      BY <2>1 DEF TypeOK, MoveToTrash
    <2>2. ASSUME NEW c, live' = [live EXCEPT ![Target(p)] = c]
          PROVE  Files
      BY <2>2 DEF TypeOK
    <2>3. ASSUME InPlace(p), MoveIntoPlace(p)
          PROVE  Files
      BY <2>3 DEF TypeOK, MoveIntoPlace, InPlace, Target
    <2>4. ASSUME UNCHANGED live
          PROVE  Files
      BY <2>4
    <2> HIDE DEF Files
    <2> QED
      BY <2>1, <2>2, <2>3, <2>4, StageWrites
  <1>2. CASE Process(p)
    <2>1. Rows
      BY <1>2
         DEF Process, Decline, Reuse, Fetch, Encode, CheckDestination, ReclaimIfLow, EmptyTrash,
             Upload, UploadFails, Confirm, ConfirmFails, DeleteOriginal, DeleteFails, GivesUp,
             Rename, RenameFails, Record, JobFails, Errs, Settle, SetState, RecordConversion,
             TypeOK, Table
    <2>2. Jobs
      BY <1>2
         DEF Process, Decline, Reuse, Fetch, Encode, CheckDestination, ReclaimIfLow, EmptyTrash,
             Upload, UploadFails, Confirm, ConfirmFails, DeleteOriginal, DeleteFails, GivesUp,
             Rename, RenameFails, Record, JobFails, Errs, Settle, Step, TypeOK
    <2>3. Lates /\ up' = up
      BY <1>2
         DEF Process, Decline, Reuse, Fetch, Encode, CheckDestination, ReclaimIfLow, EmptyTrash,
             Upload, UploadFails, Confirm, ConfirmFails, DeleteOriginal, DeleteFails, GivesUp,
             Rename, RenameFails, Record, JobFails, Errs, Settle, TypeOK
    <2> QED
      BY <1>1, <2>1, <2>2, <2>3 DEF Local, TypeOK
  <1>3. CASE Discard(p) \/ Lands(p)
    BY <1>1, <1>3 DEF Discard, Lands, Local, TypeOK
  <1> QED
    BY <1>2, <1>3 DEF Stage

(* Names of a file that is apart meet those of no other.                   *)
LEMMA NamesApart ==
  ASSUME NEW p \in Convertible, NEW q \in Kept \cap Convertible, p # q
  PROVE  {q, Out[q], Target(q)} \cap {p, Target(p)} = {}
  BY DEF Kept, Apart, Names

(* So a stage of one job leaves what is known of every other file.         *)
LEMMA OthersKept ==
  ASSUME NEW p \in Convertible, Local(p), NEW q \in Convertible, p # q
  PROVE  /\ Owned(q) => Owned(q)'
         /\ q \in Kept /\ FileInv(q) => FileInv(q)'
  <1>1. rows'[q] = rows[q] /\ job'[q] = job[q] /\ late'[q] = late[q] /\ up' = up
    BY TargetTyped DEF Local
  <1>2. Owned(q) => Owned(q)'
    BY <1>1 DEF Owned, Sourced, InPlace, Target
  <1>3. ASSUME q \in Kept, FileInv(q)
        PROVE  FileInv(q)'
    <2>1. /\ live'[q] = live[q]
          /\ live'[Out[q]] = live[Out[q]]
          /\ live'[Target(q)] = live[Target(q)]
      BY <1>3, NamesApart, TargetTyped DEF Local
    <2> QED
      BY <1>1, <1>3, <2>1
         DEF FileInv, JobKnows, LateKnows, CopyAt, RowKnows, HasRow, InPlace, Target, Original,
             Converted, Torn
  <1> QED
    BY <1>2, <1>3

(* The names of one file, and the things a name may hold, are different.   *)
LEMMA NamesOfOne ==
  ASSUME NEW p \in Kept \cap Convertible
  PROVE  /\ Target(p) # p
         /\ InPlace(p) => Out[p] = p /\ Part[p] = Target(p)
         /\ ~InPlace(p) => Out[p] = Target(p)
         /\ Source[p] = Original(p)
  BY ReplaceAssumption DEF Kept, Target, InPlace

LEMMA FormsApart ==
  ASSUME NEW p \in Paths
  PROVE  /\ Original(p) # Converted(p) /\ Original(p) # Torn(p) /\ Converted(p) # Torn(p)
         /\ Nothing \notin {Original(p), Converted(p), Torn(p)}
  BY ContentsTyped, ReplaceAssumption DEF Original, Converted, Torn

(* A stage keeps what holds of every file; the check of the destination is *)
(* where a job finds that the name belongs to a file of the library.       *)
LEMMA OwnOwned ==
  ASSUME IInv, NEW p \in Convertible, Stage(p)
  PROVE  Owned(p)'
  <1> USE TargetTyped
  <1> USE DEF Owned, Sourced, Encoded, Working
  <1>0. TypeOK /\ Owned(p)
    BY DEF IInv
  <1>a. HasRow(rows, p) <=> rows[p].state # "absent"
    BY DEF HasRow
  <1>b. (Target(p) \in Library \ Convertible) <=> (Target(p) \in Library \ Convertible)'
    BY DEF Target, InPlace
  <1>1. CASE Discard(p) \/ Lands(p)
    BY <1>0, <1>1 DEF Discard, Lands, TypeOK, InPlace, Target
  <1>2. CASE \/ Reuse(p) \/ Fetch(p) \/ ReclaimIfLow(p) \/ JobFails(p) \/ Errs(p)
    <2>1. CASE Reuse(p) \/ Fetch(p)
      BY <1>0, <2>1 DEF Reuse, Fetch, TypeOK, InPlace, Target
    <2>2. CASE ReclaimIfLow(p)
      BY <1>0, <2>2 DEF ReclaimIfLow, EmptyTrash, TypeOK, InPlace, Target
    <2>3. CASE JobFails(p) \/ Errs(p)
      <3>1. /\ job'[p].phase \in {"erring", "failed", "interrupted"}
            /\ job[p].phase # "idle"
            /\ UNCHANGED <<rows, late, up>>
        BY <1>0, <2>3 DEF JobFails, Errs, Step, Replaced, TypeOK
      <3>2. job[p].phase \in {"claimed", "fetched", "encoded", "clear", "renamed", "deleted", "erring"}
        BY <2>3 DEF JobFails, Errs, Step, Replaced
      <3> QED
        BY <1>0, <3>1, <3>2 DEF InPlace, Target
    <2> QED
      BY <1>2, <2>1, <2>2, <2>3
  <1>3. CASE Encode(p) \/ Upload(p) \/ Confirm(p) \/ DeleteOriginal(p) \/ Rename(p)
    BY <1>0, <1>3
       DEF Encode, Upload, Confirm, DeleteOriginal, Rename, Step, TypeOK, InPlace, Target
  <1>4. CASE ConfirmFails(p) /\ ~GivesUp(p, "uploaded", "withdraw")
    BY <1>0, <1>4 DEF ConfirmFails, Step, TypeOK, InPlace, Target
  <1>5. ASSUME NEW from \in {"clear", "uploaded", "confirmed", "deleted"}, NEW call \in Calls,
               GivesUp(p, from, call),
               from # "confirmed" => Target(p) \notin Library \ Convertible,
               from = "confirmed" => call = "delete",
               call = "rename" => InPlace(p)
        PROVE  Owned(p)'
    BY <1>0, <1>5 DEF GivesUp, Step, TypeOK, InPlace, Target
  <1>6. CASE CheckDestination(p)
    <2>1. Target(p) \in Library \ Convertible => ~DestinationFree(p)
      <3> SUFFICES ASSUME Target(p) \in Library \ Convertible
                   PROVE  ~DestinationFree(p)
        OBVIOUS
      <3>1. live[Target(p)] = Original(Target(p))
        BY DEF IInv
      <3>2. ~InPlace(p) /\ Target(p) = Out[p]
        BY ReplaceAssumption DEF Target, InPlace
      <3> QED
        BY <3>1, <3>2, FormsApart DEF DestinationFree
    <2> QED
      BY <1>0, <1>6, <2>1 DEF CheckDestination, Step, TypeOK, InPlace, Target
  <1>7. CASE Record(p) \/ Settle(p) \/ \E why \in {"nature", "settings"} : Decline(p, why)
    BY <1>0, <1>7 DEF Record, Settle, Decline, Idle, TypeOK, InPlace, Target
  <1>8. UploadFails(p) => Owned(p)'
    BY <1>0, <1>5 DEF UploadFails, GivesUp, Step, Calls
  <1>9. GivesUp(p, "uploaded", "withdraw") => Owned(p)'
    BY <1>0, <1>5 DEF GivesUp, Step, Calls
  <1>10. DeleteFails(p) => Owned(p)'
    BY <1>0, <1>5 DEF DeleteFails, GivesUp, Step, Calls
  <1>11. RenameFails(p) => Owned(p)'
    BY <1>0, <1>5, ReplaceAssumption DEF RenameFails, GivesUp, Step, Calls, Target, InPlace
  <1> HIDE DEF Owned
  <1> QED
    BY <1>1, <1>2, <1>3, <1>4, <1>6, <1>7, <1>8, <1>9, <1>10, <1>11 DEF Stage, Process

(* What is known of a file but for its job, where only its job moved.      *)
LEMMA SameRemote ==
  ASSUME NEW p \in Convertible, FileInv(p),
         UNCHANGED live, rows'[p] = rows[p], late'[p] = late[p]
  PROVE  LateKnows(p)' /\ CopyAt(p)' /\ RowKnows(p)'
  BY DEF FileInv, LateKnows, CopyAt, RowKnows, HasRow, InPlace, Target, Original, Converted

(* Where the row is claimed, before and after, the last part is about its  *)
(* size alone.                                                             *)
LEMMA ClaimedRow ==
  ASSUME NEW p \in Convertible, RowKnows(p), rows[p].state = "claimed", rows'[p] = rows[p],
         live'[p] = Original(p) => live[p] = Original(p)
  PROVE  RowKnows(p)'
  BY DEF RowKnows, HasRow, Original

(* A stage keeps what is known of its own file.  Each step needs only what *)
(* its phase knows, which is why JobKnows is as detailed as it is.         *)
LEMMA JobKept ==
  ASSUME TypeOK, HasHash, NEW p \in Kept \cap Convertible, Owned(p), FileInv(p), Process(p)
  PROVE  FileInv(p)'
  <1> USE TargetTyped, NamesOfOne, FormsApart
  <1>a. p \in Convertible /\ p \in Paths /\ Target(p) \in Paths /\ Out[p] \in Paths
    OBVIOUS
  <1>b. JobKnows(p) /\ LateKnows(p) /\ CopyAt(p) /\ RowKnows(p)
    BY DEF FileInv
  <1>c. job[p].phase # "idle" => HasRow(rows, p) /\ rows[p].state = "claimed"
    BY DEF HasRow, Owned
  <1>1. ASSUME Settle(p) \/ \E why \in {"nature", "settings"} : Decline(p, why)
        PROVE  FileInv(p)'
    <2>1. /\ UNCHANGED <<live, late>>
          /\ job' = [job EXCEPT ![p] = Idle]
          /\ HasRow(rows, p) /\ rows[p].state = "claimed"
          /\ \E st \in States \ {"done"}, why \in Reasons :
                rows' \in {SetState(rows, p, st, why), rows}
      BY <1>1, <1>c DEF Settle, Decline, States, Reasons
    <2>2. rows'[p].state # "done" /\ rows'[p].size = rows[p].size
      <3>1. rows[p] \in Row(Paths, Contents, Contents)
        BY <2>1, HasRowIsRow DEF TypeOK
      <3>2. CASE rows' = rows
        BY <2>1, <3>2
      <3>3. ASSUME NEW st \in States \ {"done"}, NEW why, rows' = SetState(rows, p, st, why)
            PROVE  rows'[p].state = st /\ rows'[p].size = rows[p].size
        BY <2>1, <3>1, <3>3 DEF SetState, TypeOK, Table, Row
      <3> QED
        BY <2>1, <3>2, <3>3
    <2>3. RowKnows(p)' /\ LateKnows(p)' /\ CopyAt(p)'
      BY <1>b, <2>1, <2>2
         DEF RowKnows, LateKnows, CopyAt, HasRow, InPlace, Target, Original, Converted
    <2>4. JobKnows(p)'
      BY <2>1 DEF JobKnows, Carrying, Encoded, Idle, TypeOK
    <2> QED
      BY <2>3, <2>4 DEF FileInv
  <1>2. ASSUME Reuse(p) \/ Fetch(p)
        PROVE  FileInv(p)'
    <2>1. /\ UNCHANGED <<live, rows, late>>
          /\ job'[p].phase = "fetched"
          /\ job'[p].input \in {live[p], rows[p].size}
      BY <1>2 DEF Reuse, Fetch, Reusable, TypeOK
    <2>2. HasRow(rows, p)
      BY <1>2, <1>c DEF Reuse, Fetch
    <2>3. JobKnows(p)'
      BY <1>b, <2>1, <2>2 DEF JobKnows, RowKnows, Carrying, Encoded, Original
    <2> QED
      BY <2>1, <2>3, SameRemote DEF FileInv
  <1>3. ASSUME Encode(p) \/ ReclaimIfLow(p) \/ JobFails(p) \/ Errs(p)
        PROVE  FileInv(p)'
    <2>1. /\ UNCHANGED <<live, rows, late>>
          /\ job'[p].input = job[p].input
          /\ \/ job'[p].phase = job[p].phase
             \/ job[p].phase = "fetched" /\ job'[p].phase = "encoded"
             \/ job'[p].phase \in {"erring", "failed", "interrupted"}
      BY <1>3 DEF Encode, ReclaimIfLow, EmptyTrash, JobFails, Errs, Step, TypeOK
    <2>2. JobKnows(p)'
      BY <1>b, <2>1
         DEF JobKnows, Carrying, Encoded, Original, Converted, Torn, Target, InPlace
    <2> QED
      BY <2>1, <2>2, SameRemote DEF FileInv
  <1>4. ASSUME CheckDestination(p) \/ Confirm(p)
        PROVE  FileInv(p)'
    <2>1. /\ UNCHANGED <<live, rows, late>>
          /\ job'[p].input = job[p].input
          /\ \/ job'[p].phase = "erring"
             \/ /\ job[p].phase = "encoded" /\ job'[p].phase = "clear"
                /\ InPlace(p) \/ live[Out[p]] = Nothing
             \/ /\ job[p].phase = "uploaded" /\ job'[p].phase = "confirmed"
                /\ live[Target(p)] = Converted(p)
      BY <1>4 DEF CheckDestination, DestinationFree, Confirm, Accepted, Step, TypeOK
    <2>2. JobKnows(p)'
      BY <1>b, <2>1
         DEF JobKnows, CopyAt, Carrying, Encoded, Original, Converted, Torn, Target, InPlace
    <2> QED
      BY <2>1, <2>2, SameRemote DEF FileInv
  <1>5. ASSUME NEW from, NEW call, GivesUp(p, from, call),
               <<from, call>> \in {<<"clear", "upload">>, <<"uploaded", "withdraw">>,
                                  <<"confirmed", "delete">>, <<"deleted", "rename">>}
        PROVE  FileInv(p)'
    <2>1. /\ UNCHANGED <<live, rows>>
          /\ job[p].phase = from /\ job'[p].phase = "erring"
          /\ late'[p] = call
      BY <1>5 DEF GivesUp, Step, TypeOK
    <2>2. JobKnows(p)'
      BY <2>1 DEF JobKnows, Carrying, Encoded
    <2>3. LateKnows(p)'
      BY <1>5, <1>b, <2>1 DEF JobKnows, LateKnows, Original, Converted, Target, InPlace
    <2>4. rows[p].state = "claimed"
      BY <1>5, <1>c, <2>1
    <2>5. RowKnows(p)' /\ CopyAt(p)'
      BY <1>b, <2>1, <2>4, ClaimedRow DEF CopyAt, InPlace, Original, Converted
    <2> QED
      BY <2>2, <2>3, <2>5 DEF FileInv
  <1>6. ASSUME Upload(p) \/ (ConfirmFails(p) /\ ~GivesUp(p, "uploaded", "withdraw"))
        PROVE  FileInv(p)'
    <2>1. /\ UNCHANGED <<rows, late>>
          /\ job[p].phase \in {"clear", "uploaded"}
          /\ job'[p].input = job[p].input
          /\ live'[p] = live[p]
          /\ \/ job'[p].phase = "uploaded" /\ live'[Target(p)] \in {Converted(p), Torn(p)}
             \/ job'[p].phase = "erring"
      BY <1>6 DEF Upload, ConfirmFails, MoveToTrash, Step, TypeOK
    <2>2. late[p] = "none"
      BY <2>1 DEF Owned, Working
    <2>3. JobKnows(p)' /\ LateKnows(p)' /\ CopyAt(p)'
      BY <1>b, <2>1, <2>2
         DEF JobKnows, LateKnows, CopyAt, Carrying, Encoded, Original, Converted, Torn, Target,
             InPlace
    <2>4. RowKnows(p)'
      BY <1>a, <1>b, <1>c, <2>1, ClaimedRow
    <2> QED
      BY <2>3, <2>4 DEF FileInv
  <1>7. ASSUME DeleteOriginal(p)
        PROVE  FileInv(p)'
    <2>1. /\ UNCHANGED <<rows, late>>
          /\ job[p].phase = "confirmed" /\ job'[p].phase = "deleted"
          /\ job'[p].input = job[p].input
          /\ live'[p] = Nothing
          /\ live'[Target(p)] = live[Target(p)]
      BY <1>7 DEF DeleteOriginal, MoveToTrash, Step, TypeOK
    <2>2. late[p] = "none"
      BY <2>1 DEF Owned, Working
    <2>3. JobKnows(p)' /\ LateKnows(p)' /\ CopyAt(p)'
      BY <1>b, <2>1, <2>2
         DEF JobKnows, LateKnows, CopyAt, Carrying, Encoded, Original, Converted, Torn, Target,
             InPlace
    <2>4. RowKnows(p)'
      BY <1>a, <1>b, <1>c, <2>1, ClaimedRow
    <2> QED
      BY <2>3, <2>4 DEF FileInv
  <1>8. ASSUME Rename(p)
        PROVE  FileInv(p)'
    <2>1. /\ UNCHANGED <<rows, late>>
          /\ job[p].phase = "deleted" /\ job'[p].phase = "renamed"
          /\ job'[p].input = job[p].input
          /\ InPlace(p)
          /\ live'[p] = live[Target(p)]
      BY <1>8 DEF Rename, MoveIntoPlace, Step, TypeOK
    <2>2. late[p] = "none"
      BY <2>1 DEF Owned, Working
    <2>3. live'[p] = Converted(p)
      BY <1>b, <2>1 DEF JobKnows
    <2>4. JobKnows(p)' /\ LateKnows(p)' /\ CopyAt(p)'
      BY <1>b, <2>1, <2>2, <2>3
         DEF JobKnows, LateKnows, CopyAt, Carrying, Encoded, Original, Converted, Torn, Target,
             InPlace
    <2>5. RowKnows(p)'
      BY <1>a, <1>b, <1>c, <2>1, <2>3, ClaimedRow
    <2> QED
      BY <2>4, <2>5 DEF FileInv
  <1>9. ASSUME Record(p)
        PROVE  FileInv(p)'
    <2>1. /\ UNCHANGED <<live, late>>
          /\ job[p].phase = IF InPlace(p) THEN "renamed" ELSE "deleted"
          /\ job' = [job EXCEPT ![p] = Idle]
      BY <1>9 DEF Record, Replaced
    <2>2. /\ late[p] = "none"
          /\ job[p].input = Original(p)
          /\ live[Out[p]] = Converted(p)
          /\ live[p] = IF InPlace(p) THEN Converted(p) ELSE Nothing
      BY <1>b, <2>1 DEF Owned, Working, Sourced, Encoded, JobKnows
    <2>3. /\ rows'[p].size = Original(p)
          /\ rows'[p].output = Out[p]
          /\ rows'[p].hash = Original(p)
      <3>1. HasRow(rows, p) /\ rows[p].size = Original(p)
        BY <1>b, <1>c, <2>1, <2>2 DEF JobKnows, Carrying, Encoded
      <3>2. rows[p] \in Row(Paths, Contents, Contents)
        BY <3>1, HasRowIsRow DEF TypeOK
      <3> QED
        BY <1>9, <2>2, <3>1, <3>2 DEF Record, RecordConversion, TypeOK, Table, Row
    <2>4. RowKnows(p)' /\ LateKnows(p)' /\ CopyAt(p)'
      BY <1>b, <2>1, <2>2, <2>3
         DEF RowKnows, LateKnows, CopyAt, HasRow, InPlace, Target, Original, Converted
    <2>5. JobKnows(p)'
      BY <2>1 DEF JobKnows, Carrying, Encoded, Idle, TypeOK
    <2> QED
      BY <2>4, <2>5 DEF FileInv
  <1>10. UploadFails(p) \/ GivesUp(p, "uploaded", "withdraw") \/ DeleteFails(p) \/ RenameFails(p)
           => FileInv(p)'
    BY <1>5 DEF UploadFails, DeleteFails, RenameFails
  <1> QED
    BY <1>1, <1>2, <1>3, <1>4, <1>6, <1>7, <1>8, <1>9, <1>10 DEF Process

(* So does a call that lands when its job is over.                         *)
LEMMA LandsKept ==
  ASSUME TypeOK, NEW p \in Kept \cap Convertible, Owned(p), FileInv(p), Lands(p) \/ Discard(p)
  PROVE  FileInv(p)'
  <1> USE TargetTyped, NamesOfOne, FormsApart
  <1>b. JobKnows(p) /\ LateKnows(p) /\ CopyAt(p) /\ RowKnows(p)
    BY DEF FileInv
  <1>1. CASE Discard(p)
    BY <1>b, <1>1, SameRemote
       DEF Discard, FileInv, JobKnows, Original, Converted, Torn, Target, InPlace
  <1>2. CASE Lands(p)
    <2>1. /\ UNCHANGED <<rows, job>>
          /\ late[p] # "none" /\ late'[p] = "none"
      BY <1>2 DEF Lands, TypeOK
    <2>2. job[p].phase \notin Working /\ rows[p].state # "done"
      BY <1>b, <2>1 DEF Owned, RowKnows
    <2>3. \/ live'[p] = live[p] /\ (InPlace(p) \/ live[p] = Original(p))
          \/ UNCHANGED live
          \/ live'[p] = Nothing /\ live'[Target(p)] = Converted(p)
          \/ InPlace(p) /\ live'[p] = Converted(p)
      <3>1. CASE late[p] \in {"upload", "withdraw"}
        BY <1>2, <1>b, <3>1 DEF Lands, LateKnows, MoveToTrash, TypeOK
      <3>2. CASE late[p] = "delete"
        BY <1>2, <1>b, <3>2 DEF Lands, LateKnows, MoveToTrash, TypeOK
      <3>3. CASE late[p] = "rename"
        BY <1>2, <1>b, <3>3 DEF Lands, LateKnows, MoveIntoPlace, TypeOK, Owned
      <3> QED
        BY <1>2, <3>1, <3>2, <3>3 DEF Lands
    <2>4. CopyAt(p)'
      BY <1>b, <2>3 DEF CopyAt, InPlace, Original, Converted, Target
    <2>5. RowKnows(p)'
      BY <1>b, <2>1, <2>2, <2>3 DEF RowKnows, HasRow, Original
    <2>6. JobKnows(p)' /\ LateKnows(p)'
      BY <2>1, <2>2 DEF JobKnows, LateKnows, Working, Carrying, Encoded
    <2> QED
      BY <2>4, <2>5, <2>6 DEF FileInv
  <1> QED
    BY <1>1, <1>2

(* No stage touches a library file that no recipe converts: a job whose    *)
(* target has such a name found it taken, and uploads nothing to it.       *)
LEMMA BystandersKept ==
  ASSUME TypeOK, NEW p \in Convertible, Owned(p), Stage(p),
         NEW q \in Library \ Convertible, live[q] = Original(q)
  PROVE  live'[q] = Original(q)
  <1> USE TargetTyped, ReplaceAssumption
  <1>1. q \in Paths /\ q # p
    OBVIOUS
  <1>2. CASE q # Target(p)
    <2>1. CASE \E n \in {p, Target(p)} : MoveToTrash(n)
      BY <1>1, <1>2, <2>1 DEF TypeOK, MoveToTrash
    <2>2. CASE \E c \in {Converted(p), Torn(p)} : live' = [live EXCEPT ![Target(p)] = c]
      BY <1>1, <1>2, <2>2 DEF TypeOK
    <2>3. CASE InPlace(p) /\ MoveIntoPlace(p)
      BY <1>1, <1>2, <2>3 DEF TypeOK, MoveIntoPlace, InPlace, Target
    <2> QED
      BY <2>1, <2>2, <2>3, StageWrites
  <1>3. CASE q = Target(p)
    <2>1. ~InPlace(p)
      BY <1>3 DEF Target, InPlace
    <2>2. job[p].phase \notin {"clear", "uploaded", "confirmed"} /\ late[p] \in {"none", "delete"}
      BY <1>3 DEF Owned
    <2>3. \/ UNCHANGED live
          \/ Lands(p) /\ MoveToTrash(p)
      <3>1. CASE Process(p)
        BY <2>1, <2>2, <3>1
           DEF Process, Decline, Reuse, Fetch, Encode, CheckDestination, ReclaimIfLow,
               EmptyTrash, Upload, UploadFails, Confirm, ConfirmFails, DeleteOriginal,
               DeleteFails, GivesUp, Rename, RenameFails, Record, JobFails, Errs, Settle, Step
      <3>2. CASE Discard(p) \/ Lands(p)
        BY <2>2, <3>2 DEF Discard, Lands
      <3> QED
        BY <3>1, <3>2 DEF Stage
    <2> QED
      BY <1>1, <2>3 DEF MoveToTrash, TypeOK
  <1> QED
    BY <1>2, <1>3

LEMMA StageKeepsIInv ==
  ASSUME IInv, HasHash, NEW p \in Convertible, Stage(p)
  PROVE  IInv'
  <1>0. TypeOK /\ Owned(p)
    BY DEF IInv
  <1>1. TypeOK'
    BY <1>0, ProcessTyped, LandsTyped DEF Stage, Owned
  <1>2. Local(p)
    BY <1>0, <1>1, StageLocal
  <1>3. ASSUME NEW q \in Convertible
        PROVE  Owned(q)'
    <2>1. CASE q = p
      BY <2>1, OwnOwned
    <2>2. CASE q # p
      BY <1>2, <2>2, OthersKept DEF IInv
    <2> QED
      BY <2>1, <2>2
  <1>4. ASSUME NEW q \in Kept \cap Convertible
        PROVE  FileInv(q)'
    <2>1. CASE q = p
      BY <1>0, <2>1, JobKept, LandsKept DEF IInv, Stage
    <2>2. CASE q # p
      BY <1>2, <2>2, OthersKept DEF IInv
    <2> QED
      BY <2>1, <2>2
  <1>5. ASSUME NEW q \in Library \ Convertible
        PROVE  live'[q] = Original(q)
    BY <1>0, BystandersKept DEF IInv
  <1>6. ASSUME NEW q \in Paths \ Convertible
        PROVE  job'[q].phase = "idle"
    BY <1>2 DEF IInv, Local
  <1>7. (Kept \cap Convertible)' = Kept \cap Convertible
    BY DEF Kept, Apart, Names, Target, InPlace
  <1> QED
    BY <1>1, <1>3, <1>4, <1>5, <1>6, <1>7 DEF IInv, Original

-----------------------------------------------------------------------------
(* The steps of the run and of the commands between runs.                  *)

LEMMA KeptIsConstant == Kept' = Kept /\ (\A q \in Convertible : Original(q)' = Original(q))
  BY DEF Kept, Apart, Names, Target, InPlace, Original

(* A ledger command that leaves alone the remote and the rows of the jobs  *)
(* at work, makes nothing done, and keeps the sizes of what was not listed *)
(* anew.                                                                   *)
LEMMA RowsOnly ==
  ASSUME NEW p \in Convertible, UNCHANGED <<live, job, late>>,
         job[p].phase # "idle" =>
            /\ rows'[p].state = "claimed"
            /\ rows'[p].size = rows[p].size
            /\ up' = up
  PROVE  /\ Owned(p) => Owned(p)'
         /\ FileInv(p) /\ Owned(p)
              /\ (live[p] = Original(p) /\ HasRow(rows', p) => rows'[p].size = Original(p))
              /\ (rows'[p].state = "done" => /\ rows[p].state = "done"
                                            /\ rows'[p].size = rows[p].size
                                            /\ rows'[p].output = rows[p].output
                                            /\ rows'[p].hash = rows[p].hash)
            => FileInv(p)'
  <1>1. Owned(p) => Owned(p)'
    BY DEF Owned, Sourced, Target, InPlace
  <1>2. Owned(p) /\ JobKnows(p) => JobKnows(p)'
    BY DEF JobKnows, Owned, Carrying, Encoded, InPlace, Target, Original, Converted, Torn
  <1>3. LateKnows(p) /\ CopyAt(p) => LateKnows(p)' /\ CopyAt(p)'
    BY DEF LateKnows, CopyAt, InPlace, Target, Original, Converted
  <1> QED
    BY <1>1, <1>2, <1>3 DEF FileInv, RowKnows, HasRow, InPlace, Original, Converted

LEMMA InitIInv == Init => IInv
  <1> SUFFICES ASSUME Init PROVE IInv
    OBVIOUS
  <1> USE TargetTyped, FormsApart, ReplaceAssumption
  <1>1. TypeOK
    BY InitTyped
  <1>2. ASSUME NEW p \in Convertible
        PROVE  Owned(p)
    BY DEF Init, Idle, Owned, Sourced, Encoded, Working
  <1>3. ASSUME NEW p \in Kept \cap Convertible
        PROVE  FileInv(p)
    <2>1. p \in Library /\ p \in Paths
      BY DEF Kept
    <2>2. live[p] = Original(p) /\ rows[p].state = "pending" /\ rows[p].size = Original(p)
      BY <2>1 DEF Init, Fresh
    <2>3. job[p].phase = "idle" /\ late[p] = "none"
      BY <2>1 DEF Init, Idle
    <2> QED
      BY <2>2, <2>3
         DEF FileInv, JobKnows, LateKnows, CopyAt, RowKnows, Carrying, Encoded
  <1>4. \A p \in Library \ Convertible : live[p] = Original(p)
    BY DEF Init
  <1>5. \A p \in Paths \ Convertible : job[p].phase = "idle"
    BY DEF Init, Idle
  <1> QED
    BY <1>1, <1>2, <1>3, <1>4, <1>5 DEF IInv

LEMMA ClaimKeepsIInv ==
  ASSUME IInv, NEW p \in Convertible, ClaimNext(p)
  PROVE  IInv'
  <1> USE TargetTyped
  <1>1. rows[p].state = "pending" /\ rows' = Claim(rows, p)
    BY DEF ClaimNext, Claimable
  <1>2. TypeOK /\ TypeOK'
    BY CommandTyped DEF IInv
  <1>3. Local(p)
    BY <1>1, <1>2 DEF ClaimNext, Claim, Step, Local, TypeOK, Table
  <1>4. /\ HasRow(rows, p)
        /\ rows'[p].state = "claimed" /\ rows'[p].size = rows[p].size
        /\ job'[p].phase = "claimed" /\ UNCHANGED <<live, late>> /\ up'
        /\ late[p] = "none"
    <2>1. HasRow(rows, p) /\ rows[p] \in Row(Paths, Contents, Contents)
      BY <1>1, <1>2, HasRowIsRow DEF HasRow, TypeOK
    <2> QED
      BY <1>1, <1>2, <2>1 DEF Claim, ClaimNext, Step, TypeOK, Table, Row
  <1>5. ASSUME NEW q \in Convertible
        PROVE  /\ Owned(q)'
               /\ q \in Kept => FileInv(q)'
    <2>1. CASE q = p
      <3>1. Owned(p)'
        BY <1>4 DEF Owned, Sourced, Encoded
      <3>2. ASSUME FileInv(p)
            PROVE  FileInv(p)'
        <4>1. JobKnows(p)'
          BY <1>4 DEF JobKnows, Carrying, Encoded
        <4>2. LateKnows(p)' /\ CopyAt(p)' /\ RowKnows(p)'
          BY <1>4, <3>2
             DEF FileInv, LateKnows, CopyAt, RowKnows, HasRow, InPlace, Target, Original,
                 Converted
        <4> QED
          BY <4>1, <4>2 DEF FileInv
      <3> QED
        BY <2>1, <3>1, <3>2 DEF IInv
    <2>2. CASE q # p
      BY <1>3, <2>2, OthersKept DEF IInv
    <2> QED
      BY <2>1, <2>2
  <1> QED
    BY <1>2, <1>3, <1>4, <1>5, KeptIsConstant DEF IInv, ClaimNext, Local, Original

(* A kill turns what a job knows into what its last call may still rely on.*)
LEMMA CrashKeepsFiles ==
  ASSUME IInv, Crash, NEW p \in Convertible
  PROVE  /\ Owned(p)'
         /\ p \in Kept => FileInv(p)'
  <1> USE TargetTyped, ReplaceAssumption
  <1>1. Owned(p) /\ TypeOK /\ late'[p] = UnderWay(p) /\ job'[p].phase = "idle"
    BY DEF IInv, Crash, Idle
  <1>2. UNCHANGED <<live, rows>>
    BY DEF Crash
  <1>3. Owned(p)'
    BY <1>1, <1>2 DEF Owned, Sourced, Encoded, Working, UnderWay, Target, InPlace
  <1>4. ASSUME p \in Kept
        PROVE  FileInv(p)'
    <2>1. FileInv(p)
      BY <1>4 DEF IInv
    <2>2. LateKnows(p)'
      BY <1>1, <1>2, <2>1, NamesOfOne, <1>4
         DEF FileInv, JobKnows, LateKnows, UnderWay, InPlace, Target, Original, Converted
    <2>3. rows[p].state = "done" => late'[p] = "none"
      BY <1>1, <2>1 DEF Owned, UnderWay, FileInv, RowKnows
    <2>4. CopyAt(p)' /\ RowKnows(p)'
      BY <1>2, <2>1, <2>3
         DEF FileInv, CopyAt, RowKnows, HasRow, InPlace, Target, Original, Converted
    <2>5. JobKnows(p)'
      BY <1>1 DEF JobKnows, Carrying, Encoded
    <2> QED
      BY <2>2, <2>4, <2>5 DEF FileInv
  <1> QED
    BY <1>3, <1>4

LEMMA CommandKeepsIInv ==
  ASSUME IInv,
         \/ \E retry \in BOOLEAN : Start(retry)
         \/ Cancel \/ Finish \/ Crash \/ Scan \/ Cleanup \/ RecordPurge
  PROVE  IInv'
  <1> USE TargetTyped, FormsApart, NamesOfOne, ReplaceAssumption
  <1> DEFINE Files == \A q \in Convertible : Owned(q)' /\ (q \in Kept => FileInv(q)')
  <1>0. TypeOK /\ TypeOK'
    BY CommandTyped DEF IInv
  <1>1. UNCHANGED live /\ (\A q \in Paths : job[q].phase = "idle" => job'[q].phase = "idle")
    BY DEF Start, Cancel, Finish, Crash, Scan, Cleanup, EmptyTrash, RecordPurge, Idle
  <1>2. ASSUME NEW retry \in BOOLEAN, Start(retry), NEW q \in Convertible
        PROVE  Owned(q)' /\ (q \in Kept => FileInv(q)')
    <2>1. job[q].phase = "idle" /\ UNCHANGED <<live, job, late>>
      BY <1>2 DEF IInv, Owned, Start
    <2>2. /\ rows'[q].state = "done" => rows'[q] = rows[q]
          /\ HasRow(rows', q) => HasRow(rows, q) /\ rows'[q].size = rows[q].size
      BY <1>0, <1>2, ResetRows
    <2> QED
      BY <2>1, <2>2, RowsOnly DEF IInv, FileInv, RowKnows
  <1>3. ASSUME Scan, NEW q \in Convertible
        PROVE  Owned(q)' /\ (q \in Kept => FileInv(q)')
    <2>1. job[q].phase = "idle" /\ UNCHANGED <<live, job, late>>
      BY <1>3 DEF IInv, Owned, Scan
    <2>2. /\ live[q] # Nothing => /\ rows'[q].size = live[q]
                                  /\ rows'[q].state = "done" => rows[q].state = "done"
                                                             /\ rows[q].size = live[q]
          /\ live[q] = Nothing /\ rows'[q].state = "done" => rows'[q] = rows[q]
      BY <1>0, <1>3, ScannedRows
    <2>3. ASSUME q \in Kept
          PROVE  rows'[q].state = "done" => live[q] = Nothing
      BY <2>2, <2>3 DEF IInv, FileInv, RowKnows
    <2>4. live[q] = Original(q) => rows'[q].size = Original(q)
      BY <2>2
    <2> QED
      BY <2>1, <2>2, <2>3, <2>4, RowsOnly DEF IInv
  <1>4. ASSUME Finish, NEW q \in Convertible
        PROVE  Owned(q)' /\ (q \in Kept => FileInv(q)')
    <2>1. job[q].phase = "idle" /\ UNCHANGED <<live, rows, job>> /\ late'[q] = "none"
      BY <1>4 DEF Finish, Active
    <2>2. Owned(q)'
      BY <2>1 DEF IInv, Owned, Sourced, Encoded
    <2>3. ASSUME q \in Kept
          PROVE  FileInv(q)'
      <3>1. FileInv(q)
        BY <2>3 DEF IInv
      <3>2. JobKnows(q)' /\ LateKnows(q)'
        BY <2>1 DEF JobKnows, LateKnows, Carrying, Encoded
      <3>3. CopyAt(q)' /\ RowKnows(q)'
        BY <2>1, <3>1
           DEF FileInv, CopyAt, RowKnows, HasRow, InPlace, Target, Original, Converted
      <3> QED
        BY <3>2, <3>3 DEF FileInv
    <2> QED
      BY <2>2, <2>3
  <1>5. ASSUME Cancel \/ Cleanup, NEW q \in Convertible
        PROVE  Owned(q)' /\ (q \in Kept => FileInv(q)')
    <2>1. UNCHANGED <<live, rows, job, late, up>>
      BY <1>5 DEF Cancel, Cleanup, EmptyTrash
    <2> QED
      BY <2>1, RowsOnly DEF IInv, Owned, FileInv, RowKnows
  <1>6. ASSUME RecordPurge, NEW q \in Convertible
        PROVE  Owned(q)' /\ (q \in Kept => FileInv(q)')
    <2>1. UNCHANGED <<live, job, late, up>>
      BY <1>6 DEF RecordPurge
    <2>2. /\ rows'[q].state = rows[q].state
          /\ HasRow(rows', q) => /\ HasRow(rows, q)
                                 /\ rows'[q].size = rows[q].size
                                 /\ rows'[q].output = rows[q].output
                                 /\ rows'[q].hash = rows[q].hash
      <3>1. CASE rows' = rows
        BY <3>1
      <3>2. CASE rows' = MarkReclaimed(rows)
        <4>1. rows'[q] = IF q \in PendingReclaim(rows)
                         THEN [rows[q] EXCEPT !.reclaimed = TRUE] ELSE rows[q]
          BY <3>2, <1>0 DEF MarkReclaimed, TypeOK, Table
        <4>2. q \in PendingReclaim(rows) => rows[q] \in Row(Paths, Contents, Contents)
          BY <1>0, HasRowIsRow DEF PendingReclaim, States, TypeOK
        <4> QED
          BY <4>1, <4>2 DEF Row, HasRow, PendingReclaim
      <3> QED
        BY <1>6, <3>1, <3>2 DEF RecordPurge
    <2>3. job[q].phase # "idle" => HasRow(rows', q) /\ rows'[q].state = "claimed"
      BY <2>2 DEF IInv, Owned, HasRow
    <2>4. rows'[q].state = "done" => HasRow(rows', q)
      BY DEF HasRow
    <2> QED
      BY <2>1, <2>2, <2>3, <2>4, RowsOnly DEF IInv, FileInv, RowKnows
  <1>7. Files
    BY <1>2, <1>3, <1>4, <1>5, <1>6, CrashKeepsFiles
  <1> HIDE DEF Files
  <1>8. \A q \in Library \ Convertible : live'[q] = Original(q)
    BY <1>1 DEF IInv
  <1>9. \A q \in Paths \ Convertible : job'[q].phase = "idle"
    BY <1>1 DEF IInv
  <1> QED
    BY <1>0, <1>7, <1>8, <1>9, KeptIsConstant DEF Files, IInv, Original

-----------------------------------------------------------------------------
(* The theorems.                                                           *)

LEMMA IInvStep == ASSUME HasHash, IInv, [Next]_vars PROVE IInv'
  <1>1. ASSUME NEW p \in Convertible, ClaimNext(p)
        PROVE  IInv'
    BY <1>1, ClaimKeepsIInv
  <1>2. ASSUME NEW p \in Convertible, Process(p) \/ Discard(p) \/ Lands(p)
        PROVE  IInv'
    BY <1>2, StageKeepsIInv DEF Stage
  <1>3. ASSUME \/ \E retry \in BOOLEAN : Start(retry)
               \/ Cancel \/ Finish \/ Crash \/ Scan \/ Cleanup \/ RecordPurge
        PROVE  IInv'
    BY <1>3, CommandKeepsIInv
  <1>4. ASSUME UNCHANGED vars
        PROVE  IInv'
    BY <1>4
       DEF vars, IInv, TypeOK, Owned, Sourced, FileInv, JobKnows, LateKnows, CopyAt, RowKnows,
           HasRow, InPlace, Target, Original, Converted, Torn, Kept, Apart, Names
  <1> QED
    BY <1>1, <1>2, <1>3, <1>4 DEF Next

(* IInv is an invariant of the specification: what each job and each call  *)
(* left behind may rely on, and where the whole copies are.                *)
THEOREM Invariance ==
  ASSUME HasHash
  PROVE  Spec => []IInv
  BY InitIInv, IInvStep, PTL DEF Spec

(* The one stage that empties the name of a file leaves its replacement    *)
(* whole under the target.                                                 *)
LEMMA EmptiedBesideCopy ==
  ASSUME TypeOK, NEW p \in Kept \cap Convertible, Owned(p), FileInv(p), Stage(p),
         live[p] # Nothing, live'[p] = Nothing
  PROVE  live'[Target(p)] = Converted(p)
  <1> USE TargetTyped, NamesOfOne, FormsApart
  <1>1. CASE Process(p)
    <2>1. DeleteOriginal(p)
      BY <1>1
         DEF Process, Decline, Reuse, Fetch, Encode, CheckDestination, ReclaimIfLow, EmptyTrash,
             Upload, UploadFails, Confirm, ConfirmFails, DeleteFails, GivesUp, MoveToTrash,
             Rename, RenameFails, MoveIntoPlace, InPlace, Record, JobFails, Errs, Settle, TypeOK
    <2> QED
      BY <2>1 DEF DeleteOriginal, Step, MoveToTrash, TypeOK, FileInv, JobKnows
  <1>2. CASE Discard(p)
    BY <1>2 DEF Discard
  <1>3. CASE Lands(p)
    <2>1. late[p] = "delete" /\ MoveToTrash(p)
      BY <1>3 DEF Lands, MoveToTrash, MoveIntoPlace, TypeOK, FileInv, LateKnows
    <2> QED
      BY <2>1 DEF MoveToTrash, TypeOK, FileInv, LateKnows
  <1> QED
    BY <1>1, <1>2, <1>3 DEF Stage

(* No step takes the last whole copy of a file off the remote, whatever    *)
(* fails, crashes, lands late or is purged, unless its replacement in      *)
(* place was cut short (pipeline.rs, lines 541-646).                       *)
THEOREM NoLoss ==
  ASSUME HasHash
  PROVE  Spec => NothingLost
  <1> DEFINE Loses == \A p \in Kept : Whole(p) => Whole(p)' \/ CutShort(p)
  <1>1. IInv /\ IInv' /\ [Next]_vars => [Loses]_vars
    <2> SUFFICES ASSUME IInv, IInv', [Next]_vars, NEW p \in Kept, Whole(p), ~CutShort(p)
                 PROVE  Whole(p)'
      OBVIOUS
    <2>0. p \in Library /\ p \in Paths
      BY ReplaceAssumption DEF Kept
    <2>1. CASE p \notin Convertible
      BY <2>0, <2>1 DEF IInv, Whole, Original
    <2>2. CASE p \in Convertible
      <3>1. CopyAt(p)'
        BY <2>2, KeptIsConstant DEF IInv, FileInv
      <3>2. ASSUME live'[p] # Nothing \/ ~InPlace(p)
            PROVE  Whole(p)'
        BY <2>0, <2>2, <3>1, <3>2, TargetTyped DEF CopyAt, Whole, InPlace, Original, Converted
      <3>3. ASSUME live'[p] = Nothing, InPlace(p)
            PROVE  Whole(p)'
        <4>1. live[p] # Nothing
          BY <2>2, <3>3 DEF CutShort
        <4>2. PICK q \in Convertible : Stage(q)
          BY <3>3, <4>1
             DEF Next, vars, Start, Cancel, Finish, Crash, Scan, Cleanup, EmptyTrash,
                 RecordPurge, ClaimNext, Stage
        <4>3. q = p
          <5> SUFFICES ASSUME q # p PROVE FALSE
            OBVIOUS
          <5>1. Local(q)
            <6>1. TypeOK /\ TypeOK' /\ Owned(q) /\ Stage(q)
              BY <4>2 DEF IInv
            <6> QED
              BY <6>1, StageLocal
          <5> QED
            BY <2>0, <2>2, <3>3, <4>1, <5>1, NamesApart DEF Local
        <4>4. live'[Target(p)] = Converted(p)
          BY <2>2, <3>3, <4>1, <4>2, <4>3, EmptiedBesideCopy DEF IInv
        <4> QED
          BY <2>2, <4>4, TargetTyped DEF Whole, Converted
      <3> QED
        BY <3>2, <3>3
    <2> QED
      BY <2>1, <2>2
  <1> QED
    BY <1>1, Invariance, PTL DEF Spec, NothingLost

(* A row says done only when its replacement stands whole and alone        *)
(* (pipeline.rs, lines 648-657).                                           *)
THEOREM DoneStands ==
  ASSUME HasHash
  PROVE  Spec => []DoneIsTrue
  <1>1. IInv => DoneIsTrue
    BY TargetTyped, FormsApart DEF IInv, FileInv, RowKnows, DoneIsTrue
  <1> QED
    BY <1>1, Invariance, PTL

-----------------------------------------------------------------------------
(* A copy of a file is only ever under one of the file's own names, so     *)
(* what happens under the names of another file leaves its copies alone.   *)
Homes(p) == IF p \in Convertible THEN {Out[p], Target(p)} ELSE {}

AtHome ==
  \A n \in Paths, p \in Kept :
    /\ live[n] = Original(p) => n = p
    /\ live[n] = Converted(p) => n \in Homes(p)

PInv == IInv /\ AtHome

(* The copies of a file, by the only names they can have.                  *)
CopiesOf(p) ==
  (IF live[p] = Original(p) THEN {"original"} ELSE {})
    \cup (IF \E n \in Homes(p) : live[n] = Converted(p) THEN {"replacement"} ELSE {})

LEMMA KeptIsPath == ASSUME NEW p \in Kept PROVE p \in Paths /\ p \in Library
  BY ReplaceAssumption DEF Kept

LEMMA CopiesByName == PInv => CopiesLive = [p \in Kept |-> CopiesOf(p)]
  <1> SUFFICES ASSUME AtHome, NEW p \in Kept
               PROVE  { c \in {"original", "replacement"} :
                          \E n \in Paths : live[n] = IF c = "original" THEN Original(p)
                                                     ELSE Converted(p) } = CopiesOf(p)
    BY DEF CopiesLive, PInv
  <1>1. (\E n \in Paths : live[n] = Original(p)) <=> live[p] = Original(p)
    BY KeptIsPath DEF AtHome
  <1>2. Homes(p) \subseteq Paths
    BY TargetTyped DEF Homes
  <1>3. (\E n \in Paths : live[n] = Converted(p)) <=> \E n \in Homes(p) : live[n] = Converted(p)
    BY <1>2 DEF AtHome
  <1> QED
    BY <1>1, <1>3 DEF CopiesOf

LEMMA CopiesNextByName ==
  (PInv => CopiesLive = [p \in Kept |-> CopiesOf(p)])'
  BY CopiesByName, PTL

-----------------------------------------------------------------------------
(* AtHome is an invariant.                                                 *)

LEMMA FilesApart ==
  ASSUME NEW p \in Paths, NEW q \in Paths
  PROVE  /\ p # q => Original(p) # Original(q) /\ Converted(p) # Converted(q)
         /\ Original(p) # Converted(q)
         /\ Torn(p) \notin {Original(q), Converted(q)}
  BY DEF Original, Converted, Torn

LEMMA InitAtHome == Init => AtHome
  <1> SUFFICES ASSUME Init, NEW n \in Paths, NEW p \in Kept
               PROVE  /\ live[n] = Original(p) => n = p
                      /\ live[n] # Converted(p)
    BY DEF AtHome
  <1>1. live[n] = Original(n) \/ live[n] = Nothing
    BY DEF Init
  <1> QED
    BY <1>1, KeptIsPath, FormsApart, FilesApart

(* Moving a file into place moves no copy of a file that is apart out of   *)
(* its home: the staging name belongs to one file.                         *)
LEMMA StageAtHome ==
  ASSUME PInv, TypeOK', NEW p \in Convertible, Stage(p), NEW n \in Paths, NEW q \in Kept
  PROVE  /\ live'[n] = Original(q) => n = q
         /\ live'[n] = Converted(q) => n \in Homes(q)
  <1>0. TypeOK /\ Owned(p) /\ AtHome
    BY DEF PInv, IInv
  <1>a. /\ p \in Paths /\ q \in Paths /\ Target(p) \in Paths /\ Part[p] \in Paths
        /\ Nothing \notin {Original(q), Converted(q)}
        /\ p # q => Converted(p) # Converted(q)
        /\ Converted(p) # Original(q)
        /\ Torn(p) \notin {Original(q), Converted(q)}
    BY TargetTyped, KeptIsPath, FilesApart, FormsApart
  <1>1. /\ live[n] = Original(q) => n = q
        /\ live[n] = Converted(q) => n \in Homes(q)
    BY <1>0 DEF AtHome
  <1>2. CASE UNCHANGED live \/ \E m \in {p, Target(p)} : MoveToTrash(m)
    <2>1. live'[n] = live[n] \/ live'[n] = Nothing
      BY <1>0, <1>2 DEF MoveToTrash, TypeOK
    <2> QED
      BY <1>1, <1>a, <2>1
  <1>3. ASSUME NEW c \in {Converted(p), Torn(p)}, live' = [live EXCEPT ![Target(p)] = c]
        PROVE  /\ live'[n] = Original(q) => n = q
               /\ live'[n] = Converted(q) => n \in Homes(q)
    <2>1. live'[n] = live[n] \/ (n = Target(p) /\ live'[n] = c)
      BY <1>0, <1>3 DEF TypeOK
    <2> QED
      BY <1>1, <1>3, <1>a, <2>1 DEF Homes
  <1>4. CASE InPlace(p) /\ MoveIntoPlace(p)
    <2>1. \/ live'[n] = live[n]
          \/ live'[n] = Nothing
          \/ (n = p /\ live'[n] = live[Part[p]])
      BY <1>0, <1>4, <1>a DEF TypeOK, MoveIntoPlace, InPlace
    <2>2. ASSUME n = p, live'[n] = live[Part[p]]
          PROVE  live'[n] # Original(q) /\ (live'[n] = Converted(q) => n \in Homes(q))
      <3>1. Part[p] = Target(p) /\ Part[p] \notin Library
        BY <1>4, ReplaceAssumption DEF Target, InPlace
      <3>2. live'[n] # Original(q)
        BY <1>0, <1>a, <2>2, <3>1, KeptIsPath DEF AtHome
      <3>3. ASSUME live'[n] = Converted(q)
            PROVE  n \in Homes(q)
        <4>1. Part[p] \in Homes(q)
          BY <1>0, <1>a, <2>2, <3>3 DEF AtHome
        <4>2. q \in Convertible /\ Part[p] \in {Out[q], Target(q)}
          BY <4>1 DEF Homes
        <4>3. q = p
          BY <3>1, <4>2, NamesApart
        <4> QED
          BY <1>4, <2>2, <4>3 DEF Homes, InPlace
      <3> QED
        BY <3>2, <3>3
    <2> QED
      BY <1>1, <1>a, <2>1, <2>2
  <1> QED
    BY <1>0, <1>2, <1>3, <1>4, StageWrites

LEMMA StepsAtHome ==
  ASSUME PInv, IInv', [Next]_vars
  PROVE  AtHome'
  <1>1. ASSUME UNCHANGED live
        PROVE  AtHome'
    BY <1>1
       DEF PInv, AtHome, Homes, Target, InPlace, Original, Converted, Kept, Apart, Names
  <1>2. ASSUME NEW p \in Convertible, Stage(p)
        PROVE  AtHome'
    <2>1. ASSUME NEW n \in Paths, NEW q \in Kept
          PROVE  /\ live'[n] = Original(q) => n = q
                 /\ live'[n] = Converted(q) => n \in Homes(q)
      <3>1. TypeOK'
        BY DEF IInv
      <3> QED
        BY <1>2, <3>1, StageAtHome
    <2> QED
      BY <2>1, KeptIsConstant DEF AtHome, Homes, Target, InPlace, Original, Converted
  <1> QED
    BY <1>1, <1>2
       DEF Next, vars, Start, Cancel, Finish, Crash, Scan, Cleanup, EmptyTrash, RecordPurge,
           ClaimNext, Stage

-----------------------------------------------------------------------------
(* One stage of a job, seen as a step of the promise.                      *)

(* The copies of every other file stay.                                    *)
LEMMA OtherCopiesStay ==
  ASSUME IInv, IInv', NEW p \in Convertible, Local(p), NEW q \in Kept, q # p
  PROVE  CopiesOf(q)' = CopiesOf(q)
  <1>1. CASE q \in Convertible
    <2>1. live'[q] = live[q] /\ live'[Out[q]] = live[Out[q]] /\ live'[Target(q)] = live[Target(q)]
      BY <1>1, NamesApart, TargetTyped DEF Local
    <2> QED
      BY <1>1, <2>1 DEF CopiesOf, Homes, Original, Converted, Target, InPlace
  <1>2. CASE q \notin Convertible
    BY <1>2, KeptIsPath DEF IInv, CopiesOf, Homes, Original, Converted
  <1> QED
    BY <1>1, <1>2

(* Where the original is live, and where the replacement is.               *)
LEMMA CopiesAre ==
  ASSUME NEW p \in Kept \cap Convertible
  PROVE  /\ "original" \in CopiesOf(p) <=> live[p] = Original(p)
         /\ "replacement" \in CopiesOf(p) <=>
              live[Target(p)] = Converted(p) \/ (InPlace(p) /\ live[p] = Converted(p))
         /\ CopiesOf(p) \subseteq {"original", "replacement"}
         /\ "original" \in CopiesOf(p)' <=> live'[p] = Original(p)
         /\ "replacement" \in CopiesOf(p)' <=>
              live'[Target(p)] = Converted(p) \/ (InPlace(p) /\ live'[p] = Converted(p))
         /\ CopiesOf(p)' \subseteq {"original", "replacement"}
  BY NamesOfOne DEF CopiesOf, Homes, Original, Converted, Target, InPlace

(* A stage that takes the original takes it from beside the replacement,   *)
(* none brings it back, and only the second attempt at an in-place         *)
(* replacement touches one that stands alone.                              *)
LEMMA OwnCopiesStep ==
  ASSUME TypeOK, HasHash, NEW p \in Kept \cap Convertible, Owned(p), FileInv(p), Stage(p)
  PROVE  /\ live[p] = Original(p) /\ live'[p] # Original(p) =>
              /\ live[Target(p)] = Converted(p)
              /\ "replacement" \in CopiesOf(p)'
         /\ live[p] # Original(p) => live'[p] # Original(p)
         /\ live[p] # Original(p) /\ CopiesOf(p)' # CopiesOf(p) =>
              /\ InPlace(p)
              /\ rows[p].state # "done"
  <1>a. /\ p \in Paths /\ Target(p) \in Paths /\ Target(p) # p
        /\ InPlace(p) => Out[p] = p /\ Part[p] = Target(p)
        /\ Converted(p) # Original(p) /\ Nothing # Original(p)
    BY TargetTyped, NamesOfOne, FormsApart
  <1>c. /\ "replacement" \in CopiesOf(p) <=>
              live[Target(p)] = Converted(p) \/ (InPlace(p) /\ live[p] = Converted(p))
        /\ "replacement" \in CopiesOf(p)' <=>
              live'[Target(p)] = Converted(p) \/ (InPlace(p) /\ live'[p] = Converted(p))
        /\ live[p] # Original(p) /\ live'[p] # Original(p)
             /\ ("replacement" \in CopiesOf(p) <=> "replacement" \in CopiesOf(p)')
             => CopiesOf(p)' = CopiesOf(p)
    <2>1. /\ "original" \in CopiesOf(p) <=> live[p] = Original(p)
          /\ CopiesOf(p) \subseteq {"original", "replacement"}
          /\ "original" \in CopiesOf(p)' <=> live'[p] = Original(p)
          /\ CopiesOf(p)' \subseteq {"original", "replacement"}
      BY CopiesAre
    <2>2. ASSUME live[p] # Original(p), live'[p] # Original(p),
                 "replacement" \in CopiesOf(p) <=> "replacement" \in CopiesOf(p)'
          PROVE  CopiesOf(p)' = CopiesOf(p)
      BY <2>1, <2>2
    <2> QED
      BY <2>2, CopiesAre
  <1> DEFINE Aim ==
        /\ live[p] = Original(p) /\ live'[p] # Original(p) =>
              /\ live[Target(p)] = Converted(p)
              /\ "replacement" \in CopiesOf(p)'
        /\ live[p] # Original(p) => live'[p] # Original(p)
        /\ live[p] # Original(p) /\ CopiesOf(p)' # CopiesOf(p) =>
              /\ InPlace(p)
              /\ rows[p].state # "done"
  <1> SUFFICES Aim
    OBVIOUS
  <1>0. /\ job[p].phase # "idle" => rows[p].state # "done"
        /\ late[p] # "none" => rows[p].state # "done"
    BY DEF Owned, FileInv, RowKnows
  <1>1. ASSUME UNCHANGED live
        PROVE  Aim
    <2>1. CopiesOf(p)' = CopiesOf(p)
      BY <1>1 DEF CopiesOf, Homes, Original, Converted, Target, InPlace
    <2> QED
      BY <1>1, <2>1
  <1>2. ASSUME live'[p] = live[p], InPlace(p) \/ live[p] = Original(p), rows[p].state # "done"
        PROVE  Aim
    BY <1>2
  <1>3. ASSUME MoveToTrash(p), live[Target(p)] = Converted(p)
        PROVE  Aim
    <2>1. live'[p] = Nothing /\ live'[Target(p)] = Converted(p)
      BY <1>3, <1>a DEF MoveToTrash, TypeOK
    <2> QED
      BY <1>3, <1>a, <1>c, <2>1
  <1>4. ASSUME InPlace(p), MoveIntoPlace(p), live[Target(p)] = Converted(p), live[p] = Nothing
        PROVE  Aim
    <2>1. live'[p] = Converted(p)
      BY <1>4, <1>a DEF MoveIntoPlace, TypeOK
    <2> QED
      BY <1>4, <1>a, <1>c, <2>1
  <1> HIDE DEF Aim
  <1>5. CASE Process(p)
    <2>1. CASE Upload(p) \/ (ConfirmFails(p) /\ ~GivesUp(p, "uploaded", "withdraw"))
      <3>1. /\ live'[p] = live[p]
            /\ job[p].phase \in {"clear", "uploaded"}
        BY <1>a, <2>1 DEF Upload, ConfirmFails, MoveToTrash, Step, TypeOK
      <3> QED
        BY <1>0, <1>2, <3>1 DEF FileInv, JobKnows
    <2>2. CASE DeleteOriginal(p)
      <3>1. MoveToTrash(p) /\ live[Target(p)] = Converted(p)
        BY <2>2 DEF DeleteOriginal, Step, FileInv, JobKnows
      <3> QED
        BY <1>3, <3>1
    <2>3. CASE Rename(p)
      <3>1. /\ InPlace(p) /\ MoveIntoPlace(p)
            /\ live[Target(p)] = Converted(p) /\ live[p] = Nothing
        BY <2>3 DEF Rename, Step, FileInv, JobKnows
      <3> QED
        BY <1>4, <3>1
    <2> QED
      BY <1>1, <1>5, <2>1, <2>2, <2>3
         DEF Process, Decline, Reuse, Fetch, Encode, CheckDestination, ReclaimIfLow, EmptyTrash,
             UploadFails, Confirm, ConfirmFails, DeleteFails, GivesUp, RenameFails, Record,
             JobFails, Errs, Settle
  <1>6. CASE Discard(p)
    <2>1. UNCHANGED live
      BY <1>6 DEF Discard
    <2> QED
      BY <1>1, <2>1
  <1>7. CASE Lands(p)
    <2>1. CASE late[p] \in {"upload", "withdraw"} /\ ~UNCHANGED live
      <3>1. live'[p] = live[p]
        BY <1>7, <1>a, <2>1 DEF Lands, MoveToTrash, TypeOK
      <3> QED
        BY <1>0, <1>2, <2>1, <3>1 DEF FileInv, LateKnows
    <2>2. CASE late[p] = "delete" /\ ~UNCHANGED live
      <3>1. MoveToTrash(p) /\ live[Target(p)] = Converted(p)
        BY <1>7, <2>2 DEF Lands, FileInv, LateKnows
      <3> QED
        BY <1>3, <3>1
    <2>3. CASE late[p] = "rename" /\ ~UNCHANGED live
      <3>1. /\ InPlace(p) /\ MoveIntoPlace(p)
            /\ live[Target(p)] = Converted(p) /\ live[p] = Nothing
        BY <1>7, <2>3 DEF Lands, FileInv, LateKnows, Owned
      <3> QED
        BY <1>4, <3>1
    <2> QED
      BY <1>1, <1>7, <2>1, <2>2, <2>3 DEF Lands
  <1> QED
    BY <1>5, <1>6, <1>7 DEF Stage

(* Only Record makes a row done, and then the replacement stands alone.    *)
LEMMA RecordedStep ==
  ASSUME TypeOK, NEW p \in Convertible, Owned(p), Stage(p)
  PROVE  \/ InState(rows, "done")' = InState(rows, "done")
         \/ Record(p) /\ InState(rows, "done")' = InState(rows, "done") \cup {p}
  <1> USE TargetTyped
  <1>1. ASSUME Record(p)
        PROVE  InState(rows, "done")' = InState(rows, "done") \cup {p}
    <2>1. HasRow(rows, p)
      BY <1>1 DEF Record, Replaced, Owned, HasRow
    <2> QED
      BY <1>1, <2>1, HasRowIsRow DEF Record, RecordConversion, InState, TypeOK, Table, Row
  <1>2. ASSUME NEW st \in States \ {"done"}, NEW why \in Reasons,
               rows' = SetState(rows, p, st, why), rows[p].state = "claimed"
        PROVE  InState(rows, "done")' = InState(rows, "done")
    BY <1>2 DEF SetState, InState, TypeOK, Table, Row
  <1>3. ASSUME UNCHANGED rows
        PROVE  InState(rows, "done")' = InState(rows, "done")
    BY <1>3 DEF InState
  <1>4. ASSUME Settle(p) \/ \E why \in {"nature", "settings"} : Decline(p, why)
        PROVE  InState(rows, "done")' = InState(rows, "done")
    <2>1. rows[p].state = "claimed"
      BY <1>4 DEF Settle, Decline, Owned
    <2>2. \/ rows' = rows
          \/ \E st \in States \ {"done"}, why \in Reasons : rows' = SetState(rows, p, st, why)
      BY <1>4 DEF Settle, Decline, States, Reasons
    <2> QED
      BY <1>2, <1>3, <2>1, <2>2
  <1> QED
    BY <1>1, <1>3, <1>4
       DEF Stage, Process, Reuse, Fetch, Encode, CheckDestination, ReclaimIfLow, EmptyTrash,
           Upload, UploadFails, Confirm, ConfirmFails, DeleteOriginal, DeleteFails, GivesUp,
           Rename, RenameFails, JobFails, Errs, Discard, Lands

-----------------------------------------------------------------------------
(* The refinement.                                                         *)

Done == Kept \cap InState(rows, "done")

(* A step that leaves the remote alone and makes no row done is Forget.    *)
LEMMA ForgetStep ==
  ASSUME UNCHANGED live, InState(rows, "done")' \subseteq InState(rows, "done")
  PROVE  Promised!Forget
  BY KeptIsConstant
     DEF Promised!Forget, CopiesLive, Original, Converted, Kept, Apart, Names, Target, InPlace

LEMMA StageImplements ==
  ASSUME PInv, PInv', HasHash, NEW p \in Convertible, Stage(p)
  PROVE  [Promised!Next]_(Promised!vars)
  <1>0. TypeOK /\ TypeOK' /\ Owned(p)
    BY DEF PInv, IInv
  <1>1. /\ Local(p)
        /\ CopiesLive = [q \in Kept |-> CopiesOf(q)]
        /\ CopiesLive' = [q \in Kept |-> CopiesOf(q)']
    BY <1>0, StageLocal, CopiesByName, CopiesNextByName, KeptIsConstant DEF PInv
  <1>2. \A q \in Kept \ {p} : CopiesOf(q)' = CopiesOf(q)
    BY <1>1, OtherCopiesStay DEF PInv
  <1>3. Done' = Done \/ (Record(p) /\ Done' = Done \cup (Kept \cap {p}))
    BY <1>0, RecordedStep, KeptIsConstant DEF Done
  <1>4. CASE p \notin Kept
    <2>1. CopiesLive' = CopiesLive /\ Done' = Done
      BY <1>1, <1>2, <1>3, <1>4
    <2> QED
      BY <2>1 DEF Promised!vars, Done
  <1>5. CASE p \in Kept
    <2>1. CopiesLive' = [CopiesLive EXCEPT ![p] = CopiesOf(p)']
      BY <1>1, <1>2
    <2>2. FileInv(p) /\ TypeOK /\ p \in Kept \cap Convertible
      BY <1>0, <1>5 DEF PInv, IInv
    <2> DEFINE Now == CopiesOf(p)
               Then == CopiesOf(p)'
    <2>3. /\ live[p] = Original(p) /\ live'[p] # Original(p) =>
               /\ live[Target(p)] = Converted(p)
               /\ "replacement" \in Then
          /\ live[p] # Original(p) => live'[p] # Original(p)
          /\ live[p] # Original(p) /\ Then # Now => InPlace(p) /\ rows[p].state # "done"
      BY <1>0, <2>2, OwnCopiesStep
    <2>4. /\ "original" \in Now <=> live[p] = Original(p)
          /\ live[Target(p)] = Converted(p) => "replacement" \in Now
          /\ "original" \in Then <=> live'[p] = Original(p)
          /\ Now \subseteq {"original", "replacement"}
          /\ Then \subseteq {"original", "replacement"}
      BY <2>2, CopiesAre
    <2> HIDE DEF Now, Then
    <2>a. Now \in {{}, {"original"}, {"replacement"}, {"original", "replacement"}}
      BY <2>4
    <2>b. Then \in {{}, {"original"}, {"replacement"}, {"original", "replacement"}}
      BY <2>4
    <2>5. \/ Then = Now
          \/ Now = {"original"} /\ Then = {"original", "replacement"}
          \/ Now = {"original", "replacement"} /\ Then = {"original"}
          \/ Now = {"original", "replacement"} /\ Then = {"replacement"}
          \/ /\ InPlace(p) /\ rows[p].state # "done"
             /\ \/ Now = {"replacement"} /\ Then = {}
                \/ Now = {} /\ Then = {"replacement"}
      <3>1. CASE live[p] = Original(p)
        <4>1. Now \in {{"original"}, {"original", "replacement"}}
          BY <2>4, <2>a, <3>1
        <4>2. CASE live'[p] = Original(p)
          <5>1. Then \in {{"original"}, {"original", "replacement"}}
            BY <2>4, <2>b, <4>2
          <5> QED
            BY <4>1, <5>1
        <4>3. CASE live'[p] # Original(p)
          <5>1. Now = {"original", "replacement"}
            BY <2>3, <2>4, <3>1, <4>1, <4>3
          <5>2. Then = {"replacement"}
            BY <2>3, <2>4, <2>b, <3>1, <4>3
          <5> QED
            BY <5>1, <5>2
        <4> QED
          BY <4>2, <4>3
      <3>2. CASE live[p] # Original(p)
        <4>1. Now \in {{}, {"replacement"}}
          BY <2>4, <2>a, <3>2
        <4>2. Then \in {{}, {"replacement"}}
          BY <2>3, <2>4, <2>b, <3>2
        <4> QED
          BY <2>3, <3>2, <4>1, <4>2
      <3> QED
        BY <3>1, <3>2
    <2> USE DEF Now, Then
    <2>6. CASE Then = Now
      <3>1. CopiesLive' = CopiesLive
        BY <1>1, <1>2, <2>6
      <3>2. CASE Done' = Done
        BY <3>1, <3>2 DEF Promised!vars, Done
      <3>3. CASE Record(p) /\ Done' = Done \cup {p}
        <4>1. CopiesLive[p] = {"replacement"}
          <5>1. /\ live[Out[p]] = Converted(p)
                /\ live[p] # Original(p)
            BY <2>2, <3>3, NamesOfOne, FormsApart, TargetTyped
               DEF Record, Replaced, FileInv, JobKnows
          <5>2. "original" \notin Now /\ "replacement" \in Now /\ Now \subseteq {"original", "replacement"}
            BY <2>2, <5>1, CopiesAre, NamesOfOne
          <5>3. Now = {"replacement"}
            BY <5>2
          <5> QED
            BY <1>1, <1>5, <5>3
        <4> QED
          BY <1>5, <3>1, <3>3, <4>1 DEF Promised!Next, Promised!RecordDone, Done
      <3> QED
        BY <1>3, <1>5, <3>2, <3>3
    <2>7. CASE Then # Now
      <3>1. Done' = Done
        <4>1. ~Record(p)
          <5> SUFFICES ASSUME Record(p) PROVE FALSE
            OBVIOUS
          <5>1. UNCHANGED live
            BY DEF Record
          <5> QED
            BY <2>7, <5>1 DEF CopiesOf, Homes, Original, Converted, Target, InPlace
        <4> QED
          BY <1>3, <4>1
      <3>2. CopiesLive[p] = Now
        BY <1>1, <1>5
      <3>3. CASE Now = {"original"} /\ Then = {"original", "replacement"}
        BY <1>5, <2>1, <3>1, <3>2, <3>3 DEF Promised!Next, Promised!Publish, Done
      <3>4. CASE Now = {"original", "replacement"} /\ Then = {"original"}
        BY <1>5, <2>1, <3>1, <3>2, <3>4 DEF Promised!Next, Promised!Withdraw, Done
      <3>5. CASE Now = {"original", "replacement"} /\ Then = {"replacement"}
        BY <1>5, <2>1, <3>1, <3>2, <3>5 DEF Promised!Next, Promised!Retire, Done
      <3>6. CASE InPlace(p) /\ rows[p].state # "done" /\ Now = {"replacement"} /\ Then = {}
        <4>1. p \in {q \in Kept \cap Convertible : InPlace(q)} \ Done
          BY <2>2, <3>6 DEF Done, InState
        <4> QED
          BY <1>5, <2>1, <3>1, <3>2, <3>6, <4>1 DEF Promised!Next, Promised!Spoil, Done
      <3>7. CASE Now = {} /\ Then = {"replacement"}
        BY <1>5, <2>1, <3>1, <3>2, <3>7 DEF Promised!Next, Promised!Mend, Done
      <3> QED
        BY <2>5, <2>7, <3>3, <3>4, <3>5, <3>6, <3>7
    <2> QED
      BY <2>6, <2>7
  <1> QED
    BY <1>4, <1>5

LEMMA CommandImplements ==
  ASSUME TypeOK, TypeOK',
         \/ \E retry \in BOOLEAN : Start(retry)
         \/ Cancel \/ Finish \/ Crash \/ Scan \/ Cleanup \/ RecordPurge
         \/ \E p \in Convertible : ClaimNext(p)
  PROVE  Promised!Forget
  <1>1. UNCHANGED live
    BY DEF Start, Cancel, Finish, Crash, Scan, Cleanup, EmptyTrash, RecordPurge, ClaimNext
  <1>2. \A q \in Paths : rows'[q].state = "done" => rows[q].state = "done"
    <2> SUFFICES ASSUME NEW q \in Paths, rows'[q].state = "done"
                 PROVE  rows[q].state = "done"
      OBVIOUS
    <2>1. ASSUME NEW retry \in BOOLEAN, Start(retry)
          PROVE  rows[q].state = "done"
      BY <2>1, ResetRows
    <2>2. ASSUME Scan
          PROVE  rows[q].state = "done"
      BY <2>2, ScannedRows
    <2>3. ASSUME RecordPurge
          PROVE  rows[q].state = "done"
      BY <2>3 DEF RecordPurge, MarkReclaimed, PendingReclaim, TypeOK, Table
    <2>4. ASSUME NEW p \in Convertible, ClaimNext(p)
          PROVE  rows[q].state = "done"
      <3>1. rows' = [rows EXCEPT ![p].state = "claimed"] /\ p \in Paths
        BY <2>4, TargetTyped DEF ClaimNext, Claim
      <3>2. CASE q = p
        <4>1. rows[p] \in Row(Paths, Contents, Contents)
          BY <2>4, HasRowIsRow, TargetTyped DEF ClaimNext, Claimable, TypeOK, States
        <4>2. rows'[p] = [rows[p] EXCEPT !.state = "claimed"]
          BY <3>1 DEF TypeOK, Table
        <4> QED
          BY <3>2, <4>1, <4>2 DEF Row
      <3>3. CASE q # p
        BY <3>1, <3>3 DEF TypeOK, Table
      <3> QED
        BY <3>2, <3>3
    <2>5. ASSUME Cancel \/ Finish \/ Crash \/ Cleanup
          PROVE  rows[q].state = "done"
      BY <2>5 DEF Cancel, Finish, Crash, Cleanup, EmptyTrash
    <2> QED
      BY <2>1, <2>2, <2>3, <2>4, <2>5
  <1>3. DOMAIN rows = Paths /\ DOMAIN rows' = Paths
    BY DEF TypeOK, Table
  <1>4. InState(rows, "done")' \subseteq InState(rows, "done")
    BY <1>2, <1>3 DEF InState
  <1> QED
    BY <1>1, <1>4, ForgetStep

LEMMA InitImplements ==
  ASSUME Init, PInv
  PROVE  Promised!Init
  <1>1. CopiesLive = [p \in Kept |-> CopiesOf(p)]
    BY CopiesByName
  <1>2. ASSUME NEW p \in Kept
        PROVE  CopiesOf(p) = {"original"}
    <2>1. live[p] = Original(p) /\ p \in Paths
      BY KeptIsPath DEF Init
    <2>2. \A n \in Homes(p) : live[n] # Converted(p)
      <3> SUFFICES ASSUME NEW n \in Homes(p)
                   PROVE  live[n] # Converted(p)
        OBVIOUS
      <3>1. n \in Paths
        BY TargetTyped DEF Homes
      <3>2. live[n] = Original(n) \/ live[n] = Nothing
        BY <3>1 DEF Init
      <3> QED
        BY <2>1, <3>1, <3>2, FormsApart, FilesApart
    <2> QED
      BY <2>1, <2>2 DEF CopiesOf
  <1>3. InState(rows, "done") = {}
    BY DEF Init, InState, Fresh, Absent
  <1> QED
    BY <1>1, <1>2, <1>3 DEF Promised!Init

(* Whatever fails, crashes, is cancelled, lands late or is purged, each    *)
(* step of the tool is a step of the promise or none of its business: an   *)
(* original goes only from beside its whole replacement, a conversion is   *)
(* recorded only when the replacement stands alone, and what was recorded  *)
(* is not touched again (pipeline.rs, lines 541-657).                      *)
THEOREM Refinement ==
  ASSUME HasHash
  PROVE  Spec => KeepsPromise
  <1>1. Init => AtHome
    BY InitAtHome
  <1>2. IInv /\ IInv' /\ AtHome /\ [Next]_vars => AtHome'
    BY StepsAtHome DEF PInv
  <1>3. Init /\ IInv /\ AtHome => Promised!Init
    BY InitImplements DEF PInv
  <1>4. IInv /\ IInv' /\ AtHome /\ AtHome' /\ [Next]_vars => [Promised!Next]_(Promised!vars)
    <2> SUFFICES ASSUME PInv, PInv', [Next]_vars
                 PROVE  [Promised!Next]_(Promised!vars)
      BY DEF PInv
    <2>1. ASSUME NEW p \in Convertible, Process(p) \/ Discard(p) \/ Lands(p)
          PROVE  [Promised!Next]_(Promised!vars)
      BY <2>1, StageImplements DEF Stage
    <2>2. ASSUME \/ \E retry \in BOOLEAN : Start(retry)
                 \/ Cancel \/ Finish \/ Crash \/ Scan \/ Cleanup \/ RecordPurge
                 \/ \E p \in Convertible : ClaimNext(p)
          PROVE  [Promised!Next]_(Promised!vars)
      BY <2>2, CommandImplements DEF PInv, IInv, Promised!Next
    <2>3. ASSUME UNCHANGED vars
          PROVE  UNCHANGED Promised!vars
      BY <2>3
         DEF vars, Promised!vars, CopiesLive, InState, Original, Converted, Kept, Apart, Names,
             Target, InPlace
    <2> QED
      BY <2>1, <2>2, <2>3 DEF Next
  <1>5. Spec => []IInv
    BY Invariance
  <1> QED
    BY <1>1, <1>2, <1>3, <1>4, <1>5, PTL DEF Spec, KeepsPromise, Promised!Spec
=============================================================================
