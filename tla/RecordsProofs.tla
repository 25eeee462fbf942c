--------------------------- MODULE RecordsProofs ---------------------------
(***************************************************************************)
(* What module Records promises of what was recorded, proved for any       *)
(* files, any period of retention and any number of commands and edits.    *)
(***************************************************************************)
EXTENDS Records, LedgerTableProofs

Sizes == {Size(f) : f \in Files}

(* The program's state is well formed: TypeOK, and the ledger is a table.  *)
WellFormed ==
  /\ rows \in Table(Paths, Sizes, Files)
  /\ live \in [Paths -> Files \cup {Nothing}]
  /\ trash \subseteq [file : Files, from : Library, since : 0..MaxDay]
  /\ converted \in [Paths -> Files \cup {Nothing}]
  /\ trashedAt \in [Paths -> 0..MaxDay]
  /\ listed \in [Paths -> Files \cup {Nothing}]
  /\ cmd \in [at : Stages, path : Paths \cup {NoPath}, file : Files \cup {Nothing}]
  /\ today \in 0..MaxDay

(* A finished row names the replacement, and its digest, if it has one, is *)
(* that of what was converted or of what was listed in its place since.    *)
Founded ==
  \A p \in Paths : rows[p].state = "done" =>
    /\ rows[p].output = Out[p] /\ p \in Library
    /\ converted[p] \in Files
    /\ rows[p].trashed
    /\ rows[p].hash \in {NoHash, converted[p], listed[p]}

(* A job between its replacement and its record still holds its row.       *)
Replacing ==
  cmd.at = "replaced" =>
    cmd.path \in Library /\ cmd.file \in Files /\ rows[cmd.path].state = "claimed"

(* What is in the trash of a finished file, the ledger waits for, and      *)
(* counts its age from no earlier day than it got there.                   *)
Awaited ==
  \A t \in trash :
    /\ t.since <= today
    /\ rows[t.from].state = "done" =>
         ~rows[t.from].reclaimed /\ t.since <= trashedAt[t.from]

(* A purge by age finds what it looked at when it decided.                 *)
Expiring == cmd.at = "expiring" => TooRecent = {}

Emptied == cmd.at = "emptied" => trash = {}

IInv ==
  /\ WellFormed
  /\ Founded
  /\ Replacing
  /\ Awaited
  /\ Expiring
  /\ Emptied
  /\ RebuiltIsReplaced

-----------------------------------------------------------------------------
(* A file has a size of its two forms, and each form is a file.            *)
LEMMA FormsAreFiles ==
  /\ \A f \in Files : /\ Size(f) \in Sizes
                      /\ ConvertedOf(f) \in Files
                      /\ OriginalOf(f) \in Files
  /\ \A p \in Library, v \in Versions : Original(p, v) \in Files
  BY DEF Sizes, Files, ConvertedOf, OriginalOf, Original

(* What a scan is given is a listing of paths with sizes and digests.      *)
LEMMA ListingIsTyped ==
  ASSUME WellFormed, NEW hashed \in BOOLEAN
  PROVE  /\ DOMAIN Listing(hashed) = {p \in Paths : live[p] # Nothing}
         /\ \A p \in DOMAIN Listing(hashed) :
              /\ Listing(hashed)[p].size = Size(live[p])
              /\ Listing(hashed)[p].size \in Sizes
              /\ Listing(hashed)[p].hash = IF hashed THEN live[p] ELSE NoHash
              /\ Listing(hashed)[p].hash \in Files \cup {NoHash}
  BY FormsAreFiles DEF WellFormed, Listing

(* The first scan writes a table with nothing finished.                    *)
LEMMA InitHolds == Init => IInv
  <1> SUFFICES ASSUME Init PROVE IInv
    OBVIOUS
  <1> USE RecordsAssumption
  <1>1. live \in [Paths -> Files \cup {Nothing}]
    BY FormsAreFiles DEF Init
  <1>2. \A p \in Paths : rows[p].state # "done"
    BY DEF Init, Fresh, Absent
  <1>3. rows \in Table(Paths, Sizes, Files)
    <2>1. ASSUME NEW p \in Paths, live[p] # Nothing
          PROVE  Fresh(Listing(FALSE)[p]) \in Row(Paths, Sizes, Files)
      <3> DEFINE entry == Listing(FALSE)[p]
      <3>1. entry.size = Size(live[p]) /\ entry.hash = NoHash
        BY <2>1 DEF Listing
      <3>2. entry.size \in Sizes
        BY <1>1, <2>1, <3>1, FormsAreFiles
      <3> HIDE DEF entry
      <3>3. Fresh(entry) \in Row(Paths, Sizes, Files)
        BY <3>1, <3>2 DEF Fresh, Row, States, Reasons
      <3> QED
        BY <3>3 DEF entry
    <2> QED
      BY <2>1 DEF Init, Table
  <1>4. WellFormed
    BY <1>1, <1>3 DEF Init, WellFormed, Idle, Stages
  <1> QED
    BY <1>2, <1>4 DEF Init, IInv, Founded, Replacing, Awaited, Expiring, Emptied,
                      RebuiltIsReplaced, Idle

-----------------------------------------------------------------------------
(* A ledger command that leaves the finished rows alone, with the          *)
(* conversions and the listings as they were, keeps them founded, and what *)
(* is in the trash awaited.                                                *)
LEMMA StaysFounded ==
  ASSUME IInv, SameDone(rows, rows'), UNCHANGED <<converted, listed>>
  PROVE  Founded'
  BY DEF IInv, Founded, WellFormed, SameDone, Table

LEMMA StaysAwaited ==
  ASSUME IInv, SameDone(rows, rows'), UNCHANGED <<trash, trashedAt>>, today' >= today,
         today' \in 0..MaxDay
  PROVE  Awaited'
  <1> USE RecordsAssumption
  <1>1. \A t \in trash : t.from \in Paths /\ t.since \in Nat /\ today \in Nat /\ today' \in Nat
    BY DEF IInv, WellFormed
  <1> QED
    BY <1>1 DEF IInv, Awaited, WellFormed, SameDone, Table

(* run: the rows of an earlier run are taken up again, the finished ones   *)
(* left alone.                                                             *)
LEMMA RunTakesUp ==
  ASSUME IInv, NEW retry \in BOOLEAN, Run(retry)
  PROVE  rows' \in Table(Paths, Sizes, Files) /\ SameDone(rows, rows')
  <1> DEFINE recovered == RecoverClaimed(rows)
             retried == IF retry THEN RetryFailed(recovered) ELSE recovered
  <1>1. rows \in Table(Paths, Sizes, Files)
    BY DEF IInv, WellFormed
  <1>2. recovered \in Table(Paths, Sizes, Files) /\ SameDone(rows, recovered)
    BY <1>1, RecoverIsTable, DoneIsLeftAlone
  <1>3. retried \in Table(Paths, Sizes, Files) /\ SameDone(recovered, retried)
    <2>1. CASE retry
      BY <1>2, <2>1, RetryIsTable, DoneIsLeftAlone
    <2>2. CASE ~retry
      BY <1>2, <2>2 DEF SameDone
    <2> QED
      BY <2>1, <2>2
  <1>4. rows' \in Table(Paths, Sizes, Files) /\ SameDone(retried, rows')
    BY <1>3, ReopenIsTable, DoneIsLeftAlone DEF Run
  <1> QED
    BY <1>1, <1>2, <1>3, <1>4 DEF SameDone, Table

LEMMA RunKeeps ==
  ASSUME IInv, NEW retry \in BOOLEAN, Run(retry)
  PROVE  IInv'
  <1>1. rows' \in Table(Paths, Sizes, Files) /\ SameDone(rows, rows')
    BY RunTakesUp
  <1>2. cmd' = [cmd EXCEPT !.at = "loop"] /\ cmd'.at = "loop"
    BY DEF Run, Goes, IInv, WellFormed
  <1>3. WellFormed'
    BY <1>1, <1>2 DEF Run, IInv, WellFormed, Stages
  <1>4. Founded' /\ Awaited'
    BY <1>1, StaysFounded, StaysAwaited, RecordsAssumption DEF Run, IInv, WellFormed
  <1> QED
    BY <1>2, <1>3, <1>4 DEF IInv, Replacing, Expiring, Emptied, RebuiltIsReplaced

(* A job replaces a file: the original, as it got there, is in the trash.  *)
LEMMA ConvertKeeps ==
  ASSUME IInv, NEW p \in Paths, Convert(p)
  PROVE  IInv'
  <1> USE RecordsAssumption
  <1>1. /\ p \in Library /\ live[p] \in Files /\ rows[p].state = "pending"
        /\ rows \in Table(Paths, Sizes, Files)
    BY DEF Convert, Replaceable, Claimable, IInv, WellFormed
  <1>2. rows' \in Table(Paths, Sizes, Files) /\ SameDone(rows, rows')
    BY <1>1, ClaimIsTable, DoneIsLeftAlone DEF Convert
  <1>3. cmd' = [at |-> "replaced", path |-> p, file |-> live[p]]
    BY DEF Convert, IInv, WellFormed
  <1>4. rows'[p].state = "claimed"
    <2>1. rows[p] \in Row(Paths, Sizes, Files)
      BY <1>1, HasRowIsRow DEF States
    <2>2. [rows[p] EXCEPT !.state = "claimed"].state = "claimed"
      BY <2>1 DEF Row
    <2> QED
      BY <1>1, <2>2 DEF Convert, Claim, Table
  <1>5. WellFormed'
    <2>1. live' \in [Paths -> Files \cup {Nothing}]
      BY <1>1, FormsAreFiles DEF Convert, IInv, WellFormed
    <2>2. trash' \subseteq [file : Files, from : Library, since : 0..MaxDay]
      BY <1>1 DEF Convert, IInv, WellFormed
    <2> QED
      BY <1>1, <1>2, <1>3, <2>1, <2>2 DEF Convert, IInv, WellFormed, Stages
  <1>6. Founded'
    BY <1>2, StaysFounded DEF Convert
  <1>7. Awaited'
    <2>1. ASSUME NEW t \in trash
          PROVE  /\ t.since <= today
                 /\ rows'[t.from].state = "done" =>
                      ~rows'[t.from].reclaimed /\ t.since <= trashedAt[t.from]
      <3>1. t.from \in Paths
        BY DEF IInv, WellFormed
      <3> QED
        BY <1>1, <1>2, <3>1 DEF IInv, Awaited, SameDone, Table
    <2>2. today <= today
      BY DEF IInv, WellFormed
    <2> QED
      BY <1>4, <2>1, <2>2 DEF Convert, Awaited
  <1> QED
    BY <1>1, <1>3, <1>4, <1>5, <1>6, <1>7
    DEF IInv, Replacing, Expiring, Emptied, RebuiltIsReplaced

(* A job that ends without a replacement finishes no row.                  *)
LEMMA DeclineKeeps ==
  ASSUME IInv, NEW p \in Paths, Decline(p)
  PROVE  IInv'
  <1> USE RecordsAssumption
  <1>1. rows[p].state = "pending" /\ rows \in Table(Paths, Sizes, Files)
    BY DEF Decline, Claimable, IInv, WellFormed
  <1>2. PICK s \in {"skipped", "failed"}, why \in {"nature", "none"} :
          rows' = SetState(rows, p, s, why)
    BY DEF Decline
  <1>3. s \in States /\ why \in Reasons /\ s # "done" /\ rows[p].state # "done"
    BY <1>1 DEF States, Reasons
  <1>4. rows' \in Table(Paths, Sizes, Files)
    BY <1>1, <1>2, <1>3, SetStateIsTable
  <1>5. SameDone(rows, rows')
    BY <1>1, <1>2, <1>3, DoneIsLeftAlone
  <1>6. Founded' /\ Awaited'
    BY <1>5, StaysFounded, StaysAwaited DEF Decline, IInv, WellFormed
  <1>7. WellFormed'
    BY <1>4 DEF Decline, IInv, WellFormed
  <1> QED
    BY <1>6, <1>7 DEF Decline, IInv, Replacing, Expiring, Emptied, RebuiltIsReplaced

(* record_conversion: the row is finished, and founded on what was         *)
(* converted.                                                              *)
LEMMA RecordKeeps ==
  ASSUME IInv, Record
  PROVE  IInv'
  <1> USE RecordsAssumption
  <1> DEFINE p == cmd.path
  <1>1. /\ p \in Library /\ p \in Paths /\ cmd.file \in Files /\ Out[p] \in Paths
        /\ rows[p].state = "claimed" /\ rows \in Table(Paths, Sizes, Files)
    BY DEF Record, IInv, Replacing, WellFormed
  <1>2. rows[p] \in Row(Paths, Sizes, Files) /\ HasRow(rows, p)
    BY <1>1, HasRowIsRow DEF States
  <1>3. rows' \in Table(Paths, Sizes, Files)
    BY <1>1, RecordIsTable DEF Record
  <1>4. /\ rows'[p].state = "done" /\ rows'[p].output = Out[p] /\ rows'[p].hash = cmd.file
        /\ rows'[p].trashed = TRUE /\ rows'[p].reclaimed = FALSE
    <2> DEFINE done == [rows[p] EXCEPT !.state = "done", !.reason = "none", !.output = Out[p],
                                       !.hash = cmd.file, !.trashed = TRUE, !.reclaimed = FALSE]
    <2>1. /\ done.state = "done" /\ done.output = Out[p] /\ done.hash = cmd.file
          /\ done.trashed = TRUE /\ done.reclaimed = FALSE
      BY <1>2 DEF Row
    <2>2. rows' = [rows EXCEPT ![p] = done]
      BY <1>1, <1>2 DEF Record, RecordConversion, Table
    <2> QED
      BY <1>1, <2>1, <2>2 DEF Table
  <1>5. ASSUME NEW q \in Paths, q # p
        PROVE  rows'[q] = rows[q]
    BY <1>1, <1>2, <1>5 DEF Record, RecordConversion, Table
  <1>6. /\ converted' = [converted EXCEPT ![p] = cmd.file]
        /\ trashedAt' = [trashedAt EXCEPT ![p] = today]
        /\ listed' = [listed EXCEPT ![p] = Nothing]
    BY DEF Record
  <1>7. cmd' = [at |-> "loop", path |-> NoPath, file |-> Nothing]
    BY DEF Record, Idle
  <1>8. WellFormed'
    <2>1. /\ converted' \in [Paths -> Files \cup {Nothing}]
          /\ trashedAt' \in [Paths -> 0..MaxDay]
          /\ listed' \in [Paths -> Files \cup {Nothing}]
      BY <1>1, <1>6 DEF IInv, WellFormed
    <2>2. cmd' \in [at : Stages, path : Paths \cup {NoPath}, file : Files \cup {Nothing}]
      BY <1>7 DEF Stages
    <2> QED
      BY <1>3, <2>1, <2>2 DEF Record, IInv, WellFormed
  <1>9. Founded'
    <2>1. ASSUME NEW q \in Paths, rows'[q].state = "done"
          PROVE  /\ rows'[q].output = Out[q] /\ q \in Library
                 /\ converted'[q] \in Files
                 /\ rows'[q].trashed
                 /\ rows'[q].hash \in {NoHash, converted'[q], listed'[q]}
      <3>1. CASE q = p
        BY <1>1, <1>4, <1>6, <3>1 DEF IInv, WellFormed
      <3>2. CASE q # p
        BY <1>5, <1>6, <2>1, <3>2 DEF IInv, WellFormed, Founded
      <3> QED
        BY <3>1, <3>2
    <2> QED
      BY <2>1 DEF Founded
  <1>10. Awaited'
    <2>1. ASSUME NEW t \in trash
          PROVE  /\ t.since <= today
                 /\ rows'[t.from].state = "done" =>
                      ~rows'[t.from].reclaimed /\ t.since <= trashedAt'[t.from]
      <3>1. t.from \in Paths
        BY DEF IInv, WellFormed
      <3>2. CASE t.from = p
        BY <1>1, <1>4, <1>6, <3>2 DEF IInv, Awaited, WellFormed
      <3>3. CASE t.from # p
        BY <1>5, <1>6, <3>1, <3>3 DEF IInv, Awaited, WellFormed
      <3> QED
        BY <3>2, <3>3
    <2> QED
      BY <2>1 DEF Record, Awaited
  <1> QED
    BY <1>7, <1>8, <1>9, <1>10 DEF IInv, Replacing, Expiring, Emptied, RebuiltIsReplaced

(* The end of a run, or a cleanup, decides whether the trash is emptied;   *)
(* by age, only when nothing the ledger waits for is too recent.           *)
LEMMA DecidingKeeps ==
  ASSUME IInv, Return \/ Cleanup
  PROVE  IInv'
  <1>1. /\ cmd' \in [at : Stages, path : Paths \cup {NoPath}, file : Files \cup {Nothing}]
        /\ cmd'.at \in {"idle", "emptying", "expiring"}
        /\ cmd'.at = "expiring" => TooRecent = {}
    BY DEF Return, Cleanup, Goes, Ends, Idle, AgedReady, IInv, WellFormed, Stages
  <1>2. UNCHANGED <<live, trash, rows, converted, trashedAt, listed, today>>
    BY DEF Return, Cleanup
  <1>3. TooRecent' = TooRecent
    BY <1>2 DEF TooRecent
  <1> QED
    BY <1>1, <1>2, <1>3
    DEF IInv, WellFormed, Founded, Replacing, Awaited, Expiring, Emptied, RebuiltIsReplaced

(* The trash is emptied, and then the ledger told.                         *)
LEMMA EmptyKeeps ==
  ASSUME IInv, Empty
  PROVE  IInv'
  <1>1. cmd' = [cmd EXCEPT !.at = "emptied"] /\ cmd'.at = "emptied"
    BY DEF Empty, Goes, IInv, WellFormed
  <1> QED
    BY <1>1 DEF Empty, IInv, WellFormed, Founded, Replacing, Awaited, Expiring, Emptied,
                RebuiltIsReplaced, Stages

LEMMA RecordPurgeKeeps ==
  ASSUME IInv, RecordPurge
  PROVE  IInv'
  <1>1. rows \in Table(Paths, Sizes, Files) /\ trash = {}
    BY DEF RecordPurge, IInv, WellFormed, Emptied
  <1>2. rows' \in Table(Paths, Sizes, Files)
    BY <1>1, MarkIsTable DEF RecordPurge
  <1>3. cmd' = [at |-> "idle", path |-> NoPath, file |-> Nothing]
    BY DEF RecordPurge, Ends, Idle
  <1>4. WellFormed'
    BY <1>2, <1>3 DEF RecordPurge, IInv, WellFormed, Stages
  <1>5. Founded'
    <2>1. ASSUME NEW p \in Paths, rows'[p].state = "done"
          PROVE  /\ rows'[p].output = Out[p] /\ p \in Library
                 /\ converted[p] \in Files
                 /\ rows'[p].trashed
                 /\ rows'[p].hash \in {NoHash, converted[p], listed[p]}
      <3>1. CASE p \in PendingReclaim(rows)
        <4>1. rows[p].state = "done"
          BY <3>1 DEF PendingReclaim
        <4>2. rows[p] \in Row(Paths, Sizes, Files)
          BY <1>1, <4>1, HasRowIsRow DEF States
        <4>3. rows'[p] = [rows[p] EXCEPT !.reclaimed = TRUE]
          BY <1>1, <3>1 DEF RecordPurge, MarkReclaimed, Table
        <4>4. /\ rows'[p].output = rows[p].output /\ rows'[p].hash = rows[p].hash
              /\ rows'[p].trashed = rows[p].trashed
          BY <4>2, <4>3 DEF Row
        <4> QED
          BY <4>1, <4>4 DEF IInv, Founded
      <3>2. CASE p \notin PendingReclaim(rows)
        <4>1. rows'[p] = rows[p]
          BY <1>1, <3>2 DEF RecordPurge, MarkReclaimed, Table
        <4> QED
          BY <2>1, <4>1 DEF IInv, Founded
      <3> QED
        BY <3>1, <3>2
    <2> QED
      BY <2>1 DEF RecordPurge, Founded
  <1> QED
    BY <1>1, <1>3, <1>4, <1>5
    DEF RecordPurge, IInv, Replacing, Awaited, Expiring, Emptied, RebuiltIsReplaced

(* A scan, with or without digests: a finished row that stays finished     *)
(* takes the digest of what is listed, or none.                            *)
LEMMA ScanKeeps ==
  ASSUME IInv, Scan
  PROVE  IInv'
  <1> USE RecordsAssumption
  <1>1. PICK hashed \in BOOLEAN :
          /\ rows' = Sync(RecoverClaimed(rows), Paths, Listing(hashed))
          /\ listed' = [p \in Paths |->
                          IF hashed /\ live[p] # Nothing /\ rows[p].state = "done"
                          THEN live[p] ELSE listed[p]]
    BY DEF Scan
  <1> DEFINE recovered == RecoverClaimed(rows)
             listing == Listing(hashed)
  <1>2. rows \in Table(Paths, Sizes, Files) /\ DOMAIN rows = Paths
    BY DEF IInv, WellFormed, Table
  <1>3. recovered \in Table(Paths, Sizes, Files) /\ SameDone(rows, recovered)
    BY <1>2, RecoverIsTable, DoneIsLeftAlone
  <1>4. /\ DOMAIN listing = {p \in Paths : live[p] # Nothing}
        /\ \A p \in DOMAIN listing :
             /\ listing[p].size \in Sizes
             /\ listing[p].hash = IF hashed THEN live[p] ELSE NoHash
             /\ listing[p].hash \in Files \cup {NoHash}
    BY ListingIsTyped DEF IInv
  <1>a. rows' = Sync(recovered, Paths, listing)
    BY <1>1
  <1> HIDE DEF recovered, listing
  <1>5. rows' \in Table(Paths, Sizes, Files)
    BY <1>a, <1>3, <1>4, SyncIsTable
  <1>7. ASSUME NEW p \in Paths, rows'[p].state = "done"
        PROVE  /\ rows[p].state = "done"
               /\ rows'[p].output = rows[p].output
               /\ rows'[p].trashed = rows[p].trashed
               /\ rows'[p].reclaimed = rows[p].reclaimed
               /\ rows'[p].hash \in {NoHash, converted[p], listed'[p]}
    <2>1. /\ recovered[p].state = "done"
          /\ p \notin DOMAIN listing => rows'[p] = recovered[p]
          /\ p \in DOMAIN listing =>
               /\ rows'[p].hash = listing[p].hash
               /\ rows'[p].output = recovered[p].output
               /\ rows'[p].trashed = recovered[p].trashed
               /\ rows'[p].reclaimed = recovered[p].reclaimed
      BY <1>a, <1>3, <1>7, ScanOfDone
    <2>2. recovered[p] = rows[p] /\ rows[p].state = "done"
      BY <1>2, <1>3, <2>1 DEF SameDone
    <2>3. CASE p \notin DOMAIN listing
      <3>1. live[p] = Nothing
        BY <1>4, <2>3
      <3>2. listed'[p] = listed[p] /\ rows'[p] = rows[p]
        BY <1>1, <2>1, <2>2, <2>3, <3>1
      <3> QED
        BY <2>2, <3>2 DEF IInv, Founded
    <2>4. CASE p \in DOMAIN listing /\ hashed
      BY <1>1, <1>4, <2>1, <2>2, <2>4
    <2>5. CASE p \in DOMAIN listing /\ ~hashed
      BY <1>4, <2>1, <2>2, <2>5
    <2> QED
      BY <2>3, <2>4, <2>5
  <1>8. WellFormed'
    BY <1>1, <1>5 DEF Scan, IInv, WellFormed
  <1>9. Founded'
    BY <1>7 DEF Scan, IInv, Founded
  <1>10. Awaited'
    <2>1. ASSUME NEW t \in trash
          PROVE  /\ t.since <= today
                 /\ rows'[t.from].state = "done" =>
                      ~rows'[t.from].reclaimed /\ t.since <= trashedAt[t.from]
      <3>1. t.from \in Paths
        BY DEF IInv, WellFormed
      <3> QED
        BY <1>7, <3>1 DEF IInv, Awaited
    <2> QED
      BY <2>1 DEF Scan, Awaited
  <1> QED
    BY <1>8, <1>9, <1>10 DEF Scan, IInv, Replacing, Expiring, Emptied, RebuiltIsReplaced

(* What confirm accepts of a finished row is what was converted, or what a *)
(* scan found in its place since: the row's digest is of nothing else.     *)
LEMMA ConfirmedIsKnown ==
  ASSUME IInv, NEW p \in Paths, rows[p].state = "done", Confirmed(p)
  PROVE  /\ Rebuilt(p) \in Files
         /\ Rebuilt(p) \in {converted[p], listed[p]}
  <1> USE RecordsAssumption
  <1>1. rows[p].output = Out[p] /\ p \in Library /\ Out[p] \in Paths
    BY DEF IInv, Founded
  <1>2. Output(p) \in Files \cup {Nothing}
    BY <1>1 DEF Output, IInv, WellFormed
  <1>3. Rebuilt(p) \in Files
    BY <1>2, FormsAreFiles DEF Confirmed, Rebuilt
  <1> QED
    BY <1>3 DEF Confirmed, IInv, Founded

(* verify and restore change nothing but what they have found.             *)
LEMMA FindingKeeps ==
  ASSUME IInv, NEW p \in Paths, Verify(p) \/ Restore(p)
  PROVE  IInv'
  <1>1. rows[p].state = "done"
    BY DEF Verify, Restore, Completed
  <1>2. PICK what \in {"refuted", "present", "verified", "rebuilt"}, file \in Files \cup {Nothing} :
          /\ Finds(p, what, file)
          /\ what \in {"verified", "rebuilt"} =>
               file \in Files /\ file \in {converted[p], listed[p]}
    <2>1. CASE Confirmed(p)
      BY <1>1, <2>1, ConfirmedIsKnown DEF Verify, Restore
    <2>2. CASE ~Confirmed(p)
      BY <2>2 DEF Verify, Restore
    <2> QED
      BY <2>1, <2>2
  <1>3. cmd' = [at |-> what, path |-> p, file |-> file]
    BY <1>2 DEF Finds
  <1>4. UNCHANGED <<live, trash, rows, converted, trashedAt, listed, today>>
    BY <1>2 DEF Finds
  <1>5. WellFormed'
    BY <1>3, <1>4 DEF IInv, WellFormed, Stages
  <1>6. RebuiltIsReplaced'
    BY <1>2, <1>3, <1>4 DEF RebuiltIsReplaced
  <1> QED
    BY <1>2, <1>3, <1>4, <1>5, <1>6
    DEF IInv, Founded, Replacing, Awaited, Expiring, Emptied

(* restore puts back a file, beside its record.                            *)
LEMMA PutBackKeeps ==
  ASSUME IInv, PutBack
  PROVE  IInv'
  <1>1. cmd' = [at |-> "idle", path |-> NoPath, file |-> Nothing]
    BY DEF PutBack, Ends, Idle
  <1>2. live' \in [Paths -> Files \cup {Nothing}]
    BY DEF PutBack, IInv, WellFormed, RebuiltIsReplaced
  <1> QED
    BY <1>1, <1>2 DEF PutBack, IInv, WellFormed, Founded, Replacing, Awaited, Expiring, Emptied,
                      RebuiltIsReplaced, Stages

(* A command that ends, by itself or not, leaves everything as it is.      *)
LEMMA EndingKeeps ==
  ASSUME IInv, Said \/ Crash
  PROVE  IInv'
  <1>1. cmd' = [at |-> "idle", path |-> NoPath, file |-> Nothing]
    BY DEF Said, Crash, Ends, Idle
  <1> QED
    BY <1>1 DEF Said, Crash, IInv, WellFormed, Founded, Replacing, Awaited, Expiring, Emptied,
                RebuiltIsReplaced, Stages

(* A day passes; no purge by age is between its decision and its deed.     *)
LEMMA TickKeeps ==
  ASSUME IInv, Tick
  PROVE  IInv'
  <1> USE RecordsAssumption
  <1>1. today' \in 0..MaxDay /\ today <= today' /\ today \in Nat
    BY DEF Tick, IInv, WellFormed
  <1>2. \A t \in trash : t.since \in Nat
    BY DEF IInv, WellFormed
  <1>3. Awaited'
    BY <1>1, <1>2 DEF Tick, IInv, Awaited
  <1> QED
    BY <1>1, <1>3 DEF Tick, IInv, WellFormed, Founded, Replacing, Expiring, Emptied,
                      RebuiltIsReplaced

(* The owner changes what is on the drive and nothing that is recorded.    *)
LEMMA OwnerKeeps ==
  ASSUME IInv, Owner
  PROVE  IInv'
  <1> USE RecordsAssumption
  <1>1. live' \in [Paths -> Files \cup {Nothing}]
    <2>1. \A p \in Library, v \in Versions :
            Original(p, v) \in Files /\ ConvertedOf(Original(p, v)) \in Files
      BY FormsAreFiles
    <2> QED
      BY <2>1 DEF Owner, IInv, WellFormed
  <1> QED
    BY <1>1 DEF Owner, IInv, WellFormed, Founded, Replacing, Awaited, Expiring, Emptied,
                RebuiltIsReplaced, TooRecent

-----------------------------------------------------------------------------
(* Every state of every execution satisfies the invariant.                 *)
THEOREM Invariance == Spec => []IInv
  <1>1. IInv /\ [Next]_vars => IInv'
    <2> SUFFICES ASSUME IInv, [Next]_vars PROVE IInv'
      OBVIOUS
    <2>1. ASSUME NEW retry \in BOOLEAN, Run(retry) PROVE IInv'
      BY <2>1, RunKeeps
    <2>2. ASSUME NEW p \in Paths, Convert(p) PROVE IInv'
      BY <2>2, ConvertKeeps
    <2>3. ASSUME NEW p \in Paths, Decline(p) PROVE IInv'
      BY <2>3, DeclineKeeps
    <2>4. ASSUME NEW p \in Paths, Verify(p) \/ Restore(p) PROVE IInv'
      BY <2>4, FindingKeeps
    <2>5. CASE Record
      BY <2>5, RecordKeeps
    <2>6. CASE Return \/ Cleanup
      BY <2>6, DecidingKeeps
    <2>7. CASE Empty
      BY <2>7, EmptyKeeps
    <2>8. CASE RecordPurge
      BY <2>8, RecordPurgeKeeps
    <2>9. CASE Scan
      BY <2>9, ScanKeeps
    <2>10. CASE PutBack
      BY <2>10, PutBackKeeps
    <2>11. CASE Said \/ Crash
      BY <2>11, EndingKeeps
    <2>12. CASE Tick
      BY <2>12, TickKeeps
    <2>13. CASE Owner
      BY <2>13, OwnerKeeps
    <2>14. CASE UNCHANGED vars
      BY <2>14 DEF vars, IInv, WellFormed, Founded, Replacing, Awaited, Expiring, Emptied,
                   RebuiltIsReplaced, TooRecent
    <2> QED
      BY <2>1, <2>2, <2>3, <2>4, <2>5, <2>6, <2>7, <2>8, <2>9, <2>10, <2>11, <2>12, <2>13, <2>14
      DEF Next
  <1> QED
    BY <1>1, InitHolds, PTL DEF Spec

(* The records and the drive are always well formed (ledger.rs, main.rs).  *)
THEOREM TypeCorrect == Spec => []TypeOK
  <1>1. IInv => TypeOK
    BY RecordsAssumption DEF IInv, WellFormed, Founded, TypeOK, InState, Table
  <1> QED
    BY <1>1, Invariance, PTL

(* What verify confirms and restore puts back is the original of the       *)
(* conversion, or what a scan has since found in its place (verify_one,    *)
(* run_restore).                                                           *)
THEOREM RebuiltIsKnown == Spec => []RebuiltIsReplaced
  BY Invariance, PTL DEF IInv

(* No purge by age destroys an original on record before its time          *)
(* (do_pending_reclaim_aged, Aged::ready, run_convert).                    *)
THEOREM RetentionHolds == Spec => RetentionKept
  <1> DEFINE Kept == cmd.at = "expiring" /\ trash' # trash =>
                       \A t \in trash : OnRecord(t) => t.since + Retention <= today
  <1>1. IInv /\ [Next]_vars => [Kept]_vars
    <2> SUFFICES ASSUME IInv, cmd.at = "expiring",
                        NEW t \in trash, OnRecord(t)
                 PROVE  t.since + Retention <= today
      OBVIOUS
    <2> USE RecordsAssumption
    <2>1. t.from \in Paths /\ t.since \in Nat /\ today \in Nat /\ trashedAt[t.from] \in Nat
      BY DEF IInv, WellFormed
    <2>2. t.from \in PendingReclaim(rows)
      BY <2>1 DEF OnRecord, PendingReclaim, IInv, Founded, Awaited, WellFormed, Table
    <2>3. ~(trashedAt[t.from] + Retention > today)
      BY <2>2 DEF IInv, Expiring, TooRecent
    <2>4. t.since <= trashedAt[t.from]
      BY DEF OnRecord, IInv, Awaited
    <2> QED
      BY <2>1, <2>3, <2>4
  <1> QED
    BY <1>1, Invariance, PTL DEF Spec, RetentionKept

(* No command but a scan takes up a finished row again.                    *)
LEMMA OnlyScanReopens ==
  ASSUME IInv, Next, NEW p \in Paths, rows[p].state = "done", rows'[p].state # "done"
  PROVE  Scan
  <1>1. rows \in Table(Paths, Sizes, Files) /\ DOMAIN rows = Paths
    BY DEF IInv, WellFormed, Table
  <1>2. ~SameDone(rows, rows')
    BY <1>1 DEF SameDone
  <1>3. ASSUME NEW retry \in BOOLEAN, Run(retry) PROVE FALSE
    BY <1>2, <1>3, RunTakesUp
  <1>4. ASSUME NEW q \in Paths, Convert(q) PROVE FALSE
    BY <1>1, <1>2, <1>4, DoneIsLeftAlone DEF Convert, Claimable
  <1>5. ASSUME NEW q \in Paths, Decline(q) PROVE FALSE
    <2>1. PICK s \in {"skipped", "failed"}, why \in {"nature", "none"} :
            rows' = SetState(rows, q, s, why)
      BY <1>5 DEF Decline
    <2>2. s \in States /\ why \in Reasons /\ s # "done" /\ rows[q].state # "done"
      BY <1>5 DEF Decline, Claimable, States, Reasons
    <2> QED
      BY <1>1, <1>2, <2>1, <2>2, DoneIsLeftAlone
  <1>6. ~Record
    <2> SUFFICES ASSUME Record PROVE FALSE
      OBVIOUS
    <2>1. cmd.path # p /\ cmd.path \in Paths
      BY RecordsAssumption DEF Record, IInv, Replacing
    <2> QED
      BY <1>1, <2>1 DEF Record, RecordConversion
  <1>7. ~RecordPurge
    <2> SUFFICES ASSUME RecordPurge PROVE FALSE
      OBVIOUS
    <2>1. rows[p] \in Row(Paths, Sizes, Files)
      BY <1>1, HasRowIsRow DEF States
    <2>2. [rows[p] EXCEPT !.reclaimed = TRUE].state = "done"
      BY <2>1 DEF Row
    <2> QED
      BY <1>1, <2>2 DEF RecordPurge, MarkReclaimed
  <1>8. rows' # rows
    OBVIOUS
  <1> QED
    BY <1>3, <1>4, <1>5, <1>6, <1>7, <1>8
    DEF Next, Verify, Restore, Finds, Return, Cleanup, Empty, PutBack, Said, Crash, Tick, Owner

(* A record stands until its path is scanned with another size, whatever   *)
(* commands run and wherever they are killed (ledger.rs).                  *)
THEOREM RecordsHold == Spec => RecordsStand
  <1> DEFINE Stand == \A p \in Paths : rows[p].state = "done" /\ rows'[p].state # "done" =>
                        live[p] # Nothing /\ Size(live[p]) # rows[p].size
  <1>1. IInv /\ [Next]_vars => [Stand]_vars
    <2> SUFFICES ASSUME IInv, Next,
                        NEW p \in Paths, rows[p].state = "done", rows'[p].state # "done"
                 PROVE  live[p] # Nothing /\ Size(live[p]) # rows[p].size
      OBVIOUS
    <2>1. rows \in Table(Paths, Sizes, Files) /\ DOMAIN rows = Paths
      BY DEF IInv, WellFormed, Table
    <2> DEFINE recovered == RecoverClaimed(rows)
    <2>2. PICK hashed \in BOOLEAN : rows' = Sync(recovered, Paths, Listing(hashed))
      BY OnlyScanReopens DEF Scan
    <2> DEFINE listing == Listing(hashed)
    <2>3. recovered \in Table(Paths, Sizes, Files) /\ recovered[p] = rows[p]
      BY <2>1, RecoverIsTable, DoneIsLeftAlone DEF SameDone
    <2>4. /\ DOMAIN listing = {q \in Paths : live[q] # Nothing}
          /\ \A q \in DOMAIN listing : listing[q].size = Size(live[q])
      BY ListingIsTyped DEF IInv
    <2>5. rows' = Sync(recovered, Paths, listing)
      BY <2>2
    <2> HIDE DEF recovered, listing
    <2>6. p \in DOMAIN listing /\ listing[p].size # recovered[p].size
      BY <2>3, <2>5, ScanOfDone
    <2> QED
      BY <2>3, <2>4, <2>6
  <1> QED
    BY <1>1, Invariance, PTL DEF Spec, RecordsStand
=============================================================================
