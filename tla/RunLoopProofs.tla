--------------------------- MODULE RunLoopProofs ---------------------------
(***************************************************************************)
(* The claim loop, for any files in any order, any limits and any number   *)
(* of tasks at a time: it stays within its bound, overlooks nothing, takes *)
(* at most one file after Ctrl-C, and every claimed row has one owner.     *)
(***************************************************************************)
EXTENDS RunLoop, LedgerTableProofs, FiniteSetTheorems, WellFoundedInduction

Ledger == Table(Files, {"listed"}, {NoHash})

Places == {"idle", "top", "claiming", "placing", "collecting", "draining", "returned"}

WellFormed ==
  /\ rows \in Ledger
  /\ at \in Places
  /\ taken \in Files \cup {Nobody}
  /\ at = "placing" => taken \in Files
  /\ phase \in [Files -> Phases]
  /\ stranded \subseteq Files
  /\ unjoined \in [Outcomes -> Nat]
  /\ started \in Nat
  /\ execute \in BOOLEAN
  /\ limit \in Limits \cup DryLimits \cup {NoLimit}
  /\ excluded \subseteq Files
  /\ cancelled \in BOOLEAN
  /\ late \in Nat

(* A row is claimed only while there is room for its task, and nothing     *)
(* takes the room before the task has it.                                  *)
Bounded == TasksLen <= MaxInFlight /\ (at = "placing" => TasksLen < MaxInFlight)

(* The loop claims after Ctrl-C only what it set out to claim before.      *)
Late ==
  /\ late <= 1
  /\ ~cancelled => late = 0
  /\ at = "claiming" => late = 0

(* The loop drains because nothing is pending, unless it was stopped.      *)
Through ==
  at \in {"draining", "returned"} /\ execute /\ ~cancelled /\ ~LimitReached =>
    InState(rows, "pending") = {}

(* During a run only what its scope excludes is set aside for a scope.     *)
InScope ==
  at # "idle" =>
    \A f \in Files : rows[f].state = "skipped" /\ rows[f].reason = "out_of_scope"
                       => f \in excluded

(* Who has which row; an interruption is one by Ctrl-C.                    *)
Owned ==
  /\ at # "placing" => taken = Nobody
  /\ at \in {"returned", "idle"} => Running = {}
  /\ ClaimedHasOwner
  /\ \A f \in Files : phase[f] = "interrupted" => cancelled

IInv == WellFormed /\ Bounded /\ Late /\ Through /\ InScope /\ Owned

-----------------------------------------------------------------------------
(* The run's order has a first row in every set of rows (order_clause).    *)
LEMMA FirstIsOneOfThem ==
  ASSUME NEW S \in SUBSET Files, S # {}
  PROVE  FirstOf(S) \in S /\ \A g \in S : Rank[FirstOf(S)] <= Rank[g]
  <1> DEFINE Ranks == {Rank[f] : f \in S}
  <1>1. Ranks \subseteq Nat /\ Ranks # {}
    BY RunLoopAssumption
  <1>2. \E x \in Ranks : \A y \in Ranks : ~ (<<y, x>> \in OpToRel(<, Nat))
    BY <1>1, WFMin, NatLessThanWellFounded, Zenon
  <1>3. \E x \in Ranks : \A y \in Ranks : ~ (y < x)
    BY <1>1, <1>2, Zenon DEF OpToRel
  <1>4. \A f \in S : Rank[f] \in Nat
    BY RunLoopAssumption
  <1>5. \E f \in S : \A g \in S : Rank[f] <= Rank[g]
    BY <1>3, <1>4
  <1> QED
    BY <1>5 DEF FirstOf

(* How many tasks there are, when one is placed, ends or is joined.        *)
LEMMA Counting ==
  ASSUME WellFormed
  PROVE  /\ IsFiniteSet(Running) /\ Cardinality(Running) \in Nat /\ TasksLen \in Nat
         /\ \A f : /\ Cardinality(Running \cup {f}) \in Nat
                   /\ Cardinality(Running \cup {f}) <= Cardinality(Running) + 1
         /\ \A f \in Running : Cardinality(Running \ {f}) = Cardinality(Running) - 1
         /\ \A o \in Outcomes : unjoined[o] <= TasksLen
  <1>1. IsFiniteSet(Running)
    BY FS_Subset, RunLoopAssumption DEF Running
  <1>2. Cardinality(Running) \in Nat
    BY <1>1, FS_CardinalityType
  <1>3. \A o \in Outcomes : unjoined[o] \in Nat
    BY DEF WellFormed
  <1>4. TasksLen \in Nat /\ \A o \in Outcomes : unjoined[o] <= TasksLen
    BY <1>2, <1>3 DEF TasksLen, Outcomes
  <1>5. ASSUME NEW f
        PROVE  /\ Cardinality(Running \cup {f}) \in Nat
               /\ Cardinality(Running \cup {f}) <= Cardinality(Running) + 1
    BY <1>1, <1>2, FS_AddElement, FS_CardinalityType
  <1>6. ASSUME NEW f \in Running
        PROVE  Cardinality(Running \ {f}) = Cardinality(Running) - 1
    BY <1>1, <1>6, FS_RemoveElement
  <1> QED
    BY <1>1, <1>2, <1>4, <1>5, <1>6

(* Which tasks there are, when one of them moves.                          *)
LEMMA RunningIs ==
  ASSUME WellFormed, NEW f \in Files, NEW p \in Phases, phase' = [phase EXCEPT ![f] = p]
  PROVE  /\ phase' \in [Files -> Phases]
         /\ p = "none" => Running' = Running \ {f}
         /\ p # "none" => Running' = Running \cup {f}
         /\ \A g \in Files : phase'[g] = IF g = f THEN p ELSE phase[g]
  BY DEF WellFormed, Running

(* What set_state makes of a table.                                        *)
LEMMA SetStateAt ==
  ASSUME NEW table \in Ledger, NEW f \in Files, NEW s \in States, NEW why \in Reasons,
         NEW g \in Files
  PROVE  /\ SetState(table, f, s, why) \in Ledger
         /\ SetState(table, f, s, why)[g] = table[g]
              \/ (g = f /\ SetState(table, f, s, why)[g].state = s
                        /\ SetState(table, f, s, why)[g].reason = why)
         /\ HasRow(table, f) => /\ SetState(table, f, s, why)[f].state = s
                               /\ SetState(table, f, s, why)[f].reason = why
  <1>1. SetState(table, f, s, why) \in Ledger
    BY SetStateIsTable DEF Ledger
  <1>2. CASE HasRow(table, f) /\ g = f
    <2>1. table[f] \in Row(Files, {"listed"}, {NoHash})
      BY <1>2, HasRowIsRow DEF Ledger
    <2>2. /\ [table EXCEPT ![f].state = s, ![f].reason = why][f].state = s
          /\ [table EXCEPT ![f].state = s, ![f].reason = why][f].reason = why
      BY <2>1 DEF Row, Ledger, Table
    <2> QED
      BY <1>1, <1>2, <2>2 DEF SetState
  <1>3. CASE HasRow(table, f) /\ g # f
    <2>1. table[f] \in Row(Files, {"listed"}, {NoHash})
      BY <1>3, HasRowIsRow DEF Ledger
    <2>2. /\ [table EXCEPT ![f].state = s, ![f].reason = why][f].state = s
          /\ [table EXCEPT ![f].state = s, ![f].reason = why][f].reason = why
      BY <2>1 DEF Row, Ledger, Table
    <2> QED
      BY <1>1, <1>3, <2>2 DEF SetState, Ledger, Table
  <1>4. CASE ~HasRow(table, f)
    BY <1>1, <1>4 DEF SetState
  <1> QED
    BY <1>2, <1>3, <1>4

(* What record_conversion makes of a table.                                *)
LEMMA RecordAt ==
  ASSUME NEW table \in Ledger, NEW f \in Files, NEW g \in Files
  PROVE  /\ RecordConversion(table, f, f, NoHash) \in Ledger
         /\ RecordConversion(table, f, f, NoHash)[g] = table[g]
              \/ (g = f /\ RecordConversion(table, f, f, NoHash)[g].state = "done")
         /\ HasRow(table, f) => RecordConversion(table, f, f, NoHash)[f].state = "done"
  <1>1. RecordConversion(table, f, f, NoHash) \in Ledger
    BY RecordIsTable DEF Ledger
  <1>2. CASE HasRow(table, f)
    <2> DEFINE done == [table[f] EXCEPT !.state = "done", !.reason = "none", !.output = f,
                                        !.hash = NoHash, !.trashed = TRUE, !.reclaimed = FALSE]
    <2>1. table[f] \in Row(Files, {"listed"}, {NoHash})
      BY <1>2, HasRowIsRow DEF Ledger
    <2>2. done.state = "done"
      BY <2>1 DEF Row
    <2>3. RecordConversion(table, f, f, NoHash) = [table EXCEPT ![f] = done]
      BY <1>2 DEF RecordConversion, Ledger, Table
    <2> QED
      BY <1>1, <1>2, <2>2, <2>3 DEF Ledger, Table
  <1>3. CASE ~HasRow(table, f)
    BY <1>1, <1>3 DEF RecordConversion
  <1> QED
    BY <1>2, <1>3

(* What reopening leaves skipped is skipped for another reason.            *)
LEMMA ReopenAt ==
  ASSUME NEW table \in Ledger, NEW reasons, NEW f \in Files,
         ReopenSkipped(table, reasons)[f].state = "skipped"
  PROVE  ReopenSkipped(table, reasons)[f].reason \notin reasons
  <1>1. CASE table[f].state = "skipped" /\ table[f].reason \in reasons
    <2>1. table[f] \in Row(Files, {"listed"}, {NoHash})
      BY <1>1, HasRowIsRow DEF Ledger, States
    <2>2. [table[f] EXCEPT !.state = "pending", !.reason = "none"].state = "pending"
      BY <2>1 DEF Row
    <2>3. ReopenSkipped(table, reasons)[f].state = "pending"
      BY <1>1, <2>2 DEF ReopenSkipped, Ledger, Table
    <2> QED
      BY <2>3
  <1>2. CASE ~(table[f].state = "skipped" /\ table[f].reason \in reasons)
    <2>1. ReopenSkipped(table, reasons)[f] = table[f]
      BY <1>2 DEF ReopenSkipped, Ledger, Table
    <2> QED
      BY <1>2, <2>1
  <1> QED
    BY <1>1, <1>2

(* Recovering leaves no row claimed, retrying and reopening claim none.    *)
LEMMA OpeningClaimsNothing ==
  ASSUME NEW table \in Ledger
  PROVE  /\ InState(RecoverClaimed(table), "claimed") = {}
         /\ InState(RetryFailed(table), "claimed") \subseteq InState(table, "claimed")
         /\ \A reasons : InState(ReopenSkipped(table, reasons), "claimed")
                          \subseteq InState(table, "claimed")
  <1>1. DOMAIN table = Files
    BY DEF Ledger, Table
  <1>2. ASSUME NEW f \in Files, table[f].state \in States
        PROVE  /\ [table[f] EXCEPT !.state = "pending"].state = "pending"
               /\ [table[f] EXCEPT !.state = "pending", !.reason = "none"].state = "pending"
    <2>1. table[f] \in Row(Files, {"listed"}, {NoHash})
      BY <1>2, HasRowIsRow DEF Ledger
    <2> QED
      BY <2>1 DEF Row
  <1> QED
    BY <1>1, <1>2 DEF RecoverClaimed, RetryFailed, ReopenSkipped, InState, States

-----------------------------------------------------------------------------
(* The first scan, before any run.                                         *)
LEMMA InitHolds == Init => IInv
  <1> SUFFICES ASSUME Init PROVE IInv
    OBVIOUS
  <1> USE RunLoopAssumption
  <1>1. rows \in Ledger
    <2> DEFINE entry == [size |-> "listed", hash |-> NoHash]
    <2>1. Fresh(entry) \in Row(Files, {"listed"}, {NoHash})
      BY DEF Fresh, Row, States, Reasons
    <2> QED
      BY <2>1 DEF Init, Ledger, Table
  <1>2. TasksLen = 0
    <2>1. Running = {}
      BY DEF Init, NoTask, Running
    <2> QED
      BY <2>1, FS_EmptySet DEF Init, TasksLen, None, Outcomes
  <1>3. None \in [Outcomes -> Nat]
    BY DEF None
  <1>4. WellFormed
    BY <1>1, <1>3 DEF Init, WellFormed, Places, NoTask, Phases
  <1>5. Bounded
    BY <1>2 DEF Init, Bounded
  <1>6. InScope /\ Through /\ Late /\ Owned
    BY DEF Init, Late, Through, InScope, Owned, ClaimedHasOwner, Running, NoTask
  <1> QED
    BY <1>4, <1>5, <1>6 DEF IInv

(* A run starts: what an earlier one set aside for its scope is reopened.  *)
LEMMA StartKeeps ==
  ASSUME IInv, NEW retry \in BOOLEAN, NEW out \in SUBSET Files, Start(retry, out)
  PROVE  IInv'
  <1> USE RunLoopAssumption
  <1> DEFINE recovered == RecoverClaimed(rows)
             retried == IF retry THEN RetryFailed(recovered) ELSE recovered
  <1>1. recovered \in Ledger
    BY RecoverIsTable DEF Ledger, IInv, WellFormed
  <1>2. retried \in Ledger
    BY <1>1, RetryIsTable DEF Ledger
  <1>3. rows' = ReopenSkipped(retried, {"settings", "out_of_scope"})
    BY DEF Start
  <1> HIDE DEF recovered, retried
  <1>4. rows' \in Ledger
    BY <1>2, <1>3, ReopenIsTable DEF Ledger
  <1>5. ASSUME NEW f \in Files, rows'[f].state = "skipped"
        PROVE  rows'[f].reason # "out_of_scope"
    <2>1. rows'[f].reason \notin {"settings", "out_of_scope"}
      BY <1>2, <1>3, <1>5, ReopenAt
    <2> QED
      BY <2>1
  <1>6. WellFormed'
    <2>1. execute' \in BOOLEAN /\ limit' \in Limits \cup DryLimits \cup {NoLimit}
      BY DEF Start, Options
    <2> QED
      BY <1>4, <2>1 DEF Start, IInv, WellFormed, Places
  <1>7. Bounded'
    BY DEF Start, IInv, Bounded, TasksLen, Running
  <1>8. Late' /\ Through' /\ InScope'
    BY <1>5 DEF Start, Late, Through, InScope
  <1>9. Owned'
    <2>1. InState(recovered, "claimed") = {} /\ InState(retried, "claimed") = {}
      BY <1>1, OpeningClaimsNothing DEF recovered, retried, IInv, WellFormed
    <2>2. InState(rows', "claimed") = {}
      BY <1>2, <1>3, <2>1, OpeningClaimsNothing
    <2>3. /\ Running = {} /\ taken = Nobody /\ taken' = taken /\ phase' = phase
          /\ stranded' = {} /\ at' = "top"
      BY DEF Start, IInv, Owned
    <2>4. Running' = {} /\ \A f \in Files : phase'[f] = "none"
      BY <2>3 DEF Running
    <2> QED
      BY <2>2, <2>3, <2>4 DEF Owned, ClaimedHasOwner
  <1> QED
    BY <1>6, <1>7, <1>8, <1>9 DEF IInv

(* Ctrl-C is only noted.                                                   *)
LEMMA CancelKeeps ==
  ASSUME IInv, Cancel
  PROVE  IInv'
  BY DEF Cancel, IInv, WellFormed, Bounded, TasksLen, Late, Through, InScope, Owned,
         ClaimedHasOwner, Running

(* The head of the loop lets a row be claimed only before Ctrl-C.          *)
LEMMA TopKeeps ==
  ASSUME IInv, Top
  PROVE  IInv'
  <1>1. /\ UNCHANGED <<rows, taken, phase, unjoined, started, execute, limit, excluded,
                       cancelled, late, stranded>>
        /\ \/ at' = "draining" /\ (cancelled \/ LimitReached)
           \/ at' = "claiming" /\ ~cancelled
        /\ at = "top"
    BY DEF Top, thisRun
  <1>2. LimitReached' = LimitReached
    BY <1>1 DEF LimitReached
  <1> QED
    BY <1>1, <1>2
    DEF IInv, WellFormed, Places, Bounded, TasksLen, Late, Through, InScope, Owned, ClaimedHasOwner,
        Running

(* Joining a task makes room; the loop stays where it is.                  *)
LEMMA JoinKeeps ==
  ASSUME IInv, NEW o \in Outcomes, WaitForRoom(o) \/ Collect(o) \/ Drain(o)
  PROVE  IInv'
  <1> USE RunLoopAssumption
  <1>1. Join(o) /\ UNCHANGED at /\ at # "placing"
    BY DEF WaitForRoom, Collect, Drain
  <1>2. /\ unjoined[o] > 0
        /\ unjoined' = [unjoined EXCEPT ![o] = @ - 1]
        /\ UNCHANGED <<rows, taken, phase, started, execute, limit, excluded, cancelled, late,
                       stranded>>
    BY <1>1 DEF Join
  <1>3. unjoined' \in [Outcomes -> Nat]
    BY <1>2 DEF IInv, WellFormed
  <1>4. TasksLen' <= TasksLen
    <2>1. Cardinality(Running) \in Nat /\ Cardinality(Running') = Cardinality(Running)
      BY <1>2, Counting DEF IInv, Running
    <2>2. \A q \in Outcomes : unjoined[q] \in Nat /\ unjoined'[q] \in Nat /\ unjoined'[q] <= unjoined[q]
      BY <1>2, <1>3 DEF IInv, WellFormed
    <2> QED
      BY <2>1, <2>2 DEF TasksLen, Outcomes
  <1>5. TasksLen \in Nat /\ TasksLen' \in Nat
    <2>1. WellFormed'
      BY <1>1, <1>2, <1>3 DEF IInv, WellFormed
    <2>2. Cardinality(Running) \in Nat /\ Cardinality(Running') = Cardinality(Running)
      BY <1>2, Counting DEF IInv, Running
    <2>3. \A q \in Outcomes : unjoined[q] \in Nat /\ unjoined'[q] \in Nat
      BY <1>3 DEF IInv, WellFormed
    <2> QED
      BY <2>2, <2>3 DEF TasksLen, Outcomes
  <1> QED
    BY <1>1, <1>2, <1>3, <1>4, <1>5
    DEF IInv, WellFormed, Bounded, Late, Through, InScope, LimitReached, Owned, ClaimedHasOwner,
        Running

(* claim_next takes a row while there is room for its task, or finds that  *)
(* nothing is pending.                                                     *)
LEMMA ClaimNextKeeps ==
  ASSUME IInv, ClaimNext
  PROVE  IInv'
  <1> DEFINE pending == Claimable(rows, Files)
             f == FirstOf(pending)
  <1>1. /\ at = "claiming" /\ ~NoRoom
        /\ UNCHANGED <<phase, unjoined, started, execute, limit, excluded, cancelled, stranded>>
    BY DEF ClaimNext
  <1>2. TasksLen < MaxInFlight /\ TasksLen' = TasksLen
    BY <1>1, Counting, RunLoopAssumption DEF NoRoom, TasksLen, IInv, Running
  <1>3. CASE pending = {}
    <2>1. at' = "draining" /\ UNCHANGED <<rows, taken, late>>
      BY <1>3 DEF ClaimNext
    <2>2. InState(rows, "pending") = {}
      BY <1>3 DEF InState, Claimable, IInv, WellFormed, Ledger, Table
    <2> QED
      BY <1>1, <1>2, <2>1, <2>2
      DEF IInv, WellFormed, Places, Bounded, Late, Through, InScope, InState, Owned,
          ClaimedHasOwner, Running
  <1>4. CASE pending # {}
    <2>1. f \in Files /\ rows[f].state = "pending"
      BY <1>4, FirstIsOneOfThem DEF Claimable
    <2>2. /\ taken' = f /\ rows' = Claim(rows, f) /\ at' = "placing"
          /\ late' = IF cancelled THEN late + 1 ELSE late
      BY <1>4 DEF ClaimNext
    <2> HIDE DEF f, pending
    <2>3. rows \in Ledger
      BY DEF IInv, WellFormed
    <2>4. rows' \in Ledger
      BY <2>1, <2>2, <2>3, ClaimIsTable DEF Ledger
    <2>5. ASSUME NEW g \in Files
          PROVE  IF g = f THEN rows'[g].state = "claimed" ELSE rows'[g] = rows[g]
      <3>1. rows[f] \in Row(Files, {"listed"}, {NoHash})
        BY <2>1, <2>3, HasRowIsRow DEF Ledger, States
      <3>2. [rows[f] EXCEPT !.state = "claimed"].state = "claimed"
        BY <3>1 DEF Row
      <3> QED
        BY <2>1, <2>2, <2>3, <3>2 DEF Claim, Ledger, Table
    <2>6. WellFormed'
      BY <1>1, <2>1, <2>2, <2>4 DEF IInv, WellFormed, Places
    <2>7. Late'
      BY <1>1, <2>2 DEF IInv, WellFormed, Late
    <2>8. InScope'
      BY <1>1, <2>5 DEF IInv, InScope
    <2>9. Owned'
      <3>1. /\ InState(rows', "claimed") = InState(rows, "claimed") \cup {f}
            /\ f \notin InState(rows, "claimed")
        BY <2>1, <2>3, <2>4, <2>5 DEF InState, Ledger, Table
      <3>2. InState(rows, "claimed") = Running \cup stranded /\ Running \cap stranded = {}
        BY <1>1 DEF IInv, Owned, ClaimedHasOwner
      <3>3. Running' = Running /\ stranded' = stranded /\ f # Nobody
        BY <1>1, <2>1, RunLoopAssumption DEF Running, Nobody
      <3>4. ClaimedHasOwner'
        BY <2>2, <3>1, <3>2, <3>3 DEF ClaimedHasOwner
      <3> QED
        BY <1>1, <2>2, <3>4 DEF IInv, Owned
    <2> QED
      BY <1>1, <1>2, <2>2, <2>6, <2>7, <2>8, <2>9, RunLoopAssumption, Counting
      DEF IInv, Bounded, Through
  <1> QED
    BY <1>3, <1>4

(* The claimed row gets a task, for which there is room, or is set aside.  *)
LEMMA PlaceKeeps ==
  ASSUME IInv, Place
  PROVE  IInv'
  <1> USE RunLoopAssumption
  <1>1. /\ at = "placing" /\ taken \in Files /\ taken' = Nobody
        /\ UNCHANGED <<unjoined, execute, limit, excluded, cancelled, late, stranded>>
    BY DEF Place, IInv, WellFormed
  <1>2. CASE taken \in excluded
    <2>1. /\ rows' = SetState(rows, taken, "skipped", "out_of_scope")
          /\ at' = "top" /\ UNCHANGED <<phase, started>>
      BY <1>2 DEF Place
    <2>2. /\ rows' \in Ledger
          /\ \A g \in Files : rows'[g] = rows[g] \/ g = taken
          /\ rows[taken].state = "claimed" => rows'[taken].state = "skipped"
      <3>1. "skipped" \in States /\ "out_of_scope" \in Reasons /\ rows \in Ledger
        BY DEF States, Reasons, IInv, WellFormed
      <3> QED
        BY <1>1, <2>1, <3>1, SetStateAt DEF HasRow
    <2>3. Owned'
      <3>1. /\ InState(rows, "claimed") = Running \cup {taken} \cup stranded
            /\ taken \notin Running \cup stranded /\ Running \cap stranded = {}
        BY <1>1, RunLoopAssumption DEF IInv, Owned, ClaimedHasOwner, Nobody
      <3>2. rows[taken].state = "claimed" /\ DOMAIN rows = Files /\ DOMAIN rows' = Files
        BY <1>1, <2>2, <3>1 DEF InState, IInv, WellFormed, Ledger, Table
      <3>3. InState(rows', "claimed") = InState(rows, "claimed") \ {taken}
        BY <1>1, <2>2, <3>2 DEF InState
      <3>4. Running' = Running /\ Nobody \notin Files /\ stranded \subseteq Files
        BY <2>1, RunLoopAssumption DEF Running, Nobody, IInv, WellFormed
      <3>5. ClaimedHasOwner'
        BY <1>1, <3>1, <3>3, <3>4 DEF ClaimedHasOwner, Running
      <3> QED
        BY <1>1, <2>1, <3>5 DEF IInv, Owned
    <2>4. TasksLen' = TasksLen
      BY <1>1, <2>1 DEF TasksLen, Running
    <2>5. WellFormed'
      BY <1>1, <2>1, <2>2 DEF IInv, WellFormed, Places
    <2>6. InScope'
      BY <1>1, <1>2, <2>2 DEF IInv, InScope
    <2> QED
      BY <1>1, <2>1, <2>3, <2>4, <2>5, <2>6 DEF IInv, Bounded, Late, Through
  <1>3. CASE taken \notin excluded
    <2>1. /\ phase' = [phase EXCEPT ![taken] = "working"]
          /\ started' = IF limit = NoLimit THEN started ELSE started + 1
          /\ at' = "collecting" /\ UNCHANGED rows
      BY <1>3 DEF Place
    <2>2. /\ Running' = Running \cup {taken} /\ phase' \in [Files -> Phases]
          /\ \A g \in Files : phase'[g] = IF g = taken THEN "working" ELSE phase[g]
      BY <1>1, <2>1, RunningIs DEF Phases, IInv
    <2>3. started' \in Nat
      BY <2>1 DEF IInv, WellFormed
    <2>4. WellFormed'
      BY <1>1, <2>1, <2>2, <2>3 DEF IInv, WellFormed, Places
    <2>5. /\ Cardinality(Running') \in Nat /\ Cardinality(Running) \in Nat
          /\ Cardinality(Running') <= Cardinality(Running) + 1
      BY <2>2, Counting DEF IInv
    <2>6. \A o \in Outcomes : unjoined[o] \in Nat
      BY DEF IInv, WellFormed
    <2>7. TasksLen' <= MaxInFlight
      BY <1>1, <2>5, <2>6 DEF IInv, Bounded, TasksLen, Outcomes
    <2>8. Owned'
      <3>1. /\ InState(rows, "claimed") = Running \cup {taken} \cup stranded
            /\ taken \notin Running \cup stranded /\ Running \cap stranded = {}
        BY <1>1, RunLoopAssumption DEF IInv, Owned, ClaimedHasOwner, Nobody
      <3>2. Nobody \notin Files /\ stranded \subseteq Files /\ Running' \subseteq Files
        BY RunLoopAssumption DEF Nobody, IInv, WellFormed, Running
      <3>3. ClaimedHasOwner'
        BY <1>1, <2>1, <2>2, <3>1, <3>2 DEF ClaimedHasOwner
      <3> QED
        BY <1>1, <2>1, <2>2, <3>3 DEF IInv, Owned
    <2> QED
      BY <1>1, <2>1, <2>4, <2>7, <2>8 DEF IInv, Bounded, Late, Through, InScope
  <1> QED
    BY <1>2, <1>3

(* The loop goes on, returns, exits, or gives its tasks up.                *)
LEMMA MovingKeeps ==
  ASSUME IInv, CollectedAll \/ Drained \/ Exit
  PROVE  IInv'
  <1>1. /\ UNCHANGED <<rows, taken, phase, unjoined, started, execute, limit, excluded,
                       cancelled, late, stranded>>
        /\ at' \in {"top", "returned", "idle"}
        /\ at' = "returned" => at = "draining"
        /\ at # "idle"
    BY DEF CollectedAll, Drained, Exit, thisRun
  <1>2. (at' = "idle" => at = "returned") /\ at # "placing"
    BY DEF CollectedAll, Drained, Exit
  <1>3. at' \in {"returned", "idle"} => Running = {}
    <2>1. CASE Drained
      <3>1. Cardinality(Running) = 0
        BY <2>1, Counting DEF Drained, TasksLen, IInv, WellFormed, Outcomes
      <3> QED
        BY <3>1, Counting, FS_EmptySet DEF IInv
    <2> QED
      BY <1>1, <1>2, <2>1 DEF IInv, Owned, CollectedAll, Exit
  <1>4. Bounded' /\ Late' /\ Through' /\ InScope'
    BY <1>1 DEF IInv, Bounded, TasksLen, Late, Through, InScope, LimitReached, Running
  <1>5. Owned'
    BY <1>1, <1>2, <1>3 DEF IInv, Owned, ClaimedHasOwner, Running
  <1> QED
    BY <1>1, <1>4, <1>5 DEF IInv, WellFormed, Places

(* The loop gives its tasks up, or dies with them.                         *)
LEMMA AbandonKeeps ==
  ASSUME IInv, GiveUp \/ Kill
  PROVE  IInv'
  <1> USE RunLoopAssumption
  <1>1. /\ at' = "idle" /\ taken' = Nobody /\ phase' = NoTask /\ unjoined' = None
        /\ UNCHANGED <<rows, started, execute, limit, excluded, cancelled, late, stranded>>
    BY DEF GiveUp, Kill, Abandon, thisRun
  <1>2. Running' = {} /\ phase' \in [Files -> Phases] /\ \A f \in Files : phase'[f] = "none"
    BY <1>1 DEF NoTask, Running, Phases
  <1>3. TasksLen' = 0
    BY <1>1, <1>2, FS_EmptySet DEF TasksLen, None, Outcomes
  <1>4. None \in [Outcomes -> Nat]
    BY DEF None
  <1>5. WellFormed'
    BY <1>1, <1>2, <1>4 DEF IInv, WellFormed, Places
  <1>6. Owned'
    BY <1>1, <1>2 DEF Owned, ClaimedHasOwner
  <1> QED
    BY <1>1, <1>3, <1>5, <1>6 DEF IInv, Bounded, Late, Through, InScope

-----------------------------------------------------------------------------
(* What a task that ends may write: only its own row, which is claimed no  *)
(* more; nothing is set aside for the scope, and a file is put back only   *)
(* in a dry run or after Ctrl-C.                                           *)
LEMMA TaskWrites ==
  ASSUME IInv, NEW f \in Files, f \in Running,
         Converts(f) \/ (\E why \in {"nature", "settings"} : Skips(f, why)) \/ Settles(f)
  PROVE  /\ rows' \in Ledger
         /\ \A g \in Files \ {f} : rows'[g] = rows[g]
         /\ rows'[f].state # "claimed"
         /\ ~(rows'[f].state = "skipped" /\ rows'[f].reason = "out_of_scope")
         /\ execute /\ ~cancelled => rows'[f].state # "pending"
  <1>1. rows \in Ledger /\ cancelled \in BOOLEAN /\ execute \in BOOLEAN
    BY DEF IInv, WellFormed
  <1>2. rows[f].state = "claimed" /\ HasRow(rows, f)
    <2>1. at # "idle"
      BY DEF IInv, Owned
    <2> QED
      BY <2>1 DEF IInv, Owned, ClaimedHasOwner, InState, HasRow
  <1>3. CASE Converts(f) /\ execute
    BY <1>1, <1>2, <1>3, RecordAt DEF Converts
  <1>4. CASE Converts(f) /\ ~execute
    <2>1. rows' = SetState(rows, f, "pending", "none")
      BY <1>4 DEF Converts
    <2>2. "pending" \in States /\ "none" \in Reasons
      BY DEF States, Reasons
    <2> QED
      BY <1>1, <1>2, <1>4, <2>1, <2>2, SetStateAt
  <1>5. CASE \E why \in {"nature", "settings"} : Skips(f, why)
    <2>1. PICK why \in {"nature", "settings"} : rows' = SetState(rows, f, "skipped", why)
      BY <1>5 DEF Skips
    <2>2. "skipped" \in States /\ why \in Reasons /\ why # "out_of_scope"
      BY DEF States, Reasons
    <2>3. rows'[f].state = "skipped" /\ rows'[f].reason # "out_of_scope"
      BY <1>1, <1>2, <2>1, <2>2, SetStateAt
    <2> QED
      BY <1>1, <2>1, <2>2, <2>3, SetStateAt
  <1>6. CASE Settles(f)
    <2>1. PICK s \in {"pending", "failed"} :
            /\ rows' = SetState(rows, f, s, "none")
            /\ s = "pending" => cancelled
      BY <1>6 DEF Settles, IInv, Owned
    <2>2. s \in States /\ "none" \in Reasons
      BY DEF States, Reasons
    <2> QED
      BY <1>1, <1>2, <2>1, <2>2, SetStateAt
  <1> QED
    BY <1>1, <1>3, <1>4, <1>5, <1>6

(* A task goes on: asks for quota, gets it, or has its error judged.       *)
LEMMA MovesKeeps ==
  ASSUME IInv, NEW f \in Files, AsksForQuota(f) \/ GetsQuota(f) \/ Errs(f)
  PROVE  IInv'
  <1>1. PICK a \in Phases \ {"none"}, b \in Phases \ {"none"} :
          Moves(f, a, b) /\ (b = "interrupted" => cancelled)
    BY DEF AsksForQuota, GetsQuota, Errs, Phases
  <1>2. /\ f \in Running /\ phase' = [phase EXCEPT ![f] = b]
        /\ UNCHANGED <<rows, at, taken, unjoined, started, execute, limit, excluded, cancelled, late,
                       stranded>>
    BY <1>1 DEF Moves, thisRun, Running
  <1>3. /\ Running' = Running /\ phase' \in [Files -> Phases]
        /\ \A g \in Files : phase'[g] = IF g = f THEN b ELSE phase[g]
    <2>1. /\ Running' = Running \cup {f} /\ phase' \in [Files -> Phases]
          /\ \A g \in Files : phase'[g] = IF g = f THEN b ELSE phase[g]
      BY <1>2, RunningIs DEF IInv
    <2> QED
      BY <1>2, <2>1
  <1>4. Owned'
    BY <1>1, <1>2, <1>3 DEF IInv, Owned, ClaimedHasOwner
  <1> QED
    BY <1>2, <1>3, <1>4
    DEF IInv, WellFormed, Bounded, TasksLen, Late, Through, InScope, LimitReached

(* What the end of a task does to the rest of the state: it is counted     *)
(* until it is joined.                                                     *)
LEMMA EndKeeps ==
  ASSUME IInv, NEW f \in Files, NEW o \in Outcomes, Ended(f, o), f \in Running,
         rows' \in Ledger, InScope', stranded' \subseteq stranded \cup {f},
         InState(rows', "pending") = {} \/ ~execute \/ cancelled \/ InState(rows, "pending") # {},
         ClaimedHasOwner' \/ Running' # Running \ {f}
  PROVE  IInv'
  <1>1. /\ phase' = [phase EXCEPT ![f] = "none"]
        /\ unjoined' = [unjoined EXCEPT ![o] = @ + 1]
        /\ UNCHANGED <<at, taken, started, execute, limit, excluded, cancelled, late>>
    BY DEF Ended
  <1>2. /\ Running' = Running \ {f} /\ phase' \in [Files -> Phases]
        /\ \A g \in Files : phase'[g] = IF g = f THEN "none" ELSE phase[g]
    BY <1>1, RunningIs DEF IInv, Phases
  <1>3. /\ unjoined' \in [Outcomes -> Nat]
        /\ \A q \in Outcomes : unjoined[q] \in Nat
        /\ \A q \in Outcomes : unjoined'[q] = IF q = o THEN unjoined[q] + 1 ELSE unjoined[q]
    BY <1>1 DEF IInv, WellFormed
  <1>4. Cardinality(Running') = Cardinality(Running) - 1 /\ Cardinality(Running) \in Nat
    BY <1>2, Counting DEF IInv
  <1>5. TasksLen' = TasksLen
    BY <1>3, <1>4 DEF TasksLen, Outcomes
  <1>6. WellFormed'
    BY <1>1, <1>2, <1>3 DEF IInv, WellFormed
  <1>7. Through'
    BY <1>1 DEF IInv, Through, LimitReached
  <1>8. Owned'
    BY <1>1, <1>2 DEF IInv, Owned
  <1> QED
    BY <1>1, <1>5, <1>6, <1>7, <1>8 DEF IInv, Bounded, Late

LEMMA TaskKeeps ==
  ASSUME IInv, NEW f \in Files, Task(f)
  PROVE  IInv'
  <1>1. CASE AsksForQuota(f) \/ Errs(f)
    BY <1>1, MovesKeeps
  <1>2. CASE Converts(f) \/ (\E why \in {"nature", "settings"} : Skips(f, why)) \/ Settles(f)
    <2>1. PICK o \in Outcomes : Ended(f, o) /\ f \in Running /\ stranded' = stranded
      BY <1>2 DEF Converts, Skips, Settles, Ends, Outcomes, Running
    <2>2. /\ InState(rows', "claimed") = InState(rows, "claimed") \ {f}
          /\ InState(rows', "pending") = {} \/ ~execute \/ cancelled \/ InState(rows, "pending") # {}
      BY <1>2, <2>1, TaskWrites DEF InState, IInv, WellFormed, Ledger, Table
    <2>3. rows' \in Ledger /\ InScope'
      BY <1>2, <2>1, TaskWrites DEF IInv, InScope, Ended
    <2>4. ClaimedHasOwner' \/ Running' # Running \ {f}
      BY <2>1, <2>2 DEF IInv, Owned, ClaimedHasOwner, Ended
    <2> QED
      BY <2>1, <2>2, <2>3, <2>4, EndKeeps
  <1>3. CASE Stranded(f)
    <2>1. PICK o \in Outcomes : Ended(f, o) /\ f \in Running
      BY <1>3 DEF Stranded, Outcomes, Running
    <2>2. rows' = rows /\ stranded' = stranded \cup {f}
      BY <1>3 DEF Stranded
    <2>3. rows' \in Ledger /\ InScope'
      BY <2>1, <2>2 DEF IInv, WellFormed, InScope, Ended
    <2>4. ClaimedHasOwner' \/ Running' # Running \ {f}
      BY <2>1, <2>2 DEF IInv, Owned, ClaimedHasOwner, Ended
    <2> QED
      BY <2>1, <2>2, <2>3, <2>4, EndKeeps
  <1> QED
    BY <1>1, <1>2, <1>3 DEF Task

-----------------------------------------------------------------------------
(* Every state of every execution satisfies the invariant.                 *)
THEOREM Invariance == Spec => []IInv
  <1>1. IInv /\ [Next]_vars => IInv'
    <2> SUFFICES ASSUME IInv, [Next]_vars PROVE IInv'
      OBVIOUS
    <2>1. ASSUME NEW retry \in BOOLEAN, NEW out \in SUBSET Files, Start(retry, out) PROVE IInv'
      BY <2>1, StartKeeps
    <2>2. CASE Cancel
      BY <2>2, CancelKeeps
    <2>3. CASE Loop
      <3>1. ASSUME NEW o \in Outcomes, WaitForRoom(o) \/ Collect(o) \/ Drain(o) PROVE IInv'
        BY <3>1, JoinKeeps
      <3> QED
        BY <2>3, <3>1, TopKeeps, ClaimNextKeeps, PlaceKeeps, MovingKeeps, AbandonKeeps DEF Loop
    <2>4. CASE Exit \/ Kill
      BY <2>4, MovingKeeps, AbandonKeeps
    <2>5. ASSUME NEW f \in Files, Task(f) \/ GetsQuota(f) PROVE IInv'
      BY <2>5, TaskKeeps, MovesKeeps
    <2>6. CASE UNCHANGED vars
      BY <2>6 DEF vars, thisRun, IInv, WellFormed, Bounded, TasksLen, Late, Through, InScope,
                  LimitReached, InState, Owned, ClaimedHasOwner, Running
    <2> QED
      BY <2>1, <2>2, <2>3, <2>4, <2>5, <2>6 DEF Next
  <1> QED
    BY <1>1, InitHolds, PTL DEF Spec

(* The loop's state is well formed, and no more tasks than max_in_flight   *)
(* run or wait to be joined (Pipeline::run).                               *)
THEOREM TypeCorrect == Spec => []TypeOK
  <1>1. IInv => TypeOK
    <2> SUFFICES ASSUME IInv PROVE TypeOK
      OBVIOUS
    <2>1. \A o \in Outcomes : unjoined[o] \in 0..MaxInFlight
      BY Counting, RunLoopAssumption DEF IInv, WellFormed, Bounded
    <2>2. unjoined \in [Outcomes -> 0..MaxInFlight]
      BY <2>1 DEF IInv, WellFormed
    <2> QED
      BY <2>2 DEF IInv, WellFormed, Ledger, Places, TypeOK
  <1> QED
    BY <1>1, Invariance, PTL

(* After Ctrl-C at most one more file is claimed (Pipeline::run).          *)
THEOREM OneLate == Spec => []AtMostOneLate
  <1>1. IInv => AtMostOneLate
    BY DEF IInv, Late, AtMostOneLate
  <1> QED
    BY <1>1, Invariance, PTL

(* A run that was not stopped leaves nothing pending, and nothing set      *)
(* aside for a scope but its own (Pipeline::run, run_convert).             *)
THEOREM Overlooks == Spec => []NothingOverlooked
  <1>1. IInv => NothingOverlooked
    BY DEF IInv, Through, InScope, NothingOverlooked
  <1> QED
    BY <1>1, Invariance, PTL

(* Every claimed row is with one task, with the loop, or with a task that  *)
(* ended without settling it (Pipeline::run, process, recover_claimed).    *)
THEOREM OneOwner == Spec => []ClaimedHasOwner
  <1>1. IInv => ClaimedHasOwner
    BY DEF IInv, Owned
  <1> QED
    BY <1>1, Invariance, PTL
=============================================================================
