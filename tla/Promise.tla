------------------------------ MODULE Promise ------------------------------
(***************************************************************************)
(* What the tool promises the owner of a remote library, without saying    *)
(* how: each file is at every moment there whole, first as the original,   *)
(* then as the original and its replacement together, then as the          *)
(* replacement alone; and the ledger records a conversion only when the    *)
(* replacement stands alone.  A delicate file can lose a replacement that  *)
(* stands alone as long as it is not recorded.                             *)
(***************************************************************************)
CONSTANTS
  Library,
  Delicate    \* the files whose replacement is stored again after a kill

VARIABLES
  copies,     \* for each file, which whole copies of it are live
  recorded    \* the files the ledger calls converted

vars == <<copies, recorded>>

Init ==
  /\ copies = [p \in Library |-> {"original"}]
  /\ recorded = {}

(* The replacement appears beside the original.                            *)
Publish(p) ==
  /\ copies[p] = {"original"}
  /\ copies' = [copies EXCEPT ![p] = {"original", "replacement"}]
  /\ UNCHANGED recorded

(* A replacement that could not be confirmed is taken back.                *)
Withdraw(p) ==
  /\ copies[p] = {"original", "replacement"}
  /\ copies' = [copies EXCEPT ![p] = {"original"}]
  /\ UNCHANGED recorded

(* The original goes, and only ever from beside its replacement.           *)
Retire(p) ==
  /\ copies[p] = {"original", "replacement"}
  /\ copies' = [copies EXCEPT ![p] = {"replacement"}]
  /\ UNCHANGED recorded

(* A second attempt overwrites the first one's replacement.                *)
Spoil(p) ==
  /\ p \in Delicate \ recorded
  /\ copies[p] = {"replacement"}
  /\ copies' = [copies EXCEPT ![p] = {}]
  /\ UNCHANGED recorded

Mend(p) ==
  /\ copies[p] = {}
  /\ copies' = [copies EXCEPT ![p] = {"replacement"}]
  /\ UNCHANGED recorded

RecordDone(p) ==
  /\ copies[p] = {"replacement"}
  /\ recorded' = recorded \cup {p}
  /\ UNCHANGED copies

(* A scan may reset rows whose path now holds something else.              *)
Forget ==
  /\ recorded' \in SUBSET recorded
  /\ UNCHANGED copies

Next ==
  \/ Forget
  \/ \E p \in Library : Publish(p) \/ Withdraw(p) \/ Retire(p)
                       \/ Spoil(p) \/ Mend(p) \/ RecordDone(p)

Spec == Init /\ [][Next]_vars
=============================================================================
