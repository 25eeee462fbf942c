----------------------------- MODULE MCStaging -----------------------------
(***************************************************************************)
(* Two files, one of which may change between runs; no two files share a   *)
(* size and a mod_time.  Two numbers are enough for a directory of one run *)
(* to be in the way of a job of the next.                                  *)
(***************************************************************************)
EXTENDS Staging

MCFiles == {"a", "b"}
Apart   == [f \in MCFiles |-> IF f = "a" THEN {"a1", "a2"} ELSE {"b1"}]
=============================================================================
