----------------------------- MODULE MCAv1Gate -----------------------------
(***************************************************************************)
(* Two contents, two presets, and a scale of six CRFs, which the steps of  *)
(* three attempts cross all of: gates above, below and between the values  *)
(* they visit all occur, and gates no CRF clears.                          *)
(***************************************************************************)
EXTENDS Av1Gate

MCSettings == {[preset |-> p, tf |-> TRUE] : p \in {3, 5}}
=============================================================================
