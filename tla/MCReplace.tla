----------------------------- MODULE MCReplace -----------------------------
(***************************************************************************)
(* A drive for module Replace where no two files compete for a name:       *)
(* photo.jpg, converted beside itself into photo.jxl, and clip.mp4, whose  *)
(* replacement takes its own name.                                         *)
(***************************************************************************)
EXTENDS Replace

BesidePaths == {"photo.jpg", "photo.jxl"}
ClipPaths   == {"clip.mp4", "clip.mp4.part"}
BothPaths   == BesidePaths \cup ClipPaths

Both == {"photo.jpg", "clip.mp4"}

MCSource == [p \in Both |-> Original(p)]
MCOut    == [p \in Both |-> IF p = "photo.jpg" THEN "photo.jxl" ELSE p]
MCPart   == [p \in Both |-> IF p = "photo.jpg" THEN "photo.jxl" ELSE "clip.mp4.part"]

(* Nothing reads the trash, so states that differ in it alone are one.     *)
WithoutTrash == <<live, rows, job, staged, late, up, cancelled, purger>>

(* A bound: at most one of the two files carries a leftover of a kill, a   *)
(* download or a call that nobody waits for.  They share no name.          *)
OneLeftover == Cardinality({p \in Both : late[p] # "none" \/ staged[p] # Nothing}) <= 1

ASSUME \A p \in Both : Apart(p)
=============================================================================
