----------------------------- MODULE MCCpuPool -----------------------------
(* Two videos and three images over four cores with half of them reserved. *)
EXTENDS CpuPool

MCJobs      == {"clip1", "clip2", "photo1", "photo2", "photo3"}
MCVideoJobs == {"clip1", "clip2"}
=============================================================================
