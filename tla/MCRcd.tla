------------------------------- MODULE MCRcd -------------------------------
(***************************************************************************)
(* Two commands and one port, so that they race for it and one inherits it *)
(* from the other; one of them has a call of each kind.                    *)
(***************************************************************************)
EXTENDS Rcd, TLC

CONSTANTS scan, run, list, upload, delete

MCCommands == {scan, run}
MCCalls    == {list, upload, delete}
MCCallerOf == (list :> scan) @@ (upload :> run) @@ (delete :> run)
MCPolled   == {list, upload}
=============================================================================
