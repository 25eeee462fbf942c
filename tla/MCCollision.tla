---------------------------- MODULE MCCollision ----------------------------
(***************************************************************************)
(* A drive for module Replace on which two files of one stem are converted *)
(* into one name: photo.jpg and photo.png both become photo.jxl.           *)
(***************************************************************************)
EXTENDS Replace

MCPaths == {"photo.jpg", "photo.png", "photo.jxl"}
MCLibrary == {"photo.jpg", "photo.png"}

MCSource == [p \in MCLibrary |-> Original(p)]

MCOut  == [p \in MCLibrary |-> "photo.jxl"]
MCPart == [p \in MCLibrary |-> "photo.jxl"]
=============================================================================
