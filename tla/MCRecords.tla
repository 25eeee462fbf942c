----------------------------- MODULE MCRecords -----------------------------
(***************************************************************************)
(* A photograph whose versions have one size and a song whose versions     *)
(* differ in size, two days of retention, three on the clock.              *)
(***************************************************************************)
EXTENDS Records, TLC

MCOut    == ("photo.jpg" :> "photo.jxl") @@ ("song.wav" :> "song.flac")
MCPaths  == {"photo.jpg", "photo.jxl", "song.wav", "song.flac"}
MCSizeOf == ("photo.jpg" :> <<10, 10>>) @@ ("song.wav" :> <<20, 30>>)
=============================================================================
