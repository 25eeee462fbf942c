----------------------------- MODULE MCRunLoop -----------------------------
(* Three files and room for one or two of them; the run's order is by name. *)
EXTENDS RunLoop

MCFiles == {"a.jpg", "b.jpg", "c.jpg"}
MCRank  == [f \in Files |-> CASE f = "a.jpg" -> 1 [] f = "b.jpg" -> 2 [] OTHER -> 3]

MCLimits    == {NoLimit, 2}
MCDryLimits == {NoLimit, 2}
=============================================================================
