------------------------------ MODULE MCTools -------------------------------
(* Bounds for Tools: a .cfg cannot hold a negative number. *)
EXTENDS Tools

AskedValues == {-6, -3, -2, -1, 0, 2, 5}
=============================================================================
