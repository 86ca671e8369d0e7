--------------------------- MODULE MCSophiaStdin ----------------------------
(* Instances of SophiaStdin for TLC. *)
EXTENDS SophiaStdin

\* A command line, text with a Ctrl-D in the middle, another line.
Mixed == <<"x", "cr", "x", "eot", "x", "cr">>

AllKinds == {"reader", "other", "endless"}
=============================================================================
