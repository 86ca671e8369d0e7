------------------------------ MODULE MCS3Temp ------------------------------
(* Instances of S3Temp for TLC. *)
EXTENDS S3Temp, TLC

Symmetry == Permutations(Proc) \cup Permutations(Value) \cup Permutations(Buf)
              \cup Permutations(Key)
=============================================================================
