----------------------------- MODULE MCS3Files -----------------------------
(***************************************************************************)
(* A bucket with the keys a, b, a/a and the placeholder a/: w changes it   *)
(* while r looks at it.                                                    *)
(***************************************************************************)
EXTENDS S3Files, TLC

CONSTANTS r, w

Keys == {<<1>>, <<2>>, <<1, 1>>, <<1, 0>>}

Looks == {"Stat", "Open", "ReadDir"}
Roles == (r :> Looks) @@ (w :> Ops \ Looks)
Few == (r :> 1) @@ (w :> 2)
=============================================================================
