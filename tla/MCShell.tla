------------------------------ MODULE MCShell ------------------------------
(***************************************************************************)
(* Two sessions, one of them with two jobs; a program under two names      *)
(* (python, python3) that share an instance name, a native command and a   *)
(* name that is not registered.                                            *)
(***************************************************************************)
EXTENDS Shell

CONSTANTS j1, j2, j3, s1, s2

Path(n, parts) == [slashes |-> n, parts |-> parts]
MCTargets == {Path(0, <<"a">>), Path(0, <<Up, Up, "b">>), Path(1, <<"b">>), Path(2, <<Up, "a">>)}
MCTree == [q \in {<<>>, <<"a">>, <<"b">>} |-> IF q = <<"b">> THEN "file" ELSE "dir"]
MCUnsettled == {<<"a">>}
MCCommands == {"python", "python3", "tree", "nosuch"}
MCProgramOf == [c \in MCCommands |-> CASE c = "tree" -> "native" [] c = "nosuch" -> "unknown"
                                       [] OTHER -> "py"]
MCInstanceName == [c \in MCCommands |-> IF c \in {"python", "python3"} THEN "python3" ELSE c]
OneOfEach == (j1 :> s1) @@ (j2 :> s1) @@ (j3 :> s2)
MCMenu == (j1 :> {"cd", "python"}) @@ (j2 :> {"cd", "redirect", "python3", "tree"})
          @@ (j3 :> {"python3", "nosuch"})
MCMax == (j1 :> 1) @@ (j2 :> 1) @@ (j3 :> 1)
=============================================================================
