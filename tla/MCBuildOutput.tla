--------------------------- MODULE MCBuildOutput ---------------------------
(***************************************************************************)
(* Two sources, the first with a line to print, and a pipeline of two      *)
(* stages: the first prints a character of two bytes, and has a service    *)
(* that prints two lines; the second has no service.                       *)
(***************************************************************************)
EXTENDS BuildOutput

MainThread == "main"
TwoThreads == {"main", "loop"}
ServiceLines == [m \in 0..2 |-> CASE m = 0 -> <<1, 0>>
                                   [] m = 1 -> <<2>>
                                   [] m = 2 -> <<>>]
TwoStages == <<<<"c", "h", "t">>, <<"c">>>>
=============================================================================
