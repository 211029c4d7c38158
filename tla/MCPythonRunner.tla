--------------------------- MODULE MCPythonRunner ---------------------------
(***************************************************************************)
(* A page with a workbench, a block of two commands, one on each engine,   *)
(* and a walkthrough step, which has no Stop button.                       *)
(***************************************************************************)
EXTENDS PythonRunner

MCCommands ==
    [b \in {"bench", "block", "step"} |->
        IF b = "block" THEN <<"python", "rust", "python">> ELSE <<"python">>]
MCBoxes == DOMAIN MCCommands
MCCanStop == {"bench", "block"}

\* A page of one-command boxes, for what takes a second run to show.
PairCommands == [b \in {"bench", "step"} |-> <<"python">>]
PairBoxes == DOMAIN PairCommands
PairCanStop == {"bench"}
=============================================================================
