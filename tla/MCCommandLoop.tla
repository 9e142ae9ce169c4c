--------------------------- MODULE MCCommandLoop ---------------------------
(* Instances of CommandLoop: the cfg file names the processes.             *)
EXTENDS CommandLoop
=============================================================================
