------------------------ MODULE MCPosixProcessRunner ------------------------
(***************************************************************************)
(* Small instances of PosixProcessRunner for TLC.  Commands and pids are   *)
(* all alike to the specification and to its safety properties.            *)
(***************************************************************************)
EXTENDS PosixProcessRunner, TLC

RunnerSymmetry == Permutations(Cmds) \cup Permutations(Pids)
=============================================================================
