------------------------------ MODULE MCPaths ------------------------------
(***************************************************************************)
(* The characters that matter, one more for names and one that no valid    *)
(* name has.                                                               *)
(***************************************************************************)
EXTENDS Paths

MCChars == {"/", ".", "a", "?"}
============================================================================
