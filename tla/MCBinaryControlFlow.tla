------------------------ MODULE MCBinaryControlFlow ------------------------
(***************************************************************************)
(* The flows of the functions of MCFlowGenerator, exported and read.       *)
(***************************************************************************)
EXTENDS BinaryControlFlowInvariants, MCFlowGenerator
=============================================================================
