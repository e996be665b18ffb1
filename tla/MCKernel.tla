------------------------------ MODULE MCKernel ------------------------------
(***************************************************************************)
(* The kernel and its properties, as every Kernel*.cfg run of the README   *)
(* checks them.  A run chooses, through the constants, which system calls  *)
(* are made and how large the tables are; the specification is the same in *)
(* all of them.                                                            *)
(***************************************************************************)
EXTENDS KernelProperties
=============================================================================
