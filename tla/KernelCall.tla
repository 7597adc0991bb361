---------------------------- MODULE KernelCall ----------------------------
(***************************************************************************)
(* A call of a kernel outside the row loop: which one, with which          *)
(* arguments, and what it returns on each of its code paths.               *)
(***************************************************************************)
VARIABLES
  call,     \* the kernel called and its arguments
  result    \* what each of its code paths computes

NoCall == [kernel |-> "none"]
===========================================================================
