----------------------------- MODULE SuiteState ------------------------------
(***************************************************************************)
(* The variables of the suites MCOperations and MCChat.  A suite checks    *)
(* modules that share no state side by side: a behaviour is one of the     *)
(* module that `part' names, and x1 .. x20 stand for its variables.        *)
(***************************************************************************)
VARIABLES
  part,  \* which of them this behaviour is of
  x1, x2, x3, x4, x5, x6, x7, x8, x9, x10, x11, x12, x13, x14, x15, x16,
  x17, x18, x19, x20

suiteVars == <<part, x1, x2, x3, x4, x5, x6, x7, x8, x9, x10, x11, x12, x13, x14,
         x15, x16, x17, x18, x19, x20>>
==============================================================================
