----------------------------- MODULE ExitCodes ------------------------------
(***************************************************************************)
(* The exit codes of the commands (errors.py), and what stands for a       *)
(* command that ends without one.                                          *)
(***************************************************************************)
EXTENDS Integers

EXIT_PASS  == 0
EXIT_WARN  == 1
EXIT_FAIL  == 2
EXIT_ERROR == 3
CRASH      == 1     \* an uncaught exception: the interpreter exits with 1
NoExit     == -1    \* still running
=============================================================================
