------------------------------- MODULE Python -------------------------------
(* What the modules of the environment share of Python.                    *)
CONSTANT None  \* the object None
=============================================================================
