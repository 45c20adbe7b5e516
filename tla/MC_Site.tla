------------------------------- MODULE MC_Site -------------------------------
(* main.js in a window that takes widths on both sides of the breakpoints.   *)
EXTENDS Site
=============================================================================
