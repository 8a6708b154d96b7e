------------------------------- MODULE MCAccess -------------------------------
(* Access for TLC: the two browsers do the same things. *)
EXTENDS Access, TLC

BrowserSymmetry == Permutations(Browsers)
===============================================================================
