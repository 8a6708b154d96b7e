---------------------------- MODULE MCSetupWizard ----------------------------
(* Two POSTs are interchangeable, and so are two secrets. *)
EXTENDS SetupWizard, TLC

MCSymmetry == Permutations(Requests) \cup Permutations(Secrets)
=============================================================================
