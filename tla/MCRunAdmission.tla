--------------------------- MODULE MCRunAdmission ---------------------------
(* Small instances of RunAdmission for TLC.                                *)
EXTENDS RunAdmission, TLC

AdmissionSymmetry ==
    Permutations(Requests) \cup Permutations(Keys) \cup Permutations(Targets)
=============================================================================
