------------------------------ MODULE MCDisplay ------------------------------
(* Model-checking instance of Display: the texts of the bounded versions.  *)
EXTENDS Display

MCTexts == AllTexts
=============================================================================
