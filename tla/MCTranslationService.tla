------------------------ MODULE MCTranslationService ------------------------
(* Small instances of TranslationService for TLC. *)
EXTENDS TranslationService, TLC

\* The calls are interchangeable in every safety property.
CallSymmetry == Permutations(Calls)
=============================================================================
