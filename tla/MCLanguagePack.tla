--------------------------- MODULE MCLanguagePack ---------------------------
(* The language file with the languages and bounds of its cfg file           *)
EXTENDS LanguagePack
=============================================================================
