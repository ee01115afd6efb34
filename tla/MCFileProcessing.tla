-------------------------- MODULE MCFileProcessing --------------------------
(* FileProcessing on a small instance: a document of two pages, a picture  *)
(* and a rejected document.                                                *)
EXTENDS FileProcessing

CONSTANTS pdf, picture, virus

MCLength == [d \in Docs |-> IF d = pdf THEN 2 ELSE 1]
=============================================================================
