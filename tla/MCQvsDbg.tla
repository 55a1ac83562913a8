------------------------------ MODULE MCQvsDbg ------------------------------
(* QvsDbg for TLC, on its own: what the text of the flag -f promises.      *)
EXTENDS QvsDbg

MCInputs == [home : BOOLEAN, default : BOOLEAN, responses : 0..2, nodes : 0..1, undated : BOOLEAN]
=============================================================================
