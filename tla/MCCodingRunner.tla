---------------------------- MODULE MCCodingRunner ----------------------------
(* CodingRunner for TLC.                                                    *)
EXTENDS CodingRunner
=============================================================================
