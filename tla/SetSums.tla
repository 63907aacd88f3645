-------------------------------- MODULE SetSums --------------------------------
(***************************************************************************)
(* The sum of a function over a finite set, in the one form the modules    *)
(* and the lemmas of DataInduction share.                                  *)
(***************************************************************************)
EXTENDS FiniteSetsExt

SumOver(S, f) == MapThenSumSet(LAMBDA a : f[a], S)

=============================================================================
