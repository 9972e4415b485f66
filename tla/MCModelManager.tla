--------------------------- MODULE MCModelManager ---------------------------
(* Small instances of ModelManager.  Handlers are interchangeable, and the  *)
(* safety runs use that.                                                    *)
EXTENDS ModelManager, TLC

CONSTANTS a, b, h1, h2

HandlerSymmetry == Permutations(Handlers)
=============================================================================
