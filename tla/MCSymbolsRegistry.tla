------------------------- MODULE MCSymbolsRegistry -------------------------
(* Instances of SymbolsRegistry for TLC.  The executable v1 and its recompiled *)
(* version v2 share a path.                                                    *)
EXTENDS SymbolsRegistry, TLC

CONSTANTS v1, v2, p1

MCPathOf == (v1 :> p1) @@ (v2 :> p1)
=============================================================================
