------------------------------ MODULE MCOverlay ------------------------------
(* A base with a directory that holds a file.                              *)
EXTENDS OverlayFS

CONSTANTS na, nb

\* Nothing is claimed once the maps are stale, so those states are not extended.
Trusted == ~stale

BaseTree == (<<na>> :> "dir") @@ (<<na, na>> :> "file")
BaseTwo == BaseTree @@ (<<nb>> :> "file")
=============================================================================
