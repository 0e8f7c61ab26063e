------------------------- MODULE MCServerLifecycle -------------------------
(* ServerLifecycle has no constants: TLC checks all of it.                 *)
EXTENDS ServerLifecycle
=============================================================================
