--------------------------- MODULE MCLlamaRuntime ---------------------------
(* LlamaRuntime on a few calls. *)
EXTENDS LlamaRuntime

CONSTANTS f1, b1, b2

OneAndTwo == {f1, b1, b2}
BothBackground == {b1, b2}
=============================================================================
