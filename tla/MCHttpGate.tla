----------------------------- MODULE MCHttpGate -----------------------------
(* Small instances of HttpGate. *)
EXTENDS HttpGate

CONSTANTS r1, r2, r3

Limits == [ip |-> 2, token |-> 1]
=============================================================================
