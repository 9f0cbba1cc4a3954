---------------------------- MODULE MCWsSession -----------------------------
(* Small instances of WsSession. *)
EXTENDS WsSession, TLC

\* No action names a particular student, token or slot.
Symmetry == Permutations(Student) \cup Permutations(Token) \cup Permutations(Conn)
=============================================================================
