----------------------------- MODULE MCCredentials -----------------------------
(* Credentials for TLC: a unit of time is two and a half minutes, and tokens live ten  *)
(* minutes instead of sixty.                                                     *)
EXTENDS Credentials, TLC

Symmetry == Permutations(Mentions)
=============================================================================
