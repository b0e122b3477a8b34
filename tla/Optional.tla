------------------------------- MODULE Optional -------------------------------
(* A value that is not there: `undefined' or null in the Worker's records.        *)
CONSTANT None
=============================================================================
