----------------------------- MODULE MCSession -----------------------------
(* A session with small lengths: a record of at most eight bytes, targets    *)
(* below the shortest record, inside and above the longest.                  *)
EXTENDS Session
=============================================================================
