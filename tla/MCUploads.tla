------------------------------- MODULE MCUploads ------------------------------
(* Uploads with two files and two requests in flight, for TLC. *)
EXTENDS Uploads, TLC

CONSTANTS f1, f2

\* One file that takes two pieces, so that a chunk can be a part of it.
TwoFiles == f1 :> 2 @@ f2 :> 1
==============================================================================
