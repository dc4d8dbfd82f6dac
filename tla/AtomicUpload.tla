------------------------------ MODULE AtomicUpload -----------------------------
(* What a folder upload promises its client: bytes are acknowledged file by   *)
(* file and never taken back, and the folder appears as a whole, once, when   *)
(* the last byte is acknowledged.                                             *)
EXTENDS Naturals

CONSTANTS File, Size

VARIABLES acked, visible

vars == <<acked, visible>>

Init == acked = [f \in File |-> 0] /\ visible = FALSE

Acknowledge(f) ==
    /\ ~visible
    /\ \E n \in 1 .. (Size[f] - acked[f]) : acked' = [acked EXCEPT ![f] = @ + n]
    /\ UNCHANGED visible

Publish ==
    /\ ~visible /\ acked = Size
    /\ visible' = TRUE
    /\ UNCHANGED acked

Next == Publish \/ \E f \in File : Acknowledge(f)

Spec == Init /\ [][Next]_vars
==============================================================================
