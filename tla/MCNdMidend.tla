---------------------------- MODULE MCNdMidend ----------------------------
(* Four dimensions: three counters, so that one in the middle is bypassed  *)
(* between two that count.  The strides differ in every dimension and on   *)
(* both sides, and the addresses wrap.  Four repetitions do not fit into   *)
(* the counters and count as none.                                         *)
EXTENDS NdMidend

MCStrides ==
    [d \in Dims |-> [side \in Sides |-> IF side = "src" THEN 2 * d - 3 ELSE (7 * d) % 16]]

Request(r2, r3, r4) ==
    [reps |-> [d \in Dims |-> IF d = 2 THEN r2 ELSE IF d = 3 THEN r3 ELSE r4],
     strides |-> MCStrides,
     addr |-> [side \in Sides |-> IF side = "src" THEN 2 + r2 ELSE 13]]

MCRequests ==
    {Request(r2, r3, r4) : r2 \in {0, 1, 2, 3}, r3 \in {0, 1, 2}, r4 \in {0, 1, 2}}
    \cup {Request(4, 0, 0), Request(4, 2, 0)}
============================================================================
