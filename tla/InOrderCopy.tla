---------------------------- MODULE InOrderCopy ----------------------------
(***************************************************************************)
(* What a backend promises to the unit that issues 1D transfers, whatever  *)
(* legalizer, buffers and ports are inside: transfers are copied in the    *)
(* order they were accepted, byte after byte, and each gets one response,  *)
(* in that order and only once all of it has been written.                 *)
(***************************************************************************)
EXTENDS Naturals, Sequences

CONSTANTS
    Lengths,   \* lengths of the transfers
    MaxBeat    \* bytes a cycle can write

VARIABLE pending     \* transfers accepted and not answered, oldest first

Written(transfer) == transfer.copied = transfer.length

(* Bytes are written for transfer k of p: those before it are finished.    *)
Current(p, k) == ~Written(p[k]) /\ \A j \in 1..k-1 : Written(p[j])

Room(p, k) == p[k].length - p[k].copied

(* One clock cycle: the oldest transfer is answered, n bytes are written,  *)
(* a new transfer is taken in.                                             *)
Cycle(answer, n, new) ==
    LET left == IF answer THEN Tail(pending) ELSE pending
    IN  /\ answer => pending # <<>> /\ Written(Head(pending))
        /\ n > 0 => \E k \in DOMAIN left : Current(left, k) /\ n <= Room(left, k)
        /\ pending' = [k \in DOMAIN left |->
                          IF Current(left, k) THEN [left[k] EXCEPT !.copied = @ + n]
                          ELSE left[k]] \o new

Init == pending = <<>>

News == {<<>>} \cup {<<[length |-> l, copied |-> 0]>> : l \in Lengths}

Next == \E answer \in BOOLEAN, n \in 0..MaxBeat, new \in News : Cycle(answer, n, new)

Spec == Init /\ [][Next]_pending
============================================================================
