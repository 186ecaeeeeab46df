------------------------------- MODULE Queues -------------------------------
(***************************************************************************)
(* FIFOs: how they lose their head and what the models count in them.      *)
(***************************************************************************)
EXTENDS Integers, Sequences, FiniteSets

One(b) == IF b THEN 1 ELSE 0

(* What is left of q, its head taken if pop. *)
Rest(q, pop) == IF pop THEN Tail(q) ELSE q

(* How often e is in the queue q. *)
Occurrences(q, e) == Cardinality({i \in 1..Len(q) : q[i] = e})

============================================================================
