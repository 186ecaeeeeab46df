---- MODULE MCBackend ----
(* Small instances of the backend: a bus of two bytes, pages of four. *)
EXTENDS Backend

Opt(src, dst, decouple) ==
    [src_protocol |-> src, dst_protocol |-> dst, decouple_rw |-> decouple,
     src_reduce_len |-> FALSE, src_max_llen |-> 0, dst_reduce_len |-> FALSE, dst_max_llen |-> 0]

Request(length, src, dst, opt) ==
    [length |-> length, src_addr |-> src, dst_addr |-> dst, opt |-> opt]

(* To memory: every misalignment; coupled, decoupled, and from a stream.   *)
MCToMemory ==
    {Request(5, 3, 0, Opt("AXI", "AXI", FALSE)), Request(4, 0, 3, Opt("AXI", "AXI", TRUE)),
     Request(3, 1, 2, Opt("AXI_STREAM", "AXI", FALSE))}

(* As many transfers as the queues hold: one burst of one byte each. *)
MCSmall == {Request(1, 0, 1, Opt("AXI", "AXI", FALSE))}

====
