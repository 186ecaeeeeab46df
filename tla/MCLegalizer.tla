---------------------------- MODULE MCLegalizer ----------------------------
(* Two-byte bus, bursts of up to eight beats, pages of eight bytes, sixteen *)
(* addresses: the page limit binds, as it does on a bus of more than 16     *)
(* bytes; a transfer of up to eleven bytes crosses a page on either side,   *)
(* is cut by a reduced length, and wraps at the end of memory.              *)
EXTENDS Legalizer

Opt(s, d, dec, sr, sl, dr, dl) ==
    [src_protocol |-> s, dst_protocol |-> d, decouple_rw |-> dec,
     src_reduce_len |-> sr, src_max_llen |-> sl, dst_reduce_len |-> dr, dst_max_llen |-> dl]

MCOpts ==
    {Opt("AXI", "AXI", dec, FALSE, 0, FALSE, 0) : dec \in BOOLEAN}
    \cup {Opt("AXI", "AXI", FALSE, TRUE, 1, FALSE, 0), Opt("AXI", "AXI", FALSE, FALSE, 0, TRUE, 0),
          Opt("AXI", "AXI", TRUE, FALSE, 0, TRUE, 1), Opt("AXI_STREAM", "AXI", FALSE, FALSE, 0, TRUE, 1),
          Opt("AXI", "AXI_STREAM", FALSE, FALSE, 0, FALSE, 0)}

MCRequests ==
    [length : {1, 2, 5, 8, 11}, src_addr : {0, 3, 6, 13}, dst_addr : {0, 5, 7}, opt : MCOpts]
============================================================================
