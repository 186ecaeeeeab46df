----------------------------- MODULE ProtocolDb -----------------------------
(***************************************************************************)
(* The protocol database: the files src/src/db/idma_*.yml and how          *)
(* src/util/mario/database.py reads them.  Of a protocol only what the     *)
(* generator decides by is kept: how its bursts are cut, which template    *)
(* texts it has, and the signals to be traced.                             *)
(***************************************************************************)
EXTENDS Integers, Sequences, FiniteSets

(* A template text: spaces before each line, whether it ends with a        *)
(* newline, and whether all its characters are still there.  YAML's block  *)
(* scalars end with a newline.                                             *)
BlockScalar == [indent |-> 0, newline |-> TRUE, whole |-> TRUE]

CommonTexts ==
    {"read_template", "write_template", "legalizer_read_meta_channel", "legalizer_write_meta_channel",
     "synth_wrapper_ports_read", "synth_wrapper_assign_read",
     "synth_wrapper_ports_write", "synth_wrapper_assign_write"}

(* A traced signal: the manager it belongs to, its path in the list, and   *)
(* the port of the backend it is taken from.                               *)
Traced(side, channel, name, port) == [side |-> side, channel |-> channel, name |-> name, port |-> port]

(* req_of and rsp_of: the request and response port of a manager. *)
Req(prefix, side) == <<prefix, side, "req", "o">>
Rsp(prefix, side) == <<prefix, side, "rsp", "i">>

(* The list most protocols have: the handshake that moves data, where the  *)
(* answer is what a port is told and the offer what it tells.              *)
Handshakes(prefix) ==
    {Traced("read", "rsp", "valid", Rsp(prefix, "read")), Traced("read", "rsp", "ready", Req(prefix, "read")),
     Traced("write", "req", "valid", Req(prefix, "write")), Traced("write", "req", "ready", Rsp(prefix, "write")),
     Traced("write", "req", "strobe", Req(prefix, "write"))}

AxisSignals ==
    {Traced("read", "rsp", "valid", <<"axis", "read", "req", "i">>),
     Traced("read", "rsp", "ready", <<"axis", "read", "rsp", "o">>),
     Traced("read", "rsp", "strobe", <<"axis", "read", "req", "i">>)}
    \cup {s \in Handshakes("axis") : s.side = "write"}

InitSignals ==
    UNION {{Traced(side, "req", "valid", Req("init", side)), Traced(side, "req", "config", Req("init", side)),
            Traced(side, "req", "ready", Rsp("init", side)), Traced(side, "rsp", "valid", Rsp("init", side)),
            Traced(side, "rsp", "ready", Req("init", side))} : side \in {"read", "write"}}
    \cup {Traced("write", "req", "data", Req("init", "write"))}

ObiSignals ==
    {Traced("read", "rsp", "valid", Req("obi", "read")), Traced("read", "rsp", "ready", Rsp("obi", "read")),
     Traced("read", "rsp", "write_en", Req("obi", "read")), Traced("write", "req", "write_en", Req("obi", "write"))}
    \cup {s \in Handshakes("obi") : s.side = "write"}

Entry(prefix, bursts, decouple, combined, passive, texts, signals) ==
    [prefix |-> prefix, bursts |-> bursts, force_decouple |-> decouple, combined_aw_and_w |-> combined,
     passive_req |-> passive, texts |-> CommonTexts \cup texts, trace_signals |-> signals]

(* The files, in the order of their names. *)
Files ==
    <<Entry("axi", "split_at_page_boundary", FALSE, FALSE, FALSE, {"legalizer_write_data_path"}, Handshakes("axi")),
      Entry("axil", "not_supported", FALSE, FALSE, FALSE, {"bridge_template"}, Handshakes("axi_lite")),
      Entry("axis", "not_supported", FALSE, TRUE, TRUE, {"read_bridge_template", "write_bridge_template"}, AxisSignals),
      Entry("init", "not_supported", FALSE, FALSE, FALSE, {"read_bridge_template", "write_bridge_template"}, InitSignals),
      Entry("obi", "not_supported", FALSE, TRUE, FALSE, {"bridge_template"}, ObiSignals),
      Entry("tilelink", "only_pow2", TRUE, TRUE, FALSE, {"bridge_template", "legalizer_write_data_path"}, Handshakes("tilelink"))>>

(* A file replaces an earlier one of the same prefix. *)
ReadDatabase(files) ==
    [p \in {files[k].prefix : k \in DOMAIN files} |->
        LET last == CHOOSE k \in DOMAIN files :
                        files[k].prefix = p /\ \A j \in DOMAIN files : files[j].prefix = p => j <= k
        IN  files[last]]

(* The texts of a database as they are read from the files. *)
Texts(db) == [p \in DOMAIN db |-> [t \in db[p].texts |-> BlockScalar]]
=============================================================================
