------------------------------ MODULE GenIdma -------------------------------
(***************************************************************************)
(* One invocation of the generator, src/util/gen_idma.py with the          *)
(* renderers of src/util/mario: the IDs are parsed, the database is read,  *)
(* one entity is rendered for one ID after the other, and all of it is     *)
(* printed at the end.                                                     *)
(*                                                                         *)
(* A template is external; what it is given stands for what it yields.     *)
(* The renderers write the formatted template texts back to the database,  *)
(* so an ID sees what the IDs before it left there.                        *)
(***************************************************************************)
EXTENDS IdParser, ProtocolDb, RegMap

CONSTANT Requests  \* invocations: [entity, ids, fids, files]

VARIABLES
    request,   \* the command line
    phase,     \* "args", "render" or "done"
    todo,      \* IDs still to be rendered
    texts,     \* the template texts of the database, by protocol
    rendered,  \* what was rendered: [id, body]
    status     \* exit status, or the exception that ended the program

genVars == <<request, phase, todo, texts, rendered, status>>

db == ReadDatabase(request.files)

----------------------------------------------------------------------------
(* Texts *)

Indented(text, level) == [text EXCEPT !.indent = @ + 4 * level]

(* [:-5] and [:rfind('\n')]: the last newline and the spaces put behind it *)
(* are cut off; if the text did not end with a newline, a part of it is.   *)
Cut(text) == [text EXCEPT !.newline = FALSE, !.whole = @ /\ text.newline]

Format(all, prots, names, Op(_)) ==
    [p \in DOMAIN all |-> [t \in DOMAIN all[p] |->
        IF p \in ToSet(prots) /\ t \in names THEN Op(all[p][t]) ELSE all[p][t]]]

Given(all, prots, names) == [p \in ToSet(prots) |-> Restrict(all[p], names \cap DOMAIN all[p])]

OnePort(prots) == Len(prots) = 1

----------------------------------------------------------------------------
(* Transport layer *)

(* The manager instances.  The nets they are connected with inside the     *)
(* layer are left out: their names hold the protocol, which is in an ID    *)
(* once for each side.                                                     *)
ReadPort(p) ==
    LET passive == db[p].passive_req
    IN  [request |-> <<p, "read", "req", IF passive THEN "i" ELSE "o">>,
         response |-> <<p, "read", "rsp", IF passive THEN "o" ELSE "i">>]

WritePort(p) == [request |-> Req(p, "write"), response |-> Rsp(p, "write")]

TransportTexts(id, all) ==
    LET read == Format(all, Ports(id).ar, {"read_template"}, LAMBDA t : Cut(Indented(t, 1)))
    IN  Format(read, Ports(id).aw, {"write_template"}, LAMBDA t : Cut(Indented(t, 1)))

TransportBody(id, all) ==
    [read  |-> [p \in ToSet(Ports(id).ar) |-> ReadPort(p)],
     write |-> [p \in ToSet(Ports(id).aw) |-> WritePort(p)],
     texts |-> <<Given(all, Ports(id).ar, {"read_template"}), Given(all, Ports(id).aw, {"write_template"})>>]

----------------------------------------------------------------------------
(* Legalizer *)

(* prot_key and eval_key *)
Supporting(prots, bursts) == {p \in ToSet(prots) : db[p].bursts = bursts}
ForceDecouple(prots) == {p \in ToSet(prots) : db[p].bursts = "not_supported" \/ db[p].force_decouple}

(* Mutant: what a side needs is formatted for all protocols of the ID. *)
LegalizerTextsOfUsed(id, all) ==
    LET level(prots) == IF OnePort(prots) THEN 2 ELSE 3
        read == Format(all, Ports(id).used, {"legalizer_read_meta_channel"},
                       LAMBDA t : Cut(Indented(t, level(Ports(id).ar))))
        write == Format(read, Ports(id).used, {"legalizer_write_meta_channel"},
                        LAMBDA t : Cut(Indented(t, level(Ports(id).aw))))
    IN  Format(write, Ports(id).aw, {"legalizer_write_data_path"}, LAMBDA t : Indented(t, level(Ports(id).aw)))

LegalizerTexts(id, all) ==
    LET level(prots) == IF OnePort(prots) THEN 2 ELSE 3
        read == Format(all, Ports(id).ar, {"legalizer_read_meta_channel"},
                       LAMBDA t : Cut(Indented(t, level(Ports(id).ar))))
        write == Format(read, Ports(id).aw, {"legalizer_write_meta_channel"},
                        LAMBDA t : Cut(Indented(t, level(Ports(id).aw))))
    IN  Format(write, Ports(id).aw, {"legalizer_write_data_path"}, LAMBDA t : Indented(t, level(Ports(id).aw)))

Bursting(prots) ==
    [page |-> Supporting(prots, "split_at_page_boundary") # {},
     pow2 |-> Supporting(prots, "only_pow2") # {},
     none |-> \A p \in ToSet(prots) : p \in Supporting(prots, "not_supported"),
     single |-> Supporting(prots, "not_supported"),
     decoupled |-> ForceDecouple(prots)]

LegalizerBody(id, all) ==
    [read |-> Bursting(Ports(id).ar), write |-> Bursting(Ports(id).aw),
     texts |-> <<Given(all, Ports(id).ar, {"legalizer_read_meta_channel"}),
                 Given(all, Ports(id).aw, {"legalizer_write_meta_channel", "legalizer_write_data_path"})>>]

----------------------------------------------------------------------------
(* Backend, wave, synthesis wrapper, testbench, tracer *)

BackendBody(id, all) ==
    [single |-> Supporting(Ports(id).aw, "not_supported"),
     combined_aw_and_w |-> \E p \in ToSet(Ports(id).aw) : db[p].combined_aw_and_w,
     texts |-> <<>>]

WaveBody(id, all) == [ports |-> Ports(id), texts |-> <<>>]

SynthTexts(id, all) ==
    LET read == Format(all, Ports(id).ar, {"synth_wrapper_ports_read", "synth_wrapper_assign_read"}, LAMBDA t : Indented(t, 1))
    IN  Format(read, Ports(id).aw, {"synth_wrapper_ports_write", "synth_wrapper_assign_write"}, LAMBDA t : Indented(t, 1))

SynthBody(id, all) ==
    [texts |-> <<Given(all, Ports(id).ar, {"synth_wrapper_ports_read", "synth_wrapper_assign_read"}),
                 Given(all, Ports(id).aw, {"synth_wrapper_ports_write", "synth_wrapper_assign_write"})>>]

Bridged(prots) == SelectSeq(prots, LAMBDA p : p # "axi")

TestbenchTexts(id, all) ==
    Format(all, Bridged(Ports(id).used), {"bridge_template", "read_bridge_template", "write_bridge_template"},
           LAMBDA t : Indented(t, 1))

(* A bridge of its own for a direction goes before the common one. *)
Bridge(p, own) == IF own \in db[p].texts THEN own ELSE "bridge_template"

TestbenchBody(id, all) ==
    [defines |-> Ports(id).used, unused |-> DOMAIN db \ ToSet(Ports(id).used),
     texts |-> <<[p \in ToSet(Bridged(Ports(id).ar)) |-> Restrict(all[p], {Bridge(p, "read_bridge_template")})],
                 [p \in ToSet(Bridged(Ports(id).aw)) |-> Restrict(all[p], {Bridge(p, "write_bridge_template")})]>>]

(* Mutant: the write signals of all ports are listed for each of them. *)
SignalsBothSides(id) ==
    UNION {{[protocol |-> p, signal |-> s] : s \in db[p].trace_signals} : p \in ToSet(Ports(id).used)}

(* The signals in a line of the trace; the key of one is its protocol and path. *)
Signals(id) ==
    UNION {{[protocol |-> p, signal |-> s] : s \in {s \in db[p].trace_signals : s.side = "read"}} : p \in ToSet(Ports(id).ar)}
    \cup UNION {{[protocol |-> p, signal |-> s] : s \in {s \in db[p].trace_signals : s.side = "write"}} : p \in ToSet(Ports(id).aw)}

TracerBody(id, all) == [signals |-> Signals(id), texts |-> <<>>]

----------------------------------------------------------------------------
(* The invocation *)

(* Mutant: what was rendered is printed at once. *)
FailAfterPrinting(how) ==
    /\ status' = how /\ phase' = "done" /\ texts' = <<>>
    /\ UNCHANGED <<request, todo, rendered>>

(* An exception or sys.exit: nothing has been printed. *)
Fail(how) ==
    /\ status' = how /\ phase' = "done" /\ rendered' = <<>> /\ texts' = <<>>
    /\ UNCHANGED <<request, todo>>

ForRegisters == request.entity \in {"reg_hjson", "reg_top"}

(* Front end IDs take the place of the others for the register files; the  *)
(* others are checked all the same.                                        *)
Prepare ==
    /\ phase = "args"
    /\ LET parsed == PrepareIds(request.ids)
       IN  \/ parsed.status # "0" /\ Fail(parsed.status)
           \/ /\ parsed.status = "0"
              /\ todo' = (IF ForRegisters THEN PrepareFids(request.fids) ELSE parsed.ids)
              /\ texts' = Texts(db)
              /\ phase' = "render"
              /\ UNCHANGED <<request, rendered, status>>

(* One round of a renderer's loop: a protocol the database does not know   *)
(* ends the program.                                                       *)
Render(entity, Prepared(_, _), Body(_, _)) ==
    /\ phase = "render" /\ request.entity = entity /\ todo # <<>>
    /\ LET id == Head(todo)
       IN  \/ ~(ToSet(Ports(id).used) \subseteq DOMAIN db) /\ Fail("KeyError")
           \/ /\ ToSet(Ports(id).used) \subseteq DOMAIN db
              /\ texts' = Prepared(id, texts)
              /\ rendered' = Append(rendered, [id |-> id, body |-> Body(id, texts')])
              /\ todo' = (IF entity = "transport" THEN <<>> ELSE Tail(todo))  \* it returns in its loop
              /\ UNCHANGED <<request, phase, status>>

Unchanged(id, all) == all

RenderTransport == Render("transport", TransportTexts, TransportBody)
RenderLegalizer == Render("legalizer", LegalizerTexts, LegalizerBody)
RenderBackend == Render("backend", Unchanged, BackendBody)
RenderWave == Render("vsim_wave", Unchanged, WaveBody)
RenderSynth == Render("synth_wrapper", SynthTexts, SynthBody)
RenderTestbench == Render("testbench", TestbenchTexts, TestbenchBody)
RenderTracer == Render("tracer", Unchanged, TracerBody)

(* A front end ID is the pair of width and dimensions. *)
RenderRegisters(entity, outcome, body) ==
    /\ phase = "render" /\ request.entity = entity /\ todo # <<>>
    /\ \/ outcome # "0" /\ Fail(outcome)
       \/ /\ outcome = "0"
          /\ rendered' = Append(rendered, [id |-> Head(todo), body |-> body])
          /\ todo' = Tail(todo)
          /\ UNCHANGED <<request, phase, texts, status>>

RenderRegHjson ==
    RenderRegisters("reg_hjson", RegStatus(Head(todo)[1], Head(todo)[2]),
                    [fields |-> Fields(Head(todo)[2]), texts |-> <<>>])
RenderRegTop ==
    RenderRegisters("reg_top", "0", [registers |-> UsedRegs(Head(todo)[1], Head(todo)[2]), texts |-> <<>>])

Finish ==
    /\ phase = "render" /\ todo = <<>>
    /\ status' = "0" /\ phase' = "done" /\ texts' = <<>>
    /\ UNCHANGED <<request, todo, rendered>>

GenInit ==
    /\ request \in Requests
    /\ phase = "args" /\ todo = <<>> /\ texts = <<>> /\ rendered = <<>> /\ status = "running"

GenNext ==
    \/ Prepare \/ Finish
    \/ RenderTransport \/ RenderLegalizer \/ RenderBackend \/ RenderWave \/ RenderSynth
    \/ RenderTestbench \/ RenderTracer \/ RenderRegHjson \/ RenderRegTop
=============================================================================
