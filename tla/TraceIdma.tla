----------------------------- MODULE TraceIdma ------------------------------
(***************************************************************************)
(* From the generated tracer to a report: the generator, a simulation that *)
(* logs with one of the tracers it rendered (TRACER_BODY in                *)
(* src/util/mario/tracer.py), and src/util/trace_idma.py, which reads the  *)
(* log and computes how much of the bus was used.                          *)
(***************************************************************************)
EXTENDS GenIdma

CONSTANTS
    StrobeWidth,  \* bytes of the data bus
    MaxCycles,    \* bound: cycles logged
    Lanes,        \* bound: the sets of lanes a write beat may strobe
    MaxActive,    \* bound: handshakes that are not quiet in a cycle
    Simulated     \* bound: the invocations whose tracers are simulated

ASSUME TraceAssumption ==
    /\ StrobeWidth \in Nat \ {0} /\ MaxCycles \in Nat /\ MaxActive \in Nat
    /\ Lanes \subseteq SUBSET (0..StrobeWidth-1)

VARIABLES
    traced,  \* ID of the backend simulated, <<>>: none yet
    log,     \* lines of the trace: the values of the signals by their key
    moved,   \* history: bytes that passed the ports: [read, write]
    report   \* what trace_idma says: "none", an outcome, or the utilization

traceVars == <<traced, log, moved, report>>
vars == <<request, phase, todo, texts, rendered, status, traced, log, moved, report>>

----------------------------------------------------------------------------
(* The simulation.  A port has the handshakes of its requests and of its   *)
(* responses; data is read with a response and written with a request.     *)
(* Either side of a handshake may be ready before the other is valid.      *)

(* The handshakes of the backend with this ID that are traced. *)
Handshaking(id) ==
    LET On(side, prots) ==
            UNION {{<<side, p, s.channel>> : s \in {s \in db[p].trace_signals : s.side = side}} : p \in ToSet(prots)}
    IN  On("read", Ports(id).ar) \cup On("write", Ports(id).aw)

Moving == [valid |-> TRUE, ready |-> TRUE]
Quiet == [valid |-> FALSE, ready |-> FALSE]

(* What the handshakes do in a cycle: some are not quiet. *)
Cycles(handshakes) ==
    UNION {[active -> [valid : BOOLEAN, ready : BOOLEAN] \ {Quiet}] :
              active \in UNION {kSubset(n, handshakes) : n \in 0..MaxActive}}

Moves(bus, handshake) == handshake \in DOMAIN bus /\ bus[handshake] = Moving

ReadBeats(bus) == {h \in DOMAIN bus : h[1] = "read" /\ h[3] = "rsp" /\ Moves(bus, h)}
WriteBeats(bus) == {h \in DOMAIN bus : h[1] = "write" /\ h[3] = "req" /\ Moves(bus, h)}

Strobe(lanes) == MapThenSumSet(LAMBDA lane : 2^lane, lanes)

Key(s) == <<s.protocol, s.signal.channel, s.signal.name>>

(* Outside a beat the strobe is of no meaning. *)
ValueOf(s, bus, lanes) ==
    LET h == <<s.signal.side, s.protocol, s.signal.channel>>
        handshake == IF h \in DOMAIN bus THEN bus[h] ELSE Quiet
    IN  CASE s.signal.name = "valid" -> IF handshake.valid THEN 1 ELSE 0
          [] s.signal.name = "ready" -> IF handshake.ready THEN 1 ELSE 0
          [] s.signal.name = "strobe" -> Strobe(IF h \in DOMAIN lanes THEN lanes[h] ELSE 0..StrobeWidth-1)
          [] OTHER -> 0

(* Of two signals with one key the one listed last, the write side's, stays. *)
Line(signals, bus, lanes) ==
    [k \in {Key(s) : s \in signals} |->
        LET same == {s \in signals : Key(s) = k}
            last == CHOOSE s \in same : \A other \in same : other.signal.side = "write" => s.signal.side = "write"
        IN  ValueOf(last, bus, lanes)]

Simulate ==
    /\ phase = "done" /\ request.entity = "tracer" /\ traced = <<>>
    /\ request \in Simulated
    /\ \E item \in ToSet(rendered) : traced' = item.id
    /\ UNCHANGED <<genVars, log, moved, report>>

SignalsTraced == (CHOOSE item \in ToSet(rendered) : item.id = traced).body.signals

(* One cycle in which the backend is active, and nothing passes in others. *)
Log ==
    /\ traced # <<>> /\ report = "none" /\ Len(log) < MaxCycles
    /\ \E bus \in Cycles(Handshaking(traced)) : \E lanes \in [WriteBeats(bus) -> Lanes] :
          /\ log' = Append(log, Line(SignalsTraced, bus, lanes))
          /\ moved' = [read  |-> moved.read + StrobeWidth * Cardinality(ReadBeats(bus)),
                       write |-> moved.write + MapThenSumSet(LAMBDA h : Cardinality(lanes[h]), WriteBeats(bus))]
    /\ UNCHANGED <<genVars, traced, report>>

----------------------------------------------------------------------------
(* trace_idma.py *)

(* The ones in the binary representation of a strobe. *)
StrbToBytes(strobe) ==
    LET ones[n \in 0..strobe] == IF n = 0 THEN 0 ELSE (n % 2) + ones[n \div 2]
    IN  ones[strobe]

(* Mutant: a write port that is ready counts, whether it has data or not.  *)
WriteContributionReady(line, p) ==
    IF line[<<p, "req", "ready">>] = 1 THEN StrbToBytes(line[<<p, "req", "strobe">>]) ELSE 0

ReadContribution(line, p) ==
    IF line[<<p, "rsp", "ready">>] = 1 /\ line[<<p, "rsp", "valid">>] = 1 THEN StrobeWidth ELSE 0
WriteContribution(line, p) ==
    IF line[<<p, "req", "ready">>] = 1 /\ line[<<p, "req", "valid">>] = 1
    THEN StrbToBytes(line[<<p, "req", "strobe">>]) ELSE 0

(* The strobe is looked up when both other signals are set, and only then. *)
StrobeMissing(line, p) ==
    /\ line[<<p, "req", "ready">>] = 1 /\ line[<<p, "req", "valid">>] = 1
    /\ <<p, "req", "strobe">> \notin DOMAIN line

Total(Contribution(_, _), prots) ==
    FoldLeft(LAMBDA sum, line : sum + MapThenSumSet(LAMBDA p : Contribution(line, p), ToSet(prots)), 0, log)

(* The two fractions are kept as numerators of the same denominator. *)
Analyse ==
    /\ traced # <<>> /\ report = "none"
    /\ report' = IF log = <<>> THEN "empty trace"
                 ELSE IF \E k \in DOMAIN log, p \in ToSet(Ports(traced).aw) : StrobeMissing(log[k], p) THEN "KeyError"
                 ELSE "utilization"
    /\ UNCHANGED <<genVars, traced, log, moved>>

Utilization ==
    [read |-> Total(ReadContribution, Ports(traced).ar), write |-> Total(WriteContribution, Ports(traced).aw),
     of |-> Len(log) * StrobeWidth]

Init ==
    /\ GenInit
    /\ traced = <<>> /\ log = <<>> /\ moved = [read |-> 0, write |-> 0] /\ report = "none"

Next ==
    \/ GenNext /\ UNCHANGED traceVars
    \/ Simulate \/ Log \/ Analyse

Spec == Init /\ [][Next]_vars

----------------------------------------------------------------------------
(* Properties of the generator *)

Parsed == status \in {"0", "KeyError", "exit 255", "ValueError"}

(* The checks of prepare_ids, one after the other, accept exactly the IDs  *)
(* of the grammar in the help text, and the ports of an accepted ID are    *)
(* those it lists, each once and in order, rw on both sides.               *)
ParserAcceptsGrammar ==
    phase = "done" =>
        /\ Parsed <=> \A id \in ToSet(request.ids) : WellFormed(id)
        /\ Parsed => \A id \in ToSet(request.ids) :
              /\ Ports(id).ar = SetToSortSeq(After(id, "r") \cup After(id, "rw"), AtMost)
              /\ Ports(id).aw = SetToSortSeq(After(id, "w") \cup After(id, "rw"), AtMost)

(* An invocation renders each ID it was given once, in the order in which *)
(* they are first mentioned, or it prints nothing and fails.  Of transport *)
(* layers it renders the first alone: the function returns in its loop     *)
(* (transport_layer.py:198), although its comment is "render for every is" *)
(* (:179) as in the other renderers.                                       *)
AllOrNothing ==
    LET asked == IF ForRegisters THEN FlattenSeq(request.fids) ELSE request.ids
        FirstMention(id) == Min({k \in DOMAIN asked : asked[k] = id})
        due == IF request.entity = "transport" THEN {asked[k] : k \in DOMAIN asked \cap {1}} ELSE ToSet(asked)
    IN  /\ phase = "done" /\ status = "0" =>
              /\ {rendered[k].id : k \in DOMAIN rendered} = due
              /\ \A i, j \in DOMAIN rendered :
                    i < j => FirstMention(rendered[i].id) < FirstMention(rendered[j].id)
        /\ phase = "done" /\ status # "0" => rendered = <<>>

(* A text is formatted ("Indent read meta channel", legalizer.py:42) and   *)
(* reaches its template whole, whatever was formatted before.  Only a text *)
(* of the legalizer whose protocol an ID before it has on the same side    *)
(* need not be: it is cut once more (legalizer.py:46,52).                  *)
TextsIntact ==
    \A k \in DOMAIN rendered : \A side \in 1..Len(rendered[k].body.texts) :
        LET texts_given == rendered[k].body.texts[side]
            On(i) == ToSet(IF side = 1 THEN Ports(rendered[i].id).ar ELSE Ports(rendered[i].id).aw)
        IN  \A p \in DOMAIN texts_given :
               (request.entity = "legalizer" => \A i \in 1..k-1 : p \notin On(i))
               => \A t \in DOMAIN texts_given[p] : texts_given[p][t].whole

(* "The tracer for the ... iDMA" (tracer.py:15): every signal the tracer   *)
(* takes from a backend is a port of the transport layer generated for the *)
(* same ID.  Those of AXI lite are named otherwise (idma_axi_lite.yml:8 and *)
(* :164-170) and left out.                                                 *)
TracedPortsExist ==
    request.entity = "tracer" => \A k \in DOMAIN rendered :
        LET transport == TransportBody(rendered[k].id, Texts(db))
            PortsOf(side) == UNION {{side[p].request, side[p].response} : p \in DOMAIN side}
        IN  \A s \in rendered[k].body.signals :
               s.protocol # "axil" => s.signal.port \in PortsOf(transport.read) \cup PortsOf(transport.write)

(* The register files rendered can be programmed: see MapSound.            *)
RegistersSound ==
    request.entity = "reg_hjson" => \A k \in DOMAIN rendered : MapSound(rendered[k].id[1], rendered[k].id[2])

(* What trace_idma reports is what passed the ports, with several ports on *)
(* a side, strobes of every shape and either side of a handshake waiting,  *)
(* unless two signals share a key.  It fails only for a backend that       *)
(* writes to INIT, whose traced signals have no strobe (trace_idma.py:69   *)
(* looks it up; idma_init.yml:180-188).                                    *)
UtilizationRight ==
    /\ report = "KeyError" => "init" \in ToSet(Ports(traced).aw)
    /\ /\ report = "utilization"
       /\ \A s, t \in SignalsTraced : Key(s) = Key(t) => s = t
       => /\ Utilization.read = moved.read /\ Utilization.write = moved.write
          /\ Utilization.of = Len(log) * StrobeWidth
=============================================================================
