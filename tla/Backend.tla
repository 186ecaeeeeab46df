------------------------------ MODULE Backend ------------------------------
(***************************************************************************)
(* The backend for AXI and AXI stream, without error handling              *)
(* (src/src/backend/idma_backend_rw_axi_rw_axis.sv): the legalizer, the    *)
(* queues behind it, the transport layer with its ports, its byte buffers  *)
(* and its shifters, and the responses.                                    *)
(*                                                                         *)
(* A step is one clock cycle of all of it.  A byte is the pair of the      *)
(* transfer it belongs to and its place in the transfer, so the model says *)
(* which byte arrives where and not which value it has.  Fields of requests *)
(* marked `ghost` are not in the hardware: they say what a burst is for.   *)
(***************************************************************************)
EXTENDS Queues

CONSTANTS
    OffsetWidth, BurstWidth, PageWidthCap, AddrSpace, Requests,  \* of the legalizer
    NumAxInFlight,    \* depth of the datapath request queues
    BufferDepth,      \* bytes a lane of the buffer holds
    MetaFifoDepth,    \* depth of the queue of last flags
    CombinedShifter,  \* shift once, in front of the buffer, or before and after it
    MaxTransfers      \* bound: transfers the front end issues

ASSUME BackendAssumption ==
    /\ NumAxInFlight \in Nat /\ NumAxInFlight > 1
    /\ BufferDepth \in Nat /\ BufferDepth > 1
    /\ MetaFifoDepth \in Nat \ {0}
    /\ CombinedShifter \in BOOLEAN
    /\ MaxTransfers \in Nat

VARIABLES
    r_tf, w_tf, opt_tf, job,   \* legalizer
    r_dp,         \* read datapath requests, oldest first
    ar_waits,     \* the fall-through register holds the AR of the newest read
    first_r,      \* next AXI read beat is the first of its burst
    r_beat,       \* memory: beats answered of the oldest read
    buffer,       \* bytes in each lane, oldest first
    w_dp,         \* write datapath requests, oldest first
    forked,       \* outputs of the write fork that took the oldest request
    aw,           \* protocols of the write meta requests not yet taken
    w_num_beats, w_cnt_valid,   \* beat counter of the AXI write port
    rsp_order,    \* protocols of the bursts whose response is due, oldest first
    rsp_full,     \* the response register holds a response
    w_last,       \* last flags of the bursts without a response
    mem,          \* memory: AWs and write bursts taken and not yet answered
    issued,       \* history: transfers accepted
    pending       \* history: transfers without a response and how much was written

legVars == <<r_tf, w_tf, opt_tf, job>>
readVars == <<r_dp, ar_waits, first_r, r_beat, buffer>>
writeVars == <<w_dp, forked, aw, w_num_beats, w_cnt_valid>>
rspVars == <<rsp_order, rsp_full, w_last>>
vars == <<legVars, readVars, writeVars, rspVars, mem, issued, pending>>

Leg == INSTANCE Legalizer

(* A bus word divides the address space: no beat wraps.                    *)
WordsFit == AddrSpace % (2^OffsetWidth) = 0

ASSUME LegalizerFits == Leg!LegalizerAssumption /\ Leg!PowersOfTwo /\ WordsFit

----------------------------------------------------------------------------
(* Byte lanes. *)

StrbWidth == 2^OffsetWidth
Lanes == 0..StrbWidth-1

FirstMask(offset) == {l \in Lanes : l >= offset}
LastMask(tailer) == {l \in Lanes : tailer = 0 \/ l < tailer}

(* Lane l of a bus shifted down by s is lane l + s of the bus. *)
Shifted(mask, s) == {l \in Lanes : (l + s) % StrbWidth \in mask}

(* Bytes are rotated to lane 0 on the way in and to the destination on the *)
(* way out, or at once.                                                    *)
ReadShift(src, dst) == (IF CombinedShifter THEN src - dst ELSE src) % StrbWidth
WriteShift(dst) == (IF CombinedShifter THEN 0 ELSE -dst) % StrbWidth

----------------------------------------------------------------------------
(* What the legalizer hands on.  The shifts were computed from the         *)
(* addresses of the transfer when it was taken in.                         *)

(* Room behind the legalizer: the request queues, the AR register, the AW  *)
(* queue and the queue of last flags.                                      *)
RReady == Len(r_dp) < NumAxInFlight /\ ~ar_waits
WReady == Len(w_dp) < NumAxInFlight /\ Len(aw) < 2 /\ Len(w_last) < MetaFifoDepth

REmits == Leg!RValid(RReady, WReady)
WEmits == Leg!WValid(RReady, WReady)

ReadRequest ==
    [proto  |-> opt_tf.src_protocol,
     offset |-> r_tf.addr % StrbWidth,
     tailer |-> (Leg!RNumBytes + r_tf.addr) % StrbWidth,
     shift  |-> ReadShift(job.src_addr, job.dst_addr),
     beats  |-> Leg!Beats(r_tf.addr, Leg!RNumBytes),           \* of the AR
     id     |-> issued, from |-> job.read]                     \* ghost

WriteRequest ==
    [proto  |-> opt_tf.dst_protocol,
     offset |-> w_tf.addr % StrbWidth,
     tailer |-> (Leg!WNumBytes + w_tf.addr) % StrbWidth,
     shift  |-> WriteShift(job.dst_addr),
     num_beats |-> IF opt_tf.dst_protocol = "AXI" THEN Leg!Beats(w_tf.addr, Leg!WNumBytes) - 1 ELSE 0,
     id     |-> issued, from |-> job.written, bytes |-> Leg!WNumBytes]   \* ghost

RPush == IF REmits THEN <<ReadRequest>> ELSE <<>>
WPush == IF WEmits THEN <<WriteRequest>> ELSE <<>>

----------------------------------------------------------------------------
(* Write side.  i holds what the environment drives in the cycle:          *)
(*   r, b       the memory offers read data, a write response              *)
(*   ar, aw, w  the memory takes an address, a write beat                  *)
(*   rsp        the requester takes a response                             *)
(*   zero       the requester offers a transfer of length zero             *)

WReq == Head(w_dp)

IsSingle == WReq.num_beats = 0

(* The buffer as the write port sees it. *)
OutLane(l) == (l + WReq.shift) % StrbWidth
OutValid == {l \in Lanes : buffer[OutLane(l)] # <<>>}

(* Mutant: the first beat of a longer burst is not masked.                 *)
FirstWSingle == IsSingle

FirstW == IsSingle \/ (~w_cnt_valid /\ OutValid # {} /\ FirstMask(WReq.offset) \subseteq OutValid)
LastW == IsSingle \/ (w_cnt_valid /\ w_num_beats = 1)

(* The bytes strobed in the next beat. *)
MaskOut ==
    (IF FirstW THEN FirstMask(WReq.offset) ELSE Lanes)
        \cap (IF LastW THEN LastMask(WReq.tailer) ELSE Lanes)

(* A beat is offered once its bytes are there, to an AXI stream only with  *)
(* the meta request at the head.                                           *)
ReadyToWrite ==
    /\ w_dp # <<>> /\ "port" \notin forked
    /\ OutValid # {} /\ MaskOut \subseteq OutValid
    /\ WReq.proto = "AXI_STREAM" => aw # <<>> /\ Head(aw) = "AXI_STREAM"

WriteHappens(i) == ReadyToWrite /\ i.w

Popped(i) == IF WriteHappens(i) THEN {OutLane(l) : l \in MaskOut} ELSE {}

(* The fork hands the oldest request once to the response queue, as soon   *)
(* as there is room, and once, with its last beat, to the write port.      *)
TakesRsp == w_dp # <<>> /\ "rsp" \notin forked /\ Len(rsp_order) < NumAxInFlight
TakesPort(i) == WriteHappens(i) /\ LastW

Forked(i) ==
    forked \cup (IF TakesRsp THEN {"rsp"} ELSE {}) \cup (IF TakesPort(i) THEN {"port"} ELSE {})

(* Mutant: the ready of the stream port is routed to every protocol.       *)
AwTakenByStream(i) == aw # <<>> /\ WriteHappens(i) /\ WReq.proto = "AXI_STREAM"

AwTaken(i) ==
    /\ aw # <<>>
    /\ IF Head(aw) = "AXI" THEN i.aw ELSE WriteHappens(i) /\ WReq.proto = "AXI_STREAM"

WriteSide(i) ==
    /\ w_dp' = Rest(w_dp, Forked(i) = {"rsp", "port"}) \o WPush
    /\ forked' = IF Forked(i) = {"rsp", "port"} THEN {} ELSE Forked(i)
    /\ aw' = Rest(aw, AwTaken(i)) \o (IF WEmits THEN <<opt_tf.dst_protocol>> ELSE <<>>)
    /\ IF WriteHappens(i) /\ ~IsSingle
       THEN /\ w_num_beats' = IF w_cnt_valid THEN w_num_beats - 1 ELSE WReq.num_beats
            /\ w_cnt_valid' = ~LastW
       ELSE UNCHANGED <<w_num_beats, w_cnt_valid>>

----------------------------------------------------------------------------
(* Responses.  That of an AXI stream burst is always valid. *)

BOffered(i) == i.b /\ mem.aws > 0 /\ mem.ws > 0

(* Mutant: a burst is answered without waiting for the memory.             *)
MuxValidAlways(i) == rsp_order # <<>>

MuxValid(i) == rsp_order # <<>> /\ (Head(rsp_order) = "AXI" => BOffered(i))
BTaken(i) == MuxValid(i) /\ ~rsp_full /\ Head(rsp_order) = "AXI"

(* A transfer of length zero is taken in only to be rejected.  Its error    *)
(* replaces the response offered in that cycle, which is blocked.          *)
Rejects(i) == i.zero /\ Leg!Ready(RReady, WReady)

(* Mutant: the response is not blocked. *)
RspReadyRejecting(i) == i.rsp

RspReady(i) == i.rsp /\ ~Rejects(i)

RspTaken(i) == rsp_order # <<>> /\ (rsp_full \/ MuxValid(i)) /\ RspReady(i)

(* Mutant: every burst is answered as if it were the last.                 *)
AnsweredAny(i) == RspTaken(i) /\ ~Rejects(i)

(* The requester sees the response of a transfer with its last burst.       *)
Answered(i) == RspTaken(i) /\ Head(w_last) /\ ~Rejects(i)

ResponseSide(i) ==
    /\ rsp_full' = ((rsp_full \/ MuxValid(i)) /\ ~RspTaken(i))
    /\ rsp_order' = Rest(rsp_order, RspTaken(i)) \o (IF TakesRsp THEN <<WReq.proto>> ELSE <<>>)
    /\ w_last' = Rest(w_last, RspTaken(i)) \o (IF WEmits THEN <<Leg!WDone>> ELSE <<>>)
    /\ mem' = [aws |-> mem.aws + One(AwTaken(i) /\ Head(aw) = "AXI") - One(BTaken(i)),
               ws  |-> mem.ws + One(TakesPort(i) /\ WReq.proto = "AXI") - One(BTaken(i))]

----------------------------------------------------------------------------
(* Read side. *)

RReq == Head(r_dp)

(* The memory ends an AXI burst with the beats its AR asked for; a stream  *)
(* burst is one beat.                                                      *)
LastBeat == RReq.proto = "AXI_STREAM" \/ r_beat = RReq.beats - 1
FirstBeat == RReq.proto = "AXI_STREAM" \/ first_r

MaskIn ==
    Shifted((IF FirstBeat THEN FirstMask(RReq.offset) ELSE Lanes)
                \cap (IF LastBeat THEN LastMask(RReq.tailer) ELSE Lanes), RReq.shift)

ByteIn(l) ==
    <<RReq.id, RReq.from + r_beat * StrbWidth - RReq.offset + ((l + RReq.shift) % StrbWidth)>>

(* A full lane takes a byte in the cycle in which it loses one.            *)
LaneReady(l, i) == Len(buffer[l]) < BufferDepth \/ l \in Popped(i)

(* The memory answers the oldest read, if its AR is out, when the response *)
(* channel and all lanes the beat fills take it.                           *)
ReadHappens(i) ==
    /\ r_dp # <<>> /\ i.r /\ RspReady(i)
    /\ Len(r_dp) > One(ar_waits)
    /\ \A l \in MaskIn : LaneReady(l, i)

ReadSide(i) ==
    LET beat == ReadHappens(i)
        done == beat /\ LastBeat
    IN  /\ r_dp' = Rest(r_dp, done) \o RPush
        /\ ar_waits' = /\ ar_waits \/ REmits
                       /\ ~i.ar
                       /\ (r_dp \o RPush)[Len(r_dp \o RPush)].proto = "AXI"
        /\ first_r' = IF beat /\ RReq.proto = "AXI" THEN LastBeat ELSE first_r
        /\ r_beat' = IF done THEN 0 ELSE r_beat + One(beat)
        /\ buffer' = [l \in Lanes |->
                         Rest(buffer[l], l \in Popped(i))
                             \o (IF beat /\ l \in MaskIn THEN <<ByteIn(l)>> ELSE <<>>)]

----------------------------------------------------------------------------
(* One clock cycle. *)

(* The history after the response and the writes of the cycle. *)
Progress(i) ==
    LET left == Rest(pending, Answered(i))
    IN  [k \in DOMAIN left |->
            IF WriteHappens(i) /\ left[k].id = WReq.id
            THEN [left[k] EXCEPT !.copied = @ + Cardinality(MaskOut)]
            ELSE left[k]]

Accept(i, req) ==
    /\ RReady /\ WReady /\ ~i.zero
    /\ issued < MaxTransfers
    /\ Leg!Refill(req)
    /\ issued' = issued + 1
    /\ pending' = Append(Progress(i), [id |-> issued + 1, length |-> req.length, copied |-> 0])

Proceed(i) ==
    /\ Leg!Advance(RReady, WReady)
    /\ pending' = Progress(i)
    /\ UNCHANGED issued

Cycle(i) ==
    /\ ReadSide(i)
    /\ WriteSide(i)
    /\ ResponseSide(i)
    /\ Proceed(i) \/ \E req \in Requests : Accept(i, req)

Init ==
    /\ Leg!Init
    /\ r_dp = <<>> /\ ar_waits = FALSE /\ first_r = TRUE /\ r_beat = 0
    /\ buffer = [l \in Lanes |-> <<>>]
    /\ w_dp = <<>> /\ forked = {} /\ aw = <<>>
    /\ w_num_beats = 0 /\ w_cnt_valid = FALSE
    /\ rsp_order = <<>> /\ rsp_full = FALSE /\ w_last = <<>>
    /\ mem = [aws |-> 0, ws |-> 0]
    /\ issued = 0 /\ pending = <<>>

(* A signal the backend does not look at in this cycle is kept low. *)
Choice(seen) == IF seen THEN BOOLEAN ELSE {FALSE}

Inputs ==
    [r : Choice(Len(r_dp) > One(ar_waits)), ar : Choice(ar_waits \/ REmits),
     w : Choice(ReadyToWrite), aw : Choice(aw # <<>>), b : Choice(mem.aws > 0 /\ mem.ws > 0),
     rsp : BOOLEAN, zero : Choice(Leg!Ready(RReady, WReady))]

Next == \E i \in Inputs : Cycle(i)

(* Each channel is served again and again while there is something to      *)
(* serve, not all at once; the requester does not offer transfers of       *)
(* length zero in every cycle in which it takes responses.                 *)
Served(channel) == \E i \in Inputs : i[channel] /\ ~i.zero /\ Cycle(i)

Fairness == \A channel \in {"r", "ar", "w", "aw", "b", "rsp"} : WF_vars(Served(channel))

Spec == Init /\ [][Next]_vars
FairSpec == Spec /\ Fairness

----------------------------------------------------------------------------
(* Properties *)

Bytes == (1..MaxTransfers) \X Nat

(* Every queue respects its depth and every register its type. *)
TypeOK ==
    /\ Leg!TypeOK
    /\ Len(r_dp) <= NumAxInFlight /\ Len(w_dp) <= NumAxInFlight
    /\ Len(rsp_order) <= NumAxInFlight /\ Len(aw) <= 2 /\ Len(w_last) <= MetaFifoDepth
    /\ \A l \in Lanes : buffer[l] \in Seq(Bytes) /\ Len(buffer[l]) <= BufferDepth
    /\ forked \subseteq {"rsp", "port"} /\ {ar_waits, first_r, w_cnt_valid, rsp_full} \subseteq BOOLEAN
    /\ mem \in [aws : Nat, ws : Nat] /\ w_num_beats \in Nat /\ r_beat \in Nat

(* Every write beat offered strobes exactly the lanes of its burst and      *)
(* carries there the bytes of the transfer that belong at those addresses,  *)
(* however source and destination are misaligned and the bursts are cut.    *)
BeatsWritten == IF w_cnt_valid THEN WReq.num_beats + 1 - w_num_beats ELSE 0

Index(l) == BeatsWritten * StrbWidth + l - WReq.offset

BeatRight ==
    ReadyToWrite =>
        /\ MaskOut = {l \in Lanes : Index(l) \in 0..WReq.bytes - 1}
        /\ \A l \in MaskOut : Head(buffer[OutLane(l)]) = <<WReq.id, WReq.from + Index(l)>>

(* The last flags queued are exactly those of the transfers without a      *)
(* response whose last burst left the legalizer: no response is lost and   *)
(* none is given twice.                                                    *)
LastFlagPerTransfer ==
    Occurrences(w_last, TRUE) + One(w_tf.valid) = Len(pending)

(* When every transfer is answered nothing of any is left: no byte in a    *)
(* lane, no request, no response and no beat count that a later transfer   *)
(* would meet.                                                             *)
CleanWhenIdle ==
    pending = <<>> =>
        /\ r_dp = <<>> /\ w_dp = <<>> /\ aw = <<>> /\ forked = {}
        /\ rsp_order = <<>> /\ w_last = <<>> /\ ~rsp_full
        /\ \A l \in Lanes : buffer[l] = <<>>
        /\ first_r /\ ~w_cnt_valid /\ mem = [aws |-> 0, ws |-> 0]

(* "The localparam MetaFifoDepth holds the maximum number of transfers     *)
(* that can be in-flight under any circumstances"                          *)
(* (idma_backend_rw_axi_rw_axis.sv:125).  The queue of last flags holds    *)
(* that many, and the legalizer one more.                                  *)
InFlightFits == Len(pending) <= MetaFifoDepth

(* The backend copies the transfers in order and answers each one only     *)
(* when all of its bytes are written.                                      *)
Abstract ==
    INSTANCE InOrderCopy WITH
        Lengths <- {req.length : req \in Requests},
        MaxBeat <- StrbWidth,
        pending <- [k \in DOMAIN pending |-> [length |-> pending[k].length, copied |-> pending[k].copied]]

ImplementsInOrderCopy == Abstract!Spec

(* Every transfer taken in is answered.                                    *)
AllAnswered == (pending # <<>>) ~> (pending = <<>>)

============================================================================
