----------------------------- MODULE Legalizer -----------------------------
(***************************************************************************)
(* The transfer legalizer of the iDMA backend                              *)
(* (src/src/backend/idma_legalizer_rw_axi_rw_axis.sv).  It holds one 1D    *)
(* transfer as two mutable halves, a read and a write one, and cuts each   *)
(* into bursts that the bus protocol allows.  An action is one clock       *)
(* cycle; r_ready_i and w_ready_i, the requester and the error handler's   *)
(* kill are the environment and are chosen freely.                         *)
(*                                                                         *)
(* Addresses, lengths and the options that decide how a transfer is cut    *)
(* are kept; the AXI attributes, ids and user bits that are copied through *)
(* are not.                                                                *)
(***************************************************************************)
EXTENDS Integers

CONSTANTS
    OffsetWidth,   \* log2 of the bus width in bytes
    BurstWidth,    \* log2 of the beats of the longest AXI burst (8 in the code)
    PageWidthCap,  \* log2 of the largest page (12 in the code, 4 KiB)
    AddrSpace,     \* number of addresses, 2^AddrWidth
    Requests       \* the 1D transfers the front end may issue

StrbWidth == 2^OffsetWidth

Protocols == {"AXI", "AXI_STREAM"}

(* The options of a request that steer the legalizer. *)
OptType ==
    [src_protocol : Protocols, dst_protocol : Protocols, decouple_rw : BOOLEAN,
     src_reduce_len : BOOLEAN, src_max_llen : 0..BurstWidth-1,
     dst_reduce_len : BOOLEAN, dst_max_llen : 0..BurstWidth-1]

(* RejectZeroTransfers keeps requests of length zero away from here. *)
RequestType ==
    [length : Nat \ {0}, src_addr : 0..AddrSpace-1, dst_addr : 0..AddrSpace-1, opt : OptType]

ASSUME LegalizerAssumption ==
    /\ OffsetWidth \in Nat
    /\ BurstWidth \in Nat \ {0}
    /\ PageWidthCap \in Nat
    /\ OffsetWidth <= PageWidthCap
    /\ AddrSpace \in Nat \ {0}
    /\ Requests \subseteq RequestType

(* The arithmetic facts about powers of two the proofs use. *)
ASSUME PowersOfTwo ==
    \A j, k \in 0..PageWidthCap + BurstWidth : 2^k > 0 /\ 2^(j + k) = (2^j) * (2^k)

VARIABLES
    r_tf,     \* read half of the active transfer: length left, next address, valid
    w_tf,     \* write half
    opt_tf,   \* options of the active transfer
    job       \* history: the transfer last taken in and what was emitted for it

vars == <<r_tf, w_tf, opt_tf, job>>

----------------------------------------------------------------------------
(* Page and burst boundaries. *)

Smaller(a, b) == IF a < b THEN a ELSE b

(* Mutant: the 4 KiB limit is forgotten. *)
PageWidthUncapped(not_bursting, reduce_len, max_llen) ==
    IF not_bursting THEN OffsetWidth
    ELSE OffsetWidth + (IF reduce_len THEN max_llen ELSE BurstWidth)

(* log2 of the page a burst may not cross: one beat without bursts, else   *)
(* the user's reduced length or the longest burst, capped at 4 KiB.        *)
PageWidth(not_bursting, reduce_len, max_llen) ==
    IF not_bursting
    THEN OffsetWidth
    ELSE Smaller(OffsetWidth + (IF reduce_len THEN max_llen ELSE BurstWidth), PageWidthCap)

(* Mutant: an aligned address has no byte left before the boundary. *)
NumBytesToPbAligned(addr, page_width) == ((2^page_width) - (addr % (2^page_width))) % (2^page_width)

NumBytesToPb(addr, page_width) == (2^page_width) - (addr % (2^page_width))

RPageWidth ==
    PageWidth(opt_tf.src_protocol = "AXI_STREAM", opt_tf.src_reduce_len, opt_tf.src_max_llen)

WPageWidth ==
    PageWidth(opt_tf.dst_protocol = "AXI_STREAM", opt_tf.dst_reduce_len, opt_tf.dst_max_llen)

(* Read and write bursts are cut at the same bytes. *)
CoupledOpt(opt) == ~opt.decouple_rw /\ "AXI_STREAM" \notin {opt.src_protocol, opt.dst_protocol}

Coupled == CoupledOpt(opt_tf)

RNumBytesToPb == NumBytesToPb(r_tf.addr, RPageWidth)
WNumBytesToPb == NumBytesToPb(w_tf.addr, WPageWidth)

NumBytesPossible(own) == IF Coupled THEN Smaller(RNumBytesToPb, WNumBytesToPb) ELSE own
RNumBytesPossible == NumBytesPossible(RNumBytesToPb)
WNumBytesPossible == NumBytesPossible(WNumBytesToPb)

----------------------------------------------------------------------------
(* One burst of a half. *)

HalfDone(tf, possible) == tf.length <= possible

(* Mutant: the last burst is not shortened to what is left. *)
NumBytesUncut(tf, possible) == possible

NumBytes(tf, possible) == Smaller(tf.length, possible)

(* Mutant: the address is not advanced.                                    *)
NextHalfStaleAddr(tf, possible) ==
    IF HalfDone(tf, possible) THEN [tf EXCEPT !.valid = FALSE]
    ELSE [tf EXCEPT !.length = @ - possible]

(* What the half becomes once its burst is emitted. *)
NextHalf(tf, possible) ==
    IF HalfDone(tf, possible)
    THEN [tf EXCEPT !.valid = FALSE]
    ELSE [length |-> tf.length - possible,
          addr   |-> (tf.addr + possible) % AddrSpace,
          valid  |-> tf.valid]

RDone == HalfDone(r_tf, RNumBytesPossible)
WDone == HalfDone(w_tf, WNumBytesPossible)
RNumBytes == NumBytes(r_tf, RNumBytesPossible)
WNumBytes == NumBytes(w_tf, WNumBytesPossible)

(* Beats of the AXI burst that carries n bytes from addr. *)
Beats(addr, n) == ((n + (addr % StrbWidth) - 1) \div StrbWidth) + 1

----------------------------------------------------------------------------
(* Flow control of a cycle in which the legalizer is not flushed. *)

(* Mutant: a side of a coupled transfer moves on its own. *)
EnableAlone(r_ready, w_ready) == w_ready

REnable(r_ready, w_ready) == IF Coupled THEN r_ready /\ w_ready ELSE r_ready
WEnable(r_ready, w_ready) == IF Coupled THEN r_ready /\ w_ready ELSE w_ready

RValid(r_ready, w_ready) == r_tf.valid /\ REnable(r_ready, w_ready)
WValid(r_ready, w_ready) == w_tf.valid /\ WEnable(r_ready, w_ready)

(* The history after the bursts of this cycle. *)
Emitted(r_ready, w_ready) ==
    LET r == RValid(r_ready, w_ready)
        w == WValid(r_ready, w_ready)
    IN  [job EXCEPT !.read    = IF r THEN @ + RNumBytes ELSE @,
                    !.written = IF w THEN @ + WNumBytes ELSE @,
                    !.lasts   = IF w /\ WDone THEN @ + 1 ELSE @]

NoTransfer == [length |-> 0, addr |-> 0, valid |-> FALSE]

NoOpt ==
    [src_protocol |-> "AXI", dst_protocol |-> "AXI", decouple_rw |-> FALSE,
     src_reduce_len |-> FALSE, src_max_llen |-> 0,
     dst_reduce_len |-> FALSE, dst_max_llen |-> 0]

NoJob == [length |-> 0, src_addr |-> 0, dst_addr |-> 0, read |-> 0, written |-> 0,
          lasts |-> 0, killed |-> TRUE]

Init ==
    /\ r_tf = NoTransfer
    /\ w_tf = NoTransfer
    /\ opt_tf = NoOpt
    /\ job = NoJob

(* A cycle in which no new transfer is taken in: the halves that may move do. *)
Advance(r_ready, w_ready) ==
    /\ r_tf' = IF REnable(r_ready, w_ready) THEN NextHalf(r_tf, RNumBytesPossible) ELSE r_tf
    /\ w_tf' = IF WEnable(r_ready, w_ready) THEN NextHalf(w_tf, WNumBytesPossible) ELSE w_tf
    /\ job' = Emitted(r_ready, w_ready)
    /\ UNCHANGED opt_tf

(* Mutant: a transfer is taken in once the read half is finished. *)
ReadyOnRead(r_ready, w_ready) == RDone /\ r_ready /\ w_ready

(* ready_o: both halves finish (or have finished) and both sides are ready. *)
Ready(r_ready, w_ready) == RDone /\ WDone /\ r_ready /\ w_ready

Load(req) ==
    /\ r_tf' = [length |-> req.length, addr |-> req.src_addr, valid |-> TRUE]
    /\ w_tf' = [length |-> req.length, addr |-> req.dst_addr, valid |-> TRUE]
    /\ opt_tf' = req.opt
    /\ job' = [length |-> req.length, src_addr |-> req.src_addr, dst_addr |-> req.dst_addr,
               read |-> 0, written |-> 0, lasts |-> 0, killed |-> FALSE]

(* A new transfer replaces the one whose last bursts leave in this cycle. *)
Refill(req) == Ready(TRUE, TRUE) /\ Load(req)

(* kill_i, which the error handler raises only together with flush_i. *)
Kill ==
    /\ r_tf' = NoTransfer
    /\ w_tf' = NoTransfer
    /\ job' = [job EXCEPT !.killed = TRUE]
    /\ UNCHANGED opt_tf

Next ==
    \/ \E r_ready, w_ready \in BOOLEAN : Advance(r_ready, w_ready)
    \/ \E req \in Requests : Refill(req)
    \/ Kill

(* Both sides are queues that the datapath empties on its own, and a flush *)
(* ends, so cycles in which both are ready keep coming.                    *)
Fairness == WF_vars(Advance(TRUE, TRUE))

Spec == Init /\ [][Next]_vars
FairSpec == Spec /\ Fairness

----------------------------------------------------------------------------
(* Properties *)

HalfType == [length : Nat, addr : 0..AddrSpace-1, valid : BOOLEAN]

JobType ==
    [length : Nat, src_addr : 0..AddrSpace-1, dst_addr : 0..AddrSpace-1,
     read : Nat, written : Nat, lasts : Nat, killed : BOOLEAN]

(* Every register keeps a value its type allows. *)
TypeOK ==
    /\ r_tf \in HalfType
    /\ w_tf \in HalfType
    /\ opt_tf \in OptType
    /\ job \in JobType

(* The bursts emitted for a half and what is left of it make up exactly    *)
(* the transfer: no byte is emitted twice or skipped, however the two      *)
(* sides stall, and a half only goes idle once it emitted all of it.       *)
ReadTiles ==
    ~job.killed => job.read + (IF r_tf.valid THEN r_tf.length ELSE 0) = job.length

WriteTiles ==
    ~job.killed => job.written + (IF w_tf.valid THEN w_tf.length ELSE 0) = job.length

BurstsTile == ReadTiles /\ WriteTiles

(* The bursts are contiguous: the next one starts where the transfer is.   *)
BurstsContiguous ==
    /\ ~job.killed /\ r_tf.valid => r_tf.addr = (job.src_addr + job.read) % AddrSpace
    /\ ~job.killed /\ w_tf.valid => w_tf.addr = (job.dst_addr + job.written) % AddrSpace

(* In coupled mode the read and the write side never drift apart: this is  *)
(* what bounds the bytes the dataflow element has to hold.                 *)
CoupledLockstep == Coupled => job.read = job.written /\ r_tf.valid = w_tf.valid

(* Exactly one write burst of a transfer carries `last`, and it is the one *)
(* that completes it: the backend turns that flag into the response.       *)
OneLast == ~job.killed => job.lasts = (IF w_tf.valid THEN 0 ELSE 1)

(* Nothing of a transfer is lost when the next one is loaded over it: with *)
(* the bursts of the loading cycle it was emitted completely.              *)
Replaced ==
    \/ job'.read < job.read \/ job'.written < job.written
    \/ <<job'.length, job'.src_addr, job'.dst_addr>> # <<job.length, job.src_addr, job.dst_addr>>

RefillAfterAll ==
    [][Replaced /\ ~job.killed =>
           LET e == Emitted(TRUE, TRUE)
           IN  e.read = e.length /\ e.written = e.length /\ e.lasts = 1]_vars

(* Every burst that leaves is legal on both buses: not empty, at most      *)
(* 2^BurstWidth beats, within one 4 KiB page and within the reduced page   *)
(* its side asked for.                                                     *)
WithinPage(addr, n, width) == addr \div (2^width) = (addr + n - 1) \div (2^width)

LegalBurst(addr, n, width) ==
    /\ n > 0
    /\ Beats(addr, n) <= 2^BurstWidth
    /\ WithinPage(addr, n, PageWidthCap)
    /\ WithinPage(addr, n, width)

BurstsLegal ==
    /\ r_tf.valid => LegalBurst(r_tf.addr, RNumBytes, RPageWidth)
    /\ w_tf.valid => LegalBurst(w_tf.addr, WNumBytes, WPageWidth)

(* A transfer taken in is emitted: the legalizer always becomes able to    *)
(* accept the next one.                                                    *)
TransferFinishes == (~job.killed /\ w_tf.valid) ~> (job.killed \/ (RDone /\ WDone))

============================================================================
