--------------------------- MODULE ErrorHandler ----------------------------
(***************************************************************************)
(* The error handler of the AXI backend                                    *)
(* (src/src/backend/idma_error_handler.sv) with the part of the backend it *)
(* steers: the legalizer that emits bursts, the FIFO of `last` flags and   *)
(* the read and write machines (src/src/backend/tpl/idma_backend.sv.tpl).  *)
(*                                                                         *)
(* A step is one clock cycle; everything that happens in it happens at     *)
(* once.  A 1D transfer is the number of burst pairs it is cut into.       *)
(* Payloads and burst addresses are left out: the two address FIFOs move   *)
(* with the reads and writes below and only fill in a field of the report. *)
(***************************************************************************)
EXTENDS Queues

CONSTANTS
    NumAxInFlight,  \* depth of the read and of the write request FIFO
    MetaFifoDepth,  \* depth of the FIFO of last flags
    CounterWidth,   \* width of num_outst, $clog2(MetaFifoDepth)
    Profiles        \* the front ends and memories to consider, see ProfileType

(* What a front end decides on errors, the numbers of bursts its transfers *)
(* may have, where the memory may answer with an error, and the bounds:    *)
(* transfers issued, errors of the memory, and cycles in which an error is *)
(* reported and the front end is not ready for it.                         *)
ProfileType ==
    [answers : SUBSET {"CONTINUE", "ABORT"}, bursts : SUBSET (Nat \ {0}),
     places : SUBSET {"read", "write"}, transfers : Nat, faults : Nat, misses : Nat]

ASSUME ErrorHandlerAssumption ==
    /\ NumAxInFlight \in Nat \ {0}
    /\ MetaFifoDepth \in Nat \ {0}
    /\ CounterWidth \in Nat \ {0}
    /\ 2^(CounterWidth - 1) < MetaFifoDepth /\ MetaFifoDepth <= 2^CounterWidth
    /\ Profiles \subseteq ProfileType

(* eh_i while eh_valid_i is low: the drivers reset it to zero. *)
IdleAnswer == "CONTINUE"

CounterLimit == 2^CounterWidth

VARIABLES
    profile,    \* the front end and memory of this behaviour, never changes
    state,      \* state_q of the FSM
    num_outst,  \* num_outst_q: 1D transfers in flight
    leg,        \* bursts the legalizer still has to emit for its transfer, 0: idle
    w_last,     \* last flags of the bursts whose write response is due, oldest first
    reads,      \* bursts whose read data is not complete
    writes,     \* bursts whose write data is not complete
    r_bus,      \* what the read channel presents to the handler
    b_bus,      \* what the write response channel presents
    eh,         \* answer the front end offers, "none": eh_valid_i low
    unanswered, \* error responses the front end has seen and not answered
    owed,       \* history: transfers accepted less completions delivered
    missed,     \* history: error responses that met a front end that was not ready
    todo,       \* transfers left to issue
    faults      \* errors left

vars == <<profile, state, num_outst, leg, w_last, reads, writes, r_bus, b_bus, eh, unanswered, owed,
          missed, todo, faults>>

----------------------------------------------------------------------------
(* Combinational outputs of the FSM. *)

RError == state = "IDLE" /\ r_bus \in {"err", "last_err"}
WError == state = "IDLE" /\ b_bus = "err"
(* Mutant: every burst of a transfer completes it. *)
WCompleteEach == state = "IDLE" /\ b_bus = "ok"

WComplete == state = "IDLE" /\ b_bus = "ok" /\ Head(w_last)

(* Mutant: write errors are not reported. *)
RspErrorOfReads == RError

RspError == RError \/ WError
RspValid == RspError \/ WComplete \/ state = "EMIT_EXTRA_RSP"

(* Mutant: the read responses of an aborted transfer are not drained. *)
RDpReadyIdle(rsp_ready) == state = "IDLE" /\ rsp_ready /\ ~WError

(* A write error blocks the read responses and a read error the write ones. *)
RDpReady(rsp_ready) == (state = "IDLE" /\ rsp_ready /\ ~WError) \/ state = "LEG_FLUSH"
WDpReady(rsp_ready) == (state = "IDLE" /\ rsp_ready /\ ~RError) \/ state = "LEG_FLUSH"

Flush == state = "LEG_FLUSH"

(* dp_busy_i: a machine has a request or the buffer holds data.  A burst   *)
(* whose last data beat is out is not counted, its response may be due.    *)
DpBusy == reads > 0 \/ writes > 0

Kill == Flush /\ ~DpBusy

(* WAIT looks at eh_valid_i; WAIT_LAST_W takes whatever is on eh_i.        *)
Answered(answer) ==
    \/ state = "WAIT" /\ eh = answer
    \/ state = "WAIT_LAST_W" /\ answer = (IF eh = "none" THEN IdleAnswer ELSE eh)

(* An abort with several transfers in flight only continues, one with the  *)
(* counter at zero trips an assertion and leaves the FSM where it is.      *)
Resume == Answered("CONTINUE") \/ (Answered("ABORT") /\ num_outst > 1)
Abort == Answered("ABORT") /\ num_outst = 1

EhReady == Resume \/ Abort

(* Mutant: an error in the last write burst is handled like any other. *)
NextStateNoExtra(rsp_ready) ==
    IF RspError THEN "WAIT"
    ELSE IF Abort THEN "LEG_FLUSH"
    ELSE IF Resume THEN "IDLE"
    ELSE IF Kill THEN "EMIT_EXTRA_RSP"
    ELSE IF state = "EMIT_EXTRA_RSP" /\ rsp_ready THEN "IDLE"
    ELSE state

NextState(rsp_ready) ==
    IF RError THEN "WAIT"
    ELSE IF WError THEN IF Head(w_last) THEN "WAIT_LAST_W" ELSE "WAIT"
    ELSE IF Abort THEN "LEG_FLUSH"
    ELSE IF Resume THEN IF state = "WAIT" THEN "IDLE" ELSE "EMIT_EXTRA_RSP"
    ELSE IF Kill THEN "EMIT_EXTRA_RSP"
    ELSE IF state = "EMIT_EXTRA_RSP" /\ rsp_ready THEN "IDLE"
    ELSE state

----------------------------------------------------------------------------
(* The backend around the handler, in the same cycle. *)

(* The legalizer and the front end.  dp_ready: the queues behind the       *)
(* legalizer have room; req: bursts of the transfer offered, 0: none.      *)
Emits(dp_ready) == leg > 0 /\ dp_ready /\ ~Flush
Accepts(req, dp_ready) == req > 0 /\ leg <= 1 /\ dp_ready /\ ~Flush

Legalizer(req, dp_ready) ==
    /\ dp_ready => /\ Len(w_last) < MetaFifoDepth
                   /\ reads < NumAxInFlight /\ writes < NumAxInFlight
    /\ leg' = IF Kill THEN 0
              ELSE IF Accepts(req, dp_ready) THEN req
              ELSE leg - One(Emits(dp_ready))
    /\ todo' = todo - One(Accepts(req, dp_ready))

(* The read machine: a response taken in, and what comes next. *)
ReadTaken(rsp_ready) == r_bus # "none" /\ RDpReady(rsp_ready)

Present(bus, taken, due, next) ==
    IF bus # "none" /\ ~taken THEN next = bus ELSE next = "none" \/ due

ReadSide(dp_ready, rsp_ready) ==
    LET done == ReadTaken(rsp_ready) /\ r_bus \in {"ok", "last_err"}
    IN  /\ reads' = reads - One(done) + One(Emits(dp_ready))
        /\ Present(r_bus, ReadTaken(rsp_ready), reads' > 0, r_bus')

(* The write machine sends the data of a burst that has been read; the     *)
(* memory answers bursts whose data it has.                                *)
WriteTaken(rsp_ready) == b_bus # "none" /\ WDpReady(rsp_ready)

WriteSide(dp_ready, rsp_ready, w_done) ==
    /\ w_done => writes > reads
    /\ writes' = writes - One(w_done) + One(Emits(dp_ready))
    /\ w_last' = Rest(w_last, WriteTaken(rsp_ready))
                     \o (IF Emits(dp_ready) THEN <<leg = 1>> ELSE <<>>)
    /\ Present(b_bus, WriteTaken(rsp_ready), Len(w_last') > writes', b_bus')

(* Errors the memory newly puts on the buses. *)
Raised(rsp_ready) ==
    One(r_bus' \in {"err", "last_err"} /\ (r_bus = "none" \/ ReadTaken(rsp_ready)))
    + One(b_bus' = "err" /\ (b_bus = "none" \/ WriteTaken(rsp_ready)))

(* The front end: takes responses, answers each error it has seen, and     *)
(* holds an answer until it is acknowledged.                               *)
FrontEnd(rsp_ready) ==
    LET acked == eh # "none" /\ EhReady
    IN  /\ unanswered' = unanswered + One(RspError /\ rsp_ready) - One(acked)
        /\ IF eh # "none" /\ ~acked THEN eh' = eh
           ELSE eh' # "none" => unanswered' > 0

(* An error is reported while the front end is not ready for it. *)
MissedNow(rsp_ready) == One(RspError /\ ~rsp_ready)

(* Mutant: an error response counts as a completion. *)
DeliveredAny(rsp_ready) == RspValid /\ rsp_ready

Delivered(rsp_ready) == RspValid /\ rsp_ready /\ ~RspError

Cycle(req, dp_ready, rsp_ready, w_done) ==
    /\ Legalizer(req, dp_ready)
    /\ ReadSide(dp_ready, rsp_ready)
    /\ WriteSide(dp_ready, rsp_ready, w_done)
    /\ FrontEnd(rsp_ready)
    /\ state' = NextState(rsp_ready)
    /\ num_outst' = (num_outst + One(Accepts(req, dp_ready)) - One(Delivered(rsp_ready))) % CounterLimit
    /\ owed' = owed + One(Accepts(req, dp_ready)) - One(Delivered(rsp_ready))
    /\ missed' = missed + MissedNow(rsp_ready)
    /\ faults' = faults - Raised(rsp_ready)
    /\ profile' = profile

Init ==
    /\ profile \in Profiles
    /\ state = "IDLE" /\ num_outst = 0
    /\ leg = 0 /\ w_last = <<>> /\ reads = 0 /\ writes = 0
    /\ r_bus = "none" /\ b_bus = "none"
    /\ eh = "none" /\ unanswered = 0
    /\ owed = 0 /\ missed = 0 /\ todo = profile.transfers /\ faults = profile.faults

RValues == {"none", "ok", "err", "last_err"}
BValues == {"none", "ok", "err"}
EhValues == {"none", "CONTINUE", "ABORT"}
Reqs == IF todo > 0 THEN profile.bursts \cup {0} ELSE {0}

(* What this memory and this front end may put on their wires.             *)
Allowed ==
    /\ r_bus' \in {"err", "last_err"} => "read" \in profile.places
    /\ b_bus' = "err" => "write" \in profile.places
    /\ eh' \in profile.answers \cup {"none"}

(* A cycle whose inputs are taken from the given sets. *)
Step(dp_readys, rsp_readys, w_dones, r_nexts, b_nexts, eh_nexts) ==
    /\ r_bus' \in r_nexts /\ b_bus' \in b_nexts /\ eh' \in eh_nexts /\ Allowed
    /\ \E rsp_ready \in rsp_readys :
          /\ Raised(rsp_ready) <= faults
          /\ MissedNow(rsp_ready) <= profile.misses - missed
          /\ \E dp_ready \in dp_readys, w_done \in w_dones, req \in Reqs :
                Cycle(req, dp_ready, rsp_ready, w_done)

Next == Step(BOOLEAN, BOOLEAN, BOOLEAN, RValues, BValues, EhValues)

Spec == Init /\ [][Next]_vars

(* The clock runs, the queues behind the legalizer drain, the front end    *)
(* takes responses, the write machine sends data it has, and the memory    *)
(* and the front end answer.                                               *)
QueuesDrain == leg > 0 /\ Step({TRUE}, BOOLEAN, BOOLEAN, RValues, BValues, EhValues)
ResponsesTaken ==
    /\ RspValid \/ r_bus # "none" \/ b_bus # "none"
    /\ Step(BOOLEAN, {TRUE}, BOOLEAN, RValues, BValues, EhValues)
WritesSent == Step(BOOLEAN, BOOLEAN, {TRUE}, RValues, BValues, EhValues)
ReadsAnswered ==
    r_bus = "none" /\ Step(BOOLEAN, BOOLEAN, BOOLEAN, RValues \ {"none"}, BValues, EhValues)
WritesAnswered ==
    b_bus = "none" /\ Step(BOOLEAN, BOOLEAN, BOOLEAN, RValues, BValues \ {"none"}, EhValues)
ErrorsAnswered ==
    eh = "none" /\ Step(BOOLEAN, BOOLEAN, BOOLEAN, RValues, BValues, EhValues \ {"none"})

Fairness ==
    /\ WF_vars(QueuesDrain) /\ WF_vars(ResponsesTaken) /\ WF_vars(WritesSent)
    /\ WF_vars(ReadsAnswered) /\ WF_vars(WritesAnswered) /\ WF_vars(ErrorsAnswered)
    /\ WF_vars(Next)

FairSpec == Spec /\ Fairness

----------------------------------------------------------------------------
(* Properties *)

TypeOK ==
    /\ profile \in Profiles
    /\ state \in {"IDLE", "WAIT", "WAIT_LAST_W", "EMIT_EXTRA_RSP", "LEG_FLUSH"}
    /\ num_outst \in 0..CounterLimit-1
    /\ leg \in Nat
    /\ w_last \in Seq(BOOLEAN) /\ Len(w_last) <= MetaFifoDepth
    /\ reads \in Nat /\ writes \in Nat
    /\ reads <= writes /\ writes <= Len(w_last) /\ writes <= NumAxInFlight
    /\ r_bus \in {"none", "ok", "err", "last_err"}
    /\ b_bus \in {"none", "ok", "err"}
    /\ eh \in {"none", "CONTINUE", "ABORT"}
    /\ unanswered \in Nat
    /\ missed \in Nat

(* Transfers still in the pipeline: in the legalizer, waiting for the      *)
(* response of their last burst, or for the extra response of the handler. *)
LastsDue == Occurrences(w_last, TRUE)
ExtraDue == One(state \in {"WAIT_LAST_W", "EMIT_EXTRA_RSP"})
InPipeline == One(leg > 0) + LastsDue + ExtraDue

(* The front end only continues after errors. *)
Continues == profile.answers = {"CONTINUE"}

(* Every error response found the front end ready.  The handler leaves     *)
(* IDLE whether it did or not (idma_error_handler.sv:241-273).             *)
NoneMissed == missed = 0

(* While errors are continued, the counter is the number of 1D transfers   *)
(* really in flight, as far as its width goes: the pipeline holds more     *)
(* transfers than it has values (idma_error_handler.sv:104,186-200).       *)
CountExact == (Continues /\ NoneMissed) => num_outst = InPipeline % CounterLimit

(* While errors are continued, each transfer accepted and not completed is *)
(* in the pipeline or in the extra response that replaces its last one: no *)
(* completion is delivered that no transfer is owed                        *)
(* (idma_error_handler.sv:232-258,341-347).                                *)
NoSpuriousCompletion == (Continues /\ NoneMissed) => owed = InPipeline

(* Aborted or not, a transfer is completed once: when the flush is over    *)
(* nothing of the aborted transfer answers again                           *)
(* (idma_error_handler.sv:349-363).                                        *)
CompletedOnce == owed >= 0

(* The handler waits for an answer only to an error the front end has seen *)
(* and not answered, so it cannot wait for ever                            *)
(* (idma_error_handler.sv:240-275).                                        *)
WaitsForAnswer == state \in {"WAIT", "WAIT_LAST_W"} => unanswered > 0

(* It does as long as no error response met a front end that was not ready *)
(* for it, however other responses are stalled.                            *)
ErrorDelivered == NoneMissed => WaitsForAnswer

(* While the handler waits, the counter holds a transfer: with the counter *)
(* at zero an abort is acknowledged by nothing (:300-304,333-337).         *)
TransferWhileWaiting == state \in {"WAIT", "WAIT_LAST_W"} => num_outst > 0

(* A read and a write error are presented at once: each clears the ready   *)
(* of the other response (idma_error_handler.sv:251,271).                  *)
BothErrors == RError /\ WError

(* A front end that continues and takes the errors reported gets every     *)
(* transfer it issued completed, wherever the errors hit, unless a read    *)
(* and a write error meet (idma_error_handler.sv:277-347).                 *)
ContinuedComplete == (Continues /\ owed > 0) ~> (owed = 0 \/ ~NoneMissed \/ BothErrors)

(* "Continue" is an option whatever the errors (error_handling.rst:16).    *)
AllComplete == (Continues /\ owed > 0) ~> owed = 0

(* An abort ends: the datapath drains, although drained bursts may bring   *)
(* further errors, and the handler returns to idle                         *)
(* (idma_error_handler.sv:349-368).                                        *)
AbortEnds == state = "LEG_FLUSH" ~> state = "IDLE"

============================================================================
