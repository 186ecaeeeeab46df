------------------------------ MODULE NdMidend ------------------------------
(***************************************************************************)
(* The n-dimensional midend (src/src/midend/idma_nd_midend.sv): one        *)
(* repetition counter per dimension above the first, the choice of the     *)
(* stride to add, and the responses.  A step is one clock cycle.           *)
(*                                                                         *)
(* The front end holds a request until it is taken; the backend is the     *)
(* queue of the bursts it took and has not answered.                       *)
(***************************************************************************)
EXTENDS Queues

CONSTANTS
    NumDim,        \* number of dimensions, the first one is the backend's
    RepWidth,      \* width of every repetition counter
    AddrSpace,     \* number of addresses, 2^AddrWidth
    Requests,      \* the transfers the front end may issue
    MaxInFlight,   \* bursts the backend holds
    MaxTransfers   \* bound: transfers the front end issues

Dims == 2..NumDim
Sides == {"src", "dst"}
MaxReps == 2^RepWidth

RequestType ==
    [reps : [Dims -> Nat], strides : [Dims -> [Sides -> 0..AddrSpace-1]], addr : [Sides -> 0..AddrSpace-1]]

ASSUME NdMidendAssumption ==
    /\ NumDim \in Nat /\ NumDim >= 2
    /\ RepWidth \in Nat \ {0}
    /\ AddrSpace \in Nat \ {0}
    /\ Requests \subseteq RequestType
    /\ MaxInFlight \in Nat \ {0} /\ MaxTransfers \in Nat

(* The arithmetic fact about powers of two the proofs use. *)
ASSUME CountersHoldOne == MaxReps \in Nat /\ MaxReps > 1

VARIABLES
    valid,       \* nd_req_valid_i
    req,         \* nd_req_i, of no meaning while valid is low
    counter,     \* repetition counters
    stride_sel,  \* stages that were cleared in the last cycle
    addr,        \* address pointers
    burst_sent,  \* a burst was taken in the last cycle
    backend,     \* last flags of the bursts taken and not answered, oldest first
    issued,      \* history: transfers the front end has offered
    sent,        \* history: bursts of the request that were taken
    open         \* history: transfers begun and not answered

vars == <<valid, req, counter, stride_sel, addr, burst_sent, backend, issued, sent, open>>

----------------------------------------------------------------------------
(* The repetition counters.  A dimension with no repetitions is bypassed.  *)
(* ready is burst_req_ready_i.                                             *)

Rep(d) == IF valid THEN req.reps[d] % MaxReps ELSE 0

(* Mutant: a dimension is finished without regard to those below. *)
DoneUpToAlone(d) == valid /\ (d = 1 \/ Rep(d) = 0 \/ counter[d] = Rep(d))

(* stage_done of the first d dimensions. *)
DoneUpTo(d) == valid /\ \A e \in 2..d : Rep(e) = 0 \/ counter[e] = Rep(e)

Last == DoneUpTo(NumDim)
Zero == \A d \in Dims : Rep(d) = 0

StageEn(d, ready) == DoneUpTo(d - 1) /\ ready
StageClear(d, ready) == DoneUpTo(d) /\ ready

(* Mutant: a counter is not set back. *)
NextCounterNoClear(d, ready) ==
    IF StageEn(d, ready) THEN (counter[d] + 1) % MaxReps ELSE counter[d]

NextCounter(d, ready) ==
    IF StageClear(d, ready) THEN 1
    ELSE IF StageEn(d, ready) THEN (counter[d] + 1) % MaxReps
    ELSE counter[d]

----------------------------------------------------------------------------
(* The burst.  Its address is the last one plus the stride of the highest  *)
(* dimension that moved, or the base of the request.                       *)

StrideSel(ready) == Cardinality({d \in Dims : StageClear(d, ready)})

(* Mutant: the stride is added again while the burst waits. *)
AddrUnconditional(side) ==
    IF stride_sel = NumDim - 1 THEN req.addr[side]
    ELSE (addr[side] + req.strides[stride_sel + 2][side]) % AddrSpace

Addr(side) ==
    IF stride_sel = NumDim - 1 THEN req.addr[side]
    ELSE IF burst_sent THEN (addr[side] + req.strides[stride_sel + 2][side]) % AddrSpace
    ELSE addr[side]

BurstValid == valid /\ ~Zero
Sends(ready) == BurstValid /\ ready

(* Mutant: a request without repetitions is never taken. *)
TakenWithBurst(ready) == Last /\ BurstValid /\ ready

(* nd_req_ready_o *)
Taken(ready) == Last /\ ready

----------------------------------------------------------------------------
(* Responses: that of the burst with the last flag is the transfer's.  A   *)
(* request without repetitions is answered with an error when it is taken, *)
(* and the backend's response waits.  i.answer: the backend responds,      *)
(* i.nd_rsp_ready: the front end takes responses.                          *)

Rejects(i) == Zero /\ Taken(i.ready)

(* Mutant: the backend's response is taken together with the error.        *)
BurstRspReadyAlways(i) == i.nd_rsp_ready

BurstRspReady(i) == i.nd_rsp_ready /\ ~Rejects(i)
RspTaken(i) == i.answer /\ BurstRspReady(i)

(* The front end sees a response of its transfer. *)
Answered(i) == RspTaken(i) /\ Head(backend) /\ ~Rejects(i)

----------------------------------------------------------------------------
(* One clock cycle. *)

Registers(ready) ==
    /\ counter' = [d \in Dims |-> NextCounter(d, ready)]
    /\ burst_sent' = Sends(ready)
    /\ IF valid
       THEN /\ stride_sel' = StrideSel(ready)
            /\ addr' = [side \in Sides |-> Addr(side)]
       ELSE UNCHANGED <<stride_sel, addr>>

Backend(i) ==
    /\ i.answer => backend # <<>>
    /\ i.ready => Len(backend) < MaxInFlight
    /\ backend' = Rest(backend, RspTaken(i))
                      \o (IF Sends(i.ready) THEN <<Last>> ELSE <<>>)

FrontEnd(ready, offers, next) ==
    /\ valid /\ ~Taken(ready) => offers /\ next = req
    /\ ~offers => next = req
    /\ valid' = offers
    /\ req' = next
    /\ issued' = issued + One(offers /\ (valid => Taken(ready)))
    /\ issued' <= MaxTransfers

History(i) ==
    /\ sent' = IF Taken(i.ready) THEN 0 ELSE sent + One(Sends(i.ready))
    /\ open' = open + One(Sends(i.ready) /\ sent = 0) - One(Answered(i))

Cycle(i, offers, next) ==
    /\ Backend(i)
    /\ FrontEnd(i.ready, offers, next)
    /\ Registers(i.ready)
    /\ History(i)

Init ==
    /\ valid = FALSE /\ req \in Requests
    /\ counter = [d \in Dims |-> 1]
    /\ stride_sel = NumDim - 1
    /\ addr = [side \in Sides |-> 0]
    /\ burst_sent = FALSE
    /\ backend = <<>> /\ issued = 0 /\ sent = 0 /\ open = 0

Inputs == [ready : BOOLEAN, answer : BOOLEAN, nd_rsp_ready : BOOLEAN]

Next == \E i \in Inputs, offers \in BOOLEAN, next \in Requests : Cycle(i, offers, next)

Spec == Init /\ [][Next]_vars

(* The backend takes bursts and answers them, the front end takes answers. *)
BurstTaken ==
    \E i \in Inputs, offers \in BOOLEAN, next \in Requests :
        valid /\ i.ready /\ Cycle(i, offers, next)
AnswerTaken ==
    \E i \in Inputs, offers \in BOOLEAN, next \in Requests :
        RspTaken(i) /\ Cycle(i, offers, next)

FairSpec == Spec /\ WF_vars(BurstTaken) /\ WF_vars(AnswerTaken)

----------------------------------------------------------------------------
(* Properties *)

(* Every register keeps its type; no counter passes the repetitions asked  *)
(* for, and all stand at one between transfers.                            *)
Limit(d) == IF Rep(d) = 0 THEN 1 ELSE Rep(d)

TypeOK ==
    /\ valid \in BOOLEAN /\ req \in RequestType
    /\ counter \in [Dims -> Nat] /\ \A d \in Dims : counter[d] \in 1..Limit(d)
    /\ stride_sel \in 0..NumDim-1
    /\ addr \in [Sides -> 0..AddrSpace-1]
    /\ burst_sent \in BOOLEAN
    /\ backend \in Seq(BOOLEAN)
    /\ sent \in Nat /\ open \in Int

(* Products and sums over the first d dimensions, the first left out. *)
Product(l) == LET p[d \in 1..NumDim] == IF d = 1 THEN 1 ELSE l[d] * p[d - 1] IN p
Sum(m) == LET t[d \in 1..NumDim] == IF d = 1 THEN 0 ELSE t[d - 1] + m[d] IN t

(* Bursts of the first d dimensions together. *)
Bursts == Product([d \in Dims |-> Limit(d)])

(* Burst n of a transfer: dimension d has moved on as often as the ones    *)
(* below it have all run through and it was not itself set back.           *)
Moves(d, n) == (n \div Bursts[d - 1]) - (n \div Bursts[d])

Travelled(n, side) == Sum([d \in Dims |-> Moves(d, n) * req.strides[d][side]])[NumDim]

(* Whatever the backend's stalls and the gaps between transfers, each burst *)
(* offered has the addresses the nested loops over the dimensions give it.  *)
BurstAddress ==
    BurstValid =>
        \A side \in Sides :
            Addr(side) = (req.addr[side] + Travelled(sent, side)) % AddrSpace

(* The last flag is on the final burst of the transfer and on no other.    *)
LastOnFinal == BurstValid => (Last <=> sent = Bursts[NumDim] - 1)

(* A transfer begun and not answered is still being sent or has exactly    *)
(* one last flag among the bursts the backend holds.                       *)
Lasts(q) == Occurrences(q, TRUE)

OneAnswerPerTransfer == open = Lasts(backend) + One(sent > 0)

(* Every transfer is taken, and answered unless it has no repetitions.     *)
RequestsComplete == (valid \/ open > 0) ~> (~valid /\ open = 0)

============================================================================
