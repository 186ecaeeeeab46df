---------------------------- MODULE DescFrontend ---------------------------
(***************************************************************************)
(* The descriptor front end (src/src/frontend/desc64) with prefetching on  *)
(* a bus of 64 bits: it takes the addresses of descriptor chains from      *)
(* software, fetches the descriptors over AXI, four beats each, hands the  *)
(* transfers to the backend, and for every answer writes the descriptor    *)
(* back and raises its interrupt.  It fetches ahead on the guess that      *)
(* descriptors lie one after the other, and throws away what it fetched    *)
(* when the guess was wrong.                                               *)
(*                                                                         *)
(* A step is one clock cycle.  Its environment is the set of channels on   *)
(* which the other side is willing in that cycle: software, the AXI memory *)
(* (ar, r, aw, w, b) and the backend (req, rsp).                           *)
(*                                                                         *)
(* Addresses count descriptors; the rest of a descriptor is left out, so a *)
(* request, a write-back and an interrupt flag are all named by the        *)
(* address of the descriptor they belong to.                               *)
(***************************************************************************)
EXTENDS Queues, SequencesExt

CONSTANTS
    NSpeculation,      \* descriptors fetched ahead
    PendingFifoDepth,  \* depth of the request FIFO
    BackendDepth,      \* transfers the backend is said to hold
    InputFifoDepth,    \* depth of the FIFO of chains
    WCounterWidth,     \* width of w_counter, $clog2(BackendDepth) + 1
    Chains,            \* the chains software submits, each the addresses of its descriptors
    BackendHolds,      \* transfers the backend holds
    AwsUnanswered,     \* write-backs the memory takes before it answers one
    BeatsPause         \* whether the memory may pause between the beats of a descriptor

(* The address that ends a chain is all ones. *)
End == -1

ASSUME DescFrontendAssumption ==
    /\ NSpeculation \in Nat \ {0, 1}
    /\ PendingFifoDepth \in Nat \ {0}
    /\ BackendDepth \in Nat \ {0}
    /\ InputFifoDepth \in Nat \ {0}
    /\ WCounterWidth \in Nat \ {0}
    /\ 2^WCounterWidth >= 2 * BackendDepth
    /\ Chains \in Seq(Seq(Nat) \ {<<>>})
    /\ BackendHolds \in Nat \ {0}
    /\ AwsUnanswered \in Nat \ {0}
    /\ BeatsPause \in BOOLEAN

MaxAWWPending == BackendDepth

VARIABLES
    todo,           \* software: chains not submitted yet
    input,          \* i_input_addr_fifo: first descriptors of the chains submitted
    base_valid,     \* the generator is in a chain ...
    base_addr,      \* ... at this descriptor
    inflight,       \* reads sent for it and, speculatively, for those after it
    next_seen,      \* next_addr_valid_q
    flush_q,        \* flush, a cycle later
    specq,          \* i_speculation_fifo: speculative reads sent
    pending,        \* i_pending_ars: reads to send
    legal,          \* i_legalization_fifo: the read offered on the bus
    ars,            \* memory: reads accepted and not finished, oldest first
    beat,           \* memory: beats delivered for the oldest of them
    fetch_counter,  \* beats the reader holds
    n_to_flush,     \* descriptors the gater still throws away
    engaged,        \* the gater throws beats away
    reqs,           \* i_idma_request_fifo
    wb,             \* i_pending_addr_fifo: addresses to write back, oldest first
    irqs,           \* i_irq_fifo
    aws,            \* i_aw_addrs: write-backs to send
    unsent,         \* write-backs whose data the memory does not have
    backend,        \* backend: transfers not answered
    due,            \* memory: write-backs not answered
    owed,           \* history: descriptors submitted and not reported
    lost,           \* history: the FIFOs that were full when an entry came, "irq" and "addr"
    repeated        \* history: an interrupt flag was offered in two cycles

fetch == <<base_valid, base_addr, inflight, next_seen, flush_q, specq, pending, legal>>
read == <<ars, beat, fetch_counter, n_to_flush, engaged>>
report == <<wb, irqs, aws, unsent, backend, due>>
vars == <<todo, input, owed, lost, repeated, reqs, fetch, read, report>>

----------------------------------------------------------------------------
(* Helpers.  All FIFOs but the input of the backend, the interrupts and the *)
(* write-backs fall through: what is pushed can be taken in the same cycle. *)

OneIf(cond, x) == IF cond THEN <<x>> ELSE <<>>

Links == UNION {{<<chain[i], chain[i + 1]>> : i \in 1..Len(chain) - 1} : chain \in ToSet(Chains)}

(* The `next` field of the descriptor at a; memory elsewhere ends a chain. *)
NextOf(a) ==
    IF \E link \in Links : link[1] = a THEN (CHOOSE link \in Links : link[1] = a)[2] ELSE End

----------------------------------------------------------------------------
(* Software and the FIFO of chains; the register file between them, which  *)
(* passes an address on in the next cycle, is left out.                    *)

Submits(e) == "submit" \in e /\ todo # <<>> /\ Len(input) < InputFifoDepth
InputView(e) == input \o OneIf(Submits(e), Head(Head(todo)))
Queued(e) == Head(InputView(e))
QueuedValid(e) == InputView(e) # <<>>

----------------------------------------------------------------------------
(* The address generator, idma_desc64_ar_gen_prefetch. *)

(* The reader shows the `next` field of the descriptor for the first cycle. *)
ThisCycle == fetch_counter = 2 /\ ~next_seen
FromDescriptor == NextOf(Head(ars))

(* What has to be fetched next, once that is known. *)
TargetKnown(e) == FromDescriptor # End \/ QueuedValid(e)
Target(e) == IF FromDescriptor = End THEN Queued(e) ELSE FromDescriptor

(* Slots of the request FIFO that no descriptor being read will take. *)
AvailableSlots ==
    IF Len(reqs) = PendingFifoDepth THEN 0
    ELSE PendingFifoDepth - Len(reqs) - (IF fetch_counter # 0 THEN 1 ELSE 0)

(* Mutant: slots are not kept for the reads in flight.                     *)
NextArValidNoSlots == base_valid /\ NSpeculation > inflight /\ AvailableSlots > 0

NextArValid == base_valid /\ NSpeculation > inflight /\ AvailableSlots > inflight

NextAr == [speculative |-> inflight > 0, addr |-> base_addr + inflight]
NextArSent == NextArValid /\ Len(pending) < NSpeculation
PendingView == pending \o OneIf(NextArSent, NextAr)
Staging == Head(PendingView)
LegalReady == legal = <<>>

(* A speculative read is noted in specq in the cycle in which it is sent. *)
SpecReady == Len(specq) < NSpeculation /\ ~flush_q
StagingMoves == PendingView # <<>> /\ LegalReady /\ (SpecReady \/ ~Staging.speculative)
SpecView == specq \o OneIf(StagingMoves /\ Staging.speculative, Staging.addr)

(* Mutant: with no prefetch sent the guess is taken to be the base address. *)
CorrectWithBase(spec, e) ==
    /\ TargetKnown(e)
    /\ (IF spec # <<>> THEN Head(spec) ELSE base_addr) = Target(e)

(* Whether the guess was right, given the speculative reads sent: the      *)
(* oldest of them, or the one that would be next, is what has to come.     *)
CorrectWith(spec, e) ==
    /\ TargetKnown(e)
    /\ (IF spec # <<>> THEN Head(spec) ELSE NextAr.addr) = Target(e)

(* A flush stops the staging that SpecView assumes; the two agree by       *)
(* SpeculationUnambiguous.                                                 *)
Flush(e) == ThisCycle /\ ~CorrectWith(SpecView, e)
Commit(e) == ThisCycle /\ CorrectWith(SpecView, e)

(* On a flush the right address bypasses the queue of reads to send. *)
LegalPush(e) ==
    IF Flush(e) THEN AvailableSlots > 0 /\ TargetKnown(e) /\ LegalReady ELSE StagingMoves
LegalView(e) ==
    legal \o OneIf(LegalPush(e), IF Flush(e) THEN Target(e) ELSE Staging.addr)
ArSent(e) == "ar" \in e /\ LegalView(e) # <<>>

(* Mutant: a committed prefetch is not remembered for its write-back. *)
FeedbackNoCommit(e) ==
    IF Flush(e) THEN OneIf(LegalPush(e), Target(e))
    ELSE OneIf(LegalPush(e) /\ ~Staging.speculative, Staging.addr)

(* The address whose fetch has become certain in this cycle. *)
Feedback(e) ==
    IF Flush(e) THEN OneIf(LegalPush(e), Target(e))
    ELSE IF LegalPush(e) /\ ~Staging.speculative THEN <<Staging.addr>>
    ELSE OneIf(Commit(e) /\ SpecView # <<>>, Head(SpecView))

QueuedReady == ~base_valid \/ (ThisCycle /\ FromDescriptor = End)

NextBaseAddr(e) ==
    IF base_valid /\ ThisCycle /\ FromDescriptor # End THEN FromDescriptor
    ELSE IF (ThisCycle \/ ~base_valid) /\ QueuedValid(e) THEN Queued(e)
    ELSE base_addr

NextBaseValid(e) == QueuedValid(e) \/ (base_valid /\ ~(ThisCycle /\ FromDescriptor = End))

NextInflight(e) ==
    IF Flush(e) THEN One(LegalPush(e))
    ELSE inflight + One(NextArSent) - One(Commit(e))

Fetch(e) ==
    /\ input' = Rest(InputView(e), QueuedReady /\ QueuedValid(e))
    /\ base_addr' = NextBaseAddr(e)
    /\ base_valid' = NextBaseValid(e)
    /\ inflight' = NextInflight(e)
    /\ next_seen' = (fetch_counter = 2)
    /\ flush_q' = Flush(e)
    /\ specq' = IF flush_q THEN <<>>
                ELSE IF Flush(e) THEN specq
                ELSE Rest(SpecView, Commit(e) /\ SpecView # <<>>)
    /\ pending' = IF Flush(e) THEN <<>> ELSE Rest(PendingView, StagingMoves)
    /\ legal' = Rest(LegalView(e), ArSent(e))

----------------------------------------------------------------------------
(* The gater and the reader of the R channel. *)

RValid(e) == "r" \in e /\ ars # <<>>
RLast == beat = 3

Dropping(e) == engaged /\ (n_to_flush > 0 \/ (Flush(e) /\ specq # <<>>))

ReqReady == Len(reqs) < PendingFifoDepth
RReady(e) == Dropping(e) \/ ReqReady
GatedValid(e) == RValid(e) /\ ~Dropping(e)

NextFetchCounter(e) ==
    IF GatedValid(e) /\ RLast THEN 0
    ELSE IF GatedValid(e) /\ ReqReady THEN (fetch_counter + 1) % 4
    ELSE fetch_counter

(* Mutant: the descriptor being read is counted as one to throw away. *)
NextToFlushLong(e) ==
    IF Flush(e) THEN Len(specq) + 1
    ELSE n_to_flush - One(RValid(e) /\ RLast /\ n_to_flush > 0 /\ engaged)

NextToFlush(e) ==
    IF Flush(e) THEN Len(specq)
    ELSE n_to_flush - One(RValid(e) /\ RLast /\ n_to_flush > 0 /\ engaged)

NextEngaged(e) ==
    IF Flush(e) \/ n_to_flush = 0 THEN FALSE
    ELSE engaged \/ (RLast /\ RValid(e) /\ ReqReady)

Read(e) ==
    /\ ars' = Rest(ars, RValid(e) /\ RReady(e) /\ RLast) \o OneIf(ArSent(e), Head(LegalView(e)))
    /\ beat' = IF RValid(e) /\ RReady(e) THEN (beat + 1) % 4 ELSE beat
    /\ fetch_counter' = NextFetchCounter(e)
    /\ n_to_flush' = NextToFlush(e)
    /\ engaged' = NextEngaged(e)

----------------------------------------------------------------------------
(* Requests to the backend, its answers and the write-backs. *)

(* Mutant: the flag is offered as long as the reader holds beats. *)
IrqValidLevel == fetch_counter # 0

(* The reader offers the flag as long as it holds one beat only. *)
IrqValid == fetch_counter = 1
IrqDepth == PendingFifoDepth + MaxAWWPending + BackendDepth
WbDepth == PendingFifoDepth + BackendDepth

ReqPush(e) == GatedValid(e) /\ RLast /\ ReqReady
ReqSent(e) == "req" \in e /\ reqs # <<>> /\ Len(backend) < BackendHolds

(* The ready signals of these two FIFOs are ignored: what comes when one   *)
(* is full is gone.                                                        *)
IrqPush == IrqValid /\ Len(irqs) < IrqDepth
WbView(e) == wb \o (IF Len(wb) < WbDepth THEN Feedback(e) ELSE <<>>)

Answered(e) ==
    "rsp" \in e /\ backend # <<>> /\ WbView(e) # <<>> /\ Len(aws) < MaxAWWPending

(* What the counter of data beats to send holds of them. *)
w_counter == unsent % 2^WCounterWidth

AwSent(e) == "aw" \in e /\ aws # <<>> /\ Len(due) < AwsUnanswered
WSent(e) == "w" \in e /\ w_counter > 0
BSent(e) == "b" \in e /\ Len(due) > unsent /\ irqs # <<>>

Report(e) ==
    /\ reqs' = Rest(reqs, ReqSent(e)) \o OneIf(ReqPush(e), Head(ars))
    /\ backend' = Rest(backend, Answered(e)) \o OneIf(ReqSent(e), Head(reqs))
    /\ wb' = Rest(WbView(e), Answered(e))
    /\ aws' = Rest(aws, AwSent(e)) \o OneIf(Answered(e), Head(WbView(e)))
    /\ unsent' = unsent + One(AwSent(e)) - One(WSent(e))
    /\ due' = Rest(due, BSent(e)) \o OneIf(AwSent(e), Head(aws))
    /\ irqs' = Rest(irqs, BSent(e)) \o OneIf(IrqPush, Head(ars))
    /\ owed' = Rest(owed, BSent(e)) \o (IF Submits(e) THEN Head(todo) ELSE <<>>)
    /\ todo' = Rest(todo, Submits(e))

(* What went wrong so far at the two FIFOs; nothing depends on it. *)
IrqDropped == IrqValid /\ Len(irqs) >= IrqDepth
AddrDropped(e) == Feedback(e) # <<>> /\ Len(wb) >= WbDepth

Record(e) ==
    /\ lost' = lost \cup (IF IrqDropped THEN {"irq"} ELSE {})
                     \cup (IF AddrDropped(e) THEN {"addr"} ELSE {})
    /\ repeated' = (repeated \/ (fetch_counter = 1 /\ NextFetchCounter(e) = 1))

(* Mutant: interrupts that wait for their write-back are forgotten. *)
BusyNoIrqs ==
    \/ input # <<>> \/ wb # <<>> \/ reqs # <<>> \/ aws # <<>>
    \/ w_counter > 0 \/ backend # <<>> \/ base_valid \/ inflight > 0

(* The busy bit software polls. *)
Busy ==
    \/ input # <<>> \/ wb # <<>> \/ reqs # <<>> \/ irqs # <<>> \/ aws # <<>>
    \/ w_counter > 0 \/ backend # <<>> \/ base_valid \/ inflight > 0

----------------------------------------------------------------------------
Init ==
    /\ todo = Chains
    /\ base_valid = FALSE /\ base_addr = 0 /\ inflight = 0
    /\ next_seen = FALSE /\ flush_q = FALSE
    /\ beat = 0 /\ fetch_counter = 0 /\ n_to_flush = 0 /\ engaged = FALSE
    /\ unsent = 0
    /\ input = <<>> /\ specq = <<>> /\ pending = <<>> /\ legal = <<>>
    /\ ars = <<>> /\ reqs = <<>> /\ wb = <<>> /\ irqs = <<>> /\ aws = <<>>
    /\ backend = <<>> /\ due = <<>> /\ owed = <<>>
    /\ lost = {} /\ repeated = FALSE

(* The channels on which a transfer can happen in this cycle. *)
Offers ==
    {c \in {"submit", "ar", "r", "req", "rsp", "aw", "w", "b"} :
        /\ c = "submit" => todo # <<>> /\ Len(input) < InputFifoDepth
        /\ c = "ar" => legal # <<>> \/ pending # <<>> \/ NextArValid \/ ThisCycle
        /\ c = "r" => ars # <<>>
        /\ c = "req" => reqs # <<>> /\ Len(backend) < BackendHolds
        /\ c = "rsp" => backend # <<>> /\ Len(aws) < MaxAWWPending
        /\ c = "aw" => aws # <<>> /\ Len(due) < AwsUnanswered
        /\ c = "w" => w_counter > 0
        /\ c = "b" => Len(due) > unsent}

Cycle(e) ==
    /\ ~BeatsPause /\ beat # 0 => "r" \in e
    /\ Fetch(e)
    /\ Read(e)
    /\ Report(e)
    /\ Record(e)

Next == \E e \in SUBSET Offers : Cycle(e)

(* Every channel is served again and again while it is offered. *)
Served(c) == \E e \in SUBSET Offers : c \in e /\ Cycle(e)

Fairness ==
    \A c \in {"submit", "ar", "r", "req", "rsp", "aw", "w", "b"} : WF_vars(Served(c))

Spec == Init /\ [][Next]_vars
FairSpec == Spec /\ Fairness

----------------------------------------------------------------------------
(* Properties *)

TypeOK ==
    /\ todo \in Seq(Seq(Nat)) /\ input \in Seq(Nat)
    /\ base_valid \in BOOLEAN /\ base_addr \in Nat /\ inflight \in 0..NSpeculation
    /\ next_seen \in BOOLEAN /\ flush_q \in BOOLEAN
    /\ specq \in Seq(Nat) /\ Len(specq) <= NSpeculation
    /\ pending \in Seq([speculative : BOOLEAN, addr : Nat]) /\ Len(pending) <= NSpeculation
    /\ legal \in Seq(Nat) /\ Len(legal) <= 1
    /\ ars \in Seq(Nat) /\ beat \in 0..3 /\ fetch_counter \in 0..3
    /\ n_to_flush \in 0..NSpeculation /\ engaged \in BOOLEAN
    /\ reqs \in Seq(Nat) /\ Len(reqs) <= PendingFifoDepth
    /\ wb \in Seq(Nat) /\ Len(wb) <= WbDepth /\ irqs \in Seq(Nat) /\ Len(irqs) <= IrqDepth
    /\ aws \in Seq(Nat) /\ Len(aws) <= MaxAWWPending
    /\ backend \in Seq(Nat) /\ due \in Seq(Nat) /\ unsent \in 0..Len(due)
    /\ lost \subseteq {"irq", "addr"} /\ repeated \in BOOLEAN

(* "The three fifos for idma_req, irqs and feedback addresses must fill    *)
(* and empty in lockstep": the interrupt flags belong, in order, to the    *)
(* descriptors whose answer is outstanding, one each, and so do the        *)
(* addresses to write back; the one being read has its entries early.      *)
AwaitingReport == due \o aws \o backend \o reqs

IrqsInStep ==
    \/ irqs = AwaitingReport \o OneIf(fetch_counter > 1, Head(ars))
    \/ fetch_counter = 1 /\ irqs = AwaitingReport \o <<Head(ars)>>

WbInStep == IsPrefix(backend \o reqs \o OneIf(fetch_counter > 0, Head(ars)), wb)

FifosInLockstep == IrqsInStep /\ WbInStep

(* They do so through every right and wrong guess until a FIFO loses an    *)
(* entry or a flag is offered twice; the addresses do until one is lost.   *)
Lockstep ==
    /\ (lost = {} /\ ~repeated) => IrqsInStep
    /\ "addr" \notin lost => WbInStep

(* However wrong the guesses, what is handed to the backend and written    *)
(* back is what software submitted, each descriptor once and in order,     *)
(* until an address to write back is lost.                                 *)
InOrder == "addr" \notin lost => IsPrefix(due \o aws \o wb, owed)

(* The assertions of the two FIFOs (idma_desc64_top.sv:473-474).           *)
NoIrqDropped == "irq" \notin lost
NoAddrDropped == "addr" \notin lost

(* The first entry lost is explained: a flag is lost only after one was    *)
(* offered twice or when the backend and the memory hold more transfers    *)
(* and write-backs than the backend is said to hold, an address only when  *)
(* the backend itself does.  The reader never meets a full request FIFO.   *)
DropsExplained ==
    /\ lost = {} /\ IrqDropped => repeated \/ Len(backend) + Len(due) > BackendDepth
    /\ "addr" \notin lost =>
          \A e \in SUBSET (Offers \cap {"submit"}) : AddrDropped(e) => Len(backend) > BackendDepth
    /\ ars # <<>> /\ ~(engaged /\ n_to_flush > 0) => ReqReady

(* While data is to be sent it is offered (idma_desc64_top.sv:160,195).    *)
DataOffered == unsent > 0 => w_counter > 0

(* A read about to be noted as speculative cannot decide whether it is     *)
(* flushed itself.                                                         *)
SpeculationUnambiguous ==
    ThisCycle =>
        \A e \in SUBSET (Offers \cap {"submit"}) : CorrectWith(SpecView, e) = CorrectWith(specq, e)

(* The busy bit is clear only when every descriptor was reported, unless a *)
(* FIFO lost an entry.                                                     *)
IdleIsDone == lost = {} => (~Busy => owed = <<>>)

(* All that was submitted is reported, and the front end becomes idle, if  *)
(* no FIFO loses an entry and no flag is offered twice.                    *)
Completes == <>[](todo = <<>> /\ owed = <<>> /\ ~Busy) \/ <>(lost # {} \/ repeated)

============================================================================
