-------------------------- MODULE ChannelCoupler ---------------------------
(***************************************************************************)
(* The R-AW channel coupler (src/src/backend/idma_channel_coupler.sv): it  *)
(* holds a write address back until the read burst it belongs to delivers  *)
(* its first beat, counting the grants it could not hand out at once.      *)
(*                                                                         *)
(* A step is one clock cycle.  The environment is the legalizer, which in  *)
(* coupled mode pushes one AW for each read burst it sends, the read port, *)
(* which reports the first beat of the bursts in the order they were sent, *)
(* and the bus, which accepts an AW when it likes.                         *)
(***************************************************************************)
EXTENDS Queues

CONSTANTS
    NumAxInFlight,  \* depth of the AW store and of the read request queue
    CounterWidth,   \* width of the grant counter, idx_width(NumAxInFlight)
    DecoupleAw      \* the values of the decouple_aw flag in use: {FALSE}, {TRUE} or both

ASSUME CouplerAssumption ==
    /\ NumAxInFlight \in Nat /\ NumAxInFlight > 1
    /\ CounterWidth \in Nat
    /\ 2^CounterWidth >= NumAxInFlight
    /\ DecoupleAw \subseteq BOOLEAN

(* Number of values of the grant counter. *)
GrantLimit == 2^CounterWidth

VARIABLES
    aw_store,      \* AWs held back, oldest first, each with its decouple_aw flag: the
                   \* AW FIFO and the flag FIFO, which fill and drain in the same cycles
    aw_to_send,    \* grants not yet handed out
    aw_granted,    \* fall-through register: the AW at the head may go
    reads          \* environment: read bursts sent whose first beat has not come

vars == <<aw_store, aw_to_send, aw_granted, reads>>

----------------------------------------------------------------------------
(* Combinational signals; `beat`: the read port passes on the first beat   *)
(* of the oldest read burst in this cycle.                                 *)

AwValid == aw_store # <<>>
HeadDecoupled == AwValid /\ Head(aw_store)
AwReadyDecoupled == ~aw_granted

(* A first beat frees an AW unless its read is a decoupled one.            *)
First(beat) == beat /\ reads # <<>> /\ ~Head(reads)

(* Mutant: counted grants are not handed out. *)
AwSentNoCredit(beat) == HeadDecoupled \/ (AwReadyDecoupled /\ First(beat))

AwSent(beat) ==
    \/ HeadDecoupled
    \/ AwReadyDecoupled /\ (First(beat) \/ aw_to_send # 0)

(* Mutants: the counter never counts down, counts a grant that is handed   *)
(* out at once as well.                                                    *)
NextAwToSendOnlyUp(beat) ==
    IF ~AwReadyDecoupled /\ First(beat) THEN (aw_to_send + 1) % GrantLimit ELSE aw_to_send
NextAwToSendTwice(beat) ==
    IF First(beat) THEN (aw_to_send + 1) % GrantLimit
    ELSE IF AwReadyDecoupled /\ aw_to_send # 0 THEN aw_to_send - 1
    ELSE aw_to_send

NextAwToSend(beat) ==
    IF ~AwReadyDecoupled /\ First(beat) THEN (aw_to_send + 1) % GrantLimit
    ELSE IF AwReadyDecoupled /\ ~First(beat) /\ aw_to_send # 0 THEN aw_to_send - 1
    ELSE aw_to_send

(* Output of the fall-through register. *)
AwValidOut(beat) == aw_granted \/ AwSent(beat)

Init ==
    /\ aw_store = <<>>
    /\ aw_to_send = 0
    /\ aw_granted = FALSE
    /\ reads = <<>>

(* One clock cycle.  push: the burst pair the legalizer sends, or none;    *)
(* aw_ready: the bus takes the AW.                                         *)
Cycle(push, beat, aw_ready) ==
    LET pop == AwValidOut(beat) /\ aw_ready
    IN  /\ beat => reads # <<>>
        /\ push # <<>> => Len(aw_store) < NumAxInFlight /\ Len(reads) < NumAxInFlight
        /\ aw_to_send' = NextAwToSend(beat)
        /\ aw_granted' = (AwValidOut(beat) /\ ~pop)
        /\ aw_store' = Rest(aw_store, pop /\ AwValid) \o push
        /\ reads' = Rest(reads, beat) \o push

Pushes == {<<>>} \cup {<<tag>> : tag \in DecoupleAw}

Next == \E push \in Pushes, beat, aw_ready \in BOOLEAN : Cycle(push, beat, aw_ready)

(* Memory answers every read, and the bus accepts an offered AW.           *)
Beat == \E push \in Pushes, aw_ready \in BOOLEAN : Cycle(push, TRUE, aw_ready)
Accept == \E push \in Pushes, beat \in BOOLEAN : AwValidOut(beat) /\ Cycle(push, beat, TRUE)

Fairness == WF_vars(Beat) /\ WF_vars(Accept)

Spec == Init /\ [][Next]_vars
FairSpec == Spec /\ Fairness

----------------------------------------------------------------------------
(* Properties *)

TypeOK ==
    /\ aw_store \in Seq(DecoupleAw) /\ Len(aw_store) <= NumAxInFlight
    /\ aw_to_send \in 0..GrantLimit-1
    /\ aw_granted \in BOOLEAN
    /\ reads \in Seq(DecoupleAw) /\ Len(reads) <= NumAxInFlight

CoupledIn(q) == Occurrences(q, FALSE)

(* The grant in the register is for a coupled AW.                          *)
CoupledGrant == aw_granted /\ ~HeadDecoupled

(* A coupled AW leaves the store only after the first beat of its read:    *)
(* those still waiting for their beat are all in the store.                *)
AwAfterR == CoupledIn(reads) <= CoupledIn(aw_store)

(* Every coupled AW is accounted for once: its first beat is still to come *)
(* or it holds a grant.  A grant too few leaves an AW in the store for     *)
(* ever, one too many sends an AW whose data has not been read.            *)
GrantsMatchAws ==
    CoupledIn(aw_store) = CoupledIn(reads) + aw_to_send + (IF CoupledGrant THEN 1 ELSE 0)

(* The store never stays full, and never keeps an AW although all read     *)
(* data has begun to arrive.                                               *)
StoreDrains ==
    /\ Len(aw_store) = NumAxInFlight ~> Len(aw_store) < NumAxInFlight
    /\ (aw_store # <<>> /\ reads = <<>>) ~> (aw_store = <<>> \/ reads # <<>>)

============================================================================
