--------------------------- MODULE BackendProofs ---------------------------
(***************************************************************************)
(* Proofs about the backend, for every bus width, queue depth, set of      *)
(* requests and number of transfers.  The legalizer inside it takes steps  *)
(* of the legalizer alone, so what is proved about that holds here.        *)
(*                                                                         *)
(* First control: the queues, the fork and the responses.  Then data: that *)
(* every byte is written where it belongs.  The bytes of all transfers     *)
(* form one stream, in the order of issue.  The read requests queued are   *)
(* consecutive pieces of it, the write requests too, and the lanes of the  *)
(* buffer hold, each in order, what lies between the two.  A write beat    *)
(* takes the next bytes of the stream that are one word at the             *)
(* destination, which are in different lanes, so each of them is at the    *)
(* head of its lane.  Last: of transfers to memory the backend is an       *)
(* in-order copy.                                                          *)
(***************************************************************************)
EXTENDS Backend, CommonLemmas

LegP == INSTANCE LegalizerProofs

----------------------------------------------------------------------------
(* The legalizer in the backend. *)

(* Its constants are those of the backend.                                 *)
LEMMA LegalizerConstants == LegP!LegalizerAssumption /\ LegP!PowersOfTwo
BY LegalizerFits DEF Leg!LegalizerAssumption, Leg!PowersOfTwo, Leg!RequestType, Leg!OptType,
   Leg!Protocols, LegP!LegalizerAssumption, LegP!PowersOfTwo, LegP!RequestType, LegP!OptType,
   LegP!Protocols

(* It starts idle.                                                         *)
LEMMA LegalizerInit == Leg!Init => LegP!Init
BY DEF Leg!Init, Leg!NoTransfer, Leg!NoOpt, Leg!NoJob,
       LegP!Init, LegP!NoTransfer, LegP!NoOpt, LegP!NoJob

(* A cycle of the backend is one of the legalizer's cycles.                *)
LEMMA LegalizerAdvances ==
    ASSUME NEW rr \in BOOLEAN, NEW ww \in BOOLEAN, Leg!Advance(rr, ww)
    PROVE  LegP!Advance(rr, ww)
BY DEF Leg!PageWidth, Leg!Smaller, Leg!NumBytesToPb, Leg!RPageWidth, Leg!WPageWidth,
       Leg!CoupledOpt, Leg!Coupled, Leg!RNumBytesToPb, Leg!WNumBytesToPb,
       Leg!NumBytesPossible, Leg!RNumBytesPossible, Leg!WNumBytesPossible, Leg!HalfDone,
       Leg!NumBytes, Leg!NextHalf, Leg!RDone, Leg!WDone, Leg!RNumBytes, Leg!WNumBytes,
       Leg!REnable, Leg!WEnable, Leg!RValid, Leg!WValid, Leg!Emitted, Leg!Advance,
       LegP!PageWidth, LegP!Smaller, LegP!NumBytesToPb, LegP!RPageWidth, LegP!WPageWidth,
       LegP!CoupledOpt, LegP!Coupled, LegP!RNumBytesToPb, LegP!WNumBytesToPb,
       LegP!NumBytesPossible, LegP!RNumBytesPossible, LegP!WNumBytesPossible, LegP!HalfDone,
       LegP!NumBytes, LegP!NextHalf, LegP!RDone, LegP!WDone, LegP!RNumBytes, LegP!WNumBytes,
       LegP!REnable, LegP!WEnable, LegP!RValid, LegP!WValid, LegP!Emitted, LegP!Advance

(* A transfer is taken in as by the legalizer alone.                       *)
LEMMA LegalizerRefills ==
    ASSUME NEW req \in Requests, Leg!Refill(req)
    PROVE  LegP!Refill(req)
BY DEF Leg!PageWidth, Leg!Smaller, Leg!NumBytesToPb, Leg!RPageWidth, Leg!WPageWidth,
       Leg!CoupledOpt, Leg!Coupled, Leg!RNumBytesToPb, Leg!WNumBytesToPb,
       Leg!NumBytesPossible, Leg!RNumBytesPossible, Leg!WNumBytesPossible, Leg!HalfDone,
       Leg!RDone, Leg!WDone, Leg!Ready, Leg!Load, Leg!Refill,
       LegP!PageWidth, LegP!Smaller, LegP!NumBytesToPb, LegP!RPageWidth, LegP!WPageWidth,
       LegP!CoupledOpt, LegP!Coupled, LegP!RNumBytesToPb, LegP!WNumBytesToPb,
       LegP!NumBytesPossible, LegP!RNumBytesPossible, LegP!WNumBytesPossible, LegP!HalfDone,
       LegP!RDone, LegP!WDone, LegP!Ready, LegP!Load, LegP!Refill

(* The step of the legalizer in a cycle.                                   *)
LEMMA LegalizerStep ==
    ASSUME NEW i \in Inputs, Cycle(i)
    PROVE  LegP!Next
<1>1. CASE Proceed(i)
  <2>1. RReady \in BOOLEAN /\ WReady \in BOOLEAN
    BY DEF RReady, WReady
  <2>2. LegP!Advance(RReady, WReady)
    <3> DEFINE rr == RReady
               ww == WReady
    <3>1. rr \in BOOLEAN /\ ww \in BOOLEAN /\ Leg!Advance(rr, ww)
      BY <1>1, <2>1 DEF Proceed
    <3> HIDE DEF rr, ww
    <3>2. LegP!Advance(rr, ww)
      BY <3>1, LegalizerAdvances
    <3> QED BY <3>2 DEF rr, ww
  <2> QED BY <2>1, <2>2 DEF LegP!Next
<1>2. CASE \E req \in Requests : Accept(i, req)
  BY <1>2, LegalizerRefills DEF Accept, LegP!Next
<1> QED BY <1>1, <1>2 DEF Cycle

(* What is proved about the legalizer holds in the backend.                *)
LEMMA LegalizerInv == Spec => []LegP!IInv
<1>1. Init => LegP!IInv
  BY LegalizerConstants, LegalizerInit, LegP!InitInv DEF Init
<1>2. LegP!IInv /\ [Next]_vars => LegP!IInv'
  <2> SUFFICES ASSUME LegP!IInv, [Next]_vars PROVE LegP!IInv'
    OBVIOUS
  <2>1. [LegP!Next]_LegP!vars
    <3>1. CASE Next
      BY <3>1, LegalizerStep DEF Next
    <3>2. CASE UNCHANGED vars
      BY <3>2 DEF vars, legVars, LegP!vars
    <3> QED BY <3>1, <3>2
  <2> QED BY <2>1, LegalizerConstants, LegP!NextInv
<1> QED BY <1>1, <1>2, PTL DEF Spec

----------------------------------------------------------------------------
(* Queues and responses. *)

Protocols == {"AXI", "AXI_STREAM"}

ReadType ==
    [proto : Protocols, offset : Lanes, tailer : Lanes, shift : Lanes,
     beats : Nat \ {0}, id : Nat, from : Nat]

WriteType ==
    [proto : Protocols, offset : Lanes, tailer : Lanes, shift : Lanes,
     num_beats : Nat, id : Nat, from : Nat, bytes : Nat \ {0}]

PendingType == [id : Nat, length : Nat, copied : Nat]

(* Every queue keeps its type and its depth, every register its type.      *)
Typed ==
    /\ r_dp \in Seq(ReadType) /\ Len(r_dp) <= NumAxInFlight
    /\ w_dp \in Seq(WriteType) /\ Len(w_dp) <= NumAxInFlight
    /\ aw \in Seq(Protocols) /\ Len(aw) <= 2
    /\ rsp_order \in Seq(Protocols) /\ Len(rsp_order) <= NumAxInFlight
    /\ w_last \in Seq(BOOLEAN) /\ Len(w_last) <= MetaFifoDepth
    /\ pending \in Seq(PendingType) /\ issued \in Nat
    /\ ar_waits \in BOOLEAN /\ first_r \in BOOLEAN /\ r_beat \in Nat
    /\ w_num_beats \in Nat /\ w_cnt_valid \in BOOLEAN /\ rsp_full \in BOOLEAN
    /\ mem \in [aws : Nat, ws : Nat]

(* The write fork and the beat counter are about the oldest request.       *)
Forking ==
    /\ forked \in {{}, {"rsp"}, {"port"}}
    /\ forked # {} => w_dp # <<>>
    /\ w_cnt_valid => /\ w_dp # <<>> /\ "port" \notin forked
                      /\ w_num_beats \in 1..WReq.num_beats

(* A flag waits for every burst whose response is due or whose write is    *)
(* not yet known to the response queue.                                    *)
FlagPerBurst == Len(w_last) = Len(rsp_order) + Len(w_dp) - One("rsp" \in forked)

CtlInv == LegP!IInv /\ Typed /\ Forking /\ FlagPerBurst /\ LastFlagPerTransfer

(* What of the legalizer is read here is what its proofs speak of.         *)
LEMMA SameLegalizer ==
    /\ Leg!RNumBytes = LegP!RNumBytes /\ Leg!WNumBytes = LegP!WNumBytes
    /\ Leg!RDone = LegP!RDone /\ Leg!WDone = LegP!WDone
    /\ REmits = LegP!RValid(RReady, WReady) /\ WEmits = LegP!WValid(RReady, WReady)
    /\ StrbWidth = LegP!StrbWidth
BY DEF REmits, WEmits, StrbWidth,
       Leg!PageWidth, Leg!Smaller, Leg!NumBytesToPb, Leg!RPageWidth, Leg!WPageWidth,
       Leg!CoupledOpt, Leg!Coupled, Leg!RNumBytesToPb, Leg!WNumBytesToPb,
       Leg!NumBytesPossible, Leg!RNumBytesPossible, Leg!WNumBytesPossible, Leg!HalfDone,
       Leg!NumBytes, Leg!RDone, Leg!WDone, Leg!RNumBytes, Leg!WNumBytes,
       Leg!REnable, Leg!WEnable, Leg!RValid, Leg!WValid,
       LegP!PageWidth, LegP!Smaller, LegP!NumBytesToPb, LegP!RPageWidth, LegP!WPageWidth,
       LegP!CoupledOpt, LegP!Coupled, LegP!RNumBytesToPb, LegP!WNumBytesToPb,
       LegP!NumBytesPossible, LegP!RNumBytesPossible, LegP!WNumBytesPossible, LegP!HalfDone,
       LegP!NumBytes, LegP!RDone, LegP!WDone, LegP!RNumBytes, LegP!WNumBytes,
       LegP!REnable, LegP!WEnable, LegP!RValid, LegP!WValid, LegP!StrbWidth

(* Widths and depths.                                                      *)
LEMMA Sizes ==
    /\ StrbWidth \in Nat \ {0} /\ AddrSpace \in Nat \ {0} /\ AddrSpace % StrbWidth = 0
    /\ NumAxInFlight \in Nat /\ MetaFifoDepth \in Nat /\ BufferDepth \in Nat
    /\ MaxTransfers \in Nat /\ CombinedShifter \in BOOLEAN
    /\ \A a \in Int : a % StrbWidth \in Lanes
<1>1. /\ OffsetWidth \in Nat /\ PageWidthCap \in Nat /\ OffsetWidth <= PageWidthCap
      /\ BurstWidth \in Nat /\ AddrSpace \in Nat \ {0}
  BY LegalizerConstants DEF LegP!LegalizerAssumption
<1>2. StrbWidth \in Nat \ {0}
  <2>1. OffsetWidth \in 0..PageWidthCap + BurstWidth
    BY <1>1
  <2> QED BY <1>1, <2>1, LegalizerConstants DEF LegP!PowersOfTwo, StrbWidth
<1>3. AddrSpace % StrbWidth = 0
  BY LegalizerFits DEF StrbWidth, WordsFit
<1>4. \A a \in Int : a % StrbWidth \in Lanes
  BY <1>2, DivMod DEF Lanes
<1> QED BY <1>1, <1>2, <1>3, <1>4, BackendAssumption

(* The bursts emitted are not empty.                                       *)
LEMMA BurstSizes ==
    ASSUME LegP!IInv
    PROVE  /\ r_tf.valid \in BOOLEAN /\ w_tf.valid \in BOOLEAN
           /\ r_tf.addr \in Nat /\ w_tf.addr \in Nat
           /\ opt_tf.src_protocol \in Protocols /\ opt_tf.dst_protocol \in Protocols
           /\ job.src_addr \in Nat /\ job.dst_addr \in Nat /\ job.length \in Nat
           /\ job.read \in Nat /\ job.written \in Nat
           /\ r_tf.valid => LegP!RNumBytes \in Nat \ {0}
           /\ w_tf.valid => LegP!WNumBytes \in Nat \ {0}
<1>1. LegP!TypeOK /\ LegP!HalvesNonEmpty
  BY DEF LegP!IInv
<1>2. /\ r_tf \in LegP!HalfType /\ w_tf \in LegP!HalfType
      /\ opt_tf \in LegP!OptType /\ job \in LegP!JobType
  BY <1>1 DEF LegP!TypeOK
<1>3. LegP!RNumBytesPossible \in Nat \ {0} /\ LegP!WNumBytesPossible \in Nat \ {0}
  BY <1>1, LegP!PossiblePositive, LegalizerConstants
<1>4. AddrSpace \in Nat
  BY Sizes
<1> QED BY <1>1, <1>2, <1>3, <1>4 DEF LegP!HalvesNonEmpty, LegP!HalfType, LegP!OptType,
      LegP!JobType, LegP!Protocols, Protocols, LegP!RNumBytes, LegP!WNumBytes, LegP!NumBytes, LegP!Smaller

(* What is pushed into the request queues.                                 *)
LEMMA RequestTypes ==
    ASSUME LegP!IInv, issued \in Nat
    PROVE  /\ RPush = <<>> \/ \E x \in ReadType : RPush = <<x>>
           /\ WPush = <<>> \/ \E x \in WriteType : WPush = <<x>>
<1>1. /\ REmits => r_tf.valid
      /\ WEmits => w_tf.valid
  BY SameLegalizer DEF LegP!RValid, LegP!WValid
<1>2. \A a \in Nat, n \in Nat \ {0} : Leg!Beats(a, n) \in Nat \ {0}
  <2> SUFFICES ASSUME NEW a \in Nat, NEW n \in Nat \ {0} PROVE Leg!Beats(a, n) \in Nat \ {0}
    OBVIOUS
  <2>1. a % StrbWidth \in 0..StrbWidth-1 /\ StrbWidth \in Nat \ {0}
    BY Sizes DEF Lanes
  <2> DEFINE x == n + (a % StrbWidth) - 1
  <2>2. x \in Int /\ 0 <= x /\ 0 \in Int
    BY <2>1
  <2> HIDE DEF x
  <2>3. 0 \div StrbWidth <= x \div StrbWidth /\ x \div StrbWidth \in Int
    BY <2>1, <2>2, MonoDiv, DivMod
  <2>4. 0 \div StrbWidth = 0
    <3>1. 0 = StrbWidth * 0 + 0 /\ 0 \in 0..StrbWidth-1 /\ 0 \in Int
      BY <2>1
    <3> QED BY <2>1, <3>1, DivModOf
  <2> QED BY <2>3, <2>4 DEF x, Leg!Beats, Leg!StrbWidth, StrbWidth
<1>3. /\ ReadShift(job.src_addr, job.dst_addr) \in Lanes
      /\ WriteShift(job.dst_addr) \in Lanes
  BY BurstSizes, Sizes DEF ReadShift, WriteShift
<1>4. ASSUME REmits PROVE ReadRequest \in ReadType
  <2>1. Leg!RNumBytes \in Nat \ {0} /\ r_tf.addr \in Nat
    BY <1>1, <1>4, SameLegalizer, BurstSizes
  <2>2. /\ r_tf.addr % StrbWidth \in Lanes /\ (Leg!RNumBytes + r_tf.addr) % StrbWidth \in Lanes
        /\ Leg!Beats(r_tf.addr, Leg!RNumBytes) \in Nat \ {0}
    <3> DEFINE a == r_tf.addr
               n == Leg!RNumBytes
    <3>1. a \in Int /\ n + a \in Int /\ a \in Nat /\ n \in Nat \ {0}
      BY <2>1
    <3> HIDE DEF a, n
    <3>2. a % StrbWidth \in Lanes /\ (n + a) % StrbWidth \in Lanes
      BY <3>1, Sizes
    <3>3. Leg!Beats(a, n) \in Nat \ {0}
      BY <1>2, <3>1
    <3> QED BY <3>2, <3>3 DEF a, n
  <2>3. opt_tf.src_protocol \in Protocols /\ job.read \in Nat
    BY BurstSizes
  <2> QED BY <1>3, <2>2, <2>3 DEF ReadRequest, ReadType
<1>5. ASSUME WEmits PROVE WriteRequest \in WriteType
  <2>1. Leg!WNumBytes \in Nat \ {0} /\ w_tf.addr \in Nat
    BY <1>1, <1>5, SameLegalizer, BurstSizes
  <2>2. /\ w_tf.addr % StrbWidth \in Lanes /\ (Leg!WNumBytes + w_tf.addr) % StrbWidth \in Lanes
        /\ Leg!Beats(w_tf.addr, Leg!WNumBytes) \in Nat \ {0}
    <3> DEFINE a == w_tf.addr
               n == Leg!WNumBytes
    <3>1. a \in Int /\ n + a \in Int /\ a \in Nat /\ n \in Nat \ {0}
      BY <2>1
    <3> HIDE DEF a, n
    <3>2. a % StrbWidth \in Lanes /\ (n + a) % StrbWidth \in Lanes
      BY <3>1, Sizes
    <3>3. Leg!Beats(a, n) \in Nat \ {0}
      BY <1>2, <3>1
    <3> QED BY <3>2, <3>3 DEF a, n
  <2>3. opt_tf.dst_protocol \in Protocols /\ job.written \in Nat
    BY BurstSizes
  <2>4. (IF opt_tf.dst_protocol = "AXI" THEN Leg!Beats(w_tf.addr, Leg!WNumBytes) - 1 ELSE 0) \in Nat
    BY <2>2
  <2> QED BY <1>3, <2>1, <2>2, <2>3, <2>4 DEF WriteRequest, WriteType
<1> QED BY <1>4, <1>5 DEF RPush, WPush

(* A burst is emitted only into room.                                      *)
LEMMA EmitsIntoRoom ==
    /\ REmits => r_tf.valid /\ Len(r_dp) < NumAxInFlight /\ ~ar_waits
    /\ WEmits => w_tf.valid /\ Len(w_dp) < NumAxInFlight /\ Len(aw) < 2 /\ Len(w_last) < MetaFifoDepth
<1> DEFINE rr == RReady
           ww == WReady
<1>1. rr \in BOOLEAN /\ ww \in BOOLEAN
  BY DEF RReady, WReady
<1> HIDE DEF rr, ww
<1>2. LegP!RValid(rr, ww) => r_tf.valid /\ rr
  BY <1>1 DEF LegP!RValid, LegP!REnable
<1>3. LegP!WValid(rr, ww) => w_tf.valid /\ ww
  BY <1>1 DEF LegP!WValid, LegP!WEnable
<1> QED BY <1>2, <1>3, SameLegalizer DEF rr, ww, RReady, WReady

(* The read queue of a cycle.                                              *)
LEMMA ReadTyped ==
    ASSUME CtlInv, NEW i \in Inputs, ReadSide(i)
    PROVE  /\ r_dp' \in Seq(ReadType) /\ Len(r_dp') <= NumAxInFlight
           /\ ar_waits' \in BOOLEAN /\ first_r' \in BOOLEAN /\ r_beat' \in Nat
<1> DEFINE beat == ReadHappens(i)
           done == beat /\ LastBeat
           push == RPush
<1>1. /\ r_dp' = Rest(r_dp, done) \o push
      /\ first_r' = IF beat /\ RReq.proto = "AXI" THEN LastBeat ELSE first_r
      /\ r_beat' = IF done THEN 0 ELSE r_beat + One(beat)
  BY DEF ReadSide
<1>2. ar_waits' \in BOOLEAN
  BY DEF ReadSide
<1>3. beat \in BOOLEAN /\ done \in BOOLEAN /\ LastBeat \in BOOLEAN /\ (done => r_dp # <<>>)
  BY DEF ReadHappens, LastBeat
<1>4. push = <<>> \/ \E x \in ReadType : push = <<x>>
  BY RequestTypes DEF CtlInv, Typed
<1>5. push # <<>> => Len(r_dp) < NumAxInFlight
  BY EmitsIntoRoom DEF RPush
<1> HIDE DEF beat, done, push
<1>6. /\ r_dp \in Seq(ReadType) /\ Len(r_dp) <= NumAxInFlight
      /\ r_beat \in Nat /\ first_r \in BOOLEAN
  BY DEF CtlInv, Typed
<1>7. NumAxInFlight \in Nat
  BY Sizes
<1>8. /\ Rest(r_dp, done) \o push \in Seq(ReadType)
      /\ Len(Rest(r_dp, done) \o push) <= NumAxInFlight
  BY <1>3, <1>4, <1>5, <1>6, <1>7, QueueDepth
<1>9. first_r' \in BOOLEAN /\ r_beat' \in Nat
  BY <1>1, <1>3, <1>6 DEF One
<1> QED BY <1>1, <1>2, <1>8, <1>9

(* The write fork hands the oldest request once to each of its outputs.    *)
LEMMA ForkStep ==
    ASSUME CtlInv, NEW i \in Inputs
    PROVE  /\ Forked(i) = {"rsp", "port"} => w_dp # <<>>
           /\ Forked(i) # {} => w_dp # <<>>
           /\ Forked(i) \in {{}, {"rsp"}, {"port"}, {"rsp", "port"}}
           /\ TakesRsp \in BOOLEAN /\ TakesPort(i) \in BOOLEAN /\ WriteHappens(i) \in BOOLEAN
           /\ TakesRsp => w_dp # <<>> /\ "rsp" \notin forked
           /\ WriteHappens(i) => w_dp # <<>> /\ "port" \notin forked
           /\ TakesPort(i) <=> WriteHappens(i) /\ LastW
           /\ "rsp" \in Forked(i) <=> "rsp" \in forked \/ TakesRsp
           /\ "port" \in Forked(i) <=> "port" \in forked \/ TakesPort(i)
<1>1. /\ forked \in {{}, {"rsp"}, {"port"}} /\ (forked # {} => w_dp # <<>>)
  BY DEF CtlInv, Forking
<1>2. /\ TakesRsp \in BOOLEAN /\ TakesPort(i) \in BOOLEAN /\ WriteHappens(i) \in BOOLEAN
      /\ TakesRsp => w_dp # <<>> /\ "rsp" \notin forked
      /\ WriteHappens(i) => w_dp # <<>> /\ "port" \notin forked
      /\ TakesPort(i) <=> WriteHappens(i) /\ LastW
  BY DEF TakesRsp, TakesPort, WriteHappens, ReadyToWrite, LastW
<1> DEFINE tr == TakesRsp
           tp == TakesPort(i)
<1>3. Forked(i) = forked \cup (IF tr THEN {"rsp"} ELSE {}) \cup (IF tp THEN {"port"} ELSE {})
  BY DEF Forked
<1>4. tr \in BOOLEAN /\ tp \in BOOLEAN /\ (tr => w_dp # <<>>) /\ (tp => w_dp # <<>>)
  BY <1>2
<1>5. /\ Forked(i) = {"rsp", "port"} => w_dp # <<>>
      /\ Forked(i) # {} => w_dp # <<>>
      /\ Forked(i) \in {{}, {"rsp"}, {"port"}, {"rsp", "port"}}
      /\ "rsp" \in Forked(i) <=> "rsp" \in forked \/ tr
      /\ "port" \in Forked(i) <=> "port" \in forked \/ tp
  <2> HIDE DEF tr, tp
  <2> QED BY <1>1, <1>3, <1>4
<1> QED BY <1>2, <1>5

(* The write queues of a cycle.                                            *)
LEMMA WriteTyped ==
    ASSUME CtlInv, NEW i \in Inputs, WriteSide(i)
    PROVE  /\ w_dp' \in Seq(WriteType) /\ Len(w_dp') <= NumAxInFlight
           /\ Len(w_dp') = Len(w_dp) - One(Forked(i) = {"rsp", "port"}) + Len(WPush)
           /\ aw' \in Seq(Protocols) /\ Len(aw') <= 2
           /\ w_num_beats' \in Nat /\ w_cnt_valid' \in BOOLEAN
           /\ Forking'
<1> DEFINE pop == Forked(i) = {"rsp", "port"}
           push == WPush
           taken == AwTaken(i)
           meta == IF WEmits THEN <<opt_tf.dst_protocol>> ELSE <<>>
           beat == WriteHappens(i)
<1>1. /\ w_dp' = Rest(w_dp, pop) \o push
      /\ forked' = IF pop THEN {} ELSE Forked(i)
      /\ aw' = Rest(aw, taken) \o meta
      /\ IF beat /\ ~IsSingle
         THEN /\ w_num_beats' = IF w_cnt_valid THEN w_num_beats - 1 ELSE WReq.num_beats
              /\ w_cnt_valid' = ~LastW
         ELSE w_num_beats' = w_num_beats /\ w_cnt_valid' = w_cnt_valid
  BY DEF WriteSide
<1>2. /\ push = <<>> \/ \E x \in WriteType : push = <<x>>
      /\ push # <<>> => Len(w_dp) < NumAxInFlight
  BY RequestTypes, EmitsIntoRoom DEF CtlInv, Typed, WPush
<1>3. /\ meta = <<>> \/ \E x \in Protocols : meta = <<x>>
      /\ meta # <<>> => Len(aw) < 2
  BY BurstSizes, EmitsIntoRoom DEF CtlInv
<1>4. pop \in BOOLEAN /\ (pop => w_dp # <<>>)
  BY ForkStep
<1>5. taken \in BOOLEAN /\ (taken => aw # <<>>)
  BY DEF AwTaken
<1>6. /\ Typed /\ Forking
  BY DEF CtlInv
<1>7. /\ w_dp \in Seq(WriteType) /\ Len(w_dp) <= NumAxInFlight /\ NumAxInFlight \in Nat
      /\ aw \in Seq(Protocols) /\ Len(aw) <= 2 /\ w_num_beats \in Nat /\ w_cnt_valid \in BOOLEAN
  BY <1>6, Sizes DEF Typed
<1>8. /\ w_dp' \in Seq(WriteType) /\ Len(w_dp') <= NumAxInFlight
      /\ Len(w_dp') = Len(w_dp) - One(pop) + Len(push)
  <2> HIDE DEF pop, push
  <2>1. /\ Rest(w_dp, pop) \o push \in Seq(WriteType)
        /\ Len(Rest(w_dp, pop) \o push) <= NumAxInFlight
        /\ Len(Rest(w_dp, pop) \o push) = Len(w_dp) - One(pop) + Len(push)
    BY <1>2, <1>4, <1>7, QueueDepth
  <2> QED BY <1>1, <2>1
<1>9. aw' \in Seq(Protocols) /\ Len(aw') <= 2
  <2> HIDE DEF taken, meta
  <2>1. Rest(aw, taken) \o meta \in Seq(Protocols) /\ Len(Rest(aw, taken) \o meta) <= 2
    <3>1. 2 \in Nat
      OBVIOUS
    <3> QED BY <1>3, <1>5, <1>7, <3>1, QueueDepth
  <2> QED BY <1>1, <2>1
<1>10. /\ beat \in BOOLEAN /\ (beat => w_dp # <<>> /\ "port" \notin forked)
       /\ IsSingle \in BOOLEAN /\ LastW \in BOOLEAN
       /\ "port" \in Forked(i) <=> "port" \in forked \/ (beat /\ LastW)
       /\ Forked(i) \in {{}, {"rsp"}, {"port"}, {"rsp", "port"}}
       /\ Forked(i) # {} => w_dp # <<>>
  BY ForkStep DEF IsSingle, LastW
<1>11. w_dp # <<>> => WReq.num_beats \in Nat
  <2>1. w_dp # <<>> => WReq \in WriteType
    BY <1>7, HeadTailProperties DEF WReq
  <2> QED BY <2>1 DEF WriteType
<1>12. w_cnt_valid => w_num_beats \in 1..WReq.num_beats /\ "port" \notin forked /\ w_dp # <<>>
  BY <1>6 DEF Forking
<1>13. /\ IsSingle <=> WReq.num_beats = 0
       /\ LastW <=> IsSingle \/ (w_cnt_valid /\ w_num_beats = 1)
  BY DEF IsSingle, LastW
<1>14. /\ w_num_beats' \in Nat /\ w_cnt_valid' \in BOOLEAN
       /\ w_cnt_valid' => /\ w_dp # <<>> /\ "port" \notin Forked(i)
                          /\ w_num_beats' \in 1..WReq.num_beats
  <2> HIDE DEF beat, pop, push, taken, meta
  <2>1. CASE beat /\ ~IsSingle
    <3>1. w_cnt_valid' = ~LastW /\ w_num_beats' = IF w_cnt_valid THEN w_num_beats - 1 ELSE WReq.num_beats
      BY <1>1, <2>1
    <3>2. WReq.num_beats \in Nat \ {0}
      BY <1>10, <1>11, <1>13, <2>1
    <3>3. CASE w_cnt_valid
      BY <1>7, <1>10, <1>12, <1>13, <2>1, <3>1, <3>2, <3>3
    <3>4. CASE ~w_cnt_valid
      BY <1>7, <1>10, <1>13, <2>1, <3>1, <3>2, <3>4
    <3> QED BY <3>3, <3>4
  <2>2. CASE ~(beat /\ ~IsSingle)
    <3>1. w_num_beats' = w_num_beats /\ w_cnt_valid' = w_cnt_valid
      BY <1>1, <2>2
    <3>2. CASE w_cnt_valid
      <4>1. WReq.num_beats \in Nat /\ w_num_beats \in 1..WReq.num_beats
        BY <1>11, <1>12, <3>2
      <4>2. ~IsSingle
        BY <4>1, <1>13
      <4> QED BY <1>7, <1>10, <1>12, <2>2, <3>1, <3>2, <4>2
    <3>3. CASE ~w_cnt_valid
      BY <1>7, <3>1, <3>3
    <3> QED BY <3>2, <3>3
  <2> QED BY <2>1, <2>2
<1>15. CASE pop
  <2>1. forked' = {} /\ ~w_cnt_valid'
    BY <1>1, <1>14, <1>15
  <2> QED BY <1>8, <1>9, <1>14, <2>1 DEF Forking
<1>16. CASE ~pop
  <2>1. forked' = Forked(i) /\ Forked(i) \in {{}, {"rsp"}, {"port"}}
    BY <1>1, <1>10, <1>16
  <2>2. w_dp' = w_dp \o push
    BY <1>1, <1>16 DEF Rest
  <2>3. w_dp # <<>> => w_dp' # <<>> /\ Head(w_dp') = Head(w_dp)
    <3> HIDE DEF push
    <3>1. w_dp # <<>> => w_dp \o push # <<>> /\ Head(w_dp \o push) = Head(w_dp)
      BY <1>2, <1>7, QueueHead
    <3> QED BY <2>2, <3>1
  <2>4. w_cnt_valid' => /\ w_dp' # <<>> /\ "port" \notin forked'
                        /\ w_num_beats' \in 1..WReq'.num_beats
    BY <1>14, <2>1, <2>3 DEF WReq
  <2>5. forked' # {} => w_dp' # <<>>
    BY <1>10, <2>1, <2>3
  <2> QED BY <1>8, <1>9, <1>14, <2>1, <2>4, <2>5 DEF Forking
<1> QED BY <1>15, <1>16

(* The history of a cycle: the answered transfer leaves it.                *)
LEMMA ProgressTyped ==
    ASSUME CtlInv, NEW i \in Inputs, Answered(i) => pending # <<>>
    PROVE  /\ Progress(i) \in Seq(PendingType)
           /\ Len(Progress(i)) = Len(pending) - One(Answered(i))
<1> DEFINE left == Rest(pending, Answered(i))
           item(k) == IF WriteHappens(i) /\ left[k].id = WReq.id
                      THEN [left[k] EXCEPT !.copied = @ + Cardinality(MaskOut)]
                      ELSE left[k]
<1>1. pending \in Seq(PendingType) /\ Len(pending) \in Nat
  BY LenProperties DEF CtlInv, Typed
<1>2. left \in Seq(PendingType) /\ Len(left) = Len(pending) - One(Answered(i))
  <2>1. CASE Answered(i)
    BY <1>1, <2>1, HeadTailProperties DEF Rest, One
  <2>2. CASE ~Answered(i)
    BY <1>1, <2>2 DEF Rest, One
  <2> QED BY <2>1, <2>2
<1> HIDE DEF left
<1>3. Cardinality(MaskOut) \in Nat
  <2>1. MaskOut \subseteq Lanes
    BY DEF MaskOut, FirstMask, LastMask
  <2>2. IsFiniteSet(Lanes)
    <3>1. 0 \in Int /\ StrbWidth - 1 \in Int
      BY Sizes
    <3> QED BY <3>1, FS_Interval DEF Lanes
  <2> QED BY <2>1, <2>2, FS_Subset, FS_CardinalityType
<1>4. Len(left) \in Nat /\ DOMAIN left = 1..Len(left)
  BY <1>2, LenProperties
<1>5. ASSUME NEW k \in 1..Len(left) PROVE item(k) \in PendingType
  <2>1. left[k] \in PendingType
    BY <1>2, ElementOfSeq
  <2> QED BY <1>3, <2>1 DEF PendingType
<1> HIDE DEF item
<1>6. Progress(i) = [k \in 1..Len(left) |-> item(k)]
  BY <1>4 DEF Progress, left, item
<1>7. [k \in 1..Len(left) |-> item(k)] \in [1..Len(left) -> PendingType]
  BY <1>5
<1>8. Progress(i) \in Seq(PendingType)
  BY <1>4, <1>6, <1>7, SeqDef
<1>9. Len(Progress(i)) = Len(left)
  BY <1>4, <1>6, <1>8, LenProperties
<1> QED BY <1>2, <1>8, <1>9

(* The queues of responses in a cycle.                                     *)
LEMMA ResponseTyped ==
    ASSUME CtlInv, NEW i \in Inputs, ResponseSide(i), WriteSide(i)
    PROVE  /\ rsp_order' \in Seq(Protocols) /\ Len(rsp_order') <= NumAxInFlight
           /\ w_last' \in Seq(BOOLEAN) /\ Len(w_last') <= MetaFifoDepth
           /\ rsp_full' \in BOOLEAN /\ mem' \in [aws : Nat, ws : Nat]
           /\ FlagPerBurst'
           /\ Occurrences(w_last, TRUE) \in Nat /\ Occurrences(w_last', TRUE) \in Nat
           /\ Answered(i) => Occurrences(w_last, TRUE) > 0
           /\ Occurrences(w_last', TRUE) = Occurrences(w_last, TRUE)
                    - (IF Answered(i) THEN 1 ELSE 0) + (IF WEmits /\ Leg!WDone THEN 1 ELSE 0)
<1> DEFINE taken == RspTaken(i)
           takes == TakesRsp
           order == IF takes THEN <<WReq.proto>> ELSE <<>>
           emits == WEmits
           flag  == Leg!WDone
           pop   == Forked(i) = {"rsp", "port"}
<1>1. /\ rsp_full' = ((rsp_full \/ MuxValid(i)) /\ ~taken)
      /\ rsp_order' = Rest(rsp_order, taken) \o order
      /\ w_last' = Rest(w_last, taken) \o (IF emits THEN <<flag>> ELSE <<>>)
      /\ mem' = [aws |-> mem.aws + One(AwTaken(i) /\ Head(aw) = "AXI") - One(BTaken(i)),
                 ws  |-> mem.ws + One(TakesPort(i) /\ WReq.proto = "AXI") - One(BTaken(i))]
  BY DEF ResponseSide
<1>2. /\ Typed /\ Forking /\ FlagPerBurst
  BY DEF CtlInv
<1>3. /\ rsp_order \in Seq(Protocols) /\ Len(rsp_order) <= NumAxInFlight /\ NumAxInFlight \in Nat
      /\ w_dp \in Seq(WriteType) /\ w_last \in Seq(BOOLEAN) /\ Len(w_last) <= MetaFifoDepth
      /\ MetaFifoDepth \in Nat
      /\ mem.aws \in Nat /\ mem.ws \in Nat
  BY <1>2, Sizes DEF Typed
<1>4. /\ Len(w_dp) \in Nat /\ (w_dp = <<>> <=> Len(w_dp) = 0)
      /\ Len(rsp_order) \in Nat /\ (rsp_order = <<>> <=> Len(rsp_order) = 0)
      /\ Len(w_last) \in Nat /\ (w_last = <<>> <=> Len(w_last) = 0)
  BY <1>3, LenProperties, EmptySeq
<1>5. /\ taken \in BOOLEAN /\ (taken => rsp_order # <<>>)
      /\ emits \in BOOLEAN /\ flag \in BOOLEAN
  BY DEF RspTaken, WEmits, Leg!WValid, Leg!WDone, Leg!HalfDone
<1>6. taken => w_last # <<>>
  <2>1. Len(w_last) = Len(rsp_order) + Len(w_dp) - One("rsp" \in forked)
    BY <1>2 DEF FlagPerBurst
  <2>2. "rsp" \in forked => Len(w_dp) > 0
    BY <1>2, <1>4 DEF Forking
  <2>3. One("rsp" \in forked) <= Len(w_dp) /\ One("rsp" \in forked) \in Nat
    BY <1>4, <2>2 DEF One
  <2> QED BY <1>4, <1>5, <2>1, <2>3
<1>7. /\ takes \in BOOLEAN /\ (takes => w_dp # <<>> /\ "rsp" \notin forked /\ Len(rsp_order) < NumAxInFlight)
  BY DEF TakesRsp
<1>8. /\ order = <<>> \/ \E x \in Protocols : order = <<x>>
      /\ order # <<>> => Len(rsp_order) < NumAxInFlight
      /\ Len(order) = One(takes)
  <2>1. w_dp # <<>> => WReq \in WriteType
    BY <1>3, HeadTailProperties DEF WReq
  <2>2. takes => WReq.proto \in Protocols
    BY <1>7, <2>1 DEF WriteType
  <2> HIDE DEF takes
  <2> QED BY <1>7, <2>2 DEF One
<1> HIDE DEF taken, takes, order, emits, flag
<1>9. /\ rsp_order' \in Seq(Protocols) /\ Len(rsp_order') <= NumAxInFlight
      /\ Len(rsp_order') = Len(rsp_order) - One(taken) + One(takes)
  <2>1. /\ Rest(rsp_order, taken) \o order \in Seq(Protocols)
        /\ Len(Rest(rsp_order, taken) \o order) <= NumAxInFlight
        /\ Len(Rest(rsp_order, taken) \o order) = Len(rsp_order) - One(taken) + Len(order)
    <3>1. /\ rsp_order \in Seq(Protocols) /\ Len(rsp_order) <= NumAxInFlight /\ NumAxInFlight \in Nat
          /\ taken \in BOOLEAN /\ (taken => rsp_order # <<>>)
      BY <1>3, <1>5
    <3>2. /\ order = <<>> \/ \E x \in Protocols : order = <<x>>
          /\ order # <<>> => Len(rsp_order) < NumAxInFlight
      BY <1>8
    <3> QED BY <3>1, <3>2, QueueDepth
  <2> QED BY <1>1, <1>8, <2>1
<1>10. /\ w_last' \in Seq(BOOLEAN)
       /\ Len(w_last') = Len(w_last) - One(taken) + One(emits)
       /\ Occurrences(w_last, TRUE) \in Nat /\ Occurrences(w_last, TRUE) <= Len(w_last)
       /\ Occurrences(w_last', TRUE) \in Nat
       /\ Occurrences(w_last', TRUE) = Occurrences(w_last, TRUE)
                - (IF taken /\ Head(w_last) THEN 1 ELSE 0) + (IF emits /\ flag THEN 1 ELSE 0)
  <2> DEFINE new == Rest(w_last, taken) \o (IF emits THEN <<flag>> ELSE <<>>)
  <2>1. /\ new \in Seq(BOOLEAN)
        /\ Len(new) = Len(w_last) - One(taken) + One(emits)
        /\ Occurrences(w_last, TRUE) \in Nat /\ Occurrences(w_last, TRUE) <= Len(w_last)
        /\ Occurrences(new, TRUE) \in Nat
        /\ Occurrences(new, TRUE) = Occurrences(w_last, TRUE)
                 - (IF taken /\ Head(w_last) THEN 1 ELSE 0) + (IF emits /\ flag THEN 1 ELSE 0)
    BY <1>3, <1>5, <1>6, FlagQueueStep, ZenonT(60)
  <2>2. w_last' = new
    BY <1>1
  <2> HIDE DEF new
  <2> QED BY <2>1, <2>2
<1>11. Answered(i) <=> taken /\ Head(w_last)
  BY DEF Answered, taken, RspTaken, RspReady
<1>12. (taken /\ Head(w_last)) => Occurrences(w_last, TRUE) > 0
  <2> DEFINE head == Head(w_last)
             yes  == TRUE
             Flags == BOOLEAN
  <2>1. taken => head \in BOOLEAN
    BY <1>3, <1>6, HeadTailProperties
  <2>2. w_last \in Seq(Flags)
    BY <1>3
  <2>3. taken /\ head => Head(w_last) = yes
    <3> HIDE DEF head
    <3>1. taken /\ head => head = yes
      BY <2>1
    <3> QED BY <3>1 DEF head
  <2> HIDE DEF head, yes, Flags
  <2>4. taken /\ head => Occurrences(w_last, yes) > 0
    BY <1>6, <2>2, <2>3, OccurrencesHead
  <2> QED BY <2>4 DEF head, yes
<1>13. Len(w_last') <= MetaFifoDepth
  <2>1. emits => Len(w_last) < MetaFifoDepth
    BY EmitsIntoRoom DEF emits
  <2> DEFINE t == One(taken)
             e == One(emits)
             n == Len(w_last)
  <2>2. t \in 0..1 /\ (e = 0 \/ (e = 1 /\ n < MetaFifoDepth)) /\ n \in Nat /\ n <= MetaFifoDepth
    BY <1>3, <1>4, <1>5, <2>1 DEF One
  <2>3. Len(w_last') = n - t + e
    BY <1>10
  <2> HIDE DEF t, e, n
  <2>4. n - t + e <= MetaFifoDepth
    BY <1>3, <2>2
  <2> QED BY <2>3, <2>4
<1>14. rsp_full' \in BOOLEAN
  BY <1>1
<1>15. mem' \in [aws : Nat, ws : Nat]
  <2> DEFINE b == BTaken(i)
             a == AwTaken(i) /\ Head(aw) = "AXI"
             w == TakesPort(i) /\ WReq.proto = "AXI"
  <2>1. b => mem.aws > 0 /\ mem.ws > 0
    BY DEF BTaken, MuxValid, BOffered
  <2>2. mem' = [aws |-> mem.aws + One(a) - One(b), ws |-> mem.ws + One(w) - One(b)]
    BY <1>1
  <2> HIDE DEF a, b, w
  <2>3. mem.aws + One(a) - One(b) \in Nat /\ mem.ws + One(w) - One(b) \in Nat
    BY <1>3, <2>1, SMTT(60) DEF One
  <2> QED BY <2>2, <2>3
<1>16. FlagPerBurst'
  <2> DEFINE had == "rsp" \in forked
             has == "rsp" \in forked'
  <2>1. Len(w_dp') = Len(w_dp) - One(pop) + One(emits)
    <3>1. Len(w_dp') = Len(w_dp) - One(pop) + Len(WPush)
      BY WriteTyped
    <3>2. Len(WPush) = One(emits)
      BY DEF WPush, emits, One
    <3> QED BY <3>1, <3>2
  <2>2. One(has) = One(had) + One(takes) - One(pop)
    <3>1. forked' = IF pop THEN {} ELSE Forked(i)
      BY DEF WriteSide
    <3>2. "rsp" \in Forked(i) <=> had \/ takes
      BY ForkStep DEF takes
    <3>3. takes => ~had
      BY <1>7
    <3>4. pop \in BOOLEAN /\ has \in BOOLEAN /\ had \in BOOLEAN
      OBVIOUS
    <3>5. /\ pop => (had \/ takes) /\ ~has
          /\ ~pop => (has <=> had \/ takes)
      BY <3>1, <3>2
    <3> HIDE DEF pop, has, had
    <3> QED BY <1>7, <3>3, <3>4, <3>5 DEF One
  <2>3. Len(w_last) = Len(rsp_order) + Len(w_dp) - One(had)
    BY <1>2 DEF FlagPerBurst
  <2> HIDE DEF pop, has, had
  <2> DEFINE p == One(pop)      h == One(has)     d == One(had)
             s == One(takes)    t == One(taken)   e == One(emits)
             o == Len(rsp_order)   q == Len(w_dp)
  <2>4. /\ p \in Int /\ h \in Int /\ d \in Int /\ s \in Int /\ t \in Int /\ e \in Int
        /\ o \in Int /\ q \in Int
    BY <1>4 DEF One
  <2>5. /\ Len(w_last') = (o + q - d) - t + e /\ Len(rsp_order') = o - t + s
        /\ Len(w_dp') = q - p + e /\ h = d + s - p
    BY <1>9, <1>10, <2>1, <2>2, <2>3
  <2> HIDE DEF p, h, d, s, t, e, o, q
  <2>6. (o + q - d) - t + e = (o - t + s) + (q - p + e) - h
    BY <2>4, <2>5
  <2>7. Len(w_last') = Len(rsp_order') + Len(w_dp') - h
    BY <2>5, <2>6
  <2> QED BY <2>7 DEF FlagPerBurst, h, has
<1> QED BY <1>9, <1>10, <1>11, <1>12, <1>13, <1>14, <1>15, <1>16 DEF emits, flag

(* The write half is done with once its last burst left.                   *)
LEMMA WriteHalfStep ==
    ASSUME LegP!IInv, NEW i \in Inputs, Proceed(i)
    PROVE  w_tf'.valid <=> w_tf.valid /\ ~(WEmits /\ Leg!WDone)
<1> DEFINE rr == RReady
           ww == WReady
           n  == LegP!WNumBytesPossible
<1>1. rr \in BOOLEAN /\ ww \in BOOLEAN
  BY DEF RReady, WReady
<1>2. Leg!Advance(rr, ww)
  BY DEF Proceed
<1> HIDE DEF rr, ww
<1>3. LegP!Advance(rr, ww)
  BY <1>1, <1>2, LegalizerAdvances
<1>4. w_tf' = IF LegP!WEnable(rr, ww) THEN LegP!NextHalf(w_tf, n) ELSE w_tf
  BY <1>3 DEF LegP!Advance
<1>5. w_tf \in LegP!HalfType /\ LegP!TypeOK
  BY DEF LegP!IInv, LegP!TypeOK
<1>6. n \in Nat \ {0}
  BY <1>5, LegP!PossiblePositive, LegalizerConstants
<1>7. /\ WEmits <=> w_tf.valid /\ LegP!WEnable(rr, ww)
      /\ Leg!WDone <=> LegP!HalfDone(w_tf, n)
  BY SameLegalizer DEF LegP!WValid, LegP!WDone, rr, ww
<1> HIDE DEF n
<1>8. /\ LegP!HalfDone(w_tf, n) => LegP!NextHalf(w_tf, n).valid = FALSE
      /\ ~LegP!HalfDone(w_tf, n) => LegP!NextHalf(w_tf, n).valid = w_tf.valid
  BY <1>5, <1>6, LegP!HalfStep, LegalizerConstants
<1>9. CASE LegP!WEnable(rr, ww)
  BY <1>4, <1>7, <1>8, <1>9
<1>10. CASE ~LegP!WEnable(rr, ww)
  BY <1>4, <1>7, <1>10
<1> QED BY <1>9, <1>10

(* A transfer is taken in together with the last burst of the one before.  *)
LEMMA RefillStep ==
    ASSUME LegP!IInv, NEW i \in Inputs, NEW req \in Requests, Accept(i, req)
    PROVE  /\ w_tf'.valid = TRUE
           /\ w_tf.valid => WEmits /\ Leg!WDone
           /\ WEmits => w_tf.valid
           /\ req.length \in Nat \ {0} /\ req.src_addr \in Nat /\ req.dst_addr \in Nat
<1>1. RReady /\ WReady /\ Leg!Refill(req)
  BY DEF Accept
<1>2. LegP!Refill(req)
  BY <1>1, LegalizerRefills
<1>3. w_tf'.valid = TRUE /\ LegP!WDone
  BY <1>2 DEF LegP!Refill, LegP!Load, LegP!Ready
<1>4. /\ WEmits <=> w_tf.valid /\ LegP!WEnable(RReady, WReady)
      /\ Leg!WDone <=> LegP!WDone
  BY SameLegalizer DEF LegP!WValid
<1>5. LegP!WEnable(RReady, WReady)
  BY <1>1 DEF LegP!WEnable
<1>6. req \in LegP!RequestType
  BY LegalizerConstants DEF LegP!LegalizerAssumption
<1>7. AddrSpace \in Nat
  BY Sizes
<1> QED BY <1>3, <1>4, <1>5, <1>6, <1>7 DEF LegP!RequestType

(* The transfers without a response and the flags that are to come.        *)
LEMMA PendingStep ==
    ASSUME CtlInv, NEW i \in Inputs, Cycle(i)
    PROVE  /\ pending' \in Seq(PendingType) /\ issued' \in Nat
           /\ LastFlagPerTransfer'
<1>1. /\ WriteSide(i) /\ ResponseSide(i)
      /\ Proceed(i) \/ \E req \in Requests : Accept(i, req)
  BY DEF Cycle
<1> DEFINE out   == IF Answered(i) THEN 1 ELSE 0
           in    == IF WEmits /\ Leg!WDone THEN 1 ELSE 0
           flags == Occurrences(w_last, TRUE)
           new   == Occurrences(w_last', TRUE)
           v     == One(w_tf.valid)
           n     == Len(pending)
<1>2. /\ flags \in Nat /\ new \in Nat /\ (Answered(i) => flags > 0)
      /\ new = flags - out + in
  BY <1>1, ResponseTyped
<1>3. pending \in Seq(PendingType) /\ issued \in Nat /\ LegP!IInv
  BY DEF CtlInv, Typed
<1>4. n \in Nat /\ (pending = <<>> <=> n = 0)
  BY <1>3, LenProperties, EmptySeq
<1>5. flags + v = n /\ v \in 0..1
  <2>1. flags + v = n
    BY DEF CtlInv, LastFlagPerTransfer
  <2>2. v \in 0..1
    BY DEF One
  <2> HIDE DEF flags, v, n
  <2> QED BY <2>1, <2>2
<1>6. Answered(i) => pending # <<>>
  <2>1. Answered(i) => flags > 0
    BY <1>2
  <2> HIDE DEF flags, v, n
  <2> QED BY <1>2, <1>4, <1>5, <2>1
<1>7. /\ Progress(i) \in Seq(PendingType)
      /\ Len(Progress(i)) = n - out
  <2>1. /\ Progress(i) \in Seq(PendingType)
        /\ Len(Progress(i)) = n - One(Answered(i))
    BY <1>6, ProgressTyped
  <2>2. One(Answered(i)) = out
    BY DEF One
  <2> QED BY <2>1, <2>2
<1>8. out \in 0..1 /\ in \in 0..1
  OBVIOUS
<1>9. CASE Proceed(i)
  <2>1. pending' = Progress(i) /\ issued' = issued
    BY <1>9 DEF Proceed
  <2>2. w_tf'.valid <=> w_tf.valid /\ ~(WEmits /\ Leg!WDone)
    BY <1>3, <1>9, WriteHalfStep
  <2>3. WEmits => w_tf.valid
    BY EmitsIntoRoom
  <2>4. One(w_tf'.valid) = v - in
    BY <2>2, <2>3 DEF One
  <2>5. Len(pending') = n - out
    BY <1>7, <2>1
  <2> HIDE DEF out, in, flags, new, v, n
  <2>6. new + (v - in) = n - out
    BY <1>2, <1>4, <1>5, <1>8
  <2>7. new + One(w_tf'.valid) = Len(pending')
    BY <2>4, <2>5, <2>6
  <2> QED BY <1>3, <1>7, <2>1, <2>7 DEF LastFlagPerTransfer, new
<1>10. ASSUME NEW req \in Requests, Accept(i, req)
       PROVE  /\ pending' \in Seq(PendingType) /\ issued' \in Nat
              /\ LastFlagPerTransfer'
  <2> DEFINE item == [id |-> issued + 1, length |-> req.length, copied |-> 0]
  <2>1. pending' = Append(Progress(i), item) /\ issued' = issued + 1
    BY <1>10 DEF Accept
  <2>2. /\ w_tf'.valid = TRUE
        /\ w_tf.valid => WEmits /\ Leg!WDone
        /\ WEmits => w_tf.valid
        /\ req.length \in Nat
    BY <1>3, <1>10, RefillStep
  <2>3. item \in PendingType
    BY <1>3, <2>2 DEF PendingType
  <2>4. v = in
    BY <2>2 DEF One
  <2>5. One(w_tf'.valid) = 1
    BY <2>2 DEF One
  <2> HIDE DEF item
  <2>6. pending' \in Seq(PendingType) /\ Len(pending') = Len(Progress(i)) + 1
    BY <1>7, <2>1, <2>3, AppendProperties
  <2>7. Len(pending') = n - out + 1
    BY <1>7, <2>6
  <2> HIDE DEF out, in, flags, new, v, n
  <2>8. new + 1 = n - out + 1
    BY <1>2, <1>4, <1>5, <1>8, <2>4
  <2>9. new + One(w_tf'.valid) = Len(pending')
    BY <2>5, <2>7, <2>8
  <2>10. issued' \in Nat
    BY <1>3, <2>1
  <2> QED BY <2>6, <2>9, <2>10 DEF LastFlagPerTransfer, new
<1> QED BY <1>1, <1>9, <1>10

(* The control invariant holds after reset.                                *)
LEMMA ControlInit == Init => CtlInv
<1> SUFFICES ASSUME Init PROVE CtlInv
  OBVIOUS
<1>1. LegP!IInv
  BY LegalizerConstants, LegalizerInit, LegP!InitInv DEF Init
<1>2. /\ r_dp = <<>> /\ ar_waits = FALSE /\ first_r = TRUE /\ r_beat = 0
      /\ w_dp = <<>> /\ forked = {} /\ aw = <<>>
      /\ w_num_beats = 0 /\ w_cnt_valid = FALSE
      /\ rsp_order = <<>> /\ rsp_full = FALSE /\ w_last = <<>>
      /\ mem = [aws |-> 0, ws |-> 0]
      /\ issued = 0 /\ pending = <<>> /\ w_tf.valid = FALSE
  BY DEF Init, Leg!Init, Leg!NoTransfer
<1>3. /\ <<>> \in Seq(ReadType) /\ <<>> \in Seq(WriteType) /\ <<>> \in Seq(Protocols)
      /\ <<>> \in Seq(BOOLEAN) /\ <<>> \in Seq(PendingType) /\ Len(<<>>) = 0
  BY EmptySeq
<1>4. Typed
  <2>1. 0 <= NumAxInFlight /\ 0 <= MetaFifoDepth /\ 0 <= 2
    BY Sizes
  <2>2. /\ r_dp \in Seq(ReadType) /\ Len(r_dp) <= NumAxInFlight
        /\ w_dp \in Seq(WriteType) /\ Len(w_dp) <= NumAxInFlight
        /\ aw \in Seq(Protocols) /\ Len(aw) <= 2
        /\ rsp_order \in Seq(Protocols) /\ Len(rsp_order) <= NumAxInFlight
        /\ w_last \in Seq(BOOLEAN) /\ Len(w_last) <= MetaFifoDepth
        /\ pending \in Seq(PendingType)
    BY <1>2, <1>3, <2>1
  <2>3. mem \in [aws : Nat, ws : Nat]
    BY <1>2
  <2>4. /\ ar_waits \in BOOLEAN /\ first_r \in BOOLEAN /\ r_beat \in Nat /\ issued \in Nat
        /\ w_num_beats \in Nat /\ w_cnt_valid \in BOOLEAN /\ rsp_full \in BOOLEAN
    BY <1>2
  <2> QED BY <2>2, <2>3, <2>4 DEF Typed
<1>5. Forking
  BY <1>2 DEF Forking
<1>6. FlagPerBurst
  BY <1>2, <1>3 DEF FlagPerBurst, One
<1>7. LastFlagPerTransfer
  <2> DEFINE yes == TRUE
  <2> HIDE DEF yes
  <2>1. Occurrences(<<>>, yes) = 0
    BY OccurrencesEmpty
  <2>2. Occurrences(w_last, TRUE) = 0
    BY <1>2, <2>1 DEF yes
  <2>3. One(w_tf.valid) = 0 /\ Len(pending) = 0
    BY <1>2, <1>3 DEF One
  <2> DEFINE v == One(w_tf.valid)
             flags == Occurrences(w_last, TRUE)
  <2>4. flags + v = Len(pending)
    <3>1. flags = 0 /\ v = 0 /\ Len(pending) = 0
      BY <2>2, <2>3
    <3> HIDE DEF flags, v
    <3> QED BY <3>1
  <2> QED BY <2>4 DEF LastFlagPerTransfer
<1> QED BY <1>1, <1>4, <1>5, <1>6, <1>7 DEF CtlInv

(* Every cycle keeps the control invariant.                                *)
LEMMA ControlStep == CtlInv /\ [Next]_vars => CtlInv'
<1> SUFFICES ASSUME CtlInv, [Next]_vars PROVE CtlInv'
  OBVIOUS
<1>1. ASSUME NEW i \in Inputs, Cycle(i) PROVE CtlInv'
  <2>1. /\ ReadSide(i) /\ WriteSide(i) /\ ResponseSide(i)
    BY <1>1 DEF Cycle
  <2>2. LegP!IInv'
    <3>1. LegP!IInv /\ LegP!Next
      BY <1>1, LegalizerStep DEF CtlInv
    <3> QED BY <3>1, LegP!NextInv, LegalizerConstants
  <2>3. Typed'
    BY <1>1, <2>1, ReadTyped, WriteTyped, ResponseTyped, PendingStep DEF Typed
  <2>4. Forking' /\ FlagPerBurst' /\ LastFlagPerTransfer'
    BY <1>1, <2>1, WriteTyped, ResponseTyped, PendingStep
  <2> QED BY <2>2, <2>3, <2>4 DEF CtlInv
<1>2. CASE UNCHANGED vars
  BY <1>2, ZenonT(60) DEF vars, legVars, readVars, writeVars, rspVars, CtlInv, Typed, Forking, WReq,
      FlagPerBurst, LastFlagPerTransfer,
      LegP!IInv, LegP!TypeOK, LegP!BurstsTile, LegP!ReadTiles, LegP!WriteTiles,
      LegP!BurstsContiguous, LegP!CoupledLockstep, LegP!Coupled, LegP!OneLast,
      LegP!KilledIdle, LegP!HalvesNonEmpty
<1> QED BY <1>1, <1>2 DEF Next

(* Every queue keeps its depth and every write burst in the backend has    *)
(* its last flag and its place among the responses.                        *)
THEOREM Control == Spec => []CtlInv
BY ControlInit, ControlStep, PTL DEF Spec

(* No response is lost and none is given twice: the last flags queued are  *)
(* those of the transfers without a response.                              *)
THEOREM ResponsePerTransfer == Spec => []LastFlagPerTransfer
<1>1. CtlInv => LastFlagPerTransfer
  BY DEF CtlInv
<1> QED BY <1>1, Control, PTL

----------------------------------------------------------------------------
(* Bytes.  The bytes of all transfers in the order of their issue form one *)
(* stream.  A layout of it says where a transfer starts in the stream,     *)
(* which byte has which position and in which lane of the buffer it is.    *)

Starts == [Nat -> Nat]
LaneMaps == [Nat -> Lanes]
ByteMaps == [Nat -> Nat \X Nat]

(* Where a request ends, counted in lanes from the first of its first beat. *)
End(beats, tailer) == StrbWidth * (beats - 1) + (IF tailer = 0 THEN StrbWidth ELSE tailer)

(* The bytes of a read request, which the hardware only knows by its beats. *)
RLen(q) == End(q.beats, q.tailer) - q.offset

First(start, q) == start[q.id] + q.from

ReadFits(start, lane, byte, top, q) ==
    /\ RLen(q) > 0
    /\ First(start, q) + RLen(q) <= top
    /\ \A x \in 0..RLen(q)-1 :
          /\ byte[First(start, q) + x] = <<q.id, q.from + x>>
          /\ (lane[First(start, q) + x] + q.shift) % StrbWidth = (q.offset + x) % StrbWidth
    /\ q.proto = "AXI_STREAM" => q.beats = 1

WriteFits(start, lane, byte, top, q) ==
    /\ End(q.num_beats + 1, q.tailer) = q.offset + q.bytes
    /\ First(start, q) + q.bytes <= top
    /\ \A x \in 0..q.bytes-1 :
          /\ byte[First(start, q) + x] = <<q.id, q.from + x>>
          /\ lane[First(start, q) + x] = (q.offset + x + q.shift) % StrbWidth

(* The requests queued are those of consecutive pieces of the stream.      *)
Reads(start, lane, byte, top) == {q \in ReadType : ReadFits(start, lane, byte, top, q)}
ReadFirst(start) == [q \in ReadType |-> First(start, q)]
ReadEnd(start) == [q \in ReadType |-> First(start, q) + RLen(q)]

ReadQueue(start, lane, byte, top, rend) ==
    /\ r_dp \in Seq(Reads(start, lane, byte, top))
    /\ Chain(r_dp, ReadFirst(start), ReadEnd(start), rend)
    /\ r_dp = <<>> => r_beat = 0
    /\ r_dp # <<>> => r_beat < RReq.beats
    /\ first_r <=> r_beat = 0

Writes(start, lane, byte, top) == {q \in WriteType : WriteFits(start, lane, byte, top, q)}
WriteFirst(start) == [q \in WriteType |-> First(start, q)]
WriteEnd(start) == [q \in WriteType |-> First(start, q) + q.bytes]

WriteQueue(start, lane, byte, top, wend) ==
    /\ w_dp \in Seq(Writes(start, lane, byte, top))
    /\ Chain(w_dp, WriteFirst(start), WriteEnd(start), wend)

ReadAt(start, rend) ==
    IF r_dp = <<>> THEN rend
    ELSE First(start, RReq) + (IF r_beat = 0 THEN 0 ELSE StrbWidth * r_beat - RReq.offset)

WriteAt(start, wend) ==
    IF w_dp = <<>> THEN wend
    ELSE First(start, WReq) +
            (IF "port" \in forked THEN WReq.bytes
             ELSE IF ~w_cnt_valid THEN 0 ELSE StrbWidth * BeatsWritten - WReq.offset)

Pos(start, b) == start[b[1]] + b[2]

HeldIn(buf, start, lane, byte, from, to) ==
    /\ from <= to
    /\ \A l \in Lanes : \A k \in 1..Len(buf[l]) :
          LET p == Pos(start, buf[l][k])
          IN  p \in from..to-1 /\ lane[p] = l /\ byte[p] = buf[l][k]
    /\ \A p \in from..to-1 : \E k \in 1..Len(buf[lane[p]]) : buf[lane[p]][k] = byte[p]
    /\ \A l \in Lanes : \A k, j \in 1..Len(buf[l]) :
          j < k => Pos(start, buf[l][j]) < Pos(start, buf[l][k])

Held(start, lane, byte, from, to) == HeldIn(buffer, start, lane, byte, from, to)

Base == IF CombinedShifter THEN job.dst_addr ELSE 0

(* The layout numbers the bytes up to top.                                 *)
Numbered(start, byte, top) ==
    \A p \in 0..top-1 : byte[p][1] <= issued /\ Pos(start, byte[p]) = p

(* The bytes of the transfer last taken in are the newest of the stream.   *)
Newest(start, lane, byte) ==
    \A x \in 0..job.length-1 :
        /\ byte[start[issued] + x] = <<issued, x>>
        /\ lane[start[issued] + x] = (Base + x) % StrbWidth

(* Up to `top` bytes were taken in, up to `rend` and `wend` their reads    *)
(* and writes left the legalizer, up to r they are read and up to w written. *)
InFlight(start, lane, byte, top, rend, wend, w, r) ==
    /\ ReadQueue(start, lane, byte, top, rend)
    /\ WriteQueue(start, lane, byte, top, wend)
    /\ w = WriteAt(start, wend) /\ r = ReadAt(start, rend) /\ r <= top
    /\ Held(start, lane, byte, w, r)

Layout(start, lane, byte, top, rend, wend, w, r) ==
    /\ Numbered(start, byte, top) /\ Newest(start, lane, byte)
    /\ InFlight(start, lane, byte, top, rend, wend, w, r)

Data(start, lane, byte) ==
    \E top, rend, wend, w, r \in Nat :
        /\ top = start[issued] + job.length
        /\ rend = start[issued] + job.read /\ wend = start[issued] + job.written
        /\ Layout(start, lane, byte, top, rend, wend, w, r)

----------------------------------------------------------------------------
(* The lanes of a beat. *)

BeatLanes(offset, tailer, beats, k) ==
    (IF k = 0 THEN FirstMask(offset) ELSE Lanes)
        \cap (IF k = beats - 1 THEN LastMask(tailer) ELSE Lanes)

(* The bytes of the request in beat k are those from BeatLo up to BeatHi.  *)
BeatLo(offset, k) == IF k = 0 THEN 0 ELSE StrbWidth * k - offset

BeatHi(offset, tailer, beats, k) ==
    IF k = beats - 1 THEN End(beats, tailer) - offset ELSE StrbWidth * (k + 1) - offset

(* Adding the same to two lanes keeps them apart.                          *)
LEMMA ModInject ==
    ASSUME NEW m \in Nat \ {0}, NEW a \in Int, NEW b \in Int, NEW s \in Int,
           a - b < m, b - a < m, (a + s) % m = (b + s) % m
    PROVE  a = b
<1> DEFINE c == a + s
           d == b + s
           p == c \div m
           q == d \div m
           r == c % m
<1>1. c \in Int /\ d \in Int /\ c - d = a - b
  OBVIOUS
<1> HIDE DEF c, d
<1>2. c = m * p + r /\ p \in Int /\ r \in 0..m-1
  BY <1>1, DivMod
<1>3. d = m * q + (d % m) /\ q \in Int /\ d % m = r
  BY <1>1, DivMod DEF c, d
<1> HIDE DEF p, q, r
<1>4. m * (p - q) = c - d /\ m * (q - p) = d - c /\ p - q \in Int /\ q - p \in Int
  BY <1>1, <1>2, <1>3
<1>5. ~(p - q >= 1)
  BY <1>1, <1>4, MulAtLeast
<1>6. ~(q - p >= 1)
  BY <1>1, <1>4, MulAtLeast
<1>7. p = q
  BY <1>2, <1>3, <1>5, <1>6
<1> QED BY <1>1, <1>2, <1>3, <1>7

(* The products of a beat's number, as far as they matter.                 *)
LEMMA BeatProducts ==
    ASSUME NEW beats \in Nat \ {0}, NEW k \in 0..beats-1
    PROVE  /\ StrbWidth * k \in Nat /\ StrbWidth * (beats - 1) \in Nat
           /\ StrbWidth * (k + 1) = StrbWidth * k + StrbWidth
           /\ k = 0 => StrbWidth * k = 0
           /\ k # 0 => StrbWidth * k >= StrbWidth
           /\ k = beats - 1 => StrbWidth * k = StrbWidth * (beats - 1)
           /\ k # beats - 1 => StrbWidth * k + StrbWidth <= StrbWidth * (beats - 1)
<1> DEFINE m == StrbWidth
<1>1. m \in Nat \ {0}
  BY Sizes
<1> HIDE DEF m
<1>2. m * k \in Nat /\ m * (beats - 1) \in Nat /\ m * (k + 1) = m * k + m
  BY <1>1
<1>3. k # 0 => m * k >= m
  BY <1>1, MulAtLeast
<1>4. k # beats - 1 => m * k + m <= m * (beats - 1)
  <2> SUFFICES ASSUME k # beats - 1 PROVE m * k + m <= m * (beats - 1)
    OBVIOUS
  <2> DEFINE d == beats - 1 - k
  <2>1. d \in Int /\ d >= 1 /\ beats - 1 = k + d /\ k \in Int
    OBVIOUS
  <2> HIDE DEF d
  <2>2. m * d >= m /\ m * d \in Int
    BY <1>1, <2>1, MulAtLeast
  <2>3. m * (k + d) = m * k + m * d
    BY <1>1, <2>1
  <2> DEFINE x == m * k
             y == m * d
  <2>4. x \in Int /\ y \in Int /\ y >= m
    BY <1>2, <2>2
  <2>5. m * (beats - 1) = x + y
    BY <2>1, <2>3
  <2> HIDE DEF x, y
  <2>6. x + m <= x + y
    BY <1>1, <2>4
  <2> QED BY <2>5, <2>6 DEF x
<1>5. k = 0 => m * k = 0
  BY <1>1
<1> QED BY <1>2, <1>3, <1>4, <1>5 DEF m

(* A beat carries exactly the bytes of the request that lie in its word.   *)
LEMMA BeatBytes ==
    ASSUME NEW offset \in Lanes, NEW tailer \in Lanes, NEW beats \in Nat \ {0},
           NEW k \in 0..beats-1, End(beats, tailer) - offset > 0
    PROVE  /\ BeatLo(offset, k) \in Nat /\ BeatHi(offset, tailer, beats, k) \in Nat
           /\ BeatLo(offset, k) < BeatHi(offset, tailer, beats, k)
           /\ BeatHi(offset, tailer, beats, k) <= End(beats, tailer) - offset
           /\ End(beats, tailer) \in Int
           /\ k = beats - 1 => BeatHi(offset, tailer, beats, k) = End(beats, tailer) - offset
           /\ k # beats - 1 => BeatHi(offset, tailer, beats, k) = BeatLo(offset, k + 1)
           /\ \A l \in Lanes : l \in BeatLanes(offset, tailer, beats, k)
                  <=> StrbWidth * k + l - offset \in BeatLo(offset, k)..BeatHi(offset, tailer, beats, k)-1
           /\ \A l \in Lanes : StrbWidth * k + l - offset \in 0..(End(beats, tailer) - offset)-1
                  => StrbWidth * k + l - offset \in BeatLo(offset, k)..BeatHi(offset, tailer, beats, k)-1
           /\ \A x \in BeatLo(offset, k)..BeatHi(offset, tailer, beats, k)-1 :
                  offset + x - StrbWidth * k \in Lanes
<1> DEFINE m == StrbWidth
           K == StrbWidth * k
           K1 == StrbWidth * (k + 1)
           E == StrbWidth * (beats - 1)
           T == IF tailer = 0 THEN StrbWidth ELSE tailer
           e == End(beats, tailer)
           lo == BeatLo(offset, k)
           lo1 == BeatLo(offset, k + 1)
           hi == BeatHi(offset, tailer, beats, k)
<1>1. m \in Nat \ {0} /\ Lanes = 0..m-1
  BY Sizes DEF Lanes
<1>2. /\ K \in Nat /\ E \in Nat /\ K1 = K + m
      /\ (k = 0 => K = 0) /\ (k # 0 => K >= m)
      /\ (k = beats - 1 => K = E) /\ (k # beats - 1 => K + m <= E)
  BY BeatProducts
<1>3. /\ e = E + T
      /\ lo = (IF k = 0 THEN 0 ELSE K - offset)
      /\ hi = (IF k = beats - 1 THEN e - offset ELSE K1 - offset)
  BY DEF End, BeatLo, BeatHi
<1>4. lo1 = K1 - offset
  <2>1. k + 1 # 0
    OBVIOUS
  <2> QED BY <2>1 DEF BeatLo
<1>5. T \in 1..m /\ offset \in 0..m-1
  BY <1>1
<1>6. e - offset > 0
  OBVIOUS
<1>7. \A l \in Lanes : l \in BeatLanes(offset, tailer, beats, k)
          <=> (k = 0 => l >= offset) /\ (k = beats - 1 => l < T)
  <2> SUFFICES ASSUME NEW l \in Lanes
               PROVE  l \in BeatLanes(offset, tailer, beats, k)
                          <=> (k = 0 => l >= offset) /\ (k = beats - 1 => l < T)
    OBVIOUS
  <2>1. l \in LastMask(tailer) <=> l < T
    BY <1>1 DEF LastMask
  <2>2. l \in FirstMask(offset) <=> l >= offset
    BY DEF FirstMask
  <2> QED BY <2>1, <2>2 DEF BeatLanes
<1> HIDE DEF m, K, K1, E, T, e, lo, lo1, hi
<1>8. /\ lo \in Nat /\ hi \in Nat /\ lo < hi /\ hi <= e - offset /\ e \in Int
      /\ (k = beats - 1 => hi = e - offset) /\ (k # beats - 1 => hi = lo1)
  BY <1>1, <1>2, <1>3, <1>4, <1>5, <1>6
<1>9. \A l \in 0..m-1 : (k = 0 => l >= offset) /\ (k = beats - 1 => l < T)
          <=> K + l - offset \in lo..hi-1
  BY <1>1, <1>2, <1>3, <1>5, <1>6
<1>10. \A l \in 0..m-1 : K + l - offset \in 0..(e - offset)-1 => K + l - offset \in lo..hi-1
  BY <1>1, <1>2, <1>3, <1>5, <1>6
<1>11. \A x \in lo..hi-1 : offset + x - K \in Lanes
  BY <1>1, <1>2, <1>3, <1>5, <1>6
<1>12. \A l \in Lanes : l \in BeatLanes(offset, tailer, beats, k) <=> K + l - offset \in lo..hi-1
  BY <1>1, <1>7, <1>9, Zenon
<1>13. \A l \in Lanes : K + l - offset \in 0..(e - offset)-1 => K + l - offset \in lo..hi-1
  BY <1>1, <1>10, Zenon
<1> QED BY <1>8, <1>11, <1>12, <1>13, Zenon DEF K, e, lo, lo1, hi

(* The place of a byte of beat k in its lane.                              *)
LEMMA LaneOfBeat ==
    ASSUME NEW k \in Nat, NEW b \in Lanes
    PROVE  /\ StrbWidth * k \in Nat /\ (StrbWidth * k + b) % StrbWidth = b
           /\ \A s \in Int : (StrbWidth * k + b + s) % StrbWidth = (b + s) % StrbWidth
<1> DEFINE m == StrbWidth
           K == m * k
<1>1. m \in Nat \ {0} /\ b \in 0..m-1 /\ k \in Int
  BY Sizes DEF Lanes
<1> HIDE DEF m
<1>2. K \in Nat /\ (K + b) % m = b
  BY <1>1, DivModOf
<1>3. \A s \in Int : (K + b + s) % m = (b + s) % m
  <2> SUFFICES ASSUME NEW s \in Int PROVE (K + b + s) % m = (b + s) % m
    OBVIOUS
  <2> HIDE DEF K
  <2> DEFINE c == K + b
  <2>1. c \in Int /\ c % m = b
    BY <1>1, <1>2
  <2> HIDE DEF c
  <2>2. ((c % m) + s) % m = (c + s) % m
    BY <1>1, <2>1, ModAdd
  <2> QED BY <2>1, <2>2 DEF c
<1> QED BY <1>2, <1>3 DEF m

(* The lanes a beat of a read fills and what it puts there.                *)
LanesIn(q, k) == Shifted(BeatLanes(q.offset, q.tailer, q.beats, k), q.shift)

BeatByte(q, k, l) ==
    <<q.id, q.from + k * StrbWidth - q.offset + ((l + q.shift) % StrbWidth)>>

(* Requests begin at a position.                                           *)
LEMMA FirstIsNat ==
    ASSUME NEW start \in Starts, NEW q, q.id \in Nat, q.from \in Nat
    PROVE  First(start, q) \in Nat
<1> USE DEF Starts, LaneMaps, ByteMaps
<1> DEFINE a == start[q.id]
           f == q.from
<1>1. a \in Nat /\ f \in Nat
  OBVIOUS
<1>2. First(start, q) = a + f
  BY DEF First
<1> HIDE DEF a, f
<1> QED BY <1>1, <1>2

(* A read beat brings the bytes of the request that are next, each to its  *)
(* lane, and no other.                                                     *)
BeatBrings(start, lane, byte, q, k) ==
    /\ \A x \in BeatLo(q.offset, k)..BeatHi(q.offset, q.tailer, q.beats, k)-1 :
           /\ lane[First(start, q) + x] \in LanesIn(q, k)
           /\ BeatByte(q, k, lane[First(start, q) + x]) = byte[First(start, q) + x]
    /\ \A l \in LanesIn(q, k) :
           \E x \in BeatLo(q.offset, k)..BeatHi(q.offset, q.tailer, q.beats, k)-1 :
               lane[First(start, q) + x] = l

LEMMA ReadBeat ==
    ASSUME NEW start \in Starts, NEW lane \in LaneMaps, NEW byte \in ByteMaps,
           NEW top, NEW q \in ReadType, ReadFits(start, lane, byte, top, q),
           NEW k \in 0..q.beats-1
    PROVE  BeatBrings(start, lane, byte, q, k)
<1> USE DEF Starts, LaneMaps, ByteMaps
<1> DEFINE m == StrbWidth
           K == StrbWidth * k
           o == q.offset
           s == q.shift
           F == First(start, q)
           lo == BeatLo(q.offset, k)
           hi == BeatHi(q.offset, q.tailer, q.beats, k)
           len == RLen(q)
<1>1. /\ q.offset \in Lanes /\ q.tailer \in Lanes /\ q.beats \in Nat \ {0} /\ q.shift \in Lanes
      /\ q.id \in Nat /\ q.from \in Nat
  BY DEF ReadType
<1>2. m \in Nat \ {0} /\ Lanes = 0..m-1 /\ s \in Int /\ o \in Int /\ F \in Nat /\ k \in Nat
  <2>1. m \in Nat \ {0} /\ Lanes = 0..m-1
    BY Sizes DEF Lanes
  <2>3. F \in Nat
    BY <1>1, FirstIsNat
  <2>4. o \in 0..m-1 /\ s \in 0..m-1
    BY <1>1, <2>1, Zenon
  <2> HIDE DEF m, o, s
  <2> QED BY <2>1, <2>3, <2>4
<1>3. /\ lo \in Nat /\ hi \in Nat /\ hi <= len /\ len \in Int
      /\ \A l \in Lanes : l \in BeatLanes(q.offset, q.tailer, q.beats, k) <=> K + l - o \in lo..hi-1
      /\ \A x \in lo..hi-1 : o + x - K \in Lanes
  <2>1. RLen(q) > 0 /\ RLen(q) = End(q.beats, q.tailer) - q.offset
    BY DEF ReadFits, RLen
  <2>2. End(q.beats, q.tailer) - q.offset > 0
    BY <2>1, Zenon
  <2> DEFINE e == End(q.beats, q.tailer)
  <2>3. /\ lo \in Nat /\ hi \in Nat /\ hi <= e - o /\ e \in Int
        /\ \A l \in Lanes : l \in BeatLanes(q.offset, q.tailer, q.beats, k) <=> K + l - o \in lo..hi-1
        /\ \A x \in lo..hi-1 : o + x - K \in Lanes
    BY <1>1, <2>2, BeatBytes
  <2>4. len = e - o
    BY <2>1
  <2> HIDE DEF e, len, o, hi, lo, K
  <2>5. hi <= len /\ len \in Int
    BY <1>2, <2>3, <2>4
  <2> QED BY <2>3, <2>5, Zenon
<1>4. \A x \in 0..len-1 : /\ byte[F + x] = <<q.id, q.from + x>>
                          /\ (lane[F + x] + s) % m = (o + x) % m
  BY DEF ReadFits
<1>5. \A b \in Lanes : K \in Nat /\ (K + b) % m = b
  BY <1>2, LaneOfBeat
<1>6. \A l \in Lanes : /\ l \in LanesIn(q, k) <=> (l + s) % m \in BeatLanes(q.offset, q.tailer, q.beats, k)
                       /\ BeatByte(q, k, l) = <<q.id, q.from + k * m - o + ((l + s) % m)>>
  BY DEF LanesIn, Shifted, BeatByte
<1>7. LanesIn(q, k) \subseteq Lanes
  BY DEF LanesIn, Shifted
<1>8. K = k * m /\ K \in Nat
  BY <1>2
<1> HIDE DEF m, K, o, s, F, lo, hi, len
<1>9. ASSUME NEW x \in lo..hi-1
      PROVE  /\ o + x - K \in Lanes /\ (lane[F + x] + s) % m = o + x - K
             /\ byte[F + x] = <<q.id, q.from + x>> /\ lane[F + x] \in Lanes
  <2> DEFINE b == o + x - K
  <2>0. x \in Nat /\ x \in 0..len-1 /\ F + x \in Nat
    BY <1>2, <1>3
  <2>a. b \in Lanes
    BY <1>3
  <2>b. b \in Int /\ K + b = o + x
    BY <1>2, <1>8, <2>0
  <2> HIDE DEF b
  <2>1. b \in Lanes /\ b \in Int /\ K + b = o + x /\ x \in 0..len-1 /\ F + x \in Nat
    BY <2>0, <2>a, <2>b
  <2>2. (K + b) % m = b
    BY <1>5, <2>1
  <2>3. (lane[F + x] + s) % m = (o + x) % m /\ byte[F + x] = <<q.id, q.from + x>>
    BY <1>4, <2>1
  <2>4. lane[F + x] \in Lanes
    BY <2>1
  <2> QED BY <2>1, <2>2, <2>3, <2>4 DEF b
<1>10. ASSUME NEW x \in lo..hi-1
       PROVE  lane[F + x] \in LanesIn(q, k) /\ BeatByte(q, k, lane[F + x]) = byte[F + x]
  <2> DEFINE b == o + x - K
             l == lane[F + x]
  <2>1. b \in Lanes /\ (l + s) % m = b /\ byte[F + x] = <<q.id, q.from + x>> /\ l \in Lanes
    BY <1>9
  <2>2. K + b - o = x /\ q.from + k * m - o + b = q.from + x
    <3> DEFINE f == q.from
    <3>0. f \in Int
      BY <1>1, SMTT(60)
    <3> HIDE DEF f
    <3>1. x \in Int /\ K \in Int /\ o \in Int
      BY <1>2, <1>3, <1>8
    <3>2. K + b - o = x /\ f + K - o + b = f + x
      BY <3>0, <3>1
    <3> QED BY <1>8, <3>2, Zenon DEF f
  <2> HIDE DEF b, l
  <2>3. b \in BeatLanes(q.offset, q.tailer, q.beats, k)
    BY <1>3, <2>1, <2>2
  <2>4. l \in LanesIn(q, k)
    BY <1>6, <2>1, <2>3
  <2>5. BeatByte(q, k, l) = <<q.id, q.from + k * m - o + b>>
    BY <1>6, <2>1
  <2> QED BY <2>1, <2>2, <2>4, <2>5 DEF l
<1>11. ASSUME NEW l \in LanesIn(q, k)
       PROVE  \E x \in lo..hi-1 : lane[F + x] = l
  <2> DEFINE b == (l + s) % m
             x == K + b - o
  <2>1. l \in Lanes /\ b \in BeatLanes(q.offset, q.tailer, q.beats, k)
    BY <1>6, <1>7
  <2>2. b \in Lanes
    BY <2>1 DEF BeatLanes, FirstMask
  <2>3. x \in lo..hi-1
    BY <1>3, <2>1, <2>2
  <2>4. (lane[F + x] + s) % m = o + x - K /\ lane[F + x] \in Lanes
    BY <1>9, <2>3
  <2>5. o + x - K = b
    <3> HIDE DEF b
    <3> QED BY <1>2, <1>8, <2>2
  <2> HIDE DEF x
  <2> DEFINE n == lane[F + x]
  <2>6. n \in 0..m-1 /\ l \in 0..m-1 /\ (n + s) % m = (l + s) % m
    BY <1>2, <2>1, <2>4, <2>5
  <2> HIDE DEF n, b
  <2>7. n \in Int /\ l \in Int /\ n - l < m /\ l - n < m
    BY <1>2, <2>6
  <2>8. n = l
    BY <1>2, <2>6, <2>7, ModInject
  <2> QED BY <2>3, <2>8 DEF n
<1> QED BY <1>10, <1>11 DEF F, lo, hi, BeatBrings

(* How far a read beat reaches.                                            *)
LEMMA ReadBeatRange ==
    ASSUME NEW start, NEW lane, NEW byte, NEW top,
           NEW q \in ReadType, ReadFits(start, lane, byte, top, q), NEW k \in 0..q.beats-1
    PROVE  /\ BeatLo(q.offset, k) \in Nat /\ BeatHi(q.offset, q.tailer, q.beats, k) \in Nat
           /\ BeatLo(q.offset, k) < BeatHi(q.offset, q.tailer, q.beats, k)
           /\ BeatHi(q.offset, q.tailer, q.beats, k) <= RLen(q) /\ RLen(q) \in Nat
           /\ k = q.beats - 1 => BeatHi(q.offset, q.tailer, q.beats, k) = RLen(q)
           /\ k # q.beats - 1 => BeatHi(q.offset, q.tailer, q.beats, k) = BeatLo(q.offset, k + 1)
<1> DEFINE e == End(q.beats, q.tailer)
           o == q.offset
           lo == BeatLo(q.offset, k)
           hi == BeatHi(q.offset, q.tailer, q.beats, k)
           len == RLen(q)
<1>1. q.offset \in Lanes /\ q.tailer \in Lanes /\ q.beats \in Nat \ {0}
  BY DEF ReadType
<1>2. RLen(q) > 0 /\ RLen(q) = End(q.beats, q.tailer) - q.offset
  BY DEF ReadFits, RLen
<1>3. End(q.beats, q.tailer) - q.offset > 0
  BY <1>2, Zenon
<1>4. /\ lo \in Nat /\ hi \in Nat /\ lo < hi /\ hi <= e - o /\ e \in Int
      /\ k = q.beats - 1 => hi = e - o
      /\ k # q.beats - 1 => hi = BeatLo(q.offset, k + 1)
  BY <1>1, <1>3, BeatBytes
<1>5. len = e - o /\ len > 0
  BY <1>2
<1>6. o \in Nat
  BY <1>1, Sizes DEF Lanes
<1> HIDE DEF e, o, lo, hi, len
<1>7. hi <= len /\ len \in Nat /\ (k = q.beats - 1 => hi = len)
  BY <1>4, <1>5, <1>6
<1> QED BY <1>4, <1>7, Zenon DEF lo, hi, len

(* The lanes a beat of a write strobes.                                    *)
LanesOut(q, k) == BeatLanes(q.offset, q.tailer, q.num_beats + 1, k)

(* A write beat strobes the lanes of the bytes of the request that lie in  *)
(* its word, and they are the next ones.                                   *)
BeatCarries(start, lane, byte, q, k) ==
    /\ BeatLo(q.offset, k) \in Nat /\ BeatHi(q.offset, q.tailer, q.num_beats + 1, k) \in Nat
    /\ BeatLo(q.offset, k) < BeatHi(q.offset, q.tailer, q.num_beats + 1, k)
    /\ BeatHi(q.offset, q.tailer, q.num_beats + 1, k) <= q.bytes
    /\ k = q.num_beats => BeatHi(q.offset, q.tailer, q.num_beats + 1, k) = q.bytes
    /\ k # q.num_beats =>
           BeatHi(q.offset, q.tailer, q.num_beats + 1, k) = BeatLo(q.offset, k + 1)
    /\ \A l \in Lanes : l \in LanesOut(q, k) <=> k * StrbWidth + l - q.offset \in 0..q.bytes-1
    /\ \A l \in LanesOut(q, k) : \E x \in BeatLo(q.offset, k)..BeatHi(q.offset, q.tailer, q.num_beats + 1, k)-1 :
           /\ k * StrbWidth + l - q.offset = x
           /\ lane[First(start, q) + x] = (l + q.shift) % StrbWidth
           /\ byte[First(start, q) + x] = <<q.id, q.from + x>>
    /\ \A x \in BeatLo(q.offset, k)..BeatHi(q.offset, q.tailer, q.num_beats + 1, k)-1 :
           \E l \in LanesOut(q, k) : k * StrbWidth + l - q.offset = x

LEMMA WriteBeat ==
    ASSUME NEW start \in Starts, NEW lane \in LaneMaps, NEW byte \in ByteMaps,
           NEW top, NEW q \in WriteType, WriteFits(start, lane, byte, top, q),
           NEW k \in 0..q.num_beats
    PROVE  BeatCarries(start, lane, byte, q, k)
<1> USE DEF Starts, LaneMaps, ByteMaps
<1> DEFINE m == StrbWidth
           K == StrbWidth * k
           o == q.offset
           s == q.shift
           n == q.bytes
           F == First(start, q)
           e == End(q.num_beats + 1, q.tailer)
           lo == BeatLo(q.offset, k)
           hi == BeatHi(q.offset, q.tailer, q.num_beats + 1, k)
<1>1. /\ q.offset \in Lanes /\ q.tailer \in Lanes /\ q.num_beats + 1 \in Nat \ {0} /\ q.shift \in Lanes
      /\ q.id \in Nat /\ q.from \in Nat /\ q.num_beats \in Nat /\ n \in Nat \ {0}
  <2>1. /\ q.offset \in Lanes /\ q.tailer \in Lanes /\ q.shift \in Lanes
        /\ q.id \in Nat /\ q.from \in Nat /\ q.num_beats \in Nat /\ n \in Nat \ {0}
    BY DEF WriteType
  <2> DEFINE c == q.num_beats
  <2>2. c \in Nat
    BY <2>1
  <2> HIDE DEF c
  <2>3. c + 1 \in Nat \ {0}
    BY <2>2
  <2> QED BY <2>1, <2>3 DEF c
<1>2. m \in Nat \ {0} /\ Lanes = 0..m-1 /\ s \in Int /\ o \in Int /\ F \in Nat /\ k \in Nat
  <2>1. m \in Nat \ {0} /\ Lanes = 0..m-1
    BY Sizes DEF Lanes
  <2>3. F \in Nat
    BY <1>1, FirstIsNat
  <2>4. o \in 0..m-1 /\ s \in 0..m-1
    BY <1>1, <2>1, Zenon
  <2> HIDE DEF m, o, s
  <2> QED BY <1>1, <2>1, <2>3, <2>4
<1>3. e = o + n
  BY DEF WriteFits
<1>4. k \in 0..(q.num_beats + 1)-1 /\ (k = q.num_beats <=> k = (q.num_beats + 1) - 1)
  <2> DEFINE c == q.num_beats
  <2>1. c \in Nat /\ k \in 0..c
    BY <1>1
  <2> HIDE DEF c
  <2>2. k \in 0..(c + 1)-1 /\ (k = c <=> k = (c + 1) - 1)
    BY <2>1
  <2> QED BY <2>2 DEF c
<1>5. e - o = n /\ e - o > 0
  <2> HIDE DEF e, o, n
  <2> QED BY <1>1, <1>2, <1>3
<1>6. /\ lo \in Nat /\ hi \in Nat /\ lo < hi /\ hi <= e - o
      /\ k = (q.num_beats + 1) - 1 => hi = e - o
      /\ k # (q.num_beats + 1) - 1 => hi = BeatLo(q.offset, k + 1)
      /\ \A l \in Lanes : l \in LanesOut(q, k) <=> K + l - o \in lo..hi-1
      /\ \A l \in Lanes : K + l - o \in 0..(e - o)-1 => K + l - o \in lo..hi-1
      /\ \A x \in lo..hi-1 : o + x - K \in Lanes
  BY <1>1, <1>4, <1>5, BeatBytes DEF LanesOut
<1>7. \A x \in 0..n-1 : /\ byte[F + x] = <<q.id, q.from + x>>
                        /\ lane[F + x] = (o + x + s) % m
  BY DEF WriteFits
<1>8. \A b \in Lanes : \A t \in Int : (K + b + t) % m = (b + t) % m
  BY <1>2, LaneOfBeat
<1>9. K = k * m /\ K \in Nat
  BY <1>2
<1>10. LanesOut(q, k) \subseteq Lanes
  BY DEF LanesOut, BeatLanes, FirstMask
<1> HIDE DEF m, K, o, s, n, F, e, lo, hi
<1>11. hi <= n /\ (k = q.num_beats => hi = n) /\ (k # q.num_beats => hi = BeatLo(q.offset, k + 1))
  BY <1>4, <1>5, <1>6
<1>12. \A l \in Lanes : l \in LanesOut(q, k) <=> K + l - o \in 0..n-1
  <2> SUFFICES ASSUME NEW l \in Lanes PROVE l \in LanesOut(q, k) <=> K + l - o \in 0..n-1
    OBVIOUS
  <2> DEFINE x == K + l - o
  <2>1. (l \in LanesOut(q, k) <=> x \in lo..hi-1) /\ (x \in 0..n-1 => x \in lo..hi-1)
    BY <1>5, <1>6
  <2> HIDE DEF x
  <2>2. x \in lo..hi-1 => x \in 0..n-1
    BY <1>1, <1>6, <1>11
  <2> QED BY <2>1, <2>2 DEF x
<1>13. ASSUME NEW l \in LanesOut(q, k)
       PROVE  \E x \in lo..hi-1 :
                  /\ K + l - o = x
                  /\ lane[F + x] = (l + s) % m
                  /\ byte[F + x] = <<q.id, q.from + x>>
  <2> DEFINE x == K + l - o
  <2>1. l \in Lanes /\ x \in lo..hi-1
    BY <1>6, <1>10
  <2>2. l \in Int /\ o + x + s = K + l + s
    BY <1>2, <1>9, <2>1
  <2>3. (K + l + s) % m = (l + s) % m
    BY <1>2, <1>8, <2>1
  <2> HIDE DEF x
  <2>4. x \in 0..n-1
    BY <1>1, <1>6, <1>11, <2>1
  <2>5. byte[F + x] = <<q.id, q.from + x>> /\ lane[F + x] = (o + x + s) % m
    BY <1>7, <2>4
  <2> QED BY <2>1, <2>2, <2>3, <2>5 DEF x
<1>14. ASSUME NEW x \in lo..hi-1
       PROVE  \E l \in LanesOut(q, k) : K + l - o = x
  <2> DEFINE l == o + x - K
  <2>1. l \in Lanes
    BY <1>6
  <2>2. K + l - o = x
    <3>1. x \in Int
      BY <1>6
    <3> QED BY <1>2, <1>9, <3>1
  <2> HIDE DEF l
  <2>3. l \in LanesOut(q, k)
    BY <1>6, <2>1, <2>2
  <2> QED BY <2>2, <2>3
<1> QED BY <1>6, <1>9, <1>11, <1>12, <1>13, <1>14, Zenon DEF m, o, s, n, F, lo, hi, BeatCarries

----------------------------------------------------------------------------
(* The beats the backend makes. *)

(* The oldest request has the type of its queue.                           *)
LEMMA OldestRequests ==
    ASSUME Typed
    PROVE  /\ r_dp # <<>> => RReq \in ReadType /\ RReq = r_dp[1] /\ 1 \in 1..Len(r_dp)
           /\ w_dp # <<>> => WReq \in WriteType /\ WReq = w_dp[1] /\ 1 \in 1..Len(w_dp)
<1>1. r_dp \in Seq(ReadType) /\ w_dp \in Seq(WriteType)
  BY DEF Typed
<1>2. ASSUME NEW S, NEW s \in Seq(S), s # <<>>
      PROVE  Head(s) \in S /\ Head(s) = s[1] /\ 1 \in 1..Len(s)
  BY <1>2, EmptySeq, HeadTailProperties
<1> QED BY <1>1, <1>2 DEF RReq, WReq

(* The beat offered is the next one of the oldest write request.           *)
LEMMA BeatOfWrite ==
    ASSUME Typed, Forking, ReadyToWrite
    PROVE  /\ WReq \in WriteType
           /\ BeatsWritten \in 0..WReq.num_beats
           /\ LastW <=> BeatsWritten = WReq.num_beats
           /\ BeatsWritten = 0 <=> ~w_cnt_valid
           /\ MaskOut = LanesOut(WReq, BeatsWritten)
           /\ MaskOut \subseteq OutValid
           /\ w_dp # <<>> /\ "port" \notin forked
<1> DEFINE n == WReq.num_beats
           c == w_num_beats
<1>1. w_dp # <<>> /\ "port" \notin forked /\ OutValid # {} /\ MaskOut \subseteq OutValid
  BY DEF ReadyToWrite
<1>2. WReq \in WriteType
  BY <1>1, OldestRequests
<1>3. n \in Nat
  BY <1>2 DEF WriteType
<1>4. c \in Nat /\ w_cnt_valid \in BOOLEAN /\ (w_cnt_valid => c \in 1..n)
  BY DEF Typed, Forking
<1>5. BeatsWritten = IF w_cnt_valid THEN n + 1 - c ELSE 0
  BY DEF BeatsWritten
<1>6. (IsSingle <=> n = 0) /\ (LastW <=> IsSingle \/ (w_cnt_valid /\ c = 1))
  BY DEF IsSingle, LastW
<1> HIDE DEF n, c
<1>7. /\ BeatsWritten \in 0..n /\ (LastW <=> BeatsWritten = n)
      /\ BeatsWritten = 0 <=> ~w_cnt_valid
      /\ IsSingle => BeatsWritten = 0
  BY <1>3, <1>4, <1>5, <1>6
<1>8. FirstW <=> BeatsWritten = 0
  <2>1. CASE IsSingle
    BY <1>7, <2>1 DEF FirstW
  <2>2. CASE ~IsSingle /\ w_cnt_valid
    BY <1>7, <2>2 DEF FirstW
  <2>3. CASE ~IsSingle /\ ~w_cnt_valid
    <3>1. ~LastW
      BY <1>6, <2>3
    <3>2. MaskOut = IF FirstW THEN FirstMask(WReq.offset) \cap Lanes ELSE Lanes
      BY <3>1 DEF MaskOut, FirstMask
    <3>3. FirstMask(WReq.offset) \subseteq OutValid
      BY <1>1, <3>2 DEF FirstMask
    <3> QED BY <1>1, <1>7, <2>3, <3>3 DEF FirstW
  <2> QED BY <2>1, <2>2, <2>3
<1>9. MaskOut = LanesOut(WReq, BeatsWritten)
  <2> DEFINE k == BeatsWritten
  <2>1. /\ FirstW <=> k = 0
        /\ LastW <=> k = (n + 1) - 1
    <3> HIDE DEF k
    <3> QED BY <1>3, <1>7, <1>8 DEF k
  <2> HIDE DEF k
  <2>2. MaskOut = BeatLanes(WReq.offset, WReq.tailer, n + 1, k)
    BY <2>1 DEF MaskOut, BeatLanes
  <2> QED BY <2>2 DEF LanesOut, n, k
<1> QED BY <1>1, <1>2, <1>7, <1>9 DEF n

(* The beat taken is the next one of the oldest read request.              *)
LEMMA BeatOfRead ==
    ASSUME Typed, NEW start, NEW lane, NEW byte, NEW top, NEW rend,
           ReadQueue(start, lane, byte, top, rend), r_dp # <<>>
    PROVE  /\ RReq \in ReadType /\ ReadFits(start, lane, byte, top, RReq)
           /\ r_beat \in 0..RReq.beats-1
           /\ LastBeat <=> r_beat = RReq.beats - 1
           /\ MaskIn = LanesIn(RReq, r_beat)
           /\ \A l : ByteIn(l) = BeatByte(RReq, r_beat, l)
           /\ first_r <=> r_beat = 0
<1>1. RReq \in ReadType /\ RReq = r_dp[1] /\ 1 \in 1..Len(r_dp)
  BY OldestRequests
<1>2. ReadFits(start, lane, byte, top, RReq) /\ r_beat < RReq.beats /\ (first_r <=> r_beat = 0)
  <2>1. RReq \in Reads(start, lane, byte, top)
    BY HeadTailProperties DEF ReadQueue, RReq
  <2>2. ReadFits(start, lane, byte, top, RReq)
    BY <2>1, Zenon DEF Reads
  <2> QED BY <2>2 DEF ReadQueue
<1>3. RReq.proto = "AXI_STREAM" => RReq.beats = 1
  BY <1>2 DEF ReadFits
<1> DEFINE n == RReq.beats
<1>4. n \in Nat /\ r_beat \in Nat /\ first_r \in BOOLEAN
  BY <1>1 DEF ReadType, Typed
<1>5. /\ LastBeat <=> RReq.proto = "AXI_STREAM" \/ r_beat = n - 1
      /\ FirstBeat <=> RReq.proto = "AXI_STREAM" \/ first_r
  BY DEF LastBeat, FirstBeat
<1>6. r_beat < n /\ (RReq.proto = "AXI_STREAM" => n = 1)
  BY <1>2, <1>3
<1> HIDE DEF n
<1>7. r_beat \in 0..n-1 /\ (LastBeat <=> r_beat = n - 1) /\ (FirstBeat <=> r_beat = 0)
  BY <1>2, <1>4, <1>5, <1>6
<1>8. MaskIn = LanesIn(RReq, r_beat)
  <2>1. MaskIn = Shifted(BeatLanes(RReq.offset, RReq.tailer, n, r_beat), RReq.shift)
    BY <1>7 DEF MaskIn, BeatLanes
  <2> QED BY <2>1 DEF LanesIn, n
<1>9. \A l : ByteIn(l) = BeatByte(RReq, r_beat, l)
  BY DEF ByteIn, BeatByte
<1> QED BY <1>1, <1>2, <1>7, <1>8, <1>9 DEF n

----------------------------------------------------------------------------
(* What is in the lanes. *)

Buffers == buffer \in [Lanes -> Seq(Nat \X Nat)]

(* The bytes from one position to another are all in different lanes.      *)
Distinct(lane, from, to) == \A p, q \in from..to-1 : lane[p] = lane[q] => p = q

(* The byte at p is the first of its lane.                                 *)
AtHead(lane, byte, p) == buffer[lane[p]] # <<>> /\ Head(buffer[lane[p]]) = byte[p]

Waiting(lane, p) == buffer[lane[p]] # <<>>

(* The head of a lane is its first byte not yet written.                   *)
LEMMA HeadOfLane ==
    ASSUME Buffers, NEW start, NEW lane \in LaneMaps, NEW byte,
           NEW from \in Nat, NEW to \in Nat, NEW upto \in Nat, NEW top \in Nat, upto <= top,
           Held(start, lane, byte, from, to), Numbered(start, byte, top),
           Distinct(lane, from, upto), NEW p \in from..upto-1, Waiting(lane, p)
    PROVE  p < to /\ AtHead(lane, byte, p)
<1> USE DEF Starts, LaneMaps, ByteMaps, Waiting, AtHead
<1> DEFINE L == lane[p]
           b == buffer[L]
           h == b[1]
           o == Pos(start, h)
<1>1. p \in Nat /\ L \in Lanes /\ p \in 0..top-1
  OBVIOUS
<1>2. b \in Seq(Nat \X Nat) /\ b # <<>>
  BY <1>1 DEF Buffers
<1>3. Head(b) = h /\ 1 \in 1..Len(b) /\ Len(b) \in Nat
  <2> HIDE DEF b
  <2> QED BY <1>2, EmptySeq, HeadTailProperties
<1>4. o \in from..to-1 /\ lane[o] = L /\ byte[o] = h
  BY <1>1, <1>3 DEF Held, HeldIn
<1>5. \A k \in 1..Len(b) : 1 < k => o < Pos(start, b[k])
  BY <1>1, <1>3 DEF Held, HeldIn
<1>6. Pos(start, byte[p]) = p
  BY <1>1 DEF Numbered
<1>7. p \in from..to-1 => \E k \in 1..Len(b) : b[k] = byte[p]
  BY DEF Held, HeldIn
<1>8. \A x \in from..upto-1 : lane[x] = L => x = p
  BY DEF Distinct
<1> HIDE DEF L, b, h, o
<1>9. ~(o < p)
  BY <1>1, <1>4, <1>8
<1>10. ~(o > p)
  <2> SUFFICES ASSUME o > p PROVE FALSE
    OBVIOUS
  <2>1. PICK k \in 1..Len(b) : b[k] = byte[p]
    BY <1>1, <1>4, <1>7
  <2>2. k # 1
    BY <1>1, <1>4, <1>6, <2>1 DEF h, o
  <2>3. 1 < k
    BY <1>3, <2>2
  <2>4. o < Pos(start, b[k]) /\ Pos(start, b[k]) = p
    BY <1>5, <1>6, <2>1, <2>3
  <2> QED BY <1>1, <1>4, <2>4
<1>11. o = p
  BY <1>1, <1>4, <1>9, <1>10
<1> QED BY <1>1, <1>3, <1>4, <1>11 DEF b, L

(* What a cycle does to a lane: e bytes leave and n bytes enter.           *)
LEMMA LaneStep ==
    ASSUME Buffers, NEW i \in Inputs, ReadSide(i), NEW l \in Lanes,
           l \in Popped(i) => buffer[l] # <<>>,
           ReadHappens(i) /\ l \in MaskIn => ByteIn(l) \in Nat \X Nat
    PROVE  \E e, n \in 0..1 :
               /\ e = 1 <=> l \in Popped(i)
               /\ n = 1 <=> ReadHappens(i) /\ l \in MaskIn
               /\ Len(buffer[l]) \in Nat /\ Len(buffer[l]) >= e
               /\ buffer'[l] \in Seq(Nat \X Nat)
               /\ Len(buffer'[l]) = Len(buffer[l]) - e + n
               /\ \A k \in 1..Len(buffer[l]) - e : buffer'[l][k] = buffer[l][k + e]
               /\ n = 1 => buffer'[l][Len(buffer[l]) - e + 1] = ByteIn(l)
<1> DEFINE b == buffer[l]
           pop == l \in Popped(i)
           in == ReadHappens(i) /\ l \in MaskIn
           x == ByteIn(l)
           push == IF in THEN <<x>> ELSE <<>>
           T == Nat \X Nat
           b2 == Rest(b, pop) \o push
<1>1. buffer'[l] = b2
  <2>1. buffer' = [j \in Lanes |-> Rest(buffer[j], j \in Popped(i))
                       \o (IF ReadHappens(i) /\ j \in MaskIn THEN <<ByteIn(j)>> ELSE <<>>)]
    BY DEF ReadSide
  <2> QED BY <2>1
<1>2. b \in Seq(T) /\ pop \in BOOLEAN /\ (pop => b # <<>>)
  BY DEF Buffers
<1>3. in \in BOOLEAN /\ (in => x \in T)
  BY DEF ReadHappens
<1> HIDE DEF b, x, pop, in, T
<1>4. push = <<>> \/ \E y \in T : push = <<y>>
  BY <1>3
<1>5. (push # <<>> <=> in) /\ (in => Head(push) = x)
  OBVIOUS
<1> HIDE DEF push
<1>6. b2 \in Seq(T) /\ Advanced(b, b2, pop, push)
  BY <1>2, <1>4, QueueMoves
<1> HIDE DEF b2
<1>7. PICK e \in 0..1, n \in 0..1 :
               /\ (e = 1 <=> pop) /\ (n = 1 <=> push # <<>>)
               /\ Len(b) \in Nat /\ Len(b) >= e
               /\ Len(b2) = Len(b) - e + n
               /\ \A k \in 1..Len(b) - e : b2[k] = b[k + e]
               /\ n = 1 => b2[Len(b) - e + 1] = Head(push)
  BY <1>6 DEF Advanced
<1>8. /\ (e = 1 <=> pop) /\ (n = 1 <=> in)
      /\ n = 1 => b2[Len(b) - e + 1] = x
  BY <1>5, <1>7
<1> QED BY <1>1, <1>6, <1>7, <1>8, Zenon DEF b, x, pop, in, T

(* The bytes that leave the lanes in a cycle are those from W up to W2.     *)
Leaving(i, lane, byte, W, W2) ==
    /\ W <= W2 /\ Distinct(lane, W, W2)
    /\ \A l \in Lanes : l \in Popped(i) => \E p \in W..W2-1 : lane[p] = l
    /\ \A p \in W..W2-1 :
          lane[p] \in Popped(i) /\ AtHead(lane, byte, p)

(* Those that enter them are those from R up to R2.                        *)
Entering(i, lane, byte, R, R2) ==
    /\ R <= R2
    /\ \A l \in Lanes : ReadHappens(i) /\ l \in MaskIn => \E p \in R..R2-1 : lane[p] = l
    /\ \A p \in R..R2-1 :
          ReadHappens(i) /\ lane[p] \in MaskIn /\ ByteIn(lane[p]) = byte[p]

(* Places in a queue of N entries that e leave and n enter.                *)
LEMMA QueuePlaces ==
    ASSUME NEW N \in Nat, NEW e \in 0..1, NEW n \in 0..1, N >= e
    PROVE  /\ \A k \in 1..N - e : k + e \in 1..N /\ k \in 1..N - e + n /\ 1 \in 1..N
           /\ \A k \in 1..N - e + n : (k \in 1..N - e) \/ (n = 1 /\ k = N - e + 1)
           /\ n = 1 => N - e + 1 \in 1..N - e + n
           /\ \A j \in 1..N : (e = 1 /\ j = 1) \/ (j - e \in 1..N - e /\ (j - e) + e = j)
           /\ \A j, k \in 1..N - e + n : j < k => j \in 1..N - e /\ j + e < k + e
OBVIOUS

(* The bytes written leave the lanes, those read enter them, and the lanes *)
(* hold again what was read and not yet written, in order.                 *)
LEMMA HeldStep ==
    ASSUME Buffers, NEW i \in Inputs, ReadSide(i),
           NEW start \in Starts, NEW lane \in LaneMaps, NEW byte \in ByteMaps,
           NEW W \in Nat, NEW W2 \in Nat, NEW R \in Nat, NEW R2 \in Nat, NEW top \in Nat,
           W2 <= R, R2 <= top,
           Held(start, lane, byte, W, R), Numbered(start, byte, top),
           Leaving(i, lane, byte, W, W2), Entering(i, lane, byte, R, R2)
    PROVE  Held(start, lane, byte, W2, R2)' /\ Buffers'
<1>1. ASSUME NEW l \in Lanes
      PROVE  /\ \E e, n \in 0..1 :
                   /\ e = 1 <=> l \in Popped(i)
                   /\ n = 1 <=> ReadHappens(i) /\ l \in MaskIn
                   /\ Len(buffer[l]) \in Nat /\ Len(buffer[l]) >= e
                   /\ buffer'[l] \in Seq(Nat \X Nat)
                   /\ Len(buffer'[l]) = Len(buffer[l]) - e + n
                   /\ \A k \in 1..Len(buffer[l]) - e : buffer'[l][k] = buffer[l][k + e]
                   /\ n = 1 => buffer'[l][Len(buffer[l]) - e + 1] = ByteIn(l)
             /\ l \in Popped(i) => \E p \in W..W2-1 : lane[p] = l /\ buffer[l] # <<>> /\ buffer[l][1] = byte[p]
             /\ ReadHappens(i) /\ l \in MaskIn => \E p \in R..R2-1 : lane[p] = l /\ ByteIn(l) = byte[p]
  <2>1. l \in Popped(i) =>
            \E p \in W..W2-1 : lane[p] = l /\ buffer[l] # <<>> /\ Head(buffer[l]) = byte[p]
    <3> SUFFICES ASSUME l \in Popped(i)
                 PROVE  \E p \in W..W2-1 : lane[p] = l /\ buffer[l] # <<>> /\ Head(buffer[l]) = byte[p]
      OBVIOUS
    <3>1. PICK p \in W..W2-1 : lane[p] = l
      BY DEF Leaving
    <3>2. buffer[lane[p]] # <<>> /\ Head(buffer[lane[p]]) = byte[p]
      BY DEF Leaving, AtHead
    <3> QED BY <3>1, <3>2
  <2>2. buffer[l] # <<>> => Head(buffer[l]) = buffer[l][1]
    OBVIOUS
  <2>3. ReadHappens(i) /\ l \in MaskIn => \E p \in R..R2-1 : lane[p] = l /\ ByteIn(l) = byte[p]
    BY DEF Entering
  <2>4. ReadHappens(i) /\ l \in MaskIn => ByteIn(l) \in Nat \X Nat
    <3>1. \A p \in R..R2-1 : p \in Nat
      OBVIOUS
    <3>2. \A p \in Nat : byte[p] \in Nat \X Nat
      BY DEF ByteMaps
    <3> QED BY <2>3, <3>1, <3>2, Zenon
  <2> QED BY <2>1, <2>2, <2>3, <2>4, LaneStep
<1>2. ASSUME NEW p \in W..R2-1
      PROVE  p \in Nat /\ Pos(start, byte[p]) = p
  <2>1. W \in Int /\ R2 \in Int /\ top \in Int /\ W >= 0 /\ R2 <= top /\ p \in Int /\ W <= p /\ p < R2
    OBVIOUS
  <2>2. p \in 0..top-1
    BY <2>1
  <2>3. Pos(start, byte[p]) = p
    BY <2>2, Zenon DEF Numbered
  <2> QED BY <2>2, <2>3
<1>3. ASSUME NEW l \in Lanes, NEW k \in 1..Len(buffer[l])
      PROVE  /\ Pos(start, buffer[l][k]) \in W..R-1
             /\ lane[Pos(start, buffer[l][k])] = l
             /\ byte[Pos(start, buffer[l][k])] = buffer[l][k]
             /\ \A j \in 1..Len(buffer[l]) : j < k => Pos(start, buffer[l][j]) < Pos(start, buffer[l][k])
  BY DEF Held, HeldIn
<1>4. ASSUME NEW l \in Lanes
      PROVE  \E e, n \in 0..1 :
                /\ e = 1 <=> l \in Popped(i)
                /\ n = 1 <=> ReadHappens(i) /\ l \in MaskIn
                /\ Len(buffer[l]) \in Nat /\ Len(buffer[l]) >= e
                /\ Len(buffer'[l]) = Len(buffer[l]) - e + n
                /\ \A k \in 1..Len(buffer[l]) - e :
                      /\ k + e \in 1..Len(buffer[l])
                      /\ buffer'[l][k] = buffer[l][k + e]
                      /\ Pos(start, buffer'[l][k]) \in W2..R-1
                /\ n = 1 => buffer'[l][Len(buffer[l]) - e + 1] = ByteIn(l)
                /\ n = 1 => \E p \in R..R2-1 :
                      /\ buffer'[l][Len(buffer[l]) - e + 1] = byte[p]
                      /\ lane[p] = l /\ Pos(start, byte[p]) = p
  <2> DEFINE b == buffer[l]
             b2 == buffer'[l]
             N == Len(b)
  <2>1. PICK e \in 0..1, n \in 0..1 :
            /\ e = 1 <=> l \in Popped(i)
            /\ n = 1 <=> ReadHappens(i) /\ l \in MaskIn
            /\ N \in Nat /\ N >= e /\ Len(b2) = N - e + n
            /\ \A k \in 1..N - e : b2[k] = b[k + e]
            /\ n = 1 => b2[N - e + 1] = ByteIn(l)
    BY <1>1
  <2>2. ASSUME NEW k \in 1..N - e
        PROVE  /\ k + e \in 1..N /\ b2[k] = b[k + e]
               /\ Pos(start, b2[k]) \in W2..R-1
    <3> DEFINE j == k + e
               o == Pos(start, b[j])
    <3>1. j \in 1..N /\ b2[k] = b[j] /\ 1 \in 1..N
      <4> HIDE DEF b, b2, N
      <4>1. b2[k] = b[j]
        BY <2>1
      <4>2. N \in Nat /\ N >= e
        BY <2>1
      <4> QED BY <4>1, <4>2, QueuePlaces, Zenon
    <3>2. /\ o \in W..R-1 /\ lane[o] = l /\ byte[o] = b[j]
          /\ 1 < j => Pos(start, b[1]) < o
      BY <1>3, <3>1
    <3> HIDE DEF b, b2, N, o
    <3>3. ASSUME o < W2 PROVE FALSE
      <4>1. o \in W..W2-1
        BY <3>2, <3>3
      <4>2. lane[o] \in Popped(i) /\ buffer[lane[o]] # <<>> /\ Head(buffer[lane[o]]) = byte[o]
        BY <4>1 DEF Leaving, AtHead
      <4>3. b[1] = byte[o] /\ e = 1
        BY <2>1, <3>2, <4>2 DEF b
      <4>4. 1 < j
        BY <4>3
      <4>5. Pos(start, b[1]) < o /\ Pos(start, b[1]) = o
        BY <3>2, <4>3, <4>4 DEF o
      <4> QED BY <3>2, <4>5
    <3>4. o \in W2..R-1
      BY <3>2, <3>3
    <3> QED BY <3>1, <3>4 DEF o
  <2>3. ASSUME n = 1
        PROVE  \E p \in R..R2-1 :
                   b2[N - e + 1] = byte[p] /\ lane[p] = l /\ Pos(start, byte[p]) = p
    <3>1. PICK p \in R..R2-1 : lane[p] = l /\ ByteIn(l) = byte[p]
      BY <1>1, <2>1, <2>3
    <3>2. p \in W..R2-1
      <4>1. W <= R
        BY DEF Held, HeldIn
      <4> QED BY <4>1
    <3>3. Pos(start, byte[p]) = p
      BY <1>2, <3>2
    <3> QED BY <2>1, <2>3, <3>1, <3>3
  <2> QED BY <2>1, <2>2, <2>3
<1>5. ASSUME NEW l \in Lanes, NEW k \in 1..Len(buffer'[l])
      PROVE  /\ Pos(start, buffer'[l][k]) \in W2..R2-1
             /\ lane[Pos(start, buffer'[l][k])] = l
             /\ byte[Pos(start, buffer'[l][k])] = buffer'[l][k]
  <2> DEFINE b == buffer[l]
             b2 == buffer'[l]
             N == Len(b)
  <2>1. PICK e \in 0..1, n \in 0..1 :
                /\ e = 1 <=> l \in Popped(i)
                /\ n = 1 <=> ReadHappens(i) /\ l \in MaskIn
                /\ N \in Nat /\ N >= e
                /\ Len(b2) = N - e + n
                /\ \A x \in 1..N - e :
                      /\ x + e \in 1..N
                      /\ b2[x] = b[x + e]
                      /\ Pos(start, b2[x]) \in W2..R-1
                /\ n = 1 => b2[N - e + 1] = ByteIn(l)
                /\ n = 1 => \E p \in R..R2-1 :
                      /\ b2[N - e + 1] = byte[p]
                      /\ lane[p] = l /\ Pos(start, byte[p]) = p
    BY <1>4
  <2>2. k \in 1..N - e + n /\ R <= R2 /\ W <= R /\ N \in Nat /\ N >= e
    BY <2>1 DEF Entering, Held, HeldIn
  <2>3. CASE k \in 1..N - e
    <3> DEFINE j == k + e
    <3>2. j \in 1..N /\ b2[k] = b[j] /\ Pos(start, b2[k]) \in W2..R-1
      BY <2>1, <2>3
    <3>3. /\ lane[Pos(start, b[j])] = l /\ byte[Pos(start, b[j])] = b[j]
      BY <1>3, <3>2
    <3>4. Pos(start, b2[k]) \in W2..R2-1
      BY <2>2, <3>2
    <3> QED BY <3>2, <3>3, <3>4
  <2>4. CASE n = 1 /\ k = N - e + 1
    <3>2. PICK p \in R..R2-1 : b2[k] = byte[p] /\ lane[p] = l /\ Pos(start, byte[p]) = p
      BY <2>1, <2>4
    <3>3. p \in W..R2-1 /\ p \in W2..R2-1
      <4>1. p \in Int /\ R <= p /\ p < R2
        OBVIOUS
      <4>2. W \in Int /\ W2 \in Int /\ R \in Int /\ R2 \in Int /\ W <= R /\ W2 <= R
        BY <2>2
      <4> QED BY <4>1, <4>2
    <3> QED BY <3>2, <3>3
  <2>5. k \in 1..N - e \/ (n = 1 /\ k = N - e + 1)
    <3> HIDE DEF N
    <3> QED BY <2>2, QueuePlaces, Zenon
  <2> QED BY <2>3, <2>4, <2>5
<1>6. ASSUME NEW p \in W2..R2-1
      PROVE  \E k \in 1..Len(buffer'[lane[p]]) : buffer'[lane[p]][k] = byte[p]
  <2>0. /\ p \in Nat /\ W <= W2 /\ W <= R /\ R <= R2
    BY DEF Leaving, Entering, Held, HeldIn
  <2> DEFINE l == lane[p]
  <2>a. l \in Lanes
    BY <2>0 DEF LaneMaps
  <2> DEFINE b == buffer[l]
             b2 == buffer'[l]
             N == Len(b)
  <2>1. PICK e \in 0..1, n \in 0..1 :
                /\ e = 1 <=> l \in Popped(i)
                /\ n = 1 <=> ReadHappens(i) /\ l \in MaskIn
                /\ N \in Nat /\ N >= e
                /\ Len(b2) = N - e + n
                /\ \A x \in 1..N - e :
                      /\ x + e \in 1..N
                      /\ b2[x] = b[x + e]
                      /\ Pos(start, b2[x]) \in W2..R-1
                /\ n = 1 => b2[N - e + 1] = ByteIn(l)
                /\ n = 1 => \E y \in R..R2-1 :
                      /\ b2[N - e + 1] = byte[y]
                      /\ lane[y] = l /\ Pos(start, byte[y]) = y
    BY <1>4, <2>a
  <2>2. CASE p < R
    <3>1. p \in W..R-1
      BY <2>0, <2>2
    <3>2. PICK j \in 1..N : b[j] = byte[p]
      BY <3>1 DEF Held, HeldIn
    <3>3. ASSUME e = 1, j = 1 PROVE FALSE
      <4>1. PICK y \in W..W2-1 : lane[y] = l /\ b[1] = byte[y]
        BY <1>1, <2>1, <2>a, <3>3
      <4>2. y \in W..R2-1 /\ p \in W..R2-1 /\ y < W2 /\ W2 <= p
        BY <2>0
      <4>3. Pos(start, byte[y]) = y /\ Pos(start, byte[p]) = p
        BY <1>2, <4>2
      <4>4. byte[y] = byte[p]
        BY <3>2, <3>3, <4>1
      <4>5. y = p
        BY <4>3, <4>4
      <4> QED BY <4>2, <4>5
    <3> DEFINE k == j - e
    <3>4. k \in 1..N - e /\ k + e = j /\ k \in 1..N - e + n
      <4>1. N \in Nat /\ N >= e /\ ~(e = 1 /\ j = 1)
        BY <2>1, <3>3
      <4> HIDE DEF N
      <4>2. k \in 1..N - e /\ k + e = j
        BY <4>1, QueuePlaces, ZenonT(60)
      <4> HIDE DEF k
      <4>3. k \in 1..N - e + n
        BY <4>1, <4>2, QueuePlaces, Zenon
      <4> QED BY <4>2, <4>3
    <3>5. b2[k] = byte[p]
      BY <2>1, <3>2, <3>4
    <3> QED BY <2>1, <3>4, <3>5
  <2>3. CASE ~(p < R)
    <3>1. p \in R..R2-1
      BY <2>0, <2>3
    <3>2. n = 1
      BY <2>1, <3>1 DEF Entering
    <3>3. b2[N - e + 1] = byte[p]
      <4>1. ReadHappens(i) /\ l \in MaskIn /\ ByteIn(l) = byte[p]
        BY <3>1 DEF Entering
      <4>2. b2[N - e + 1] = ByteIn(l)
        BY <2>1, <3>2
      <4> QED BY <4>1, <4>2
    <3>4. N - e + 1 \in 1..N - e + n
      <4> HIDE DEF N
      <4> QED BY <2>1, <3>2
    <3> QED BY <2>1, <3>3, <3>4
  <2> QED BY <2>2, <2>3
<1>8. ASSUME NEW l \in Lanes, NEW k \in 1..Len(buffer'[l]), NEW j \in 1..Len(buffer'[l]), j < k
      PROVE  Pos(start, buffer'[l][j]) < Pos(start, buffer'[l][k])
  <2> DEFINE b == buffer[l]
             b2 == buffer'[l]
             N == Len(b)
  <2>1. PICK e \in 0..1, n \in 0..1 :
                /\ e = 1 <=> l \in Popped(i)
                /\ n = 1 <=> ReadHappens(i) /\ l \in MaskIn
                /\ N \in Nat /\ N >= e
                /\ Len(b2) = N - e + n
                /\ \A x \in 1..N - e :
                      /\ x + e \in 1..N
                      /\ b2[x] = b[x + e]
                      /\ Pos(start, b2[x]) \in W2..R-1
                /\ n = 1 => b2[N - e + 1] = ByteIn(l)
                /\ n = 1 => \E p \in R..R2-1 :
                      /\ b2[N - e + 1] = byte[p]
                      /\ lane[p] = l /\ Pos(start, byte[p]) = p
    BY <1>4
  <2>2. k \in 1..N - e + n /\ j \in 1..N - e /\ j + e < k + e /\ R <= R2 /\ N \in Nat /\ N >= e
    <3>1. R <= R2
      BY DEF Entering
    <3>2. k \in 1..N - e + n /\ j \in 1..N - e + n /\ N \in Nat /\ N >= e
      BY <2>1
    <3> HIDE DEF N
    <3>3. j \in 1..N - e /\ j + e < k + e
      BY <1>8, <3>2
    <3> QED BY <3>1, <3>2, <3>3
  <2>3. j + e \in 1..N /\ b2[j] = b[j + e] /\ Pos(start, b2[j]) \in W2..R-1
    BY <2>1, <2>2
  <2>4. CASE k \in 1..N - e
    <3>2. k + e \in 1..N /\ b2[k] = b[k + e]
      BY <2>1, <2>4
    <3>4. Pos(start, b[j + e]) < Pos(start, b[k + e])
      BY <1>3, <2>2, <2>3, <3>2
    <3> QED BY <2>3, <3>2, <3>4
  <2>5. CASE n = 1 /\ k = N - e + 1
    <3>2. PICK p \in R..R2-1 : b2[k] = byte[p] /\ Pos(start, byte[p]) = p
      BY <2>1, <2>5
    <3>3. Pos(start, b2[k]) = p
      BY <3>2
    <3> QED BY <2>3, <3>2, <3>3
  <2>6. k \in 1..N - e \/ (n = 1 /\ k = N - e + 1)
    <3> HIDE DEF N
    <3> QED BY <2>2, QueuePlaces, Zenon
  <2> QED BY <2>4, <2>5, <2>6
<1>7. W2 <= R2
  <2>1. R <= R2
    BY DEF Entering
  <2> QED BY <2>1
<1>9. Held(start, lane, byte, W2, R2)'
  BY <1>5, <1>6, <1>7, <1>8, Zenon DEF Held, HeldIn
<1>10. Buffers'
  <2>1. buffer' = [l \in Lanes |-> buffer'[l]]
    BY DEF ReadSide
  <2>2. \A l \in Lanes : buffer'[l] \in Seq(Nat \X Nat)
    BY <1>1
  <2> QED BY <2>1, <2>2, Zenon DEF Buffers
<1> QED BY <1>9, <1>10

----------------------------------------------------------------------------
(* The beat a write offers. *)

(* The position after the beat offered.                                    *)
NextWrite(start) ==
    First(start, WReq) + BeatHi(WReq.offset, WReq.tailer, WReq.num_beats + 1, BeatsWritten)

(* Lane l of the beat carries the byte at p.                               *)
Strobes(lane, byte, l, p) ==
    lane[p] = OutLane(l) /\ byte[p] = <<WReq.id, WReq.from + Index(l)>>

(* It carries the bytes that are next, each from the head of its lane.     *)
LEMMA OfferedBytes ==
    ASSUME Typed, Forking, Buffers, ReadyToWrite,
           NEW start \in Starts, NEW lane \in LaneMaps, NEW byte \in ByteMaps,
           NEW top \in Nat, NEW R \in Nat, NEW wend,
           WriteQueue(start, lane, byte, top, wend), Numbered(start, byte, top),
           Held(start, lane, byte, WriteAt(start, wend), R)
    PROVE  /\ WriteAt(start, wend) \in Nat /\ NextWrite(start) \in Nat
           /\ WriteAt(start, wend) < NextWrite(start) /\ NextWrite(start) <= R
           /\ Distinct(lane, WriteAt(start, wend), NextWrite(start))
           /\ \A p \in WriteAt(start, wend)..NextWrite(start)-1 :
                  /\ \E l \in MaskOut : OutLane(l) = lane[p]
                  /\ AtHead(lane, byte, p)
           /\ \A l \in MaskOut :
                  \E p \in WriteAt(start, wend)..NextWrite(start)-1 : Strobes(lane, byte, l, p)
           /\ \A l \in Lanes : l \in MaskOut <=> Index(l) \in 0..WReq.bytes-1
<1> DEFINE q == WReq
           k == BeatsWritten
           F == First(start, q)
           lo == BeatLo(q.offset, k)
           hi == BeatHi(q.offset, q.tailer, q.num_beats + 1, k)
           n == q.bytes
           W == WriteAt(start, wend)
           W2 == NextWrite(start)
<1>1. /\ q \in WriteType /\ k \in 0..q.num_beats /\ (k = 0 <=> ~w_cnt_valid)
      /\ MaskOut = LanesOut(q, k) /\ MaskOut \subseteq OutValid
      /\ w_dp # <<>> /\ "port" \notin forked
  BY BeatOfWrite
<1>2. q = w_dp[1] /\ 1 \in 1..Len(w_dp)
  BY <1>1, OldestRequests
<1>3. WriteFits(start, lane, byte, top, q)
  <2>1. WReq \in Writes(start, lane, byte, top)
    BY <1>1, HeadTailProperties DEF WriteQueue, WReq
  <2> QED BY <2>1, Zenon DEF Writes
<1>4. /\ lo \in Nat /\ hi \in Nat /\ lo < hi /\ hi <= n
      /\ \A l \in Lanes : l \in LanesOut(q, k) <=> k * StrbWidth + l - q.offset \in 0..n-1
      /\ \A l \in LanesOut(q, k) : \E x \in lo..hi-1 :
             /\ k * StrbWidth + l - q.offset = x
             /\ lane[F + x] = (l + q.shift) % StrbWidth
             /\ byte[F + x] = <<q.id, q.from + x>>
      /\ \A x \in lo..hi-1 : \E l \in LanesOut(q, k) : k * StrbWidth + l - q.offset = x
  <2>1. BeatCarries(start, lane, byte, q, k)
    <3> HIDE DEF k, q
    <3> QED BY <1>1, <1>3, WriteBeat
  <2> HIDE DEF k, q, F
  <2> QED BY <2>1, Zenon DEF BeatCarries, F
<1>5. q.id \in Nat /\ q.from \in Nat /\ n \in Nat
  BY <1>1 DEF WriteType
<1>6. F \in Nat
  BY <1>5, FirstIsNat
<1>7. F + n <= top
  BY <1>3 DEF WriteFits
<1>8. W = F + lo
  <2>1. W = First(start, WReq) + (IF ~w_cnt_valid THEN 0 ELSE StrbWidth * BeatsWritten - WReq.offset)
    BY <1>1 DEF WriteAt
  <2> QED BY <1>1, <2>1 DEF BeatLo
<1>9. W2 = F + hi
  BY DEF NextWrite
<1>10. \A l \in Lanes : OutLane(l) = (l + q.shift) % StrbWidth /\ Index(l) = k * StrbWidth + l - q.offset
  BY DEF OutLane, Index
<1>11. MaskOut \subseteq Lanes /\ LanesOut(q, k) = MaskOut
  BY <1>1 DEF OutValid
<1> DEFINE s == q.shift
           m == StrbWidth
<1>12. m \in Nat \ {0} /\ s \in Int /\ Lanes = 0..m-1
  <2>1. m \in Nat \ {0} /\ Lanes = 0..m-1 /\ s \in Lanes
    BY <1>1, Sizes DEF Lanes, WriteType
  <2> HIDE DEF m, s
  <2> QED BY <2>1
<1> HIDE DEF q, k, F, lo, hi, n, W, W2, s, m
<1>13. /\ W \in Nat /\ W2 \in Nat /\ W < W2 /\ W2 <= top /\ top \in Nat
       /\ \A p \in W..W2-1 : p - F \in lo..hi-1 /\ F + (p - F) = p
       /\ \A x \in lo..hi-1 : F + x \in W..W2-1
  BY <1>4, <1>5, <1>6, <1>7, <1>8, <1>9
<1>14. ASSUME NEW p \in W..W2-1
       PROVE  \E l \in MaskOut : OutLane(l) = lane[p] /\ Index(l) = p - F /\ p \in Int
  <2>1. PICK l \in MaskOut : k * StrbWidth + l - q.offset = p - F
    BY <1>4, <1>11, <1>13
  <2>2. PICK x \in lo..hi-1 : /\ k * StrbWidth + l - q.offset = x
                              /\ lane[F + x] = (l + q.shift) % StrbWidth
    BY <1>4, <1>11
  <2>3. x = p - F
    BY <2>1, <2>2
  <2>4. F + (p - F) = p /\ l \in Lanes
    BY <1>11, <1>13
  <2>5. lane[p] = (l + q.shift) % StrbWidth
    BY <2>2, <2>3, <2>4
  <2>6. OutLane(l) = lane[p] /\ Index(l) = p - F
    BY <1>10, <2>1, <2>4, <2>5
  <2> QED BY <2>6
<1>15. Distinct(lane, W, W2)
  <2> SUFFICES ASSUME NEW p \in W..W2-1, NEW o \in W..W2-1, lane[p] = lane[o]
               PROVE  p = o
    BY DEF Distinct
  <2>1. PICK a \in MaskOut : OutLane(a) = lane[p] /\ Index(a) = p - F
    BY <1>14
  <2>2. PICK b \in MaskOut : OutLane(b) = lane[o] /\ Index(b) = o - F
    BY <1>14
  <2>3. a \in Lanes /\ b \in Lanes
    BY <1>11
  <2>4. (a + s) % m = (b + s) % m
    BY <1>10, <2>1, <2>2, <2>3 DEF s, m
  <2>5. a \in 0..m-1 /\ b \in 0..m-1
    BY <1>12, <2>3
  <2>6. a = b
    <3>1. a \in Int /\ b \in Int /\ a - b < m /\ b - a < m
      BY <1>12, <2>5
    <3> QED BY <1>12, <2>4, <3>1, ModInject
  <2>7. p - F = o - F
    BY <2>1, <2>2, <2>6
  <2> QED BY <1>6, <2>7
<1>16. ASSUME NEW p \in W..W2-1
       PROVE  p < R /\ AtHead(lane, byte, p)
  <2>1. PICK l \in MaskOut : OutLane(l) = lane[p]
    BY <1>14
  <2>2. buffer[OutLane(l)] # <<>>
    BY <1>1 DEF OutValid
  <2>3. Held(start, lane, byte, W, R) /\ Waiting(lane, p)
    BY <2>1, <2>2 DEF W, Waiting
  <2> QED BY <1>13, <1>15, <2>3, HeadOfLane
<1>17. W2 <= R
  <2>1. W2 - 1 \in W..W2-1
    BY <1>13
  <2>2. W2 - 1 < R
    BY <1>16, <2>1
  <2> QED BY <1>13, <2>2
<1>18. ASSUME NEW l \in MaskOut
       PROVE  \E p \in W..W2-1 : Strobes(lane, byte, l, p)
  <2>1. l \in LanesOut(q, k) /\ l \in Lanes
    BY <1>11
  <2>2. PICK x \in lo..hi-1 : /\ k * StrbWidth + l - q.offset = x
                              /\ lane[F + x] = (l + q.shift) % StrbWidth
                              /\ byte[F + x] = <<q.id, q.from + x>>
    BY <1>4, <2>1
  <2>3. Index(l) = x /\ OutLane(l) = lane[F + x] /\ F + x \in W..W2-1
    BY <1>10, <1>13, <2>1, <2>2
  <2>4. Strobes(lane, byte, l, F + x)
    BY <2>2, <2>3 DEF Strobes, q
  <2> QED BY <2>3, <2>4
<1>19. \A l \in Lanes : l \in MaskOut <=> Index(l) \in 0..n-1
  BY <1>4, <1>10, <1>11
<1> QED BY <1>13, <1>14, <1>15, <1>16, <1>17, <1>18, <1>19, Zenon DEF W, W2, q, n

(* The write side in a cycle: the oldest request is left only with its     *)
(* last byte, and nothing is skipped between two requests.                 *)
LEMMA WriteMoves ==
    ASSUME CtlInv, NEW i \in Inputs, WriteSide(i),
           NEW start \in Starts, NEW lane \in LaneMaps, NEW byte \in ByteMaps,
           NEW top \in Nat, NEW wend \in Nat, NEW wend2 \in Nat,
           WriteQueue(start, lane, byte, top, wend),
           WPush = <<>> \/ \E x \in Writes(start, lane, byte, top) : WPush = <<x>>,
           WPush = <<>> => wend2 = wend,
           WPush # <<>> => /\ First(start, Head(WPush)) = wend
                           /\ First(start, Head(WPush)) + Head(WPush).bytes = wend2
    PROVE  /\ WriteQueue(start, lane, byte, top, wend2)'
           /\ WriteAt(start, wend2)' = IF WriteHappens(i) THEN NextWrite(start) ELSE WriteAt(start, wend)
<1> DEFINE pop == Forked(i) = {"rsp", "port"}
           push == WPush
           S == Writes(start, lane, byte, top)
           F == WriteFirst(start)
           L == WriteEnd(start)
           beat == WriteHappens(i)
           next == Rest(w_dp, pop) \o push
<1>1. /\ w_dp' = next
      /\ forked' = IF pop THEN {} ELSE Forked(i)
      /\ beat /\ ~IsSingle =>
            /\ w_num_beats' = IF w_cnt_valid THEN w_num_beats - 1 ELSE WReq.num_beats
            /\ w_cnt_valid' = ~LastW
      /\ ~(beat /\ ~IsSingle) => w_num_beats' = w_num_beats /\ w_cnt_valid' = w_cnt_valid
  BY DEF WriteSide
<1>2. /\ beat \in BOOLEAN /\ (beat => w_dp # <<>> /\ "port" \notin forked /\ ReadyToWrite)
      /\ "port" \in Forked(i) <=> "port" \in forked \/ (beat /\ LastW)
      /\ Forked(i) # {} => w_dp # <<>>
      /\ pop \in BOOLEAN /\ (pop => w_dp # <<>> /\ "port" \in Forked(i))
  BY ForkStep DEF WriteHappens
<1>3. /\ Typed /\ Forking
  BY DEF CtlInv
<1>4. /\ w_cnt_valid => w_dp # <<>> /\ "port" \notin forked /\ w_num_beats \in 1..WReq.num_beats
      /\ forked # {} => w_dp # <<>>
  BY <1>3 DEF Forking
<1>5. w_dp \in Seq(S) /\ Chain(w_dp, F, L, wend)
  BY DEF WriteQueue
<1>6. \A q \in S : /\ q \in WriteType
                   /\ F[q] = First(start, q) /\ L[q] = First(start, q) + q.bytes
  BY DEF Writes, WriteFirst, WriteEnd
<1>7. w_dp # <<>> => WReq = w_dp[1] /\ WReq \in S
  BY <1>5, HeadTailProperties DEF WReq
<1>8. push # <<>> => F[Head(push)] = wend /\ L[Head(push)] = wend2
  <2>1. push # <<>> => Head(push) \in S
    OBVIOUS
  <2> HIDE DEF S, F, L
  <2> QED BY <1>6, <2>1
<1>9. /\ next \in Seq(S) /\ Chain(next, F, L, wend2)
      /\ Begin(next, F, wend2) = IF pop THEN L[w_dp[1]] ELSE Begin(w_dp, F, wend)
      /\ ~pop /\ w_dp # <<>> => next # <<>> /\ next[1] = w_dp[1]
  <2>1. /\ push = <<>> \/ \E x \in S : push = <<x>>
        /\ push = <<>> => wend2 = wend
    OBVIOUS
  <2>2. pop \in BOOLEAN /\ (pop => w_dp # <<>>)
    BY <1>2
  <2> HIDE DEF pop, push, S, F, L
  <2>3. next \in Seq(S) /\ Linked(w_dp, next, pop, F, L, wend, wend2)
    BY <1>5, <1>8, <2>1, <2>2, ChainStep
  <2> QED BY <2>3 DEF Linked
<1>10. WriteQueue(start, lane, byte, top, wend2)'
  BY <1>1, <1>9 DEF WriteQueue
<1>11. w_dp' # <<>> => WReq' = w_dp'[1] /\ WReq' \in S
  BY <1>1, <1>9, HeadTailProperties DEF WReq
<1> HIDE DEF S, F, L, next, push
<1>12. /\ Begin(w_dp, F, wend) = IF w_dp = <<>> THEN wend ELSE First(start, WReq)
       /\ w_dp # <<>> => L[w_dp[1]] = First(start, WReq) + WReq.bytes
       /\ Begin(w_dp', F, wend2) = IF w_dp' = <<>> THEN wend2 ELSE First(start, WReq')
  BY <1>6, <1>7, <1>11 DEF Begin
<1>13. /\ WriteAt(start, wend) =
            IF w_dp = <<>> THEN wend
            ELSE First(start, WReq) +
                   (IF "port" \in forked THEN WReq.bytes
                    ELSE IF ~w_cnt_valid THEN 0 ELSE StrbWidth * BeatsWritten - WReq.offset)
       /\ WriteAt(start, wend2)' =
            IF w_dp' = <<>> THEN wend2
            ELSE First(start, WReq') +
                   (IF "port" \in forked' THEN WReq'.bytes
                    ELSE IF ~w_cnt_valid' THEN 0 ELSE StrbWidth * BeatsWritten' - WReq'.offset)
  BY DEF WriteAt
<1>14. w_dp # <<>> => First(start, WReq) \in Nat
  <2>1. w_dp # <<>> => WReq.id \in Nat /\ WReq.from \in Nat
    BY <1>6, <1>7 DEF WriteType
  <2> QED BY <2>1, FirstIsNat
<1>15. w_dp' # <<>> => First(start, WReq') \in Nat
  <2>1. w_dp' # <<>> => WReq' \in WriteType
    BY <1>6, <1>11
  <2>2. w_dp' # <<>> => WReq'.id \in Nat /\ WReq'.from \in Nat
    BY <2>1 DEF WriteType
  <2> QED BY <2>2, FirstIsNat
<1>16. ASSUME beat
       PROVE  /\ LastW => NextWrite(start) = First(start, WReq) + WReq.bytes
              /\ ~LastW => NextWrite(start) = First(start, WReq)
                                 + (StrbWidth * (BeatsWritten + 1) - WReq.offset)
              /\ BeatsWritten \in 0..WReq.num_beats /\ WReq.num_beats \in Nat
              /\ LastW <=> BeatsWritten = WReq.num_beats
  <2> DEFINE q == WReq
             k == BeatsWritten
  <2>1. /\ q \in WriteType /\ k \in 0..q.num_beats /\ (LastW <=> k = q.num_beats)
    BY <1>2, <1>3, <1>16, BeatOfWrite
  <2>2. WriteFits(start, lane, byte, top, q)
    BY <1>2, <1>7, <1>16 DEF S, Writes
  <2>3. q.num_beats \in Nat
    BY <2>1 DEF WriteType
  <2> HIDE DEF q, k
  <2>4. BeatCarries(start, lane, byte, q, k)
    BY <2>1, <2>2, WriteBeat
  <2>5. /\ k = q.num_beats => BeatHi(q.offset, q.tailer, q.num_beats + 1, k) = q.bytes
        /\ k # q.num_beats =>
               BeatHi(q.offset, q.tailer, q.num_beats + 1, k) = BeatLo(q.offset, k + 1)
    BY <2>4 DEF BeatCarries
  <2>6. NextWrite(start) = First(start, q) + BeatHi(q.offset, q.tailer, q.num_beats + 1, k)
    BY DEF NextWrite, q, k
  <2>7. BeatLo(q.offset, k + 1) = StrbWidth * (k + 1) - q.offset
    <3>1. k + 1 # 0
      BY <2>1, <2>3
    <3> QED BY <3>1 DEF BeatLo
  <2> QED BY <2>1, <2>3, <2>5, <2>6, <2>7 DEF q, k
<1>17. CASE w_dp = <<>>
  <2>1. ~beat /\ ~pop /\ ~w_cnt_valid /\ ~w_cnt_valid' /\ "port" \notin forked'
    BY <1>1, <1>2, <1>4, <1>17
  <2>2. Begin(w_dp', F, wend2) = wend
    BY <1>1, <1>9, <1>12, <1>17, <2>1
  <2>3. WriteAt(start, wend2)' = wend
    BY <1>12, <1>13, <1>15, <2>1, <2>2
  <2> QED BY <1>10, <1>13, <1>17, <2>1, <2>3
<1>18. CASE w_dp # <<>> /\ pop
  <2>1. forked' = {} /\ ("port" \in forked \/ (beat /\ LastW))
    BY <1>1, <1>2, <1>18
  <2>2. ~w_cnt_valid'
    <3>1. CASE "port" \in forked
      BY <1>1, <1>2, <1>4, <3>1
    <3>2. CASE beat /\ LastW /\ ~IsSingle
      BY <1>1, <3>2
    <3>3. CASE beat /\ IsSingle
      <4>1. WReq.num_beats = 0
        BY <3>3 DEF IsSingle
      <4> QED BY <1>1, <1>4, <3>3, <4>1
    <3> QED BY <2>1, <3>1, <3>2, <3>3
  <2>3. Begin(w_dp', F, wend2) = First(start, WReq) + WReq.bytes
    BY <1>1, <1>9, <1>12, <1>18
  <2>4. WriteAt(start, wend2)' = First(start, WReq) + WReq.bytes
    BY <1>12, <1>13, <1>15, <2>1, <2>2, <2>3
  <2>5. CASE "port" \in forked
    BY <1>2, <1>10, <1>13, <1>18, <2>4, <2>5
  <2>6. CASE beat /\ LastW
    BY <1>10, <1>16, <2>4, <2>6
  <2> QED BY <2>1, <2>5, <2>6
<1>19. CASE w_dp # <<>> /\ ~pop
  <2>1. w_dp' # <<>> /\ WReq' = WReq /\ forked' = Forked(i)
    BY <1>1, <1>7, <1>9, <1>11, <1>19
  <2>2. CASE "port" \in forked
    BY <1>2, <1>10, <1>13, <1>19, <2>1, <2>2
  <2>3. CASE "port" \notin forked /\ beat /\ LastW
    BY <1>2, <1>10, <1>13, <1>16, <1>19, <2>1, <2>3
  <2>4. CASE "port" \notin forked /\ beat /\ ~LastW
    <3>1. "port" \notin forked'
      BY <1>2, <2>1, <2>4
    <3>2. ~IsSingle /\ w_cnt_valid' /\ w_num_beats' = IF w_cnt_valid THEN w_num_beats - 1 ELSE WReq.num_beats
      BY <1>1, <2>4 DEF LastW
    <3>3. BeatsWritten' = BeatsWritten + 1
      <4> DEFINE n == WReq.num_beats
                 c == w_num_beats
                 c2 == w_num_beats'
      <4>1. n \in Nat /\ c \in Nat
        BY <1>3, <1>16, <2>4 DEF Typed
      <4>2. BeatsWritten' = n + 1 - c2
        BY <2>1, <3>2 DEF BeatsWritten
      <4>3. BeatsWritten = IF w_cnt_valid THEN n + 1 - c ELSE 0
        BY DEF BeatsWritten
      <4>4. c2 = IF w_cnt_valid THEN c - 1 ELSE n
        BY <3>2
      <4> HIDE DEF n, c, c2
      <4> QED BY <4>1, <4>2, <4>3, <4>4
    <3> QED BY <1>10, <1>13, <1>16, <2>1, <2>4, <3>1, <3>2, <3>3
  <2>5. CASE "port" \notin forked /\ ~beat
    <3>1. "port" \notin forked' /\ w_num_beats' = w_num_beats /\ w_cnt_valid' = w_cnt_valid
      BY <1>1, <1>2, <2>1, <2>5
    <3>2. BeatsWritten' = BeatsWritten
      BY <2>1, <3>1 DEF BeatsWritten
    <3> QED BY <1>10, <1>13, <1>19, <2>1, <2>5, <3>1, <3>2
  <2> QED BY <1>2, <2>2, <2>3, <2>4, <2>5
<1> QED BY <1>2, <1>17, <1>18, <1>19

(* The read side in a cycle: the beat taken brings the next bytes of the   *)
(* stream, and the oldest request is left with its last byte.              *)
LEMMA ReadMoves ==
    ASSUME CtlInv, NEW i \in Inputs, ReadSide(i),
           NEW start \in Starts, NEW lane \in LaneMaps, NEW byte \in ByteMaps,
           NEW top \in Nat, NEW rend \in Nat, NEW rend2 \in Nat, rend <= top, rend2 <= top,
           ReadQueue(start, lane, byte, top, rend),
           RPush = <<>> \/ \E x \in Reads(start, lane, byte, top) : RPush = <<x>>,
           RPush = <<>> => rend2 = rend,
           RPush # <<>> => /\ First(start, Head(RPush)) = rend
                           /\ First(start, Head(RPush)) + RLen(Head(RPush)) = rend2
    PROVE  /\ ReadQueue(start, lane, byte, top, rend2)'
           /\ \E R, R2 \in Nat :
                 /\ ReadAt(start, rend) = R /\ ReadAt(start, rend2)' = R2 /\ R2 <= top
                 /\ Entering(i, lane, byte, R, R2)
<1> DEFINE beat == ReadHappens(i)
           pop == beat /\ LastBeat
           push == RPush
           S == Reads(start, lane, byte, top)
           F == ReadFirst(start)
           L == ReadEnd(start)
           next == Rest(r_dp, pop) \o push
<1>1. /\ r_dp' = next
      /\ first_r' = IF beat /\ RReq.proto = "AXI" THEN LastBeat ELSE first_r
      /\ r_beat' = IF pop THEN 0 ELSE r_beat + One(beat)
  BY DEF ReadSide
<1>2. /\ beat \in BOOLEAN /\ LastBeat \in BOOLEAN /\ pop \in BOOLEAN
      /\ (beat => r_dp # <<>>) /\ (pop => r_dp # <<>>)
  BY DEF ReadHappens, LastBeat
<1>3. Typed
  BY DEF CtlInv
<1>4. r_beat \in Nat /\ first_r \in BOOLEAN
  BY <1>3 DEF Typed
<1>5. /\ r_dp \in Seq(S) /\ Chain(r_dp, F, L, rend)
      /\ r_dp = <<>> => r_beat = 0
      /\ first_r <=> r_beat = 0
  BY DEF ReadQueue
<1>6. \A q \in S : /\ q \in ReadType /\ ReadFits(start, lane, byte, top, q)
                   /\ F[q] = First(start, q) /\ L[q] = First(start, q) + RLen(q)
  BY DEF Reads, ReadFirst, ReadEnd
<1>7. r_dp # <<>> => RReq = r_dp[1] /\ RReq \in S
  BY <1>5, HeadTailProperties DEF RReq
<1>8. push # <<>> => F[Head(push)] = rend /\ L[Head(push)] = rend2
  <2>1. push # <<>> => Head(push) \in S
    OBVIOUS
  <2> HIDE DEF S, F, L
  <2> QED BY <1>6, <2>1
<1>9. /\ next \in Seq(S) /\ Chain(next, F, L, rend2)
      /\ Begin(next, F, rend2) = IF pop THEN L[r_dp[1]] ELSE Begin(r_dp, F, rend)
      /\ ~pop /\ r_dp # <<>> => next # <<>> /\ next[1] = r_dp[1]
  <2>1. /\ push = <<>> \/ \E x \in S : push = <<x>>
        /\ push = <<>> => rend2 = rend
    OBVIOUS
  <2>2. pop \in BOOLEAN /\ (pop => r_dp # <<>>)
    BY <1>2
  <2> HIDE DEF pop, push, S, F, L
  <2>3. next \in Seq(S) /\ Linked(r_dp, next, pop, F, L, rend, rend2)
    BY <1>5, <1>8, <2>1, <2>2, ChainStep
  <2> QED BY <2>3 DEF Linked
<1>10. r_dp' # <<>> => RReq' = r_dp'[1] /\ RReq' \in S
  BY <1>1, <1>9, HeadTailProperties DEF RReq
<1>11. /\ RReq.proto \in Protocols => RReq.proto = "AXI" \/ RReq.proto = "AXI_STREAM"
       /\ r_dp # <<>> => RReq.proto \in Protocols
  BY <1>6, <1>7 DEF Protocols, ReadType
<1>12. RReq.proto = "AXI_STREAM" => LastBeat
  BY DEF LastBeat
<1> HIDE DEF S, F, L, next, push
<1>13. /\ Begin(r_dp, F, rend) = IF r_dp = <<>> THEN rend ELSE First(start, RReq)
       /\ r_dp # <<>> => L[r_dp[1]] = First(start, RReq) + RLen(RReq)
       /\ Begin(r_dp', F, rend2) = IF r_dp' = <<>> THEN rend2 ELSE First(start, RReq')
  BY <1>6, <1>7, <1>10 DEF Begin
<1>14. /\ ReadAt(start, rend) =
             IF r_dp = <<>> THEN rend ELSE First(start, RReq) + BeatLo(RReq.offset, r_beat)
       /\ ReadAt(start, rend2)' =
             IF r_dp' = <<>> THEN rend2 ELSE First(start, RReq') + BeatLo(RReq'.offset, r_beat')
  BY DEF ReadAt, BeatLo
<1>15. \A o : BeatLo(o, 0) = 0
  BY DEF BeatLo
<1>16. ASSUME r_dp # <<>>
       PROVE  /\ RReq \in ReadType /\ ReadFits(start, lane, byte, top, RReq)
              /\ r_beat \in 0..RReq.beats-1
              /\ LastBeat <=> r_beat = RReq.beats - 1
              /\ MaskIn = LanesIn(RReq, r_beat)
              /\ \A l : ByteIn(l) = BeatByte(RReq, r_beat, l)
  BY <1>3, <1>16, BeatOfRead
<1>17. ASSUME r_dp' # <<>>
       PROVE  /\ First(start, RReq') \in Nat /\ First(start, RReq') + RLen(RReq') <= top
              /\ RReq'.beats \in Nat \ {0} /\ RReq' \in ReadType
  <2>1. RReq' \in ReadType /\ ReadFits(start, lane, byte, top, RReq')
    BY <1>6, <1>10, <1>17
  <2>2. RReq'.id \in Nat /\ RReq'.from \in Nat /\ RReq'.beats \in Nat \ {0}
    BY <2>1 DEF ReadType
  <2> QED BY <2>1, <2>2, FirstIsNat DEF ReadFits
<1>18. ASSUME r_dp # <<>>
       PROVE  \E f, lo, hi, len \in Nat :
                 /\ f = First(start, RReq) /\ lo = BeatLo(RReq.offset, r_beat)
                 /\ hi = BeatHi(RReq.offset, RReq.tailer, RReq.beats, r_beat) /\ len = RLen(RReq)
                 /\ lo < hi /\ hi <= len /\ f + len <= top
                 /\ LastBeat => hi = len
                 /\ ~LastBeat => hi = BeatLo(RReq.offset, r_beat + 1)
  <2>1. RReq.id \in Nat /\ RReq.from \in Nat
    BY <1>16, <1>18 DEF ReadType
  <2>2. First(start, RReq) \in Nat
    BY <2>1, FirstIsNat
  <2>3. First(start, RReq) + RLen(RReq) <= top
    BY <1>16, <1>18 DEF ReadFits
  <2> DEFINE q == RReq
             k == r_beat
  <2>4. /\ q \in ReadType /\ ReadFits(start, lane, byte, top, q) /\ k \in 0..q.beats-1
        /\ LastBeat <=> k = q.beats - 1
    BY <1>16, <1>18
  <2> HIDE DEF q, k
  <2>5. /\ BeatLo(q.offset, k) \in Nat /\ BeatHi(q.offset, q.tailer, q.beats, k) \in Nat
        /\ BeatLo(q.offset, k) < BeatHi(q.offset, q.tailer, q.beats, k)
        /\ BeatHi(q.offset, q.tailer, q.beats, k) <= RLen(q) /\ RLen(q) \in Nat
        /\ k = q.beats - 1 => BeatHi(q.offset, q.tailer, q.beats, k) = RLen(q)
        /\ k # q.beats - 1 => BeatHi(q.offset, q.tailer, q.beats, k) = BeatLo(q.offset, k + 1)
    BY <2>4, ReadBeatRange
  <2> QED BY <2>2, <2>3, <2>4, <2>5 DEF q, k
(* No beat. *)
<1>19. ASSUME ~beat
       PROVE  /\ ReadQueue(start, lane, byte, top, rend2)'
              /\ \E R, R2 \in Nat :
                    /\ ReadAt(start, rend) = R /\ ReadAt(start, rend2)' = R2 /\ R2 <= top
                    /\ Entering(i, lane, byte, R, R2)
  <2>1. r_beat' = r_beat /\ first_r' = first_r /\ ~pop
    BY <1>1, <1>4, <1>19 DEF One
  <2>2. \A R \in Nat : Entering(i, lane, byte, R, R)
    BY <1>19 DEF Entering
  <2>3. CASE r_dp = <<>>
    <3>1. Begin(r_dp', F, rend2) = rend /\ r_beat' = 0
      BY <1>1, <1>5, <1>9, <1>13, <2>1, <2>3
    <3>2. ReadAt(start, rend2)' = rend /\ ReadAt(start, rend) = rend
      BY <1>13, <1>14, <1>15, <1>17, <2>3, <3>1
    <3>3. ReadQueue(start, lane, byte, top, rend2)'
      <4>1. r_dp' # <<>> => r_beat' < RReq'.beats
        BY <1>17, <3>1
      <4>2. r_dp' \in Seq(S) /\ Chain(r_dp', F, L, rend2)
        BY <1>1, <1>9
      <4>3. r_dp' = <<>> => r_beat' = 0
        BY <3>1
      <4>4. first_r' <=> r_beat' = 0
        BY <1>5, <2>1
      <4> QED BY <4>1, <4>2, <4>3, <4>4 DEF ReadQueue, S, F, L
    <3> QED BY <2>2, <3>2, <3>3
  <2>4. CASE r_dp # <<>>
    <3>1. r_dp' # <<>> /\ RReq' = RReq
      BY <1>1, <1>7, <1>9, <1>10, <2>1, <2>4
    <3>2. ReadAt(start, rend2)' = ReadAt(start, rend)
      BY <1>14, <2>1, <2>4, <3>1
    <3>3. ReadAt(start, rend) \in Nat /\ ReadAt(start, rend) <= top
      <4>1. PICK f \in Nat, lo \in Nat, hi \in Nat, len \in Nat :
                 /\ f = First(start, RReq) /\ lo = BeatLo(RReq.offset, r_beat)
                 /\ lo < hi /\ hi <= len /\ f + len <= top
        BY <1>18, <2>4
      <4> QED BY <1>14, <2>4, <4>1
    <3>4. ReadQueue(start, lane, byte, top, rend2)'
      <4>1. r_beat' < RReq'.beats
        BY <2>1, <2>4, <3>1 DEF ReadQueue
      <4> QED BY <1>1, <1>5, <1>9, <2>1, <3>1, <4>1 DEF ReadQueue, S, F, L
    <3> QED BY <2>2, <3>2, <3>3, <3>4
  <2> QED BY <2>3, <2>4
(* A beat. *)
<1>20. ASSUME beat
       PROVE  /\ ReadQueue(start, lane, byte, top, rend2)'
              /\ \E R, R2 \in Nat :
                    /\ ReadAt(start, rend) = R /\ ReadAt(start, rend2)' = R2 /\ R2 <= top
                    /\ Entering(i, lane, byte, R, R2)
  <2>1. r_dp # <<>>
    BY <1>2, <1>20
  <2>2. PICK f \in Nat, lo \in Nat, hi \in Nat, len \in Nat :
                 /\ f = First(start, RReq) /\ lo = BeatLo(RReq.offset, r_beat)
                 /\ hi = BeatHi(RReq.offset, RReq.tailer, RReq.beats, r_beat) /\ len = RLen(RReq)
                 /\ lo < hi /\ hi <= len /\ f + len <= top
                 /\ LastBeat => hi = len
                 /\ ~LastBeat => hi = BeatLo(RReq.offset, r_beat + 1)
    BY <1>18, <2>1
  <2>3. Entering(i, lane, byte, f + lo, f + hi)
    <3> DEFINE q == RReq
               k == r_beat
    <3>1. /\ q \in ReadType /\ ReadFits(start, lane, byte, top, q) /\ k \in 0..q.beats-1
          /\ MaskIn = LanesIn(q, k) /\ \A l : ByteIn(l) = BeatByte(q, k, l)
      BY <1>16, <2>1
    <3> HIDE DEF q, k
    <3>2. BeatBrings(start, lane, byte, q, k)
      BY <3>1, ReadBeat
    <3>3. /\ \A x \in lo..hi-1 : /\ lane[f + x] \in MaskIn
                                 /\ ByteIn(lane[f + x]) = byte[f + x]
          /\ \A l \in MaskIn : \E x \in lo..hi-1 : lane[f + x] = l
      BY <2>2, <3>1, <3>2 DEF BeatBrings, q, k
    <3>4. \A p \in (f + lo)..(f + hi)-1 : p - f \in lo..hi-1 /\ f + (p - f) = p
      OBVIOUS
    <3>5. \A x \in lo..hi-1 : f + x \in (f + lo)..(f + hi)-1
      OBVIOUS
    <3>6. f + lo <= f + hi
      BY <2>2
    <3>7. \A l \in MaskIn : \E p \in (f + lo)..(f + hi)-1 : lane[p] = l
      BY <3>3, <3>5, Zenon
    <3>8. ASSUME NEW p \in (f + lo)..(f + hi)-1
          PROVE  lane[p] \in MaskIn /\ ByteIn(lane[p]) = byte[p]
      <4>1. p - f \in lo..hi-1 /\ f + (p - f) = p
        BY <3>4
      <4> DEFINE x == p - f
      <4> HIDE DEF x
      <4>2. lane[f + x] \in MaskIn /\ ByteIn(lane[f + x]) = byte[f + x]
        BY <3>3, <4>1 DEF x
      <4> QED BY <4>1, <4>2 DEF x
    <3> QED BY <1>20, <3>6, <3>7, <3>8 DEF Entering
  <2>4. ReadAt(start, rend) = f + lo
    BY <1>14, <2>1, <2>2
  <2>5. CASE LastBeat
    <3>1. pop /\ r_beat' = 0
      BY <1>1, <1>20, <2>5
    <3>2. Begin(r_dp', F, rend2) = f + len
      BY <1>1, <1>9, <1>13, <2>1, <2>2, <3>1
    <3>3. ReadAt(start, rend2)' = f + hi
      BY <1>13, <1>14, <1>15, <1>17, <2>2, <2>5, <3>1, <3>2
    <3>4. first_r'
      <4>1. CASE RReq.proto = "AXI"
        BY <1>1, <1>20, <2>5, <4>1
      <4>2. CASE RReq.proto = "AXI_STREAM"
        <5>1. RReq.beats = 1
          BY <1>16, <2>1, <4>2 DEF ReadFits
        <5>2. r_beat = 0
          BY <1>16, <2>1, <5>1
        <5> QED BY <1>1, <1>5, <4>2, <5>2
      <4> QED BY <1>11, <2>1, <4>1, <4>2
    <3>5. ReadQueue(start, lane, byte, top, rend2)'
      <4>1. r_dp' # <<>> => r_beat' < RReq'.beats
        BY <1>17, <3>1
      <4> QED BY <1>1, <1>9, <3>1, <3>4, <4>1 DEF ReadQueue, S, F, L
    <3> QED BY <2>2, <2>3, <2>4, <3>3, <3>5, SMTT(60)
  <2>6. CASE ~LastBeat
    <3>1. ~pop /\ r_beat' = r_beat + 1
      BY <1>1, <1>20, <2>6 DEF One
    <3>2. r_dp' # <<>> /\ RReq' = RReq
      BY <1>1, <1>7, <1>9, <1>10, <2>1, <3>1
    <3>3. ReadAt(start, rend2)' = f + hi
      BY <1>14, <2>2, <2>6, <3>1, <3>2
    <3>4. ~first_r' /\ r_beat' # 0
      <4>1. RReq.proto = "AXI"
        BY <1>11, <1>12, <2>1, <2>6
      <4>2. first_r' = LastBeat
        BY <1>1, <1>20, <4>1
      <4>3. r_beat' # 0
        BY <1>4, <3>1
      <4> QED BY <2>6, <4>2, <4>3
    <3>5. ReadQueue(start, lane, byte, top, rend2)'
      <4> DEFINE n == RReq.beats
      <4>1. n \in Nat /\ r_beat \in 0..n-1 /\ r_beat # n - 1
        BY <1>16, <2>1, <2>6 DEF ReadType
      <4> HIDE DEF n
      <4>2. r_beat + 1 < n
        BY <4>1
      <4>3. r_beat' < RReq'.beats
        BY <3>1, <3>2, <4>2 DEF n
      <4> QED BY <1>1, <1>9, <3>2, <3>4, <4>3 DEF ReadQueue, S, F, L
    <3> QED BY <2>2, <2>3, <2>4, <3>3, <3>5, SMTT(60)
  <2> QED BY <1>2, <2>5, <2>6
<1> QED BY <1>2, <1>19, <1>20

----------------------------------------------------------------------------
(* What the legalizer emits. *)

(* The beats of a burst and its tailer say where its bytes end.            *)
LEMMA BurstEnd ==
    ASSUME NEW a \in Nat, NEW n \in Nat \ {0}
    PROVE  End(Leg!Beats(a, n), (n + a) % StrbWidth) = (a % StrbWidth) + n
<1> DEFINE m == StrbWidth
           o == a % m
           c == n + o - 1
           q == c \div m
           r == c % m
           t == (n + a) % m
<1>1. m \in Nat \ {0} /\ o \in 0..m-1
  BY Sizes DEF Lanes
<1>2. t = (o + n) % m
  <2>1. a \in Int /\ n \in Int /\ n + a = a + n
    OBVIOUS
  <2>2. ((a % m) + n) % m = (a + n) % m
    <3> HIDE DEF m
    <3> QED BY <1>1, <2>1, ModAdd
  <2> QED BY <2>1, <2>2
<1>3. Leg!Beats(a, n) = q + 1
  BY DEF Leg!Beats, Leg!StrbWidth, StrbWidth
<1>4. End(q + 1, t) = m * ((q + 1) - 1) + (IF t = 0 THEN m ELSE t)
  BY DEF End
<1> HIDE DEF m
<1>5. c \in Int
  <2> HIDE DEF o
  <2> QED BY <1>1
<1> HIDE DEF c
<1>6. c = m * q + r /\ q \in Int /\ r \in 0..m-1
  BY <1>1, <1>5, DivMod
<1>7. o + n = c + 1
  <2>1. o \in Int
    BY <1>1
  <2> HIDE DEF o
  <2> QED BY <2>1 DEF c
<1> HIDE DEF q, r, o, t
<1>8. m * ((q + 1) - 1) = m * q /\ m * q \in Int /\ m * (q + 1) = m * q + m
  BY <1>1, <1>6
<1>9. CASE r = m - 1
  <2>1. o + n = m * (q + 1) + 0 /\ 0 \in 0..m-1 /\ q + 1 \in Int
    BY <1>1, <1>6, <1>7, <1>8, <1>9
  <2>2. t = 0
    BY <1>1, <1>2, <2>1, DivModOf
  <2> QED BY <1>1, <1>3, <1>4, <1>6, <1>7, <1>8, <1>9, <2>2 DEF o, t, m
<1>10. CASE r # m - 1
  <2> DEFINE u == r + 1
  <2>1. o + n = m * q + u /\ u \in 0..m-1 /\ u # 0
    BY <1>1, <1>6, <1>7, <1>8, <1>10
  <2>2. t = u
    <3> HIDE DEF u
    <3> QED BY <1>1, <1>2, <1>6, <2>1, DivModOf
  <2>3. End(q + 1, t) = o + n
    BY <1>4, <1>8, <2>1, <2>2
  <2> QED BY <1>3, <2>3 DEF o, t, m
<1> QED BY <1>9, <1>10

(* A burst within a bus word is one beat.                                  *)
LEMMA OneBeat ==
    ASSUME NEW a \in Nat, NEW n \in Nat \ {0}, a \div StrbWidth = (a + n - 1) \div StrbWidth
    PROVE  Leg!Beats(a, n) = 1
<1> DEFINE m == StrbWidth
           o == a % m
           b == a + n - 1
           q == a \div m
           r == b % m
<1>1. m \in Nat \ {0}
  BY Sizes
<1>2. Leg!Beats(a, n) = ((n + o - 1) \div m) + 1
  BY DEF Leg!Beats, Leg!StrbWidth, StrbWidth
<1>3. q = b \div m
  OBVIOUS
<1> HIDE DEF m
<1>4. b \in Int
  OBVIOUS
<1>5. b = a + n - 1
  OBVIOUS
<1> HIDE DEF b
<1>6. a = m * q + o /\ q \in Int /\ o \in 0..m-1
  BY <1>1, DivMod
<1>7. b = m * (b \div m) + r /\ r \in 0..m-1
  BY <1>1, <1>4, DivMod
<1> HIDE DEF o, r, q
<1>8. n + o - 1 = m * 0 + r /\ 0 \in Int
  BY <1>1, <1>3, <1>5, <1>6, <1>7
<1>9. (m * 0 + r) \div m = 0
  BY <1>1, <1>7, <1>8, DivModOf
<1> QED BY <1>2, <1>8, <1>9 DEF o

(* The lanes of what is read and written, rotated on the way in and out.   *)
LEMMA RotateIn ==
    ASSUME NEW m \in Nat \ {0}, NEW base \in Int, NEW src \in Int, NEW n \in Int
    PROVE  (((base + n) % m) + ((src - base) % m)) % m = (src + n) % m
<1> DEFINE t == (src - base) % m
           b == base + n
<1>1. t \in Int /\ b \in Int /\ src - base \in Int /\ b + (src - base) = src + n
  <2>1. src - base \in Int
    OBVIOUS
  <2> QED BY <2>1, DivMod
<1>2. t = (src - base) % m
  OBVIOUS
<1> HIDE DEF t, b
<1>3. ((b % m) + t) % m = (b + t) % m
  BY <1>1, ModAdd
<1>4. b + t = t + b
  BY <1>1
<1>5. (((src - base) % m) + b) % m = ((src - base) + b) % m
  BY <1>1, ModAdd
<1>6. (src - base) + b = src + n
  BY <1>1
<1> QED BY <1>2, <1>3, <1>4, <1>5, <1>6 DEF b

(* The request for a read burst is that of the next bytes of the transfer. *)
LEMMA NewRead ==
    ASSUME LegP!IInv, REmits, issued \in Nat,
           NEW start \in Starts, NEW lane, NEW byte, NEW top \in Nat,
           top = start[issued] + job.length, Newest(start, lane, byte)
    PROVE  /\ ReadFits(start, lane, byte, top, ReadRequest)
           /\ First(start, ReadRequest) = start[issued] + job.read
           /\ RLen(ReadRequest) = Leg!RNumBytes
<1> DEFINE q == ReadRequest
           a == r_tf.addr
           n == Leg!RNumBytes
           S == StrbWidth
           s == start[issued]
           f == job.read
           o == r_tf.addr % StrbWidth
           len == job.length
           src == job.src_addr
           base == Base
<1>1. r_tf.valid
  BY EmitsIntoRoom
<1>2. n \in Nat \ {0} /\ a \in Nat /\ f \in Nat /\ len \in Nat /\ src \in Nat /\ base \in Nat /\ s \in Nat
  <2>1. s \in Nat
    BY DEF Starts
  <2> QED BY <1>1, <2>1, BurstSizes, SameLegalizer DEF Base
<1>3. f + n <= len /\ a = (src + f) % AddrSpace
  <2>1. /\ ~job.killed /\ job.read + r_tf.length = job.length
        /\ r_tf.addr = (job.src_addr + job.read) % AddrSpace
    BY <1>1 DEF LegP!IInv, LegP!KilledIdle, LegP!BurstsTile, LegP!ReadTiles, LegP!BurstsContiguous
  <2>2. r_tf.length \in Nat /\ n <= r_tf.length
    <3>1. LegP!TypeOK
      BY DEF LegP!IInv
    <3>2. LegP!RNumBytesPossible \in Nat
      BY <3>1, LegP!PossiblePositive, LegalizerConstants
    <3>3. r_tf.length \in Nat
      BY <3>1 DEF LegP!TypeOK, LegP!HalfType
    <3>4. LegP!RNumBytes <= r_tf.length
      BY <3>2, <3>3 DEF LegP!RNumBytes, LegP!NumBytes, LegP!Smaller
    <3> QED BY <3>3, <3>4, SameLegalizer
  <2> DEFINE left == r_tf.length
  <2>3. left \in Nat /\ n <= left /\ f + left = len
    BY <2>1, <2>2
  <2> HIDE DEF left, n, f, len
  <2>4. f + n <= len
    BY <1>2, <2>3
  <2> QED BY <2>1, <2>4 DEF f
<1>4. S \in Nat \ {0} /\ AddrSpace \in Nat \ {0} /\ AddrSpace % S = 0
  BY Sizes
<1>5. o = (src + f) % S
  <2>1. src + f \in Int
    BY <1>2
  <2>2. o = a % S
    OBVIOUS
  <2> HIDE DEF S, a, o
  <2> DEFINE c == src + f
  <2> HIDE DEF c
  <2>3. c \in Int /\ a = c % AddrSpace
    BY <1>3, <2>1 DEF c
  <2>4. (c % AddrSpace) % S = c % S
    BY <1>4, <2>3, ModOfMod
  <2> QED BY <2>2, <2>3, <2>4 DEF c
<1>6. /\ q.offset = o /\ q.tailer = (n + a) % S /\ q.beats = Leg!Beats(a, n)
      /\ q.id = issued /\ q.from = f /\ q.proto = opt_tf.src_protocol
      /\ q.shift = ReadShift(job.src_addr, job.dst_addr)
  BY DEF ReadRequest
<1>7. q.shift = (src - base) % S
  <2>1. ReadShift(job.src_addr, job.dst_addr) = (src - base) % S
    BY <1>2 DEF ReadShift, Base
  <2> QED BY <1>6, <2>1
<1> HIDE DEF q
<1>8. o \in Int
  <2> HIDE DEF S, a
  <2>1. a \in Int /\ S \in Nat \ {0}
    BY <1>2, <1>4
  <2>2. a % S \in Int
    BY <2>1, DivMod
  <2> QED BY <2>2 DEF a, S
<1>9. RLen(q) = n
  <2>1. End(Leg!Beats(a, n), (n + a) % S) = o + n
    <3> HIDE DEF a, n
    <3>1. End(Leg!Beats(a, n), (n + a) % StrbWidth) = (a % StrbWidth) + n
      BY <1>2, BurstEnd
    <3> QED BY <3>1 DEF a
  <2>2. RLen(q) = (o + n) - o
    BY <1>6, <2>1 DEF RLen
  <2> HIDE DEF o, n
  <2> QED BY <1>2, <1>8, <2>2
<1>10. First(start, q) = s + f
  BY <1>6 DEF First
<1>11. q.proto = "AXI_STREAM" => q.beats = 1
  <2> SUFFICES ASSUME opt_tf.src_protocol = "AXI_STREAM" PROVE Leg!Beats(a, n) = 1
    BY <1>6
  <2>1. LegP!BurstsLegal
    BY LegP!LegalBursts, LegalizerConstants
  <2>2. LegP!LegalBurst(a, n, LegP!RPageWidth)
    BY <1>1, <2>1, SameLegalizer DEF LegP!BurstsLegal
  <2>3. LegP!RPageWidth = OffsetWidth
    BY DEF LegP!RPageWidth, LegP!PageWidth
  <2>4. a \div StrbWidth = (a + n - 1) \div StrbWidth
    <3> HIDE DEF a, n
    <3> QED BY <2>2, <2>3 DEF LegP!LegalBurst, LegP!WithinPage, StrbWidth
  <2> HIDE DEF a, n
  <2> QED BY <1>2, <2>4, OneBeat
<1>12. ASSUME NEW x \in 0..n-1
       PROVE  /\ byte[(s + f) + x] = <<issued, f + x>>
              /\ (lane[(s + f) + x] + ((src - base) % S)) % S = (o + x) % S
  <2> DEFINE y == f + x
  <2>1. y \in 0..len-1 /\ (s + f) + x = s + y /\ y \in Int /\ x \in Int
    <3> HIDE DEF n, f, len, s
    <3> QED BY <1>2, <1>3
  <2>2. byte[s + y] = <<issued, y>> /\ lane[s + y] = (base + y) % S
    <3> HIDE DEF y
    <3> QED BY <2>1 DEF Newest
  <2>3. (((base + y) % S) + ((src - base) % S)) % S = (src + y) % S
    <3>1. y \in Int
      BY <2>1
    <3> HIDE DEF y, S, base, src
    <3>2. base \in Int /\ src \in Int /\ S \in Nat \ {0}
      BY <1>2, <1>4
    <3> QED BY <3>1, <3>2, RotateIn
  <2>4. (o + x) % S = (src + y) % S
    <3> HIDE DEF S, src, o, f
    <3> DEFINE c == src + f
    <3>1. c \in Int /\ c + x = src + y
      BY <1>2, <2>1
    <3>2. o = c % S
      BY <1>5
    <3> HIDE DEF c, y
    <3>3. ((c % S) + x) % S = (c + x) % S
      BY <1>4, <2>1, <3>1, ModAdd
    <3> QED BY <3>1, <3>2, <3>3
  <2> QED BY <2>1, <2>2, <2>3, <2>4
<1>13. (s + f) + n <= top
  <2> HIDE DEF s, f, n, len
  <2>1. top = s + len
    BY DEF s, len
  <2> QED BY <1>2, <1>3, <2>1
<1>14. n > 0
  <2> HIDE DEF n
  <2> QED BY <1>2
<1>15. ReadFits(start, lane, byte, top, q)
  <2> HIDE DEF s, f, n, o, S, base, src
  <2>1. \A x \in 0..RLen(q)-1 :
          /\ byte[First(start, q) + x] = <<q.id, q.from + x>>
          /\ (lane[First(start, q) + x] + q.shift) % S = (q.offset + x) % S
    BY <1>6, <1>7, <1>9, <1>10, <1>12
  <2>2. RLen(q) > 0 /\ First(start, q) + RLen(q) <= top
    BY <1>9, <1>10, <1>13, <1>14
  <2> QED BY <1>11, <2>1, <2>2 DEF ReadFits, S
<1> QED BY <1>9, <1>10, <1>15 DEF q

LEMMA RotateOut ==
    ASSUME NEW m \in Nat \ {0}, NEW c \in Int, NEW d \in Int, NEW x \in Int
    PROVE  ((c % m) + (x + (d % m))) % m = ((d + c) + x) % m
<1> DEFINE o == c % m
           t == d % m
           b == c + x
           u == x + t
<1>1. o \in Int /\ t \in Int
  BY DivMod
<1>2. o = c % m /\ t = d % m
  OBVIOUS
<1> HIDE DEF o, t
<1>3. b \in Int /\ u \in Int /\ b = c + x /\ u = x + t
  BY <1>1
<1> HIDE DEF b, u
<1>4. ((c % m) + u) % m = (c + u) % m
  BY <1>3, ModAdd
<1>5. ((d % m) + b) % m = (d + b) % m
  BY <1>3, ModAdd
<1>6. c + u = t + b /\ d + b = (d + c) + x
  BY <1>1, <1>3
<1> QED BY <1>2, <1>3, <1>4, <1>5, <1>6

(* So is the request for a write burst.                                    *)
LEMMA NewWrite ==
    ASSUME LegP!IInv, WEmits, issued \in Nat,
           NEW start \in Starts, NEW lane, NEW byte, NEW top \in Nat,
           top = start[issued] + job.length, Newest(start, lane, byte)
    PROVE  /\ WriteFits(start, lane, byte, top, WriteRequest)
           /\ First(start, WriteRequest) = start[issued] + job.written
           /\ WriteRequest.bytes = Leg!WNumBytes
<1> DEFINE q == WriteRequest
           a == w_tf.addr
           n == Leg!WNumBytes
           S == StrbWidth
           s == start[issued]
           f == job.written
           o == w_tf.addr % StrbWidth
           len == job.length
           dst == job.dst_addr
           base == Base
<1>1. w_tf.valid
  BY EmitsIntoRoom
<1>2. n \in Nat \ {0} /\ a \in Nat /\ f \in Nat /\ len \in Nat /\ dst \in Nat /\ base \in Nat /\ s \in Nat
  <2>1. s \in Nat
    BY DEF Starts
  <2> QED BY <1>1, <2>1, BurstSizes, SameLegalizer DEF Base
<1>3. f + n <= len /\ a = (dst + f) % AddrSpace
  <2>1. /\ ~job.killed /\ job.written + w_tf.length = job.length
        /\ w_tf.addr = (job.dst_addr + job.written) % AddrSpace
    BY <1>1 DEF LegP!IInv, LegP!KilledIdle, LegP!BurstsTile, LegP!WriteTiles, LegP!BurstsContiguous
  <2>2. w_tf.length \in Nat /\ n <= w_tf.length
    <3>1. LegP!TypeOK
      BY DEF LegP!IInv
    <3>2. LegP!WNumBytesPossible \in Nat
      BY <3>1, LegP!PossiblePositive, LegalizerConstants
    <3>3. w_tf.length \in Nat
      BY <3>1 DEF LegP!TypeOK, LegP!HalfType
    <3>4. LegP!WNumBytes <= w_tf.length
      BY <3>2, <3>3 DEF LegP!WNumBytes, LegP!NumBytes, LegP!Smaller
    <3> QED BY <3>3, <3>4, SameLegalizer
  <2> DEFINE left == w_tf.length
  <2>3. left \in Nat /\ n <= left /\ f + left = len
    BY <2>1, <2>2
  <2> HIDE DEF left, n, f, len
  <2>4. f + n <= len
    BY <1>2, <2>3
  <2> QED BY <2>1, <2>4 DEF f
<1>4. S \in Nat \ {0} /\ AddrSpace \in Nat \ {0} /\ AddrSpace % S = 0
  BY Sizes
<1>5. o = (dst + f) % S
  <2>1. dst + f \in Int
    BY <1>2
  <2>2. o = a % S
    OBVIOUS
  <2> HIDE DEF S, a, o
  <2> DEFINE c == dst + f
  <2> HIDE DEF c
  <2>3. c \in Int /\ a = c % AddrSpace
    BY <1>3, <2>1 DEF c
  <2>4. (c % AddrSpace) % S = c % S
    BY <1>4, <2>3, ModOfMod
  <2> QED BY <2>2, <2>3, <2>4 DEF c
<1>6. /\ q.offset = o /\ q.tailer = (n + a) % S
      /\ q.num_beats = IF opt_tf.dst_protocol = "AXI" THEN Leg!Beats(a, n) - 1 ELSE 0
      /\ q.id = issued /\ q.from = f /\ q.bytes = n
      /\ q.shift = WriteShift(job.dst_addr)
  BY DEF WriteRequest
<1>7. q.shift = (base - dst) % S
  <2>1. (IF CombinedShifter THEN 0 ELSE -dst) = base - dst
    <3>1. base = IF CombinedShifter THEN dst ELSE 0
      BY DEF Base
    <3> HIDE DEF base, dst
    <3> QED BY <1>2, <3>1
  <2>2. WriteShift(job.dst_addr) = (base - dst) % S
    BY <2>1 DEF WriteShift
  <2> QED BY <1>6, <2>2
<1> HIDE DEF q
<1>8. o \in Int
  <2> HIDE DEF S, a
  <2>1. a \in Int /\ S \in Nat \ {0}
    BY <1>2, <1>4
  <2>2. a % S \in Int
    BY <2>1, DivMod
  <2> QED BY <2>2 DEF a, S
<1>9. First(start, q) = s + f
  BY <1>6 DEF First
<1>10. q.num_beats + 1 = Leg!Beats(a, n)
  <2>1. Leg!Beats(a, n) \in Int
    <3> DEFINE c == n + (a % StrbWidth) - 1
    <3>1. c \in Int
      <4>1. a % StrbWidth = o
        OBVIOUS
      <4> HIDE DEF o, n
      <4> QED BY <1>2, <1>8, <4>1
    <3> HIDE DEF c
    <3>2. c \div StrbWidth \in Int
      BY <1>4, <3>1, DivMod
    <3> QED BY <3>2 DEF c, Leg!Beats, Leg!StrbWidth, StrbWidth
  <2>2. CASE opt_tf.dst_protocol = "AXI"
    <3> DEFINE b == Leg!Beats(a, n)
    <3>1. q.num_beats = b - 1 /\ b \in Int
      BY <1>6, <2>1, <2>2
    <3> HIDE DEF b
    <3>2. q.num_beats + 1 = b
      BY <3>1
    <3> QED BY <3>2 DEF b
  <2>3. CASE opt_tf.dst_protocol # "AXI"
    <3>1. opt_tf.dst_protocol = "AXI_STREAM"
      BY <2>3, BurstSizes DEF Protocols
    <3>2. LegP!BurstsLegal
      BY LegP!LegalBursts, LegalizerConstants
    <3>3. LegP!LegalBurst(a, n, LegP!WPageWidth)
      BY <1>1, <3>2, SameLegalizer DEF LegP!BurstsLegal
    <3>4. LegP!WPageWidth = OffsetWidth
      BY <3>1 DEF LegP!WPageWidth, LegP!PageWidth
    <3>5. a \div StrbWidth = (a + n - 1) \div StrbWidth
      <4> HIDE DEF a, n
      <4> QED BY <3>3, <3>4 DEF LegP!LegalBurst, LegP!WithinPage, StrbWidth
    <3>6. Leg!Beats(a, n) = 1
      <4> HIDE DEF a, n
      <4> QED BY <1>2, <3>5, OneBeat
    <3> QED BY <1>6, <2>3, <3>6
  <2> QED BY <2>2, <2>3
<1>11. End(q.num_beats + 1, q.tailer) = o + n
  <2>1. End(Leg!Beats(a, n), (n + a) % S) = o + n
    <3> HIDE DEF a, n
    <3>1. End(Leg!Beats(a, n), (n + a) % StrbWidth) = (a % StrbWidth) + n
      BY <1>2, BurstEnd
    <3> QED BY <3>1 DEF a
  <2> QED BY <1>6, <1>10, <2>1
<1>12. ASSUME NEW x \in 0..n-1
       PROVE  /\ byte[(s + f) + x] = <<issued, f + x>>
              /\ lane[(s + f) + x] = (o + x + ((base - dst) % S)) % S
  <2> DEFINE y == f + x
  <2>1. y \in 0..len-1 /\ (s + f) + x = s + y /\ y \in Int /\ x \in Int
    <3> HIDE DEF n, f, len, s
    <3> QED BY <1>2, <1>3
  <2>2. byte[s + y] = <<issued, y>> /\ lane[s + y] = (base + y) % S
    <3> HIDE DEF y
    <3> QED BY <2>1 DEF Newest
  <2>3. (((dst + f) % S) + x + ((base - dst) % S)) % S = (base + (f + x)) % S
    <3>1. x \in Int
      BY <2>1
    <3> HIDE DEF y, S, base, dst, f
    <3>2. base \in Int /\ dst \in Int /\ f \in Int /\ S \in Nat \ {0}
      BY <1>2, <1>4
    <3> DEFINE c == dst + f
               d == base - dst
    <3>3. c \in Int /\ d \in Int /\ (d + c) + x = base + (f + x)
      BY <3>1, <3>2
    <3> HIDE DEF c, d
    <3>4. ((c % S) + (x + (d % S))) % S = ((d + c) + x) % S
      BY <3>1, <3>2, <3>3, RotateOut, ZenonT(60)
    <3> DEFINE o2 == c % S
               t == d % S
    <3>5. o2 \in Int /\ t \in Int
      BY <3>2, <3>3, DivMod
    <3> HIDE DEF o2, t
    <3>6. o2 + (x + t) = o2 + x + t
      BY <3>1, <3>5
    <3>7. (o2 + x + t) % S = (base + (f + x)) % S
      BY <3>3, <3>4, <3>6 DEF o2, t
    <3> QED BY <3>7 DEF o2, t, c, d
  <2> HIDE DEF S, base, dst, o, f, s
  <2> QED BY <1>5, <2>1, <2>2, <2>3
<1>13. (s + f) + n <= top
  <2> HIDE DEF s, f, n, len
  <2>1. top = s + len
    BY DEF s, len
  <2> QED BY <1>2, <1>3, <2>1
<1>14. WriteFits(start, lane, byte, top, q)
  <2> HIDE DEF s, f, n, o, S, base, dst
  <2>1. \A x \in 0..q.bytes-1 :
          /\ byte[First(start, q) + x] = <<q.id, q.from + x>>
          /\ lane[First(start, q) + x] = (q.offset + x + q.shift) % S
    BY <1>6, <1>7, <1>9, <1>12
  <2>2. First(start, q) + q.bytes <= top
    BY <1>6, <1>9, <1>13
  <2>3. End(q.num_beats + 1, q.tailer) = q.offset + q.bytes
    BY <1>6, <1>11
  <2> QED BY <2>1, <2>2, <2>3 DEF WriteFits, S
<1> QED BY <1>6, <1>9, <1>14 DEF q

----------------------------------------------------------------------------
(* A cycle. *)

(* How far the writes got is a position.                                   *)
LEMMA WriteAtIsNat ==
    ASSUME Typed, Forking, NEW start \in Starts, NEW lane \in LaneMaps, NEW byte \in ByteMaps,
           NEW top, NEW wend \in Nat, WriteQueue(start, lane, byte, top, wend)
    PROVE  WriteAt(start, wend) \in Nat
<1>1. CASE w_dp = <<>>
  BY <1>1 DEF WriteAt
<1>2. CASE w_dp # <<>>
  <2> DEFINE q == WReq
             k == BeatsWritten
             c == w_num_beats
  <2>1. q \in Writes(start, lane, byte, top)
    BY <1>2, HeadTailProperties DEF WriteQueue, WReq
  <2>2. q \in WriteType /\ WriteFits(start, lane, byte, top, q)
    BY <2>1, Zenon DEF Writes
  <2>3. q.id \in Nat /\ q.from \in Nat /\ q.bytes \in Nat /\ q.num_beats \in Nat
    BY <2>2 DEF WriteType
  <2>4. First(start, q) \in Nat
    BY <2>3, FirstIsNat
  <2>5. WriteAt(start, wend) = First(start, q) +
            (IF "port" \in forked THEN q.bytes
             ELSE IF ~w_cnt_valid THEN 0 ELSE StrbWidth * k - q.offset)
    BY <1>2 DEF WriteAt
  <2>6. CASE ~("port" \notin forked /\ w_cnt_valid)
    BY <2>3, <2>4, <2>5, <2>6
  <2>7. CASE "port" \notin forked /\ w_cnt_valid
    <3>1. c \in 1..q.num_beats /\ k = q.num_beats + 1 - c
      BY <2>7 DEF Forking, BeatsWritten
    <3> DEFINE n == q.num_beats
    <3>2. n \in Nat /\ c \in 1..n /\ k = n + 1 - c
      BY <2>3, <3>1
    <3> HIDE DEF n, c, k
    <3>3. k \in 0..n /\ k # 0
      BY <3>2
    <3> HIDE DEF q
    <3>4. BeatCarries(start, lane, byte, q, k)
      BY <2>2, <3>3, WriteBeat DEF n
    <3>5. BeatLo(q.offset, k) \in Nat
      BY <3>4 DEF BeatCarries
    <3>6. StrbWidth * k - q.offset \in Nat
      BY <3>3, <3>5 DEF BeatLo
    <3> QED BY <2>4, <2>5, <2>7, <3>6
  <2> QED BY <2>6, <2>7
<1> QED BY <1>1, <1>2

(* The bytes that leave the lanes are those of the beat written.           *)
LEMMA WriteLeaves ==
    ASSUME Typed, Forking, Buffers, NEW i \in Inputs,
           NEW start \in Starts, NEW lane \in LaneMaps, NEW byte \in ByteMaps,
           NEW top \in Nat, NEW R \in Nat, NEW wend \in Nat,
           WriteQueue(start, lane, byte, top, wend), Numbered(start, byte, top),
           Held(start, lane, byte, WriteAt(start, wend), R)
    PROVE  \E W, W2 \in Nat :
              /\ W = WriteAt(start, wend) /\ W2 <= R
              /\ W2 = IF WriteHappens(i) THEN NextWrite(start) ELSE WriteAt(start, wend)
              /\ Leaving(i, lane, byte, W, W2)
<1> DEFINE W == WriteAt(start, wend)
           W2 == NextWrite(start)
<1>1. W \in Nat
  BY WriteAtIsNat
<1>2. CASE WriteHappens(i)
  <2>1. ReadyToWrite
    BY <1>2 DEF WriteHappens
  <2>2. /\ W2 \in Nat /\ W < W2 /\ W2 <= R /\ Distinct(lane, W, W2)
        /\ \A p \in W..W2-1 : /\ \E l \in MaskOut : OutLane(l) = lane[p]
                              /\ AtHead(lane, byte, p)
        /\ \A l \in MaskOut : \E p \in W..W2-1 : lane[p] = OutLane(l)
    <3>1. \A l \in MaskOut : \E p \in W..W2-1 : Strobes(lane, byte, l, p)
      BY <2>1, OfferedBytes
    <3>2. /\ W2 \in Nat /\ W < W2 /\ W2 <= R /\ Distinct(lane, W, W2)
          /\ \A p \in W..W2-1 : /\ \E l \in MaskOut : OutLane(l) = lane[p]
                                /\ AtHead(lane, byte, p)
      BY <2>1, OfferedBytes
    <3> HIDE DEF W, W2
    <3>3. \A l \in MaskOut : \E p \in W..W2-1 : lane[p] = OutLane(l)
      BY <3>1 DEF Strobes
    <3> QED BY <3>2, <3>3
  <2>3. Popped(i) = {OutLane(l) : l \in MaskOut}
    BY <1>2 DEF Popped
  <2> HIDE DEF W, W2
  <2>4. W <= W2
    BY <1>1, <2>2
  <2>5. \A l \in Lanes : l \in Popped(i) => \E p \in W..W2-1 : lane[p] = l
    BY <2>2, <2>3
  <2>6. \A p \in W..W2-1 : lane[p] \in Popped(i) /\ AtHead(lane, byte, p)
    BY <2>2, <2>3
  <2>7. Leaving(i, lane, byte, W, W2)
    BY <2>2, <2>4, <2>5, <2>6 DEF Leaving
  <2> QED BY <1>1, <1>2, <2>2, <2>7 DEF W, W2
<1>3. CASE ~WriteHappens(i)
  <2>1. Popped(i) = {}
    BY <1>3 DEF Popped
  <2>2. W <= R
    BY DEF Held, HeldIn
  <2> HIDE DEF W
  <2>3. W <= W /\ W..W-1 = {}
    BY <1>1
  <2>4. Leaving(i, lane, byte, W, W)
    BY <2>1, <2>3 DEF Leaving, Distinct
  <2> QED BY <1>1, <1>3, <2>2, <2>4 DEF W
<1> QED BY <1>2, <1>3

(* A transfer never taken in has no byte.                                  *)
Unflushed == job.killed => job.length = 0 /\ job.read = 0 /\ job.written = 0

(* No more is emitted than the transfer has.                               *)
LEMMA WithinJob ==
    ASSUME LegP!IInv, Unflushed
    PROVE  /\ job.length \in Nat /\ job.read \in Nat /\ job.written \in Nat
           /\ job.read <= job.length /\ job.written <= job.length
<1> DEFINE r == job.read
           w == job.written
           n == job.length
           rl == IF r_tf.valid THEN r_tf.length ELSE 0
           wl == IF w_tf.valid THEN w_tf.length ELSE 0
<1>1. r \in Nat /\ w \in Nat /\ n \in Nat
  BY BurstSizes
<1>2. rl \in Nat /\ wl \in Nat
  BY DEF LegP!IInv, LegP!TypeOK, LegP!HalfType
<1>3. ~job.killed => r + rl = n /\ w + wl = n
  BY DEF LegP!IInv, LegP!BurstsTile, LegP!ReadTiles, LegP!WriteTiles
<1>4. job.killed => n = 0 /\ r = 0 /\ w = 0
  BY DEF Unflushed
<1> HIDE DEF r, w, n, rl, wl
<1>5. r <= n /\ w <= n
  BY <1>1, <1>2, <1>3, <1>4
<1> QED BY <1>1, <1>5 DEF r, w, n

(* The datapath in a cycle, for a layout that stays.                       *)
RStep == IF REmits THEN Leg!RNumBytes ELSE 0
WStep == IF WEmits THEN Leg!WNumBytes ELSE 0

(* The position up to which the stream is written, and where a cycle takes *)
(* it.                                                                     *)
At(start) == WriteAt(start, start[issued] + job.written)
Reached(i, start) == IF WriteHappens(i) THEN NextWrite(start) ELSE At(start)

LEMMA DatapathStep ==
    ASSUME CtlInv, Buffers, Unflushed, NEW i \in Inputs, ReadSide(i), WriteSide(i),
           NEW start \in Starts, NEW lane \in LaneMaps, NEW byte \in ByteMaps,
           Data(start, lane, byte)
    PROVE  \E top, rend, wend, w, r \in Nat :
              /\ top = start[issued] + job.length
              /\ w = Reached(i, start)
              /\ rend = start[issued] + job.read + RStep /\ rend <= top
              /\ wend = start[issued] + job.written + WStep /\ wend <= top
              /\ Numbered(start, byte, top) /\ Newest(start, lane, byte)
              /\ InFlight(start, lane, byte, top, rend, wend, w, r)' /\ Buffers'
<1>1. /\ LegP!IInv /\ Typed /\ Forking /\ issued \in Nat
  BY DEF CtlInv, Typed
<1>2. start[issued] \in Nat
  BY <1>1 DEF Starts
<1>3. /\ job.length \in Nat /\ job.read \in Nat /\ job.written \in Nat
      /\ job.read <= job.length /\ job.written <= job.length
  BY <1>1, WithinJob
<1> DEFINE s == start[issued]
           n == job.length
           f == job.read
           g == job.written
<1>4. PICK top \in Nat, rend \in Nat, wend \in Nat :
         /\ top = start[issued] + job.length
         /\ rend = start[issued] + job.read /\ wend = start[issued] + job.written
         /\ \E w, r \in Nat : Layout(start, lane, byte, top, rend, wend, w, r)
  BY Zenon DEF Data
<1>5. rend <= top /\ wend <= top
  <2>1. s \in Nat /\ n \in Nat /\ f \in Nat /\ g \in Nat /\ f <= n /\ g <= n
        /\ top = s + n /\ rend = s + f /\ wend = s + g
    BY <1>2, <1>3, <1>4
  <2> HIDE DEF s, n, f, g
  <2> QED BY <2>1
<1>6. /\ Numbered(start, byte, top) /\ Newest(start, lane, byte)
      /\ ReadQueue(start, lane, byte, top, rend) /\ WriteQueue(start, lane, byte, top, wend)
      /\ Held(start, lane, byte, WriteAt(start, wend), ReadAt(start, rend))
  BY <1>4, Zenon DEF Layout, InFlight
<1>7. ASSUME REmits
      PROVE  /\ ReadFits(start, lane, byte, top, ReadRequest)
             /\ First(start, ReadRequest) = rend /\ RLen(ReadRequest) = Leg!RNumBytes
             /\ Leg!RNumBytes \in Nat /\ ReadRequest \in ReadType
             /\ RPush = <<ReadRequest>>
  <2>1. /\ ReadFits(start, lane, byte, top, ReadRequest)
        /\ First(start, ReadRequest) = start[issued] + job.read
        /\ RLen(ReadRequest) = Leg!RNumBytes
    BY <1>1, <1>4, <1>6, <1>7, NewRead
  <2>2. RPush = <<ReadRequest>>
    BY <1>7 DEF RPush
  <2>3. ReadRequest \in ReadType
    <3>1. PICK x \in ReadType : RPush = <<x>>
      BY <1>1, <2>2, RequestTypes
    <3> QED BY <2>2, <3>1
  <2>4. Leg!RNumBytes \in Nat
    BY <1>1, <1>7, EmitsIntoRoom, BurstSizes, SameLegalizer
  <2> QED BY <1>4, <2>1, <2>2, <2>3, <2>4
<1>8. ASSUME WEmits
      PROVE  /\ WriteFits(start, lane, byte, top, WriteRequest)
             /\ First(start, WriteRequest) = wend /\ WriteRequest.bytes = Leg!WNumBytes
             /\ Leg!WNumBytes \in Nat /\ WriteRequest \in WriteType
             /\ WPush = <<WriteRequest>>
  <2>1. /\ WriteFits(start, lane, byte, top, WriteRequest)
        /\ First(start, WriteRequest) = start[issued] + job.written
        /\ WriteRequest.bytes = Leg!WNumBytes
    BY <1>1, <1>4, <1>6, <1>8, NewWrite
  <2>2. WPush = <<WriteRequest>>
    BY <1>8 DEF WPush
  <2>3. WriteRequest \in WriteType
    <3>1. PICK x \in WriteType : WPush = <<x>>
      BY <1>1, <2>2, RequestTypes
    <3> QED BY <2>2, <3>1
  <2>4. Leg!WNumBytes \in Nat
    BY <1>1, <1>8, EmitsIntoRoom, BurstSizes, SameLegalizer
  <2> QED BY <1>4, <2>1, <2>2, <2>3, <2>4
<1>9. PICK rend2 \in Nat : rend2 = rend + RStep /\ rend2 <= top
  <2>1. CASE REmits
    <3>1. rend + Leg!RNumBytes <= top
      BY <1>7, <2>1 DEF ReadFits
    <3> QED BY <1>7, <2>1, <3>1 DEF RStep
  <2>2. CASE ~REmits
    BY <1>5, <2>2 DEF RStep
  <2> QED BY <2>1, <2>2
<1>10. PICK wend2 \in Nat : wend2 = wend + WStep /\ wend2 <= top
  <2>1. CASE WEmits
    <3>1. wend + Leg!WNumBytes <= top
      BY <1>8, <2>1 DEF WriteFits
    <3> QED BY <1>8, <2>1, <3>1 DEF WStep
  <2>2. CASE ~WEmits
    BY <1>5, <2>2 DEF WStep
  <2> QED BY <2>1, <2>2
<1>11. /\ RPush = <<>> \/ \E x \in Reads(start, lane, byte, top) : RPush = <<x>>
       /\ RPush = <<>> => rend2 = rend
       /\ RPush # <<>> => /\ First(start, Head(RPush)) = rend
                          /\ First(start, Head(RPush)) + RLen(Head(RPush)) = rend2
  <2>1. CASE REmits
    <3>1. ReadRequest \in Reads(start, lane, byte, top)
      BY <1>7, <2>1 DEF Reads
    <3>2. RPush # <<>> /\ Head(RPush) = ReadRequest /\ RPush = <<ReadRequest>>
      BY <1>7, <2>1
    <3>3. rend + RLen(ReadRequest) = rend2
      BY <1>7, <1>9, <2>1 DEF RStep
    <3> HIDE DEF RPush
    <3> QED BY <1>7, <2>1, <3>1, <3>2, <3>3
  <2>2. CASE ~REmits
    BY <1>9, <2>2 DEF RPush, RStep
  <2> QED BY <2>1, <2>2
<1>12. /\ WPush = <<>> \/ \E x \in Writes(start, lane, byte, top) : WPush = <<x>>
       /\ WPush = <<>> => wend2 = wend
       /\ WPush # <<>> => /\ First(start, Head(WPush)) = wend
                          /\ First(start, Head(WPush)) + Head(WPush).bytes = wend2
  <2>1. CASE WEmits
    <3>1. WriteRequest \in Writes(start, lane, byte, top)
      BY <1>8, <2>1 DEF Writes
    <3>2. WPush # <<>> /\ Head(WPush) = WriteRequest /\ WPush = <<WriteRequest>>
      <4>1. WPush = <<WriteRequest>>
        BY <2>1 DEF WPush
      <4> DEFINE x == WriteRequest
      <4>2. WPush = <<x>>
        BY <4>1
      <4> HIDE DEF x, WPush
      <4>3. WPush # <<>> /\ Head(WPush) = x /\ WPush = <<x>>
        BY <4>2
      <4> QED BY <4>3 DEF x
    <3>3. wend + WriteRequest.bytes = wend2
      BY <1>8, <1>10, <2>1 DEF WStep
    <3> QED BY <1>8, <2>1, <3>1, <3>2, <3>3
  <2>2. CASE ~WEmits
    BY <1>10, <2>2 DEF WPush, WStep
  <2> QED BY <2>1, <2>2
<1>13. ReadQueue(start, lane, byte, top, rend2)'
  BY <1>5, <1>6, <1>9, <1>11, ReadMoves
<1>14. PICK R \in Nat, R2 \in Nat :
         /\ ReadAt(start, rend) = R /\ ReadAt(start, rend2)' = R2 /\ R2 <= top
         /\ Entering(i, lane, byte, R, R2)
  BY <1>5, <1>6, <1>9, <1>11, ReadMoves
<1>15. /\ WriteQueue(start, lane, byte, top, wend2)'
       /\ WriteAt(start, wend2)' = IF WriteHappens(i) THEN NextWrite(start) ELSE WriteAt(start, wend)
  BY <1>6, <1>12, WriteMoves
<1>16. Held(start, lane, byte, WriteAt(start, wend), R)
  BY <1>6, <1>14
<1>17. PICK W \in Nat, W2 \in Nat :
          /\ W = WriteAt(start, wend) /\ W2 <= R
          /\ W2 = IF WriteHappens(i) THEN NextWrite(start) ELSE WriteAt(start, wend)
          /\ Leaving(i, lane, byte, W, W2)
  BY <1>1, <1>6, <1>16, WriteLeaves
<1>18. Held(start, lane, byte, W, R)
  BY <1>16, <1>17
<1>19. Held(start, lane, byte, W2, R2)' /\ Buffers'
  BY <1>6, <1>14, <1>17, <1>18, HeldStep
<1>20. W2 = WriteAt(start, wend2)' /\ R2 = ReadAt(start, rend2)' /\ R2 <= top
  BY <1>14, <1>15, <1>17
<1>21. rend2 = start[issued] + job.read + RStep /\ wend2 = start[issued] + job.written + WStep
  BY <1>4, <1>9, <1>10
<1>22. InFlight(start, lane, byte, top, rend2, wend2, W2, R2)'
  BY <1>13, <1>15, <1>19, <1>20 DEF InFlight
<1>23. W2 = Reached(i, start)
  <2>1. At(start) = WriteAt(start, wend)
    BY <1>4 DEF At
  <2> QED BY <1>17, <2>1 DEF Reached
<1> QED BY <1>4, <1>6, <1>9, <1>10, <1>19, <1>21, <1>22, <1>23, Zenon


(* A layout explains all that is in the backend.                           *)
DataInv ==
    /\ CtlInv /\ Buffers /\ Unflushed
    /\ \E start \in Starts, lane \in LaneMaps, byte \in ByteMaps : Data(start, lane, byte)

(* Under a layout the beat offered carries what it should.                 *)
LEMMA OfferedRight == DataInv => BeatRight
<1> SUFFICES ASSUME DataInv, ReadyToWrite
             PROVE  /\ MaskOut = {l \in Lanes : Index(l) \in 0..WReq.bytes - 1}
                    /\ \A l \in MaskOut :
                          Head(buffer[OutLane(l)]) = <<WReq.id, WReq.from + Index(l)>>
  BY DEF BeatRight
<1>1. PICK start \in Starts, lane \in LaneMaps, byte \in ByteMaps : Data(start, lane, byte)
  BY Zenon DEF DataInv
<1>2. PICK top \in Nat, rend \in Nat, wend \in Nat, w \in Nat, r \in Nat :
          Layout(start, lane, byte, top, rend, wend, w, r)
  BY <1>1, Zenon DEF Data
<1>3. Typed /\ Forking /\ Buffers
  BY DEF DataInv, CtlInv
<1>4. /\ WriteQueue(start, lane, byte, top, wend) /\ Numbered(start, byte, top)
      /\ w = WriteAt(start, wend) /\ Held(start, lane, byte, w, r)
  BY <1>2, Zenon DEF Layout, InFlight
<1>5. /\ Held(start, lane, byte, WriteAt(start, wend), r)
      /\ start \in Starts /\ lane \in LaneMaps /\ byte \in ByteMaps /\ top \in Nat /\ r \in Nat
  BY <1>1, <1>2, <1>4
<1>6. /\ \A p \in WriteAt(start, wend)..NextWrite(start)-1 : AtHead(lane, byte, p)
      /\ \A l \in MaskOut :
             \E p \in WriteAt(start, wend)..NextWrite(start)-1 : Strobes(lane, byte, l, p)
      /\ \A l \in Lanes : l \in MaskOut <=> Index(l) \in 0..WReq.bytes-1
  <2>1. \A p \in WriteAt(start, wend)..NextWrite(start)-1 : AtHead(lane, byte, p)
    BY <1>3, <1>4, <1>5, OfferedBytes
  <2>2. \A l \in MaskOut :
             \E p \in WriteAt(start, wend)..NextWrite(start)-1 : Strobes(lane, byte, l, p)
    BY <1>3, <1>4, <1>5, OfferedBytes
  <2>3. \A l \in Lanes : l \in MaskOut <=> Index(l) \in 0..WReq.bytes-1
    BY <1>3, <1>4, <1>5, OfferedBytes
  <2> QED BY <2>1, <2>2, <2>3, Zenon
<1>7. ASSUME NEW l \in MaskOut
      PROVE  Head(buffer[OutLane(l)]) = <<WReq.id, WReq.from + Index(l)>>
  <2>1. PICK p \in WriteAt(start, wend)..NextWrite(start)-1 : Strobes(lane, byte, l, p)
    BY <1>6
  <2>2. AtHead(lane, byte, p)
    BY <1>6, <2>1
  <2> QED BY <2>1, <2>2 DEF AtHead, Strobes
<1>8. MaskOut \subseteq Lanes
  BY DEF MaskOut, FirstMask, LastMask
<1>9. MaskOut = {l \in Lanes : Index(l) \in 0..WReq.bytes-1}
  BY <1>6, <1>8, Zenon
<1> QED BY <1>7, <1>9

(* Nothing is taken in: the layout stays.                                  *)
LEMMA ProceedData ==
    ASSUME CtlInv, Buffers, Unflushed, NEW i \in Inputs, ReadSide(i), WriteSide(i), Proceed(i),
           NEW start \in Starts, NEW lane \in LaneMaps, NEW byte \in ByteMaps,
           Data(start, lane, byte)
    PROVE  /\ Data(start, lane, byte)' /\ Buffers' /\ Unflushed'
           /\ At(start)' = Reached(i, start)
<1>1. PICK top \in Nat, rend \in Nat, wend \in Nat, w \in Nat, r \in Nat :
              /\ top = start[issued] + job.length
              /\ w = Reached(i, start)
              /\ rend = start[issued] + job.read + RStep /\ rend <= top
              /\ wend = start[issued] + job.written + WStep /\ wend <= top
              /\ Numbered(start, byte, top) /\ Newest(start, lane, byte)
              /\ InFlight(start, lane, byte, top, rend, wend, w, r)' /\ Buffers'
  BY DatapathStep
<1>2. LegP!IInv /\ issued' = issued /\ Leg!Advance(RReady, WReady)
  BY DEF CtlInv, Proceed
<1>3. /\ job.length \in Nat /\ job.read \in Nat /\ job.written \in Nat
      /\ job.read <= job.length /\ job.written <= job.length /\ job \in LegP!JobType
  BY <1>2, WithinJob DEF LegP!IInv, LegP!TypeOK
<1>4. /\ job'.length = job.length /\ job'.dst_addr = job.dst_addr /\ job'.killed = job.killed
      /\ job'.read = job.read + RStep /\ job'.written = job.written + WStep
  <2>1. job' = [job EXCEPT !.read    = IF REmits THEN @ + Leg!RNumBytes ELSE @,
                           !.written = IF WEmits THEN @ + Leg!WNumBytes ELSE @,
                           !.lasts   = IF WEmits /\ Leg!WDone THEN @ + 1 ELSE @]
    BY <1>2 DEF Leg!Advance, Leg!Emitted, REmits, WEmits
  <2>2. /\ job'.length = job.length /\ job'.dst_addr = job.dst_addr /\ job'.killed = job.killed
        /\ job'.read = IF REmits THEN job.read + Leg!RNumBytes ELSE job.read
        /\ job'.written = IF WEmits THEN job.written + Leg!WNumBytes ELSE job.written
    BY <1>3, <2>1 DEF LegP!JobType
  <2> QED BY <1>3, <2>2 DEF RStep, WStep
<1>5. Numbered(start, byte, top)'
  BY <1>1, <1>2 DEF Numbered, Pos
<1>6. Newest(start, lane, byte)'
  BY <1>1, <1>2, <1>4 DEF Newest, Base
<1>7. /\ top = start[issued'] + job'.length
      /\ rend = start[issued'] + job'.read /\ wend = start[issued'] + job'.written
  <2>1. start[issued] \in Nat
    BY DEF CtlInv, Typed, Starts
  <2>2. RStep \in Int /\ WStep \in Int
    BY <1>2, EmitsIntoRoom, BurstSizes, SameLegalizer DEF RStep, WStep
  <2> DEFINE s == start[issued]
             f == job.read
             g == job.written
             a == RStep
             b == WStep
  <2>3. s \in Nat /\ f \in Nat /\ g \in Nat /\ a \in Int /\ b \in Int
    BY <1>3, <2>1, <2>2
  <2>4. rend = s + f + a /\ wend = s + g + b
    BY <1>1
  <2> HIDE DEF s, f, g, a, b
  <2>5. rend = s + (f + a) /\ wend = s + (g + b)
    BY <2>3, <2>4
  <2> QED BY <1>1, <1>2, <1>4, <2>5 DEF s, f, g, a, b
<1>8. Layout(start, lane, byte, top, rend, wend, w, r)'
  BY <1>1, <1>5, <1>6 DEF Layout
<1>9. Data(start, lane, byte)'
  BY <1>7, <1>8 DEF Data
<1>10. Unflushed'
  <2> SUFFICES ASSUME job.killed PROVE job'.length = 0 /\ job'.read = 0 /\ job'.written = 0
    BY <1>4 DEF Unflushed
  <2>1. ~REmits /\ ~WEmits
    BY <1>2, SameLegalizer DEF LegP!IInv, LegP!KilledIdle, LegP!RValid, LegP!WValid
  <2> QED BY <1>4, <2>1 DEF Unflushed, RStep, WStep
<1>11. At(start)' = Reached(i, start)
  <2>1. w = WriteAt(start, wend)' /\ w = Reached(i, start)
    BY <1>1, Zenon DEF InFlight
  <2>2. At(start)' = WriteAt(start, wend)'
    <3>1. start[issued'] + job'.written = wend
      BY <1>7
    <3> QED BY <3>1 DEF At, WriteAt
  <2> QED BY <2>1, <2>2
<1> QED BY <1>1, <1>9, <1>10, <1>11


----------------------------------------------------------------------------
(* A transfer is taken in: the layout grows by its bytes. *)

NextStart(start, n, top) == [start EXCEPT ![n + 1] = top]
NextByte(byte, n, top) == [p \in Nat |-> IF p < top THEN byte[p] ELSE <<n + 1, p - top>>]
NextLane(lane, base, top) ==
    [p \in Nat |-> IF p < top THEN lane[p] ELSE (base + (p - top)) % StrbWidth]

(* The new layout is that of the old up to top, and behind it the new one's. *)
Extends(start, start2, lane, lane2, byte, byte2, n, top, base) ==
    /\ start2 \in Starts /\ lane2 \in LaneMaps /\ byte2 \in ByteMaps
    /\ start2[n + 1] = top
    /\ \A id \in Nat : id <= n => start2[id] = start[id]
    /\ \A p \in 0..top-1 : lane2[p] = lane[p] /\ byte2[p] = byte[p] /\ byte[p][1] <= n
    /\ \A p \in Nat : p >= top =>
          lane2[p] = (base + (p - top)) % StrbWidth /\ byte2[p] = <<n + 1, p - top>>

LEMMA LayoutExtends ==
    ASSUME NEW start \in Starts, NEW lane \in LaneMaps, NEW byte \in ByteMaps,
           NEW n \in Nat, NEW top \in Nat, NEW base \in Int,
           \A p \in 0..top-1 : byte[p][1] <= n
    PROVE  Extends(start, NextStart(start, n, top), lane, NextLane(lane, base, top),
                   byte, NextByte(byte, n, top), n, top, base)
<1> DEFINE start2 == NextStart(start, n, top)
           lane2 == NextLane(lane, base, top)
           byte2 == NextByte(byte, n, top)
<1>1. start2 \in Starts /\ start2[n + 1] = top /\ \A id \in Nat : id <= n => start2[id] = start[id]
  BY DEF Starts, NextStart
<1>2. ASSUME NEW p \in Nat
      PROVE  /\ p < top => lane2[p] = lane[p] /\ byte2[p] = byte[p]
             /\ ~(p < top) => /\ lane2[p] = (base + (p - top)) % StrbWidth
                              /\ byte2[p] = <<n + 1, p - top>>
  BY DEF NextLane, NextByte
<1>3. ASSUME NEW p \in Nat
      PROVE  lane2[p] \in Lanes /\ byte2[p] \in Nat \X Nat
  <2>1. CASE p < top
    BY <1>2, <2>1 DEF LaneMaps, ByteMaps
  <2>2. CASE ~(p < top)
    <3> DEFINE x == base + (p - top)
               m == StrbWidth
    <3>1. m \in Nat \ {0} /\ Lanes = 0..m-1 /\ x \in Int /\ p - top \in Nat
      BY <2>2, Sizes DEF Lanes
    <3> HIDE DEF x, m
    <3>2. x % m \in 0..m-1
      BY <3>1, DivMod
    <3>3. lane2[p] = x % m /\ byte2[p] = <<n + 1, p - top>>
      BY <1>2, <2>2 DEF x, m
    <3> QED BY <3>1, <3>2, <3>3
  <2> QED BY <2>1, <2>2
<1>4. lane2 \in LaneMaps /\ byte2 \in ByteMaps
  <2>1. lane2 = [p \in Nat |-> lane2[p]] /\ byte2 = [p \in Nat |-> byte2[p]]
    BY DEF NextLane, NextByte
  <2> HIDE DEF lane2, byte2
  <2> QED BY <1>3, <2>1, Zenon DEF LaneMaps, ByteMaps
<1> HIDE DEF start2, lane2, byte2
<1>5. /\ \A p \in 0..top-1 : lane2[p] = lane[p] /\ byte2[p] = byte[p] /\ byte[p][1] <= n
      /\ \A p \in Nat : p >= top =>
            lane2[p] = (base + (p - top)) % StrbWidth /\ byte2[p] = <<n + 1, p - top>>
  BY <1>2
<1>6. Extends(start, start2, lane, lane2, byte, byte2, n, top, base)
  BY <1>1, <1>4, <1>5, Zenon DEF Extends
<1> QED BY <1>6 DEF start2, lane2, byte2

(* What fits the old layout is where it was and fits the new one.          *)
Refits(start, start2, lane, lane2, byte, byte2, top, top2) ==
    /\ \A q \in Reads(start, lane, byte, top) :
          q \in Reads(start2, lane2, byte2, top2) /\ First(start2, q) = First(start, q)
    /\ \A q \in Writes(start, lane, byte, top) :
          q \in Writes(start2, lane2, byte2, top2) /\ First(start2, q) = First(start, q)

LEMMA FitsExtended ==
    ASSUME NEW start \in Starts, NEW lane \in LaneMaps, NEW byte \in ByteMaps,
           NEW start2, NEW lane2, NEW byte2,
           NEW n \in Nat, NEW top \in Nat, NEW top2 \in Nat, NEW base, top <= top2,
           Extends(start, start2, lane, lane2, byte, byte2, n, top, base)
    PROVE  Refits(start, start2, lane, lane2, byte, byte2, top, top2)
<1>1. \A p \in 0..top-1 : lane2[p] = lane[p] /\ byte2[p] = byte[p] /\ byte[p][1] <= n
  BY Zenon DEF Extends
<1>2. \A id \in Nat : id <= n => start2[id] = start[id]
  BY Zenon DEF Extends
<1>3. ASSUME NEW F \in Nat, NEW len \in Int, len > 0, F + len <= top
      PROVE  /\ F + len <= top2
             /\ \A x \in 0..len-1 : F + x \in 0..top-1
             /\ 0 \in 0..len-1 /\ F + 0 = F /\ F \in 0..top-1
  BY <1>3
<1>4. ASSUME NEW q, q.id \in Nat, q.from \in Nat, NEW len \in Int, len > 0,
             First(start, q) + len <= top,
             \A x \in 0..len-1 : byte[First(start, q) + x] = <<q.id, q.from + x>>
      PROVE  /\ First(start2, q) = First(start, q) /\ First(start, q) \in Nat
             /\ First(start, q) + len <= top2
             /\ \A x \in 0..len-1 :
                    /\ byte2[First(start, q) + x] = byte[First(start, q) + x]
                    /\ lane2[First(start, q) + x] = lane[First(start, q) + x]
  <2> DEFINE F == First(start, q)
  <2>1. F \in Nat
    BY <1>4, FirstIsNat
  <2>2. \A x \in 0..len-1 : byte[F + x] = <<q.id, q.from + x>>
    BY <1>4
  <2>3. F + len <= top
    BY <1>4
  <2> HIDE DEF F
  <2>4. /\ F + len <= top2 /\ \A x \in 0..len-1 : F + x \in 0..top-1
        /\ 0 \in 0..len-1 /\ F + 0 = F /\ F \in 0..top-1
    BY <1>3, <1>4, <2>1, <2>3
  <2>5. byte[F] = <<q.id, q.from + 0>>
    BY <2>2, <2>4
  <2>6. q.id <= n
    BY <1>1, <2>4, <2>5
  <2>7. First(start2, q) = F
    BY <1>2, <1>4, <2>6 DEF First, F
  <2>8. \A x \in 0..len-1 : byte2[F + x] = byte[F + x] /\ lane2[F + x] = lane[F + x]
    BY <1>1, <2>4
  <2> QED BY <2>1, <2>4, <2>7, <2>8 DEF F
<1>5. ASSUME NEW q \in Reads(start, lane, byte, top)
      PROVE  q \in Reads(start2, lane2, byte2, top2) /\ First(start2, q) = First(start, q)
  <2> DEFINE len == RLen(q)
  <2>1. q \in ReadType /\ ReadFits(start, lane, byte, top, q)
    BY Zenon DEF Reads
  <2>2. /\ q.id \in Nat /\ q.from \in Nat
        /\ q.beats \in Nat \ {0} /\ q.offset \in Lanes /\ q.tailer \in Lanes
    BY <2>1 DEF ReadType
  <2>3. len \in Int
    <3> DEFINE k == StrbWidth * (q.beats - 1)
               t == IF q.tailer = 0 THEN StrbWidth ELSE q.tailer
               o == q.offset
    <3>1. k \in Int
      <4>1. 0 \in 0..q.beats-1
        BY <2>2
      <4> QED BY <2>2, <4>1, BeatProducts
    <3>2. t \in Int /\ o \in Int
      BY <2>2, Sizes DEF Lanes
    <3>3. len = (k + t) - o
      BY DEF RLen, End
    <3> HIDE DEF k, t, o, len
    <3> QED BY <3>1, <3>2, <3>3
  <2>4. /\ len > 0 /\ First(start, q) + len <= top
        /\ \A x \in 0..len-1 : byte[First(start, q) + x] = <<q.id, q.from + x>>
        /\ \A x \in 0..len-1 :
              (lane[First(start, q) + x] + q.shift) % StrbWidth = (q.offset + x) % StrbWidth
        /\ q.proto = "AXI_STREAM" => q.beats = 1
    BY <2>1 DEF ReadFits
  <2> HIDE DEF len
  <2>5. /\ First(start2, q) = First(start, q) /\ First(start, q) + len <= top2
        /\ \A x \in 0..len-1 :
                    /\ byte2[First(start, q) + x] = byte[First(start, q) + x]
                    /\ lane2[First(start, q) + x] = lane[First(start, q) + x]
    BY <1>4, <2>2, <2>3, <2>4
  <2>6. ReadFits(start2, lane2, byte2, top2, q)
    BY <2>4, <2>5 DEF ReadFits, len
  <2> QED BY <2>1, <2>5, <2>6, Zenon DEF Reads
<1>6. ASSUME NEW q \in Writes(start, lane, byte, top)
      PROVE  q \in Writes(start2, lane2, byte2, top2) /\ First(start2, q) = First(start, q)
  <2> DEFINE len == q.bytes
  <2>1. q \in WriteType /\ WriteFits(start, lane, byte, top, q)
    BY Zenon DEF Writes
  <2>2. q.id \in Nat /\ q.from \in Nat /\ len \in Nat \ {0}
    BY <2>1 DEF WriteType
  <2>3. /\ len > 0 /\ len \in Int /\ First(start, q) + len <= top
        /\ \A x \in 0..len-1 : byte[First(start, q) + x] = <<q.id, q.from + x>>
        /\ \A x \in 0..len-1 :
              lane[First(start, q) + x] = (q.offset + x + q.shift) % StrbWidth
        /\ End(q.num_beats + 1, q.tailer) = q.offset + len
    BY <2>1, <2>2 DEF WriteFits
  <2> HIDE DEF len
  <2>5. /\ First(start2, q) = First(start, q) /\ First(start, q) + len <= top2
        /\ \A x \in 0..len-1 :
                    /\ byte2[First(start, q) + x] = byte[First(start, q) + x]
                    /\ lane2[First(start, q) + x] = lane[First(start, q) + x]
    BY <1>4, <2>2, <2>3
  <2>6. WriteFits(start2, lane2, byte2, top2, q)
    BY <2>3, <2>5 DEF WriteFits, len
  <2> QED BY <2>1, <2>5, <2>6, Zenon DEF Writes
<1> QED BY <1>5, <1>6, Zenon DEF Refits


(* A chain whose entries keep their ends is a chain still.                 *)
LEMMA ChainKept ==
    ASSUME NEW S, NEW T, NEW q \in Seq(S), NEW F, NEW L, NEW F2, NEW L2, NEW end,
           Chain(q, F, L, end), \A x \in S : x \in T /\ F2[x] = F[x] /\ L2[x] = L[x]
    PROVE  q \in Seq(T) /\ Chain(q, F2, L2, end) /\ Begin(q, F2, end) = Begin(q, F, end)
<1> DEFINE N == Len(q)
<1>1. N \in Nat /\ q \in [1..N -> S] /\ (q = <<>> <=> N = 0)
  BY EmptySeq
<1>2. \A k \in 1..N : q[k] \in S
  BY <1>1
<1>3. q \in Seq(T)
  <2>1. q \in [1..N -> T]
    BY <1>1, <1>2
  <2> HIDE DEF N
  <2> QED BY <1>1, <2>1
<1>4. \A k \in 1..N : L[q[k]] = IF k < N THEN F[q[k + 1]] ELSE end
  BY DEF Chain
<1> HIDE DEF N
<1>5. \A k \in 1..N : k < N => k + 1 \in 1..N
  BY <1>1
<1>6. \A k \in 1..N : L2[q[k]] = IF k < N THEN F2[q[k + 1]] ELSE end
  BY <1>2, <1>4, <1>5
<1>7. q # <<>> => F2[q[1]] = F[q[1]]
  BY <1>1, <1>2
<1> QED BY <1>3, <1>6, <1>7 DEF Chain, Begin, N

(* The queues and the lanes are as explained by the new layout, too.       *)
LEMMA Relayout ==
    ASSUME NEW start \in Starts, NEW lane \in LaneMaps, NEW byte \in ByteMaps,
           NEW start2, NEW lane2, NEW byte2,
           NEW n \in Nat, NEW top \in Nat, NEW top2 \in Nat, NEW base, top <= top2,
           NEW w \in Nat, NEW r \in Nat, Buffers',
           Extends(start, start2, lane, lane2, byte, byte2, n, top, base),
           InFlight(start, lane, byte, top, top, top, w, r)'
    PROVE  InFlight(start2, lane2, byte2, top2, top, top, w, r)'
<1>0. /\ ReadQueue(start, lane, byte, top, top)' /\ WriteQueue(start, lane, byte, top, top)'
      /\ w = WriteAt(start, top)' /\ r = ReadAt(start, top)' /\ r <= top
      /\ Held(start, lane, byte, w, r)'
  BY DEF InFlight
<1> DEFINE RS == Reads(start, lane, byte, top)
           WS == Writes(start, lane, byte, top)
           RS2 == Reads(start2, lane2, byte2, top2)
           WS2 == Writes(start2, lane2, byte2, top2)
<1>1. /\ \A q \in RS : q \in RS2 /\ First(start2, q) = First(start, q)
      /\ \A q \in WS : q \in WS2 /\ First(start2, q) = First(start, q)
  <2>1. Refits(start, start2, lane, lane2, byte, byte2, top, top2)
    BY FitsExtended
  <2> QED BY <2>1, Zenon DEF Refits
<1>2. /\ \A q \in RS : q \in RS2 /\ ReadFirst(start2)[q] = ReadFirst(start)[q]
                                 /\ ReadEnd(start2)[q] = ReadEnd(start)[q]
      /\ \A q \in WS : q \in WS2 /\ WriteFirst(start2)[q] = WriteFirst(start)[q]
                                 /\ WriteEnd(start2)[q] = WriteEnd(start)[q]
  <2>1. \A q \in RS : q \in ReadType
    BY DEF Reads
  <2>2. \A q \in WS : q \in WriteType
    BY DEF Writes
  <2> HIDE DEF RS, WS, RS2, WS2
  <2> QED BY <1>1, <2>1, <2>2 DEF ReadFirst, ReadEnd, WriteFirst, WriteEnd
<1>3. /\ r_dp' \in Seq(RS) /\ Chain(r_dp', ReadFirst(start), ReadEnd(start), top)
      /\ r_dp' = <<>> => r_beat' = 0
      /\ r_dp' # <<>> => r_beat' < RReq'.beats
      /\ first_r' <=> r_beat' = 0
  BY <1>0 DEF ReadQueue, Chain
<1>4. w_dp' \in Seq(WS) /\ Chain(w_dp', WriteFirst(start), WriteEnd(start), top)
  BY <1>0 DEF WriteQueue, Chain
<1> HIDE DEF RS, WS, RS2, WS2
<1>5. r_dp' \in Seq(RS2) /\ Chain(r_dp', ReadFirst(start2), ReadEnd(start2), top)
  BY <1>2, <1>3, ChainKept
<1>6. w_dp' \in Seq(WS2) /\ Chain(w_dp', WriteFirst(start2), WriteEnd(start2), top)
  BY <1>2, <1>4, ChainKept
<1>7. ReadQueue(start2, lane2, byte2, top2, top)'
  BY <1>3, <1>5 DEF ReadQueue, RS2, Chain
<1>8. WriteQueue(start2, lane2, byte2, top2, top)'
  BY <1>6 DEF WriteQueue, WS2, Chain
<1>9. /\ r_dp' # <<>> => First(start2, RReq') = First(start, RReq')
      /\ w_dp' # <<>> => First(start2, WReq') = First(start, WReq')
  <2>1. r_dp' # <<>> => Head(r_dp') \in RS
    BY <1>3, HeadTailProperties
  <2>2. w_dp' # <<>> => Head(w_dp') \in WS
    BY <1>4, HeadTailProperties
  <2> QED BY <1>1, <2>1, <2>2 DEF RReq, WReq
<1>10. ReadAt(start2, top)' = ReadAt(start, top)'
  BY <1>9 DEF ReadAt
<1>11. WriteAt(start2, top)' = WriteAt(start, top)'
  BY <1>9 DEF WriteAt
<1>12. r <= top2
  BY <1>0
<1>13. Held(start2, lane2, byte2, w, r)'
  <2>1. /\ w <= r
        /\ \A l \in Lanes : \A k \in 1..Len(buffer'[l]) :
              /\ Pos(start, buffer'[l][k]) \in w..r-1
              /\ lane[Pos(start, buffer'[l][k])] = l
              /\ byte[Pos(start, buffer'[l][k])] = buffer'[l][k]
        /\ \A p \in w..r-1 : \E k \in 1..Len(buffer'[lane[p]]) : buffer'[lane[p]][k] = byte[p]
        /\ \A l \in Lanes : \A k, j \in 1..Len(buffer'[l]) :
              j < k => Pos(start, buffer'[l][j]) < Pos(start, buffer'[l][k])
    BY <1>0 DEF Held, HeldIn, Pos
  <2>2. \A p \in w..r-1 : p \in 0..top-1
    BY <1>0
  <2>3. \A p \in w..r-1 : lane2[p] = lane[p] /\ byte2[p] = byte[p] /\ byte[p][1] <= n
    BY <2>2, Zenon DEF Extends
  <2>4. \A id \in Nat : id <= n => start2[id] = start[id]
    BY Zenon DEF Extends
  <2>5. ASSUME NEW l \in Lanes, NEW k \in 1..Len(buffer'[l])
        PROVE  Pos(start2, buffer'[l][k]) = Pos(start, buffer'[l][k])
    <3> DEFINE b == buffer'[l][k]
               p == Pos(start, b)
    <3>1. b \in Nat \X Nat
      <4>1. buffer'[l] \in Seq(Nat \X Nat)
        BY DEF Buffers
      <4> QED BY <4>1
    <3>2. p \in w..r-1 /\ byte[p] = b
      BY <2>1
    <3> HIDE DEF b, p
    <3>3. b[1] <= n /\ b[1] \in Nat
      BY <2>3, <3>1, <3>2
    <3>4. start2[b[1]] = start[b[1]]
      BY <2>4, <3>3
    <3>5. Pos(start2, b) = Pos(start, b)
      BY <3>4 DEF Pos
    <3> QED BY <3>5 DEF b
  <2>6. \A l \in Lanes : \A k \in 1..Len(buffer'[l]) :
              /\ Pos(start2, buffer'[l][k]) \in w..r-1
              /\ lane2[Pos(start2, buffer'[l][k])] = l
              /\ byte2[Pos(start2, buffer'[l][k])] = buffer'[l][k]
    <3> SUFFICES ASSUME NEW l \in Lanes, NEW k \in 1..Len(buffer'[l])
                 PROVE  /\ Pos(start2, buffer'[l][k]) \in w..r-1
                        /\ lane2[Pos(start2, buffer'[l][k])] = l
                        /\ byte2[Pos(start2, buffer'[l][k])] = buffer'[l][k]
      OBVIOUS
    <3> DEFINE b == buffer'[l][k]
               p == Pos(start, b)
    <3>1. p \in w..r-1 /\ lane[p] = l /\ byte[p] = b
      BY <2>1
    <3>2. Pos(start2, b) = p
      BY <2>5
    <3> HIDE DEF b, p
    <3>3. lane2[p] = l /\ byte2[p] = b
      BY <2>3, <3>1
    <3> QED BY <3>1, <3>2, <3>3 DEF b
  <2>7. \A p \in w..r-1 : \E k \in 1..Len(buffer'[lane2[p]]) : buffer'[lane2[p]][k] = byte2[p]
    BY <2>1, <2>3
  <2>8. \A l \in Lanes : \A k, j \in 1..Len(buffer'[l]) :
              j < k => Pos(start2, buffer'[l][j]) < Pos(start2, buffer'[l][k])
    BY <2>1, <2>5
  <2> QED BY <2>1, <2>6, <2>7, <2>8 DEF Held, HeldIn, Pos
<1> QED BY <1>0, <1>7, <1>8, <1>10, <1>11, <1>12, <1>13 DEF InFlight


(* A transfer is taken in with the last bursts of the one before.          *)
LEMMA AllEmitted ==
    ASSUME LegP!IInv, Unflushed, NEW i \in Inputs, NEW req \in Requests, Accept(i, req)
    PROVE  job.read + RStep = job.length /\ job.written + WStep = job.length
<1> DEFINE R == LegP!RNumBytesPossible
           W == LegP!WNumBytesPossible
           rl == r_tf.length
           wl == w_tf.length
           f == job.read
           g == job.written
           n == job.length
<1>1. RReady /\ WReady /\ LegP!Refill(req)
  BY LegalizerRefills DEF Accept
<1>2. rl <= R /\ wl <= W
  BY <1>1 DEF LegP!Refill, LegP!Ready, LegP!RDone, LegP!WDone, LegP!HalfDone
<1>3. (REmits <=> r_tf.valid) /\ (WEmits <=> w_tf.valid)
  BY <1>1, SameLegalizer DEF LegP!RValid, LegP!WValid, LegP!REnable, LegP!WEnable
<1>4. Leg!RNumBytes = rl /\ Leg!WNumBytes = wl
  <2>1. /\ Leg!RNumBytes = IF rl < R THEN rl ELSE R
        /\ Leg!WNumBytes = IF wl < W THEN wl ELSE W
    BY SameLegalizer DEF LegP!RNumBytes, LegP!WNumBytes, LegP!NumBytes, LegP!Smaller
  <2>2. rl \in Nat /\ wl \in Nat /\ LegP!TypeOK
    BY DEF LegP!IInv, LegP!TypeOK, LegP!HalfType
  <2>3. R \in Nat /\ W \in Nat
    BY <2>2, LegP!PossiblePositive, LegalizerConstants
  <2> HIDE DEF R, W, rl, wl
  <2> QED BY <1>2, <2>1, <2>2, <2>3
<1>5. RStep = (IF r_tf.valid THEN rl ELSE 0) /\ WStep = (IF w_tf.valid THEN wl ELSE 0)
  BY <1>3, <1>4 DEF RStep, WStep
<1>6. CASE job.killed
  <2>1. ~r_tf.valid /\ ~w_tf.valid /\ f = 0 /\ g = 0 /\ n = 0
    BY <1>6 DEF LegP!IInv, LegP!KilledIdle, Unflushed
  <2> QED BY <1>5, <2>1
<1>7. CASE ~job.killed
  <2>1. f + (IF r_tf.valid THEN rl ELSE 0) = n /\ g + (IF w_tf.valid THEN wl ELSE 0) = n
    BY <1>7 DEF LegP!IInv, LegP!BurstsTile, LegP!ReadTiles, LegP!WriteTiles
  <2> QED BY <1>5, <2>1
<1> QED BY <1>6, <1>7

LEMMA AcceptData ==
    ASSUME CtlInv, Buffers, Unflushed, NEW i \in Inputs, ReadSide(i), WriteSide(i),
           NEW req \in Requests, Accept(i, req),
           NEW start \in Starts, NEW lane \in LaneMaps, NEW byte \in ByteMaps,
           Data(start, lane, byte)
    PROVE  /\ \E start2 \in Starts, lane2 \in LaneMaps, byte2 \in ByteMaps :
                  /\ Data(start2, lane2, byte2)'
                  /\ At(start2)' = Reached(i, start)
                  /\ start2[issued + 1] = start[issued] + job.length
                  /\ \A id \in Nat : id <= issued => start2[id] = start[id]
           /\ Buffers' /\ Unflushed'
<1>1. PICK top \in Nat, rend \in Nat, wend \in Nat, w \in Nat, r \in Nat :
              /\ top = start[issued] + job.length
              /\ w = Reached(i, start)
              /\ rend = start[issued] + job.read + RStep /\ rend <= top
              /\ wend = start[issued] + job.written + WStep /\ wend <= top
              /\ Numbered(start, byte, top) /\ Newest(start, lane, byte)
              /\ InFlight(start, lane, byte, top, rend, wend, w, r)' /\ Buffers'
  BY DatapathStep
<1>2. LegP!IInv /\ issued \in Nat
  BY DEF CtlInv, Typed
<1>3. rend = top /\ wend = top
  <2>1. start[issued] \in Nat
    BY <1>2 DEF Starts
  <2>2. /\ job.length \in Nat /\ job.read \in Nat /\ job.written \in Nat
    BY <1>2, WithinJob
  <2>3. RStep \in Int /\ WStep \in Int
    BY <1>2, EmitsIntoRoom, BurstSizes, SameLegalizer DEF RStep, WStep
  <2>4. job.read + RStep = job.length /\ job.written + WStep = job.length
    BY <1>2, AllEmitted
  <2> DEFINE s == start[issued]
             n == job.length
             f == job.read
             g == job.written
             a == RStep
             b == WStep
  <2>5. /\ s \in Nat /\ f \in Nat /\ g \in Nat /\ a \in Int /\ b \in Int /\ n \in Nat
        /\ top = s + n /\ rend = s + f + a /\ wend = s + g + b /\ f + a = n /\ g + b = n
    BY <1>1, <2>1, <2>2, <2>3, <2>4
  <2> HIDE DEF s, n, f, g, a, b
  <2> QED BY <2>5
<1> DEFINE n == issued
           base == IF CombinedShifter THEN req.dst_addr ELSE 0
           len == req.length
<1>4. /\ issued' = n + 1 /\ job'.length = len /\ Base' = base
      /\ job'.read = 0 /\ job'.written = 0 /\ job'.killed = FALSE
  BY DEF Accept, Leg!Refill, Leg!Load, Base
<1>5. base \in Int /\ len \in Nat
  <2>1. req.length \in Nat \ {0} /\ req.dst_addr \in Nat
    BY <1>2, RefillStep
  <2> QED BY <2>1
<1>6. PICK m \in Nat, len2 \in Nat, base2 \in Int : m = issued /\ len2 = len /\ base2 = base
  BY <1>2, <1>5
<1>7. \A p \in 0..top-1 : byte[p][1] <= m /\ Pos(start, byte[p]) = p
  BY <1>1, <1>6 DEF Numbered
<1>8. PICK start2 \in Starts, lane2 \in LaneMaps, byte2 \in ByteMaps :
          Extends(start, start2, lane, lane2, byte, byte2, m, top, base2)
  <2>1. Extends(start, NextStart(start, m, top), lane, NextLane(lane, base2, top),
                byte, NextByte(byte, m, top), m, top, base2)
    BY <1>7, LayoutExtends
  <2> QED BY <2>1, Zenon DEF Extends
<1>9. PICK top2 \in Nat : top2 = top + len2 /\ top <= top2
  OBVIOUS
<1>10. InFlight(start, lane, byte, top, top, top, w, r)' /\ Buffers'
  BY <1>1, <1>3
<1>11. InFlight(start2, lane2, byte2, top2, top, top, w, r)'
  <2>1. /\ start2 \in Starts /\ lane2 \in LaneMaps /\ byte2 \in ByteMaps
        /\ m \in Nat /\ base2 \in Int /\ top2 \in Nat /\ top <= top2 /\ w \in Nat /\ r \in Nat
        /\ top \in Nat /\ Extends(start, start2, lane, lane2, byte, byte2, m, top, base2)
    BY <1>1, <1>6, <1>8, <1>9
  <2> QED BY <1>10, <2>1, Relayout
<1>12. /\ start2[m + 1] = top
       /\ \A id \in Nat : id <= m => start2[id] = start[id]
       /\ \A p \in 0..top-1 : byte2[p] = byte[p]
       /\ \A p \in Nat : p >= top =>
             lane2[p] = (base2 + (p - top)) % StrbWidth /\ byte2[p] = <<m + 1, p - top>>
  BY <1>8, Zenon DEF Extends
<1>13. Numbered(start2, byte2, top2)'
  <2> SUFFICES ASSUME NEW p \in 0..top2-1
               PROVE  byte2[p][1] <= m + 1 /\ Pos(start2, byte2[p]) = p
    BY <1>4, <1>6 DEF Numbered, Pos
  <2>1. CASE p < top
    <3>1. byte[p] \in Nat \X Nat
      BY DEF ByteMaps
    <3> DEFINE b == byte[p]
    <3>2. b[1] <= m /\ b[1] \in Nat /\ Pos(start, b) = p /\ byte2[p] = b
      BY <1>7, <1>12, <2>1, <3>1
    <3> HIDE DEF b
    <3>3. Pos(start2, b) = Pos(start, b)
      BY <1>12, <3>2 DEF Pos
    <3> QED BY <1>6, <3>2, <3>3
  <2>2. CASE ~(p < top)
    <3>1. byte2[p] = <<m + 1, p - top>>
      BY <1>1, <1>12, <2>2
    <3>2. Pos(start2, byte2[p]) = top + (p - top)
      BY <1>12, <3>1 DEF Pos
    <3> QED BY <1>1, <1>6, <3>1, <3>2
  <2> QED BY <2>1, <2>2
<1>14. Newest(start2, lane2, byte2)'
  <2>1. ASSUME NEW x \in 0..len2-1
        PROVE  /\ byte2[start2[m + 1] + x] = <<m + 1, x>>
               /\ lane2[start2[m + 1] + x] = (base2 + x) % StrbWidth
    <3>1. top + x \in Nat /\ top + x >= top /\ (top + x) - top = x
      BY <1>1, <1>6
    <3> QED BY <1>12, <3>1
  <2> QED BY <1>4, <1>6, <2>1 DEF Newest
<1>15. Layout(start2, lane2, byte2, top2, top, top, w, r)'
  BY <1>11, <1>13, <1>14 DEF Layout
<1>16. top2 = start2[issued'] + job'.length /\ top = start2[issued'] + job'.read
       /\ top = start2[issued'] + job'.written
  BY <1>1, <1>4, <1>6, <1>9, <1>12
<1>17. Data(start2, lane2, byte2)'
  BY <1>1, <1>9, <1>15, <1>16 DEF Data
<1>18. Unflushed'
  BY <1>4 DEF Unflushed
<1>19. At(start2)' = Reached(i, start)
  <2>1. w = Reached(i, start)
    BY <1>1, Zenon
  <2>2. w = WriteAt(start2, top)'
    BY <1>11 DEF InFlight
  <2>3. At(start2)' = WriteAt(start2, top)'
    BY <1>16 DEF At, WriteAt
  <2> QED BY <2>1, <2>2, <2>3
<1>20. start2[issued + 1] = start[issued] + job.length
       /\ \A id \in Nat : id <= issued => start2[id] = start[id]
  BY <1>1, <1>6, <1>12
<1> QED BY <1>1, <1>8, <1>17, <1>18, <1>19, <1>20


----------------------------------------------------------------------------
(* Every byte arrives where it belongs. *)

(* The layout of the reset state.                                          *)
LEMMA DataInit == Init => DataInv
<1> SUFFICES ASSUME Init PROVE DataInv
  OBVIOUS
<1> DEFINE start == [n \in Nat |-> 0]
           lane == [n \in Nat |-> 0]
           byte == [n \in Nat |-> <<0, 0>>]
<1>1. CtlInv
  BY ControlInit
<1>2. /\ r_dp = <<>> /\ first_r = TRUE /\ r_beat = 0 /\ w_dp = <<>> /\ issued = 0
      /\ buffer = [l \in Lanes |-> <<>>]
      /\ job.length = 0 /\ job.read = 0 /\ job.written = 0
  BY DEF Init, Leg!Init, Leg!NoJob
<1>3. Buffers /\ \A l \in Lanes : Len(buffer[l]) = 0
  <2>1. <<>> \in Seq(Nat \X Nat) /\ Len(<<>>) = 0
    BY EmptySeq
  <2> QED BY <1>2, <2>1 DEF Buffers
<1>4. start \in Starts /\ lane \in LaneMaps /\ byte \in ByteMaps /\ start[0] = 0
  <2>1. 0 \in Lanes
    BY Sizes DEF Lanes
  <2> QED BY <2>1 DEF Starts, LaneMaps, ByteMaps
<1> HIDE DEF start, lane, byte
<1>5. ASSUME NEW S PROVE <<>> \in Seq(S) /\ Len(<<>>) = 0
  BY EmptySeq
<1>6. ReadQueue(start, lane, byte, 0, 0) /\ WriteQueue(start, lane, byte, 0, 0)
  BY <1>2, <1>5 DEF ReadQueue, WriteQueue, Chain
<1>7. Held(start, lane, byte, 0, 0)
  BY <1>3 DEF Held, HeldIn
<1>8. InFlight(start, lane, byte, 0, 0, 0, 0, 0)
  BY <1>2, <1>6, <1>7 DEF InFlight, WriteAt, ReadAt
<1>9. Numbered(start, byte, 0) /\ Newest(start, lane, byte)
  BY <1>2 DEF Numbered, Newest
<1>10. 0 = start[issued] + job.length /\ 0 = start[issued] + job.read
       /\ 0 = start[issued] + job.written
  BY <1>2, <1>4
<1>11. Data(start, lane, byte)
  BY <1>8, <1>9, <1>10 DEF Data, Layout
<1> QED BY <1>1, <1>2, <1>3, <1>4, <1>11 DEF DataInv, Unflushed

(* A layout of the state is one of the same state.                         *)
LEMMA DataStutters ==
    ASSUME UNCHANGED vars, NEW start, NEW lane, NEW byte, Data(start, lane, byte)
    PROVE  Data(start, lane, byte)'
<1>1. /\ r_dp' = r_dp /\ first_r' = first_r /\ r_beat' = r_beat /\ w_dp' = w_dp
      /\ forked' = forked /\ w_num_beats' = w_num_beats /\ w_cnt_valid' = w_cnt_valid
      /\ issued' = issued /\ buffer' = buffer /\ job' = job
  BY DEF vars, legVars, readVars, writeVars
<1>2. PICK top \in Nat, rend \in Nat, wend \in Nat, w \in Nat, r \in Nat :
        /\ top = start[issued] + job.length
        /\ rend = start[issued] + job.read /\ wend = start[issued] + job.written
        /\ Layout(start, lane, byte, top, rend, wend, w, r)
  BY Zenon DEF Data
<1>3. RReq' = RReq /\ WReq' = WReq
  BY <1>1 DEF RReq, WReq
<1>4. ReadQueue(start, lane, byte, top, rend) => ReadQueue(start, lane, byte, top, rend)'
  BY <1>1, <1>3 DEF ReadQueue, Chain
<1>5. WriteQueue(start, lane, byte, top, wend) => WriteQueue(start, lane, byte, top, wend)'
  BY <1>1 DEF WriteQueue, Chain
<1>6. WriteAt(start, wend)' = WriteAt(start, wend) /\ ReadAt(start, rend)' = ReadAt(start, rend)
  BY <1>1, <1>3 DEF WriteAt, ReadAt, BeatsWritten
<1>7. Held(start, lane, byte, w, r) => Held(start, lane, byte, w, r)'
  BY <1>1, Zenon DEF Held
<1>8. InFlight(start, lane, byte, top, rend, wend, w, r)'
  BY <1>2, <1>4, <1>5, <1>6, <1>7 DEF InFlight, Layout
<1>9. Numbered(start, byte, top)' /\ Newest(start, lane, byte)'
  BY <1>1, <1>2 DEF Layout, Numbered, Pos, Newest, Base
<1>10. Layout(start, lane, byte, top, rend, wend, w, r)'
  BY <1>8, <1>9 DEF Layout
<1> QED BY <1>1, <1>2, <1>10 DEF Data

(* Every cycle keeps the layout.                                           *)
LEMMA DataStep == DataInv /\ [Next]_vars => DataInv'
<1> SUFFICES ASSUME DataInv, [Next]_vars PROVE DataInv'
  OBVIOUS
<1>1. CtlInv'
  BY ControlStep DEF DataInv
<1>2. PICK start \in Starts, lane \in LaneMaps, byte \in ByteMaps : Data(start, lane, byte)
  BY Zenon DEF DataInv
<1>3. CtlInv /\ Buffers /\ Unflushed
  BY DEF DataInv
<1>4. start \in Starts /\ lane \in LaneMaps /\ byte \in ByteMaps /\ Data(start, lane, byte)
  BY <1>2
<1>5. ASSUME NEW i \in Inputs, Cycle(i) PROVE DataInv'
  <2>1. ReadSide(i) /\ WriteSide(i)
    BY <1>5 DEF Cycle
  <2>2. CASE Proceed(i)
    <3>1. Data(start, lane, byte)' /\ Buffers' /\ Unflushed'
      BY <1>3, <1>4, <2>1, <2>2, ProceedData
    <3> QED BY <1>1, <1>4, <3>1 DEF DataInv
  <2>3. ASSUME NEW req \in Requests, Accept(i, req) PROVE DataInv'
    <3>1. PICK start2 \in Starts, lane2 \in LaneMaps, byte2 \in ByteMaps :
                  Data(start2, lane2, byte2)'
      BY <1>3, <1>4, <2>1, <2>3, AcceptData
    <3>2. Buffers' /\ Unflushed'
      BY <1>3, <1>4, <2>1, <2>3, AcceptData
    <3> QED BY <1>1, <3>1, <3>2 DEF DataInv
  <2> QED BY <1>5, <2>2, <2>3 DEF Cycle
<1>6. CASE UNCHANGED vars
  <2>1. Data(start, lane, byte)'
    BY <1>4, <1>6, DataStutters
  <2>2. Buffers' /\ Unflushed'
    BY <1>3, <1>6 DEF vars, legVars, readVars, Buffers, Unflushed
  <2> QED BY <1>1, <1>4, <2>1, <2>2 DEF DataInv
<1> QED BY <1>5, <1>6 DEF Next

(* In every state some layout places each byte in flight: the requests     *)
(* queued are consecutive pieces of the stream, and the lanes hold, in      *)
(* order, exactly what was read and is not yet written.                    *)
THEOREM StreamLaidOut == Spec => []DataInv
BY DataInit, DataStep, PTL DEF Spec

(* Every write beat strobes exactly the lanes of its burst and carries the *)
(* bytes that belong there (ReadyToWrite, MaskOut), whatever the bus width, *)
(* the alignments, the cuts into bursts and the depths of the queues.      *)
THEOREM BytesRight == Spec => []BeatRight
BY StreamLaidOut, OfferedRight, PTL

----------------------------------------------------------------------------
(* Of transfers to memory the backend is an in-order copy: each is         *)
(* answered once, and only when all of its bytes are written.              *)

(* Transfers to AXI stream are answered before their bytes are sent.       *)
ToMemory == \A req \in Requests : req.opt.dst_protocol = "AXI"

----------------------------------------------------------------------------
(* What the memory owes. *)

(* The bursts without a response whose data is out.                        *)
Finished == Len(rsp_order) - One("rsp" \in forked) + One("port" \in forked)

AllMemory ==
    /\ w_tf.valid => opt_tf.dst_protocol = "AXI"
    /\ aw \in Seq({"AXI"}) /\ rsp_order \in Seq({"AXI"})
    /\ w_dp \in Seq({q \in WriteType : q.proto = "AXI"})

(* Whatever was taken by the memory is answered, except for the response   *)
(* in the register.                                                        *)
Balanced ==
    /\ mem.ws = Finished - One(rsp_full)
    /\ mem.aws = Len(w_last) - Len(aw) - One(rsp_full)

(* The newest flag is that of a transfer's end, unless more is to come.    *)
FinalFlag == w_last # <<>> /\ ~w_tf.valid => w_last[Len(w_last)]

Owing == AllMemory /\ Balanced /\ FinalFlag

(* What is answered was written.                                           *)
LEMMA AnswerIsWritten ==
    ASSUME CtlInv, Owing, NEW i \in Inputs
    PROVE  /\ Finished \in Nat /\ Finished <= Len(w_last) /\ One(rsp_full) <= Finished
           /\ Len(w_last) - Len(w_dp) = Finished - One("port" \in forked)
           /\ Len(w_last) - Len(w_dp) \in Nat
           /\ Len(w_last) \in Nat /\ Len(w_dp) \in Nat
           /\ (w_last = <<>> <=> Len(w_last) = 0) /\ (w_dp = <<>> <=> Len(w_dp) = 0)
           /\ RspTaken(i) => /\ Finished >= 1 /\ w_last # <<>> /\ rsp_order # <<>>
                             /\ Len(w_last) - Len(w_dp) >= 1
<1>1. Typed /\ Forking /\ FlagPerBurst /\ Balanced /\ AllMemory
  BY DEF CtlInv, Owing
<1>2. /\ Len(rsp_order) \in Nat /\ Len(w_dp) \in Nat /\ Len(w_last) \in Nat
      /\ (w_last = <<>> <=> Len(w_last) = 0) /\ (w_dp = <<>> <=> Len(w_dp) = 0)
      /\ mem.ws \in Nat
  BY <1>1, LenProperties, EmptySeq DEF Typed
<1> DEFINE r == Len(rsp_order)
           w == Len(w_dp)
           l == Len(w_last)
           f == One("rsp" \in forked)
           p == One("port" \in forked)
           u == One(rsp_full)
<1>3. /\ r \in Nat /\ w \in Nat /\ l \in Nat /\ f \in 0..1 /\ p \in 0..1 /\ u \in 0..1
      /\ p = 1 => f = 0 /\ w > 0
      /\ f = 1 => p = 0 /\ w > 0
      /\ l = r + w - f /\ Finished = r - f + p /\ mem.ws = Finished - u
  <2>1. /\ r \in Nat /\ w \in Nat /\ l \in Nat /\ f \in 0..1 /\ p \in 0..1 /\ u \in 0..1
    BY <1>2 DEF One
  <2>2. /\ ("port" \in forked) => w_dp # <<>> /\ "rsp" \notin forked
        /\ ("rsp" \in forked) => w_dp # <<>> /\ "port" \notin forked
    BY <1>1 DEF Forking
  <2>3. /\ p = 1 => f = 0 /\ w > 0
        /\ f = 1 => p = 0 /\ w > 0
    BY <1>2, <2>2 DEF One
  <2>4. l = r + w - f /\ Finished = r - f + p /\ mem.ws = Finished - u
    BY <1>1 DEF FlagPerBurst, Finished, Balanced
  <2> QED BY <2>1, <2>3, <2>4
<1> HIDE DEF r, w, l, f, p, u
<1>4. /\ Finished \in Nat /\ Finished <= l /\ u <= Finished
      /\ l - w = Finished - p /\ l - w \in Nat
  BY <1>2, <1>3
<1>5. RspTaken(i) => Finished >= 1 /\ rsp_order # <<>>
  <2> SUFFICES ASSUME RspTaken(i) PROVE Finished >= 1 /\ rsp_order # <<>>
    OBVIOUS
  <2>1. rsp_order # <<>> /\ (rsp_full \/ MuxValid(i))
    BY DEF RspTaken
  <2>2. CASE rsp_full
    <3>1. u = 1
      BY <2>2 DEF u, One
    <3> QED BY <1>4, <2>1, <3>1
  <2>3. CASE MuxValid(i)
    <3>1. Head(rsp_order) = "AXI"
      <4>1. Head(rsp_order) \in {"AXI"}
        BY <1>1, <2>1, HeadTailProperties DEF AllMemory
      <4> QED BY <4>1
    <3>2. mem.ws > 0
      BY <2>3, <3>1 DEF MuxValid, BOffered
    <3> QED BY <1>2, <1>3, <1>4, <2>1, <3>2
  <2> QED BY <2>1, <2>2, <2>3
<1>6. RspTaken(i) => w_last # <<>>
  BY <1>2, <1>4, <1>5 DEF l
<1>7. RspTaken(i) => l - w >= 1
  <2>1. RspTaken(i) => r >= 1
    <3>1. rsp_order # <<>> => r # 0
      BY <1>1, EmptySeq DEF r, Typed
    <3> QED BY <1>3, <1>5, <3>1
  <2> QED BY <1>3, <1>5, <2>1
<1> QED BY <1>2, <1>4, <1>5, <1>6, <1>7 DEF w, l, p, u

(* The transfers in the queues are still to memory after a cycle.          *)
LEMMA MemoryStep ==
    ASSUME ToMemory, CtlInv, Owing, NEW i \in Inputs, Cycle(i)
    PROVE  AllMemory'
<1>1. /\ WriteSide(i) /\ ResponseSide(i)
      /\ Proceed(i) \/ \E req \in Requests : Accept(i, req)
  BY DEF Cycle
<1>2. Typed /\ LegP!IInv /\ AllMemory
  BY DEF CtlInv, Owing
<1>3. WEmits => opt_tf.dst_protocol = "AXI"
  BY <1>2, EmitsIntoRoom DEF AllMemory
<1>4. w_tf'.valid => opt_tf'.dst_protocol = "AXI"
  <2>1. CASE Proceed(i)
    <3>1. w_tf'.valid => w_tf.valid
      BY <1>2, <2>1, WriteHalfStep
    <3>2. opt_tf' = opt_tf
      BY <2>1 DEF Proceed, Leg!Advance
    <3> QED BY <1>2, <3>1, <3>2 DEF AllMemory
  <2>2. ASSUME NEW req \in Requests, Accept(i, req) PROVE opt_tf'.dst_protocol = "AXI"
    BY <2>2 DEF Accept, Leg!Refill, Leg!Load, ToMemory
  <2> QED BY <1>1, <2>1, <2>2
<1>5. aw' \in Seq({"AXI"})
  <2> DEFINE taken == AwTaken(i)
             meta == IF WEmits THEN <<opt_tf.dst_protocol>> ELSE <<>>
  <2>1. aw' = Rest(aw, taken) \o meta
    BY <1>1 DEF WriteSide
  <2>2. taken \in BOOLEAN /\ (taken => aw # <<>>)
    BY DEF AwTaken
  <2>3. meta = <<>> \/ \E x \in {"AXI"} : meta = <<x>>
    BY <1>3
  <2>4. aw \in Seq({"AXI"})
    BY <1>2 DEF AllMemory
  <2> HIDE DEF taken, meta
  <2>5. Rest(aw, taken) \o meta \in Seq({"AXI"})
    BY <2>2, <2>3, <2>4, QueueLength
  <2> QED BY <2>1, <2>5
<1> DEFINE M == {q \in WriteType : q.proto = "AXI"}
<1>6. w_dp \in Seq(M) /\ (w_dp # <<>> => WReq \in M /\ WReq.proto = "AXI")
  <2>1. w_dp \in Seq(M)
    BY <1>2 DEF AllMemory
  <2> HIDE DEF M
  <2>2. w_dp # <<>> => WReq \in M
    BY <2>1, HeadTailProperties DEF WReq
  <2> QED BY <2>1, <2>2 DEF M
<1>7. rsp_order' \in Seq({"AXI"})
  <2> DEFINE taken == RspTaken(i)
             order == IF TakesRsp THEN <<WReq.proto>> ELSE <<>>
  <2>1. rsp_order' = Rest(rsp_order, taken) \o order
    BY <1>1 DEF ResponseSide
  <2>2. taken \in BOOLEAN /\ (taken => rsp_order # <<>>)
    BY DEF RspTaken
  <2>3. order = <<>> \/ \E x \in {"AXI"} : order = <<x>>
    <3>1. TakesRsp => WReq.proto = "AXI"
      BY <1>6 DEF TakesRsp
    <3> QED BY <3>1
  <2>4. rsp_order \in Seq({"AXI"})
    BY <1>2 DEF AllMemory
  <2> HIDE DEF taken, order
  <2>5. Rest(rsp_order, taken) \o order \in Seq({"AXI"})
    BY <2>2, <2>3, <2>4, QueueLength
  <2> QED BY <2>1, <2>5
<1>8. w_dp' \in Seq(M)
  <2> DEFINE pop == Forked(i) = {"rsp", "port"}
             push == WPush
  <2>1. w_dp' = Rest(w_dp, pop) \o push
    BY <1>1 DEF WriteSide
  <2>2. pop \in BOOLEAN /\ (pop => w_dp # <<>>)
    BY ForkStep
  <2>3. push = <<>> \/ \E x \in M : push = <<x>>
    <3>1. push = <<>> \/ \E x \in WriteType : push = <<x>>
      BY <1>2, RequestTypes DEF Typed
    <3>2. WEmits => WriteRequest.proto = "AXI"
      BY <1>3 DEF WriteRequest
    <3>3. CASE WEmits
      <4>1. push = <<WriteRequest>>
        BY <3>3 DEF WPush
      <4>2. WriteRequest \in WriteType
        BY <3>1, <4>1
      <4> QED BY <3>2, <3>3, <4>1, <4>2
    <3>4. CASE ~WEmits
      BY <3>4 DEF WPush
    <3> QED BY <3>3, <3>4
  <2> HIDE DEF pop, push, M
  <2>4. Rest(w_dp, pop) \o push \in Seq(M)
    BY <1>6, <2>2, <2>3, QueueLength
  <2> QED BY <2>1, <2>4
<1> QED BY <1>4, <1>5, <1>7, <1>8 DEF AllMemory

(* One burst more is finished with its last beat, one less with its        *)
(* response.                                                               *)
LEMMA FinishedStep ==
    ASSUME CtlInv, NEW i \in Inputs, WriteSide(i), ResponseSide(i)
    PROVE  /\ Finished' = Finished - One(RspTaken(i)) + One(TakesPort(i))
           /\ Finished \in Int
           /\ Len(rsp_order) \in Nat /\ Len(w_dp) \in Nat
           /\ One("port" \in forked') = One("port" \in forked) + One(TakesPort(i))
                                            - One(Forked(i) = {"rsp", "port"})
<1> DEFINE taken == RspTaken(i)
           takes == TakesRsp
           port == TakesPort(i)
           pop == Forked(i) = {"rsp", "port"}
           order == IF takes THEN <<WReq.proto>> ELSE <<>>
<1>1. Typed /\ Forking
  BY DEF CtlInv
<1>2. /\ rsp_order' = Rest(rsp_order, taken) \o order
      /\ forked' = IF pop THEN {} ELSE Forked(i)
  BY DEF ResponseSide, WriteSide
<1>3. /\ taken \in BOOLEAN /\ takes \in BOOLEAN /\ port \in BOOLEAN /\ pop \in BOOLEAN
      /\ taken => rsp_order # <<>>
      /\ takes => "rsp" \notin forked /\ w_dp # <<>>
      /\ port => "port" \notin forked
      /\ pop => ("rsp" \in forked \/ takes) /\ ("port" \in forked \/ port)
      /\ "rsp" \in Forked(i) <=> "rsp" \in forked \/ takes
      /\ "port" \in Forked(i) <=> "port" \in forked \/ port
      /\ Forked(i) \in {{}, {"rsp"}, {"port"}, {"rsp", "port"}}
  BY ForkStep DEF RspTaken
<1>4. order = <<>> \/ \E x \in Protocols : order = <<x>>
  <2>1. w_dp # <<>> => WReq \in WriteType
    BY <1>1, HeadTailProperties DEF Typed, WReq
  <2>2. takes => WReq.proto \in Protocols
    BY <1>3, <2>1 DEF WriteType
  <2> QED BY <2>2
<1>5. Len(order) = One(takes)
  BY DEF One
<1>6. rsp_order \in Seq(Protocols) /\ w_dp \in Seq(WriteType)
  BY <1>1 DEF Typed
<1>7. Len(rsp_order) \in Nat /\ Len(w_dp) \in Nat
  BY <1>6, LenProperties
<1> HIDE DEF taken, takes, port, pop, order
<1>8. Len(rsp_order') = Len(rsp_order) - One(taken) + One(takes)
  <2>1. taken \in BOOLEAN /\ (taken => rsp_order # <<>>)
    BY <1>3
  <2>2. Len(Rest(rsp_order, taken) \o order) = Len(rsp_order) - One(taken) + Len(order)
    BY <1>4, <1>6, <2>1, QueueLength
  <2> QED BY <1>2, <1>5, <2>2
<1> DEFINE hadR == "rsp" \in forked
           hadP == "port" \in forked
           hasR == "rsp" \in forked'
           hasP == "port" \in forked'
<1>9. /\ ~pop => (hasR <=> hadR \/ takes) /\ (hasP <=> hadP \/ port)
      /\ pop => ~hasR /\ ~hasP
      /\ hadR \in BOOLEAN /\ hadP \in BOOLEAN /\ hasR \in BOOLEAN /\ hasP \in BOOLEAN
  BY <1>2, <1>3
<1>10. ~pop => ~((hadR \/ takes) /\ (hadP \/ port))
  BY <1>3 DEF pop
<1>11. /\ takes => ~hadR
       /\ port => ~hadP
       /\ pop => (hadR \/ takes) /\ (hadP \/ port)
  BY <1>3
<1> HIDE DEF hadR, hadP, hasR, hasP
<1>12. /\ One(hasR) = One(hadR) + One(takes) - One(pop)
       /\ One(hasP) = One(hadP) + One(port) - One(pop)
  BY <1>3, <1>9, <1>10, <1>11 DEF One
<1> DEFINE r == Len(rsp_order)  t == One(taken)  s == One(takes)  o == One(port)  d == One(pop)
           x == One(hadR)  y == One(hadP)
<1>13. r \in Int /\ t \in Int /\ s \in Int /\ o \in Int /\ d \in Int /\ x \in Int /\ y \in Int
  BY <1>7 DEF One
<1>14. Finished = r - x + y /\ Finished' = (r - t + s) - (x + s - d) + (y + o - d)
  BY <1>8, <1>12 DEF Finished, hadR, hadP, hasR, hasP
<1> HIDE DEF r, t, s, o, d, x, y
<1>15. Finished' = Finished - t + o /\ Finished \in Int
  BY <1>13, <1>14
<1> QED BY <1>7, <1>12, <1>15 DEF t, o, taken, port, pop, hadP, hasP

(* What is taken from the queues, the memory owes an answer for.           *)
LEMMA BalanceStep ==
    ASSUME CtlInv, Owing, NEW i \in Inputs, WriteSide(i), ResponseSide(i)
    PROVE  Balanced'
<1> DEFINE taken == RspTaken(i)
           port == TakesPort(i)
           addr == AwTaken(i)
           b == BTaken(i)
           meta == IF WEmits THEN <<opt_tf.dst_protocol>> ELSE <<>>
           flag == IF WEmits THEN <<Leg!WDone>> ELSE <<>>
<1>1. Typed /\ AllMemory /\ Balanced /\ LegP!IInv
  BY DEF CtlInv, Owing
<1>2. addr /\ Head(aw) = "AXI" <=> addr
  <2>1. addr => aw # <<>>
    BY DEF AwTaken
  <2>2. aw # <<>> => Head(aw) \in {"AXI"}
    BY <1>1, HeadTailProperties DEF AllMemory
  <2> QED BY <2>1, <2>2
<1>3. port /\ WReq.proto = "AXI" <=> port
  <2> DEFINE M == {q \in WriteType : q.proto = "AXI"}
  <2>1. port => w_dp # <<>>
    BY ForkStep
  <2>2. w_dp # <<>> => WReq \in M
    <3>1. w_dp \in Seq(M)
      BY <1>1 DEF AllMemory
    <3> HIDE DEF M
    <3> QED BY <3>1, HeadTailProperties DEF WReq
  <2> QED BY <2>1, <2>2
<1>4. /\ mem'.aws = mem.aws + One(addr) - One(b)
      /\ mem'.ws = mem.ws + One(port) - One(b)
  <2> DEFINE x == AwTaken(i) /\ Head(aw) = "AXI"
             y == TakesPort(i) /\ WReq.proto = "AXI"
  <2>1. mem' = [aws |-> mem.aws + One(x) - One(b), ws |-> mem.ws + One(y) - One(b)]
    BY DEF ResponseSide
  <2>2. (x <=> addr) /\ (y <=> port)
    BY <1>2, <1>3
  <2> HIDE DEF x, y, addr, port, b
  <2>3. One(x) = One(addr) /\ One(y) = One(port)
    BY <2>2 DEF One
  <2> QED BY <2>1, <2>3
<1>5. One(rsp_full') = One(rsp_full) + One(b) - One(taken)
  <2> DEFINE full == rsp_full
             valid == MuxValid(i)
  <2>1. rsp_order # <<>> => Head(rsp_order) = "AXI"
    <3>1. rsp_order # <<>> => Head(rsp_order) \in {"AXI"}
      BY <1>1, HeadTailProperties DEF AllMemory
    <3> QED BY <3>1
  <2>2. b <=> valid /\ ~full
    BY <2>1 DEF BTaken, MuxValid
  <2>3. taken => full \/ valid
    BY DEF RspTaken
  <2>4. rsp_full' <=> (full \/ valid) /\ ~taken
    BY DEF ResponseSide
  <2>5. rsp_full' \in BOOLEAN /\ full \in BOOLEAN /\ taken \in BOOLEAN /\ b \in BOOLEAN /\ valid \in BOOLEAN
    <3>1. rsp_full' \in BOOLEAN
      BY DEF ResponseSide
    <3> QED BY <1>1, <3>1 DEF Typed, RspTaken, BTaken, MuxValid
  <2> HIDE DEF taken, b, valid
  <2>6. One(rsp_full') = One(full) + One(b) - One(taken)
    BY <2>2, <2>3, <2>4, <2>5 DEF One
  <2> QED BY <2>6
<1>6. Finished' = Finished - One(taken) + One(port) /\ Finished \in Int
  BY FinishedStep
<1>7. Len(aw') = Len(aw) - One(addr) + One(WEmits) /\ Len(aw) \in Nat
  <2>1. aw' = Rest(aw, addr) \o meta
    BY DEF WriteSide
  <2>2. addr \in BOOLEAN /\ (addr => aw # <<>>)
    BY DEF AwTaken
  <2>3. meta = <<>> \/ \E x \in Protocols : meta = <<x>>
    BY <1>1, BurstSizes
  <2>4. aw \in Seq(Protocols)
    BY <1>1 DEF Typed
  <2>5. Len(meta) = One(WEmits)
    BY DEF One
  <2> HIDE DEF addr, meta
  <2>6. Len(Rest(aw, addr) \o meta) = Len(aw) - One(addr) + Len(meta)
    BY <2>2, <2>3, <2>4, QueueLength
  <2> QED BY <2>1, <2>4, <2>5, <2>6, LenProperties
<1>8. Len(w_last') = Len(w_last) - One(taken) + One(WEmits) /\ Len(w_last) \in Nat
  <2>1. w_last' = Rest(w_last, taken) \o flag
    BY DEF ResponseSide
  <2>2. taken \in BOOLEAN /\ (taken => w_last # <<>>)
    BY AnswerIsWritten DEF RspTaken
  <2>3. flag = <<>> \/ \E x \in BOOLEAN : flag = <<x>>
    <3>1. Leg!WDone \in BOOLEAN
      BY DEF Leg!WDone, Leg!HalfDone
    <3> QED BY <3>1
  <2>4. w_last \in Seq(BOOLEAN)
    BY <1>1 DEF Typed
  <2>5. Len(flag) = One(WEmits)
    BY DEF One
  <2> HIDE DEF taken, flag
  <2>6. Len(Rest(w_last, taken) \o flag) = Len(w_last) - One(taken) + Len(flag)
    BY <2>2, <2>3, <2>4, QueueLength
  <2> QED BY <2>1, <2>4, <2>5, <2>6, LenProperties
<1>9. /\ mem.ws = Finished - One(rsp_full) /\ mem.aws = Len(w_last) - Len(aw) - One(rsp_full)
  BY <1>1 DEF Balanced
<1> DEFINE t == One(taken)  o == One(port)  a == One(addr)  c == One(b)  e == One(WEmits)
           u == One(rsp_full)  F == Finished  L == Len(w_last)  A == Len(aw)
<1>10. t \in Int /\ o \in Int /\ a \in Int /\ c \in Int /\ e \in Int /\ u \in Int
  BY DEF One
<1>11. /\ mem'.ws = (F - u) + o - c /\ mem'.aws = (L - A - u) + a - c
       /\ Finished' = F - t + o /\ One(rsp_full') = u + c - t
       /\ Len(w_last') = L - t + e /\ Len(aw') = A - a + e
       /\ F \in Int /\ L \in Int /\ A \in Int
  BY <1>4, <1>5, <1>6, <1>7, <1>8, <1>9
<1> HIDE DEF t, o, a, c, e, u, F, L, A
<1>12. /\ mem'.ws = Finished' - One(rsp_full')
       /\ mem'.aws = Len(w_last') - Len(aw') - One(rsp_full')
  BY <1>10, <1>11
<1> QED BY <1>12 DEF Balanced

(* The newest flag is set once the transfer's last burst left.             *)
LEMMA FinalFlagStep ==
    ASSUME CtlInv, Owing, NEW i \in Inputs, Cycle(i)
    PROVE  FinalFlag'
<1> DEFINE taken == RspTaken(i)
           flag == IF WEmits THEN <<Leg!WDone>> ELSE <<>>
           Flags == BOOLEAN
<1>1. /\ ResponseSide(i)
      /\ Proceed(i) \/ \E req \in Requests : Accept(i, req)
  BY DEF Cycle
<1>2. Typed /\ LegP!IInv /\ FinalFlag
  BY DEF CtlInv, Owing
<1> SUFFICES ASSUME w_last' # <<>>, ~w_tf'.valid PROVE w_last'[Len(w_last')]
  BY DEF FinalFlag
<1>3. Proceed(i)
  BY <1>1, <1>2, RefillStep
<1>4. /\ w_tf.valid => WEmits /\ Leg!WDone
      /\ WEmits => w_tf.valid
  BY <1>2, <1>3, WriteHalfStep, EmitsIntoRoom
<1>5. w_last' = Rest(w_last, taken) \o flag
  BY <1>1 DEF ResponseSide
<1>6. taken \in BOOLEAN /\ (taken => w_last # <<>>)
  BY AnswerIsWritten DEF RspTaken
<1>7. flag = <<>> \/ \E x \in Flags : flag = <<x>>
  <2>1. Leg!WDone \in BOOLEAN
    BY DEF Leg!WDone, Leg!HalfDone
  <2> QED BY <2>1
<1>8. w_last \in Seq(Flags)
  BY <1>2 DEF Typed
<1>9. flag # <<>> => WEmits /\ Leg!WDone /\ Head(flag) = Leg!WDone
  BY <1>4
<1> HIDE DEF taken, flag, Flags
<1>10. w_last' \in Seq(Flags) /\ Advanced(w_last, w_last', taken, flag)
  BY <1>5, <1>6, <1>7, <1>8, QueueMoves
<1>11. PICK e \in 0..1, n \in 0..1 :
        /\ (e = 1 <=> taken) /\ (n = 1 <=> flag # <<>>)
        /\ Len(w_last) \in Nat /\ Len(w_last) >= e /\ (w_last = <<>> <=> Len(w_last) = 0)
        /\ Len(w_last') = Len(w_last) - e + n
        /\ \A k \in 1..Len(w_last) - e : w_last'[k] = w_last[k + e]
        /\ n = 1 => w_last'[Len(w_last) - e + 1] = Head(flag)
  BY <1>10 DEF Advanced
<1>12. Len(w_last') # 0
  BY <1>10, EmptySeq
<1>13. CASE n = 1
  BY <1>9, <1>11, <1>13
<1>14. CASE n = 0
  <2>1. ~WEmits
    <3>1. flag = <<>>
      BY <1>11, <1>14
    <3>2. WEmits => flag # <<>>
      BY DEF flag
    <3> QED BY <3>1, <3>2
  <2>2. ~w_tf.valid
    BY <1>4, <2>1
  <2> DEFINE N == Len(w_last)
  <2>3. N - e \in 1..N - e /\ Len(w_last') = N - e /\ (N - e) + e = N /\ N # 0
    BY <1>11, <1>12, <1>14
  <2>4. w_last'[N - e] = w_last[N]
    BY <1>11, <2>3
  <2>5. w_last[N]
    BY <1>2, <1>11, <2>2, <2>3 DEF FinalFlag
  <2> QED BY <2>3, <2>4, <2>5
<1> QED BY <1>11, <1>13, <1>14

LEMMA OwingInit == Init => Owing
<1> SUFFICES ASSUME Init PROVE Owing
  OBVIOUS
<1>1. /\ w_dp = <<>> /\ forked = {} /\ aw = <<>> /\ rsp_order = <<>> /\ rsp_full = FALSE
      /\ w_last = <<>> /\ mem = [aws |-> 0, ws |-> 0] /\ w_tf.valid = FALSE
  BY DEF Init, Leg!Init, Leg!NoTransfer
<1>2. \A S : <<>> \in Seq(S) /\ Len(<<>>) = 0
  BY EmptySeq
<1>3. AllMemory
  BY <1>1, <1>2 DEF AllMemory
<1>4. Balanced
  <2>1. Len(rsp_order) = 0 /\ Len(w_last) = 0 /\ Len(aw) = 0
    BY <1>1, <1>2, Zenon
  <2>2. mem.aws = 0 /\ mem.ws = 0
    BY <1>1
  <2>3. One("rsp" \in forked) = 0 /\ One("port" \in forked) = 0 /\ One(rsp_full) = 0
    BY <1>1 DEF One
  <2>4. Finished = 0
    BY <2>1, <2>3 DEF Finished
  <2> QED BY <2>1, <2>2, <2>3, <2>4 DEF Balanced
<1> QED BY <1>1, <1>3, <1>4 DEF Owing, FinalFlag

LEMMA OwingStep ==
    ASSUME ToMemory, CtlInv, Owing, [Next]_vars PROVE Owing'
<1>1. ASSUME NEW i \in Inputs, Cycle(i) PROVE Owing'
  <2>1. WriteSide(i) /\ ResponseSide(i)
    BY <1>1 DEF Cycle
  <2> QED BY <1>1, <2>1, MemoryStep, BalanceStep, FinalFlagStep DEF Owing
<1>2. CASE UNCHANGED vars
  BY <1>2 DEF vars, legVars, readVars, writeVars, rspVars, Owing, AllMemory, Balanced, Finished,
      FinalFlag
<1> QED BY <1>1, <1>2 DEF Next

----------------------------------------------------------------------------
(* Nothing is left behind. *)

(* With no transfer to answer there is no flag, hence no burst.            *)
LEMMA NoBurstLeft ==
    ASSUME CtlInv, Owing, pending = <<>>
    PROVE  /\ ~w_tf.valid /\ w_dp = <<>> /\ aw = <<>> /\ forked = {}
           /\ rsp_order = <<>> /\ w_last = <<>> /\ ~rsp_full /\ ~w_cnt_valid
           /\ mem = [aws |-> 0, ws |-> 0]
<1>1. Typed /\ Forking /\ FlagPerBurst /\ Balanced /\ FinalFlag /\ LegP!IInv
  BY DEF CtlInv, Owing
<1>2. /\ Len(rsp_order) \in Nat /\ Len(w_dp) \in Nat /\ Len(w_last) \in Nat /\ Len(aw) \in Nat
      /\ (w_last = <<>> <=> Len(w_last) = 0) /\ (w_dp = <<>> <=> Len(w_dp) = 0)
      /\ (rsp_order = <<>> <=> Len(rsp_order) = 0) /\ (aw = <<>> <=> Len(aw) = 0)
      /\ w_last \in Seq(BOOLEAN)
  BY <1>1, LenProperties, EmptySeq DEF Typed
<1> DEFINE flags == Occurrences(w_last, TRUE)
           v == One(w_tf.valid)
<1>3. flags = 0 /\ ~w_tf.valid
  <2>1. flags \in Nat
    <3> DEFINE yes == TRUE
               Flags == BOOLEAN
    <3>1. w_last \in Seq(Flags)
      BY <1>2
    <3> HIDE DEF yes, Flags
    <3>2. Occurrences(w_last, yes) \in Nat
      BY <3>1, OccurrencesType
    <3> QED BY <3>2 DEF yes
  <2>2. flags + v = 0
    <3>1. Len(pending) = 0
      BY EmptySeq
    <3> QED BY <3>1 DEF CtlInv, LastFlagPerTransfer
  <2>3. v \in 0..1
    BY DEF One
  <2> HIDE DEF flags, v
  <2>4. flags = 0 /\ v = 0
    BY <2>1, <2>2, <2>3
  <2>5. v = 0 => ~w_tf.valid
    BY DEF v, One
  <2> QED BY <2>4, <2>5
<1>4. w_last = <<>>
  <2> SUFFICES ASSUME w_last # <<>> PROVE FALSE
    OBVIOUS
  <2> DEFINE n == Len(w_last)
  <2>1. n \in 1..n /\ w_last[n]
    BY <1>1, <1>2, <1>3 DEF FinalFlag
  <2> DEFINE yes == TRUE
             Flags == BOOLEAN
  <2>2. w_last[n] = yes /\ w_last \in Seq(Flags)
    <3>1. w_last[n] \in BOOLEAN
      BY <1>2, <2>1
    <3> QED BY <1>2, <2>1, <3>1
  <2> HIDE DEF yes, Flags, n
  <2>3. n \in Places(w_last, yes)
    BY <2>1, <2>2 DEF Places, n
  <2>4. /\ IsFiniteSet(Places(w_last, yes))
        /\ Cardinality(Places(w_last, yes)) = Occurrences(w_last, yes)
    BY <2>2, OccurrencesType
  <2>5. Cardinality(Places(w_last, yes)) # 0
    BY <2>3, <2>4, FS_EmptySet
  <2> QED BY <1>3, <2>4, <2>5 DEF yes
<1> DEFINE r == Len(rsp_order)
           w == Len(w_dp)
           f == One("rsp" \in forked)
           p == One("port" \in forked)
           u == One(rsp_full)
<1>5. /\ r \in Nat /\ w \in Nat /\ f \in 0..1 /\ p \in 0..1 /\ u \in 0..1
      /\ (f = 1 => p = 0) /\ 0 = r + w - f /\ r - f + p \in Nat /\ u <= r - f + p
      /\ mem.ws = r - f + p - u /\ mem.aws = 0 - Len(aw) - u
      /\ (f = 1 => w > 0) /\ (p = 1 => w > 0)
  <2>1. f \in 0..1 /\ p \in 0..1 /\ u \in 0..1
    BY DEF One
  <2>2. (f = 1 => p = 0) /\ (f = 1 => w > 0) /\ (p = 1 => w > 0)
    <3>1. ("rsp" \in forked) => "port" \notin forked /\ w_dp # <<>>
      BY <1>1 DEF Forking
    <3>2. ("port" \in forked) => w_dp # <<>>
      BY <1>1 DEF Forking
    <3> QED BY <1>2, <3>1, <3>2 DEF One
  <2>3. 0 = r + w - f
    BY <1>1, <1>2, <1>4 DEF FlagPerBurst
  <2>4. Finished = r - f + p
    BY DEF Finished
  <2>5. mem.ws = Finished - u /\ mem.aws = Len(w_last) - Len(aw) - u
    BY <1>1 DEF Balanced
  <2>6. Len(w_last) = 0
    BY <1>2, <1>4
  <2>7. Finished \in Nat /\ u <= Finished
    <3>1. mem.ws \in Nat
      BY <1>1 DEF Typed
    <3> HIDE DEF r, f, p, u
    <3> QED BY <1>2, <2>1, <2>4, <2>5, <3>1 DEF r
  <2>8. r \in Nat /\ w \in Nat
    BY <1>2
  <2>9. r - f + p \in Nat /\ u <= r - f + p /\ mem.ws = r - f + p - u
    <3> DEFINE F == Finished
               m == mem.ws
    <3>1. F = r - f + p /\ m = F - u /\ F \in Nat /\ u <= F
      BY <2>4, <2>5, <2>7, Zenon
    <3> HIDE DEF r, f, p, u, F, m
    <3>2. r - f + p \in Nat /\ u <= r - f + p /\ m = r - f + p - u
      BY <2>1, <2>8, <3>1
    <3> QED BY <3>2 DEF m
  <2>10. mem.aws = 0 - Len(aw) - u
    BY <2>5, <2>6
  <2> HIDE DEF r, w, f, p, u
  <2> QED BY <2>1, <2>2, <2>3, <2>8, <2>9, <2>10
<1>6. mem.aws \in Nat /\ mem.ws \in Nat /\ mem = [aws |-> mem.aws, ws |-> mem.ws]
  BY <1>1 DEF Typed
<1> HIDE DEF r, w, f, p, u
<1>7. r = 0 /\ w = 0 /\ f = 0 /\ p = 0 /\ u = 0
  BY <1>5
<1>8. mem.ws = 0 /\ mem.aws = 0 /\ Len(aw) = 0
  BY <1>2, <1>5, <1>6, <1>7
<1>9. w_dp = <<>> /\ rsp_order = <<>> /\ aw = <<>> /\ ~rsp_full
  <2>1. u = 0 => ~rsp_full
    BY DEF u, One
  <2> QED BY <1>2, <1>7, <1>8, <2>1 DEF r, w
<1>10. forked = {} /\ ~w_cnt_valid
  BY <1>1, <1>9 DEF Forking
<1> QED BY <1>3, <1>4, <1>6, <1>8, <1>9, <1>10

LEMMA LanesAreInt == \A l \in Lanes : l \in Int
BY DEF Lanes

(* So everything is written; what was read is no more, and no less was     *)
(* asked for.                                                              *)
LEMMA NoByteLeft ==
    ASSUME DataInv, Owing, pending = <<>>
    PROVE  /\ r_dp = <<>> /\ first_r
           /\ \A l \in Lanes : buffer[l] = <<>>
<1>1. CtlInv /\ LegP!IInv /\ Typed /\ Unflushed /\ Buffers
  BY DEF DataInv, CtlInv
<1>2. ~w_tf.valid /\ w_dp = <<>>
  BY <1>1, NoBurstLeft
<1>3. PICK start \in Starts, lane \in LaneMaps, byte \in ByteMaps : Data(start, lane, byte)
  BY Zenon DEF DataInv
<1>4. PICK top \in Nat, rend \in Nat, wend \in Nat, w \in Nat, r \in Nat :
        /\ top = start[issued] + job.length /\ wend = start[issued] + job.written
        /\ Layout(start, lane, byte, top, rend, wend, w, r)
  BY <1>3, Zenon DEF Data
<1>5. /\ ReadQueue(start, lane, byte, top, rend) /\ w = WriteAt(start, wend)
      /\ r = ReadAt(start, rend) /\ r <= top /\ Held(start, lane, byte, w, r)
  BY <1>4, Zenon DEF Layout, InFlight
<1>6. job.written = job.length
  <2> DEFINE g == job.written
             n == job.length
  <2>1. CASE job.killed
    BY <1>1, <2>1 DEF Unflushed
  <2>2. CASE ~job.killed
    <3>1. g + 0 = n /\ g \in Nat /\ n \in Nat
      BY <1>1, <1>2, <2>2, BurstSizes DEF LegP!IInv, LegP!BurstsTile, LegP!WriteTiles
    <3> QED BY <3>1
  <2> QED BY <2>1, <2>2
<1>7. w = top
  BY <1>2, <1>4, <1>5, <1>6 DEF WriteAt
<1>8. w <= r
  BY <1>5 DEF Held, HeldIn
<1>9. r = top
  BY <1>5, <1>7, <1>8
<1>10. \A l \in Lanes : buffer[l] = <<>>
  <2> SUFFICES ASSUME NEW l \in Lanes, buffer[l] # <<>> PROVE FALSE
    OBVIOUS
  <2>1. buffer[l] \in Seq(Nat \X Nat)
    BY <1>1 DEF Buffers
  <2>2. 1 \in 1..Len(buffer[l])
    BY <2>1, EmptySeq
  <2>3. \A k \in 1..Len(buffer[l]) : Pos(start, buffer[l][k]) \in w..r-1
    BY <1>5 DEF Held, HeldIn
  <2>4. w..r-1 = {}
    BY <1>7, <1>9
  <2> QED BY <2>2, <2>3, <2>4
<1>11. r_dp = <<>>
  <2> SUFFICES ASSUME r_dp # <<>> PROVE FALSE
    OBVIOUS
  <2> DEFINE q == RReq
             F == First(start, RReq)
             k == r_beat
             d == IF r_beat = 0 THEN 0 ELSE StrbWidth * r_beat - RReq.offset
             n == RLen(RReq)
  <2>1. /\ q \in ReadType /\ ReadFits(start, lane, byte, top, q)
        /\ k \in 0..q.beats-1
    BY <1>1, <1>5, BeatOfRead
  <2>2. q.id \in Nat /\ q.from \in Nat /\ q.offset \in Lanes /\ q.tailer \in Lanes
        /\ q.beats \in Nat \ {0}
    BY <2>1 DEF ReadType
  <2>3. F \in Nat
    BY <2>2, FirstIsNat
  <2>4. n > 0 /\ F + n <= top /\ n = End(q.beats, q.tailer) - q.offset
    BY <2>1 DEF ReadFits, RLen
  <2>5. d = BeatLo(q.offset, k)
    BY DEF BeatLo
  <2>6. d \in Nat /\ d < n
    <3> DEFINE e == End(q.beats, q.tailer) - q.offset
               hi == BeatHi(q.offset, q.tailer, q.beats, k)
    <3>0. End(q.beats, q.tailer) - q.offset > 0
      BY <2>4, Zenon
    <3>1. d \in Nat /\ hi \in Nat /\ d < hi /\ hi <= e /\ End(q.beats, q.tailer) \in Int
      BY <2>1, <2>2, <2>5, <3>0, BeatBytes
    <3>2. q.offset \in Int
      BY <2>2, LanesAreInt, Zenon
    <3>3. e \in Int
      BY <3>1, <3>2
    <3>4. n = e
      BY <2>4
    <3> HIDE DEF n, e, hi, d
    <3> QED BY <3>1, <3>3, <3>4
  <2>7. r = F + d
    BY <1>5 DEF ReadAt
  <2>8. n \in Int
    <3>1. End(q.beats, q.tailer) \in Int
      <4>0. End(q.beats, q.tailer) - q.offset > 0
        BY <2>4, Zenon
      <4> QED BY <2>1, <2>2, <4>0, BeatBytes
    <3>2. q.offset \in Int
      BY <2>2, LanesAreInt, Zenon
    <3> QED BY <2>4, <3>1, <3>2
  <2> HIDE DEF F, d, n
  <2> QED BY <1>9, <2>3, <2>4, <2>6, <2>7, <2>8
<1>12. first_r
  BY <1>5, <1>11 DEF ReadQueue
<1> QED BY <1>10, <1>11, <1>12

(* When every transfer is answered nothing of any is left, for transfers   *)
(* to memory.                                                              *)
LEMMA IdleIsClean == DataInv /\ Owing => CleanWhenIdle
<1> SUFFICES ASSUME DataInv, Owing, pending = <<>>
             PROVE  /\ r_dp = <<>> /\ w_dp = <<>> /\ aw = <<>> /\ forked = {}
                    /\ rsp_order = <<>> /\ w_last = <<>> /\ ~rsp_full
                    /\ \A l \in Lanes : buffer[l] = <<>>
                    /\ first_r /\ ~w_cnt_valid /\ mem = [aws |-> 0, ws |-> 0]
  BY DEF CleanWhenIdle
<1>1. CtlInv
  BY DEF DataInv
<1> QED BY <1>1, NoBurstLeft, NoByteLeft

(* When every transfer is answered, no byte, request, response or beat     *)
(* count is left for a later one to meet (CleanWhenIdle), for transfers to *)
(* memory.                                                                 *)
THEOREM CleanIdle == ASSUME ToMemory PROVE Spec => []CleanWhenIdle
<1>1. Init => DataInv /\ Owing
  BY DataInit, OwingInit
<1>2. ASSUME DataInv, Owing, [Next]_vars PROVE DataInv' /\ Owing'
  BY <1>2, DataStep, OwingStep DEF DataInv
<1> QED BY <1>1, <1>2, IdleIsClean, PTL DEF Spec

----------------------------------------------------------------------------
(* Two queues of which the one falls behind. *)

(* Entry j of q stands with entry j of the newest of f; D has the entries  *)
(* of f that q has no more.                                                *)
Behind(q, f, R, D) ==
    /\ Len(q) <= Len(f)
    /\ \A j \in 1..Len(f)-Len(q) : f[j] \in D
    /\ \A j \in 1..Len(q) : <<q[j], f[Len(f) - Len(q) + j]>> \in R

(* Both gain an entry or none does, and the one behind loses no entry that *)
(* the other still has.                                                    *)
LEMMA BehindStep ==
    ASSUME NEW S, NEW T, NEW q \in Seq(S), NEW f \in Seq(T),
           NEW popq \in BOOLEAN, popq => q # <<>>,
           NEW popf \in BOOLEAN, popf => f # <<>> /\ (popq \/ Len(f) - Len(q) >= 1),
           NEW x, x = <<>> \/ \E a \in S : x = <<a>>,
           NEW y, y = <<>> \/ \E a \in T : y = <<a>>,
           x = <<>> <=> y = <<>>,
           NEW R, NEW R2, R \subseteq R2, NEW D, NEW D2, D \subseteq D2,
           Behind(q, f, R, D),
           x # <<>> => <<Head(x), Head(y)>> \in R2,
           popq => \A t \in T : <<q[1], t>> \in R => t \in D2
    PROVE  Behind(Rest(q, popq) \o x, Rest(f, popf) \o y, R2, D2)
<1> DEFINE q2 == Rest(q, popq) \o x
           f2 == Rest(f, popf) \o y
           Q == Len(q)
           F == Len(f)
           Q2 == Len(q2)
           F2 == Len(f2)
           hx == Head(x)
           hy == Head(y)
<1>1. Advanced(q, q2, popq, x)
  BY QueueMoves
<1>2. Advanced(f, f2, popf, y)
  <2>1. popf => f # <<>>
    OBVIOUS
  <2> QED BY <2>1, QueueMoves
<1> HIDE DEF q2, f2
<1>3. PICK e \in 0..1, n \in 0..1 :
        /\ (e = 1 <=> popq) /\ (n = 1 <=> x # <<>>)
        /\ Q \in Nat /\ Q >= e
        /\ Q2 = Q - e + n
        /\ \A k \in 1..Q - e : q2[k] = q[k + e]
        /\ n = 1 => q2[Q - e + 1] = hx
  BY <1>1 DEF Advanced
<1>4. PICK d \in 0..1, m \in 0..1 :
        /\ (d = 1 <=> popf) /\ (m = 1 <=> y # <<>>)
        /\ F \in Nat /\ F >= d
        /\ F2 = F - d + m
        /\ \A k \in 1..F - d : f2[k] = f[k + d]
        /\ m = 1 => f2[F - d + 1] = hy
  BY <1>2 DEF Advanced
<1>5. /\ Q <= F /\ \A j \in 1..F - Q : f[j] \in D
      /\ \A j \in 1..Q : <<q[j], f[F - Q + j]>> \in R
  BY DEF Behind
<1>6. \A k \in 1..F : f[k] \in T
  BY ElementOfSeq
<1>7. (popf => popq \/ F - Q >= 1) /\ (n = 1 => <<hx, hy>> \in R2)
  BY <1>3
<1> HIDE DEF Q, F, Q2, F2, hx, hy
<1>8. m = n
  BY <1>3, <1>4
<1>9. Q2 <= F2 /\ F2 - Q2 = (F - Q) + e - d /\ F2 - Q2 \in Nat
  BY <1>3, <1>4, <1>5, <1>7, <1>8
<1>10. ASSUME NEW j \in 1..F2 - Q2 PROVE f2[j] \in D2
  <2>1. j \in 1..F - d /\ j + d \in 1..F /\ j + d <= F - Q + e
    BY <1>3, <1>4, <1>5, <1>9
  <2>2. f2[j] = f[j + d]
    BY <1>4, <2>1
  <2>3. CASE j + d <= F - Q
    <3>1. j + d \in 1..F - Q
      BY <1>4, <2>1, <2>3
    <3> QED BY <1>5, <2>2, <3>1
  <2>4. CASE ~(j + d <= F - Q)
    <3>1. e = 1 /\ j + d = F - Q + 1 /\ 1 \in 1..Q
      BY <1>3, <1>4, <2>1, <2>4
    <3>2. <<q[1], f[j + d]>> \in R
      BY <1>5, <3>1
    <3>3. f[j + d] \in T
      BY <1>6, <2>1
    <3> QED BY <1>3, <2>2, <3>1, <3>2, <3>3
  <2> QED BY <2>3, <2>4
<1>11. ASSUME NEW j \in 1..Q2 PROVE <<q2[j], f2[F2 - Q2 + j]>> \in R2
  <2> DEFINE z == F2 - Q2 + j
  <2>1. z = (F - d) - (Q - e) + j
    BY <1>3, <1>4, <1>9
  <2> HIDE DEF z
  <2>2. CASE j <= Q - e
    <3>1. j \in 1..Q - e /\ z \in 1..F - d /\ j + e \in 1..Q /\ z + d = F - Q + (j + e)
      BY <1>3, <1>4, <1>5, <1>9, <2>1, <2>2
    <3>2. q2[j] = q[j + e] /\ f2[z] = f[z + d]
      BY <1>3, <1>4, <3>1
    <3>3. <<q[j + e], f[z + d]>> \in R
      BY <1>5, <3>1
    <3> QED BY <3>2, <3>3 DEF z
  <2>3. CASE ~(j <= Q - e)
    <3>1. n = 1 /\ m = 1 /\ j = Q - e + 1 /\ z = F - d + 1
      BY <1>3, <1>4, <1>8, <2>1, <2>3
    <3> QED BY <1>3, <1>4, <1>7, <3>1 DEF z
  <2> QED BY <2>2, <2>3
<1> QED BY <1>9, <1>10, <1>11 DEF Behind, q2, f2, Q2, F2

----------------------------------------------------------------------------
(* What a cycle writes. *)

(* The position after the request, and that after transfer id.             *)
After(start, q) == First(start, q) + q.bytes
EndOf(start, id) == IF id = issued THEN start[issued] + job.length ELSE start[id + 1]

(* The bytes of a beat are those from where the writes are to where the    *)
(* beat takes them, all of the oldest request.                             *)
LEMMA WriteSpan ==
    ASSUME CtlInv, Buffers, Unflushed, NEW i \in Inputs,
           NEW start \in Starts, NEW lane \in LaneMaps, NEW byte \in ByteMaps,
           Data(start, lane, byte)
    PROVE  /\ At(start) \in Nat /\ Reached(i, start) \in Nat /\ At(start) <= Reached(i, start)
           /\ Reached(i, start) <= start[issued] + job.length
           /\ WriteHappens(i) =>
                 /\ WReq \in WriteType /\ w_dp # <<>>
                 /\ Reached(i, start) = At(start) + Cardinality(MaskOut)
                 /\ Cardinality(MaskOut) \in 1..StrbWidth
                 /\ start[WReq.id] <= At(start)
                 /\ Reached(i, start) <= After(start, WReq)
           /\ Forked(i) = {"rsp", "port"} => Reached(i, start) = After(start, WReq)
<1>1. Typed /\ Forking /\ LegP!IInv /\ issued \in Nat
  BY DEF CtlInv, Typed
<1>2. PICK top \in Nat, rend \in Nat, wend \in Nat, w \in Nat, r \in Nat :
        /\ top = start[issued] + job.length /\ wend = start[issued] + job.written
        /\ Layout(start, lane, byte, top, rend, wend, w, r)
  BY Zenon DEF Data
<1>3. /\ WriteQueue(start, lane, byte, top, wend) /\ Numbered(start, byte, top)
      /\ w = WriteAt(start, wend) /\ Held(start, lane, byte, w, r) /\ r <= top
  BY <1>2, Zenon DEF Layout, InFlight
<1>4. At(start) = w
  BY <1>2, <1>3 DEF At
<1>5. w <= r
  BY <1>3 DEF Held, HeldIn
<1> DEFINE q == WReq
           k == BeatsWritten
           F == First(start, q)
           lo == BeatLo(q.offset, k)
           hi == BeatHi(q.offset, q.tailer, q.num_beats + 1, k)
           n == q.bytes
           W2 == NextWrite(start)
           m == StrbWidth
           K == k * StrbWidth
           o == q.offset
           c == Cardinality(MaskOut)
<1>6. ASSUME w_dp # <<>>
      PROVE  /\ q \in WriteType /\ WriteFits(start, lane, byte, top, q)
             /\ F \in Nat /\ n \in Nat /\ start[q.id] <= F
  <2>1. q \in WriteType
    BY <1>1, <1>6, OldestRequests
  <2>2. q \in Writes(start, lane, byte, top)
    BY <1>3, <1>6, HeadTailProperties DEF WriteQueue, WReq
  <2>3. WriteFits(start, lane, byte, top, q)
    BY <2>2, Zenon DEF Writes
  <2>4. q.id \in Nat /\ q.from \in Nat /\ n \in Nat
    BY <2>1 DEF WriteType
  <2>5. F \in Nat
    BY <2>4, FirstIsNat
  <2> DEFINE a == start[q.id]
             f == q.from
  <2>6. a \in Nat /\ f \in Nat /\ F = a + f
    BY <2>4 DEF Starts, First
  <2> HIDE DEF a, f, F
  <2>7. a <= F
    BY <2>6
  <2> QED BY <2>1, <2>3, <2>4, <2>5, <2>7 DEF a
<1>7. ASSUME WriteHappens(i)
      PROVE  /\ w_dp # <<>> /\ "port" \notin forked /\ ReadyToWrite
             /\ w = F + lo /\ W2 = F + hi /\ Reached(i, start) = W2
             /\ lo \in Nat /\ hi \in Nat /\ lo < hi /\ hi <= n
             /\ (LastW => hi = n) /\ c = hi - lo /\ c \in 1..m /\ W2 <= r
  <2>1. ReadyToWrite
    BY <1>7 DEF WriteHappens
  <2>2. /\ q \in WriteType /\ k \in 0..q.num_beats /\ (k = 0 <=> ~w_cnt_valid)
        /\ MaskOut = LanesOut(q, k) /\ w_dp # <<>> /\ "port" \notin forked
        /\ LastW <=> k = q.num_beats
    BY <1>1, <2>1, BeatOfWrite
  <2>3. WriteFits(start, lane, byte, top, q)
    BY <1>6, <2>2
  <2>4. BeatCarries(start, lane, byte, q, k)
    <3> HIDE DEF k, q
    <3> QED BY <2>2, <2>3, WriteBeat
  <2>5. /\ lo \in Nat /\ hi \in Nat /\ lo < hi /\ hi <= n
        /\ (k = q.num_beats => hi = n)
        /\ \A l \in LanesOut(q, k) : \E x \in lo..hi-1 : K + l - o = x
        /\ \A x \in lo..hi-1 : \E l \in LanesOut(q, k) : K + l - o = x
    <3> HIDE DEF k, q
    <3> QED BY <2>4, Zenon DEF BeatCarries
  <2>6. w = F + lo
    <3>1. w = First(start, WReq) + (IF ~w_cnt_valid THEN 0 ELSE StrbWidth * BeatsWritten - WReq.offset)
      BY <1>3, <2>2 DEF WriteAt
    <3> QED BY <2>2, <3>1 DEF BeatLo
  <2>7. W2 = F + hi /\ Reached(i, start) = W2
    BY <1>7 DEF NextWrite, Reached
  <2>8. W2 <= r
    BY <1>1, <1>2, <1>3, <2>1, OfferedBytes
  <2>9. m \in Nat \ {0} /\ Lanes = 0..m-1 /\ o \in Lanes /\ LanesOut(q, k) \subseteq Lanes
    BY <2>2, Sizes DEF Lanes, WriteType, LanesOut, BeatLanes, FirstMask, LastMask
  <2>10. K \in Int
    <3>1. q.num_beats \in Nat
      BY <2>2 DEF WriteType
    <3>2. k \in Nat
      <4> DEFINE nb == q.num_beats
      <4> HIDE DEF k, nb
      <4> QED BY <2>2, <3>1 DEF nb
    <3> HIDE DEF k
    <3> QED BY <2>9, <3>2
  <2> DEFINE M == MaskOut
             a == lo + o - K
             b == hi + o - K
  <2>11. /\ M \subseteq 0..m-1 /\ o \in Int
         /\ \A l \in M : \E x \in lo..hi-1 : K + l - o = x
         /\ \A x \in lo..hi-1 : \E l \in M : K + l - o = x
    <3> HIDE DEF K, lo, hi
    <3> QED BY <2>2, <2>5, <2>9
  <2> HIDE DEF M, K, lo, hi, o, m, n, k, q, F, c
  <2>12. a \in Int /\ b - 1 \in Int /\ a <= b - 1 /\ (b - 1) - a + 1 = hi - lo
    BY <2>5, <2>10, <2>11
  <2>13. M = a..b-1
    <3>1. ASSUME NEW l \in M PROVE l \in a..b-1
      <4>1. PICK x \in lo..hi-1 : K + l - o = x
        BY <2>11
      <4>2. l \in Int
        BY <2>9, <2>11
      <4> QED BY <2>5, <2>10, <2>11, <4>1, <4>2
    <3>2. ASSUME NEW y \in a..b-1 PROVE y \in M
      <4>1. K + y - o \in lo..hi-1 /\ y \in Int
        BY <2>5, <2>10, <2>11, <2>12
      <4>2. PICK l \in M : K + l - o = K + y - o
        BY <2>11, <4>1
      <4>3. l \in Int
        BY <2>9, <2>11
      <4>4. l = y
        BY <2>10, <2>11, <4>1, <4>2, <4>3
      <4> QED BY <4>4
    <3> QED BY <3>1, <3>2
  <2>14. Cardinality(M) = hi - lo
    <3> DEFINE z == b - 1
    <3> HIDE DEF a, z
    <3>1. a \in Int /\ z \in Int /\ a <= z
      BY <2>12 DEF z
    <3>2. Cardinality(a..z) = IF a > z THEN 0 ELSE z - a + 1
      BY <3>1, FS_Interval
    <3>3. Cardinality(a..z) = z - a + 1
      BY <3>1, <3>2
    <3> QED BY <2>12, <2>13, <3>3 DEF z
  <2>15. c \in 1..m
    <3>1. a \in 0..m-1 /\ b - 1 \in 0..m-1
      <4>1. a \in M /\ b - 1 \in M
        BY <2>12, <2>13
      <4> QED BY <2>11, <4>1
    <3> HIDE DEF a, b
    <3>2. hi - lo \in 1..m
      BY <2>5, <2>9, <2>12, <3>1
    <3> QED BY <2>14, <3>2 DEF c, M
  <2>16. c = hi - lo
    BY <2>14 DEF c, M
  <2>17. LastW => hi = n
    BY <2>2, <2>5 DEF k, q
  <2> QED BY <2>1, <2>2, <2>5, <2>6, <2>7, <2>8, <2>15, <2>16, <2>17
<1>8. After(start, WReq) = F + n
  BY DEF After
<1>9. ~WriteHappens(i) => Reached(i, start) = w
  BY <1>4 DEF Reached
<1>10. ASSUME Forked(i) = {"rsp", "port"} PROVE Reached(i, start) = F + n
  <2>1. w_dp # <<>> /\ ("port" \in forked \/ (WriteHappens(i) /\ LastW))
    <3>1. "port" \in Forked(i)
      BY <1>10
    <3> QED BY <1>10, <3>1, ForkStep
  <2>2. CASE "port" \in forked
    <3>1. ~WriteHappens(i)
      BY <2>2, ForkStep
    <3>2. w = F + n
      BY <1>3, <2>1, <2>2 DEF WriteAt
    <3> QED BY <1>9, <3>1, <3>2
  <2>3. CASE WriteHappens(i) /\ LastW
    BY <1>7, <2>3
  <2> QED BY <2>1, <2>2, <2>3
<1> HIDE DEF q, k, F, lo, hi, n, W2, m, K, o, c
<1>11. ASSUME WriteHappens(i)
       PROVE  /\ q \in WriteType /\ w_dp # <<>> /\ W2 \in Nat /\ w <= W2 /\ W2 = w + c
              /\ c \in 1..m /\ start[q.id] <= w /\ W2 <= F + n /\ W2 <= top
              /\ Reached(i, start) = W2
  <2>1. /\ F \in Nat /\ n \in Nat /\ start[q.id] <= F /\ q \in WriteType
    BY <1>6, <1>7, <1>11
  <2> DEFINE a == start[q.id]
  <2>2. a \in Nat
    <3>1. q.id \in Nat
      BY <2>1 DEF WriteType
    <3> QED BY <3>1 DEF Starts
  <2> HIDE DEF a
  <2>3. /\ W2 \in Nat /\ w <= W2 /\ W2 = w + c /\ W2 <= F + n /\ W2 <= top
    BY <1>3, <1>7, <1>11, <2>1
  <2>4. a <= w
    BY <1>7, <1>11, <2>1, <2>2 DEF a
  <2> QED BY <1>7, <1>11, <2>1, <2>3, <2>4 DEF a
<1>12. CASE WriteHappens(i)
  BY <1>2, <1>4, <1>8, <1>10, <1>11, <1>12 DEF q, c, m
<1>13. CASE ~WriteHappens(i)
  <2>1. w <= top
    BY <1>3, <1>5
  <2> QED BY <1>2, <1>4, <1>8, <1>9, <1>10, <1>13, <2>1 DEF q
<1> QED BY <1>12, <1>13

----------------------------------------------------------------------------
(* What the last flags stand for. *)

(* A flag waits for the burst of a transfer and is set if that is the last. *)
Marks == [id : Nat, flag : BOOLEAN]
MarkId == [t \in Marks |-> t.id]
MarkNext == [t \in Marks |-> t.id + One(t.flag)]

SameFlag == {x \in BOOLEAN \X Marks : x[2].flag = x[1]}

(* The flag of a burst not yet written: it is set if the transfer ends     *)
(* where the burst does.                                                   *)
EndsAt(start, q, t) ==
    /\ q.id <= issued /\ t.id = q.id
    /\ After(start, q) <= EndOf(start, q.id)
    /\ t.flag <=> After(start, q) = EndOf(start, q.id)

Ends(start) == {x \in WriteType \X Marks : EndsAt(start, x[1], x[2])}

(* That of a burst written: if it is set, all of the transfer is written.  *)
IsOver(start, a, t) == t.flag => t.id <= issued /\ EndOf(start, t.id) <= a

Over(start, a) == {t \in Marks : IsOver(start, a, t)}

(* The transfer of which the next burst leaves the legalizer.              *)
Coming == issued + One(~w_tf.valid)

Marked(start, tr) ==
    /\ tr \in Seq(Marks) /\ Len(tr) = Len(w_last)
    /\ Behind(w_last, tr, SameFlag, Marks)
    /\ Behind(w_dp, tr, Ends(start), Over(start, At(start)))
    /\ Chain(tr, MarkId, MarkNext, Coming)
    /\ Begin(tr, MarkId, Coming) = issued - Len(pending) + 1

(* What was known of the transfers taken in is still true.                 *)
Kept(start, start2) ==
    /\ issued' \in Nat /\ issued <= issued'
    /\ \A id \in Nat : id <= issued =>
           start2[id] = start[id] /\ EndOf(start2, id)' = EndOf(start, id)

LEMMA MarksKept ==
    ASSUME NEW start, NEW start2, Kept(start, start2), issued \in Nat,
           NEW a \in Nat, NEW b \in Nat, a <= b,
           \A id \in Nat : id <= issued => EndOf(start, id) \in Nat
    PROVE  /\ \A q \in WriteType, t \in Marks :
                  EndsAt(start, q, t) => EndsAt(start2, q, t)' /\ After(start2, q) = After(start, q)
           /\ Ends(start) \subseteq Ends(start2)'
           /\ Over(start, a) \subseteq Over(start2, b)'
<1>1. issued' \in Nat /\ issued <= issued'
  BY DEF Kept
<1>2. ASSUME NEW id \in Nat, id <= issued
      PROVE  /\ start2[id] = start[id] /\ EndOf(start2, id)' = EndOf(start, id)
             /\ id <= issued' /\ EndOf(start, id) \in Nat
  BY <1>1, <1>2 DEF Kept
<1>3. ASSUME NEW q \in WriteType, NEW t \in Marks, EndsAt(start, q, t)
      PROVE  EndsAt(start2, q, t)' /\ After(start2, q) = After(start, q)
  <2>1. q.id \in Nat /\ q.id <= issued
    BY <1>3 DEF WriteType, EndsAt
  <2>2. /\ start2[q.id] = start[q.id] /\ EndOf(start2, q.id)' = EndOf(start, q.id)
        /\ q.id <= issued'
    BY <1>2, <2>1
  <2>3. After(start2, q) = After(start, q)
    BY <2>2 DEF After, First
  <2>4. After(start2, q)' = After(start2, q)
    BY DEF After, First
  <2>5. /\ t.id = q.id /\ After(start, q) <= EndOf(start, q.id)
        /\ t.flag <=> After(start, q) = EndOf(start, q.id)
    BY <1>3 DEF EndsAt
  <2> QED BY <2>2, <2>3, <2>4, <2>5 DEF EndsAt
<1>4. Ends(start) \subseteq Ends(start2)'
  BY <1>3, Zenon DEF Ends
<1>5. ASSUME NEW t \in Marks, IsOver(start, a, t) PROVE IsOver(start2, b, t)'
  <2> SUFFICES ASSUME t.flag PROVE t.id <= issued' /\ EndOf(start2, t.id)' <= b
    BY DEF IsOver
  <2>1. t.id \in Nat /\ t.id <= issued /\ EndOf(start, t.id) <= a
    BY <1>5 DEF Marks, IsOver
  <2>2. t.id <= issued' /\ EndOf(start2, t.id)' = EndOf(start, t.id) /\ EndOf(start, t.id) \in Nat
    BY <1>2, <2>1
  <2> DEFINE e == EndOf(start, t.id)
  <2>3. e \in Nat /\ e <= a
    BY <2>1, <2>2
  <2> HIDE DEF e
  <2>4. e <= b
    BY <2>3
  <2> QED BY <2>2, <2>4 DEF e
<1>6. Over(start, a) \subseteq Over(start2, b)'
  BY <1>5, Zenon DEF Over
<1> QED BY <1>3, <1>4, <1>6

(* A burst that leaves the legalizer ends its transfer if it is the last.  *)
NewMark == [id |-> issued, flag |-> Leg!WDone]

LEMMA NewBurst ==
    ASSUME CtlInv, Unflushed, WEmits, NEW start \in Starts
    PROVE  EndsAt(start, WriteRequest, NewMark) /\ NewMark \in Marks
<1>1. LegP!IInv /\ issued \in Nat /\ w_tf.valid
  BY EmitsIntoRoom DEF CtlInv, Typed
<1> DEFINE s == start[issued]
           g == job.written
           n == job.length
           l == w_tf.length
           W == LegP!WNumBytesPossible
           b == Leg!WNumBytes
<1>2. s \in Nat /\ g \in Nat /\ n \in Nat /\ l \in Nat
  <2>1. s \in Nat
    BY <1>1 DEF Starts
  <2>2. l \in Nat
    BY <1>1 DEF LegP!IInv, LegP!TypeOK, LegP!HalfType
  <2> QED BY <1>1, <2>1, <2>2, BurstSizes
<1>3. W \in Nat
  <2>1. LegP!TypeOK
    BY <1>1 DEF LegP!IInv
  <2> QED BY <2>1, LegP!PossiblePositive, LegalizerConstants
<1>4. b = (IF l < W THEN l ELSE W) /\ (Leg!WDone <=> l <= W)
  BY SameLegalizer DEF LegP!WNumBytes, LegP!NumBytes, LegP!Smaller, LegP!WDone, LegP!HalfDone
<1>5. g + l = n
  <2>1. ~job.killed
    BY <1>1 DEF LegP!IInv, LegP!KilledIdle
  <2> QED BY <1>1, <2>1 DEF LegP!IInv, LegP!BurstsTile, LegP!WriteTiles
<1>6. /\ WriteRequest.id = issued /\ WriteRequest.from = g /\ WriteRequest.bytes = b
  BY DEF WriteRequest
<1>7. After(start, WriteRequest) = (s + g) + b
  BY <1>6 DEF After, First
<1>8. EndOf(start, issued) = s + n
  BY DEF EndOf
<1>9. Leg!WDone \in BOOLEAN
  BY SameLegalizer DEF LegP!WDone, LegP!HalfDone
<1> HIDE DEF s, g, n, l, W, b
<1>10. (s + g) + b <= s + n /\ (l <= W <=> (s + g) + b = s + n)
  BY <1>2, <1>3, <1>4, <1>5
<1>11. NewMark.id = issued /\ NewMark.flag = Leg!WDone /\ NewMark \in Marks
  BY <1>1, <1>9 DEF NewMark, Marks
<1>12. NewMark.flag <=> (s + g) + b = s + n
  BY <1>4, <1>10, <1>11
<1> QED BY <1>1, <1>6, <1>7, <1>8, <1>10, <1>11, <1>12 DEF EndsAt

(* Transfers follow each other with their last bursts.                     *)
LEMMA ComingStep ==
    ASSUME CtlInv, NEW i \in Inputs, Cycle(i)
    PROVE  /\ Coming \in Nat
           /\ WEmits => Coming = issued /\ Coming' = issued + One(Leg!WDone)
           /\ ~WEmits => Coming' = Coming
<1>1. LegP!IInv /\ issued \in Nat
  BY DEF CtlInv, Typed
<1>2. WEmits => w_tf.valid
  BY EmitsIntoRoom
<1>3. Coming \in Nat
  BY <1>1 DEF Coming, One
<1>4. WEmits => Coming = issued
  BY <1>1, <1>2 DEF Coming, One
<1>5. CASE Proceed(i)
  <2>1. issued' = issued /\ (w_tf'.valid <=> w_tf.valid /\ ~(WEmits /\ Leg!WDone))
    BY <1>1, <1>5, WriteHalfStep DEF Proceed
  <2>2. WEmits => Coming' = issued + One(Leg!WDone)
    <3>1. WEmits => (~w_tf'.valid <=> Leg!WDone)
      BY <1>2, <2>1
    <3>2. WEmits => One(~w_tf'.valid) = One(Leg!WDone)
      BY <3>1 DEF One
    <3> QED BY <2>1, <3>2 DEF Coming
  <2>3. ~WEmits => Coming' = Coming
    <3>1. ~WEmits => One(~w_tf'.valid) = One(~w_tf.valid)
      BY <2>1 DEF One
    <3> QED BY <2>1, <3>1 DEF Coming
  <2> QED BY <1>3, <1>4, <2>2, <2>3
<1>6. ASSUME NEW req \in Requests, Accept(i, req)
      PROVE  /\ WEmits => Coming' = issued + One(Leg!WDone)
             /\ ~WEmits => Coming' = Coming
  <2>1. /\ issued' = issued + 1 /\ w_tf'.valid = TRUE
        /\ w_tf.valid => WEmits /\ Leg!WDone
    BY <1>1, <1>6, RefillStep DEF Accept
  <2>2. Coming' = issued + 1
    BY <1>1, <2>1 DEF Coming, One
  <2>3. WEmits => One(Leg!WDone) = 1
    BY <1>2, <2>1 DEF One
  <2>4. ~WEmits => One(~w_tf.valid) = 1
    BY <2>1 DEF One
  <2> QED BY <2>2, <2>3, <2>4 DEF Coming
<1> QED BY <1>3, <1>4, <1>5, <1>6 DEF Cycle

(* The burst answered first is of the transfer answered first, and with    *)
(* its flag set that transfer is written.                                  *)
LEMMA OldestMark ==
    ASSUME CtlInv, Owing, NEW i \in Inputs, NEW start \in Starts, NEW tr, Marked(start, tr)
    PROVE  /\ RspTaken(i) => /\ tr # <<>> /\ tr[1] \in Marks
                             /\ tr[1].id = issued - Len(pending) + 1
                             /\ Len(tr) - Len(w_dp) >= 1
           /\ Answered(i) <=> RspTaken(i) /\ tr[1].flag
           /\ Answered(i) => /\ tr[1].id <= issued
                             /\ EndOf(start, issued - Len(pending) + 1) <= At(start)
<1>1. /\ Len(w_last) \in Nat /\ Len(w_dp) \in Nat
      /\ RspTaken(i) => w_last # <<>> /\ Len(w_last) - Len(w_dp) >= 1
  BY AnswerIsWritten
<1>2. /\ tr \in Seq(Marks) /\ Len(tr) = Len(w_last)
      /\ Behind(w_last, tr, SameFlag, Marks)
      /\ Behind(w_dp, tr, Ends(start), Over(start, At(start)))
      /\ Begin(tr, MarkId, Coming) = issued - Len(pending) + 1
  BY DEF Marked
<1> DEFINE head == Head(w_last)
           t == tr[1]
<1>3. ASSUME RspTaken(i)
      PROVE  /\ tr # <<>> /\ t \in Marks /\ t.flag = head
             /\ t.id = issued - Len(pending) + 1
             /\ t \in Over(start, At(start)) /\ Len(tr) - Len(w_dp) >= 1
  <2>1. 1 \in 1..Len(w_last) /\ 1 \in 1..Len(tr) - Len(w_dp) /\ 1 \in 1..Len(tr)
    BY <1>1, <1>2, <1>3
  <2>2. tr # <<>> /\ t \in Marks
    BY <1>2, <2>1, EmptySeq, ElementOfSeq
  <2>3. t \in Over(start, At(start))
    BY <1>2, <2>1, Zenon DEF Behind
  <2>4. <<w_last[1], t>> \in SameFlag
    <3>1. Len(tr) - Len(w_last) + 1 = 1
      BY <1>1, <1>2
    <3> QED BY <1>2, <2>1, <3>1 DEF Behind
  <2>5. head = w_last[1]
    <3>1. w_last \in Seq(BOOLEAN) /\ w_last # <<>>
      BY <1>1, <1>3 DEF CtlInv, Typed
    <3> QED BY <3>1, HeadTailProperties
  <2>6. t.flag = head
    <3> HIDE DEF t, head
    <3> QED BY <2>4, <2>5, Zenon DEF SameFlag
  <2>7. t.id = issued - Len(pending) + 1
    BY <1>2, <2>2 DEF Begin, MarkId
  <2> QED BY <1>1, <1>2, <1>3, <2>2, <2>3, <2>6, <2>7
<1>4. Answered(i) <=> RspTaken(i) /\ head
  BY DEF Answered, RspTaken, RspReady
<1>5. t \in Over(start, At(start)) /\ t.flag => t.id <= issued /\ EndOf(start, t.id) <= At(start)
  BY DEF Over, IsOver
<1>6. Answered(i) <=> RspTaken(i) /\ t.flag
  <2> HIDE DEF t, head
  <2>1. RspTaken(i) => t.flag = head
    BY <1>3
  <2>2. RspTaken(i) => (t.flag <=> head)
    BY <2>1
  <2> QED BY <1>4, <2>2, Zenon
<1>7. Answered(i) => t.id <= issued /\ EndOf(start, issued - Len(pending) + 1) <= At(start)
  <2> SUFFICES ASSUME Answered(i)
               PROVE  t.id <= issued /\ EndOf(start, issued - Len(pending) + 1) <= At(start)
    OBVIOUS
  <2>1. RspTaken(i) /\ t.flag
    BY <1>6
  <2>2. t \in Over(start, At(start)) /\ t.id = issued - Len(pending) + 1
    BY <1>3, <2>1
  <2> QED BY <1>5, <2>1, <2>2
<1> QED BY <1>3, <1>6, <1>7

(* Every cycle keeps the flags in step with the bursts and the transfers.  *)
LEMMA MarkedStep ==
    ASSUME CtlInv, Owing, Buffers, Unflushed, NEW i \in Inputs, Cycle(i),
           NEW start \in Starts, NEW lane \in LaneMaps, NEW byte \in ByteMaps,
           Data(start, lane, byte), NEW tr, Marked(start, tr),
           NEW start2 \in Starts, Kept(start, start2), At(start2)' = Reached(i, start),
           \A id \in Nat : id <= issued => EndOf(start, id) \in Nat,
           Len(pending') = Len(pending) - One(Answered(i)) + (issued' - issued)
    PROVE  \E tr2 : Marked(start2, tr2)'
<1> DEFINE pop == RspTaken(i)
           popd == Forked(i) = {"rsp", "port"}
           push == IF WEmits THEN <<NewMark>> ELSE <<>>
           flag == IF WEmits THEN <<Leg!WDone>> ELSE <<>>
           next == Rest(tr, pop) \o push
<1>0. PICK here \in Nat, there \in Nat :
         /\ here = At(start) /\ there = Reached(i, start) /\ here <= there
         /\ popd => there = After(start, WReq)
  BY WriteSpan
<1>1. WriteSide(i) /\ ResponseSide(i)
  BY DEF Cycle
<1>2. /\ LegP!IInv /\ issued \in Nat /\ issued' \in Nat
      /\ w_dp \in Seq(WriteType) /\ w_last \in Seq(BOOLEAN) /\ pending \in Seq(PendingType)
  BY DEF CtlInv, Typed, Kept
<1>3. /\ tr \in Seq(Marks) /\ Len(tr) = Len(w_last)
      /\ Behind(w_last, tr, SameFlag, Marks)
      /\ Behind(w_dp, tr, Ends(start), Over(start, here))
      /\ Chain(tr, MarkId, MarkNext, Coming)
      /\ Begin(tr, MarkId, Coming) = issued - Len(pending) + 1
  BY <1>0 DEF Marked
<1>4. pop \in BOOLEAN /\ (pop => tr # <<>> /\ w_last # <<>> /\ Len(tr) - Len(w_dp) >= 1)
  BY OldestMark, AnswerIsWritten DEF RspTaken
<1>5. popd \in BOOLEAN /\ (popd => w_dp # <<>>)
  BY ForkStep
<1>6. WEmits => NewMark \in Marks /\ EndsAt(start, WriteRequest, NewMark)
  BY NewBurst
<1>7. push = <<>> \/ \E x \in Marks : push = <<x>>
  BY <1>6
<1>8. here \in Nat /\ there \in Nat /\ here <= there /\ (popd => there = After(start, WReq))
  BY <1>0
<1>9. /\ next \in Seq(Marks) /\ Len(next) = Len(tr) - One(pop) + Len(push)
  <2> HIDE DEF pop, push
  <2>1. pop => tr # <<>>
    BY <1>4
  <2> QED BY <1>3, <1>4, <1>7, <2>1, QueueLength
<1>10. Leg!WDone \in BOOLEAN
  BY SameLegalizer DEF LegP!WDone, LegP!HalfDone
<1>11. Behind(w_last', next, SameFlag, Marks) /\ Len(next) = Len(w_last')
  <2> DEFINE Bits == BOOLEAN
  <2>1. w_last' = Rest(w_last, pop) \o flag
    BY <1>1 DEF ResponseSide
  <2>2. flag = <<>> \/ \E x \in Bits : flag = <<x>>
    BY <1>10
  <2>3. flag = <<>> <=> push = <<>>
    OBVIOUS
  <2>4. flag # <<>> => <<Head(flag), Head(push)>> \in SameFlag
    <3>1. WEmits => /\ Head(flag) = Leg!WDone /\ Head(push) = NewMark
                    /\ NewMark.flag = Leg!WDone
      BY DEF NewMark
    <3>2. WEmits => <<Leg!WDone, NewMark>> \in BOOLEAN \X Marks
      BY <1>6, <1>10
    <3> DEFINE d == Leg!WDone
    <3>3. WEmits => <<d, NewMark>> \in SameFlag
      <4> HIDE DEF d
      <4> QED BY <3>1, <3>2 DEF SameFlag, d
    <3> QED BY <3>1, <3>3
  <2>5. w_last \in Seq(Bits) /\ (pop => w_last # <<>>) /\ (pop => tr # <<>> /\ (pop \/ Len(tr) - Len(w_last) >= 1))
    BY <1>2, <1>4
  <2>6. Len(flag) = Len(push)
    OBVIOUS
  <2> HIDE DEF pop, push, flag, Bits
  <2>7. Behind(Rest(w_last, pop) \o flag, Rest(tr, pop) \o push, SameFlag, Marks)
    <3>1. \A t \in Marks : <<w_last[1], t>> \in SameFlag => t \in Marks
      OBVIOUS
    <3> QED BY <1>3, <1>4, <1>7, <2>2, <2>3, <2>4, <2>5, <3>1, BehindStep
  <2>8. Len(w_last') = Len(w_last) - One(pop) + Len(flag)
    BY <1>4, <2>1, <2>2, <2>5, QueueLength
  <2> QED BY <1>3, <1>9, <2>1, <2>6, <2>7, <2>8
<1>12. Behind(w_dp', next, Ends(start2)', Over(start2, there)')
  <2> DEFINE R == Ends(start)
             R2 == Ends(start2)'
             D == Over(start, here)
             D2 == Over(start2, there)'
             x == WPush
  <2>1. w_dp' = Rest(w_dp, popd) \o x
    BY <1>1 DEF WriteSide
  <2>2. x = <<>> \/ \E a \in WriteType : x = <<a>>
    BY <1>2, RequestTypes
  <2>3. x = <<>> <=> push = <<>>
    BY DEF WPush
  <2>4. /\ \A q \in WriteType, t \in Marks : EndsAt(start, q, t) => EndsAt(start2, q, t)'
        /\ R \subseteq R2 /\ D \subseteq D2
    BY <1>2, <1>8, MarksKept
  <2>9. Over(start, there) \subseteq D2
    <3>1. there <= there
      BY <1>8
    <3> QED BY <1>2, <1>8, <3>1, MarksKept
  <2>5. x # <<>> => <<Head(x), Head(push)>> \in R2
    <3>1. WEmits => Head(x) = WriteRequest /\ Head(push) = NewMark
      BY DEF WPush
    <3>2. WEmits => WriteRequest \in WriteType
      <4>1. x # <<>> => Head(x) \in WriteType
        <5> HIDE DEF x
        <5> QED BY <2>2
      <4> QED BY <3>1, <4>1 DEF WPush
    <3>3. WEmits => <<WriteRequest, NewMark>> \in R2
      BY <1>6, <2>4, <3>2 DEF Ends
    <3> QED BY <3>1, <3>3 DEF WPush
  <2>6. popd => \A t \in Marks : <<w_dp[1], t>> \in R => t \in D2
    <3> SUFFICES ASSUME popd, NEW t \in Marks, <<w_dp[1], t>> \in R PROVE t \in D2
      OBVIOUS
    <3> DEFINE q == w_dp[1]
    <3>1. WReq = q
      BY <1>2, <1>5, HeadTailProperties DEF WReq
    <3>2. EndsAt(start, q, t)
      BY DEF Ends
    <3>3. t.flag => t.id <= issued /\ EndOf(start, t.id) = there
      BY <1>8, <3>1, <3>2 DEF EndsAt
    <3>4. IsOver(start, there, t)
      BY <1>8, <3>3 DEF IsOver
    <3>5. t \in Over(start, there)
      BY <3>4 DEF Over
    <3> QED BY <2>9, <3>5
  <2>7. /\ pop => tr # <<>> /\ (popd \/ Len(tr) - Len(w_dp) >= 1)
        /\ popd => w_dp # <<>>
    BY <1>4, <1>5
  <2> HIDE DEF pop, popd, push, x, R, R2, D, D2
  <2>8. Behind(Rest(w_dp, popd) \o x, Rest(tr, pop) \o push, R2, D2)
    <3>1. Behind(w_dp, tr, R, D)
      BY <1>3 DEF R, D
    <3>2. R \subseteq R2 /\ D \subseteq D2
      BY <2>4
    <3>3. pop \in BOOLEAN /\ popd \in BOOLEAN /\ w_dp \in Seq(WriteType) /\ tr \in Seq(Marks)
      BY <1>2, <1>3, <1>4, <1>5
    <3> QED BY <1>7, <2>2, <2>3, <2>5, <2>6, <2>7, <3>1, <3>2, <3>3, BehindStep, SMTT(60)
  <2> QED BY <2>1, <2>8 DEF R2, D2
<1>13. /\ Coming \in Nat
       /\ WEmits => Coming = issued /\ Coming' = issued + One(Leg!WDone)
       /\ ~WEmits => Coming' = Coming
  BY ComingStep
<1>14. Linked(tr, next, pop, MarkId, MarkNext, Coming, Coming')
  <2>1. push = <<>> => Coming' = Coming
    BY <1>13
  <2>2. push # <<>> => MarkId[Head(push)] = Coming /\ MarkNext[Head(push)] = Coming'
    <3> SUFFICES ASSUME WEmits PROVE MarkId[NewMark] = Coming /\ MarkNext[NewMark] = Coming'
      OBVIOUS
    <3>1. NewMark \in Marks /\ NewMark.id = issued /\ NewMark.flag = Leg!WDone
      BY <1>6 DEF NewMark
    <3>2. One(NewMark.flag) = One(Leg!WDone)
      BY <3>1
    <3>3. MarkId[NewMark] = NewMark.id /\ MarkNext[NewMark] = NewMark.id + One(NewMark.flag)
      BY <3>1 DEF MarkId, MarkNext
    <3> QED BY <1>13, <3>1, <3>2, <3>3
  <2>3. pop => tr # <<>>
    BY <1>4
  <2> DEFINE F == MarkId
             L == MarkNext
             e == Coming
             e2 == Coming'
  <2>4. /\ Chain(tr, F, L, e) /\ (push = <<>> => e2 = e)
        /\ (push # <<>> => F[Head(push)] = e /\ L[Head(push)] = e2)
    BY <1>3, <2>1, <2>2
  <2> HIDE DEF pop, push, F, L, e, e2
  <2>5. Linked(tr, Rest(tr, pop) \o push, pop, F, L, e, e2)
    BY <1>3, <1>4, <1>7, <2>3, <2>4, ChainStep
  <2> QED BY <2>5 DEF F, L, e, e2
<1>15. Begin(next, MarkId, Coming') = issued' - Len(pending') + 1
  <2> DEFINE N == Len(pending)
             N2 == Len(pending')
             out == One(Answered(i))
             t == tr[1]
             B == Begin(tr, MarkId, Coming)
             B2 == Begin(next, MarkId, Coming')
  <2>1. B2 = IF pop THEN MarkNext[t] ELSE B
    BY <1>14 DEF Linked
  <2>2. pop => t \in Marks /\ t.id = issued - N + 1 /\ (Answered(i) <=> t.flag)
    BY OldestMark
  <2>3. ~pop => ~Answered(i)
    BY DEF Answered
  <2>4. pop => MarkNext[t] = t.id + out
    <3>1. pop => MarkNext[t] = t.id + One(t.flag)
      <4>1. pop => t \in Marks
        BY <2>2
      <4> HIDE DEF t, pop
      <4> QED BY <4>1 DEF MarkNext
    <3>2. pop => One(t.flag) = out
      BY <2>2 DEF One
    <3> QED BY <3>1, <3>2
  <2>5. ~pop => out = 0
    BY <2>3 DEF One
  <2>6. B = issued - N + 1 /\ N2 = N - out + (issued' - issued) /\ N \in Nat /\ out \in 0..1
    <3>1. N \in Nat /\ out \in 0..1
      BY <1>2, LenProperties DEF One
    <3> QED BY <1>3, <3>1
  <2>7. pop => t.id = issued - N + 1
    BY <2>2
  <2>8. issued \in Nat /\ issued' \in Nat
    BY <1>2
  <2> DEFINE j == t.id
             M == MarkNext[t]
  <2>9. (pop => M = j + out /\ j = issued - N + 1) /\ B2 = IF pop THEN M ELSE B
    BY <2>1, <2>4, <2>7
  <2> HIDE DEF N, N2, out, t, B, B2, pop, j, M
  <2>10. B2 = (issued - N + 1) + out
    <3>1. CASE pop
      <4>1. B2 = j + out /\ j = issued - N + 1
        BY <2>9, <3>1
      <4> QED BY <4>1
    <3>2. CASE ~pop
      BY <2>5, <2>6, <2>8, <2>9, <3>2
    <3> QED BY <3>1, <3>2
  <2>11. B2 = issued' - N2 + 1
    <3> DEFINE n == issued
               n2 == issued'
    <3>1. /\ N2 = N - out + (n2 - n) /\ B2 = (n - N + 1) + out
          /\ N \in Nat /\ out \in 0..1 /\ n \in Nat /\ n2 \in Nat
      BY <2>6, <2>8, <2>10
    <3> HIDE DEF n, n2
    <3>2. B2 = n2 - N2 + 1
      BY <3>1
    <3> QED BY <3>2 DEF n2
  <2> QED BY <2>11 DEF B2, N2
<1>16. PICK tr2 \in Seq(Marks) : tr2 = next
  BY <1>9
<1>17. Marked(start2, tr2)'
  <2>1. Chain(next, MarkId, MarkNext, Coming')
    BY <1>14 DEF Linked
  <2> HIDE DEF next
  <2>2. Over(start2, At(start2))' = Over(start2, there)'
    <3>1. At(start2)' = there
      BY <1>0
    <3> QED BY <3>1 DEF Over, IsOver
  <2>3. /\ tr2 \in Seq(Marks) /\ Len(tr2) = Len(w_last')
        /\ Behind(w_last', tr2, SameFlag, Marks)
        /\ Behind(w_dp', tr2, Ends(start2)', Over(start2, At(start2))')
        /\ Chain(tr2, MarkId, MarkNext, Coming')
        /\ Begin(tr2, MarkId, Coming') = issued' - Len(pending') + 1
    BY <1>11, <1>12, <1>15, <1>16, <2>1, <2>2
  <2> QED BY <2>3 DEF Marked, Behind, Chain, Begin
<1> QED BY <1>17

----------------------------------------------------------------------------
(* How much of each transfer is written. *)

(* Of n bytes, those among the first x.                                    *)
Among(x, n) == IF x < 0 THEN 0 ELSE IF x > n THEN n ELSE x

(* Transfer id, of which p tells, has those bytes that are before `a`.     *)
IsCopied(start, p, id, a) ==
    /\ p.id = id /\ p.length > 0 /\ EndOf(start, id) = start[id] + p.length
    /\ p.copied = Among(a - start[id], p.length)

(* The transfers that are not answered are the newest, each up to where    *)
(* the stream is written; those answered are before.                       *)
Copied(start) ==
    /\ Len(pending) <= issued
    /\ \A a, b \in Nat : a < b /\ b <= issued => EndOf(start, a) <= start[b]
    /\ \A id \in Nat : id <= issued - Len(pending) => EndOf(start, id) <= At(start)
    /\ \A k \in 1..Len(pending) : IsCopied(start, pending[k], issued - Len(pending) + k, At(start))

(* The k-th transfer of p is the one that is being written.                *)
Writing(p, k) ==
    /\ p[k].copied # p[k].length
    /\ \A j \in 1..k-1 : p[j].copied = p[j].length

(* The bytes written in a cycle.                                           *)
BytesOut(i) == IF WriteHappens(i) THEN Cardinality(MaskOut) ELSE 0

(* The transfers that stay when those answered in the cycle are gone, and  *)
(* how many are answered by then.                                          *)
Left(i) == Rest(pending, Answered(i))
Old(i) == issued - Len(Left(i))

LEMMA EndIsNat ==
    ASSUME CtlInv, NEW start \in Starts, NEW id \in Nat
    PROVE  EndOf(start, id) \in Nat
<1>1. job.length \in Nat /\ issued \in Nat
  BY BurstSizes DEF CtlInv, Typed
<1> DEFINE a == start[issued]
           n == job.length
<1>2. a \in Nat /\ n \in Nat /\ start[id + 1] \in Nat
  BY <1>1 DEF Starts
<1>3. EndOf(start, id) = IF id = issued THEN a + n ELSE start[id + 1]
  BY DEF EndOf
<1> HIDE DEF a, n
<1>4. a + n \in Nat
  BY <1>2
<1> QED BY <1>2, <1>3, <1>4

(* A transfer from s of n bytes while the stream is written from a to b.   *)
LEMMA AmongMoves ==
    ASSUME NEW s \in Nat, NEW n \in Nat, n > 0, NEW a \in Nat, NEW b \in Nat, a <= b
    PROVE  /\ Among(a - s, n) \in 0..n
           /\ Among(a - s, n) = n <=> s + n <= a
           /\ s <= a /\ b <= s + n => /\ Among(b - s, n) = Among(a - s, n) + (b - a)
                                      /\ b - a <= n - Among(a - s, n)
           /\ s + n <= a \/ b <= s => Among(b - s, n) = Among(a - s, n)
BY DEF Among

(* The bytes of a cycle are those of the transfer being written, and the   *)
(* transfer answered is written.                                           *)
LEMMA CopiedStep ==
    ASSUME CtlInv, Owing, Buffers, Unflushed, NEW i \in Inputs,
           NEW start \in Starts, NEW lane \in LaneMaps, NEW byte \in ByteMaps,
           Data(start, lane, byte), NEW tr, Marked(start, tr), Copied(start)
    PROVE  /\ Left(i) \in Seq(PendingType) /\ Len(Left(i)) = Len(pending) - One(Answered(i))
           /\ Progress(i) \in Seq(PendingType) /\ Len(Progress(i)) = Len(Left(i))
           /\ Old(i) \in Nat /\ BytesOut(i) \in 0..StrbWidth
           /\ Answered(i) => pending # <<>> /\ pending[1].copied = pending[1].length
           /\ \A id \in Nat : id <= Old(i) => EndOf(start, id) <= Reached(i, start)
           /\ \A k \in 1..Len(Left(i)) : IsCopied(start, Progress(i)[k], Old(i) + k, Reached(i, start))
           /\ BytesOut(i) > 0 => \E k \in 1..Len(Left(i)) :
                                  Writing(Left(i), k) /\ BytesOut(i) <= Left(i)[k].length - Left(i)[k].copied
           /\ \A k \in 1..Len(Left(i)) :
                 /\ Progress(i)[k].length = Left(i)[k].length
                 /\ Progress(i)[k].copied = Left(i)[k].copied + (IF Writing(Left(i), k) THEN BytesOut(i) ELSE 0)
<1> DEFINE left == Left(i)
           old == Old(i)
           N == Len(pending)
           L == Len(left)
           out == One(Answered(i))
           P == Progress(i)
           c == BytesOut(i)
           wh == WriteHappens(i)
           h == WReq.id
<1>1. /\ issued \in Nat /\ pending \in Seq(PendingType) /\ w_dp \in Seq(WriteType)
  BY DEF CtlInv, Typed
<1>2. PICK a \in Nat, b \in Nat : a = At(start) /\ b = Reached(i, start) /\ a <= b
  BY WriteSpan
<1>3. /\ N <= issued
      /\ \A x, y \in Nat : x < y /\ y <= issued => EndOf(start, x) <= start[y]
      /\ \A id \in Nat : id <= issued - N => EndOf(start, id) <= a
      /\ \A k \in 1..N : IsCopied(start, pending[k], issued - N + k, a)
  BY <1>2 DEF Copied
<1>4. N \in Nat /\ (pending = <<>> <=> N = 0) /\ out \in 0..1 /\ (Answered(i) <=> out = 1)
  BY <1>1, LenProperties, EmptySeq DEF One
<1>5. Answered(i) => /\ issued - N + 1 <= issued /\ EndOf(start, issued - N + 1) <= a
  <2>1. Answered(i) => RspTaken(i) /\ tr[1].id <= issued /\ EndOf(start, issued - N + 1) <= a
    BY <1>2, OldestMark
  <2>2. RspTaken(i) => tr[1].id = issued - N + 1
    BY OldestMark
  <2> DEFINE j == tr[1].id
  <2> HIDE DEF j, N
  <2> QED BY <2>1, <2>2 DEF j
<1>6. Answered(i) => pending # <<>>
  <2> HIDE DEF N, out
  <2> QED BY <1>1, <1>4, <1>5
<1>7. /\ left \in Seq(PendingType) /\ L = N - out
      /\ \A k \in 1..L : left[k] = pending[k + out]
  <2>1. CASE Answered(i)
    <3>1. pending # <<>> /\ left = Tail(pending) /\ out = 1
      BY <1>4, <1>6, <2>1 DEF Rest, Left
    <3> QED BY <1>1, <3>1, HeadTailProperties
  <2>2. CASE ~Answered(i)
    <3>1. left = pending /\ out = 0
      BY <1>4, <2>2 DEF Rest, Left
    <3> QED BY <1>1, <1>4, <3>1
  <2> QED BY <2>1, <2>2
<1>8. P \in Seq(PendingType) /\ Len(P) = L
  BY <1>6, <1>7, ProgressTyped
<1>9. old \in Nat /\ L \in Nat /\ old = issued - N + out /\ issued = old + L /\ L <= N
  <2> HIDE DEF N, L, out
  <2> QED BY <1>1, <1>3, <1>4, <1>5, <1>7 DEF L, Old
<1> DEFINE n0 == issued
<1>23. /\ n0 \in Nat /\ N \in Nat /\ L \in Nat /\ old \in Nat /\ out \in 0..1
       /\ old = n0 - N + out /\ n0 = old + L
  BY <1>1, <1>4, <1>9
<1> HIDE DEF n0
<1>10. c \in 0..StrbWidth /\ (wh => b = a + c /\ c > 0) /\ (~wh => c = 0 /\ b = a)
  <2>1. CASE wh
    <3>1. Cardinality(MaskOut) \in 1..StrbWidth /\ b = a + Cardinality(MaskOut)
      BY <1>2, <2>1, WriteSpan
    <3>2. c = Cardinality(MaskOut)
      BY <2>1 DEF BytesOut
    <3> DEFINE m == StrbWidth
    <3> HIDE DEF c, m
    <3> QED BY <2>1, <3>1, <3>2 DEF m
  <2>2. CASE ~wh
    <3>1. b = a
      BY <1>2, <2>2 DEF Reached
    <3>2. c = 0 /\ StrbWidth \in Nat \ {0}
      BY <2>2, Sizes DEF BytesOut
    <3> HIDE DEF c
    <3> QED BY <2>2, <3>1, <3>2
  <2> QED BY <2>1, <2>2
<1>11. ASSUME NEW k \in 1..L
       PROVE  /\ old + k \in Nat /\ old + k <= issued
              /\ left[k] \in PendingType /\ IsCopied(start, left[k], old + k, a)
  <2> HIDE DEF N, out, L
  <2>1. k + out \in 1..N /\ issued - N + (k + out) = old + k
        /\ old + k \in Nat /\ old + k <= issued
    <3>1. k + out \in 1..N /\ n0 - N + (k + out) = old + k /\ old + k \in Nat /\ old + k <= n0
      BY <1>23
    <3> QED BY <3>1 DEF n0
  <2>2. left[k] = pending[k + out]
    BY <1>7
  <2>3. left[k] \in PendingType
    BY <1>7, ElementOfSeq DEF L
  <2>4. IsCopied(start, pending[k + out], issued - N + (k + out), a)
    BY <1>3, <2>1
  <2> QED BY <2>1, <2>2, <2>3, <2>4
<1>12. ASSUME NEW k \in 1..L
       PROVE  P[k] = IF wh /\ left[k].id = h
                     THEN [left[k] EXCEPT !.copied = @ + c] ELSE left[k]
  <2>1. DOMAIN left = 1..L
    BY <1>7, LenProperties
  <2>2. k \in DOMAIN Rest(pending, Answered(i))
    BY <2>1 DEF Left
  <2> QED BY <2>2 DEF Progress, BytesOut, Left
<1>13. ASSUME NEW id \in Nat, id <= old PROVE EndOf(start, id) <= a
  <2> HIDE DEF N, out, L
  <2>1. CASE id <= issued - N
    BY <1>3, <2>1
  <2>2. CASE ~(id <= issued - N)
    <3>1. out = 1 /\ id = issued - N + 1
      BY <1>1, <1>4, <1>9, <1>13, <2>2
    <3>2. Answered(i)
      BY <1>4, <3>1
    <3> QED BY <1>5, <3>1, <3>2
  <2> QED BY <2>1, <2>2
<1>14. \A id \in Nat : EndOf(start, id) \in Nat /\ start[id] \in Nat
  BY EndIsNat DEF Starts
<1>15. \A id \in Nat : id <= old => EndOf(start, id) <= b
  <2> SUFFICES ASSUME NEW id \in Nat, id <= old PROVE EndOf(start, id) <= b
    OBVIOUS
  <2> DEFINE e == EndOf(start, id)
  <2>1. e <= a /\ e \in Nat
    BY <1>13, <1>14
  <2> HIDE DEF e
  <2>2. e <= b
    BY <1>2, <2>1
  <2> QED BY <2>2 DEF e
<1>16. Answered(i) => pending[1].copied = pending[1].length
  <2> SUFFICES ASSUME Answered(i) PROVE pending[1].copied = pending[1].length
    OBVIOUS
  <2> DEFINE p == pending[1]
             id == issued - N + 1
  <2>1. 1 \in 1..N /\ id \in Nat
    <3> HIDE DEF N
    <3> QED BY <1>1, <1>3, <1>4, <1>6
  <2>2. IsCopied(start, p, id, a) /\ EndOf(start, id) <= a
    BY <1>3, <1>5, <2>1
  <2>3. p \in PendingType
    BY <1>1, <2>1, ElementOfSeq
  <2> DEFINE s == start[id]
             n == p.length
             x == p.copied
             e == EndOf(start, id)
  <2>4. /\ n > 0 /\ n \in Nat /\ e = s + n /\ s \in Nat /\ x = Among(a - s, n) /\ e <= a
    BY <1>14, <2>1, <2>2, <2>3 DEF IsCopied, PendingType
  <2> HIDE DEF s, n, x, e
  <2>5. Among(a - s, n) = n <=> s + n <= a
    <3>1. a \in Nat /\ s \in Nat /\ n \in Nat /\ n > 0
      BY <1>2, <2>4
    <3> QED BY <3>1 DEF Among
  <2>6. x = n
    BY <2>4, <2>5
  <2> QED BY <2>6 DEF x, n
<1>17. ASSUME wh
       PROVE  /\ h \in Nat /\ h - old \in 1..L /\ start[h] <= a /\ b <= EndOf(start, h)
  <2>1. WReq \in WriteType /\ w_dp # <<>> /\ start[h] <= a /\ b <= After(start, WReq)
    BY <1>2, <1>17, WriteSpan
  <2>2. h \in Nat
    BY <2>1 DEF WriteType
  <2>3. h <= issued /\ After(start, WReq) <= EndOf(start, h)
    <3>1. Behind(w_dp, tr, Ends(start), Over(start, At(start)))
      BY DEF Marked
    <3>2. 1 \in 1..Len(w_dp) /\ WReq = w_dp[1]
      BY <2>1, OldestRequests DEF CtlInv
    <3>3. <<WReq, tr[Len(tr) - Len(w_dp) + 1]>> \in Ends(start)
      BY <3>1, <3>2, Zenon DEF Behind
    <3>4. EndsAt(start, WReq, tr[Len(tr) - Len(w_dp) + 1])
      BY <3>3 DEF Ends
    <3> QED BY <3>4 DEF EndsAt
  <2> DEFINE f == After(start, WReq)
             e == EndOf(start, h)
  <2>4. b <= e
    <3>1. f \in Int
      <4>1. WReq.id \in Nat /\ WReq.from \in Nat /\ WReq.bytes \in Nat
        BY <2>1 DEF WriteType
      <4> DEFINE F == First(start, WReq)
                 n == WReq.bytes
      <4>2. F \in Nat /\ n \in Nat /\ f = F + n
        BY <4>1, FirstIsNat DEF After
      <4> HIDE DEF F, n, f
      <4> QED BY <4>2
    <3>2. e \in Nat /\ b <= f /\ f <= e
      BY <1>14, <2>1, <2>2, <2>3
    <3> HIDE DEF e, f
    <3> QED BY <1>2, <3>1, <3>2
  <2>5. ~(h <= old)
    <3> SUFFICES ASSUME h <= old PROVE FALSE
      OBVIOUS
    <3>1. e <= a /\ e \in Nat
      BY <1>13, <1>14, <2>2
    <3> HIDE DEF e
    <3> QED BY <1>2, <1>10, <1>17, <2>4, <3>1
  <2> HIDE DEF h, L, e
  <2>6. h - old \in 1..L
    BY <1>9, <2>2, <2>3, <2>5
  <2> QED BY <2>1, <2>2, <2>4, <2>6 DEF e
<1>18. ASSUME NEW k \in 1..L
       PROVE  /\ P[k].id = old + k /\ P[k].length = left[k].length
              /\ P[k].copied = left[k].copied + (IF wh /\ k = h - old THEN c ELSE 0)
  <2>1. left[k] \in PendingType /\ left[k].id = old + k /\ old + k \in Nat
    BY <1>11 DEF IsCopied
  <2>2. CASE wh /\ left[k].id = h
    <3>1. P[k] = [left[k] EXCEPT !.copied = @ + c]
      BY <1>12, <2>2
    <3>2. P[k].id = left[k].id /\ P[k].length = left[k].length
          /\ P[k].copied = left[k].copied + c
      <4> HIDE DEF c, P
      <4> QED BY <2>1, <3>1 DEF PendingType
    <3>3. k = h - old
      <4> HIDE DEF h, L
      <4> QED BY <1>9, <2>1, <2>2
    <3> QED BY <2>1, <2>2, <3>2, <3>3
  <2>3. CASE ~(wh /\ left[k].id = h)
    <3>1. P[k] = left[k]
      BY <1>12, <2>3
    <3>2. ~(wh /\ k = h - old)
      <4> SUFFICES ASSUME wh, k = h - old PROVE FALSE
        OBVIOUS
      <4>1. h \in Nat
        BY <1>17
      <4>2. old + k = h
        <5> HIDE DEF h, L
        <5> QED BY <1>9, <4>1
      <4> QED BY <2>1, <2>3, <4>2
    <3>3. left[k].copied \in Nat
      BY <2>1 DEF PendingType
    <3> DEFINE x == left[k].copied
    <3>4. x + 0 = x
      BY <3>3
    <3> QED BY <2>1, <3>1, <3>2, <3>4
  <2> QED BY <2>2, <2>3
<1>19. ASSUME NEW k \in 1..L
       PROVE  /\ IsCopied(start, P[k], old + k, b)
              /\ wh => /\ k < h - old => left[k].copied = left[k].length
                       /\ k = h - old => /\ left[k].copied # left[k].length
                                         /\ c <= left[k].length - left[k].copied
  <2> DEFINE id == old + k
             s == start[id]
             n == left[k].length
             x == left[k].copied
             e == EndOf(start, id)
             z == P[k].copied
  <2>1. /\ id \in Nat /\ id <= issued /\ n > 0 /\ n \in Nat /\ e = s + n /\ s \in Nat
        /\ x = Among(a - s, n)
    BY <1>11, <1>14 DEF IsCopied, PendingType
  <2>2. /\ P[k].id = id /\ P[k].length = n
        /\ z = x + (IF wh /\ k = h - old THEN c ELSE 0)
    BY <1>18
  <2>3. /\ Among(a - s, n) \in 0..n
        /\ Among(a - s, n) = n <=> s + n <= a
        /\ s <= a /\ b <= s + n => /\ Among(b - s, n) = Among(a - s, n) + (b - a)
                                   /\ b - a <= n - Among(a - s, n)
        /\ s + n <= a \/ b <= s => Among(b - s, n) = Among(a - s, n)
    <3>1. s \in Nat /\ n \in Nat /\ n > 0
      BY <2>1
    <3>2. a \in Nat /\ b \in Nat /\ a <= b
      BY <1>2
    <3> HIDE DEF s, n, x, e, z, id
    <3> QED BY <3>1, <3>2 DEF Among
  <2>4. /\ z = Among(b - s, n)
        /\ wh => /\ k < h - old => x = n
                 /\ k = h - old => x # n /\ c <= n - x
    <3>1. CASE ~wh
      <4>1. z = x
        <5> HIDE DEF x, n, s, z
        <5> QED BY <2>1, <2>2, <2>3, <3>1
      <4> QED BY <1>10, <2>1, <3>1, <4>1
    <3>2. CASE wh
      <4>1. h \in Nat /\ h - old \in 1..L /\ start[h] <= a /\ b <= EndOf(start, h)
            /\ b = a + c /\ c > 0
        BY <1>10, <1>17, <3>2
      <4>2. CASE k < h - old
        <5>1. id < h /\ h <= issued
          <6>1. h - old \in 1..L
            BY <4>1
          <6> HIDE DEF h, L, N, out
          <6>2. old + k < h /\ h <= n0
            BY <1>17, <1>23, <3>2, <4>2, <6>1
          <6> QED BY <6>2 DEF n0
        <5>2. e <= start[h]
          BY <1>3, <2>1, <4>1, <5>1
        <5> DEFINE y == start[h]
        <5>3. e <= y /\ y <= a /\ y \in Nat /\ e \in Nat
          BY <1>14, <2>1, <4>1, <5>2
        <5>4. ~(k = h - old)
          <6>1. h - old \in 1..L
            BY <4>1
          <6> HIDE DEF h, L, N, out
          <6> QED BY <1>23, <4>2, <6>1
        <5> HIDE DEF x, n, s, z, e, y
        <5>5. s + n <= a
          BY <1>2, <2>1, <5>3
        <5>6. z = x
          BY <2>1, <2>2, <2>3, <5>4
        <5>7. Among(b - s, n) = Among(a - s, n) /\ Among(a - s, n) = n
          BY <2>3, <5>5
        <5> QED BY <2>1, <4>2, <5>4, <5>6, <5>7
      <4>3. CASE k = h - old
        <5>1. id = h
          <6>1. h \in Nat
            BY <4>1
          <6> HIDE DEF h, L, N, out
          <6>2. old + k = h
            BY <1>23, <4>3, <6>1
          <6> QED BY <6>2
        <5>2. s <= a /\ b <= e
          BY <4>1, <5>1
        <5>3. z = x + c /\ ~(k < h - old)
          <6>1. ~(k < h - old)
            <7>1. h \in Nat
              BY <4>1
            <7> HIDE DEF h, L, N, out
            <7> QED BY <1>23, <4>3, <7>1
          <6> QED BY <2>2, <3>2, <4>3, <6>1
        <5> DEFINE d == c
        <5>4. b = a + d /\ d > 0 /\ d \in Int
          BY <1>10, <4>1
        <5> DEFINE f == Among(a - s, n)
                   g == Among(b - s, n)
        <5>5. /\ n \in Nat /\ s \in Nat /\ e = s + n /\ x = f /\ f \in 0..n
              /\ f = n <=> s + n <= a
              /\ s <= a /\ b <= s + n => g = f + (b - a) /\ b - a <= n - f
              /\ z = x + d
          BY <2>1, <2>3, <5>3
        <5> HIDE DEF x, n, s, z, e, d, f, g
        <5>6. z = g /\ x # n /\ d <= n - x
          <6>1. b - a = d /\ ~(s + n <= a) /\ b <= s + n
            <7>1. a \in Nat /\ s \in Nat /\ n \in Nat /\ e = s + n /\ b <= e
              BY <1>2, <5>2, <5>5
            <7> QED BY <5>4, <7>1
          <6> QED BY <5>2, <5>5, <6>1
        <5> QED BY <5>3, <5>6 DEF d, g
      <4>4. CASE k > h - old
        <5>1. h < id /\ ~(k < h - old) /\ ~(k = h - old)
          <6>1. h \in Nat
            BY <4>1
          <6> HIDE DEF h, L, N, out
          <6>2. h < old + k /\ ~(k < h - old) /\ ~(k = h - old)
            BY <1>23, <4>4, <6>1
          <6> QED BY <6>2
        <5>2. EndOf(start, h) <= s
          BY <1>3, <2>1, <4>1, <5>1
        <5> DEFINE y == EndOf(start, h)
        <5>3. y <= s /\ b <= y /\ y \in Nat
          BY <1>14, <4>1, <5>2
        <5> HIDE DEF x, n, s, z, e, y
        <5>4. b <= s
          BY <1>2, <2>1, <5>3
        <5> QED BY <2>1, <2>2, <2>3, <5>1, <5>4
      <4>5. k < h - old \/ k = h - old \/ k > h - old
        <5> HIDE DEF h, L
        <5> QED BY <1>9, <4>1
      <4> QED BY <4>2, <4>3, <4>4, <4>5
    <3> QED BY <3>1, <3>2
  <2> QED BY <2>1, <2>2, <2>4 DEF IsCopied
<1>20. wh => \A k \in 1..L : Writing(left, k) <=> k = h - old
  <2> SUFFICES ASSUME wh, NEW k \in 1..L PROVE Writing(left, k) <=> k = h - old
    OBVIOUS
  <2> DEFINE kk == h - old
  <2>1. kk \in 1..L
    BY <1>17
  <2>2. \A j \in 1..L : /\ j < kk => left[j].copied = left[j].length
                        /\ j = kk => left[j].copied # left[j].length
    BY <1>19
  <2> HIDE DEF kk, L
  <2>3. CASE k < kk
    <3>1. ~(k = kk) /\ left[k].copied = left[k].length
      BY <1>9, <2>1, <2>2, <2>3
    <3> QED BY <3>1 DEF Writing, kk
  <2>4. CASE k = kk
    <3>1. \A j \in 1..k-1 : j \in 1..L /\ j < kk
      BY <1>9, <2>1, <2>4
    <3> QED BY <2>2, <2>4, <3>1 DEF Writing, kk
  <2>5. CASE k > kk
    <3>1. kk \in 1..k-1 /\ ~(k = kk)
      BY <1>9, <2>1, <2>5
    <3> QED BY <2>1, <2>2, <3>1 DEF Writing, kk
  <2>6. k < kk \/ k = kk \/ k > kk
    BY <1>9, <2>1
  <2> QED BY <2>3, <2>4, <2>5, <2>6
<1>21. c > 0 => \E k \in 1..L : Writing(left, k) /\ c <= left[k].length - left[k].copied
  <2> SUFFICES ASSUME c > 0 PROVE \E k \in 1..L : Writing(left, k) /\ c <= left[k].length - left[k].copied
    OBVIOUS
  <2>1. wh
    <3>1. c \in 0..StrbWidth /\ StrbWidth \in Nat /\ (~wh => c = 0)
      BY <1>10, Sizes
    <3> HIDE DEF c
    <3> QED BY <3>1
  <2> DEFINE kk == h - old
  <2>2. kk \in 1..L
    BY <1>17, <2>1
  <2>3. Writing(left, kk)
    BY <1>20, <2>1, <2>2
  <2>4. c <= left[kk].length - left[kk].copied
    BY <1>19, <2>1, <2>2
  <2> QED BY <2>2, <2>3, <2>4
<1>22. ASSUME NEW k \in 1..L
       PROVE  /\ P[k].length = left[k].length
              /\ P[k].copied = left[k].copied + (IF Writing(left, k) THEN c ELSE 0)
  <2>1. CASE wh
    BY <1>18, <1>20, <2>1
  <2>2. CASE ~wh
    <3>1. P[k].copied = left[k].copied + 0 /\ c = 0
      BY <1>10, <1>18, <2>2
    <3> QED BY <1>18, <3>1
  <2> QED BY <2>1, <2>2
<1> QED BY <1>2, <1>6, <1>7, <1>8, <1>9, <1>10, <1>15, <1>16, <1>19, <1>21, <1>22

(* When nothing is taken in, no transfer ends elsewhere.                   *)
LEMMA EndsKept ==
    ASSUME CtlInv, Unflushed, NEW i \in Inputs, Proceed(i), NEW start
    PROVE  Kept(start, start)
<1>1. LegP!IInv /\ issued' = issued /\ issued \in Nat /\ Leg!Advance(RReady, WReady)
  BY DEF CtlInv, Typed, Proceed
<1>2. job'.length = job.length
  <2>1. job \in LegP!JobType
    BY <1>1 DEF LegP!IInv, LegP!TypeOK
  <2>2. job' = [job EXCEPT !.read    = IF REmits THEN @ + Leg!RNumBytes ELSE @,
                           !.written = IF WEmits THEN @ + Leg!WNumBytes ELSE @,
                           !.lasts   = IF WEmits /\ Leg!WDone THEN @ + 1 ELSE @]
    BY <1>1 DEF Leg!Advance, Leg!Emitted, REmits, WEmits
  <2> QED BY <2>1, <2>2 DEF LegP!JobType
<1>3. \A id \in Nat : EndOf(start, id)' = EndOf(start, id)
  BY <1>1, <1>2 DEF EndOf
<1> DEFINE n == issued
<1>4. n <= n /\ n \in Nat /\ n = n'
  BY <1>1
<1> HIDE DEF n
<1> QED BY <1>1, <1>3, <1>4 DEF Kept, n

(* Nor when one is, and that begins where the one before ends.             *)
LEMMA EndsKeptAccept ==
    ASSUME CtlInv, Unflushed, NEW i \in Inputs, NEW req \in Requests, Accept(i, req),
           NEW start, NEW start2, start2[issued + 1] = start[issued] + job.length,
           \A id \in Nat : id <= issued => start2[id] = start[id]
    PROVE  /\ Kept(start, start2) /\ issued' = issued + 1
           /\ \A id \in Nat : id = issued + 1 => EndOf(start2, id)' = start2[id] + req.length
           /\ req.length \in Nat /\ req.length > 0
<1>1. PICK n \in Nat : n = issued
  BY DEF CtlInv, Typed
<1>2. issued' = n + 1 /\ job'.length = req.length
  BY <1>1 DEF Accept, Leg!Refill, Leg!Load
<1>3. req.length \in Nat /\ req.length > 0
  <2>1. req.length \in Nat \ {0}
    BY RefillStep DEF CtlInv
  <2> QED BY <2>1
<1>4. EndOf(start2, n + 1)' = start2[n + 1] + req.length
  BY <1>2 DEF EndOf
<1>5. ASSUME NEW id \in Nat, id <= n
      PROVE  start2[id] = start[id] /\ EndOf(start2, id)' = EndOf(start, id)
  <2>1. start2[id] = start[id] /\ EndOf(start2, id)' = start2[id + 1]
    BY <1>1, <1>2, <1>5 DEF EndOf
  <2>2. CASE id = n
    BY <1>1, <2>1, <2>2 DEF EndOf
  <2>3. CASE id # n
    <3>1. id + 1 \in Nat /\ id + 1 <= n
      BY <1>5, <2>3
    <3> QED BY <1>1, <2>1, <2>3, <3>1 DEF EndOf
  <2> QED BY <2>2, <2>3
<1>6. Kept(start, start2)
  BY <1>1, <1>2, <1>5 DEF Kept
<1> QED BY <1>1, <1>2, <1>3, <1>4, <1>6

(* After a cycle in which none is taken in, Copied holds again.            *)
LEMMA CopiedProceeds ==
    ASSUME CtlInv, Owing, Buffers, Unflushed, NEW i \in Inputs, Proceed(i),
           NEW start \in Starts, NEW lane \in LaneMaps, NEW byte \in ByteMaps,
           Data(start, lane, byte), NEW tr, Marked(start, tr), Copied(start),
           At(start)' = Reached(i, start)
    PROVE  Copied(start)'
<1>1. PICK n \in Nat, a \in Nat, old \in Nat :
        n = issued /\ a = Reached(i, start) /\ old = Old(i)
  BY WriteSpan, CopiedStep DEF CtlInv, Typed
<1>2. issued' = n /\ pending' = Progress(i) /\ At(start)' = a
  BY <1>1 DEF Proceed
<1>3. /\ \A id \in Nat : id <= old => EndOf(start, id) <= a
      /\ \A k \in 1..Len(Left(i)) : IsCopied(start, Progress(i)[k], old + k, a)
      /\ Len(Progress(i)) = Len(Left(i)) /\ Len(Left(i)) \in Nat
  <2>1. Left(i) \in Seq(PendingType)
    BY CopiedStep
  <2> QED BY <1>1, <2>1, CopiedStep, LenProperties
<1>4. /\ \A id \in Nat : id <= n => EndOf(start, id)' = EndOf(start, id)
      /\ \A x, y \in Nat : x < y /\ y <= n => EndOf(start, x) <= start[y]
  BY <1>1, EndsKept DEF Kept, Copied
<1> DEFINE L == Len(Left(i))
<1>5. PICK len \in Nat : len = Len(pending') /\ len = L /\ old = n - len
  BY <1>1, <1>2, <1>3 DEF Old
<1>6. len <= n /\ n - len = old
  BY <1>5
<1>7. ASSUME NEW x \in Nat, NEW y \in Nat, x < y, y <= n
      PROVE  EndOf(start, x)' <= start[y]
  <2>1. x <= n
    BY <1>7
  <2> QED BY <1>4, <1>7, <2>1
<1>8. ASSUME NEW id \in Nat, id <= old PROVE EndOf(start, id)' <= a
  <2>1. id <= n
    BY <1>6, <1>8
  <2> QED BY <1>3, <1>4, <1>8, <2>1
<1>9. ASSUME NEW k \in 1..len PROVE IsCopied(start, pending[k], n - len + k, a)'
  <2>1. old + k \in Nat /\ old + k <= n /\ n - len + k = old + k
    BY <1>6
  <2>2. IsCopied(start, Progress(i)[k], old + k, a)
    BY <1>3, <1>5
  <2>3. EndOf(start, old + k)' = EndOf(start, old + k)
    BY <1>4, <2>1
  <2>4. IsCopied(start, pending[k], old + k, a)'
    BY <1>2, <2>2, <2>3 DEF IsCopied
  <2> QED BY <2>1, <2>4
<1> QED
  BY <1>2, <1>5, <1>6, <1>7, <1>8, <1>9 DEF Copied

(* Nor does it break when one is: nothing of it is written yet.            *)
LEMMA CopiedAccepts ==
    ASSUME CtlInv, Owing, Buffers, Unflushed, NEW i \in Inputs,
           NEW req \in Requests, Accept(i, req),
           NEW start \in Starts, NEW lane \in LaneMaps, NEW byte \in ByteMaps,
           Data(start, lane, byte), NEW tr, Marked(start, tr), Copied(start),
           NEW start2 \in Starts, At(start2)' = Reached(i, start),
           start2[issued + 1] = start[issued] + job.length,
           \A id \in Nat : id <= issued => start2[id] = start[id]
    PROVE  Copied(start2)'
<1>1. PICK n \in Nat, a \in Nat, old \in Nat, top \in Nat, new \in Nat :
        /\ n = issued /\ a = Reached(i, start) /\ old = Old(i)
        /\ top = start[issued] + job.length /\ a <= top
        /\ new = req.length /\ new > 0
  <2>1. start[issued] \in Nat /\ job.length \in Nat /\ issued \in Nat /\ req.length \in Nat
        /\ req.length > 0
    <3>1. job.length \in Nat /\ issued \in Nat
      BY WithinJob DEF CtlInv, Typed
    <3>2. req.length \in Nat /\ req.length > 0
      BY EndsKeptAccept
    <3> QED BY <3>1, <3>2 DEF Starts
  <2>2. Reached(i, start) \in Nat /\ Reached(i, start) <= start[issued] + job.length
        /\ Old(i) \in Nat
    BY WriteSpan, CopiedStep
  <2> DEFINE s == start[issued]
             l == job.length
             r == Reached(i, start)
  <2>3. s + l \in Nat /\ r \in Nat /\ r <= s + l
    <3>1. s \in Nat /\ l \in Nat /\ r \in Nat /\ r <= s + l
      BY <2>1, <2>2
    <3> HIDE DEF s, l, r
    <3> QED BY <3>1
  <2> QED BY <2>1, <2>2, <2>3
<1> DEFINE item == [id |-> issued + 1, length |-> req.length, copied |-> 0]
<1>2. /\ issued' = n + 1 /\ At(start2)' = a
      /\ pending' = Append(Progress(i), item)
  BY <1>1 DEF Accept
<1>3. /\ \A id \in Nat : id <= old => EndOf(start, id) <= a
      /\ \A k \in 1..Len(Left(i)) : IsCopied(start, Progress(i)[k], old + k, a)
      /\ Len(Progress(i)) = Len(Left(i)) /\ Len(Left(i)) \in Nat
      /\ Progress(i) \in Seq(PendingType)
  <2>1. Left(i) \in Seq(PendingType)
    BY CopiedStep
  <2> QED BY <1>1, <2>1, CopiedStep, LenProperties
<1>4. /\ \A id \in Nat : id <= n => /\ start2[id] = start[id]
                                    /\ EndOf(start2, id)' = EndOf(start, id)
      /\ \A x, y \in Nat : x < y /\ y <= n => EndOf(start, x) <= start[y]
      /\ \A id \in Nat : id = n + 1 => EndOf(start2, id)' = start2[id] + new
      /\ start2[n + 1] = top /\ EndOf(start, n) = top
  BY <1>1, EndsKeptAccept DEF Kept, Copied, EndOf
<1> DEFINE L == Len(Left(i))
<1>5. PICK len \in Nat : len = L + 1 /\ old = n - L /\ L \in Nat
  BY <1>1, <1>3 DEF Old
<1>6. /\ Len(pending') = len
      /\ \A k \in 1..L : pending'[k] = Progress(i)[k]
      /\ pending'[L + 1] = item
  <2>1. item \in PendingType
    BY <1>1 DEF PendingType
  <2> HIDE DEF item
  <2> QED BY <1>2, <1>3, <1>5, <2>1, AppendProperties
<1> HIDE DEF L
<1>7. len <= n + 1 /\ n + 1 - len = old
  BY <1>5
<1>8. \A id \in Nat : EndOf(start, id) \in Nat /\ start[id] \in Nat
  BY EndIsNat DEF Starts
<1>9. ASSUME NEW x \in Nat, NEW y \in Nat, x < y, y <= n + 1
      PROVE  EndOf(start2, x)' <= start2[y]
  <2>1. x <= n
    BY <1>9
  <2>2. EndOf(start2, x)' = EndOf(start, x)
    BY <1>4, <2>1
  <2>3. CASE y <= n
    BY <1>4, <1>9, <2>2, <2>3
  <2>4. CASE y = n + 1
    <3>1. EndOf(start, x) <= top
      <4>1. CASE x = n
        BY <1>4, <4>1
      <4>2. CASE x < n
        <5> DEFINE e == EndOf(start, x)
                   s == start[n]
        <5>1. e <= s
          BY <1>4, <4>2
        <5>2. s <= top
          <6>1. top = start[n] + job.length /\ start[n] \in Nat /\ job.length \in Nat
            BY <1>1, <1>8, WithinJob DEF CtlInv
          <6> DEFINE l == job.length
          <6> HIDE DEF s, l
          <6> QED BY <6>1 DEF s, l
        <5>3. e \in Nat /\ s \in Nat
          BY <1>8
        <5> HIDE DEF e, s
        <5>4. e <= top
          BY <1>1, <5>1, <5>2, <5>3
        <5> QED BY <5>4 DEF e
      <4> QED BY <2>1, <4>1, <4>2
    <3> QED BY <1>4, <2>2, <2>4, <3>1
  <2> QED BY <1>9, <2>3, <2>4
<1>10. ASSUME NEW id \in Nat, id <= old PROVE EndOf(start2, id)' <= a
  <2>1. id <= n
    BY <1>5, <1>10
  <2> QED BY <1>3, <1>4, <1>10, <2>1
<1>11. ASSUME NEW k \in 1..len PROVE IsCopied(start2, pending[k], n + 1 - len + k, a)'
  <2>1. old + k \in Nat /\ n + 1 - len + k = old + k
    BY <1>7
  <2>2. CASE k \in 1..L
    <3>1. IsCopied(start, Progress(i)[k], old + k, a) /\ pending'[k] = Progress(i)[k]
      BY <1>3, <1>6, <2>2 DEF L
    <3>2. old + k <= n
      BY <1>5, <2>2
    <3>3. start2[old + k] = start[old + k] /\ EndOf(start2, old + k)' = EndOf(start, old + k)
      BY <1>4, <2>1, <3>2
    <3>4. IsCopied(start2, pending[k], old + k, a)'
      BY <1>2, <3>1, <3>3 DEF IsCopied
    <3> QED BY <2>1, <3>4
  <2>3. CASE k \notin 1..L
    <3>1. k = L + 1 /\ old + k = n + 1
      BY <1>5, <2>3
    <3>2. pending'[k] = item
      BY <1>6, <3>1
    <3>3. item.id = n + 1 /\ item.length = new /\ item.copied = 0
      BY <1>1
    <3>4. start2[n + 1] = top /\ EndOf(start2, n + 1)' = top + new /\ n + 1 \in Nat
      BY <1>4
    <3>5. Among(a - top, new) = 0
      BY <1>1 DEF Among
    <3>6. IsCopied(start2, pending[k], n + 1, a)'
      BY <1>1, <3>2, <3>3, <3>4, <3>5 DEF IsCopied
    <3> QED BY <2>1, <3>1, <3>6
  <2> QED BY <2>2, <2>3
<1>12. PICK n2 \in Nat : n2 = n + 1
  OBVIOUS
<1>13. /\ issued' = n2 /\ At(start2)' = a /\ Len(pending') = len /\ len <= n2
       /\ \A x, y \in Nat : x < y /\ y <= n2 => EndOf(start2, x)' <= start2[y]
       /\ \A id \in Nat : id <= n2 - len => EndOf(start2, id)' <= a
       /\ \A k \in 1..len : IsCopied(start2, pending[k], n2 - len + k, a)'
  <2>1. issued' = n2 /\ At(start2)' = a /\ Len(pending') = len /\ len <= n2
    BY <1>2, <1>6, <1>7, <1>12
  <2>2. \A x, y \in Nat : x < y /\ y <= n2 => EndOf(start2, x)' <= start2[y]
    BY <1>9, <1>12
  <2>3. \A id \in Nat : id <= n2 - len => EndOf(start2, id)' <= a
    BY <1>7, <1>10, <1>12
  <2>4. \A k \in 1..len : IsCopied(start2, pending[k], n2 - len + k, a)'
    BY <1>11, <1>12
  <2> QED BY <2>1, <2>2, <2>3, <2>4
<1> QED
  BY <1>13 DEF Copied

----------------------------------------------------------------------------
(* The invariant of the copy. *)

CopyInv ==
    /\ CtlInv /\ Owing /\ Buffers /\ Unflushed
    /\ \E start \in Starts, lane \in LaneMaps, byte \in ByteMaps, tr \in Seq(Marks) :
          Data(start, lane, byte) /\ Marked(start, tr) /\ Copied(start)

LEMMA CopyInit == Init => CopyInv
<1> SUFFICES ASSUME Init PROVE CopyInv
  OBVIOUS
<1>1. DataInv /\ Owing
  BY DataInit, OwingInit
<1>2. PICK start \in Starts, lane \in LaneMaps, byte \in ByteMaps : Data(start, lane, byte)
  BY <1>1, Zenon DEF DataInv
<1>3. /\ w_dp = <<>> /\ w_last = <<>> /\ pending = <<>> /\ issued = 0 /\ w_tf.valid = FALSE
      /\ job.length = 0 /\ job.written = 0
  BY DEF Init, Leg!Init, Leg!NoJob, Leg!NoTransfer
<1>4. ASSUME NEW S PROVE <<>> \in Seq(S) /\ Len(<<>>) = 0
  BY EmptySeq
<1>5. start[0] \in Nat
  BY <1>2 DEF Starts
<1>6. Marked(start, <<>>)
  <2>1. Behind(w_last, <<>>, SameFlag, Marks)
    BY <1>3, <1>4 DEF Behind
  <2>2. Behind(w_dp, <<>>, Ends(start), Over(start, At(start)))
    BY <1>3, <1>4 DEF Behind
  <2>3. Chain(<<>>, MarkId, MarkNext, Coming)
    BY <1>4 DEF Chain
  <2>4. Begin(<<>>, MarkId, Coming) = issued - Len(pending) + 1
    BY <1>3, <1>4 DEF Begin, Coming, One
  <2> QED BY <1>3, <1>4, <2>1, <2>2, <2>3, <2>4 DEF Marked
<1>7. Copied(start)
  <2>1. At(start) = start[0] + 0 /\ EndOf(start, 0) = start[0] + 0
    BY <1>3 DEF At, WriteAt, EndOf
  <2>2. Len(pending) = 0
    BY <1>3, <1>4
  <2>3. EndOf(start, 0) <= At(start)
    <3> DEFINE s == start[0]
    <3> HIDE DEF s
    <3> QED BY <1>5, <2>1 DEF s
  <2>4. \A id \in Nat : id <= 0 => id = 0
    OBVIOUS
  <2>5. \A x, y \in Nat : ~(x < y /\ y <= 0)
    OBVIOUS
  <2> QED BY <1>3, <2>2, <2>3, <2>4, <2>5 DEF Copied
<1> QED BY <1>1, <1>2, <1>4, <1>6, <1>7 DEF CopyInv, DataInv

LEMMA CopyStutters ==
    ASSUME UNCHANGED vars, NEW start, NEW tr, Marked(start, tr), Copied(start)
    PROVE  Marked(start, tr)' /\ Copied(start)'
<1>1. /\ w_dp' = w_dp /\ forked' = forked /\ w_num_beats' = w_num_beats
      /\ w_cnt_valid' = w_cnt_valid /\ w_last' = w_last
      /\ issued' = issued /\ job' = job /\ pending' = pending /\ w_tf' = w_tf
  BY DEF vars, legVars, readVars, writeVars, rspVars
<1>2. At(start)' = At(start)
  BY <1>1 DEF At, WriteAt, BeatsWritten, WReq
<1>3. \A id \in Nat : EndOf(start, id)' = EndOf(start, id)
  BY <1>1 DEF EndOf
<1>4. Ends(start)' = Ends(start) /\ Over(start, At(start))' = Over(start, At(start))
  BY <1>1, <1>2 DEF Ends, EndsAt, Over, IsOver, EndOf
<1>5. Marked(start, tr)'
  BY <1>1, <1>4 DEF Marked, Behind, Coming, Chain, Begin
<1>6. Copied(start)'
  BY <1>1, <1>2 DEF Copied, IsCopied, EndOf
<1> QED BY <1>5, <1>6

(* Every cycle keeps the invariant.                                        *)
LEMMA CopyStep == ASSUME ToMemory PROVE CopyInv /\ [Next]_vars => CopyInv'
<1> SUFFICES ASSUME CopyInv, [Next]_vars PROVE CopyInv'
  OBVIOUS
<1>1. CtlInv /\ Owing /\ Buffers /\ Unflushed
  BY DEF CopyInv
<1>2. PICK start \in Starts, lane \in LaneMaps, byte \in ByteMaps, tr \in Seq(Marks) :
        Data(start, lane, byte) /\ Marked(start, tr) /\ Copied(start)
  BY Zenon DEF CopyInv
<1>3. CtlInv' /\ Owing'
  BY <1>1, ControlStep, OwingStep
<1>4. ASSUME NEW i \in Inputs, Cycle(i) PROVE CopyInv'
  <2>1. ReadSide(i) /\ WriteSide(i)
    BY <1>4 DEF Cycle
  <2>2. \A id \in Nat : id <= issued => EndOf(start, id) \in Nat
    BY <1>1, <1>2, EndIsNat
  <2>3. PICK start2 \in Starts, lane2 \in LaneMaps, byte2 \in ByteMaps :
          /\ Data(start2, lane2, byte2)' /\ Buffers' /\ Unflushed'
          /\ Kept(start, start2) /\ At(start2)' = Reached(i, start) /\ Copied(start2)'
          /\ Len(pending') = Len(pending) - One(Answered(i)) + (issued' - issued)
    <3>0. /\ Progress(i) \in Seq(PendingType) /\ issued \in Nat
          /\ Len(Progress(i)) = Len(pending) - One(Answered(i))
          /\ Len(Progress(i)) \in Nat
      <4>1. /\ Progress(i) \in Seq(PendingType)
            /\ Len(Progress(i)) = Len(Left(i)) /\ Len(Left(i)) = Len(pending) - One(Answered(i))
        BY <1>1, <1>2, CopiedStep
      <4> QED BY <1>1, <4>1, LenProperties DEF CtlInv, Typed
    <3> DEFINE one == One(Answered(i))
               m == Len(pending) - one
               n == issued
               mm == Len(Progress(i))
    <3>1. CASE Proceed(i)
      <4>1. Data(start, lane, byte)' /\ Buffers' /\ Unflushed' /\ At(start)' = Reached(i, start)
        BY <1>1, <1>2, <2>1, <3>1, ProceedData
      <4>2. Kept(start, start) /\ Copied(start)'
        BY <1>1, <1>2, <3>1, <4>1, EndsKept, CopiedProceeds
      <4>3. Len(pending') = mm /\ issued' = n
        BY <3>1 DEF Proceed
      <4>4. Len(pending') = m + (issued' - issued)
        <5> HIDE DEF m, n, mm
        <5>1. mm = m + (n - n)
          BY <3>0 DEF m, n, mm
        <5> QED BY <4>3, <5>1 DEF n
      <4> QED BY <1>2, <4>1, <4>2, <4>4
    <3>2. ASSUME NEW req \in Requests, Accept(i, req)
          PROVE  \E start2 \in Starts, lane2 \in LaneMaps, byte2 \in ByteMaps :
                   /\ Data(start2, lane2, byte2)' /\ Buffers' /\ Unflushed'
                   /\ Kept(start, start2) /\ At(start2)' = Reached(i, start) /\ Copied(start2)'
                   /\ Len(pending') = Len(pending) - One(Answered(i)) + (issued' - issued)
      <4>1. /\ \E start2 \in Starts, lane2 \in LaneMaps, byte2 \in ByteMaps :
                  /\ Data(start2, lane2, byte2)'
                  /\ At(start2)' = Reached(i, start)
                  /\ start2[issued + 1] = start[issued] + job.length
                  /\ \A id \in Nat : id <= issued => start2[id] = start[id]
            /\ Buffers' /\ Unflushed'
        BY <1>1, <1>2, <2>1, <3>2, AcceptData
      <4>2. PICK start2 \in Starts, lane2 \in LaneMaps, byte2 \in ByteMaps :
                  /\ Data(start2, lane2, byte2)'
                  /\ At(start2)' = Reached(i, start)
                  /\ start2[issued + 1] = start[issued] + job.length
                  /\ \A id \in Nat : id <= issued => start2[id] = start[id]
        BY <4>1, Zenon
      <4>3. Kept(start, start2) /\ issued' = n + 1 /\ req.length \in Nat
        BY <1>1, <3>2, <4>2, EndsKeptAccept
      <4>4. Copied(start2)'
        BY <1>1, <1>2, <3>2, <4>2, CopiedAccepts
      <4>5. Len(pending') = mm + 1
        <5> DEFINE new == [id |-> issued + 1, length |-> req.length, copied |-> 0]
        <5>1. pending' = Append(Progress(i), new)
          BY <3>2 DEF Accept
        <5>2. new \in PendingType
          <6>1. issued + 1 \in Nat /\ req.length \in Nat
            BY <3>0, <4>3
          <6> QED BY <6>1 DEF PendingType
        <5> HIDE DEF new
        <5> QED BY <3>0, <5>1, <5>2, AppendProperties
      <4>6. Len(pending') = m + (issued' - issued)
        <5> HIDE DEF m, n, mm
        <5>1. mm + 1 = m + (n + 1 - n)
          BY <3>0 DEF m, n, mm
        <5>2. issued' - issued = n + 1 - n
          <6>1. issued' = n + 1 /\ n = issued /\ n \in Nat
            BY <3>0, <4>3 DEF n
          <6> QED BY <6>1
        <5> QED BY <4>5, <5>1, <5>2
      <4> QED BY <4>1, <4>2, <4>3, <4>4, <4>6
    <3> QED BY <1>4, <3>1, <3>2 DEF Cycle
  <2>4. \E tr2 : Marked(start2, tr2)'
    BY <1>1, <1>2, <1>4, <2>2, <2>3, MarkedStep
  <2>5. PICK tr2 : Marked(start2, tr2)'
    BY <2>4
  <2>6. tr2 \in Seq(Marks)
    BY <2>5 DEF Marked
  <2> QED BY <1>3, <2>3, <2>5, <2>6 DEF CopyInv
<1>5. CASE UNCHANGED vars
  <2>1. Data(start, lane, byte)' /\ Marked(start, tr)' /\ Copied(start)'
    BY <1>2, <1>5, DataStutters, CopyStutters
  <2>2. Buffers' /\ Unflushed'
    BY <1>1, <1>5 DEF vars, legVars, readVars, Buffers, Unflushed
  <2> QED BY <1>2, <1>3, <2>1, <2>2 DEF CopyInv
<1> QED BY <1>4, <1>5 DEF Next

----------------------------------------------------------------------------
(* The backend implements the abstract copy. *)

Item == [length : Nat, copied : Nat]

(* What the abstract copy sees of the transfers p.                         *)
Shown(p) == [k \in DOMAIN p |-> [length |-> p[k].length, copied |-> p[k].copied]]

LEMMA ShownSeq ==
    ASSUME NEW p \in Seq(PendingType)
    PROVE  /\ Shown(p) \in Seq(Item) /\ Len(Shown(p)) = Len(p)
           /\ DOMAIN Shown(p) = 1..Len(p)
           /\ \A k \in 1..Len(p) : Shown(p)[k].length = p[k].length
                                   /\ Shown(p)[k].copied = p[k].copied
<1>1. Len(p) \in Nat /\ DOMAIN p = 1..Len(p)
  BY LenProperties
<1> DEFINE item(k) == [length |-> p[k].length, copied |-> p[k].copied]
<1>2. ASSUME NEW k \in 1..Len(p)
      PROVE  item(k) \in Item /\ item(k).length = p[k].length /\ item(k).copied = p[k].copied
  <2>1. p[k] \in PendingType
    BY ElementOfSeq
  <2> QED BY <2>1 DEF PendingType, Item
<1> HIDE DEF item
<1>3. Shown(p) = [k \in 1..Len(p) |-> item(k)]
  BY <1>1 DEF Shown, item
<1>4. [k \in 1..Len(p) |-> item(k)] \in [1..Len(p) -> Item]
  BY <1>2
<1>5. Shown(p) \in Seq(Item)
  BY <1>1, <1>3, <1>4, SeqDef
<1>6. Len(Shown(p)) = Len(p) /\ DOMAIN Shown(p) = 1..Len(p)
  BY <1>1, <1>3, <1>5, LenProperties
<1> QED BY <1>2, <1>3, <1>5, <1>6

LEMMA ShownTail ==
    ASSUME NEW p \in Seq(PendingType), p # <<>>
    PROVE  Tail(Shown(p)) = Shown(Tail(p)) /\ Shown(p) # <<>>
<1>1. /\ Tail(p) \in Seq(PendingType) /\ Len(Tail(p)) = Len(p) - 1 /\ Len(p) \in Nat \ {0}
      /\ \A k \in 1..Len(Tail(p)) : Tail(p)[k] = p[k + 1]
  BY HeadTailProperties, EmptySeq, LenProperties
<1>2. Shown(p) \in Seq(Item) /\ Len(Shown(p)) = Len(p) /\ Shown(p) # <<>>
  BY <1>1, ShownSeq, EmptySeq
<1>3. /\ Tail(Shown(p)) \in Seq(Item) /\ Len(Tail(Shown(p))) = Len(p) - 1
      /\ \A k \in 1..Len(Tail(Shown(p))) : Tail(Shown(p))[k] = Shown(p)[k + 1]
  BY <1>2, HeadTailProperties
<1>4. Shown(Tail(p)) \in Seq(Item) /\ Len(Shown(Tail(p))) = Len(p) - 1
  BY <1>1, ShownSeq
<1>5. ASSUME NEW k \in 1..Len(Tail(Shown(p))) PROVE Tail(Shown(p))[k] = Shown(Tail(p))[k]
  <2>1. k \in 1..Len(Tail(p)) /\ k + 1 \in 1..Len(p)
    BY <1>1, <1>3
  <2>2. /\ DOMAIN Shown(p) = 1..Len(p) /\ DOMAIN p = 1..Len(p)
        /\ DOMAIN Tail(p) = 1..Len(Tail(p))
    BY <1>1, ShownSeq, LenProperties
  <2>3. Shown(p)[k + 1] = [length |-> p[k + 1].length, copied |-> p[k + 1].copied]
    BY <2>1, <2>2 DEF Shown
  <2>4. Shown(Tail(p))[k] = [length |-> Tail(p)[k].length, copied |-> Tail(p)[k].copied]
    BY <2>1, <2>2 DEF Shown
  <2>5. Tail(p)[k] = p[k + 1] /\ Tail(Shown(p))[k] = Shown(p)[k + 1]
    BY <1>1, <1>3, <2>1
  <2> QED BY <2>3, <2>4, <2>5
<1>6. Tail(Shown(p)) = Shown(Tail(p))
  BY <1>3, <1>4, <1>5, SeqEqual
<1> QED BY <1>2, <1>6

LEMMA ShownAppend ==
    ASSUME NEW p \in Seq(PendingType), NEW t \in PendingType
    PROVE  Shown(Append(p, t)) = Shown(p) \o <<[length |-> t.length, copied |-> t.copied]>>
<1> DEFINE q == Append(p, t)
           e == [length |-> t.length, copied |-> t.copied]
           s == Shown(p) \o <<e>>
<1>1. /\ q \in Seq(PendingType) /\ Len(q) = Len(p) + 1 /\ Len(p) \in Nat
      /\ \A k \in 1..Len(p) : q[k] = p[k]
      /\ q[Len(p) + 1] = t
  BY AppendProperties, LenProperties
<1>2. e \in Item
  BY DEF PendingType, Item
<1>3. Shown(p) \in Seq(Item) /\ Len(Shown(p)) = Len(p)
  BY ShownSeq
<1>4. Shown(q) \in Seq(Item) /\ Len(Shown(q)) = Len(p) + 1
  BY <1>1, ShownSeq
<1> HIDE DEF e
<1>5. <<e>> \in Seq(Item) /\ Len(<<e>>) = 1 /\ <<e>>[1] = e
  BY <1>2
<1>6. /\ s \in Seq(Item) /\ Len(s) = Len(p) + 1
      /\ \A k \in 1..Len(p) : s[k] = Shown(p)[k]
      /\ s[Len(p) + 1] = e
  <2>1. /\ s \in Seq(Item) /\ Len(s) = Len(Shown(p)) + Len(<<e>>)
        /\ \A k \in 1..Len(s) : s[k] = IF k <= Len(Shown(p)) THEN Shown(p)[k]
                                       ELSE <<e>>[k - Len(Shown(p))]
    BY <1>3, <1>5, ConcatProperties
  <2> DEFINE n == Len(p)
  <2>2. n \in Nat /\ Len(Shown(p)) = n /\ Len(s) = n + 1
    BY <1>1, <1>3, <1>5, <2>1
  <2> HIDE DEF n
  <2>3. (n + 1) - n = 1 /\ n + 1 \in 1..n+1 /\ ~(n + 1 <= n)
        /\ \A k \in 1..n : k \in 1..n+1 /\ k <= n
    BY <2>2
  <2>4. s[n + 1] = <<e>>[(n + 1) - n]
    BY <2>1, <2>2, <2>3
  <2>5. \A k \in 1..n : s[k] = Shown(p)[k]
    BY <2>1, <2>2, <2>3
  <2> QED BY <1>5, <2>1, <2>2, <2>3, <2>4, <2>5 DEF n
<1> HIDE DEF s, q
<1>7. ASSUME NEW k \in 1..Len(Shown(q)) PROVE Shown(q)[k] = s[k]
  <2>1. DOMAIN q = 1..Len(p) + 1 /\ DOMAIN p = 1..Len(p)
    BY <1>1, LenProperties
  <2>2. k \in 1..Len(p) + 1
    BY <1>4
  <2>3. Shown(q)[k] = [length |-> q[k].length, copied |-> q[k].copied]
    BY <2>1, <2>2 DEF Shown
  <2>4. CASE k \in 1..Len(p)
    <3>1. Shown(p)[k] = [length |-> p[k].length, copied |-> p[k].copied]
      BY <2>1, <2>4 DEF Shown
    <3> QED BY <1>1, <1>6, <2>3, <2>4, <3>1
  <2>5. CASE k = Len(p) + 1
    BY <1>1, <1>6, <2>3, <2>5 DEF e
  <2> QED BY <1>1, <2>2, <2>4, <2>5
<1>8. Shown(q) = s
  BY <1>4, <1>6, <1>7, SeqEqual
<1> QED BY <1>8 DEF q, s, e

(* What a cycle writes, in the words of the abstract copy.                 *)
LEMMA ShownProgress ==
    ASSUME CtlInv, Owing, Buffers, Unflushed, NEW i \in Inputs,
           NEW start \in Starts, NEW lane \in LaneMaps, NEW byte \in ByteMaps,
           Data(start, lane, byte), NEW tr, Marked(start, tr), Copied(start),
           NEW left, left = Shown(Left(i)), NEW n, n = BytesOut(i)
    PROVE  /\ n \in 0..StrbWidth
           /\ n > 0 => \E k \in DOMAIN left :
                          Abstract!Current(left, k) /\ n <= Abstract!Room(left, k)
           /\ Shown(Progress(i)) =
                 [k \in DOMAIN left |->
                     IF Abstract!Current(left, k) THEN [left[k] EXCEPT !.copied = @ + n]
                     ELSE left[k]]
<1> DEFINE p == Left(i)
           q == Progress(i)
<1>1. /\ p \in Seq(PendingType) /\ q \in Seq(PendingType) /\ Len(q) = Len(p)
      /\ n \in 0..StrbWidth
      /\ n > 0 => \E k \in 1..Len(p) : Writing(p, k) /\ n <= p[k].length - p[k].copied
      /\ \A k \in 1..Len(p) :
            /\ q[k].length = p[k].length
            /\ q[k].copied = p[k].copied + (IF Writing(p, k) THEN n ELSE 0)
  BY CopiedStep
<1> HIDE DEF p, q
<1>2. left = Shown(p)
  BY DEF p
<1>3. /\ DOMAIN left = 1..Len(p) /\ DOMAIN p = 1..Len(p) /\ DOMAIN q = 1..Len(p)
      /\ Len(p) \in Nat
      /\ \A k \in 1..Len(p) : left[k].length = p[k].length /\ left[k].copied = p[k].copied
  BY <1>1, <1>2, ShownSeq, LenProperties
<1>4. ASSUME NEW k \in 1..Len(p) PROVE Abstract!Current(left, k) <=> Writing(p, k)
  <2>1. \A j \in 1..k-1 : j \in 1..Len(p)
    BY <1>3
  <2> QED BY <1>3, <1>4, <2>1 DEF Writing, Abstract!Current, Abstract!Written
<1>5. n > 0 => \E k \in DOMAIN left :
                  Abstract!Current(left, k) /\ n <= Abstract!Room(left, k)
  BY <1>1, <1>3, <1>4 DEF Abstract!Room
<1>6. ASSUME NEW k \in 1..Len(p)
      PROVE  [length |-> q[k].length, copied |-> q[k].copied] =
                IF Abstract!Current(left, k) THEN [left[k] EXCEPT !.copied = @ + n] ELSE left[k]
  <2>1. left[k] = [length |-> p[k].length, copied |-> p[k].copied]
    BY <1>2, <1>3 DEF Shown
  <2>2. p[k] \in PendingType
    BY <1>1, ElementOfSeq
  <2> DEFINE x == p[k].length
             y == p[k].copied
             z == q[k].copied
  <2>3. x \in Nat /\ y \in Nat
    BY <2>2 DEF PendingType
  <2>4. CASE Writing(p, k)
    <3>1. q[k].length = x /\ z = y + n
      BY <1>1, <2>4
    <3>2. [left[k] EXCEPT !.copied = @ + n] = [length |-> x, copied |-> y + n]
      BY <2>1
    <3> QED BY <1>4, <2>4, <3>1, <3>2
  <2>5. CASE ~Writing(p, k)
    <3>1. q[k].length = x /\ z = y + 0
      BY <1>1, <2>5
    <3>2. y + 0 = y
      <4> HIDE DEF y
      <4> QED BY <2>3
    <3> QED BY <1>4, <2>1, <2>5, <3>1, <3>2
  <2> QED BY <2>4, <2>5
<1>7. Shown(q) = [k \in DOMAIN left |->
                     IF Abstract!Current(left, k) THEN [left[k] EXCEPT !.copied = @ + n]
                     ELSE left[k]]
  <2>1. Shown(q) = [k \in 1..Len(p) |-> [length |-> q[k].length, copied |-> q[k].copied]]
    BY <1>3 DEF Shown
  <2> QED BY <1>3, <1>6, <2>1, Zenon
<1> QED BY <1>1, <1>5, <1>7 DEF q

(* A cycle of the backend is one of the abstract copy.                     *)
LEMMA CopyCycle ==
    ASSUME CopyInv, NEW i \in Inputs, Cycle(i)
    PROVE  Abstract!Next
<1>1. CtlInv /\ Owing /\ Buffers /\ Unflushed
  BY DEF CopyInv
<1>2. PICK start \in Starts, lane \in LaneMaps, byte \in ByteMaps, tr \in Seq(Marks) :
        Data(start, lane, byte) /\ Marked(start, tr) /\ Copied(start)
  BY Zenon DEF CopyInv
<1>3. PICK left, n : left = Shown(Left(i)) /\ n = BytesOut(i)
  OBVIOUS
<1>4. PICK answer \in BOOLEAN : answer <=> Answered(i)
  OBVIOUS
<1> DEFINE now == [k \in DOMAIN left |->
                     IF Abstract!Current(left, k) THEN [left[k] EXCEPT !.copied = @ + n]
                     ELSE left[k]]
<1>5. /\ n \in 0..StrbWidth
      /\ n > 0 => \E k \in DOMAIN left :
                     Abstract!Current(left, k) /\ n <= Abstract!Room(left, k)
      /\ Shown(Progress(i)) = now
  BY <1>1, <1>2, <1>3, ShownProgress
<1>6. /\ Progress(i) \in Seq(PendingType) /\ pending \in Seq(PendingType)
      /\ answer => pending # <<>> /\ pending[1].copied = pending[1].length
  BY <1>1, <1>2, <1>4, CopiedStep DEF CtlInv, Typed
<1>7. /\ left = IF answer THEN Tail(Shown(pending)) ELSE Shown(pending)
      /\ answer => Shown(pending) # <<>> /\ Abstract!Written(Head(Shown(pending)))
  <2>1. CASE answer
    <3>1. Left(i) = Tail(pending)
      BY <1>4, <2>1 DEF Left, Rest
    <3>2. Tail(Shown(pending)) = Shown(Tail(pending)) /\ Shown(pending) # <<>>
      BY <1>6, <2>1, ShownTail
    <3>3. 1 \in 1..Len(pending)
      BY <1>6, <2>1, EmptySeq, LenProperties
    <3>4. Shown(pending)[1].length = pending[1].length
          /\ Shown(pending)[1].copied = pending[1].copied
          /\ Shown(pending) \in Seq(Item)
      BY <1>6, <3>3, ShownSeq
    <3>5. Head(Shown(pending)) = Shown(pending)[1]
      BY <3>2, <3>4, HeadTailProperties
    <3> QED BY <1>3, <1>6, <2>1, <3>1, <3>2, <3>4, <3>5 DEF Abstract!Written
  <2>2. CASE ~answer
    <3>1. Left(i) = pending
      BY <1>4, <2>2 DEF Left, Rest
    <3> QED BY <1>3, <2>2, <3>1
  <2> QED BY <2>1, <2>2
<1> HIDE DEF now
<1>8. PICK new \in Abstract!News : Shown(pending') = now \o new
  <2>1. CASE Proceed(i)
    <3>1. Shown(pending') = now
      BY <1>5, <2>1 DEF Proceed
    <3>2. now \in Seq(Item)
      BY <1>5, <1>6, ShownSeq
    <3>3. now \o <<>> = now
      BY <3>2, ConcatEmptySeq
    <3> QED BY <3>1, <3>3 DEF Abstract!News
  <2>2. ASSUME NEW req \in Requests, Accept(i, req)
        PROVE  \E new \in Abstract!News : Shown(pending') = now \o new
    <3> DEFINE t == [id |-> issued + 1, length |-> req.length, copied |-> 0]
               e == [length |-> req.length, copied |-> 0]
    <3>1. pending' = Append(Progress(i), t)
      BY <2>2 DEF Accept
    <3>2. t \in PendingType
      <4>1. req.length \in Nat \ {0} /\ issued \in Nat
        <5>1. LegP!IInv /\ issued \in Nat
          BY <1>1 DEF CtlInv, Typed
        <5> QED BY <5>1, <2>2, RefillStep
      <4> QED BY <4>1 DEF PendingType
    <3>3. t.length = req.length /\ t.copied = 0
      OBVIOUS
    <3> HIDE DEF t
    <3>4. Shown(pending') = Shown(Progress(i)) \o <<[length |-> t.length, copied |-> t.copied]>>
      BY <1>6, <3>1, <3>2, ShownAppend
    <3>5. Shown(pending') = now \o <<e>>
      BY <1>5, <3>3, <3>4
    <3>6. <<e>> \in Abstract!News
      BY DEF Abstract!News
    <3> QED BY <3>5, <3>6
  <2> QED BY <2>1, <2>2 DEF Cycle
<1>9. Abstract!Cycle(answer, n, new)
  BY <1>5, <1>7, <1>8 DEF Abstract!Cycle, Shown, now
<1> QED BY <1>5, <1>8, <1>9, Zenon DEF Abstract!Next

(* The backend copies the transfers in order, byte after byte, and answers *)
(* each only when all of it is written (ImplementsInOrderCopy), for         *)
(* transfers to memory.                                                     *)
THEOREM CopiesInOrder == ASSUME ToMemory PROVE Spec => ImplementsInOrderCopy
<1>1. Init => CopyInv
  BY CopyInit
<1>2. CopyInv /\ [Next]_vars => CopyInv'
  BY CopyStep
<1>3. Init => Abstract!Init
  <2> SUFFICES ASSUME pending = <<>> PROVE Shown(pending) = <<>>
    BY DEF Init, Abstract!Init, Shown
  <2>1. pending \in Seq(PendingType) /\ Len(pending) = 0
    BY EmptySeq
  <2> QED BY <2>1, ShownSeq, EmptySeq
<1>4. CopyInv /\ [Next]_vars =>
        [Abstract!Next]_([k \in DOMAIN pending |->
                             [length |-> pending[k].length, copied |-> pending[k].copied]])
  <2> SUFFICES ASSUME CopyInv, [Next]_vars
               PROVE  Abstract!Next \/ Shown(pending)' = Shown(pending)
    BY DEF Shown
  <2>1. ASSUME NEW i \in Inputs, Cycle(i) PROVE Abstract!Next
    BY <2>1, CopyCycle
  <2>2. CASE UNCHANGED vars
    BY <2>2 DEF vars, Shown
  <2> QED BY <2>1, <2>2 DEF Next
<1> QED BY <1>1, <1>2, <1>3, <1>4, PTL DEF Spec, ImplementsInOrderCopy, Abstract!Spec

============================================================================
