------------------------ MODULE ErrorHandlerProofs -------------------------
(***************************************************************************)
(* Proofs about the error handler for every depth of its queues, every     *)
(* width of its counter and every set of front ends and memories.  Nothing *)
(* is assumed of when a front end takes a response and of how many         *)
(* transfers it has in flight: an error that met a front end that was not  *)
(* ready is a hypothesis of the statements, on the history of the          *)
(* behaviour, and the counter is compared as far as its width goes.        *)
(***************************************************************************)
EXTENDS ErrorHandler, CommonLemmas

(* A read is presented only while its burst is open, a write response only *)
(* for a burst whose data is out.                                          *)
BusesOffer ==
    /\ r_bus # "none" => reads > 0
    /\ b_bus # "none" => Len(w_last) > writes

(* An answer is offered only to an error that waits for one.               *)
AnswersDue ==
    /\ eh # "none" => unanswered > 0
    /\ eh \in profile.answers \cup {"none"}

(* No transfer is owed that was not issued.                                *)
Accounts == owed \in Int /\ todo \in Nat /\ owed <= profile.transfers - todo

(* Of a front end that continues, what is in the pipeline is owed, and the *)
(* counter holds it as far as its width goes, while no error was missed.   *)
Counted ==
    (Continues /\ NoneMissed) =>
        /\ state # "LEG_FLUSH"
        /\ owed = InPipeline
        /\ num_outst = owed % CounterLimit

BaseInv == TypeOK /\ BusesOffer /\ AnswersDue /\ Accounts

IInv == BaseInv /\ ErrorDelivered /\ Counted

----------------------------------------------------------------------------
(* The counter has at least one value. *)
LEMMA Limits == CounterLimit \in Nat \ {0}
<1>1. 2^CounterWidth \in Int
  BY ErrorHandlerAssumption
<1>2. 2^CounterWidth >= MetaFifoDepth /\ MetaFifoDepth \in Nat \ {0}
  BY ErrorHandlerAssumption
<1> QED BY <1>1, <1>2 DEF CounterLimit

(* The types of a profile. *)
LEMMA ProfileTypes ==
    ASSUME profile \in Profiles
    PROVE  /\ profile.answers \subseteq {"CONTINUE", "ABORT"}
           /\ profile.bursts \subseteq Nat \ {0}
           /\ profile.transfers \in Nat
BY ErrorHandlerAssumption DEF ProfileType

(* The queue of last flags in one cycle, whose pop and push are the bursts *)
(* answered and emitted.                                                   *)
LEMMA LastsStep ==
    ASSUME BaseInv, NEW dp_ready \in BOOLEAN, NEW rsp_ready \in BOOLEAN,
           w_last' = Rest(w_last, WriteTaken(rsp_ready))
                         \o (IF Emits(dp_ready) THEN <<leg = 1>> ELSE <<>>)
    PROVE  /\ w_last' \in Seq(BOOLEAN)
           /\ Len(w_last') = Len(w_last) - One(WriteTaken(rsp_ready)) + One(Emits(dp_ready))
           /\ LastsDue \in Nat /\ LastsDue <= Len(w_last) /\ LastsDue' \in Nat
           /\ LastsDue' = LastsDue - One(WriteTaken(rsp_ready) /\ Head(w_last))
                                   + One(Emits(dp_ready) /\ leg = 1)
<1> DEFINE pop == WriteTaken(rsp_ready)
           push == IF Emits(dp_ready) THEN <<leg = 1>> ELSE <<>>
           yes == TRUE
           Flags == BOOLEAN
<1>1. w_last \in Seq(BOOLEAN) /\ Len(w_last) \in Nat /\ writes \in Nat
  <2>1. w_last \in Seq(BOOLEAN)
    BY DEF BaseInv, TypeOK
  <2>2. Len(w_last) \in Nat
    BY <2>1, LenProperties
  <2>3. writes \in Nat
    BY DEF BaseInv, TypeOK
  <2> QED BY <2>1, <2>2, <2>3
<1>2. pop \in BOOLEAN /\ (pop => w_last # <<>>)
  <2>1. pop => Len(w_last) > writes
    BY DEF BaseInv, BusesOffer, WriteTaken
  <2> QED BY <1>1, <2>1, EmptySeq DEF WriteTaken
<1>3. push = <<>> \/ \E x \in BOOLEAN : push = <<x>>
  BY DEF push
<1>4. w_last' = Rest(w_last, pop) \o push
  OBVIOUS
<1>5. PushedOf(push, TRUE) = One(Emits(dp_ready) /\ leg = 1)
  <2>1. CASE Emits(dp_ready)
    <3>1. push # <<>> /\ Head(push) = (leg = 1)
      BY <2>1
    <3> QED BY <2>1, <3>1 DEF PushedOf, Is, One
  <2>2. CASE ~Emits(dp_ready)
    BY <2>2 DEF PushedOf, One
  <2> QED BY <2>1, <2>2
<1>6. PoppedOf(w_last, pop, TRUE) = One(pop /\ Head(w_last))
  <2>1. pop => Head(w_last) \in BOOLEAN
    BY <1>1, <1>2, HeadTailProperties
  <2> QED BY <2>1 DEF PoppedOf, Is, One
<1>7. Len(push) = One(Emits(dp_ready))
  BY DEF One
<1> HIDE DEF pop, push, yes, Flags
<1>8. /\ w_last' \in Seq(BOOLEAN)
      /\ Len(w_last') = Len(w_last) - One(pop) + Len(push)
      /\ Occurrences(w_last', yes) =
           Occurrences(w_last, yes) - PoppedOf(w_last, pop, yes) + PushedOf(push, yes)
  <2>1. w_last \in Seq(Flags) /\ (push = <<>> \/ \E x \in Flags : push = <<x>>)
    BY <1>1, <1>3 DEF Flags
  <2>2. pop \in BOOLEAN /\ (pop => w_last # <<>>)
    BY <1>2
  <2>3. /\ Rest(w_last, pop) \o push \in Seq(Flags)
        /\ Len(Rest(w_last, pop) \o push) = Len(w_last) - One(pop) + Len(push)
        /\ Occurrences(Rest(w_last, pop) \o push, yes) =
             Occurrences(w_last, yes) - PoppedOf(w_last, pop, yes) + PushedOf(push, yes)
    BY <2>1, <2>2, QueueStep
  <2> QED BY <1>4, <2>3 DEF Flags
<1>9. /\ Occurrences(w_last, yes) \in Nat /\ Occurrences(w_last, yes) <= Len(w_last)
      /\ Occurrences(w_last', yes) \in Nat
  BY <1>1, <1>8, OccurrencesType
<1>10. LastsDue = Occurrences(w_last, yes) /\ LastsDue' = Occurrences(w_last', yes)
  BY DEF LastsDue, yes
<1>11. /\ PoppedOf(w_last, pop, yes) = One(pop /\ Head(w_last))
       /\ PushedOf(push, yes) = One(Emits(dp_ready) /\ leg = 1)
  BY <1>5, <1>6 DEF yes
<1>12. Len(w_last') = Len(w_last) - One(pop) + One(Emits(dp_ready))
  BY <1>7, <1>8
<1>13. Occurrences(w_last', yes) =
           Occurrences(w_last, yes) - One(pop /\ Head(w_last)) + One(Emits(dp_ready) /\ leg = 1)
  BY <1>8, <1>11
<1> QED BY <1>8, <1>9, <1>10, <1>12, <1>13 DEF pop

(* The bookkeeping of a cycle, whatever the front end decides. *)
LEMMA BaseStep ==
    ASSUME BaseInv, NEW dp_ready \in BOOLEAN, NEW rsp_ready \in BOOLEAN, NEW w_done \in BOOLEAN,
           NEW req \in Reqs, Cycle(req, dp_ready, rsp_ready, w_done), Allowed,
           r_bus' \in RValues, b_bus' \in BValues, eh' \in EhValues
    PROVE  BaseInv'
<1> DEFINE emits == Emits(dp_ready)
           accepts == Accepts(req, dp_ready)
           delivered == Delivered(rsp_ready)
<1>1. /\ TypeOK /\ BusesOffer /\ AnswersDue /\ Accounts
      /\ Legalizer(req, dp_ready) /\ ReadSide(dp_ready, rsp_ready)
      /\ WriteSide(dp_ready, rsp_ready, w_done) /\ FrontEnd(rsp_ready)
      /\ state' = NextState(rsp_ready) /\ profile' = profile
      /\ num_outst' = (num_outst + One(accepts) - One(delivered)) % CounterLimit
      /\ owed' = owed + One(accepts) - One(delivered)
  BY DEF BaseInv, Cycle
<1>2. /\ emits \in BOOLEAN /\ accepts \in BOOLEAN /\ delivered \in BOOLEAN
  BY DEF Emits, Accepts, Delivered
<1>3. /\ req \in Nat /\ todo \in Nat /\ leg \in Nat /\ (accepts => todo > 0 /\ req > 0)
      /\ (emits => leg > 0 /\ dp_ready)
  <2>1. profile.bursts \subseteq Nat \ {0} /\ todo \in Nat /\ leg \in Nat
    BY <1>1, ProfileTypes DEF TypeOK, Accounts
  <2> QED BY <2>1 DEF Reqs, Accepts, Emits
<1> HIDE DEF emits, accepts, delivered
<1>4. leg' \in Nat /\ todo' \in Nat /\ todo' = todo - One(accepts)
  <2>1. /\ leg' = IF Kill THEN 0 ELSE IF accepts THEN req ELSE leg - One(emits)
        /\ todo' = todo - One(accepts)
    BY <1>1 DEF Legalizer, emits, accepts
  <2> QED BY <1>3, <2>1 DEF One
<1>5. /\ reads \in Nat /\ writes \in Nat /\ reads <= writes /\ writes <= NumAxInFlight
      /\ writes <= Len(w_last) /\ Len(w_last) <= MetaFifoDepth
      /\ w_last \in Seq(BOOLEAN) /\ Len(w_last) \in Nat
      /\ NumAxInFlight \in Nat /\ MetaFifoDepth \in Nat
  <2>1. w_last \in Seq(BOOLEAN)
    BY <1>1 DEF TypeOK
  <2>2. Len(w_last) \in Nat
    BY <2>1, LenProperties
  <2> QED BY <1>1, <2>1, <2>2, ErrorHandlerAssumption DEF TypeOK
<1>6. emits => Len(w_last) < MetaFifoDepth /\ writes < NumAxInFlight
  BY <1>1, <1>3 DEF Legalizer
<1>7. /\ w_last' \in Seq(BOOLEAN)
      /\ Len(w_last') = Len(w_last) - One(WriteTaken(rsp_ready)) + One(emits)
  <2>1. w_last' = Rest(w_last, WriteTaken(rsp_ready))
                      \o (IF Emits(dp_ready) THEN <<leg = 1>> ELSE <<>>)
    BY <1>1 DEF WriteSide
  <2> QED BY <2>1, LastsStep DEF emits
<1>8. /\ WriteTaken(rsp_ready) => Len(w_last) > writes
      /\ b_bus # "none" => Len(w_last) > writes
      /\ r_bus # "none" => reads > 0
  BY <1>1 DEF BusesOffer, WriteTaken
<1>9. /\ writes' = writes - One(w_done) + One(emits)
      /\ w_done => writes > reads
  BY <1>1 DEF WriteSide, emits
<1>10. PICK done \in BOOLEAN :
          /\ done => ReadTaken(rsp_ready)
          /\ reads' = reads - One(done) + One(emits)
  <2> DEFINE d == ReadTaken(rsp_ready) /\ r_bus \in {"ok", "last_err"}
  <2>1. reads' = reads - One(d) + One(emits)
    BY <1>1 DEF ReadSide, emits
  <2>2. d \in BOOLEAN /\ (d => ReadTaken(rsp_ready))
    BY DEF ReadTaken
  <2> HIDE DEF d
  <2> QED BY <2>1, <2>2
<1>11. done => reads > 0
  BY <1>8, <1>10 DEF ReadTaken
<1>12. /\ reads' \in Nat /\ writes' \in Nat /\ reads' <= writes' /\ writes' <= NumAxInFlight
  BY <1>5, <1>6, <1>9, <1>10, <1>11 DEF One
<1>13. writes' <= Len(w_last') /\ Len(w_last') <= MetaFifoDepth
  <2>1. Len(w_last') = Len(w_last) - One(WriteTaken(rsp_ready)) + One(emits)
    BY <1>7
  <2>2. CASE emits
    BY <2>1, <2>2, <1>5, <1>6, <1>8, <1>9 DEF One
  <2>3. CASE ~emits
    BY <2>1, <2>3, <1>5, <1>8, <1>9 DEF One
  <2> QED BY <2>2, <2>3
<1>14. /\ r_bus' # "none" => reads' > 0
  <2>1. Present(r_bus, ReadTaken(rsp_ready), reads' > 0, r_bus')
    BY <1>1 DEF ReadSide
  <2>2. CASE r_bus # "none" /\ ~ReadTaken(rsp_ready)
    <3>1. ~done /\ reads > 0
      BY <1>8, <1>10, <2>2
    <3> QED BY <3>1, <1>5, <1>10 DEF One
  <2>3. CASE ~(r_bus # "none" /\ ~ReadTaken(rsp_ready))
    BY <2>1, <2>3 DEF Present
  <2> QED BY <2>2, <2>3
<1>15. b_bus' # "none" => Len(w_last') > writes'
  <2>1. Present(b_bus, WriteTaken(rsp_ready), Len(w_last') > writes', b_bus')
    BY <1>1 DEF WriteSide
  <2>2. CASE b_bus # "none" /\ ~WriteTaken(rsp_ready)
    BY <2>2, <1>5, <1>7, <1>8, <1>9 DEF One
  <2>3. CASE ~(b_bus # "none" /\ ~WriteTaken(rsp_ready))
    BY <2>1, <2>3 DEF Present
  <2> QED BY <2>2, <2>3
<1>16. num_outst' \in 0..CounterLimit-1
  <2>1. num_outst \in Int /\ One(accepts) \in Int /\ One(delivered) \in Int
    BY <1>1, Limits DEF TypeOK, One
  <2>2. num_outst + One(accepts) - One(delivered) \in Int
    BY <2>1
  <2> DEFINE x == num_outst + One(accepts) - One(delivered)
  <2>3. x \in Int /\ num_outst' = x % CounterLimit
    BY <1>1, <2>2
  <2> HIDE DEF x
  <2> QED BY <2>3, Limits
<1>17. /\ unanswered' \in Nat
       /\ eh' # "none" => unanswered' > 0
  <2> DEFINE acked == eh # "none" /\ EhReady
             seen == RspError /\ rsp_ready
  <2>1. /\ unanswered' = unanswered + One(seen) - One(acked)
        /\ IF eh # "none" /\ ~acked THEN eh' = eh
           ELSE eh' # "none" => unanswered' > 0
    BY <1>1 DEF FrontEnd
  <2>2. unanswered \in Nat /\ (eh # "none" => unanswered > 0)
    BY <1>1 DEF TypeOK, AnswersDue
  <2>3. acked => eh # "none"
    OBVIOUS
  <2> HIDE DEF acked, seen
  <2> QED BY <2>1, <2>2, <2>3 DEF One
<1>18. eh' \in profile'.answers \cup {"none"}
  BY <1>1 DEF Allowed
<1>19. owed' \in Int /\ owed' <= profile'.transfers - todo'
  <2>1. profile.transfers \in Nat /\ owed \in Int /\ owed <= profile.transfers - todo
    BY <1>1, ProfileTypes DEF TypeOK, Accounts
  <2> QED BY <2>1, <1>1, <1>3, <1>4 DEF One
<1>20. state' \in {"IDLE", "WAIT", "WAIT_LAST_W", "EMIT_EXTRA_RSP", "LEG_FLUSH"}
  BY <1>1 DEF TypeOK, NextState
<1>21. /\ r_bus' \in {"none", "ok", "err", "last_err"} /\ b_bus' \in {"none", "ok", "err"}
       /\ eh' \in {"none", "CONTINUE", "ABORT"} /\ profile' \in Profiles
  BY <1>1 DEF RValues, BValues, EhValues, TypeOK
<1>22. TypeOK'
  <2>1. missed' \in Nat
    <3>1. missed \in Nat /\ missed' = missed + MissedNow(rsp_ready)
      BY <1>1 DEF TypeOK, Cycle
    <3> QED BY <3>1 DEF MissedNow, One
  <2> QED BY <2>1, <1>4, <1>7, <1>12, <1>13, <1>16, <1>17, <1>20, <1>21 DEF TypeOK
<1>23. BusesOffer' /\ AnswersDue' /\ Accounts'
  BY <1>4, <1>14, <1>15, <1>17, <1>18, <1>19 DEF BusesOffer, AnswersDue, Accounts
<1> QED BY <1>22, <1>23 DEF BaseInv

(* The handler enters a waiting state with the error it reports, and leaves *)
(* it with the answer it takes.                                            *)
LEMMA AnswerStep ==
    ASSUME BaseInv, WaitsForAnswer, NEW rsp_ready \in BOOLEAN, RspError => rsp_ready,
           FrontEnd(rsp_ready), state' = NextState(rsp_ready)
    PROVE  WaitsForAnswer'
<1> SUFFICES ASSUME state' \in {"WAIT", "WAIT_LAST_W"} PROVE unanswered' > 0
  BY DEF WaitsForAnswer
<1> DEFINE acked == eh # "none" /\ EhReady
<1>1. unanswered \in Nat /\ state \in {"IDLE", "WAIT", "WAIT_LAST_W", "EMIT_EXTRA_RSP", "LEG_FLUSH"}
  BY DEF BaseInv, TypeOK
<1>2. unanswered' = unanswered + One(RspError) - One(acked)
  <2>1. unanswered' = unanswered + One(RspError /\ rsp_ready) - One(acked)
    BY DEF FrontEnd
  <2>2. One(RspError /\ rsp_ready) = One(RspError)
    BY DEF One
  <2> QED BY <2>1, <2>2
<1>3. CASE RspError
  <2>1. state = "IDLE"
    BY <1>3 DEF RspError, RError, WError
  <2>2. ~acked
    BY <2>1 DEF EhReady, Resume, Abort, Answered
  <2> HIDE DEF acked
  <2> QED BY <1>1, <1>2, <1>3, <2>2 DEF One
<1>4. CASE ~RspError
  <2>1. ~RError /\ ~WError
    BY <1>4 DEF RspError
  <2>2. ~Abort /\ ~Resume /\ state' = state
    BY <1>1, <2>1 DEF NextState
  <2>3. ~acked /\ unanswered > 0
    BY <2>2 DEF EhReady, WaitsForAnswer
  <2> HIDE DEF acked
  <2> QED BY <1>1, <1>2, <1>4, <2>3 DEF One
<1> QED BY <1>3, <1>4

(* The extra response of the handler stands in for a last response whose   *)
(* error was taken, until it is delivered.                                 *)
LEMMA ExtraStep ==
    ASSUME BaseInv, Continues, state # "LEG_FLUSH", NEW rsp_ready \in BOOLEAN,
           RspError => rsp_ready, state' = NextState(rsp_ready)
    PROVE  /\ ~Kill /\ state' # "LEG_FLUSH"
           /\ ExtraDue' = ExtraDue + One(WriteTaken(rsp_ready) /\ Head(w_last)) - One(Delivered(rsp_ready))
<1> DEFINE taken == WriteTaken(rsp_ready) /\ Head(w_last)
           delivered == Delivered(rsp_ready)
           before == state \in {"WAIT_LAST_W", "EMIT_EXTRA_RSP"}
           after == state' \in {"WAIT_LAST_W", "EMIT_EXTRA_RSP"}
           Moved == /\ state' # "LEG_FLUSH"
                    /\ \/ (after <=> before) /\ (delivered <=> taken)
                       \/ (after <=> taken) /\ (delivered <=> before)
<1>1. state \in {"IDLE", "WAIT", "WAIT_LAST_W", "EMIT_EXTRA_RSP"} /\ b_bus \in {"none", "ok", "err"}
  BY DEF BaseInv, TypeOK
<1>2. eh \in {"none", "CONTINUE"}
  BY DEF BaseInv, AnswersDue, Continues
<1>3. ~Abort
  BY <1>2 DEF Abort, Answered, IdleAnswer
<1>4. ~Kill
  BY DEF Kill, Flush
<1>5. ExtraDue = One(before) /\ ExtraDue' = One(after)
  BY DEF ExtraDue
<1>6. ASSUME state = "IDLE" PROVE Moved
  <2>1. ~Resume
    BY <1>6 DEF Resume, Answered
  <2>2. CASE RError
    <3>1. state' = "WAIT"
      BY <2>2 DEF NextState
    <3>2. ~taken /\ ~delivered
      BY <2>2, <1>6 DEF WriteTaken, WDpReady, Delivered, RspError
    <3> QED BY <1>6, <3>1, <3>2
  <2>3. CASE ~RError /\ WError
    <3>1. WriteTaken(rsp_ready) /\ ~delivered
      BY <2>3, <1>6 DEF WriteTaken, WDpReady, Delivered, RspError, WError
    <3>2. CASE Head(w_last)
      <4>1. state' = "WAIT_LAST_W"
        BY <2>3, <3>2 DEF NextState
      <4>2. taken
        BY <3>1, <3>2
      <4> QED BY <1>6, <3>1, <4>1, <4>2
    <3>3. CASE ~Head(w_last)
      <4>1. state' = "WAIT"
        BY <2>3, <3>3 DEF NextState
      <4>2. ~taken
        BY <3>3
      <4> QED BY <1>6, <3>1, <4>1, <4>2
    <3> QED BY <3>2, <3>3
  <2>4. CASE ~RError /\ ~WError
    <3>1. state' = "IDLE"
      BY <1>3, <1>4, <1>6, <2>1, <2>4 DEF NextState
    <3>2. taken <=> delivered
      BY <1>1, <1>6, <2>4 DEF WriteTaken, WDpReady, Delivered, RspValid, RspError, WComplete, WError
    <3> QED BY <1>6, <3>1, <3>2
  <2> QED BY <2>2, <2>3, <2>4
<1>7. ASSUME state \in {"WAIT", "WAIT_LAST_W"} PROVE Moved
  <2>1. ~RError /\ ~WError /\ ~WComplete /\ ~taken /\ ~delivered
    BY <1>7 DEF RError, WError, WComplete, WriteTaken, WDpReady, Delivered, RspValid, RspError
  <2>2. state' # "LEG_FLUSH" /\ (after <=> before)
    BY <1>3, <1>4, <1>7, <2>1 DEF NextState
  <2> QED BY <2>1, <2>2
<1>8. ASSUME state = "EMIT_EXTRA_RSP" PROVE Moved
  <2>1. ~RError /\ ~WError /\ ~Resume /\ ~taken /\ (delivered <=> rsp_ready)
    BY <1>8 DEF RError, WError, Resume, Answered, WriteTaken, WDpReady, Delivered, RspValid, RspError
  <2>2. state' = IF rsp_ready THEN "IDLE" ELSE state
    BY <1>3, <1>4, <1>8, <2>1 DEF NextState
  <2> QED BY <1>8, <2>1, <2>2
<1>9. Moved
  BY <1>1, <1>6, <1>7, <1>8
<1> HIDE DEF taken, delivered, before, after
<1>10. One(after) = One(before) + One(taken) - One(delivered)
  BY <1>9 DEF One
<1> QED BY <1>4, <1>5, <1>9, <1>10 DEF taken, delivered

(* What is in the pipeline grows with each transfer accepted and shrinks   *)
(* with each completion delivered.                                         *)
LEMMA PipelineStep ==
    ASSUME BaseInv, Continues, state # "LEG_FLUSH", NEW dp_ready \in BOOLEAN, NEW w_done \in BOOLEAN,
           NEW rsp_ready \in BOOLEAN, RspError => rsp_ready,
           NEW req \in Reqs, Cycle(req, dp_ready, rsp_ready, w_done)
    PROVE  /\ state' # "LEG_FLUSH"
           /\ InPipeline' = InPipeline + One(Accepts(req, dp_ready)) - One(Delivered(rsp_ready))
           /\ InPipeline \in Nat
<1> DEFINE emits == Emits(dp_ready)
           accepts == Accepts(req, dp_ready)
           delivered == Delivered(rsp_ready)
           taken == WriteTaken(rsp_ready) /\ Head(w_last)
<1>1. /\ Legalizer(req, dp_ready) /\ state' = NextState(rsp_ready)
      /\ w_last' = Rest(w_last, WriteTaken(rsp_ready)) \o (IF Emits(dp_ready) THEN <<leg = 1>> ELSE <<>>)
  BY DEF Cycle, WriteSide
<1>2. /\ ~Kill /\ state' # "LEG_FLUSH"
      /\ ExtraDue' = ExtraDue + One(taken) - One(delivered)
  BY <1>1, ExtraStep
<1>3. /\ LastsDue \in Nat /\ LastsDue' \in Nat
      /\ LastsDue' = LastsDue - One(taken) + One(emits /\ leg = 1)
  BY <1>1, LastsStep
<1>4. One(leg' > 0) = One(leg > 0) + One(accepts) - One(emits /\ leg = 1)
  <2>1. leg' = IF accepts THEN req ELSE leg - One(emits)
    BY <1>1, <1>2 DEF Legalizer
  <2>2. leg \in Nat /\ req \in Nat
    <3>1. leg \in Nat /\ profile.bursts \subseteq Nat \ {0}
      BY ProfileTypes DEF BaseInv, TypeOK
    <3> QED BY <3>1 DEF Reqs
  <2>3. accepts => req > 0 /\ leg <= 1 /\ (leg = 1 => emits)
    BY <2>2 DEF Accepts, Emits
  <2>4. emits => leg > 0
    BY DEF Emits
  <2> HIDE DEF accepts, emits
  <2>5. CASE accepts
    BY <2>1, <2>2, <2>3, <2>4, <2>5 DEF One
  <2>6. CASE ~accepts
    BY <2>1, <2>2, <2>4, <2>6 DEF One
  <2> QED BY <2>5, <2>6
<1>5. /\ InPipeline = One(leg > 0) + LastsDue + ExtraDue
      /\ InPipeline' = One(leg' > 0) + LastsDue' + ExtraDue'
  BY DEF InPipeline
<1>6. /\ One(leg > 0) \in Nat /\ ExtraDue \in Nat
      /\ One(accepts) \in Nat /\ One(delivered) \in Nat /\ One(taken) \in Nat /\ One(emits /\ leg = 1) \in Nat
  BY DEF One, ExtraDue
<1> HIDE DEF emits, accepts, delivered, taken
<1>7. InPipeline' = InPipeline + One(accepts) - One(delivered) /\ InPipeline \in Nat
  BY <1>2, <1>3, <1>4, <1>5, <1>6
<1> QED BY <1>2, <1>7 DEF accepts, delivered

----------------------------------------------------------------------------
(* Nothing is under way. *)
LEMMA InitInv == Init => IInv
<1> SUFFICES ASSUME Init PROVE IInv
  OBVIOUS
<1>1. /\ profile \in Profiles /\ state = "IDLE" /\ num_outst = 0
      /\ leg = 0 /\ w_last = <<>> /\ reads = 0 /\ writes = 0
      /\ r_bus = "none" /\ b_bus = "none" /\ eh = "none" /\ unanswered = 0
      /\ owed = 0 /\ missed = 0 /\ todo = profile.transfers
  BY DEF Init
<1>2. profile.transfers \in Nat
  BY <1>1, ProfileTypes
<1>3. w_last \in Seq(BOOLEAN) /\ Len(w_last) = 0
  BY <1>1, EmptySeq
<1>4. 0 \in 0..CounterLimit-1 /\ 0 % CounterLimit = 0
  BY Limits
<1>5. NumAxInFlight \in Nat /\ MetaFifoDepth \in Nat
  BY ErrorHandlerAssumption
<1>6. TypeOK
  BY <1>1, <1>3, <1>4, <1>5 DEF TypeOK
<1>7. BusesOffer /\ AnswersDue /\ Accounts
  BY <1>1, <1>2 DEF BusesOffer, AnswersDue, Accounts
<1>8. InPipeline = 0
  <2>1. LastsDue = 0
    BY <1>1, OccurrencesEmpty DEF LastsDue
  <2> QED BY <1>1, <2>1 DEF InPipeline, ExtraDue, One
<1>9. Counted
  BY <1>1, <1>4, <1>8 DEF Counted
<1> QED BY <1>1, <1>6, <1>7, <1>9 DEF IInv, BaseInv, ErrorDelivered, WaitsForAnswer

(* The bookkeeping in any step. *)
LEMMA NextBase ==
    ASSUME BaseInv, [Next]_vars PROVE BaseInv'
<1>1. CASE Next
  <2>1. PICK rsp_ready \in BOOLEAN, dp_ready \in BOOLEAN, w_done \in BOOLEAN, req \in Reqs :
            Cycle(req, dp_ready, rsp_ready, w_done)
    BY <1>1 DEF Next, Step
  <2>2. r_bus' \in RValues /\ b_bus' \in BValues /\ eh' \in EhValues /\ Allowed
    BY <1>1 DEF Next, Step
  <2> QED BY <2>1, <2>2, BaseStep
<1>2. CASE UNCHANGED vars
  BY <1>2 DEF vars, BaseInv, TypeOK, BusesOffer, AnswersDue, Accounts
<1> QED BY <1>1, <1>2

(* An error missed now stays missed, and one missed earlier is not mended. *)
LEMMA MissedStep ==
    ASSUME BaseInv, NoneMissed', NEW rsp_ready \in BOOLEAN, missed' = missed + MissedNow(rsp_ready)
    PROVE  NoneMissed /\ (RspError => rsp_ready)
<1>1. missed \in Nat /\ missed' = 0
  BY DEF BaseInv, TypeOK, NoneMissed
<1> QED BY <1>1 DEF NoneMissed, MissedNow, One

(* What every front end can rely on that took the errors reported. *)
LEMMA NextInv ==
    ASSUME IInv, [Next]_vars PROVE IInv'
<1>1. BaseInv /\ ErrorDelivered /\ Counted /\ BaseInv'
  BY NextBase DEF IInv
<1>2. CASE Next
  <2>1. PICK rsp_ready \in BOOLEAN, dp_ready \in BOOLEAN, w_done \in BOOLEAN, req \in Reqs :
            Cycle(req, dp_ready, rsp_ready, w_done)
    BY <1>2 DEF Next, Step
  <2>2. /\ FrontEnd(rsp_ready) /\ state' = NextState(rsp_ready) /\ profile' = profile
        /\ missed' = missed + MissedNow(rsp_ready)
    BY <2>1 DEF Cycle
  <2>3. ErrorDelivered'
    <3> SUFFICES ASSUME NoneMissed' PROVE WaitsForAnswer'
      BY DEF ErrorDelivered
    <3>1. NoneMissed /\ (RspError => rsp_ready)
      BY <1>1, <2>2, MissedStep
    <3>2. WaitsForAnswer
      BY <1>1, <3>1 DEF ErrorDelivered
    <3> QED BY <1>1, <2>2, <3>1, <3>2, AnswerStep
  <2>4. ASSUME Continues, NoneMissed'
        PROVE  /\ state' # "LEG_FLUSH" /\ owed' = InPipeline'
               /\ num_outst' = owed' % CounterLimit
    <3> DEFINE more == One(Accepts(req, dp_ready)) - One(Delivered(rsp_ready))
    <3>0. NoneMissed /\ (RspError => rsp_ready)
      BY <1>1, <2>2, <2>4, MissedStep
    <3>1. state # "LEG_FLUSH" /\ owed = InPipeline /\ num_outst = owed % CounterLimit
      BY <1>1, <2>4, <3>0 DEF Counted
    <3>2. /\ state' # "LEG_FLUSH" /\ InPipeline \in Nat
          /\ InPipeline' = InPipeline + One(Accepts(req, dp_ready)) - One(Delivered(rsp_ready))
      BY <1>1, <2>1, <2>4, <3>0, <3>1, PipelineStep
    <3>3. more \in Int /\ One(Accepts(req, dp_ready)) \in Int /\ One(Delivered(rsp_ready)) \in Int
      BY DEF One
    <3>4. /\ owed' = owed + One(Accepts(req, dp_ready)) - One(Delivered(rsp_ready))
          /\ num_outst' = (num_outst + One(Accepts(req, dp_ready)) - One(Delivered(rsp_ready))) % CounterLimit
      BY <2>1 DEF Cycle
    <3>5. owed \in Int /\ num_outst \in Int
      BY <1>1, Limits DEF BaseInv, Accounts, TypeOK
    <3>6. owed' = owed + more /\ num_outst' = (num_outst + more) % CounterLimit
      <4>1. num_outst + One(Accepts(req, dp_ready)) - One(Delivered(rsp_ready)) = num_outst + more
        BY <3>3, <3>5
      <4> QED BY <3>3, <3>4, <3>5, <4>1
    <3>7. owed' = InPipeline'
      BY <3>1, <3>2, <3>4
    <3> HIDE DEF more
    <3>8. ((owed % CounterLimit) + more) % CounterLimit = (owed + more) % CounterLimit
      BY <3>3, <3>5, Limits, ModAdd
    <3> QED BY <3>1, <3>2, <3>6, <3>7, <3>8
  <2>5. Counted'
    BY <2>2, <2>4 DEF Counted, Continues
  <2> QED BY <1>1, <2>3, <2>5 DEF IInv
<1>3. CASE UNCHANGED vars
  BY <1>3 DEF vars, IInv, BaseInv, TypeOK, BusesOffer, AnswersDue, Accounts, ErrorDelivered,
              WaitsForAnswer, NoneMissed, Counted, Continues, InPipeline, LastsDue, ExtraDue
<1> QED BY <1>2, <1>3

(* Every queue keeps its depth and every count its sign, also when the     *)
(* front end stalls responses.                                             *)
THEOREM TypeCorrect == Spec => []TypeOK
<1>1. Init => BaseInv
  BY InitInv DEF IInv
<1>2. BaseInv /\ [Next]_vars => BaseInv'
  BY NextBase
<1>3. BaseInv => TypeOK
  BY DEF BaseInv
<1> QED BY <1>1, <1>2, <1>3, PTL DEF Spec

(* The invariant the other theorems rest on, of every front end. *)
THEOREM Invariance == Spec => []IInv
<1>1. Init => IInv
  BY InitInv
<1>2. IInv /\ [Next]_vars => IInv'
  BY NextInv
<1> QED BY <1>1, <1>2, PTL DEF Spec

(* The handler waits only for the answer to an error the front end has     *)
(* seen, whatever is continued or aborted and however responses are        *)
(* stalled, until an error meets a front end that is not ready             *)
(* (idma_error_handler.sv:240-275).                                        *)
THEOREM ErrorsAreSeen == Spec => []ErrorDelivered
<1>1. IInv => ErrorDelivered
  BY DEF IInv
<1> QED BY <1>1, Invariance, PTL

(* While errors are continued and taken, the counter is the number of      *)
(* transfers in flight as far as its width goes, with any number of them:  *)
(* it goes wrong by its wrap alone (idma_error_handler.sv:104,186-200).    *)
THEOREM CountIsExact == Spec => []CountExact
<1>1. IInv => CountExact
  BY DEF IInv, Counted, CountExact
<1> QED BY <1>1, Invariance, PTL

(* And no completion is delivered that no transfer is owed.                *)
THEOREM NothingSpurious == Spec => []NoSpuriousCompletion
<1>1. IInv => NoSpuriousCompletion
  BY DEF IInv, Counted, NoSpuriousCompletion
<1> QED BY <1>1, Invariance, PTL

(* The pipeline holds more transfers than the counter has values: the one  *)
(* in the legalizer, those behind the last flags, and the one whose extra  *)
(* response is due, whose flag is gone.  The counter is therefore exact    *)
(* only below its limit, and at most two transfers are beyond the depth it *)
(* is sized for (idma_error_handler.sv:102-104).                           *)
PipelineBound ==
    /\ InPipeline <= MetaFifoDepth + 2
    /\ (Continues /\ NoneMissed /\ InPipeline < CounterLimit) => num_outst = InPipeline

THEOREM CounterRange == Spec => []PipelineBound
<1>1. ASSUME IInv PROVE PipelineBound
  <2>1. /\ LastsDue \in Nat /\ LastsDue <= Len(w_last) /\ Len(w_last) <= MetaFifoDepth
        /\ Len(w_last) \in Nat
    <3>1. w_last \in Seq(BOOLEAN) /\ Len(w_last) <= MetaFifoDepth
      BY <1>1 DEF IInv, BaseInv, TypeOK
    <3> QED BY <3>1, OccurrencesType, LenProperties DEF LastsDue
  <2>2. InPipeline \in Nat /\ InPipeline <= MetaFifoDepth + 2
    BY <2>1, ErrorHandlerAssumption DEF InPipeline, ExtraDue, One
  <2>3. ASSUME Continues, NoneMissed, InPipeline < CounterLimit PROVE num_outst = InPipeline
    <3>1. num_outst = InPipeline % CounterLimit
      BY <1>1, <2>3 DEF IInv, Counted
    <3> QED BY <2>2, <2>3, <3>1, Limits
  <2> QED BY <2>2, <2>3 DEF PipelineBound
<1> QED BY <1>1, Invariance, PTL

============================================================================
