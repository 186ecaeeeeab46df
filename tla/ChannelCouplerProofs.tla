----------------------- MODULE ChannelCouplerProofs ------------------------
(***************************************************************************)
(* Proofs about the channel coupler, for every number of transfers in      *)
(* flight.  The argument is a balance: the coupled AWs in the store less   *)
(* the coupled reads still to begin less the grants held.  A cycle never   *)
(* makes it negative, and changes it only if a decoupled AW is at the      *)
(* head, which may use up the grant of a coupled one.  As the store holds  *)
(* NumAxInFlight AWs at most, the grant counter cannot wrap.               *)
(***************************************************************************)
EXTENDS ChannelCoupler, CommonLemmas

Balance == CoupledIn(aw_store) - CoupledIn(reads) - aw_to_send - One(CoupledGrant)

(* A grant in the register is for an AW that is in the store. *)
HeldGrant == aw_granted => AwValid

IInv == TypeOK /\ HeldGrant /\ Balance >= 0

(* The counter is never about to count beyond its last value. *)
NoWrap == (aw_granted /\ First(TRUE)) => aw_to_send + 1 < GrantLimit

----------------------------------------------------------------------------
(* The counter has a value for every AW the store can hold.               *)
LEMMA CounterPositive == GrantLimit \in Nat /\ GrantLimit >= NumAxInFlight /\ NumAxInFlight \in Nat
<1>1. 2^CounterWidth \in Int
  BY CouplerAssumption
<1> QED BY <1>1, CouplerAssumption DEF GrantLimit

(* Nothing held, nothing owed.                                             *)
LEMMA InitInv == Init => IInv /\ Balance = 0
<1> SUFFICES ASSUME Init PROVE IInv /\ Balance = 0
  OBVIOUS
<1>1. aw_store = <<>> /\ reads = <<>> /\ aw_to_send = 0 /\ aw_granted = FALSE
  BY DEF Init
<1>2. <<>> \in Seq(DecoupleAw) /\ Len(<<>>) = 0
  BY EmptySeq
<1>3. 0 \in 0..GrantLimit-1 /\ 0 <= NumAxInFlight
  BY CouplerAssumption, CounterPositive
<1>4. TypeOK
  BY <1>1, <1>2, <1>3 DEF TypeOK
<1>5. CoupledIn(<<>>) = 0
  BY OccurrencesEmpty DEF CoupledIn
<1>6. Balance = 0
  BY <1>1, <1>5 DEF Balance, CoupledGrant, One
<1> QED BY <1>1, <1>4, <1>6 DEF IInv, HeldGrant

(* The numbers of a state: how many coupled entries the queues hold.       *)
LEMMA Counts ==
    ASSUME TypeOK
    PROVE  /\ aw_store \in Seq(DecoupleAw) /\ reads \in Seq(DecoupleAw)
           /\ aw_to_send \in Nat /\ aw_granted \in BOOLEAN
           /\ CoupledIn(aw_store) \in Nat /\ CoupledIn(reads) \in Nat
           /\ CoupledIn(aw_store) <= NumAxInFlight
           /\ HeadDecoupled => CoupledIn(aw_store) + 1 <= NumAxInFlight
           /\ reads # <<>> /\ ~Head(reads) => CoupledIn(reads) >= 1
           /\ CoupledIn(aw_store) > 0 => AwValid
<1>1. /\ aw_store \in Seq(DecoupleAw) /\ reads \in Seq(DecoupleAw)
      /\ aw_to_send \in Nat /\ aw_granted \in BOOLEAN
      /\ Len(aw_store) <= NumAxInFlight
  BY CounterPositive DEF TypeOK
<1>2. /\ CoupledIn(aw_store) \in Nat /\ CoupledIn(aw_store) <= Len(aw_store)
      /\ CoupledIn(reads) \in Nat
  BY <1>1, OccurrencesType DEF CoupledIn
<1>3. CoupledIn(aw_store) <= NumAxInFlight
  BY <1>1, <1>2, CounterPositive
<1>4. ASSUME HeadDecoupled
      PROVE  CoupledIn(aw_store) + 1 <= NumAxInFlight
  <2>1. aw_store # <<>> /\ Head(aw_store)
    BY <1>4 DEF HeadDecoupled, AwValid
  <2>2. Head(aw_store) # FALSE
    BY <2>1
  <2>3. CoupledIn(aw_store) = CoupledIn(Tail(aw_store)) + 0
    BY <1>1, <2>1, <2>2, OccurrencesPop DEF CoupledIn, Is
  <2>4. /\ Tail(aw_store) \in Seq(DecoupleAw) /\ Len(Tail(aw_store)) = Len(aw_store) - 1
        /\ Len(aw_store) \in Nat
    BY <1>1, <2>1, HeadTailProperties, LenProperties
  <2>5. CoupledIn(Tail(aw_store)) <= Len(Tail(aw_store)) /\ CoupledIn(Tail(aw_store)) \in Nat
    BY <2>4, OccurrencesType DEF CoupledIn
  <2> QED BY <1>1, <2>3, <2>4, <2>5, CounterPositive
<1>5. ASSUME reads # <<>>, ~Head(reads)
      PROVE  CoupledIn(reads) >= 1
  <2>1. Head(reads) = FALSE
    <3>1. Head(reads) \in BOOLEAN
      BY <1>1, <1>5, HeadTailProperties, CouplerAssumption
    <3> QED BY <1>5, <3>1
  <2>2. CoupledIn(reads) = CoupledIn(Tail(reads)) + 1
    BY <1>1, <1>5, <2>1, OccurrencesPop DEF CoupledIn, Is
  <2>3. CoupledIn(Tail(reads)) \in Nat
    BY <1>1, <1>5, HeadTailProperties, OccurrencesType DEF CoupledIn
  <2> QED BY <2>2, <2>3
<1>6. ASSUME CoupledIn(aw_store) > 0 PROVE AwValid
  <2>1. CoupledIn(<<>>) = 0
    BY OccurrencesEmpty DEF CoupledIn
  <2> QED BY <1>6, <2>1 DEF AwValid
<1> QED BY <1>1, <1>2, <1>3, <1>4, <1>5, <1>6

(* A grant too many for the counter would be one more than AWs in store.   *)
LEMMA InvNoWrap == IInv => NoWrap
<1> SUFFICES ASSUME IInv, aw_granted, First(TRUE) PROVE aw_to_send + 1 < GrantLimit
  BY DEF NoWrap
<1>1. TypeOK /\ Balance >= 0
  BY DEF IInv
<1>2. CoupledIn(reads) >= 1
  BY <1>1, Counts DEF First
<1>3. /\ CoupledIn(aw_store) \in Nat /\ CoupledIn(reads) \in Nat /\ aw_to_send \in Nat
      /\ CoupledIn(aw_store) <= NumAxInFlight
      /\ HeadDecoupled => CoupledIn(aw_store) + 1 <= NumAxInFlight
      /\ GrantLimit \in Nat /\ NumAxInFlight \in Nat /\ GrantLimit >= NumAxInFlight
  BY <1>1, Counts, CounterPositive
<1>4. CASE HeadDecoupled
  <2>1. One(CoupledGrant) = 0
    BY <1>4 DEF CoupledGrant, One
  <2>2. CoupledIn(aw_store) - CoupledIn(reads) - aw_to_send - 0 >= 0
    BY <1>1, <2>1 DEF Balance
  <2> QED BY <1>2, <1>3, <1>4, <2>2
<1>5. CASE ~HeadDecoupled
  <2>1. One(CoupledGrant) = 1
    BY <1>5 DEF CoupledGrant, One
  <2>2. CoupledIn(aw_store) - CoupledIn(reads) - aw_to_send - 1 >= 0
    BY <1>1, <2>1 DEF Balance
  <2> QED BY <1>2, <1>3, <2>2
<1> QED BY <1>4, <1>5

(* The counter in one cycle.                                               *)
LEMMA CounterStep ==
    ASSUME IInv, NEW beat \in BOOLEAN
    PROVE  /\ NextAwToSend(beat) \in 0..GrantLimit-1
           /\ NextAwToSend(beat) =
                IF aw_granted THEN aw_to_send + One(First(beat))
                ELSE IF First(beat) \/ aw_to_send = 0 THEN aw_to_send
                ELSE aw_to_send - 1
<1>1. aw_to_send \in 0..GrantLimit-1 /\ GrantLimit \in Nat /\ aw_granted \in BOOLEAN
  BY CounterPositive DEF IInv, TypeOK
<1>2. CASE aw_granted /\ First(beat)
  <2>1. aw_to_send + 1 < GrantLimit
    BY <1>2, InvNoWrap DEF NoWrap, First
  <2>2. (aw_to_send + 1) % GrantLimit = aw_to_send + 1
    BY <1>1, <2>1
  <2>3. NextAwToSend(beat) = aw_to_send + 1
    BY <1>2, <2>2 DEF NextAwToSend, AwReadyDecoupled
  <2> QED BY <1>1, <1>2, <2>1, <2>3 DEF One
<1>3. CASE aw_granted /\ ~First(beat)
  <2>1. NextAwToSend(beat) = aw_to_send
    BY <1>3 DEF NextAwToSend, AwReadyDecoupled
  <2> QED BY <1>1, <1>3, <2>1 DEF One
<1>4. CASE ~aw_granted /\ (First(beat) \/ aw_to_send = 0)
  <2>1. NextAwToSend(beat) = aw_to_send
    BY <1>4 DEF NextAwToSend, AwReadyDecoupled
  <2> QED BY <1>1, <1>4, <2>1
<1>5. CASE ~aw_granted /\ ~First(beat) /\ aw_to_send # 0
  <2>1. NextAwToSend(beat) = aw_to_send - 1
    BY <1>5 DEF NextAwToSend, AwReadyDecoupled
  <2> QED BY <1>1, <1>5, <2>1
<1> QED BY <1>2, <1>3, <1>4, <1>5

(* One cycle.                                                              *)
LEMMA CycleStep ==
    ASSUME IInv, NEW push \in Pushes, NEW beat \in BOOLEAN, NEW aw_ready \in BOOLEAN,
           Cycle(push, beat, aw_ready)
    PROVE  IInv' /\ (~HeadDecoupled => Balance' = Balance)
<1> DEFINE out == AwValidOut(beat)
           pop == out /\ aw_ready
           l   == PushedOf(push, FALSE)
           no  == FALSE
<1>1. TypeOK /\ HeldGrant /\ Balance >= 0
  BY DEF IInv
<1>2. /\ aw_store \in Seq(DecoupleAw) /\ reads \in Seq(DecoupleAw) /\ DecoupleAw \subseteq BOOLEAN
      /\ Len(aw_store) <= NumAxInFlight /\ Len(reads) <= NumAxInFlight
      /\ Len(aw_store) \in Nat /\ Len(reads) \in Nat
      /\ aw_granted \in BOOLEAN /\ HeadDecoupled \in BOOLEAN /\ First(beat) \in BOOLEAN
  BY <1>1, CouplerAssumption, LenProperties, Counts DEF TypeOK, HeadDecoupled, First, AwValid
<1>3. out <=> aw_granted \/ HeadDecoupled \/ (~aw_granted /\ (First(beat) \/ aw_to_send # 0))
  BY DEF AwValidOut, AwSent, AwReadyDecoupled
<1>4. out => AwValid
  <2>1. CASE aw_granted
    BY <1>1, <2>1 DEF HeldGrant
  <2>2. CASE HeadDecoupled
    BY <2>2 DEF HeadDecoupled
  <2>3. CASE ~aw_granted /\ (First(beat) \/ aw_to_send # 0)
    <3>1. Balance = CoupledIn(aw_store) - CoupledIn(reads) - aw_to_send - 0
      BY <2>3 DEF Balance, CoupledGrant, One
    <3>2. First(beat) => CoupledIn(reads) >= 1
      BY <1>1, Counts DEF First
    <3>3. CoupledIn(aw_store) \in Nat /\ CoupledIn(reads) \in Nat /\ aw_to_send \in Nat
      BY <1>1, Counts
    <3>4. CoupledIn(aw_store) > 0
      BY <1>1, <2>3, <3>1, <3>2, <3>3
    <3> QED BY <1>1, <3>4, Counts
  <2> QED BY <1>3, <2>1, <2>2, <2>3
<1>5. /\ beat => reads # <<>>
      /\ push # <<>> => Len(aw_store) < NumAxInFlight /\ Len(reads) < NumAxInFlight
      /\ aw_to_send' = NextAwToSend(beat)
      /\ aw_granted' = (out /\ ~pop)
      /\ aw_store' = Rest(aw_store, pop) \o push
      /\ reads' = Rest(reads, beat) \o push
  <2>1. (pop /\ AwValid) <=> pop
    BY <1>4
  <2> QED BY <2>1 DEF Cycle
<1>6. push = <<>> \/ \E x \in DecoupleAw : push = <<x>>
  BY DEF Pushes
<1>7. pop \in BOOLEAN /\ (pop => aw_store # <<>>)
  BY <1>4 DEF AwValid, AwValidOut, AwSent
<1>8. out \in BOOLEAN
  BY DEF AwValidOut, AwSent
<1> HIDE DEF out, pop, l, no
<1>9. /\ aw_store' \in Seq(DecoupleAw)
      /\ Len(aw_store') = Len(aw_store) - One(pop) + Len(push)
      /\ CoupledIn(aw_store') = CoupledIn(aw_store) - PoppedOf(aw_store, pop, FALSE) + l
  <2>1. aw_store' = Rest(aw_store, pop) \o push
    BY <1>5
  <2>2. /\ aw_store' \in Seq(DecoupleAw)
        /\ Len(aw_store') = Len(aw_store) - One(pop) + Len(push)
        /\ Occurrences(aw_store', no) =
             Occurrences(aw_store, no) - PoppedOf(aw_store, pop, no) + PushedOf(push, no)
    BY <1>2, <1>6, <1>7, <2>1, QueueStep, SMTT(60)
  <2> QED BY <2>2 DEF CoupledIn, l, no
<1>10. /\ reads' \in Seq(DecoupleAw)
       /\ Len(reads') = Len(reads) - One(beat) + Len(push)
       /\ CoupledIn(reads') = CoupledIn(reads) - PoppedOf(reads, beat, FALSE) + l
  <2>1. reads' = Rest(reads, beat) \o push /\ (beat => reads # <<>>)
    BY <1>5
  <2>2. /\ reads' \in Seq(DecoupleAw)
        /\ Len(reads') = Len(reads) - One(beat) + Len(push)
        /\ Occurrences(reads', no) =
             Occurrences(reads, no) - PoppedOf(reads, beat, no) + PushedOf(push, no)
    BY <1>2, <1>6, <2>1, QueueStep, SMTT(60)
  <2> QED BY <2>2 DEF CoupledIn, l, no
<1>11. PoppedOf(aw_store, pop, FALSE) = One(pop /\ ~HeadDecoupled)
  <2>1. pop => Head(aw_store) \in BOOLEAN /\ AwValid
    BY <1>2, <1>7, HeadTailProperties DEF AwValid
  <2> QED BY <2>1 DEF Is, One, HeadDecoupled, PoppedOf
<1>12. PoppedOf(reads, beat, FALSE) = One(First(beat))
  <2>1. beat => Head(reads) \in BOOLEAN /\ reads # <<>>
    BY <1>2, <1>5, HeadTailProperties
  <2> QED BY <2>1 DEF Is, One, First, PoppedOf
<1>13. l \in Nat
  BY DEF l, Is, PushedOf
<1>14. aw_to_send' \in 0..GrantLimit-1
  BY <1>5, CounterStep
<1>15. TypeOK'
  <2>1. Len(aw_store') <= NumAxInFlight /\ Len(reads') <= NumAxInFlight
    <3>1. Len(push) = 0 \/ (Len(push) = 1 /\ push # <<>>)
      BY <1>6, EmptySeq
    <3>3. Len(push) = 1 => Len(aw_store) + 1 <= NumAxInFlight /\ Len(reads) + 1 <= NumAxInFlight
      BY <1>2, <1>5, <3>1, CounterPositive
    <3>4. Len(aw_store') = Len(aw_store) - One(pop) + Len(push)
      BY <1>9
    <3>5. Len(reads') = Len(reads) - One(beat) + Len(push)
      BY <1>10
    <3>6. Len(aw_store) \in Nat /\ Len(reads) \in Nat
      BY <1>2
    <3>7. Len(aw_store) <= NumAxInFlight /\ Len(reads) <= NumAxInFlight
      BY <1>2
    <3>8. CASE Len(push) = 0
      BY <3>4, <3>5, <3>6, <3>7, <3>8, CounterPositive DEF One
    <3>9. CASE Len(push) = 1
      BY <3>3, <3>4, <3>5, <3>6, <3>9, CounterPositive DEF One
    <3> QED BY <3>1, <3>8, <3>9
  <2>2. aw_granted' \in BOOLEAN
    BY <1>5
  <2> QED BY <1>9, <1>10, <1>14, <2>1, <2>2 DEF TypeOK
<1>16. ASSUME aw_granted'
       PROVE  AwValid' /\ (HeadDecoupled' <=> HeadDecoupled)
  <2>1. out /\ ~pop
    BY <1>5, <1>16
  <2>2. aw_store # <<>> /\ aw_store' = aw_store \o push
    BY <1>4, <1>5, <2>1 DEF AwValid, Rest
  <2>3. push \in Seq(DecoupleAw)
    <3>1. CASE push = <<>>
      BY <3>1, EmptySeq
    <3>2. ASSUME NEW x \in DecoupleAw, push = <<x>> PROVE push \in Seq(DecoupleAw)
      BY <3>2
    <3> QED BY <1>6, <3>1, <3>2
  <2>4. aw_store' # <<>> /\ Head(aw_store') = Head(aw_store)
    BY <1>2, <2>2, <2>3
  <2> QED BY <2>2, <2>4 DEF AwValid, HeadDecoupled
<1>17. One(CoupledGrant') = One(out /\ ~pop /\ ~HeadDecoupled)
  <2>1. CoupledGrant' <=> (aw_granted' /\ ~HeadDecoupled')
    BY DEF CoupledGrant
  <2>2. aw_granted' <=> (out /\ ~pop)
    BY <1>5
  <2>3. CoupledGrant' <=> (out /\ ~pop /\ ~HeadDecoupled)
    BY <1>16, <2>1, <2>2
  <2> QED BY <2>3 DEF One
<1> DEFINE cs == CoupledIn(aw_store)   cs2 == CoupledIn(aw_store')
           cr == CoupledIn(reads)      cr2 == CoupledIn(reads')
           cnt == aw_to_send           cnt2 == aw_to_send'
           g == aw_granted             d == HeadDecoupled      f == First(beat)
<1>18. /\ cs \in Nat /\ cr \in Nat /\ cnt \in Nat /\ cnt2 \in Int
       /\ g \in BOOLEAN /\ d \in BOOLEAN /\ f \in BOOLEAN
  <2>1. CoupledIn(aw_store) \in Nat /\ CoupledIn(reads) \in Nat /\ aw_to_send \in Nat
    BY <1>1, Counts
  <2>2. aw_to_send' \in Int
    BY <1>14, CounterPositive
  <2> QED BY <1>2, <2>1, <2>2
<1>19. cs2 = cs - One(pop /\ ~d) + l /\ cr2 = cr - One(f) + l
  BY <1>9, <1>10, <1>11, <1>12
<1>20. cs2 \in Int /\ cr2 \in Int
  BY <1>13, <1>18, <1>19 DEF One
<1>21. cnt2 = IF g THEN cnt + One(f) ELSE IF f \/ cnt = 0 THEN cnt ELSE cnt - 1
  BY <1>5, CounterStep
<1>22. Balance = cs - cr - cnt - One(g /\ ~d)
  BY DEF Balance, CoupledGrant
<1>23. Balance' = cs2 - cr2 - cnt2 - One(out /\ ~pop /\ ~d)
  BY <1>17 DEF Balance
<1>24. (out <=> g \/ d \/ (~g /\ (f \/ cnt # 0))) /\ (pop => out)
  BY <1>3 DEF pop
<1> HIDE DEF cs, cs2, cr, cr2, cnt, cnt2, g, d, f
<1>25. Balance' >= 0 /\ (~d => Balance' = Balance)
  BY <1>1, <1>7, <1>8, <1>13, <1>18, <1>19, <1>20, <1>21, <1>22, <1>23, <1>24 DEF One
<1> QED BY <1>15, <1>16, <1>25 DEF IInv, HeldGrant, d

(* One step or none.                                                       *)
LEMMA NextStep ==
    ASSUME IInv, [Next]_vars
    PROVE  IInv' /\ (~HeadDecoupled => Balance' = Balance)
<1>1. CASE Next
  BY <1>1, CycleStep DEF Next
<1>2. CASE UNCHANGED vars
  BY <1>2 DEF vars, IInv, TypeOK, HeldGrant, Balance, CoupledGrant, HeadDecoupled, AwValid, CoupledIn
<1> QED BY <1>1, <1>2

(* No grant is given without a read that began, coupled or not.            *)
THEOREM Invariance == Spec => []IInv
<1>1. Init => IInv
  BY InitInv
<1>2. IInv /\ [Next]_vars => IInv'
  BY NextStep
<1> QED BY <1>1, <1>2, PTL DEF Spec

(* A coupled AW never passes the first beat of its read, however coupled   *)
(* and decoupled transfers are mixed.                                      *)
THEOREM AwNeverAhead == Spec => []AwAfterR
<1>1. IInv => AwAfterR
  <2> SUFFICES ASSUME IInv PROVE AwAfterR
    OBVIOUS
  <2>1. CoupledIn(aw_store) \in Nat /\ CoupledIn(reads) \in Nat /\ aw_to_send \in Nat
    BY Counts DEF IInv
  <2>2. One(CoupledGrant) \in Nat
    BY DEF One
  <2> QED BY <2>1, <2>2 DEF IInv, Balance, AwAfterR
<1> QED BY <1>1, Invariance, PTL

(* The grant counter does not wrap, whatever the mix of transfers.         *)
THEOREM CounterNeverWraps == Spec => []NoWrap
<1> QED BY InvNoWrap, Invariance, PTL

(* With coupled transfers only, each coupled AW in the store waits for its *)
(* read or holds exactly one grant.                                        *)
THEOREM GrantsExact ==
    ASSUME DecoupleAw = {FALSE}
    PROVE  Spec => []GrantsMatchAws
<1> DEFINE J == IInv /\ Balance = 0
<1>1. Init => J
  BY InitInv
<1>2. IInv => ~HeadDecoupled
  <2> SUFFICES ASSUME IInv, aw_store # <<>> PROVE ~Head(aw_store)
    BY DEF HeadDecoupled, AwValid
  <2>1. Head(aw_store) \in {FALSE}
    BY HeadTailProperties DEF IInv, TypeOK
  <2> QED BY <2>1
<1>3. J /\ [Next]_vars => J'
  BY <1>2, NextStep
<1>4. J => GrantsMatchAws
  <2> SUFFICES ASSUME J PROVE GrantsMatchAws
    OBVIOUS
  <2>1. CoupledIn(aw_store) \in Nat /\ CoupledIn(reads) \in Nat /\ aw_to_send \in Nat
    BY Counts DEF IInv
  <2>2. One(CoupledGrant) = (IF CoupledGrant THEN 1 ELSE 0) /\ One(CoupledGrant) \in Nat
    BY DEF One
  <2> QED BY <2>1, <2>2 DEF Balance, GrantsMatchAws
<1> HIDE DEF J
<1> QED BY <1>1, <1>3, <1>4, PTL DEF Spec

============================================================================
