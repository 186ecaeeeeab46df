--------------------------- MODULE NdMidendProofs ---------------------------
(***************************************************************************)
(* Proofs about the n-dimensional midend for every number of dimensions,   *)
(* counter width and set of requests: the counters stay within the         *)
(* repetitions asked for, a transfer has exactly one last flag, on its     *)
(* final burst, and each burst has the address the nested loops give it.   *)
(*                                                                         *)
(* The counters, less one, are the digits of the number of bursts sent,    *)
(* in the mixed base of the repetitions.  A burst adds one: the carry      *)
(* stops at the first dimension that is not done, and this is the one      *)
(* whose stride is added.                                                  *)
(***************************************************************************)
EXTENDS NdMidend, CommonLemmas

(* A request without repetitions sends nothing, and nothing was sent of a  *)
(* request that is not there yet.                                          *)
NothingSent == ~BurstValid => sent = 0

IInv == TypeOK /\ NothingSent /\ OneAnswerPerTransfer

----------------------------------------------------------------------------
(* A request of the right type has a limit of at least one per dimension. *)
LEMMA LimitPositive ==
    ASSUME req \in RequestType, valid \in BOOLEAN, NEW d \in Dims
    PROVE  /\ Rep(d) \in 0..MaxReps-1
           /\ Limit(d) \in 1..MaxReps
<1>1. MaxReps \in Nat /\ MaxReps > 1
  BY CountersHoldOne
<1>2. req.reps[d] \in Nat
  BY DEF RequestType
<1>3. \A x, m \in Nat : m > 0 => x % m \in 0..m-1
  OBVIOUS
<1>4. Rep(d) \in 0..MaxReps-1
  BY <1>1, <1>2, <1>3 DEF Rep
<1> QED BY <1>1, <1>4 DEF Limit

(* It holds after reset.                                                   *)
LEMMA InitInv == Init => IInv
<1> SUFFICES ASSUME Init PROVE IInv
  OBVIOUS
<1> USE DEF Init
<1>1. req \in RequestType
  BY NdMidendAssumption
<1>2. \A d \in Dims : Limit(d) = 1
  BY DEF Limit, Rep
<1>3. TypeOK
  <2>1. NumDim - 1 \in 0..NumDim-1 /\ 0 \in 0..AddrSpace-1
    BY NdMidendAssumption
  <2>2. counter \in [Dims -> Nat] /\ \A d \in Dims : counter[d] \in 1..Limit(d)
    BY <1>2
  <2>3. backend \in Seq(BOOLEAN)
    BY EmptySeq
  <2>4. addr \in [Sides -> 0..AddrSpace-1]
    BY <2>1
  <2>5. stride_sel \in 0..NumDim-1 /\ valid \in BOOLEAN /\ burst_sent \in BOOLEAN
    BY <2>1
  <2>6. sent \in Nat /\ open \in Int
    OBVIOUS
  <2> QED BY <1>1, <2>2, <2>3, <2>4, <2>5, <2>6, Zenon DEF TypeOK
<1>4. OneAnswerPerTransfer
  <2>1. Occurrences(<<>>, TRUE) = 0
    BY OccurrencesEmpty
  <2>2. Lasts(backend) = 0
    BY <2>1, Zenon DEF Lasts
  <2>3. ~(sent > 0)
    OBVIOUS
  <2>4. One(sent > 0) = 0
    BY <2>3, Zenon DEF One
  <2>5. open = 0
    OBVIOUS
  <2> QED BY <2>2, <2>4, <2>5 DEF OneAnswerPerTransfer
<1> QED BY <1>3, <1>4 DEF IInv, NothingSent

(* A counter that counts is below its limit, so it does not wrap.          *)
LEMMA CounterMoves ==
    ASSUME TypeOK, NEW ready \in BOOLEAN, NEW d \in Dims
    PROVE  /\ NextCounter(d, ready) = IF StageClear(d, ready) THEN 1
                                      ELSE IF StageEn(d, ready) THEN counter[d] + 1
                                      ELSE counter[d]
           /\ valid => NextCounter(d, ready) \in 1..Limit(d)
<1>1. MaxReps \in Nat /\ MaxReps > 1
  BY CountersHoldOne
<1>2. /\ Limit(d) \in 1..MaxReps /\ Rep(d) \in 0..MaxReps-1
      /\ counter[d] \in Nat /\ counter[d] \in 1..Limit(d)
  BY LimitPositive DEF TypeOK
<1>3. CASE StageClear(d, ready)
  BY <1>2, <1>3 DEF NextCounter
<1>4. CASE ~StageClear(d, ready) /\ StageEn(d, ready)
  <2>1. d \in Nat /\ d >= 2 /\ 2..d = (2..d-1) \cup {d}
    BY DEF Dims
  <2>2. Rep(d) # 0 /\ counter[d] # Rep(d)
    BY <1>4, <2>1 DEF StageClear, StageEn, DoneUpTo
  <2>3. Limit(d) = Rep(d) /\ counter[d] < Rep(d)
    BY <1>2, <2>2 DEF Limit
  <2>4. counter[d] + 1 < MaxReps /\ counter[d] + 1 \in 1..Rep(d) /\ counter[d] + 1 \in Nat
    BY <1>1, <1>2, <2>3
  <2>5. \A x, m \in Nat : x < m => x % m = x
    OBVIOUS
  <2>6. (counter[d] + 1) % MaxReps = counter[d] + 1
    BY <1>1, <2>4, <2>5
  <2> QED BY <1>4, <2>3, <2>4, <2>6 DEF NextCounter
<1>5. CASE ~StageClear(d, ready) /\ ~StageEn(d, ready)
  BY <1>2, <1>5 DEF NextCounter
<1> QED BY <1>3, <1>4, <1>5

(* The counters: each is below its limit when it counts, and all are set   *)
(* back when the request is taken.                                         *)
LEMMA CountersStep ==
    ASSUME TypeOK, NEW ready \in BOOLEAN, NEW offers \in BOOLEAN, NEW next \in Requests,
           FrontEnd(ready, offers, next), Registers(ready)
    PROVE  counter' \in [Dims -> Nat] /\ \A d \in Dims : counter'[d] \in 1..Limit(d)'
<1>0. /\ valid \in BOOLEAN /\ req \in RequestType
      /\ \A d \in Dims : counter[d] \in Nat /\ counter[d] \in 1..Limit(d)
  BY DEF TypeOK
<1>1. MaxReps \in Nat /\ MaxReps > 1 /\ NumDim \in Nat /\ NumDim >= 2
  BY CountersHoldOne, NdMidendAssumption
<1>2. req' \in RequestType /\ valid' \in BOOLEAN
  BY NdMidendAssumption DEF FrontEnd
<1>3. \A d \in Dims : Limit(d)' \in 1..MaxReps
  BY <1>2, <1>1, CountersHoldOne, NdMidendAssumption DEF Limit, Rep, RequestType
<1>4. \A d \in Dims : counter'[d] = NextCounter(d, ready)
  BY DEF Registers
<1>5. CASE valid /\ ~Taken(ready)
  <2>1. valid' = valid /\ req' = req
    BY <1>5, <1>0 DEF FrontEnd
  <2>2. \A d \in Dims : Limit(d)' = Limit(d) /\ Limit(d) \in 1..MaxReps /\ Rep(d) \in 0..MaxReps-1
    BY <2>1, <1>0, LimitPositive DEF Limit, Rep
  <2>3. \A d \in Dims : NextCounter(d, ready) \in 1..Limit(d)
    BY <1>5, CounterMoves
  <2> QED BY <2>2, <2>3, <1>4, <1>1 DEF Registers
<1>6. CASE Taken(ready)
  <2>1. ASSUME NEW d \in Dims PROVE StageClear(d, ready)
    <3>1. 2..d \subseteq 2..NumDim
      BY <1>1 DEF Dims
    <3> QED BY <1>6, <3>1 DEF Taken, Last, DoneUpTo, StageClear
  <2>2. \A d \in Dims : NextCounter(d, ready) = 1
    BY <2>1 DEF NextCounter
  <2> QED BY <2>2, <1>3, <1>4 DEF Registers
<1>7. CASE ~valid
  <2>1. \A d \in Dims : counter[d] = 1
    BY <1>7, <1>0 DEF Limit, Rep
  <2>2. \A d \in Dims : NextCounter(d, ready) = 1
    BY <1>7, <2>1 DEF NextCounter, StageClear, StageEn, DoneUpTo
  <2> QED BY <2>2, <1>3, <1>4 DEF Registers
<1> QED BY <1>5, <1>6, <1>7, <1>0

(* The registers of the address keep their range.                          *)
LEMMA AddressStep ==
    ASSUME TypeOK, NEW ready \in BOOLEAN, Registers(ready)
    PROVE  stride_sel' \in 0..NumDim-1 /\ addr' \in [Sides -> 0..AddrSpace-1]
<1>1. NumDim \in Nat /\ NumDim >= 2 /\ AddrSpace \in Nat \ {0}
  BY NdMidendAssumption
<1>2. CASE ~valid
  BY <1>2 DEF Registers, TypeOK
<1>3. CASE valid
  <2> DEFINE D == {d \in Dims : StageClear(d, ready)}
  <2>1. IsFiniteSet(Dims) /\ Cardinality(Dims) = NumDim - 1
    BY <1>1, FS_Interval DEF Dims
  <2>2. Cardinality(D) \in Nat /\ Cardinality(D) <= NumDim - 1
    <3>1. D \in SUBSET Dims
      OBVIOUS
    <3> QED BY <2>1, <3>1, FS_Subset, FS_CardinalityType
  <2>3. stride_sel' \in 0..NumDim-1
    BY <1>3, <1>1, <2>2 DEF Registers, StrideSel
  <2>4. ASSUME NEW side \in Sides PROVE Addr(side) \in 0..AddrSpace-1
    <3>1. req.addr[side] \in 0..AddrSpace-1 /\ addr[side] \in 0..AddrSpace-1
      BY DEF TypeOK, RequestType
    <3>2. \A x \in Nat : x % AddrSpace \in 0..AddrSpace-1
      BY <1>1
    <3>3. CASE stride_sel # NumDim - 1
      <4>1. stride_sel + 2 \in Dims
        BY <3>3, <1>1 DEF TypeOK, Dims
      <4>2. req.strides[stride_sel + 2][side] \in 0..AddrSpace-1
        BY <4>1 DEF TypeOK, RequestType
      <4>3. addr[side] + req.strides[stride_sel + 2][side] \in Nat
        BY <3>1, <4>2, <1>1
      <4> QED BY <3>3, <3>1, <3>2, <4>3 DEF Addr
    <3> QED BY <3>1, <3>3 DEF Addr
  <2> QED BY <2>3, <2>4, <1>3 DEF Registers
<1> QED BY <1>2, <1>3 DEF TypeOK

(* The last flags in one cycle: one more with the final burst, one less    *)
(* with the answer that carries it.                                        *)
LEMMA LastsStep ==
    ASSUME TypeOK, NEW i \in Inputs, Backend(i)
    PROVE  /\ backend' \in Seq(BOOLEAN)
           /\ Lasts(backend') = Lasts(backend) - One(Answered(i)) + One(Sends(i.ready) /\ Last)
<1> DEFINE pop == RspTaken(i)   emits == Sends(i.ready)   flag == Last
           next == Rest(backend, pop) \o (IF emits THEN <<flag>> ELSE <<>>)
<1>1. backend \in Seq(BOOLEAN) /\ (pop => backend # <<>>) /\ pop \in BOOLEAN
  BY DEF TypeOK, Backend, RspTaken, BurstRspReady, Inputs
<1>2. Answered(i) <=> pop /\ Head(backend)
  BY DEF Answered, RspTaken, BurstRspReady
<1>3. emits \in BOOLEAN /\ flag \in BOOLEAN
  BY DEF Last, DoneUpTo, Sends, BurstValid, Inputs, TypeOK
<1>4. backend' = next
  BY DEF Backend
<1>5. One(Answered(i)) = (IF pop /\ Head(backend) THEN 1 ELSE 0)
  BY <1>2, Zenon DEF One
<1>6. One(emits /\ flag) = (IF emits /\ flag THEN 1 ELSE 0)
  BY DEF One
<1> HIDE DEF pop, emits, flag
<1>7. /\ next \in Seq(BOOLEAN)
      /\ Occurrences(next, TRUE) = Occurrences(backend, TRUE)
             - (IF pop /\ Head(backend) THEN 1 ELSE 0) + (IF emits /\ flag THEN 1 ELSE 0)
  BY <1>1, <1>3, FlagQueueStep
<1> QED BY <1>4, <1>5, <1>6, <1>7 DEF Lasts, emits, flag

(* Every cycle keeps it.                                                   *)
LEMMA NextInv == IInv /\ [Next]_vars => IInv'
<1> SUFFICES ASSUME IInv, [Next]_vars PROVE IInv'
  OBVIOUS
<1>1. CASE UNCHANGED vars
  BY <1>1 DEF vars, IInv, TypeOK, NothingSent, OneAnswerPerTransfer, Lasts, BurstValid, Zero, Rep, Limit
<1>2. CASE Next
  <2>1. PICK i \in Inputs, offers \in BOOLEAN, next \in Requests : Cycle(i, offers, next)
    BY <1>2 DEF Next
  <2>2. i.ready \in BOOLEAN /\ sent \in Nat /\ open \in Int /\ TypeOK /\ backend \in Seq(BOOLEAN)
    BY DEF IInv, TypeOK, Inputs
  <2>3. Backend(i) /\ FrontEnd(i.ready, offers, next) /\ Registers(i.ready) /\ History(i)
    BY <2>1 DEF Cycle
  <2>4. Taken(i.ready) /\ ~Zero => Sends(i.ready) /\ Last
    BY DEF Taken, Last, DoneUpTo, Sends, BurstValid
  <2>5. Sends(i.ready) /\ Last => Taken(i.ready)
    BY DEF Taken, Sends
  <2>6. sent' \in Nat /\ open' \in Int
    BY <2>2, <2>3 DEF History, One
  <2>7. valid' \in BOOLEAN /\ req' \in RequestType
    BY <2>3, NdMidendAssumption DEF FrontEnd
  <2>8. TypeOK'
    BY <2>2, <2>3, <2>6, <2>7, CountersStep, AddressStep, LastsStep
       DEF TypeOK, Registers, Sends, BurstValid
  <2>9. NothingSent'
    <3>1. CASE Taken(i.ready)
      BY <3>1, <2>3 DEF History, NothingSent
    <3>2. CASE ~valid
      <4>1. sent = 0 /\ ~Sends(i.ready)
        BY <3>2 DEF IInv, NothingSent, BurstValid, Sends
      <4> QED BY <4>1, <2>3 DEF History, One, NothingSent
    <3>3. CASE valid /\ ~Taken(i.ready)
      <4>1. valid' = valid /\ req' = req
        BY <3>3, <2>2, <2>3 DEF FrontEnd, TypeOK
      <4>2. BurstValid' <=> BurstValid
        BY <4>1 DEF BurstValid, Zero, Rep
      <4>3. ~BurstValid => sent = 0 /\ ~Sends(i.ready)
        BY DEF IInv, NothingSent, Sends
      <4> QED BY <3>3, <4>2, <4>3, <2>3 DEF History, One, NothingSent
    <3> QED BY <3>1, <3>2, <3>3, <2>2 DEF TypeOK
  <2>10. OneAnswerPerTransfer'
    <3>1. Lasts(backend) \in Nat /\ open = Lasts(backend) + One(sent > 0)
      BY <2>2, OccurrencesType DEF IInv, OneAnswerPerTransfer, Lasts
    <3>2. Lasts(backend') = Lasts(backend) - One(Answered(i)) + One(Sends(i.ready) /\ Last)
      BY <2>2, <2>3, LastsStep
    <3>3. open' = open + One(Sends(i.ready) /\ sent = 0) - One(Answered(i))
      BY <2>3 DEF History
    <3>4. One(sent' > 0) = One(sent > 0) + One(Sends(i.ready) /\ sent = 0) - One(Sends(i.ready) /\ Last)
      <4>1. CASE Taken(i.ready) /\ Sends(i.ready)
        <5>1. Last
          BY <4>1 DEF Taken
        <5> QED BY <4>1, <5>1, <2>2, <2>3 DEF History, One
      <4>2. CASE Taken(i.ready) /\ ~Sends(i.ready)
        <5>1. sent = 0
          BY <4>2, <2>4 DEF IInv, NothingSent, BurstValid
        <5> QED BY <4>2, <5>1, <2>3 DEF History, One
      <4>3. CASE ~Taken(i.ready)
        BY <4>3, <2>2, <2>3, <2>5 DEF History, One
      <4> QED BY <4>1, <4>2, <4>3
    <3>5. Lasts(backend)' = Lasts(backend')
      BY DEF Lasts
    <3> QED BY <3>1, <3>2, <3>3, <3>4, <3>5 DEF OneAnswerPerTransfer, One
  <2> QED BY <2>8, <2>9, <2>10 DEF IInv
<1> QED BY <1>1, <1>2

(* The invariant the theorems rest on.                                     *)
THEOREM NdInvariance == Spec => []IInv
<1> QED BY InitInv, NextInv, PTL DEF Spec

(* Every register keeps its type, and no repetition counter passes the     *)
(* repetitions its dimension was asked for (idma_nd_counter).              *)
THEOREM NdTypeCorrect == Spec => []TypeOK
<1>1. IInv => TypeOK
  BY DEF IInv
<1> QED BY <1>1, NdInvariance, PTL

(* Each transfer begun and not answered has one last flag to come, so it   *)
(* gets one answer, whatever the order of bursts, answers and rejections.  *)
THEOREM NdAnsweredOnce == Spec => []OneAnswerPerTransfer
<1>1. IInv => OneAnswerPerTransfer
  BY DEF IInv
<1> QED BY <1>1, NdInvariance, PTL
----------------------------------------------------------------------------
(* The products and sums over the dimensions.                              *)

(* The recursive definition of a product defines it.                       *)
LEMMA ProductIs ==
    ASSUME NEW l, \A d \in Dims : l[d] \in Nat \ {0}
    PROVE  /\ \A d \in 1..NumDim : Product(l)[d] \in Nat \ {0}
           /\ Product(l)[1] = 1
           /\ \A d \in Dims : Product(l)[d] = l[d] * Product(l)[d - 1]
<1> DEFINE P == Nat \ {0}
           G == [x \in (1..NumDim) \X P |-> IF x[1] = 1 THEN 1 ELSE l[x[1]] * x[2]]
           Solves(f) == f = [d \in 1..NumDim |-> IF d = 1 THEN 1 ELSE l[d] * f[d - 1]]
<1>1. NumDim \in Nat \ {0} /\ 1 \in P
  BY NdMidendAssumption
<1>2. \A d \in 1..NumDim : d # 1 => d \in Dims
  BY NdMidendAssumption DEF Dims
<1>3. ASSUME NEW d \in 1..NumDim, NEW v \in P PROVE G[<<d, v>>] \in P
  <2>1. G[<<d, v>>] = IF d = 1 THEN 1 ELSE l[d] * v
    OBVIOUS
  <2>2. d # 1 => l[d] \in Nat \ {0}
    BY <1>2
  <2>3. d # 1 => l[d] * v \in Nat \ {0}
    BY <2>2
  <2> HIDE DEF G
  <2> QED BY <2>1, <2>3
<1> HIDE DEF G
<1>4. PICK f \in [1..NumDim -> P] : Recursive(f, NumDim, 1, G)
  BY <1>1, <1>3, Recursion, Zenon
<1>5. ASSUME NEW d \in 1..NumDim PROVE f[d] = IF d = 1 THEN 1 ELSE l[d] * f[d - 1]
  <2>1. d # 1 => d - 1 \in 1..NumDim
    BY <1>1
  <2>2. d # 1 => f[d - 1] \in P
    BY <1>4, <2>1
  <2>3. d # 1 => G[<<d, f[d - 1]>>] = l[d] * f[d - 1]
    BY <2>2 DEF G
  <2> QED BY <1>4, <2>3 DEF Recursive
<1>6. Solves(f)
  BY <1>4, <1>5
<1>7. Solves(Product(l))
  BY <1>6 DEF Product
<1> DEFINE p == Product(l)
<1>8. \A d \in 1..NumDim : p[d] = IF d = 1 THEN 1 ELSE l[d] * p[d - 1]
  BY <1>7, Zenon
<1> HIDE DEF p, Solves
<1>9. \A d \in 1..NumDim : p[d] \in P
  <2> DEFINE S == {d \in 1..NumDim : p[d] \in P}
  <2>1. 1 \in S
    BY <1>1, <1>8
  <2>2. ASSUME NEW d \in 1..NumDim, d \in S, d < NumDim PROVE d + 1 \in S
    <3>1. d + 1 \in 1..NumDim /\ d + 1 # 1 /\ (d + 1) - 1 = d /\ p[d] \in P
      BY <1>1, <2>2
    <3>2. p[d + 1] = l[d + 1] * p[d] /\ l[d + 1] \in Nat \ {0}
      BY <1>2, <1>8, <3>1
    <3> QED BY <3>1, <3>2
  <2>3. \A d \in 1..NumDim : d \in S
    BY <1>1, <2>1, <2>2, ClimbAll
  <2> QED BY <2>3
<1>10. \A d \in Dims : d \in 1..NumDim /\ d # 1
  BY NdMidendAssumption DEF Dims
<1> QED BY <1>1, <1>8, <1>9, <1>10 DEF p

(* The recursive definition of a sum defines it.                           *)
LEMMA SumIs ==
    ASSUME NEW m, \A d \in Dims : m[d] \in Int
    PROVE  /\ \A d \in 1..NumDim : Sum(m)[d] \in Int
           /\ Sum(m)[1] = 0
           /\ \A d \in Dims : Sum(m)[d] = Sum(m)[d - 1] + m[d]
<1> DEFINE G == [x \in (1..NumDim) \X Int |-> IF x[1] = 1 THEN 0 ELSE x[2] + m[x[1]]]
           Solves(f) == f = [d \in 1..NumDim |-> IF d = 1 THEN 0 ELSE f[d - 1] + m[d]]
<1>1. NumDim \in Nat \ {0} /\ 0 \in Int
  BY NdMidendAssumption
<1>2. \A d \in 1..NumDim : d # 1 => d \in Dims
  BY NdMidendAssumption DEF Dims
<1>3. ASSUME NEW d \in 1..NumDim, NEW v \in Int PROVE G[<<d, v>>] \in Int
  <2>1. G[<<d, v>>] = IF d = 1 THEN 0 ELSE v + m[d]
    OBVIOUS
  <2>2. d # 1 => m[d] \in Int
    BY <1>2
  <2> HIDE DEF G
  <2> QED BY <2>1, <2>2
<1> HIDE DEF G
<1>4. PICK f \in [1..NumDim -> Int] : Recursive(f, NumDim, 0, G)
  BY <1>1, <1>3, Recursion, Zenon
<1>5. ASSUME NEW d \in 1..NumDim PROVE f[d] = IF d = 1 THEN 0 ELSE f[d - 1] + m[d]
  <2>1. d # 1 => d - 1 \in 1..NumDim
    BY <1>1
  <2>2. d # 1 => f[d - 1] \in Int
    BY <1>4, <2>1
  <2>3. d # 1 => G[<<d, f[d - 1]>>] = f[d - 1] + m[d]
    BY <2>2 DEF G
  <2> QED BY <1>4, <2>3 DEF Recursive
<1>6. Solves(f)
  BY <1>4, <1>5
<1>7. Solves(Sum(m))
  BY <1>6 DEF Sum
<1> DEFINE t == Sum(m)
<1>8. \A d \in 1..NumDim : t[d] = IF d = 1 THEN 0 ELSE t[d - 1] + m[d]
  BY <1>7, Zenon
<1> HIDE DEF t, Solves
<1>9. \A d \in 1..NumDim : t[d] \in Int
  <2> DEFINE S == {d \in 1..NumDim : t[d] \in Int}
  <2>1. 1 \in S
    BY <1>1, <1>8
  <2>2. ASSUME NEW d \in 1..NumDim, d \in S, d < NumDim PROVE d + 1 \in S
    <3>1. d + 1 \in 1..NumDim /\ d + 1 # 1 /\ (d + 1) - 1 = d /\ t[d] \in Int
      BY <1>1, <2>2
    <3>2. t[d + 1] = t[d] + m[d + 1] /\ m[d + 1] \in Int
      BY <1>2, <1>8, <3>1
    <3> QED BY <3>1, <3>2
  <2>3. \A d \in 1..NumDim : d \in S
    BY <1>1, <2>1, <2>2, ClimbAll
  <2> QED BY <2>3
<1>10. \A d \in Dims : d \in 1..NumDim /\ d # 1
  BY NdMidendAssumption DEF Dims
<1> QED BY <1>1, <1>8, <1>9, <1>10 DEF t

(* A sum in which one term grows grows by as much.                         *)
LEMMA SumStep ==
    ASSUME NEW m, \A d \in Dims : m[d] \in Int, NEW next, NEW k \in Dims, NEW x \in Int,
           \A d \in Dims : next[d] = m[d] + (IF d = k THEN x ELSE 0)
    PROVE  Sum(next)[NumDim] = Sum(m)[NumDim] + x
<1>1. NumDim \in Nat /\ NumDim >= 2 /\ k \in 1..NumDim /\ k # 1
  BY NdMidendAssumption DEF Dims
<1>2. \A d \in 1..NumDim : d # 1 => d \in Dims
  BY <1>1 DEF Dims
<1> DEFINE t == Sum(m)   u == Sum(next)
           S == {d \in 1..NumDim : u[d] = t[d] + (IF d < k THEN 0 ELSE x)}
<1>3. \A d \in Dims : next[d] \in Int
  BY <1>1
<1>4. /\ \A d \in 1..NumDim : t[d] \in Int /\ u[d] \in Int
      /\ t[1] = 0 /\ u[1] = 0
      /\ \A d \in Dims : t[d] = t[d - 1] + m[d] /\ u[d] = u[d - 1] + next[d]
  BY <1>3, SumIs
<1> HIDE DEF t, u
<1>5. 1 \in S
  BY <1>1, <1>4
<1>6. ASSUME NEW d \in 1..NumDim, d \in S, d < NumDim PROVE d + 1 \in S
  <2>1. d + 1 \in 1..NumDim /\ d + 1 \in Dims /\ (d + 1) - 1 = d
    BY <1>1, <1>2, <1>6
  <2>2. u[d] = t[d] + (IF d < k THEN 0 ELSE x)
    BY <1>6
  <2>3. /\ t[d + 1] = t[d] + m[d + 1] /\ u[d + 1] = u[d] + next[d + 1]
        /\ next[d + 1] = m[d + 1] + (IF d + 1 = k THEN x ELSE 0)
    BY <1>4, <2>1
  <2>4. t[d] \in Int /\ m[d + 1] \in Int /\ d \in Nat /\ k \in Nat
    BY <1>1, <1>4, <2>1
  <2>5. u[d + 1] = t[d + 1] + (IF d + 1 < k THEN 0 ELSE x)
    BY <2>2, <2>3, <2>4
  <2> QED BY <2>1, <2>5
<1> HIDE DEF S
<1>7. NumDim \in S
  BY <1>1, <1>5, <1>6, Climb
<1> QED BY <1>1, <1>7 DEF S, t, u

(* A sum of nothing.                                                       *)
LEMMA SumZero ==
    ASSUME NEW m, \A d \in Dims : m[d] = 0
    PROVE  Sum(m)[NumDim] = 0
<1>1. NumDim \in Nat \ {0}
  BY NdMidendAssumption
<1>2. \A d \in 1..NumDim : d # 1 => d \in Dims
  BY NdMidendAssumption DEF Dims
<1> DEFINE t == Sum(m)
           S == {d \in 1..NumDim : t[d] = 0}
<1>3. t[1] = 0 /\ \A d \in Dims : t[d] = t[d - 1] + m[d]
  BY SumIs
<1> HIDE DEF t
<1>4. 1 \in S
  BY <1>1, <1>3
<1>5. ASSUME NEW d \in 1..NumDim, d \in S, d < NumDim PROVE d + 1 \in S
  <2>1. d + 1 \in 1..NumDim /\ d + 1 \in Dims /\ (d + 1) - 1 = d /\ t[d] = 0
    BY <1>1, <1>2, <1>5
  <2> QED BY <1>3, <2>1
<1> HIDE DEF S
<1>6. NumDim \in S
  BY <1>1, <1>4, <1>5, Climb
<1> QED BY <1>6 DEF S, t

----------------------------------------------------------------------------
(* The counters are the digits, less one, of the number of bursts sent:    *)
(* the base of a digit is the limit of its dimension.                      *)

Digits(l, c, n) == \A d \in Dims : (n \div Product(l)[d - 1]) % l[d] = c[d] - 1

(* The counters up to d all stand at their limit. *)
Full(l, c, d) == \A e \in 2..d : c[e] = l[e]

(* One more, divided.                                                      *)
LEMMA AddOne ==
    ASSUME NEW m \in Nat \ {0}, NEW a \in Nat
    PROVE  /\ (a + 1) \div m = (a \div m) + (IF a % m = m - 1 THEN 1 ELSE 0)
           /\ (a + 1) % m = (IF a % m = m - 1 THEN 0 ELSE (a % m) + 1)
<1> DEFINE q == a \div m   r == a % m
<1>1. a = m * q + r /\ q \in Int /\ r \in 0..m-1
  BY DivMod
<1> HIDE DEF q, r
<1>2. CASE r = m - 1
  <2>1. a + 1 = m * (q + 1) + 0 /\ q + 1 \in Int /\ 0 \in 0..m-1
    BY <1>1, <1>2
  <2>2. (m * (q + 1) + 0) \div m = q + 1 /\ (m * (q + 1) + 0) % m = 0
    BY <2>1, DivModOf
  <2> QED BY <1>2, <2>1, <2>2 DEF q, r
<1>3. CASE r # m - 1
  <2>1. a + 1 = m * q + (r + 1) /\ r + 1 \in 0..m-1
    BY <1>1, <1>3
  <2>2. (m * q + (r + 1)) \div m = q /\ (m * q + (r + 1)) % m = r + 1
    BY <1>1, <2>1, DivModOf
  <2>3. q + 0 = q
    BY <1>1
  <2> QED BY <1>3, <2>1, <2>2, <2>3 DEF q, r
<1> QED BY <1>2, <1>3

(* Adding one carries into a dimension if all up to it are at their limit. *)
LEMMA Carry ==
    ASSUME NEW l, NEW c, \A d \in Dims : l[d] \in Nat \ {0} /\ c[d] \in 1..l[d],
           NEW n \in Nat, Digits(l, c, n)
    PROVE  \A d \in 1..NumDim :
               (n + 1) \div Product(l)[d] = (n \div Product(l)[d]) + (IF Full(l, c, d) THEN 1 ELSE 0)
<1>1. NumDim \in Nat
  BY NdMidendAssumption
<1>2. \A d \in 1..NumDim : d # 1 => d \in Dims
  BY <1>1 DEF Dims
<1> DEFINE p == Product(l)
           S == {d \in 1..NumDim : (n + 1) \div p[d] = (n \div p[d]) + (IF Full(l, c, d) THEN 1 ELSE 0)}
<1>3. /\ \A d \in 1..NumDim : p[d] \in Nat \ {0}
      /\ p[1] = 1
      /\ \A d \in Dims : p[d] = l[d] * p[d - 1]
  BY ProductIs
<1>4. \A d \in Dims : (n \div p[d - 1]) % l[d] = c[d] - 1
  BY DEF Digits
<1> HIDE DEF p
<1>5. NumDim >= 1 => 1 \in S
  <2> SUFFICES ASSUME NumDim >= 1 PROVE 1 \in S
    OBVIOUS
  <2>1. Full(l, c, 1)
    BY DEF Full
  <2>2. (n + 1) \div 1 = n + 1 /\ n \div 1 = n
    OBVIOUS
  <2> QED BY <1>1, <1>3, <2>1, <2>2
<1>6. ASSUME NEW d \in 1..NumDim, d \in S, d < NumDim PROVE d + 1 \in S
  <2> DEFINE e == d + 1   a == n \div p[d]   b == (n + 1) \div p[d]
  <2>1. e \in 1..NumDim /\ e \in Dims /\ e - 1 = d
    BY <1>1, <1>2, <1>6
  <2>2. p[d] \in Nat \ {0} /\ l[e] \in Nat \ {0} /\ p[e] = l[e] * p[d] /\ c[e] \in 1..l[e]
    BY <1>3, <2>1
  <2>3. p[e] = p[d] * l[e]
    BY <2>2
  <2>4. a \in Nat /\ b = a + (IF Full(l, c, d) THEN 1 ELSE 0)
    BY <1>6, <2>2
  <2>5. a % l[e] = c[e] - 1
    BY <1>4, <2>1
  <2>6. a \div l[e] = n \div p[e] /\ b \div l[e] = (n + 1) \div p[e]
    BY <2>2, <2>3, DivDiv
  <2>7. Full(l, c, e) <=> Full(l, c, d) /\ c[e] = l[e]
    <3>1. 2..e = (2..d) \cup {e}
      BY <2>1
    <3> QED BY <3>1 DEF Full
  <2> HIDE DEF a, b, e
  <2>8. a % l[e] = l[e] - 1 <=> c[e] = l[e]
    <3>1. c[e] \in Int /\ l[e] \in Int
      BY <2>2
    <3>2. c[e] - 1 = l[e] - 1 <=> c[e] = l[e]
      BY <3>1
    <3> QED BY <2>5, <3>2, Zenon
  <2>9. (a + 1) \div l[e] = (a \div l[e]) + (IF a % l[e] = l[e] - 1 THEN 1 ELSE 0)
    BY <2>2, <2>4, AddOne
  <2>10. a \div l[e] \in Int
    BY <2>2, <2>4
  <2>11. CASE Full(l, c, d)
    <3>1. b = a + 1
      BY <2>4, <2>11
    <3>2. (n + 1) \div p[e] = (n \div p[e]) + (IF Full(l, c, e) THEN 1 ELSE 0)
      BY <2>6, <2>7, <2>8, <2>9, <2>11, <3>1
    <3> QED BY <2>1, <3>2 DEF e
  <2>12. CASE ~Full(l, c, d)
    <3>1. b = a
      BY <2>4, <2>12
    <3>2. (n + 1) \div p[e] = (n \div p[e]) + (IF Full(l, c, e) THEN 1 ELSE 0)
      BY <2>6, <2>7, <2>10, <2>12, <3>1
    <3> QED BY <2>1, <3>2 DEF e
  <2> QED BY <2>11, <2>12
<1> SUFFICES ASSUME NEW d \in 1..NumDim PROVE d \in S
  BY DEF p
<1> HIDE DEF S
<1> QED BY <1>1, <1>5, <1>6, ClimbAll

(* ... and what the digits are then.                                       *)
LEMMA NextDigits ==
    ASSUME NEW l, NEW c, \A d \in Dims : l[d] \in Nat \ {0} /\ c[d] \in 1..l[d],
           NEW n \in Nat, Digits(l, c, n)
    PROVE  \A d \in Dims :
               ((n + 1) \div Product(l)[d - 1]) % l[d]
                   = IF Full(l, c, d) THEN 0 ELSE IF Full(l, c, d - 1) THEN c[d] ELSE c[d] - 1
<1> SUFFICES ASSUME NEW d \in Dims
             PROVE  ((n + 1) \div Product(l)[d - 1]) % l[d]
                        = IF Full(l, c, d) THEN 0 ELSE IF Full(l, c, d - 1) THEN c[d] ELSE c[d] - 1
  OBVIOUS
<1> DEFINE a == n \div Product(l)[d - 1]   b == (n + 1) \div Product(l)[d - 1]
<1>1. d - 1 \in 1..NumDim /\ d \in 2..NumDim /\ d \in Nat
  BY NdMidendAssumption DEF Dims
<1>2. Product(l)[d - 1] \in Nat \ {0}
  BY <1>1, ProductIs
<1>3. a \in Nat /\ a % l[d] = c[d] - 1
  BY <1>2 DEF Digits
<1>4. b = a + (IF Full(l, c, d - 1) THEN 1 ELSE 0)
  BY <1>1, Carry
<1>5. Full(l, c, d) <=> Full(l, c, d - 1) /\ c[d] = l[d]
  <2>1. 2..d = (2..d-1) \cup {d}
    BY <1>1
  <2> QED BY <2>1 DEF Full
<1> HIDE DEF a, b
<1>6. l[d] \in Nat \ {0} /\ c[d] \in 1..l[d]
  OBVIOUS
<1>7. (a + 1) % l[d] = (IF a % l[d] = l[d] - 1 THEN 0 ELSE (a % l[d]) + 1)
  BY <1>3, <1>6, AddOne
<1>8. c[d] - 1 = l[d] - 1 <=> c[d] = l[d]
  BY <1>6
<1>9. (c[d] - 1) + 1 = c[d]
  BY <1>6
<1>10. b % l[d] = IF Full(l, c, d) THEN 0 ELSE IF Full(l, c, d - 1) THEN c[d] ELSE c[d] - 1
  <2>1. CASE Full(l, c, d - 1)
    <3>1. b = a + 1
      BY <1>3, <1>4, <2>1
    <3>2. b % l[d] = (IF c[d] = l[d] THEN 0 ELSE c[d])
      BY <1>3, <1>7, <1>8, <1>9, <3>1, Zenon
    <3> QED BY <1>5, <2>1, <3>2, Zenon
  <2>2. CASE ~Full(l, c, d - 1)
    <3>1. b = a
      BY <1>3, <1>4, <2>2
    <3> QED BY <1>3, <1>5, <2>2, <3>1, Zenon
  <2> QED BY <2>1, <2>2
<1> QED BY <1>10 DEF b

(* Full is full below. *)
LEMMA FullBelow ==
    ASSUME NEW l, NEW c, NEW k \in Nat, NEW d \in Nat, d <= k, Full(l, c, k)
    PROVE  Full(l, c, d)
<1>1. 2..d \subseteq 2..k
  OBVIOUS
<1> QED BY <1>1 DEF Full

(* Where the carry stops.                                                  *)
LEMMA FirstOpen ==
    ASSUME NEW l, NEW c, ~Full(l, c, NumDim)
    PROVE  \E k \in Dims : Full(l, c, k - 1) /\ ~Full(l, c, k)
<1> DEFINE S == {d \in 1..NumDim : Full(l, c, d)}
<1>1. NumDim \in Nat \ {0}
  BY NdMidendAssumption
<1>2. 1 \in S
  BY <1>1 DEF Full
<1> SUFFICES ASSUME ~\E k \in Dims : Full(l, c, k - 1) /\ ~Full(l, c, k) PROVE FALSE
  OBVIOUS
<1>3. ASSUME NEW d \in 1..NumDim, d \in S, d < NumDim PROVE d + 1 \in S
  <2>1. d + 1 \in Dims /\ d + 1 \in 1..NumDim /\ (d + 1) - 1 = d
    BY <1>1, <1>3 DEF Dims
  <2> QED BY <1>3, <2>1
<1> HIDE DEF S
<1>4. NumDim \in S
  BY <1>1, <1>2, <1>3, Climb
<1> QED BY <1>4 DEF S

(* How often dimension d has moved when n bursts were sent. *)
Turns(l, d, n) == (n \div Product(l)[d - 1]) - (n \div Product(l)[d])

(* A count of turns is a number, and none before the first burst.          *)
LEMMA TurnsIs ==
    ASSUME NEW l, \A d \in Dims : l[d] \in Nat \ {0}, NEW n \in Nat, NEW d \in Dims
    PROVE  /\ n \div Product(l)[d - 1] \in Nat /\ n \div Product(l)[d] \in Nat
           /\ Turns(l, d, n) \in Int
           /\ Turns(l, d, 0) = 0
<1>1. d - 1 \in 1..NumDim /\ d \in 1..NumDim
  BY NdMidendAssumption DEF Dims
<1>2. Product(l)[d - 1] \in Nat \ {0} /\ Product(l)[d] \in Nat \ {0}
  BY <1>1, ProductIs
<1>3. \A m \in Nat \ {0} : n \div m \in Nat /\ 0 \div m = 0
  OBVIOUS
<1> QED BY <1>2, <1>3 DEF Turns

(* One more burst: the dimension in which the carry stops moves.           *)
LEMMA OneTurn ==
    ASSUME NEW l, NEW c, \A d \in Dims : l[d] \in Nat \ {0} /\ c[d] \in 1..l[d],
           NEW n \in Nat, Digits(l, c, n),
           NEW k \in Dims, Full(l, c, k - 1), ~Full(l, c, k), NEW d \in Dims
    PROVE  Turns(l, d, n + 1) = Turns(l, d, n) + (IF d = k THEN 1 ELSE 0)
<1>1. d - 1 \in 1..NumDim /\ d \in 1..NumDim /\ d \in Nat /\ k \in Nat /\ k - 1 \in Nat
  BY NdMidendAssumption DEF Dims
<1> DEFINE a == n \div Product(l)[d - 1]   b == n \div Product(l)[d]
           a2 == (n + 1) \div Product(l)[d - 1]   b2 == (n + 1) \div Product(l)[d]
<1>2. a \in Nat /\ b \in Nat
  BY TurnsIs
<1>3. a2 = a + (IF Full(l, c, d - 1) THEN 1 ELSE 0) /\ b2 = b + (IF Full(l, c, d) THEN 1 ELSE 0)
  BY <1>1, Carry
<1>4. Turns(l, d, n) = a - b /\ Turns(l, d, n + 1) = a2 - b2
  BY DEF Turns
<1> HIDE DEF a, b, a2, b2
<1>5. CASE d < k
  <2>1. Full(l, c, d - 1) /\ Full(l, c, d)
    <3>1. d <= k - 1 /\ d - 1 <= k - 1 /\ d - 1 \in Nat
      BY <1>1, <1>5
    <3> QED BY <1>1, <3>1, FullBelow
  <2> QED BY <1>1, <1>2, <1>3, <1>4, <1>5, <2>1
<1>6. CASE d = k
  BY <1>2, <1>3, <1>4, <1>6
<1>7. CASE d > k
  <2>1. ~Full(l, c, d - 1) /\ ~Full(l, c, d)
    <3>1. k <= d - 1 /\ k <= d /\ d - 1 \in Nat
      BY <1>1, <1>7
    <3> QED BY <1>1, <3>1, FullBelow
  <2> QED BY <1>1, <1>2, <1>3, <1>4, <1>7, <2>1
<1> QED BY <1>1, <1>5, <1>6, <1>7

(* One factor more.                                                        *)
LEMMA OnceMore == ASSUME NEW a \in Int, NEW x \in Int PROVE (a + 1) * x = a * x + x
OBVIOUS

(* How far n bursts lead by the strides s. *)
Path(l, s, n) == Sum([d \in Dims |-> Turns(l, d, n) * s[d]])[NumDim]

(* ... and the path grows by its stride.                                   *)
LEMMA OneStride ==
    ASSUME NEW l, NEW c, \A d \in Dims : l[d] \in Nat \ {0} /\ c[d] \in 1..l[d],
           NEW n \in Nat, Digits(l, c, n),
           NEW k \in Dims, Full(l, c, k - 1), ~Full(l, c, k),
           NEW s, \A d \in Dims : s[d] \in Int
    PROVE  Path(l, s, n) \in Int /\ Path(l, s, n + 1) = Path(l, s, n) + s[k]
<1> DEFINE m == [d \in Dims |-> Turns(l, d, n) * s[d]]
           next == [d \in Dims |-> Turns(l, d, n + 1) * s[d]]
<1>1. ASSUME NEW d \in Dims
      PROVE  m[d] \in Int /\ next[d] = m[d] + (IF d = k THEN s[k] ELSE 0)
  <2> DEFINE t == Turns(l, d, n)   u == Turns(l, d, n + 1)
  <2>1. t \in Int /\ s[d] \in Int
    BY TurnsIs
  <2>2. u = t + (IF d = k THEN 1 ELSE 0)
    BY OneTurn
  <2>3. m[d] = t * s[d] /\ next[d] = u * s[d]
    OBVIOUS
  <2> HIDE DEF t, u, m, next
  <2>4. CASE d = k
    <3> DEFINE x == s[d]
    <3>1. x \in Int /\ x = s[d]
      BY <2>1
    <3> HIDE DEF x
    <3>2. (t + 1) * x = t * x + x
      BY <2>1, <3>1, OnceMore
    <3> QED BY <2>1, <2>2, <2>3, <2>4, <3>1, <3>2
  <2>5. CASE d # k
    <3>1. u = t
      BY <2>1, <2>2, <2>5
    <3> QED BY <2>1, <2>3, <2>5, <3>1
  <2> QED BY <2>4, <2>5
<1>2. NumDim \in 1..NumDim
  BY NdMidendAssumption
<1> HIDE DEF m, next
<1>3. Sum(next)[NumDim] = Sum(m)[NumDim] + s[k]
  BY <1>1, SumStep
<1>4. Sum(m)[NumDim] \in Int
  BY <1>1, <1>2, SumIs
<1> QED BY <1>3, <1>4 DEF m, next, Path

----------------------------------------------------------------------------
(* The state: the counters are the digits of `sent`, and `addr` is where   *)
(* the strides have led.                                                   *)

Lims == [d \in Dims |-> Limit(d)]
StridesOf(side) == [d \in Dims |-> req.strides[d][side]]

Counted == Digits(Lims, counter, sent) /\ sent < Bursts[NumDim]

(* Between requests the next burst takes the base of its request. *)
AtBase == ~valid => stride_sel = NumDim - 1

PathInv == IInv /\ Counted /\ AtBase /\ BurstAddress

(* The limits are positive, and no counter is beyond its own.              *)
LEMMA LimsAre ==
    ASSUME TypeOK
    PROVE  \A d \in Dims : Lims[d] = Limit(d) /\ Lims[d] \in Nat \ {0} /\ counter[d] \in 1..Lims[d]
<1>1. req \in RequestType /\ valid \in BOOLEAN /\ \A d \in Dims : counter[d] \in 1..Limit(d)
  BY DEF TypeOK
<1>2. \A d \in Dims : Limit(d) \in Nat \ {0}
  BY <1>1, LimitPositive, CountersHoldOne
<1> QED BY <1>1, <1>2 DEF Lims

(* The stages that are done are those whose counters stand at the limit.   *)
LEMMA DoneIsFull ==
    ASSUME TypeOK, valid, NEW d \in 1..NumDim
    PROVE  DoneUpTo(d) <=> Full(Lims, counter, d)
<1>1. ASSUME NEW e \in 2..d PROVE (Rep(e) = 0 \/ counter[e] = Rep(e)) <=> counter[e] = Lims[e]
  <2>1. e \in Dims
    BY NdMidendAssumption DEF Dims
  <2>2. Lims[e] = Limit(e) /\ counter[e] \in 1..Limit(e)
    BY <2>1, LimsAre DEF TypeOK
  <2> QED BY <2>2 DEF Limit
<1> QED BY <1>1 DEF DoneUpTo, Full

(* The reference address in these terms.                                   *)
LEMMA TravelledIs ==
    ASSUME NEW n, NEW side
    PROVE  Travelled(n, side) = Path(Lims, StridesOf(side), n)
<1>1. [d \in Dims |-> Moves(d, n) * req.strides[d][side]]
          = [d \in Dims |-> Turns(Lims, d, n) * StridesOf(side)[d]]
  BY DEF Moves, Turns, Bursts, Lims, StridesOf
<1> QED BY <1>1, Zenon DEF Travelled, Path

(* No burst, no way.                                                       *)
LEMMA PathZero ==
    ASSUME NEW l, \A d \in Dims : l[d] \in Nat \ {0}, NEW s, \A d \in Dims : s[d] \in Int
    PROVE  Path(l, s, 0) = 0
<1> DEFINE m == [d \in Dims |-> Turns(l, d, 0) * s[d]]
<1>1. ASSUME NEW d \in Dims PROVE m[d] = 0
  <2>1. Turns(l, d, 0) = 0
    BY TurnsIs
  <2>2. \A x \in Int : 0 * x = 0
    OBVIOUS
  <2> QED BY <2>1, <2>2
<1> HIDE DEF m
<1>2. Sum(m)[NumDim] = 0
  BY <1>1, SumZero
<1> QED BY <1>2 DEF m, Path

(* All digits of zero are zero.                                            *)
LEMMA DigitsZero ==
    ASSUME NEW l, NEW c, \A d \in Dims : l[d] \in Nat \ {0} /\ c[d] = 1
    PROVE  Digits(l, c, 0) /\ 0 < Product(l)[NumDim]
<1>1. NumDim \in 1..NumDim /\ \A d \in Dims : d - 1 \in 1..NumDim
  BY NdMidendAssumption DEF Dims
<1>2. \A d \in 1..NumDim : Product(l)[d] \in Nat \ {0}
  BY ProductIs
<1>3. \A m \in Nat \ {0} : 0 \div m = 0 /\ 0 % m = 0
  OBVIOUS
<1>4. ASSUME NEW d \in Dims PROVE (0 \div Product(l)[d - 1]) % l[d] = c[d] - 1
  <2>1. 0 \div Product(l)[d - 1] = 0 /\ 0 % l[d] = 0
    BY <1>1, <1>2, <1>3
  <2> QED BY <2>1
<1> QED BY <1>1, <1>2, <1>4 DEF Digits

(* The last burst is the one after which all digits would be zero again.   *)
LEMMA LastIs ==
    ASSUME NEW l, NEW c, \A d \in Dims : l[d] \in Nat \ {0} /\ c[d] \in 1..l[d],
           NEW n \in Nat, Digits(l, c, n), n < Product(l)[NumDim]
    PROVE  Full(l, c, NumDim) <=> n + 1 = Product(l)[NumDim]
<1> DEFINE p == Product(l)[NumDim]
<1>1. NumDim \in 1..NumDim
  BY NdMidendAssumption
<1>2. p \in Nat \ {0}
  BY <1>1, ProductIs
<1>3. (n + 1) \div p = (n \div p) + (IF Full(l, c, NumDim) THEN 1 ELSE 0)
  BY <1>1, Carry
<1> HIDE DEF p
<1>4. n < p
  BY DEF p
<1>5. n \div p = 0
  <2>1. n = p * 0 + n /\ n \in 0..p-1
    BY <1>2, <1>4
  <2>2. (p * 0 + n) \div p = 0
    BY <1>2, <2>1, DivModOf
  <2> QED BY <2>1, <2>2
<1>6. CASE n + 1 = p
  <2>1. n + 1 = p * 1 + 0 /\ 0 \in 0..p-1
    BY <1>2, <1>6
  <2>2. (p * 1 + 0) \div p = 1
    BY <1>2, <2>1, DivModOf
  <2> QED BY <1>3, <1>5, <1>6, <2>1, <2>2 DEF p
<1>7. CASE n + 1 # p
  <2>1. n + 1 = p * 0 + (n + 1) /\ n + 1 \in 0..p-1
    BY <1>2, <1>4, <1>7
  <2>2. (p * 0 + (n + 1)) \div p = 0
    BY <1>2, <2>1, DivModOf
  <2> QED BY <1>3, <1>5, <1>7, <2>1, <2>2 DEF p
<1> QED BY <1>6, <1>7

(* The flag `last` follows from the digits.                                *)
LEMMA FinalHasLast ==
    ASSUME TypeOK, Counted
    PROVE  LastOnFinal
<1> SUFFICES ASSUME BurstValid PROVE Last <=> sent = Bursts[NumDim] - 1
  BY DEF LastOnFinal
<1>1. NumDim \in 1..NumDim /\ valid /\ sent \in Nat
  BY NdMidendAssumption DEF BurstValid, TypeOK
<1>2. Last <=> Full(Lims, counter, NumDim)
  BY <1>1, DoneIsFull DEF Last
<1> DEFINE p == Product(Lims)[NumDim]
<1>3. Bursts[NumDim] = p
  BY DEF Bursts, Lims
<1>4. Full(Lims, counter, NumDim) <=> sent + 1 = p
  BY <1>1, <1>3, LimsAre, LastIs DEF Counted
<1>5. p \in Nat \ {0}
  BY <1>1, LimsAre, ProductIs
<1> HIDE DEF p
<1> QED BY <1>1, <1>2, <1>3, <1>4, <1>5

(* A request that stays keeps its limits and its strides.                  *)
LEMMA RequestKept ==
    ASSUME valid' = valid, req' = req
    PROVE  /\ Lims' = Lims /\ Bursts' = Bursts /\ (BurstValid' <=> BurstValid)
           /\ \A side \in Sides : StridesOf(side)' = StridesOf(side)
<1>1. \A d \in Dims : Limit(d)' = Limit(d) /\ Rep(d)' = Rep(d)
  BY DEF Limit, Rep
<1> QED BY <1>1 DEF Lims, Bursts, BurstValid, Zero, StridesOf

(* When a request is taken, and while there is none, all counters are set  *)
(* back.                                                                   *)
LEMMA CountersBack ==
    ASSUME TypeOK, NEW ready \in BOOLEAN, Registers(ready), ~valid \/ Taken(ready)
    PROVE  \A d \in Dims : counter'[d] = 1
<1>1. \A d \in Dims : counter'[d] = NextCounter(d, ready)
  BY DEF Registers
<1>2. CASE Taken(ready)
  <2>1. ASSUME NEW d \in Dims PROVE StageClear(d, ready)
    <3>1. 2..d \subseteq 2..NumDim
      BY NdMidendAssumption DEF Dims
    <3> QED BY <1>2, <3>1 DEF Taken, Last, DoneUpTo, StageClear
  <2> QED BY <1>1, <2>1 DEF NextCounter
<1>3. CASE ~valid
  <2>1. \A d \in Dims : counter[d] = 1
    BY <1>3 DEF TypeOK, Limit, Rep
  <2>2. \A d \in Dims : ~StageClear(d, ready) /\ ~StageEn(d, ready)
    BY <1>3 DEF StageClear, StageEn, DoneUpTo
  <2> QED BY <1>1, <2>1, <2>2 DEF NextCounter
<1> QED BY <1>2, <1>3

(* A burst of a request that stays: the counters go on to the next digits. *)
LEMMA DigitsMove ==
    ASSUME TypeOK, Counted, Registers(TRUE), valid, ~Taken(TRUE)
    PROVE  Digits(Lims, counter', sent + 1) /\ sent + 1 < Bursts[NumDim]
<1> DEFINE l == Lims   c == counter   n == sent   p == Product(l)
<1>1. \A d \in Dims : l[d] \in Nat \ {0} /\ c[d] \in 1..l[d]
  BY LimsAre
<1>2. n \in Nat /\ Digits(l, c, n) /\ n < p[NumDim] /\ Bursts[NumDim] = p[NumDim]
  BY DEF TypeOK, Counted, Bursts, Lims
<1>3. NumDim \in 1..NumDim /\ \A d \in Dims : d \in 1..NumDim /\ d - 1 \in 1..NumDim
  BY NdMidendAssumption DEF Dims
<1>4. ASSUME NEW d \in Dims
      PROVE  counter'[d] = IF Full(l, c, d) THEN 1 ELSE IF Full(l, c, d - 1) THEN c[d] + 1 ELSE c[d]
  <2>1. counter'[d] = NextCounter(d, TRUE)
    BY DEF Registers
  <2>2. NextCounter(d, TRUE) = IF StageClear(d, TRUE) THEN 1
                               ELSE IF StageEn(d, TRUE) THEN counter[d] + 1 ELSE counter[d]
    BY CounterMoves
  <2>3. StageClear(d, TRUE) <=> Full(l, c, d)
    BY <1>3, DoneIsFull DEF StageClear
  <2>4. StageEn(d, TRUE) <=> Full(l, c, d - 1)
    BY <1>3, DoneIsFull DEF StageEn
  <2> QED BY <2>1, <2>2, <2>3, <2>4, Zenon
<1>5. ~Full(l, c, NumDim)
  <2>1. ~Last
    BY DEF Taken
  <2> QED BY <1>3, <2>1, DoneIsFull DEF Last
<1>6. p[NumDim] \in Nat \ {0}
  BY <1>1, <1>3, ProductIs
<1> HIDE DEF l, c, n
<1>7. n + 1 # p[NumDim]
  BY <1>1, <1>2, <1>5, LastIs
<1>8. ASSUME NEW d \in Dims PROVE ((n + 1) \div p[d - 1]) % l[d] = counter'[d] - 1
  <2>1. ((n + 1) \div p[d - 1]) % l[d]
            = IF Full(l, c, d) THEN 0 ELSE IF Full(l, c, d - 1) THEN c[d] ELSE c[d] - 1
    BY <1>1, <1>2, NextDigits
  <2>2. c[d] \in Int
    BY <1>1
  <2>3. 1 - 1 = 0 /\ (c[d] + 1) - 1 = c[d]
    BY <2>2
  <2> QED BY <1>4, <2>1, <2>3, Zenon
<1>9. Digits(l, counter', n + 1)
  BY <1>8, Zenon DEF Digits
<1>10. n + 1 < p[NumDim]
  <2> DEFINE P == p[NumDim]
  <2>1. P \in Nat /\ n < P /\ n + 1 # P /\ n \in Nat
    BY <1>2, <1>6, <1>7
  <2> HIDE DEF P
  <2>2. n + 1 < P
    BY <2>1
  <2> QED BY <2>2 DEF P
<1> QED BY <1>2, <1>9, <1>10 DEF l, n

(* Every cycle keeps the counters the digits of `sent`.                    *)
LEMMA CountedStep ==
    ASSUME IInv, TypeOK', Counted, NEW i \in Inputs, NEW offers \in BOOLEAN, NEW next \in Requests,
           Cycle(i, offers, next)
    PROVE  Counted'
<1>1. TypeOK /\ i.ready \in BOOLEAN /\ sent \in Nat
  BY DEF IInv, TypeOK, Inputs
<1>2. FrontEnd(i.ready, offers, next) /\ Registers(i.ready) /\ History(i)
  BY DEF Cycle
<1>3. CASE ~valid \/ Taken(i.ready)
  <2>1. \A d \in Dims : counter'[d] = 1
    BY <1>1, <1>2, <1>3, CountersBack
  <2>2. sent' = 0
    <3>1. CASE Taken(i.ready)
      BY <1>2, <3>1 DEF History
    <3>2. CASE ~valid
      BY <1>2, <3>2 DEF History, IInv, NothingSent, BurstValid, Sends, One
    <3> QED BY <1>3, <3>1, <3>2
  <2> DEFINE l == Lims'
  <2>3. \A d \in Dims : l[d] = Limit(d)'
    BY DEF Lims
  <2>4. \A d \in Dims : Limit(d)' \in Nat \ {0}
    <3>1. req' \in RequestType /\ valid' \in BOOLEAN
      BY DEF TypeOK
    <3>2. MaxReps \in Nat /\ MaxReps > 1
      BY CountersHoldOne
    <3>3. \A x, m \in Nat : m > 0 => x % m \in 0..m-1
      OBVIOUS
    <3>4. \A d \in Dims : req'.reps[d] \in Nat
      BY <3>1 DEF RequestType
    <3>5. \A d \in Dims : Rep(d)' \in Nat
      BY <3>2, <3>3, <3>4 DEF Rep
    <3> QED BY <3>5 DEF Limit
  <2>5. Bursts' = Product(l)
    BY DEF Bursts, Lims
  <2> HIDE DEF l
  <2>6. Digits(l, counter', 0) /\ 0 < Product(l)[NumDim]
    BY <2>1, <2>3, <2>4, DigitsZero
  <2>7. Digits(Lims, counter, sent)' /\ (sent < Bursts[NumDim])'
    BY <2>2, <2>5, <2>6 DEF Digits, l
  <2> QED BY <2>7 DEF Counted
<1>4. CASE valid /\ ~Taken(i.ready)
  <2>1. valid' = valid /\ req' = req
    BY <1>1, <1>2, <1>4 DEF FrontEnd, TypeOK
  <2>2. Lims' = Lims /\ Bursts' = Bursts
    BY <2>1, RequestKept
  <2>3. CASE i.ready
    <3>1. i.ready = TRUE
      BY <1>1, <2>3
    <3>2. Sends(i.ready)
      <4>1. ~Last
        BY <1>4, <2>3 DEF Taken
      <4>2. ~Zero
        BY <1>4, <4>1 DEF Last, DoneUpTo, Zero, Dims
      <4> QED BY <1>4, <2>3, <4>2 DEF Sends, BurstValid
    <3>3. sent' = sent + 1
      BY <1>2, <1>4, <3>2 DEF History, One
    <3>4. Digits(Lims, counter', sent + 1) /\ sent + 1 < Bursts[NumDim]
      <4>1. Registers(TRUE) /\ ~Taken(TRUE)
        BY <1>2, <1>4, <3>1, Zenon
      <4> QED BY <1>1, <1>4, <4>1, DigitsMove
    <3>5. Digits(Lims, counter, sent)' /\ (sent < Bursts[NumDim])'
      BY <2>2, <3>3, <3>4 DEF Digits
    <3> QED BY <3>5 DEF Counted
  <2>4. CASE ~i.ready
    <3>1. sent' = sent
      BY <1>1, <1>2, <1>4, <2>4 DEF History, Sends, One
    <3>2. counter' = counter
      <4>1. \A d \in Dims : NextCounter(d, i.ready) = counter[d]
        BY <2>4 DEF NextCounter, StageClear, StageEn
      <4>2. counter \in [Dims -> Nat] /\ counter' = [d \in Dims |-> NextCounter(d, i.ready)]
        BY <1>1, <1>2 DEF Registers, TypeOK
      <4> QED BY <4>1, <4>2
    <3> QED BY <2>2, <3>1, <3>2 DEF Counted, Digits
  <2> QED BY <2>3, <2>4
<1> QED BY <1>3, <1>4

(* The stride that is added belongs to the first dimension not done.       *)
LEMMA StrideSelIs ==
    ASSUME TypeOK, valid
    PROVE  /\ StrideSel(FALSE) = 0
           /\ Last => StrideSel(TRUE) = NumDim - 1
           /\ \A k \in Dims : Full(Lims, counter, k - 1) /\ ~Full(Lims, counter, k)
                                  => StrideSel(TRUE) = k - 2
<1>1. NumDim \in Nat /\ NumDim >= 2 /\ \A d \in Dims : d \in 1..NumDim /\ d \in Nat /\ d >= 2
  BY NdMidendAssumption DEF Dims
<1>2. StrideSel(FALSE) = 0
  <2>1. {d \in Dims : StageClear(d, FALSE)} = {}
    BY DEF StageClear
  <2> QED BY <2>1, FS_EmptySet DEF StrideSel
<1>3. ASSUME Last PROVE StrideSel(TRUE) = NumDim - 1
  <2>1. \A d \in Dims : StageClear(d, TRUE)
    <3> SUFFICES ASSUME NEW d \in Dims PROVE StageClear(d, TRUE)
      OBVIOUS
    <3>1. 2..d \subseteq 2..NumDim
      BY <1>1 DEF Dims
    <3> QED BY <1>3, <3>1 DEF Last, DoneUpTo, StageClear
  <2>2. {d \in Dims : StageClear(d, TRUE)} = 2..NumDim
    BY <2>1 DEF Dims
  <2>3. Cardinality(2..NumDim) = NumDim - 1
    BY <1>1, FS_Interval
  <2> QED BY <2>2, <2>3 DEF StrideSel
<1>4. ASSUME NEW k \in Dims, Full(Lims, counter, k - 1), ~Full(Lims, counter, k)
      PROVE  StrideSel(TRUE) = k - 2
  <2>1. \A d \in Dims : StageClear(d, TRUE) <=> Full(Lims, counter, d)
    BY <1>1, DoneIsFull DEF StageClear
  <2>2. k \in Nat /\ k - 1 \in Nat
    BY <1>1
  <2>3. ASSUME NEW d \in Dims PROVE Full(Lims, counter, d) <=> d <= k - 1
    <3>1. d \in Nat /\ (d <= k - 1 \/ k <= d)
      BY <1>1
    <3>2. d <= k - 1 => Full(Lims, counter, d)
      BY <1>4, <2>2, <3>1, FullBelow
    <3>3. k <= d => ~Full(Lims, counter, d)
      BY <1>4, <2>2, <3>1, FullBelow
    <3>4. k <= d => ~(d <= k - 1)
      BY <2>2, <3>1
    <3> QED BY <3>1, <3>2, <3>3, <3>4
  <2>4. {d \in Dims : StageClear(d, TRUE)} = 2..k-1
    <3>1. \A d \in Dims : StageClear(d, TRUE) <=> d <= k - 1
      BY <2>1, <2>3
    <3>2. 2..k-1 \subseteq Dims
      BY <1>1 DEF Dims
    <3>3. \A d \in Dims : d <= k - 1 <=> d \in 2..k-1
      BY <1>1, <2>2
    <3> QED BY <3>1, <3>2, <3>3, Zenon
  <2>5. Cardinality(2..k-1) = k - 2
    <3>1. 2 <= k
      BY <1>1
    <3>2. Cardinality(2..k-1) = IF 2 > k - 1 THEN 0 ELSE (k - 1) - 2 + 1
      BY <2>2, FS_Interval
    <3> QED BY <2>2, <3>1, <3>2
  <2> QED BY <2>4, <2>5 DEF StrideSel
<1> QED BY <1>2, <1>3, <1>4

(* A burst of a request that stays is at the next place.                   *)
LEMMA AddressMoves ==
    ASSUME TypeOK, Counted, BurstAddress, Registers(TRUE), BurstValid, ~Taken(TRUE), NEW side \in Sides
    PROVE  /\ stride_sel' + 2 \in Dims /\ stride_sel' # NumDim - 1 /\ burst_sent' = TRUE
           /\ (addr'[side] + req.strides[stride_sel' + 2][side]) % AddrSpace
                  = (req.addr[side] + Path(Lims, StridesOf(side), sent + 1)) % AddrSpace
<1> DEFINE l == Lims   c == counter   n == sent   s == StridesOf(side)
<1>1. \A d \in Dims : l[d] \in Nat \ {0} /\ c[d] \in 1..l[d]
  BY LimsAre
<1>2. n \in Nat /\ Digits(l, c, n)
  BY DEF TypeOK, Counted
<1>3. valid /\ NumDim \in 1..NumDim /\ NumDim \in Nat /\ AddrSpace \in Nat \ {0}
  BY NdMidendAssumption DEF BurstValid
<1>4. ~Full(l, c, NumDim)
  <2>1. ~Last
    BY DEF Taken
  <2> QED BY <1>3, <2>1, DoneIsFull DEF Last
<1>5. PICK k \in Dims : Full(l, c, k - 1) /\ ~Full(l, c, k)
  BY <1>4, FirstOpen
<1>6. k \in Dims /\ k \in Nat /\ k >= 2 /\ k <= NumDim
  BY <1>5 DEF Dims
<1>7. stride_sel' = k - 2
  BY <1>3, <1>5, StrideSelIs DEF Registers
<1>8. stride_sel' + 2 = k /\ stride_sel' # NumDim - 1
  BY <1>3, <1>6, <1>7
<1>9. burst_sent' = TRUE
  BY DEF Registers, Sends
<1>10. addr'[side] = Addr(side)
  BY <1>3 DEF Registers
<1>11. \A d \in Dims : req.strides[d][side] \in Nat /\ s[d] = req.strides[d][side]
  BY DEF TypeOK, RequestType, StridesOf
<1>12. req.addr[side] \in Nat
  BY DEF TypeOK, RequestType
<1> DEFINE a == req.addr[side]   t == Path(l, s, n)   x == req.strides[k][side]
<1>13. Addr(side) = (a + t) % AddrSpace
  BY TravelledIs DEF BurstAddress
<1>14. \A d \in Dims : s[d] \in Int
  BY <1>11
<1> HIDE DEF l, c, n, s
<1>15. t \in Int /\ Path(l, s, n + 1) = t + s[k]
  BY <1>1, <1>2, <1>5, <1>14, OneStride
<1>16. a \in Int /\ x \in Int /\ s[k] = x
  BY <1>6, <1>11, <1>12
<1> HIDE DEF a, t, x
<1>17. (((a + t) % AddrSpace) + x) % AddrSpace = ((a + t) + x) % AddrSpace
  <2>1. a + t \in Int
    BY <1>15, <1>16
  <2> QED BY <1>3, <1>16, <2>1, ModAdd
<1>18. (a + t) + x = a + (t + x)
  BY <1>15, <1>16
<1>19. (addr'[side] + x) % AddrSpace = (a + Path(l, s, n + 1)) % AddrSpace
  BY <1>10, <1>13, <1>15, <1>16, <1>17, <1>18, Zenon
<1> QED BY <1>6, <1>8, <1>9, <1>19 DEF a, x, l, s, n

(* A request that is taken leaves the registers at a base.                 *)
LEMMA AtBaseStep ==
    ASSUME TypeOK, AtBase, NEW i \in Inputs, NEW offers \in BOOLEAN, NEW next \in Requests,
           Cycle(i, offers, next)
    PROVE  AtBase' /\ (valid /\ Taken(i.ready) => stride_sel' = NumDim - 1)
<1>1. FrontEnd(i.ready, offers, next) /\ Registers(i.ready) /\ i.ready \in BOOLEAN
  BY DEF Cycle, Inputs
<1>2. CASE ~valid
  BY <1>1, <1>2 DEF AtBase, Registers
<1>3. CASE valid /\ Taken(i.ready)
  <2>1. i.ready = TRUE /\ Last
    BY <1>1, <1>3 DEF Taken
  <2>2. StrideSel(TRUE) = NumDim - 1
    BY <1>3, <2>1, StrideSelIs
  <2>3. stride_sel' = StrideSel(i.ready)
    BY <1>1, <1>3 DEF Registers
  <2> QED BY <2>1, <2>2, <2>3 DEF AtBase
<1>4. CASE valid /\ ~Taken(i.ready)
  <2>1. valid'
    BY <1>1, <1>4 DEF FrontEnd
  <2> QED BY <1>4, <2>1 DEF AtBase
<1> QED BY <1>2, <1>3, <1>4

(* Every cycle keeps the address of the burst.                             *)
LEMMA BurstAddressStep ==
    ASSUME PathInv, IInv', NEW i \in Inputs, NEW offers \in BOOLEAN, NEW next \in Requests,
           Cycle(i, offers, next)
    PROVE  BurstAddress'
<1>0. TypeOK /\ Counted /\ AtBase /\ BurstAddress /\ IInv /\ TypeOK'
  BY DEF PathInv, IInv
<1>1. FrontEnd(i.ready, offers, next) /\ Registers(i.ready) /\ History(i) /\ i.ready \in BOOLEAN
  BY DEF Cycle, Inputs
<1> SUFFICES ASSUME BurstValid', NEW side \in Sides
             PROVE  Addr(side)' = (req'.addr[side] + Travelled(sent, side)') % AddrSpace
  BY DEF BurstAddress
<1>2. Travelled(sent, side)' = Path(Lims', StridesOf(side)', sent')
  <2>1. [d \in Dims |-> Moves(d, sent)' * req'.strides[d][side]]
            = [d \in Dims |-> Turns(Lims', d, sent') * StridesOf(side)'[d]]
    BY DEF Moves, Turns, Bursts, Lims, StridesOf
  <2> QED BY <2>1, Zenon DEF Travelled, Path
<1>3. CASE ~valid \/ Taken(i.ready)
  <2>1. stride_sel' = NumDim - 1
    <3>1. CASE ~valid
      BY <1>0, <1>1, <3>1 DEF AtBase, Registers
    <3>2. CASE Taken(i.ready)
      <4>1. valid
        BY <3>2 DEF Taken, Last, DoneUpTo
      <4> QED BY <1>0, <3>2, <4>1, AtBaseStep
    <3> QED BY <1>3, <3>1, <3>2
  <2>2. Addr(side)' = req'.addr[side]
    BY <2>1 DEF Addr
  <2>3. sent' = 0
    <3>1. CASE Taken(i.ready)
      BY <1>1, <3>1 DEF History
    <3>2. CASE ~valid
      BY <1>0, <1>1, <3>2 DEF History, IInv, NothingSent, BurstValid, Sends, One
    <3> QED BY <1>3, <3>1, <3>2
  <2> DEFINE l == Lims'   s == StridesOf(side)'
  <2>4. /\ \A d \in Dims : l[d] \in Nat \ {0}
        /\ \A d \in Dims : s[d] \in Int
        /\ req'.addr[side] \in 0..AddrSpace-1
    <3>1. req' \in RequestType /\ valid' \in BOOLEAN
      BY <1>0 DEF TypeOK
    <3>2. MaxReps \in Nat /\ MaxReps > 1
      BY CountersHoldOne
    <3>3. \A x, m \in Nat : m > 0 => x % m \in 0..m-1
      OBVIOUS
    <3>4. \A d \in Dims : req'.reps[d] \in Nat
      BY <3>1 DEF RequestType
    <3>5. \A d \in Dims : Rep(d)' \in Nat
      BY <3>2, <3>3, <3>4 DEF Rep
    <3>6. \A d \in Dims : l[d] \in Nat \ {0}
      BY <3>5 DEF Limit, Lims
    <3>7. \A d \in Dims : req'.strides[d][side] \in 0..AddrSpace-1
      BY <3>1 DEF RequestType
    <3>8. \A d \in Dims : s[d] = req'.strides[d][side]
      BY DEF StridesOf
    <3>9. AddrSpace \in Nat
      BY NdMidendAssumption
    <3> HIDE DEF l, s
    <3>10. \A d \in Dims : s[d] \in Int
      BY <3>7, <3>8, <3>9
    <3> QED BY <3>1, <3>6, <3>10 DEF RequestType
  <2> HIDE DEF l, s
  <2>5. Path(l, s, 0) = 0
    BY <2>4, PathZero
  <2>6. Travelled(sent, side)' = 0
    BY <1>2, <2>3, <2>5 DEF l, s
  <2>7. \A a \in 0..AddrSpace-1 : (a + 0) % AddrSpace = a
    BY NdMidendAssumption
  <2> QED BY <2>2, <2>4, <2>6, <2>7
<1>4. CASE valid /\ ~Taken(i.ready)
  <2>1. valid' = valid /\ req' = req
    BY <1>0, <1>1, <1>4 DEF FrontEnd, TypeOK
  <2>2. Lims' = Lims /\ StridesOf(side)' = StridesOf(side) /\ BurstValid
    BY <2>1, RequestKept
  <2>3. addr'[side] = Addr(side)
    BY <1>1, <1>4 DEF Registers
  <2>4. Addr(side) = (req.addr[side] + Path(Lims, StridesOf(side), sent)) % AddrSpace
    BY <1>0, <2>2, TravelledIs DEF BurstAddress
  <2>5. CASE i.ready
    <3>1. Registers(TRUE) /\ ~Taken(TRUE)
      <4>1. i.ready = TRUE
        BY <1>1, <2>5
      <4> QED BY <1>1, <1>4, <4>1, Zenon
    <3>2. sent' = sent + 1
      BY <1>1, <1>4, <2>2, <2>5 DEF History, Sends, One
    <3>3. /\ stride_sel' + 2 \in Dims /\ stride_sel' # NumDim - 1 /\ burst_sent' = TRUE
          /\ (addr'[side] + req.strides[stride_sel' + 2][side]) % AddrSpace
                 = (req.addr[side] + Path(Lims, StridesOf(side), sent + 1)) % AddrSpace
      BY <1>0, <2>2, <3>1, AddressMoves
    <3>4. Addr(side)' = (addr'[side] + req.strides[stride_sel' + 2][side]) % AddrSpace
      BY <2>1, <3>3, Zenon DEF Addr
    <3> QED BY <1>2, <2>1, <2>2, <3>2, <3>3, <3>4, Zenon
  <2>6. CASE ~i.ready
    <3>1. i.ready = FALSE
      BY <1>1, <2>6
    <3>2. sent' = sent
      BY <1>0, <1>1, <1>4, <2>6 DEF History, Sends, One, TypeOK
    <3>3. stride_sel' = 0 /\ burst_sent' = FALSE
      BY <1>0, <1>1, <1>4, <3>1, StrideSelIs DEF Registers, Sends
    <3>4. 0 # NumDim - 1
      BY NdMidendAssumption
    <3>5. Addr(side)' = addr'[side]
      BY <3>3, <3>4, Zenon DEF Addr
    <3> QED BY <1>2, <2>1, <2>2, <2>3, <2>4, <3>2, <3>5, Zenon
  <2> QED BY <2>5, <2>6
<1> QED BY <1>3, <1>4

(* The strengthened invariant holds after reset.                           *)
LEMMA PathInit == Init => PathInv
<1> SUFFICES ASSUME Init PROVE PathInv
  OBVIOUS
<1>1. IInv
  BY InitInv
<1>2. TypeOK /\ ~valid /\ sent = 0 /\ \A d \in Dims : counter[d] = 1
  BY <1>1 DEF IInv, Init
<1> DEFINE l == Lims
<1>3. \A d \in Dims : l[d] \in Nat \ {0}
  BY <1>2, LimsAre
<1>4. Bursts = Product(l)
  BY DEF Bursts, Lims
<1> HIDE DEF l
<1>5. Digits(l, counter, 0) /\ 0 < Product(l)[NumDim]
  BY <1>2, <1>3, DigitsZero
<1>6. Counted
  BY <1>2, <1>4, <1>5 DEF Counted, l
<1>7. AtBase /\ BurstAddress
  BY <1>2 DEF Init, AtBase, BurstAddress, BurstValid
<1> QED BY <1>1, <1>6, <1>7 DEF PathInv

(* Every cycle keeps the strengthened invariant.                           *)
LEMMA PathNext == PathInv /\ [Next]_vars => PathInv'
<1> SUFFICES ASSUME PathInv, [Next]_vars PROVE PathInv'
  OBVIOUS
<1>1. IInv'
  BY NextInv DEF PathInv
<1>2. CASE UNCHANGED vars
  <2>1. valid' = valid /\ req' = req /\ counter' = counter /\ stride_sel' = stride_sel
        /\ addr' = addr /\ burst_sent' = burst_sent /\ sent' = sent
    BY <1>2 DEF vars
  <2>2. Lims' = Lims /\ Bursts' = Bursts /\ (BurstValid' <=> BurstValid)
    BY <2>1, RequestKept
  <2>3. Counted'
    BY <2>1, <2>2 DEF PathInv, Counted, Digits
  <2>4. AtBase'
    BY <2>1 DEF PathInv, AtBase
  <2>5. \A side \in Sides : Addr(side)' = Addr(side)
    BY <2>1 DEF Addr
  <2>6. ASSUME NEW side \in Sides PROVE Travelled(sent, side)' = Travelled(sent, side)
    <3>1. [d \in Dims |-> Moves(d, sent)' * req'.strides[d][side]]
              = [d \in Dims |-> Moves(d, sent) * req.strides[d][side]]
      BY <2>1, <2>2 DEF Moves
    <3> QED BY <3>1, Zenon DEF Travelled
  <2>7. BurstAddress'
    BY <2>1, <2>2, <2>5, <2>6 DEF PathInv, BurstAddress
  <2> QED BY <1>1, <2>3, <2>4, <2>7 DEF PathInv
<1>3. CASE Next
  <2>1. PICK i \in Inputs, offers \in BOOLEAN, next \in Requests : Cycle(i, offers, next)
    BY <1>3 DEF Next
  <2>2. TypeOK /\ IInv /\ Counted /\ AtBase /\ TypeOK'
    BY <1>1 DEF PathInv, IInv
  <2>3. Counted'
    BY <2>1, <2>2, CountedStep
  <2>4. AtBase'
    BY <2>1, <2>2, AtBaseStep
  <2>5. BurstAddress'
    BY <1>1, <2>1, BurstAddressStep
  <2> QED BY <1>1, <2>3, <2>4, <2>5 DEF PathInv
<1> QED BY <1>2, <1>3

(* The counters are the digits of the number of bursts sent, and the       *)
(* address registers are where their strides have led.                     *)
THEOREM NdCounts == Spec => []PathInv
<1> QED BY PathInit, PathNext, PTL DEF Spec

(* Whatever the backend's stalls and the gaps between transfers, each      *)
(* burst has the addresses the nested loops over the dimensions give it:   *)
(* the one stride added per burst (popcount of the stages done) is right.  *)
THEOREM NdAddresses == Spec => []BurstAddress
<1>1. PathInv => BurstAddress
  BY DEF PathInv
<1> QED BY <1>1, NdCounts, PTL

(* The last flag is on the final burst of a transfer and on no other.      *)
THEOREM NdLastFlag == Spec => []LastOnFinal
<1>1. PathInv => LastOnFinal
  BY FinalHasLast DEF PathInv, IInv
<1> QED BY <1>1, NdCounts, PTL

============================================================================
