-------------------------- MODULE LegalizerProofs --------------------------
(***************************************************************************)
(* Proofs about the legalizer for every bus width, page size and set of    *)
(* requests.  The inductive invariant adds to the checked ones that a      *)
(* killed legalizer is idle, without which a kill followed by an emission  *)
(* could not be excluded, and that a valid half has bytes left, without    *)
(* which a burst could be empty.  That every burst is legal then follows   *)
(* from the invariant by arithmetic of pages alone.                        *)
(***************************************************************************)
EXTENDS Legalizer, CommonLemmas

HalvesNonEmpty == (r_tf.valid => r_tf.length > 0) /\ (w_tf.valid => w_tf.length > 0)

KilledIdle == job.killed => ~r_tf.valid /\ ~w_tf.valid

IInv ==
    /\ TypeOK
    /\ BurstsTile /\ BurstsContiguous
    /\ CoupledLockstep /\ OneLast
    /\ KilledIdle /\ HalvesNonEmpty

----------------------------------------------------------------------------
(* A page is at most 4 KiB (PageWidthCap), whatever the options.           *)
LEMMA PageWidthRange ==
    ASSUME NEW b \in BOOLEAN, NEW red \in BOOLEAN, NEW llen \in 0..BurstWidth-1
    PROVE  PageWidth(b, red, llen) \in 0..PageWidthCap
BY LegalizerAssumption DEF PageWidth, Smaller

(* At least one byte lies before the next page boundary.                   *)
LEMMA NumBytesToPbPositive ==
    ASSUME NEW addr \in 0..AddrSpace-1, NEW width \in 0..PageWidthCap
    PROVE  NumBytesToPb(addr, width) \in Nat \ {0}
<1> DEFINE page == 2^width
<1>1. page \in Nat \ {0}
  BY PowersOfTwo, LegalizerAssumption
<1>2. addr % page \in 0..page-1
  <2> HIDE DEF page
  <2> QED BY <1>1, LegalizerAssumption
<1> HIDE DEF page
<1>3. page - (addr % page) \in Nat \ {0}
  BY <1>1, <1>2
<1> QED BY <1>3 DEF NumBytesToPb, page

(* Every cycle makes progress: a burst can always take at least one byte.  *)
LEMMA PossiblePositive ==
    ASSUME TypeOK
    PROVE  RNumBytesPossible \in Nat \ {0} /\ WNumBytesPossible \in Nat \ {0}
<1>1. RPageWidth \in 0..PageWidthCap /\ WPageWidth \in 0..PageWidthCap
  BY PageWidthRange DEF RPageWidth, WPageWidth, TypeOK, OptType
<1>2. RNumBytesToPb \in Nat \ {0}
  BY <1>1, NumBytesToPbPositive DEF RNumBytesToPb, TypeOK, HalfType
<1>3. WNumBytesToPb \in Nat \ {0}
  BY <1>1, NumBytesToPbPositive DEF WNumBytesToPb, TypeOK, HalfType
<1> QED BY <1>2, <1>3 DEF RNumBytesPossible, WNumBytesPossible, NumBytesPossible, Smaller

(* Emitting a burst keeps a half well typed.                               *)
LEMMA NextHalfType ==
    ASSUME NEW tf \in HalfType, NEW n \in Nat \ {0}
    PROVE  NextHalf(tf, n) \in HalfType
<1>1. CASE HalfDone(tf, n)
  BY <1>1 DEF NextHalf, HalfType
<1>2. CASE ~HalfDone(tf, n)
  <2>1. (tf.addr + n) % AddrSpace \in 0..AddrSpace-1
    BY LegalizerAssumption DEF HalfType
  <2>2. tf.length - n \in Nat
    BY <1>2 DEF HalfDone, HalfType
  <2> QED BY <1>2, <2>1, <2>2 DEF NextHalf, HalfType
<1> QED BY <1>1, <1>2

----------------------------------------------------------------------------
(* The invariant holds after reset.                                        *)
LEMMA InitInv == Init => IInv
BY LegalizerAssumption DEF Init, IInv, TypeOK, HalfType, OptType, JobType, NoTransfer, NoOpt, NoJob,
    Protocols, BurstsTile, ReadTiles, WriteTiles, BurstsContiguous,
    CoupledLockstep, OneLast, KilledIdle, HalvesNonEmpty

(* The bytes of a burst and what is left of its half.                      *)
LEMMA HalfStep ==
    ASSUME NEW tf \in HalfType, NEW n \in Nat \ {0}
    PROVE  /\ NumBytes(tf, n) \in Nat
           /\ HalfDone(tf, n) => NumBytes(tf, n) = tf.length /\ NextHalf(tf, n).valid = FALSE
           /\ ~HalfDone(tf, n) => /\ NextHalf(tf, n).length + NumBytes(tf, n) = tf.length
                                  /\ NextHalf(tf, n).valid = tf.valid
                                  /\ NextHalf(tf, n).length > 0 /\ NumBytes(tf, n) = n
                                  /\ NextHalf(tf, n).addr = (tf.addr + n) % AddrSpace
<1>1. tf.length \in Nat /\ NumBytes(tf, n) \in Nat
  BY DEF NumBytes, Smaller, HalfType
<1>2. CASE HalfDone(tf, n)
  <2>1. NextHalf(tf, n) = [tf EXCEPT !.valid = FALSE]
    BY <1>2 DEF NextHalf
  <2>2. NumBytes(tf, n) = tf.length
    BY <1>1, <1>2 DEF NumBytes, HalfDone, Smaller
  <2>3. NextHalf(tf, n).valid = FALSE
    BY <2>1 DEF HalfType
  <2> QED BY <1>1, <1>2, <2>2, <2>3
<1>3. CASE ~HalfDone(tf, n)
  <2>1. NumBytes(tf, n) = n
    BY <1>1, <1>3 DEF NumBytes, HalfDone, Smaller
  <2>2. /\ NextHalf(tf, n).length = tf.length - n /\ NextHalf(tf, n).valid = tf.valid
        /\ NextHalf(tf, n).addr = (tf.addr + n) % AddrSpace
    BY <1>3 DEF NextHalf
  <2>3. tf.length - n > 0
    BY <1>1, <1>3 DEF HalfDone
  <2> QED BY <1>1, <1>3, <2>1, <2>2, <2>3
<1> QED BY <1>2, <1>3

(* Emitting a burst, or waiting, keeps it.                                 *)
LEMMA AdvanceInv ==
    ASSUME IInv, NEW rr \in BOOLEAN, NEW ww \in BOOLEAN, Advance(rr, ww)
    PROVE  IInv'
<1> DEFINE rn == RNumBytesPossible
           wn == WNumBytesPossible
<1>1. rn \in Nat \ {0} /\ wn \in Nat \ {0}
  BY PossiblePositive DEF IInv
<1>2. r_tf \in HalfType /\ w_tf \in HalfType /\ job \in JobType /\ opt_tf \in OptType
  BY DEF IInv, TypeOK
<1>3. /\ NextHalf(r_tf, rn) \in HalfType /\ NumBytes(r_tf, rn) \in Nat
      /\ HalfDone(r_tf, rn) => NumBytes(r_tf, rn) = r_tf.length /\ NextHalf(r_tf, rn).valid = FALSE
      /\ ~HalfDone(r_tf, rn) =>
             /\ NextHalf(r_tf, rn).length + NumBytes(r_tf, rn) = r_tf.length
             /\ NextHalf(r_tf, rn).valid = r_tf.valid
             /\ NextHalf(r_tf, rn).length > 0 /\ NumBytes(r_tf, rn) = rn
             /\ NextHalf(r_tf, rn).addr = (r_tf.addr + rn) % AddrSpace
  BY <1>1, <1>2, NextHalfType, HalfStep
<1>4. /\ NextHalf(w_tf, wn) \in HalfType /\ NumBytes(w_tf, wn) \in Nat
      /\ HalfDone(w_tf, wn) => NumBytes(w_tf, wn) = w_tf.length /\ NextHalf(w_tf, wn).valid = FALSE
      /\ ~HalfDone(w_tf, wn) =>
             /\ NextHalf(w_tf, wn).length + NumBytes(w_tf, wn) = w_tf.length
             /\ NextHalf(w_tf, wn).valid = w_tf.valid
             /\ NextHalf(w_tf, wn).length > 0 /\ NumBytes(w_tf, wn) = wn
             /\ NextHalf(w_tf, wn).addr = (w_tf.addr + wn) % AddrSpace
  BY <1>1, <1>2, NextHalfType, HalfStep
<1> HIDE DEF rn, wn
<1>5. /\ r_tf' = IF REnable(rr, ww) THEN NextHalf(r_tf, rn) ELSE r_tf
      /\ w_tf' = IF WEnable(rr, ww) THEN NextHalf(w_tf, wn) ELSE w_tf
      /\ opt_tf' = opt_tf
  BY DEF Advance, rn, wn
<1>6. /\ job'.read = IF r_tf.valid /\ REnable(rr, ww) THEN job.read + NumBytes(r_tf, rn) ELSE job.read
      /\ job'.written = IF w_tf.valid /\ WEnable(rr, ww) THEN job.written + NumBytes(w_tf, wn) ELSE job.written
      /\ job'.lasts = IF w_tf.valid /\ WEnable(rr, ww) /\ HalfDone(w_tf, wn) THEN job.lasts + 1 ELSE job.lasts
      /\ job'.length = job.length /\ job'.killed = job.killed
      /\ job'.src_addr = job.src_addr /\ job'.dst_addr = job.dst_addr
  BY <1>2 DEF Advance, Emitted, RValid, WValid, RNumBytes, WNumBytes, WDone, rn, wn, JobType
<1>7. TypeOK'
  <2>1. r_tf' \in HalfType /\ w_tf' \in HalfType /\ opt_tf' \in OptType
    BY <1>2, <1>3, <1>4, <1>5
  <2>2. job' \in JobType
    <3>1. job' = [job EXCEPT !.read = job'.read, !.written = job'.written, !.lasts = job'.lasts]
      BY <1>2 DEF Advance, Emitted, JobType
    <3>2. job'.read \in Nat /\ job'.written \in Nat /\ job'.lasts \in Nat
      BY <1>2, <1>3, <1>4, <1>6 DEF JobType
    <3> QED BY <1>2, <3>1, <3>2 DEF JobType
  <2> QED BY <2>1, <2>2 DEF TypeOK
<1>8. BurstsTile'
  <2>1. ReadTiles'
    BY <1>2, <1>3, <1>5, <1>6 DEF IInv, BurstsTile, ReadTiles, HalfType, JobType
  <2>2. WriteTiles'
    BY <1>2, <1>4, <1>5, <1>6 DEF IInv, BurstsTile, WriteTiles, HalfType, JobType
  <2> QED BY <2>1, <2>2 DEF BurstsTile
<1>9. OneLast'
  BY <1>2, <1>4, <1>5, <1>6 DEF IInv, OneLast, HalfType, JobType
<1>10. KilledIdle'
  BY <1>2, <1>3, <1>4, <1>5, <1>6 DEF IInv, KilledIdle, HalfType, JobType
<1>11. CoupledLockstep'
  <2> SUFFICES ASSUME Coupled'
               PROVE  job'.read = job'.written /\ r_tf'.valid = w_tf'.valid
    BY DEF CoupledLockstep
  <2>1. Coupled /\ rn = wn /\ REnable(rr, ww) = WEnable(rr, ww)
    BY <1>5 DEF Coupled, rn, wn, RNumBytesPossible, WNumBytesPossible, NumBytesPossible, REnable, WEnable
  <2>2. job.read = job.written /\ r_tf.valid = w_tf.valid
    BY <2>1 DEF IInv, CoupledLockstep
  <2>3. CASE ~r_tf.valid
    BY <1>2, <1>3, <1>4, <1>5, <1>6, <2>2, <2>3 DEF HalfType
  <2>4. CASE r_tf.valid
    <3>1. r_tf.length = w_tf.length
      BY <1>2, <2>2, <2>4 DEF IInv, KilledIdle, BurstsTile, ReadTiles, WriteTiles, JobType, HalfType
    <3>2. /\ HalfDone(r_tf, rn) = HalfDone(w_tf, wn)
          /\ NumBytes(r_tf, rn) = NumBytes(w_tf, wn)
      BY <2>1, <3>1 DEF HalfDone, NumBytes
    <3> QED BY <1>3, <1>4, <1>5, <1>6, <2>1, <2>2, <3>2
  <2> QED BY <2>3, <2>4
<1>12. HalvesNonEmpty'
  BY <1>2, <1>3, <1>4, <1>5 DEF IInv, HalvesNonEmpty, HalfType
<1>13. BurstsContiguous'
  <2>1. /\ job.src_addr \in Int /\ job.dst_addr \in Int /\ job.read \in Int /\ job.written \in Int
        /\ rn \in Int /\ wn \in Int
    BY <1>1, <1>2, LegalizerAssumption DEF JobType
  <2>2. ASSUME ~job'.killed, r_tf'.valid
        PROVE  r_tf'.addr = (job'.src_addr + job'.read) % AddrSpace
    <3>1. r_tf.valid /\ ~job.killed /\ r_tf.addr = (job.src_addr + job.read) % AddrSpace
      <4>1. NextHalf(r_tf, rn).valid => r_tf.valid
        BY <1>3
      <4>2. r_tf.valid
        BY <1>5, <2>2, <4>1
      <4>3. ~job.killed
        BY <1>6, <2>2
      <4> QED BY <4>2, <4>3 DEF IInv, BurstsContiguous
    <3>2. CASE REnable(rr, ww)
      <4>1. ~HalfDone(r_tf, rn)
        BY <1>3, <1>5, <2>2, <3>2
      <4>2. r_tf'.addr = (r_tf.addr + rn) % AddrSpace /\ job'.read = job.read + rn
        BY <1>3, <1>5, <1>6, <3>1, <3>2, <4>1
      <4>3. (((job.src_addr + job.read) % AddrSpace) + rn) % AddrSpace
                = ((job.src_addr + job.read) + rn) % AddrSpace
        <5> DEFINE a == job.src_addr + job.read
        <5>1. a \in Int
          BY <2>1
        <5> HIDE DEF a
        <5>2. ((a % AddrSpace) + rn) % AddrSpace = (a + rn) % AddrSpace
          BY <2>1, <5>1, ModAdd, LegalizerAssumption
        <5> QED BY <5>2 DEF a
      <4>4. (job.src_addr + job.read) + rn = job.src_addr + (job.read + rn)
        BY <2>1
      <4>5. job'.src_addr + job'.read = (job.src_addr + job.read) + rn
        BY <1>6, <4>2, <4>4
      <4>6. r_tf'.addr = (((job.src_addr + job.read) % AddrSpace) + rn) % AddrSpace
        BY <3>1, <4>2
      <4> QED BY <4>3, <4>5, <4>6
    <3>3. CASE ~REnable(rr, ww)
      BY <1>5, <1>6, <3>1, <3>3
    <3> QED BY <3>2, <3>3
  <2>3. ASSUME ~job'.killed, w_tf'.valid
        PROVE  w_tf'.addr = (job'.dst_addr + job'.written) % AddrSpace
    <3>1. w_tf.valid /\ ~job.killed /\ w_tf.addr = (job.dst_addr + job.written) % AddrSpace
      <4>1. NextHalf(w_tf, wn).valid => w_tf.valid
        BY <1>4
      <4>2. w_tf.valid
        BY <1>5, <2>3, <4>1
      <4>3. ~job.killed
        BY <1>6, <2>3
      <4> QED BY <4>2, <4>3 DEF IInv, BurstsContiguous
    <3>2. CASE WEnable(rr, ww)
      <4>1. ~HalfDone(w_tf, wn)
        BY <1>4, <1>5, <2>3, <3>2
      <4>2. w_tf'.addr = (w_tf.addr + wn) % AddrSpace /\ job'.written = job.written + wn
        BY <1>4, <1>5, <1>6, <3>1, <3>2, <4>1
      <4>3. (((job.dst_addr + job.written) % AddrSpace) + wn) % AddrSpace
                = ((job.dst_addr + job.written) + wn) % AddrSpace
        <5> DEFINE a == job.dst_addr + job.written
        <5>1. a \in Int
          BY <2>1
        <5> HIDE DEF a
        <5>2. ((a % AddrSpace) + wn) % AddrSpace = (a + wn) % AddrSpace
          BY <2>1, <5>1, ModAdd, LegalizerAssumption
        <5> QED BY <5>2 DEF a
      <4>4. (job.dst_addr + job.written) + wn = job.dst_addr + (job.written + wn)
        BY <2>1
      <4>5. job'.dst_addr + job'.written = (job.dst_addr + job.written) + wn
        BY <1>6, <4>2, <4>4
      <4>6. w_tf'.addr = (((job.dst_addr + job.written) % AddrSpace) + wn) % AddrSpace
        BY <3>1, <4>2
      <4> QED BY <4>3, <4>5, <4>6
    <3>3. CASE ~WEnable(rr, ww)
      BY <1>5, <1>6, <3>1, <3>3
    <3> QED BY <3>2, <3>3
  <2> QED BY <2>2, <2>3 DEF BurstsContiguous
<1> QED BY <1>7, <1>8, <1>9, <1>10, <1>11, <1>12, <1>13 DEF IInv

(* Taking a new transfer keeps it.                                         *)
LEMMA RefillInv ==
    ASSUME IInv, NEW req \in Requests, Refill(req)
    PROVE  IInv'
<1>1. req \in RequestType
  BY LegalizerAssumption
<1>2. TypeOK'
  BY <1>1 DEF Refill, Load, TypeOK, RequestType, HalfType, JobType
<1>3. /\ job'.length = req.length /\ job'.read = 0 /\ job'.written = 0 /\ job'.lasts = 0
      /\ ~job'.killed /\ r_tf'.valid /\ w_tf'.valid
      /\ r_tf'.length = req.length /\ w_tf'.length = req.length
  BY DEF Refill, Load
<1>4. BurstsTile'
  BY <1>1, <1>3 DEF BurstsTile, ReadTiles, WriteTiles, RequestType
<1>5. BurstsContiguous'
  <2>1. \A a \in 0..AddrSpace-1 : (a + 0) % AddrSpace = a
    <3> SUFFICES ASSUME NEW a \in 0..AddrSpace-1 PROVE (a + 0) % AddrSpace = a
      OBVIOUS
    <3>1. (AddrSpace * 0 + a) % AddrSpace = a
      BY DivModOf, LegalizerAssumption
    <3> QED BY <3>1, LegalizerAssumption
  <2>2. /\ r_tf'.addr = req.src_addr /\ job'.src_addr = req.src_addr
        /\ w_tf'.addr = req.dst_addr /\ job'.dst_addr = req.dst_addr
    BY DEF Refill, Load
  <2> QED BY <1>1, <1>3, <2>1, <2>2 DEF BurstsContiguous, RequestType
<1>6. HalvesNonEmpty'
  BY <1>1, <1>3 DEF HalvesNonEmpty, RequestType
<1> QED BY <1>2, <1>3, <1>4, <1>5, <1>6 DEF IInv, CoupledLockstep, OneLast, KilledIdle

(* Clearing the legalizer keeps it.                                        *)
LEMMA KillInv == ASSUME IInv, Kill PROVE IInv'
<1>1. job \in JobType /\ LegalizerAssumption
  BY LegalizerAssumption DEF IInv, TypeOK
<1>2. /\ job'.read = job.read /\ job'.written = job.written /\ job'.killed = TRUE
      /\ job' \in JobType /\ r_tf' = NoTransfer /\ w_tf' = NoTransfer /\ opt_tf' = opt_tf
  BY <1>1 DEF Kill, JobType
<1>3. TypeOK'
  BY <1>1, <1>2, LegalizerAssumption DEF IInv, TypeOK, NoTransfer, HalfType
<1>4. CoupledLockstep'
  BY <1>2 DEF IInv, CoupledLockstep, Coupled, NoTransfer
<1> QED BY <1>2, <1>3, <1>4 DEF IInv, BurstsTile, ReadTiles, WriteTiles, BurstsContiguous, OneLast,
    KilledIdle, HalvesNonEmpty, NoTransfer

(* Every cycle keeps it.                                                   *)
LEMMA NextInv == IInv /\ [Next]_vars => IInv'
<1> SUFFICES ASSUME IInv, [Next]_vars PROVE IInv'
  OBVIOUS
<1>1. CASE \E r_ready, w_ready \in BOOLEAN : Advance(r_ready, w_ready)
  BY <1>1, AdvanceInv
<1>2. CASE \E req \in Requests : Refill(req)
  BY <1>2, RefillInv
<1>3. CASE Kill
  BY <1>3, KillInv
<1>4. CASE UNCHANGED vars
  BY <1>4 DEF vars, IInv, TypeOK, BurstsTile, ReadTiles, WriteTiles, BurstsContiguous,
      CoupledLockstep, Coupled, OneLast, KilledIdle, HalvesNonEmpty
<1> QED BY <1>1, <1>2, <1>3, <1>4 DEF Next

(* The inductive invariant holds in every reachable state.                 *)
THEOREM Invariance == Spec => []IInv
<1>1. Init => IInv
  BY InitInv
<1>2. IInv /\ [Next]_vars => IInv'
  BY NextInv
<1> QED BY <1>1, <1>2, PTL DEF Spec

(* Type correctness of the legalizer's registers.                          *)
THEOREM TypeCorrect == Spec => []TypeOK
<1>1. IInv => TypeOK
  BY DEF IInv
<1> QED BY <1>1, Invariance, PTL

(* The bursts of a transfer cover each of its bytes exactly once.          *)
THEOREM Tiling == Spec => []BurstsTile
<1>1. IInv => BurstsTile
  BY DEF IInv
<1> QED BY <1>1, Invariance, PTL

(* A coupled transfer reads exactly as far as it writes.                   *)
THEOREM Lockstep == Spec => []CoupledLockstep
<1>1. IInv => CoupledLockstep
  BY DEF IInv
<1> QED BY <1>1, Invariance, PTL

(* One `last` per transfer, with its final write burst.                    *)
THEOREM LastOnce == Spec => []OneLast
<1>1. IInv => OneLast
  BY DEF IInv
<1> QED BY <1>1, Invariance, PTL

----------------------------------------------------------------------------
(* Legality of bursts: any bytes that end before the page of the side does *)
(* make a legal burst, and the legalizer never takes more.                 *)

(* A smaller page divides a larger one.                                    *)
LEMMA PageDivides ==
    ASSUME NEW j \in 0..PageWidthCap + BurstWidth, NEW k \in 0..PageWidthCap + BurstWidth, j <= k
    PROVE  /\ 2^j \in Nat \ {0} /\ 2^(k - j) \in Nat \ {0}
           /\ 2^k = (2^j) * (2^(k - j))
           /\ 2^j <= 2^k
<1> DEFINE d == k - j
<1>1. d \in 0..PageWidthCap + BurstWidth /\ j + d = k
  BY LegalizerAssumption
<1> HIDE DEF d
<1>2. 2^j > 0 /\ 2^d > 0 /\ 2^(j + d) = (2^j) * (2^d)
  BY <1>1, PowersOfTwo
<1>3. 2^j \in Int /\ 2^d \in Int
  BY <1>1, LegalizerAssumption
<1>4. 2^k = (2^j) * (2^d)
  BY <1>1, <1>2
<1>5. (2^j) * (2^d) >= 2^j
  BY <1>2, <1>3, MulAtLeast
<1> QED BY <1>2, <1>3, <1>4, <1>5 DEF d

(* A page is a power of two within the page width.                         *)
LEMMA PageWidthBounds ==
    ASSUME NEW b \in BOOLEAN, NEW red \in BOOLEAN, NEW llen \in 0..BurstWidth-1
    PROVE  /\ PageWidth(b, red, llen) \in OffsetWidth..PageWidthCap
           /\ PageWidth(b, red, llen) <= OffsetWidth + BurstWidth
BY LegalizerAssumption DEF PageWidth, Smaller

(* A burst within its page is within 4 KiB and has at most 2^BurstWidth    *)
(* beats.                                                                  *)
LEMMA BurstInPageLegal ==
    ASSUME NEW addr \in Nat, NEW width \in OffsetWidth..PageWidthCap, width <= OffsetWidth + BurstWidth,
           NEW n \in Nat \ {0}, n <= NumBytesToPb(addr, width)
    PROVE  LegalBurst(addr, n, width)
<1> DEFINE page == 2^width
           cap  == 2^PageWidthCap
           pages == 2^(PageWidthCap - width)
           bus  == 2^OffsetWidth
           beats == 2^(width - OffsetWidth)
<1>1. /\ OffsetWidth \in Nat /\ BurstWidth \in Nat /\ PageWidthCap \in Nat /\ width \in Nat
      /\ width \in 0..PageWidthCap + BurstWidth /\ PageWidthCap \in 0..PageWidthCap + BurstWidth
      /\ OffsetWidth \in 0..PageWidthCap + BurstWidth /\ BurstWidth \in 0..PageWidthCap + BurstWidth
      /\ width - OffsetWidth \in 0..PageWidthCap + BurstWidth
      /\ OffsetWidth <= width /\ width <= PageWidthCap /\ width - OffsetWidth <= BurstWidth
  BY LegalizerAssumption
<1>2. page \in Nat \ {0} /\ pages \in Nat \ {0} /\ cap = page * pages
  BY <1>1, PageDivides
<1>3. bus \in Nat \ {0} /\ beats \in Nat \ {0} /\ page = bus * beats
  BY <1>1, PageDivides
<1>4. beats <= 2^BurstWidth /\ 2^BurstWidth \in Nat
  BY <1>1, PageDivides
<1>5. n <= page - (addr % page)
  BY DEF NumBytesToPb
<1>6. StrbWidth = bus
  BY DEF StrbWidth
<1> HIDE DEF page, cap, pages, bus, beats
<1>7. addr \div page = (addr + n - 1) \div page
  BY <1>2, <1>5, SamePage
<1>8. addr \div cap = (addr + n - 1) \div cap
  <2> DEFINE last == addr + n - 1
  <2>1. last \in Int /\ addr \in Int /\ addr \div page = last \div page
    BY <1>7
  <2> HIDE DEF last
  <2>2. page \in Nat \ {0} /\ pages \in Nat \ {0}
    BY <1>2
  <2>3. addr \div (page * pages) = last \div (page * pages)
    BY <2>1, <2>2, SamePageOfLarger, Zenon
  <2> QED BY <1>2, <2>3 DEF last
<1>9. Beats(addr, n) <= 2^BurstWidth
  <2> DEFINE last == n + (addr % bus) - 1
  <2>1. addr % bus \in 0..bus-1 /\ addr % page \in 0..page-1
    <3>1. addr \in Int
      OBVIOUS
    <3>2. addr % bus \in 0..bus-1
      BY <1>3, <3>1, DivMod
    <3>3. addr % page \in 0..page-1
      BY <1>2, <3>1, DivMod
    <3> QED BY <3>2, <3>3
  <2>2. addr % bus <= addr % page
    <3>1. page \in Int /\ addr \in Int
      BY <1>2
    <3> QED BY <1>3, <3>1, ModMod, Zenon
  <2>3. last \in Int /\ last <= page - 1
    BY <1>2, <1>3, <1>5, <2>1, <2>2
  <2> HIDE DEF last
  <2>4. last \div bus <= (page - 1) \div bus
    BY <1>2, <1>3, <2>3, MonoDiv
  <2>5. (bus * (beats - 1) + (bus - 1)) \div bus = beats - 1
    <3>1. \A q \in Int, r \in 0..bus-1 : (bus * q + r) \div bus = q
      BY <1>3, DivModOf
    <3>2. beats - 1 \in Int /\ bus - 1 \in 0..bus-1
      BY <1>3
    <3> HIDE DEF LegalBurst
    <3> QED BY <3>1, <3>2
  <2>6. bus * (beats - 1) + (bus - 1) = page - 1
    BY <1>3
  <2>7. last \div bus \in Int
    BY <1>3, <2>3, DivMod
  <2>8. (last \div bus) + 1 <= beats
    BY <1>3, <2>4, <2>5, <2>6, <2>7
  <2>9. (last \div bus) + 1 <= 2^BurstWidth
    BY <1>3, <1>4, <2>7, <2>8
  <2> QED BY <1>6, <2>9 DEF Beats, last
<1> QED BY <1>7, <1>8, <1>9 DEF LegalBurst, WithinPage, page, cap

(* Every burst of a state of the invariant is legal.                       *)
LEMMA LegalBursts == IInv => BurstsLegal
<1> SUFFICES ASSUME IInv PROVE BurstsLegal
  OBVIOUS
<1>1. r_tf \in HalfType /\ w_tf \in HalfType /\ opt_tf \in OptType
  BY DEF IInv, TypeOK
<1>2. /\ RPageWidth \in OffsetWidth..PageWidthCap /\ RPageWidth <= OffsetWidth + BurstWidth
      /\ WPageWidth \in OffsetWidth..PageWidthCap /\ WPageWidth <= OffsetWidth + BurstWidth
  BY <1>1, PageWidthBounds DEF RPageWidth, WPageWidth, OptType
<1>3. RNumBytesToPb \in Nat \ {0} /\ WNumBytesToPb \in Nat \ {0}
  BY <1>1, <1>2, NumBytesToPbPositive, LegalizerAssumption DEF RNumBytesToPb, WNumBytesToPb, HalfType
<1>4. /\ RNumBytesPossible \in Nat \ {0} /\ RNumBytesPossible <= RNumBytesToPb
      /\ WNumBytesPossible \in Nat \ {0} /\ WNumBytesPossible <= WNumBytesToPb
  BY <1>3 DEF RNumBytesPossible, WNumBytesPossible, NumBytesPossible, Smaller
<1>5. ASSUME r_tf.valid
      PROVE  RNumBytes \in Nat \ {0} /\ RNumBytes <= RNumBytesToPb
  BY <1>1, <1>3, <1>4, <1>5 DEF IInv, HalvesNonEmpty, RNumBytes, NumBytes, Smaller, HalfType
<1>6. ASSUME w_tf.valid
      PROVE  WNumBytes \in Nat \ {0} /\ WNumBytes <= WNumBytesToPb
  BY <1>1, <1>3, <1>4, <1>6 DEF IInv, HalvesNonEmpty, WNumBytes, NumBytes, Smaller, HalfType
<1>7. r_tf.addr \in Nat /\ w_tf.addr \in Nat
  BY <1>1, LegalizerAssumption DEF HalfType
<1>8. ASSUME r_tf.valid PROVE LegalBurst(r_tf.addr, RNumBytes, RPageWidth)
  BY <1>2, <1>5, <1>7, <1>8, BurstInPageLegal DEF RNumBytesToPb
<1>9. ASSUME w_tf.valid PROVE LegalBurst(w_tf.addr, WNumBytes, WPageWidth)
  BY <1>2, <1>6, <1>7, <1>9, BurstInPageLegal DEF WNumBytesToPb
<1> QED BY <1>8, <1>9 DEF BurstsLegal

(* Every burst that leaves the legalizer is legal on its bus and within    *)
(* the page its side asked for.                                            *)
THEOREM BurstLegality == Spec => []BurstsLegal
BY LegalBursts, Invariance, PTL

(* The bursts of a half follow each other without gap or overlap.          *)
THEOREM Contiguity == Spec => []BurstsContiguous
<1>1. IInv => BurstsContiguous
  BY DEF IInv
<1> QED BY <1>1, Invariance, PTL

----------------------------------------------------------------------------
(* A cycle without refill only moves the history forward.                  *)
LEMMA AdvanceMonotone ==
    ASSUME IInv, NEW rr \in BOOLEAN, NEW ww \in BOOLEAN, Advance(rr, ww)
    PROVE  ~Replaced
<1>1. RNumBytes \in Nat /\ WNumBytes \in Nat
  BY PossiblePositive, HalfStep DEF IInv, TypeOK, RNumBytes, WNumBytes
<1>2. job \in JobType
  BY DEF IInv, TypeOK
<1>3. /\ job'.read \in {job.read, job.read + RNumBytes}
      /\ job'.written \in {job.written, job.written + WNumBytes}
      /\ job'.length = job.length /\ job'.src_addr = job.src_addr /\ job'.dst_addr = job.dst_addr
  BY <1>2 DEF Advance, Emitted, JobType
<1> QED BY <1>1, <1>2, <1>3 DEF Replaced, JobType

(* The cycle that refills emits all that was left of the previous transfer. *)
LEMMA RefillEmitsRest ==
    ASSUME IInv, RDone, WDone, ~job.killed
    PROVE  LET e == Emitted(TRUE, TRUE)
           IN  e.read = e.length /\ e.written = e.length /\ e.lasts = 1
<1>1. r_tf \in HalfType /\ w_tf \in HalfType /\ job \in JobType
  BY DEF IInv, TypeOK
<1>2. RNumBytes = r_tf.length /\ WNumBytes = w_tf.length
  BY PossiblePositive, HalfStep, <1>1 DEF IInv, RNumBytes, WNumBytes, RDone, WDone
<1>3. RValid(TRUE, TRUE) = r_tf.valid /\ WValid(TRUE, TRUE) = w_tf.valid
  BY <1>1 DEF RValid, WValid, REnable, WEnable, HalfType
<1> DEFINE e == Emitted(TRUE, TRUE)
<1>4. /\ e.read = IF r_tf.valid THEN job.read + r_tf.length ELSE job.read
      /\ e.written = IF w_tf.valid THEN job.written + w_tf.length ELSE job.written
      /\ e.lasts = IF w_tf.valid THEN job.lasts + 1 ELSE job.lasts
      /\ e.length = job.length
  BY <1>1, <1>2, <1>3 DEF Emitted, JobType
<1> HIDE DEF e
<1>5. e.read = e.length /\ e.written = e.length /\ e.lasts = 1
  BY <1>1, <1>4 DEF IInv, BurstsTile, ReadTiles, WriteTiles, OneLast, HalfType, JobType
<1> QED BY <1>5 DEF e

(* No transfer is overwritten before all its bursts are out.               *)
THEOREM NothingOverwritten == Spec => RefillAfterAll
<1> DEFINE A == Replaced /\ ~job.killed =>
                  LET e == Emitted(TRUE, TRUE)
                  IN  e.read = e.length /\ e.written = e.length /\ e.lasts = 1
<1>1. IInv /\ [Next]_vars => [A]_vars
  <2> SUFFICES ASSUME IInv, [Next]_vars, Replaced, ~job.killed, vars' # vars
               PROVE  RDone /\ WDone
    BY RefillEmitsRest
  <2>1. CASE \E r_ready, w_ready \in BOOLEAN : Advance(r_ready, w_ready)
    BY <2>1, AdvanceMonotone
  <2>2. CASE \E req \in Requests : Refill(req)
    BY <2>2 DEF Refill, Ready
  <2>3. CASE Kill
    BY <2>3 DEF Kill, Replaced, IInv, TypeOK, JobType
  <2> QED BY <2>1, <2>2, <2>3 DEF Next
<1>2. Spec => [][A]_vars
  BY <1>1, Invariance, PTL DEF Spec
<1> QED BY <1>2 DEF RefillAfterAll

============================================================================
