------------------------- MODULE DescFrontendProofs -------------------------
(***************************************************************************)
(* The descriptor front end keeps its queues in lockstep, and hands on     *)
(* what software submitted, once and in order, as long as no FIFO whose    *)
(* ready is ignored loses an entry; and what is lost first is explained.   *)
(*                                                                         *)
(* The reads that were sent are, oldest first: the descriptor whose last   *)
(* beat is awaited, those that a flush condemned, and the live ones.  The  *)
(* live ones and those waiting in `pending` lie in a row from the base     *)
(* address, and every queue is told by them.                               *)
(***************************************************************************)
EXTENDS DescFrontend, CommonLemmas

----------------------------------------------------------------------------
(* Each descriptor of a chain names the one that follows it there.         *)
ChainsInMemory ==
    \A j \in 1..Len(Chains) : \A i \in 1..Len(Chains[j]) :
        NextOf(Chains[j][i]) = IF i < Len(Chains[j]) THEN Chains[j][i + 1] ELSE End

----------------------------------------------------------------------------
(* The inductive invariant. *)

(* What the variables hold, but for the bounds of HoldInv. *)
StateTypes ==
    /\ todo \in Seq(Seq(Nat)) /\ input \in Seq(Nat)
    /\ base_valid \in BOOLEAN /\ base_addr \in Nat /\ inflight \in 0..NSpeculation
    /\ next_seen \in BOOLEAN /\ flush_q \in BOOLEAN
    /\ specq \in Seq(Nat) /\ Len(specq) <= NSpeculation
    /\ pending \in Seq([speculative : BOOLEAN, addr : Nat]) /\ Len(pending) <= NSpeculation
    /\ legal \in Seq(Nat) /\ Len(legal) <= 1
    /\ ars \in Seq(Nat) /\ beat \in 0..3 /\ fetch_counter \in 0..3
    /\ n_to_flush \in 0..NSpeculation /\ engaged \in BOOLEAN
    /\ reqs \in Seq(Nat) /\ Len(reqs) <= PendingFifoDepth
    /\ wb \in Seq(Nat) /\ irqs \in Seq(Nat) /\ aws \in Seq(Nat)
    /\ backend \in Seq(Nat) /\ due \in Seq(Nat) /\ unsent \in Nat
    /\ lost \subseteq {"irq", "addr"} /\ repeated \in BOOLEAN

(* No address to write back was lost. *)
Kept == "addr" \notin lost

(* What follows the descriptor being read is decided, once its `next` field *)
(* was shown.                                                               *)
Decided == fetch_counter = 3 \/ (fetch_counter = 2 /\ next_seen)
Held == IF Decided THEN 1 ELSE 0

(* The reads of the current run that were sent. *)
Live == (Len(ars) + Len(legal)) - (Held + n_to_flush)

(* The reader and the gater. *)
ReaderInv ==
    /\ next_seen => fetch_counter = 2 \/ fetch_counter = 3
    /\ flush_q => next_seen
    /\ fetch_counter # 0 => ~engaged /\ beat = fetch_counter /\ ars # <<>>
    /\ fetch_counter # 0 /\ ~Decided => n_to_flush = 0
    /\ n_to_flush > 0 /\ fetch_counter = 0 => engaged
    /\ fetch_counter = 0 /\ beat # 0 => n_to_flush > 0 /\ ars # <<>>

(* The reads sent and to be sent lie in a row. *)
RunInv ==
    /\ Live >= 0 /\ inflight = Live + Len(pending)
    /\ \A k \in 1..Live : (ars \o legal)[Held + n_to_flush + k] = base_addr + k - 1
    /\ \A k \in 1..Len(pending) :
           pending[k] = [speculative |-> Live + k > 1, addr |-> base_addr + Live + k - 1]
    /\ flush_q => inflight <= 1 /\ pending = <<>>
    /\ ~base_valid => inflight = 0

(* What was guessed, but for the base address.  A flush leaves the queue   *)
(* as it was for one more cycle.                                           *)
Guesses(q, live) ==
    /\ Len(q) = IF live > 0 THEN live - 1 ELSE 0
    /\ \A k \in 1..Len(q) : q[k] = base_addr + k

GuessInv ==
    /\ ~flush_q => Guesses(specq, Live)
    /\ ThisCycle /\ specq = <<>> => pending = <<>>

(* Every read in flight has a slot of the request FIFO. *)
SlotInv == Len(reqs) + Held + inflight <= PendingFifoDepth

(* The base address is written back once it is read. *)
Read1 == OneIf(Decided, Head(ars))
Read2 == OneIf(Live > 0, base_addr)
Place == ((backend \o reqs) \o Read1) \o Read2
WbInv == Kept => wb = Place

(* The descriptor being read has its flag from the second beat on, and one *)
(* only unless the memory paused after the first.                          *)
Flagged == OneIf(fetch_counter > 1, Head(ars))
IrqInv == lost = {} /\ ~repeated => irqs = AwaitingReport \o Flagged
FlagsInv == lost = {} => Len(irqs) >= Len(AwaitingReport) + One(fetch_counter > 1)

(* What the backend, the memory and the FIFOs hold. *)
HoldInv ==
    /\ unsent <= Len(due) /\ Len(due) <= AwsUnanswered
    /\ Len(aws) <= MaxAWWPending /\ Len(backend) <= BackendHolds
    /\ Len(wb) <= WbDepth /\ Len(irqs) <= IrqDepth

IInv ==
    StateTypes /\ ReaderInv /\ RunInv /\ GuessInv /\ SlotInv /\ WbInv /\ FlagsInv /\ HoldInv

----------------------------------------------------------------------------
(* Queues that pass an entry on. *)

(* A queue is its head and the rest. *)
LEMMA HeadThenTail ==
    ASSUME NEW S, NEW q \in Seq(S), q # <<>>
    PROVE  q = <<Head(q)>> \o Tail(q)
<1> DEFINE t == Tail(q)   h == Head(q)
<1>1. /\ h \in S /\ t \in Seq(S) /\ Len(t) = Len(q) - 1
      /\ \A i \in 1..Len(t) : t[i] = q[i + 1]
  BY HeadTailProperties
<1>2. Len(q) \in Nat \ {0} /\ q[1] = h
  BY EmptySeq
<1>3. <<h>> \in Seq(S) /\ Len(<<h>>) = 1 /\ <<h>>[1] = h
  BY <1>1
<1> DEFINE r == <<h>> \o t
<1>4. /\ r \in Seq(S) /\ Len(r) = 1 + Len(t)
      /\ \A i \in 1..1 + Len(t) : r[i] = IF i <= 1 THEN <<h>>[i] ELSE t[i - 1]
  BY <1>1, <1>3, ConcatProperties
<1> HIDE DEF t, h, r
<1>5. Len(r) = Len(q)
  BY <1>1, <1>2, <1>4
<1>6. ASSUME NEW i \in 1..Len(q) PROVE q[i] = r[i]
  <2>1. CASE i = 1
    BY <1>2, <1>3, <1>4, <1>5, <2>1
  <2>2. CASE i # 1
    <3>1. i - 1 \in 1..Len(t) /\ ~(i <= 1) /\ (i - 1) + 1 = i /\ i \in 1..1 + Len(t)
      BY <1>1, <1>2, <2>2
    <3> QED BY <1>1, <1>4, <3>1
  <2> QED BY <2>1, <2>2
<1>7. q = r
  BY <1>4, <1>5, <1>6, SeqEqual
<1> QED BY <1>7 DEF r, h, t

(* Concatenation, in a form that is instantiated at once.                  *)
LEMMA Associative ==
    \A x, y, z \in Seq(Nat) : (x \o y) \o z = x \o (y \o z)
<1> DEFINE S == Nat
<1> HIDE DEF S
<1>1. \A x, y, z \in Seq(S) : (x \o y) \o z = x \o (y \o z)
  BY ConcatAssociative
<1> QED BY <1>1 DEF S

LEMMA ConcatType ==
    \A x, y \in Seq(Nat) : x \o y \in Seq(Nat) /\ Len(x \o y) = Len(x) + Len(y)
<1> DEFINE S == Nat
<1> HIDE DEF S
<1>1. \A x, y \in Seq(S) : x \o y \in Seq(S) /\ Len(x \o y) = Len(x) + Len(y)
  BY ConcatProperties
<1> QED BY <1>1 DEF S

(* What is left of a queue. *)
LEMMA RestType ==
    ASSUME NEW S, NEW q \in Seq(S), NEW pop \in BOOLEAN, pop => q # <<>>
    PROVE  Rest(q, pop) \in Seq(S)
BY HeadTailProperties DEF Rest

(* Taking the head of a queue takes it from what follows the queue too.    *)
LEMMA RestThen ==
    ASSUME NEW S, NEW q \in Seq(S), NEW r \in Seq(S), NEW pop \in BOOLEAN, pop => q # <<>>
    PROVE  Rest(q, pop) \o r = Rest(q \o r, pop)
<1>1. CASE pop
  <2> DEFINE t == Tail(q)   h == Head(q)
  <2>1. h \in S /\ t \in Seq(S) /\ q = <<h>> \o t
    BY <1>1, HeadTailProperties, HeadThenTail
  <2>2. <<h>> \in Seq(S)
    BY <2>1
  <2> DEFINE s == t \o r
  <2>3. s \in Seq(S)
    BY <2>1, ConcatProperties
  <2>4. q \o r = <<h>> \o s
    BY ONLY <2>1, <2>2, r \in Seq(S), ConcatAssociative
  <2> HIDE DEF s, t, h
  <2>5. <<h>> \o s \in Seq(S) /\ Len(<<h>> \o s) = 1 + Len(s) /\ Len(s) \in Nat
        /\ \A i \in 1..1 + Len(s) : (<<h>> \o s)[i] = IF i <= 1 THEN <<h>>[i] ELSE s[i - 1]
    BY <2>2, <2>3, ConcatProperties
  <2> DEFINE u == <<h>> \o s
  <2> HIDE DEF u
  <2>6. u \in Seq(S) /\ Len(u) = 1 + Len(s) /\ u # <<>>
    BY <2>5, EmptySeq DEF u
  <2>7. Tail(u) \in Seq(S) /\ Len(Tail(u)) = Len(u) - 1 /\ \A i \in 1..Len(Tail(u)) : Tail(u)[i] = u[i + 1]
    BY <2>6, HeadTailProperties
  <2>8. Len(Tail(u)) = Len(s)
    BY <2>5, <2>6, <2>7
  <2>9. ASSUME NEW i \in 1..Len(s) PROVE Tail(u)[i] = s[i]
    <3>1. i + 1 \in 1..1 + Len(s) /\ ~(i + 1 <= 1) /\ (i + 1) - 1 = i
      BY <2>5
    <3> QED BY <2>5, <2>7, <2>8, <3>1 DEF u
  <2>10. Tail(u) = s
    BY <2>3, <2>7, <2>8, <2>9, SeqEqual
  <2> QED BY <1>1, <2>1, <2>4, <2>10 DEF Rest, u, s, t
<1>2. CASE ~pop
  BY <1>2 DEF Rest
<1> QED BY <1>1, <1>2

(* A queue that hands its head to the queue before it.                     *)
LEMMA HandOver ==
    ASSUME NEW S, NEW q \in Seq(S), NEW r \in Seq(S),
           NEW pop \in BOOLEAN, pop => q # <<>>, NEW hand \in BOOLEAN, hand => r # <<>>
    PROVE  (Rest(q, pop) \o OneIf(hand, Head(r))) \o Rest(r, hand) = Rest(q \o r, pop)
<1> DEFINE x == OneIf(hand, Head(r))   t == Rest(r, hand)   p == Rest(q, pop)
<1>1. x \in Seq(S) /\ t \in Seq(S) /\ x \o t = r
  <2>1. CASE hand
    <3>1. Head(r) \in S /\ Tail(r) \in Seq(S) /\ r = <<Head(r)>> \o Tail(r)
      BY <2>1, HeadTailProperties, HeadThenTail
    <3>2. <<Head(r)>> \in Seq(S)
      BY <3>1
    <3> QED BY <2>1, <3>1, <3>2 DEF OneIf, Rest
  <2>2. CASE ~hand
    BY <2>2, EmptySeq, ConcatEmptySeq DEF OneIf, Rest
  <2> QED BY <2>1, <2>2
<1>2. p \in Seq(S) /\ p \o r = Rest(q \o r, pop)
  BY RestType, RestThen
<1> HIDE DEF x, t, p
<1>3. p \o x \in Seq(S)
  BY <1>1, <1>2, ConcatProperties
<1>4. (p \o x) \o t = p \o (x \o t)
  <2>1. p \in Seq(S) /\ x \in Seq(S) /\ t \in Seq(S)
    BY <1>1, <1>2
  <2> QED BY ONLY <2>1, ConcatAssociative
<1> QED BY <1>1, <1>2, <1>3, <1>4 DEF x, t, p

----------------------------------------------------------------------------
(* What a state that satisfies the invariant offers to a cycle. *)

ReadRecord == [speculative : BOOLEAN, addr : Nat]

(* Lengths are numbers. *)
LEMMA Lengths ==
    ASSUME StateTypes
    PROVE  /\ Len(ars) \in Nat /\ Len(legal) \in Nat /\ Len(pending) \in Nat /\ Len(specq) \in Nat
           /\ Len(reqs) \in Nat /\ Len(backend) \in Nat /\ Len(aws) \in Nat /\ Len(due) \in Nat
           /\ inflight \in Nat /\ base_addr \in Nat /\ n_to_flush \in Nat
           /\ Held \in 0..1 /\ Live \in Int
           /\ NSpeculation \in Nat \ {0, 1} /\ PendingFifoDepth \in Nat \ {0} /\ BackendDepth \in Nat \ {0}
<1>1. /\ NSpeculation \in Nat \ {0, 1} /\ PendingFifoDepth \in Nat \ {0} /\ BackendDepth \in Nat \ {0}
  BY DescFrontendAssumption
<1>2. /\ Len(ars) \in Nat /\ Len(legal) \in Nat /\ Len(pending) \in Nat /\ Len(specq) \in Nat
      /\ Len(reqs) \in Nat /\ Len(backend) \in Nat /\ Len(aws) \in Nat /\ Len(due) \in Nat
  BY LenProperties DEF StateTypes
<1>3. inflight \in Nat /\ base_addr \in Nat /\ n_to_flush \in Nat
  BY <1>1 DEF StateTypes
<1> QED BY <1>1, <1>2, <1>3 DEF Held, Live

(* Links lead to descriptors. *)
LEMMA NextOfType ==
    ASSUME NEW a PROVE NextOf(a) \in Nat \cup {End}
<1>1. \A link \in Links : link[2] \in Nat
  <2> SUFFICES ASSUME NEW j \in DOMAIN Chains, NEW i \in 1..Len(Chains[j]) - 1
               PROVE  <<Chains[j][i], Chains[j][i + 1]>>[2] \in Nat
    BY DEF Links, ToSet
  <2>1. Chains \in Seq(Seq(Nat) \ {<<>>})
    BY DescFrontendAssumption
  <2>2. DOMAIN Chains = 1..Len(Chains)
    BY <2>1, LenProperties
  <2>3. Chains[j] \in Seq(Nat)
    BY <2>1, <2>2, ElementOfSeq
  <2>4. Len(Chains[j]) \in Nat
    BY <2>3, LenProperties
  <2>5. i + 1 \in 1..Len(Chains[j])
    BY <2>4
  <2>6. Chains[j][i + 1] \in Nat
    BY <2>3, <2>5, ElementOfSeq
  <2> QED BY <2>6
<1>2. CASE \E link \in Links : link[1] = a
  <2>1. (CHOOSE link \in Links : link[1] = a) \in Links
    BY <1>2
  <2> QED BY <1>1, <1>2, <2>1 DEF NextOf
<1>3. CASE ~ \E link \in Links : link[1] = a
  BY <1>3 DEF NextOf
<1> QED BY <1>2, <1>3

(* What software submits in a cycle is seen at once. *)
LEMMA InputFacts ==
    ASSUME StateTypes, todo \in Seq(Seq(Nat) \ {<<>>}), NEW e
    PROVE  /\ InputView(e) \in Seq(Nat)
           /\ QueuedValid(e) => Queued(e) \in Nat
           /\ TargetKnown(e) => Target(e) \in Nat
<1>1. input \in Seq(Nat)
  BY DEF StateTypes
<1>2. InputView(e) \in Seq(Nat)
  <2>1. CASE Submits(e)
    <3>1. Head(todo) \in Seq(Nat) \ {<<>>}
      BY <2>1, HeadTailProperties DEF Submits
    <3>2. Head(Head(todo)) \in Nat
      BY <3>1, HeadTailProperties
    <3> DEFINE x == Head(Head(todo))
    <3>3. <<x>> \in Seq(Nat)
      BY <3>2
    <3>4. OneIf(Submits(e), x) = <<x>>
      BY <2>1 DEF OneIf
    <3> QED BY <1>1, <3>3, <3>4, ConcatProperties DEF InputView
  <2>2. CASE ~Submits(e)
    <3>1. OneIf(Submits(e), Head(Head(todo))) = <<>>
      BY <2>2 DEF OneIf
    <3> QED BY <1>1, <3>1, ConcatEmptySeq DEF InputView
  <2> QED BY <2>1, <2>2
<1>3. QueuedValid(e) => Queued(e) \in Nat
  BY <1>2, HeadTailProperties DEF QueuedValid, Queued
<1>4. FromDescriptor \in Nat \cup {End}
  BY NextOfType DEF FromDescriptor
<1>5. TargetKnown(e) => Target(e) \in Nat
  BY <1>3, <1>4 DEF TargetKnown, Target
<1> QED BY <1>2, <1>3, <1>5

(* Until what follows is decided, nothing is condemned, and the reader     *)
(* reads the descriptor at the base address.                               *)
LEMMA Window ==
    ASSUME IInv, fetch_counter = 1 \/ ThisCycle
    PROVE  /\ Held = 0 /\ n_to_flush = 0 /\ Live = Len(ars) + Len(legal) /\ Live >= 1
           /\ ars # <<>> /\ Len(ars) >= 1 /\ Head(ars) = base_addr
           /\ base_valid /\ ~flush_q /\ ~next_seen /\ inflight >= 1
           /\ Len(specq) = Live - 1 /\ Guesses(specq, Live)
           /\ Live = 1 => legal = <<>>
<1>1. StateTypes /\ ReaderInv /\ RunInv /\ GuessInv
  BY DEF IInv
<1>2. ars \in Seq(Nat) /\ legal \in Seq(Nat) /\ Len(ars) \in Nat /\ Len(legal) \in Nat /\ Len(pending) \in Nat
      /\ base_valid \in BOOLEAN /\ base_addr \in Nat
  BY <1>1, Lengths DEF StateTypes
<1>3. ars # <<>> /\ n_to_flush = 0 /\ ~flush_q /\ ~next_seen /\ Held = 0
  BY <1>1 DEF ReaderInv, Held, Decided, ThisCycle
<1>4. Len(ars) >= 1 /\ (legal = <<>> <=> Len(legal) = 0)
  BY <1>2, <1>3, EmptySeq
<1>5. Live = Len(ars) + Len(legal)
  BY <1>2, <1>3 DEF Live
<1>6. Live >= 1 /\ inflight >= 1 /\ base_valid /\ (Live = 1 => legal = <<>>)
  BY <1>1, <1>2, <1>4, <1>5 DEF RunInv
<1>7. Head(ars) = base_addr
  <2>1. 1 \in 1..Live /\ Held + n_to_flush + 1 = 1 /\ base_addr + 1 - 1 = base_addr
    BY <1>2, <1>3, <1>5, <1>6
  <2>2. (ars \o legal)[1] = base_addr
    <3>1. (ars \o legal)[Held + n_to_flush + 1] = base_addr + 1 - 1
      BY <1>1, <2>1 DEF RunInv
    <3> QED BY <2>1, <3>1
  <2>3. (ars \o legal)[1] = ars[1]
    <3>1. 1 \in 1..Len(ars) + Len(legal) /\ 1 <= Len(ars)
      BY <1>2, <1>4
    <3> QED BY <1>2, <3>1, ConcatProperties
  <2>4. Head(ars) = ars[1]
    BY <1>2
  <2> QED BY <2>2, <2>3, <2>4
<1>8. Guesses(specq, Live)
  BY <1>1, <1>3 DEF GuessInv
<1>9. Len(specq) = Live - 1
  BY <1>2, <1>5, <1>6, <1>8 DEF Guesses
<1> QED BY <1>3, <1>4, <1>5, <1>6, <1>7, <1>8, <1>9

(* The reads waiting, with the one that may come in this cycle, lie in a   *)
(* row after the live ones.                                                *)
LEMMA Waiting ==
    ASSUME IInv
    PROVE  /\ NextArSent => /\ base_valid /\ inflight < NSpeculation
                            /\ Len(reqs) + (IF fetch_counter # 0 THEN 1 ELSE 0) + inflight < PendingFifoDepth
           /\ PendingView \in Seq(ReadRecord)
           /\ Len(PendingView) = Len(pending) + (IF NextArSent THEN 1 ELSE 0)
           /\ \A k \in 1..Len(PendingView) :
                  PendingView[k] = [speculative |-> Live + k > 1, addr |-> base_addr + Live + k - 1]
           /\ PendingView # <<>> => /\ base_valid
                                    /\ Staging.addr = base_addr + Live
                                    /\ (Staging.speculative <=> Live > 0)
<1>1. StateTypes /\ RunInv /\ SlotInv
  BY DEF IInv
<1>2. /\ Len(pending) \in Nat /\ Len(reqs) \in Nat /\ inflight \in Nat /\ base_addr \in Nat
      /\ Live \in Nat /\ PendingFifoDepth \in Nat /\ pending \in Seq(ReadRecord) /\ base_valid \in BOOLEAN
      /\ Held \in 0..1
  BY <1>1, Lengths DEF StateTypes, ReadRecord, RunInv
<1>3. NextArSent => /\ base_valid /\ inflight < NSpeculation
                    /\ Len(reqs) + (IF fetch_counter # 0 THEN 1 ELSE 0) + inflight < PendingFifoDepth
  <2> SUFFICES ASSUME NextArSent PROVE /\ base_valid /\ inflight < NSpeculation
                    /\ Len(reqs) + (IF fetch_counter # 0 THEN 1 ELSE 0) + inflight < PendingFifoDepth
    OBVIOUS
  <2>1. base_valid /\ NSpeculation > inflight /\ AvailableSlots > inflight
    BY DEF NextArSent, NextArValid
  <2>2. NSpeculation \in Nat
    BY DescFrontendAssumption
  <2>3. AvailableSlots = PendingFifoDepth - Len(reqs) - (IF fetch_counter # 0 THEN 1 ELSE 0)
    <3>1. Len(reqs) # PendingFifoDepth
      <4>1. Len(reqs) = PendingFifoDepth => AvailableSlots = 0
        BY DEF AvailableSlots
      <4> QED BY <1>2, <2>1, <4>1
    <3> QED BY <3>1, Zenon DEF AvailableSlots
  <2> QED BY <1>2, <2>1, <2>2, <2>3
<1>4. inflight = Live + Len(pending)
  BY <1>1 DEF RunInv
<1>5. NextAr \in ReadRecord
      /\ NextAr = [speculative |-> Live + (Len(pending) + 1) > 1, addr |-> base_addr + Live + (Len(pending) + 1) - 1]
  <2>1. base_addr + inflight = base_addr + Live + (Len(pending) + 1) - 1
    BY <1>2, <1>4
  <2>2. (inflight > 0) = (Live + (Len(pending) + 1) > 1)
    BY <1>2, <1>4
  <2>3. base_addr + inflight \in Nat /\ (inflight > 0) \in BOOLEAN
    BY <1>2
  <2> QED BY <2>1, <2>2, <2>3 DEF NextAr, ReadRecord
<1> DEFINE W(k) == [speculative |-> Live + k > 1, addr |-> base_addr + Live + k - 1]
<1>6. \A k \in 1..Len(pending) : pending[k] = W(k)
  BY <1>1 DEF RunInv
<1> HIDE DEF W
<1>7. /\ PendingView \in Seq(ReadRecord)
      /\ Len(PendingView) = Len(pending) + (IF NextArSent THEN 1 ELSE 0)
      /\ \A k \in 1..Len(PendingView) : PendingView[k] = W(k)
  <2>1. CASE NextArSent
    <3>1. PendingView = pending \o <<NextAr>>
      BY <2>1 DEF PendingView, OneIf
    <3> DEFINE x == NextAr
    <3>2. <<x>> \in Seq(ReadRecord) /\ Len(<<x>>) = 1 /\ <<x>>[1] = W(Len(pending) + 1)
      BY <1>5 DEF W
    <3> HIDE DEF x
    <3>3. /\ pending \o <<x>> \in Seq(ReadRecord) /\ Len(pending \o <<x>>) = Len(pending) + 1
          /\ \A k \in 1..Len(pending) + 1 :
                (pending \o <<x>>)[k] = IF k <= Len(pending) THEN pending[k] ELSE <<x>>[k - Len(pending)]
      BY <1>2, <3>2, ConcatProperties
    <3>4. ASSUME NEW k \in 1..Len(pending) + 1 PROVE (pending \o <<x>>)[k] = W(k)
      <4>1. CASE k <= Len(pending)
        <5>1. k \in 1..Len(pending)
          BY <1>2, <4>1
        <5> QED BY <1>6, <3>3, <4>1, <5>1
      <4>2. CASE ~(k <= Len(pending))
        <5>1. k = Len(pending) + 1 /\ k - Len(pending) = 1
          BY <1>2, <4>2
        <5> QED BY <3>2, <3>3, <4>2, <5>1
      <4> QED BY <4>1, <4>2
    <3> QED BY <2>1, <3>1, <3>3, <3>4 DEF x
  <2>2. CASE ~NextArSent
    <3>1. PendingView = pending
      BY <1>2, <2>2, ConcatEmptySeq DEF PendingView, OneIf
    <3> QED BY <1>2, <1>6, <2>2, <3>1
  <2> QED BY <2>1, <2>2
<1>8. ASSUME PendingView # <<>>
      PROVE  base_valid /\ Staging.addr = base_addr + Live /\ (Staging.speculative <=> Live > 0)
  <2>1. Len(PendingView) >= 1
    BY <1>7, <1>8, EmptySeq
  <2>2. base_valid
    <3>1. CASE NextArSent
      BY <1>3, <3>1
    <3>2. CASE ~NextArSent
      <4>1. inflight # 0
        BY <1>2, <1>4, <1>7, <2>1, <3>2
      <4> QED BY <1>1, <4>1 DEF RunInv
    <3> QED BY <3>1, <3>2
  <2>3. Staging = W(1)
    <3>1. Staging = PendingView[1]
      BY <1>7, <1>8 DEF Staging
    <3>2. 1 \in 1..Len(PendingView)
      BY <1>7, <2>1, LenProperties
    <3> QED BY <1>7, <3>1, <3>2
  <2>4. Staging.addr = base_addr + Live + 1 - 1
    BY <2>3 DEF W
  <2>5. Staging.speculative = (Live + 1 > 1)
    BY <2>3 DEF W
  <2>6. Staging.addr = base_addr + Live
    BY <1>2, <2>4
  <2>7. Staging.speculative <=> Live > 0
    <3>1. (Live + 1 > 1) <=> (Live > 0)
      BY <1>2
    <3> QED BY <2>5, <3>1, Zenon
  <2> QED BY <2>2, <2>6, <2>7
<1> QED BY <1>3, <1>7, <1>8 DEF W

(* What moves to the bus is the read after the live ones, a guess unless   *)
(* there is none.                                                          *)
LEMMA Moving ==
    ASSUME IInv, StagingMoves
    PROVE  /\ base_valid /\ legal = <<>> /\ PendingView # <<>>
           /\ Staging.addr = base_addr + Live /\ (Staging.speculative <=> Live > 0)
           /\ flush_q => Live = 0
<1>1. PendingView # <<>> /\ legal = <<>> /\ (~flush_q \/ ~Staging.speculative)
  BY DEF StagingMoves, LegalReady, SpecReady
<1>2. base_valid /\ Staging.addr = base_addr + Live /\ (Staging.speculative <=> Live > 0)
  BY <1>1, Waiting
<1>3. Live \in Int /\ Live >= 0
  BY Lengths DEF IInv, RunInv
<1>4. flush_q => Live = 0
  BY <1>1, <1>2, <1>3
<1> QED BY <1>1, <1>2, <1>4

(* The guesses, with what is noted in this cycle. *)
LEMMA GuessesNow ==
    ASSUME IInv, ~flush_q
    PROVE  SpecView \in Seq(Nat) /\ Guesses(SpecView, Live + (IF StagingMoves THEN 1 ELSE 0))
<1>1. /\ specq \in Seq(Nat) /\ Len(specq) \in Nat /\ base_addr \in Nat /\ Live \in Nat
      /\ Guesses(specq, Live)
  BY Lengths DEF IInv, StateTypes, RunInv, GuessInv
<1>2. CASE StagingMoves /\ Live > 0
  <2> DEFINE x == base_addr + Live
  <2>1. Staging.addr = x /\ Staging.speculative
    BY <1>2, Moving
  <2>2. x \in Nat
    BY <1>1
  <2>3. SpecView = specq \o <<x>>
    BY <1>2, <2>1 DEF SpecView, OneIf
  <2>4. <<x>> \in Seq(Nat) /\ Len(<<x>>) = 1 /\ <<x>>[1] = x
    BY <2>2
  <2> HIDE DEF x
  <2>5. /\ specq \o <<x>> \in Seq(Nat) /\ Len(specq \o <<x>>) = Len(specq) + 1
        /\ \A k \in 1..Len(specq) + 1 : (specq \o <<x>>)[k] = IF k <= Len(specq) THEN specq[k] ELSE <<x>>[k - Len(specq)]
    BY <1>1, <2>4, ConcatProperties
  <2>6. Len(specq) = Live - 1 /\ \A k \in 1..Len(specq) : specq[k] = base_addr + k
    BY <1>1, <1>2 DEF Guesses
  <2>7. ASSUME NEW k \in 1..Len(specq) + 1 PROVE (specq \o <<x>>)[k] = base_addr + k
    <3>1. CASE k <= Len(specq)
      <4>1. k \in 1..Len(specq)
        BY <1>1, <3>1
      <4> QED BY <2>5, <2>6, <3>1, <4>1
    <3>2. CASE ~(k <= Len(specq))
      <4>1. k - Len(specq) = 1 /\ k = Live
        BY <1>1, <2>6, <3>2
      <4>2. (specq \o <<x>>)[k] = x
        BY <2>4, <2>5, <3>2, <4>1
      <4> QED BY <4>1, <4>2 DEF x
    <3> QED BY <3>1, <3>2
  <2>8. Len(specq \o <<x>>) = (Live + 1) - 1 /\ Live + 1 > 0
    BY <1>1, <2>5, <2>6
  <2>9. Guesses(specq \o <<x>>, Live + 1)
    BY <2>5, <2>7, <2>8 DEF Guesses
  <2> QED BY <1>2, <2>3, <2>5, <2>9
<1>3. CASE ~(StagingMoves /\ Live > 0)
  <2>1. ~(StagingMoves /\ Staging.speculative)
    BY <1>3, Moving
  <2>2. SpecView = specq
    BY <1>1, <2>1, ConcatEmptySeq DEF SpecView, OneIf
  <2>3. CASE StagingMoves
    <3>1. Live = 0
      BY <1>1, <1>3, <2>3
    <3>2. Guesses(specq, Live + 1)
      BY <1>1, <3>1 DEF Guesses
    <3> QED BY <1>1, <2>2, <2>3, <3>2
  <2>4. CASE ~StagingMoves
    <3>1. Live + 0 = Live
      BY <1>1
    <3> QED BY <1>1, <2>2, <2>4, <3>1
  <2> QED BY <2>3, <2>4
<1> QED BY <1>2, <1>3

(* In the cycle that shows the next address, the guess is right if that is *)
(* the address after the base, whichever queue of guesses is asked.        *)
LEMMA Verdict ==
    ASSUME IInv, ThisCycle, NEW e
    PROVE  /\ CorrectWith(specq, e) <=> (TargetKnown(e) /\ Target(e) = base_addr + 1)
           /\ CorrectWith(SpecView, e) <=> (TargetKnown(e) /\ Target(e) = base_addr + 1)
           /\ SpecView # <<>> => Head(SpecView) = base_addr + 1
           /\ SpecView = <<>> => Live = 1 /\ ~StagingMoves /\ ~NextArSent /\ pending = <<>>
<1>2. /\ ~flush_q /\ Live >= 1 /\ Guesses(specq, Live) /\ (Live = 1 => legal = <<>>)
      /\ SpecView \in Seq(Nat) /\ Guesses(SpecView, Live + (IF StagingMoves THEN 1 ELSE 0))
  BY Window, GuessesNow
<1>3. /\ Live \in Nat /\ base_addr \in Nat /\ specq \in Seq(Nat) /\ Len(pending) \in Nat
      /\ inflight = Live + Len(pending) /\ Len(specq) \in Nat
  BY <1>2, Lengths DEF IInv, StateTypes, RunInv
<1>4. ASSUME NEW q \in Seq(Nat), NEW live \in Nat, Guesses(q, live), q # <<>>
      PROVE  Head(q) = base_addr + 1
  <2>1. Len(q) \in Nat \ {0} /\ Head(q) = q[1]
    BY <1>4, EmptySeq
  <2>2. 1 \in 1..Len(q)
    BY <2>1
  <2> QED BY <1>4, <2>1, <2>2 DEF Guesses
<1>5. ASSUME NEW q \in Seq(Nat), NEW live \in Nat, Guesses(q, live), q = <<>>, live >= 1
      PROVE  live = 1
  <2>1. Len(q) = 0
    BY <1>5, EmptySeq
  <2>2. live > 0
    BY <1>5
  <2>3. Len(q) = live - 1
    BY <1>5, <2>2 DEF Guesses
  <2> QED BY <1>5, <2>1, <2>3
<1>6. SpecView # <<>> => Head(SpecView) = base_addr + 1
  <2>1. Live + (IF StagingMoves THEN 1 ELSE 0) \in Nat
    BY <1>3
  <2> QED BY <1>2, <1>4, <2>1
<1>7. specq # <<>> => Head(specq) = base_addr + 1
  BY <1>2, <1>3, <1>4
<1>8. specq = <<>> => Live = 1 /\ pending = <<>>
  BY <1>2, <1>3, <1>5 DEF IInv, GuessInv
<1>9. SpecView = <<>> => specq = <<>> /\ ~StagingMoves
  <2> SUFFICES ASSUME SpecView = <<>> PROVE specq = <<>> /\ ~StagingMoves
    OBVIOUS
  <2> DEFINE live == Live + (IF StagingMoves THEN 1 ELSE 0)
  <2>1. live \in Nat /\ live >= 1 /\ (StagingMoves => live = Live + 1) /\ (~StagingMoves => live = Live)
    BY <1>2, <1>3
  <2> HIDE DEF live
  <2>2. Guesses(SpecView, live)
    BY <1>2 DEF live
  <2>3. live = 1
    BY <1>2, <1>5, <2>1, <2>2
  <2>4. ~StagingMoves /\ Live = 1
    BY <1>2, <1>3, <2>1, <2>3
  <2>5. Len(specq) = 0
    BY <1>2, <2>4 DEF Guesses
  <2> QED BY <1>3, <2>4, <2>5, EmptySeq
<1>10. SpecView = <<>> => ~NextArSent
  <2> SUFFICES ASSUME SpecView = <<>>, NextArSent PROVE FALSE
    OBVIOUS
  <2>1. legal = <<>> /\ specq = <<>> /\ ~StagingMoves /\ pending = <<>>
    BY <1>2, <1>8, <1>9
  <2>2. PendingView # <<>>
    <3>1. Len(PendingView) = Len(pending) + 1 /\ PendingView \in Seq(ReadRecord)
      BY Waiting
    <3> QED BY <1>3, <3>1, EmptySeq
  <2>3. SpecReady
    <3>1. Len(specq) = 0 /\ NSpeculation \in Nat \ {0, 1}
      BY <2>1, EmptySeq, DescFrontendAssumption
    <3> QED BY <1>2, <3>1 DEF SpecReady
  <2> QED BY <2>1, <2>2, <2>3 DEF StagingMoves, LegalReady
<1>11. pending = <<>> /\ Live = 1 => NextAr.addr = base_addr + 1
  <2> SUFFICES ASSUME pending = <<>>, Live = 1 PROVE NextAr.addr = base_addr + 1
    OBVIOUS
  <2>1. Len(pending) = 0
    BY EmptySeq
  <2>2. inflight = 1
    BY <1>3, <2>1
  <2>3. NextAr.addr = base_addr + inflight
    BY DEF NextAr
  <2> QED BY <2>2, <2>3
<1>12. CorrectWith(specq, e) <=> (TargetKnown(e) /\ Target(e) = base_addr + 1)
  <2>1. (IF specq # <<>> THEN Head(specq) ELSE NextAr.addr) = base_addr + 1
    BY <1>7, <1>8, <1>11
  <2> QED BY <2>1, Zenon DEF CorrectWith
<1>13. CorrectWith(SpecView, e) <=> (TargetKnown(e) /\ Target(e) = base_addr + 1)
  <2>1. (IF SpecView # <<>> THEN Head(SpecView) ELSE NextAr.addr) = base_addr + 1
    BY <1>6, <1>8, <1>9, <1>11
  <2> QED BY <2>1, Zenon DEF CorrectWith
<1> QED BY <1>6, <1>8, <1>9, <1>10, <1>12, <1>13

(* What awaits its report, as a queue.                                     *)
LEMMA AwaitingType ==
    ASSUME StateTypes
    PROVE  /\ AwaitingReport \in Seq(Nat)
           /\ Len(AwaitingReport) = Len(due) + Len(aws) + Len(backend) + Len(reqs)
           /\ due # <<>> => AwaitingReport # <<>>
<1>1. /\ due \in Seq(Nat) /\ aws \in Seq(Nat) /\ backend \in Seq(Nat) /\ reqs \in Seq(Nat)
      /\ Len(due) \in Nat /\ Len(aws) \in Nat /\ Len(backend) \in Nat /\ Len(reqs) \in Nat
  BY Lengths DEF StateTypes
<1>2. due \o aws \in Seq(Nat) /\ Len(due \o aws) = Len(due) + Len(aws)
  BY <1>1, ConcatProperties
<1>3. (due \o aws) \o backend \in Seq(Nat) /\ Len((due \o aws) \o backend) = Len(due \o aws) + Len(backend)
  BY <1>1, <1>2, ConcatProperties
<1>4. AwaitingReport \in Seq(Nat) /\ Len(AwaitingReport) = Len((due \o aws) \o backend) + Len(reqs)
  BY <1>1, <1>3, ConcatProperties DEF AwaitingReport
<1>5. due # <<>> => Len(AwaitingReport) # 0
  <2>1. due # <<>> => Len(due) # 0
    BY <1>1, EmptySeq
  <2> QED BY <1>1, <1>2, <1>3, <1>4, <2>1
<1> QED BY <1>2, <1>3, <1>4, <1>5, EmptySeq

(* A beat that is not thrown away finds room in the request FIFO.          *)
LEMMA Room ==
    ASSUME IInv PROVE ars # <<>> /\ ~(engaged /\ n_to_flush > 0) => ReqReady
<1>1. StateTypes /\ ReaderInv /\ RunInv /\ SlotInv
  BY DEF IInv
<1>2. /\ Len(ars) \in Nat /\ Len(legal) \in Nat /\ Len(pending) \in Nat /\ Len(reqs) \in Nat
      /\ inflight \in Nat /\ Held \in 0..1 /\ Live \in Nat /\ PendingFifoDepth \in Nat
      /\ n_to_flush \in Nat
  BY <1>1, Lengths DEF RunInv
<1>3. inflight = Live + Len(pending) /\ Len(reqs) + Held + inflight <= PendingFifoDepth
  BY <1>1 DEF RunInv, SlotInv
<1>5. ars \in Seq(Nat)
  BY <1>1 DEF StateTypes
<1>6. ars # <<>> /\ ~(engaged /\ n_to_flush > 0) => Len(reqs) < PendingFifoDepth
  <2> SUFFICES ASSUME ars # <<>>, ~(engaged /\ n_to_flush > 0) PROVE Len(reqs) < PendingFifoDepth
    OBVIOUS
  <2>1. Len(ars) >= 1
    BY <1>2, <1>5, EmptySeq
  <2>2. CASE Decided
    BY <1>2, <1>3, <2>2 DEF Held
  <2>3. CASE fetch_counter = 1 \/ ThisCycle
    BY <1>2, <1>3, <2>3, Window
  <2>4. CASE fetch_counter = 0
    <3>1. n_to_flush = 0 /\ Held = 0
      BY <1>1, <1>2, <2>4 DEF ReaderInv, Held, Decided
    <3>2. Live = Len(ars) + Len(legal)
      BY <1>2, <3>1 DEF Live
    <3> QED BY <1>2, <1>3, <2>1, <3>2
  <2> QED BY <1>1, <2>2, <2>3, <2>4 DEF StateTypes, Decided, ThisCycle
<1> QED BY <1>6 DEF ReqReady

(* What is to be written back: the transfers not answered, the descriptor  *)
(* being read and what is certain to follow.                               *)
LEMMA PlaceLength ==
    ASSUME IInv
    PROVE  Len(Place) = Len(backend) + Len(reqs) + Held + One(Live > 0)
<1>1. StateTypes /\ ReaderInv /\ RunInv
  BY DEF IInv
<1>2. Len(reqs) \in Nat /\ Len(backend) \in Nat /\ Held \in 0..1 /\ Live \in Nat
  BY <1>1, Lengths DEF RunInv
<1>5. backend \in Seq(Nat) /\ reqs \in Seq(Nat) /\ ars \in Seq(Nat) /\ base_addr \in Nat
  BY <1>1, Lengths DEF StateTypes
<1>11. Read1 \in Seq(Nat) /\ Len(Read1) = Held
  <2>1. CASE Decided
    <3>1. ars # <<>>
      BY <1>1, <2>1 DEF ReaderInv, Decided
    <3>2. Head(ars) \in Nat
      BY <1>5, <3>1, HeadTailProperties
    <3> DEFINE x == Head(ars)
    <3>3. Read1 = <<x>> /\ Held = 1
      BY <2>1 DEF Read1, OneIf, Held
    <3>4. x \in Nat
      BY <3>2
    <3> HIDE DEF x
    <3> QED BY <3>3, <3>4
  <2>2. CASE ~Decided
    <3>1. Read1 = <<>> /\ Held = 0
      BY <2>2 DEF Read1, OneIf, Held
    <3> QED BY <3>1, EmptySeq
  <2> QED BY <2>1, <2>2
<1>12. Read2 \in Seq(Nat) /\ Len(Read2) = One(Live > 0)
  <2>1. CASE Live > 0
    <3>1. Read2 = <<base_addr>> /\ One(Live > 0) = 1
      BY <2>1 DEF Read2, OneIf, One
    <3> QED BY <1>5, <3>1
  <2>2. CASE ~(Live > 0)
    <3>1. Read2 = <<>> /\ One(Live > 0) = 0
      BY <2>2 DEF Read2, OneIf, One
    <3> QED BY <3>1, EmptySeq
  <2> QED BY <2>1, <2>2
<1>13. backend \o reqs \in Seq(Nat) /\ Len(backend \o reqs) = Len(backend) + Len(reqs)
  BY <1>5, ConcatProperties
<1>14. (backend \o reqs) \o Read1 \in Seq(Nat) /\ Len((backend \o reqs) \o Read1) = Len(backend \o reqs) + Len(Read1)
  BY <1>11, <1>13, ConcatProperties
<1>15. Len(((backend \o reqs) \o Read1) \o Read2) = Len((backend \o reqs) \o Read1) + Len(Read2)
  BY <1>12, <1>14, ConcatProperties
<1> QED BY <1>11, <1>12, <1>13, <1>14, <1>15 DEF Place

(* An address becomes certain only when the request FIFO has a slot more   *)
(* than those that are certain already need.                               *)
LEMMA FeedbackRoom ==
    ASSUME IInv, NEW e, Feedback(e) # <<>>
    PROVE  Len(reqs) + Held + One(Live > 0) < PendingFifoDepth
<1>1. StateTypes /\ RunInv /\ SlotInv /\ GuessInv
  BY DEF IInv
<1>2. /\ Len(pending) \in Nat /\ Len(reqs) \in Nat /\ inflight \in Nat /\ Held \in 0..1 /\ Live \in Nat
      /\ PendingFifoDepth \in Nat /\ fetch_counter \in 0..3 /\ specq \in Seq(Nat)
  BY <1>1, Lengths DEF RunInv, StateTypes
<1>3. inflight = Live + Len(pending) /\ Len(reqs) + Held + inflight <= PendingFifoDepth
  BY <1>1 DEF RunInv, SlotInv
<1>4. One(Live > 0) \in 0..1 /\ (Live = 0 => One(Live > 0) = 0)
  BY <1>2 DEF One
<1>5. CASE Flush(e)
  <2>1. ThisCycle /\ fetch_counter = 2
    BY <1>5 DEF Flush, ThisCycle
  <2>2. LegalPush(e)
    BY <1>5 DEF Feedback, OneIf
  <2>3. AvailableSlots > 0
    BY <1>5, <2>2 DEF LegalPush
  <2>4. Len(reqs) # PendingFifoDepth
    <3>1. Len(reqs) = PendingFifoDepth => AvailableSlots = 0
      BY DEF AvailableSlots
    <3> QED BY <2>3, <3>1
  <2>5. AvailableSlots = PendingFifoDepth - Len(reqs) - 1
    BY <2>1, <2>4 DEF AvailableSlots
  <2>6. Held = 0
    BY <2>1, Window
  <2> QED BY <1>2, <1>4, <2>3, <2>5, <2>6
<1>6. CASE ~Flush(e) /\ LegalPush(e) /\ ~Staging.speculative
  <2>1. StagingMoves
    BY <1>6 DEF LegalPush
  <2>2. Live = 0 /\ PendingView # <<>>
    BY <1>2, <1>6, <2>1, Moving
  <2>3. CASE NextArSent
    <3>1. Len(reqs) + (IF fetch_counter # 0 THEN 1 ELSE 0) + inflight < PendingFifoDepth
      BY <2>3, Waiting
    <3>2. Held = 1 => fetch_counter # 0
      BY DEF Held, Decided
    <3> QED BY <1>2, <1>3, <1>4, <2>2, <3>1, <3>2
  <2>4. CASE ~NextArSent
    <3>1. Len(PendingView) = Len(pending) + 0 /\ PendingView \in Seq(ReadRecord)
      BY <2>4, Waiting
    <3>2. Len(PendingView) # 0
      BY <2>2, <3>1, EmptySeq
    <3> QED BY <1>2, <1>3, <1>4, <2>2, <3>1, <3>2
  <2> QED BY <2>3, <2>4
<1>7. CASE ~Flush(e) /\ ~(LegalPush(e) /\ ~Staging.speculative)
  <2>1. Commit(e) /\ SpecView # <<>>
    BY <1>7 DEF Feedback, OneIf
  <2>2. ThisCycle /\ fetch_counter = 2
    BY <2>1 DEF Commit, ThisCycle
  <2>3. Held = 0 /\ Live >= 1 /\ Len(specq) = Live - 1
    BY <2>2, Window
  <2>4. CASE Live = 1
    <3>1. specq = <<>>
      BY <1>2, <2>3, <2>4, EmptySeq
    <3>2. pending = <<>> /\ Len(pending) = 0
      BY <1>1, <2>2, <3>1, EmptySeq DEF GuessInv
    <3>3. StagingMoves
      <4>1. ~StagingMoves => SpecView = specq \o <<>>
        BY DEF SpecView, OneIf
      <4>2. specq \o <<>> = specq
        BY <1>2, ConcatEmptySeq
      <4> QED BY <2>1, <3>1, <4>1, <4>2
    <3>4. PendingView # <<>> /\ PendingView \in Seq(ReadRecord)
      BY <3>3, Moving, Waiting
    <3>5. Len(PendingView) # 0
      BY <3>4, EmptySeq
    <3>6. NextArSent
      <4>1. ~NextArSent => Len(PendingView) = Len(pending) + 0
        BY Waiting
      <4> QED BY <3>2, <3>5, <4>1
    <3>7. Len(reqs) + 1 + inflight < PendingFifoDepth
      BY <2>2, <3>6, Waiting
    <3> QED BY <1>2, <1>3, <1>4, <2>3, <3>7
  <2>5. CASE Live # 1
    BY <1>2, <1>3, <1>4, <2>3, <2>5
  <2> QED BY <2>4, <2>5
<1> QED BY <1>5, <1>6, <1>7

(* So one is lost only if the backend holds more transfers than it is said *)
(* to hold.                                                                *)
LEMMA AddrRoom ==
    ASSUME IInv, Kept, NEW e, AddrDropped(e) PROVE Len(backend) > BackendDepth
<1>1. Len(wb) = Len(backend) + Len(reqs) + Held + One(Live > 0)
  BY PlaceLength DEF IInv, WbInv
<1>2. Len(reqs) + Held + One(Live > 0) < PendingFifoDepth
  BY FeedbackRoom DEF AddrDropped
<1>3. Len(wb) >= PendingFifoDepth + BackendDepth
  BY DEF AddrDropped, WbDepth
<1>4. /\ Len(reqs) \in Nat /\ Len(backend) \in Nat /\ Held \in 0..1 /\ One(Live > 0) \in 0..1
      /\ PendingFifoDepth \in Nat /\ BackendDepth \in Nat
  BY Lengths DEF IInv, One
<1> QED BY <1>1, <1>2, <1>3, <1>4

----------------------------------------------------------------------------
(* What a cycle does to the reader. *)

(* The oldest read is finished. *)
Pops(e) == RValid(e) /\ RReady(e) /\ RLast

(* Where the reader stands, and what a cycle does there.                   *)
Idles(e) ==
    /\ fetch_counter = 0 /\ ~RValid(e) /\ ~Pops(e) /\ ~ReqPush(e)
    /\ fetch_counter' = 0 /\ beat' = beat /\ n_to_flush' = n_to_flush /\ (n_to_flush > 0 => engaged')

Begins(e) ==
    /\ fetch_counter = 0 /\ beat = 0 /\ n_to_flush = 0 /\ ars # <<>> /\ ~Pops(e) /\ ~ReqPush(e)
    /\ fetch_counter' = 1 /\ beat' = 1 /\ n_to_flush' = 0 /\ ~engaged'

Discards(e) ==
    /\ fetch_counter = 0 /\ n_to_flush > 0 /\ ars # <<>> /\ ~ReqPush(e)
    /\ beat' = (beat + 1) % 4 /\ fetch_counter' = 0 /\ engaged'
    /\ Pops(e) <=> beat = 3
    /\ n_to_flush' = n_to_flush - (IF beat = 3 THEN 1 ELSE 0)

Stays(e) ==
    /\ ars # <<>> /\ ~Pops(e) /\ ~ReqPush(e) /\ ~engaged'
    /\ n_to_flush' = IF Flush(e) THEN Len(specq) ELSE n_to_flush

Pauses(e) ==
    /\ fetch_counter # 0 /\ ~RValid(e) /\ Stays(e)
    /\ fetch_counter' = fetch_counter /\ beat' = fetch_counter

Advances(e) ==
    /\ fetch_counter \in {1, 2} /\ RValid(e) /\ Stays(e)
    /\ fetch_counter' = fetch_counter + 1 /\ beat' = fetch_counter + 1

Finishes(e) ==
    /\ fetch_counter = 3 /\ ars # <<>> /\ Pops(e) /\ ReqPush(e)
    /\ fetch_counter' = 0 /\ beat' = 0 /\ n_to_flush' = n_to_flush /\ (n_to_flush > 0 => engaged')

LEMMA ReaderTurn ==
    ASSUME IInv, NEW e \in SUBSET Offers, Cycle(e)
    PROVE  Idles(e) \/ Begins(e) \/ Discards(e) \/ Pauses(e) \/ Advances(e) \/ Finishes(e)
<1>1. ReaderInv /\ fetch_counter \in 0..3 /\ beat \in 0..3 /\ n_to_flush \in Nat /\ engaged \in BOOLEAN
  BY Lengths DEF IInv, StateTypes
<1>2. /\ fetch_counter' = NextFetchCounter(e) /\ n_to_flush' = NextToFlush(e) /\ engaged' = NextEngaged(e)
      /\ beat' = (IF RValid(e) /\ RReady(e) THEN (beat + 1) % 4 ELSE beat)
  BY DEF Cycle, Read
<1>4. ars # <<>> /\ ~(engaged /\ n_to_flush > 0) => ReqReady
  BY Room
<1>5. Flush(e) => fetch_counter = 2
  BY DEF Flush, ThisCycle
<1>6. RValid(e) => ars # <<>>
  BY DEF RValid
<1>7. RLast <=> beat = 3
  BY DEF RLast
<1>8. CASE fetch_counter = 0
  <2>1. ~Flush(e)
    BY <1>5, <1>8
  <2>2. CASE RValid(e) /\ n_to_flush > 0
    <3>1. engaged
      BY <1>1, <1>8, <2>2 DEF ReaderInv
    <3>2. Dropping(e) /\ RReady(e) /\ ~GatedValid(e) /\ n_to_flush # 0
      BY <1>1, <2>2, <3>1 DEF Dropping, RReady, GatedValid
    <3>3. ~ReqPush(e) /\ (Pops(e) <=> beat = 3)
      BY <1>7, <2>2, <3>2 DEF ReqPush, Pops
    <3>4. fetch_counter' = 0 /\ engaged' /\ beat' = (beat + 1) % 4
      BY <1>2, <1>8, <2>1, <2>2, <3>1, <3>2 DEF NextFetchCounter, NextEngaged
    <3>5. n_to_flush' = n_to_flush - (IF beat = 3 THEN 1 ELSE 0)
      <4>1. CASE beat = 3
        BY <1>2, <1>7, <2>1, <2>2, <3>1, <4>1 DEF NextToFlush, One
      <4>2. CASE beat # 3
        BY <1>1, <1>2, <1>7, <2>1, <2>2, <3>1, <4>2 DEF NextToFlush, One
      <4> QED BY <4>1, <4>2
    <3> QED BY <1>6, <1>8, <2>2, <3>3, <3>4, <3>5 DEF Discards
  <2>3. CASE RValid(e) /\ ~(n_to_flush > 0)
    <3>1. n_to_flush = 0 /\ beat = 0 /\ ~RLast
      BY <1>1, <1>7, <1>8, <2>3 DEF ReaderInv
    <3>2. ~Dropping(e) /\ ReqReady /\ RReady(e) /\ GatedValid(e) /\ ~Pops(e) /\ ~ReqPush(e)
      BY <1>4, <1>6, <2>1, <2>3, <3>1 DEF Dropping, RReady, GatedValid, Pops, ReqPush
    <3>3. fetch_counter' = 1 /\ beat' = 1
      <4>1. (fetch_counter + 1) % 4 = 1 /\ (beat + 1) % 4 = 1
        BY <1>8, <3>1
      <4> QED BY <1>2, <2>3, <3>1, <3>2, <4>1 DEF NextFetchCounter
    <3>4. ~engaged'
      BY <1>2, <3>1 DEF NextEngaged
    <3>5. n_to_flush' = 0
      BY <1>2, <2>1, <3>1 DEF NextToFlush, One
    <3> QED BY <1>6, <1>8, <2>3, <3>1, <3>2, <3>3, <3>4, <3>5 DEF Begins
  <2>4. CASE ~RValid(e)
    <3>1. ~Pops(e) /\ ~ReqPush(e) /\ ~GatedValid(e)
      BY <2>4 DEF Pops, ReqPush, GatedValid
    <3>2. fetch_counter' = 0 /\ beat' = beat
      BY <1>2, <1>8, <2>4, <3>1 DEF NextFetchCounter
    <3>3. n_to_flush' = n_to_flush
      BY <1>1, <1>2, <2>1, <2>4 DEF NextToFlush, One
    <3>4. n_to_flush > 0 => engaged'
      <4>1. n_to_flush > 0 => engaged
        BY <1>1, <1>8 DEF ReaderInv
      <4>2. n_to_flush > 0 => n_to_flush # 0
        OBVIOUS
      <4> QED BY <1>2, <2>1, <4>1, <4>2, Zenon DEF NextEngaged
    <3> QED BY <1>8, <2>4, <3>1, <3>2, <3>3, <3>4 DEF Idles
  <2> QED BY <2>2, <2>3, <2>4
<1>9. CASE fetch_counter # 0
  <2>1. ~engaged /\ beat = fetch_counter /\ ars # <<>>
    BY <1>1, <1>9 DEF ReaderInv
  <2>2. ~Dropping(e) /\ ReqReady /\ RReady(e) /\ (GatedValid(e) <=> RValid(e))
    BY <1>4, <2>1 DEF Dropping, RReady, GatedValid
  <2>3. CASE RValid(e) /\ fetch_counter = 3
    <3>1. Pops(e) /\ ReqPush(e) /\ RLast /\ ~Flush(e)
      BY <1>5, <1>7, <2>1, <2>2, <2>3 DEF Pops, ReqPush
    <3>2. fetch_counter' = 0
      BY <1>2, <2>2, <2>3, <3>1 DEF NextFetchCounter
    <3>3. beat' = 0
      <4>1. (beat + 1) % 4 = 0
        BY <2>1, <2>3
      <4> QED BY <1>2, <2>2, <2>3, <4>1
    <3>4. n_to_flush' = n_to_flush
      BY <1>1, <1>2, <2>1, <3>1 DEF NextToFlush, One
    <3>5. n_to_flush > 0 => engaged'
      <4>1. n_to_flush > 0 => n_to_flush # 0
        OBVIOUS
      <4> QED BY <1>2, <2>2, <2>3, <3>1, <4>1, Zenon DEF NextEngaged
    <3> QED BY <2>1, <2>3, <3>1, <3>2, <3>3, <3>4, <3>5 DEF Finishes
  <2>4. CASE ~(RValid(e) /\ fetch_counter = 3)
    <3>1. ~(RValid(e) /\ RLast)
      BY <1>7, <2>1, <2>4
    <3>2. ~Pops(e) /\ ~ReqPush(e)
      BY <3>1, Zenon DEF Pops, ReqPush, GatedValid
    <3>3. ~engaged'
      BY <1>2, <2>1, <3>1, Zenon DEF NextEngaged
    <3>4. n_to_flush' = IF Flush(e) THEN Len(specq) ELSE n_to_flush
      <4>1. n_to_flush - 0 = n_to_flush
        BY <1>1
      <4>2. One(RValid(e) /\ RLast /\ n_to_flush > 0 /\ engaged) = 0
        BY <3>1, Zenon DEF One
      <4> QED BY <1>2, <4>1, <4>2, Zenon DEF NextToFlush
    <3>5. Stays(e)
      BY <2>1, <3>2, <3>3, <3>4 DEF Stays
    <3>6. CASE RValid(e)
      <4>1. fetch_counter \in {1, 2} /\ ~RLast
        BY <1>1, <1>9, <2>4, <3>1, <3>6
      <4>2. fetch_counter' = fetch_counter + 1 /\ beat' = fetch_counter + 1
        <5>1. (fetch_counter + 1) % 4 = fetch_counter + 1 /\ (beat + 1) % 4 = fetch_counter + 1
          BY <2>1, <4>1
        <5> QED BY <1>2, <2>2, <3>6, <4>1, <5>1 DEF NextFetchCounter
      <4> QED BY <3>5, <3>6, <4>1, <4>2 DEF Advances
    <3>7. CASE ~RValid(e)
      <4>1. fetch_counter' = fetch_counter /\ beat' = fetch_counter
        BY <1>2, <2>1, <2>2, <3>7 DEF NextFetchCounter
      <4> QED BY <1>9, <3>5, <3>7, <4>1 DEF Pauses
    <3> QED BY <3>6, <3>7
  <2> QED BY <2>3, <2>4
<1> QED BY <1>8, <1>9

(* The verdict is given in the first cycle in which two beats are held.    *)
LEMMA VerdictTime ==
    ASSUME IInv, NEW e
    PROVE  /\ Flush(e) \in BOOLEAN /\ Commit(e) \in BOOLEAN
           /\ ThisCycle => (Commit(e) <=> ~Flush(e))
           /\ ~ThisCycle => ~Commit(e) /\ ~Flush(e)
<1>1. CorrectWith(SpecView, e) \in BOOLEAN
  BY DEF CorrectWith
<1> QED BY <1>1 DEF Flush, Commit

(* What was decided stays so until the descriptor is handed over.          *)
LEMMA DecidedStep ==
    ASSUME IInv, NEW e \in SUBSET Offers, Cycle(e)
    PROVE  /\ Decided' <=> ThisCycle \/ (Decided /\ ~Pops(e))
           /\ Decided /\ Pops(e) <=> ReqPush(e)
           /\ ThisCycle => ~Decided /\ ~Pops(e)
           /\ ThisCycle' => fetch_counter = 1
           /\ fetch_counter' \in 0..3
<1>1. fetch_counter \in 0..3 /\ ReaderInv
  BY DEF IInv, StateTypes
<1>2. (next_seen' <=> fetch_counter = 2) /\ (Decided' <=> fetch_counter' = 3 \/ (fetch_counter' = 2 /\ next_seen'))
  BY DEF Cycle, Fetch, Decided
<1>3. ThisCycle' <=> fetch_counter' = 2 /\ ~next_seen'
  BY DEF ThisCycle
<1>4. /\ Decided <=> fetch_counter = 3 \/ (fetch_counter = 2 /\ next_seen)
      /\ ThisCycle <=> fetch_counter = 2 /\ ~next_seen
  BY DEF Decided, ThisCycle
<1>5. CASE Idles(e)
  BY <1>2, <1>3, <1>4, <1>5 DEF Idles
<1>6. CASE Begins(e)
  BY <1>2, <1>3, <1>4, <1>6 DEF Begins
<1>7. CASE Discards(e)
  BY <1>2, <1>3, <1>4, <1>7 DEF Discards
<1>8. CASE Pauses(e)
  BY <1>1, <1>2, <1>3, <1>4, <1>8 DEF Pauses, Stays
<1>9. CASE Advances(e)
  BY <1>1, <1>2, <1>3, <1>4, <1>9 DEF Advances, Stays
<1>10. CASE Finishes(e)
  BY <1>2, <1>3, <1>4, <1>10 DEF Finishes
<1> QED BY <1>5, <1>6, <1>7, <1>8, <1>9, <1>10, ReaderTurn

(* What is sent to the bus, or rather to the register before it.           *)
Sends(e) == OneIf(LegalPush(e), IF Flush(e) THEN Target(e) ELSE Staging.addr)

LEMMA SendsType ==
    ASSUME IInv, todo \in Seq(Seq(Nat) \ {<<>>}), NEW e
    PROVE  /\ LegalPush(e) => legal = <<>> /\ (IF Flush(e) THEN Target(e) ELSE Staging.addr) \in Nat
           /\ LegalPush(e) \in BOOLEAN
           /\ Sends(e) \in Seq(Nat) /\ Len(Sends(e)) = IF LegalPush(e) THEN 1 ELSE 0
<1>1. LegalPush(e) \in BOOLEAN /\ Flush(e) \in BOOLEAN
  BY VerdictTime DEF LegalPush, StagingMoves, LegalReady
<1>2. ASSUME LegalPush(e) PROVE legal = <<>> /\ (IF Flush(e) THEN Target(e) ELSE Staging.addr) \in Nat
  <2>1. CASE Flush(e)
    <3>1. TargetKnown(e) /\ legal = <<>>
      BY <1>2, <2>1 DEF LegalPush, LegalReady
    <3>2. Target(e) \in Nat
      BY <3>1, InputFacts DEF IInv
    <3> QED BY <2>1, <3>1, <3>2
  <2>2. CASE ~Flush(e)
    <3>1. StagingMoves
      BY <1>2, <2>2 DEF LegalPush
    <3>2. legal = <<>> /\ Staging.addr = base_addr + Live
      BY <3>1, Moving
    <3>3. Live \in Nat /\ base_addr \in Nat
      BY Lengths DEF IInv, RunInv
    <3> QED BY <2>2, <3>2, <3>3
  <2> QED BY <2>1, <2>2
<1> DEFINE x == IF Flush(e) THEN Target(e) ELSE Staging.addr
<1> HIDE DEF x
<1>3. LegalPush(e) => x \in Nat
  BY <1>2 DEF x
<1>4. Sends(e) = OneIf(LegalPush(e), x)
  BY DEF Sends, x
<1>5. CASE LegalPush(e)
  <2>1. Sends(e) = <<x>> /\ x \in Nat
    BY <1>3, <1>4, <1>5 DEF OneIf
  <2>2. <<x>> \in Seq(Nat) /\ Len(<<x>>) = 1
    BY <2>1
  <2> QED BY <1>1, <1>2, <1>5, <2>1, <2>2
<1>6. CASE ~LegalPush(e)
  <2>1. Sends(e) = <<>>
    BY <1>4, <1>6 DEF OneIf
  <2> QED BY <1>1, <1>2, <1>6, <2>1, EmptySeq
<1> QED BY <1>5, <1>6

(* The reads sent lose what is finished and gain what is sent.             *)
LEMMA ReadsStep ==
    ASSUME IInv, todo \in Seq(Seq(Nat) \ {<<>>}), NEW e, Cycle(e)
    PROVE  /\ ars' \in Seq(Nat) /\ legal' \in Seq(Nat) /\ Len(legal') <= 1
           /\ ars' \o legal' = Rest(ars \o legal, Pops(e)) \o Sends(e)
           /\ Pops(e) \in BOOLEAN /\ (Pops(e) => ars # <<>>)
           /\ ~Pops(e) /\ ars # <<>> => ars' # <<>> /\ Head(ars') = Head(ars)
           /\ Len(ars') + Len(legal') = Len(ars) + Len(legal) - (IF Pops(e) THEN 1 ELSE 0)
                                                             + (IF LegalPush(e) THEN 1 ELSE 0)
<1>1. ars \in Seq(Nat) /\ legal \in Seq(Nat) /\ Len(legal) <= 1 /\ Len(legal) \in Nat /\ Len(ars) \in Nat
  BY Lengths DEF IInv, StateTypes
<1>2. /\ Sends(e) \in Seq(Nat) /\ (LegalPush(e) => legal = <<>>)
      /\ Len(Sends(e)) = IF LegalPush(e) THEN 1 ELSE 0
  BY SendsType
<1> DEFINE lv == LegalView(e)   pop == Pops(e)   out == ArSent(e)   send == Sends(e)
           x == OneIf(out, Head(lv))
<1>3. lv = legal \o send
  BY DEF LegalView, Sends
<1>4. lv \in Seq(Nat) /\ Len(lv) <= 1 /\ Len(lv) \in Nat
  <2>1. lv \in Seq(Nat) /\ Len(lv) = Len(legal) + Len(send)
    BY <1>1, <1>2, <1>3, ConcatType, Zenon
  <2>2. LegalPush(e) => Len(legal) = 0
    BY <1>2, EmptySeq
  <2> QED BY <1>1, <1>2, <2>1, <2>2
<1>5. pop \in BOOLEAN /\ (pop => ars # <<>>) /\ out \in BOOLEAN /\ (out => lv # <<>>)
  BY DEF Pops, RValid, RLast, ArSent
<1>6. ars' = Rest(ars, pop) \o x /\ legal' = Rest(lv, out)
  BY DEF Cycle, Read, Fetch, Pops
<1>7. x = <<>> \/ \E y \in Nat : x = <<y>>
  BY <1>4, <1>5, HeadTailProperties DEF OneIf
<1> HIDE DEF lv, pop, out, send
<1>8. legal' \in Seq(Nat) /\ Len(legal') <= 1
  <2>1. CASE out
    BY <1>4, <1>5, <1>6, <2>1, HeadTailProperties DEF Rest
  <2>2. CASE ~out
    BY <1>4, <1>6, <2>2 DEF Rest
  <2> QED BY <1>5, <2>1, <2>2
<1>9. ars' \in Seq(Nat) /\ Advanced(ars, ars', pop, x)
  BY <1>1, <1>5, <1>6, <1>7, QueueMoves
<1>10. ars' \o legal' = Rest(ars \o lv, pop)
  BY <1>1, <1>4, <1>5, <1>6, HandOver
<1>11. ars \o lv = (ars \o legal) \o send /\ ars \o legal \in Seq(Nat) /\ Len(ars \o legal) = Len(ars) + Len(legal)
  <2>1. send \in Seq(Nat)
    BY <1>2 DEF send
  <2>2. (ars \o legal) \o send = ars \o (legal \o send)
    BY <1>1, <2>1, Associative, Zenon
  <2>3. ars \o legal \in Seq(Nat) /\ Len(ars \o legal) = Len(ars) + Len(legal)
    BY <1>1, ConcatProperties
  <2> QED BY <1>3, <2>2, <2>3
<1> DEFINE al == ars \o legal
<1>12. pop => al # <<>>
  <2>1. pop => Len(ars) # 0
    BY <1>1, <1>5, EmptySeq
  <2>2. pop => Len(al) # 0
    BY <1>1, <1>11, <2>1
  <2> QED BY <2>2, EmptySeq
<1>13. ars' \o legal' = Rest(al, pop) \o send
  <2>1. al \in Seq(Nat) /\ send \in Seq(Nat)
    BY <1>2, <1>11 DEF send
  <2> HIDE DEF al
  <2>2. Rest(al, pop) \o send = Rest(al \o send, pop)
    BY <1>5, <1>12, <2>1, RestThen
  <2> QED BY <1>10, <1>11, <2>2 DEF al
<1>14. Len(ars') + Len(legal') = Len(ars) + Len(legal) - (IF pop THEN 1 ELSE 0) + (IF LegalPush(e) THEN 1 ELSE 0)
  <2>1. Rest(al, pop) \in Seq(Nat) /\ Len(Rest(al, pop)) = Len(al) - (IF pop THEN 1 ELSE 0)
    <3>1. CASE pop
      BY <1>11, <1>12, <3>1, HeadTailProperties DEF Rest
    <3>2. CASE ~pop
      BY <1>1, <1>11, <3>2 DEF Rest
    <3> QED BY <1>5, <3>1, <3>2
  <2>2. Len(ars' \o legal') = Len(ars') + Len(legal')
    BY <1>8, <1>9, ConcatProperties
  <2>3. Len(Rest(al, pop) \o send) = Len(Rest(al, pop)) + Len(send)
    BY <1>2, <2>1, ConcatProperties DEF send
  <2> QED BY <1>2, <1>11, <1>13, <2>1, <2>2, <2>3 DEF send
<1>15. ASSUME ~pop, ars # <<>> PROVE ars' # <<>> /\ Head(ars') = Head(ars)
  <2>1. ars' = ars \o x
    BY <1>6, <1>15 DEF Rest
  <2> QED BY <1>1, <1>7, <1>15, <2>1, QueueHead
<1> QED BY <1>5, <1>8, <1>9, <1>13, <1>14, <1>15 DEF pop, send

(* The reader's part of the invariant is kept.                             *)
LEMMA ReaderStep ==
    ASSUME IInv, todo \in Seq(Seq(Nat) \ {<<>>}),
           NEW e \in SUBSET Offers, Cycle(e)
    PROVE  ReaderInv'
<1>1. ReaderInv /\ fetch_counter \in 0..3 /\ beat \in 0..3 /\ n_to_flush \in Nat
  BY Lengths DEF IInv, StateTypes
<1>2. next_seen' <=> fetch_counter = 2
  BY Zenon DEF Cycle, Fetch
<1>3. flush_q' => ThisCycle
  BY VerdictTime DEF Cycle, Fetch
<1>4. ~Pops(e) /\ ars # <<>> => ars' # <<>>
  BY ReadsStep
<1>5. CASE Idles(e)
  <2>1. fetch_counter = 0 /\ ~ThisCycle
    BY <1>5 DEF Idles, ThisCycle
  <2> QED BY <1>1, <1>2, <1>3, <1>4, <1>5, <2>1 DEF Idles, ReaderInv
<1>6. CASE Begins(e)
  <2>1. fetch_counter = 0 /\ ~ThisCycle
    BY <1>6 DEF Begins, ThisCycle
  <2> QED BY <1>2, <1>3, <1>4, <1>6, <2>1 DEF Begins, ReaderInv
<1>7. CASE Discards(e)
  <2>1. beat' # 0 => ~Pops(e) /\ n_to_flush' > 0
    <3>1. CASE beat = 3
      <4>1. beat' = 0
        <5>1. beat' = (beat + 1) % 4 /\ (3 + 1) % 4 = 0
          BY <1>7 DEF Discards
        <5> QED BY ONLY <3>1, <5>1
      <4> QED BY ONLY <4>1
    <3>2. CASE beat # 3
      <4>1. ~Pops(e) /\ n_to_flush' = n_to_flush - 0 /\ n_to_flush > 0
        BY <1>7, <3>2, Zenon DEF Discards
      <4> QED BY ONLY <4>1, <1>1
    <3> QED BY ONLY <3>1, <3>2
  <2>2. fetch_counter = 0 /\ ~ThisCycle
    BY <1>7 DEF Discards, ThisCycle
  <2> QED BY <1>2, <1>3, <1>4, <1>7, <2>1, <2>2 DEF Discards, ReaderInv
<1>8. CASE Pauses(e) \/ Advances(e)
  <2>1. /\ fetch_counter # 0 /\ Stays(e) /\ beat' = fetch_counter'
        /\ fetch_counter' = fetch_counter \/ (fetch_counter < 3 /\ fetch_counter' = fetch_counter + 1)
    BY <1>1, <1>8 DEF Pauses, Advances
  <2>2. ThisCycle => fetch_counter = 2
    BY DEF ThisCycle
  <2>3. next_seen' => fetch_counter' = 2 \/ fetch_counter' = 3
    BY <1>2, <2>1
  <2>4. flush_q' => next_seen'
    BY <1>2, <1>3, <2>2
  <2>5. fetch_counter' # 0 /\ ~engaged' /\ ars' # <<>>
    BY <1>1, <1>4, <2>1 DEF Stays
  <2>6. ~Decided' => n_to_flush' = 0
    <3> SUFFICES ASSUME ~Decided' PROVE n_to_flush' = 0
      OBVIOUS
    <3>1. ~ThisCycle /\ ~Decided
      <4>1. Decided' <=> ThisCycle \/ (Decided /\ ~Pops(e))
        BY DecidedStep
      <4> QED BY <2>1, <4>1 DEF Stays
    <3>2. n_to_flush = 0
      BY <1>1, <2>1, <3>1 DEF ReaderInv
    <3>3. ~Flush(e)
      BY <3>1, VerdictTime
    <3> QED BY <2>1, <3>2, <3>3 DEF Stays
  <2> QED BY <2>1, <2>3, <2>4, <2>5, <2>6 DEF ReaderInv
<1>9. CASE Finishes(e)
  <2>1. ~ThisCycle
    BY <1>9 DEF Finishes, ThisCycle
  <2>2. ~next_seen'
    BY <1>2, <1>9 DEF Finishes
  <2> QED BY <1>3, <1>9, <2>1, <2>2 DEF Finishes, ReaderInv
<1> QED BY <1>5, <1>6, <1>7, <1>8, <1>9, ReaderTurn

----------------------------------------------------------------------------
(* What a cycle does to the address generator. *)

(* The base address moves to what comes next, once that is known.          *)
LEMMA BaseStep ==
    ASSUME IInv, todo \in Seq(Seq(Nat) \ {<<>>}), NEW e, Cycle(e)
    PROVE  /\ base_valid' \in BOOLEAN /\ base_addr' \in Nat
           /\ ThisCycle /\ TargetKnown(e) => base_valid' /\ base_addr' = Target(e)
           /\ ThisCycle /\ ~TargetKnown(e) => ~base_valid'
           /\ ~ThisCycle /\ base_valid => base_valid' /\ base_addr' = base_addr
           /\ ~ThisCycle /\ ~base_valid => (base_valid' <=> QueuedValid(e))
           /\ ~ThisCycle /\ ~base_valid /\ QueuedValid(e) => base_addr' = Queued(e)
<1>1. base_valid \in BOOLEAN /\ base_addr \in Nat
  BY DEF IInv, StateTypes
<1>2. base_addr' = NextBaseAddr(e) /\ (base_valid' <=> NextBaseValid(e)) /\ base_valid' = NextBaseValid(e)
  BY DEF Cycle, Fetch
<1>4. FromDescriptor \in Nat \cup {End} /\ (QueuedValid(e) => Queued(e) \in Nat)
  BY NextOfType, InputFacts DEF IInv, FromDescriptor
<1>5. ThisCycle => base_valid
  BY Window
<1>6. base_valid' \in BOOLEAN
  BY <1>2 DEF NextBaseValid, QueuedValid
<1>7. CASE ThisCycle /\ FromDescriptor # End
  <2>1. TargetKnown(e) /\ Target(e) = FromDescriptor
    BY <1>7, Zenon DEF TargetKnown, Target
  <2>2. NextBaseAddr(e) = FromDescriptor /\ NextBaseValid(e)
    BY <1>5, <1>7, Zenon DEF NextBaseAddr, NextBaseValid
  <2>3. FromDescriptor \in Nat
    BY <1>4, <1>7
  <2> QED BY <1>2, <1>6, <1>7, <2>1, <2>2, <2>3, Zenon
<1>8. CASE ThisCycle /\ FromDescriptor = End
  <2>1. (TargetKnown(e) <=> QueuedValid(e)) /\ Target(e) = Queued(e)
    BY <1>8, Zenon DEF TargetKnown, Target
  <2>2. (QueuedValid(e) => NextBaseAddr(e) = Queued(e)) /\ (~QueuedValid(e) => NextBaseAddr(e) = base_addr)
    BY <1>8, Zenon DEF NextBaseAddr
  <2>3. NextBaseValid(e) <=> QueuedValid(e)
    BY <1>8, Zenon DEF NextBaseValid
  <2> QED BY <1>1, <1>2, <1>4, <1>6, <1>8, <2>1, <2>2, <2>3, Zenon
<1>9. CASE ~ThisCycle /\ base_valid
  <2>1. NextBaseAddr(e) = base_addr /\ NextBaseValid(e)
    BY <1>9, Zenon DEF NextBaseAddr, NextBaseValid
  <2> QED BY <1>1, <1>2, <1>6, <1>9, <2>1, Zenon
<1>10. CASE ~ThisCycle /\ ~base_valid
  <2>1. (QueuedValid(e) => NextBaseAddr(e) = Queued(e)) /\ (~QueuedValid(e) => NextBaseAddr(e) = base_addr)
    BY <1>10, Zenon DEF NextBaseAddr
  <2>2. NextBaseValid(e) <=> QueuedValid(e)
    BY <1>10, Zenon DEF NextBaseValid
  <2> QED BY <1>1, <1>2, <1>4, <1>6, <1>10, <2>1, <2>2, Zenon
<1> QED BY <1>1, <1>7, <1>8, <1>9, <1>10

(* What is sent, in numbers.                                               *)
Sent1(e) == IF LegalPush(e) THEN 1 ELSE 0

(* How many reads are live, and after how many others.                     *)
LEMMA LiveStep ==
    ASSUME IInv, todo \in Seq(Seq(Nat) \ {<<>>}),
           NEW e \in SUBSET Offers, Cycle(e)
    PROVE  /\ ThisCycle /\ Flush(e) => Live' = Sent1(e) /\ Held' + n_to_flush' = Live
           /\ ThisCycle /\ ~Flush(e) => Live' = Live - 1 + Sent1(e) /\ Held' + n_to_flush' = 1
           /\ ThisCycle => ~Pops(e)
           /\ ~ThisCycle => /\ Live' = Live + Sent1(e)
                            /\ Held' + n_to_flush' = (Held + n_to_flush) - (IF Pops(e) THEN 1 ELSE 0)
           /\ n_to_flush' \in 0..NSpeculation /\ Held' \in 0..1
<1> DEFINE A == Len(ars) + Len(legal)
           B == Len(ars') + Len(legal')
           p == IF Pops(e) THEN 1 ELSE 0
<1>1. /\ A \in Nat /\ p \in 0..1 /\ Sent1(e) \in 0..1 /\ Held \in 0..1 /\ n_to_flush \in Nat
      /\ n_to_flush \in 0..NSpeculation /\ NSpeculation \in Nat /\ Len(specq) \in 0..NSpeculation
  BY Lengths DEF IInv, StateTypes, Sent1
<1>2. B = A - p + Sent1(e)
  BY ReadsStep DEF Sent1
<1>3. Live = A - (Held + n_to_flush) /\ Live' = B - (Held' + n_to_flush')
  BY Zenon DEF Live
<1>4. ThisCycle => Held = 0 /\ n_to_flush = 0 /\ Len(specq) = Live - 1 /\ Live = A
  BY Window
<1>5. (Pops(e) => p = 1) /\ (~Pops(e) => p = 0)
  OBVIOUS
<1>6. Flush(e) => ThisCycle
  BY VerdictTime
<1>7. /\ Held' = (IF ThisCycle \/ (Decided /\ ~Pops(e)) THEN 1 ELSE 0)
      /\ Held = (IF Decided THEN 1 ELSE 0)
      /\ ThisCycle => ~Decided /\ ~Pops(e)
      /\ Decided /\ Pops(e) <=> ReqPush(e)
  <2>1. Held' = IF Decided' THEN 1 ELSE 0
    BY DEF Held
  <2> QED BY <2>1, DecidedStep DEF Held
<1> HIDE DEF A, B, p
<1>8. CASE Idles(e) \/ Begins(e) \/ Discards(e) \/ Finishes(e)
  <2>1. ~ThisCycle
    BY <1>8 DEF Idles, Begins, Discards, Finishes, ThisCycle
  <2>2. n_to_flush' \in 0..NSpeculation /\ Held' + n_to_flush' = (Held + n_to_flush) - p
    <3>1. CASE Idles(e)
      <4>1. p = 0 /\ n_to_flush' = n_to_flush /\ Held' = Held
        BY <1>5, <1>7, <2>1, <3>1 DEF Idles
      <4> QED BY <1>1, <4>1
    <3>2. CASE Begins(e)
      <4>1. p = 0 /\ n_to_flush' = 0 /\ n_to_flush = 0 /\ Held' = Held
        BY <1>5, <1>7, <2>1, <3>2 DEF Begins
      <4> QED BY <1>1, <4>1
    <3>3. CASE Discards(e)
      <4>1. n_to_flush' = n_to_flush - p /\ n_to_flush >= 1
        BY <1>1, <1>5, <3>3 DEF Discards
      <4>2. Held = 0 /\ Held' = 0
        BY <1>7, <2>1, <3>3 DEF Discards, Decided
      <4> QED BY <1>1, <4>1, <4>2
    <3>4. CASE Finishes(e)
      <4>1. p = 1 /\ n_to_flush' = n_to_flush /\ Held = 1 /\ Held' = 0
        BY <1>5, <1>7, <2>1, <3>4 DEF Finishes
      <4> QED BY <1>1, <4>1
    <3> QED BY <1>8, <3>1, <3>2, <3>3, <3>4
  <2>3. Held' \in 0..1
    BY <1>7
  <2>4. Live' = Live + Sent1(e)
    <3> DEFINE k == Held + n_to_flush   m == Held' + n_to_flush'
    <3>2. k \in Int /\ m = k - p /\ Live = A - k /\ Live' = (A - p + Sent1(e)) - m
      BY <1>1, <1>2, <1>3, <2>2
    <3> HIDE DEF k, m
    <3> QED BY <1>1, <3>2
  <2> QED BY <2>1, <2>2, <2>3, <2>4 DEF p
<1>9. CASE Pauses(e) \/ Advances(e)
  <2>1. p = 0 /\ ~Pops(e) /\ n_to_flush' = (IF Flush(e) THEN Len(specq) ELSE n_to_flush)
    BY <1>5, <1>9 DEF Pauses, Advances, Stays
  <2>2. Held' \in 0..1 /\ (ThisCycle => Held' = 1) /\ (~ThisCycle => Held' = Held)
    BY <1>7, <2>1
  <2>3. CASE ThisCycle /\ Flush(e)
    <3>1. n_to_flush' = Live - 1 /\ Held' = 1 /\ A = Live /\ n_to_flush' \in 0..NSpeculation
      BY <1>1, <1>4, <2>1, <2>2, <2>3
    <3>2. Live' = Sent1(e) /\ Held' + n_to_flush' = Live
      BY <1>1, <1>2, <1>3, <2>1, <3>1
    <3> QED BY <2>1, <2>2, <2>3, <3>1, <3>2
  <2>4. CASE ThisCycle /\ ~Flush(e)
    <3>1. n_to_flush' = 0 /\ Held' = 1 /\ A = Live
      BY <1>4, <2>1, <2>2, <2>4
    <3>2. Live' = Live - 1 + Sent1(e) /\ Held' + n_to_flush' = 1 /\ n_to_flush' \in 0..NSpeculation
      BY <1>1, <1>2, <1>3, <2>1, <3>1
    <3> QED BY <2>1, <2>2, <2>4, <3>1, <3>2
  <2>5. CASE ~ThisCycle
    <3>1. n_to_flush' = n_to_flush /\ Held' = Held
      BY <1>6, <2>1, <2>2, <2>5
    <3>2. Held' + n_to_flush' = (Held + n_to_flush) - p /\ n_to_flush' \in 0..NSpeculation
      BY ONLY <1>1, <2>1, <3>1
    <3>3. Live' = Live + Sent1(e)
      <4> DEFINE k == Held + n_to_flush   m == Held' + n_to_flush'
      <4>1. k \in Int /\ m = k - p /\ Live = A - k /\ Live' = (A - p + Sent1(e)) - m
        BY ONLY <1>1, <1>2, <1>3, <3>2
      <4> HIDE DEF k, m
      <4> QED BY ONLY <1>1, <4>1
    <3> QED BY <2>2, <2>5, <3>2, <3>3 DEF p
  <2> QED BY <2>3, <2>4, <2>5
<1> QED BY <1>8, <1>9, ReaderTurn

(* The live reads go on lying in a row.                                    *)
LEMMA RowStep ==
    ASSUME IInv, todo \in Seq(Seq(Nat) \ {<<>>}),
           NEW e \in SUBSET Offers, Cycle(e)
    PROVE  /\ Live' \in Nat
           /\ \A k \in 1..Live' : (ars' \o legal')[Held' + n_to_flush' + k] = base_addr' + k - 1
<1> DEFINE q == ars \o legal
           r == ars' \o legal'
           p == IF Pops(e) THEN 1 ELSE 0
           s == Held + n_to_flush
           t == Held' + n_to_flush'
           N == Len(q)
           a == IF Flush(e) THEN Target(e) ELSE Staging.addr
<1>1. /\ Live \in Nat /\ s \in Nat /\ p \in 0..1 /\ Sent1(e) \in 0..1 /\ base_addr \in Nat
      /\ q \in Seq(Nat) /\ N = Live + s
  <2>1. ars \in Seq(Nat) /\ legal \in Seq(Nat)
    BY DEF IInv, StateTypes
  <2>2. q \in Seq(Nat) /\ N = Len(ars) + Len(legal)
    BY <2>1, ConcatProperties
  <2>3. Len(ars) \in Nat /\ Len(legal) \in Nat /\ Held \in 0..1 /\ n_to_flush \in Nat /\ base_addr \in Nat
        /\ Live >= 0
    BY Lengths DEF IInv, RunInv
  <2>4. Live = (Len(ars) + Len(legal)) - (Held + n_to_flush)
    BY DEF Live
  <2> HIDE DEF N
  <2> QED BY <2>2, <2>3, <2>4 DEF Sent1
<1>2. /\ r = Rest(q, Pops(e)) \o Sends(e) /\ Pops(e) \in BOOLEAN
      /\ (Pops(e) => ars # <<>>)
  BY ReadsStep
<1>3. \A k \in 1..Live : q[s + k] = base_addr + k - 1
  BY DEF IInv, RunInv
<1>4. Sends(e) = OneIf(LegalPush(e), a) /\ (LegalPush(e) => a \in Nat)
  <2>1. LegalPush(e) => a \in Nat
    BY SendsType
  <2> QED BY <2>1 DEF Sends
<1>5. t \in Nat /\ (ThisCycle => p = 0 /\ s = 0 /\ Live >= 1)
      /\ n_to_flush' \in Nat
  <2>1. n_to_flush' \in 0..NSpeculation /\ Held' \in 0..1
        /\ (ThisCycle => ~Pops(e))
    BY LiveStep
  <2>2. ThisCycle => Held = 0 /\ n_to_flush = 0 /\ Live >= 1
    BY Window
  <2>3. NSpeculation \in Nat
    BY DescFrontendAssumption
  <2>4. n_to_flush' \in Nat /\ Held' \in 0..1
    BY <2>1, <2>3
  <2>5. ThisCycle => s = 0 /\ p = 0
    BY <2>1, <2>2
  <2>6. t \in Nat
    <3>1. \A a0 \in Nat : \A b \in 0..1 : b + a0 \in Nat
      OBVIOUS
    <3> QED BY <2>4, <3>1, Zenon
  <2> QED BY <2>2, <2>4, <2>5, <2>6, Zenon
<1>6. Pops(e) => q # <<>>
  <2>1. Pops(e) => Len(ars) # 0
    BY <1>2, EmptySeq DEF IInv, StateTypes
  <2>2. N = Len(ars) + Len(legal) /\ Len(ars) \in Nat /\ Len(legal) \in Nat
    BY Lengths, ConcatProperties DEF IInv, StateTypes
  <2>3. Pops(e) => N # 0
    BY <2>1, <2>2
  <2> QED BY <2>3, EmptySeq
<1>7. (Pops(e) => p = 1) /\ (~Pops(e) => p = 0)
  OBVIOUS
<1> HIDE DEF q, r, p, s, t, a
<1>8. Sends(e) = <<>> \/ \E y \in Nat : Sends(e) = <<y>>
  BY <1>4 DEF OneIf
<1>9. r \in Seq(Nat) /\ Advanced(q, r, Pops(e), Sends(e))
  BY <1>1, <1>2, <1>6, <1>8, QueueMoves
<1>10. /\ \A k \in 1..N - p : r[k] = q[k + p]
       /\ LegalPush(e) => r[N - p + 1] = a
  <2>1. PICK d, n \in 0..1 :
        /\ (d = 1 <=> Pops(e)) /\ (n = 1 <=> Sends(e) # <<>>)
        /\ \A k \in 1..Len(q) - d : r[k] = q[k + d]
        /\ n = 1 => r[Len(q) - d + 1] = Head(Sends(e))
    BY <1>9 DEF Advanced
  <2>2. d = p
    BY <1>7, <2>1
  <2>3. LegalPush(e) => n = 1 /\ Head(Sends(e)) = a
    BY <1>4, <2>1 DEF OneIf
  <2> QED BY <2>1, <2>2, <2>3
<1> HIDE DEF N
<1>11. CASE ThisCycle /\ Flush(e)
  <2>1. Live' = Sent1(e) /\ t = Live /\ p = 0 /\ s = 0
    BY <1>5, <1>11, LiveStep DEF t
  <2>2. ASSUME NEW k \in 1..Live' PROVE r[t + k] = base_addr' + k - 1
    <3>1. LegalPush(e) /\ k = 1
      BY <2>1 DEF Sent1
    <3>2. TargetKnown(e) /\ a = Target(e)
      BY <1>11, <3>1 DEF LegalPush, a
    <3>3. base_addr' = a /\ base_addr' \in Nat
      BY <1>11, <3>2, BaseStep
    <3>4. t + k = N - p + 1 /\ base_addr' + k - 1 = base_addr'
      BY <1>1, <2>1, <3>1, <3>3
    <3> QED BY <1>10, <3>1, <3>3, <3>4
  <2>3. Live' \in Nat
    BY <1>1, <2>1
  <2> QED BY <2>2, <2>3 DEF r, t
<1>12. CASE ThisCycle /\ ~Flush(e)
  <2>1. Live' = Live - 1 + Sent1(e) /\ t = 1 /\ p = 0 /\ s = 0 /\ Live >= 1
    BY <1>5, <1>12, LiveStep DEF t
  <2>2. base_addr' = base_addr + 1
    <3>1. ThisCycle /\ CorrectWith(SpecView, e)
      BY <1>12, VerdictTime DEF Flush
    <3>2. TargetKnown(e) /\ Target(e) = base_addr + 1
      BY <3>1, Verdict
    <3> QED BY <1>12, <3>2, BaseStep
  <2>3. ASSUME NEW k \in 1..Live' PROVE r[t + k] = base_addr' + k - 1
    <3>1. CASE k <= Live - 1
      <4>1. t + k \in 1..N - p /\ (t + k) + p = s + (k + 1) /\ k + 1 \in 1..Live
        BY <1>1, <2>1, <3>1
      <4>2. r[t + k] = q[s + (k + 1)]
        BY <1>10, <4>1
      <4>3. q[s + (k + 1)] = base_addr + (k + 1) - 1
        BY <1>3, <4>1
      <4> QED BY <1>1, <2>2, <4>2, <4>3
    <3>2. CASE ~(k <= Live - 1)
      <4>1. LegalPush(e) /\ k = Live /\ t + k = N - p + 1
        BY <1>1, <2>1, <3>2 DEF Sent1
      <4>2. StagingMoves /\ a = Staging.addr
        BY <1>12, <4>1 DEF LegalPush, a
      <4>3. a = base_addr + Live
        BY <4>2, Moving
      <4>4. r[t + k] = base_addr + Live
        BY <1>10, <4>1, <4>3
      <4> QED BY <1>1, <2>2, <4>1, <4>4
    <3> QED BY <3>1, <3>2
  <2>4. Live' \in Nat
    BY <1>1, <2>1
  <2> QED BY <2>3, <2>4 DEF r, t
<1>13. CASE ~ThisCycle
  <2>1. Live' = Live + Sent1(e) /\ t = s - p
    <3>1. Live' = Live + Sent1(e) /\ Held' + n_to_flush' = (Held + n_to_flush) - (IF Pops(e) THEN 1 ELSE 0)
      BY <1>13, LiveStep
    <3> QED BY <3>1, Zenon DEF t, s, p
  <2>2. LegalPush(e) => base_valid /\ a = base_addr + Live
    <3> SUFFICES ASSUME LegalPush(e) PROVE base_valid /\ a = base_addr + Live
      OBVIOUS
    <3>1. ~Flush(e)
      BY <1>13, VerdictTime
    <3>2. StagingMoves /\ a = Staging.addr
      BY <3>1 DEF LegalPush, a
    <3> QED BY <3>2, Moving
  <2>3. ASSUME NEW k \in 1..Live' PROVE r[t + k] = base_addr' + k - 1
    <3>1. base_addr' = base_addr
      <4>1. base_valid
        <5>1. CASE LegalPush(e)
          BY <2>2, <5>1
        <5>2. CASE ~LegalPush(e)
          <6>1. Live > 0
            BY <1>1, <2>1, <5>2 DEF Sent1
          <6>2. inflight # 0
            <7>1. inflight = Live + Len(pending) /\ Len(pending) \in Nat
              BY Lengths DEF IInv, RunInv
            <7> QED BY <1>1, <6>1, <7>1
          <6> QED BY <6>2 DEF IInv, RunInv
        <5> QED BY <5>1, <5>2
      <4> QED BY <1>13, <4>1, BaseStep
    <3>2. CASE k <= Live
      <4>1. t + k \in 1..N - p /\ (t + k) + p = s + k /\ k \in 1..Live
        BY <1>1, <1>5, <2>1, <3>2
      <4>2. r[t + k] = q[s + k]
        BY <1>10, <4>1
      <4> QED BY <1>3, <3>1, <4>1, <4>2
    <3>3. CASE ~(k <= Live)
      <4>1. LegalPush(e) /\ k = Live + 1 /\ t + k = N - p + 1
        BY <1>1, <1>5, <2>1, <3>3 DEF Sent1
      <4>2. r[t + k] = base_addr + Live
        BY <1>10, <2>2, <4>1
      <4> QED BY <1>1, <3>1, <4>1, <4>2
    <3> QED BY <3>2, <3>3
  <2>4. Live' \in Nat
    BY <1>1, <2>1
  <2> QED BY <2>3, <2>4 DEF r, t
<1> QED BY <1>11, <1>12, <1>13

Takes == IF NextArSent THEN 1 ELSE 0
Moves == IF StagingMoves THEN 1 ELSE 0

(* How many reads are in flight, and which of them wait.                   *)
LEMMA FlightStep ==
    ASSUME IInv, NEW e, Cycle(e)
    PROVE  /\ Flush(e) => inflight' = Sent1(e) /\ pending' = <<>>
           /\ Commit(e) => inflight' = inflight + Takes - 1
           /\ ~Flush(e) /\ ~Commit(e) => inflight' = inflight + Takes
           /\ ~Flush(e) => /\ Sent1(e) = Moves
                           /\ pending' \in Seq(ReadRecord)
                           /\ Len(pending') = Len(pending) + Takes - Moves
                           /\ \A k \in 1..Len(pending') :
                                  pending'[k] = [speculative |-> Live + (k + Moves) > 1,
                                                 addr |-> base_addr + Live + (k + Moves) - 1]
<1>1. Flush(e) \in BOOLEAN /\ Commit(e) \in BOOLEAN /\ (Flush(e) => ~Commit(e)) /\ inflight \in Nat
  BY VerdictTime, Lengths DEF IInv
<1>2. inflight' = NextInflight(e)
      /\ pending' = (IF Flush(e) THEN <<>> ELSE Rest(PendingView, StagingMoves))
  BY DEF Cycle, Fetch
<1>3. CASE Flush(e)
  <2>1. NextInflight(e) = Sent1(e)
    BY <1>3 DEF NextInflight, Sent1, One
  <2> QED BY <1>1, <1>2, <1>3, <2>1
<1>4. CASE ~Flush(e)
  <2>1. NextInflight(e) = inflight + Takes - (IF Commit(e) THEN 1 ELSE 0)
    BY <1>4 DEF NextInflight, Takes, One
  <2>2. Takes \in 0..1 /\ Moves \in 0..1
    BY DEF Takes, Moves
  <2>3. (Commit(e) => inflight' = inflight + Takes - 1) /\ (~Commit(e) => inflight' = inflight + Takes)
    BY <1>1, <1>2, <2>1, <2>2
  <2>4. Sent1(e) = Moves
    BY <1>4 DEF Sent1, Moves, LegalPush
  <2> DEFINE W(k) == [speculative |-> Live + k > 1, addr |-> base_addr + Live + k - 1]
  <2>5. /\ PendingView \in Seq(ReadRecord) /\ Len(PendingView) = Len(pending) + Takes
        /\ \A k \in 1..Len(PendingView) : PendingView[k] = W(k)
    BY Waiting DEF Takes
  <2>6. Len(pending) \in Nat
    BY Lengths DEF IInv
  <2> HIDE DEF W
  <2>7. /\ pending' \in Seq(ReadRecord) /\ Len(pending') = Len(PendingView) - Moves
        /\ \A k \in 1..Len(pending') : pending'[k] = PendingView[k + Moves]
    <3>1. CASE StagingMoves
      <4>1. PendingView # <<>>
        BY <3>1, Moving
      <4>2. Moves = 1 /\ pending' = Tail(PendingView)
        BY <1>2, <1>4, <3>1 DEF Rest, Moves
      <4> QED BY <2>5, <4>1, <4>2, HeadTailProperties
    <3>2. CASE ~StagingMoves
      <4>1. Moves = 0 /\ pending' = PendingView
        BY <1>2, <1>4, <3>2 DEF Rest, Moves
      <4>2. Len(PendingView) \in Nat
        BY <2>2, <2>5, <2>6
      <4> QED BY <2>5, <4>1, <4>2
    <3> QED BY <3>1, <3>2
  <2>8. ASSUME NEW k \in 1..Len(pending') PROVE pending'[k] = W(k + Moves)
    <3>1. k + Moves \in 1..Len(PendingView)
      BY <2>2, <2>5, <2>6, <2>7
    <3> QED BY <2>5, <2>7, <3>1
  <2>9. Len(pending') = Len(pending) + Takes - Moves
    BY <2>2, <2>5, <2>6, <2>7
  <2> QED BY <1>4, <2>3, <2>4, <2>7, <2>8, <2>9 DEF W
<1> QED BY <1>1, <1>3, <1>4

(* The generator's part of the invariant is kept.                          *)
LEMMA RunStep ==
    ASSUME IInv, todo \in Seq(Seq(Nat) \ {<<>>}),
           NEW e \in SUBSET Offers, Cycle(e)
    PROVE  RunInv' /\ inflight' \in 0..NSpeculation /\ pending' \in Seq(ReadRecord)
<1>1. /\ Live \in Nat /\ Len(pending) \in Nat /\ inflight = Live + Len(pending) /\ base_addr \in Nat
      /\ inflight \in 0..NSpeculation /\ NSpeculation \in Nat \ {0, 1} /\ Takes \in 0..1 /\ Moves \in 0..1
      /\ Sent1(e) \in 0..1
  BY Lengths DEF IInv, StateTypes, RunInv, Takes, Moves, Sent1
<1>2. Live' \in Nat /\ \A k \in 1..Live' : (ars' \o legal')[Held' + n_to_flush' + k] = base_addr' + k - 1
  BY RowStep
<1>3. flush_q' <=> Flush(e)
  BY VerdictTime DEF Cycle, Fetch
<1>4. Takes = 1 => base_valid /\ inflight < NSpeculation
  BY Waiting DEF Takes
<1>5. Moves = 1 => base_valid
  BY Moving DEF Moves
<1>6. base_valid' \in BOOLEAN /\ base_addr' \in Nat /\ base_valid \in BOOLEAN
  BY BaseStep DEF IInv, StateTypes
<1> DEFINE Parts == /\ inflight' = Live' + Len(pending') /\ inflight' \in 0..NSpeculation
                    /\ pending' \in Seq(ReadRecord)
                    /\ \A k \in 1..Len(pending') :
                           pending'[k] = [speculative |-> Live' + k > 1, addr |-> base_addr' + Live' + k - 1]
                    /\ (flush_q' => inflight' <= 1 /\ pending' = <<>>)
                    /\ (~base_valid' => inflight' = 0)
<1>7. ASSUME Flush(e) PROVE Parts
  <2>1. ThisCycle
    BY <1>7, VerdictTime
  <2>2. Live' = Sent1(e) /\ inflight' = Sent1(e) /\ pending' = <<>>
    BY <1>7, <2>1, LiveStep, FlightStep
  <2>3. pending' \in Seq(ReadRecord) /\ Len(pending') = 0
    BY <2>2, EmptySeq
  <2>4. ~base_valid' => Sent1(e) = 0
    <3>1. ~base_valid' => ~TargetKnown(e)
      BY <2>1, BaseStep
    <3> QED BY <1>7, <3>1 DEF Sent1, LegalPush
  <2>5. inflight' = Live' + Len(pending') /\ inflight' \in 0..NSpeculation /\ inflight' <= 1
    BY <1>1, <2>2, <2>3
  <2>6. \A k \in 1..Len(pending') : FALSE
    BY <2>3
  <2>7. Parts
    BY <2>2, <2>3, <2>4, <2>5, <2>6
  <2> QED BY <2>7
<1>8. ASSUME ~Flush(e) /\ ThisCycle PROVE Parts
  <2>1. ThisCycle /\ Commit(e) /\ TargetKnown(e) /\ Target(e) = base_addr + 1
    <3>1. ThisCycle /\ CorrectWith(SpecView, e)
      BY <1>8, VerdictTime DEF Flush
    <3> QED BY <1>8, <3>1, Verdict, VerdictTime
  <2>2. Live >= 1
    BY <1>8, Window
  <2>3. Live' = Live - 1 + Moves /\ inflight' = inflight + Takes - 1 /\ pending' \in Seq(ReadRecord)
        /\ Len(pending') = Len(pending) + Takes - Moves
    BY <1>8, <2>1, LiveStep, FlightStep
  <2>4. base_valid' /\ base_addr' = base_addr + 1
    BY <1>8, <2>1, BaseStep
  <2>5. inflight' = Live' + Len(pending') /\ inflight' \in 0..NSpeculation
    BY <1>1, <1>4, <2>2, <2>3
  <2>6. ASSUME NEW k \in 1..Len(pending')
        PROVE  pending'[k] = [speculative |-> Live' + k > 1, addr |-> base_addr' + Live' + k - 1]
    <3>1. pending'[k] = [speculative |-> Live + (k + Moves) > 1, addr |-> base_addr + Live + (k + Moves) - 1]
      BY <1>8, FlightStep
    <3>2. base_addr + Live + (k + Moves) - 1 = base_addr' + Live' + k - 1
      BY <1>1, <2>2, <2>3, <2>4
    <3>3. Live + Moves > 1
      <4> SUFFICES ASSUME ~(Live + Moves > 1) PROVE FALSE
        OBVIOUS
      <4>1. Live = 1 /\ Moves = 0 /\ ~StagingMoves
        BY <1>1, <2>2 DEF Moves
      <4>2. SpecView = <<>>
        <5>1. ~flush_q
          BY <1>8, Window
        <5>2. SpecView \in Seq(Nat) /\ Guesses(SpecView, Live + 0)
          BY <4>1, <5>1, GuessesNow
        <5>3. Len(SpecView) = 0
          BY <4>1, <5>2 DEF Guesses
        <5> QED BY <5>2, <5>3, EmptySeq
      <4>3. ~NextArSent /\ pending = <<>>
        BY <2>1, <4>2, Verdict
      <4>4. Takes = 0 /\ Len(pending) = 0
        BY <4>3, EmptySeq DEF Takes
      <4> QED BY <2>3, <4>1, <4>4
    <3>4. (Live + (k + Moves) > 1) = TRUE /\ (Live' + k > 1) = TRUE
      <4>1. k \in Nat /\ k >= 1
        <5>1. Len(pending') \in Nat
          BY <2>3, LenProperties
        <5> QED BY <5>1
      <4> QED BY <1>1, <2>2, <2>3, <3>3, <4>1
    <3> QED BY <3>1, <3>2, <3>4, Zenon
  <2>7. ~flush_q'
    BY <1>3, <1>8
  <2>8. Parts
    BY <2>3, <2>4, <2>5, <2>6, <2>7
  <2> QED BY <2>8
<1>9. ASSUME ~ThisCycle PROVE Parts
  <2>1. ~Flush(e) /\ ~Commit(e)
    BY <1>9, VerdictTime
  <2>2. Live' = Live + Moves /\ inflight' = inflight + Takes /\ pending' \in Seq(ReadRecord)
        /\ Len(pending') = Len(pending) + Takes - Moves
    BY <1>9, <2>1, LiveStep, FlightStep
  <2>3. base_valid => base_valid' /\ base_addr' = base_addr
    BY <1>9, BaseStep
  <2>4. ~base_valid => inflight' = 0 /\ Len(pending') = 0
    <3> SUFFICES ASSUME ~base_valid PROVE inflight' = 0 /\ Len(pending') = 0
      OBVIOUS
    <3>1. inflight = 0 /\ Takes = 0 /\ Moves = 0
      BY <1>1, <1>4, <1>5 DEF IInv, RunInv
    <3> QED BY <1>1, <2>2, <3>1
  <2>5. inflight' = Live' + Len(pending') /\ inflight' \in 0..NSpeculation
    BY <1>1, <1>4, <2>2
  <2>6. ASSUME NEW k \in 1..Len(pending')
        PROVE  pending'[k] = [speculative |-> Live' + k > 1, addr |-> base_addr' + Live' + k - 1]
    <3>1. pending'[k] = [speculative |-> Live + (k + Moves) > 1, addr |-> base_addr + Live + (k + Moves) - 1]
      BY <2>1, FlightStep
    <3>2. base_addr' = base_addr
      BY <1>6, <2>3, <2>4
    <3>3. k \in Nat
      <4>1. Len(pending') \in Nat
        BY <2>2, LenProperties
      <4> QED BY <4>1
    <3>4. base_addr + Live + (k + Moves) - 1 = base_addr' + Live' + k - 1
      BY <1>1, <2>2, <3>2, <3>3
    <3>5. (Live + (k + Moves) > 1) = (Live' + k > 1)
      <4>1. Live + (k + Moves) = Live' + k
        BY <1>1, <2>2, <3>3
      <4> QED BY <4>1
    <3> QED BY <3>1, <3>4, <3>5, Zenon
  <2>7. ~flush_q' /\ (~base_valid' => inflight' = 0)
    BY <1>3, <1>6, <2>1, <2>3, <2>4
  <2>8. Parts
    BY <2>2, <2>5, <2>6, <2>7
  <2> QED BY <2>8
<1>10. Parts
  <2> HIDE DEF Parts
  <2> QED BY <1>7, <1>8, <1>9
<1>11. Live' >= 0
  BY <1>2
<1> QED BY <1>2, <1>10, <1>11, Zenon DEF RunInv

(* So is what it says of the guesses.                                      *)
LEMMA GuessStep ==
    ASSUME IInv, todo \in Seq(Seq(Nat) \ {<<>>}),
           NEW e \in SUBSET Offers, Cycle(e)
    PROVE  GuessInv' /\ specq' \in Seq(Nat) /\ Len(specq') <= NSpeculation
<1>1. /\ Live \in Nat /\ Len(pending) \in Nat /\ inflight = Live + Len(pending) /\ base_addr \in Nat
      /\ NSpeculation \in Nat \ {0, 1} /\ Moves \in 0..1 /\ specq \in Seq(Nat)
      /\ Len(specq) <= NSpeculation /\ (flush_q => inflight <= 1)
  BY Lengths DEF IInv, StateTypes, RunInv, Moves
<1>2. /\ flush_q' <=> Flush(e)
      /\ specq' = (IF flush_q THEN <<>> ELSE IF Flush(e) THEN specq
                   ELSE Rest(SpecView, Commit(e) /\ SpecView # <<>>))
  BY VerdictTime DEF Cycle, Fetch
<1>3. Live' \in Nat /\ inflight' = Live' + Len(pending') /\ inflight' \in 0..NSpeculation
      /\ Len(pending') \in Nat /\ base_addr' \in Nat
  <2>1. RunInv' /\ inflight' \in 0..NSpeculation /\ pending' \in Seq(ReadRecord) /\ Live' \in Nat
        /\ base_addr' \in Nat
    BY RunStep, RowStep, BaseStep
  <2>2. inflight' = Live' + Len(pending')
    BY <2>1 DEF RunInv
  <2> QED BY <2>1, <2>2, LenProperties
<1> DEFINE Good(q, live, base) == /\ q \in Seq(Nat) /\ Len(q) = (IF live > 0 THEN live - 1 ELSE 0)
                                  /\ \A k \in 1..Len(q) : q[k] = base + k
<1>4. \A q, live : Guesses(q, live) /\ q \in Seq(Nat) => Good(q, live, base_addr)
  BY DEF Guesses
<1>5. ~Flush(e) => Good(specq', Live', base_addr')
  <2> SUFFICES ASSUME ~Flush(e) PROVE Good(specq', Live', base_addr')
    OBVIOUS
  <2>1. CASE flush_q
    <3>1. ~ThisCycle
      BY <2>1 DEF IInv, ReaderInv, ThisCycle
    <3>2. Live' = Live + Moves
      BY <3>1, LiveStep, FlightStep
    <3>3. Moves = 1 => Live = 0
      BY <2>1, Moving DEF Moves
    <3>4. Live' <= 1
      BY <1>1, <2>1, <3>2, <3>3
    <3>5. specq' = <<>> /\ Len(specq') = 0
      BY <1>2, <2>1, EmptySeq
    <3>6. (IF Live' > 0 THEN Live' - 1 ELSE 0) = 0
      BY <1>3, <3>4
    <3> QED BY <3>5, <3>6, EmptySeq
  <2>2. CASE ~flush_q /\ ~ThisCycle
    <3>1. specq' = SpecView
      <4>1. ~Commit(e)
        BY <2>2, VerdictTime
      <4> QED BY <1>2, <2>2, <4>1 DEF Rest
    <3>2. Live' = Live + Moves
      BY <2>2, LiveStep, FlightStep
    <3>3. SpecView \in Seq(Nat) /\ Guesses(SpecView, Live + Moves)
      BY <2>2, GuessesNow DEF Moves
    <3>4. Good(SpecView, Live', base_addr)
      BY <1>4, <3>2, <3>3
    <3>5. CASE base_valid
      <4>1. base_addr' = base_addr
        BY <2>2, <3>5, BaseStep
      <4> QED BY <3>1, <3>4, <4>1
    <3>6. CASE ~base_valid
      <4>1. inflight = 0
        BY <3>6 DEF IInv, RunInv
      <4>2. Live = 0 /\ Moves = 0
        BY <1>1, <3>6, <4>1, Moving DEF Moves
      <4>3. Len(SpecView) = 0
        BY <1>1, <3>2, <3>4, <4>2
      <4>4. \A k \in 1..Len(SpecView) : FALSE
        BY <4>3
      <4> QED BY <3>1, <3>4, <4>4
    <3> QED BY <3>5, <3>6
  <2>3. CASE ThisCycle
    <3>1. ThisCycle /\ Commit(e) /\ TargetKnown(e) /\ Target(e) = base_addr + 1 /\ ~flush_q
      <4>1. ThisCycle /\ CorrectWith(SpecView, e)
        BY <2>3, VerdictTime DEF Flush
      <4> QED BY <2>3, <4>1, Verdict, VerdictTime, Window
    <3>2. base_addr' = base_addr + 1
      BY <2>3, <3>1, BaseStep
    <3>3. Live >= 1 /\ Live' = Live - 1 + Moves
      BY <2>3, Window, LiveStep, FlightStep
    <3>4. SpecView \in Seq(Nat) /\ Good(SpecView, Live + Moves, base_addr)
      <4>1. SpecView \in Seq(Nat) /\ Guesses(SpecView, Live + Moves)
        BY <3>1, GuessesNow DEF Moves
      <4> QED BY <1>4, <4>1
    <3>5. Len(SpecView) = Live'
      <4>1. Live + Moves > 0 /\ (Live + Moves) - 1 = Live'
        BY <1>1, <3>3
      <4> QED BY <3>4, <4>1
    <3>6. CASE SpecView # <<>>
      <4>1. specq' = Tail(SpecView)
        BY <1>2, <3>1, <3>6, <2>3, VerdictTime DEF Rest
      <4>2. /\ Tail(SpecView) \in Seq(Nat) /\ Len(Tail(SpecView)) = Len(SpecView) - 1
            /\ \A k \in 1..Len(Tail(SpecView)) : Tail(SpecView)[k] = SpecView[k + 1]
        BY <3>4, <3>6, HeadTailProperties
      <4>3. Live' > 0
        BY <1>3, <3>4, <3>5, <3>6, EmptySeq
      <4>4. ASSUME NEW k \in 1..Len(specq') PROVE specq'[k] = base_addr' + k
        <5>1. k + 1 \in 1..Len(SpecView) /\ k \in Nat
          BY <1>3, <3>5, <4>1, <4>2
        <5>2. specq'[k] = base_addr + (k + 1)
          BY <3>4, <4>1, <4>2, <5>1
        <5> QED BY <1>1, <3>2, <5>1, <5>2
      <4>5. Len(specq') = Live' - 1
        BY <3>5, <4>1, <4>2
      <4> QED BY <4>1, <4>2, <4>3, <4>4, <4>5
    <3>7. CASE SpecView = <<>>
      <4>1. specq' = <<>>
        BY <1>2, <3>1, <3>7, <2>3, VerdictTime DEF Rest
      <4>2. Live' = 0 /\ Len(specq') = 0
        BY <3>5, <3>7, <4>1, EmptySeq
      <4>3. \A k \in 1..Len(specq') : FALSE
        BY <4>2
      <4> QED BY <4>1, <4>2, <4>3, EmptySeq
    <3> QED BY <3>6, <3>7
  <2> QED BY <2>1, <2>2, <2>3
<1>6. specq' \in Seq(Nat) /\ Len(specq') <= NSpeculation
  <2>1. CASE Flush(e)
    <3>1. specq' = specq
      <4>1. ~flush_q
        BY <2>1, VerdictTime, Window
      <4> QED BY <1>2, <2>1, <4>1
    <3> QED BY <1>1, <3>1
  <2>2. CASE ~Flush(e)
    <3>1. specq' \in Seq(Nat) /\ Len(specq') = (IF Live' > 0 THEN Live' - 1 ELSE 0)
      BY <1>5, <2>2
    <3>2. (IF Live' > 0 THEN Live' - 1 ELSE 0) <= NSpeculation
      <4>1. \A n, i, p, N \in Nat : i = n + p /\ i <= N => (IF n > 0 THEN n - 1 ELSE 0) <= N
        OBVIOUS
      <4>2. inflight' \in Nat /\ inflight' <= NSpeculation /\ NSpeculation \in Nat
        BY <1>1, <1>3
      <4> QED BY <1>3, <4>1, <4>2, Zenon
    <3> QED BY <3>1, <3>2
  <2> QED BY <2>1, <2>2
<1>7. ASSUME ThisCycle', specq' = <<>> PROVE pending' = <<>>
  <2>1. fetch_counter = 1 /\ ~ThisCycle
    BY <1>7, DecidedStep DEF ThisCycle
  <2>2. ~Flush(e) /\ ~Commit(e) /\ ~flush_q /\ Live >= 1 /\ (Live = 1 => legal = <<>>)
    BY <2>1, VerdictTime, Window
  <2>3. Live' = Live + Moves
    BY <2>1, <2>2, LiveStep, FlightStep
  <2>4. Live' > 0 /\ Len(specq') = 0
    BY <1>1, <1>7, <2>2, <2>3, EmptySeq
  <2>5. Live' - 1 = 0
    BY <1>5, <2>2, <2>4
  <2>6. Live = 1 /\ ~StagingMoves
    BY <1>1, <2>2, <2>3, <2>5 DEF Moves
  <2>7. SpecReady
    <3>1. Len(specq) = 0
      BY <2>1, <2>6, Window
    <3> QED BY <1>1, <2>2, <3>1 DEF SpecReady
  <2>8. PendingView = <<>>
    BY <2>2, <2>6, <2>7 DEF StagingMoves, LegalReady
  <2>9. pending' = PendingView
    BY <2>2, <2>6 DEF Cycle, Fetch, Rest
  <2> QED BY <2>8, <2>9
<1>8. ~flush_q' => Guesses(specq, Live)'
  BY <1>2, <1>5 DEF Guesses
<1> QED BY <1>6, <1>7, <1>8 DEF GuessInv

(* And every read in flight still has its slot.                            *)
LEMMA SlotStep ==
    ASSUME IInv, todo \in Seq(Seq(Nat) \ {<<>>}),
           NEW e \in SUBSET Offers, Cycle(e)
    PROVE  SlotInv' /\ reqs' \in Seq(Nat) /\ Len(reqs') <= PendingFifoDepth
<1> DEFINE R == Len(reqs)
           R2 == Len(reqs')
           f == IF fetch_counter # 0 THEN 1 ELSE 0
           g == IF ReqPush(e) THEN 1 ELSE 0
<1>1. /\ R \in Nat /\ Held \in 0..1 /\ inflight \in Nat /\ PendingFifoDepth \in Nat
      /\ R + Held + inflight <= PendingFifoDepth
      /\ Takes \in 0..1 /\ Sent1(e) \in 0..1 /\ reqs \in Seq(Nat) /\ fetch_counter \in 0..3
  BY Lengths DEF IInv, SlotInv, StateTypes, Takes, Sent1
<1>2. /\ Takes = 1 => R + f + inflight < PendingFifoDepth
      /\ inflight' \in Nat
  <2>1. inflight' \in 0..NSpeculation /\ NSpeculation \in Nat
    BY RunStep, DescFrontendAssumption
  <2> QED BY <2>1, Waiting DEF Takes
<1>3. /\ Decided /\ Pops(e) <=> ReqPush(e)
      /\ ThisCycle => ~Decided /\ ~Pops(e)
      /\ Decided \/ ThisCycle => fetch_counter # 0
  BY DecidedStep DEF Decided, ThisCycle
<1>4. reqs' \in Seq(Nat) /\ R2 <= R + g /\ R2 \in Nat
  <2> DEFINE x == OneIf(ReqPush(e), Head(ars))   pop == ReqSent(e)
  <2>1. reqs' = Rest(reqs, pop) \o x
    BY DEF Cycle, Report
  <2>2. pop \in BOOLEAN /\ (pop => reqs # <<>>)
    BY DEF ReqSent
  <2>3. ReqPush(e) => Head(ars) \in Nat
    <3>1. ReqPush(e) => ars # <<>> /\ ars \in Seq(Nat)
      BY DEF ReqPush, GatedValid, RValid, IInv, StateTypes
    <3> QED BY <3>1, HeadTailProperties
  <2>4. x = <<>> \/ \E y \in Nat : x = <<y>>
    BY <2>3 DEF OneIf
  <2>5. ~ReqPush(e) => x = <<>>
    BY DEF OneIf
  <2> HIDE DEF x, pop
  <2>6. reqs' \in Seq(Nat) /\ Len(reqs') = Len(reqs) - One(pop) + Len(x)
    BY <1>1, <2>1, <2>2, <2>4, QueueLength
  <2>7. Len(x) \in Nat /\ Len(x) <= 1 /\ (x = <<>> => Len(x) = 0)
    BY <2>4, PushedQueue
  <2>8. One(pop) \in 0..1 /\ Len(x) <= g
    BY <2>5, <2>7 DEF One
  <2>9. R2 = R - One(pop) + Len(x)
    BY <2>6
  <2>10. R2 \in Nat
    BY <2>6, LenProperties
  <2> HIDE DEF R, R2, g
  <2> QED BY <1>1, <2>6, <2>7, <2>8, <2>9, <2>10 DEF g
<1>5. Held' = (IF ThisCycle \/ (Decided /\ ~Pops(e)) THEN 1 ELSE 0) /\ Held = (IF Decided THEN 1 ELSE 0)
  <2>1. Held' = IF Decided' THEN 1 ELSE 0
    BY DEF Held
  <2> QED BY <2>1, DecidedStep DEF Held
<1>6. /\ Flush(e) => inflight' = Sent1(e)
      /\ Commit(e) => inflight' = inflight + Takes - 1
      /\ ~Flush(e) /\ ~Commit(e) => inflight' = inflight + Takes
  BY FlightStep
<1>7. ThisCycle => inflight >= 1
  BY Window
<1>8. Flush(e) /\ Sent1(e) = 1 => R + 1 + 1 <= PendingFifoDepth
  <2> SUFFICES ASSUME Flush(e), Sent1(e) = 1 PROVE R + 1 + 1 <= PendingFifoDepth
    OBVIOUS
  <2>1. AvailableSlots > 0 /\ fetch_counter = 2
    BY VerdictTime DEF Sent1, LegalPush, ThisCycle
  <2>2. R # PendingFifoDepth
    <3>1. R = PendingFifoDepth => AvailableSlots = 0
      BY DEF AvailableSlots
    <3> QED BY <2>1, <3>1
  <2>3. AvailableSlots = PendingFifoDepth - R - 1
    BY <2>1, <2>2 DEF AvailableSlots
  <2> HIDE DEF R
  <2> QED BY <1>1, <2>1, <2>3
<1> HIDE DEF R, R2
<1>9. R2 + Held' + inflight' <= PendingFifoDepth
  <2>1. CASE ThisCycle /\ Flush(e)
    <3>1. g = 0 /\ Held' = 1 /\ inflight' = Sent1(e) /\ inflight >= 1
      BY <1>3, <1>5, <1>6, <1>7, <2>1
    <3> HIDE DEF g
    <3> QED BY <1>1, <1>4, <1>8, <2>1, <3>1
  <2>2. CASE ThisCycle /\ ~Flush(e)
    <3>1. g = 0 /\ f = 1 /\ Held' = 1 /\ inflight' = inflight + Takes - 1 /\ inflight >= 1 /\ Held = 0
      BY <1>3, <1>5, <1>6, <1>7, <2>2, VerdictTime
    <3> HIDE DEF f, g
    <3> QED BY <1>1, <1>2, <1>4, <3>1
  <2>3. CASE ~ThisCycle /\ Decided
    <3>1. f = 1 /\ g \in 0..1 /\ Held' = 1 - g /\ inflight' = inflight + Takes /\ Held = 1
      BY <1>3, <1>5, <1>6, <2>3, VerdictTime
    <3> HIDE DEF f, g
    <3> QED BY <1>1, <1>2, <1>4, <3>1
  <2>4. CASE ~ThisCycle /\ ~Decided
    <3>1. g = 0 /\ f \in 0..1 /\ Held' = 0 /\ inflight' = inflight + Takes /\ Held = 0
      BY <1>3, <1>5, <1>6, <2>4, VerdictTime
    <3> HIDE DEF f, g
    <3> QED BY <1>1, <1>2, <1>4, <3>1
  <2> QED BY <2>1, <2>2, <2>3, <2>4
<1>10. Held' \in 0..1
  BY <1>5
<1>11. R2 <= PendingFifoDepth
  <2>1. \A n, p, i, N \in Nat : n + p + i <= N => n <= N
    OBVIOUS
  <2>2. Held' \in Nat
    BY <1>10
  <2> QED BY <1>1, <1>2, <1>4, <1>9, <2>1, <2>2, Zenon
<1> QED BY <1>4, <1>9, <1>11 DEF SlotInv, R2

----------------------------------------------------------------------------
(* What a cycle does to the queues that must stay in lockstep. *)

(* What a queue is that loses its head and takes that of another.          *)
LEMMA HandType ==
    ASSUME NEW S, NEW q \in Seq(S), NEW r \in Seq(S),
           NEW pop \in BOOLEAN, pop => q # <<>>, NEW hand \in BOOLEAN, hand => r # <<>>
    PROVE  Rest(q, pop) \o OneIf(hand, Head(r)) \in Seq(S)
<1>1. Rest(q, pop) \in Seq(S)
  BY RestType
<1>2. OneIf(hand, Head(r)) \in Seq(S)
  <2>1. CASE hand
    <3>1. Head(r) \in S
      BY <2>1, HeadTailProperties
    <3>2. OneIf(hand, Head(r)) = <<Head(r)>>
      BY <2>1 DEF OneIf
    <3>3. \A y \in S : <<y>> \in Seq(S)
      OBVIOUS
    <3> QED BY <3>1, <3>2, <3>3, Zenon
  <2>2. CASE ~hand
    BY <2>2, EmptySeq DEF OneIf
  <2> QED BY <2>1, <2>2
<1> QED BY <1>1, <1>2, ConcatProperties

(* The head of a queue is that of all that begins with it.                 *)
LEMMA HeadOfConcat ==
    ASSUME NEW S, NEW q \in Seq(S), NEW r \in Seq(S), q # <<>>
    PROVE  q \o r # <<>> /\ Head(q \o r) = Head(q)
<1> DEFINE c == q \o r
<1>1. Len(q) \in Nat \ {0} /\ Len(r) \in Nat
  BY EmptySeq, LenProperties
<1>2. /\ c \in Seq(S) /\ Len(c) = Len(q) + Len(r)
      /\ \A i \in 1..Len(q) + Len(r) : c[i] = IF i <= Len(q) THEN q[i] ELSE r[i - Len(q)]
  BY ConcatProperties
<1> HIDE DEF c
<1>3. 1 \in 1..Len(q) + Len(r) /\ 1 <= Len(q)
  BY <1>1
<1>4. c[1] = q[1]
  BY <1>2, <1>3
<1>5. c # <<>>
  BY <1>1, <1>2, EmptySeq
<1>6. Head(c) = c[1] /\ Head(q) = q[1]
  OBVIOUS
<1> QED BY <1>4, <1>5, <1>6 DEF c

(* Parts of the queues are sequences of addresses.                         *)
LEMMA PartTypes ==
    ASSUME IInv
    PROVE  Read1 \in Seq(Nat) /\ Read2 \in Seq(Nat) /\ Flagged \in Seq(Nat)
<1>1. ars \in Seq(Nat) /\ base_addr \in Nat /\ fetch_counter \in 0..3
  BY Lengths DEF IInv, StateTypes
<1>2. fetch_counter # 0 => Head(ars) \in Nat
  BY <1>1, HeadTailProperties DEF IInv, ReaderInv
<1>3. <<>> \in Seq(Nat) /\ \A x \in Nat : <<x>> \in Seq(Nat)
  OBVIOUS
<1>4. Decided \/ fetch_counter > 1 => fetch_counter # 0
  BY <1>1 DEF Decided
<1> QED BY <1>1, <1>2, <1>3, <1>4, Zenon DEF Read1, Read2, Flagged, OneIf

(* The request the reader hands over.                                      *)
NewReq(e) == OneIf(ReqPush(e), Head(ars))

(* What becomes certain follows what was: the base address, when its first *)
(* read is sent or its guess confirmed.                                    *)
LEMMA FeedbackStep ==
    ASSUME IInv, todo \in Seq(Seq(Nat) \ {<<>>}),
           NEW e \in SUBSET Offers, Cycle(e)
    PROVE  /\ ~ThisCycle => Feedback(e) = (IF Live = 0 /\ Live' > 0 THEN <<base_addr>> ELSE <<>>)
           /\ ThisCycle => Feedback(e) = Read2'
           /\ Live > 0 /\ ~ThisCycle => base_addr' = base_addr
           /\ Live' > 0 /\ ~ThisCycle => base_addr' = base_addr
           /\ Feedback(e) \in Seq(Nat) /\ Len(Feedback(e)) <= 1
<1>1. /\ Live \in Nat /\ Len(pending) \in Nat /\ inflight = Live + Len(pending) /\ base_addr \in Nat
      /\ Sent1(e) \in 0..1 /\ (Sent1(e) = 1 <=> LegalPush(e)) /\ Moves \in 0..1
  BY Lengths DEF IInv, StateTypes, RunInv, Sent1, Moves
<1>2. ASSUME ~ThisCycle
      PROVE  /\ Feedback(e) = (IF Live = 0 /\ Live' > 0 THEN <<base_addr>> ELSE <<>>)
             /\ Live > 0 \/ Live' > 0 => base_addr' = base_addr
  <2>1. ~Flush(e) /\ ~Commit(e)
    BY <1>2, VerdictTime
  <2>2. Live' = Live + Sent1(e)
    BY <1>2, LiveStep
  <2>3. LegalPush(e) => base_valid /\ Staging.addr = base_addr + Live /\ (Staging.speculative <=> Live > 0)
    BY <2>1, Moving DEF LegalPush
  <2>4. Feedback(e) = (IF LegalPush(e) /\ ~Staging.speculative THEN <<Staging.addr>> ELSE <<>>)
    BY <2>1, Zenon DEF Feedback, OneIf
  <2>5. Live = 0 /\ Live' > 0 <=> LegalPush(e) /\ ~(Live > 0)
    BY <1>1, <2>2
  <2>6. CASE LegalPush(e) /\ ~(Live > 0)
    <3>1. Feedback(e) = <<Staging.addr>>
      BY <2>3, <2>4, <2>6, Zenon
    <3>2. Staging.addr = base_addr + 0 /\ base_addr + 0 = base_addr
      BY <1>1, <2>3, <2>6
    <3>3. base_addr' = base_addr
      BY <1>2, <2>3, <2>6, BaseStep
    <3> QED BY <2>5, <2>6, <3>1, <3>2, <3>3, Zenon
  <2>7. CASE ~(LegalPush(e) /\ ~(Live > 0))
    <3>1. Feedback(e) = <<>>
      BY <2>3, <2>4, <2>7, Zenon
    <3>2. Live > 0 \/ Live' > 0 => base_valid
      <4>1. Live > 0 => inflight # 0
        BY <1>1
      <4>2. Live > 0 => base_valid
        BY <4>1 DEF IInv, RunInv
      <4>3. Live' > 0 => Live > 0
        BY <1>1, <2>2, <2>7
      <4> QED BY <4>2, <4>3
    <3>3. Live > 0 \/ Live' > 0 => base_addr' = base_addr
      BY <1>2, <3>2, BaseStep
    <3> QED BY <2>5, <2>7, <3>1, <3>3, Zenon
  <2> QED BY <2>6, <2>7
<1>3. ASSUME ThisCycle PROVE Feedback(e) = Read2'
  <2>1. CASE Flush(e)
    <3>1. Live' = Sent1(e) /\ (LegalPush(e) => base_addr' = Target(e))
      BY <1>3, <2>1, LiveStep, BaseStep DEF LegalPush
    <3>2. Feedback(e) = (IF LegalPush(e) THEN <<Target(e)>> ELSE <<>>)
      BY <2>1, Zenon DEF Feedback, OneIf
    <3>3. Live' > 0 <=> LegalPush(e)
      BY <1>1, <3>1
    <3>4. Read2' = (IF Live' > 0 THEN <<base_addr'>> ELSE <<>>)
      BY DEF Read2, OneIf
    <3> QED BY <3>1, <3>2, <3>3, <3>4, Zenon
  <2>2. CASE ~Flush(e)
    <3>1. ThisCycle /\ Commit(e) /\ TargetKnown(e) /\ Target(e) = base_addr + 1
      <4>1. ThisCycle /\ CorrectWith(SpecView, e)
        BY <1>3, <2>2, VerdictTime DEF Flush
      <4> QED BY <1>3, <2>2, <4>1, Verdict, VerdictTime
    <3>2. base_addr' = base_addr + 1
      BY <1>3, <3>1, BaseStep
    <3>3. Live >= 1 /\ Live' = Live - 1 + Moves /\ ~flush_q
      BY <1>3, <2>2, Window, LiveStep, FlightStep
    <3>4. SpecView \in Seq(Nat) /\ Guesses(SpecView, Live + Moves)
      BY <3>3, GuessesNow DEF Moves
    <3>5. Len(SpecView) = Live'
      <4>1. Live + Moves > 0 /\ (Live + Moves) - 1 = Live'
        BY <1>1, <3>3
      <4> QED BY <3>4, <4>1 DEF Guesses
    <3>6. Live' > 0 <=> SpecView # <<>>
      BY <1>1, <3>3, <3>4, <3>5, EmptySeq
    <3>7. ~(LegalPush(e) /\ ~Staging.speculative)
      BY <1>1, <2>2, <3>3, Moving DEF LegalPush
    <3>8. Feedback(e) = (IF SpecView # <<>> THEN <<Head(SpecView)>> ELSE <<>>)
      BY <2>2, <3>1, <3>7, Zenon DEF Feedback, OneIf
    <3>9. SpecView # <<>> => Head(SpecView) = base_addr + 1
      BY <3>1, Verdict
    <3>10. Read2' = (IF Live' > 0 THEN <<base_addr'>> ELSE <<>>)
      BY DEF Read2, OneIf
    <3> QED BY <3>2, <3>6, <3>8, <3>9, <3>10, Zenon
  <2> QED BY <2>1, <2>2
<1>4. Feedback(e) \in Seq(Nat) /\ Len(Feedback(e)) <= 1
  <2>1. Read2' = (IF Live' > 0 THEN <<base_addr'>> ELSE <<>>)
    BY DEF Read2, OneIf
  <2>2. base_addr' \in Nat
    BY BaseStep
  <2>3. Feedback(e) = <<>> \/ \E y \in Nat : Feedback(e) = <<y>>
    BY <1>1, <1>2, <1>3, <2>1, <2>2, Zenon
  <2> QED BY <2>3, PushedQueue
<1> QED BY <1>2, <1>3, <1>4

(* An address kept is appended, and the addresses kept so far are in place. *)
LEMMA KeptStep ==
    ASSUME IInv, NEW e \in SUBSET Offers, Cycle(e), Kept'
    PROVE  Kept /\ wb = Place /\ (Len(wb) < WbDepth \/ Feedback(e) = <<>>)
<1>1. /\ lost \cup (IF IrqDropped THEN {"irq"} ELSE {}) \cup (IF AddrDropped(e) THEN {"addr"} ELSE {})
         = lost'
  BY DEF Cycle, Record
<1>2. Kept /\ ~AddrDropped(e)
  BY <1>1 DEF Kept
<1>3. wb \in Seq(Nat) /\ WbDepth \in Nat
  BY DescFrontendAssumption DEF IInv, StateTypes, WbDepth
<1>4. Len(wb) \in Nat
  BY <1>3, LenProperties
<1>5. ~(Feedback(e) # <<>> /\ Len(wb) >= WbDepth)
  BY <1>2 DEF AddrDropped
<1>6. Len(wb) >= WbDepth \/ Len(wb) < WbDepth
  BY <1>3, <1>4
<1>7. wb = Place
  BY <1>2 DEF IInv, WbInv
<1> QED BY <1>2, <1>5, <1>6, <1>7

(* The queues of the report, as a cycle leaves them.                       *)
LEMMA QueueTypes ==
    ASSUME IInv, todo \in Seq(Seq(Nat) \ {<<>>}),
           NEW e \in SUBSET Offers, Cycle(e)
    PROVE  /\ NewReq(e) \in Seq(Nat) /\ WbView(e) \in Seq(Nat)
           /\ WbView(e) = wb \o (IF Len(wb) < WbDepth THEN Feedback(e) ELSE <<>>)
           /\ Answered(e) \in BOOLEAN /\ (Answered(e) => backend # <<>> /\ WbView(e) # <<>>)
           /\ BSent(e) \in BOOLEAN /\ (BSent(e) => due # <<>>)
           /\ AwSent(e) \in BOOLEAN /\ (AwSent(e) => aws # <<>>)
           /\ backend' \in Seq(Nat) /\ reqs' \in Seq(Nat) /\ aws' \in Seq(Nat) /\ due' \in Seq(Nat)
           /\ wb' \in Seq(Nat)
           /\ backend' \o reqs' = Rest(backend \o reqs, Answered(e)) \o NewReq(e)
<1>1. /\ backend \in Seq(Nat) /\ reqs \in Seq(Nat) /\ aws \in Seq(Nat) /\ due \in Seq(Nat) /\ wb \in Seq(Nat)
      /\ Len(due) \in Nat /\ unsent \in Nat
  BY Lengths DEF IInv, StateTypes
<1> DEFINE f == Feedback(e)   wv == WbView(e)   p == NewReq(e)
           ans == Answered(e)   bs == BSent(e)   aw == AwSent(e)   rs == ReqSent(e)
<1>2. f \in Seq(Nat)
  BY FeedbackStep
<1>3. wv = wb \o (IF Len(wb) < WbDepth THEN f ELSE <<>>)
  BY DEF WbView
<1>4. wv \in Seq(Nat)
  <2>1. CASE Len(wb) < WbDepth
    BY <1>1, <1>2, <1>3, <2>1, ConcatProperties
  <2>2. CASE ~(Len(wb) < WbDepth)
    BY <1>1, <1>3, <2>2, ConcatEmptySeq
  <2> QED BY <2>1, <2>2
<1>5. p \in Seq(Nat)
  <2>1. ReqPush(e) => ars # <<>> /\ ars \in Seq(Nat)
    BY DEF ReqPush, GatedValid, RValid, IInv, StateTypes
  <2>2. ReqPush(e) => Head(ars) \in Nat
    BY <2>1, HeadTailProperties
  <2>3. <<>> \in Seq(Nat) /\ \A x \in Nat : <<x>> \in Seq(Nat)
    OBVIOUS
  <2> QED BY <2>2, <2>3, Zenon DEF NewReq, OneIf
<1>6. ans \in BOOLEAN /\ (ans => backend # <<>> /\ wv # <<>>)
  BY DEF Answered
<1>7. aw \in BOOLEAN /\ (aw => aws # <<>>)
  BY DEF AwSent
<1>8. rs \in BOOLEAN /\ (rs => reqs # <<>>)
  BY DEF ReqSent
<1>9. bs \in BOOLEAN /\ (bs => due # <<>>)
  <2>1. bs => Len(due) > unsent
    BY DEF BSent
  <2>2. bs => Len(due) # 0
    BY <1>1, <2>1
  <2>3. bs \in BOOLEAN
    BY DEF BSent
  <2> QED BY <1>1, <2>2, <2>3, EmptySeq
<1>11. /\ backend' = Rest(backend, ans) \o OneIf(rs, Head(reqs)) /\ reqs' = Rest(reqs, rs) \o p
       /\ due' = Rest(due, bs) \o OneIf(aw, Head(aws)) /\ aws' = Rest(aws, aw) \o OneIf(ans, Head(wv))
       /\ wb' = Rest(wv, ans)
  BY DEF Cycle, Report, NewReq
<1> HIDE DEF f, wv, p, ans, bs, aw, rs
<1>12. backend' \in Seq(Nat) /\ reqs' \in Seq(Nat) /\ backend' \o reqs' = Rest(backend \o reqs, ans) \o p
  <2>1. backend' \in Seq(Nat)
    BY <1>1, <1>6, <1>8, <1>11, HandType
  <2>2. reqs' \in Seq(Nat)
    BY <1>1, <1>5, <1>8, <1>11, RestType, ConcatProperties
  <2>3. (Rest(backend, ans) \o OneIf(rs, Head(reqs))) \o (Rest(reqs, rs) \o p) = Rest(backend \o reqs, ans) \o p
    <3>1. /\ backend \in Seq(Nat) /\ reqs \in Seq(Nat) /\ p \in Seq(Nat)
          /\ ans \in BOOLEAN /\ (ans => backend # <<>>) /\ rs \in BOOLEAN /\ (rs => reqs # <<>>)
      BY <1>1, <1>5, <1>6, <1>8
    <3> DEFINE left == Rest(backend, ans) \o OneIf(rs, Head(reqs))   rest == Rest(reqs, rs)
    <3>2. left \o rest = Rest(backend \o reqs, ans)
      BY <3>1, HandOver
    <3>3. left \in Seq(Nat)
      BY <3>1, HandType
    <3>4. rest \in Seq(Nat)
      BY <3>1, RestType
    <3> HIDE DEF left, rest
    <3>5. (left \o rest) \o p = left \o (rest \o p)
      <4>1. left \in Seq(Nat) /\ rest \in Seq(Nat) /\ p \in Seq(Nat)
        BY <3>1, <3>3, <3>4
      <4> QED BY ONLY <4>1, Associative, Zenon
    <3> QED BY <3>2, <3>5 DEF left, rest
  <2> QED BY <1>11, <2>1, <2>2, <2>3
<1>13. due' \in Seq(Nat) /\ wb' \in Seq(Nat)
  BY <1>1, <1>4, <1>6, <1>7, <1>9, <1>11, HandType, RestType
<1>14. aws' \in Seq(Nat)
  <2> DEFINE x == Head(wv)   r == Rest(aws, aw)
  <2>1. ans => x \in Nat
    BY <1>4, <1>6, HeadTailProperties
  <2>2. OneIf(ans, x) \in Seq(Nat)
    <3>1. <<>> \in Seq(Nat) /\ \A y \in Nat : <<y>> \in Seq(Nat)
      OBVIOUS
    <3> QED BY <2>1, <3>1, Zenon DEF OneIf
  <2>3. r \in Seq(Nat)
    BY <1>1, <1>7, RestType
  <2> HIDE DEF x, r
  <2>4. r \o OneIf(ans, x) \in Seq(Nat)
    BY <2>2, <2>3, ConcatProperties
  <2> QED BY <1>11, <2>4 DEF x, r
<1> QED BY <1>3, <1>4, <1>5, <1>6, <1>7, <1>9, <1>12, <1>13, <1>14
        DEF f, wv, p, ans, bs, aw

(* As long as no address is lost, they pass on what they hold in order.    *)
LEMMA QueuesStep ==
    ASSUME IInv, todo \in Seq(Seq(Nat) \ {<<>>}),
           NEW e \in SUBSET Offers, Cycle(e), Kept'
    PROVE  /\ WbView(e) = wb \o Feedback(e)
           /\ Answered(e) => Head(WbView(e)) = Head(backend)
           /\ AwaitingReport' = Rest(AwaitingReport, BSent(e)) \o NewReq(e)
           /\ (due' \o aws') \o wb' = Rest((due \o aws) \o wb, BSent(e)) \o Feedback(e)
<1> DEFINE f == Feedback(e)   wv == WbView(e)   p == NewReq(e)
           ans == Answered(e)   bs == BSent(e)   aw == AwSent(e)   rs == ReqSent(e)
<1>1. /\ backend \in Seq(Nat) /\ reqs \in Seq(Nat) /\ aws \in Seq(Nat) /\ due \in Seq(Nat) /\ wb \in Seq(Nat)
  BY DEF IInv, StateTypes
<1>2. f \in Seq(Nat)
  BY FeedbackStep
<1>3. wv = wb \o f
  <2>1. Len(wb) < WbDepth \/ f = <<>>
    BY KeptStep
  <2>2. wv = wb \o (IF Len(wb) < WbDepth THEN f ELSE <<>>)
    BY QueueTypes
  <2> QED BY <2>1, <2>2
<1>4. wv \in Seq(Nat) /\ p \in Seq(Nat)
  BY QueueTypes
<1>5. p \in Seq(Nat)
  BY <1>4
<1>6. ans \in BOOLEAN /\ (ans => backend # <<>> /\ wv # <<>>)
  BY QueueTypes
<1>7. aw \in BOOLEAN /\ (aw => aws # <<>>)
  BY QueueTypes
<1>9. bs \in BOOLEAN /\ (bs => due # <<>>)
  BY QueueTypes
<1>10. ans => Head(wv) = Head(backend)
  <2> SUFFICES ASSUME ans PROVE Head(wv) = Head(backend)
    OBVIOUS
  <2>1. backend # <<>>
    BY <1>6
  <2>2. Read1 \in Seq(Nat) /\ Read2 \in Seq(Nat)
    BY PartTypes
  <2>3. backend \o reqs \in Seq(Nat) /\ backend \o reqs # <<>> /\ Head(backend \o reqs) = Head(backend)
    BY <1>1, <2>1, HeadOfConcat, ConcatProperties
  <2> DEFINE b1 == backend \o reqs   b2 == b1 \o Read1   b3 == b2 \o Read2
  <2>4. b2 \in Seq(Nat) /\ b2 # <<>> /\ Head(b2) = Head(b1)
    BY <2>2, <2>3, HeadOfConcat, ConcatProperties
  <2>5. b3 \in Seq(Nat) /\ b3 # <<>> /\ Head(b3) = Head(b2)
    <3> HIDE DEF b2
    <3> QED BY <2>2, <2>4, HeadOfConcat, ConcatProperties
  <2>6. wb = b3
    BY KeptStep DEF Place
  <2>7. Head(wb \o f) = Head(wb)
    <3> HIDE DEF b3
    <3>1. wb # <<>>
      BY <2>5, <2>6
    <3> QED BY <1>1, <1>2, <3>1, HeadOfConcat
  <2>8. Head(wv) = Head(wb)
    BY <1>3, <2>7
  <2> HIDE DEF b1, b2, b3
  <2>9. Head(wb) = Head(b1)
    BY <2>4, <2>5, <2>6
  <2> QED BY <2>3, <2>8, <2>9 DEF b1
<1>11. /\ due' = Rest(due, bs) \o OneIf(aw, Head(aws)) /\ aws' = Rest(aws, aw) \o OneIf(ans, Head(wv))
       /\ wb' = Rest(wv, ans)
  BY DEF Cycle, Report
<1>12. backend' \in Seq(Nat) /\ reqs' \in Seq(Nat) /\ backend' \o reqs' = Rest(backend \o reqs, ans) \o p
  BY QueueTypes
<1> HIDE DEF f, wv, p, ans, bs, aw, rs
<1> DEFINE a == OneIf(ans, Head(backend))
<1>13. OneIf(ans, Head(wv)) = a
  BY <1>6, <1>10 DEF OneIf
<1>14. a \in Seq(Nat)
  <2>1. ans => Head(backend) \in Nat
    BY <1>1, <1>6, HeadTailProperties
  <2>2. <<>> \in Seq(Nat) /\ \A x \in Nat : <<x>> \in Seq(Nat)
    OBVIOUS
  <2> QED BY <2>1, <2>2, Zenon DEF OneIf
<1>15. aws' = Rest(aws, aw) \o a
  BY <1>11, <1>13
<1> HIDE DEF a
<1>16. due' \in Seq(Nat) /\ aws' \in Seq(Nat) /\ due' \o aws' = Rest(due \o aws, bs) \o a
  <2>1. due' \in Seq(Nat)
    BY <1>1, <1>7, <1>9, <1>11, HandType
  <2>2. aws' \in Seq(Nat)
    BY <1>1, <1>7, <1>14, <1>15, RestType, ConcatProperties
  <2>3. (Rest(due, bs) \o OneIf(aw, Head(aws))) \o (Rest(aws, aw) \o a) = Rest(due \o aws, bs) \o a
    <3>1. /\ due \in Seq(Nat) /\ aws \in Seq(Nat) /\ a \in Seq(Nat)
          /\ bs \in BOOLEAN /\ (bs => due # <<>>) /\ aw \in BOOLEAN /\ (aw => aws # <<>>)
      BY <1>1, <1>7, <1>9, <1>14
    <3> DEFINE left == Rest(due, bs) \o OneIf(aw, Head(aws))   rest == Rest(aws, aw)
    <3>2. left \o rest = Rest(due \o aws, bs)
      BY <3>1, HandOver
    <3>3. left \in Seq(Nat)
      BY <3>1, HandType
    <3>4. rest \in Seq(Nat)
      BY <3>1, RestType
    <3> HIDE DEF left, rest
    <3>5. (left \o rest) \o a = left \o (rest \o a)
      <4>1. left \in Seq(Nat) /\ rest \in Seq(Nat) /\ a \in Seq(Nat)
        BY <3>1, <3>3, <3>4
      <4> QED BY ONLY <4>1, Associative, Zenon
    <3> QED BY <3>2, <3>5 DEF left, rest
  <2> QED BY <1>11, <1>15, <2>1, <2>2, <2>3
<1> DEFINE d2 == due \o aws
<1>17. d2 \in Seq(Nat) /\ (bs => d2 # <<>>)
  BY <1>1, <1>9, HeadOfConcat, ConcatProperties
<1> DEFINE b2 == backend \o reqs   n2 == due' \o aws'   m2 == backend' \o reqs'
<1>18. b2 \in Seq(Nat) /\ (ans => b2 # <<>> /\ Head(b2) = Head(backend))
  BY <1>1, <1>6, HeadOfConcat, ConcatProperties
<1>19. n2 = Rest(d2, bs) \o OneIf(ans, Head(b2))
  BY <1>16, <1>18 DEF OneIf, a
<1>20. m2 = Rest(b2, ans) \o p
  BY <1>12
<1> HIDE DEF d2, b2, n2, m2
<1>21. n2 \o m2 = Rest(d2 \o b2, bs) \o p
  <2>1. (Rest(d2, bs) \o OneIf(ans, Head(b2))) \o (Rest(b2, ans) \o p) = Rest(d2 \o b2, bs) \o p
    <3>1. /\ d2 \in Seq(Nat) /\ b2 \in Seq(Nat) /\ p \in Seq(Nat)
          /\ bs \in BOOLEAN /\ (bs => d2 # <<>>) /\ ans \in BOOLEAN /\ (ans => b2 # <<>>)
      BY <1>5, <1>6, <1>9, <1>17, <1>18
    <3> DEFINE left == Rest(d2, bs) \o OneIf(ans, Head(b2))   rest == Rest(b2, ans)
    <3>2. left \o rest = Rest(d2 \o b2, bs)
      BY <3>1, HandOver
    <3>3. left \in Seq(Nat)
      BY <3>1, HandType
    <3>4. rest \in Seq(Nat)
      BY <3>1, RestType
    <3> HIDE DEF left, rest
    <3>5. (left \o rest) \o p = left \o (rest \o p)
      <4>1. left \in Seq(Nat) /\ rest \in Seq(Nat) /\ p \in Seq(Nat)
        BY <3>1, <3>3, <3>4
      <4> QED BY ONLY <4>1, Associative, Zenon
    <3> QED BY <3>2, <3>5 DEF left, rest
  <2> QED BY <1>19, <1>20, <2>1
<1>22. d2 \o b2 = AwaitingReport /\ n2 \o m2 = AwaitingReport'
  <2>1. d2 \o b2 = AwaitingReport
    <3>1. (d2 \o backend) \o reqs = d2 \o (backend \o reqs)
      <4>1. d2 \in Seq(Nat) /\ backend \in Seq(Nat) /\ reqs \in Seq(Nat)
        BY <1>1, <1>17
      <4> QED BY ONLY <4>1, Associative, Zenon
    <3> QED BY <3>1 DEF d2, b2, AwaitingReport
  <2>2. n2 \o m2 = AwaitingReport'
    <3>1. (n2 \o backend') \o reqs' = n2 \o (backend' \o reqs')
      <4>1. n2 \in Seq(Nat) /\ backend' \in Seq(Nat) /\ reqs' \in Seq(Nat)
        BY <1>12, <1>16, ConcatProperties DEF n2
      <4> QED BY ONLY <4>1, Associative, Zenon
    <3> QED BY <3>1 DEF n2, m2, AwaitingReport
  <2> QED BY <2>1, <2>2
<1>23. AwaitingReport' = Rest(AwaitingReport, bs) \o p
  BY <1>21, <1>22
<1>24. wb' \in Seq(Nat) /\ n2 \o wb' = Rest(d2 \o wv, bs)
  <2>1. n2 = Rest(d2, bs) \o OneIf(ans, Head(wv))
    BY <1>13, <1>16 DEF n2, d2
  <2>2. wv \in Seq(Nat) /\ (ans => wv # <<>>)
    BY <1>4, <1>6 DEF wv
  <2>3. (Rest(d2, bs) \o OneIf(ans, Head(wv))) \o Rest(wv, ans) = Rest(d2 \o wv, bs)
    BY <1>6, <1>9, <1>17, <2>2, HandOver
  <2>4. Rest(wv, ans) \in Seq(Nat)
    BY <1>6, <2>2, RestType
  <2> QED BY <1>11, <2>1, <2>3, <2>4
<1>25. n2 \o wb' = Rest(d2 \o wb, bs) \o f
  <2>1. d2 \o wv = (d2 \o wb) \o f
    <3>1. d2 \in Seq(Nat) /\ wb \in Seq(Nat) /\ f \in Seq(Nat)
      BY <1>1, <1>2, <1>17 DEF f
    <3>2. (d2 \o wb) \o f = d2 \o (wb \o f)
      BY <3>1, Associative, Zenon
    <3> QED BY <1>3, <3>2
  <2>2. d2 \o wb \in Seq(Nat) /\ (bs => d2 \o wb # <<>>)
    BY <1>1, <1>17, HeadOfConcat, ConcatProperties
  <2> DEFINE g == d2 \o wb
  <2>3. f \in Seq(Nat)
    BY <1>2 DEF f
  <2> HIDE DEF g
  <2>4. g \in Seq(Nat) /\ (bs => g # <<>>)
    BY <2>2 DEF g
  <2>5. Rest(g, bs) \o f = Rest(g \o f, bs)
    BY <1>9, <2>3, <2>4, RestThen
  <2> QED BY <1>24, <2>1, <2>5 DEF g
<1> QED BY <1>3, <1>10, <1>23, <1>25 DEF f, wv, p, ans, bs, n2, d2

(* What the backend, the memory and the FIFOs hold stays within what they  *)
(* can hold.                                                               *)
LEMMA HoldStep ==
    ASSUME IInv, todo \in Seq(Seq(Nat) \ {<<>>}),
           NEW e \in SUBSET Offers, Cycle(e)
    PROVE  HoldInv' /\ unsent' \in Nat /\ irqs' \in Seq(Nat)
<1>1. /\ backend \in Seq(Nat) /\ reqs \in Seq(Nat) /\ aws \in Seq(Nat) /\ due \in Seq(Nat)
      /\ unsent \in Nat /\ wb \in Seq(Nat) /\ irqs \in Seq(Nat)
  BY DEF IInv, StateTypes
<1>2. /\ BackendDepth \in Nat \ {0} /\ PendingFifoDepth \in Nat \ {0} /\ WCounterWidth \in Nat
      /\ BackendHolds \in Nat \ {0} /\ AwsUnanswered \in Nat \ {0}
  BY DescFrontendAssumption
<1>3. WSent(e) => unsent > 0
  <2>1. 2^WCounterWidth \in Nat \ {0}
    <3>1. \A w \in Nat : 2^w \in Int
      OBVIOUS
    <3>2. 2^WCounterWidth \in Int /\ 2^WCounterWidth >= 2 * BackendDepth
      BY <1>2, <3>1, DescFrontendAssumption
    <3> QED BY <1>2, <3>2
  <2>2. \A m \in Nat \ {0} : 0 % m = 0
    OBVIOUS
  <2>3. 0 % 2^WCounterWidth = 0
    BY <1>2, <2>1, <2>2
  <2>4. WSent(e) => unsent # 0
    BY <2>3 DEF WSent, w_counter
  <2> QED BY <1>1, <2>4
<1>4. /\ unsent <= Len(due) /\ Len(due) <= AwsUnanswered
      /\ Len(aws) <= MaxAWWPending /\ Len(backend) <= BackendHolds
      /\ Len(wb) <= WbDepth /\ Len(irqs) <= IrqDepth
  BY DEF IInv, HoldInv
<1> DEFINE f == Feedback(e)   ans == Answered(e)   bs == BSent(e)   aw == AwSent(e)   rs == ReqSent(e)
           a == OneIf(ans, Head(WbView(e)))   h == OneIf(aw, Head(aws))   q == OneIf(rs, Head(reqs))
<1>5. /\ backend' = Rest(backend, ans) \o q /\ due' = Rest(due, bs) \o h /\ aws' = Rest(aws, aw) \o a
  BY DEF Cycle, Report
<1>6. /\ aw \in BOOLEAN /\ (aw => aws # <<>> /\ Len(due) < AwsUnanswered)
      /\ rs \in BOOLEAN /\ (rs => reqs # <<>> /\ Len(backend) < BackendHolds)
      /\ ans \in BOOLEAN /\ (ans => backend # <<>> /\ Len(aws) < MaxAWWPending /\ WbView(e) # <<>>)
      /\ bs \in BOOLEAN /\ (bs => due # <<>> /\ irqs # <<>> /\ Len(due) > unsent)
  <2>1. bs => due # <<>>
    BY QueueTypes
  <2> QED BY <2>1 DEF AwSent, ReqSent, Answered, BSent
<1>7. /\ h = <<>> \/ \E y \in Nat : h = <<y>>
      /\ h # <<>> <=> aw
  <2>1. aw => Head(aws) \in Nat
    BY <1>1, <1>6, HeadTailProperties
  <2> QED BY <2>1 DEF OneIf
<1>8. /\ q = <<>> \/ \E y \in Nat : q = <<y>>
      /\ q # <<>> => rs
  <2>1. rs => Head(reqs) \in Nat
    BY <1>1, <1>6, HeadTailProperties
  <2> QED BY <2>1 DEF OneIf
<1>9. /\ a = <<>> \/ \E y \in Nat : a = <<y>>
      /\ a # <<>> => ans
  <2>1. WbView(e) \in Seq(Nat)
    BY QueueTypes
  <2>2. ans => Head(WbView(e)) \in Nat
    BY <1>6, <2>1, HeadTailProperties
  <2> QED BY <2>2 DEF OneIf
<1>10. unsent' = unsent + One(aw) - One(WSent(e))
  BY DEF Cycle, Report
<1> DEFINE i == One(aw)   o == One(WSent(e))   d == One(bs)   D == Len(due)   D2 == Len(due')
<1>12. i \in 0..1 /\ o \in 0..1 /\ d \in 0..1 /\ (i = 1 <=> aw) /\ (o = 1 => unsent > 0) /\ (d = 1 => D > unsent)
  BY <1>3, <1>6 DEF One
<1> HIDE DEF f, ans, bs, aw, rs, a, h, q
<1>13. Len(backend') <= BackendHolds
  BY <1>1, <1>2, <1>4, <1>5, <1>6, <1>8, QueueDepth
<1>14. Len(aws') <= MaxAWWPending
  <2>1. MaxAWWPending \in Nat
    BY <1>2 DEF MaxAWWPending
  <2> QED BY <1>1, <1>4, <1>5, <1>6, <1>9, <2>1, QueueDepth
<1>15. /\ Len(due') <= AwsUnanswered /\ Len(due') = Len(due) - One(bs) + Len(h)
       /\ Len(due) \in Nat /\ Len(h) \in Nat /\ Len(h) <= 1 /\ (h = <<>> <=> Len(h) = 0)
  <2>1. h # <<>> => Len(due) < AwsUnanswered
    BY <1>6, <1>7
  <2>2. due \in Seq(Nat) /\ bs \in BOOLEAN /\ (bs => due # <<>>) /\ AwsUnanswered \in Nat /\ Len(due) <= AwsUnanswered
    BY <1>1, <1>2, <1>4, <1>6
  <2>3. Len(Rest(due, bs) \o h) <= AwsUnanswered /\ Len(Rest(due, bs) \o h) = Len(due) - One(bs) + Len(h)
    <3>1. h = <<>> \/ \E y \in Nat : h = <<y>>
      BY <1>7
    <3>2. Len(Rest(due, bs) \o h) <= AwsUnanswered
      BY <2>1, <2>2, <3>1, QueueDepth
    <3>3. Len(Rest(due, bs) \o h) = Len(due) - One(bs) + Len(h)
      BY <2>2, <3>1, QueueLength
    <3> QED BY <3>2, <3>3
  <2>4. Len(h) \in Nat /\ Len(h) <= 1 /\ (h = <<>> <=> Len(h) = 0)
    BY <1>7, PushedQueue
  <2>5. Len(due) \in Nat
    BY <2>2, LenProperties
  <2> QED BY <1>5, <2>3, <2>4, <2>5
<1>16. Len(h) = i
  <2> DEFINE n == Len(h)
  <2>1. n \in Nat /\ n <= 1 /\ (n = 0 <=> ~aw)
    BY <1>7, <1>15
  <2> HIDE DEF i, n
  <2>2. i \in 0..1 /\ (i = 1 <=> aw)
    BY <1>12
  <2>3. n = i
    BY <2>1, <2>2
  <2> QED BY <2>3 DEF n
<1>17. D2 = (D - d) + i /\ D \in Nat /\ D2 <= AwsUnanswered /\ unsent <= D
  BY <1>4, <1>15, <1>16
<1>18. unsent' \in Nat /\ unsent' <= D2
  <2>1. unsent' = unsent + i - o
    BY <1>10
  <2> HIDE DEF i, o, d, D, D2
  <2> QED BY <1>1, <1>12, <1>17, <2>1
<1>19. Len(wb') <= WbDepth
  <2> DEFINE g == IF Len(wb) < WbDepth THEN Feedback(e) ELSE <<>>
  <2>1. WbDepth \in Nat /\ wb' = Rest(WbView(e), Answered(e)) /\ WbView(e) = wb \o g
    <3>1. WbDepth \in Nat
      BY <1>2 DEF WbDepth
    <3>2. wb' = Rest(WbView(e), Answered(e))
      BY DEF Cycle, Report
    <3>3. WbView(e) = wb \o g
      BY DEF WbView
    <3> QED BY <3>1, <3>2, <3>3
  <2>2. g \in Seq(Nat) /\ Len(g) <= 1 /\ (g # <<>> => Len(wb) < WbDepth) /\ Len(<<>>) = 0
    BY FeedbackStep, EmptySeq
  <2> DEFINE v == WbView(e)
  <2>3. v \in Seq(Nat) /\ (Answered(e) => v # <<>>) /\ Answered(e) \in BOOLEAN
    BY QueueTypes
  <2> HIDE DEF g, v
  <2>4. Len(wb \o g) = Len(wb) + Len(g) /\ Len(wb) \in Nat /\ Len(g) \in Nat /\ (g = <<>> => Len(g) = 0)
    BY <1>1, <2>2, ConcatProperties
  <2>5. Len(v) <= WbDepth
    BY <1>4, <2>1, <2>2, <2>4 DEF v
  <2>6. Len(Rest(v, Answered(e))) <= Len(v) /\ Len(v) \in Nat /\ Len(Rest(v, Answered(e))) \in Nat
    <3>1. Len(v) \in Nat
      BY <2>3, LenProperties
    <3>2. CASE Answered(e)
      <4>1. Len(Tail(v)) = Len(v) - 1 /\ Tail(v) \in Seq(Nat) /\ Len(Tail(v)) \in Nat
        BY <2>3, <3>2, HeadTailProperties
      <4> QED BY <3>1, <3>2, <4>1 DEF Rest
    <3>3. CASE ~Answered(e)
      BY <3>1, <3>3 DEF Rest
    <3> QED BY <2>3, <3>2, <3>3
  <2>7. Len(Rest(v, Answered(e))) <= WbDepth
    BY <2>1, <2>5, <2>6
  <2> QED BY <2>1, <2>7 DEF v
<1>20. irqs' \in Seq(Nat) /\ Len(irqs') <= IrqDepth
  <2> DEFINE g == OneIf(IrqPush, Head(ars))
  <2>1. irqs' = Rest(irqs, bs) \o g /\ IrqDepth \in Nat
    BY <1>2 DEF Cycle, Report, bs, IrqDepth, MaxAWWPending
  <2>2. IrqPush => ars # <<>> /\ ars \in Seq(Nat) /\ Len(irqs) < IrqDepth
    BY DEF IrqPush, IrqValid, IInv, ReaderInv, StateTypes
  <2>3. IrqPush => Head(ars) \in Nat
    BY <2>2, HeadTailProperties
  <2>4. (g = <<>> \/ \E y \in Nat : g = <<y>>) /\ (g # <<>> => Len(irqs) < IrqDepth)
    BY <2>2, <2>3, Zenon DEF OneIf
  <2> HIDE DEF g
  <2>5. Rest(irqs, bs) \o g \in Seq(Nat)
    BY <1>1, <1>6, <2>4, QueueLength
  <2>6. Len(Rest(irqs, bs) \o g) <= IrqDepth
    BY <1>1, <1>4, <1>6, <2>1, <2>4, QueueDepth
  <2> QED BY <2>1, <2>5, <2>6
<1> QED BY <1>13, <1>14, <1>15, <1>18, <1>19, <1>20 DEF HoldInv, D2, MaxAWWPending

(* Nothing before or after a queue leaves it as it is.                     *)
LEMMA EmptyConcat ==
    \A x \in Seq(Nat) : <<>> \o x = x /\ x \o <<>> = x /\ <<>> \in Seq(Nat)
BY ConcatEmptySeq, EmptySeq

(* What becomes certain is appended, and what the reader holds moves on.   *)
LEMMA CertainStep ==
    ASSUME IInv, todo \in Seq(Seq(Nat) \ {<<>>}),
           NEW e \in SUBSET Offers, Cycle(e)
    PROVE  /\ (Read1 \o Read2) \o Feedback(e) = (NewReq(e) \o Read1') \o Read2'
           /\ Read1' \in Seq(Nat) /\ Read2' \in Seq(Nat)
<1> DEFINE X == Read1   Y == Read2   f == Feedback(e)   N == NewReq(e)
           X2 == OneIf(Decided', Head(ars'))   Y2 == OneIf(Live' > 0, base_addr')
<1>1. X \in Seq(Nat) /\ Y \in Seq(Nat) /\ f \in Seq(Nat) /\ N \in Seq(Nat)
  BY PartTypes, FeedbackStep, QueueTypes
<1>2. Read1' = X2 /\ Read2' = Y2
  BY DEF Read1, Read2
<1>3. <<>> \in Seq(Nat) /\ \A x \in Nat : <<x>> \in Seq(Nat)
  OBVIOUS
<1>4. base_addr' \in Nat /\ base_addr \in Nat /\ Live \in Nat /\ Live' \in Nat /\ fetch_counter \in 0..3
  <2>1. base_addr' \in Nat /\ Live' \in Nat
    BY BaseStep, RowStep
  <2>2. base_addr \in Nat /\ Live \in Int /\ fetch_counter \in 0..3
    BY Lengths DEF IInv, StateTypes
  <2>3. Live >= 0
    BY DEF IInv, RunInv
  <2> QED BY <2>1, <2>2, <2>3
<1>5. Y2 \in Seq(Nat)
  BY <1>3, <1>4, Zenon DEF OneIf
<1>6. /\ Decided' <=> ThisCycle \/ (Decided /\ ~Pops(e))
      /\ Decided /\ Pops(e) <=> ReqPush(e)
      /\ ThisCycle => ~Decided /\ ~Pops(e)
  BY DecidedStep
<1>7. Decided => Head(ars) \in Nat /\ (~Pops(e) => Head(ars') = Head(ars))
  <2>1. Decided => ars # <<>>
    BY DEF IInv, ReaderInv, Decided
  <2>2. ars \in Seq(Nat)
    BY DEF IInv, StateTypes
  <2> QED BY <2>1, <2>2, ReadsStep, HeadTailProperties
<1>8. ThisCycle => ars' # <<>> /\ Head(ars') = base_addr
  <2>1. ThisCycle => ars # <<>> /\ Head(ars) = base_addr /\ ~Pops(e)
    BY Window, LiveStep
  <2> QED BY <2>1, ReadsStep
<1>9. X2 \in Seq(Nat)
  BY <1>3, <1>4, <1>6, <1>7, <1>8, Zenon DEF OneIf
<1>10. ThisCycle => X = <<>> /\ N = <<>>
  BY <1>6 DEF Read1, NewReq, OneIf
<1>11. ~ThisCycle => (X = N /\ X2 = <<>>) \/ (N = <<>> /\ X2 = X)
  <2>1. CASE Decided /\ Pops(e)
    BY <1>6, <2>1, Zenon DEF Read1, NewReq, OneIf
  <2>2. CASE Decided /\ ~Pops(e)
    BY <1>6, <1>7, <2>2 DEF Read1, NewReq, OneIf
  <2>3. CASE ~Decided
    BY <1>6, <2>3, Zenon DEF Read1, NewReq, OneIf
  <2> QED BY <2>1, <2>2, <2>3
<1>13. ~ThisCycle => Y \o f = Y2
  <2> SUFFICES ASSUME ~ThisCycle PROVE Y \o f = Y2
    OBVIOUS
  <2>1. f = (IF Live = 0 /\ Live' > 0 THEN <<base_addr>> ELSE <<>>)
        /\ (Live > 0 \/ Live' > 0 => base_addr' = base_addr)
    BY FeedbackStep
  <2>2. Live' = Live + Sent1(e) /\ Sent1(e) \in 0..1
    BY LiveStep DEF Sent1
  <2>3. CASE Live > 0
    <3>1. f = <<>> /\ base_addr' = base_addr /\ Live' > 0
      BY <1>4, <2>1, <2>2, <2>3
    <3>2. Y2 = Y
      BY <2>3, <3>1 DEF Read2, OneIf
    <3> QED BY <1>1, <3>1, <3>2, EmptyConcat, Zenon
  <2>4. CASE ~(Live > 0)
    <3>1. Live = 0
      BY <1>4, <2>4
    <3>2. Y = <<>>
      BY <2>4 DEF Read2, OneIf
    <3>3. f = Y2
      BY <2>1, <3>1 DEF OneIf
    <3> QED BY <1>1, <3>2, <3>3, EmptyConcat, Zenon
  <2> QED BY <2>3, <2>4
<1>14. ThisCycle => X2 = Y /\ f = Y2
  <2> SUFFICES ASSUME ThisCycle PROVE X2 = Y /\ f = Y2
    OBVIOUS
  <2>1. f = Read2'
    BY FeedbackStep
  <2>2. Live > 0
    <3>1. Live >= 1
      BY Window
    <3> QED BY <1>4, <3>1
  <2>3. X2 = <<base_addr>>
    BY <1>6, <1>8 DEF OneIf
  <2>4. Y = <<base_addr>>
    BY <2>2 DEF Read2, OneIf
  <2> QED BY <1>2, <2>1, <2>3, <2>4
<1> HIDE DEF X, Y, f, N, X2, Y2
<1>15. (X \o Y) \o f = (N \o X2) \o Y2
  <2>1. CASE ThisCycle
    <3>1. X = <<>> /\ N = <<>> /\ X2 = Y /\ f = Y2
      BY <1>10, <1>14, <2>1
    <3> QED BY <1>1, <1>9, <3>1
  <2>2. CASE ~ThisCycle
    <3>1. Y \o f = Y2 /\ ((X = N /\ X2 = <<>>) \/ (N = <<>> /\ X2 = X))
      BY <1>11, <1>13, <2>2
    <3>2. (X \o Y) \o f = X \o (Y \o f)
      BY <1>1, Associative, Zenon
    <3>3. N \o X2 = X
      BY <1>1, <3>1, EmptyConcat, Zenon
    <3> QED BY <3>1, <3>2, <3>3
  <2> QED BY <2>1, <2>2
<1> QED BY <1>2, <1>5, <1>9, <1>15 DEF X, Y, f, N

(* So the addresses to write back go on being those of the transfers not   *)
(* answered, of the descriptor being read and of what is certain to follow.*)
LEMMA WbStep ==
    ASSUME IInv, todo \in Seq(Seq(Nat) \ {<<>>}),
           NEW e \in SUBSET Offers, Cycle(e), Kept'
    PROVE  wb' = Place'
<1> DEFINE A == backend \o reqs   A2 == backend' \o reqs'   X == Read1   Y == Read2   X2 == Read1'   Y2 == Read2'
           f == Feedback(e)   N == NewReq(e)   ans == Answered(e)   K == Rest(A, ans)
<1>1. /\ X \in Seq(Nat) /\ Y \in Seq(Nat) /\ f \in Seq(Nat) /\ N \in Seq(Nat) /\ X2 \in Seq(Nat) /\ Y2 \in Seq(Nat)
  BY PartTypes, FeedbackStep, QueueTypes, CertainStep
<1>2. (X \o Y) \o f = (N \o X2) \o Y2
  BY CertainStep
<1>3. A2 = K \o N
  BY QueueTypes
<1>4. A \in Seq(Nat) /\ ans \in BOOLEAN /\ (ans => A # <<>>)
  <2>1. backend \in Seq(Nat) /\ reqs \in Seq(Nat)
    BY DEF IInv, StateTypes
  <2>2. ans \in BOOLEAN /\ (ans => backend # <<>>)
    BY QueueTypes
  <2> QED BY <2>1, <2>2, HeadOfConcat, ConcatProperties
<1>5. wb = (A \o X) \o Y
  BY KeptStep DEF Place
<1>6. wb' = Rest(wb \o f, ans)
  <2>1. WbView(e) = wb \o Feedback(e)
    BY QueuesStep
  <2> QED BY <2>1 DEF Cycle, Report
<1>7. Place' = (A2 \o X2) \o Y2
  BY DEF Place
<1> HIDE DEF A, A2, X, Y, X2, Y2, f, N, ans
<1>8. K \in Seq(Nat)
  BY <1>4, RestType
<1> DEFINE Z == (X \o Y) \o f
<1>9. X \o Y \in Seq(Nat) /\ Z \in Seq(Nat) /\ N \o X2 \in Seq(Nat)
  BY <1>1, ConcatProperties
<1>10. wb \o f = A \o Z
  <2>1. A \in Seq(Nat)
    BY <1>4
  <2>2. (A \o X) \o Y = A \o (X \o Y)
    BY <1>1, <2>1, Associative, Zenon
  <2> DEFINE XY == X \o Y
  <2> HIDE DEF XY
  <2>3. A \in Seq(Nat) /\ XY \in Seq(Nat) /\ f \in Seq(Nat)
    BY <1>1, <1>9, <2>1 DEF XY
  <2>4. (A \o XY) \o f = A \o (XY \o f)
    BY ONLY <2>3, Associative, Zenon
  <2> QED BY <1>5, <2>2, <2>4 DEF XY
<1> HIDE DEF Z, K
<1>11. Rest(A \o Z, ans) = K \o Z
  BY <1>4, <1>9, RestThen DEF K
<1>12. K \o Z = (A2 \o X2) \o Y2
  <2> DEFINE NX == N \o X2
  <2>1. K \in Seq(Nat) /\ NX \in Seq(Nat) /\ N \in Seq(Nat) /\ X2 \in Seq(Nat) /\ Y2 \in Seq(Nat)
    BY <1>1, <1>8, <1>9
  <2>2. (K \o N) \o X2 = K \o NX
    BY <1>1, <1>8, Associative, Zenon
  <2> HIDE DEF NX
  <2>3. (K \o NX) \o Y2 = K \o (NX \o Y2)
    BY ONLY <2>1, Associative, Zenon
  <2> QED BY <1>2, <1>3, <2>2, <2>3 DEF Z, NX
<1> QED BY <1>6, <1>7, <1>10, <1>11, <1>12

(* What the reader and the response of a write-back do to the flags.       *)
LEMMA FlagTurn ==
    ASSUME IInv, NEW e \in SUBSET Offers, Cycle(e)
    PROVE  /\ ReqPush(e) => fetch_counter > 1
           /\ fetch_counter' > 1 => fetch_counter = 1 \/ (fetch_counter > 1 /\ ~ReqPush(e))
           /\ IrqPush <=> fetch_counter = 1 /\ Len(irqs) < IrqDepth
           /\ IrqPush => ~ReqPush(e)
<1>1. fetch_counter \in 0..3
  BY DEF IInv, StateTypes
<1>2. /\ ReqPush(e) => fetch_counter > 1
      /\ fetch_counter' > 1 => fetch_counter = 1 \/ (fetch_counter > 1 /\ ~ReqPush(e))
  <2>1. CASE Idles(e) \/ Begins(e) \/ Discards(e)
    BY <1>1, <2>1 DEF Idles, Begins, Discards
  <2>2. CASE Pauses(e) \/ Advances(e)
    BY <1>1, <2>2 DEF Pauses, Advances, Stays
  <2>3. CASE Finishes(e)
    BY <1>1, <2>3 DEF Finishes
  <2> QED BY <2>1, <2>2, <2>3, ReaderTurn
<1>3. IrqPush <=> fetch_counter = 1 /\ Len(irqs) < IrqDepth
  BY DEF IrqPush, IrqValid
<1> QED BY <1>1, <1>2, <1>3

(* If nothing is lost, nothing was lost before and none of the FIFOs meets *)
(* an entry when it is full.                                               *)
LEMMA NoneLost ==
    ASSUME IInv, NEW e \in SUBSET Offers, Cycle(e), lost' = {}
    PROVE  lost = {} /\ Kept' /\ (fetch_counter = 1 => Len(irqs) < IrqDepth)
<1>1. lost' = lost \cup (IF IrqDropped THEN {"irq"} ELSE {}) \cup (IF AddrDropped(e) THEN {"addr"} ELSE {})
  BY DEF Cycle, Record
<1>2. lost = {} /\ ~IrqDropped /\ Kept'
  BY <1>1 DEF Kept
<1>3. irqs \in Seq(Nat) /\ IrqDepth \in Nat
  BY DescFrontendAssumption DEF IInv, StateTypes, IrqDepth, MaxAWWPending
<1>4. Len(irqs) \in Nat
  BY <1>3, LenProperties
<1>5. fetch_counter = 1 => ~(Len(irqs) >= IrqDepth)
  BY <1>2 DEF IrqDropped, IrqValid
<1> QED BY <1>2, <1>3, <1>4, <1>5

(* There is a flag for every descriptor not reported.                      *)
LEMMA FlagsStep ==
    ASSUME IInv, todo \in Seq(Seq(Nat) \ {<<>>}),
           NEW e \in SUBSET Offers, Cycle(e), lost' = {}
    PROVE  Len(irqs') >= Len(AwaitingReport') + One(fetch_counter' > 1)
<1> DEFINE A == AwaitingReport   N == NewReq(e)   bs == BSent(e)   K == Rest(A, bs)
           Q == OneIf(IrqPush, Head(ars))   a == Len(A)   a2 == Len(A')   n == Len(irqs)   n2 == Len(irqs')
           r == IF ReqPush(e) THEN 1 ELSE 0   s == IF IrqPush THEN 1 ELSE 0   d == One(bs)
           h == One(fetch_counter > 1)   h2 == One(fetch_counter' > 1)
<1>1. /\ A' = K \o N /\ fetch_counter \in 0..3 /\ irqs \in Seq(Nat) /\ ars \in Seq(Nat)
      /\ A \in Seq(Nat) /\ n >= a + h
  <2>1. lost = {} /\ Kept'
    BY NoneLost
  <2> QED BY <2>1, QueuesStep, AwaitingType DEF IInv, StateTypes, FlagsInv
<1>2. bs \in BOOLEAN /\ (bs => irqs # <<>>) /\ (bs => A # <<>>)
  <2>1. bs \in BOOLEAN /\ (bs => due # <<>>)
    BY QueueTypes
  <2>2. due # <<>> => A # <<>>
    BY AwaitingType DEF IInv
  <2>3. bs => irqs # <<>>
    BY DEF BSent
  <2> QED BY <2>1, <2>2, <2>3
<1>3. irqs' = Rest(irqs, bs) \o Q
  BY DEF Cycle, Report
<1>4. fetch_counter # 0 => Head(ars) \in Nat
  <2>1. fetch_counter # 0 => ars # <<>>
    BY DEF IInv, ReaderInv
  <2> QED BY <1>1, <2>1, HeadTailProperties
<1>5. /\ (ReqPush(e) => fetch_counter > 1) /\ (IrqPush <=> fetch_counter = 1 /\ n < IrqDepth)
      /\ fetch_counter' > 1 => fetch_counter = 1 \/ (fetch_counter > 1 /\ ~ReqPush(e))
  BY FlagTurn
<1>6. /\ Q = <<>> \/ \E x \in Nat : Q = <<x>>
      /\ Len(Q) = s
  <2>1. CASE IrqPush
    <3>1. Head(ars) \in Nat
      BY <1>4, <1>5, <2>1
    <3>2. Q = <<Head(ars)>> /\ Len(Q) = 1
      BY <2>1 DEF OneIf
    <3> QED BY <2>1, <3>1, <3>2
  <2>2. CASE ~IrqPush
    <3>1. Q = <<>>
      BY <2>2 DEF OneIf
    <3> QED BY <2>2, <3>1, EmptySeq
  <2> QED BY <2>1, <2>2
<1>7. /\ N = <<>> \/ \E x \in Nat : N = <<x>>
      /\ Len(N) = r
  <2>1. CASE ReqPush(e)
    <3>1. Head(ars) \in Nat
      <4>1. fetch_counter # 0
        BY <1>1, <1>5, <2>1
      <4> QED BY <1>4, <4>1
    <3>2. N = <<Head(ars)>> /\ Len(N) = 1
      BY <2>1 DEF OneIf, NewReq
    <3> QED BY <2>1, <3>1, <3>2
  <2>2. CASE ~ReqPush(e)
    <3>1. N = <<>>
      BY <2>2 DEF OneIf, NewReq
    <3> QED BY <2>2, <3>1, EmptySeq
  <2> QED BY <2>1, <2>2
<1>8. fetch_counter = 1 => n < IrqDepth
  BY NoneLost
<1>9. IrqDepth \in Nat
  BY DescFrontendAssumption DEF IrqDepth, MaxAWWPending
<1>10. /\ a \in Nat /\ n \in Nat /\ d \in 0..1 /\ r \in 0..1 /\ s \in 0..1 /\ h \in 0..1 /\ h2 \in 0..1
       /\ r = 1 => h = 1
       /\ fetch_counter = 1 => h = 0 /\ r = 0
       /\ h2 = 1 => fetch_counter = 1 \/ (h = 1 /\ r = 0)
       /\ fetch_counter = 1 => s = 1
       /\ d = 1 => n >= 1
  <2>1. a \in Nat /\ n \in Nat
    BY <1>1, LenProperties
  <2>2. d = 1 => n >= 1
    <3>1. bs => n # 0
      BY <1>1, <1>2, EmptySeq
    <3>2. d = 1 => bs
      BY DEF One
    <3> QED BY <2>1, <3>1, <3>2
  <2>3. /\ d \in 0..1 /\ r \in 0..1 /\ s \in 0..1 /\ h \in 0..1 /\ h2 \in 0..1
    BY DEF One
  <2>4. /\ (h = 1 <=> fetch_counter > 1) /\ (h2 = 1 <=> fetch_counter' > 1)
        /\ (r = 1 <=> ReqPush(e)) /\ (s = 1 <=> IrqPush)
    <3>1. \A P \in BOOLEAN : (IF P THEN 1 ELSE 0) = 1 <=> P
      OBVIOUS
    <3>2. /\ (fetch_counter > 1) \in BOOLEAN /\ (fetch_counter' > 1) \in BOOLEAN
          /\ ReqPush(e) \in BOOLEAN /\ IrqPush \in BOOLEAN
      BY DEF ReqPush, GatedValid, RValid, RLast, ReqReady, IrqPush, IrqValid
    <3> QED BY ONLY <3>1, <3>2, Zenon DEF One
  <2> HIDE DEF d, r, s, h, h2, n, a
  <2> QED BY <1>1, <1>5, <1>8, <1>9, <2>1, <2>2, <2>3, <2>4
<1> HIDE DEF A, N, bs, Q, K, r, s, d
<1>11. irqs' \in Seq(Nat) /\ n2 = n - d + s
  <2> DEFINE q == Rest(irqs, bs) \o Q
  <2>1. q \in Seq(Nat) /\ Len(q) = Len(irqs) - One(bs) + Len(Q)
    <3>1. irqs \in Seq(Nat) /\ bs \in BOOLEAN /\ (bs => irqs # <<>>)
      BY <1>1, <1>2
    <3>2. Q = <<>> \/ \E x \in Nat : Q = <<x>>
      BY <1>6
    <3> HIDE DEF q
    <3>3. /\ Rest(irqs, bs) \o Q \in Seq(Nat)
          /\ Len(Rest(irqs, bs) \o Q) = Len(irqs) - One(bs) + Len(Q)
      BY ONLY <3>1, <3>2, QueueLength
    <3> QED BY <3>3 DEF q
  <2> HIDE DEF q
  <2>2. irqs' = q
    BY <1>3 DEF q
  <2> QED BY <1>6, <2>1, <2>2 DEF d
<1>12. a2 = a - d + r
  <2> DEFINE q == Rest(A, bs) \o N
  <2>1. q \in Seq(Nat) /\ Len(q) = Len(A) - One(bs) + Len(N)
    <3>1. A \in Seq(Nat) /\ bs \in BOOLEAN /\ (bs => A # <<>>)
      BY <1>1, <1>2
    <3>2. N = <<>> \/ \E x \in Nat : N = <<x>>
      BY <1>7
    <3> HIDE DEF q
    <3>3. /\ Rest(A, bs) \o N \in Seq(Nat)
          /\ Len(Rest(A, bs) \o N) = Len(A) - One(bs) + Len(N)
      BY ONLY <3>1, <3>2, QueueLength
    <3> QED BY <3>3 DEF q
  <2> HIDE DEF q
  <2>2. A' = q
    BY <1>1 DEF q, K
  <2> QED BY <1>7, <2>1, <2>2 DEF d
<1> HIDE DEF a, a2, n, n2, h, h2
<1>14. n2 >= a2 + h2
  BY <1>1, <1>10, <1>11, <1>12
<1> QED BY <1>14 DEF n2, a2, h2, A

----------------------------------------------------------------------------
(* The invariant holds. *)

(* Software submits chains that have descriptors.                          *)
Submittable == todo \in Seq(Seq(Nat) \ {<<>>})

DfInv == IInv /\ Submittable

LEMMA TypeStep ==
    ASSUME IInv, todo \in Seq(Seq(Nat) \ {<<>>}),
           NEW e \in SUBSET Offers, Cycle(e)
    PROVE  StateTypes' /\ Submittable'
<1>1. todo' \in Seq(Seq(Nat)) /\ Submittable'
  <2>1. todo' = Rest(todo, Submits(e))
    BY DEF Cycle, Report
  <2>2. Submits(e) \in BOOLEAN /\ (Submits(e) => todo # <<>>)
    BY DEF Submits
  <2>3. todo \in Seq(Seq(Nat))
    BY DEF IInv, StateTypes
  <2> HIDE DEF Submits
  <2>4. todo' \in Seq(Seq(Nat))
    BY <2>1, <2>2, <2>3, RestType
  <2> DEFINE S == Seq(Nat) \ {<<>>}
  <2> HIDE DEF S
  <2>5. todo \in Seq(S)
    BY DEF S
  <2>6. todo' \in Seq(S)
    BY <2>1, <2>2, <2>5, RestType
  <2> QED BY <2>4, <2>6 DEF S, Submittable
<1>2. input' \in Seq(Nat)
  <2> DEFINE pop == QueuedReady /\ QueuedValid(e)
  <2>1. input' = Rest(InputView(e), pop)
    BY DEF Cycle, Fetch
  <2>2. pop \in BOOLEAN /\ (pop => InputView(e) # <<>>)
    BY DEF QueuedValid
  <2>3. InputView(e) \in Seq(Nat)
    BY InputFacts DEF IInv
  <2> HIDE DEF pop
  <2> QED BY <2>1, <2>2, <2>3, RestType
<1>3. base_valid' \in BOOLEAN /\ base_addr' \in Nat
  BY BaseStep
<1>4. inflight' \in 0..NSpeculation /\ pending' \in Seq([speculative : BOOLEAN, addr : Nat]) /\ Len(pending') <= NSpeculation
  <2>1. RunInv' /\ inflight' \in 0..NSpeculation /\ pending' \in Seq(ReadRecord) /\ Live' \in Nat
    BY RunStep, RowStep
  <2>2. inflight' = Live' + Len(pending')
    BY <2>1 DEF RunInv
  <2>3. Len(pending') \in Nat
    BY <2>1, LenProperties
  <2>4. NSpeculation \in Nat
    BY DescFrontendAssumption
  <2>5. \A i, l, p, N \in Nat : i = l + p /\ i <= N => p <= N
    OBVIOUS
  <2>6. inflight' \in Nat /\ inflight' <= NSpeculation
    BY <2>1, <2>4
  <2>7. Len(pending') <= NSpeculation
    BY <2>1, <2>2, <2>3, <2>4, <2>5, <2>6, Zenon
  <2> QED BY <2>1, <2>7 DEF ReadRecord
<1>5. next_seen' \in BOOLEAN /\ flush_q' \in BOOLEAN
  <2>1. next_seen' = (fetch_counter = 2) /\ flush_q' = Flush(e)
    BY DEF Cycle, Fetch
  <2>2. Flush(e) \in BOOLEAN
    BY VerdictTime
  <2>3. (fetch_counter = 2) \in BOOLEAN
    OBVIOUS
  <2> QED BY <2>1, <2>2, <2>3, Zenon
<1>6. specq' \in Seq(Nat) /\ Len(specq') <= NSpeculation
  BY GuessStep
<1>7. legal' \in Seq(Nat) /\ Len(legal') <= 1 /\ ars' \in Seq(Nat)
  BY ReadsStep
<1>8. beat' \in 0..3 /\ fetch_counter' \in 0..3 /\ engaged' \in BOOLEAN
  <2>1. beat \in 0..3 /\ fetch_counter \in 0..3 /\ engaged \in BOOLEAN
    BY DEF IInv, StateTypes
  <2>2. fetch_counter' \in 0..3
    BY DecidedStep
  <2>3. beat' = IF RValid(e) /\ RReady(e) THEN (beat + 1) % 4 ELSE beat
    BY DEF Cycle, Read
  <2>4. beat' \in 0..3
    <3>1. (beat + 1) % 4 \in 0..3
      BY <2>1
    <3> QED BY <2>1, <2>3, <3>1, Zenon
  <2>5. engaged' = NextEngaged(e)
    BY DEF Cycle, Read
  <2>6. NextEngaged(e) \in BOOLEAN
    BY <2>1 DEF NextEngaged
  <2> QED BY <2>2, <2>4, <2>5, <2>6
<1>9. n_to_flush' \in 0..NSpeculation
  BY LiveStep
<1>10. reqs' \in Seq(Nat) /\ Len(reqs') <= PendingFifoDepth
  BY SlotStep
<1>11. wb' \in Seq(Nat) /\ aws' \in Seq(Nat) /\ backend' \in Seq(Nat) /\ due' \in Seq(Nat) /\ irqs' \in Seq(Nat)
  BY QueueTypes, HoldStep
<1>12. unsent' \in Nat
  BY HoldStep
<1>13. lost' \subseteq {"irq", "addr"} /\ repeated' \in BOOLEAN
  <2>1. /\ lost' = lost \cup (IF IrqDropped THEN {"irq"} ELSE {}) \cup (IF AddrDropped(e) THEN {"addr"} ELSE {})
        /\ repeated' = (repeated \/ (fetch_counter = 1 /\ NextFetchCounter(e) = 1))
    BY DEF Cycle, Record
  <2>2. lost \subseteq {"irq", "addr"} /\ repeated \in BOOLEAN
    BY DEF IInv, StateTypes
  <2> QED BY <2>1, <2>2
<1> QED BY <1>1, <1>2, <1>3, <1>4, <1>5, <1>6, <1>7, <1>8, <1>9, <1>10, <1>11, <1>12, <1>13 DEF StateTypes

LEMMA DfInit ==
    ASSUME Init PROVE DfInv
<1>1. Submittable /\ todo \in Seq(Seq(Nat))
  <2>1. Chains \in Seq(Seq(Nat) \ {<<>>})
    BY DescFrontendAssumption
  <2>2. Chains \in Seq(Seq(Nat))
    <3> DEFINE S == Seq(Nat) \ {<<>>}   T == Seq(Nat)
    <3>1. \A s \in S : s \in T
      OBVIOUS
    <3> HIDE DEF S, T
    <3>2. Chains \in Seq(S)
      BY <2>1 DEF S
    <3>3. PICK n \in Nat : Chains \in [1..n -> S]
      BY <3>2, SeqDef
    <3>4. Chains \in [1..n -> T]
      BY <3>1, <3>3
    <3>5. Chains \in Seq(T)
      BY <3>4, SeqDef
    <3> QED BY <3>5 DEF T
  <2> QED BY <2>1, <2>2 DEF Init, Submittable
<1>2. /\ NSpeculation \in Nat \ {0, 1} /\ PendingFifoDepth \in Nat \ {0} /\ BackendDepth \in Nat \ {0}
      /\ BackendHolds \in Nat \ {0} /\ AwsUnanswered \in Nat \ {0}
  BY DescFrontendAssumption
<1>4. Len(<<>>) = 0 /\ <<>> \in Seq(Nat) /\ <<>> \in Seq(ReadRecord)
  BY EmptySeq
<1>5. StateTypes
  <2>1. ars = <<>> /\ legal = <<>> /\ pending = <<>> /\ specq = <<>> /\ reqs = <<>>
    BY DEF Init
  <2>2. unsent \in Nat /\ lost \subseteq {"irq", "addr"} /\ repeated \in BOOLEAN
    BY DEF Init
  <2>3. Len(specq) <= NSpeculation /\ Len(pending) <= NSpeculation /\ Len(legal) <= 1 /\ Len(reqs) <= PendingFifoDepth
    BY <1>2, <1>4, <2>1
  <2>4. inflight \in 0..NSpeculation /\ n_to_flush \in 0..NSpeculation
    BY <1>2 DEF Init
  <2>5. /\ input \in Seq(Nat) /\ specq \in Seq(Nat) /\ pending \in Seq(ReadRecord) /\ legal \in Seq(Nat)
        /\ ars \in Seq(Nat) /\ reqs \in Seq(Nat) /\ wb \in Seq(Nat) /\ irqs \in Seq(Nat) /\ aws \in Seq(Nat)
        /\ backend \in Seq(Nat) /\ due \in Seq(Nat)
    BY <1>4 DEF Init
  <2>6. /\ base_valid \in BOOLEAN /\ base_addr \in Nat /\ next_seen \in BOOLEAN /\ flush_q \in BOOLEAN
        /\ beat \in 0..3 /\ fetch_counter \in 0..3 /\ engaged \in BOOLEAN
    <3>1. FALSE \in BOOLEAN /\ 0 \in Nat /\ 0 \in 0..3
      OBVIOUS
    <3>2. /\ base_valid = FALSE /\ base_addr = 0 /\ next_seen = FALSE /\ flush_q = FALSE
          /\ beat = 0 /\ fetch_counter = 0 /\ engaged = FALSE
      BY DEF Init
    <3> QED BY ONLY <3>1, <3>2
  <2> QED BY <1>1, <2>2, <2>3, <2>4, <2>5, <2>6 DEF StateTypes, ReadRecord
<1>6. Held = 0 /\ n_to_flush = 0 /\ Live = 0
  <2>1. Held = 0
    BY DEF Init, Held, Decided
  <2>2. Len(ars) = 0 /\ Len(legal) = 0 /\ n_to_flush = 0
    BY <1>4 DEF Init
  <2> QED BY <2>1, <2>2 DEF Live
<1>7. ReaderInv
  BY DEF Init, ReaderInv, Decided
<1>8. RunInv
  <2>1. Len(pending) = 0 /\ inflight = 0 /\ pending = <<>> /\ ~flush_q
    BY <1>4 DEF Init
  <2> QED BY <1>6, <2>1 DEF RunInv
<1>9. GuessInv
  <2>1. Len(specq) = 0 /\ fetch_counter = 0
    BY <1>4 DEF Init
  <2> QED BY <1>6, <2>1 DEF GuessInv, Guesses, ThisCycle
<1>10. SlotInv
  <2>1. Len(reqs) = 0 /\ inflight = 0
    BY <1>4 DEF Init
  <2> QED BY <1>2, <1>6, <2>1 DEF SlotInv
<1>11. <<>> \o <<>> = <<>>
  BY EmptyConcat, Zenon, <1>4
<1>12. WbInv
  <2>1. Read1 = <<>> /\ Read2 = <<>>
    BY <1>6 DEF Init, Read1, Read2, OneIf, Decided
  <2> QED BY <1>11, <2>1 DEF Init, WbInv, Place
<1>13. FlagsInv
  <2>1. Len(due) = 0 /\ Len(aws) = 0 /\ Len(backend) = 0 /\ Len(reqs) = 0 /\ Len(irqs) = 0
    BY <1>4 DEF Init
  <2>2. Len(AwaitingReport) = 0
    BY <1>5, <2>1, AwaitingType
  <2>3. One(fetch_counter > 1) = 0
    BY DEF Init, One
  <2> QED BY <2>1, <2>2, <2>3 DEF FlagsInv
<1>14. HoldInv
  <2>1. Len(due) = 0 /\ Len(aws) = 0 /\ Len(backend) = 0 /\ unsent = 0
        /\ Len(wb) = 0 /\ Len(irqs) = 0
    BY <1>4 DEF Init
  <2> QED BY <1>2, <2>1 DEF HoldInv, MaxAWWPending, WbDepth, IrqDepth
<1> QED BY <1>1, <1>5, <1>7, <1>8, <1>9, <1>10, <1>12, <1>13, <1>14 DEF DfInv, IInv

(* A cycle keeps it.                                                       *)
LEMMA DfStep ==
    ASSUME DfInv, NEW e \in SUBSET Offers, Cycle(e)
    PROVE  DfInv'
<1>1. IInv /\ todo \in Seq(Seq(Nat) \ {<<>>})
  BY DEF DfInv, Submittable
<1>2. ReaderInv'
  BY <1>1, ReaderStep
<1>3. RunInv' /\ GuessInv' /\ SlotInv'
  BY <1>1, RunStep, GuessStep, SlotStep
<1>4. WbInv' /\ FlagsInv' /\ HoldInv'
  <2>1. Kept' => wb' = Place'
    BY <1>1, WbStep
  <2>2. lost' = {} => Len(irqs') >= Len(AwaitingReport') + One(fetch_counter' > 1)
    BY <1>1, FlagsStep
  <2>3. HoldInv'
    BY <1>1, HoldStep
  <2> QED BY <2>1, <2>2, <2>3 DEF WbInv, FlagsInv
<1>5. StateTypes' /\ Submittable'
  BY <1>1, TypeStep
<1> QED BY <1>2, <1>3, <1>4, <1>5 DEF DfInv, IInv

(* It speaks of the state only.                                            *)
LEMMA DfStutter ==
    ASSUME DfInv, UNCHANGED vars PROVE DfInv'
<1>1. /\ UNCHANGED <<todo, input, reqs, base_valid, base_addr, inflight, next_seen, flush_q, specq, pending, legal>>
      /\ UNCHANGED <<ars, beat, fetch_counter, n_to_flush, engaged, wb, irqs, aws, unsent, backend, due, lost, repeated>>
  BY DEF vars, fetch, read, report
<1>2. Held' = Held /\ Live' = Live /\ Decided' = Decided /\ ThisCycle' = ThisCycle
  BY <1>1 DEF Held, Live, Decided, ThisCycle
<1>3. Read1' = Read1 /\ Read2' = Read2 /\ Flagged' = Flagged /\ AwaitingReport' = AwaitingReport
  BY <1>1, <1>2 DEF Read1, Read2, Flagged, AwaitingReport
<1>4. StateTypes' /\ Submittable'
  BY <1>1 DEF DfInv, IInv, StateTypes, Submittable
<1>5. ReaderInv'
  BY <1>1, <1>2 DEF DfInv, IInv, ReaderInv
<1>6. RunInv'
  BY <1>1, <1>2 DEF DfInv, IInv, RunInv
<1>7. GuessInv'
  BY <1>1, <1>2 DEF DfInv, IInv, GuessInv, Guesses
<1>8. SlotInv' /\ HoldInv'
  BY <1>1, <1>2 DEF DfInv, IInv, SlotInv, HoldInv, WbDepth, IrqDepth, MaxAWWPending
<1>9. WbInv' /\ FlagsInv'
  BY <1>1, <1>3 DEF DfInv, IInv, WbInv, FlagsInv, Place, Kept
<1> QED BY <1>4, <1>5, <1>6, <1>7, <1>8, <1>9 DEF DfInv, IInv

(* The invariant the rest follows from, whatever the backend and the       *)
(* memory hold and whether the memory pauses or not.                       *)
THEOREM DfInvariance == Spec => []DfInv
<1>1. Init => DfInv
  BY DfInit
<1>2. DfInv /\ [Next]_vars => DfInv'
  BY DfStep, DfStutter DEF Next
<1> QED BY <1>1, <1>2, PTL DEF Spec

----------------------------------------------------------------------------
(* The flags, until one is lost or offered twice. *)

(* They are those of the descriptors not reported.                         *)
LEMMA IrqStep ==
    ASSUME DfInv, IrqInv, NEW e \in SUBSET Offers, Cycle(e), lost' = {}, ~repeated'
    PROVE  irqs' = AwaitingReport' \o Flagged'
<1> DEFINE A == AwaitingReport   F == Flagged   N == NewReq(e)   bs == BSent(e)   K == Rest(A, bs)
           Q == OneIf(IrqPush, Head(ars))   F2 == OneIf(fetch_counter' > 1, Head(ars'))
<1>0. IInv /\ todo \in Seq(Seq(Nat) \ {<<>>})
  BY DEF DfInv, Submittable
<1>1. F \in Seq(Nat) /\ N \in Seq(Nat) /\ A' = K \o N /\ fetch_counter \in 0..3
  <2>1. Kept'
    BY <1>0, NoneLost
  <2> QED BY <1>0, <2>1, PartTypes, QueueTypes, QueuesStep DEF IInv, StateTypes
<1>2. bs \in BOOLEAN /\ (bs => due # <<>>)
  BY <1>0, QueueTypes
<1>3. A \in Seq(Nat) /\ (bs => A # <<>>)
  BY <1>0, <1>2, AwaitingType DEF IInv
<1>4. irqs = A \o F /\ (fetch_counter = 1 => fetch_counter' # 1)
  <2>1. /\ repeated' = (repeated \/ (fetch_counter = 1 /\ NextFetchCounter(e) = 1))
        /\ fetch_counter' = NextFetchCounter(e)
    BY DEF Cycle, Record, Read
  <2>2. repeated \in BOOLEAN
    BY <1>0 DEF IInv, StateTypes
  <2>3. ~repeated /\ ~(fetch_counter = 1 /\ NextFetchCounter(e) = 1)
    BY <2>1, <2>2
  <2>4. lost = {}
    BY <1>0, NoneLost
  <2> QED BY <2>1, <2>3, <2>4 DEF IrqInv
<1>5. irqs' = Rest(irqs, bs) \o Q
  BY DEF Cycle, Report
<1>6. Flagged' = F2
  BY DEF Flagged
<1>7. IrqPush <=> fetch_counter = 1
  <2>1. fetch_counter = 1 => Len(irqs) < IrqDepth
    BY <1>0, NoneLost
  <2> QED BY <2>1 DEF IrqPush, IrqValid
<1>9. /\ ReqPush(e) => fetch_counter = 3
      /\ fetch_counter = 0 => ~(fetch_counter' > 1)
      /\ fetch_counter = 1 \/ fetch_counter = 2 => fetch_counter' > 1
      /\ fetch_counter = 3 => (fetch_counter' > 1 <=> ~ReqPush(e))
      /\ fetch_counter # 0 /\ ~ReqPush(e) => ~Pops(e)
      /\ fetch_counter # 0 => ars # <<>>
  <2>1. CASE Idles(e) \/ Begins(e) \/ Discards(e)
    BY <1>1, <2>1 DEF Idles, Begins, Discards
  <2>2. CASE Pauses(e) \/ Advances(e)
    BY <1>1, <1>4, <2>2 DEF Pauses, Advances, Stays
  <2>3. CASE Finishes(e)
    BY <1>1, <2>3 DEF Finishes
  <2> QED BY <1>0, <2>1, <2>2, <2>3, ReaderTurn
<1>10. fetch_counter # 0 /\ ~ReqPush(e) => ars' # <<>> /\ Head(ars') = Head(ars) /\ ars # <<>>
  BY <1>0, <1>9, ReadsStep
<1>11. Q \in Seq(Nat)
  <2>1. ars \in Seq(Nat)
    BY <1>0 DEF IInv, StateTypes
  <2>2. fetch_counter = 1 => Head(ars) \in Nat
    BY <1>9, <2>1, HeadTailProperties
  <2>3. <<>> \in Seq(Nat) /\ \A x \in Nat : <<x>> \in Seq(Nat)
    OBVIOUS
  <2> QED BY <1>7, <2>2, <2>3, Zenon DEF OneIf
<1>12. F \o Q = N \o F2 /\ F2 \in Seq(Nat)
  <2>1. CASE fetch_counter = 0
    <3>1. fetch_counter # 1 /\ ~ReqPush(e) /\ ~(fetch_counter > 1) /\ ~(fetch_counter' > 1)
      BY <1>9, <2>1
    <3>2. F = <<>> /\ N = <<>>
      BY <1>9, <2>1, <3>1, Zenon DEF Flagged, NewReq, OneIf
    <3>3. Q = <<>> /\ F2 = <<>>
      BY <1>7, <2>1, <3>1, Zenon DEF OneIf
    <3> QED BY <1>1, <3>2, <3>3
  <2>2. CASE fetch_counter = 1
    <3>1. ~ReqPush(e) /\ ~(fetch_counter > 1) /\ fetch_counter' > 1
      BY <1>9, <2>2
    <3>2. F = <<>> /\ N = <<>>
      BY <1>9, <2>2, <3>1, Zenon DEF Flagged, NewReq, OneIf
    <3>3. Q = <<Head(ars)>> /\ F2 = <<Head(ars')>>
      BY <1>7, <2>2, <3>1, Zenon DEF OneIf
    <3>4. Q = F2
      BY <1>10, <2>2, <3>1, <3>3
    <3> HIDE DEF Q, F2
    <3> QED BY <1>1, <1>11, <3>2, <3>4
  <2>3. CASE fetch_counter > 1 /\ ~ReqPush(e)
    <3>1. fetch_counter # 0 /\ fetch_counter # 1 /\ fetch_counter' > 1
      BY <1>1, <1>9, <2>3
    <3>2. F = <<Head(ars)>> /\ N = <<>>
      BY <2>3, Zenon DEF Flagged, NewReq, OneIf
    <3>3. Q = <<>> /\ F2 = <<Head(ars')>>
      BY <1>7, <3>1, Zenon DEF OneIf
    <3>4. F = F2
      BY <1>10, <2>3, <3>1, <3>2, <3>3
    <3> HIDE DEF Q, F2, F, N
    <3>5. F \o <<>> = F /\ <<>> \o F = F
      BY <1>1, EmptyConcat, Zenon
    <3> QED BY <1>1, <3>2, <3>3, <3>4, <3>5
  <2>4. CASE fetch_counter > 1 /\ ReqPush(e)
    <3>1. fetch_counter # 1 /\ ~(fetch_counter' > 1)
      BY <1>9, <2>4
    <3>2. F = <<Head(ars)>> /\ N = <<Head(ars)>>
      BY <2>4, Zenon DEF Flagged, NewReq, OneIf
    <3>3. Q = <<>> /\ F2 = <<>>
      BY <1>7, <3>1, Zenon DEF OneIf
    <3> HIDE DEF Q, F2, F, N
    <3> QED BY <1>1, <1>11, <3>2, <3>3
  <2>5. fetch_counter = 0 \/ fetch_counter = 1 \/ fetch_counter > 1
    BY <1>1
  <2> QED BY <2>1, <2>2, <2>3, <2>4, <2>5, Zenon
<1> DEFINE A2 == A'
<1> HIDE DEF A, A2, F, N, bs, Q, F2
<1>13. K \in Seq(Nat)
  BY <1>2, <1>3, RestType
<1>14. Rest(A \o F, bs) = K \o F
  BY <1>1, <1>2, <1>3, RestThen
<1> HIDE DEF K
<1>15. (K \o F) \o Q = K \o (F \o Q)
  BY <1>1, <1>11, <1>13, Associative, Zenon
<1>16. (K \o N) \o F2 = K \o (N \o F2)
  BY <1>1, <1>12, <1>13, Associative, Zenon
<1>17. irqs' = A2 \o F2
  BY <1>1, <1>4, <1>5, <1>12, <1>14, <1>15, <1>16 DEF A2
<1> QED BY <1>6, <1>17 DEF A2, A

LEMMA IrqInvariance == Spec => [](DfInv /\ IrqInv)
<1>1. Init => IrqInv
  <2> SUFFICES ASSUME Init PROVE IrqInv
    OBVIOUS
  <2>1. Flagged = <<>> /\ due = <<>> /\ aws = <<>> /\ backend = <<>> /\ reqs = <<>> /\ irqs = <<>>
    BY DEF Init, Flagged, OneIf
  <2>2. <<>> \o <<>> = <<>>
    BY EmptyConcat, EmptySeq
  <2> QED BY <2>1, <2>2 DEF IrqInv, AwaitingReport
<1>2. DfInv /\ IrqInv /\ [Next]_vars => IrqInv'
  <2>1. ASSUME DfInv, IrqInv, Next PROVE IrqInv'
    <3>1. PICK e \in SUBSET Offers : Cycle(e)
      BY <2>1 DEF Next
    <3>2. lost' = {} /\ ~repeated' => irqs' = AwaitingReport' \o Flagged'
      BY <2>1, <3>1, IrqStep
    <3> QED BY <3>2 DEF IrqInv
  <2>2. ASSUME IrqInv, UNCHANGED vars PROVE IrqInv'
    <3>1. UNCHANGED <<lost, repeated, irqs, due, aws, backend, reqs, fetch_counter, ars>>
      BY <2>2 DEF vars, read, report
    <3> QED BY <2>2, <3>1 DEF IrqInv, AwaitingReport, Flagged
  <2> QED BY <2>1, <2>2
<1> QED BY <1>1, <1>2, DfInvariance, PTL DEF Spec

----------------------------------------------------------------------------
(* What follows from it. *)

(* A queue that another begins with, entry by entry.                       *)
LEMMA PrefixPointwise ==
    ASSUME NEW s \in Seq(Nat), NEW t \in Seq(Nat), Len(s) <= Len(t), \A i \in 1..Len(s) : s[i] = t[i]
    PROVE  IsPrefix(s, t)
<1> DEFINE n == Len(s)   p == SubSeq(s, 1, n)   q == SubSeq(t, 1, n)
<1>1. n \in Nat /\ Len(t) \in Nat /\ n <= Len(t)
  BY LenProperties
<1>2. \A i \in 1..n : i \in 1..Len(s) /\ i \in 1..Len(t)
  BY <1>1
<1>3. p \in Seq(Nat) /\ Len(p) = n /\ \A i \in 1..n : p[i] = s[i]
  BY <1>1, <1>2, SubSeqProperties
<1>4. q \in Seq(Nat) /\ Len(q) = n /\ \A i \in 1..n : q[i] = t[i]
  BY <1>1, <1>2, SubSeqProperties
<1>5. \A i \in 1..n : s[i] = t[i]
  OBVIOUS
<1> HIDE DEF p, q, n
<1>6. p = q
  <2>1. Len(p) = Len(q) /\ \A i \in 1..Len(p) : p[i] = q[i]
    BY <1>3, <1>4, <1>5
  <2> QED BY <1>3, <1>4, <2>1, SeqEqual
<1> QED BY <1>1, <1>6 DEF IsPrefix, p, q, n

LEMMA PrefixOfConcat ==
    \A s, u \in Seq(Nat) : IsPrefix(s, s \o u)
<1> SUFFICES ASSUME NEW s \in Seq(Nat), NEW u \in Seq(Nat) PROVE IsPrefix(s, s \o u)
  OBVIOUS
<1> DEFINE t == s \o u
<1>1. Len(s) \in Nat /\ Len(u) \in Nat
  BY LenProperties
<1>2. /\ t \in Seq(Nat) /\ Len(t) = Len(s) + Len(u)
      /\ \A i \in 1..Len(s) + Len(u) : t[i] = IF i <= Len(s) THEN s[i] ELSE u[i - Len(s)]
  BY ConcatProperties
<1> HIDE DEF t
<1>3. Len(s) <= Len(t)
  BY <1>1, <1>2
<1>4. ASSUME NEW i \in 1..Len(s) PROVE s[i] = t[i]
  <2>1. i \in 1..Len(s) + Len(u) /\ i <= Len(s)
    BY <1>1
  <2> QED BY <1>2, <2>1
<1>5. IsPrefix(s, t)
  BY <1>2, <1>3, <1>4, PrefixPointwise
<1> QED BY <1>5 DEF t

(* The three FIFOs fill and empty in lockstep.                             *)
LEMMA InLockstep ==
    ASSUME DfInv, IrqInv PROVE Lockstep
<1>1. (lost = {} /\ ~repeated) => IrqsInStep
  BY DEF IrqInv, Flagged, IrqsInStep
<1> SUFFICES ASSUME Kept PROVE WbInStep
  BY <1>1 DEF Lockstep, Kept
<1> DEFINE B == backend \o reqs   X == OneIf(fetch_counter > 0, Head(ars))
<1>2. Read1 \in Seq(Nat) /\ Read2 \in Seq(Nat) /\ B \in Seq(Nat) /\ fetch_counter \in 0..3 /\ Live \in Int
  BY PartTypes, Lengths, ConcatProperties DEF DfInv, IInv, StateTypes
<1>3. wb = (B \o Read1) \o Read2
  BY DEF DfInv, IInv, WbInv, Place
<1> HIDE DEF B
<1>4. B \o Read1 \in Seq(Nat)
  BY <1>2, ConcatProperties
<1>5. IsPrefix(B \o X, wb)
  <2>1. CASE fetch_counter = 0
    <3>1. ~Decided /\ ~(fetch_counter > 0)
      BY <2>1 DEF Decided
    <3>2. X = Read1
      BY <3>1, Zenon DEF Read1, OneIf
    <3> QED BY <1>2, <1>3, <1>4, <3>2, PrefixOfConcat, Zenon
  <2>2. CASE Decided
    <3>1. fetch_counter > 0
      BY <2>2 DEF Decided
    <3>2. X = Read1
      BY <2>2, <3>1, Zenon DEF Read1, OneIf
    <3> QED BY <1>2, <1>3, <1>4, <3>2, PrefixOfConcat, Zenon
  <2>3. CASE fetch_counter = 1 \/ ThisCycle
    <3>1. ~Decided /\ fetch_counter > 0
      BY <2>3 DEF Decided, ThisCycle
    <3>2. Live > 0 /\ Head(ars) = base_addr
      <4>1. Live >= 1 /\ Head(ars) = base_addr
        BY <2>3, Window DEF DfInv
      <4> QED BY <1>2, <4>1
    <3>3. X = Read2
      BY <3>1, <3>2, Zenon DEF Read2, OneIf
    <3>4. Read1 = <<>>
      BY <3>1, Zenon DEF Read1, OneIf
    <3>5. wb = B \o X
      BY <1>2, <1>3, <3>3, <3>4, EmptyConcat, Zenon
    <3>6. wb \in Seq(Nat) /\ <<>> \in Seq(Nat)
      BY EmptySeq DEF DfInv, IInv, StateTypes
    <3>7. wb = wb \o <<>>
      BY <3>6, EmptyConcat, Zenon
    <3> QED BY <3>5, <3>6, <3>7, PrefixOfConcat, Zenon
  <2> QED BY <1>2, <2>1, <2>2, <2>3 DEF Decided, ThisCycle
<1>6. IsPrefix(backend \o reqs \o OneIf(fetch_counter > 0, Head(ars)), wb)
  BY <1>5 DEF B
<1> QED BY <1>6 DEF WbInStep

(* An interrupt flag finds room, unless more is underway than the front    *)
(* end is said to have to hold.                                            *)
LEMMA FlagRoom ==
    ASSUME DfInv, IrqInv, lost = {}, ~repeated, IrqDropped
    PROVE  Len(backend) + Len(due) > BackendDepth
<1>1. IInv /\ StateTypes /\ fetch_counter = 1 /\ Len(irqs) >= IrqDepth
  BY DEF DfInv, IInv, IrqDropped, IrqValid
<1>2. Flagged = <<>>
  BY <1>1 DEF Flagged, OneIf
<1>3. /\ AwaitingReport \in Seq(Nat)
      /\ Len(AwaitingReport) = Len(due) + Len(aws) + Len(backend) + Len(reqs)
  BY <1>1, AwaitingType
<1>4. irqs = AwaitingReport
  BY <1>2, <1>3, ConcatEmptySeq DEF IrqInv
<1>5. Len(aws) <= BackendDepth /\ Len(reqs) + Held + inflight <= PendingFifoDepth
  BY <1>1 DEF IInv, HoldInv, SlotInv, MaxAWWPending
<1>6. inflight >= 1
  BY <1>1, Window
<1>7. /\ Len(due) \in Nat /\ Len(aws) \in Nat /\ Len(backend) \in Nat /\ Len(reqs) \in Nat /\ Held \in 0..1
      /\ inflight \in Nat /\ PendingFifoDepth \in Nat /\ BackendDepth \in Nat
  BY <1>1, Lengths
<1> QED BY <1>1, <1>3, <1>4, <1>5, <1>6, <1>7 DEF IrqDepth, MaxAWWPending

(* What is lost first is explained by what is underway.                    *)
LEMMA LossExplained ==
    ASSUME DfInv, IrqInv PROVE DropsExplained
<1>1. IInv /\ repeated \in BOOLEAN
  BY DEF DfInv, IInv, StateTypes
<1>2. lost = {} /\ IrqDropped => repeated \/ Len(backend) + Len(due) > BackendDepth
  BY <1>1, FlagRoom
<1>3. ASSUME "addr" \notin lost, NEW e \in SUBSET (Offers \cap {"submit"}), AddrDropped(e)
      PROVE  Len(backend) > BackendDepth
  BY <1>1, <1>3, AddrRoom DEF Kept
<1>4. ars # <<>> /\ ~(engaged /\ n_to_flush > 0) => ReqReady
  BY <1>1, Room
<1> QED BY <1>2, <1>3, <1>4 DEF DropsExplained

(* The verdict on a guess is one.                                          *)
LEMMA OneVerdict ==
    ASSUME DfInv PROVE SpeculationUnambiguous
<1> SUFFICES ASSUME ThisCycle, NEW e PROVE CorrectWith(SpecView, e) = CorrectWith(specq, e)
  BY DEF SpeculationUnambiguous
<1>1. CorrectWith(SpecView, e) <=> CorrectWith(specq, e)
  BY Verdict DEF DfInv
<1> DEFINE x == CorrectWith(SpecView, e)   y == CorrectWith(specq, e)
<1>2. x \in BOOLEAN /\ y \in BOOLEAN
  BY DEF CorrectWith
<1>3. x <=> y
  BY <1>1
<1> HIDE DEF x, y
<1>4. x = y
  BY <1>2, <1>3
<1> QED BY <1>4 DEF x, y

(* "The three fifos for idma_req, irqs and feedback addresses must fill    *)
(* and empty in lockstep" (idma_desc64_top.sv): they do until one of them  *)
(* loses an entry or the memory pauses while a flag is offered, whatever   *)
(* was guessed and however much is underway.                               *)
THEOREM LockstepHolds == Spec => []Lockstep
BY IrqInvariance, InLockstep, PTL

(* The first entry a FIFO loses is explained by a flag offered twice or by *)
(* more transfers underway than the backend is said to hold, and a beat    *)
(* never meets a full request FIFO.                                        *)
THEOREM DropsAreExplained == Spec => []DropsExplained
BY IrqInvariance, LossExplained, PTL

(* The combinational loop between a flush and the queue of guesses has one *)
(* solution.                                                               *)
THEOREM SpeculationSettles == Spec => []SpeculationUnambiguous
BY DfInvariance, OneVerdict, PTL

----------------------------------------------------------------------------
(* What is handed on is what was submitted. *)

(* What the front end has taken on and not reported, oldest first.         *)
Handed == (due \o aws) \o wb

(* The place of the base address among what is owed.                       *)
BasePlace == (Len(Handed) + 1) - One(Live > 0)

(* A chain is linked as its descriptors are in memory.                     *)
Chained(chain) ==
    \A i \in 1..Len(chain) : NextOf(chain[i]) = IF i < Len(chain) THEN chain[i + 1] ELSE End

(* The queue q ends with the chains that wait in inp, and start[j] is the  *)
(* place of the first descriptor of the j-th of them.  From the place b on *)
(* each descriptor names the one after it, or is the last of its chain.    *)
Laid(q, start, inp, b) ==
    /\ start[Len(inp) + 1] = Len(q) + 1
    /\ \A i \in 1..Len(inp) + 1 : b <= start[i]
    /\ \A i, j \in 1..Len(inp) + 1 : i < j => start[i] < start[j]
    /\ \A j \in 1..Len(inp) : inp[j] = q[start[j]]
    /\ \A p \in b..Len(q) :
           NextOf(q[p]) = IF \E j \in 1..Len(inp) + 1 : start[j] = p + 1 THEN End ELSE q[p + 1]

Starts(q, inp) == [1..Len(inp) + 1 -> 1..Len(q) + 1]

(* The base address is at the place b, or the next chain will start there. *)
Based(q, start, b, valid, base) ==
    IF valid THEN b < start[1] /\ q[b] = base ELSE b = start[1]

OrderInv ==
    /\ owed \in Seq(Nat)
    /\ Len(Handed) <= Len(owed) /\ \A k \in 1..Len(Handed) : Handed[k] = owed[k]
    /\ \E start \in Starts(owed, input) :
           Laid(owed, start, input, BasePlace) /\ Based(owed, start, BasePlace, base_valid, base_addr)
    /\ \A j \in 1..Len(todo) : Chained(todo[j])

(* Another chain is submitted. *)
LEMMA LaidOn ==
    ASSUME NEW q \in Seq(Nat), NEW inp \in Seq(Nat), NEW start \in Starts(q, inp), NEW b \in Nat \ {0},
           Laid(q, start, inp, b), NEW c \in Seq(Nat), c # <<>>, Chained(c)
    PROVE  \E s \in Starts(q \o c, inp \o <<Head(c)>>) :
               Laid(q \o c, s, inp \o <<Head(c)>>, b) /\ s[1] = start[1]
<1> DEFINE n == Len(inp)   L == Len(q)   M == Len(c)   Q == q \o c   h == Head(c)   I == inp \o <<h>>
<1>1. n \in Nat /\ L \in Nat /\ M \in Nat \ {0} /\ h \in Nat /\ h = c[1]
  BY LenProperties, EmptySeq, HeadTailProperties
<1>2. /\ Q \in Seq(Nat) /\ Len(Q) = L + M
      /\ \A i \in 1..L + M : Q[i] = IF i <= L THEN q[i] ELSE c[i - L]
  BY ConcatProperties
<1>3. <<h>> \in Seq(Nat) /\ Len(<<h>>) = 1 /\ <<h>>[1] = h
  BY <1>1
<1>4. /\ I \in Seq(Nat) /\ Len(I) = n + 1
      /\ \A i \in 1..n + 1 : I[i] = IF i <= n THEN inp[i] ELSE <<h>>[i - n]
  <2> DEFINE s1 == <<h>>
  <2> HIDE DEF s1, h
  <2>1. s1 \in Seq(Nat) /\ Len(s1) = 1
    BY <1>3 DEF s1
  <2>2. inp \o s1 \in Seq(Nat) /\ Len(inp \o s1) = Len(inp) + Len(s1)
        /\ \A i \in 1..Len(inp) + Len(s1) : (inp \o s1)[i] = IF i <= Len(inp) THEN inp[i] ELSE s1[i - Len(inp)]
    BY <2>1, ConcatProperties
  <2> QED BY <2>1, <2>2 DEF s1
<1>5. /\ start[n + 1] = L + 1
      /\ \A i \in 1..n + 1 : b <= start[i]
      /\ \A i, j \in 1..n + 1 : i < j => start[i] < start[j]
      /\ \A j \in 1..n : inp[j] = q[start[j]]
      /\ \A p \in b..L :
             NextOf(q[p]) = IF \E j \in 1..n + 1 : start[j] = p + 1 THEN End ELSE q[p + 1]
  BY DEF Laid
<1>6. start \in [1..n + 1 -> 1..L + 1]
  BY DEF Starts
<1>7. \A i \in 1..M : NextOf(c[i]) = IF i < M THEN c[i + 1] ELSE End
  BY DEF Chained
<1> HIDE DEF n, L, M, Q, I, h
<1> DEFINE s == [i \in 1..n + 2 |-> IF i <= n + 1 THEN start[i] ELSE L + M + 1]
<1>8. /\ s \in [1..n + 2 -> 1..L + M + 1]
      /\ s[n + 2] = L + M + 1 /\ \A i \in 1..n + 1 : s[i] = start[i] /\ start[i] \in 1..L + 1
  <2>1. L + M + 1 \in 1..L + M + 1 /\ n + 2 \in 1..n + 2 /\ ~(n + 2 <= n + 1)
    BY <1>1
  <2>2. ASSUME NEW i \in 1..n + 1
        PROVE  i \in 1..n + 2 /\ i <= n + 1 /\ start[i] \in 1..L + 1 /\ start[i] \in 1..L + M + 1
    <3>1. start[i] \in 1..L + 1
      BY <1>6
    <3> QED BY <1>1, <3>1
  <2>3. ASSUME NEW i \in 1..n + 2
        PROVE  (IF i <= n + 1 THEN start[i] ELSE L + M + 1) \in 1..L + M + 1
    <3>1. i <= n + 1 => i \in 1..n + 1
      BY <1>1
    <3> QED BY <2>1, <2>2, <3>1
  <2> QED BY <2>1, <2>2, <2>3
<1>9. Len(I) + 1 = n + 2 /\ Len(Q) + 1 = L + M + 1
  BY <1>1, <1>2, <1>4
<1> HIDE DEF s
<1>10. \A i \in 1..n + 2 : b <= s[i]
  <2>1. n + 1 \in 1..n + 1
    BY <1>1
  <2>2. b <= L + 1
    BY <1>5, <2>1
  <2> SUFFICES ASSUME NEW i \in 1..n + 2 PROVE b <= s[i]
    OBVIOUS
  <2>3. CASE i = n + 2
    BY <1>1, <1>8, <2>2, <2>3
  <2>4. CASE i # n + 2
    <3>1. i \in 1..n + 1
      BY <1>1, <2>4
    <3> QED BY <1>5, <1>8, <3>1
  <2> QED BY <2>3, <2>4
<1>11. \A i, j \in 1..n + 2 : i < j => s[i] < s[j]
  <2> SUFFICES ASSUME NEW i \in 1..n + 2, NEW j \in 1..n + 2, i < j PROVE s[i] < s[j]
    OBVIOUS
  <2>1. i \in 1..n + 1
    BY <1>1
  <2>2. CASE j = n + 2
    BY <1>1, <1>8, <2>1, <2>2
  <2>3. CASE j # n + 2
    <3>1. j \in 1..n + 1
      BY <1>1, <2>3
    <3> QED BY <1>5, <1>8, <2>1, <3>1
  <2> QED BY <2>2, <2>3
<1>12. \A j \in 1..n + 1 : I[j] = Q[s[j]]
  <2> SUFFICES ASSUME NEW j \in 1..n + 1 PROVE I[j] = Q[s[j]]
    OBVIOUS
  <2>1. CASE j = n + 1
    <3>1. s[j] = L + 1
      BY <1>1, <1>5, <1>8, <2>1
    <3>2. Q[L + 1] = c[1]
      <4>1. L + 1 \in 1..L + M /\ ~(L + 1 <= L) /\ (L + 1) - L = 1
        BY <1>1
      <4> QED BY <1>2, <4>1
    <3>3. I[j] = h
      <4>1. ~(j <= n) /\ j - n = 1
        BY <1>1, <2>1
      <4> QED BY <1>3, <1>4, <4>1
    <3> QED BY <1>1, <3>1, <3>2, <3>3
  <2>2. CASE j # n + 1
    <3>1. j \in 1..n /\ j <= n /\ n + 1 \in 1..n + 1 /\ j < n + 1
      BY <1>1, <2>2
    <3>2. s[j] = start[j] /\ start[j] < L + 1 /\ start[j] \in 1..L + 1
      BY <1>5, <1>8, <3>1
    <3>3. start[j] \in 1..L + M /\ start[j] <= L
      BY <1>1, <3>2
    <3>4. Q[start[j]] = q[start[j]]
      BY <1>2, <3>3
    <3>5. I[j] = inp[j]
      BY <1>4, <3>1
    <3> QED BY <1>5, <3>1, <3>2, <3>4, <3>5
  <2> QED BY <2>1, <2>2
<1>13. \A p \in b..L + M :
           NextOf(Q[p]) = IF \E j \in 1..n + 2 : s[j] = p + 1 THEN End ELSE Q[p + 1]
  <2> SUFFICES ASSUME NEW p \in b..L + M
               PROVE  NextOf(Q[p]) = IF \E j \in 1..n + 2 : s[j] = p + 1 THEN End ELSE Q[p + 1]
    OBVIOUS
  <2>1. p \in Nat /\ p >= 1
    BY <1>1
  <2>2. CASE p <= L
    <3>1. p \in b..L
      BY <1>1, <2>2
    <3>2. (\E j \in 1..n + 2 : s[j] = p + 1) <=> (\E j \in 1..n + 1 : start[j] = p + 1)
      <4>1. ASSUME NEW j \in 1..n + 2, s[j] = p + 1 PROVE \E k \in 1..n + 1 : start[k] = p + 1
        <5>1. j # n + 2
          BY <1>1, <1>8, <2>2, <4>1
        <5>2. j \in 1..n + 1
          BY <1>1, <5>1
        <5> QED BY <1>8, <4>1, <5>2
      <4>2. ASSUME NEW j \in 1..n + 1, start[j] = p + 1 PROVE \E k \in 1..n + 2 : s[k] = p + 1
        <5>1. j \in 1..n + 2
          BY <1>1
        <5> QED BY <1>8, <4>2, <5>1
      <4> QED BY <4>1, <4>2
    <3>3. NextOf(q[p]) = IF \E j \in 1..n + 1 : start[j] = p + 1 THEN End ELSE q[p + 1]
      BY <1>5, <3>1
    <3>4. Q[p] = q[p]
      BY <1>1, <1>2, <2>1, <2>2
    <3>5. p < L => Q[p + 1] = q[p + 1]
      <4>1. p < L => p + 1 \in 1..L + M /\ p + 1 <= L
        BY <1>1
      <4> QED BY <1>2, <4>1
    <3>6. p = L => \E j \in 1..n + 1 : start[j] = p + 1
      <4>1. n + 1 \in 1..n + 1
        BY <1>1
      <4> QED BY <1>5, <4>1
    <3>7. p < L \/ p = L
      BY <1>1, <2>2
    <3> DEFINE here == \E j \in 1..n + 2 : s[j] = p + 1   there == \E j \in 1..n + 1 : start[j] = p + 1
    <3>8. /\ here <=> there
          /\ NextOf(q[p]) = IF there THEN End ELSE q[p + 1]
          /\ p = L => there
      BY <3>2, <3>3, <3>6
    <3> HIDE DEF here, there
    <3>9. NextOf(Q[p]) = IF here THEN End ELSE Q[p + 1]
      BY <3>4, <3>5, <3>7, <3>8
    <3> QED BY <3>9 DEF here
  <2>3. CASE p > L
    <3> DEFINE i == p - L
    <3>1. i \in 1..M /\ p \in 1..L + M /\ ~(p <= L)
      BY <1>1, <2>3
    <3>2. Q[p] = c[i]
      BY <1>2, <3>1
    <3>3. (\E j \in 1..n + 2 : s[j] = p + 1) <=> p = L + M
      <4>1. ASSUME NEW j \in 1..n + 2, s[j] = p + 1 PROVE p = L + M
        <5>1. j = n + 2
          <6> SUFFICES ASSUME j # n + 2 PROVE FALSE
            OBVIOUS
          <6>1. j \in 1..n + 1
            BY <1>1
          <6>2. s[j] \in 1..L + 1
            BY <1>8, <6>1
          <6> QED BY <1>1, <2>3, <4>1, <6>2
        <5> QED BY <1>1, <1>8, <4>1, <5>1
      <4>2. n + 2 \in 1..n + 2
        BY <1>1
      <4> QED BY <1>8, <4>1, <4>2
    <3>4. i < M <=> p # L + M
      BY <1>1, <3>1
    <3>5. i < M => Q[p + 1] = c[i + 1]
      <4>1. i < M => p + 1 \in 1..L + M /\ ~(p + 1 <= L) /\ (p + 1) - L = i + 1
        BY <1>1, <2>3
      <4> QED BY <1>2, <4>1
    <3> QED BY <1>7, <3>1, <3>2, <3>3, <3>4, <3>5
  <2> QED BY <1>1, <2>1, <2>2, <2>3
<1>14. s \in Starts(Q, I)
  BY <1>8, <1>9 DEF Starts
<1>15. Laid(Q, s, I, b)
  BY <1>2, <1>4, <1>8, <1>9, <1>10, <1>11, <1>12, <1>13 DEF Laid
<1>16. s[1] = start[1]
  BY <1>1, <1>8
<1> QED BY <1>14, <1>15, <1>16 DEF Q, I, h

(* The oldest descriptor is reported. *)
LEMMA LaidAfter ==
    ASSUME NEW q \in Seq(Nat), NEW inp \in Seq(Nat), NEW start \in Starts(q, inp), NEW b \in Nat,
           b >= 2, Laid(q, start, inp, b)
    PROVE  /\ q # <<>>
           /\ \E s \in Starts(Tail(q), inp) : Laid(Tail(q), s, inp, b - 1) /\ s[1] = start[1] - 1
<1> DEFINE n == Len(inp)   L == Len(q)   t == Tail(q)
<1>1. n \in Nat /\ L \in Nat /\ (q = <<>> => L = 0)
  BY LenProperties, EmptySeq
<1>2. /\ start[n + 1] = L + 1
      /\ \A i \in 1..n + 1 : b <= start[i]
      /\ \A i, j \in 1..n + 1 : i < j => start[i] < start[j]
      /\ \A j \in 1..n : inp[j] = q[start[j]]
      /\ \A p \in b..L :
             NextOf(q[p]) = IF \E j \in 1..n + 1 : start[j] = p + 1 THEN End ELSE q[p + 1]
  BY DEF Laid
<1>3. start \in [1..n + 1 -> 1..L + 1] /\ 1 \in 1..n + 1 /\ n + 1 \in 1..n + 1
  BY <1>1 DEF Starts
<1>4. b <= L + 1
  BY <1>2, <1>3
<1>5. q # <<>>
  BY <1>1, <1>4
<1>6. t \in Seq(Nat) /\ Len(t) = L - 1 /\ \A i \in 1..L - 1 : t[i] = q[i + 1]
  BY <1>5, HeadTailProperties
<1> HIDE DEF n, L, t
<1> DEFINE s == [i \in 1..n + 1 |-> start[i] - 1]
<1>7. \A i \in 1..n + 1 : start[i] - 1 \in 1..L /\ start[i] \in 1..L + 1
  <2> SUFFICES ASSUME NEW i \in 1..n + 1 PROVE start[i] - 1 \in 1..L /\ start[i] \in 1..L + 1
    OBVIOUS
  <2>1. start[i] \in 1..L + 1 /\ b <= start[i]
    BY <1>2, <1>3
  <2> QED BY <1>1, <2>1
<1>8. s \in [1..n + 1 -> 1..L] /\ \A i \in 1..n + 1 : s[i] = start[i] - 1
  BY <1>7
<1> HIDE DEF s
<1>9. s \in Starts(t, inp)
  <2>1. Len(t) + 1 = L
    BY <1>1, <1>6
  <2> QED BY <1>8, <2>1 DEF Starts, n
<1>10. s[n + 1] = Len(t) + 1
  BY <1>1, <1>2, <1>3, <1>6, <1>8
<1>11. \A i \in 1..n + 1 : b - 1 <= s[i]
  <2> SUFFICES ASSUME NEW i \in 1..n + 1 PROVE b - 1 <= s[i]
    OBVIOUS
  <2>1. s[i] = start[i] - 1 /\ b <= start[i] /\ start[i] \in 1..L + 1
    BY <1>2, <1>7, <1>8
  <2> QED BY <1>1, <2>1
<1>12. \A i, j \in 1..n + 1 : i < j => s[i] < s[j]
  <2> SUFFICES ASSUME NEW i \in 1..n + 1, NEW j \in 1..n + 1, i < j PROVE s[i] < s[j]
    OBVIOUS
  <2>1. start[i] < start[j] /\ start[i] \in 1..L + 1 /\ start[j] \in 1..L + 1
    BY <1>2, <1>7
  <2>2. s[i] = start[i] - 1 /\ s[j] = start[j] - 1
    BY <1>8
  <2> QED BY <1>1, <2>1, <2>2
<1>13. \A j \in 1..n : inp[j] = t[s[j]]
  <2> SUFFICES ASSUME NEW j \in 1..n PROVE inp[j] = t[s[j]]
    OBVIOUS
  <2>1. j \in 1..n + 1 /\ j < n + 1
    BY <1>1
  <2>2. start[j] < L + 1 /\ start[j] \in 1..L + 1 /\ start[j] - 1 \in 1..L /\ s[j] = start[j] - 1
    BY <1>2, <1>3, <1>7, <1>8, <2>1
  <2>3. s[j] \in 1..L - 1 /\ s[j] + 1 = start[j]
    BY <1>1, <2>2
  <2> QED BY <1>2, <1>6, <2>3
<1>14. \A p \in b - 1..Len(t) :
           NextOf(t[p]) = IF \E j \in 1..n + 1 : s[j] = p + 1 THEN End ELSE t[p + 1]
  <2> SUFFICES ASSUME NEW p \in b - 1..Len(t)
               PROVE  NextOf(t[p]) = IF \E j \in 1..n + 1 : s[j] = p + 1 THEN End ELSE t[p + 1]
    OBVIOUS
  <2> DEFINE r == p + 1
             here == \E j \in 1..n + 1 : s[j] = p + 1   there == \E j \in 1..n + 1 : start[j] = r + 1
  <2>1. r \in b..L /\ p \in 1..L - 1
    BY <1>1, <1>6
  <2>2. t[p] = q[r]
    BY <1>6, <2>1
  <2>3. NextOf(q[r]) = IF there THEN End ELSE q[r + 1]
    BY <1>2, <2>1
  <2>4. here <=> there
    <3>1. ASSUME NEW j \in 1..n + 1 PROVE (s[j] = p + 1) <=> (start[j] = r + 1)
      <4>1. s[j] = start[j] - 1 /\ start[j] \in 1..L + 1
        BY <1>7, <1>8
      <4> QED BY <1>1, <2>1, <4>1
    <3> QED BY <3>1
  <2>5. r = L => there
    BY <1>2, <1>3
  <2>6. r < L => t[p + 1] = q[r + 1]
    <3>1. r < L => p + 1 \in 1..L - 1
      BY <1>1, <2>1
    <3> QED BY <1>6, <3>1
  <2>7. r < L \/ r = L
    BY <1>1, <2>1
  <2> HIDE DEF here, there, r
  <2>8. NextOf(t[p]) = IF here THEN End ELSE t[p + 1]
    BY <2>2, <2>3, <2>4, <2>5, <2>6, <2>7
  <2> QED BY <2>8 DEF here
<1>15. Laid(t, s, inp, b - 1)
  BY <1>10, <1>11, <1>12, <1>13, <1>14 DEF Laid, n
<1>16. s[1] = start[1] - 1
  BY <1>3, <1>8
<1> QED BY <1>5, <1>9, <1>15, <1>16 DEF t

(* The first of the waiting chains is begun. *)
LEMMA LaidNext ==
    ASSUME NEW q \in Seq(Nat), NEW inp \in Seq(Nat), NEW start \in Starts(q, inp), NEW b \in Nat,
           Laid(q, start, inp, b), inp # <<>>
    PROVE  /\ Head(inp) = q[start[1]]
           /\ \E s \in Starts(q, Tail(inp)) : Laid(q, s, Tail(inp), start[1]) /\ start[1] < s[1]
<1> DEFINE n == Len(inp)   L == Len(q)   I == Tail(inp)   c == start[1]
<1>1. n \in Nat \ {0} /\ L \in Nat /\ Head(inp) = inp[1]
  BY LenProperties, EmptySeq
<1>2. /\ start[n + 1] = L + 1
      /\ \A i \in 1..n + 1 : b <= start[i]
      /\ \A i, j \in 1..n + 1 : i < j => start[i] < start[j]
      /\ \A j \in 1..n : inp[j] = q[start[j]]
      /\ \A p \in b..L :
             NextOf(q[p]) = IF \E j \in 1..n + 1 : start[j] = p + 1 THEN End ELSE q[p + 1]
  BY DEF Laid
<1>3. start \in [1..n + 1 -> 1..L + 1] /\ 1 \in 1..n + 1 /\ 1 \in 1..n
  BY <1>1 DEF Starts
<1>4. I \in Seq(Nat) /\ Len(I) = n - 1 /\ \A i \in 1..n - 1 : I[i] = inp[i + 1]
  BY HeadTailProperties
<1>5. Head(inp) = q[c]
  BY <1>1, <1>2, <1>3
<1>6. c \in 1..L + 1 /\ b <= c
  BY <1>2, <1>3
<1> HIDE DEF n, L, I, c
<1> DEFINE s == [i \in 1..n |-> start[i + 1]]
<1>7. \A i \in 1..n : i + 1 \in 1..n + 1 /\ i < i + 1 /\ 1 < i + 1
  BY <1>1
<1>8. s \in [1..n -> 1..L + 1] /\ \A i \in 1..n : s[i] = start[i + 1]
  BY <1>3, <1>7
<1> HIDE DEF s
<1>9. Len(I) + 1 = n
  BY <1>1, <1>4
<1>10. s \in Starts(q, I)
  BY <1>8, <1>9 DEF Starts, L
<1>11. s[n] = L + 1
  BY <1>1, <1>2, <1>8
<1>12. \A i \in 1..n : c < s[i]
  BY <1>2, <1>3, <1>7, <1>8 DEF c
<1>13. \A i, j \in 1..n : i < j => s[i] < s[j]
  <2> SUFFICES ASSUME NEW i \in 1..n, NEW j \in 1..n, i < j PROVE s[i] < s[j]
    OBVIOUS
  <2>1. i + 1 \in 1..n + 1 /\ j + 1 \in 1..n + 1 /\ i + 1 < j + 1
    BY <1>1
  <2> QED BY <1>2, <1>8, <2>1
<1>14. \A j \in 1..n - 1 : I[j] = q[s[j]]
  <2> SUFFICES ASSUME NEW j \in 1..n - 1 PROVE I[j] = q[s[j]]
    OBVIOUS
  <2>1. j \in 1..n /\ j + 1 \in 1..n
    BY <1>1
  <2> QED BY <1>2, <1>4, <1>8, <2>1
<1>15. \A p \in c..L : NextOf(q[p]) = IF \E j \in 1..n : s[j] = p + 1 THEN End ELSE q[p + 1]
  <2> SUFFICES ASSUME NEW p \in c..L
               PROVE  NextOf(q[p]) = IF \E j \in 1..n : s[j] = p + 1 THEN End ELSE q[p + 1]
    OBVIOUS
  <2> DEFINE here == \E j \in 1..n : s[j] = p + 1   there == \E j \in 1..n + 1 : start[j] = p + 1
  <2>1. p \in b..L
    BY <1>1, <1>6
  <2>2. here <=> there
    <3>1. ASSUME NEW j \in 1..n, s[j] = p + 1 PROVE there
      BY <1>7, <1>8, <3>1
    <3>2. ASSUME NEW j \in 1..n + 1, start[j] = p + 1 PROVE here
      <4>1. j # 1
        BY <1>1, <1>6, <3>2 DEF c
      <4>2. j - 1 \in 1..n /\ (j - 1) + 1 = j
        BY <1>1, <4>1
      <4>3. s[j - 1] = p + 1
        BY <1>8, <3>2, <4>2
      <4> QED BY <4>2, <4>3
    <3> QED BY <3>1, <3>2
  <2>3. NextOf(q[p]) = IF there THEN End ELSE q[p + 1]
    BY <1>2, <2>1
  <2> HIDE DEF here, there
  <2>4. NextOf(q[p]) = IF here THEN End ELSE q[p + 1]
    BY <2>2, <2>3
  <2> QED BY <2>4 DEF here
<1>16. Laid(q, s, I, c)
  <2>1. s[Len(I) + 1] = Len(q) + 1 /\ \A i \in 1..Len(I) + 1 : c <= s[i]
    <3>1. \A i \in 1..n : s[i] \in 1..L + 1
      BY <1>8
    <3> QED BY <1>6, <1>9, <1>11, <1>12, <3>1 DEF L
  <2> QED BY <1>4, <1>9, <1>13, <1>14, <1>15, <2>1 DEF Laid, L
<1>17. 1 \in 1..n
  BY <1>1
<1> QED BY <1>5, <1>10, <1>12, <1>16, <1>17 DEF I, c

(* What follows a descriptor at which no chain is about to start.          *)
LEMMA LaidNow ==
    ASSUME NEW q \in Seq(Nat), NEW inp \in Seq(Nat), NEW start \in Starts(q, inp), NEW b \in Nat \ {0},
           Laid(q, start, inp, b), b < start[1]
    PROVE  /\ Laid(q, start, inp, b + 1)
           /\ NextOf(q[b]) = End => b + 1 = start[1]
           /\ NextOf(q[b]) # End => b + 1 < start[1] /\ NextOf(q[b]) = q[b + 1]
<1> DEFINE n == Len(inp)   L == Len(q)   c == start[1]
<1>1. n \in Nat /\ L \in Nat
  BY LenProperties
<1>2. /\ start[n + 1] = L + 1
      /\ \A i, j \in 1..n + 1 : i < j => start[i] < start[j]
      /\ \A j \in 1..n : inp[j] = q[start[j]]
      /\ \A p \in b..L :
             NextOf(q[p]) = IF \E j \in 1..n + 1 : start[j] = p + 1 THEN End ELSE q[p + 1]
  BY DEF Laid
<1>3. start \in [1..n + 1 -> 1..L + 1] /\ 1 \in 1..n + 1 /\ n + 1 \in 1..n + 1
  BY <1>1 DEF Starts
<1>4. c \in 1..L + 1 /\ b < c
  BY <1>3
<1>5. \A i \in 1..n + 1 : c <= start[i] /\ start[i] \in 1..L + 1
  <2> SUFFICES ASSUME NEW i \in 1..n + 1 PROVE c <= start[i] /\ start[i] \in 1..L + 1
    OBVIOUS
  <2>1. i = 1 \/ 1 < i
    BY <1>1
  <2>2. start[i] \in 1..L + 1
    BY <1>3
  <2>3. 1 < i => start[1] < start[i]
    BY <1>2, <1>3
  <2> QED BY <1>1, <1>4, <2>1, <2>2, <2>3
<1> DEFINE there == \E j \in 1..n + 1 : start[j] = b + 1
<1>6. there => b + 1 = c
  <2> SUFFICES ASSUME NEW j \in 1..n + 1, start[j] = b + 1 PROVE b + 1 = c
    OBVIOUS
  <2>1. c <= b + 1
    BY <1>5
  <2> QED BY <1>4, <2>1
<1>7. b + 1 = c => there
  BY <1>3
<1>8. b \in b..L
  BY <1>1, <1>4
<1>9. NextOf(q[b]) = IF there THEN End ELSE q[b + 1]
  BY <1>2, <1>8
<1>10. b + 1 # c => q[b + 1] # End
  <2> SUFFICES ASSUME b + 1 # c PROVE q[b + 1] # End
    OBVIOUS
  <2>1. b + 1 \in 1..L
    BY <1>1, <1>4
  <2>2. q[b + 1] \in Nat
    BY <2>1, ElementOfSeq
  <2> QED BY <2>2 DEF End
<1>11. Laid(q, start, inp, b + 1)
  <2>1. \A i \in 1..n + 1 : b + 1 <= start[i]
    BY <1>1, <1>4, <1>5
  <2>2. \A p \in b + 1..L : p \in b..L
    BY <1>1
  <2> QED BY <1>2, <2>1, <2>2 DEF Laid
<1>12. b + 1 # c => b + 1 < c
  BY <1>1, <1>4
<1> HIDE DEF there, c
<1> QED BY <1>6, <1>7, <1>9, <1>10, <1>11, <1>12 DEF c

(* What was taken on ends with the base address once that is certain.      *)
HandedInv ==
    /\ Handed \in Seq(Nat) /\ Len(Handed) \in Nat
    /\ BasePlace \in Nat \ {0} /\ BasePlace \in {Len(Handed), Len(Handed) + 1}

LEMMA HandedFacts ==
    DfInv /\ Kept => HandedInv
<1> SUFFICES ASSUME DfInv, Kept PROVE HandedInv
  OBVIOUS
<1> DEFINE p == due \o aws   q == (backend \o reqs) \o Read1   D == p \o wb   l == One(Live > 0)
<1>1. /\ due \in Seq(Nat) /\ aws \in Seq(Nat) /\ wb \in Seq(Nat) /\ backend \in Seq(Nat) /\ reqs \in Seq(Nat)
      /\ Read1 \in Seq(Nat) /\ base_addr \in Nat
  BY PartTypes DEF DfInv, IInv, StateTypes
<1>2. p \in Seq(Nat) /\ q \in Seq(Nat)
  BY <1>1, ConcatProperties
<1> HIDE DEF p, q
<1>3. D \in Seq(Nat) /\ Len(D) = Len(p) + Len(wb) /\ Len(p) \in Nat /\ Len(wb) \in Nat /\ Len(q) \in Nat
  BY <1>1, <1>2, ConcatProperties, LenProperties
<1>4. wb = q \o Read2
  BY DEF DfInv, IInv, WbInv, Place, q
<1>5. l \in 0..1
  BY DEF One
<1>6. l = 1 => Len(wb) >= 1
  <2> SUFFICES ASSUME l = 1 PROVE Len(wb) >= 1
    OBVIOUS
  <2>1. Live > 0
    BY DEF One
  <2> DEFINE y == <<base_addr>>
  <2>2. Read2 = y
    BY <2>1, Zenon DEF Read2, OneIf
  <2>3. y \in Seq(Nat) /\ Len(y) = 1
    BY <1>1
  <2> HIDE DEF y, l
  <2>4. Len(q \o y) = Len(q) + Len(y)
    BY <1>2, <2>3, ConcatProperties
  <2> QED BY <1>3, <1>4, <2>2, <2>3, <2>4
<1>7. Handed = D /\ BasePlace = (Len(D) + 1) - l
  BY DEF Handed, BasePlace, p
<1> HIDE DEF D, l
<1>8. (Len(D) + 1) - l \in Nat \ {0} /\ (Len(D) + 1) - l \in {Len(D), Len(D) + 1} /\ Len(D) \in Nat
  <2>1. Len(D) \in Nat /\ (l = 1 => Len(D) >= 1)
    BY <1>3, <1>6
  <2>2. l = 0 \/ l = 1
    BY <1>5
  <2> QED BY ONLY <2>1, <2>2
<1> QED BY <1>3, <1>7, <1>8 DEF HandedInv

LEMMA HandedLater ==
    DfInv' /\ Kept' => HandedInv'
BY HandedFacts, PTL

(* How the place of the base address moves. *)
LEMMA PlaceStep ==
    ASSUME DfInv, Kept, NEW e \in SUBSET Offers, Cycle(e), NEW b,
           b = (Len(Handed) + Len(Feedback(e)) + 1) - One(Live' > 0)
    PROVE  /\ b = BasePlace + (IF ThisCycle THEN 1 ELSE 0)
           /\ Feedback(e) # <<>> => /\ Len(Feedback(e)) = 1 /\ Feedback(e)[1] = base_addr'
                                    /\ b = Len(Handed) + 1 /\ base_valid'
           /\ Feedback(e) = <<>> => Len(Feedback(e)) = 0
<1> DEFINE d == Len(Handed)   f == Feedback(e)   F == Len(f)   l == One(Live > 0)   l2 == One(Live' > 0)
<1>1. d \in Nat /\ BasePlace = (d + 1) - l
  BY HandedFacts DEF HandedInv, BasePlace
<1>2. /\ f \in Seq(Nat)
      /\ ~ThisCycle => /\ f = (IF Live = 0 /\ Live' > 0 THEN <<base_addr>> ELSE <<>>)
                       /\ Live' > 0 => base_addr' = base_addr
      /\ ThisCycle => f = (IF Live' > 0 THEN <<base_addr'>> ELSE <<>>)
  <2>1. Read2' = (IF Live' > 0 THEN <<base_addr'>> ELSE <<>>)
    BY DEF Read2, OneIf
  <2> QED BY <2>1, FeedbackStep DEF DfInv, Submittable
<1>3. Live \in Nat /\ Live' \in Nat /\ (~ThisCycle => Live' >= Live)
  <2>1. Live \in Int /\ Live >= 0
    BY Lengths DEF DfInv, IInv, RunInv
  <2>2. Live' \in Nat
    BY RowStep DEF DfInv, Submittable
  <2>3. ~ThisCycle => Live' = Live + Sent1(e)
    BY LiveStep DEF DfInv, Submittable
  <2>4. Sent1(e) \in 0..1
    BY DEF Sent1
  <2> QED BY <2>1, <2>2, <2>3, <2>4
<1>4. ThisCycle => Live > 0
  <2>1. ThisCycle => Live >= 1
    BY Window DEF DfInv
  <2> QED BY <1>3, <2>1
<1>5. Live' > 0 => base_valid'
  <2>1. RunInv' /\ StateTypes'
    BY DfStep DEF DfInv, IInv
  <2>2. inflight' = Live' + Len(pending') /\ Len(pending') \in Nat
    BY <2>1, LenProperties DEF RunInv, StateTypes
  <2>3. Live' > 0 => inflight' # 0
    BY <1>3, <2>2
  <2> QED BY <2>1, <2>3 DEF RunInv
<1>6. l \in 0..1 /\ (l = 1 <=> Live > 0) /\ l2 \in 0..1 /\ (l2 = 1 <=> Live' > 0)
  BY DEF One
<1>7. base_addr' \in Nat /\ base_addr \in Nat
  BY BaseStep, Lengths DEF DfInv, IInv, StateTypes, Submittable
<1>8. \A x \in Nat : Len(<<x>>) = 1 /\ <<x>>[1] = x /\ <<x>> # <<>>
  OBVIOUS
<1>9. Len(<<>>) = 0
  BY EmptySeq
<1>10. b = (d + F + 1) - l2
  OBVIOUS
<1> HIDE DEF d, f, l, l2
<1>11. f # <<>> => Live' > 0 /\ f = <<base_addr'>>
  BY <1>2
<1>12. /\ f # <<>> => F = 1 /\ f[1] = base_addr'
       /\ f = <<>> => F = 0
  BY <1>7, <1>8, <1>9, <1>11
<1>13. ThisCycle => (f # <<>> <=> Live' > 0)
  BY <1>2, <1>7, <1>8
<1>14. ~ThisCycle => (f # <<>> <=> Live = 0 /\ Live' > 0)
  BY <1>2, <1>7, <1>8
<1>15. F \in 0..1 /\ (F = 1 <=> f # <<>>)
  BY <1>12
<1> HIDE DEF F
<1>16. F = IF ThisCycle THEN l2 ELSE l2 - l
  <2>1. CASE ThisCycle
    BY <1>6, <1>13, <1>15, <2>1
  <2>2. CASE ~ThisCycle
    BY <1>3, <1>6, <1>14, <1>15, <2>2
  <2> QED BY <2>1, <2>2
<1>17. ThisCycle => l = 1
  BY <1>4, <1>6
<1>18. b = BasePlace + (IF ThisCycle THEN 1 ELSE 0)
  BY <1>1, <1>6, <1>10, <1>16, <1>17
<1>19. f # <<>> => b = d + 1
  BY <1>1, <1>6, <1>10, <1>11, <1>12
<1> QED BY <1>5, <1>11, <1>12, <1>18, <1>19 DEF f, F, d

(* What is submitted in this cycle is there in this cycle. *)
Submitted(e) == owed \o (IF Submits(e) THEN Head(todo) ELSE <<>>)

LEMMA SubmitStep ==
    ASSUME DfInv, Kept, OrderInv, NEW e
    PROVE  /\ Submitted(e) \in Seq(Nat) /\ InputView(e) \in Seq(Nat)
           /\ Len(Handed) <= Len(Submitted(e)) /\ \A k \in 1..Len(Handed) : Handed[k] = Submitted(e)[k]
           /\ \E start \in Starts(Submitted(e), InputView(e)) :
                  /\ Laid(Submitted(e), start, InputView(e), BasePlace)
                  /\ Based(Submitted(e), start, BasePlace, base_valid, base_addr)
<1> DEFINE Q == Submitted(e)   I == InputView(e)   b == BasePlace   D == Handed
<1>1. /\ owed \in Seq(Nat) /\ input \in Seq(Nat) /\ todo \in Seq(Seq(Nat) \ {<<>>})
      /\ Len(owed) \in Nat /\ Len(input) \in Nat
  BY LenProperties DEF OrderInv, DfInv, IInv, StateTypes, Submittable
<1>2. /\ D \in Seq(Nat) /\ Len(D) \in Nat /\ b \in Nat \ {0}
  BY HandedFacts DEF HandedInv
<1>3. Len(D) <= Len(owed) /\ \A k \in 1..Len(D) : D[k] = owed[k]
  BY DEF OrderInv
<1>4. PICK start \in Starts(owed, input) :
          Laid(owed, start, input, b) /\ Based(owed, start, b, base_valid, base_addr)
  BY DEF OrderInv
<1> HIDE DEF D, b
<1>5. CASE ~Submits(e)
  <2>1. Q = owed
    BY <1>1, <1>5, ConcatEmptySeq DEF Submitted
  <2>2. I = input
    BY <1>1, <1>5, ConcatEmptySeq DEF InputView, OneIf
  <2> QED BY <1>1, <1>3, <1>4, <2>1, <2>2 DEF D, b
<1>6. CASE Submits(e)
  <2> DEFINE c == Head(todo)   i2 == input \o <<Head(c)>>   q2 == owed \o c
  <2>1. c \in Seq(Nat) /\ c # <<>> /\ todo # <<>>
    <3>1. todo # <<>>
      BY <1>6 DEF Submits
    <3>2. Head(todo) \in Seq(Nat) \ {<<>>}
      BY <1>1, <3>1, HeadTailProperties
    <3> QED BY <3>1, <3>2
  <2>2. Chained(c)
    <3>1. c = todo[1] /\ 1 \in 1..Len(todo)
      BY <1>1, <2>1, EmptySeq, LenProperties
    <3> QED BY <3>1 DEF OrderInv
  <2>3. Q = q2
    BY <1>6 DEF Submitted
  <2>4. I = i2
    BY <1>6 DEF InputView, OneIf
  <2>5. i2 \in Seq(Nat)
    <3>1. Head(c) \in Nat
      BY <2>1, HeadTailProperties
    <3> DEFINE x == Head(c)
    <3> HIDE DEF x
    <3>2. x \in Nat
      BY <3>1 DEF x
    <3>3. <<x>> \in Seq(Nat)
      BY <3>2
    <3>4. input \o <<x>> \in Seq(Nat)
      BY <1>1, <3>3, ConcatProperties
    <3> QED BY <3>4 DEF x
  <2> HIDE DEF c
  <2>6. /\ q2 \in Seq(Nat) /\ Len(q2) = Len(owed) + Len(c) /\ Len(c) \in Nat
        /\ \A k \in 1..Len(owed) + Len(c) : q2[k] = IF k <= Len(owed) THEN owed[k] ELSE c[k - Len(owed)]
    BY <1>1, <2>1, ConcatProperties, LenProperties
  <2>7. PICK s \in Starts(q2, i2) : Laid(q2, s, i2, b) /\ s[1] = start[1]
    BY <1>1, <1>2, <1>4, <2>1, <2>2, LaidOn DEF b
  <2>8. start[1] \in 1..Len(owed) + 1
    <3>1. start \in [1..Len(input) + 1 -> 1..Len(owed) + 1] /\ 1 \in 1..Len(input) + 1
      BY <1>1, <1>4 DEF Starts
    <3> QED BY ONLY <3>1
  <2> HIDE DEF q2, i2
  <2>9. b \in Nat \ {0}
    BY <1>2 DEF b
  <2>10. b < start[1] => q2[b] = owed[b]
    <3>1. Len(owed) \in Nat /\ Len(c) \in Nat /\ b \in Nat \ {0} /\ start[1] \in 1..Len(owed) + 1
      BY <1>1, <2>6, <2>8, <2>9
    <3>2. b < start[1] => b \in 1..Len(owed) + Len(c) /\ b <= Len(owed)
      BY ONLY <3>1
    <3> QED BY <2>6, <3>2
  <2>11. Based(q2, s, b, base_valid, base_addr)
    BY <1>4, <2>7, <2>10 DEF Based
  <2>12. Len(D) \in Nat
    BY <1>2 DEF D
  <2>13. Len(D) <= Len(q2)
    BY <1>1, <1>3, <2>6, <2>12
  <2>14. ASSUME NEW k \in 1..Len(D) PROVE D[k] = q2[k]
    <3>1. Len(owed) \in Nat /\ Len(c) \in Nat /\ Len(D) \in Nat /\ Len(D) <= Len(owed)
      BY <1>1, <1>3, <2>6, <2>12
    <3>2. k \in 1..Len(owed) + Len(c) /\ k <= Len(owed)
      BY ONLY <3>1, k \in 1..Len(D)
    <3> QED BY <1>3, <2>6, <3>2
  <2> QED BY <2>3, <2>4, <2>5, <2>6, <2>7, <2>11, <2>13, <2>14 DEF D, b, i2
<1> QED BY <1>5, <1>6

(* The base address moves along the chains as they were submitted. *)
LEMMA BasedStep ==
    ASSUME DfInv, Kept, NEW e \in SUBSET Offers, Cycle(e),
           NEW q \in Seq(Nat), InputView(e) \in Seq(Nat), NEW start \in Starts(q, InputView(e)),
           Laid(q, start, InputView(e), BasePlace),
           Based(q, start, BasePlace, base_valid, base_addr)
    PROVE  \E s \in Starts(q, input') :
               LET b == BasePlace + (IF ThisCycle THEN 1 ELSE 0) IN
               Laid(q, s, input', b) /\ Based(q, s, b, base_valid', base_addr')
<1> DEFINE I == InputView(e)   b == BasePlace
           Goal(c) == \E s \in Starts(q, input') : Laid(q, s, input', c) /\ Based(q, s, c, base_valid', base_addr')
<1>1. b \in Nat \ {0} /\ I \in Seq(Nat)
  BY HandedFacts DEF HandedInv
<1>2. input' = Rest(I, QueuedReady /\ QueuedValid(e))
  BY DEF Cycle, Fetch
<1>3. /\ QueuedReady <=> ~base_valid \/ (ThisCycle /\ FromDescriptor = End)
      /\ QueuedValid(e) <=> I # <<>>
      /\ QueuedValid(e) => Queued(e) = Head(I)
  BY DEF QueuedReady, QueuedValid, Queued
<1>4. Laid(q, start, I, b) /\ Based(q, start, b, base_valid, base_addr) /\ start \in Starts(q, I)
  OBVIOUS
<1>5. /\ ThisCycle /\ TargetKnown(e) => base_valid' /\ base_addr' = Target(e)
      /\ ThisCycle /\ ~TargetKnown(e) => ~base_valid'
      /\ ~ThisCycle /\ base_valid => base_valid' /\ base_addr' = base_addr
      /\ ~ThisCycle /\ ~base_valid => (base_valid' <=> QueuedValid(e))
      /\ ~ThisCycle /\ ~base_valid /\ QueuedValid(e) => base_addr' = Queued(e)
  BY BaseStep DEF DfInv, Submittable
<1>6. /\ FromDescriptor # End => TargetKnown(e) /\ Target(e) = FromDescriptor
      /\ FromDescriptor = End => (TargetKnown(e) <=> QueuedValid(e)) /\ Target(e) = Queued(e)
  BY DEF TargetKnown, Target
<1>7. base_valid \in BOOLEAN /\ base_valid' \in BOOLEAN
  BY BaseStep DEF DfInv, Submittable, IInv, StateTypes
<1> HIDE DEF I, b
<1>8. ASSUME NEW c \in Nat, Laid(q, start, I, c), c = start[1], I # <<>>,
             input' = Tail(I), base_valid', base_addr' = Head(I)
      PROVE  Goal(c)
  <2>1. PICK s \in Starts(q, Tail(I)) : Laid(q, s, Tail(I), start[1]) /\ start[1] < s[1]
    BY <1>1, <1>4, <1>8, LaidNext
  <2>2. Head(I) = q[start[1]]
    BY <1>1, <1>4, <1>8, LaidNext
  <2>3. Based(q, s, c, base_valid', base_addr')
    BY <1>8, <2>1, <2>2 DEF Based
  <2> QED BY <1>8, <2>1, <2>3
<1>9. ASSUME NEW c \in Nat, Laid(q, start, I, c), c = start[1], I = <<>>, input' = I, ~base_valid'
      PROVE  Goal(c)
  BY <1>4, <1>9 DEF Based
<1>10. CASE ~ThisCycle /\ base_valid
  <2>1. ~QueuedReady
    BY <1>3, <1>10
  <2>2. input' = I
    BY <1>2, <2>1 DEF Rest
  <2>3. Goal(b)
    BY <1>4, <1>5, <1>10, <2>2 DEF Based
  <2>4. BasePlace + (IF ThisCycle THEN 1 ELSE 0) = b
    BY <1>1, <1>10 DEF b
  <2> QED BY <2>3, <2>4, Zenon
<1>11. CASE ~ThisCycle /\ ~base_valid
  <2>1. b = start[1] /\ b \in Nat
    BY <1>1, <1>4, <1>11 DEF Based
  <2>2. Goal(b)
    <3>1. CASE QueuedValid(e)
      <4>1. input' = Tail(I)
        BY <1>2, <1>3, <1>11, <3>1 DEF Rest
      <4>2. I # <<>> /\ base_valid' /\ base_addr' = Head(I)
        BY <1>3, <1>5, <1>11, <3>1
      <4> QED BY <1>4, <1>8, <2>1, <4>1, <4>2
    <3>2. CASE ~QueuedValid(e)
      <4>1. input' = I
        BY <1>2, <3>2 DEF Rest
      <4>2. I = <<>> /\ ~base_valid'
        BY <1>3, <1>5, <1>11, <3>2
      <4> QED BY <1>4, <1>9, <2>1, <4>1, <4>2
    <3> QED BY <3>1, <3>2
  <2>3. BasePlace + (IF ThisCycle THEN 1 ELSE 0) = b
    BY <1>1, <1>11 DEF b
  <2> QED BY <2>2, <2>3, Zenon
<1>12. CASE ThisCycle
  <2>1. base_valid /\ Head(ars) = base_addr
    BY <1>12, Window DEF DfInv
  <2>2. b < start[1] /\ q[b] = base_addr
    BY <1>4, <2>1 DEF Based
  <2>3. FromDescriptor = NextOf(q[b])
    BY <2>1, <2>2 DEF FromDescriptor
  <2> DEFINE c == b + 1
  <2>4. Laid(q, start, I, c)
    BY <1>1, <1>4, <2>2, LaidNow
  <2>5. NextOf(q[b]) = End => c = start[1]
    BY <1>1, <1>4, <2>2, LaidNow
  <2>6. NextOf(q[b]) # End => c < start[1] /\ NextOf(q[b]) = q[c]
    BY <1>1, <1>4, <2>2, LaidNow
  <2>7. c \in Nat /\ BasePlace + (IF ThisCycle THEN 1 ELSE 0) = c
    BY <1>1, <1>12 DEF b
  <2> HIDE DEF c
  <2>8. Goal(c)
    <3>1. CASE FromDescriptor # End
      <4>1. ~QueuedReady
        BY <1>3, <2>1, <3>1
      <4>2. input' = I
        BY <1>2, <4>1 DEF Rest
      <4>3. base_valid' /\ base_addr' = q[c] /\ c < start[1]
        BY <1>5, <1>6, <1>12, <2>3, <2>6, <3>1
      <4> QED BY <1>4, <2>4, <4>2, <4>3 DEF Based
    <3>2. CASE FromDescriptor = End /\ QueuedValid(e)
      <4>1. input' = Tail(I)
        BY <1>2, <1>3, <1>12, <3>2 DEF Rest
      <4>2. I # <<>> /\ base_valid' /\ base_addr' = Head(I)
        BY <1>3, <1>5, <1>6, <1>12, <3>2
      <4>3. c = start[1]
        BY <2>3, <2>5, <3>2
      <4> QED BY <1>8, <2>4, <2>7, <4>1, <4>2, <4>3
    <3>3. CASE FromDescriptor = End /\ ~QueuedValid(e)
      <4>1. input' = I
        BY <1>2, <3>3 DEF Rest
      <4>2. I = <<>> /\ ~base_valid'
        BY <1>3, <1>5, <1>6, <1>12, <3>3
      <4>3. c = start[1]
        BY <2>3, <2>5, <3>3
      <4> QED BY <1>9, <2>4, <2>7, <4>1, <4>2, <4>3
    <3> QED BY <3>1, <3>2, <3>3
  <2> QED BY <2>7, <2>8, Zenon
<1> QED BY <1>10, <1>11, <1>12

(* What is handed on and what is owed, as a cycle leaves them.             *)
LEMMA HandedStep ==
    ASSUME DfInv, OrderInv, NEW e \in SUBSET Offers, Cycle(e), Kept, Kept'
    PROVE  /\ BSent(e) \in BOOLEAN /\ (BSent(e) => Handed # <<>>)
           /\ Handed' = Rest(Handed \o Feedback(e), BSent(e))
           /\ owed' = Rest(Submitted(e), BSent(e))
<1> DEFINE D == Handed   f == Feedback(e)   bs == BSent(e)   c == IF Submits(e) THEN Head(todo) ELSE <<>>
           p == due \o aws
<1>1. /\ due \in Seq(Nat) /\ aws \in Seq(Nat) /\ wb \in Seq(Nat) /\ owed \in Seq(Nat)
      /\ todo \in Seq(Seq(Nat) \ {<<>>})
  BY DEF DfInv, IInv, StateTypes, OrderInv, Submittable
<1>2. D \in Seq(Nat) /\ Len(D) \in Nat /\ Len(D) <= Len(owed)
  BY HandedFacts DEF HandedInv, OrderInv
<1>3. f \in Seq(Nat)
  BY FeedbackStep DEF DfInv, Submittable
<1>4. bs \in BOOLEAN /\ (bs => due # <<>>)
  BY QueueTypes DEF DfInv, Submittable
<1>5. c \in Seq(Nat)
  <2>1. Submits(e) => Head(todo) \in Seq(Nat) \ {<<>>}
    BY <1>1, HeadTailProperties DEF Submits
  <2>2. <<>> \in Seq(Nat)
    BY EmptySeq
  <2> QED BY <2>1, <2>2
<1>6. Handed' = Rest(D, bs) \o f
  <2>1. (due' \o aws') \o wb' = Rest((due \o aws) \o wb, BSent(e)) \o Feedback(e)
    BY QueuesStep DEF DfInv, Submittable
  <2> QED BY <2>1 DEF Handed
<1>7. owed' = Rest(owed, bs) \o c
  BY DEF Cycle, Report
<1>8. p \in Seq(Nat) /\ (bs => p # <<>>)
  BY <1>1, <1>4, HeadOfConcat, ConcatProperties
<1>9. D = p \o wb
  BY DEF Handed
<1>10. Submitted(e) = owed \o c
  BY DEF Submitted
<1> HIDE DEF p, c, bs, f, D
<1>11. bs => D # <<>>
  BY <1>1, <1>8, <1>9, HeadOfConcat
<1>12. bs => owed # <<>>
  <2>1. bs => Len(D) # 0
    BY <1>2, <1>11, EmptySeq
  <2>2. bs => Len(owed) # 0
    BY <1>1, <1>2, <2>1, LenProperties
  <2> QED BY <1>1, <2>2, EmptySeq
<1>13. Rest(D, bs) \o f = Rest(D \o f, bs)
  <2>1. D \in Seq(Nat)
    BY <1>2
  <2> QED BY <1>3, <1>4, <1>11, <2>1, RestThen
<1>14. Rest(owed, bs) \o c = Rest(owed \o c, bs)
  <2>1. owed \in Seq(Nat)
    BY <1>1
  <2> QED BY <1>4, <1>5, <1>12, <2>1, RestThen
<1> QED BY <1>4, <1>6, <1>7, <1>10, <1>11, <1>13, <1>14 DEF D, f, bs

(* What is taken on stays a beginning of what is owed.                     *)
LEMMA OrderStep ==
    ASSUME DfInv, OrderInv, NEW e \in SUBSET Offers, Cycle(e), Kept, Kept'
    PROVE  OrderInv'
<1> DEFINE D == Handed   f == Feedback(e)   Q == Submitted(e)   I == InputView(e)   bs == BSent(e)
           b == BasePlace + (IF ThisCycle THEN 1 ELSE 0)   D2 == D \o f   l2 == One(Live' > 0)
           d == Len(D)   F == Len(f)
<1>1. /\ Q \in Seq(Nat) /\ I \in Seq(Nat) /\ d <= Len(Q) /\ \A k \in 1..d : D[k] = Q[k]
  BY SubmitStep
<1>2. PICK start \in Starts(Q, I) : Laid(Q, start, I, BasePlace) /\ Based(Q, start, BasePlace, base_valid, base_addr)
  BY SubmitStep
<1>3. PICK s \in Starts(Q, input') : Laid(Q, s, input', b) /\ Based(Q, s, b, base_valid', base_addr')
  BY <1>1, <1>2, BasedStep
<1>4. /\ D \in Seq(Nat) /\ d \in Nat /\ BasePlace \in Nat \ {0}
  BY HandedFacts DEF HandedInv
<1>5. f \in Seq(Nat) /\ F \in Nat
  BY FeedbackStep, LenProperties DEF DfInv, Submittable
<1>6. /\ b = (d + F + 1) - l2
      /\ f # <<>> => F = 1 /\ f[1] = base_addr' /\ b = d + 1 /\ base_valid'
      /\ f = <<>> => F = 0
  <2> DEFINE x == (Len(Handed) + Len(Feedback(e)) + 1) - One(Live' > 0)
  <2> HIDE DEF x
  <2>1. x = (Len(Handed) + Len(Feedback(e)) + 1) - One(Live' > 0)
    BY DEF x
  <2>2. /\ x = BasePlace + (IF ThisCycle THEN 1 ELSE 0)
        /\ Feedback(e) # <<>> => /\ Len(Feedback(e)) = 1 /\ Feedback(e)[1] = base_addr'
                                 /\ x = Len(Handed) + 1 /\ base_valid'
        /\ Feedback(e) = <<>> => Len(Feedback(e)) = 0
    BY <2>1, PlaceStep
  <2> QED BY <2>1, <2>2
<1>7. bs \in BOOLEAN /\ (bs => D # <<>>) /\ Handed' = Rest(D2, bs) /\ owed' = Rest(Q, bs)
  BY HandedStep
<1>8. DfInv'
  BY DfStep
<1>9. Handed' \in Seq(Nat) /\ Len(Handed') \in Nat /\ BasePlace' \in Nat \ {0} /\ BasePlace' = (Len(Handed') + 1) - l2
  BY <1>8, HandedLater DEF HandedInv, BasePlace
<1>10. l2 \in 0..1
  BY DEF One
<1>11. b \in Nat \ {0}
  BY <1>4
<1>12. input' \in Seq(Nat) /\ Len(input') \in Nat
  BY <1>8, LenProperties DEF DfInv, IInv, StateTypes
<1>13. base_valid' \in BOOLEAN
  BY <1>8 DEF DfInv, IInv, StateTypes
<1>14. \A j \in 1..Len(todo') : Chained(todo'[j])
  <2>1. todo \in Seq(Seq(Nat) \ {<<>>}) /\ \A j \in 1..Len(todo) : Chained(todo[j])
    BY DEF DfInv, Submittable, OrderInv
  <2>2. todo' = Rest(todo, Submits(e)) /\ (Submits(e) => todo # <<>>)
    BY DEF Cycle, Report, Submits
  <2>3. CASE Submits(e)
    <3> DEFINE S == Seq(Nat) \ {<<>>}
    <3> HIDE DEF S
    <3>1. todo \in Seq(S) /\ todo # <<>> /\ todo' = Tail(todo)
      BY <2>1, <2>2, <2>3 DEF S, Rest
    <3>2. Len(todo) \in Nat /\ Len(todo') = Len(todo) - 1 /\ \A j \in 1..Len(todo') : todo'[j] = todo[j + 1]
      BY <3>1, HeadTailProperties, LenProperties
    <3>3. \A j \in 1..Len(todo') : j + 1 \in 1..Len(todo)
      BY <3>2
    <3> QED BY <2>1, <3>2, <3>3
  <2>4. CASE ~Submits(e)
    BY <2>1, <2>2, <2>4 DEF Rest
  <2> QED BY <2>3, <2>4
<1> HIDE DEF D, f, Q, I, bs, b, D2, l2, d, F
<1>15. Len(Q) \in Nat /\ s[1] \in 1..Len(Q) + 1
  <2>1. 1 \in 1..Len(input') + 1
    BY <1>12
  <2>2. Len(Q) \in Nat
    BY <1>1, LenProperties
  <2> QED BY <1>3, <2>1, <2>2 DEF Starts
<1>16. base_valid' => b \in 1..Len(Q) /\ Q[b] = base_addr'
  BY <1>3, <1>11, <1>15 DEF Based
<1>17. /\ D2 \in Seq(Nat) /\ Len(D2) = d + F
       /\ \A k \in 1..d + F : D2[k] = IF k <= d THEN D[k] ELSE f[k - d]
  BY <1>4, <1>5, ConcatProperties DEF D2, d, F
<1>18. d + F <= Len(Q)
  <2>1. CASE f = <<>>
    BY <1>1, <1>4, <1>6, <2>1
  <2>2. CASE f # <<>>
    BY <1>4, <1>6, <1>15, <1>16, <2>2
  <2> QED BY <2>1, <2>2
<1>19. ASSUME NEW k \in 1..d + F PROVE D2[k] = Q[k]
  <2>1. CASE k <= d
    <3>1. k \in 1..d
      BY <1>4, <2>1
    <3> QED BY <1>1, <1>17, <2>1, <3>1
  <2>2. CASE ~(k <= d)
    <3>1. F # 0
      BY <1>4, <1>5, <2>2
    <3>2. F = 1 /\ f[1] = base_addr' /\ b = d + 1 /\ base_valid'
      BY <1>6, <3>1
    <3>3. k = d + 1 /\ k - d = 1
      BY <1>4, <2>2, <3>2
    <3> QED BY <1>16, <1>17, <2>2, <3>2, <3>3
  <2> QED BY <2>1, <2>2
<1>20. CASE ~bs
  <2>1. Handed' = D2 /\ owed' = Q
    BY <1>7, <1>20 DEF Rest
  <2>2. BasePlace' = b
    BY <1>4, <1>5, <1>6, <1>9, <1>10, <1>17, <2>1
  <2> QED BY <1>1, <1>3, <1>14, <1>17, <1>18, <1>19, <2>1, <2>2 DEF OrderInv
<1>21. CASE bs
  <2>1. Handed' = Tail(D2) /\ owed' = Tail(Q)
    BY <1>7, <1>21 DEF Rest
  <2>2. d # 0
    BY <1>4, <1>7, <1>21, EmptySeq DEF d
  <2>3. D2 # <<>> /\ Q # <<>>
    BY <1>1, <1>4, <1>5, <1>15, <1>17, <2>2, EmptySeq
  <2>4. Len(Handed') = (d + F) - 1 /\ \A k \in 1..(d + F) - 1 : Handed'[k] = D2[k + 1]
    BY <1>17, <2>1, <2>3, HeadTailProperties
  <2>5. owed' \in Seq(Nat) /\ Len(owed') = Len(Q) - 1 /\ \A k \in 1..Len(Q) - 1 : owed'[k] = Q[k + 1]
    BY <1>1, <2>1, <2>3, HeadTailProperties
  <2>6. BasePlace' = b - 1
    BY <1>4, <1>5, <1>6, <1>9, <1>10, <2>4
  <2>7. b >= 2
    BY <1>9, <1>11, <2>6
  <2>8. PICK t \in Starts(owed', input') : Laid(owed', t, input', b - 1) /\ t[1] = s[1] - 1
    BY <1>1, <1>3, <1>11, <1>12, <2>1, <2>7, LaidAfter
  <2>9. Based(owed', t, b - 1, base_valid', base_addr')
    <3>1. CASE base_valid'
      <4>1. b < s[1] /\ Q[b] = base_addr' /\ b \in 1..Len(Q)
        BY <1>3, <1>16, <3>1 DEF Based
      <4>2. b - 1 \in 1..Len(Q) - 1 /\ (b - 1) + 1 = b
        BY <1>15, <2>7, <4>1
      <4>3. owed'[b - 1] = base_addr'
        BY <2>5, <4>1, <4>2
      <4>4. b - 1 < t[1]
        BY <1>11, <1>15, <2>8, <4>1
      <4> QED BY <3>1, <4>3, <4>4 DEF Based
    <3>2. CASE ~base_valid'
      <4>1. b = s[1]
        BY <1>3, <3>2 DEF Based
      <4> QED BY <2>8, <3>2, <4>1 DEF Based
    <3> QED BY <1>13, <3>1, <3>2
  <2>10. Len(Handed') <= Len(owed')
    BY <1>4, <1>5, <1>15, <1>18, <2>4, <2>5
  <2>11. ASSUME NEW k \in 1..Len(Handed') PROVE Handed'[k] = owed'[k]
    <3>1. k \in 1..(d + F) - 1 /\ k \in 1..Len(Q) - 1 /\ k + 1 \in 1..d + F
      BY <1>4, <1>5, <1>15, <1>18, <2>4
    <3> QED BY <1>19, <2>4, <2>5, <3>1
  <2> QED BY <1>14, <2>5, <2>6, <2>8, <2>9, <2>10, <2>11 DEF OrderInv
<1> QED BY <1>7, <1>20, <1>21

LEMMA OrderInit ==
    ASSUME Init, ChainsInMemory PROVE OrderInv
<1>1. Len(<<>>) = 0 /\ <<>> \in Seq(Nat)
  BY EmptySeq
<1>2. owed = <<>> /\ input = <<>> /\ todo = Chains /\ ~base_valid
  BY DEF Init
<1>3. Handed = <<>>
  <2>1. <<>> \o <<>> = <<>>
    BY <1>1, EmptyConcat, Zenon
  <2> QED BY <2>1 DEF Init, Handed
<1>4. Live = 0
  <2>1. Len(ars) = 0 /\ Len(legal) = 0 /\ n_to_flush = 0 /\ Held = 0
    BY <1>1 DEF Init, Held, Decided
  <2> QED BY <2>1 DEF Live
<1>5. BasePlace = 1
  <2>1. Len(Handed) = 0
    BY <1>1, <1>3
  <2>2. One(Live > 0) = 0
    BY <1>4 DEF One
  <2> QED BY <2>1, <2>2 DEF BasePlace
<1> DEFINE start == [i \in 1..1 |-> 1]
<1>6. start \in [1..1 -> 1..1] /\ start[1] = 1
  OBVIOUS
<1> HIDE DEF start
<1>7. start \in Starts(<<>>, <<>>)
  BY <1>1, <1>6 DEF Starts
<1>8. Laid(<<>>, start, <<>>, 1)
  BY <1>1, <1>6 DEF Laid
<1>9. Based(owed, start, 1, base_valid, base_addr)
  BY <1>2, <1>6 DEF Based
<1>10. \A j \in 1..Len(todo) : Chained(todo[j])
  BY <1>2 DEF ChainsInMemory, Chained
<1>11. Len(Handed) <= Len(owed) /\ \A k \in 1..Len(Handed) : Handed[k] = owed[k]
  BY <1>1, <1>2, <1>3
<1> QED BY <1>1, <1>2, <1>5, <1>7, <1>8, <1>9, <1>10, <1>11 DEF OrderInv

LEMMA OrderStutter ==
    ASSUME OrderInv, UNCHANGED vars PROVE OrderInv'
<1>1. /\ UNCHANGED <<todo, input, owed, base_valid, base_addr, legal>>
      /\ UNCHANGED <<ars, fetch_counter, next_seen, n_to_flush, wb, aws, due>>
  BY DEF vars, fetch, read, report
<1>2. Handed' = Handed /\ BasePlace' = BasePlace
  BY <1>1 DEF Handed, BasePlace, Live, Held, Decided
<1> QED BY <1>1, <1>2 DEF OrderInv

(* The same, for chains that are in memory as software wrote them.         *)
THEOREM OrderInvariance ==
    ASSUME ChainsInMemory PROVE Spec => [](DfInv /\ (Kept => OrderInv))
<1> DEFINE Ordered == Kept => OrderInv
<1>1. Init => DfInv /\ Ordered
  BY DfInit, OrderInit
<1>2. DfInv /\ Ordered /\ [Next]_vars => (DfInv /\ Ordered)'
  <2>1. ASSUME DfInv, Ordered, NEW e \in SUBSET Offers, Cycle(e), Kept' PROVE OrderInv'
    <3>1. Kept
      BY <2>1, KeptStep DEF DfInv
    <3> QED BY <2>1, <3>1, OrderStep
  <2>2. ASSUME DfInv, Ordered, UNCHANGED vars, Kept' PROVE OrderInv'
    <3>1. Kept
      BY <2>2 DEF vars, Kept
    <3> QED BY <2>2, <3>1, OrderStutter
  <2> QED BY <2>1, <2>2, DfStep, DfStutter DEF Next
<1> HIDE DEF Ordered
<1>3. Spec => [](DfInv /\ Ordered)
  BY <1>1, <1>2, PTL DEF Spec
<1> QED BY <1>3 DEF Ordered

(* Every variable of the front end has its type, and no FIFO holds more    *)
(* than it can.                                                            *)
THEOREM DfTypeCorrect == Spec => []TypeOK
<1>1. DfInv => TypeOK
  <2> SUFFICES ASSUME DfInv PROVE TypeOK
    OBVIOUS
  <2>1. Len(due) \in Nat /\ unsent \in Nat /\ unsent <= Len(due)
    BY LenProperties DEF DfInv, IInv, StateTypes, HoldInv
  <2> QED BY <2>1 DEF DfInv, IInv, StateTypes, HoldInv, TypeOK
<1> QED BY <1>1, DfInvariance, PTL

(* However wrong the guesses, what is handed to the backend and written    *)
(* back is what software submitted, each descriptor once and in order,     *)
(* until an address to write back is lost.                                 *)
THEOREM HandedInOrder ==
    ASSUME ChainsInMemory PROVE Spec => []InOrder
<1>1. DfInv /\ (Kept => OrderInv) => InOrder
  <2> SUFFICES ASSUME DfInv, OrderInv, Kept PROVE IsPrefix(due \o aws \o wb, owed)
    BY DEF InOrder, Kept
  <2>1. Handed \in Seq(Nat) /\ owed \in Seq(Nat)
    BY HandedFacts DEF HandedInv, OrderInv
  <2>2. IsPrefix(Handed, owed)
    BY <2>1, PrefixPointwise DEF OrderInv
  <2> QED BY <2>2 DEF Handed
<1> QED BY <1>1, OrderInvariance, PTL

(* The busy bit is clear only when every descriptor was reported, unless a *)
(* FIFO lost an entry.                                                     *)
THEOREM IdleMeansDone ==
    ASSUME ChainsInMemory PROVE Spec => []IdleIsDone
<1>1. DfInv /\ (Kept => OrderInv) => IdleIsDone
  <2> SUFFICES ASSUME DfInv, OrderInv, Kept, lost = {}, ~Busy PROVE owed = <<>>
    BY DEF IdleIsDone, Kept
  <2>1. /\ input = <<>> /\ wb = <<>> /\ reqs = <<>> /\ irqs = <<>> /\ aws = <<>>
        /\ backend = <<>> /\ ~base_valid /\ ~(inflight > 0)
    BY DEF Busy
  <2>2. /\ due \in Seq(Nat) /\ owed \in Seq(Nat) /\ <<>> \in Seq(Nat) /\ Len(<<>>) = 0
    BY EmptySeq DEF DfInv, IInv, StateTypes, OrderInv
  <2>3. due \o <<>> = due
    BY <2>2, EmptyConcat, Zenon
  <2>4. due = <<>>
    <3>1. One(fetch_counter > 1) \in 0..1
      BY DEF One
    <3>2. Len(irqs) = 0 /\ Len(irqs) >= Len(AwaitingReport) + One(fetch_counter > 1)
      BY <2>1, <2>2 DEF DfInv, IInv, FlagsInv
    <3>3. AwaitingReport \in Seq(Nat) /\ (due # <<>> => AwaitingReport # <<>>)
      BY AwaitingType DEF DfInv, IInv
    <3>4. Len(AwaitingReport) \in Nat
      BY <3>3, LenProperties
    <3>5. Len(AwaitingReport) = 0
      BY <3>1, <3>2, <3>4
    <3> QED BY <3>3, <3>5, EmptySeq
  <2>5. Handed = <<>>
    BY <2>1, <2>3, <2>4 DEF Handed
  <2>6. PICK start \in Starts(owed, input) :
            Laid(owed, start, input, BasePlace) /\ Based(owed, start, BasePlace, base_valid, base_addr)
    BY DEF OrderInv
  <2>7. BasePlace \in Nat \ {0} /\ BasePlace \in {0, 1}
    <3>1. Len(Handed) = 0
      BY <2>2, <2>5
    <3>2. BasePlace \in Nat \ {0} /\ BasePlace \in {Len(Handed), Len(Handed) + 1}
      BY HandedFacts DEF HandedInv
    <3> QED BY <3>1, <3>2
  <2>8. start[1] = 1
    BY <2>1, <2>6, <2>7 DEF Based
  <2>9. start[Len(input) + 1] = Len(owed) + 1
    BY <2>6 DEF Laid
  <2>10. Len(input) + 1 = 1
    BY <2>1, <2>2
  <2>11. Len(owed) \in Nat /\ Len(owed) = 0
    <3>1. Len(owed) + 1 = 1
      BY <2>8, <2>9, <2>10
    <3>2. Len(owed) \in Nat
      BY <2>2, LenProperties
    <3> QED BY <3>1, <3>2
  <2> QED BY <2>2, <2>11, EmptySeq
<1> QED BY <1>1, OrderInvariance, PTL

============================================================================
