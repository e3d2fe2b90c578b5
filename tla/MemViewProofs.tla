--------------------------- MODULE MemViewProofs ----------------------------
(***************************************************************************)
(* What the initiators of soc_mem_ss can see of it.  The first part        *)
(* strengthens the invariant of MemSSProofs: the accesses that wait in the *)
(* input FIFOs are faithful and in order.  The second finds, for each      *)
(* step, what becomes of the queue of requests and answers of each port.   *)
(***************************************************************************)
EXTENDS MemSSProofs

(***************************************************************************)
(* What waits in the input FIFO of a bank is what its port made of the     *)
(* request, and the accesses of one port wait in the order of their slots. *)
(***************************************************************************)
Faithful(b, x, lanes) ==
  LET m == x.meta
  IN  /\ m.port \in Ports /\ m.slot \in Slots /\ m.req \in ReqsOf(m.port)
      /\ InRange(m.req.addr) /\ BankOf(m.req.addr) = b
      /\ x = PayloadOf(m.port, m.slot, m.req)
      /\ lanes[m.port][m.slot] = LaneOf(m.port, m.req.addr)

\* Each of them is.
FaithfulInv == \A b \in Banks : \A i \in DOMAIN inq[b] : Faithful(b, inq[b][i], robLane)

\* Of two accesses of one port in one input FIFO, the earlier has the older slot.
InOrderInv ==
  \A b \in Banks : \A i, j \in DOMAIN inq[b] : \A p \in Ports : \A k, l \in 1..robCnt[p] :
    /\ i < j
    /\ TagOf(inq[b][i]) = <<p, SlotAt(p, k)>>
    /\ TagOf(inq[b][j]) = <<p, SlotAt(p, l)>>
    => k < l

\* An access that waits in a bank is one that its port waits for.
LEMMA WaitingIsOwed ==
  ASSUME PartsInv, NEW b \in Banks, NEW i \in DOMAIN inq[b]
  PROVE  /\ TagOf(inq[b][i]) \in Owing(owed)
         /\ inq[b][i].meta.port \in Ports /\ inq[b][i].meta.slot \in Slots
         /\ inq[b][i].meta.slot \in owed[inq[b][i].meta.port]
<1> DEFINE H == HeldIn(inq, pipe, outq)
           z == At(b, "in")
<1>1. z \in Stages /\ H[z] = inq[b]
  BY StagesOf
<1> HIDE DEF H, z
<1>2. TagOf(inq[b][i]) \in Owing(owed)
  BY <1>1, Zenon DEF PartsInv, OnePlaceEach, H
<1> QED
  BY <1>2, Zenon DEF TagOf, Owing

\* A step that adds nothing to the input FIFOs keeps what waits there faithful.
LEMMA FaithfulKept ==
  ASSUME PartsInv, FaithfulInv,
         \A b \in Banks : \A i \in DOMAIN inq'[b] : \E j \in DOMAIN inq[b] : inq'[b][i] = inq[b][j],
         \A p \in Ports : \A s \in owed[p] : robLane'[p][s] = robLane[p][s]
  PROVE  FaithfulInv'
<1> SUFFICES ASSUME NEW b \in Banks, NEW i \in DOMAIN inq'[b]
             PROVE  Faithful(b, inq'[b][i], robLane')
  BY Zenon DEF FaithfulInv
<1>1. PICK j \in DOMAIN inq[b] : inq'[b][i] = inq[b][j]
  BY Zenon
<1> DEFINE x == inq[b][j]
<1>2. Faithful(b, x, robLane)
  BY Zenon DEF FaithfulInv
<1>3. x.meta.port \in Ports /\ x.meta.slot \in owed[x.meta.port]
  BY WaitingIsOwed, Zenon
<1> HIDE DEF x
<1>4. Faithful(b, x, robLane')
  BY <1>2, <1>3, Zenon DEF Faithful
<1> QED
  BY <1>1, <1>4, Zenon DEF x

\* A step that only removes heads, of input FIFOs and of reorder buffers, keeps
\* the order.
LEMMA InOrderKept ==
  ASSUME PartsInv, InOrderInv, NEW h \in [Banks -> Nat], NEW g \in [Ports -> Nat],
         \A b \in Banks : \A i \in DOMAIN inq'[b] :
           i \in Nat /\ i + h[b] \in DOMAIN inq[b] /\ inq'[b][i] = inq[b][i + h[b]],
         \A p \in Ports : \A k \in 1..robCnt'[p] :
           SlotAt(p, k)' \in owed[p] =>
             k + g[p] \in 1..robCnt[p] /\ SlotAt(p, k)' = SlotAt(p, k + g[p])
  PROVE  InOrderInv'
<1> SUFFICES ASSUME NEW b \in Banks, NEW i \in DOMAIN inq'[b], NEW j \in DOMAIN inq'[b],
                    NEW p \in Ports, NEW k \in 1..robCnt'[p], NEW l \in 1..robCnt'[p],
                    i < j,
                    TagOf(inq'[b][i]) = <<p, SlotAt(p, k)'>>,
                    TagOf(inq'[b][j]) = <<p, SlotAt(p, l)'>>
             PROVE  k < l
  BY ZenonT(60) DEF InOrderInv, SlotAt
<1> DEFINE s == SlotAt(p, k)'
           t == SlotAt(p, l)'
<1>1. /\ i \in Nat /\ i + h[b] \in DOMAIN inq[b] /\ inq'[b][i] = inq[b][i + h[b]]
      /\ j \in Nat /\ j + h[b] \in DOMAIN inq[b] /\ inq'[b][j] = inq[b][j + h[b]]
  BY Zenon
<1>2. TagOf(inq[b][i + h[b]]) = <<p, s>> /\ TagOf(inq[b][j + h[b]]) = <<p, t>>
  BY <1>1, Zenon
<1> HIDE DEF s, t
<1>3. s \in owed[p] /\ t \in owed[p]
  <2>1. <<p, s>> \in Owing(owed) /\ <<p, t>> \in Owing(owed)
    BY <1>1, <1>2, WaitingIsOwed, Zenon
  <2> QED
    BY <2>1, Zenon DEF Owing
<1>4. /\ k + g[p] \in 1..robCnt[p] /\ s = SlotAt(p, k + g[p])
      /\ l + g[p] \in 1..robCnt[p] /\ t = SlotAt(p, l + g[p])
  BY <1>3, Zenon DEF s, t
<1>5. h[b] \in Nat /\ g[p] \in Nat
  BY Zenon
<1>6. i + h[b] < j + h[b]
  BY ONLY <1>1, <1>5, i < j
<1>7. k + g[p] < l + g[p]
  BY <1>1, <1>2, <1>4, <1>6, ZenonT(60) DEF InOrderInv
<1>8. k \in Int /\ l \in Int
  OBVIOUS
<1> QED
  BY <1>5, <1>7, <1>8

\* An allocation leaves the older slots where they are in the order.
LEMMA SlotsAfterAlloc ==
  ASSUME PartsInv, NEW p \in Ports, NEW err \in BOOLEAN, Alloc(p, err), ~RobFull(p)
  PROVE  \A t \in Ports : \A k \in 1..robCnt'[t] :
           /\ SlotAt(t, k)' = SlotAt(t, k)
           /\ SlotAt(t, k) \in owed[t] => k \in 1..robCnt[t]
<1> SUFFICES ASSUME NEW t \in Ports, NEW k \in 1..robCnt'[t]
             PROVE  SlotAt(t, k)' = SlotAt(t, k) /\ (SlotAt(t, k) \in owed[t] => k \in 1..robCnt[t])
  BY Zenon
<1>1. SlotAt(t, k)' = SlotAt(t, k)
  BY Zenon DEF SlotAt, Wrap, Alloc
<1>2. robCnt[t] \in 0..EgressDepth /\ robCnt'[t] = IF t = p THEN robCnt[t] + 1 ELSE robCnt[t]
  BY HavePortFacts, Zenon DEF Alloc, PortFacts
<1>3. CASE t = p /\ k = robCnt[p] + 1
  <2>1. SlotAt(p, k) = allocPtr[p]
    <3>1. allocPtr[p] = Wrap(deliverPtr[p] + robCnt[p])
      BY Zenon DEF PartsInv, PortInv, RingConsistent
    <3>2. deliverPtr[p] \in Int
      BY HavePortFacts, PortAssumption, SMTT(30) DEF PortFacts, Slots
    <3>3. deliverPtr[p] + k - 1 = deliverPtr[p] + robCnt[p]
      BY <1>2, <1>3, <3>2, SMTT(30)
    <3> QED
      BY <3>1, <3>3, Zenon DEF SlotAt
  <2> QED
    BY <1>1, <1>3, <2>1, OwedIsElsewhere, Zenon
<1>4. CASE ~(t = p /\ k = robCnt[p] + 1)
  BY <1>1, <1>2, <1>4, SMTT(30)
<1> QED
  BY <1>3, <1>4, Zenon

\* An allocation leaves the lanes of the slots still owed.
LEMMA AllocKeepsLanes ==
  ASSUME PartsInv, NEW p \in Ports, NEW err \in BOOLEAN, Alloc(p, err), ~RobFull(p)
  PROVE  \A t \in Ports : \A s \in owed[t] : robLane'[t][s] = robLane[t][s]
<1> SUFFICES ASSUME NEW t \in Ports, NEW s \in owed[t] PROVE robLane'[t][s] = robLane[t][s]
  BY Zenon
<1>1. t = p => s # allocPtr[p]
  BY OwedIsElsewhere, Zenon
<1>2. s \in Slots /\ robLane \in [Ports -> [Slots -> Lanes]]
  BY HavePortFacts, Zenon DEF PortFacts
<1>3. robLane' = [robLane EXCEPT ![p][allocPtr[p]] = LaneOf(p, Head(ing[p]).addr)]
  BY Zenon DEF Alloc
<1> QED
  BY <1>1, <1>2, <1>3, ZenonT(60)

\* A delivery makes every other slot one older.
LEMMA SlotsAfterDeliver ==
  ASSUME PartsInv, NEW p \in Ports, Deliver(p)
  PROVE  /\ robCnt[p] \in 1..EgressDepth /\ robCnt'[p] = robCnt[p] - 1
         /\ \A k \in 1..robCnt'[p] : SlotAt(p, k)' = SlotAt(p, k + 1)
         /\ SlotAt(p, 1) = deliverPtr[p]
         /\ \A t \in Ports : t # p => robCnt'[t] = robCnt[t] /\ \A k \in Nat : SlotAt(t, k)' = SlotAt(t, k)
<1>1. robCnt[p] \in 1..EgressDepth /\ robCnt'[p] = robCnt[p] - 1 /\ deliverPtr'[p] = NextPtr(deliverPtr[p])
      /\ deliverPtr[p] \in Slots
  BY HavePortFacts, PortAssumption DEF PortFacts, Deliver, RValid
<1>2. ASSUME NEW k \in 1..(robCnt[p] - 1), NEW d \in Slots
      PROVE  Wrap(NextPtr(d) + k - 1) = Wrap(d + (k + 1) - 1)
  BY <1>1, PortAssumption DEF Wrap, NextPtr, Slots
<1>3. ASSUME NEW k \in 1..robCnt'[p] PROVE SlotAt(p, k)' = SlotAt(p, k + 1)
  <2>1. SlotAt(p, k)' = Wrap(deliverPtr'[p] + k - 1)
    BY Zenon DEF SlotAt, Wrap
  <2> QED
    BY <1>1, <1>2, <2>1, Zenon DEF SlotAt
<1>4. SlotAt(p, 1) = deliverPtr[p]
  BY <1>1, PortAssumption DEF SlotAt, Wrap, Slots
<1>5. ASSUME NEW t \in Ports, t # p
      PROVE  robCnt'[t] = robCnt[t] /\ \A k \in Nat : SlotAt(t, k)' = SlotAt(t, k)
  <2>1. robCnt'[t] = robCnt[t] /\ deliverPtr'[t] = deliverPtr[t]
    BY <1>5, HavePortFacts, ZenonT(60) DEF PortFacts, Deliver
  <2> QED
    BY <2>1, Zenon DEF SlotAt, Wrap
<1> QED
  BY <1>1, <1>3, <1>4, <1>5, ZenonT(60)

\* ... and so does a delivery.
LEMMA DeliverKeepsLanes ==
  ASSUME PartsInv, NEW p \in Ports, Deliver(p)
  PROVE  \A t \in Ports : \A s \in owed[t] : robLane'[t][s] = robLane[t][s]
<1> SUFFICES ASSUME NEW t \in Ports, NEW s \in owed[t] PROVE robLane'[t][s] = robLane[t][s]
  BY Zenon
<1>1. t = p => s # deliverPtr[p]
  BY OwedIsElsewhere, Zenon DEF Deliver
<1>2. s \in Slots /\ robLane \in [Ports -> [Slots -> Lanes]]
  BY HavePortFacts, Zenon DEF PortFacts
<1>3. robLane' = [robLane EXCEPT ![p][deliverPtr[p]] = 0]
  BY Zenon DEF Deliver
<1> QED
  BY <1>1, <1>2, <1>3, Zenon

\* The accesses waiting in the input FIFOs.
WaitInv == FaithfulInv /\ InOrderInv

\* Untouched input FIFOs, in the forms FaithfulKept and InOrderKept ask for.
LEMMA SameInputs ==
  ASSUME PartsInv, inq' = inq
  PROVE  /\ \A b \in Banks : \A i \in DOMAIN inq'[b] : \E j \in DOMAIN inq[b] : inq'[b][i] = inq[b][j]
         /\ \A b \in Banks : \A i \in DOMAIN inq'[b] :
              i \in Nat /\ i + 0 \in DOMAIN inq[b] /\ inq'[b][i] = inq[b][i + 0]
<1>1. inq \in [Banks -> Seq(BankReqs)]
  BY Zenon DEF PartsInv, BankInv, BankTypeOK
<1> QED
  BY <1>1

\* Steps that touch neither the input FIFOs nor the order of the slots.
LEMMA WaitUnchanged ==
  ASSUME PartsInv, WaitInv, UNCHANGED <<inq, robLane, robCnt, deliverPtr>>
  PROVE  WaitInv'
<1> DEFINE h == [b \in Banks |-> 0]
           g == [t \in Ports |-> 0]
<1>1. FaithfulInv'
  BY Zenon DEF WaitInv, FaithfulInv
<1>2. \A t \in Ports : \A k \in 1..robCnt'[t] :
        SlotAt(t, k)' \in owed[t] => k + g[t] \in 1..robCnt[t] /\ SlotAt(t, k)' = SlotAt(t, k + g[t])
  <2> SUFFICES ASSUME NEW t \in Ports, NEW k \in 1..robCnt'[t]
               PROVE  k + g[t] \in 1..robCnt[t] /\ SlotAt(t, k)' = SlotAt(t, k + g[t])
    BY Zenon
  <2>1. SlotAt(t, k)' = SlotAt(t, k) /\ robCnt' = robCnt
    BY Zenon DEF SlotAt
  <2>2. k + g[t] = k
    OBVIOUS
  <2> QED
    BY <2>1, <2>2, Zenon
<1>3. h \in [Banks -> Nat] /\ g \in [Ports -> Nat] /\ \A b \in Banks : h[b] = 0
  BY Zenon
<1>4. \A b \in Banks : \A i \in DOMAIN inq'[b] :
        i \in Nat /\ i + h[b] \in DOMAIN inq[b] /\ inq'[b][i] = inq[b][i + h[b]]
  BY <1>3, SameInputs, Zenon
<1> HIDE DEF h, g
<1>5. InOrderInv'
  BY <1>2, <1>3, <1>4, InOrderKept, ZenonT(60) DEF WaitInv
<1> QED
  BY <1>1, <1>5, Zenon DEF WaitInv

\* An error response takes a slot without an access.
LEMMA ErrorKeepsWait ==
  ASSUME PartsInv, WaitInv, NEW p \in Ports, ErrorStep(p)
  PROVE  WaitInv'
<1> DEFINE h == [b \in Banks |-> 0]
           g == [t \in Ports |-> 0]
<1>1. ErrReq(p) /\ Alloc(p, TRUE) /\ inq' = inq
  BY Zenon DEF ErrorStep, ErrGrant, bankVars
<1>2. ~RobFull(p)
  BY <1>1, Zenon DEF ErrReq
<1>3. FaithfulInv'
  BY <1>1, <1>2, SameInputs, AllocKeepsLanes, FaithfulKept, ZenonT(60) DEF WaitInv
<1>4. \A t \in Ports : \A k \in 1..robCnt'[t] :
        SlotAt(t, k)' \in owed[t] => k + g[t] \in 1..robCnt[t] /\ SlotAt(t, k)' = SlotAt(t, k + g[t])
  <2> SUFFICES ASSUME NEW t \in Ports, NEW k \in 1..robCnt'[t], SlotAt(t, k)' \in owed[t]
               PROVE  k + g[t] \in 1..robCnt[t] /\ SlotAt(t, k)' = SlotAt(t, k + g[t])
    BY Zenon
  <2>1. SlotAt(t, k)' = SlotAt(t, k) /\ k \in 1..robCnt[t]
    BY <1>1, <1>2, SlotsAfterAlloc, Zenon
  <2>2. k + g[t] = k
    OBVIOUS
  <2> QED
    BY <2>1, <2>2, Zenon
<1>5. h \in [Banks -> Nat] /\ g \in [Ports -> Nat] /\ \A b \in Banks : h[b] = 0
  BY Zenon
<1>6. \A b \in Banks : \A i \in DOMAIN inq'[b] :
        i \in Nat /\ i + h[b] \in DOMAIN inq[b] /\ inq'[b][i] = inq[b][i + h[b]]
  BY <1>1, <1>5, SameInputs, ZenonT(60)
<1> HIDE DEF h, g
<1>7. InOrderInv'
  BY <1>4, <1>5, <1>6, InOrderKept, ZenonT(60) DEF WaitInv
<1> QED
  BY <1>3, <1>7, Zenon DEF WaitInv

\* A delivery frees the oldest slot; the others keep their order.
LEMMA DeliverKeepsWait ==
  ASSUME PartsInv, WaitInv, NEW p \in Ports, DeliverStep(p)
  PROVE  WaitInv'
<1> DEFINE h == [b \in Banks |-> 0]
           g == [t \in Ports |-> IF t = p THEN 1 ELSE 0]
<1>1. Deliver(p) /\ inq' = inq
  BY Zenon DEF DeliverStep, bankVars
<1>2. FaithfulInv'
  BY <1>1, SameInputs, DeliverKeepsLanes, FaithfulKept, SMTT(30) DEF WaitInv
<1>3. \A t \in Ports : \A k \in 1..robCnt'[t] :
        SlotAt(t, k)' \in owed[t] => k + g[t] \in 1..robCnt[t] /\ SlotAt(t, k)' = SlotAt(t, k + g[t])
  <2> SUFFICES ASSUME NEW t \in Ports, NEW k \in 1..robCnt'[t]
               PROVE  k + g[t] \in 1..robCnt[t] /\ SlotAt(t, k)' = SlotAt(t, k + g[t])
    BY Zenon
  <2>1. CASE t = p
    BY <1>1, <2>1, SlotsAfterDeliver, SMTT(30)
  <2>2. CASE t # p
    <3>1. robCnt'[t] = robCnt[t] /\ SlotAt(t, k)' = SlotAt(t, k)
      BY <1>1, <2>2, SlotsAfterDeliver, SMTT(30)
    <3>2. k + g[t] = k
      BY <2>2, SMTT(30)
    <3> QED
      BY <3>1, <3>2, ZenonT(60)
  <2> QED
    BY <2>1, <2>2, Zenon
<1>4. h \in [Banks -> Nat] /\ g \in [Ports -> Nat] /\ \A b \in Banks : h[b] = 0
  BY Zenon
<1>5. \A b \in Banks : \A i \in DOMAIN inq'[b] :
        i \in Nat /\ i + h[b] \in DOMAIN inq[b] /\ inq'[b][i] = inq[b][i + h[b]]
  BY <1>1, <1>4, SameInputs, SMTT(30)
<1> HIDE DEF h, g
<1>6. InOrderInv'
  BY <1>3, <1>4, <1>5, InOrderKept, Zenon DEF WaitInv
<1> QED
  BY <1>2, <1>6, Zenon DEF WaitInv

\* An issue takes the first access of an input FIFO.
LEMMA IssueKeepsWait ==
  ASSUME PartsInv, WaitInv, NEW b \in Banks, IssueStep(b)
  PROVE  WaitInv'
<1> DEFINE h == [c \in Banks |-> IF c = b THEN 1 ELSE 0]
           g == [t \in Ports |-> 0]
<1>1. /\ inq[b] # <<>> /\ inq' = [inq EXCEPT ![b] = Tail(inq[b])]
      /\ UNCHANGED <<robLane, robCnt, deliverPtr>>
  BY Zenon DEF IssueStep, Issue, CanIssue, portVars
<1>2. inq \in [Banks -> Seq(BankReqs)]
  BY Zenon DEF PartsInv, BankInv, BankTypeOK
<1>3. ASSUME NEW c \in Banks, NEW i \in DOMAIN inq'[c]
      PROVE  i \in Nat /\ i + h[c] \in DOMAIN inq[c] /\ inq'[c][i] = inq[c][i + h[c]]
  <2>1. CASE c = b
    <3>1. inq'[b] = Tail(inq[b]) /\ h[b] = 1 /\ inq[b] \in Seq(BankReqs)
      BY <1>1, <1>2, Zenon
    <3> HIDE DEF h
    <3>2. \A u \in Seq(BankReqs) : u # <<>> =>
            \A j \in DOMAIN Tail(u) : j \in Nat /\ j + 1 \in DOMAIN u /\ Tail(u)[j] = u[j + 1]
      BY ONLY TRUE
    <3> QED
      BY ONLY <1>1, <2>1, <3>1, <3>2, i \in DOMAIN inq'[c], ZenonT(60)
  <2>2. CASE c # b
    <3>1. inq'[c] = inq[c] /\ h[c] = 0 /\ inq[c] \in Seq(BankReqs)
      BY <1>1, <1>2, <2>2, ZenonT(60)
    <3> HIDE DEF h
    <3> QED
      BY <3>1
  <2> QED
    BY <2>1, <2>2, Zenon
<1>4. h \in [Banks -> Nat] /\ g \in [Ports -> Nat] /\ \A t \in Ports : g[t] = 0
  BY Zenon
<1>5. \A t \in Ports : \A k \in 1..robCnt'[t] :
        k + g[t] \in 1..robCnt[t] /\ SlotAt(t, k)' = SlotAt(t, k + g[t])
  <2> SUFFICES ASSUME NEW t \in Ports, NEW k \in 1..robCnt'[t]
               PROVE  k + g[t] \in 1..robCnt[t] /\ SlotAt(t, k)' = SlotAt(t, k + g[t])
    BY Zenon
  <2>1. k + g[t] = k
    BY <1>4
  <2>2. SlotAt(t, k)' = SlotAt(t, k)
    BY <1>1, ZenonT(60) DEF SlotAt, Wrap
  <2> QED
    BY <1>1, <2>1, <2>2, ZenonT(60)
<1> HIDE DEF h, g
<1>6. FaithfulInv'
  BY <1>1, <1>3, FaithfulKept, ZenonT(60) DEF WaitInv
<1>7. InOrderInv'
  BY <1>3, <1>4, <1>5, InOrderKept, ZenonT(60) DEF WaitInv
<1> QED
  BY <1>6, <1>7, Zenon DEF WaitInv

\* A grant appends the access of the youngest slot.
LEMMA GrantKeepsWait ==
  ASSUME PartsInv, WaitInv, NEW b \in Banks, Grant(b)
  PROVE  WaitInv'
<1>1. PICK p \in Ports : \E r \in ReqsOf(p) : \E s \in Slots :
           /\ ing[p] # <<>> /\ r = Head(ing[p]) /\ s = allocPtr[p]
           /\ ArbReq(p) /\ BankOf(r.addr) = b /\ InRange(r.addr)
           /\ Push(b, PayloadOf(p, s, r)) /\ ArbGrant(p)
           /\ PayloadOf(p, s, r) \in BankReqs
  BY GrantFacts, Zenon
<1>2. PICK r \in ReqsOf(p), s \in Slots :
           /\ ing[p] # <<>> /\ r = Head(ing[p]) /\ s = allocPtr[p]
           /\ ArbReq(p) /\ BankOf(r.addr) = b /\ InRange(r.addr)
           /\ Push(b, PayloadOf(p, s, r)) /\ ArbGrant(p)
           /\ PayloadOf(p, s, r) \in BankReqs
  BY <1>1, Zenon
<1> DEFINE e == PayloadOf(p, s, r)
           n == Len(inq[b]) + 1
<1>3. e.meta = [port |-> p, slot |-> s, req |-> r] /\ TagOf(e) = <<p, s>>
  BY Zenon DEF PayloadOf, TagOf
<1>4. inq \in [Banks -> Seq(BankReqs)] /\ inq' = [inq EXCEPT ![b] = Append(inq[b], e)]
  BY <1>2, ZenonT(60) DEF PartsInv, BankInv, BankTypeOK, Push
<1>5. Alloc(p, FALSE) /\ ~RobFull(p)
  BY <1>2, Zenon DEF ArbGrant, ArbReq
<1>6. robLane'[p][s] = LaneOf(p, r.addr)
  BY <1>2, <1>5, HavePortFacts, ZenonT(60) DEF PortFacts, Alloc
<1> HIDE DEF e
<1>7. /\ inq'[b] = Append(inq[b], e) /\ inq[b] \in Seq(BankReqs) /\ e \in BankReqs
      /\ \A c \in Banks : c # b => inq'[c] = inq[c]
  BY <1>2, <1>4, ZenonT(60) DEF e
<1>8. /\ DOMAIN inq'[b] = DOMAIN inq[b] \union {n} /\ inq'[b][n] = e
      /\ \A i \in DOMAIN inq[b] : i < n /\ inq'[b][i] = inq[b][i]
      /\ n \in Nat /\ DOMAIN inq[b] \subseteq Nat
  BY <1>7
<1> HIDE DEF n
<1>9. \A t \in Ports : \A q1 \in owed[t] : robLane'[t][q1] = robLane[t][q1]
  BY <1>5, AllocKeepsLanes, ZenonT(60)
<1>10. FaithfulInv'
  <2> SUFFICES ASSUME NEW c \in Banks, NEW i \in DOMAIN inq'[c]
               PROVE  Faithful(c, inq'[c][i], robLane')
    BY Zenon DEF FaithfulInv
  <2>1. CASE c = b /\ i = n
    <3>1. inq'[c][i] = e
      BY <1>8, <2>1, ZenonT(60)
    <3>2. Faithful(b, e, robLane')
      <4>1. e.meta.port = p /\ e.meta.slot = s /\ e.meta.req = r
        BY <1>3
      <4>2. e = PayloadOf(e.meta.port, e.meta.slot, e.meta.req)
        BY <4>1, Zenon DEF e
      <4> QED
        BY <1>2, <1>6, <4>1, <4>2, ZenonT(60) DEF Faithful
    <3> QED
      BY <2>1, <3>1, <3>2, ZenonT(60)
  <2>2. CASE ~(c = b /\ i = n)
    <3> DEFINE x == inq[c][i]
    <3>1. i \in DOMAIN inq[c] /\ inq'[c][i] = inq[c][i]
      <4>1. CASE c # b
        BY <1>7, <4>1, ZenonT(60)
      <4>2. CASE c = b
        BY <1>8, <2>2, <4>2, ZenonT(60)
      <4> QED
        BY <4>1, <4>2, Zenon
    <3>2. Faithful(c, x, robLane)
      BY <3>1, Zenon DEF WaitInv, FaithfulInv
    <3>3. x.meta.port \in Ports /\ x.meta.slot \in owed[x.meta.port]
      BY <3>1, WaitingIsOwed, ZenonT(60)
    <3> HIDE DEF x
    <3>4. Faithful(c, x, robLane')
      BY <1>9, <3>2, <3>3, ZenonT(60) DEF Faithful
    <3> QED
      BY <3>1, <3>4, Zenon DEF x
  <2> QED
    BY <2>1, <2>2, ZenonT(60)
<1>11. InOrderInv'
  <2> SUFFICES ASSUME NEW c \in Banks, NEW i \in DOMAIN inq'[c], NEW j \in DOMAIN inq'[c],
                      NEW t \in Ports, NEW k \in 1..robCnt'[t], NEW l \in 1..robCnt'[t],
                      i < j,
                      TagOf(inq'[c][i]) = <<t, SlotAt(t, k)'>>,
                      TagOf(inq'[c][j]) = <<t, SlotAt(t, l)'>>
               PROVE  k < l
    BY ZenonT(60) DEF InOrderInv, SlotAt
  <2>1. /\ SlotAt(t, k)' = SlotAt(t, k) /\ SlotAt(t, l)' = SlotAt(t, l)
        /\ SlotAt(t, k) \in owed[t] => k \in 1..robCnt[t]
        /\ SlotAt(t, l) \in owed[t] => l \in 1..robCnt[t]
    BY <1>5, SlotsAfterAlloc, Zenon
  <2>2. i \in DOMAIN inq[c] /\ inq'[c][i] = inq[c][i]
    <3>1. CASE c # b
      BY <1>7, <3>1, Zenon
    <3>2. CASE c = b
      <4>1. i # n
        <5>1. n \in Nat /\ (j = n \/ (j \in Nat /\ j < n))
          BY <1>8, <3>2, Zenon
        <5> QED
          BY ONLY <5>1, i < j, SMTT(30)
      <4> QED
        BY <1>8, <3>2, <4>1, Zenon
    <3> QED
      BY <3>1, <3>2, Zenon
  <2>3. SlotAt(t, k) \in owed[t]
    <3>1. TagOf(inq[c][i]) = <<t, SlotAt(t, k)>>
      BY <2>1, <2>2, ZenonT(60)
    <3> QED
      BY <2>2, <3>1, WaitingIsOwed, ZenonT(60) DEF TagOf
  <2>4. CASE j \in DOMAIN inq[c]
    <3>1. inq'[c][j] = inq[c][j]
      BY <1>7, <1>8, <2>4, ZenonT(60)
    <3>2. TagOf(inq[c][j]) = <<t, SlotAt(t, l)>> /\ TagOf(inq[c][i]) = <<t, SlotAt(t, k)>>
      BY <2>1, <2>2, <3>1, ZenonT(60)
    <3>3. SlotAt(t, l) \in owed[t]
      BY <2>4, <3>2, WaitingIsOwed, ZenonT(60) DEF TagOf
    <3> QED
      BY <2>1, <2>2, <2>3, <2>4, <3>2, <3>3, ZenonT(60) DEF WaitInv, InOrderInv
  <2>5. CASE j \notin DOMAIN inq[c]
    <3>1. c = b /\ j = n /\ inq'[c][j] = e
      BY <1>7, <1>8, <2>5, ZenonT(60)
    <3>2. t = p /\ SlotAt(p, l) = s
      <4>1. <<t, SlotAt(t, l)>> = <<p, s>>
        BY <1>3, <2>1, <3>1, ZenonT(60)
      <4> QED
        BY <4>1, Zenon
    <3>3. SlotAt(p, l) \notin owed[p]
      BY <1>2, <1>5, <3>2, OwedIsElsewhere, ZenonT(60)
    <3>4. robCnt[p] \in Nat /\ robCnt'[p] = robCnt[p] + 1
      BY <1>5, HavePortFacts, SMTT(30) DEF Alloc, PortFacts
    <3>5. CASE l \in 1..robCnt[p]
      <4>1. SlotAt(p, l) \in Ring(deliverPtr[p], robCnt[p])
        <5>1. l - 1 \in 0..(robCnt[p] - 1)
          BY ONLY <3>4, <3>5, SMTT(30)
        <5>2. deliverPtr[p] \in Int /\ l \in Int
          <6>1. deliverPtr[p] \in Slots
            BY HavePortFacts, Zenon DEF PortFacts
          <6> QED
            BY ONLY <3>4, <3>5, <6>1, PortAssumption, SMTT(30) DEF Slots
        <5>3. deliverPtr[p] + l - 1 = deliverPtr[p] + (l - 1)
          BY <5>2, Zenon
        <5> QED
          BY <5>1, <5>3, ZenonT(60) DEF SlotAt, Ring
      <4>2. /\ deliverPtr[p] \in Slots /\ robCnt[p] \in 0..(EgressDepth - 1)
            /\ s = Wrap(deliverPtr[p] + robCnt[p])
        BY <1>2, <1>5, RoomInRing, ZenonT(60)
      <4>3. s \notin Ring(deliverPtr[p], robCnt[p])
        BY <4>2, RingAdd, ZenonT(60)
      <4> QED
        BY <3>2, <4>1, <4>3, ZenonT(60)
    <3>6. CASE l \notin 1..robCnt[p]
      <4>1. k \in 1..robCnt[p]
        BY <2>1, <2>3, <3>2, ZenonT(60)
      <4>2. l \in 1..(robCnt[p] + 1)
        BY <3>2, <3>4, Zenon
      <4> QED
        BY ONLY <3>4, <3>6, <4>1, <4>2, SMTT(30)
    <3> QED
      BY <3>5, <3>6, ZenonT(60)
  <2> QED
    BY <2>4, <2>5, ZenonT(60)
<1> QED
  BY <1>10, <1>11, ZenonT(60) DEF WaitInv

\* Nothing waits at the start.
LEMMA WaitInitInv == Init => WaitInv
<1> SUFFICES ASSUME Init PROVE WaitInv
  BY Zenon
<1>1. \A b \in Banks : inq[b] = <<>>
  BY Zenon DEF Init, BankInit
<1>2. \A b \in Banks : DOMAIN inq[b] = {}
  BY <1>1
<1> QED
  BY <1>2, Zenon DEF WaitInv, FaithfulInv, InOrderInv

\* Every step keeps the waiting accesses faithful and in order.
LEMMA WaitNextInv == PartsInv /\ WaitInv /\ [Next]_vars => WaitInv'
<1> SUFFICES ASSUME PartsInv, WaitInv, [Next]_vars PROVE WaitInv'
  BY Zenon
<1>1. ASSUME NEW p \in Ports, AcceptStep(p) PROVE WaitInv'
  BY <1>1, WaitUnchanged, Zenon DEF AcceptStep, Accept, bankVars
<1>2. ASSUME NEW p \in Ports, FillPort(p) PROVE WaitInv'
  BY <1>2, WaitUnchanged, ZenonT(60) DEF FillPort, Fill, Pop
<1>3. ASSUME NEW b \in Banks, ReturnStep(b) PROVE WaitInv'
  BY <1>3, WaitUnchanged, ZenonT(60) DEF ReturnStep, Return, portVars
<1>4. ASSUME NEW b \in Banks, Hold(b) PROVE WaitInv'
  BY <1>4, WaitUnchanged, ZenonT(60) DEF Hold, portVars, bankVars
<1>5. CASE UNCHANGED vars
  BY <1>5, WaitUnchanged, Zenon DEF vars, portVars, bankVars
<1> QED
  BY <1>1, <1>2, <1>3, <1>4, <1>5, ErrorKeepsWait, DeliverKeepsWait, IssueKeepsWait,
     GrantKeepsWait, ZenonT(60) DEF Next

\* All of it together.
SubsystemInv == PartsInv /\ WaitInv

\* It holds at the start ...
LEMMA SubsystemInitInv == Init => SubsystemInv
BY PartsInitInv, WaitInitInv, Zenon DEF SubsystemInv

\* ... and every step keeps it.
LEMMA SubsystemNextInv == SubsystemInv /\ [Next]_vars => SubsystemInv'
BY PartsNextInv, WaitNextInv, Zenon DEF SubsystemInv

-----------------------------------------------------------------------------
\* The entries of a sequence with one more at its end ...
LEMMA RangeAppend ==
  ASSUME NEW S, NEW u \in Seq(S), NEW e \in S
  PROVE  Range(Append(u, e)) = Range(u) \union {e}
<1>1. DOMAIN Append(u, e) = DOMAIN u \union {Len(u) + 1}
  OBVIOUS
<1>2. Append(u, e)[Len(u) + 1] = e /\ \A i \in DOMAIN u : Append(u, e)[i] = u[i]
  OBVIOUS
<1> QED
  BY <1>1, <1>2, Zenon DEF Range

\* ... and without its first.
LEMMA RangeTail ==
  ASSUME NEW S, NEW u \in Seq(S), u # <<>>
  PROVE  /\ Head(u) \in Range(u)
         /\ Range(Tail(u)) \subseteq Range(u)
         /\ Range(u) = Range(Tail(u)) \union {Head(u)}
<1>1. 1 \in DOMAIN u /\ Head(u) = u[1]
  OBVIOUS
<1>2. \A i \in DOMAIN Tail(u) : i + 1 \in DOMAIN u /\ Tail(u)[i] = u[i + 1]
  OBVIOUS
<1>3. \A i \in DOMAIN u : i # 1 => i - 1 \in DOMAIN Tail(u) /\ Tail(u)[i - 1] = u[i]
  OBVIOUS
<1> QED
  BY <1>1, <1>2, <1>3, SMTT(30) DEF Range

\* Sequences with the same entries are the same.
LEMMA SameSequence ==
  ASSUME NEW u, NEW v, \E S : u \in Seq(S), \E S : v \in Seq(S), Len(u) = Len(v),
         \A i \in 1..Len(u) : u[i] = v[i]
  PROVE  u = v
<1>1. PICK S : u \in Seq(S)
  BY Zenon
<1>2. PICK T : v \in Seq(T)
  BY Zenon
<1>3. u \in Seq(S \union T) /\ v \in Seq(S \union T)
  BY <1>1, <1>2
<1> DEFINE U == S \union T
<1> HIDE DEF U
<1>4. u \in Seq(U) /\ v \in Seq(U)
  BY <1>3, Zenon DEF U
<1> QED
  BY <1>4

\* What an initiator sees of a slot changes only when its access moves from
\* one of the three places to another.
LEMMA ViewKept ==
  ASSUME PartsInv, PartsInv', NEW p \in Ports, NEW s \in Slots, robLane'[p][s] = robLane[p][s],
         \/ /\ filled[p][s] /\ filled'[p][s]
            /\ robErr'[p][s] = robErr[p][s] /\ robData'[p][s] = robData[p][s]
         \/ \E b \in Banks : \E x \in Range(inq[b]) : TagOf(x) = <<p, s>> /\ x \in Range(inq'[b])
         \/ \E b \in Banks : \E x \in Range(pipe[b]) \union Range(outq[b]) :
              TagOf(x) = <<p, s>> /\ x \in Range(pipe'[b]) \union Range(outq'[b])
  PROVE  RobView'[p][s] = RobView[p][s]
<1>1. ViewsAre /\ ViewsAre'
  BY ViewsHold, ViewsHoldNext, Zenon
<1> HIDE DEF RobView
<1>2. CASE /\ filled[p][s] /\ filled'[p][s]
           /\ robErr'[p][s] = robErr[p][s] /\ robData'[p][s] = robData[p][s]
  <2>1. RobView[p][s] = Done(robErr[p][s], robData[p][s])
    BY <1>1, <1>2, Zenon DEF ViewsAre
  <2>2. RobView'[p][s] = Done(robErr'[p][s], robData'[p][s])
    BY <1>1, <1>2, Zenon DEF ViewsAre
  <2> QED
    BY <1>2, <2>1, <2>2, Zenon
<1>3. ASSUME NEW b \in Banks, NEW x \in Range(inq[b]), TagOf(x) = <<p, s>>, x \in Range(inq'[b])
      PROVE  RobView'[p][s] = RobView[p][s]
  <2>1. RobView[p][s] = Waiting(x.meta.req)
    BY <1>1, <1>3, ZenonT(60) DEF ViewsAre
  <2>2. RobView'[p][s] = Waiting(x.meta.req)
    BY <1>1, <1>3, ZenonT(60) DEF ViewsAre
  <2> QED
    BY <2>1, <2>2, Zenon
<1>4. ASSUME NEW b \in Banks, NEW x \in Range(pipe[b]) \union Range(outq[b]),
             TagOf(x) = <<p, s>>, x \in Range(pipe'[b]) \union Range(outq'[b])
      PROVE  RobView'[p][s] = RobView[p][s]
  <2>1. RobView[p][s] = Done(FALSE, SelectLane(p, robLane[p][s], x.rdata))
    BY <1>1, <1>4, ZenonT(60) DEF ViewsAre
  <2>2. RobView'[p][s] = Done(FALSE, SelectLane(p, robLane'[p][s], x.rdata))
    BY <1>1, <1>4, ZenonT(60) DEF ViewsAre
  <2> QED
    BY <2>1, <2>2, ZenonT(60)
<1> QED
  BY <1>2, <1>3, <1>4, Zenon

\* The queue of a port is what it was if its entries are.
LEMMA QueueKept ==
  ASSUME PartsInv, PartsInv', NEW p \in Ports,
         robCnt'[p] = robCnt[p], ing'[p] = ing[p],
         \A i \in 1..robCnt[p] : RobView'[p][SlotAt(p, i)'] = RobView[p][SlotAt(p, i)]
  PROVE  QueueView(p)' = QueueView(p)
<1> DEFINE u == QueueView(p)
           v == QueueView(p)'
           n == robCnt[p]
           m == Len(ing[p])
<1>1. QueuesAre /\ QueuesAre'
  BY QueuesHold, QueuesHoldNext, Zenon
<1>2. /\ n \in Nat /\ m \in Nat
      /\ Len(u) = n + m /\ (\E S : u \in Seq(S))
      /\ \A i \in 1..n : u[i] = RobView[p][SlotAt(p, i)]
      /\ \A j \in 1..m : u[n + j] = Waiting(ing[p][j])
  BY <1>1, Zenon DEF QueuesAre
<1>3. /\ Len(v) = robCnt'[p] + Len(ing'[p]) /\ (\E S : v \in Seq(S))
      /\ \A i \in 1..robCnt'[p] : v[i] = RobView'[p][SlotAt(p, i)']
      /\ \A j \in 1..Len(ing'[p]) : v[robCnt'[p] + j] = Waiting(ing'[p][j])
  BY <1>1, Zenon DEF QueuesAre
<1> HIDE DEF u, v
<1>4. ASSUME NEW k \in 1..Len(u) PROVE u[k] = v[k]
  <2>1. CASE k \in 1..n
    BY <1>2, <1>3, <2>1, ZenonT(60)
  <2>2. CASE k \notin 1..n
    <3>1. k - n \in 1..m /\ n + (k - n) = k
      BY <1>2, <2>2, SMTT(30)
    <3>2. u[n + (k - n)] = Waiting(ing[p][k - n]) /\ v[n + (k - n)] = Waiting(ing[p][k - n])
      BY <1>2, <1>3, <3>1, ZenonT(60)
    <3> QED
      BY <3>1, <3>2, ZenonT(60)
  <2> QED
    BY <2>1, <2>2, Zenon
<1>5. Len(u) = Len(v)
  BY <1>2, <1>3, ZenonT(60)
<1>6. u = v
  BY <1>2, <1>3, <1>4, <1>5, SameSequence, ZenonT(30)
<1> QED
  BY <1>6, ZenonT(60) DEF u, v

\* An allocated slot is filled, or its bank still owes it.
LEMMA SlotHeld ==
  ASSUME PartsInv, NEW p \in Ports, NEW i \in 1..robCnt[p]
  PROVE  /\ SlotAt(p, i) \in Slots
         /\ filled[p][SlotAt(p, i)] \/ SlotAt(p, i) \in owed[p]
<1>1. robCnt[p] \in 0..EgressDepth /\ deliverPtr[p] \in Slots
  BY HavePortFacts, Zenon DEF PortFacts
<1>2. deliverPtr[p] + i - 1 = deliverPtr[p] + (i - 1) /\ i - 1 \in 0..(robCnt[p] - 1)
  BY <1>1, PortAssumption DEF Slots
<1>3. SlotAt(p, i) \in Allocated(p)
  BY <1>2, Zenon DEF SlotAt, Allocated, Ring
<1>4. SlotAt(p, i) \in Slots
  BY <1>1, PortAssumption DEF SlotAt, Wrap, Slots
<1> QED
  BY <1>3, <1>4, Zenon DEF PartsInv, PortInv, RingConsistent

\* The slot the next grant takes comes after the allocated ones.
LEMMA NewSlot ==
  ASSUME PartsInv, NEW p \in Ports
  PROVE  SlotAt(p, robCnt[p] + 1) = allocPtr[p] /\ allocPtr[p] \in Slots
<1>1. robCnt[p] \in Int /\ deliverPtr[p] \in Int /\ allocPtr[p] \in Slots
  BY HavePortFacts, PortAssumption, SMTT(30) DEF PortFacts, Slots
<1>2. deliverPtr[p] + (robCnt[p] + 1) - 1 = deliverPtr[p] + robCnt[p]
  BY <1>1
<1> QED
  BY <1>1, <1>2, ZenonT(60) DEF PartsInv, PortInv, RingConsistent, SlotAt

\* What a step leaves in place, an initiator sees as before.
LEMMA HeldViewKept ==
  ASSUME PartsInv, PartsInv', NEW p \in Ports, NEW s \in Slots,
         filled[p][s] \/ s \in owed[p],
         robLane'[p][s] = robLane[p][s],
         filled[p][s] => /\ filled'[p][s]
                         /\ robErr'[p][s] = robErr[p][s] /\ robData'[p][s] = robData[p][s],
         \A b \in Banks : \A x \in Range(inq[b]) : TagOf(x) = <<p, s>> => x \in Range(inq'[b]),
         \A b \in Banks : \A x \in Range(pipe[b]) \union Range(outq[b]) :
           TagOf(x) = <<p, s>> => x \in Range(pipe'[b]) \union Range(outq'[b])
  PROVE  RobView'[p][s] = RobView[p][s]
<1>1. CASE filled[p][s]
  BY <1>1, ViewKept, ZenonT(60)
<1>2. CASE s \in owed[p]
  <2>1. PICK b \in Banks : \/ \E x \in Range(inq[b]) : TagOf(x) = <<p, s>>
                           \/ \E x \in Range(pipe[b]) \union Range(outq[b]) : TagOf(x) = <<p, s>>
    BY <1>2, OwedIsHeld, ZenonT(60)
  <2>2. \/ \E x \in Range(inq[b]) : TagOf(x) = <<p, s>> /\ x \in Range(inq'[b])
        \/ \E x \in Range(pipe[b]) \union Range(outq[b]) :
             TagOf(x) = <<p, s>> /\ x \in Range(pipe'[b]) \union Range(outq'[b])
    BY <2>1, ZenonT(60)
  <2> QED
    BY <2>2, ViewKept, ZenonT(60)
<1> QED
  BY <1>1, <1>2, Zenon

\* A result that reaches the output FIFO changes nothing an initiator sees.
LEMMA ReturnStutters ==
  ASSUME PartsInv, PartsInv', NEW b \in Banks, ReturnStep(b)
  PROVE  \A p \in Ports : QueueView(p)' = QueueView(p)
<1>1. /\ pipe[b] # <<>> /\ pipe' = [pipe EXCEPT ![b] = Tail(@)]
      /\ outq' = [outq EXCEPT ![b] = Append(@, Head(pipe[b]))]
      /\ UNCHANGED inq /\ UNCHANGED portVars
  <2>1. Len(outq[b]) < OutDepth
    BY RoomForResult, Zenon DEF PartsInv, ReturnStep, Return
  <2> QED
    BY <2>1, Zenon DEF ReturnStep, Return
<1>2. pipe \in [Banks -> Seq(BankRsps)] /\ outq \in [Banks -> Seq(BankRsps)]
  BY Zenon DEF PartsInv, BankInv, BankTypeOK
<1>3. ASSUME NEW c \in Banks
      PROVE  Range(pipe[c]) \union Range(outq[c]) \subseteq Range(pipe'[c]) \union Range(outq'[c])
  <2>1. CASE c = b
    <3>1. Head(pipe[b]) \in BankRsps
      BY <1>1, <1>2, SMTT(30)
    <3>2. Range(Append(outq[b], Head(pipe[b]))) = Range(outq[b]) \union {Head(pipe[b])}
      BY <1>2, <3>1, RangeAppend, SMTT(30)
    <3>3. Range(pipe[b]) = Range(Tail(pipe[b])) \union {Head(pipe[b])}
      BY <1>1, <1>2, RangeTail, ZenonT(60)
    <3>4. pipe'[b] = Tail(pipe[b]) /\ outq'[b] = Append(outq[b], Head(pipe[b]))
      BY <1>1, <1>2, SMTT(30)
    <3> QED
      BY <2>1, <3>2, <3>3, <3>4, SMTT(30)
  <2>2. CASE c # b
    BY <1>1, <1>2, <2>2, ZenonT(60)
  <2> QED
    BY <2>1, <2>2, ZenonT(60)
<1>4. ASSUME NEW p \in Ports, NEW i \in 1..robCnt[p]
      PROVE  RobView'[p][SlotAt(p, i)] = RobView[p][SlotAt(p, i)]
  BY <1>1, <1>3, SlotHeld, HeldViewKept, ZenonT(60) DEF portVars
<1>5. ASSUME NEW p \in Ports, NEW i \in 1..robCnt[p] PROVE SlotAt(p, i)' = SlotAt(p, i)
  BY <1>1, ZenonT(60) DEF SlotAt, Wrap, portVars
<1> QED
  BY <1>1, <1>4, <1>5, QueueKept, SMTT(30) DEF portVars

\* A fill records in the reorder buffer what the initiator saw already.
LEMMA FillStutters ==
  ASSUME PartsInv, PartsInv', NEW p \in Ports, FillPort(p)
  PROVE  /\ UNCHANGED sram
         /\ \A t \in Ports : QueueView(t)' = QueueView(t)
<1>1. PICK b \in Banks : \E x \in BankRsps :
           /\ outq[b] # <<>> /\ x = Head(outq[b]) /\ x.meta.port = p
           /\ x.meta.slot \in owed[p] /\ x.rdata \in Word
           /\ Fill(p, x.meta.slot, x.rdata) /\ Pop(b)
  BY FillFacts, Zenon
<1>2. PICK x \in BankRsps :
           /\ outq[b] # <<>> /\ x = Head(outq[b]) /\ x.meta.port = p
           /\ x.meta.slot \in owed[p] /\ x.rdata \in Word
           /\ Fill(p, x.meta.slot, x.rdata) /\ Pop(b)
  BY <1>1, Zenon
<1> DEFINE y == x.meta.slot
<1>3. /\ filled' = [filled EXCEPT ![p][y] = TRUE]
      /\ robData' = [robData EXCEPT ![p][y] = SelectLane(p, robLane[p][y], x.rdata)]
      /\ robErr' = [robErr EXCEPT ![p][y] = FALSE]
      /\ UNCHANGED <<ing, robLane, deliverPtr, robCnt>>
  BY <1>2, Zenon DEF Fill
<1>4. outq' = [outq EXCEPT ![b] = Tail(@)] /\ UNCHANGED <<inq, pipe, sram>>
  BY <1>2, Zenon DEF Pop
<1>5. /\ filled \in [Ports -> [Slots -> BOOLEAN]] /\ robErr \in [Ports -> [Slots -> BOOLEAN]]
      /\ DOMAIN robData = Ports /\ \A t \in Ports : robData[t] \in [Slots -> [PortLanes(t) -> Vals]]
      /\ y \in Slots /\ outq \in [Banks -> Seq(BankRsps)]
  <2>1. filled \in [Ports -> [Slots -> BOOLEAN]] /\ robErr \in [Ports -> [Slots -> BOOLEAN]] /\ y \in Slots
    BY <1>2, HavePortFacts, Zenon DEF PortFacts
  <2>2. outq \in [Banks -> Seq(BankRsps)]
    BY Zenon DEF PartsInv, BankInv, BankTypeOK
  <2>3. DOMAIN robData = Ports /\ \A t \in Ports : robData[t] \in [Slots -> [PortLanes(t) -> Vals]]
    BY Zenon DEF PartsInv, PortInv, PortTypeOK
  <2> QED
    BY <2>1, <2>2, <2>3, ZenonT(60)
<1>6. TagOf(x) = <<p, y>>
  BY <1>2, Zenon DEF TagOf
<1>7. x \in Range(outq[b]) /\ outq'[b] = Tail(outq[b])
      /\ Range(outq[b]) = Range(outq'[b]) \union {x}
  BY <1>2, <1>4, <1>5, RangeTail, ZenonT(60)
<1> HIDE DEF y
<1>8. ASSUME NEW t \in Ports, NEW i \in 1..robCnt[t]
      PROVE  RobView'[t][SlotAt(t, i)] = RobView[t][SlotAt(t, i)]
  <2> DEFINE s == SlotAt(t, i)
  <2>1. s \in Slots /\ (filled[t][s] \/ s \in owed[t])
    BY SlotHeld, Zenon
  <2> HIDE DEF s
  <2>2. CASE t = p /\ s = y
    <3>1. ViewsAre /\ ViewsAre'
      BY ViewsHold, ViewsHoldNext, ZenonT(60)
    <3>2. RobView[p][y] = Done(FALSE, SelectLane(p, robLane[p][y], x.rdata))
      <4>1. x \in Range(pipe[b]) \union Range(outq[b])
        BY <1>7, Zenon
      <4>2. y \in Slots
        BY <1>5, Zenon
      <4>3. \A c \in Banks : \A v \in Range(pipe[c]) \union Range(outq[c]) :
              TagOf(v) = <<p, y>> => RobView[p][y] = Done(FALSE, SelectLane(p, robLane[p][y], v.rdata))
        BY <3>1, <4>2, ZenonT(60) DEF ViewsAre
      <4> QED
        BY <1>6, <4>1, <4>3, ZenonT(60)
    <3>3. filled'[p][y] /\ robErr'[p][y] = FALSE /\ robData'[p][y] = SelectLane(p, robLane[p][y], x.rdata)
      BY <1>3, <1>5, ZenonT(60)
    <3>4. RobView'[p][y] = Done(robErr'[p][y], robData'[p][y])
      BY <1>5, <3>1, <3>3, ZenonT(60) DEF ViewsAre
    <3> QED
      BY <2>2, <3>2, <3>3, <3>4, ZenonT(60) DEF s
  <2>3. CASE ~(t = p /\ s = y)
    <3>1. filled'[t][s] = filled[t][s] /\ robErr'[t][s] = robErr[t][s] /\ robData'[t][s] = robData[t][s]
      BY <1>3, <1>5, <2>1, <2>3, ZenonT(60)
    <3>2. TagOf(x) # <<t, s>>
      BY <1>6, <2>3, SMTT(30)
    <3>3. ASSUME NEW c \in Banks, NEW v \in Range(pipe[c]) \union Range(outq[c]), TagOf(v) = <<t, s>>
          PROVE  v \in Range(pipe'[c]) \union Range(outq'[c])
      BY <1>4, <1>5, <1>7, <3>2, <3>3, ZenonT(60)
    <3>4. RobView'[t][s] = RobView[t][s]
      BY <1>3, <1>4, <2>1, <3>1, <3>3, HeldViewKept, ZenonT(60)
    <3> QED
      BY <3>4, Zenon DEF s
  <2> QED
    BY <2>2, <2>3, Zenon
<1>9. ASSUME NEW t \in Ports, NEW i \in 1..robCnt[t] PROVE SlotAt(t, i)' = SlotAt(t, i)
  BY <1>3, Zenon DEF SlotAt, Wrap
<1> QED
  BY <1>3, <1>4, <1>8, <1>9, QueueKept, SMTT(30)

\* What a grant does to the queue of its port: the oldest request of the
\* ingress FIFO is now the youngest slot of the reorder buffer.
LEMMA QueueAfterAlloc ==
  ASSUME PartsInv, PartsInv', NEW p \in Ports, NEW err \in BOOLEAN,
         Alloc(p, err), ing[p] # <<>>, ~RobFull(p),
         \A i \in 1..robCnt[p] : RobView'[p][SlotAt(p, i)] = RobView[p][SlotAt(p, i)]
  PROVE  /\ robCnt[p] + 1 \in 1..Len(QueueView(p))
         /\ Len(QueueView(p)') = Len(QueueView(p))
         /\ QueueView(p)[robCnt[p] + 1] = Waiting(Head(ing[p]))
         /\ QueueView(p)'[robCnt[p] + 1] = RobView'[p][allocPtr[p]]
         /\ \A k \in 1..Len(QueueView(p)) :
              k # robCnt[p] + 1 => QueueView(p)'[k] = QueueView(p)[k]
<1> DEFINE u == QueueView(p)
           v == QueueView(p)'
           n == robCnt[p]
           m == Len(ing[p])
<1>1. QueuesAre /\ QueuesAre'
  BY QueuesHold, QueuesHoldNext, ZenonT(60)
<1>2. /\ n \in Nat /\ m \in Nat
      /\ Len(u) = n + m
      /\ \A i \in 1..n : u[i] = RobView[p][SlotAt(p, i)]
      /\ \A j \in 1..m : u[n + j] = Waiting(ing[p][j])
  BY <1>1, Zenon DEF QueuesAre
<1>3. /\ Len(v) = robCnt'[p] + Len(ing'[p])
      /\ \A i \in 1..robCnt'[p] : v[i] = RobView'[p][SlotAt(p, i)']
      /\ \A j \in 1..Len(ing'[p]) : v[robCnt'[p] + j] = Waiting(ing'[p][j])
  BY <1>1, ZenonT(60) DEF QueuesAre
<1>4. robCnt'[p] = n + 1
  BY HavePortFacts, ZenonT(60) DEF Alloc, PortFacts
<1>5. ing'[p] = Tail(ing[p])
  BY HavePortFacts, Zenon DEF Alloc, PortFacts
<1>6. ing[p] \in Seq(ReqsOf(p))
  BY Zenon DEF PartsInv, IngressInv
<1>7. m > 0 /\ Len(ing'[p]) = m - 1 /\ \A j \in 1..(m - 1) : ing'[p][j] = ing[p][j + 1]
  BY <1>5, <1>6, SMTT(30)
<1>8. \A k \in 1..(n + 1) : SlotAt(p, k)' = SlotAt(p, k)
  BY <1>4, SlotsAfterAlloc, ZenonT(60)
<1>9. SlotAt(p, n + 1) = allocPtr[p]
  BY NewSlot, ZenonT(60)
<1>10. Head(ing[p]) = ing[p][1]
  BY <1>6
<1> HIDE DEF u, v, n, m
<1>10a. n \in Nat /\ m \in Nat /\ m > 0 /\ Len(u) = n + m /\ Len(v) = (n + 1) + (m - 1)
  BY <1>2, <1>3, <1>4, <1>7, ZenonT(60)
<1>11. n + 1 \in 1..Len(u) /\ Len(v) = Len(u) /\ 1 \in 1..m
  BY ONLY <1>10a
<1>12. u[n + 1] = Waiting(Head(ing[p]))
  BY <1>2, <1>10, <1>11, ZenonT(60)
<1>13. v[n + 1] = RobView'[p][allocPtr[p]]
  <2>1. n + 1 \in 1..(n + 1)
    BY ONLY <1>10a, SMTT(30)
  <2> QED
    BY <1>3, <1>4, <1>8, <1>9, <2>1, ZenonT(60)
<1>14. ASSUME NEW k \in 1..Len(u), k # n + 1 PROVE v[k] = u[k]
  <2>1. CASE k \in 1..n
    <3>1. k \in 1..(n + 1)
      BY ONLY <1>10a, <2>1, SMTT(30)
    <3>2. v[k] = RobView'[p][SlotAt(p, k)]
      BY <1>3, <1>4, <1>8, <3>1, ZenonT(60)
    <3> QED
      BY <1>2, <2>1, <3>2, ZenonT(60) DEF n
  <2>2. CASE k \notin 1..n
    <3> DEFINE j == k - (n + 1)
    <3>1. j \in 1..(m - 1) /\ (n + 1) + j = k /\ j + 1 \in 1..m /\ n + (j + 1) = k
      BY ONLY <1>10a, <1>14, <2>2, k \in 1..Len(u), SMTT(30)
    <3> HIDE DEF j
    <3>2. v[(n + 1) + j] = Waiting(ing'[p][j])
      BY <1>3, <1>4, <1>7, <3>1, ZenonT(60)
    <3>3. u[n + (j + 1)] = Waiting(ing[p][j + 1])
      BY <1>2, <3>1, ZenonT(60)
    <3> QED
      BY <1>7, <3>1, <3>2, <3>3, ZenonT(60)
  <2> QED
    BY <2>1, <2>2, SMTT(30)
<1> QED
  BY <1>11, <1>12, <1>13, <1>14, ZenonT(60) DEF u, v, n

\* A grant, of either kind, changes nothing an initiator sees of older slots.
LEMMA AllocKeepsViews ==
  ASSUME PartsInv, PartsInv', NEW p \in Ports, NEW err \in BOOLEAN,
         Alloc(p, err), ~RobFull(p), UNCHANGED <<pipe, outq>>,
         \A b \in Banks : Range(inq[b]) \subseteq Range(inq'[b])
  PROVE  \A t \in Ports : \A i \in 1..robCnt[t] :
           RobView'[t][SlotAt(t, i)] = RobView[t][SlotAt(t, i)]
<1> SUFFICES ASSUME NEW t \in Ports, NEW i \in 1..robCnt[t]
             PROVE  RobView'[t][SlotAt(t, i)] = RobView[t][SlotAt(t, i)]
  BY Zenon
<1> DEFINE s == SlotAt(t, i)
           a == allocPtr[p]
<1>1. s \in Slots /\ (filled[t][s] \/ s \in owed[t])
  BY SlotHeld, Zenon
<1>2. ~(t = p /\ s = a)
  <2> SUFFICES ASSUME t = p, s = a PROVE FALSE
    BY Zenon
  <2>1. deliverPtr[p] \in Slots /\ robCnt[p] \in 0..(EgressDepth - 1)
    BY RoomInRing, Zenon
  <2>2. a = Wrap(deliverPtr[p] + robCnt[p])
    BY RoomInRing, Zenon
  <2>3. a \notin Allocated(p)
    BY <2>1, <2>2, RingAdd, ZenonT(60) DEF Allocated
  <2> QED
    BY <1>1, <2>3, ZenonT(60) DEF PartsInv, PortInv, RingConsistent
<1>3. /\ robLane \in [Ports -> [Slots -> Lanes]] /\ filled \in [Ports -> [Slots -> BOOLEAN]]
      /\ robErr \in [Ports -> [Slots -> BOOLEAN]]
  BY HavePortFacts, Zenon DEF PortFacts
<1>4. DOMAIN robData = Ports /\ \A r \in Ports : robData[r] \in [Slots -> [PortLanes(r) -> Vals]]
  BY Zenon DEF PartsInv, PortInv, PortTypeOK
<1>5. /\ robLane' = [robLane EXCEPT ![p][a] = LaneOf(p, Head(ing[p]).addr)]
      /\ filled' = [filled EXCEPT ![p][a] = err]
      /\ robErr' = [robErr EXCEPT ![p][a] = err]
      /\ robData' = IF err THEN [robData EXCEPT ![p][a] = PortZero(p)] ELSE robData
  BY ZenonT(60) DEF Alloc
<1> HIDE DEF s, a
<1>6. robLane'[t][s] = robLane[t][s] /\ filled'[t][s] = filled[t][s] /\ robErr'[t][s] = robErr[t][s]
  BY <1>1, <1>2, <1>3, <1>5, SMTT(30)
<1>7. robData'[t][s] = robData[t][s]
  BY <1>1, <1>2, <1>4, <1>5, SMTT(30)
<1>8. RobView'[t][s] = RobView[t][s]
  BY <1>1, <1>6, <1>7, HeldViewKept, ZenonT(60)
<1> QED
  BY <1>8, Zenon DEF s

\* The queue of a port that a grant of another port leaves alone.
LEMMA OtherQueues ==
  ASSUME PartsInv, PartsInv', NEW p \in Ports, NEW err \in BOOLEAN, Alloc(p, err),
         NEW t \in Ports, t # p,
         \A i \in 1..robCnt[t] : RobView'[t][SlotAt(t, i)] = RobView[t][SlotAt(t, i)]
  PROVE  QueueView(t)' = QueueView(t)
<1>1. robCnt'[t] = robCnt[t] /\ ing'[t] = ing[t]
  BY HavePortFacts, ZenonT(60) DEF Alloc, PortFacts
<1>2. ASSUME NEW i \in 1..robCnt[t] PROVE SlotAt(t, i)' = SlotAt(t, i)
  BY Zenon DEF SlotAt, Wrap, Alloc
<1> QED
  BY <1>1, <1>2, QueueKept, ZenonT(60)

\* A request that reaches its bank stands where it stood.
LEMMA GrantStutters ==
  ASSUME PartsInv, PartsInv', NEW b \in Banks, Grant(b)
  PROVE  /\ UNCHANGED sram
         /\ \A t \in Ports : QueueView(t)' = QueueView(t)
<1>1. PICK p \in Ports : \E r \in ReqsOf(p) : \E s \in Slots :
           /\ ing[p] # <<>> /\ r = Head(ing[p]) /\ s = allocPtr[p]
           /\ ArbReq(p) /\ BankOf(r.addr) = b /\ InRange(r.addr)
           /\ Push(b, PayloadOf(p, s, r)) /\ ArbGrant(p)
           /\ PayloadOf(p, s, r) \in BankReqs
  BY GrantFacts, ZenonT(60)
<1>2. PICK r \in ReqsOf(p), s \in Slots :
           /\ ing[p] # <<>> /\ r = Head(ing[p]) /\ s = allocPtr[p]
           /\ ArbReq(p) /\ BankOf(r.addr) = b /\ InRange(r.addr)
           /\ Push(b, PayloadOf(p, s, r)) /\ ArbGrant(p)
           /\ PayloadOf(p, s, r) \in BankReqs
  BY <1>1, ZenonT(60)
<1> DEFINE x == PayloadOf(p, s, r)
<1>3. inq' = [inq EXCEPT ![b] = Append(@, x)] /\ UNCHANGED <<pipe, outq, sram>> /\ x \in BankReqs
  BY <1>2, ZenonT(60) DEF Push
<1>4. Alloc(p, FALSE) /\ ~RobFull(p)
  BY <1>2, ZenonT(60) DEF ArbGrant, ArbReq
<1>5. x.meta.req = r /\ TagOf(x) = <<p, s>>
  BY Zenon DEF PayloadOf, TagOf
<1> HIDE DEF x
<1>6. inq \in [Banks -> Seq(BankReqs)]
  BY Zenon DEF PartsInv, BankInv, BankTypeOK
<1>7. inq'[b] = Append(inq[b], x) /\ Range(inq'[b]) = Range(inq[b]) \union {x}
  BY <1>3, <1>6, RangeAppend, SMTT(30)
<1>8. \A c \in Banks : Range(inq[c]) \subseteq Range(inq'[c])
  BY <1>3, <1>6, <1>7, ZenonT(60)
<1>9. \A t \in Ports : \A i \in 1..robCnt[t] :
        RobView'[t][SlotAt(t, i)] = RobView[t][SlotAt(t, i)]
  BY <1>3, <1>4, <1>8, AllocKeepsViews, ZenonT(60)
<1>10. RobView'[p][s] = Waiting(r)
  <2>1. ViewsAre'
    BY ViewsHoldNext, Zenon
  <2>2. x \in Range(inq'[b])
    BY <1>7, Zenon
  <2>3. \A v \in Range(inq'[b]) : TagOf(v) = <<p, s>> => RobView'[p][s] = Waiting(v.meta.req)
    BY <2>1, Zenon DEF ViewsAre
  <2> QED
    BY <1>5, <2>2, <2>3, ZenonT(60)
<1>11. QueueView(p)' = QueueView(p)
  <2> DEFINE u == QueueView(p)
             v == QueueView(p)'
             n == robCnt[p] + 1
  <2>1. /\ Len(v) = Len(u) /\ u[n] = Waiting(r) /\ v[n] = Waiting(r)
        /\ \A k \in 1..Len(u) : k # n => v[k] = u[k]
    BY <1>2, <1>4, <1>9, <1>10, QueueAfterAlloc, ZenonT(60)
  <2>2. (\E S : u \in Seq(S)) /\ (\E S : v \in Seq(S))
    BY QueuesHold, QueuesHoldNext, ZenonT(60) DEF QueuesAre
  <2> HIDE DEF u, v, n
  <2>3. \A k \in 1..Len(u) : u[k] = v[k]
    BY <2>1, ZenonT(60)
  <2>4. u = v
    BY <2>1, <2>2, <2>3, SameSequence, SMTT(30)
  <2> QED
    BY <2>4, ZenonT(60) DEF u, v
<1> QED
  BY <1>3, <1>4, <1>9, <1>11, OtherQueues, ZenonT(60)

\* Steps of other components leave what is in the reorder buffer alone.
LEMMA SameViews ==
  ASSUME PartsInv, PartsInv', UNCHANGED <<filled, robErr, robData, robLane, inq, pipe, outq>>
  PROVE  \A t \in Ports : \A i \in 1..robCnt[t] :
           RobView'[t][SlotAt(t, i)] = RobView[t][SlotAt(t, i)]
BY SlotHeld, HeldViewKept, ZenonT(60)

\* A step that touches neither ports nor banks is not seen by any initiator.
LEMMA NothingSeen ==
  ASSUME PartsInv, PartsInv', UNCHANGED <<portVars, bankVars>>
  PROVE  \A t \in Ports : QueueView(t)' = QueueView(t)
<1>1. ASSUME NEW t \in Ports, NEW i \in 1..robCnt[t] PROVE SlotAt(t, i)' = SlotAt(t, i)
  BY Zenon DEF SlotAt, Wrap, portVars
<1>2. \A t \in Ports : \A i \in 1..robCnt[t] :
        RobView'[t][SlotAt(t, i)] = RobView[t][SlotAt(t, i)]
  BY SameViews, Zenon DEF portVars, bankVars
<1> QED
  BY <1>1, <1>2, QueueKept, ZenonT(60) DEF portVars

\* An accepted request is the last of its queue.
LEMMA AcceptAppends ==
  ASSUME PartsInv, PartsInv', NEW p \in Ports, NEW r \in ReqsOf(p), Accept(p, r), UNCHANGED bankVars
  PROVE  /\ QueueView(p)' = Append(QueueView(p), Waiting(r))
         /\ \A t \in Ports : t # p => QueueView(t)' = QueueView(t)
<1>1. /\ ing' = [ing EXCEPT ![p] = Append(@, r)]
      /\ UNCHANGED <<filled, robErr, robData, robLane, deliverPtr, robCnt>>
      /\ UNCHANGED <<inq, pipe, outq>>
  BY Zenon DEF Accept, bankVars
<1>2. DOMAIN ing = Ports
  BY HavePortFacts, Zenon DEF PortFacts
<1>3. ASSUME NEW t \in Ports, NEW i \in 1..robCnt[t] PROVE SlotAt(t, i)' = SlotAt(t, i)
  BY <1>1, Zenon DEF SlotAt, Wrap
<1>4. \A t \in Ports : \A i \in 1..robCnt[t] :
        RobView'[t][SlotAt(t, i)] = RobView[t][SlotAt(t, i)]
  BY <1>1, SameViews, ZenonT(60)
<1>5. ASSUME NEW t \in Ports, t # p PROVE QueueView(t)' = QueueView(t)
  <2>1. robCnt'[t] = robCnt[t] /\ ing'[t] = ing[t]
    BY <1>1, <1>2, <1>5, ZenonT(60)
  <2> QED
    BY <1>3, <1>4, <2>1, QueueKept, SMTT(30)
<1> DEFINE u == QueueView(p)
           v == QueueView(p)'
           w == Append(u, Waiting(r))
           n == robCnt[p]
           m == Len(ing[p])
<1>6. QueuesAre /\ QueuesAre'
  BY QueuesHold, QueuesHoldNext, ZenonT(60)
<1>7. /\ n \in Nat /\ m \in Nat
      /\ Len(u) = n + m /\ (\E S : u \in Seq(S))
      /\ \A i \in 1..n : u[i] = RobView[p][SlotAt(p, i)]
      /\ \A j \in 1..m : u[n + j] = Waiting(ing[p][j])
  BY <1>6, Zenon DEF QueuesAre
<1>8. /\ Len(v) = robCnt'[p] + Len(ing'[p]) /\ (\E S : v \in Seq(S))
      /\ \A i \in 1..robCnt'[p] : v[i] = RobView'[p][SlotAt(p, i)']
      /\ \A j \in 1..Len(ing'[p]) : v[robCnt'[p] + j] = Waiting(ing'[p][j])
  BY <1>6, Zenon DEF QueuesAre
<1>9. robCnt'[p] = n /\ ing'[p] = Append(ing[p], r) /\ ing[p] \in Seq(ReqsOf(p))
  BY <1>1, <1>2, ZenonT(60) DEF PartsInv, IngressInv
<1>10. /\ Len(ing'[p]) = m + 1 /\ ing'[p][m + 1] = r
       /\ \A j \in 1..m : ing'[p][j] = ing[p][j]
  BY <1>9
<1> HIDE DEF u, v, n, m
<1>10a. n \in Nat /\ m \in Nat /\ Len(u) = n + m /\ Len(v) = n + (m + 1)
  BY <1>7, <1>8, <1>9, <1>10, ZenonT(60)
<1>11. (\E S : w \in Seq(S)) /\ Len(w) = Len(u) + 1 /\ w[Len(u) + 1] = Waiting(r)
       /\ \A k \in 1..Len(u) : w[k] = u[k]
  <2> DEFINE e == Waiting(r)
  <2>1. PICK S : u \in Seq(S)
    BY <1>7, Zenon
  <2> HIDE DEF e
  <2>2. u \in Seq(S \union {e})
    BY <2>1
  <2> DEFINE T == S \union {e}
  <2>3. u \in Seq(T) /\ e \in T
    BY <2>2, Zenon
  <2> HIDE DEF T
  <2>4. Append(u, e) \in Seq(T) /\ Len(Append(u, e)) = Len(u) + 1 /\ Append(u, e)[Len(u) + 1] = e
        /\ \A k \in 1..Len(u) : Append(u, e)[k] = u[k]
    BY <2>3
  <2> QED
    BY <2>4, Zenon DEF e
<1> HIDE DEF w
<1>12. ASSUME NEW k \in 1..Len(v) PROVE v[k] = w[k]
  <2>1. CASE k \in 1..n
    <3>1. v[k] = RobView'[p][SlotAt(p, k)]
      BY <1>3, <1>8, <1>9, <2>1, ZenonT(60) DEF n
    <3>2. u[k] = RobView[p][SlotAt(p, k)] /\ k \in 1..Len(u)
      <4>1. k \in 1..Len(u)
        BY ONLY <1>10a, <2>1, SMTT(30)
      <4> QED
        BY <1>7, <2>1, <4>1, ZenonT(60)
    <3> QED
      BY <1>4, <1>11, <2>1, <3>1, <3>2, ZenonT(60) DEF n
  <2>2. CASE k \notin 1..n
    <3> DEFINE j == k - n
    <3>1. j \in 1..(m + 1) /\ n + j = k
      BY ONLY <1>10a, <2>2, k \in 1..Len(v), SMTT(30)
    <3> HIDE DEF j
    <3>2. v[n + j] = Waiting(ing'[p][j])
      BY <1>8, <1>9, <1>10, <3>1, ZenonT(60)
    <3>3. CASE j = m + 1
      <4>1. Len(u) + 1 = k
        BY ONLY <1>10a, <3>1, <3>3, SMTT(30)
      <4> QED
        BY <1>10, <1>11, <3>1, <3>2, <3>3, <4>1, ZenonT(60)
    <3>4. CASE j # m + 1
      <4>1. j \in 1..m
        BY ONLY <1>10a, <3>1, <3>4, SMTT(30)
      <4>2. u[n + j] = Waiting(ing[p][j]) /\ k \in 1..Len(u)
        <5>1. k \in 1..Len(u)
          BY ONLY <1>10a, <3>1, <4>1, SMTT(30)
        <5> QED
          BY <1>7, <4>1, <5>1, ZenonT(60)
      <4> QED
        BY <1>10, <1>11, <3>1, <3>2, <4>1, <4>2, ZenonT(60)
    <3> QED
      BY <3>3, <3>4, Zenon
  <2> QED
    BY <2>1, <2>2, Zenon
<1>13. Len(v) = Len(w)
  <2>1. Len(w) = Len(u) + 1
    BY <1>11, ZenonT(60)
  <2> QED
    BY ONLY <1>10a, <2>1, SMTT(30)
<1>14. v = w
  BY <1>8, <1>11, <1>12, <1>13, SameSequence, SMTT(30)
<1> QED
  BY <1>5, <1>14, ZenonT(60) DEF u, v, w

\* A delivered response was the first of its queue.
LEMMA DeliverTakesHead ==
  ASSUME PartsInv, PartsInv', NEW p \in Ports, Deliver(p), UNCHANGED bankVars
  PROVE  /\ QueueView(p) # <<>>
         /\ Head(QueueView(p)) = Done(robErr[p][deliverPtr[p]], robData[p][deliverPtr[p]])
         /\ QueueView(p)' = Tail(QueueView(p))
         /\ \A t \in Ports : t # p => QueueView(t)' = QueueView(t)
<1> DEFINE d == deliverPtr[p]
<1>1. /\ robCnt[p] # 0 /\ filled[p][d]
      /\ filled' = [filled EXCEPT ![p][d] = FALSE]
      /\ robData' = [robData EXCEPT ![p][d] = PortZero(p)]
      /\ robErr' = [robErr EXCEPT ![p][d] = FALSE]
      /\ robLane' = [robLane EXCEPT ![p][d] = 0]
      /\ UNCHANGED ing /\ UNCHANGED <<inq, pipe, outq>>
  BY Zenon DEF Deliver, RValid, bankVars
<1>2. /\ robLane \in [Ports -> [Slots -> Lanes]] /\ filled \in [Ports -> [Slots -> BOOLEAN]]
      /\ robErr \in [Ports -> [Slots -> BOOLEAN]] /\ d \in Slots
  BY HavePortFacts, Zenon DEF PortFacts
<1>3. DOMAIN robData = Ports /\ \A r \in Ports : robData[r] \in [Slots -> [PortLanes(r) -> Vals]]
  BY Zenon DEF PartsInv, PortInv, PortTypeOK
<1>4. ASSUME NEW t \in Ports, NEW i \in 1..robCnt[t], ~(t = p /\ SlotAt(t, i) = d)
      PROVE  RobView'[t][SlotAt(t, i)] = RobView[t][SlotAt(t, i)]
  <2> DEFINE s == SlotAt(t, i)
  <2>1. s \in Slots /\ (filled[t][s] \/ s \in owed[t]) /\ ~(t = p /\ s = d)
    BY <1>4, SlotHeld, ZenonT(60)
  <2> HIDE DEF s, d
  <2>2. robLane'[t][s] = robLane[t][s] /\ filled'[t][s] = filled[t][s] /\ robErr'[t][s] = robErr[t][s]
    BY <1>1, <1>2, <2>1, ZenonT(60)
  <2>3. robData'[t][s] = robData[t][s]
    BY <1>1, <1>2, <1>3, <2>1, SMTT(30)
  <2>4. RobView'[t][s] = RobView[t][s]
    BY <1>1, <2>1, <2>2, <2>3, HeldViewKept, ZenonT(60)
  <2> QED
    BY <2>4, Zenon DEF s
<1>5. /\ robCnt[p] \in 1..EgressDepth /\ robCnt'[p] = robCnt[p] - 1
      /\ \A k \in 1..robCnt'[p] : SlotAt(p, k)' = SlotAt(p, k + 1)
      /\ SlotAt(p, 1) = d
      /\ \A t \in Ports : t # p => robCnt'[t] = robCnt[t] /\ \A k \in Nat : SlotAt(t, k)' = SlotAt(t, k)
  BY SlotsAfterDeliver, ZenonT(60)
<1>6. ASSUME NEW t \in Ports, t # p PROVE QueueView(t)' = QueueView(t)
  <2>1. robCnt'[t] = robCnt[t] /\ ing'[t] = ing[t]
    BY <1>1, <1>5, <1>6, SMTT(30)
  <2>2. ASSUME NEW i \in 1..robCnt[t] PROVE RobView'[t][SlotAt(t, i)'] = RobView[t][SlotAt(t, i)]
    <3>1. i \in Nat
      OBVIOUS
    <3>2. SlotAt(t, i)' = SlotAt(t, i)
      BY <1>5, <1>6, <3>1, ZenonT(60)
    <3> QED
      BY <1>4, <1>6, <3>2, ZenonT(60)
  <2> QED
    BY <2>1, <2>2, QueueKept, SMTT(30)
<1>7. ASSUME NEW k \in 2..robCnt[p] PROVE SlotAt(p, k) # d
  <2>1. d \in Slots /\ robCnt[p] \in 1..EgressDepth /\ EgressDepth \in Nat \ {0}
    BY <1>2, <1>5, PortAssumption, ZenonT(60)
  <2> QED
    BY ONLY <2>1, k \in 2..robCnt[p], SMTT(30) DEF SlotAt, Wrap, Slots
<1> DEFINE u == QueueView(p)
           v == QueueView(p)'
           n == robCnt[p]
           m == Len(ing[p])
<1>8. QueuesAre /\ QueuesAre'
  BY QueuesHold, QueuesHoldNext, ZenonT(60)
<1>9. /\ n \in Nat /\ m \in Nat
      /\ Len(u) = n + m /\ (\E S : u \in Seq(S))
      /\ \A i \in 1..n : u[i] = RobView[p][SlotAt(p, i)]
      /\ \A j \in 1..m : u[n + j] = Waiting(ing[p][j])
  BY <1>8, Zenon DEF QueuesAre
<1>10. /\ Len(v) = robCnt'[p] + Len(ing'[p]) /\ (\E S : v \in Seq(S))
       /\ \A i \in 1..robCnt'[p] : v[i] = RobView'[p][SlotAt(p, i)']
       /\ \A j \in 1..Len(ing'[p]) : v[robCnt'[p] + j] = Waiting(ing'[p][j])
  BY <1>8, Zenon DEF QueuesAre
<1>11. u[1] = Done(robErr[p][d], robData[p][d])
  <2>1. ViewsAre
    BY ViewsHold, Zenon
  <2>2. RobView[p][d] = Done(robErr[p][d], robData[p][d])
    BY <1>1, <1>2, <2>1, ZenonT(60) DEF ViewsAre
  <2> QED
    <3>1. 1 \in 1..n
      <4>1. robCnt[p] \in 1..EgressDepth /\ EgressDepth \in Nat
        BY <1>5, PortAssumption, ZenonT(60)
      <4> QED
        BY ONLY <4>1
    <3> QED
      BY <1>5, <1>9, <2>2, <3>1, ZenonT(60)
<1> HIDE DEF u, v, n, m, d
<1>12. u # <<>> /\ Head(u) = u[1] /\ Len(Tail(u)) = Len(u) - 1 /\ (\E S : Tail(u) \in Seq(S))
       /\ \A k \in 1..(Len(u) - 1) : Tail(u)[k] = u[k + 1]
  <2>1. PICK S : u \in Seq(S)
    BY <1>9, ZenonT(60)
  <2>2. Len(u) > 0
    BY <1>5, <1>9, SMTT(30) DEF n
  <2>3. u # <<>>
    BY <2>1, <2>2, SMTT(30)
  <2> QED
    BY <2>1, <2>2, <2>3, SMTT(30)
<1>13. Len(v) = Len(u) - 1 /\ robCnt'[p] = n - 1 /\ Len(ing'[p]) = m /\ n >= 1
  BY <1>1, <1>5, <1>9, <1>10, SMTT(30) DEF n, m
<1>14. ASSUME NEW k \in 1..Len(v) PROVE v[k] = Tail(u)[k]
  <2>1. Tail(u)[k] = u[k + 1]
    BY <1>9, <1>12, <1>13, SMTT(30)
  <2>2. CASE k \in 1..(n - 1)
    <3>1. k + 1 \in 2..n /\ k + 1 \in 1..n
      BY <1>9, <2>2, SMTT(30)
    <3>2. v[k] = RobView'[p][SlotAt(p, k + 1)]
      BY <1>5, <1>10, <1>13, <2>2, ZenonT(60)
    <3>3. RobView'[p][SlotAt(p, k + 1)] = RobView[p][SlotAt(p, k + 1)]
      BY <1>4, <1>7, <3>1, ZenonT(60) DEF n
    <3> QED
      BY <1>9, <2>1, <3>1, <3>2, <3>3, ZenonT(60)
  <2>3. CASE k \notin 1..(n - 1)
    <3> DEFINE j == k - (n - 1)
    <3>1. j \in 1..m /\ (n - 1) + j = k /\ n + j = k + 1
      BY <1>9, <1>13, <2>3, SMTT(30)
    <3> HIDE DEF j
    <3>2. v[(n - 1) + j] = Waiting(ing[p][j])
      BY <1>1, <1>10, <1>13, <3>1, SMTT(30)
    <3>3. u[n + j] = Waiting(ing[p][j])
      BY <1>9, <3>1, ZenonT(60)
    <3> QED
      BY <2>1, <3>1, <3>2, <3>3, ZenonT(60)
  <2> QED
    BY <2>2, <2>3, ZenonT(60)
<1>15. v = Tail(u)
  BY <1>10, <1>12, <1>13, <1>14, SameSequence, ZenonT(60)
<1> QED
  BY <1>6, <1>11, <1>12, <1>15, ZenonT(60) DEF u, v, d
=============================================================================
