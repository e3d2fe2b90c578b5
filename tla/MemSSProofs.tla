---------------------------- MODULE MemSSProofs -----------------------------
(***************************************************************************)
(* Proofs about the memory subsystem and its parts: MemPort, for every     *)
(* number and width of ports, every depth of the reorder buffer and every  *)
(* order in which the banks answer; MemBank, for every depth of its FIFOs  *)
(* and every latency of the slice; MemSS, which joins them, for every set  *)
(* of requests the initiators may make.                                    *)
(***************************************************************************)
EXTENDS MemSS, TLAPS

\* Allocating: the slot after the allocated ones is free and joins them.
LEMMA RingAdd ==
  ASSUME NEW d \in Slots, NEW c \in 0..(EgressDepth - 1)
  PROVE  /\ Wrap(d + c) \in Slots
         /\ Wrap(d + c) \notin Ring(d, c)
         /\ Ring(d, c + 1) = Ring(d, c) \union {Wrap(d + c)}
         /\ NextPtr(Wrap(d + c)) = Wrap(d + (c + 1))
<1> USE PortAssumption DEF Slots
<1>1. Wrap(d + c) \in Slots
  BY DEF Wrap
<1>2. Wrap(d + c) \notin Ring(d, c)
  BY DEF Wrap, Ring
<1>3. Ring(d, c + 1) = Ring(d, c) \union {Wrap(d + c)}
  <2>1. 0..(c + 1 - 1) = 0..(c - 1) \union {c}
    OBVIOUS
  <2> QED
    BY <2>1 DEF Ring
<1>4. NextPtr(Wrap(d + c)) = Wrap(d + (c + 1))
  BY DEF Wrap, NextPtr
<1> QED
  BY <1>1, <1>2, <1>3, <1>4, Zenon

\* The allocated slots are slots.
LEMMA RingInside ==
  ASSUME NEW d \in Slots, NEW c \in 0..EgressDepth
  PROVE  Ring(d, c) \subseteq Slots
<1>1. ASSUME NEW i \in 0..(c - 1) PROVE Wrap(d + i) \in Slots
  BY PortAssumption DEF Wrap, Slots
<1> QED
  BY <1>1, Zenon DEF Ring

\* Delivering: the oldest slot leaves, the others stay.
LEMMA RingDrop ==
  ASSUME NEW d \in Slots, NEW c \in 1..EgressDepth
  PROVE  /\ NextPtr(d) \in Slots
         /\ d \in Ring(d, c)
         /\ Ring(NextPtr(d), c - 1) = Ring(d, c) \ {d}
         /\ Wrap(NextPtr(d) + (c - 1)) = Wrap(d + c)
<1> USE PortAssumption DEF Slots
<1>1. NextPtr(d) \in Slots
  BY DEF NextPtr
<1>2. d \in Ring(d, c)
  <2>1. 0 \in 0..(c - 1) /\ Wrap(d + 0) = d
    BY DEF Wrap
  <2> QED
    BY <2>1, Zenon DEF Ring
<1>3. Ring(NextPtr(d), c - 1) = Ring(d, c) \ {d}
  <2>1. ASSUME NEW i \in 0..(c - 1 - 1)
        PROVE  Wrap(NextPtr(d) + i) = Wrap(d + (i + 1)) /\ Wrap(d + (i + 1)) # d
    BY DEF Wrap, NextPtr
  <2>2. ASSUME NEW i \in 0..(c - 1), Wrap(d + i) # d
        PROVE  i - 1 \in 0..(c - 1 - 1) /\ Wrap(NextPtr(d) + (i - 1)) = Wrap(d + i)
    BY <2>2 DEF Wrap, NextPtr
  <2>3. ASSUME NEW s \in Ring(NextPtr(d), c - 1) PROVE s \in Ring(d, c) \ {d}
    <3>1. PICK i \in 0..(c - 1 - 1) : s = Wrap(NextPtr(d) + i)
      BY Zenon DEF Ring
    <3>2. i + 1 \in 0..(c - 1)
      OBVIOUS
    <3> QED
      BY <2>1, <3>1, <3>2, Zenon DEF Ring
  <2>4. ASSUME NEW s \in Ring(d, c), s # d PROVE s \in Ring(NextPtr(d), c - 1)
    <3>1. PICK i \in 0..(c - 1) : s = Wrap(d + i)
      BY Zenon DEF Ring
    <3> QED
      BY <2>2, <2>4, <3>1, Zenon DEF Ring
  <2> QED
    BY <2>3, <2>4, Zenon
<1>4. Wrap(NextPtr(d) + (c - 1)) = Wrap(d + c)
  BY DEF Wrap, NextPtr
<1> QED
  BY <1>1, <1>2, <1>3, <1>4, Zenon

\* The inductive invariant: the ring, and the types it speaks about.
PortInv == PortTypeOK /\ RingConsistent

\* An empty reorder buffer is consistent.
LEMMA PortInitInv == PortInit => PortInv
<1> SUFFICES ASSUME PortInit PROVE PortInv
  BY Zenon
<1> USE GeometryAssumption, PortAssumption DEF PortInit
<1>1. PortTypeOK
  <2>1. \A p \in Ports : PortZero(p) \in [PortLanes(p) -> Vals]
    BY Zenon DEF PortZero
  <2>2. ing \in [Ports -> Seq(UNION {PortReqs(p) : p \in Ports})]
    OBVIOUS
  <2> QED
    BY <2>1, <2>2 DEF PortTypeOK, Slots, Lanes
<1>2. RingConsistent
  BY DEF RingConsistent, Allocated, Ring, Wrap, Slots
<1> QED
  BY <1>1, <1>2, Zenon DEF PortInv

\* What the head of an ingress FIFO is, and what is left without it.
LEMMA HeadOfIngress ==
  ASSUME PortTypeOK, NEW p \in Ports, ing[p] # <<>>
  PROVE  /\ Head(ing[p]).addr \in Addrs
         /\ Tail(ing[p]) \in Seq(UNION {PortReqs(r) : r \in Ports})
<1> DEFINE S == UNION {PortReqs(r) : r \in Ports}
<1>1. ing[p] \in Seq(S)
  BY Zenon DEF PortTypeOK
<1>2. Head(ing[p]) \in S /\ Tail(ing[p]) \in Seq(S)
  BY <1>1
<1>3. \A x \in S : x.addr \in Addrs
  BY DEF PortReqs
<1> QED
  BY <1>2, <1>3, Zenon

\* A grant takes the free slot after the allocated ones.
LEMMA AllocInv ==
  ASSUME PortInv, NEW p \in Ports, NEW err \in BOOLEAN,
         ing[p] # <<>>, ~RobFull(p), Alloc(p, err)
  PROVE  PortInv'
<1> DEFINE s == allocPtr[p]
           d == deliverPtr[p]
           c == robCnt[p]
<1> USE GeometryAssumption, PortAssumption
<1>1. d \in Slots /\ c \in 0..(EgressDepth - 1)
  BY DEF PortInv, PortTypeOK, RobFull
<1>2. /\ s \in Slots
      /\ s \notin Ring(d, c)
      /\ Ring(d, c + 1) = Ring(d, c) \union {s}
      /\ NextPtr(s) = Wrap(d + (c + 1))
      /\ s = Wrap(d + c)
  <2>1. s = Wrap(d + c)
    BY Zenon DEF PortInv, RingConsistent
  <2> QED
    BY <1>1, <2>1, RingAdd
<1>3. NextPtr(s) \in Slots
  <2>1. s \in Slots
    BY <1>2, Zenon
  <2> HIDE DEF s
  <2> QED
    BY ONLY <2>1, PortAssumption DEF NextPtr, Slots
<1>4. PortTypeOK'
  <2> USE DEF PortInv, Alloc
  <2>1. (ing \in [Ports -> Seq(UNION {PortReqs(r) : r \in Ports})])'
    BY HeadOfIngress, Zenon DEF PortTypeOK
  <2>2. LaneOf(p, Head(ing[p]).addr) \in Lanes
    <3>1. Head(ing[p]).addr \in Nat
      <4>1. Head(ing[p]).addr \in Addrs
        BY HeadOfIngress, Zenon
      <4> QED
        BY ONLY <4>1, GeometryAssumption DEF Addrs
    <3>2. Head(ing[p]).addr % 2 \in 0..1
      BY ONLY <3>1
    <3> QED
      BY <3>2 DEF LaneOf, Lanes
  <2>3. (robLane \in [Ports -> [Slots -> Lanes]])'
    BY <2>2, Zenon DEF PortTypeOK
  <2>4. (\A r \in Ports : robData[r] \in [Slots -> [PortLanes(r) -> Vals]])'
    <3>1. \A r \in Ports : PortZero(r) \in [PortLanes(r) -> Vals]
      BY Zenon DEF PortZero
    <3>2. /\ \A r \in Ports : robData[r] \in [Slots -> [PortLanes(r) -> Vals]]
          /\ robData' = IF err THEN [robData EXCEPT ![p][s] = PortZero(p)] ELSE robData
      BY Zenon DEF PortTypeOK
    <3> HIDE DEF s
    <3>3. ASSUME NEW r \in Ports PROVE robData'[r] \in [Slots -> [PortLanes(r) -> Vals]]
      <4>1. CASE r # p
        BY ONLY <3>2, <4>1, r \in Ports
      <4>2. CASE r = p
        BY ONLY <1>2, <3>1, <3>2, <4>2, r \in Ports
      <4> QED
        BY <4>1, <4>2, Zenon
    <3> QED
      BY <3>3, Zenon
  <2>5. (robCnt \in [Ports -> 0..EgressDepth])'
    <3>1. robCnt \in [Ports -> 0..EgressDepth] /\ robCnt' = [robCnt EXCEPT ![p] = c + 1]
      BY Zenon DEF PortTypeOK
    <3>2. c + 1 \in 0..EgressDepth
      BY ONLY <1>1, PortAssumption
    <3> HIDE DEF c
    <3> QED
      BY ONLY <3>1, <3>2, Zenon
  <2>6. (filled \in [Ports -> [Slots -> BOOLEAN]] /\ robErr \in [Ports -> [Slots -> BOOLEAN]])'
    BY Zenon DEF PortTypeOK
  <2>7. (allocPtr \in [Ports -> Slots] /\ deliverPtr \in [Ports -> Slots])'
    BY <1>3, Zenon DEF PortTypeOK
  <2>8. (owed \in [Ports -> SUBSET Slots])'
    BY <1>2, ZenonT(60) DEF PortTypeOK
  <2> QED
    BY <2>1, <2>3, <2>4, <2>5, <2>6, <2>7, <2>8, Zenon DEF PortTypeOK
<1>5. RingConsistent'
  <2> SUFFICES ASSUME NEW r \in Ports
               PROVE  /\ allocPtr'[r] = Wrap(deliverPtr'[r] + robCnt'[r])
                      /\ owed'[r] = {t \in Ring(deliverPtr'[r], robCnt'[r]) : ~filled'[r][t]}
                      /\ \A t \in Slots : filled'[r][t] => t \in Ring(deliverPtr'[r], robCnt'[r])
    BY Zenon DEF RingConsistent, Allocated, Wrap, Ring
  <2>1. /\ allocPtr[r] = Wrap(deliverPtr[r] + robCnt[r])
        /\ owed[r] = {t \in Ring(deliverPtr[r], robCnt[r]) : ~filled[r][t]}
        /\ \A t \in Slots : filled[r][t] => t \in Ring(deliverPtr[r], robCnt[r])
    BY Zenon DEF PortInv, RingConsistent, Allocated
  <2>2. CASE r # p
    BY <2>1, <2>2, Zenon DEF Alloc, PortInv, PortTypeOK
  <2>3. CASE r = p
    <3>1. /\ allocPtr'[p] = NextPtr(s) /\ deliverPtr'[p] = d /\ robCnt'[p] = c + 1
          /\ filled'[p] = [filled[p] EXCEPT ![s] = err]
          /\ owed'[p] = IF err THEN owed[p] ELSE owed[p] \union {s}
      BY Zenon DEF Alloc, PortInv, PortTypeOK
    <3>2. filled[p] \in [Slots -> BOOLEAN]
      BY Zenon DEF PortInv, PortTypeOK
    <3>3. Ring(d, c) \subseteq Slots
      BY <1>1, RingInside
    <3>4. \A t \in Slots : filled'[p][t] = IF t = s THEN err ELSE filled[p][t]
      BY <3>1, <3>2, Zenon
    <3> HIDE DEF s, d, c
    <3>5. owed'[p] = {t \in Ring(d, c + 1) : ~filled'[p][t]}
      BY <1>2, <2>1, <2>3, <3>1, <3>3, <3>4 DEF s, d, c
    <3>6. \A t \in Slots : filled'[p][t] => t \in Ring(d, c + 1)
      BY <1>2, <2>1, <2>3, <3>3, <3>4, Zenon DEF s, d, c
    <3> QED
      BY <1>2, <2>3, <3>1, <3>5, <3>6, Zenon
  <2> QED
    BY <2>2, <2>3, Zenon
<1> QED
  BY <1>4, <1>5, Zenon DEF PortInv

\* A response fills a slot that is allocated and not filled.
LEMMA FillInv ==
  ASSUME PortInv, NEW p \in Ports, NEW s \in owed[p], NEW word \in Word, Fill(p, s, word)
  PROVE  PortInv'
<1> USE GeometryAssumption, PortAssumption
<1>1. s \in Slots
  BY Zenon DEF PortInv, PortTypeOK
<1>2. PortTypeOK'
  <2>1. SelectLane(p, robLane[p][s], word) \in [PortLanes(p) -> Vals]
    <3>1. robLane[p][s] \in Lanes
      BY <1>1 DEF PortInv, PortTypeOK
    <3> QED
      BY <3>1, Zenon DEF SelectLane, PortLanes, Word
  <2>2. (\A r \in Ports : robData[r] \in [Slots -> [PortLanes(r) -> Vals]])'
    <3> DEFINE v == SelectLane(p, robLane[p][s], word)
    <3>1. /\ \A r \in Ports : robData[r] \in [Slots -> [PortLanes(r) -> Vals]]
          /\ robData' = [robData EXCEPT ![p][s] = v]
      BY Zenon DEF PortInv, PortTypeOK, Fill
    <3>2. v \in [PortLanes(p) -> Vals]
      BY <2>1, Zenon
    <3> HIDE DEF v
    <3>3. ASSUME NEW r \in Ports PROVE robData'[r] \in [Slots -> [PortLanes(r) -> Vals]]
      <4>1. CASE r # p
        BY ONLY <3>1, <4>1, r \in Ports
      <4>2. CASE r = p
        BY ONLY <1>1, <3>1, <3>2, <4>2, r \in Ports
      <4> QED
        BY <4>1, <4>2, Zenon
    <3> QED
      BY <3>3, Zenon
  <2>3. (filled \in [Ports -> [Slots -> BOOLEAN]] /\ robErr \in [Ports -> [Slots -> BOOLEAN]])'
    BY Zenon DEF PortInv, PortTypeOK, Fill
  <2>4. (owed \in [Ports -> SUBSET Slots])'
    BY Zenon DEF PortInv, PortTypeOK, Fill
  <2> QED
    BY <2>2, <2>3, <2>4, Zenon DEF PortInv, PortTypeOK, Fill
<1>3. RingConsistent'
  <2> SUFFICES ASSUME NEW r \in Ports
               PROVE  /\ allocPtr'[r] = Wrap(deliverPtr'[r] + robCnt'[r])
                      /\ owed'[r] = {t \in Ring(deliverPtr'[r], robCnt'[r]) : ~filled'[r][t]}
                      /\ \A t \in Slots : filled'[r][t] => t \in Ring(deliverPtr'[r], robCnt'[r])
    BY Zenon DEF RingConsistent, Allocated, Wrap, Ring
  <2>1. /\ allocPtr[r] = Wrap(deliverPtr[r] + robCnt[r])
        /\ owed[r] = {t \in Ring(deliverPtr[r], robCnt[r]) : ~filled[r][t]}
        /\ \A t \in Slots : filled[r][t] => t \in Ring(deliverPtr[r], robCnt[r])
    BY Zenon DEF PortInv, RingConsistent, Allocated
  <2>2. deliverPtr' = deliverPtr /\ robCnt' = robCnt /\ allocPtr' = allocPtr
    BY Zenon DEF Fill
  <2>3. CASE r # p
    BY <2>1, <2>2, <2>3, Zenon DEF Fill, PortInv, PortTypeOK
  <2>4. CASE r = p
    <3>1. owed'[p] = owed[p] \ {s} /\ filled'[p] = [filled[p] EXCEPT ![s] = TRUE]
      BY Zenon DEF Fill, PortInv, PortTypeOK
    <3>2. Ring(deliverPtr[p], robCnt[p]) \subseteq Slots
      <4>1. deliverPtr[p] \in Slots /\ robCnt[p] \in 0..EgressDepth
        BY Zenon DEF PortInv, PortTypeOK
      <4> QED
        BY <4>1 DEF Ring, Wrap, Slots
    <3>3. \A t \in Slots : filled'[p][t] <=> (t = s \/ filled[p][t])
      <4>1. filled[p] \in [Slots -> BOOLEAN]
        BY Zenon DEF PortInv, PortTypeOK
      <4> QED
        BY ONLY <1>1, <3>1, <4>1, Zenon
    <3> QED
      BY <1>1, <2>1, <2>2, <2>4, <3>1, <3>2, <3>3
  <2> QED
    BY <2>3, <2>4, Zenon
<1> QED
  BY <1>2, <1>3, Zenon DEF PortInv

\* The oldest slot leaves the ring.
LEMMA DeliverInv ==
  ASSUME PortInv, NEW p \in Ports, Deliver(p)
  PROVE  PortInv'
<1> DEFINE d == deliverPtr[p]
           c == robCnt[p]
<1> USE GeometryAssumption, PortAssumption
<1>1. d \in Slots /\ c \in 1..EgressDepth /\ filled[p][d]
  <2>1. d \in Slots /\ c \in 0..EgressDepth
    BY Zenon DEF PortInv, PortTypeOK
  <2>2. c # 0 /\ filled[p][d]
    BY Zenon DEF Deliver, RValid
  <2> HIDE DEF c, d
  <2> QED
    BY ONLY <2>1, <2>2, PortAssumption
<1>2. /\ NextPtr(d) \in Slots
      /\ d \in Ring(d, c)
      /\ Ring(NextPtr(d), c - 1) = Ring(d, c) \ {d}
      /\ Wrap(NextPtr(d) + (c - 1)) = Wrap(d + c)
  BY <1>1, RingDrop, Zenon
<1>3. PortTypeOK'
  <2>1. (\A r \in Ports : robData[r] \in [Slots -> [PortLanes(r) -> Vals]])'
    <3>1. \A r \in Ports : PortZero(r) \in [PortLanes(r) -> Vals]
      BY Zenon DEF PortZero
    <3>2. /\ \A r \in Ports : robData[r] \in [Slots -> [PortLanes(r) -> Vals]]
          /\ robData' = [robData EXCEPT ![p][d] = PortZero(p)]
      BY Zenon DEF PortInv, PortTypeOK, Deliver
    <3> HIDE DEF d
    <3>3. ASSUME NEW r \in Ports PROVE robData'[r] \in [Slots -> [PortLanes(r) -> Vals]]
      <4>1. CASE r # p
        BY ONLY <3>2, <4>1, r \in Ports
      <4>2. CASE r = p
        BY ONLY <1>1, <3>1, <3>2, <4>2, r \in Ports
      <4> QED
        BY <4>1, <4>2, Zenon
    <3> QED
      BY <3>3, Zenon
  <2>2. (filled \in [Ports -> [Slots -> BOOLEAN]] /\ robErr \in [Ports -> [Slots -> BOOLEAN]])'
    BY Zenon DEF PortInv, PortTypeOK, Deliver
  <2>3. (robLane \in [Ports -> [Slots -> Lanes]])'
    <3>1. robLane \in [Ports -> [Slots -> Lanes]] /\ robLane' = [robLane EXCEPT ![p][d] = 0]
      BY Zenon DEF PortInv, PortTypeOK, Deliver
    <3>2. 0 \in Lanes
      BY DEF Lanes
    <3> HIDE DEF d
    <3> QED
      BY ONLY <1>1, <3>1, <3>2, Zenon
  <2>4. (deliverPtr \in [Ports -> Slots] /\ robCnt \in [Ports -> 0..EgressDepth])'
    <3>1. /\ robCnt \in [Ports -> 0..EgressDepth] /\ robCnt' = [robCnt EXCEPT ![p] = c - 1]
          /\ deliverPtr \in [Ports -> Slots] /\ deliverPtr' = [deliverPtr EXCEPT ![p] = NextPtr(d)]
      BY Zenon DEF PortInv, PortTypeOK, Deliver
    <3>2. c - 1 \in 0..EgressDepth
      BY ONLY <1>1, PortAssumption
    <3> HIDE DEF c, d
    <3> QED
      BY ONLY <1>2, <3>1, <3>2, Zenon
  <2> QED
    BY <2>1, <2>2, <2>3, <2>4, Zenon DEF PortInv, PortTypeOK, Deliver
<1>4. RingConsistent'
  <2> SUFFICES ASSUME NEW r \in Ports
               PROVE  /\ allocPtr'[r] = Wrap(deliverPtr'[r] + robCnt'[r])
                      /\ owed'[r] = {t \in Ring(deliverPtr'[r], robCnt'[r]) : ~filled'[r][t]}
                      /\ \A t \in Slots : filled'[r][t] => t \in Ring(deliverPtr'[r], robCnt'[r])
    BY Zenon DEF RingConsistent, Allocated, Wrap, Ring
  <2>1. /\ allocPtr[r] = Wrap(deliverPtr[r] + robCnt[r])
        /\ owed[r] = {t \in Ring(deliverPtr[r], robCnt[r]) : ~filled[r][t]}
        /\ \A t \in Slots : filled[r][t] => t \in Ring(deliverPtr[r], robCnt[r])
    BY Zenon DEF PortInv, RingConsistent, Allocated
  <2>2. CASE r # p
    BY <2>1, <2>2, Zenon DEF Deliver, PortInv, PortTypeOK
  <2>3. CASE r = p
    <3>1. /\ deliverPtr'[p] = NextPtr(d) /\ robCnt'[p] = c - 1
          /\ allocPtr'[p] = allocPtr[p] /\ owed'[p] = owed[p]
          /\ filled'[p] = [filled[p] EXCEPT ![d] = FALSE]
      BY Zenon DEF Deliver, PortInv, PortTypeOK
    <3>2. Ring(d, c) \subseteq Slots
      BY <1>1 DEF Ring, Wrap, Slots
    <3>3. \A t \in Slots : filled'[p][t] <=> (t # d /\ filled[p][t])
      <4>1. filled[p] \in [Slots -> BOOLEAN]
        BY ZenonT(60) DEF PortInv, PortTypeOK
      <4> HIDE DEF d
      <4> QED
        BY ONLY <1>1, <3>1, <4>1, Zenon
    <3> HIDE DEF d, c
    <3>4. owed'[p] = {t \in Ring(NextPtr(d), c - 1) : ~filled'[p][t]}
      BY <1>1, <1>2, <2>1, <2>3, <3>1, <3>2, <3>3 DEF d, c
    <3>5. \A t \in Slots : filled'[p][t] => t \in Ring(NextPtr(d), c - 1)
      BY <1>2, <2>1, <2>3, <3>2, <3>3, Zenon DEF d, c
    <3> QED
      BY <1>2, <2>1, <2>3, <3>1, <3>4, <3>5, Zenon DEF d, c
  <2> QED
    BY <2>2, <2>3, Zenon
<1> QED
  BY <1>3, <1>4, Zenon DEF PortInv

\* The ring is a function of five registers.
LEMMA RingUnchanged ==
  ASSUME RingConsistent, UNCHANGED <<filled, allocPtr, deliverPtr, robCnt, owed>>
  PROVE  RingConsistent'
<1> SUFFICES ASSUME NEW r \in Ports
             PROVE  /\ allocPtr'[r] = Wrap(deliverPtr'[r] + robCnt'[r])
                    /\ owed'[r] = {t \in Ring(deliverPtr'[r], robCnt'[r]) : ~filled'[r][t]}
                    /\ \A t \in Slots : filled'[r][t] => t \in Ring(deliverPtr'[r], robCnt'[r])
  BY Zenon DEF RingConsistent, Allocated, Wrap, Ring
<1> QED
  BY Zenon DEF RingConsistent, Allocated

\* Accepting a request touches the ingress FIFO alone.
LEMMA AcceptInv ==
  ASSUME PortInv, NEW p \in Ports, NEW r \in PortReqs(p), Accept(p, r)
  PROVE  PortInv'
<1>1. (ing \in [Ports -> Seq(UNION {PortReqs(t) : t \in Ports})])'
  <2> DEFINE S == UNION {PortReqs(t) : t \in Ports}
  <2>1. r \in S
    BY Zenon
  <2>2. ing \in [Ports -> Seq(S)] /\ ing' = [ing EXCEPT ![p] = Append(@, r)]
    BY Zenon DEF Accept, PortInv, PortTypeOK
  <2> HIDE DEF S
  <2>3. ing' \in [Ports -> Seq(S)]
    BY <2>1, <2>2
  <2> QED
    BY <2>3, Zenon DEF S
<1>2. UNCHANGED <<filled, robData, robErr, robLane, allocPtr, deliverPtr, robCnt, owed>>
  BY Zenon DEF Accept
<1>3. PortTypeOK'
  BY <1>1, <1>2, Zenon DEF PortInv, PortTypeOK
<1>4. RingConsistent'
  BY <1>2, RingUnchanged, Zenon DEF PortInv
<1> QED
  BY <1>3, <1>4, Zenon DEF PortInv

\* Every step of a port keeps its reorder buffer consistent.
LEMMA PortNextInv == PortInv /\ [PortNext]_portVars => PortInv'
<1> SUFFICES ASSUME PortInv, [PortNext]_portVars PROVE PortInv'
  BY Zenon
<1>1. CASE PortNext
  <2>1. PICK p \in Ports :
          \/ \E r \in PortReqs(p) : Accept(p, r)
          \/ ErrGrant(p)
          \/ ArbReq(p) /\ ArbGrant(p)
          \/ \E s \in owed[p], word \in Word : Fill(p, s, word)
          \/ Deliver(p)
    BY <1>1, Zenon DEF PortNext
  <2>2. CASE \E r \in PortReqs(p) : Accept(p, r)
    BY <2>2, AcceptInv, Zenon
  <2>3. CASE ErrGrant(p)
    BY <2>3, AllocInv, Zenon DEF ErrGrant, ErrReq
  <2>4. CASE ArbReq(p) /\ ArbGrant(p)
    BY <2>4, AllocInv, Zenon DEF ArbReq, ArbGrant
  <2>5. CASE \E s \in owed[p], word \in Word : Fill(p, s, word)
    BY <2>5, FillInv, Zenon
  <2>6. CASE Deliver(p)
    BY <2>6, DeliverInv, Zenon
  <2> QED
    BY <2>1, <2>2, <2>3, <2>4, <2>5, <2>6, Zenon
<1>2. CASE UNCHANGED portVars
  <2>1. PortTypeOK'
    BY <1>2, Zenon DEF portVars, PortInv, PortTypeOK
  <2>2. RingConsistent'
    BY <1>2, RingUnchanged, Zenon DEF portVars, PortInv
  <2> QED
    BY <2>1, <2>2, Zenon DEF PortInv
<1> QED
  BY <1>1, <1>2, Zenon

\* The reorder buffer keeps its registers in their ranges: the pointers wrap
\* at any depth, power of two or not, and the count never exceeds the depth.
THEOREM PortTypeCorrect == PortSpec => []PortTypeOK
<1>1. PortInv => PortTypeOK
  BY Zenon DEF PortInv
<1> QED
  BY <1>1, PortInitInv, PortNextInv, PTL DEF PortSpec

\* The slots between the pointers are exactly those filled or owed by a bank,
\* whatever the order in which the banks answer.
THEOREM RingAlwaysConsistent == PortSpec => []RingConsistent
<1>1. PortInv => RingConsistent
  BY Zenon DEF PortInv
<1> QED
  BY <1>1, PortInitInv, PortNextInv, PTL DEF PortSpec

-----------------------------------------------------------------------------
\* Types and claims together are inductive: the claims are counted exactly.
BankInv == BankTypeOK /\ ClaimsCovered

\* Reset leaves every FIFO empty and no claim held.
LEMMA BankInitInv == BankInit => BankInv
  BY GeometryAssumption, BankAssumption
  DEF BankInit, BankInv, BankTypeOK, ClaimsCovered, ZeroWord, Word

\* While a result is in the slice its claim has kept a place for it.
LEMMA RoomForResult ==
  ASSUME BankInv, NEW b \in Banks, pipe[b] # <<>>
  PROVE  Len(outq[b]) < OutDepth
<1> DEFINE m == Len(pipe[b])
           k == Len(outq[b])
<1>1. m \in Nat /\ m >= 1 /\ k \in Nat
  BY DEF BankInv, BankTypeOK
<1>2. claims[b] = m + k /\ claims[b] <= OutDepth
  BY Zenon DEF BankInv, ClaimsCovered
<1> HIDE DEF m, k
<1>3. k < OutDepth
  BY <1>1, <1>2, BankAssumption
<1> QED
  BY <1>3, Zenon DEF k

\* Every handshake of a bank keeps the claims equal to what they cover.
LEMMA BankNextInv == BankInv /\ [BankNext]_bankVars => BankInv'
<1> SUFFICES ASSUME BankInv, [BankNext]_bankVars PROVE BankInv'
  BY Zenon
<1> USE DEF BankInv
<1>1. CASE UNCHANGED bankVars
  BY <1>1, Zenon DEF BankTypeOK, ClaimsCovered, bankVars
<1>2. ASSUME NEW b \in Banks, NEW x \in BankReqs, Push(b, x) PROVE BankInv'
  BY <1>2 DEF Push, BankTypeOK, ClaimsCovered
<1>3. ASSUME NEW b \in Banks, Issue(b) PROVE BankInv'
  <2> DEFINE x == Head(inq[b])
             old == sram[b][x.word]
             rsp == [rdata |-> IF x.we THEN ZeroWord ELSE old, meta |-> x.meta]
  <2>1. /\ x \in BankReqs /\ Tail(inq[b]) \in Seq(BankReqs)
        /\ old \in Word /\ rsp \in BankRsps /\ x.word \in Words
        /\ pipe[b] \in Seq(BankRsps)
    <3>1. x \in BankReqs /\ Tail(inq[b]) \in Seq(BankReqs)
      BY <1>3 DEF Issue, CanIssue, BankTypeOK
    <3>2. old \in Word /\ x.word \in Words /\ x.meta \in Metas
      BY <3>1, Zenon DEF BankTypeOK, BankReqs
    <3>3. ZeroWord \in Word
      BY GeometryAssumption, Zenon DEF ZeroWord, Word
    <3> QED
      BY <3>1, <3>2, <3>3, Zenon DEF BankRsps, BankTypeOK
  <2>2. ApplyBe(old, x.wdata, x.be) \in Word
    BY <2>1, Zenon DEF ApplyBe, Word, BankReqs
  <2>3. /\ inq' = [inq EXCEPT ![b] = Tail(inq[b])]
        /\ pipe' = [pipe EXCEPT ![b] = Append(pipe[b], rsp)]
        /\ claims' = [claims EXCEPT ![b] = claims[b] + 1]
        /\ outq' = outq
        /\ claims[b] < OutDepth
    BY <1>3, Zenon DEF Issue, CanIssue
  <2>4. sram' \in [Banks -> [Words -> Word]]
    BY <1>3, <2>1, <2>2, ZenonT(60) DEF Issue, BankTypeOK
  <2>5. Len(Append(pipe[b], rsp)) = Len(pipe[b]) + 1 /\ Append(pipe[b], rsp) \in Seq(BankRsps)
    BY <2>1
  <2> HIDE DEF x, old, rsp
  <2>6. BankTypeOK'
    <3>1. claims[b] + 1 \in 0..OutDepth
      BY <2>3, BankAssumption DEF BankTypeOK
    <3>2. claims' \in [Banks -> 0..OutDepth]
      BY <2>3, <3>1, Zenon DEF BankTypeOK
    <3>3. inq' \in [Banks -> Seq(BankReqs)] /\ pipe' \in [Banks -> Seq(BankRsps)]
      BY <2>1, <2>3, <2>5, Zenon DEF BankTypeOK
    <3> QED
      BY <2>3, <2>4, <3>2, <3>3, Zenon DEF BankTypeOK
  <2>7. ClaimsCovered'
    <3> DEFINE m == Len(pipe[b])
               k == Len(outq[b])
               m1 == Len(Append(pipe[b], rsp))
    <3>1. claims[b] = m + k /\ m1 = m + 1 /\ m \in Nat /\ k \in Nat
      BY <2>1, <2>5 DEF BankTypeOK, ClaimsCovered
    <3> HIDE DEF m, k, m1
    <3>2. claims[b] + 1 = m1 + k
      BY <3>1
    <3>3. claims[b] + 1 <= OutDepth
      BY <2>3, BankAssumption DEF BankTypeOK
    <3> USE DEF k, m1
    <3> QED
      BY <2>3, <3>2, <3>3, Zenon DEF BankTypeOK, ClaimsCovered
  <2> QED
    BY <2>6, <2>7, Zenon
<1>4. ASSUME NEW b \in Banks, Return(b) PROVE BankInv'
  <2>1. pipe[b] \in Seq(BankRsps) /\ pipe[b] # <<>> /\ outq[b] \in Seq(BankRsps)
    BY <1>4, Zenon DEF Return, BankTypeOK
  <2>2. Len(outq[b]) < OutDepth
    BY <2>1, RoomForResult, Zenon
  <2>3. /\ pipe' = [pipe EXCEPT ![b] = Tail(pipe[b])]
        /\ outq' = [outq EXCEPT ![b] = Append(outq[b], Head(pipe[b]))]
        /\ UNCHANGED <<inq, claims, sram>>
    BY <1>4, <2>2, Zenon DEF Return
  <2> DEFINE m == Len(pipe[b])
             k == Len(outq[b])
             m1 == Len(Tail(pipe[b]))
             k1 == Len(Append(outq[b], Head(pipe[b])))
  <2>4. /\ Tail(pipe[b]) \in Seq(BankRsps) /\ Append(outq[b], Head(pipe[b])) \in Seq(BankRsps)
        /\ m1 = m - 1 /\ k1 = k + 1
        /\ m \in Nat /\ k \in Nat
    BY <2>1
  <2>5. claims[b] = m + k
    BY Zenon DEF ClaimsCovered
  <2> HIDE DEF m, k, m1, k1
  <2>6. claims[b] = m1 + k1
    BY <2>4, <2>5
  <2> USE DEF m1, k1
  <2>7. BankTypeOK'
    BY <2>3, <2>4, Zenon DEF BankTypeOK
  <2>8. ClaimsCovered'
    BY <2>3, <2>6, Zenon DEF BankTypeOK, ClaimsCovered
  <2> QED
    BY <2>7, <2>8, Zenon
<1>5. ASSUME NEW b \in Banks, Pop(b) PROVE BankInv'
  <2>1. outq[b] \in Seq(BankRsps) /\ outq[b] # <<>> /\ pipe[b] \in Seq(BankRsps)
    BY <1>5, Zenon DEF Pop, BankTypeOK
  <2>2. /\ outq' = [outq EXCEPT ![b] = Tail(outq[b])]
        /\ claims' = [claims EXCEPT ![b] = claims[b] - 1]
        /\ UNCHANGED <<inq, pipe, sram>>
    BY <1>5, Zenon DEF Pop
  <2> DEFINE m == Len(pipe[b])
             k == Len(outq[b])
             k1 == Len(Tail(outq[b]))
  <2>3. /\ Tail(outq[b]) \in Seq(BankRsps) /\ k1 = k - 1
        /\ m \in Nat /\ k \in Nat /\ k >= 1
    BY <2>1
  <2>4. claims[b] = m + k /\ claims[b] <= OutDepth
    BY Zenon DEF ClaimsCovered
  <2> HIDE DEF m, k, k1
  <2>5. claims[b] - 1 = m + k1
    BY <2>3, <2>4
  <2>6. claims[b] - 1 \in 0..OutDepth
    BY <2>3, <2>4, BankAssumption
  <2> USE DEF m, k1
  <2>7. BankTypeOK'
    BY <2>2, <2>3, <2>6, Zenon DEF BankTypeOK
  <2>8. ClaimsCovered'
    BY <2>2, <2>5, <2>6, SMTT(30) DEF BankTypeOK, ClaimsCovered
  <2> QED
    BY <2>7, <2>8, Zenon
<1> QED
  BY <1>1, <1>2, <1>3, <1>4, <1>5, Zenon DEF BankNext

\* Every register of a bank keeps its type; out_claims_q never wraps.
THEOREM BankTypeCorrect == BankSpec => []BankTypeOK
  BY BankInitInv, BankNextInv, PTL DEF BankSpec, BankInv

\* A claim is held for exactly the results in the slice or queued.
THEOREM ClaimsAlwaysCovered == BankSpec => []ClaimsCovered
  BY BankInitInv, BankNextInv, PTL DEF BankSpec, BankInv

\* What the issue gate is for: the slice never delivers into a full FIFO.
THEOREM NeverDropsResult == BankSpec => []NoDroppedResult
<1>1. BankInv => NoDroppedResult
  BY RoomForResult, Zenon DEF NoDroppedResult
<1> QED
  BY <1>1, BankInitInv, BankNextInv, PTL DEF BankSpec

-----------------------------------------------------------------------------
(***************************************************************************)
(* The address map: an address of the memory is a lane of a word of a bank *)
(* and nothing else is.                                                    *)
(***************************************************************************)
\* Division with remainder: the quotient and the remainder determine the number.
LEMMA DivMod ==
  ASSUME NEW x \in Nat, NEW n \in Nat \ {0}
  PROVE  /\ x \div n \in Nat
         /\ x % n \in 0..(n - 1)
         /\ x = n * (x \div n) + (x % n)
OBVIOUS

\* The quotient of a number below a product.
LEMMA DivBound ==
  ASSUME NEW x \in Nat, NEW n \in Nat \ {0}, NEW w \in Nat, x < n * w
  PROVE  x \div n \in 0..(w - 1)
<1> DEFINE k == x \div n
           m == x % n
<1>1. k \in Nat /\ m \in Nat /\ x = n * k + m
  BY DivMod
<1> HIDE DEF k, m
<1>2. CASE k >= w
  <2>1. PICK d \in Nat : k = w + d
    <3>1. k - w \in Nat /\ k = w + (k - w)
      BY <1>1, <1>2
    <3> QED
      BY <3>1, Zenon
  <2>2. n * k = n * w + n * d /\ n * d \in Nat /\ n * w \in Nat
    BY <2>1
  <2> QED
    BY <1>1, <2>2
<1>3. CASE k < w
  BY <1>1, <1>3 DEF k
<1> QED
  BY <1>1, <1>2, <1>3

\* Addresses below the modulus do not wrap.
LEMMA ModSmall ==
  ASSUME NEW x \in Nat, NEW n \in Nat, x < n
  PROVE  x % n = x
OBVIOUS

\* The offset of an address of the memory does not wrap.
LEMMA OffInside ==
  ASSUME NEW a \in Addrs, InRange(a)
  PROVE  /\ Off(a) = a - BaseAddr
         /\ Off(a) \in 0..(TotalHalves - 1)
         /\ TotalHalves \in Nat
<1>1. TotalHalves \in Nat
  BY GeometryAssumption DEF TotalHalves
<1>2. a - BaseAddr \in Nat /\ a - BaseAddr < AddrSpace /\ AddrSpace \in Nat
  BY GeometryAssumption DEF InRange, Addrs
<1>3. Off(a) = a - BaseAddr
  BY <1>2, ModSmall, Zenon DEF Off
<1>4. Off(a) < TotalHalves
  BY Zenon DEF InRange
<1> QED
  BY <1>1, <1>2, <1>3, <1>4

\* ... and conversely every offset below the size is that of an address.
LEMMA OffOf ==
  ASSUME NEW o \in 0..(TotalHalves - 1)
  PROVE  Off(BaseAddr + o) = o
<1>1. TotalHalves \in Nat /\ BaseAddr + TotalHalves <= AddrSpace /\ AddrSpace \in Nat /\ BaseAddr \in Nat
  BY GeometryAssumption DEF TotalHalves
<1>2. BaseAddr + o - BaseAddr = o /\ o \in Nat /\ o < AddrSpace
  BY <1>1
<1> QED
  BY <1>1, <1>2, ModSmall DEF Off

\* Every half of the memory is in a word of a bank.
LEMMA WordExists ==
  ASSUME NEW o \in 0..(TotalHalves - 1)
  PROVE  /\ o \div 2 \in Nat
         /\ (o \div 2) % NumBanks \in Banks
         /\ (o \div 2) \div NumBanks \in Words
         /\ o % 2 \in Lanes
<1> DEFINE n == NumBanks * WordsPerBank
           h == o \div 2
<1>1. n \in Nat /\ NumBanks \in Nat \ {0} /\ WordsPerBank \in Nat
  BY GeometryAssumption
<1>2. TotalHalves = 2 * n
  BY GeometryAssumption DEF TotalHalves
<1> HIDE DEF n
<1>3. h \in 0..(n - 1) /\ o % 2 \in 0..1
  BY <1>1, <1>2
<1> HIDE DEF h
<1>4. h \in Nat /\ h < NumBanks * WordsPerBank
  BY <1>1, <1>3 DEF n
<1>5. h % NumBanks \in 0..(NumBanks - 1) /\ h \div NumBanks \in 0..(WordsPerBank - 1)
  BY <1>1, <1>4, DivMod, DivBound, Zenon
<1> QED
  BY <1>3, <1>4, <1>5, Zenon DEF h, Banks, Words, Lanes

\* Two halves in the same word of the same bank are the halves of one word of
\* the memory.
LEMMA SameWord ==
  ASSUME NEW o \in 0..(TotalHalves - 1), NEW u \in 0..(TotalHalves - 1),
         (o \div 2) % NumBanks = (u \div 2) % NumBanks,
         (o \div 2) \div NumBanks = (u \div 2) \div NumBanks
  PROVE  o \div 2 = u \div 2
<1>1. o \div 2 \in Nat /\ u \div 2 \in Nat
  BY WordExists, Zenon
<1>2. NumBanks \in Nat \ {0}
  BY GeometryAssumption, Zenon
<1> QED
  BY <1>1, <1>2, DivMod, Zenon

\* The two halves of a word.
LEMMA HalvesOfWord ==
  ASSUME NEW o \in 0..(TotalHalves - 1), NEW u \in 0..(TotalHalves - 1), NEW l \in Lanes
  PROVE  /\ 2 * (u \div 2) + l \in 0..(TotalHalves - 1)
         /\ (2 * (u \div 2) + l) \div 2 = u \div 2
         /\ (2 * (u \div 2) + l) % 2 = l
         /\ o = 2 * (u \div 2) + l <=> o \div 2 = u \div 2 /\ o % 2 = l
         /\ o = u <=> o \div 2 = u \div 2 /\ o % 2 = u % 2
<1> DEFINE N == NumBanks * WordsPerBank
<1>1. N \in Nat /\ TotalHalves = 2 * N
  BY GeometryAssumption DEF TotalHalves
<1> HIDE DEF N
<1>2. l \in 0..1
  BY Zenon DEF Lanes
<1> QED
  BY <1>1, <1>2

\* An address in the word of an address of the memory is one as well.
LEMMA SameWordInside ==
  ASSUME NEW a \in Addrs, NEW c \in Addrs, InRange(c), a \div 2 = c \div 2
  PROVE  InRange(a) /\ BankOf(a) = BankOf(c) /\ InBank(a) = InBank(c)
<1> DEFINE N == NumBanks * WordsPerBank
<1>1. N \in Nat /\ TotalHalves = 2 * N
  BY GeometryAssumption DEF TotalHalves
<1>2. Off(c) = c - BaseAddr /\ Off(c) \in 0..(TotalHalves - 1)
  BY OffInside, Zenon
<1>3. a \in Nat /\ a < AddrSpace /\ c \in Nat /\ AddrSpace \in Nat
  BY GeometryAssumption DEF Addrs
<1>4. BaseAddr \in Nat /\ BaseAddr % 2 = 0
  BY GeometryAssumption, Zenon
<1>5. PICK h \in Nat : BaseAddr = 2 * h
  BY <1>4, DivMod
<1> HIDE DEF N
<1>6. /\ a - BaseAddr \in 0..(2 * N - 1)
      /\ (a - BaseAddr) \div 2 = (c - BaseAddr) \div 2
  BY <1>1, <1>2, <1>3, <1>5
<1>7. Off(a) = a - BaseAddr
  BY <1>3, <1>4, <1>6, <1>1, ModSmall DEF Off
<1> QED
  BY <1>1, <1>2, <1>3, <1>4, <1>6, <1>7 DEF InRange, BankOf, InBank

\* The half an address of the memory names.
LEMMA LaneOfOff ==
  ASSUME NEW a \in Addrs, InRange(a)
  PROVE  a % 2 = Off(a) % 2
<1>1. Off(a) = a - BaseAddr /\ Off(a) \in 0..(TotalHalves - 1)
  BY OffInside, Zenon
<1>2. a \in Nat /\ BaseAddr \in Nat /\ BaseAddr % 2 = 0
  BY GeometryAssumption DEF Addrs
<1> QED
  BY <1>1, <1>2

-----------------------------------------------------------------------------
(***************************************************************************)
(* The arbiters.                                                           *)
(***************************************************************************)
\* The type of the ingress FIFOs.
IngType == ing \in [Ports -> Seq(UNION {PortReqs(p) : p \in Ports})]

\* The inductive invariant.  A locked arbiter grants without looking at the
\* request again, so the count of a reorder buffer stays within its depth
\* only because the request is still there, and the request stays there only
\* because the count does not rise without a grant.
LockInv ==
  /\ IngType
  /\ robCnt \in [Ports -> 0..EgressDepth]
  /\ lock \in [Banks -> SUBSET Ports]
  /\ LockedStillRequest

\* Nothing is locked at the start.
LEMMA LockInitInv == Init => LockInv
<1> SUFFICES ASSUME Init PROVE LockInv
  BY Zenon
<1>1. IngType
  BY DEF Init, PortInit, IngType
<1>2. robCnt \in [Ports -> 0..EgressDepth]
  BY PortAssumption DEF Init, PortInit
<1> QED
  BY <1>1, <1>2, Zenon DEF Init, LockInv, LockedStillRequest

\* A port keeps its request up if the head of its ingress FIFO stays and its
\* reorder buffer is not full afterwards.
LEMMA KeepsRequest ==
  ASSUME NEW p, NEW b, p \in Requesters(b), ing'[p] # <<>>,
         Head(ing'[p]) = Head(ing[p]), robCnt'[p] # EgressDepth
  PROVE  p \in Requesters(b)'
BY Zenon DEF Requesters, ArbReq, RobFull, InRange, BankOf, Off

\* What an arbiter grants, locked or not, requests.
LEMMA OfferedRequest ==
  ASSUME LockInv, NEW b \in Banks
  PROVE  Offered(b) \subseteq Requesters(b)
BY Zenon DEF Offered, LockInv, LockedStillRequest

\* The arbiter grants one of the requests it was offered.
LEMMA WinnersAreOffered ==
  ASSUME NEW S, NEW rr, NEW w \in Winners(S, rr)
  PROVE  w \in S
BY Zenon DEF Winners

\* Steps that leave ing, robCnt and lock alone.
LEMMA LockUnchanged ==
  ASSUME LockInv, ing' = ing, robCnt' = robCnt, lock' = lock
  PROVE  LockInv'
<1>1. \A b \in Banks : Requesters(b)' = Requesters(b)
  BY Zenon DEF Requesters, ArbReq, RobFull, InRange, BankOf, Off
<1> QED
  BY <1>1, Zenon DEF LockInv, LockedStillRequest, IngType

\* Accepting leaves the head of the ingress FIFO where it is.
LEMMA AcceptKeepsLock ==
  ASSUME LockInv, NEW p \in Ports, AcceptStep(p)
  PROVE  LockInv'
<1> DEFINE S == UNION {PortReqs(r) : r \in Ports}
<1>1. PICK r \in ReqsOf(p) : Accept(p, r)
  BY Zenon DEF AcceptStep
<1>2. r \in S
  BY ReqsAssumption, Zenon
<1>3. /\ ing \in [Ports -> Seq(S)]
      /\ ing' = [ing EXCEPT ![p] = Append(@, r)]
      /\ robCnt' = robCnt /\ lock' = lock
  BY <1>1, Zenon DEF Accept, AcceptStep, ssVars, LockInv, IngType
<1> HIDE DEF S
<1>4. ing' \in [Ports -> Seq(S)]
  BY <1>2, <1>3
<1>5. \A t \in Ports : ing[t] # <<>> => ing'[t] # <<>> /\ Head(ing'[t]) = Head(ing[t])
  <2> SUFFICES ASSUME NEW t \in Ports, ing[t] # <<>>
               PROVE  ing'[t] # <<>> /\ Head(ing'[t]) = Head(ing[t])
    BY Zenon
  <2>1. CASE t = p
    <3>1. ing[p] \in Seq(S) /\ ing'[p] = Append(ing[p], r) /\ ing[p] # <<>>
      BY <1>3, <2>1, Zenon
    <3> QED
      BY ONLY <1>2, <2>1, <3>1
  <2>2. CASE t # p
    BY <1>3, <2>2, Zenon
  <2> QED
    BY <2>1, <2>2, Zenon
<1>6. ASSUME NEW b \in Banks, NEW t \in lock[b] PROVE t \in Requesters(b)'
  <2>1. t \in Requesters(b)
    BY Zenon DEF LockInv, LockedStillRequest
  <2>2. t \in Ports /\ ing[t] # <<>> /\ robCnt[t] # EgressDepth
    BY <2>1, Zenon DEF Requesters, ArbReq, RobFull
  <2> QED
    BY <1>3, <1>5, <2>1, <2>2, KeepsRequest, Zenon
<1>7. LockedStillRequest'
  BY <1>3, <1>6, Zenon DEF LockedStillRequest
<1> QED
  BY <1>3, <1>4, <1>7, Zenon DEF LockInv, IngType, S

\* A delivery can only make room in the reorder buffer.
LEMMA DeliverKeepsLock ==
  ASSUME LockInv, NEW p \in Ports, DeliverStep(p)
  PROVE  LockInv'
<1>1. /\ robCnt[p] # 0 /\ robCnt' = [robCnt EXCEPT ![p] = @ - 1]
      /\ ing' = ing /\ lock' = lock
  BY Zenon DEF DeliverStep, Deliver, RValid, ssVars
<1>2. robCnt \in [Ports -> 0..EgressDepth]
  BY Zenon DEF LockInv
<1>3. robCnt' \in [Ports -> 0..EgressDepth]
  BY <1>1, <1>2, PortAssumption
<1>4. ASSUME NEW t \in Ports, robCnt[t] # EgressDepth PROVE robCnt'[t] # EgressDepth
  BY <1>1, <1>2, <1>4, PortAssumption
<1>5. ASSUME NEW b \in Banks, NEW t \in lock[b] PROVE t \in Requesters(b)'
  <2>1. t \in Requesters(b)
    BY Zenon DEF LockInv, LockedStillRequest
  <2>2. t \in Ports /\ ing[t] # <<>> /\ robCnt[t] # EgressDepth
    BY <2>1, Zenon DEF Requesters, ArbReq, RobFull
  <2>3. robCnt'[t] # EgressDepth
    BY <1>4, <2>2, Zenon
  <2> QED
    BY <1>1, <2>1, <2>2, <2>3, KeepsRequest, Zenon
<1>6. LockedStillRequest'
  BY <1>1, <1>5, Zenon DEF LockedStillRequest
<1> QED
  BY <1>1, <1>3, <1>6, Zenon DEF LockInv, IngType

\* A grant of port p, by bank b's arbiter or of an error: the arbiters that
\* are still locked afterwards were not locked onto p.
LEMMA AllocKeepsLock ==
  ASSUME LockInv, NEW p \in Ports, NEW err \in BOOLEAN, Alloc(p, err),
         ing[p] # <<>>, ~RobFull(p),
         lock' \in [Banks -> SUBSET Ports],
         \A b \in Banks : lock'[b] \subseteq lock[b] \ {p}
  PROVE  LockInv'
<1>1. /\ ing' = [ing EXCEPT ![p] = Tail(@)]
      /\ robCnt' = [robCnt EXCEPT ![p] = @ + 1]
      /\ ing \in [Ports -> Seq(UNION {PortReqs(r) : r \in Ports})]
      /\ robCnt \in [Ports -> 0..EgressDepth]
  BY Zenon DEF Alloc, LockInv, IngType
<1>2. robCnt' \in [Ports -> 0..EgressDepth]
  BY <1>1, PortAssumption DEF RobFull
<1>3. IngType'
  <2> DEFINE S == UNION {PortReqs(r) : r \in Ports}
  <2>1. ing \in [Ports -> Seq(S)]
    BY <1>1, Zenon
  <2> HIDE DEF S
  <2>2. ing' \in [Ports -> Seq(S)]
    BY <1>1, <2>1
  <2> QED
    BY <2>2, Zenon DEF IngType, S
<1>4. ASSUME NEW b \in Banks, NEW t \in lock'[b] PROVE t \in Requesters(b)'
  <2>1. t \in Requesters(b) /\ t # p
    BY Zenon DEF LockInv, LockedStillRequest
  <2>2. t \in Ports /\ ing[t] # <<>> /\ robCnt[t] # EgressDepth
    BY <2>1, Zenon DEF Requesters, ArbReq, RobFull
  <2>3. ing'[t] = ing[t] /\ robCnt'[t] = robCnt[t]
    BY <1>1, <2>1, <2>2, Zenon
  <2> QED
    BY <2>1, <2>2, <2>3, KeepsRequest, Zenon
<1>5. LockedStillRequest'
  BY <1>4, Zenon DEF LockedStillRequest
<1> QED
  BY <1>2, <1>3, <1>5, Zenon DEF LockInv

\* An error response is for a port no arbiter is locked onto.
LEMMA ErrorKeepsLock ==
  ASSUME LockInv, NEW p \in Ports, ErrorStep(p)
  PROVE  LockInv'
<1>1. ErrReq(p) /\ Alloc(p, TRUE) /\ lock' = lock
  BY Zenon DEF ErrorStep, ErrGrant, ssVars
<1>2. \A b \in Banks : p \notin Requesters(b)
  BY <1>1, Zenon DEF ErrReq, Requesters, ArbReq
<1>3. \A b \in Banks : lock'[b] \subseteq lock[b] \ {p}
  BY <1>1, <1>2, Zenon DEF LockInv, LockedStillRequest
<1>4. lock' \in [Banks -> SUBSET Ports]
  BY <1>1, Zenon DEF LockInv
<1>5. ing[p] # <<>> /\ ~RobFull(p)
  BY <1>1, Zenon DEF ErrReq
<1> QED
  BY <1>1, <1>3, <1>4, <1>5, AllocKeepsLock, ZenonT(60)

\* A grant takes the request of a port that only its own bank was locked onto.
LEMMA GrantKeepsLock ==
  ASSUME LockInv, NEW b \in Banks, Grant(b)
  PROVE  LockInv'
<1>1. PICK p \in Winners(Offered(b), rrReq[b]) :
        ArbGrant(p) /\ lock' = [lock EXCEPT ![b] = {}]
  BY Zenon DEF Grant
<1>2. p \in Requesters(b)
  BY <1>1, WinnersAreOffered, OfferedRequest, Zenon
<1>3. p \in Ports /\ ing[p] # <<>> /\ ~RobFull(p) /\ BankOf(Head(ing[p]).addr) = b
  BY <1>2, Zenon DEF Requesters, ArbReq
<1>4. \A c \in Banks : c # b => p \notin lock[c]
  BY <1>3, Zenon DEF LockInv, LockedStillRequest, Requesters
<1>5. lock \in [Banks -> SUBSET Ports]
  BY Zenon DEF LockInv
<1>6. \A c \in Banks : lock'[c] \subseteq lock[c] \ {p}
  BY <1>1, <1>4, <1>5, Zenon
<1>7. lock' \in [Banks -> SUBSET Ports]
  BY <1>1, <1>5, Zenon
<1> QED
  BY <1>1, <1>3, <1>6, <1>7, AllocKeepsLock, Zenon DEF ArbGrant

\* A lock is taken on requests that are up.
LEMMA HoldKeepsLock ==
  ASSUME LockInv, NEW b \in Banks, Hold(b)
  PROVE  LockInv'
<1>1. lock' = [lock EXCEPT ![b] = Requesters(b)] /\ ing' = ing /\ robCnt' = robCnt
  BY Zenon DEF Hold, portVars
<1>2. \A c \in Banks : Requesters(c)' = Requesters(c)
  BY <1>1, Zenon DEF Requesters, ArbReq, RobFull, InRange, BankOf, Off
<1>3. Requesters(b) \subseteq Ports
  BY Zenon DEF Requesters
<1>4. LockedStillRequest'
  BY <1>1, <1>2, Zenon DEF LockInv, LockedStillRequest
<1>5. lock' \in [Banks -> SUBSET Ports]
  BY <1>1, <1>3, Zenon DEF LockInv
<1> QED
  BY <1>1, <1>4, <1>5, Zenon DEF LockInv, IngType

\* Every step keeps the locked requests up.
LEMMA LockNextInv == LockInv /\ [Next]_vars => LockInv'
<1> SUFFICES ASSUME LockInv, [Next]_vars PROVE LockInv'
  BY Zenon
<1>1. ASSUME NEW p \in Ports, FillPort(p) PROVE LockInv'
  BY <1>1, LockUnchanged, Zenon DEF FillPort, Fill
<1>2. ASSUME NEW b \in Banks, IssueStep(b) \/ ReturnStep(b) PROVE LockInv'
  BY <1>2, LockUnchanged, Zenon DEF IssueStep, ReturnStep, portVars, ssVars
<1>3. CASE UNCHANGED vars
  BY <1>3, LockUnchanged, Zenon DEF vars, portVars, ssVars
<1> QED
  BY <1>1, <1>2, <1>3, AcceptKeepsLock, ErrorKeepsLock, DeliverKeepsLock,
     GrantKeepsLock, HoldKeepsLock, ZenonT(60) DEF Next

\* An arbiter that waits for its bank never grants a port that has meanwhile
\* withdrawn its request, so no grant pops an empty ingress FIFO.
THEOREM LockedAlwaysRequest == Spec => []LockedStillRequest
<1>1. LockInv => LockedStillRequest
  BY Zenon DEF LockInv
<1> QED
  BY <1>1, LockInitInv, LockNextInv, PTL DEF Spec

-----------------------------------------------------------------------------
(***************************************************************************)
(* Places.  Whatever holds accesses in sequences, one for every z in Z, it *)
(* holds each tag of W in exactly one place and no other tag.              *)
(***************************************************************************)
OnePlaceEach(Z, H, W) ==
  /\ \A w \in W : \E z \in Z : \E i \in DOMAIN H[z] : TagOf(H[z][i]) = w
  /\ \A z \in Z : \A i \in DOMAIN H[z] : TagOf(H[z][i]) \in W
  /\ \A y, z \in Z : \A i \in DOMAIN H[y], j \in DOMAIN H[z] :
       TagOf(H[y][i]) = TagOf(H[z][j]) => y = z /\ i = j

\* At the start nothing is held and nothing awaited.
LEMMA NoPlaces ==
  ASSUME NEW Z, NEW H, \A z \in Z : H[z] = <<>>
  PROVE  OnePlaceEach(Z, H, {})
BY DEF OnePlaceEach

\* Appending an access with a new tag.
LEMMA AddPlace ==
  ASSUME NEW Z, NEW E, NEW W, NEW H \in [Z -> Seq(E)], NEW z \in Z, NEW e \in E,
         OnePlaceEach(Z, H, W), TagOf(e) \notin W
  PROVE  OnePlaceEach(Z, [H EXCEPT ![z] = Append(@, e)], W \union {TagOf(e)})
<1> DEFINE K == [H EXCEPT ![z] = Append(@, e)]
           n == Len(H[z]) + 1
           V == W \union {TagOf(e)}
<1>1. /\ \A y \in Z : y # z => K[y] = H[y]
      /\ K[z] = Append(H[z], e)
      /\ \A y \in Z : H[y] \in Seq(E)
  BY Zenon
<1>2. /\ DOMAIN K[z] = DOMAIN H[z] \union {n}
      /\ n \notin DOMAIN H[z]
      /\ K[z][n] = e
      /\ \A i \in DOMAIN H[z] : K[z][i] = H[z][i]
  BY <1>1
<1> HIDE DEF K, n
<1>3. \A y \in Z : \A i \in DOMAIN H[y] : i \in DOMAIN K[y] /\ K[y][i] = H[y][i]
  BY <1>1, <1>2, Zenon
<1>4. \A y \in Z : \A i \in DOMAIN K[y] :
        \/ i \in DOMAIN H[y] /\ K[y][i] = H[y][i]
        \/ y = z /\ i = n /\ K[y][i] = e
  BY <1>1, <1>2, Zenon
<1>5. \A w \in V : \E y \in Z : \E i \in DOMAIN K[y] : TagOf(K[y][i]) = w
  <2> SUFFICES ASSUME NEW w \in V PROVE \E y \in Z : \E i \in DOMAIN K[y] : TagOf(K[y][i]) = w
    BY Zenon
  <2>1. CASE w \in W
    BY <1>3, <2>1 DEF OnePlaceEach
  <2>2. CASE w = TagOf(e)
    BY <1>2, <2>2, Zenon
  <2> QED
    BY <2>1, <2>2, Zenon
<1>6. \A y \in Z : \A i \in DOMAIN K[y] : TagOf(K[y][i]) \in V
  BY <1>4, Zenon DEF OnePlaceEach
<1>7. ASSUME NEW x \in Z, NEW y \in Z, NEW i \in DOMAIN K[x], NEW j \in DOMAIN K[y],
             TagOf(K[x][i]) = TagOf(K[y][j])
      PROVE  x = y /\ i = j
  <2>1. CASE i \in DOMAIN H[x] /\ K[x][i] = H[x][i] /\ j \in DOMAIN H[y] /\ K[y][j] = H[y][j]
    BY <1>7, <2>1, SMTT(30) DEF OnePlaceEach
  <2>2. CASE i \in DOMAIN H[x] /\ K[x][i] = H[x][i] /\ K[y][j] = e
    BY <1>7, <2>2, SMTT(30) DEF OnePlaceEach
  <2>3. CASE K[x][i] = e /\ j \in DOMAIN H[y] /\ K[y][j] = H[y][j]
    BY <1>7, <2>3 DEF OnePlaceEach
  <2> QED
    BY <1>4, <2>1, <2>2, <2>3, ZenonT(60)
<1> HIDE DEF V
<1>8. OnePlaceEach(Z, K, V)
  BY <1>5, <1>6, <1>7, Zenon DEF OnePlaceEach
<1> QED
  BY <1>8, Zenon DEF K, V

\* Removing the first access of a sequence.
LEMMA DropPlace ==
  ASSUME NEW Z, NEW E, NEW W, NEW H \in [Z -> Seq(E)], NEW z \in Z, H[z] # <<>>,
         OnePlaceEach(Z, H, W)
  PROVE  OnePlaceEach(Z, [H EXCEPT ![z] = Tail(@)], W \ {TagOf(Head(H[z]))})
<1> DEFINE K == [H EXCEPT ![z] = Tail(@)]
           V == W \ {TagOf(Head(H[z]))}
<1>1. /\ \A y \in Z : y # z => K[y] = H[y]
      /\ K[z] = Tail(H[z])
      /\ \A y \in Z : H[y] \in Seq(E)
  BY Zenon
<1>2. /\ \A i \in DOMAIN K[z] : i + 1 \in DOMAIN H[z] /\ i + 1 # 1 /\ K[z][i] = H[z][i + 1]
      /\ \A i \in DOMAIN H[z] : i # 1 => i - 1 \in DOMAIN K[z] /\ K[z][i - 1] = H[z][i]
      /\ \A i, j \in DOMAIN K[z] : i + 1 = j + 1 => i = j
      /\ 1 \in DOMAIN H[z] /\ Head(H[z]) = H[z][1]
  BY <1>1
<1> HIDE DEF K
<1>3. \A w \in V : \E y \in Z : \E i \in DOMAIN K[y] : TagOf(K[y][i]) = w
  <2> SUFFICES ASSUME NEW w \in V PROVE \E y \in Z : \E i \in DOMAIN K[y] : TagOf(K[y][i]) = w
    BY Zenon
  <2>0. PICK y \in Z : \E i \in DOMAIN H[y] : TagOf(H[y][i]) = w
    BY Zenon DEF OnePlaceEach
  <2>1. PICK i \in DOMAIN H[y] : TagOf(H[y][i]) = w
    BY <2>0, Zenon
  <2>2. CASE y # z
    BY <1>1, <2>1, <2>2, Zenon
  <2>3. CASE y = z
    <3>1. i # 1
      BY <1>2, <2>1, <2>3, Zenon
    <3> QED
      BY <1>2, <2>1, <2>3, <3>1, Zenon
  <2> QED
    BY <2>2, <2>3, Zenon
<1>4. \A y \in Z : \A i \in DOMAIN K[y] : TagOf(K[y][i]) \in V
  <2> SUFFICES ASSUME NEW y \in Z, NEW i \in DOMAIN K[y] PROVE TagOf(K[y][i]) \in V
    BY Zenon
  <2>1. CASE y # z
    BY <1>1, <1>2, <2>1 DEF OnePlaceEach
  <2>2. CASE y = z
    <3>1. i + 1 \in DOMAIN H[z] /\ i + 1 # 1 /\ K[z][i] = H[z][i + 1]
      BY <1>2, <2>2, ZenonT(60)
    <3>2. TagOf(H[z][i + 1]) \in W /\ TagOf(H[z][i + 1]) # TagOf(H[z][1])
      BY <1>2, <3>1 DEF OnePlaceEach
    <3> QED
      BY <1>2, <2>2, <3>1, <3>2, Zenon
  <2> QED
    BY <2>1, <2>2, Zenon
<1>5. ASSUME NEW x \in Z, NEW y \in Z, NEW i \in DOMAIN K[x], NEW j \in DOMAIN K[y],
             TagOf(K[x][i]) = TagOf(K[y][j])
      PROVE  x = y /\ i = j
  <2>1. CASE x # z /\ y # z
    BY <1>1, <1>5, <2>1, SMTT(30) DEF OnePlaceEach
  <2>2. CASE x = z /\ y # z
    <3>1. i + 1 \in DOMAIN H[z] /\ K[x][i] = H[z][i + 1] /\ j \in DOMAIN H[y] /\ K[y][j] = H[y][j]
      BY <1>1, <1>2, <2>2, Zenon
    <3>2. TagOf(H[z][i + 1]) = TagOf(H[y][j])
      BY <1>5, <3>1, ZenonT(60)
    <3> QED
      BY <1>2, <2>2, <3>1, <3>2 DEF OnePlaceEach
  <2>3. CASE x # z /\ y = z
    <3>1. i \in DOMAIN H[x] /\ K[x][i] = H[x][i] /\ j + 1 \in DOMAIN H[z] /\ K[y][j] = H[z][j + 1]
      BY <1>1, <1>2, <2>3, Zenon
    <3>2. TagOf(H[x][i]) = TagOf(H[z][j + 1])
      BY <1>5, <3>1, ZenonT(60)
    <3> QED
      BY <1>2, <2>3, <3>1, <3>2, SMTT(30) DEF OnePlaceEach
  <2>4. CASE x = z /\ y = z
    <3>1. i + 1 \in DOMAIN H[z] /\ K[x][i] = H[z][i + 1] /\ j + 1 \in DOMAIN H[z] /\ K[y][j] = H[z][j + 1]
      BY <1>1, <1>2, <2>4, Zenon
    <3>2. TagOf(H[z][i + 1]) = TagOf(H[z][j + 1])
      BY <1>5, <3>1, Zenon
    <3> QED
      BY <1>2, <2>4, <3>1, <3>2, SMTT(30) DEF OnePlaceEach
  <2> QED
    BY <2>1, <2>2, <2>3, <2>4, Zenon
<1> HIDE DEF V
<1>6. OnePlaceEach(Z, K, V)
  BY <1>3, <1>4, <1>5, Zenon DEF OnePlaceEach
<1> QED
  BY <1>6, Zenon DEF K, V

\* Moving an access: the first of one sequence becomes the last of another,
\* perhaps in another form but with its tag.
LEMMA MovePlace ==
  ASSUME NEW Z, NEW E, NEW W, NEW H \in [Z -> Seq(E)], NEW y \in Z, NEW z \in Z, NEW e \in E,
         y # z, H[y] # <<>>, TagOf(e) = TagOf(Head(H[y])), OnePlaceEach(Z, H, W)
  PROVE  OnePlaceEach(Z, [H EXCEPT ![y] = Tail(@), ![z] = Append(@, e)], W)
<1> DEFINE t == TagOf(e)
           K == [H EXCEPT ![y] = Tail(@)]
<1>1. OnePlaceEach(Z, K, W \ {t})
  <2>1. OnePlaceEach(Z, [H EXCEPT ![y] = Tail(@)], W \ {TagOf(Head(H[y]))})
    BY DropPlace, Zenon
  <2> QED
    BY <2>1, Zenon
<1>2. K \in [Z -> Seq(E)]
  OBVIOUS
<1>3. t \notin W \ {t}
  BY Zenon
<1> HIDE DEF K
<1>4. OnePlaceEach(Z, [K EXCEPT ![z] = Append(@, e)], (W \ {t}) \union {t})
  BY <1>1, <1>2, <1>3, AddPlace, Zenon
<1>5. t \in W
  <2>1. 1 \in DOMAIN H[y] /\ Head(H[y]) = H[y][1]
    OBVIOUS
  <2> QED
    BY <2>1, Zenon DEF OnePlaceEach
<1>6. (W \ {t}) \union {t} = W
  BY <1>5, Zenon
<1> QED
  BY <1>4, <1>6, Zenon DEF K

\* All that the banks hold, stage by stage, and the tags the ports wait for.
HeldIn(I, P, O) ==
  [z \in Stages |->
     IF z.at = "in" THEN I[z.bank] ELSE IF z.at = "slice" THEN P[z.bank] ELSE O[z.bank]]

\* A stage of a bank; the tags the ports wait for, given what they owe; what the
\* stages hold.
At(b, f) == [bank |-> b, at |-> f]

Owing(W) == {t \in Ports \X Slots : t[2] \in W[t[1]]}

Entries == BankReqs \union BankRsps

\* The three stages of a bank, and what each holds.
LEMMA StagesOf ==
  ASSUME NEW b \in Banks, NEW A, NEW B, NEW C
  PROVE  /\ At(b, "in") \in Stages /\ HeldIn(A, B, C)[At(b, "in")] = A[b]
         /\ At(b, "slice") \in Stages /\ HeldIn(A, B, C)[At(b, "slice")] = B[b]
         /\ At(b, "out") \in Stages /\ HeldIn(A, B, C)[At(b, "out")] = C[b]
BY Zenon DEF Stages, HeldIn, At

\* There are no other stages.
LEMMA AnyStage ==
  ASSUME NEW z \in Stages
  PROVE  \E b \in Banks : z = At(b, "in") \/ z = At(b, "slice") \/ z = At(b, "out")
BY Zenon DEF Stages, At

\* Every stage of a well-typed bank holds a sequence of accesses.
LEMMA HeldInType ==
  ASSUME BankTypeOK
  PROVE  HeldIn(inq, pipe, outq) \in [Stages -> Seq(Entries)]
<1>1. ASSUME NEW b \in Banks
      PROVE  inq[b] \in Seq(Entries) /\ pipe[b] \in Seq(Entries) /\ outq[b] \in Seq(Entries)
  <2>1. inq[b] \in Seq(BankReqs) /\ pipe[b] \in Seq(BankRsps) /\ outq[b] \in Seq(BankRsps)
    BY Zenon DEF BankTypeOK
  <2>2. BankReqs \subseteq Entries /\ BankRsps \subseteq Entries
    BY Zenon DEF Entries
  <2> QED
    BY <2>1, <2>2
<1>2. ASSUME NEW z \in Stages PROVE HeldIn(inq, pipe, outq)[z] \in Seq(Entries)
  <2>1. PICK b \in Banks : z = At(b, "in") \/ z = At(b, "slice") \/ z = At(b, "out")
    BY AnyStage, ZenonT(60)
  <2>2. /\ HeldIn(inq, pipe, outq)[At(b, "in")] = inq[b]
        /\ HeldIn(inq, pipe, outq)[At(b, "slice")] = pipe[b]
        /\ HeldIn(inq, pipe, outq)[At(b, "out")] = outq[b]
    BY StagesOf
  <2> QED
    BY <1>1, <2>1, <2>2, Zenon
<1>3. HeldIn(inq, pipe, outq) = [z \in Stages |-> HeldIn(inq, pipe, outq)[z]]
  BY Zenon DEF HeldIn
<1> QED
  BY <1>2, <1>3, Zenon

\* Of the FIFOs of the banks, only that of b may differ between F and G.
OthersKept(b, F, G) == \A c \in Banks : c # b => G[c] = F[c]

\* K differs from H at stage y only, where it holds v.
Wrote(H, K, y, v) == \A z \in Stages : K[z] = IF z = y THEN v ELSE H[z]

\* Writing one FIFO or slice of one bank.
LEMMA WriteIn ==
  ASSUME NEW b \in Banks, NEW A, NEW B, NEW C, NEW J, OthersKept(b, A, J)
  PROVE  Wrote(HeldIn(A, B, C), HeldIn(J, B, C), At(b, "in"), J[b])
BY DEF HeldIn, Stages, At, OthersKept, Wrote

\* ... its slice ...
LEMMA WriteSlice ==
  ASSUME NEW b \in Banks, NEW A, NEW B, NEW C, NEW J, OthersKept(b, B, J)
  PROVE  Wrote(HeldIn(A, B, C), HeldIn(A, J, C), At(b, "slice"), J[b])
BY DEF HeldIn, Stages, At, OthersKept, Wrote

\* ... or its output FIFO.
LEMMA WriteOut ==
  ASSUME NEW b \in Banks, NEW A, NEW B, NEW C, NEW J, OthersKept(b, C, J)
  PROVE  Wrote(HeldIn(A, B, C), HeldIn(A, B, J), At(b, "out"), J[b])
BY DEF HeldIn, Stages, At, OthersKept, Wrote

\* What the banks hold is a function on the stages.
LEMMA HeldInShape ==
  ASSUME NEW A, NEW B, NEW C
  PROVE  HeldIn(A, B, C) = [z \in Stages |-> HeldIn(A, B, C)[z]]
BY Zenon DEF HeldIn

-----------------------------------------------------------------------------
(***************************************************************************)
(* The composition keeps the invariants of its parts.                      *)
(***************************************************************************)
\* Payload, for a request r of port p that takes slot s.
PayloadOf(p, s, r) ==
  LET lane == LaneOf(p, r.addr)
  IN  [we |-> r.we, word |-> InBank(r.addr),
       wdata |-> Expand(p, lane, r.wdata), be |-> ExpandBe(p, lane, r.be),
       meta |-> [port |-> p, slot |-> s, req |-> r]]

\* The fields of a request that an initiator may make.
LEMMA ReqFields ==
  ASSUME NEW p \in Ports, NEW r \in ReqsOf(p)
  PROVE  /\ r.we \in BOOLEAN /\ r.addr \in Addrs /\ r.addr \in Nat
         /\ r.wdata \in [PortLanes(p) -> Vals] /\ r.be \in SUBSET PortLanes(p)
         /\ LaneOf(p, r.addr) \in Lanes
<1>1. r \in PortReqs(p)
  BY ReqsAssumption, Zenon
<1>2. /\ r.we \in BOOLEAN /\ r.addr \in Addrs
      /\ r.wdata \in [PortLanes(p) -> Vals] /\ r.be \in SUBSET PortLanes(p)
  BY <1>1, ZenonT(60) DEF PortReqs
<1>3. r.addr \in Nat
  BY <1>2, GeometryAssumption DEF Addrs
<1>4. r.addr % 2 \in 0..1
  BY <1>3
<1> QED
  BY <1>2, <1>3, <1>4 DEF LaneOf, Lanes

\* A bank takes the access a port makes of any request inside the memory.
LEMMA PayloadType ==
  ASSUME NEW p \in Ports, NEW r \in ReqsOf(p), NEW s \in Slots, InRange(r.addr)
  PROVE  PayloadOf(p, s, r) \in BankReqs
<1> DEFINE lane == LaneOf(p, r.addr)
<1>1. /\ r.we \in BOOLEAN /\ r.addr \in Addrs
      /\ r.wdata \in [PortLanes(p) -> Vals] /\ r.be \in SUBSET PortLanes(p)
      /\ lane \in Lanes
  BY ReqFields, Zenon
<1>2. InBank(r.addr) \in Words
  <2>1. Off(r.addr) \in 0..(TotalHalves - 1)
    BY <1>1, OffInside, Zenon
  <2> QED
    BY <2>1, WordExists, Zenon DEF InBank
<1> HIDE DEF lane
<1>3. Expand(p, lane, r.wdata) \in Word
  <2>1. ZeroWord \in [Lanes -> Vals]
    BY GeometryAssumption, Zenon DEF ZeroWord
  <2>2. CASE p \in Ports32
    <3>1. r.wdata[0] \in Vals
      BY <1>1, <2>2 DEF PortLanes
    <3> QED
      BY <1>1, <2>1, <2>2, <3>1, Zenon DEF Expand, Word
  <2>3. CASE p \notin Ports32
    BY <1>1, <2>3, Zenon DEF Expand, Word, PortLanes
  <2> QED
    BY <2>2, <2>3, Zenon
<1>4. ExpandBe(p, lane, r.be) \in SUBSET Lanes
  BY <1>1, Zenon DEF ExpandBe, PortLanes
<1>5. [port |-> p, slot |-> s, req |-> r] \in Metas
  BY ReqsAssumption, Zenon
<1> QED
  BY <1>1, <1>2, <1>3, <1>4, <1>5, ZenonT(60) DEF PayloadOf, BankReqs, lane

\* What waits in an ingress FIFO is what the initiator may ask for.
IngressInv == \A p \in Ports : ing[p] \in Seq(ReqsOf(p))

\* The inductive invariant of the composition: the invariants of its parts,
\* and every tag a port waits for in one place.
PartsInv ==
  /\ LockInv
  /\ PortInv
  /\ BankInv
  /\ IngressInv
  /\ OnePlaceEach(Stages, HeldIn(inq, pipe, outq), Owing(owed))

\* What a grant does.
LEMMA GrantFacts ==
  ASSUME PartsInv, NEW b \in Banks, Grant(b)
  PROVE  \E p \in Ports : \E r \in ReqsOf(p) : \E s \in Slots :
           /\ ing[p] # <<>> /\ r = Head(ing[p]) /\ s = allocPtr[p]
           /\ ArbReq(p) /\ BankOf(r.addr) = b /\ InRange(r.addr)
           /\ Push(b, PayloadOf(p, s, r)) /\ ArbGrant(p)
           /\ PayloadOf(p, s, r) \in BankReqs
<1>1. PICK p \in Winners(Offered(b), rrReq[b]) : Push(b, Payload(p)) /\ ArbGrant(p)
  BY Zenon DEF Grant
<1>2. p \in Requesters(b)
  BY <1>1, WinnersAreOffered, OfferedRequest, Zenon DEF PartsInv
<1>3. p \in Ports /\ ArbReq(p) /\ ing[p] # <<>> /\ InRange(Head(ing[p]).addr)
      /\ BankOf(Head(ing[p]).addr) = b
  BY <1>2, Zenon DEF Requesters, ArbReq
<1>4. Head(ing[p]) \in ReqsOf(p)
  <2>1. ing[p] \in Seq(ReqsOf(p))
    BY <1>3, Zenon DEF PartsInv, IngressInv
  <2> QED
    BY <1>3, <2>1
<1>5. allocPtr[p] \in Slots
  BY <1>3, Zenon DEF PartsInv, PortInv, PortTypeOK
<1>6. Payload(p) = PayloadOf(p, allocPtr[p], Head(ing[p]))
  BY Zenon DEF Payload, PayloadOf
<1>7. PayloadOf(p, allocPtr[p], Head(ing[p])) \in BankReqs
  BY <1>3, <1>4, <1>5, PayloadType, Zenon
<1> QED
  BY <1>1, <1>3, <1>4, <1>5, <1>6, <1>7, ZenonT(60)

\* The stages of the banks, what they hold, and its types.
LEMMA HeldNow ==
  ASSUME PartsInv
  PROVE  /\ HeldIn(inq, pipe, outq) \in [Stages -> Seq(Entries)]
         /\ DOMAIN inq = Banks /\ DOMAIN pipe = Banks /\ DOMAIN outq = Banks
         /\ \A b \in Banks :
              /\ inq[b] \in Seq(BankReqs) /\ pipe[b] \in Seq(BankRsps) /\ outq[b] \in Seq(BankRsps)
              /\ At(b, "in") \in Stages /\ HeldIn(inq, pipe, outq)[At(b, "in")] = inq[b]
              /\ At(b, "slice") \in Stages /\ HeldIn(inq, pipe, outq)[At(b, "slice")] = pipe[b]
              /\ At(b, "out") \in Stages /\ HeldIn(inq, pipe, outq)[At(b, "out")] = outq[b]
<1>1. BankTypeOK
  BY Zenon DEF PartsInv, BankInv
<1>2. /\ DOMAIN inq = Banks /\ DOMAIN pipe = Banks /\ DOMAIN outq = Banks
      /\ \A b \in Banks :
           inq[b] \in Seq(BankReqs) /\ pipe[b] \in Seq(BankRsps) /\ outq[b] \in Seq(BankRsps)
  BY <1>1, Zenon DEF BankTypeOK
<1>3. HeldIn(inq, pipe, outq) \in [Stages -> Seq(Entries)]
  BY <1>1, HeldInType, ZenonT(60)
<1>4. ASSUME NEW b \in Banks
      PROVE  /\ At(b, "in") \in Stages /\ HeldIn(inq, pipe, outq)[At(b, "in")] = inq[b]
             /\ At(b, "slice") \in Stages /\ HeldIn(inq, pipe, outq)[At(b, "slice")] = pipe[b]
             /\ At(b, "out") \in Stages /\ HeldIn(inq, pipe, outq)[At(b, "out")] = outq[b]
  BY StagesOf
<1> QED
  BY <1>2, <1>3, <1>4, Zenon

\* A port that requests has a free slot.
LEMMA RoomInRing ==
  ASSUME PartsInv, NEW p \in Ports, ~RobFull(p)
  PROVE  /\ deliverPtr[p] \in Slots /\ robCnt[p] \in 0..(EgressDepth - 1)
         /\ allocPtr[p] = Wrap(deliverPtr[p] + robCnt[p])
         /\ owed[p] \subseteq Ring(deliverPtr[p], robCnt[p])
<1>1. deliverPtr[p] \in Slots /\ robCnt[p] \in 0..EgressDepth
  BY Zenon DEF PartsInv, PortInv, PortTypeOK
<1>2. robCnt[p] # EgressDepth
  BY Zenon DEF RobFull
<1>3. robCnt[p] \in 0..(EgressDepth - 1)
  BY ONLY <1>1, <1>2, PortAssumption, SMTT(30)
<1>4. /\ allocPtr[p] = Wrap(deliverPtr[p] + robCnt[p])
      /\ owed[p] \subseteq Ring(deliverPtr[p], robCnt[p])
  BY Zenon DEF PartsInv, PortInv, RingConsistent, Allocated
<1> QED
  BY <1>1, <1>3, <1>4, Zenon

\* What a response of a bank to port p does.
LEMMA FillFacts ==
  ASSUME PartsInv, NEW p \in Ports, FillPort(p)
  PROVE  \E b \in Banks : \E x \in BankRsps :
           /\ outq[b] # <<>> /\ x = Head(outq[b]) /\ x.meta.port = p
           /\ x.meta.slot \in owed[p] /\ x.rdata \in Word
           /\ Fill(p, x.meta.slot, x.rdata) /\ Pop(b)
<1>1. PICK b \in Winners(Returning(p), rrFill[p]) :
        Fill(p, Head(outq[b]).meta.slot, Head(outq[b]).rdata) /\ Pop(b)
  BY Zenon DEF FillPort
<1>2. b \in Banks /\ outq[b] # <<>> /\ Head(outq[b]).meta.port = p
  BY <1>1, WinnersAreOffered, ZenonT(60) DEF Returning
<1>3. outq[b] \in Seq(BankRsps) /\ Head(outq[b]) \in BankRsps
  <2>1. outq[b] \in Seq(BankRsps)
    BY <1>2, HeldNow, Zenon
  <2> QED
    BY <1>2, <2>1
<1>4. Head(outq[b]).rdata \in Word
  BY <1>3, Zenon DEF BankRsps
<1>5. Head(outq[b]).meta.slot \in owed[p]
  <2> DEFINE H == HeldIn(inq, pipe, outq)
             z == At(b, "out")
  <2>1. z \in Stages /\ H[z] = outq[b]
    BY <1>2, HeldNow, ZenonT(60)
  <2> HIDE DEF H, z
  <2>2. 1 \in DOMAIN H[z] /\ H[z][1] = Head(outq[b])
    BY <1>2, <1>3, <2>1
  <2>3. TagOf(Head(outq[b])) \in Owing(owed)
    BY <2>1, <2>2, Zenon DEF PartsInv, OnePlaceEach, H
  <2> QED
    BY <1>2, <2>3, Zenon DEF TagOf, Owing
<1> QED
  BY <1>1, <1>2, <1>3, <1>4, <1>5, Zenon

\* Every step is a step of the ports among banks of any kind, or none ...
LEMMA PortSide ==
  ASSUME PartsInv, [Next]_vars
  PROVE  [PortNext]_portVars
<1>1. ASSUME NEW p \in Ports, AcceptStep(p) PROVE PortNext
  <2>1. PICK r \in ReqsOf(p) : Accept(p, r)
    BY <1>1, Zenon DEF AcceptStep
  <2>2. r \in PortReqs(p)
    BY ReqsAssumption, Zenon
  <2> QED
    BY <2>1, <2>2, Zenon DEF PortNext
<1>2. ASSUME NEW p \in Ports, ErrorStep(p) PROVE PortNext
  BY <1>2, Zenon DEF ErrorStep, PortNext
<1>3. ASSUME NEW p \in Ports, DeliverStep(p) PROVE PortNext
  BY <1>3, Zenon DEF DeliverStep, PortNext
<1>4. ASSUME NEW p \in Ports, FillPort(p) PROVE PortNext
  <2>1. PICK b \in Banks, x \in BankRsps :
          x.meta.slot \in owed[p] /\ x.rdata \in Word /\ Fill(p, x.meta.slot, x.rdata)
    BY <1>4, FillFacts, Zenon
  <2>2. \E s \in owed[p], word \in Word : Fill(p, s, word)
    BY <2>1, Zenon
  <2> QED
    BY <2>2, Zenon DEF PortNext
<1>5. ASSUME NEW b \in Banks, Grant(b) PROVE PortNext
  BY <1>5, GrantFacts, Zenon DEF PortNext
<1>6. ASSUME NEW b \in Banks, IssueStep(b) \/ ReturnStep(b) \/ Hold(b) PROVE UNCHANGED portVars
  BY <1>6, Zenon DEF IssueStep, ReturnStep, Hold
<1>7. CASE UNCHANGED vars
  BY <1>7, Zenon DEF vars
<1> QED
  BY <1>1, <1>2, <1>3, <1>4, <1>5, <1>6, <1>7, ZenonT(60) DEF Next

\* ... and a step of a bank among ports of any kind, or none.
LEMMA BankSide ==
  ASSUME PartsInv, [Next]_vars
  PROVE  [BankNext]_bankVars
<1>1. ASSUME NEW p \in Ports, AcceptStep(p) \/ ErrorStep(p) \/ DeliverStep(p)
      PROVE  UNCHANGED bankVars
  BY <1>1, Zenon DEF AcceptStep, ErrorStep, DeliverStep
<1>2. ASSUME NEW p \in Ports, FillPort(p) PROVE BankNext
  BY <1>2, FillFacts, Zenon DEF BankNext
<1>3. ASSUME NEW b \in Banks, Grant(b) PROVE BankNext
  BY <1>3, GrantFacts, Zenon DEF BankNext
<1>4. ASSUME NEW b \in Banks, IssueStep(b) PROVE BankNext
  BY <1>4, Zenon DEF IssueStep, BankNext
<1>5. ASSUME NEW b \in Banks, ReturnStep(b) PROVE BankNext
  BY <1>5, Zenon DEF ReturnStep, BankNext
<1>6. ASSUME NEW b \in Banks, Hold(b) PROVE UNCHANGED bankVars
  BY <1>6, Zenon DEF Hold
<1>7. CASE UNCHANGED vars
  BY <1>7, Zenon DEF vars
<1> QED
  BY <1>1, <1>2, <1>3, <1>4, <1>5, <1>6, <1>7, ZenonT(60) DEF Next

\* No step puts anything else into an ingress FIFO.
LEMMA IngressNext ==
  ASSUME PartsInv, [Next]_vars
  PROVE  IngressInv'
<1>0. ing \in [Ports -> Seq(UNION {PortReqs(p) : p \in Ports})] /\ DOMAIN ing = Ports
  BY Zenon DEF PartsInv, PortInv, PortTypeOK
<1>1. ASSUME NEW p \in Ports, AcceptStep(p) PROVE IngressInv'
  <2>1. PICK r \in ReqsOf(p) : Accept(p, r)
    BY <1>1, Zenon DEF AcceptStep
  <2>2. ing' = [ing EXCEPT ![p] = Append(ing[p], r)]
    BY <2>1, Zenon DEF Accept
  <2>3. ASSUME NEW t \in Ports PROVE ing'[t] \in Seq(ReqsOf(t))
    <3>1. ing[t] \in Seq(ReqsOf(t)) /\ ing[p] \in Seq(ReqsOf(p))
      BY Zenon DEF PartsInv, IngressInv
    <3>2. CASE t = p
      <4>1. ing'[p] = Append(ing[p], r)
        BY <1>0, <2>2, Zenon
      <4> QED
        BY <3>1, <3>2, <4>1
    <3>3. CASE t # p
      BY <1>0, <2>2, <3>1, <3>3, Zenon
    <3> QED
      BY <3>2, <3>3, Zenon
  <2> QED
    BY <2>3, Zenon DEF IngressInv
<1>2. ASSUME NEW p \in Ports, ing[p] # <<>>, ing' = [ing EXCEPT ![p] = Tail(ing[p])] PROVE IngressInv'
  <2>1. ASSUME NEW t \in Ports PROVE ing'[t] \in Seq(ReqsOf(t))
    <3>1. ing[t] \in Seq(ReqsOf(t)) /\ ing[p] \in Seq(ReqsOf(p))
      BY Zenon DEF PartsInv, IngressInv
    <3>2. CASE t = p
      <4>1. ing'[p] = Tail(ing[p])
        BY <1>0, <1>2, Zenon
      <4> QED
        BY <1>2, <3>1, <3>2, <4>1
    <3>3. CASE t # p
      BY <1>0, <1>2, <3>1, <3>3, Zenon
    <3> QED
      BY <3>2, <3>3, Zenon
  <2> QED
    BY <2>1, Zenon DEF IngressInv
<1>3. ASSUME ing' = ing PROVE IngressInv'
  BY <1>3, Zenon DEF PartsInv, IngressInv
<1>4. ASSUME NEW p \in Ports, ErrorStep(p) PROVE IngressInv'
  BY <1>2, <1>4, Zenon DEF ErrorStep, ErrGrant, ErrReq, Alloc
<1>5. ASSUME NEW b \in Banks, Grant(b) PROVE IngressInv'
  <2>1. PICK p \in Ports : ing[p] # <<>> /\ ArbGrant(p)
    BY <1>5, GrantFacts, Zenon
  <2> QED
    BY <1>2, <2>1, Zenon DEF ArbGrant, Alloc
<1>6. ASSUME NEW p \in Ports, DeliverStep(p) \/ FillPort(p) PROVE ing' = ing
  BY <1>6, Zenon DEF DeliverStep, Deliver, FillPort, Fill
<1>7. ASSUME NEW b \in Banks, IssueStep(b) \/ ReturnStep(b) \/ Hold(b) PROVE ing' = ing
  BY <1>7, Zenon DEF IssueStep, ReturnStep, Hold, portVars
<1>8. CASE UNCHANGED vars
  BY <1>3, <1>8, Zenon DEF vars, portVars
<1> QED
  BY <1>1, <1>3, <1>4, <1>5, <1>6, <1>7, <1>8, ZenonT(60) DEF Next

-----------------------------------------------------------------------------
(***************************************************************************)
(* Every tag stays in one place.                                           *)
(***************************************************************************)
PlacesInv == OnePlaceEach(Stages, HeldIn(inq, pipe, outq), Owing(owed))

\* A grant puts an access with a new tag into a bank.
LEMMA GrantPlaces ==
  ASSUME PartsInv, NEW b \in Banks, Grant(b)
  PROVE  PlacesInv'
<1> DEFINE H == HeldIn(inq, pipe, outq)
           z == At(b, "in")
<1>1. PICK p \in Ports : \E r \in ReqsOf(p) : \E s \in Slots :
           /\ s = allocPtr[p] /\ ArbReq(p)
           /\ Push(b, PayloadOf(p, s, r)) /\ ArbGrant(p)
           /\ PayloadOf(p, s, r) \in BankReqs
  BY GrantFacts, Zenon
<1>2. PICK r \in ReqsOf(p), s \in Slots :
           /\ s = allocPtr[p] /\ ArbReq(p)
           /\ Push(b, PayloadOf(p, s, r)) /\ ArbGrant(p)
           /\ PayloadOf(p, s, r) \in BankReqs
  BY <1>1, Zenon
<1> DEFINE e == PayloadOf(p, s, r)
<1>3. e \in Entries /\ TagOf(e) = <<p, s>>
  BY <1>2, Zenon DEF Entries, TagOf, PayloadOf
<1> HIDE DEF e
<1>4. /\ inq' = [inq EXCEPT ![b] = Append(inq[b], e)]
      /\ pipe' = pipe /\ outq' = outq
      /\ owed' = [owed EXCEPT ![p] = owed[p] \union {s}]
  BY <1>2, Zenon DEF Push, ArbGrant, Alloc, e
<1>5. H \in [Stages -> Seq(Entries)] /\ z \in Stages /\ H[z] = inq[b] /\ DOMAIN inq = Banks
  BY HeldNow, Zenon
<1>6. <<p, s>> \notin Owing(owed)
  <2>1. s \notin owed[p]
    <3>1. ~RobFull(p)
      BY <1>2, Zenon DEF ArbReq
    <3>2. /\ deliverPtr[p] \in Slots /\ robCnt[p] \in 0..(EgressDepth - 1)
          /\ s = Wrap(deliverPtr[p] + robCnt[p]) /\ owed[p] \subseteq Ring(deliverPtr[p], robCnt[p])
      BY <1>2, <3>1, RoomInRing, ZenonT(60)
    <3> QED
      BY <3>2, RingAdd, Zenon
  <2> QED
    BY <2>1, Zenon DEF Owing
<1>7. Owing(owed') = Owing(owed) \union {<<p, s>>}
  <2>1. owed \in [Ports -> SUBSET Slots]
    BY Zenon DEF PartsInv, PortInv, PortTypeOK
  <2> QED
    BY <1>4, <2>1 DEF Owing
<1>8. HeldIn(inq', pipe', outq') = [H EXCEPT ![z] = Append(@, e)]
  <2>0. OthersKept(b, inq, inq')
    BY <1>4, <1>5, Zenon DEF OthersKept
  <2>1. inq'[b] = Append(H[z], e)
    BY <1>4, <1>5, Zenon
  <2>2. Wrote(H, HeldIn(inq', pipe, outq), z, inq'[b])
    BY <2>0, WriteIn, Zenon
  <2>3. HeldIn(inq', pipe, outq) = [x \in Stages |-> HeldIn(inq', pipe, outq)[x]]
    BY HeldInShape, Zenon
  <2> DEFINE G == HeldIn(inq', pipe, outq)
  <2> HIDE DEF H, z, G
  <2>4. G = [H EXCEPT ![z] = Append(@, e)]
    BY <1>5, <2>1, <2>2, <2>3, Zenon DEF G, Wrote
  <2> QED
    BY <1>4, <2>4, Zenon DEF G
<1>9. OnePlaceEach(Stages, H, Owing(owed))
  BY Zenon DEF PartsInv
<1> HIDE DEF H, z
<1>10. OnePlaceEach(Stages, [H EXCEPT ![z] = Append(@, e)], Owing(owed) \union {TagOf(e)})
  BY <1>3, <1>5, <1>6, <1>9, AddPlace, ZenonT(60)
<1> QED
  BY <1>3, <1>7, <1>8, <1>10, Zenon DEF PlacesInv

\* The access keeps its tag when the slice performs it ...
LEMMA IssuePlaces ==
  ASSUME PartsInv, NEW b \in Banks, IssueStep(b)
  PROVE  PlacesInv'
<1> DEFINE H == HeldIn(inq, pipe, outq)
           y == At(b, "in")
           z == At(b, "slice")
           x == Head(inq[b])
           rsp == [rdata |-> IF x.we THEN ZeroWord ELSE sram[b][x.word], meta |-> x.meta]
<1>1. /\ inq[b] # <<>>
      /\ inq' = [inq EXCEPT ![b] = Tail(inq[b])]
      /\ pipe' = [pipe EXCEPT ![b] = Append(pipe[b], rsp)]
      /\ outq' = outq /\ owed' = owed
  BY Zenon DEF IssueStep, Issue, CanIssue, portVars
<1>2. rsp \in Entries
  <2>0. inq[b] \in Seq(BankReqs)
    BY HeldNow, Zenon
  <2>1. x \in BankReqs
    BY <1>1, <2>0
  <2>2. x.meta \in Metas /\ sram[b][x.word] \in Word
    BY <2>1, Zenon DEF BankReqs, PartsInv, BankInv, BankTypeOK
  <2>3. ZeroWord \in Word
    BY GeometryAssumption, Zenon DEF ZeroWord, Word
  <2> QED
    BY <2>2, <2>3, Zenon DEF Entries, BankRsps
<1>3. TagOf(rsp) = TagOf(x)
  BY Zenon DEF TagOf
<1> HIDE DEF rsp
<1>4. H \in [Stages -> Seq(Entries)] /\ DOMAIN inq = Banks /\ DOMAIN pipe = Banks
  BY HeldNow, Zenon
<1>5. y \in Stages /\ H[y] = inq[b] /\ z \in Stages /\ H[z] = pipe[b] /\ y # z
  <2>1. y # z
    BY Zenon DEF At
  <2> QED
    BY <2>1, HeldNow, Zenon
<1>6. HeldIn(inq', pipe', outq') = [H EXCEPT ![y] = Tail(@), ![z] = Append(@, rsp)]
  <2> DEFINE F == HeldIn(inq', pipe, outq)
             G == HeldIn(inq', pipe', outq)
  <2>1. OthersKept(b, inq, inq') /\ OthersKept(b, pipe, pipe')
    BY <1>1, <1>4, Zenon DEF OthersKept
  <2>2. inq'[b] = Tail(H[y]) /\ pipe'[b] = Append(H[z], rsp)
    BY <1>1, <1>4, <1>5, Zenon
  <2>3. Wrote(H, F, y, inq'[b])
    BY <2>1, WriteIn, Zenon
  <2>4. Wrote(F, G, z, pipe'[b])
    BY <2>1, WriteSlice, Zenon
  <2>5. G = [x1 \in Stages |-> G[x1]]
    BY HeldInShape, Zenon
  <2> HIDE DEF H, y, z, F, G
  <2>6. G = [H EXCEPT ![y] = Tail(@), ![z] = Append(@, rsp)]
    BY <1>4, <1>5, <2>2, <2>3, <2>4, <2>5, ZenonT(60) DEF Wrote
  <2> QED
    BY <1>1, <2>6, Zenon DEF G
<1>7. OnePlaceEach(Stages, H, Owing(owed))
  BY Zenon DEF PartsInv
<1> HIDE DEF H, y, z
<1>8. OnePlaceEach(Stages, [H EXCEPT ![y] = Tail(@), ![z] = Append(@, rsp)], Owing(owed))
  BY <1>1, <1>2, <1>3, <1>4, <1>5, <1>7, MovePlace, Zenon
<1> QED
  BY <1>1, <1>6, <1>8, Zenon DEF PlacesInv

\* ... and when the result enters the output FIFO, which has room for it.
LEMMA ReturnPlaces ==
  ASSUME PartsInv, NEW b \in Banks, ReturnStep(b)
  PROVE  PlacesInv'
<1> DEFINE H == HeldIn(inq, pipe, outq)
           y == At(b, "slice")
           z == At(b, "out")
           e == Head(pipe[b])
<1>1. pipe[b] # <<>> /\ Len(outq[b]) < OutDepth
  BY RoomForResult, Zenon DEF ReturnStep, Return, PartsInv
<1>2. /\ pipe' = [pipe EXCEPT ![b] = Tail(pipe[b])]
      /\ outq' = [outq EXCEPT ![b] = Append(outq[b], e)]
      /\ inq' = inq /\ owed' = owed
  BY <1>1, Zenon DEF ReturnStep, Return, portVars
<1>3. e \in Entries
  <2>0. pipe[b] \in Seq(BankRsps)
    BY HeldNow, Zenon
  <2>1. e \in BankRsps
    BY <1>1, <2>0
  <2> QED
    BY <2>1, Zenon DEF Entries
<1> HIDE DEF e
<1>4. H \in [Stages -> Seq(Entries)] /\ DOMAIN pipe = Banks /\ DOMAIN outq = Banks
  BY HeldNow, Zenon
<1>5. y \in Stages /\ H[y] = pipe[b] /\ z \in Stages /\ H[z] = outq[b] /\ y # z
  <2>1. y # z
    BY Zenon DEF At
  <2> QED
    BY <2>1, HeldNow, Zenon
<1>6. HeldIn(inq', pipe', outq') = [H EXCEPT ![y] = Tail(@), ![z] = Append(@, e)]
  <2> DEFINE F == HeldIn(inq, pipe', outq)
             G == HeldIn(inq, pipe', outq')
  <2>1. OthersKept(b, pipe, pipe') /\ OthersKept(b, outq, outq')
    BY <1>2, <1>4, Zenon DEF OthersKept
  <2>2. pipe'[b] = Tail(H[y]) /\ outq'[b] = Append(H[z], e)
    BY <1>2, <1>4, <1>5, Zenon
  <2>3. Wrote(H, F, y, pipe'[b])
    BY <2>1, WriteSlice, Zenon
  <2>4. Wrote(F, G, z, outq'[b])
    BY <2>1, WriteOut, Zenon
  <2>5. G = [x \in Stages |-> G[x]]
    BY HeldInShape, ZenonT(60)
  <2> HIDE DEF H, y, z, F, G
  <2>6. G = [H EXCEPT ![y] = Tail(@), ![z] = Append(@, e)]
    BY <1>4, <1>5, <2>2, <2>3, <2>4, <2>5, Zenon DEF Wrote
  <2> QED
    BY <1>2, <2>6, Zenon DEF G
<1>7. OnePlaceEach(Stages, H, Owing(owed))
  BY Zenon DEF PartsInv
<1> HIDE DEF H, y, z
<1>8. OnePlaceEach(Stages, [H EXCEPT ![y] = Tail(@), ![z] = Append(@, e)], Owing(owed))
  BY <1>1, <1>3, <1>4, <1>5, <1>7, MovePlace, Zenon DEF e
<1> QED
  BY <1>2, <1>6, <1>8, Zenon DEF PlacesInv

\* A response leaves the bank for the slot that waits for it.
LEMMA FillPlaces ==
  ASSUME PartsInv, NEW p \in Ports, FillPort(p)
  PROVE  PlacesInv'
<1> DEFINE H == HeldIn(inq, pipe, outq)
<1>1. PICK b \in Banks, x \in BankRsps :
           /\ outq[b] # <<>> /\ x = Head(outq[b]) /\ x.meta.port = p
           /\ x.meta.slot \in owed[p]
           /\ Fill(p, x.meta.slot, x.rdata) /\ Pop(b)
  BY FillFacts, Zenon
<1> DEFINE z == At(b, "out")
           s == x.meta.slot
<1>2. /\ outq' = [outq EXCEPT ![b] = Tail(outq[b])]
      /\ inq' = inq /\ pipe' = pipe
      /\ owed' = [owed EXCEPT ![p] = owed[p] \ {s}]
  BY <1>1, Zenon DEF Pop, Fill
<1>3. H \in [Stages -> Seq(Entries)] /\ z \in Stages /\ H[z] = outq[b] /\ DOMAIN outq = Banks
  BY HeldNow, Zenon
<1>4. TagOf(x) = <<p, s>>
  BY <1>1, Zenon DEF TagOf
<1> HIDE DEF s
<1>5. Owing(owed') = Owing(owed) \ {<<p, s>>}
  <2>1. owed \in [Ports -> SUBSET Slots]
    BY Zenon DEF PartsInv, PortInv, PortTypeOK
  <2> QED
    BY <1>2, <2>1 DEF Owing
<1>6. HeldIn(inq', pipe', outq') = [H EXCEPT ![z] = Tail(@)]
  <2> DEFINE G == HeldIn(inq, pipe, outq')
  <2>1. OthersKept(b, outq, outq')
    BY <1>2, <1>3, Zenon DEF OthersKept
  <2>2. outq'[b] = Tail(H[z])
    BY <1>2, <1>3, Zenon
  <2>3. Wrote(H, G, z, outq'[b])
    BY <2>1, WriteOut, Zenon
  <2>4. G = [y \in Stages |-> G[y]]
    BY HeldInShape, Zenon
  <2> HIDE DEF H, z, G
  <2>5. G = [H EXCEPT ![z] = Tail(@)]
    BY <1>3, <2>2, <2>3, <2>4, Zenon DEF Wrote
  <2> QED
    BY <1>2, <2>5, Zenon DEF G
<1>7. OnePlaceEach(Stages, H, Owing(owed))
  BY Zenon DEF PartsInv
<1> HIDE DEF H, z
<1>8. OnePlaceEach(Stages, [H EXCEPT ![z] = Tail(@)], Owing(owed) \ {TagOf(Head(H[z]))})
  BY <1>1, <1>3, <1>7, DropPlace, Zenon
<1> QED
  BY <1>1, <1>3, <1>4, <1>5, <1>6, <1>8, ZenonT(60) DEF PlacesInv

\* The subsystem starts with its parts in order.
LEMMA PartsInitInv == Init => PartsInv
<1> SUFFICES ASSUME Init PROVE PartsInv
  BY Zenon
<1>1. LockInv /\ PortInv /\ BankInv
  BY LockInitInv, PortInitInv, BankInitInv, Zenon DEF Init
<1>2. IngressInv
  BY DEF Init, PortInit, IngressInv
<1>3. OnePlaceEach(Stages, HeldIn(inq, pipe, outq), Owing(owed))
  <2>1. \A b \in Banks : inq[b] = <<>> /\ pipe[b] = <<>> /\ outq[b] = <<>>
    BY Zenon DEF Init, BankInit
  <2>2. \A z \in Stages : HeldIn(inq, pipe, outq)[z] = <<>>
    BY <2>1, Zenon DEF HeldIn, Stages
  <2>3. Owing(owed) = {}
    BY Zenon DEF Init, PortInit, Owing
  <2> QED
    BY <2>2, <2>3, NoPlaces, Zenon
<1> QED
  BY <1>1, <1>2, <1>3, Zenon DEF PartsInv

\* No step of the subsystem loses or duplicates a tag.
LEMMA PlacesNext ==
  ASSUME PartsInv, [Next]_vars
  PROVE  PlacesInv'
<1>1. ASSUME UNCHANGED <<inq, pipe, outq, owed>> PROVE PlacesInv'
  BY <1>1, Zenon DEF PartsInv, PlacesInv
<1>2. ASSUME NEW p \in Ports, AcceptStep(p) PROVE PlacesInv'
  BY <1>1, <1>2, Zenon DEF AcceptStep, Accept, bankVars
<1>3. ASSUME NEW p \in Ports, ErrorStep(p) PROVE PlacesInv'
  BY <1>1, <1>3, Zenon DEF ErrorStep, ErrGrant, Alloc, bankVars
<1>4. ASSUME NEW p \in Ports, DeliverStep(p) PROVE PlacesInv'
  BY <1>1, <1>4, Zenon DEF DeliverStep, Deliver, bankVars
<1>5. ASSUME NEW b \in Banks, Hold(b) PROVE PlacesInv'
  BY <1>1, <1>5, Zenon DEF Hold, bankVars, portVars
<1>6. CASE UNCHANGED vars
  BY <1>1, <1>6, Zenon DEF vars, bankVars, portVars
<1> QED
  BY <1>2, <1>3, <1>4, <1>5, <1>6, GrantPlaces, IssuePlaces, ReturnPlaces, FillPlaces, ZenonT(60) DEF Next

\* Every step of the subsystem keeps the invariant.
LEMMA PartsNextInv == PartsInv /\ [Next]_vars => PartsInv'
<1> SUFFICES ASSUME PartsInv, [Next]_vars PROVE PartsInv'
  BY Zenon
<1>1. LockInv'
  BY LockNextInv, Zenon DEF PartsInv
<1>2. PortInv'
  BY PortSide, PortNextInv, Zenon DEF PartsInv
<1>3. BankInv'
  BY BankSide, BankNextInv, Zenon DEF PartsInv
<1>4. IngressInv' /\ PlacesInv'
  BY IngressNext, PlacesNext, Zenon
<1> QED
  BY <1>1, <1>2, <1>3, <1>4, Zenon DEF PartsInv, PlacesInv

\* One place for every tag is what TagsUnique says.
LEMMA PlacesAreTags == PartsInv => TagsUnique
<1> SUFFICES ASSUME PartsInv PROVE TagsUnique
  BY Zenon
<1> DEFINE H == HeldIn(inq, pipe, outq)
<1>1. \A z \in Stages : H[z] = Held(z)
  BY Zenon DEF HeldIn, Held, Stages
<1>2. OnePlaceEach(Stages, H, Owing(owed))
  BY Zenon DEF PartsInv
<1>3. owed \in [Ports -> SUBSET Slots]
  BY Zenon DEF PartsInv, PortInv, PortTypeOK
<1> HIDE DEF H
<1>4. \A p \in Ports : \A s \in owed[p] :
        \E z \in Stages : \E i \in DOMAIN Held(z) : TagOf(Held(z)[i]) = <<p, s>>
  <2>1. ASSUME NEW p \in Ports, NEW s \in owed[p]
        PROVE  \E z \in Stages : \E i \in DOMAIN Held(z) : TagOf(Held(z)[i]) = <<p, s>>
    <3> DEFINE w == <<p, s>>
    <3>1. w \in Owing(owed)
      BY <1>3, Zenon DEF Owing
    <3> HIDE DEF w
    <3>2. PICK z \in Stages : \E i \in DOMAIN H[z] : TagOf(H[z][i]) = w
      BY <1>2, <3>1, Zenon DEF OnePlaceEach
    <3>3. \E i \in DOMAIN Held(z) : TagOf(Held(z)[i]) = w
      BY <1>1, <3>2, Zenon
    <3> QED
      BY <3>3, Zenon DEF w
  <2> QED
    BY <2>1, Zenon
<1>5. \A z \in Stages : \A i \in DOMAIN Held(z) :
        Held(z)[i].meta.slot \in owed[Held(z)[i].meta.port]
  <2>1. ASSUME NEW z \in Stages, NEW i \in DOMAIN Held(z)
        PROVE  Held(z)[i].meta.slot \in owed[Held(z)[i].meta.port]
    <3>1. TagOf(Held(z)[i]) \in Owing(owed)
      BY <1>1, <1>2, Zenon DEF OnePlaceEach
    <3> QED
      BY <3>1, Zenon DEF TagOf, Owing
  <2> QED
    BY <2>1, Zenon
<1>6. \A y, z \in Stages : \A i \in DOMAIN Held(y), j \in DOMAIN Held(z) :
        TagOf(Held(y)[i]) = TagOf(Held(z)[j]) => y = z /\ i = j
  BY <1>1, <1>2 DEF OnePlaceEach
<1> QED
  BY <1>4, <1>5, <1>6, Zenon DEF TagsUnique

\* The ports and the banks keep their own promises when they are joined: the
\* requests the banks get are requests they can serve, and every response
\* goes to a slot that waits for one.
THEOREM PartsKeepPromises == Spec => [](RingConsistent /\ ClaimsCovered /\ NoDroppedResult)
<1>1. PartsInv => RingConsistent /\ ClaimsCovered /\ NoDroppedResult
  BY RoomForResult, Zenon DEF PartsInv, PortInv, BankInv, NoDroppedResult
<1> QED
  BY <1>1, PartsInitInv, PartsNextInv, PTL DEF Spec

\* No response is lost, duplicated or made up between a grant and the fill of
\* its slot, whatever the arbiters decide and however the banks overtake one
\* another.
THEOREM TagsAlwaysUnique == Spec => []TagsUnique
  BY PlacesAreTags, PartsInitInv, PartsNextInv, PTL DEF Spec

\* The types of the port state, as the proofs below use them.
PortFacts == /\ robCnt \in [Ports -> 0..EgressDepth] /\ deliverPtr \in [Ports -> Slots]
             /\ allocPtr \in [Ports -> Slots] /\ owed \in [Ports -> SUBSET Slots]
             /\ robLane \in [Ports -> [Slots -> Lanes]] /\ filled \in [Ports -> [Slots -> BOOLEAN]]
             /\ DOMAIN ing = Ports /\ robErr \in [Ports -> [Slots -> BOOLEAN]]

\* ... which the invariant implies.
LEMMA HavePortFacts == PartsInv => PortFacts
BY Zenon DEF PartsInv, PortInv, PortTypeOK, PortFacts

\* The slots a port waits for are neither the next one to be allocated nor
\* the next one to be delivered.
LEMMA OwedIsElsewhere ==
  ASSUME PartsInv, NEW p \in Ports, NEW s \in owed[p]
  PROVE  /\ s \in Slots /\ s \in Allocated(p) /\ ~filled[p][s]
         /\ ~RobFull(p) => s # allocPtr[p]
         /\ RValid(p) => s # deliverPtr[p]
<1>1. s \in Slots
  BY Zenon DEF PartsInv, PortInv, PortTypeOK
<1>2. s \in Allocated(p) /\ ~filled[p][s]
  BY Zenon DEF PartsInv, PortInv, RingConsistent
<1>3. ASSUME ~RobFull(p) PROVE s # allocPtr[p]
  <2>1. deliverPtr[p] \in Slots /\ robCnt[p] \in 0..(EgressDepth - 1)
    BY <1>3, RoomInRing, Zenon
  <2>2. allocPtr[p] = Wrap(deliverPtr[p] + robCnt[p])
    BY <1>3, RoomInRing, Zenon
  <2> QED
    BY <1>2, <2>1, <2>2, RingAdd DEF Allocated
<1>4. ASSUME RValid(p) PROVE s # deliverPtr[p]
  BY <1>2, <1>4, Zenon DEF RValid
<1> QED
  BY <1>1, <1>2, <1>3, <1>4, Zenon

-----------------------------------------------------------------------------
(***************************************************************************)
(* The refinement.  What an initiator sees of a slot, by where its access  *)
(* is.                                                                     *)
(***************************************************************************)
ViewsAre ==
  \A p \in Ports : \A s \in Slots :
    /\ filled[p][s] => RobView[p][s] = Done(robErr[p][s], robData[p][s])
    /\ \A b \in Banks : \A x \in Range(inq[b]) :
         TagOf(x) = <<p, s>> => RobView[p][s] = Waiting(x.meta.req)
    /\ \A b \in Banks : \A x \in Range(pipe[b]) \union Range(outq[b]) :
         TagOf(x) = <<p, s>> => RobView[p][s] = Done(FALSE, SelectLane(p, robLane[p][s], x.rdata))

\* One place for every tag, stage by stage.
LEMMA PlaceFacts ==
  ASSUME PartsInv
  PROVE  /\ \A b, c \in Banks : \A i \in DOMAIN inq[b], j \in DOMAIN inq[c] :
              TagOf(inq[b][i]) = TagOf(inq[c][j]) => b = c /\ i = j
         /\ \A b, c \in Banks : \A i \in DOMAIN pipe[b], j \in DOMAIN pipe[c] :
              TagOf(pipe[b][i]) = TagOf(pipe[c][j]) => b = c /\ i = j
         /\ \A b, c \in Banks : \A i \in DOMAIN outq[b], j \in DOMAIN outq[c] :
              TagOf(outq[b][i]) = TagOf(outq[c][j]) => b = c /\ i = j
         /\ \A b, c \in Banks : \A i \in DOMAIN inq[b], j \in DOMAIN pipe[c] :
              TagOf(inq[b][i]) # TagOf(pipe[c][j])
         /\ \A b, c \in Banks : \A i \in DOMAIN inq[b], j \in DOMAIN outq[c] :
              TagOf(inq[b][i]) # TagOf(outq[c][j])
         /\ \A b, c \in Banks : \A i \in DOMAIN pipe[b], j \in DOMAIN outq[c] :
              TagOf(pipe[b][i]) # TagOf(outq[c][j])
<1> DEFINE H == HeldIn(inq, pipe, outq)
<1>1. \A b \in Banks : /\ At(b, "in") \in Stages /\ H[At(b, "in")] = inq[b]
                       /\ At(b, "slice") \in Stages /\ H[At(b, "slice")] = pipe[b]
                       /\ At(b, "out") \in Stages /\ H[At(b, "out")] = outq[b]
  <2>1. ASSUME NEW b \in Banks
        PROVE  /\ At(b, "in") \in Stages /\ H[At(b, "in")] = inq[b]
               /\ At(b, "slice") \in Stages /\ H[At(b, "slice")] = pipe[b]
               /\ At(b, "out") \in Stages /\ H[At(b, "out")] = outq[b]
    BY ONLY b \in Banks, Zenon DEF Stages, HeldIn, At
  <2> HIDE DEF H
  <2> QED
    BY ONLY <2>1, Zenon
<1>2. \A y, z \in Stages : \A i \in DOMAIN H[y], j \in DOMAIN H[z] :
        TagOf(H[y][i]) = TagOf(H[z][j]) => y = z /\ i = j
  BY Zenon DEF PartsInv, OnePlaceEach
<1>3. \A b, c \in Banks : /\ At(b, "in") = At(c, "in") => b = c
                          /\ At(b, "slice") = At(c, "slice") => b = c
                          /\ At(b, "out") = At(c, "out") => b = c
                          /\ At(b, "in") # At(c, "slice")
                          /\ At(b, "in") # At(c, "out")
                          /\ At(b, "slice") # At(c, "out")
  BY ZenonT(60) DEF At
<1> HIDE DEF H
<1>4. \A b, c \in Banks : \A i \in DOMAIN inq[b], j \in DOMAIN inq[c] :
        TagOf(inq[b][i]) = TagOf(inq[c][j]) => b = c /\ i = j
  BY <1>1, <1>2, <1>3, SMTT(30)
<1>5. \A b, c \in Banks : \A i \in DOMAIN pipe[b], j \in DOMAIN pipe[c] :
        TagOf(pipe[b][i]) = TagOf(pipe[c][j]) => b = c /\ i = j
  BY <1>1, <1>2, <1>3, SMTT(30)
<1>6. \A b, c \in Banks : \A i \in DOMAIN outq[b], j \in DOMAIN outq[c] :
        TagOf(outq[b][i]) = TagOf(outq[c][j]) => b = c /\ i = j
  BY <1>1, <1>2, <1>3, SMTT(30)
<1>7. \A b, c \in Banks : \A i \in DOMAIN inq[b], j \in DOMAIN pipe[c] :
        TagOf(inq[b][i]) # TagOf(pipe[c][j])
  BY <1>1, <1>2, <1>3, SMTT(30)
<1>8. \A b, c \in Banks : \A i \in DOMAIN inq[b], j \in DOMAIN outq[c] :
        TagOf(inq[b][i]) # TagOf(outq[c][j])
  BY <1>1, <1>2, <1>3, SMTT(30)
<1>9. \A b, c \in Banks : \A i \in DOMAIN pipe[b], j \in DOMAIN outq[c] :
        TagOf(pipe[b][i]) # TagOf(outq[c][j])
  BY <1>1, <1>2, <1>3
<1> QED
  BY <1>4, <1>5, <1>6, <1>7, <1>8, <1>9, ZenonT(60)

\* No stage holds a tag that nobody waits for.
LEMMA TagIsOwed ==
  ASSUME PartsInv
  PROVE  /\ \A b \in Banks : \A i \in DOMAIN inq[b] : TagOf(inq[b][i]) \in Owing(owed)
         /\ \A b \in Banks : \A i \in DOMAIN pipe[b] : TagOf(pipe[b][i]) \in Owing(owed)
         /\ \A b \in Banks : \A i \in DOMAIN outq[b] : TagOf(outq[b][i]) \in Owing(owed)
<1> DEFINE H == HeldIn(inq, pipe, outq)
<1>1. \A b \in Banks : /\ At(b, "in") \in Stages /\ H[At(b, "in")] = inq[b]
                       /\ At(b, "slice") \in Stages /\ H[At(b, "slice")] = pipe[b]
                       /\ At(b, "out") \in Stages /\ H[At(b, "out")] = outq[b]
  BY StagesOf
<1>2. \A z \in Stages : \A i \in DOMAIN H[z] : TagOf(H[z][i]) \in Owing(owed)
  BY Zenon DEF PartsInv, OnePlaceEach
<1> HIDE DEF H
<1> QED
  BY <1>1, <1>2, ZenonT(60)

\* A slot that is owed has its access in a bank, before the slice or after it.
LEMMA OwedIsHeld ==
  ASSUME PartsInv, NEW p \in Ports, NEW s \in owed[p]
  PROVE  \E b \in Banks :
           \/ \E x \in Range(inq[b]) : TagOf(x) = <<p, s>>
           \/ \E x \in Range(pipe[b]) \union Range(outq[b]) : TagOf(x) = <<p, s>>
<1> DEFINE H == HeldIn(inq, pipe, outq)
           w == <<p, s>>
<1>1. w \in Owing(owed)
  BY HavePortFacts, Zenon DEF PortFacts, Owing
<1>2. \A v \in Owing(owed) : \E z \in Stages : \E i \in DOMAIN H[z] : TagOf(H[z][i]) = v
  BY Zenon DEF PartsInv, OnePlaceEach
<1> HIDE DEF w, H
<1>3. PICK z \in Stages : \E i \in DOMAIN H[z] : TagOf(H[z][i]) = w
  BY <1>1, <1>2, Zenon
<1>4. PICK b \in Banks : z = At(b, "in") \/ z = At(b, "slice") \/ z = At(b, "out")
  BY AnyStage, ZenonT(60)
<1>5. H[At(b, "in")] = inq[b] /\ H[At(b, "slice")] = pipe[b] /\ H[At(b, "out")] = outq[b]
  BY StagesOf DEF H
<1>6. \/ \E i \in DOMAIN inq[b] : TagOf(inq[b][i]) = w
      \/ \E i \in DOMAIN pipe[b] : TagOf(pipe[b][i]) = w
      \/ \E i \in DOMAIN outq[b] : TagOf(outq[b][i]) = w
  BY <1>3, <1>4, <1>5, ZenonT(60)
<1>7. \/ \E x \in Range(inq[b]) : TagOf(x) = w
      \/ \E x \in Range(pipe[b]) \union Range(outq[b]) : TagOf(x) = w
  BY <1>6, Zenon DEF Range
<1> QED
  BY <1>7, Zenon DEF w

\* A choice from a set with one element.
LEMMA OneOf ==
  ASSUME NEW S, NEW x \in S, \A y \in S : y = x
  PROVE  (CHOOSE y \in S : TRUE) = x
BY Zenon

\* The views are what ViewsAre says ...
LEMMA ViewsHold == PartsInv => ViewsAre
<1> SUFFICES ASSUME PartsInv, NEW p \in Ports, NEW s \in Slots
             PROVE  /\ filled[p][s] => RobView[p][s] = Done(robErr[p][s], robData[p][s])
                    /\ \A b \in Banks : \A x \in Range(inq[b]) :
                         TagOf(x) = <<p, s>> => RobView[p][s] = Waiting(x.meta.req)
                    /\ \A b \in Banks : \A x \in Range(pipe[b]) \union Range(outq[b]) :
                         TagOf(x) = <<p, s>> =>
                           RobView[p][s] = Done(FALSE, SelectLane(p, robLane[p][s], x.rdata))
  BY Zenon DEF ViewsAre
<1>1. RobView[p][s] = SlotView(p, s)
  BY Zenon DEF RobView
<1>2. filled[p][s] => RobView[p][s] = Done(robErr[p][s], robData[p][s])
  BY <1>1, Zenon DEF SlotView
<1>3. \A v : v \in ToAccess(p, s) <=>
        \E b \in Banks : \E i \in DOMAIN inq[b] : v = inq[b][i] /\ TagOf(v) = <<p, s>>
  BY DEF ToAccess, Tagged, Range, TagOf
<1>4. \A v : v \in Accessed(p, s) <=>
        /\ TagOf(v) = <<p, s>>
        /\ \E b \in Banks : \/ \E i \in DOMAIN pipe[b] : v = pipe[b][i]
                            \/ \E i \in DOMAIN outq[b] : v = outq[b][i]
  BY DEF Accessed, Tagged, Range, TagOf
<1>5. <<p, s>> \in Owing(owed) => ~filled[p][s]
  BY OwedIsElsewhere, Zenon DEF Owing
<1>in. \A b, c \in Banks : \A i \in DOMAIN inq[b], j \in DOMAIN inq[c] :
          TagOf(inq[b][i]) = TagOf(inq[c][j]) => b = c /\ i = j
  BY PlaceFacts, Zenon
<1>pipe. \A b, c \in Banks : \A i \in DOMAIN pipe[b], j \in DOMAIN pipe[c] :
            TagOf(pipe[b][i]) = TagOf(pipe[c][j]) => b = c /\ i = j
  BY PlaceFacts, Zenon
<1>out. \A b, c \in Banks : \A i \in DOMAIN outq[b], j \in DOMAIN outq[c] :
           TagOf(outq[b][i]) = TagOf(outq[c][j]) => b = c /\ i = j
  BY PlaceFacts, Zenon
<1>apart. /\ \A b, c \in Banks : \A i \in DOMAIN inq[b], j \in DOMAIN pipe[c] :
               TagOf(inq[b][i]) # TagOf(pipe[c][j])
          /\ \A b, c \in Banks : \A i \in DOMAIN inq[b], j \in DOMAIN outq[c] :
               TagOf(inq[b][i]) # TagOf(outq[c][j])
          /\ \A b, c \in Banks : \A i \in DOMAIN pipe[b], j \in DOMAIN outq[c] :
               TagOf(pipe[b][i]) # TagOf(outq[c][j])
  BY PlaceFacts, Zenon
<1>6. ASSUME NEW b \in Banks, NEW i \in DOMAIN inq[b], TagOf(inq[b][i]) = <<p, s>>
      PROVE  RobView[p][s] = Waiting(inq[b][i].meta.req)
  <2>1. ~filled[p][s]
    BY <1>5, <1>6, TagIsOwed, Zenon
  <2>2. inq[b][i] \in ToAccess(p, s)
    BY <1>3, <1>6, Zenon
  <2>3. ASSUME NEW v \in ToAccess(p, s) PROVE v = inq[b][i]
    <3>1. PICK c \in Banks : \E j \in DOMAIN inq[c] : v = inq[c][j] /\ TagOf(v) = <<p, s>>
      BY <1>3, Zenon
    <3>2. PICK j \in DOMAIN inq[c] : v = inq[c][j] /\ TagOf(v) = <<p, s>>
      BY <3>1, Zenon
    <3>3. TagOf(inq[c][j]) = TagOf(inq[b][i])
      BY <1>6, <3>2, Zenon
    <3> QED
      BY <1>in, <3>2, <3>3
  <2>4. (CHOOSE v \in ToAccess(p, s) : TRUE) = inq[b][i]
    BY <2>2, <2>3, OneOf, ZenonT(60)
  <2> QED
    BY <1>1, <2>1, <2>2, <2>4, Zenon DEF SlotView
<1>7. ASSUME NEW b \in Banks, NEW i \in DOMAIN pipe[b], TagOf(pipe[b][i]) = <<p, s>>
      PROVE  RobView[p][s] = Done(FALSE, SelectLane(p, robLane[p][s], pipe[b][i].rdata))
  <2>1. ~filled[p][s]
    BY <1>5, <1>7, TagIsOwed, Zenon
  <2>2. ASSUME NEW v \in ToAccess(p, s) PROVE FALSE
    <3>1. PICK c \in Banks : \E j \in DOMAIN inq[c] : v = inq[c][j] /\ TagOf(v) = <<p, s>>
      BY <1>3, Zenon
    <3>2. PICK j \in DOMAIN inq[c] : v = inq[c][j] /\ TagOf(v) = <<p, s>>
      BY <3>1, Zenon
    <3>3. TagOf(inq[c][j]) = TagOf(pipe[b][i])
      BY <1>7, <3>2, Zenon
    <3> QED
      BY <1>apart, <3>3, Zenon
  <2>3. pipe[b][i] \in Accessed(p, s)
    BY <1>4, <1>7, Zenon
  <2>4. ASSUME NEW v \in Accessed(p, s) PROVE v = pipe[b][i]
    <3>1. PICK c \in Banks : \/ \E j \in DOMAIN pipe[c] : v = pipe[c][j]
                            \/ \E j \in DOMAIN outq[c] : v = outq[c][j]
      BY <1>4, Zenon
    <3>2. TagOf(v) = TagOf(pipe[b][i])
      BY <1>4, <1>7, ZenonT(60)
    <3>3. CASE \E j \in DOMAIN pipe[c] : v = pipe[c][j]
      BY <1>pipe, <3>2, <3>3
    <3>4. CASE \E j \in DOMAIN outq[c] : v = outq[c][j]
      BY <1>apart, <3>2, <3>4, ZenonT(60)
    <3> QED
      BY <3>1, <3>3, <3>4, Zenon
  <2>5. (CHOOSE v \in Accessed(p, s) : TRUE) = pipe[b][i]
    BY <2>3, <2>4, OneOf, Zenon
  <2>6. ToAccess(p, s) = {}
    BY <2>2, ZenonT(60)
  <2> QED
    BY <1>1, <2>1, <2>5, <2>6, ZenonT(60) DEF SlotView
<1>8. ASSUME NEW b \in Banks, NEW i \in DOMAIN outq[b], TagOf(outq[b][i]) = <<p, s>>
      PROVE  RobView[p][s] = Done(FALSE, SelectLane(p, robLane[p][s], outq[b][i].rdata))
  <2>1. ~filled[p][s]
    BY <1>5, <1>8, TagIsOwed, ZenonT(60)
  <2>2. ASSUME NEW v \in ToAccess(p, s) PROVE FALSE
    <3>1. PICK c \in Banks : \E j \in DOMAIN inq[c] : v = inq[c][j] /\ TagOf(v) = <<p, s>>
      BY <1>3, Zenon
    <3>2. PICK j \in DOMAIN inq[c] : v = inq[c][j] /\ TagOf(v) = <<p, s>>
      BY <3>1, Zenon
    <3>3. TagOf(inq[c][j]) = TagOf(outq[b][i])
      BY <1>8, <3>2, Zenon
    <3> QED
      BY <1>apart, <3>3, SMTT(30)
  <2>3. outq[b][i] \in Accessed(p, s)
    BY <1>4, <1>8, Zenon
  <2>4. ASSUME NEW v \in Accessed(p, s) PROVE v = outq[b][i]
    <3>1. PICK c \in Banks : \/ \E j \in DOMAIN pipe[c] : v = pipe[c][j]
                            \/ \E j \in DOMAIN outq[c] : v = outq[c][j]
      BY <1>4, Zenon
    <3>2. TagOf(v) = TagOf(outq[b][i])
      BY <1>4, <1>8, ZenonT(60)
    <3>3. CASE \E j \in DOMAIN pipe[c] : v = pipe[c][j]
      BY <1>apart, <3>2, <3>3, SMTT(30)
    <3>4. CASE \E j \in DOMAIN outq[c] : v = outq[c][j]
      BY <1>out, <3>2, <3>4
    <3> QED
      BY <3>1, <3>3, <3>4, Zenon
  <2>5. (CHOOSE v \in Accessed(p, s) : TRUE) = outq[b][i]
    BY <2>3, <2>4, OneOf, Zenon
  <2>6. ToAccess(p, s) = {}
    BY <2>2, Zenon
  <2> QED
    BY <1>1, <2>1, <2>5, <2>6, Zenon DEF SlotView
<1>9. ASSUME NEW b \in Banks, NEW x \in Range(inq[b]), TagOf(x) = <<p, s>>
      PROVE  RobView[p][s] = Waiting(x.meta.req)
  <2>1. PICK i \in DOMAIN inq[b] : x = inq[b][i]
    BY Zenon DEF Range
  <2> QED
    BY <1>6, <1>9, <2>1, ZenonT(60)
<1>10. ASSUME NEW b \in Banks, NEW x \in Range(pipe[b]) \union Range(outq[b]), TagOf(x) = <<p, s>>
       PROVE  RobView[p][s] = Done(FALSE, SelectLane(p, robLane[p][s], x.rdata))
  <2>1. CASE x \in Range(pipe[b])
    <3>1. PICK i \in DOMAIN pipe[b] : x = pipe[b][i]
      BY <2>1, Zenon DEF Range
    <3> QED
      BY <1>7, <1>10, <3>1, ZenonT(60)
  <2>2. CASE x \in Range(outq[b])
    <3>1. PICK i \in DOMAIN outq[b] : x = outq[b][i]
      BY <2>2, Zenon DEF Range
    <3> QED
      BY <1>8, <1>10, <3>1, Zenon
  <2> QED
    BY <2>1, <2>2, Zenon
<1> QED
  BY <1>2, <1>9, <1>10, Zenon

\* The same after a step.
LEMMA ViewsHoldNext == PartsInv' => ViewsAre'
BY ViewsHold, PTL

\* Two functions on initial segments, one after the other.
LEMMA Concatenation ==
  ASSUME NEW n \in Nat, NEW m \in Nat, NEW f, NEW g, NEW S,
         f \in [1..n -> S], g \in [1..m -> S]
  PROVE  /\ f \o g \in Seq(S)
         /\ Len(f \o g) = n + m
         /\ \A i \in 1..n : (f \o g)[i] = f[i]
         /\ \A j \in 1..m : (f \o g)[n + j] = g[j]
<1>1. f \in Seq(S) /\ Len(f) = n /\ g \in Seq(S) /\ Len(g) = m
  OBVIOUS
<1>2. f \o g \in Seq(S) /\ Len(f \o g) = n + m
  BY <1>1
<1>3. \A i \in 1..n : (f \o g)[i] = f[i]
  BY <1>1, SMTT(30)
<1>4. \A j \in 1..m : (f \o g)[n + j] = g[j]
  <2> SUFFICES ASSUME NEW j \in 1..m PROVE (f \o g)[n + j] = g[j]
    BY Zenon
  <2>1. n + j \in 1..(n + m) /\ ~(n + j <= n) /\ (n + j) - n = j
    OBVIOUS
  <2> QED
    BY <1>1, <2>1
<1> QED
  BY <1>2, <1>3, <1>4, ZenonT(60)

\* The queue of a port, entry by entry.
QueuesAre ==
  \A p \in Ports :
    /\ robCnt[p] \in Nat /\ Len(ing[p]) \in Nat
    /\ Len(QueueView(p)) = robCnt[p] + Len(ing[p])
    /\ \E S : QueueView(p) \in Seq(S)
    /\ \A i \in 1..robCnt[p] : QueueView(p)[i] = RobView[p][SlotAt(p, i)]
    /\ \A j \in 1..Len(ing[p]) : QueueView(p)[robCnt[p] + j] = Waiting(ing[p][j])

\* The queues are what QueuesAre says ...
LEMMA QueuesHold == PartsInv => QueuesAre
<1> SUFFICES ASSUME PartsInv, NEW p \in Ports
             PROVE  /\ robCnt[p] \in Nat /\ Len(ing[p]) \in Nat
                    /\ Len(QueueView(p)) = robCnt[p] + Len(ing[p])
                    /\ \E S : QueueView(p) \in Seq(S)
                    /\ \A i \in 1..robCnt[p] : QueueView(p)[i] = RobView[p][SlotAt(p, i)]
                    /\ \A j \in 1..Len(ing[p]) : QueueView(p)[robCnt[p] + j] = Waiting(ing[p][j])
  BY Zenon DEF QueuesAre
<1> DEFINE n == robCnt[p]
           m == Len(ing[p])
           f == [i \in 1..n |-> RobView[p][SlotAt(p, i)]]
           g == [i \in 1..m |-> Waiting(ing[p][i])]
           S == {f[i] : i \in 1..n} \union {g[i] : i \in 1..m}
<1>1. n \in Nat /\ m \in Nat
  <2>1. ing[p] \in Seq(ReqsOf(p))
    BY Zenon DEF PartsInv, IngressInv
  <2> QED
    BY <2>1, HavePortFacts, PortAssumption DEF PortFacts
<1>2. QueueView(p) = f \o g
  BY Zenon DEF QueueView
<1>3. \A i \in 1..n : f[i] = RobView[p][SlotAt(p, i)]
  BY Zenon
<1>4. \A j \in 1..m : g[j] = Waiting(ing[p][j])
  BY Zenon
<1>5. f \in [1..n -> S] /\ g \in [1..m -> S]
  BY ZenonT(60)
<1> HIDE DEF f, g, S, n, m
<1>6. /\ Len(f \o g) = n + m
      /\ f \o g \in Seq(S)
      /\ \A i \in 1..n : (f \o g)[i] = f[i]
      /\ \A j \in 1..m : (f \o g)[n + j] = g[j]
  BY <1>1, <1>5, Concatenation, SMTT(30)
<1>7. /\ Len(QueueView(p)) = n + m
      /\ \E T : QueueView(p) \in Seq(T)
      /\ \A i \in 1..n : QueueView(p)[i] = RobView[p][SlotAt(p, i)]
      /\ \A j \in 1..m : QueueView(p)[n + j] = Waiting(ing[p][j])
  BY <1>2, <1>3, <1>4, <1>6, ZenonT(60)
<1> QED
  BY <1>1, <1>7, Zenon DEF n, m

\* ... after a step as well.
LEMMA QueuesHoldNext == PartsInv' => QueuesAre'
BY QueuesHold, PTL
=============================================================================
