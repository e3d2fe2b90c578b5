--------------------------- MODULE FlatMemProofs ----------------------------
(***************************************************************************)
(* MemSS implements InOrderMem: the initial states map to initial states,  *)
(* and every step maps to a step of the flat memory or to none.            *)
(***************************************************************************)
EXTENDS MemViewProofs

\* The port's queue after one of its entries has been answered.
Answers(p, i, e) ==
  /\ i \in 1..Len(QueueView(p))
  /\ Len(QueueView(p)') = Len(QueueView(p))
  /\ QueueView(p)'[i] = e
  /\ \A k \in 1..Len(QueueView(p)) : k # i => QueueView(p)'[k] = QueueView(p)[k]
  /\ \A t \in Ports : t # p => QueueView(t)' = QueueView(t)

\* The fields of an entry that waits.
LEMMA WaitingFields ==
  ASSUME NEW r
  PROVE  Waiting(r).st = "waiting" /\ Waiting(r).req = r
BY Zenon DEF Waiting

\* No older entry of the queue waits for the word at a.
FirstFor(p, i, a) ==
  \A j \in 1..(i - 1) :
    QueueView(p)[j].st = "waiting" => QueueView(p)[j].req.addr \div 2 # a \div 2

\* An answer as the flat memory writes it.
LEMMA AnswersQueue ==
  ASSUME PartsInv, PartsInv', NEW p \in Ports, NEW i, NEW e, Answers(p, i, e)
  PROVE  [t \in Ports |-> QueueView(t)]' = [[t \in Ports |-> QueueView(t)] EXCEPT ![p][i] = e]
<1> DEFINE u == QueueView(p)
           v == QueueView(p)'
           w == [u EXCEPT ![i] = e]
<1>1. (\E S : u \in Seq(S)) /\ (\E S : v \in Seq(S))
  BY QueuesHold, QueuesHoldNext, Zenon DEF QueuesAre
<1>2. /\ i \in 1..Len(u) /\ Len(v) = Len(u) /\ v[i] = e
      /\ \A k \in 1..Len(u) : k # i => v[k] = u[k]
      /\ \A t \in Ports : t # p => QueueView(t)' = QueueView(t)
  BY Zenon DEF Answers
<1> HIDE DEF u, v
<1>3. PICK S : u \in Seq(S)
  BY <1>1, Zenon
<1>4. (\E T : w \in Seq(T)) /\ Len(w) = Len(u) /\ \A k \in 1..Len(u) : w[k] = IF k = i THEN e ELSE u[k]
  <2> DEFINE T == S \union {e}
  <2>1. u \in Seq(T) /\ e \in T
    BY <1>3
  <2> HIDE DEF T
  <2>2. w \in Seq(T) /\ Len(w) = Len(u) /\ \A k \in 1..Len(u) : w[k] = IF k = i THEN e ELSE u[k]
    BY <1>2, <2>1
  <2> QED
    BY <2>2, ZenonT(60)
<1> HIDE DEF w
<1>5. v = w
  <2>1. \A k \in 1..Len(v) : v[k] = w[k]
    BY <1>2, <1>4, ZenonT(60)
  <2> QED
    BY <1>1, <1>2, <1>4, <2>1, SameSequence, ZenonT(60)
<1>6. ASSUME NEW t \in Ports
      PROVE  QueueView(t)' = IF t = p THEN [QueueView(p) EXCEPT ![i] = e] ELSE QueueView(t)
  BY <1>2, <1>5, Zenon DEF u, v, w
<1> QED
  BY <1>6, Zenon

\* An answer with an error to a request outside the memory is a step of the
\* flat memory.
LEMMA PerformsError ==
  ASSUME PartsInv, PartsInv', NEW p \in Ports, NEW i, NEW r,
         Answers(p, i, Done(TRUE, PortZero(p))), FirstFor(p, i, r.addr),
         QueueView(p)[i] = Waiting(r), ~Flat!Inside(r.addr), UNCHANGED sram
  PROVE  Flat!Perform(p)
<1> DEFINE Q == [t \in Ports |-> QueueView(t)]
           M == [o \in 0..(TotalHalves - 1) |-> HalfView(o)]
<1>1. Q' = [Q EXCEPT ![p][i] = Done(TRUE, PortZero(p))]
  BY AnswersQueue, ZenonT(60)
<1>2. M' = M
  BY Zenon DEF HalfView, BankOf, InBank, Off
<1>3. i \in 1..Len(Q[p]) /\ Q[p][i].st = "waiting" /\ Q[p][i].req = r
  BY DEF Answers, Waiting
<1>4. Flat!NoneBefore(p, i)
  BY <1>3, Zenon DEF Flat!NoneBefore, FirstFor
<1>5. Flat!Effect(p, i)
  <2>1. Flat!Done(TRUE, [l \in Flat!PortLanes(p) |-> 0]) = Done(TRUE, PortZero(p))
    BY Zenon DEF Flat!Done, Done, PortZero, Flat!PortLanes, PortLanes, Flat!Ports32, Ports32, Flat!Lanes, Lanes
  <2> QED
    BY <1>1, <1>2, <1>3, <2>1, ZenonT(60) DEF Flat!Effect
<1> QED
  BY <1>3, <1>4, <1>5, ZenonT(60) DEF Flat!Perform

\* The allocated slots are different slots.
LEMMA SlotsDiffer ==
  ASSUME PartsInv, NEW p \in Ports, NEW i \in 1..robCnt[p], NEW j \in 1..robCnt[p],
         SlotAt(p, i) = SlotAt(p, j)
  PROVE  i = j
<1>1. robCnt[p] \in 0..EgressDepth /\ deliverPtr[p] \in 0..(EgressDepth - 1)
  BY HavePortFacts, Zenon DEF PortFacts, Slots
<1> QED
  BY <1>1, PortAssumption, SMTT(30) DEF SlotAt, Wrap

\* A slot that an initiator sees waiting has its access in an input FIFO, in
\* the bank of its address.
LEMMA WaitingSlot ==
  ASSUME SubsystemInv, NEW p \in Ports, NEW j \in 1..robCnt[p],
         RobView[p][SlotAt(p, j)].st = "waiting"
  PROVE  \E b \in Banks : \E i \in DOMAIN inq[b] :
           /\ TagOf(inq[b][i]) = <<p, SlotAt(p, j)>>
           /\ inq[b][i].meta.req \in ReqsOf(p)
           /\ RobView[p][SlotAt(p, j)] = Waiting(inq[b][i].meta.req)
           /\ InRange(inq[b][i].meta.req.addr)
           /\ BankOf(inq[b][i].meta.req.addr) = b
<1> DEFINE s == SlotAt(p, j)
<1>1. PartsInv /\ FaithfulInv
  BY Zenon DEF SubsystemInv, WaitInv
<1>2. ViewsAre
  BY <1>1, ViewsHold, ZenonT(60)
<1>3. s \in Slots /\ (filled[p][s] \/ s \in owed[p])
  BY <1>1, SlotHeld, Zenon
<1>4. \A err, d : Done(err, d).st # "waiting"
  BY Zenon DEF Done
<1> HIDE DEF s
<1>5. RobView[p][s].st = "waiting"
  BY Zenon DEF s
<1>6. s \in owed[p]
  <2>1. ASSUME filled[p][s] PROVE FALSE
    <3>1. RobView[p][s] = Done(robErr[p][s], robData[p][s])
      BY <1>2, <1>3, <2>1, ZenonT(60) DEF ViewsAre
    <3> QED
      BY <1>4, <1>5, <3>1, ZenonT(60)
  <2> QED
    BY <1>3, <2>1, ZenonT(60)
<1>7. PICK b \in Banks : \/ \E x \in Range(inq[b]) : TagOf(x) = <<p, s>>
                         \/ \E x \in Range(pipe[b]) \union Range(outq[b]) : TagOf(x) = <<p, s>>
  BY <1>1, <1>6, OwedIsHeld, ZenonT(60)
<1>8. ASSUME NEW x \in Range(pipe[b]) \union Range(outq[b]), TagOf(x) = <<p, s>> PROVE FALSE
  <2>1. \A v \in Range(pipe[b]) \union Range(outq[b]) :
          TagOf(v) = <<p, s>> => RobView[p][s] = Done(FALSE, SelectLane(p, robLane[p][s], v.rdata))
    BY <1>2, <1>3, Zenon DEF ViewsAre
  <2>2. RobView[p][s] = Done(FALSE, SelectLane(p, robLane[p][s], x.rdata))
    BY <1>8, <2>1, ZenonT(60)
  <2> QED
    BY <1>4, <1>5, <2>2, ZenonT(60)
<1>9. PICK x \in Range(inq[b]) : TagOf(x) = <<p, s>>
  BY <1>7, <1>8, ZenonT(60)
<1>10. RobView[p][s] = Waiting(x.meta.req)
  <2>1. \A v \in Range(inq[b]) : TagOf(v) = <<p, s>> => RobView[p][s] = Waiting(v.meta.req)
    BY <1>2, <1>3, ZenonT(60) DEF ViewsAre
  <2> QED
    BY <1>9, <2>1, ZenonT(60)
<1>11. PICK i \in DOMAIN inq[b] : x = inq[b][i]
  BY Zenon DEF Range
<1>12. Faithful(b, x, robLane)
  BY <1>1, <1>11, ZenonT(60) DEF FaithfulInv
<1>13. x.meta.port = p
  BY <1>9, Zenon DEF TagOf
<1>14. x.meta.req \in ReqsOf(p) /\ InRange(x.meta.req.addr) /\ BankOf(x.meta.req.addr) = b
  BY <1>12, <1>13, Zenon DEF Faithful
<1> QED
  BY <1>9, <1>10, <1>11, <1>14, ZenonT(60) DEF s

\* An address outside the memory for the port is outside the flat memory.
LEMMA OutsideBoth ==
  ASSUME NEW a \in Addrs, ~InRange(a)
  PROVE  ~Flat!Inside(a)
<1>1. TotalHalves \in Nat /\ BaseAddr + TotalHalves <= AddrSpace /\ AddrSpace \in Nat /\ BaseAddr \in Nat
  BY GeometryAssumption DEF TotalHalves
<1> SUFFICES ASSUME a \in BaseAddr..(BaseAddr + TotalHalves - 1) PROVE FALSE
  BY Zenon DEF Flat!Inside, Flat!TotalHalves, TotalHalves
<1>2. a - BaseAddr \in Nat /\ a - BaseAddr < AddrSpace /\ a - BaseAddr < TotalHalves /\ a >= BaseAddr
  BY <1>1
<1>3. Off(a) = a - BaseAddr
  BY <1>1, <1>2, ModSmall, ZenonT(60) DEF Off
<1> QED
  BY <1>2, <1>3, Zenon DEF InRange

\* The error response is the effect of a request outside the memory.
LEMMA ErrorPerforms ==
  ASSUME SubsystemInv, SubsystemInv', NEW p \in Ports, ErrorStep(p)
  PROVE  Flat!Perform(p)
<1> DEFINE r == Head(ing[p])
           n == robCnt[p] + 1
           a == allocPtr[p]
<1>1. PartsInv /\ PartsInv'
  BY Zenon DEF SubsystemInv
<1>2. /\ ing[p] # <<>> /\ ~InRange(r.addr) /\ ~RobFull(p) /\ Alloc(p, TRUE)
      /\ UNCHANGED <<inq, pipe, outq, sram>>
  BY Zenon DEF ErrorStep, ErrGrant, ErrReq, bankVars
<1>3. r \in ReqsOf(p)
  <2>1. ing[p] \in Seq(ReqsOf(p))
    BY <1>1, Zenon DEF PartsInv, IngressInv
  <2> QED
    BY <1>2, <2>1
<1>4. r.addr \in Addrs
  BY <1>3, ReqFields, Zenon
<1>5. \A t \in Ports : \A i \in 1..robCnt[t] :
        RobView'[t][SlotAt(t, i)] = RobView[t][SlotAt(t, i)]
  BY <1>1, <1>2, AllocKeepsViews, ZenonT(60)
<1>6. RobView'[p][a] = Done(TRUE, PortZero(p))
  <2>1. ViewsAre'
    BY <1>1, ViewsHoldNext, Zenon
  <2>2. a \in Slots
    BY <1>1, NewSlot, Zenon
  <2>3. filled \in [Ports -> [Slots -> BOOLEAN]] /\ robErr \in [Ports -> [Slots -> BOOLEAN]]
    BY <1>1, HavePortFacts, ZenonT(60) DEF PortFacts
  <2>4. DOMAIN robData = Ports /\ robData[p] \in [Slots -> [PortLanes(p) -> Vals]]
    BY <1>1, ZenonT(60) DEF PartsInv, PortInv, PortTypeOK
  <2>5. /\ filled' = [filled EXCEPT ![p][a] = TRUE]
        /\ robErr' = [robErr EXCEPT ![p][a] = TRUE]
        /\ robData' = [robData EXCEPT ![p][a] = PortZero(p)]
    BY <1>2, Zenon DEF Alloc
  <2> HIDE DEF a
  <2>6. filled'[p][a] /\ robErr'[p][a] = TRUE /\ robData'[p][a] = PortZero(p)
    BY <2>2, <2>3, <2>4, <2>5, SMTT(30)
  <2>7. RobView'[p][a] = Done(robErr'[p][a], robData'[p][a])
    BY <2>1, <2>2, <2>6, ZenonT(60) DEF ViewsAre
  <2> QED
    BY <2>6, <2>7, ZenonT(60)
<1>7. /\ n \in 1..Len(QueueView(p)) /\ Len(QueueView(p)') = Len(QueueView(p))
      /\ QueueView(p)[n] = Waiting(r) /\ QueueView(p)'[n] = Done(TRUE, PortZero(p))
      /\ \A k \in 1..Len(QueueView(p)) : k # n => QueueView(p)'[k] = QueueView(p)[k]
  BY <1>1, <1>2, <1>5, <1>6, QueueAfterAlloc, ZenonT(60)
<1>8. \A t \in Ports : t # p => QueueView(t)' = QueueView(t)
  BY <1>1, <1>2, <1>5, OtherQueues, ZenonT(60)
<1>9. Answers(p, n, Done(TRUE, PortZero(p)))
  BY <1>7, <1>8, Zenon DEF Answers
<1>10. FirstFor(p, n, r.addr)
  <2> SUFFICES ASSUME NEW j \in 1..(n - 1), QueueView(p)[j].st = "waiting"
               PROVE  QueueView(p)[j].req.addr \div 2 # r.addr \div 2
    BY Zenon DEF FirstFor
  <2>1. robCnt[p] \in Nat
    BY <1>1, HavePortFacts, PortAssumption, SMTT(30) DEF PortFacts
  <2>2. j \in 1..robCnt[p]
    BY <2>1
  <2>3. QueueView(p)[j] = RobView[p][SlotAt(p, j)]
    BY <1>1, <2>2, QueuesHold, ZenonT(60) DEF QueuesAre
  <2>4. PICK b \in Banks : \E i \in DOMAIN inq[b] :
           /\ inq[b][i].meta.req \in ReqsOf(p)
           /\ RobView[p][SlotAt(p, j)] = Waiting(inq[b][i].meta.req)
           /\ InRange(inq[b][i].meta.req.addr)
    BY <2>2, <2>3, WaitingSlot, ZenonT(60)
  <2>5. PICK i \in DOMAIN inq[b] :
           /\ inq[b][i].meta.req \in ReqsOf(p)
           /\ RobView[p][SlotAt(p, j)] = Waiting(inq[b][i].meta.req)
           /\ InRange(inq[b][i].meta.req.addr)
    BY <2>4, ZenonT(60)
  <2> DEFINE c == inq[b][i].meta.req.addr
  <2>6. QueueView(p)[j].req.addr = c
    BY <2>3, <2>5, SMTT(30) DEF Waiting
  <2>7. c \in Addrs /\ InRange(c)
    BY <2>5, ReqFields, ZenonT(60)
  <2> HIDE DEF c
  <2> QED
    BY <1>2, <1>4, <2>6, <2>7, SameWordInside, ZenonT(60)
<1>11. ~Flat!Inside(r.addr)
  BY <1>2, <1>4, OutsideBoth, ZenonT(60)
<1> HIDE DEF r, n
<1> QED
  BY <1>1, <1>2, <1>7, <1>9, <1>10, <1>11, PerformsError, ZenonT(60)

\* The effect of issuing the access that port p made of the k-th entry r of
\* its queue.
ReadOut(b, r) == IF r.we THEN ZeroWord ELSE sram[b][InBank(r.addr)]

\* Its entry is answered with what the slice read, and the slice has changed.
Issued(b, p, k, r) ==
  /\ InRange(r.addr) /\ BankOf(r.addr) = b
  /\ QueueView(p)[k] = Waiting(r)
  /\ FirstFor(p, k, r.addr)
  /\ Answers(p, k, Done(FALSE, SelectLane(p, LaneOf(p, r.addr), ReadOut(b, r))))
  /\ sram' = IF r.we
             THEN [sram EXCEPT ![b][InBank(r.addr)] =
                     ApplyBe(sram[b][InBank(r.addr)], Expand(p, LaneOf(p, r.addr), r.wdata),
                             ExpandBe(p, LaneOf(p, r.addr), r.be))]
             ELSE sram

\* The access that is issued is older than every other access of its port to
\* the same word.
LEMMA IssuedIsFirst ==
  ASSUME SubsystemInv, NEW b \in Banks, inq[b] # <<>>, NEW p \in Ports, NEW k \in 1..robCnt[p],
         TagOf(inq[b][1]) = <<p, SlotAt(p, k)>>, NEW r \in ReqsOf(p), InRange(r.addr), BankOf(r.addr) = b
  PROVE  FirstFor(p, k, r.addr)
<1> SUFFICES ASSUME NEW j \in 1..(k - 1), QueueView(p)[j].st = "waiting",
                    QueueView(p)[j].req.addr \div 2 = r.addr \div 2
             PROVE  FALSE
  BY Zenon DEF FirstFor
<1>1. PartsInv /\ InOrderInv
  BY Zenon DEF SubsystemInv, WaitInv
<1>2. robCnt[p] \in Nat
  <2>1. robCnt[p] \in 0..EgressDepth
    BY <1>1, HavePortFacts, ZenonT(60) DEF PortFacts
  <2> QED
    BY ONLY <2>1, PortAssumption, SMTT(30)
<1>3. j \in 1..robCnt[p] /\ j < k
  BY <1>2
<1>4. QueueView(p)[j] = RobView[p][SlotAt(p, j)]
  BY <1>1, <1>3, QueuesHold, ZenonT(60) DEF QueuesAre
<1>5. PICK c \in Banks : \E i \in DOMAIN inq[c] :
           /\ TagOf(inq[c][i]) = <<p, SlotAt(p, j)>>
           /\ inq[c][i].meta.req \in ReqsOf(p)
           /\ RobView[p][SlotAt(p, j)] = Waiting(inq[c][i].meta.req)
           /\ InRange(inq[c][i].meta.req.addr)
           /\ BankOf(inq[c][i].meta.req.addr) = c
  BY <1>3, <1>4, WaitingSlot, ZenonT(60)
<1>6. PICK i \in DOMAIN inq[c] :
           /\ TagOf(inq[c][i]) = <<p, SlotAt(p, j)>>
           /\ inq[c][i].meta.req \in ReqsOf(p)
           /\ RobView[p][SlotAt(p, j)] = Waiting(inq[c][i].meta.req)
           /\ InRange(inq[c][i].meta.req.addr)
           /\ BankOf(inq[c][i].meta.req.addr) = c
  BY <1>5, Zenon
<1> DEFINE a == inq[c][i].meta.req.addr
<1>7. QueueView(p)[j].req.addr = a
  <2>1. QueueView(p)[j] = Waiting(inq[c][i].meta.req)
    BY ONLY <1>4, <1>6, ZenonT(60)
  <2>2. QueueView(p)[j].req = inq[c][i].meta.req
    BY ONLY <2>1, WaitingFields, ZenonT(60)
  <2> QED
    BY ONLY <2>2, Zenon
<1>8. a \in Addrs /\ r.addr \in Addrs
  BY <1>6, ReqFields, ZenonT(60)
<1>9. c = b
  <2>1. InRange(a) /\ BankOf(a) = c /\ a \div 2 = r.addr \div 2
    BY <1>6, <1>7, ZenonT(60)
  <2> HIDE DEF a
  <2> QED
    BY <1>8, <2>1, SameWordInside, ZenonT(60)
<1>10. inq[b] \in Seq(BankReqs)
  BY <1>1, ZenonT(60) DEF PartsInv, BankInv, BankTypeOK
<1>11. 1 \in DOMAIN inq[b] /\ i \in DOMAIN inq[b] /\ i \in Nat /\ i >= 1
  BY <1>9, <1>10, SMTT(30)
<1>12. CASE i = 1
  <2>1. <<p, SlotAt(p, j)>> = <<p, SlotAt(p, k)>>
    BY <1>6, <1>9, <1>12, ZenonT(60)
  <2>2. SlotAt(p, j) = SlotAt(p, k)
    BY ONLY <2>1, ZenonT(60)
  <2> QED
    BY <1>1, <1>2, <1>3, <2>2, SlotsDiffer, SMTT(30)
<1>13. CASE i # 1
  <2>1. 1 < i
    BY <1>11, <1>13, SMTT(30)
  <2>2. k < j
    BY <1>1, <1>3, <1>6, <1>9, <1>11, <2>1, ZenonT(60) DEF InOrderInv
  <2> QED
    BY <1>2, <1>3, <2>2, SMTT(30)
<1> QED
  BY <1>12, <1>13, ZenonT(60)

\* A slot that a port waits for has its place in the order.
LEMMA OwedIndex ==
  ASSUME PartsInv, NEW p \in Ports, NEW s \in owed[p]
  PROVE  \E k \in 1..robCnt[p] : s = SlotAt(p, k)
<1>1. s \in Allocated(p)
  BY OwedIsElsewhere, Zenon
<1>2. PICK i \in 0..(robCnt[p] - 1) : s = Wrap(deliverPtr[p] + i)
  BY <1>1, Zenon DEF Allocated, Ring
<1>3. robCnt[p] \in Nat /\ deliverPtr[p] \in Int
  BY HavePortFacts, PortAssumption DEF PortFacts, Slots
<1>4. i + 1 \in 1..robCnt[p] /\ deliverPtr[p] + (i + 1) - 1 = deliverPtr[p] + i
  BY <1>3
<1> QED
  BY <1>2, <1>4, ZenonT(60) DEF SlotAt

\* An issue answers the one entry whose access it performs.
LEMMA IssueAnswers ==
  ASSUME SubsystemInv, SubsystemInv', NEW b \in Banks, IssueStep(b)
  PROVE  \E p \in Ports : \E r \in ReqsOf(p) : \E k \in 1..robCnt[p] : Issued(b, p, k, r)
<1> DEFINE x == inq[b][1]
<1>1. PartsInv /\ PartsInv' /\ FaithfulInv
  BY Zenon DEF SubsystemInv, WaitInv
<1>2. inq \in [Banks -> Seq(BankReqs)] /\ pipe \in [Banks -> Seq(BankRsps)]
  BY <1>1, Zenon DEF PartsInv, BankInv, BankTypeOK
<1>3. inq[b] # <<>> /\ UNCHANGED <<outq, portVars>>
  BY Zenon DEF IssueStep, Issue, CanIssue
<1>4. 1 \in DOMAIN inq[b] /\ Head(inq[b]) = x /\ x \in BankReqs
  BY <1>2, <1>3, SMTT(30)
<1>5. Faithful(b, x, robLane)
  BY <1>1, <1>4, ZenonT(60) DEF FaithfulInv
<1> HIDE DEF x
<1>5a. PICK p \in Ports, s \in Slots : p = x.meta.port /\ s = x.meta.slot
  BY <1>5, Zenon DEF Faithful
<1>5b. PICK r \in ReqsOf(p) : r = x.meta.req
  BY <1>5, <1>5a, ZenonT(60) DEF Faithful
<1>6. /\ InRange(r.addr) /\ BankOf(r.addr) = b
      /\ x = PayloadOf(p, s, r) /\ robLane[p][s] = LaneOf(p, r.addr)
  BY <1>5, <1>5a, <1>5b, SMTT(30) DEF Faithful
<1> DEFINE y == [rdata |-> ReadOut(b, r), meta |-> x.meta]
<1>7. /\ x.we = r.we /\ x.word = InBank(r.addr)
      /\ x.wdata = Expand(p, LaneOf(p, r.addr), r.wdata)
      /\ x.be = ExpandBe(p, LaneOf(p, r.addr), r.be)
  BY <1>6, Zenon DEF PayloadOf
<1>8. s \in owed[p]
  BY <1>1, <1>4, <1>5a, WaitingIsOwed, ZenonT(60) DEF x
<1>9. PICK k \in 1..robCnt[p] : s = SlotAt(p, k)
  BY <1>1, <1>6, <1>8, OwedIndex, ZenonT(60)
<1>10. TagOf(x) = <<p, s>> /\ TagOf(y) = <<p, s>>
  BY <1>5a, Zenon DEF TagOf
<1>11. FirstFor(p, k, r.addr)
  BY <1>3, <1>6, <1>9, <1>10, IssuedIsFirst, ZenonT(60) DEF x
<1>12. /\ inq' = [inq EXCEPT ![b] = Tail(@)]
       /\ pipe' = [pipe EXCEPT ![b] = Append(@, y)]
  BY <1>4, <1>7, ZenonT(60) DEF IssueStep, Issue, ReadOut
<1>13. sram' = IF r.we
               THEN [sram EXCEPT ![b][InBank(r.addr)] =
                     ApplyBe(sram[b][InBank(r.addr)], Expand(p, LaneOf(p, r.addr), r.wdata),
                             ExpandBe(p, LaneOf(p, r.addr), r.be))]
               ELSE sram
  BY <1>4, <1>7, ZenonT(60) DEF IssueStep, Issue
<1>14. y \in BankRsps
  <2>1. pipe'[b] \in Seq(BankRsps) /\ pipe'[b] = Append(pipe[b], y)
    BY <1>1, <1>2, <1>12, SMTT(30) DEF PartsInv, BankInv, BankTypeOK
  <2>2. pipe[b] \in Seq(BankRsps)
    BY <1>2, ZenonT(60)
  <2> HIDE DEF y
  <2>3. Len(pipe[b]) + 1 \in DOMAIN pipe'[b] /\ pipe'[b][Len(pipe[b]) + 1] = y
    BY <2>1, <2>2, SMTT(30)
  <2> QED
    BY <2>1, <2>3, SMTT(30)
<1>15. /\ inq'[b] = Tail(inq[b]) /\ Range(inq[b]) = Range(inq'[b]) \union {x}
       /\ x \in Range(inq[b])
       /\ pipe'[b] = Append(pipe[b], y) /\ Range(pipe'[b]) = Range(pipe[b]) \union {y}
  <2> HIDE DEF y
  <2> QED
    BY <1>2, <1>3, <1>4, <1>12, <1>14, RangeTail, RangeAppend, SMTT(30)
<1>16. \A c \in Banks : c # b => inq'[c] = inq[c] /\ pipe'[c] = pipe[c]
  BY <1>2, <1>12, ZenonT(60)
<1>17. RobView[p][s] = Waiting(r)
  <2>1. ViewsAre
    BY <1>1, ViewsHold, ZenonT(60)
  <2>2. \A v \in Range(inq[b]) : TagOf(v) = <<p, s>> => RobView[p][s] = Waiting(v.meta.req)
    BY <1>6, <2>1, ZenonT(60) DEF ViewsAre
  <2> QED
    BY <1>10, <1>15, <1>5b, <2>2, ZenonT(60)
<1>18. RobView'[p][s] = Done(FALSE, SelectLane(p, LaneOf(p, r.addr), ReadOut(b, r)))
  <2>1. ViewsAre'
    BY <1>1, ViewsHoldNext, SMTT(30)
  <2>2. \A v \in Range(pipe'[b]) \union Range(outq'[b]) :
          TagOf(v) = <<p, s>> => RobView'[p][s] = Done(FALSE, SelectLane(p, robLane'[p][s], v.rdata))
    BY <1>6, <2>1, ZenonT(60) DEF ViewsAre
  <2>3. robLane' = robLane
    BY <1>3, ZenonT(60) DEF portVars
  <2>4. y \in Range(pipe'[b]) \union Range(outq'[b]) /\ y.rdata = ReadOut(b, r)
    BY <1>15, SMTT(30)
  <2>5. RobView'[p][s] = Done(FALSE, SelectLane(p, robLane'[p][s], y.rdata))
    BY <1>10, <2>2, <2>4, ZenonT(60)
  <2> QED
    BY <1>6, <2>3, <2>4, <2>5, ZenonT(60)
<1> HIDE DEF y
<1>19. ASSUME NEW t \in Ports, NEW i \in 1..robCnt[t], ~(t = p /\ i = k)
       PROVE  RobView'[t][SlotAt(t, i)] = RobView[t][SlotAt(t, i)]
  <2> DEFINE w == SlotAt(t, i)
  <2>1. w \in Slots /\ (filled[t][w] \/ w \in owed[t])
    BY <1>1, SlotHeld, ZenonT(60)
  <2>2. ~(t = p /\ w = s)
    BY <1>1, <1>9, <1>19, SlotsDiffer, SMTT(30)
  <2> HIDE DEF w
  <2>3. TagOf(x) # <<t, w>>
    BY <1>10, <2>2, SMTT(30)
  <2>4. ASSUME NEW c \in Banks, NEW v \in Range(inq[c]), TagOf(v) = <<t, w>>
        PROVE  v \in Range(inq'[c])
    BY <1>15, <1>16, <2>3, <2>4, SMTT(30)
  <2>5. ASSUME NEW c \in Banks, NEW v \in Range(pipe[c]) \union Range(outq[c])
        PROVE  v \in Range(pipe'[c]) \union Range(outq'[c])
    BY <1>3, <1>15, <1>16, ZenonT(60)
  <2>6. UNCHANGED <<robLane, filled, robErr, robData>>
    BY <1>3, Zenon DEF portVars
  <2>7. RobView'[t][w] = RobView[t][w]
    BY <1>1, <2>1, <2>4, <2>5, <2>6, HeldViewKept, ZenonT(60)
  <2> QED
    BY <2>7, Zenon DEF w
<1>20. ASSUME NEW t \in Ports, NEW i \in 1..robCnt[t] PROVE SlotAt(t, i)' = SlotAt(t, i)
  BY <1>3, Zenon DEF SlotAt, Wrap, portVars
<1>21. ing' = ing /\ robCnt' = robCnt
  BY <1>3, Zenon DEF portVars
<1>22. \A t \in Ports : t # p => QueueView(t)' = QueueView(t)
  BY <1>1, <1>19, <1>20, <1>21, QueueKept, SMTT(30)
<1>23. /\ QueueView(p)[k] = Waiting(r)
       /\ Answers(p, k, Done(FALSE, SelectLane(p, LaneOf(p, r.addr), ReadOut(b, r))))
  <2> DEFINE u == QueueView(p)
             v == QueueView(p)'
             n == robCnt[p]
             m == Len(ing[p])
             e == Done(FALSE, SelectLane(p, LaneOf(p, r.addr), ReadOut(b, r)))
  <2>1. QueuesAre /\ QueuesAre'
    BY <1>1, QueuesHold, QueuesHoldNext, ZenonT(60)
  <2>2. /\ n \in Nat /\ m \in Nat
        /\ Len(u) = n + m
        /\ \A i \in 1..n : u[i] = RobView[p][SlotAt(p, i)]
        /\ \A j \in 1..m : u[n + j] = Waiting(ing[p][j])
    BY <2>1, ZenonT(60) DEF QueuesAre
  <2>3. /\ Len(v) = n + m
        /\ \A i \in 1..n : v[i] = RobView'[p][SlotAt(p, i)]
        /\ \A j \in 1..m : v[n + j] = Waiting(ing[p][j])
    <3>1. /\ Len(v) = robCnt'[p] + Len(ing'[p])
          /\ \A i \in 1..robCnt'[p] : v[i] = RobView'[p][SlotAt(p, i)']
          /\ \A j \in 1..Len(ing'[p]) : v[robCnt'[p] + j] = Waiting(ing'[p][j])
      BY <2>1, Zenon DEF QueuesAre
    <3> HIDE DEF v
    <3> QED
      BY <1>20, <1>21, <2>1, <3>1, SMTT(30)
  <2>4. u[k] = Waiting(r) /\ v[k] = e
    BY <1>9, <1>17, <1>18, <2>2, <2>3, ZenonT(60)
  <2> HIDE DEF u, v, n, m, e
  <2>5. k \in 1..n
    BY Zenon DEF n
  <2>6. ASSUME NEW i \in 1..Len(u), i # k PROVE v[i] = u[i]
    <3>1. CASE i \in 1..n
      BY <1>19, <2>1, <2>2, <2>3, <2>6, <3>1, SMTT(30) DEF n
    <3>2. CASE i \notin 1..n
      <4>1. i - n \in 1..m /\ n + (i - n) = i
        BY <2>2, <3>2, SMTT(30)
      <4>2. u[n + (i - n)] = Waiting(ing[p][i - n]) /\ v[n + (i - n)] = Waiting(ing[p][i - n])
        BY <2>2, <2>3, <4>1, ZenonT(60)
      <4> QED
        BY <4>1, <4>2, ZenonT(60)
    <3> QED
      BY <3>1, <3>2, ZenonT(60)
  <2>7. k \in 1..Len(u) /\ Len(v) = Len(u)
    BY <2>2, <2>3, <2>5, SMTT(30)
  <2>8. Answers(p, k, e)
    BY <1>22, <2>4, <2>6, <2>7, ZenonT(60) DEF Answers, u, v
  <2> QED
    BY <2>4, <2>8, ZenonT(60) DEF u, e
<1>24. Issued(b, p, k, r)
  BY <1>6, <1>11, <1>13, <1>23, ZenonT(60) DEF Issued
<1> QED
  BY <1>24, Zenon

\* The half a lane of port p's data bus stands for, at address a.
LaneFor(p, a, l) == IF p \in Ports32 THEN a % 2 ELSE l

\* The half of the flat memory that a lane of a request touches.
LEMMA HalfIs ==
  ASSUME NEW p \in Ports, NEW a \in Addrs, InRange(a), NEW l \in PortLanes(p)
  PROVE  /\ Flat!Half(p, a, l) \in 0..(TotalHalves - 1)
         /\ Flat!Half(p, a, l) \div 2 = Off(a) \div 2
         /\ Flat!Half(p, a, l) % 2 = LaneFor(p, a, l)
         /\ LaneFor(p, a, l) \in Lanes
         /\ \A o \in 0..(TotalHalves - 1) :
              o = Flat!Half(p, a, l) <=> o \div 2 = Off(a) \div 2 /\ o % 2 = LaneFor(p, a, l)
<1> DEFINE u == Off(a)
<1>1. u = a - BaseAddr /\ u \in 0..(TotalHalves - 1)
  BY OffInside, Zenon
<1>2. a % 2 = u % 2
  BY LaneOfOff, Zenon
<1>3. l \in Lanes
  BY DEF PortLanes, Lanes
<1>4. Flat!Half(p, a, l) = IF p \in Ports32 THEN u ELSE 2 * (u \div 2) + l
  BY <1>1, Zenon DEF Flat!Half, Flat!Ports32, Ports32
<1> HIDE DEF u
<1>5. u % 2 \in Lanes
  BY <1>1, WordExists, ZenonT(60)
<1>6. CASE p \in Ports32
  <2>1. \A o \in 0..(TotalHalves - 1) : o = u <=> o \div 2 = u \div 2 /\ o % 2 = u % 2
    BY <1>1, <1>3, HalvesOfWord, ZenonT(60)
  <2> QED
    BY <1>1, <1>2, <1>4, <1>5, <1>6, <2>1, SMTT(30) DEF LaneFor, u
<1>7. CASE p \notin Ports32
  <2>1. /\ 2 * (u \div 2) + l \in 0..(TotalHalves - 1)
        /\ (2 * (u \div 2) + l) \div 2 = u \div 2
        /\ (2 * (u \div 2) + l) % 2 = l
        /\ \A o \in 0..(TotalHalves - 1) :
             o = 2 * (u \div 2) + l <=> o \div 2 = u \div 2 /\ o % 2 = l
    BY <1>1, <1>3, HalvesOfWord, SMTT(30)
  <2> QED
    BY <1>3, <1>4, <1>7, <2>1, ZenonT(60) DEF LaneFor, u
<1> QED
  BY <1>6, <1>7, Zenon

\* Where a half of the flat memory is.
LEMMA HalfViewIs ==
  ASSUME NEW o \in 0..(TotalHalves - 1)
  PROVE  /\ HalfView(o) = sram[(o \div 2) % NumBanks][(o \div 2) \div NumBanks][o % 2]
         /\ HalfView(o)' = sram'[(o \div 2) % NumBanks][(o \div 2) \div NumBanks][o % 2]
BY OffOf, Zenon DEF HalfView, BankOf, InBank

\* An address inside the memory for the port is inside the flat memory.
LEMMA InsideBoth ==
  ASSUME NEW a \in Addrs, InRange(a)
  PROVE  Flat!Inside(a)
<1>1. Off(a) = a - BaseAddr /\ Off(a) \in 0..(TotalHalves - 1) /\ TotalHalves \in Nat
  BY OffInside, Zenon
<1>2. a \in Nat /\ BaseAddr \in Nat
  BY GeometryAssumption DEF Addrs
<1>3. a \in BaseAddr..(BaseAddr + TotalHalves - 1)
  BY <1>1, <1>2, SMTT(30)
<1> QED
  BY <1>3, Zenon DEF Flat!Inside, Flat!TotalHalves, TotalHalves

\* What is where in the word at an address of the memory.
LEMMA WordAt ==
  ASSUME NEW a \in Addrs, InRange(a), NEW o \in 0..(TotalHalves - 1)
  PROVE  /\ BankOf(a) \in Banks /\ InBank(a) \in Words
         /\ (o \div 2) % NumBanks \in Banks /\ (o \div 2) \div NumBanks \in Words /\ o % 2 \in Lanes
         /\ (o \div 2) % NumBanks = BankOf(a) /\ (o \div 2) \div NumBanks = InBank(a)
              <=> o \div 2 = Off(a) \div 2
<1> DEFINE u == Off(a)
<1>1. u \in 0..(TotalHalves - 1)
  BY OffInside, Zenon
<1>2. BankOf(a) = (u \div 2) % NumBanks /\ InBank(a) = (u \div 2) \div NumBanks
  BY Zenon DEF BankOf, InBank
<1> HIDE DEF u
<1> QED
  BY <1>1, <1>2, SameWord, WordExists, SMTT(30) DEF u

\* The lanes of a response are the halves of the flat memory.
LEMMA ReadData ==
  ASSUME PartsInv, NEW p \in Ports, NEW a \in Addrs, InRange(a), NEW l \in PortLanes(p)
  PROVE  SelectLane(p, LaneOf(p, a), sram[BankOf(a)][InBank(a)])[l] = HalfView(Flat!Half(p, a, l))
<1> DEFINE o == Flat!Half(p, a, l)
           w == sram[BankOf(a)][InBank(a)]
<1>1. o \in 0..(TotalHalves - 1) /\ o \div 2 = Off(a) \div 2 /\ o % 2 = LaneFor(p, a, l)
  BY HalfIs, Zenon
<1> HIDE DEF o
<1>2. (o \div 2) % NumBanks = BankOf(a) /\ (o \div 2) \div NumBanks = InBank(a)
  BY <1>1, WordAt, Zenon
<1>3. HalfView(o) = w[LaneFor(p, a, l)]
  BY <1>1, <1>2, HalfViewIs, ZenonT(60)
<1>4. SelectLane(p, LaneOf(p, a), w)[l] = w[LaneFor(p, a, l)]
  <2> HIDE DEF w
  <2>1. CASE p \in Ports32
    <3>1. l \in 0..0
      BY <2>1, Zenon DEF PortLanes
    <3> QED
      BY <2>1, <3>1, ZenonT(60) DEF SelectLane, LaneOf, LaneFor
  <2>2. CASE p \notin Ports32
    BY <2>2, Zenon DEF SelectLane, LaneFor
  <2> QED
    BY <2>1, <2>2, ZenonT(60)
<1> QED
  BY <1>3, <1>4, ZenonT(60) DEF o

\* A response has one half for each lane of the port.
LEMMA SelectDomain ==
  ASSUME NEW p \in Ports, NEW lane, NEW w \in Word
  PROVE  SelectLane(p, lane, w) = [l \in PortLanes(p) |-> SelectLane(p, lane, w)[l]]
<1>1. CASE p \in Ports32
  BY <1>1, Zenon DEF SelectLane, PortLanes
<1>2. CASE p \notin Ports32
  BY <1>2, ZenonT(60) DEF SelectLane, PortLanes, Word
<1> QED
  BY <1>1, <1>2, ZenonT(60)

\* Issuing a read is a step of the flat memory.
LEMMA ReadPerforms ==
  ASSUME PartsInv, PartsInv', NEW b \in Banks, NEW p \in Ports, NEW r \in ReqsOf(p), NEW k,
         Issued(b, p, k, r), ~r.we
  PROVE  Flat!Perform(p)
<1> DEFINE Q == [t \in Ports |-> QueueView(t)]
           M == [o \in 0..(TotalHalves - 1) |-> HalfView(o)]
           a == r.addr
           e == Done(FALSE, SelectLane(p, LaneOf(p, a), sram[b][InBank(a)]))
<1>1. /\ InRange(a) /\ BankOf(a) = b /\ QueueView(p)[k] = Waiting(r) /\ FirstFor(p, k, a)
      /\ Answers(p, k, e) /\ sram' = sram
  BY Zenon DEF Issued, ReadOut
<1>2. a \in Addrs
  BY ReqFields, Zenon
<1>3. Q' = [Q EXCEPT ![p][k] = e]
  BY <1>1, AnswersQueue, ZenonT(60)
<1>4. M' = M
  BY <1>1, Zenon DEF HalfView, BankOf, InBank, Off
<1>5. k \in 1..Len(Q[p]) /\ Q[p][k].st = "waiting" /\ Q[p][k].req = r
  BY <1>1, WaitingFields, Zenon DEF Answers
<1>6. Flat!NoneBefore(p, k)
  BY <1>1, <1>5, ZenonT(60) DEF Flat!NoneBefore, FirstFor
<1>7. e = Flat!Done(FALSE, [l \in Flat!PortLanes(p) |-> M[Flat!Half(p, a, l)]])
  <2> DEFINE d == SelectLane(p, LaneOf(p, a), sram[b][InBank(a)])
  <2>1. sram[b][InBank(a)] \in Word
    <3>1. BankOf(a) \in Banks /\ InBank(a) \in Words
      <4>1. 0 \in 0..(TotalHalves - 1)
        BY <1>1, <1>2, OffInside, SMTT(30)
      <4> QED
        BY <1>1, <1>2, <4>1, WordAt, ZenonT(60)
    <3> QED
      BY <1>1, <3>1, ZenonT(60) DEF PartsInv, BankInv, BankTypeOK
  <2>2. d = [l \in PortLanes(p) |-> d[l]]
    BY <2>1, SelectDomain, ZenonT(60)
  <2>3. \A l \in PortLanes(p) : d[l] = M[Flat!Half(p, a, l)]
    BY <1>1, <1>2, ReadData, HalfIs, SMTT(30)
  <2> HIDE DEF d, M
  <2>4. d = [l \in PortLanes(p) |-> M[Flat!Half(p, a, l)]]
    BY <2>2, <2>3, ZenonT(60)
  <2>5. Flat!PortLanes(p) = PortLanes(p)
    BY Zenon DEF Flat!PortLanes, PortLanes, Flat!Ports32, Ports32, Flat!Lanes, Lanes
  <2> QED
    BY <2>4, <2>5, ZenonT(60) DEF Flat!Done, Done, d
<1>8. Flat!Inside(a)
  BY <1>1, <1>2, InsideBoth, ZenonT(60)
<1>9. Flat!Effect(p, k)
  <2>1. Flat!Inside(Q[p][k].req.addr) /\ ~Q[p][k].req.we
    BY <1>5, <1>8, ZenonT(60)
  <2>2. e = Flat!Done(FALSE, [l \in Flat!PortLanes(p) |-> M[Flat!Half(p, Q[p][k].req.addr, l)]])
    <3>1. Q[p][k].req.addr = a
      BY <1>5, ZenonT(60)
    <3> HIDE DEF e, M, Q, a
    <3> QED
      BY <1>7, <3>1, ZenonT(60)
  <2> HIDE DEF e
  <2>3. Q' = [Q EXCEPT ![p][k] =
                Flat!Done(FALSE, [l \in Flat!PortLanes(p) |-> M[Flat!Half(p, Q[p][k].req.addr, l)]])]
    BY <1>3, <2>2, ZenonT(60)
  <2> QED
    BY <1>4, <2>1, <2>3, ZenonT(60) DEF Flat!Effect
<1> QED
  BY <1>5, <1>6, <1>9, SMTT(30) DEF Flat!Perform

\* The halves a write enables, and what it puts there.
LEMMA ExpandIs ==
  ASSUME NEW p \in Ports, NEW r \in ReqsOf(p), NEW j \in Lanes
  PROVE  /\ j \in ExpandBe(p, LaneOf(p, r.addr), r.be) <=> \E l \in r.be : j = LaneFor(p, r.addr, l)
         /\ \A l \in r.be : j = LaneFor(p, r.addr, l) =>
              Expand(p, LaneOf(p, r.addr), r.wdata)[j] = r.wdata[l]
<1>1. r.be \in SUBSET PortLanes(p) /\ r.wdata \in [PortLanes(p) -> Vals]
  BY ReqFields, ZenonT(60)
<1>2. CASE p \in Ports32
  <2>1. LaneOf(p, r.addr) = r.addr % 2 /\ \A l : LaneFor(p, r.addr, l) = r.addr % 2
    BY <1>2, ZenonT(60) DEF LaneOf, LaneFor
  <2>2. \A l \in r.be : l = 0
    BY <1>1, <1>2, SMTT(30) DEF PortLanes
  <2> DEFINE h == r.addr % 2
  <2> HIDE DEF h
  <2>3. j \in {h : l \in r.be} <=> \E l \in r.be : j = h
    BY Zenon
  <2>4. j = h => [ZeroWord EXCEPT ![h] = r.wdata[0]][j] = r.wdata[0]
    BY Zenon DEF ZeroWord
  <2> QED
    BY <1>2, <2>1, <2>2, <2>3, <2>4, SMTT(30) DEF Expand, ExpandBe, h
<1>3. CASE p \notin Ports32
  BY <1>3, ZenonT(60) DEF Expand, ExpandBe, LaneFor
<1> QED
  BY <1>2, <1>3, ZenonT(60)

\* A write reaches the halves its request enables and no others, although a
\* 32-bit port writes through half of a 64-bit word.
LEMMA WriteHalf ==
  ASSUME PartsInv, NEW b \in Banks, NEW p \in Ports, NEW r \in ReqsOf(p), NEW k,
         Issued(b, p, k, r), r.we, NEW o \in 0..(TotalHalves - 1)
  PROVE  HalfView(o)' = IF o \in {Flat!Half(p, r.addr, l) : l \in r.be}
                        THEN r.wdata[CHOOSE l \in r.be : Flat!Half(p, r.addr, l) = o]
                        ELSE HalfView(o)
<1> DEFINE a == r.addr
           old == sram[b][InBank(a)]
           D == Expand(p, LaneOf(p, a), r.wdata)
           B == ExpandBe(p, LaneOf(p, a), r.be)
           W == ApplyBe(old, D, B)
           c == (o \div 2) % NumBanks
           w == (o \div 2) \div NumBanks
           j == o % 2
<1>1. InRange(a) /\ BankOf(a) = b /\ sram' = [sram EXCEPT ![b][InBank(a)] = W]
  BY Zenon DEF Issued
<1>2. a \in Addrs /\ r.be \in SUBSET PortLanes(p)
  BY ReqFields, ZenonT(60)
<1>3. /\ InBank(a) \in Words /\ c \in Banks /\ w \in Words /\ j \in Lanes
      /\ c = b /\ w = InBank(a) <=> o \div 2 = Off(a) \div 2
  BY <1>1, <1>2, WordAt, SMTT(30)
<1>4. sram \in [Banks -> [Words -> Word]]
  BY Zenon DEF PartsInv, BankInv, BankTypeOK
<1>5. HalfView(o) = sram[c][w][j] /\ HalfView(o)' = sram'[c][w][j]
  BY HalfViewIs, Zenon
<1>6. W[j] = IF j \in B THEN D[j] ELSE old[j]
  BY <1>3, ZenonT(60) DEF ApplyBe
<1>7. /\ j \in B <=> \E l \in r.be : j = LaneFor(p, a, l)
      /\ \A l \in r.be : j = LaneFor(p, a, l) => D[j] = r.wdata[l]
  <2>1. j \in Lanes
    BY <1>3, Zenon
  <2> HIDE DEF j
  <2> QED
    BY ONLY p \in Ports, r \in ReqsOf(p), <2>1, ExpandIs, SMTT(30)
<1>8. \A l \in r.be : o = Flat!Half(p, a, l) <=> o \div 2 = Off(a) \div 2 /\ j = LaneFor(p, a, l)
  BY <1>1, <1>2, HalfIs, ZenonT(60)
<1> HIDE DEF W, D, B, c, w, j, a
<1>9. sram'[c][w] = IF c = b /\ w = InBank(a) THEN W ELSE sram[c][w]
  BY <1>1, <1>3, <1>4, ZenonT(60)
<1>10. CASE o \in {Flat!Half(p, a, l) : l \in r.be}
  <2> DEFINE m == CHOOSE l \in r.be : Flat!Half(p, a, l) = o
  <2>1. m \in r.be /\ Flat!Half(p, a, m) = o
    BY <1>10, Zenon
  <2> HIDE DEF m
  <2>2. o \div 2 = Off(a) \div 2 /\ j = LaneFor(p, a, m)
    BY <1>8, <2>1, ZenonT(60)
  <2>3. W[j] = r.wdata[m]
    BY <1>6, <1>7, <2>1, <2>2, ZenonT(60)
  <2>4. HalfView(o)' = r.wdata[m]
    BY <1>3, <1>5, <1>9, <2>2, <2>3, ZenonT(60)
  <2> QED
    BY <1>10, <2>4, Zenon DEF m, a
<1>11. CASE o \notin {Flat!Half(p, a, l) : l \in r.be}
  <2>1. CASE o \div 2 = Off(a) \div 2
    <3>1. j \notin B
      BY <1>7, <1>8, <1>11, <2>1, Zenon
    <3>2. W[j] = sram[c][w][j]
      BY <1>3, <1>6, <2>1, <3>1, Zenon
    <3> QED
      BY <1>3, <1>5, <1>9, <1>11, <2>1, <3>2, Zenon DEF a
  <2>2. CASE o \div 2 # Off(a) \div 2
    BY <1>3, <1>5, <1>9, <1>11, <2>2, Zenon DEF a
  <2> QED
    BY <2>1, <2>2, ZenonT(60)
<1> QED
  BY <1>10, <1>11, ZenonT(60)

\* Issuing a write is a step of the flat memory.
LEMMA WritePerforms ==
  ASSUME PartsInv, PartsInv', NEW b \in Banks, NEW p \in Ports, NEW r \in ReqsOf(p), NEW k,
         Issued(b, p, k, r), r.we
  PROVE  Flat!Perform(p)
<1> DEFINE Q == [t \in Ports |-> QueueView(t)]
           M == [o \in 0..(TotalHalves - 1) |-> HalfView(o)]
           a == r.addr
           z == Q[p][k].req
           e == Flat!Done(FALSE, [l \in Flat!PortLanes(p) |-> 0])
<1>1. /\ InRange(a) /\ BankOf(a) = b /\ QueueView(p)[k] = Waiting(r) /\ FirstFor(p, k, a)
      /\ Answers(p, k, Done(FALSE, SelectLane(p, LaneOf(p, a), ZeroWord)))
  BY Zenon DEF Issued, ReadOut
<1>2. Done(FALSE, SelectLane(p, LaneOf(p, a), ZeroWord)) = e
  <2>1. r.addr \in Nat /\ LaneOf(p, a) \in Lanes
    BY ReqFields, Zenon
  <2>2. SelectLane(p, LaneOf(p, a), ZeroWord) = [l \in PortLanes(p) |-> 0]
    <3>1. CASE p \in Ports32
      BY <2>1, <3>1, Zenon DEF SelectLane, ZeroWord, PortLanes
    <3>2. CASE p \notin Ports32
      BY <3>2, Zenon DEF SelectLane, ZeroWord, PortLanes
    <3> QED
      BY <3>1, <3>2, Zenon
  <2>3. Flat!PortLanes(p) = PortLanes(p)
    BY Zenon DEF Flat!PortLanes, PortLanes, Flat!Ports32, Ports32, Flat!Lanes, Lanes
  <2> QED
    BY <2>2, <2>3, Zenon DEF Flat!Done, Done
<1>3. Q' = [Q EXCEPT ![p][k] = e]
  <2>1. Answers(p, k, e)
    BY <1>1, <1>2, Zenon
  <2> HIDE DEF e
  <2> QED
    BY <2>1, AnswersQueue, Zenon
<1>4. k \in 1..Len(Q[p]) /\ Q[p][k].st = "waiting" /\ z = r
  BY <1>1, WaitingFields, Zenon DEF Answers
<1>5. Flat!NoneBefore(p, k)
  BY <1>1, <1>4, Zenon DEF Flat!NoneBefore, FirstFor
<1>6. Flat!Inside(a)
  BY <1>1, ReqFields, InsideBoth, Zenon
<1>7. ASSUME NEW o \in 0..(TotalHalves - 1)
      PROVE  HalfView(o)' = IF o \in {Flat!Half(p, r.addr, l) : l \in r.be}
                            THEN r.wdata[CHOOSE l \in r.be : Flat!Half(p, r.addr, l) = o]
                            ELSE HalfView(o)
  BY WriteHalf, Zenon
<1>8. M' = [o \in DOMAIN M |-> IF o \in {Flat!Half(p, z.addr, l) : l \in z.be}
                               THEN z.wdata[CHOOSE l \in z.be : Flat!Half(p, z.addr, l) = o]
                               ELSE M[o]]
  <2> HIDE DEF z
  <2> QED
    BY <1>4, <1>7, Zenon
<1>9. Flat!Effect(p, k)
  <2>1. Flat!Inside(z.addr) /\ z.we
    BY <1>4, <1>6, Zenon
  <2> QED
    BY <1>3, <1>8, <2>1, Zenon DEF Flat!Effect
<1> QED
  BY <1>4, <1>5, <1>9, Zenon DEF Flat!Perform

\* The subsystem starts as an empty flat memory.
LEMMA FlatInitial == Init => Flat!MemInit
<1> SUFFICES ASSUME Init PROVE Flat!MemInit
  BY Zenon
<1>1. \A p \in Ports : QueueView(p) = <<>>
  BY DEF Init, PortInit, QueueView
<1>2. [p \in Ports |-> QueueView(p)] = [p \in Ports |-> <<>>]
  BY <1>1, Zenon
<1>3. ASSUME NEW o \in 0..(TotalHalves - 1) PROVE HalfView(o) = 0
  <2>1. sram = [b \in Banks |-> [w \in Words |-> ZeroWord]]
    BY Zenon DEF Init, BankInit
  <2> QED
    BY <2>1, HalfViewIs, WordExists DEF ZeroWord
<1>4. [o \in 0..(TotalHalves - 1) |-> HalfView(o)] = [o \in 0..(TotalHalves - 1) |-> 0]
  BY <1>3, Zenon
<1> QED
  BY <1>2, <1>4, Zenon DEF Flat!MemInit, Flat!Ports, Flat!TotalHalves, Ports, TotalHalves

\* What no initiator sees and no slice holds is no step of the flat memory.
LEMMA FlatStutters ==
  ASSUME \A t \in Ports : QueueView(t)' = QueueView(t), UNCHANGED sram
  PROVE  UNCHANGED Flat!memVars
<1>1. [t \in Ports |-> QueueView(t)]' = [t \in Ports |-> QueueView(t)]
  BY Zenon
<1>2. [o \in 0..(TotalHalves - 1) |-> HalfView(o)]' = [o \in 0..(TotalHalves - 1) |-> HalfView(o)]
  BY Zenon DEF HalfView, BankOf, InBank, Off
<1> QED
  BY <1>1, <1>2, Zenon DEF Flat!memVars

\* Accepting a request is a step of the flat memory.
LEMMA FlatAccepts ==
  ASSUME SubsystemInv, SubsystemInv', NEW p \in Ports, AcceptStep(p)
  PROVE  Flat!MemNext
<1> DEFINE Q == [t \in Ports |-> QueueView(t)]
           M == [o \in 0..(TotalHalves - 1) |-> HalfView(o)]
<1>1. PICK r \in ReqsOf(p) : Accept(p, r)
  BY Zenon DEF AcceptStep
<1>2. UNCHANGED bankVars /\ UNCHANGED sram /\ PartsInv /\ PartsInv'
  BY Zenon DEF AcceptStep, bankVars, SubsystemInv
<1>3. /\ QueueView(p)' = Append(QueueView(p), Waiting(r))
      /\ \A t \in Ports : t # p => QueueView(t)' = QueueView(t)
  BY <1>1, <1>2, AcceptAppends, Zenon
<1>4. Q' = [Q EXCEPT ![p] = Append(@, Waiting(r))]
  BY <1>3, Zenon
<1>5. M' = M
  BY <1>2, Zenon DEF HalfView, BankOf, InBank, Off
<1>6. Flat!MemAccept(p, r)
  BY <1>4, <1>5, Zenon DEF Flat!MemAccept, Flat!Waiting, Waiting
<1> QED
  BY <1>6, Zenon DEF Flat!MemNext, Flat!Ports, Ports

\* Delivering a response is a step of the flat memory.
LEMMA FlatResponds ==
  ASSUME SubsystemInv, SubsystemInv', NEW p \in Ports, DeliverStep(p)
  PROVE  Flat!MemNext
<1> DEFINE Q == [t \in Ports |-> QueueView(t)]
           M == [o \in 0..(TotalHalves - 1) |-> HalfView(o)]
<1>1. Deliver(p) /\ UNCHANGED bankVars /\ UNCHANGED sram /\ PartsInv /\ PartsInv'
  BY Zenon DEF DeliverStep, bankVars, SubsystemInv
<1>2. /\ QueueView(p) # <<>>
      /\ Head(QueueView(p)) = Done(robErr[p][deliverPtr[p]], robData[p][deliverPtr[p]])
      /\ QueueView(p)' = Tail(QueueView(p))
      /\ \A t \in Ports : t # p => QueueView(t)' = QueueView(t)
  BY <1>1, DeliverTakesHead, Zenon
<1>3. Q' = [Q EXCEPT ![p] = Tail(@)]
  BY <1>2, Zenon
<1>4. M' = M
  BY <1>1, Zenon DEF HalfView, BankOf, InBank, Off
<1>5. Q[p] # <<>> /\ Head(Q[p]).st = "done"
  BY <1>2 DEF Done
<1>6. Flat!Respond(p)
  BY <1>3, <1>4, <1>5, Zenon DEF Flat!Respond
<1> QED
  BY <1>6, Zenon DEF Flat!MemNext, Flat!Ports, Ports

\* Performing a request is a step of the flat memory.
LEMMA FlatPerforms ==
  ASSUME NEW p \in Ports, Flat!Perform(p)
  PROVE  Flat!MemNext
BY Zenon DEF Flat!MemNext, Flat!Ports, Ports

\* Every step of the subsystem is a step of the flat memory, or none.
LEMMA FlatStep ==
  SubsystemInv /\ SubsystemInv' /\ [Next]_vars => [Flat!MemNext]_Flat!memVars
<1> SUFFICES ASSUME SubsystemInv, SubsystemInv', [Next]_vars
             PROVE  Flat!MemNext \/ UNCHANGED Flat!memVars
  BY Zenon
<1>1. PartsInv /\ PartsInv'
  BY Zenon DEF SubsystemInv
<1>2. ASSUME NEW p \in Ports, FillPort(p) PROVE UNCHANGED Flat!memVars
  BY <1>1, <1>2, FillStutters, FlatStutters
<1>3. ASSUME NEW b \in Banks, IssueStep(b) PROVE Flat!MemNext
  <2>1. PICK p \in Ports : \E r \in ReqsOf(p) : \E k \in 1..robCnt[p] : Issued(b, p, k, r)
    BY <1>3, IssueAnswers, Zenon
  <2>2. PICK r \in ReqsOf(p) : \E k \in 1..robCnt[p] : Issued(b, p, k, r)
    BY <2>1, Zenon
  <2>3. PICK k \in 1..robCnt[p] : Issued(b, p, k, r)
    BY <2>2, Zenon
  <2>4. Flat!Perform(p)
    BY <1>1, <2>3, ReadPerforms, WritePerforms, Zenon
  <2> QED
    BY <2>4, FlatPerforms, Zenon
<1>4. ASSUME NEW b \in Banks, ReturnStep(b) PROVE UNCHANGED Flat!memVars
  <2>1. UNCHANGED sram
    BY <1>4, Zenon DEF ReturnStep, Return
  <2> QED
    BY <1>1, <1>4, <2>1, ReturnStutters, FlatStutters
<1>5. ASSUME NEW b \in Banks, Hold(b) PROVE UNCHANGED Flat!memVars
  <2>1. UNCHANGED <<portVars, bankVars>> /\ UNCHANGED sram
    BY <1>5, Zenon DEF Hold, bankVars
  <2> QED
    BY <1>1, <2>1, NothingSeen, FlatStutters
<1>6. ASSUME NEW b \in Banks, Grant(b) PROVE UNCHANGED Flat!memVars
  BY <1>1, <1>6, GrantStutters, FlatStutters
<1>7. CASE UNCHANGED vars
  <2>1. UNCHANGED <<portVars, bankVars>> /\ UNCHANGED sram
    BY <1>7, Zenon DEF vars, bankVars
  <2> QED
    BY <1>1, <2>1, NothingSeen, FlatStutters
<1>8. ASSUME NEW p \in Ports, AcceptStep(p) \/ ErrorStep(p) \/ DeliverStep(p) PROVE Flat!MemNext
  BY <1>8, FlatAccepts, FlatResponds, ErrorPerforms, FlatPerforms
<1> QED
  BY <1>2, <1>3, <1>4, <1>5, <1>6, <1>7, <1>8 DEF Next

\* soc_mem_ss is one flat memory behind every port: whatever the widths of the
\* ports, the number and depth of the banks and the latency of the slices, its
\* initiators cannot tell the ports, arbiters, banks and reorder buffers from a
\* memory that takes each request at once, the requests of one port to one word
\* in the order they were made, and answers every port in order.
THEOREM SubsystemIsFlatMemory == Spec => ImplementsFlatMemory
<1>1. SubsystemInv /\ [Next]_vars => SubsystemInv'
  BY SubsystemNextInv, Zenon
<1>2. Spec => []SubsystemInv
  BY <1>1, SubsystemInitInv, PTL DEF Spec
<1> QED
  BY <1>2, FlatInitial, FlatStep, PTL DEF Spec, ImplementsFlatMemory, Flat!MemSpec
=============================================================================
