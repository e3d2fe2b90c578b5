--------------------------- MODULE BridgesProofs ----------------------------
(***************************************************************************)
(* Proofs about the bridges between AXI and what lies behind it.           *)
(*                                                                         *)
(* AxiToMem, for every set of ids and addresses and every depth of the     *)
(* FIFOs.  InStep is the inductive invariant; the assertions of            *)
(* soc_axi_to_mem.sv and the in-order promise follow from it.              *)
(*                                                                         *)
(* MCBridges: the three single-beat bridges, for every set of beats the    *)
(* initiator may offer.  BridgesInv says what a bridge has done in each    *)
(* state of its machine, TurnInv whose turn it is.                         *)
(***************************************************************************)
EXTENDS AxiToMem, MCBridges, SequenceTheorems, TLAPS

\* r is what FIFO q of elements of S holds after an edge.
IsEdgeOf(r, q, S, push, x, pop) ==
  /\ r \in Seq(S)
  /\ Len(r) = Len(q) + Count(push) - Count(pop)
  /\ \A i \in 1..(Len(q) - Count(pop)) : r[i] = q[i + Count(pop)]
  /\ push => r[Len(q) + 1 - Count(pop)] = x

\* One edge of a fifo_v3: what its storage holds, and in which order.
LEMMA AfterEdgeFacts ==
  ASSUME NEW S, NEW q \in Seq(S), NEW x,
         NEW push \in BOOLEAN, NEW pop \in BOOLEAN,
         push => x \in S,
         pop => q # <<>>
  PROVE  IsEdgeOf(AfterEdge(q, push, x, pop), q, S, push, x, pop)
<1>1. CASE pop /\ push
  BY <1>1 DEF AfterEdge, Count, IsEdgeOf
<1>2. CASE pop /\ ~push
  BY <1>2 DEF AfterEdge, Count, IsEdgeOf
<1>3. CASE ~pop /\ push
  BY <1>3 DEF AfterEdge, Count, IsEdgeOf
<1>4. CASE ~pop /\ ~push
  BY <1>4, SMTT(30) DEF AfterEdge, Count, IsEdgeOf
<1> QED
  BY <1>1, <1>2, <1>3, <1>4, Zenon

\* An edge of engine e leaves its FIFOs in step.
LEMMA EdgeOfEngine ==
  ASSUME InStep, NEW e \in Engines, NEW in \in Inputs, Edge(e, in)
  PROVE  /\ reqq'[e] \in Seq(AxiAddrs) /\ idq'[e] \in Seq(Ids) /\ rspq'[e] \in Seq(Rsps)
         /\ mem'[e] \in Seq(AxiAddrs) /\ acc'[e] \in Seq(Txns)
         /\ Len(reqq'[e]) <= ReqDepth /\ Len(rspq'[e]) <= RspDepth
         /\ Len(idq'[e]) <= MaxOutstanding /\ Len(mem'[e]) <= MaxOutstanding
         /\ pending_q'[e] = Len(mem'[e]) /\ outstanding'[e] = Len(acc'[e])
         /\ Aligned(e)'
<1> DEFINE admit == Admit(e, in)
           pop == ReqPop(e, in)
           push == RspPush(e, in)
           fire == Fire(e, in)
           ca == Count(admit)
           cp == Count(pop)
           cu == Count(push)
           cf == Count(fire)
<1>1. /\ reqq[e] \in Seq(AxiAddrs) /\ idq[e] \in Seq(Ids) /\ rspq[e] \in Seq(Rsps)
      /\ mem[e] \in Seq(AxiAddrs) /\ acc[e] \in Seq(Txns)
      /\ outstanding[e] \in Nat /\ pending_q[e] \in Nat
      /\ Len(reqq[e]) <= ReqDepth /\ Len(rspq[e]) <= RspDepth
      /\ Len(idq[e]) <= MaxOutstanding /\ Len(mem[e]) <= MaxOutstanding
      /\ pending_q[e] = Len(mem[e]) /\ outstanding[e] = Len(acc[e])
      /\ Aligned(e)
  BY DEF InStep, TypeOK, NoOverflow, PendingIsOwed
<1>2. /\ admit \in BOOLEAN /\ pop \in BOOLEAN /\ push \in BOOLEAN /\ fire \in BOOLEAN
      /\ in.txn \in Txns /\ in.txn.id \in Ids /\ in.txn.addr \in AxiAddrs
  BY Zenon DEF Inputs, Txns, Admit, ReqPop, RspPush, Fire, RReady, BeatValid
<1>3. /\ Len(acc[e]) = Len(rspq[e]) + Len(mem[e]) + Len(reqq[e])
      /\ Len(idq[e]) = Len(acc[e])
      /\ \A i \in 1..Len(acc[e]) : idq[e][i] = acc[e][i].id
      /\ \A i \in 1..Len(rspq[e]) : rspq[e][i] = Answer(acc[e][i].addr)
      /\ \A i \in 1..Len(mem[e]) : mem[e][i] = acc[e][Len(rspq[e]) + i].addr
      /\ \A i \in 1..Len(reqq[e]) :
           reqq[e][i] = acc[e][Len(rspq[e]) + Len(mem[e]) + i].addr
  BY <1>1, Zenon DEF Aligned
<1>4. /\ admit => Len(acc[e]) < MaxOutstanding /\ Len(reqq[e]) < ReqDepth
      /\ pop => reqq[e] # <<>>
      /\ push => mem[e] # <<>> /\ Len(rspq[e]) < RspDepth
      /\ fire => rspq[e] # <<>> /\ idq[e] # <<>> /\ acc[e] # <<>>
  <2>1. admit => Len(acc[e]) < MaxOutstanding /\ Len(reqq[e]) < ReqDepth
    BY <1>1, Zenon DEF Admit
  <2>2. pop => reqq[e] # <<>>
    BY Zenon DEF ReqPop
  <2>3. push => mem[e] # <<>> /\ Len(rspq[e]) < RspDepth
    BY <1>1, Zenon DEF RspPush, RReady
  <2>4. fire => rspq[e] # <<>> /\ idq[e] # <<>>
    BY Zenon DEF Fire, BeatValid
  <2>5. Len(idq[e]) = Len(acc[e])
    BY <1>3, Zenon
  <2>6. idq[e] # <<>> => acc[e] # <<>>
    BY <1>1, <2>5, SMTT(30)
  <2> QED
    BY <2>1, <2>2, <2>3, <2>4, <2>6, Zenon
<1>5. /\ push = (in.rvalid /\ RReady(e) /\ mem[e] # <<>>)
      /\ pop = (reqq[e] # <<>> /\ in.gnt)
  BY <1>1 DEF RspPush, ReqPop, Inputs
<1>6. push => Sampled(e, in) = Answer(mem[e][1]) /\ Sampled(e, in) \in Rsps
  BY <1>1, <1>4 DEF Sampled, Phantom, Answer, Rsps
<1>7. /\ reqq'[e] = AfterEdge(reqq[e], admit, in.txn.addr, pop)
      /\ idq'[e] = AfterEdge(idq[e], admit, in.txn.id, fire)
      /\ rspq'[e] = AfterEdge(rspq[e], push, Sampled(e, in), fire)
      /\ mem'[e] = AfterEdge(mem[e], pop, Head(reqq[e]), push)
      /\ acc'[e] = AfterEdge(acc[e], admit, in.txn, fire)
      /\ outstanding'[e] = outstanding[e] + ca - cf
      /\ pending_q'[e] = pending_q[e] + cp - cu
  BY <1>5, Zenon DEF Edge, Counted, InStep, TypeOK
<1>8. pop => Head(reqq[e]) = reqq[e][1] /\ Head(reqq[e]) \in AxiAddrs
  BY <1>1, <1>4
<1> HIDE DEF admit, pop, push, fire
<1>9. IsEdgeOf(reqq'[e], reqq[e], AxiAddrs, admit, in.txn.addr, pop)
  <2>1. (admit => in.txn.addr \in AxiAddrs) /\ (pop => reqq[e] # <<>>)
    BY <1>2, <1>4, Zenon
  <2>2. IsEdgeOf(AfterEdge(reqq[e], admit, in.txn.addr, pop), reqq[e], AxiAddrs, admit, in.txn.addr, pop)
    BY ONLY <1>1, <1>2, <2>1, AfterEdgeFacts, ZenonT(60)
  <2> QED
    BY ONLY <2>2, <1>7, Zenon
<1>10. IsEdgeOf(idq'[e], idq[e], Ids, admit, in.txn.id, fire)
  <2>1. (admit => in.txn.id \in Ids) /\ (fire => idq[e] # <<>>)
    BY <1>2, <1>4, Zenon
  <2>2. IsEdgeOf(AfterEdge(idq[e], admit, in.txn.id, fire), idq[e], Ids, admit, in.txn.id, fire)
    BY ONLY <1>1, <1>2, <2>1, AfterEdgeFacts, ZenonT(60)
  <2> QED
    BY ONLY <2>2, <1>7, Zenon
<1>11. IsEdgeOf(rspq'[e], rspq[e], Rsps, push, Sampled(e, in), fire)
  <2>1. (push => Sampled(e, in) \in Rsps) /\ (fire => rspq[e] # <<>>)
    BY <1>6, <1>4, Zenon
  <2>2. IsEdgeOf(AfterEdge(rspq[e], push, Sampled(e, in), fire), rspq[e], Rsps, push, Sampled(e, in), fire)
    BY ONLY <1>1, <1>2, <2>1, AfterEdgeFacts, Zenon
  <2> QED
    BY ONLY <2>2, <1>7, Zenon
<1>12. IsEdgeOf(mem'[e], mem[e], AxiAddrs, pop, Head(reqq[e]), push)
  <2>1. (pop => Head(reqq[e]) \in AxiAddrs) /\ (push => mem[e] # <<>>)
    BY <1>8, <1>4, Zenon
  <2>2. IsEdgeOf(AfterEdge(mem[e], pop, Head(reqq[e]), push), mem[e], AxiAddrs, pop, Head(reqq[e]), push)
    BY ONLY <1>1, <1>2, <2>1, AfterEdgeFacts, Zenon
  <2> QED
    BY ONLY <2>2, <1>7, Zenon
<1>13. IsEdgeOf(acc'[e], acc[e], Txns, admit, in.txn, fire)
  <2>1. (admit => in.txn \in Txns) /\ (fire => acc[e] # <<>>)
    BY <1>2, <1>4, Zenon
  <2>2. IsEdgeOf(AfterEdge(acc[e], admit, in.txn, fire), acc[e], Txns, admit, in.txn, fire)
    BY ONLY <1>1, <1>2, <2>1, AfterEdgeFacts, Zenon
  <2> QED
    BY ONLY <2>2, <1>7, Zenon
<1>14. /\ ca \in 0..1 /\ cp \in 0..1 /\ cu \in 0..1 /\ cf \in 0..1
       /\ (ca = 1) = admit /\ (cp = 1) = pop /\ (cu = 1) = push /\ (cf = 1) = fire
  BY <1>2 DEF Count
<1> HIDE DEF ca, cp, cu, cf
<1> DEFINE n == Len(acc[e])
           m == Len(mem[e])
           r == Len(rspq[e])
           k == Len(reqq[e])
<1>15. /\ reqq'[e] \in Seq(AxiAddrs) /\ Len(reqq'[e]) = k + ca - cp
       /\ \A i \in 1..(k - cp) : reqq'[e][i] = reqq[e][i + cp]
       /\ ca = 1 => reqq'[e][k + 1 - cp] = in.txn.addr
  BY <1>9, <1>14, Zenon DEF IsEdgeOf, ca, cp
<1>16. /\ idq'[e] \in Seq(Ids) /\ Len(idq'[e]) = n + ca - cf
       /\ \A i \in 1..(n - cf) : idq'[e][i] = idq[e][i + cf]
       /\ ca = 1 => idq'[e][n + 1 - cf] = in.txn.id
  BY <1>3, <1>10, <1>14, Zenon DEF IsEdgeOf, ca, cf
<1>17. /\ rspq'[e] \in Seq(Rsps) /\ Len(rspq'[e]) = r + cu - cf
       /\ \A i \in 1..(r - cf) : rspq'[e][i] = rspq[e][i + cf]
       /\ cu = 1 => rspq'[e][r + 1 - cf] = Answer(mem[e][1])
  BY <1>6, <1>11, <1>14, Zenon DEF IsEdgeOf, cu, cf
<1>18. /\ mem'[e] \in Seq(AxiAddrs) /\ Len(mem'[e]) = m + cp - cu
       /\ \A i \in 1..(m - cu) : mem'[e][i] = mem[e][i + cu]
       /\ cp = 1 => mem'[e][m + 1 - cu] = reqq[e][1]
  BY <1>8, <1>12, <1>14, Zenon DEF IsEdgeOf, cp, cu
<1>19. /\ acc'[e] \in Seq(Txns) /\ Len(acc'[e]) = n + ca - cf
       /\ \A i \in 1..(n - cf) : acc'[e][i] = acc[e][i + cf]
       /\ ca = 1 => acc'[e][n + 1 - cf] = in.txn
  BY <1>13, <1>14, Zenon DEF IsEdgeOf, ca, cf
<1>20. n \in Nat /\ m \in Nat /\ r \in Nat /\ k \in Nat /\ n = r + m + k
  <2>1. n \in Nat /\ m \in Nat /\ r \in Nat /\ k \in Nat
    BY <1>1
  <2> QED
    BY <1>3, <2>1, Zenon
<1>21. /\ k <= ReqDepth /\ r <= RspDepth /\ n <= MaxOutstanding
       /\ ca = 1 => n < MaxOutstanding /\ k < ReqDepth
       /\ cp = 1 => k >= 1
       /\ cu = 1 => m >= 1 /\ r < RspDepth
       /\ cf = 1 => r >= 1
  <2>1. /\ reqq[e] # <<>> => k >= 1
        /\ mem[e] # <<>> => m >= 1
        /\ rspq[e] # <<>> => r >= 1
    BY <1>1, SMTT(30)
  <2>2. k <= ReqDepth /\ r <= RspDepth /\ n <= MaxOutstanding
    BY <1>1, <1>3, Zenon
  <2> QED
    BY <1>4, <1>14, <2>1, <2>2, ZenonT(60)
<1>22. ca \in 0..1 /\ cp \in 0..1 /\ cu \in 0..1 /\ cf \in 0..1
  BY <1>14, Zenon
<1>24. pending_q'[e] = m + cp - cu /\ outstanding'[e] = n + ca - cf
  BY <1>1, <1>7, Zenon
<1>25. /\ \A i \in 1..n : idq[e][i] = acc[e][i].id
       /\ \A i \in 1..r : rspq[e][i] = Answer(acc[e][i].addr)
       /\ \A i \in 1..m : mem[e][i] = acc[e][r + i].addr
       /\ \A i \in 1..k : reqq[e][i] = acc[e][r + m + i].addr
  BY <1>3, Zenon
<1> HIDE DEF n, m, r, k
<1>23. /\ Len(reqq'[e]) = k + ca - cp /\ Len(idq'[e]) = n + ca - cf
       /\ Len(rspq'[e]) = r + cu - cf /\ Len(mem'[e]) = m + cp - cu
       /\ Len(acc'[e]) = n + ca - cf
  BY <1>15, <1>16, <1>17, <1>18, <1>19, ZenonT(60)
<1>26. /\ Len(reqq'[e]) <= ReqDepth /\ Len(rspq'[e]) <= RspDepth
       /\ Len(idq'[e]) <= MaxOutstanding /\ Len(mem'[e]) <= MaxOutstanding
  BY <1>20, <1>21, <1>22, <1>23, DepthAssumption, SMTT(30)
<1>27. pending_q'[e] = Len(mem'[e]) /\ outstanding'[e] = Len(acc'[e])
  BY <1>23, <1>24
<1>28. Aligned(e)'
  <2>1. /\ Len(acc'[e]) = Len(rspq'[e]) + Len(mem'[e]) + Len(reqq'[e])
        /\ Len(idq'[e]) = Len(acc'[e])
    BY <1>20, <1>22, <1>23, SMTT(30)
  <2>2. ASSUME NEW i \in 1..Len(acc'[e])
        PROVE  idq'[e][i] = acc'[e][i].id
    <3>1. CASE i <= n - cf
      <4>1. i \in 1..(n - cf) /\ i + cf \in 1..n
        BY <1>20, <1>22, <3>1
      <4> QED
        BY <1>16, <1>19, <1>25, <4>1, Zenon
    <3>2. CASE ca = 1 /\ i = n + 1 - cf
      BY <1>16, <1>19, <3>2, Zenon
    <3>3. i <= n - cf \/ (ca = 1 /\ i = n + 1 - cf)
      BY <1>20, <1>22, <1>23, SMTT(30)
    <3> QED
      BY <3>1, <3>2, <3>3, Zenon
  <2>3. ASSUME NEW i \in 1..Len(rspq'[e])
        PROVE  rspq'[e][i] = Answer(acc'[e][i].addr)
    <3>1. CASE i <= r - cf
      <4>1. i \in 1..(r - cf) /\ i \in 1..(n - cf) /\ i + cf \in 1..r
        BY <1>20, <1>22, <3>1
      <4> QED
        BY <1>17, <1>19, <1>25, <4>1, Zenon
    <3>2. CASE cu = 1 /\ i = r + 1 - cf
      <4>1. i \in 1..(n - cf) /\ i + cf = r + 1 /\ 1 \in 1..m
        BY <1>20, <1>21, <1>22, <3>2
      <4> QED
        BY <1>17, <1>19, <1>25, <3>2, <4>1, ZenonT(60)
    <3>3. i <= r - cf \/ (cu = 1 /\ i = r + 1 - cf)
      BY <1>20, <1>22, <1>23
    <3> QED
      BY <3>1, <3>2, <3>3, Zenon
  <2>4. ASSUME NEW i \in 1..Len(mem'[e])
        PROVE  mem'[e][i] = acc'[e][Len(rspq'[e]) + i].addr
    <3> DEFINE j == Len(rspq'[e]) + i
    <3>1. CASE i <= m - cu
      <4>1. i \in 1..(m - cu) /\ i + cu \in 1..m /\ j \in 1..(n - cf) /\ j + cf = r + (i + cu)
        BY <1>20, <1>22, <1>23, <3>1, SMTT(30)
      <4>2. mem'[e][i] = acc[e][r + (i + cu)].addr
        BY <1>18, <1>25, <4>1, ZenonT(60)
      <4>3. acc'[e][j] = acc[e][j + cf]
        BY <1>19, <4>1, Zenon
      <4> QED
        BY <4>1, <4>2, <4>3, ZenonT(60)
    <3>2. CASE cp = 1 /\ i = m + 1 - cu
      <4>1. 1 \in 1..k /\ j \in 1..(n - cf) /\ j + cf = r + m + 1
        BY <1>20, <1>21, <1>22, <1>23, <3>2, SMTT(30)
      <4>2. mem'[e][i] = acc[e][r + m + 1].addr
        BY <1>18, <1>25, <3>2, <4>1, ZenonT(60)
      <4>3. acc'[e][j] = acc[e][j + cf]
        BY <1>19, <4>1, ZenonT(60)
      <4> QED
        BY <4>1, <4>2, <4>3, ZenonT(60)
    <3> QED
      BY <1>20, <1>22, <1>23, <3>1, <3>2
  <2>5. ASSUME NEW i \in 1..Len(reqq'[e])
        PROVE  reqq'[e][i] = acc'[e][Len(rspq'[e]) + Len(mem'[e]) + i].addr
    <3> DEFINE j == Len(rspq'[e]) + Len(mem'[e]) + i
    <3>1. CASE i <= k - cp
      <4>1. /\ i \in 1..(k - cp) /\ i + cp \in 1..k
            /\ j \in 1..(n - cf) /\ j + cf = r + m + (i + cp)
        BY <1>20, <1>22, <1>23, <3>1, SMTT(30)
      <4>2. reqq'[e][i] = acc[e][r + m + (i + cp)].addr
        BY <1>15, <1>25, <4>1, Zenon
      <4>3. acc'[e][j] = acc[e][j + cf]
        BY <1>19, <4>1, Zenon
      <4> QED
        BY <4>1, <4>2, <4>3, Zenon
    <3>2. CASE ca = 1 /\ i = k + 1 - cp
      <4>1. j = n + 1 - cf
        BY <1>20, <1>22, <1>23, <3>2, SMTT(30)
      <4> QED
        BY <1>15, <1>19, <3>2, <4>1, ZenonT(60)
    <3> QED
      BY <1>20, <1>22, <1>23, <3>1, <3>2, SMTT(30)
  <2> QED
    BY <2>1, <2>2, <2>3, <2>4, <2>5, ZenonT(60) DEF Aligned
<1> QED
  BY <1>15, <1>16, <1>17, <1>18, <1>19, <1>26, <1>27, <1>28, SMTT(30)

\* An edge of one engine leaves the other engine's registers as they were.
LEMMA EdgeIsLocal ==
  ASSUME TypeOK, NEW e \in Engines, NEW in \in Inputs, Edge(e, in),
         NEW f \in Engines, f # e
  PROVE  /\ reqq'[f] = reqq[f] /\ idq'[f] = idq[f] /\ rspq'[f] = rspq[f]
         /\ mem'[f] = mem[f] /\ acc'[f] = acc[f]
         /\ pending_q'[f] = pending_q[f] /\ outstanding'[f] = outstanding[f]
  BY Zenon DEF TypeOK, Edge

\* After reset every FIFO is empty and every counter zero.
LEMMA InitInStep == Init => InStep
<1> SUFFICES ASSUME Init PROVE InStep
  BY Zenon
<1>1. TypeOK
  BY DepthAssumption DEF Init, TypeOK
<1>2. NoOverflow /\ PendingIsOwed
  BY DepthAssumption DEF Init, NoOverflow, PendingIsOwed
<1>3. \A e \in Engines : outstanding[e] = Len(acc[e]) /\ Aligned(e)
  <2> SUFFICES ASSUME NEW e \in Engines
               PROVE  outstanding[e] = Len(acc[e]) /\ Aligned(e)
    BY Zenon
  <2>1. /\ reqq[e] = <<>> /\ idq[e] = <<>> /\ rspq[e] = <<>> /\ mem[e] = <<>> /\ acc[e] = <<>>
        /\ outstanding[e] = 0
    BY Zenon DEF Init
  <2> QED
    BY <2>1 DEF Aligned
<1> QED
  BY <1>1, <1>2, <1>3, Zenon DEF InStep

\* Every clock edge keeps the FIFOs in step.
LEMMA NextInStep == InStep /\ [Next]_vars => InStep'
<1> SUFFICES ASSUME InStep, [Next]_vars PROVE InStep'
  BY ZenonT(60)
<1>1. CASE UNCHANGED vars
  BY <1>1, ZenonT(60) DEF InStep, TypeOK, NoOverflow, PendingIsOwed, Aligned, vars
<1>2. ASSUME NEW e \in Engines, NEW in \in Inputs, Edge(e, in)
      PROVE  InStep'
  <2>1. /\ reqq' = [reqq EXCEPT ![e] = reqq'[e]]
        /\ idq' = [idq EXCEPT ![e] = idq'[e]]
        /\ rspq' = [rspq EXCEPT ![e] = rspq'[e]]
        /\ outstanding' = [outstanding EXCEPT ![e] = outstanding'[e]]
        /\ pending_q' = [pending_q EXCEPT ![e] = pending_q'[e]]
        /\ mem' = [mem EXCEPT ![e] = mem'[e]]
        /\ acc' = [acc EXCEPT ![e] = acc'[e]]
    BY <1>2, Zenon DEF Edge, InStep, TypeOK
  <2>2. /\ reqq'[e] \in Seq(AxiAddrs) /\ idq'[e] \in Seq(Ids) /\ rspq'[e] \in Seq(Rsps)
        /\ mem'[e] \in Seq(AxiAddrs) /\ acc'[e] \in Seq(Txns)
        /\ Len(reqq'[e]) <= ReqDepth /\ Len(rspq'[e]) <= RspDepth
        /\ Len(idq'[e]) <= MaxOutstanding /\ Len(mem'[e]) <= MaxOutstanding
        /\ pending_q'[e] = Len(mem'[e]) /\ outstanding'[e] = Len(acc'[e])
        /\ Aligned(e)'
    BY <1>2, EdgeOfEngine, Zenon
  <2>3. Len(acc'[e]) = Len(idq'[e]) /\ Len(acc'[e]) \in Nat /\ Len(mem'[e]) \in Nat
    <3>1. Len(acc'[e]) = Len(idq'[e])
      BY <2>2, Zenon DEF Aligned
    <3>2. Len(acc'[e]) \in Nat /\ Len(mem'[e]) \in Nat
      BY <2>2
    <3> QED
      BY <3>1, <3>2, Zenon
  <2>4. outstanding'[e] \in 0..MaxOutstanding /\ pending_q'[e] \in 0..MaxOutstanding
    BY <2>2, <2>3, DepthAssumption
  <2>5. TypeOK'
    BY <2>1, <2>2, <2>4, Zenon DEF InStep, TypeOK
  <2>6. NoOverflow' /\ PendingIsOwed'
    <3>1. ASSUME NEW f \in Engines
          PROVE  /\ Len(reqq'[f]) <= ReqDepth /\ Len(rspq'[f]) <= RspDepth
                 /\ Len(idq'[f]) <= MaxOutstanding /\ Len(mem'[f]) <= MaxOutstanding
                 /\ pending_q'[f] = Len(mem'[f])
      <4>1. CASE f = e
        BY <2>2, <4>1, ZenonT(60)
      <4>2. CASE f # e
        BY <1>2, <4>2, EdgeIsLocal DEF InStep, NoOverflow, PendingIsOwed
      <4> QED
        BY <4>1, <4>2, Zenon
    <3> QED
      BY <3>1, Zenon DEF NoOverflow, PendingIsOwed
  <2>7. ASSUME NEW f \in Engines
        PROVE  outstanding'[f] = Len(acc'[f]) /\ Aligned(f)'
    <3>1. CASE f = e
      BY <2>2, <3>1, Zenon
    <3>2. CASE f # e
      <4>1. /\ reqq'[f] = reqq[f] /\ idq'[f] = idq[f] /\ rspq'[f] = rspq[f]
            /\ mem'[f] = mem[f] /\ acc'[f] = acc[f] /\ outstanding'[f] = outstanding[f]
        BY <1>2, <3>2, EdgeIsLocal, Zenon DEF InStep
      <4>2. outstanding[f] = Len(acc[f]) /\ Aligned(f)
        BY Zenon DEF InStep
      <4>3. Aligned(f)'
        BY <4>1, <4>2, Zenon DEF Aligned
      <4> QED
        BY <4>1, <4>2, <4>3, Zenon
    <3> QED
      BY <3>1, <3>2, Zenon
  <2> QED
    BY <2>5, <2>6, <2>7, Zenon DEF InStep
<1> QED
  BY <1>1, <1>2, Zenon DEF Next

\* The assertions and the in-order promise, for one engine of the invariant.
LEMMA EngineFacts ==
  ASSUME InStep, NEW e \in Engines
  PROVE  /\ outstanding[e] = Len(reqq[e]) + pending_q[e] + Len(rspq[e])
         /\ Len(idq[e]) = outstanding[e]
         /\ RspDepth >= MaxOutstanding /\ mem[e] # <<>> => RReady(e)
         /\ BeatValid(e) => acc[e] # <<>> /\ BeatOut(e) = BeatFor(acc[e][1])
<1> DEFINE n == Len(acc[e])
           m == Len(mem[e])
           r == Len(rspq[e])
           k == Len(reqq[e])
<1>1. /\ reqq[e] \in Seq(AxiAddrs) /\ idq[e] \in Seq(Ids) /\ rspq[e] \in Seq(Rsps)
      /\ mem[e] \in Seq(AxiAddrs) /\ acc[e] \in Seq(Txns)
  BY Zenon DEF InStep, TypeOK
<1>2. n \in Nat /\ m \in Nat /\ r \in Nat /\ k \in Nat
  BY <1>1, SMTT(30)
<1>3. n = r + m + k /\ Len(idq[e]) = n /\ outstanding[e] = n /\ pending_q[e] = m
  BY Zenon DEF InStep, PendingIsOwed, Aligned
<1>4. n <= MaxOutstanding
  BY <1>3, ZenonT(60) DEF InStep, NoOverflow
<1>5. mem[e] # <<>> => m >= 1
  BY <1>1
<1>6. BeatValid(e) => r >= 1 /\ Head(idq[e]) = idq[e][1] /\ Head(rspq[e]) = rspq[e][1]
  BY <1>1 DEF BeatValid
<1>7. n >= 1 => acc[e] # <<>>
  BY <1>1
<1>8. 1 \in 1..r /\ 1 \in 1..n =>
        idq[e][1] = acc[e][1].id /\ rspq[e][1] = Answer(acc[e][1].addr)
  BY Zenon DEF InStep, Aligned
<1>9. RReady(e) = (r < RspDepth)
  BY Zenon DEF RReady
<1> HIDE DEF n, m, r, k
<1>10. outstanding[e] = k + pending_q[e] + r
  BY <1>2, <1>3
<1>11. RspDepth >= MaxOutstanding /\ mem[e] # <<>> => RReady(e)
  <2>1. ASSUME RspDepth >= MaxOutstanding, m >= 1
        PROVE  r < RspDepth
    <3>1. n = r + m + k
      BY <1>3, Zenon
    <3> QED
      BY <1>2, <1>4, <2>1, <3>1, DepthAssumption, SMTT(30)
  <2> QED
    BY <1>5, <1>9, <2>1, ZenonT(60)
<1>12. BeatValid(e) => acc[e] # <<>> /\ BeatOut(e) = BeatFor(acc[e][1])
  <2> SUFFICES ASSUME BeatValid(e)
               PROVE  acc[e] # <<>> /\ BeatOut(e) = BeatFor(acc[e][1])
    BY Zenon
  <2>1. 1 \in 1..r /\ 1 \in 1..n /\ n >= 1
    BY <1>2, <1>3, <1>6, SMTT(30)
  <2>2. /\ Head(idq[e]) = acc[e][1].id
        /\ Head(rspq[e]).addr = acc[e][1].addr
        /\ Head(rspq[e]).err = (acc[e][1].addr \in OutOfRange)
    BY <1>6, <1>8, <2>1, SMTT(30) DEF Answer
  <2> QED
    BY <1>7, <2>1, <2>2, Zenon DEF BeatOut, BeatFor
<1> QED
  BY <1>3, <1>10, <1>11, <1>12, Zenon DEF k, r

\* What the invariant gives the reader of the waveform: the conservation and
\* never-stalled assertions, and the in-order promise.
LEMMA InStepGives ==
  InStep => TypeOK /\ NoOverflow /\ Conservation /\ PendingIsOwed /\ NeverStalled /\ BeatIsOldest
<1> SUFFICES ASSUME InStep
             PROVE  TypeOK /\ NoOverflow /\ Conservation /\ PendingIsOwed /\ NeverStalled /\ BeatIsOldest
  BY Zenon
<1>1. Conservation
  BY EngineFacts, Zenon DEF Conservation
<1>2. NeverStalled
  BY EngineFacts, Zenon DEF NeverStalled
<1>3. BeatIsOldest
  BY EngineFacts, Zenon DEF BeatIsOldest
<1> QED
  BY <1>1, <1>2, <1>3, Zenon DEF InStep

\* The FIFOs of both engines stay in step, whatever the depths, the traffic and
\* the phantom responses of a shared port.
THEOREM AlwaysInStep == Spec => []InStep
  BY InitInStep, NextInStep, PTL DEF Spec

\* The registers of the bridge keep their types: no counter leaves its range.
THEOREM TypeCorrect == Spec => []TypeOK
  BY AlwaysInStep, InStepGives, PTL

\* No FIFO overflows, transactions are conserved, pending_q is exactly what the
\* memory owes, an awaited response is never stalled, and each response goes to
\* the oldest transaction with its id, data and error.
THEOREM BridgeCorrect ==
  Spec => [](NoOverflow /\ Conservation /\ PendingIsOwed /\ NeverStalled /\ BeatIsOldest)
  BY AlwaysInStep, InStepGives, PTL

-----------------------------------------------------------------------------
(***************************************************************************)
(* The single-beat bridges.                                                *)
(***************************************************************************)
\* What b_q and r_q may hold.
Responses == [id : Nat, resp : {"OKAY", "SLVERR"}, data : [Lanes -> Nat]]

\* The logs of no, one and two accesses.
Logged(req, e) == [req |-> req, err |-> e]

\* A log grows from none to one and to two entries.
LEMMA AppendEntry ==
  /\ \A x : Append(<<>>, x) = <<x>>
  /\ \A x, y : Append(<<x>>, y) = <<x, y>>
<1>1. ASSUME NEW x PROVE Append(<<>>, x) = <<x>>
  <2>1. Append(<<>>, x) \in Seq({x}) /\ Len(Append(<<>>, x)) = 1 /\ Append(<<>>, x)[1] = x
    OBVIOUS
  <2> QED
    BY <2>1
<1>2. ASSUME NEW x, NEW y PROVE Append(<<x>>, y) = <<x, y>>
  <2>1. <<x>> \in Seq({x, y}) /\ <<x, y>> \in Seq({x, y})
    OBVIOUS
  <2>2. /\ Append(<<x>>, y) \in Seq({x, y}) /\ Len(Append(<<x>>, y)) = 2
        /\ Append(<<x>>, y)[1] = x /\ Append(<<x>>, y)[2] = y
    BY <2>1
  <2>3. Len(<<x, y>>) = 2 /\ \A i \in 1..2 : Append(<<x>>, y)[i] = <<x, y>>[i]
    BY <2>2
  <2> QED
    BY <2>1, <2>2, <2>3, SeqEqual, Zenon
<1> QED
  BY <1>1, <1>2, Zenon

\* What a log of one entry says.
LEMMA OneEntry ==
  ASSUME NEW r, NEW e \in BOOLEAN, log = <<Logged(r, e)>>
  PROVE  /\ Made = <<r>> /\ (Failed <=> e)
         /\ \A x : (\E i \in DOMAIN log : log[i].req.word = x) <=> r.word = x
<1>1. DOMAIN log = {1} /\ log[1].req = r /\ log[1].err = e
  BY DEF Logged
<1>2. Made = <<r>>
  BY <1>1 DEF Made
<1> QED
  BY <1>1, <1>2, Zenon DEF Failed

\* The same for two entries ...
LEMMA TwoEntries ==
  ASSUME NEW r, NEW e \in BOOLEAN, NEW s, NEW f \in BOOLEAN,
         log = <<Logged(r, e), Logged(s, f)>>
  PROVE  /\ Made = <<r, s>> /\ (Failed <=> e \/ f)
         /\ \A x : (\E i \in DOMAIN log : log[i].req.word = x) <=> r.word = x \/ s.word = x
<1>1. /\ DOMAIN log = {1, 2} /\ log[1].req = r /\ log[1].err = e
      /\ log[2].req = s /\ log[2].err = f
  BY DEF Logged
<1>2. Made = <<r, s>>
  BY <1>1 DEF Made
<1> QED
  BY <1>1, <1>2, Zenon DEF Failed

\* ... and for none.
LEMMA NoEntries ==
  ASSUME log = <<>>
  PROVE  Made = <<>> /\ ~Failed
BY DEF Made, Failed

-----------------------------------------------------------------------------
\* Lane and word of a beat: what a read has gathered, word by word.
LEMMA WordLanes ==
  ASSUME NEW a \in Nat
  PROVE  /\ a % 2 \in Lanes
         /\ \A l \in Lanes : 2 * (a \div 2) + l = a <=> l = a % 2
         /\ a % 2 = 0 => 2 * (a \div 2) = a
BY DEF Lanes

\* The low word of a split beat has been read.
LowRead == [l \in Lanes |-> IF l = 0 THEN ax.word ELSE 0]

\* A single access fills the lane of its word ...
LEMMA OneWordRead ==
  ASSUME NEW a \in Nat, NEW d, d = [ZeroData EXCEPT ![a % 2] = a]
  PROVE  \A l \in Lanes :
           d[l] = IF a = 2 * (a \div 2) + l THEN 2 * (a \div 2) + l ELSE 0
<1> SUFFICES ASSUME NEW l \in Lanes
             PROVE  d[l] = IF a = 2 * (a \div 2) + l THEN 2 * (a \div 2) + l ELSE 0
  BY Zenon
<1>1. d[l] = IF l = a % 2 THEN a ELSE 0
  BY WordLanes, Zenon DEF ZeroData
<1>2. 2 * (a \div 2) + l = a <=> l = a % 2
  BY WordLanes, Zenon
<1> QED
  BY <1>1, <1>2, Zenon

\* ... the low half of a split beat the low lane ...
LEMMA LowWordRead ==
  ASSUME NEW a \in Nat, a % 2 = 0, NEW l \in Lanes
  PROVE  [i \in Lanes |-> IF i = 0 THEN a ELSE 0][l]
           = IF a = 2 * (a \div 2) + l THEN 2 * (a \div 2) + l ELSE 0
<1>1. 2 * (a \div 2) = a /\ l \in {0, 1}
  BY WordLanes DEF Lanes
<1> QED
  BY <1>1

\* ... and two accesses fill both.
LEMMA TwoWordsRead ==
  ASSUME NEW a \in Nat, a % 2 = 0, NEW d,
         d = [[l \in Lanes |-> IF l = 0 THEN a ELSE 0] EXCEPT ![1] = a + 1]
  PROVE  \A l \in Lanes :
           d[l] = IF a = 2 * (a \div 2) + l \/ a + 1 = 2 * (a \div 2) + l
                  THEN 2 * (a \div 2) + l ELSE 0
<1> SUFFICES ASSUME NEW l \in Lanes
             PROVE  d[l] = a + l /\ 2 * (a \div 2) + l = a + l /\ (a = a + l \/ a + 1 = a + l)
  BY Zenon DEF Lanes
<1>1. 2 * (a \div 2) = a
  BY WordLanes, Zenon
<1>2. l \in {0, 1}
  BY DEF Lanes
<1>3. d[l] = a + l
  BY <1>2 DEF Lanes
<1> QED
  BY <1>1, <1>2, <1>3, Zenon

-----------------------------------------------------------------------------
\* Between the capture of a beat and its answer, beat and data stay.
BeatKept == ax' = ax /\ opWrite' = opWrite /\ wq' = wq

\* soc_axi_to_apb in the middle of a beat: nothing done, or the first half.
ApbFresh ==
  /\ ~second /\ log = <<>> /\ err = Illegal(ax)
  /\ ~opWrite => rsp.data = ZeroData

ApbHalf ==
  /\ second /\ Split(ax) /\ ~Illegal(ax)
  /\ log = <<Logged(Access(ax.word, 0), err)>>
  /\ ~opWrite => rsp.data = LowRead

ApbInv ==
  /\ Apb!TypeOK /\ rsp \in Responses
  /\ st \in {"Setup", "Access"} => ApbFresh \/ ApbHalf
  /\ st = "Access" => ~err
  /\ Apb!TransfersExact /\ ResponseExact

\* soc_axi_to_reg: illegal_q is the verdict on the beat, and err_q that or worse.
RegInv ==
  /\ Reg!TypeOK /\ rsp \in Responses
  /\ st # "Idle" => illegal = Illegal(ax) /\ (illegal => err)
  /\ st = "First" =>
       /\ log = <<>> /\ (err => illegal)
       /\ ~opWrite => rsp.data = ZeroData
  /\ st = "Second" =>
       /\ Split(ax)
       /\ illegal => log = <<>>
       /\ ~illegal => /\ log = <<Logged(Access(ax.word, 0), err)>>
                      /\ ~opWrite => rsp.data = LowRead
  /\ Reg!AccessesExact /\ ResponseExact

\* soc_axi_to_dm: the one access, and what the debug module returned for it.
DmInv ==
  /\ Dm!TypeOK /\ rsp \in Responses
  /\ st = "Access" => log = <<>>
  /\ st = "ReadCapture" =>
       /\ ~opWrite /\ rdata = Dm!Entry(ax.word)
       /\ Len(log) = 1 /\ log[1].word = ax.word /\ log[1].write = opWrite
  /\ Dm!AnsweredOnce

BridgesInv ==
  /\ kind \in {"apb", "reg", "dm"}
  /\ kind = "apb" => ApbInv
  /\ kind = "reg" => RegInv
  /\ kind = "dm" => DmInv

\* It holds when the bridges come out of reset ...
LEMMA BridgesInitInv == BridgesInit => BridgesInv
<1> SUFFICES ASSUME BridgesInit PROVE BridgesInv
  BY Zenon
<1>1. SideTypeOK /\ rsp \in Responses /\ ZeroData \in [Lanes -> Nat]
  BY Zenon DEF BridgesInit, SideInit, SideTypeOK, Responses, ZeroData, Lanes
<1>2. ~Responding /\ st = "Idle"
  BY Zenon DEF BridgesInit, SideInit, Responding
<1>3. ApbInv
  BY <1>1, <1>2, Zenon DEF BridgesInit, SideInit, ApbInv, Apb!TypeOK, Apb!SideTypeOK, SideTypeOK, Apb!TransfersExact, Apb!Responding, ResponseExact, Responding
<1>4. RegInv
  BY <1>1, <1>2, Zenon DEF BridgesInit, SideInit, RegInv, Reg!TypeOK, Reg!SideTypeOK, SideTypeOK, Reg!AccessesExact, Reg!Responding, ResponseExact, Responding
<1>5. DmInv
  BY <1>1, <1>2, Zenon DEF BridgesInit, SideInit, DmInv, Dm!TypeOK, Dm!SideTypeOK, SideTypeOK, Dm!AnsweredOnce, Dm!Responding, Responding, Dm!Lanes, Lanes
<1> QED
  BY <1>3, <1>4, <1>5, Zenon DEF BridgesInv, BridgesInit

\* An offer moves only the three request channels.
LEMMA OfferSide ==
  ASSUME SideTypeOK, Offer
  PROVE  SideTypeOK'
<1>1. UNCHANGED <<st, preferRead, opWrite, ax, wq>>
  BY Zenon DEF Offer
<1>2. (ar' \in Axs \union {None}) /\ (aw' \in Axs \union {None}) /\ (w' \in WBeats \union {None})
  BY Zenon DEF SideTypeOK, Offer, OfferRead, OfferAw, OfferW
<1> QED
  BY <1>1, <1>2, Zenon DEF SideTypeOK

\* A capture takes a beat that was offered.
LEMMA CaptureSide ==
  ASSUME SideTypeOK, NEW next, next # "Idle", TakeRead(next) \/ TakeWrite(next)
  PROVE  SideTypeOK' /\ ax' # None /\ st' = next /\ log' = <<>> /\ (opWrite' => wq' # None)
<1>1. CASE TakeRead(next)
  BY <1>1, Zenon DEF TakeRead, ArbRead, RdReq, SideTypeOK
<1>2. CASE TakeWrite(next)
  BY <1>2, Zenon DEF TakeWrite, WrReq, SideTypeOK
<1> QED
  BY <1>1, <1>2, ZenonT(60)

\* A step in the middle of a beat.
LEMMA MiddleSide ==
  ASSUME SideTypeOK, st # "Idle", UNCHANGED <<ar, aw, w, preferRead, opWrite, ax, wq>>
  PROVE  SideTypeOK' /\ \A a, l : Access(a, l)' = Access(a, l)
<1>1. SideTypeOK'
  BY Zenon DEF SideTypeOK
<1>2. \A a, l : Access(a, l)' = Access(a, l)
  BY Zenon DEF Access
<1> QED
  BY <1>1, <1>2, Zenon

\* The captured beat and its data.
LEMMA BeatType ==
  ASSUME SideTypeOK, st # "Idle"
  PROVE  ax.word \in Nat /\ ax.id \in Nat /\ ax.size \in 2..7 /\ ax.burst \in BOOLEAN
BY AxsAssumption, Zenon DEF SideTypeOK

-----------------------------------------------------------------------------
\* soc_axi_to_apb takes a beat.
LEMMA ApbIdleInv ==
  ASSUME ApbInv, Apb!IdleStep
  PROVE  ApbInv'
<1>1. SideTypeOK
  BY Zenon DEF ApbInv, Apb!TypeOK, Apb!SideTypeOK, SideTypeOK
<1>2. TakeRead("Setup") \/ TakeWrite("Setup")
  BY Zenon DEF Apb!IdleStep, Apb!TakeRead, Apb!TakeWrite, TakeRead, TakeWrite, Apb!ArbRead, ArbRead, Apb!RdReq, RdReq, Apb!WrReq, WrReq, Apb!OneMore, OneMore, Apb!PassedCap, PassedCap
<1>3. SideTypeOK' /\ ax' # None /\ st' = "Setup" /\ log' = <<>>
  BY <1>1, <1>2, CaptureSide, ZenonT(60)
<1>4. err' = Illegal(ax)' /\ second' = FALSE /\ rsp' = [rsp EXCEPT !.data = ZeroData]
  BY Zenon DEF Apb!IdleStep, Apb!TakeRead, Apb!TakeWrite, Apb!Illegal, Illegal, Apb!ZeroData, ZeroData, Apb!Lanes, Lanes
<1>5. rsp' \in Responses /\ rsp'.data = ZeroData
  BY <1>4, Zenon DEF ApbInv, Responses, ZeroData, Lanes
<1>6. Illegal(ax)' \in BOOLEAN
  BY <1>3, BeatType, Zenon DEF Illegal
<1>7. Apb!TypeOK'
  BY <1>3, <1>4, <1>6, Zenon DEF Apb!TypeOK, Apb!SideTypeOK, SideTypeOK
<1>8. ApbFresh'
  BY <1>3, <1>4, <1>5, Zenon DEF ApbFresh, ZeroData
<1>9. ~Responding'
  BY <1>3, Zenon DEF Responding
<1> QED
  BY <1>3, <1>5, <1>7, <1>8, <1>9, ZenonT(60) DEF ApbInv, Apb!TransfersExact, ResponseExact, Apb!Responding, Responding

\* Its setup cycle: an illegal beat, or one whose first half failed, ends here.
LEMMA ApbSetupInv ==
  ASSUME ApbInv, Apb!SetupStep
  PROVE  ApbInv'
<1>1. SideTypeOK /\ second \in BOOLEAN /\ err \in BOOLEAN /\ opWrite \in BOOLEAN
  BY Zenon DEF ApbInv, Apb!TypeOK, Apb!SideTypeOK, SideTypeOK
<1>2. /\ st = "Setup" /\ UNCHANGED <<ar, aw, w, preferRead, opWrite, ax, wq, log, second, err>>
      /\ \/ err /\ rsp' = [rsp EXCEPT !.id = ax.id, !.resp = "SLVERR"] /\ st' = RespState
         \/ ~err /\ st' = "Access" /\ rsp' = rsp
  BY Zenon DEF Apb!SetupStep, Apb!RespState, RespState
<1>3. SideTypeOK' /\ \A a, l : Access(a, l)' = Access(a, l)
  BY <1>1, <1>2, MiddleSide, Zenon
<1>4. ax.word \in Nat /\ ax.id \in Nat
  BY <1>1, <1>2, BeatType, Zenon
<1>5. rsp' \in Responses /\ rsp'.data = rsp.data
  BY <1>2, <1>4, Zenon DEF ApbInv, Responses
<1>6. Apb!TypeOK'
  BY <1>1, <1>2, <1>3, ZenonT(60) DEF Apb!TypeOK, Apb!SideTypeOK, SideTypeOK, RespState
<1>7. ApbFresh \/ ApbHalf
  BY <1>2, Zenon DEF ApbInv
<1>8. CASE ~err
  <2>1. ApbFresh' \/ ApbHalf'
    BY <1>2, <1>3, <1>5, <1>7, <1>8, ZenonT(60) DEF ApbFresh, ApbHalf, Illegal, Split, LowRead
  <2>2. st' = "Access" /\ err' = FALSE
    BY <1>2, <1>8
  <2> QED
    BY <1>5, <1>6, <2>1, <2>2, ZenonT(60) DEF ApbInv, Apb!TransfersExact, ResponseExact, Apb!Responding, Responding
<1>9. CASE err
  <2>1. /\ st' = RespState /\ rsp'.id = ax.id /\ rsp'.resp = "SLVERR"
        /\ UNCHANGED <<opWrite, ax, wq, log>>
    BY <1>2, <1>9, Zenon DEF ApbInv, Responses
  <2>2. st' \in {"WriteResp", "ReadResp"}
    BY <2>1, Zenon DEF RespState
  <2>3. /\ Made' = Made /\ Failed' = Failed /\ Illegal(ax)' = Illegal(ax) /\ Wanted' = Wanted
        /\ Split(ax)' = Split(ax)
    BY <1>3, <2>1, Zenon DEF Made, Failed, Illegal, Wanted, Split
  <2>4. CASE ApbFresh
    <3>1. Illegal(ax) /\ Made = <<>>
      BY <1>9, <2>4, NoEntries, Zenon DEF ApbFresh
    <3>2. ResponseExact' /\ Apb!TransfersExact'
      BY <2>1, <2>2, <2>3, <3>1, ZenonT(60) DEF ResponseExact, Apb!TransfersExact, Apb!Illegal, Illegal, Apb!Made, Made
    <3> QED
      BY <1>5, <1>6, <2>2, <3>2, ZenonT(60) DEF ApbInv
  <2>5. CASE ApbHalf
    <3>1. ~Illegal(ax) /\ Split(ax) /\ log = <<Logged(Access(ax.word, 0), TRUE)>> /\ (~opWrite => rsp.data = LowRead)
      BY <1>9, <2>5, Zenon DEF ApbHalf
    <3>2. /\ Made = <<Access(ax.word, 0)>> /\ Failed
          /\ \A x : (\E i \in DOMAIN log : log[i].req.word = x) <=> ax.word = x
      <4> DEFINE r == Access(ax.word, 0)
      <4>1. r.word = ax.word
        BY Zenon DEF Access
      <4> HIDE DEF r
      <4>2. log = <<Logged(r, TRUE)>>
        BY <3>1, Zenon DEF r
      <4>3. Made = <<r>> /\ Failed /\ \A x : (\E i \in DOMAIN log : log[i].req.word = x) <=> r.word = x
        BY <4>2, OneEntry, Zenon
      <4> QED
        BY <4>1, <4>3, Zenon DEF r
    <3>3. Len(Wanted) = 2 /\ Wanted[1] = Access(ax.word, 0)
      BY <3>1, ZenonT(60) DEF Wanted
    <3>4. Apb!TransfersExact'
      BY <2>3, <3>1, <3>2, <3>3, ZenonT(60)
      DEF Apb!TransfersExact, Apb!Illegal, Illegal, Apb!Made, Made, Apb!Wanted, Wanted, Apb!Failed, Failed,
          Apb!Split, Split, Apb!Access, Access
    <3>5. ASSUME ~opWrite, NEW l \in Lanes
          PROVE  rsp'.data[l] = IF ax.word = 2 * (ax.word \div 2) + l THEN 2 * (ax.word \div 2) + l ELSE 0
      <4>1. rsp'.data = LowRead /\ ax.word % 2 = 0
        BY <1>5, <3>1, <3>5, ZenonT(60) DEF Split
      <4> QED
        BY <1>4, <4>1, LowWordRead DEF LowRead
    <3>6. ResponseExact'
      BY <2>1, <2>2, <2>3, <3>1, <3>2, <3>5, ZenonT(30) DEF ResponseExact
    <3> QED
      BY <1>5, <1>6, <2>2, <3>4, <3>6, ZenonT(60) DEF ApbInv
  <2> QED
    BY <1>7, <2>4, <2>5, Zenon
<1> QED
  BY <1>1, <1>8, <1>9, Zenon

\* The answer to a beat that took one access ...
LEMMA OneAccessAnswer ==
  ASSUME SideTypeOK, st # "Idle", ~Illegal(ax), ~Split(ax), NEW e \in BOOLEAN, BeatKept,
         log' = <<Logged(Access(ax.word, ax.word % 2), e)>>, rsp'.id = ax.id,
         rsp'.resp = IF e THEN "SLVERR" ELSE "OKAY",
         ~opWrite => rsp'.data = [ZeroData EXCEPT ![ax.word % 2] = ax.word]
  PROVE  ResponseExact' /\ Made' = Wanted' /\ (Failed' <=> e)
<1> DEFINE r == Access(ax.word, ax.word % 2)
<1>1. ax.word \in Nat /\ r.word = ax.word
  BY BeatType, Zenon DEF Access
<1>2. /\ Illegal(ax)' = Illegal(ax) /\ Wanted' = <<r>> /\ ax' = ax /\ opWrite' = opWrite
  BY Zenon DEF BeatKept, Illegal, Wanted, Split, Access
<1> HIDE DEF r
<1>3. DOMAIN log' = {1} /\ log'[1].req = r /\ log'[1].err = e
  BY SMTT(30) DEF Logged, r
<1>4. /\ Made' = <<r>> /\ (Failed' <=> e)
      /\ \A x : (\E i \in DOMAIN log' : log'[i].req.word = x) <=> ax.word = x
  BY <1>1, <1>3, SMTT(30) DEF Made, Failed
<1>5. ASSUME ~opWrite, NEW l \in Lanes
      PROVE  rsp'.data[l] = IF ax.word = 2 * (ax.word \div 2) + l THEN 2 * (ax.word \div 2) + l ELSE 0
  BY <1>1, <1>5, OneWordRead, SMTT(30)
<1>6. ResponseExact'
  BY <1>2, <1>4, <1>5, Zenon DEF ResponseExact
<1> QED
  BY <1>2, <1>4, <1>6, Zenon

\* ... and to one that took two.
LEMMA TwoAccessAnswer ==
  ASSUME SideTypeOK, st # "Idle", ~Illegal(ax), Split(ax), NEW e \in BOOLEAN, NEW f \in BOOLEAN,
         BeatKept,
         log' = <<Logged(Access(ax.word, 0), e), Logged(Access(ax.word + 1, 1), f)>>,
         rsp'.id = ax.id,
         rsp'.resp = IF e \/ f THEN "SLVERR" ELSE "OKAY",
         ~opWrite => rsp'.data = [LowRead EXCEPT ![1] = ax.word + 1]
  PROVE  ResponseExact' /\ Made' = Wanted' /\ (Failed' <=> e \/ f)
<1> DEFINE r == Access(ax.word, 0)
           s == Access(ax.word + 1, 1)
<1>1. ax.word \in Nat /\ ax.word % 2 = 0 /\ r.word = ax.word /\ s.word = ax.word + 1
  BY BeatType, Zenon DEF Access, Split
<1>2. /\ Illegal(ax)' = Illegal(ax) /\ Wanted' = <<r, s>> /\ ax' = ax /\ opWrite' = opWrite
  BY ZenonT(60) DEF BeatKept, Illegal, Wanted, Split, Access
<1> HIDE DEF r, s
<1>3. /\ DOMAIN log' = {1, 2} /\ log'[1].req = r /\ log'[1].err = e
      /\ log'[2].req = s /\ log'[2].err = f
  BY SMTT(30) DEF Logged, r, s
<1>4. /\ Made' = <<r, s>> /\ (Failed' <=> e \/ f)
      /\ \A x : (\E i \in DOMAIN log' : log'[i].req.word = x) <=> ax.word = x \/ ax.word + 1 = x
  BY <1>1, <1>3, SMTT(30) DEF Made, Failed
<1>5. ASSUME ~opWrite, NEW l \in Lanes
      PROVE  rsp'.data[l] = IF ax.word = 2 * (ax.word \div 2) + l \/ ax.word + 1 = 2 * (ax.word \div 2) + l
                            THEN 2 * (ax.word \div 2) + l ELSE 0
  BY <1>1, <1>5, TwoWordsRead, SMTT(30) DEF LowRead
<1>6. ResponseExact'
  BY <1>2, <1>4, <1>5, ZenonT(60) DEF ResponseExact
<1> QED
  BY <1>2, <1>4, <1>6, Zenon

\* Its access cycle: the first half of a split beat, or the last access.
LEMMA ApbAccessInv ==
  ASSUME ApbInv, NEW slverr \in BOOLEAN, Apb!AccessStep(slverr)
  PROVE  ApbInv'
<1> DEFINE word == ax.word + (IF second THEN 1 ELSE 0)
           lane == IF Split(ax) THEN (IF second THEN 1 ELSE 0) ELSE ax.word % 2
<1>1. SideTypeOK /\ second \in BOOLEAN /\ err = FALSE /\ opWrite \in BOOLEAN /\ st = "Access"
  BY Zenon DEF ApbInv, Apb!TypeOK, Apb!SideTypeOK, SideTypeOK, Apb!AccessStep
<1>2. /\ UNCHANGED <<ar, aw, w, preferRead, opWrite, ax, wq>>
      /\ err' = slverr
      /\ rsp' = [id |-> ax.id, resp |-> IF slverr THEN "SLVERR" ELSE "OKAY",
                 data |-> IF opWrite THEN rsp.data ELSE [rsp.data EXCEPT ![lane] = word]]
      /\ st' = IF Split(ax) /\ ~second THEN "Setup" ELSE RespState
      /\ second' = (second \/ Split(ax))
      /\ log' = Append(log, Logged(Access(word, lane), slverr))
  BY <1>1, Zenon DEF Apb!AccessStep, Apb!ActiveWord, Apb!ActiveLane, Apb!Split, Split, Apb!RespState, RespState,
        Apb!NextPhase, Apb!Transfer, Apb!Access, Access, Logged
<1>3. SideTypeOK' /\ (\A a, l : Access(a, l)' = Access(a, l)) /\ BeatKept
  BY <1>1, <1>2, MiddleSide, Zenon DEF BeatKept
<1>4. ax.word \in Nat /\ ax.id \in Nat /\ ax.word % 2 \in Lanes
  BY <1>1, BeatType, WordLanes, Zenon
<1>5. rsp' \in Responses
  <2>1. rsp.data \in [Lanes -> Nat] /\ word \in Nat /\ lane \in Lanes
    BY <1>1, <1>4 DEF ApbInv, Responses, Lanes
  <2> HIDE DEF word, lane
  <2> QED
    BY <1>2, <1>4, <2>1, ZenonT(60) DEF Responses
<1>6. Apb!TypeOK'
  <2>1. st' \in {"Setup", "WriteResp", "ReadResp"} /\ second' \in BOOLEAN /\ err' \in BOOLEAN
    BY <1>1, <1>2, Zenon DEF RespState
  <2> QED
    BY <1>3, <2>1, Zenon DEF Apb!TypeOK, Apb!SideTypeOK, SideTypeOK
<1> HIDE DEF word, lane
<1>7. ApbFresh \/ ApbHalf
  BY <1>1, Zenon DEF ApbInv
<1>8. CASE ApbFresh /\ Split(ax)
  <2>1. ~second /\ log = <<>> /\ ~Illegal(ax) /\ word = ax.word /\ lane = 0 /\ (~opWrite => rsp.data = ZeroData)
    BY <1>1, <1>4, <1>8 DEF ApbFresh, word, lane
  <2>2. log' = <<Logged(Access(ax.word, 0), slverr)>> /\ st' = "Setup" /\ second' = TRUE
    BY <1>2, <1>8, <2>1, AppendEntry, ZenonT(60)
  <2>3. ~opWrite => rsp'.data = LowRead
    BY <1>2, <2>1, ZenonT(60) DEF LowRead, ZeroData
  <2>4. ApbHalf'
    BY <1>2, <1>3, <1>8, <2>1, <2>2, <2>3, SMTT(30) DEF ApbHalf, Split, Illegal, LowRead
  <2> QED
    BY <1>5, <1>6, <2>2, <2>4, ZenonT(60) DEF ApbInv, Apb!TransfersExact, ResponseExact, Apb!Responding, Responding
<1>9. ASSUME ~Illegal(ax), ResponseExact', Made' = Wanted', st' = RespState
      PROVE  ApbInv'
  <2>1. st' \in {"WriteResp", "ReadResp"} /\ ~Illegal(ax)'
    BY <1>3, <1>9, Zenon DEF RespState, BeatKept, Illegal
  <2>2. Apb!TransfersExact'
    BY <1>9, <2>1, Zenon
    DEF Apb!TransfersExact, Apb!Illegal, Illegal, Apb!Made, Made, Apb!Wanted, Wanted, Apb!Split, Split,
        Apb!Access, Access
  <2> QED
    BY <1>5, <1>6, <1>9, <2>1, <2>2, ZenonT(60) DEF ApbInv
<1>10. CASE ApbFresh /\ ~Split(ax)
  <2>1. log = <<>> /\ ~Illegal(ax) /\ word = ax.word /\ lane = ax.word % 2 /\ (~opWrite => rsp.data = ZeroData)
    BY <1>1, <1>4, <1>10 DEF ApbFresh, word, lane
  <2>2. log' = <<Logged(Access(ax.word, ax.word % 2), slverr)>> /\ st' = RespState
    BY <1>2, <1>10, <2>1, AppendEntry, Zenon
  <2>3. rsp'.id = ax.id /\ rsp'.resp = IF slverr THEN "SLVERR" ELSE "OKAY"
    BY <1>2, Zenon
  <2>4. ~opWrite => rsp'.data = [ZeroData EXCEPT ![ax.word % 2] = ax.word]
    BY <1>2, <2>1, ZenonT(60)
  <2>5. ResponseExact' /\ Made' = Wanted'
    BY <1>1, <1>3, <1>10, <2>1, <2>2, <2>3, <2>4, OneAccessAnswer, ZenonT(30)
  <2> QED
    BY <1>9, <2>1, <2>2, <2>5, ZenonT(60)
<1>11. CASE ApbHalf
  <2>1. /\ second /\ Split(ax) /\ log = <<Logged(Access(ax.word, 0), FALSE)>> /\ ~Illegal(ax)
        /\ word = ax.word + 1 /\ lane = 1 /\ (~opWrite => rsp.data = LowRead)
    BY <1>1, <1>11, Zenon DEF ApbHalf, word, lane
  <2>2. /\ log' = <<Logged(Access(ax.word, 0), FALSE), Logged(Access(ax.word + 1, 1), slverr)>>
        /\ st' = RespState
    BY <1>2, <2>1, AppendEntry, Zenon
  <2>3. rsp'.id = ax.id /\ rsp'.resp = IF FALSE \/ slverr THEN "SLVERR" ELSE "OKAY"
    BY <1>2, Zenon
  <2>4. ~opWrite => rsp'.data = [LowRead EXCEPT ![1] = ax.word + 1]
    BY <1>2, <2>1, Zenon
  <2>5. ResponseExact' /\ Made' = Wanted'
    BY <1>1, <1>3, <2>1, <2>2, <2>3, <2>4, TwoAccessAnswer, ZenonT(60)
  <2> QED
    BY <1>9, <2>1, <2>2, <2>5, Zenon
<1> QED
  BY <1>7, <1>8, <1>10, <1>11, ZenonT(60)

\* A step that leaves the bridge's registers alone: an offer, or nothing.
LEMMA ApbRestInv ==
  ASSUME ApbInv, SideTypeOK', UNCHANGED <<st, opWrite, ax, wq, rsp, log, second, err>>
  PROVE  ApbInv'
<1>1. Apb!TypeOK'
  BY Zenon DEF ApbInv, Apb!TypeOK, Apb!SideTypeOK, SideTypeOK
<1>2. \A a, l : Access(a, l)' = Access(a, l)
  BY Zenon DEF Access
<1>3. (ApbFresh' <=> ApbFresh) /\ (ApbHalf' <=> ApbHalf)
  BY <1>2, Zenon DEF ApbFresh, ApbHalf, Illegal, Split, LowRead
<1>4. ResponseExact'
  BY Zenon DEF ApbInv, ResponseExact, Responding, Illegal, Failed
<1>5. Apb!TransfersExact'
  BY ZenonT(60) DEF ApbInv, Apb!TransfersExact, Apb!Responding, Apb!Illegal, Apb!Made, Apb!Wanted, Apb!Failed,
         Apb!Split, Apb!Access
<1> QED
  BY <1>1, <1>3, <1>4, <1>5, ZenonT(60) DEF ApbInv

\* The answer is taken.
LEMMA ApbCompleteInv ==
  ASSUME ApbInv, Apb!CompleteStep
  PROVE  ApbInv'
<1>1. UNCHANGED <<ar, aw, w, preferRead, opWrite, ax, wq, rsp, second, err>> /\ st' = "Idle"
  BY Zenon DEF Apb!CompleteStep, Apb!Complete
<1>2. Apb!TypeOK'
  BY <1>1 DEF ApbInv, Apb!TypeOK, Apb!SideTypeOK
<1> QED
  BY <1>1, <1>2, Zenon DEF ApbInv, Apb!TransfersExact, ResponseExact, Apb!Responding, Responding

\* Every step of soc_axi_to_apb.
LEMMA ApbNextInv ==
  ASSUME ApbInv, Apb!Next
  PROVE  ApbInv'
<1>1. CASE Apb!OfferStep
  <2>1. SideTypeOK
    BY Zenon DEF ApbInv, Apb!TypeOK, Apb!SideTypeOK, SideTypeOK
  <2>2. Offer /\ UNCHANGED <<st, opWrite, ax, wq, rsp, log, second, err>>
    BY <1>1, Zenon DEF Apb!OfferStep, Apb!Offer, Offer, Apb!OfferRead, OfferRead, Apb!OfferAw, OfferAw,
                Apb!OfferW, OfferW
  <2>3. SideTypeOK'
    BY <2>1, <2>2, OfferSide, Zenon
  <2> QED
    BY <2>2, <2>3, ApbRestInv, ZenonT(60)
<1> QED
  BY <1>1, ApbIdleInv, ApbSetupInv, ApbAccessInv, ApbCompleteInv, ZenonT(60) DEF Apb!Next, Apb!Advance

-----------------------------------------------------------------------------
\* soc_axi_to_reg takes a beat.
LEMMA RegIdleInv ==
  ASSUME RegInv, Reg!IdleStep
  PROVE  RegInv'
<1>1. SideTypeOK
  BY Zenon DEF RegInv, Reg!TypeOK, Reg!SideTypeOK, SideTypeOK
<1>2. TakeRead("First") \/ TakeWrite("First")
  BY Zenon DEF Reg!IdleStep, Reg!TakeRead, Reg!TakeWrite, TakeRead, TakeWrite, Reg!ArbRead, ArbRead, Reg!RdReq, RdReq, Reg!WrReq, WrReq, Reg!OneMore, OneMore, Reg!PassedCap, PassedCap
<1>3. SideTypeOK' /\ ax' # None /\ st' = "First" /\ log' = <<>>
  BY <1>1, <1>2, CaptureSide, ZenonT(60)
<1>4. illegal' = Illegal(ax)' /\ err' = illegal'
  BY Zenon DEF Reg!IdleStep, Reg!TakeRead, Reg!TakeWrite, Reg!Illegal, Illegal
<1>5. rsp' \in Responses /\ (~opWrite' => rsp'.data = ZeroData)
  BY DEF Reg!IdleStep, Reg!TakeRead, Reg!TakeWrite, RegInv, Responses, Reg!ZeroData, ZeroData, Reg!Lanes, Lanes
<1>6. Illegal(ax)' \in BOOLEAN
  BY Zenon DEF Illegal
<1>7. Reg!TypeOK'
  BY <1>3, <1>4, <1>6, ZenonT(60) DEF Reg!TypeOK, Reg!SideTypeOK, SideTypeOK
<1> QED
  BY <1>3, <1>4, <1>5, <1>7, ZenonT(60) DEF RegInv, Reg!AccessesExact, ResponseExact, Reg!Responding, Responding, ZeroData

\* An access, or the place of one that an illegal beat does not make.
LEMMA RegAccessInv ==
  ASSUME RegInv, NEW error \in BOOLEAN, NEW d, d \in {0, Reg!ActiveWord}, Reg!AccessStep(error, d)
  PROVE  RegInv'
<1> DEFINE word == ax.word + (IF st = "Second" THEN 1 ELSE 0)
           lane == IF Split(ax) THEN (IF st = "Second" THEN 1 ELSE 0) ELSE ax.word % 2
<1>1. SideTypeOK /\ illegal \in BOOLEAN /\ err \in BOOLEAN /\ opWrite \in BOOLEAN /\ st \in {"First", "Second"}
  BY Zenon DEF RegInv, Reg!TypeOK, Reg!SideTypeOK, SideTypeOK, Reg!AccessStep, Reg!Accessing
<1>2. /\ UNCHANGED <<ar, aw, w, preferRead, opWrite, ax, wq, illegal>>
      /\ d \in {0, word} /\ (~illegal => d = word)
      /\ err' = (err \/ error)
      /\ rsp' = [id |-> ax.id, resp |-> IF err \/ error THEN "SLVERR" ELSE "OKAY",
                 data |-> IF opWrite THEN rsp.data ELSE [rsp.data EXCEPT ![lane] = d]]
      /\ st' = IF Split(ax) /\ st = "First" THEN "Second" ELSE RespState
      /\ log' = IF ~illegal THEN Append(log, Logged(Access(word, lane), error)) ELSE log
  BY <1>1, Zenon DEF Reg!AccessStep, Reg!ActiveWord, Reg!ActiveLane, Reg!Split, Split, Reg!RespState, RespState,
        Reg!RegValid, Reg!Accessing, Reg!Access, Access, Logged
<1>3. SideTypeOK' /\ (\A a, l : Access(a, l)' = Access(a, l)) /\ BeatKept
  BY <1>1, <1>2, MiddleSide, Zenon DEF BeatKept
<1>4. ax.word \in Nat /\ ax.id \in Nat /\ ax.word % 2 \in Lanes
  BY <1>1, BeatType, WordLanes, ZenonT(60)
<1>5. rsp' \in Responses
  <2>1. rsp.data \in [Lanes -> Nat] /\ word \in Nat /\ lane \in Lanes
    BY <1>1, <1>4, SMTT(30) DEF RegInv, Responses, Lanes
  <2> HIDE DEF word, lane
  <2>2. d \in Nat
    BY <1>2, <2>1
  <2> QED
    BY <1>2, <1>4, <2>1, <2>2, ZenonT(60) DEF Responses
<1>6. Reg!TypeOK'
  <2>1. st' \in {"Second", "WriteResp", "ReadResp"} /\ illegal' \in BOOLEAN /\ err' \in BOOLEAN
    BY <1>1, <1>2, Zenon DEF RespState
  <2> QED
    BY <1>3, <2>1, Zenon DEF Reg!TypeOK, Reg!SideTypeOK, SideTypeOK
<1> HIDE DEF word, lane
<1>7. /\ illegal = Illegal(ax) /\ illegal' = Illegal(ax)' /\ Illegal(ax)' = Illegal(ax)
      /\ (illegal => err) /\ (illegal' => err') /\ Split(ax)' = Split(ax)
  BY <1>1, <1>2, <1>3, ZenonT(60) DEF RegInv, BeatKept, Illegal, Split
<1>8. CASE Split(ax) /\ st = "First"
  <2>1. log = <<>> /\ (err => illegal) /\ word = ax.word /\ lane = 0 /\ (~opWrite => rsp.data = ZeroData)
    BY <1>1, <1>4, <1>8, SMTT(30) DEF RegInv, word, lane
  <2>2. st' = "Second" /\ (illegal => log' = <<>>)
        /\ (~illegal => log' = <<Logged(Access(ax.word, 0), error)>> /\ err' = error)
    BY <1>1, <1>2, <1>8, <2>1, AppendEntry, SMTT(30)
  <2>3. ~opWrite /\ ~illegal => rsp'.data = LowRead
    BY <1>2, <2>1, Zenon DEF LowRead, ZeroData
  <2>4. LowRead' = LowRead
    BY <1>3, Zenon DEF LowRead, BeatKept
  <2> QED
    BY <1>2, <1>3, <1>5, <1>6, <1>7, <1>8, <2>2, <2>3, <2>4, SMTT(30)
    DEF RegInv, Reg!AccessesExact, ResponseExact, Reg!Responding, Responding, BeatKept
<1>9. ASSUME ResponseExact', Made' = IF illegal THEN <<>> ELSE Wanted', st' = RespState
      PROVE  RegInv'
  <2>1. st' \in {"WriteResp", "ReadResp"}
    BY <1>9, ZenonT(60) DEF RespState
  <2>2. Reg!AccessesExact'
    BY <1>7, <1>9, <2>1, ZenonT(60)
    DEF Reg!AccessesExact, Reg!Illegal, Illegal, Reg!Made, Made, Reg!Wanted, Wanted, Reg!Split, Split,
        Reg!Access, Access
  <2> QED
    BY <1>5, <1>6, <1>7, <1>9, <2>1, <2>2, ZenonT(60) DEF RegInv
<1>10. rsp'.id = ax.id /\ rsp'.resp = IF err \/ error THEN "SLVERR" ELSE "OKAY"
  BY <1>2, Zenon
<1>11. CASE ~(Split(ax) /\ st = "First") /\ illegal
  <2>1. log' = <<>> /\ st' = RespState /\ rsp'.resp = "SLVERR" /\ ax' = ax
    BY <1>1, <1>2, <1>7, <1>10, <1>11, ZenonT(60) DEF RegInv
  <2>2. Made' = <<>>
    BY <2>1 DEF Made
  <2>3. ResponseExact'
    BY <1>7, <1>10, <1>11, <2>1, ZenonT(60) DEF ResponseExact
  <2> QED
    BY <1>9, <1>11, <2>1, <2>2, <2>3, ZenonT(60)
<1>12. CASE ~Split(ax) /\ ~illegal
  <2>1. log = <<>> /\ ~err /\ word = ax.word /\ lane = ax.word % 2 /\ (~opWrite => rsp.data = ZeroData)
    BY <1>1, <1>4, <1>12 DEF RegInv, word, lane
  <2>2. log' = <<Logged(Access(ax.word, ax.word % 2), error)>> /\ st' = RespState
    BY <1>2, <1>12, <2>1, AppendEntry, ZenonT(60)
  <2>3. rsp'.id = ax.id /\ rsp'.resp = IF error THEN "SLVERR" ELSE "OKAY"
    BY <1>10, <2>1, ZenonT(60)
  <2>4. ~opWrite => rsp'.data = [ZeroData EXCEPT ![ax.word % 2] = ax.word]
    BY <1>2, <1>12, <2>1, ZenonT(60)
  <2>5. ResponseExact' /\ Made' = Wanted'
    BY <1>1, <1>3, <1>7, <1>12, <2>2, <2>3, <2>4, OneAccessAnswer, ZenonT(30)
  <2> QED
    BY <1>9, <1>12, <2>2, <2>5, ZenonT(60)
<1>13. CASE Split(ax) /\ st = "Second" /\ ~illegal
  <2>1. /\ log = <<Logged(Access(ax.word, 0), err)>>
        /\ word = ax.word + 1 /\ lane = 1 /\ (~opWrite => rsp.data = LowRead)
    BY <1>1, <1>13, Zenon DEF RegInv, word, lane
  <2>2. /\ log' = <<Logged(Access(ax.word, 0), err), Logged(Access(ax.word + 1, 1), error)>>
        /\ st' = RespState
    BY <1>2, <1>13, <2>1, AppendEntry, ZenonT(60)
  <2>3. ~opWrite => rsp'.data = [LowRead EXCEPT ![1] = ax.word + 1]
    BY <1>2, <1>13, <2>1, ZenonT(60)
  <2>4. ResponseExact' /\ Made' = Wanted'
    BY <1>1, <1>3, <1>7, <1>10, <1>13, <2>2, <2>3, TwoAccessAnswer, ZenonT(30)
  <2> QED
    BY <1>9, <1>13, <2>2, <2>4, Zenon
<1> QED
  BY <1>1, <1>8, <1>11, <1>12, <1>13, ZenonT(60)

\* A step that leaves the registers of soc_axi_to_reg alone.
LEMMA RegRestInv ==
  ASSUME RegInv, SideTypeOK', UNCHANGED <<st, opWrite, ax, wq, rsp, log, illegal, err>>
  PROVE  RegInv'
<1>1. Reg!TypeOK'
  BY Zenon DEF RegInv, Reg!TypeOK, Reg!SideTypeOK, SideTypeOK
<1>2. \A a, l : Access(a, l)' = Access(a, l)
  BY Zenon DEF Access
<1>3. ResponseExact'
  BY ZenonT(60) DEF RegInv, ResponseExact, Responding, Illegal, Failed
<1>4. Reg!AccessesExact'
  BY DEF RegInv, Reg!AccessesExact, Reg!Responding, Reg!Illegal, Reg!Made, Reg!Wanted, Reg!Split, Reg!Access
<1>5. Illegal(ax)' = Illegal(ax) /\ Split(ax)' = Split(ax) /\ LowRead' = LowRead
  BY Zenon DEF Illegal, Split, LowRead
<1> QED
  BY <1>1, <1>2, <1>3, <1>4, <1>5, Zenon DEF RegInv

\* The answer is taken.
LEMMA RegCompleteInv ==
  ASSUME RegInv, Reg!CompleteStep
  PROVE  RegInv'
<1>1. UNCHANGED <<ar, aw, w, preferRead, opWrite, ax, wq, rsp, illegal, err>> /\ st' = "Idle"
  BY Zenon DEF Reg!CompleteStep, Reg!Complete
<1>2. Reg!TypeOK'
  BY <1>1 DEF RegInv, Reg!TypeOK, Reg!SideTypeOK
<1> QED
  BY <1>1, <1>2, ZenonT(60) DEF RegInv, Reg!AccessesExact, ResponseExact, Reg!Responding, Responding

\* Every step of soc_axi_to_reg.
LEMMA RegNextInv ==
  ASSUME RegInv, Reg!Next
  PROVE  RegInv'
<1>1. CASE Reg!OfferStep
  <2>1. SideTypeOK
    BY Zenon DEF RegInv, Reg!TypeOK, Reg!SideTypeOK, SideTypeOK
  <2>2. Offer /\ UNCHANGED <<st, opWrite, ax, wq, rsp, log, illegal, err>>
    BY <1>1, Zenon DEF Reg!OfferStep, Reg!Offer, Offer, Reg!OfferRead, OfferRead, Reg!OfferAw, OfferAw,
                Reg!OfferW, OfferW
  <2>3. SideTypeOK'
    BY <2>1, <2>2, OfferSide, Zenon
  <2> QED
    BY <2>2, <2>3, RegRestInv, Zenon
<1>2. CASE Reg!AnyAccess
  <2>1. PICK error \in BOOLEAN, d \in {0, Reg!ActiveWord} : Reg!AccessStep(error, d)
    BY <1>2, Zenon DEF Reg!AnyAccess
  <2> QED
    BY <2>1, RegAccessInv, ZenonT(60)
<1> QED
  BY <1>1, <1>2, RegIdleInv, RegCompleteInv, ZenonT(60) DEF Reg!Next, Reg!Advance

-----------------------------------------------------------------------------
\* soc_axi_to_dm takes a beat.
LEMMA DmIdleInv ==
  ASSUME DmInv, Dm!IdleStep
  PROVE  DmInv'
<1>1. SideTypeOK
  BY Zenon DEF DmInv, Dm!TypeOK, Dm!SideTypeOK, SideTypeOK
<1>2. TakeRead("Access") \/ TakeWrite("Access")
  BY Zenon DEF Dm!IdleStep, Dm!TakeRead, Dm!TakeWrite, TakeRead, TakeWrite, Dm!ArbRead, ArbRead, Dm!RdReq, RdReq, Dm!WrReq, WrReq, Dm!OneMore, OneMore, Dm!PassedCap, PassedCap
<1>3. SideTypeOK' /\ st' = "Access" /\ log' = <<>> /\ UNCHANGED <<rsp, rdata>>
  BY <1>1, <1>2, CaptureSide, ZenonT(60) DEF Dm!IdleStep
<1>4. Dm!TypeOK'
  BY <1>3, Zenon DEF DmInv, Dm!TypeOK, Dm!SideTypeOK, SideTypeOK
<1> QED
  BY <1>3, <1>4, Zenon DEF DmInv, Dm!AnsweredOnce, Dm!Responding

\* The one cycle in which the request is up.
LEMMA DmAccessInv ==
  ASSUME DmInv, Dm!AccessStep
  PROVE  DmInv'
<1> DEFINE e == [word |-> ax.word, write |-> opWrite,
                 be |-> IF opWrite THEN wq.strb ELSE Lanes,
                 wdata |-> IF opWrite THEN wq.data ELSE ZeroData]
<1>1. SideTypeOK /\ opWrite \in BOOLEAN /\ st = "Access" /\ log = <<>> /\ rdata \in [Lanes -> Nat]
  BY Zenon DEF DmInv, Dm!TypeOK, Dm!SideTypeOK, SideTypeOK, Dm!AccessStep, Dm!DmReq, Dm!Lanes, Lanes
<1>2. /\ UNCHANGED <<ar, aw, w, preferRead, opWrite, ax, wq>>
      /\ st' = IF opWrite THEN "WriteResp" ELSE "ReadCapture"
      /\ rsp' = IF opWrite THEN [rsp EXCEPT !.id = ax.id, !.resp = "OKAY"] ELSE rsp
      /\ rdata' = IF opWrite THEN rdata ELSE Dm!Entry(ax.word)
      /\ log' = Append(log, e)
  BY Zenon DEF Dm!AccessStep, Dm!AfterAccess, Dm!Lanes, Lanes, Dm!ZeroData, ZeroData
<1>3. SideTypeOK'
  BY <1>1, <1>2, MiddleSide, ZenonT(60)
<1>4. ax.word \in Nat /\ ax.id \in Nat
  BY <1>1, BeatType, ZenonT(60)
<1>5. Dm!Entry(ax.word) \in [Lanes -> Nat]
  BY <1>4 DEF Dm!Entry, Dm!Lanes, Lanes
<1>6. rsp' \in Responses /\ (opWrite => rsp'.id = ax.id)
  BY <1>1, <1>2, <1>4, ZenonT(60) DEF DmInv, Responses
<1>7. Dm!TypeOK'
  BY <1>1, <1>2, <1>3, <1>5, SMTT(30) DEF Dm!TypeOK, Dm!SideTypeOK, SideTypeOK, Dm!Lanes, Lanes
<1>8. Len(log') = 1 /\ log'[1] = e
  BY <1>1, <1>2, AppendEntry, SMTT(30)
<1>9. /\ e.word = ax.word /\ e.write = opWrite
      /\ opWrite => e.be = wq.strb /\ e.wdata = wq.data
  BY Zenon
<1> HIDE DEF e
<1>10. Dm!Entry(ax.word)' = Dm!Entry(ax.word)
  BY <1>2, Zenon DEF Dm!Entry, Dm!Lanes
<1>11. CASE opWrite
  BY <1>2, <1>6, <1>7, <1>8, <1>9, <1>11, SMTT(30) DEF DmInv, Dm!AnsweredOnce
<1>12. CASE ~opWrite
  BY <1>2, <1>6, <1>7, <1>8, <1>9, <1>10, <1>12, SMTT(30) DEF DmInv, Dm!AnsweredOnce, Dm!Responding
<1> QED
  BY <1>1, <1>11, <1>12, ZenonT(60)

\* The cycle in which the data of the debug module arrives.
LEMMA DmCaptureInv ==
  ASSUME DmInv, Dm!ReadCaptureStep
  PROVE  DmInv'
<1>1. SideTypeOK /\ st = "ReadCapture" /\ rdata \in [Lanes -> Nat]
  BY Zenon DEF DmInv, Dm!TypeOK, Dm!SideTypeOK, SideTypeOK, Dm!ReadCaptureStep, Dm!Lanes, Lanes
<1>2. /\ UNCHANGED <<ar, aw, w, preferRead, opWrite, ax, wq, log, rdata>> /\ st' = "ReadResp"
      /\ rsp' = [id |-> ax.id, resp |-> "OKAY", data |-> rdata]
  BY Zenon DEF Dm!ReadCaptureStep
<1>3. SideTypeOK'
  BY <1>1, <1>2, MiddleSide, ZenonT(60)
<1>4. rsp' \in Responses
  BY <1>1, <1>2, BeatType, ZenonT(60) DEF Responses
<1>5. Dm!TypeOK'
  BY <1>1, <1>2, <1>3, ZenonT(60) DEF Dm!TypeOK, Dm!SideTypeOK, SideTypeOK, Dm!Lanes, Lanes
<1>6. Dm!Entry(ax.word)' = Dm!Entry(ax.word)
  BY <1>2, Zenon DEF Dm!Entry, Dm!Lanes
<1> QED
  BY <1>1, <1>2, <1>4, <1>5, <1>6, SMTT(30) DEF DmInv, Dm!AnsweredOnce

\* Every step of soc_axi_to_dm.
LEMMA DmNextInv ==
  ASSUME DmInv, Dm!Next
  PROVE  DmInv'
<1>1. SideTypeOK
  BY Zenon DEF DmInv, Dm!TypeOK, Dm!SideTypeOK, SideTypeOK
<1>2. CASE Dm!OfferStep
  <2>1. Offer /\ UNCHANGED <<st, opWrite, ax, wq, rsp, log, rdata>>
    BY <1>2, Zenon DEF Dm!OfferStep, Dm!Offer, Offer, Dm!OfferRead, OfferRead, Dm!OfferAw, OfferAw,
                Dm!OfferW, OfferW
  <2>2. SideTypeOK'
    BY <1>1, <2>1, OfferSide, ZenonT(60)
  <2>3. Dm!TypeOK'
    BY <2>1, <2>2, Zenon DEF DmInv, Dm!TypeOK, Dm!SideTypeOK, SideTypeOK
  <2>4. Dm!Entry(ax.word)' = Dm!Entry(ax.word)
    BY <2>1, Zenon DEF Dm!Entry, Dm!Lanes
  <2> QED
    BY <2>1, <2>3, <2>4, ZenonT(60) DEF DmInv, Dm!AnsweredOnce, Dm!Responding
<1>3. CASE Dm!CompleteStep
  <2>1. UNCHANGED <<ar, aw, w, preferRead, opWrite, ax, wq, rsp, rdata>> /\ st' = "Idle"
    BY <1>3, Zenon DEF Dm!CompleteStep, Dm!Complete
  <2>2. Dm!TypeOK'
    BY <2>1, ZenonT(60) DEF DmInv, Dm!TypeOK, Dm!SideTypeOK
  <2> QED
    BY <2>1, <2>2, Zenon DEF DmInv, Dm!AnsweredOnce, Dm!Responding
<1> QED
  BY <1>2, <1>3, DmIdleInv, DmAccessInv, DmCaptureInv, SMTT(30) DEF Dm!Next, Dm!Advance

-----------------------------------------------------------------------------
\* Every step of the bridge, whichever it is.
LEMMA BridgesNextInv == BridgesInv /\ [BridgesNext]_bridgeVars => BridgesInv'
<1> SUFFICES ASSUME BridgesInv, [BridgesNext]_bridgeVars PROVE BridgesInv'
  BY Zenon
<1>1. CASE ApbOnly /\ Apb!Next
  BY <1>1, ApbNextInv, Zenon DEF ApbOnly, BridgesInv
<1>2. CASE RegOnly /\ Reg!Next
  BY <1>2, RegNextInv, ZenonT(60) DEF RegOnly, BridgesInv
<1>3. CASE DmOnly /\ Dm!Next
  BY <1>3, DmNextInv, ZenonT(60) DEF DmOnly, BridgesInv
<1>4. CASE UNCHANGED bridgeVars
  <2>1. UNCHANGED <<ar, aw, w, st, preferRead, opWrite, ax, wq, rsp, log, passed,
                    second, illegal, err, rdata, kind>>
    BY <1>4, Zenon DEF bridgeVars, sideVars
  <2>2. SideTypeOK' <=> SideTypeOK
    BY <2>1, Zenon DEF SideTypeOK
  <2>3. CASE kind = "apb"
    <3>1. ApbInv /\ SideTypeOK
      BY <2>3, Zenon DEF BridgesInv, ApbInv, Apb!TypeOK, Apb!SideTypeOK, SideTypeOK
    <3> QED
      BY <2>1, <2>2, <2>3, <3>1, ApbRestInv, ZenonT(60) DEF BridgesInv
  <2>4. CASE kind = "reg"
    <3>1. RegInv /\ SideTypeOK
      BY <2>4, Zenon DEF BridgesInv, RegInv, Reg!TypeOK, Reg!SideTypeOK, SideTypeOK
    <3> QED
      BY <2>1, <2>2, <2>4, <3>1, RegRestInv, ZenonT(60) DEF BridgesInv
  <2>5. CASE kind = "dm"
    <3>1. DmInv /\ SideTypeOK
      BY <2>5, Zenon DEF BridgesInv, DmInv, Dm!TypeOK, Dm!SideTypeOK, SideTypeOK
    <3>2. Dm!TypeOK'
      BY <2>1, <2>2, <3>1, ZenonT(60) DEF DmInv, Dm!TypeOK, Dm!SideTypeOK, SideTypeOK
    <3>3. Dm!Entry(ax.word)' = Dm!Entry(ax.word)
      BY <2>1, Zenon DEF Dm!Entry, Dm!Lanes
    <3>4. DmInv'
      BY <2>1, <3>1, <3>2, <3>3, ZenonT(60) DEF DmInv, Dm!AnsweredOnce, Dm!Responding
    <3> QED
      BY <2>1, <2>5, <3>4, ZenonT(60) DEF BridgesInv
  <2> QED
    BY <2>3, <2>4, <2>5, ZenonT(60) DEF BridgesInv
<1> QED
  BY <1>1, <1>2, <1>3, <1>4, ZenonT(60) DEF BridgesNext

\* soc_axi_to_apb, soc_axi_to_reg, soc_axi_to_dm: when a beat is answered its accesses
\* have been made, each once, in order and from the right lane, whatever beats the
\* initiator offers.
THEOREM AccessesAlwaysExact == BridgesSpec => []AccessesExact
<1>1. BridgesInv => AccessesExact
  <2> SUFFICES ASSUME BridgesInv PROVE AccessesExact
    BY Zenon
  <2>1. CASE kind = "apb"
    BY <2>1, Zenon DEF BridgesInv, ApbInv, AccessesExact, BridgesTypeOK
  <2>2. CASE kind = "reg"
    BY <2>2, Zenon DEF BridgesInv, RegInv, AccessesExact, BridgesTypeOK
  <2>3. CASE kind = "dm"
    BY <2>3, SMTT(30) DEF BridgesInv, DmInv, AccessesExact, BridgesTypeOK
  <2> QED
    BY <2>1, <2>2, <2>3, ZenonT(60) DEF BridgesInv
<1> QED
  BY <1>1, BridgesInitInv, BridgesNextInv, PTL DEF BridgesSpec

\* The same three bridges: id, error and data of every response belong to the beat it
\* answers.
THEOREM ResponseAlwaysRight == BridgesSpec => []ResponseRight
<1>1. BridgesInv => ResponseRight
  BY Zenon DEF BridgesInv, ApbInv, RegInv, DmInv, ResponseRight
<1> QED
  BY <1>1, BridgesInitInv, BridgesNextInv, PTL DEF BridgesSpec

\* Every step of soc_axi_to_apb keeps the phases of APB.
LEMMA ApbStepPhases ==
  ASSUME ApbInv, Apb!Next
  PROVE  Apb!PhasesKept
<1>1. ASSUME UNCHANGED <<opWrite, ax, wq, second>> PROVE Apb!Transfer' = Apb!Transfer
  BY <1>1, ZenonT(60) DEF Apb!Transfer, Apb!Access, Apb!ActiveWord, Apb!ActiveLane, Apb!Split
<1>2. CASE Apb!OfferStep
  <2>1. UNCHANGED <<st, opWrite, ax, wq, second, log>>
    BY <1>2, Zenon DEF Apb!OfferStep, Apb!Offer
  <2> QED
    BY <1>1, <2>1, Zenon DEF Apb!PhasesKept, Apb!PEnable
<1>3. CASE Apb!IdleStep
  BY <1>3, Zenon DEF Apb!IdleStep, Apb!TakeRead, Apb!TakeWrite, Apb!PhasesKept, Apb!PEnable
<1>4. CASE Apb!SetupStep
  <2>1. UNCHANGED <<opWrite, ax, wq, second>> /\ st = "Setup" /\ (st' = "Access" => ~err)
    BY <1>4, ZenonT(60) DEF Apb!SetupStep, Apb!RespState
  <2> QED
    BY <1>1, <2>1, ZenonT(60) DEF Apb!PhasesKept, Apb!PEnable, Apb!PSel
<1>5. CASE \E slverr \in BOOLEAN : Apb!AccessStep(slverr)
  <2>1. PICK slverr \in BOOLEAN : Apb!AccessStep(slverr)
    BY <1>5, Zenon
  <2>2. st = "Access" /\ st' # "Access" /\ \E e : log' = Append(log, e)
    BY <2>1, Zenon DEF Apb!AccessStep, Apb!NextPhase, Apb!RespState
  <2>3. log = <<>> \/ \E e : log = <<e>>
    BY <2>2, Zenon DEF ApbInv, ApbFresh, ApbHalf
  <2>4. log' # log
    BY <2>2, <2>3, AppendEntry, SMTT(30)
  <2> QED
    BY <2>2, <2>4, ZenonT(60) DEF Apb!PhasesKept, Apb!PEnable
<1>6. CASE Apb!CompleteStep
  BY <1>6, Zenon DEF Apb!CompleteStep, Apb!Complete, Apb!PhasesKept, Apb!PEnable
<1> QED
  BY <1>2, <1>3, <1>4, <1>5, <1>6, ZenonT(60) DEF Apb!Next, Apb!Advance

\* soc_axi_to_apb: an access phase follows a setup phase of the same transfer, and the
\* request lines hold still until pready.
THEOREM ApbPhasesHold == BridgesSpec => ApbPhases
<1>1. BridgesInv /\ [BridgesNext]_bridgeVars => [kind = "apb" => Apb!PhasesKept]_bridgeVars
  BY ApbStepPhases, Zenon DEF BridgesInv, BridgesNext, RegOnly, DmOnly
<1> QED
  BY <1>1, BridgesInitInv, BridgesNextInv, PTL DEF BridgesSpec, ApbPhases

-----------------------------------------------------------------------------
\* Whoever was passed over is next.
TurnInv ==
  /\ passed \in [rd : {0, 1}, wr : {0, 1}]
  /\ passed.rd = 1 => RdReq /\ preferRead
  /\ passed.wr = 1 => WrReq /\ ~preferRead

\* A capture passes over the other side only when it is this side's turn.
LEMMA CaptureTurn ==
  ASSUME TurnInv, NEW next, TakeRead(next) \/ TakeWrite(next)
  PROVE  TurnInv'
<1>1. CASE TakeRead(next)
  <2>1. passed.wr = 0 \/ ~WrReq
    BY <1>1, ZenonT(60) DEF TurnInv, TakeRead, ArbRead
  <2>2. passed' = [rd |-> 0, wr |-> IF WrReq THEN 1 ELSE 0]
    BY <1>1, <2>1, SMTT(30) DEF TakeRead, OneMore, PassedCap
  <2> QED
    BY <1>1, <2>2 DEF TurnInv, TakeRead, WrReq
<1>2. CASE TakeWrite(next)
  <2>1. passed.rd = 0 \/ ~RdReq
    BY <1>2, ZenonT(60) DEF TurnInv, TakeWrite, ArbRead
  <2>2. passed' = [rd |-> IF RdReq THEN 1 ELSE 0, wr |-> 0]
    BY <1>2, <2>1 DEF TakeWrite, OneMore, PassedCap
  <2> QED
    BY <1>2, <2>2 DEF TurnInv, TakeWrite, RdReq
<1> QED
  BY <1>1, <1>2, ZenonT(60)

\* An offer leaves the turn and whoever waits.
LEMMA OfferTurn ==
  ASSUME TurnInv, Offer
  PROVE  TurnInv'
<1>1. (RdReq => RdReq') /\ (WrReq => WrReq')
  BY NoneAssumption, Zenon DEF Offer, OfferRead, OfferAw, OfferW, RdReq, WrReq
<1> QED
  BY <1>1, Zenon DEF TurnInv, Offer

\* Only a capture moves rr_prefer_read_q, and only captures and offers the channels.
LEMMA TurnNextInv == TurnInv /\ [BridgesNext]_bridgeVars => TurnInv'
<1> SUFFICES ASSUME TurnInv, [BridgesNext]_bridgeVars PROVE TurnInv'
  BY Zenon
<1>1. \/ Offer
      \/ \E next : TakeRead(next) \/ TakeWrite(next)
      \/ UNCHANGED <<ar, aw, w, preferRead, passed>>
  <2>1. CASE Apb!Next
    BY <2>1, ZenonT(60)
    DEF Apb!Next, Apb!Advance, Apb!OfferStep, Apb!Offer, Offer, Apb!OfferRead, OfferRead, Apb!OfferAw,
        OfferAw, Apb!OfferW, OfferW, Apb!IdleStep, Apb!TakeRead, TakeRead, Apb!TakeWrite, TakeWrite,
        Apb!ArbRead, ArbRead, Apb!RdReq, RdReq, Apb!WrReq, WrReq, Apb!OneMore, OneMore, Apb!PassedCap,
        PassedCap, Apb!SetupStep, Apb!AccessStep, Apb!CompleteStep, Apb!Complete
  <2>2. CASE Reg!Next
    BY <2>2, Zenon
    DEF Reg!Next, Reg!Advance, Reg!OfferStep, Reg!Offer, Offer, Reg!OfferRead, OfferRead, Reg!OfferAw,
        OfferAw, Reg!OfferW, OfferW, Reg!IdleStep, Reg!TakeRead, TakeRead, Reg!TakeWrite, TakeWrite,
        Reg!ArbRead, ArbRead, Reg!RdReq, RdReq, Reg!WrReq, WrReq, Reg!OneMore, OneMore, Reg!PassedCap,
        PassedCap, Reg!AnyAccess, Reg!AccessStep, Reg!CompleteStep, Reg!Complete
  <2>3. CASE Dm!Next
    BY <2>3, ZenonT(60)
    DEF Dm!Next, Dm!Advance, Dm!OfferStep, Dm!Offer, Offer, Dm!OfferRead, OfferRead, Dm!OfferAw,
        OfferAw, Dm!OfferW, OfferW, Dm!IdleStep, Dm!TakeRead, TakeRead, Dm!TakeWrite, TakeWrite,
        Dm!ArbRead, ArbRead, Dm!RdReq, RdReq, Dm!WrReq, WrReq, Dm!OneMore, OneMore, Dm!PassedCap,
        PassedCap, Dm!AccessStep, Dm!ReadCaptureStep, Dm!CompleteStep, Dm!Complete
  <2>4. CASE UNCHANGED bridgeVars
    BY <2>4, ZenonT(60) DEF bridgeVars, sideVars
  <2> QED
    BY <2>1, <2>2, <2>3, <2>4, SMTT(30) DEF BridgesNext
<1>2. CASE UNCHANGED <<ar, aw, w, preferRead, passed>>
  BY <1>2, Zenon DEF TurnInv, RdReq, WrReq
<1> QED
  BY <1>1, <1>2, OfferTurn, CaptureTurn, SMTT(30)

\* All three bridges: while a read or a write waits, at most one beat of the other kind is
\* captured ahead of it.  This is the half of NobodyStarves that is a safety property.
THEOREM PassedAtMostOnce == BridgesSpec => [](\A k \in {"rd", "wr"} : passed[k] <= 1)
<1>1. BridgesInit => TurnInv
  BY DEF BridgesInit, SideInit, TurnInv
<1>2. TurnInv => \A k \in {"rd", "wr"} : passed[k] <= 1
  BY DEF TurnInv
<1> QED
  BY <1>1, <1>2, TurnNextInv, PTL DEF BridgesSpec
=============================================================================
