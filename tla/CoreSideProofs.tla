--------------------------- MODULE CoreSideProofs ---------------------------
(***************************************************************************)
(* Proofs about the parts a core is connected to, each on its own.         *)
(*                                                                         *)
(* ObiPath, for every set of words and requests, every depth of the FIFOs, *)
(* any number of resets and any pace of RAM and fabric.                    *)
(*                                                                         *)
(* Plic, for any number of sources and any width of a priority.            *)
(*                                                                         *)
(* CvwAdapter and NativeAdapters, whatever the cores ask for, whichever    *)
(* words fail and at whatever pace the ports grant and answer.             *)
(***************************************************************************)
EXTENDS MCCoreSide, FiniteSetTheorems, WellFoundedInduction, TLAPS

Count(b) == IF b THEN 1 ELSE 0

\* r is what FIFO q of elements of S holds after an edge.
IsEdgeOf(r, q, S, push, x, pop) ==
  /\ r \in Seq(S)
  /\ Len(r) = Len(q) + Count(push) - Count(pop)
  /\ \A i \in 1..(Len(q) - Count(pop)) : r[i] = q[i + Count(pop)]
  /\ push => r[Len(q) + 1 - Count(pop)] = x

\* One edge of a fifo_v3: what its storage holds, and in which order.
LEMMA AfterEdgeFacts ==
  ASSUME NEW S, NEW q \in Seq(S), NEW x,
         NEW push \in BOOLEAN, NEW pop \in BOOLEAN,
         push => x \in S,
         pop => q # <<>>
  PROVE  IsEdgeOf(AfterEdge(q, push, x, pop), q, S, push, x, pop)
<1>1. CASE pop /\ push
  BY <1>1 DEF AfterEdge, Count, IsEdgeOf
<1>2. CASE pop /\ ~push
  BY <1>2 DEF AfterEdge, Count, IsEdgeOf
<1>3. CASE ~pop /\ push
  BY <1>3 DEF AfterEdge, Count, IsEdgeOf
<1>4. CASE ~pop /\ ~push
  BY <1>4 DEF AfterEdge, Count, IsEdgeOf
<1> QED
  BY <1>1, <1>2, <1>3, <1>4, Zenon

-----------------------------------------------------------------------------
(* ax_encode.                                                               *)

Bytes == 0..ObiBytes - 1

\* The least of some bytes of a word is one of them.
LEMMA LeastByte ==
  ASSUME NEW be \in SUBSET Bytes, be # {}
  PROVE  Min(be) \in be /\ \A i \in be : Min(be) <= i
<1>0. \A y \in be : y \in Nat /\ y \in {0, 1, 2, 3}
  BY DEF Bytes, ObiBytes
<1>1. \E x \in be : \A y \in be : x =< y
  <2>1. CASE 0 \in be
    BY <1>0, <2>1
  <2>2. CASE 0 \notin be /\ 1 \in be
    BY <1>0, <2>2
  <2>3. CASE 0 \notin be /\ 1 \notin be /\ 2 \in be
    BY <1>0, <2>3
  <2>4. CASE 0 \notin be /\ 1 \notin be /\ 2 \notin be
    BY <1>0, <2>4
  <2> QED BY <2>1, <2>2, <2>3, <2>4, Zenon
<1> QED
  BY <1>1, Zenon DEF Min

\* The branch for a narrow access is only taken for an aligned run.
Narrow(be) ==
  /\ Cardinality(be) \in {1, 2, 4, 8}
  /\ Min(be) % Cardinality(be) = 0
  /\ be = Min(be)..(Min(be) + Cardinality(be) - 1)

\* ax_encode: the bytes of a narrow access are an aligned run inside the word.
LEMMA NarrowRun ==
  ASSUME NEW be \in SUBSET Bytes, Narrow(be)
  PROVE  /\ Cardinality(be) \in {1, 2, 4} /\ Min(be) \in Bytes
         /\ Min(be) + Cardinality(be) - 1 \in Bytes
         /\ Min(be) % Cardinality(be) = 0
         /\ be = Min(be)..(Min(be) + Cardinality(be) - 1)
<1>1. be # {}
  BY FS_EmptySet DEF Narrow
<1>2. Min(be) \in Bytes
  BY <1>1, LeastByte, Zenon
<1>3. PICK m \in Bytes, k \in {1, 2, 4, 8} : m = Min(be) /\ k = Cardinality(be)
  BY <1>2, Zenon DEF Narrow
<1>4. m..(m + k - 1) \subseteq Bytes /\ m % k = 0 /\ be = m..(m + k - 1)
  BY <1>3, Zenon DEF Narrow
<1>5. m + k - 1 \in m..(m + k - 1)
  BY DEF Bytes, ObiBytes
<1>6. m + k - 1 \in Bytes
  BY <1>4, <1>5, Zenon
<1>7. k # 8
  BY <1>6 DEF Bytes, ObiBytes
<1> QED BY <1>3, <1>4, <1>6, <1>7, Zenon

\* What ax_encode makes of a word and its enabled bytes.
LEMMA EncodeFacts ==
  ASSUME NEW word \in Nat, NEW be \in SUBSET Bytes
  PROVE  \E m \in Bytes, k \in {1, 2, 4} :
           /\ Encode(word, be) = [addr |-> ObiBytes * word + m, bytes |-> k]
           /\ m % k = 0 /\ m + k - 1 \in Bytes
           /\ be \subseteq m..(m + k - 1)
           /\ Narrow(be) => be = m..(m + k - 1)
<1>1. CASE Narrow(be)
  <2>1. PICK m \in Bytes, k \in {1, 2, 4} : m = Min(be) /\ k = Cardinality(be)
    BY <1>1, NarrowRun, Zenon
  <2>2. m % k = 0 /\ m + k - 1 \in Bytes /\ be = m..(m + k - 1)
    BY <1>1, <2>1, NarrowRun, Zenon
  <2>3. Encode(word, be) = [addr |-> ObiBytes * word + m, bytes |-> k]
    BY <1>1, <2>1, Zenon DEF Encode, Narrow
  <2> QED BY <2>2, <2>3, Zenon
<1>2. CASE ~Narrow(be)
  <2>1. Encode(word, be) = [addr |-> ObiBytes * word, bytes |-> ObiBytes]
    BY <1>2, Zenon DEF Encode, Narrow
  <2>2. ObiBytes * word = ObiBytes * word + 0 /\ ObiBytes = 4 /\ 0 % 4 = 0 /\ 0 + 4 - 1 \in Bytes
    BY DEF ObiBytes, Bytes
  <2>3. Bytes = 0..(0 + 4 - 1) /\ 0 \in Bytes
    BY DEF Bytes, ObiBytes
  <2> QED BY <1>2, <2>1, <2>2, <2>3, Zenon
<1> QED BY <1>1, <1>2, Zenon

\* Reading back from the lane of the word what the fabric put on the bus.
LEMMA LaneFacts ==
  ASSUME NEW word \in Nat, NEW m \in Bytes
  PROVE  SelectLane(word, Beat(ObiBytes * word + m)) = word
<1>1. word % 2 \in 0..1
  OBVIOUS
<1>2. (4 * word + m) \div 8 = word \div 2
  BY DEF Bytes, ObiBytes
<1>3. word = 2 * (word \div 2) + (word % 2)
  OBVIOUS
<1> QED
  BY <1>1, <1>2, <1>3 DEF SelectLane, Beat, LaneOf, ObiBytes

-----------------------------------------------------------------------------
(* The path.                                                                *)

Responses == [err : BOOLEAN, data : SUBSET Words]

Granted == [req : Reqs, mine : BOOLEAN]

\* What the bridge has decided of the request it holds.
BridgeKnows ==
  /\ state = "ErrResp" => req_q.word \in BeyondBus
  /\ state \in {"WriteReq", "WriteResp"} => req_q.we /\ req_q.word \notin BeyondBus
  /\ state \in {"ReadReq", "ReadResp"} => ~req_q.we /\ req_q.word \notin BeyondBus

(***************************************************************************)
(* The inductive invariant.  That the path is a queue does not carry over  *)
(* an edge by itself: the response the bridge builds is the one owed only  *)
(* because its state follows from the request it holds.                    *)
(***************************************************************************)
PathInv ==
  /\ core \in SUBSET Reqs
  /\ reqq \in Seq(Reqs) /\ rspq \in Seq(Responses) /\ ram \in Seq(Reqs)
  /\ acc \in Seq(Granted)
  /\ busy \in BOOLEAN /\ sel_ram \in BOOLEAN
  /\ state \in {"Idle", "ErrResp", "WriteReq", "WriteResp", "ReadReq", "ReadResp"}
  /\ PathIsQueue
  /\ BridgeKnows

\* What a request is owed is a response.
LEMMA ExpectedType == \A r \in Reqs : Expected(r) \in Responses
  BY DEF Expected, Responses, Reqs

\* What a request within the fabric's address space is owed.
LEMMA OwedInSpace ==
  ASSUME NEW r \in Reqs, r.word \notin BeyondBus
  PROVE  Expected(r) = [err |-> r.word \in Failing, data |-> IF r.we THEN {} ELSE {r.word}]
<1>1. (r.word \in BeyondBus \union Failing) <=> r.word \in Failing
  BY Zenon
<1>2. (r.word \in BeyondBus \union Failing) = (r.word \in Failing)
  BY <1>1
<1>3. (IF r.we \/ r.word \in BeyondBus THEN {} ELSE {r.word}) = IF r.we THEN {} ELSE {r.word}
  BY Zenon
<1> QED BY <1>2, <1>3, Zenon DEF Expected

\* The response of the bridge is the one its request is owed.
LEMMA BridgeAnswers ==
  ASSUME PathInv, req_q \in Reqs, state \in {"ErrResp", "WriteResp", "ReadResp"}
  PROVE  BridgeResponse = Expected(req_q)
<1>1. req_q.word \in Nat /\ req_q.be \in SUBSET Bytes
  BY PathAssumption, Zenon DEF Reqs, Bytes
<1>2. CASE state = "ErrResp"
  BY <1>2, Zenon DEF PathInv, BridgeKnows, BridgeResponse, Expected
<1>3. CASE state = "WriteResp"
  <2>1. req_q.we /\ req_q.word \notin BeyondBus
    BY <1>3, Zenon DEF PathInv, BridgeKnows
  <2>2. BridgeResponse = [err |-> req_q.word \in Failing, data |-> {}]
    BY <1>3, Zenon DEF BridgeResponse
  <2>3. Expected(req_q) = [err |-> req_q.word \in Failing, data |-> {}]
    BY <2>1, OwedInSpace, Zenon
  <2> QED BY <2>2, <2>3, Zenon
<1>4. CASE state = "ReadResp"
  <2>1. PICK m \in Bytes, k \in {1, 2, 4} :
          Encode(req_q.word, req_q.be) = [addr |-> ObiBytes * req_q.word + m, bytes |-> k]
    BY <1>1, EncodeFacts, Zenon
  <2>2. SelectLane(req_q.word, Beat(Encode(req_q.word, req_q.be).addr)) = req_q.word
    BY <1>1, <2>1, LaneFacts
  <2>3. ~req_q.we /\ req_q.word \notin BeyondBus
    BY <1>4, Zenon DEF PathInv, BridgeKnows
  <2>4. BridgeResponse = [err |-> req_q.word \in Failing, data |-> {req_q.word}]
    BY <1>4, <2>2, Zenon DEF BridgeResponse
  <2>5. Expected(req_q) = [err |-> req_q.word \in Failing, data |-> {req_q.word}]
    BY <2>3, OwedInSpace, Zenon
  <2> QED BY <2>4, <2>5, Zenon
<1> QED BY <1>2, <1>3, <1>4, Zenon

\* After reset the path is empty.
LEMMA PathInitOK == Init => PathInv
<1> SUFFICES ASSUME Init PROVE PathInv
  BY Zenon
<1>1. /\ core \in SUBSET Reqs /\ reqq \in Seq(Reqs) /\ rspq \in Seq(Responses)
      /\ ram \in Seq(Reqs) /\ acc \in Seq(Granted)
      /\ Len(acc) = 0 /\ Len(rspq) = 0 /\ Len(reqq) = 0
  BY DEF Init
<1>2. PathIsQueue
  BY <1>1 DEF Init, PathIsQueue
<1> QED BY <1>1, <1>2, Zenon DEF Init, PathInv, BridgeKnows

\* The access that is on one of the two ways, when the router is busy.
Current == acc[Len(rspq) + 1].req

\* What PathIsQueue says of the router, the RAM and the bridge.
LEMMA OnOneWay ==
  ASSUME PathInv
  PROVE  /\ ~busy => ram = <<>> /\ state = "Idle"
         /\ busy /\ sel_ram => ram = <<Current>> /\ state = "Idle"
         /\ busy /\ ~sel_ram => ram = <<>> /\ state # "Idle" /\ req_q = Current
         /\ busy => Current \in Reqs
         /\ ~busy /\ reqq # <<>> => Head(reqq) \in Reqs /\ Head(reqq) = Current
<1>1. /\ busy \in BOOLEAN /\ sel_ram \in BOOLEAN /\ reqq \in Seq(Reqs) /\ rspq \in Seq(Responses)
      /\ acc \in Seq(Granted)
  BY Zenon DEF PathInv
<1>2. /\ Len(acc) = Len(rspq) + (IF busy THEN 1 ELSE 0) + Len(reqq)
      /\ \A i \in 1..Len(reqq) : reqq[i] = acc[Len(rspq) + (IF busy THEN 1 ELSE 0) + i].req
      /\ ram = IF busy /\ sel_ram THEN <<Current>> ELSE <<>>
      /\ (state # "Idle") = (busy /\ ~sel_ram)
      /\ state # "Idle" => req_q = Current
  BY Zenon DEF PathInv, PathIsQueue, Current
<1>3. \A i \in 1..Len(acc) : acc[i].req \in Reqs
  <2>1. \A i \in 1..Len(acc) : acc[i] \in Granted
    BY <1>1
  <2> QED BY <2>1, Zenon DEF Granted
<1>4. busy => Current \in Reqs
  <2> SUFFICES ASSUME busy PROVE Len(rspq) + 1 \in 1..Len(acc)
    BY <1>3, Zenon DEF Current
  <2> QED BY <1>1, <1>2
<1>5. ~busy /\ reqq # <<>> => Head(reqq) \in Reqs /\ Head(reqq) = Current
  <2> SUFFICES ASSUME ~busy, reqq # <<>> PROVE Head(reqq) \in Reqs /\ Head(reqq) = Current
    BY Zenon
  <2>1. Head(reqq) = reqq[1] /\ 1 \in 1..Len(reqq) /\ reqq[1] \in Reqs
    BY <1>1
  <2>2. Len(rspq) + 0 + 1 = Len(rspq) + 1
    BY <1>1
  <2> QED BY <1>2, <2>1, <2>2, Zenon DEF Current
<1> QED BY <1>1, <1>2, <1>4, <1>5, Zenon

\* The router, the RAM and the bridge at an edge.  x is the access that is on
\* its way afterwards, if any.
LEMMA OneWayEdge ==
  ASSUME PathInv, NEW in \in Inputs, Edge(in), NEW x,
         x = IF busy THEN Current ELSE Head(reqq)
  PROVE  /\ busy' \in BOOLEAN /\ sel_ram' \in BOOLEAN
         /\ busy' <=> (busy /\ ~(RValid(in) /\ RReady)) \/ Gnt(in)
         /\ ~busy' => ram' = <<>> /\ state' = "Idle"
         /\ busy' /\ sel_ram' => ram' = <<x>> /\ state' = "Idle"
         /\ busy' /\ ~sel_ram' => ram' = <<>> /\ state' # "Idle" /\ req_q' = x
         /\ state' \in {"Idle", "ErrResp", "WriteReq", "WriteResp", "ReadReq", "ReadResp"}
         /\ BridgeKnows'
<1> DEFINE push == RValid(in) /\ RReady
           pop == Gnt(in)
           h == Head(reqq)
<1>0. busy \in BOOLEAN /\ sel_ram \in BOOLEAN /\ BridgeKnows
      /\ state \in {"Idle", "ErrResp", "WriteReq", "WriteResp", "ReadReq", "ReadResp"}
  BY Zenon DEF PathInv
<1>1. /\ busy' = IF busy THEN ~push ELSE pop
      /\ sel_ram' = IF ~busy /\ pop THEN IsRam(h) ELSE sel_ram
      /\ ram' = AfterEdge(ram, pop /\ IsRam(h), h, RamValid(in) /\ RReady)
      /\ BridgeEdge(in)
  BY Zenon DEF Edge
<1>2. pop => ~busy /\ reqq # <<>>
  BY Zenon DEF Gnt, Accept
<1>3. CASE ~busy /\ pop
  <2>1. ram = <<>> /\ state = "Idle" /\ h \in Reqs /\ x = h
    BY <1>2, <1>3, OnOneWay, Zenon
  <2>2. busy' = TRUE /\ sel_ram' = IsRam(h) /\ ~RamValid(in) /\ Accept
    BY <1>1, <1>3, <2>1, Zenon DEF RamValid, Gnt
  <2>r. sel_ram' \in BOOLEAN /\ (sel_ram' <=> IsRam(h))
    <3>1. IsRam(h) \in BOOLEAN
      BY DEF IsRam
    <3> QED BY <2>2, <3>1, Zenon
  <2>3. CASE IsRam(h)
    <3>1. ram' = Append(<<>>, h)
      BY <1>1, <1>3, <2>1, <2>2, <2>3, Zenon DEF AfterEdge
    <3>2. state' = "Idle"
      BY <1>1, <2>1, <2>3, Zenon DEF BridgeEdge
    <3>3. ram' = <<x>> /\ BridgeKnows'
      BY <2>1, <3>1, <3>2 DEF BridgeKnows
    <3> QED BY <1>3, <2>2, <2>3, <2>r, <3>2, <3>3, ZenonT(60)
  <2>4. CASE ~IsRam(h)
    <3>1. ram' = <<>>
      BY <1>1, <2>1, <2>2, <2>4, ZenonT(60) DEF AfterEdge
    <3>2. req_q' = h /\ state' = CASE h.word \in BeyondBus -> "ErrResp"
                                 [] h.we /\ h.word \notin BeyondBus -> "WriteReq"
                                 [] OTHER -> "ReadReq"
      BY <1>1, <2>1, <2>2, <2>4, SMTT(30) DEF BridgeEdge
    <3>3. state' \in {"ErrResp", "WriteReq", "ReadReq"} /\ BridgeKnows'
      BY <3>2, <2>1, Zenon DEF BridgeKnows, Reqs
    <3>4. req_q' = x
      BY <2>1, <3>2, Zenon
    <3>5. state' # "Idle"
          /\ state' \in {"Idle", "ErrResp", "WriteReq", "WriteResp", "ReadReq", "ReadResp"}
      BY <3>3, Zenon
    <3> QED BY <1>3, <2>2, <2>4, <2>r, <3>1, <3>3, <3>4, <3>5, ZenonT(60)
  <2> QED BY <2>3, <2>4, Zenon
<1>4. CASE ~busy /\ ~pop
  <2>1. ram = <<>> /\ state = "Idle"
    BY <1>4, OnOneWay, Zenon
  <2>2. busy' = FALSE /\ sel_ram' = sel_ram /\ ram' = <<>>
    BY <1>1, <1>4, <2>1 DEF AfterEdge, RamValid
  <2>3. ~(Accept /\ ~IsRam(h))
    BY <1>4, <2>1, Zenon DEF Gnt
  <2>4. state' = "Idle"
    BY <1>1, <2>1, <2>3, ZenonT(60) DEF BridgeEdge
  <2> QED BY <1>0, <1>2, <1>4, <2>2, <2>4, ZenonT(30) DEF BridgeKnows
<1>5. CASE busy /\ sel_ram
  <2>1. ram = <<Current>> /\ state = "Idle" /\ x = Current
    BY <1>5, OnOneWay, Zenon
  <2>2. ~pop /\ ~Accept
    BY <1>2, <1>5, Zenon DEF Accept
  <2>3. state' = "Idle"
    BY <1>1, <2>1, <2>2, Zenon DEF BridgeEdge
  <2>4. push <=> RamValid(in) /\ RReady
    BY <1>5, Zenon DEF RValid
  <2>5. sel_ram' = sel_ram /\ (busy' <=> ~push) /\ busy' \in BOOLEAN
    BY <1>1, <1>5, <2>2, Zenon
  <2>6. ram' = IF push THEN <<>> ELSE ram
    BY <1>1, <2>1, <2>2, <2>4, SMTT(30) DEF AfterEdge
  <2> QED BY <1>0, <1>5, <2>1, <2>2, <2>3, <2>5, <2>6, SMTT(30) DEF BridgeKnows
<1>6. CASE busy /\ ~sel_ram
  <2>1. ram = <<>> /\ state # "Idle" /\ req_q = Current /\ x = Current
    BY <1>6, OnOneWay, Zenon
  <2>2. ~pop /\ ~RamValid(in)
    BY <1>2, <1>6, <2>1, Zenon DEF RamValid
  <2>3. ram' = <<>>
    BY <1>1, <2>1, <2>2, ZenonT(60) DEF AfterEdge
  <2>4. sel_ram' = sel_ram /\ (busy' <=> ~push) /\ busy' \in BOOLEAN
    BY <1>1, <1>6, <2>2, ZenonT(60)
  <2>5. push <=> BridgeValid(in) /\ RReady
    BY <1>6, Zenon DEF RValid
  <2>6. req_q' = req_q
    BY <1>1, <2>1, Zenon DEF BridgeEdge
  <2>7. IF push THEN state' = "Idle"
        ELSE /\ state' \in {"ErrResp", "WriteReq", "WriteResp", "ReadReq", "ReadResp"}
             /\ state' = state \/ (state = "WriteReq" /\ state' = "WriteResp")
                 \/ (state = "ReadReq" /\ state' = "ReadResp")
    BY <1>0, <1>1, <2>1, <2>5, Zenon DEF BridgeEdge, BridgeValid
  <2>8. BridgeKnows'
    BY <1>0, <2>6, <2>7, ZenonT(60) DEF BridgeKnows
  <2> QED BY <1>0, <1>6, <2>1, <2>2, <2>3, <2>4, <2>6, <2>7, <2>8, SMTT(30)
<1> QED BY <1>0, <1>3, <1>4, <1>5, <1>6, Zenon

\* One edge of the whole path: the queue moves on as a queue.
LEMMA EdgeStep ==
  ASSUME PathInv, NEW in \in Inputs, Edge(in)
  PROVE  PathInv'
<1> DEFINE enters == core # {} /\ Len(reqq) < FifoDepth
           push == RValid(in) /\ RReady
           pop == Gnt(in)
           leaves == rspq # <<>>
           asked == CHOOSE r \in core : TRUE
           answer == IF sel_ram THEN RamResponse ELSE BridgeResponse
<1>1. /\ reqq \in Seq(Reqs) /\ rspq \in Seq(Responses) /\ acc \in Seq(Granted)
      /\ core \in SUBSET Reqs /\ busy \in BOOLEAN /\ sel_ram \in BOOLEAN
      /\ Len(rspq) \in Nat /\ Len(reqq) \in Nat /\ Len(acc) \in Nat
  BY DEF PathInv
<1>2. /\ core' = IF enters THEN {} ELSE core
      /\ reqq' = AfterEdge(reqq, enters, asked, pop)
      /\ rspq' = AfterEdge(rspq, push, answer, leaves)
      /\ acc' = AfterEdge(acc, enters, [req |-> asked, mine |-> TRUE], leaves)
  <2>1. reqq' = Fifo(reqq, enters, asked, pop) /\ rspq' = Fifo(rspq, push, answer, leaves)
    BY Zenon DEF Edge
  <2>2. Fifo(reqq, enters, asked, pop) = AfterEdge(reqq, enters, asked, pop)
    <3>1. enters \in BOOLEAN /\ (enters => Len(reqq) < FifoDepth)
      BY Zenon
    <3> HIDE DEF enters, asked, pop
    <3> QED BY <3>1, Zenon DEF Fifo, AfterEdge
  <2>3. Fifo(rspq, push, answer, leaves) = AfterEdge(rspq, push, answer, leaves)
    BY Zenon DEF Fifo, AfterEdge, RReady
  <2> QED BY <2>1, <2>2, <2>3, Zenon DEF Edge
<1>3. enters => asked \in Reqs
  BY <1>1, Zenon
<1>4. enters \in BOOLEAN /\ push \in BOOLEAN /\ pop \in BOOLEAN /\ leaves \in BOOLEAN
  BY Zenon DEF RValid, RReady, Gnt
<1>5. (pop => ~busy /\ reqq # <<>>) /\ (push => busy)
  BY Zenon DEF Gnt, Accept, RValid
<1>6. PICK n \in Nat, m \in {0, 1}, k \in Nat :
        /\ n = Len(rspq) /\ m = Count(busy) /\ k = Len(reqq) /\ Len(acc) = n + m + k
        /\ \A i \in 1..n : rspq[i] = Expected(acc[i].req)
        /\ \A i \in 1..k : reqq[i] = acc[n + m + i].req
  <2>1. Count(busy) \in {0, 1} /\ Count(busy) = IF busy THEN 1 ELSE 0
    BY Zenon DEF Count
  <2>2. PathIsQueue
    BY Zenon DEF PathInv
  <2> QED BY <1>1, <2>1, <2>2, ZenonT(60) DEF PathIsQueue
<1>7. push => answer = Expected(acc[n + 1].req) /\ answer \in Responses
  <2> SUFFICES ASSUME push PROVE answer = Expected(acc[n + 1].req) /\ answer \in Responses
    BY Zenon
  <2>1. busy /\ Current = acc[n + 1].req /\ Current \in Reqs
    BY <1>5, <1>6, OnOneWay, Zenon DEF Current
  <2>2. CASE sel_ram
    BY <2>1, <2>2, OnOneWay, ExpectedType DEF RamResponse
  <2>3. CASE ~sel_ram
    <3>1. req_q = Current /\ BridgeValid(in)
      BY <2>1, <2>3, OnOneWay, Zenon DEF RValid
    <3>2. state \in {"ErrResp", "WriteResp", "ReadResp"}
      BY <3>1, Zenon DEF BridgeValid
    <3> QED BY <2>1, <2>3, <3>1, <3>2, BridgeAnswers, ExpectedType, Zenon
  <2> QED BY <2>2, <2>3, Zenon
<1>8. leaves => acc # <<>>
  BY <1>1, <1>6
<1>9. PICK e \in {0, 1}, p \in {0, 1}, g \in {0, 1}, l \in {0, 1} :
        e = Count(enters) /\ p = Count(push) /\ g = Count(pop) /\ l = Count(leaves)
  BY Zenon DEF Count
<1>10. /\ reqq' \in Seq(Reqs) /\ Len(reqq') = k + e - g
       /\ \A i \in 1..(k - g) : reqq'[i] = reqq[i + g]
       /\ enters => reqq'[k + 1 - g] = asked
  <2>1. IsEdgeOf(reqq', reqq, Reqs, enters, asked, pop)
    BY <1>1, <1>2, <1>3, <1>4, <1>5, AfterEdgeFacts, ZenonT(30)
  <2> QED BY <1>6, <1>9, <2>1, ZenonT(60) DEF IsEdgeOf
<1>11. /\ rspq' \in Seq(Responses) /\ Len(rspq') = n + p - l
       /\ \A i \in 1..(n - l) : rspq'[i] = rspq[i + l]
       /\ push => rspq'[n + 1 - l] = answer
  <2>1. IsEdgeOf(rspq', rspq, Responses, push, answer, leaves)
    BY <1>1, <1>2, <1>4, <1>7, AfterEdgeFacts, ZenonT(30)
  <2> QED BY <1>6, <1>9, <2>1 DEF IsEdgeOf
<1>12. /\ acc' \in Seq(Granted) /\ Len(acc') = Len(acc) + e - l
       /\ \A i \in 1..(Len(acc) - l) : acc'[i] = acc[i + l]
       /\ enters => acc'[Len(acc) + 1 - l] = [req |-> asked, mine |-> TRUE]
  <2>1. enters => [req |-> asked, mine |-> TRUE] \in Granted
    BY <1>3, Zenon DEF Granted
  <2>2. IsEdgeOf(acc', acc, Granted, enters, [req |-> asked, mine |-> TRUE], leaves)
    BY <1>1, <1>2, <1>4, <1>8, <2>1, AfterEdgeFacts, ZenonT(60)
  <2> QED BY <1>6, <1>9, <2>2, Zenon DEF IsEdgeOf
<1>13. PICK x : x = IF busy THEN Current ELSE Head(reqq)
  BY Zenon
<1>14. /\ busy' \in BOOLEAN /\ sel_ram' \in BOOLEAN
       /\ busy' <=> (busy /\ ~push) \/ pop
       /\ ~busy' => ram' = <<>> /\ state' = "Idle"
       /\ busy' /\ sel_ram' => ram' = <<x>> /\ state' = "Idle"
       /\ busy' /\ ~sel_ram' => ram' = <<>> /\ state' # "Idle" /\ req_q' = x
       /\ state' \in {"Idle", "ErrResp", "WriteReq", "WriteResp", "ReadReq", "ReadResp"}
       /\ BridgeKnows'
  BY <1>13, OneWayEdge, Zenon
<1>15. PICK q \in {0, 1} : /\ q = m + g - p /\ (busy' <=> q = 1)
                           /\ p <= m /\ g + m <= 1 /\ g <= k /\ l <= n
  <2>1. /\ (m = 1 <=> busy) /\ (p = 1 <=> push) /\ (g = 1 <=> pop) /\ (l = 1 <=> leaves)
        /\ m \in {0, 1} /\ p \in {0, 1} /\ g \in {0, 1} /\ l \in {0, 1}
    BY <1>1, <1>4, <1>6, <1>9, SMTT(30) DEF Count
  <2>2. (reqq # <<>> => k > 0) /\ (rspq # <<>> => n > 0)
    BY <1>1, <1>6, SMTT(30)
  <2>3. p <= m /\ g + m <= 1 /\ g <= k /\ l <= n
    BY <1>5, <2>1, <2>2
  <2>4. busy' <=> (m = 1 /\ p = 0) \/ g = 1
    BY <1>14, <2>1, Zenon
  <2>5. m + g - p \in {0, 1} /\ (m + g - p = 1 <=> (m = 1 /\ p = 0) \/ g = 1)
    BY <2>1, <2>3
  <2> QED BY <2>3, <2>4, <2>5, Zenon
<1>16. PICK N \in Nat, K \in Nat, t \in Nat :
         /\ N = Len(rspq') /\ N = n + p - l /\ K = Len(reqq') /\ K = k + e - g
         /\ t = Len(acc) /\ t = n + m + k /\ Len(acc') = t + e - l /\ t + e - l = N + q + K
  <2>1. n + p - l \in Nat /\ k + e - g \in Nat
    BY <1>15
  <2>2. (n + m + k) + e - l = (n + p - l) + q + (k + e - g)
    BY <1>15
  <2>3. /\ Len(rspq') = n + p - l /\ Len(reqq') = k + e - g
        /\ Len(acc) = n + m + k /\ Len(acc') = (n + m + k) + e - l
    BY <1>6, <1>10, <1>11, <1>12, ZenonT(60)
  <2>4. n + m + k \in Nat
    BY SMTT(30)
  <2> QED BY <2>1, <2>2, <2>3, <2>4, ZenonT(60)
<1>a. /\ \A i \in 1..(t - l) : acc'[i] = acc[i + l]
      /\ enters => acc'[t + 1 - l].req = asked
  BY <1>12, <1>16, SMTT(30)
<1>17. ASSUME NEW i \in 1..N PROVE rspq'[i] = Expected(acc'[i].req)
  <2>1. CASE i \in 1..(n - l)
    <3>1. i + l \in 1..n /\ i \in 1..(t - l)
      BY <1>15, <1>16, <2>1
    <3> QED BY <1>6, <1>11, <1>a, <2>1, <3>1, ZenonT(60)
  <2>2. CASE i \notin 1..(n - l)
    <3>1. p = 1 /\ i = n + 1 - l
      BY <1>15, <1>16, <2>2, SMTT(30)
    <3>2. push
      BY <1>4, <1>9, <3>1, SMTT(30) DEF Count
    <3>3. i \in 1..(t - l) /\ i + l = n + 1
      BY <1>15, <1>16, <3>1
    <3> QED BY <1>7, <1>11, <1>a, <3>1, <3>2, <3>3, SMTT(30)
  <2> QED BY <2>1, <2>2, ZenonT(60)
<1>18. ASSUME NEW i \in 1..K PROVE reqq'[i] = acc'[N + q + i].req
  <2>1. CASE i \in 1..(k - g)
    <3>1. i + g \in 1..k /\ N + q + i \in 1..(t - l) /\ (N + q + i) + l = n + m + (i + g)
      BY <1>15, <1>16, <2>1
    <3>2. acc'[N + q + i] = acc[n + m + (i + g)]
      BY <1>a, <3>1, Zenon
    <3> QED BY <1>6, <1>10, <2>1, <3>1, <3>2, ZenonT(30)
  <2>2. CASE i \notin 1..(k - g)
    <3>1. e = 1 /\ i = k + 1 - g /\ N + q + i = t + 1 - l
      BY <1>15, <1>16, <2>2, SMTT(30)
    <3>2. enters
      BY <1>4, <1>9, <3>1, SMTT(30) DEF Count
    <3> QED BY <1>10, <1>a, <3>1, <3>2, ZenonT(60)
  <2> QED BY <2>1, <2>2, ZenonT(60)
<1>19. busy' => x = acc'[Len(rspq') + 1].req
  <2> SUFFICES ASSUME busy' PROVE x = acc'[Len(rspq') + 1].req
    BY Zenon
  <2>1. p = 0 /\ m + k >= 1
    BY <1>15, SMTT(30)
  <2>2. N + 1 \in 1..(t - l) /\ (N + 1) + l = n + 1
    BY <1>15, <1>16, <2>1, SMTT(30)
  <2>3. acc'[Len(rspq') + 1].req = Current
    BY <1>6, <1>16, <1>a, <2>2, Zenon DEF Current
  <2>4. ~busy => reqq # <<>>
    BY <1>5, <1>14, ZenonT(60)
  <2> QED BY <1>13, <2>3, <2>4, OnOneWay, ZenonT(60)
<1>20. PathIsQueue'
  <2>1. (IF busy' THEN 1 ELSE 0) = q
    BY <1>14, <1>15, Zenon
  <2>2. ram' = IF busy' /\ sel_ram' THEN <<acc'[Len(rspq') + 1].req>> ELSE <<>>
    BY <1>14, <1>19, Zenon
  <2>3. (state' # "Idle") = (busy' /\ ~sel_ram')
    BY <1>14, Zenon
  <2>4. state' # "Idle" => req_q' = acc'[Len(rspq') + 1].req
    BY <1>14, <1>19, Zenon
  <2> QED BY <1>16, <1>17, <1>18, <2>1, <2>2, <2>3, <2>4, ZenonT(30) DEF PathIsQueue
<1>21. core' \in SUBSET Reqs /\ ram' \in Seq(Reqs)
  <2>1. busy' => x \in Reqs
    <3>1. busy => x = Current /\ Current \in Reqs
      BY <1>13, OnOneWay, Zenon
    <3>2. ~busy /\ busy' => x = Head(reqq) /\ Head(reqq) \in Reqs
      BY <1>5, <1>13, <1>14, OnOneWay, ZenonT(60)
    <3> QED BY <1>1, <3>1, <3>2, Zenon
  <2>2. ram' = <<>> \/ (ram' = <<x>> /\ x \in Reqs)
    BY <1>14, <2>1, ZenonT(60)
  <2>3. <<>> \in Seq(Reqs) /\ \A r \in Reqs : <<r>> \in Seq(Reqs)
    OBVIOUS
  <2>4. ram' \in Seq(Reqs)
    BY <2>2, <2>3, ZenonT(60)
  <2> QED BY <1>1, <1>2, <2>4, Zenon
<1> QED BY <1>10, <1>11, <1>12, <1>14, <1>20, <1>21, SMTT(30) DEF PathInv

\* A function on 1..n is a sequence of length n.
LEMMA SeqOf ==
  ASSUME NEW S, NEW n \in Nat, NEW f \in [1..n -> S]
  PROVE  f \in Seq(S) /\ Len(f) = n
OBVIOUS

\* A request of the core, a reset of the core and its end leave the path as it
\* is: a reset forgets whose requests they were, not the requests.
LEMMA CoreStep ==
  ASSUME PathInv, (\E r \in CoreReqs : Ask(r)) \/ CoreReset \/ CoreRelease
  PROVE  PathInv'
<1>1. /\ reqq' = reqq /\ rspq' = rspq /\ busy' = busy /\ sel_ram' = sel_ram
      /\ state' = state /\ req_q' = req_q /\ ram' = ram
  BY Zenon DEF Ask, CoreReset, CoreRelease, bridgeVars
<1>2. core' \in SUBSET Reqs
  BY PathAssumption DEF PathInv, Ask, CoreReset, CoreRelease
<1>3. /\ acc' \in Seq(Granted) /\ Len(acc') = Len(acc)
      /\ \A i \in 1..Len(acc) : acc'[i].req = acc[i].req
  <2>1. acc \in Seq(Granted) /\ \A i \in 1..Len(acc) : acc[i] \in Granted
    BY DEF PathInv
  <2>2. CASE acc' = acc
    BY <2>1, <2>2, Zenon
  <2>3. CASE CoreReset
    <3>1. acc' = [i \in DOMAIN acc |-> [acc[i] EXCEPT !.mine = FALSE]] /\ DOMAIN acc = 1..Len(acc)
      BY <2>1, <2>3 DEF CoreReset
    <3>2. \A i \in 1..Len(acc) : [acc[i] EXCEPT !.mine = FALSE] \in Granted
                                /\ [acc[i] EXCEPT !.mine = FALSE].req = acc[i].req
      BY <2>1, Zenon DEF Granted
    <3>3. Len(acc) \in Nat
      BY <2>1
    <3>4. acc' \in [1..Len(acc) -> Granted]
      BY <3>1, <3>2, Zenon
    <3>5. acc' \in Seq(Granted) /\ Len(acc') = Len(acc)
      BY <3>3, <3>4, SeqOf, ZenonT(60)
    <3> QED BY <3>1, <3>2, <3>5, ZenonT(60)
  <2> QED BY <2>2, <2>3, ZenonT(60) DEF Ask, CoreRelease
<1>4. PathIsQueue'
  <2>1. PathIsQueue /\ Len(rspq) \in Nat /\ Len(reqq) \in Nat /\ Len(acc) \in Nat /\ busy \in BOOLEAN
    BY DEF PathInv
  <2>2. PICK n \in Nat, k \in Nat, m \in {0, 1} :
          n = Len(rspq) /\ k = Len(reqq) /\ m = (IF busy THEN 1 ELSE 0)
    BY <2>1, Zenon
  <2>3. /\ Len(acc) = n + m + k
        /\ \A i \in 1..n : rspq[i] = Expected(acc[i].req)
        /\ \A i \in 1..k : reqq[i] = acc[n + m + i].req
        /\ ram = IF busy /\ sel_ram THEN <<acc[n + 1].req>> ELSE <<>>
        /\ (state # "Idle") = (busy /\ ~sel_ram)
        /\ state # "Idle" => req_q = acc[n + 1].req
    BY <2>1, <2>2, ZenonT(60) DEF PathIsQueue
  <2>4. /\ \A i \in 1..n : i \in 1..Len(acc)
        /\ \A i \in 1..k : n + m + i \in 1..Len(acc)
        /\ busy => n + 1 \in 1..Len(acc)
    BY <2>2, <2>3, SMTT(30)
  <2>5. /\ \A i \in 1..n : rspq[i] = Expected(acc'[i].req)
        /\ \A i \in 1..k : reqq[i] = acc'[n + m + i].req
        /\ busy => acc'[n + 1].req = acc[n + 1].req
    BY <1>3, <2>3, <2>4, Zenon
  <2>6. /\ ram = IF busy /\ sel_ram THEN <<acc'[n + 1].req>> ELSE <<>>
        /\ state # "Idle" => req_q = acc'[n + 1].req
    BY <2>1, <2>3, <2>5, ZenonT(60)
  <2> QED BY <1>1, <1>3, <2>2, <2>3, <2>5, <2>6, ZenonT(60) DEF PathIsQueue
<1>5. BridgeKnows'
  BY <1>1, Zenon DEF PathInv, BridgeKnows
<1> QED BY <1>1, <1>2, <1>3, <1>4, <1>5, ZenonT(60) DEF PathInv

\* Every edge, and every step of the core and of the targets, keeps the invariant.
LEMMA PathStep == PathInv /\ [Next]_vars => PathInv'
<1> SUFFICES ASSUME PathInv, [Next]_vars PROVE PathInv'
  BY Zenon
<1>1. CASE \E in \in Inputs : Edge(in)
  BY <1>1, EdgeStep, Zenon
<1>2. CASE (\E r \in CoreReqs : Ask(r)) \/ CoreReset \/ CoreRelease
  BY <1>2, CoreStep, Zenon
<1>3. CASE UNCHANGED vars
  BY <1>3, Zenon DEF PathInv, PathIsQueue, BridgeKnows, vars, bridgeVars
<1> QED BY <1>1, <1>2, <1>3, Zenon DEF Next

\* The invariant that carries the properties of the path holds in every state.
THEOREM PathSafe == Spec => []PathInv
  BY PathInitOK, PathStep, PTL DEF Spec

\* soc_obi_mem_buffer, the request router of soc_top and soc_obi_to_axi: what the
\* core was granted leaves them in order, each access with the response it is
\* owed, whatever the pace of RAM and fabric.
THEOREM PathAlwaysQueue == Spec => []PathIsQueue
<1>1. PathInv => PathIsQueue
  BY Zenon DEF PathInv
<1> QED BY <1>1, PathSafe, PTL

-----------------------------------------------------------------------------
(* The access of the bridge.                                                *)

\* An aligned run of bytes is recognised as one.
LEMMA RunIsNarrow ==
  ASSUME NEW k \in {1, 2, 4}, NEW j \in 0..3, NEW be, be # {},
         be = {i \in Bytes : i \div k = j}
  PROVE  Narrow(be)
<1>1. PICK a \in Bytes : a = k * j /\ a + k - 1 \in Bytes /\ a % k = 0
  <2>1. PICK i \in Bytes : i \div k = j
    BY Zenon
  <2>2. CASE k = 1
    BY <2>1, <2>2 DEF Bytes, ObiBytes
  <2>3. CASE k = 2
    BY <2>1, <2>3 DEF Bytes, ObiBytes
  <2>4. CASE k = 4
    BY <2>1, <2>4 DEF Bytes, ObiBytes
  <2> QED BY <2>2, <2>3, <2>4, ZenonT(60)
<1>2. \A i \in Bytes : i \div k = j <=> a <= i /\ i <= a + k - 1
  <2>2. CASE k = 1
    BY <1>1, <2>2, SMTT(30) DEF Bytes, ObiBytes
  <2>3. CASE k = 2
    BY <1>1, <2>3 DEF Bytes, ObiBytes
  <2>4. CASE k = 4
    BY <1>1, <2>4, SMTT(30) DEF Bytes, ObiBytes
  <2> QED BY <2>2, <2>3, <2>4, Zenon
<1>3. be = a..(a + k - 1)
  BY <1>1, <1>2 DEF Bytes, ObiBytes
<1>4. Cardinality(be) = k
  <2>1. a \in Int /\ a + k - 1 \in Int /\ ~(a > a + k - 1) /\ (a + k - 1) - a + 1 = k
    BY DEF Bytes, ObiBytes
  <2>2. Cardinality(a..(a + k - 1)) = IF a > a + k - 1 THEN 0 ELSE (a + k - 1) - a + 1
    BY <2>1, FS_Interval, Zenon
  <2> QED BY <1>3, <2>1, <2>2, Zenon
<1>5. Min(be) = a
  <2>1. be \in SUBSET Bytes /\ a \in be
    BY <1>1, <1>3 DEF Bytes, ObiBytes
  <2>2. Min(be) \in be /\ Min(be) <= a
    BY <2>1, LeastByte, Zenon
  <2>3. a \in Int /\ a + k - 1 \in Int
    BY DEF Bytes, ObiBytes
  <2>4. \A x \in a..(a + k - 1) : x <= a => x = a
    BY <2>3
  <2> QED BY <1>3, <2>2, <2>4, ZenonT(60)
<1> QED BY <1>1, <1>3, <1>4, <1>5, ZenonT(60) DEF Narrow

\* The bus byte of an enabled byte is on the lane of its word.
LEMMA StrobeOf ==
  ASSUME NEW word \in Nat, NEW i \in Bytes
  PROVE  (ObiBytes * word + i) % (2 * ObiBytes) = ObiBytes * LaneOf(word) + i
<1>1. PICK q \in Nat : word = 2 * q \/ word = 2 * q + 1
  <2>1. (word \div 2) \in Nat /\ word = 2 * (word \div 2) + (word % 2) /\ (word % 2) \in {0, 1}
    OBVIOUS
  <2> QED BY <2>1
<1>2. i \in {0, 1, 2, 3}
  BY DEF Bytes, ObiBytes
<1>3. CASE word = 2 * q
  <2>1. word % 2 = 0
    BY <1>3, SMTT(30)
  <2>2. (8 * q + i) % 8 = i
    BY <1>2, SMTT(30)
  <2>3. 4 * word + i = 8 * q + i
    BY <1>3, <1>2, SMTT(30)
  <2> QED BY <1>2, <2>1, <2>2, <2>3, SMTT(30) DEF ObiBytes, LaneOf
<1>4. CASE word = 2 * q + 1
  <2>1. word % 2 = 1
    BY <1>4
  <2>2. (8 * q + (4 + i)) % 8 = 4 + i
    BY <1>2
  <2>3. 4 * word + i = 8 * q + (4 + i)
    BY <1>4, <1>2
  <2> QED BY <1>2, <2>1, <2>2, <2>3, SMTT(30) DEF ObiBytes, LaneOf
<1> QED BY <1>1, <1>3, <1>4, ZenonT(60)

\* An address m bytes into a word is aligned when m is.
LEMMA AlignedInWord ==
  ASSUME NEW word \in Nat, NEW m \in Bytes, NEW k \in {1, 2, 4}, m % k = 0
  PROVE  (ObiBytes * word + m) % k = 0
<1>1. m \in {0, 1, 2, 3}
  BY DEF Bytes, ObiBytes
<1>2. CASE k = 1
  BY <1>1, <1>2 DEF ObiBytes
<1>3. CASE k = 2
  BY <1>1, <1>3 DEF ObiBytes
<1>4. CASE k = 4
  BY <1>1, <1>4 DEF ObiBytes
<1> QED BY <1>2, <1>3, <1>4, ZenonT(60)

\* ax_encode and expand_be: the access encodes exactly the captured request.
LEMMA RequestExact ==
  ASSUME req_q \in Reqs
  PROVE  Exact(req_q, Encode(req_q.word, req_q.be))
<1> DEFINE w == req_q.word
           be == req_q.be
           enabled == {ObiBytes * w + i : i \in be}
<1>1. w \in Nat /\ be \in SUBSET Bytes
  BY PathAssumption, Zenon DEF Reqs, Bytes
<1>2. PICK m \in Bytes, k \in {1, 2, 4} :
        /\ Encode(w, be) = [addr |-> ObiBytes * w + m, bytes |-> k]
        /\ m % k = 0 /\ m + k - 1 \in Bytes
        /\ be \subseteq m..(m + k - 1)
        /\ Narrow(be) => be = m..(m + k - 1)
  BY <1>1, EncodeFacts, ZenonT(60)
<1>3. Encode(w, be).addr = ObiBytes * w + m /\ Encode(w, be).bytes = k
  BY <1>2
<1>4. Footprint(req_q) = (ObiBytes * w + m)..(ObiBytes * w + m + k - 1)
  BY <1>3, Zenon DEF Footprint
<1>5. \A i \in Bytes : i \in m..(m + k - 1) => ObiBytes * w + i \in Footprint(req_q)
  BY <1>1, <1>4, SMTT(30) DEF Bytes, ObiBytes
<1>6. \A b \in Footprint(req_q) : \E i \in m..(m + k - 1) : b = ObiBytes * w + i
  <2> SUFFICES ASSUME NEW b \in Footprint(req_q)
               PROVE  b - ObiBytes * w \in m..(m + k - 1) /\ b = ObiBytes * w + (b - ObiBytes * w)
    BY Zenon
  <2>1. PICK c \in Int : c = ObiBytes * w
    BY <1>1 DEF ObiBytes
  <2>2. m \in Int /\ k \in Int
    BY DEF Bytes, ObiBytes
  <2>3. b \in (c + m)..(c + m + k - 1)
    BY <1>4, <2>1, ZenonT(60)
  <2>4. b - c \in m..(m + k - 1) /\ b = c + (b - c)
    BY <2>2, <2>3, SMTT(30)
  <2> QED BY <2>1, <2>4, Zenon
<1>7. enabled \subseteq Footprint(req_q)
  BY <1>1, <1>2, <1>5, Zenon
<1>8. ASSUME be \in AlignedRuns
      PROVE  Footprint(req_q) = enabled
  <2>1. PICK kk \in {1, 2, 4}, j \in 0..3 : be = {i \in Bytes : i \div kk = j}
    <3> DEFINE Run(kk, j) == {i \in 0..ObiBytes - 1 : i \div kk = j}
    <3>1. be \in {Run(kk, j) : kk \in {1, 2, 4}, j \in 0..3}
      BY <1>8, SMTT(30) DEF AlignedRuns
    <3> HIDE DEF Run
    <3>2. \E kk \in {1, 2, 4}, j \in 0..3 : be = Run(kk, j)
      BY ONLY <3>1, SMTT(30)
    <3> USE DEF Run
    <3> QED BY <3>2, ZenonT(60) DEF Bytes
  <2>2. Narrow(be)
    <3>1. be # {}
      BY <1>8 DEF AlignedRuns
    <3> QED BY <2>1, <3>1, RunIsNarrow, Zenon
  <2>3. be = m..(m + k - 1)
    BY <1>2, <2>2, Zenon
  <2>4. Footprint(req_q) \subseteq enabled
    BY <1>6, <2>3, Zenon
  <2> QED BY <1>7, <2>4, Zenon
<1>9. (ObiBytes * w + m) % k = 0
  BY <1>1, <1>2, AlignedInWord, ZenonT(60)
<1>10. Strobes(w, be) = {b % (2 * ObiBytes) : b \in enabled}
  <2>1. \A i \in be : (ObiBytes * w + i) % (2 * ObiBytes) = ObiBytes * LaneOf(w) + i
    BY <1>1, StrobeOf, Zenon
  <2>2. \A x : x \in {b % (2 * ObiBytes) : b \in enabled}
                 <=> \E i \in be : x = (ObiBytes * w + i) % (2 * ObiBytes)
    <3>1. \A b : b \in enabled <=> \E i \in be : b = ObiBytes * w + i
      BY Zenon
    <3> HIDE DEF enabled
    <3> QED BY ONLY <3>1, ZenonT(60)
  <2>3. \A x : x \in Strobes(w, be) <=> \E i \in be : x = ObiBytes * LaneOf(w) + i
    BY Zenon DEF Strobes
  <2> HIDE DEF enabled
  <2>4. \A x : x \in Strobes(w, be) <=> x \in {b % (2 * ObiBytes) : b \in enabled}
    <3>1. \A x : (\E i \in be : x = ObiBytes * LaneOf(w) + i)
                  <=> (\E i \in be : x = (ObiBytes * w + i) % (2 * ObiBytes))
      BY ONLY <2>1, Zenon
    <3> QED BY ONLY <3>1, <2>2, <2>3, Zenon
  <2> QED BY ONLY <2>4, Zenon
<1>11. Encode(w, be).bytes \in {1, 2, 4} /\ Encode(w, be).addr % Encode(w, be).bytes = 0
  BY <1>3, <1>9, Zenon
<1>12. Enabled(req_q) = enabled
  BY Zenon DEF Enabled
<1> HIDE DEF enabled
<1> QED
  BY <1>7, <1>8, <1>10, <1>11, <1>12, ZenonT(60) DEF Exact

\* ax_encode and expand_be: while the bridge asks for an access on its AXI side,
\* the access covers the bytes the core enabled, is aligned, covers no other
\* byte when they are an aligned run, and its strobes are those bytes.
THEOREM AccessAlwaysExact == Spec => []AccessExact
<1>1. PathInv => AccessExact
  <2> SUFFICES ASSUME PathInv, state \in {"WriteReq", "ReadReq"} PROVE AccessExact
    BY Zenon DEF AccessExact
  <2>1. busy \in BOOLEAN /\ sel_ram \in BOOLEAN
    BY Zenon DEF PathInv
  <2>2. req_q \in Reqs
    BY <2>1, OnOneWay, Zenon
  <2> QED BY <2>2, RequestExact, Zenon DEF AccessExact
<1> QED
  BY <1>1, PathSafe, PTL

-----------------------------------------------------------------------------
(* Plic. *)

\* A non-empty set of naturals has a least element.
LEMMA LeastNat ==
  ASSUME NEW S \in SUBSET Nat, S # {}
  PROVE  \E m \in S : \A k \in S : m <= k
<1> DEFINE LT == {ss \in Nat \X Nat : ss[1] < ss[2]}
<1>1. IsWellFoundedOn(LT, Nat)
  BY NatLessThanWellFounded, Zenon DEF OpToRel
<1>2. \A k, m \in S : <<k, m>> \in LT <=> k < m
  BY Zenon
<1> HIDE DEF LT
<1>3. PICK m \in S : \A k \in S : ~ (<<k, m>> \in LT)
  BY <1>1, WFMin, Zenon
<1>4. \A k \in S : ~(k < m)
  BY <1>2, <1>3, Zenon
<1>5. \A k \in S : m <= k
  BY <1>4
<1> QED BY <1>5, Zenon

-----------------------------------------------------------------------------
\* The best source before the first round, and after round n when it was b before.
NoBest == [id |-> 0, prio |-> 0]

AfterRound(b, n) ==
  IF Candidate(NumSources + 1 - n) /\ Beats(prio[NumSources + 1 - n], b.prio)
  THEN [id |-> NumSources + 1 - n, prio |-> prio[NumSources + 1 - n]] ELSE b

\* f is what the first m rounds yield.
Rounds(f, m) == f = [n \in 0..m |-> IF n = 0 THEN NoBest ELSE AfterRound(f[n - 1], n)]

\* The loop over the sources computes something, for any number of rounds.
LEMMA RoundsExist ==
  ASSUME NEW m \in Nat
  PROVE  \E f : Rounds(f, m)
<1> DEFINE Bad == {k \in Nat : ~ \E f : Rounds(f, k)}
<1> SUFFICES ASSUME Bad # {} PROVE FALSE
  BY Zenon
<1>1. PICK k \in Bad : \A j \in Bad : k <= j
  BY LeastNat, Zenon
<1>2. CASE k = 0
  <2>1. Rounds([n \in 0..0 |-> NoBest], 0)
    BY DEF Rounds
  <2> QED BY <1>2, <2>1, ZenonT(60)
<1>3. CASE k # 0
  <2>1. k - 1 \in Nat /\ k \in Nat /\ ~(k - 1 \in Bad)
    BY <1>1, <1>3
  <2>2. PICK f : Rounds(f, k - 1)
    BY <2>1, Zenon
  <2> DEFINE g == [n \in 0..k |-> IF n = k THEN AfterRound(f[k - 1], k) ELSE f[n]]
             h == [n \in 0..k |-> IF n = 0 THEN NoBest ELSE AfterRound(g[n - 1], n)]
  <2>3. ASSUME NEW n \in 0..k PROVE g[n] = h[n]
    <3>1. CASE n = 0
      BY <1>3, <2>1, <2>2, <3>1, SMTT(30) DEF Rounds
    <3>2. CASE n # 0 /\ n # k
      <4>1. n \in 0..(k - 1) /\ n - 1 \in 0..k /\ n - 1 # k
        BY <2>1, <3>2, SMTT(30)
      <4>2. g[n] = f[n] /\ g[n - 1] = f[n - 1]
        BY <3>2, <4>1, ZenonT(60)
      <4>3. f[n] = AfterRound(f[n - 1], n)
        BY <2>2, <3>2, <4>1, ZenonT(60) DEF Rounds
      <4>4. h[n] = AfterRound(g[n - 1], n)
        BY <3>2, Zenon
      <4> QED BY <4>2, <4>3, <4>4, ZenonT(60)
    <3>3. CASE n = k
      <4>1. g[k - 1] = f[k - 1] /\ g[k] = AfterRound(f[k - 1], k)
        BY <2>1, <3>3, SMTT(30)
      <4>2. h[k] = AfterRound(g[k - 1], k)
        BY <1>3, <3>3, ZenonT(60)
      <4> QED BY <3>3, <4>1, <4>2, ZenonT(60)
    <3> QED BY <3>1, <3>2, <3>3, ZenonT(60)
  <2>4. g = h
    BY <2>3, Zenon
  <2>5. Rounds(g, k)
    BY <2>4, ZenonT(60) DEF Rounds
  <2> QED BY <2>5, Zenon
<1> QED BY <1>2, <1>3, Zenon

\* One of the rounds.
LEMMA RoundsAt ==
  ASSUME NEW f, NEW m, Rounds(f, m), NEW n \in 0..m
  PROVE  f[n] = IF n = 0 THEN NoBest ELSE AfterRound(f[n - 1], n)
<1> DEFINE g == [k \in 0..m |-> IF k = 0 THEN NoBest ELSE AfterRound(f[k - 1], k)]
<1>1. f = g
  BY Zenon DEF Rounds
<1>2. g[n] = IF n = 0 THEN NoBest ELSE AfterRound(f[n - 1], n)
  BY Zenon
<1> HIDE DEF g
<1>3. f[n] = g[n]
  BY ONLY <1>1, Zenon
<1> QED BY <1>2, <1>3, ZenonT(60)

\* So it computes what its rounds say.
LEMMA RoundIs ==
  /\ Round[0] = NoBest
  /\ \A n \in 1..NumSources : Round[n] = AfterRound(Round[n - 1], n)
<1>1. Rounds(Round, NumSources)
  <2>1. PICK f : Rounds(f, NumSources)
    BY RoundsExist, PlicAssumption, ZenonT(60)
  <2> QED
    BY <2>1, Zenon DEF Rounds, Round, AfterRound, NoBest
<1>2. \A n \in 0..NumSources : Round[n] = IF n = 0 THEN NoBest ELSE AfterRound(Round[n - 1], n)
  <2> TAKE n \in 0..NumSources
  <2> DEFINE r == Round
  <2>1. Rounds(r, NumSources)
    BY <1>1, ZenonT(60)
  <2> HIDE DEF r
  <2>2. r[n] = IF n = 0 THEN NoBest ELSE AfterRound(r[n - 1], n)
    BY <2>1, RoundsAt, ZenonT(60)
  <2> QED BY <2>2, ZenonT(60) DEF r
<1>3. 0 \in 0..NumSources /\ \A n \in 1..NumSources : n \in 0..NumSources /\ n # 0
  BY PlicAssumption
<1> QED
  BY <1>2, <1>3, ZenonT(60)

\* The candidates the first n rounds have visited.
Seen(n) == {s \in Sources : s > NumSources - n /\ Candidate(s)}

\* b is the best of the sources in S.
IsBest(b, S) ==
  IF S = {} THEN b = NoBest
  ELSE /\ b.id \in S /\ b.prio = prio[b.id]
       /\ \A t \in S : prio[t] < b.prio \/ (prio[t] = b.prio /\ b.id <= t)

\* A round visits one source more, with a lower id than those before: it wins a tie.
LEMMA RoundStep ==
  ASSUME PlicTypeOK, NEW n \in 1..NumSources, NEW b, IsBest(b, Seen(n - 1))
  PROVE  IsBest(AfterRound(b, n), Seen(n))
<1> DEFINE s == NumSources + 1 - n
<1>1. s \in Sources /\ NumSources \in Nat /\ n \in Nat
  BY PlicAssumption, SMTT(30) DEF Sources
<1>2. Sources \subseteq Nat /\ \A t \in Sources : prio[t] \in Nat
  BY PlicAssumption, SMTT(30) DEF PlicTypeOK, Sources, Prios
<1>3. \A t \in Sources : t > NumSources - n <=> t > NumSources - (n - 1) \/ t = s
  BY <1>1, <1>2, SMTT(30)
<1>4. \A t : t \in Seen(n) <=> t \in Seen(n - 1) \/ (t = s /\ Candidate(s))
  BY <1>1, <1>3, ZenonT(60) DEF Seen
<1>5. \A t \in Seen(n - 1) : t \in Nat /\ s < t /\ prio[t] \in Nat
  BY <1>1, <1>2, SMTT(30) DEF Seen
<1>6. CASE ~Candidate(s)
  <2>1. Seen(n) = Seen(n - 1) /\ AfterRound(b, n) = b
    BY <1>4, <1>6, ZenonT(60) DEF AfterRound
  <2> QED BY <2>1, Zenon
<1>7. CASE Candidate(s) /\ Seen(n - 1) = {}
  <2>1. Seen(n) = {s} /\ b = NoBest
    BY <1>4, <1>7, SMTT(30) DEF IsBest
  <2>2. AfterRound(b, n) = [id |-> s, prio |-> prio[s]]
    BY <1>1, <1>2, <1>7, <2>1, SMTT(30) DEF AfterRound, Beats, NoBest
  <2> QED BY <1>1, <1>2, <2>1, <2>2, SMTT(30) DEF IsBest
<1>8. CASE Candidate(s) /\ Seen(n - 1) # {}
  <2>1. /\ b.id \in Seen(n - 1) /\ b.prio = prio[b.id]
        /\ \A t \in Seen(n - 1) : prio[t] < b.prio \/ (prio[t] = b.prio /\ b.id <= t)
    BY <1>8, Zenon DEF IsBest
  <2>2. b.prio \in Nat /\ b.id \in Nat /\ prio[s] \in Nat /\ s \in Nat
    BY <1>1, <1>2, <1>5, <2>1, ZenonT(60)
  <2>3. CASE prio[s] >= b.prio
    <3>1. AfterRound(b, n).id = s /\ AfterRound(b, n).prio = prio[s]
      BY <1>8, <2>3, ZenonT(60) DEF AfterRound, Beats
    <3> HIDE DEF s
    <3>2. ASSUME NEW t \in Seen(n)
          PROVE  prio[t] < prio[s] \/ (prio[t] = prio[s] /\ s <= t)
      BY <1>4, <1>5, <2>1, <2>2, <2>3, SMTT(30)
    <3> QED BY <1>4, <1>8, <3>1, <3>2, ZenonT(60) DEF IsBest
  <2>4. CASE ~(prio[s] >= b.prio)
    <3>1. AfterRound(b, n) = b
      BY <2>4, ZenonT(60) DEF AfterRound, Beats
    <3> HIDE DEF s
    <3>2. \A t \in Seen(n) : prio[t] < b.prio \/ (prio[t] = b.prio /\ b.id <= t)
      BY <1>4, <2>1, <2>2, <2>4, SMTT(30)
    <3> QED BY <1>4, <1>8, <2>1, <3>1, <3>2, ZenonT(60) DEF IsBest
  <2> QED BY <2>3, <2>4, Zenon
<1> QED BY <1>6, <1>7, <1>8, ZenonT(60)

\* best_id and best_prio, whatever the registers hold.
LEMMA RoundsBest ==
  ASSUME PlicTypeOK
  PROVE  \A n \in 0..NumSources : IsBest(Round[n], Seen(n))
<1> DEFINE Bad == {n \in 0..NumSources : ~IsBest(Round[n], Seen(n))}
<1> SUFFICES ASSUME Bad # {} PROVE FALSE
  BY Zenon
<1>1. Bad \in SUBSET Nat
  BY PlicAssumption
<1>2. PICK n \in Bad : \A k \in Bad : n <= k
  BY <1>1, LeastNat, Zenon
<1>3. CASE n = 0
  <2>1. Seen(0) = {}
    <3>1. \A s \in Sources : ~(s > NumSources - 0)
      BY PlicAssumption DEF Sources
    <3> QED BY <3>1, Zenon DEF Seen
  <2> QED BY <1>2, <1>3, <2>1, RoundIs, ZenonT(60) DEF IsBest
<1>4. CASE n # 0
  <2>1. n \in 1..NumSources /\ n - 1 \in 0..NumSources /\ ~(n <= n - 1)
    BY <1>2, <1>4, PlicAssumption, SMTT(30)
  <2>2. IsBest(Round[n - 1], Seen(n - 1))
    BY <1>2, <2>1, ZenonT(60)
  <2>3. IsBest(Round[n], Seen(n))
    BY <2>1, <2>2, RoundIs, RoundStep, ZenonT(60)
  <2> QED BY <1>2, <2>3, ZenonT(60)
<1> QED BY <1>3, <1>4, Zenon

\* A claim reads 0, or a source that is pending.
LEMMA BestFacts ==
  ASSUME PlicTypeOK
  PROVE  /\ BestIsHighest
         /\ BestId = 0 \/ (BestId \in Sources /\ BestId \in ip)
<1> DEFINE C == {s \in Sources : Candidate(s)}
           b == Round[NumSources]
<1>1. Seen(NumSources) = C
  BY PlicAssumption, SMTT(30) DEF Seen, Sources
<1>2. IsBest(b, C)
  BY <1>1, RoundsBest, PlicAssumption, SMTT(30)
<1>3. \A t \in C : prio[t] \in Nat /\ t \in Nat
  BY PlicAssumption DEF PlicTypeOK, Sources, Prios
<1>4. BestId = b.id
  BY Zenon DEF BestId
<1> HIDE DEF b
<1>5. CASE C = {}
  <2>1. BestId = 0
    BY <1>2, <1>4, <1>5, SMTT(30) DEF IsBest, NoBest
  <2> QED BY <1>5, <2>1, ZenonT(60) DEF BestIsHighest
<1>6. CASE C # {}
  <2>1. /\ b.id \in C /\ b.prio = prio[b.id]
        /\ \A t \in C : prio[t] < b.prio \/ (prio[t] = b.prio /\ b.id <= t)
    BY <1>2, <1>6, ZenonT(60) DEF IsBest
  <2> DEFINE highest == {s \in C : \A t \in C : prio[t] <= prio[s]}
  <2> HIDE DEF C
  <2>2. b.id \in highest
    BY <1>3, <2>1, SMTT(30)
  <2>3. \A s \in highest : b.id <= s
    BY <1>3, <2>1, SMTT(30)
  <2>4. BestIsHighest
    BY <1>4, <1>6, <2>2, <2>3, ZenonT(60) DEF BestIsHighest, C
  <2>5. BestId \in Sources /\ BestId \in ip
    BY <1>4, <2>1, Zenon DEF C, Candidate
  <2> QED BY <2>4, <2>5, ZenonT(60)
<1> QED BY <1>5, <1>6, ZenonT(60)

-----------------------------------------------------------------------------
\* The gateway rule, and that the source being served was not left closed before: its
\* gateway was open when it was claimed.
PlicInv ==
  /\ GatewayRule
  /\ hart.at = "idle" => hart = Idle
  /\ hart.at # "idle" => hart.id \in Sources \ dropped

\* What prio_t keeps of a written word is a priority.
LEMMA PrioOfType == \A v \in Nat : PrioOf(v) \in Prios
BY PlicAssumption DEF PrioOf, Prios

\* At reset no source is pending and every gateway is open.
LEMMA PlicInitInv == PlicInit => PlicInv
<1> SUFFICES ASSUME PlicInit PROVE PlicInv
  BY Zenon
<1>1. 0 \in Prios /\ 0 \in 0..NumSources
  BY PlicAssumption DEF Prios
<1>2. PlicTypeOK
  BY <1>1, Zenon DEF PlicInit, PlicTypeOK, Idle
<1> QED
  BY <1>2, Zenon DEF PlicInit, PlicInv, GatewayRule, Idle

\* The gateway latches what asks and is not served, except the source claimed.
LEMMA GatewayLatches ==
  ASSUME ip \subseteq line \ active, NEW claimed
  PROVE  Gateway(claimed) \subseteq (line \ active) \ claimed
BY Zenon DEF Gateway

\* The claim: the handler gets a pending source, whose gateway closes.
LEMMA ClaimInv ==
  ASSUME PlicInv, Claim
  PROVE  PlicInv'
<1>1. PlicTypeOK /\ ip \subseteq line \ active /\ hart = Idle /\ active = dropped
  BY Zenon DEF PlicInv, GatewayRule, Claim
<1>2. BestId = 0 \/ (BestId \in Sources /\ BestId \in ip)
  BY <1>1, BestFacts, ZenonT(60)
<1>3. UNCHANGED <<prio, en, threshold, line, dropped>>
  BY Zenon DEF Claim
<1>4. CASE BestId = 0
  <2>1. ip' = Gateway({}) /\ active' = active /\ hart' = Idle
    BY <1>4, Zenon DEF Claim
  <2>2. ip' \subseteq line \ active
    BY <1>1, <2>1, GatewayLatches, Zenon
  <2>3. PlicTypeOK'
    BY <1>1, <1>3, <2>1, <2>2, ZenonT(60) DEF PlicTypeOK
  <2> QED
    BY <1>1, <1>3, <2>1, <2>2, <2>3, ZenonT(60) DEF PlicInv, GatewayRule, Idle
<1>5. CASE BestId # 0
  <2> DEFINE s == BestId
  <2>1. s \in Sources /\ s \in ip
    BY <1>2, <1>5, Zenon
  <2>2. ip' = Gateway({s}) /\ active' = active \union {s} /\ hart' = [at |-> "claimed", id |-> s]
    BY <1>5, <2>1, ZenonT(60) DEF Claim, Sources
  <2> HIDE DEF s
  <2>3. ip' \subseteq (line \ active) \ {s}
    BY <1>1, <2>2, GatewayLatches, ZenonT(60)
  <2>4. s \in line /\ s \notin active /\ s \in 0..NumSources
    BY <1>1, <2>1, SMTT(30) DEF Sources
  <2>5. PlicTypeOK'
    BY <1>1, <1>3, <2>1, <2>2, <2>3, <2>4, ZenonT(60) DEF PlicTypeOK
  <2> QED
    BY <1>1, <1>3, <2>1, <2>2, <2>3, <2>4, <2>5, ZenonT(60) DEF PlicInv, GatewayRule, Idle
<1> QED BY <1>4, <1>5, Zenon

\* The handler serves the device: its line goes down, and it was not pending.
LEMMA ServeInv ==
  ASSUME PlicInv, Serve
  PROVE  PlicInv'
<1>1. PlicTypeOK /\ ip \subseteq line \ active /\ hart.id \in Sources \ dropped /\ hart.id \in active
  BY DEF PlicInv, GatewayRule, Serve, Idle
<1>2. UNCHANGED <<prio, ip, en, active, threshold, dropped>> /\ line' = line \ {hart.id}
  BY Zenon DEF Serve
<1>3. hart'.at = "served" /\ hart'.id = hart.id /\ hart' \in [at : {"idle", "claimed", "served"}, id : 0..NumSources]
  BY <1>1, Zenon DEF Serve, PlicTypeOK
<1>4. PlicTypeOK'
  BY <1>1, <1>2, <1>3, ZenonT(60) DEF PlicTypeOK
<1>5. active = dropped \union {hart.id} /\ hart' # Idle
  BY <1>3 DEF PlicInv, GatewayRule, Serve, Idle
<1> QED
  BY <1>1, <1>2, <1>3, <1>4, <1>5 DEF PlicInv, GatewayRule

\* The completion opens the gateway, unless the source is disabled.
LEMMA CompleteInv ==
  ASSUME PlicInv, Complete
  PROVE  PlicInv'
<1>1. /\ PlicTypeOK /\ ip \subseteq line \ active /\ hart.id \in Sources \ dropped
      /\ active = dropped \union {hart.id}
  BY DEF PlicInv, GatewayRule, Complete, Idle
<1>2. UNCHANGED <<prio, en, threshold, line>> /\ hart' = Idle /\ ip' = Gateway({})
  BY Zenon DEF Complete
<1>3. ip' \subseteq line \ active
  BY <1>1, <1>2, GatewayLatches, ZenonT(60)
<1>4. active' = dropped' /\ active' \subseteq active
  BY <1>1, ZenonT(60) DEF Complete, Completed
<1>5. Idle \in [at : {"idle", "claimed", "served"}, id : 0..NumSources]
  BY PlicAssumption DEF Idle
<1>6. PlicTypeOK'
  BY <1>1, <1>2, <1>3, <1>4, <1>5, ZenonT(60) DEF PlicTypeOK
<1> QED
  BY <1>2, <1>3, <1>4, <1>6, ZenonT(60) DEF PlicInv, GatewayRule, Idle

\* What software writes, an edge without a request and a device that asks leave the
\* gateways as they are.
LEMMA OtherInv ==
  ASSUME PlicInv, ip' = Gateway({}) \/ ip' = ip, line \subseteq line', line' \subseteq Sources,
         prio' \in [Sources -> Prios], en' \subseteq Sources, threshold' \in Prios,
         UNCHANGED <<active, hart, dropped>>
  PROVE  PlicInv'
<1>1. PlicTypeOK /\ ip \subseteq line \ active
  BY ZenonT(60) DEF PlicInv, GatewayRule
<1>2. ip' \subseteq line' \ active
  BY <1>1, GatewayLatches, SMTT(30)
<1>3. PlicTypeOK'
  BY <1>1, <1>2, ZenonT(60) DEF PlicTypeOK
<1>4. hart.at = "claimed" => hart.id \in line'
  BY ZenonT(60) DEF PlicInv, GatewayRule
<1> QED
  BY <1>2, <1>3, <1>4, ZenonT(60) DEF PlicInv, GatewayRule

\* Every step of PLIC, devices and software.
LEMMA PlicNextInv == PlicInv /\ [PlicNext]_plicVars => PlicInv'
<1> SUFFICES ASSUME PlicInv, [PlicNext]_plicVars PROVE PlicInv'
  BY Zenon
<1>1. PlicTypeOK
  BY Zenon DEF PlicInv, GatewayRule
<1>2. CASE IdleEdge \/ UNCHANGED plicVars
  BY <1>1, <1>2, OtherInv, ZenonT(60) DEF IdleEdge, plicVars, PlicTypeOK
<1>3. CASE \E s \in Sources : Raise(s)
  BY <1>1, <1>3, OtherInv, ZenonT(60) DEF Raise, PlicTypeOK
<1>4. CASE \E s \in Sources, v \in 0..2^PrioWidth : WritePrio(s, v)
  <2>1. PICK s \in Sources, v \in 0..2^PrioWidth : WritePrio(s, v)
    BY <1>4, Zenon
  <2>2. PrioOf(v) \in Prios
    BY PrioOfType, PlicAssumption, SMTT(30)
  <2>3. prio' \in [Sources -> Prios]
    BY <1>1, <2>1, <2>2, ZenonT(60) DEF WritePrio, PlicTypeOK
  <2> QED BY <1>1, <2>1, <2>3, OtherInv, ZenonT(60) DEF WritePrio, PlicTypeOK
<1>5. CASE \E set \in SUBSET Sources : WriteEnable(set)
  BY <1>1, <1>5, OtherInv, ZenonT(60) DEF WriteEnable, PlicTypeOK
<1>6. CASE \E v \in 0..2^PrioWidth : WriteThreshold(v)
  <2>1. PICK v \in 0..2^PrioWidth : WriteThreshold(v)
    BY <1>6, Zenon
  <2>2. PrioOf(v) \in Prios
    BY PrioOfType, PlicAssumption, SMTT(30)
  <2> QED BY <1>1, <2>1, <2>2, OtherInv, SMTT(30) DEF WriteThreshold, PlicTypeOK
<1> QED
  BY <1>2, <1>3, <1>4, <1>5, <1>6, ClaimInv, ServeInv, CompleteInv, SMTT(30) DEF PlicNext

\* What a step takes out of ip, the handler has just claimed.
LEMMA ClearsByClaim ==
  ASSUME PlicInv, [PlicNext]_plicVars, NEW s \in ip, s \notin ip'
  PROVE  hart = Idle /\ hart'.at = "claimed" /\ hart'.id = s
<1>1. s \in Gateway({})
  BY Zenon DEF Gateway
<1>2. PlicTypeOK
  BY Zenon DEF PlicInv, GatewayRule
<1>3. Claim
  BY <1>1, Zenon DEF PlicNext, plicVars, IdleEdge, Serve, Complete, Raise, WritePrio, WriteEnable, WriteThreshold
<1>4. BestId = s /\ s # 0
  BY <1>2, <1>3, Zenon DEF Claim, Gateway, PlicTypeOK, Sources
<1> QED
  BY <1>3, <1>4, Zenon DEF Claim

\* soc_plic, for any number of sources and priorities, whatever software writes: a source
\* is pending only while its device asks and its gateway is open; a gateway is closed
\* exactly while its source is served, or because its completion was ignored; a claim gets
\* the lowest of the sources of highest priority; and nothing but that claim takes a
\* request back.
THEOREM GatewayAlwaysKept == PlicSpec => GatewayKept
<1>1. PlicSpec => []PlicInv
  BY PlicInitInv, PlicNextInv, PTL DEF PlicSpec
<1>2. PlicInv => GatewayRule /\ BestIsHighest
  BY BestFacts, Zenon DEF PlicInv, GatewayRule
<1>3. PlicInv /\ [PlicNext]_plicVars
        => [\A s \in ip : s \notin ip' => hart = Idle /\ hart'.at = "claimed" /\ hart'.id = s]_plicVars
  BY ClearsByClaim, Zenon
<1> QED
  BY <1>1, <1>2, <1>3, PTL DEF PlicSpec, GatewayKept, OnlyClaimClears

-----------------------------------------------------------------------------
(* CvwAdapter. *)

\* The lanes of an aligned transfer are its bytes.
LEMMA LanesAreBytes ==
  ASSUME NEW t \in Transfers
  PROVE  {4 * (t.addr \div 4) + i : i \in Cvw!AhbBe(t.addr, t.size)} = Cvw!Bytes(t)
<1>1. /\ t.addr \in Nat /\ t.size \in {0, 1, 2}
      /\ t.size = 1 => t.addr % 2 = 0
      /\ t.size = 2 => t.addr % 4 = 0
  BY TransfersAssumption
<1> DEFINE a == t.addr
           q == a \div 4
           m == a % 4
<1>2. a = 4 * q + m /\ q \in Nat /\ m \in 0..3
  BY <1>1, SMTT(30)
<1>3. a % 2 = 0 => m \in {0, 2}
  BY <1>1
<1> HIDE DEF a, q, m
<1>4. CASE t.size = 0
  <2>1. Cvw!AhbBe(a, t.size) = {m} /\ Cvw!Bytes(t) = a..(a + 0)
    BY <1>4, SMTT(30) DEF Cvw!AhbBe, Cvw!Bytes, m, a
  <2>2. {4 * q + i : i \in {m}} = a..(a + 0)
    BY ONLY <1>2
  <2> QED BY <2>1, <2>2, Zenon DEF q, a
<1>5. CASE t.size = 1
  <2>1. Cvw!AhbBe(a, t.size) = (IF m >= 2 THEN {2, 3} ELSE {0, 1}) /\ Cvw!Bytes(t) = a..(a + 1)
    BY <1>5 DEF Cvw!AhbBe, Cvw!Bytes, m, a
  <2>2. m \in {0, 2}
    BY <1>1, <1>3, <1>5, Zenon DEF a
  <2>3. {4 * q + i : i \in IF m >= 2 THEN {2, 3} ELSE {0, 1}} = a..(a + 1)
    <3>1. m = 2 => {4 * q + i : i \in {2, 3}} = a..(a + 1)
      BY ONLY <1>2, SMTT(30)
    <3>2. m = 0 => {4 * q + i : i \in {0, 1}} = a..(a + 1)
      BY ONLY <1>2
    <3>3. (m = 2 => m >= 2) /\ (m = 0 => ~(m >= 2))
      OBVIOUS
    <3> QED BY <2>2, <3>1, <3>2, <3>3, ZenonT(60)
  <2> QED BY <2>1, <2>3, Zenon DEF q, a
<1>6. CASE t.size = 2
  <2>1. Cvw!AhbBe(a, t.size) = 0..3 /\ Cvw!Bytes(t) = a..(a + 3)
    BY <1>6 DEF Cvw!AhbBe, Cvw!Bytes, m, a
  <2>2. m = 0
    BY <1>1, <1>6, ZenonT(60) DEF m, a
  <2>3. {4 * q + i : i \in 0..3} = a..(a + 3)
    BY ONLY <1>2, <2>2
  <2> QED BY <2>1, <2>3, Zenon DEF q, a
<1> QED BY <1>1, <1>4, <1>5, <1>6, ZenonT(60)

\* The request registers hold the transfer of the data phase.
Captured ==
  /\ dp \in Transfers
  /\ addr_q = dp.addr /\ we_q = dp.we /\ be_q = Cvw!AhbBe(dp.addr, dp.size)

\* corejack_cvw_ahb_adapter, state by state.
CvwInv ==
  /\ state_q \in {"Idle", "WriteData", "Issue", "WaitRsp", "ErrFirst", "Rsp"}
  /\ ap \in Transfers \union {NoTransfer}
  /\ state_q = "Idle" => dp = NoTransfer
  /\ state_q # "Idle" => Captured
  /\ state_q = "WriteData" => dp.we
  /\ state_q \in {"Issue", "WaitRsp"} /\ dp.we => wdata_q = dp.data
  /\ state_q \notin {"ErrFirst", "Rsp"} => ~err_q
  /\ state_q \in {"ErrFirst", "Rsp"} => rdata_q = Cvw!Answer(dp).data /\ err_q = Cvw!Answer(dp).err
  /\ state_q = "ErrFirst" => err_q
  /\ ahbBus = IF state_q = "WaitRsp" THEN <<Cvw!Request>> ELSE <<>>

\* After reset the AHB adapter is idle.
LEMMA CvwInitInv == Cvw!CvwInit => CvwInv
BY Zenon DEF Cvw!CvwInit, CvwInv

\* What the adapter has captured is what the core asked for.
LEMMA CvwInvExact == CvwInv => Cvw!AhbExact
<1> SUFFICES ASSUME CvwInv PROVE Cvw!AhbExact
  BY Zenon
<1>1. (dp = NoTransfer) = (state_q = "Idle")
  BY TransfersAssumption, Zenon DEF CvwInv, Captured
<1>2. ASSUME state_q = "Issue"
      PROVE  /\ Cvw!Request.addr = dp.addr /\ Cvw!Request.we = dp.we
             /\ {4 * (Cvw!Request.addr \div 4) + i : i \in Cvw!Request.be} = Cvw!Bytes(dp)
             /\ dp.we => Cvw!Request.data = dp.data
  <2>1. /\ Captured /\ Cvw!Request.addr = dp.addr /\ Cvw!Request.we = dp.we
        /\ Cvw!Request.be = Cvw!AhbBe(dp.addr, dp.size) /\ Cvw!Request.data = wdata_q
    BY <1>2, Zenon DEF CvwInv, Captured, Cvw!Request
  <2>2. {4 * (dp.addr \div 4) + i : i \in Cvw!AhbBe(dp.addr, dp.size)} = Cvw!Bytes(dp)
    BY <2>1, LanesAreBytes, ZenonT(60) DEF Captured
  <2> QED BY <1>2, <2>1, <2>2, ZenonT(60) DEF CvwInv
<1>3. ASSUME state_q = "Rsp"
      PROVE  [data |-> rdata_q, err |-> err_q] = Cvw!Answer(dp)
  BY <1>3, ZenonT(60) DEF CvwInv, Cvw!Answer
<1> QED BY <1>1, <1>2, <1>3, ZenonT(60) DEF Cvw!AhbExact, CvwInv

\* Every edge of the AHB adapter, and its reset, keeps its invariant.
LEMMA CvwNextInv == CvwInv /\ [Cvw!CvwNext]_cvwVars => CvwInv'
<1> SUFFICES ASSUME CvwInv, [Cvw!CvwNext]_cvwVars PROVE CvwInv'
  BY Zenon
<1>1. CASE Cvw!Reset
  BY <1>1, Zenon DEF Cvw!Reset, CvwInv
<1>2. CASE UNCHANGED cvwVars
  <2>1. Cvw!Request' = Cvw!Request /\ Cvw!Answer(dp)' = Cvw!Answer(dp) /\ (Captured' <=> Captured)
    BY <1>2, Zenon DEF cvwVars, Cvw!Request, Cvw!Answer, Captured, Cvw!AhbBe
  <2> QED BY <1>2, <2>1, Zenon DEF cvwVars, CvwInv
<1>3. ASSUME NEW in \in Cvw!Inputs, Cvw!Edge(in) PROVE CvwInv'
  <2>1. in.next \in Transfers \union {NoTransfer} /\ (in.rvalid => ahbBus # <<>>)
    BY Zenon DEF Cvw!Inputs
  <2>2. CASE Cvw!AcceptTransfer
    <3>1. dp' = ap /\ ap' = in.next /\ err_q' = FALSE /\ ahbBus' = ahbBus /\ ahbBus = <<>>
      BY <1>3, <2>2, ZenonT(60) DEF Cvw!AcceptTransfer, Cvw!Edge, Cvw!Core, Cvw!HReady, CvwInv
    <3>2. CASE ap = NoTransfer
      <4>1. state_q' = "Idle"
        BY <2>2, <3>2, ZenonT(60) DEF Cvw!AcceptTransfer, Cvw!AcceptAddr
      <4> QED BY <2>1, <3>1, <3>2, <4>1, ZenonT(60) DEF CvwInv
    <3>3. CASE ap # NoTransfer
      <4>1. /\ addr_q' = ap.addr /\ we_q' = ap.we /\ be_q' = Cvw!AhbBe(ap.addr, ap.size)
            /\ state_q' = IF ap.we THEN "WriteData" ELSE "Issue"
        BY <2>2, <3>3, Zenon DEF Cvw!AcceptTransfer, Cvw!AcceptAddr, Cvw!HReady
      <4>2. ap \in Transfers /\ Cvw!AhbBe(dp.addr, dp.size)' = Cvw!AhbBe(ap.addr, ap.size)
        BY <3>1, <3>3, Zenon DEF CvwInv, Cvw!AhbBe
      <4>3. Captured'
        BY <3>1, <4>1, <4>2, ZenonT(60) DEF Captured
      <4> QED BY <2>1, <3>1, <4>1, <4>3, SMTT(30) DEF CvwInv
    <3> QED BY <3>2, <3>3, ZenonT(60)
  <2>3. ASSUME ~Cvw!HReady
        PROVE  dp' = dp /\ ap' \in Transfers \union {NoTransfer}
    BY <1>3, <2>3, ZenonT(60) DEF Cvw!Edge, Cvw!Core, CvwInv
  <2>4. ASSUME UNCHANGED <<addr_q, be_q, we_q, dp>>
        PROVE  (Captured => Captured') /\ Cvw!Answer(dp)' = Cvw!Answer(dp)
    BY <2>4, Zenon DEF Captured, Cvw!AhbBe, Cvw!Answer
  <2>5. CASE Cvw!TakeWriteData
    BY <2>3, <2>4, <2>5, Zenon DEF Cvw!TakeWriteData, Cvw!HReady, CvwInv
  <2>6. CASE Cvw!IssueRequest(in.gnt)
    <3>1. /\ state_q = "Issue" /\ UNCHANGED <<addr_q, be_q, we_q, wdata_q, rdata_q, err_q>>
          /\ state_q' = IF in.gnt THEN "WaitRsp" ELSE "Issue"
          /\ ahbBus' = IF in.gnt THEN Append(ahbBus, Cvw!Request) ELSE ahbBus
          /\ ahbBus = <<>> /\ ~Cvw!HReady
      BY <2>6, ZenonT(60) DEF Cvw!IssueRequest, CvwInv, Cvw!HReady
    <3>2. Append(<<>>, Cvw!Request) = <<Cvw!Request>> /\ Cvw!Request' = Cvw!Request
      BY <3>1, SMTT(30) DEF Cvw!Request
    <3>3. Captured' /\ dp' = dp /\ ap' \in Transfers \union {NoTransfer}
      BY <2>3, <2>4, <3>1, SMTT(30) DEF CvwInv
    <3> QED BY <3>1, <3>2, <3>3, ZenonT(60) DEF CvwInv
  <2>7. CASE Cvw!TakeResponse(in.rvalid)
    <3>1. /\ state_q = "WaitRsp" /\ UNCHANGED <<addr_q, be_q, we_q, wdata_q>> /\ ~Cvw!HReady
          /\ ahbBus = <<Cvw!Request>>
      BY <2>7, ZenonT(60) DEF Cvw!TakeResponse, CvwInv, Cvw!HReady
    <3>2. Captured /\ Captured' /\ dp' = dp /\ ap' \in Transfers \union {NoTransfer}
          /\ Cvw!Answer(dp)' = Cvw!Answer(dp) /\ Cvw!Request' = Cvw!Request
      BY <2>3, <2>4, <3>1, ZenonT(60) DEF CvwInv, Cvw!Request
    <3>3. Cvw!Answer(Cvw!Request) = Cvw!Answer(dp) /\ (we_q => Cvw!Answer(dp).data = 0)
      BY <3>2, Zenon DEF Captured, Cvw!Answer, Cvw!Request
    <3>4. CASE ~in.rvalid
      BY <2>7, <3>1, <3>2, <3>4, ZenonT(60) DEF Cvw!TakeResponse, CvwInv
    <3>5. CASE in.rvalid
      <4>1. Head(ahbBus) = Cvw!Request /\ Tail(ahbBus) = <<>>
        BY <3>1, SMTT(30)
      <4>2. /\ rdata_q' = Cvw!Answer(dp).data /\ err_q' = Cvw!Answer(dp).err /\ ahbBus' = <<>>
            /\ state_q' = IF Cvw!Answer(dp).err THEN "ErrFirst" ELSE "Rsp"
        BY <2>7, <3>3, <3>5, <4>1, ZenonT(30) DEF Cvw!TakeResponse
      <4> QED BY <3>2, <4>2, SMTT(30) DEF CvwInv
    <3> QED BY <3>4, <3>5, ZenonT(60)
  <2>8. CASE Cvw!ErrorSecond
    BY <2>3, <2>4, <2>8, Zenon DEF Cvw!ErrorSecond, Cvw!HReady, CvwInv
  <2> QED BY <1>3, <2>2, <2>5, <2>6, <2>7, <2>8, SMTT(30) DEF Cvw!Edge
<1> QED BY <1>1, <1>2, <1>3, ZenonT(60) DEF Cvw!CvwNext

\* The second cycle of an error on AHB follows a first one of the same transfer.
LEMMA CvwErrorStep ==
  ASSUME CvwInv, Cvw!CvwNext, (Cvw!HReady /\ Cvw!HResp)'
  PROVE  ~Cvw!HReady /\ Cvw!HResp /\ dp' = dp
<1>1. state_q' \in {"Idle", "Rsp"} /\ err_q'
  BY Zenon DEF Cvw!HReady, Cvw!HResp
<1>2. PICK in \in Cvw!Inputs : Cvw!Edge(in)
  BY <1>1, ZenonT(60) DEF Cvw!CvwNext, Cvw!Reset
<1>3. ~Cvw!AcceptTransfer /\ ~Cvw!TakeWriteData /\ ~Cvw!IssueRequest(in.gnt)
  BY <1>1, ZenonT(60) DEF Cvw!AcceptTransfer, Cvw!TakeWriteData, Cvw!IssueRequest
<1>4. ~Cvw!TakeResponse(in.rvalid)
  BY <1>1, Zenon DEF Cvw!TakeResponse
<1>5. Cvw!ErrorSecond
  BY <1>2, <1>3, <1>4, ZenonT(60) DEF Cvw!Edge
<1> QED BY <1>2, <1>5, Zenon DEF Cvw!ErrorSecond, Cvw!HReady, Cvw!HResp, Cvw!Edge, Cvw!Core, CvwInv

-----------------------------------------------------------------------------
\* The answer a core has taken is its own; PicoRV32 takes a zero for a write.
Answers(n) ==
  got[n] # NoAccess => got[n].data = got[n].for \/ (kind = "picorv32" /\ got[n].for.we)

\* corejack_serv_socket_adapter: each bus has what its port owes.
ServInv ==
  /\ kind = "serv"
  /\ \A p \in {"instr", "data"} :
       /\ obiBus[p] = IF outstanding_q[p] THEN <<want[p]>> ELSE <<>>
       /\ outstanding_q[p] => want[p] # NoAccess
       /\ Answers(p)

\* corejack_picorv32_socket_adapter: outstanding_instr_q says which port owes.
PicoInv ==
  /\ kind = "picorv32"
  /\ \A p \in {"instr", "data"} :
       obiBus[p] = IF outstanding_q["data"] /\ Nat32!ObiPort("data") = p THEN <<want["data"]>> ELSE <<>>
  /\ ~outstanding_q["instr"]
  /\ instr_q = (outstanding_q["data"] /\ Nat32!ObiPort("data") = "instr")
  /\ outstanding_q["data"] => want["data"] # NoAccess /\ write_q = want["data"].we
  /\ Answers("data")

NativeInv ==
  /\ want \in [{"instr", "data"} -> Accesses \union {NoAccess}]
  /\ outstanding_q \in [{"instr", "data"} -> BOOLEAN]
  /\ ServInv \/ PicoInv

\* The ports a core has.
LEMMA NativePorts ==
  /\ Nat32!Ports = {"instr", "data"}
  /\ kind = "serv" => Nat32!Native = {"instr", "data"} /\ \A n : Nat32!ObiPort(n) = n
  /\ kind = "picorv32" => Nat32!Native = {"data"}
  /\ Nat32!ObiPort("data") \in {"instr", "data"}
BY ZenonT(60) DEF Nat32!Ports, Nat32!Native, Nat32!ObiPort

\* What OnceAndOwn says of the access on a port, without a choice.
LEMMA OnceServ == ServInv => Nat32!OnceAndOwn
<1> SUFFICES ASSUME ServInv PROVE Nat32!OnceAndOwn
  BY Zenon
<1> DEFINE under(p) == {n \in Nat32!Native : outstanding_q[n] /\ Nat32!ObiPort(n) = p}
<1>1. \A p \in {"instr", "data"} : under(p) = IF outstanding_q[p] THEN {p} ELSE {}
  BY NativePorts, ZenonT(60) DEF ServInv
<1>2. \A p \in {"instr", "data"} : outstanding_q[p] => (CHOOSE n \in under(p) : TRUE) = p
  BY <1>1
<1>3. \A p \in {"instr", "data"} : under(p) = {} <=> ~outstanding_q[p]
  BY <1>1, Zenon
<1>4. (/\ \A p \in Nat32!Ports :
             obiBus[p] = IF under(p) = {} THEN <<>> ELSE <<want[CHOOSE n \in under(p) : TRUE]>>
       /\ \A n \in Nat32!Native : outstanding_q[n] => want[n] # NoAccess
       /\ \A n \in Nat32!Native : Answers(n)) => Nat32!OnceAndOwn
  BY Zenon DEF Nat32!OnceAndOwn, Answers
<1> HIDE DEF under
<1>5. \A p \in Nat32!Ports :
         obiBus[p] = IF under(p) = {} THEN <<>> ELSE <<want[CHOOSE n \in under(p) : TRUE]>>
  BY <1>2, <1>3, NativePorts, ZenonT(60) DEF ServInv
<1> QED BY <1>4, <1>5, NativePorts, SMTT(30) DEF ServInv

\* The same for the one native port of PicoRV32.
LEMMA OncePico == PicoInv => Nat32!OnceAndOwn
<1> SUFFICES ASSUME PicoInv PROVE Nat32!OnceAndOwn
  BY Zenon
<1> DEFINE under(p) == {n \in Nat32!Native : outstanding_q[n] /\ Nat32!ObiPort(n) = p}
           on(p) == outstanding_q["data"] /\ Nat32!ObiPort("data") = p
<1>1. \A p \in {"instr", "data"} : under(p) = IF on(p) THEN {"data"} ELSE {}
  BY NativePorts, ZenonT(60) DEF PicoInv
<1>2. \A p \in {"instr", "data"} : on(p) => (CHOOSE n \in under(p) : TRUE) = "data"
  BY <1>1
<1>3. \A p \in {"instr", "data"} : under(p) = {} <=> ~on(p)
  BY <1>1, ZenonT(60)
<1>4. (/\ \A p \in Nat32!Ports :
             obiBus[p] = IF under(p) = {} THEN <<>> ELSE <<want[CHOOSE n \in under(p) : TRUE]>>
       /\ \A n \in Nat32!Native : outstanding_q[n] => want[n] # NoAccess
       /\ \A n \in Nat32!Native : Answers(n)) => Nat32!OnceAndOwn
  BY Zenon DEF Nat32!OnceAndOwn, Answers
<1>5. \A p \in {"instr", "data"} : obiBus[p] = IF on(p) THEN <<want["data"]>> ELSE <<>>
  BY ZenonT(60) DEF PicoInv
<1> HIDE DEF under, on
<1>6. \A p \in Nat32!Ports :
         obiBus[p] = IF under(p) = {} THEN <<>> ELSE <<want[CHOOSE n \in under(p) : TRUE]>>
  BY <1>2, <1>3, <1>5, NativePorts, ZenonT(60)
<1> QED BY <1>4, <1>6, NativePorts, SMTT(30) DEF PicoInv

\* At reset nobody asks and no port owes anything.
LEMMA NativeReset ==
  ASSUME kind \in {"picorv32", "serv"}, want = [p \in Nat32!Ports |-> NoAccess],
         outstanding_q = [p \in Nat32!Ports |-> FALSE], instr_q = FALSE,
         obiBus = [p \in Nat32!Ports |-> <<>>], got = [p \in Nat32!Ports |-> NoAccess]
  PROVE  NativeInv
<1>1. \A n \in {"instr", "data"} : ~outstanding_q[n] /\ obiBus[n] = <<>> /\ got[n] = NoAccess
  BY NativePorts, Zenon
<1>2. /\ want \in [{"instr", "data"} -> Accesses \union {NoAccess}]
      /\ outstanding_q \in [{"instr", "data"} -> BOOLEAN]
  BY NativePorts
<1> QED BY <1>1, <1>2, Zenon DEF NativeInv, ServInv, PicoInv, Answers

\* A core presents an access at a port that is idle.
LEMMA NativeAsk ==
  ASSUME NativeInv, NEW n \in Nat32!Ports, NEW a \in Accesses, Nat32!Ask(n, a)
  PROVE  NativeInv'
<1>1. /\ n \in Nat32!Native /\ want[n] = NoAccess /\ want' = [want EXCEPT ![n] = a]
      /\ UNCHANGED <<kind, outstanding_q, instr_q, write_q, obiBus, got>>
  BY Zenon DEF Nat32!Ask
<1>2. n \in {"instr", "data"}
  BY NativePorts, Zenon
<1>3. /\ want \in [{"instr", "data"} -> Accesses \union {NoAccess}]
      /\ outstanding_q \in [{"instr", "data"} -> BOOLEAN]
  BY Zenon DEF NativeInv
<1>4. want' \in [{"instr", "data"} -> Accesses \union {NoAccess}]
  BY <1>1, <1>2, <1>3, ZenonT(60)
<1>5. \A m \in {"instr", "data"} : Answers(m)' <=> Answers(m)
  BY <1>1, Zenon DEF Answers
<1>6. CASE ServInv
  <2>1. ~outstanding_q[n] /\ \A m \in {"instr", "data"} : m # n => want'[m] = want[m]
    BY <1>1, <1>2, <1>3, <1>6, ZenonT(60) DEF ServInv
  <2>2. ServInv'
    BY <1>1, <1>2, <1>5, <1>6, <2>1, SMTT(30) DEF ServInv
  <2> QED BY <1>1, <1>3, <1>4, <2>2, ZenonT(60) DEF NativeInv
<1>7. CASE PicoInv
  <2>1. n = "data" /\ ~outstanding_q["data"] /\ ~instr_q
    BY <1>1, <1>7, NativePorts, ZenonT(60) DEF PicoInv
  <2>2. PicoInv'
    BY <1>1, <1>5, <1>7, <2>1 DEF PicoInv
  <2> QED BY <1>1, <1>3, <1>4, <2>2, SMTT(30) DEF NativeInv
<1> QED BY <1>6, <1>7, Zenon DEF NativeInv

\* What a clock edge makes of a native port.
LEMMA EdgeTypes ==
  ASSUME NativeInv, NEW in, Nat32!Edge(in)
  PROVE  /\ want' \in [{"instr", "data"} -> Accesses \union {NoAccess}]
         /\ outstanding_q' \in [{"instr", "data"} -> BOOLEAN]
         /\ kind' = kind
<1>1. \A n \in {"instr", "data"} : want[n] \in Accesses \union {NoAccess} /\ outstanding_q[n] \in BOOLEAN
  BY Zenon DEF NativeInv
<1>2. want' \in [{"instr", "data"} -> Accesses \union {NoAccess}]
  BY <1>1, NativePorts, ZenonT(60) DEF Nat32!Edge
<1>3. \A n \in {"instr", "data"} : Nat32!Outstanding(in, n) \in BOOLEAN
  BY <1>1, Zenon DEF Nat32!Outstanding
<1>4. outstanding_q' \in [{"instr", "data"} -> BOOLEAN]
  BY <1>3, NativePorts, Zenon DEF Nat32!Edge
<1> QED BY <1>2, <1>4, ZenonT(60) DEF Nat32!Edge

\* A clock edge of the SERV adapter.
LEMMA ServEdge ==
  ASSUME NativeInv, ServInv, NEW in \in Nat32!Inputs, Nat32!Edge(in)
  PROVE  NativeInv'
<1>1. \A p \in {"instr", "data"} : p \in in.rvalid => outstanding_q[p]
  BY Zenon DEF Nat32!Inputs, ServInv
<1> DEFINE now(p) == {n \in Nat32!Native : Nat32!Granted(in, n) /\ Nat32!ObiPort(n) = p}
           G(p) == Nat32!Granted(in, p)
<1>2. kind = "serv"
  BY Zenon DEF ServInv
<1>3. \A p \in {"instr", "data"} : now(p) = IF G(p) THEN {p} ELSE {}
  BY <1>2, NativePorts, ZenonT(60)
<1>4. \A p \in {"instr", "data"} : G(p) => ~outstanding_q[p] /\ want[p] # NoAccess
  BY Zenon DEF Nat32!Granted, Nat32!Requests
<1>5. \A p \in {"instr", "data"} : Nat32!Answered(in, p) <=> p \in in.rvalid
  BY <1>1, <1>2, ZenonT(60) DEF Nat32!Answered, ServInv
<1>6. ASSUME NEW p \in {"instr", "data"}
      PROVE  /\ outstanding_q'[p] = IF p \in in.rvalid THEN FALSE ELSE IF G(p) THEN TRUE ELSE outstanding_q[p]
             /\ want'[p] = IF p \in in.rvalid THEN NoAccess ELSE want[p]
             /\ got'[p] = IF p \in in.rvalid THEN [for |-> want[p], data |-> Head(obiBus[p])] ELSE NoAccess
             /\ obiBus'[p] = LET rest == IF p \in in.rvalid THEN Tail(obiBus[p]) ELSE obiBus[p]
                             IN  IF G(p) THEN Append(rest, want[p]) ELSE rest
  <2>1. p \in Nat32!Ports /\ p \in Nat32!Native
    BY <1>2, NativePorts, ZenonT(60)
  <2>2. outstanding_q'[p] = Nat32!Outstanding(in, p)
    BY <2>1, ZenonT(60) DEF Nat32!Edge
  <2>3. want'[p] = IF p \in in.rvalid THEN NoAccess ELSE want[p]
    BY <1>5, <2>1, ZenonT(60) DEF Nat32!Edge
  <2>4. got'[p] = IF p \in in.rvalid THEN [for |-> want[p], data |-> Head(obiBus[p])] ELSE NoAccess
    BY <1>2, <1>5, <2>1, ZenonT(60) DEF Nat32!Edge, Nat32!Rdata
  <2>5. obiBus'[p] = LET rest == IF p \in in.rvalid THEN Tail(obiBus[p]) ELSE obiBus[p]
                     IN  IF now(p) = {} THEN rest ELSE Append(rest, want[CHOOSE n \in now(p) : TRUE])
    BY <2>1, ZenonT(60) DEF Nat32!Edge
  <2>6. G(p) => (CHOOSE n \in now(p) : TRUE) = p /\ now(p) # {}
    BY <1>3, SMTT(30)
  <2>7. ~G(p) => now(p) = {}
    BY <1>3, Zenon
  <2> HIDE DEF now, G
  <2>8. outstanding_q'[p] = IF p \in in.rvalid THEN FALSE ELSE IF G(p) THEN TRUE ELSE outstanding_q[p]
    BY <1>2, <2>2, ZenonT(60) DEF Nat32!Outstanding, Nat32!Clears, G
  <2> QED BY <2>3, <2>4, <2>5, <2>6, <2>7, <2>8, ZenonT(60)
<1> HIDE DEF now, G
<1>7. ASSUME NEW p \in {"instr", "data"}
      PROVE  /\ obiBus'[p] = IF outstanding_q'[p] THEN <<want'[p]>> ELSE <<>>
             /\ outstanding_q'[p] => want'[p] # NoAccess
             /\ Answers(p)'
  <2>1. obiBus[p] = (IF outstanding_q[p] THEN <<want[p]>> ELSE <<>>) /\ (outstanding_q[p] => want[p] # NoAccess)
    BY Zenon DEF ServInv
  <2>2. Head(<<want[p]>>) = want[p] /\ Tail(<<want[p]>>) = <<>> /\ Append(<<>>, want[p]) = <<want[p]>>
    OBVIOUS
  <2>3. CASE p \in in.rvalid
    <3>1. outstanding_q[p] /\ ~G(p)
      BY <1>1, <1>4, <2>3, ZenonT(60)
    <3>2. obiBus'[p] = <<>> /\ ~outstanding_q'[p]
      BY <1>6, <2>1, <2>2, <2>3, <3>1, ZenonT(30)
    <3>3. got'[p] = [for |-> want[p], data |-> want[p]]
      BY <1>6, <2>1, <2>2, <2>3, <3>1, ZenonT(60)
    <3>4. got'[p].data = got'[p].for
      BY <3>3, SMTT(30)
    <3> QED BY <3>2, <3>4, ZenonT(60) DEF Answers
  <2>4. CASE p \notin in.rvalid
    <3>1. got'[p] = NoAccess /\ want'[p] = want[p]
      BY <1>6, <2>4, ZenonT(60)
    <3>2. CASE outstanding_q[p]
      BY <1>4, <1>6, <2>1, <2>4, <3>1, <3>2, ZenonT(30) DEF Answers
    <3>3. CASE ~outstanding_q[p]
      BY <1>4, <1>6, <2>1, <2>2, <2>4, <3>1, <3>3, ZenonT(60) DEF Answers
    <3> QED BY <3>2, <3>3, ZenonT(60)
  <2> QED BY <2>3, <2>4, ZenonT(60)
<1>8. ServInv'
  BY <1>2, <1>7, EdgeTypes, ZenonT(60) DEF ServInv
<1> QED BY <1>8, EdgeTypes, ZenonT(60) DEF NativeInv

\* A clock edge of the PicoRV32 adapter.
LEMMA PicoEdge ==
  ASSUME NativeInv, PicoInv, NEW in \in Nat32!Inputs, Nat32!Edge(in)
  PROVE  NativeInv'
<1> DEFINE o == Nat32!ObiPort("data")
           out == outstanding_q["data"]
           G == Nat32!Granted(in, "data")
           A == Nat32!Answered(in, "data")
           now(p) == {n \in Nat32!Native : Nat32!Granted(in, n) /\ Nat32!ObiPort(n) = p}
<1>1. /\ kind = "picorv32" /\ o \in {"instr", "data"} /\ out \in BOOLEAN
      /\ Nat32!Native = {"data"} /\ Nat32!Ports = {"instr", "data"}
      /\ instr_q = (out /\ o = "instr")
      /\ out => want["data"] # NoAccess /\ write_q = want["data"].we
  BY NativePorts, Zenon DEF PicoInv, NativeInv
<1>2. \A p \in {"instr", "data"} : obiBus[p] = IF out /\ o = p THEN <<want["data"]>> ELSE <<>>
  BY Zenon DEF PicoInv
<1>3. \A p \in {"instr", "data"} : p \in in.rvalid => out /\ o = p
  BY <1>2, ZenonT(60) DEF Nat32!Inputs
<1>4. A <=> o \in in.rvalid
  BY <1>1, <1>3, ZenonT(60) DEF Nat32!Answered
<1>5. G => ~out /\ want["data"] # NoAccess
  BY Zenon DEF Nat32!Granted, Nat32!Requests
<1>6. outstanding_q'["data"] = (IF A THEN FALSE ELSE IF G THEN TRUE ELSE out) /\ outstanding_q'["instr"] = FALSE
  BY <1>1, Zenon DEF Nat32!Edge, Nat32!Outstanding, Nat32!Clears
<1>7. /\ instr_q' = IF A THEN FALSE ELSE IF G THEN o = "instr" ELSE instr_q
      /\ write_q' = IF A THEN FALSE ELSE IF G THEN want["data"].we ELSE write_q
      /\ want'["data"] = IF A THEN NoAccess ELSE want["data"]
      /\ got'["data"] = IF A THEN [for |-> want["data"], data |-> Nat32!Rdata("data")] ELSE NoAccess
  BY <1>1, Zenon DEF Nat32!Edge
<1>8. \A p \in {"instr", "data"} : now(p) = IF G /\ o = p THEN {"data"} ELSE {}
  BY <1>1, Zenon
<1>9. ASSUME NEW p \in {"instr", "data"}
      PROVE  obiBus'[p] = LET rest == IF p \in in.rvalid THEN Tail(obiBus[p]) ELSE obiBus[p]
                          IN  IF G /\ o = p THEN Append(rest, want["data"]) ELSE rest
  <2>1. obiBus'[p] = LET rest == IF p \in in.rvalid THEN Tail(obiBus[p]) ELSE obiBus[p]
                     IN  IF now(p) = {} THEN rest ELSE Append(rest, want[CHOOSE n \in now(p) : TRUE])
    BY <1>1, Zenon DEF Nat32!Edge
  <2>2. G /\ o = p => (CHOOSE n \in now(p) : TRUE) = "data" /\ now(p) # {}
    BY <1>8, Zenon
  <2>3. ~(G /\ o = p) => now(p) = {}
    BY <1>8, ZenonT(60)
  <2> HIDE DEF now, G, o
  <2> QED BY <2>1, <2>2, <2>3, ZenonT(60)
<1> HIDE DEF now, G, A, o, out
<1>10. LET d == want["data"] IN Head(<<d>>) = d /\ Tail(<<d>>) = <<>> /\ Append(<<>>, d) = <<d>>
  OBVIOUS
<1>11. kind' = "picorv32"
  BY <1>1, EdgeTypes, ZenonT(60)
<1>12. CASE A
  <2>1. out /\ o \in in.rvalid /\ ~G
    BY <1>1, <1>3, <1>4, <1>5, <1>12, SMTT(30)
  <2>2. \A p \in {"instr", "data"} : obiBus'[p] = <<>>
    BY <1>2, <1>3, <1>9, <1>10, <2>1, ZenonT(30)
  <2>3. got'["data"] = [for |-> want["data"], data |-> Nat32!Rdata("data")]
    BY <1>7, <1>12, Zenon
  <2>4. Nat32!Rdata("data") = want["data"] \/ want["data"].we
    BY <1>1, <1>2, <1>10, <2>1, ZenonT(60) DEF Nat32!Rdata
  <2>5. Answers("data")'
    BY <1>11, <2>3, <2>4, SMTT(30) DEF Answers
  <2>6. ~outstanding_q'["data"] /\ instr_q' = FALSE
    BY <1>6, <1>7, <1>12, ZenonT(60)
  <2>7. PicoInv'
    BY <1>6, <1>11, <2>2, <2>5, <2>6, ZenonT(60) DEF PicoInv
  <2> QED BY <2>7, EdgeTypes, ZenonT(60) DEF NativeInv
<1>13. CASE ~A
  <2>1. \A p \in {"instr", "data"} : p \notin in.rvalid
    BY <1>3, <1>4, <1>13, Zenon
  <2>2. want'["data"] = want["data"] /\ got'["data"] = NoAccess
    BY <1>7, <1>13, ZenonT(60)
  <2>3. Nat32!ObiPort("data")' = o
    BY <1>1, <1>11, <2>2, SMTT(30) DEF Nat32!ObiPort, o
  <2>4. CASE G
    <3>1. outstanding_q'["data"] /\ instr_q' = (o = "instr") /\ write_q' = want["data"].we /\ ~out
      BY <1>5, <1>6, <1>7, <1>13, <2>4, ZenonT(60)
    <3>2. \A p \in {"instr", "data"} : obiBus'[p] = IF o = p THEN <<want["data"]>> ELSE <<>>
      BY <1>2, <1>9, <1>10, <2>1, <2>4, <3>1, ZenonT(60)
    <3>3. PicoInv'
      BY <1>5, <1>6, <1>11, <2>2, <2>3, <2>4, <3>1, <3>2, ZenonT(30) DEF PicoInv, Answers
    <3> QED BY <3>3, EdgeTypes, Zenon DEF NativeInv
  <2>5. CASE ~G
    <3>1. outstanding_q'["data"] = out /\ instr_q' = instr_q /\ write_q' = write_q
      BY <1>6, <1>7, <1>13, <2>5, ZenonT(60)
    <3>2. \A p \in {"instr", "data"} : obiBus'[p] = obiBus[p]
      BY <1>9, <2>1, <2>5, ZenonT(60)
    <3>3. PicoInv'
      BY <1>1, <1>2, <1>6, <1>11, <2>2, <2>3, <3>1, <3>2, ZenonT(60) DEF PicoInv, Answers
    <3> QED BY <3>3, EdgeTypes, Zenon DEF NativeInv
  <2> QED BY <2>4, <2>5, Zenon
<1> QED BY <1>12, <1>13, ZenonT(60)

\* At reset ...
LEMMA NativeInitInv == Nat32!NativeInit => NativeInv
BY NativeReset, Zenon DEF Nat32!NativeInit

\* ... and at every step.
LEMMA NativeNextInv == NativeInv /\ [Nat32!NativeNext]_nativeVars => NativeInv'
<1> SUFFICES ASSUME NativeInv, [Nat32!NativeNext]_nativeVars PROVE NativeInv'
  BY Zenon
<1>1. CASE \E in \in Nat32!Inputs : Nat32!Edge(in)
  BY <1>1, ServEdge, PicoEdge, ZenonT(60) DEF NativeInv
<1>2. CASE \E n \in Nat32!Ports, a \in Accesses : Nat32!Ask(n, a)
  BY <1>2, NativeAsk, ZenonT(60)
<1>3. CASE Nat32!Reset
  <2>1. kind' \in {"picorv32", "serv"}
    BY <1>3, Zenon DEF NativeInv, ServInv, PicoInv, Nat32!Reset
  <2>2. \A n \in {"instr", "data"} : ~outstanding_q'[n] /\ obiBus'[n] = <<>> /\ got'[n] = NoAccess
    BY <1>3, NativePorts, Zenon DEF Nat32!Reset
  <2>3. /\ want' \in [{"instr", "data"} -> Accesses \union {NoAccess}]
        /\ outstanding_q' \in [{"instr", "data"} -> BOOLEAN]
        /\ instr_q' = FALSE
    BY <1>3, NativePorts, Zenon DEF Nat32!Reset
  <2> QED BY <2>1, <2>2, <2>3, ZenonT(60) DEF NativeInv, ServInv, PicoInv, Answers
<1>4. CASE UNCHANGED nativeVars
  <2>1. Nat32!ObiPort("data")' = Nat32!ObiPort("data") /\ (\A n : Answers(n)' <=> Answers(n))
    BY <1>4, Zenon DEF nativeVars, Nat32!ObiPort, Answers
  <2>2. (ServInv' <=> ServInv) /\ (PicoInv' <=> PicoInv)
    BY <1>4, <2>1, Zenon DEF nativeVars, ServInv, PicoInv
  <2> QED BY <1>4, <2>2, Zenon DEF nativeVars, NativeInv
<1> QED BY <1>1, <1>2, <1>3, <1>4, Zenon DEF Nat32!NativeNext

\* corejack_cvw_ahb_adapter, corejack_picorv32_socket_adapter and
\* corejack_serv_socket_adapter, whatever the cores ask for and whichever words fail: what
\* a core asked for is on the OBI port once and as it was asked, the core gets the answer
\* to it, and an error on AHB takes two cycles.
THEOREM AdaptersAlwaysExact ==
  /\ Cvw!CvwInit /\ [][Cvw!CvwNext]_cvwVars
  /\ Nat32!NativeInit /\ [][Nat32!NativeNext]_nativeVars
  => AdaptersExact
<1>1. CvwInv /\ [Cvw!CvwNext]_cvwVars => [(Cvw!HReady /\ Cvw!HResp)' => ~Cvw!HReady /\ Cvw!HResp /\ dp' = dp]_cvwVars
  BY CvwErrorStep, Zenon
<1>2. NativeInv => Nat32!OnceAndOwn
  BY OnceServ, OncePico, Zenon DEF NativeInv
<1> QED
  BY <1>1, <1>2, CvwInitInv, CvwNextInv, CvwInvExact, NativeInitInv, NativeNextInv, PTL
  DEF AdaptersExact, Cvw!TwoCycleError, Cvw!cvwVars, cvwVars
=============================================================================
