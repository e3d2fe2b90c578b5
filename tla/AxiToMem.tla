------------------------------ MODULE AxiToMem ------------------------------
(***************************************************************************)
(* rtl/bus/soc_axi_to_mem.sv: the bridge from single-beat AXI to two       *)
(* soc_mem_ss ports.  A read engine and a write engine share no state;     *)
(* each one is a request FIFO, an id FIFO, a response FIFO and two         *)
(* counters.  Edge(e, in) is one rising clock edge of engine e: every      *)
(* register of the engine is updated at once, from the values it had       *)
(* before the edge and the inputs in.                                      *)
(*                                                                         *)
(* A transaction is an AXI id and an address; write data and strobes       *)
(* travel with the address and are not told apart.  The memory behind an   *)
(* engine is the queue mem[e] of requests granted and not yet answered: it *)
(* answers them in order, at any later edge, with an error exactly for     *)
(* the addresses in OutOfRange (soc_mem_ss, module MemSS, is shown to be   *)
(* such a memory).                                                         *)
(***************************************************************************)
EXTENDS Integers, Sequences

CONSTANTS
  Engines,         \* the engines modelled, "rd" and "wr": they share no state
  Ids,             \* AXI transaction ids
  AxiAddrs,           \* addresses an initiator may use
  OutOfRange,      \* the addresses soc_mem_ss answers with err
  MaxOutstanding,  \* transactions in flight per engine, depth of the id FIFO
  ReqDepth,        \* depth of the request FIFO
  RspDepth         \* depth of the response FIFO

ASSUME DepthAssumption ==
  /\ MaxOutstanding \in Nat \ {0}
  /\ ReqDepth \in Nat \ {0}
  /\ RspDepth \in Nat \ {0}

ASSUME EnginesAssumption == Engines \subseteq {"rd", "wr"}

ASSUME RangeAssumption == OutOfRange \subseteq AxiAddrs

Txns == [id : Ids, addr : AxiAddrs]

Rsps == [addr : AxiAddrs, err : BOOLEAN]

VARIABLES
  reqq,         \* rd_addr_fifo / wr_req_fifo
  idq,          \* rd_id_fifo / wr_id_fifo
  rspq,         \* rd_rsp_fifo / wr_rsp_fifo
  outstanding,  \* rd_outstanding_q / wr_outstanding_q
  pending_q,    \* rd_pending_q / wr_pending_q
  mem,          \* addresses the memory has granted and not answered
  acc           \* history: transactions accepted and not answered, oldest first

vars == <<reqq, idq, rspq, outstanding, pending_q, mem, acc>>

(***************************************************************************)
(* The inputs of an engine at an edge.  valid says that the address        *)
(* channel offers txn, wvalid that the W channel offers its data (the read *)
(* engine has no W channel and ignores it), gnt and rvalid are the memory  *)
(* port's, ready is r_ready or b_ready.                                    *)
(***************************************************************************)
Inputs ==
  [valid : BOOLEAN, wvalid : BOOLEAN, txn : Txns,
   gnt : BOOLEAN, rvalid : BOOLEAN, ready : BOOLEAN]

\* The memory's response to address a; the data stands for the address read.
Answer(a) == [addr |-> a, err |-> a \in OutOfRange]

\* The AXI response that transaction t must receive.
BeatFor(t) ==
  [id |-> t.id, addr |-> t.addr,
   resp |-> IF t.addr \in OutOfRange THEN "SLVERR" ELSE "OKAY"]

Count(b) == IF b THEN 1 ELSE 0

\* fifo_v3 without fall-through: what the storage holds after an edge.  It would lose
\* what is pushed into a full FIFO; NoOverflow says that never happens.
AfterEdge(q, push, x, pop) ==
  LET rest == IF pop THEN Tail(q) ELSE q
  IN  IF push THEN Append(rest, x) ELSE rest

\* A counter that goes up and down, possibly at the same edge.
CountedEitherWay(n, up, down) == IF up THEN n + 1 ELSE IF down THEN n - 1 ELSE n

Counted(n, up, down) == n + Count(up) - Count(down)

\* One direction at a time.
AdmitOneWay(e, in) ==
  /\ in.valid
  /\ e = "wr" => in.wvalid
  /\ \A d \in Engines \ {e} : outstanding[d] = 0
  /\ outstanding[e] < MaxOutstanding
  /\ Len(reqq[e]) < ReqDepth
  /\ Len(idq[e]) < MaxOutstanding

Admit(e, in) ==
  /\ in.valid
  /\ e = "wr" => in.wvalid
  /\ outstanding[e] < MaxOutstanding
  /\ Len(reqq[e]) < ReqDepth
  /\ Len(idq[e]) < MaxOutstanding

ReqPop(e, in) == reqq[e] # <<>> /\ in.gnt

RReady(e) == Len(rspq[e]) < RspDepth

RspPushUngated(e, in) == in.rvalid /\ RReady(e)

RspPush(e, in) == in.rvalid /\ RReady(e) /\ pending_q[e] # 0

BeatValid(e) == rspq[e] # <<>> /\ idq[e] # <<>>

Fire(e, in) == BeatValid(e) /\ in.ready

\* The R or B channel: the heads of the id and the response FIFO.
BeatOut(e) ==
  [id   |-> Head(idq[e]),
   addr |-> Head(rspq[e]).addr,
   resp |-> IF Head(rspq[e]).err THEN "SLVERR" ELSE "OKAY"]

\* A response on the port that answers no request of this engine, as when a
\* port shares its rvalid with the other engine; its payload is arbitrary.
Phantom(e, in) == in.rvalid /\ mem[e] = <<>>

Init ==
  /\ reqq = [e \in Engines |-> <<>>]
  /\ idq = [e \in Engines |-> <<>>]
  /\ rspq = [e \in Engines |-> <<>>]
  /\ outstanding = [e \in Engines |-> 0]
  /\ pending_q = [e \in Engines |-> 0]
  /\ mem = [e \in Engines |-> <<>>]
  /\ acc = [e \in Engines |-> <<>>]

\* What rdata/err carry when the engine samples a response.
Sampled(e, in) ==
  IF Phantom(e, in) THEN [addr |-> in.txn.addr, err |-> FALSE]
  ELSE Answer(Head(mem[e]))

Edge(e, in) ==
  LET admit == Admit(e, in)
      pop   == ReqPop(e, in)
      push  == RspPush(e, in)
      fire  == Fire(e, in)
      granted == reqq[e] # <<>> /\ in.gnt
      taken == in.rvalid /\ RReady(e) /\ mem[e] # <<>>
  IN  /\ reqq' = [reqq EXCEPT ![e] = AfterEdge(@, admit, in.txn.addr, pop)]
      /\ idq' = [idq EXCEPT ![e] = AfterEdge(@, admit, in.txn.id, fire)]
      /\ rspq' = [rspq EXCEPT ![e] = AfterEdge(@, push, Sampled(e, in), fire)]
      /\ outstanding' = [outstanding EXCEPT ![e] = Counted(@, admit, fire)]
      /\ pending_q' = [pending_q EXCEPT ![e] = Counted(@, pop, push)]
      /\ mem' = [mem EXCEPT ![e] = AfterEdge(@, granted, Head(reqq[e]), taken)]
      /\ acc' = [acc EXCEPT ![e] = AfterEdge(@, admit, in.txn, fire)]

Next == \E e \in Engines, in \in Inputs : Edge(e, in)

Spec == Init /\ [][Next]_vars

\* What the surroundings of an engine do in a cycle: the memory grants, the memory
\* answers, the initiator offers a transaction that is taken, it takes a response.
Grants(e, in) == in.gnt /\ reqq[e] # <<>>

Answers(e, in) == in.rvalid /\ RReady(e) /\ mem[e] # <<>>

Offers(e, in) == Admit(e, in)

Takes(e, in) == in.ready /\ BeatValid(e)

Taken(e) == \E in \in Inputs : Takes(e, in) /\ Edge(e, in)

-----------------------------------------------------------------------------
TypeOK ==
  /\ reqq \in [Engines -> Seq(AxiAddrs)]
  /\ idq \in [Engines -> Seq(Ids)]
  /\ rspq \in [Engines -> Seq(Rsps)]
  /\ outstanding \in [Engines -> 0..MaxOutstanding]
  /\ pending_q \in [Engines -> 0..MaxOutstanding]
  /\ mem \in [Engines -> Seq(AxiAddrs)]
  /\ acc \in [Engines -> Seq(Txns)]

\* No FIFO of an engine is pushed past its depth, so none drops an entry, and
\* the memory is never asked for more than MaxOutstanding transactions.
NoOverflow ==
  \A e \in Engines :
    /\ Len(reqq[e]) <= ReqDepth
    /\ Len(rspq[e]) <= RspDepth
    /\ Len(idq[e]) <= MaxOutstanding
    /\ Len(mem[e]) <= MaxOutstanding

\* The conservation assertion of the source: an admitted transaction is in
\* exactly one place - the request FIFO, the memory, or the response FIFO -
\* and the id FIFO holds one entry for each.
Conservation ==
  \A e \in Engines :
    /\ outstanding[e] = Len(reqq[e]) + pending_q[e] + Len(rspq[e])
    /\ Len(idq[e]) = outstanding[e]

\* pending_q counts what the memory really owes this engine.  It is all that
\* keeps a response meant for the other engine out of the response FIFO.
PendingIsOwed == \A e \in Engines : pending_q[e] = Len(mem[e])

\* With a response FIFO as deep as the admission bound, a response the engine
\* waits for is never stalled (assertion under RspDepth >= MaxOutstanding).
NeverStalled ==
  RspDepth >= MaxOutstanding =>
    \A e \in Engines : mem[e] # <<>> => RReady(e)

\* What an R or B channel offers is the response to the oldest unanswered
\* transaction: its id, its data and its error, although the three travel
\* through separate FIFOs.
BeatIsOldest ==
  \A e \in Engines : BeatValid(e) => acc[e] # <<>> /\ BeatOut(e) = BeatFor(acc[e][1])

(***************************************************************************)
(* The inductive invariant: the response FIFO, the memory and the request  *)
(* FIFO, one behind the other, hold the accepted transactions in the order *)
(* they were accepted in, the first ones answered; the id FIFO runs along. *)
(***************************************************************************)
Aligned(e) ==
  LET r == Len(rspq[e])
      m == Len(mem[e])
      n == Len(acc[e])
  IN  /\ n = r + m + Len(reqq[e])
      /\ Len(idq[e]) = n
      /\ \A i \in 1..n : idq[e][i] = acc[e][i].id
      /\ \A i \in 1..r : rspq[e][i] = Answer(acc[e][i].addr)
      /\ \A i \in 1..m : mem[e][i] = acc[e][r + i].addr
      /\ \A i \in 1..Len(reqq[e]) : reqq[e][i] = acc[e][r + m + i].addr

\* The separate FIFOs of an engine never lose step with one another or with
\* the order in which the bridge accepted its transactions.
InStep ==
  /\ TypeOK
  /\ NoOverflow
  /\ PendingIsOwed
  /\ \A e \in Engines : outstanding[e] = Len(acc[e]) /\ Aligned(e)

\* Every accepted transaction is answered, also when the initiator copies: an engine
\* cannot hold transactions for ever without handing over a response.  A write waits
\* for AW and W alone, so the reads it is made of are not held up by it, nor is it by
\* read responses the initiator has no room for.
Progress ==
  \A e \in Engines : []<>(acc[e] = <<>>) \/ []<><<Taken(e)>>_vars
=============================================================================
