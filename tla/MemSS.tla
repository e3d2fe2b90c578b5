-------------------------------- MODULE MemSS -------------------------------
(***************************************************************************)
(* rtl/mem/soc_mem_ss.sv: the ports and the banks, joined by a round-robin *)
(* arbiter per bank for requests and one per port for responses.           *)
(*                                                                         *)
(* An edge of the clock is a run of these steps, in the order Hold,        *)
(* Return, Issue, Fill, Deliver, Grant, Error, Accept: every step that the *)
(* state before the edge allows is still allowed when its turn comes.      *)
(***************************************************************************)
EXTENDS MemPort, MemBank, FiniteSetsExt

CONSTANT ReqsOf(_)  \* the requests the initiator of a port may make

CONSTANT Attentive  \* the ports whose initiators keep taking responses

ASSUME ReqsAssumption ==
  /\ Attentive \subseteq Ports
  /\ \A p \in Ports : /\ ReqsOf(p) \subseteq PortReqs(p)
                      /\ [port : {p}, slot : Slots, req : ReqsOf(p)] \subseteq Metas

VARIABLES
  rrReq,   \* rr_q of a bank's arbiter: the port whose turn it is
  lock,    \* req_q of a bank's arbiter while it is locked, else empty
  rrFill   \* rr_q of a port's response arbiter

ssVars == <<rrReq, lock, rrFill>>

vars == <<portVars, bankVars, ssVars>>

(***************************************************************************)
(* rr_arb_tree: the input rr wins if it requests, else some other one; a   *)
(* grant moves rr to the next requesting input after it, cyclically.       *)
(***************************************************************************)
Winners(reqs, rr) == IF rr \in reqs THEN {rr} ELSE reqs

NextTurnStuck(reqs, rr) == Min(reqs)

NextTurn(reqs, rr) ==
  LET upper == {i \in reqs : i > rr} IN IF upper = {} THEN Min(reqs) ELSE Min(upper)

Requesters(b) == {p \in Ports : ArbReq(p) /\ BankOf(Head(ing[p]).addr) = b}

\* LockIn: a bank that was not ready sees the requests it saw then.
Offered(b) == IF lock[b] # {} THEN lock[b] ELSE Requesters(b)

\* won_pay.  The last field is a history field: the request itself.
Payload(p) ==
  LET r == Head(ing[p])
      lane == LaneOf(p, r.addr)
  IN  [we |-> r.we, word |-> InBank(r.addr),
       wdata |-> Expand(p, lane, r.wdata), be |-> ExpandBe(p, lane, r.be),
       meta |-> [port |-> p, slot |-> allocPtr[p], req |-> r]]

Init ==
  /\ PortInit
  /\ BankInit
  /\ rrReq = [b \in Banks |-> 0]
  /\ lock = [b \in Banks |-> {}]
  /\ rrFill = [p \in Ports |-> 0]

\* A bank that is not ready locks its arbiter onto the requests of the moment.
Hold(b) ==
  /\ lock[b] = {} /\ Requesters(b) # {} /\ ~InReady(b)
  /\ lock' = [lock EXCEPT ![b] = Requesters(b)]
  /\ UNCHANGED <<portVars, bankVars, rrReq, rrFill>>

Grant(b) ==
  \E p \in Winners(Offered(b), rrReq[b]) :
    /\ Push(b, Payload(p))
    /\ ArbGrant(p)
    /\ rrReq' = [rrReq EXCEPT ![b] = NextTurn(Offered(b), @)]
    /\ lock' = [lock EXCEPT ![b] = {}]
    /\ UNCHANGED rrFill

Returning(p) == {b \in Banks : outq[b] # <<>> /\ Head(outq[b]).meta.port = p}

FillPort(p) ==
  \E b \in Winners(Returning(p), rrFill[p]) :
    /\ Fill(p, Head(outq[b]).meta.slot, Head(outq[b]).rdata)
    /\ Pop(b)
    /\ rrFill' = [rrFill EXCEPT ![p] = NextTurn(Returning(p), @)]
    /\ UNCHANGED <<rrReq, lock>>

AcceptStep(p) == (\E r \in ReqsOf(p) : Accept(p, r)) /\ UNCHANGED <<bankVars, ssVars>>

ErrorStep(p) == ErrGrant(p) /\ UNCHANGED <<bankVars, ssVars>>

DeliverStep(p) == Deliver(p) /\ UNCHANGED <<bankVars, ssVars>>

IssueStep(b) == Issue(b) /\ UNCHANGED <<portVars, ssVars>>

ReturnStep(b) == Return(b) /\ UNCHANGED <<portVars, ssVars>>

Next ==
  \/ \E p \in Ports : AcceptStep(p) \/ ErrorStep(p) \/ DeliverStep(p) \/ FillPort(p)
  \/ \E b \in Banks : IssueStep(b) \/ ReturnStep(b) \/ Hold(b) \/ Grant(b)

Spec == Init /\ [][Next]_vars

(***************************************************************************)
(* Every edge takes every internal step it can, so each of them is weakly  *)
(* fair.  Of the initiators, only the attentive ones take their responses. *)
(***************************************************************************)
FairSpec ==
  /\ Spec
  /\ \A b \in Banks : WF_vars(IssueStep(b)) /\ WF_vars(ReturnStep(b)) /\ WF_vars(Grant(b))
  /\ \A p \in Ports : WF_vars(FillPort(p)) /\ WF_vars(ErrorStep(p))
  /\ \A p \in Attentive : WF_vars(DeliverStep(p))

-----------------------------------------------------------------------------
\* An input of a locked arbiter keeps its request up until it is granted
\* (rr_arb_tree requires it; a grant without a request would pop the ingress
\* FIFO of a port that offers nothing).
LockedStillRequest == \A b \in Banks : lock[b] \subseteq Requesters(b)

\* What the banks hold under the tag of slot s of port p, before and after
\* the access.
Tagged(entries, p, s) == {x \in entries : x.meta.port = p /\ x.meta.slot = s}

ToAccess(p, s) == Tagged(UNION {Range(inq[b]) : b \in Banks}, p, s)

Accessed(p, s) == Tagged(UNION {Range(pipe[b]) \union Range(outq[b]) : b \in Banks}, p, s)

\* Where a bank holds accesses: its input FIFO, its slice, its output FIFO.
Stages == [bank : Banks, at : {"in", "slice", "out"}]

Held(z) ==
  CASE z.at = "in" -> inq[z.bank] [] z.at = "slice" -> pipe[z.bank] [] z.at = "out" -> outq[z.bank]

TagOf(x) == <<x.meta.port, x.meta.slot>>

\* Each slot a port waits for is in exactly one place of exactly one bank, and
\* no bank holds a tag nobody waits for: no response is lost or duplicated.
TagsUnique ==
  /\ \A p \in Ports : \A s \in owed[p] :
       \E z \in Stages : \E i \in DOMAIN Held(z) : TagOf(Held(z)[i]) = <<p, s>>
  /\ \A z \in Stages : \A i \in DOMAIN Held(z) :
       Held(z)[i].meta.slot \in owed[Held(z)[i].meta.port]
  /\ \A y, z \in Stages : \A i \in DOMAIN Held(y), j \in DOMAIN Held(z) :
       TagOf(Held(y)[i]) = TagOf(Held(z)[j]) => y = z /\ i = j

(***************************************************************************)
(* Refinement.  The queue of a port is its reorder buffer followed by its  *)
(* ingress FIFO; an access has taken effect once its bank has issued it.   *)
(***************************************************************************)
SlotView(p, s) ==
  IF filled[p][s] THEN Done(robErr[p][s], robData[p][s])
  ELSE IF ToAccess(p, s) # {}
       THEN Waiting((CHOOSE x \in ToAccess(p, s) : TRUE).meta.req)
       ELSE Done(FALSE, SelectLane(p, robLane[p][s],
                                   (CHOOSE x \in Accessed(p, s) : TRUE).rdata))

RobView == [p \in Ports |-> [s \in Slots |-> SlotView(p, s)]]

QueueView(p) ==
  [i \in 1..robCnt[p] |-> RobView[p][SlotAt(p, i)]]
    \o [i \in 1..Len(ing[p]) |-> Waiting(ing[p][i])]

HalfView(o) == sram[BankOf(BaseAddr + o)][InBank(BaseAddr + o)][o % 2]

Flat == INSTANCE InOrderMem WITH
          MemReqs <- ReqsOf,
          q <- [p \in Ports |-> QueueView(p)],
          store <- [o \in 0..(TotalHalves - 1) |-> HalfView(o)]

\* The subsystem behaves as one flat memory that every port uses in order.
ImplementsFlatMemory == Flat!MemSpec

\* An attentive initiator is never starved: while it has requests in flight
\* it goes on getting responses, whoever else contends for the banks and even
\* if other initiators never take theirs (R13).
Served ==
  \A p \in Attentive :
    []<>(robCnt[p] = 0 /\ ing[p] = <<>>) \/ []<><<DeliverStep(p)>>_vars
=============================================================================
