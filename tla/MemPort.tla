------------------------------ MODULE MemPort -------------------------------
(***************************************************************************)
(* rtl/mem/soc_mem_port.sv: one initiator port of soc_mem_ss.  Requests    *)
(* wait in the ingress FIFO; the head is decoded, offered to its bank, and *)
(* allocates a slot of the reorder buffer when it is granted.  The banks   *)
(* fill slots in any order; the buffer is delivered in order.              *)
(***************************************************************************)
EXTENDS MemMap, Sequences

CONSTANTS IngressDepth, EgressDepth

ASSUME PortAssumption == IngressDepth \in Nat \ {0} /\ EgressDepth \in Nat \ {0}

Slots == 0..(EgressDepth - 1)

VARIABLES
  ing,         \* i_ing_fifo
  filled,      \* rob_filled_q
  robData,     \* rob_data_q
  robErr,      \* rob_err_q
  robLane,     \* rob_lane_q
  allocPtr,    \* alloc_ptr_q
  deliverPtr,  \* deliver_ptr_q
  robCnt,      \* rob_cnt_q
  owed         \* history: slots granted to a bank and not yet filled

portVars == <<ing, filled, robData, robErr, robLane, allocPtr, deliverPtr, robCnt, owed>>

PortZero(p) == [l \in PortLanes(p) |-> 0]

PortInit ==
  /\ ing = [p \in Ports |-> <<>>]
  /\ filled = [p \in Ports |-> [s \in Slots |-> FALSE]]
  /\ robData = [p \in Ports |-> [s \in Slots |-> PortZero(p)]]
  /\ robErr = [p \in Ports |-> [s \in Slots |-> FALSE]]
  /\ robLane = [p \in Ports |-> [s \in Slots |-> 0]]
  /\ allocPtr = [p \in Ports |-> 0]
  /\ deliverPtr = [p \in Ports |-> 0]
  /\ robCnt = [p \in Ports |-> 0]
  /\ owed = [p \in Ports |-> {}]

-----------------------------------------------------------------------------
(***************************************************************************)
(* Address decode.  The subtraction wraps at the address width, and the    *)
(* bit slices are the remainder and the quotient by the number of banks.   *)
(***************************************************************************)
Off(a) == (a - BaseAddr) % AddrSpace

\* The range check: below BaseAddr the offset has wrapped and says nothing.
InRange(a) == a >= BaseAddr /\ Off(a) < TotalHalves

BankOf(a) == (Off(a) \div 2) % NumBanks

InBank(a) == (Off(a) \div 2) \div NumBanks

LaneOf(p, a) == IF p \in Ports32 THEN a % 2 ELSE 0

\* A 32-bit port's data and enables go to the half the address names.
Expand(p, lane, d) == IF p \in Ports32 THEN [ZeroWord EXCEPT ![lane] = d[0]] ELSE d

ExpandBe(p, lane, be) ==
  IF p \in Ports32 THEN {lane : l \in be} ELSE be

\* ... and its read data comes from that half.
SelectLane(p, lane, word) == IF p \in Ports32 THEN [l \in 0..0 |-> word[lane]] ELSE word

-----------------------------------------------------------------------------
NextPtr(s) == IF s = EgressDepth - 1 THEN 0 ELSE s + 1

RobFullLate(p) == robCnt[p] > EgressDepth

RobFull(p) == robCnt[p] = EgressDepth

\* The head slot leaves whether or not its response has come.
RValidUnfilled(p) == robCnt[p] # 0

RValid(p) == robCnt[p] # 0 /\ filled[p][deliverPtr[p]]

\* The initiator is granted: s_req_i && s_gnt_o.
Accept(p, r) ==
  /\ Len(ing[p]) < IngressDepth
  /\ ing' = [ing EXCEPT ![p] = Append(@, r)]
  /\ UNCHANGED <<filled, robData, robErr, robLane, allocPtr, deliverPtr, robCnt, owed>>

\* A request that waits for the initiator to take the response of an older one.
ArbReqYielding(p) ==
  ing[p] # <<>> /\ InRange(Head(ing[p]).addr) /\ ~RobFull(p) /\ ~RValid(p)

ArbReq(p) == ing[p] # <<>> /\ InRange(Head(ing[p]).addr) /\ ~RobFull(p)

ErrReq(p) == ing[p] # <<>> /\ ~InRange(Head(ing[p]).addr) /\ ~RobFull(p)

\* A grant, by a bank's arbiter or of an error: the head takes the next slot.
Alloc(p, err) ==
  LET s == allocPtr[p]
  IN  /\ ing' = [ing EXCEPT ![p] = Tail(@)]
      /\ robLane' = [robLane EXCEPT ![p][s] = LaneOf(p, Head(ing[p]).addr)]
      /\ filled' = [filled EXCEPT ![p][s] = err]
      /\ robErr' = [robErr EXCEPT ![p][s] = err]
      /\ robData' = IF err THEN [robData EXCEPT ![p][s] = PortZero(p)] ELSE robData
      /\ allocPtr' = [allocPtr EXCEPT ![p] = NextPtr(@)]
      /\ robCnt' = [robCnt EXCEPT ![p] = @ + 1]
      /\ owed' = IF err THEN owed ELSE [owed EXCEPT ![p] = @ \union {s}]
      /\ UNCHANGED deliverPtr

ErrGrant(p) == ErrReq(p) /\ Alloc(p, TRUE)

ArbGrant(p) == Alloc(p, FALSE)

Fill(p, s, word) ==
  /\ filled' = [filled EXCEPT ![p][s] = TRUE]
  /\ robData' = [robData EXCEPT ![p][s] = SelectLane(p, robLane[p][s], word)]
  /\ robErr' = [robErr EXCEPT ![p][s] = FALSE]
  /\ owed' = [owed EXCEPT ![p] = @ \ {s}]
  /\ UNCHANGED <<ing, robLane, allocPtr, deliverPtr, robCnt>>

\* The registers of a freed slot are dead until the next Alloc and Fill write
\* them; the model gives them their reset value.
Deliver(p) ==
  /\ RValid(p)
  /\ LET s == deliverPtr[p]
     IN  /\ filled' = [filled EXCEPT ![p][s] = FALSE]
         /\ robData' = [robData EXCEPT ![p][s] = PortZero(p)]
         /\ robErr' = [robErr EXCEPT ![p][s] = FALSE]
         /\ robLane' = [robLane EXCEPT ![p][s] = 0]
  /\ deliverPtr' = [deliverPtr EXCEPT ![p] = NextPtr(@)]
  /\ robCnt' = [robCnt EXCEPT ![p] = @ - 1]
  /\ UNCHANGED <<ing, allocPtr, owed>>

\* A port among banks that grant at any time and answer in any order.
PortNext ==
  \E p \in Ports :
    \/ \E r \in PortReqs(p) : Accept(p, r)
    \/ ErrGrant(p)
    \/ ArbReq(p) /\ ArbGrant(p)
    \/ \E s \in owed[p], word \in Word : Fill(p, s, word)
    \/ Deliver(p)

PortSpec == PortInit /\ [][PortNext]_portVars

-----------------------------------------------------------------------------
PortTypeOK ==
  /\ ing \in [Ports -> Seq(UNION {PortReqs(p) : p \in Ports})]
  /\ filled \in [Ports -> [Slots -> BOOLEAN]]
  /\ DOMAIN robData = Ports
  /\ \A p \in Ports : robData[p] \in [Slots -> [PortLanes(p) -> Vals]]
  /\ robErr \in [Ports -> [Slots -> BOOLEAN]]
  /\ robLane \in [Ports -> [Slots -> Lanes]]
  /\ allocPtr \in [Ports -> Slots]
  /\ deliverPtr \in [Ports -> Slots]
  /\ robCnt \in [Ports -> 0..EgressDepth]
  /\ owed \in [Ports -> SUBSET Slots]

\* Slot i of the ring, counting on from its end; the c slots from slot d on.
Wrap(i) == IF i >= EgressDepth THEN i - EgressDepth ELSE i

Ring(d, c) == {Wrap(d + i) : i \in 0..(c - 1)}

\* The i-th oldest allocated slot of port p, and all of them.
SlotAt(p, i) == Wrap(deliverPtr[p] + i - 1)

Allocated(p) == Ring(deliverPtr[p], robCnt[p])

\* The ring: the slots between the two pointers are exactly the ones that
\* are filled or owed by a bank, never both; a fill can therefore only reach
\* an allocated, unfilled slot (assertion of the source), and none is lost.
RingConsistent ==
  \A p \in Ports :
    /\ allocPtr[p] = Wrap(deliverPtr[p] + robCnt[p])
    /\ owed[p] = {s \in Allocated(p) : ~filled[p][s]}
    /\ \A s \in Slots : filled[p][s] => s \in Allocated(p)
=============================================================================
