----------------------------- MODULE InOrderMem -----------------------------
(***************************************************************************)
(* What soc_mem_ss promises its initiators (docs/source/                   *)
(* mem_ss_redesign.rst, R4 to R13): one flat memory behind every port.     *)
(* An accepted request takes effect once, atomically, some time before its *)
(* response; two requests of one port to one word take effect in the order *)
(* they were accepted in; an address outside the memory has no effect and  *)
(* is answered with an error; every port gets its responses in order.      *)
(***************************************************************************)
EXTENDS MemMap, Sequences

CONSTANT MemReqs(_)  \* the requests the initiator of a port may make

VARIABLES
  q,     \* for each port, requests and responses in the order of acceptance
  store  \* the memory, by offset from BaseAddr

memVars == <<q, store>>

MemInit ==
  /\ q = [p \in Ports |-> <<>>]
  /\ store = [o \in 0..(TotalHalves - 1) |-> 0]

MemAccept(p, r) ==
  /\ q' = [q EXCEPT ![p] = Append(@, Waiting(r))]
  /\ UNCHANGED store

\* The halves a request touches: the one addressed, or both of its word.
Half(p, a, l) == IF p \in Ports32 THEN a - BaseAddr ELSE 2 * ((a - BaseAddr) \div 2) + l

Inside(a) == a \in BaseAddr..(BaseAddr + TotalHalves - 1)

NoneBefore(p, i) ==
  \A j \in 1..(i - 1) :
    q[p][j].st = "waiting" => q[p][j].req.addr \div 2 # q[p][i].req.addr \div 2

Effect(p, i) ==
  LET r == q[p][i].req
      touched == {Half(p, r.addr, l) : l \in r.be}
      old == [l \in PortLanes(p) |-> store[Half(p, r.addr, l)]]
      written(o) == r.wdata[CHOOSE l \in r.be : Half(p, r.addr, l) = o]
  IN  IF ~Inside(r.addr) THEN
        /\ q' = [q EXCEPT ![p][i] = Done(TRUE, [l \in PortLanes(p) |-> 0])]
        /\ UNCHANGED store
      ELSE IF r.we THEN
        /\ q' = [q EXCEPT ![p][i] = Done(FALSE, [l \in PortLanes(p) |-> 0])]
        /\ store' = [o \in DOMAIN store |-> IF o \in touched THEN written(o) ELSE store[o]]
      ELSE
        /\ q' = [q EXCEPT ![p][i] = Done(FALSE, old)]
        /\ UNCHANGED store

Perform(p) ==
  \E i \in 1..Len(q[p]) : q[p][i].st = "waiting" /\ NoneBefore(p, i) /\ Effect(p, i)

Respond(p) ==
  /\ q[p] # <<>> /\ Head(q[p]).st = "done"
  /\ q' = [q EXCEPT ![p] = Tail(@)]
  /\ UNCHANGED store

MemNext ==
  \E p \in Ports :
    \/ \E r \in MemReqs(p) : MemAccept(p, r)
    \/ Perform(p)
    \/ Respond(p)

MemSpec == MemInit /\ [][MemNext]_memVars
=============================================================================
