------------------------------- MODULE MemMap -------------------------------
(***************************************************************************)
(* What soc_mem_ss, its ports and its banks have in common: the geometry   *)
(* and the two data widths.  An address counts 32-bit halves (the byte     *)
(* offset inside a half is handled by the byte enables alone), a 64-bit    *)
(* word is a function from Lanes to values, and a byte-enable mask is the  *)
(* set of halves it selects.                                               *)
(***************************************************************************)
EXTENDS Integers, FiniteSets

CONSTANTS
  NumPorts32,    \* 32-bit ports, numbered from 0
  NumPorts64,    \* 64-bit ports, numbered after the 32-bit ones
  NumBanks,
  WordsPerBank,
  BaseAddr,      \* first address of the memory
  AddrSpace,     \* number of addresses: addresses wrap there
  Vals           \* what a 32-bit half can hold

ASSUME GeometryAssumption ==
  /\ NumPorts32 \in Nat
  /\ NumPorts64 \in Nat
  /\ NumBanks \in Nat \ {0}
  /\ WordsPerBank \in Nat \ {0}
  /\ BaseAddr \in Nat
  /\ BaseAddr % 2 = 0
  /\ AddrSpace \in Nat
  /\ BaseAddr + 2 * NumBanks * WordsPerBank <= AddrSpace
  /\ Vals \subseteq Nat
  /\ 0 \in Vals

Ports == 0..(NumPorts32 + NumPorts64 - 1)

Ports32 == 0..(NumPorts32 - 1)

Banks == 0..(NumBanks - 1)

Words == 0..(WordsPerBank - 1)

Addrs == 0..(AddrSpace - 1)

Lanes == 0..1

Word == [Lanes -> Vals]

ZeroWord == [l \in Lanes |-> 0]

\* The halves of a port's own data bus.
PortLanes(p) == IF p \in Ports32 THEN 0..0 ELSE Lanes

\* A request as an initiator presents it to port p.
PortReqs(p) ==
  [we : BOOLEAN, addr : Addrs, wdata : [PortLanes(p) -> Vals], be : SUBSET PortLanes(p)]

\* What a port owes its initiator: a request still to be performed, or a result.
Waiting(r) == [st |-> "waiting", req |-> r]

Done(err, data) == [st |-> "done", err |-> err, data |-> data]

TotalHalves == 2 * NumBanks * WordsPerBank
=============================================================================
