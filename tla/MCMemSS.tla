------------------------------ MODULE MCMemSS -------------------------------
(***************************************************************************)
(* Port 0 is 32 bits wide, port 1 is 64 bits wide (all three are 32 bits   *)
(* wide with MCReqsRead); two banks of one word, at addresses 2 to 5.      *)
(***************************************************************************)
EXTENDS MemSS

Read(p, a) == [we |-> FALSE, addr |-> a, wdata |-> PortZero(p), be |-> PortLanes(p)]

Write(a, d, be) == [we |-> TRUE, addr |-> a, wdata |-> d, be |-> be]

\* Both ports on one word; port 0 also on the other bank and on the first
\* address past the memory.
MCReqs(p) ==
  IF p = 0 THEN {Read(0, 3), Write(3, [l \in 0..0 |-> 1], {0}), Read(0, 4),
                 Write(6, [l \in 0..0 |-> 1], {0})}
  ELSE {Write(2, [l \in Lanes |-> 1 - l], {1})}

\* Three 32-bit ports read bank 0; port 1 also bank 1.
MCReqsRead(p) == IF p = 1 THEN {Read(1, 2), Read(1, 4)} ELSE {Read(p, 2)}

MCMetas ==
  UNION {[port : {p}, slot : Slots, req : ReqsOf(p)] : p \in Ports}
=============================================================================
