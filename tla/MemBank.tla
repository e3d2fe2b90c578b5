------------------------------ MODULE MemBank -------------------------------
(***************************************************************************)
(* rtl/mem/soc_mem_bank.sv: one SRAM slice between an input FIFO and an    *)
(* output FIFO.  The slice cannot be stalled: an access issued now puts    *)
(* its result into the output FIFO ReadLat edges later, whether there is   *)
(* room or not.  out_claims_q reserves that room at issue.                 *)
(*                                                                         *)
(* A step is one handshake of one bank.  An edge of the clock performs     *)
(* several of them at once, each decided by the state before the edge;     *)
(* taking them in the order Return, Issue, Pop, Push keeps every guard     *)
(* true that was true before the edge, so each edge is a run of steps.     *)
(***************************************************************************)
EXTENDS MemMap, Sequences

CONSTANTS
  Metas,     \* what identifies the owner of an access
  InDepth,   \* depth of the input FIFO
  OutDepth,  \* depth of the output FIFO
  ReadLat    \* edges from the access to its result

ASSUME BankAssumption ==
  InDepth \in Nat \ {0} /\ OutDepth \in Nat \ {0} /\ ReadLat \in Nat \ {0}

BankReqs == [we : BOOLEAN, word : Words, wdata : Word, be : SUBSET Lanes, meta : Metas]

BankRsps == [rdata : Word, meta : Metas]

VARIABLES
  inq,     \* i_in_fifo
  claims,  \* out_claims_q
  pipe,    \* rd_valid_q and rd_meta_q, with the slice's own registers
  outq,    \* i_out_fifo
  sram     \* contents of the slice

bankVars == <<inq, claims, pipe, outq, sram>>

BankInit ==
  /\ inq = [b \in Banks |-> <<>>]
  /\ claims = [b \in Banks |-> 0]
  /\ pipe = [b \in Banks |-> <<>>]
  /\ outq = [b \in Banks |-> <<>>]
  /\ sram = [b \in Banks |-> [w \in Words |-> ZeroWord]]

\* apply_be: the bytes not enabled keep what they held.
ApplyBeWhole(old, new, be) == new

ApplyBe(old, new, be) == [l \in Lanes |-> IF l \in be THEN new[l] ELSE old[l]]

InReady(b) == Len(inq[b]) < InDepth

Push(b, x) ==
  /\ InReady(b)
  /\ inq' = [inq EXCEPT ![b] = Append(@, x)]
  /\ UNCHANGED <<claims, pipe, outq, sram>>

\* The gate counts only the results already in the output FIFO.
CanIssueUnclaimed(b) == inq[b] # <<>> /\ Len(outq[b]) < OutDepth

CanIssue(b) == inq[b] # <<>> /\ claims[b] < OutDepth

\* The access: a write's response carries zero, a read's the word as it was.
Issue(b) ==
  /\ CanIssue(b)
  /\ Len(pipe[b]) < ReadLat
  /\ LET x == Head(inq[b])
         old == sram[b][x.word]
         rsp == [rdata |-> IF x.we THEN ZeroWord ELSE old, meta |-> x.meta]
     IN  /\ inq' = [inq EXCEPT ![b] = Tail(@)]
         /\ pipe' = [pipe EXCEPT ![b] = Append(@, rsp)]
         /\ sram' = IF x.we THEN [sram EXCEPT ![b][x.word] = ApplyBe(old, x.wdata, x.be)]
                    ELSE sram
  /\ claims' = [claims EXCEPT ![b] = @ + 1]
  /\ UNCHANGED outq

\* The slice delivers; a full fifo_v3 would drop what is pushed into it.
Return(b) ==
  /\ pipe[b] # <<>>
  /\ pipe' = [pipe EXCEPT ![b] = Tail(@)]
  /\ outq' = [outq EXCEPT ![b] = IF Len(@) < OutDepth THEN Append(@, Head(pipe[b])) ELSE @]
  /\ UNCHANGED <<inq, claims, sram>>

Pop(b) ==
  /\ outq[b] # <<>>
  /\ outq' = [outq EXCEPT ![b] = Tail(@)]
  /\ claims' = [claims EXCEPT ![b] = @ - 1]
  /\ UNCHANGED <<inq, pipe, sram>>

BankNext ==
  \E b \in Banks :
    \/ \E x \in BankReqs : Push(b, x)
    \/ Issue(b)
    \/ Return(b)
    \/ Pop(b)

BankSpec == BankInit /\ [][BankNext]_bankVars

-----------------------------------------------------------------------------
BankTypeOK ==
  /\ inq \in [Banks -> Seq(BankReqs)]
  /\ claims \in [Banks -> 0..OutDepth]
  /\ pipe \in [Banks -> Seq(BankRsps)]
  /\ outq \in [Banks -> Seq(BankRsps)]
  /\ sram \in [Banks -> [Words -> Word]]

\* A claim is held for exactly the results on their way and the results
\* queued, so the claims bound both.
ClaimsCovered ==
  \A b \in Banks : claims[b] = Len(pipe[b]) + Len(outq[b]) /\ claims[b] <= OutDepth

\* The assertion of the source: when the slice delivers, the output FIFO has
\* room, so no response is ever dropped.
NoDroppedResult ==
  \A b \in Banks : pipe[b] # <<>> => Len(outq[b]) < OutDepth
=============================================================================
