------------------------------- MODULE AxiToDm ------------------------------
(***************************************************************************)
(* rtl/bus/soc_axi_to_dm.sv: one AXI beat at a time, as one access to the  *)
(* debug module's 64-bit memory port, which never stalls and returns read  *)
(* data one cycle after the request.  The bridge checks neither the length *)
(* nor the size of a beat.                                                 *)
(***************************************************************************)
EXTENDS AxiSide

VARIABLE rdata  \* external: the data the debug module returns, dm_rdata_i

dmVars == <<sideVars, rdata>>

Init == SideInit /\ rdata = ZeroData

\* The 64-bit entry that holds word a.
Entry(a) == [l \in Lanes |-> 2 * (a \div 2) + l]

DmReq == st = "Access"

IdleStep ==
  /\ TakeRead("Access") \/ TakeWrite("Access")
  /\ UNCHANGED <<rsp, rdata>>

AfterAccess == IF opWrite THEN "WriteResp" ELSE "ReadCapture"

\* The request is up for this one cycle.
AccessStep ==
  /\ DmReq
  /\ st' = AfterAccess
  /\ rsp' = IF opWrite THEN [rsp EXCEPT !.id = ax.id, !.resp = "OKAY"] ELSE rsp
  /\ rdata' = IF opWrite THEN rdata ELSE Entry(ax.word)
  /\ log' = Append(log, [word |-> ax.word, write |-> opWrite,
                         be |-> IF opWrite THEN wq.strb ELSE Lanes,
                         wdata |-> IF opWrite THEN wq.data ELSE ZeroData])
  /\ UNCHANGED <<ar, aw, w, preferRead, opWrite, ax, wq, passed>>

ReadCaptureStep ==
  /\ st = "ReadCapture"
  /\ rsp' = [id |-> ax.id, resp |-> "OKAY", data |-> rdata]
  /\ st' = "ReadResp"
  /\ UNCHANGED <<ar, aw, w, preferRead, opWrite, ax, wq, log, passed, rdata>>

CompleteStep == Complete /\ UNCHANGED rdata

OfferStep == Offer /\ UNCHANGED rdata

\* The bridge moves; the initiator takes its response in the end.
Advance == IdleStep \/ AccessStep \/ ReadCaptureStep \/ CompleteStep

Next == OfferStep \/ Advance

Spec == Init /\ [][Next]_dmVars

-----------------------------------------------------------------------------
TypeOK ==
  /\ SideTypeOK
  /\ st \in {"Idle", "Access", "ReadCapture", "WriteResp", "ReadResp"}
  /\ rdata \in [Lanes -> Nat]

\* A beat is answered after exactly one access at its address, and a read with
\* the entry of that address: the data of the cycle after the request, neither
\* that of an earlier read nor zero.
AnsweredOnce ==
  Responding =>
    /\ rsp.id = ax.id
    /\ Len(log) = 1 /\ log[1].word = ax.word /\ log[1].write = opWrite
    /\ opWrite => log[1].be = wq.strb /\ log[1].wdata = wq.data
    /\ ~opWrite => rsp.data = Entry(ax.word)
=============================================================================
