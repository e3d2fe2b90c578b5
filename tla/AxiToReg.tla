------------------------------ MODULE AxiToReg ------------------------------
(***************************************************************************)
(* rtl/bus/soc_axi_to_reg.sv: one AXI beat at a time, as one access to a   *)
(* register file (the PLIC, the iDMA front end) or, for an aligned         *)
(* full-width beat, two.  Reading a register may have a side effect.       *)
(***************************************************************************)
EXTENDS AxiSide

VARIABLES
  illegal,  \* illegal_q
  err       \* err_q

regVars == <<sideVars, illegal, err>>

Init == SideInit /\ illegal = FALSE /\ err = FALSE

Accessing == st \in {"First", "Second"}

ActiveWord == ax.word + (IF st = "Second" THEN 1 ELSE 0)

\* The lane of the half, whatever the address.
ActiveLaneOfHalf == IF st = "Second" THEN 1 ELSE 0

ActiveLane == IF Split(ax) THEN (IF st = "Second" THEN 1 ELSE 0) ELSE ax.word % 2

\* A verdict that also counts the errors met on the way.
RegValidUntilError == Accessing /\ ~err

\* m_reg_req_o.valid
RegValid == Accessing /\ ~illegal

IdleStep ==
  /\ \/ TakeRead("First") /\ illegal' = Illegal(ar) /\ rsp' = [rsp EXCEPT !.data = ZeroData]
     \/ TakeWrite("First") /\ illegal' = Illegal(aw) /\ UNCHANGED rsp
  /\ err' = illegal'

(***************************************************************************)
(* step_done, with the register file's error and rdata.  A register holds  *)
(* its own word; the file may drive anything while no request is raised.   *)
(* The first half of a split beat sets id and resp too, as in AxiToApb; no *)
(* one sees them before the second half sets them again.                   *)
(***************************************************************************)
AccessStep(error, rdata) ==
  /\ Accessing
  /\ RegValid => rdata = ActiveWord
  /\ err' = (err \/ error)
  /\ rsp' = [id   |-> ax.id,
             resp |-> IF err \/ error THEN "SLVERR" ELSE "OKAY",
             data |-> IF opWrite THEN rsp.data ELSE [rsp.data EXCEPT ![ActiveLane] = rdata]]
  /\ st' = IF Split(ax) /\ st = "First" THEN "Second" ELSE RespState
  /\ log' = IF RegValid THEN Append(log, [req |-> Access(ActiveWord, ActiveLane), err |-> error])
            ELSE log
  /\ UNCHANGED <<ar, aw, w, preferRead, opWrite, ax, wq, passed, illegal>>

AnyAccess == \E error \in BOOLEAN, rdata \in {0, ActiveWord} : AccessStep(error, rdata)

CompleteStep == Complete /\ UNCHANGED <<illegal, err>>

OfferStep == Offer /\ UNCHANGED <<illegal, err>>

\* The bridge moves: the register file raises ready in the end and the initiator
\* takes its response.
Advance == IdleStep \/ (Accessing /\ AnyAccess) \/ CompleteStep

Next == OfferStep \/ Advance

Spec == Init /\ [][Next]_regVars

-----------------------------------------------------------------------------
TypeOK ==
  /\ SideTypeOK
  /\ st \in {"Idle", "First", "Second", "WriteResp", "ReadResp"}
  /\ illegal \in BOOLEAN
  /\ err \in BOOLEAN

\* When a beat is answered its accesses have been made, each once and in
\* order, the second half also after an error in the first; an illegal beat has
\* touched no register, so its SLVERR has no side effect.
AccessesExact ==
  Responding => Made = IF Illegal(ax) THEN <<>> ELSE Wanted
=============================================================================
