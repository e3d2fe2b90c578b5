------------------------------ MODULE AxiToApb ------------------------------
(***************************************************************************)
(* rtl/bus/soc_axi_to_apb.sv: one AXI beat at a time, as one APB transfer  *)
(* or, for an aligned full-width beat, two.  A transfer is a setup cycle   *)
(* and an access cycle that lasts until the slave is ready.                *)
(***************************************************************************)
EXTENDS AxiSide

VARIABLES
  second,  \* second_q
  err      \* err_q

apbVars == <<sideVars, second, err>>

Init == SideInit /\ second = FALSE /\ err = FALSE

\* active_addr and active_high_lane.
ActiveWord == ax.word + (IF second THEN 1 ELSE 0)

ActiveLane == IF Split(ax) THEN (IF second THEN 1 ELSE 0) ELSE ax.word % 2

\* What the APB request lines carry.
Transfer == Access(ActiveWord, ActiveLane)

PSel == (st = "Setup" /\ ~err) \/ st = "Access"

PEnable == st = "Access"

IdleStep ==
  /\ \/ TakeRead("Setup") /\ err' = Illegal(ar)
     \/ TakeWrite("Setup") /\ err' = Illegal(aw)
  /\ second' = FALSE
  /\ rsp' = [rsp EXCEPT !.data = ZeroData]  \* r_q.data; no write shows it

SetupStep ==
  /\ st = "Setup"
  /\ \/ /\ err
        /\ rsp' = [rsp EXCEPT !.id = ax.id, !.resp = "SLVERR"]
        /\ st' = RespState
     \/ /\ ~err
        /\ st' = "Access"
        /\ UNCHANGED rsp
  /\ UNCHANGED <<ar, aw, w, preferRead, opWrite, ax, wq, log, passed, second, err>>

\* The transfer that goes on to the second half without a second setup cycle.
NextPhaseHasty == IF Split(ax) /\ ~second THEN "Access" ELSE RespState

NextPhase == IF Split(ax) /\ ~second THEN "Setup" ELSE RespState

\* pready, with pslverr = slverr.  The first half sets id and resp too: no one
\* sees them before the second half, or its setup cycle, sets them again.
AccessStep(slverr) ==
  /\ st = "Access"
  /\ err' = (err \/ slverr)
  /\ rsp' = [id   |-> ax.id,
             resp |-> IF err \/ slverr THEN "SLVERR" ELSE "OKAY",
             data |-> IF opWrite THEN rsp.data ELSE [rsp.data EXCEPT ![ActiveLane] = ActiveWord]]
  /\ st' = NextPhase
  /\ second' = (second \/ Split(ax))
  /\ log' = Append(log, [req |-> Transfer, err |-> slverr])
  /\ UNCHANGED <<ar, aw, w, preferRead, opWrite, ax, wq, passed>>

CompleteStep == Complete /\ UNCHANGED <<second, err>>

OfferStep == Offer /\ UNCHANGED <<second, err>>

\* The bridge moves: its state machine steps at every edge, the slave raises
\* pready in the end and the initiator takes its response.  It is this that
\* may be assumed to go on happening.
Advance == IdleStep \/ SetupStep \/ (\E slverr \in BOOLEAN : AccessStep(slverr)) \/ CompleteStep

Next == OfferStep \/ Advance

Spec == Init /\ [][Next]_apbVars

-----------------------------------------------------------------------------
TypeOK ==
  /\ SideTypeOK
  /\ st \in {"Idle", "Setup", "Access", "WriteResp", "ReadResp"}
  /\ second \in BOOLEAN
  /\ err \in BOOLEAN

\* When a beat is answered, its transfers have been made, each once and in
\* order, with the data and the strobe of the lane the address selects; an
\* illegal beat has made none, and one whose first half failed stops there.
TransfersExact ==
  Responding =>
    IF Illegal(ax) THEN Made = <<>>
    ELSE Made = Wanted \/ (Len(Wanted) = 2 /\ Made = <<Wanted[1]>> /\ Failed)

\* APB: every access phase follows a setup phase of the same transfer, and the
\* request lines do not move until the slave is ready.
PhasesKept ==
  /\ PEnable' /\ ~PEnable => PSel /\ Transfer' = Transfer
  /\ PEnable /\ log' = log => PEnable' /\ Transfer' = Transfer
  /\ PEnable /\ log' # log => ~PEnable'
=============================================================================
