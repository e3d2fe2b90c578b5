----------------------------- MODULE CvwAdapter -----------------------------
(***************************************************************************)
(* rtl/cores/corejack_cvw_ahb_adapter.sv: the AHB master of the CVW core   *)
(* in front of the data OBI port.  On AHB the address phase of the next    *)
(* transfer overlaps the data phase of the present one, and both advance   *)
(* in a cycle with HREADY.  Edge is a rising clock edge.                   *)
(***************************************************************************)
EXTENDS Integers, Sequences

CONSTANTS
  Transfers,       \* [addr, size, we, data]: what the core asks for
  NoTransfer,      \* HTRANS idle
  Failing          \* word addresses whose target answers with an error

VARIABLES
  state_q, addr_q, be_q, we_q, wdata_q, rdata_q, err_q,
  ap, dp,          \* the transfers in the address and in the data phase
  bus              \* OBI requests granted and not answered, oldest first

cvwVars == <<state_q, addr_q, be_q, we_q, wdata_q, rdata_q, err_q, ap, dp, bus>>

CvwInit ==
  /\ state_q = "Idle" /\ addr_q = 0 /\ be_q = {} /\ we_q = FALSE /\ wdata_q = 0
  /\ rdata_q = 0 /\ err_q = FALSE
  /\ ap = NoTransfer /\ dp = NoTransfer /\ bus = <<>>

\* HSIZE is the logarithm of the number of bytes.
AhbBe(addr, size) ==
  CASE size = 0 -> {addr % 4}
    [] size = 1 -> IF addr % 4 >= 2 THEN {2, 3} ELSE {0, 1}
    [] OTHER    -> 0..3

HReady == state_q \in {"Idle", "Rsp"}

HResp == err_q

AcceptAddr == HReady /\ ap # NoTransfer

\* data_req_o and its attributes.
Request == [addr |-> addr_q, we |-> we_q, be |-> be_q, data |-> wdata_q]

\* What the target answers: the number of the word read; a write's data is not
\* looked at.
Answer(r) == [data |-> IF r.we THEN 0 ELSE r.addr \div 4, err |-> r.addr \div 4 \in Failing]

-----------------------------------------------------------------------------
AcceptTransfer ==
  /\ HReady
  /\ err_q' = FALSE
  /\ IF AcceptAddr
     THEN /\ addr_q' = ap.addr
          /\ be_q' = AhbBe(ap.addr, ap.size)
          /\ we_q' = ap.we
          /\ wdata_q' = IF ap.we THEN wdata_q ELSE 0
          /\ state_q' = IF ap.we THEN "WriteData" ELSE "Issue"
     ELSE state_q' = "Idle" /\ UNCHANGED <<addr_q, be_q, we_q, wdata_q>>
  /\ UNCHANGED <<rdata_q, bus>>

TakeWriteData ==
  /\ state_q = "WriteData"
  /\ wdata_q' = dp.data
  /\ state_q' = "Issue"
  /\ UNCHANGED <<addr_q, be_q, we_q, rdata_q, err_q, bus>>

IssueRequest(gnt) ==
  /\ state_q = "Issue"
  /\ state_q' = IF gnt THEN "WaitRsp" ELSE "Issue"
  /\ bus' = IF gnt THEN Append(bus, Request) ELSE bus
  /\ UNCHANGED <<addr_q, be_q, we_q, wdata_q, rdata_q, err_q>>

TakeResponse(rvalid) ==
  /\ state_q = "WaitRsp"
  /\ IF rvalid
     THEN /\ rdata_q' = IF we_q THEN 0 ELSE Answer(Head(bus)).data
          /\ err_q' = Answer(Head(bus)).err
          /\ state_q' = IF Answer(Head(bus)).err THEN "ErrFirst" ELSE "Rsp"
          /\ bus' = Tail(bus)
     ELSE UNCHANGED <<rdata_q, err_q, state_q, bus>>
  /\ UNCHANGED <<addr_q, be_q, we_q, wdata_q>>

ErrorSecond ==
  /\ state_q = "ErrFirst"
  /\ state_q' = "Rsp"
  /\ UNCHANGED <<addr_q, be_q, we_q, wdata_q, rdata_q, err_q, bus>>

\* The core: both phases advance with HREADY; in the first cycle of an error the
\* core may take back the transfer whose address it presents.
Core(next, cancel) ==
  IF HReady THEN dp' = ap /\ ap' = next
  ELSE dp' = dp /\ ap' = IF HResp /\ cancel THEN NoTransfer ELSE ap

Edge(in) ==
  /\ \/ AcceptTransfer
     \/ TakeWriteData
     \/ IssueRequest(in.gnt)
     \/ TakeResponse(in.rvalid)
     \/ ErrorSecond
  /\ Core(in.next, in.cancel)

\* The inputs that make a difference in this cycle.
Inputs ==
  [gnt : IF state_q = "Issue" THEN BOOLEAN ELSE {FALSE},
   rvalid : IF bus # <<>> THEN BOOLEAN ELSE {FALSE},
   next : IF HReady THEN Transfers \union {NoTransfer} ELSE {NoTransfer},
   cancel : IF HResp /\ ~HReady THEN BOOLEAN ELSE {FALSE}]

\* rst_ni, with the path behind the port drained before the core is let out.
Reset ==
  /\ state_q' = "Idle" /\ addr_q' = 0 /\ be_q' = {} /\ we_q' = FALSE /\ wdata_q' = 0
  /\ rdata_q' = 0 /\ err_q' = FALSE
  /\ ap' = NoTransfer /\ dp' = NoTransfer /\ bus' = <<>>

CvwNext == (\E in \in Inputs : Edge(in)) \/ Reset

\* The bus grants and answers in the end, and the core may ask for ever.
Serving == \E in \in Inputs : (state_q = "Issue" => in.gnt) /\ (bus # <<>> => in.rvalid) /\ Edge(in)

CvwSpec == CvwInit /\ [][CvwNext]_cvwVars /\ WF_cvwVars(Serving)

-----------------------------------------------------------------------------
\* One, two or four bytes.
Bytes(t) == t.addr..(t.addr + (CASE t.size = 0 -> 0 [] t.size = 1 -> 1 [] OTHER -> 3))

\* corejack_cvw_ahb_adapter: although the next transfer's address is already there
\* while the present one is served, the request on the bus is the one of the data
\* phase, with its bytes and its data, at most one is under way, and HREADY ends the
\* data phase with that request's own response.
AhbExact ==
  /\ (dp = NoTransfer) = (state_q = "Idle")
  /\ state_q = "Issue" =>
       /\ Request.addr = dp.addr /\ Request.we = dp.we
       /\ {4 * (Request.addr \div 4) + i : i \in Request.be} = Bytes(dp)
       /\ dp.we => Request.data = dp.data
  /\ bus = IF state_q = "WaitRsp" THEN <<Request>> ELSE <<>>
  /\ state_q = "Rsp" => [data |-> rdata_q, err |-> err_q] = Answer(dp)

\* corejack_cvw_ahb_adapter: HRESP with HREADY comes only after a cycle of HRESP
\* without HREADY, and the core has then seen the error of this transfer.
TwoCycleError ==
  [][(HReady /\ HResp)' => ~HReady /\ HResp /\ dp' = dp]_cvwVars

\* corejack_cvw_ahb_adapter: every transfer ends.
TransferEnds == []<>(HReady)
=============================================================================
