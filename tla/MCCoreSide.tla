----------------------------- MODULE MCCoreSide ------------------------------
(***************************************************************************)
(* One of the parts a core is connected to, with every core and every      *)
(* target its neighbours could be: part says which, the others rest.       *)
(***************************************************************************)
EXTENDS Plic, ObiPath

CONSTANTS
  Transfers, NoTransfer, AhbFailing,  \* CvwAdapter
  Accesses, NoAccess                  \* NativeAdapters

\* AHB: a transfer is aligned to its size.
ASSUME TransfersAssumption ==
  /\ NoTransfer \notin Transfers
  /\ \A t \in Transfers : t \in [addr : Nat, size : 0..2, we : BOOLEAN, data : Nat]
  /\ \A t \in Transfers : (t.size = 1 => t.addr % 2 = 0) /\ (t.size = 2 => t.addr % 4 = 0)

ASSUME AccessesAssumption ==
  /\ NoAccess \notin Accesses
  /\ \A a \in Accesses : a \in [port : {"instr", "data"}, we : BOOLEAN, addr : Nat]

VARIABLES
  part,
  state_q, addr_q, be_q, we_q, wdata_q, rdata_q, err_q, ap, dp,  \* CvwAdapter
  kind, want, outstanding_q, instr_q, write_q, got,              \* NativeAdapters
  ahbBus, obiBus

Cvw == INSTANCE CvwAdapter WITH bus <- ahbBus, Failing <- AhbFailing

Nat32 == INSTANCE NativeAdapters WITH bus <- obiBus

cvwVars == <<state_q, addr_q, be_q, we_q, wdata_q, rdata_q, err_q, ap, dp, ahbBus>>

nativeVars == <<kind, want, outstanding_q, instr_q, write_q, obiBus, got>>

coreVars == <<part, plicVars, vars, cvwVars, nativeVars>>

Req(w, e, b) == [word |-> w, we |-> e, be |-> b]

\* RAM; a device's half word, byte write and unaligned pair, one that fails;
\* an address beyond the bus.
MCReqs ==
  {Req(4, FALSE, 0..3), Req(1, FALSE, {2, 3}), Req(0, TRUE, {1}),
   Req(2, FALSE, {1, 2}), Req(8, TRUE, {0})}

\* AHB transfers of every size, aligned, in two words; the second word fails.
MCTransfers ==
  {t \in [addr : 0..7, size : 0..2, we : BOOLEAN, data : {1, 2}] :
     t.addr % 2^t.size = 0 /\ (~t.we => t.data = 1) /\ (t.addr > 3 => t.size = 2)}

\* A fetch is a read.
MCAccesses ==
  {a \in [port : {"instr", "data"}, we : BOOLEAN, addr : {1, 2}] : a.port = "instr" => ~a.we}

CoreInit ==
  /\ part \in {"plic", "path", "cvw", "native"}
  /\ PlicInit /\ Init /\ Cvw!CvwInit /\ Nat32!NativeInit
  /\ part # "native" => kind = "serv"

PlicOnly == part = "plic" /\ UNCHANGED <<part, vars, cvwVars, nativeVars>>

PathOnly == part = "path" /\ UNCHANGED <<part, plicVars, cvwVars, nativeVars>>

CvwOnly == part = "cvw" /\ UNCHANGED <<part, plicVars, vars, nativeVars>>

NativeOnly == part = "native" /\ UNCHANGED <<part, plicVars, vars, cvwVars>>

CoreNext ==
  \/ PlicOnly /\ PlicNext
  \/ PathOnly /\ Next
  \/ CvwOnly /\ Cvw!CvwNext
  \/ NativeOnly /\ Nat32!NativeNext

\* The fairness of the four modules.
CoreSpec ==
  /\ CoreInit /\ [][CoreNext]_coreVars
  /\ WF_coreVars(PlicOnly /\ IdleEdge) /\ WF_coreVars(PlicOnly /\ Irq /\ Claim)
  /\ WF_coreVars(PlicOnly /\ Serve) /\ WF_coreVars(PlicOnly /\ Complete)
  /\ WF_coreVars(PathOnly /\ Edge(Cooperative)) /\ WF_coreVars(PathOnly /\ CoreRelease)
  /\ WF_coreVars(CvwOnly /\ Cvw!Serving)
  /\ WF_coreVars(NativeOnly /\ Nat32!Edge(Nat32!Cooperative))

-----------------------------------------------------------------------------
\* The AHB adapter and the adapters of PicoRV32 and SERV: what the core asked for is
\* on the OBI port once, as it was asked, and the core gets the answer to it, an
\* error on AHB in two cycles.
AdaptersExact ==
  [](Cvw!AhbExact /\ Nat32!OnceAndOwn) /\ Cvw!TwoCycleError

\* Whatever part a core waits for, it does not wait for ever: the PLIC serves the
\* source on top, the path and the adapters answer what they accepted.
CoreServed == TopServed /\ KeepsAnswering /\ Cvw!TransferEnds /\ Nat32!CoreAnswered
=============================================================================
