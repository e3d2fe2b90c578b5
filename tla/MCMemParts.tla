----------------------------- MODULE MCMemParts -----------------------------
(***************************************************************************)
(* One part of the memory alone, a bank, a port or the AXI bridge in front *)
(* of a port, with every request its neighbours could make: part says      *)
(* which, the others rest.  The initiator at the bridge copies as the iDMA *)
(* engine does: it takes a read response only while it has room for the    *)
(* word, and has write data only once it has a word.                       *)
(***************************************************************************)
EXTENDS MemPort, MemBank, AxiToMem

CONSTANT CopyRoom   \* words the initiator can hold

VARIABLES
  part,
  held              \* words read and not yet written

partVars == <<portVars, bankVars, vars, part, held>>

PartsInit ==
  PortInit /\ BankInit /\ Init /\ part \in {"bank", "port", "bridge"} /\ held = 0

\* The initiator's side of an edge of the bridge.
Copies(e, in) ==
  \/ /\ e = "rd" /\ (in.ready => held < CopyRoom)
     /\ held' = held + Count(Fire(e, in))
  \/ /\ e = "wr" /\ (in.wvalid => held > 0)
     /\ held' = held - Count(Admit(e, in))

BridgeStep(e, in) ==
  /\ part = "bridge"
  /\ Copies(e, in) /\ Edge(e, in)
  /\ UNCHANGED <<portVars, bankVars, part>>

PartsNext ==
  \/ part = "bank" /\ BankNext /\ UNCHANGED <<portVars, vars, part, held>>
  \/ part = "port" /\ PortNext /\ UNCHANGED <<bankVars, vars, part, held>>
  \/ \E e \in Engines, in \in Inputs : BridgeStep(e, in)

\* The memory keeps granting and answering, and the initiator writes what it has read
\* and takes responses.  Nothing makes it start a read.
PartsSpec ==
  /\ PartsInit /\ [][PartsNext]_partVars
  /\ \A e \in Engines :
       /\ WF_partVars(\E in \in Inputs : Grants(e, in) /\ BridgeStep(e, in))
       /\ WF_partVars(\E in \in Inputs : Answers(e, in) /\ BridgeStep(e, in))
       /\ WF_partVars(\E in \in Inputs : Takes(e, in) /\ BridgeStep(e, in))
  /\ WF_partVars(\E in \in Inputs : Offers("wr", in) /\ BridgeStep("wr", in))
=============================================================================
