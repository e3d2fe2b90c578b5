------------------------------ MODULE MCResets ------------------------------
(***************************************************************************)
(* The two parts that hold a core in reset: the AXI reset bridge of a core *)
(* with its own fabric port, and the UART loader with its host.  part says *)
(* which; the other one rests.                                             *)
(***************************************************************************)
EXTENDS ResetBridge, UartLoader

VARIABLE part

resetVars == <<part, vars, loaderVars>>

\* Data bytes that look like commands; the second chunk is shorter.
MCImage == <<CmdGo, 0, CmdPing>>

ResetsInit ==
  /\ part \in {"bridge", "loader"} /\ Init /\ LoaderInit
  /\ part = "bridge" => \A a \in LoadAddrs : base <= a

BridgeOnly == part = "bridge" /\ UNCHANGED <<part, loaderVars>>

LoaderOnly == part = "loader" /\ UNCHANGED <<part, vars>>

ResetsNext == (BridgeOnly /\ Next) \/ (LoaderOnly /\ LoaderNext)

\* The fairness of the two modules.
ResetsSpec ==
  /\ ResetsInit /\ [][ResetsNext]_resetVars
  /\ WF_resetVars(BridgeOnly /\ Edge(Channels, Sides, TRUE))
  /\ \A s \in Sides : WF_resetVars(BridgeOnly /\ FabricResponds(s))
  /\ WF_resetVars(BridgeOnly /\ NdmresetEnds)
  /\ WF_resetVars(LoaderOnly /\ Loader) /\ WF_resetVars(LoaderOnly /\ Host)

-----------------------------------------------------------------------------
\* A reset of a core behind the bridge is acknowledged to the debug module, and the
\* isolation window it opens closes.  (The bridge at rest stays in reset.)
ResetEnds == part = "bridge" => ResetCompletes
=============================================================================
