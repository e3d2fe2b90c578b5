----------------------------- MODULE MCBridges ------------------------------
(***************************************************************************)
(* One of the three single-beat bridges between an initiator and a target: *)
(* kind says which.                                                        *)
(***************************************************************************)
EXTENDS AxiSide

VARIABLES second, illegal, err, rdata, kind

Apb == INSTANCE AxiToApb

Reg == INSTANCE AxiToReg

Dm == INSTANCE AxiToDm

bridgeVars == <<sideVars, second, illegal, err, rdata, kind>>

Ax(i, a, s, b) == [id |-> i, word |-> a, size |-> s, burst |-> b]

\* A word, a split beat, an unaligned full-width one, a burst and a beat wider
\* than the bus.
MCAxs ==
  {Ax(1, 2, 2, FALSE), Ax(1, 2, 3, FALSE), Ax(2, 5, 3, FALSE), Ax(1, 2, 3, TRUE),
   Ax(2, 2, 4, FALSE)}

MCWBeats == {[data |-> [l \in Lanes |-> 5 + l], strb |-> s] : s \in {{0}, {0, 1}}}

BridgesInit ==
  /\ kind \in {"apb", "reg", "dm"}
  /\ SideInit
  /\ second = FALSE /\ illegal = FALSE /\ err = FALSE /\ rdata = ZeroData

ApbOnly == kind = "apb" /\ UNCHANGED <<kind, illegal, rdata>>

RegOnly == kind = "reg" /\ UNCHANGED <<kind, second, rdata>>

DmOnly == kind = "dm" /\ UNCHANGED <<kind, second, illegal, err>>

BridgesNext == (ApbOnly /\ Apb!Next) \/ (RegOnly /\ Reg!Next) \/ (DmOnly /\ Dm!Next)

BridgesSpec == BridgesInit /\ [][BridgesNext]_bridgeVars

BridgesAdvance == (ApbOnly /\ Apb!Advance) \/ (RegOnly /\ Reg!Advance) \/ (DmOnly /\ Dm!Advance)

BridgesFairSpec == BridgesSpec /\ WF_bridgeVars(BridgesAdvance)

-----------------------------------------------------------------------------
BridgesTypeOK ==
  CASE kind = "apb" -> Apb!TypeOK [] kind = "reg" -> Reg!TypeOK [] kind = "dm" -> Dm!TypeOK

\* soc_axi_to_apb: an access phase follows a setup phase of the same transfer,
\* and the request lines hold still until pready.
ApbPhases == [][kind = "apb" => Apb!PhasesKept]_bridgeVars

\* When a beat is answered its accesses have been made, each once, in order and
\* from the right lane.  An illegal beat makes none.  When the first half of a
\* split beat fails, soc_axi_to_apb leaves the second one out and
\* soc_axi_to_reg does not.
AccessesExact ==
  /\ BridgesTypeOK
  /\ kind = "apb" => Apb!TransfersExact
  /\ kind = "reg" => Reg!AccessesExact

\* Id, error and data of a response belong to the beat it answers; soc_axi_to_dm
\* makes one access per beat and answers with the data of the cycle after the
\* request.
ResponseRight == IF kind = "dm" THEN Dm!AnsweredOnce ELSE ResponseExact

\* All three bridges: reads and writes do not starve one another.  At most one
\* beat of the other kind is captured ahead of a waiting one, and every read, and
\* every write whose address and data are offered, is captured.
NobodyStarves == BothServed
=============================================================================
