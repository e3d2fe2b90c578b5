-------------------------------- MODULE Plic --------------------------------
(***************************************************************************)
(* rtl/platform/soc_plic.sv, between level-triggered devices and one hart. *)
(* Edge(r) is a rising clock edge with request r on the register port: the *)
(* gateway latches the sources, and the request takes effect.              *)
(*                                                                         *)
(* A device holds its line up until its handler serves it.  The hart runs  *)
(* one handler at a time: claim, serve the device, complete.  Between any  *)
(* two steps software may write priorities, enables and the threshold.     *)
(***************************************************************************)
EXTENDS Integers

CONSTANTS
  NumSources,  \* the sources are 1..NumSources
  PrioWidth    \* bits of a priority

\* The last conjunct is arithmetic; it is here for the proofs.
ASSUME PlicAssumption ==
  NumSources \in Nat \ {0} /\ PrioWidth \in Nat \ {0} /\ 2^PrioWidth \in Nat \ {0}

VARIABLES
  prio, ip, en, active, threshold,  \* the registers of these names
  line,                             \* irq_sources_i
  hart,                             \* the handler: what it does and for which source
  dropped                           \* history: sources whose completion was ignored

plicVars == <<prio, ip, en, active, threshold, line, hart, dropped>>

Sources == 1..NumSources

Prios == 0..(2^PrioWidth - 1)

Idle == [at |-> "idle", id |-> 0]

PlicInit ==
  /\ prio = [s \in Sources |-> 0]
  /\ ip = {} /\ en = {} /\ active = {}
  /\ threshold = 0
  /\ line = {}
  /\ hart = Idle
  /\ dropped = {}

(***************************************************************************)
(* best_id and best_prio: the loop visits the sources from the highest id  *)
(* down, and a later one wins a tie.  Round[n] is what n rounds yield.     *)
(***************************************************************************)
Beats(p, best) == p >= best

Candidate(s) == s \in ip /\ s \in en /\ prio[s] # 0

Round[n \in 0..NumSources] ==
  IF n = 0 THEN [id |-> 0, prio |-> 0]
  ELSE LET s == NumSources + 1 - n
       IN  IF Candidate(s) /\ Beats(prio[s], Round[n - 1].prio)
           THEN [id |-> s, prio |-> prio[s]] ELSE Round[n - 1]

BestId == Round[NumSources].id

Irq == BestId # 0 /\ Round[NumSources].prio > threshold

\* The gateway that overrides a claim of the same edge.
GatewayOverrides(claimed) == (ip \ claimed) \union (line \ active)

\* ip after an edge: what asks and is not being served is latched; a claim at
\* the same edge wins.
Gateway(claimed) == (ip \union (line \ active)) \ claimed

\* Completion obeyed for the wrong sources.
CompletedSwapped(id) == IF id \in en THEN active ELSE active \ {id}

Completed(id) == IF id \in en THEN active \ {id} ELSE active

\* prio_t'(wdata)
PrioOf(v) == v % 2^PrioWidth

\* An edge without a request.
IdleEdge ==
  /\ ip' = Gateway({})
  /\ UNCHANGED <<prio, en, active, threshold, line, hart, dropped>>

\* A read of the claim register: the handler learns BestId, and there is
\* nothing to do if that is 0.
Claim ==
  LET claimed == {BestId} \ {0}
  IN  /\ hart = Idle
      /\ ip' = Gateway(claimed)
      /\ active' = active \union claimed
      /\ hart' = IF BestId = 0 THEN Idle ELSE [at |-> "claimed", id |-> BestId]
      /\ UNCHANGED <<prio, en, threshold, line, dropped>>

\* The handler makes the device take its line down.
Serve ==
  /\ hart.at = "claimed"
  /\ line' = line \ {hart.id}
  /\ hart' = [hart EXCEPT !.at = "served"]
  /\ UNCHANGED <<prio, ip, en, active, threshold, dropped>>

\* A write of the claim register.
Complete ==
  /\ hart.at = "served"
  /\ ip' = Gateway({})
  /\ active' = Completed(hart.id)
  /\ hart' = Idle
  /\ dropped' = IF hart.id \in en THEN dropped ELSE dropped \union {hart.id}
  /\ UNCHANGED <<prio, en, threshold, line>>

WritePrio(s, v) ==
  /\ ip' = Gateway({})
  /\ prio' = [prio EXCEPT ![s] = PrioOf(v)]
  /\ UNCHANGED <<en, active, threshold, line, hart, dropped>>

WriteEnable(set) ==
  /\ ip' = Gateway({})
  /\ en' = set
  /\ UNCHANGED <<prio, active, threshold, line, hart, dropped>>

WriteThreshold(v) ==
  /\ ip' = Gateway({})
  /\ threshold' = PrioOf(v)
  /\ UNCHANGED <<prio, en, active, line, hart, dropped>>

\* A device asks for service.
Raise(s) ==
  /\ s \notin line
  /\ line' = line \union {s}
  /\ UNCHANGED <<prio, ip, en, active, threshold, hart, dropped>>

PlicNext ==
  \/ IdleEdge
  \/ Claim \/ Serve \/ Complete
  \/ \E s \in Sources : Raise(s) \/ (\E v \in 0..2^PrioWidth : WritePrio(s, v))
  \/ \E set \in SUBSET Sources : WriteEnable(set)
  \/ \E v \in 0..2^PrioWidth : WriteThreshold(v)

PlicSpec == PlicInit /\ [][PlicNext]_plicVars

\* The clock runs; the hart takes the interrupt and finishes its handler.
PlicFairSpec ==
  PlicSpec /\ WF_plicVars(IdleEdge) /\ WF_plicVars(Irq /\ Claim) /\ WF_plicVars(Serve) /\ WF_plicVars(Complete)

-----------------------------------------------------------------------------
PlicTypeOK ==
  /\ prio \in [Sources -> Prios]
  /\ ip \subseteq Sources /\ en \subseteq Sources /\ active \subseteq Sources
  /\ threshold \in Prios
  /\ line \subseteq Sources
  /\ hart \in [at : {"idle", "claimed", "served"}, id : 0..NumSources]
  /\ dropped \subseteq Sources

(***************************************************************************)
(* The gateway rule.  A pending source is one whose device still asks and  *)
(* whose gateway is open, so no handler runs twice for one request; and a  *)
(* gateway is closed exactly while its source is served or because the     *)
(* completion came while the source was disabled.                          *)
(***************************************************************************)
GatewayRule ==
  /\ PlicTypeOK
  /\ ip \subseteq line \ active
  /\ active = dropped \union (IF hart = Idle THEN {} ELSE {hart.id})
  /\ hart.at = "claimed" => hart.id \in line

\* The specification of the loop: of the candidates, one of the highest
\* priority, and of those the one with the lowest id.
BestIsHighest ==
  LET candidates == {s \in Sources : Candidate(s)}
      highest == {s \in candidates : \A t \in candidates : prio[t] <= prio[s]}
  IN  IF candidates = {} THEN BestId = 0
      ELSE BestId \in highest /\ \A s \in highest : BestId <= s

\* A request is not lost: a pending source stays pending until the hart has
\* claimed that very source, whatever software writes in between.
OnlyClaimClears ==
  [][\A s \in ip : s \notin ip' => hart = Idle /\ hart'.at = "claimed" /\ hart'.id = s]_plicVars

\* A source is pending only while its device asks and its gateway is open, a claim
\* gets the best of them, and only the hart's claim of that very source takes a
\* request back.
GatewayKept == [](GatewayRule /\ BestIsHighest) /\ OnlyClaimClears

\* The source that beats every other one: enabled, above the threshold.
Top(s) ==
  /\ s \in en /\ prio[s] > threshold
  /\ \A t \in Sources \ {s} : prio[t] < prio[s] \/ (prio[t] = prio[s] /\ s < t)

\* A device whose source stays on top is served, whatever the others do, unless
\* a completion was ignored because the source was disabled at the time.
TopServed ==
  \A s \in Sources :
    <>[](Top(s) /\ s \notin dropped) => [](s \in line => <>(s \notin line))
=============================================================================
