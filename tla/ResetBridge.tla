----------------------------- MODULE ResetBridge -----------------------------
(***************************************************************************)
(* The core-only reset of CVA6: rtl/bus/soc_axi_reset_bridge.sv, and in    *)
(* rtl/top/soc_top.sv the ndmreset acknowledge, the isolation window and   *)
(* the axi_isolate stage.  ndmreset resets the core and not the fabric.    *)
(*                                                                         *)
(* Edge is a rising clock edge: every register is updated at once from     *)
(* the values before the edge.  The other actions happen between edges.    *)
(* In particular the core's reset asserts there: Ndmreset makes the core   *)
(* drop what it presented at the last edge.                                *)
(*                                                                         *)
(* A request is its number among the core's writes or reads; the AW and    *)
(* the W of a write carry the same number.  The fabric matches the n-th AW *)
(* with the n-th W and answers in order, whenever it likes.                *)
(***************************************************************************)
EXTENDS Integers, Sequences, Functions

CONSTANTS
  MaxReqs,   \* bound: writes, and reads, of the whole behaviour
  MaxResets  \* bound: how often the debugger resets the core

ASSUME BridgeAssumption == MaxReqs \in Nat /\ MaxResets \in Nat

VARIABLES
  ndm, rst, init_q, pending, ack,  \* ndmreset, core_rst_ni, core_init_ni_q,
                                   \* ndmreset_pending_q, ndmreset_ack
  isolate_q,                       \* cva6_isolate_q
  core,     \* slv_req_i: what the core presents on each channel
  held,     \* the copies of the bridge, None when aw_held_q etc. is low
  iso_state,    \* axi_isolate: state of the write and of the read side
  count,    \* axi_isolate: requests presented and not completed
  seen,     \* the requests the fabric has accepted on each channel
  answered,     \* how many writes and reads the fabric has answered
  rsp,      \* whether the fabric presents a response
  waiting,  \* what the core, in this life, knows to be accepted and unanswered
  stalled,  \* history: presented to the fabric at the last edge and not taken
  issued,   \* how many writes and reads the core has begun
  resets    \* how often ndmreset was asserted

vars == <<ndm, rst, init_q, pending, ack, isolate_q, core, held, iso_state, count, seen,
          answered, rsp, waiting, stalled, issued, resets>>

None == 0

Requests == 0..MaxReqs

Channels == {"aw", "w", "ar"}

Sides == {"wr", "rd"}

SideOf(c) == IF c = "ar" THEN "rd" ELSE "wr"

ChannelsOf(s) == {c \in Channels : SideOf(c) = s}

Nothing == [c \in Channels |-> None]

Init ==
  /\ ndm = FALSE /\ rst = FALSE /\ init_q = FALSE
  /\ pending = FALSE /\ ack = FALSE /\ isolate_q = FALSE
  /\ core = Nothing /\ held = Nothing /\ stalled = Nothing
  /\ iso_state = [s \in Sides |-> "isolate"]
  /\ count = [c \in Channels |-> 0]
  /\ seen = [c \in Channels |-> <<>>]
  /\ answered = [s \in Sides |-> 0]
  /\ rsp = [s \in Sides |-> FALSE]
  /\ waiting = [c \in Channels |-> {}]
  /\ issued = [s \in Sides |-> 0]
  /\ resets = 0

-----------------------------------------------------------------------------
Isolated == \A s \in Sides : iso_state[s] = "isolate"

\* A window that closes with the reset, drained or not.
IsolateInReset == ~rst \/ pending

\* cva6_isolate
Isolate == ~rst \/ pending \/ (isolate_q /\ ~Isolated)

\* mst_req_o: a held copy drives its channel, else the core does.
Mst(c) ==
  IF held[c] # None THEN held[c] ELSE IF Isolate THEN None ELSE core[c]

(***************************************************************************)
(* axi_isolate.  It counts a request when it first presents it downstream, *)
(* keeps presenting one that is not taken, presents none while it drains,  *)
(* and passes write data only for the writes it has counted.  Its capacity *)
(* of 32 is out of the core's reach.                                       *)
(***************************************************************************)
Pushes(s) ==
  iso_state[s] = "normal" /\ \E c \in ChannelsOf(s) \ {"w"} : Mst(c) # None

Open(c) ==
  IF c = "w" THEN count["w"] > 0 \/ Pushes("wr") ELSE iso_state[SideOf(c)] \in {"normal", "hold"}

\* The handshake on channel c of the fabric side, given the fabric's readies.
Fires(c, ready) == Mst(c) # None /\ c \in ready /\ Open(c)

RspValid(s) == rsp[s] /\ iso_state[s] # "isolate"

RspFires(s, take) == RspValid(s) /\ (s \in take \/ Isolate)

StateAfter(s, ready) ==
  LET fires == \E c \in ChannelsOf(s) \ {"w"} : Fires(c, ready)
      next  == IF Isolate THEN "drain" ELSE "normal"
  IN  CASE iso_state[s] = "normal"  -> IF Pushes(s) /\ ~fires THEN "hold" ELSE next
        [] iso_state[s] = "hold"    -> IF fires THEN next ELSE "hold"
        [] iso_state[s] = "drain"   -> IF \A c \in ChannelsOf(s) : count[c] = 0
                                   THEN "isolate" ELSE "drain"
        [] iso_state[s] = "isolate" -> IF Isolate THEN "isolate" ELSE "normal"

Unit(b) == IF b THEN 1 ELSE 0

CountAfter(c, ready, take) ==
  count[c] + Unit(Pushes(SideOf(c)))
           - Unit(IF c = "w" THEN Fires(c, ready) ELSE RspFires(SideOf(c), take))

-----------------------------------------------------------------------------
\* A bridge that keeps no copy of write data.
HeldNoData(c, ready) == IF c # "w" /\ ~Fires(c, ready) THEN Mst(c) ELSE None

\* aw_stall and aw_q, and so on: what was presented and not taken.
HeldAfter(c, ready) == IF Fires(c, ready) THEN None ELSE Mst(c)

AcceptsUngated(c, ready) == core[c] # None /\ c \in ready /\ Open(c)

\* The core sees its request on channel c taken.
Accepts(c, ready) == core[c] # None /\ c \in ready /\ Open(c) /\ ~Isolate

\* The request the fabric answers next.
Oldest(s) == LET c == IF s = "wr" THEN "aw" ELSE "ar" IN seen[c][answered[s] + 1]

\* The response the core sees, None when BVALID or RVALID is low to it.
ToCore(s) == IF RspValid(s) /\ ~Isolate THEN Oldest(s) ELSE None

\* ndmreset_pending_q as a mere delayed sample of ndmreset.
PendingUnlatched == ndm

\* ndmreset_pending_q
PendingAfter == ndm \/ (pending /\ ~(rst /\ ~init_q))

\* One edge: the channels the fabric is ready on, the responses the core is
\* ready for, and whether rstgen lets the core out of reset.
Edge(ready, take, release) ==
  /\ init_q' = rst
  /\ ack' = (pending /\ rst /\ ~init_q)
  /\ pending' = PendingAfter
  /\ isolate_q' = Isolate
  /\ rst' = (rst \/ (release /\ ~ndm))
  /\ held' = [c \in Channels |-> HeldAfter(c, ready)]
  /\ stalled' = [c \in Channels |-> IF Fires(c, ready) THEN None ELSE Mst(c)]
  /\ core' = [c \in Channels |-> IF Accepts(c, ready) THEN None ELSE core[c]]
  /\ iso_state' = [s \in Sides |-> StateAfter(s, ready)]
  /\ count' = [c \in Channels |-> CountAfter(c, ready, take)]
  /\ seen' = [c \in Channels |->
                IF Fires(c, ready) THEN Append(seen[c], Mst(c)) ELSE seen[c]]
  /\ answered' = [s \in Sides |-> answered[s] + Unit(RspFires(s, take))]
  /\ rsp' = [s \in Sides |-> rsp[s] /\ ~RspFires(s, take)]
  /\ waiting' = [c \in Channels |->
                   (waiting[c] \union (IF Accepts(c, ready) THEN {core[c]} ELSE {}))
                   \ (IF SideOf(c) \in take THEN {ToCore(SideOf(c))} ELSE {})]
  /\ UNCHANGED <<ndm, issued, resets>>

\* The core presents a request: the AW and the W of a write together.
Present(s) ==
  /\ rst
  /\ \A c \in ChannelsOf(s) : core[c] = None
  /\ issued[s] < MaxReqs
  /\ issued' = [issued EXCEPT ![s] = @ + 1]
  /\ core' = [c \in Channels |-> IF SideOf(c) = s THEN issued[s] + 1 ELSE core[c]]
  /\ UNCHANGED <<ndm, rst, init_q, pending, ack, isolate_q, held, iso_state, count, seen,
                 answered, rsp, waiting, stalled, resets>>

\* The fabric presents the response to its oldest complete request.
FabricResponds(s) ==
  /\ ~rsp[s]
  /\ \A c \in ChannelsOf(s) : Len(seen[c]) > answered[s]
  /\ rsp' = [rsp EXCEPT ![s] = TRUE]
  /\ UNCHANGED <<ndm, rst, init_q, pending, ack, isolate_q, core, held, iso_state, count,
                 seen, answered, waiting, stalled, issued, resets>>

\* The debugger asserts ndmreset; the core is in reset at once and forgets.
Ndmreset ==
  /\ ~ndm
  /\ resets < MaxResets
  /\ ndm' = TRUE
  /\ rst' = FALSE
  /\ core' = Nothing
  /\ waiting' = [c \in Channels |-> {}]
  /\ resets' = resets + 1
  /\ UNCHANGED <<init_q, pending, ack, isolate_q, held, iso_state, count, seen, answered, rsp,
                 stalled, issued>>

\* ndmreset is a register: it stays up for at least one edge.
NdmresetEnds ==
  /\ ndm /\ pending
  /\ ndm' = FALSE
  /\ UNCHANGED <<rst, init_q, pending, ack, isolate_q, core, held, iso_state, count, seen,
                 answered, rsp, waiting, stalled, issued, resets>>

\* A ready on a channel where nothing is presented has no effect.
Busy == {c \in Channels : core[c] # None \/ held[c] # None}

Next ==
  \/ \E ready \in SUBSET Busy, take \in SUBSET {s \in Sides : rsp[s]}, release \in BOOLEAN :
       Edge(ready, take, release)
  \/ \E s \in Sides : Present(s) \/ FabricResponds(s)
  \/ Ndmreset
  \/ NdmresetEnds

Spec == Init /\ [][Next]_vars

\* The clock runs, rstgen releases the core, and the fabric takes and answers
\* what it is given; the debugger does not hold ndmreset for ever.  Nothing
\* makes the core present a request.
FairSpec ==
  /\ Spec
  /\ WF_vars(Edge(Channels, Sides, TRUE))
  /\ \A s \in Sides : WF_vars(FabricResponds(s))
  /\ WF_vars(NdmresetEnds)

-----------------------------------------------------------------------------
TypeOK ==
  /\ {ndm, rst, init_q, pending, ack, isolate_q} \subseteq BOOLEAN
  /\ {core, held, stalled} \subseteq [Channels -> Requests]
  /\ iso_state \in [Sides -> {"normal", "hold", "drain", "isolate"}]
  /\ count \in [Channels -> 0..MaxReqs]
  /\ \A c \in Channels : seen[c] \in Seq(Requests) /\ Len(seen[c]) <= MaxReqs
  /\ answered \in [Sides -> Requests]
  /\ rsp \in [Sides -> BOOLEAN]
  /\ waiting \in [Channels -> SUBSET Requests]
  /\ issued \in [Sides -> Requests]
  /\ resets \in 0..MaxResets

\* Rule 1 of the bridge's header, through every reset: what was presented to
\* the fabric at one edge and not taken is still presented, unchanged.
HandshakeKept == TypeOK /\ \A c \in Channels : stalled[c] # None => Mst(c) = stalled[c]

\* A write torn by a reset completes with its own data: on the fabric the n-th
\* W belongs to the n-th AW.
WritesPaired ==
  \A i \in 1..MaxReqs :
    i <= Len(seen["aw"]) /\ i <= Len(seen["w"]) => seen["aw"][i] = seen["w"][i]

\* The fabric sees no handshake withdrawn or changed and no write completed with
\* the data of another, through every reset of the core.
FabricUndisturbed == HandshakeKept /\ WritesPaired

(***************************************************************************)
(* What the core sees is true of its present life.  A request it saw       *)
(* accepted was accepted, and not for an earlier life; a response answers  *)
(* a request of this life that it saw accepted.                            *)
(***************************************************************************)
CoreSeesItsOwn ==
  /\ \A c \in Channels : \A r \in waiting[c] : r \in Range(seen[c])
  /\ \A s \in Sides : ToCore(s) # None =>
       \A c \in ChannelsOf(s) : ToCore(s) \in waiting[c]

\* The bridge's assertion: when the window closes, no copy is left to be issued
\* for a core that has been reset since.
NothingOutlivesIsolation ==
  isolate_q /\ ~Isolate => held = Nothing /\ \A c \in Channels : count[c] = 0

\* A reset is acknowledged to the debug module, and the window it opens closes.
ResetCompletes == (ndm ~> ack) /\ (Isolate ~> ~Isolate)
=============================================================================
