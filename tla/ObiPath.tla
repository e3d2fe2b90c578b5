------------------------------ MODULE ObiPath -------------------------------
(***************************************************************************)
(* The way of an RV32 core's requests into the SoC: the buffer             *)
(* rtl/mem/soc_obi_mem_buffer.sv, the request router of                    *)
(* rtl/top/soc_top.sv, which sends RAM accesses to a port of soc_mem_ss    *)
(* and the others to the crossbar, and the bridge rtl/bus/soc_obi_to_axi.sv*)
(* in front of the crossbar.  Edge is a rising clock edge: the registers   *)
(* of all three are updated at once from the values before it.             *)
(*                                                                         *)
(* A request names a word and the enabled bytes; read data is the number   *)
(* of the word read.  RAM and fabric answer whenever they like.  A reset   *)
(* resets the core and nothing else.                                       *)
(***************************************************************************)
EXTENDS Integers, Sequences, FiniteSetsExt

CONSTANTS
  CoreReqs,   \* the requests the core makes, a subset of Reqs
  Words,      \* word numbers; the bus is two words wide
  RamWords,   \* the words of the RAM window
  BeyondBus,  \* words above the fabric's address space (only the 64-bit
              \* instance of the bridge, behind the debugger, has any)
  Failing,    \* words whose target answers with an error
  FifoDepth,  \* ReqFifoDepth and RspFifoDepth
  ResetEdges, \* edges for which rstgen keeps the core in reset at least
  MaxResets   \* bound: resets of the core

\* Bytes of an OBI word: ObiBytes.
ObiBytes == 4

Reqs == [word : Words, we : BOOLEAN, be : SUBSET (0..ObiBytes - 1)]

ASSUME PathAssumption ==
  /\ Words \subseteq Nat /\ RamWords \subseteq Words /\ CoreReqs \subseteq Reqs
  /\ FifoDepth \in Nat \ {0} /\ ResetEdges \in Nat /\ MaxResets \in Nat

VARIABLES
  core,             \* what the core presents: a set of at most one request
  reqq, rspq,       \* the buffer's FIFOs
  busy, sel_ram,    \* the router: data_rt_busy_q, data_rt_sel_ram_q
  state, req_q,     \* the bridge: state_q, and addr_q, be_q with the request
  aw_done, w_done,  \* aw_done_q, w_done_q
  ram,              \* granted by soc_mem_ss and not answered
  fabric,           \* channels on which the fabric has taken this access
  rst, window,      \* core_rst_ni; edges left before rstgen may release it
  resets,           \* how often the core was reset
  acc               \* history: granted to the core and not answered, oldest
                    \* first, and whether the core's present life asked for it

bridgeVars == <<state, req_q, aw_done, w_done, fabric>>

vars == <<core, reqq, rspq, busy, sel_ram, bridgeVars, ram, rst, window, resets, acc>>

\* What the registers of the bridge are reset to.
ZeroReq == [word |-> 0, we |-> FALSE, be |-> {}]

\* data_is_ram
IsRam(r) == r.word \in RamWords

Init ==
  /\ core = {} /\ reqq = <<>> /\ rspq = <<>>
  /\ busy = FALSE /\ sel_ram = FALSE
  /\ state = "Idle" /\ req_q = ZeroReq /\ aw_done = FALSE /\ w_done = FALSE
  /\ ram = <<>> /\ fabric = {}
  /\ rst = TRUE /\ window = 0 /\ resets = 0
  /\ acc = <<>>

-----------------------------------------------------------------------------
LaneOf(word) == word % 2

\* ax_encode without the alignment test.
EncodeAnyRun(word, be) ==
  IF be # {} /\ be = Min(be)..Max(be)
  THEN [addr |-> ObiBytes * word + Min(be), bytes |-> Cardinality(be)]
  ELSE [addr |-> ObiBytes * word, bytes |-> ObiBytes]

\* ax_encode: an aligned run of enabled bytes is a narrow access, everything
\* else a full one.
Encode(word, be) ==
  IF /\ Cardinality(be) \in {1, 2, 4, 8}
     /\ Min(be) % Cardinality(be) = 0
     /\ be = Min(be)..(Min(be) + Cardinality(be) - 1)
  THEN [addr |-> ObiBytes * word + Min(be), bytes |-> Cardinality(be)]
  ELSE [addr |-> ObiBytes * word, bytes |-> ObiBytes]

\* expand_be: the bus bytes whose strobe is set.
Strobes(word, be) == {ObiBytes * LaneOf(word) + i : i \in be}

\* What the fabric puts on the two lanes for an access at byte address a.
Beat(a) == [l \in 0..1 |-> 2 * (a \div (2 * ObiBytes)) + l]

\* select_rdata
SelectLane(word, beat) == beat[LaneOf(word)]

\* The response a request is owed; a write's data is not looked at.
Expected(r) ==
  [err |-> r.word \in BeyondBus \union Failing,
   data |-> IF r.we \/ r.word \in BeyondBus THEN {} ELSE {r.word}]

RamResponse == Expected(Head(ram))

\* s_rdata_o and s_err_o of the bridge.
BridgeResponse ==
  CASE state = "ErrResp"   -> [err |-> TRUE, data |-> {}]
    [] state = "WriteResp" -> [err |-> req_q.word \in Failing, data |-> {}]
    [] state = "ReadResp"  ->
         [err |-> req_q.word \in Failing,
          data |-> {SelectLane(req_q.word, Beat(Encode(req_q.word, req_q.be).addr))}]

-----------------------------------------------------------------------------
(***************************************************************************)
(* The wires of a cycle.  in.ready are the targets that take a request     *)
(* ("ram", "aw", "w", "ar"), in.valid the ones that present a response     *)
(* ("ram", "fabric").                                                      *)
(***************************************************************************)
AcceptAlways == reqq # <<>>

\* data_rt_accept: one request at a time over both ways.
Accept == reqq # <<>> /\ ~busy

Gnt(in) ==
  /\ Accept
  /\ IF IsRam(Head(reqq)) THEN "ram" \in in.ready ELSE state = "Idle"

RamValid(in) == "ram" \in in.valid /\ ram # <<>>

BridgeValid(in) ==
  \/ state = "ErrResp"
  \/ state = "WriteResp" /\ "fabric" \in in.valid /\ {"aw", "w"} \subseteq fabric
  \/ state = "ReadResp" /\ "fabric" \in in.valid /\ "ar" \in fabric

RReady == Len(rspq) < FifoDepth

RValid(in) == busy /\ (IF sel_ram THEN RamValid(in) ELSE BridgeValid(in))

\* A queue at an edge.
AfterEdge(q, push, x, pop) ==
  LET rest == IF pop THEN Tail(q) ELSE q
  IN  IF push THEN Append(rest, x) ELSE rest

\* fifo_v3 without fall-through: full_o is a register, so a push into a full FIFO is
\* lost even when an entry leaves at the same edge.
Fifo(q, push, x, pop) == AfterEdge(q, push /\ Len(q) < FifoDepth, x, pop)

Fires(c, in) == c \in in.ready /\ ((c = "aw" /\ ~aw_done) \/ (c = "w" /\ ~w_done))

WriteSent(in) == (aw_done \/ Fires("aw", in)) /\ (w_done \/ Fires("w", in))

\* The bridge at an edge.
BridgeEdge(in) ==
  \/ /\ state = "Idle"
     /\ aw_done' = FALSE /\ w_done' = FALSE /\ fabric' = {}
     /\ IF Accept /\ ~IsRam(Head(reqq))
        THEN /\ req_q' = Head(reqq)
             /\ state' = CASE Head(reqq).word \in BeyondBus -> "ErrResp"
                           [] Head(reqq).we /\ Head(reqq).word \notin BeyondBus -> "WriteReq"
                           [] OTHER -> "ReadReq"
        ELSE UNCHANGED <<req_q, state>>
  \/ /\ state = "WriteReq"
     /\ aw_done' = (aw_done \/ Fires("aw", in))
     /\ w_done' = (w_done \/ Fires("w", in))
     /\ fabric' = fabric \union {c \in {"aw", "w"} : Fires(c, in)}
     /\ state' = IF WriteSent(in) THEN "WriteResp" ELSE "WriteReq"
     /\ UNCHANGED req_q
  \/ /\ state = "ReadReq"
     /\ fabric' = IF "ar" \in in.ready THEN {"ar"} ELSE {}
     /\ state' = IF "ar" \in in.ready THEN "ReadResp" ELSE "ReadReq"
     /\ UNCHANGED <<req_q, aw_done, w_done>>
  \/ /\ state \in {"WriteResp", "ReadResp", "ErrResp"}
     /\ state' = IF BridgeValid(in) /\ RReady THEN "Idle" ELSE state
     /\ UNCHANGED <<req_q, aw_done, w_done, fabric>>

Edge(in) ==
  LET enters == core # {} /\ Len(reqq) < FifoDepth
      pop    == Gnt(in)
      push   == RValid(in) /\ RReady
      leaves == rspq # <<>>
      asked  == CHOOSE r \in core : TRUE
  IN  /\ core' = IF enters THEN {} ELSE core
      /\ reqq' = Fifo(reqq, enters, asked, pop)
      /\ rspq' = Fifo(rspq, push, IF sel_ram THEN RamResponse ELSE BridgeResponse, leaves)
      /\ busy' = IF busy THEN ~push ELSE pop
      /\ sel_ram' = IF ~busy /\ pop THEN IsRam(Head(reqq)) ELSE sel_ram
      /\ ram' = AfterEdge(ram, pop /\ IsRam(Head(reqq)), Head(reqq), RamValid(in) /\ RReady)
      /\ BridgeEdge(in)
      /\ acc' = AfterEdge(acc, enters, [req |-> asked, mine |-> TRUE], leaves)
      /\ window' = IF window > 0 THEN window - 1 ELSE 0
      /\ UNCHANGED <<rst, resets>>

\* The core presents a request and holds it until it is granted.
Ask(r) ==
  /\ rst /\ core = {}
  /\ core' = {r}
  /\ UNCHANGED <<reqq, rspq, busy, sel_ram, bridgeVars, ram, rst, window, resets, acc>>

\* ndmreset: the core forgets, the bus side does not.
CoreReset ==
  /\ rst /\ resets < MaxResets
  /\ rst' = FALSE /\ window' = ResetEdges
  /\ resets' = resets + 1
  /\ core' = {}
  /\ acc' = [i \in DOMAIN acc |-> [acc[i] EXCEPT !.mine = FALSE]]
  /\ UNCHANGED <<reqq, rspq, busy, sel_ram, bridgeVars, ram>>

\* rstgen lets the core out after some cycles, whatever is still under way.
CoreRelease ==
  /\ ~rst /\ window = 0
  /\ rst' = TRUE
  /\ UNCHANGED <<core, reqq, rspq, busy, sel_ram, bridgeVars, ram, window, resets, acc>>

Targets == {"ram", "aw", "w", "ar"}

RequestSources == {"ram", "fabric"}

\* What the targets can do that makes a difference in this cycle.
Inputs ==
  [ready : SUBSET {t \in Targets :
             \/ t = "ram" /\ Accept
             \/ t = "ar" /\ state = "ReadReq"
             \/ t \in {"aw", "w"} /\ state = "WriteReq"},
   valid : SUBSET {s \in RequestSources : IF s = "ram" THEN ram # <<>> ELSE fabric # {}}]

Next ==
  \/ \E in \in Inputs : Edge(in)
  \/ \E r \in CoreReqs : Ask(r)
  \/ CoreReset
  \/ CoreRelease

Spec == Init /\ [][Next]_vars

\* The clock runs, and every target takes and answers what it is given.
Cooperative == [ready |-> Targets, valid |-> RequestSources]

FairSpec == Spec /\ WF_vars(Edge(Cooperative)) /\ WF_vars(CoreRelease)

-----------------------------------------------------------------------------
(***************************************************************************)
(* The path is one queue.  What was granted to the core and not answered   *)
(* is, oldest first, in the response FIFO, under way on exactly one of the *)
(* two ways, or in the request FIFO; a finished access waits as the very   *)
(* response its request is owed.  So responses keep the order of the       *)
(* requests although RAM and fabric answer at their own pace.              *)
(***************************************************************************)
PathIsQueue ==
  LET n == Len(rspq)
      m == IF busy THEN 1 ELSE 0
  IN  /\ Len(acc) = n + m + Len(reqq)
      /\ \A i \in 1..n : rspq[i] = Expected(acc[i].req)
      /\ \A i \in 1..Len(reqq) : reqq[i] = acc[n + m + i].req
      /\ ram = IF busy /\ sel_ram THEN <<acc[n + 1].req>> ELSE <<>>
      /\ (state # "Idle") = (busy /\ ~sel_ram)
      /\ state # "Idle" => req_q = acc[n + 1].req

Footprint(r) ==
  LET e == Encode(r.word, r.be) IN e.addr..(e.addr + e.bytes - 1)

Enabled(r) == {ObiBytes * r.word + i : i \in r.be}

\* One, two or four neighbouring lanes, naturally aligned.
AlignedRuns == {{i \in 0..ObiBytes - 1 : i \div k = j} : k \in {1, 2, 4}, j \in 0..3} \ {{}}

Exact(r, e) ==
  /\ Enabled(r) \subseteq Footprint(r)
  /\ e.bytes \in {1, 2, 4} /\ e.addr % e.bytes = 0
  /\ r.be \in AlignedRuns => Footprint(r) = Enabled(r)
  /\ Strobes(r.word, r.be) = {b % (2 * ObiBytes) : b \in Enabled(r)}

\* The access on the AXI side touches the bytes the core enabled, is naturally
\* aligned, and touches no other byte when they are an aligned run themselves
\* (a read of a neighbouring register may have side effects); the strobes are
\* within it.
AccessExact ==
  state \in {"WriteReq", "ReadReq"} => Exact(req_q, Encode(req_q.word, req_q.be))

\* Every request is answered: the path does not stay loaded for ever without
\* handing a response over.
KeepsAnswering == []<>(acc = <<>>) \/ []<>(rspq # <<>>)

\* soc_top on the core-only reset of this path: in-flight responses drain while
\* the core is in reset, leaving no stale state.  So a response presented to a
\* core out of reset answers a request of its present life.
NoStaleResponse == rst /\ rspq # <<>> => acc[1].mine
=============================================================================
