------------------------------ MODULE AxiSide -------------------------------
(***************************************************************************)
(* What the single-beat bridges soc_axi_to_apb, soc_axi_to_reg and         *)
(* soc_axi_to_dm have in common: the offered AXI channels, the round-robin *)
(* choice between a read and a write, the captured beat and its response.  *)
(*                                                                         *)
(* An address counts 32-bit words.  A beat is an id, a word, a size (log2  *)
(* of the bytes; 2 stands for every size up to a word) and whether the     *)
(* burst is longer than one beat.  What word a of a target holds is a      *)
(* itself, so that a response shows what was read.                         *)
(***************************************************************************)
EXTENDS Integers, Sequences

CONSTANTS
  Axs,     \* the beats an initiator may put on AR and AW
  WBeats,  \* the beats it may put on W
  None     \* a channel that offers nothing

Lanes == 0..1

ASSUME AxsAssumption ==
  \A a \in Axs : a \in [id : Nat, word : Nat, size : 2..7, burst : BOOLEAN]

ASSUME WBeatsAssumption ==
  \A b \in WBeats : b \in [data : [Lanes -> Nat], strb : SUBSET Lanes]

ASSUME NoneAssumption == None \notin Axs \union WBeats

VARIABLES
  ar, aw, w,   \* what the three request channels offer, valid until taken
  st,          \* state_q
  preferRead,  \* rr_prefer_read_q
  opWrite,     \* op_write_q
  ax,          \* aw_q or ar_q, whichever op_write_q selects
  wq,          \* w_q
  rsp,         \* b_q or r_q
  log,         \* history: the accesses made for the captured beat
  passed       \* history: beats of the other kind captured while one waited

sideVars == <<ar, aw, w, st, preferRead, opWrite, ax, wq, rsp, log, passed>>

\* A beat longer than one transfer or wider than the bus.
Illegal(a) == a.burst \/ a.size > 3

\* An aligned full-width beat covers two words.
Split(a) == a.size = 3 /\ a.word % 2 = 0

ZeroData == [l \in Lanes |-> 0]

SideInit ==
  /\ ar = None /\ aw = None /\ w = None
  /\ st = "Idle"
  /\ preferRead = TRUE
  /\ opWrite = FALSE
  /\ ax = None /\ wq = None
  /\ rsp = [id |-> 0, resp |-> "OKAY", data |-> ZeroData]
  /\ log = <<>>
  /\ passed = [rd |-> 0, wr |-> 0]

\* The initiator offers a beat; address and data of a write come in any order.
OfferRead(a) == ar = None /\ ar' = a /\ UNCHANGED <<aw, w>>

OfferAw(a) == aw = None /\ aw' = a /\ UNCHANGED <<ar, w>>

OfferW(b) == w = None /\ w' = b /\ UNCHANGED <<ar, aw>>

Offer ==
  /\ (\E a \in Axs : OfferRead(a) \/ OfferAw(a)) \/ (\E b \in WBeats : OfferW(b))
  /\ UNCHANGED <<st, preferRead, opWrite, ax, wq, rsp, log, passed>>

RdReq == ar # None

WrReq == aw # None /\ w # None

\* A read that waits for every write.
ArbReadLast == RdReq /\ ~WrReq

ArbRead == RdReq /\ (~WrReq \/ preferRead)

\* The history counter passed stops here.
PassedCap == 2

OneMore(n) == IF n < PassedCap THEN n + 1 ELSE n

\* The capture of a beat, to be followed in state next.
TakeRead(next) ==
  /\ st = "Idle" /\ ArbRead
  /\ ar' = None
  /\ ax' = ar /\ opWrite' = FALSE
  /\ preferRead' = FALSE
  /\ st' = next
  /\ log' = <<>>
  /\ passed' = [rd |-> 0, wr |-> IF WrReq THEN OneMore(passed.wr) ELSE 0]
  /\ UNCHANGED <<aw, w, wq>>

TakeWrite(next) ==
  /\ st = "Idle" /\ ~ArbRead /\ WrReq
  /\ aw' = None /\ w' = None
  /\ ax' = aw /\ wq' = w /\ opWrite' = TRUE
  /\ preferRead' = TRUE
  /\ st' = next
  /\ log' = <<>>
  /\ passed' = [rd |-> IF RdReq THEN OneMore(passed.rd) ELSE 0, wr |-> 0]
  /\ UNCHANGED ar

\* The lines of the target's bus when the beat reaches word a in lane l.
Access(a, l) ==
  [word |-> a, write |-> opWrite,
   wdata |-> IF opWrite THEN wq.data[l] ELSE 0, strb |-> opWrite /\ l \in wq.strb]

RespState == IF opWrite THEN "WriteResp" ELSE "ReadResp"

\* The initiator takes the response: b_ready or r_ready.
Complete ==
  /\ st \in {"WriteResp", "ReadResp"}
  /\ st' = "Idle"
  /\ UNCHANGED <<ar, aw, w, preferRead, opWrite, ax, wq, rsp, log, passed>>

-----------------------------------------------------------------------------
SideTypeOK ==
  /\ ar \in Axs \union {None}
  /\ aw \in Axs \union {None}
  /\ w \in WBeats \union {None}
  /\ preferRead \in BOOLEAN
  /\ opWrite \in BOOLEAN
  /\ ax \in Axs \union {None} /\ (st # "Idle" => ax # None)
  /\ wq \in WBeats \union {None} /\ (st # "Idle" /\ opWrite => wq # None)

Responding == st \in {"WriteResp", "ReadResp"}

\* The accesses a legal beat stands for, low word first.
Wanted ==
  IF Split(ax) THEN <<Access(ax.word, 0), Access(ax.word + 1, 1)>>
  ELSE <<Access(ax.word, ax.word % 2)>>

Made == [i \in DOMAIN log |-> log[i].req]

Failed == \E i \in DOMAIN log : log[i].err

\* The response belongs to the beat: its id, an error if the beat is illegal
\* or anything failed, and for a legal read in each lane the word read there,
\* or zero.
ResponseExact ==
  Responding =>
    /\ rsp.id = ax.id
    /\ rsp.resp = IF Illegal(ax) \/ Failed THEN "SLVERR" ELSE "OKAY"
    /\ ~opWrite /\ ~Illegal(ax) =>
         \A l \in Lanes :
           LET word == 2 * (ax.word \div 2) + l
           IN  rsp.data[l] = IF \E i \in DOMAIN log : log[i].req.word = word THEN word ELSE 0

\* A read waits, or a write with its address and its data.
Waiting(k) == IF k = "rd" THEN RdReq ELSE WrReq

\* Neither side starves the other: while a beat waits, at most one beat of the
\* other kind is captured ahead of it, and in the end it is captured.
BothServed ==
  /\ [](passed.rd <= 1 /\ passed.wr <= 1)
  /\ Waiting("rd") ~> ~Waiting("rd")
  /\ Waiting("wr") ~> ~Waiting("wr")
=============================================================================
