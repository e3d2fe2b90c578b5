----------------------------- MODULE IdmaDriver -----------------------------
(***************************************************************************)
(* sw/zephyr/drivers/dma/dma_corejack_idma.c on the iDMA and its sticky    *)
(* interrupt flag (soc_idma, corejack_idma_socket_adapter).                *)
(*                                                                         *)
(* One hart: a spinlock masks interrupts, so what happens under the lock   *)
(* is one step for everyone but the hardware, which only start() waits for *)
(* (a launch into a full queue).  The ISR runs to its end before a thread  *)
(* goes on; the hardware retires copies between any two steps.             *)
(*                                                                         *)
(* Copies carry serial numbers 1, 2, ... in launch order; registers and    *)
(* driver see their ids, the serial number plus IdBase modulo IdMod.       *)
(* Addresses and lengths are left out: a block is one copy.                *)
(***************************************************************************)
EXTENDS Integers, Sequences, FiniteSets

CONSTANTS
  NumChannels, \* the channels are 1..NumChannels, in the order the ISR visits them
  Threads,     \* threads that call the driver
  Stoppers,    \* who calls stop for which channel: threads, and callbacks (Isr)
  Isr,         \* the context of the interrupt handler
  Configs,     \* what a client may configure: how many blocks, which callbacks
  QueueDepth,  \* copies the iDMA holds before a launch stalls
  IdMod,       \* ids wrap here (2^32)
  IdBase,      \* the id before the first modelled copy
  MaxCopies    \* bound on the copies of a behaviour

ASSUME DriverAssumption ==
  /\ NumChannels \in Nat \ {0}
  /\ Stoppers \subseteq (Threads \union {Isr}) \X (1..NumChannels) /\ Isr \notin Threads
  /\ \A f \in Configs : f.count \in Nat \ {0} /\ f.callback \in {"none", "end", "block"}
  /\ QueueDepth \in Nat \ {0} /\ MaxCopies \in Nat /\ IdMod \in Nat
  /\ IdBase \in 0..IdMod - 1
  /\ IdMod % 2 = 0 /\ 2 * MaxCopies < IdMod

VARIABLES
  issued, retired,  \* serial numbers of the last copy launched and retired
  flag,             \* irq_q of the adapter
  chan,             \* struct idma_channel of each channel
  op,               \* what each context is doing: a start, a stop or nothing
  isr,              \* where the interrupt handler is
  hist              \* history: the transfers, in the order they were started

vars == <<issued, retired, flag, chan, op, isr, hist>>

Channels == 1..NumChannels

Contexts == Threads \union {Isr}

\* complete_callback_en and the callback: none, one at the end, one per block.
Callbacks == {"none", "end", "block"}

IdSucc(i) == (i + 1) % IdMod

IdPred(i) == (i - 1) % IdMod

\* The id register values for a serial number.
IdOf(serial) == (IdBase + serial) % IdMod

\* The comparison without regard to the wrap.
RetiredPlain(done, id) == done >= id

\* idma_retired: the signed difference is not negative.
Retired(done, id) == (done - id) % IdMod < IdMod \div 2

IdleOp == [kind |-> "idle", c |-> 1, arg |-> 0]

IsrOut == [pc |-> "out", done |-> 0, c |-> 1, blocks |-> 0, complete |-> FALSE, xfer |-> 0]

Init ==
  /\ issued = 0 /\ retired = 0
  /\ flag = FALSE
  /\ chan = [c \in Channels |->
               [count |-> 0, callback |-> "none", configured |-> FALSE, busy |-> FALSE,
                stopping |-> FALSE, first |-> 0, last |-> 0, reported |-> 0, xfer |-> 0]]
  /\ op = [x \in Contexts |-> IdleOp]
  /\ isr = IsrOut
  /\ hist = <<>>

\* A context that may take a driver step: the lock is free and no interrupt is
\* being handled, or the interrupt handler is inside a callback.
LockFree(x) == \A y \in Contexts \ {x} : op[y].kind # "launch"

Runs(x) == LockFree(x) /\ (isr.pc = "out" \/ x = Isr)

MayCall(x) == Runs(x) /\ op[x].kind = "idle" /\ (x = Isr => isr.pc = "callback")

Config(x, c, f) ==
  /\ MayCall(x)
  /\ ~chan[c].busy
  /\ chan' = [chan EXCEPT ![c].count = f.count, ![c].callback = f.callback, ![c].configured = TRUE]
  /\ UNCHANGED <<issued, retired, flag, op, isr, hist>>

Reload(x, c) ==
  /\ MayCall(x)
  /\ chan[c].configured /\ ~chan[c].busy
  /\ chan' = [chan EXCEPT ![c].count = 1]
  /\ UNCHANGED <<issued, retired, flag, op, isr, hist>>

\* The start of start(): the lock is taken and the channel found free.
StartBegin(x, c) ==
  /\ MayCall(x)
  /\ chan[c].configured /\ ~chan[c].busy
  /\ issued + chan[c].count <= MaxCopies
  /\ op' = [op EXCEPT ![x] = [kind |-> "launch", c |-> c, arg |-> 0]]
  /\ UNCHANGED <<issued, retired, flag, chan, isr, hist>>

\* The bookkeeping of a start that leaves a stop of the last transfer on record.
BookedKeepStopping(ch, first, last) ==
  [ch EXCEPT !.first = first, !.last = last, !.reported = IdPred(first), !.busy = TRUE]

Booked(ch, first, last) ==
  [ch EXCEPT !.first = first, !.last = last, !.reported = IdPred(first),
             !.stopping = FALSE, !.busy = TRUE]

(***************************************************************************)
(* One turn of the loop in start(): reading NEXT_ID launches a copy and    *)
(* stalls while the queue is full.  The last turn records the transfer and *)
(* releases the lock.                                                      *)
(***************************************************************************)
Launch(x) ==
  LET c     == op[x].c
      i     == op[x].arg
      id    == IdOf(issued + 1)
      first == IF i = 0 THEN id ELSE chan[c].first
      last  == i + 1 = chan[c].count
  IN  /\ op[x].kind = "launch" /\ Runs(x)
      /\ issued - retired < QueueDepth
      /\ issued' = issued + 1
      /\ IF last
         THEN /\ chan' = [chan EXCEPT ![c] = [Booked(@, first, id) EXCEPT !.xfer = Len(hist) + 1]]
              /\ hist' = Append(hist, [c |-> c, from |-> issued + 1 - i, to |-> issued + 1,
                                       callback |-> chan[c].callback, blocks |-> 0,
                                       completes |-> 0, reported |-> FALSE, stopped |-> FALSE])
              /\ op' = [op EXCEPT ![x] = IdleOp]
         ELSE /\ chan' = [chan EXCEPT ![c].first = first, ![c].last = id]
              /\ op' = [op EXCEPT ![x].arg = i + 1]
              /\ UNCHANGED hist
      /\ UNCHANGED <<retired, flag, isr>>

\* stop(): mark the channel and remember its last id,
StopBegin(x, c) ==
  /\ MayCall(x)
  /\ chan[c].busy
  /\ chan' = [chan EXCEPT ![c].stopping = TRUE]
  /\ hist' = [hist EXCEPT ![chan[c].xfer].stopped = TRUE]
  /\ op' = [op EXCEPT ![x] = [kind |-> "wait", c |-> c, arg |-> chan[c].last]]
  /\ UNCHANGED <<issued, retired, flag, isr>>

\* poll DONE_ID, outside the lock, until it has reached that id,
StopWait(x) ==
  /\ op[x].kind = "wait" /\ Runs(x)
  /\ Retired(IdOf(retired), op[x].arg)
  /\ op' = [op EXCEPT ![x].kind = "free"]
  /\ UNCHANGED <<issued, retired, flag, chan, isr, hist>>

\* and free the channel.
StopEnd(x) ==
  /\ op[x].kind = "free" /\ Runs(x)
  /\ chan' = [chan EXCEPT ![op[x].c].busy = FALSE]
  /\ op' = [op EXCEPT ![x] = IdleOp]
  /\ UNCHANGED <<issued, retired, flag, isr, hist>>

\* The hardware: a copy retires and the flag is set, also at the edge at which
\* software clears it.
Retire ==
  /\ retired < issued
  /\ retired' = retired + 1
  /\ flag' = TRUE
  /\ UNCHANGED <<issued, chan, op, isr, hist>>

\* The interrupt is taken; the handler first clears the flag,
IsrEnter ==
  /\ flag /\ isr.pc = "out" /\ LockFree(Isr)
  /\ flag' = FALSE
  /\ isr' = [IsrOut EXCEPT !.pc = "read"]
  /\ UNCHANGED <<issued, retired, chan, op, hist>>

\* then reads DONE_ID, once,
IsrRead ==
  /\ isr.pc = "read"
  /\ isr' = [isr EXCEPT !.pc = "scan", !.done = IdOf(retired)]
  /\ UNCHANGED <<issued, retired, flag, chan, op, hist>>

\* The handler that does not look at a stop under way.
DueDuringStop(ch, done) == ch.busy /\ Retired(done, IdSucc(ch.reported))

Due(ch, done) == ch.busy /\ ~ch.stopping /\ Retired(done, IdSucc(ch.reported))

\* A transfer taken as complete with its first block.
AllRetiredFirst(ch, done) == Retired(done, ch.first)

AllRetired(ch, done) == Retired(done, ch.last)

\* then visits the channels: under the lock it works out which blocks retired,
\* afterwards it calls the callback for each, the last one possibly the end.
IsrScan ==
  LET c        == isr.c
      ch       == chan[c]
      complete == AllRetired(ch, isr.done)
      to       == IF complete THEN ch.last ELSE isr.done
      new      == (to - ch.reported) % IdMod
      blocks   == IF ch.callback = "block" THEN new - (IF complete THEN 1 ELSE 0) ELSE 0
      ends     == complete /\ ch.callback # "none"
      next     == IF c + 1 \in Channels THEN [isr EXCEPT !.c = c + 1] ELSE IsrOut
  IN  /\ isr.pc = "scan"
      /\ IF Due(ch, isr.done)
         THEN /\ chan' = [chan EXCEPT ![c].reported = to, ![c].busy = ~complete]
              /\ hist' = [hist EXCEPT ![ch.xfer].reported = complete]
              /\ isr' = IF blocks > 0 \/ ends
                        THEN [isr EXCEPT !.pc = "callback", !.blocks = blocks,
                                         !.complete = ends, !.xfer = ch.xfer]
                        ELSE next
         ELSE isr' = next /\ UNCHANGED <<chan, hist>>
      /\ UNCHANGED <<issued, retired, flag, op>>

\* One callback returns, having called the driver or not.
IsrCallback ==
  LET more == isr.blocks > 0
      left == [isr EXCEPT !.blocks = IF more THEN @ - 1 ELSE 0,
                          !.complete = @ /\ more]
      next == IF isr.c + 1 \in Channels THEN [isr EXCEPT !.pc = "scan", !.c = @ + 1] ELSE IsrOut
      called == [hist[isr.xfer] EXCEPT !.blocks = IF more THEN @ + 1 ELSE @,
                                       !.completes = IF more THEN @ ELSE @ + 1]
  IN  /\ isr.pc = "callback" /\ op[Isr].kind = "idle"
      /\ hist' = [hist EXCEPT ![isr.xfer] = called]
      /\ isr' = IF left.blocks > 0 \/ left.complete THEN left ELSE next
      /\ UNCHANGED <<issued, retired, flag, chan, op>>

IsrStep == IsrEnter \/ IsrRead \/ IsrScan \/ IsrCallback

Calls(x) ==
  \E c \in Channels :
    \/ \E f \in Configs : Config(x, c, f)
    \/ Reload(x, c)
    \/ StartBegin(x, c)

Next ==
  \/ \E x \in Contexts : Calls(x) \/ Launch(x) \/ StopWait(x) \/ StopEnd(x)
  \/ \E s \in Stoppers : StopBegin(s[1], s[2])
  \/ IsrStep
  \/ Retire

Spec == Init /\ [][Next]_vars

(***************************************************************************)
(* Copies retire, a pending interrupt is taken and handled, and a call     *)
(* that has begun goes on whenever it may.  An interrupt may come between  *)
(* any two steps of a thread, so a call needs strong fairness.             *)
(***************************************************************************)
FairSpec ==
  /\ Spec
  /\ WF_vars(Retire) /\ SF_vars(IsrStep)
  /\ \A x \in Contexts : SF_vars(Launch(x) \/ StopWait(x) \/ StopEnd(x))

\* idma_get_status: how many blocks of a busy channel are pending; it reports
\* the channel busy while there is one.
PendingBlocks(ch, done) ==
  Cardinality({i \in 0..ch.count - 1 : ~Retired(done, (ch.first + i) % IdMod)})

-----------------------------------------------------------------------------
Ids == 0..IdMod - 1

ChannelType ==
  [count : Nat, callback : Callbacks, configured : BOOLEAN, busy : BOOLEAN, stopping : BOOLEAN,
   first : Ids, last : Ids, reported : Ids, xfer : 0..MaxCopies]

OpType == [kind : {"idle", "launch", "wait", "free"}, c : Channels, arg : Ids]

IsrType ==
  [pc : {"out", "read", "scan", "callback"}, done : Ids, c : Channels, blocks : 0..MaxCopies,
   complete : BOOLEAN, xfer : 0..MaxCopies]

TypeOK ==
  /\ issued \in 0..MaxCopies /\ retired \in 0..issued
  /\ flag \in BOOLEAN
  /\ chan \in [Channels -> ChannelType]
  /\ op \in [Contexts -> OpType]
  /\ isr \in IsrType

\* How many of a transfer's copies have retired.
Finished(i) ==
  IF retired >= hist[i].to THEN hist[i].to - hist[i].from + 1
  ELSE IF retired < hist[i].from THEN 0 ELSE retired - hist[i].from + 1

\* Callbacks tell the truth: never more block callbacks than blocks retired;
\* DMA_STATUS_COMPLETE at most once, after the last copy retired and after the
\* callbacks of all the other blocks, if those are wanted.
CallbacksTruthful ==
  /\ TypeOK
  /\ \A i \in DOMAIN hist :
       LET h == hist[i]
       IN  /\ h.blocks <= Finished(i)
           /\ h.completes <= 1
           /\ h.completes = 1 =>
                /\ retired >= h.to
                /\ h.blocks = IF h.callback = "block" THEN h.to - h.from ELSE 0

\* get_status, called at any moment between two steps of anybody, counts the
\* blocks of the running transfer that have not retired, across the wrap.
StatusExact ==
  \A c \in Channels :
    chan[c].busy =>
      LET h == hist[chan[c].xfer]
      IN  PendingBlocks(chan[c], IdOf(retired)) = h.to - h.from + 1 - Finished(chan[c].xfer)

\* The comment in start(): an interrupt finds the channel busy with its ids
\* recorded, as long as a copy of its transfer is in flight or, unless it was
\* stopped, its completion has not been reported.
LaunchedIsBusy ==
  \A c \in Channels :
    chan[c].xfer # 0 =>
      LET h == hist[chan[c].xfer]
      IN  (retired < h.to \/ (~h.stopped /\ ~h.reported)) =>
            /\ chan[c].busy
            /\ chan[c].last = IdOf(h.to)

\* The handler is calling the callbacks of transfer i.
InBatch(i) == isr.pc = "callback" /\ isr.xfer = i

\* The callbacks a transfer has had, and those the handler is still to make for
\* the blocks it found retired: for blocks, and for the end.
BlocksDue(i) == hist[i].blocks + (IF InBatch(i) THEN isr.blocks ELSE 0)

EndsDue(i) == hist[i].completes + (IF InBatch(i) /\ isr.complete THEN 1 ELSE 0)

\* The comment on stop(): once a stop has marked the channel, the handler finds
\* no more callbacks to make for the transfer.  (A callback that calls stop is
\* still followed by those of the blocks found with its own.)
StopSilences ==
  [][\A i \in DOMAIN hist :
       hist[i].stopped => BlocksDue(i)' = BlocksDue(i) /\ EndsDue(i)' = EndsDue(i)]_vars

\* No completion is lost: a channel does not stay busy for ever.
EveryTransferEnds == \A c \in Channels : chan[c].busy ~> ~chan[c].busy
=============================================================================
