-------------------------- MODULE IdmaDriverProofs --------------------------
(***************************************************************************)
(* What callbacks, get_status, start and stop promise, for any number of   *)
(* channels, threads, blocks and copies, wherever the ids wrap, as long as *)
(* no two contexts stop the same channel.                                  *)
(***************************************************************************)
EXTENDS IdmaDriver, FiniteSetTheorems, TLAPS

OneStopperEach == \A s, t \in Stoppers : s[2] = t[2] => s[1] = t[1]

-----------------------------------------------------------------------------
(* Ids: copies that are not further apart than MaxCopies compare, across    *)
(* the wrap, as their serial numbers do.                                    *)

\* What % yields in the two periods that are ever needed.
LEMMA ModTwoPeriods ==
  ASSUME NEW m \in Nat, m > 0, NEW x \in Int, x >= -m, x < 2 * m
  PROVE  x % m = IF x < 0 THEN x + m ELSE IF x < m THEN x ELSE x - m
<1>1. CASE x < 0
  <2>1. x = m * (-1) + (x + m) /\ x + m \in 0..m-1
    BY <1>1
  <2> QED BY <1>1, <2>1, Z3
<1>2. CASE x >= 0 /\ x < m
  BY <1>2
<1>3. CASE x >= m
  <2>1. x = m * 1 + (x - m) /\ x - m \in 0..m-1
    BY <1>3
  <2> QED BY <1>3, <2>1, Z3
<1> QED BY <1>1, <1>2, <1>3

\* The id registers hold ids.
LEMMA IdOfType ==
  ASSUME NEW a \in 0..MaxCopies
  PROVE  /\ IdOf(a) \in Ids
         /\ IdOf(a) = IF IdBase + a < IdMod THEN IdBase + a ELSE IdBase + a - IdMod
<1>1. IdMod > 0 /\ IdBase + a \in Int /\ IdBase + a >= 0 /\ IdBase + a < 2 * IdMod
  BY DriverAssumption
<1>2. (IdBase + a) % IdMod = IF IdBase + a < IdMod THEN IdBase + a ELSE IdBase + a - IdMod
  BY <1>1, ModTwoPeriods, DriverAssumption
<1> QED BY <1>1, <1>2, DriverAssumption DEF IdOf, Ids

\* The distance of two ids.
LEMMA IdDistance ==
  ASSUME NEW a \in 0..MaxCopies, NEW b \in 0..MaxCopies
  PROVE  (IdOf(a) - IdOf(b)) % IdMod = IF a >= b THEN a - b ELSE a - b + IdMod
<1>1. IdOf(a) - IdOf(b) \in {a - b, a - b + IdMod, a - b - IdMod}
  BY IdOfType, DriverAssumption
<1>2. IdOf(a) \in Ids /\ IdOf(b) \in Ids /\ IdMod > 0
  BY IdOfType, DriverAssumption
<1>3. PICK d \in Int : d = IdOf(a) - IdOf(b) /\ d >= -IdMod /\ d < 2 * IdMod
  BY <1>2, DriverAssumption DEF Ids
<1>4. d % IdMod = IF d < 0 THEN d + IdMod ELSE IF d < IdMod THEN d ELSE d - IdMod
  BY <1>2, <1>3, ModTwoPeriods, DriverAssumption, Zenon
<1>5. d > -IdMod /\ d < IdMod
  BY <1>2, <1>3, DriverAssumption DEF Ids
<1>6. (IF d < 0 THEN d + IdMod ELSE d) = IF a >= b THEN a - b ELSE a - b + IdMod
  BY <1>1, <1>3, <1>5, DriverAssumption
<1> QED BY <1>3, <1>4, <1>5, <1>6, Zenon

\* idma_retired orders ids as their serial numbers, across the wrap.
LEMMA RetiredMeans ==
  ASSUME NEW a \in 0..MaxCopies, NEW b \in 0..MaxCopies
  PROVE  Retired(IdOf(a), IdOf(b)) <=> a >= b
<1>1. (IdOf(a) - IdOf(b)) % IdMod = IF a >= b THEN a - b ELSE a - b + IdMod
  BY IdDistance, Zenon
<1>2. a >= b => a - b < IdMod \div 2
  BY DriverAssumption
<1>3. a < b => ~(a - b + IdMod < IdMod \div 2)
  BY DriverAssumption
<1> QED BY <1>1, <1>2, <1>3 DEF Retired

\* Successor and predecessor of an id, and the ids of consecutive blocks.
LEMMA IdNext ==
  ASSUME NEW a \in 0..MaxCopies, NEW i \in Nat, a + i <= MaxCopies
  PROVE  (IdOf(a) + i) % IdMod = IdOf(a + i)
<1>1. PICK x \in Int : x = IdOf(a) + i /\ x >= 0 /\ x < 2 * IdMod
  BY IdOfType, DriverAssumption DEF Ids
<1>2. IdMod > 0 /\ IdMod \in Nat
  BY DriverAssumption
<1>3. x % IdMod = IF x < IdMod THEN x ELSE x - IdMod
  BY <1>1, <1>2, ModTwoPeriods
<1>4. a + i \in 0..MaxCopies
  BY DriverAssumption
<1>5. IdOf(a + i) = IF IdBase + a + i < IdMod THEN IdBase + a + i ELSE IdBase + a + i - IdMod
  BY <1>4, IdOfType, DriverAssumption
<1>6. IdOf(a) = IF IdBase + a < IdMod THEN IdBase + a ELSE IdBase + a - IdMod
  BY IdOfType, Zenon
<1> QED BY <1>1, <1>3, <1>5, <1>6, DriverAssumption

\* The driver's first - 1 is the id issued before first, across the wrap too.
LEMMA IdBefore ==
  ASSUME NEW a \in 1..MaxCopies
  PROVE  IdPred(IdOf(a)) = IdOf(a - 1)
<1>1. PICK x \in Int : x = IdOf(a) - 1 /\ x >= -IdMod /\ x < 2 * IdMod
  BY IdOfType, DriverAssumption DEF Ids
<1>2. IdMod > 0 /\ IdMod \in Nat
  BY DriverAssumption
<1>3. x % IdMod = IF x < 0 THEN x + IdMod ELSE IF x < IdMod THEN x ELSE x - IdMod
  BY <1>1, <1>2, ModTwoPeriods, Zenon
<1>4. IdOf(a - 1) = IF IdBase + a - 1 < IdMod THEN IdBase + a - 1 ELSE IdBase + a - 1 - IdMod
  BY IdOfType, DriverAssumption
<1>6. IdOf(a) = IF IdBase + a < IdMod THEN IdBase + a ELSE IdBase + a - IdMod
  BY IdOfType
<1> QED BY <1>1, <1>3, <1>4, <1>6, DriverAssumption DEF IdPred

-----------------------------------------------------------------------------
(* The inductive invariant.  None of the properties speaks of the calls and  *)
(* of the batch of callbacks under way; the invariant says what each of them *)
(* may rely on.                                                              *)

Transfer ==
  [c : Channels, from : Nat, to : Nat, callback : Callbacks, blocks : Nat, completes : Nat,
   reported : BOOLEAN, stopped : BOOLEAN]

Types == TypeOK /\ hist \in Seq(Transfer) /\ Len(hist) <= issued

TransferOK(i) ==
  /\ hist[i].from \in 1..hist[i].to /\ hist[i].to <= issued
  /\ EndsDue(i) <= 1
  /\ BlocksDue(i) <= Finished(i)
  /\ EndsDue(i) = 1 =>
       /\ retired >= hist[i].to
       /\ BlocksDue(i) = IF hist[i].callback = "block" THEN hist[i].to - hist[i].from ELSE 0

\* Channel c, busy with transfer i, has reported the copies up to serial number r.
ReportedUpTo(c, i, r) ==
  /\ r >= hist[i].from - 1 /\ r < hist[i].to
  /\ chan[c].reported = IdOf(r)
  /\ BlocksDue(i) = IF hist[i].callback = "block" THEN r - hist[i].from + 1 ELSE 0

Recorded(c, i) ==
  /\ chan[c].first = IdOf(hist[i].from) /\ chan[c].last = IdOf(hist[i].to)
  /\ chan[c].count = hist[i].to - hist[i].from + 1
  /\ chan[c].callback = hist[i].callback
  /\ hist[i].stopped => chan[c].stopping
  /\ EndsDue(i) = 0
  /\ \E r \in 0..MaxCopies : ReportedUpTo(c, i, r)

Settled(i) == retired >= hist[i].to /\ (hist[i].stopped \/ hist[i].reported)

ChannelOK(c) ==
  /\ chan[c].configured => chan[c].count > 0
  /\ chan[c].busy => chan[c].xfer # 0
  /\ chan[c].xfer # 0 => chan[c].xfer \in 1..Len(hist)
  /\ \A i \in 1..Len(hist) :
       chan[c].xfer = i =>
         /\ hist[i].c = c
         /\ chan[c].busy => Recorded(c, i)
         /\ ~chan[c].busy => Settled(i)

\* A start under way holds the lock.
LaunchOK(x) ==
  op[x].kind = "launch" =>
    LET ch == chan[op[x].c]
    IN  /\ \A y \in Contexts : op[y].kind = "launch" => y = x
        /\ ~ch.busy
        /\ op[x].arg < ch.count /\ issued + ch.count - op[x].arg <= MaxCopies
        /\ op[x].arg > 0 => issued >= op[x].arg /\ ch.first = IdOf(issued + 1 - op[x].arg)

\* A stop under way keeps its channel.
StopOK(x) ==
  op[x].kind \in {"wait", "free"} =>
    LET ch == chan[op[x].c]
    IN  /\ <<x, op[x].c>> \in Stoppers
        /\ ch.busy /\ ch.stopping /\ hist[ch.xfer].stopped
        /\ op[x].arg = ch.last
        /\ op[x].kind = "free" => retired >= hist[ch.xfer].to

IsrOK ==
  /\ isr.pc \in {"scan", "callback"} => \E d \in 0..retired : isr.done = IdOf(d)
  /\ isr.pc = "callback" =>
       isr.xfer \in 1..Len(hist) /\ hist[isr.xfer].completes = 0 /\ (isr.blocks > 0 \/ isr.complete)

DriverInv ==
  /\ Types
  /\ \A i \in 1..Len(hist) : TransferOK(i)
  /\ \A c \in Channels : ChannelOK(c)
  /\ \A x \in Contexts : LaunchOK(x) /\ StopOK(x)
  /\ IsrOK

\* The step finds no callbacks to make for a transfer that was stopped.
Silent ==
  \A i \in 1..Len(hist) :
    hist[i].stopped => BlocksDue(i)' = BlocksDue(i) /\ EndsDue(i)' = EndsDue(i)

-----------------------------------------------------------------------------
\* The driver starts with nothing launched and nothing recorded.
LEMMA DriverInitOK == Init => DriverInv
<1> SUFFICES ASSUME Init PROVE DriverInv
  BY Zenon
<1>a. 0 \in Ids /\ 0 \in 0..MaxCopies /\ 1 \in Channels /\ IdleOp \in OpType /\ IsrOut \in IsrType
  BY DriverAssumption DEF Ids, Channels, IdleOp, OpType, IsrOut, IsrType
<1>1. Types
  <2>1. hist \in Seq(Transfer) /\ Len(hist) <= issued
    BY DEF Init
  <2>2. chan \in [Channels -> ChannelType]
    BY <1>a, Zenon DEF Init, ChannelType, Callbacks
  <2>3. op \in [Contexts -> OpType]
    BY <1>a, Zenon DEF Init
  <2>4. flag \in BOOLEAN
    BY Zenon DEF Init
  <2>5. issued \in 0..MaxCopies /\ retired \in 0..issued /\ isr \in IsrType
    BY <1>a DEF Init
  <2> QED BY <2>1, <2>2, <2>3, <2>4, <2>5, Zenon DEF Types, TypeOK
<1>2. /\ \A i \in 1..Len(hist) : TransferOK(i)
      /\ \A c \in Channels : ChannelOK(c)
      /\ \A x \in Contexts : LaunchOK(x) /\ StopOK(x)
      /\ IsrOK
  BY DEF Init, ChannelOK, LaunchOK, StopOK, IsrOK, IdleOp, IsrOut
<1> QED BY <1>1, <1>2, Zenon DEF DriverInv

-----------------------------------------------------------------------------
\* config and reload touch only a channel that is not busy and not being started.
LEMMA ConfigStep ==
  ASSUME DriverInv, NEW x \in Contexts, NEW c \in Channels,
         (\E f \in Configs : Config(x, c, f)) \/ Reload(x, c)
  PROVE  DriverInv' /\ Silent
<1>0. /\ issued' = issued /\ retired' = retired /\ flag' = flag
      /\ op' = op /\ isr' = isr /\ hist' = hist
      /\ MayCall(x) /\ ~chan[c].busy
  BY Zenon DEF Config, Reload
<1>1. PICK n \in Nat \ {0}, cb \in Callbacks, b \in BOOLEAN :
        chan' = [chan EXCEPT ![c] = [chan[c] EXCEPT !.count = n, !.callback = cb, !.configured = b]]
  <2>0. chan[c] \in ChannelType
    BY Zenon DEF DriverInv, Types, TypeOK
  <2>1. CASE \E f \in Configs : Config(x, c, f)
    <3> PICK f \in Configs : Config(x, c, f)
      BY <2>1, Zenon
    <3>1. chan' = [chan EXCEPT ![c] = [chan[c] EXCEPT !.count = f.count, !.callback = f.callback, !.configured = TRUE]]
      BY <2>0, <2>1, Zenon DEF Config, ChannelType
    <3>2. f.count \in Nat \ {0} /\ f.callback \in Callbacks
      BY DriverAssumption, Zenon DEF Callbacks
    <3> QED BY <3>1, <3>2, Zenon
  <2>2. CASE Reload(x, c)
    <3>1. chan' = [chan EXCEPT ![c] = [chan[c] EXCEPT !.count = 1, !.callback = chan[c].callback, !.configured = chan[c].configured]]
      BY <2>0, <2>2, Zenon DEF Reload, ChannelType
    <3>2. 1 \in Nat \ {0} /\ chan[c].callback \in Callbacks /\ chan[c].configured \in BOOLEAN
      BY <2>0 DEF ChannelType
    <3> QED BY <3>1, <3>2, Zenon
  <2> QED BY <2>1, <2>2, Zenon
<1>2. /\ chan' \in [Channels -> ChannelType]
      /\ chan'[c].count > 0
      /\ \A d \in Channels : /\ d # c => chan'[d] = chan[d]
                             /\ chan'[d].busy = chan[d].busy /\ chan'[d].xfer = chan[d].xfer
                             /\ chan'[d].stopping = chan[d].stopping
                             /\ chan'[d].last = chan[d].last
  <2>1. chan \in [Channels -> ChannelType] /\ chan[c] \in ChannelType
    BY Zenon DEF DriverInv, Types, TypeOK
  <2>2. chan'[c] = [chan[c] EXCEPT !.count = n, !.callback = cb, !.configured = b]
    BY <1>1, <2>1, Zenon
  <2>3. /\ chan'[c] \in ChannelType /\ chan'[c].count > 0
        /\ chan'[c].busy = chan[c].busy /\ chan'[c].xfer = chan[c].xfer
        /\ chan'[c].stopping = chan[c].stopping /\ chan'[c].last = chan[c].last
    <3>1. n \in Nat /\ n > 0
      OBVIOUS
    <3> QED BY <2>1, <2>2, <3>1, Zenon DEF ChannelType
  <2> QED BY <1>1, <2>1, <2>3, Zenon
<1>3. Types'
  BY <1>0, <1>2, ZenonT(60) DEF DriverInv, Types, TypeOK
<1>4. \A i \in 1..Len(hist') : TransferOK(i)'
  BY <1>0 DEF DriverInv, TransferOK, EndsDue, BlocksDue, InBatch, Finished
<1>5. \A d \in Channels : ChannelOK(d)'
  <2> SUFFICES ASSUME NEW d \in Channels PROVE ChannelOK(d)'
    BY ZenonT(60)
  <2>1. CASE d = c
    BY <1>0, <1>2, <2>1, SMTT(30) DEF DriverInv, ChannelOK, Settled
  <2>2. CASE d # c
    BY <1>0, <1>2, <2>2, SMTT(20)
    DEF DriverInv, ChannelOK, Recorded, ReportedUpTo, Settled, EndsDue, BlocksDue, InBatch
  <2> QED BY <2>1, <2>2, Zenon
<1>6. \A y \in Contexts : LaunchOK(y)' /\ StopOK(y)'
  <2> SUFFICES ASSUME NEW y \in Contexts PROVE LaunchOK(y)' /\ StopOK(y)'
    BY Zenon
  <2>1. op[y].kind # "launch"
    BY <1>0, Zenon DEF MayCall, Runs, LockFree
  <2>2. op[y].c \in Channels
    BY Zenon DEF DriverInv, Types, TypeOK, OpType
  <2> QED BY <1>0, <1>2, <2>1, <2>2, ZenonT(60) DEF DriverInv, LaunchOK, StopOK
<1>7. IsrOK'
  BY <1>0, Zenon DEF DriverInv, IsrOK
<1>8. Silent
  BY <1>0, Zenon DEF Silent, EndsDue, BlocksDue, InBatch
<1> QED BY <1>3, <1>4, <1>5, <1>6, <1>7, <1>8, Zenon DEF DriverInv

\* A step that changes the record of one transfer.
LEMMA OneTransferChanged ==
  ASSUME hist \in Seq(Transfer), NEW k \in 1..Len(hist), NEW e \in Transfer,
         hist' = [hist EXCEPT ![k] = e]
  PROVE  /\ hist' \in Seq(Transfer) /\ Len(hist') = Len(hist)
         /\ hist'[k] = e
         /\ \A i \in 1..Len(hist) : i # k => hist'[i] = hist[i]
OBVIOUS

\* What a step leaves of a transfer when it makes and finds no callbacks for it.
LEMMA SameTransfer ==
  ASSUME DriverInv, NEW i \in 1..Len(hist), Types',
         hist'[i].from = hist[i].from, hist'[i].to = hist[i].to,
         hist'[i].callback = hist[i].callback,
         BlocksDue(i)' = BlocksDue(i), EndsDue(i)' = EndsDue(i),
         retired' >= retired, issued' >= issued
  PROVE  TransferOK(i)'
<1>a. Types /\ hist[i] \in Transfer /\ isr \in IsrType
  BY SMTT(30) DEF DriverInv, Types, TypeOK
<1>b. issued \in Nat /\ issued' \in Nat /\ retired \in Nat /\ retired' \in Nat
  BY <1>a, DriverAssumption DEF Types, TypeOK
<1>c. hist[i].blocks \in Nat /\ hist[i].completes \in Nat /\ isr.blocks \in Nat
  BY <1>a DEF Transfer, IsrType
<1>1. hist[i].from \in Nat /\ hist[i].to \in Nat
  BY <1>a, Zenon DEF Transfer
<1>2. BlocksDue(i) \in Nat /\ EndsDue(i) \in Nat
  BY <1>c, SMTT(20) DEF BlocksDue, EndsDue
<1>3. TransferOK(i)
  BY Zenon DEF DriverInv
<1>d. hist'[i].from \in Nat /\ hist'[i].to \in Nat
  BY <1>1, Zenon
<1>e. \A f, t, r \in Nat :
        (IF r >= t THEN t - f + 1 ELSE IF r < f THEN 0 ELSE r - f + 1) \in Int
  OBVIOUS
<1>5. Finished(i) \in Int
  BY <1>1, <1>b, <1>e, Zenon DEF Finished
<1>6. Finished(i)' \in Int
  BY <1>d, <1>b, <1>e, Zenon DEF Finished
<1>4. Finished(i) <= Finished(i)'
  <2>1. hist[i].from <= hist[i].to
    BY <1>1, <1>3 DEF TransferOK
  <2>2. \A f, t, r, q \in Nat :
          f <= t /\ r <= q =>
            (IF r >= t THEN t - f + 1 ELSE IF r < f THEN 0 ELSE r - f + 1)
              <= (IF q >= t THEN t - f + 1 ELSE IF q < f THEN 0 ELSE q - f + 1)
    OBVIOUS
  <2>3. (IF retired >= hist[i].to THEN hist[i].to - hist[i].from + 1
         ELSE IF retired < hist[i].from THEN 0 ELSE retired - hist[i].from + 1)
          <= (IF retired' >= hist[i].to THEN hist[i].to - hist[i].from + 1
              ELSE IF retired' < hist[i].from THEN 0 ELSE retired' - hist[i].from + 1)
    BY <1>1, <1>b, <2>1, <2>2, Zenon
  <2> QED BY <2>3, Zenon DEF Finished
<1>7. hist'[i].from \in 1..hist'[i].to /\ hist'[i].to <= issued' /\ EndsDue(i)' <= 1
  BY <1>1, <1>b, <1>3 DEF TransferOK
<1>8. BlocksDue(i)' <= Finished(i)'
  BY <1>2, <1>3, <1>4, <1>5, <1>6 DEF TransferOK
<1>9. ASSUME EndsDue(i)' = 1
      PROVE  /\ retired' >= hist'[i].to
             /\ BlocksDue(i)' = IF hist'[i].callback = "block" THEN hist'[i].to - hist'[i].from ELSE 0
  BY <1>1, <1>b, <1>3, <1>9 DEF TransferOK
<1> QED BY <1>7, <1>8, <1>9, ZenonT(60) DEF TransferOK

\* What a step leaves of a channel that it does not touch.
LEMMA SameChannel ==
  ASSUME DriverInv, NEW c \in Channels, chan'[c] = chan[c],
         retired \in Nat, retired' \in Nat, retired' >= retired,
         Len(hist) \in Nat, Len(hist') \in Nat, Len(hist') >= Len(hist),
         \A i \in 1..Len(hist) :
           chan[c].xfer = i =>
             /\ hist'[i].from = hist[i].from /\ hist'[i].to = hist[i].to
             /\ hist'[i].callback = hist[i].callback /\ hist'[i].c = hist[i].c
             /\ hist'[i].stopped = hist[i].stopped
             /\ hist'[i].reported = hist[i].reported
             /\ hist[i].to \in Nat
             /\ BlocksDue(i)' = BlocksDue(i) /\ EndsDue(i)' = EndsDue(i)
  PROVE  ChannelOK(c)'
<1>1. ChannelOK(c)
  BY Zenon DEF DriverInv
<1>2. \A i \in 1..Len(hist) : chan[c].xfer = i /\ Settled(i) => Settled(i)'
  BY DEF Settled
<1>3. \A i \in 1..Len(hist) : chan[c].xfer = i /\ Recorded(c, i) => Recorded(c, i)'
  BY DEF Recorded, ReportedUpTo
<1>4. \A i \in 1..Len(hist') : chan[c].xfer = i => i \in 1..Len(hist)
  BY <1>1 DEF ChannelOK
<1>5. chan[c].xfer # 0 => chan[c].xfer \in 1..Len(hist')
  BY <1>1 DEF ChannelOK
<1> QED BY <1>1, <1>2, <1>3, <1>4, <1>5, Zenon DEF ChannelOK

\* start() takes the lock.
LEMMA StartStep ==
  ASSUME DriverInv, NEW x \in Contexts, NEW c \in Channels, StartBegin(x, c)
  PROVE  DriverInv' /\ Silent
<1>0. /\ issued' = issued /\ retired' = retired /\ flag' = flag
      /\ chan' = chan /\ isr' = isr /\ hist' = hist
      /\ MayCall(x) /\ ~chan[c].busy /\ issued + chan[c].count <= MaxCopies
  BY Zenon DEF StartBegin
<1>1. op' \in [Contexts -> OpType] /\ op'[x] = [kind |-> "launch", c |-> c, arg |-> 0]
      /\ \A y \in Contexts : y # x => op'[y] = op[y] /\ op[y].kind # "launch"
  <2>1. [kind |-> "launch", c |-> c, arg |-> 0] \in OpType
    BY DriverAssumption DEF OpType, Ids
  <2> QED BY <2>1, Zenon DEF DriverInv, StartBegin, Types, TypeOK, MayCall, Runs, LockFree
<1>3. Types'
  BY <1>0, <1>1, ZenonT(60) DEF DriverInv, Types, TypeOK
<1>4. \A i \in 1..Len(hist') : TransferOK(i)'
  BY <1>0, SMTT(30) DEF DriverInv, TransferOK, EndsDue, BlocksDue, InBatch, Finished
<1>5. \A d \in Channels : ChannelOK(d)'
  BY <1>0 DEF DriverInv, ChannelOK, Recorded, ReportedUpTo, Settled, EndsDue, BlocksDue, InBatch
<1>6. \A y \in Contexts : LaunchOK(y)' /\ StopOK(y)'
  <2> SUFFICES ASSUME NEW y \in Contexts PROVE LaunchOK(y)' /\ StopOK(y)'
    BY ZenonT(60)
  <2>1. CASE y = x
    <3>1. chan[c].count \in Nat /\ chan[c].count > 0
      BY Zenon DEF DriverInv, StartBegin, ChannelOK, Types, TypeOK, ChannelType
    <3> QED BY <1>0, <1>1, <2>1, <3>1 DEF LaunchOK, StopOK
  <2>2. CASE y # x
    BY <1>0, <1>1, <2>2, Zenon DEF DriverInv, LaunchOK, StopOK
  <2> QED BY <2>1, <2>2, Zenon
<1>7. IsrOK'
  BY <1>0, Zenon DEF DriverInv, IsrOK
<1>8. Silent
  BY <1>0, Zenon DEF Silent, EndsDue, BlocksDue, InBatch
<1> QED BY <1>3, <1>4, <1>5, <1>6, <1>7, <1>8, Zenon DEF DriverInv

\* stop() marks the channel; nobody else is stopping it.
LEMMA StopBeginStep ==
  ASSUME DriverInv, OneStopperEach, NEW x \in Contexts, NEW c \in Channels,
         <<x, c>> \in Stoppers, StopBegin(x, c)
  PROVE  DriverInv' /\ Silent
<1>0. /\ issued' = issued /\ retired' = retired /\ flag' = flag /\ isr' = isr
      /\ MayCall(x) /\ chan[c].busy
  BY Zenon DEF StopBegin
<1>a. /\ chan \in [Channels -> ChannelType] /\ chan[c] \in ChannelType /\ hist \in Seq(Transfer)
      /\ issued \in Nat /\ retired \in Nat /\ Len(hist) \in Nat
  BY DriverAssumption DEF DriverInv, Types, TypeOK
<1>1. PICK k \in 1..Len(hist) : k = chan[c].xfer /\ hist[k].c = c /\ Recorded(c, k)
  BY <1>0, Zenon DEF DriverInv, ChannelOK
<1>2. /\ chan' = [chan EXCEPT ![c] = [chan[c] EXCEPT !.stopping = TRUE]]
      /\ hist' = [hist EXCEPT ![k] = [hist[k] EXCEPT !.stopped = TRUE]]
      /\ op' = [op EXCEPT ![x] = [kind |-> "wait", c |-> c, arg |-> chan[c].last]]
  BY <1>1, Zenon DEF StopBegin
<1>3. /\ hist' \in Seq(Transfer) /\ Len(hist') = Len(hist)
      /\ \A i \in 1..Len(hist) :
           /\ i # k => hist'[i] = hist[i]
           /\ hist'[i].from = hist[i].from /\ hist'[i].to = hist[i].to
           /\ hist'[i].callback = hist[i].callback /\ hist'[i].c = hist[i].c
           /\ hist'[i].blocks = hist[i].blocks /\ hist'[i].completes = hist[i].completes
           /\ hist'[i].reported = hist[i].reported /\ (hist[i].stopped => hist'[i].stopped)
      /\ hist'[k].stopped
  <2>1. hist[k] \in Transfer
    BY <1>a
  <2>2. [hist[k] EXCEPT !.stopped = TRUE] \in Transfer
    BY <2>1, Zenon DEF Transfer
  <2>3. /\ hist' \in Seq(Transfer) /\ Len(hist') = Len(hist)
        /\ hist'[k] = [hist[k] EXCEPT !.stopped = TRUE]
        /\ \A i \in 1..Len(hist) : i # k => hist'[i] = hist[i]
    BY <1>a, <1>2, <2>2, OneTransferChanged, Zenon
  <2>4. /\ hist'[k].from = hist[k].from /\ hist'[k].to = hist[k].to
        /\ hist'[k].callback = hist[k].callback /\ hist'[k].c = hist[k].c
        /\ hist'[k].blocks = hist[k].blocks /\ hist'[k].completes = hist[k].completes
        /\ hist'[k].reported = hist[k].reported /\ hist'[k].stopped
    BY <2>1, <2>3, Zenon DEF Transfer
  <2> QED BY <2>3, <2>4, Zenon
<1>4. /\ chan' \in [Channels -> ChannelType] /\ \A d \in Channels : d # c => chan'[d] = chan[d]
      /\ chan'[c] = [chan[c] EXCEPT !.stopping = TRUE]
  <2>1. [chan[c] EXCEPT !.stopping = TRUE] \in ChannelType
    BY <1>a, Zenon DEF ChannelType
  <2> QED BY <1>a, <1>2, <2>1, Zenon
<1>5. op' \in [Contexts -> OpType] /\ op'[x] = [kind |-> "wait", c |-> c, arg |-> chan[c].last]
      /\ \A y \in Contexts : (y # x => op'[y] = op[y]) /\ op[y].kind # "launch"
  <2>1. chan[c].last \in Ids
    BY <1>a, Zenon DEF ChannelType
  <2>2. [kind |-> "wait", c |-> c, arg |-> chan[c].last] \in OpType
    BY <2>1, Zenon DEF OpType
  <2> QED BY <1>0, <1>2, <2>2, Zenon DEF DriverInv, Types, TypeOK, MayCall, Runs, LockFree
<1>6. \A i \in 1..Len(hist) : BlocksDue(i)' = BlocksDue(i) /\ EndsDue(i)' = EndsDue(i)
  BY <1>0, <1>3, Zenon DEF BlocksDue, EndsDue, InBatch
<1>7. Types'
  BY <1>0, <1>3, <1>4, <1>5, Zenon DEF DriverInv, Types, TypeOK
<1>8. \A i \in 1..Len(hist') : TransferOK(i)'
  <2> SUFFICES ASSUME NEW i \in 1..Len(hist) PROVE TransferOK(i)'
    BY <1>3, Zenon
  <2> QED BY <1>0, <1>a, <1>3, <1>6, <1>7, SameTransfer
<1>9. \A d \in Channels : ChannelOK(d)'
  <2> SUFFICES ASSUME NEW d \in Channels PROVE ChannelOK(d)'
    BY Zenon
  <2>1. CASE d # c
    <3>1. chan[d].xfer # k
      BY <1>1, <2>1, Zenon DEF DriverInv, ChannelOK
    <3>3. \A i \in 1..Len(hist) : hist[i] \in Transfer
      BY <1>a
    <3>2. \A i \in 1..Len(hist) : hist[i].to \in Nat
      BY <3>3, Zenon DEF Transfer
    <3> QED BY <1>0, <1>a, <1>3, <1>4, <1>6, <2>1, <3>1, <3>2, SameChannel, SMTT(20) DEF DriverInv
  <2>2. CASE d = c
    <3>1. /\ chan'[c].busy /\ chan'[c].stopping /\ chan'[c].xfer = k
          /\ chan'[c].first = chan[c].first /\ chan'[c].last = chan[c].last
          /\ chan'[c].count = chan[c].count /\ chan'[c].callback = chan[c].callback
          /\ chan'[c].reported = chan[c].reported /\ chan'[c].configured = chan[c].configured
      BY <1>0, <1>a, <1>1, <1>4 DEF ChannelType
    <3>2. Recorded(c, k)'
      <4>1. \A r \in 0..MaxCopies : ReportedUpTo(c, k, r) => ReportedUpTo(c, k, r)'
        BY <1>3, <1>6, <3>1, Zenon DEF ReportedUpTo
      <4> QED BY <1>1, <1>3, <1>6, <3>1, <4>1, Zenon DEF Recorded
    <3>3. chan[c].configured => chan[c].count > 0
      BY Zenon DEF DriverInv, ChannelOK
    <3> QED BY <1>a, <1>1, <1>3, <2>2, <3>1, <3>2, <3>3, SMTT(30) DEF ChannelOK
  <2> QED BY <2>1, <2>2, Zenon
<1>10. \A y \in Contexts : LaunchOK(y)' /\ StopOK(y)'
  <2> SUFFICES ASSUME NEW y \in Contexts PROVE LaunchOK(y)' /\ StopOK(y)'
    BY ZenonT(60)
  <2>1. LaunchOK(y)'
    BY <1>5 DEF LaunchOK
  <2>2. CASE y = x
    <3>1. chan'[c].busy /\ chan'[c].stopping /\ chan'[c].xfer = k /\ chan'[c].last = chan[c].last
      BY <1>0, <1>a, <1>1, <1>4, SMTT(30) DEF ChannelType
    <3>2. op'[y].kind = "wait" /\ op'[y].c = c /\ op'[y].arg = chan[c].last
      BY <1>5, <2>2
    <3> QED BY <1>3, <2>1, <2>2, <3>1, <3>2, Zenon DEF StopOK
  <2>3. CASE y # x
    <3> SUFFICES ASSUME op[y].kind \in {"wait", "free"} PROVE StopOK(y)'
      BY <1>5, <2>1, <2>3, Zenon DEF StopOK
    <3>1. <<y, op[y].c>> \in Stoppers /\ op[y].c \in Channels
      BY Zenon DEF DriverInv, StopOK, Types, TypeOK, OpType
    <3>2. op[y].c # c
      BY <2>3, <3>1, Zenon DEF OneStopperEach
    <3>3. chan[op[y].c].xfer \in 1..Len(hist)
      BY <3>1, Zenon DEF DriverInv, StopOK, ChannelOK
    <3>4. op'[y] = op[y] /\ chan'[op[y].c] = chan[op[y].c] /\ retired' = retired
      BY <1>0, <1>4, <1>5, <2>3, <3>1, <3>2, Zenon
    <3>5. /\ hist'[chan[op[y].c].xfer].to = hist[chan[op[y].c].xfer].to
          /\ hist[chan[op[y].c].xfer].stopped => hist'[chan[op[y].c].xfer].stopped
      BY <1>3, <3>3, Zenon
    <3>6. StopOK(y)
      BY Zenon DEF DriverInv
    <3> QED BY <3>4, <3>5, <3>6, Zenon DEF StopOK
  <2> QED BY <2>1, <2>2, <2>3, Zenon
<1>11. IsrOK'
  BY <1>0, <1>3, Zenon DEF DriverInv, IsrOK
<1> QED BY <1>6, <1>7, <1>8, <1>9, <1>10, <1>11, Zenon DEF DriverInv, Silent

\* DONE_ID has reached the last id: the transfer has retired.
LEMMA StopWaitStep ==
  ASSUME DriverInv, NEW x \in Contexts, StopWait(x)
  PROVE  DriverInv' /\ Silent
<1>0. /\ issued' = issued /\ retired' = retired /\ flag' = flag
      /\ chan' = chan /\ isr' = isr /\ hist' = hist
      /\ Runs(x) /\ op[x].kind = "wait" /\ Retired(IdOf(retired), op[x].arg)
  BY Zenon DEF StopWait
<1>1. op \in [Contexts -> OpType] /\ op[x] \in OpType /\ op[x].c \in Channels
  BY Zenon DEF DriverInv, Types, TypeOK, OpType
<1>2. /\ op' \in [Contexts -> OpType]
      /\ op'[x].kind = "free" /\ op'[x].c = op[x].c /\ op'[x].arg = op[x].arg
      /\ \A y \in Contexts : (y # x => op'[y] = op[y]) /\ op[y].kind # "launch"
  <2>1. [op[x] EXCEPT !.kind = "free"] \in OpType
    BY <1>1, Zenon DEF OpType
  <2>2. op' = [op EXCEPT ![x] = [op[x] EXCEPT !.kind = "free"]]
    BY Zenon DEF StopWait
  <2> QED BY <1>0, <1>1, <2>1, <2>2, Zenon DEF OpType, Runs, LockFree
<1>3. PICK k \in 1..Len(hist) : k = chan[op[x].c].xfer /\ Recorded(op[x].c, k)
  <2>1. chan[op[x].c].busy
    BY <1>0, Zenon DEF DriverInv, StopOK
  <2>2. chan[op[x].c].xfer \in 1..Len(hist) /\ ChannelOK(op[x].c)
    BY <1>1, <2>1, Zenon DEF DriverInv, ChannelOK
  <2>3. Recorded(op[x].c, chan[op[x].c].xfer)
    BY <2>1, <2>2, Zenon DEF ChannelOK
  <2> QED BY <2>2, <2>3, Zenon
<1>4. retired >= hist[k].to
  <2>1. retired \in 0..MaxCopies
    BY DriverAssumption DEF DriverInv, Types, TypeOK
  <2>2. hist[k].to \in 0..MaxCopies
    <3>1. hist[k] \in Transfer /\ issued \in 0..MaxCopies
      BY DEF DriverInv, Types, TypeOK
    <3>2. hist[k].to \in Nat /\ hist[k].to <= issued
      BY <3>1, Zenon DEF DriverInv, TransferOK, Transfer
    <3> QED BY <3>1, <3>2, DriverAssumption
  <2>3. op[x].arg = IdOf(hist[k].to)
    BY <1>0, <1>1, <1>3, Zenon DEF DriverInv, StopOK, Recorded
  <2> QED BY <1>0, <2>1, <2>2, <2>3, RetiredMeans, Zenon
<1>5. Types'
  BY <1>0, <1>2, ZenonT(60) DEF DriverInv, Types, TypeOK
<1>6. \A i \in 1..Len(hist') : TransferOK(i)'
  BY <1>0, SMTT(30) DEF DriverInv, TransferOK, EndsDue, BlocksDue, InBatch, Finished
<1>7. \A d \in Channels : ChannelOK(d)'
  BY <1>0 DEF DriverInv, ChannelOK, Recorded, ReportedUpTo, Settled, EndsDue, BlocksDue, InBatch
<1>8. \A y \in Contexts : LaunchOK(y)' /\ StopOK(y)'
  <2> SUFFICES ASSUME NEW y \in Contexts PROVE LaunchOK(y)' /\ StopOK(y)'
    BY Zenon
  <2>1. LaunchOK(y)'
    BY <1>2, Zenon DEF LaunchOK
  <2>2. CASE y = x
    BY <1>0, <1>2, <1>3, <1>4, <2>1, <2>2, Zenon DEF DriverInv, StopOK
  <2>3. CASE y # x
    BY <1>0, <1>2, <2>1, <2>3, Zenon DEF DriverInv, StopOK
  <2> QED BY <2>1, <2>2, <2>3, Zenon
<1>9. IsrOK'
  BY <1>0, Zenon DEF DriverInv, IsrOK
<1>10. Silent
  BY <1>0, Zenon DEF Silent, EndsDue, BlocksDue, InBatch
<1> QED BY <1>5, <1>6, <1>7, <1>8, <1>9, <1>10, Zenon DEF DriverInv

\* stop() frees the channel; nobody else is stopping it.
LEMMA StopEndStep ==
  ASSUME DriverInv, OneStopperEach, NEW x \in Contexts, StopEnd(x)
  PROVE  DriverInv' /\ Silent
<1> DEFINE c == op[x].c
<1>0. /\ issued' = issued /\ retired' = retired /\ flag' = flag
      /\ isr' = isr /\ hist' = hist
      /\ Runs(x) /\ op[x].kind = "free"
      /\ chan' = [chan EXCEPT ![c] = [chan[c] EXCEPT !.busy = FALSE]]
      /\ op' = [op EXCEPT ![x] = IdleOp]
  BY Zenon DEF StopEnd
<1>1. op \in [Contexts -> OpType] /\ c \in Channels
  BY Zenon DEF DriverInv, Types, TypeOK, OpType
<1>2. /\ op' \in [Contexts -> OpType] /\ op'[x].kind = "idle"
      /\ \A y \in Contexts : (y # x => op'[y] = op[y]) /\ op[y].kind # "launch"
  <2>1. IdleOp \in OpType
    BY DriverAssumption DEF OpType, IdleOp, Channels, Ids
  <2> QED BY <1>0, <1>1, <2>1, Zenon DEF IdleOp, Runs, LockFree
<1>3. PICK k \in 1..Len(hist) : k = chan[c].xfer /\ hist[k].c = c /\ Settled(k)
  <2>1. chan[c].busy /\ hist[chan[c].xfer].stopped /\ retired >= hist[chan[c].xfer].to
    BY <1>0, Zenon DEF DriverInv, StopOK
  <2>2. chan[c].xfer \in 1..Len(hist) /\ hist[chan[c].xfer].c = c
    <3>1. ChannelOK(c)
      BY <1>1, Zenon DEF DriverInv
    <3> QED BY <2>1, <3>1, Zenon DEF ChannelOK
  <2> QED BY <2>1, <2>2, Zenon DEF Settled
<1>4. chan \in [Channels -> ChannelType] /\ chan[c] \in ChannelType
  BY <1>1, Zenon DEF DriverInv, Types, TypeOK
<1>5. /\ chan' \in [Channels -> ChannelType]
      /\ ~chan'[c].busy /\ chan'[c].xfer = chan[c].xfer /\ chan'[c].count = chan[c].count
      /\ chan'[c].configured = chan[c].configured
      /\ \A d \in Channels : d # c => chan'[d] = chan[d]
  <2>1. [chan[c] EXCEPT !.busy = FALSE] \in ChannelType
    BY <1>4, Zenon DEF ChannelType
  <2> QED BY <1>0, <1>1, <1>4, <2>1, Zenon DEF ChannelType
<1>6. Types'
  BY <1>0, <1>2, <1>5, ZenonT(60) DEF DriverInv, Types, TypeOK
<1>7. \A i \in 1..Len(hist') : TransferOK(i)'
  BY <1>0 DEF DriverInv, TransferOK, EndsDue, BlocksDue, InBatch, Finished
<1>8. \A d \in Channels : ChannelOK(d)'
  <2> SUFFICES ASSUME NEW d \in Channels PROVE ChannelOK(d)'
    BY Zenon
  <2>1. CASE d = c
    BY <1>0, <1>3, <1>5, <2>1, ZenonT(60) DEF DriverInv, ChannelOK, Settled
  <2>2. CASE d # c
    BY <1>0, <1>5, <2>2
    DEF DriverInv, ChannelOK, Recorded, ReportedUpTo, Settled, EndsDue, BlocksDue, InBatch
  <2> QED BY <2>1, <2>2, Zenon
<1>9. \A y \in Contexts : LaunchOK(y)' /\ StopOK(y)'
  <2> SUFFICES ASSUME NEW y \in Contexts PROVE LaunchOK(y)' /\ StopOK(y)'
    BY Zenon
  <2>1. LaunchOK(y)'
    BY <1>2, Zenon DEF LaunchOK
  <2>2. CASE y = x
    BY <1>2, <2>1, <2>2, Zenon DEF StopOK
  <2>3. CASE y # x
    <3> SUFFICES ASSUME op[y].kind \in {"wait", "free"} PROVE StopOK(y)'
      BY <1>2, <2>1, <2>3, Zenon DEF StopOK
    <3>1. <<y, op[y].c>> \in Stoppers /\ op[y].c \in Channels /\ <<x, c>> \in Stoppers
      BY <1>0, Zenon DEF DriverInv, StopOK, Types, TypeOK, OpType
    <3>2. op[y].c # c
      BY <2>3, <3>1, Zenon DEF OneStopperEach
    <3> QED BY <1>0, <1>2, <1>5, <2>3, <3>1, <3>2, Zenon DEF DriverInv, StopOK
  <2> QED BY <2>1, <2>2, <2>3, Zenon
<1>10. IsrOK'
  BY <1>0, Zenon DEF DriverInv, IsrOK
<1>11. Silent
  BY <1>0, Zenon DEF Silent, EndsDue, BlocksDue, InBatch
<1> QED BY <1>6, <1>7, <1>8, <1>9, <1>10, <1>11, Zenon DEF DriverInv

\* The hardware retires a copy.
LEMMA RetireStep ==
  ASSUME DriverInv, Retire
  PROVE  DriverInv' /\ Silent
<1>0. /\ issued' = issued /\ retired' = retired + 1 /\ flag' = TRUE /\ retired < issued
      /\ chan' = chan /\ op' = op /\ isr' = isr /\ hist' = hist
  BY Zenon DEF Retire
<1>a. /\ hist \in Seq(Transfer) /\ Len(hist) \in Nat
      /\ issued \in Nat /\ retired \in Nat /\ retired' \in Nat /\ retired' >= retired
      /\ \A i \in 1..Len(hist) : hist[i].to \in Nat
  <2>1. hist \in Seq(Transfer) /\ issued \in Nat /\ retired \in Nat
    BY DriverAssumption DEF DriverInv, Types, TypeOK
  <2>2. \A i \in 1..Len(hist) : hist[i] \in Transfer
    BY <2>1
  <2>3. \A i \in 1..Len(hist) : hist[i].to \in Nat
    BY <2>2, Zenon DEF Transfer
  <2> QED BY <1>0, <2>1, <2>3
<1>1. Types'
  <2>1. issued' \in 0..MaxCopies /\ retired' \in 0..issued'
    BY <1>0, <1>a DEF DriverInv, Types, TypeOK
  <2> QED BY <1>0, <2>1, Zenon DEF DriverInv, Types, TypeOK
<1>2. \A i \in 1..Len(hist) : BlocksDue(i)' = BlocksDue(i) /\ EndsDue(i)' = EndsDue(i)
  BY <1>0, Zenon DEF BlocksDue, EndsDue, InBatch
<1>3. \A i \in 1..Len(hist') : TransferOK(i)'
  <2> SUFFICES ASSUME NEW i \in 1..Len(hist) PROVE TransferOK(i)'
    BY <1>0, Zenon
  <2> QED BY <1>0, <1>a, <1>1, <1>2, SameTransfer
<1>4. \A d \in Channels : ChannelOK(d)'
  <2> SUFFICES ASSUME NEW d \in Channels PROVE ChannelOK(d)'
    BY Zenon
  <2> QED BY <1>0, <1>a, <1>2, SameChannel
<1>5. \A y \in Contexts : LaunchOK(y)' /\ StopOK(y)'
  <2> SUFFICES ASSUME NEW y \in Contexts PROVE LaunchOK(y)' /\ StopOK(y)'
    BY Zenon
  <2>1. LaunchOK(y)'
    BY <1>0, Zenon DEF DriverInv, LaunchOK
  <2>2. StopOK(y)'
    <3> SUFFICES ASSUME op[y].kind \in {"wait", "free"} PROVE StopOK(y)'
      BY <1>0, Zenon DEF StopOK
    <3>1. op[y].c \in Channels
      BY Zenon DEF DriverInv, Types, TypeOK, OpType
    <3>2. chan[op[y].c].xfer \in 1..Len(hist)
      BY <3>1, Zenon DEF DriverInv, StopOK, ChannelOK
    <3>3. hist[chan[op[y].c].xfer].to \in Nat
      BY <1>a, <3>2, SMTT(30)
    <3>4. retired >= hist[chan[op[y].c].xfer].to => retired' >= hist[chan[op[y].c].xfer].to
      BY <1>0, <1>a, <3>3, SMTT(20)
    <3> QED BY <1>0, <3>4, Zenon DEF DriverInv, StopOK
  <2> QED BY <2>1, <2>2, Zenon
<1>6. IsrOK'
  <2>1. 0..retired \subseteq 0..retired'
    BY <1>0, <1>a
  <2> QED BY <1>0, <2>1, Zenon DEF DriverInv, IsrOK
<1> QED BY <1>1, <1>2, <1>3, <1>4, <1>5, <1>6, Zenon DEF DriverInv, Silent

\* What start() knows at each turn of its loop.
LEMMA LaunchFacts ==
  ASSUME DriverInv, NEW x \in Contexts, Launch(x)
  PROVE  LET c == op[x].c
             i == op[x].arg
         IN  /\ c \in Channels /\ i \in Nat /\ chan[c] \in ChannelType /\ ~chan[c].busy
             /\ chan[c].count \in Nat /\ i < chan[c].count
             /\ issued \in Nat /\ issued + chan[c].count - i <= MaxCopies
             /\ issued >= i /\ issued + 1 <= MaxCopies /\ i + 1 <= MaxCopies
             /\ (IF i = 0 THEN IdOf(issued + 1) ELSE chan[c].first) = IdOf(issued + 1 - i)
             /\ issued' = issued + 1 /\ retired' = retired /\ flag' = flag /\ isr' = isr
             /\ op[x].kind = "launch"
             /\ \A y \in Contexts : op[y].kind = "launch" => y = x
             /\ \A y \in Contexts : op[y].kind \in {"wait", "free"} => op[y].c # c
<1> DEFINE c == op[x].c
           i == op[x].arg
<1>1. op[x].kind = "launch" /\ issued' = issued + 1 /\ retired' = retired /\ flag' = flag /\ isr' = isr
  BY Zenon DEF Launch
<1>2. op[x] \in OpType /\ c \in Channels /\ i \in Nat /\ chan[c] \in ChannelType /\ issued \in Nat
  <2>1. op[x] \in OpType /\ issued \in Nat
    BY DriverAssumption DEF DriverInv, Types, TypeOK
  <2>2. c \in Channels /\ i \in Ids
    BY <2>1, Zenon DEF OpType
  <2>3. chan[c] \in ChannelType
    BY <2>2, Zenon DEF DriverInv, Types, TypeOK
  <2> QED BY <2>1, <2>2, <2>3, SMTT(30) DEF Ids
<1>3. /\ ~chan[c].busy /\ i < chan[c].count /\ issued + chan[c].count - i <= MaxCopies
      /\ i > 0 => issued >= i /\ chan[c].first = IdOf(issued + 1 - i)
      /\ \A y \in Contexts : op[y].kind = "launch" => y = x
  BY <1>1, Zenon DEF DriverInv, LaunchOK
<1>4. chan[c].count \in Nat
  BY <1>2, ZenonT(60) DEF ChannelType
<1>5. issued >= i /\ issued + 1 <= MaxCopies /\ i + 1 <= MaxCopies
  BY <1>2, <1>3, <1>4, DriverAssumption, SMTT(30)
<1>6. (IF i = 0 THEN IdOf(issued + 1) ELSE chan[c].first) = IdOf(issued + 1 - i)
  <2>1. i = 0 => issued + 1 - i = issued + 1
    BY <1>2
  <2> QED BY <1>2, <1>3, <2>1
<1>7. \A y \in Contexts : op[y].kind \in {"wait", "free"} => op[y].c # c
  BY <1>3, Zenon DEF DriverInv, StopOK
<1> QED BY <1>1, <1>2, <1>3, <1>4, <1>5, <1>6, <1>7, Zenon

\* A turn of start() that is not the last.
LEMMA LaunchMoreStep ==
  ASSUME DriverInv, NEW x \in Contexts, Launch(x), op[x].arg + 1 # chan[op[x].c].count
  PROVE  DriverInv' /\ Silent
<1> DEFINE c == op[x].c
           i == op[x].arg
           new == [chan[c] EXCEPT !.first = IdOf(issued + 1 - i), !.last = IdOf(issued + 1)]
<1>0. /\ c \in Channels /\ i \in Nat /\ chan[c] \in ChannelType /\ ~chan[c].busy
      /\ chan[c].count \in Nat /\ i < chan[c].count
      /\ issued \in Nat /\ issued + chan[c].count - i <= MaxCopies
      /\ issued >= i /\ issued + 1 <= MaxCopies /\ i + 1 <= MaxCopies
      /\ (IF i = 0 THEN IdOf(issued + 1) ELSE chan[c].first) = IdOf(issued + 1 - i)
      /\ issued' = issued + 1 /\ retired' = retired /\ flag' = flag /\ isr' = isr
      /\ op[x].kind = "launch"
      /\ \A y \in Contexts : op[y].kind = "launch" => y = x
      /\ \A y \in Contexts : op[y].kind \in {"wait", "free"} => op[y].c # c
  BY LaunchFacts, Zenon
<1>1. /\ hist' = hist
      /\ chan' = [chan EXCEPT ![c] = new]
      /\ op' = [op EXCEPT ![x] = [op[x] EXCEPT !.arg = i + 1]]
  BY <1>0, ZenonT(60) DEF Launch
<1>a. /\ hist \in Seq(Transfer) /\ Len(hist) \in Nat /\ Len(hist) <= issued
      /\ retired \in Nat /\ retired <= issued
      /\ chan \in [Channels -> ChannelType] /\ op \in [Contexts -> OpType]
      /\ \A j \in 1..Len(hist) : hist[j].to \in Nat
  <2>1. /\ hist \in Seq(Transfer) /\ Len(hist) <= issued /\ retired \in 0..issued
        /\ chan \in [Channels -> ChannelType] /\ op \in [Contexts -> OpType]
    BY Zenon DEF DriverInv, Types, TypeOK
  <2>2. \A j \in 1..Len(hist) : hist[j] \in Transfer
    BY <2>1
  <2>3. \A j \in 1..Len(hist) : hist[j].to \in Nat
    BY <2>2, Zenon DEF Transfer
  <2>4. issued \in Nat
    BY <1>0, Zenon
  <2> QED BY ONLY <2>1, <2>3, <2>4
<1>2. /\ chan' \in [Channels -> ChannelType] /\ chan'[c] = new
      /\ \A d \in Channels : d # c => chan'[d] = chan[d]
  <2>1. issued + 1 - i \in 0..MaxCopies /\ issued + 1 \in 0..MaxCopies
    BY <1>0, DriverAssumption
  <2>2. IdOf(issued + 1 - i) \in Ids /\ IdOf(issued + 1) \in Ids
    BY <2>1, IdOfType, Zenon
  <2>3. new \in ChannelType
    BY <1>0, <2>2, Zenon DEF ChannelType
  <2> QED BY <1>0, <1>1, <1>a, <2>3, ZenonT(60)
<1>3. /\ ~chan'[c].busy /\ chan'[c].xfer = chan[c].xfer /\ chan'[c].count = chan[c].count
      /\ chan'[c].configured = chan[c].configured /\ chan'[c].first = IdOf(issued + 1 - i)
  BY <1>0, <1>2, Zenon DEF ChannelType
<1>4. /\ op' \in [Contexts -> OpType]
      /\ op'[x].kind = "launch" /\ op'[x].c = c /\ op'[x].arg = i + 1
      /\ \A y \in Contexts : y # x => op'[y] = op[y]
  <2>1. i + 1 \in Ids
    BY <1>0, DriverAssumption DEF Ids
  <2>2. [op[x] EXCEPT !.arg = i + 1] \in OpType
    BY <1>a, <2>1, Zenon DEF OpType
  <2> QED BY <1>0, <1>1, <1>a, <2>2, ZenonT(60) DEF OpType
<1>5. Types'
  <2>1. issued' \in 0..MaxCopies /\ retired' \in 0..issued' /\ Len(hist') <= issued'
    BY <1>0, <1>1, <1>a
  <2> QED BY <1>0, <1>1, <1>2, <1>4, <2>1, ZenonT(60) DEF DriverInv, Types, TypeOK
<1>6. \A j \in 1..Len(hist) : BlocksDue(j)' = BlocksDue(j) /\ EndsDue(j)' = EndsDue(j)
  BY <1>0, <1>1, Zenon DEF BlocksDue, EndsDue, InBatch
<1>7. \A j \in 1..Len(hist') : TransferOK(j)'
  <2> SUFFICES ASSUME NEW j \in 1..Len(hist) PROVE TransferOK(j)'
    BY <1>1, ZenonT(60)
  <2>1. retired' >= retired /\ issued' >= issued
    BY <1>0, <1>a
  <2> QED BY <1>1, <1>5, <1>6, <2>1, SameTransfer, Zenon
<1>8. \A d \in Channels : ChannelOK(d)'
  <2> SUFFICES ASSUME NEW d \in Channels PROVE ChannelOK(d)'
    BY Zenon
  <2>1. CASE d = c
    <3>1. /\ ChannelOK(d) /\ ~chan[d].busy /\ ~chan'[d].busy /\ chan'[d].xfer = chan[d].xfer
          /\ chan'[d].count = chan[d].count /\ chan'[d].configured = chan[d].configured
          /\ hist' = hist /\ retired' = retired
      BY <1>0, <1>1, <1>3, <2>1, ZenonT(60) DEF DriverInv
    <3> QED BY <3>1, Zenon DEF ChannelOK, Settled
  <2>2. CASE d # c
    BY <1>0, <1>1, <1>a, <1>2, <1>6, <2>2, SameChannel, SMTT(30)
  <2> QED BY <2>1, <2>2, Zenon
<1>9. \A y \in Contexts : LaunchOK(y)' /\ StopOK(y)'
  <2> SUFFICES ASSUME NEW y \in Contexts PROVE LaunchOK(y)' /\ StopOK(y)'
    BY Zenon
  <2>1. CASE y = x
    <3>1. /\ i + 1 < chan'[c].count /\ issued' + chan'[c].count - (i + 1) <= MaxCopies
          /\ issued' >= i + 1 /\ issued' + 1 - (i + 1) = issued + 1 - i
      <4>1. \A m, n, k \in Nat :
              m < n /\ m + 1 # n /\ k + n - m <= MaxCopies /\ k >= m =>
                /\ m + 1 < n /\ (k + 1) + n - (m + 1) <= MaxCopies
                /\ k + 1 >= m + 1 /\ (k + 1) + 1 - (m + 1) = k + 1 - m
        BY DriverAssumption
      <4>2. i + 1 # chan[c].count
        BY Zenon
      <4> QED BY <1>0, <1>3, <4>1, <4>2, ZenonT(60)
    <3>2. \A z \in Contexts : op'[z].kind = "launch" => z = x
      BY <1>0, <1>4, Zenon
    <3> QED BY <1>3, <1>4, <2>1, <3>1, <3>2, Zenon DEF LaunchOK, StopOK
  <2>2. CASE y # x
    <3>1. op[y].c \in Channels
      BY <1>a, Zenon DEF OpType
    <3>2. op'[y].kind # "launch"
      BY <1>0, <1>4, <2>2, Zenon
    <3> QED BY <1>0, <1>1, <1>2, <1>4, <2>2, <3>1, <3>2, ZenonT(60) DEF DriverInv, LaunchOK, StopOK
  <2> QED BY <2>1, <2>2, Zenon
<1>10. IsrOK'
  BY <1>0, <1>1, Zenon DEF DriverInv, IsrOK
<1> QED BY <1>5, <1>6, <1>7, <1>8, <1>9, <1>10, Zenon DEF DriverInv, Silent

\* The last turn records the transfer.
LEMMA LaunchLastStep ==
  ASSUME DriverInv, NEW x \in Contexts, Launch(x), op[x].arg + 1 = chan[op[x].c].count
  PROVE  DriverInv' /\ Silent
<1> DEFINE c == op[x].c
           i == op[x].arg
<1>0. /\ c \in Channels /\ i \in Nat /\ chan[c] \in ChannelType /\ ~chan[c].busy
      /\ chan[c].count \in Nat
      /\ issued \in Nat
      /\ issued >= i /\ issued + 1 <= MaxCopies
      /\ (IF i = 0 THEN IdOf(issued + 1) ELSE chan[c].first) = IdOf(issued + 1 - i)
      /\ issued' = issued + 1 /\ retired' = retired /\ flag' = flag /\ isr' = isr
      /\ op[x].kind = "launch"
      /\ \A y \in Contexts : op[y].kind = "launch" => y = x
      /\ \A y \in Contexts : op[y].kind \in {"wait", "free"} => op[y].c # c
  BY LaunchFacts, Zenon
<1>n. PICK n \in Nat, from \in Nat, to \in Nat :
        n = Len(hist) + 1 /\ from = issued + 1 - i /\ to = issued + 1
  <2>1. Len(hist) + 1 \in Nat
    BY DEF Types
  <2>2. issued + 1 - i \in Nat /\ issued + 1 \in Nat
    BY <1>0
  <2> QED BY <2>1, <2>2, Zenon
<1> DEFINE ch == [chan[c] EXCEPT !.first = IdOf(from), !.last = IdOf(to), !.reported = IdOf(from - 1),
                                 !.stopping = FALSE, !.busy = TRUE, !.xfer = n]
           h == [c |-> c, from |-> from, to |-> to, callback |-> chan[c].callback, blocks |-> 0,
                 completes |-> 0, reported |-> FALSE, stopped |-> FALSE]
<1>b. from \in 1..MaxCopies /\ to \in 1..MaxCopies /\ from - 1 \in 0..MaxCopies /\ from <= to
  <2>1. i \in Nat /\ issued \in Nat /\ issued >= i /\ issued + 1 <= MaxCopies
    BY <1>0, Zenon
  <2>2. MaxCopies \in Nat
    BY DriverAssumption, Zenon
  <2>3. \A j, q, f, t, m \in Nat :
          q >= j /\ q + 1 <= m /\ f = q + 1 - j /\ t = q + 1 =>
            f \in 1..m /\ t \in 1..m /\ f - 1 \in 0..m /\ f <= t
    OBVIOUS
  <2>4. from = issued + 1 - i /\ to = issued + 1
    BY <1>n, Zenon
  <2> QED BY <2>1, <2>2, <2>3, <2>4
<1>1. /\ hist' = Append(hist, h)
      /\ chan' = [chan EXCEPT ![c] = ch]
      /\ op' = [op EXCEPT ![x] = IdleOp]
  <2>1. IdPred(IdOf(from)) = IdOf(from - 1)
    BY <1>b, IdBefore, Zenon
  <2>2. i + 1 = chan[c].count
    BY Zenon
  <2>3. chan' = [chan EXCEPT ![c] = [Booked(chan[c], IdOf(from), IdOf(to)) EXCEPT !.xfer = n]]
    BY <1>0, <1>n, <2>2, Zenon DEF Launch
  <2>4. [Booked(chan[c], IdOf(from), IdOf(to)) EXCEPT !.xfer = n] = ch
    BY <1>0, <2>1, ZenonT(60) DEF Booked, ChannelType
  <2> QED BY <1>0, <1>n, <2>2, <2>3, <2>4, Zenon DEF Launch
<1>a. /\ hist \in Seq(Transfer) /\ Len(hist) \in Nat /\ Len(hist) <= issued
      /\ retired \in Nat /\ retired <= issued
      /\ chan \in [Channels -> ChannelType] /\ op \in [Contexts -> OpType]
      /\ \A j \in 1..Len(hist) : hist[j].to \in Nat
  <2>1. /\ hist \in Seq(Transfer) /\ Len(hist) <= issued /\ retired \in 0..issued
        /\ chan \in [Channels -> ChannelType] /\ op \in [Contexts -> OpType]
    BY Zenon DEF DriverInv, Types, TypeOK
  <2>2. \A j \in 1..Len(hist) : hist[j] \in Transfer
    BY <2>1
  <2>3. \A j \in 1..Len(hist) : hist[j].to \in Nat
    BY <2>2, Zenon DEF Transfer
  <2> QED BY <1>0, <2>1, <2>3
<1>2. /\ chan' \in [Channels -> ChannelType] /\ chan'[c] = ch
      /\ \A d \in Channels : d # c => chan'[d] = chan[d]
  <2>1. IdOf(from) \in Ids /\ IdOf(to) \in Ids /\ IdOf(from - 1) \in Ids
    BY <1>b, IdOfType, SMTT(30)
  <2>2. n \in 0..MaxCopies
    <3>1. n = Len(hist) + 1 /\ Len(hist) <= issued /\ issued + 1 <= MaxCopies /\ issued \in Nat
      BY <1>0, <1>n, <1>a, Zenon
    <3> QED BY <1>a, <3>1, DriverAssumption
  <2>3. ch \in ChannelType
    BY <1>0, <2>1, <2>2, ZenonT(60) DEF ChannelType
  <2> QED BY <1>0, <1>1, <1>a, <2>3, ZenonT(60)
<1>3. /\ chan'[c].busy /\ chan'[c].xfer = n /\ chan'[c].count = i + 1 /\ ~chan'[c].stopping
      /\ chan'[c].first = IdOf(from) /\ chan'[c].last = IdOf(to)
      /\ chan'[c].reported = IdOf(from - 1) /\ chan'[c].callback = chan[c].callback
  BY <1>0, <1>2, SMTT(30) DEF ChannelType
<1>4. /\ hist' \in Seq(Transfer) /\ Len(hist') = n /\ hist'[n] = h
      /\ \A j \in 1..Len(hist) : hist'[j] = hist[j]
  <2>1. from \in Nat /\ to \in Nat /\ chan[c].callback \in Callbacks
    BY <1>0, <1>b, Zenon DEF ChannelType
  <2>2. h \in Transfer
    BY <1>0, <2>1, Zenon DEF Transfer
  <2> QED BY <1>1, <1>n, <1>a, <2>2
<1>5. /\ op' \in [Contexts -> OpType] /\ op'[x].kind = "idle"
      /\ \A y \in Contexts : y # x => op'[y] = op[y]
  <2>1. IdleOp \in OpType
    BY DriverAssumption DEF OpType, IdleOp, Channels, Ids
  <2> QED BY <1>1, <1>a, <2>1, Zenon DEF IdleOp
<1>6. Types'
  <2>1. issued' \in 0..MaxCopies /\ retired' \in 0..issued' /\ Len(hist') <= issued'
    BY <1>0, <1>n, <1>4, <1>a
  <2> QED BY <1>0, <1>2, <1>4, <1>5, <2>1, ZenonT(60) DEF DriverInv, Types, TypeOK
<1>7. \A j \in 1..Len(hist) : BlocksDue(j)' = BlocksDue(j) /\ EndsDue(j)' = EndsDue(j)
  BY <1>0, <1>4, ZenonT(60) DEF BlocksDue, EndsDue, InBatch
<1>8. BlocksDue(n)' = 0 /\ EndsDue(n)' = 0
  <2>1. ~(isr'.pc = "callback" /\ isr'.xfer = n)
    BY <1>0, <1>n, <1>a, SMTT(30) DEF DriverInv, IsrOK
  <2> QED BY <1>4, <2>1, SMTT(30) DEF BlocksDue, EndsDue, InBatch
<1>9. \A j \in 1..Len(hist') : TransferOK(j)'
  <2>1. \A j \in 1..Len(hist) : TransferOK(j)'
    <3> SUFFICES ASSUME NEW j \in 1..Len(hist) PROVE TransferOK(j)'
      BY Zenon
    <3>1. retired' >= retired /\ issued' >= issued
      BY <1>0, <1>a, SMTT(20)
    <3> QED BY <1>4, <1>6, <1>7, <3>1, SameTransfer, Zenon
  <2>2. TransferOK(n)'
    <3>1. hist'[n].from = from /\ hist'[n].to = to /\ to <= issued'
      BY <1>0, <1>n, <1>4, SMTT(30)
    <3>2. Finished(n)' \in Int /\ Finished(n)' >= 0
      BY <1>0, <1>a, <1>b, <3>1, SMTT(20) DEF DriverInv, Finished
    <3> QED BY <1>b, <1>8, <3>1, <3>2, SMTT(30) DEF TransferOK
  <2>3. \A j \in 1..Len(hist') : j \in 1..Len(hist) \/ j = n
    BY <1>n, <1>4, <1>a
  <2> QED BY <2>1, <2>2, <2>3, Zenon
<1>10. \A d \in Channels : ChannelOK(d)'
  <2> SUFFICES ASSUME NEW d \in Channels PROVE ChannelOK(d)'
    BY ZenonT(60)
  <2>1. CASE d = c
    <3>1. /\ hist'[n].c = d /\ hist'[n].from = from /\ hist'[n].to = to /\ ~hist'[n].stopped
          /\ hist'[n].callback = chan[c].callback
      BY <1>4, <2>1, SMTT(30)
    <3>2. ReportedUpTo(d, n, from - 1)'
      BY <1>3, <1>8, <1>b, <2>1, <3>1, SMTT(30) DEF ReportedUpTo
    <3>3. i + 1 = to - from + 1
      <4>1. \A j, q \in Nat : j + 1 = (q + 1) - (q + 1 - j) + 1
        OBVIOUS
      <4>2. i \in Nat /\ issued \in Nat /\ from = issued + 1 - i /\ to = issued + 1
        BY <1>0, <1>n, Zenon
      <4> QED BY <4>1, <4>2, Zenon
    <3>4. Recorded(d, n)'
      BY <1>3, <1>8, <1>b, <2>1, <3>1, <3>2, <3>3, ZenonT(60) DEF Recorded
    <3>5. /\ chan'[d].busy /\ chan'[d].xfer = n /\ chan'[d].count > 0 /\ n \in 1..Len(hist')
      <4>1. i \in Nat /\ chan'[d].count = i + 1
        BY <1>0, <1>3, <2>1, Zenon
      <4>2. Len(hist') = n /\ n = Len(hist) + 1
        BY <1>n, <1>4, Zenon
      <4> QED BY <1>3, <1>a, <2>1, <4>1, <4>2, SMTT(20)
    <3> QED BY <3>1, <3>4, <3>5, SMTT(30) DEF ChannelOK
  <2>2. CASE d # c
    <3>1. Len(hist') >= Len(hist) /\ Len(hist') \in Nat
      <4>1. Len(hist') = Len(hist) + 1 /\ Len(hist) \in Nat
        BY <1>n, <1>4, <1>a, Zenon
      <4> QED BY <4>1
    <3>2. \A j \in 1..Len(hist) : hist'[j] = hist[j] /\ hist[j].to \in Nat
      BY <1>4, <1>a, Zenon
    <3>3. chan'[d] = chan[d] /\ retired' \in Nat /\ retired' >= retired
      BY <1>0, <1>2, <1>a, <2>2
    <3> QED BY <1>a, <1>7, <3>1, <3>2, <3>3, SameChannel, ZenonT(60)
  <2> QED BY <2>1, <2>2, Zenon
<1>11. \A y \in Contexts : LaunchOK(y)' /\ StopOK(y)'
  <2> SUFFICES ASSUME NEW y \in Contexts PROVE LaunchOK(y)' /\ StopOK(y)'
    BY Zenon
  <2>1. CASE y = x
    BY <1>5, <2>1, Zenon DEF LaunchOK, StopOK
  <2>2. CASE y # x
    <3>1. op'[y] = op[y] /\ op[y].kind # "launch" /\ op[y].c \in Channels
      BY <1>0, <1>5, <1>a, <2>2, Zenon DEF OpType
    <3> SUFFICES ASSUME op[y].kind \in {"wait", "free"} PROVE StopOK(y)'
      BY <3>1, Zenon DEF LaunchOK, StopOK
    <3>2. op[y].c # c
      BY <1>0, Zenon
    <3>3. chan[op[y].c].xfer \in 1..Len(hist)
      BY <3>1, Zenon DEF DriverInv, StopOK, ChannelOK
    <3>4. /\ chan'[op[y].c] = chan[op[y].c] /\ retired' = retired
          /\ hist'[chan[op[y].c].xfer] = hist[chan[op[y].c].xfer]
      BY <1>0, <1>2, <1>4, <3>1, <3>2, <3>3, ZenonT(60)
    <3>5. StopOK(y)
      BY Zenon DEF DriverInv
    <3> QED BY <3>1, <3>4, <3>5, Zenon DEF StopOK
  <2> QED BY <2>1, <2>2, Zenon
<1>12. IsrOK'
  <2>1. isr.pc = "callback" => isr.xfer \in 1..Len(hist') /\ hist'[isr.xfer] = hist[isr.xfer]
    <3>1. isr.pc = "callback" => isr.xfer \in 1..Len(hist)
      BY Zenon DEF DriverInv, IsrOK
    <3>2. Len(hist') = Len(hist) + 1 /\ Len(hist) \in Nat
      BY <1>n, <1>4, <1>a, Zenon
    <3>3. 1..Len(hist) \subseteq 1..Len(hist')
      BY <3>2
    <3> QED BY <1>4, <3>1, <3>3, Zenon
  <2> QED BY <1>0, <2>1, Zenon DEF DriverInv, IsrOK
<1> QED BY <1>6, <1>7, <1>9, <1>10, <1>11, <1>12, Zenon DEF DriverInv, Silent


-----------------------------------------------------------------------------
\* A step of the handler that calls and finds nothing.
LEMMA QuietIsrStep ==
  ASSUME DriverInv, issued' = issued, retired' = retired, flag' \in BOOLEAN,
         chan' = chan, op' = op, hist' = hist,
         isr.pc # "callback", isr'.pc # "callback", isr' \in IsrType, IsrOK'
  PROVE  DriverInv' /\ Silent
<1>1. \A i \in 1..Len(hist) : BlocksDue(i)' = BlocksDue(i) /\ EndsDue(i)' = EndsDue(i)
  BY Zenon DEF BlocksDue, EndsDue, InBatch
<1>2. Types'
  BY Zenon DEF DriverInv, Types, TypeOK
<1>3. \A i \in 1..Len(hist') : TransferOK(i)'
  BY <1>1, Zenon DEF DriverInv, TransferOK, Finished
<1>4. \A d \in Channels : ChannelOK(d)'
  <2>1. \A d \in Channels, i \in 1..Len(hist) : Recorded(d, i) => Recorded(d, i)'
    BY <1>1 DEF Recorded, ReportedUpTo
  <2>2. \A i \in 1..Len(hist) : Settled(i) => Settled(i)'
    BY Zenon DEF Settled
  <2> QED BY <2>1, <2>2, ZenonT(60) DEF DriverInv, ChannelOK
<1>5. \A y \in Contexts : LaunchOK(y)' /\ StopOK(y)'
  BY Zenon DEF DriverInv, LaunchOK, StopOK
<1> QED BY <1>1, <1>2, <1>3, <1>4, <1>5, Zenon DEF DriverInv, Silent

\* The next channel, or the end of the handler.
LEMMA NextChannel ==
  ASSUME DriverInv, isr.pc \in {"scan", "callback"}, retired' = retired,
         isr' = IF isr.c + 1 \in Channels THEN [isr EXCEPT !.pc = "scan", !.c = isr.c + 1] ELSE IsrOut
  PROVE  isr' \in IsrType /\ isr'.pc # "callback" /\ IsrOK'
<1>1. isr \in IsrType /\ IsrOK
  BY Zenon DEF DriverInv, Types, TypeOK
<1>2. CASE isr.c + 1 \in Channels
  <2>1. isr' = [isr EXCEPT !.pc = "scan", !.c = isr.c + 1]
    BY <1>2, Zenon
  <2>2. isr' \in IsrType /\ isr'.pc = "scan" /\ isr'.done = isr.done
    BY <1>1, <1>2, <2>1, Zenon DEF IsrType
  <2> QED BY <1>1, <2>2, Zenon DEF IsrOK
<1>3. CASE isr.c + 1 \notin Channels
  <2>1. IsrOut \in IsrType
    BY DriverAssumption DEF IsrOut, IsrType, Ids, Channels
  <2> QED BY <1>3, <2>1, Zenon DEF IsrOK, IsrOut
<1> QED BY <1>2, <1>3, Zenon

\* The handler clears the flag, reads DONE_ID, and passes over a channel.
LEMMA IsrQuietSteps ==
  ASSUME DriverInv, IsrEnter \/ IsrRead \/ (IsrScan /\ ~Due(chan[isr.c], isr.done))
  PROVE  DriverInv' /\ Silent
<1>0. isr \in IsrType /\ retired \in 0..MaxCopies /\ flag \in BOOLEAN
  BY DriverAssumption DEF DriverInv, Types, TypeOK
<1>1. CASE IsrEnter
  <2>1. /\ isr' = [IsrOut EXCEPT !.pc = "read"] /\ isr.pc = "out" /\ flag' = FALSE
        /\ UNCHANGED <<issued, retired, chan, op, hist>>
    BY <1>1, Zenon DEF IsrEnter
  <2>2. isr' \in IsrType /\ isr'.pc = "read"
    <3>1. IsrOut \in IsrType
      BY DriverAssumption DEF IsrOut, IsrType, Ids, Channels
    <3> QED BY <2>1, <3>1, Zenon DEF IsrType
  <2> QED BY <2>1, <2>2, QuietIsrStep, Zenon DEF IsrOK
<1>2. CASE IsrRead
  <2>1. /\ isr' = [isr EXCEPT !.pc = "scan", !.done = IdOf(retired)] /\ isr.pc = "read"
        /\ UNCHANGED <<issued, retired, flag, chan, op, hist>>
    BY <1>2, Zenon DEF IsrRead
  <2>2. IdOf(retired) \in Ids
    BY <1>0, IdOfType, Zenon
  <2>3. isr' \in IsrType /\ isr'.pc = "scan" /\ isr'.done = IdOf(retired)
    BY <1>0, <2>1, <2>2, Zenon DEF IsrType
  <2>4. IsrOK'
    <3>1. retired \in 0..retired
      BY <1>0
    <3> QED BY <2>1, <2>3, <3>1, Zenon DEF IsrOK
  <2> QED BY <1>0, <2>1, <2>3, <2>4, QuietIsrStep, Zenon
<1>3. CASE IsrScan /\ ~Due(chan[isr.c], isr.done)
  <2>1. /\ isr' = IF isr.c + 1 \in Channels THEN [isr EXCEPT !.c = isr.c + 1] ELSE IsrOut
        /\ isr.pc = "scan"
        /\ UNCHANGED <<issued, retired, flag, chan, op, hist>>
    BY <1>3, Zenon DEF IsrScan
  <2>2. [isr EXCEPT !.c = isr.c + 1] = [isr EXCEPT !.pc = "scan", !.c = isr.c + 1]
    BY <1>0, <2>1, Zenon DEF IsrType
  <2> QED BY <1>0, <2>1, <2>2, NextChannel, QuietIsrStep, Zenon
<1> QED BY <1>1, <1>2, <1>3, Zenon

\* One callback: what was due has been made.
LEMMA IsrCallbackStep ==
  ASSUME DriverInv, IsrCallback
  PROVE  DriverInv' /\ Silent
<1>0. /\ issued' = issued /\ retired' = retired /\ flag' = flag /\ chan' = chan /\ op' = op
      /\ isr.pc = "callback"
  BY Zenon DEF IsrCallback
<1>1. isr \in IsrType /\ hist \in Seq(Transfer) /\ Len(hist) \in Nat
  BY DEF DriverInv, Types, TypeOK
<1>2. PICK k \in 1..Len(hist) : k = isr.xfer /\ hist[k].completes = 0
  BY <1>0, Zenon DEF DriverInv, IsrOK
<1>3. /\ hist[k] \in Transfer /\ hist[k].blocks \in Nat /\ isr.blocks \in Nat
      /\ isr.complete \in BOOLEAN /\ (isr.blocks > 0 \/ isr.complete)
  <2>1. hist[k] \in Transfer
    BY <1>1
  <2>2. hist[k].blocks \in Nat
    BY <2>1, Zenon DEF Transfer
  <2>3. isr.blocks \in Nat /\ isr.complete \in BOOLEAN
    BY <1>1 DEF IsrType
  <2>4. isr.blocks > 0 \/ isr.complete
    BY <1>0, Zenon DEF DriverInv, IsrOK
  <2> QED BY <2>1, <2>2, <2>3, <2>4, Zenon
<1>m. PICK b \in Nat, m \in Nat :
        /\ b = IF isr.blocks > 0 THEN hist[k].blocks + 1 ELSE hist[k].blocks
        /\ m = IF isr.blocks > 0 THEN 0 ELSE 1
  <2>1. /\ (IF isr.blocks > 0 THEN hist[k].blocks + 1 ELSE hist[k].blocks) \in Nat
        /\ (IF isr.blocks > 0 THEN 0 ELSE 1) \in Nat
    BY <1>3
  <2> QED BY <2>1, Zenon
<1> DEFINE h == [hist[k] EXCEPT !.blocks = b, !.completes = m]
<1>4. hist' = [hist EXCEPT ![k] = h]
  <2>1. m = IF isr.blocks > 0 THEN hist[k].completes ELSE hist[k].completes + 1
    BY <1>2, <1>m
  <2>2. hist' = [hist EXCEPT ![isr.xfer] =
                   [hist[isr.xfer] EXCEPT
                      !.blocks = IF isr.blocks > 0 THEN hist[isr.xfer].blocks + 1 ELSE hist[isr.xfer].blocks,
                      !.completes = IF isr.blocks > 0 THEN hist[isr.xfer].completes
                                    ELSE hist[isr.xfer].completes + 1]]
    BY Zenon DEF IsrCallback
  <2> QED BY <1>2, <1>m, <2>1, <2>2, Zenon
<1>5. /\ hist' \in Seq(Transfer) /\ Len(hist') = Len(hist) /\ hist'[k] = h
      /\ \A i \in 1..Len(hist) : i # k => hist'[i] = hist[i]
  <2>1. h \in Transfer
    BY <1>3, Zenon DEF Transfer
  <2> QED BY <1>1, <1>4, <2>1, OneTransferChanged, Zenon
<1>6. /\ hist'[k].blocks = IF isr.blocks > 0 THEN hist[k].blocks + 1 ELSE hist[k].blocks
      /\ hist'[k].completes = IF isr.blocks > 0 THEN 0 ELSE 1
      /\ \A i \in 1..Len(hist) :
           /\ hist'[i].from = hist[i].from /\ hist'[i].to = hist[i].to
           /\ hist'[i].callback = hist[i].callback /\ hist'[i].c = hist[i].c
           /\ hist'[i].reported = hist[i].reported /\ hist'[i].stopped = hist[i].stopped
  <2>1. /\ hist'[k].blocks = b /\ hist'[k].completes = m
        /\ hist'[k].from = hist[k].from /\ hist'[k].to = hist[k].to
        /\ hist'[k].callback = hist[k].callback /\ hist'[k].c = hist[k].c
        /\ hist'[k].reported = hist[k].reported /\ hist'[k].stopped = hist[k].stopped
    BY <1>3, <1>5, Zenon DEF Transfer
  <2> QED BY <1>m, <1>5, <2>1, Zenon
<1> DEFINE left == [isr EXCEPT !.blocks = IF isr.blocks > 0 THEN isr.blocks - 1 ELSE 0,
                               !.complete = isr.complete /\ isr.blocks > 0]
<1>l. isr' = IF left.blocks > 0 \/ left.complete THEN left
             ELSE IF isr.c + 1 \in Channels THEN [isr EXCEPT !.pc = "scan", !.c = isr.c + 1] ELSE IsrOut
  BY Zenon DEF IsrCallback
<1>f. /\ left.blocks = IF isr.blocks > 0 THEN isr.blocks - 1 ELSE 0
      /\ left.complete = (isr.complete /\ isr.blocks > 0)
  BY <1>1, Zenon DEF IsrType
<1>7. /\ isr' \in IsrType /\ IsrOK'
      /\ \A i \in 1..Len(hist) : BlocksDue(i)' = BlocksDue(i) /\ EndsDue(i)' = EndsDue(i)
  <2>1. CASE isr.blocks > 1 \/ (isr.blocks = 1 /\ isr.complete)
    <3>a. isr.blocks > 0 /\ isr.blocks - 1 \in 0..MaxCopies
      BY <1>1, <1>3, <2>1, DriverAssumption DEF IsrType
    <3>b. isr.complete = (isr.complete /\ isr.blocks > 0)
      BY <1>3, <3>a, Zenon
    <3>c. left.blocks > 0 \/ left.complete
      BY <1>3, <1>f, <2>1
    <3>1. isr' = [isr EXCEPT !.blocks = isr.blocks - 1, !.complete = isr.complete]
      BY <1>l, <3>a, <3>b, <3>c, Zenon
    <3>2. /\ isr' \in IsrType /\ isr'.pc = "callback" /\ isr'.blocks = isr.blocks - 1
          /\ isr'.complete = isr.complete /\ isr'.xfer = k /\ isr'.done = isr.done
      BY <1>0, <1>1, <1>2, <1>3, <3>a, <3>1, ZenonT(60) DEF IsrType
    <3>3. IsrOK'
      <4>1. isr'.blocks > 0 \/ isr'.complete
        BY <1>3, <2>1, <3>2
      <4>2. hist'[k].completes = 0 /\ k \in 1..Len(hist')
        BY <1>5, <1>6, <3>a, Zenon
      <4>3. \E d \in 0..retired : isr.done = IdOf(d)
        BY <1>0, ZenonT(60) DEF DriverInv, IsrOK
      <4> QED BY <1>0, <3>2, <4>1, <4>2, <4>3, ZenonT(60) DEF IsrOK
    <3>4. BlocksDue(k)' = BlocksDue(k) /\ EndsDue(k)' = EndsDue(k)
      BY <1>0, <1>2, <1>3, <1>6, <2>1, <3>2, SMTT(20) DEF DriverInv, BlocksDue, EndsDue, InBatch
    <3>5. \A i \in 1..Len(hist) : i # k => BlocksDue(i)' = BlocksDue(i) /\ EndsDue(i)' = EndsDue(i)
      BY <1>2, <1>5, <3>2, Zenon DEF BlocksDue, EndsDue, InBatch
    <3> QED BY <3>2, <3>3, <3>4, <3>5, Zenon
  <2>2. CASE isr.blocks = 0 \/ (isr.blocks = 1 /\ ~isr.complete)
    <3>1. isr' = IF isr.c + 1 \in Channels THEN [isr EXCEPT !.pc = "scan", !.c = isr.c + 1] ELSE IsrOut
      <4>1. ~(left.blocks > 0) /\ ~left.complete
        <5>1. ~(isr.complete /\ isr.blocks > 0)
          BY <1>3, <2>2
        <5>2. left.blocks = 0
          BY <1>3, <1>f, <2>2
        <5>3. ~left.complete
          BY <1>f, <5>1, Zenon
        <5>4. ~(left.blocks > 0)
          BY <5>2
        <5> QED BY <5>3, <5>4, Zenon
      <4> QED BY <1>l, <4>1, Zenon
    <3>2. isr' \in IsrType /\ isr'.pc # "callback" /\ IsrOK'
      BY <1>0, <3>1, NextChannel, ZenonT(60)
    <3>4. BlocksDue(k)' = BlocksDue(k) /\ EndsDue(k)' = EndsDue(k)
      BY <1>0, <1>2, <1>3, <1>6, <2>2, <3>2, SMTT(30) DEF BlocksDue, EndsDue, InBatch
    <3>5. \A i \in 1..Len(hist) : i # k => BlocksDue(i)' = BlocksDue(i) /\ EndsDue(i)' = EndsDue(i)
      BY <1>2, <1>5, <3>2, Zenon DEF BlocksDue, EndsDue, InBatch
    <3> QED BY <3>2, <3>4, <3>5, Zenon
  <2> QED BY <1>3, <2>1, <2>2
<1>8. Types'
  BY <1>0, <1>5, <1>7, Zenon DEF DriverInv, Types, TypeOK
<1>9. retired \in Nat /\ issued \in Nat /\ \A i \in 1..Len(hist) : hist[i].to \in Nat
  <2>1. \A i \in 1..Len(hist) : hist[i] \in Transfer
    BY <1>1
  <2>2. \A i \in 1..Len(hist) : hist[i].to \in Nat
    BY <2>1, Zenon DEF Transfer
  <2>3. issued \in 0..MaxCopies /\ retired \in 0..issued
    BY Zenon DEF DriverInv, Types, TypeOK
  <2> QED BY ONLY <2>2, <2>3, DriverAssumption
<1>10. \A i \in 1..Len(hist') : TransferOK(i)'
  <2> SUFFICES ASSUME NEW i \in 1..Len(hist) PROVE TransferOK(i)'
    BY <1>5, Zenon
  <2> QED BY <1>0, <1>6, <1>7, <1>8, <1>9, SameTransfer, SMTT(30)
<1>11. \A d \in Channels : ChannelOK(d)'
  <2> SUFFICES ASSUME NEW d \in Channels PROVE ChannelOK(d)'
    BY Zenon
  <2>1. retired' \in Nat /\ retired' >= retired /\ Len(hist') \in Nat /\ Len(hist') >= Len(hist)
    BY <1>0, <1>1, <1>5, <1>9
  <2> QED BY <1>0, <1>1, <1>6, <1>7, <1>9, <2>1, SameChannel, Zenon
<1>12. \A y \in Contexts : LaunchOK(y)' /\ StopOK(y)'
  <2> SUFFICES ASSUME NEW y \in Contexts PROVE LaunchOK(y)' /\ StopOK(y)'
    BY Zenon
  <2>1. LaunchOK(y)'
    BY <1>0, Zenon DEF DriverInv, LaunchOK
  <2> SUFFICES ASSUME op[y].kind \in {"wait", "free"} PROVE StopOK(y)'
    BY <1>0, <2>1, Zenon DEF StopOK
  <2>2. op[y].c \in Channels
    BY Zenon DEF DriverInv, Types, TypeOK, OpType
  <2>3. chan[op[y].c].xfer \in 1..Len(hist)
    BY <2>2, Zenon DEF DriverInv, StopOK, ChannelOK
  <2> QED BY <1>0, <1>6, <2>3, Zenon DEF DriverInv, StopOK
<1> QED BY <1>7, <1>8, <1>10, <1>11, <1>12, Zenon DEF DriverInv, Silent

\* What the handler finds of a channel with news: the serial number t up to which
\* it will have reported.
LEMMA DueFacts ==
  ASSUME DriverInv, isr.pc = "scan", NEW c \in Channels, Due(chan[c], isr.done)
  PROVE  \E k \in 1..Len(hist), r \in 0..MaxCopies, t \in 0..MaxCopies :
           /\ k = chan[c].xfer /\ hist[k].c = c /\ Recorded(c, k) /\ ReportedUpTo(c, k, r)
           /\ r < t /\ t <= hist[k].to /\ t <= retired
           /\ AllRetired(chan[c], isr.done) <=> t = hist[k].to
           /\ (IF AllRetired(chan[c], isr.done) THEN chan[c].last ELSE isr.done) = IdOf(t)
           /\ (IdOf(t) - chan[c].reported) % IdMod = t - r
<1>1. chan[c].busy /\ Retired(isr.done, IdSucc(chan[c].reported))
  BY Zenon DEF Due
<1>2. PICK k \in 1..Len(hist) : k = chan[c].xfer /\ hist[k].c = c /\ Recorded(c, k)
  <2>1. ChannelOK(c)
    BY Zenon DEF DriverInv
  <2> QED BY <1>1, <2>1, Zenon DEF ChannelOK
<1>3. PICK r \in 0..MaxCopies : ReportedUpTo(c, k, r)
  BY <1>2, Zenon DEF Recorded
<1>4. PICK d \in 0..retired : isr.done = IdOf(d)
  BY Zenon DEF DriverInv, IsrOK
<1>5. hist[k].to \in 0..MaxCopies /\ retired \in 0..MaxCopies
  <2>1. hist[k] \in Transfer /\ issued \in 0..MaxCopies /\ retired \in 0..issued
    BY DEF DriverInv, Types, TypeOK
  <2>2. hist[k].to \in Nat /\ hist[k].to <= issued
    BY <2>1, Zenon DEF DriverInv, TransferOK, Transfer
  <2> QED BY <2>1, <2>2, DriverAssumption, SMTT(30)
<1>6. d \in 0..MaxCopies /\ r + 1 \in 0..MaxCopies /\ r < hist[k].to
  <2>1. r < hist[k].to
    BY <1>3, Zenon DEF ReportedUpTo
  <2>2. MaxCopies \in Nat /\ d \in 0..retired /\ r \in 0..MaxCopies
    BY DriverAssumption, Zenon
  <2> QED BY ONLY <1>5, <2>1, <2>2, SMTT(30)
<1>7. d >= r + 1
  <2>1. IdSucc(chan[c].reported) = IdOf(r + 1)
    <3>1. (IdOf(r) + 1) % IdMod = IdOf(r + 1)
      BY <1>6, IdNext
    <3> QED BY <1>3, <3>1, Zenon DEF IdSucc, ReportedUpTo
  <2> QED BY <1>1, <1>4, <1>6, <2>1, RetiredMeans, Zenon
<1>8. AllRetired(chan[c], isr.done) <=> d >= hist[k].to
  <2>1. chan[c].last = IdOf(hist[k].to)
    BY <1>2, Zenon DEF Recorded
  <2> QED BY <1>4, <1>5, <1>6, <2>1, RetiredMeans, Zenon DEF AllRetired
<1>9. PICK t \in 0..MaxCopies : t = IF d >= hist[k].to THEN hist[k].to ELSE d
  BY <1>5, <1>6, Zenon
<1>10. r < t /\ t <= hist[k].to /\ t <= retired /\ (d >= hist[k].to <=> t = hist[k].to)
  BY <1>4, <1>5, <1>6, <1>7, <1>9, SMTT(30)
<1>11. (IF AllRetired(chan[c], isr.done) THEN chan[c].last ELSE isr.done) = IdOf(t)
  <2>1. chan[c].last = IdOf(hist[k].to)
    BY <1>2, Zenon DEF Recorded
  <2> QED BY <1>4, <1>8, <1>9, <2>1, Zenon
<1>12. (IdOf(t) - chan[c].reported) % IdMod = t - r
  <2>1. chan[c].reported = IdOf(r)
    BY <1>3, Zenon DEF ReportedUpTo
  <2>2. (IdOf(t) - IdOf(r)) % IdMod = IF t >= r THEN t - r ELSE t - r + IdMod
    BY IdDistance, Zenon
  <2> QED BY <1>10, <2>1, <2>2
<1> QED BY <1>2, <1>3, <1>8, <1>10, <1>11, <1>12, Zenon

\* A copy u of f..o that has retired is among the finished ones.
LEMMA FinishedAtLeast ==
  ASSUME NEW f \in Nat, NEW o \in Nat, NEW q \in Nat, NEW u \in Nat, NEW fin \in Int,
         f <= u, u <= o, u <= q,
         fin = IF q >= o THEN o - f + 1 ELSE IF q < f THEN 0 ELSE q - f + 1
  PROVE  0 <= fin /\ u - f + 1 <= fin /\ u - f <= fin
<1>1. CASE q >= o
  <2>1. fin = o - f + 1
    BY <1>1, Zenon
  <2> QED BY <2>1
<1>2. CASE q < o
  <2>1. fin = q - f + 1
    BY <1>2, SMTT(30)
  <2> QED BY <2>1
<1> QED BY <1>1, <1>2

\* The handler reports the news of a channel.
LEMMA IsrDueStep ==
  ASSUME DriverInv, IsrScan, Due(chan[isr.c], isr.done)
  PROVE  DriverInv' /\ Silent
<1>0. /\ issued' = issued /\ retired' = retired /\ flag' = flag /\ op' = op
      /\ isr.pc = "scan"
  BY ZenonT(60) DEF IsrScan
<1>a. /\ isr \in IsrType /\ hist \in Seq(Transfer) /\ Len(hist) \in Nat /\ retired \in Nat
      /\ issued \in Nat /\ chan \in [Channels -> ChannelType] /\ op \in [Contexts -> OpType]
  BY DriverAssumption DEF DriverInv, Types, TypeOK
<1>b. PICK c \in Channels : c = isr.c
  BY <1>a, Zenon DEF IsrType
<1>c. PICK k \in 1..Len(hist), r \in 0..MaxCopies, t \in 0..MaxCopies :
        /\ k = chan[c].xfer /\ hist[k].c = c /\ Recorded(c, k) /\ ReportedUpTo(c, k, r)
        /\ r < t /\ t <= hist[k].to /\ t <= retired
        /\ AllRetired(chan[c], isr.done) <=> t = hist[k].to
        /\ (IF AllRetired(chan[c], isr.done) THEN chan[c].last ELSE isr.done) = IdOf(t)
        /\ (IdOf(t) - chan[c].reported) % IdMod = t - r
  BY <1>0, <1>b, DueFacts, Zenon
<1>d. PICK done \in BOOLEAN : done <=> AllRetired(chan[c], isr.done)
  BY Zenon
<1>e. PICK b \in 0..MaxCopies :
        b = IF chan[c].callback = "block" THEN (t - r) - (IF done THEN 1 ELSE 0) ELSE 0
  <2>1. r < t
    BY <1>c, Zenon
  <2>2. t - r \in 0..MaxCopies /\ (t - r) - 1 \in 0..MaxCopies /\ (t - r) - 0 \in 0..MaxCopies
    BY <2>1, DriverAssumption
  <2>3. 0 \in 0..MaxCopies
    BY DriverAssumption
  <2> QED BY <2>2, <2>3, Zenon
<1>f. PICK end \in BOOLEAN : end = (done /\ chan[c].callback # "none")
  BY Zenon
<1>1. /\ chan' = [chan EXCEPT ![c] = [chan[c] EXCEPT !.reported = IdOf(t), !.busy = ~done]]
      /\ hist' = [hist EXCEPT ![k] = [hist[k] EXCEPT !.reported = done]]
      /\ isr' = IF b > 0 \/ end
                THEN [isr EXCEPT !.pc = "callback", !.blocks = b, !.complete = end, !.xfer = k]
                ELSE IF isr.c + 1 \in Channels THEN [isr EXCEPT !.c = isr.c + 1] ELSE IsrOut
  <2> DEFINE ch == chan[isr.c]
             complete == AllRetired(ch, isr.done)
             to == IF complete THEN ch.last ELSE isr.done
             new == (to - ch.reported) % IdMod
             blocks == IF ch.callback = "block" THEN new - (IF complete THEN 1 ELSE 0) ELSE 0
             ends == complete /\ ch.callback # "none"
  <2>1. /\ chan' = [chan EXCEPT ![isr.c].reported = to, ![isr.c].busy = ~complete]
        /\ hist' = [hist EXCEPT ![ch.xfer].reported = complete]
        /\ isr' = IF blocks > 0 \/ ends
                  THEN [isr EXCEPT !.pc = "callback", !.blocks = blocks, !.complete = ends, !.xfer = ch.xfer]
                  ELSE IF isr.c + 1 \in Channels THEN [isr EXCEPT !.c = isr.c + 1] ELSE IsrOut
    BY Zenon DEF IsrScan
  <2>2. to = IdOf(t) /\ ch.xfer = k
    BY <1>b, <1>c, Zenon
  <2>3. complete = done
    BY <1>b, <1>d DEF AllRetired, Retired
  <2>4. blocks = b
    BY <1>b, <1>c, <1>e, <2>2, <2>3, Zenon
  <2>5. ends = end
    BY <1>b, <1>f, <2>3, Zenon
  <2>6. chan' = [chan EXCEPT ![c] = [chan[c] EXCEPT !.reported = IdOf(t), !.busy = ~done]]
    BY <1>a, <1>b, <2>1, <2>2, <2>3, Zenon
  <2>7. hist' = [hist EXCEPT ![k] = [hist[k] EXCEPT !.reported = done]]
    BY <2>1, <2>2, <2>3, Zenon
  <2> HIDE DEF ends, blocks
  <2>8. isr' = IF b > 0 \/ end
                THEN [isr EXCEPT !.pc = "callback", !.blocks = b, !.complete = end, !.xfer = k]
                ELSE IF isr.c + 1 \in Channels THEN [isr EXCEPT !.c = isr.c + 1] ELSE IsrOut
    BY <2>1, <2>2, <2>4, <2>5, ZenonT(60)
  <2> QED BY <2>6, <2>7, <2>8, Zenon
<1>g. /\ hist[k].from \in Nat /\ hist[k].to \in Nat /\ hist[k].blocks \in Nat /\ hist[k].completes \in Nat
      /\ hist[k] \in Transfer /\ hist[k].stopped \in BOOLEAN /\ hist[k].from <= hist[k].to
  <2>1. hist[k] \in Transfer /\ TransferOK(k)
    BY <1>a DEF DriverInv
  <2>2. /\ hist[k].from \in Nat /\ hist[k].to \in Nat /\ hist[k].blocks \in Nat
        /\ hist[k].completes \in Nat /\ hist[k].stopped \in BOOLEAN
    BY <2>1, Zenon DEF Transfer
  <2> QED BY <2>1, <2>2 DEF TransferOK
<1>h. /\ chan[c].callback = hist[k].callback /\ hist[k].completes = 0 /\ ~hist[k].stopped
      /\ hist[k].blocks = IF hist[k].callback = "block" THEN r - hist[k].from + 1 ELSE 0
      /\ r >= hist[k].from - 1
  <2>1. ~InBatch(k)
    BY <1>0, ZenonT(60) DEF InBatch
  <2>2. BlocksDue(k) = hist[k].blocks /\ EndsDue(k) = hist[k].completes
    BY ONLY <1>g, <2>1 DEF BlocksDue, EndsDue
  <2>3. ~chan[c].stopping
    BY <1>b, Zenon DEF Due
  <2>4. EndsDue(k) = 0 /\ chan[c].callback = hist[k].callback /\ (hist[k].stopped => chan[c].stopping)
    BY <1>c, Zenon DEF Recorded
  <2>5. /\ r >= hist[k].from - 1
        /\ BlocksDue(k) = IF hist[k].callback = "block" THEN r - hist[k].from + 1 ELSE 0
    BY <1>c, Zenon DEF ReportedUpTo
  <2> QED BY <2>2, <2>3, <2>4, <2>5, Zenon
<1>2. /\ hist' \in Seq(Transfer) /\ Len(hist') = Len(hist)
      /\ \A i \in 1..Len(hist) : i # k => hist'[i] = hist[i]
      /\ hist'[k].from = hist[k].from /\ hist'[k].to = hist[k].to
      /\ hist'[k].callback = hist[k].callback /\ hist'[k].c = c
      /\ hist'[k].blocks = hist[k].blocks /\ hist'[k].completes = 0
      /\ hist'[k].reported = done /\ ~hist'[k].stopped
  <2>1. [hist[k] EXCEPT !.reported = done] \in Transfer
    BY <1>g, Zenon DEF Transfer
  <2>2. /\ hist' \in Seq(Transfer) /\ Len(hist') = Len(hist)
        /\ hist'[k] = [hist[k] EXCEPT !.reported = done]
        /\ \A i \in 1..Len(hist) : i # k => hist'[i] = hist[i]
    BY <1>1, <1>a, <2>1, OneTransferChanged, Zenon
  <2>3. /\ hist'[k].from = hist[k].from /\ hist'[k].to = hist[k].to
        /\ hist'[k].callback = hist[k].callback /\ hist'[k].c = hist[k].c
        /\ hist'[k].blocks = hist[k].blocks /\ hist'[k].completes = hist[k].completes
        /\ hist'[k].reported = done /\ hist'[k].stopped = hist[k].stopped
    BY <1>g, <2>2, Zenon DEF Transfer
  <2> QED BY <1>c, <1>h, <2>2, <2>3, Zenon
<1>3. /\ chan' \in [Channels -> ChannelType] /\ \A d \in Channels : d # c => chan'[d] = chan[d]
      /\ chan'[c].reported = IdOf(t) /\ (chan'[c].busy <=> ~done)
      /\ chan'[c].xfer = k /\ chan'[c].first = chan[c].first /\ chan'[c].last = chan[c].last
      /\ chan'[c].count = chan[c].count /\ chan'[c].callback = chan[c].callback
      /\ chan'[c].configured = chan[c].configured
  <2>1. IdOf(t) \in Ids /\ chan[c] \in ChannelType
    BY <1>a, IdOfType, Zenon
  <2>2. [chan[c] EXCEPT !.reported = IdOf(t), !.busy = ~done] \in ChannelType
    BY <2>1, Zenon DEF ChannelType
  <2>3. /\ chan' \in [Channels -> ChannelType] /\ \A d \in Channels : d # c => chan'[d] = chan[d]
        /\ chan'[c] = [chan[c] EXCEPT !.reported = IdOf(t), !.busy = ~done]
    BY <1>1, <1>a, <2>2, Zenon
  <2> QED BY <1>c, <2>1, <2>3, Zenon DEF ChannelType
<1>4. /\ isr' \in IsrType /\ IsrOK'
      /\ isr'.pc = "callback" => isr'.xfer = k /\ isr'.blocks = b /\ isr'.complete = end
      /\ isr'.pc # "callback" => b = 0 /\ end = FALSE
  <2>1. CASE b > 0 \/ end
    <3>1. isr' = [isr EXCEPT !.pc = "callback", !.blocks = b, !.complete = end, !.xfer = k]
      BY <1>1, <2>1, Zenon
    <3>2. k \in 0..MaxCopies
      BY <1>a, <1>c, Zenon DEF ChannelType
    <3>3. /\ isr' \in IsrType /\ isr'.pc = "callback" /\ isr'.blocks = b /\ isr'.complete = end
          /\ isr'.xfer = k /\ isr'.done = isr.done
      BY <1>a, <3>1, <3>2, Zenon DEF IsrType
    <3>4. IsrOK'
      <4>1. \E d \in 0..retired : isr.done = IdOf(d)
        BY <1>0, Zenon DEF DriverInv, IsrOK
      <4> QED BY <1>0, <1>2, <2>1, <3>3, <4>1, ZenonT(60) DEF IsrOK
    <3> QED BY <3>3, <3>4, Zenon
  <2>2. CASE ~(b > 0 \/ end)
    <3>1. isr' = IF isr.c + 1 \in Channels THEN [isr EXCEPT !.c = isr.c + 1] ELSE IsrOut
      BY <1>1, <2>2, Zenon
    <3>2. [isr EXCEPT !.c = isr.c + 1] = [isr EXCEPT !.pc = "scan", !.c = isr.c + 1]
      BY <1>0, <1>a, Zenon DEF IsrType
    <3>3. isr' \in IsrType /\ isr'.pc # "callback" /\ IsrOK'
      BY <1>0, <3>1, <3>2, NextChannel, ZenonT(60)
    <3>4. b = 0
      BY <2>2
    <3> QED BY <2>2, <3>3, <3>4, Zenon
  <2> QED BY <2>1, <2>2, Zenon
<1>5. \A i \in 1..Len(hist) : i # k => BlocksDue(i)' = BlocksDue(i) /\ EndsDue(i)' = EndsDue(i)
  BY <1>0, <1>2, <1>4, ZenonT(60) DEF BlocksDue, EndsDue, InBatch
<1>6. BlocksDue(k)' = hist[k].blocks + b /\ EndsDue(k)' = IF end THEN 1 ELSE 0
  BY <1>g, <1>2, <1>4, SMTT(30) DEF BlocksDue, EndsDue, InBatch
<1>7. /\ BlocksDue(k)' = IF hist[k].callback # "block" THEN 0
                         ELSE IF done THEN hist[k].to - hist[k].from ELSE t - hist[k].from + 1
      /\ done <=> t = hist[k].to
  <2>1. done <=> t = hist[k].to
    BY <1>c, <1>d, ZenonT(60)
  <2>2. CASE hist[k].callback # "block"
    BY <1>e, <1>h, <1>6, <2>1, <2>2, SMTT(30)
  <2>3. CASE hist[k].callback = "block"
    <3>1. hist[k].blocks = r - hist[k].from + 1 /\ b = (t - r) - (IF done THEN 1 ELSE 0)
      BY <1>e, <1>h, <2>3, ZenonT(60)
    <3>2. CASE done
      <4>1. b = t - r - 1 /\ t = hist[k].to
        BY <2>1, <3>1, <3>2, SMTT(30)
      <4>2. hist[k].blocks + b = hist[k].to - hist[k].from
        <5>1. \A f, o, q \in Int : (q - f + 1) + (o - q - 1) = o - f
          OBVIOUS
        <5>2. hist[k].from \in Int /\ hist[k].to \in Int /\ r \in Int
          BY <1>g
        <5>3. hist[k].blocks = r - hist[k].from + 1 /\ b = hist[k].to - r - 1
          BY <3>1, <4>1, Zenon
        <5> QED BY <5>1, <5>2, <5>3, SMTT(20)
      <4> QED BY <1>6, <2>1, <2>3, <3>2, <4>2, SMTT(30)
    <3>3. CASE ~done
      <4>1. b = t - r
        BY <3>1, <3>3, SMTT(30)
      <4>2. hist[k].blocks + b = t - hist[k].from + 1
        BY <1>g, <3>1, <4>1, SMTT(20)
      <4> QED BY <1>6, <2>1, <2>3, <3>3, <4>2, ZenonT(60)
    <3> QED BY <3>2, <3>3, Zenon
  <2> QED BY <2>1, <2>2, <2>3, Zenon
<1>8. Types'
  BY <1>0, <1>2, <1>3, <1>4, Zenon DEF DriverInv, Types, TypeOK
<1>9. \A i \in 1..Len(hist') : TransferOK(i)'
  <2> SUFFICES ASSUME NEW i \in 1..Len(hist) PROVE TransferOK(i)'
    BY <1>2, Zenon
  <2>1. CASE i # k
    <3>1. retired' >= retired /\ issued' >= issued
      BY <1>0, <1>a, SMTT(30)
    <3> QED BY <1>2, <1>5, <1>8, <2>1, <3>1, SameTransfer, ZenonT(60)
  <2>2. CASE i = k
    <3>1. hist[k].from \in 1..hist[k].to /\ hist[k].to <= issued
      BY Zenon DEF DriverInv, TransferOK
    <3>2. t <= retired /\ r < t /\ t <= hist[k].to
      BY <1>c, Zenon
    <3>3. BlocksDue(k)' <= Finished(k)'
      <4>1. Finished(k)' = IF retired >= hist[k].to THEN hist[k].to - hist[k].from + 1
                           ELSE IF retired < hist[k].from THEN 0 ELSE retired - hist[k].from + 1
        BY <1>0, <1>2, Zenon DEF Finished
      <4>3. hist[k].from <= t
        <5>1. r >= hist[k].from - 1 /\ r < t
          BY <1>h, <3>2, Zenon
        <5> QED BY <1>g, <5>1
      <4>4. 0 <= Finished(k)' /\ t - hist[k].from + 1 <= Finished(k)' /\ t - hist[k].from <= Finished(k)'
        <5>1. t \in Nat /\ hist[k].from \in Nat /\ hist[k].to \in Nat /\ retired \in Nat
          BY <1>a, <1>g, SMTT(30)
        <5>2. Finished(k)' \in Int
          BY <4>1, <5>1, SMTT(20)
        <5> QED BY <3>2, <4>1, <4>3, <5>1, <5>2, FinishedAtLeast, ZenonT(60)
      <4> QED BY <1>7, <4>4, Zenon
    <3>4. EndsDue(k)' <= 1
      BY <1>6
    <3>5. EndsDue(k)' = 1 => done
      BY <1>f, <1>6
    <3>6. EndsDue(k)' = 1 => retired >= hist[k].to
      BY <1>a, <1>g, <1>7, <3>2, <3>5, ZenonT(60)
    <3>7. EndsDue(k)' = 1 =>
            BlocksDue(k)' = IF hist[k].callback = "block" THEN hist[k].to - hist[k].from ELSE 0
      BY <1>7, <3>5, Zenon
    <3> QED BY <1>0, <1>2, <2>2, <3>1, <3>3, <3>4, <3>6, <3>7, SMTT(30) DEF TransferOK
  <2> QED BY <2>1, <2>2, Zenon
<1>10. \A d \in Channels : ChannelOK(d)'
  <2> SUFFICES ASSUME NEW d \in Channels PROVE ChannelOK(d)'
    BY Zenon
  <2>1. CASE d # c
    <3>1. chan[d].xfer # k
      BY <1>c, <2>1, Zenon DEF DriverInv, ChannelOK
    <3>2. \A i \in 1..Len(hist) : hist[i] \in Transfer
      BY <1>a
    <3>3. \A i \in 1..Len(hist) : hist[i].to \in Nat
      BY <3>2, Zenon DEF Transfer
    <3>4. /\ chan'[d] = chan[d] /\ retired' \in Nat /\ retired' >= retired
          /\ Len(hist') \in Nat /\ Len(hist') >= Len(hist)
      <4>1. chan'[d] = chan[d]
        BY <1>3, <2>1, Zenon
      <4>2. retired' = retired /\ retired \in Nat /\ Len(hist) \in Nat /\ Len(hist') = Len(hist)
        BY <1>0, <1>a, <1>2, Zenon
      <4> QED BY ONLY <4>1, <4>2
    <3>5. \A i \in 1..Len(hist) :
            chan[d].xfer = i =>
              hist'[i] = hist[i] /\ BlocksDue(i)' = BlocksDue(i) /\ EndsDue(i)' = EndsDue(i)
      BY <1>2, <1>5, <3>1, Zenon
    <3> QED BY <1>a, <3>3, <3>4, <3>5, SameChannel, ZenonT(60)
  <2>2. CASE d = c
    <3>1. chan[c].configured => chan[c].count > 0
      BY Zenon DEF DriverInv, ChannelOK
    <3>2. ~done => Recorded(c, k)'
      <4> SUFFICES ASSUME ~done PROVE Recorded(c, k)'
        BY ZenonT(60)
      <4>1. t >= hist[k].from - 1 /\ t < hist[k].to
        <5>1. r < t /\ t <= hist[k].to /\ t # hist[k].to /\ r >= hist[k].from - 1
          BY <1>c, <1>h, <1>7, Zenon
        <5> QED BY <1>g, <5>1, SMTT(30)
      <4>2. ReportedUpTo(c, k, t)'
        BY <1>2, <1>3, <1>7, <4>1, Zenon DEF ReportedUpTo
      <4>3. EndsDue(k)' = 0
        BY <1>f, <1>6, Zenon
      <4> QED BY <1>c, <1>2, <1>3, <4>2, <4>3, ZenonT(60) DEF Recorded
    <3>3. done => Settled(k)'
      BY <1>0, <1>c, <1>2, <1>7, ZenonT(60) DEF Settled
    <3>4. k # 0 /\ k \in 1..Len(hist')
      BY <1>a, <1>2
    <3>5. /\ chan'[c].xfer = k /\ chan'[c].configured = chan[c].configured
          /\ chan'[c].count = chan[c].count /\ (chan'[c].busy <=> ~done) /\ hist'[k].c = c
      BY <1>c, <1>2, <1>3, Zenon
    <3> QED BY ONLY <2>2, <3>1, <3>2, <3>3, <3>4, <3>5, ZenonT(60) DEF ChannelOK
  <2> QED BY <2>1, <2>2, Zenon
<1>11. \A y \in Contexts : LaunchOK(y)' /\ StopOK(y)'
  <2> SUFFICES ASSUME NEW y \in Contexts PROVE LaunchOK(y)' /\ StopOK(y)'
    BY Zenon
  <2>0. chan[c].busy /\ ~chan[c].stopping
    BY <1>b, Zenon DEF Due
  <2>1. LaunchOK(y)'
    <3> SUFFICES ASSUME op[y].kind = "launch" PROVE LaunchOK(y)'
      BY <1>0, Zenon DEF LaunchOK
    <3>1. op[y].c \in Channels /\ op[y].c # c
      BY <1>a, <2>0, Zenon DEF DriverInv, LaunchOK, OpType
    <3>2. chan'[op[y].c] = chan[op[y].c]
      BY <1>3, <3>1, Zenon
    <3> QED BY <1>0, <3>2, Zenon DEF DriverInv, LaunchOK
  <2>2. StopOK(y)'
    <3> SUFFICES ASSUME op[y].kind \in {"wait", "free"} PROVE StopOK(y)'
      BY <1>0, Zenon DEF StopOK
    <3>1. op[y].c \in Channels /\ op[y].c # c
      BY <1>a, <2>0, Zenon DEF DriverInv, StopOK, OpType
    <3>2. chan[op[y].c].xfer \in 1..Len(hist) /\ chan[op[y].c].xfer # k
      <4>1. ChannelOK(op[y].c) /\ chan[op[y].c].busy
        BY <3>1, Zenon DEF DriverInv, StopOK
      <4> QED BY <1>c, <3>1, <4>1, Zenon DEF ChannelOK
    <3>3. /\ chan'[op[y].c] = chan[op[y].c]
          /\ hist'[chan[op[y].c].xfer] = hist[chan[op[y].c].xfer]
      BY <1>2, <1>3, <3>1, <3>2, ZenonT(60)
    <3> QED BY <1>0, <3>3, Zenon DEF DriverInv, StopOK
  <2> QED BY <2>1, <2>2, Zenon
<1> QED BY <1>h, <1>4, <1>5, <1>8, <1>9, <1>10, <1>11, SMTT(30) DEF DriverInv, Silent

-----------------------------------------------------------------------------
\* Every step keeps the invariant and is silent about stopped transfers.
LEMMA DriverStep ==
  ASSUME DriverInv, OneStopperEach, [Next]_vars
  PROVE  DriverInv' /\ Silent
<1>1. ASSUME NEW x \in Contexts, Calls(x) PROVE DriverInv' /\ Silent
  <2>1. PICK c \in Channels :
          (\E f \in Configs : Config(x, c, f)) \/ Reload(x, c) \/ StartBegin(x, c)
    BY <1>1, Zenon DEF Calls
  <2>2. CASE \E f \in Configs : Config(x, c, f)
    BY <2>2, ConfigStep, Zenon
  <2>3. CASE Reload(x, c)
    BY <2>3, ConfigStep, Zenon
  <2>4. CASE StartBegin(x, c)
    BY <2>4, StartStep, Zenon
  <2> QED BY <2>1, <2>2, <2>3, <2>4, Zenon
<1>2. ASSUME NEW x \in Contexts, Launch(x) PROVE DriverInv' /\ Silent
  BY <1>2, LaunchMoreStep, LaunchLastStep, Zenon
<1>3. ASSUME NEW x \in Contexts, StopWait(x) PROVE DriverInv' /\ Silent
  BY <1>3, StopWaitStep, Zenon
<1>4. ASSUME NEW x \in Contexts, StopEnd(x) PROVE DriverInv' /\ Silent
  BY <1>4, StopEndStep, Zenon
<1>5. ASSUME NEW s \in Stoppers, StopBegin(s[1], s[2]) PROVE DriverInv' /\ Silent
  <2>1. s[1] \in Contexts /\ s[2] \in Channels /\ <<s[1], s[2]>> \in Stoppers
    BY DriverAssumption DEF Contexts, Channels
  <2> QED BY <1>5, <2>1, StopBeginStep, ZenonT(60)
<1>6. CASE IsrStep
  BY <1>6, IsrQuietSteps, IsrDueStep, IsrCallbackStep, Zenon DEF IsrStep
<1>7. CASE Retire
  BY <1>7, RetireStep, Zenon
<1>8. CASE UNCHANGED vars
  <2>1. /\ issued' = issued /\ retired' = retired /\ flag' = flag
        /\ chan' = chan /\ op' = op /\ isr' = isr /\ hist' = hist
    BY <1>8, Zenon DEF vars
  <2>2. Types' /\ IsrOK'
    BY <2>1, Zenon DEF DriverInv, Types, TypeOK, IsrOK
  <2>3. \A i \in 1..Len(hist) : BlocksDue(i)' = BlocksDue(i) /\ EndsDue(i)' = EndsDue(i)
    BY <2>1, Zenon DEF BlocksDue, EndsDue, InBatch
  <2>4. \A i \in 1..Len(hist') : TransferOK(i)'
    BY <2>1, <2>3, Zenon DEF DriverInv, TransferOK, Finished
  <2>5. \A d \in Channels : ChannelOK(d)'
    <3>1. \A d \in Channels, i \in 1..Len(hist) : Recorded(d, i)' <=> Recorded(d, i)
      BY ONLY <2>1, <2>3 DEF Recorded, ReportedUpTo
    <3>2. \A i : Settled(i)' <=> Settled(i)
      BY <2>1, Zenon DEF Settled
    <3>3. \A d \in Channels : ChannelOK(d)
      BY Zenon DEF DriverInv
    <3> QED BY ONLY <2>1, <3>1, <3>2, <3>3, ZenonT(60) DEF ChannelOK
  <2>6. \A y \in Contexts : LaunchOK(y)' /\ StopOK(y)'
    BY <2>1, ZenonT(60) DEF DriverInv, LaunchOK, StopOK
  <2> QED BY <2>2, <2>3, <2>4, <2>5, <2>6, Zenon DEF DriverInv, Silent
<1> QED BY <1>1, <1>2, <1>3, <1>4, <1>5, <1>6, <1>7, <1>8, SMTT(30) DEF Next

\* The invariant holds, unless two contexts stop the same channel.
THEOREM DriverSafe ==
  ASSUME OneStopperEach
  PROVE  Spec => []DriverInv
<1>1. Init => DriverInv
  BY DriverInitOK, Zenon
<1>2. DriverInv /\ [Next]_vars => DriverInv'
  BY DriverStep, Zenon
<1> QED BY <1>1, <1>2, PTL DEF Spec

\* Callbacks tell the truth, for all channels, clients and wherever the ids wrap.
THEOREM CallbacksHold ==
  ASSUME OneStopperEach
  PROVE  Spec => []CallbacksTruthful
<1>1. DriverInv => CallbacksTruthful
  <2> SUFFICES ASSUME DriverInv, NEW i \in DOMAIN hist
               PROVE  /\ TypeOK
                      /\ hist[i].blocks <= Finished(i) /\ hist[i].completes <= 1
                      /\ hist[i].completes = 1 =>
                           /\ retired >= hist[i].to
                           /\ hist[i].blocks = IF hist[i].callback = "block" THEN hist[i].to - hist[i].from ELSE 0
    BY ZenonT(60) DEF CallbacksTruthful, DriverInv, Types
  <2>1. hist \in Seq(Transfer) /\ TypeOK /\ isr \in IsrType /\ retired \in Nat
    BY DriverAssumption, SMTT(30) DEF DriverInv, Types, TypeOK
  <2>2. i \in 1..Len(hist) /\ hist[i] \in Transfer
    BY <2>1
  <2>3. TransferOK(i) /\ IsrOK
    BY <2>2, Zenon DEF DriverInv
  <2>4. /\ hist[i].blocks \in Nat /\ hist[i].completes \in Nat
        /\ hist[i].from \in Nat /\ hist[i].to \in Nat
    BY <2>2, Zenon DEF Transfer
  <2>5. isr.blocks \in Nat
    BY <2>1, SMTT(30) DEF IsrType
  <2>6. /\ hist[i].blocks <= BlocksDue(i) /\ hist[i].completes <= EndsDue(i)
        /\ BlocksDue(i) \in Nat /\ EndsDue(i) \in Nat
    BY <2>4, <2>5, SMTT(30) DEF BlocksDue, EndsDue
  <2>7. Finished(i) \in Int
    BY <2>1, <2>4, SMTT(30) DEF Finished
  <2>8. hist[i].blocks <= Finished(i) /\ hist[i].completes <= 1
    BY <2>3, <2>4, <2>6, <2>7 DEF TransferOK
  <2>9. ASSUME hist[i].completes = 1
        PROVE  /\ retired >= hist[i].to
               /\ hist[i].blocks = IF hist[i].callback = "block" THEN hist[i].to - hist[i].from ELSE 0
    <3>1. ~InBatch(i)
      BY <2>3, <2>9, SMTT(30) DEF InBatch, IsrOK
    <3>2. EndsDue(i) = 1 /\ BlocksDue(i) = hist[i].blocks
      BY <2>4, <2>9, <3>1, SMTT(30) DEF EndsDue, BlocksDue
    <3> QED BY <2>3, <3>2, Zenon DEF TransferOK
  <2> QED BY <2>1, <2>8, <2>9, Zenon
<1> QED BY <1>1, DriverSafe, PTL

\* The copies from..to that serial number r has reached.
LEMMA Reached ==
  ASSUME NEW from \in Nat, NEW to \in Nat, NEW r \in Nat, from <= to, NEW x,
         x = IF r >= to THEN to - from + 1 ELSE IF r < from THEN 0 ELSE r - from + 1
  PROVE  x \in 0..(to - from + 1) /\ \A i \in 0..(to - from) : r >= from + i <=> i < x
<1>1. CASE r >= to
  BY <1>1
<1>2. CASE r < from
  BY <1>2
<1>3. CASE r >= from /\ r < to
  BY <1>3, SMTT(30)
<1> QED BY <1>1, <1>2, <1>3, SMTT(30)

\* get_status is exact at any moment.
THEOREM StatusHolds ==
  ASSUME OneStopperEach
  PROVE  Spec => []StatusExact
<1>1. DriverInv => StatusExact
  <2> SUFFICES ASSUME DriverInv, NEW c \in Channels, chan[c].busy
               PROVE  PendingBlocks(chan[c], IdOf(retired))
                        = hist[chan[c].xfer].to - hist[chan[c].xfer].from + 1 - Finished(chan[c].xfer)
    BY Zenon DEF StatusExact
  <2>1. PICK k \in 1..Len(hist) : k = chan[c].xfer /\ Recorded(c, k) /\ TransferOK(k)
    <3>1. ChannelOK(c) /\ \A i \in 1..Len(hist) : TransferOK(i)
      BY Zenon DEF DriverInv
    <3> QED BY <3>1, Zenon DEF ChannelOK
  <2>2. /\ hist[k].from \in Nat /\ hist[k].to \in Nat /\ retired \in Nat
        /\ retired \in 0..MaxCopies /\ issued \in Nat /\ issued <= MaxCopies
    <3>1. hist[k] \in Transfer /\ issued \in 0..MaxCopies /\ retired \in 0..issued
      BY DEF DriverInv, Types, TypeOK
    <3>2. hist[k].from \in Nat /\ hist[k].to \in Nat
      BY <3>1, Zenon DEF Transfer
    <3> QED BY <3>1, <3>2, DriverAssumption
  <2>3. hist[k].from \in 1..hist[k].to /\ hist[k].to <= MaxCopies
    <3>1. hist[k].from \in 1..hist[k].to /\ hist[k].to <= issued
      BY <2>1, Zenon DEF TransferOK
    <3> QED BY ONLY <2>2, <3>1, DriverAssumption
  <2>4. chan[c].first = IdOf(hist[k].from) /\ chan[c].count = hist[k].to - hist[k].from + 1
    BY <2>1, Zenon DEF Recorded
  <2>5. PICK n \in Nat : n = hist[k].to - hist[k].from + 1
    BY <2>2, <2>3
  <2>6. PICK f \in 0..n : f = Finished(k) /\ \A i \in 0..n - 1 : retired >= hist[k].from + i <=> i < f
    <3>1. Finished(k) = IF retired >= hist[k].to THEN hist[k].to - hist[k].from + 1
                        ELSE IF retired < hist[k].from THEN 0 ELSE retired - hist[k].from + 1
      BY Zenon DEF Finished
    <3>2. hist[k].from <= hist[k].to
      BY <2>2, <2>3
    <3>3. /\ Finished(k) \in 0..(hist[k].to - hist[k].from + 1)
          /\ \A i \in 0..(hist[k].to - hist[k].from) : retired >= hist[k].from + i <=> i < Finished(k)
      <4>1. PICK from \in Nat, to \in Nat, done \in Nat, x \in {Finished(k)} :
              from = hist[k].from /\ to = hist[k].to /\ done = retired /\ x = Finished(k)
        BY ONLY <2>2, Zenon
      <4>2. from <= to /\ x = IF done >= to THEN to - from + 1 ELSE IF done < from THEN 0 ELSE done - from + 1
        BY ONLY <3>1, <3>2, <4>1, Zenon
      <4>3. x \in 0..(to - from + 1) /\ \A i \in 0..(to - from) : done >= from + i <=> i < x
        BY ONLY <4>2, Reached, from \in Nat, to \in Nat, done \in Nat, SMTT(30)
      <4> QED BY ONLY <4>1, <4>3, Zenon
    <3>4. n - 1 = hist[k].to - hist[k].from
      BY <2>2, <2>5, SMTT(30)
    <3> QED BY <2>5, <3>3, <3>4, Zenon
  <2>7. ASSUME NEW i \in 0..n - 1
        PROVE  ~Retired(IdOf(retired), (chan[c].first + i) % IdMod) <=> i >= f
    <3>1. /\ hist[k].from \in 0..MaxCopies /\ i \in Nat /\ hist[k].from + i <= MaxCopies
          /\ hist[k].from + i \in 0..MaxCopies
      <4>1. \A f0, t0, n0, m0 \in Nat : \A i0 \in 0..n0 - 1 :
              f0 \in 1..t0 /\ t0 <= m0 /\ n0 = t0 - f0 + 1 =>
                f0 \in 0..m0 /\ i0 \in Nat /\ f0 + i0 <= m0 /\ f0 + i0 \in 0..m0
        OBVIOUS
      <4>2. MaxCopies \in Nat
        BY DriverAssumption, Zenon
      <4> QED BY <2>2, <2>3, <2>5, <4>1, <4>2, ZenonT(60)
    <3>2. (chan[c].first + i) % IdMod = IdOf(hist[k].from + i)
      BY <2>4, <3>1, IdNext, Zenon
    <3>3. Retired(IdOf(retired), (chan[c].first + i) % IdMod) <=> retired >= hist[k].from + i
      BY <2>2, <3>1, <3>2, RetiredMeans, Zenon
    <3>4. retired >= hist[k].from + i <=> i < f
      BY <2>6, Zenon
    <3> QED BY <3>1, <3>3, <3>4, SMTT(30)
  <2>8. {i \in 0..chan[c].count - 1 : ~Retired(IdOf(retired), (chan[c].first + i) % IdMod)} = f..(n - 1)
    <3>1. chan[c].count = n
      BY <2>4, <2>5, Zenon
    <3> QED BY <2>7, <3>1
  <2>9. Cardinality(f..(n - 1)) = n - f
    <3>1. f \in Int /\ n - 1 \in Int
      OBVIOUS
    <3>2. Cardinality(f..(n - 1)) = IF f > n - 1 THEN 0 ELSE (n - 1) - f + 1
      BY <3>1, FS_Interval, Zenon
    <3> QED BY <3>2
  <2>10. PendingBlocks(chan[c], IdOf(retired)) = n - f
    BY <2>8, <2>9, Zenon DEF PendingBlocks
  <2>11. k = chan[c].xfer
    BY <2>1, Zenon
  <2>12. Finished(chan[c].xfer) = f
    BY <2>6, <2>11, Zenon DEF Finished
  <2>13. hist[chan[c].xfer].to - hist[chan[c].xfer].from + 1 = n
    BY <2>5, <2>11, ZenonT(60)
  <2>14. PICK to \in Int, from \in Int : to = hist[chan[c].xfer].to /\ from = hist[chan[c].xfer].from
    BY ONLY <2>2, <2>11, SMTT(30)
  <2>15. to - from + 1 = n
    BY ONLY <2>13, <2>14, Zenon
  <2>16. n - f = to - from + 1 - f
    BY ONLY <2>15, n \in Nat, f \in 0..n, to \in Int, from \in Int, SMTT(30)
  <2> QED BY ONLY <2>10, <2>12, <2>14, <2>16, Zenon
<1> QED BY <1>1, DriverSafe, PTL

\* A launched transfer is busy until it has retired and was reported or stopped.
THEOREM LaunchedHolds ==
  ASSUME OneStopperEach
  PROVE  Spec => []LaunchedIsBusy
<1>1. DriverInv => LaunchedIsBusy
  <2> SUFFICES ASSUME DriverInv, NEW c \in Channels, chan[c].xfer # 0,
                      \/ retired < hist[chan[c].xfer].to
                      \/ ~hist[chan[c].xfer].stopped /\ ~hist[chan[c].xfer].reported
               PROVE  chan[c].busy /\ chan[c].last = IdOf(hist[chan[c].xfer].to)
    BY Zenon DEF LaunchedIsBusy
  <2>1. PICK k \in 1..Len(hist) :
          /\ k = chan[c].xfer
          /\ chan[c].busy => Recorded(c, k)
          /\ ~chan[c].busy => Settled(k)
    <3>1. ChannelOK(c)
      BY Zenon DEF DriverInv
    <3> QED BY <3>1, Zenon DEF ChannelOK
  <2>2. hist[k].to \in Nat /\ retired \in Nat
    <3>1. hist[k] \in Transfer /\ retired \in Nat
      BY DriverAssumption, SMTT(30) DEF DriverInv, Types, TypeOK
    <3> QED BY <3>1, ZenonT(60) DEF Transfer
  <2>3. chan[c].busy
    BY ONLY <2>1, <2>2, \/ retired < hist[chan[c].xfer].to
                        \/ ~hist[chan[c].xfer].stopped /\ ~hist[chan[c].xfer].reported
       DEF Settled
  <2> QED BY <2>1, <2>3, Zenon DEF Recorded
<1> QED BY <1>1, DriverSafe, PTL

\* Once a stop has marked the channel no callbacks are found for its transfer.
THEOREM StopHolds ==
  ASSUME OneStopperEach
  PROVE  Spec => StopSilences
<1>1. ASSUME DriverInv, [Next]_vars
      PROVE  [\A i \in DOMAIN hist :
                hist[i].stopped => BlocksDue(i)' = BlocksDue(i) /\ EndsDue(i)' = EndsDue(i)]_vars
  <2>1. Silent
    BY <1>1, DriverStep, Zenon
  <2>2. DOMAIN hist = 1..Len(hist)
    BY <1>1 DEF DriverInv, Types
  <2> QED BY <2>1, <2>2, Zenon DEF Silent
<1> QED BY <1>1, DriverSafe, PTL DEF Spec, StopSilences
=============================================================================
