----------------------------- MODULE UartLoader -----------------------------
(***************************************************************************)
(* The UART SRAM loader rtl/platform/soc_uart_sram_loader.sv, the host     *)
(* script bin/uart_sram_load.py that talks to it, and the line between     *)
(* them, on which a byte may be lost (the receiver drops one whose stop    *)
(* bit is wrong).  The loader holds the core in reset while it is active.  *)
(*                                                                         *)
(* A byte is a number below ByteMod, the commands are three of them, and   *)
(* address and length are sent as AddrBytes and LenBytes digits, lowest    *)
(* first.  A byte takes thousands of cycles on the line and a memory       *)
(* access a few, so no byte arrives during one.  The host's timeout is     *)
(* twice the loader's: it expires when the loader has nothing left to say. *)
(***************************************************************************)
EXTENDS Integers, Sequences

CONSTANTS
  ByteMod, AddrBytes, LenBytes,  \* 256, 4 and 2 in the source
  Image, ChunkSize,              \* what the host loads, and in which pieces
  LoadAddrs,                     \* the addresses a user gives (--addr)
  Memory,                        \* the addresses of the SRAM
  MaxLost,                       \* bound: bytes lost and restarts under a command
  MaxTries                       \* bound: runs of the script

CmdPing == 1

CmdWrite == 2

CmdGo == 3

ASSUME LoaderAssumption ==
  /\ ByteMod \in Nat /\ ByteMod > 3 /\ AddrBytes \in Nat \ {0} /\ LenBytes \in Nat \ {0}
  /\ ChunkSize \in 1..(ByteMod^LenBytes - 1)
  /\ Image \in Seq(0..(ByteMod - 1))
  /\ LoadAddrs \subseteq Nat
  /\ \A a \in LoadAddrs : a + Len(Image) <= ByteMod^AddrBytes

\* The laws of powers, of which the provers know nothing.
ASSUME PowersAssumption ==
  /\ ByteMod^0 = 1 /\ ByteMod^1 = ByteMod
  /\ \A i, j \in 0..(AddrBytes + LenBytes) :
       ByteMod^i \in Nat \ {0} /\ ByteMod^(i + j) = ByteMod^i * ByteMod^j

VARIABLES
  state, index,          \* state_q; which digit of the address or length is due
  active, done,          \* active_q, done_q
  addr, len, byte, resp, \* the registers of these names
  release, seen_busy,    \* pending_release_q, release_seen_busy_q
  error,                 \* mem_error_q
  tx, tx_byte,           \* the transmitter: idle, start (tx_start_q), busy
  mem,                   \* what has been written to the SRAM
  down, up,              \* the line: bytes to the loader, responses to the host
  pc, base, offset,      \* the host: what it does next, where it loads, and how
                         \* much it has sent
  lost, disturbed,       \* how many bytes were lost or restarts came under a command,
                         \* and whether one of them was not the loss of a data byte
  tries                  \* how often the script has been started

commandVars == <<addr, len, byte, error, mem>>
txVars == <<tx, tx_byte, up>>
releaseVars == <<active, done, release, seen_busy>>
hostVars == <<pc, base, offset, tries>>
lossVars == <<lost, disturbed>>

loaderVars == <<state, index, resp, commandVars, txVars, releaseVars, down, hostVars, lossVars>>

Ack == "ACK"

Nak == "NAK"

Unwritten == ByteMod

LoaderInit ==
  /\ state = "Idle" /\ index = 0 /\ resp = Ack
  /\ active = FALSE /\ done = FALSE /\ release = FALSE /\ seen_busy = FALSE
  /\ addr = 0 /\ len = 0 /\ byte = 0 /\ error = FALSE
  /\ mem = [a \in Memory |-> Unwritten]
  /\ tx = "idle" /\ tx_byte = Ack
  /\ down = <<>> /\ up = <<>>
  /\ pc = "ping" /\ base \in LoadAddrs /\ offset = 0 /\ tries = 1
  /\ lost = 0 /\ disturbed = FALSE

-----------------------------------------------------------------------------
\* x with digit i, to the base ByteMod, set to d.
WithDigit(x, i, d) ==
  (x - ((x \div ByteMod^i) % ByteMod) * ByteMod^i) + d * ByteMod^i

Digits(x, n) == [i \in 1..n |-> (x \div ByteMod^(i - 1)) % ByteMod]

Activate ==
  /\ ~active /\ ~done
  /\ active' = TRUE
  /\ UNCHANGED <<state, index, resp, commandVars, txVars, done, release, seen_busy, down,
                 hostVars, lossVars>>

Answer(r) == state' = "Resp" /\ resp' = r

\* The loader takes a byte: the states that wait for one, and the others,
\* where it is not looked at.
IdleByte(b) ==
  /\ state = "Idle"
  /\ error' = FALSE
  /\ release' = (b = CmdGo)
  /\ index' = 0
  /\ \/ b \in {CmdPing, CmdGo} /\ Answer(Ack)
     \/ b = CmdWrite /\ state' = "Addr" /\ UNCHANGED resp
     \/ b \notin {CmdPing, CmdGo, CmdWrite} /\ Answer(Nak)
  /\ UNCHANGED <<addr, len, byte>>

AddrByte(b) ==
  /\ state = "Addr"
  /\ addr' = WithDigit(addr, index, b)
  /\ IF index = AddrBytes - 1 THEN state' = "Len" /\ index' = 0
     ELSE index' = index + 1 /\ UNCHANGED state
  /\ UNCHANGED <<len, byte, error, release, resp>>

LenByte(b) ==
  /\ state = "Len"
  /\ len' = WithDigit(len, index, b)
  /\ IF index < LenBytes - 1 THEN index' = index + 1 /\ UNCHANGED <<state, resp>>
     ELSE /\ index' = 0
          /\ IF len' = 0 THEN Answer(Ack) ELSE state' = "Data" /\ UNCHANGED resp
  /\ UNCHANGED <<addr, byte, error, release>>

DataByte(b) ==
  /\ state = "Data"
  /\ byte' = b
  /\ state' = "MemReq"
  /\ UNCHANGED <<index, addr, len, error, release, resp>>

IgnoredByte ==
  /\ state \in {"Resp", "Release"} \/ ~active
  /\ UNCHANGED <<state, index, addr, len, byte, error, release, resp>>

Receive ==
  /\ down # <<>> /\ tx # "start"
  /\ \/ active /\ (\/ IdleByte(Head(down)) \/ AddrByte(Head(down))
                   \/ LenByte(Head(down)) \/ DataByte(Head(down)))
     \/ IgnoredByte
  /\ down' = Tail(down)
  /\ UNCHANGED <<mem, txVars, active, done, seen_busy, hostVars, lossVars>>

MemGrant ==
  /\ state = "MemReq"
  /\ state' = "MemRsp"
  /\ mem' = IF addr \in Memory THEN [mem EXCEPT ![addr] = byte] ELSE mem
  /\ UNCHANGED <<index, resp, addr, len, byte, error, txVars, releaseVars, down, hostVars,
                 lossVars>>

\* The answer that forgets the errors of earlier bytes.
FinalAnswerLast(failed) == IF addr \notin Memory THEN Nak ELSE Ack

FinalAnswer(failed) == IF failed THEN Nak ELSE Ack

MemRespond ==
  LET failed == error \/ addr \notin Memory
  IN  /\ state = "MemRsp"
      /\ error' = failed
      /\ addr' = (addr + 1) % ByteMod^AddrBytes
      /\ len' = len - 1
      /\ IF len = 1 THEN Answer(FinalAnswer(failed))
         ELSE state' = "Data" /\ UNCHANGED resp
      /\ UNCHANGED <<index, byte, mem, txVars, releaseVars, down, hostVars, lossVars>>

Respond ==
  /\ state = "Resp" /\ tx = "idle"
  /\ tx' = "start"
  /\ seen_busy' = FALSE
  /\ state' = IF release THEN "Release" ELSE "Idle"
  /\ UNCHANGED <<index, resp, commandVars, tx_byte, up, active, done, release, down,
                 hostVars, lossVars>>

\* The transmitter takes resp_q at the edge after tx_start_q rises.
TxStart ==
  /\ tx = "start"
  /\ tx' = "busy" /\ tx_byte' = resp
  /\ UNCHANGED <<state, index, resp, commandVars, up, releaseVars, down, hostVars, lossVars>>

\* The byte is out.  It takes longer than the loader needs to see it start;
\* if the pin has gone to the other UART meanwhile the host gets nothing.
TxEnd ==
  /\ tx = "busy" /\ (state = "Release" => seen_busy)
  /\ tx' = "idle"
  /\ up' = IF active THEN Append(up, tx_byte) ELSE up
  /\ UNCHANGED <<state, index, resp, commandVars, tx_byte, releaseVars, down, hostVars,
                 lossVars>>

Sent == seen_busy /\ tx # "busy"

Release ==
  /\ state = "Release"
  /\ seen_busy' = (seen_busy \/ tx = "busy")
  /\ IF Sent THEN active' = FALSE /\ done' = TRUE /\ state' = "Idle"
     ELSE UNCHANGED <<active, done, state>>
  /\ UNCHANGED <<index, resp, commandVars, txVars, release, down, hostVars, lossVars>>

\* A watchdog that does not run while data is due.
AwaitingHeader == state \in {"Addr", "Len"}

AwaitingHost == state \in {"Addr", "Len", "Data"}

\* host_timeout: nothing has come for a second.
Timeout ==
  /\ AwaitingHost /\ down = <<>> /\ tx # "start"
  /\ Answer(Nak)
  /\ UNCHANGED <<index, commandVars, txVars, releaseVars, down, hostVars, lossVars>>

Lose ==
  /\ down # <<>> /\ lost < MaxLost
  /\ down' = Tail(down)
  /\ lost' = lost + 1
  /\ disturbed' = (disturbed \/ state \notin {"Data", "MemReq", "MemRsp"})
  /\ UNCHANGED <<state, index, resp, commandVars, txVars, releaseVars, hostVars>>

-----------------------------------------------------------------------------
Chunk == SubSeq(Image, offset + 1, IF offset + ChunkSize < Len(Image)
                                   THEN offset + ChunkSize ELSE Len(Image))

Packet ==
  <<CmdWrite>> \o Digits(base + offset, AddrBytes) \o Digits(Len(Chunk), LenBytes) \o Chunk

\* write_all, then wait for the answer.
Send ==
  /\ \/ pc = "ping" /\ pc' = "pinged" /\ down' = Append(down, CmdPing)
     \/ pc = "chunk" /\ pc' = "written" /\ down' = down \o Packet
     \/ pc = "go" /\ pc' = "gone" /\ down' = Append(down, CmdGo)
  /\ UNCHANGED <<state, index, resp, commandVars, txVars, releaseVars, base, offset, tries,
                 lossVars>>

Waiting == pc \in {"pinged", "written", "gone"}

\* expect_ack: what follows an ACK; anything else raises.
Expect ==
  /\ Waiting /\ up # <<>>
  /\ up' = Tail(up)
  /\ IF Head(up) # Ack THEN pc' = "failed" /\ UNCHANGED offset
     ELSE LET sent == offset + Len(Chunk)
          IN  \E go \in {"go", "loaded"} :
              /\ offset' = IF pc = "written" THEN sent ELSE offset
              /\ pc' = CASE pc = "pinged"  -> "chunk"
                         [] pc = "written" -> IF sent < Len(Image) THEN "chunk" ELSE go
                         [] pc = "gone"    -> "released"
  /\ UNCHANGED <<state, index, resp, commandVars, tx, tx_byte, releaseVars, down, base, tries,
                 lossVars>>

Quiet == down = <<>> /\ up = <<>> /\ state = "Idle" /\ tx = "idle" /\ (active \/ done)

HostTimeout ==
  /\ Waiting /\ Quiet
  /\ pc' = "failed"
  /\ UNCHANGED <<state, index, resp, commandVars, txVars, releaseVars, down, base, offset,
                 tries, lossVars>>

\* The user starts the script again, once it has failed or, with --no-go, loaded the
\* image, or in the middle of a command.  Opening the port flushes both directions.
Retry ==
  /\ pc \in {"failed", "loaded"} \/ Waiting
  /\ tries < MaxTries /\ (Waiting => lost < MaxLost)
  /\ tries' = tries + 1
  /\ pc' = "ping" /\ base' \in LoadAddrs /\ offset' = 0
  /\ down' = <<>> /\ up' = <<>>
  /\ disturbed' = (disturbed \/ Waiting) /\ lost' = IF Waiting THEN lost + 1 ELSE lost
  /\ UNCHANGED <<state, index, resp, commandVars, tx, tx_byte, releaseVars>>

Loader ==
  Activate \/ Receive \/ MemGrant \/ MemRespond \/ Respond \/ TxStart \/ TxEnd \/ Release \/ Timeout

Host == Send \/ Expect \/ HostTimeout

LoaderNext == Loader \/ Host \/ Retry \/ Lose

LoaderSpec == LoaderInit /\ [][LoaderNext]_loaderVars

LoaderFairSpec == LoaderSpec /\ WF_loaderVars(Loader) /\ WF_loaderVars(Host)

-----------------------------------------------------------------------------
(***************************************************************************)
(* What the host may conclude from its ACKs, unless a byte of a header was *)
(* lost (the protocol has no checksum) or the script restarted under a     *)
(* command (it does not tell an old answer from a new one): the chunks it  *)
(* counts as sent are in memory, byte for byte; and the core is released   *)
(* only for a complete image.                                              *)
(***************************************************************************)
LoadedExactly ==
  ~disturbed =>
    /\ \A i \in 1..offset : base + i - 1 \in Memory /\ mem[base + i - 1] = Image[i]
    /\ done => offset = Len(Image)

\* The loader keeps the pin until its last answer is out, so the host that
\* asked for the release hears of it.
AnswerSentWhole == tx # "idle" => active

\* soc_uart_sram_loader and uart_sram_load.py: what the host counts as loaded is in
\* memory, and the loader keeps the pin until its last answer is out.
LoadTruthful == LoadedExactly /\ AnswerSentWhole

\* Neither side waits for the other for ever, whatever was lost.
NobodyStuck == (Waiting ~> ~Waiting) /\ (state # "Idle" ~> state = "Idle")
=============================================================================
