--------------------------- MODULE NativeAdapters ---------------------------
(***************************************************************************)
(* The adapters of the two cores whose native bus is neither OBI nor AHB:  *)
(* rtl/cores/corejack_picorv32_socket_adapter.sv, one memory port for      *)
(* fetches and data, and rtl/cores/corejack_serv_socket_adapter.sv, a      *)
(* fetch and a data bus.  Both cores hold a request until it is answered;  *)
(* the adapter must put it on the OBI port once.                           *)
(***************************************************************************)
EXTENDS Integers, Sequences

CONSTANTS
  Accesses,        \* [port, we, addr]: what a core asks for
  NoAccess         \* nothing asked

Ports == {"instr", "data"}

VARIABLES
  kind,            \* "picorv32" or "serv"
  want,            \* native port -> the access it holds, or NoAccess
  outstanding_q,   \* native port -> granted and not answered
  instr_q, write_q,\* picorv32: outstanding_instr_q, outstanding_write_q
  bus,             \* OBI port -> accesses granted and not answered, oldest first
  got              \* native port -> the access answered at the last edge, and the data

nativeVars == <<kind, want, outstanding_q, instr_q, write_q, bus, got>>

\* picorv32 has one native port, called "data" here.
Native == IF kind = "serv" THEN Ports ELSE {"data"}

NativeInit ==
  /\ kind \in {"picorv32", "serv"}
  /\ want = [p \in Ports |-> NoAccess]
  /\ outstanding_q = [p \in Ports |-> FALSE]
  /\ instr_q = FALSE /\ write_q = FALSE
  /\ bus = [p \in Ports |-> <<>>]
  /\ got = [p \in Ports |-> NoAccess]

\* instr_req_o and data_req_o: the native port whose request the OBI port carries.
\* picorv32: a fetch is an access with mem_instr and no strobe (mem_is_instr).
ObiPort(n) ==
  IF kind = "serv" THEN n
  ELSE IF want[n].port = "instr" /\ ~want[n].we THEN "instr" ELSE "data"

\* A request that stays up after its grant.
RequestsHeld(n) == want[n] # NoAccess

Requests(n) == want[n] # NoAccess /\ ~outstanding_q[n]

\* in.gnt and in.rvalid are the OBI ports that grant, and that answer.
Granted(in, n) == Requests(n) /\ ObiPort(n) \in in.gnt

\* mem_ready; ibus_ack and dbus_ack.
Answered(in, n) ==
  IF kind = "serv" THEN n \in in.rvalid /\ want[n] # NoAccess
  ELSE \/ instr_q /\ "instr" \in in.rvalid
       \/ ~instr_q /\ outstanding_q[n] /\ "data" \in in.rvalid

\* mem_rdata; ibus_rdata and dbus_rdata: the answer of the port, as the access it
\* answers, or zero for a write of picorv32.
Rdata(n) ==
  IF kind = "serv" THEN Head(bus[n])
  ELSE IF instr_q THEN Head(bus["instr"]) ELSE IF write_q THEN NoAccess ELSE Head(bus["data"])

\* The outstanding flags: an answer wins over a grant.  The flag of serv falls with
\* every rvalid, that of picorv32 with mem_ready.
Clears(in, n) == IF kind = "serv" THEN n \in in.rvalid ELSE Answered(in, n)

Outstanding(in, n) ==
  IF Clears(in, n) THEN FALSE ELSE IF Granted(in, n) THEN TRUE ELSE outstanding_q[n]

Edge(in) ==
  /\ outstanding_q' = [n \in Ports |-> IF n \in Native THEN Outstanding(in, n) ELSE FALSE]
  /\ IF kind = "serv" THEN UNCHANGED <<instr_q, write_q>>
     ELSE /\ instr_q' = IF Answered(in, "data") THEN FALSE
                        ELSE IF Granted(in, "data") THEN ObiPort("data") = "instr" ELSE instr_q
          /\ write_q' = IF Answered(in, "data") THEN FALSE
                        ELSE IF Granted(in, "data") THEN want["data"].we ELSE write_q
  /\ bus' = [p \in Ports |->
       LET rest == IF p \in in.rvalid THEN Tail(bus[p]) ELSE bus[p]
           now == {n \in Native : Granted(in, n) /\ ObiPort(n) = p}
       IN  IF now = {} THEN rest ELSE Append(rest, want[CHOOSE n \in now : TRUE])]
  /\ want' = [n \in Ports |-> IF n \in Native /\ Answered(in, n) THEN NoAccess ELSE want[n]]
  /\ got' = [n \in Ports |-> IF n \in Native /\ Answered(in, n)
                             THEN [for |-> want[n], data |-> Rdata(n)] ELSE NoAccess]
  /\ UNCHANGED kind

\* A core presents an access and holds it.
Ask(n, a) ==
  /\ n \in Native /\ want[n] = NoAccess
  /\ kind = "serv" => a.port = n
  /\ want' = [want EXCEPT ![n] = a]
  /\ UNCHANGED <<kind, outstanding_q, instr_q, write_q, bus, got>>

\* rst_ni, with the path behind the ports drained before the core is let out.
Reset ==
  /\ want' = [p \in Ports |-> NoAccess]
  /\ outstanding_q' = [p \in Ports |-> FALSE]
  /\ instr_q' = FALSE /\ write_q' = FALSE
  /\ bus' = [p \in Ports |-> <<>>]
  /\ got' = [p \in Ports |-> NoAccess]
  /\ UNCHANGED kind

Asked == {ObiPort(n) : n \in {m \in Native : Requests(m)}}

Inputs == [gnt : SUBSET Asked, rvalid : SUBSET {p \in Ports : bus[p] # <<>>}]

NativeNext ==
  \/ \E in \in Inputs : Edge(in)
  \/ \E n \in Ports, a \in Accesses : Ask(n, a)
  \/ Reset

\* The ports grant and answer.
Cooperative == [gnt |-> Asked, rvalid |-> {p \in Ports : bus[p] # <<>>}]

NativeSpec == NativeInit /\ [][NativeNext]_nativeVars /\ WF_nativeVars(Edge(Cooperative))

-----------------------------------------------------------------------------
\* Both adapters: an access that a core holds until it is answered is on its port
\* exactly once, and the answer the core takes is the answer to it, also when the
\* two ports answer at different paces.
OnceAndOwn ==
  /\ \A p \in Ports :
       bus[p] = LET under == {n \in Native : outstanding_q[n] /\ ObiPort(n) = p}
                IN  IF under = {} THEN <<>> ELSE <<want[CHOOSE n \in under : TRUE]>>
  /\ \A n \in Native : outstanding_q[n] => want[n] # NoAccess
  /\ \A n \in Native :
       got[n] # NoAccess => got[n].data = got[n].for \/ (kind = "picorv32" /\ got[n].for.we)

\* Both adapters: a core that asks is answered.
CoreAnswered == \A n \in Ports : (want[n] # NoAccess) ~> (want[n] = NoAccess)
=============================================================================
