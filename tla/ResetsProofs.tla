---------------------------- MODULE ResetsProofs ----------------------------
(***************************************************************************)
(* What holds of the two parts that hold a core in reset.  Of ResetBridge, *)
(* for every number of requests and resets: no handshake on the fabric     *)
(* side is withdrawn, torn writes keep their data, a core sees only its    *)
(* own answers, and nothing is left when the isolation window closes.  Of  *)
(* UartLoader, for every image and every number of losses and restarts:    *)
(* what the host counts as loaded is in memory.                            *)
(***************************************************************************)
EXTENDS ResetBridge, UartLoader, TLAPS

-----------------------------------------------------------------------------
(***************************************************************************)
(* What channel c has presented to the fabric, in order: what the fabric   *)
(* took, and then the copy of the bridge.                                  *)
(***************************************************************************)
Presented(c) == Len(seen[c]) + Unit(held[c] # None)

At(c, i) == IF i <= Len(seen[c]) THEN seen[c][i] ELSE held[c]

\* The core presents a request that the fabric has not been shown.
Fresh(c) == core[c] # None /\ (Isolate \/ held[c] = None)

\* The address channel of a side.
Addr(s) == IF s = "wr" THEN "aw" ELSE "ar"

Types ==
  /\ ndm \in BOOLEAN /\ rst \in BOOLEAN /\ init_q \in BOOLEAN
  /\ pending \in BOOLEAN /\ ack \in BOOLEAN /\ isolate_q \in BOOLEAN
  /\ core \in [Channels -> Nat] /\ held \in [Channels -> Nat]
  /\ iso_state \in [Sides -> {"normal", "hold", "drain", "isolate"}]
  /\ count \in [Channels -> Nat]
  /\ seen \in [Channels -> Seq(Nat)]
  /\ answered \in [Sides -> Nat]
  /\ rsp \in [Sides -> BOOLEAN]
  /\ waiting \in [Channels -> SUBSET Nat]
  /\ issued \in [Sides -> Requests]
  /\ resets \in 0..MaxResets

\* The reset, the window and axi_isolate.
WindowInv ==
  /\ ndm => ~rst
  /\ ~rst => core = Nothing
  /\ \A s \in Sides :
       /\ iso_state[s] \in {"drain", "isolate"} => isolate_q \/ ~rst
       /\ iso_state[s] = "hold" => held[Addr(s)] # None
       /\ held[Addr(s)] # None => iso_state[s] \in {"normal", "hold"}
       /\ iso_state[s] = "isolate" =>
            \A c \in ChannelsOf(s) : held[c] = None /\ count[c] = 0

\* What axi_isolate counts, and what the fabric still has to answer.
CountInv ==
  /\ \A s \in Sides :
       /\ count[Addr(s)] = Len(seen[Addr(s)]) + Unit(iso_state[s] = "hold") - answered[s]
       /\ \A c \in ChannelsOf(s) : /\ answered[s] <= Len(seen[c])
                                   /\ rsp[s] => answered[s] < Len(seen[c])
  /\ count["w"] = Len(seen["aw"]) + Unit(iso_state["wr"] = "hold") - Len(seen["w"])

\* Requests are presented in the order in which they were issued, none twice,
\* and the n-th W with the n-th AW.
OrderInv ==
  /\ \A c \in Channels :
       /\ \A i \in 1..Presented(c) : i <= At(c, i) /\ At(c, i) <= issued[SideOf(c)]
       /\ \A i, j \in 1..Presented(c) : i < j => At(c, i) < At(c, j)
       /\ core[c] <= issued[SideOf(c)]
       /\ Fresh(c) => \A i \in 1..Presented(c) : At(c, i) < core[c]
       /\ ~Isolate /\ held[c] # None => core[c] = held[c]
  /\ Presented("aw") = Presented("w")
  /\ \A i \in 1..Presented("aw") : At("aw", i) = At("w", i)
  /\ Fresh("aw") \/ Fresh("w") =>
       core["aw"] = core["w"] /\ (~Isolate => held["aw"] = None /\ held["w"] = None)

\* What the core waits for is what the fabric took in this life of the core and
\* has not answered.
WaitingInv ==
  \A c \in Channels :
    waiting[c] = IF Isolate THEN {}
                 ELSE {seen[c][i] : i \in (answered[SideOf(c)] + 1)..Len(seen[c])}

BridgeInv ==
  /\ Types /\ stalled = held
  /\ WindowInv /\ CountInv /\ OrderInv /\ WaitingInv

-----------------------------------------------------------------------------
(* Channels and sides, counting, and sequences.                             *)

\* Which channel belongs to which side.
LEMMA ChannelFacts ==
  /\ Channels = {"aw", "w", "ar"} /\ Sides = {"wr", "rd"}
  /\ SideOf("aw") = "wr" /\ SideOf("w") = "wr" /\ SideOf("ar") = "rd"
  /\ Addr("wr") = "aw" /\ Addr("rd") = "ar"
  BY Zenon DEF Channels, Sides, SideOf, Addr

\* A side and its address channel.
LEMMA SideFacts ==
  ASSUME NEW s \in Sides
  PROVE  /\ Addr(s) \in Channels /\ Addr(s) # "w" /\ SideOf(Addr(s)) = s
         /\ ChannelsOf(s) \ {"w"} = {Addr(s)} /\ Addr(s) \in ChannelsOf(s)
         /\ \A c \in ChannelsOf(s) : c \in Channels /\ SideOf(c) = s
  BY Zenon DEF ChannelsOf, Channels, Sides, SideOf, Addr

\* A channel is the W channel or the address channel of its side.
LEMMA ChannelSide ==
  ASSUME NEW c \in Channels
  PROVE  /\ SideOf(c) \in Sides /\ c \in ChannelsOf(SideOf(c))
         /\ c = "w" \/ c = Addr(SideOf(c))
  BY Zenon DEF ChannelsOf, Channels, Sides, SideOf, Addr

\* What Append adds to a sequence of requests.
LEMMA AppendFacts ==
  ASSUME NEW q \in Seq(Nat), NEW x \in Nat
  PROVE  /\ Append(q, x) \in Seq(Nat) /\ Len(Append(q, x)) = Len(q) + 1
         /\ \A i \in 1..Len(q) : Append(q, x)[i] = q[i]
         /\ \A i \in Nat : i = Len(q) + 1 => Append(q, x)[i] = x
OBVIOUS

-----------------------------------------------------------------------------
(* The registers at an edge.                                                *)

\* A channel at an edge, and the two address channels as axi_isolate sees them.
LEMMA ChannelEdge ==
  ASSUME Types, NEW ready, NEW take, NEW lift, Edge(ready, take, lift),
         NEW c \in Channels
  PROVE  /\ Mst(c) \in Nat
         /\ held'[c] = IF Fires(c, ready) THEN None ELSE Mst(c)
         /\ seen'[c] = IF Fires(c, ready) THEN Append(seen[c], Mst(c)) ELSE seen[c]
         /\ core'[c] = IF Accepts(c, ready) THEN None ELSE core[c]
         /\ Fires(c, ready) => Mst(c) # None
<1>1. core[c] \in Nat /\ held[c] \in Nat
  BY Zenon DEF Types
<1>2. Mst(c) \in Nat
  BY <1>1, Zenon DEF Mst, None
<1>3. /\ held'[c] = HeldAfter(c, ready)
      /\ seen'[c] = IF Fires(c, ready) THEN Append(seen[c], Mst(c)) ELSE seen[c]
      /\ core'[c] = IF Accepts(c, ready) THEN None ELSE core[c]
  BY Zenon DEF Edge
<1> QED BY <1>2, <1>3, Zenon DEF HeldAfter, Fires

\* What a channel has presented grows by the request that is fresh, and by nothing
\* else.
LEMMA PresentedEdge ==
  ASSUME Types, NEW ready, NEW take, NEW lift, Edge(ready, take, lift),
         NEW c \in Channels
  PROVE  /\ Presented(c) \in Nat /\ Presented(c)' \in Nat
         /\ Fresh(c) /\ ~Isolate => Presented(c)' = Presented(c) + 1
         /\ ~(Fresh(c) /\ ~Isolate) => Presented(c)' = Presented(c)
         /\ \A i \in 1..Presented(c) : At(c, i)' = At(c, i)
         /\ Fresh(c) /\ ~Isolate =>
              \A i \in Nat : i = Presented(c) + 1 => At(c, i)' = core[c]
<1> DEFINE n == Len(seen[c])
<1>1. seen[c] \in Seq(Nat) /\ core[c] \in Nat /\ held[c] \in Nat /\ n \in Nat
  BY DEF Types
<1>2. /\ Mst(c) \in Nat
      /\ held'[c] = IF Fires(c, ready) THEN None ELSE Mst(c)
      /\ seen'[c] = IF Fires(c, ready) THEN Append(seen[c], Mst(c)) ELSE seen[c]
      /\ Fires(c, ready) => Mst(c) # None
  BY ChannelEdge, Zenon
<1>3. /\ Len(Append(seen[c], Mst(c))) = n + 1
      /\ \A i \in 1..n : Append(seen[c], Mst(c))[i] = seen[c][i]
      /\ \A i \in Nat : i = n + 1 => Append(seen[c], Mst(c))[i] = Mst(c)
  BY <1>1, <1>2, AppendFacts
<1>4. /\ Presented(c) = IF held[c] # None THEN n + 1 ELSE n
      /\ Presented(c)' = IF held'[c] # None THEN Len(seen'[c]) + 1 ELSE Len(seen'[c])
  <2>1. Len(seen'[c]) \in Nat
    BY <1>1, <1>2, <1>3
  <2>2. /\ Presented(c) = n + (IF held[c] # None THEN 1 ELSE 0)
        /\ Presented(c)' = Len(seen'[c]) + (IF held'[c] # None THEN 1 ELSE 0)
    BY Zenon DEF Presented, Unit
  <2>3. \A k, x \in Nat : k + (IF x # None THEN 1 ELSE 0) = IF x # None THEN k + 1 ELSE k
    OBVIOUS
  <2>4. held[c] \in Nat /\ held'[c] \in Nat
    BY <1>1, <1>2 DEF None
  <2> QED BY <1>1, <2>1, <2>2, <2>3, <2>4, Zenon
<1>5. /\ Fresh(c) /\ ~Isolate => held[c] = None /\ Mst(c) = core[c] /\ Mst(c) # None
      /\ ~(Fresh(c) /\ ~Isolate) => Mst(c) = held[c]
  BY Zenon DEF Fresh, Mst, None
<1>6. \A i : At(c, i)' = IF i <= Len(seen'[c]) THEN seen'[c][i] ELSE held'[c]
  BY Zenon DEF At
<1>7. CASE Fires(c, ready)
  <2>1. /\ held'[c] = None /\ Len(seen'[c]) = n + 1 /\ Presented(c)' = n + 1
        /\ \A i \in 1..n : seen'[c][i] = seen[c][i]
        /\ \A i \in Nat : i = n + 1 => seen'[c][i] = Mst(c)
    BY <1>2, <1>3, <1>4, <1>7, Zenon
  <2>2. CASE Fresh(c) /\ ~Isolate
    BY <1>1, <1>4, <1>5, <1>6, <2>1, <2>2, SMTT(30) DEF At
  <2>3. CASE ~(Fresh(c) /\ ~Isolate)
    BY <1>1, <1>2, <1>4, <1>5, <1>6, <1>7, <2>1, <2>3 DEF At
  <2> QED BY <2>2, <2>3, Zenon
<1>8. CASE ~Fires(c, ready)
  <2>1. held'[c] = Mst(c) /\ seen'[c] = seen[c]
    BY <1>2, <1>8, Zenon
  <2>2. CASE Fresh(c) /\ ~Isolate
    BY <1>1, <1>4, <1>5, <1>6, <2>1, <2>2 DEF At
  <2>3. CASE ~(Fresh(c) /\ ~Isolate)
    BY <1>1, <1>4, <1>5, <1>6, <2>1, <2>3 DEF At
  <2> QED BY <2>2, <2>3, Zenon
<1> QED BY <1>7, <1>8, Zenon

\* The window at an edge: only a reset opens it, and it closes only when both
\* sides are isolated.
LEMMA WindowEdge ==
  ASSUME Types, WindowInv, NEW ready, NEW take, NEW lift \in BOOLEAN,
         Edge(ready, take, lift)
  PROVE  /\ {ndm', rst', init_q', pending', ack', isolate_q'} \subseteq BOOLEAN
         /\ ndm' => ~rst'
         /\ rst => rst'
         /\ isolate_q' <=> Isolate
         /\ ~Isolate => ~Isolate'
         /\ Isolate /\ ~Isolate' => \A s \in Sides : iso_state'[s] = "isolate"
<1>1. /\ ndm \in BOOLEAN /\ rst \in BOOLEAN /\ init_q \in BOOLEAN
      /\ pending \in BOOLEAN /\ isolate_q \in BOOLEAN
  BY Zenon DEF Types
<1>2. Isolate \in BOOLEAN
  BY Zenon DEF Isolate
<1>3. /\ ndm' = ndm /\ init_q' = rst /\ ack' = (pending /\ rst /\ ~init_q)
      /\ pending' = (ndm \/ (pending /\ ~(rst /\ ~init_q)))
      /\ isolate_q' = Isolate /\ rst' = (rst \/ (lift /\ ~ndm))
  BY Zenon DEF Edge, PendingAfter
<1>4. {ndm', rst', init_q', pending', ack', isolate_q'} \subseteq BOOLEAN
  BY <1>1, <1>2, <1>3, Zenon
<1>5. (ndm' => ~rst') /\ (rst => rst') /\ (isolate_q' <=> Isolate)
  BY <1>1, <1>2, <1>3, Zenon DEF WindowInv
<1>6. ~Isolate => ~Isolate'
  <2> SUFFICES ASSUME ~Isolate PROVE ~Isolate'
    BY Zenon
  <2>1. rst /\ ~pending /\ ~ndm
    BY Zenon DEF Isolate, WindowInv
  <2>2. rst' /\ ~pending' /\ ~isolate_q'
    BY <1>3, <2>1, Zenon
  <2> QED BY <2>2, Zenon DEF Isolate
<1>7. Isolate /\ ~Isolate' => \A s \in Sides : iso_state'[s] = "isolate"
  <2> SUFFICES ASSUME Isolate, ~Isolate' PROVE \A s \in Sides : iso_state'[s] = "isolate"
    BY Zenon
  <2>1. isolate_q'
    BY <1>5, Zenon
  <2>2. Isolated'
    BY <2>1, Zenon DEF Isolate
  <2> QED BY <2>2, Zenon DEF Isolated
<1> QED BY <1>4, <1>5, <1>6, <1>7, Zenon

\* A side of axi_isolate at an edge.
LEMMA SideEdge ==
  ASSUME Types, NEW ready, NEW take, NEW lift, Edge(ready, take, lift),
         NEW s \in Sides, NEW a, a = Addr(s)
  PROVE  /\ Pushes(s) <=> iso_state[s] = "normal" /\ Mst(a) # None
         /\ Fires(a, ready) => iso_state[s] \in {"normal", "hold"}
         /\ iso_state[s] = "normal" =>
              /\ Mst(a) # None /\ ~Fires(a, ready) => iso_state'[s] = "hold"
              /\ ~(Mst(a) # None /\ ~Fires(a, ready)) =>
                   iso_state'[s] = IF Isolate THEN "drain" ELSE "normal"
         /\ iso_state[s] = "hold" =>
              /\ ~Fires(a, ready) => iso_state'[s] = "hold"
              /\ Fires(a, ready) => iso_state'[s] = IF Isolate THEN "drain" ELSE "normal"
         /\ iso_state[s] = "drain" =>
              iso_state'[s] = IF \A c \in ChannelsOf(s) : count[c] = 0
                              THEN "isolate" ELSE "drain"
         /\ iso_state[s] = "isolate" =>
              iso_state'[s] = IF Isolate THEN "isolate" ELSE "normal"
         /\ iso_state'[s] \in {"normal", "hold", "drain", "isolate"}
<1>1. /\ a \in Channels /\ a # "w" /\ SideOf(a) = s /\ ChannelsOf(s) \ {"w"} = {a}
  BY SideFacts, Zenon
<1>2. Pushes(s) <=> iso_state[s] = "normal" /\ Mst(a) # None
  BY <1>1, Zenon DEF Pushes
<1>3. Fires(a, ready) => iso_state[s] \in {"normal", "hold"}
  BY <1>1, Zenon DEF Fires, Open
<1>4. (\E c \in ChannelsOf(s) \ {"w"} : Fires(c, ready)) <=> Fires(a, ready)
  BY <1>1, Zenon
<1>5. iso_state'[s] = StateAfter(s, ready) /\ iso_state[s] \in {"normal", "hold", "drain", "isolate"}
  BY Zenon DEF Edge, Types
<1>6. iso_state[s] = "normal" => iso_state'[s] =
        IF Pushes(s) /\ ~(\E c \in ChannelsOf(s) \ {"w"} : Fires(c, ready)) THEN "hold"
        ELSE IF Isolate THEN "drain" ELSE "normal"
  BY <1>5, Zenon DEF StateAfter
<1>7. iso_state[s] = "hold" => iso_state'[s] =
        IF \E c \in ChannelsOf(s) \ {"w"} : Fires(c, ready)
        THEN IF Isolate THEN "drain" ELSE "normal" ELSE "hold"
  BY <1>5, Zenon DEF StateAfter
<1>8. iso_state[s] = "drain" => iso_state'[s] =
        IF \A c \in ChannelsOf(s) : count[c] = 0 THEN "isolate" ELSE "drain"
  BY <1>5, Zenon DEF StateAfter
<1>9. iso_state[s] = "isolate" => iso_state'[s] = IF Isolate THEN "isolate" ELSE "normal"
  BY <1>5, Zenon DEF StateAfter
<1> HIDE DEF Edge
<1> QED BY <1>2, <1>3, <1>4, <1>5, <1>6, <1>7, <1>8, <1>9, Zenon

\* A side that drains or is isolated keeps the window open, or has closed it.
LEMMA DrainIsolates ==
  ASSUME WindowInv, NEW s \in Sides, iso_state[s] = "drain"
  PROVE  Isolate
<1>1. isolate_q \/ ~rst
  BY Zenon DEF WindowInv
<1>2. ~Isolated
  BY Zenon DEF Isolated
<1> QED BY <1>1, <1>2, Zenon DEF Isolate

\* What axi_isolate counts in addition is taken at once or held.
LEMMA HoldBalance ==
  ASSUME Types, NEW ready, NEW take, NEW lift, Edge(ready, take, lift),
         NEW s \in Sides, NEW a, a = Addr(s), WindowInv
  PROVE  (IF Pushes(s) THEN 1 ELSE 0) + (IF iso_state[s] = "hold" THEN 1 ELSE 0)
           = (IF Fires(a, ready) THEN 1 ELSE 0) + (IF iso_state'[s] = "hold" THEN 1 ELSE 0)
<1>1. iso_state[s] \in {"normal", "hold", "drain", "isolate"}
  BY Zenon DEF Types
<1>2. Fires(a, ready) => Mst(a) # None
  BY Zenon DEF Fires
<1>3. CASE iso_state[s] = "normal"
  BY <1>2, <1>3, SideEdge
<1>4. CASE iso_state[s] = "hold"
  BY <1>2, <1>4, SideEdge
<1>5. CASE iso_state[s] \in {"drain", "isolate"}
  BY <1>2, <1>5, SideEdge, Zenon
<1> QED BY <1>1, <1>3, <1>4, <1>5, Zenon

\* A count that grows by what is pushed and falls by what is done.
LEMMA CountSum ==
  \A l, g \in Nat : \A u, h, f, h1, d \in {0, 1} :
    u + h = f + h1 => (l + h - g) + u - d = (l + f) + h1 - (g + d)
OBVIOUS

\* axi_isolate counts, at an edge, what was presented and not completed.
LEMMA CountEdge ==
  ASSUME Types, WindowInv, CountInv, NEW ready, NEW take, NEW lift,
         Edge(ready, take, lift)
  PROVE  /\ CountInv'
         /\ \A c \in Channels : count'[c] \in Nat
         /\ \A s \in Sides : answered'[s] \in Nat /\ rsp'[s] \in BOOLEAN
<1> DEFINE L(c) == Len(seen[c])
           U(b) == IF b THEN 1 ELSE 0
<1>1. \A c \in Channels : L(c) \in Nat /\ count[c] \in Nat
  BY DEF Types
<1>2. ASSUME NEW c \in Channels
      PROVE  /\ Len(seen'[c]) = L(c) + U(Fires(c, ready))
             /\ Len(seen'[c]) \in Nat /\ L(c) <= Len(seen'[c])
  <2>1. seen[c] \in Seq(Nat) /\ Mst(c) \in Nat
    BY ChannelEdge, Zenon DEF Types
  <2>2. Len(Append(seen[c], Mst(c))) = L(c) + 1
    BY <2>1, AppendFacts, Zenon
  <2>3. CASE Fires(c, ready)
    <3>1. seen'[c] = Append(seen[c], Mst(c))
      BY <2>3, ChannelEdge, Zenon
    <3> QED BY <1>1, <2>2, <2>3, <3>1
  <2>4. CASE ~Fires(c, ready)
    <3>1. seen'[c] = seen[c]
      BY <2>4, ChannelEdge, Zenon
    <3> QED BY <1>1, <2>4, <3>1
  <2> QED BY <2>3, <2>4, Zenon
<1>3. ASSUME NEW s \in Sides
      PROVE  /\ answered[s] \in Nat /\ rsp[s] \in BOOLEAN
             /\ answered'[s] = answered[s] + U(RspFires(s, take))
             /\ rsp'[s] = (rsp[s] /\ ~RspFires(s, take))
             /\ RspFires(s, take) => rsp[s]
  <2>1. answered[s] \in Nat /\ rsp[s] \in BOOLEAN
    BY Zenon DEF Types
  <2>2. /\ answered'[s] = answered[s] + U(RspFires(s, take))
        /\ rsp'[s] = (rsp[s] /\ ~RspFires(s, take))
    BY Zenon DEF Edge, Unit
  <2>3. RspFires(s, take) => rsp[s]
    BY Zenon DEF RspFires, RspValid
  <2> QED BY <2>1, <2>2, <2>3, Zenon
<1>4. ASSUME NEW s \in Sides, NEW c \in ChannelsOf(s)
      PROVE  answered'[s] <= Len(seen'[c]) /\ (rsp'[s] => answered'[s] < Len(seen'[c]))
  <2>1. c \in Channels
    BY SideFacts, Zenon
  <2>2. answered[s] <= L(c) /\ (rsp[s] => answered[s] < L(c))
    BY Zenon DEF CountInv
  <2>5. L(c) \in Nat /\ Len(seen'[c]) \in Nat /\ L(c) <= Len(seen'[c]) /\ answered[s] \in Nat
    BY <1>1, <1>2, <1>3, <2>1, Zenon
  <2>3. CASE RspFires(s, take)
    <3>1. rsp[s] /\ ~rsp'[s] /\ answered'[s] = answered[s] + 1
      BY <1>3, <2>3, Zenon
    <3>2. answered'[s] <= Len(seen'[c])
      <4>1. answered[s] < L(c)
        BY <2>2, <3>1, Zenon
      <4> QED BY <2>5, <3>1, <4>1
    <3> QED BY <3>1, <3>2, Zenon
  <2>4. CASE ~RspFires(s, take)
    <3>1. (rsp'[s] => rsp[s]) /\ answered'[s] = answered[s]
      BY <1>3, <2>4
    <3>2. answered[s] < L(c) => answered[s] < Len(seen'[c])
      BY <2>5
    <3>3. answered[s] <= Len(seen'[c])
      <4>1. answered[s] <= L(c)
        BY <2>2, Zenon
      <4> QED BY <2>5, <4>1
    <3> QED BY <2>2, <3>1, <3>2, <3>3, Zenon
  <2> QED BY <2>3, <2>4, Zenon
<1>5. ASSUME NEW s \in Sides
      PROVE  /\ count'[Addr(s)] = Len(seen'[Addr(s)]) + U(iso_state'[s] = "hold") - answered'[s]
             /\ count'[Addr(s)] \in Nat
  <2>1. Addr(s) \in Channels /\ Addr(s) # "w" /\ SideOf(Addr(s)) = s /\ Addr(s) \in ChannelsOf(s)
    BY SideFacts, Zenon
  <2>2. count'[Addr(s)] = count[Addr(s)] + U(Pushes(s)) - U(RspFires(s, take))
    BY <2>1, Zenon DEF Edge, CountAfter, Unit
  <2>3. count[Addr(s)] = L(Addr(s)) + U(iso_state[s] = "hold") - answered[s]
    BY Zenon DEF CountInv, Unit
  <2>4. U(Pushes(s)) + U(iso_state[s] = "hold")
          = U(Fires(Addr(s), ready)) + U(iso_state'[s] = "hold")
    BY HoldBalance, Zenon
  <2>5. answered'[s] <= Len(seen'[Addr(s)])
    BY <1>4, <2>1, Zenon
  <2>6. Len(seen'[Addr(s)]) = L(Addr(s)) + U(Fires(Addr(s), ready))
    BY <1>2, <2>1, Zenon
  <2>7. answered'[s] = answered[s] + U(RspFires(s, take))
    BY <1>3, Zenon
  <2>8. /\ L(Addr(s)) \in Nat /\ Len(seen'[Addr(s)]) \in Nat
        /\ answered[s] \in Nat /\ answered'[s] \in Nat
    BY <1>1, <1>2, <1>3, <2>1
  <2>9. PICK u \in {0, 1}, h \in {0, 1}, ff \in {0, 1}, h1 \in {0, 1}, d \in {0, 1} :
          /\ u = U(Pushes(s)) /\ h = U(iso_state[s] = "hold") /\ ff = U(Fires(Addr(s), ready))
          /\ h1 = U(iso_state'[s] = "hold") /\ d = U(RspFires(s, take))
    BY Zenon
  <2>10. /\ count'[Addr(s)] = count[Addr(s)] + u - d
         /\ count[Addr(s)] = L(Addr(s)) + h - answered[s]
         /\ u + h = ff + h1
         /\ Len(seen'[Addr(s)]) = L(Addr(s)) + ff /\ answered'[s] = answered[s] + d
    BY <2>2, <2>3, <2>4, <2>6, <2>7, <2>9, Zenon
  <2>11. count'[Addr(s)] = Len(seen'[Addr(s)]) + h1 - answered'[s]
    <3>1. (L(Addr(s)) + h - answered[s]) + u - d = (L(Addr(s)) + ff) + h1 - (answered[s] + d)
      <4>1. L(Addr(s)) \in Nat /\ answered[s] \in Nat /\ u + h = ff + h1
        BY <2>8, <2>10, Zenon
      <4> HIDE DEF L
      <4> QED BY <4>1, CountSum
    <3> QED BY <2>10, <3>1, Zenon
  <2>12. Len(seen'[Addr(s)]) + h1 - answered'[s] \in Nat
    BY <2>5, <2>8
  <2> QED BY <2>9, <2>11, <2>12, Zenon
<1>6. /\ count'["w"] = Len(seen'["aw"]) + U(iso_state'["wr"] = "hold") - Len(seen'["w"])
      /\ count'["w"] \in Nat
  <2>1. /\ "w" \in Channels /\ SideOf("w") = "wr" /\ "wr" \in Sides /\ Addr("wr") = "aw"
        /\ "aw" \in Channels
    BY ChannelFacts, Zenon
  <2>2. count'["w"] = count["w"] + U(Pushes("wr")) - U(Fires("w", ready))
    BY <2>1, Zenon DEF Edge, CountAfter, Unit
  <2>3. count["w"] = L("aw") + U(iso_state["wr"] = "hold") - L("w")
    BY Zenon DEF CountInv, Unit
  <2>4. U(Pushes("wr")) + U(iso_state["wr"] = "hold")
          = U(Fires("aw", ready)) + U(iso_state'["wr"] = "hold")
    BY <2>1, HoldBalance, Zenon
  <2>5. Fires("w", ready) => count["w"] > 0 \/ Pushes("wr")
    BY Zenon DEF Fires, Open
  <2>6. count["w"] + U(Pushes("wr")) - U(Fires("w", ready)) \in Nat
    BY <1>1, <2>1, <2>5
  <2>7. /\ Len(seen'["aw"]) = L("aw") + U(Fires("aw", ready))
        /\ Len(seen'["w"]) = L("w") + U(Fires("w", ready))
    BY <1>2, <2>1, Zenon
  <2>8. L("aw") \in Nat /\ L("w") \in Nat
    BY <1>1, <2>1, Zenon
  <2>9. PICK u \in {0, 1}, h \in {0, 1}, ff \in {0, 1}, h1 \in {0, 1}, d \in {0, 1} :
          /\ u = U(Pushes("wr")) /\ h = U(iso_state["wr"] = "hold") /\ ff = U(Fires("aw", ready))
          /\ h1 = U(iso_state'["wr"] = "hold") /\ d = U(Fires("w", ready))
    BY Zenon
  <2>10. /\ count'["w"] = count["w"] + u - d
         /\ count["w"] = L("aw") + h - L("w")
         /\ u + h = ff + h1
         /\ Len(seen'["aw"]) = L("aw") + ff /\ Len(seen'["w"]) = L("w") + d
    BY <2>2, <2>3, <2>4, <2>7, <2>9, Zenon
  <2>11. count'["w"] = Len(seen'["aw"]) + h1 - Len(seen'["w"])
    <3>1. (L("aw") + h - L("w")) + u - d = (L("aw") + ff) + h1 - (L("w") + d)
      BY <2>8, <2>10, CountSum
    <3> QED BY <2>10, <3>1, Zenon
  <2> QED BY <2>2, <2>6, <2>9, <2>11, Zenon
<1>7. CountInv'
  BY <1>4, <1>5, <1>6, Zenon DEF CountInv, Unit
<1>8. \A c \in Channels : count'[c] \in Nat
  BY <1>5, <1>6, ChannelSide, Zenon
<1>9. \A s \in Sides : answered'[s] \in Nat /\ rsp'[s] \in BOOLEAN
  <2> TAKE s \in Sides
  <2>1. answered'[s] \in Nat
    BY <1>3
  <2>2. rsp'[s] \in BOOLEAN
    BY <1>3, Zenon
  <2> QED BY <2>1, <2>2, Zenon
<1> QED BY <1>7, <1>8, <1>9, Zenon

\* A side that has drained, or stays isolated, has nothing left.
LEMMA DrainedEdge ==
  ASSUME Types, WindowInv, CountInv, OrderInv, NEW ready, NEW take, NEW lift \in BOOLEAN,
         Edge(ready, take, lift), NEW s \in Sides, iso_state'[s] = "isolate",
         NEW c \in ChannelsOf(s)
  PROVE  held'[c] = None /\ count'[c] = 0
<1> DEFINE a == Addr(s)
<1>0. /\ a \in Channels /\ a # "w" /\ SideOf(a) = s /\ c \in Channels /\ SideOf(c) = s
      /\ a \in ChannelsOf(s) /\ (c = "w" \/ c = a) /\ (c = "w" => s = "wr" /\ a = "aw")
  BY SideFacts, ChannelSide, ChannelFacts
<1>1. /\ Isolate /\ iso_state[s] \in {"drain", "isolate"}
      /\ \A d \in ChannelsOf(s) : count[d] = 0
  <2>1. iso_state[s] \in {"normal", "hold", "drain", "isolate"}
    BY Zenon DEF Types
  <2>2. CASE iso_state[s] \in {"normal", "hold"}
    BY <2>2, SideEdge, Zenon
  <2>3. CASE iso_state[s] = "drain"
    BY <2>3, SideEdge, DrainIsolates, Zenon
  <2>4. CASE iso_state[s] = "isolate"
    <3>1. Isolate
      BY <2>4, SideEdge, Zenon
    <3> QED BY <2>4, <3>1, Zenon DEF WindowInv
  <2> QED BY <2>1, <2>2, <2>3, <2>4, Zenon
<1>2. held[a] = None
  BY <1>1, Zenon DEF WindowInv
<1>3. c = "w" => held[c] = None
  <2> SUFFICES ASSUME c = "w" PROVE held["w"] = None
    BY Zenon
  <2>1. count["w"] = 0 /\ s = "wr" /\ a = "aw" /\ "w" \in Channels /\ "aw" \in Channels
    BY <1>0, <1>1, Zenon
  <2>2. Len(seen["aw"]) \in Nat /\ Len(seen["w"]) \in Nat
    BY <2>1 DEF Types
  <2>3. count["w"] = Len(seen["aw"]) + 0 - Len(seen["w"])
    BY <1>1, <2>1, Zenon DEF CountInv, Unit
  <2>4. Presented("aw") = Len(seen["aw"]) + 0
    BY <1>2, <2>1, Zenon DEF Presented, Unit
  <2>5. held["w"] # None => Presented("w") = Len(seen["w"]) + 1
    BY Zenon DEF Presented, Unit
  <2>6. Presented("aw") = Presented("w")
    BY Zenon DEF OrderInv
  <2>7. Len(seen["aw"]) = Len(seen["w"])
    <3>1. 0 = Len(seen["aw"]) + 0 - Len(seen["w"])
      BY <2>1, <2>3, Zenon
    <3>2. \A x, y \in Nat : 0 = x + 0 - y => x = y
      OBVIOUS
    <3> QED BY <2>2, <3>1, <3>2, Zenon
  <2>8. Len(seen["aw"]) + 0 # Len(seen["w"]) + 1
    BY <2>2, <2>7
  <2> QED BY <2>4, <2>5, <2>6, <2>8, Zenon
<1>4. Mst(c) = None /\ ~Fires(c, ready)
  <2>1. Mst(c) = None
    BY <1>0, <1>1, <1>2, <1>3, Zenon DEF Mst
  <2> QED BY <2>1, Zenon DEF Fires
<1>5. ~Pushes(s)
  BY <1>1, Zenon DEF Pushes
<1>6. ~RspFires(s, take)
  <2>1. Len(seen[a]) \in Nat /\ answered[s] \in Nat
    BY <1>0 DEF Types
  <2>2. count[a] = Len(seen[a]) + 0 - answered[s]
    BY <1>1, Zenon DEF CountInv, Unit
  <2>3. count[a] = 0
    BY <1>0, <1>1, Zenon
  <2>4. rsp[s] => answered[s] < Len(seen[a])
    BY <1>0, Zenon DEF CountInv
  <2>5. ~rsp[s]
    BY <2>1, <2>2, <2>3, <2>4
  <2> QED BY <2>5, Zenon DEF RspFires, RspValid
<1>7. held'[c] = None
  BY <1>0, <1>4, ChannelEdge, Zenon
<1>8. count'[c] = CountAfter(c, ready, take)
  BY <1>0, Zenon DEF Edge
<1>9. CountAfter(c, ready, take) = count[c] + 0 - 0
  BY <1>0, <1>4, <1>5, <1>6, Zenon DEF CountAfter, Unit
<1>10. count[c] = 0
  BY <1>1, Zenon
<1> QED BY <1>7, <1>8, <1>9, <1>10

\* The reset window, the core and axi_isolate at an edge.
LEMMA WindowInvEdge ==
  ASSUME Types, WindowInv, CountInv, OrderInv, NEW ready, NEW take, NEW lift \in BOOLEAN,
         Edge(ready, take, lift)
  PROVE  WindowInv'
<1>1. ndm' => ~rst'
  BY WindowEdge, Zenon
<1>2. ~rst' => core' = Nothing
  <2> SUFFICES ASSUME ~rst' PROVE core' = Nothing
    BY Zenon
  <2>1. ~rst
    BY WindowEdge, Zenon
  <2>2. core = Nothing
    BY <2>1, Zenon DEF WindowInv
  <2>3. core' = [c \in Channels |-> IF Accepts(c, ready) THEN None ELSE core[c]]
    BY Zenon DEF Edge
  <2>4. \A c \in Channels : core[c] = None
    BY <2>2, Zenon DEF Nothing
  <2>5. core' = [c \in Channels |-> None]
    BY <2>3, <2>4, Zenon
  <2> QED BY <2>5, Zenon DEF Nothing
<1>3. ASSUME NEW s \in Sides
      PROVE  /\ iso_state'[s] \in {"drain", "isolate"} => isolate_q' \/ ~rst'
             /\ iso_state'[s] = "hold" => held'[Addr(s)] # None
             /\ held'[Addr(s)] # None => iso_state'[s] \in {"normal", "hold"}
  <2> DEFINE a == Addr(s)
  <2>0. a \in Channels /\ a # "w" /\ SideOf(a) = s /\ a \in ChannelsOf(s)
    BY SideFacts, Zenon
  <2>1. iso_state[s] \in {"normal", "hold", "drain", "isolate"}
    BY Zenon DEF Types
  <2>2. held'[a] = IF Fires(a, ready) THEN None ELSE Mst(a)
    BY <2>0, ChannelEdge, Zenon
  <2>3. isolate_q' <=> Isolate
    BY WindowEdge, Zenon
  <2>4. CASE iso_state[s] = "normal"
    BY <2>2, <2>3, <2>4, SideEdge, Zenon
  <2>5. CASE iso_state[s] = "hold"
    <3>1. held[a] # None /\ Mst(a) # None
      BY <2>0, <2>5, Zenon DEF WindowInv, Mst
    <3> QED BY <2>2, <2>3, <2>5, <3>1, SideEdge, Zenon
  <2>6. CASE iso_state[s] = "drain"
    <3>1. Isolate
      BY <2>6, DrainIsolates, Zenon
    <3>2. held[a] = None
      BY <2>6, Zenon DEF WindowInv
    <3>3. Mst(a) = None
      BY <3>1, <3>2, Zenon DEF Mst
    <3> QED BY <2>2, <2>3, <2>6, <3>1, <3>3, SideEdge, Zenon
  <2>7. CASE iso_state[s] = "isolate"
    <3>1. held[a] = None
      BY <2>7, Zenon DEF WindowInv
    <3>2. Isolate => Mst(a) = None
      BY <3>1, Zenon DEF Mst
    <3> QED BY <2>2, <2>3, <2>7, <3>2, SideEdge, Zenon
  <2> QED BY <2>1, <2>4, <2>5, <2>6, <2>7, Zenon
<1>4. \A s \in Sides : iso_state'[s] = "isolate" =>
        \A c \in ChannelsOf(s) : held'[c] = None /\ count'[c] = 0
  BY DrainedEdge, Zenon
<1> QED BY <1>1, <1>2, <1>3, <1>4, Zenon DEF WindowInv, Addr, ChannelsOf, SideOf

\* While the window is shut the bridge is transparent; while it is open the core
\* is not served, and when it shuts no copy is left.
LEMMA FreshEdge ==
  ASSUME Types, WindowInv, CountInv, OrderInv, NEW ready, NEW take, NEW lift \in BOOLEAN,
         Edge(ready, take, lift), NEW c \in Channels
  PROVE  /\ Isolate => core'[c] = core[c]
         /\ Isolate /\ ~Isolate' => held'[c] = None
         /\ ~Isolate => Mst(c) = core[c] /\ (Accepts(c, ready) <=> Fires(c, ready))
         /\ Fresh(c)' => Isolate /\ Fresh(c)
<1>1. /\ held'[c] = IF Fires(c, ready) THEN None ELSE Mst(c)
      /\ core'[c] = IF Accepts(c, ready) THEN None ELSE core[c]
  BY ChannelEdge, Zenon
<1>2. Isolate => core'[c] = core[c]
  BY <1>1, Zenon DEF Accepts
<1>3. Isolate /\ ~Isolate' => held'[c] = None
  <2> SUFFICES ASSUME Isolate, ~Isolate' PROVE held'[c] = None
    BY Zenon
  <2>1. iso_state'[SideOf(c)] = "isolate"
    BY WindowEdge, ChannelSide, Zenon
  <2> QED BY <2>1, DrainedEdge, ChannelSide, Zenon
<1>4. ~Isolate => Mst(c) = core[c] /\ (Accepts(c, ready) <=> Fires(c, ready))
  <2> SUFFICES ASSUME ~Isolate PROVE Mst(c) = core[c] /\ (Accepts(c, ready) <=> Fires(c, ready))
    BY Zenon
  <2>1. held[c] # None => core[c] = held[c]
    BY Zenon DEF OrderInv
  <2>2. Mst(c) = core[c]
    BY <2>1, Zenon DEF Mst
  <2> QED BY <2>2, Zenon DEF Accepts, Fires
<1>5. Fresh(c)' => Isolate /\ Fresh(c)
  <2> SUFFICES ASSUME Fresh(c)' PROVE Isolate /\ Fresh(c)
    BY Zenon
  <2>1. core'[c] # None /\ (Isolate' \/ held'[c] = None)
    BY Zenon DEF Fresh
  <2>2. ~Accepts(c, ready) /\ core'[c] = core[c]
    BY <1>1, <2>1, Zenon
  <2>3. Isolate
    <3> SUFFICES ASSUME ~Isolate PROVE FALSE
      BY Zenon
    <3>1. ~Isolate'
      BY WindowEdge, Zenon
    <3>2. ~Fires(c, ready) /\ Mst(c) = core[c]
      BY <1>4, <2>2, Zenon
    <3> QED BY <1>1, <2>1, <2>2, <3>1, <3>2, Zenon
  <2> QED BY <2>1, <2>2, <2>3, Zenon DEF Fresh
<1> QED BY <1>2, <1>3, <1>4, <1>5, Zenon

\* The order of a channel at an edge.
LEMMA ChannelOrderEdge ==
  ASSUME Types, WindowInv, CountInv, OrderInv, NEW ready, NEW take, NEW lift \in BOOLEAN,
         Edge(ready, take, lift), NEW c \in Channels
  PROVE  /\ \A i \in 1..Presented(c)' : i <= At(c, i)' /\ At(c, i)' <= issued'[SideOf(c)]
         /\ \A i, j \in 1..Presented(c)' : i < j => At(c, i)' < At(c, j)'
         /\ core'[c] <= issued'[SideOf(c)]
         /\ Fresh(c)' => \A i \in 1..Presented(c)' : At(c, i)' < core'[c]
         /\ ~Isolate' /\ held'[c] # None => core'[c] = held'[c]
<1> DEFINE n == Presented(c)
           top == issued[SideOf(c)]
<1>1. /\ \A i \in 1..n : i <= At(c, i) /\ At(c, i) <= top
      /\ \A i, j \in 1..n : i < j => At(c, i) < At(c, j)
      /\ core[c] <= top
      /\ Fresh(c) => \A i \in 1..n : At(c, i) < core[c]
  BY Zenon DEF OrderInv
<1>2. n \in Nat /\ top \in Nat /\ core[c] \in Nat /\ \A i \in 1..n : At(c, i) \in Nat
  <2>1. n \in Nat
    BY PresentedEdge, Zenon
  <2>2. seen[c] \in Seq(Nat) /\ held[c] \in Nat /\ core[c] \in Nat
    BY Zenon DEF Types
  <2>3. top \in Nat
    BY ChannelSide, BridgeAssumption DEF Types, Requests
  <2>4. \A i \in 1..n : At(c, i) \in Nat
    BY <2>2 DEF At
  <2> QED BY <2>1, <2>2, <2>3, <2>4, Zenon
<1>3. issued'[SideOf(c)] = top
  BY Zenon DEF Edge
<1>4. core'[c] = core[c] \/ core'[c] = 0
  BY ChannelEdge, Zenon DEF None
<1>5. core'[c] <= top
  BY <1>1, <1>2, <1>4
<1>6. CASE Fresh(c) /\ ~Isolate
  <2>1. /\ Presented(c)' = n + 1
        /\ \A i \in 1..n : At(c, i)' = At(c, i)
        /\ \A i \in Nat : i = n + 1 => At(c, i)' = core[c]
    BY <1>6, PresentedEdge, Zenon
  <2>2. core[c] # 0 /\ \A i \in 1..n : At(c, i) < core[c]
    BY <1>1, <1>6, Zenon DEF Fresh, None
  <2>3. n + 1 <= core[c]
    <3>1. CASE n = 0
      BY <1>2, <2>2, <3>1
    <3>2. CASE n # 0
      <4>1. n \in 1..n
        BY <1>2, <3>2
      <4>2. n <= At(c, n) /\ At(c, n) < core[c] /\ At(c, n) \in Nat
        BY <1>1, <1>2, <2>2, <4>1, Zenon
      <4> QED BY <1>2, <4>2
    <3> QED BY <3>1, <3>2, Zenon
  <2>4. \A i \in 1..(n + 1) : i \in 1..n \/ (i = n + 1 /\ i \in Nat)
    BY <1>2
  <2>5. ASSUME NEW i \in 1..(n + 1)
        PROVE  i <= At(c, i)' /\ At(c, i)' <= top
    BY <1>1, <2>1, <2>3, <2>4, Zenon
  <2>6. ASSUME NEW i \in 1..(n + 1), NEW j \in 1..(n + 1), i < j
        PROVE  At(c, i)' < At(c, j)'
    <3>1. i \in 1..n
      BY <1>2, <2>6
    <3>2. CASE j \in 1..n
      BY <1>1, <2>1, <2>6, <3>1, <3>2, Zenon
    <3>3. CASE j = n + 1 /\ j \in Nat
      BY <2>1, <2>2, <3>1, <3>3, Zenon
    <3> QED BY <2>4, <3>2, <3>3, Zenon
  <2>7. ~Fresh(c)'
    BY <1>6, FreshEdge, Zenon
  <2>8. ~Isolate' /\ held'[c] # None => core'[c] = held'[c]
    BY <1>6, FreshEdge, ChannelEdge, Zenon
  <2> QED BY <1>3, <1>5, <2>1, <2>5, <2>6, <2>7, <2>8, Zenon
<1>7. CASE ~(Fresh(c) /\ ~Isolate)
  <2>1. Presented(c)' = n /\ \A i \in 1..n : At(c, i)' = At(c, i)
    BY <1>7, PresentedEdge, Zenon
  <2>2. ASSUME Fresh(c)', NEW i \in 1..n
        PROVE  At(c, i)' < core'[c]
    <3>1. Isolate /\ Fresh(c)
      BY <2>2, FreshEdge, Zenon
    <3>2. core'[c] = core[c]
      BY <3>1, FreshEdge, Zenon
    <3> QED BY <1>1, <2>1, <3>1, <3>2, Zenon
  <2>3. ~Isolate' /\ held'[c] # None => core'[c] = held'[c]
    BY FreshEdge, ChannelEdge, Zenon
  <2> QED BY <1>1, <1>3, <1>5, <2>1, <2>2, <2>3, Zenon
<1> QED BY <1>6, <1>7, Zenon

\* The requests a channel has presented stay in order at an edge.
LEMMA OrderEdge ==
  ASSUME Types, WindowInv, CountInv, OrderInv, NEW ready, NEW take, NEW lift \in BOOLEAN,
         Edge(ready, take, lift)
  PROVE  OrderInv'
<1>0. "aw" \in Channels /\ "w" \in Channels
  BY ChannelFacts, Zenon
<1>1. /\ Presented("aw") = Presented("w")
      /\ \A i \in 1..Presented("aw") : At("aw", i) = At("w", i)
      /\ Fresh("aw") \/ Fresh("w") =>
           core["aw"] = core["w"] /\ (~Isolate => held["aw"] = None /\ held["w"] = None)
  BY Zenon DEF OrderInv
<1>2. (Fresh("aw") /\ ~Isolate) <=> (Fresh("w") /\ ~Isolate)
  BY <1>1, Zenon DEF Fresh
<1>3. /\ Presented("aw")' = Presented("w")'
      /\ \A i \in 1..Presented("aw")' : At("aw", i)' = At("w", i)'
  <2>1. CASE Fresh("aw") /\ ~Isolate
    <3>1. /\ Presented("aw") \in Nat
          /\ Presented("aw")' = Presented("aw") + 1 /\ Presented("w")' = Presented("w") + 1
          /\ \A i \in 1..Presented("aw") : At("aw", i)' = At("aw", i)
          /\ \A i \in 1..Presented("w") : At("w", i)' = At("w", i)
          /\ \A i \in Nat : i = Presented("aw") + 1 => At("aw", i)' = core["aw"]
          /\ \A i \in Nat : i = Presented("w") + 1 => At("w", i)' = core["w"]
      BY <1>0, <1>2, <2>1, PresentedEdge, Zenon
    <3>2. core["aw"] = core["w"]
      BY <1>1, <2>1, Zenon
    <3>3. \A i \in 1..(Presented("aw") + 1) :
            i \in 1..Presented("aw") \/ (i = Presented("aw") + 1 /\ i \in Nat)
      BY <3>1
    <3> QED BY <1>1, <3>1, <3>2, <3>3, Zenon
  <2>2. CASE ~(Fresh("aw") /\ ~Isolate)
    <3>1. /\ Presented("aw")' = Presented("aw") /\ Presented("w")' = Presented("w")
          /\ \A i \in 1..Presented("aw") : At("aw", i)' = At("aw", i)
          /\ \A i \in 1..Presented("w") : At("w", i)' = At("w", i)
      BY <1>0, <1>2, <2>2, PresentedEdge, Zenon
    <3> QED BY <1>1, <3>1, Zenon
  <2> QED BY <2>1, <2>2, Zenon
<1>4. ASSUME Fresh("aw")' \/ Fresh("w")'
      PROVE  core'["aw"] = core'["w"] /\ (~Isolate' => held'["aw"] = None /\ held'["w"] = None)
  <2>1. Isolate /\ (Fresh("aw") \/ Fresh("w"))
    BY <1>0, <1>4, FreshEdge, Zenon
  <2>2. core'["aw"] = core["aw"] /\ core'["w"] = core["w"]
    BY <1>0, <2>1, FreshEdge, Zenon
  <2>3. ~Isolate' => held'["aw"] = None /\ held'["w"] = None
    BY <1>0, <2>1, FreshEdge, Zenon
  <2> QED BY <1>1, <2>1, <2>2, <2>3, Zenon
<1>5. \A c \in Channels :
        /\ \A i \in 1..Presented(c)' : i <= At(c, i)' /\ At(c, i)' <= issued'[SideOf(c)]
        /\ \A i, j \in 1..Presented(c)' : i < j => At(c, i)' < At(c, j)'
        /\ core'[c] <= issued'[SideOf(c)]
        /\ Fresh(c)' => \A i \in 1..Presented(c)' : At(c, i)' < core'[c]
        /\ ~Isolate' /\ held'[c] # None => core'[c] = held'[c]
  BY ChannelOrderEdge, Zenon
<1> QED BY <1>3, <1>4, <1>5, Zenon DEF OrderInv

\* What the fabric took, as part of what was presented.
LEMMA SeenFacts ==
  ASSUME Types, OrderInv
  PROVE  /\ \A c \in Channels : \A i \in 1..Len(seen[c]) :
              i <= seen[c][i] /\ seen[c][i] <= issued[SideOf(c)]
         /\ \A i \in Nat : i \in 1..Len(seen["aw"]) /\ i \in 1..Len(seen["w"]) =>
              seen["aw"][i] = seen["w"][i]
<1>1. ASSUME NEW c \in Channels, NEW i \in 1..Len(seen[c])
      PROVE  i \in 1..Presented(c) /\ At(c, i) = seen[c][i]
  <2>1. Len(seen[c]) \in Nat
    BY DEF Types
  <2>2. Presented(c) = Len(seen[c]) \/ Presented(c) = Len(seen[c]) + 1
    <3>1. Presented(c) = Len(seen[c]) + 0 \/ Presented(c) = Len(seen[c]) + 1
      BY Zenon DEF Presented, Unit
    <3> QED BY <2>1, <3>1
  <2> QED BY <2>1, <2>2 DEF At
<1>2. \A c \in Channels : \A i \in 1..Len(seen[c]) :
        i <= seen[c][i] /\ seen[c][i] <= issued[SideOf(c)]
  BY <1>1, Zenon DEF OrderInv
<1>3. ASSUME NEW i \in Nat, i \in 1..Len(seen["aw"]), i \in 1..Len(seen["w"])
      PROVE  seen["aw"][i] = seen["w"][i]
  <2>1. /\ i \in 1..Presented("aw") /\ At("aw", i) = seen["aw"][i]
        /\ At("w", i) = seen["w"][i]
    BY <1>1, <1>3, ChannelFacts, Zenon
  <2> QED BY <2>1, Zenon DEF OrderInv
<1> QED BY <1>2, <1>3, Zenon

\* From q to q1 a sequence of distinct positive requests grows at its end by new,
\* and from m to m1 it is answered at its front by gone.
Advances(q, q1, n, n1, m, m1, new, gone) ==
  /\ n \in Nat /\ n1 \in Nat /\ m \in Nat /\ m1 \in Nat
  /\ m <= n /\ \A i \in 1..n : q1[i] = q[i]
  /\ \/ n1 = n /\ new = {}
     \/ n1 = n + 1 /\ new = {q1[n + 1]}
  /\ \A i \in 1..n1 : q1[i] \in Nat /\ i <= q1[i]
  /\ \A i, j \in 1..n1 : i < j => q1[i] < q1[j]
  /\ \/ m1 = m /\ gone \subseteq {0}
     \/ m1 = m + 1 /\ m1 <= n1 /\ gone = {q1[m + 1]}

\* What the core waits for, when a sequence of distinct positive requests grows at
\* its end and is answered at its front.
LEMMA WaitingSet ==
  ASSUME NEW q, NEW q1, NEW n, NEW n1, NEW m, NEW m1, NEW new, NEW gone,
         Advances(q, q1, n, n1, m, m1, new, gone)
  PROVE  ({q[i] : i \in (m + 1)..n} \union new) \ gone = {q1[i] : i \in (m1 + 1)..n1}
<1> USE DEF Advances
<1>1. {q[i] : i \in (m + 1)..n} \union new = {q1[i] : i \in (m + 1)..n1}
  <2>1. \A i \in (m + 1)..n : i \in 1..n /\ i \in (m + 1)..n1
    OBVIOUS
  <2>2. \A x \in new : n1 = n + 1 /\ x = q1[n1] /\ n1 \in (m + 1)..n1
    OBVIOUS
  <2>3. \A i \in (m + 1)..n1 : i \in (m + 1)..n \/ (n1 = n + 1 /\ i = n1)
    OBVIOUS
  <2> QED BY <2>1, <2>2, <2>3, Zenon
<1>2. CASE m1 = m /\ gone \subseteq {0}
  <2>1. \A i \in (m + 1)..n1 : q1[i] # 0
    <3> TAKE i \in (m + 1)..n1
    <3>1. i \in 1..n1
      OBVIOUS
    <3> QED BY <3>1
  <2> QED BY <1>1, <1>2, <2>1, Zenon
<1>3. CASE m1 = m + 1 /\ m1 <= n1 /\ gone = {q1[m + 1]}
  <2>1. \A i \in (m1 + 1)..n1 : i \in (m + 1)..n1 /\ q1[i] # q1[m + 1]
    <3> TAKE i \in (m1 + 1)..n1
    <3>1. i \in 1..n1 /\ m + 1 \in 1..n1 /\ m + 1 < i /\ i \in (m + 1)..n1
      BY <1>3
    <3> QED BY <3>1
  <2>2. \A i \in (m + 1)..n1 : i = m + 1 \/ i \in (m1 + 1)..n1
    BY <1>3
  <2> QED BY <1>1, <1>3, <2>1, <2>2
<1> QED BY <1>2, <1>3, Zenon

\* What the core waits for, at an edge: the requests taken and not answered.
LEMMA WaitingEdge ==
  ASSUME Types, WindowInv, CountInv, OrderInv, WaitingInv, NEW ready, NEW take,
         NEW lift \in BOOLEAN, Edge(ready, take, lift), CountInv', OrderInv'
  PROVE  WaitingInv'
<1> SUFFICES ASSUME NEW c \in Channels
             PROVE  waiting'[c] = IF Isolate' THEN {}
                                  ELSE {seen'[c][i] : i \in (answered'[SideOf(c)] + 1)..Len(seen'[c])}
  BY Zenon DEF WaitingInv
<1> DEFINE s == SideOf(c)
           new == IF Accepts(c, ready) THEN {core[c]} ELSE {}
           gone == IF s \in take THEN {ToCore(s)} ELSE {}
<1>0. s \in Sides /\ c \in ChannelsOf(s) /\ (c = "w" \/ c = Addr(s))
  BY ChannelSide, Zenon
<1>1. waiting'[c] = (waiting[c] \union new) \ gone
  BY Zenon DEF Edge
<1>2. waiting[c] = IF Isolate THEN {} ELSE {seen[c][i] : i \in (answered[s] + 1)..Len(seen[c])}
  BY Zenon DEF WaitingInv
<1>3. /\ seen[c] \in Seq(Nat) /\ Mst(c) \in Nat /\ answered[s] \in Nat /\ answered'[s] \in Nat
  BY <1>0, ChannelEdge, CountEdge, Zenon DEF Types
<1>4. CASE Isolate
  <2>1. new = {}
    BY <1>4, Zenon DEF Accepts
  <2>2. waiting'[c] = {}
    BY <1>1, <1>2, <1>4, <2>1, Zenon
  <2>3. ASSUME ~Isolate' PROVE answered'[s] = Len(seen'[c])
    <3>1. \A t \in Sides : iso_state'[t] = "isolate"
      BY <1>4, <2>3, WindowEdge, Zenon
    <3>2. \A d \in ChannelsOf(s) : count'[d] = 0
      BY <1>0, <3>1, DrainedEdge, Zenon
    <3>3. /\ Addr(s) \in ChannelsOf(s) /\ Addr(s) \in Channels
          /\ c = "w" => s = "wr" /\ Addr(s) = "aw"
      BY <1>0, SideFacts, ChannelFacts, Zenon
    <3>4. \A d \in Channels : Len(seen'[d]) \in Nat
      <4> TAKE d \in Channels
      <4>1. seen[d] \in Seq(Nat) /\ Mst(d) \in Nat
        BY ChannelEdge, Zenon DEF Types
      <4>2. seen'[d] \in Seq(Nat)
        BY <4>1, ChannelEdge, AppendFacts, ZenonT(60)
      <4> QED BY <4>2
    <3>5. 0 = Len(seen'[Addr(s)]) + 0 - answered'[s]
      BY <1>0, <3>1, <3>2, <3>3, Zenon DEF CountInv, Unit
    <3>6. c = "w" => 0 = Len(seen'["aw"]) + 0 - Len(seen'["w"])
      BY <1>0, <3>1, <3>2, <3>3, Zenon DEF CountInv, Unit
    <3>7. \A x, y \in Nat : 0 = x + 0 - y => y = x
      OBVIOUS
    <3>8. answered'[s] = Len(seen'[Addr(s)])
      BY <1>3, <3>3, <3>4, <3>5, <3>7, Zenon
    <3>9. CASE c = "w"
      BY <3>3, <3>4, <3>6, <3>7, <3>8, <3>9, ChannelFacts, Zenon
    <3> QED BY <1>0, <3>8, <3>9, Zenon
  <2>4. ~Isolate' => {seen'[c][i] : i \in (answered'[s] + 1)..Len(seen'[c])} = {}
    <3> SUFFICES ASSUME ~Isolate'
                 PROVE  {seen'[c][i] : i \in (answered'[s] + 1)..Len(seen'[c])} = {}
      BY Zenon
    <3>1. (answered'[s] + 1)..Len(seen'[c]) = {}
      BY <1>3, <2>3
    <3> QED BY <3>1, Zenon
  <2> QED BY <2>2, <2>4, Zenon
<1>5. CASE ~Isolate
  <2>1. ~Isolate'
    BY <1>5, WindowEdge, Zenon
  <2>2. Mst(c) = core[c] /\ (Accepts(c, ready) <=> Fires(c, ready))
    BY <1>5, FreshEdge, Zenon
  <2>3. /\ Len(seen[c]) \in Nat /\ Len(seen'[c]) \in Nat /\ seen'[c] \in Seq(Nat)
        /\ \A i \in 1..Len(seen[c]) : seen'[c][i] = seen[c][i]
        /\ \/ Len(seen'[c]) = Len(seen[c]) /\ new = {}
           \/ Len(seen'[c]) = Len(seen[c]) + 1 /\ new = {seen'[c][Len(seen[c]) + 1]}
    <3>1. CASE Fires(c, ready)
      <4>1. seen'[c] = Append(seen[c], Mst(c))
        BY <3>1, ChannelEdge, Zenon
      <4>2. new = {core[c]}
        BY <2>2, <3>1, Zenon
      <4>3. seen'[c][Len(seen[c]) + 1] = core[c]
        BY <1>3, <2>2, <4>1
      <4>4. /\ Len(seen[c]) \in Nat /\ seen'[c] \in Seq(Nat)
            /\ Len(seen'[c]) = Len(seen[c]) + 1
            /\ \A i \in 1..Len(seen[c]) : seen'[c][i] = seen[c][i]
        BY <1>3, <4>1, AppendFacts
      <4>5. Len(seen'[c]) \in Nat
        BY <4>4
      <4> QED BY <4>2, <4>3, <4>4, <4>5, Zenon
    <3>2. CASE ~Fires(c, ready)
      <4>1. seen'[c] = seen[c] /\ new = {}
        BY <2>2, <3>2, ChannelEdge, Zenon
      <4>2. Len(seen[c]) \in Nat
        BY <1>3
      <4> QED BY <1>3, <4>1, <4>2, Zenon
    <3> QED BY <3>1, <3>2, Zenon
  <2>4. /\ \A i \in 1..Len(seen'[c]) : seen'[c][i] \in Nat /\ i <= seen'[c][i]
        /\ \A i, j \in 1..Len(seen'[c]) : i < j => seen'[c][i] < seen'[c][j]
    <3>1. Presented(c)' = Len(seen'[c]) + 0 \/ Presented(c)' = Len(seen'[c]) + 1
      BY Zenon DEF Presented, Unit
    <3>2. \A i \in 1..Len(seen'[c]) : i \in 1..Presented(c)' /\ At(c, i)' = seen'[c][i]
      BY <2>3, <3>1 DEF At
    <3>3. /\ \A i \in 1..Presented(c)' : i <= At(c, i)'
          /\ \A i, j \in 1..Presented(c)' : i < j => At(c, i)' < At(c, j)'
      BY ChannelOrderEdge, Zenon
    <3>4. \A i \in 1..Len(seen'[c]) : seen'[c][i] \in Nat
      BY <2>3
    <3> QED BY <3>2, <3>3, <3>4, Zenon
  <2>5. \/ answered'[s] = answered[s] /\ gone \subseteq {0}
        \/ /\ answered'[s] = answered[s] + 1 /\ answered'[s] <= Len(seen'[c])
           /\ gone = {seen'[c][answered[s] + 1]}
    <3>1. answered'[s] = answered[s] + (IF RspFires(s, take) THEN 1 ELSE 0)
      BY <1>0, Zenon DEF Edge, Unit
    <3>2. CASE RspFires(s, take)
      <4>1. RspValid(s) /\ s \in take /\ rsp[s]
        BY <1>5, <3>2, Zenon DEF RspFires, RspValid
      <4>2. gone = {seen[Addr(s)][answered[s] + 1]}
        BY <1>5, <4>1, Zenon DEF ToCore, Oldest, Addr
      <4>3. /\ answered[s] < Len(seen[c]) /\ answered[s] < Len(seen[Addr(s)])
            /\ Len(seen[Addr(s)]) \in Nat
        BY <1>0, <4>1, SideFacts, SMTT(30) DEF CountInv, Types
      <4>4. /\ answered[s] + 1 \in Nat
            /\ answered[s] + 1 \in 1..Len(seen[c]) /\ answered[s] + 1 \in 1..Len(seen[Addr(s)])
        BY <1>3, <2>3, <4>3, SMTT(30)
      <4>5. seen[Addr(s)][answered[s] + 1] = seen[c][answered[s] + 1]
        <5>1. CASE c = "w"
          <6>1. Addr(s) = "aw"
            BY <5>1, ChannelFacts, Zenon
          <6> QED BY <4>4, <5>1, <6>1, SeenFacts, Zenon
        <5> QED BY <1>0, <5>1, Zenon
      <4>6. seen'[c][answered[s] + 1] = seen[c][answered[s] + 1]
        BY <2>3, <4>4, Zenon
      <4>7. answered'[s] = answered[s] + 1
        BY <3>1, <3>2, Zenon
      <4>8. answered'[s] <= Len(seen'[c])
        BY <1>0, Zenon DEF CountInv
      <4> QED BY <4>2, <4>5, <4>6, <4>7, <4>8, Zenon
    <3>3. CASE ~RspFires(s, take)
      <4>1. answered'[s] = answered[s]
        BY <1>3, <3>1, <3>3
      <4>2. s \in take => ToCore(s) = 0
        BY <1>5, <3>3, Zenon DEF RspFires, ToCore, None
      <4> QED BY <4>1, <4>2, Zenon
    <3> QED BY <3>2, <3>3, Zenon
  <2>6. answered[s] <= Len(seen[c])
    BY <1>0, ZenonT(60) DEF CountInv
  <2>7. ({seen[c][i] : i \in (answered[s] + 1)..Len(seen[c])} \union new) \ gone
          = {seen'[c][i] : i \in (answered'[s] + 1)..Len(seen'[c])}
    <3> HIDE DEF new, gone, s
    <3>1. Advances(seen[c], seen'[c], Len(seen[c]), Len(seen'[c]), answered[s], answered'[s],
                   new, gone)
      BY <1>3, <2>3, <2>4, <2>5, <2>6, Zenon DEF Advances
    <3> QED BY <3>1, WaitingSet
  <2> QED BY <1>1, <1>2, <1>5, <2>1, <2>7, Zenon
<1> QED BY <1>4, <1>5, Zenon

\* The types at an edge.
LEMMA TypesEdge ==
  ASSUME BridgeInv, NEW ready, NEW take, NEW lift \in BOOLEAN, Edge(ready, take, lift)
  PROVE  Types' /\ stalled' = held'
<1> USE DEF BridgeInv
<1>1. {ndm', rst', init_q', pending', ack', isolate_q'} \subseteq BOOLEAN
  BY WindowEdge, Zenon
<1>2. core' \in [Channels -> Nat]
  <2>1. \A c \in Channels : (IF Accepts(c, ready) THEN None ELSE core[c]) \in Nat
    BY Zenon DEF Types, None
  <2> QED BY <2>1, Zenon DEF Edge
<1>3. held' \in [Channels -> Nat] /\ stalled' = held'
  <2>1. \A c \in Channels : HeldAfter(c, ready) \in Nat
    BY ChannelEdge, Zenon DEF HeldAfter, None
  <2>2. held' = [c \in Channels |-> HeldAfter(c, ready)]
    BY Zenon DEF Edge
  <2>3. stalled' = [c \in Channels |-> HeldAfter(c, ready)]
    BY Zenon DEF Edge, HeldAfter
  <2> QED BY <2>1, <2>2, <2>3, Zenon
<1>4. iso_state' \in [Sides -> {"normal", "hold", "drain", "isolate"}]
  <2>1. iso_state' = [t \in Sides |-> StateAfter(t, ready)]
    BY Zenon DEF Edge
  <2>2. \A t \in Sides : iso_state'[t] \in {"normal", "hold", "drain", "isolate"}
    BY SideEdge, Zenon
  <2> QED BY <2>1, <2>2, Zenon
<1>5. count' \in [Channels -> Nat]
  <2>1. count' = [c \in Channels |-> CountAfter(c, ready, take)]
    BY Zenon DEF Edge
  <2>2. \A c \in Channels : count'[c] \in Nat
    BY CountEdge, Zenon
  <2> QED BY <2>1, <2>2, Zenon
<1>6. seen' \in [Channels -> Seq(Nat)]
  <2>1. \A c \in Channels :
          (IF Fires(c, ready) THEN Append(seen[c], Mst(c)) ELSE seen[c]) \in Seq(Nat)
    <3> TAKE c \in Channels
    <3>1. seen[c] \in Seq(Nat) /\ Mst(c) \in Nat
      BY ChannelEdge, Zenon DEF Types
    <3> QED BY <3>1, AppendFacts, Zenon
  <2> QED BY <2>1, Zenon DEF Edge
<1>7. answered' \in [Sides -> Nat] /\ rsp' \in [Sides -> BOOLEAN]
  <2>1. /\ answered' = [t \in Sides |-> answered[t] + Unit(RspFires(t, take))]
        /\ rsp' = [t \in Sides |-> rsp[t] /\ ~RspFires(t, take)]
    BY Zenon DEF Edge
  <2>2. \A t \in Sides : answered'[t] \in Nat /\ rsp'[t] \in BOOLEAN
    BY CountEdge, Zenon
  <2>3. answered' \in [Sides -> Nat]
    BY <2>1, <2>2, Zenon
  <2>4. rsp' \in [Sides -> BOOLEAN]
    BY <2>1, Zenon
  <2> QED BY <2>3, <2>4, Zenon
<1>8. waiting' \in [Channels -> SUBSET Nat]
  <2> DEFINE f(c) == (waiting[c] \union (IF Accepts(c, ready) THEN {core[c]} ELSE {}))
                     \ (IF SideOf(c) \in take THEN {ToCore(SideOf(c))} ELSE {})
  <2>1. waiting' = [c \in Channels |-> f(c)]
    BY Zenon DEF Edge
  <2>2. \A c \in Channels : f(c) \in SUBSET Nat
    BY Zenon DEF Types
  <2> HIDE DEF f
  <2> QED BY <2>1, <2>2, Zenon
<1>9. issued' = issued /\ resets' = resets
  BY Zenon DEF Edge
<1> QED BY <1>1, <1>2, <1>3, <1>4, <1>5, <1>6, <1>7, <1>8, <1>9, Zenon DEF Types

\* An edge keeps the invariant.
LEMMA EdgeStep ==
  ASSUME BridgeInv, NEW ready, NEW take, NEW lift \in BOOLEAN, Edge(ready, take, lift)
  PROVE  BridgeInv'
<1>1. Types /\ WindowInv /\ CountInv /\ OrderInv /\ WaitingInv
  BY Zenon DEF BridgeInv
<1>2. Types' /\ stalled' = held'
  BY TypesEdge, Zenon
<1>3. WindowInv'
  BY <1>1, WindowInvEdge, Zenon
<1>4. CountInv' /\ OrderInv'
  BY <1>1, CountEdge, OrderEdge, Zenon
<1>5. WaitingInv'
  BY <1>1, <1>4, WaitingEdge, Zenon
<1> QED BY <1>2, <1>3, <1>4, <1>5, Zenon DEF BridgeInv

-----------------------------------------------------------------------------
(* Between edges.                                                           *)

\* The core presents a request.
LEMMA PresentStep ==
  ASSUME BridgeInv, NEW s \in Sides, Present(s)
  PROVE  BridgeInv'
<1> USE DEF BridgeInv
<1>1. /\ rst /\ UNCHANGED <<ndm, rst, init_q, pending, ack, isolate_q, held, iso_state, count>>
      /\ UNCHANGED <<seen, answered, rsp, waiting, stalled, resets>>
      /\ issued[s] < MaxReqs
      /\ issued' = [issued EXCEPT ![s] = @ + 1]
      /\ core' = [c \in Channels |-> IF SideOf(c) = s THEN issued[s] + 1 ELSE core[c]]
      /\ \A c \in Channels : SideOf(c) = s => core[c] = None
  BY Zenon DEF Present, ChannelsOf
<1>2. Isolate' = Isolate
  BY <1>1, Zenon DEF Isolate, Isolated
<1>3. /\ \A t \in Sides : issued[t] \in Nat /\ issued'[t] \in Requests
      /\ \A t \in Sides : issued'[t] = IF t = s THEN issued[t] + 1 ELSE issued[t]
  BY <1>1, BridgeAssumption DEF Types, Requests
<1>4. Types'
  <2>1. core' \in [Channels -> Nat]
    BY <1>1, <1>3 DEF Types
  <2>2. issued' \in [Sides -> Requests]
    BY <1>1, <1>3, Zenon DEF Types
  <2> QED BY <1>1, <2>1, <2>2, Zenon DEF Types
<1>5. WindowInv'
  BY <1>1, Zenon DEF WindowInv
<1>6. CountInv'
  BY <1>1, Zenon DEF CountInv
<1>7. WaitingInv'
  BY <1>1, <1>2, Zenon DEF WaitingInv
<1>8. \A c \in Channels : /\ Presented(c)' = Presented(c)
                          /\ \A i : At(c, i)' = At(c, i)
  BY <1>1, Zenon DEF Presented, At
<1>9. ASSUME NEW c \in Channels
      PROVE  /\ \A i \in 1..Presented(c) : i <= At(c, i) /\ At(c, i) <= issued'[SideOf(c)]
             /\ \A i, j \in 1..Presented(c) : i < j => At(c, i) < At(c, j)
             /\ core'[c] <= issued'[SideOf(c)]
             /\ Fresh(c)' => \A i \in 1..Presented(c) : At(c, i) < core'[c]
             /\ ~Isolate' /\ held'[c] # None => core'[c] = held'[c]
  <2>0. SideOf(c) \in Sides /\ Presented(c) \in Nat
    <3>1. Len(seen[c]) \in Nat
      BY DEF Types
    <3>2. Presented(c) = Len(seen[c]) + 0 \/ Presented(c) = Len(seen[c]) + 1
      BY Zenon DEF Presented, Unit
    <3> QED BY <3>1, <3>2, ChannelSide
  <2>1. /\ \A i \in 1..Presented(c) : i <= At(c, i) /\ At(c, i) <= issued[SideOf(c)]
        /\ \A i, j \in 1..Presented(c) : i < j => At(c, i) < At(c, j)
        /\ core[c] <= issued[SideOf(c)]
        /\ Fresh(c) => \A i \in 1..Presented(c) : At(c, i) < core[c]
        /\ ~Isolate /\ held[c] # None => core[c] = held[c]
    BY Zenon DEF OrderInv
  <2>2. \A i \in 1..Presented(c) : At(c, i) \in Nat
    <3>1. seen[c] \in Seq(Nat) /\ held[c] \in Nat
      BY Zenon DEF Types
    <3> QED BY <2>0, <3>1 DEF At
  <2>3. CASE SideOf(c) = s
    <3>1. /\ core'[c] = issued[s] + 1 /\ issued'[SideOf(c)] = issued[s] + 1 /\ core[c] = None
          /\ issued[s] \in Nat
      BY <1>1, <1>3, <2>0, <2>3, ZenonT(60)
    <3>2. \A i \in 1..Presented(c) : At(c, i) < issued[s] + 1 /\ At(c, i) <= issued[s] + 1
      BY <2>1, <2>2, <2>3, <3>1, SMTT(30)
    <3>3. core'[c] <= issued'[SideOf(c)]
      BY <3>1
    <3>4. ~Isolate' => held'[c] = None
      BY <1>1, <1>2, <2>1, <3>1, Zenon
    <3> QED BY <2>1, <3>1, <3>2, <3>3, <3>4, Zenon
  <2>4. CASE SideOf(c) # s
    <3>1. core'[c] = core[c] /\ issued'[SideOf(c)] = issued[SideOf(c)] /\ held'[c] = held[c]
      BY <1>1, <1>3, <2>0, <2>4, Zenon
    <3>2. Fresh(c)' => Fresh(c)
      BY <1>2, <3>1, Zenon DEF Fresh
    <3> QED BY <1>2, <2>1, <3>1, <3>2, Zenon
  <2> QED BY <2>3, <2>4, Zenon
<1>10. ASSUME Fresh("aw")' \/ Fresh("w")'
       PROVE  core'["aw"] = core'["w"] /\ (~Isolate' => held'["aw"] = None /\ held'["w"] = None)
  <2>0. "aw" \in Channels /\ "w" \in Channels /\ SideOf("aw") = "wr" /\ SideOf("w") = "wr"
    BY ChannelFacts, Zenon
  <2>1. CASE s = "wr"
    <3>1. core'["aw"] = core'["w"] /\ core["aw"] = None /\ core["w"] = None
      BY <1>1, <2>0, <2>1, Zenon
    <3>2. \A c \in Channels : ~Isolate /\ held[c] # None => core[c] = held[c]
      BY Zenon DEF OrderInv
    <3> QED BY <1>1, <1>2, <2>0, <3>1, <3>2, Zenon
  <2>2. CASE s # "wr"
    <3>1. core'["aw"] = core["aw"] /\ core'["w"] = core["w"]
      BY <1>1, <2>0, <2>2, Zenon
    <3>2. Fresh("aw") \/ Fresh("w")
      BY <1>1, <1>2, <1>10, <3>1, Zenon DEF Fresh
    <3> QED BY <1>1, <1>2, <3>1, <3>2, Zenon DEF OrderInv
  <2> QED BY <2>1, <2>2, Zenon
<1>11. /\ Presented("aw") = Presented("w")
       /\ \A i \in 1..Presented("aw") : At("aw", i) = At("w", i)
  BY ZenonT(60) DEF OrderInv
<1>12. OrderInv'
  BY <1>8, <1>9, <1>10, <1>11, ChannelFacts, SMTT(30) DEF OrderInv
<1> QED BY <1>1, <1>4, <1>5, <1>6, <1>7, <1>12, Zenon

\* The order is a function of what was issued, shown, held and presented.
LEMMA OrderKept ==
  ASSUME OrderInv, UNCHANGED <<seen, held, core, issued>>, Isolate' = Isolate
  PROVE  OrderInv'
<1>1. \A c \in Channels : /\ Presented(c)' = Presented(c)
                          /\ \A i : At(c, i)' = At(c, i)
                          /\ Fresh(c)' <=> Fresh(c)
  BY Zenon DEF Presented, At, Fresh
<1> QED
  BY <1>1, ChannelFacts DEF OrderInv

\* The fabric presents a response.
LEMMA RespondStep ==
  ASSUME BridgeInv, NEW s \in Sides, FabricResponds(s)
  PROVE  BridgeInv'
<1> USE DEF BridgeInv
<1>1. /\ UNCHANGED <<ndm, rst, init_q, pending, ack, isolate_q, core, held, iso_state, count>>
      /\ UNCHANGED <<seen, answered, waiting, stalled, issued, resets>>
      /\ rsp' = [rsp EXCEPT ![s] = TRUE]
      /\ \A c \in ChannelsOf(s) : Len(seen[c]) > answered[s]
  BY Zenon DEF FabricResponds
<1>2. Isolate' = Isolate
  BY <1>1, Zenon DEF Isolate, Isolated
<1>3. rsp' \in [Sides -> BOOLEAN]
  <2>1. rsp \in [Sides -> BOOLEAN]
    BY Zenon DEF Types
  <2> QED BY <1>1, <2>1, Zenon
<1>4. Types'
  BY <1>1, <1>3, Zenon DEF Types
<1>5. WindowInv'
  BY <1>1, Zenon DEF WindowInv
<1>6. CountInv'
  <2>1. ASSUME NEW t \in Sides, NEW c \in ChannelsOf(t), rsp'[t]
        PROVE  answered[t] < Len(seen[c])
    <3>1. CASE t = s
      <4>1. c \in Channels
        BY SideFacts, Zenon
      <4>2. Len(seen[c]) \in Nat /\ answered[s] \in Nat
        BY <4>1 DEF Types
      <4> QED BY <1>1, <3>1, <4>2, Zenon
    <3>2. CASE t # s
      <4>1. rsp \in [Sides -> BOOLEAN]
        BY Zenon DEF Types
      <4>2. rsp'[t] = rsp[t]
        BY <1>1, <3>2, <4>1, Zenon
      <4> QED BY <2>1, <4>2, Zenon DEF CountInv
    <3> QED BY <3>1, <3>2, Zenon
  <2> QED BY <1>1, <2>1, Zenon DEF CountInv
<1>7. OrderInv'
  BY <1>1, <1>2, OrderKept, Zenon
<1>8. WaitingInv'
  BY <1>1, <1>2, Zenon DEF WaitingInv
<1> QED BY <1>1, <1>4, <1>5, <1>6, <1>7, <1>8, Zenon

\* ndmreset asserts: the core drops what it presented.
LEMMA ResetStep ==
  ASSUME BridgeInv, Ndmreset
  PROVE  BridgeInv'
<1> USE DEF BridgeInv
<1>1. /\ UNCHANGED <<init_q, pending, ack, isolate_q, held, iso_state, count, seen, answered, rsp>>
      /\ UNCHANGED <<stalled, issued>>
      /\ ndm' = TRUE /\ rst' = FALSE /\ core' = Nothing
      /\ waiting' = [c \in Channels |-> {}]
      /\ resets < MaxResets /\ resets' = resets + 1
  BY Zenon DEF Ndmreset
<1>2. Isolate'
  BY <1>1, Zenon DEF Isolate
<1>3. Types'
  <2>1. core' \in [Channels -> Nat]
    BY <1>1, Zenon DEF Nothing, None
  <2>2. waiting' \in [Channels -> SUBSET Nat]
    BY <1>1, Zenon
  <2>3. resets' \in 0..MaxResets
    BY <1>1, BridgeAssumption DEF Types
  <2> QED BY <1>1, <2>1, <2>2, <2>3, Zenon DEF Types
<1>4. WindowInv'
  BY <1>1, Zenon DEF WindowInv
<1>5. CountInv'
  BY <1>1, Zenon DEF CountInv
<1>6. \A c \in Channels : /\ Presented(c)' = Presented(c)
                          /\ \A i : At(c, i)' = At(c, i)
  BY <1>1, Zenon DEF Presented, At
<1>7. \A c \in Channels : core'[c] = 0 /\ issued'[SideOf(c)] = issued[SideOf(c)] /\ 0 <= issued[SideOf(c)]
  BY <1>1, ChannelSide, BridgeAssumption DEF Nothing, None, Types, Requests
<1>8. \A c \in Channels : ~Fresh(c)'
  BY <1>7, ZenonT(60) DEF Fresh, None
<1>9. OrderInv'
  BY <1>2, <1>6, <1>7, <1>8, ChannelFacts DEF OrderInv
<1>10. WaitingInv'
  BY <1>1, <1>2, Zenon DEF WaitingInv
<1> QED BY <1>1, <1>3, <1>4, <1>5, <1>9, <1>10, Zenon

\* ndmreset ends.
LEMMA ResetEndsStep ==
  ASSUME BridgeInv, NdmresetEnds
  PROVE  BridgeInv'
<1> USE DEF BridgeInv
<1>1. /\ UNCHANGED <<rst, init_q, pending, ack, isolate_q, core, held, iso_state, count, seen>>
      /\ UNCHANGED <<answered, rsp, waiting, stalled, issued, resets>>
      /\ ndm' = FALSE
  BY Zenon DEF NdmresetEnds
<1>2. Isolate' = Isolate
  BY <1>1, Zenon DEF Isolate, Isolated
<1>3. Types'
  BY <1>1, Zenon DEF Types
<1>4. WindowInv'
  BY <1>1, Zenon DEF WindowInv
<1>5. CountInv'
  BY <1>1, Zenon DEF CountInv
<1>6. OrderInv'
  BY <1>1, <1>2, OrderKept, Zenon
<1>7. WaitingInv'
  BY <1>1, <1>2, Zenon DEF WaitingInv
<1> QED BY <1>1, <1>3, <1>4, <1>5, <1>6, <1>7, Zenon

\* Nothing happens.
LEMMA StutterStep ==
  ASSUME BridgeInv, UNCHANGED vars
  PROVE  BridgeInv'
<1> USE DEF BridgeInv
<1>1. /\ UNCHANGED <<ndm, rst, init_q, pending, ack, isolate_q, core, held, iso_state, count>>
      /\ UNCHANGED <<seen, answered, rsp, waiting, stalled, issued, resets>>
  BY Zenon DEF vars
<1>2. Isolate' = Isolate
  BY <1>1, Zenon DEF Isolate, Isolated
<1>3. Types' /\ WindowInv' /\ CountInv'
  BY <1>1, ZenonT(60) DEF Types, WindowInv, CountInv
<1>4. OrderInv'
  BY <1>1, <1>2, OrderKept, Zenon
<1>5. WaitingInv'
  BY <1>1, <1>2, Zenon DEF WaitingInv
<1> QED BY <1>1, <1>3, <1>4, <1>5, Zenon

\* The invariant at power-up.
LEMMA BridgeInitOK == Init => BridgeInv
<1> SUFFICES ASSUME Init PROVE BridgeInv
  BY Zenon
<1> USE DEF Init
<1>1. Types
  <2>1. /\ core \in [Channels -> Nat] /\ held \in [Channels -> Nat]
        /\ count \in [Channels -> Nat] /\ answered \in [Sides -> Nat]
    BY Zenon DEF Nothing, None
  <2>2. /\ issued \in [Sides -> Requests] /\ resets \in 0..MaxResets
    BY BridgeAssumption DEF Requests
  <2>3. /\ iso_state \in [Sides -> {"normal", "hold", "drain", "isolate"}]
        /\ waiting \in [Channels -> SUBSET Nat] /\ rsp \in [Sides -> BOOLEAN]
    BY Zenon
  <2>4. seen \in [Channels -> Seq(Nat)]
    OBVIOUS
  <2> QED BY <2>1, <2>2, <2>3, <2>4, Zenon DEF Types
<1>2. WindowInv
  BY SideFacts, Zenon DEF WindowInv, Nothing, None
<1>3. \A c \in Channels : seen[c] = <<>> /\ Len(seen[c]) = 0 /\ held[c] = 0 /\ core[c] = 0
  BY Zenon DEF Nothing, None
<1>4. CountInv
  <2>1. \A s \in Sides : iso_state[s] # "hold" /\ answered[s] = 0 /\ rsp[s] = FALSE
    BY Zenon
  <2>2. \A s \in Sides : count[Addr(s)] = 0 + 0 - 0 /\ Len(seen[Addr(s)]) = 0
    BY <1>3, SideFacts
  <2>3. count["w"] = 0 + 0 - 0 /\ Len(seen["aw"]) = 0 /\ Len(seen["w"]) = 0 /\ "wr" \in Sides
    BY <1>3, ChannelFacts
  <2>4. \A s \in Sides : \A c \in ChannelsOf(s) : Len(seen[c]) = 0
    BY <1>3, SideFacts, Zenon
  <2>5. ASSUME NEW s \in Sides
        PROVE  /\ count[Addr(s)] = Len(seen[Addr(s)]) + Unit(iso_state[s] = "hold") - answered[s]
               /\ \A c \in ChannelsOf(s) : /\ answered[s] <= Len(seen[c])
                                           /\ rsp[s] => answered[s] < Len(seen[c])
    BY <2>1, <2>2, <2>4 DEF Unit
  <2>6. count["w"] = Len(seen["aw"]) + Unit(iso_state["wr"] = "hold") - Len(seen["w"])
    BY <2>1, <2>3, Zenon DEF Unit
  <2> QED BY <2>5, <2>6, Zenon DEF CountInv
<1>5. OrderInv
  <2>1. \A c \in Channels : Presented(c) = 0 + 0 /\ ~Fresh(c)
    BY <1>3, Zenon DEF Presented, Unit, Fresh, None
  <2>2. \A c \in Channels : Presented(c) = 0 /\ 1..Presented(c) = {}
    BY <2>1
  <2>3. \A c \in Channels : core[c] <= issued[SideOf(c)]
    BY <1>3, ChannelSide
  <2> QED BY <1>3, <2>1, <2>2, <2>3, ChannelFacts, Zenon DEF OrderInv, None
<1>6. WaitingInv
  <2>1. Isolate
    BY Zenon DEF Isolate
  <2> QED BY <2>1, Zenon DEF WaitingInv
<1> QED BY <1>1, <1>2, <1>4, <1>5, <1>6, Zenon DEF BridgeInv

\* The invariant that carries the properties of the reset bridge holds in every
\* state.
THEOREM BridgeSafe == Spec => []BridgeInv
<1>1. BridgeInv /\ [Next]_vars => BridgeInv'
  BY EdgeStep, PresentStep, RespondStep, ResetStep, ResetEndsStep, StutterStep, Zenon DEF Next
<1> QED BY BridgeInitOK, <1>1, PTL DEF Spec

-----------------------------------------------------------------------------
(* The properties.                                                          *)

\* What a channel has presented is bounded by what the core has issued.
LEMMA Bounds ==
  ASSUME BridgeInv, NEW c \in Channels
  PROVE  /\ Presented(c) \in Nat /\ Len(seen[c]) \in Nat
         /\ issued[SideOf(c)] \in Nat /\ issued[SideOf(c)] <= MaxReqs
         /\ Presented(c) <= issued[SideOf(c)] /\ Len(seen[c]) <= Presented(c)
         /\ held[c] # None => Presented(c) = Len(seen[c]) + 1
         /\ held[c] \in Requests
<1> USE DEF BridgeInv
<1>1. Len(seen[c]) \in Nat /\ held[c] \in Nat
  BY DEF Types
<1>2. issued[SideOf(c)] \in Nat /\ issued[SideOf(c)] <= MaxReqs
  BY ChannelSide, BridgeAssumption DEF Types, Requests
<1>3. /\ Presented(c) = Len(seen[c]) + 0 \/ Presented(c) = Len(seen[c]) + 1
      /\ held[c] # None => Presented(c) = Len(seen[c]) + 1
  BY Zenon DEF Presented, Unit
<1>4. Presented(c) \in Nat /\ Len(seen[c]) <= Presented(c)
  BY <1>1, <1>3
<1>5. Presented(c) <= issued[SideOf(c)]
  <2>1. CASE Presented(c) = 0
    BY <1>2, <2>1
  <2>2. CASE Presented(c) # 0
    <3>1. Presented(c) \in 1..Presented(c)
      BY <1>4, <2>2
    <3>2. At(c, Presented(c)) \in Nat
      <4>1. seen[c] \in Seq(Nat)
        BY Zenon DEF Types
      <4> QED BY <1>1, <3>1, <4>1 DEF At
    <3>3. Presented(c) <= At(c, Presented(c)) /\ At(c, Presented(c)) <= issued[SideOf(c)]
      BY <3>1, Zenon DEF OrderInv
    <3> QED BY <1>2, <1>4, <3>2, <3>3
  <2> QED BY <2>1, <2>2, Zenon
<1>6. held[c] \in Requests
  <2>1. CASE held[c] = None
    BY <2>1, BridgeAssumption DEF None, Requests
  <2>2. CASE held[c] # None
    <3>1. Len(seen[c]) + 1 \in 1..Presented(c)
      BY <1>1, <1>3, <2>2
    <3>2. At(c, Len(seen[c]) + 1) = held[c]
      BY <1>1 DEF At
    <3>3. At(c, Len(seen[c]) + 1) <= issued[SideOf(c)]
      BY <3>1, Zenon DEF OrderInv
    <3> QED BY <1>1, <1>2, <3>2, <3>3, BridgeAssumption DEF Requests
  <2> QED BY <2>1, <2>2, Zenon
<1> QED BY <1>1, <1>2, <1>3, <1>4, <1>5, <1>6, Zenon

\* The invariant has the types of the model.
LEMMA TypeFacts ==
  ASSUME BridgeInv
  PROVE  TypeOK
<1> USE DEF BridgeInv
<1>1. {ndm, rst, init_q, pending, ack, isolate_q} \subseteq BOOLEAN
  BY Zenon DEF Types
<1>2. {core, held, stalled} \subseteq [Channels -> Requests]
  <2>1. held \in [Channels -> Requests]
    BY Bounds, Zenon DEF Types
  <2>2. \A c \in Channels : core[c] \in Requests
    <3> TAKE c \in Channels
    <3>1. core[c] \in Nat /\ core[c] <= issued[SideOf(c)]
      BY Zenon DEF Types, OrderInv
    <3>2. issued[SideOf(c)] \in Nat /\ issued[SideOf(c)] <= MaxReqs
      BY Bounds, Zenon
    <3> QED BY <3>1, <3>2, BridgeAssumption DEF Requests
  <2> QED BY <2>1, <2>2, Zenon DEF Types
<1>3. \A c \in Channels : /\ Len(seen[c]) <= MaxReqs /\ seen[c] \in Seq(Requests)
  <2> TAKE c \in Channels
  <2>1. seen[c] \in Seq(Nat) /\ Len(seen[c]) \in Nat
    BY DEF Types
  <2>2. /\ Presented(c) \in Nat /\ issued[SideOf(c)] \in Nat /\ issued[SideOf(c)] <= MaxReqs
        /\ Presented(c) <= issued[SideOf(c)] /\ Len(seen[c]) <= Presented(c)
    BY Bounds, Zenon
  <2>3. Len(seen[c]) <= MaxReqs
    BY <2>1, <2>2, BridgeAssumption
  <2>4. \A i \in 1..Len(seen[c]) : seen[c][i] \in Requests
    <3> TAKE i \in 1..Len(seen[c])
    <3>1. seen[c][i] \in Nat /\ seen[c][i] <= issued[SideOf(c)]
      BY <2>1, SeenFacts
    <3> QED BY <2>2, <3>1, BridgeAssumption DEF Requests
  <2>5. seen[c] \in Seq(Requests)
    BY <2>1, <2>4, SMTT(30)
  <2> QED BY <2>3, <2>5, Zenon
<1>4. \A s \in Sides : answered[s] \in Requests
  <2> TAKE s \in Sides
  <2>1. answered[s] \in Nat /\ answered[s] <= Len(seen[Addr(s)]) /\ Addr(s) \in Channels
    BY SideFacts, Zenon DEF Types, CountInv
  <2>2. Len(seen[Addr(s)]) \in Nat /\ Len(seen[Addr(s)]) <= MaxReqs
    BY <1>3, <2>1, Bounds, Zenon
  <2> QED BY <2>1, <2>2, BridgeAssumption DEF Requests
<1>5. \A c \in Channels : count[c] \in 0..MaxReqs
  <2>1. ASSUME NEW s \in Sides, NEW x \in Nat, NEW n \in Nat,
               n = Len(seen[Addr(s)]) + Unit(iso_state[s] = "hold") - x
        PROVE  n \in 0..MaxReqs
    <3>1. /\ Addr(s) \in Channels
          /\ iso_state[s] = "hold" => held[Addr(s)] # None
      BY SideFacts, Zenon DEF WindowInv
    <3>2. /\ Presented(Addr(s)) \in Nat /\ Len(seen[Addr(s)]) \in Nat
          /\ Len(seen[Addr(s)]) <= Presented(Addr(s))
          /\ Presented(Addr(s)) <= MaxReqs
          /\ iso_state[s] = "hold" => Presented(Addr(s)) = Len(seen[Addr(s)]) + 1
      BY <3>1, Bounds, BridgeAssumption
    <3>3. CASE iso_state[s] = "hold"
      <4>1. n = Len(seen[Addr(s)]) + 1 - x
        BY <2>1, <3>3, Zenon DEF Unit
      <4> QED BY <3>2, <3>3, <4>1, BridgeAssumption
    <3>4. CASE iso_state[s] # "hold"
      <4>1. n = Len(seen[Addr(s)]) + 0 - x
        BY <2>1, <3>4, Zenon DEF Unit
      <4>2. Len(seen[Addr(s)]) <= MaxReqs
        BY <3>2, BridgeAssumption
      <4>3. \A l \in Nat : l <= MaxReqs /\ n = l + 0 - x => n \in 0..MaxReqs
        BY BridgeAssumption
      <4> QED BY <3>2, <4>1, <4>2, <4>3, Zenon
    <3> QED BY <3>3, <3>4, Zenon
  <2>2. \A s \in Sides : count[Addr(s)] \in 0..MaxReqs
    <3> TAKE s \in Sides
    <3>1. count[Addr(s)] \in Nat /\ answered[s] \in Nat
      BY SideFacts, Zenon DEF Types
    <3>2. count[Addr(s)] = Len(seen[Addr(s)]) + Unit(iso_state[s] = "hold") - answered[s]
      BY Zenon DEF CountInv
    <3> QED BY <2>1, <3>1, <3>2, Zenon
  <2>3. count["w"] \in 0..MaxReqs
    <3>1. count["w"] \in Nat /\ Len(seen["w"]) \in Nat /\ "wr" \in Sides /\ Addr("wr") = "aw"
      BY ChannelFacts, Bounds, Zenon DEF Types
    <3>2. count["w"] = Len(seen["aw"]) + Unit(iso_state["wr"] = "hold") - Len(seen["w"])
      BY Zenon DEF CountInv
    <3> QED BY <2>1, <3>1, <3>2
  <2> QED BY <2>2, <2>3, ChannelSide, Zenon
<1>6. \A c \in Channels : waiting[c] \in SUBSET Requests
  <2> TAKE c \in Channels
  <2>1. answered[SideOf(c)] \in Nat /\ Len(seen[c]) \in Nat
    BY ChannelSide, Bounds, Zenon DEF Types
  <2>2. \A i \in (answered[SideOf(c)] + 1)..Len(seen[c]) : i \in 1..Len(seen[c])
    BY <2>1
  <2>3. \A i \in 1..Len(seen[c]) : seen[c][i] \in Requests
    BY <1>3
  <2>4. {seen[c][i] : i \in (answered[SideOf(c)] + 1)..Len(seen[c])} \subseteq Requests
    BY <2>2, <2>3, Zenon
  <2>5. waiting[c] = {} \/ waiting[c] = {seen[c][i] : i \in (answered[SideOf(c)] + 1)..Len(seen[c])}
    BY Zenon DEF WaitingInv
  <2> QED BY <2>4, <2>5, Zenon
<1>7. count \in [Channels -> 0..MaxReqs] /\ waiting \in [Channels -> SUBSET Requests]
  BY <1>5, <1>6, Zenon DEF Types
<1>8. answered \in [Sides -> Requests]
  BY <1>4, Zenon DEF Types
<1> QED BY <1>1, <1>2, <1>3, <1>7, <1>8, Zenon DEF TypeOK, Types

\* soc_axi_reset_bridge: through every reset of the core a request that the fabric
\* was shown stays until it is taken, and the n-th W belongs to the n-th AW.
THEOREM FabricNeverDisturbed == Spec => []FabricUndisturbed
<1>1. BridgeInv => FabricUndisturbed
  <2> SUFFICES ASSUME BridgeInv PROVE FabricUndisturbed
    BY Zenon
  <2>1. Types /\ OrderInv /\ stalled = held
    BY Zenon DEF BridgeInv
  <2>2. HandshakeKept
    BY <2>1, TypeFacts, Zenon DEF HandshakeKept, Mst
  <2>3. WritesPaired
    <3> SUFFICES ASSUME NEW i \in 1..MaxReqs, i <= Len(seen["aw"]), i <= Len(seen["w"])
                 PROVE  seen["aw"][i] = seen["w"][i]
      BY Zenon DEF WritesPaired
    <3>1. Len(seen["aw"]) \in Nat /\ Len(seen["w"]) \in Nat
      BY ChannelFacts, Bounds, Zenon
    <3>2. i \in Nat /\ i \in 1..Len(seen["aw"]) /\ i \in 1..Len(seen["w"])
      BY <3>1, BridgeAssumption
    <3> QED BY <2>1, <3>2, SeenFacts, Zenon
  <2> QED BY <2>2, <2>3, Zenon DEF FabricUndisturbed
<1> QED BY <1>1, BridgeSafe, PTL

\* The gating of the readies and of the responses: a request the core saw accepted
\* was accepted, and a response it sees answers one of its present life.
THEOREM CoreAlwaysSeesItsOwn == Spec => []CoreSeesItsOwn
<1>1. BridgeInv => CoreSeesItsOwn
  <2> SUFFICES ASSUME BridgeInv PROVE CoreSeesItsOwn
    BY Zenon
  <2>1. Types /\ OrderInv /\ CountInv /\ WaitingInv
    BY Zenon DEF BridgeInv
  <2>2. ASSUME NEW c \in Channels
        PROVE  /\ answered[SideOf(c)] \in Nat /\ Len(seen[c]) \in Nat
               /\ DOMAIN seen[c] = 1..Len(seen[c])
    BY <2>1, ChannelSide, Bounds DEF Types
  <2>3. ASSUME NEW c \in Channels, NEW r \in waiting[c]
        PROVE  r \in Range(seen[c])
    <3>1. PICK i \in (answered[SideOf(c)] + 1)..Len(seen[c]) : r = seen[c][i]
      BY <2>1, <2>3, ZenonT(60) DEF WaitingInv
    <3>2. i \in DOMAIN seen[c]
      BY <2>2
    <3> QED BY <3>1, <3>2, Zenon DEF Range
  <2>4. ASSUME NEW s \in Sides, ToCore(s) # None, NEW c \in ChannelsOf(s)
        PROVE  ToCore(s) \in waiting[c]
    <3>0. c \in Channels /\ SideOf(c) = s /\ Addr(s) \in Channels /\ Addr(s) \in ChannelsOf(s)
      BY SideFacts, Zenon
    <3>1. ~Isolate /\ rsp[s] /\ ToCore(s) = seen[Addr(s)][answered[s] + 1]
      BY <2>4, Zenon DEF ToCore, RspValid, Oldest, Addr
    <3>2. answered[s] < Len(seen[c]) /\ answered[s] < Len(seen[Addr(s)])
      BY <2>1, <3>0, <3>1, Zenon DEF CountInv
    <3>3. /\ answered[s] \in Nat /\ Len(seen[c]) \in Nat /\ Len(seen[Addr(s)]) \in Nat
      BY <2>2, <3>0, Zenon
    <3>4. /\ answered[s] + 1 \in Nat /\ answered[s] + 1 \in 1..Len(seen[c])
          /\ answered[s] + 1 \in 1..Len(seen[Addr(s)])
          /\ answered[s] + 1 \in (answered[s] + 1)..Len(seen[c])
      BY <3>2, <3>3
    <3>5. seen[Addr(s)][answered[s] + 1] = seen[c][answered[s] + 1]
      <4>1. c = Addr(s) \/ (c = "w" /\ Addr(s) = "aw")
        BY <3>0, ChannelSide, ChannelFacts, Zenon
      <4> QED BY <2>1, <3>4, <4>1, SeenFacts, Zenon
    <3>6. waiting[c] = {seen[c][i] : i \in (answered[s] + 1)..Len(seen[c])}
      BY <2>1, <3>0, <3>1, Zenon DEF WaitingInv
    <3> QED BY <3>1, <3>4, <3>5, <3>6, Zenon
  <2> QED BY <2>3, <2>4, Zenon DEF CoreSeesItsOwn
<1> QED BY <1>1, BridgeSafe, PTL

\* The assertion of soc_axi_reset_bridge: when the isolation window closes, no copy
\* is left to be issued for a core that has been reset since.
THEOREM NothingEverOutlives == Spec => []NothingOutlivesIsolation
<1>1. BridgeInv => NothingOutlivesIsolation
  <2> SUFFICES ASSUME BridgeInv, isolate_q, ~Isolate
               PROVE  held = Nothing /\ \A c \in Channels : count[c] = 0
    BY Zenon DEF NothingOutlivesIsolation
  <2>1. \A s \in Sides : iso_state[s] = "isolate"
    BY Zenon DEF Isolate, Isolated
  <2>2. \A c \in Channels : held[c] = None /\ count[c] = 0
    BY <2>1, ChannelSide DEF BridgeInv, WindowInv
  <2>3. held \in [Channels -> Nat]
    BY Zenon DEF BridgeInv, Types
  <2> QED BY <2>2, <2>3, Zenon DEF Nothing
<1> QED BY <1>1, BridgeSafe, PTL

-----------------------------------------------------------------------------
\* Arithmetic that the provers need step by step: products, quotients, remainders.
LEMMA ProductMonotone == ASSUME NEW q \in Nat, NEW a \in Int, NEW b \in Int, a <= b PROVE q * a <= q * b
BY SMT
\* What \div and % return.
LEMMA DivisionIs == ASSUME NEW x \in Nat, NEW q \in Int, q > 0
  PROVE x \div q \in Nat /\ x % q \in 0..(q - 1) /\ x = q * (x \div q) + (x % q)
<1>1. x \div q \in Int /\ x \div q >= 0
  BY SMT
<1>2. x % q \in 0..(q - 1)
  BY SMT
<1>3. x % q = x - q * (x \div q)
  OBVIOUS
<1>4. PICK k \in Nat, r \in 0..(q - 1) : k = x \div q /\ r = x % q
  BY <1>1, <1>2
<1>5. r = x - q * k
  BY <1>3, <1>4, Zenon
<1>6. x = q * k + r
  BY <1>5
<1> QED BY <1>1, <1>2, <1>4, <1>6, Zenon
\* A remainder is found by any decomposition.
LEMMA DivisionUnique == ASSUME NEW x \in Nat, NEW q \in Int, q > 0, NEW u \in Int, NEW w \in 0..(q-1), x = q * u + w
  PROVE x % q = w
<1>1. x \div q \in Nat /\ x % q \in 0..(q-1) /\ x = q * (x \div q) + (x % q)
  BY DivisionIs, Zenon
<1>2. PICK k \in Nat, r \in 0..(q-1) : k = x \div q /\ r = x % q /\ x = q * k + r
  BY <1>1, Zenon
<1>3. ~(k < u)
  <2> SUFFICES ASSUME k + 1 <= u PROVE FALSE
    BY <1>2
  <2>1. q * (k + 1) <= q * u
    BY ProductMonotone
  <2>2. q * (k + 1) = q * k + q
    OBVIOUS
  <2> QED BY <1>2, <2>1, <2>2
<1>4. ~(u < k)
  <2> SUFFICES ASSUME u + 1 <= k PROVE FALSE
    BY <1>2
  <2>1. q * (u + 1) <= q * k
    BY ProductMonotone
  <2>2. q * (u + 1) = q * u + q
    OBVIOUS
  <2> QED BY <1>2, <2>1, <2>2
<1>5. k = u
  BY <1>2, <1>3, <1>4
<1>6. r = w
  BY <1>2, <1>5
<1> QED BY <1>2, <1>5, <1>6, Zenon
\* z is x with the digit at p, of the base M, replaced by that of y.
Replaced(M, p, Q, m, x, y, z) ==
  /\ M \in Nat /\ M > 0 /\ p \in Nat /\ p > 0 /\ Q \in Nat /\ m \in Nat /\ m = p * M
  /\ x \in Nat /\ x < m * Q /\ y \in Nat /\ x % p = y % p
  /\ z = (x - ((x \div p) % M) * p) + ((y \div p) % M) * p

Agree(Q, m, y, z) == z \in 0..(m * Q - 1) /\ z % m = y % m

\* If x and y agree below p they now agree below p * M, and z is no larger than x may be.
LEMMA SetDigit ==
  ASSUME NEW M, NEW p, NEW Q, NEW m, NEW x, NEW y, NEW z, Replaced(M, p, Q, m, x, y, z)
  PROVE  Agree(Q, m, y, z)
<1> SUFFICES ASSUME M \in Nat, M > 0, p \in Nat, p > 0, Q \in Nat, m \in Nat, m = p * M,
                    x \in Nat, x < m * Q, y \in Nat, x % p = y % p,
                    z = (x - ((x \div p) % M) * p) + ((y \div p) % M) * p
             PROVE  z \in 0..(m * Q - 1) /\ z % m = y % m
  BY Zenon DEF Replaced, Agree
<1>1. PICK a \in Nat, r \in 0..(p - 1) : a = x \div p /\ r = x % p /\ x = p * a + r
  BY DivisionIs
<1>2. PICK b \in Nat : b = y \div p /\ y = p * b + r
  BY DivisionIs, <1>1
<1>3. PICK a1 \in Nat, a0 \in 0..(M - 1) : a0 = a % M /\ a = M * a1 + a0
  <2>1. /\ a \div M \in Nat /\ a % M \in 0..(M - 1)
        /\ a = M * (a \div M) + (a % M)
    BY ONLY DivisionIs, a \in Nat, M \in Nat, M > 0
  <2> QED BY ONLY <2>1, Zenon
<1>4. PICK b1 \in Nat, d \in 0..(M - 1) : d = b % M /\ b = M * b1 + d
  <2>1. /\ b \div M \in Nat /\ b % M \in 0..(M - 1)
        /\ b = M * (b \div M) + (b % M)
    BY ONLY DivisionIs, b \in Nat, M \in Nat, M > 0
  <2> QED BY ONLY <2>1, Zenon
<1>5. z = (x - a0 * p) + d * p
  BY <1>1, <1>2, <1>3, <1>4, Zenon
<1>6. p * a = m * a1 + p * a0 /\ p * b = m * b1 + p * d
  BY <1>3, <1>4
<1>7. PICK w \in Int : w = p * d + r
  OBVIOUS
<1>8. w \in 0..(m - 1)
  <2>1. p * d <= p * (M - 1)
    BY ProductMonotone
  <2>2. p * (M - 1) = m - p
    OBVIOUS
  <2>3. p * d >= p * 0
    BY ProductMonotone
  <2> QED BY <1>7, <2>1, <2>2, <2>3
<1>9. m > 0
  <2>1. p * 1 <= p * M
    BY ProductMonotone
  <2> QED BY <2>1
<1>10. z = m * a1 + w
  BY <1>1, <1>5, <1>6, <1>7, SMTT(30)
<1>11. y = m * b1 + w
  BY <1>2, <1>6, <1>7
<1>12. a1 < Q
  <2> SUFFICES ASSUME Q <= a1 PROVE FALSE
    OBVIOUS
  <2>1. m * Q <= m * a1
    BY ProductMonotone
  <2>2. p * a0 >= p * 0
    BY ProductMonotone
  <2> QED BY <1>1, <1>6, <2>1, <2>2
<1>13. m * a1 <= m * (Q - 1) /\ m * (Q - 1) = m * Q - m /\ m * 0 <= m * a1
  <2>1. a1 <= Q - 1 /\ Q - 1 \in Int /\ 0 <= a1
    BY <1>12
  <2>2. m * a1 <= m * (Q - 1) /\ m * 0 <= m * a1
    BY ONLY ProductMonotone, <2>1, m \in Nat, a1 \in Nat
  <2>3. m * (Q - 1) = m * Q - m
    BY ONLY m \in Nat, Q \in Nat
  <2> QED BY <2>2, <2>3, Zenon
<1>14. z \in 0..(m * Q - 1)
  BY <1>8, <1>10, <1>13
<1>15. z % m = w /\ y % m = w
  <2>1. z \in Nat /\ m \in Int /\ a1 \in Int /\ b1 \in Int
    BY <1>14
  <2>2. z % m = w
    BY ONLY DivisionUnique, <2>1, <1>8, <1>9, <1>10, Zenon
  <2>3. y % m = w
    BY ONLY DivisionUnique, <2>1, <1>8, <1>9, <1>11, y \in Nat, Zenon
  <2> QED BY <2>2, <2>3, Zenon
<1> QED BY <1>14, <1>15, Zenon

-----------------------------------------------------------------------------
(***************************************************************************)
(* The inductive invariant of the loader and its host.  The pin: whatever  *)
(* was lost, the loader is active while it is in a command or answers.     *)
(***************************************************************************)
PinInv ==
  /\ tx \in {"idle", "start", "busy"}
  /\ tx # "idle" => active
  /\ state # "Idle" => active
  /\ state = "Release" /\ tx = "start" => ~seen_busy

\* The first n bytes of the image are where the host wants them.
Loaded(n) == \A i \in 1..n : base + i - 1 \in Memory /\ mem[base + i - 1] = Image[i]

Size == Len(Chunk)

\* The line holds the packet without its first n bytes.
Rest(n) ==
  /\ Len(down) = Len(Packet) - n
  /\ \A k \in 1..Len(down) : down[k] = Packet[n + k]

Resting == state = "Idle" /\ tx = "idle" /\ up = <<>>

\* An answer of the set S is on its way: due, sent or received.
Answering(S) ==
  /\ down = <<>>
  /\ \/ state = "Resp" /\ tx = "idle" /\ up = <<>> /\ resp \in S
     \/ state \in {"Idle", "Release"} /\ tx = "start" /\ up = <<>> /\ resp \in S
     \/ state \in {"Idle", "Release"} /\ tx = "busy" /\ up = <<>> /\ tx_byte \in S
     \/ state \in {"Idle", "Release"} /\ tx = "idle" /\ \E r \in S : up = <<r>>

\* What the loader may say of the chunk it was sent.
Honest == IF Loaded(offset + Size) THEN {Ack, Nak} ELSE {Nak}

TakesAddr ==
  /\ state = "Addr" /\ index \in 0..(AddrBytes - 1)
  /\ Rest(1 + index)
  /\ addr % ByteMod^index = (base + offset) % ByteMod^index

TakesLen ==
  /\ state = "Len" /\ index \in 0..(LenBytes - 1)
  /\ Rest(1 + AddrBytes + index)
  /\ addr = (base + offset) % ByteMod^AddrBytes
  /\ len % ByteMod^index = Size % ByteMod^index

\* The bytes of the chunk that the loader has answered for.
Stored == offset + (Size - len)

\* With n bytes of the image behind it the line holds what is left of the chunk,
\* unless bytes were lost; then it holds less.
Follows(n) ==
  /\ Len(down) <= offset + Size - n
  /\ Len(down) = offset + Size - n =>
       /\ \A k \in 1..Len(down) : down[k] = Image[n + k]
       /\ state = "MemReq" => byte = Image[n]
       /\ ~error => Loaded(Stored)
       /\ state = "MemRsp" /\ ~error /\ addr \in Memory => Loaded(Stored + 1)

TakesData ==
  /\ len \in 1..Size /\ addr = base + Stored
  /\ \/ state = "Data" /\ Follows(Stored)
     \/ state \in {"MemReq", "MemRsp"} /\ Follows(Stored + 1)

Unsent ==
  /\ pc \in {"ping", "failed", "chunk", "go", "loaded"}
  /\ Resting /\ down = <<>> /\ ~done
  /\ pc \in {"chunk", "go", "loaded"} => active
  /\ pc \in {"go", "loaded"} => offset = Len(Image)

Pinging ==
  /\ pc = "pinged" /\ ~done /\ state # "Release"
  /\ \/ Resting /\ (down = <<>> \/ down = <<CmdPing>>)
     \/ active /\ ~release /\ Answering({Ack})

Writing ==
  /\ pc = "written" /\ ~done /\ active /\ state # "Release"
  /\ \/ Resting /\ Rest(0)
     \/ /\ ~release /\ tx = "idle" /\ up = <<>>
        /\ TakesAddr \/ TakesLen \/ TakesData
     \/ ~release /\ Answering(Honest)

Going ==
  /\ pc = "gone" /\ offset = Len(Image)
  /\ (Resting /\ down = <<CmdGo>> /\ active) \/ Answering({Ack})

Released ==
  /\ pc = "released" /\ offset = Len(Image)
  /\ state \in {"Idle", "Release"} /\ tx = "idle" /\ up = <<>> /\ down = <<>>

LoadTypes ==
  /\ base \in LoadAddrs /\ offset \in 0..Len(Image)
  /\ addr \in 0..(ByteMod^AddrBytes - 1) /\ len \in 0..(ByteMod^LenBytes - 1)
  /\ DOMAIN mem = Memory
  /\ down \in Seq(0..(ByteMod - 1))

Exchange ==
  LoadTypes /\ Loaded(offset) /\ (Unsent \/ Pinging \/ Writing \/ Going \/ Released)

LoadInv == PinInv /\ (~disturbed => Exchange)

-----------------------------------------------------------------------------
\* The pin at the start, and through every step, whatever was lost.
LEMMA PinInitInv == LoaderInit => PinInv
BY Zenon DEF LoaderInit, PinInv

\* No step of the loader, the host or the line drops the pin under an answer.
LEMMA PinNextInv == PinInv /\ [LoaderNext]_loaderVars => PinInv'
<1> SUFFICES ASSUME PinInv, [LoaderNext]_loaderVars PROVE PinInv'
  BY Zenon
<1> USE DEF PinInv
<1>1. CASE Activate
  BY <1>1, Zenon DEF Activate, txVars
<1>2. CASE Receive
  BY <1>2, Zenon DEF Receive, IdleByte, AddrByte, LenByte, DataByte, IgnoredByte, Answer, txVars
<1>3. CASE MemGrant
  BY <1>3, Zenon DEF MemGrant, txVars, releaseVars
<1>4. CASE MemRespond
  BY <1>4, Zenon DEF MemRespond, Answer, txVars, releaseVars
<1>5. CASE Respond
  BY <1>5, Zenon DEF Respond
<1>6. CASE TxStart
  BY <1>6, Zenon DEF TxStart, releaseVars
<1>7. CASE TxEnd
  BY <1>7, Zenon DEF TxEnd, releaseVars
<1>8. CASE Release
  BY <1>8, Zenon DEF Release, Sent, txVars
<1>9. CASE Timeout
  BY <1>9, Zenon DEF Timeout, Answer, AwaitingHost, txVars, releaseVars
<1>10. CASE Send
  BY <1>10, Zenon DEF Send, txVars, releaseVars
<1>11. CASE Expect
  BY <1>11, Zenon DEF Expect, releaseVars
<1>12. CASE HostTimeout
  BY <1>12, Zenon DEF HostTimeout, txVars, releaseVars
<1>13. CASE Retry
  BY <1>13, Zenon DEF Retry, releaseVars
<1>14. CASE Lose
  BY <1>14, Zenon DEF Lose, txVars, releaseVars
<1>15. CASE UNCHANGED loaderVars
  BY <1>15, Zenon DEF loaderVars, txVars, releaseVars
<1> QED
  BY <1>1, <1>2, <1>3, <1>4, <1>5, <1>6, <1>7, <1>8, <1>9, <1>10, <1>11, <1>12, <1>13,
     <1>14, <1>15, ZenonT(60) DEF LoaderNext, Loader, Host

-----------------------------------------------------------------------------
\* Facts about the image, its chunks and the powers, in the form the steps need.
LEMMA Sizes ==
  /\ ByteMod \in Nat /\ ByteMod > 3 /\ AddrBytes \in Nat /\ AddrBytes > 0
  /\ LenBytes \in Nat /\ LenBytes > 0
  /\ Image \in Seq(0..(ByteMod - 1)) /\ Len(Image) \in Nat
  /\ ChunkSize \in Nat /\ ChunkSize > 0 /\ ChunkSize < ByteMod^LenBytes
  /\ \A i \in 0..(AddrBytes + LenBytes) : ByteMod^i \in Nat /\ ByteMod^i > 0
<1>1. \A i \in 0..(AddrBytes + LenBytes) : ByteMod^i \in Nat \ {0}
  BY LoaderAssumption, PowersAssumption, Zenon
<1>2. ByteMod^LenBytes \in Nat
  BY <1>1, LoaderAssumption
<1>3. ChunkSize \in Nat /\ ChunkSize > 0 /\ ChunkSize < ByteMod^LenBytes
  BY <1>2, LoaderAssumption, SMTT(30)
<1> QED BY <1>1, <1>3, LoaderAssumption

\* u is s followed by t, element by element.
Joins(S, s, t, u) ==
  /\ u \in Seq(S) /\ Len(u) = Len(s) + Len(t)
  /\ \A i \in 1..Len(s) : u[i] = s[i]
  /\ \A i \in 1..Len(t) : u[Len(s) + i] = t[i]

\* What a concatenation holds.
LEMMA Joined ==
  ASSUME NEW S, NEW s \in Seq(S), NEW t \in Seq(S), NEW u, u = s \o t
  PROVE  Joins(S, s, t, u)
BY DEF Joins

\* The chunk the host sends next is a part of the image that fits the length field.
LEMMA ChunkIs ==
  ASSUME offset \in 0..Len(Image)
  PROVE  /\ Size \in Nat /\ Size <= ChunkSize /\ offset + Size <= Len(Image)
         /\ Chunk \in Seq(0..(ByteMod - 1))
         /\ Len(Chunk) = Size
         /\ \A i \in 1..Size : Chunk[i] = Image[offset + i]
<1> DEFINE end == IF offset + ChunkSize < Len(Image) THEN offset + ChunkSize ELSE Len(Image)
<1>1. end \in offset..Len(Image) /\ end <= offset + ChunkSize
  BY Sizes
<1>2. PICK e \in offset..Len(Image) : e = end
  BY <1>1, Zenon
<1>3. Chunk = SubSeq(Image, offset + 1, e)
  BY <1>2, Zenon DEF Chunk
<1>4. Chunk = [i \in 1..(e - offset) |-> Image[offset + i]]
  BY <1>3, Sizes
<1>5. \A i \in 1..(e - offset) : Image[offset + i] \in 0..(ByteMod - 1)
  BY Sizes
<1>6. Chunk \in Seq(0..(ByteMod - 1)) /\ Len(Chunk) = e - offset
  BY <1>4, <1>5
<1>7. Size = e - offset
  BY <1>6, Zenon DEF Size
<1>8. \A i \in 1..(e - offset) : Chunk[i] = Image[offset + i]
  BY <1>4, Zenon
<1>9. e - offset \in Nat /\ e - offset <= ChunkSize /\ offset + (e - offset) <= Len(Image)
  BY <1>1, <1>2, Sizes
<1> QED BY ONLY <1>6, <1>7, <1>8, <1>9, Zenon

\* The digits of an address or a length are bytes.
LEMMA DigitsAre ==
  ASSUME NEW x \in Nat, NEW n \in {AddrBytes, LenBytes}
  PROVE  /\ Digits(x, n) \in Seq(0..(ByteMod - 1)) /\ Len(Digits(x, n)) = n
         /\ \A i \in 1..n : Digits(x, n)[i] = (x \div ByteMod^(i - 1)) % ByteMod
<1>1. n \in Nat /\ n <= AddrBytes + LenBytes
  BY Sizes
<1>2. \A i \in 1..n : (x \div ByteMod^(i - 1)) % ByteMod \in 0..(ByteMod - 1)
  <2> TAKE i \in 1..n
  <2>1. i - 1 \in 0..(AddrBytes + LenBytes)
    BY <1>1, Sizes
  <2>2. PICK p \in Nat : p = ByteMod^(i - 1) /\ p > 0
    BY <2>1, Sizes, Zenon
  <2>3. x \div p \in Nat
    BY <2>2, DivisionIs
  <2> QED BY <2>2, <2>3, DivisionIs, Sizes
<1>3. Digits(x, n) = [i \in 1..n |-> (x \div ByteMod^(i - 1)) % ByteMod]
  BY Zenon DEF Digits
<1> QED BY <1>1, <1>2, <1>3

\* The packet of cmd_write: command, address, length, data, each at its place.
LEMMA PacketIs ==
  ASSUME offset \in 0..Len(Image), base \in LoadAddrs
  PROVE  /\ Packet \in Seq(0..(ByteMod - 1))
         /\ Len(Packet) = 1 + AddrBytes + LenBytes + Size
         /\ Packet[1] = CmdWrite
         /\ \A i \in 1..AddrBytes :
              Packet[1 + i] = ((base + offset) \div ByteMod^(i - 1)) % ByteMod
         /\ \A i \in 1..LenBytes :
              Packet[1 + AddrBytes + i] = (Size \div ByteMod^(i - 1)) % ByteMod
         /\ \A i \in 1..Size : Packet[1 + AddrBytes + LenBytes + i] = Image[offset + i]
<1>1. PICK t : t = <<CmdWrite>>
  BY Zenon
<1>2. t \in Seq(0..(ByteMod - 1)) /\ Len(t) = 1 /\ t[1] = CmdWrite
  BY <1>1, Sizes DEF CmdWrite
<1>3. base + offset \in Nat
  BY LoaderAssumption, Sizes
<1>4. PICK u : u = Digits(base + offset, AddrBytes)
  BY Zenon
<1>5. /\ u \in Seq(0..(ByteMod - 1)) /\ Len(u) = AddrBytes
      /\ \A i \in 1..AddrBytes : u[i] = ((base + offset) \div ByteMod^(i - 1)) % ByteMod
  BY <1>3, <1>4, DigitsAre, Zenon
<1>6. PICK v : v = Digits(Size, LenBytes)
  BY Zenon
<1>7. /\ v \in Seq(0..(ByteMod - 1)) /\ Len(v) = LenBytes
      /\ \A i \in 1..LenBytes : v[i] = (Size \div ByteMod^(i - 1)) % ByteMod
  BY <1>6, DigitsAre, ChunkIs, Zenon
<1>8. PICK w : w = Chunk
  BY Zenon
<1>9. /\ w \in Seq(0..(ByteMod - 1)) /\ Len(w) = Size /\ Size \in Nat
      /\ \A i \in 1..Size : w[i] = Image[offset + i]
  BY <1>8, ChunkIs, Zenon
<1>10. Packet = ((t \o u) \o v) \o w
  BY <1>1, <1>4, <1>6, <1>8, Zenon DEF Packet, Size
<1>11. PICK a : a = t \o u
  BY Zenon
<1>12. /\ a \in Seq(0..(ByteMod - 1)) /\ Len(a) = 1 + AddrBytes /\ a[1] = t[1]
       /\ \A i \in 1..AddrBytes : a[1 + i] = u[i]
  <2>1. Joins(0..(ByteMod - 1), t, u, a)
    <3>1. t \in Seq(0..(ByteMod - 1)) /\ u \in Seq(0..(ByteMod - 1)) /\ a = t \o u
      BY <1>2, <1>5, <1>11, Zenon
    <3> QED BY ONLY <3>1, Joined, Zenon
  <2> QED BY ONLY <2>1, <1>2, <1>5, Sizes DEF Joins
<1>13. PICK b : b = a \o v
  BY Zenon
<1>14. /\ b \in Seq(0..(ByteMod - 1)) /\ Len(b) = 1 + AddrBytes + LenBytes
       /\ \A i \in 1..(1 + AddrBytes) : b[i] = a[i]
       /\ \A i \in 1..LenBytes : b[1 + AddrBytes + i] = v[i]
  <2>1. Joins(0..(ByteMod - 1), a, v, b)
    <3>1. a \in Seq(0..(ByteMod - 1)) /\ v \in Seq(0..(ByteMod - 1)) /\ b = a \o v
      BY <1>7, <1>12, <1>13, Zenon
    <3> QED BY ONLY <3>1, Joined, Zenon
  <2> QED BY ONLY <2>1, <1>7, <1>12, Sizes, Zenon DEF Joins
<1>15. Packet = b \o w
  BY <1>10, <1>11, <1>13, Zenon
<1>16. /\ Packet \in Seq(0..(ByteMod - 1)) /\ Len(Packet) = 1 + AddrBytes + LenBytes + Size
       /\ \A i \in 1..(1 + AddrBytes + LenBytes) : Packet[i] = b[i]
       /\ \A i \in 1..Size : Packet[1 + AddrBytes + LenBytes + i] = w[i]
  <2>1. Joins(0..(ByteMod - 1), b, w, Packet)
    <3>1. b \in Seq(0..(ByteMod - 1)) /\ w \in Seq(0..(ByteMod - 1)) /\ Packet = b \o w
      BY <1>9, <1>14, <1>15, Zenon
    <3> QED BY ONLY <3>1, Joined, Zenon
  <2>2. Packet \in Seq(0..(ByteMod - 1)) /\ Len(Packet) = Len(b) + Len(w)
    BY ONLY <2>1, Zenon DEF Joins
  <2>3. \A i \in 1..Len(b) : Packet[i] = b[i]
    BY ONLY <2>1, Zenon DEF Joins
  <2>4. \A i \in 1..Len(w) : Packet[Len(b) + i] = w[i]
    BY ONLY <2>1, Zenon DEF Joins
  <2>5. Len(b) = 1 + AddrBytes + LenBytes /\ Len(w) = Size
    BY <1>9, <1>14, Zenon
  <2> QED BY ONLY <2>2, <2>3, <2>4, <2>5, Zenon
<1>17. Packet[1] = CmdWrite
  <2>1. 1 \in 1..(1 + AddrBytes) /\ 1 \in 1..(1 + AddrBytes + LenBytes)
    BY Sizes
  <2>2. Packet[1] = b[1] /\ b[1] = a[1]
    BY <2>1, <1>14, <1>16, Zenon
  <2> QED BY <2>2, <1>2, <1>12, Zenon
<1>18. ASSUME NEW i \in 1..AddrBytes
       PROVE  Packet[1 + i] = ((base + offset) \div ByteMod^(i - 1)) % ByteMod
  <2>1. 1 + i \in 1..(1 + AddrBytes) /\ 1 + i \in 1..(1 + AddrBytes + LenBytes)
    BY Sizes
  <2>2. Packet[1 + i] = b[1 + i] /\ b[1 + i] = a[1 + i] /\ a[1 + i] = u[i]
    BY <2>1, <1>12, <1>14, <1>16, Zenon
  <2> QED BY <2>2, <1>5, Zenon
<1>19. ASSUME NEW i \in 1..LenBytes
       PROVE  Packet[1 + AddrBytes + i] = (Size \div ByteMod^(i - 1)) % ByteMod
  <2>1. 1 + AddrBytes + i \in 1..(1 + AddrBytes + LenBytes)
    BY Sizes
  <2>2. Packet[1 + AddrBytes + i] = b[1 + AddrBytes + i] /\ b[1 + AddrBytes + i] = v[i]
    BY <2>1, <1>14, <1>16, Zenon
  <2> QED BY <2>2, <1>7, Zenon
<1> QED
  BY <1>9, <1>16, <1>17, <1>18, <1>19, Zenon

-----------------------------------------------------------------------------
\* A value below the modulus is its own remainder, and everything is 0 modulo 1.
LEMMA SmallRemainder ==
  ASSUME NEW q \in Int, q > 0, NEW x \in 0..(q - 1)
  PROVE  x % q = x
<1>1. x = q * 0 + x /\ x \in Nat
  OBVIOUS
<1> QED BY ONLY <1>1, DivisionUnique, q \in Int, q > 0, x \in 0..(q - 1), 0 \in Int

\* An address or length is its own remainder by the range of its field.
LEMMA InRange ==
  ASSUME NEW n \in {AddrBytes, LenBytes}, NEW x \in 0..(ByteMod^n - 1)
  PROVE  x % ByteMod^n = x
<1>1. PICK q \in Nat : q = ByteMod^n /\ q > 0
  BY Sizes
<1>2. x % q = x
  BY <1>1, SmallRemainder
<1> QED BY <1>1, <1>2, Zenon

\* Before the first digit nothing is known.
LEMMA NoRemainder ==
  ASSUME NEW x \in Nat, NEW y \in Nat
  PROVE  x % ByteMod^0 = y % ByteMod^0
<1>1. x % 1 = 0 /\ y % 1 = 0
  BY DivisionIs
<1> QED BY <1>1, PowersAssumption, Zenon

\* The loader's index-th digit, when the lower ones are right already.
LEMMA DigitTaken ==
  ASSUME NEW n \in {AddrBytes, LenBytes}, NEW i \in 0..(n - 1),
         NEW x \in 0..(ByteMod^n - 1), NEW y \in Nat, x % ByteMod^i = y % ByteMod^i,
         NEW z, z = WithDigit(x, i, (y \div ByteMod^i) % ByteMod)
  PROVE  z \in 0..(ByteMod^n - 1) /\ z % ByteMod^(i + 1) = y % ByteMod^(i + 1)
<1>1. n \in Nat /\ n > 0 /\ n <= AddrBytes + LenBytes /\ i \in Nat
  BY Sizes
<1>2. /\ i \in 0..(AddrBytes + LenBytes) /\ 1 \in 0..(AddrBytes + LenBytes)
      /\ i + 1 \in 0..(AddrBytes + LenBytes) /\ n - (i + 1) \in 0..(AddrBytes + LenBytes)
      /\ (i + 1) + (n - (i + 1)) = n
  BY <1>1, Sizes
<1>3. PICK p \in Nat : p = ByteMod^i /\ p > 0
  BY <1>2, Sizes, Zenon
<1>4. PICK Q \in Nat : Q = ByteMod^(n - (i + 1))
  BY <1>2, Sizes, Zenon
<1>5. PICK m \in Nat : m = ByteMod^(i + 1)
  BY <1>2, Sizes, Zenon
<1>6. ByteMod^(i + 1) = ByteMod^i * ByteMod^1 /\ ByteMod^1 = ByteMod
  BY <1>2, PowersAssumption, Zenon
<1>7. m = p * ByteMod
  BY ONLY <1>3, <1>5, <1>6, Zenon
<1>8. ByteMod^((i + 1) + (n - (i + 1))) = ByteMod^(i + 1) * ByteMod^(n - (i + 1))
  BY <1>2, PowersAssumption, Zenon
<1>9. ByteMod^n = m * Q
  BY ONLY <1>2, <1>4, <1>5, <1>8, Zenon
<1>10. x \in Nat /\ x < m * Q /\ x % p = y % p
  BY <1>3, <1>4, <1>5, <1>9
<1>11. z = (x - ((x \div p) % ByteMod) * p) + ((y \div p) % ByteMod) * p
  BY <1>3, Zenon DEF WithDigit
<1>12. z \in 0..(m * Q - 1) /\ z % m = y % m
  <2>1. ByteMod \in Nat /\ ByteMod > 0
    BY Sizes
  <2>2. PICK M \in Nat : M = ByteMod /\ M > 0
    BY <2>1, Zenon
  <2>3. Replaced(M, p, Q, m, x, y, z)
    BY <1>3, <1>7, <1>10, <1>11, <2>2, Zenon DEF Replaced
  <2>4. Agree(Q, m, y, z)
    BY ONLY <2>3, SetDigit, Zenon
  <2> QED BY ONLY <2>4, Zenon DEF Agree
<1> QED BY ONLY <1>5, <1>9, <1>12, Zenon

\* The next byte of the packet.
LEMMA NextOfRest ==
  ASSUME LoadTypes, NEW n \in Nat, Rest(n), n < Len(Packet), base' = base, offset' = offset,
         down' = Tail(down)
  PROVE  down # <<>> /\ Head(down) = Packet[n + 1] /\ Rest(n + 1)' /\ down' \in Seq(0..(ByteMod - 1))
<1>1. Packet' = Packet
  BY Zenon DEF Packet, Chunk
<1>2. Len(Packet) \in Nat
  BY PacketIs DEF LoadTypes
<1>3. down \in Seq(0..(ByteMod - 1)) /\ Len(down) > 0
  BY <1>2 DEF Rest, LoadTypes
<1>4. down # <<>> /\ Head(down) = down[1] /\ 1 \in 1..Len(down)
  BY <1>3
<1>5. Head(down) = Packet[n + 1]
  BY <1>4, Zenon DEF Rest
<1>6. /\ Tail(down) \in Seq(0..(ByteMod - 1)) /\ Len(Tail(down)) = Len(down) - 1
      /\ \A k \in 1..Len(Tail(down)) : Tail(down)[k] = down[k + 1] /\ k + 1 \in 1..Len(down)
  BY <1>3
<1>7. Len(down') = Len(Packet') - (n + 1)
  BY <1>1, <1>2, <1>6 DEF Rest
<1>8. ASSUME NEW k \in 1..Len(down') PROVE down'[k] = Packet'[(n + 1) + k]
  <2>1. down'[k] = down[k + 1] /\ k + 1 \in 1..Len(down) /\ n + (k + 1) = (n + 1) + k
    BY <1>6
  <2>2. down[k + 1] = Packet[n + (k + 1)]
    BY <2>1, Zenon DEF Rest
  <2> QED BY <1>1, <2>1, <2>2, Zenon
<1> QED BY <1>4, <1>5, <1>6, <1>7, <1>8, Zenon DEF Rest

-----------------------------------------------------------------------------
\* What stays when nothing is written and the host does not move.
LEMMA NothingWritten ==
  ASSUME Loaded(offset), UNCHANGED <<base, offset, mem>>
  PROVE  Loaded(offset)' /\ Honest' = Honest /\ Size' = Size /\ Packet' = Packet
<1>1. Size' = Size /\ Packet' = Packet
  BY Zenon DEF Size, Packet, Chunk
<1>2. Loaded(offset)'
  BY Zenon DEF Loaded
<1>3. Loaded(offset + Size)' = Loaded(offset + Size)
  BY <1>1, Zenon DEF Loaded
<1> QED BY <1>1, <1>2, <1>3, Zenon DEF Honest

\* The steps that only move an answer, or take or give the pin.
Serving == Activate \/ Respond \/ TxStart \/ TxEnd \/ Release

\* These steps leave the command, the line and the host alone.
LEMMA ServingKeeps ==
  Serving => UNCHANGED <<index, commandVars, down, hostVars, lossVars>>
BY Zenon DEF Serving, Activate, Respond, TxStart, TxEnd, Release

\* An answer on its way stays on its way until the host takes it.
LEMMA AnswerKept ==
  ASSUME PinInv, Serving, NEW S, Answering(S)
  PROVE  Answering(S)'
<1>0. down' = <<>>
  BY ServingKeeps, Zenon DEF Answering
<1>1. CASE Activate
  BY <1>0, <1>1, Zenon DEF Activate, Answering, txVars
<1>2. CASE Respond
  BY <1>0, <1>2, Zenon DEF Respond, Answering
<1>3. CASE TxStart
  BY <1>0, <1>3, Zenon DEF TxStart, Answering
<1>4. CASE TxEnd
  <2>1. active /\ up' = Append(up, tx_byte) /\ up = <<>> /\ tx_byte \in S
    BY <1>4, Zenon DEF TxEnd, PinInv, Answering
  <2>2. up' = <<tx_byte>>
    BY <2>1
  <2> QED BY <1>0, <1>4, <2>1, <2>2, Zenon DEF TxEnd, Answering
<1>5. CASE Release
  BY <1>0, <1>5, Zenon DEF Release, Answering, txVars
<1> QED BY <1>1, <1>2, <1>3, <1>4, <1>5, Zenon DEF Serving

\* Without a GO the loader keeps the pin.
LEMMA PinKept ==
  ASSUME Serving, active, ~release, ~done, state # "Release"
  PROVE  active' /\ ~release' /\ ~done' /\ state' # "Release"
<1>1. CASE Activate
  BY <1>1, Zenon DEF Activate
<1>2. CASE Respond
  <2>1. state' = "Idle"
    BY <1>2, Zenon DEF Respond
  <2>2. active' /\ ~release' /\ ~done'
    BY <1>2, Zenon DEF Respond
  <2> QED BY <2>1, <2>2, Zenon
<1>3. CASE TxStart
  BY <1>3, Zenon DEF TxStart, releaseVars
<1>4. CASE TxEnd
  BY <1>4, Zenon DEF TxEnd, releaseVars
<1>5. CASE Release
  BY <1>5, Zenon DEF Release
<1> QED BY <1>1, <1>2, <1>3, <1>4, <1>5, Zenon DEF Serving

\* They keep the exchange.
LEMMA ServingInv == PinInv /\ Exchange /\ Serving => Exchange'
<1> SUFFICES ASSUME PinInv, Exchange, Serving PROVE Exchange'
  BY Zenon
<1>1. UNCHANGED <<index, addr, len, byte, error, mem, down, pc, base, offset, tries>>
  BY ServingKeeps, Zenon DEF commandVars, hostVars
<1>2. LoadTypes' /\ Loaded(offset)' /\ Honest' = Honest /\ Size' = Size /\ Packet' = Packet
  BY <1>1, NothingWritten, Zenon DEF Exchange, LoadTypes
<1>3. CASE Unsent
  <2>1. Activate
    BY <1>3, Zenon DEF Serving, Respond, TxStart, TxEnd, Release, Unsent, Resting
  <2>2. Unsent'
    BY <1>1, <1>3, <2>1, Zenon DEF Activate, txVars, Unsent, Resting
  <2> QED BY <1>2, <2>2, Zenon DEF Exchange
<1>4. CASE Pinging
  <2>1. CASE Resting
    <3>1. Activate
      BY <2>1, Zenon DEF Serving, Respond, TxStart, TxEnd, Release, Resting
    <3>2. Resting'
      BY <2>1, <3>1, Zenon DEF Activate, txVars, Resting
    <3>3. (down = <<>> \/ down = <<CmdPing>>)
      BY <1>4, <2>1, Zenon DEF Pinging, Answering
    <3>4. Pinging'
      BY <1>1, <1>4, <3>1, <3>2, <3>3, Zenon DEF Activate, Pinging
    <3> QED BY <1>2, <3>4, Zenon DEF Exchange
  <2>2. CASE active /\ ~release /\ Answering({Ack})
    <3>1. Answering({Ack})'
      BY <2>2, AnswerKept, Zenon
    <3>2. active' /\ ~release' /\ ~done' /\ state' # "Release"
      BY <1>4, <2>2, PinKept, Zenon DEF Pinging
    <3>3. Pinging'
      BY <1>1, <1>4, <3>1, <3>2, Zenon DEF Pinging
    <3> QED BY <1>2, <3>3, Zenon DEF Exchange
  <2> QED BY <1>4, <2>1, <2>2, Zenon DEF Pinging
<1>5. CASE Writing
  <2>1. ~release /\ Answering(Honest)
    <3>1. ~Activate
      BY <1>5, Zenon DEF Writing, Activate
    <3>2. ~Resting /\ ~(TakesAddr /\ tx = "idle") /\ ~(TakesLen /\ tx = "idle")
      BY <3>1, <1>5, Zenon DEF Serving, Respond, TxStart, TxEnd, Release, Resting, TakesAddr, TakesLen
    <3>3. ~(TakesData /\ tx = "idle")
      BY <3>1, <1>5, Zenon DEF Serving, Respond, TxStart, TxEnd, Release, TakesData
    <3> QED BY <1>5, <3>2, <3>3, Zenon DEF Writing
  <2>2. Answering(Honest)'
    <3>1. PICK S : S = Honest
      BY Zenon
    <3>2. Answering(S)'
      BY <2>1, <3>1, AnswerKept, Zenon
    <3> QED BY <1>2, <3>1, <3>2, Zenon DEF Answering
  <2>3. active' /\ ~release' /\ ~done' /\ state' # "Release"
    BY <1>5, <2>1, PinKept, Zenon DEF Writing
  <2>4. Writing'
    BY <1>1, <1>5, <2>2, <2>3, Zenon DEF Writing
  <2> QED BY <1>2, <2>4, Zenon DEF Exchange
<1>6. CASE Going
  <2>1. Answering({Ack})
    BY <1>6, Zenon DEF Going, Serving, Activate, Respond, TxStart, TxEnd, Release, Resting
  <2>2. Answering({Ack})'
    BY <2>1, AnswerKept, Zenon
  <2>3. Going'
    BY <1>1, <1>6, <2>2, Zenon DEF Going
  <2> QED BY <1>2, <2>3, Zenon DEF Exchange
<1>7. CASE Released
  <2>1. Released'
    BY <1>1, <1>7, Zenon DEF Released, Serving, Activate, Respond, TxStart, TxEnd, Release, txVars
  <2> QED BY <1>2, <2>1, Zenon DEF Exchange
<1> QED BY <1>3, <1>4, <1>5, <1>6, <1>7, Zenon DEF Exchange

-----------------------------------------------------------------------------
\* write_all: a command on an idle line.
LEMMA SendInv == Exchange /\ Send => Exchange'
<1> SUFFICES ASSUME Exchange, Send PROVE Exchange'
  BY Zenon
<1>1. /\ UNCHANGED <<state, index, addr, len, byte, error, mem, tx, up, active, done, base, offset>>
      /\ pc \in {"ping", "chunk", "go"}
  BY Zenon DEF Send, commandVars, txVars, releaseVars
<1>2. Loaded(offset)' /\ Honest' = Honest /\ Size' = Size /\ Packet' = Packet
  BY <1>1, NothingWritten, Zenon DEF Exchange
<1>3. Unsent /\ down = <<>> /\ Resting /\ ~done
  BY <1>1, Zenon DEF Exchange, Pinging, Writing, Going, Released, Unsent
<1>4. Resting' /\ ~done'
  BY <1>1, <1>3, Zenon DEF Resting
<1>5. CASE pc = "ping"
  <2>1. down' = <<CmdPing>> /\ pc' = "pinged"
    BY <1>3, <1>5, SMTT(30) DEF Send
  <2>2. LoadTypes'
    BY <1>1, <2>1, Sizes DEF Exchange, LoadTypes, CmdPing
  <2>3. Pinging'
    BY <1>4, <2>1, Zenon DEF Pinging, Resting
  <2> QED BY <1>2, <2>2, <2>3, Zenon DEF Exchange
<1>6. CASE pc = "chunk"
  <2>1. Packet \in Seq(0..(ByteMod - 1)) /\ Len(Packet) \in Nat
    BY PacketIs DEF Exchange, LoadTypes
  <2>2. down' = Packet /\ pc' = "written" /\ active
    BY <1>3, <1>6, <2>1 DEF Send, Unsent
  <2>3. LoadTypes'
    BY <1>1, <2>1, <2>2, Zenon DEF Exchange, LoadTypes
  <2>4. Rest(0)'
    BY <1>2, <2>1, <2>2 DEF Rest
  <2>5. Writing'
    BY <1>1, <1>4, <2>2, <2>4, Zenon DEF Writing, Resting
  <2> QED BY <1>2, <2>3, <2>5, Zenon DEF Exchange
<1>7. CASE pc = "go"
  <2>1. down' = <<CmdGo>> /\ pc' = "gone" /\ active /\ offset = Len(Image)
    BY <1>3, <1>7, SMTT(30) DEF Send, Unsent
  <2>2. LoadTypes'
    BY <1>1, <2>1, Sizes DEF Exchange, LoadTypes, CmdGo
  <2>3. Going'
    BY <1>1, <1>4, <2>1, Zenon DEF Going
  <2> QED BY <1>2, <2>2, <2>3, Zenon DEF Exchange
<1> QED BY <1>1, <1>5, <1>6, <1>7, Zenon

\* expect_ack: the host has the answer to its own command.
LEMMA ExpectInv == Exchange /\ Expect => Exchange'
<1> SUFFICES ASSUME Exchange, Expect PROVE Exchange'
  BY Zenon
<1>1. UNCHANGED <<state, index, addr, len, byte, error, mem, tx, active, done, base, down>>
  BY Zenon DEF Expect, commandVars, releaseVars
<1>2. pc \in {"pinged", "written", "gone"} /\ up # <<>>
  BY Zenon DEF Expect, Waiting
<1>3. PICK r : up = <<r>> /\ Head(up) = r /\ up' = <<>>
  <2>1. CASE pc = "pinged"
    <3>1. Pinging
      BY <2>1, Zenon DEF Exchange, Unsent, Pinging, Writing, Going, Released
    <3>2. Answering({Ack})
      BY <1>2, <3>1, Zenon DEF Pinging, Resting
    <3> QED BY <1>2, <3>2, SMTT(30) DEF Answering, Expect
  <2>2. CASE pc = "written"
    <3>1. Writing
      BY <2>2, Zenon DEF Exchange, Unsent, Pinging, Writing, Going, Released
    <3>2. Answering(Honest)
      BY <1>2, <3>1, Zenon DEF Writing, Resting
    <3>3. PICK r : up = <<r>>
      BY <1>2, <3>2, Zenon DEF Answering
    <3>4. Head(up) = r /\ Tail(up) = <<>> /\ up' = Tail(up)
      BY <3>3 DEF Expect
    <3> QED BY <3>3, <3>4, Zenon
  <2>3. CASE pc = "gone"
    <3>1. Going
      BY <2>3, Zenon DEF Exchange, Unsent, Pinging, Writing, Going, Released
    <3>2. Answering({Ack})
      BY <1>2, <3>1, Zenon DEF Going, Resting
    <3> QED BY <1>2, <3>2 DEF Answering, Expect
  <2> QED BY <1>2, <2>1, <2>2, <2>3, Zenon
<1>4. ASSUME NEW S, Answering(S)
      PROVE  r \in S /\ state \in {"Idle", "Release"} /\ tx = "idle" /\ down = <<>>
  BY <1>3, <1>4, Zenon DEF Answering
<1>5. CASE pc = "pinged"
  <2>1. Pinging
    BY <1>5, Zenon DEF Exchange, Unsent, Pinging, Writing, Going, Released
  <2>2. active /\ ~done /\ state # "Release" /\ Answering({Ack})
    BY <1>2, <2>1, Zenon DEF Pinging, Resting
  <2>3. r = Ack /\ state = "Idle" /\ tx = "idle" /\ down = <<>>
    BY <1>4, <2>2
  <2>4. pc' = "chunk" /\ offset' = offset
    BY <1>3, <1>5, <2>3, Zenon DEF Expect
  <2>5. LoadTypes' /\ Loaded(offset)'
    BY <1>1, <2>4, Zenon DEF Exchange, LoadTypes, Loaded
  <2>6. Unsent'
    BY <1>1, <1>3, <2>2, <2>3, <2>4, Zenon DEF Unsent, Resting
  <2> QED BY <2>5, <2>6, Zenon DEF Exchange
<1>6. CASE pc = "written"
  <2>1. Writing
    BY <1>6, Zenon DEF Exchange, Unsent, Pinging, Writing, Going, Released
  <2>2. active /\ ~done /\ state # "Release" /\ Answering(Honest)
    BY <1>2, <2>1, Zenon DEF Writing, Resting
  <2>3. r \in Honest /\ state = "Idle" /\ tx = "idle" /\ down = <<>>
    BY <1>4, <2>2, Zenon
  <2>4. CASE r # Ack
    <3>1. pc' = "failed" /\ offset' = offset
      BY <1>3, <2>4, Zenon DEF Expect
    <3>2. LoadTypes' /\ Loaded(offset)'
      BY <1>1, <3>1, Zenon DEF Exchange, LoadTypes, Loaded
    <3>3. Unsent'
      BY <1>1, <1>3, <2>2, <2>3, <3>1, Zenon DEF Unsent, Resting
    <3> QED BY <3>2, <3>3, Zenon DEF Exchange
  <2>5. CASE r = Ack
    <3>1. Loaded(offset + Size)
      BY <2>3, <2>5, Zenon DEF Honest, Ack, Nak
    <3>2. /\ offset' = offset + Size
          /\ pc' \in {"chunk", "go", "loaded"}
          /\ pc' # "chunk" => ~(offset + Size < Len(Image))
      BY <1>3, <1>6, <2>5, ZenonT(60) DEF Expect, Size
    <3>3. Size \in Nat /\ offset + Size <= Len(Image) /\ offset \in Nat /\ Len(Image) \in Nat
      BY ChunkIs, Sizes DEF Exchange, LoadTypes
    <3>4. offset' \in 0..Len(Image) /\ (pc' \in {"go", "loaded"} => offset' = Len(Image))
      BY <3>2, <3>3
    <3>5. LoadTypes'
      BY <1>1, <3>4, Zenon DEF Exchange, LoadTypes
    <3>6. Loaded(offset)'
      BY <1>1, <3>1, <3>2, Zenon DEF Loaded
    <3>7. Unsent'
      BY <1>1, <1>3, <2>2, <2>3, <3>2, <3>4, Zenon DEF Unsent, Resting
    <3> QED BY <3>5, <3>6, <3>7, Zenon DEF Exchange
  <2> QED BY <2>4, <2>5, Zenon
<1>7. CASE pc = "gone"
  <2>1. Going
    BY <1>7, Zenon DEF Exchange, Unsent, Pinging, Writing, Going, Released
  <2>2. Answering({Ack}) /\ offset = Len(Image)
    BY <1>2, <2>1, Zenon DEF Going, Resting
  <2>3. r = Ack /\ state \in {"Idle", "Release"} /\ tx = "idle" /\ down = <<>>
    BY <1>4, <2>2
  <2>4. pc' = "released" /\ offset' = offset
    BY <1>3, <1>7, <2>3, Zenon DEF Expect
  <2>5. LoadTypes' /\ Loaded(offset)'
    BY <1>1, <2>4, Zenon DEF Exchange, LoadTypes, Loaded
  <2>6. Released'
    BY <1>1, <1>3, <2>2, <2>3, <2>4, Zenon DEF Released
  <2> QED BY <2>5, <2>6, Zenon DEF Exchange
<1> QED BY <1>2, <1>5, <1>6, <1>7, Zenon

\* The host gives up on a loader that has nothing to say, or the user starts again.
LEMMA GiveUpInv == Exchange /\ (HostTimeout \/ (Retry /\ ~disturbed')) => Exchange'
<1> SUFFICES ASSUME Exchange, HostTimeout \/ (Retry /\ ~disturbed') PROVE Exchange'
  BY Zenon
<1>1. UNCHANGED <<state, addr, len, mem, tx, active, done>>
  BY Zenon DEF HostTimeout, Retry, commandVars, txVars, releaseVars
<1>2. CASE HostTimeout
  <2>1. /\ pc \in {"pinged", "written", "gone"} /\ pc' = "failed"
        /\ Resting /\ down = <<>> /\ up' = up /\ down' = down /\ base' = base /\ offset' = offset
    BY <1>2, Zenon DEF HostTimeout, Waiting, Quiet, Resting, txVars
  <2>2. ASSUME NEW S PROVE ~Answering(S)
    BY <2>1, Zenon DEF Answering, Resting
  <2>3. ~Writing
    <3>1. ~Rest(0)
      <4>1. Len(Packet) > 0
        BY PacketIs, ChunkIs, Sizes DEF Exchange, LoadTypes
      <4>2. Len(down) = 0
        BY <2>1, Zenon
      <4> QED BY <4>1, <4>2, PacketIs, SMTT(30) DEF Rest, Exchange, LoadTypes
    <3> QED BY <2>1, <2>2, <3>1, ZenonT(60) DEF Writing, Resting, TakesAddr, TakesLen, TakesData
  <2>4. Pinging
    BY <2>1, <2>2, <2>3, Zenon DEF Exchange, Unsent, Going, Released
  <2>5. LoadTypes' /\ Loaded(offset)'
    BY <1>1, <2>1, Zenon DEF Exchange, LoadTypes, Loaded
  <2>6. Unsent'
    BY <1>1, <2>1, <2>4, Zenon DEF Unsent, Pinging, Resting
  <2> QED BY <2>5, <2>6, Zenon DEF Exchange
<1>3. CASE Retry /\ ~disturbed'
  <2>1. ~Waiting
    BY <1>3, Zenon DEF Retry
  <2>2. /\ pc \in {"failed", "loaded"} /\ pc' = "ping" /\ base' \in LoadAddrs /\ offset' = 0
        /\ down' = <<>> /\ up' = <<>>
    BY <1>3, <2>1, Zenon DEF Retry
  <2>3. Unsent
    BY <2>2, Zenon DEF Exchange, Pinging, Writing, Going, Released
  <2>4. LoadTypes'
    BY <1>1, <2>2, Sizes DEF Exchange, LoadTypes
  <2>5. Loaded(offset)'
    BY <2>2 DEF Loaded
  <2>6. Unsent'
    BY <1>1, <2>2, <2>3, Zenon DEF Unsent, Resting
  <2> QED BY <2>4, <2>5, <2>6, Zenon DEF Exchange
<1> QED BY <1>2, <1>3, Zenon

-----------------------------------------------------------------------------
\* Only under the data of a chunk does the loader wait in these states.
LEMMA InData ==
  ASSUME Exchange, state \in {"Data", "MemReq", "MemRsp"}
  PROVE  /\ Writing /\ ~release /\ tx = "idle" /\ up = <<>> /\ TakesData
         /\ Size \in Nat /\ offset \in Nat /\ offset + Size <= Len(Image) /\ base \in Nat
         /\ len \in 1..Size /\ Stored \in offset..(offset + Size - 1) /\ addr = base + Stored
         /\ base + Len(Image) <= ByteMod^AddrBytes
<1>1. ASSUME NEW S PROVE ~Answering(S)
  BY Zenon DEF Answering
<1>2. Writing
  BY <1>1, Zenon DEF Exchange, Unsent, Pinging, Going, Released, Resting
<1>3. ~release /\ tx = "idle" /\ up = <<>> /\ TakesData
  BY <1>1, <1>2, ZenonT(60) DEF Writing, Resting, TakesAddr, TakesLen
<1>4. Size \in Nat /\ offset \in Nat /\ offset + Size <= Len(Image)
  BY ChunkIs, Sizes DEF Exchange, LoadTypes
<1>5. base \in Nat /\ base + Len(Image) <= ByteMod^AddrBytes
  BY LoaderAssumption, Zenon DEF Exchange, LoadTypes
<1>6. len \in 1..Size /\ addr = base + Stored
  BY <1>3, Zenon DEF TakesData
<1>7. Stored \in offset..(offset + Size - 1)
  BY <1>4, <1>6 DEF Stored
<1> QED BY <1>2, <1>3, <1>4, <1>5, <1>6, <1>7, Zenon

\* A lost data byte leaves fewer on the line than are due.
LEMMA LoseInv == Exchange /\ Lose /\ ~disturbed' => Exchange'
<1> SUFFICES ASSUME Exchange, Lose, ~disturbed' PROVE Exchange'
  BY Zenon
<1>1. /\ state \in {"Data", "MemReq", "MemRsp"} /\ down # <<>> /\ down' = Tail(down)
      /\ UNCHANGED <<state, index, addr, len, byte, error, mem, tx, up, active, done, release,
                     pc, base, offset>>
  BY Zenon DEF Lose, commandVars, txVars, releaseVars, hostVars
<1>2. Loaded(offset)' /\ Size' = Size
  BY <1>1, NothingWritten, Zenon DEF Exchange
<1>3. /\ Writing /\ ~release /\ tx = "idle" /\ up = <<>> /\ TakesData
      /\ Size \in Nat /\ offset \in Nat /\ len \in 1..Size
      /\ Stored \in offset..(offset + Size - 1)
  BY <1>1, InData, Zenon
<1>4. Stored' = Stored
  BY <1>1, <1>2, Zenon DEF Stored
<1>5. /\ down \in Seq(0..(ByteMod - 1)) /\ Len(down) \in Nat
      /\ down' \in Seq(0..(ByteMod - 1)) /\ Len(down') = Len(down) - 1
  BY <1>1 DEF Exchange, LoadTypes
<1>6. LoadTypes'
  BY <1>1, <1>5, Zenon DEF Exchange, LoadTypes
<1>7. ASSUME NEW n \in Nat, Follows(n) PROVE Follows(n)'
  <2>1. Len(down) <= offset + Size - n
    BY <1>7, Zenon DEF Follows
  <2>2. Len(down') < offset' + Size' - n
    BY <1>1, <1>2, <1>3, <1>5, <2>1, SMTT(30)
  <2>3. Len(down') <= offset' + Size' - n /\ Len(down') # offset' + Size' - n
    BY <1>1, <1>2, <1>3, <1>5, <2>2, SMTT(30)
  <2> QED BY <2>3, Zenon DEF Follows
<1>8. Stored \in Nat /\ Stored + 1 \in Nat
  BY <1>3
<1>9. TakesData'
  BY <1>1, <1>2, <1>3, <1>4, <1>7, <1>8, Zenon DEF TakesData
<1>10. Writing'
  BY <1>1, <1>3, <1>9, Zenon DEF Writing
<1> QED BY <1>2, <1>6, <1>10, Zenon DEF Exchange

\* host_timeout with data due: the answer is a NAK.
LEMMA TimeoutInv == Exchange /\ Timeout => Exchange'
<1> SUFFICES ASSUME Exchange, Timeout PROVE Exchange'
  BY Zenon
<1>1. /\ state \in {"Addr", "Len", "Data"} /\ down = <<>> /\ state' = "Resp" /\ resp' = Nak
      /\ UNCHANGED <<addr, len, mem, tx, up, active, done, release, down, pc, base, offset>>
  BY Zenon DEF Timeout, AwaitingHost, Answer, commandVars, txVars, releaseVars, hostVars
<1>2. Loaded(offset)' /\ Honest' = Honest
  BY <1>1, NothingWritten, Zenon DEF Exchange
<1>3. state = "Data"
  <2>1. ASSUME NEW S PROVE ~Answering(S)
    BY <1>1, Zenon DEF Answering
  <2>2. Len(Packet) = 1 + AddrBytes + LenBytes + Size /\ Size \in Nat /\ Len(down) = 0
    BY <1>1, PacketIs, ChunkIs, ZenonT(60) DEF Exchange, LoadTypes
  <2>3. ~TakesAddr /\ ~TakesLen
    BY <2>2, Sizes, SMTT(30) DEF TakesAddr, TakesLen, Rest
  <2>4. Writing
    BY <1>1, <2>1, Zenon DEF Exchange, Unsent, Pinging, Going, Released, Resting
  <2>5. TakesData
    BY <1>1, <2>1, <2>3, <2>4, Zenon DEF Writing, Resting
  <2> QED BY <1>1, <2>5, Zenon DEF TakesData
<1>4. Writing /\ ~release /\ tx = "idle" /\ up = <<>>
  BY <1>3, InData, Zenon
<1>5. LoadTypes'
  BY <1>1, Zenon DEF Exchange, LoadTypes
<1>6. Answering(Honest)'
  <2>1. Nak \in Honest'
    BY <1>2, Zenon DEF Honest
  <2> QED BY <1>1, <1>4, <2>1, Zenon DEF Answering
<1>7. Writing'
  BY <1>1, <1>4, <1>6, Zenon DEF Writing
<1> QED BY <1>2, <1>5, <1>7, Zenon DEF Exchange

\* The write of a byte behind everything that counts as loaded.
LEMMA MemGrantInv == Exchange /\ MemGrant => Exchange'
<1> SUFFICES ASSUME Exchange, MemGrant PROVE Exchange'
  BY Zenon
<1>1. /\ state = "MemReq" /\ state' = "MemRsp"
      /\ mem' = IF addr \in Memory THEN [mem EXCEPT ![addr] = byte] ELSE mem
      /\ UNCHANGED <<addr, len, byte, error, tx, up, active, done, release, down, pc, base, offset>>
  BY Zenon DEF MemGrant, txVars, releaseVars, hostVars
<1>2. /\ Writing /\ ~release /\ tx = "idle" /\ up = <<>> /\ TakesData
      /\ Size \in Nat /\ offset \in Nat /\ base \in Nat /\ len \in 1..Size
      /\ Stored \in offset..(offset + Size - 1) /\ addr = base + Stored
  BY <1>1, InData, Zenon
<1>3. Size' = Size /\ Stored' = Stored
  BY <1>1, Zenon DEF Size, Chunk, Stored
<1>4. DOMAIN mem = Memory
  BY Zenon DEF Exchange, LoadTypes
<1>5. ASSUME NEW n \in 0..Stored, Loaded(n) PROVE Loaded(n)'
  <2> SUFFICES ASSUME NEW i \in 1..n
               PROVE  base' + i - 1 \in Memory /\ mem'[base' + i - 1] = Image[i]
    BY Zenon DEF Loaded
  <2>1. base + i - 1 \in Memory /\ mem[base + i - 1] = Image[i]
    BY <1>5, Zenon DEF Loaded
  <2>2. base + i - 1 # addr
    BY <1>2, SMTT(30)
  <2> QED BY <1>1, <1>4, <2>1, <2>2, Zenon
<1>6. Loaded(offset)'
  BY <1>1, <1>2, <1>5 DEF Exchange
<1>7. LoadTypes'
  BY <1>1, <1>4, Zenon DEF Exchange, LoadTypes
<1>8. Follows(Stored + 1)
  BY <1>1, <1>2, Zenon DEF TakesData
<1>9. Follows(Stored + 1)'
  <2>1. Len(down') <= offset' + Size' - (Stored' + 1)
    BY <1>1, <1>3, <1>8, Zenon DEF Follows
  <2> SUFFICES ASSUME Len(down') = offset' + Size' - (Stored' + 1)
               PROVE  /\ \A k \in 1..Len(down') : down'[k] = Image[(Stored' + 1) + k]
                      /\ ~error' => Loaded(Stored)'
                      /\ ~error' /\ addr' \in Memory => Loaded(Stored + 1)'
    <3>1. state' # "MemReq"
      BY <1>1, Zenon
    <3> QED BY <2>1, <3>1, Zenon DEF Follows
  <2>2. Len(down) = offset + Size - (Stored + 1)
    BY <1>1, <1>3, Zenon
  <2>3. \A k \in 1..Len(down) : down[k] = Image[(Stored + 1) + k]
    BY <1>8, <2>2, Zenon DEF Follows
  <2>4. byte = Image[Stored + 1]
    BY <1>1, <1>8, <2>2, Zenon DEF Follows
  <2>5. ~error => Loaded(Stored)
    BY <1>8, <2>2, Zenon DEF Follows
  <2>6. ~error' => Loaded(Stored)'
    <3>1. PICK n : n = Stored
      BY Zenon
    <3>2. n \in 0..Stored
      BY <1>2, <3>1
    <3>3. ~error' => Loaded(n)'
      BY <1>1, <1>5, <2>5, <3>1, <3>2, ZenonT(60)
    <3> QED BY <1>3, <3>1, <3>3, Zenon DEF Loaded
  <2>7. ASSUME ~error', addr' \in Memory PROVE Loaded(Stored + 1)'
    <3> SUFFICES ASSUME NEW i \in 1..(Stored + 1)
                 PROVE  base + i - 1 \in Memory /\ mem'[base + i - 1] = Image[i]
      BY <1>1, <1>3, Zenon DEF Loaded
    <3>1. CASE i = Stored + 1
      <4>1. base + i - 1 = addr /\ addr \in Memory
        BY <1>1, <1>2, <2>7, <3>1
      <4>2. mem'[addr] = byte
        BY <1>1, <1>4, <4>1, Zenon
      <4> QED BY <2>4, <3>1, <4>1, <4>2, ZenonT(60)
    <3>2. CASE i \in 1..Stored
      <4>1. Loaded(Stored)'
        BY <2>6, <2>7, Zenon
      <4> QED BY <1>1, <1>3, <3>2, <4>1, Zenon DEF Loaded
    <3> QED BY <1>2, <3>1, <3>2
  <2>8. \A k \in 1..Len(down') : down'[k] = Image[(Stored' + 1) + k]
    BY <1>1, <1>3, <2>3, Zenon
  <2> QED BY <2>6, <2>7, <2>8, Zenon
<1>10. TakesData'
  BY <1>1, <1>2, <1>3, <1>9, Zenon DEF TakesData
<1>11. Writing'
  BY <1>1, <1>2, <1>10, Zenon DEF Writing
<1> QED BY <1>6, <1>7, <1>11, Zenon DEF Exchange

\* The response of the memory: the next byte is due, or the answer for all of them.
LEMMA MemRespondInv == Exchange /\ MemRespond => Exchange'
<1> SUFFICES ASSUME Exchange, MemRespond PROVE Exchange'
  BY Zenon
<1>1. /\ state = "MemRsp" /\ addr' = (addr + 1) % ByteMod^AddrBytes /\ len' = len - 1
      /\ UNCHANGED <<mem, tx, up, active, done, release, down, pc, base, offset>>
  BY Zenon DEF MemRespond, txVars, releaseVars, hostVars
<1>2. error' = (error \/ addr \notin Memory)
  BY Zenon DEF MemRespond
<1>3. /\ Writing /\ ~release /\ tx = "idle" /\ up = <<>> /\ TakesData
      /\ Size \in Nat /\ offset \in Nat /\ base \in Nat /\ len \in 1..Size
      /\ Stored \in offset..(offset + Size - 1) /\ addr = base + Stored
      /\ offset + Size <= Len(Image) /\ base + Len(Image) <= ByteMod^AddrBytes
  BY <1>1, InData, Zenon
<1>4. Loaded(offset)' /\ Honest' = Honest /\ Size' = Size
  BY <1>1, NothingWritten, Zenon DEF Exchange
<1>5. ByteMod^AddrBytes \in Nat /\ ByteMod^AddrBytes > 0 /\ Len(Image) \in Nat
      /\ ByteMod^LenBytes \in Nat
  BY Sizes
<1>6. LoadTypes'
  <2>1. addr' \in 0..(ByteMod^AddrBytes - 1)
    BY <1>1, <1>3, <1>5, DivisionIs, SMTT(30)
  <2>2. len' \in 0..(ByteMod^LenBytes - 1)
    BY <1>1, <1>3, <1>5, SMTT(30) DEF Exchange, LoadTypes
  <2> QED BY <1>1, <2>1, <2>2, ZenonT(60) DEF Exchange, LoadTypes
<1>7. Follows(Stored + 1)
  BY <1>1, <1>3, Zenon DEF TakesData
<1>8. Len(down) \in Nat /\ down \in Seq(0..(ByteMod - 1))
  BY DEF Exchange, LoadTypes
<1>9. Len(down) = offset + Size - (Stored + 1) /\ ~error' => Loaded(Stored + 1)
  BY <1>1, <1>2, <1>7, Zenon DEF Follows
<1>10. CASE len = 1
  <2>1. Stored + 1 = offset + Size
    BY <1>3, <1>10, SMTT(30) DEF Stored
  <2>2. Len(down) = 0
    BY <1>3, <1>7, <1>8, <2>1 DEF Follows
  <2>3. down = <<>>
    BY <1>8, <2>2, SMTT(30)
  <2>4. ~error' => Loaded(offset + Size)
    BY <1>3, <1>9, <2>1, <2>2, SMTT(30)
  <2>5. state' = "Resp" /\ resp' = IF error' THEN Nak ELSE Ack
    BY <1>10, Zenon DEF MemRespond, Answer, FinalAnswer
  <2>6. resp' \in Honest'
    BY <1>4, <2>4, <2>5, Zenon DEF Honest
  <2>7. Answering(Honest)'
    BY <1>1, <1>3, <2>3, <2>5, <2>6, Zenon DEF Answering
  <2>8. Writing'
    BY <1>1, <1>3, <2>5, <2>7, ZenonT(60) DEF Writing
  <2> QED BY <1>4, <1>6, <2>8, Zenon DEF Exchange
<1>11. CASE len # 1
  <2>1. state' = "Data"
    BY <1>11, ZenonT(60) DEF MemRespond
  <2>2. Stored' = Stored + 1 /\ len' \in 1..Size /\ Stored + 1 <= offset + Size - 1
    BY <1>1, <1>3, <1>4, <1>11, SMTT(30) DEF Stored
  <2>3. addr' = base' + Stored'
    <3>1. addr + 1 \in 0..(ByteMod^AddrBytes - 1)
      BY <1>3, <1>5, <2>2, SMTT(30)
    <3>2. (addr + 1) % ByteMod^AddrBytes = addr + 1
      BY <1>5, <3>1, SmallRemainder
    <3> QED BY <1>1, <1>3, <2>2, <3>2, SMTT(30)
  <2>4. Follows(Stored)'
    <3>1. Len(down') <= offset' + Size' - Stored'
      BY <1>1, <1>4, <1>7, <2>2, Zenon DEF Follows
    <3> SUFFICES ASSUME Len(down') = offset' + Size' - Stored'
                 PROVE  /\ \A k \in 1..Len(down') : down'[k] = Image[Stored' + k]
                        /\ ~error' => Loaded(Stored)'
      <4>1. state' # "MemReq" /\ state' # "MemRsp"
        BY <2>1, Zenon
      <4> QED BY <3>1, <4>1, Zenon DEF Follows
    <3>2. Len(down) = offset + Size - (Stored + 1)
      BY <1>1, <1>4, <2>2, Zenon
    <3>3. \A k \in 1..Len(down) : down[k] = Image[(Stored + 1) + k]
      BY <1>7, <3>2, Zenon DEF Follows
    <3>4. ~error' => Loaded(Stored + 1)
      BY <1>9, <3>2, Zenon
    <3>5. Loaded(Stored + 1) => Loaded(Stored)'
      BY <1>1, <2>2, Zenon DEF Loaded
    <3>6. \A k \in 1..Len(down') : down'[k] = Image[Stored' + k]
      BY <1>1, <2>2, <3>3, Zenon
    <3> QED BY <3>4, <3>5, <3>6, Zenon
  <2>5. TakesData'
    BY <1>4, <2>1, <2>2, <2>3, <2>4, Zenon DEF TakesData
  <2>6. Writing'
    BY <1>1, <1>3, <2>1, <2>5, Zenon DEF Writing
  <2> QED BY <1>4, <1>6, <2>6, Zenon DEF Exchange
<1> QED BY <1>10, <1>11, Zenon

-----------------------------------------------------------------------------
\* A byte that waits for the loader: to a ping, a packet or a GO.
LEMMA ReceiveFrame ==
  ASSUME Exchange, Receive
  PROVE  /\ down # <<>> /\ down' = Tail(down) /\ down' \in Seq(0..(ByteMod - 1))
         /\ UNCHANGED <<mem, tx, tx_byte, up, active, done, pc, base, offset>>
         /\ Loaded(offset)' /\ Honest' = Honest /\ Size' = Size /\ Packet' = Packet
         /\ Pinging \/ Writing \/ Going
         /\ \A S : ~Answering(S)
<1>1. /\ down # <<>> /\ down' = Tail(down)
      /\ UNCHANGED <<mem, tx, tx_byte, up, active, done, pc, base, offset>>
  BY Zenon DEF Receive, txVars, hostVars
<1>2. down' \in Seq(0..(ByteMod - 1))
  BY <1>1 DEF Exchange, LoadTypes
<1>3. Loaded(offset)' /\ Honest' = Honest /\ Size' = Size /\ Packet' = Packet
  BY <1>1, NothingWritten, Zenon DEF Exchange
<1>4. \A S : ~Answering(S)
  BY <1>1, Zenon DEF Answering
<1>5. Pinging \/ Writing \/ Going
  BY <1>1, Zenon DEF Exchange, Unsent, Released
<1> QED BY <1>1, <1>2, <1>3, <1>4, <1>5, Zenon

\* The byte of a ping: an ACK is due, or the loader is not active and ignores it.
LEMMA ReceivePing == Exchange /\ Pinging /\ Receive => Exchange'
<1> SUFFICES ASSUME Exchange, Pinging, Receive PROVE Exchange'
  BY Zenon
<1>1. /\ down # <<>> /\ down' = Tail(down) /\ down' \in Seq(0..(ByteMod - 1))
      /\ UNCHANGED <<mem, tx, up, active, done, pc, base, offset>> /\ Loaded(offset)'
      /\ ~Answering({Ack})
  BY ReceiveFrame, Zenon
<1>2. Resting /\ down = <<CmdPing>>
  BY <1>1, Zenon DEF Pinging
<1>3. Head(down) = CmdPing /\ down' = <<>>
  BY <1>1, <1>2
<1>4. CASE active
  <2>1. IdleByte(CmdPing)
    BY <1>2, <1>3, <1>4, Zenon DEF Receive, AddrByte, LenByte, DataByte, IgnoredByte, Resting
  <2>0. CmdPing # CmdGo
    BY DEF CmdPing, CmdGo
  <2>a. ~release'
    BY <2>0, <2>1, Zenon DEF IdleByte
  <2>b. state' = "Resp" /\ resp' = Ack /\ addr' = addr /\ len' = len
    BY <2>1 DEF IdleByte, Answer, CmdPing, CmdGo, CmdWrite
  <2>2. state' = "Resp" /\ resp' = Ack /\ addr' = addr /\ len' = len /\ ~release'
    BY <2>a, <2>b, Zenon
  <2>3. LoadTypes'
    BY <1>1, <2>2, Zenon DEF Exchange, LoadTypes
  <2>4. Answering({Ack})'
    BY <1>1, <1>2, <1>3, <2>2, Zenon DEF Answering, Resting
  <2>5. Pinging'
    BY <1>1, <1>4, <2>2, <2>4, Zenon DEF Pinging
  <2> QED BY <1>1, <2>3, <2>5, Zenon DEF Exchange
<1>5. CASE ~active
  <2>1. state' = state /\ addr' = addr /\ len' = len
    BY <1>5, Zenon DEF Receive, IgnoredByte
  <2>2. LoadTypes'
    BY <1>1, <2>1, Zenon DEF Exchange, LoadTypes
  <2>3. Pinging'
    BY <1>1, <1>2, <1>3, <2>1, Zenon DEF Pinging, Resting
  <2> QED BY <1>1, <2>2, <2>3, Zenon DEF Exchange
<1> QED BY <1>4, <1>5, Zenon

\* The byte of a GO.
LEMMA ReceiveGo == Exchange /\ Going /\ Receive => Exchange'
<1> SUFFICES ASSUME Exchange, Going, Receive PROVE Exchange'
  BY Zenon
<1>1. /\ down # <<>> /\ down' = Tail(down) /\ down' \in Seq(0..(ByteMod - 1))
      /\ UNCHANGED <<mem, tx, up, active, done, pc, base, offset>> /\ Loaded(offset)'
      /\ ~Answering({Ack})
  BY ReceiveFrame, Zenon
<1>2. Resting /\ down = <<CmdGo>> /\ active
  BY <1>1, Zenon DEF Going
<1>3. Head(down) = CmdGo /\ down' = <<>>
  BY <1>1, <1>2
<1>4. IdleByte(CmdGo)
  BY <1>2, <1>3, Zenon DEF Receive, AddrByte, LenByte, DataByte, IgnoredByte, Resting
<1>5. state' = "Resp" /\ resp' = Ack /\ addr' = addr /\ len' = len
  BY <1>4 DEF IdleByte, Answer, CmdPing, CmdGo, CmdWrite
<1>6. LoadTypes'
  BY <1>1, <1>5, Zenon DEF Exchange, LoadTypes
<1>7. Answering({Ack})'
  BY <1>1, <1>2, <1>3, <1>5, Zenon DEF Answering, Resting
<1>8. Going'
  BY <1>1, <1>7, Zenon DEF Going
<1> QED BY <1>1, <1>6, <1>8, Zenon DEF Exchange

\* The bytes of a packet: its command, address, length and data.
LEMMA ReceiveWrite == Exchange /\ Writing /\ Receive => Exchange'
<1> SUFFICES ASSUME Exchange, Writing, Receive PROVE Exchange'
  BY Zenon
<1>1. /\ down # <<>> /\ down' = Tail(down) /\ down' \in Seq(0..(ByteMod - 1))
      /\ UNCHANGED <<mem, tx, up, active, done, pc, base, offset>> /\ Loaded(offset)'
      /\ Honest' = Honest /\ Size' = Size /\ Packet' = Packet /\ ~Answering(Honest)
  BY ReceiveFrame, Zenon
<1>2. pc = "written" /\ ~done /\ active /\ state # "Release" /\ tx = "idle" /\ up = <<>>
  BY <1>1, Zenon DEF Writing, Resting
<1>3. /\ LoadTypes /\ Size \in Nat /\ Size < ByteMod^LenBytes /\ offset \in Nat /\ base \in Nat
      /\ offset + Size <= Len(Image) /\ base + Len(Image) <= ByteMod^AddrBytes
      /\ ByteMod^AddrBytes \in Nat /\ ByteMod^AddrBytes > 0
      /\ ByteMod^LenBytes \in Nat /\ ByteMod^LenBytes > 0 /\ Len(Image) \in Nat
  <2>1. LoadTypes
    BY Zenon DEF Exchange
  <2>2. Size \in Nat /\ Size <= ChunkSize /\ offset + Size <= Len(Image) /\ offset \in Nat
    BY <2>1, ChunkIs, Sizes DEF LoadTypes
  <2>3. base \in Nat /\ base + Len(Image) <= ByteMod^AddrBytes
    BY <2>1, LoaderAssumption, Zenon DEF LoadTypes
  <2> QED BY <2>1, <2>2, <2>3, Sizes
<1>4. Len(Packet) = 1 + AddrBytes + LenBytes + Size
  BY <1>3, PacketIs, Zenon DEF LoadTypes
<1>5. ASSUME NEW n \in Nat, Rest(n), n < Len(Packet)
      PROVE  Head(down) = Packet[n + 1] /\ Rest(n + 1)'
  BY <1>1, <1>3, <1>5, NextOfRest, Zenon
<1>6. CASE Resting /\ Rest(0)
  <2>1. Head(down) = Packet[0 + 1] /\ Rest(0 + 1)'
    BY <1>3, <1>4, <1>5, <1>6, Sizes, SMTT(30)
  <2>2. Head(down) = CmdWrite
    BY <1>3, <2>1, PacketIs, SMTT(30) DEF LoadTypes
  <2>3. IdleByte(CmdWrite)
    BY <1>2, <1>6, <2>2, Zenon DEF Receive, AddrByte, LenByte, DataByte, IgnoredByte, Resting
  <2>4. state' = "Addr" /\ index' = 0 /\ addr' = addr /\ len' = len
    BY <2>3 DEF IdleByte, Answer, CmdPing, CmdGo, CmdWrite
  <2>5. CmdWrite # CmdGo
    BY DEF CmdWrite, CmdGo
  <2>6. ~release'
    BY <2>3, <2>5, Zenon DEF IdleByte
  <2>7. LoadTypes'
    BY <1>1, <1>3, <2>4, Zenon DEF LoadTypes
  <2>8. addr \in Nat /\ base + offset \in Nat
    BY <1>3 DEF LoadTypes
  <2>9. addr % ByteMod^0 = (base + offset) % ByteMod^0
    BY <2>8, NoRemainder, Zenon
  <2>10. TakesAddr'
    <3>1. index' \in 0..(AddrBytes - 1) /\ Rest(1 + index)'
      <4>1. 0 \in 0..(AddrBytes - 1) /\ 1 + 0 = 0 + 1
        BY Sizes
      <4> QED BY <2>1, <2>4, <4>1, Zenon DEF Rest
    <3> QED BY <1>1, <2>4, <2>9, <3>1, Zenon DEF TakesAddr
  <2>11. Writing'
    BY <1>1, <1>2, <2>4, <2>6, <2>10, Zenon DEF Writing
  <2> QED BY <1>1, <2>7, <2>11, Zenon DEF Exchange
<1>7. CASE ~release /\ TakesAddr
  <2>1. state = "Addr" /\ index \in 0..(AddrBytes - 1) /\ Rest(1 + index)
    BY <1>7, Zenon DEF TakesAddr
  <2>2. AddrByte(Head(down))
    BY <1>2, <2>1, Zenon DEF Receive, IdleByte, LenByte, DataByte, IgnoredByte
  <2>3. PICK i \in 0..(AddrBytes - 1) : i = index
    BY <2>1, Zenon
  <2>4. Head(down) = Packet[(1 + i) + 1] /\ Rest((1 + i) + 1)'
    <3>1. 1 + i \in Nat /\ 1 + i < Len(Packet)
      BY <1>3, <1>4, Sizes
    <3>2. Rest(1 + i)
      BY <2>1, <2>3, Zenon
    <3> QED BY <1>5, <3>1, <3>2, ZenonT(60)
  <2>5. Packet[(1 + i) + 1] = ((base + offset) \div ByteMod^i) % ByteMod
    <3>1. i + 1 \in 1..AddrBytes /\ 1 + (i + 1) = (1 + i) + 1 /\ (i + 1) - 1 = i
      BY Sizes
    <3>2. Packet[1 + (i + 1)] = ((base + offset) \div ByteMod^((i + 1) - 1)) % ByteMod
      BY <1>3, <3>1, PacketIs, Zenon DEF LoadTypes
    <3> QED BY <3>1, <3>2, Zenon
  <2>6. addr' = WithDigit(addr, i, ((base + offset) \div ByteMod^i) % ByteMod)
    BY <2>2, <2>3, <2>4, <2>5, ZenonT(60) DEF AddrByte
  <2>7. addr \in 0..(ByteMod^AddrBytes - 1) /\ base + offset \in Nat
        /\ addr % ByteMod^i = (base + offset) % ByteMod^i
    BY <1>3, <1>7, <2>3 DEF LoadTypes, TakesAddr
  <2>8. /\ addr' \in 0..(ByteMod^AddrBytes - 1)
        /\ addr' % ByteMod^(i + 1) = (base + offset) % ByteMod^(i + 1)
    BY <2>6, <2>7, DigitTaken, Zenon
  <2>9. ~release' /\ len' = len
    BY <1>7, <2>2, Zenon DEF AddrByte
  <2>10. LoadTypes'
    BY <1>1, <1>3, <2>8, <2>9, Zenon DEF LoadTypes
  <2>11. CASE i = AddrBytes - 1
    <3>1. state' = "Len" /\ index' = 0
      BY <2>2, <2>3, <2>11, Zenon DEF AddrByte
    <3>2. i + 1 = AddrBytes /\ (1 + i) + 1 = 1 + AddrBytes + 0
      BY <2>11, Sizes
    <3>3. addr' = (base' + offset') % ByteMod^AddrBytes
      <4>1. addr' % ByteMod^AddrBytes = addr'
        BY ONLY <2>8, InRange, Zenon
      <4> QED BY <1>1, <2>8, <3>2, <4>1, Zenon
    <3>4. Rest(1 + AddrBytes + index)'
      BY <2>4, <3>1, <3>2, Zenon DEF Rest
    <3>5. len' % ByteMod^0 = Size' % ByteMod^0
      <4>1. len \in Nat
        BY <1>3 DEF LoadTypes
      <4> QED BY <1>1, <1>3, <2>9, <4>1, NoRemainder, ZenonT(60)
    <3>6. 0 \in 0..(LenBytes - 1)
      BY Sizes
    <3>7. TakesLen'
      BY <3>1, <3>3, <3>4, <3>5, <3>6, Zenon DEF TakesLen
    <3>8. Writing'
      BY <1>1, <1>2, <2>9, <3>1, <3>7, ZenonT(60) DEF Writing
    <3> QED BY <1>1, <2>10, <3>8, Zenon DEF Exchange
  <2>12. CASE i # AddrBytes - 1
    <3>1. state' = "Addr" /\ index' = i + 1
      BY <2>1, <2>2, <2>3, <2>12, ZenonT(60) DEF AddrByte
    <3>2. i + 1 \in 0..(AddrBytes - 1) /\ (1 + i) + 1 = 1 + (i + 1)
      BY <2>12, Sizes
    <3>3. Rest(1 + index)'
      BY <2>4, <3>1, <3>2, Zenon DEF Rest
    <3>4. TakesAddr'
      BY <1>1, <2>8, <3>1, <3>2, <3>3, Zenon DEF TakesAddr
    <3>5. Writing'
      BY <1>1, <1>2, <2>9, <3>1, <3>4, Zenon DEF Writing
    <3> QED BY <1>1, <2>10, <3>5, Zenon DEF Exchange
  <2> QED BY <2>11, <2>12, Zenon
<1>8. CASE ~release /\ TakesLen
  <2>1. state = "Len" /\ index \in 0..(LenBytes - 1) /\ Rest(1 + AddrBytes + index)
        /\ addr = (base + offset) % ByteMod^AddrBytes
    BY <1>8, Zenon DEF TakesLen
  <2>2. LenByte(Head(down))
    BY <1>2, <2>1, Zenon DEF Receive, IdleByte, AddrByte, DataByte, IgnoredByte
  <2>3. PICK i \in 0..(LenBytes - 1) : i = index
    BY <2>1, Zenon
  <2>4. Head(down) = Packet[(1 + AddrBytes + i) + 1] /\ Rest((1 + AddrBytes + i) + 1)'
    <3>1. 1 + AddrBytes + i \in Nat /\ 1 + AddrBytes + i < Len(Packet)
      BY <1>3, <1>4, Sizes
    <3>2. Rest(1 + AddrBytes + i)
      BY <2>1, <2>3, Zenon
    <3> QED BY <1>5, <3>1, <3>2, ZenonT(60)
  <2>5. Packet[(1 + AddrBytes + i) + 1] = (Size \div ByteMod^i) % ByteMod
    <3>1. /\ i + 1 \in 1..LenBytes /\ 1 + AddrBytes + (i + 1) = (1 + AddrBytes + i) + 1
          /\ (i + 1) - 1 = i
      BY Sizes
    <3>2. Packet[1 + AddrBytes + (i + 1)] = (Size \div ByteMod^((i + 1) - 1)) % ByteMod
      BY <1>3, <3>1, PacketIs, Zenon DEF LoadTypes
    <3> QED BY <3>1, <3>2, ZenonT(60)
  <2>6. len' = WithDigit(len, i, (Size \div ByteMod^i) % ByteMod)
    BY <2>2, <2>3, <2>4, <2>5, Zenon DEF LenByte
  <2>7. len \in 0..(ByteMod^LenBytes - 1) /\ len % ByteMod^i = Size % ByteMod^i
    BY <1>3, <1>8, <2>3, ZenonT(60) DEF LoadTypes, TakesLen
  <2>8. /\ len' \in 0..(ByteMod^LenBytes - 1)
        /\ len' % ByteMod^(i + 1) = Size % ByteMod^(i + 1)
    BY <1>3, <2>6, <2>7, DigitTaken
  <2>9. ~release' /\ addr' = addr
    BY <1>8, <2>2, Zenon DEF LenByte
  <2>10. LoadTypes'
    BY <1>1, <1>3, <2>8, <2>9, ZenonT(60) DEF LoadTypes
  <2>11. CASE i < LenBytes - 1
    <3>1. state' = "Len" /\ index' = i + 1
      BY <2>1, <2>2, <2>3, <2>11, ZenonT(60) DEF LenByte
    <3>2. i + 1 \in 0..(LenBytes - 1) /\ (1 + AddrBytes + i) + 1 = 1 + AddrBytes + (i + 1)
      BY <2>11, Sizes
    <3>3. Rest(1 + AddrBytes + index)'
      BY <2>4, <3>1, <3>2, Zenon DEF Rest
    <3>4. TakesLen'
      BY <1>1, <2>1, <2>8, <2>9, <3>1, <3>2, <3>3, Zenon DEF TakesLen
    <3>5. Writing'
      BY <1>1, <1>2, <2>9, <3>1, <3>4, Zenon DEF Writing
    <3> QED BY <1>1, <2>10, <3>5, Zenon DEF Exchange
  <2>12. CASE ~(i < LenBytes - 1)
    <3>1. i + 1 = LenBytes /\ (1 + AddrBytes + i) + 1 = 1 + AddrBytes + LenBytes
      BY <2>12, Sizes
    <3>2. len' = Size
      <4>0. Size \in 0..(ByteMod^LenBytes - 1)
        BY <1>3
      <4>1. len' % ByteMod^LenBytes = len' /\ Size % ByteMod^LenBytes = Size
        BY ONLY <2>8, <4>0, InRange, Zenon
      <4> QED BY <2>8, <3>1, <4>1, Zenon
    <3>3. Rest(1 + AddrBytes + LenBytes)'
      BY <2>4, <3>1, ZenonT(60)
    <3>4. /\ Len(down') = Size
          /\ \A k \in 1..Size : down'[k] = Packet[1 + AddrBytes + LenBytes + k]
      BY <1>1, <1>3, <1>4, <3>3, Sizes DEF Rest
    <3>5. \A k \in 1..Size : down'[k] = Image[offset + k]
      BY <1>3, <3>4, PacketIs, ZenonT(60) DEF LoadTypes
    <3>6. CASE Size = 0
      <4>1. state' = "Resp" /\ resp' = Ack
        BY <2>2, <2>3, <2>12, <3>2, <3>6, ZenonT(60) DEF LenByte, Answer
      <4>2. down' = <<>>
        BY <1>1, <3>4, <3>6, SMTT(30)
      <4>3. Loaded(offset + Size)'
        BY <1>1, <1>3, <3>6 DEF Loaded
      <4>4. Ack \in Honest'
        BY <4>3, Zenon DEF Honest
      <4>5. Answering(Honest)'
        BY <1>1, <1>2, <4>1, <4>2, <4>4, Zenon DEF Answering
      <4>6. Writing'
        BY <1>1, <1>2, <2>9, <4>1, <4>5, ZenonT(60) DEF Writing
      <4> QED BY <1>1, <2>10, <4>6, Zenon DEF Exchange
    <3>7. CASE Size # 0
      <4>1. state' = "Data"
        BY <2>2, <2>3, <2>12, <3>2, <3>7, ZenonT(60) DEF LenByte
      <4>2. Stored' = offset /\ len' \in 1..Size'
        BY <1>1, <1>3, <3>2, <3>7 DEF Stored
      <4>3. addr' = base' + Stored'
        <5>1. base + offset \in 0..(ByteMod^AddrBytes - 1)
          BY <1>3, <3>7
        <5>2. (base + offset) % ByteMod^AddrBytes = base + offset
          BY ONLY <5>1, InRange, Zenon
        <5> QED BY <1>1, <2>1, <2>9, <4>2, <5>2, Zenon
      <4>4. Loaded(Stored)'
        BY <1>1, <4>2, Zenon DEF Loaded
      <4>5. Follows(Stored)'
        <5>1. Len(down') <= offset' + Size' - Stored'
          BY <1>1, <1>3, <3>4, <4>2
        <5>2. \A k \in 1..Len(down') : down'[k] = Image[Stored' + k]
          BY <3>4, <3>5, <4>2, Zenon
        <5>3. state' # "MemReq" /\ state' # "MemRsp"
          BY <4>1, Zenon
        <5> QED BY <4>4, <5>1, <5>2, <5>3, ZenonT(60) DEF Follows
      <4>6. TakesData'
        BY <4>1, <4>2, <4>3, <4>5, Zenon DEF TakesData
      <4>7. Writing'
        BY <1>1, <1>2, <2>9, <4>1, <4>6, ZenonT(60) DEF Writing
      <4> QED BY <1>1, <2>10, <4>7, Zenon DEF Exchange
    <3> QED BY <3>6, <3>7, Zenon
  <2> QED BY <2>11, <2>12, Zenon
<1>9. CASE ~release /\ TakesData
  <2>1. DataByte(Head(down)) /\ state = "Data"
    BY <1>2, <1>9, Zenon DEF Receive, IdleByte, AddrByte, LenByte, DataByte, IgnoredByte, TakesData
  <2>2. /\ byte' = Head(down) /\ state' = "MemReq"
        /\ UNCHANGED <<addr, len, error, release>>
    BY <2>1, Zenon DEF DataByte
  <2>3. /\ len \in 1..Size /\ addr = base + Stored /\ Follows(Stored)
        /\ Stored \in offset..(offset + Size - 1)
    BY <2>1, InData, Zenon DEF TakesData
  <2>4. Stored' = Stored
    BY <1>1, <2>2, Zenon DEF Stored
  <2>5. LoadTypes'
    BY <1>1, <1>3, <2>2, Zenon DEF LoadTypes
  <2>6. /\ Len(down) \in Nat /\ Len(down) > 0 /\ Head(down) = down[1] /\ Len(down') = Len(down) - 1
        /\ \A k \in 1..Len(down') : down'[k] = down[k + 1] /\ k + 1 \in 1..Len(down)
    <3>1. down \in Seq(0..(ByteMod - 1))
      BY <1>3, Zenon DEF LoadTypes
    <3> QED BY <1>1, <3>1
  <2>7. Follows(Stored + 1)'
    <3>1. Len(down') <= offset' + Size' - (Stored' + 1)
      BY <1>1, <1>3, <2>3, <2>4, <2>6, SMTT(30) DEF Follows
    <3> SUFFICES ASSUME Len(down') = offset' + Size' - (Stored' + 1)
                 PROVE  /\ \A k \in 1..Len(down') : down'[k] = Image[(Stored' + 1) + k]
                        /\ byte' = Image[Stored' + 1]
                        /\ ~error' => Loaded(Stored)'
      <4>1. state' # "MemRsp"
        BY <2>2, ZenonT(60)
      <4> QED BY <3>1, <4>1, Zenon DEF Follows
    <3>2. Len(down) = offset + Size - Stored
      BY <1>1, <1>3, <2>3, <2>4, <2>6, SMTT(30)
    <3>3. \A k \in 1..Len(down) : down[k] = Image[Stored + k]
      BY <2>3, <3>2, Zenon DEF Follows
    <3>4. ~error => Loaded(Stored)
      BY <2>3, <3>2, Zenon DEF Follows
    <3>5. ~error' => Loaded(Stored)'
      BY <1>1, <2>2, <2>4, <3>4, Zenon DEF Loaded
    <3>6. byte' = Image[Stored' + 1]
      <4>1. 1 \in 1..Len(down)
        BY <2>6
      <4> QED BY <2>2, <2>4, <2>6, <3>3, <4>1, ZenonT(60)
    <3>7. ASSUME NEW k \in 1..Len(down') PROVE down'[k] = Image[(Stored' + 1) + k]
      <4>1. down'[k] = down[k + 1] /\ k + 1 \in 1..Len(down)
        BY <2>6, ZenonT(60)
      <4>2. Stored + (k + 1) = (Stored + 1) + k
        BY <1>3, <2>3
      <4> QED BY <2>4, <3>3, <4>1, <4>2, Zenon
    <3> QED BY <3>5, <3>6, <3>7, ZenonT(60)
  <2>8. TakesData'
    BY <1>1, <2>2, <2>3, <2>4, <2>7, Zenon DEF TakesData
  <2>9. Writing'
    BY <1>1, <1>2, <1>9, <2>2, <2>8, Zenon DEF Writing
  <2> QED BY <1>1, <2>5, <2>9, Zenon DEF Exchange
<1> QED BY <1>1, <1>6, <1>7, <1>8, <1>9, Zenon DEF Writing

-----------------------------------------------------------------------------
\* The invariant at power-up.
LEMMA LoadInitInv == LoaderInit => LoadInv
<1> SUFFICES ASSUME LoaderInit PROVE LoadInv
  BY Zenon
<1>1. PinInv
  BY PinInitInv, ZenonT(60)
<1>2. LoadTypes
  BY Sizes, SMTT(30) DEF LoaderInit, LoadTypes
<1>3. Loaded(offset)
  BY DEF LoaderInit, Loaded
<1>4. Unsent
  BY Zenon DEF LoaderInit, Unsent, Resting
<1> QED BY <1>1, <1>2, <1>3, <1>4, Zenon DEF LoadInv, Exchange

\* Every step keeps it.
LEMMA LoadNextInv == LoadInv /\ [LoaderNext]_loaderVars => LoadInv'
<1> SUFFICES ASSUME LoadInv, [LoaderNext]_loaderVars PROVE LoadInv'
  BY Zenon
<1>1. PinInv /\ PinInv'
  BY PinNextInv, Zenon DEF LoadInv
<1> SUFFICES ASSUME ~disturbed' PROVE Exchange'
  BY <1>1, Zenon DEF LoadInv
<1>2. ~disturbed
  <2>1. CASE Retry \/ Lose
    BY <2>1, Zenon DEF Retry, Lose
  <2>2. CASE ~(Retry \/ Lose)
    <3>1. disturbed' = disturbed
      BY <2>2, Zenon DEF LoaderNext, Loader, Host, Activate, Receive, MemGrant, MemRespond, Respond,
         TxStart, TxEnd, Release, Timeout, Send, Expect, HostTimeout, lossVars, loaderVars
    <3> QED BY <3>1, Zenon
  <2> QED BY <2>1, <2>2, Zenon
<1>3. Exchange
  BY <1>2, Zenon DEF LoadInv
<1>4. CASE Serving
  BY <1>1, <1>3, <1>4, ServingInv, Zenon
<1>5. CASE Receive
  BY <1>3, <1>5, ReceiveFrame, ReceivePing, ReceiveGo, ReceiveWrite, Zenon
<1>6. CASE MemGrant
  BY <1>3, <1>6, MemGrantInv, Zenon
<1>7. CASE MemRespond
  BY <1>3, <1>7, MemRespondInv, SMTT(30)
<1>8. CASE Timeout
  BY <1>3, <1>8, TimeoutInv, Zenon
<1>9. CASE Send
  BY <1>3, <1>9, SendInv, Zenon
<1>10. CASE Expect
  BY <1>3, <1>10, ExpectInv, Zenon
<1>11. CASE HostTimeout \/ Retry
  BY <1>3, <1>11, GiveUpInv, Zenon
<1>12. CASE Lose
  BY <1>3, <1>12, LoseInv, ZenonT(60)
<1>13. CASE UNCHANGED loaderVars
  <2>1. UNCHANGED <<state, index, addr, len, byte, error, mem, tx, tx_byte, resp, up, active,
                    done, release, down, pc, base, offset>>
    BY <1>13, Zenon DEF loaderVars, commandVars, txVars, releaseVars, hostVars
  <2>2. Loaded(offset)' /\ Honest' = Honest /\ Size' = Size /\ Packet' = Packet
    BY <1>3, <2>1, NothingWritten, Zenon DEF Exchange
  <2>3. LoadTypes'
    BY <1>3, <2>1, Zenon DEF Exchange, LoadTypes
  <2>4. Stored' = Stored /\ Resting' = Resting
    BY <2>1, <2>2, Zenon DEF Stored, Resting
  <2>5. ASSUME NEW n PROVE Rest(n)' = Rest(n) /\ Loaded(n)' = Loaded(n) /\ Answering(n)' = Answering(n)
    BY <2>1, <2>2, Zenon DEF Rest, Loaded, Answering
  <2> QED BY <1>3, <2>1, <2>2, <2>3, <2>4, <2>5, ZenonT(60)
       DEF Exchange, Unsent, Pinging, Writing, Going, Released, TakesAddr, TakesLen, TakesData,
           Follows
<1> QED
  BY <1>4, <1>5, <1>6, <1>7, <1>8, <1>9, <1>10, <1>11, <1>12, <1>13, ZenonT(60)
  DEF LoaderNext, Loader, Host, Serving

(***************************************************************************)
(* soc_uart_sram_loader and uart_sram_load.py: for every image, chunk size *)
(* and number of losses and runs of the script, what the host counts as    *)
(* loaded is in memory byte for byte, a released core has the whole image, *)
(* and the loader keeps the pin until its last answer is out.              *)
(***************************************************************************)
THEOREM LoadAlwaysTruthful == LoaderSpec => []LoadTruthful
<1>1. LoaderInit => LoadInv
  BY LoadInitInv, Zenon
<1>2. LoadInv /\ [LoaderNext]_loaderVars => LoadInv'
  BY LoadNextInv, Zenon
<1>3. LoadInv => LoadTruthful
  <2> SUFFICES ASSUME LoadInv PROVE LoadedExactly /\ AnswerSentWhole
    BY Zenon DEF LoadTruthful
  <2>1. AnswerSentWhole
    BY Zenon DEF LoadInv, PinInv, AnswerSentWhole
  <2>2. LoadedExactly
    BY Zenon DEF LoadInv, Exchange, Loaded, LoadedExactly, Unsent, Pinging, Writing, Going, Released
  <2> QED BY <2>1, <2>2, Zenon
<1> QED BY <1>1, <1>2, <1>3, PTL DEF LoaderSpec
=============================================================================
