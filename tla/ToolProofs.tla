----------------------------- MODULE ToolProofs -----------------------------
(***************************************************************************)
(* Proofs about the tools.                                                 *)
(*                                                                         *)
(* AddrMap: what bin/check_axi_addr_map.py accepts and resolves, for every *)
(* list of declarations and rules.                                         *)
(*                                                                         *)
(* DepsCore: why a successful run of bin/deps_core.py leaves a git         *)
(* checkout at the pinned revision, for any upstreams, revisions and       *)
(* number of cuts.                                                         *)
(*                                                                         *)
(* RepoTools, Descriptors: the versions of the .core files, what           *)
(* validate_target.py and render_support_matrix.py say of the descriptors, *)
(* and what a write of create_core.py or create_board.py may break, for    *)
(* any names, versions, edits and cuts.                                    *)
(***************************************************************************)
EXTENDS AddrMap, DepsCore, RepoTools, SequenceTheorems, WellFoundedInduction, TLAPS

\* A non-empty set of naturals has a least element.
LEMMA LeastNat ==
  ASSUME NEW S \in SUBSET Nat, S # {}
  PROVE  \E m \in S : \A k \in S : m <= k
<1> DEFINE LT == {ss \in Nat \X Nat : ss[1] < ss[2]}
<1>1. IsWellFoundedOn(LT, Nat)
  BY NatLessThanWellFounded, Zenon DEF OpToRel
<1>2. \A k, m \in S : <<k, m>> \in LT <=> k < m
  BY Zenon
<1> HIDE DEF LT
<1>3. PICK m \in S : \A k \in S : ~ (<<k, m>> \in LT)
  BY <1>1, WFMin, Zenon
<1>4. \A k \in S : ~(k < m)
  BY <1>2, <1>3, Zenon
<1>5. \A k \in S : m <= k
  BY <1>4
<1> QED BY <1>5, Zenon

-----------------------------------------------------------------------------
\* The rules are well formed: what the loop over them in main has established
\* when the comparison of neighbours begins.
Ranges ==
  /\ rules \in Seq(Rule)
  /\ values \in [DOMAIN values -> Int]
  /\ AddrTop \in Nat
  /\ \A i \in 1..Len(rules) : WellFormed(i)

\* Starts and ends are integers, and windows are not empty.
LEMMA WindowType ==
  ASSUME Ranges, NEW i \in 1..Len(rules)
  PROVE  StartOf(i) \in Int /\ EndOf(i) \in Int /\ StartOf(i) < EndOf(i) /\ EndOf(i) <= AddrTop
<1>1. rules[i].base \in DOMAIN values /\ rules[i].size \in DOMAIN values
  BY Zenon DEF Ranges, WellFormed, Resolved
<1>2. values[rules[i].base] \in Int /\ values[rules[i].size] \in Int
  BY <1>1, Zenon DEF Ranges
<1>3. values[rules[i].size] > 0 /\ EndOf(i) <= AddrTop
  BY Zenon DEF Ranges, WellFormed
<1> QED BY <1>2, <1>3 DEF StartOf, EndOf

\* sorted: a window that has one after it has a neighbour, which starts no later.
LEMMA NeighbourExists ==
  ASSUME Ranges, NEW i \in 1..Len(rules), NEW j \in 1..Len(rules), Sorted(i, j)
  PROVE  \E m \in 1..Len(rules) : Neighbours(i, m) /\ StartOf(m) <= StartOf(j)
<1> DEFINE After == {k \in 1..Len(rules) : Sorted(i, k)}
           Gaps == {StartOf(k) - StartOf(i) : k \in After}
<1>0. Len(rules) \in Nat
  BY DEF Ranges
<1>1. j \in After /\ \A k \in 1..Len(rules) : StartOf(k) \in Int
  BY WindowType, Zenon
<1>2. Gaps \in SUBSET Nat /\ Gaps # {}
  <2>1. ASSUME NEW k \in After PROVE StartOf(k) - StartOf(i) \in Nat
    BY <1>1 DEF Sorted
  <2> QED BY <1>1, <2>1, Zenon
<1>3. PICK g \in Gaps : \A t \in Gaps : g <= t
  BY <1>2, LeastNat, Zenon
<1>31. PICK s \in Int : (\E k \in After : StartOf(k) = s) /\ \A k \in After : s <= StartOf(k)
  <2>1. PICK l \in After : g = StartOf(l) - StartOf(i)
    BY Zenon
  <2>2. \A k \in After : StartOf(l) - StartOf(i) <= StartOf(k) - StartOf(i)
    BY <1>3, <2>1, Zenon
  <2>3. \A k \in After : StartOf(l) <= StartOf(k)
    BY <1>1, <2>2
  <2> QED BY <1>1, <2>3, Zenon
<1> DEFINE Foremost == {k \in After : StartOf(k) = s}
<1>4. Foremost \in SUBSET Nat /\ Foremost # {}
  BY <1>0, <1>31
<1>5. PICK m \in Foremost : \A k \in Foremost : m <= k
  BY <1>4, LeastNat, Zenon
<1>6. m \in 1..Len(rules) /\ Sorted(i, m) /\ StartOf(m) = s
  BY Zenon
<1>7. StartOf(m) <= StartOf(j)
  BY <1>1, <1>31, <1>6, Zenon
<1>8. ASSUME NEW k \in 1..Len(rules), Sorted(i, k), Sorted(k, m)
      PROVE  FALSE
  <2>1. s <= StartOf(k)
    BY <1>31, <1>8, Zenon
  <2>2. StartOf(k) = s /\ k < m
    BY <1>1, <1>6, <1>8, <2>1 DEF Sorted
  <2>3. k \in Foremost
    BY <1>8, <2>2, Zenon
  <2> QED BY <1>0, <1>5, <1>6, <2>2, <2>3
<1>9. Neighbours(i, m)
  BY <1>6, <1>8, Zenon DEF Neighbours
<1> QED BY <1>6, <1>7, <1>9, Zenon

\* Of two windows one comes first, and it ends before the other starts.
LEMMA OrderedApart ==
  ASSUME Ranges,
         \A i, j \in 1..Len(rules) : Neighbours(i, j) => EndOf(i) <= StartOf(j),
         NEW i \in 1..Len(rules), NEW j \in 1..Len(rules), Sorted(i, j)
  PROVE  EndOf(i) <= StartOf(j)
<1>1. PICK m \in 1..Len(rules) : Neighbours(i, m) /\ StartOf(m) <= StartOf(j)
  BY NeighbourExists, Zenon
<1>2. EndOf(i) <= StartOf(m)
  BY <1>1, Zenon
<1> QED BY <1>1, <1>2, WindowType

\* main: comparing each window with the next in sorted order decides whether any
\* address lies in two windows.
LEMMA NeighboursDecide ==
  ASSUME Ranges
  PROVE  (\A i, j \in 1..Len(rules) : Neighbours(i, j) => EndOf(i) <= StartOf(j))
           <=> (\A i, j \in 1..Len(rules) :
                  i # j => Window(i) \intersect Window(j) = {})
<1>0. Len(rules) \in Nat /\ AddrTop \in Nat
  BY DEF Ranges
<1>1. ASSUME \A i, j \in 1..Len(rules) : Neighbours(i, j) => EndOf(i) <= StartOf(j),
             NEW i \in 1..Len(rules), NEW j \in 1..Len(rules), i # j,
             NEW a, a \in Window(i), a \in Window(j)
      PROVE  FALSE
  <2>1. Sorted(i, j) \/ Sorted(j, i)
    BY <1>0, <1>1, WindowType DEF Sorted
  <2>2. EndOf(i) <= StartOf(j) \/ EndOf(j) <= StartOf(i)
    BY <1>1, <2>1, OrderedApart, Zenon
  <2>3. a \in Int /\ StartOf(i) <= a /\ a < EndOf(i) /\ StartOf(j) <= a /\ a < EndOf(j)
    BY <1>1, WindowType DEF Window
  <2> QED BY <1>0, <2>2, <2>3, WindowType
<1>2. ASSUME \A i, j \in 1..Len(rules) :
               i # j => Window(i) \intersect Window(j) = {},
             NEW i \in 1..Len(rules), NEW j \in 1..Len(rules), Neighbours(i, j)
      PROVE  EndOf(i) <= StartOf(j)
  <2>1. i # j /\ StartOf(i) <= StartOf(j)
    BY <1>0, <1>2, WindowType DEF Neighbours, Sorted
  <2>2. SUFFICES ASSUME StartOf(j) < EndOf(i) PROVE FALSE
    BY WindowType
  <2>4. StartOf(j) \in Window(i) /\ StartOf(j) \in Window(j)
    BY <2>1, <2>2, WindowType DEF Window
  <2> QED BY <1>2, <2>1, <2>4, Zenon
<1> QED BY <1>1, <1>2, Zenon

-----------------------------------------------------------------------------
\* The inductive invariant: every resolved name satisfies its declaration; a name
\* not yet resolved is still in one of the lists; in a pass without progress what
\* was put off could not be evaluated and still cannot; and the verdict was taken
\* on the values that are there.
MapTypeOK ==
  /\ decls \in Decls
  /\ rules \in Maps
  /\ DOMAIN values \subseteq Names
  /\ values \in [DOMAIN values -> Int]
  /\ pending \in Seq(1..Len(decls))
  /\ next_pending \in Seq(1..Len(decls))
  /\ progress \in BOOLEAN
  /\ verdict \in {"", "passed", "error"}

Consistent ==
  \A i \in 1..Len(decls) :
    decls[i].name \in DOMAIN values =>
      Evaluable(decls[i]) /\ values[decls[i].name] = Eval(decls[i], values)

InLists(i) ==
  \/ \E q \in 1..Len(pending) : pending[q] = i
  \/ \E q \in 1..Len(next_pending) : next_pending[q] = i

NothingLost == \A i \in 1..Len(decls) : decls[i].name \in DOMAIN values \/ InLists(i)

PutOffStuck ==
  ~progress => \A q \in 1..Len(next_pending) : ~Evaluable(decls[next_pending[q]])

VerdictTaken ==
  verdict # "" =>
    /\ pending = <<>> /\ (next_pending = <<>> \/ ~progress)
    /\ verdict = "passed" <=> Accepts

MapInv == MapTypeOK /\ Consistent /\ NothingLost /\ PutOffStuck /\ VerdictTaken

\* An empty list has no index.
LEMMA NoIndex == 1..Len(<<>>) = {}
<1>1. Len(<<>>) = 0
  BY EmptySeq, Zenon
<1> QED BY <1>1

\* What AddrMapAssumption says of the declarations of a state.
LEMMA DeclType ==
  ASSUME MapTypeOK
  PROVE  /\ decls \in Seq(Declaration) /\ rules \in Seq(Rule) /\ AddrTop \in Nat
         /\ \A i \in 1..Len(decls) : decls[i] \in Declaration
         /\ \A i, j \in 1..Len(decls) : decls[i].name = decls[j].name => i = j
<1>1. decls \in Seq(Declaration) /\ rules \in Seq(Rule) /\ AddrTop \in Nat
  BY AddrMapAssumption, Zenon DEF MapTypeOK
<1>2. \A i \in 1..Len(decls) : decls[i] \in Declaration
  BY <1>1
<1>3. \A i, j \in 1..Len(decls) : decls[i].name = decls[j].name => i = j
  BY AddrMapAssumption, Zenon DEF MapTypeOK
<1> QED BY <1>1, <1>2, <1>3, Zenon

\* eval_expr returns an integer.
LEMMA EvalType ==
  ASSUME NEW d \in Declaration, values \in [DOMAIN values -> Int], Evaluable(d)
  PROVE  Eval(d, values) \in Int
<1>0. d.l.lit \in Int /\ d.r.lit \in Int
  BY DEF Declaration, Operand
<1>1. Value(d.l, values) \in Int /\ Value(d.r, values) \in Int
  BY <1>0, Zenon DEF Evaluable, Known, Value
<1>2. \A x, y \in Int : x + y \in Int /\ x - y \in Int /\ x * y \in Int
  OBVIOUS
<1> QED BY <1>1, <1>2, Zenon DEF Eval

\* parse_soc_top: the loop starts with nothing resolved and all pending.
LEMMA MapInitInv == MapInit => MapInv
<1> SUFFICES ASSUME MapInit PROVE MapInv
  BY Zenon
<1>1. Len(decls) \in Nat
  <2>1. decls \in Seq(Declaration)
    BY AddrMapAssumption, Zenon DEF MapInit
  <2> QED BY <2>1, LenProperties, Zenon
<1> DEFINE n == Len(decls)
<1>a. pending \in [1..n -> 1..n]
  BY Zenon DEF MapInit
<1>b. pending \in Seq(1..n)
  <2>1. Seq(1..n) = UNION {[1..m -> 1..n] : m \in Nat}
    BY SeqDef, Zenon
  <2>2. n \in Nat
    BY <1>1, Zenon
  <2> HIDE DEF n
  <2> QED BY <1>a, <2>1, <2>2, Zenon
<1>2. MapTypeOK
  <2>1. next_pending \in Seq(1..Len(decls))
    BY EmptySeq, Zenon DEF MapInit
  <2>2. /\ values \in [DOMAIN values -> Int] /\ DOMAIN values = {}
        /\ progress \in BOOLEAN /\ verdict = ""
    BY Zenon DEF MapInit
  <2> QED BY <1>b, <2>1, <2>2, Zenon DEF MapInit, MapTypeOK
<1>3. Consistent
  BY Zenon DEF MapInit, Consistent
<1>4. NothingLost
  <2>1. Len(pending) = Len(decls) /\ \A i \in 1..Len(decls) : pending[i] = i
    <3>1. \A i \in 1..n : pending[i] = i
      BY Zenon DEF MapInit
    <3>2. Len(pending) \in Nat /\ 1..Len(pending) = 1..n
      BY <1>a, <1>b, LenProperties, Zenon
    <3> QED BY <1>1, <3>1, <3>2
  <2> QED BY <2>1, Zenon DEF NothingLost, InLists
<1>5. PutOffStuck
  <2>1. next_pending = <<>> /\ 1..Len(<<>>) = {}
    BY NoIndex, Zenon DEF MapInit
  <2> QED BY <2>1, Zenon DEF PutOffStuck
<1>6. VerdictTaken
  BY Zenon DEF MapInit, VerdictTaken
<1> QED BY <1>2, <1>3, <1>4, <1>5, <1>6, Zenon DEF MapInv

\* A turn of the loop that resolves its name.
LEMMA ResolveValue ==
  ASSUME MapInv, Resolve, Evaluable(decls[Head(pending)])
  PROVE  MapInv'
<1> DEFINE k == Head(pending)
           d == decls[k]
<1>0. /\ MapTypeOK /\ Consistent /\ NothingLost /\ PutOffStuck
      /\ pending \in Seq(1..Len(decls)) /\ pending # <<>>
  BY Zenon DEF MapInv, Resolve, MapTypeOK
<1>1. k \in 1..Len(decls) /\ d \in Declaration /\ d.name \in Names
  <2>1. k \in 1..Len(decls)
    BY <1>0
  <2> QED BY <2>1, <1>0, DeclType, Zenon DEF Declaration
<1>2. /\ values' = [n \in DOMAIN values \union {d.name} |->
                     IF n = d.name THEN Eval(d, values) ELSE values[n]]
      /\ progress' = TRUE /\ next_pending' = next_pending /\ pending' = Tail(pending)
      /\ decls' = decls /\ rules' = rules /\ verdict' = "" /\ verdict = ""
  BY Zenon DEF Resolve
<1>3. Eval(d, values) \in Int
  BY <1>0, <1>1, EvalType, Zenon DEF MapTypeOK
<1>4. /\ DOMAIN values' = DOMAIN values \union {d.name}
      /\ values'[d.name] = Eval(d, values)
      /\ \A n \in DOMAIN values : values'[n] = values[n]
  <2>1. ASSUME d.name \in DOMAIN values PROVE values[d.name] = Eval(d, values)
    BY <1>0, <1>1, <2>1, Zenon DEF Consistent
  <2> QED BY <1>2, <2>1, Zenon
<1>5. MapTypeOK'
  <2>1. /\ decls' \in Decls /\ rules' \in Maps /\ progress' \in BOOLEAN
        /\ verdict' \in {"", "passed", "error"}
        /\ next_pending' \in Seq(1..Len(decls'))
    BY <1>0, <1>2, Zenon DEF MapTypeOK
  <2>2. pending' \in Seq(1..Len(decls'))
    BY <1>0, <1>2, HeadTailProperties, Zenon
  <2>3. DOMAIN values' \subseteq Names
    BY <1>0, <1>1, <1>4, Zenon DEF MapTypeOK
  <2>4. values' \in [DOMAIN values' -> Int]
    BY <1>0, <1>2, <1>3, Zenon DEF MapTypeOK
  <2> QED BY <2>1, <2>2, <2>3, <2>4, Zenon DEF MapTypeOK
<1>6. Consistent'
  <2> SUFFICES ASSUME NEW i \in 1..Len(decls), decls[i].name \in DOMAIN values'
               PROVE  /\ Evaluable(decls[i])'
                      /\ values'[decls[i].name] = Eval(decls[i], values')
    BY <1>2, Zenon DEF Consistent
  <2>1. /\ Evaluable(decls[i])
        /\ values'[decls[i].name] = Eval(decls[i], values)
    <3>1. CASE decls[i].name \in DOMAIN values
      BY <1>0, <1>4, <3>1, Zenon DEF Consistent
    <3>2. CASE decls[i].name = d.name
      BY <1>0, <1>1, <1>4, <3>2, DeclType, Zenon
    <3> QED BY <1>4, <3>1, <3>2, Zenon
  <2>2. Evaluable(decls[i])'
    BY <1>2, <1>4, <2>1, Zenon DEF Evaluable, Known
  <2>3. Eval(decls[i], values') = Eval(decls[i], values)
    BY <1>4, <2>1, Zenon DEF Eval, Value, Evaluable, Known
  <2> QED BY <2>1, <2>2, <2>3, Zenon
<1>7. NothingLost'
  <2> SUFFICES ASSUME NEW i \in 1..Len(decls), decls[i].name \notin DOMAIN values'
               PROVE  InLists(i)'
    BY <1>2, Zenon DEF NothingLost
  <2>1. InLists(i) /\ i # k
    BY <1>0, <1>4, Zenon DEF NothingLost
  <2>2. CASE \E q \in 1..Len(next_pending) : next_pending[q] = i
    BY <1>2, <2>2, Zenon DEF InLists
  <2>3. CASE \E q \in 1..Len(pending) : pending[q] = i
    <3>1. PICK q \in 1..Len(pending) : pending[q] = i
      BY <2>3, Zenon
    <3>2. q - 1 \in 1..Len(Tail(pending)) /\ Tail(pending)[q - 1] = i
      BY <1>0, <2>1, <3>1
    <3> QED BY <1>2, <3>2, Zenon DEF InLists
  <2> QED BY <2>1, <2>2, <2>3, Zenon DEF InLists
<1>8. PutOffStuck' /\ VerdictTaken'
  BY <1>2, Zenon DEF PutOffStuck, VerdictTaken
<1> QED BY <1>5, <1>6, <1>7, <1>8, Zenon DEF MapInv

\* A turn of the loop that puts its name off.
LEMMA ResolvePutOff ==
  ASSUME MapInv, Resolve, ~Evaluable(decls[Head(pending)])
  PROVE  MapInv'
<1> DEFINE k == Head(pending)
<1>0. /\ MapTypeOK /\ Consistent /\ NothingLost /\ PutOffStuck
      /\ pending \in Seq(1..Len(decls)) /\ pending # <<>>
      /\ next_pending \in Seq(1..Len(decls))
  BY Zenon DEF MapInv, Resolve, MapTypeOK
<1>1. k \in 1..Len(decls)
  BY <1>0
<1>2. /\ next_pending' = Append(next_pending, k) /\ pending' = Tail(pending)
      /\ values' = values /\ progress' = progress
      /\ decls' = decls /\ rules' = rules /\ verdict' = "" /\ verdict = ""
  BY Zenon DEF Resolve
<1>3. /\ Len(next_pending') = Len(next_pending) + 1 /\ Len(next_pending) \in Nat
      /\ next_pending'[Len(next_pending) + 1] = k
      /\ \A q \in 1..Len(next_pending) : next_pending'[q] = next_pending[q]
  <2>1. Len(next_pending) \in Nat
    BY <1>0, LenProperties, Zenon
  <2> DEFINE S == 1..Len(decls)
  <2>2. next_pending \in Seq(S) /\ k \in S /\ next_pending' = Append(next_pending, k)
    BY <1>0, <1>1, <1>2, Zenon
  <2> HIDE DEF S, k
  <2>3. /\ Len(Append(next_pending, k)) = Len(next_pending) + 1
        /\ \A i \in 1..Len(next_pending) : Append(next_pending, k)[i] = next_pending[i]
        /\ Append(next_pending, k)[Len(next_pending) + 1] = k
    BY <2>2, AppendProperties
  <2> QED BY <2>1, <2>2, <2>3, Zenon
<1>4. MapTypeOK'
  <2>1. /\ decls' \in Decls /\ rules' \in Maps /\ progress' \in BOOLEAN
        /\ verdict' \in {"", "passed", "error"}
        /\ DOMAIN values' \subseteq Names /\ values' \in [DOMAIN values' -> Int]
    BY <1>0, <1>2, Zenon DEF MapTypeOK
  <2>2. pending' \in Seq(1..Len(decls')) /\ next_pending' \in Seq(1..Len(decls'))
    BY <1>0, <1>1, <1>2, HeadTailProperties, AppendProperties, Zenon
  <2> QED BY <2>1, <2>2, Zenon DEF MapTypeOK
<1>5. Consistent'
  BY <1>0, <1>2, Zenon DEF Consistent, Evaluable, Known
<1>6. NothingLost'
  <2> SUFFICES ASSUME NEW i \in 1..Len(decls), decls[i].name \notin DOMAIN values
               PROVE  InLists(i)'
    BY <1>2, Zenon DEF NothingLost
  <2>1. InLists(i)
    BY <1>0, Zenon DEF NothingLost
  <2>2. CASE \E q \in 1..Len(next_pending) : next_pending[q] = i
    BY <1>3, <2>2 DEF InLists
  <2>3. CASE i = k
    BY <1>3, <2>3 DEF InLists
  <2>4. CASE i # k /\ \E q \in 1..Len(pending) : pending[q] = i
    <3>1. PICK q \in 1..Len(pending) : pending[q] = i
      BY <2>4, Zenon
    <3>2. q - 1 \in 1..Len(Tail(pending)) /\ Tail(pending)[q - 1] = i
      BY <1>0, <2>4, <3>1, SMTT(30)
    <3> QED BY <1>2, <3>2, Zenon DEF InLists
  <2> QED BY <2>1, <2>2, <2>3, <2>4, Zenon DEF InLists
<1>7. PutOffStuck'
  <2> SUFFICES ASSUME ~progress, NEW q \in 1..Len(next_pending')
               PROVE  ~Evaluable(decls[next_pending'[q]])
    BY <1>2, Zenon DEF PutOffStuck, Evaluable, Known
  <2>1. CASE q = Len(next_pending) + 1
    BY <1>3, <2>1, Zenon
  <2>2. CASE q \in 1..Len(next_pending)
    BY <1>0, <1>3, <2>2, Zenon DEF PutOffStuck
  <2> QED BY <1>3, <2>1, <2>2
<1>8. VerdictTaken'
  BY <1>2, Zenon DEF VerdictTaken
<1> QED BY <1>4, <1>5, <1>6, <1>7, <1>8, Zenon DEF MapInv

\* The next pass takes over what the last one put off.
LEMMA NextPassInv ==
  ASSUME MapInv, NextPass
  PROVE  MapInv'
<1>0. MapTypeOK /\ Consistent /\ NothingLost
  BY Zenon DEF MapInv
<1>1. /\ pending = <<>> /\ pending' = next_pending /\ next_pending' = <<>>
      /\ progress' = FALSE /\ values' = values /\ decls' = decls /\ rules' = rules
      /\ verdict' = "" /\ verdict = ""
  BY Zenon DEF NextPass
<1>2. 1..Len(<<>>) = {}
  BY NoIndex, Zenon
<1>3. MapTypeOK'
  BY <1>0, <1>1, Zenon DEF MapTypeOK
<1>4. Consistent'
  BY <1>0, <1>1, ZenonT(60) DEF Consistent, Evaluable, Known
<1>5. NothingLost'
  BY <1>0, <1>1, <1>2, Zenon DEF NothingLost, InLists
<1>6. PutOffStuck'
  BY <1>1, <1>2, Zenon DEF PutOffStuck
<1>7. VerdictTaken'
  BY <1>1, Zenon DEF VerdictTaken
<1> QED BY <1>3, <1>4, <1>5, <1>6, <1>7, ZenonT(60) DEF MapInv

\* What main accepts depends on the rules and the values alone.
LEMMA AcceptsKept ==
  ASSUME UNCHANGED <<rules, values>>
  PROVE  Accepts' <=> Accepts
<1>1. \A i : /\ StartOf(i)' = StartOf(i) /\ EndOf(i)' = EndOf(i)
             /\ Resolved(i)' <=> Resolved(i)
  BY Zenon DEF StartOf, EndOf, Resolved
<1>2. \A i : WellFormed(i)' <=> WellFormed(i)
  BY <1>1, Zenon DEF WellFormed
<1>3. \A i, j : Sorted(i, j)' <=> Sorted(i, j)
  BY <1>1, Zenon DEF Sorted
<1>4. \A i, j : Neighbours(i, j)' <=> Neighbours(i, j)
  BY <1>3, Zenon DEF Neighbours
<1> QED
  BY <1>1, <1>2, <1>4, ZenonT(60) DEF Accepts

\* The verdict is taken on the values it leaves in place.
LEMMA CheckInv ==
  ASSUME MapInv, Check
  PROVE  MapInv'
<1>0. MapTypeOK /\ Consistent /\ NothingLost /\ PutOffStuck
  BY Zenon DEF MapInv
<1>1. /\ UNCHANGED <<decls, rules, values, pending, next_pending, progress>>
      /\ pending = <<>> /\ (next_pending = <<>> \/ ~progress)
      /\ verdict' = IF Accepts THEN "passed" ELSE "error"
  BY Zenon DEF Check
<1>2. MapTypeOK'
  BY <1>0, <1>1, Zenon DEF MapTypeOK
<1>3. Consistent' /\ NothingLost' /\ PutOffStuck'
  BY <1>0, <1>1, Zenon DEF Consistent, NothingLost, InLists, PutOffStuck, Evaluable, Known
<1>4. Accepts' <=> Accepts
  BY <1>1, AcceptsKept, Zenon
<1>5. VerdictTaken'
  BY <1>1, <1>4, Zenon DEF VerdictTaken
<1> QED BY <1>2, <1>3, <1>5, Zenon DEF MapInv

\* check_axi_addr_map.py: the invariant holds in every state of a run.
THEOREM MapInvariant == MapSpec => []MapInv
<1>1. MapInv /\ [MapNext]_mapVars => MapInv'
  <2> SUFFICES ASSUME MapInv, [MapNext]_mapVars PROVE MapInv'
    BY Zenon
  <2>1. CASE Resolve
    BY <2>1, ResolveValue, ResolvePutOff, Zenon
  <2>2. CASE NextPass
    BY <2>2, NextPassInv, Zenon
  <2>3. CASE Check
    BY <2>3, CheckInv, Zenon
  <2>4. CASE UNCHANGED mapVars
    <3>1. UNCHANGED <<decls, rules, values, pending, next_pending, progress, verdict>>
      BY <2>4, Zenon DEF mapVars
    <3>2. Accepts' <=> Accepts
      BY <3>1, AcceptsKept, Zenon
    <3> QED BY <3>1, <3>2, Zenon DEF MapInv, MapTypeOK, Consistent, NothingLost, InLists, PutOffStuck,
                             VerdictTaken, Evaluable, Known
  <2> QED BY <2>1, <2>2, <2>3, <2>4, Zenon DEF MapNext
<1> QED BY <1>1, MapInitInv, PTL DEF MapSpec

-----------------------------------------------------------------------------
\* parse_soc_top: for all declarations, the passes stop at the fixpoint: resolved
\* names satisfy their declarations, the others depend on an unresolved one.
THEOREM FixpointAlways == MapSpec => []FixpointReached
<1>1. MapInv => FixpointReached
  <2> SUFFICES ASSUME MapInv, NEW i \in 1..Len(decls),
                      verdict # "", decls[i].name \notin DOMAIN values
               PROVE  ~Evaluable(decls[i])
    BY Zenon DEF FixpointReached, MapInv, Consistent
  <2>1. pending = <<>> /\ (next_pending = <<>> \/ ~progress) /\ 1..Len(<<>>) = {}
    BY NoIndex, Zenon DEF MapInv, VerdictTaken
  <2>2. PICK q \in 1..Len(next_pending) : next_pending[q] = i
    BY <2>1, Zenon DEF MapInv, NothingLost, InLists
  <2>3. ~progress
    BY <2>1, <2>2, Zenon
  <2> QED BY <2>2, <2>3, Zenon DEF MapInv, PutOffStuck
<1> QED BY <1>1, MapInvariant, PTL

\* main: for all maps and all values of the parameters, the verdict is "passed"
\* exactly when every window is well formed and no address decodes to two targets.
THEOREM VerdictAlwaysExact == MapSpec => []VerdictExact
<1>1. MapInv => VerdictExact
  <2> SUFFICES ASSUME MapInv PROVE Accepts <=> Sound
    BY Zenon DEF VerdictExact, MapInv, VerdictTaken
  <2>1. MapTypeOK
    BY Zenon DEF MapInv
  <2>2. CASE \A i \in 1..Len(rules) : WellFormed(i)
    <3>1. Ranges
      BY <2>1, <2>2, DeclType, Zenon DEF Ranges, MapTypeOK
    <3> QED BY <2>2, <3>1, NeighboursDecide, Zenon DEF Accepts, Sound
  <2>3. CASE ~ \A i \in 1..Len(rules) : WellFormed(i)
    BY <2>3, Zenon DEF Accepts, Sound
  <2> QED BY <2>2, <2>3, Zenon
<1> QED BY <1>1, MapInvariant, PTL

-----------------------------------------------------------------------------
Steps == {"", "init", "remote", "look", "shallow", "full", "checkout", "link", "symlink"}

AtPin == link /\ dir.head = pin.rev /\ dir.head \in dir.commits

(***************************************************************************)
(* The inductive invariant.  LinkedIsPinned speaks of the end of a run;    *)
(* what keeps it is that the checkout is at the pin from git checkout on,  *)
(* that a run first takes the success of the last one back, and that the   *)
(* pin does not change while a run is in progress.                         *)
(***************************************************************************)
DepsInv ==
  /\ pin \in Pins
  /\ dir \in Dirs
  /\ step \in Steps
  /\ step # "" => result # "done"
  /\ step \in {"link", "symlink"} /\ dir.kind = "git" =>
       dir.head = pin.rev /\ dir.head \in dir.commits
  /\ result = "done" /\ dir.kind = "git" => AtPin

\* What a pin is.
LEMMA PinType ==
  ASSUME NEW p \in Pins
  PROVE  p.upstream \in Upstreams /\ p.rev \in Revs /\ p.rev \in Serves[p.upstream]
BY Zenon DEF Pins

\* A repository serves revisions.
LEMMA ServesType ==
  ASSUME NEW u \in Upstreams
  PROVE  Serves[u] \subseteq Revs
BY DepsAssumption, Zenon

\* The directories a first run may find are directories.
LEMMA DepsInitInv == DepsInit => DepsInv
<1> SUFFICES ASSUME DepsInit PROVE DepsInv BY Zenon
<1>1. pin \in Pins /\ step = "" /\ result = "" BY Zenon DEF DepsInit
<1>2. pin.upstream \in Upstreams /\ pin.rev \in Revs BY <1>1, PinType, Zenon
<1>3. Serves[pin.upstream] \subseteq Revs BY <1>2, ServesType, Zenon
<1>4. dir \in Dirs
  <2>1. NoDir \in Dirs BY Zenon DEF NoDir, Dirs
  <2>2. VendorCopy(pin.rev) \in Dirs BY <1>2, Zenon DEF VendorCopy, NoDir, Dirs
  <2>3. FullClone(pin.upstream, pin.rev) \in Dirs BY <1>2, <1>3, Zenon DEF FullClone, Dirs
  <2> QED BY <2>1, <2>2, <2>3, Zenon DEF DepsInit
<1> QED BY <1>1, <1>4, Zenon DEF DepsInv, Steps

\* Every command of a run keeps the invariant.
LEMMA CommandInv == DepsInv /\ Command => DepsInv'
<1> SUFFICES ASSUME DepsInv, Command PROVE DepsInv' BY Zenon
<1> USE DEF DepsInv, Steps, AtPin
<1>0. pin.upstream \in Upstreams /\ pin.rev \in Revs BY PinType, Zenon
<1>1. CASE Run BY <1>1, Zenon DEF Run, Do
<1>2. CASE GitInit
  <2>1. dir' \in Dirs BY <1>2, Zenon DEF GitInit, NoDir, Dirs
  <2> QED BY <1>2, <2>1, Zenon DEF GitInit, Do
<1>3. CASE RemoteAdd
  <2>1. dir' \in Dirs BY <1>0, <1>3, Zenon DEF RemoteAdd, Dirs
  <2> QED BY <1>3, <2>1, Zenon DEF RemoteAdd, Do
<1>4. CASE Look BY <1>4, Zenon DEF Look, Do
<1>5. CASE Checkout
  <2>1. CASE pin.rev \in dir.commits
    <3>1. dir' \in Dirs /\ dir'.head = pin.rev /\ dir'.commits = dir.commits
      BY <1>0, <1>5, <2>1, ZenonT(60) DEF Checkout, Do, Dirs
    <3> QED BY <1>5, <2>1, <3>1, Zenon DEF Checkout, Do
  <2>2. CASE pin.rev \notin dir.commits BY <1>5, <2>2, Zenon DEF Checkout, Fail
  <2> QED BY <2>1, <2>2, Zenon
<1>6. CASE Unlink BY <1>6, Zenon DEF Unlink, Do
<1>7. CASE Symlink BY <1>7, Zenon DEF Symlink, Do
<1> QED BY <1>1, <1>2, <1>3, <1>4, <1>5, <1>6, <1>7, ZenonT(60) DEF Command

\* So does a fetch, whether it gets through or not.
LEMMA FetchInv == DepsInv /\ (FetchOK \/ FetchFails) => DepsInv'
<1> SUFFICES ASSUME DepsInv, FetchOK \/ FetchFails PROVE DepsInv' BY Zenon
<1> USE DEF DepsInv, Steps, AtPin
<1>0. pin.rev \in Revs BY PinType, Zenon
<1>1. CASE FetchOK
  <2>1. dir.origin \in Upstreams BY <1>1, Zenon DEF FetchOK, Dirs
  <2>2. Serves[dir.origin] \subseteq Revs BY <2>1, ServesType, Zenon
  <2>3. dir' \in Dirs
    <3>1. CASE dir' = [dir EXCEPT !.commits = @ \union {pin.rev}, !.shallow = TRUE]
      BY <1>0, <3>1, Zenon DEF Dirs
    <3>2. CASE dir' = [dir EXCEPT !.commits = @ \union Serves[dir.origin]]
      BY <2>2, <3>2, Zenon DEF Dirs
    <3> QED BY <1>1, <3>1, <3>2, Zenon DEF FetchOK
  <2> QED BY <1>1, <2>3, Zenon DEF FetchOK, Do
<1>2. CASE FetchFails BY <1>2, Zenon DEF FetchFails, Fail
<1> QED BY <1>1, <1>2, Zenon

\* The invariant behind the checkout of deps_core.py.
THEOREM CheckoutInvariant == DepsSpec => []DepsInv
<1>1. DepsInv /\ [DepsNext]_depsVars => DepsInv'
  <2> SUFFICES ASSUME DepsInv, [DepsNext]_depsVars PROVE DepsInv' BY Zenon
  <2>1. CASE Command BY <2>1, CommandInv, Zenon
  <2>2. CASE FetchOK \/ FetchFails BY <2>2, FetchInv, Zenon
  <2>3. CASE Cut BY <2>3, Zenon DEF Cut, DepsInv, Steps, AtPin
  <2>4. CASE ChangePin BY <2>4, Zenon DEF ChangePin, DepsInv, Steps, AtPin
  <2>5. CASE UNCHANGED depsVars BY <2>5, Zenon DEF depsVars, DepsInv, Steps, AtPin
  <2> QED BY <2>1, <2>2, <2>3, <2>4, <2>5, Zenon DEF DepsNext
<1> QED BY DepsInitInv, <1>1, PTL DEF DepsSpec

\* checkout_dependency: whatever was cut, failed or pinned before, a run that
\* succeeds on a git checkout leaves the link there and the checkout at the pin.
THEOREM AlwaysLinkedAtPin == DepsSpec => []LinkedIsPinned
<1>1. DepsInv => LinkedIsPinned BY Zenon DEF DepsInv, LinkedIsPinned, AtPin
<1> QED BY CheckoutInvariant, <1>1, PTL

-----------------------------------------------------------------------------
(* bump_version.py and the version a scaffold is given. *)


IsJob(j) ==
  j = [tool |-> j.tool, name |-> j.name, board |-> j.board, ver |-> j.ver,
       type |-> j.type, pc |-> j.pc, todo |-> j.todo]

\* Unless a sweep was cut: all files have the version of corejack.core, and a scaffold
\* in progress writes it; in a sweep the files that are done have the new one, and it is
\* the platform's once corejack.core is among them.
VersInv ==
  /\ vers = [x \in DOMAIN vers |-> vers[x]]
  /\ CorejackFile \in DOMAIN vers
  /\ \A x \in DOMAIN vers : vers[x] # {}
  /\ IsJob(job)
  /\ job.tool \in {"none", "core", "board", "bump"}
  /\ ~cut =>
       /\ job.tool # "bump" => \A x \in DOMAIN vers : vers[x] = {platform}
       /\ job.tool \in {"core", "board"} => job.ver = platform
       /\ job.tool = "bump" =>
            /\ \A x \in DOMAIN vers : x \notin job.todo => vers[x] = {job.ver}
            /\ CorejackFile \notin job.todo => platform = job.ver

\* The state between two runs.
LEMMA NoJobFacts == IsJob(NoJob) /\ NoJob.tool = "none"
BY Zenon DEF IsJob, NoJob

\* What the three tools start with.
LEMMA FreshCore ==
  ASSUME NEW j, IsJob(j), NEW n, NEW b, NEW t, NEW p, NEW k,
         k = [j EXCEPT !.name = n, !.board = b, !.type = t, !.pc = p]
  PROVE  IsJob(k)
<1>1. k = [tool |-> j.tool, name |-> n, board |-> b, ver |-> j.ver, type |-> t, pc |-> p, todo |-> j.todo]
  BY Zenon DEF IsJob
<1> QED BY ONLY <1>1, Zenon DEF IsJob

\* The same for the board scaffold, which sets fewer fields.
LEMMA FreshBoard ==
  ASSUME NEW j, IsJob(j), NEW n, NEW p, NEW k, k = [j EXCEPT !.name = n, !.pc = p]
  PROVE  IsJob(k)
<1>1. k = [tool |-> j.tool, name |-> n, board |-> j.board, ver |-> j.ver, type |-> j.type, pc |-> p, todo |-> j.todo]
  BY Zenon DEF IsJob
<1> QED BY ONLY <1>1, Zenon DEF IsJob

\* The repository as released has one version.
LEMMA VersInitInv == RepoInit => VersInv
<1> SUFFICES ASSUME RepoInit PROVE VersInv
  BY Zenon
<1>1. job = NoJob /\ cut = FALSE
  BY Zenon DEF RepoInit
<1>2. /\ vers = [x \in DOMAIN vers |-> vers[x]]
      /\ CorejackFile \in DOMAIN vers
      /\ \A x \in DOMAIN vers : vers[x] = {platform}
  BY Zenon DEF RepoInit
<1> QED BY <1>1, <1>2, NoJobFacts, Zenon DEF VersInv

\* A run starts.
LEMMA StartVers ==
  ASSUME VersInv, NEW tool \in {"core", "board", "bump"}, NEW j, NEW fresh, IsJob(j),
         tool = "bump" => j.todo = DOMAIN vers,
         Start(tool, j, fresh)
  PROVE  VersInv'
<1>1. job = NoJob /\ job.tool = "none"
  BY NoJobFacts, Zenon DEF Start
<1>2. job' = [j EXCEPT !.tool = tool, !.ver = IF tool = "bump" THEN j.ver ELSE platform]
  BY Zenon DEF Start, PlatformVersion
<1>3. job' = [tool |-> tool, name |-> j.name, board |-> j.board,
              ver |-> IF tool = "bump" THEN j.ver ELSE platform,
              type |-> j.type, pc |-> j.pc, todo |-> j.todo]
  BY ONLY <1>2, IsJob(j), Zenon DEF IsJob
<1>4. IsJob(job') /\ job'.tool = tool /\ job'.ver = (IF tool = "bump" THEN j.ver ELSE platform) /\ job'.todo = j.todo
  BY ONLY <1>3, Zenon DEF IsJob
<1>5. vers' = vers /\ platform' = platform /\ cut' = cut
  BY Zenon DEF Start
<1>6. IsJob(job)'
  BY <1>4, Zenon DEF IsJob
<1> QED BY <1>1, <1>4, <1>5, <1>6, Zenon DEF VersInv

\* A step of a run that is no sweep, and the end of one: it writes its version, or
\* nothing, to one file.
LEMMA OneWriteVers ==
  ASSUME VersInv, job.tool # "bump", NEW f,
         job' = NoJob \/ (\E pc : job' = [job EXCEPT !.pc = pc]),
         platform' = platform, cut' = cut,
         vers' = vers \/ vers' = Put(f, {job.ver}, vers) \/ vers' = [vers EXCEPT ![CorejackFile] = @ \union {job.ver}],
         vers' # vers => job.tool \in {"core", "board"}
  PROVE  VersInv'
<1>1. IsJob(job)' /\ job'.tool \in {"none", job.tool} /\ (job'.tool # "none" => job'.ver = job.ver)
  <2>1. CASE job' = NoJob
    BY <2>1, Zenon DEF NoJob, IsJob
  <2>2. CASE \E pc : job' = [job EXCEPT !.pc = pc]
    <3>1. PICK pc : job' = [job EXCEPT !.pc = pc]
      BY <2>2, Zenon
    <3>2. job = [tool |-> job.tool, name |-> job.name, board |-> job.board, ver |-> job.ver,
                 type |-> job.type, pc |-> job.pc, todo |-> job.todo]
      BY Zenon DEF VersInv, IsJob
    <3>3. job' = [tool |-> job.tool, name |-> job.name, board |-> job.board, ver |-> job.ver,
                  type |-> job.type, pc |-> pc, todo |-> job.todo]
      BY ONLY <3>1, <3>2, Zenon
    <3> QED BY ONLY <3>3, Zenon DEF IsJob
  <2> QED BY <2>1, <2>2, Zenon
<1>2. /\ vers = [x \in DOMAIN vers |-> vers[x]] /\ CorejackFile \in DOMAIN vers
      /\ \A x \in DOMAIN vers : vers[x] # {}
      /\ ~cut => \A x \in DOMAIN vers : vers[x] = {platform}
      /\ ~cut /\ job.tool \in {"core", "board"} => job.ver = platform
  BY Zenon DEF VersInv
<1>3. /\ vers' = [x \in DOMAIN vers' |-> vers'[x]] /\ CorejackFile \in DOMAIN vers'
      /\ \A x \in DOMAIN vers' : vers'[x] # {}
      /\ ~cut => \A x \in DOMAIN vers' : vers'[x] = {platform}
  <2>1. CASE vers' = vers
    BY <1>2, <2>1, Zenon
  <2>2. CASE vers' # vers /\ vers' = Put(f, {job.ver}, vers)
    BY <1>2, <2>2, Zenon DEF Put
  <2>3. CASE vers' # vers /\ vers' = [vers EXCEPT ![CorejackFile] = @ \union {job.ver}]
    BY <1>2, <2>3, ZenonT(60)
  <2> QED BY <2>1, <2>2, <2>3, Zenon
<1> QED BY <1>1, <1>2, <1>3, Zenon DEF VersInv

\* A step of the sweep.
LEMMA RewriteVers ==
  ASSUME VersInv, Rewrite, cut' = cut
  PROVE  VersInv'
<1>1. job.tool = "bump"
  BY Zenon DEF Rewrite, At
<1>2. PICK x \in job.todo :
        /\ vers' = [vers EXCEPT ![x] = IF @ = {} THEN {} ELSE {job.ver}]
        /\ platform' = IF x = CorejackFile THEN job.ver ELSE platform
        /\ IF job.todo = {x} THEN Finished("done")
           ELSE job' = [job EXCEPT !.todo = @ \ {x}] /\ UNCHANGED last
  BY Zenon DEF Rewrite
<1>3. /\ vers = [y \in DOMAIN vers |-> vers[y]] /\ CorejackFile \in DOMAIN vers
      /\ \A y \in DOMAIN vers : vers[y] # {}
      /\ ~cut => \A y \in DOMAIN vers : y \notin job.todo => vers[y] = {job.ver}
      /\ ~cut /\ CorejackFile \notin job.todo => platform = job.ver
  BY <1>1, Zenon DEF VersInv
<1>4. /\ vers' = [y \in DOMAIN vers' |-> vers'[y]] /\ DOMAIN vers' = DOMAIN vers
      /\ \A y \in DOMAIN vers : vers'[y] = IF y = x THEN {job.ver} ELSE vers[y]
  BY <1>2, <1>3, Zenon
<1>5. /\ \A y \in DOMAIN vers : vers'[y] # {}
      /\ ~cut => \A y \in DOMAIN vers : y \notin job.todo \ {x} => vers'[y] = {job.ver}
      /\ ~cut /\ CorejackFile \notin job.todo \ {x} => platform' = job.ver
  BY <1>2, <1>3, <1>4, Zenon
<1>6. CASE job.todo = {x}
  <2>1. job' = NoJob
    BY <1>2, <1>6, Zenon DEF Finished
  <2>2. ~cut => platform' = job.ver /\ \A y \in DOMAIN vers : vers'[y] = {job.ver}
    BY <1>5, <1>6, Zenon
  <2>3. IsJob(job)' /\ job'.tool = "none"
    BY <2>1, NoJobFacts, Zenon DEF IsJob
  <2> QED BY <1>3, <1>4, <1>5, <2>2, <2>3, ZenonT(60) DEF VersInv
<1>7. CASE job.todo # {x}
  <2>1. job' = [job EXCEPT !.todo = job.todo \ {x}]
    BY <1>2, <1>7, Zenon
  <2>2. job = [tool |-> job.tool, name |-> job.name, board |-> job.board, ver |-> job.ver,
               type |-> job.type, pc |-> job.pc, todo |-> job.todo]
    BY Zenon DEF VersInv, IsJob
  <2>3. job' = [tool |-> job.tool, name |-> job.name, board |-> job.board, ver |-> job.ver,
                type |-> job.type, pc |-> job.pc, todo |-> job.todo \ {x}]
    BY ONLY <2>1, <2>2, Zenon
  <2>4. IsJob(job)' /\ job'.tool = job.tool /\ job'.ver = job.ver /\ job'.todo = job.todo \ {x}
    BY ONLY <2>3, Zenon DEF IsJob
  <2> QED BY <1>1, <1>3, <1>4, <1>5, <2>4, ZenonT(60) DEF VersInv
<1> QED BY <1>6, <1>7, Zenon

\* Every step of the tools, a cut and an edit keep the versions in step.
LEMMA VersNextInv == VersInv /\ [RepoNext]_repoVars => VersInv'
<1> SUFFICES ASSUME VersInv, [RepoNext]_repoVars PROVE VersInv'
  BY Zenon
<1>1. ASSUME NEW c \in NewCores, NEW b, StartCore(c, b) PROVE VersInv'
  <2> DEFINE j == [NoJob EXCEPT !.name = c, !.board = b, !.type = NextCoreType, !.pc = "pkg"]
  <2>1. IsJob(j)
    BY NoJobFacts, FreshCore, Zenon
  <2>2. \E fresh : Start("core", j, fresh)
    BY <1>1, Zenon DEF StartCore
  <2> HIDE DEF j
  <2> QED BY <2>1, <2>2, StartVers, Zenon
<1>2. ASSUME NEW b \in NewBoards, StartBoard(b) PROVE VersInv'
  <2> DEFINE j == [NoJob EXCEPT !.name = b, !.pc = "file"]
  <2>1. IsJob(j)
    BY NoJobFacts, FreshBoard, Zenon
  <2>2. \E fresh : Start("board", j, fresh)
    BY <1>2, Zenon DEF StartBoard
  <2> HIDE DEF j
  <2> QED BY <2>1, <2>2, StartVers, ZenonT(60)
<1>3. ASSUME NEW v \in Versions, StartBump(v) PROVE VersInv'
  <2> DEFINE j == [NoJob EXCEPT !.ver = v, !.pc = "rewrite", !.todo = DOMAIN vers]
  <2>1. IsJob(j) /\ j.todo = DOMAIN vers
    <3>1. IsJob(NoJob)
      BY NoJobFacts, Zenon
    <3>2. j = [NoJob EXCEPT !.ver = v, !.pc = "rewrite", !.todo = DOMAIN vers]
      BY Zenon
    <3> HIDE DEF j
    <3>3. j = [tool |-> NoJob.tool, name |-> NoJob.name, board |-> NoJob.board, ver |-> v,
               type |-> NoJob.type, pc |-> "rewrite", todo |-> DOMAIN vers]
      BY ONLY <3>1, <3>2, Zenon DEF IsJob
    <3> QED BY ONLY <3>3, Zenon DEF IsJob
  <2>2. \E fresh : Start("bump", j, fresh)
    BY <1>3, Zenon DEF StartBump
  <2> HIDE DEF j
  <2> QED BY <2>1, <2>2, StartVers, Zenon
<1>4. CASE Write
  <2>1. platform' = platform /\ cut' = cut
    BY <1>4, Zenon DEF Write
  <2>2. job.tool \in {"core", "board"}
    BY <1>4, Zenon DEF Write, UpdatePlatformPkg, UpdateCorejackCore, UpdateBoardDescriptor, ListCore, WriteCoreFiles,
                UpdateFpgaTarget, WriteBoardFiles, At
  <2>3. job' = NoJob \/ (\E pc : job' = [job EXCEPT !.pc = pc])
    BY <1>4, Zenon DEF Write, UpdatePlatformPkg, UpdateCorejackCore, UpdateBoardDescriptor, ListCore, WriteCoreFiles,
                UpdateFpgaTarget, WriteBoardFiles, Goto, Finished
  <2>4. \E f : vers' = vers \/ vers' = Put(f, {job.ver}, vers) \/ vers' = [vers EXCEPT ![CorejackFile] = @ \union {job.ver}]
    BY <1>4, Zenon DEF Write, UpdatePlatformPkg, UpdateCorejackCore, UpdateBoardDescriptor, ListCore, WriteCoreFiles,
                UpdateFpgaTarget, WriteBoardFiles
  <2> QED BY <2>1, <2>2, <2>3, <2>4, OneWriteVers, Zenon
<1>5. CASE Rewrite /\ UNCHANGED <<matrix, cut, runs, edits>>
  BY <1>5, RewriteVers, Zenon
<1>6. CASE RenderMatrix
  <2>1. UNCHANGED <<vers, platform, job, cut>>
    BY <1>6, Zenon DEF RenderMatrix
  <2> QED BY <2>1, Zenon DEF VersInv, IsJob
<1>7. CASE Kill
  <2>1. job' = NoJob /\ vers' = vers /\ platform' = platform /\ cut' = (cut \/ job.tool = "bump")
    BY <1>7, Zenon DEF Kill, Finished
  <2>2. IsJob(job)' /\ job'.tool = "none"
    BY <2>1, NoJobFacts, Zenon DEF IsJob
  <2> QED BY <2>1, <2>2, Zenon DEF VersInv
<1>8. CASE Edit
  <2>1. UNCHANGED <<vers, platform, job, cut>>
    BY <1>8, Zenon DEF Edit
  <2> QED BY <2>1, Zenon DEF VersInv, IsJob
<1>9. CASE UNCHANGED repoVars
  <2>1. UNCHANGED <<vers, platform, job, cut>>
    BY <1>9, Zenon DEF repoVars
  <2> QED BY <2>1, Zenon DEF VersInv, IsJob
<1> QED BY <1>1, <1>2, <1>3, <1>4, <1>5, <1>6, <1>7, <1>8, <1>9, ZenonT(60) DEF RepoNext

\* bump_version.py and platform_version, for any names, versions, edits and cuts: unless
\* a sweep was cut, all .core files have the version of corejack.core whenever no tool
\* runs.
THEOREM VersionsAlwaysInStep == RepoSpec => []VersionsInStep
<1>1. VersInv => VersionsInStep
  <2> SUFFICES ASSUME VersInv, job = NoJob, ~cut PROVE Current = {platform}
    BY Zenon DEF VersionsInStep
  <2>1. CorejackFile \in DOMAIN vers /\ \A x \in DOMAIN vers : vers[x] = {platform}
    BY NoJobFacts, Zenon DEF VersInv
  <2> QED BY <2>1, Zenon DEF Current
<1> QED
  BY <1>1, VersInitInv, VersNextInv, PTL DEF RepoSpec

\* What stands where in a concatenation.
LEMMA ConcatLen ==
  ASSUME NEW S, NEW p \in Seq(S), NEW r \in Seq(S)
  PROVE  p \o r \in Seq(S) /\ Len(p \o r) = Len(p) + Len(r)
BY ConcatProperties, Zenon

\* The left part of a concatenation.
LEMMA ConcatLeft ==
  ASSUME NEW S, NEW p \in Seq(S), NEW r \in Seq(S), NEW x \in 1..Len(p)
  PROVE  (p \o r)[x] = p[x]
<1>1. \A i \in 1..Len(p) + Len(r) : (p \o r)[i] = IF i <= Len(p) THEN p[i] ELSE r[i - Len(p)]
  BY ConcatProperties, Zenon
<1>2. Len(p) \in Nat /\ Len(r) \in Nat
  OBVIOUS
<1>3. x \in 1..Len(p) + Len(r) /\ x <= Len(p)
  BY <1>2
<1> QED BY <1>1, <1>3, Zenon

\* And the right part.
LEMMA ConcatRight ==
  ASSUME NEW S, NEW p \in Seq(S), NEW r \in Seq(S), NEW x \in 1..Len(r)
  PROVE  (p \o r)[Len(p) + x] = r[x]
<1>1. \A i \in 1..Len(p) + Len(r) : (p \o r)[i] = IF i <= Len(p) THEN p[i] ELSE r[i - Len(p)]
  BY ConcatProperties, Zenon
<1>2. Len(p) \in Nat /\ Len(r) \in Nat
  OBVIOUS
<1>3. Len(p) + x \in 1..Len(p) + Len(r) /\ ~(Len(p) + x <= Len(p)) /\ Len(p) + x - Len(p) = x
  BY <1>2
<1> QED BY ONLY <1>1, <1>3

\* Two concatenations that are cut at the same place have the same parts.
LEMMA ConcatCut ==
  ASSUME NEW S, NEW p \in Seq(S), NEW q \in Seq(S), NEW r \in Seq(S), NEW u \in Seq(S),
         Len(p) = Len(q), p \o r = q \o u
  PROVE  p = q /\ r = u
<1>1. Len(p) \in Nat /\ Len(r) = Len(u) /\ Len(r) \in Nat
  <2>1. Len(p) + Len(r) = Len(q) + Len(u)
    <3>1. Len(p \o r) = Len(p) + Len(r)
      BY ConcatLen, Zenon
    <3>2. Len(q \o u) = Len(q) + Len(u)
      BY ConcatLen, Zenon
    <3> QED BY ONLY <3>1, <3>2, p \o r = q \o u, Zenon
  <2>2. Len(p) \in Nat /\ Len(r) \in Nat /\ Len(u) \in Nat
    OBVIOUS
  <2> QED BY ONLY <2>1, <2>2, Len(p) = Len(q)
<1>2. \A i \in 1..Len(p) : p[i] = q[i]
  <2> SUFFICES ASSUME NEW i \in 1..Len(p) PROVE p[i] = q[i]
    BY Zenon
  <2>1. (p \o r)[i] = p[i] /\ (q \o u)[i] = q[i]
    BY ConcatLeft, Zenon
  <2> QED BY <2>1, Zenon
<1>3. \A i \in 1..Len(r) : r[i] = u[i]
  <2> SUFFICES ASSUME NEW i \in 1..Len(r) PROVE r[i] = u[i]
    BY Zenon
  <2>1. i \in 1..Len(u)
    BY <1>1, Zenon
  <2>2. (p \o r)[Len(p) + i] = r[i] /\ (q \o u)[Len(q) + i] = u[i]
    BY <2>1, ConcatRight, Zenon
  <2> QED BY <2>2, Zenon
<1>4. p = q
  BY <1>2, SeqEqual, Zenon
<1>5. r = u
  BY <1>1, <1>3, SeqEqual, Zenon
<1> QED BY <1>4, <1>5, Zenon

\* The parts of a template around its fields are texts.
IsTemplate(t) == \E S : {t.pre, t.mid, t.post} \subseteq Seq(S)

\* format: a template that has {core} gives two cores two texts.
LEMMA ExpandApart ==
  ASSUME NEW t, IsTemplate(t), "core" \in Fields(t), NEW b \in DOMAIN Spelling,
         NEW c \in DOMAIN Spelling, NEW d \in DOMAIN Spelling, Expand(t, c, b) = Expand(t, d, b)
  PROVE  c = d
<1>0. PICK T : {t.pre, t.mid, t.post} \subseteq Seq(T) /\ \A n \in DOMAIN Spelling : Spelling[n] \in Seq(T)
  <2>1. PICK S : {t.pre, t.mid, t.post} \subseteq Seq(S)
    BY Zenon DEF IsTemplate
  <2>2. PICK T : T = S \union STRING
    BY Zenon
  <2>3. \A u : u \in Seq(S) \/ u \in Seq(STRING) => u \in Seq(T)
    BY ONLY <2>2
  <2> QED BY <2>1, <2>3, SpellingAssumption, Zenon
<1>1. PICK p \in Seq(T), m \in Seq(T), z \in Seq(T) : p = t.pre /\ m = t.mid /\ z = t.post
  BY <1>0, Zenon
<1>2. PICK x \in Seq(T), y \in Seq(T), w \in Seq(T) :
        x = Spelling[c] /\ y = Spelling[d] /\ w = Spelling[b]
  BY <1>0, Zenon
<1>3. ASSUME NEW field
      PROVE  /\ Fill(field, c, b) \in Seq(T) /\ Fill(field, d, b) \in Seq(T)
             /\ field = "core" => Fill(field, c, b) = x /\ Fill(field, d, b) = y
             /\ field # "core" => Fill(field, c, b) = Fill(field, d, b)
  <2>1. <<>> \in Seq(T)
    OBVIOUS
  <2> QED BY <1>2, <2>1, Zenon DEF Fill
<1>4. PICK f1 \in Seq(T), f2 \in Seq(T), g1 \in Seq(T), g2 \in Seq(T) :
        /\ f1 = Fill(t.one, c, b) /\ f2 = Fill(t.two, c, b)
        /\ g1 = Fill(t.one, d, b) /\ g2 = Fill(t.two, d, b)
  BY <1>3, Zenon
<1>5. /\ (f1 = x /\ g1 = y) \/ f1 = g1
      /\ (f2 = x /\ g2 = y) \/ f2 = g2
      /\ (f1 = x /\ g1 = y) \/ (f2 = x /\ g2 = y)
  <2>1. t.one = "core" \/ t.two = "core"
    BY Zenon DEF Fields
  <2> QED BY <1>3, <1>4, <2>1, Zenon
<1> DEFINE a1 == p \o f1
           b1 == p \o g1
           a2 == a1 \o m
           b2 == b1 \o m
           a3 == a2 \o f2
           b3 == b2 \o g2
<1>6. a1 \in Seq(T) /\ Len(a1) = Len(p) + Len(f1) /\ b1 \in Seq(T) /\ Len(b1) = Len(p) + Len(g1)
  <2>1. a1 \in Seq(T) /\ Len(a1) = Len(p) + Len(f1)
    BY ConcatLen, Zenon
  <2>2. b1 \in Seq(T) /\ Len(b1) = Len(p) + Len(g1)
    BY ConcatLen, Zenon
  <2> QED BY <2>1, <2>2, Zenon
<1> HIDE DEF a1, b1
<1>7. a2 \in Seq(T) /\ Len(a2) = Len(a1) + Len(m) /\ b2 \in Seq(T) /\ Len(b2) = Len(b1) + Len(m)
  <2>1. a2 \in Seq(T) /\ Len(a2) = Len(a1) + Len(m)
    BY <1>6, ConcatLen, Zenon
  <2>2. b2 \in Seq(T) /\ Len(b2) = Len(b1) + Len(m)
    BY <1>6, ConcatLen, Zenon
  <2> QED BY <2>1, <2>2, Zenon
<1> HIDE DEF a2, b2
<1>8. a3 \in Seq(T) /\ Len(a3) = Len(a2) + Len(f2) /\ b3 \in Seq(T) /\ Len(b3) = Len(b2) + Len(g2)
  <2>1. a3 \in Seq(T) /\ Len(a3) = Len(a2) + Len(f2)
    BY <1>7, ConcatLen, Zenon
  <2>2. b3 \in Seq(T) /\ Len(b3) = Len(b2) + Len(g2)
    BY <1>7, ConcatLen, Zenon
  <2> QED BY <2>1, <2>2, Zenon
<1> HIDE DEF a3, b3
<1>9. a3 \o z = b3 \o z /\ Len(a3) + Len(z) = Len(b3) + Len(z)
  <2>1. Expand(t, c, b) = a3 \o z /\ Expand(t, d, b) = b3 \o z
    BY <1>1, <1>4, Zenon DEF Expand, a1, a2, a3, b1, b2, b3
  <2>2. Len(a3 \o z) = Len(a3) + Len(z)
    BY <1>8, ConcatLen, Zenon
  <2>3. Len(b3 \o z) = Len(b3) + Len(z)
    BY <1>8, ConcatLen, Zenon
  <2>4. a3 \o z = b3 \o z
    BY ONLY <2>1, Expand(t, c, b) = Expand(t, d, b), Zenon
  <2> QED BY ONLY <2>2, <2>3, <2>4, Zenon
<1>10. /\ Len(p) \in Nat /\ Len(m) \in Nat /\ Len(z) \in Nat /\ Len(x) \in Nat /\ Len(y) \in Nat
       /\ Len(f1) \in Nat /\ Len(f2) \in Nat /\ Len(g1) \in Nat /\ Len(g2) \in Nat
  OBVIOUS
<1>11. /\ (Len(f1) = Len(x) /\ Len(g1) = Len(y)) \/ Len(f1) = Len(g1)
       /\ (Len(f2) = Len(x) /\ Len(g2) = Len(y)) \/ Len(f2) = Len(g2)
       /\ (Len(f1) = Len(x) /\ Len(g1) = Len(y)) \/ (Len(f2) = Len(x) /\ Len(g2) = Len(y))
  BY ONLY <1>5, Zenon
<1>12. Len(a1) = Len(b1) /\ Len(a2) = Len(b2) /\ Len(a3) = Len(b3)
  <2>1. Len(p) + Len(f1) + Len(m) + Len(f2) + Len(z) = Len(p) + Len(g1) + Len(m) + Len(g2) + Len(z)
    BY ONLY <1>6, <1>7, <1>8, <1>9
  <2>2. Len(f1) = Len(g1) /\ Len(f2) = Len(g2)
    BY ONLY <1>10, <1>11, <2>1
  <2> QED BY ONLY <1>6, <1>7, <1>8, <2>2, Zenon
<1>13. \A s1, s2, s3, s4 \in Seq(T) : Len(s1) = Len(s2) /\ s1 \o s3 = s2 \o s4 => s1 = s2 /\ s3 = s4
  BY ConcatCut, Zenon
<1>14. a2 = b2 /\ f2 = g2
  <2>1. a3 = b3
    <3>1. a3 \in Seq(T) /\ b3 \in Seq(T) /\ Len(a3) = Len(b3) /\ a3 \o z = b3 \o z
      BY ONLY <1>8, <1>9, <1>12, Zenon
    <3> QED BY ONLY <3>1, <1>13, z \in Seq(T), ZenonT(60)
  <2>2. a2 \o f2 = b2 \o g2
    BY ONLY <2>1, Zenon DEF a3, b3
  <2>3. a2 \in Seq(T) /\ b2 \in Seq(T) /\ Len(a2) = Len(b2)
    BY ONLY <1>7, <1>12, Zenon
  <2> QED BY ONLY <1>13, <2>2, <2>3, f2 \in Seq(T), g2 \in Seq(T), ZenonT(60)
<1>15. a1 = b1
  <2>1. a1 \o m = b1 \o m
    BY ONLY <1>14, Zenon DEF a2, b2
  <2> QED BY <1>6, <1>12, <1>13, <2>1, Zenon
<1>16. f1 = g1
  <2>1. p \o f1 = p \o g1
    BY ONLY <1>15, Zenon DEF a1, b1
  <2> QED BY <1>13, <2>1, Zenon
<1>17. x = y
  BY ONLY <1>5, <1>14, <1>16
<1> QED
  <2>1. Spelling[c] = Spelling[d]
    BY ONLY <1>2, <1>17, Zenon
  <2> QED BY <2>1, SpellingAssumption, Zenon

-----------------------------------------------------------------------------
(* The descriptors. *)

RepoNames == {"ibex", "cvw", "axku5"} \union NewCores \union NewBoards

IsDesc(d) == d = [f |-> d.f, list |-> d.list] /\ d.list \in Seq(RepoNames)

\* The descriptors of a directory.
IsTable(t) ==
  t = [x \in DOMAIN t |-> t[x]] /\ DOMAIN t \subseteq RepoNames /\ \A x \in DOMAIN t : IsDesc(t[x])

\* Descriptors have scalars and a list of names, and a run that makes one knows its name.
DescInv ==
  /\ IsTable(cores) /\ IsTable(boards)
  /\ DOMAIN banners = {"baremetal", "zephyr"}
  /\ IsJob(job)
  /\ job.tool = "core" => job.name \in NewCores /\ job.board \in RepoNames
  /\ job.tool = "board" => job.name \in NewBoards

\* A list of names of a descriptor, entry by entry.
LEMMA ListFacts ==
  ASSUME NEW S, NEW s \in Seq(S), NEW x
  PROVE  /\ DOMAIN s = 1..Len(s) /\ Len(s) \in Nat
         /\ Listed(s, x) <=> x \in Range(s)
         /\ s = <<>> => Range(s) = {}
         /\ \A i \in DOMAIN s : s[i] \in S /\ s[i] \in Range(s)
BY DEF Listed, Range

\* What target-check has established of a core the board lists.
LEMMA CheckedPair ==
  ASSUME DescInv, NEW b \in DOMAIN boards, TargetCheck(b), NEW c, Listed(boards[b].list, c)
  PROVE  /\ c \in DOMAIN cores /\ CoreCheck(c) /\ ConfigOK(c, b)
         /\ Listed(cores[c].list, b)
         /\ \A flow \in Flows : IntegrationStatus(c, flow) = cores[c].f[flow] /\ cores[c].f[flow] \in Statuses
         /\ \A flow \in Flows, planned \in BOOLEAN :
              IsCompatible(c, b, flow, planned) <=>
                cores[c].f[flow] # "unsupported" /\ (cores[c].f[flow] = "supported" \/ planned)
<1>1. c \in Range(boards[b].list)
  BY ListFacts, Zenon DEF DescInv, IsTable, IsDesc
<1>2. BoardCheck(b) /\ CoreCheck(c) /\ ConfigOK(c, b)
  BY <1>1, Zenon DEF TargetCheck
<1>3. c \in DOMAIN cores /\ cores[c].list # <<>>
  BY <1>2, Zenon DEF CoreCheck
<1>4. Listed(cores[c].list, b)
  BY <1>1, <1>2, <1>3, Zenon DEF BoardCheck
<1>5. Has(cores[c].f, CoreRequired) /\ \A flow \in Flows : cores[c].f[flow] \in Statuses
  BY <1>2, Zenon DEF CoreCheck
<1>6. \A flow \in Flows : flow \in DOMAIN cores[c].f
  BY <1>5, Zenon DEF Has, CoreRequired, Flows
<1>7. \A flow \in Flows : IntegrationStatus(c, flow) = cores[c].f[flow]
  BY <1>6, Zenon DEF IntegrationStatus, Scalar
<1>8. \A flow \in Flows, planned \in BOOLEAN :
        IsCompatible(c, b, flow, planned) <=>
          cores[c].f[flow] # "unsupported" /\ (cores[c].f[flow] = "supported" \/ planned)
  BY <1>4, <1>7, Zenon DEF IsCompatible
<1> QED BY <1>2, <1>3, <1>4, <1>5, <1>7, <1>8, ZenonT(60)

\* A board that passed lists cores, and the others are not compatible.
LEMMA NotListed ==
  ASSUME NEW b \in DOMAIN boards, TargetCheck(b), NEW c, ~Listed(boards[b].list, c)
  PROVE  \A flow, planned : ~IsCompatible(c, b, flow, planned)
<1>1. boards[b].list # <<>>
  BY Zenon DEF TargetCheck, BoardCheck, BoardSelfCheck
<1> QED BY <1>1, Zenon DEF IsCompatible

\* render_support_matrix.py: what the descriptors are makes a fresh page truthful.
LEMMA PageTruthful == DescInv => MatrixTruthful
<1> SUFFICES ASSUME DescInv, RenderOK, matrix = Render, NEW b \in DOMAIN boards, TargetCheck(b),
                    NEW c \in DOMAIN cores
             PROVE  LET rows == {r \in Range(matrix.rows[b]) : r.core = c}
                    IN /\ (\E r \in rows : r.accepted) <=> Validate(c, b, "fpga", FALSE)
                       /\ (\E r \in rows : r.path = "OpenOCD/GDB") <=> Validate(c, b, "debug", FALSE)
  BY Zenon DEF MatrixTruthful
<1> DEFINE l == boards[b].list
           rows == {r \in Range(matrix.rows[b]) : r.core = c}
<1>1. matrix.rows[b] = [i \in DOMAIN l |-> BoardRow(l[i])]
  BY Zenon DEF Render
<1>2. Range(matrix.rows[b]) = {BoardRow(l[i]) : i \in DOMAIN l}
  BY <1>1 DEF Range
<1>3. \A d : BoardRow(d).core = d /\ BoardRow(d).path = LoadRunPath(cores[d].f)
              /\ BoardRow(d).accepted = DefaultFpgaAcceptance(cores[d].f)
  BY Zenon DEF BoardRow
<1>4. rows = {BoardRow(c) : x \in {i \in DOMAIN l : l[i] = c}}
  BY <1>2, <1>3
<1>5. l \in Seq(RepoNames)
  BY Zenon DEF DescInv, IsTable, IsDesc
<1>6. Listed(l, c) <=> \E i \in DOMAIN l : l[i] = c
  BY <1>5, ListFacts DEF Range
<1>7. \A r : r \in rows <=> Listed(l, c) /\ r = BoardRow(c)
  BY <1>4, <1>6, Zenon
<1>8. LoadRunPath(cores[c].f) = "OpenOCD/GDB" <=> cores[c].f.debug = "supported"
  BY Zenon DEF LoadRunPath
<1>9. DefaultFpgaAcceptance(cores[c].f) <=> cores[c].f.fpga = "supported"
  BY Zenon DEF DefaultFpgaAcceptance
<1> HIDE DEF rows, l
<1>10. /\ (\E r \in rows : r.accepted) <=> Listed(l, c) /\ cores[c].f.fpga = "supported"
       /\ (\E r \in rows : r.path = "OpenOCD/GDB") <=> Listed(l, c) /\ cores[c].f.debug = "supported"
  BY <1>3, <1>7, <1>8, <1>9, ZenonT(60)
<1>11. \A flow \in {"fpga", "debug"} : Validate(c, b, flow, FALSE) <=> Listed(l, c) /\ cores[c].f[flow] = "supported"
  <2>1. CASE Listed(l, c)
    <3>1. ConfigOK(c, b)
      BY <2>1, CheckedPair, Zenon DEF l
    <3>2. \A flow \in Flows : IsCompatible(c, b, flow, FALSE) <=> cores[c].f[flow] # "unsupported" /\ cores[c].f[flow] = "supported"
      <4>1. \A flow \in Flows, planned \in BOOLEAN :
              IsCompatible(c, b, flow, planned) <=>
                cores[c].f[flow] # "unsupported" /\ (cores[c].f[flow] = "supported" \/ planned)
        BY <2>1, CheckedPair, Zenon DEF l
      <4> QED BY <4>1, Zenon
    <3>3. \A flow \in {"fpga", "debug"} : flow \in Flows
      BY Zenon DEF Flows
    <3> QED BY <2>1, <3>1, <3>2, <3>3, Zenon DEF Validate
  <2>2. CASE ~Listed(l, c)
    BY <2>2, NotListed, Zenon DEF Validate, l
  <2> QED BY <2>1, <2>2, Zenon
<1>12. Validate(c, b, "fpga", FALSE) <=> Listed(l, c) /\ cores[c].f.fpga = "supported"
  BY <1>11, Zenon
<1>13. Validate(c, b, "debug", FALSE) <=> Listed(l, c) /\ cores[c].f.debug = "supported"
  BY <1>11, Zenon
<1> QED BY <1>10, <1>12, <1>13, Zenon DEF rows

\* The settings one by one.
LEMMA ConfigFacts ==
  \A c, b : /\ Config(c, b).CORE_TYPE = cores[c].f.core_type
            /\ Config(c, b).FPGA_TOP = Expand(boards[b].f.top_template, c, b)
            /\ Config(c, b).FPGA_TARGET = Expand(boards[b].f.target, c, b)
            /\ Config(c, b).FPGA_WORK_ROOT = Expand(boards[b].f.work_root, c, b)
BY ZenonT(60) DEF Config

\* A board's work root, if it has one, is a template.
RootOK(f) == "work_root" \in DOMAIN f => IsTemplate(f.work_root)

RootInv == \A b \in DOMAIN boards : RootOK(boards[b].f)

\* validate_target.py: what the descriptors are makes what is checked buildable.
LEMMA ChecksBuildable == DescInv /\ RootInv => CheckedBuildable
<1> SUFFICES ASSUME DescInv, RootInv PROVE CheckedBuildable
  BY Zenon
<1> DEFINE checked == {b \in DOMAIN boards : TargetCheck(b)}
           pairs == {p \in (DOMAIN cores) \X checked : Listed(boards[p[2]].list, p[1])}
           config == [p \in pairs |-> Config(p[1], p[2])]
<1>1. \A p \in pairs :
        /\ p[1] \in DOMAIN cores /\ p[2] \in DOMAIN boards /\ p = <<p[1], p[2]>>
        /\ TargetCheck(p[2]) /\ Listed(boards[p[2]].list, p[1])
        /\ config[p] = Config(p[1], p[2])
  OBVIOUS
<1> HIDE DEF pairs, config
<1>2. ASSUME NEW b \in DOMAIN boards, TargetCheck(b)
      PROVE  /\ Has(boards[b].f, BoardRequired) /\ boards[b].list # <<>>
             /\ BoardFilesCheck(b) /\ BoardTargetsCheck(b) /\ WorkRootCheck(boards[b].f) /\ BannerCheck
  BY <1>2, Zenon DEF TargetCheck, BoardCheck, BoardSelfCheck
<1>3. ASSUME NEW p \in pairs
      PROVE  /\ \A flow \in Flows :
                  Validate(p[1], p[2], flow, TRUE) <=> cores[p[1]].f[flow] # "unsupported"
             /\ \/ WrapperFile(p[2], config[p].FPGA_TOP) \in files
                \/ "core" \in Fields(boards[p[2]].f.top_template) /\ p[1] # Head(boards[p[2]].list)
  <2> DEFINE c == p[1]
             b == p[2]
  <2>1. c \in DOMAIN cores /\ b \in DOMAIN boards /\ TargetCheck(b) /\ Listed(boards[b].list, c)
    BY <1>1, Zenon
  <2>2. \A flow \in Flows : Validate(c, b, flow, TRUE) <=> cores[c].f[flow] # "unsupported"
    <3>1. ConfigOK(c, b)
      BY <2>1, CheckedPair, Zenon
    <3>2. \A flow \in Flows, planned \in BOOLEAN :
            IsCompatible(c, b, flow, planned) <=>
              cores[c].f[flow] # "unsupported" /\ (cores[c].f[flow] = "supported" \/ planned)
      BY <2>1, CheckedPair, ZenonT(60)
    <3> HIDE DEF c, b
    <3> QED BY <2>1, <3>1, <3>2, Zenon DEF Validate
  <2>3. config[p].FPGA_TOP = Expand(boards[b].f.top_template, c, b)
    BY <1>1, ConfigFacts, SMTT(30)
  <2> HIDE DEF c, b
  <2>4. WrapperFile(b, Expand(boards[b].f.top_template, Head(boards[b].list), b)) \in files
    BY <1>2, <2>1, Zenon DEF BoardFilesCheck
  <2>5. "core" \notin Fields(boards[b].f.top_template) =>
          Expand(boards[b].f.top_template, Head(boards[b].list), b) = Expand(boards[b].f.top_template, c, b)
    BY Zenon DEF Expand, Fields, Fill, NoField
  <2>6. \/ WrapperFile(b, config[p].FPGA_TOP) \in files
        \/ "core" \in Fields(boards[b].f.top_template) /\ c # Head(boards[b].list)
    BY <2>3, <2>4, <2>5, Zenon
  <2> QED BY <2>2, <2>6, Zenon DEF c, b
<1>4. ASSUME NEW p \in pairs, NEW q \in pairs
      PROVE  p[1] # q[1] =>
               /\ config[p].CORE_TYPE # config[q].CORE_TYPE
               /\ p[2] = q[2] /\ ~Escapes(boards[p[2]].f.work_root, "core") =>
                    config[p].FPGA_WORK_ROOT # config[q].FPGA_WORK_ROOT
  <2>1. /\ config[p].FPGA_WORK_ROOT = Expand(boards[p[2]].f.work_root, p[1], p[2])
        /\ config[q].FPGA_WORK_ROOT = Expand(boards[q[2]].f.work_root, q[1], q[2])
        /\ config[p].CORE_TYPE = cores[p[1]].f.core_type
        /\ config[q].CORE_TYPE = cores[q[1]].f.core_type
    BY <1>1, ConfigFacts
  <2>2. /\ p[1] \in DOMAIN Spelling /\ q[1] \in DOMAIN Spelling /\ p[2] \in DOMAIN Spelling
        /\ p[2] \in DOMAIN boards /\ TargetCheck(p[2])
    <3>1. DOMAIN cores \subseteq RepoNames /\ DOMAIN boards \subseteq RepoNames
      BY Zenon DEF DescInv, IsTable
    <3>2. RepoNames \subseteq DOMAIN Spelling
      BY NamesAssumption, Zenon DEF RepoNames
    <3> QED BY <1>1, <3>1, <3>2, Zenon
  <2>3. IsTemplate(boards[p[2]].f.work_root)
    <3>1. "work_root" \in DOMAIN boards[p[2]].f
      BY <1>2, <2>2, Zenon DEF Has, BoardRequired
    <3> QED BY <2>2, <3>1, Zenon DEF RootInv, RootOK
  <2>4. ASSUME p[2] = q[2], ~Escapes(boards[p[2]].f.work_root, "core"),
               config[p].FPGA_WORK_ROOT = config[q].FPGA_WORK_ROOT
        PROVE  p[1] = q[1]
    <3>1. "core" \in Fields(boards[p[2]].f.work_root)
      BY <1>2, <2>2, <2>4, Zenon DEF WorkRootCheck
    <3>2. Expand(boards[p[2]].f.work_root, p[1], p[2]) = Expand(boards[p[2]].f.work_root, q[1], p[2])
      BY ONLY <2>1, <2>4, Zenon
    <3> QED BY <2>2, <2>3, <3>1, <3>2, ExpandApart, Zenon
  <2>5. \A r \in pairs : CoreTypeAlone(r[1]) /\ CoreTypeOf(r[1]) = cores[r[1]].f.core_type
    <3> SUFFICES ASSUME NEW r \in pairs PROVE CoreTypeAlone(r[1]) /\ CoreTypeOf(r[1]) = cores[r[1]].f.core_type
      BY Zenon
    <3>1. CoreCheck(r[1])
      BY <1>1, CheckedPair, Zenon
    <3>2. CoreTypeAlone(r[1]) /\ Has(cores[r[1]].f, CoreRequired)
      BY <3>1, Zenon DEF CoreCheck
    <3>3. "core_type" \in DOMAIN cores[r[1]].f
      BY <3>2, Zenon DEF Has, CoreRequired
    <3> QED BY <3>2, <3>3, Zenon DEF CoreTypeOf, Scalar
  <2>6. p[1] # q[1] => config[p].CORE_TYPE # config[q].CORE_TYPE
    BY <1>1, <2>1, <2>5, ZenonT(60) DEF CoreTypeAlone
  <2> QED BY <2>4, <2>6, ZenonT(60)
<1>5. ASSUME checked = DOMAIN boards, \A c \in DOMAIN cores : CoreCheck(c)
      PROVE  RenderOK /\ ListWorks
  <2>1. \A b \in DOMAIN boards : TargetCheck(b)
    BY <1>5, Zenon
  <2>2. \A c \in DOMAIN cores : Has(cores[c].f, MatrixCoreFields)
    <3> SUFFICES ASSUME NEW c \in DOMAIN cores PROVE Has(cores[c].f, MatrixCoreFields)
      BY Zenon
    <3>1. Has(cores[c].f, CoreRequired)
      BY <1>5, Zenon DEF CoreCheck
    <3> QED BY <3>1, Zenon DEF Has, CoreRequired, MatrixCoreFields
  <2>3. ASSUME NEW b \in DOMAIN boards
        PROVE  Has(boards[b].f, MatrixBoardFields) /\ Range(boards[b].list) \subseteq DOMAIN cores
    <3>1. Has(boards[b].f, BoardRequired)
      BY <1>2, <2>1, Zenon
    <3>2. Has(boards[b].f, MatrixBoardFields)
      BY <3>1, Zenon DEF Has, BoardRequired, MatrixBoardFields
    <3>3. Range(boards[b].list) \subseteq DOMAIN cores
      BY <2>1, Zenon DEF TargetCheck, BoardCheck
    <3> QED BY <3>2, <3>3, Zenon
  <2>4. \A p \in ListedTargets : ConfigOK(p[1], p[2])
    <3> SUFFICES ASSUME NEW p \in ListedTargets PROVE ConfigOK(p[1], p[2])
      BY Zenon
    <3>1. p[1] \in DOMAIN cores /\ p[2] \in DOMAIN boards /\ IsCompatible(p[1], p[2], "fpga", TRUE)
      BY Zenon DEF ListedTargets
    <3>2. Listed(boards[p[2]].list, p[1])
      BY <2>1, <3>1, NotListed, Zenon
    <3> QED BY <2>1, <3>1, <3>2, CheckedPair, Zenon
  <2> QED BY <2>2, <2>3, <2>4, Zenon DEF RenderOK, ListWorks
<1>6. ASSUME checked # {}
      PROVE  \A w \in DOMAIN banners : \A v \in Variants(w) :
               \/ BannerResolves(w, v)
               \/ \E i \in DOMAIN banners[w].banner : "" \in banners[w].banner[i]
               \/ ~(banners[w].alive[v] \subseteq BannerFields)
  <2>1. BannerCheck
    BY <1>2, <1>6, Zenon
  <2>2. \A w \in DOMAIN banners : w \in {"baremetal", "zephyr"}
    BY Zenon DEF DescInv
  <2> SUFFICES ASSUME NEW w \in DOMAIN banners, NEW v \in Variants(w),
                      \A i \in DOMAIN banners[w].banner : "" \notin banners[w].banner[i],
                      banners[w].alive[v] \subseteq BannerFields
               PROVE  BannerResolves(w, v)
    BY Zenon
  <2>3. \A i \in DOMAIN banners[w].banner : banners[w].banner[i] \subseteq BannerFields
    BY <2>1, <2>2, Zenon DEF BannerCheck
  <2> QED BY <2>1, <2>2, <2>3, Zenon DEF BannerCheck, BannerResolves
<1> QED BY <1>3, <1>4, <1>5, <1>6, Zenon DEF CheckedBuildable, pairs, config

-----------------------------------------------------------------------------
(* Every step leaves such descriptors. *)

\* Scalars rewritten, or the list.
LEMMA DescEdit ==
  ASSUME NEW d, IsDesc(d), NEW e, (\E g : e = [d EXCEPT !.f = g]) \/ (\E l \in Seq(RepoNames) : e = [d EXCEPT !.list = l])
  PROVE  IsDesc(e)
<1>1. d = [f |-> d.f, list |-> d.list] /\ d.list \in Seq(RepoNames)
  BY Zenon DEF IsDesc
<1>2. ASSUME NEW g, e = [d EXCEPT !.f = g] PROVE IsDesc(e)
  <2>1. e = [f |-> g, list |-> d.list]
    BY ONLY <1>1, <1>2, Zenon
  <2> QED BY <1>1, <2>1, Zenon DEF IsDesc
<1>3. ASSUME NEW l \in Seq(RepoNames), e = [d EXCEPT !.list = l] PROVE IsDesc(e)
  <2>1. e = [f |-> d.f, list |-> l]
    BY ONLY <1>1, <1>3, Zenon
  <2> QED BY <2>1, Zenon DEF IsDesc
<1> QED BY <1>2, <1>3, Zenon

\* A descriptor rewritten, and one more.
LEMMA TableEdit ==
  ASSUME NEW t, IsTable(t), NEW x, NEW d, IsDesc(d), NEW u,
         (x \in DOMAIN t /\ u = [t EXCEPT ![x] = d]) \/ (x \in RepoNames /\ u = Put(x, d, t))
  PROVE  IsTable(u)
<1>1. CASE x \in DOMAIN t /\ u = [t EXCEPT ![x] = d]
  <2>1. DOMAIN u = DOMAIN t /\ u = [y \in DOMAIN u |-> u[y]]
    BY <1>1, Zenon DEF IsTable
  <2>2. \A y \in DOMAIN t : u[y] = IF y = x THEN d ELSE t[y]
    BY <1>1, Zenon DEF IsTable
  <2> QED BY <2>1, <2>2, Zenon DEF IsTable
<1>2. CASE x \in RepoNames /\ u = Put(x, d, t)
  <2>1. DOMAIN u = {x} \union DOMAIN t /\ u = [y \in DOMAIN u |-> u[y]]
    BY <1>2, Zenon DEF Put
  <2>2. \A y \in DOMAIN u : u[y] = IF y = x THEN d ELSE t[y]
    BY <1>2, <2>1, Zenon DEF Put
  <2> QED BY <1>2, <2>1, <2>2, Zenon DEF IsTable
<1> QED BY <1>1, <1>2, Zenon

\* A name listed, or listed no longer.
LEMMA ToggleList ==
  ASSUME NEW l \in Seq(RepoNames), NEW x \in RepoNames
  PROVE  Toggle(l, x) \in Seq(RepoNames) /\ Append(l, x) \in Seq(RepoNames)
<1>1. Append(l, x) \in Seq(RepoNames)
  OBVIOUS
<1>2. ASSUME Listed(l, x)
      PROVE  LET k == CHOOSE i \in DOMAIN l : l[i] = x
             IN  SubSeq(l, 1, k - 1) \o SubSeq(l, k + 1, Len(l)) \in Seq(RepoNames)
  <2>1. PICK k \in DOMAIN l : k = CHOOSE i \in DOMAIN l : l[i] = x
    BY <1>2, Zenon DEF Listed
  <2>2. SubSeq(l, 1, k - 1) \in Seq(RepoNames) /\ SubSeq(l, k + 1, Len(l)) \in Seq(RepoNames)
    <3>1. k \in 1..Len(l) /\ Len(l) \in Nat
      OBVIOUS
    <3>2. /\ \A i \in 1..k - 1 : l[i] \in RepoNames
          /\ \A i \in k + 1..Len(l) : l[i] \in RepoNames
      BY <3>1, SMTT(30)
    <3> QED BY ONLY <3>1, <3>2, l \in Seq(RepoNames), SubSeqProperties, SMTT(30)
  <2> QED BY <2>1, <2>2, ConcatProperties, Zenon
<1> QED BY <1>1, <1>2, Zenon DEF Toggle

\* What the scaffolds write is a descriptor.
LEMMA ScaffoldDescs ==
  /\ \A c, t : \A b \in RepoNames : IsDesc(CoreScaffold(c, b, t))
  /\ \A b : IsDesc(BoardScaffold(b))
BY DEF IsDesc, CoreScaffold, BoardScaffold, RepoNames

\* The descriptors of the release are descriptors.
LEMMA DescInitInv == RepoInit => DescInv
<1> SUFFICES ASSUME RepoInit PROVE DescInv
  BY Zenon
<1>1. IsDesc(Ibex)
  BY DEF Ibex, IsDesc, RepoNames
<1>2. IsDesc(Cvw)
  BY <1>1, Zenon DEF Cvw, IsDesc
<1>3. IsDesc(Axku5)
  <2>1. <<"ibex", "cvw">> \in Seq(RepoNames)
    BY DEF RepoNames
  <2> QED BY <2>1, ScaffoldDescs, DescEdit, Zenon DEF Axku5
<1>4. IsTable(cores)
  BY <1>1, <1>2, Zenon DEF RepoInit, IsTable, RepoNames
<1>5. IsTable(boards)
  BY <1>3, Zenon DEF RepoInit, IsTable, RepoNames
<1>6. DOMAIN banners = {"baremetal", "zephyr"}
  BY Zenon DEF RepoInit, Banners
<1>7. IsJob(job) /\ job.tool = "none"
  BY NoJobFacts, ZenonT(60) DEF RepoInit
<1> QED BY <1>4, <1>5, <1>6, <1>7, ZenonT(60) DEF DescInv

\* A run starts: it knows the name it was given.
LEMMA StartDesc ==
  ASSUME DescInv, NEW tool \in {"core", "board", "bump"}, NEW j, NEW fresh, IsJob(j),
         tool = "core" => j.name \in NewCores /\ j.board \in RepoNames,
         tool = "board" => j.name \in NewBoards,
         Start(tool, j, fresh)
  PROVE  DescInv'
<1>1. job' = [j EXCEPT !.tool = tool, !.ver = IF tool = "bump" THEN j.ver ELSE platform]
  BY Zenon DEF Start, PlatformVersion
<1>2. job' = [tool |-> tool, name |-> j.name, board |-> j.board,
              ver |-> IF tool = "bump" THEN j.ver ELSE platform,
              type |-> j.type, pc |-> j.pc, todo |-> j.todo]
  BY ONLY <1>1, IsJob(j), Zenon DEF IsJob
<1>3. IsJob(job') /\ job'.tool = tool /\ job'.name = j.name /\ job'.board = j.board
  BY ONLY <1>2, Zenon DEF IsJob
<1>4. cores' = cores /\ boards' = boards /\ banners' = banners
  BY Zenon DEF Start, descVars
<1> QED BY <1>3, <1>4 DEF DescInv, IsTable, IsDesc, IsJob

\* The job ends, or moves on.
LEMMA JobStep ==
  ASSUME IsJob(job), NEW end, NEW pc, Finished(end) \/ Goto(pc)
  PROVE  IsJob(job') /\ (job'.tool = "none" \/ (job'.tool = job.tool /\ job'.name = job.name /\ job'.board = job.board))
<1>1. CASE Finished(end)
  BY <1>1, NoJobFacts, Zenon DEF Finished
<1>2. CASE Goto(pc)
  <2>1. job' = [job EXCEPT !.pc = pc]
    BY <1>2, Zenon DEF Goto
  <2>2. job' = [tool |-> job.tool, name |-> job.name, board |-> job.board, ver |-> job.ver,
                type |-> job.type, pc |-> pc, todo |-> job.todo]
    BY ONLY <2>1, IsJob(job), Zenon DEF IsJob
  <2> QED BY ONLY <2>2, Zenon DEF IsJob
<1> QED BY <1>1, <1>2, Zenon

\* A write of a run changes the table of boards in one of two ways, if at all.
LEMMA BoardWrites ==
  ASSUME Write
  PROVE  \/ boards' = boards
         \/ UpdateBoardDescriptor /\ ListCore /\ job.board \in DOMAIN boards
         \/ At("board", "desc") /\ boards' = Put(job.name, BoardScaffold(job.name), boards)
BY Zenon DEF Write, UpdatePlatformPkg, UpdateCorejackCore, UpdateBoardDescriptor, ListCore, WriteCoreFiles,
             UpdateFpgaTarget, WriteBoardFiles, descVars

\* A write of a run changes one table.
LEMMA WriteDesc == ASSUME DescInv, Write PROVE DescInv'
<1>1. IsJob(job') /\ (job'.tool = "none" \/ (job'.tool = job.tool /\ job'.name = job.name /\ job'.board = job.board))
  <2>1. \E end, pc : Finished(end) \/ Goto(pc)
    BY Zenon DEF Write, UpdatePlatformPkg, UpdateCorejackCore, UpdateBoardDescriptor, ListCore, WriteCoreFiles,
                 UpdateFpgaTarget, WriteBoardFiles
  <2>2. IsJob(job)
    BY Zenon DEF DescInv
  <2> QED BY <2>1, <2>2, JobStep, Zenon
<1>2. banners' = banners
  BY Zenon DEF Write, UpdatePlatformPkg, UpdateCorejackCore, UpdateBoardDescriptor, ListCore, WriteCoreFiles,
               UpdateFpgaTarget, WriteBoardFiles, descVars
<1>3. \/ cores' = cores
      \/ At("core", "desc") /\ cores' = Put(job.name, CoreScaffold(job.name, job.board, job.type), cores)
  BY Zenon DEF Write, UpdatePlatformPkg, UpdateCorejackCore, UpdateBoardDescriptor, ListCore, WriteCoreFiles,
               UpdateFpgaTarget, WriteBoardFiles, descVars
<1>4. IsTable(cores')
  <2>1. CASE cores' = cores
    BY <2>1, Zenon DEF DescInv
  <2>2. CASE At("core", "desc") /\ cores' = Put(job.name, CoreScaffold(job.name, job.board, job.type), cores)
    <3>1. job.name \in RepoNames /\ job.board \in RepoNames /\ IsTable(cores)
      BY <2>2, Zenon DEF At, DescInv, RepoNames
    <3> QED BY <2>2, <3>1, ScaffoldDescs, TableEdit, Zenon
  <2> QED BY <1>3, <2>1, <2>2, Zenon
<1>5. \/ boards' = boards
      \/ UpdateBoardDescriptor /\ ListCore /\ job.board \in DOMAIN boards
      \/ At("board", "desc") /\ boards' = Put(job.name, BoardScaffold(job.name), boards)
  BY BoardWrites, Zenon
<1>6. IsTable(boards')
  <2>1. CASE boards' = boards
    BY <2>1, Zenon DEF DescInv
  <2>2. CASE UpdateBoardDescriptor /\ ListCore /\ job.board \in DOMAIN boards
    <3> DEFINE d == boards[job.board]
               l == IF Listed(d.list, job.name) THEN d.list ELSE Append(d.list, job.name)
               e == [d EXCEPT !.list = l]
    <3>1. boards' = [boards EXCEPT ![job.board] = e]
      BY <2>2, Zenon DEF UpdateBoardDescriptor, ListCore
    <3>2. IsTable(boards) /\ IsDesc(d) /\ d.list \in Seq(RepoNames)
      BY <2>2, Zenon DEF DescInv, IsTable, IsDesc
    <3>3. job.name \in RepoNames
      BY <2>2, Zenon DEF UpdateBoardDescriptor, ListCore, At, DescInv, RepoNames
    <3>4. l \in Seq(RepoNames)
      BY <3>2, <3>3, ToggleList, Zenon
    <3> HIDE DEF l
    <3>5. IsDesc(e)
      BY <3>2, <3>4, DescEdit, Zenon
    <3> HIDE DEF e
    <3> QED BY <2>2, <3>1, <3>2, <3>5, TableEdit, ZenonT(60)
  <2>3. CASE At("board", "desc") /\ boards' = Put(job.name, BoardScaffold(job.name), boards)
    <3>1. job.name \in RepoNames /\ IsTable(boards)
      BY <2>3, Zenon DEF At, DescInv, RepoNames
    <3> QED BY <2>3, <3>1, ScaffoldDescs, TableEdit, ZenonT(60)
  <2> QED BY <1>5, <2>1, <2>2, <2>3, ZenonT(60)
<1>7. IsTable(cores)' /\ IsTable(boards)' /\ IsJob(job)'
  BY <1>1, <1>4, <1>6, Zenon DEF IsTable, IsDesc, IsJob
<1>8. DOMAIN banners' = {"baremetal", "zephyr"}
  BY <1>2, Zenon DEF DescInv
<1> QED BY <1>1, <1>7, <1>8, Zenon DEF DescInv

\* An edit rewrites the scalars or the list of one descriptor, or the banners.
LEMMA EditDesc == ASSUME DescInv, Edit PROVE DescInv'
<1>1. job' = job
  BY Zenon DEF Edit
<1>2. /\ IsTable(cores) /\ IsTable(boards) /\ DOMAIN banners = {"baremetal", "zephyr"}
      /\ DOMAIN cores \subseteq RepoNames /\ DOMAIN boards \subseteq RepoNames
  BY Zenon DEF DescInv, IsTable
<1>3. ASSUME NEW t, IsTable(t), NEW x \in DOMAIN t, NEW u, NEW S \in SUBSET RepoNames,
             \/ \E g : u = [t EXCEPT ![x].f = g]
             \/ \E n \in S : u = [t EXCEPT ![x].list = Toggle(@, n)]
      PROVE  IsTable(u)
  <2>1. IsDesc(t[x]) /\ t[x].list \in Seq(RepoNames)
    BY <1>3, Zenon DEF IsTable, IsDesc
  <2>2. ASSUME NEW g, u = [t EXCEPT ![x].f = g] PROVE IsTable(u)
    <3>1. PICK e : e = [t[x] EXCEPT !.f = g]
      BY Zenon
    <3>2. u = [t EXCEPT ![x] = e]
      BY <2>2, <3>1, Zenon
    <3>3. IsDesc(e)
      BY <2>1, <3>1, DescEdit, Zenon
    <3> QED BY <1>3, <3>2, <3>3, TableEdit, ZenonT(60)
  <2>3. ASSUME NEW n \in S, u = [t EXCEPT ![x].list = Toggle(@, n)] PROVE IsTable(u)
    <3>1. PICK l \in Seq(RepoNames) : l = Toggle(t[x].list, n)
      BY <2>1, ToggleList, Zenon
    <3>2. PICK e : e = [t[x] EXCEPT !.list = l]
      BY Zenon
    <3>3. u = [t EXCEPT ![x] = e]
      BY <2>3, <3>1, <3>2, Zenon
    <3>4. IsDesc(e)
      BY <2>1, <3>2, DescEdit, Zenon
    <3> QED BY <1>3, <3>3, <3>4, TableEdit, ZenonT(60)
  <2> QED BY <1>3, <2>2, <2>3, Zenon
<1>4. ASSUME NEW c \in DOMAIN cores, EditCore(c)
      PROVE  IsTable(cores') /\ boards' = boards /\ banners' = banners
  <2>1. \/ \E g : cores' = [cores EXCEPT ![c].f = g]
        \/ \E n \in DOMAIN boards : cores' = [cores EXCEPT ![c].list = Toggle(@, n)]
    BY <1>4, Zenon DEF EditCore
  <2> QED BY <1>2, <1>3, <1>4, <2>1, ZenonT(60) DEF EditCore
<1>5. ASSUME NEW b \in DOMAIN boards, EditBoard(b)
      PROVE  IsTable(boards') /\ cores' = cores /\ banners' = banners
  <2>1. \/ \E g : boards' = [boards EXCEPT ![b].f = g]
        \/ \E n \in DOMAIN cores : boards' = [boards EXCEPT ![b].list = Toggle(@, n)]
    BY <1>5, Zenon DEF EditBoard
  <2> QED BY <1>2, <1>3, <1>5, <2>1, ZenonT(60) DEF EditBoard
<1>6. ASSUME EditBanner PROVE DOMAIN banners' = {"baremetal", "zephyr"} /\ cores' = cores /\ boards' = boards
  BY <1>6, FirmwaresAssumption, Zenon DEF EditBanner
<1>7. IsTable(cores') /\ IsTable(boards') /\ DOMAIN banners' = {"baremetal", "zephyr"}
  <2>1. (\E c \in DOMAIN cores : EditCore(c)) \/ (\E b \in DOMAIN boards : EditBoard(b)) \/ EditBanner
    BY Zenon DEF Edit
  <2> QED BY <1>2, <1>4, <1>5, <1>6, <2>1, ZenonT(60)
<1>8. IsTable(cores)' /\ IsTable(boards)' /\ IsJob(job)'
  BY <1>1, <1>7, Zenon DEF IsTable, IsDesc, IsJob, DescInv
<1> QED BY <1>1, <1>7, <1>8, Zenon DEF DescInv

\* Every step of the tools and every edit leaves descriptors.
LEMMA DescNextInv == DescInv /\ [RepoNext]_repoVars => DescInv'
<1> SUFFICES ASSUME DescInv, [RepoNext]_repoVars PROVE DescInv'
  BY Zenon
<1>1. ASSUME NEW c \in NewCores, NEW b \in DOMAIN boards \union NewBoards, StartCore(c, b) PROVE DescInv'
  <2>1. PICK j : j = [NoJob EXCEPT !.name = c, !.board = b, !.type = NextCoreType, !.pc = "pkg"]
    BY Zenon
  <2>2. IsJob(j) /\ j.name = c /\ j.board = b
    <3>1. IsJob(j)
      BY <2>1, NoJobFacts, FreshCore, Zenon
    <3>2. j = [tool |-> NoJob.tool, name |-> c, board |-> b, ver |-> NoJob.ver,
               type |-> NextCoreType, pc |-> "pkg", todo |-> NoJob.todo]
      BY ONLY <2>1, NoJobFacts, Zenon DEF IsJob
    <3> QED BY ONLY <3>1, <3>2, Zenon
  <2>3. \E fresh : Start("core", j, fresh)
    BY <1>1, <2>1, Zenon DEF StartCore
  <2>4. b \in RepoNames
    BY Zenon DEF DescInv, IsTable, RepoNames
  <2> QED BY <2>2, <2>3, <2>4, StartDesc, ZenonT(60)
<1>2. ASSUME NEW b \in NewBoards, StartBoard(b) PROVE DescInv'
  <2>1. PICK j : j = [NoJob EXCEPT !.name = b, !.pc = "file"]
    BY Zenon
  <2>2. IsJob(j) /\ j.name = b
    <3>1. IsJob(j)
      BY <2>1, NoJobFacts, FreshBoard, Zenon
    <3>2. j = [tool |-> NoJob.tool, name |-> b, board |-> NoJob.board, ver |-> NoJob.ver,
               type |-> NoJob.type, pc |-> "file", todo |-> NoJob.todo]
      BY ONLY <2>1, NoJobFacts, Zenon DEF IsJob
    <3> QED BY ONLY <3>1, <3>2, Zenon
  <2>3. \E fresh : Start("board", j, fresh)
    BY <1>2, <2>1, Zenon DEF StartBoard
  <2> QED BY <2>2, <2>3, StartDesc, Zenon
<1>3. ASSUME NEW v \in Versions, StartBump(v) PROVE DescInv'
  <2>1. PICK j : j = [NoJob EXCEPT !.ver = v, !.pc = "rewrite", !.todo = DOMAIN vers]
    BY Zenon
  <2>2. IsJob(j)
    <3>1. j = [tool |-> NoJob.tool, name |-> NoJob.name, board |-> NoJob.board, ver |-> v,
               type |-> NoJob.type, pc |-> "rewrite", todo |-> DOMAIN vers]
      BY ONLY <2>1, NoJobFacts, Zenon DEF IsJob
    <3> QED BY ONLY <3>1, Zenon DEF IsJob
  <2>3. \E fresh : Start("bump", j, fresh)
    BY <1>3, <2>1, ZenonT(60) DEF StartBump
  <2> QED BY <2>2, <2>3, StartDesc, Zenon
<1>4. CASE Write
  BY <1>4, WriteDesc, Zenon
<1>5. CASE Rewrite /\ UNCHANGED <<matrix, cut, runs, edits>>
  <2>1. cores' = cores /\ boards' = boards /\ banners' = banners
    BY <1>5, Zenon DEF Rewrite, descVars
  <2>2. job.tool = "bump" /\ IsJob(job)
    BY <1>5, Zenon DEF Rewrite, At, DescInv
  <2>3. \/ \E end : Finished(end)
        \/ \E todo : job' = [job EXCEPT !.todo = todo]
    BY <1>5, Zenon DEF Rewrite
  <2>4. IsJob(job') /\ job'.tool \in {"none", "bump"}
    <3>1. ASSUME NEW end, Finished(end) PROVE IsJob(job') /\ job'.tool = "none"
      BY <3>1, NoJobFacts, Zenon DEF Finished
    <3>2. ASSUME NEW todo, job' = [job EXCEPT !.todo = todo] PROVE IsJob(job') /\ job'.tool = "bump"
      <4>1. job' = [tool |-> job.tool, name |-> job.name, board |-> job.board, ver |-> job.ver,
                    type |-> job.type, pc |-> job.pc, todo |-> todo]
        BY ONLY <2>2, <3>2 DEF IsJob
      <4> QED BY ONLY <2>2, <4>1, Zenon DEF IsJob
    <3> QED BY <2>3, <3>1, <3>2, Zenon
  <2> QED BY <2>1, <2>4 DEF DescInv, IsTable, IsDesc, IsJob
<1>6. CASE RenderMatrix
  BY <1>6, ZenonT(60) DEF RenderMatrix, descVars, DescInv, IsTable, IsDesc, IsJob
<1>7. CASE Kill
  <2>1. IsJob(job') /\ job'.tool = "none" /\ cores' = cores /\ boards' = boards /\ banners' = banners
    BY <1>7, NoJobFacts, ZenonT(60) DEF Kill, Finished, descVars
  <2> QED BY <2>1 DEF DescInv, IsTable, IsDesc, IsJob
<1>8. CASE Edit
  BY <1>8, EditDesc, Zenon
<1>9. CASE UNCHANGED repoVars
  BY <1>9, Zenon DEF repoVars, descVars, DescInv, IsTable, IsDesc, IsJob
<1> QED BY <1>1, <1>2, <1>3, <1>4, <1>5, <1>6, <1>7, <1>8, <1>9, ZenonT(60) DEF RepoNext

\* board_descriptor writes a template for the work root.
LEMMA ScaffoldRoot == \A b : RootOK(BoardScaffold(b).f)
<1>1. IsTemplate(WorkRootTemplate)
  <2>1. PICK S : S = {"build/fpga/", "/", "/fusesoc-fpga"}
    BY Zenon
  <2>2. <<"build/fpga/">> \in Seq(S) /\ <<"/">> \in Seq(S) /\ <<"/fusesoc-fpga">> \in Seq(S)
    BY <2>1
  <2> QED BY <2>2, Zenon DEF WorkRootTemplate, Template, IsTemplate
<1>2. \A b : BoardScaffold(b).f.work_root = WorkRootTemplate
  BY Zenon DEF BoardScaffold
<1> QED BY <1>1, <1>2, Zenon DEF RootOK

\* The release's board has a template for its work root.
LEMMA RootInitInv == RepoInit => RootInv
<1>1. \A b : RootOK(BoardScaffold(b).f)
  BY ScaffoldRoot, Zenon
<1>2. Axku5.f = BoardScaffold("axku5").f
  BY DEF Axku5, BoardScaffold
<1>3. RepoInit => DOMAIN boards = {"axku5"} /\ boards["axku5"] = Axku5
  BY Zenon DEF RepoInit
<1> QED BY <1>1, <1>2, <1>3, Zenon DEF RootInv

\* The scaffold, a listed core, an edit: work roots stay templates.
LEMMA RootNextInv == DescInv /\ RootInv /\ [RepoNext]_repoVars => RootInv'
<1> SUFFICES ASSUME DescInv, RootInv, [RepoNext]_repoVars PROVE RootInv'
  BY Zenon
<1>1. IsTable(boards)
  BY Zenon DEF DescInv
<1>2. CASE boards' = boards
  BY <1>2, Zenon DEF RootInv, RootOK
<1>3. ASSUME NEW x \in DOMAIN boards, NEW l, boards' = [boards EXCEPT ![x].list = l] PROVE RootInv'
  <2>1. DOMAIN boards' = DOMAIN boards
    BY <1>1, <1>3, Zenon DEF IsTable
  <2>2. \A b \in DOMAIN boards : boards'[b].f = boards[b].f
    <3>1. PICK e : e = [boards[x] EXCEPT !.list = l]
      BY Zenon
    <3>2. boards[x] = [f |-> boards[x].f, list |-> boards[x].list]
      BY <1>1, Zenon DEF IsTable, IsDesc
    <3>3. e = [f |-> boards[x].f, list |-> l]
      BY ONLY <3>1, <3>2, Zenon
    <3>4. boards' = [boards EXCEPT ![x] = e]
      BY <1>3, <3>1, Zenon
    <3>5. \A b \in DOMAIN boards : boards'[b] = IF b = x THEN e ELSE boards[b]
      BY <1>1, <3>4, Zenon DEF IsTable
    <3>6. e.f = boards[x].f
      BY <3>3, Zenon
    <3> QED BY <3>5, <3>6, Zenon
  <2> QED BY <2>1, <2>2, Zenon DEF RootInv, RootOK
<1>4. ASSUME NEW x \in DOMAIN boards, NEW g, RootOK(g), boards' = [boards EXCEPT ![x].f = g] PROVE RootInv'
  <2>1. DOMAIN boards' = DOMAIN boards
    BY <1>1, <1>4, Zenon DEF IsTable
  <2>2. \A b \in DOMAIN boards : boards'[b].f = IF b = x THEN g ELSE boards[b].f
    <3>1. PICK e : e = [boards[x] EXCEPT !.f = g]
      BY Zenon
    <3>2. boards[x] = [f |-> boards[x].f, list |-> boards[x].list]
      BY <1>1, Zenon DEF IsTable, IsDesc
    <3>3. e = [f |-> g, list |-> boards[x].list]
      BY ONLY <3>1, <3>2, Zenon
    <3>4. boards' = [boards EXCEPT ![x] = e]
      BY <1>4, <3>1, Zenon
    <3>5. \A b \in DOMAIN boards : boards'[b] = IF b = x THEN e ELSE boards[b]
      BY <1>1, <3>4, Zenon DEF IsTable
    <3>6. e.f = g
      BY <3>3, Zenon
    <3> QED BY <3>5, <3>6, Zenon
  <2> QED BY <1>4, <2>1, <2>2, Zenon DEF RootInv, RootOK
<1>5. CASE Write
  <2>1. CASE UpdateBoardDescriptor /\ ListCore /\ job.board \in DOMAIN boards
    <3>1. \E l : boards' = [boards EXCEPT ![job.board].list = l]
      BY <2>1, Zenon DEF ListCore
    <3> QED BY <1>3, <2>1, <3>1, Zenon
  <2>2. CASE boards' = Put(job.name, BoardScaffold(job.name), boards)
    <3>1. \A b \in DOMAIN boards' :
            \/ boards'[b] = BoardScaffold(job.name)
            \/ b \in DOMAIN boards /\ boards'[b] = boards[b]
      BY <2>2, Zenon DEF Put
    <3>2. RootOK(BoardScaffold(job.name).f)
      BY ScaffoldRoot, Zenon
    <3> QED BY <3>1, <3>2, Zenon DEF RootInv, RootOK
  <2> QED BY <1>2, <1>5, <2>1, <2>2, BoardWrites, Zenon
<1>6. CASE Edit
  <2>1. ASSUME NEW x \in DOMAIN boards, EditBoard(x) PROVE RootInv'
    <3>1. ASSUME NEW e \in BoardEdits, boards' = [boards EXCEPT ![x].f = Overlay(e, @)] PROVE RootInv'
      <4>1. boards' = [boards EXCEPT ![x].f = Overlay(e, boards[x].f)]
        BY <3>1, Zenon
      <4>2. RootOK(Overlay(e, boards[x].f))
        <5>1. "work_root" \in DOMAIN e => IsTemplate(e.work_root)
          <6>1. \A t \in Templates : {t.pre, t.mid, t.post} \subseteq Seq(STRING)
            BY Zenon DEF Templates
          <6> QED BY <6>1, BoardEditsAssumption, Zenon DEF IsTemplate
        <5>2. RootOK(boards[x].f)
          BY Zenon DEF RootInv
        <5> QED BY <5>1, <5>2, Zenon DEF RootOK, Overlay
      <4> QED BY <1>4, <4>1, <4>2, Zenon
    <3>2. ASSUME NEW y, boards' = [boards EXCEPT ![x].f = Restrict(@, DOMAIN @ \ {y})] PROVE RootInv'
      <4>1. boards' = [boards EXCEPT ![x].f = Restrict(boards[x].f, DOMAIN boards[x].f \ {y})]
        BY <3>2, Zenon
      <4>2. RootOK(Restrict(boards[x].f, DOMAIN boards[x].f \ {y}))
        BY Zenon DEF RootInv, RootOK, Restrict
      <4> QED BY <1>4, <4>1, <4>2, Zenon
    <3>3. ASSUME NEW c, boards' = [boards EXCEPT ![x].list = Toggle(@, c)] PROVE RootInv'
      <4>1. boards' = [boards EXCEPT ![x].list = Toggle(boards[x].list, c)]
        BY <3>3, Zenon
      <4> QED BY <1>3, <4>1, Zenon
    <3> QED BY <2>1, <3>1, <3>2, <3>3, Zenon DEF EditBoard
  <2>2. (\E x \in DOMAIN boards : EditBoard(x)) \/ boards' = boards
    BY <1>6, Zenon DEF Edit, EditCore, EditBanner
  <2> QED BY <1>2, <2>1, <2>2, Zenon
<1>7. Write \/ Edit \/ boards' = boards
  BY Zenon DEF RepoNext, StartCore, StartBoard, StartBump, Start, Rewrite, RenderMatrix, Kill, repoVars, descVars
<1> QED BY <1>2, <1>5, <1>6, <1>7, Zenon

\* render_support_matrix.py against validate_target.py, for any names, edits and cuts: a
\* page that is not stale says of a board that passes target-check what Make would do.
THEOREM MatrixAlwaysTruthful == RepoSpec => []MatrixTruthful
BY PageTruthful, DescInitInv, DescNextInv, PTL DEF RepoSpec

\* validate_target.py, for any names, edits and cuts: what passes target-check has
\* settings, a wrapper, a core type of its own and a work root of its own on its board,
\* and when all passes, the matrix and the list of targets come out.
THEOREM CheckedAlwaysBuildable == RepoSpec => []CheckedBuildable
BY ChecksBuildable, DescInitInv, DescNextInv, RootInitInv, RootNextInv, PTL DEF RepoSpec

-----------------------------------------------------------------------------
(* What the writes of a scaffold leave intact. *)

\* The names a line of corejack.core is about, the lines that are a key two spaces in,
\* and all lines.
LineNames == RepoNames \union {"region", "RamWords", "rtl", "sw-sim", "lint", "fpga"}

KeyKinds == {"parameter", "core fileset", "board fileset", "fileset", "target"}

LineKinds == KeyKinds \union {"define", "core", "part", "board", "toplevel"}

LineType == [k : LineKinds, of : SUBSET LineNames]

\* Line makes lines.
LEMMA LineIs ==
  ASSUME NEW k \in LineKinds, NEW n \in LineNames
  PROVE  Line(k, n) \in LineType
BY Zenon DEF Line, LineType

\* The least of a set of lines is one of them.
LEMMA FirstIs ==
  ASSUME NEW P \in SUBSET Nat, P # {}
  PROVE  First(P) \in P
BY LeastNat, Zenon DEF First

\* A line put into a text: every other line stays.
LEMMA InsertAtKeeps ==
  ASSUME NEW S, NEW s \in Seq(S), NEW x \in S, NEW i \in 1..(Len(s) + 1)
  PROVE  InsertAt(x, i, s) \in Seq(S) /\ Range(s) \subseteq Range(InsertAt(x, i, s))
<1>1. PICK p : p = SubSeq(s, 1, i - 1) /\ p \in Seq(S) /\ Len(p) = i - 1 /\ \A j \in 1..(i - 1) : p[j] = s[j]
  <2>1. i - 1 \in 0..Len(s)
    OBVIOUS
  <2>2. SubSeq(s, 1, i - 1) \in Seq(S) /\ Len(SubSeq(s, 1, i - 1)) = i - 1
    BY <2>1
  <2>3. \A j \in 1..(i - 1) : SubSeq(s, 1, i - 1)[j] = s[j]
    BY <2>1
  <2> QED BY <2>2, <2>3, Zenon
<1>2. PICK u : /\ u = SubSeq(s, i, Len(s)) /\ u \in Seq(S) /\ Len(u) = Len(s) - i + 1
               /\ \A j \in 1..(Len(s) - i + 1) : u[j] = s[i + j - 1]
  <2>1. SubSeq(s, i, Len(s)) \in Seq(S) /\ Len(SubSeq(s, i, Len(s))) = Len(s) - i + 1
    OBVIOUS
  <2>2. \A j \in 1..(Len(s) - i + 1) : SubSeq(s, i, Len(s))[j] = s[i + j - 1]
    OBVIOUS
  <2> QED BY <2>1, <2>2, Zenon
<1>3. PICK w : w = p \o <<x>> /\ w \in Seq(S) /\ Len(w) = i /\ \A j \in 1..(i - 1) : w[j] = p[j]
  <2>1. <<x>> \in Seq(S) /\ Len(<<x>>) = 1
    OBVIOUS
  <2>2. p \o <<x>> \in Seq(S) /\ Len(p \o <<x>>) = i
    BY <1>1, <2>1, SMTT(30)
  <2>3. \A j \in 1..(i - 1) : (p \o <<x>>)[j] = p[j]
    BY <1>1, <2>1, SMTT(30)
  <2> QED BY <2>2, <2>3, Zenon
<1>4. PICK n \in Nat : n = Len(s) /\ i \in 1..(n + 1)
  OBVIOUS
<1>5. PICK t : /\ t = w \o u /\ t \in Seq(S) /\ Len(t) = Len(w) + Len(u)
               /\ \A j \in 1..Len(w) : t[j] = w[j]
               /\ \A j \in 1..Len(u) : t[Len(w) + j] = u[j]
  <2>1. w \in Seq(S) /\ u \in Seq(S)
    BY <1>2, <1>3, Zenon
  <2>2. w \o u \in Seq(S) /\ Len(w \o u) = Len(w) + Len(u)
    BY ONLY <2>1, ConcatLen, Zenon
  <2>3. \A j \in 1..Len(w) : (w \o u)[j] = w[j]
    BY ONLY <2>1, ConcatLeft, Zenon
  <2>4. \A j \in 1..Len(u) : (w \o u)[Len(w) + j] = u[j]
    BY ONLY <2>1, ConcatRight, Zenon
  <2> QED BY <2>2, <2>3, <2>4, ZenonT(60)
<1>6. InsertAt(x, i, s) = t
  BY <1>1, <1>2, <1>3, <1>5, Zenon DEF InsertAt
<1>7. /\ Len(w) = i /\ Len(u) = n - i + 1 /\ i \in Nat
      /\ \A j \in 1..i : t[j] = w[j]
      /\ \A j \in 1..(n - i + 1) : t[i + j] = u[j]
      /\ \A j \in 1..(n - i + 1) : u[j] = s[i + j - 1]
      /\ \A j \in 1..(i - 1) : w[j] = s[j]
  <2>1. Len(w) = i /\ Len(u) = n - i + 1 /\ i \in Nat
    <3>1. i \in Nat
      BY ONLY <1>4
    <3> QED BY <1>2, <1>3, <1>4, <3>1, ZenonT(60)
  <2>2. /\ \A j \in 1..(n - i + 1) : u[j] = s[i + j - 1]
        /\ \A j \in 1..(i - 1) : w[j] = s[j]
    BY <1>1, <1>2, <1>3, <1>4, ZenonT(60)
  <2> QED BY <1>5, <2>1, <2>2, ZenonT(60)
<1>8. Len(t) = n + 1
  BY ONLY <1>4, <1>5, <1>7, SMTT(30)
<1>9. DOMAIN s = 1..n /\ DOMAIN t = 1..(n + 1)
  <2>1. DOMAIN t = 1..Len(t)
    BY ONLY <1>5
  <2> QED BY <1>4, <1>8, <2>1, SMTT(30)
<1>10. ASSUME NEW j \in 1..n PROVE \E k \in 1..(n + 1) : t[k] = s[j]
  <2>1. CASE j < i
    <3>1. j \in 1..(i - 1) /\ j \in 1..i /\ j \in 1..(n + 1)
      BY ONLY <1>4, <2>1, j \in 1..n, SMTT(30)
    <3>2. t[j] = s[j]
      BY ONLY <1>7, <3>1, Zenon
    <3> QED BY <3>1, <3>2, ZenonT(60)
  <2>2. CASE ~(j < i)
    <3>1. PICK l : l = j - i + 1
      BY Zenon
    <3>2. l \in 1..(n - i + 1) /\ i + l - 1 = j /\ i + l \in 1..(n + 1)
      BY ONLY <1>4, <2>2, <3>1, j \in 1..n, SMTT(30)
    <3>3. t[i + l] = s[i + l - 1]
      BY ONLY <1>7, <3>2, Zenon
    <3> QED BY <3>2, <3>3, Zenon
  <2> QED BY <2>1, <2>2, Zenon
<1>11. Range(s) \subseteq Range(t)
  BY ONLY <1>9, <1>10, Zenon DEF Range
<1> QED BY <1>5, <1>6, <1>11, ZenonT(60)

\* What an insertion beside a marker leaves.
LEMMA InsertKeeps ==
  ASSUME NEW S, NEW s \in Seq(S), NEW m, NEW x \in S, Occurs(m, s)
  PROVE  /\ InsertBefore(x, m, s) \in Seq(S) /\ Range(s) \subseteq Range(InsertBefore(x, m, s))
         /\ InsertAfterFirst(x, m, s) \in Seq(S) /\ Range(s) \subseteq Range(InsertAfterFirst(x, m, s))
<1>1. PICK i \in 1..Len(s) : i = First(Places(m, s))
  <2>1. Places(m, s) \in SUBSET Nat /\ Places(m, s) \subseteq 1..Len(s) /\ Places(m, s) # {}
    BY DEF Places, Occurs
  <2> QED BY <2>1, FirstIs, Zenon
<1>2. i \in 1..(Len(s) + 1) /\ i + 1 \in 1..(Len(s) + 1)
  OBVIOUS
<1>3. InsertBefore(x, m, s) \in Seq(S) /\ Range(s) \subseteq Range(InsertBefore(x, m, s))
  BY <1>1, <1>2, InsertAtKeeps, ZenonT(60) DEF InsertBefore
<1>4. InsertAfterFirst(x, m, s) \in Seq(S) /\ Range(s) \subseteq Range(InsertAfterFirst(x, m, s))
  BY <1>1, <1>2, InsertAtKeeps, ZenonT(60) DEF InsertAfterFirst
<1> QED BY <1>3, <1>4, Zenon

\* update_corejack_core only adds lines.
LEMMA WithCoreKeeps ==
  ASSUME NEW s \in Seq(LineType), NEW c \in RepoNames, WithCore(s, c) # <<>>
  PROVE  WithCore(s, c) \in Seq(LineType) /\ Range(s) \subseteq Range(WithCore(s, c))
<1> DEFINE t1 == InsertBefore(Line("core fileset", c), FilesetMarker, s)
           t2 == InsertAfterFirst(Line("define", c), DefineMarker, t1)
           t3 == InsertAfterFirst(Line("core", c), SwMarker, t2)
           t4 == InsertAfterFirst(Line("core", c), FpgaMarker, t3)
<1>1. /\ Occurs(FilesetMarker, s) /\ Occurs(DefineMarker, t1)
      /\ Occurs(SwMarker, t2) /\ Occurs(FpgaMarker, t3) /\ WithCore(s, c) = t4
  BY Zenon DEF WithCore
<1>2. Line("core fileset", c) \in LineType /\ Line("define", c) \in LineType /\ Line("core", c) \in LineType
  <2>1. c \in LineNames
    BY Zenon DEF LineNames
  <2>2. {"core fileset", "define", "core"} \subseteq LineKinds
    BY Zenon DEF LineKinds, KeyKinds
  <2> QED BY <2>1, <2>2, LineIs, ZenonT(60)
<1>3. t1 \in Seq(LineType) /\ Range(s) \subseteq Range(t1)
  BY <1>1, <1>2, InsertKeeps, ZenonT(60)
<1> HIDE DEF t1
<1>4. t2 \in Seq(LineType) /\ Range(t1) \subseteq Range(t2)
  BY <1>1, <1>2, <1>3, InsertKeeps, ZenonT(60)
<1> HIDE DEF t2
<1>5. t3 \in Seq(LineType) /\ Range(t2) \subseteq Range(t3)
  BY <1>1, <1>2, <1>4, InsertKeeps, ZenonT(60)
<1> HIDE DEF t3
<1>6. t4 \in Seq(LineType) /\ Range(t3) \subseteq Range(t4)
  BY <1>1, <1>2, <1>5, InsertKeeps, ZenonT(60)
<1> HIDE DEF t4
<1> QED BY <1>1, <1>3, <1>4, <1>5, <1>6, ZenonT(60)

\* replace_in_fpga_target keeps the lines that head a target.
LEMMA WithBoardKeeps ==
  ASSUME NEW s \in Seq(LineType), NEW b \in RepoNames, WithBoard(s, b) # <<>>
  PROVE  /\ WithBoard(s, b) \in Seq(LineType)
         /\ \A n : \A k \in KeyKinds : Line(k, n) \in Range(s) => Line(k, n) \in Range(WithBoard(s, b))
<1> DEFINE T == InsertBefore(Line("board fileset", b), <<Line("fileset", "rtl")>>, s)
<1>1. PICK t : t = T
  BY Zenon
<1> DEFINE hit(i, k) == t[i].k = k /\ InTarget(t, i, "fpga")
           tops == {i \in DOMAIN t : hit(i, "toplevel")}
           parts == {i \in DOMAIN t : hit(i, "part")}
           with(i) == [t[i] EXCEPT !.of = @ \union {b}]
           Lines == [i \in DOMAIN t |-> IF i \in parts \union tops THEN with(i) ELSE t[i]]
<1>2. /\ Occurs(<<Line("fileset", "rtl")>>, s) /\ tops # {}
      /\ WithBoard(s, b) = InsertAt(Line("board", b), First(tops), Lines)
  BY <1>1, Zenon DEF WithBoard
<1>3. b \in LineNames /\ Line("board fileset", b) \in LineType /\ Line("board", b) \in LineType
  <2>1. b \in LineNames
    BY Zenon DEF LineNames
  <2>2. {"board fileset", "board"} \subseteq LineKinds
    BY Zenon DEF LineKinds, KeyKinds
  <2> QED BY <2>1, <2>2, LineIs, ZenonT(60)
<1>4. t \in Seq(LineType) /\ Range(s) \subseteq Range(t)
  BY <1>1, <1>2, <1>3, InsertKeeps, ZenonT(60)
<1>5. PICK n \in Nat : n = Len(t) /\ DOMAIN t = 1..n
  BY <1>4
<1>6. ASSUME NEW i \in 1..n
      PROVE  /\ t[i] \in LineType /\ with(i) \in LineType
             /\ t[i].k \in KeyKinds => i \notin parts \union tops
  <2>1. t[i] \in LineType
    BY <1>4, <1>5, SMTT(30)
  <2>2. with(i) \in LineType
    BY <1>3, <2>1, Zenon DEF LineType
  <2>3. t[i].k \in KeyKinds => i \notin parts \union tops
    BY Zenon DEF KeyKinds
  <2> QED BY <2>1, <2>2, <2>3, ZenonT(60)
<1>7. PICK i \in 1..n : i = First(tops)
  <2>1. tops \in SUBSET Nat /\ tops \subseteq 1..n
    BY <1>5
  <2> HIDE DEF tops
  <2> QED BY <1>2, <2>1, FirstIs, ZenonT(60)
<1> HIDE DEF with, tops, parts
<1>8. PICK q \in Seq(LineType) : /\ q = Lines /\ Len(q) = n
                                 /\ \A j \in 1..n : t[j].k \in KeyKinds => q[j] = t[j]
  <2>1. \A j \in 1..n : (IF j \in parts \union tops THEN with(j) ELSE t[j]) \in LineType
    BY <1>6, Zenon
  <2>2. Lines = [j \in 1..n |-> IF j \in parts \union tops THEN with(j) ELSE t[j]]
    BY <1>5, Zenon
  <2>3. Lines \in Seq(LineType) /\ Len(Lines) = n
    BY <2>1, <2>2
  <2>4. \A j \in 1..n : t[j].k \in KeyKinds => Lines[j] = t[j]
    BY <1>6, <2>2, Zenon
  <2> QED BY <2>3, <2>4, Zenon
<1> HIDE DEF Lines
<1>9. WithBoard(s, b) \in Seq(LineType) /\ Range(q) \subseteq Range(WithBoard(s, b))
  <2>1. i \in 1..(Len(q) + 1)
    BY <1>8
  <2>2. WithBoard(s, b) = InsertAt(Line("board", b), i, q)
    BY <1>2, <1>7, <1>8, ZenonT(60)
  <2> QED BY <1>3, <2>1, <2>2, InsertAtKeeps, ZenonT(60)
<1>10. ASSUME NEW k \in KeyKinds, NEW m, Line(k, m) \in Range(s) PROVE Line(k, m) \in Range(q)
  <2>1. PICK j \in 1..n : t[j] = Line(k, m)
    <3>1. \E j \in DOMAIN t : t[j] = Line(k, m)
      BY <1>4, <1>10, Zenon DEF Range
    <3> QED BY <1>5, <3>1, Zenon
  <2>2. t[j].k \in KeyKinds
    <3>1. Line(k, m).k = k
      BY Zenon DEF Line
    <3> QED BY ONLY <2>1, <3>1, k \in KeyKinds
  <2>3. q[j] = Line(k, m) /\ j \in DOMAIN q
    BY <1>8, <2>1, <2>2, SMTT(30)
  <2> QED BY <2>3, Zenon DEF Range
<1> QED BY <1>9, <1>10, Zenon

-----------------------------------------------------------------------------
\* A run that makes a core has taken a number above all others of the enumeration, and
\* until its descriptor is there no core has its name; nor has a board the name of one
\* that is being made.
HarmInv ==
  /\ DescInv
  /\ corejack \in Seq(LineType)
  /\ \A c \in DOMAIN enum : enum[c] \in Nat
  /\ \E c \in DOMAIN enum : \A d \in DOMAIN enum : enum[d] <= enum[c]
  /\ job.tool = "core" =>
       /\ job.pc \in {"pkg", "file", "board", "desc"} =>
            /\ job.name \notin DOMAIN cores /\ job.type \in Nat
            /\ \A c \in DOMAIN enum : c # job.name => enum[c] < job.type
  /\ job.tool = "board" /\ job.pc \in {"file", "desc"} => job.name \notin DOMAIN boards

\* The shape of CorejackLines: eighteen lines are a sequence of lines.
LEMMA LongSeq ==
  ASSUME NEW S, NEW a \in S, NEW b \in S, NEW c \in S, NEW d \in S, NEW e \in S, NEW f \in S, NEW g \in S,
         NEW h \in S, NEW i \in S, NEW j \in S, NEW k \in S, NEW l \in S, NEW m \in S,
         NEW n \in S
  PROVE  <<n, a, b, c, d, e, f, g, h, i, g, h, j, k, g, h, l, m>> \in Seq(S)
OBVIOUS

\* The release has the shape the scaffolds rely on.
LEMMA HarmInitInv == RepoInit => HarmInv
<1> SUFFICES ASSUME RepoInit PROVE HarmInv
  BY Zenon
<1>1. DescInv
  BY DescInitInv, Zenon
<1>2. job.tool = "none"
  BY NoJobFacts, Zenon DEF RepoInit
<1>3. /\ \A c \in DOMAIN enum : enum[c] \in Nat
      /\ \E c \in DOMAIN enum : \A d \in DOMAIN enum : enum[d] <= enum[c]
  BY DEF RepoInit
<1>4. corejack \in Seq(LineType)
  <2>1. \A k \in LineKinds, n \in LineNames : Line(k, n) \in LineType
    BY LineIs, Zenon
  <2>2. {"parameter", "core fileset", "board fileset", "fileset", "target", "define", "core", "part", "board",
         "toplevel"} \subseteq LineKinds
    BY Zenon DEF LineKinds, KeyKinds
  <2>3. {"RamWords", "cvw", "axku5", "region", "rtl", "sw-sim", "lint", "fpga"} \subseteq LineNames
    BY Zenon DEF LineNames, RepoNames
  <2>4. /\ Line("core fileset", "cvw") \in LineType /\ Line("core fileset", "region") \in LineType
        /\ Line("board fileset", "axku5") \in LineType /\ Line("fileset", "rtl") \in LineType
        /\ Line("target", "sw-sim") \in LineType /\ Line("define", "cvw") \in LineType
        /\ Line("core", "cvw") \in LineType /\ Line("core", "region") \in LineType
        /\ Line("target", "lint") \in LineType /\ Line("target", "fpga") \in LineType
        /\ Line("part", "axku5") \in LineType /\ Line("board", "axku5") \in LineType
        /\ Line("toplevel", "axku5") \in LineType /\ Line("parameter", "RamWords") \in LineType
    BY <2>1, <2>2, <2>3, ZenonT(30)
  <2>5. corejack = CorejackLines
    BY Zenon DEF RepoInit
  <2>6. CorejackLines \in Seq(LineType)
    BY <2>4, LongSeq, ZenonT(60) DEF CorejackLines
  <2> QED BY <2>5, <2>6, Zenon
<1> QED BY <1>1, <1>2, <1>3, <1>4, ZenonT(60) DEF HarmInv

\* The number a run takes.
LEMMA NextTypeAbove ==
  ASSUME HarmInv
  PROVE  NextCoreType \in Nat /\ \A c \in DOMAIN enum : enum[c] < NextCoreType
<1>1. PICK c \in DOMAIN enum : \A d \in DOMAIN enum : enum[d] <= enum[c]
  BY Zenon DEF HarmInv
<1>2. Range(enum) \subseteq Nat /\ enum[c] \in Range(enum) /\ \A d \in DOMAIN enum : enum[d] \in Range(enum)
  BY Zenon DEF HarmInv, Range
<1>3. \A m \in Range(enum) : m <= enum[c]
  BY <1>1, Zenon DEF Range
<1>4. \E n \in Range(enum) : \A m \in Range(enum) : m <= n
  BY <1>2, <1>3, Zenon
<1>5. PICK n \in Range(enum) : /\ n = CHOOSE k \in Range(enum) : \A m \in Range(enum) : m <= k
                               /\ \A m \in Range(enum) : m <= n
  BY <1>4, Zenon
<1>6. NextCoreType = 1 + n
  BY <1>5, Zenon DEF NextCoreType
<1> QED BY <1>2, <1>5, <1>6, SMTT(30)

\* What a run starts with.
LEMMA StartJob ==
  ASSUME NEW tool, NEW j, NEW fresh, IsJob(j), Start(tool, j, fresh)
  PROVE  /\ IsJob(job') /\ job'.tool = tool /\ job'.name = j.name /\ job'.pc = j.pc /\ job'.type = j.type
         /\ cores' = cores /\ boards' = boards /\ enum' = enum /\ corejack' = corejack
<1>1. job' = [j EXCEPT !.tool = tool, !.ver = IF tool = "bump" THEN j.ver ELSE platform]
  BY Zenon DEF Start, PlatformVersion
<1>2. job' = [tool |-> tool, name |-> j.name, board |-> j.board,
              ver |-> IF tool = "bump" THEN j.ver ELSE platform,
              type |-> j.type, pc |-> j.pc, todo |-> j.todo]
  BY ONLY <1>1, IsJob(j), Zenon DEF IsJob
<1>3. IsJob(job') /\ job'.tool = tool /\ job'.name = j.name /\ job'.pc = j.pc /\ job'.type = j.type
  BY ONLY <1>2, Zenon DEF IsJob
<1>4. cores' = cores /\ boards' = boards /\ enum' = enum /\ corejack' = corejack
  BY Zenon DEF Start, descVars
<1> QED BY <1>3, <1>4, Zenon

\* A job that moves on keeps its other fields.
LEMMA GotoJob ==
  ASSUME IsJob(job), NEW pc, Goto(pc)
  PROVE  job'.tool = job.tool /\ job'.name = job.name /\ job'.type = job.type /\ job'.pc = pc
<1>1. job' = [job EXCEPT !.pc = pc]
  BY ZenonT(60) DEF Goto
<1>2. job' = [tool |-> job.tool, name |-> job.name, board |-> job.board, ver |-> job.ver,
              type |-> job.type, pc |-> pc, todo |-> job.todo]
  BY ONLY <1>1, IsJob(job), Zenon DEF IsJob
<1> QED BY ONLY <1>2, Zenon

\* The writes of a run.
LEMMA HarmWrite == ASSUME HarmInv, DescInv', Write PROVE HarmInv'
<1>0. IsJob(job) /\ corejack \in Seq(LineType) /\ NoJob.tool = "none"
  BY NoJobFacts, Zenon DEF HarmInv, DescInv
<1>1. CASE UpdatePlatformPkg
  <2>1. cores' = cores /\ boards' = boards /\ corejack' = corejack /\ job.tool = "core" /\ job.pc = "pkg"
    BY <1>1, Zenon DEF UpdatePlatformPkg, At
  <2>2. CASE job.name \in DOMAIN enum
    <3>1. job' = NoJob /\ enum' = enum
      BY <1>1, <2>2, Zenon DEF UpdatePlatformPkg, Finished
    <3> QED BY <1>0, <2>1, <3>1, ZenonT(60) DEF HarmInv
  <2>3. CASE job.name \notin DOMAIN enum
    <3>1. Goto("file") /\ enum' = Put(job.name, job.type, enum)
      BY <1>1, <2>3, ZenonT(60) DEF UpdatePlatformPkg
    <3>2. job'.tool = job.tool /\ job'.name = job.name /\ job'.type = job.type /\ job'.pc = "file"
      BY <1>0, <3>1, GotoJob, ZenonT(60)
    <3>3. /\ DOMAIN enum' = {job.name} \union DOMAIN enum /\ enum'[job.name] = job.type
          /\ \A c \in DOMAIN enum : enum'[c] = enum[c]
      BY <2>3, <3>1, Zenon DEF Put
    <3>4. /\ job.name \notin DOMAIN cores /\ job.type \in Nat
          /\ \A c \in DOMAIN enum : enum[c] < job.type /\ enum[c] \in Nat
      BY <2>1, <2>3, ZenonT(60) DEF HarmInv
    <3>5. /\ \A c \in DOMAIN enum' : enum'[c] \in Nat /\ enum'[c] <= enum'[job.name]
          /\ \A c \in DOMAIN enum' : c # job.name => enum'[c] < job.type
      BY <3>3, <3>4
    <3>6. job.name \in DOMAIN enum'
      BY <3>3, Zenon
    <3> QED BY <1>0, <2>1, <3>2, <3>4, <3>5, <3>6, ZenonT(60) DEF HarmInv
  <2> QED BY <2>2, <2>3, Zenon
<1>2. CASE UpdateCorejackCore
  <2>1. /\ cores' = cores /\ boards' = boards /\ enum' = enum /\ job.tool = "core" /\ job.pc = "file"
        /\ job.name \in RepoNames
    BY <1>2, ZenonT(60) DEF UpdateCorejackCore, At, HarmInv, DescInv, RepoNames
  <2>2. CASE WithCore(corejack, job.name) = <<>>
    <3>1. job' = NoJob /\ corejack' = corejack
      BY <1>2, <2>2, ZenonT(60) DEF UpdateCorejackCore, Finished
    <3> QED BY <1>0, <2>1, <3>1, SMTT(30) DEF HarmInv
  <2>3. CASE WithCore(corejack, job.name) # <<>>
    <3>1. Goto("board") /\ corejack' = WithCore(corejack, job.name)
      BY <1>2, <2>3, ZenonT(60) DEF UpdateCorejackCore
    <3>2. job'.tool = job.tool /\ job'.name = job.name /\ job'.type = job.type /\ job'.pc = "board"
      BY <1>0, <3>1, GotoJob, ZenonT(60)
    <3>3. corejack' \in Seq(LineType)
      BY <1>0, <2>1, <2>3, <3>1, WithCoreKeeps, ZenonT(60)
    <3> QED BY <2>1, <3>2, <3>3, ZenonT(60) DEF HarmInv
  <2> QED BY <2>2, <2>3, Zenon
<1>3. CASE UpdateBoardDescriptor
  <2>1. /\ cores' = cores /\ enum' = enum /\ corejack' = corejack /\ job.tool = "core" /\ job.pc = "board"
    BY <1>3, Zenon DEF UpdateBoardDescriptor, ListCore, At
  <2>2. job'.tool = "none" \/ (job'.tool = job.tool /\ job'.name = job.name /\ job'.type = job.type /\ job'.pc = "desc")
    <3>1. Finished("failed") \/ Goto("desc")
      BY <1>3, Zenon DEF UpdateBoardDescriptor, ListCore
    <3> QED BY <1>0, <3>1, GotoJob, ZenonT(60) DEF Finished
  <2> QED BY <2>1, <2>2, Zenon DEF HarmInv
<1>4. CASE WriteCoreFiles
  <2>1. enum' = enum /\ corejack' = corejack
    BY <1>4, Zenon DEF WriteCoreFiles, descVars
  <2>2. job.tool = "core"
    BY <1>4, Zenon DEF WriteCoreFiles, At
  <2>3. job'.tool = "none" \/ (job'.tool = "core" /\ job'.pc \in {"adapter", "corefile"})
    <3>1. Finished("done") \/ Goto("adapter") \/ Goto("corefile")
      BY <1>4, Zenon DEF WriteCoreFiles
    <3>2. Finished("done") => job'.tool = "none"
      BY <1>0, Zenon DEF Finished
    <3>3. (Goto("adapter") => job'.tool = job.tool /\ job'.pc = "adapter") /\ (Goto("corefile") => job'.tool = job.tool /\ job'.pc = "corefile")
      BY <1>0, GotoJob, ZenonT(60)
    <3> QED BY <2>2, <3>1, <3>2, <3>3, ZenonT(60)
  <2> QED BY <2>1, <2>3, Zenon DEF HarmInv
<1>5. CASE UpdateFpgaTarget
  <2>1. /\ cores' = cores /\ boards' = boards /\ enum' = enum /\ job.tool = "board" /\ job.pc = "file"
        /\ job.name \in RepoNames
    BY <1>5, Zenon DEF UpdateFpgaTarget, At, HarmInv, DescInv, RepoNames
  <2>2. CASE WithBoard(corejack, job.name) = <<>>
    <3>1. job' = NoJob /\ corejack' = corejack
      BY <1>5, <2>2, Zenon DEF UpdateFpgaTarget, Finished
    <3> QED BY <1>0, <2>1, <3>1, Zenon DEF HarmInv
  <2>3. CASE WithBoard(corejack, job.name) # <<>>
    <3>1. Goto("desc") /\ corejack' = WithBoard(corejack, job.name)
      BY <1>5, <2>3, Zenon DEF UpdateFpgaTarget
    <3>2. job'.tool = job.tool /\ job'.name = job.name /\ job'.pc = "desc"
      BY <1>0, <3>1, GotoJob, Zenon
    <3>3. corejack' \in Seq(LineType)
      BY <1>0, <2>1, <2>3, <3>1, WithBoardKeeps, ZenonT(60)
    <3> QED BY <2>1, <3>2, <3>3, Zenon DEF HarmInv
  <2> QED BY <2>2, <2>3, Zenon
<1>6. CASE WriteBoardFiles
  <2>1. enum' = enum /\ corejack' = corejack
    BY <1>6, Zenon DEF WriteBoardFiles, descVars
  <2>2. job.tool = "board"
    BY <1>6, Zenon DEF WriteBoardFiles, At
  <2>3. job'.tool = "none" \/ (job'.tool = "board" /\ job'.pc \in {"xdc", "wrapper", "corefile"})
    <3>1. Finished("done") \/ Goto("xdc") \/ Goto("wrapper") \/ Goto("corefile")
      BY <1>6, ZenonT(60) DEF WriteBoardFiles
    <3>2. Finished("done") => job'.tool = "none"
      BY <1>0, Zenon DEF Finished
    <3>3. ASSUME NEW pc, Goto(pc) PROVE job'.tool = job.tool /\ job'.pc = pc
      BY <1>0, <3>3, GotoJob, ZenonT(60)
    <3> QED BY <2>2, <3>1, <3>2, <3>3, ZenonT(60)
  <2> QED BY <2>1, <2>3, Zenon DEF HarmInv
<1> QED BY <1>1, <1>2, <1>3, <1>4, <1>5, <1>6, ZenonT(60) DEF Write

\* Every step keeps that shape.
LEMMA HarmNextInv == HarmInv /\ [RepoNext]_repoVars => HarmInv'
<1> SUFFICES ASSUME HarmInv, [RepoNext]_repoVars PROVE HarmInv'
  BY Zenon
<1>0. DescInv' /\ IsJob(job) /\ NoJob.tool = "none"
  BY DescNextInv, NoJobFacts, Zenon DEF HarmInv, DescInv
<1>1. ASSUME NEW c \in NewCores, NEW b, StartCore(c, b) PROVE HarmInv'
  <2>1. PICK j : j = [NoJob EXCEPT !.name = c, !.board = b, !.type = NextCoreType, !.pc = "pkg"]
    BY Zenon
  <2>2. IsJob(j) /\ j.name = c /\ j.type = NextCoreType /\ j.pc = "pkg"
    <3>1. IsJob(j)
      BY <2>1, NoJobFacts, FreshCore, ZenonT(60)
    <3>2. j = [tool |-> NoJob.tool, name |-> c, board |-> b, ver |-> NoJob.ver,
               type |-> NextCoreType, pc |-> "pkg", todo |-> NoJob.todo]
      BY ONLY <2>1, NoJobFacts, Zenon DEF IsJob
    <3> QED BY ONLY <3>1, <3>2, Zenon
  <2>3. \E fresh : Start("core", j, fresh)
    BY <1>1, <2>1, Zenon DEF StartCore
  <2>4. /\ job'.tool = "core" /\ job'.name = c /\ job'.type = NextCoreType
        /\ cores' = cores /\ boards' = boards /\ enum' = enum /\ corejack' = corejack
    BY <2>2, <2>3, StartJob, ZenonT(60)
  <2>5. c \notin DOMAIN cores
    BY <1>1, ZenonT(60) DEF StartCore
  <2> QED BY <1>0, <2>4, <2>5, NextTypeAbove, ZenonT(60) DEF HarmInv
<1>2. ASSUME NEW b \in NewBoards, StartBoard(b) PROVE HarmInv'
  <2>1. PICK j : j = [NoJob EXCEPT !.name = b, !.pc = "file"]
    BY Zenon
  <2>2. IsJob(j) /\ j.name = b
    <3>1. IsJob(j)
      BY <2>1, NoJobFacts, FreshBoard, Zenon
    <3>2. j = [tool |-> NoJob.tool, name |-> b, board |-> NoJob.board, ver |-> NoJob.ver,
               type |-> NoJob.type, pc |-> "file", todo |-> NoJob.todo]
      BY ONLY <2>1, NoJobFacts, Zenon DEF IsJob
    <3> QED BY ONLY <3>1, <3>2, Zenon
  <2>3. \E fresh : Start("board", j, fresh)
    BY <1>2, <2>1, Zenon DEF StartBoard
  <2>4. /\ job'.tool = "board" /\ job'.name = b
        /\ cores' = cores /\ boards' = boards /\ enum' = enum /\ corejack' = corejack
    BY <2>2, <2>3, StartJob, ZenonT(60)
  <2>5. b \notin DOMAIN boards
    BY <1>2, ZenonT(60) DEF StartBoard
  <2> QED BY <1>0, <2>4, <2>5, SMTT(30) DEF HarmInv
<1>3. ASSUME NEW v \in Versions, StartBump(v) PROVE HarmInv'
  <2>1. PICK j : j = [NoJob EXCEPT !.ver = v, !.pc = "rewrite", !.todo = DOMAIN vers]
    BY Zenon
  <2>2. IsJob(j)
    <3>1. j = [tool |-> NoJob.tool, name |-> NoJob.name, board |-> NoJob.board, ver |-> v,
               type |-> NoJob.type, pc |-> "rewrite", todo |-> DOMAIN vers]
      BY ONLY <2>1, NoJobFacts, Zenon DEF IsJob
    <3> QED BY ONLY <3>1, Zenon DEF IsJob
  <2>3. \E fresh : Start("bump", j, fresh)
    BY <1>3, <2>1, Zenon DEF StartBump
  <2>4. job'.tool = "bump" /\ enum' = enum /\ corejack' = corejack
    BY <2>2, <2>3, StartJob, ZenonT(60)
  <2> QED BY <1>0, <2>4, SMTT(30) DEF HarmInv
<1>4. CASE Write
  BY <1>0, <1>4, HarmWrite, ZenonT(60)
<1>5. CASE Rewrite /\ UNCHANGED <<matrix, cut, runs, edits>>
  <2>1. enum' = enum /\ corejack' = corejack /\ job.tool = "bump"
    BY <1>5, Zenon DEF Rewrite, descVars, At
  <2>2. \/ job' = NoJob
        \/ \E todo : job' = [job EXCEPT !.todo = todo]
    BY <1>5, Zenon DEF Rewrite, Finished
  <2>3. job'.tool \in {"none", "bump"}
    <3>1. ASSUME NEW todo, job' = [job EXCEPT !.todo = todo] PROVE job'.tool = job.tool
      <4>1. job' = [tool |-> job.tool, name |-> job.name, board |-> job.board, ver |-> job.ver,
                    type |-> job.type, pc |-> job.pc, todo |-> todo]
        BY ONLY <1>0, <3>1, ZenonT(60) DEF IsJob
      <4> QED BY ONLY <4>1, Zenon
    <3> QED BY <1>0, <2>1, <2>2, <3>1, ZenonT(60)
  <2> QED BY <1>0, <2>1, <2>3, ZenonT(60) DEF HarmInv
<1>6. CASE RenderMatrix
  <2>1. cores' = cores /\ boards' = boards /\ enum' = enum /\ corejack' = corejack /\ job' = job
    BY <1>6, Zenon DEF RenderMatrix, descVars
  <2> QED BY <1>0, <2>1, Zenon DEF HarmInv
<1>7. CASE Kill
  <2>1. job'.tool = "none" /\ enum' = enum /\ corejack' = corejack
    BY <1>0, <1>7, ZenonT(60) DEF Kill, Finished, descVars
  <2> QED BY <1>0, <2>1, Zenon DEF HarmInv
<1>8. CASE Edit
  <2>1. job' = job /\ job.tool = "none" /\ enum' = enum /\ corejack' = corejack
    BY <1>0, <1>8, SMTT(30) DEF Edit
  <2> QED BY <1>0, <2>1, SMTT(30) DEF HarmInv
<1>9. CASE UNCHANGED repoVars
  <2>1. cores' = cores /\ boards' = boards /\ enum' = enum /\ corejack' = corejack /\ job' = job
    BY <1>9, Zenon DEF repoVars, descVars
  <2> QED BY <1>0, <2>1, Zenon DEF HarmInv
<1> QED BY <1>1, <1>2, <1>3, <1>4, <1>5, <1>6, <1>7, <1>8, <1>9, Zenon DEF RepoNext

-----------------------------------------------------------------------------
\* A core stays sound while its own descriptor, its number and its boards stay what they
\* were and no other core takes its number.
LEMMA CoreKept ==
  ASSUME NEW c \in DOMAIN cores, CoreCheck(c),
         c \in DOMAIN cores', cores'[c] = cores[c], files \subseteq files',
         c \in DOMAIN enum', enum'[c] = enum[c],
         CoreTypeAlone(c)', ListedBack(c)'
  PROVE  CoreCheck(c)'
<1>1. PICK d : d = cores[c] /\ d = cores'[c]
  BY Zenon
<1>2. \A x : x \in files => x \in files'
  BY Zenon
<1> QED BY <1>1, <1>2, ZenonT(60) DEF CoreCheck, ISACheck, DebugCheck, Has

\* The same for a board, with the lines of corejack.core that head a target.
LEMMA BoardKept ==
  ASSUME NEW b \in DOMAIN boards, BoardCheck(b),
         b \in DOMAIN boards', boards'[b] = boards[b], files \subseteq files', banners' = banners,
         \A n : \A k \in KeyKinds : Line(k, n) \in Range(corejack) => Line(k, n) \in Range(corejack'),
         \A c \in DOMAIN cores : c \in DOMAIN cores' /\ cores'[c] = cores[c]
  PROVE  BoardCheck(b)'
<1>1. PICK d : d = boards[b] /\ d = boards'[b]
  BY Zenon
<1>2. \A x : x \in files => x \in files'
  BY Zenon
<1>3. BannerCheck'
  BY Zenon DEF BoardCheck, BoardSelfCheck, BannerCheck
<1>4. BoardFilesCheck(b)'
  BY <1>1, <1>2, ZenonT(60) DEF BoardCheck, BoardSelfCheck, BoardFilesCheck
<1>5. BoardTargetsCheck(b)'
  <2>1. \A t : FusesocTargetExists(t) => FusesocTargetExists(t)'
    BY Zenon DEF FusesocTargetExists, KeyKinds
  <2> QED BY <1>1, <2>1, Zenon DEF BoardCheck, BoardSelfCheck, BoardTargetsCheck
<1>6. BoardSelfCheck(b)'
  BY <1>1, <1>3, <1>4, <1>5, ZenonT(60) DEF BoardCheck, BoardSelfCheck, Has, RamCheck, WorkRootCheck
<1>7. \A c \in Range(boards'[b].list) : c \in DOMAIN cores' /\ (cores'[c].list # <<>> => Listed(cores'[c].list, b))
  BY <1>1, Zenon DEF BoardCheck
<1> QED BY <1>6, <1>7, ZenonT(60) DEF BoardCheck

\* What a write of a run changes.
WriteEffect ==
  \/ /\ cores' = cores /\ boards' = boards /\ enum' = enum /\ files \subseteq files' /\ corejack' = corejack
  \/ /\ cores' = cores /\ boards' = boards /\ files' = files /\ corejack' = corejack
     /\ job.name \notin DOMAIN enum /\ enum' = Put(job.name, job.type, enum)
  \/ /\ cores' = cores /\ boards' = boards /\ enum' = enum /\ files' = files
     /\ \/ job.tool = "core" /\ corejack' = WithCore(corejack, job.name)
        \/ job.tool = "board" /\ corejack' = WithBoard(corejack, job.name)
     /\ corejack' # <<>>
  \/ /\ UpdateBoardDescriptor /\ ListCore /\ job.board \in DOMAIN boards
  \/ /\ At("core", "desc") /\ boards' = boards /\ enum' = enum /\ files' = files /\ corejack' = corejack
     /\ cores' = Put(job.name, CoreScaffold(job.name, job.board, job.type), cores)
  \/ /\ At("board", "desc") /\ cores' = cores /\ enum' = enum /\ files' = files /\ corejack' = corejack
     /\ boards' = Put(job.name, BoardScaffold(job.name), boards)

\* Each write does one of these things.
LEMMA WriteEffects == Write => WriteEffect /\ banners' = banners
<1> SUFFICES ASSUME Write PROVE WriteEffect /\ banners' = banners
  BY Zenon
<1>1. ASSUME UpdatePlatformPkg PROVE WriteEffect /\ banners' = banners
  BY <1>1, Zenon DEF UpdatePlatformPkg, WriteEffect
<1>2. ASSUME UpdateCorejackCore PROVE WriteEffect /\ banners' = banners
  BY <1>2, Zenon DEF UpdateCorejackCore, WriteEffect, At
<1>3. ASSUME UpdateBoardDescriptor PROVE WriteEffect /\ banners' = banners
  BY <1>3, Zenon DEF UpdateBoardDescriptor, ListCore, WriteEffect
<1>4. ASSUME WriteCoreFiles PROVE WriteEffect /\ banners' = banners
  BY <1>4, Zenon DEF WriteCoreFiles, WriteEffect, descVars
<1>5. ASSUME UpdateFpgaTarget PROVE WriteEffect /\ banners' = banners
  BY <1>5, Zenon DEF UpdateFpgaTarget, WriteEffect, At
<1>6. ASSUME WriteBoardFiles PROVE WriteEffect /\ banners' = banners
  BY <1>6, Zenon DEF WriteBoardFiles, WriteEffect, descVars
<1> QED BY <1>1, <1>2, <1>3, <1>4, <1>5, <1>6, ZenonT(60) DEF Write

\* The number of a sound core is the one of its descriptor.
LEMMA SoundNumber ==
  ASSUME NEW c, CoreCheck(c)
  PROVE  c \in DOMAIN enum /\ CoreTypeOf(c) = enum[c] /\ CoreTypeAlone(c) /\ ListedBack(c)
<1>1. /\ Has(cores[c].f, CoreRequired) /\ c \in DOMAIN enum /\ enum[c] = cores[c].f.core_type
      /\ CoreTypeAlone(c) /\ ListedBack(c)
  BY Zenon DEF CoreCheck
<1>2. "core_type" \in DOMAIN cores[c].f
  BY <1>1, Zenon DEF Has, CoreRequired
<1> QED BY <1>1, <1>2, ZenonT(60) DEF CoreTypeOf, Scalar

\* A core more listed.
LEMMA StillListed ==
  ASSUME NEW l \in Seq(RepoNames), NEW c, Listed(l, c), NEW n \in RepoNames
  PROVE  Listed(Append(l, n), c)
<1>1. PICK i \in 1..Len(l) : l[i] = c
  BY DEF Listed
<1>2. i \in 1..Len(Append(l, n)) /\ Append(l, n)[i] = c
  BY <1>1, SMTT(30)
<1> QED BY <1>2 DEF Listed

\* No write makes a sound core fail, but the one exception.
LEMMA CoreHarmless ==
  ASSUME HarmInv, WriteEffect, NEW c \in DOMAIN cores, CoreCheck(c),
         ~(At("core", "board") /\ boards[job.board].list = <<>> /\ Listed(cores[c].list, job.board))
  PROVE  CoreCheck(c)'
<1>1. c \in DOMAIN enum /\ CoreTypeOf(c) = enum[c] /\ CoreTypeAlone(c) /\ ListedBack(c)
  BY SoundNumber, Zenon
<1>2. cores' = cores => CoreTypeAlone(c)'
  BY <1>1, Zenon DEF CoreTypeAlone, CoreTypeOf
<1>3. cores'[c] = cores[c] /\ boards' = boards => ListedBack(c)'
  BY <1>1, ZenonT(60) DEF ListedBack
<1>4. CASE cores' = cores /\ boards' = boards /\ enum' = enum /\ files \subseteq files'
  BY <1>1, <1>2, <1>3, <1>4, CoreKept, ZenonT(60)
<1>5. CASE cores' = cores /\ boards' = boards /\ files' = files /\ job.name \notin DOMAIN enum /\ enum' = Put(job.name, job.type, enum)
  <2>1. c \in DOMAIN enum' /\ enum'[c] = enum[c]
    BY <1>1, <1>5, ZenonT(60) DEF Put
  <2>2. c \in DOMAIN cores' /\ cores'[c] = cores[c] /\ files \subseteq files'
    BY ONLY <1>5, c \in DOMAIN cores, Zenon
  <2>3. CoreTypeAlone(c)' /\ ListedBack(c)'
    BY <1>2, <1>3, <1>5, <2>2, Zenon
  <2> HIDE <1>5
  <2> QED BY <2>1, <2>2, <2>3, CoreKept, Zenon
<1>6. CASE UpdateBoardDescriptor /\ ListCore /\ job.board \in DOMAIN boards
  <2> DEFINE d == boards[job.board]
             l == IF Listed(d.list, job.name) THEN d.list ELSE Append(d.list, job.name)
             e == [d EXCEPT !.list = l]
  <2>1. boards' = [boards EXCEPT ![job.board] = e] /\ At("core", "board")
    BY <1>6, Zenon DEF UpdateBoardDescriptor, ListCore
  <2>2. cores' = cores /\ enum' = enum /\ files' = files
    BY <1>6, Zenon DEF UpdateBoardDescriptor, ListCore
  <2>3. /\ boards = [b \in DOMAIN boards |-> boards[b]] /\ d = [f |-> d.f, list |-> d.list]
        /\ d.list \in Seq(RepoNames) /\ job.name \in RepoNames /\ cores[c].list \in Seq(RepoNames)
    BY <1>6, <2>1, ZenonT(60) DEF HarmInv, DescInv, IsTable, IsDesc, At, RepoNames
  <2>4. Listed(d.list, c) => Listed(l, c)
    BY <2>3, StillListed, ZenonT(60)
  <2>5. PICK m : m = l
    BY Zenon
  <2>6. PICK g : g = d
    BY Zenon
  <2>7. e.list = m
    <3>1. g = [f |-> g.f, list |-> g.list]
      BY <2>3, <2>6, SMTT(30)
    <3>2. [g EXCEPT !.list = m].list = m
      BY ONLY <3>1, ZenonT(60)
    <3> HIDE DEF d, l
    <3> QED BY <2>5, <2>6, <3>2, ZenonT(60)
  <2> HIDE DEF e, l
  <2>8. /\ DOMAIN boards' = DOMAIN boards /\ boards'[job.board] = e
        /\ \A b \in DOMAIN boards : b # job.board => boards'[b] = boards[b]
    BY <1>6, <2>1, <2>3, SMTT(30)
  <2>9. ASSUME NEW b \in Range(cores[c].list)
        PROVE  b \in DOMAIN boards' /\ (boards'[b].list # <<>> => Listed(boards'[b].list, c))
    <3>1. b \in DOMAIN boards /\ (boards[b].list # <<>> => Listed(boards[b].list, c))
      BY <1>1, Zenon DEF ListedBack
    <3>2. CASE b # job.board
      BY <2>8, <3>1, <3>2, ZenonT(60)
    <3>3. CASE b = job.board
      <4>1. Listed(cores[c].list, job.board)
        BY <2>3, <3>3, ListFacts, SMTT(30)
      <4>2. Listed(d.list, c)
        BY <2>1, <3>1, <3>3, <4>1, ZenonT(60)
      <4>3. boards'[b].list = m
        BY <2>7, <2>8, <3>3, ZenonT(60)
      <4>4. Listed(m, c)
        BY <2>4, <2>5, <4>2, ZenonT(60)
      <4> QED BY <2>8, <3>1, <4>3, <4>4, ZenonT(60)
    <3> QED BY <3>2, <3>3, SMTT(30)
  <2>10. ListedBack(c)'
    BY <2>2, <2>9, ZenonT(60) DEF ListedBack
  <2> QED BY <1>1, <1>2, <2>2, <2>10, CoreKept, ZenonT(60)
<1>7. CASE /\ At("core", "desc") /\ boards' = boards /\ enum' = enum /\ files' = files
           /\ cores' = Put(job.name, CoreScaffold(job.name, job.board, job.type), cores)
  <2>1. job.name \notin DOMAIN cores /\ job.type \in Nat /\ \A x \in DOMAIN enum : x # job.name => enum[x] < job.type
    BY <1>7, Zenon DEF HarmInv, At
  <2>2. /\ DOMAIN cores' = {job.name} \union DOMAIN cores /\ c \in DOMAIN cores'
        /\ \A x \in DOMAIN cores : cores'[x] = cores[x]
        /\ cores'[job.name] = CoreScaffold(job.name, job.board, job.type)
    BY <1>7, <2>1, ZenonT(60) DEF Put
  <2>3. /\ "core_type" \in DOMAIN CoreScaffold(job.name, job.board, job.type).f
        /\ CoreScaffold(job.name, job.board, job.type).f.core_type = job.type
    BY Zenon DEF CoreScaffold
  <2>a. PICK n : n = job.name
    BY Zenon
  <2>4. CoreTypeOf(n)' = job.type
    BY <2>2, <2>3, <2>a, ZenonT(60) DEF CoreTypeOf, Scalar
  <2>5. \A x \in DOMAIN cores : CoreTypeOf(x)' = CoreTypeOf(x)
    BY <2>2, Zenon DEF CoreTypeOf
  <2>6. enum[c] \in Nat /\ enum[c] < job.type
    BY <1>1, <2>1, ZenonT(60) DEF HarmInv
  <2>7. job.type # -1 /\ job.type # CoreTypeOf(c)
    BY <1>1, <2>1, <2>6, SMTT(30)
  <2>8. \A x \in DOMAIN cores' : CoreTypeOf(x)' # -1 /\ (x # c => CoreTypeOf(x)' # CoreTypeOf(c)')
    <3>1. \A x \in DOMAIN cores : CoreTypeOf(x) # -1 /\ (x # c => CoreTypeOf(x) # CoreTypeOf(c))
      BY <1>1, ZenonT(60) DEF CoreTypeAlone
    <3>2. CoreTypeOf(c)' = CoreTypeOf(c)
      BY <2>5, ZenonT(60)
    <3>3. CoreTypeOf(n)' # -1 /\ CoreTypeOf(n)' # CoreTypeOf(c)'
      BY <2>4, <2>7, <3>2, ZenonT(60)
    <3>4. \A x \in DOMAIN cores' : x = n \/ x \in DOMAIN cores
      BY <2>2, <2>a, ZenonT(60)
    <3> QED BY <2>5, <3>1, <3>2, <3>3, <3>4, ZenonT(60)
  <2>9. CoreTypeAlone(c)'
    BY <2>8, ZenonT(60) DEF CoreTypeAlone, CoreTypeOf
  <2> QED BY <1>1, <1>3, <1>7, <2>2, <2>9, CoreKept, ZenonT(60)
<1>8. CASE /\ At("board", "desc") /\ cores' = cores /\ enum' = enum /\ files' = files
           /\ boards' = Put(job.name, BoardScaffold(job.name), boards)
  <2>1. job.name \notin DOMAIN boards
    BY <1>8, Zenon DEF HarmInv, At
  <2>2. \A b \in DOMAIN boards : b \in DOMAIN boards' /\ boards'[b] = boards[b]
    BY <1>8, <2>1, ZenonT(60) DEF Put
  <2>3. ListedBack(c)'
    BY <1>1, <1>8, <2>2, ZenonT(60) DEF ListedBack
  <2> QED BY <1>1, <1>2, <1>8, <2>3, CoreKept, ZenonT(60)
<1> QED BY <1>4, <1>5, <1>6, <1>7, <1>8, SMTT(30) DEF WriteEffect

\* No write makes a sound board fail, but the one that lists the new core.
LEMMA BoardHarmless ==
  ASSUME HarmInv, WriteEffect, banners' = banners, NEW b \in DOMAIN boards, BoardCheck(b),
         ~(At("core", "board") /\ b = job.board)
  PROVE  BoardCheck(b)'
<1>1. corejack \in Seq(LineType)
  BY Zenon DEF HarmInv
<1>2. CASE /\ cores' = cores /\ boards' = boards /\ files \subseteq files' /\ corejack' = corejack
  BY <1>2, BoardKept, ZenonT(60)
<1>3. CASE /\ cores' = cores /\ boards' = boards /\ enum' = enum /\ files' = files
           /\ \/ job.tool = "core" /\ corejack' = WithCore(corejack, job.name)
              \/ job.tool = "board" /\ corejack' = WithBoard(corejack, job.name)
           /\ corejack' # <<>>
  <2>1. \A n : \A k \in KeyKinds : Line(k, n) \in Range(corejack) => Line(k, n) \in Range(corejack')
    <3>1. CASE job.tool = "core" /\ corejack' = WithCore(corejack, job.name)
      <4>1. job.name \in RepoNames
        BY <3>1, Zenon DEF HarmInv, DescInv, RepoNames
      <4>2. Range(corejack) \subseteq Range(corejack')
        BY <1>1, <1>3, <3>1, <4>1, WithCoreKeeps, ZenonT(60)
      <4> QED BY <4>2, ZenonT(60)
    <3>2. CASE job.tool = "board" /\ corejack' = WithBoard(corejack, job.name)
      <4>1. job.name \in RepoNames
        BY <3>2, Zenon DEF HarmInv, DescInv, RepoNames
      <4> QED BY <1>1, <1>3, <3>2, <4>1, WithBoardKeeps, ZenonT(60)
    <3> QED BY <1>3, <3>1, <3>2, ZenonT(60)
  <2> QED BY <1>3, <2>1, BoardKept, ZenonT(60)
<1>4. CASE UpdateBoardDescriptor /\ ListCore /\ job.board \in DOMAIN boards
  <2>1. At("core", "board") /\ cores' = cores /\ files' = files /\ corejack' = corejack
    BY <1>4, Zenon DEF UpdateBoardDescriptor, ListCore
  <2>2. \E e : boards' = [boards EXCEPT ![job.board] = e]
    BY <1>4, Zenon DEF UpdateBoardDescriptor, ListCore
  <2>3. b # job.board /\ boards = [x \in DOMAIN boards |-> boards[x]]
    BY <2>1, Zenon DEF HarmInv, DescInv, IsTable
  <2>4. b \in DOMAIN boards' /\ boards'[b] = boards[b]
    BY <2>2, <2>3, ZenonT(60)
  <2> QED BY <2>1, <2>4, BoardKept, ZenonT(60)
<1>5. CASE /\ At("core", "desc") /\ boards' = boards /\ enum' = enum /\ files' = files /\ corejack' = corejack
           /\ cores' = Put(job.name, CoreScaffold(job.name, job.board, job.type), cores)
  <2>1. job.name \notin DOMAIN cores
    BY <1>5, Zenon DEF HarmInv, At
  <2>2. \A c \in DOMAIN cores : c \in DOMAIN cores' /\ cores'[c] = cores[c]
    BY <1>5, <2>1, Zenon DEF Put
  <2> QED BY <1>5, <2>2, BoardKept, ZenonT(60)
<1>6. CASE /\ At("board", "desc") /\ cores' = cores /\ enum' = enum /\ files' = files /\ corejack' = corejack
           /\ boards' = Put(job.name, BoardScaffold(job.name), boards)
  <2>1. job.name \notin DOMAIN boards
    BY <1>6, Zenon DEF HarmInv, At
  <2>2. b \in DOMAIN boards' /\ boards'[b] = boards[b]
    BY <1>6, <2>1, ZenonT(60) DEF Put
  <2> QED BY <1>6, <2>2, BoardKept, ZenonT(60)
<1> QED BY <1>2, <1>3, <1>4, <1>5, <1>6, ZenonT(60) DEF WriteEffect

\* create_core.py, create_board.py, bump_version.py, for any names, versions, edits and
\* cuts: no write of a run makes a sound core or board fail, but the two exceptions.
THEOREM AlwaysHarmless == RepoSpec => Harmless
<1>1. RepoSpec => []HarmInv
  BY HarmInitInv, HarmNextInv, PTL DEF RepoSpec
<1>2. ASSUME HarmInv, RepoNext, job # NoJob PROVE WriteEffect /\ banners' = banners
  <2>1. Write \/ Rewrite \/ Kill
    BY <1>2, ZenonT(60) DEF RepoNext, StartCore, StartBoard, StartBump, Start, RenderMatrix, Edit
  <2>2. ASSUME UNCHANGED descVars PROVE WriteEffect /\ banners' = banners
    BY <2>2, Zenon DEF descVars, WriteEffect
  <2> QED BY <2>1, <2>2, WriteEffects, ZenonT(60) DEF Rewrite, Kill
<1>3. HarmInv /\ [RepoNext]_repoVars
        => [job # NoJob =>
             /\ \A c \in DOMAIN cores : CoreCheck(c) /\ ~CoreCheck(c)' =>
                  At("core", "board") /\ boards[job.board].list = <<>> /\ Listed(cores[c].list, job.board)
             /\ \A b \in DOMAIN boards :
                  BoardCheck(b) /\ ~BoardCheck(b)' => At("core", "board") /\ b = job.board]_repoVars
  <2> SUFFICES ASSUME HarmInv, RepoNext, job # NoJob
               PROVE  /\ \A c \in DOMAIN cores : CoreCheck(c) /\ ~CoreCheck(c)' =>
                           At("core", "board") /\ boards[job.board].list = <<>> /\ Listed(cores[c].list, job.board)
                      /\ \A b \in DOMAIN boards :
                           BoardCheck(b) /\ ~BoardCheck(b)' => At("core", "board") /\ b = job.board
    BY Zenon
  <2>1. WriteEffect /\ banners' = banners
    BY <1>2, Zenon
  <2>2. ASSUME NEW c \in DOMAIN cores, CoreCheck(c), ~CoreCheck(c)'
        PROVE  At("core", "board") /\ boards[job.board].list = <<>> /\ Listed(cores[c].list, job.board)
    BY <2>1, <2>2, CoreHarmless, ZenonT(60)
  <2>3. ASSUME NEW b \in DOMAIN boards, BoardCheck(b), ~BoardCheck(b)'
        PROVE  At("core", "board") /\ b = job.board
    BY <2>1, <2>3, BoardHarmless, ZenonT(60)
  <2> QED BY <2>2, <2>3, ZenonT(60)
<1> QED BY <1>1, <1>3, PTL DEF RepoSpec, Harmless
=============================================================================
