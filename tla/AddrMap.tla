------------------------------ MODULE AddrMap ------------------------------
(***************************************************************************)
(* bin/check_axi_addr_map.py: resolves the parameters soc_top declares,    *)
(* pass after pass over the ones still pending, and accepts the crossbar's *)
(* address map when its windows are well formed and do not overlap.        *)
(***************************************************************************)
EXTENDS Integers, Sequences

CONSTANTS
  Names,           \* parameter names
  NoName,          \* marks a literal operand
  Decls,           \* the declarations a soc_top may have, in textual order
  Maps,            \* the rule lists a soc_top may have
  AddrTop          \* end of the address space

Operand == [sym : Names \union {NoName}, lit : Nat]

\* OPS.  Its fourth operator, //, starts a comment in SystemVerilog.
Ops == {"+", "-", "*"}

\* ASSIGN_RE: a name and its expression, which may use / as well.
Declaration == [name : Names, op : Ops \union {"/"}, l : Operand, r : Operand]

\* RULE_RE: target index, and the names of the base and of the size.
Rule == [idx : Nat, base : Names, size : Names]

\* No name is declared twice.
ASSUME AddrMapAssumption ==
  /\ NoName \notin Names
  /\ AddrTop \in Nat
  /\ Maps \subseteq Seq(Rule)
  /\ Decls \subseteq Seq(Declaration)
  /\ \A d \in Decls : \A i, j \in 1..Len(d) : d[i].name = d[j].name => i = j

VARIABLES
  decls, rules,    \* what the file holds
  values,          \* name -> value, for the names resolved so far
  pending,         \* indices of the declarations of this pass, in order
  next_pending,    \* those put off to the next pass
  progress,        \* this pass resolved something
  verdict          \* "" while running

mapVars == <<decls, rules, values, pending, next_pending, progress, verdict>>

MapInit ==
  /\ decls \in Decls
  /\ rules \in Maps
  /\ values = [n \in {} |-> 0]
  /\ pending = [i \in 1..Len(decls) |-> i]
  /\ next_pending = <<>>
  /\ progress = FALSE
  /\ verdict = ""

\* eval_expr raises on a name that has no value and on an operator it does not know.
Known(o) == o.sym = NoName \/ o.sym \in DOMAIN values

Evaluable(d) == d.op \in Ops /\ Known(d.l) /\ Known(d.r)

Value(o, v) == IF o.sym = NoName THEN o.lit ELSE v[o.sym]

Eval(d, v) ==
  LET x == Value(d.l, v)
      y == Value(d.r, v)
  IN IF d.op = "+" THEN x + y ELSE IF d.op = "-" THEN x - y ELSE x * y

\* One turn of the loop over pending.
Resolve ==
  /\ verdict = "" /\ pending # <<>>
  /\ LET d == decls[Head(pending)] IN
       IF Evaluable(d)
       THEN /\ values' = [n \in DOMAIN values \union {d.name} |->
                            IF n = d.name THEN Eval(d, values) ELSE values[n]]
            /\ progress' = TRUE
            /\ UNCHANGED next_pending
       ELSE /\ next_pending' = Append(next_pending, Head(pending))
            /\ UNCHANGED <<values, progress>>
  /\ pending' = Tail(pending)
  /\ UNCHANGED <<decls, rules, verdict>>

\* The end of a pass that resolved something and left something.
NextPass ==
  /\ verdict = "" /\ pending = <<>> /\ next_pending # <<>> /\ progress
  /\ pending' = next_pending
  /\ next_pending' = <<>>
  /\ progress' = FALSE
  /\ UNCHANGED <<decls, rules, values, verdict>>

-----------------------------------------------------------------------------
StartOf(i) == values[rules[i].base]

EndOf(i) == values[rules[i].base] + values[rules[i].size]

Resolved(i) == rules[i].base \in DOMAIN values /\ rules[i].size \in DOMAIN values

WellFormed(i) == Resolved(i) /\ values[rules[i].size] > 0 /\ EndOf(i) <= AddrTop

\* sorted: by start, rules that start together in their textual order.
Sorted(i, j) == StartOf(i) < StartOf(j) \/ (StartOf(i) = StartOf(j) /\ i < j)

\* Neighbours in the order of the text.
NeighboursUnsorted(i, j) == j = i + 1

\* zip(sorted_windows, sorted_windows[1:])
Neighbours(i, j) ==
  Sorted(i, j) /\ ~ \E k \in 1..Len(rules) : Sorted(i, k) /\ Sorted(k, j)

Accepts ==
  /\ rules # <<>>
  /\ \A i \in 1..Len(rules) : WellFormed(i)
  /\ \A i, j \in 1..Len(rules) : i # j => rules[i].idx # rules[j].idx
  /\ \A i, j \in 1..Len(rules) : Neighbours(i, j) => EndOf(i) <= StartOf(j)

\* A single pass over the declarations.
CheckOnePass ==
  /\ verdict = "" /\ pending = <<>>
  /\ verdict' = IF Accepts THEN "passed" ELSE "error"
  /\ UNCHANGED <<decls, rules, values, pending, next_pending, progress>>

\* main, once no pass can resolve more.
Check ==
  /\ verdict = "" /\ pending = <<>> /\ (next_pending = <<>> \/ ~progress)
  /\ verdict' = IF Accepts THEN "passed" ELSE "error"
  /\ UNCHANGED <<decls, rules, values, pending, next_pending, progress>>

MapNext == Resolve \/ NextPass \/ Check

MapSpec == MapInit /\ [][MapNext]_mapVars /\ WF_mapVars(MapNext)

-----------------------------------------------------------------------------
Window(i) == StartOf(i)..(EndOf(i) - 1)

Sound ==
  /\ rules # <<>>
  /\ \A i \in 1..Len(rules) : WellFormed(i)
  /\ \A i, j \in 1..Len(rules) :
       i # j => rules[i].idx # rules[j].idx /\ Window(i) \intersect Window(j) = {}

\* check_axi_addr_map.py main: the map is accepted exactly when every window is
\* resolved, non-empty and ends inside the address space, no two rules have one
\* target, and no address lies in two windows: comparing neighbours in the sorted
\* order is enough, for a start below zero as well.
VerdictExact == verdict # "" => (verdict = "passed" <=> Sound)

\* parse_soc_top: when the passes stop, every resolved name has the value its
\* expression has under the values of all, and a name is left unresolved only
\* because its expression uses one that is, or an operator OPS does not have.
FixpointReached ==
  \A i \in 1..Len(decls) :
    /\ decls[i].name \in DOMAIN values =>
         Evaluable(decls[i]) /\ values[decls[i].name] = Eval(decls[i], values)
    /\ verdict # "" /\ decls[i].name \notin DOMAIN values => ~Evaluable(decls[i])

\* parse_soc_top: the passes come to an end.
PassesEnd == <>(verdict # "")
=============================================================================
