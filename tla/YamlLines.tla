----------------------------- MODULE YamlLines -----------------------------
(***************************************************************************)
(* The line-based YAML code of bin/validate_target.py, which reads fields  *)
(* and lists of a descriptor, and of bin/create_core.py, which adds an     *)
(* item to a list in place.  No YAML library is involved: the readers and  *)
(* the writer each walk the lines with their own idea of where a list ends.*)
(***************************************************************************)
EXTENDS Integers, Sequences, SequencesExt

CONSTANTS
  Texts,           \* descriptors, as sequences of lines
  Items,           \* items that can be added
  ListKey,         \* the list they are added to
  Paths,           \* key paths that are read
  MaxUpdates       \* bound on the updates of one text

VARIABLES
  text,
  failed,          \* the last update found no list
  updates          \* counted for the bound

yamlVars == <<text, failed, updates>>

\* A line has a kind, "key", "item", "comment" or "blank", an indentation, the name
\* of the key or of the item, and the items after the colon; open says that nothing
\* follows the colon.
Line(kind, n, name) == [kind |-> kind, indent |-> n, name |-> name, inline |-> <<>>, open |-> TRUE]

IsKey(l, key) == l.kind = "key" /\ l.name = key

IsOpenKey(l, key) == IsKey(l, key) /\ l.open

-----------------------------------------------------------------------------
\* current_path after a key line: entries as deep or deeper are popped.
Pushed(stack, l) == Append(SelectSeq(stack, LAMBDA e : e.indent < l.indent), l)

\* The keys of current_path after line i.
PathAt(t, i) ==
  LET keys == SelectSeq(SubSeq(t, 1, i), LAMBDA l : l.kind = "key")
      stack == FoldLeft(Pushed, <<>>, keys)
  IN  [j \in 1..Len(stack) |-> stack[j].name]

\* yaml_path_scalar: the line of the first key with this path, 0 if there is none.
ScalarLine(t, path) ==
  LET at == {i \in 1..Len(t) : t[i].kind = "key" /\ PathAt(t, i) = path}
  IN  IF at = {} THEN 0 ELSE Min(at)

Skipped(l) == l.kind \in {"blank", "comment"}

\* yaml_path_list: the items that follow the key of the path directly, deeper than it.
PathList(text0, path) ==
  LET t == SelectSeq(text0, LAMBDA l : ~Skipped(l))
      k == ScalarLine(t, path)
      ends == {n \in k+1..Len(t) : t[n].kind # "item" \/ t[n].indent <= t[k].indent}
      last == Min({Len(t) + 1} \union ends) - 1
  IN  IF k = 0 THEN <<>> ELSE [i \in 1..last - k |-> t[k + i].name]

\* One line of yaml_top_list: an inline list ends it, so does a line that is not
\* deeper than the key; the key found again starts over with its own indentation.
TopListStep(key, s, l) ==
  IF s.done \/ Skipped(l) THEN s
  ELSE IF IsOpenKey(l, key) THEN [s EXCEPT !.in_list = TRUE, !.base = l.indent]
  ELSE IF IsKey(l, key) THEN [s EXCEPT !.values = @ \o l.inline, !.done = TRUE]
  ELSE IF ~s.in_list THEN s
  ELSE IF l.indent <= s.base THEN [s EXCEPT !.done = TRUE]
  ELSE IF l.kind = "item" THEN [s EXCEPT !.values = Append(@, l.name)]
  ELSE s

TopList(t, key) ==
  FoldLeft(LAMBDA s, l : TopListStep(key, s, l),
           [in_list |-> FALSE, base |-> 0, values |-> <<>>, done |-> FALSE], t).values

-----------------------------------------------------------------------------
\* One line of yaml_top_list_contains, which skips no comment.
ContainsStep(key, item, s, l) ==
  IF s.done THEN s
  ELSE IF IsOpenKey(l, key) THEN [s EXCEPT !.in_list = TRUE, !.base = l.indent]
  ELSE IF ~s.in_list THEN s
  ELSE IF l.kind # "blank" /\ l.indent <= s.base THEN [s EXCEPT !.done = TRUE]
  ELSE IF l.kind = "item" /\ l.name = item THEN [s EXCEPT !.found = TRUE, !.done = TRUE]
  ELSE s

TopListContains(t, key, item) ==
  FoldLeft(LAMBDA s, l : ContainsStep(key, item, s, l),
           [in_list |-> FALSE, base |-> 0, found |-> FALSE, done |-> FALSE], t).found

\* The item as far to the left as its key.
AppendStepUnindented(key, item, s, l) ==
  IF ~s.inserted /\ IsOpenKey(l, key)
  THEN [s EXCEPT !.in_list = TRUE, !.base = l.indent, !.out = Append(@, l)]
  ELSE IF s.in_list /\ (l.kind = "blank" \/ l.indent <= s.base)
  THEN [s EXCEPT !.in_list = FALSE, !.inserted = TRUE,
                 !.out = @ \o <<Line("item", s.base, item), l>>]
  ELSE [s EXCEPT !.out = Append(@, l)]

\* One line of append_yaml_top_list_item: the item goes before the first line that
\* is blank or not deeper than the key.
AppendStep(key, item, s, l) ==
  IF ~s.inserted /\ IsOpenKey(l, key)
  THEN [s EXCEPT !.in_list = TRUE, !.base = l.indent, !.out = Append(@, l)]
  ELSE IF s.in_list /\ (l.kind = "blank" \/ l.indent <= s.base)
  THEN [s EXCEPT !.in_list = FALSE, !.inserted = TRUE,
                 !.out = @ \o <<Line("item", s.base + 2, item), l>>]
  ELSE [s EXCEPT !.out = Append(@, l)]

\* The text after the item is added, or at its end when the list is the last thing
\* in it; inserted stays FALSE when there is no list.
Appended(t, key, item) ==
  LET s == FoldLeft(LAMBDA r, l : AppendStep(key, item, r, l),
                    [in_list |-> FALSE, base |-> 0, inserted |-> FALSE, out |-> <<>>], t)
  IN  IF ~s.in_list THEN s
      ELSE [s EXCEPT !.inserted = TRUE, !.out = Append(@, Line("item", s.base + 2, item))]

-----------------------------------------------------------------------------
YamlInit == text \in Texts /\ failed = FALSE /\ updates = 0

\* append_yaml_top_list_item, as update_board_descriptor calls it.
AppendItem(item) ==
  /\ updates < MaxUpdates
  /\ updates' = updates + 1
  /\ IF TopListContains(text, ListKey, item) THEN failed' = FALSE /\ UNCHANGED text
     ELSE LET s == Appended(text, ListKey, item)
          IN  failed' = ~s.inserted /\ text' = IF s.inserted THEN s.out ELSE text

YamlNext == \E item \in Items : AppendItem(item)

YamlSpec == YamlInit /\ [][YamlNext]_yamlVars

-----------------------------------------------------------------------------
\* append_yaml_top_list_item against yaml_top_list, yaml_path_scalar and
\* yaml_path_list: an update that does not fail leaves a text in which the list has
\* its old entries and the new one, a second update with it changes nothing, and
\* every field, and every list outside the one updated, is read as before.
ReadsBack ==
  \A item \in Items :
    AppendItem(item) /\ ~failed' =>
      /\ ToSet(TopList(text', ListKey)) = ToSet(TopList(text, ListKey)) \union {item}
      /\ TopListContains(text', ListKey, item)
      /\ \A p \in Paths :
           LET old == ScalarLine(text, p)
               new == ScalarLine(text', p)
           IN  /\ old = 0 <=> new = 0
               /\ old # 0 => text[old] = text'[new]
               /\ ListKey \notin ToSet(p) => PathList(text, p) = PathList(text', p)
=============================================================================
