------------------------------ MODULE MCTools -------------------------------
(***************************************************************************)
(* One of the repository's tools at work: the ones that rewrite the        *)
(* repository, deps_core.py, check_axi_addr_map.py or the YAML code on its *)
(* own.  tool says which; the others rest.                                 *)
(***************************************************************************)
EXTENDS RepoTools, DepsCore, AddrMap

CONSTANTS Texts, Items, ListKey, Paths, MaxUpdates, a, b

VARIABLES tool, text, failed, updates

Yaml == INSTANCE YamlLines

yamlVars == <<text, failed, updates>>

toolVars == <<tool, repoVars, depsVars, mapVars, yamlVars>>

\* One edit for every condition of core-check on a value.
MCCoreEdits ==
  {[name |-> "x"], [sim |-> "maybe"], [sim |-> "unsupported"], [fpga |-> "planned"],
   [debug |-> "planned"], [debug |-> "unsupported"], [debug_supported |-> "false"],
   [debug_supported |-> "no"], [hart_count |-> 0], [halt_addr |-> -1], [adapter |-> "x"],
   [core_type |-> -1], [core_type |-> 7], [core_type |-> 8], [xlen |-> 64], [xlen |-> 16],
   [march |-> 64], [mtvec_addr |-> 2], [ibus |-> "x"],
   [integration |-> "native_axi"], [integration |-> "x"], [max_hz |-> 1],
   [default_target |-> "x"], [core_flag |-> "?"], [toolchain |-> "x"], [zephyr |-> "x"]}

\* Names that begin with another one.
MCSpelling ==
  [n \in {"ibex", "cvw", "axku5", "region", "core", "n1", "n2", "nb"} |->
     CASE n = "n1" -> <<"ibex", "_", "2">> [] n = "n2" -> <<"2">> [] n = "nb" -> <<"axku5", "_", "ibex">>
       [] OTHER -> <<n>>]

TwoFields(one, between, two) == Template(<<"corejack_">>, one, <<between>>, two, <<>>)

\* The same for board-check: 64 bytes are the granule of eight banks.
MCBoardEdits ==
  {[top_template |-> TwoFields("board", "_", "core")], [top_template |-> TwoFields("soc", "", NoField)],
   [target |-> TwoFields("core", "", NoField)], [target |-> Plain("x")], [target |-> Plain("rtl")],
   [work_root |-> TwoFields("board", "", NoField)], [work_root |-> TwoFields("board", "_", "core")],
   [work_root |-> TwoFields("core", "_", "board")], [work_root |-> TwoFields("board", "{core}", NoField)],
   [work_root |-> TwoFields("board", "{core}", "")], [board_flag |-> "?"],
   [soc_hz |-> 0], [ram_bytes |-> 128], [ram_bytes |-> 72], [ram_bytes |-> -1], [polarity |-> "x"],
   [transport |-> "x"], [flow |-> "x"], [jtag_adapter |-> "x"], [xdc |-> "x"],
   [bitstream_target |-> "x"]}

\* Scalars that only the check, the settings or the matrix needs, or several of them.
MCDeletable == {"name", "display_name", "march", "core_type", "zephyr", "soc_hz", "xdc"}

MCFirmwares ==
  {[Banners EXCEPT !.zephyr.banner = <<>>], [Banners EXCEPT !.baremetal.banner[1] = {"soc"}],
   [Banners EXCEPT !.baremetal.banner[1] = {"", "core"}], [Banners EXCEPT !.zephyr.alive["debug"] = {"soc"}],
   [Banners EXCEPT !.zephyr.alive = [v \in {"debug"} |-> {}]],
   [Banners EXCEPT !.baremetal.alive = [v \in {"sim", "debug"} |-> {}]]}

-----------------------------------------------------------------------------
\* Two upstreams with a revision in common.
MCServes == [u \in Upstreams |-> IF u = "u1" THEN {"r1", "r2"} ELSE {"r2", "r3"}]

-----------------------------------------------------------------------------
Lit(n) == [sym |-> NoName, lit |-> n]
Sym(n) == [sym |-> n, lit |-> 0]
Declare(n, l, r) == [name |-> n, op |-> "+", l |-> l, r |-> r]

Nums == {Lit(n) : n \in {0, 2, 3}}

\* a and b are numbers, or sums on one another and on themselves, in either order,
\* or products, differences and quotients.
MCDecls ==
  {<<Declare(a, x, y), Declare(b, u, v)>> :
     x, u \in Nums \union {Sym(a), Sym(b)}, y, v \in {Lit(1), Sym(b)}}
  \union {<<Declare(b, u, Sym(a)), [Declare(a, x, y) EXCEPT !.op = o]>> :
            x, y, u \in Nums, o \in {"*", "-", "/"}}

MCRules == {[idx |-> i, base |-> x, size |-> y] : i \in {0, 1}, x \in Names, y \in Names}

FirstRules == {r \in MCRules : r.idx = 0}

\* Up to three rules.
MCMaps ==
  {<<>>} \union {<<r>> : r \in FirstRules} \union {<<r, s>> : r \in FirstRules, s \in MCRules}
  \union {<<r, s, [r EXCEPT !.idx = 2, !.base = s.size]>> : r \in FirstRules, s \in MCRules}

-----------------------------------------------------------------------------
\* A line as YamlLines has it.
TextLine(k, n, name) == [kind |-> k, indent |-> n, name |-> name, inline |-> <<>>, open |-> TRUE]

Inline(n, key, l) == [TextLine("key", n, key) EXCEPT !.inline = l, !.open = FALSE]

MCLines ==
  {TextLine("key", n, k) : n \in {0, 2}, k \in {"list", "other"}}
  \union {Inline(0, "list", <<"a">>), TextLine("blank", 0, ""), TextLine("comment", 0, ""),
          TextLine("item", 0, "a"), TextLine("item", 2, "a"), TextLine("item", 2, "c")}

MaxLines == 4

ListAt(l) == l.kind = "key" /\ l.name = "list"

\* Every text of up to MaxLines lines that has the key of the list at most once.
MCTexts ==
  {t \in UNION {[1..n -> MCLines] : n \in 0..MaxLines} :
     \A i, j \in DOMAIN t : ListAt(t[i]) /\ ListAt(t[j]) => i = j}

MCPaths == {<<"other">>, <<"list">>, <<"list", "other">>, <<"other", "other">>}

-----------------------------------------------------------------------------
DepsAtRest == pin = (CHOOSE p \in Pins : TRUE) /\ dir = NoDir

MapAtRest == decls = (CHOOSE d \in Decls : TRUE) /\ rules = <<>>

YamlAtRest == text = <<>>

ToolsInit ==
  /\ RepoInit
  /\ \/ tool = "repo" /\ DepsAtRest /\ MapAtRest /\ YamlAtRest
     \/ tool = "deps" /\ MapAtRest /\ YamlAtRest
     \/ tool = "map" /\ DepsAtRest /\ YamlAtRest
     \/ tool = "yaml" /\ DepsAtRest /\ MapAtRest
  /\ DepsInit /\ MapInit /\ Yaml!YamlInit

RepoOnly == tool = "repo" /\ UNCHANGED <<tool, depsVars, mapVars, yamlVars>>

DepsOnly == tool = "deps" /\ UNCHANGED <<tool, repoVars, mapVars, yamlVars>>

MapOnly == tool = "map" /\ UNCHANGED <<tool, repoVars, depsVars, yamlVars>>

YamlOnly == tool = "yaml" /\ UNCHANGED <<tool, repoVars, depsVars, mapVars>>

ToolsNext ==
  \/ RepoOnly /\ RepoNext
  \/ DepsOnly /\ DepsNext
  \/ MapOnly /\ MapNext
  \/ YamlOnly /\ Yaml!YamlNext

\* The fairness of DepsCore and AddrMap.
ToolsSpec ==
  /\ ToolsInit /\ [][ToolsNext]_toolVars
  /\ WF_toolVars(DepsOnly /\ (Command \/ FetchFails)) /\ SF_toolVars(DepsOnly /\ FetchOK)
  /\ WF_toolVars(MapOnly /\ MapNext)

-----------------------------------------------------------------------------
\* deps_core.py, check_axi_addr_map.py: the passes over the parameters come to an
\* end, and a checkout that is run again and again succeeds again and again, as
\* long as the directory it finds has the remote of the pin.
ToolsEnd == (tool = "map" => PassesEnd) /\ (tool = "deps" => RerunSucceeds)

\* create_core.py's list update against the readers of validate_target.py: what it
\* wrote is read back, and everything else as before.
ReadBack == [][tool = "yaml" => Yaml!ReadsBack]_toolVars
=============================================================================
