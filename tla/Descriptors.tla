---------------------------- MODULE Descriptors -----------------------------
(***************************************************************************)
(* What bin/validate_target.py and bin/render_support_matrix.py say of a   *)
(* repository: whether the descriptors of a core and a board are sound,    *)
(* whether a flow may use the pair, which settings Make gets for it, and   *)
(* what the support matrix says of it.                                     *)
(*                                                                         *)
(* A descriptor is the record of the scalars present in it (a field that   *)
(* is missing from the file is missing from the record) and its list of    *)
(* boards or cores.  YamlLines has the reading of such a file.  A file or  *)
(* module is named after what it belongs to; a number that does not parse  *)
(* is -1, a word with unsupported characters is "?".  Text put together    *)
(* from a template is a sequence of pieces, and so is a name in it.        *)
(***************************************************************************)
EXTENDS Integers, Sequences, FiniteSets, Functions

CONSTANTS
  NumBanks,        \* mem_ss_pkg::MemNumBanksDefault
  MakeTargets,     \* targets of the Makefile and of mk/*.mk
  Spelling         \* name of a core, a board or a fileset -> its text

\* Two names are two texts.
ASSUME SpellingAssumption ==
  /\ \A n \in DOMAIN Spelling : Spelling[n] \in Seq(STRING)
  /\ \A m, n \in DOMAIN Spelling : Spelling[m] = Spelling[n] => m = n

VARIABLES
  cores,           \* cfg/cores: name -> descriptor
  boards,          \* cfg/boards: name -> descriptor
  enum,            \* platform_pkg::core_type_e: core -> value
  files,           \* adapters, wrappers, constraints and OpenOCD files
  corejack,        \* corejack.core: its lines, the ones that matter
  banners          \* cfg/validation/uart_banners.yaml

descVars == <<cores, boards, enum, files, corejack, banners>>

Flows == {"sim", "fpga", "debug"}

Statuses == {"supported", "planned", "unsupported"}

Buses == {"obi", "axi", "ahb_lite", "serv_wishbone_minimal", "picorv32_native"}

Integrations == {"socket_region", "native_axi"}

\* A line of corejack.core: what it is and the names it is about.
Line(k, n) == [k |-> k, of |-> {n}]

Has(f, fields) == fields \subseteq DOMAIN f

Scalar(f, field, default) == IF field \in DOMAIN f THEN f[field] ELSE default

Listed(s, x) == \E i \in DOMAIN s : s[i] = x

-----------------------------------------------------------------------------
\* Templates such as fpga.top_template: text with up to two fields in braces.  A
\* pair of braces with nothing in it is the field "".
NoField == "none"

Template(pre, one, mid, two, post) == [pre |-> pre, one |-> one, mid |-> mid, two |-> two, post |-> post]

Plain(word) == Template(<<word>>, NoField, <<>>, NoField, <<>>)

Templates == [pre : Seq(STRING), one : STRING, mid : Seq(STRING), two : STRING, post : Seq(STRING)]

Fields(t) == {t.one, t.two} \ {NoField}

Fill(field, c, b) ==
  IF field = "core" THEN Spelling[c] ELSE IF field = "board" THEN Spelling[b] ELSE <<>>

\* format, when it has a value for every field.
Expand(t, c, b) == t.pre \o Fill(t.one, c, b) \o t.mid \o Fill(t.two, c, b) \o t.post

KnownFields(t) == Fields(t) \subseteq {"core", "board"}

\* Doubled braces: the template has the field's text, and so has what format returns.
Braced == [core |-> "{core}", board |-> "{board}"]

Escapes(t, field) == \E s \in {t.pre, t.mid, t.post} : Braced[field] \in Range(s)

WrapperFile(b, top) == <<"wrapper", b, top>>

\* Any key of corejack.core that is two spaces in, be it a target or not.
FusesocTargetExists(t) ==
  \/ \E k \in {"parameter", "fileset", "target"} : Len(t) = 1 /\ Line(k, t[1]) \in Range(corejack)
  \/ \E n \in DOMAIN Spelling :
       \/ t = <<"core_">> \o Spelling[n] \o <<"_rtl">> /\ Line("core fileset", n) \in Range(corejack)
       \/ t = <<"board_">> \o Spelling[n] \o <<"_rtl">> /\ Line("board fileset", n) \in Range(corejack)

-----------------------------------------------------------------------------
\* The settings target_config derives for Make, when it does not fail.
ConfigFields == {"top_template", "target", "board_flag", "work_root", "jtag_adapter", "soc_hz", "baud"}

ConfigCoreFields ==
  {"march", "mabi", "toolchain", "core_type", "integration", "sim_target", "core_flag"}

ConfigOK(c, b) ==
  LET f == cores[c].f
      g == boards[b].f
  IN /\ Has(g, ConfigFields) /\ Has(f, ConfigCoreFields)
     /\ KnownFields(g.top_template) /\ KnownFields(g.target) /\ KnownFields(g.work_root)
     /\ g.board_flag # "?"
     /\ Scalar(g, "ram_bytes", 1) # -1
     /\ f.integration \in Integrations

\* fusesoc_core_flags and the board's flag.
FusesocFlags(c, b) ==
  LET f == cores[c].f
  IN {Line("core", f.core_flag), Line("board", boards[b].f.board_flag)}
       \union (IF f.integration = "socket_region" THEN {Line("core", "region")} ELSE {})

Config(c, b) ==
  [CORE_TYPE |-> cores[c].f.core_type,
   FUSESOC_FLAGS |-> FusesocFlags(c, b),
   FPGA_TOP |-> Expand(boards[b].f.top_template, c, b),
   FPGA_TARGET |-> Expand(boards[b].f.target, c, b),
   FPGA_WORK_ROOT |-> Expand(boards[b].f.work_root, c, b)]

-----------------------------------------------------------------------------
\* A status that is not given counts as supported.
IntegrationStatus(c, flow) == Scalar(cores[c].f, flow, "supported")

IsCompatible(c, b, flow, allowPlanned) ==
  /\ IntegrationStatus(c, flow) # "unsupported"
  /\ IntegrationStatus(c, flow) = "supported" \/ allowPlanned
  /\ cores[c].list # <<>> => Listed(cores[c].list, b)
  /\ boards[b].list # <<>> => Listed(boards[b].list, c)

\* validate: what the Makefile asks before it builds anything for a pair.
Validate(c, b, flow, allowPlanned) ==
  /\ c \in DOMAIN cores /\ b \in DOMAIN boards
  /\ IsCompatible(c, b, flow, allowPlanned)
  /\ ConfigOK(c, b)

\* The pairs --list offers; it fails as a whole when one of them has no settings.
ListedTargets == {p \in (DOMAIN cores) \X (DOMAIN boards) : IsCompatible(p[1], p[2], "fpga", TRUE)}

ListWorks == \A p \in ListedTargets : ConfigOK(p[1], p[2])

-----------------------------------------------------------------------------
\* The expected UART output: the lines of a firmware and the closing line of each
\* path, all of them with the fields in braces they use.
BannerFields == {"core", "board", "target"}

Variants(firmware) == IF firmware = "baremetal" THEN {"sim", "debug", "loader"} ELSE {"debug", "loader"}

\* check_uart_banner_descriptor: empty braces pass, and so does any closing line.
BannerCheck ==
  \A w \in {"baremetal", "zephyr"} :
    /\ banners[w].banner # <<>>
    /\ \A i \in DOMAIN banners[w].banner : banners[w].banner[i] \ {""} \subseteq BannerFields
    /\ Variants(w) \subseteq DOMAIN banners[w].alive

\* resolve_uart_banner gives its lines; a field it has no value for is an error.
BannerResolves(w, variant) ==
  /\ banners[w].banner # <<>>
  /\ variant \in DOMAIN banners[w].alive
  /\ \A i \in DOMAIN banners[w].banner : banners[w].banner[i] \subseteq BannerFields
  /\ banners[w].alive[variant] \subseteq BannerFields

-----------------------------------------------------------------------------
CoreRequired ==
  {"name", "display_name", "sim", "fpga", "debug", "adapter", "core_type", "integration",
   "wrapper", "sim_target", "core_flag", "xlen", "march", "mabi", "boot_addr", "mtvec_addr",
   "ibus", "dbus", "min_hz", "max_hz", "default_target", "toolchain", "zephyr",
   "debug_supported"}

\* core_type_usage reads every descriptor, and fails on a value it cannot parse.
CoreTypeOf(c) == Scalar(cores[c].f, "core_type", -2)

CoreTypeAlone(c) ==
  \A d \in DOMAIN cores : CoreTypeOf(d) # -1 /\ (d # c => CoreTypeOf(d) # CoreTypeOf(c))

ISACheck(f) ==
  /\ f.xlen \in {32, 64}
  /\ f.march = f.xlen
  /\ f.mabi = f.xlen

DebugCheck(f) ==
  /\ f.debug_supported \in {"true", "false"}
  /\ f.debug = "unsupported" => f.debug_supported = "false"
  /\ f.debug = "supported" =>
       /\ f.debug_supported = "true"
       /\ Has(f, {"hart_count", "hartsel", "halt_addr", "exception_addr"})
       /\ f.hart_count > 0
       /\ f.hartsel >= 0 /\ f.halt_addr >= 0 /\ f.exception_addr >= 0

\* Every board the core lists exists and lists the core, unless it lists none.
ListedBack(c) ==
  \A b \in Range(cores[c].list) :
    /\ b \in DOMAIN boards
    /\ boards[b].list # <<>> => Listed(boards[b].list, c)

CoreCheck(c) ==
  /\ c \in DOMAIN cores
  /\ LET f == cores[c].f
     IN /\ Has(f, CoreRequired)
        /\ f.name = c
        /\ \A flow \in Flows : f[flow] \in Statuses
        /\ <<"adapter", f.adapter>> \in files
        /\ f.core_type >= 0
        /\ c \in DOMAIN enum /\ enum[c] = f.core_type
        /\ CoreTypeAlone(c)
        /\ ISACheck(f)
        /\ f.boot_addr >= 0 /\ f.boot_addr % 4 = 0
        /\ f.mtvec_addr >= 0 /\ f.mtvec_addr % 4 = 0
        /\ f.ibus \in Buses /\ f.dbus \in Buses
        /\ f.min_hz >= 0 /\ f.max_hz >= 0
        /\ f.max_hz # 0 => f.min_hz <= f.max_hz
        /\ f.default_target \in {"sim", "fpga"}
        /\ f.sim_target # "?" /\ f.core_flag # "?"
        /\ f.integration \in Integrations
        /\ f.integration = "native_axi" => f.ibus = "axi" /\ f.dbus = "axi"
        /\ f.toolchain = "riscv-multilib"
        /\ f.zephyr \in Statuses \union {"initial_supported"}
        /\ DebugCheck(f)
  /\ cores[c].list # <<>>
  /\ ListedBack(c)

-----------------------------------------------------------------------------
BoardRequired ==
  {"display_name", "part", "top_template", "target", "board_flag", "work_root", "input_hz",
   "soc_hz", "clk_p", "polarity", "reset_port", "baud", "tx_port", "rx_port", "transport",
   "jtag_adapter", "xdc", "flow", "bitstream_target", "program_target", "smoke_app"}

\* An optional RAM size must fill the banks: soc_top divides it between them.
RamCheck(g) ==
  "ram_bytes" \in DOMAIN g => g.ram_bytes > 0 /\ g.ram_bytes % (8 * NumBanks) = 0

\* The wrapper, looked up for the first core of the list, and the other files.
BoardFilesCheck(b) ==
  LET g == boards[b].f
      first == IF boards[b].list # <<>> THEN Head(boards[b].list) ELSE "core"
  IN /\ KnownFields(g.top_template)
     /\ WrapperFile(b, Expand(g.top_template, first, b)) \in files
     /\ <<"xdc", g.xdc>> \in files
     /\ <<"openocd", g.jtag_adapter>> \in files

BoardTargetsCheck(b) ==
  LET g == boards[b].f
  IN /\ KnownFields(g.target)
     /\ \A c \in Range(boards[b].list) : FusesocTargetExists(Expand(g.target, c, b))
     /\ {g.bitstream_target, g.program_target} \subseteq MakeTargets

\* A work root that only has to name the board.
WorkRootNamesBoard(g) == "board" \in Fields(g.work_root) \/ Escapes(g.work_root, "board")

\* The text of both fields must occur.
WorkRootCheck(g) ==
  \A field \in {"core", "board"} : field \in Fields(g.work_root) \/ Escapes(g.work_root, field)

\* board_check without its last part, the cores that must list the board back.
BoardSelfCheck(b) ==
  /\ b \in DOMAIN boards
  /\ LET g == boards[b].f
     IN /\ Has(g, BoardRequired)
        /\ g.board_flag # "?"
        /\ g.input_hz > 0 /\ g.soc_hz > 0 /\ g.baud > 0
        /\ RamCheck(g)
        /\ BoardFilesCheck(b)
        /\ BoardTargetsCheck(b)
        /\ g.polarity \in {"active_low", "active_high"}
        /\ g.transport = "jtag" /\ g.flow = "vivado"
        /\ WorkRootCheck(g)
  /\ boards[b].list # <<>>
  /\ BannerCheck

BoardCheck(b) ==
  /\ BoardSelfCheck(b)
  /\ \A c \in Range(boards[b].list) :
       /\ c \in DOMAIN cores
       /\ cores[c].list # <<>> => Listed(cores[c].list, b)

\* make target-check: the board, each of its cores, and the pair.
TargetCheck(b) ==
  /\ BoardCheck(b)
  /\ \A c \in Range(boards[b].list) :
       /\ CoreCheck(c)
       /\ ConfigOK(c, b)
       /\ \A flow \in Flows : IntegrationStatus(c, flow) = "supported" => IsCompatible(c, b, flow, FALSE)

-----------------------------------------------------------------------------
(***************************************************************************)
(* The support matrix.  Rendering fails when a descriptor lacks a scalar   *)
(* it prints, or a board lists a core that has no descriptor.              *)
(***************************************************************************)
MatrixCoreFields ==
  {"display_name", "xlen", "march", "mabi", "sim", "fpga", "debug", "debug_supported"}

MatrixBoardFields == {"display_name", "part", "soc_hz", "baud"}

RenderOK ==
  /\ \A c \in DOMAIN cores : Has(cores[c].f, MatrixCoreFields)
  /\ \A b \in DOMAIN boards :
       Has(boards[b].f, MatrixBoardFields) /\ Range(boards[b].list) \subseteq DOMAIN cores

LoadRunPath(f) ==
  IF f.debug = "supported" THEN "OpenOCD/GDB" ELSE IF f.fpga = "supported" THEN "UART loader" ELSE "none"

\* Planned cores accepted as well.
AcceptedIfNotRefused(f) == f.fpga # "unsupported"

DefaultFpgaAcceptance(f) == f.fpga = "supported"

BoardRow(c) ==
  [core |-> c, sim |-> cores[c].f.sim, fpga |-> cores[c].f.fpga, debug |-> cores[c].f.debug,
   path |-> LoadRunPath(cores[c].f), accepted |-> DefaultFpgaAcceptance(cores[c].f)]

CoreRow(c) ==
  [isa |-> <<cores[c].f.xlen, cores[c].f.march, cores[c].f.mabi>>,
   zephyr |-> Scalar(cores[c].f, "zephyr", "planned"), boards |-> cores[c].list]

Render ==
  [rows |-> [b \in DOMAIN boards |-> [i \in DOMAIN boards[b].list |-> BoardRow(boards[b].list[i])]],
   heads |-> [b \in DOMAIN boards |->
                <<boards[b].f.part, boards[b].f.soc_hz, boards[b].f.baud>>],
   isas |-> [c \in DOMAIN cores |-> CoreRow(c)]]
=============================================================================
