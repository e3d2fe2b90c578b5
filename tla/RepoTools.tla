----------------------------- MODULE RepoTools ------------------------------
(***************************************************************************)
(* The tools that rewrite the repository: bin/create_core.py,              *)
(* bin/create_board.py, bin/bump_version.py and                            *)
(* bin/render_support_matrix.py, as Make runs them, and a developer who    *)
(* edits descriptors in between.  Each of them changes several files one   *)
(* after the other; every write is a step, and a run can be cut between    *)
(* two writes (an interrupt, a full disk).                                 *)
(***************************************************************************)
EXTENDS Descriptors

CONSTANTS
  NewCores,        \* names new cores are given
  NewBoards,       \* names new boards are given
  Versions,        \* SemVer versions of a release
  CoreEdits,       \* scalars a developer may set in a core descriptor
  BoardEdits,      \* and in a board descriptor
  Deletable,       \* scalars they may delete
  Firmwares,       \* what the developer may make of uart_banners.yaml
  MaxRuns,         \* bound on the runs of the tools
  MaxEdits         \* bound on the edits

VARIABLES
  vers,            \* .core file -> the versions its VLNVs have
  platform,        \* version of corejack.core's own VLNV
  matrix,          \* docs/source/support_matrix.rst
  job,             \* the run in progress
  last,            \* how the last run ended
  cut,             \* some sweep of bump_version was cut
  runs, edits      \* counted for the bounds

\* uart_banners.yaml has a section for each firmware.
ASSUME FirmwaresAssumption == \A w \in Firmwares : DOMAIN w = {"baremetal", "zephyr"}

\* The names have a text, and a work root is a template.
ASSUME NamesAssumption ==
  {"ibex", "cvw", "axku5", "region", "core"} \union NewCores \union NewBoards \subseteq DOMAIN Spelling

ASSUME BoardEditsAssumption ==
  \A e \in BoardEdits : "work_root" \in DOMAIN e => e.work_root \in Templates

repoVars == <<descVars, vers, platform, matrix, job, last, cut, runs, edits>>

\* f with y at x; and with what e says.
Put(x, y, f) == [z \in {x} \union DOMAIN f |-> IF z = x THEN y ELSE f[z]]

Overlay(e, f) == [x \in DOMAIN e \union DOMAIN f |-> IF x \in DOMAIN e THEN e[x] ELSE f[x]]

\* Files of the release: rank is their place in the sorted glob.
CorejackFile == [rank |-> 0, of |-> ""]
BoardFile(b) == [rank |-> 1, of |-> b]
CommonFile == [rank |-> 2, of |-> ""]
CoreFile(c) == [rank |-> 3, of |-> c]

NoJob == [tool |-> "none", name |-> "", board |-> "", ver |-> "", type |-> 0, pc |-> "", todo |-> {}]

\* What was true when the run began, for the properties.
Before == [sound |-> BannerCheck /\ \A c \in DOMAIN cores : CoreCheck(c),
           ok |-> {b \in DOMAIN boards : TargetCheck(b)},
           fresh |-> FALSE]

NoLast == [tool |-> "none", name |-> "", end |-> "", before |-> [sound |-> FALSE, ok |-> {}, fresh |-> FALSE]]

-----------------------------------------------------------------------------
\* The descriptors of ibex and axku5, and a second core, cvw.
Ibex ==
  [f |-> [name |-> "ibex", display_name |-> "Ibex", sim |-> "supported", fpga |-> "supported",
          debug |-> "supported", adapter |-> "ibex", core_type |-> 0,
          integration |-> "socket_region", wrapper |-> "ibex", sim_target |-> "sw-sim",
          core_flag |-> "ibex", xlen |-> 32, march |-> 32, mabi |-> 32, boot_addr |-> 8,
          mtvec_addr |-> 8, debug_supported |-> "true", hart_count |-> 1, hartsel |-> 0,
          halt_addr |-> 8, exception_addr |-> 8, ibus |-> "obi", dbus |-> "obi", min_hz |-> 25,
          max_hz |-> 25, default_target |-> "fpga", toolchain |-> "riscv-multilib",
          zephyr |-> "initial_supported"],
   list |-> <<"axku5">>]

Cvw ==
  [f |-> [Ibex.f EXCEPT !.name = "cvw", !.display_name = "CVW", !.adapter = "cvw", !.core_type = 7,
                        !.wrapper = "cvw", !.core_flag = "cvw", !.ibus = "ahb_lite", !.dbus = "ahb_lite"],
   list |-> Ibex.list]

-----------------------------------------------------------------------------
\* create_core.py: core_descriptor.
CoreScaffold(c, b, type) ==
  [f |-> [name |-> c, display_name |-> c, sim |-> "planned", fpga |-> "planned", debug |-> "planned",
          adapter |-> c, core_type |-> type, integration |-> "socket_region", wrapper |-> c,
          sim_target |-> "sw-sim", core_flag |-> c, xlen |-> 32, march |-> 32, mabi |-> 32,
          boot_addr |-> 8, mtvec_addr |-> 8, debug_supported |-> "false", ibus |-> "obi", dbus |-> "obi",
          min_hz |-> 0, max_hz |-> 0, default_target |-> "sim", toolchain |-> "riscv-multilib",
          zephyr |-> "planned"],
   list |-> <<b>>]

TopTemplate == Template(<<"corejack_">>, "board", <<"_wrap">>, NoField, <<>>)

WorkRootTemplate == Template(<<"build/fpga/">>, "board", <<"/">>, "core", <<"/fusesoc-fpga">>)

\* create_board.py: board_descriptor.
BoardScaffold(b) ==
  [f |-> [name |-> b, display_name |-> b, part |-> b, top_template |-> TopTemplate,
          target |-> Plain("fpga"), work_root |-> WorkRootTemplate,
          board_flag |-> b, input_hz |-> 200, soc_hz |-> 25, clk_p |-> "p", clk_n |-> "n",
          polarity |-> "active_low", reset_port |-> "r", baud |-> 115, tx_port |-> "tx",
          rx_port |-> "rx", transport |-> "jtag", jtag_adapter |-> "tigard", xdc |-> b,
          flow |-> "vivado", bitstream_target |-> "fpga-bit", program_target |-> "fpga-pgm",
          smoke_app |-> "hello_world"],
   list |-> <<"ibex">>]

Axku5 == [BoardScaffold("axku5") EXCEPT !.list = <<"ibex", "cvw">>]

\* The largest value itself.
LargestCoreType == CHOOSE n \in Range(enum) : \A m \in Range(enum) : m <= n

\* The value after the largest of the enumeration.
NextCoreType == IF DOMAIN enum = {} THEN 0 ELSE 1 + CHOOSE n \in Range(enum) : \A m \in Range(enum) : m <= n

-----------------------------------------------------------------------------
(***************************************************************************)
(* The edits of corejack.core.  Its lines stand in the order of the file:  *)
(* a parameter, filesets, then the targets sw-sim, lint and fpga, each     *)
(* with the conditional filesets it appends ("core" and "board" lines),    *)
(* the part and the top level.                                             *)
(***************************************************************************)
\* marker stands in s from line i on.
Stands(marker, s, i) ==
  /\ i + Len(marker) - 1 <= Len(s)
  /\ \A j \in DOMAIN marker : s[i + j - 1] = marker[j]

Places(marker, s) == {i \in DOMAIN s : Stands(marker, s, i)}

Occurs(marker, s) == Places(marker, s) # {}

First(S) == CHOOSE i \in S : \A j \in S : i <= j

InsertAt(new, i, s) == SubSeq(s, 1, i - 1) \o <<new>> \o SubSeq(s, i, Len(s))

InsertBefore(new, marker, s) == InsertAt(new, First(Places(marker, s)), s)

InsertAfterFirst(new, marker, s) == InsertAt(new, First(Places(marker, s)) + 1, s)

CorejackLines ==
  <<Line("parameter", "RamWords"),
    Line("core fileset", "cvw"), Line("core fileset", "region"), Line("board fileset", "axku5"),
    Line("fileset", "rtl"),
    Line("target", "sw-sim"), Line("define", "cvw"), Line("core", "cvw"), Line("core", "region"),
    Line("target", "lint"), Line("core", "cvw"), Line("core", "region"),
    Line("target", "fpga"), Line("part", "axku5"), Line("core", "cvw"), Line("core", "region"),
    Line("board", "axku5"), Line("toplevel", "axku5")>>

FilesetMarker == <<Line("core fileset", "region")>>

DefineMarker == <<Line("define", "cvw")>>

SwMarker == <<Line("core", "cvw"), Line("core", "region")>>

FpgaMarker == SwMarker \o <<Line("board", "axku5")>>

\* The file update_corejack_core of create_core.py would write, <<>> if it fails:
\* each marker is looked for in the text the replacement before it left.
WithCore(s, c) ==
  LET t1 == InsertBefore(Line("core fileset", c), FilesetMarker, s)
      t2 == InsertAfterFirst(Line("define", c), DefineMarker, t1)
      t3 == InsertAfterFirst(Line("core", c), SwMarker, t2)
      t4 == InsertAfterFirst(Line("core", c), FpgaMarker, t3)
  IN IF /\ {Line("core fileset", c), Line("core", c), Line("define", c)} \intersect Range(s) = {}
        /\ Occurs(FilesetMarker, s) /\ Occurs(DefineMarker, t1)
        /\ Occurs(SwMarker, t2) /\ Occurs(FpgaMarker, t3)
     THEN t4 ELSE <<>>

\* The target a line belongs to.
InTarget(s, i, target) ==
  \E j \in 1..i : s[j] = Line("target", target) /\ \A k \in (j + 1)..i : s[k].k # "target"

\* replace_in_fpga_target of create_board.py, <<>> if it fails.
WithBoard(s, b) ==
  LET t == InsertBefore(Line("board fileset", b), <<Line("fileset", "rtl")>>, s)
      hit(i, k) == t[i].k = k /\ InTarget(t, i, "fpga")
      tops == {i \in DOMAIN t : hit(i, "toplevel")}
      parts == {i \in DOMAIN t : hit(i, "part")}
      lines == [i \in DOMAIN t |-> IF i \in parts \union tops THEN [t[i] EXCEPT !.of = @ \union {b}] ELSE t[i]]
  IN IF /\ {Line("board fileset", b), Line("board", b)} \intersect Range(s) = {}
        /\ Occurs(<<Line("fileset", "rtl")>>, s)
        /\ parts # {} /\ tops # {}
     THEN InsertAt(Line("board", b), First(tops), lines) ELSE <<>>

-----------------------------------------------------------------------------
Finished(end) == last' = [last EXCEPT !.end = end] /\ job' = NoJob

Goto(pc) == job' = [job EXCEPT !.pc = pc] /\ UNCHANGED last

At(tool, pc) == job.tool = tool /\ job.pc = pc

\* A version written into the templates.
TemplateVersion == CHOOSE v \in Versions : TRUE

\* platform_version: the one corejack.core has when the scaffold is made.
PlatformVersion == platform

\* A run starts, with fresh saying that nothing of the new name is left over.
Start(tool, j, fresh) ==
  /\ job = NoJob
  /\ runs < MaxRuns
  /\ runs' = runs + 1
  /\ job' = [j EXCEPT !.tool = tool, !.ver = IF tool = "bump" THEN @ ELSE PlatformVersion]
  /\ last' = [tool |-> tool, name |-> j.name, end |-> "", before |-> [Before EXCEPT !.fresh = fresh]]
  /\ UNCHANGED <<descVars, vers, platform, matrix, cut, edits>>

-----------------------------------------------------------------------------
\* make new-core CORE=c BOARD=b, with nothing in the way of the files it creates.
StartCore(c, b) ==
  /\ c \notin DOMAIN cores /\ <<"adapter", c>> \notin files /\ CoreFile(c) \notin DOMAIN vers
  /\ Start("core", [NoJob EXCEPT !.name = c, !.board = b, !.type = NextCoreType, !.pc = "pkg"],
           c \notin DOMAIN enum /\ Line("core fileset", c) \notin Range(corejack) /\ b \in DOMAIN boards)

UpdatePlatformPkg ==
  /\ At("core", "pkg")
  /\ IF job.name \in DOMAIN enum
     THEN Finished("failed") /\ UNCHANGED enum
     ELSE Goto("file") /\ enum' = Put(job.name, job.type, enum)
  /\ UNCHANGED <<cores, boards, files, corejack, banners, vers>>

UpdateCorejackCore ==
  /\ At("core", "file")
  /\ LET new == WithCore(corejack, job.name)
     IN IF new = <<>>
        THEN Finished("failed") /\ UNCHANGED <<corejack, vers>>
        ELSE /\ Goto("board")
             /\ corejack' = new
             /\ vers' = [vers EXCEPT ![CorejackFile] = @ \union {job.ver}]
  /\ UNCHANGED <<cores, boards, enum, files, banners>>

\* A board without cores may have an open list with no items or no list at all.
NoList(b) == b \in DOMAIN boards => boards[b].list = <<>>

ListCore ==
  /\ job.board \in DOMAIN boards
  /\ Goto("desc")
  /\ boards' = [boards EXCEPT ![job.board].list =
                  IF Listed(@, job.name) THEN @ ELSE Append(@, job.name)]

UpdateBoardDescriptor ==
  /\ At("core", "board")
  /\ \/ NoList(job.board) /\ Finished("failed") /\ UNCHANGED boards
     \/ ListCore
  /\ UNCHANGED <<cores, enum, files, corejack, banners, vers>>

\* The three files of the scaffold, in the order of the dictionary.
WriteCoreFiles ==
  \/ /\ At("core", "desc") /\ Goto("adapter")
     /\ cores' = Put(job.name, CoreScaffold(job.name, job.board, job.type), cores)
     /\ UNCHANGED <<boards, enum, files, corejack, banners, vers>>
  \/ /\ At("core", "adapter") /\ Goto("corefile")
     /\ files' = files \union {<<"adapter", job.name>>}
     /\ UNCHANGED <<cores, boards, enum, corejack, banners, vers>>
  \/ /\ At("core", "corefile") /\ Finished("done")
     /\ vers' = Put(CoreFile(job.name), {job.ver}, vers)
     /\ UNCHANGED descVars

-----------------------------------------------------------------------------
Top(b) == WrapperFile(b, Expand(TopTemplate, "core", b))

\* make new-board BOARD=b.
StartBoard(b) ==
  /\ b \notin DOMAIN boards /\ {<<"xdc", b>>, Top(b)} \intersect files = {} /\ BoardFile(b) \notin DOMAIN vers
  /\ Start("board", [NoJob EXCEPT !.name = b, !.pc = "file"],
           Line("board fileset", b) \notin Range(corejack))

UpdateFpgaTarget ==
  /\ At("board", "file")
  /\ LET new == WithBoard(corejack, job.name)
     IN IF new = <<>>
        THEN Finished("failed") /\ UNCHANGED <<corejack, vers>>
        ELSE /\ Goto("desc")
             /\ corejack' = new
             /\ vers' = [vers EXCEPT ![CorejackFile] = @ \union {job.ver}]
  /\ UNCHANGED <<cores, boards, enum, files, banners>>

WriteBoardFiles ==
  \/ /\ At("board", "desc") /\ Goto("xdc")
     /\ boards' = Put(job.name, BoardScaffold(job.name), boards)
     /\ UNCHANGED <<cores, enum, files, corejack, banners, vers>>
  \/ /\ At("board", "xdc") /\ Goto("wrapper")
     /\ files' = files \union {<<"xdc", job.name>>}
     /\ UNCHANGED <<cores, boards, enum, corejack, banners, vers>>
  \/ /\ At("board", "wrapper") /\ Goto("corefile")
     /\ files' = files \union {Top(job.name)}
     /\ UNCHANGED <<cores, boards, enum, corejack, banners, vers>>
  \/ /\ At("board", "corefile") /\ Finished("done")
     /\ vers' = Put(BoardFile(job.name), {job.ver}, vers)
     /\ UNCHANGED descVars

-----------------------------------------------------------------------------
\* detect_current_version: the one version all files have.
Current == UNION {vers[x] : x \in DOMAIN vers}

\* make bump-version VERSION=v: refused unless the files agree.
StartBump(v) ==
  /\ Cardinality(Current) = 1 /\ Current # {v}
  /\ Start("bump", [NoJob EXCEPT !.ver = v, !.pc = "rewrite", !.todo = DOMAIN vers], FALSE)

\* rewrite, file by file in the order of their names.
Rewrite ==
  /\ At("bump", "rewrite")
  /\ \E x \in job.todo :
       /\ \A y \in job.todo : x.rank <= y.rank
       /\ vers' = [vers EXCEPT ![x] = IF @ = {} THEN {} ELSE {job.ver}]
       /\ platform' = IF x = CorejackFile THEN job.ver ELSE platform
       /\ IF job.todo = {x} THEN Finished("done")
          ELSE job' = [job EXCEPT !.todo = @ \ {x}] /\ UNCHANGED last
  /\ UNCHANGED descVars

-----------------------------------------------------------------------------
\* make support-matrix; rendering reads everything before it writes the page.
RenderMatrix ==
  /\ job = NoJob
  /\ runs < MaxRuns
  /\ RenderOK
  /\ matrix # Render
  /\ matrix' = Render
  /\ runs' = runs + 1
  /\ UNCHANGED <<descVars, vers, platform, job, last, cut, edits>>

\* The run ends between two writes.
Kill ==
  /\ job # NoJob
  /\ Finished("killed")
  /\ cut' = (cut \/ job.tool = "bump")
  /\ UNCHANGED <<descVars, vers, platform, matrix, runs, edits>>

\* An edit of one descriptor: a scalar set or deleted, a name listed or no longer
\* listed.
Toggle(s, x) ==
  LET i == CHOOSE i \in DOMAIN s : s[i] = x
  IN IF Listed(s, x) THEN SubSeq(s, 1, i - 1) \o SubSeq(s, i + 1, Len(s)) ELSE Append(s, x)

EditCore(c) ==
  /\ \/ \E e \in CoreEdits : cores' = [cores EXCEPT ![c].f = Overlay(e, @)]
     \/ \E x \in CoreRequired \intersect Deletable :
          cores' = [cores EXCEPT ![c].f = Restrict(@, DOMAIN @ \ {x})]
     \/ \E b \in DOMAIN boards : cores' = [cores EXCEPT ![c].list = Toggle(@, b)]
  /\ UNCHANGED <<boards, banners>>

EditBoard(b) ==
  /\ \/ \E e \in BoardEdits : boards' = [boards EXCEPT ![b].f = Overlay(e, @)]
     \/ \E x \in BoardRequired \intersect Deletable :
          boards' = [boards EXCEPT ![b].f = Restrict(@, DOMAIN @ \ {x})]
     \/ \E c \in DOMAIN cores : boards' = [boards EXCEPT ![b].list = Toggle(@, c)]
  /\ UNCHANGED <<cores, banners>>

EditBanner == banners' \in Firmwares /\ UNCHANGED <<cores, boards>>

Edit ==
  /\ job = NoJob
  /\ edits < MaxEdits
  /\ edits' = edits + 1
  /\ last' = NoLast
  /\ (\E c \in DOMAIN cores : EditCore(c)) \/ (\E b \in DOMAIN boards : EditBoard(b)) \/ EditBanner
  /\ UNCHANGED <<enum, files, corejack, vers, platform, matrix, job, cut, runs>>

-----------------------------------------------------------------------------
Banners ==
  [baremetal |-> [banner |-> <<{}, {"target"}, {"core"}, {"board"}>>,
                  alive |-> [v \in {"sim", "debug", "loader"} |-> {}]],
   zephyr |-> [banner |-> <<{}, {}, {"core"}, {"board"}, {}, {}>>,
               alive |-> [v \in {"debug", "loader"} |-> {}]]]

\* One write of a run in progress.
Write ==
  /\ \/ UpdatePlatformPkg \/ UpdateCorejackCore \/ UpdateBoardDescriptor \/ WriteCoreFiles
     \/ UpdateFpgaTarget \/ WriteBoardFiles
  /\ UNCHANGED <<platform, matrix, cut, runs, edits>>

RepoInit ==
  /\ cores = [c \in {"ibex", "cvw"} |-> IF c = "ibex" THEN Ibex ELSE Cvw]
  /\ boards = [b \in {"axku5"} |-> Axku5]
  /\ enum = [c \in {"ibex", "cvw"} |-> IF c = "ibex" THEN 0 ELSE 7]
  /\ files = {<<"adapter", "ibex">>, <<"adapter", "cvw">>, <<"xdc", "axku5">>, <<"openocd", "tigard">>, Top("axku5")}
  /\ corejack = CorejackLines
  /\ banners = Banners
  /\ platform = CHOOSE v \in Versions : TRUE
  /\ vers = [x \in {CorejackFile, BoardFile("axku5"), CommonFile, CoreFile("cvw")} |-> {platform}]
  /\ matrix = Render
  /\ job = NoJob /\ last = NoLast /\ cut = FALSE /\ runs = 0 /\ edits = 0

RepoNext ==
  \/ \E c \in NewCores, b \in DOMAIN boards \union NewBoards : StartCore(c, b)
  \/ \E b \in NewBoards : StartBoard(b)
  \/ \E v \in Versions : StartBump(v)
  \/ Write
  \/ Rewrite /\ UNCHANGED <<matrix, cut, runs, edits>>
  \/ RenderMatrix
  \/ Kill
  \/ Edit

RepoSpec == RepoInit /\ [][RepoNext]_repoVars

-----------------------------------------------------------------------------
\* The target appends the core's fileset, or the board's.
Hooked(target, k, n) ==
  \E i \in DOMAIN corejack : corejack[i] = Line(k, n) /\ InTarget(corejack, i, target)

\* create_core.py, create_board.py: when a run ends as it should, and the rest
\* was sound before, the new core passes core-check, sw-sim and fpga pull in its
\* RTL, and every board that passed target-check still does.  A new board is
\* sound itself, and the fpga target knows its part, RTL and top level.
ScaffoldChecks ==
  last.end = "done" /\ last.before.sound =>
    /\ last.tool = "core" =>
         /\ CoreCheck(last.name)
         /\ Hooked("sw-sim", "core", last.name) /\ Hooked("fpga", "core", last.name)
         /\ \A b \in last.before.ok : TargetCheck(b)
    /\ last.tool = "board" =>
         /\ BoardSelfCheck(last.name)
         /\ Hooked("fpga", "board", last.name)
         /\ \A k \in {"part", "toplevel"} :
              \E i \in DOMAIN corejack : corejack[i].k = k /\ last.name \in corejack[i].of
         /\ \A b \in last.before.ok : TargetCheck(b)

\* create_core.py, create_board.py, bump_version.py: no write of a run, finished,
\* failed or cut, makes a sound core fail core-check, unless it lists the board
\* a new core is for, and that board had listed no core before; and only the
\* board a new core is for may fail board-check, from the moment it lists the
\* core.
Harmless ==
  [][job # NoJob =>
       /\ \A c \in DOMAIN cores : CoreCheck(c) /\ ~CoreCheck(c)' =>
            At("core", "board") /\ boards[job.board].list = <<>> /\ Listed(cores[c].list, job.board)
       /\ \A b \in DOMAIN boards :
            BoardCheck(b) /\ ~BoardCheck(b)' => At("core", "board") /\ b = job.board]_repoVars

\* bump_version.py and platform_version: unless a sweep was cut, all .core files
\* have the version of corejack.core whenever no tool runs, scaffolds included.
VersionsInStep == job = NoJob /\ ~cut => Current = {platform}

\* render_support_matrix.py against validate_target.py: a page that is not stale
\* accepts a core on a board that passes target-check exactly when Make would
\* build that pair for the FPGA, and offers OpenOCD exactly when Make would
\* debug it.
MatrixTruthful ==
  RenderOK /\ matrix = Render =>
    \A b \in DOMAIN boards : TargetCheck(b) =>
      \A c \in DOMAIN cores :
        LET rows == {r \in Range(matrix.rows[b]) : r.core = c}
        IN /\ (\E r \in rows : r.accepted) <=> Validate(c, b, "fpga", FALSE)
           /\ (\E r \in rows : r.path = "OpenOCD/GDB") <=> Validate(c, b, "debug", FALSE)

\* validate_target.py: after target-check the build has settings for each core of
\* the board, a wrapper (the first core's, if the template names the core) and a
\* core type no other core has; two cores of one board have two work roots, unless
\* the template escapes the braces of {core}; and the expected lines come out,
\* unless one has empty braces or the closing one asks for something unknown.
\* Once every core and board is sound, the matrix can be rendered and the targets
\* listed.  Two boards may share a work root, and FPGA_TARGET may be any key of
\* corejack.core: the check does not see to that.
CheckedBuildable ==
  LET checked == {b \in DOMAIN boards : TargetCheck(b)}
      pairs == {p \in (DOMAIN cores) \X checked : Listed(boards[p[2]].list, p[1])}
      config == [p \in pairs |-> Config(p[1], p[2])]
  IN /\ \A p \in pairs :
          /\ \A flow \in Flows :
               Validate(p[1], p[2], flow, TRUE) <=> cores[p[1]].f[flow] # "unsupported"
          /\ \/ WrapperFile(p[2], config[p].FPGA_TOP) \in files
             \/ "core" \in Fields(boards[p[2]].f.top_template) /\ p[1] # Head(boards[p[2]].list)
     /\ \A p, q \in pairs : p[1] # q[1] =>
          /\ config[p].CORE_TYPE # config[q].CORE_TYPE
          /\ p[2] = q[2] /\ ~Escapes(boards[p[2]].f.work_root, "core") =>
               config[p].FPGA_WORK_ROOT # config[q].FPGA_WORK_ROOT
     /\ checked = DOMAIN boards /\ (\A c \in DOMAIN cores : CoreCheck(c)) => RenderOK /\ ListWorks
     /\ checked # {} =>
          \A w \in DOMAIN banners : \A v \in Variants(w) :
            \/ BannerResolves(w, v)
            \/ \E i \in DOMAIN banners[w].banner : "" \in banners[w].banner[i]
            \/ ~(banners[w].alive[v] \subseteq BannerFields)

-----------------------------------------------------------------------------
\* README.md, docs/source/core_porting.rst: make new-core scaffolds the next core.
\* Stated of a name of which nothing is left over, on a board that exists, in a
\* repository that is sound.
NewCoreCompletes ==
  ~(last.tool = "core" /\ last.end = "failed" /\ last.before.sound /\ last.before.fresh)
=============================================================================
