------------------------------ MODULE DepsCore ------------------------------
(***************************************************************************)
(* bin/deps_core.py: the checkout of a core's upstream sources at the      *)
(* revision its descriptor pins, in .bender/vendor, and the link to it in  *)
(* deps/.  A run is a chain of git commands; it can be cut between two of  *)
(* them, the network can fail, the pin can change between two runs, and    *)
(* the developer reruns it until it succeeds.                              *)
(***************************************************************************)
EXTENDS Integers

CONSTANTS
  Upstreams,       \* repositories a pin can name
  Revs,            \* revisions
  Serves,          \* upstream -> the revisions it has
  NoRev,           \* no revision, no remote
  Attempts,        \* tries of a network command
  MaxPins,         \* bound on the changes of the pin
  MaxCuts          \* bound on the runs cut short

ASSUME DepsAssumption ==
  /\ Serves \in [Upstreams -> SUBSET Revs]
  /\ NoRev \notin Upstreams \union Revs
  /\ Attempts \in Nat \ {0}

VARIABLES
  pin,             \* the dependency block: upstream and rev
  dir,             \* .bender/vendor/<package>
  link,            \* deps/<package> exists
  step,            \* next command of the run, "" between runs
  tries,           \* failed tries of the fetch
  result,          \* of the last run for this pin: "", "done" or "failed"
  pins, cuts       \* counted for the bounds

depsVars == <<pin, dir, link, step, tries, result, pins, cuts>>

Pins == {p \in [upstream : Upstreams, rev : Revs] : p.rev \in Serves[p.upstream]}

\* What the directory is: missing, a copy without .git, or a git checkout with a
\* remote, the commits it has, the one checked out, and whether it is shallow.
Dirs == [kind : {"none", "copy", "git"}, origin : Upstreams \union {NoRev}, commits : SUBSET Revs,
         head : Revs \union {NoRev}, shallow : BOOLEAN]

NoDir == [kind |-> "none", origin |-> NoRev, commits |-> {}, head |-> NoRev, shallow |-> FALSE]

\* A copy made by bender vendor, at some revision, or a full clone of the past.
VendorCopy(r) == [NoDir EXCEPT !.kind = "copy", !.head = r]

FullClone(u, r) ==
  [kind |-> "git", origin |-> u, commits |-> Serves[u], head |-> r, shallow |-> FALSE]

DepsInit ==
  /\ pin \in Pins
  /\ dir \in {NoDir, VendorCopy(pin.rev), FullClone(pin.upstream, pin.rev)}
  /\ link = FALSE /\ step = "" /\ tries = 0 /\ result = "" /\ pins = 0 /\ cuts = 0

\* Each command runs once the one before it has succeeded.
Do(s, next) == step = s /\ step' = next /\ UNCHANGED <<pin, pins, cuts>>

Fail == step' = "" /\ tries' = 0 /\ result' = "failed" /\ UNCHANGED <<pin, dir, link, pins, cuts>>

-----------------------------------------------------------------------------
\* A directory without .git counts as an exact copy and is left alone.
Run ==
  /\ Do("", IF dir.kind = "copy" THEN "link" ELSE IF dir.kind = "git" THEN "look" ELSE "init")
  /\ result' = ""
  /\ UNCHANGED <<dir, link, tries>>

GitInit ==
  /\ Do("init", "remote")
  /\ dir' = [NoDir EXCEPT !.kind = "git"]
  /\ UNCHANGED <<link, tries, result>>

RemoteAdd ==
  /\ Do("remote", "look")
  /\ dir' = [dir EXCEPT !.origin = pin.upstream]
  /\ UNCHANGED <<link, tries, result>>

\* A checkout that is there is taken as it is.
LookNoCheckout ==
  /\ Do("look", IF dir.head # NoRev THEN "link" ELSE "shallow")
  /\ UNCHANGED <<dir, link, tries, result>>

\* Only a new checkout is fetched.
LookFetchOnce ==
  /\ Do("look", IF dir.head # NoRev THEN "checkout" ELSE "shallow")
  /\ UNCHANGED <<dir, link, tries, result>>

\* commit_exists and is_shallow_or_empty choose the fetch.
Look ==
  /\ Do("look", IF pin.rev \in dir.commits THEN "checkout"
                ELSE IF dir.shallow \/ dir.head = NoRev THEN "shallow" ELSE "full")
  /\ UNCHANGED <<dir, link, tries, result>>

\* A fetch that gets through: the pinned commit alone, which the remote must
\* have, or all the remote has.
FetchOK ==
  /\ dir.origin # NoRev
  /\ \/ /\ Do("shallow", "checkout")
        /\ pin.rev \in Serves[dir.origin]
        /\ dir' = [dir EXCEPT !.commits = @ \union {pin.rev}, !.shallow = TRUE]
     \/ /\ Do("full", "checkout")
        /\ dir' = [dir EXCEPT !.commits = @ \union Serves[dir.origin]]
  /\ tries' = 0
  /\ UNCHANGED <<link, result>>

\* run_with_retry gives up after the last try.
FetchFails ==
  /\ step \in {"shallow", "full"}
  /\ IF tries + 1 = Attempts THEN Fail
     ELSE tries' = tries + 1 /\ UNCHANGED <<pin, dir, link, step, result, pins, cuts>>

Checkout ==
  /\ step = "checkout"
  /\ IF pin.rev \in dir.commits
     THEN /\ Do("checkout", "link")
          /\ dir' = [dir EXCEPT !.head = pin.rev]
          /\ UNCHANGED <<link, tries, result>>
     ELSE Fail

\* link.unlink, then symlink_to.
Unlink ==
  /\ Do("link", "symlink")
  /\ link' = FALSE
  /\ UNCHANGED <<dir, tries, result>>

Symlink ==
  /\ Do("symlink", "")
  /\ link' = TRUE
  /\ result' = "done"
  /\ UNCHANGED <<dir, tries>>

-----------------------------------------------------------------------------
\* The run is cut between two commands.
Cut ==
  /\ step # "" /\ cuts < MaxCuts
  /\ step' = "" /\ tries' = 0 /\ cuts' = cuts + 1
  /\ UNCHANGED <<pin, dir, link, result, pins>>

\* The dependency block of the descriptor is edited.
ChangePin ==
  /\ step = "" /\ pins < MaxPins
  /\ pin' \in Pins \ {pin}
  /\ pins' = pins + 1
  /\ result' = ""
  /\ UNCHANGED <<dir, link, step, tries, cuts>>

Command == Run \/ GitInit \/ RemoteAdd \/ Look \/ Checkout \/ Unlink \/ Symlink

DepsNext == Command \/ FetchOK \/ FetchFails \/ Cut \/ ChangePin

\* The developer reruns a failed run, git commands end, and a network that gets
\* through again and again serves a fetch in the end.
DepsFairness == WF_depsVars(Command \/ FetchFails) /\ SF_depsVars(FetchOK)

DepsSpec == DepsInit /\ [][DepsNext]_depsVars /\ DepsFairness

-----------------------------------------------------------------------------
\* checkout_dependency: after a run that succeeded on a git checkout, the link is
\* there and leads to the pinned revision, whatever runs were cut, failed or made
\* for other pins before; and a checkout never has a commit no remote gave it.
LinkedIsPinned ==
  /\ dir \in Dirs
  /\ result = "done" /\ dir.kind = "git" => link /\ dir.head = pin.rev /\ dir.head \in dir.commits

\* checkout_dependency: run again and again, it succeeds again and again, as long
\* as the checkout it finds, if any, has the remote of the pin.
RerunSucceeds ==
  <>[](dir.kind = "git" /\ step \notin {"init", "remote"} => dir.origin = pin.upstream)
    => []<>(result = "done" /\ link)

\* deps_core.py, docs/source/dependency_management.rst: the pin is changed in the
\* descriptor and nowhere else, so what a successful run links is the pin.
PinFollowed == result = "done" => dir.head = pin.rev
=============================================================================
