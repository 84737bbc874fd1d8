# Build scripts for the Windows third-party dependencies: a TLA+ model

The repository (`mantidproject/thirdparty-msvc2015`) holds two things: a large
tree of installed third-party headers, libraries and tools, and, in
`src/build-scripts/`, the batch scripts that fetch, patch, build and install
them. The scripts are the program; the tree is their output. They are run by
hand or by `all-build.bat`, they look at almost no exit code, and what makes
them repeatable is the disk: nearly every stage begins with `if not exist`.

So the state of this program is the *disk* between commands, and its hard
behaviours are those of a program that may be cut off anywhere, that does not
notice when a command fails, and that is then run again on what is left. That
is what the modules here are about.

## Inventory

| Part | Code | State | Operations | What makes it correct |
|---|---|---|---|---|
| Download | `cmds/download-file.cmd` | the archive | test, `curl` | one transfer per archive; a broken one is not mistaken for a good one unless it was broken off |
| Unpacking | `cmds/extract-*.cmd`, `download-and-extract.cmd` | the tree, the `.tar` | test, one or two `7z` | a tree is unpacked once, never over patched files |
| Patching | the guarded `patch --backup` and `copy` lines of the scripts, `extras/**/*.patch` | file contents, `.orig` copies | test for `.orig`, patch each file | what is compiled is patched, once |
| PyQt builds | `build-pyqt4.bat`, `build-pyqt5.bat`, `build-sip.cmd`, `extras/sip`, `extras/pyqt4` | installed packages (release, debug), tools, configuration module, two trees | clean, build sip, fix config, copy sip, debug build, release build | release tools over debug ones; sip and package of one run; config relocatable |
| Installation | the install half of 17 scripts, `cmds/*build*.cmd` | headers, libraries, DLLs in the prefix; build tree; staging directories | clean, build, copy, stage, move | a good run repairs everything; versions are mixed only by a cut-off or half failed run; nothing dropped remains |
| CMake and msbuild helpers | `cmds/cmake-*.cmd`, `cmds/build-*.cmd` | current directory, build directory, projects msbuild has run on | configure, build each project, INSTALL | every project, in both configurations, is tried where it is meant to be before anything is installed |
| Master script and environment | `all-build.bat`, `cmds/common-setup.cmd`, `try-pause.cmd`, `try-mkdir.cmd` | stack of calls, environment, current directory, marker | `call`, `setlocal`, `set`, `cd`, `exit /b`, `pause` | every script found, nothing left behind in callers, packages linked in order, no wait for a key |
| Python distribution | `fixup-python3.bat`, `extras/python/*` | installed packages, `Scripts\`, one patched module, a wrapper header | pip, write launchers, delete, patch | no tool lost, no name mixed up, launchers relocatable |
| Others | `build-tcmalloc.bat`, `build-inelastic-fortran-gcc.bat`, `fetch-clang-format.cmd`, disabled `build-gsl.bat`, `build-librdkafka.bat` | as above | as above | as above |

Parts interact through files, and through the variables and the directory that
one script hands to the next: a script reads the archive, tree, prefix and
environment that an earlier command, run or script has left. There are no
messages, no threads and no locks; the interleaving is that of one run's
commands with failures, interruptions, later runs and changes of version.

## Modules

| Module | Models |
|---|---|
| `WriteOnce` | abstract: a thing on disk that one step writes, and no other step touches again |
| `SourceTrees` | download, unpacking and patching of one script, run after run |
| `Recipes` | the data of `SourceTrees`: what each of 27 downloads does, read off its script and its patch files |
| `SourceProperties` | properties of `SourceTrees`, its mappings to `WriteOnce`, its inductive invariants |
| `MCSourceTrees` | `SourceTrees` on all recipes |
| `SourceTreesProofs` | theorems about `SourceTrees`, for any recipes |
| `PyQt` | the two PyQt scripts with `build-sip.cmd` inside |
| `PyQtProofs` | theorems about `PyQt`, for either script |
| `Install` | cleaning, building and copying into the prefix, over versions |
| `InstallPlans` | the data of `Install`: the install half of 17 scripts |
| `MCInstall` | `Install` on all plans |
| `InstallProofs` | theorems about `Install`, for any packages and plans |
| `Shell` | how cmd.exe carries the scripts: calls, `setlocal`, variables, directories |
| `Scripts` | the data of `Shell`: the commands of all 32 scripts, the helpers and their functions |
| `ShellProperties` | what holds of the scripts at each of their lines, from the lines alone (the outline), and the properties of `Shell` that follow from it |
| `ShellProgress` | what scripts have done at each of their lines (the second layer of the outline), and the properties about builds, links and pauses |
| `MCShell` | `Shell` on all scripts, and both layers of the outline of each |
| `ShellProofs` | theorems about `Shell`, for any scripts |
| `ShellProgressProofs` | theorems about what scripts have done, for any scripts |
| `Launchers` | `fixup-python3.bat` with `write-launcher-script.py` inside |
| `WrapPython` | `wrappython.h`, as the preprocessor reads it once it has been copied (`EXTENDS Launchers`), and the property of it |
| `MCLaunchers` | `Launchers` on packages of the installed Python, and `WrapPython` on units of up to three headers |
| `LaunchersProofs` | theorems about `Launchers`, for any packages |
| `WrapPythonProofs` | theorems about `WrapPython`, for any builds and units |

### SourceTrees

A behaviour follows one script, chosen at the start: scripts work in
directories of their own. `pc` is the command reached; `Begin`, `SkipDownload`,
`CurlOpens`, ... are the commands with their `if not exist` tests as guards.
`archive`, `tar`, `tree` and `backup` are the disk. `curl` and `7z` write in
several steps and may fail or be cut off at each; where a script puts something
of its own into the tree (`Stock`, before the patches; `Build`, through
`cmake-configure.cmd`), it makes the tree's directory if there is none, and `made`
remembers that: the existence tests see it. `patch` takes one file at a
time in the order of the patch file. `Interrupt` returns to the prompt from
anywhere and leaves the disk as it is; it and `Begin` may happen any number of
times, so no bound is put on runs or faults: the state is finite without one.

`wounds` is history: which stage was cut off at a point from which no later run
recovers, or (`empty`) that the script made the directory of sources it lacked. Properties about whole trees speak of runs without such a wound; the
wounds themselves are the subject of `BrokenDownloadsAreKept`,
`ArchiveWrittenOnce` and `TreeWrittenOnce`.

Abstractions: a tree is the files its patches change and two that stand for all
the others (so that a part of a tree can be missing); Qt 4's ten-file patch,
guarded by its fifth file, is cut to three with the guard in the middle; writing
one file is atomic; `mkdir`, `rmdir` and the rename of Qt 5 are taken to succeed;
the answer to patch's `Assume -R?` question is any; the `sed` loops of the sip
and PyQt sources give the same result every time and are left out, as are
ICU's unconditional copies. The two archives that share the jom directory, the
JPEG archive inside the HDF tree, and PyQt's two trees are followed one at a
time. Scripts are taken to run on the drive of their build root, since
`cmake-configure.cmd` and `download-and-extract.cmd` drop the drive of a path (what
that does elsewhere is in `Shell`).

### PyQt

`CONSTANTS` say which script does what in the three places where they differ;
`script`, chosen at the start, is the one a behaviour follows. `stage` is the
command reached. Installed things are `absent`, of an `old` run or `new`;
`debugPath` may also be a *file*, which is what `copy` makes of a missing
directory. The configuration module (`sipconfig.py` or `pyqtconfig.py`) is moved
aside, rewritten through a redirection and its copy deleted, each a step: python
may fail on it (`RewriteConfigFails`; `create_regex` of `patch-sipconfig.py` raises
when it finds no prefix) and leaves an empty module, whose copy the script then
deletes. A failed sip or PyQt build installs
nothing; the source archives are taken as present. The initial states are an
empty distribution and the one the repository holds, a finished build with a
configuration module already rewritten.

### Install

A behaviour follows one package. Its script is a sequence of steps (`Plan`,
`InstallPlans`): test, remove, build, copy, stage, move. `Upgrade` is an edit
of the version in the script between runs: everything installed becomes `old`,
and at each place one file is dropped from the package (`relics`; `leftover` where
the directory on the way has it). Where the
tree's name carries no version (zlib, QwtPlot3D, the sources of NeXus) the edit includes
removing the tree by hand.

A `place` is copied or removed as a unit by the command that handles it. There are
five: headers, and libraries and DLLs of each of two parts of a build. The parts are
what the script builds and installs one after the other, whether or not the first
succeeds: for CMake packages the Release and the Debug configuration (`Configured`, the
two calls of `:build-release-and-debug` in `build-and-install.cmd`); for NeXus the
C and the C++ library, with the headers third; for OCE the projects of the first
and those of the second call, and then all of them again by the `INSTALL` project of the
whole. Where there are several projects, the two configurations of one of them are not
told apart, nor are projects within one call. Other scripts build once and use the headers
and the first part only; eigen has headers alone, installed twice.

`built` says of each place whether the build tree holds its files, which a failed build
may bring some of and an earlier one may have left; `failed` of which places the last
build in this run failed. `nmake install` and INSTALL projects (`linked`) copy nothing
when the build they wait for is broken; copies made by hand do what they always do, and
those of headers take
them from the sources, built or not. `b2 install` copies only what is missing,
as the script's comment says. TBB compiles nothing: its build step is the
unpacking. A directory on the way with the same name for every version is `kept`:
NeXus never empties its `localinstall`, and copies from it by wildcards, so `Take` and
`Move` bring along what earlier versions have left in it. `fresh` and `torn`
are history: a build of this run has succeeded; a run was cut off while it copied, or
one of its builds failed where another succeeded, and no run without a failure has ended
since.

### Shell

`frames` is the stack of scripts that have been called and have not returned;
each has its place in its `Program`, what was `from` its call, and what its
`setlocal` keeps (`home`). `here` is the current directory and `env` the
variables of `common-setup.cmd` (and the marker of `all-build.bat`) that are
set. One action per kind of command: `Call` finds a script by its path, or by
its name in the current directory or on the PATH (`Found`), and otherwise is
`CallMissing`; `Cd` does nothing when the directory is not there or the shell is
on another drive; `Return` and `Exit` give back what `setlocal` kept.
`disk` holds the directories that the script of one package has found or made,
`made` the projects on which it has run msbuild, in which configuration, and whether
they were built or are broken.
`link` is a pair of packages, chosen at the start, of which one is linked to the
other; `linked` says whether it was linked to what is installed now.

A directory may be missing whenever a command that should have made it could
fail (`Unpack`, `Generate`); msbuild may fail on any project (`MsbuildFails`: the
helpers go on, and the scripts install what there is); every `INSTALL` may fail (`InstallFails`), every
test for an error may fire (`Exit`) or not (`GoOn`). The operator starts any
script, in the console that is open or in a new one (which is all that
`Interrupt` leaves him; what a cut-off script leaves on disk is the subject of the
other modules): in the scripts' directory
(`scripts`), elsewhere on their drive (`start`), or on another drive
(`elsewhere`).

`Scripts` lists, per script, the commands that call, set, move, wait or end, and
those whose place matters, each with the directory it is meant to run in. Left
out are echo, variables that stay within one script, the choice between
downloading and finding an archive (that is `SourceTrees`), and copies into the
prefix (that is `Install`: `Installs` marks where it happens). A helper that is
called with different arguments is one script per call (`Configure("szip")`).

### Launchers

One run of `fixup-python3.bat` is the sequence of `stage`s; runs follow each
other without bound. `scripts`, `cmds` and `exes` are what is in `Scripts\` under
each name: the tool that a file starts, `Absent`, or `Torn` (opened and not yet
written). `pip` installs any set of missing packages, updates any others, and
may fail after any part of it (`PipFails`); it chooses among the `Versions` of a
package, and makes the `.exe` files of each. `write-launcher-script.py` is one
action per file opened, closed or removed, per line of `entry_points.txt`. A
name is the sequence of its pieces between dots, so that `Stem` is what
`os.path.splitext` does.

pip itself is external: its model is what its documentation of `.exe` launchers
and the installed tree show. On an upgrade it leaves the earlier launcher script in place, which
the pip of the repository would remove; the `.exe` that the same step makes again is what starts
the tool then, so no property depends on it. `StemAssumption` is what the script takes for
granted: console entry points that share a stem start the same tool. TLC
evaluates it on the packages of `MCLaunchers`, which are entry points of the
installed Python: `setuptools` (versioned names), `flake8` (a name that recurs in
another section, and two versions), `nbformat` (a callable that is a method) and
`tornado` (patched). The patch comes and goes as the operator answers, and one whose
hunks are rejected leaves its marker beside the unpatched file: `ApplyPatch` allows
both, and nothing is claimed of it.

`WrapPython` is a function on what the preprocessor knows: the macros that are
defined and, per header, whether `_DEBUG` was defined when it was first read.
`HeaderHidesDebug` joins it to the run: once the header has been copied whole,
the property holds of every translation unit (in the run, of those of up to three
headers).

## What the runs check

Runs that must pass:

- `sources` (`MCSourceTrees.cfg`, 349339 states): every recipe. `SourceTypeOK`;
  `CompilesPatchedSources`: however often a run was stopped at harmless points,
  the tree that is compiled is whole and patched; `PatchesSurviveReruns`: no
  patched file ever goes back to what the archive holds, because no run unpacks
  over it; `BrokenDownloadsAreKept`: a short archive is there exactly when a
  transfer was broken off; `GuardSpeaksTheTruth`: a patch whose first change
  sets its guard is never offered a patched file; `ArchiveWrittenOnce` and
  `TreeWrittenOnce`: refinement of `WriteOnce`, the latter for the recipes that
  test for their tree (`UnpacksOnce`); `RunsEnd`: under fairness, every run that
  starts comes to its end.
- `pyqt` (`MCPyQt.cfg`): both scripts. `SipFindsItsDir`: the script that makes the
  directory first has its sip module in the debug package; `NoOldSip`: no package
  beside the sip of an earlier run; `ReleaseToolsWin`: the script that always
  builds the release ends with its tools; `ConfigIsFixed`: no run that
  ends leaves a configuration module with this machine's paths, nor its copy, and one
  it has generated is relocatable unless python failed on it; and the types. (The theorems are about
  every combination of the scripts' differences, the run about the two there are.)
- `install` (`MCInstall.cfg`, 364800 states): all plans. `FlawlessRunInstallsAll`: one run
  in which no build is left failed repairs whatever earlier runs left (of the scripts
  that copy over what is installed: boost and qwt5 have runs of their own);
  `HeadersMatchLibraries`: between runs, places hold files of two versions only after a run that
  was cut off while copying, or in which one part was built and another failed, and
  only until the next run without a failure ends (scripts that copy headers from the
  sources are exempt, they put new headers beside old libraries when the build fails);
  `NothingDroppedRemains`: scripts that clean on every run leave no dropped file there,
  but for what the directory on the way still holds.
- `shell` (`MCShell.cfg`, 817055 states): every script, from every console, with
  every failure. `CallsAreFound`: no call misses its script, but for three that
  cannot find it; `ToolsRunWhereMeant` and `RewritesStayInBuildTree`: on the
  scripts' own drive, commands run where they are meant to once that directory is
  there, and the recursive `sed -i` never reaches the operator's files;
  `NoProjectIsLeftOut`: before anything is installed, msbuild has been run on every
  project in both configurations, so that what is not built is what msbuild itself
  failed on; `LinkedToWhatIsInstalled`: after `all-build.bat` no package is
  linked to a library that was rebuilt after it; `VariablesAreSet`: but for
  six reads that the property lists (`Unset`), no command reads a variable that is not
  set: `INSTALL_ROOT` in the scripts of boost, eigen, jsoncpp and lib3mf, which nothing
  sets, `SRC_ROOT` in `fetch-tbb.cmd`, which sets it later, and `INSTALL_PREFIX` in
  `build-qwt5-qt4.bat`, which has cleared it; `CallsAreTransparent`: a script leaves its
  caller's directory and variables alone; `WaitsForTheOperatorOnly`: there is a
  pause exactly in the runs that the operator started with a single script.
- `launchers` (`MCLaunchers.cfg`, 271740 states): `ExesAreReplaced`: an `.exe` is
  removed only when what replaces it starts the same tool, wherever earlier runs
  were cut off; `DeletedAreCovered`: the two that are deleted at the end are
  covered by another launcher; `ToolsStart` and `ListedAreRelocatable`: a run that
  ends has repaired what others left, every tool starts, and those of listed
  packages are relocatable; `NamesAreNotMixedUp`: no launcher starts the tool of
  another name; `HeaderHidesDebug`: a copied `wrappython.h` hides `_DEBUG` from `Python.h` and
  from nothing else.

Runs that must find a violation, each of something the source says:

- `sources_empty`: a run that gets no answer from the server goes on to configure
  the sources it does not have; `cmake-configure.cmd` makes their directory, and
  later runs take it for them, even the one that downloads the archive.
- `pyqt4_tools`: from the second run on, the debug tools stay on top.
- `pyqt5_sip`: `sip.pyd` is copied to a directory that does not exist.
- `install_boost`: a cleaning guarded by its own first victim.
- `install_clean`: eigen, jsoncpp and lib3mf clean under a variable never set.
- `install_qwt5`: the prefix variable is emptied, then used.
- `launchers_dotted`: the launcher of a callable that is a method is a syntax error,
  and the `.exe` that worked is removed.

Bounds: none on runs, faults, interruptions or versions, with two exceptions.
`MaxCuts = 2` in
`Launchers` (how often a run is cut off or pip fails): two are enough for a cut
inside the repair of an earlier cut. `MaxBroken = 1` in `Shell` (on how many projects of
one package msbuild fails): no command looks at whether an earlier project was built, so
one failure, at any place, shows all that a failure can do. The theorems hold for any
value of either.
`link` is chosen once per behaviour, so that all pairs are covered one by one. The
finite parts are the trees (the patched files and two more: enough for a file before, at and
after a guard, and for a tree that lacks any part), five places (two parts of a build are
enough for one to fail where another succeeds), two versions
(an older version is as foreign as any other old one). `Upgrade` and `Begin` are
always possible between runs, so no run needs deadlock checking switched off.

Fairness: only `RunsEnd` needs any. `FairSourceSpec` assumes weak fairness of
the running script's own steps: cmd.exe executes the next command when the last
one has ended, and the operator answers patch's question. Starting a script and
interrupting one are not fair.

Every property has a mutant: a changed definition under which TLC finds it
violated (`PROJECT.json`). They stand next to the definitions they change.

## What is proved

Theorems hold for every value of the constants, under the modules' assumptions.

`SourceTreesProofs` (any scripts, files and recipes, `RecipeAssumption`):

- `SourceTypeCorrect`. The types alone are not inductive: `TypeInv` adds that
  while a patching step is at work there is one (`ApplyingAStep`).
- `BrokenDownloadsStay`, from `ArchiveInv`.
- `ArchiveRefinesWriteOnce`: every step of the model is a step of `WriteOnce` on
  the archive, or none.
- `TreeRefinesWriteOnce`: the same for the tree, whenever the recipe satisfies
  `UnpacksOnce`. `UnpackInv` carries the result of the existence test from where
  it is made to where 7z writes.
- `PatchesAreNotLost`: `PatchesSurviveReruns` for recipes that are `WellGuarded`;
  TLC evaluates that assumption on the repository's recipes
  (`RecipesAreWellGuarded`). The inductive invariant `PatchInv` says that the
  saved copies and the patched files are the same, that 7z works only where
  there are none, and that the steps passed have done their work.
- `GuardsSpeakTheTruth` (`GuardSpeaksTheTruth`) for recipes that are `FirstGuarded`,
  which TLC evaluates in the same assumption: from `UnpackInv` and `GuardInv`, by
  which a patched file of such a step means that its guard is set or that the tree
  lacks the guarding file for good.
- `CompilesTheRightSources` (`CompilesPatchedSources`) for recipes that are
  `Repeatable`, which TLC evaluates in the same assumption. It takes all patching
  steps of a recipe together: `CompileInv` says of every step that is behind the run
  what its files hold, whatever earlier runs, cut off anywhere, had done to them, and
  of every step still ahead that it can be carried out on what is there.

`PyQtProofs` (any scripts, any combination of their differences):

- `PyQtTypeCorrect`; `SipIsNeverOlder` (`NoOldSip`, from `SipInv`: past the
  cleaning there is no sip of an earlier run); `ToolsOfTheRelease`
  (`ReleaseToolsWin`, from `ToolsInv`); `SipIsCopied` (`SipFindsItsDir`, from
  `DirInv`: before the copy, the script that makes the directory has a directory
  there); `ConfigEndsFixed` (`ConfigIsFixed`, from `ConfigInv`: after the deletion there
  is no raw module and no copy, and one that was generated in this run is rewritten if
  python has not failed on it; before it, its raw form is in one of the two files).

`InstallProofs` (any packages and plans, `PlanAssumption`):

- `InstallTypeCorrect`. The types alone are not inductive: `TypeInv` adds that
  nothing is staged where the package has no files.
- `CleaningLasts` (`NothingDroppedRemains`), from `CleanInv`: a dropped file at a place
  whose removal is behind the run is one that the directory on the way still has.
- `GoodRunInstalls` (`FlawlessRunInstallsAll`) for plans that are `WellPlanned`:
  something fills every place after its last build and nothing empties it again, and a
  test passes over removals only. `FlowInv` carries it: wherever no build of the run
  is left failed, the tree, the way and the prefix hold the new version as far as the steps
  passed have put it there. `QuietSteps` and `OneStep` say how what is filled grows, with
  a jump over removals and with one step.
- `VersionsStayTogether` (`HeadersMatchLibraries`) for plans that are also
  `Coherent`, in one of three ways. A script that does not copy over what is there brings
  nothing new. A script that passes everything on (`Passing`) by install targets, each
  behind the builds it copies, copies nothing while no build of the run has
  succeeded (`FailedUntilFresh`), and takes off the way whatever it has put on it
  (`StagedIsTaken`). A script that empties every place on every run and fills
  it again from one source (`Refilling`) has, at the places it has emptied, only what
  that source holds (`RefilledFromStage`, `RefilledFromTree`). `MixInv` joins them with
  what holds until a run copies. The end of a run without a failure needs
  `FlawlessRunInstallsAll`, which is where the theorem before comes in.

TLC evaluates `WellPlanned` and `Coherent` on all 17 plans of the repository
(`PlansAreWellPlanned`).

`ShellProofs` (any scripts over the modelled commands, `ShellAssumption`):

- `ShellTypeCorrect`: in particular the stack of calls is one, and a line that is
  carried out is a command.
- `Transparency`: `CallsAreTransparent` for scripts that are `WellScoped` (they
  begin with `setlocal`, or do nothing but wait); TLC evaluates that on all scripts
  of the repository (`ScriptsAreScoped`). The property is about the step that
  returns; the invariant `CallersKept` carries it: below the top of the stack,
  every scoped script is past its `setlocal`, which has kept what it was called
  with.
- `EveryCallFindsItsScript` (`CallsAreFound`), `ToolsRunInPlace`
  (`ToolsRunWhereMeant`), `RewritesStayAway` (`RewritesStayInBuildTree`) and
  `WhatIsReadIsSet` (`VariablesAreSet`). These depend on what the scripts say, so the
  theorems are about scripts with a proof outline, as one is written for a program:
  `Outline` gives the facts of every line of every script (variables that are set,
  where the shell may be and where it must be once the directories are there, what it
  has been led away from), `Makes` the directories a script can make. The condition
  `OutlineFollows` is static: the facts of a line and its command give those of the
  lines it can go on to, a call gives the callee its entry facts and returns with
  the caller's. `OutlineAlwaysHolds` then proves the invariant `OutlineHolds`, for
  every depth of calls, every failure and every console: the facts of the top of the
  stack hold (`TopSure`), those of the callers hold again on return
  (`CallersSure`). One more static condition per theorem (`CallsSure`,
  `PlacesSure`, `RewritesSure`, `ReadsSure`) says that the facts of a line are
  enough for its command; where the repository's scripts fall short, it names the line's
  script and what it lacks (`Lost`, `Unset`). TLC computes the outline of the 72 scripts and functions
  and evaluates all of these conditions on it (`OutlineIsSound` and
  `EveryLineIsSure` in `MCShell`), and has checked `OutlineHolds` on every state of
  the run.

`ShellProgressProofs` (any scripts, and any links between packages):

- `EveryProjectIsTried` (`NoProjectIsLeftOut`), `LinksAreCurrent`
  (`LinkedToWhatIsInstalled`) and `OnlyTheOperatorIsWaitedFor`
  (`WaitsForTheOperatorOnly`). Where the shell is and what is set does not say what
  has been achieved, so the outline gets a second layer: `Progress` gives before
  each line the projects that msbuild has been run on (with the directory that must be there
  for it), the links that are not to an older library, and whether a key has been
  waited for; `Brings` the packages that a script installs, itself or by a call. A
  call adds what the called script has done by its end, and takes away what it makes
  or installs anew (`DoneByCall`); only scripts that the master calls may give up
  (`WellPaced`), which is why their callers need not know how far they came.
  `ProgressFollows` is static again, and `ProgressAlwaysHolds` proves the invariant:
  what the record says of the line on top is true (`TopHasDone`), and what it says
  of a caller, apart from what the script it has called will add, cannot be undone
  by that script (`CallersHaveDone`).
- These need to know that a call that is in the record has been carried out, and
  that the marker of the master is set under it and never otherwise:
  `SurroundingsKept`, also inductive (`StartsFresh`, `MarkerKept`, `BareKept`,
  `PlacesKnown`).
- The static condition of each theorem is `BuildsSure`, `LinksSure` or `WaitsSure`.
  TLC computes `Progress` for all scripts, evaluates every condition on it
  (`ProgressIsSound` and `EveryPackageIsSure` in `MCShell`), and has checked
  `SurroundingsKept` and `ProgressHolds` on every state of the run.

`LaunchersProofs` (any packages, list, entry points; `LauncherAssumption`,
`StemAssumption`):

- `LauncherTypeCorrect`, `NamesKeptApart` (`NamesAreNotMixedUp`), `NoToolIsLost`
  (`ExesAreReplaced`), from one invariant, `LauncherInv`: a script that is not
  empty is that of a console line of its name, a `.cmd` starts a script of its own
  stem, every `.exe` is one that pip has made, and the files of the line at hand
  that have been closed are those of that line.

- `ListIsRelocatable` (`ListedAreRelocatable`), from `CoverInv`: every line that the
  run has passed is still started by relocatable files. The lemmas show what each
  write leaves of a tool that was whole: the files of another name are not touched,
  and those of its own name are rewritten for the same tool.
- `EveryToolStarts` (`ToolsStart`) for packages in which one line makes each
  `.exe` and brings what it needs (`OneToolPerExe`, `ExesComeWithTheirLines`).
  `Brought` is the part about pip: what a run has unpacked is there until the line
  that replaces it.
- `DeletedStayCovered` (`DeletedAreCovered`), if the surplus files are covered by a
  line of their own (`SurplusIsCovered`): `GoneForALine` says that an `.exe` that is
  gone has gone for a line whose launcher is there. TLC evaluates these hypotheses
  on the packages of the run (`PackagesAreCovered`).

`WrapPythonProofs` (any builds, headers and translation units; `WrapAssumption`: a
build starts with nothing read, and without the wrapper's own macro):

- `CopiedHeaderHidesDebug` (`HeaderHidesDebug`), from `WrapperAlwaysSound`: for units
  of every length. `EveryHeaderLeavesTheBuild` and `FirstWrapperHidesDebug` are about
  one header, whatever has been read before it: it changes nothing of what the code
  and the standard library see, and what it has Python.h find is right. `Compiled` is
  a recursive function over the headers of a unit. That its definition has a value
  (`CompiledStepwise`), and that what each header keeps holds at the end, is by
  induction (`SetInduction`), stated for a set instead of a predicate, so that it
  follows from `WFMin` of the library, which takes no operator as a parameter.

Only model-checked: `RunsEnd` (liveness under fairness is out of the prover's reach).
Every other property of the five runs is the subject of a theorem.

## Not modelled, and why

- The text of patches, generated modules and their regular expressions; compilers,
  CMake cache files: data, or the work of other programs.
- What `vcvarsall.bat` puts into the environment, and the PATH that grows with
  every nested call of `common-setup.cmd`.
- `git clone` cut off half way, the sed and copies of `fetch-clang-format.cmd`, and
  the search path that `sitecustomize.py` sets inside Python.
- What Qt, ICU, QScintilla and h5py copy into the prefix, and the Python bindings of NeXus.
- Trees that share a directory: jom for Qt 4 and Qt 5, JPEG inside HDF.
- The installed tree (`include`, `lib`, `bin`, `share`, `cmake`, `ssl`): vendored.
  It is nearly all of the repository's lines, headers of other projects that
  contain none of this program's logic; the one header that is this repository's
  own, `wrappython.h`, is modelled. Every script under `build-scripts` that does
  anything is mapped from its first line to its last.

## Plan

Done, in this order: the source stage (model, refinement, proofs), PyQt (model,
proofs), installation (model, proofs), the shell with the master script and the CMake
helpers (model, proofs), the launchers (model, proofs). To do:

1. Sources that share a directory: jom for Qt 4 and Qt 5, JPEG inside HDF.
2. `git clone` as a way to get a tree, beside the archives.
