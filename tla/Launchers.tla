----------------------------- MODULE Launchers -----------------------------
(***************************************************************************)
(* fixup-python3.bat: the bundled Python is given its packages by pip, and *)
(* the .exe launchers that pip makes, which hold the path of the machine   *)
(* they were made on, are replaced by relocatable ones: a Python script    *)
(* and a .cmd that starts it, written by write-launcher-script.py from the *)
(* entry points of a list of packages, each with its version.              *)
(*                                                                         *)
(* The script may be run again and may be cut off anywhere.  A file that   *)
(* was opened and not yet closed is then left empty.                       *)
(***************************************************************************)
EXTENDS Naturals, Sequences

CONSTANTS
    Package,        \* packages pip may install
    Listed,         \* those of fixup-python3.bat:40-61, in its order
    Versions,       \* of each: "listed", "other", or both
    Bundled,        \* packages that come with Python itself
    EntryPoints,    \* the lines of entry_points.txt of each package
    Exe,            \* the launchers pip makes for each, and what they start
    Surplus,        \* launchers that are deleted at the end
    Patchable,      \* the package that is patched (tornado)
    Name,           \* names of launchers, as the pieces between their dots
    Callable,       \* what a launcher starts
    Dotted,         \* callables that are an attribute of an attribute
    Extras,         \* files copied into the distribution, in order
    MaxCuts,        \* bound: how often a run is cut off, or pip fails
    Absent, Torn    \* no such file; a file without its content

EntryPointLines == [console : BOOLEAN, name : Name, callable : Callable]

(* os.path.splitext                                                        *)
Stem(n) == IF Len(n) > 1 THEN SubSeq(n, 1, Len(n) - 1) ELSE n

(* Mutant of InScriptSection: the sections of the file are not looked at.  *)
InAnySection(e) == TRUE

(* get_entry_points keeps the lines of [console_scripts], [gui_scripts].   *)
InScriptSection(e) == e.console

ASSUME LauncherAssumption ==
    /\ Listed \in Seq(Package)
    /\ Versions \in [Package -> SUBSET {"listed", "other"}]
    /\ Bundled \subseteq Package /\ Patchable \in Package
    /\ EntryPoints \in [Package -> Seq(EntryPointLines)]
    /\ \A p \in Package : DOMAIN Exe[p] \subseteq Name
    /\ \A p \in Package : \A n \in DOMAIN Exe[p] : Exe[p][n] \in Callable
    /\ Surplus \subseteq Name
    /\ \A n \in Name : Stem(n) \in Name
    /\ Dotted \subseteq Callable
    /\ Absent \notin Callable /\ Absent \notin Name
    /\ Torn \notin Callable /\ Torn \notin Name
    /\ Absent # Torn
    /\ MaxCuts \in Nat

(* The lines that make a launcher.                                         *)
ConsoleLines ==
    {e \in EntryPointLines :
        e.console /\ \E p \in Package : \E i \in DOMAIN EntryPoints[p] : e = EntryPoints[p][i]}

(* What fixup-python3.bat takes for granted: launchers that share a stem   *)
(* start the same tool, which is also the one of the .exe of that name.    *)
ASSUME StemAssumption ==
    \A e \in ConsoleLines :
        /\ \A f \in ConsoleLines : Stem(e.name) = Stem(f.name) => e.callable = f.callable
        /\ \A p \in Package :
              Stem(e.name) \in DOMAIN Exe[p] => Exe[p][Stem(e.name)] = e.callable

VARIABLES
    stage,      \* what the running script does next, or "prompt"
    packageNo,  \* the line of the list it is at
    entryNo,    \* the entry point of that package, or the extra file
    version,    \* of each package: "absent", "listed" or "other"
    scripts,    \* what each launcher script starts
    cmds,       \* which script each .cmd file starts
    exes,       \* what each .exe file starts
    extras,     \* the files copied into the distribution
    patched,    \* whether the package that is patched has its patch
    marker,     \* whether asyncio.py.orig is there
    failed,     \* the running script was kept from removing an .exe
    cuts        \* history: how many runs were cut off

position == <<stage, packageNo, entryNo>>
launchers == <<scripts, cmds, exes>>
patching == <<patched, marker>>
history == <<failed, cuts>>
vars == <<position, version, launchers, extras, patching, history>>

Stages == {"prompt", "extras", "copying", "pip", "list", "entry", "script",
           "cmd", "writing", "exe", "delete", "patch", "end"}

LauncherTypeOK ==
    /\ stage \in Stages
    /\ packageNo \in Nat \ {0} /\ entryNo \in Nat \ {0}
    /\ version \in [Package -> {"absent", "listed", "other"}]
    /\ scripts \in [Name -> Callable \union {Absent, Torn}]
    /\ cmds \in [Name -> Name \union {Absent, Torn}]
    /\ exes \in [Name -> Callable \union {Absent}]
    /\ extras \in [DOMAIN Extras -> {"absent", "torn", "whole"}]
    /\ patched \in BOOLEAN /\ marker \in BOOLEAN
    /\ failed \in BOOLEAN
    /\ cuts \in 0..MaxCuts

Goto(from, to) == stage = from /\ stage' = to
Stay == UNCHANGED <<packageNo, entryNo>>

(* The launchers there are once pip has installed the packages `new`.      *)
Installed(old, new) ==
    [n \in Name |->
        IF \E p \in new : n \in DOMAIN Exe[p]
        THEN LET p == CHOOSE p \in new : n \in DOMAIN Exe[p] IN Exe[p][n]
        ELSE old[n]]

(* The versions pip may choose.                                            *)
VersionChoices ==
    {choice \in [Package -> {"listed", "other"}] :
        \A p \in Package : choice[p] \in Versions[p]}

LauncherInit ==
    /\ stage = "prompt" /\ packageNo = 1 /\ entryNo = 1
    /\ \E choice \in VersionChoices :
         version = [p \in Package |-> IF p \in Bundled THEN choice[p] ELSE "absent"]
    /\ scripts = [n \in Name |-> Absent]
    /\ cmds = [n \in Name |-> Absent]
    /\ exes = Installed([n \in Name |-> Absent], Bundled)
    /\ extras = [i \in DOMAIN Extras |-> "absent"]
    /\ patched = FALSE /\ marker = FALSE
    /\ failed = FALSE /\ cuts = 0

-----------------------------------------------------------------------------
(* Mutant of Begin: packages are counted from zero.                        *)
BeginAtZero ==
    /\ Goto("prompt", "extras")
    /\ packageNo' = 0 /\ entryNo' = 1
    /\ failed' = FALSE
    /\ UNCHANGED <<version, launchers, extras, patching, cuts>>

Begin ==
    /\ Goto("prompt", "extras")
    /\ packageNo' = 1 /\ entryNo' = 1
    /\ failed' = FALSE
    /\ UNCHANGED <<version, launchers, extras, patching, cuts>>

(* if not exist ... copy /Y                                                *)
SkipExtra ==
    /\ stage = "extras" /\ entryNo \in DOMAIN Extras
    /\ extras[entryNo] # "absent"
    /\ entryNo' = entryNo + 1
    /\ UNCHANGED <<stage, packageNo, version, launchers, extras, patching, history>>

OpenExtra ==
    /\ entryNo \in DOMAIN Extras
    /\ extras[entryNo] = "absent"
    /\ Goto("extras", "copying")
    /\ extras' = [extras EXCEPT ![entryNo] = "torn"]
    /\ UNCHANGED <<packageNo, entryNo, version, launchers, patching, history>>

CloseExtra ==
    /\ entryNo \in DOMAIN Extras
    /\ Goto("copying", "extras")
    /\ extras' = [extras EXCEPT ![entryNo] = "whole"]
    /\ entryNo' = entryNo + 1
    /\ UNCHANGED <<packageNo, version, launchers, patching, history>>

ExtrasDone ==
    /\ entryNo \notin DOMAIN Extras
    /\ Goto("extras", "pip")
    /\ Stay
    /\ UNCHANGED <<version, launchers, extras, patching, history>>

(* pip installs the packages `new`, for the first time or because another  *)
(* one asks for another version; no version is pinned.  (Of an upgraded    *)
(* package the script of an earlier launcher is removed; the .exe that     *)
(* comes with it starts the tool in its place.)                            *)
Pip(new) ==
    /\ \E choice \in VersionChoices :
         version' = [p \in Package |-> IF p \in new THEN choice[p] ELSE version[p]]
    /\ exes' = Installed(exes, new)
    /\ patched' = (patched /\ Patchable \notin new)
    /\ UNCHANGED <<scripts, cmds, extras, marker>>

PipSucceeds ==
    /\ Goto("pip", "list")
    /\ \E new \in SUBSET Package :
         /\ \A p \in Package \ new : version[p] # "absent"
         /\ Pip(new)
    /\ Stay
    /\ UNCHANGED history

(* No answer from the server, or a console that is closed: what has been   *)
(* installed by then stays.                                                *)
PipFails ==
    /\ Goto("pip", "prompt")
    /\ \E new \in SUBSET Package : Pip(new)
    /\ cuts < MaxCuts
    /\ cuts' = cuts + 1
    /\ Stay
    /\ UNCHANGED failed

-----------------------------------------------------------------------------
Current == Listed[packageNo]
Entries == EntryPoints[Current]
Entry == Entries[entryNo]

(* Mutant of MissingInfo: the list is given up.                            *)
MissingInfoEnds ==
    /\ packageNo \in DOMAIN Listed
    /\ version[Current] # "listed"
    /\ Goto("list", "delete")
    /\ UNCHANGED <<packageNo, entryNo, version, launchers, extras, patching, history>>

(* There is no dist-info directory of that version: the program fails, and *)
(* its exit code is not looked at.                                         *)
MissingInfo ==
    /\ stage = "list"
    /\ packageNo \in DOMAIN Listed
    /\ version[Current] # "listed"
    /\ packageNo' = packageNo + 1
    /\ UNCHANGED <<stage, entryNo, version, launchers, extras, patching, history>>

ReadInfo ==
    /\ packageNo \in DOMAIN Listed
    /\ version[Current] = "listed"
    /\ Goto("list", "entry")
    /\ entryNo' = 1
    /\ UNCHANGED <<packageNo, version, launchers, extras, patching, history>>

SkipLine ==
    /\ stage = "entry"
    /\ entryNo \in DOMAIN Entries
    /\ ~InScriptSection(Entry)
    /\ entryNo' = entryNo + 1
    /\ UNCHANGED <<stage, packageNo, version, launchers, extras, patching, history>>

(* Mutant of OpenScript: the launchers of an earlier run are kept.         *)
OpenMissingScript ==
    /\ stage = "entry" /\ entryNo \in DOMAIN Entries
    /\ InScriptSection(Entry)
    /\ IF scripts[Entry.name] = Absent
       THEN /\ Goto("entry", "script")
            /\ scripts' = [scripts EXCEPT ![Entry.name] = Torn]
       ELSE Goto("entry", "cmd") /\ UNCHANGED scripts
    /\ Stay
    /\ UNCHANGED <<version, cmds, exes, extras, patching, history>>

OpenScript ==
    /\ Goto("entry", "script")
    /\ entryNo \in DOMAIN Entries
    /\ InScriptSection(Entry)
    /\ scripts' = [scripts EXCEPT ![Entry.name] = Torn]
    /\ Stay
    /\ UNCHANGED <<version, cmds, exes, extras, patching, history>>

CloseScript ==
    /\ Goto("script", "cmd")
    /\ scripts' = [scripts EXCEPT ![Entry.name] = Entry.callable]
    /\ Stay
    /\ UNCHANGED <<version, cmds, exes, extras, patching, history>>

(* Mutant of OpenCmd: the .exe goes before the .cmd is there.              *)
OpenCmdWithoutExe ==
    /\ Goto("cmd", "writing")
    /\ cmds' = [cmds EXCEPT ![Stem(Entry.name)] = Torn]
    /\ exes' = [exes EXCEPT ![Stem(Entry.name)] = Absent]
    /\ Stay
    /\ UNCHANGED <<version, scripts, extras, patching, history>>

OpenCmd ==
    /\ Goto("cmd", "writing")
    /\ cmds' = [cmds EXCEPT ![Stem(Entry.name)] = Torn]
    /\ Stay
    /\ UNCHANGED <<version, scripts, exes, extras, patching, history>>

CloseCmd ==
    /\ Goto("writing", "exe")
    /\ cmds' = [cmds EXCEPT ![Stem(Entry.name)] = Entry.name]
    /\ Stay
    /\ UNCHANGED <<version, scripts, exes, extras, patching, history>>

(* WindowsCmdMaker.post_process with --rm_exe                              *)
RemoveExe ==
    /\ Goto("exe", "entry")
    /\ exes' = [exes EXCEPT ![Stem(Entry.name)] = Absent]
    /\ entryNo' = entryNo + 1
    /\ UNCHANGED <<packageNo, version, scripts, cmds, extras, patching, history>>

(* The launcher is running and cannot be removed: the program ends with an *)
(* exception, before the package's other entry points, and the script goes *)
(* on with the next package.                                               *)
ExeInUse ==
    /\ Goto("exe", "list")
    /\ exes[Stem(Entry.name)] # Absent
    /\ packageNo' = packageNo + 1
    /\ failed' = TRUE
    /\ UNCHANGED <<entryNo, version, launchers, extras, patching, cuts>>

EntriesDone ==
    /\ Goto("entry", "list")
    /\ entryNo \notin DOMAIN Entries
    /\ packageNo' = packageNo + 1
    /\ UNCHANGED <<entryNo, version, launchers, extras, patching, history>>

ListDone ==
    /\ packageNo \notin DOMAIN Listed
    /\ Goto("list", "delete")
    /\ Stay
    /\ UNCHANGED <<version, launchers, extras, patching, history>>

-----------------------------------------------------------------------------
(* Two `del` commands, of which a run may do the first only.               *)
DeleteSurplus ==
    /\ stage = "delete"
    /\ \E n \in Surplus :
         /\ exes[n] # Absent
         /\ exes' = [exes EXCEPT ![n] = Absent]
    /\ UNCHANGED <<position, version, scripts, cmds, extras, patching, history>>

SurplusDeleted ==
    /\ \A n \in Surplus : exes[n] = Absent
    /\ Goto("delete", "patch")
    /\ Stay
    /\ UNCHANGED <<version, launchers, extras, patching, history>>

SkipPatch ==
    /\ marker
    /\ Goto("patch", "end")
    /\ UNCHANGED <<packageNo, entryNo, version, launchers, extras, patching, history>>

(* patch -p0 finds its file in the Python prefix only, and nothing has     *)
(* gone there: it does something when the operator started from it.        *)
(* Without --backup the .orig file is made only if the text was not quite  *)
(* what the patch expects, also when its hunks are then rejected and the   *)
(* file stays as it was.  What is patched is left so or, if the operator   *)
(* agrees, the patch is taken out.                                         *)
ApplyPatch ==
    /\ ~marker
    /\ Goto("patch", "end")
    /\ patched' \in BOOLEAN
    /\ marker' \in BOOLEAN
    /\ Stay
    /\ UNCHANGED <<version, launchers, extras, history>>

End ==
    /\ Goto("end", "prompt")
    /\ Stay
    /\ UNCHANGED <<version, launchers, extras, patching, history>>

Interrupt ==
    /\ stage # "prompt"
    /\ cuts < MaxCuts
    /\ stage' = "prompt"
    /\ cuts' = cuts + 1
    /\ Stay
    /\ UNCHANGED <<version, launchers, extras, patching, failed>>

CopyExtras == SkipExtra \/ OpenExtra \/ CloseExtra \/ ExtrasDone
WriteLaunchers == \/ MissingInfo \/ ReadInfo \/ SkipLine \/ OpenScript \/ CloseScript \/ OpenCmd
                  \/ CloseCmd \/ RemoveExe \/ ExeInUse \/ EntriesDone \/ ListDone
Finalize == DeleteSurplus \/ SurplusDeleted \/ SkipPatch \/ ApplyPatch \/ End

LauncherNext ==
    Begin \/ CopyExtras \/ PipSucceeds \/ PipFails \/ WriteLaunchers \/ Finalize
      \/ Interrupt

LauncherSpec == LauncherInit /\ [][LauncherNext]_vars

-----------------------------------------------------------------------------
(* What the relocatable launcher of a name starts: nothing if one of its   *)
(* two files is missing or empty, and nothing if the script imports a      *)
(* dotted name, which is no Python.                                        *)
Relocatable(n) ==
    IF cmds[n] \in Name /\ scripts[cmds[n]] \in Callable \ Dotted
    THEN scripts[cmds[n]] ELSE Absent

(* What typing a name starts; .exe comes before .cmd.                      *)
Starts(n) == IF exes[n] # Absent THEN exes[n] ELSE Relocatable(n)

(* Whatever was cut off or failed before, and whatever else shares its     *)
(* stem: write-launcher-script.py removes an .exe only when the .cmd of    *)
(* its name starts the same tool.  Dotted callables are the subject of     *)
(* EveryExeIsReplaced.                                                     *)
ExesAreReplaced ==
    [][stage \notin {"pip", "delete"} =>
        \A n \in Name : exes'[n] # exes[n] /\ exes[n] \notin Dotted =>
            Starts(n)' = exes[n]]_vars

(* What the comment at fixup-python3.bat:39 says: "replace the .exe        *)
(* launchers with relocatable files", without exception.                   *)
EveryExeIsReplaced ==
    [][stage \notin {"pip", "delete"} =>
        \A n \in Name : exes'[n] # exes[n] => Starts(n)' = exes[n]]_vars

(* The .exe files that the end of fixup-python3.bat deletes "are not       *)
(* required as others exist that cover them": some launcher starts the     *)
(* same tool when one of them goes, whatever became of earlier runs.       *)
DeletedAreCovered ==
    [][stage = "delete" =>
        \A n \in Name : exes'[n] # exes[n] => \E m \in Name : Starts(m)' = exes[n]]_vars

(* When a run has come to its end, every tool of every installed package   *)
(* starts under its own name: launchers left empty by earlier runs have    *)
(* been written again, and packages the list does not know in their        *)
(* version have kept what pip made.                                        *)
ToolsStart ==
    stage = "end" /\ ~failed =>
        \A p \in Package : \A n \in DOMAIN Exe[p] \ Surplus :
            version[p] # "absent" /\ Exe[p][n] \notin Dotted =>
                Starts(n) = Exe[p][n]

(* Then, too, every tool of a package in its listed version is started by  *)
(* files that can be moved to another machine, and no .exe is in their way.*)
ListedAreRelocatable ==
    stage = "end" /\ ~failed =>
        \A k \in DOMAIN Listed : \A i \in DOMAIN EntryPoints[Listed[k]] :
            LET e == EntryPoints[Listed[k]][i] IN
            version[Listed[k]] = "listed" /\ e.console =>
                /\ exes[Stem(e.name)] = Absent
                /\ e.callable \notin Dotted => Relocatable(Stem(e.name)) = e.callable

(* At no time, in whatever state a run has left the launchers, does the    *)
(* name of one tool start another.                                         *)
NamesAreNotMixedUp ==
    \A p \in Package : \A i \in DOMAIN EntryPoints[p] :
        LET e == EntryPoints[p][i] IN
        e.console => Relocatable(Stem(e.name)) \in {e.callable, Absent}

-----------------------------------------------------------------------------
(* What ToolsStart and DeletedAreCovered rest on, in the packages.  An     *)
(* .exe of one name starts one tool.                                       *)
OneToolPerExe ==
    \A p, q \in Package : \A n \in DOMAIN Exe[p] \intersect DOMAIN Exe[q] :
        Exe[p][n] = Exe[q][n]

ConsoleLinesOf(p) == {i \in DOMAIN EntryPoints[p] : EntryPoints[p][i].console}
StemOf(p, i) == Stem(EntryPoints[p][i].name)

(* The .exe that a line of a package stands in for comes with the package, *)
(* so that another version of it brings its .exe back.                     *)
ExesComeWithTheirLines ==
    \A k \in DOMAIN Listed : \A i \in ConsoleLinesOf(Listed[k]) : \A p \in Package :
        StemOf(Listed[k], i) \in DOMAIN Exe[p] \ Surplus
            => StemOf(Listed[k], i) \in DOMAIN Exe[Listed[k]]

(* The launcher that covers a deleted one is made from the first line of   *)
(* its package, which no failure at another line keeps from being read.    *)
FirstLine(p, i) == \A j \in ConsoleLinesOf(p) : i <= j

SurplusIsCovered ==
    \A p \in Package : \A n \in DOMAIN Exe[p] \intersect Surplus :
        /\ Exe[p][n] \notin Dotted
        /\ \E m \in DOMAIN Exe[p] \ Surplus :
             /\ Exe[p][m] = Exe[p][n]
             /\ \A k \in DOMAIN Listed : \A i \in ConsoleLinesOf(Listed[k]) :
                  StemOf(Listed[k], i) = m => FirstLine(Listed[k], i)
=============================================================================
