-------------------------------- MODULE PyQt --------------------------------
(***************************************************************************)
(* build-pyqt4.bat and build-pyqt5.bat, with build-sip.cmd inside: the     *)
(* private sip module and the PyQt package, built twice from two source    *)
(* trees (debug first, then release) and installed into the bundled Python.*)
(* A run removes what it finds of an older build before it knows that the  *)
(* new one succeeds, ignores every failure, and may be cut off between any *)
(* two commands; the next run starts from what is on disk.                 *)
(*                                                                         *)
(* The two scripts share their text but for what the constants name.       *)
(***************************************************************************)
CONSTANTS
    Script,             \* build-pyqt4.bat, build-pyqt5.bat
    DebugDirMakers,     \* try-mkdir of debug\PyQtN before sip is copied there
    ReleaseGuards,      \* the release build runs only in a fresh source tree
    SipconfigFixers     \* build-sip without libonly: it rewrites sipconfig.py;
                        \* the others rewrite pyqtconfig.py at the end

ASSUME PyQtAssumption ==
    DebugDirMakers \union ReleaseGuards \union SipconfigFixers \subseteq Script

VARIABLES
    script,     \* the one that is followed
    stage,      \* the command the run has reached, or "prompt"
    relSip,     \* Lib\site-packages\PyQtN\sip.pyd
    relPkg,     \* the rest of Lib\site-packages\PyQtN
    debugPath,  \* what debug\PyQtN is: "absent", "dir", or a "file"
    debugSip,   \* debug\PyQtN\sip.pyd
    debugPkg,   \* the rest of debug\PyQtN
    tools,      \* pyrcc, pylupdate and pyuic: by whom they were installed
    config,     \* the generated configuration module that gets rewritten
    saved,      \* its .bak copy
    trees,      \* the source trees that exist
    failed      \* what went wrong in this run

installed == <<relSip, relPkg, debugPath, debugSip, debugPkg, tools>>
configs == <<config, saved>>
vars == <<script, stage, installed, configs, trees, failed>>

(* Installed by this run, by an earlier one, or not there.                 *)
Ages == {"absent", "old", "new"}

(* "raw": as generated, with paths of this machine; "fixed": rewritten to  *)
(* relative paths; "empty": what a redirection leaves when python fails.   *)
ConfigStates == {"absent", "raw", "fixed", "empty"}

Builds == {"debug", "release"}

MakesDebugDir == script \in DebugDirMakers
GuardsRelease == script \in ReleaseGuards
FixesSipconfig == script \in SipconfigFixers

PyQtTypeOK ==
    /\ script \in Script
    /\ stage \in {"prompt", "clean", "cleanDebug", "cleanTools", "sip",
                  "move", "rewrite", "delete", "copy",
                  "debugTree", "debug", "releaseTree", "release", "end"}
    /\ relSip \in Ages /\ relPkg \in Ages
    /\ debugPath \in {"absent", "dir", "file"}
    /\ debugSip \in Ages /\ debugPkg \in Ages
    /\ tools \in {"absent"} \union Builds
    /\ config \in ConfigStates /\ saved \in ConfigStates
    /\ debugPath # "dir" => debugSip = "absent" /\ debugPkg = "absent"
    /\ trees \subseteq Builds
    /\ failed \subseteq {"sip", "config"} \union Builds

Goto(from, to) == stage = from /\ stage' = to /\ UNCHANGED script

(* `if exist Lib\site-packages\PyQtN`                                      *)
ReleaseDir == relSip # "absent" \/ relPkg # "absent"

-----------------------------------------------------------------------------
(* Nothing is installed, or what the repository holds: a finished build.   *)
PyQtInit ==
    /\ script \in Script
    /\ stage = "prompt"
    /\ \/ /\ relSip = "absent" /\ relPkg = "absent"
          /\ debugPath = "absent" /\ debugSip = "absent" /\ debugPkg = "absent"
          /\ tools = "absent" /\ config = "absent"
       \/ /\ relSip = "old" /\ relPkg = "old"
          /\ debugPath = "dir" /\ debugSip = "old" /\ debugPkg = "old"
          /\ tools = "release" /\ config = "fixed"
    /\ saved = "absent"
    /\ trees = {} /\ failed = {}

Aged(age) == IF age = "new" THEN "old" ELSE age

(* The script is started; what is installed is now of an earlier run.      *)
Begin ==
    /\ Goto("prompt", "clean")
    /\ relSip' = Aged(relSip) /\ relPkg' = Aged(relPkg)
    /\ debugSip' = Aged(debugSip) /\ debugPkg' = Aged(debugPkg)
    /\ failed' = {}
    /\ UNCHANGED <<debugPath, tools, configs, trees>>

SkipClean ==
    /\ ~ReleaseDir
    /\ Goto("clean", "sip")
    /\ UNCHANGED <<installed, configs, trees, failed>>

(* Mutant of CleanRelease: sip.pyd is left where it is.                    *)
CleanReleaseButSip ==
    /\ ReleaseDir
    /\ Goto("clean", "cleanDebug")
    /\ relPkg' = "absent"
    /\ config' = IF FixesSipconfig THEN config ELSE "absent"
    /\ saved' = IF FixesSipconfig THEN saved ELSE "absent"
    /\ UNCHANGED <<relSip, debugPath, debugSip, debugPkg, tools, trees, failed>>

(* pyqtconfig.py and its copy are inside the package, sipconfig.py is not. *)
CleanRelease ==
    /\ ReleaseDir
    /\ Goto("clean", "cleanDebug")
    /\ relSip' = "absent" /\ relPkg' = "absent"
    /\ config' = IF FixesSipconfig THEN config ELSE "absent"
    /\ saved' = IF FixesSipconfig THEN saved ELSE "absent"
    /\ UNCHANGED <<debugPath, debugSip, debugPkg, tools, trees, failed>>

(* rmdir removes directories only.                                         *)
CleanDebug ==
    /\ Goto("cleanDebug", "cleanTools")
    /\ debugPath' = IF debugPath = "dir" THEN "absent" ELSE debugPath
    /\ debugSip' = "absent" /\ debugPkg' = "absent"
    /\ UNCHANGED <<relSip, relPkg, tools, configs, trees, failed>>

CleanTools ==
    /\ Goto("cleanTools", "sip")
    /\ tools' = "absent"
    /\ UNCHANGED <<relSip, relPkg, debugPath, debugSip, debugPkg, configs, trees, failed>>

AfterSip == IF FixesSipconfig THEN "move" ELSE "copy"

(* build-sip.cmd: configure, nmake and nmake install, which brings a fresh *)
(* sipconfig.py unless only siplib is installed.                           *)
BuildSip ==
    /\ Goto("sip", AfterSip)
    /\ relSip' = "new"
    /\ config' = IF FixesSipconfig THEN "raw" ELSE config
    /\ UNCHANGED <<relPkg, debugPath, debugSip, debugPkg, tools, saved, trees, failed>>

BuildSipFails ==
    /\ Goto("sip", AfterSip)
    /\ failed' = failed \union {"sip"}
    /\ UNCHANGED <<installed, configs, trees>>

-----------------------------------------------------------------------------
(* The configuration module is moved aside, rewritten from the copy by way *)
(* of a redirection, and the copy deleted.                                 *)
AfterFix == IF FixesSipconfig THEN "copy" ELSE "end"

MoveConfig ==
    /\ Goto("move", "rewrite")
    /\ saved' = IF config = "absent" THEN saved ELSE config
    /\ config' = "absent"
    /\ UNCHANGED <<installed, trees, failed>>

(* Mutant of RewriteConfig: reads the file it writes to.                   *)
RewriteConfigInPlace ==
    /\ Goto("rewrite", "delete")
    /\ config' = "empty"
    /\ UNCHANGED <<installed, saved, trees, failed>>

(* The redirection creates the file in any case where there is a directory *)
(* for it.  The rewriting script wants a prefix it can find: a module it   *)
(* has rewritten before, an empty one or none make it raise an exception.  *)
RewriteConfig ==
    /\ Goto("rewrite", "delete")
    /\ config' = CASE saved = "raw" -> "fixed"
                   [] ~FixesSipconfig /\ ~ReleaseDir -> "absent"
                   [] OTHER -> "empty"
    /\ UNCHANGED <<installed, saved, trees, failed>>

(* A generated module may be beyond it too: python does not start, or no   *)
(* line has the form the script looks for.                                 *)
RewriteConfigFails ==
    /\ saved = "raw"
    /\ Goto("rewrite", "delete")
    /\ config' = "empty"
    /\ failed' = failed \union {"config"}
    /\ UNCHANGED <<installed, saved, trees>>

DeleteSaved ==
    /\ Goto("delete", AfterFix)
    /\ saved' = "absent"
    /\ UNCHANGED <<installed, config, trees, failed>>

-----------------------------------------------------------------------------
(* `copy` puts sip.pyd into a directory of the given name, and into a file *)
(* of that name where there is no such directory.                          *)
SipCopied(path) ==
    IF relSip = "absent"
    THEN debugPath' = path /\ UNCHANGED debugSip
    ELSE /\ debugPath' = IF path = "dir" THEN "dir" ELSE "file"
         /\ debugSip' = IF path = "dir" THEN relSip ELSE debugSip

(* Mutant of CopySip: without try-mkdir.                                   *)
CopySipBlindly ==
    /\ Goto("copy", "debugTree")
    /\ SipCopied(debugPath)
    /\ UNCHANGED <<relSip, relPkg, debugPkg, tools, configs, trees, failed>>

CopySip ==
    /\ Goto("copy", "debugTree")
    /\ SipCopied(IF MakesDebugDir /\ debugPath = "absent" THEN "dir" ELSE debugPath)
    /\ UNCHANGED <<relSip, relPkg, debugPkg, tools, configs, trees, failed>>

(* :do-build unpacks its tree where it is missing.                         *)
DebugTree ==
    /\ Goto("debugTree", "debug")
    /\ trees' = trees \union {"debug"}
    /\ UNCHANGED <<installed, configs, failed>>

(* Mutant of DebugBuild: the installation does not make its directory.     *)
DebugBuildNoDir ==
    /\ debugPath # "file"
    /\ Goto("debug", "releaseTree")
    /\ debugPkg' = "new"
    /\ tools' = "debug"
    /\ UNCHANGED <<relSip, relPkg, debugPath, debugSip, configs, trees, failed>>

DebugBuild ==
    /\ debugPath # "file"
    /\ Goto("debug", "releaseTree")
    /\ debugPath' = "dir"
    /\ debugPkg' = "new"
    /\ tools' = "debug"
    /\ UNCHANGED <<relSip, relPkg, debugSip, configs, trees, failed>>

(* The build breaks, or there is no directory to install into.             *)
DebugBuildFails ==
    /\ Goto("debug", "releaseTree")
    /\ failed' = failed \union {"debug"}
    /\ UNCHANGED <<installed, configs, trees>>

AfterRelease == IF FixesSipconfig THEN "end" ELSE "move"

(* Mutant of SkipRelease: the same guard in both scripts.                  *)
SkipReleaseInBoth ==
    /\ "release" \in trees
    /\ Goto("releaseTree", AfterRelease)
    /\ UNCHANGED <<installed, configs, trees, failed>>

(* if not exist %EXTRACTED_SRC% call:do-build release                      *)
SkipRelease ==
    /\ GuardsRelease
    /\ "release" \in trees
    /\ Goto("releaseTree", AfterRelease)
    /\ UNCHANGED <<installed, configs, trees, failed>>

ReleaseTree ==
    /\ GuardsRelease => "release" \notin trees
    /\ Goto("releaseTree", "release")
    /\ trees' = trees \union {"release"}
    /\ UNCHANGED <<installed, configs, failed>>

ReleaseBuild ==
    /\ Goto("release", AfterRelease)
    /\ relPkg' = "new"
    /\ tools' = "release"
    /\ config' = IF FixesSipconfig THEN config ELSE "raw"
    /\ UNCHANGED <<relSip, debugPath, debugSip, debugPkg, saved, trees, failed>>

ReleaseBuildFails ==
    /\ Goto("release", AfterRelease)
    /\ failed' = failed \union {"release"}
    /\ UNCHANGED <<installed, configs, trees>>

End ==
    /\ Goto("end", "prompt")
    /\ UNCHANGED <<installed, configs, trees, failed>>

(* Ctrl-C, a closed console, a power cut.                                  *)
Interrupt ==
    /\ stage # "prompt"
    /\ stage' = "prompt"
    /\ config' \in IF stage = "rewrite" /\ (FixesSipconfig \/ ReleaseDir)
                   THEN {config, "empty"} ELSE {config}
    /\ UNCHANGED <<script, installed, saved, trees, failed>>

CleanStep == SkipClean \/ CleanRelease \/ CleanDebug \/ CleanTools
SipStep == BuildSip \/ BuildSipFails \/ CopySip
ConfigStep == MoveConfig \/ RewriteConfig \/ RewriteConfigFails \/ DeleteSaved
BuildStep ==
    \/ DebugTree \/ DebugBuild \/ DebugBuildFails
    \/ SkipRelease \/ ReleaseTree \/ ReleaseBuild \/ ReleaseBuildFails

PyQtNext == Begin \/ CleanStep \/ SipStep \/ ConfigStep \/ BuildStep \/ End \/ Interrupt

PyQtSpec == PyQtInit /\ [][PyQtNext]_vars

-----------------------------------------------------------------------------
(* "debug build first so that release exes for pyrcc etc are installed     *)
(* over the debug ones": when a run comes to its end and its release build *)
(* did not fail, the tools and the package are those of the release build, *)
(* whatever earlier runs did and wherever they were cut off.               *)
ReleaseToolsOnTop ==
    stage = "end" /\ "release" \notin failed
        => tools = "release" /\ relPkg = "new"

(* It does so for a script that builds the release whether or not its tree *)
(* is there.                                                               *)
ReleaseToolsWin == ~GuardsRelease => ReleaseToolsOnTop

(* "Copy private PyQt5.sip from release to debug as sip won't have done    *)
(* this": with a sip that was built, the debug package directory holds it  *)
(* before the debug build starts.                                          *)
DebugHasItsSip ==
    stage = "debugTree" /\ "sip" \notin failed
        => debugPath = "dir" /\ debugSip = "new"

(* It does for a script that makes the directory first, whatever stands    *)
(* in its place.                                                           *)
SipFindsItsDir == MakesDebugDir => DebugHasItsSip

(* No run leaves a package beside the sip module of an earlier run: the    *)
(* cleaning at the start sees to that even if it is cut off, or if the sip *)
(* build fails after it and the package is built all the same.             *)
NoOldSip == relPkg = "new" => relSip # "old"

(* Whether this run has generated the module that is rewritten.            *)
Generated == IF FixesSipconfig THEN "sip" \notin failed ELSE relPkg = "new"

(* "Fix the sipconfig file so that it is relocatable": whatever python     *)
(* answers and wherever earlier runs were cut off, a run that comes to its *)
(* end leaves no module with the paths of this machine and no copy of one; *)
(* and if it generated the module, only python can have kept it from       *)
(* leaving a relocatable one.                                              *)
ConfigIsFixed ==
    stage = "end" =>
        /\ config # "raw" /\ saved = "absent"
        /\ Generated /\ "config" \notin failed => config = "fixed"
=============================================================================
