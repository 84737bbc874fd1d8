----------------------------- MODULE PyQtProofs -----------------------------
(***************************************************************************)
(* What PyQt's cleaning and build order guarantee, for either script.      *)
(***************************************************************************)
EXTENDS PyQt, TLAPS

(* Every action by name, for the proofs.                                   *)
LEMMA Steps ==
    ASSUME PyQtNext
    PROVE  \/ Begin \/ SkipClean \/ CleanRelease \/ CleanDebug \/ CleanTools
           \/ BuildSip \/ BuildSipFails \/ CopySip
           \/ MoveConfig \/ RewriteConfig \/ RewriteConfigFails \/ DeleteSaved
           \/ DebugTree \/ DebugBuild \/ DebugBuildFails
           \/ SkipRelease \/ ReleaseTree \/ ReleaseBuild \/ ReleaseBuildFails
           \/ End \/ Interrupt
  BY DEF PyQtNext, CleanStep, SipStep, ConfigStep, BuildStep

(* Type correctness: every file and directory the script touches is in one *)
(* of the states the module tells apart, after any number of runs.         *)
THEOREM PyQtTypeCorrect == PyQtSpec => []PyQtTypeOK
<1>1. PyQtInit => PyQtTypeOK
  BY DEF PyQtInit, PyQtTypeOK, Ages, Builds, ConfigStates
<1>2. PyQtTypeOK /\ [PyQtNext]_vars => PyQtTypeOK'
  <2> SUFFICES ASSUME PyQtTypeOK, [PyQtNext]_vars PROVE PyQtTypeOK'
    OBVIOUS
  <2> USE DEF PyQtTypeOK, Ages, Builds, ConfigStates, Goto, installed, configs
  <2>1. CASE Begin BY <2>1 DEF Begin, Aged
  <2>2. CASE SkipClean BY <2>2 DEF SkipClean
  <2>3. CASE CleanRelease BY <2>3 DEF CleanRelease
  <2>4. CASE CleanDebug BY <2>4 DEF CleanDebug
  <2>5. CASE CleanTools BY <2>5 DEF CleanTools
  <2>6. CASE BuildSip BY <2>6 DEF BuildSip, AfterSip
  <2>7. CASE BuildSipFails BY <2>7 DEF BuildSipFails, AfterSip
  <2>8. CASE CopySip BY <2>8 DEF CopySip, SipCopied
  <2>9. CASE MoveConfig BY <2>9 DEF MoveConfig
  <2>10. CASE RewriteConfig BY <2>10 DEF RewriteConfig
  <2>22. CASE RewriteConfigFails BY <2>22 DEF RewriteConfigFails
  <2>11. CASE DeleteSaved BY <2>11 DEF DeleteSaved, AfterFix
  <2>12. CASE DebugTree BY <2>12 DEF DebugTree
  <2>13. CASE DebugBuild BY <2>13 DEF DebugBuild
  <2>14. CASE DebugBuildFails BY <2>14 DEF DebugBuildFails
  <2>15. CASE SkipRelease BY <2>15 DEF SkipRelease, AfterRelease
  <2>16. CASE ReleaseTree BY <2>16 DEF ReleaseTree
  <2>17. CASE ReleaseBuild BY <2>17 DEF ReleaseBuild, AfterRelease
  <2>18. CASE ReleaseBuildFails BY <2>18 DEF ReleaseBuildFails, AfterRelease
  <2>19. CASE End BY <2>19 DEF End
  <2>20. CASE Interrupt BY <2>20 DEF Interrupt
  <2>21. CASE UNCHANGED vars BY <2>21 DEF vars
  <2> QED
    BY Steps, <2>1, <2>2, <2>3, <2>4, <2>5, <2>6, <2>7, <2>8, <2>9, <2>10, <2>11,
       <2>12, <2>13, <2>14, <2>15, <2>16, <2>17, <2>18, <2>19, <2>20, <2>21, <2>22
<1> QED
  BY <1>1, <1>2, PTL DEF PyQtSpec

-----------------------------------------------------------------------------
(* Why the sip module is never older than the package: past the cleaning   *)
(* there is none of an earlier run, and no package of this one before it.  *)
SipInv ==
    /\ stage \notin {"prompt", "clean"} => relSip # "old"
    /\ stage = "clean" => relPkg # "new"
    /\ NoOldSip

(* No run leaves a package beside the sip module of an earlier run,        *)
(* wherever it was cut off and whatever failed.                            *)
THEOREM SipIsNeverOlder == PyQtSpec => []NoOldSip
<1>1. PyQtInit => SipInv
  BY DEF PyQtInit, SipInv, NoOldSip
<1>2. SipInv /\ [PyQtNext]_vars => SipInv'
  <2> SUFFICES ASSUME SipInv, [PyQtNext]_vars PROVE SipInv'
    OBVIOUS
  <2> USE DEF SipInv, NoOldSip, Goto, installed
  <2>1. CASE Begin BY <2>1 DEF Begin, Aged
  <2>2. CASE SkipClean BY <2>2 DEF SkipClean, ReleaseDir
  <2>3. CASE CleanRelease BY <2>3 DEF CleanRelease
  <2>4. CASE CleanDebug BY <2>4 DEF CleanDebug
  <2>5. CASE CleanTools BY <2>5 DEF CleanTools
  <2>6. CASE BuildSip BY <2>6 DEF BuildSip, AfterSip
  <2>7. CASE BuildSipFails BY <2>7 DEF BuildSipFails, AfterSip
  <2>8. CASE CopySip BY <2>8 DEF CopySip
  <2>9. CASE MoveConfig BY <2>9 DEF MoveConfig
  <2>10. CASE RewriteConfig BY <2>10 DEF RewriteConfig
  <2>22. CASE RewriteConfigFails BY <2>22 DEF RewriteConfigFails
  <2>11. CASE DeleteSaved BY <2>11 DEF DeleteSaved, AfterFix
  <2>12. CASE DebugTree BY <2>12 DEF DebugTree
  <2>13. CASE DebugBuild BY <2>13 DEF DebugBuild
  <2>14. CASE DebugBuildFails BY <2>14 DEF DebugBuildFails
  <2>15. CASE SkipRelease BY <2>15 DEF SkipRelease, AfterRelease
  <2>16. CASE ReleaseTree BY <2>16 DEF ReleaseTree
  <2>17. CASE ReleaseBuild BY <2>17 DEF ReleaseBuild, AfterRelease
  <2>18. CASE ReleaseBuildFails BY <2>18 DEF ReleaseBuildFails, AfterRelease
  <2>19. CASE End BY <2>19 DEF End
  <2>20. CASE Interrupt BY <2>20 DEF Interrupt
  <2>21. CASE UNCHANGED vars BY <2>21 DEF vars
  <2> QED
    BY Steps, <2>1, <2>2, <2>3, <2>4, <2>5, <2>6, <2>7, <2>8, <2>9, <2>10, <2>11,
       <2>12, <2>13, <2>14, <2>15, <2>16, <2>17, <2>18, <2>19, <2>20, <2>21, <2>22
<1>3. SipInv => NoOldSip
  BY DEF SipInv
<1> QED
  BY <1>1, <1>2, <1>3, PTL DEF PyQtSpec

-----------------------------------------------------------------------------
(* The stages behind the release build, for either script.                 *)
AfterReleaseBuild ==
    stage = "end" \/ (~FixesSipconfig /\ stage \in {"move", "rewrite", "delete"})

ToolsInv ==
    ~GuardsRelease /\ AfterReleaseBuild /\ "release" \notin failed
        => tools = "release" /\ relPkg = "new"

(* Without a guard around the release build (build-pyqt5.bat) a run that   *)
(* ends has release tools over the debug ones, and a release package,      *)
(* unless the release build failed in that very run.                       *)
THEOREM ToolsOfTheRelease == PyQtSpec => []ReleaseToolsWin
<1>1. PyQtInit => ToolsInv
  BY DEF PyQtInit, ToolsInv, AfterReleaseBuild
<1>2. ToolsInv /\ [PyQtNext]_vars => ToolsInv'
  <2> SUFFICES ASSUME ToolsInv, [PyQtNext]_vars PROVE ToolsInv'
    OBVIOUS
  <2> USE DEF ToolsInv, AfterReleaseBuild, Goto, installed, GuardsRelease, FixesSipconfig
  <2>1. CASE Begin BY <2>1 DEF Begin
  <2>2. CASE SkipClean BY <2>2 DEF SkipClean
  <2>3. CASE CleanRelease BY <2>3 DEF CleanRelease
  <2>4. CASE CleanDebug BY <2>4 DEF CleanDebug
  <2>5. CASE CleanTools BY <2>5 DEF CleanTools
  <2>6. CASE BuildSip BY <2>6 DEF BuildSip, AfterSip
  <2>7. CASE BuildSipFails BY <2>7 DEF BuildSipFails, AfterSip
  <2>8. CASE CopySip BY <2>8 DEF CopySip
  <2>9. CASE MoveConfig BY <2>9 DEF MoveConfig
  <2>10. CASE RewriteConfig BY <2>10 DEF RewriteConfig
  <2>22. CASE RewriteConfigFails BY <2>22 DEF RewriteConfigFails
  <2>11. CASE DeleteSaved BY <2>11 DEF DeleteSaved, AfterFix
  <2>12. CASE DebugTree BY <2>12 DEF DebugTree
  <2>13. CASE DebugBuild BY <2>13 DEF DebugBuild
  <2>14. CASE DebugBuildFails BY <2>14 DEF DebugBuildFails
  <2>15. CASE SkipRelease BY <2>15 DEF SkipRelease
  <2>16. CASE ReleaseTree BY <2>16 DEF ReleaseTree
  <2>17. CASE ReleaseBuild BY <2>17 DEF ReleaseBuild, AfterRelease
  <2>18. CASE ReleaseBuildFails BY <2>18 DEF ReleaseBuildFails, AfterRelease
  <2>19. CASE End BY <2>19 DEF End
  <2>20. CASE Interrupt BY <2>20 DEF Interrupt
  <2>21. CASE UNCHANGED vars BY <2>21 DEF vars
  <2> QED
    BY Steps, <2>1, <2>2, <2>3, <2>4, <2>5, <2>6, <2>7, <2>8, <2>9, <2>10, <2>11,
       <2>12, <2>13, <2>14, <2>15, <2>16, <2>17, <2>18, <2>19, <2>20, <2>21, <2>22
<1>3. ToolsInv => ReleaseToolsWin
  BY DEF ToolsInv, AfterReleaseBuild, ReleaseToolsOnTop, ReleaseToolsWin
<1> QED
  BY <1>1, <1>2, <1>3, PTL DEF PyQtSpec

-----------------------------------------------------------------------------
(* Between the sip build and the copy, a sip that was built is there; and  *)
(* a script that makes the directory never finds a file in its place.      *)
BeforeCopy ==
    stage = "copy" \/ (FixesSipconfig /\ stage \in {"move", "rewrite", "delete"})

DirInv ==
    MakesDebugDir =>
        /\ debugPath \in {"absent", "dir"}
        /\ BeforeCopy /\ "sip" \notin failed => relSip = "new"
        /\ DebugHasItsSip

(* A script that makes the directory first (build-pyqt4.bat) puts the sip  *)
(* module it has built beside the debug package, whatever runs before it   *)
(* left there.                                                             *)
THEOREM SipIsCopied == PyQtSpec => []SipFindsItsDir
<1>1. PyQtInit => DirInv
  BY DEF PyQtInit, DirInv, BeforeCopy, DebugHasItsSip
<1>2. DirInv /\ [PyQtNext]_vars => DirInv'
  <2> SUFFICES ASSUME DirInv, [PyQtNext]_vars PROVE DirInv'
    OBVIOUS
  <2> USE DEF DirInv, BeforeCopy, DebugHasItsSip, Goto, installed, configs, MakesDebugDir, FixesSipconfig
  <2>1. CASE Begin BY <2>1 DEF Begin, Aged
  <2>2. CASE SkipClean BY <2>2 DEF SkipClean
  <2>3. CASE CleanRelease BY <2>3 DEF CleanRelease
  <2>4. CASE CleanDebug BY <2>4 DEF CleanDebug
  <2>5. CASE CleanTools BY <2>5 DEF CleanTools
  <2>6. CASE BuildSip BY <2>6 DEF BuildSip, AfterSip
  <2>7. CASE BuildSipFails BY <2>7 DEF BuildSipFails, AfterSip
  <2>8. CASE CopySip BY <2>8 DEF CopySip, SipCopied
  <2>9. CASE MoveConfig BY <2>9 DEF MoveConfig
  <2>10. CASE RewriteConfig BY <2>10 DEF RewriteConfig, ReleaseDir
  <2>22. CASE RewriteConfigFails BY <2>22 DEF RewriteConfigFails
  <2>11. CASE DeleteSaved BY <2>11 DEF DeleteSaved, AfterFix
  <2>12. CASE DebugTree BY <2>12 DEF DebugTree
  <2>13. CASE DebugBuild BY <2>13 DEF DebugBuild
  <2>14. CASE DebugBuildFails BY <2>14 DEF DebugBuildFails
  <2>15. CASE SkipRelease BY <2>15 DEF SkipRelease, AfterRelease
  <2>16. CASE ReleaseTree BY <2>16 DEF ReleaseTree
  <2>17. CASE ReleaseBuild BY <2>17 DEF ReleaseBuild, AfterRelease
  <2>18. CASE ReleaseBuildFails BY <2>18 DEF ReleaseBuildFails, AfterRelease
  <2>19. CASE End BY <2>19 DEF End
  <2>20. CASE Interrupt BY <2>20 DEF Interrupt
  <2>21. CASE UNCHANGED vars BY <2>21 DEF vars
  <2> QED
    BY Steps, <2>1, <2>2, <2>3, <2>4, <2>5, <2>6, <2>7, <2>8, <2>9, <2>10, <2>11,
       <2>12, <2>13, <2>14, <2>15, <2>16, <2>17, <2>18, <2>19, <2>20, <2>21, <2>22
<1>3. DirInv => SipFindsItsDir
  BY DEF DirInv, SipFindsItsDir
<1> QED
  BY <1>1, <1>2, <1>3, PTL DEF PyQtSpec

-----------------------------------------------------------------------------
(* The stages that follow the rewriting.                                   *)
AfterDelete ==
    \/ stage = "end"
    \/ FixesSipconfig /\ stage \in {"copy", "debugTree", "debug", "releaseTree", "release"}

Rewritten == Generated /\ "config" \notin failed => config = "fixed"

(* A generated module is where the next command looks for it, nothing      *)
(* counts as generated by this run before it was, and what is moved away   *)
(* does not come back as it was.                                           *)
ConfigInv ==
    /\ ~FixesSipconfig /\ relPkg = "new" =>
           stage \in {"prompt", "move", "rewrite", "delete", "end"}
    /\ stage = "move" /\ Generated => config = "raw"
    /\ stage = "rewrite" /\ Generated => saved = "raw"
    /\ stage = "rewrite" => config = "absent"
    /\ stage = "delete" => config # "raw" /\ Rewritten
    /\ AfterDelete => config # "raw" /\ saved = "absent" /\ Rewritten

(* A run that comes to its end leaves no module with the paths of this     *)
(* machine and no copy of one, and leaves the module it generated          *)
(* relocatable unless python failed on it; for either script, after any    *)
(* failures and interruptions.                                             *)
THEOREM ConfigEndsFixed == PyQtSpec => []ConfigIsFixed
<1>1. PyQtInit => ConfigInv
  BY DEF PyQtInit, ConfigInv, Rewritten, AfterDelete
<1>2. ConfigInv /\ [PyQtNext]_vars => ConfigInv'
  <2> SUFFICES ASSUME ConfigInv, [PyQtNext]_vars PROVE ConfigInv'
    OBVIOUS
  <2> USE DEF ConfigInv, Rewritten, Generated, AfterDelete, Goto, installed, configs, FixesSipconfig
  <2>1. CASE Begin BY <2>1 DEF Begin, Aged
  <2>2. CASE SkipClean BY <2>2 DEF SkipClean
  <2>3. CASE CleanRelease BY <2>3 DEF CleanRelease
  <2>4. CASE CleanDebug BY <2>4 DEF CleanDebug
  <2>5. CASE CleanTools BY <2>5 DEF CleanTools
  <2>6. CASE BuildSip BY <2>6 DEF BuildSip, AfterSip
  <2>7. CASE BuildSipFails BY <2>7 DEF BuildSipFails, AfterSip
  <2>8. CASE CopySip BY <2>8 DEF CopySip, SipCopied
  <2>9. CASE MoveConfig BY <2>9 DEF MoveConfig
  <2>10. CASE RewriteConfig BY <2>10 DEF RewriteConfig, ReleaseDir
  <2>22. CASE RewriteConfigFails BY <2>22 DEF RewriteConfigFails
  <2>11. CASE DeleteSaved BY <2>11 DEF DeleteSaved, AfterFix
  <2>12. CASE DebugTree BY <2>12 DEF DebugTree
  <2>13. CASE DebugBuild BY <2>13 DEF DebugBuild
  <2>14. CASE DebugBuildFails BY <2>14 DEF DebugBuildFails
  <2>15. CASE SkipRelease BY <2>15 DEF SkipRelease, AfterRelease
  <2>16. CASE ReleaseTree BY <2>16 DEF ReleaseTree
  <2>17. CASE ReleaseBuild BY <2>17 DEF ReleaseBuild, AfterRelease
  <2>18. CASE ReleaseBuildFails BY <2>18 DEF ReleaseBuildFails, AfterRelease
  <2>19. CASE End BY <2>19 DEF End
  <2>20. CASE Interrupt BY <2>20 DEF Interrupt
  <2>21. CASE UNCHANGED vars BY <2>21 DEF vars
  <2> QED
    BY Steps, <2>1, <2>2, <2>3, <2>4, <2>5, <2>6, <2>7, <2>8, <2>9, <2>10, <2>11,
       <2>12, <2>13, <2>14, <2>15, <2>16, <2>17, <2>18, <2>19, <2>20, <2>21, <2>22
<1>3. ConfigInv => ConfigIsFixed
  BY DEF ConfigInv, ConfigIsFixed, Rewritten, AfterDelete
<1> QED
  BY <1>1, <1>2, <1>3, PTL DEF PyQtSpec
=============================================================================
