-------------------------- MODULE LaunchersProofs --------------------------
(***************************************************************************)
(* Theorems about Launchers, for any packages, entry points and list.      *)
(***************************************************************************)
EXTENDS Launchers, TLAPS

USE DEF position, launchers, patching, history, Stay

(* The stages at which a line of entry_points.txt is being worked on.      *)
Writing == {"script", "cmd", "writing", "exe"}

AtPackage == stage \in Writing \union {"entry"} => packageNo \in DOMAIN Listed

AtConsoleLine == stage \in Writing => entryNo \in DOMAIN Entries /\ Entry.console

(* A script that is not empty is that of a console line of its name.       *)
ScriptsKnown ==
    \A n \in Name : scripts[n] \in Callable =>
        \E e \in ConsoleLines : e.name = n /\ e.callable = scripts[n]

(* A .cmd file that is not empty starts a script of its own stem.          *)
CmdsKnown == \A n \in Name : cmds[n] \in Name => Stem(cmds[n]) = n

(* pip has made every .exe there is.                                       *)
ExesKnown ==
    \A n \in Name : exes[n] # Absent =>
        \E p \in Package : n \in DOMAIN Exe[p] /\ exes[n] = Exe[p][n]

(* The files of the line at hand that have been closed.                    *)
Written ==
    /\ stage \in {"cmd", "writing", "exe"} => scripts[Entry.name] = Entry.callable
    /\ stage = "exe" => cmds[Stem(Entry.name)] = Entry.name

(* The inductive invariant.                                                *)
LauncherInv ==
    /\ LauncherTypeOK /\ AtPackage /\ AtConsoleLine
    /\ ScriptsKnown /\ CmdsKnown /\ ExesKnown /\ Written

-----------------------------------------------------------------------------
LEMMA LineTyped ==
    ASSUME packageNo \in DOMAIN Listed, entryNo \in DOMAIN Entries
    PROVE  /\ Current \in Package
           /\ Entry \in EntryPointLines
           /\ Entry.name \in Name /\ Entry.callable \in Callable
           /\ Stem(Entry.name) \in Name
           /\ Entry.console => Entry \in ConsoleLines
<1>1. Current \in Package
  BY LauncherAssumption DEF Current
<1>2. EntryPoints[Current] \in Seq(EntryPointLines)
  BY <1>1, LauncherAssumption
<1>3. Entry \in EntryPointLines
  BY <1>2 DEF Entry, Entries
<1>4. Entry.name \in Name /\ Entry.callable \in Callable
  BY <1>3 DEF EntryPointLines
<1>5. Stem(Entry.name) \in Name
  BY <1>4, LauncherAssumption
<1>6. Entry.console => Entry \in ConsoleLines
  BY <1>1, <1>3 DEF ConsoleLines, Entry, Entries
<1> QED
  BY <1>1, <1>3, <1>4, <1>5, <1>6

LEMMA InstalledTyped ==
    ASSUME NEW old \in [Name -> Callable \union {Absent}], NEW new \in SUBSET Package
    PROVE  /\ Installed(old, new) \in [Name -> Callable \union {Absent}]
           /\ \A n \in Name :
                \/ Installed(old, new)[n] = old[n]
                \/ \E p \in Package : n \in DOMAIN Exe[p]
                                        /\ Installed(old, new)[n] = Exe[p][n]
<1> SUFFICES ASSUME NEW n \in Name
             PROVE  /\ Installed(old, new)[n] \in Callable \union {Absent}
                    /\ \/ Installed(old, new)[n] = old[n]
                       \/ \E p \in Package : n \in DOMAIN Exe[p]
                                               /\ Installed(old, new)[n] = Exe[p][n]
  BY DEF Installed
<1>1. CASE \E p \in new : n \in DOMAIN Exe[p]
  <2> DEFINE q == CHOOSE p \in new : n \in DOMAIN Exe[p]
  <2>1. q \in new /\ n \in DOMAIN Exe[q]
    BY <1>1
  <2>2. Installed(old, new)[n] = Exe[q][n]
    BY <1>1 DEF Installed
  <2> QED
    BY <2>1, <2>2, LauncherAssumption
<1>2. CASE ~\E p \in new : n \in DOMAIN Exe[p]
  BY <1>2 DEF Installed
<1> QED
  BY <1>1, <1>2

LEMMA StartsRight == LauncherInit => LauncherInv
<1> SUFFICES ASSUME LauncherInit PROVE LauncherInv
  OBVIOUS
<1> USE DEF LauncherInit
<1> DEFINE none == [n \in Name |-> Absent]
<1>1. none \in [Name -> Callable \union {Absent}] /\ Bundled \in SUBSET Package
  BY LauncherAssumption
<1>2. exes \in [Name -> Callable \union {Absent}] /\ ExesKnown
  <2> HIDE DEF none
  <2>1. exes = Installed(none, Bundled)
    BY DEF none
  <2>2. \A n \in Name : none[n] = Absent
    BY DEF none
  <2> QED
    BY <1>1, <2>1, <2>2, InstalledTyped DEF ExesKnown
<1>3. version \in [Package -> {"absent", "listed", "other"}]
  BY DEF VersionChoices
<1>4. LauncherTypeOK
  <2>1. stage \in Stages /\ packageNo \in Nat \ {0} /\ entryNo \in Nat \ {0}
    BY DEF Stages
  <2>2. /\ scripts \in [Name -> Callable \union {Absent, Torn}]
        /\ cmds \in [Name -> Name \union {Absent, Torn}]
    OBVIOUS
  <2>3. extras \in [DOMAIN Extras -> {"absent", "torn", "whole"}]
    OBVIOUS
  <2>4. patched \in BOOLEAN /\ marker \in BOOLEAN /\ failed \in BOOLEAN
    OBVIOUS
  <2>5. cuts \in 0..MaxCuts
    BY LauncherAssumption
  <2> QED
    BY <1>2, <1>3, <2>1, <2>2, <2>3, <2>4, <2>5 DEF LauncherTypeOK
<1>5. AtPackage /\ AtConsoleLine /\ Written
  BY DEF AtPackage, AtConsoleLine, Written, Writing
<1>6. ScriptsKnown /\ CmdsKnown
  BY LauncherAssumption DEF ScriptsKnown, CmdsKnown
<1> QED
  BY <1>2, <1>4, <1>5, <1>6 DEF LauncherInv
-----------------------------------------------------------------------------
(* Steps that touch no launcher and do not stop at a line.                 *)
LEMMA QuietStep ==
    ASSUME LauncherInv, UNCHANGED <<scripts, cmds, exes>>, stage' \notin Writing,
           LauncherTypeOK', AtPackage'
    PROVE  LauncherInv'
BY DEF LauncherInv, AtConsoleLine, ScriptsKnown, CmdsKnown, ExesKnown, Written, Writing

LEMMA CopyExtrasKeeps ==
    ASSUME LauncherInv, CopyExtras
    PROVE  LauncherInv'
<1> USE DEF Goto
<1>1. LauncherTypeOK
  BY DEF LauncherInv
<1>2. CASE SkipExtra
  <2>1. LauncherTypeOK'
    BY <1>1, <1>2 DEF SkipExtra, LauncherTypeOK
  <2> QED
    BY <1>2, <2>1, QuietStep DEF SkipExtra, AtPackage, Writing
<1>3. CASE OpenExtra
  <2>1. LauncherTypeOK'
    BY <1>1, <1>3 DEF OpenExtra, LauncherTypeOK, Stages
  <2> QED
    BY <1>3, <2>1, QuietStep DEF OpenExtra, AtPackage, Writing
<1>4. CASE CloseExtra
  <2>1. LauncherTypeOK'
    BY <1>1, <1>4 DEF CloseExtra, LauncherTypeOK, Stages
  <2> QED
    BY <1>4, <2>1, QuietStep DEF CloseExtra, AtPackage, Writing
<1>5. CASE ExtrasDone
  <2>1. LauncherTypeOK'
    BY <1>1, <1>5 DEF ExtrasDone, LauncherTypeOK, Stages
  <2> QED
    BY <1>5, <2>1, QuietStep DEF ExtrasDone, AtPackage, Writing
<1> QED
  BY <1>2, <1>3, <1>4, <1>5 DEF CopyExtras

(* The end of the list of packages, the end of a run, and its beginning.   *)
Moving == \/ Begin \/ MissingInfo \/ ReadInfo \/ SkipLine \/ ExeInUse \/ EntriesDone
          \/ ListDone \/ SurplusDeleted \/ SkipPatch \/ ApplyPatch \/ End \/ Interrupt

LEMMA MovingKeeps ==
    ASSUME LauncherInv, Moving
    PROVE  LauncherInv'
<1> USE DEF Goto
<1>1. LauncherTypeOK
  BY DEF LauncherInv
<1>2. UNCHANGED <<scripts, cmds, exes, version, extras>>
  BY DEF Moving, Begin, MissingInfo, ReadInfo, SkipLine, ExeInUse, EntriesDone,
         ListDone, SurplusDeleted, SkipPatch, ApplyPatch, End, Interrupt
<1>3. stage' \in Stages \ Writing
  BY <1>1 DEF Moving, Begin, MissingInfo, ReadInfo, SkipLine, ExeInUse, EntriesDone,
              ListDone, SurplusDeleted, SkipPatch, ApplyPatch, End, Interrupt,
              Stages, Writing
<1>4. packageNo' \in Nat \ {0} /\ entryNo' \in Nat \ {0}
  BY <1>1 DEF Moving, Begin, MissingInfo, ReadInfo, SkipLine, ExeInUse, EntriesDone,
              ListDone, SurplusDeleted, SkipPatch, ApplyPatch, End, Interrupt,
              LauncherTypeOK
<1>5. patched' \in BOOLEAN /\ marker' \in BOOLEAN
  BY <1>1 DEF Moving, Begin, MissingInfo, ReadInfo, SkipLine, ExeInUse, EntriesDone,
              ListDone, SurplusDeleted, SkipPatch, ApplyPatch, End, Interrupt,
              LauncherTypeOK
<1>6. failed' \in BOOLEAN /\ cuts' \in 0..MaxCuts
  <2>1. failed \in BOOLEAN /\ cuts \in 0..MaxCuts /\ MaxCuts \in Nat
    BY <1>1, LauncherAssumption DEF LauncherTypeOK
  <2>2. failed' \in {failed, TRUE, FALSE}
    BY DEF Moving, Begin, MissingInfo, ReadInfo, SkipLine, ExeInUse, EntriesDone,
           ListDone, SurplusDeleted, SkipPatch, ApplyPatch, End, Interrupt
  <2>3. cuts' = cuts \/ (cuts < MaxCuts /\ cuts' = cuts + 1)
    BY DEF Moving, Begin, MissingInfo, ReadInfo, SkipLine, ExeInUse, EntriesDone,
           ListDone, SurplusDeleted, SkipPatch, ApplyPatch, End, Interrupt
  <2>4. cuts' \in 0..MaxCuts
    BY <2>1, <2>3
  <2> QED
    BY <2>1, <2>2, <2>4
<1>7. LauncherTypeOK'
  BY <1>1, <1>2, <1>3, <1>4, <1>5, <1>6 DEF LauncherTypeOK
<1>8. AtPackage'
  <2>1. AtPackage
    BY DEF LauncherInv
  <2>2. stage' = "entry" => packageNo' \in DOMAIN Listed
    BY <2>1 DEF Moving, Begin, MissingInfo, ReadInfo, SkipLine, ExeInUse, EntriesDone,
                ListDone, SurplusDeleted, SkipPatch, ApplyPatch, End, Interrupt,
                AtPackage
  <2> QED
    BY <1>3, <2>2 DEF AtPackage
<1> QED
  BY <1>2, <1>3, <1>7, <1>8, QuietStep

LEMMA PipKeeps ==
    ASSUME LauncherInv, PipSucceeds \/ PipFails
    PROVE  LauncherInv'
<1> USE DEF Goto
<1>1. LauncherTypeOK /\ ExesKnown
  BY DEF LauncherInv
<1>2. PICK new \in SUBSET Package : Pip(new)
  BY DEF PipSucceeds, PipFails
<1>3. /\ stage' \in Stages \ Writing
      /\ packageNo' = packageNo /\ entryNo' = entryNo
      /\ failed' = failed /\ cuts' \in 0..MaxCuts
  BY <1>1, LauncherAssumption
     DEF PipSucceeds, PipFails, Stages, Writing, LauncherTypeOK
<1>4. version' \in [Package -> {"absent", "listed", "other"}]
  BY <1>1, <1>2 DEF Pip, VersionChoices, LauncherTypeOK
<1>5. exes' \in [Name -> Callable \union {Absent}] /\ ExesKnown'
  <2>1. exes' = Installed(exes, new) /\ exes \in [Name -> Callable \union {Absent}]
    BY <1>1, <1>2 DEF Pip, LauncherTypeOK
  <2> QED
    BY <1>1, <2>1, InstalledTyped DEF ExesKnown
<1>6. UNCHANGED <<scripts, cmds, extras, marker>> /\ patched' \in BOOLEAN
  BY <1>1, <1>2 DEF Pip, LauncherTypeOK
<1>7. LauncherTypeOK'
  BY <1>1, <1>3, <1>4, <1>5, <1>6 DEF LauncherTypeOK
<1> QED
  BY <1>3, <1>5, <1>6, <1>7
     DEF LauncherInv, AtPackage, AtConsoleLine, ScriptsKnown, CmdsKnown, Written, Writing,
         PipSucceeds, PipFails

(* Steps that work on a line stay with it.                                 *)
LEMMA SameLine ==
    ASSUME LauncherInv, UNCHANGED <<packageNo, entryNo>>,
           stage \in Writing \/ (stage = "entry" /\ OpenScript)
    PROVE  /\ packageNo \in DOMAIN Listed /\ entryNo \in DOMAIN Entries
           /\ Entry.console /\ Entry \in ConsoleLines
           /\ Entry.name \in Name /\ Entry.callable \in Callable
           /\ Stem(Entry.name) \in Name
           /\ Entry' = Entry /\ AtPackage' /\ AtConsoleLine'
<1>1. packageNo \in DOMAIN Listed /\ entryNo \in DOMAIN Entries /\ Entry.console
  BY DEF LauncherInv, AtPackage, AtConsoleLine, OpenScript, InScriptSection
<1>2. Entries' = Entries /\ Entry' = Entry
  BY DEF Entry, Entries, Current
<1>3. AtPackage' /\ AtConsoleLine'
  BY <1>1, <1>2 DEF AtPackage, AtConsoleLine
<1> QED
  BY <1>1, <1>2, <1>3, LineTyped

LEMMA OpenScriptKeeps ==
    ASSUME LauncherInv, OpenScript
    PROVE  LauncherInv'
<1> USE DEF Goto
<1>1. LauncherTypeOK /\ ScriptsKnown /\ CmdsKnown /\ ExesKnown
  BY DEF LauncherInv
<1>2. /\ stage' = "script" /\ UNCHANGED <<packageNo, entryNo, cmds, exes>>
      /\ scripts' = [scripts EXCEPT ![Entry.name] = Torn]
  BY DEF OpenScript
<1>3. Entry.name \in Name /\ AtPackage' /\ AtConsoleLine'
  BY <1>2, SameLine DEF OpenScript
<1>4. LauncherTypeOK'
  BY <1>1, <1>2, <1>3 DEF LauncherTypeOK, Stages, OpenScript
<1>5. ScriptsKnown'
  BY <1>1, <1>2, <1>3, LauncherAssumption DEF ScriptsKnown, LauncherTypeOK
<1>6. CmdsKnown' /\ ExesKnown' /\ Written'
  BY <1>1, <1>2 DEF CmdsKnown, ExesKnown, Written
<1> QED
  BY <1>3, <1>4, <1>5, <1>6 DEF LauncherInv

LEMMA CloseScriptKeeps ==
    ASSUME LauncherInv, CloseScript
    PROVE  LauncherInv'
<1> USE DEF Goto
<1>1. LauncherTypeOK /\ ScriptsKnown /\ CmdsKnown /\ ExesKnown
  BY DEF LauncherInv
<1>2. /\ stage' = "cmd" /\ UNCHANGED <<packageNo, entryNo, cmds, exes>>
      /\ scripts' = [scripts EXCEPT ![Entry.name] = Entry.callable]
  BY DEF CloseScript
<1>3. /\ Entry \in ConsoleLines /\ Entry.name \in Name /\ Entry.callable \in Callable
      /\ Entry' = Entry /\ AtPackage' /\ AtConsoleLine'
  BY <1>2, SameLine DEF CloseScript, Writing
<1>4. LauncherTypeOK'
  BY <1>1, <1>2, <1>3 DEF LauncherTypeOK, Stages, CloseScript
<1>5. ScriptsKnown'
  BY <1>1, <1>2, <1>3 DEF ScriptsKnown, LauncherTypeOK
<1>6. CmdsKnown' /\ ExesKnown'
  BY <1>1, <1>2 DEF CmdsKnown, ExesKnown
<1>7. Written'
  BY <1>1, <1>2, <1>3 DEF Written, LauncherTypeOK
<1> QED
  BY <1>3, <1>4, <1>5, <1>6, <1>7 DEF LauncherInv

LEMMA OpenCmdKeeps ==
    ASSUME LauncherInv, OpenCmd
    PROVE  LauncherInv'
<1> USE DEF Goto
<1>1. LauncherTypeOK /\ ScriptsKnown /\ CmdsKnown /\ ExesKnown /\ Written
  BY DEF LauncherInv
<1>2. /\ stage = "cmd" /\ stage' = "writing"
      /\ UNCHANGED <<packageNo, entryNo, scripts, exes>>
      /\ cmds' = [cmds EXCEPT ![Stem(Entry.name)] = Torn]
  BY DEF OpenCmd
<1>3. Stem(Entry.name) \in Name /\ Entry' = Entry /\ AtPackage' /\ AtConsoleLine'
  BY <1>2, SameLine DEF Writing
<1>4. LauncherTypeOK'
  BY <1>1, <1>2, <1>3 DEF LauncherTypeOK, Stages, OpenCmd
<1>5. CmdsKnown'
  BY <1>1, <1>2, <1>3, LauncherAssumption DEF CmdsKnown, LauncherTypeOK
<1>6. ScriptsKnown' /\ ExesKnown'
  BY <1>1, <1>2 DEF ScriptsKnown, ExesKnown
<1>7. Written'
  BY <1>1, <1>2, <1>3 DEF Written
<1> QED
  BY <1>3, <1>4, <1>5, <1>6, <1>7 DEF LauncherInv

LEMMA CloseCmdKeeps ==
    ASSUME LauncherInv, CloseCmd
    PROVE  LauncherInv'
<1> USE DEF Goto
<1>1. LauncherTypeOK /\ ScriptsKnown /\ CmdsKnown /\ ExesKnown /\ Written
  BY DEF LauncherInv
<1>2. /\ stage = "writing" /\ stage' = "exe"
      /\ UNCHANGED <<packageNo, entryNo, scripts, exes>>
      /\ cmds' = [cmds EXCEPT ![Stem(Entry.name)] = Entry.name]
  BY DEF CloseCmd
<1>3. /\ Entry.name \in Name /\ Stem(Entry.name) \in Name
      /\ Entry' = Entry /\ AtPackage' /\ AtConsoleLine'
  BY <1>2, SameLine DEF Writing
<1>4. LauncherTypeOK'
  BY <1>1, <1>2, <1>3 DEF LauncherTypeOK, Stages, CloseCmd
<1>5. CmdsKnown'
  BY <1>1, <1>2, <1>3 DEF CmdsKnown, LauncherTypeOK
<1>6. ScriptsKnown' /\ ExesKnown'
  BY <1>1, <1>2 DEF ScriptsKnown, ExesKnown
<1>7. Written'
  BY <1>1, <1>2, <1>3 DEF Written, LauncherTypeOK
<1> QED
  BY <1>3, <1>4, <1>5, <1>6, <1>7 DEF LauncherInv

(* An .exe is removed, by write-launcher-script.py or by `del`.            *)
LEMMA RemovalKeeps ==
    ASSUME LauncherInv, RemoveExe \/ DeleteSurplus
    PROVE  LauncherInv'
<1> USE DEF Goto
<1>1. LauncherTypeOK /\ ScriptsKnown /\ CmdsKnown /\ ExesKnown
  BY DEF LauncherInv
<1>2. PICK n \in Name : exes' = [exes EXCEPT ![n] = Absent]
  <2>1. CASE RemoveExe
    <3>1. Stem(Entry.name) \in Name
      BY <2>1, LineTyped DEF RemoveExe, LauncherInv, AtPackage, AtConsoleLine, Writing
    <3> QED
      BY <2>1, <3>1 DEF RemoveExe
  <2>2. CASE DeleteSurplus
    BY <2>2, LauncherAssumption DEF DeleteSurplus
  <2> QED
    BY <2>1, <2>2
<1>3. /\ stage' \in {"entry", "delete"} /\ stage \in {"exe", "delete"}
      /\ packageNo' = packageNo /\ (stage' = "entry" => stage = "exe")
      /\ UNCHANGED <<scripts, cmds>>
  BY DEF RemoveExe, DeleteSurplus
<1>4. entryNo' \in Nat \ {0}
  BY <1>1 DEF RemoveExe, DeleteSurplus, LauncherTypeOK
<1>5. exes' \in [Name -> Callable \union {Absent}] /\ ExesKnown'
  BY <1>1, <1>2 DEF ExesKnown, LauncherTypeOK
<1>6. UNCHANGED <<version, extras, patched, marker, failed, cuts>>
  BY DEF RemoveExe, DeleteSurplus
<1>7. LauncherTypeOK'
  BY <1>1, <1>3, <1>4, <1>5, <1>6 DEF LauncherTypeOK, Stages
<1>8. AtPackage' /\ AtConsoleLine' /\ Written'
  BY <1>3 DEF LauncherInv, AtPackage, AtConsoleLine, Written, Writing
<1>9. ScriptsKnown' /\ CmdsKnown'
  BY <1>1, <1>3 DEF ScriptsKnown, CmdsKnown
<1> QED
  BY <1>5, <1>7, <1>8, <1>9 DEF LauncherInv

LEMMA StutterKeeps ==
    ASSUME LauncherInv, UNCHANGED vars
    PROVE  LauncherInv'
<1>1. LauncherTypeOK'
  BY DEF LauncherInv, LauncherTypeOK, vars
<1>2. Entry' = Entry /\ Entries' = Entries
  BY DEF Entry, Entries, Current, vars
<1>3. AtPackage' /\ AtConsoleLine' /\ Written'
  BY <1>2 DEF LauncherInv, AtPackage, AtConsoleLine, Written, vars
<1>4. ScriptsKnown' /\ CmdsKnown' /\ ExesKnown'
  BY DEF LauncherInv, ScriptsKnown, CmdsKnown, ExesKnown, vars
<1> QED
  BY <1>1, <1>3, <1>4 DEF LauncherInv

LEMMA StepKeeps == LauncherInv /\ [LauncherNext]_vars => LauncherInv'
<1> SUFFICES ASSUME LauncherInv, [LauncherNext]_vars PROVE LauncherInv'
  OBVIOUS
<1>1. CASE Moving
  BY <1>1, MovingKeeps
<1>2. CASE CopyExtras
  BY <1>2, CopyExtrasKeeps
<1>3. CASE PipSucceeds \/ PipFails
  BY <1>3, PipKeeps
<1>4. CASE OpenScript \/ CloseScript \/ OpenCmd \/ CloseCmd
  BY <1>4, OpenScriptKeeps, CloseScriptKeeps, OpenCmdKeeps, CloseCmdKeeps
<1>5. CASE RemoveExe \/ DeleteSurplus
  BY <1>5, RemovalKeeps
<1>6. CASE UNCHANGED vars
  BY <1>6, StutterKeeps
<1> QED
  BY <1>1, <1>2, <1>3, <1>4, <1>5, <1>6
     DEF LauncherNext, WriteLaunchers, Finalize, Moving

LEMMA LauncherInvariant == LauncherSpec => []LauncherInv
<1> QED
  BY StartsRight, StepKeeps, PTL DEF LauncherSpec

-----------------------------------------------------------------------------
(* Type correctness of fixup-python3.bat and write-launcher-script.py.     *)
THEOREM LauncherTypeCorrect == LauncherSpec => []LauncherTypeOK
<1>1. LauncherInv => LauncherTypeOK
  BY DEF LauncherInv
<1> QED
  BY <1>1, LauncherInvariant, PTL

(* Both files of a launcher are there and have their content.              *)
Whole(n) == cmds[n] \in Name /\ scripts[cmds[n]] \in Callable

LEMMA LineIsKnown ==
    ASSUME NEW p \in Package, NEW i \in DOMAIN EntryPoints[p], EntryPoints[p][i].console
    PROVE  EntryPoints[p][i] \in ConsoleLines
<1>1. EntryPoints[p] \in Seq(EntryPointLines)
  BY LauncherAssumption
<1>2. EntryPoints[p][i] \in EntryPointLines
  BY <1>1
<1> QED
  BY <1>2 DEF ConsoleLines

LEMMA WholeStartsItsTool ==
    ASSUME LauncherInv, NEW e \in ConsoleLines, Whole(Stem(e.name))
    PROVE  scripts[cmds[Stem(e.name)]] = e.callable
<1>1. Stem(e.name) \in Name
  BY LauncherAssumption DEF ConsoleLines, EntryPointLines
<1>2. Stem(cmds[Stem(e.name)]) = Stem(e.name)
  BY <1>1 DEF LauncherInv, CmdsKnown, Whole
<1>3. PICK f \in ConsoleLines :
         f.name = cmds[Stem(e.name)] /\ f.callable = scripts[cmds[Stem(e.name)]]
  BY DEF LauncherInv, ScriptsKnown, Whole
<1> QED
  BY <1>2, <1>3, StemAssumption

(* Whatever packages are installed and wherever runs were cut off, no name *)
(* of a launcher starts another tool.                                      *)
THEOREM NamesKeptApart == LauncherSpec => []NamesAreNotMixedUp
<1>1. LauncherInv => NamesAreNotMixedUp
  <2> SUFFICES ASSUME LauncherInv, NEW p \in Package, NEW i \in DOMAIN EntryPoints[p],
                      EntryPoints[p][i].console, Whole(Stem(EntryPoints[p][i].name))
               PROVE  scripts[cmds[Stem(EntryPoints[p][i].name)]] = EntryPoints[p][i].callable
    BY DEF NamesAreNotMixedUp, Relocatable, Whole
  <2> QED
    BY LineIsKnown, WholeStartsItsTool
<1> QED
  BY <1>1, LauncherInvariant, PTL

(* No tool is lost when write-launcher-script.py removes its .exe.         *)
THEOREM NoToolIsLost == LauncherSpec => ExesAreReplaced
<1>1. ASSUME LauncherInv, [LauncherNext]_vars, stage \notin {"pip", "delete"},
             NEW n \in Name, exes'[n] # exes[n], exes[n] \notin Dotted
      PROVE  Starts(n)' = exes[n]
  <2>1. RemoveExe
    BY <1>1 DEF LauncherNext, WriteLaunchers, Finalize, CopyExtras, Goto, vars, Begin,
                MissingInfo, ReadInfo, SkipLine, ExeInUse, EntriesDone, ListDone,
                SurplusDeleted, SkipPatch, ApplyPatch, End, Interrupt, SkipExtra,
                OpenExtra, CloseExtra, ExtrasDone, PipSucceeds, PipFails, OpenScript,
                CloseScript, OpenCmd, CloseCmd, DeleteSurplus
  <2>2. /\ stage = "exe" /\ UNCHANGED <<scripts, cmds>>
        /\ exes' = [exes EXCEPT ![Stem(Entry.name)] = Absent]
    BY <2>1 DEF RemoveExe, Goto
  <2>3. /\ Entry \in ConsoleLines /\ Entry.name \in Name /\ Entry.callable \in Callable
        /\ Stem(Entry.name) \in Name
    BY <1>1, <2>2, LineTyped DEF LauncherInv, AtPackage, AtConsoleLine, Writing
  <2>4. exes \in [Name -> Callable \union {Absent}]
    BY <1>1 DEF LauncherInv, LauncherTypeOK
  <2>5. n = Stem(Entry.name) /\ exes'[n] = Absent /\ exes[n] # Absent
    BY <1>1, <2>2, <2>3, <2>4
  <2>6. exes[n] = Entry.callable
    <3>1. PICK p \in Package : n \in DOMAIN Exe[p] /\ exes[n] = Exe[p][n]
      BY <1>1, <2>5 DEF LauncherInv, ExesKnown
    <3> QED
      BY <2>3, <2>5, <3>1, StemAssumption
  <2>7. cmds'[n] = Entry.name /\ scripts'[Entry.name] = Entry.callable
    BY <1>1, <2>2, <2>5 DEF LauncherInv, Written
  <2>8. Relocatable(n)' = Entry.callable
    BY <1>1, <2>3, <2>6, <2>7 DEF Relocatable
  <2> QED
    BY <2>5, <2>6, <2>8 DEF Starts
<1>2. LauncherInv /\ [LauncherNext]_vars =>
        [stage \notin {"pip", "delete"} =>
           \A n \in Name : exes'[n] # exes[n] /\ exes[n] \notin Dotted =>
               Starts(n)' = exes[n]]_vars
  BY <1>1
<1> QED
  BY <1>2, LauncherInvariant, PTL DEF LauncherSpec, ExesAreReplaced

(* The lines of the list that the run has dealt with.                      *)
Behind(k, i) ==
    \/ stage \in {"delete", "patch", "end"}
    \/ stage = "list" /\ k < packageNo
    \/ stage \in Writing \union {"entry"} /\ (k < packageNo \/ (k = packageNo /\ i < entryNo))

(* The launchers of a stem are being written again.                        *)
Rewriting(n) == stage \in {"script", "cmd", "writing"} /\ Stem(Entry.name) = n

(* What has been written in this run is still there, unless its stem has   *)
(* come up again, and no .exe has come back.  Where an .exe could not be   *)
(* removed this is left of the first line of each package: that its        *)
(* launcher has been written.                                              *)
CoverInv ==
    /\ stage \in {"extras", "copying", "pip"} => packageNo = 1
    /\ \A k \in DOMAIN Listed : \A i \in DOMAIN EntryPoints[Listed[k]] :
         LET e == EntryPoints[Listed[k]][i] IN
         /\ Behind(k, i) /\ version[Listed[k]] = "listed" /\ e.console
         /\ ~failed \/ FirstLine(Listed[k], i)
         => /\ ~failed => exes[Stem(e.name)] = Absent
            /\ Whole(Stem(e.name)) \/ Rewriting(Stem(e.name))

LEMMA CoverKept ==
    ASSUME LauncherInv, CoverInv, [LauncherNext]_vars
    PROVE  CoverInv'
<1> USE DEF Goto
<1>1. stage' \in {"extras", "copying", "pip"} => packageNo' = 1
  BY DEF CoverInv, LauncherNext, WriteLaunchers, Finalize, CopyExtras, vars, Begin,
         MissingInfo, ReadInfo, SkipLine, ExeInUse, EntriesDone, ListDone,
         SurplusDeleted, SkipPatch, ApplyPatch, End, Interrupt, SkipExtra,
         OpenExtra, CloseExtra, ExtrasDone, PipSucceeds, PipFails, OpenScript,
         CloseScript, OpenCmd, CloseCmd, RemoveExe, DeleteSurplus
<1> SUFFICES ASSUME NEW k \in DOMAIN Listed, NEW i \in DOMAIN EntryPoints[Listed[k]],
                    Behind(k, i)', version'[Listed[k]] = "listed",
                    EntryPoints[Listed[k]][i].console,
                    ~failed' \/ FirstLine(Listed[k], i)
             PROVE  /\ ~failed' => exes'[Stem(EntryPoints[Listed[k]][i].name)] = Absent
                    /\ \/ Whole(Stem(EntryPoints[Listed[k]][i].name))'
                       \/ Rewriting(Stem(EntryPoints[Listed[k]][i].name))'
  BY <1>1 DEF CoverInv
<1> DEFINE e == EntryPoints[Listed[k]][i]
           n == Stem(e.name)
<1>2. /\ k \in Nat \ {0} /\ i \in Nat \ {0} /\ e \in EntryPointLines /\ n \in Name
      /\ e \in ConsoleLines
  <2>1. Listed \in Seq(Package) /\ Listed[k] \in Package
    BY LauncherAssumption
  <2>2. EntryPoints[Listed[k]] \in Seq(EntryPointLines)
    BY <2>1, LauncherAssumption
  <2>3. k \in Nat \ {0} /\ i \in Nat \ {0} /\ e \in EntryPointLines
    BY <2>1, <2>2
  <2>4. n \in Name
    BY <2>3, LauncherAssumption DEF EntryPointLines
  <2> QED
    BY <2>1, <2>3, <2>4 DEF ConsoleLines
<1>3. /\ packageNo \in Nat \ {0} /\ entryNo \in Nat \ {0}
      /\ scripts \in [Name -> Callable \union {Absent, Torn}]
      /\ cmds \in [Name -> Name \union {Absent, Torn}]
      /\ exes \in [Name -> Callable \union {Absent}]
  BY DEF LauncherInv, LauncherTypeOK
<1>4. ASSUME ~failed \/ FirstLine(Listed[k], i), Behind(k, i), version[Listed[k]] = "listed"
      PROVE  (~failed => exes[n] = Absent) /\ (Whole(n) \/ Rewriting(n))
  BY <1>4 DEF CoverInv
<1> HIDE DEF e, n
(* Steps that leave every launcher alone and stop at no line being written.*)
<1>5. ASSUME UNCHANGED <<scripts, cmds, exes, version, failed>>, Behind(k, i), ~Rewriting(n)
      PROVE  (~failed => exes'[n] = Absent) /\ Whole(n)'
  BY <1>4, <1>5 DEF Whole
<1>6. CASE Begin \/ CopyExtras \/ PipFails \/ End \/ Interrupt
  BY <1>6 DEF Begin, CopyExtras, SkipExtra, OpenExtra, CloseExtra, ExtrasDone, PipFails,
              End, Interrupt, Behind, Writing
<1>7. CASE PipSucceeds
  <2>1. packageNo' = 1 /\ stage' = "list"
    BY <1>7 DEF PipSucceeds, CoverInv
  <2> QED
    BY <1>2, <2>1 DEF Behind, Writing
<1>8. CASE MissingInfo
  <2>1. Behind(k, i)
    BY <1>2, <1>3, <1>8 DEF MissingInfo, Behind, Writing, Current
  <2> QED
    BY <1>5, <1>8, <2>1 DEF MissingInfo, Rewriting, e, n
<1>9. CASE ReadInfo
  <2>1. Behind(k, i)
    BY <1>2, <1>3, <1>9 DEF ReadInfo, Behind, Writing
  <2> QED
    BY <1>5, <1>9, <2>1 DEF ReadInfo, Rewriting, e, n
<1>10. CASE SkipLine
  <2>1. ~(k = packageNo /\ i = entryNo)
    BY <1>10 DEF SkipLine, InScriptSection, Entry, Entries, Current
  <2>2. Behind(k, i)
    BY <1>2, <1>3, <1>10, <2>1 DEF SkipLine, Behind, Writing
  <2> QED
    BY <1>5, <1>10, <2>2 DEF SkipLine, Rewriting, e, n
<1>11. CASE EntriesDone
  <2>1. k = packageNo => i < entryNo
    <3>1. ASSUME k = packageNo PROVE Entries \in Seq(EntryPointLines) /\ i \in DOMAIN Entries
      BY <3>1, LauncherAssumption DEF Entries, Current
    <3> QED
      BY <1>3, <1>11, <3>1 DEF EntriesDone
  <2>2. Behind(k, i)
    BY <1>2, <1>3, <1>11, <2>1 DEF EntriesDone, Behind, Writing
  <2> QED
    BY <1>5, <1>11, <2>2 DEF EntriesDone, Rewriting, e, n
<1>12. CASE ListDone
  <2>1. k < packageNo
    BY <1>3, <1>12, LauncherAssumption DEF ListDone
  <2>2. Behind(k, i)
    BY <1>12, <2>1 DEF ListDone, Behind
  <2> QED
    BY <1>5, <1>12, <2>2 DEF ListDone, Rewriting, e, n
<1>13. CASE SurplusDeleted \/ SkipPatch \/ ApplyPatch
  <2>1. /\ UNCHANGED <<scripts, cmds, exes, version, failed>>
        /\ Behind(k, i) /\ ~Rewriting(n)
    BY <1>13 DEF SurplusDeleted, SkipPatch, ApplyPatch, Behind, Rewriting
  <2> QED
    BY <1>5, <2>1 DEF e, n
<1>14. CASE ExeInUse
  <2>1. /\ stage = "exe" /\ stage' = "list" /\ packageNo' = packageNo + 1 /\ failed'
        /\ UNCHANGED <<scripts, cmds, version>> /\ FirstLine(Listed[k], i)
    BY <1>14 DEF ExeInUse
  <2>2. CASE Behind(k, i)
    <3>1. Whole(n)
      BY <1>4, <2>1, <2>2 DEF Rewriting
    <3> QED
      BY <2>1, <3>1 DEF Whole, e, n
  <2>3. CASE ~Behind(k, i)
    <3>1. k = packageNo /\ ~(i < entryNo)
      BY <1>2, <1>3, <2>1, <2>3 DEF Behind, Writing
    <3>2. entryNo \in ConsoleLinesOf(Listed[k])
      BY <2>1, <3>1
      DEF ConsoleLinesOf, LauncherInv, AtConsoleLine, Writing, Entry, Entries, Current
    <3>3. i <= entryNo
      BY <2>1, <3>2 DEF FirstLine
    <3>4. i = entryNo
      BY <1>2, <1>3, <3>1, <3>3
    <3>5. Entry = e
      BY <3>1, <3>4 DEF Entry, Entries, Current, e
    <3>6. Entry.name \in Name /\ Entry.callable \in Callable
      BY <1>2, <3>5 DEF EntryPointLines
    <3>7. cmds[n] = Entry.name /\ scripts[Entry.name] = Entry.callable
      BY <2>1, <3>5 DEF LauncherInv, Written, n
    <3> QED
      BY <2>1, <3>6, <3>7 DEF Whole, e, n
  <2> QED
    BY <2>2, <2>3
<1>15. CASE DeleteSurplus
  <2>1. /\ UNCHANGED <<scripts, cmds, version, failed>>
        /\ Behind(k, i) /\ ~Rewriting(n)
    BY <1>15 DEF DeleteSurplus, Behind, Rewriting
  <2>2. ~failed => exes'[n] = Absent
    BY <1>2, <1>3, <1>4, <1>15, <2>1 DEF DeleteSurplus
  <2> QED
    BY <1>4, <2>1, <2>2 DEF Whole, e, n
(* The four steps that write, and the one that removes the .exe.           *)
<1>16. ASSUME stage \in Writing \/ OpenScript, UNCHANGED <<packageNo, entryNo>>
       PROVE  /\ Entry' = Entry /\ Entry.name \in Name /\ Entry.callable \in Callable
              /\ Stem(Entry.name) \in Name
  BY <1>16, SameLine DEF OpenScript
<1>17. ASSUME Whole(n), n # Stem(Entry.name)
       PROVE  cmds[n] # Entry.name
  BY <1>2, <1>17 DEF Whole, LauncherInv, CmdsKnown
<1>18. CASE OpenScript \/ CloseScript \/ OpenCmd \/ CloseCmd
  <2>1. /\ UNCHANGED <<packageNo, entryNo, version, exes, failed>>
        /\ stage \in Writing \union {"entry"} /\ stage' \in Writing
        /\ stage = "entry" => OpenScript
    BY <1>18 DEF OpenScript, CloseScript, OpenCmd, CloseCmd, Writing
  <2>2. Behind(k, i)
    BY <2>1 DEF Behind, Writing
  <2>3. (~failed => exes'[n] = Absent) /\ (Whole(n) \/ Rewriting(n))
    BY <1>4, <2>1, <2>2
  <2>4. /\ Entry' = Entry /\ Entry.name \in Name /\ Entry.callable \in Callable
        /\ Stem(Entry.name) \in Name
    BY <1>16, <2>1
  <2>5. CASE n = Stem(Entry.name) /\ ~CloseCmd
    <3>1. stage' \in {"script", "cmd", "writing"}
      BY <1>18, <2>5 DEF OpenScript, CloseScript, OpenCmd
    <3> QED
      BY <2>1, <2>3, <2>4, <2>5, <3>1 DEF Rewriting, e, n
  <2>6. CASE n = Stem(Entry.name) /\ CloseCmd
    <3>1. /\ scripts' = scripts /\ stage = "writing"
          /\ cmds' = [cmds EXCEPT ![Stem(Entry.name)] = Entry.name]
      BY <2>6 DEF CloseCmd
    <3>2. cmds'[n] = Entry.name /\ scripts'[Entry.name] = Entry.callable
      BY <1>2, <1>3, <2>6, <3>1 DEF LauncherInv, Written
    <3> QED
      BY <2>1, <2>3, <2>4, <3>2 DEF Whole, e, n
  <2>7. CASE n # Stem(Entry.name)
    <3>1. Whole(n) /\ cmds[n] # Entry.name
      BY <1>17, <2>3, <2>7 DEF Rewriting
    <3>2. /\ cmds'[n] = cmds[n]
          /\ \A m \in Name : m # Entry.name => scripts'[m] = scripts[m]
      BY <1>2, <1>3, <1>18, <2>7 DEF OpenScript, CloseScript, OpenCmd, CloseCmd
    <3> QED
      BY <2>1, <2>3, <3>1, <3>2 DEF Whole, e, n
  <2> QED
    BY <2>5, <2>6, <2>7
<1>19. CASE RemoveExe
  <2>1. /\ stage = "exe" /\ packageNo' = packageNo /\ entryNo' = entryNo + 1
        /\ stage' = "entry" /\ UNCHANGED <<scripts, cmds, version, failed>>
        /\ exes' = [exes EXCEPT ![Stem(Entry.name)] = Absent]
    BY <1>19 DEF RemoveExe
  <2>2. CASE k = packageNo /\ i = entryNo
    <3>1. Entry = e
      BY <2>2 DEF Entry, Entries, Current, e
    <3>2. Entry.name \in Name /\ Entry.callable \in Callable
      BY <1>2, <3>1 DEF EntryPointLines
    <3>3. cmds[n] = Entry.name /\ scripts[Entry.name] = Entry.callable
      BY <2>1, <3>1 DEF LauncherInv, Written, n
    <3>4. exes'[n] = Absent
      BY <1>2, <1>3, <2>1, <3>1 DEF n
    <3> QED
      BY <2>1, <3>2, <3>3, <3>4 DEF Whole, e, n
  <2>3. CASE ~(k = packageNo /\ i = entryNo)
    <3>1. Behind(k, i)
      BY <1>2, <1>3, <2>1, <2>3 DEF Behind, Writing
    <3>2. (~failed => exes[n] = Absent) /\ Whole(n)
      BY <1>4, <2>1, <3>1 DEF Rewriting
    <3>3. ~failed => exes'[n] = Absent
      BY <1>2, <1>3, <2>1, <3>2
    <3> QED
      BY <2>1, <3>2, <3>3 DEF Whole, e, n
  <2> QED
    BY <2>2, <2>3
<1>20. CASE UNCHANGED vars
  <2>1. Behind(k, i) /\ Rewriting(n)' = Rewriting(n) /\ Whole(n)' = Whole(n)
    BY <1>20 DEF Behind, Rewriting, Whole, Entry, Entries, Current, vars
  <2> QED
    BY <1>4, <1>20, <2>1 DEF vars, e, n
<1> QED
  BY <1>6, <1>7, <1>8, <1>9, <1>10, <1>11, <1>12, <1>13, <1>14, <1>15, <1>18, <1>19, <1>20
     DEF LauncherNext, WriteLaunchers, Finalize

LEMMA CoverInvariant == LauncherSpec => []CoverInv
<1>1. LauncherInit => CoverInv
  BY DEF LauncherInit, CoverInv, Behind, Writing
<1> QED
  BY <1>1, CoverKept, LauncherInvariant, PTL DEF LauncherSpec

(* When a run ends that was kept from removing no .exe, every tool of a    *)
(* package in its listed version is started by files that can be moved to  *)
(* another machine: what the run has written for one line is not broken by *)
(* the lines after it.                                                     *)
THEOREM ListIsRelocatable == LauncherSpec => []ListedAreRelocatable
<1>1. LauncherInv /\ CoverInv => ListedAreRelocatable
  <2> SUFFICES ASSUME LauncherInv, CoverInv, stage = "end", ~failed,
                      NEW k \in DOMAIN Listed, NEW i \in DOMAIN EntryPoints[Listed[k]],
                      version[Listed[k]] = "listed", EntryPoints[Listed[k]][i].console
               PROVE  LET e == EntryPoints[Listed[k]][i] IN
                      /\ exes[Stem(e.name)] = Absent
                      /\ e.callable \notin Dotted => Relocatable(Stem(e.name)) = e.callable
    BY DEF ListedAreRelocatable
  <2> DEFINE e == EntryPoints[Listed[k]][i]
  <2>1. exes[Stem(e.name)] = Absent /\ Whole(Stem(e.name))
    BY DEF CoverInv, Behind, Rewriting
  <2>2. scripts[cmds[Stem(e.name)]] = e.callable
    <3>1. Listed[k] \in Package
      BY LauncherAssumption
    <3> QED
      BY <2>1, <3>1, LineIsKnown, WholeStartsItsTool
  <2> QED
    BY <2>1, <2>2 DEF Whole, Relocatable
<1> QED
  BY <1>1, CoverInvariant, LauncherInvariant, PTL

(* What pip has brought.  The packages of a run that has come past pip are *)
(* all there, and the one whose lines are read is in its listed version.   *)
Brought ==
    /\ stage \notin {"prompt", "extras", "copying", "pip"} =>
         \A p \in Package : version[p] # "absent"
    /\ stage \in Writing \union {"entry"} => version[Current] = "listed"

(* An .exe of an installed package is missing only where a launcher has    *)
(* been made from a line of the list.                                      *)
GoneForALine ==
    \A p \in Package : \A n \in DOMAIN Exe[p] \ Surplus :
        version[p] # "absent" /\ exes[n] = Absent =>
            \E k \in DOMAIN Listed : \E i \in ConsoleLinesOf(Listed[k]) :
                version[Listed[k]] = "listed" /\ StemOf(Listed[k], i) = n

LEMMA BroughtKept ==
    ASSUME LauncherInv, Brought, [LauncherNext]_vars
    PROVE  Brought'
<1> USE DEF Goto
<1>1. CASE PipSucceeds
  <2>1. PICK new \in SUBSET Package :
           (\A p \in Package \ new : version[p] # "absent") /\ Pip(new)
    BY <1>1 DEF PipSucceeds
  <2>2. \A p \in Package : version'[p] # "absent"
    BY <2>1 DEF Pip, VersionChoices
  <2> QED
    BY <1>1, <2>2 DEF PipSucceeds, Brought, Writing
<1>2. CASE PipFails
  BY <1>2 DEF PipFails, Brought, Writing
<1>3. CASE ~PipSucceeds /\ ~PipFails
  <2>1. version' = version
    BY <1>3 DEF LauncherNext, WriteLaunchers, Finalize, CopyExtras, vars, Begin,
           MissingInfo, ReadInfo, SkipLine, ExeInUse, EntriesDone, ListDone,
           SurplusDeleted, SkipPatch, ApplyPatch, End, Interrupt, SkipExtra,
           OpenExtra, CloseExtra, ExtrasDone, OpenScript,
           CloseScript, OpenCmd, CloseCmd, RemoveExe, DeleteSurplus
  <2>2. /\ stage' \notin {"prompt", "extras", "copying", "pip"} =>
             stage \notin {"prompt", "extras", "copying", "pip"}
        /\ stage' \in Writing \union {"entry"} =>
             /\ packageNo' = packageNo
             /\ stage \in Writing \union {"entry"} \/ version[Current] = "listed"
    BY <1>3 DEF LauncherNext, WriteLaunchers, Finalize, CopyExtras, vars, Begin,
           MissingInfo, ReadInfo, SkipLine, ExeInUse, EntriesDone, ListDone,
           SurplusDeleted, SkipPatch, ApplyPatch, End, Interrupt, SkipExtra,
           OpenExtra, CloseExtra, ExtrasDone, OpenScript,
           CloseScript, OpenCmd, CloseCmd, RemoveExe, DeleteSurplus, Writing
  <2> QED
    BY <2>1, <2>2 DEF Brought, Current
<1> QED
  BY <1>1, <1>2, <1>3

LEMMA BroughtInvariant == LauncherSpec => []Brought
<1>1. LauncherInit => Brought
  BY DEF LauncherInit, Brought, Writing
<1> QED
  BY <1>1, BroughtKept, LauncherInvariant, PTL DEF LauncherSpec

(* pip brings the .exe files of the packages it installs.                  *)
LEMMA PipBringsExes ==
    ASSUME NEW old, NEW new \in SUBSET Package, NEW p \in new, NEW n \in DOMAIN Exe[p]
    PROVE  n \in Name /\ Installed(old, new)[n] \in Callable
<1> DEFINE q == CHOOSE q \in new : n \in DOMAIN Exe[q]
<1>1. q \in new /\ n \in DOMAIN Exe[q]
  OBVIOUS
<1>2. n \in Name
  BY LauncherAssumption
<1>3. Installed(old, new)[n] = Exe[q][n]
  BY <1>2 DEF Installed
<1> QED
  BY <1>1, <1>2, <1>3, LauncherAssumption

LEMMA GoneKept ==
    ASSUME ExesComeWithTheirLines, LauncherInv, Brought, GoneForALine, [LauncherNext]_vars
    PROVE  GoneForALine'
<1> USE DEF Goto
<1>1. exes \in [Name -> Callable \union {Absent}]
  BY DEF LauncherInv, LauncherTypeOK
<1>2. CASE PipSucceeds \/ PipFails
  <2>1. PICK new \in SUBSET Package : Pip(new)
    BY <1>2 DEF PipSucceeds, PipFails
  <2>2. /\ exes' = Installed(exes, new)
        /\ \A p \in Package : p \notin new => version'[p] = version[p]
    BY <2>1 DEF Pip
  <2> SUFFICES ASSUME NEW p \in Package, NEW n \in DOMAIN Exe[p] \ Surplus,
                      version'[p] # "absent", exes'[n] = Absent
               PROVE  \E k \in DOMAIN Listed : \E i \in ConsoleLinesOf(Listed[k]) :
                         version'[Listed[k]] = "listed" /\ StemOf(Listed[k], i) = n
    BY DEF GoneForALine
  <2>3. \A q \in new : n \notin DOMAIN Exe[q]
    BY <2>2, PipBringsExes, LauncherAssumption
  <2>4. p \notin new /\ version[p] # "absent" /\ n \in Name
    BY <2>2, <2>3, LauncherAssumption
  <2>5. exes[n] = Absent
    BY <2>2, <2>3, <2>4 DEF Installed
  <2>6. PICK k \in DOMAIN Listed : \E i \in ConsoleLinesOf(Listed[k]) :
           version[Listed[k]] = "listed" /\ StemOf(Listed[k], i) = n
    BY <2>4, <2>5 DEF GoneForALine
  <2>7. Listed[k] \in Package /\ n \in DOMAIN Exe[Listed[k]]
    <3>1. Listed[k] \in Package
      BY LauncherAssumption
    <3> QED
      BY <2>6, <3>1 DEF ExesComeWithTheirLines
  <2> QED
    BY <2>2, <2>3, <2>6, <2>7
<1>3. CASE RemoveExe
  <2>1. /\ stage = "exe" /\ UNCHANGED version
        /\ exes' = [exes EXCEPT ![Stem(Entry.name)] = Absent]
    BY <1>3 DEF RemoveExe
  <2>2. /\ packageNo \in DOMAIN Listed /\ Stem(Entry.name) = StemOf(Listed[packageNo], entryNo)
        /\ entryNo \in ConsoleLinesOf(Listed[packageNo])
        /\ version[Listed[packageNo]] = "listed"
    BY <2>1 DEF LauncherInv, AtPackage, AtConsoleLine, Writing, Brought, Entry, Entries,
                Current, StemOf, ConsoleLinesOf
  <2>3. \A n \in Name : n # Stem(Entry.name) => exes'[n] = exes[n]
    BY <1>1, <2>1
  <2>4. \A p \in Package : DOMAIN Exe[p] \subseteq Name
    BY LauncherAssumption
  <2> QED
    BY <2>1, <2>2, <2>3, <2>4 DEF GoneForALine
<1>4. CASE DeleteSurplus
  <2>1. UNCHANGED version /\ \A n \in Name \ Surplus : exes'[n] = exes[n]
    BY <1>1, <1>4 DEF DeleteSurplus
  <2>2. \A p \in Package : DOMAIN Exe[p] \subseteq Name
    BY LauncherAssumption
  <2> QED
    BY <2>1, <2>2 DEF GoneForALine
<1>5. CASE ~(PipSucceeds \/ PipFails \/ RemoveExe \/ DeleteSurplus)
  <2>1. UNCHANGED <<version, exes>>
    BY <1>5 DEF LauncherNext, WriteLaunchers, Finalize, CopyExtras, vars, Begin,
           MissingInfo, ReadInfo, SkipLine, ExeInUse, EntriesDone, ListDone,
           SurplusDeleted, SkipPatch, ApplyPatch, End, Interrupt, SkipExtra,
           OpenExtra, CloseExtra, ExtrasDone, OpenScript,
           CloseScript, OpenCmd, CloseCmd
  <2> QED
    BY <2>1 DEF GoneForALine
<1> QED
  BY <1>2, <1>3, <1>4, <1>5

LEMMA GoneInvariant ==
    ASSUME ExesComeWithTheirLines
    PROVE  LauncherSpec => []GoneForALine
<1>1. LauncherInit => GoneForALine
  <2> SUFFICES ASSUME LauncherInit, NEW p \in Package, NEW n \in DOMAIN Exe[p] \ Surplus,
                      version[p] # "absent"
               PROVE  exes[n] # Absent
    BY DEF GoneForALine
  <2>1. p \in Bundled /\ Bundled \in SUBSET Package
    BY LauncherAssumption DEF LauncherInit
  <2>2. exes = Installed([m \in Name |-> Absent], Bundled)
    BY DEF LauncherInit
  <2>3. exes[n] \in Callable
    BY <2>1, <2>2, PipBringsExes
  <2> QED
    BY <2>3, LauncherAssumption
<1>2. LauncherInv /\ Brought /\ GoneForALine /\ [LauncherNext]_vars => GoneForALine'
  BY GoneKept
<1> QED
  BY <1>1, <1>2, BroughtInvariant, LauncherInvariant, PTL DEF LauncherSpec

(* What an .exe that is there starts is the tool of its name, and a name   *)
(* whose .exe is gone starts that tool if its launcher is whole.           *)
LEMMA NameStartsItsTool ==
    ASSUME OneToolPerExe, LauncherInv, NEW p \in Package, NEW n \in DOMAIN Exe[p],
           \/ exes[n] # Absent
           \/ /\ Whole(n) /\ Exe[p][n] \notin Dotted
              /\ \E k \in DOMAIN Listed : \E i \in ConsoleLinesOf(Listed[k]) :
                    StemOf(Listed[k], i) = n
    PROVE  Starts(n) = Exe[p][n]
<1>1. n \in Name
  BY LauncherAssumption
<1>2. CASE exes[n] # Absent
  <2>1. PICK q \in Package : n \in DOMAIN Exe[q] /\ exes[n] = Exe[q][n]
    BY <1>1, <1>2 DEF LauncherInv, ExesKnown
  <2> QED
    BY <1>2, <2>1 DEF OneToolPerExe, Starts
<1>3. CASE exes[n] = Absent
  <2>1. PICK k \in DOMAIN Listed : \E i \in ConsoleLinesOf(Listed[k]) :
           StemOf(Listed[k], i) = n
    BY <1>3
  <2>2. PICK i \in ConsoleLinesOf(Listed[k]) : StemOf(Listed[k], i) = n
    BY <2>1
  <2>3. EntryPoints[Listed[k]][i] \in ConsoleLines
    <3>1. Listed[k] \in Package
      BY LauncherAssumption
    <3> QED
      BY <3>1, LineIsKnown DEF ConsoleLinesOf
  <2>4. Exe[p][n] = EntryPoints[Listed[k]][i].callable
    BY <2>2, <2>3, StemAssumption DEF StemOf
  <2>5. Whole(n)
    BY <1>3
  <2>6. scripts[cmds[n]] = Exe[p][n]
    BY <2>2, <2>3, <2>4, <2>5, WholeStartsItsTool DEF StemOf
  <2> QED
    BY <1>3, <2>5, <2>6 DEF Starts, Relocatable, Whole
<1> QED
  BY <1>2, <1>3

(* When a run ends that was kept from removing no .exe, every tool of an   *)
(* installed package starts under its own name, whatever earlier runs were *)
(* cut off in and whichever versions pip has brought since.                *)
THEOREM EveryToolStarts ==
    ASSUME OneToolPerExe, ExesComeWithTheirLines
    PROVE  LauncherSpec => []ToolsStart
<1>1. LauncherInv /\ CoverInv /\ GoneForALine => ToolsStart
  <2> SUFFICES ASSUME LauncherInv, CoverInv, GoneForALine, stage = "end", ~failed,
                      NEW p \in Package, NEW n \in DOMAIN Exe[p] \ Surplus,
                      version[p] # "absent", Exe[p][n] \notin Dotted
               PROVE  Starts(n) = Exe[p][n]
    BY DEF ToolsStart
  <2>1. CASE exes[n] # Absent
    BY <2>1, NameStartsItsTool
  <2>2. CASE exes[n] = Absent
    <3>1. PICK k \in DOMAIN Listed : \E i \in ConsoleLinesOf(Listed[k]) :
             version[Listed[k]] = "listed" /\ StemOf(Listed[k], i) = n
      BY <2>2 DEF GoneForALine
    <3>2. PICK i \in ConsoleLinesOf(Listed[k]) :
             version[Listed[k]] = "listed" /\ StemOf(Listed[k], i) = n
      BY <3>1
    <3>3. Whole(n)
      BY <3>2 DEF CoverInv, Behind, Rewriting, ConsoleLinesOf, StemOf
    <3> QED
      BY <3>2, <3>3, NameStartsItsTool
  <2> QED
    BY <2>1, <2>2
<1> QED
  BY <1>1, CoverInvariant, GoneInvariant, LauncherInvariant, PTL

(* The .exe files deleted at the end are covered when they go, whether or  *)
(* not this run could remove the others: some launcher starts their tool.  *)
THEOREM DeletedStayCovered ==
    ASSUME OneToolPerExe, ExesComeWithTheirLines, SurplusIsCovered
    PROVE  LauncherSpec => DeletedAreCovered
<1>1. ASSUME LauncherInv, CoverInv, Brought, GoneForALine,
             [LauncherNext]_vars, stage = "delete", NEW n \in Name, exes'[n] # exes[n]
      PROVE  \E m \in Name : Starts(m)' = exes[n]
  <2>1. DeleteSurplus
    BY <1>1 DEF LauncherNext, WriteLaunchers, Finalize, CopyExtras, Goto, vars, Begin,
                MissingInfo, ReadInfo, SkipLine, ExeInUse, EntriesDone, ListDone,
                SurplusDeleted, SkipPatch, ApplyPatch, End, Interrupt, SkipExtra,
                OpenExtra, CloseExtra, ExtrasDone, PipSucceeds, PipFails, OpenScript,
                CloseScript, OpenCmd, CloseCmd, RemoveExe
  <2>2. /\ n \in Surplus /\ exes[n] # Absent /\ UNCHANGED <<scripts, cmds>>
        /\ \A m \in Name \ Surplus : exes'[m] = exes[m]
    BY <1>1, <2>1 DEF DeleteSurplus, LauncherInv, LauncherTypeOK
  <2>3. PICK p \in Package : n \in DOMAIN Exe[p] /\ exes[n] = Exe[p][n]
    BY <1>1, <2>2 DEF LauncherInv, ExesKnown
  <2>4. PICK m \in DOMAIN Exe[p] \ Surplus :
           /\ Exe[p][m] = Exe[p][n] /\ Exe[p][n] \notin Dotted
           /\ \A k \in DOMAIN Listed : \A i \in ConsoleLinesOf(Listed[k]) :
                StemOf(Listed[k], i) = m => FirstLine(Listed[k], i)
    BY <2>2, <2>3 DEF SurplusIsCovered
  <2>5. m \in Name
    BY LauncherAssumption
  <2>6. Starts(m) = Exe[p][m]
    <3>1. CASE exes[m] # Absent
      BY <1>1, <3>1, NameStartsItsTool
    <3>2. CASE exes[m] = Absent
      <4>1. version[p] # "absent"
        BY <1>1 DEF Brought
      <4>2. PICK k \in DOMAIN Listed : \E i \in ConsoleLinesOf(Listed[k]) :
               version[Listed[k]] = "listed" /\ StemOf(Listed[k], i) = m
        BY <1>1, <3>2, <4>1 DEF GoneForALine
      <4>3. PICK i \in ConsoleLinesOf(Listed[k]) :
               version[Listed[k]] = "listed" /\ StemOf(Listed[k], i) = m
        BY <4>2
      <4>4. FirstLine(Listed[k], i)
        BY <2>4, <4>3
      <4>5. Whole(m)
        BY <1>1, <4>3, <4>4 DEF CoverInv, Behind, Rewriting, ConsoleLinesOf, StemOf
      <4> QED
        BY <1>1, <2>4, <4>3, <4>5, NameStartsItsTool
    <3> QED
      BY <3>1, <3>2
  <2>7. Starts(m)' = Starts(m)
    BY <2>2, <2>5 DEF Starts, Relocatable
  <2> QED
    BY <2>3, <2>4, <2>5, <2>6, <2>7
<1>2. LauncherInv /\ CoverInv /\ Brought /\ GoneForALine /\ [LauncherNext]_vars =>
        [stage = "delete" =>
           \A n \in Name : exes'[n] # exes[n] => \E m \in Name : Starts(m)' = exes[n]]_vars
  BY <1>1
<1> QED
  BY <1>2, CoverInvariant, BroughtInvariant, GoneInvariant, LauncherInvariant, PTL
  DEF LauncherSpec, DeletedAreCovered
=============================================================================
