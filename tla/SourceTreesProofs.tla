------------------------- MODULE SourceTreesProofs -------------------------
(***************************************************************************)
(* Proofs about SourceTrees, for any scripts, files and recipes.           *)
(***************************************************************************)
EXTENDS SourceProperties, TLAPS

(* The recipe of the running script is one of the recipes assumed.         *)
LEMMA RecipeType ==
    ASSUME script \in Scripts
    PROVE  /\ R \in RecipeRecords
           /\ R.probe \subseteq R.files
BY RecipeAssumption DEF R

LEMMA YieldType ==
    ASSUME script \in Scripts, NEW content \in Contents,
           NEW part \in Yield(content)
    PROVE  part \in SUBSET R.files
BY RecipeType DEF Yield, Contents, RecipeRecords

(* A patching step is a step of the recipe, and a command of it is on a    *)
(* file it names.                                                          *)
LEMMA CurrentType ==
    ASSUME script \in Scripts, patchNo \in Nat \ {0}, Patching
    PROVE  /\ Current \in PatchSteps
           /\ Current \in Steps
           /\ Copied \in FilesOf(Current)
           /\ Copied \in File
           /\ Commands \in Nat \ {0}
<1>1. R.patches \in Seq(PatchSteps)
  BY RecipeType DEF RecipeRecords
<1>2. patchNo \in 1..Len(R.patches)
  BY <1>1 DEF Patching
<1>3. Current \in PatchSteps /\ Current \in Steps
  BY <1>1, <1>2 DEF Current, Steps
<1>4. Current.files \in Seq(File) /\ Current.files # <<>>
  BY <1>3 DEF PatchSteps
<1>5. Len(Current.files) \in Nat \ {0} /\ 1 \in DOMAIN Current.files
  BY <1>4
<1> QED
  BY <1>3, <1>4, <1>5 DEF Copied, FilesOf, Commands

LEMMA TargetType ==
    ASSUME script \in Scripts, patchNo \in Nat \ {0}, fileNo \in Nat \ {0},
           Patching, fileNo <= Commands, Current.kind = "patch"
    PROVE  Target \in FilesOf(Current) /\ Target \in File
<1>1. Current.files \in Seq(File)
  BY CurrentType DEF PatchSteps
<1>2. fileNo \in DOMAIN Current.files
  BY <1>1 DEF Commands
<1> QED
  BY <1>1, <1>2 DEF Target, FilesOf

LEMMA MakingType ==
    ASSUME SourceTypeOK, NEW when, MakesDirectory(when)
    PROVE  /\ made' \in BOOLEAN
           /\ wounds' \in SUBSET {"archive", "unpack", "patch", "empty"}
  BY DEF SourceTypeOK, MakesDirectory

(* A run stays with its script.                                            *)
LEMMA SameScript == [SourceNext]_vars => script' = script
  BY DEF SourceNext, ScriptStep, Begin, Fetching, SkipDownload, CurlOpens, CurlNoAnswer,
         CurlCompletes, CurlFails, Unpacking, ClearTree, SkipUnpack, OpenZip,
         OpenTarball, GunzipEnds, GunzipFails, OpenTar, Expand, ExpandEnds,
         ExpandFails, Rename, Stock, PatchingStep, SkipPatch, OpenPatch, PatchFile,
         PatchMissingFile, PatchAgain, SaveOriginal, Overwrite, Applying,
         ClosePatch, PatchesDone, Build, Interrupt, vars

(* While a patching step is at work there is one.                          *)
ApplyingAStep == pc = "apply" => Patching

TypeInv == SourceTypeOK /\ ApplyingAStep

LEMMA TypeInvInit == SourceInit => TypeInv
<1> SUFFICES ASSUME SourceInit
             PROVE  TypeInv
  OBVIOUS
<1> USE DEF SourceInit
<1>1. script \in Scripts /\ pc \in Stages /\ archive \in Contents /\ tar \in Contents
  BY DEF Stages, Contents
<1>2. tree \in [File -> {"absent", "pristine", "patched"}]
  OBVIOUS
<1>3. placed \in BOOLEAN /\ made \in BOOLEAN
  BY Zenon
<1>4. /\ backup \in SUBSET File /\ todo \in SUBSET File
      /\ wounds \in SUBSET {"archive", "unpack", "patch", "empty"}
  OBVIOUS
<1>5. patchNo \in Nat \ {0} /\ fileNo \in Nat \ {0}
  OBVIOUS
<1>6. ApplyingAStep
  BY DEF ApplyingAStep
<1> QED
  BY <1>1, <1>2, <1>3, <1>4, <1>5, <1>6 DEF TypeInv, SourceTypeOK

LEMMA TypeInvStep == TypeInv /\ [SourceNext]_vars => TypeInv'
<1> SUFFICES ASSUME TypeInv, [SourceNext]_vars
             PROVE  TypeInv'
  OBVIOUS
<1>0. script' = script
  BY SameScript
<1>1. R' = R
  BY <1>0 DEF R
<1>2. SourceTypeOK'
  <2> USE DEF TypeInv, SourceTypeOK, disk, Goto
  <2>1. CASE Begin
    BY <2>1 DEF Begin, Stages
  <2>2. CASE Fetching
    BY <2>2 DEF Fetching, SkipDownload, CurlOpens, CurlNoAnswer, CurlCompletes,
                CurlFails, AfterDownload, Stages, Contents
  <2>3. CASE Unpacking
    <3>1. CASE ClearTree
      BY <3>1 DEF ClearTree, Stages
    <3>2. CASE SkipUnpack
      BY <3>2 DEF SkipUnpack, Stages
    <3>3. CASE OpenZip
      <4>1. todo' \in SUBSET R.files
        BY <3>3, YieldType DEF OpenZip
      <4>2. R.files \subseteq File
        BY RecipeType DEF RecipeRecords
      <4> QED
        BY <3>3, <4>1, <4>2 DEF OpenZip, Stages
    <3>4. CASE OpenTarball
      BY <3>4 DEF OpenTarball, Stages, Contents
    <3>5. CASE GunzipEnds \/ GunzipFails
      BY <3>5 DEF GunzipEnds, GunzipFails, Stages, Contents
    <3>6. CASE OpenTar
      <4>1. todo' \in SUBSET R.files
        BY <3>6, YieldType DEF OpenTar
      <4>2. R.files \subseteq File
        BY RecipeType DEF RecipeRecords
      <4> QED
        BY <3>6, <4>1, <4>2 DEF OpenTar, Stages
    <3>7. CASE Expand
      BY <3>7 DEF Expand
    <3>8. CASE ExpandEnds \/ ExpandFails
      BY <3>8 DEF ExpandEnds, ExpandFails, AfterExpand, Stages
    <3>9. CASE Rename
      <4>1. Present \in BOOLEAN
        BY DEF Present
      <4> QED
        BY <3>9, <4>1 DEF Rename, Stages
    <3>10. CASE Stock
      BY <3>10, MakingType DEF Stock, Stages
    <3> QED
      BY <2>3, <3>1, <3>2, <3>3, <3>4, <3>5, <3>6, <3>7, <3>8, <3>9, <3>10 DEF Unpacking
  <2>4. CASE PatchingStep
    <3>1. CASE SkipPatch
      BY <3>1 DEF SkipPatch
    <3>2. CASE OpenPatch
      BY <3>2 DEF OpenPatch, Stages
    <3>3. CASE PatchFile \/ PatchMissingFile \/ PatchAgain
      <4>1. Applying("patch")
        BY <3>3 DEF PatchFile, PatchMissingFile, PatchAgain
      <4>2. Target \in File
        BY <4>1, TargetType DEF Applying, ApplyingAStep
      <4>3. backup' \in SUBSET File /\ tree' \in [File -> {"absent", "pristine", "patched"}]
        BY <3>3, <4>2 DEF PatchFile, PatchMissingFile, PatchAgain
      <4> QED
        BY <4>1, <4>3 DEF Applying
    <3>4. CASE SaveOriginal \/ Overwrite
      <4>1. Applying("copy")
        BY <3>4 DEF SaveOriginal, Overwrite
      <4>2. Copied \in File
        BY <4>1, CurrentType DEF Applying, ApplyingAStep
      <4>3. backup' \in SUBSET File /\ tree' \in [File -> {"absent", "pristine", "patched"}]
        BY <3>4, <4>2 DEF SaveOriginal, Overwrite
      <4> QED
        BY <4>1, <4>3 DEF Applying
    <3>5. CASE ClosePatch
      BY <3>5 DEF ClosePatch, Stages
    <3>6. CASE PatchesDone
      BY <3>6 DEF PatchesDone, Stages
    <3> QED
      BY <2>4, <3>1, <3>2, <3>3, <3>4, <3>5, <3>6 DEF PatchingStep
  <2>5. CASE Build
    BY <2>5, MakingType DEF Build, Stages
  <2>6. CASE Interrupt
    BY <2>6 DEF Interrupt, Wounded, Stages
  <2>7. CASE UNCHANGED vars
    BY <2>7 DEF vars
  <2> QED
    BY <2>1, <2>2, <2>3, <2>4, <2>5, <2>6, <2>7 DEF SourceNext, ScriptStep
<1>3. ApplyingAStep'
  <2> USE DEF TypeInv, ApplyingAStep, Goto
  <2>1. CASE Begin
    BY <2>1 DEF Begin
  <2>2. CASE Fetching
    BY <2>2 DEF Fetching, SkipDownload, CurlOpens, CurlNoAnswer, CurlCompletes,
                CurlFails, AfterDownload
  <2>3. CASE Unpacking
    BY <2>3 DEF Unpacking, ClearTree, SkipUnpack, OpenZip, OpenTarball, GunzipEnds,
                GunzipFails, OpenTar, Expand, ExpandEnds, ExpandFails, AfterExpand,
                Rename, Stock
  <2>4. CASE SkipPatch \/ OpenPatch \/ ClosePatch \/ PatchesDone
    BY <2>4, <1>1 DEF SkipPatch, OpenPatch, ClosePatch, PatchesDone, Patching
  <2>5. CASE \E kind \in {"patch", "copy"} : Applying(kind)
    BY <2>5, <1>1 DEF Applying, Patching
  <2>6. CASE Build \/ Interrupt
    BY <2>6 DEF Build, Interrupt
  <2>7. CASE UNCHANGED vars
    BY <2>7, <1>1 DEF vars, Patching
  <2> QED
    BY <2>1, <2>2, <2>3, <2>4, <2>5, <2>6, <2>7
    DEF SourceNext, ScriptStep, PatchingStep, PatchFile, PatchMissingFile,
        PatchAgain, SaveOriginal, Overwrite
<1> QED
  BY <1>2, <1>3 DEF TypeInv

(* The variables of SourceTrees always have their types.                   *)
THEOREM SourceTypeCorrect == SourceSpec => []SourceTypeOK
<1>1. TypeInv => SourceTypeOK
  BY DEF TypeInv
<1> QED
  BY <1>1, TypeInvInit, TypeInvStep, PTL DEF SourceSpec

-----------------------------------------------------------------------------
(***************************************************************************)
(* The archive.                                                            *)
(***************************************************************************)
(* What curl is writing counts as broken until it is finished.             *)
ArchiveInv ==
    /\ BrokenDownloadsAreKept
    /\ pc = "curl" => archive = "partial" /\ "archive" \notin wounds

(* An archive is broken exactly when its transfer was once broken off: it  *)
(* is never downloaded again.                                              *)
THEOREM BrokenDownloadsStay == SourceSpec => []BrokenDownloadsAreKept
<1>1. SourceInit => ArchiveInv
  BY DEF SourceInit, ArchiveInv, BrokenDownloadsAreKept
<1>2. SourceTypeOK /\ ArchiveInv /\ [SourceNext]_vars => ArchiveInv'
  <2> SUFFICES ASSUME SourceTypeOK, ArchiveInv, [SourceNext]_vars
               PROVE  ArchiveInv'
    OBVIOUS
  <2> USE DEF ArchiveInv, BrokenDownloadsAreKept, disk, Goto
  <2>1. CASE Begin
    BY <2>1 DEF Begin
  <2>2. CASE Fetching
    BY <2>2 DEF Fetching, SkipDownload, CurlOpens, CurlNoAnswer, CurlCompletes,
                CurlFails, AfterDownload, SourceTypeOK, Contents
  <2>3. CASE Unpacking
    BY <2>3 DEF Unpacking, ClearTree, SkipUnpack, OpenZip, OpenTarball, GunzipEnds,
                GunzipFails, OpenTar, Expand, ExpandEnds, ExpandFails, AfterExpand,
                Rename, Stock, MakesDirectory
  <2>4. CASE PatchingStep
    BY <2>4 DEF PatchingStep, SkipPatch, OpenPatch, PatchFile, PatchMissingFile,
                PatchAgain, SaveOriginal, Overwrite, Applying, ClosePatch, PatchesDone
  <2>5. CASE Build
    BY <2>5 DEF Build, MakesDirectory
  <2>6. CASE Interrupt
    BY <2>6 DEF Interrupt, Wounded
  <2>7. CASE UNCHANGED vars
    BY <2>7 DEF vars
  <2> QED
    BY <2>1, <2>2, <2>3, <2>4, <2>5, <2>6, <2>7 DEF SourceNext, ScriptStep
<1>3. ArchiveInv => BrokenDownloadsAreKept
  BY DEF ArchiveInv
<1> QED
  BY <1>1, <1>2, <1>3, SourceTypeCorrect, PTL DEF SourceSpec

(* The download implements WriteOnce: only a run that finds no archive     *)
(* writes one, and no run writes it again.                                 *)
THEOREM ArchiveRefinesWriteOnce == SourceSpec => ArchiveWrittenOnce
<1>1. SourceInit => ArchiveItem!WriteOnceInit
  BY DEF SourceInit, ArchiveItem!WriteOnceInit
<1>2. SourceTypeOK /\ [SourceNext]_vars
        => [ArchiveItem!WriteOnceNext]_<<archive, pc = "curl">>
  <2> SUFFICES ASSUME SourceTypeOK, [SourceNext]_vars
               PROVE  [ArchiveItem!WriteOnceNext]_<<archive, pc = "curl">>
    OBVIOUS
  <2> USE DEF disk, Goto, ArchiveItem!WriteOnceNext, ArchiveItem!Open,
              ArchiveItem!Grow, ArchiveItem!Close
  <2>1. CASE Begin
    BY <2>1 DEF Begin
  <2>2. CASE Fetching
    BY <2>2 DEF Fetching, SkipDownload, CurlOpens, CurlNoAnswer, CurlCompletes,
                CurlFails, AfterDownload
  <2>3. CASE Unpacking
    BY <2>3 DEF Unpacking, ClearTree, SkipUnpack, OpenZip, OpenTarball, GunzipEnds,
                GunzipFails, OpenTar, Expand, ExpandEnds, ExpandFails, AfterExpand,
                Rename, Stock
  <2>4. CASE PatchingStep
    BY <2>4 DEF PatchingStep, SkipPatch, OpenPatch, PatchFile, PatchMissingFile,
                PatchAgain, SaveOriginal, Overwrite, Applying, ClosePatch, PatchesDone
  <2>5. CASE Build
    BY <2>5 DEF Build
  <2>6. CASE Interrupt
    BY <2>6 DEF Interrupt, SourceTypeOK, Stages
  <2>7. CASE UNCHANGED vars
    BY <2>7 DEF vars
  <2> QED
    BY <2>1, <2>2, <2>3, <2>4, <2>5, <2>6, <2>7 DEF SourceNext, ScriptStep
<1> QED
  BY <1>1, <1>2, SourceTypeCorrect, PTL
  DEF SourceSpec, ArchiveWrittenOnce, ArchiveItem!WriteOnceSpec

-----------------------------------------------------------------------------
(***************************************************************************)
(* The patches.                                                            *)
(***************************************************************************)
(* A file with a guard of its own belongs to the archive, and the test of  *)
(* the script or of the helper sees it.                                    *)
LEMMA SimpleFileProbed ==
    ASSUME script \in Scripts, WellGuarded(R), NEW f \in File, SimpleFile(f)
    PROVE  /\ R.outer \/ R.inner
           /\ f \in R.files
           /\ tree[f] # "absent" => Present
BY DEF SimpleFile, Steps, WellGuarded, Present

(* Only a step that changes nothing else changes such a file.              *)
LEMMA SimpleFileOwnStep ==
    ASSUME script \in Scripts, WellGuarded(R), NEW f \in File, SimpleFile(f),
           NEW step \in Steps, f \in FilesOf(step)
    PROVE  SimpleStep(step) /\ step.marker = f
<1>1. SimpleStep(step)
  BY DEF SimpleFile, Steps, WellGuarded
<1>2. FilesOf(step) = {step.marker}
  BY <1>1 DEF SimpleStep, FilesOf
<1> QED
  BY <1>1, <1>2

LEMMA SimpleStepIsShort ==
    ASSUME script \in Scripts, patchNo \in Nat \ {0}, fileNo \in Nat \ {0},
           Patching, SimpleStep(Current)
    PROVE  /\ Commands = 1
           /\ fileNo <= Commands => fileNo = 1 /\ Target = Current.marker
           /\ SimpleFile(Current.marker)
           /\ Current.marker \in File
<1>1. Current \in PatchSteps /\ Current \in Steps
  BY CurrentType
<1>2. Commands = 1
  BY DEF Commands, SimpleStep
<1>3. ASSUME fileNo <= Commands PROVE fileNo = 1 /\ Target = Current.marker
  <2>1. fileNo = 1
    BY <1>2, <1>3
  <2> QED
    BY <2>1 DEF Target, SimpleStep
<1> QED
  BY <1>1, <1>2, <1>3 DEF SimpleFile, PatchSteps

LEMMA PatchInvInit == SourceInit => PatchInv
BY DEF SourceInit, PatchInv, SavedIsPatched, NothingSavedYet, NothingThereYet,
       GuardWasMissing, StepDone, StepsDone, AtFirstStep, AllStepsDone

LEMMA PatchInvStep ==
    ASSUME \A s \in Scripts : WellGuarded(Recipe[s])
    PROVE  TypeInv /\ PatchInv /\ [SourceNext]_vars => PatchInv'
<1> SUFFICES ASSUME TypeInv, PatchInv, [SourceNext]_vars
             PROVE  PatchInv'
  OBVIOUS
<1> USE DEF disk, Goto
<1>0. script' = script
  BY SameScript
<1>1. R' = R /\ Steps' = Steps /\ (\A f : SimpleFile(f)' <=> SimpleFile(f))
  BY <1>0 DEF R, Steps, SimpleFile
<1>2. script \in Scripts /\ WellGuarded(R) /\ patchNo \in Nat \ {0} /\ fileNo \in Nat \ {0}
  BY DEF TypeInv, SourceTypeOK, R
<1>3. ASSUME patchNo' = patchNo PROVE Current' = Current /\ (Patching' <=> Patching)
  BY <1>1, <1>3 DEF Current, Patching
<1>a. R.patches \in Seq(PatchSteps) /\ DOMAIN R.patches = 1..Len(R.patches)
        /\ Len(R.patches) \in Nat /\ \A i \in DOMAIN R.patches : R.patches[i] \in PatchSteps
  BY <1>2, RecipeType DEF RecipeRecords
<1>4. CASE Begin
  <2>1. R.outer /\ ~Present => \A f \in File : SimpleFile(f) => tree[f] = "absent"
    BY <1>2, SimpleFileProbed
  <2>2. StepsDone'
    BY <1>1, <1>4, <1>a DEF Begin, StepsDone
  <2> QED
    BY <1>1, <1>4, <2>1, <2>2
    DEF Begin, PatchInv, SavedIsPatched, NothingSavedYet, NothingThereYet,
        GuardWasMissing, StepDone, StepsDone, AtFirstStep, AllStepsDone
<1>5. CASE Fetching
  BY <1>1, <1>5
  DEF Fetching, SkipDownload, CurlOpens, CurlNoAnswer, CurlCompletes, CurlFails,
      AfterDownload, PatchInv, SavedIsPatched, NothingSavedYet, NothingThereYet,
      GuardWasMissing, StepDone, StepsDone, AtFirstStep, AllStepsDone
<1>6. CASE ClearTree
  BY <1>1, <1>6
  DEF ClearTree, PatchInv, SavedIsPatched, NothingSavedYet, NothingThereYet,
      GuardWasMissing, StepDone, StepsDone, AtFirstStep, AllStepsDone
<1>7. CASE OpenZip \/ OpenTarball
  <2>1. \A f \in File : SimpleFile(f) => tree[f] = "absent"
    <3>1. CASE R.outer
      BY <1>7, <3>1 DEF OpenZip, OpenTarball, PatchInv, NothingThereYet
    <3>2. CASE ~R.outer
      BY <1>2, <1>7, <3>2, SimpleFileProbed DEF OpenZip, OpenTarball
    <3> QED
      BY <3>1, <3>2
  <2> QED
    BY <1>1, <1>7, <2>1
    DEF OpenZip, OpenTarball, PatchInv, SavedIsPatched, NothingSavedYet, NothingThereYet,
        GuardWasMissing, StepDone, StepsDone, AtFirstStep, AllStepsDone
<1>8. CASE GunzipEnds \/ GunzipFails \/ OpenTar
  BY <1>1, <1>8
  DEF GunzipEnds, GunzipFails, OpenTar, PatchInv, SavedIsPatched, NothingSavedYet,
      NothingThereYet, GuardWasMissing, StepDone, StepsDone, AtFirstStep, AllStepsDone
<1>9. CASE Expand
  BY <1>1, <1>9
  DEF Expand, TypeInv, SourceTypeOK, PatchInv, SavedIsPatched, NothingSavedYet,
      NothingThereYet, GuardWasMissing, StepDone, StepsDone, AtFirstStep, AllStepsDone
<1>10. CASE SkipUnpack \/ ExpandEnds \/ ExpandFails \/ Rename \/ Stock
  <2>1. patchNo = 1 /\ patchNo' = 1
    BY <1>10 DEF SkipUnpack, ExpandEnds, ExpandFails, Rename, Stock, PatchInv, AtFirstStep
  <2>2. StepsDone'
    BY <1>1, <1>a, <2>1 DEF StepsDone
  <2> QED
    BY <1>1, <1>10, <2>2
    DEF SkipUnpack, ExpandEnds, ExpandFails, AfterExpand, Rename, Stock, PatchInv, SavedIsPatched,
        NothingSavedYet, NothingThereYet, GuardWasMissing, StepDone, StepsDone, AtFirstStep,
        AllStepsDone, TypeInv, SourceTypeOK
<1>11. CASE SkipPatch
  <2>1. Current \in Steps /\ Current \in PatchSteps
    BY <1>2, <1>11, CurrentType DEF SkipPatch
  <2>2. SimpleStep(Current) => tree[Current.marker] = "patched"
    BY <1>11, <2>1 DEF SkipPatch, PatchInv, SavedIsPatched, SimpleFile, PatchSteps
  <2>3. StepsDone'
    <3>1. \A i \in DOMAIN R.patches : i < patchNo' => i < patchNo \/ i = patchNo
      BY <1>2, <1>11, <1>a DEF SkipPatch
    <3> QED
      BY <1>1, <1>11, <2>2, <3>1 DEF SkipPatch, PatchInv, StepsDone, Current
  <2> QED
    BY <1>1, <1>11, <2>3
    DEF SkipPatch, PatchInv, SavedIsPatched, NothingSavedYet, NothingThereYet,
        GuardWasMissing, StepDone, AtFirstStep, AllStepsDone
<1>12. CASE OpenPatch
  BY <1>1, <1>3, <1>12
  DEF OpenPatch, PatchInv, SavedIsPatched, NothingSavedYet, NothingThereYet,
      GuardWasMissing, StepDone, StepsDone, AtFirstStep, AllStepsDone
<1>13. CASE \E kind \in {"patch", "copy"} : Applying(kind)
  <2>1. /\ pc = "apply" /\ pc' = "apply" /\ patchNo' = patchNo
        /\ fileNo' = fileNo + 1 /\ fileNo <= Commands
    BY <1>13 DEF Applying
  <2>2. Patching /\ Current \in Steps /\ Current \in PatchSteps
    BY <1>2, <2>1, CurrentType DEF TypeInv, ApplyingAStep
  <2>a. PatchFile \/ PatchMissingFile \/ PatchAgain \/ SaveOriginal \/ Overwrite
    BY <2>1
    DEF SourceNext, ScriptStep, Begin, Fetching, SkipDownload, CurlOpens, CurlNoAnswer,
      CurlCompletes, CurlFails, Unpacking, ClearTree, SkipUnpack, OpenZip,
      OpenTarball, GunzipEnds, GunzipFails, OpenTar, Expand, ExpandEnds,
      ExpandFails, Rename, Stock, PatchingStep, SkipPatch, OpenPatch, ClosePatch,
      PatchesDone, Build, Interrupt, vars
  <2>3. \A f \in File : SimpleFile(f) =>
          \/ tree'[f] = tree[f] /\ (f \in backup' <=> f \in backup)
          \/ tree'[f] = "patched" /\ f \in backup'
    <3> SUFFICES ASSUME NEW f \in File, SimpleFile(f)
                 PROVE  \/ tree'[f] = tree[f] /\ (f \in backup' <=> f \in backup)
                        \/ tree'[f] = "patched" /\ f \in backup'
      OBVIOUS
    <3>1. CASE PatchFile \/ PatchMissingFile
      BY <3>1 DEF PatchFile, PatchMissingFile, TypeInv, SourceTypeOK
    <3>2. CASE PatchAgain
      <4>1. CASE f = Target
        <5>1. Target \in FilesOf(Current)
          BY <1>2, <2>1, <2>2, <3>2, TargetType DEF PatchAgain, Applying
        <5>2. SimpleStep(Current) /\ Current.marker = f
          BY <1>2, <2>2, <4>1, <5>1, SimpleFileOwnStep
        <5>3. fileNo = 1
          BY <1>2, <2>1, <2>2, <5>2, SimpleStepIsShort
        <5>4. f \notin backup
          BY <2>1, <5>2, <5>3 DEF PatchInv, GuardWasMissing
        <5> QED
          BY <3>2, <4>1, <5>4 DEF PatchAgain, PatchInv, SavedIsPatched
      <4>2. CASE f # Target
        BY <3>2, <4>2 DEF PatchAgain, TypeInv, SourceTypeOK
      <4> QED
        BY <4>1, <4>2
    <3>3. CASE SaveOriginal \/ Overwrite
      <4>1. Current.kind = "copy"
        BY <3>3 DEF SaveOriginal, Overwrite, Applying
      <4>2. f # Copied
        <5>1. Copied \in FilesOf(Current)
          BY <1>2, <2>2, CurrentType
        <5>2. f \notin FilesOf(Current)
          BY <1>2, <2>2, <4>1, SimpleFileOwnStep DEF SimpleStep
        <5> QED
          BY <5>1, <5>2
      <4> QED
        BY <3>3, <4>2 DEF SaveOriginal, Overwrite, TypeInv, SourceTypeOK
    <3> QED
      BY <2>a, <3>1, <3>2, <3>3
  <2>4. SavedIsPatched'
    BY <1>1, <2>3 DEF PatchInv, SavedIsPatched
  <2>5. StepDone'
    <3> SUFFICES ASSUME SimpleStep(Current)
                 PROVE  tree'[Current.marker] # "pristine"
      BY <1>3, <2>1 DEF StepDone
    <3>1. fileNo = 1 /\ Target = Current.marker /\ SimpleFile(Current.marker)
            /\ Current.marker \in File
      BY <1>2, <2>1, <2>2, SimpleStepIsShort
    <3>2. Current.kind = "patch"
      BY DEF SimpleStep
    <3>3. PatchFile \/ PatchMissingFile \/ PatchAgain
      BY <2>a, <3>2 DEF SaveOriginal, Overwrite, Applying
    <3>4. ~PatchAgain
      BY <2>1, <3>1 DEF PatchAgain, PatchInv, GuardWasMissing, SavedIsPatched
    <3> QED
      BY <3>1, <3>3, <3>4 DEF PatchFile, PatchMissingFile, TypeInv, SourceTypeOK
  <2>6. StepsDone'
    <3> SUFFICES ASSUME NEW i \in DOMAIN R.patches, i < patchNo, SimpleStep(R.patches[i])
                 PROVE  tree'[R.patches[i].marker] # "pristine"
      BY <1>1, <2>1 DEF StepsDone
    <3>1. R.patches[i].marker \in File /\ SimpleFile(R.patches[i].marker)
      BY <1>a DEF SimpleFile, Steps, PatchSteps
    <3>2. tree[R.patches[i].marker] # "pristine"
      BY <2>1 DEF PatchInv, StepsDone
    <3> QED
      BY <2>3, <3>1, <3>2
  <2> QED
    BY <1>2, <2>1, <2>4, <2>5, <2>6
    DEF PatchInv, NothingSavedYet, NothingThereYet, GuardWasMissing, AtFirstStep,
        AllStepsDone
<1>14. CASE ClosePatch
  <2>1. Patching
    BY <1>14 DEF ClosePatch, TypeInv, ApplyingAStep
  <2>2. SimpleStep(Current) => tree[Current.marker] # "pristine"
    BY <1>2, <1>14, <2>1, SimpleStepIsShort DEF ClosePatch, PatchInv, StepDone
  <2>3. StepsDone'
    <3>1. \A i \in DOMAIN R.patches : i < patchNo' => i < patchNo \/ i = patchNo
      BY <1>2, <1>14, <1>a DEF ClosePatch
    <3> QED
      BY <1>1, <1>14, <2>2, <3>1 DEF ClosePatch, PatchInv, StepsDone, Current
  <2> QED
    BY <1>1, <1>14, <2>3
    DEF ClosePatch, PatchInv, SavedIsPatched, NothingSavedYet, NothingThereYet,
        GuardWasMissing, StepDone, AtFirstStep, AllStepsDone
<1>15. CASE PatchesDone
  BY <1>1, <1>3, <1>15
  DEF PatchesDone, PatchInv, SavedIsPatched, NothingSavedYet, NothingThereYet,
      GuardWasMissing, StepDone, StepsDone, AtFirstStep, AllStepsDone
<1>16. CASE Build \/ Interrupt
  BY <1>1, <1>16
  DEF Build, Interrupt, PatchInv, SavedIsPatched, NothingSavedYet, NothingThereYet,
      GuardWasMissing, StepDone, StepsDone, AtFirstStep, AllStepsDone
<1>17. CASE UNCHANGED vars
  BY <1>1, <1>3, <1>17
  DEF vars, PatchInv, SavedIsPatched, NothingSavedYet, NothingThereYet,
      GuardWasMissing, StepDone, StepsDone, AtFirstStep, AllStepsDone
<1> QED
  BY <1>4, <1>5, <1>6, <1>7, <1>8, <1>9, <1>10, <1>11, <1>12, <1>13, <1>14, <1>15,
     <1>16, <1>17
  DEF SourceNext, ScriptStep, Unpacking, PatchingStep, PatchFile, PatchMissingFile,
      PatchAgain, SaveOriginal, Overwrite

(* In a tree that is compiled, a file whose patch has a guard of its own   *)
(* is never back to what the archive holds, whatever was cut off and when. *)
THEOREM PatchesAreNotLost ==
    ASSUME \A s \in Scripts : WellGuarded(Recipe[s])
    PROVE  SourceSpec => []PatchesSurviveReruns
<1>1. TypeInv /\ PatchInv => PatchesSurviveReruns
  <2> SUFFICES ASSUME TypeInv, PatchInv, pc = "build", NEW step \in Steps, SimpleStep(step)
               PROVE  tree[step.marker] # "pristine"
    BY DEF PatchesSurviveReruns
  <2>1. PICK i \in DOMAIN R.patches : step = R.patches[i]
    BY DEF Steps
  <2>2. DOMAIN R.patches = 1..Len(R.patches) /\ Len(R.patches) \in Nat
    BY RecipeType DEF TypeInv, SourceTypeOK, RecipeRecords
  <2>3. i < patchNo
    BY <2>2 DEF PatchInv, AllStepsDone, Patching, TypeInv, SourceTypeOK
  <2> QED
    BY <2>1, <2>3 DEF PatchInv, StepsDone
<1>2. TypeInv /\ PatchInv /\ [SourceNext]_vars => PatchInv'
  BY PatchInvStep
<1> QED
  BY <1>1, <1>2, PatchInvInit, TypeInvInit, TypeInvStep, PTL DEF SourceSpec

-----------------------------------------------------------------------------
(***************************************************************************)
(* The tree.                                                               *)
(***************************************************************************)
LEMMA UnpackInvStep ==
    ASSUME UnpacksOnce(R)
    PROVE  SourceTypeOK /\ UnpackInv /\ [SourceNext]_vars => UnpackInv'
<1> SUFFICES ASSUME SourceTypeOK, UnpackInv, [SourceNext]_vars
             PROVE  UnpackInv'
  OBVIOUS
<1> USE DEF disk, Goto
<1>0. script' = script
  BY SameScript
<1>1. R' = R
  BY <1>0 DEF R
<1>2. script \in Scripts /\ UnpacksOnce(R)
  BY DEF SourceTypeOK
<1>3. CASE Begin
  BY <1>1, <1>3 DEF Begin, UnpackInv, Present
<1>4. CASE Fetching
  BY <1>1, <1>4
  DEF Fetching, SkipDownload, CurlOpens, CurlNoAnswer, CurlCompletes, CurlFails,
      AfterDownload, UnpackInv, Present
<1>5. CASE Unpacking
  <2>1. CASE ClearTree
    <3>1. ~Present'
      BY <1>1, <1>2, <2>1, RecipeType DEF ClearTree, Present, RecipeRecords
    <3> QED
      BY <1>1, <2>1, <3>1 DEF ClearTree, UnpackInv
  <2>2. CASE OpenZip
    <3>1. ~Present
      BY <1>2, <2>2 DEF OpenZip, UnpackInv, UnpacksOnce
    <3>2. todo' \in SUBSET R.files
      BY <1>2, <2>2, YieldType DEF OpenZip, SourceTypeOK
    <3> QED
      BY <1>1, <1>2, <2>2, <3>1, <3>2 DEF OpenZip, UnpackInv, Present, UnpacksOnce
  <2>3. CASE OpenTarball
    BY <1>1, <1>2, <2>3 DEF OpenTarball, UnpackInv, Present, UnpacksOnce
  <2>4. CASE OpenTar
    <3>1. todo' \in SUBSET R.files
      BY <1>2, <2>4, YieldType DEF OpenTar, SourceTypeOK
    <3> QED
      BY <1>1, <1>2, <2>4, <3>1 DEF OpenTar, UnpackInv, Present, UnpacksOnce
  <2>5. CASE GunzipEnds \/ GunzipFails
    BY <1>1, <2>5 DEF GunzipEnds, GunzipFails, UnpackInv, Present
  <2>6. CASE Expand
    BY <1>1, <2>6 DEF Expand, UnpackInv, SourceTypeOK
  <2>7. CASE SkipUnpack \/ ExpandEnds \/ ExpandFails \/ Rename \/ Stock
    BY <1>1, <2>7
    DEF SkipUnpack, ExpandEnds, ExpandFails, AfterExpand, Rename, Stock, UnpackInv
  <2> QED
    BY <1>5, <2>1, <2>2, <2>3, <2>4, <2>5, <2>6, <2>7 DEF Unpacking
<1>6. CASE PatchingStep
  BY <1>1, <1>6
  DEF PatchingStep, SkipPatch, OpenPatch, PatchFile, PatchMissingFile, PatchAgain,
      SaveOriginal, Overwrite, Applying, ClosePatch, PatchesDone, UnpackInv
<1>7. CASE Build \/ Interrupt
  BY <1>1, <1>7 DEF Build, Interrupt, UnpackInv
<1>8. CASE UNCHANGED vars
  BY <1>1, <1>8 DEF vars, UnpackInv, Present
<1> QED
  BY <1>3, <1>4, <1>5, <1>6, <1>7, <1>8 DEF SourceNext, ScriptStep

(* Patching a file neither makes nor removes one.                          *)
LEMMA PatchingKeepsTreeContent ==
    ASSUME TypeInv, UnpacksOnce(R), R' = R,
           PatchFile \/ PatchMissingFile \/ PatchAgain \/ SaveOriginal \/ Overwrite
    PROVE  TreeContent' = TreeContent
<1>1. pc = "apply" /\ fileNo <= Commands /\ patchNo' = patchNo
  BY DEF PatchFile, PatchMissingFile, PatchAgain, SaveOriginal, Overwrite, Applying
<1>2. Patching /\ script \in Scripts /\ patchNo \in Nat \ {0}
  BY <1>1 DEF TypeInv, ApplyingAStep, SourceTypeOK
<1>3. Current.kind = "patch"
  BY <1>2, CurrentType DEF UnpacksOnce, Steps
<1>4. \A f \in File : tree'[f] = "absent" <=> tree[f] = "absent"
  BY <1>3
  DEF PatchFile, PatchMissingFile, PatchAgain, SaveOriginal, Overwrite, Applying,
      TypeInv, SourceTypeOK
<1>5. R.files \subseteq File
  BY <1>2, RecipeType DEF RecipeRecords
<1> QED
  BY <1>4, <1>5 DEF TreeContent

(* A step of a script that unpacks once is a step of WriteOnce.            *)
LEMMA TreeStep ==
    ASSUME TypeInv, UnpackInv, UnpacksOnce(R), [SourceNext]_vars, script' = script
    PROVE  [TreeItem!WriteOnceNext]_<<TreeSeen, TreeBusy>>
<1> USE DEF disk, Goto
<1>1. R' = R
  BY DEF R
<1>2. /\ TreeSeen = TreeContent /\ TreeSeen' = TreeContent'
      /\ TreeBusy = (pc = "expand") /\ TreeBusy' = (pc' = "expand")
  BY <1>1 DEF TreeSeen, TreeBusy
<1>3. script \in Scripts /\ R.files \subseteq File /\ SourceTypeOK
  BY RecipeType DEF TypeInv, SourceTypeOK, R, RecipeRecords
<1>4. tree' = tree => TreeContent' = TreeContent
  BY <1>1 DEF TreeContent
<1>5. CASE Begin \/ Fetching \/ Build
  BY <1>2, <1>4, <1>5
  DEF Begin, Fetching, SkipDownload, CurlOpens, CurlNoAnswer, CurlCompletes, CurlFails,
      AfterDownload, Build
<1>6. CASE ClearTree
  BY <1>2, <1>3, <1>6 DEF ClearTree, UnpacksOnce, UnpackInv
<1>7. CASE OpenZip \/ OpenTar
  <2>1. ~Present
    BY <1>3, <1>7 DEF OpenZip, OpenTar, UnpackInv, UnpacksOnce
  <2>2. TreeContent = "absent"
    BY <1>3, <2>1 DEF TreeContent, Present, UnpacksOnce
  <2>3. TreeContent' = TreeContent /\ pc # "expand" /\ pc' = "expand"
    BY <1>4, <1>7 DEF OpenZip, OpenTar
  <2> QED
    BY <1>2, <2>2, <2>3 DEF TreeItem!WriteOnceNext, TreeItem!Open
<1>8. CASE Expand
  <2>1. PICK f \in todo : tree' = [tree EXCEPT ![f] = "pristine"]
    BY <1>8 DEF Expand
  <2>2. f \in R.files /\ tree[f] = "absent" /\ pc = "expand" /\ pc' = "expand"
    BY <1>8 DEF Expand, UnpackInv
  <2>3. TreeContent # "whole"
    BY <2>2 DEF TreeContent
  <2>4. tree'[f] # "absent"
    BY <1>3, <2>1, <2>2 DEF SourceTypeOK
  <2>5. TreeContent' \in {"partial", "whole"}
    BY <1>1, <2>2, <2>4 DEF TreeContent
  <2> QED
    BY <1>2, <2>2, <2>3, <2>5 DEF TreeItem!WriteOnceNext, TreeItem!Grow
<1>9. CASE ExpandEnds \/ ExpandFails
  BY <1>2, <1>4, <1>9
  DEF ExpandEnds, ExpandFails, AfterExpand, TreeItem!WriteOnceNext, TreeItem!Close
<1>10. CASE SkipUnpack \/ OpenTarball \/ GunzipEnds \/ GunzipFails \/ Rename \/ Stock
  BY <1>2, <1>4, <1>10 DEF SkipUnpack, OpenTarball, GunzipEnds, GunzipFails, Rename, Stock
<1>11. CASE SkipPatch \/ OpenPatch \/ ClosePatch \/ PatchesDone
  BY <1>2, <1>4, <1>11 DEF SkipPatch, OpenPatch, ClosePatch, PatchesDone
<1>12. CASE PatchFile \/ PatchMissingFile \/ PatchAgain \/ SaveOriginal \/ Overwrite
  <2>1. TreeContent' = TreeContent
    BY <1>1, <1>3, <1>12, PatchingKeepsTreeContent
  <2>2. pc = "apply" /\ pc' = "apply"
    BY <1>12
    DEF PatchFile, PatchMissingFile, PatchAgain, SaveOriginal, Overwrite, Applying
  <2> QED
    BY <1>2, <2>1, <2>2
<1>13. CASE Interrupt
  BY <1>2, <1>4, <1>13 DEF Interrupt, TreeItem!WriteOnceNext, TreeItem!Close
<1>14. CASE UNCHANGED vars
  BY <1>2, <1>4, <1>14 DEF vars
<1> QED
  BY <1>5, <1>6, <1>7, <1>8, <1>9, <1>10, <1>11, <1>12, <1>13, <1>14
  DEF SourceNext, ScriptStep, Unpacking, PatchingStep

(* The source tree of a script that tests for it implements WriteOnce: no  *)
(* run unpacks over a tree, and none repairs one.                          *)
THEOREM TreeRefinesWriteOnce == SourceSpec => TreeWrittenOnce
<1> DEFINE Inv == UnpacksOnce(R) => UnpackInv
<1>1. SourceInit => TreeItem!WriteOnceInit /\ Inv
  <2> SUFFICES ASSUME SourceInit
               PROVE  TreeItem!WriteOnceInit /\ Inv
    OBVIOUS
  <2>1. R.files \subseteq File
    BY RecipeType DEF RecipeRecords, SourceInit
  <2> QED
    BY <2>1 DEF SourceInit, UnpackInv, TreeItem!WriteOnceInit, TreeSeen, TreeBusy,
                TreeContent
<1>2. TypeInv /\ Inv /\ [SourceNext]_vars
        => [TreeItem!WriteOnceNext]_<<TreeSeen, TreeBusy>> /\ Inv'
  <2> SUFFICES ASSUME TypeInv, Inv, [SourceNext]_vars
               PROVE  [TreeItem!WriteOnceNext]_<<TreeSeen, TreeBusy>> /\ Inv'
    OBVIOUS
  <2>1. script' = script
    BY SameScript
  <2>2. R' = R
    BY <2>1 DEF R
  <2>3. CASE UnpacksOnce(R)
    BY <2>1, <2>2, <2>3, TreeStep, UnpackInvStep DEF TypeInv
  <2>4. CASE ~UnpacksOnce(R)
    <3>1. TreeSeen' = TreeSeen /\ TreeBusy' = TreeBusy
      BY <2>2, <2>4 DEF TreeSeen, TreeBusy
    <3> QED
      BY <2>2, <2>4, <3>1
  <2> QED
    BY <2>3, <2>4
<1> QED
  BY <1>1, <1>2, TypeInvInit, TypeInvStep, PTL
  DEF SourceSpec, TreeWrittenOnce, TreeItem!WriteOnceSpec

-----------------------------------------------------------------------------
(***************************************************************************)
(* The guards that the first change of their step sets.                    *)
(***************************************************************************)
Guarded(step) == step.marker \in backup \/ tree[step.marker] = "absent"

PatchedIn(step) == \E f \in FilesOf(step) : tree[f] = "patched"

(* Of the i-th step: a file of it is patched only behind the guard, or in  *)
(* a tree that lacks the guarding file for good.                           *)
GuardInv(i) ==
    /\ PatchedIn(R.patches[i]) => Guarded(R.patches[i])
    /\ pc \in {"gunzip", "untar", "expand"} => ~PatchedIn(R.patches[i])
    /\ pc = "apply" /\ patchNo = i =>
         IF fileNo = 1 THEN R.patches[i].marker \notin backup ELSE Guarded(R.patches[i])

LEMMA GuardInvStep ==
    ASSUME TypeInv, UnpackInv, FirstGuarded(R), NEW i \in DOMAIN R.patches,
           MarksFirst(R.patches[i]), GuardInv(i), [SourceNext]_vars
    PROVE  GuardInv(i)'
<1> DEFINE S == R.patches[i]
<1> USE DEF disk, Goto
<1>0. R' = R
  BY SameScript DEF R
<1>1. /\ script \in Scripts /\ patchNo \in Nat \ {0} /\ fileNo \in Nat \ {0}
      /\ tree \in [File -> {"absent", "pristine", "patched"}] /\ backup \in SUBSET File
  BY DEF TypeInv, SourceTypeOK
<1>2. /\ UnpacksOnce(R)
      /\ FilesOf(S) \subseteq R.files
      /\ \A j \in DOMAIN R.patches \ {i} : FilesOf(S) \intersect FilesOf(R.patches[j]) = {}
  BY DEF FirstGuarded
<1>3. /\ S \in PatchSteps /\ R.files \subseteq File /\ R.patches \in Seq(PatchSteps)
  BY <1>1, RecipeType DEF RecipeRecords
<1>4. /\ S.kind = "patch" /\ S.marker = S.files[1] /\ S.marker \in FilesOf(S)
      /\ FilesOf(S) \subseteq File
  <2>1. S.files \in Seq(File) /\ Len(S.files) > 0 /\ S.marker = S.files[1]
        /\ S.kind = "patch"
    BY <1>3 DEF MarksFirst, PatchSteps
  <2>2. 1 \in DOMAIN S.files
    BY <2>1
  <2> QED
    BY <1>2, <1>3, <2>1, <2>2 DEF FilesOf
<1>5. ~Present => ~PatchedIn(S)
  <2>1. R.probe = R.files
    BY <1>2 DEF UnpacksOnce
  <2> QED
    BY <1>2, <2>1 DEF Present, PatchedIn
<1>6. /\ PatchedIn(S) => Guarded(S)
      /\ pc \in {"gunzip", "untar", "expand"} => ~PatchedIn(S)
      /\ pc = "apply" /\ patchNo = i =>
           IF fileNo = 1 THEN S.marker \notin backup ELSE Guarded(S)
  BY DEF GuardInv
<1>7. GuardInv(i)' = (/\ PatchedIn(S)' => Guarded(S)'
                      /\ pc' \in {"gunzip", "untar", "expand"} => ~PatchedIn(S)'
                      /\ pc' = "apply" /\ patchNo' = i =>
                           IF fileNo' = 1 THEN S.marker \notin backup' ELSE Guarded(S)')
  BY <1>0 DEF GuardInv
<1>8. ASSUME UNCHANGED <<tree, backup>>
      PROVE  PatchedIn(S)' = PatchedIn(S) /\ Guarded(S)' = Guarded(S)
  BY <1>0, <1>8 DEF PatchedIn, Guarded
<1> HIDE DEF S
<1>9. CASE Begin \/ Fetching \/ SkipUnpack \/ ExpandEnds \/ ExpandFails \/ Rename \/ Stock
             \/ Build \/ Interrupt
  <2>1. /\ UNCHANGED <<tree, backup>>
        /\ pc' \notin {"gunzip", "untar", "expand", "apply"}
    BY <1>9 DEF Begin, Fetching, SkipDownload, CurlOpens, CurlNoAnswer, CurlCompletes,
                CurlFails, AfterDownload, SkipUnpack, ExpandEnds, ExpandFails,
                AfterExpand, Rename, Stock, Build, Interrupt
  <2> QED
    BY <1>6, <1>7, <1>8, <2>1
<1>10. CASE ClearTree
  BY <1>2, <1>10 DEF ClearTree, UnpackInv, UnpacksOnce
<1>11. CASE OpenZip \/ OpenTarball
  <2>1. ~Present
    BY <1>2, <1>11 DEF OpenZip, OpenTarball, UnpackInv, UnpacksOnce
  <2>2. UNCHANGED <<tree, backup>> /\ pc' \in {"gunzip", "expand"}
    BY <1>11 DEF OpenZip, OpenTarball
  <2> QED
    BY <1>5, <1>7, <1>8, <2>1, <2>2
<1>12. CASE GunzipEnds \/ GunzipFails \/ OpenTar
  <2>1. /\ UNCHANGED <<tree, backup>> /\ pc \in {"gunzip", "untar"}
        /\ pc' \in {"untar", "expand"}
    BY <1>12 DEF GunzipEnds, GunzipFails, OpenTar
  <2> QED
    BY <1>6, <1>7, <1>8, <2>1
<1>13. CASE Expand
  <2>1. pc = "expand" /\ pc' = pc /\ \A f \in File : tree'[f] = "patched" => tree[f] = "patched"
    BY <1>1, <1>13 DEF Expand
  <2>2. ~PatchedIn(S)'
    BY <1>0, <1>4, <1>6, <2>1 DEF PatchedIn, S
  <2> QED
    BY <1>7, <2>1, <2>2
<1>14. CASE SkipPatch \/ ClosePatch \/ PatchesDone
  <2>1. UNCHANGED <<tree, backup>> /\ pc' \in {"patch", "build"}
    BY <1>14 DEF SkipPatch, ClosePatch, PatchesDone
  <2> QED
    BY <1>6, <1>7, <1>8, <2>1
<1>15. CASE OpenPatch
  <2>1. /\ UNCHANGED <<tree, backup>> /\ pc' = "apply" /\ patchNo' = patchNo /\ fileNo' = 1
        /\ R.patches[patchNo].marker \notin backup
    BY <1>15 DEF OpenPatch, Current
  <2> QED
    BY <1>6, <1>7, <1>8, <2>1 DEF S
<1>16. CASE PatchFile \/ PatchMissingFile \/ PatchAgain \/ SaveOriginal \/ Overwrite
  <2>1. /\ pc = "apply" /\ pc' = "apply" /\ patchNo' = patchNo
        /\ fileNo' = fileNo + 1 /\ fileNo <= Commands
    BY <1>16 DEF PatchFile, PatchMissingFile, PatchAgain, SaveOriginal, Overwrite, Applying
  <2>2. fileNo' # 1
    BY <1>1, <2>1
  <2>3. /\ Patching /\ Current \in Steps /\ patchNo \in DOMAIN R.patches
    <3>1. Patching
      BY <2>1 DEF TypeInv, ApplyingAStep
    <3>2. patchNo \in DOMAIN R.patches
      BY <1>1, <1>3, <3>1 DEF Patching
    <3> QED
      BY <1>1, <3>1, <3>2, CurrentType
  <2>4. Current.kind = "patch"
    BY <1>2, <2>3 DEF UnpacksOnce, Steps
  <2>5. Target \in FilesOf(Current) /\ Target \in File
    BY <1>1, <2>1, <2>3, <2>4, TargetType
  <2>6. PatchFile \/ PatchMissingFile \/ PatchAgain
    BY <1>16, <2>4 DEF SaveOriginal, Overwrite, Applying
  <2>7. /\ backup \subseteq backup'
        /\ \A f \in File : f # Target => tree'[f] = tree[f]
        /\ \A f \in File : tree[f] = "absent" => tree'[f] = "absent"
    BY <1>1, <2>5, <2>6 DEF PatchFile, PatchMissingFile, PatchAgain
  <2>8. S.marker \in File
    BY <1>4
  <2>9. Guarded(S) => Guarded(S)'
    BY <1>0, <2>7, <2>8 DEF Guarded, S
  <2>10. CASE patchNo = i
    <3>1. Guarded(S)'
      <4>1. CASE fileNo # 1
        BY <1>6, <2>1, <2>9, <2>10, <4>1
      <4>2. CASE fileNo = 1
        <5>1. Target = S.marker
          BY <1>4, <2>10, <4>2 DEF Target, Current, S
        <5>2. S.marker \notin backup
          BY <1>6, <2>1, <2>10, <4>2
        <5>3. tree[S.marker] # "patched"
          BY <1>4, <1>6, <5>2 DEF PatchedIn, Guarded
        <5>4. S.marker \in backup' \/ tree'[S.marker] = "absent"
          BY <1>1, <2>6, <2>7, <2>8, <5>1, <5>3 DEF PatchFile, PatchMissingFile, PatchAgain
        <5> QED
          BY <1>0, <5>4 DEF Guarded, S
      <4> QED
        BY <4>1, <4>2
    <3> QED
      BY <1>7, <2>1, <2>2, <3>1
  <2>11. CASE patchNo # i
    <3>1. Target \notin FilesOf(S)
      BY <1>2, <2>3, <2>5, <2>11 DEF Current
    <3>2. PatchedIn(S)' => PatchedIn(S)
      BY <1>0, <1>4, <2>7, <3>1 DEF PatchedIn, S
    <3> QED
      BY <1>6, <1>7, <2>1, <2>9, <2>11, <3>2
  <2> QED
    BY <2>10, <2>11
<1>17. CASE UNCHANGED vars
  <2>1. UNCHANGED <<tree, backup, pc, patchNo, fileNo>>
    BY <1>17 DEF vars
  <2> QED
    BY <1>6, <1>7, <1>8, <2>1
<1> QED
  BY <1>9, <1>10, <1>11, <1>12, <1>13, <1>14, <1>15, <1>16, <1>17
     DEF SourceNext, ScriptStep, Unpacking, PatchingStep

(* A patching step that sets its guard with its first change is entered in *)
(* a whole tree only when none of its files is patched, whatever runs were *)
(* cut off inside it.                                                      *)
THEOREM GuardsSpeakTheTruth ==
    ASSUME \A s \in Scripts : FirstGuarded(Recipe[s])
    PROVE  SourceSpec => GuardSpeaksTheTruth
<1> DEFINE Inv ==
      \A i \in DOMAIN R.patches : MarksFirst(R.patches[i]) => UnpackInv /\ GuardInv(i)
<1>1. SourceInit => Inv
  <2> SUFFICES ASSUME SourceInit, NEW i \in DOMAIN R.patches, MarksFirst(R.patches[i])
               PROVE  UnpackInv /\ GuardInv(i)
    OBVIOUS
  <2>1. FilesOf(R.patches[i]) \subseteq File /\ R.files \subseteq File
    <3>1. R.patches \in Seq(PatchSteps) /\ R.files \subseteq File
      BY RecipeType DEF RecipeRecords, SourceInit
    <3>2. R.patches[i] \in PatchSteps
      BY <3>1
    <3>3. R.patches[i].files \in Seq(File)
      BY <3>2 DEF PatchSteps
    <3> QED
      BY <3>1, <3>3 DEF FilesOf
  <2>2. R.probe \subseteq File
    BY <2>1, RecipeType DEF SourceInit
  <2> QED
    BY <2>1, <2>2 DEF SourceInit, UnpackInv, Present, GuardInv, PatchedIn
<1>2. TypeInv /\ Inv /\ [SourceNext]_vars => Inv'
  <2> SUFFICES ASSUME TypeInv, Inv, [SourceNext]_vars
               PROVE  Inv'
    OBVIOUS
  <2>1. script' = script
    BY SameScript
  <2>2. R' = R
    BY <2>1 DEF R
  <2>3. ASSUME NEW i \in DOMAIN R.patches, MarksFirst(R.patches[i])
        PROVE  UnpackInv' /\ GuardInv(i)'
    <3>1. UnpackInv /\ GuardInv(i)
      BY <2>3
    <3>2. FirstGuarded(R) /\ SourceTypeOK
      BY DEF TypeInv, SourceTypeOK, R
    <3>3. UnpacksOnce(R)
      BY <2>3, <3>2 DEF FirstGuarded
    <3> QED
      BY <2>3, <3>1, <3>2, <3>3, UnpackInvStep, GuardInvStep
  <2>4. \A i \in DOMAIN R.patches : MarksFirst(R.patches[i]) => UnpackInv' /\ GuardInv(i)'
    BY <2>3
  <2> QED
    BY <2>2, <2>4 DEF MarksFirst
<1>3. ASSUME TypeInv, Inv, OpenPatch, MarksFirst(Current), Complete, NEW f \in FilesOf(Current)
      PROVE  tree[f] # "patched"
  <2>1. patchNo \in DOMAIN R.patches
    <3>1. R.patches \in Seq(PatchSteps) /\ patchNo \in Nat \ {0}
      BY <1>3, RecipeType DEF TypeInv, SourceTypeOK, RecipeRecords
    <3> QED
      BY <1>3, <3>1 DEF OpenPatch, Patching
  <2>2. GuardInv(patchNo) /\ Current.marker \notin backup
    BY <1>3, <2>1 DEF Current, OpenPatch
  <2>3. Current.marker \in R.files
    <3>1. FirstGuarded(R)
      BY <1>3 DEF TypeInv, SourceTypeOK, R
    <3>2. FilesOf(Current) \subseteq R.files
      BY <1>3, <2>1, <3>1 DEF FirstGuarded, Current
    <3>3. 1 \in DOMAIN Current.files
      <4>1. Current.files \in Seq(File)
        BY <1>3, CurrentType DEF TypeInv, SourceTypeOK, OpenPatch, PatchSteps
      <4> QED
        BY <1>3, <4>1 DEF MarksFirst
    <3> QED
      BY <1>3, <3>2, <3>3 DEF MarksFirst, FilesOf
  <2>4. ~PatchedIn(Current)
    BY <1>3, <2>2, <2>3 DEF GuardInv, Guarded, Complete, Current
  <2> QED
    BY <1>3, <2>4 DEF PatchedIn
<1>4. TypeInv /\ Inv /\ [SourceNext]_vars =>
        [OpenPatch /\ MarksFirst(Current) /\ Complete =>
           \A f \in FilesOf(Current) : tree[f] # "patched"]_vars
  BY <1>3
<1> QED
  BY <1>1, <1>2, <1>4, TypeInvInit, TypeInvStep, PTL DEF SourceSpec, GuardSpeaksTheTruth

-----------------------------------------------------------------------------
(***************************************************************************)
(* What is compiled.                                                       *)
(***************************************************************************)
(* A stage that is hurt stays hurt, unless 7z writes the whole tree again. *)
LEMMA WoundsStay ==
    ASSUME TypeInv, [SourceNext]_vars
    PROVE  /\ "empty" \in wounds => "empty" \in wounds'
           /\ "archive" \in wounds => "archive" \in wounds'
           /\ ~ExpandEnds /\ Unhurt' => Unhurt
  BY DEF SourceNext, ScriptStep, Begin, Fetching, SkipDownload, CurlOpens, CurlNoAnswer,
         CurlCompletes, CurlFails, Unpacking, ClearTree, SkipUnpack, OpenZip,
         OpenTarball, GunzipEnds, GunzipFails, OpenTar, Expand, ExpandEnds,
         ExpandFails, Rename, Stock, PatchingStep, SkipPatch, OpenPatch, PatchFile,
         PatchMissingFile, PatchAgain, SaveOriginal, Overwrite, Applying,
         ClosePatch, PatchesDone, Build, Interrupt, MakesDirectory, Unhurt, vars, disk,
         TypeInv, SourceTypeOK

(* What a step may do to the archive and to the tree.                      *)
LEMMA Presence ==
    ASSUME TypeInv, [SourceNext]_vars
    PROVE  /\ archive' = "absent" => archive = "absent"
           /\ ~ClearTree => \A f \in File : tree'[f] = "absent" => tree[f] = "absent"
           /\ ~Expand /\ ~Overwrite =>
                \A f \in File : tree[f] = "absent" => tree'[f] = "absent"
<1> USE DEF TypeInv, SourceTypeOK, disk, Goto
<1>1. CASE Begin \/ Fetching \/ PatchesDone \/ Build \/ Interrupt \/ UNCHANGED vars
  BY <1>1 DEF Begin, Fetching, SkipDownload, CurlOpens, CurlNoAnswer, CurlCompletes,
              CurlFails, PatchesDone, Build, Interrupt, vars
<1>2. CASE Unpacking
  BY <1>2 DEF Unpacking, ClearTree, SkipUnpack, OpenZip, OpenTarball, GunzipEnds,
              GunzipFails, OpenTar, Expand, ExpandEnds, ExpandFails, Rename, Stock
<1>3. CASE PatchingStep
  <2>1. CASE PatchFile \/ PatchMissingFile \/ PatchAgain
    BY <2>1 DEF PatchFile, PatchMissingFile, PatchAgain, Applying
  <2>2. CASE SaveOriginal \/ Overwrite
    BY <2>2 DEF SaveOriginal, Overwrite, Applying
  <2>3. CASE SkipPatch \/ OpenPatch \/ ClosePatch \/ PatchesDone
    BY <2>3 DEF SkipPatch, OpenPatch, ClosePatch, PatchesDone
  <2> QED
    BY <1>3, <2>1, <2>2, <2>3 DEF PatchingStep
<1> QED
  BY <1>1, <1>2, <1>3 DEF SourceNext, ScriptStep

LEMMA FromTheArchiveStep ==
    ASSUME TypeInv, WholeInv, [SourceNext]_vars
    PROVE  FromTheArchive'
<1> USE DEF disk, Goto
<1>0. R' = R
  BY SameScript DEF R
<1>1. /\ R.files \subseteq File /\ R.probe \subseteq R.files
      /\ tree \in [File -> {"absent", "pristine", "patched"}]
  BY RecipeType DEF TypeInv, SourceTypeOK, RecipeRecords
<1>2. FromTheArchive
  BY DEF WholeInv
<1>3. "empty" \notin wounds' /\ made' => Seen'
  <2> SUFFICES ASSUME "empty" \notin wounds', made'
               PROVE  Seen'
    OBVIOUS
  <2>1. "empty" \notin wounds
    BY WoundsStay
  <2>2. ~ClearTree
    BY DEF ClearTree
  <2>3. Seen
    <3>1. CASE Stock \/ Build
      BY <1>2, <2>1, <3>1 DEF Stock, Build, MakesDirectory, Present, FromTheArchive, Seen
    <3>2. CASE ~Stock /\ ~Build
      <4>1. made' = made
        BY <2>2, <3>2
        DEF SourceNext, ScriptStep, Begin, Fetching, SkipDownload, CurlOpens, CurlNoAnswer,
          CurlCompletes, CurlFails, Unpacking, ClearTree, SkipUnpack, OpenZip,
          OpenTarball, GunzipEnds, GunzipFails, OpenTar, Expand, ExpandEnds,
          ExpandFails, Rename, PatchingStep, SkipPatch, OpenPatch, PatchFile,
          PatchMissingFile, PatchAgain, SaveOriginal, Overwrite, Applying,
          ClosePatch, PatchesDone, Interrupt, vars
      <4> QED
        BY <1>2, <2>1, <4>1 DEF FromTheArchive
    <3> QED
      BY <3>1, <3>2
  <2> QED
    BY <1>0, <1>1, <2>2, <2>3, Presence DEF Seen
<1>4. "empty" \notin wounds' /\ archive' = "absent" => NoneThere'
  <2> SUFFICES ASSUME "empty" \notin wounds', archive' = "absent"
               PROVE  NoneThere'
    OBVIOUS
  <2>1. NoneThere /\ "empty" \notin wounds /\ archive = "absent"
    BY <1>2, WoundsStay, Presence DEF FromTheArchive
  <2>2. ~Expand
    BY <2>1 DEF Expand, WholeInv, WhileUnpacking
  <2>3. ~Present
    BY <1>1, <1>2, <2>1 DEF Present, FromTheArchive, Seen, NoneThere
  <2>4. \A f \in File : tree[f] = "absent" => tree'[f] = "absent"
    <3>1. CASE Overwrite
      BY <2>3, <3>1 DEF Overwrite
    <3> QED
      BY <2>2, <3>1, Presence
  <2> QED
    BY <1>0, <1>1, <2>1, <2>4 DEF NoneThere
<1>5. archive' = "absent" => tar' = "absent"
  <2> SUFFICES ASSUME archive' = "absent"
               PROVE  tar' = "absent"
    OBVIOUS
  <2>1. archive = "absent" /\ tar = "absent"
    BY <1>2, Presence DEF FromTheArchive
  <2> QED
    BY <2>1
    DEF SourceNext, ScriptStep, Begin, Fetching, SkipDownload, CurlOpens, CurlNoAnswer,
        CurlCompletes, CurlFails, Unpacking, ClearTree, SkipUnpack, OpenZip,
        OpenTarball, GunzipEnds, GunzipFails, OpenTar, Expand, ExpandEnds,
        ExpandFails, Rename, Stock, PatchingStep, SkipPatch, OpenPatch, PatchFile,
        PatchMissingFile, PatchAgain, SaveOriginal, Overwrite, Applying,
        ClosePatch, PatchesDone, Build, Interrupt, vars
<1>6. "archive" \notin wounds' /\ pc' # "curl" => archive' # "partial"
  <2>1. "archive" \notin wounds' => "archive" \notin wounds
    BY WoundsStay
  <2> QED
    BY <1>2, <2>1
    DEF FromTheArchive, SourceNext, ScriptStep, Begin, Fetching, SkipDownload, CurlOpens,
        CurlNoAnswer, CurlCompletes, CurlFails, Unpacking, ClearTree, SkipUnpack, OpenZip,
        OpenTarball, GunzipEnds, GunzipFails, OpenTar, Expand, ExpandEnds,
        ExpandFails, Rename, Stock, PatchingStep, SkipPatch, OpenPatch, PatchFile,
        PatchMissingFile, PatchAgain, SaveOriginal, Overwrite, Applying,
        ClosePatch, PatchesDone, Build, Interrupt, Wounded, vars
<1> QED
  BY <1>3, <1>4, <1>5, <1>6 DEF FromTheArchive

LEMMA WhileUnpackingStep ==
    ASSUME TypeInv, WholeInv, [SourceNext]_vars
    PROVE  WhileUnpacking'
<1> USE DEF disk, Goto
<1>0. R' = R
  BY SameScript DEF R
<1>1. /\ R.files \subseteq File /\ script \in Scripts
      /\ tree \in [File -> {"absent", "pristine", "patched"}]
  BY RecipeType DEF TypeInv, SourceTypeOK, RecipeRecords
<1>2. FromTheArchive /\ WhileUnpacking
  BY DEF WholeInv
<1>3. CASE OpenZip
  <2>1. Unpacked = archive /\ Unpacked' = archive /\ pc' = "expand"
        /\ UNCHANGED <<tree, archive>> /\ todo' \in Yield(archive)
    BY <1>0, <1>3 DEF OpenZip, Unpacked
  <2>2. archive = "whole" => todo' = R.files
    BY <2>1 DEF Yield
  <2>3. archive = "absent" => todo' = {}
    BY <2>1 DEF Yield
  <2> QED
    BY <1>0, <2>1, <2>2, <2>3 DEF WhileUnpacking
<1>4. CASE OpenTarball
  BY <1>0, <1>4 DEF OpenTarball, WhileUnpacking
<1>5. CASE GunzipEnds
  BY <1>0, <1>2, <1>5 DEF GunzipEnds, WhileUnpacking, FromTheArchive, Unpacked
<1>6. CASE GunzipFails
  BY <1>0, <1>2, <1>6 DEF GunzipFails, WhileUnpacking, Unhurt
<1>7. CASE OpenTar
  <2>1. Unpacked = tar /\ Unpacked' = tar /\ pc' = "expand"
        /\ UNCHANGED <<tree, archive, wounds>> /\ todo' \in Yield(tar)
    BY <1>0, <1>2, <1>7 DEF OpenTar, Unpacked, WhileUnpacking
  <2>2. tar = "whole" => todo' = R.files
    BY <2>1 DEF Yield
  <2>3. archive = "absent" => todo' = {}
    BY <1>2, <2>1 DEF Yield, FromTheArchive
  <2>4. Unhurt => tar = archive
    BY <1>2, <1>7, <2>1 DEF WhileUnpacking, OpenTar
  <2> QED
    BY <1>0, <2>1, <2>2, <2>3, <2>4 DEF WhileUnpacking, Unhurt
<1>8. CASE Expand
  <2>1. PICK g \in todo : tree' = [tree EXCEPT ![g] = "pristine"] /\ todo' = todo \ {g}
    BY <1>8 DEF Expand
  <2>2. /\ pc = "expand" /\ pc' = "expand" /\ UNCHANGED <<wounds, archive, tar>>
        /\ Unpacked' = Unpacked
    BY <1>0, <1>8 DEF Expand, Unpacked
  <2>3. \A f \in R.files : f \in todo \/ tree[f] # "absent"
          => f \in todo' \/ tree'[f] # "absent"
    BY <1>1, <2>1
  <2> QED
    BY <1>0, <1>2, <2>1, <2>2, <2>3 DEF WhileUnpacking, Unhurt
<1>9. CASE UNCHANGED vars
  BY <1>0, <1>2, <1>9 DEF WhileUnpacking, Unhurt, Unpacked, vars
<1>10. CASE Begin \/ Fetching \/ ClearTree \/ SkipUnpack \/ ExpandEnds \/ ExpandFails
              \/ Rename \/ Stock \/ PatchingStep \/ Build \/ Interrupt
  <2>1. pc' \notin {"gunzip", "untar", "expand"}
    BY <1>10
    DEF Begin, Fetching, SkipDownload, CurlOpens, CurlNoAnswer,
        CurlCompletes, CurlFails, AfterDownload, ClearTree, SkipUnpack, ExpandEnds,
        ExpandFails, AfterExpand, Rename, Stock, PatchingStep, SkipPatch, OpenPatch,
        PatchFile, PatchMissingFile, PatchAgain, SaveOriginal, Overwrite, Applying,
        ClosePatch, PatchesDone, Build, Interrupt
  <2> QED
    BY <2>1 DEF WhileUnpacking
<1> QED
  BY <1>3, <1>4, <1>5, <1>6, <1>7, <1>8, <1>9, <1>10 DEF SourceNext, ScriptStep, Unpacking

LEMMA OnceUnpackedStep ==
    ASSUME TypeInv, WholeInv, Repeatable(R), [SourceNext]_vars
    PROVE  OnceUnpacked'
<1> USE DEF disk, Goto
<1> DEFINE After == {"rename", "stock", "patch", "apply", "build"}
<1>0. R' = R
  BY SameScript DEF R
<1>1. /\ R.files \subseteq File /\ R.probe \subseteq R.files
      /\ R.renames => ~R.outer /\ R.probe # {}
      /\ placed \in BOOLEAN
  BY RecipeType DEF TypeInv, SourceTypeOK, RecipeRecords, Repeatable
<1>2. FromTheArchive /\ WhileUnpacking /\ OnceUnpacked
  BY DEF WholeInv
<1>3. ASSUME Unhurt, Present PROVE Seen
  BY <1>2, <1>3 DEF Unhurt, FromTheArchive, Present, Seen
<1>4. ASSUME UNCHANGED tree
      PROVE  (Seen' <=> Seen) /\ (AllThere' <=> AllThere)
  BY <1>0, <1>4 DEF Seen, AllThere
(* At the end of an extraction the tree is there or it never came.         *)
<1>5. ASSUME pc = "expand", Unhurt, todo = {}
      PROVE  (archive # "absent" => AllThere) /\ (Seen => AllThere)
  <2>1. Unpacked = archive /\ archive # "partial" /\ (archive = "absent" => NoneThere)
    BY <1>2, <1>5 DEF FromTheArchive, WhileUnpacking, Unhurt
  <2>2. archive = "whole" => AllThere
    BY <1>2, <1>5, <2>1 DEF WhileUnpacking, AllThere
  <2>3. archive = "absent" => ~Seen
    BY <1>1, <2>1 DEF NoneThere, Seen
  <2> QED
    BY <2>1, <2>2, <2>3 DEF TypeInv, SourceTypeOK, Contents
<1>6. CASE Begin
  <2>1. pc' \in {"stock", "download"} /\ UNCHANGED <<tree, placed, wounds, archive>>
        /\ (pc' = "stock" => R.outer /\ Present) /\ pc = "prompt"
    BY <1>6 DEF Begin
  <2>2. pc' = "stock" => placed
    BY <1>1, <1>2, <2>1 DEF OnceUnpacked
  <2> QED
    BY <1>0, <1>2, <1>3, <1>4, <2>1, <2>2 DEF OnceUnpacked, Unhurt
<1>7. CASE Fetching \/ OpenZip \/ OpenTarball \/ GunzipEnds \/ GunzipFails \/ OpenTar
  <2>1. /\ UNCHANGED <<tree, placed>> /\ pc # "expand" /\ pc' \notin After
        /\ Unhurt' => Unhurt
    BY <1>7, WoundsStay
    DEF Fetching, SkipDownload, CurlOpens, CurlNoAnswer, CurlCompletes, CurlFails,
        AfterDownload, OpenZip, OpenTarball, GunzipEnds, GunzipFails, OpenTar, ExpandEnds
  <2> QED
    BY <1>0, <1>2, <1>4, <2>1 DEF OnceUnpacked
<1>8. CASE ClearTree
  <2>1. ~Seen' /\ pc' \notin After /\ UNCHANGED placed
    BY <1>0, <1>1, <1>8 DEF ClearTree, Seen
  <2> QED
    BY <1>0, <1>2, <2>1 DEF OnceUnpacked
<1>9. CASE SkipUnpack
  <2>1. /\ UNCHANGED <<tree, placed, wounds, archive>> /\ Present /\ pc = "unpack"
        /\ pc' = IF placed THEN "stock" ELSE "rename"
    BY <1>9 DEF SkipUnpack
  <2> QED
    BY <1>0, <1>2, <1>3, <1>4, <2>1 DEF OnceUnpacked, Unhurt
<1>10. CASE Expand
  BY <1>0, <1>2, <1>10 DEF Expand, OnceUnpacked
<1>11. CASE ExpandEnds
  <2>1. /\ UNCHANGED <<tree, placed, archive>> /\ pc = "expand" /\ todo = {}
        /\ pc' = IF placed THEN "stock" ELSE "rename"
        /\ wounds' = IF Unpacked = "whole" THEN wounds \ {"unpack"} ELSE wounds
    BY <1>11 DEF ExpandEnds, AfterExpand
  <2>2. Unpacked = "whole" => AllThere
    BY <1>2, <2>1 DEF WhileUnpacking, AllThere
  <2>3. Unhurt' => (archive # "absent" => AllThere) /\ (Seen => AllThere)
    BY <1>5, <2>1, <2>2 DEF Unhurt
  <2> QED
    BY <1>0, <1>2, <1>4, <2>1, <2>3 DEF OnceUnpacked
<1>12. CASE ExpandFails
  BY <1>0, <1>2, <1>12 DEF ExpandFails, AfterExpand, OnceUnpacked, Unhurt
<1>13. CASE Rename
  <2>1. /\ UNCHANGED <<tree, wounds, archive>> /\ pc = "rename" /\ pc' = "stock"
        /\ placed' = Present
    BY <1>13 DEF Rename
  <2>2. R.renames
    BY <1>2, <2>1 DEF OnceUnpacked
  <2>3. AllThere => Present
    BY <1>1, <2>2 DEF AllThere, Present
  <2> QED
    BY <1>0, <1>2, <1>4, <2>1, <2>2, <2>3 DEF OnceUnpacked, Unhurt
<1>14. CASE Stock \/ Build
  <2>1. /\ UNCHANGED <<tree, placed, archive>> /\ pc \in {"stock", "build"}
        /\ pc' \in {"patch", "prompt"} /\ (pc' = "patch" => pc = "stock")
        /\ (Unhurt' => Unhurt)
    BY <1>14, WoundsStay DEF Stock, Build, ExpandEnds
  <2> QED
    BY <1>0, <1>2, <1>4, <2>1 DEF OnceUnpacked
<1>15. CASE PatchingStep
  <2>1. /\ UNCHANGED <<placed, wounds, archive>> /\ pc \in {"patch", "apply"}
        /\ pc' \in {"patch", "apply", "build"}
    BY <1>15
    DEF PatchingStep, SkipPatch, OpenPatch, PatchFile, PatchMissingFile, PatchAgain,
        SaveOriginal, Overwrite, Applying, ClosePatch, PatchesDone
  <2>2. AllThere => AllThere'
    BY <1>0, <1>1, <2>1, Presence DEF AllThere, ClearTree
  <2>3. Seen' => Seen \/ Present
    <3>1. CASE Overwrite
      BY <1>0, <1>1, <3>1 DEF Overwrite, Seen
    <3>2. CASE ~Overwrite
      <4>1. ~Expand
        BY <2>1 DEF Expand
      <4> QED
        BY <1>0, <1>1, <3>2, <4>1, Presence DEF Seen
    <3> QED
      BY <3>1, <3>2
  <2> QED
    BY <1>0, <1>2, <1>3, <2>1, <2>2, <2>3 DEF OnceUnpacked, Unhurt
<1>16. CASE Interrupt
  <2>1. /\ UNCHANGED <<tree, placed, archive>> /\ pc' = "prompt"
        /\ (Unhurt' => Unhurt) /\ (Unhurt' /\ pc = "expand" => todo = {})
    BY <1>16, WoundsStay DEF Interrupt, Wounded, Unhurt, ExpandEnds
  <2> QED
    BY <1>0, <1>2, <1>4, <1>5, <2>1 DEF OnceUnpacked
<1>17. CASE UNCHANGED vars
  BY <1>0, <1>2, <1>4, <1>17 DEF OnceUnpacked, Unhurt, vars
<1> QED
  BY <1>6, <1>7, <1>8, <1>9, <1>10, <1>11, <1>12, <1>13, <1>14, <1>15, <1>16, <1>17
  DEF SourceNext, ScriptStep, Unpacking

LEMMA UnpatchedStep ==
    ASSUME TypeInv, UnpatchedWhileUnpacking, Repeatable(R), R.patches # <<>>,
           [SourceNext]_vars
    PROVE  UnpatchedWhileUnpacking'
<1> USE DEF disk, Goto, UnpatchedWhileUnpacking
<1>0. R' = R
  BY SameScript DEF R
<1>1. /\ R.files \subseteq File /\ R.probe = R.files /\ (R.outer \/ R.inner)
      /\ tree \in [File -> {"absent", "pristine", "patched"}] /\ backup \in SUBSET File
      /\ script \in Scripts /\ patchNo \in Nat \ {0} /\ fileNo \in Nat \ {0}
  BY RecipeType DEF TypeInv, SourceTypeOK, RecipeRecords, Repeatable
<1>2. ASSUME UNCHANGED <<tree, made>> PROVE Present' = Present
  BY <1>0, <1>2 DEF Present
<1>3. CASE Begin \/ Fetching
  BY <1>0, <1>2, <1>3 DEF Begin, Fetching, SkipDownload, CurlOpens, CurlNoAnswer,
                CurlCompletes, CurlFails, AfterDownload
<1>4. CASE ClearTree
  BY <1>0, <1>1, <1>4 DEF ClearTree, Present
<1>5. CASE OpenZip \/ OpenTarball
  <2>1. ~Present /\ UNCHANGED <<tree, backup>> /\ pc' \in {"gunzip", "expand"}
    BY <1>1, <1>5 DEF OpenZip, OpenTarball
  <2>2. \A f \in R.files : tree[f] = "absent"
    BY <1>1, <2>1 DEF Present
  <2> QED
    BY <1>0, <2>1, <2>2
<1>6. CASE GunzipEnds \/ GunzipFails \/ OpenTar
  BY <1>0, <1>6 DEF GunzipEnds, GunzipFails, OpenTar
<1>7. CASE Expand
  BY <1>0, <1>1, <1>7 DEF Expand
<1>8. CASE SkipUnpack \/ ExpandEnds \/ ExpandFails \/ Rename \/ Stock \/ SkipPatch
             \/ OpenPatch \/ ClosePatch \/ PatchesDone \/ Build \/ Interrupt
  <2>1. /\ UNCHANGED <<tree, backup>>
        /\ pc' \notin {"download", "curl", "clear", "unpack", "gunzip", "untar", "expand"}
    BY <1>8 DEF SkipUnpack, ExpandEnds, ExpandFails, AfterExpand, Rename, Stock, SkipPatch,
                OpenPatch, ClosePatch, PatchesDone, Build, Interrupt
  <2> QED
    BY <1>0, <2>1
<1>9. CASE PatchFile \/ PatchMissingFile \/ PatchAgain
  <2>1. pc' = "apply"
    BY <1>9 DEF PatchFile, PatchMissingFile, PatchAgain, Applying
  <2>2. \A f \in File : tree'[f] = "absent" /\ f \in backup' => tree[f] = "absent" /\ f \in backup
    <3>1. Target \in File
      BY <1>1, <1>9, TargetType
      DEF PatchFile, PatchMissingFile, PatchAgain, Applying, TypeInv, ApplyingAStep
    <3> QED
      BY <1>1, <1>9, <3>1 DEF PatchFile, PatchMissingFile, PatchAgain
  <2> QED
    BY <1>0, <1>1, <2>1, <2>2
<1>10. CASE SaveOriginal \/ Overwrite
  <2>1. pc' = "apply"
    BY <1>10 DEF SaveOriginal, Overwrite, Applying
  <2>2. \A f \in File : tree'[f] = "absent" /\ f \in backup' => tree[f] = "absent" /\ f \in backup
    BY <1>1, <1>10 DEF SaveOriginal, Overwrite
  <2> QED
    BY <1>0, <1>1, <2>1, <2>2
<1>11. CASE UNCHANGED vars
  BY <1>0, <1>2, <1>11 DEF vars
<1> QED
  BY <1>3, <1>4, <1>5, <1>6, <1>7, <1>8, <1>9, <1>10, <1>11
  DEF SourceNext, ScriptStep, Unpacking, PatchingStep

(* The patches are counted from the first, and all of them are passed.     *)
LEMMA StagesInOrder ==
    ASSUME TypeInv, AtFirstStep, AllStepsDone, [SourceNext]_vars
    PROVE  AtFirstStep' /\ AllStepsDone'
<1> USE DEF disk, Goto
<1>0. R' = R
  BY SameScript DEF R
<1>1. (patchNo' = patchNo) => (Patching' <=> Patching)
  BY <1>0 DEF Patching
<1> QED
  BY <1>1
  DEF SourceNext, ScriptStep, Begin, Fetching, SkipDownload, CurlOpens, CurlNoAnswer,
      CurlCompletes, CurlFails, AfterDownload, Unpacking, ClearTree, SkipUnpack, OpenZip,
      OpenTarball, GunzipEnds, GunzipFails, OpenTar, Expand, ExpandEnds, ExpandFails,
      AfterExpand, Rename, Stock, PatchingStep, SkipPatch, OpenPatch, PatchFile,
      PatchMissingFile, PatchAgain, SaveOriginal, Overwrite, Applying, ClosePatch,
      PatchesDone, Build, Interrupt, vars, AtFirstStep, AllStepsDone

(* The patching steps of a repeatable recipe.                              *)
LEMMA StepFiles ==
    ASSUME TypeInv, Repeatable(R), NEW i \in DOMAIN R.patches,
           SetsItsMarker(R.patches[i])
    PROVE  LET S == R.patches[i] IN
           /\ S \in PatchSteps /\ S.files \in Seq(File)
           /\ FilesOf(S) \subseteq R.files /\ FilesOf(S) \subseteq File
           /\ S.marker \in FilesOf(S)
           /\ DOMAIN S.files = 1..Len(S.files) /\ Len(S.files) \in Nat \ {0}
           /\ \A k, l \in DOMAIN S.files : S.files[k] = S.files[l] => k = l
           /\ S.kind = "copy" => Len(S.files) = 1
           /\ \A j \in DOMAIN R.patches \ {i} : FilesOf(S) \intersect FilesOf(R.patches[j]) = {}
<1>1. R.patches \in Seq(PatchSteps) /\ R.files \subseteq File
  BY RecipeType DEF TypeInv, SourceTypeOK, RecipeRecords
<1>2. R.patches[i] \in PatchSteps
  BY <1>1
<1>3. R.patches[i].files \in Seq(File) /\ R.patches[i].files # <<>>
  BY <1>2 DEF PatchSteps
<1>4. /\ DOMAIN R.patches[i].files = 1..Len(R.patches[i].files)
      /\ Len(R.patches[i].files) \in Nat \ {0}
  BY <1>3
<1> QED
  BY <1>1, <1>2, <1>3, <1>4 DEF Repeatable, SetsItsMarker

(* A step that stands outside the patching leaves what was patched.        *)
LEMMA StepInvOutside ==
    ASSUME TypeInv, WholeInv, UnpatchedWhileUnpacking, Repeatable(R), OnceUnpacked',
           UnpatchedWhileUnpacking', NEW i \in DOMAIN R.patches,
           SetsItsMarker(R.patches[i]), StepInv(i), AtFirstStep, [SourceNext]_vars,
           ~PatchingStep, ~Interrupt, ~Build, ~(UNCHANGED vars)
    PROVE  StepInv(i)'
<1> DEFINE S == R.patches[i]
<1> USE DEF disk, Goto
<1>0. R' = R
  BY SameScript DEF R
<1>1. /\ S.marker \in FilesOf(S) /\ FilesOf(S) \subseteq R.files /\ FilesOf(S) \subseteq File
      /\ DOMAIN R.patches \subseteq Nat \ {0}
  <2>1. R.patches \in Seq(PatchSteps)
    BY RecipeType DEF TypeInv, SourceTypeOK, RecipeRecords
  <2> QED
    BY <2>1, StepFiles
<1> HIDE DEF S
<1>2. pc' \notin {"apply", "build"} /\ (pc' = "patch" => patchNo' = 1)
  <2>1. pc' \notin {"apply", "build"} /\ (pc' = "patch" => pc = "stock")
    BY DEF SourceNext, ScriptStep, Begin, Fetching, SkipDownload, CurlOpens, CurlNoAnswer,
           CurlCompletes, CurlFails, AfterDownload, Unpacking, ClearTree, SkipUnpack,
           OpenZip, OpenTarball, GunzipEnds, GunzipFails, OpenTar, Expand, ExpandEnds,
           ExpandFails, AfterExpand, Rename, Stock
  <2>2. pc' = "patch" => patchNo' = patchNo /\ patchNo = 1
    BY <2>1
    DEF SourceNext, ScriptStep, Begin, Fetching, SkipDownload, CurlOpens, CurlNoAnswer,
        CurlCompletes, CurlFails, AfterDownload, Unpacking, ClearTree, SkipUnpack,
        OpenZip, OpenTarball, GunzipEnds, GunzipFails, OpenTar, Expand, ExpandEnds,
        ExpandFails, AfterExpand, Rename, Stock, AtFirstStep
  <2> QED
    BY <2>1, <2>2
<1>3. SUFFICES ASSUME Unhurt', archive' # "absent"
               PROVE  (Fresh(S) \/ Done(S))'
  BY <1>0, <1>1, <1>2 DEF StepInv, AtWork, S
<1>4. CASE pc \in {"gunzip", "untar", "expand"}
  <2>1. \A f \in FilesOf(S) : f \notin backup /\ tree[f] # "patched"
    BY <1>1, <1>4 DEF UnpatchedWhileUnpacking
  <2>2. backup' = backup /\ \A f \in File : tree'[f] = "patched" => tree[f] = "patched"
    BY <1>4
    DEF SourceNext, ScriptStep, Begin, Fetching, SkipDownload, CurlOpens, CurlNoAnswer,
        CurlCompletes, CurlFails, Unpacking, ClearTree, SkipUnpack, OpenZip, OpenTarball,
        GunzipEnds, GunzipFails, OpenTar, Expand, ExpandEnds, ExpandFails, Rename, Stock,
        TypeInv, SourceTypeOK
  <2> QED
    BY <1>0, <1>1, <2>1, <2>2 DEF Fresh, S
<1>5. CASE ClearTree
  BY <1>0, <1>1, <1>5 DEF ClearTree, Fresh, S
<1>6. CASE pc \notin {"gunzip", "untar", "expand"} /\ ~ClearTree
  <2>1. UNCHANGED <<tree, backup>> /\ pc # "apply"
    BY <1>6
    DEF SourceNext, ScriptStep, Begin, Fetching, SkipDownload, CurlOpens, CurlNoAnswer,
        CurlCompletes, CurlFails, Unpacking, SkipUnpack, OpenZip, OpenTarball,
        GunzipEnds, GunzipFails, OpenTar, Expand, ExpandEnds, ExpandFails, Rename, Stock
  <2>2. Unhurt
    BY <1>3, <1>6, WoundsStay DEF ExpandEnds
  <2>3. CASE archive # "absent"
    <3>1. Fresh(S) \/ Done(S)
      BY <2>1, <2>2, <2>3 DEF StepInv, AtWork, S
    <3> QED
      BY <1>0, <2>1, <3>1 DEF Fresh, Done, S
  <2>4. CASE archive = "absent"
    <3>1. \A f \in FilesOf(S) : tree[f] = "absent" /\ f \notin backup
      BY <1>1, <2>2, <2>4
      DEF WholeInv, FromTheArchive, NoneThere, Unhurt, UnpatchedWhileUnpacking
    <3> QED
      BY <1>0, <1>1, <2>1, <3>1 DEF Fresh, S
  <2> QED
    BY <2>3, <2>4
<1> QED
  BY <1>4, <1>5, <1>6

(* A command of the step at work, in a tree that is whole, patches the     *)
(* file it is at.                                                          *)
LEMMA CommandPatches ==
    ASSUME TypeInv, WholeInv, Repeatable(R), Unhurt, archive # "absent",
           NEW kind \in {"patch", "copy"}, Applying(kind),
           PatchFile \/ PatchMissingFile \/ PatchAgain \/ SaveOriginal \/ Overwrite,
           SetsItsMarker(Current), UpToFile(Current)
    PROVE  /\ (UpToFile(Current))'
           /\ \A f \in File \ FilesOf(Current) : tree'[f] = tree[f]
           /\ \A f \in File \ FilesOf(Current) : f \in backup' <=> f \in backup
<1> USE DEF disk, Goto
<1>0. R' = R /\ Current' = Current
  BY DEF Applying, R, Current
<1>1. /\ script \in Scripts /\ patchNo \in Nat \ {0} /\ fileNo \in Nat \ {0}
      /\ tree \in [File -> {"absent", "pristine", "patched"}] /\ backup \in SUBSET File
      /\ Patching /\ pc = "apply"
  BY DEF TypeInv, SourceTypeOK, ApplyingAStep, Applying
<1>2. patchNo \in DOMAIN R.patches
  <2>1. R.patches \in Seq(PatchSteps)
    BY <1>1, RecipeType DEF RecipeRecords
  <2> QED
    BY <1>1, <2>1 DEF Patching
<1>3. /\ Current \in PatchSteps /\ Current.files \in Seq(File)
      /\ FilesOf(Current) \subseteq R.files /\ FilesOf(Current) \subseteq File
      /\ Current.marker \in FilesOf(Current)
      /\ DOMAIN Current.files = 1..Len(Current.files) /\ Len(Current.files) \in Nat \ {0}
      /\ \A k, l \in DOMAIN Current.files : Current.files[k] = Current.files[l] => k = l
      /\ Current.kind = "copy" => Len(Current.files) = 1
  BY <1>2, StepFiles DEF Current
<1>4. AllThere
  BY <1>1 DEF WholeInv, OnceUnpacked
<1>5. /\ fileNo <= Commands /\ fileNo' = fileNo + 1 /\ fileNo' # 1 /\ Current.kind = kind
  BY <1>1 DEF Applying
<1>6. CASE kind = "patch"
  <2>1. fileNo \in DOMAIN Current.files /\ Target = Current.files[fileNo]
    BY <1>1, <1>3, <1>5, <1>6 DEF Commands, Target
  <2>2. Target \in FilesOf(Current) /\ Target \in File
    BY <1>3, <2>1 DEF FilesOf
  <2>3. tree[Target] = "pristine"
    <3>1. tree[Target] # "patched"
      BY <1>1, <1>5, <1>6, <2>1 DEF UpToFile
    <3>2. tree[Target] # "absent"
      BY <1>3, <1>4, <2>2 DEF AllThere
    <3> QED
      BY <1>1, <2>2, <3>1, <3>2
  <2>4. tree' = [tree EXCEPT ![Target] = "patched"] /\ backup' = backup \union {Target}
    BY <1>5, <1>6, <2>3
    DEF PatchFile, PatchMissingFile, PatchAgain, SaveOriginal, Overwrite, Applying
  <2>5. \A k \in DOMAIN Current.files : tree'[Current.files[k]] = "patched" <=> k < fileNo + 1
    <3> SUFFICES ASSUME NEW k \in DOMAIN Current.files
                 PROVE  tree'[Current.files[k]] = "patched" <=> k < fileNo + 1
      OBVIOUS
    <3>1. Current.files[k] \in File /\ k \in Nat
      BY <1>3
    <3>2. CASE k = fileNo
      BY <1>1, <2>1, <2>2, <2>4, <3>1, <3>2
    <3>3. CASE k # fileNo
      <4>1. Current.files[k] # Target
        BY <1>3, <2>1, <3>3
      <4>2. tree'[Current.files[k]] = tree[Current.files[k]]
        BY <1>1, <2>4, <3>1, <4>1
      <4>3. tree[Current.files[k]] = "patched" <=> k < fileNo
        BY <1>5, <1>6 DEF UpToFile
      <4> QED
        BY <1>1, <3>1, <3>3, <4>2, <4>3
    <3> QED
      BY <3>2, <3>3
  <2>6. \A k \in DOMAIN Current.files : k < fileNo + 1 => Current.files[k] \in backup'
    <3> SUFFICES ASSUME NEW k \in DOMAIN Current.files, k < fileNo + 1
                 PROVE  Current.files[k] \in backup'
      OBVIOUS
    <3>1. k < fileNo \/ k = fileNo
      BY <1>1, <1>3
    <3> QED
      BY <2>1, <2>4, <3>1 DEF UpToFile
  <2>7. (UpToFile(Current))'
    BY <1>0, <1>5, <1>6, <2>5, <2>6 DEF UpToFile
  <2> QED
    BY <1>1, <2>2, <2>4, <2>7
<1>7. CASE kind = "copy"
  <2>1. DOMAIN Current.files = {1} /\ Copied = Current.files[1]
    BY <1>3, <1>5, <1>7 DEF Copied
  <2>2. FilesOf(Current) = {Copied} /\ Copied \in File /\ Copied \in R.files
    BY <1>3, <2>1 DEF FilesOf
  <2>3. fileNo \in {1, 2}
    BY <1>1, <1>5, <1>7 DEF Commands
  <2>4. tree[Copied] # "absent"
    BY <1>4, <2>2 DEF AllThere
  <2>5. SaveOriginal \/ Overwrite
    BY <1>5, <1>7 DEF PatchFile, PatchMissingFile, PatchAgain, Applying
  <2>6. CASE fileNo = 1
    <3>1. backup' = backup \union {Copied} /\ tree' = tree /\ fileNo' = 2
      BY <1>5, <2>4, <2>5, <2>6 DEF SaveOriginal, Overwrite
    <3>2. tree[Copied] # "patched"
      BY <1>5, <1>7, <2>1, <2>6 DEF UpToFile
    <3>3. (UpToFile(Current))'
      BY <1>0, <1>5, <1>7, <2>1, <3>1, <3>2 DEF UpToFile
    <3> QED
      BY <1>1, <2>2, <3>1, <3>3
  <2>7. CASE fileNo = 2
    <3>1. Present \/ R.probe = {}
      BY <1>1, <1>3, <1>4, RecipeType DEF AllThere, Present
    <3>2. R.probe = R.files
      BY <1>2 DEF Repeatable
    <3>3. Present
      BY <2>2, <3>1, <3>2
    <3>4. tree' = [tree EXCEPT ![Copied] = "patched"] /\ backup' = backup /\ fileNo' = 3
      BY <1>5, <2>5, <2>7, <3>3 DEF SaveOriginal, Overwrite
    <3>5. Copied \in backup
      BY <2>1, <2>7 DEF UpToFile
    <3>6. (UpToFile(Current))'
      BY <1>0, <1>1, <1>5, <1>7, <2>1, <2>2, <3>4, <3>5 DEF UpToFile
    <3> QED
      BY <1>1, <2>2, <3>4, <3>6
  <2> QED
    BY <2>3, <2>6, <2>7
<1> QED
  BY <1>6, <1>7

(* Among the patching steps, and where a run ends.                         *)
LEMMA StepInvPatching ==
    ASSUME TypeInv, WholeInv, Repeatable(R), \A step \in Steps : SetsItsMarker(step),
           \A j \in DOMAIN R.patches : StepInv(j), NEW i \in DOMAIN R.patches,
           [SourceNext]_vars, PatchingStep \/ Interrupt \/ Build \/ UNCHANGED vars
    PROVE  StepInv(i)'
<1> DEFINE S == R.patches[i]
<1> USE DEF disk, Goto
<1>0. R' = R
  BY SameScript DEF R
<1>1. /\ S.marker \in FilesOf(S) /\ FilesOf(S) \subseteq File
      /\ DOMAIN S.files = 1..Len(S.files) /\ Len(S.files) \in Nat \ {0}
      /\ R.patches \in Seq(PatchSteps) /\ i \in Nat \ {0}
      /\ \A j \in DOMAIN R.patches \ {i} : FilesOf(S) \intersect FilesOf(R.patches[j]) = {}
  <2>1. R.patches \in Seq(PatchSteps)
    BY RecipeType DEF TypeInv, SourceTypeOK, RecipeRecords
  <2>2. i \in Nat \ {0}
    BY <2>1
  <2>3. SetsItsMarker(S)
    BY DEF Steps
  <2> QED
    BY <2>1, <2>2, <2>3, StepFiles
<1>2. patchNo \in Nat \ {0} /\ fileNo \in Nat \ {0} /\ script \in Scripts
      /\ tree \in [File -> {"absent", "pristine", "patched"}] /\ backup \in SUBSET File
  BY DEF TypeInv, SourceTypeOK
<1>3. archive' = archive /\ (Unhurt' => Unhurt)
  <2>1. ~ExpandEnds
    BY DEF PatchingStep, Build, Interrupt, vars, SkipPatch, OpenPatch, PatchFile,
           PatchMissingFile, PatchAgain, SaveOriginal, Overwrite, Applying, ClosePatch,
           PatchesDone, ExpandEnds, AfterExpand
  <2>2. archive' = archive
    BY DEF PatchingStep, Build, Interrupt, vars, SkipPatch, OpenPatch, PatchFile,
           PatchMissingFile, PatchAgain, SaveOriginal, Overwrite, Applying, ClosePatch,
           PatchesDone
  <2> QED
    BY <2>1, <2>2, WoundsStay
<1>4. CASE ~(Unhurt' /\ archive' # "absent")
  BY <1>4 DEF StepInv
<1> SUFFICES ASSUME Unhurt', archive' # "absent"
             PROVE  StepInv(i)'
  BY <1>4
<1>5. Unhurt /\ archive # "absent"
  BY <1>3
<1>6. /\ AtWork(i) => UpToFile(S)
      /\ ~AtWork(i) => Fresh(S) \/ Done(S)
      /\ pc \in {"patch", "apply", "build"} /\ i < patchNo => Done(S)
  BY <1>5 DEF StepInv
<1>7. ASSUME /\ AtWork(i)' => UpToFile(S)'
             /\ ~AtWork(i)' => Fresh(S)' \/ Done(S)'
             /\ pc' \in {"patch", "apply", "build"} /\ i < patchNo' => Done(S)'
      PROVE  StepInv(i)'
  BY <1>0, <1>7 DEF StepInv
<1>8. ASSUME UNCHANGED <<tree, backup>>
      PROVE  (Fresh(S)' <=> Fresh(S)) /\ (Done(S)' <=> Done(S))
  BY <1>0, <1>8 DEF Fresh, Done
(* A step that has not patched anything is fresh, one past its last file   *)
(* is done.                                                                *)
<1>9. ASSUME UpToFile(S), fileNo = 1
      PROVE  Fresh(S)
  BY <1>1, <1>9 DEF UpToFile, Fresh, FilesOf
<1>10. ASSUME UpToFile(S), AtWork(i), fileNo > Commands
       PROVE  Done(S)
  <2>1. /\ S.kind = "copy" => fileNo > 2
        /\ S.kind # "copy" => fileNo > Len(S.files)
    BY <1>10 DEF Commands, Current, AtWork
  <2>2. S.kind = "copy" => Len(S.files) = 1
    BY DEF Repeatable
  <2>3. \A k \in DOMAIN S.files :
           k < fileNo /\ k < (IF S.kind = "copy" THEN fileNo - 1 ELSE fileNo)
    <3> SUFFICES ASSUME NEW k \in DOMAIN S.files
                 PROVE  k < fileNo /\ k < (IF S.kind = "copy" THEN fileNo - 1 ELSE fileNo)
      OBVIOUS
    <3>1. k \in Nat /\ k <= Len(S.files) /\ Len(S.files) \in Nat
      BY <1>1
    <3>2. CASE S.kind = "copy"
      BY <1>2, <2>1, <2>2, <3>1, <3>2
    <3>3. CASE S.kind # "copy"
      BY <1>2, <2>1, <3>1, <3>3
    <3> QED
      BY <3>2, <3>3
  <2> QED
    BY <1>1, <1>10, <2>3 DEF UpToFile, Done, FilesOf
<1> HIDE DEF S
<1>11. CASE SkipPatch
  <2>1. /\ UNCHANGED <<tree, backup>> /\ patchNo' = patchNo + 1 /\ pc = "patch" /\ pc' = "patch"
        /\ Current.marker \in backup
    BY <1>11 DEF SkipPatch
  <2>2. patchNo = i => Done(S)
    BY <1>6, <2>1 DEF Current, Fresh, AtWork, S
  <2>3. i < patchNo' => i < patchNo \/ i = patchNo
    BY <1>1, <1>2, <2>1
  <2> QED
    BY <1>6, <1>7, <1>8, <2>1, <2>2, <2>3 DEF AtWork
<1>12. CASE OpenPatch
  <2>1. /\ UNCHANGED <<tree, backup>> /\ patchNo' = patchNo /\ pc = "patch" /\ pc' = "apply"
        /\ fileNo' = 1 /\ Current.marker \notin backup
    BY <1>12 DEF OpenPatch
  <2>2. Fresh(S) \/ Done(S)
    BY <1>6, <2>1 DEF AtWork
  <2>3. patchNo = i => Fresh(S)
    BY <2>1, <2>2 DEF Done, Current, S
  <2>4. patchNo = i => UpToFile(S)'
    <3> SUFFICES ASSUME patchNo = i
                 PROVE  UpToFile(S)'
      OBVIOUS
    <3>1. S' = S /\ S.marker \notin backup
            /\ \A k \in DOMAIN S.files : tree[S.files[k]] # "patched"
      BY <1>0, <2>3 DEF Fresh, FilesOf, S
    <3>2. \A k \in DOMAIN S.files : ~(k < 1) /\ ~(k < 0)
      BY <1>1 DEF S
    <3>3. /\ \A k \in DOMAIN S'.files :
               tree'[S'.files[k]] = "patched"
                 <=> k < (IF S'.kind = "copy" THEN fileNo' - 1 ELSE fileNo')
          /\ \A k \in DOMAIN S'.files : k < fileNo' => S'.files[k] \in backup'
          /\ fileNo' = 1 => S'.marker \notin backup'
      BY <2>1, <3>1, <3>2
    <3> QED
      BY <3>3 DEF UpToFile, S
  <2> QED
    BY <1>6, <1>7, <1>8, <2>1, <2>2, <2>4 DEF AtWork, S
<1>13. CASE PatchFile \/ PatchMissingFile \/ PatchAgain \/ SaveOriginal \/ Overwrite
  <2>1. PICK kind \in {"patch", "copy"} : Applying(kind)
    BY <1>13 DEF PatchFile, PatchMissingFile, PatchAgain, SaveOriginal, Overwrite
  <2>2. pc = "apply" /\ pc' = "apply" /\ patchNo' = patchNo
    BY <2>1 DEF Applying
  <2>3. Patching /\ patchNo \in DOMAIN R.patches
    <3>1. Patching
      BY <2>2 DEF TypeInv, ApplyingAStep
    <3> QED
      BY <1>1, <1>2, <3>1 DEF Patching
  <2>4. SetsItsMarker(Current) /\ UpToFile(Current)
    <3>1. UpToFile(R.patches[patchNo])
      BY <1>5, <2>2, <2>3 DEF StepInv, AtWork
    <3> QED
      BY <2>3, <3>1 DEF Current, Steps
  <2>5. /\ UpToFile(Current)'
        /\ \A f \in File \ FilesOf(Current) : tree'[f] = tree[f]
        /\ \A f \in File \ FilesOf(Current) : f \in backup' <=> f \in backup
    BY <1>5, <1>13, <2>1, <2>4, CommandPatches
  <2>6. CASE patchNo = i
    <3>1. UpToFile(S)'
      BY <2>2, <2>5, <2>6 DEF Current, S
    <3> QED
      BY <1>2, <1>7, <2>2, <2>6, <3>1 DEF AtWork
  <2>7. CASE patchNo # i
    <3>1. \A f \in FilesOf(S) : tree'[f] = tree[f] /\ (f \in backup' <=> f \in backup)
      BY <1>1, <2>3, <2>5, <2>7 DEF Current, S
    <3>2. (Fresh(S)' <=> Fresh(S)) /\ (Done(S)' <=> Done(S))
      BY <1>0, <1>1, <3>1 DEF Fresh, Done, S
    <3> QED
      BY <1>6, <1>7, <2>2, <2>7, <3>2 DEF AtWork
  <2> QED
    BY <2>6, <2>7
<1>14. CASE ClosePatch
  <2>1. /\ UNCHANGED <<tree, backup>> /\ patchNo' = patchNo + 1 /\ pc = "apply" /\ pc' = "patch"
        /\ fileNo > Commands
    BY <1>14 DEF ClosePatch
  <2>2. patchNo = i => Done(S)
    BY <1>6, <1>10, <2>1 DEF AtWork, S
  <2>3. i < patchNo' => i < patchNo \/ i = patchNo
    BY <1>1, <1>2, <2>1
  <2> QED
    BY <1>6, <1>7, <1>8, <2>1, <2>2, <2>3 DEF AtWork
<1>15. CASE PatchesDone
  BY <1>6, <1>7, <1>8, <1>15 DEF PatchesDone, AtWork
<1>16. CASE Build
  BY <1>6, <1>7, <1>8, <1>16 DEF Build, AtWork
<1>17. CASE Interrupt
  <2>1. UNCHANGED <<tree, backup>> /\ pc' = "prompt" /\ wounds' = wounds \union Wounded
    BY <1>17 DEF Interrupt
  <2>2. pc = "apply" => fileNo = 1 \/ fileNo > Commands
    <3>1. pc = "apply" => Commands \in Nat
      BY <1>2, CurrentType DEF TypeInv, ApplyingAStep
    <3>2. pc = "apply" => ~(fileNo > 1 /\ fileNo <= Commands)
      BY <2>1 DEF Unhurt, Wounded
    <3> QED
      BY <1>2, <3>1, <3>2
  <2>3. AtWork(i) => Fresh(S) \/ Done(S)
    BY <1>6, <1>9, <1>10, <2>2 DEF AtWork, S
  <2> QED
    BY <1>6, <1>7, <1>8, <2>1, <2>3 DEF AtWork
<1>18. CASE UNCHANGED vars
  <2>1. UNCHANGED <<tree, backup, pc, patchNo, fileNo>>
    BY <1>18 DEF vars
  <2>2. (AtWork(i)' <=> AtWork(i)) /\ (UpToFile(S)' <=> UpToFile(S))
    BY <1>0, <2>1 DEF AtWork, UpToFile, S
  <2> QED
    BY <1>6, <1>7, <1>8, <2>1, <2>2
<1> QED
  BY <1>11, <1>12, <1>13, <1>14, <1>15, <1>16, <1>17, <1>18 DEF PatchingStep

LEMMA CompileInvInit == SourceInit => CompileInv
<1> SUFFICES ASSUME SourceInit
             PROVE  CompileInv
  OBVIOUS
<1>1. script \in Scripts /\ R.files \subseteq File /\ R.probe \subseteq File
  BY RecipeType DEF SourceInit, RecipeRecords
<1>2. WholeInv
  BY <1>1 DEF SourceInit, WholeInv, FromTheArchive, WhileUnpacking, OnceUnpacked, Seen,
              NoneThere, R
<1>3. UnpatchedWhileUnpacking
  BY DEF SourceInit, UnpatchedWhileUnpacking
<1>4. \A i \in DOMAIN R.patches : StepInv(i)
  BY DEF SourceInit, StepInv, AtWork
<1>5. AtFirstStep /\ AllStepsDone
  BY DEF SourceInit, AtFirstStep, AllStepsDone
<1> QED
  BY <1>2, <1>3, <1>4, <1>5 DEF CompileInv

LEMMA CompileInvStep ==
    ASSUME \A s \in Scripts : Repeatable(Recipe[s])
    PROVE  TypeInv /\ CompileInv /\ [SourceNext]_vars => CompileInv'
<1> SUFFICES ASSUME TypeInv, CompileInv, [SourceNext]_vars
             PROVE  CompileInv'
  OBVIOUS
<1>0. R' = R /\ Steps' = Steps
  BY SameScript DEF R, Steps
<1>1. Repeatable(R) /\ WholeInv /\ AtFirstStep /\ AllStepsDone
  BY DEF TypeInv, SourceTypeOK, R, CompileInv
<1>2. OnceUnpacked'
  BY <1>1, OnceUnpackedStep
<1>3. WholeInv'
  BY <1>1, <1>2, FromTheArchiveStep, WhileUnpackingStep DEF WholeInv
<1>4. (R.patches # <<>> => UnpatchedWhileUnpacking)'
  BY <1>0, <1>1, UnpatchedStep DEF CompileInv
<1>5. AtFirstStep' /\ AllStepsDone'
  BY <1>1, StagesInOrder
<1>6. ASSUME \A step \in Steps : SetsItsMarker(step), NEW i \in DOMAIN R.patches
      PROVE  StepInv(i)'
  <2>1. R.patches # <<>>
    BY <1>6
  <2>2. UnpatchedWhileUnpacking /\ UnpatchedWhileUnpacking'
    BY <1>0, <1>4, <2>1 DEF CompileInv
  <2>3. \A j \in DOMAIN R.patches : StepInv(j)
    BY <1>6 DEF CompileInv
  <2>4. SetsItsMarker(R.patches[i])
    BY <1>6 DEF Steps
  <2> QED
    BY <1>1, <1>2, <1>6, <2>2, <2>3, <2>4, StepInvOutside, StepInvPatching
<1>7. (\A step \in Steps' : SetsItsMarker(step)) => \A i \in DOMAIN R'.patches : StepInv(i)'
  BY <1>0, <1>6
<1>8. ((\A step \in Steps : SetsItsMarker(step)) => \A i \in DOMAIN R.patches : StepInv(i))'
  BY <1>7 DEF SetsItsMarker, FilesOf
<1> QED
  BY <1>3, <1>4, <1>5, <1>8 DEF CompileInv

(* However often a script is run, cut off and run again: when it comes to  *)
(* compile, what it compiles is the whole tree, in its place, with every   *)
(* patch in, unless a stage was cut off at a point where that matters.     *)
THEOREM CompilesTheRightSources ==
    ASSUME \A s \in Scripts : Repeatable(Recipe[s])
    PROVE  SourceSpec => []CompilesPatchedSources
<1>1. TypeInv /\ CompileInv => CompilesPatchedSources
  <2> SUFFICES ASSUME TypeInv, CompileInv, pc = "build", wounds = {}, archive # "absent",
                      \A step \in Steps : SetsItsMarker(step)
               PROVE  Complete /\ AllPatched
    BY DEF CompilesPatchedSources
  <2>1. Complete
    BY DEF CompileInv, WholeInv, OnceUnpacked, Unhurt, AllThere, Complete
  <2>2. ASSUME NEW i \in DOMAIN R.patches PROVE Done(R.patches[i])
    <3>1. R.patches \in Seq(PatchSteps) /\ patchNo \in Nat \ {0}
      BY RecipeType DEF TypeInv, SourceTypeOK, RecipeRecords
    <3>2. i < patchNo
      BY <3>1, <2>2 DEF CompileInv, AllStepsDone, Patching
    <3> QED
      BY <2>2, <3>2 DEF CompileInv, StepInv, Unhurt
  <2>3. AllPatched
    BY <2>2 DEF AllPatched, Steps, Done
  <2> QED
    BY <2>1, <2>3
<1>2. TypeInv /\ CompileInv /\ [SourceNext]_vars => CompileInv'
  BY CompileInvStep
<1> QED
  BY <1>1, <1>2, CompileInvInit, TypeInvInit, TypeInvStep, PTL DEF SourceSpec
=============================================================================
