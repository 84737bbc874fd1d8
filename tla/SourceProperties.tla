-------------------------- MODULE SourceProperties --------------------------
(***************************************************************************)
(* What the repository's scripts can rely on when they come to compile the *)
(* tree that SourceTrees has prepared.                                     *)
(***************************************************************************)
EXTENDS SourceTrees

(* All files of the archive are there, where the script builds.            *)
Complete == placed /\ \A f \in R.files : tree[f] # "absent"

FilesOf(step) == {step.files[i] : i \in DOMAIN step.files}

(* The patching steps of the script, and those whose guard is the saved    *)
(* copy of the only file they change.                                      *)
Steps == {R.patches[i] : i \in DOMAIN R.patches}
SimpleStep(step) == step.kind = "patch" /\ step.files = <<step.marker>>

(* The guard is one that patching the step's files sets.                   *)
SetsItsMarker(step) == step.marker \in FilesOf(step)
(* The guard is set by the first change the step makes.                    *)
MarksFirst(step) ==
    step.kind = "patch" /\ Len(step.files) > 0 /\ step.marker = step.files[1]

AllPatched == \A step \in Steps : \A f \in FilesOf(step) : tree[f] = "patched"

(* What was downloaded is what is compiled: an archive that came whole,    *)
(* none of whose transfers and extractions was ever cut off, has been      *)
(* unpacked when the script comes to build, as the comment above its calls *)
(* of the two helpers says (":: Download and unpack source.").             *)
UnpacksWhatItDownloads ==
    pc = "build" /\ archive = "whole" /\ wounds \subseteq {"empty"} => Complete

(* However often a script was run, stopped and run again: when it comes to *)
(* compile, and no stage was cut off at a point where that matters, it     *)
(* compiles the whole tree with every patch in.  In particular it does no  *)
(* harm to stop a run before curl opens its file, between the stages,      *)
(* while the .tar is being written, or between two patches: the guards of  *)
(* the next run take up what is left.                                      *)
CompilesPatchedSources ==
    (/\ pc = "build"
     /\ wounds = {}
     /\ archive # "absent"
     /\ \A step \in Steps : SetsItsMarker(step))
        => Complete /\ AllPatched

(* The guard around the extraction and the guard around a patch agree: in  *)
(* a tree that is compiled, a file whose patch has a guard of its own is   *)
(* patched or missing, never back to what the archive holds - whatever was *)
(* cut off, and when.  It would be if a later run unpacked over a patched  *)
(* tree, since the .orig copy survives that and the patch is skipped.      *)
PatchesSurviveReruns ==
    pc = "build" =>
        \A step \in Steps : SimpleStep(step) => tree[step.marker] # "pristine"

(* An archive known to be short is known for a reason: the cache never     *)
(* holds a broken download unless a transfer was broken off, and then it   *)
(* keeps it, since the existence of the file is all that is ever tested.   *)
BrokenDownloadsAreKept ==
    pc # "curl" => (archive = "partial" <=> "archive" \in wounds)

(* "assume patches not applied": a step that is entered because its guard  *)
(* is missing finds none of its files already patched, even after runs     *)
(* that were cut off inside it.  True in a whole tree of the steps whose   *)
(* first change sets the guard; a short tree may lack just that file.      *)
GuardSpeaksTheTruth ==
    [][OpenPatch /\ MarksFirst(Current) /\ Complete =>
         \A f \in FilesOf(Current) : tree[f] # "patched"]_vars

(* The download is a thing written once.                                   *)
ArchiveItem == INSTANCE WriteOnce WITH item <- archive, busy <- (pc = "curl")
ArchiveWrittenOnce == ArchiveItem!WriteOnceSpec

(* A recipe that tests for its directory before it unpacks, never removes  *)
(* it, and whose patches create no file.                                   *)
UnpacksOnce(r) ==
    /\ r.outer \/ r.inner
    /\ r.probe = r.files
    /\ ~r.clears
    /\ \A i \in DOMAIN r.patches : r.patches[i].kind = "patch"

(* So is the source tree of such a script: no run ever unpacks over it,    *)
(* and what an interrupted extraction left is there to stay.               *)
TreeContent ==
    IF \A f \in R.files : tree[f] = "absent" THEN "absent"
    ELSE IF \A f \in R.files : tree[f] # "absent" THEN "whole" ELSE "partial"
TreeSeen == IF UnpacksOnce(R) THEN TreeContent ELSE "absent"
TreeBusy == UnpacksOnce(R) /\ pc = "expand"
TreeItem == INSTANCE WriteOnce WITH item <- TreeSeen, busy <- TreeBusy
TreeWrittenOnce == TreeItem!WriteOnceSpec

(* A run that was started comes to its end: no loop of the scripts goes    *)
(* round for ever, and no step waits for what nobody will bring.           *)
RunsEnd == pc # "prompt" ~> pc = "prompt"

-----------------------------------------------------------------------------
(***************************************************************************)
(* Why patches survive: the invariant behind PatchesSurviveReruns.         *)
(***************************************************************************)
(* What a recipe with patches must have: a test that finds the tree, in    *)
(* the script or in the extract helper, and for the file of a step with a  *)
(* guard of its own no other kind of step.                                 *)
WellGuarded(r) ==
    \A i \in DOMAIN r.patches : SimpleStep(r.patches[i]) =>
        /\ r.outer \/ r.inner
        /\ r.probe = r.files
        /\ r.patches[i].marker \in r.files
        /\ \A j \in DOMAIN r.patches :
             r.patches[i].marker \in FilesOf(r.patches[j]) => SimpleStep(r.patches[j])

SimpleFile(f) == \E step \in Steps : SimpleStep(step) /\ step.marker = f

SavedIsPatched ==
    \A f \in File : SimpleFile(f) => (f \in backup <=> tree[f] = "patched")

(* 7z is at work only where nothing has been patched,                      *)
NothingSavedYet ==
    pc \in {"gunzip", "untar", "expand"} =>
        \A f \in File : SimpleFile(f) => f \notin backup

(* which for a test around the download holds since the test.              *)
NothingThereYet ==
    R.outer /\ pc \in {"download", "curl", "clear", "unpack"} =>
        \A f \in File : SimpleFile(f) => tree[f] = "absent"

GuardWasMissing == pc = "apply" /\ fileNo = 1 => Current.marker \notin backup

StepDone ==
    pc = "apply" /\ fileNo > 1 /\ SimpleStep(Current)
        => tree[Current.marker] # "pristine"

StepsDone ==
    pc \in {"patch", "apply", "build"} =>
        \A i \in DOMAIN R.patches :
            i < patchNo /\ SimpleStep(R.patches[i])
                => tree[R.patches[i].marker] # "pristine"

AtFirstStep ==
    pc \in {"download", "curl", "clear", "unpack", "gunzip", "untar", "expand",
            "rename", "stock"} => patchNo = 1

AllStepsDone == pc = "build" => ~Patching

PatchInv ==
    /\ SavedIsPatched
    /\ NothingSavedYet
    /\ NothingThereYet
    /\ GuardWasMissing
    /\ StepDone
    /\ StepsDone
    /\ AtFirstStep
    /\ AllStepsDone

-----------------------------------------------------------------------------
(***************************************************************************)
(* Why a tree is written once: the invariant behind TreeWrittenOnce.       *)
(***************************************************************************)
UnpackInv ==
    /\ pc = "clear" => R.clears
    /\ R.outer /\ pc \in {"download", "curl", "clear", "unpack"} => ~Present
    /\ pc \in {"gunzip", "untar"} => ~Present
    /\ pc = "expand" => \A f \in todo : f \in R.files /\ tree[f] = "absent"

-----------------------------------------------------------------------------
(* What GuardSpeaksTheTruth rests on: where the first change of a step     *)
(* sets its guard, the tree is written once and no other step changes the  *)
(* step's files.                                                           *)
FirstGuarded(r) ==
    \A i \in DOMAIN r.patches : MarksFirst(r.patches[i]) =>
        /\ UnpacksOnce(r)
        /\ FilesOf(r.patches[i]) \subseteq r.files
        /\ \A j \in DOMAIN r.patches \ {i} :
             FilesOf(r.patches[i]) \intersect FilesOf(r.patches[j]) = {}

-----------------------------------------------------------------------------
(***************************************************************************)
(* Why a tree that was never hurt is whole and patched: the invariant      *)
(* behind CompilesPatchedSources.                                          *)
(***************************************************************************)
(* What a recipe must have for its runs to be repeatable: a renamed tree   *)
(* is looked for on every run, a patched tree is never unpacked over, and  *)
(* no two patches are on one file.                                         *)
Repeatable(r) ==
    /\ r.renames => ~r.outer /\ r.probe # {}
    /\ r.patches # <<>> => (r.outer \/ r.inner) /\ r.probe = r.files
    /\ \A i \in DOMAIN r.patches :
         LET step == r.patches[i] IN
         /\ FilesOf(step) \subseteq r.files
         /\ \A k, l \in DOMAIN step.files : step.files[k] = step.files[l] => k = l
         /\ step.kind = "copy" => Len(step.files) = 1
         /\ \A j \in DOMAIN r.patches \ {i} :
              FilesOf(step) \intersect FilesOf(r.patches[j]) = {}

Unhurt == wounds = {}
Seen == \E f \in R.probe : tree[f] # "absent"
AllThere == \A f \in R.files : tree[f] # "absent"
NoneThere == \A f \in R.files : tree[f] = "absent"

(* The archive on its way into the tree.  A directory is taken for a tree  *)
(* only if files of it are there, and nothing is there before the archive  *)
(* is;                                                                     *)
FromTheArchive ==
    /\ "empty" \notin wounds /\ made => Seen
    /\ "empty" \notin wounds /\ archive = "absent" => NoneThere
    /\ archive = "absent" => tar = "absent"
    /\ "archive" \notin wounds /\ pc # "curl" => archive # "partial"

(* 7z works from the whole of the archive, and what it has not written yet *)
(* it will write;                                                          *)
WhileUnpacking ==
    /\ pc \in {"gunzip", "untar"} => R.tarball
    /\ pc \in {"untar", "expand"} /\ Unhurt => Unpacked = archive
    /\ pc = "expand" /\ Unpacked = "whole" =>
         \A f \in R.files : f \in todo \/ tree[f] # "absent"
    /\ pc = "expand" /\ archive = "absent" => todo = {}

(* so that a tree that is there is all there, and in its place.            *)
OnceUnpacked ==
    /\ pc # "expand" /\ Unhurt /\ Seen => AllThere
    /\ Unhurt /\ archive # "absent" /\ pc \in {"rename", "stock", "patch", "apply", "build"}
         => AllThere /\ (pc # "rename" => placed)
    /\ placed \/ R.renames
    /\ pc = "rename" => ~placed

WholeInv == FromTheArchive /\ WhileUnpacking /\ OnceUnpacked

(* Where there are patches, 7z meets neither a patched file nor a copy.    *)
UnpatchedWhileUnpacking ==
    /\ \A f \in R.files : tree[f] = "absent" => f \notin backup
    /\ R.outer /\ pc \in {"download", "curl", "clear", "unpack"} => ~Present
    /\ pc \in {"gunzip", "untar", "expand"} =>
         \A f \in R.files : f \notin backup /\ tree[f] # "patched"

(* A patching step has been taken to its end or not begun, but for the one *)
(* at work, which is as far as fileNo says.                                *)
Fresh(step) == step.marker \notin backup /\ \A f \in FilesOf(step) : tree[f] # "patched"
Done(step) == step.marker \in backup /\ \A f \in FilesOf(step) : tree[f] = "patched"
UpToFile(step) ==
    /\ \A k \in DOMAIN step.files :
         tree[step.files[k]] = "patched"
           <=> k < (IF step.kind = "copy" THEN fileNo - 1 ELSE fileNo)
    /\ \A k \in DOMAIN step.files : k < fileNo => step.files[k] \in backup
    /\ fileNo = 1 => step.marker \notin backup

AtWork(i) == pc = "apply" /\ patchNo = i

StepInv(i) ==
    /\ Unhurt /\ archive # "absent" /\ AtWork(i) => UpToFile(R.patches[i])
    /\ Unhurt /\ archive # "absent" /\ ~AtWork(i)
         => Fresh(R.patches[i]) \/ Done(R.patches[i])
    /\ Unhurt /\ archive # "absent" /\ pc \in {"patch", "apply", "build"} /\ i < patchNo
         => Done(R.patches[i])

CompileInv ==
    /\ WholeInv
    /\ R.patches # <<>> => UnpatchedWhileUnpacking
    /\ (\A step \in Steps : SetsItsMarker(step)) => \A i \in DOMAIN R.patches : StepInv(i)
    /\ AtFirstStep
    /\ AllStepsDone
=============================================================================
