---------------------------- MODULE SourceTrees ----------------------------
(***************************************************************************)
(* How one build script prepares its source tree, run after run.           *)
(*                                                                         *)
(* A script downloads an archive into its build directory, unpacks it and  *)
(* patches the result, each stage guarded by an `if not exist` test so     *)
(* that the script can be run again.  No exit code is looked at: a failed  *)
(* curl, 7z or patch is followed by the next command.  A run may also be   *)
(* cut short at any point (Ctrl-C, a closed console, a power cut); the     *)
(* disk keeps what was written and the next run starts from there.         *)
(*                                                                         *)
(* Scripts work in directories of their own, so a behaviour follows one    *)
(* script, chosen at the start.  What differs from script to script is     *)
(* data: Recipe[s], read off the script (module Recipes).                  *)
(***************************************************************************)
EXTENDS Naturals, Sequences

CONSTANTS
    Scripts,    \* the build scripts
    File,       \* names of source files and of marker files
    Recipe      \* what each script does to get its sources

(* One guarded patching step.  `kind` is "patch" for GNU patch --backup    *)
(* over `files` in the order of the patch file, and "copy" for a pair of   *)
(* `copy` commands that saves one file and replaces it.  The step is       *)
(* skipped when the saved copy of `marker` exists.                         *)
PatchSteps == [kind : {"patch", "copy"}, marker : File,
               files : Seq(File) \ {<<>>}]

(* files:   what the archive holds                                         *)
(* probe:   the files whose presence the existence test sees: all of them  *)
(*          when it tests the directory, one when it tests that file       *)
(* outer:   the test encloses the download and the unpacking               *)
(* inner:   the test, in the script or in the extract helper, is made      *)
(*          before unpacking and looks at the tree that is unpacked; FALSE *)
(*          when the helper looks for a directory named after the archive  *)
(*          and the archive unpacks under another name                     *)
(* tarball: unpacked by two runs of 7z, by way of a .tar file              *)
(* clears:  removes the tree before unpacking                              *)
(* renames: renames the unpacked directory to the one that is built        *)
(* makes:   the directory of the tree is made, where it is missing, by     *)
(*          what the script puts into it before the patches ("stock") or   *)
(*          by the configuration of the build ("build"), or by neither     *)
RecipeRecords ==
    [files : SUBSET File, probe : SUBSET File, outer : BOOLEAN,
     inner : BOOLEAN, tarball : BOOLEAN, clears : BOOLEAN,
     renames : BOOLEAN, makes : {"no", "stock", "build"},
     patches : Seq(PatchSteps)]

ASSUME RecipeAssumption ==
    /\ Recipe \in [Scripts -> RecipeRecords]
    /\ \A s \in Scripts : Recipe[s].probe \subseteq Recipe[s].files

VARIABLES
    script,     \* the script this behaviour follows
    pc,         \* the stage the running script has reached, or "prompt"
    archive,    \* the downloaded archive: "absent", "partial" or "whole"
    tar,        \* the intermediate .tar of a tarball, likewise
    tree,       \* each file of the tree: "absent", "pristine" or "patched"
    placed,     \* the tree is at the path the script builds in
    backup,     \* the files of which a .orig copy exists
    made,       \* the script has put something of its own into the tree
    todo,       \* the files the running 7z has yet to write
    patchNo,    \* the patching step the script is at
    fileNo,     \* the file within it
    wounds      \* history: the stages whose result was cut short for good

disk == <<archive, tar, tree, placed, backup, made>>
vars == <<script, pc, disk, todo, patchNo, fileNo, wounds>>

Contents == {"absent", "partial", "whole"}

Stages == {"prompt", "download", "curl", "clear", "unpack", "gunzip",
           "untar", "expand", "rename", "stock", "patch", "apply", "build"}

SourceTypeOK ==
    /\ script \in Scripts
    /\ pc \in Stages
    /\ archive \in Contents
    /\ tar \in Contents
    /\ tree \in [File -> {"absent", "pristine", "patched"}]
    /\ placed \in BOOLEAN
    /\ backup \in SUBSET File
    /\ made \in BOOLEAN
    /\ todo \in SUBSET File
    /\ patchNo \in Nat \ {0}
    /\ fileNo \in Nat \ {0}
    /\ wounds \in SUBSET {"archive", "unpack", "patch", "empty"}

R == Recipe[script]

(* `if not exist` sees the tree, or the directory it should be in.         *)
Present == made \/ \E f \in R.probe : tree[f] # "absent"

(* The archive as 7z sees it when it writes the tree.                      *)
Unpacked == IF R.tarball THEN tar ELSE archive

(* What 7z can get out of an archive: everything, or of a truncated one    *)
(* (or of the error page that was saved in its place) any part.            *)
Yield(content) ==
    CASE content = "absent"  -> {{}}
      [] content = "partial" -> (SUBSET R.files) \ {R.files}
      [] content = "whole"   -> {R.files}

Goto(from, to) == pc = from /\ pc' = to

-----------------------------------------------------------------------------
SourceInit ==
    /\ script \in Scripts
    /\ pc = "prompt"
    /\ archive = "absent" /\ tar = "absent"
    /\ tree = [f \in File |-> "absent"]
    /\ placed = ~Recipe[script].renames
    /\ backup = {} /\ made = FALSE /\ todo = {}
    /\ patchNo = 1 /\ fileNo = 1
    /\ wounds = {}

(* Mutant of Begin: patching steps counted from zero.                      *)
BeginAtZero ==
    /\ Goto("prompt", IF R.outer /\ Present THEN "stock" ELSE "download")
    /\ patchNo' = 0 /\ fileNo' = 1
    /\ UNCHANGED <<script, disk, todo, wounds>>

(* Mutant of Begin: without `if not exist` around the download.            *)
BeginUnguarded ==
    /\ Goto("prompt", "download")
    /\ patchNo' = 1 /\ fileNo' = 1
    /\ UNCHANGED <<script, disk, todo, wounds>>

(* The script is started, by hand or by all-build.                         *)
Begin ==
    /\ Goto("prompt", IF R.outer /\ Present THEN "stock" ELSE "download")
    /\ patchNo' = 1 /\ fileNo' = 1
    /\ UNCHANGED <<script, disk, todo, wounds>>

AfterDownload == IF R.clears THEN "clear" ELSE "unpack"

SkipDownload ==
    /\ archive # "absent"
    /\ Goto("download", AfterDownload)
    /\ UNCHANGED <<script, disk, todo, patchNo, fileNo, wounds>>

(* Mutant of CurlOpens: downloads whether or not the archive is there.     *)
CurlOpensAnyway ==
    /\ Goto("download", "curl")
    /\ archive' = "partial"
    /\ UNCHANGED <<script, tar, tree, placed, backup, made, todo, patchNo, fileNo, wounds>>

(* curl opens its output file when the first bytes arrive.                 *)
CurlOpens ==
    /\ archive = "absent"
    /\ Goto("download", "curl")
    /\ archive' = "partial"
    /\ UNCHANGED <<script, tar, tree, placed, backup, made, todo, patchNo, fileNo, wounds>>

(* The server cannot be reached: curl leaves no file.                      *)
CurlNoAnswer ==
    /\ archive = "absent"
    /\ Goto("download", AfterDownload)
    /\ UNCHANGED <<script, disk, todo, patchNo, fileNo, wounds>>

CurlCompletes ==
    /\ Goto("curl", AfterDownload)
    /\ archive' = "whole"
    /\ UNCHANGED <<script, tar, tree, placed, backup, made, todo, patchNo, fileNo, wounds>>

(* The transfer breaks off, or the server sent an error page (there is no  *)
(* --fail): the file stays, and the script goes on with it.                *)
CurlFails ==
    /\ Goto("curl", AfterDownload)
    /\ wounds' = wounds \union {"archive"}
    /\ UNCHANGED <<script, disk, todo, patchNo, fileNo>>

(* rmdir /S /Q                                                             *)
ClearTree ==
    /\ Goto("clear", "unpack")
    /\ tree' = [f \in File |-> "absent"]
    /\ backup' = {} /\ made' = FALSE
    /\ UNCHANGED <<script, archive, tar, placed, todo, patchNo, fileNo, wounds>>

(* Mutant of SkipUnpack: the renaming belongs to the extraction and is     *)
(* skipped with it.                                                        *)
SkipUnpackAndRename ==
    /\ R.inner /\ Present
    /\ Goto("unpack", "stock")
    /\ UNCHANGED <<script, disk, todo, patchNo, fileNo, wounds>>

SkipUnpack ==
    /\ R.inner /\ Present
    /\ Goto("unpack", IF placed THEN "stock" ELSE "rename")
    /\ UNCHANGED <<script, disk, todo, patchNo, fileNo, wounds>>

(* Mutant of OpenZip: without the existence test.                          *)
OpenZipAnyway ==
    /\ ~R.tarball
    /\ Goto("unpack", "expand")
    /\ todo' \in Yield(archive)
    /\ UNCHANGED <<script, disk, patchNo, fileNo, wounds>>

OpenZip ==
    /\ ~(R.inner /\ Present)
    /\ ~R.tarball
    /\ Goto("unpack", "expand")
    /\ todo' \in Yield(archive)
    /\ UNCHANGED <<script, disk, patchNo, fileNo, wounds>>

OpenTarball ==
    /\ ~(R.inner /\ Present)
    /\ R.tarball
    /\ Goto("unpack", "gunzip")
    /\ tar' = IF archive = "absent" THEN tar ELSE "partial"
    /\ UNCHANGED <<script, archive, tree, placed, backup, made, todo, patchNo, fileNo, wounds>>

GunzipEnds ==
    /\ Goto("gunzip", "untar")
    /\ tar' = IF archive = "absent" THEN tar ELSE archive
    /\ UNCHANGED <<script, archive, tree, placed, backup, made, todo, patchNo, fileNo, wounds>>

(* The first 7z gives up (a full disk); the second one runs all the same.  *)
GunzipFails ==
    /\ archive = "whole"
    /\ Goto("gunzip", "untar")
    /\ wounds' = wounds \union {"unpack"}
    /\ UNCHANGED <<script, disk, todo, patchNo, fileNo>>

OpenTar ==
    /\ Goto("untar", "expand")
    /\ todo' \in Yield(tar)
    /\ UNCHANGED <<script, disk, patchNo, fileNo, wounds>>

(* 7z x -y writes one more file, over whatever has that name.              *)
Expand ==
    /\ pc = "expand"
    /\ \E f \in todo :
         /\ tree' = [tree EXCEPT ![f] = "pristine"]
         /\ todo' = todo \ {f}
    /\ UNCHANGED <<script, pc, archive, tar, placed, backup, made, patchNo, fileNo, wounds>>

AfterExpand == IF placed THEN "stock" ELSE "rename"

ExpandEnds ==
    /\ todo = {}
    /\ Goto("expand", AfterExpand)
    /\ wounds' = IF Unpacked = "whole" THEN wounds \ {"unpack"} ELSE wounds
    /\ UNCHANGED <<script, disk, todo, patchNo, fileNo>>

(* 7z gives up before the last file; its exit code is ignored.             *)
ExpandFails ==
    /\ todo # {}
    /\ Goto("expand", AfterExpand)
    /\ todo' = {}
    /\ wounds' = wounds \union {"unpack"}
    /\ UNCHANGED <<script, disk, patchNo, fileNo>>

Rename ==
    /\ Goto("rename", "stock")
    /\ placed' = Present
    /\ UNCHANGED <<script, archive, tar, tree, backup, made, todo, patchNo, fileNo, wounds>>

(* mkdir, or xcopy /I, of a path inside the tree makes the tree's          *)
(* directory too.  Where the sources never arrived, the existence tests of *)
(* later runs take it for them.                                            *)
MakesDirectory(when) ==
    /\ made' = (made \/ R.makes = when)
    /\ wounds' = IF R.makes = when /\ ~Present
                 THEN wounds \union {"empty"} ELSE wounds

(* What a script adds to its tree before the patches.                      *)
Stock ==
    /\ Goto("stock", "patch")
    /\ MakesDirectory("stock")
    /\ UNCHANGED <<script, archive, tar, tree, placed, backup, todo, patchNo, fileNo>>

-----------------------------------------------------------------------------
Patching == patchNo <= Len(R.patches)
Current == R.patches[patchNo]
Target == Current.files[fileNo]

(* A copy step is two commands on one file, whatever its list says.        *)
Commands == IF Current.kind = "copy" THEN 2 ELSE Len(Current.files)

(* Mutant of SkipPatch: goes back to the same guard.                       *)
SkipPatchInPlace ==
    /\ Patching
    /\ Current.marker \in backup
    /\ pc = "patch"
    /\ UNCHANGED vars

SkipPatch ==
    /\ Patching
    /\ Current.marker \in backup
    /\ pc = "patch"
    /\ patchNo' = patchNo + 1
    /\ UNCHANGED <<script, pc, disk, todo, fileNo, wounds>>

OpenPatch ==
    /\ Patching
    /\ Current.marker \notin backup
    /\ Goto("patch", "apply")
    /\ fileNo' = 1
    /\ UNCHANGED <<script, disk, todo, patchNo, wounds>>

Applying(kind) ==
    /\ pc = "apply"
    /\ Current.kind = kind
    /\ fileNo <= Commands
    /\ fileNo' = fileNo + 1
    /\ UNCHANGED <<script, pc, archive, tar, placed, made, todo, patchNo, wounds>>

(* Mutant of PatchFile: patch without --backup, as in fixup-python3.bat.   *)
PatchFileWithoutBackup ==
    /\ Applying("patch")
    /\ tree[Target] = "pristine"
    /\ tree' = [tree EXCEPT ![Target] = "patched"]
    /\ UNCHANGED backup

(* patch --backup on a file as it was unpacked.                            *)
PatchFile ==
    /\ Applying("patch")
    /\ tree[Target] = "pristine"
    /\ tree' = [tree EXCEPT ![Target] = "patched"]
    /\ backup' = backup \union {Target}

(* The file is not there: patch asks for a name and skips it.              *)
PatchMissingFile ==
    /\ Applying("patch")
    /\ tree[Target] = "absent"
    /\ UNCHANGED <<tree, backup>>

(* "Reversed (or previously applied) patch detected! Assume -R?"  The      *)
(* person at the console says no, and the file is left alone, or says yes, *)
(* and the patch is taken out again.                                       *)
PatchAgain ==
    /\ Applying("patch")
    /\ tree[Target] = "patched"
    /\ \/ UNCHANGED <<tree, backup>>
       \/ /\ tree' = [tree EXCEPT ![Target] = "pristine"]
          /\ backup' = backup \union {Target}

Copied == Current.files[1]

(* copy /Y f f.orig                                                        *)
SaveOriginal ==
    /\ Applying("copy")
    /\ fileNo = 1
    /\ backup' = IF tree[Copied] = "absent" THEN backup ELSE backup \union {Copied}
    /\ UNCHANGED tree

(* copy /Y ours f, which needs no f but the directory it goes to.          *)
Overwrite ==
    /\ Applying("copy")
    /\ fileNo = 2
    /\ tree' = IF Present THEN [tree EXCEPT ![Copied] = "patched"] ELSE tree
    /\ UNCHANGED backup

ClosePatch ==
    /\ Goto("apply", "patch")
    /\ fileNo > Commands
    /\ patchNo' = patchNo + 1
    /\ fileNo' = 1
    /\ UNCHANGED <<script, disk, todo, wounds>>

PatchesDone ==
    /\ ~Patching
    /\ Goto("patch", "build")
    /\ UNCHANGED <<script, disk, todo, patchNo, fileNo, wounds>>

(* The build and the installation, which leave the sources alone; but      *)
(* cmake-configure.cmd makes the build directory inside them.              *)
Build ==
    /\ Goto("build", "prompt")
    /\ MakesDirectory("build")
    /\ UNCHANGED <<script, archive, tar, tree, placed, backup, todo, patchNo, fileNo>>

(* The stages at which being cut off leaves something the next run takes   *)
(* for finished.                                                           *)
Wounded ==
    CASE pc = "curl" -> {"archive"}
      [] pc = "expand" /\ todo # {} -> {"unpack"}
      [] pc = "apply" /\ fileNo > 1 /\ fileNo <= Commands -> {"patch"}
      [] OTHER -> {}

Interrupt ==
    /\ pc # "prompt"
    /\ pc' = "prompt"
    /\ todo' = {}
    /\ wounds' = wounds \union Wounded
    /\ UNCHANGED <<script, disk, patchNo, fileNo>>

-----------------------------------------------------------------------------
Fetching == SkipDownload \/ CurlOpens \/ CurlNoAnswer \/ CurlCompletes \/ CurlFails
Unpacking == \/ ClearTree \/ SkipUnpack \/ OpenZip \/ OpenTarball \/ GunzipEnds
             \/ GunzipFails \/ OpenTar \/ Expand \/ ExpandEnds \/ ExpandFails
             \/ Rename \/ Stock
PatchingStep == \/ SkipPatch \/ OpenPatch \/ PatchFile \/ PatchMissingFile
                \/ PatchAgain \/ SaveOriginal \/ Overwrite \/ ClosePatch
                \/ PatchesDone

(* What the running script does by itself.                                 *)
ScriptStep == Fetching \/ Unpacking \/ PatchingStep \/ Build

SourceNext == Begin \/ ScriptStep \/ Interrupt

SourceSpec == SourceInit /\ [][SourceNext]_vars

(* The commands of a batch file follow one another without waiting for     *)
(* anything but the program they call.                                     *)
FairSourceSpec == SourceSpec /\ WF_vars(ScriptStep)
=============================================================================
