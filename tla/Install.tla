------------------------------ MODULE Install ------------------------------
(***************************************************************************)
(* How a package gets into the shared install prefix, build after build    *)
(* and version after version.  Some scripts remove what is installed       *)
(* before they know that the new build succeeds, some after, some never;   *)
(* some install by way of another directory.  A failed build is not        *)
(* noticed by the script, a run may be cut off between any two commands,   *)
(* and at any time between runs the script may be edited to build another  *)
(* version.                                                                *)
(*                                                                         *)
(* Packages own different files, so a behaviour follows one package.  The  *)
(* steps of each are data: Plan[p], read off the script (InstallPlans).    *)
(***************************************************************************)
EXTENDS Naturals, Sequences

CONSTANTS
    Package,
    Place,      \* where files go: headers, and libraries and DLLs by part
    Plan        \* what each script does to install

(* ifExists: go on if something is installed at one of the places,         *)
(*           else pass over the next `skip` steps (never at no place)      *)
(* remove:   delete what is installed at the places                        *)
(* build:    compile what belongs at the places, into the build tree       *)
(* put:      copy what the build made                                      *)
(* source:   copy headers out of the unpacked sources, built or not        *)
(* stage:    copy from the build tree to a directory on the way            *)
(* take:     copy from there;  move: move from there                       *)
(* unstage:  remove that directory                                         *)
(* lose:     copy from there to somewhere outside the prefix               *)
Ops == {"ifExists", "remove", "build", "put", "source", "stage", "take",
        "move", "unstage", "lose"}
InstallSteps == [op : Ops, at : SUBSET Place, skip : Nat]

(* places:  where the package has files                                    *)
(* linked:  copying is the install target of the build, which does nothing *)
(*          when the build it waits for is broken                          *)
(* missing: the install target copies only what is not there               *)
(* kept:    the directory on the way has the same name for every version   *)
InstallPlanRecords ==
    [steps : Seq(InstallSteps), places : SUBSET Place, linked : BOOLEAN,
     missing : BOOLEAN, kept : BOOLEAN]

ASSUME PlanAssumption ==
    /\ Plan \in [Package -> InstallPlanRecords]
    /\ \A pkg \in Package : \A i \in DOMAIN Plan[pkg].steps :
         /\ Plan[pkg].steps[i].at \subseteq Plan[pkg].places
         /\ i + Plan[pkg].steps[i].skip <= Len(Plan[pkg].steps)

VARIABLES
    package,    \* the package this behaviour follows
    step,       \* the step the run is at, 0 when there is no run
    prefix,     \* what is installed at each place
    relics,     \* places with files that the current version does not have
    built,      \* places whose files the build tree holds
    leftover,   \* places at which the directory on the way has such files
    staged,     \* what the directory on the way holds
    failed,     \* places whose last build in this run failed
    fresh,      \* history: a build of this run succeeded
    torn        \* history: a run was cut off while it copied, or one of its
                \* builds failed where another succeeded, and no run
                \* without a failure has ended since

run == <<step, failed, fresh, torn>>
vars == <<package, run, prefix, relics, built, leftover, staged>>

(* Of the version the script builds now, of an earlier one, or not there.  *)
Versions == {"absent", "old", "new"}

InstallTypeOK ==
    /\ package \in Package
    /\ step \in 0 .. Len(Plan[package].steps) + 1
    /\ prefix \in [Place -> Versions]
    /\ \A p \in Place \ Plan[package].places : prefix[p] = "absent"
    /\ relics \in SUBSET Place
    /\ built \in SUBSET Plan[package].places
    /\ leftover \in SUBSET Place
    /\ staged \in [Place -> Versions]
    /\ failed \in SUBSET Place
    /\ fresh \in BOOLEAN
    /\ torn \in BOOLEAN

P == Plan[package]
Nowhere == [p \in Place |-> "absent"]
Aged(version) == IF version = "new" THEN "old" ELSE version
Installed(p) == prefix[p] # "absent" \/ p \in relics

Running == step \in DOMAIN P.steps
Doing(op) == Running /\ P.steps[step].op = op
At == P.steps[step].at
Advance == step' = step + 1

-----------------------------------------------------------------------------
(* An empty prefix, or one that holds an earlier version.                  *)
InstallInit ==
    /\ package \in Package
    /\ step = 0
    /\ \/ prefix = Nowhere /\ relics = {}
       \/ /\ prefix = [p \in Place |-> IF p \in Plan[package].places
                                       THEN "old" ELSE "absent"]
          /\ relics = Plan[package].places
    /\ built = {} /\ leftover = {}
    /\ staged = Nowhere
    /\ failed = {} /\ fresh = FALSE /\ torn = FALSE

(* The script is edited to build another version, one that lacks a file of *)
(* the last one at every place.                                            *)
Upgrade ==
    /\ step = 0
    /\ prefix' = [p \in Place |-> Aged(prefix[p])]
    /\ relics' = relics \union {p \in Place : prefix[p] # "absent"}
    /\ built' = {}
    /\ staged' = IF P.kept THEN [p \in Place |-> Aged(staged[p])] ELSE Nowhere
    /\ leftover' = IF P.kept THEN leftover \union {p \in Place : staged[p] # "absent"}
                   ELSE {}
    /\ UNCHANGED <<package, run>>

Start ==
    /\ step = 0
    /\ step' = 1
    /\ failed' = {} /\ fresh' = FALSE
    /\ UNCHANGED <<package, prefix, relics, built, leftover, staged, torn>>

IfExists ==
    /\ Doing("ifExists")
    /\ step' = IF \E p \in At : Installed(p) THEN step + 1
               ELSE step + P.steps[step].skip + 1
    /\ UNCHANGED <<package, prefix, relics, built, leftover, staged, failed, fresh, torn>>

(* Mutant of Remove: deletes by name what the new version has.             *)
RemoveByName ==
    /\ Doing("remove")
    /\ Advance
    /\ prefix' = [p \in Place |-> IF p \in At THEN "absent" ELSE prefix[p]]
    /\ UNCHANGED <<package, relics, built, leftover, staged, failed, fresh, torn>>

Remove ==
    /\ Doing("remove")
    /\ Advance
    /\ prefix' = [p \in Place |-> IF p \in At THEN "absent" ELSE prefix[p]]
    /\ relics' = relics \ At
    /\ UNCHANGED <<package, built, leftover, staged, failed, fresh, torn>>

Build ==
    /\ Doing("build")
    /\ Advance
    /\ built' = built \union At
    /\ failed' = failed \ At
    /\ fresh' = TRUE
    /\ UNCHANGED <<package, prefix, relics, leftover, staged, torn>>

(* A part of it may be made; what an earlier build left in the tree stays. *)
BuildFails ==
    /\ Doing("build")
    /\ Advance
    /\ \E part \in SUBSET At : built' = built \union part
    /\ failed' = failed \union At
    /\ UNCHANGED <<package, prefix, relics, leftover, staged, fresh, torn>>

Available(p) == p \in built /\ ~(P.linked /\ p \in failed)

(* Mutant of Copied: takes along whatever else is in the tree.             *)
CopiedWhole(to, missing) ==
    [p \in Place |-> IF built # {} /\ ~(missing /\ to[p] # "absent")
                     THEN "new" ELSE to[p]]

Copied(to, missing) ==
    [p \in Place |-> IF p \in At /\ Available(p) /\ ~(missing /\ to[p] # "absent")
                     THEN "new" ELSE to[p]]

(* Mutant of Put: xcopy without /Y.                                        *)
PutMissing ==
    /\ Doing("put")
    /\ Advance
    /\ prefix' = Copied(prefix, TRUE)
    /\ UNCHANGED <<package, relics, built, leftover, staged, failed, fresh, torn>>

Put ==
    /\ Doing("put")
    /\ Advance
    /\ prefix' = Copied(prefix, P.missing)
    /\ UNCHANGED <<package, relics, built, leftover, staged, failed, fresh, torn>>

PutSource ==
    /\ Doing("source")
    /\ Advance
    /\ prefix' = [p \in Place |-> IF p \in At /\ ~(P.missing /\ prefix[p] # "absent")
                                  THEN "new" ELSE prefix[p]]
    /\ UNCHANGED <<package, relics, built, leftover, staged, failed, fresh, torn>>

(* Mutant of Stage: leaves alone what a run that was cut off has staged.   *)
StageMissing ==
    /\ Doing("stage")
    /\ Advance
    /\ staged' = Copied(staged, TRUE)
    /\ UNCHANGED <<package, prefix, relics, built, leftover, failed, fresh, torn>>

Stage ==
    /\ Doing("stage")
    /\ Advance
    /\ staged' = Copied(staged, P.missing)
    /\ UNCHANGED <<package, prefix, relics, built, leftover, failed, fresh, torn>>

FromStage ==
    [p \in Place |-> IF p \in At /\ staged[p] # "absent" THEN staged[p] ELSE prefix[p]]

(* By a wildcard: what an earlier version has left there comes along.      *)
Take ==
    /\ Doing("take")
    /\ Advance
    /\ prefix' = FromStage
    /\ relics' = relics \union (At \intersect leftover)
    /\ UNCHANGED <<package, built, leftover, staged, failed, fresh, torn>>

Move ==
    /\ Doing("move")
    /\ Advance
    /\ prefix' = FromStage
    /\ relics' = relics \union (At \intersect leftover)
    /\ staged' = [p \in Place |-> IF p \in At THEN "absent" ELSE staged[p]]
    /\ leftover' = leftover \ At
    /\ UNCHANGED <<package, built, failed, fresh, torn>>

Unstage ==
    /\ Doing("unstage")
    /\ Advance
    /\ staged' = [p \in Place |-> IF p \in At THEN "absent" ELSE staged[p]]
    /\ leftover' = leftover \ At
    /\ UNCHANGED <<package, prefix, relics, built, failed, fresh, torn>>

Lose ==
    /\ Doing("lose")
    /\ Advance
    /\ UNCHANGED <<package, prefix, relics, built, leftover, staged, failed, fresh, torn>>

Ended == step > Len(P.steps)

End ==
    /\ Ended
    /\ step' = 0
    /\ torn' = (failed # {} /\ (torn \/ fresh))
    /\ UNCHANGED <<package, prefix, relics, built, leftover, staged, failed, fresh>>

Copying ==
    \E i \in DOMAIN P.steps :
        i < step /\ P.steps[i].op \in {"put", "source", "stage", "take", "move"}

Interrupt ==
    /\ Running
    /\ step' = 0
    /\ torn' = (torn \/ Copying)
    /\ UNCHANGED <<package, prefix, relics, built, leftover, staged, failed, fresh>>

InstallStep ==
    \/ IfExists \/ Remove \/ Build \/ BuildFails \/ Put \/ PutSource
    \/ Stage \/ Take \/ Move \/ Unstage \/ Lose \/ End

InstallNext == Upgrade \/ Start \/ InstallStep \/ Interrupt

InstallSpec == InstallInit /\ [][InstallNext]_vars

-----------------------------------------------------------------------------
Never(plan, ops) == \A i \in DOMAIN plan.steps : plan.steps[i].op \notin ops
Overwriting(plan) ==
    ~plan.missing /\ Never(plan, {"lose"})
Overwrites == Overwriting(P)

(* A run in which no build is left failed and that is not cut off leaves   *)
(* the whole package installed in the version it built, whatever earlier   *)
(* runs left half done: stale staged files, half of a cleaning, old        *)
(* libraries, one part of a build.  Of the two scripts that do not copy    *)
(* over what is installed see OldLibsAreRemoved and FilesAreMoved.         *)
FlawlessRunInstallsAll ==
    Ended /\ failed = {} /\ Overwrites => \A p \in P.places : prefix[p] = "new"

(* What FlawlessRunInstallsAll rests on: which steps before step i have    *)
(* left their work at place p, whatever comes between.                     *)
Does(plan, i, ops, p) == plan.steps[i].op \in ops /\ p \in plan.steps[i].at
NoneDoes(plan, from, to, ops, p) == \A k \in from + 1 .. to - 1 : ~Does(plan, k, ops, p)

AfterBuild(plan, i, p) == \E b \in 1 .. i - 1 : Does(plan, b, {"build"}, p)
StagedBy(plan, i, p) ==
    \E s \in 1 .. i - 1 :
        /\ Does(plan, s, {"stage"}, p) /\ AfterBuild(plan, s, p)
        /\ NoneDoes(plan, s, i, {"move", "unstage", "build"}, p)
Fills(plan, f, p) ==
    \/ Does(plan, f, {"source"}, p)
    \/ Does(plan, f, {"put"}, p) /\ AfterBuild(plan, f, p)
    \/ Does(plan, f, {"take", "move"}, p) /\ StagedBy(plan, f, p)
FilledBy(plan, i, p) ==
    \E f \in 1 .. i - 1 :
        Fills(plan, f, p) /\ NoneDoes(plan, f, i, {"remove", "take", "move", "build"}, p)

(* Every place is filled by the end, and a test passes over removals only. *)
WellPlanned(plan) ==
    Overwriting(plan) =>
        /\ \A p \in plan.places : FilledBy(plan, Len(plan.steps) + 1, p)
        /\ \A i \in DOMAIN plan.steps :
             plan.steps[i].op = "ifExists" =>
                 \A k \in i + 1 .. i + plan.steps[i].skip :
                     plan.steps[k].op \in {"remove", "unstage"}

HeadersAreBuilt == Never(P, {"source"})

(* Where the headers are installed by the build, the headers, the          *)
(* libraries and the DLLs found between runs are of one version, whatever  *)
(* failed - unless a run was cut off while it was copying, or one of its   *)
(* builds failed where another succeeded, and no run without a failure has *)
(* followed.  (A script that copies headers from the sources puts them     *)
(* beside old libraries when its build fails.)                             *)
HeadersMatchLibraries ==
    step = 0 /\ ~torn /\ HeadersAreBuilt
        => ~ \E p, q \in P.places : prefix[p] = "new" /\ prefix[q] = "old"

(* What HeadersMatchLibraries rests on.  The directory on the way is       *)
(* emptied again by every run that fills it,                               *)
PassesOn(plan) ==
    /\ Never(plan, {"stage"}) \/ Never(plan, {"ifExists"})
    /\ \A s \in DOMAIN plan.steps : \A p \in plan.places :
         Does(plan, s, {"stage"}, p) =>
             \E k \in s + 1 .. Len(plan.steps) : Does(plan, k, {"move", "unstage"}, p)

(* or every run empties every place of the prefix, and fills it from one   *)
(* source: the build tree or the directory on the way.                     *)
Clears(plan) ==
    /\ Never(plan, {"ifExists", "move", "unstage"})
    /\ \A p \in plan.places : \E r \in DOMAIN plan.steps : Does(plan, r, {"remove"}, p)
    /\ IF plan.linked
       THEN /\ Never(plan, {"put"})
            /\ \A p \in plan.places : StagedBy(plan, Len(plan.steps) + 1, p)
       ELSE Never(plan, {"stage", "take"})

(* An install target copies what its own run has built.                    *)
CopiesWhatItBuilds(plan) ==
    \A i \in DOMAIN plan.steps : \A p \in plan.places :
        Does(plan, i, {"put", "stage"}, p) => AfterBuild(plan, i, p)

Coherent(plan) ==
    Never(plan, {"source"}) =>
        IF Overwriting(plan)
        THEN /\ plan.linked => CopiesWhatItBuilds(plan)
             /\ (plan.linked /\ PassesOn(plan)) \/ Clears(plan)
        ELSE Never(plan, {"put", "take", "move"})

(* The places a script empties on every run.                               *)
Emptied ==
    IF ~Never(P, {"ifExists", "move", "unstage"}) THEN {}
    ELSE UNION {P.steps[i].at : i \in {j \in DOMAIN P.steps : P.steps[j].op = "remove"}}

(* Where a script cleans before it copies, no file that the version it     *)
(* builds does not have is left when it ends, even if runs before it were  *)
(* cut off and even if its build fails - short of those that the directory *)
(* on the way still has from an earlier version (NeXus never empties its   *)
(* own, and copies from it by wildcards).                                  *)
NothingDroppedRemains == Ended => Emptied \intersect relics \subseteq leftover

(* "Remove old includes, dlls & libs in INSTALL_PREFIX as `install`        *)
(* command only copies what is not currently there": when the libraries    *)
(* are built there is no old one in lib.                                   *)
OldLibsAreRemoved == Doing("build") => prefix["lib"] # "old"

(* "Clean old install": when the build starts, no header of an earlier     *)
(* version is installed.                                                   *)
OldHeadersAreCleaned == Doing("build") => "inc" \notin relics

(* "Change of INSTALLBASE still leaves files in the wrong place so move    *)
(* them manually": before the wrong place is removed, its files have been  *)
(* copied to the prefix.                                                   *)
FilesAreMoved ==
    Doing("unstage") => \A p \in At : staged[p] = "new" => prefix[p] = "new"
=============================================================================
