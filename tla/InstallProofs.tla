--------------------------- MODULE InstallProofs ---------------------------
(***************************************************************************)
(* Theorems about Install, for any packages and plans.                     *)
(***************************************************************************)
EXTENDS Install, TLAPS

USE DEF run

(* The types alone are not inductive: nothing is staged where the package  *)
(* has no files.                                                           *)
TypeInv ==
    /\ InstallTypeOK
    /\ \A p \in Place \ P.places : staged[p] = "absent"

LEMMA PlanTyped ==
    ASSUME package \in Package
    PROVE  /\ P \in InstallPlanRecords
           /\ P.steps \in Seq(InstallSteps) /\ Len(P.steps) \in Nat
           /\ DOMAIN P.steps = 1 .. Len(P.steps)
           /\ P.places \in SUBSET Place
           /\ \A i \in DOMAIN P.steps :
                /\ P.steps[i].op \in Ops
                /\ P.steps[i].at \in SUBSET P.places
                /\ P.steps[i].skip \in Nat
                /\ i + P.steps[i].skip <= Len(P.steps)
<1>1. P \in InstallPlanRecords
  BY PlanAssumption DEF P
<1>2. /\ P.steps \in Seq(InstallSteps)
      /\ P.places \in SUBSET Place
  BY <1>1 DEF InstallPlanRecords
<1>3. Len(P.steps) \in Nat /\ DOMAIN P.steps = 1 .. Len(P.steps)
  BY <1>2
<1>4. ASSUME NEW i \in DOMAIN P.steps
      PROVE  /\ P.steps[i].op \in Ops /\ P.steps[i].skip \in Nat
             /\ P.steps[i].at \in SUBSET P.places
             /\ i + P.steps[i].skip <= Len(P.steps)
  <2>1. P.steps[i] \in InstallSteps
    BY <1>2
  <2>2. P.steps[i].at \subseteq P.places /\ i + P.steps[i].skip <= Len(P.steps)
    BY PlanAssumption DEF P
  <2> QED
    BY <2>1, <2>2 DEF InstallSteps
<1> QED
  BY <1>1, <1>2, <1>3, <1>4

(* A step that is carried out is one of the plan.                          *)
LEMMA StepTyped ==
    ASSUME TypeInv, Running
    PROVE  /\ step \in 1 .. Len(P.steps) /\ step + 1 \in 1 .. Len(P.steps) + 1
           /\ step + P.steps[step].skip + 1 \in 1 .. Len(P.steps) + 1
           /\ At \in SUBSET P.places
BY PlanTyped DEF TypeInv, InstallTypeOK, Running, At

(* What is copied from the build tree is of a version, and goes where the  *)
(* package has files.                                                      *)
LEMMA CopiedTyped ==
    ASSUME TypeInv, Running, NEW to \in [Place -> Versions], NEW missing \in BOOLEAN
    PROVE  /\ Copied(to, missing) \in [Place -> Versions]
           /\ \A p \in Place \ P.places : Copied(to, missing)[p] = to[p]
<1>1. At \in SUBSET P.places
  BY StepTyped
<1> QED
  BY <1>1 DEF Copied, Versions

-----------------------------------------------------------------------------
LEMMA TypesAtStart == InstallInit => TypeInv
<1> SUFFICES ASSUME InstallInit PROVE TypeInv
  OBVIOUS
<1>1. package \in Package
  BY DEF InstallInit
<1>2. Len(P.steps) \in Nat /\ P.places \in SUBSET Place
  BY <1>1, PlanTyped
<1>3. step \in 0 .. Len(P.steps) + 1
  BY <1>2 DEF InstallInit
<1>4. /\ prefix \in [Place -> Versions] /\ relics \in SUBSET Place
      /\ \A p \in Place \ P.places : prefix[p] = "absent"
  BY <1>2 DEF InstallInit, Nowhere, Versions, P
<1>5. staged \in [Place -> Versions] /\ \A p \in Place \ P.places : staged[p] = "absent"
  BY DEF InstallInit, Nowhere, Versions
<1>6. /\ built \in SUBSET P.places /\ leftover \in SUBSET Place
      /\ failed \in SUBSET Place /\ fresh \in BOOLEAN /\ torn \in BOOLEAN
  BY DEF InstallInit
<1> QED
  BY <1>1, <1>3, <1>4, <1>5, <1>6 DEF TypeInv, InstallTypeOK, P

LEMMA TypesKept == TypeInv /\ [InstallNext]_vars => TypeInv'
<1> SUFFICES ASSUME TypeInv, [InstallNext]_vars PROVE TypeInv'
  OBVIOUS
<1> USE DEF TypeInv
<1>1. /\ package \in Package /\ Len(P.steps) \in Nat
      /\ P.places \in SUBSET Place /\ P.missing \in BOOLEAN
      /\ step \in 0 .. Len(P.steps) + 1 /\ built \in SUBSET P.places
      /\ \A p \in Place \ P.places : prefix[p] = "absent" /\ staged[p] = "absent"
  <2>1. package \in Package
    BY DEF InstallTypeOK
  <2> QED
    BY <2>1, PlanTyped DEF InstallTypeOK, InstallPlanRecords, P
<1>2. Running => /\ step \in 1 .. Len(P.steps) /\ step + 1 \in 1 .. Len(P.steps) + 1
                 /\ step + P.steps[step].skip + 1 \in 1 .. Len(P.steps) + 1
                 /\ At \in SUBSET P.places
  BY StepTyped
<1>3. P' = P
  BY DEF InstallNext, InstallStep, Upgrade, Start, IfExists, Remove, Build, BuildFails,
         Put, PutSource, Stage, Take, Move, Unstage, Lose, End, Interrupt, vars, P
<1>4. step' \in 0 .. Len(P.steps) + 1
  <2>1. step' \in {step, 0, 1, step + 1, step + P.steps[step].skip + 1}
    BY DEF InstallNext, InstallStep, Upgrade, Start, IfExists, Remove, Build, BuildFails,
           Put, PutSource, Stage, Take, Move, Unstage, Lose, End, Interrupt, vars, Advance
  <2>2. step' \in {step, 0, 1} \/ Running
    BY DEF InstallNext, InstallStep, Upgrade, Start, IfExists, Remove, Build, BuildFails,
           Put, PutSource, Stage, Take, Move, Unstage, Lose, End, Interrupt, vars, Doing
  <2> QED
    BY <1>1, <1>2, <2>1, <2>2
<1>5. prefix' \in [Place -> Versions] /\ \A p \in Place \ P.places : prefix'[p] = "absent"
  <2>1. CASE Put
    BY <1>1, <2>1, CopiedTyped DEF Put, Doing, InstallTypeOK
  <2>2. CASE PutSource
    BY <1>1, <1>2, <2>2 DEF PutSource, Doing, InstallTypeOK, Versions
  <2>3. CASE Take \/ Move
    BY <1>1, <1>2, <2>3 DEF Take, Move, FromStage, Doing, InstallTypeOK
  <2>4. CASE Remove
    BY <1>1, <2>4 DEF Remove, InstallTypeOK, Versions
  <2>5. CASE Upgrade
    BY <1>1, <2>5 DEF Upgrade, Aged, InstallTypeOK, Versions
  <2>6. CASE UNCHANGED prefix
    BY <1>1, <2>6 DEF InstallTypeOK
  <2> QED
    BY <2>1, <2>2, <2>3, <2>4, <2>5, <2>6
       DEF InstallNext, InstallStep, Start, IfExists, Build, BuildFails, Stage, Unstage,
           Lose, End, Interrupt, vars
<1>6. staged' \in [Place -> Versions] /\ \A p \in Place \ P.places : staged'[p] = "absent"
  <2>1. CASE Stage
    BY <1>1, <2>1, CopiedTyped DEF Stage, Doing, InstallTypeOK
  <2>2. CASE Move \/ Unstage
    BY <1>1, <2>2 DEF Move, Unstage, InstallTypeOK, Versions
  <2>3. CASE Upgrade
    BY <1>1, <2>3 DEF Upgrade, Aged, Nowhere, InstallTypeOK, Versions
  <2>4. CASE UNCHANGED staged
    BY <1>1, <2>4 DEF InstallTypeOK
  <2> QED
    BY <2>1, <2>2, <2>3, <2>4
       DEF InstallNext, InstallStep, Start, IfExists, Remove, Build, BuildFails, Put,
           PutSource, Take, Lose, End, Interrupt, vars
<1>7. built' \in SUBSET P.places /\ failed' \in SUBSET Place
  <2>1. CASE Build \/ BuildFails
    BY <1>1, <1>2, <2>1 DEF Build, BuildFails, Doing, InstallTypeOK
  <2>2. CASE Upgrade \/ Start
    BY <1>1, <2>2 DEF Upgrade, Start, run, InstallTypeOK
  <2>3. CASE UNCHANGED <<built, failed>>
    BY <1>1, <2>3 DEF InstallTypeOK
  <2> QED
    BY <2>1, <2>2, <2>3
       DEF InstallNext, InstallStep, IfExists, Remove, Put, PutSource, Stage, Take, Move,
           Unstage, Lose, End, Interrupt, vars
<1>8. relics' \in SUBSET Place /\ leftover' \in SUBSET Place
  BY <1>1 DEF InstallNext, InstallStep, Upgrade, Start, IfExists, Remove, Build, BuildFails,
              Put, PutSource, Stage, Take, Move, Unstage, Lose, End, Interrupt, vars,
              InstallTypeOK
<1>9. fresh' \in BOOLEAN /\ torn' \in BOOLEAN
  <2>1. CASE End \/ Interrupt
    <3>1. (torn \/ Copying) \in BOOLEAN /\ (failed # {} /\ (torn \/ fresh)) \in BOOLEAN
      BY DEF Copying
    <3>2. fresh' = fresh /\ fresh \in BOOLEAN
      BY <2>1 DEF End, Interrupt, InstallTypeOK
    <3>3. torn' = (torn \/ Copying) \/ torn' = (failed # {} /\ (torn \/ fresh))
      BY <2>1 DEF End, Interrupt
    <3> QED
      BY <3>1, <3>2, <3>3
  <2>2. CASE ~(End \/ Interrupt)
    BY <2>2 DEF InstallNext, InstallStep, Upgrade, Start, IfExists, Remove, Build,
                BuildFails, Put, PutSource, Stage, Take, Move, Unstage, Lose, vars,
                InstallTypeOK
  <2> QED
    BY <2>1, <2>2
<1>10. package' = package
  BY DEF InstallNext, InstallStep, Upgrade, Start, IfExists, Remove, Build, BuildFails,
         Put, PutSource, Stage, Take, Move, Unstage, Lose, End, Interrupt, vars
<1> QED
  BY <1>1, <1>3, <1>4, <1>5, <1>6, <1>7, <1>8, <1>9, <1>10 DEF InstallTypeOK, P

LEMMA TypesAlways == InstallSpec => []TypeInv
BY TypesAtStart, TypesKept, PTL DEF InstallSpec

(* Every variable keeps its type, and the prefix holds files of the        *)
(* package only where its script puts any.                                 *)
THEOREM InstallTypeCorrect == InstallSpec => []InstallTypeOK
<1>1. TypeInv => InstallTypeOK
  BY DEF TypeInv
<1> QED
  BY <1>1, TypesAlways, PTL

-----------------------------------------------------------------------------
(* A place whose removal is behind the run has no file of an earlier       *)
(* version but what the directory on the way has.                          *)
CleanInv ==
    \A p \in Emptied \intersect relics :
        (\E r \in 1 .. step - 1 : Does(P, r, {"remove"}, p)) => p \in leftover

LEMMA CleanAtStart == InstallInit => CleanInv
BY DEF InstallInit, CleanInv

LEMMA CleanKept == TypeInv /\ CleanInv /\ [InstallNext]_vars => CleanInv'
<1> SUFFICES ASSUME TypeInv, CleanInv, [InstallNext]_vars PROVE CleanInv'
  OBVIOUS
<1>1. package' = package /\ P' = P /\ Emptied' = Emptied
  BY DEF InstallNext, InstallStep, Upgrade, Start, IfExists, Remove, Build, BuildFails,
         Put, PutSource, Stage, Take, Move, Unstage, Lose, End, Interrupt, vars,
         P, Emptied, Never
<1>2. step \in Nat
  BY PlanTyped DEF TypeInv, InstallTypeOK
<1>3. ASSUME NEW p \in Emptied, NEW r \in 1 .. step' - 1, Does(P, r, {"remove"}, p),
             p \in relics'
      PROVE  p \in leftover'
  <2>1. CASE Upgrade \/ Start \/ End \/ Interrupt
    BY <1>3, <2>1 DEF Upgrade, Start, End, Interrupt
  <2>2. CASE IfExists \/ Move \/ Unstage
    BY <2>2, <1>3 DEF IfExists, Move, Unstage, Emptied, Doing, Running, Never
  <2>3. CASE Remove
    <3>1. p \in relics /\ p \notin At /\ leftover' = leftover
      BY <1>3, <2>3 DEF Remove
    <3>2. r # step
      BY <1>3, <3>1 DEF Does, At
    <3>3. r \in 1 .. step - 1
      BY <1>2, <2>3, <3>2 DEF Remove, Advance
    <3> QED
      BY <1>3, <3>1, <3>3 DEF CleanInv
  <2>4. ASSUME Running, Advance, P.steps[step].op # "remove", p \in relics
        PROVE  p \in leftover
    <3>1. r # step
      BY <1>3, <2>4 DEF Does
    <3>2. r \in 1 .. step - 1
      BY <1>2, <2>4, <3>1 DEF Advance
    <3> QED
      BY <1>3, <2>4, <3>2 DEF CleanInv
  <2>5. CASE Take
    BY <1>3, <2>4, <2>5 DEF Take, Doing
  <2>6. CASE Build \/ BuildFails \/ Put \/ PutSource \/ Stage \/ Lose
    BY <1>3, <2>4, <2>6 DEF Build, BuildFails, Put, PutSource, Stage, Lose, Doing
  <2>7. CASE UNCHANGED vars
    BY <1>3, <2>7 DEF vars, CleanInv
  <2> QED
    BY <2>1, <2>2, <2>3, <2>5, <2>6, <2>7 DEF InstallNext, InstallStep
<1> QED
  BY <1>1, <1>3 DEF CleanInv

(* Whatever was cut off or failed before, and whether or not its build     *)
(* succeeds, a script that empties a place leaves no file there that the   *)
(* version it builds does not have, but one that its directory on the way  *)
(* still has.                                                              *)
THEOREM CleaningLasts == InstallSpec => []NothingDroppedRemains
<1>1. TypeInv /\ CleanInv => NothingDroppedRemains
  <2> SUFFICES ASSUME TypeInv, CleanInv, Ended, NEW p \in Emptied, p \in relics
               PROVE  p \in leftover
    BY DEF NothingDroppedRemains
  <2>1. PICK r \in DOMAIN P.steps : P.steps[r].op = "remove" /\ p \in P.steps[r].at
    BY DEF Emptied
  <2>2. r \in 1 .. step - 1
    BY PlanTyped, <2>1 DEF TypeInv, InstallTypeOK, Ended
  <2>3. Does(P, r, {"remove"}, p)
    BY <2>1 DEF Does
  <2> QED
    BY <2>2, <2>3 DEF CleanInv
<1>2. InstallSpec => []CleanInv
  BY TypesAlways, CleanAtStart, CleanKept, PTL DEF InstallSpec
<1> QED
  BY <1>1, <1>2, TypesAlways, PTL

-----------------------------------------------------------------------------
Quiet == {"ifExists", "remove", "unstage"}

(* Steps that build and copy nothing add nothing to what is filled, and    *)
(* what is filled after them is at none of the places they empty.          *)
LEMMA QuietSteps ==
    ASSUME NEW plan, NEW i \in Nat, NEW j \in Nat, i < j,
           \A k \in i .. j - 1 : plan.steps[k].op \in Quiet
    PROVE  \A p :
             /\ AfterBuild(plan, j, p) => AfterBuild(plan, i, p)
             /\ StagedBy(plan, j, p) =>
                  /\ StagedBy(plan, i, p)
                  /\ \A k \in i .. j - 1 : ~Does(plan, k, {"unstage"}, p)
             /\ FilledBy(plan, j, p) =>
                  /\ FilledBy(plan, i, p)
                  /\ \A k \in i .. j - 1 : ~Does(plan, k, {"remove"}, p)
<1>1. ASSUME NEW p, AfterBuild(plan, j, p) PROVE AfterBuild(plan, i, p)
  <2>1. PICK b \in 1 .. j - 1 : Does(plan, b, {"build"}, p)
    BY <1>1 DEF AfterBuild
  <2>2. b \notin i .. j - 1
    BY <2>1 DEF Quiet, Does
  <2>3. b \in 1 .. i - 1
    BY <2>2
  <2> QED
    BY <2>1, <2>3 DEF AfterBuild
<1>2. ASSUME NEW p, StagedBy(plan, j, p)
      PROVE  /\ StagedBy(plan, i, p)
             /\ \A k \in i .. j - 1 : ~Does(plan, k, {"unstage"}, p)
  <2>1. PICK s \in 1 .. j - 1 :
          /\ Does(plan, s, {"stage"}, p) /\ AfterBuild(plan, s, p)
          /\ NoneDoes(plan, s, j, {"move", "unstage", "build"}, p)
    BY <1>2 DEF StagedBy
  <2>2. s \notin i .. j - 1
    BY <2>1 DEF Quiet, Does
  <2>3. s \in 1 .. i - 1
    BY <2>2
  <2>4. /\ NoneDoes(plan, s, i, {"move", "unstage", "build"}, p)
        /\ \A k \in i .. j - 1 : ~Does(plan, k, {"move", "unstage", "build"}, p)
    <3>1. s + 1 .. i - 1 \subseteq s + 1 .. j - 1 /\ i .. j - 1 \subseteq s + 1 .. j - 1
      BY <2>3
    <3> QED
      BY <2>1, <3>1 DEF NoneDoes
  <2> QED
    BY <2>1, <2>3, <2>4 DEF StagedBy, Does
<1>3. ASSUME NEW p, FilledBy(plan, j, p)
      PROVE  /\ FilledBy(plan, i, p)
             /\ \A k \in i .. j - 1 : ~Does(plan, k, {"remove"}, p)
  <2>1. PICK f \in 1 .. j - 1 :
          Fills(plan, f, p) /\ NoneDoes(plan, f, j, {"remove", "take", "move", "build"}, p)
    BY <1>3 DEF FilledBy
  <2>2. f \notin i .. j - 1
    BY <2>1 DEF Quiet, Fills, Does
  <2>3. f \in 1 .. i - 1
    BY <2>2
  <2>4. /\ NoneDoes(plan, f, i, {"remove", "take", "move", "build"}, p)
        /\ \A k \in i .. j - 1 : ~Does(plan, k, {"remove", "take", "move", "build"}, p)
    <3>1. f + 1 .. i - 1 \subseteq f + 1 .. j - 1 /\ i .. j - 1 \subseteq f + 1 .. j - 1
      BY <2>3
    <3> QED
      BY <2>1, <3>1 DEF NoneDoes
  <2> QED
    BY <2>1, <2>3, <2>4 DEF FilledBy, Does
<1> QED
  BY <1>1, <1>2, <1>3

(* One step on, a place is filled because it was and is not emptied, or    *)
(* because the step fills it.                                              *)
LEMMA OneStep ==
    ASSUME NEW plan, NEW i \in Nat \ {0}
    PROVE  \A p :
             /\ AfterBuild(plan, i + 1, p) =>
                  AfterBuild(plan, i, p) \/ Does(plan, i, {"build"}, p)
             /\ StagedBy(plan, i + 1, p) =>
                  \/ StagedBy(plan, i, p) /\ ~Does(plan, i, {"move", "unstage", "build"}, p)
                  \/ Does(plan, i, {"stage"}, p) /\ AfterBuild(plan, i, p)
             /\ FilledBy(plan, i + 1, p) =>
                  \/ /\ FilledBy(plan, i, p)
                     /\ ~Does(plan, i, {"remove", "take", "move", "build"}, p)
                  \/ Fills(plan, i, p)
<1>1. ASSUME NEW p, AfterBuild(plan, i + 1, p)
      PROVE  AfterBuild(plan, i, p) \/ Does(plan, i, {"build"}, p)
  <2>1. PICK b \in 1 .. i : Does(plan, b, {"build"}, p)
    BY <1>1 DEF AfterBuild
  <2>2. b = i \/ b \in 1 .. i - 1
    OBVIOUS
  <2> QED
    BY <2>1, <2>2 DEF AfterBuild
<1>2. ASSUME NEW p, StagedBy(plan, i + 1, p)
      PROVE  \/ StagedBy(plan, i, p) /\ ~Does(plan, i, {"move", "unstage", "build"}, p)
             \/ Does(plan, i, {"stage"}, p) /\ AfterBuild(plan, i, p)
  <2>1. PICK s \in 1 .. i :
          /\ Does(plan, s, {"stage"}, p) /\ AfterBuild(plan, s, p)
          /\ NoneDoes(plan, s, i + 1, {"move", "unstage", "build"}, p)
    BY <1>2 DEF StagedBy
  <2>2. CASE s = i
    BY <2>1, <2>2
  <2>3. CASE s # i
    <3>1. s \in 1 .. i - 1
      BY <2>3
    <3>2. s + 1 .. i - 1 \subseteq s + 1 .. (i + 1) - 1 /\ i \in s + 1 .. (i + 1) - 1
      BY <3>1
    <3> QED
      BY <2>1, <3>1, <3>2 DEF StagedBy, NoneDoes
  <2> QED
    BY <2>2, <2>3
<1>3. ASSUME NEW p, FilledBy(plan, i + 1, p)
      PROVE  \/ /\ FilledBy(plan, i, p)
                /\ ~Does(plan, i, {"remove", "take", "move", "build"}, p)
             \/ Fills(plan, i, p)
  <2>1. PICK f \in 1 .. i :
          /\ Fills(plan, f, p)
          /\ NoneDoes(plan, f, i + 1, {"remove", "take", "move", "build"}, p)
    BY <1>3 DEF FilledBy
  <2>2. CASE f = i
    BY <2>1, <2>2
  <2>3. CASE f # i
    <3>1. f \in 1 .. i - 1
      BY <2>3
    <3>2. f + 1 .. i - 1 \subseteq f + 1 .. (i + 1) - 1 /\ i \in f + 1 .. (i + 1) - 1
      BY <3>1
    <3> QED
      BY <2>1, <3>1, <3>2 DEF FilledBy, NoneDoes
  <2> QED
    BY <2>2, <2>3
<1> QED
  BY <1>1, <1>2, <1>3

(* Wherever the last build in the run so far has not failed, the build     *)
(* tree, the directory on the way and the prefix hold the new version as   *)
(* far as the plan has put it there.                                       *)
FlowInv ==
    step > 0 /\ Overwrites =>
        \A p \in Place \ failed :
            /\ AfterBuild(P, step, p) => p \in built
            /\ StagedBy(P, step, p) => staged[p] = "new"
            /\ FilledBy(P, step, p) => prefix[p] = "new"

LEMMA InRange == ASSUME NEW i \in Nat, NEW j \in Nat, i < j PROVE i \in i .. j - 1
OBVIOUS

LEMMA FlowKept ==
    ASSUME \A pkg \in Package : WellPlanned(Plan[pkg]), TypeInv, FlowInv, [InstallNext]_vars
    PROVE  FlowInv'
<1>1. package' = package /\ P' = P /\ Overwrites' = Overwrites
  BY DEF InstallNext, InstallStep, Upgrade, Start, IfExists, Remove, Build, BuildFails,
         Put, PutSource, Stage, Take, Move, Unstage, Lose, End, Interrupt, vars,
         P, Overwrites
<1> SUFFICES ASSUME step' > 0, Overwrites, NEW p \in Place, p \notin failed'
             PROVE  /\ AfterBuild(P, step', p) => p \in built'
                    /\ StagedBy(P, step', p) => staged'[p] = "new"
                    /\ FilledBy(P, step', p) => prefix'[p] = "new"
  BY <1>1 DEF FlowInv
<1>2. /\ package \in Package /\ step \in Nat
      /\ prefix \in [Place -> Versions] /\ staged \in [Place -> Versions]
  BY PlanTyped DEF TypeInv, InstallTypeOK
<1>3. /\ ~P.missing
      /\ \A i \in DOMAIN P.steps :
           P.steps[i].op = "ifExists" =>
               \A k \in i + 1 .. i + P.steps[i].skip : P.steps[k].op \in Quiet
  <2>1. WellPlanned(P) /\ Overwriting(P)
    BY <1>2 DEF P, Overwrites
  <2> QED
    BY <2>1 DEF WellPlanned, Overwriting, Quiet
<1>4. CASE Upgrade \/ End \/ Interrupt
  BY <1>4 DEF Upgrade, End, Interrupt
<1>5. CASE Start
  BY <1>5 DEF Start, AfterBuild, StagedBy, FilledBy
<1>6. CASE UNCHANGED vars
  BY <1>6 DEF vars, FlowInv
<1>7. ASSUME Running, p \notin failed
      PROVE  /\ AfterBuild(P, step, p) => p \in built
             /\ StagedBy(P, step, p) => staged[p] = "new"
             /\ FilledBy(P, step, p) => prefix[p] = "new"
  <2>1. step > 0
    BY <1>7, StepTyped
  <2> QED
    BY <1>7, <2>1 DEF FlowInv
<1>8. CASE IfExists \/ Remove \/ Unstage
  <2>1. Running /\ p \notin failed
    BY <1>8 DEF IfExists, Remove, Unstage, Doing
  <2>2. step' \in Nat /\ step < step' /\ \A k \in step .. step' - 1 : P.steps[k].op \in Quiet
    <3>1. step \in 1 .. Len(P.steps) /\ step \in DOMAIN P.steps
          /\ P.steps[step].op \in Quiet /\ P.steps[step].skip \in Nat
      BY <1>2, <1>8, <2>1, StepTyped, PlanTyped
         DEF IfExists, Remove, Unstage, Doing, Quiet
    <3>2. CASE step' = step + 1
      BY <3>1, <3>2
    <3>3. CASE step' = step + P.steps[step].skip + 1 /\ P.steps[step].op = "ifExists"
      BY <1>3, <3>1, <3>3
    <3> QED
      BY <1>8, <3>2, <3>3 DEF IfExists, Remove, Unstage, Advance, Doing
  <2>3. /\ AfterBuild(P, step', p) => AfterBuild(P, step, p)
        /\ StagedBy(P, step', p) =>
             StagedBy(P, step, p) /\ ~Does(P, step, {"unstage"}, p)
        /\ FilledBy(P, step', p) =>
             FilledBy(P, step, p) /\ ~Does(P, step, {"remove"}, p)
    <3>1. step \in Nat /\ step' \in Nat /\ step < step'
      BY <1>2, <2>2
    <3>2. step \in step .. step' - 1
      BY ONLY <3>1, InRange
    <3>3. \A k \in step .. step' - 1 : P.steps[k].op \in Quiet
      BY <2>2
    <3>4. /\ AfterBuild(P, step', p) => AfterBuild(P, step, p)
          /\ StagedBy(P, step', p) =>
               /\ StagedBy(P, step, p)
               /\ \A k \in step .. step' - 1 : ~Does(P, k, {"unstage"}, p)
          /\ FilledBy(P, step', p) =>
               /\ FilledBy(P, step, p)
               /\ \A k \in step .. step' - 1 : ~Does(P, k, {"remove"}, p)
      BY ONLY <3>1, <3>3, QuietSteps
    <3> QED
      BY <3>2, <3>4
  <2>4. CASE IfExists
    BY <1>7, <2>1, <2>3, <2>4 DEF IfExists
  <2>5. CASE Remove
    BY <1>2, <1>7, <2>1, <2>3, <2>5 DEF Remove, Doing, Does, At
  <2>6. CASE Unstage
    BY <1>2, <1>7, <2>1, <2>3, <2>6 DEF Unstage, Doing, Does, At
  <2> QED
    BY <1>8, <2>4, <2>5, <2>6
<1>9. ASSUME Running, Advance
      PROVE /\ AfterBuild(P, step', p) => AfterBuild(P, step, p) \/ Does(P, step, {"build"}, p)
            /\ StagedBy(P, step', p) =>
                 \/ StagedBy(P, step, p) /\ ~Does(P, step, {"move", "unstage", "build"}, p)
                 \/ Does(P, step, {"stage"}, p) /\ AfterBuild(P, step, p)
            /\ FilledBy(P, step', p) =>
                 \/ /\ FilledBy(P, step, p)
                    /\ ~Does(P, step, {"remove", "take", "move", "build"}, p)
                 \/ Fills(P, step, p)
  <2>1. step \in Nat \ {0}
    BY <1>9, StepTyped
  <2> QED
    BY <1>9, <2>1, OneStep DEF Advance
<1>10. CASE Build \/ BuildFails
  <2>1. /\ Running /\ Advance /\ P.steps[step].op = "build"
        /\ UNCHANGED <<prefix, staged>> /\ built \subseteq built'
    BY <1>10 DEF Build, BuildFails, Doing
  <2>2. CASE p \in At
    <3>1. p \in built'
      BY <1>10, <2>2 DEF Build, BuildFails
    <3>2. Does(P, step, {"build"}, p)
      BY <2>1, <2>2 DEF Does, At
    <3> QED
      BY <1>9, <2>1, <3>1, <3>2 DEF Does, Fills
  <2>3. CASE p \notin At
    <3>1. p \notin failed
      BY <1>10, <2>3 DEF Build, BuildFails
    <3>2. ~Does(P, step, {"build"}, p)
      BY <2>3 DEF Does, At
    <3> QED
      BY <1>7, <1>9, <2>1, <3>1, <3>2 DEF Does, Fills
  <2> QED
    BY <2>2, <2>3
<1>11. CASE Lose
  <2>1. /\ Running /\ Advance /\ p \notin failed /\ P.steps[step].op = "lose"
        /\ UNCHANGED <<prefix, staged, built>>
    BY <1>11 DEF Lose, Doing
  <2> QED
    BY <1>7, <1>9, <2>1 DEF Does, Fills
<1>12. CASE Put \/ PutSource
  <2>1. /\ Running /\ Advance /\ p \notin failed /\ P.steps[step].op \in {"put", "source"}
        /\ UNCHANGED <<built, staged>>
    BY <1>12 DEF Put, PutSource, Doing
  <2>2. prefix'[p] = "new" \/ prefix'[p] = prefix[p]
    BY <1>2, <1>12 DEF Put, PutSource, Copied
  <2>3. Fills(P, step, p) => prefix'[p] = "new"
    <3>1. CASE Put /\ Fills(P, step, p)
      <4>1. p \in At /\ AfterBuild(P, step, p)
        BY <3>1 DEF Put, Doing, Fills, Does, At
      <4>2. Available(p)
        BY <1>7, <2>1, <4>1 DEF Available
      <4> QED
        BY <1>3, <3>1, <4>1, <4>2 DEF Put, Copied
    <3>2. CASE PutSource /\ Fills(P, step, p)
      BY <1>3, <3>2 DEF PutSource, Doing, Fills, Does, At
    <3> QED
      BY <1>12, <3>1, <3>2
  <2>4. AfterBuild(P, step', p) => p \in built'
    BY <1>7, <1>9, <2>1 DEF Does
  <2>5. StagedBy(P, step', p) => staged'[p] = "new"
    BY <1>7, <1>9, <2>1 DEF Does
  <2> QED
    BY <1>7, <1>9, <2>1, <2>2, <2>3, <2>4, <2>5
<1>13. CASE Stage
  <2>1. /\ Running /\ Advance /\ p \notin failed /\ P.steps[step].op = "stage"
        /\ UNCHANGED <<built, prefix>>
    BY <1>13 DEF Stage, Doing
  <2>2. staged'[p] = IF p \in At /\ Available(p) THEN "new" ELSE staged[p]
    BY <1>3, <1>13 DEF Stage, Copied
  <2>3. AfterBuild(P, step, p) => Available(p)
    BY <1>7, <2>1 DEF Available
  <2>4. StagedBy(P, step', p) => staged'[p] = "new"
    BY <1>7, <1>9, <2>1, <2>2, <2>3 DEF Does, At
  <2> QED
    BY <1>7, <1>9, <2>1, <2>4 DEF Does, Fills
<1>14. CASE Take \/ Move
  <2>1. /\ Running /\ Advance /\ p \notin failed /\ P.steps[step].op \in {"take", "move"}
        /\ UNCHANGED built
    BY <1>14 DEF Take, Move, Doing
  <2>2. prefix'[p] = IF p \in At /\ staged[p] # "absent" THEN staged[p] ELSE prefix[p]
    BY <1>14 DEF Take, Move, FromStage
  <2>3. ~Does(P, step, {"move", "unstage", "build"}, p) => staged'[p] = staged[p]
    BY <1>2, <1>14 DEF Take, Move, Doing, Does, At
  <2>4. AfterBuild(P, step', p) => p \in built'
    BY <1>7, <1>9, <2>1 DEF Does
  <2>5. StagedBy(P, step', p) => staged'[p] = "new"
    BY <1>7, <1>9, <2>1, <2>3 DEF Does
  <2>6. ASSUME FilledBy(P, step', p)
        PROVE  prefix'[p] = "new"
    <3>1. CASE FilledBy(P, step, p) /\ ~Does(P, step, {"remove", "take", "move", "build"}, p)
      BY <1>7, <2>1, <2>2, <3>1 DEF Does, At
    <3>2. CASE Fills(P, step, p)
      <4>1. p \in At /\ StagedBy(P, step, p)
        BY <2>1, <3>2 DEF Fills, Does, At
      <4> QED
        BY <1>7, <2>1, <2>2, <4>1
    <3> QED
      BY <1>9, <2>1, <2>6, <3>1, <3>2
  <2> QED
    BY <2>4, <2>5, <2>6
<1> QED
  BY <1>4, <1>5, <1>6, <1>8, <1>10, <1>11, <1>12, <1>13, <1>14 DEF InstallNext, InstallStep

LEMMA FlowAlways ==
    ASSUME \A pkg \in Package : WellPlanned(Plan[pkg])
    PROVE  InstallSpec => []FlowInv
<1>1. InstallInit => FlowInv
  BY DEF InstallInit, FlowInv
<1>2. TypeInv /\ FlowInv /\ [InstallNext]_vars => FlowInv'
  BY FlowKept
<1> QED
  BY <1>1, <1>2, TypesAlways, PTL DEF InstallSpec

(* If every script that copies over what is installed has a step for each  *)
(* place (as the scripts here have: PlansAreWellPlanned of MCInstall), a   *)
(* run that leaves no build failed installs the package in the version it  *)
(* built, whatever the runs before it left in the tree, on the way and in  *)
(* the prefix.                                                             *)
THEOREM GoodRunInstalls ==
    ASSUME \A pkg \in Package : WellPlanned(Plan[pkg])
    PROVE  InstallSpec => []FlawlessRunInstallsAll
<1>1. TypeInv /\ FlowInv => FlawlessRunInstallsAll
  <2> SUFFICES ASSUME TypeInv, FlowInv, Ended, failed = {}, Overwrites, NEW p \in P.places
               PROVE  prefix[p] = "new"
    BY DEF FlawlessRunInstallsAll
  <2>1. package \in Package /\ step = Len(P.steps) + 1 /\ step > 0 /\ p \in Place
    BY PlanTyped DEF TypeInv, InstallTypeOK, Ended, P
  <2>2. WellPlanned(P) /\ Overwriting(P)
    BY <2>1 DEF P, Overwrites
  <2>3. FilledBy(P, step, p)
    BY <2>1, <2>2 DEF WellPlanned
  <2> QED
    BY <2>1, <2>3 DEF FlowInv
<1> QED
  BY <1>1, FlowAlways, TypesAlways, PTL

-----------------------------------------------------------------------------
Mixed == \E p, q \in P.places : prefix[p] = "new" /\ prefix[q] = "old"
StageMixed == \E p, q \in P.places : staged[p] = "new" /\ staged[q] = "old"
NothingStaged == \A p \in Place : staged[p] = "absent"

(* Nothing has torn the versions apart, and this run has copied nothing,   *)
(* or (Calm) nothing it could have built.                                  *)
Uncopied == ~torn /\ (step > 0 => ~Copying)
Calm == ~torn /\ (step > 0 => ~Copying \/ ~fresh)

(* As long as no build of a run has succeeded, all have failed.            *)
FailedUntilFresh ==
    step > 0 /\ ~fresh => \A p \in Place : AfterBuild(P, step, p) => p \in failed

(* What is on the way was put there by a step of the plan, and the step    *)
(* that takes it off is still to come.                                     *)
StagedIsTaken ==
    \A p \in Place : staged[p] # "absent" =>
        /\ \E s \in DOMAIN P.steps : Does(P, s, {"stage"}, p)
        /\ step > 0 =>
             \E k \in step .. Len(P.steps) : Does(P, k, {"move", "unstage"}, p)

(* A script that empties every place has put back, where it has emptied    *)
(* one, only what it copies from.                                          *)
Emptying(p) == step > 0 /\ \E r \in 1 .. step - 1 : Does(P, r, {"remove"}, p)
RefilledFromStage ==
    ~fresh => \A p \in Place : Emptying(p) => prefix[p] \in {"absent", staged[p]}
RefilledFromTree ==
    \A p \in Place : Emptying(p) => prefix[p] \in {"absent", "new"}

(* The three ways in which a script keeps versions apart.                  *)
Passing == Overwrites /\ P.linked /\ PassesOn(P)
Refilling == Overwrites /\ Clears(P)

MixInv ==
    HeadersAreBuilt =>
        /\ ~Overwrites => \A p \in Place : prefix[p] # "new"
        /\ Passing => StagedIsTaken /\ (Calm => ~Mixed /\ NothingStaged)
        /\ Refilling => (Uncopied => ~Mixed)
        /\ Refilling /\ P.linked => RefilledFromStage /\ (Calm => ~StageMixed)
        /\ Refilling /\ ~P.linked => RefilledFromTree

LEMMA PlanStays ==
    [InstallNext]_vars =>
        /\ P' = P /\ HeadersAreBuilt' = HeadersAreBuilt /\ Overwrites' = Overwrites
        /\ Passing' = Passing /\ Refilling' = Refilling
<1>1. [InstallNext]_vars => package' = package
  BY DEF InstallNext, InstallStep, Upgrade, Start, IfExists, Remove, Build, BuildFails,
         Put, PutSource, Stage, Take, Move, Unstage, Lose, End, Interrupt, vars
<1> QED
  BY <1>1 DEF P, HeadersAreBuilt, Never, Overwrites, Passing, Refilling

(* A step of the script goes forward, and neither what it has copied nor   *)
(* what it has built is undone.                                            *)
LEMMA Forward ==
    ASSUME TypeInv, [InstallNext]_vars, step' > 0, step > 0
    PROVE  /\ UNCHANGED vars \/ (Running /\ InstallStep /\ step < step')
           /\ torn' = torn
           /\ Copying => Copying'
           /\ fresh => fresh'
           /\ Calm' => Calm
           /\ Uncopied' => Uncopied
<1>1. /\ step \in Nat /\ Len(P.steps) \in Nat /\ DOMAIN P.steps = 1 .. Len(P.steps)
      /\ \A i \in DOMAIN P.steps : P.steps[i].skip \in Nat
  BY PlanTyped DEF TypeInv, InstallTypeOK
<1>2. ~Upgrade /\ ~Start /\ ~End /\ ~Interrupt
  BY DEF Upgrade, Start, End, Interrupt
<1>3. UNCHANGED vars \/ (Running /\ InstallStep)
  BY <1>2 DEF InstallNext, InstallStep, IfExists, Remove, Build, BuildFails, Put, PutSource,
              Stage, Take, Move, Unstage, Lose, Doing
<1>4. Running /\ InstallStep => step < step'
  <2>1. Running => P.steps[step].skip \in Nat
    BY <1>1 DEF Running
  <2>2. Running /\ InstallStep => step' \in {step + 1, step + P.steps[step].skip + 1}
    BY <1>2 DEF InstallStep, IfExists, Remove, Build, BuildFails, Put, PutSource,
                Stage, Take, Move, Unstage, Lose, Advance
  <2> QED
    BY <1>1, <2>1, <2>2
<1>5. torn' = torn /\ (fresh => fresh')
  BY <1>2 DEF InstallNext, InstallStep, IfExists, Remove, Build, BuildFails, Put, PutSource,
              Stage, Take, Move, Unstage, Lose, vars
<1>6. Copying => Copying'
  <2>1. CASE UNCHANGED vars
    BY <2>1 DEF vars, Copying, P
  <2>2. CASE step < step'
    <3> SUFFICES ASSUME NEW i \in DOMAIN P.steps, i < step,
                        P.steps[i].op \in {"put", "source", "stage", "take", "move"}
                 PROVE  Copying'
      BY DEF Copying
    <3>1. step' \in Nat
      BY TypesKept, PlanTyped DEF TypeInv, InstallTypeOK
    <3>2. i < step'
      BY <1>1, <2>2, <3>1
    <3> QED
      BY <3>2, PlanStays DEF Copying
  <2> QED
    BY <1>3, <1>4, <2>1, <2>2
<1> QED
  BY <1>3, <1>4, <1>5, <1>6 DEF Calm, Uncopied

LEMMA FailedUntilFreshKept ==
    ASSUME \A pkg \in Package : WellPlanned(Plan[pkg]), Overwrites,
           TypeInv, FailedUntilFresh, [InstallNext]_vars
    PROVE  FailedUntilFresh'
<1> SUFFICES ASSUME step' > 0, ~fresh', NEW p \in Place, AfterBuild(P, step', p)
             PROVE  p \in failed'
  BY PlanStays DEF FailedUntilFresh
<1>1. step \in Nat /\ package \in Package
  BY PlanTyped DEF TypeInv, InstallTypeOK
<1>2. CASE Upgrade \/ End \/ Interrupt \/ Build
  BY <1>2 DEF Upgrade, End, Interrupt, Build
<1>3. CASE Start
  BY <1>3 DEF Start, AfterBuild
<1>4. CASE UNCHANGED vars
  BY <1>4 DEF vars, FailedUntilFresh
<1>5. ASSUME Running, ~fresh, AfterBuild(P, step, p) PROVE p \in failed
  <2>1. step > 0
    BY <1>5, StepTyped
  <2> QED
    BY <1>5, <2>1 DEF FailedUntilFresh
<1>6. ASSUME Running, Advance
      PROVE  AfterBuild(P, step, p) \/ Does(P, step, {"build"}, p)
  <2>1. step \in Nat \ {0}
    BY <1>6, StepTyped
  <2> QED
    BY <1>6, <2>1, OneStep DEF Advance
<1>7. CASE BuildFails
  BY <1>5, <1>6, <1>7 DEF BuildFails, Doing, Does, At
<1>8. CASE Remove \/ Put \/ PutSource \/ Stage \/ Take \/ Move \/ Unstage \/ Lose
  <2>1. Running /\ Advance /\ P.steps[step].op # "build" /\ fresh' = fresh /\ failed' = failed
    BY <1>8 DEF Remove, Put, PutSource, Stage, Take, Move, Unstage, Lose, Doing
  <2> QED
    BY <1>5, <1>6, <2>1 DEF Does
<1>9. CASE IfExists
  <2>1. Running /\ P.steps[step].op = "ifExists" /\ fresh' = fresh /\ failed' = failed
    BY <1>9 DEF IfExists, Doing
  <2>2. /\ step \in Nat /\ step \in DOMAIN P.steps /\ P.steps[step].skip \in Nat
        /\ step' \in {step + 1, step + P.steps[step].skip + 1}
    BY <1>1, <1>9, <2>1, PlanTyped DEF IfExists, Running
  <2>3. \A k \in step + 1 .. step + P.steps[step].skip : P.steps[k].op \in Quiet
    BY <1>1, <2>1, <2>2 DEF WellPlanned, Overwrites, P, Quiet
  <2>4. step' \in Nat /\ step < step'
    BY <2>2
  <2>5. \A k \in step .. step' - 1 : P.steps[k].op \in Quiet
    <3>1. P.steps[step].op \in Quiet
      BY <2>1 DEF Quiet
    <3>2. CASE step' = step + 1
      BY <2>2, <3>1, <3>2
    <3>3. CASE step' = step + P.steps[step].skip + 1
      BY <2>2, <2>3, <3>1, <3>3
    <3> QED
      BY <2>2, <3>2, <3>3
  <2>6. AfterBuild(P, step', p) => AfterBuild(P, step, p)
    BY ONLY <2>2, <2>4, <2>5, QuietSteps
  <2> QED
    BY <1>5, <2>1, <2>6
<1> QED
  BY <1>2, <1>3, <1>4, <1>7, <1>8, <1>9 DEF InstallNext, InstallStep

LEMMA StagedIsTakenKept ==
    ASSUME TypeInv, PassesOn(P), StagedIsTaken, [InstallNext]_vars
    PROVE  StagedIsTaken'
<1>1. /\ staged \in [Place -> Versions] /\ step \in Nat /\ Len(P.steps) \in Nat
      /\ DOMAIN P.steps = 1 .. Len(P.steps)
      /\ \A i \in DOMAIN P.steps : P.steps[i].at \subseteq P.places
  BY PlanTyped DEF TypeInv, InstallTypeOK
<1>2. /\ Never(P, {"stage"}) \/ Never(P, {"ifExists"})
      /\ \A s \in DOMAIN P.steps : \A p \in P.places :
           Does(P, s, {"stage"}, p) =>
               \E k \in s + 1 .. Len(P.steps) : Does(P, k, {"move", "unstage"}, p)
  BY DEF PassesOn
<1> SUFFICES ASSUME NEW p \in Place, staged'[p] # "absent"
             PROVE  /\ \E s \in DOMAIN P.steps : Does(P, s, {"stage"}, p)
                    /\ step' > 0 =>
                         \E k \in step' .. Len(P.steps) : Does(P, k, {"move", "unstage"}, p)
  BY PlanStays DEF StagedIsTaken
<1>3. ASSUME staged[p] # "absent"
      PROVE  \E s \in DOMAIN P.steps : Does(P, s, {"stage"}, p)
  BY <1>3 DEF StagedIsTaken
<1>4. CASE Upgrade
  <2>1. staged[p] # "absent" /\ step' = 0
    BY <1>1, <1>4 DEF Upgrade, Aged, Nowhere
  <2> QED
    BY <1>3, <2>1
<1>5. CASE Start
  <2>1. staged[p] # "absent" /\ step' = 1
    BY <1>5 DEF Start
  <2>2. PICK s \in DOMAIN P.steps : Does(P, s, {"stage"}, p)
    BY <1>3, <2>1
  <2>3. PICK k \in s + 1 .. Len(P.steps) : Does(P, k, {"move", "unstage"}, p)
    BY <1>1, <1>2, <2>2 DEF Does
  <2>4. k \in 1 .. Len(P.steps)
    BY <1>1, <2>3
  <2> QED
    BY <2>1, <2>2, <2>3, <2>4
<1>6. CASE IfExists
  <2>1. staged[p] # "absent"
    BY <1>6 DEF IfExists
  <2>2. ~Never(P, {"stage"})
    BY <1>3, <2>1 DEF Never, Does
  <2>3. ~Never(P, {"ifExists"})
    BY <1>6 DEF IfExists, Doing, Running, Never
  <2> QED
    BY <1>2, <2>2, <2>3
<1>7. CASE End \/ Interrupt
  BY <1>3, <1>7 DEF End, Interrupt
<1>8. ASSUME step > 0, Advance, staged[p] # "absent", ~Does(P, step, {"move", "unstage"}, p)
      PROVE  /\ \E s \in DOMAIN P.steps : Does(P, s, {"stage"}, p)
             /\ \E k \in step' .. Len(P.steps) : Does(P, k, {"move", "unstage"}, p)
  <2>1. PICK k \in step .. Len(P.steps) : Does(P, k, {"move", "unstage"}, p)
    BY <1>8 DEF StagedIsTaken
  <2>2. k # step
    BY <1>8, <2>1
  <2>3. k \in step' .. Len(P.steps)
    BY <1>1, <1>8, <2>2 DEF Advance
  <2> QED
    BY <1>3, <1>8, <2>1, <2>3
<1>9. CASE Remove \/ Build \/ BuildFails \/ Put \/ PutSource \/ Take \/ Lose
  <2>1. /\ Running /\ Advance /\ staged' = staged
        /\ P.steps[step].op \notin {"move", "unstage"}
    BY <1>9 DEF Remove, Build, BuildFails, Put, PutSource, Take, Lose, Doing
  <2>2. step > 0
    BY <1>1, <2>1 DEF Running
  <2> QED
    BY <1>8, <2>1, <2>2 DEF Does
<1>10. CASE Move \/ Unstage
  <2>1. /\ Running /\ Advance /\ p \notin At /\ staged[p] # "absent"
    BY <1>1, <1>10 DEF Move, Unstage, Doing
  <2>2. step > 0
    BY <1>1, <2>1 DEF Running
  <2> QED
    BY <1>8, <2>1, <2>2 DEF Does, At
<1>11. CASE Stage
  <2>1. step \in DOMAIN P.steps /\ step > 0 /\ Advance /\ P.steps[step].op = "stage"
    BY <1>1, <1>11 DEF Stage, Doing, Running
  <2>2. CASE p \in At
    <3>1. Does(P, step, {"stage"}, p) /\ p \in P.places
      BY <1>1, <2>1, <2>2 DEF Does, At
    <3>2. step' = step + 1
      BY <2>1 DEF Advance
    <3> QED
      BY <1>2, <2>1, <3>1, <3>2
  <2>3. CASE p \notin At
    <3>1. staged[p] # "absent"
      BY <1>11, <2>3 DEF Stage, Copied
    <3> QED
      BY <1>8, <2>1, <3>1 DEF Does
  <2> QED
    BY <2>2, <2>3
<1>12. CASE UNCHANGED vars
  BY <1>12 DEF vars, StagedIsTaken
<1> QED
  BY <1>4, <1>5, <1>6, <1>7, <1>9, <1>10, <1>11, <1>12 DEF InstallNext, InstallStep

(* While every build has failed, an install target copies nothing.         *)
LEMMA NothingToCopy ==
    ASSUME TypeInv, HeadersAreBuilt, P.linked, CopiesWhatItBuilds(P), FailedUntilFresh,
           ~fresh, Running
    PROVE  P.steps[step].op \in {"put", "stage"} => \A p \in At : ~Available(p)
<1> SUFFICES ASSUME P.steps[step].op \in {"put", "stage"}, NEW p \in At
             PROVE  ~Available(p)
  OBVIOUS
<1>1. step \in DOMAIN P.steps /\ step > 0 /\ p \in P.places /\ p \in Place
  BY StepTyped, PlanTyped DEF Running, TypeInv, InstallTypeOK
<1>2. Does(P, step, {"put", "stage"}, p)
  BY DEF Does, At
<1>3. AfterBuild(P, step, p)
  BY <1>1, <1>2 DEF CopiesWhatItBuilds
<1> QED
  BY <1>1, <1>3 DEF FailedUntilFresh, Available

LEMMA NothingNewKept ==
    ASSUME HeadersAreBuilt, Coherent(P), ~Overwrites,
           prefix \in [Place -> Versions], \A p \in Place : prefix[p] # "new",
           [InstallNext]_vars
    PROVE  \A p \in Place : prefix'[p] # "new"
<1>1. Never(P, {"source", "put", "take", "move"})
  BY DEF HeadersAreBuilt, Coherent, Overwrites, Never
<1>2. CASE Upgrade
  BY <1>2 DEF Upgrade, Aged
<1>3. CASE Remove
  BY <1>3 DEF Remove
<1>4. CASE Put \/ PutSource \/ Take \/ Move
  <2>1. /\ step \in DOMAIN P.steps
        /\ P.steps[step].op \in {"source", "put", "take", "move"}
    BY <1>4 DEF Put, PutSource, Take, Move, Doing, Running
  <2> QED
    BY <1>1, <2>1 DEF Never
<1>5. CASE /\ UNCHANGED prefix
  BY <1>5
<1> QED
  BY <1>2, <1>3, <1>4, <1>5
     DEF InstallNext, InstallStep, Start, IfExists, Build, BuildFails, Stage, Unstage,
         Lose, End, Interrupt, vars

LEMMA StepForward ==
    ASSUME TypeInv, InstallStep, ~End
    PROVE  Running /\ step' > 0 /\ step > 0
<1>1. Running
  BY DEF InstallStep, IfExists, Remove, Build, BuildFails, Put, PutSource,
         Stage, Take, Move, Unstage, Lose, Doing
<1>2. step \in 1 .. Len(P.steps) /\ P.steps[step].skip \in Nat
  BY <1>1, StepTyped, PlanTyped DEF Running, TypeInv, InstallTypeOK
<1>3. step' \in {step + 1, step + P.steps[step].skip + 1}
  BY DEF InstallStep, IfExists, Remove, Build, BuildFails, Put, PutSource,
         Stage, Take, Move, Unstage, Lose, Advance
<1> QED
  BY <1>1, <1>2, <1>3

LEMMA PassingKept ==
    ASSUME TypeInv, HeadersAreBuilt, Coherent(P), Passing, FlawlessRunInstallsAll,
           FailedUntilFresh, StagedIsTaken, Calm => ~Mixed /\ NothingStaged,
           [InstallNext]_vars, Calm'
    PROVE  ~Mixed' /\ NothingStaged'
<1>1. /\ P' = P /\ P.places \in SUBSET Place
      /\ prefix \in [Place -> Versions] /\ staged \in [Place -> Versions]
      /\ step \in Nat /\ step <= Len(P.steps) + 1 /\ Len(P.steps) \in Nat
  <2>1. /\ package \in Package /\ step \in 0 .. Len(P.steps) + 1
        /\ prefix \in [Place -> Versions] /\ staged \in [Place -> Versions]
    BY DEF TypeInv, InstallTypeOK, P
  <2>2. P.places \in SUBSET Place /\ Len(P.steps) \in Nat
    BY <2>1, PlanTyped
  <2>3. step \in Nat /\ step <= Len(P.steps) + 1
    BY <2>1, <2>2
  <2> QED
    BY <2>1, <2>2, <2>3, PlanStays
<1>2. CopiesWhatItBuilds(P) /\ P.linked /\ Overwrites
  BY DEF Coherent, HeadersAreBuilt, Passing, Overwrites
<1>3. ASSUME Calm,
             \A p \in Place : /\ prefix'[p] \in {prefix[p], "absent"}
                              /\ staged'[p] \in {staged[p], "absent"}
      PROVE  ~Mixed' /\ NothingStaged'
  BY <1>1, <1>3 DEF Mixed, NothingStaged
<1>4. CASE Upgrade
  <2>1. Calm
    BY <1>4 DEF Upgrade, run, Calm, Copying
  <2>2. \A p \in Place : prefix'[p] # "new" /\ staged'[p] = "absent"
    BY <1>1, <1>4, <2>1 DEF Upgrade, NothingStaged, Aged, Nowhere
  <2> QED
    BY <1>1, <2>2 DEF Mixed, NothingStaged
<1>5. CASE Start
  <2>1. Calm
    BY <1>5 DEF Start, Calm
  <2> QED
    BY <1>3, <1>5, <2>1 DEF Start
<1>6. CASE Interrupt
  <2>1. Calm
    BY <1>6 DEF Interrupt, Calm
  <2> QED
    BY <1>3, <1>6, <2>1 DEF Interrupt
<1>7. CASE End
  <2>1. step = Len(P.steps) + 1 /\ step > 0 /\ Ended
    BY <1>1, <1>7 DEF End, Ended
  <2>2. NothingStaged
    BY <1>1, <2>1 DEF StagedIsTaken, NothingStaged
  <2>3. ~Mixed
    <3>1. CASE failed = {}
      BY <1>2, <2>1, <3>1 DEF FlawlessRunInstallsAll, Mixed
    <3>2. CASE failed # {}
      <4>1. ~torn /\ ~fresh
        BY <1>7, <3>2 DEF End, Calm
      <4> QED
        BY <4>1 DEF Calm
    <3> QED
      BY <3>1, <3>2
  <2> QED
    BY <1>1, <1>7, <2>2, <2>3 DEF End, Mixed, NothingStaged
<1>8. CASE InstallStep /\ ~End
  <2>1. Running /\ step' > 0 /\ step > 0
    BY <1>8, StepForward
  <2>2. Calm /\ ~Mixed /\ NothingStaged
    BY <2>1, Forward
  <2>3. \A p \in Place : /\ prefix'[p] \in {prefix[p], "absent"}
                         /\ staged'[p] \in {staged[p], "absent"}
    <3>1. CASE Put \/ Stage
      <4>1. P.steps[step].op \in {"put", "stage"} /\ fresh' = fresh /\ step' = step + 1
        BY <3>1 DEF Put, Stage, Doing, Advance
      <4>2. Copying'
        BY <1>1, <2>1, <4>1 DEF Copying, Running
      <4>3. ~fresh
        BY <2>1, <4>1, <4>2 DEF Calm
      <4>4. \A p \in At : ~Available(p)
        BY <1>2, <2>1, <4>1, <4>3, NothingToCopy
      <4> QED
        BY <1>1, <3>1, <4>4 DEF Put, Stage, Copied
    <3>2. CASE PutSource
      BY <3>2 DEF PutSource, Doing, Running, HeadersAreBuilt, Never
    <3>3. CASE Take \/ Move
      BY <2>2, <3>3 DEF Take, Move, FromStage, NothingStaged
    <3>4. CASE IfExists \/ Remove \/ Build \/ BuildFails \/ Unstage \/ Lose
      BY <3>4 DEF IfExists, Remove, Build, BuildFails, Unstage, Lose
    <3> QED
      BY <1>8, <3>1, <3>2, <3>3, <3>4 DEF InstallStep
  <2> QED
    BY <1>3, <2>2, <2>3
<1>9. CASE UNCHANGED vars
  <2>1. Calm
    BY <1>1, <1>9 DEF vars, Calm, Copying
  <2> QED
    BY <1>3, <1>9, <2>1 DEF vars
<1> QED
  BY <1>4, <1>5, <1>6, <1>7, <1>8, <1>9 DEF InstallNext

(* Where a removal is behind, it was behind before the step or is the step.*)
LEMMA EmptyingBefore ==
    ASSUME TypeInv, [InstallNext]_vars, Running, Advance, NEW p \in Place, Emptying(p)'
    PROVE  Emptying(p) \/ Does(P, step, {"remove"}, p)
<1>1. step \in Nat /\ step > 0 /\ P' = P
  BY StepTyped, PlanTyped, PlanStays DEF TypeInv, InstallTypeOK
<1>2. \E r \in 1 .. (step + 1) - 1 : Does(P, r, {"remove"}, p)
  BY <1>1 DEF Emptying, Advance, Does
<1>3. PICK r \in 1 .. (step + 1) - 1 : Does(P, r, {"remove"}, p)
  BY <1>2
<1>4. r = step \/ r \in 1 .. step - 1
  BY <1>1
<1> QED
  BY <1>1, <1>3, <1>4 DEF Emptying

LEMMA RefilledFromStageKept ==
    ASSUME TypeInv, HeadersAreBuilt, Clears(P), P.linked, CopiesWhatItBuilds(P),
           FailedUntilFresh, RefilledFromStage, [InstallNext]_vars
    PROVE  RefilledFromStage'
<1> SUFFICES ASSUME ~fresh', NEW p \in Place, Emptying(p)'
             PROVE  prefix'[p] \in {"absent", staged'[p]}
  BY DEF RefilledFromStage, Emptying
<1>1. /\ P' = P /\ prefix \in [Place -> Versions] /\ staged \in [Place -> Versions]
  BY PlanStays DEF TypeInv, InstallTypeOK
<1>2. Never(P, {"source", "ifExists", "move", "unstage"}) /\ Never(P, {"put"})
  BY DEF Clears, HeadersAreBuilt, Never
<1>3. CASE Upgrade \/ Start \/ End \/ Interrupt
  BY <1>3 DEF Upgrade, Start, End, Interrupt, Emptying
<1>4. CASE IfExists \/ Put \/ PutSource \/ Move \/ Unstage
  BY <1>2, <1>4 DEF IfExists, Put, PutSource, Move, Unstage, Doing, Running, Never
<1>5. CASE UNCHANGED vars
  BY <1>1, <1>5 DEF vars, RefilledFromStage, Emptying
<1>6. ASSUME Running, Advance, fresh' = fresh
      PROVE  prefix[p] \in {"absent", staged[p]} \/ Does(P, step, {"remove"}, p)
  BY <1>6, EmptyingBefore DEF RefilledFromStage
<1>7. CASE Remove
  <2>1. Running /\ Advance /\ fresh' = fresh /\ staged' = staged
    BY <1>7 DEF Remove, Doing
  <2>2. Does(P, step, {"remove"}, p) => p \in At
    BY DEF Does, At
  <2> QED
    BY <1>6, <1>7, <2>1, <2>2 DEF Remove
<1>8. CASE Build
  BY <1>8 DEF Build
<1>9. CASE Take
  <2>1. Running /\ Advance /\ fresh' = fresh /\ staged' = staged /\ P.steps[step].op = "take"
    BY <1>9 DEF Take, Doing
  <2>2. ~Does(P, step, {"remove"}, p)
    BY <2>1 DEF Does
  <2> QED
    BY <1>6, <1>9, <2>1, <2>2 DEF Take, FromStage
<1>10. CASE Stage
  <2>1. /\ Running /\ Advance /\ fresh' = fresh /\ prefix' = prefix
        /\ P.steps[step].op = "stage"
    BY <1>10 DEF Stage, Doing
  <2>2. \A q \in At : ~Available(q)
    BY <2>1, NothingToCopy
  <2>3. staged'[p] = staged[p]
    BY <1>1, <1>10, <2>2 DEF Stage, Copied
  <2>4. ~Does(P, step, {"remove"}, p)
    BY <2>1 DEF Does
  <2> QED
    BY <1>6, <2>1, <2>3, <2>4
<1>11. CASE BuildFails \/ Lose
  <2>1. /\ Running /\ Advance /\ fresh' = fresh /\ UNCHANGED <<prefix, staged>>
        /\ P.steps[step].op \in {"build", "lose"}
    BY <1>11 DEF BuildFails, Lose, Doing
  <2>2. ~Does(P, step, {"remove"}, p)
    BY <2>1 DEF Does
  <2> QED
    BY <1>6, <2>1, <2>2
<1> QED
  BY <1>3, <1>4, <1>5, <1>7, <1>8, <1>9, <1>10, <1>11 DEF InstallNext, InstallStep

LEMMA RefilledFromTreeKept ==
    ASSUME TypeInv, HeadersAreBuilt, Clears(P), ~P.linked, RefilledFromTree,
           [InstallNext]_vars
    PROVE  RefilledFromTree'
<1> SUFFICES ASSUME NEW p \in Place, Emptying(p)'
             PROVE  prefix'[p] \in {"absent", "new"}
  BY DEF RefilledFromTree, Emptying
<1>1. P' = P /\ prefix \in [Place -> Versions]
  BY PlanStays DEF TypeInv, InstallTypeOK
<1>2. Never(P, {"source", "ifExists", "move", "unstage"}) /\ Never(P, {"stage", "take"})
  BY DEF Clears, HeadersAreBuilt, Never
<1>3. CASE Upgrade \/ Start \/ End \/ Interrupt
  BY <1>3 DEF Upgrade, Start, End, Interrupt, Emptying
<1>4. CASE IfExists \/ Stage \/ Take \/ PutSource \/ Move \/ Unstage
  BY <1>2, <1>4 DEF IfExists, Stage, Take, PutSource, Move, Unstage, Doing, Running, Never
<1>5. CASE UNCHANGED vars
  BY <1>1, <1>5 DEF vars, RefilledFromTree, Emptying
<1>6. ASSUME Running, Advance
      PROVE  prefix[p] \in {"absent", "new"} \/ Does(P, step, {"remove"}, p)
  BY <1>6, EmptyingBefore DEF RefilledFromTree
<1>7. CASE Remove
  <2>1. Running /\ Advance
    BY <1>7 DEF Remove, Doing
  <2>2. Does(P, step, {"remove"}, p) => p \in At
    BY DEF Does, At
  <2> QED
    BY <1>6, <1>7, <2>1, <2>2 DEF Remove
<1>8. CASE Put
  <2>1. Running /\ Advance /\ P.steps[step].op = "put"
    BY <1>8 DEF Put, Doing
  <2>2. ~Does(P, step, {"remove"}, p)
    BY <2>1 DEF Does
  <2> QED
    BY <1>1, <1>6, <1>8, <2>1, <2>2 DEF Put, Copied
<1>9. CASE Build \/ BuildFails \/ Lose
  <2>1. /\ Running /\ Advance /\ prefix' = prefix
        /\ P.steps[step].op \in {"build", "lose"}
    BY <1>9 DEF Build, BuildFails, Lose, Doing
  <2>2. ~Does(P, step, {"remove"}, p)
    BY <2>1 DEF Does
  <2> QED
    BY <1>6, <2>1, <2>2
<1> QED
  BY <1>3, <1>4, <1>5, <1>7, <1>8, <1>9 DEF InstallNext, InstallStep

(* A script that empties every place of the prefix has, by its end, only   *)
(* what it copies from there.                                              *)
LEMMA EmptiedAtEnd ==
    ASSUME TypeInv, Clears(P), Ended, NEW p \in P.places
    PROVE  Emptying(p)
<1>1. PICK r \in DOMAIN P.steps : Does(P, r, {"remove"}, p)
  BY DEF Clears
<1>2. step > 0 /\ r \in 1 .. step - 1
  BY PlanTyped DEF TypeInv, InstallTypeOK, Ended
<1> QED
  BY <1>1, <1>2 DEF Emptying

LEMMA StageUnmixedKept ==
    ASSUME \A pkg \in Package : WellPlanned(Plan[pkg]),
           TypeInv, FlowInv, HeadersAreBuilt, Overwrites, Clears(P), P.linked,
           CopiesWhatItBuilds(P), FailedUntilFresh, Calm => ~StageMixed,
           [InstallNext]_vars, Calm'
    PROVE  ~StageMixed'
<1>1. /\ P' = P /\ P.places \in SUBSET Place /\ staged \in [Place -> Versions]
      /\ step \in 0 .. Len(P.steps) + 1 /\ Len(P.steps) \in Nat
  BY PlanTyped, PlanStays DEF TypeInv, InstallTypeOK, P
<1>2. Never(P, {"move", "unstage"})
  BY DEF Clears, Never
<1>3. ASSUME Calm, staged' = staged PROVE ~StageMixed'
  BY <1>1, <1>3 DEF StageMixed
<1>4. CASE Upgrade
  BY <1>1, <1>4 DEF Upgrade, StageMixed, Aged, Nowhere
<1>5. CASE Start \/ Interrupt
  <2>1. Calm
    <3>1. CASE Start
      BY <3>1 DEF Start, Calm
    <3>2. CASE Interrupt
      BY <3>2 DEF Interrupt, Calm
    <3> QED
      BY <1>5, <3>1, <3>2
  <2>2. staged' = staged
    BY <1>5 DEF Start, Interrupt
  <2> QED
    BY <1>3, <2>1, <2>2
<1>6. CASE UNCHANGED vars
  <2>1. Calm
    BY <1>1, <1>6 DEF vars, Calm, Copying
  <2> QED
    BY <1>3, <1>6, <2>1 DEF vars
<1>7. CASE End
  <2>1. CASE failed = {}
    <3>1. step = Len(P.steps) + 1 /\ step > 0
      BY <1>1, <1>7 DEF End, Ended
    <3>2. \A p \in P.places : StagedBy(P, step, p)
      BY <3>1 DEF Clears
    <3>3. \A p \in P.places : staged[p] = "new"
      BY <1>1, <2>1, <3>1, <3>2 DEF FlowInv
    <3> QED
      BY <1>1, <1>7, <3>3 DEF End, StageMixed
  <2>2. CASE failed # {}
    <3>1. ~torn /\ ~fresh
      BY <1>7, <2>2 DEF End, Calm
    <3> QED
      BY <1>3, <1>7, <3>1 DEF Calm, End
  <2> QED
    BY <2>1, <2>2
<1>8. CASE InstallStep /\ ~End
  <2>1. Running /\ step' > 0 /\ step > 0
    BY <1>8, StepForward
  <2>2. Calm
    BY <2>1, Forward
  <2>3. CASE Stage
    <3>1. P.steps[step].op = "stage" /\ fresh' = fresh
      BY <2>3 DEF Stage, Doing
    <3>2. Copying'
      <4>1. step' = step + 1
        BY <2>3 DEF Stage, Advance
      <4> QED
        BY <1>1, <2>1, <3>1, <4>1 DEF Copying, Running
    <3>3. ~fresh
      BY <2>1, <3>1, <3>2 DEF Calm
    <3>4. \A p \in At : ~Available(p)
      BY <2>1, <3>1, <3>3, NothingToCopy
    <3>5. \A p \in Place : staged'[p] = staged[p]
      BY <1>1, <2>3, <3>4 DEF Stage, Copied
    <3> QED
      BY <1>1, <2>2, <3>5 DEF StageMixed
  <2>4. CASE Move \/ Unstage
    BY <1>2, <2>4 DEF Move, Unstage, Doing, Running, Never
  <2>5. CASE staged' = staged
    BY <1>3, <2>2, <2>5
  <2> QED
    BY <1>8, <2>3, <2>4, <2>5
       DEF InstallStep, IfExists, Remove, Build, BuildFails, Put, PutSource, Take, Lose
<1> QED
  BY <1>4, <1>5, <1>6, <1>7, <1>8 DEF InstallNext

LEMMA RefillingUnmixedKept ==
    ASSUME TypeInv, HeadersAreBuilt, Overwrites, Clears(P), FlawlessRunInstallsAll,
           Uncopied => ~Mixed,
           P.linked => RefilledFromStage /\ (Calm => ~StageMixed),
           ~P.linked => RefilledFromTree,
           [InstallNext]_vars, Uncopied'
    PROVE  ~Mixed'
<1>1. /\ P' = P /\ P.places \in SUBSET Place
      /\ prefix \in [Place -> Versions] /\ staged \in [Place -> Versions]
      /\ step \in 0 .. Len(P.steps) + 1 /\ Len(P.steps) \in Nat
  BY PlanTyped, PlanStays DEF TypeInv, InstallTypeOK, P
<1>2. ASSUME Uncopied, \A p \in Place : prefix'[p] \in {prefix[p], "absent"}
      PROVE  ~Mixed'
  BY <1>1, <1>2 DEF Mixed
<1>3. CASE Upgrade
  BY <1>1, <1>3 DEF Upgrade, Mixed, Aged
<1>4. CASE Start \/ Interrupt
  <2>1. Uncopied
    <3>1. CASE Start
      BY <3>1 DEF Start, Uncopied
    <3>2. CASE Interrupt
      BY <3>2 DEF Interrupt, Uncopied
    <3> QED
      BY <1>4, <3>1, <3>2
  <2>2. prefix' = prefix
    BY <1>4 DEF Start, Interrupt
  <2> QED
    BY <1>2, <2>1, <2>2
<1>5. CASE UNCHANGED vars
  <2>1. Uncopied
    BY <1>1, <1>5 DEF vars, Uncopied, Copying
  <2> QED
    BY <1>2, <1>5, <2>1 DEF vars
<1>6. CASE End
  <2>1. Ended /\ prefix' = prefix
    BY <1>6 DEF End
  <2>2. \A p \in P.places : Emptying(p)
    BY <2>1, EmptiedAtEnd
  <2>3. CASE failed = {}
    BY <1>1, <2>1, <2>3 DEF FlawlessRunInstallsAll, Mixed
  <2>4. CASE ~P.linked
    BY <1>1, <2>1, <2>2, <2>4 DEF RefilledFromTree, Mixed
  <2>5. CASE P.linked /\ failed # {}
    <3>1. ~torn /\ ~fresh
      BY <1>6, <2>5 DEF End, Uncopied
    <3>2. ~StageMixed /\ \A p \in P.places : prefix[p] \in {"absent", staged[p]}
      BY <1>1, <2>2, <2>5, <3>1 DEF Calm, RefilledFromStage
    <3> QED
      BY <1>1, <2>1, <3>2 DEF Mixed, StageMixed
  <2> QED
    BY <2>3, <2>4, <2>5
<1>7. CASE InstallStep /\ ~End
  <2>1. Running /\ step' > 0 /\ step > 0
    BY <1>7, StepForward
  <2>2. Uncopied
    BY <2>1, Forward
  <2>3. CASE Put \/ PutSource \/ Take \/ Move
    <3>1. /\ P.steps[step].op \in {"put", "source", "take", "move"}
          /\ step' = step + 1
      BY <2>3 DEF Put, PutSource, Take, Move, Doing, Advance
    <3>2. Copying'
      BY <1>1, <2>1, <3>1 DEF Copying, Running
    <3> QED
      BY <2>1, <3>2 DEF Uncopied
  <2>4. CASE Remove
    BY <1>2, <2>2, <2>4 DEF Remove
  <2>5. CASE prefix' = prefix
    BY <1>2, <2>2, <2>5
  <2> QED
    BY <1>7, <2>3, <2>4, <2>5
       DEF InstallStep, IfExists, Build, BuildFails, Stage, Unstage, Lose
<1> QED
  BY <1>3, <1>4, <1>5, <1>6, <1>7 DEF InstallNext

(* If the plans are also Coherent (as those of the scripts here are:       *)
(* PlansAreWellPlanned of MCInstall), headers, libraries and DLLs of two   *)
(* versions are never mixed in the prefix between runs, whatever fails,    *)
(* but after a run that was cut off while it copied or that built one part *)
(* and not another.                                                        *)
THEOREM VersionsStayTogether ==
    ASSUME \A pkg \in Package : WellPlanned(Plan[pkg]) /\ Coherent(Plan[pkg])
    PROVE  InstallSpec => []HeadersMatchLibraries
<1> DEFINE Unfresh == Overwrites => FailedUntilFresh
<1>1. InstallInit => Unfresh /\ MixInv
  <2> SUFFICES ASSUME InstallInit PROVE Unfresh /\ MixInv
    OBVIOUS
  <2>1. step = 0 /\ \A p \in Place : prefix[p] # "new" /\ staged[p] = "absent"
    BY DEF InstallInit, Nowhere
  <2>2. P.places \subseteq Place
    BY PlanTyped DEF InstallInit
  <2>3. Unfresh
    BY <2>1 DEF FailedUntilFresh
  <2>4. ~Mixed /\ ~StageMixed /\ NothingStaged
    BY <2>1, <2>2 DEF Mixed, StageMixed, NothingStaged
  <2>5. StagedIsTaken /\ RefilledFromStage /\ RefilledFromTree
    BY <2>1 DEF StagedIsTaken, RefilledFromStage, RefilledFromTree, Emptying
  <2> QED
    BY <2>1, <2>3, <2>4, <2>5 DEF MixInv
<1>2. TypeInv /\ Unfresh /\ [InstallNext]_vars => Unfresh'
  BY FailedUntilFreshKept, PlanStays
<1>3. /\ TypeInv /\ FlowInv /\ FlawlessRunInstallsAll /\ Unfresh /\ MixInv
      /\ [InstallNext]_vars
      => MixInv'
  <2> SUFFICES ASSUME TypeInv, FlowInv, FlawlessRunInstallsAll, Unfresh, MixInv,
                      [InstallNext]_vars, HeadersAreBuilt
               PROVE  /\ (~Overwrites => \A p \in Place : prefix[p] # "new")'
                      /\ Passing => StagedIsTaken' /\ (Calm' => ~Mixed' /\ NothingStaged')
                      /\ Refilling => (Uncopied' => ~Mixed')
                      /\ Refilling /\ P.linked =>
                           RefilledFromStage' /\ (Calm' => ~StageMixed')
                      /\ Refilling /\ ~P.linked => RefilledFromTree'
    BY PlanStays DEF MixInv
  <2>1. WellPlanned(P) /\ Coherent(P) /\ prefix \in [Place -> Versions]
    BY DEF TypeInv, InstallTypeOK, P
  <2>2. Overwrites => FailedUntilFresh /\ (P.linked => CopiesWhatItBuilds(P))
    BY <2>1 DEF Coherent, HeadersAreBuilt, Overwrites
  <2>3. (~Overwrites => \A p \in Place : prefix[p] # "new")'
    BY <2>1, NothingNewKept, PlanStays DEF MixInv
  <2>4. ASSUME Passing PROVE StagedIsTaken' /\ (Calm' => ~Mixed' /\ NothingStaged')
    <3>1. StagedIsTaken /\ (Calm => ~Mixed /\ NothingStaged)
      BY <2>4 DEF MixInv
    <3>2. PassesOn(P) /\ FailedUntilFresh
      BY <2>2, <2>4 DEF Passing
    <3> QED
      BY <2>1, <2>4, <3>1, <3>2, StagedIsTakenKept, PassingKept
  <2>5. ASSUME Refilling
        PROVE  /\ Uncopied' => ~Mixed'
               /\ P.linked => RefilledFromStage' /\ (Calm' => ~StageMixed')
               /\ ~P.linked => RefilledFromTree'
    <3>1. /\ Uncopied => ~Mixed
          /\ P.linked => RefilledFromStage /\ (Calm => ~StageMixed)
          /\ ~P.linked => RefilledFromTree
      BY <2>5 DEF MixInv
    <3>2. Overwrites /\ Clears(P) /\ FailedUntilFresh
          /\ (P.linked => CopiesWhatItBuilds(P))
      BY <2>2, <2>5 DEF Refilling
    <3>3. Uncopied' => ~Mixed'
      BY <3>1, <3>2, RefillingUnmixedKept
    <3>4. P.linked => RefilledFromStage'
      BY <3>1, <3>2, RefilledFromStageKept
    <3>5. P.linked => (Calm' => ~StageMixed')
      BY <3>1, <3>2, StageUnmixedKept
    <3>6. ~P.linked => RefilledFromTree'
      BY <3>1, <3>2, RefilledFromTreeKept
    <3> QED
      BY <3>3, <3>4, <3>5, <3>6
  <2> QED
    BY <2>3, <2>4, <2>5
<1>4. TypeInv /\ MixInv => HeadersMatchLibraries
  <2> SUFFICES ASSUME TypeInv, MixInv, step = 0, ~torn, HeadersAreBuilt PROVE ~Mixed
    BY DEF HeadersMatchLibraries, Mixed
  <2>1. package \in Package /\ P.places \subseteq Place
    BY PlanTyped DEF TypeInv, InstallTypeOK
  <2>2. Coherent(P)
    BY <2>1 DEF P
  <2>3. Uncopied /\ Calm
    BY DEF Uncopied, Calm
  <2>4. ~Overwrites \/ Passing \/ Refilling
    BY <2>2 DEF Coherent, HeadersAreBuilt, Overwrites, Passing, Refilling
  <2> QED
    BY <2>1, <2>3, <2>4 DEF MixInv, Mixed
<1>5. InstallSpec => []FlowInv /\ []FlawlessRunInstallsAll
  <2>1. InstallSpec => []FlawlessRunInstallsAll
    BY GoodRunInstalls
  <2>2. InstallSpec => []FlowInv
    BY FlowAlways
  <2> QED
    BY <2>1, <2>2
<1> QED
  BY <1>1, <1>2, <1>3, <1>4, <1>5, TypesAlways, PTL DEF InstallSpec
=============================================================================
