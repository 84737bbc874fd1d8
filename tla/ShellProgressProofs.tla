------------------------ MODULE ShellProgressProofs ------------------------
(***************************************************************************)
(* Theorems about what scripts have done, for any scripts that the second  *)
(* layer of their outline fits: what is installed has been built, after    *)
(* all-build.bat no package is linked to an earlier library, and only the  *)
(* operator is waited for.                                                 *)
(***************************************************************************)
EXTENDS ShellProgress, ShellProofs

USE DEF shell, package, links

-----------------------------------------------------------------------------
(* How the stack of calls changes.                                         *)
LEMMA GoingOn ==
    ASSUME StackTyped, Advancing \/ Setlocal
    PROVE  /\ AtLine /\ Len(frames') = Depth
           /\ Depth = Len(frames) /\ Depth \in Nat \ {0} /\ Top = frames[Depth]
           /\ \A i \in 1..Depth :
                  /\ frames'[i].script = frames[i].script
                  /\ frames'[i].from = frames[i].from
                  /\ i # Depth => frames'[i] = frames[i]
           /\ frames'[Depth].at = Top.at + 1
<1>1. AtLine
  BY AdvancingStep DEF Setlocal, Doing
<1>2. Depth = Len(frames) /\ Depth \in Nat \ {0} /\ Top = frames[Depth] /\ Top \in Frames
  BY <1>1, LineIsCommand DEF Depth, Top
<1>3. CASE Advancing
  <2>1. frames' = Advanced
    BY <1>3, AdvancingStep
  <2>2. Len(frames') = Depth /\ frames'[Depth] = [Top EXCEPT !.at = @ + 1]
        /\ (\A i \in 1..Depth : i # Depth => frames'[i] = frames[i])
    BY <1>1, <2>1, AdvancedFrames
  <2>3. frames'[Depth].script = Top.script /\ frames'[Depth].at = Top.at + 1
        /\ frames'[Depth].from = Top.from
    BY <1>2, <2>2 DEF Frames
  <2> QED
    BY <1>1, <1>2, <2>2, <2>3
<1>4. CASE Setlocal
  <2>1. Len(frames') = Depth
        /\ frames'[Depth] = [script |-> Top.script, at |-> Top.at + 1, saved |-> TRUE,
                             from |-> Top.from, home |-> Now]
        /\ (\A i \in 1..Depth : i # Depth => frames'[i] = frames[i])
    BY <1>1, <1>4, ScopedFrames
  <2>2. frames'[Depth].script = Top.script /\ frames'[Depth].at = Top.at + 1
        /\ frames'[Depth].from = Top.from
    BY <2>1
  <2> QED
    BY <1>1, <1>2, <2>1, <2>2
<1> QED
  BY <1>3, <1>4

LEMMA Calls ==
    ASSUME StackTyped, Call
    PROVE  /\ AtLine /\ CallsOf(Line) /\ Found /\ Len(frames') = Depth + 1
           /\ Depth = Len(frames) /\ Depth \in Nat \ {0} /\ Top = frames[Depth]
           /\ \A i \in 1..Depth :
                  /\ frames'[i].script = frames[i].script
                  /\ frames'[i].from = frames[i].from
                  /\ i # Depth => frames'[i] = frames[i]
           /\ frames'[Depth].at = Top.at + 1
           /\ frames'[Depth + 1].script = Line.arg /\ frames'[Depth + 1].at = 1
           /\ frames'[Depth + 1].from.here = here /\ frames'[Depth + 1].from.env = env
<1>1. AtLine /\ CallsOf(Line) /\ Found
  BY DEF Call, Calling, Doing, Found, CallsOf
<1>2. Depth = Len(frames) /\ Depth \in Nat \ {0} /\ Top = frames[Depth] /\ Top \in Frames
  BY <1>1, LineIsCommand DEF Depth, Top
<1>3. Advanced \in Seq(Frames) /\ Len(Advanced) = Depth
      /\ Advanced[Depth] = [Top EXCEPT !.at = @ + 1]
      /\ (\A i \in 1..Depth : i # Depth => Advanced[i] = frames[i])
  BY <1>1, AdvancedFrames
<1>4. frames' = Append(Advanced, NewFrame(Line.arg))
  BY DEF Call
<1>5. Len(frames') = Depth + 1 /\ frames'[Depth + 1] = NewFrame(Line.arg)
      /\ (\A i \in 1..Depth : frames'[i] = Advanced[i])
  BY <1>2, <1>3, <1>4
<1>6. /\ frames'[Depth].script = Top.script /\ frames'[Depth].at = Top.at + 1
      /\ frames'[Depth].from = Top.from
  BY <1>2, <1>3, <1>5 DEF Frames
<1>7. /\ frames'[Depth + 1].script = Line.arg /\ frames'[Depth + 1].at = 1
      /\ frames'[Depth + 1].from.here = here /\ frames'[Depth + 1].from.env = env
  BY <1>5 DEF NewFrame, Now
<1> QED
  BY <1>1, <1>2, <1>3, <1>5, <1>6, <1>7

LEMMA Returns ==
    ASSUME StackTyped, Return \/ Exit
    PROVE  /\ Depth = Len(frames) /\ Depth \in Nat \ {0} /\ Top = frames[Depth]
           /\ Top \in Frames
           /\ Len(frames') = Depth - 1
           /\ \A i \in 1..(Depth - 1) : frames'[i] = frames[i]
           /\ Depth = 1 => frames' = <<>>
<1>1. Depth = Len(frames) /\ Depth \in Nat \ {0} /\ Top = frames[Depth] /\ Top \in Frames
  BY DEF Return, Exit, Doing, AtLine, Depth, Top, StackTyped
<1>2. frames' = SubSeq(frames, 1, Depth - 1)
  BY DEF Return, Exit, Pop
<1> QED
  BY <1>1, <1>2 DEF StackTyped

(* The caller gets back what it had, or goes on with what common-setup has *)
(* set.                                                                    *)
LEMMA GivenBack ==
    ASSUME WellScoped, StackTyped, CallersKept, OutlineHolds, Return \/ Exit
    PROVE  IF Top.script = Setup THEN here' = here /\ env' = env
           ELSE here' = Top.from.here /\ env' = Top.from.env
<1>1. CASE Top.script # Setup
  BY <1>1, PopGivesBack
<1>2. CASE Top.script = Setup
  <2>1. frames # <<>>
    BY Returns
  <2>2. ~Top.saved
    BY <1>2, <2>1 DEF OutlineHolds, TopSure
  <2>3. Pop
    BY DEF Return, Exit
  <2> QED
    BY <1>2, <2>2, <2>3 DEF Pop, Restored, Now
<1> QED
  BY <1>1, <1>2

-----------------------------------------------------------------------------
(* What a line changes of the variables, and where it leaves the shell.    *)
LEMMA EnvironmentStep ==
    ASSUME Advancing
    PROVE  \/ Line.op = "set" /\ env' = env \union Line.vars
           \/ Line.op = "clear" /\ env' = env \ Line.vars
           \/ env' = env
<1> USE DEF Doing
<1>1. CASE Set \/ Clear \/ CallMissing \/ GoOn
  BY <1>1 DEF Set, Clear, CallMissing, GoOn
<1>2. CASE Move
  BY <1>2 DEF Move, Cd, CdD, CdHere, Enter
<1>3. CASE Prepare
  BY <1>3 DEF Prepare, Mkdir, MkdirHere, Unpack, UnpackHere, Generate
<1>4. CASE Work
  BY <1>4 DEF Work, Tool, Msbuild, MsbuildFails, Install, InstallFails, Pause
<1> QED
  BY <1>1, <1>2, <1>3, <1>4 DEF Advancing

LEMMA HereStep ==
    ASSUME Advancing, KnownPlace(here)
    PROVE  KnownPlace(here)'
<1>1. CASE Set \/ Clear \/ CallMissing \/ GoOn
  BY <1>1 DEF Set, Clear, CallMissing, GoOn, KnownPlace
<1>2. CASE Move
  <2>1. CASE Cd \/ CdD
    BY <2>1 DEF Cd, CdD, Reaches, KnownPlace, Consoles
  <2>2. CASE CdHere
    <3>1. disk' = disk /\ here' \in {here} \union disk
      <4>1. CASE here = Line.dir /\ Line.arg \in disk
        BY <2>2, <4>1 DEF CdHere
      <4>2. CASE here # Line.dir /\ "stray" \in disk
        BY <2>2, <4>2 DEF CdHere
      <4>3. CASE ~(here = Line.dir /\ Line.arg \in disk) /\ ~(here # Line.dir /\ "stray" \in disk)
        BY <2>2, <4>3 DEF CdHere
      <4> QED
        BY <4>1, <4>2, <4>3
    <3> QED
      BY <3>1 DEF KnownPlace
  <2>3. CASE Enter
    BY <2>3 DEF Enter, KnownPlace
  <2> QED
    BY <1>2, <2>1, <2>2, <2>3 DEF Move
<1>3. CASE Prepare
  <2>1. here' = here
    BY <1>3 DEF Prepare, Mkdir, MkdirHere, Unpack, UnpackHere, Generate
  <2> QED
    BY <2>1, DiskGrows DEF KnownPlace
<1>4. CASE Work
  BY <1>4 DEF Work, Tool, Msbuild, MsbuildFails, Install, InstallFails, Pause, KnownPlace
<1> QED
  BY <1>1, <1>2, <1>3, <1>4 DEF Advancing

-----------------------------------------------------------------------------
(* The second layer, at the line the shell has come to.                    *)
LEMMA Paced ==
    ASSUME ProgressFollows, NEW s \in Script
    PROVE  /\ Progress[s] \in Seq(Deeds) /\ Program[s] \in Seq(Commands)
           /\ Len(Progress[s]) = Len(Program[s]) + 1 /\ Progress[s][1] = Nothing
           /\ \A i \in 1..(Len(Program[s]) + 1) : Progress[s][i] \in Deeds
           /\ \A i \in 1..Len(Program[s]) :
                  WellPaced(s, i) /\ Progress[s][i + 1] = DoneNext(s, i)
<1>1. Progress[s] \in Seq(Deeds) /\ Program[s] \in Seq(Commands)
      /\ Len(Progress[s]) = Len(Program[s]) + 1 /\ Progress[s][1] = Nothing
  BY ShellAssumption DEF ProgressFollows
<1>2. DOMAIN Program[s] = 1..Len(Program[s])
  BY <1>1
<1>3. \A i \in 1..Len(Program[s]) : WellPaced(s, i) /\ Progress[s][i + 1] = DoneNext(s, i)
  BY <1>2 DEF ProgressFollows
<1>4. \A i \in 1..(Len(Program[s]) + 1) : Progress[s][i] \in Deeds
  BY <1>1
<1> QED
  BY <1>1, <1>3, <1>4

LEMMA LinePaced ==
    ASSUME OutlineFollows, ProgressFollows, StackTyped, OutlineHolds, AtLine,
           NEW b, NEW n, NEW s,
           s = Top.script, b = Progress[s][Top.at], n = Progress[s][Top.at + 1]
    PROVE  /\ b \in Deeds
           /\ Line.op = "install" => Line.arg \in Brings[s]
           /\ Line.op \in Configurations => Line.dir # "scripts"
           /\ Line.op = "pause" => Line.vars = {Marker} /\ s # Master
           /\ Line.op \in {"set", "clear"} => s = Master \/ Marker \notin Line.vars
           /\ GivesUp(Line) => AllDone(s).fresh \subseteq b.fresh \union UsesOf(Line.arg)
           /\ CallsOf(Line) =>
                  /\ Brings[Line.arg] \subseteq Brings[s]
                  /\ Missed(s, Line) => NeverFound(s, Line)
                  /\ s = Master => Marker \in env /\ here = "scripts"
                  /\ s # Master => NeverGivesUp(Line.arg) /\ ~b.waited
           /\ ~CallsOf(Line) => n = DoneAfter(b, Line)
           /\ CallsOf(Line) /\ Missed(s, Line) => n = b
           /\ CallsOf(Line) /\ ~Missed(s, Line) =>
                  n = DoneByCall(s = Master, b, Makes[Line.arg], Brings[Line.arg],
                                 AllDone(Line.arg))
<1> DEFINE i == Top.at
<1>1. /\ s \in Script /\ i \in 1..Len(Program[s]) /\ Line = Program[s][i]
      /\ Holds(Outline[s][i], env, here, disk, console)
  BY LineSure
<1>2. /\ WellPaced(s, i) /\ Progress[s][i + 1] = DoneNext(s, i)
      /\ \A j \in 1..(Len(Program[s]) + 1) : Progress[s][j] \in Deeds
      /\ Len(Program[s]) \in Nat
  BY <1>1, Paced
<1>3. i \in 1..(Len(Program[s]) + 1)
  BY <1>1, <1>2
<1>4. b = Progress[s][i] /\ n = Progress[s][i + 1]
  OBVIOUS
<1> HIDE DEF i
<1>5. b \in Deeds
  BY <1>2, <1>3, <1>4
<1>6. Marker \in Outline[s][i].vars => Marker \in env
  BY <1>1 DEF Holds
<1>7. <<"scripts", "scripts">> \in Outline[s][i].place => here = "scripts"
  BY <1>1 DEF Holds, Trusted
<1>8. n = DoneNext(s, i)
  BY <1>2, <1>4
<1>9. /\ ~CallsOf(Line) => n = DoneAfter(b, Line)
      /\ CallsOf(Line) /\ Missed(s, Line) => n = b
      /\ CallsOf(Line) /\ ~Missed(s, Line) =>
                  n = DoneByCall(s = Master, b, Makes[Line.arg], Brings[Line.arg],
                                 AllDone(Line.arg))
  BY <1>1, <1>4, <1>8 DEF DoneNext
<1> QED
  BY <1>1, <1>2, <1>4, <1>5, <1>6, <1>7, <1>9 DEF WellPaced

(* The marker, the PATH and the place of a run under way.                  *)
LEMMA SurroundingsAtBegin ==
    ASSUME SurroundingsKept, NEW s \in TopLevel, Begin(s)
    PROVE  SurroundingsKept'
<1> DEFINE m == [here |-> here', env |-> env']
           f == [script |-> s, at |-> 1, saved |-> FALSE, from |-> m, home |-> m]
<1>1. frames' = <<f>>
  BY DEF Begin
<1>2. f.script = s /\ f.from.here = here' /\ f.from.env = env'
  OBVIOUS
<1> HIDE DEF f, m
<1>3. Len(frames') = 1 /\ frames'[1] = f /\ frames' # <<>>
  BY <1>1
<1>4. env' = {} /\ here' \in Consoles
  BY DEF Begin, OpenConsole, SurroundingsKept, StartsFresh
<1>5. StartsFresh'
  BY <1>2, <1>3, <1>4 DEF StartsFresh
<1>6. MarkerKept'
  BY <1>2, <1>3, <1>4 DEF MarkerKept
<1>7. BareKept'
  BY <1>3, <1>4 DEF BareKept
<1>8. PlacesKnown'
  BY <1>2, <1>3, <1>4 DEF PlacesKnown, KnownPlace
<1> QED
  BY <1>5, <1>6, <1>7, <1>8 DEF SurroundingsKept

LEMMA NothingIsSurrounded ==
    ASSUME frames = <<>>, env = {}, here \in Consoles
    PROVE  SurroundingsKept
  BY DEF SurroundingsKept, StartsFresh, MarkerKept, BareKept, PlacesKnown, KnownPlace,
         UnderMaster, Depth

LEMMA SurroundingsOnward ==
    ASSUME OutlineFollows, ProgressFollows, StackTyped, OutlineHolds, SurroundingsKept,
           Advancing \/ Setlocal
    PROVE  SurroundingsKept'
<1>1. /\ AtLine /\ Len(frames') = Depth
      /\ Depth = Len(frames) /\ Depth \in Nat \ {0} /\ Top = frames[Depth]
      /\ \A i \in 1..Depth : frames'[i].script = frames[i].script
                             /\ frames'[i].from = frames[i].from
  BY GoingOn
<1>2. Top'.script = Top.script /\ frames' # <<>> /\ frames # <<>>
  BY <1>1 DEF Top, Depth
<1>3. \/ Line.op = "set" /\ env' = env \union Line.vars
      \/ Line.op = "clear" /\ env' = env \ Line.vars
      \/ env' = env
  BY EnvironmentStep DEF Setlocal
<1>4. StartsFresh'
  BY <1>1, <1>2 DEF SurroundingsKept, StartsFresh
<1>5. UnderMaster' = UnderMaster
  BY <1>1 DEF UnderMaster, Depth
<1>6. MarkerKept'
  <2>1. Line.op \in {"set", "clear"} => Top.script = Master \/ Marker \notin Line.vars
    BY <1>1, LinePaced
  <2>2. Top.script = Master => Depth = 1
    BY <1>1 DEF OutlineHolds, StackSure
  <2>3. CASE UnderMaster
    <3> SUFFICES ASSUME NEW i \in 2..Depth
                 PROVE  Marker \in frames'[i].from.env /\ Marker \in env'
      BY <1>1, <1>5, <2>3 DEF MarkerKept
    <3>1. i \in 1..Depth /\ Depth # 1
      BY <1>1
    <3>2. Marker \in frames[i].from.env /\ Marker \in env
      BY <1>1, <2>3 DEF SurroundingsKept, MarkerKept
    <3> QED
      BY <1>1, <1>3, <2>1, <2>2, <3>1, <3>2
  <2>4. CASE ~UnderMaster
    <3>1. Top.script # Master
      BY <1>1, <2>2, <2>4 DEF UnderMaster
    <3>2. Marker \notin env /\ \A i \in 1..Depth : Marker \notin frames[i].from.env
      BY <1>1, <2>4 DEF SurroundingsKept, MarkerKept
    <3>3. Marker \notin env'
      BY <1>3, <2>1, <3>1, <3>2
    <3> QED
      BY <1>1, <1>5, <2>4, <3>2, <3>3 DEF MarkerKept
  <2> QED
    BY <2>3, <2>4
<1>7. BareKept'
  <2>1. ASSUME Bare(Top.script) PROVE env' \subseteq {Marker}
    <3>1. env \subseteq {Marker}
      BY <1>2, <2>1 DEF SurroundingsKept, BareKept
    <3>2. Line.op = "set" => Line.vars \subseteq {Marker}
      <4>1. Top.script \in Script /\ Top.at \in 1..Len(Program[Top.script])
            /\ Line = Program[Top.script][Top.at]
        BY <1>1, LineSure
      <4>2. Top.at \in DOMAIN Program[Top.script]
        BY <4>1, Outlined
      <4> QED
        BY <2>1, <4>1, <4>2 DEF Bare
    <3> QED
      BY <1>3, <3>1, <3>2
  <2>2. ASSUME NEW i \in 1..(Depth - 1), Bare(frames[i].script)
        PROVE  frames'[i + 1].script # Setup /\ frames'[i + 1].from.env \subseteq {Marker}
    <3>1. i + 1 \in 1..Depth
      BY <1>1
    <3>2. frames'[i + 1].script = frames[i + 1].script /\ frames'[i + 1].from = frames[i + 1].from
      BY <1>1, <3>1
    <3> QED
      BY <1>1, <2>2, <3>2 DEF SurroundingsKept, BareKept
  <2>3. \A i \in 1..(Depth - 1) : frames'[i].script = frames[i].script
    BY <1>1
  <2> QED
    BY <1>1, <1>2, <2>1, <2>2, <2>3 DEF BareKept
<1>8. PlacesKnown'
  <2>1. KnownPlace(here)' /\ disk \subseteq disk'
    <3>1. CASE Advancing
      BY <3>1, HereStep, DiskGrows DEF SurroundingsKept, PlacesKnown
    <3>2. CASE Setlocal
      BY <3>2 DEF Setlocal, SurroundingsKept, PlacesKnown, KnownPlace
    <3> QED
      BY <3>1, <3>2
  <2>2. \A i \in 1..Depth : KnownPlace(frames[i].from.here)
    BY <1>1 DEF SurroundingsKept, PlacesKnown
  <2> QED
    BY <1>1, <2>1, <2>2 DEF PlacesKnown, KnownPlace
<1> QED
  BY <1>4, <1>6, <1>7, <1>8 DEF SurroundingsKept

LEMMA SurroundingsOnCall ==
    ASSUME OutlineFollows, ProgressFollows, StackTyped, OutlineHolds, SurroundingsKept, Call
    PROVE  SurroundingsKept'
<1>1. /\ AtLine /\ CallsOf(Line) /\ Len(frames') = Depth + 1
      /\ Depth = Len(frames) /\ Depth \in Nat \ {0} /\ Top = frames[Depth]
      /\ \A i \in 1..Depth : frames'[i].script = frames[i].script
                             /\ frames'[i].from = frames[i].from
      /\ frames'[Depth + 1].script = Line.arg
      /\ frames'[Depth + 1].from.here = here /\ frames'[Depth + 1].from.env = env
  BY Calls
<1>2. UNCHANGED <<here, env, console>>
      /\ (IF Depth = 1 /\ Top.script = Master THEN disk' = {} ELSE disk' = disk)
  BY DEF Call
<1>3. Top.script = Master => Marker \in env /\ here = "scripts"
  BY <1>1, LinePaced
<1>4. Top'.script = Line.arg /\ frames' # <<>> /\ frames # <<>>
  BY <1>1 DEF Top, Depth
<1>5. UnderMaster' = UnderMaster
  BY <1>1 DEF UnderMaster, Depth
<1>6. /\ Top.script \in Script /\ Top.at \in DOMAIN Program[Top.script]
      /\ Line = Program[Top.script][Top.at]
  BY <1>1, LineSure, Outlined
<1>7. StartsFresh'
  BY <1>1, <1>4 DEF SurroundingsKept, StartsFresh
<1>8. MarkerKept'
  <2>1. CASE UnderMaster
    <3>1. Marker \in env
      <4>1. CASE Depth = 1
        BY <1>1, <1>3, <2>1, <4>1 DEF UnderMaster
      <4>2. CASE Depth # 1
        <5>1. 2 \in 2..Len(frames)
          BY <1>1, <4>2
        <5> QED
          BY <2>1, <5>1 DEF SurroundingsKept, MarkerKept
      <4> QED
        BY <4>1, <4>2
    <3>2. ASSUME NEW i \in 2..(Depth + 1) PROVE Marker \in frames'[i].from.env
      <4>1. CASE i = Depth + 1
        BY <1>1, <3>1, <4>1
      <4>2. CASE i # Depth + 1
        <5>1. i \in 1..Depth /\ i \in 2..Len(frames)
          BY <1>1, <4>2
        <5> QED
          BY <1>1, <2>1, <5>1 DEF SurroundingsKept, MarkerKept
      <4> QED
        BY <4>1, <4>2
    <3> QED
      BY <1>1, <1>2, <1>5, <2>1, <3>1, <3>2 DEF MarkerKept
  <2>2. CASE ~UnderMaster
    <3>1. Marker \notin env /\ \A i \in 1..Depth : Marker \notin frames[i].from.env
      BY <1>1, <2>2 DEF SurroundingsKept, MarkerKept
    <3>2. ASSUME NEW i \in 1..(Depth + 1) PROVE Marker \notin frames'[i].from.env
      <4>1. CASE i = Depth + 1
        BY <1>1, <3>1, <4>1
      <4>2. CASE i # Depth + 1
        <5>1. i \in 1..Depth
          BY <1>1, <4>2
        <5> QED
          BY <1>1, <3>1, <5>1
      <4> QED
        BY <4>1, <4>2
    <3> QED
      BY <1>1, <1>2, <1>5, <2>2, <3>1, <3>2 DEF MarkerKept
  <2> QED
    BY <2>1, <2>2
<1>9. BareKept'
  <2>1. ASSUME Bare(Line.arg) PROVE env' \subseteq {Marker}
    <3>1. Top.script = Master
      BY <1>1, <1>6, <2>1 DEF Bare
    <3>2. Bare(Top.script)
      BY <3>1 DEF ProgressFollows
    <3> QED
      BY <1>2, <1>4, <3>2 DEF SurroundingsKept, BareKept
  <2>2. ASSUME NEW i \in 1..Depth, Bare(frames[i].script)
        PROVE  frames'[i + 1].script # Setup /\ frames'[i + 1].from.env \subseteq {Marker}
    <3>1. CASE i = Depth
      <4>1. Line.arg # Setup
        BY <1>1, <1>6, <2>2, <3>1 DEF Bare, CallsOf
      <4>2. env \subseteq {Marker}
        BY <1>1, <1>4, <2>2, <3>1 DEF SurroundingsKept, BareKept
      <4> QED
        BY <1>1, <3>1, <4>1, <4>2
    <3>2. CASE i # Depth
      <4>1. i \in 1..(Len(frames) - 1) /\ i + 1 \in 1..Depth
        BY <1>1, <3>2
      <4>2. frames[i + 1].script # Setup /\ frames[i + 1].from.env \subseteq {Marker}
        BY <2>2, <4>1 DEF SurroundingsKept, BareKept
      <4>3. frames'[i + 1].script = frames[i + 1].script /\ frames'[i + 1].from = frames[i + 1].from
        BY <1>1, <4>1
      <4> QED
        BY <4>2, <4>3
    <3> QED
      BY <3>1, <3>2
  <2>3. Len(frames') - 1 = Depth /\ \A i \in 1..Depth : frames'[i].script = frames[i].script
    BY <1>1
  <2> QED
    BY <1>4, <2>1, <2>2, <2>3 DEF BareKept
<1>10. PlacesKnown'
  <2>1. KnownPlace(here) /\ \A i \in 1..Depth : KnownPlace(frames[i].from.here)
    BY <1>1 DEF SurroundingsKept, PlacesKnown
  <2>2. frames[1].from.here \in Consoles
    BY <1>4 DEF SurroundingsKept, StartsFresh
  <2>3. KnownPlace(here)'
    BY <1>2, <1>3, <2>1 DEF KnownPlace, Consoles
  <2>4. ASSUME NEW i \in 1..(Depth + 1) PROVE KnownPlace(frames[i].from.here)'
    <3>1. CASE i = Depth + 1
      <4>1. frames'[i].from.here = here'
        BY <1>1, <1>2, <3>1
      <4> QED
        BY <2>3, <4>1 DEF KnownPlace
    <3>2. CASE i # Depth + 1
      <4>1. i \in 1..Depth /\ (Depth = 1 => i = 1)
        BY <1>1, <3>2
      <4>2. frames'[i].from.here = frames[i].from.here /\ KnownPlace(frames[i].from.here)
        BY <1>1, <2>1, <4>1
      <4> QED
        BY <1>2, <2>2, <4>1, <4>2 DEF KnownPlace
    <3> QED
      BY <3>1, <3>2
  <2> QED
    BY <1>1, <2>3, <2>4 DEF PlacesKnown
<1> QED
  BY <1>7, <1>8, <1>9, <1>10 DEF SurroundingsKept

LEMMA SurroundingsOnReturn ==
    ASSUME OutlineFollows, WellScoped, StackTyped, CallersKept, OutlineHolds,
           SurroundingsKept, Return \/ Exit
    PROVE  SurroundingsKept'
<1>1. /\ Depth = Len(frames) /\ Depth \in Nat \ {0} /\ Top = frames[Depth]
      /\ Len(frames') = Depth - 1 /\ (\A i \in 1..(Depth - 1) : frames'[i] = frames[i])
      /\ (Depth = 1 => frames' = <<>>)
  BY Returns
<1>2. IF Top.script = Setup THEN here' = here /\ env' = env
      ELSE here' = Top.from.here /\ env' = Top.from.env
  BY GivenBack
<1>3. disk' = disk /\ console' = console
  BY DEF Return, Exit
<1>4. frames # <<>>
  BY <1>1
<1>5. CASE Depth = 1
  <2>1. Top.script \in TopLevel /\ Top.from.env = {} /\ Top.from.here \in Consoles
    BY <1>1, <1>4, <1>5 DEF SurroundingsKept, StartsFresh
  <2>2. Top.script # Setup
    BY <2>1 DEF OutlineFollows
  <2>3. frames' = <<>> /\ env' = {} /\ here' \in Consoles
    BY <1>1, <1>2, <1>5, <2>1, <2>2
  <2> QED
    BY <2>3 DEF SurroundingsKept, StartsFresh, MarkerKept, BareKept, PlacesKnown, KnownPlace,
                UnderMaster, Depth
<1>6. CASE Depth # 1
  <2> DEFINE k == Depth - 1
  <2>1. /\ k \in 1..(Len(frames) - 1) /\ k + 1 = Depth /\ Len(frames') = k
        /\ 1 \in 1..k /\ k \in Nat
    BY <1>1, <1>6
  <2>2. \A i \in 1..k : frames'[i] = frames[i] /\ i \in 1..Depth
    BY <1>1
  <2> HIDE DEF k
  <2>3. frames' # <<>> /\ Top' = frames[k]
    BY <2>1, <2>2 DEF Top, Depth
  <2>4. StartsFresh'
    BY <1>4, <2>1, <2>2, <2>3 DEF SurroundingsKept, StartsFresh
  <2>5. UnderMaster' = UnderMaster
    BY <1>1, <2>1, <2>2 DEF UnderMaster, Depth
  <2>6. MarkerKept'
    <3>1. CASE UnderMaster
      <4>1. \A i \in 2..Depth : Marker \in frames[i].from.env /\ Marker \in env
        BY <1>1, <3>1 DEF SurroundingsKept, MarkerKept
      <4>2. Marker \in env'
        BY <1>1, <1>2, <1>6, <4>1
      <4>3. \A i \in 2..k : i \in 1..k /\ i \in 2..Depth
        BY <2>1
      <4> QED
        BY <2>1, <2>2, <2>5, <3>1, <4>1, <4>2, <4>3 DEF MarkerKept
    <3>2. CASE ~UnderMaster
      <4>1. Marker \notin env /\ \A i \in 1..Depth : Marker \notin frames[i].from.env
        BY <1>1, <3>2 DEF SurroundingsKept, MarkerKept
      <4>2. Marker \notin env'
        BY <1>1, <1>2, <4>1
      <4> QED
        BY <2>1, <2>2, <2>5, <3>2, <4>1, <4>2 DEF MarkerKept
    <3> QED
      BY <3>1, <3>2
  <2>7. BareKept'
    <3>1. ASSUME Bare(frames[k].script) PROVE env' \subseteq {Marker}
      <4>1. frames[k + 1].script # Setup /\ frames[k + 1].from.env \subseteq {Marker}
        BY <2>1, <3>1 DEF SurroundingsKept, BareKept
      <4> QED
        BY <1>1, <1>2, <2>1, <4>1
    <3>2. ASSUME NEW i \in 1..(k - 1), Bare(frames'[i].script)
          PROVE  frames'[i + 1].script # Setup /\ frames'[i + 1].from.env \subseteq {Marker}
      <4>1. i \in 1..k /\ i + 1 \in 1..k /\ i \in 1..(Len(frames) - 1)
        BY <1>1, <2>1
      <4>2. frames'[i] = frames[i] /\ frames'[i + 1] = frames[i + 1]
        BY <2>2, <4>1
      <4> QED
        BY <3>2, <4>1, <4>2 DEF SurroundingsKept, BareKept
    <3> QED
      BY <2>1, <2>3, <3>1, <3>2 DEF BareKept
  <2>8. PlacesKnown'
    <3>1. KnownPlace(here) /\ \A i \in 1..Depth : KnownPlace(frames[i].from.here)
      BY <1>1 DEF SurroundingsKept, PlacesKnown
    <3>2. here' \in {here, frames[Depth].from.here} /\ Depth \in 1..Depth
      BY <1>1, <1>2
    <3>3. KnownPlace(here)'
      BY <1>3, <3>1, <3>2 DEF KnownPlace
    <3>4. \A i \in 1..k : KnownPlace(frames[i].from.here)'
      BY <1>3, <2>2, <3>1 DEF KnownPlace
    <3> QED
      BY <2>1, <3>3, <3>4 DEF PlacesKnown
  <2> QED
    BY <2>4, <2>6, <2>7, <2>8 DEF SurroundingsKept
<1> QED
  BY <1>5, <1>6

LEMMA SurroundingsStay ==
    ASSUME OutlineFollows, ProgressFollows, WellScoped, StackTyped, CallersKept, OutlineHolds,
           SurroundingsKept, [ShellNext]_vars
    PROVE  SurroundingsKept'
<1>1. ASSUME NEW s \in TopLevel, Begin(s) PROVE SurroundingsKept'
  BY <1>1, SurroundingsAtBegin
<1>2. CASE Interrupt
  <2>1. frames' = <<>> /\ env' = {} /\ here' \in Consoles
    BY <1>2 DEF Interrupt, OpenConsole
  <2> QED
    BY <2>1 DEF SurroundingsKept, StartsFresh, MarkerKept, BareKept, PlacesKnown, KnownPlace,
                UnderMaster, Depth
<1>3. CASE UNCHANGED vars
  <2>1. Top' = Top /\ UnderMaster' = UnderMaster
    BY <1>3 DEF vars, Top, Depth, UnderMaster
  <2> QED
    BY <1>3, <2>1 DEF vars, SurroundingsKept, StartsFresh, MarkerKept, BareKept, PlacesKnown,
                      KnownPlace
<1> QED
  BY <1>1, <1>2, <1>3, Steps, SurroundingsOnward, SurroundingsOnCall, SurroundingsOnReturn

-----------------------------------------------------------------------------
(* What a line builds, links, and waits for.                               *)
LEMMA MadeStep ==
    ASSUME Advancing
    PROVE  /\ made \subseteq made'
           /\ Line.op \in Configurations =>
                  disk' = disk /\ (InPlace => \E o \in Outcomes : <<Line.arg, Line.op, o>> \in made')
<1> USE DEF Doing
<1>1. CASE Set \/ Clear \/ CallMissing \/ GoOn
  BY <1>1 DEF Set, Clear, CallMissing, Calling, GoOn, Configurations
<1>2. CASE Move
  BY <1>2 DEF Move, Cd, CdD, CdHere, Enter, Configurations
<1>3. CASE Prepare
  BY <1>3 DEF Prepare, Mkdir, MkdirHere, Unpack, UnpackHere, Generate, Configurations
<1>4. CASE Work
  <2>1. CASE Msbuild
    <3>1. PICK config \in Configurations :
              /\ Line.op = config
              /\ made' = IF InPlace THEN made \union {<<Line.arg, config, "built">>} ELSE made
      BY <2>1 DEF Msbuild
    <3>2. disk' = disk
      BY <2>1 DEF Msbuild
    <3>3. InPlace => <<Line.arg, Line.op, "built">> \in made'
      BY <3>1
    <3>5. ASSUME InPlace PROVE \E o \in Outcomes : <<Line.arg, Line.op, o>> \in made'
      BY <3>3, <3>5 DEF Outcomes
    <3> QED
      BY <3>1, <3>2, <3>5
  <2>3. CASE MsbuildFails
    <3>1. PICK config \in Configurations :
              Line.op = config /\ made' = made \union {<<Line.arg, config, "broken">>}
      BY <2>3 DEF MsbuildFails
    <3>2. disk' = disk
      BY <2>3 DEF MsbuildFails
    <3>3. <<Line.arg, Line.op, "broken">> \in made'
      BY <3>1
    <3>5. \E o \in Outcomes : <<Line.arg, Line.op, o>> \in made'
      BY <3>3 DEF Outcomes
    <3> QED
      BY <3>1, <3>2, <3>5
  <2>2. CASE Tool \/ Install \/ InstallFails \/ Pause
    BY <2>2 DEF Tool, Install, InstallFails, Pause, Configurations
  <2> QED
    BY <1>4, <2>1, <2>2, <2>3 DEF Work
<1> QED
  BY <1>1, <1>2, <1>3, <1>4 DEF Advancing

LEMMA LinkStep ==
    ASSUME Advancing, link[1] # link[2]
    PROVE  /\ link' = link
           /\ linked' = "stale" =>
                  IF Line.op = "install"
                  THEN Line.arg # link[1] /\ (Line.arg = link[2] \/ linked = "stale")
                  ELSE linked = "stale"
<1> USE DEF Doing
<1>1. CASE Set \/ Clear \/ CallMissing \/ GoOn
  BY <1>1 DEF Set, Clear, CallMissing, Calling, GoOn
<1>2. CASE Move
  BY <1>2 DEF Move, Cd, CdD, CdHere, Enter
<1>3. CASE Prepare
  BY <1>3 DEF Prepare, Mkdir, MkdirHere, Unpack, UnpackHere, Generate
<1>4. CASE Work
  <2>1. CASE Msbuild \/ MsbuildFails
    <3>1. Line.op \in Configurations /\ UNCHANGED <<link, linked>>
      BY <2>1 DEF Msbuild, MsbuildFails
    <3> QED
      BY <3>1 DEF Configurations
  <2>2. CASE Tool \/ Pause
    BY <2>2 DEF Tool, Pause
  <2>3. CASE Install
    <3>1. Line.op = "install" /\ link' = link
          /\ linked' = CASE Line.arg = link[1] -> "fresh"
                         [] Line.arg = link[2] -> "stale"
                         [] OTHER -> linked
      BY <2>3 DEF Install
    <3>2. CASE Line.arg = link[1]
      BY <3>1, <3>2
    <3>3. CASE Line.arg = link[2]
      BY <3>1, <3>3
    <3>4. CASE Line.arg # link[1] /\ Line.arg # link[2]
      BY <3>1, <3>4
    <3> QED
      BY <3>2, <3>3, <3>4
  <2>4. CASE InstallFails
    BY <2>4 DEF InstallFails
  <2> QED
    BY <1>4, <2>1, <2>2, <2>3, <2>4 DEF Work
<1> QED
  BY <1>1, <1>2, <1>3, <1>4 DEF Advancing

LEMMA PauseStep ==
    ASSUME Advancing
    PROVE  paused' = IF Line.op = "pause" THEN paused \/ ~Silenced ELSE paused
<1> USE DEF Doing
<1>1. CASE Set \/ Clear \/ CallMissing \/ GoOn
  BY <1>1 DEF Set, Clear, CallMissing, Calling, GoOn
<1>2. CASE Move
  BY <1>2 DEF Move, Cd, CdD, CdHere, Enter
<1>3. CASE Prepare
  BY <1>3 DEF Prepare, Mkdir, MkdirHere, Unpack, UnpackHere, Generate
<1>4. CASE Work
  BY <1>4 DEF Work, Tool, Msbuild, MsbuildFails, Install, InstallFails, Pause, Configurations
<1> QED
  BY <1>1, <1>2, <1>3, <1>4 DEF Advancing

(* What has been built stays built, unless its directory is made anew.     *)
LEMMA StillBuilt ==
    ASSUME NEW x, NEW new, IsBuilt(x), x[1] \notin new,
           disk' \subseteq disk \union new, made \subseteq made', console' = console
    PROVE  IsBuilt(x)'
<1>1. ASSUME NEW p, NEW config, Tried(p, config) PROVE Tried(p, config)'
  BY <1>1 DEF Tried
<1> QED
  BY <1>1 DEF IsBuilt, Trusted

(* A call that may be missed is never found, and any other always.         *)
LEMMA MissedOrFound ==
    ASSUME OutlineFollows, ProgressFollows, CallsSure, StackTyped, OutlineHolds,
           SurroundingsKept, AtLine, CallsOf(Line)
    PROVE  Found <=> ~Missed(Top.script, Line)
<1>1. ASSUME Missed(Top.script, Line) PROVE ~Found
  <2>1. NeverFound(Top.script, Line)
    BY <1>1, LinePaced
  <2>2. frames # <<>>
    BY LineIsCommand DEF Depth
  <2>3. env \subseteq {Marker} /\ Marker # "PATH"
    BY <2>1, <2>2 DEF NeverFound, SurroundingsKept, BareKept, ProgressFollows
  <2> QED
    BY <2>1, <2>3 DEF NeverFound, Found
<1>2. ASSUME ~Found PROVE Missed(Top.script, Line)
  <2>1. Calling
    BY DEF Calling, Doing, CallsOf
  <2>2. CallsAreFound
    BY FoundWhereSure
  <2> QED
    BY <1>2, <2>1, <2>2 DEF CallsAreFound, Missed
<1> QED
  BY <1>1, <1>2

LEMMA PartsAfter ==
    ASSUME NEW b, NEW c
    PROVE  /\ DoneAfter(b, c).built =
                  {x \in b.built : x[1] \notin MadeBy(c)}
                      \union {x \in {<<c.dir, c.arg, c.op>>} : c.op \in Configurations}
           /\ DoneAfter(b, c).fresh =
                  IF c.op = "install"
                  THEN {l \in b.fresh : l[2] # c.arg} \union UsesOf(c.arg) ELSE b.fresh
           /\ DoneAfter(b, c).waited = (b.waited \/ c.op = "pause")
<1>1. DoneAfter(b, c).waited = (b.waited \/ c.op = "pause")
  BY Zenon DEF DoneAfter
<1> QED
  BY <1>1 DEF DoneAfter

(* Going on, the top of the stack has done what the line has.              *)
LEMMA DoneAtNextLine ==
    ASSUME OutlineFollows, ProgressFollows, CallsSure, PlacesSure, StackTyped, OutlineHolds,
           SurroundingsKept, ProgressHolds, Advancing,
           NEW n, n = Progress[Top.script][Top.at + 1]
    PROVE  /\ \A x \in n.built : IsBuilt(x)'
           /\ linked' = "stale" => link' \notin n.fresh
           /\ paused' = (~UnderMaster /\ n.waited)
<1> DEFINE b == Progress[Top.script][Top.at]
           c == Line
<1>1. AtLine /\ Depth = Len(frames) /\ Depth \in Nat \ {0} /\ Top = frames[Depth]
  BY GoingOn
<1>2. /\ \A x \in b.built : IsBuilt(x)
      /\ linked = "stale" => link \notin b.fresh
      /\ paused = (~UnderMaster /\ b.waited)
  <2>1. frames # <<>> /\ Reached(Len(frames)) = b
    BY <1>1 DEF Reached
  <2> QED
    BY <2>1 DEF ProgressHolds, TopHasDone
<1>3. /\ b \in Deeds
      /\ ~CallsOf(c) => n = DoneAfter(b, c)
      /\ CallsOf(c) /\ Missed(Top.script, c) => n = b
      /\ c.op \in Configurations => c.dir # "scripts"
      /\ c.op = "pause" => c.vars = {Marker} /\ Top.script # Master
  BY <1>1, LinePaced
<1>4. disk' \subseteq disk \union MadeBy(c) /\ console' = console /\ made \subseteq made'
  BY DiskGrows, MadeStep
<1> HIDE DEF b
<1>5. CASE CallsOf(c)
  <2>1. c.op \in {"call", "callAt"} /\ MadeBy(c) = {}
    BY <1>5 DEF CallsOf, MadeBy
  <2>2. CallMissing
    <3>1. ~Set /\ ~Clear /\ ~GoOn
      BY <2>1 DEF Set, Clear, GoOn, Doing
    <3>2. ~Move
      BY <2>1 DEF Move, Cd, CdD, CdHere, Enter, Doing
    <3>3. ~Prepare
      BY <2>1 DEF Prepare, Mkdir, MkdirHere, Unpack, UnpackHere, Generate, Doing
    <3>4. ~Work
      BY <2>1 DEF Work, Tool, Msbuild, MsbuildFails, Install, InstallFails, Pause, Doing, Configurations
    <3> QED
      BY <3>1, <3>2, <3>3, <3>4 DEF Advancing
  <2>3. n = b
    BY <1>1, <1>3, <1>5, <2>2, MissedOrFound DEF CallMissing
  <2>4. UNCHANGED <<disk, made, console, paused, link, linked>>
    BY <2>2 DEF CallMissing
  <2>5. ASSUME NEW x \in b.built PROVE IsBuilt(x)'
    BY <1>2, <2>4 DEF IsBuilt, Tried
  <2> QED
    BY <1>2, <2>3, <2>4, <2>5
<1>6. CASE ~CallsOf(c)
  <2>5. n = DoneAfter(b, c)
    BY <1>3, <1>6
  <2>6. /\ DoneAfter(b, c).built =
               {x \in b.built : x[1] \notin MadeBy(c)}
                   \union {x \in {<<c.dir, c.arg, c.op>>} : c.op \in Configurations}
        /\ DoneAfter(b, c).fresh =
               IF c.op = "install"
               THEN {l \in b.fresh : l[2] # c.arg} \union UsesOf(c.arg) ELSE b.fresh
        /\ DoneAfter(b, c).waited = (b.waited \/ c.op = "pause")
    BY PartsAfter
  <2>7. n.fresh = IF c.op = "install"
                  THEN {l \in b.fresh : l[2] # c.arg} \union UsesOf(c.arg) ELSE b.fresh
    BY <2>5, <2>6
  <2>1. n.waited = (b.waited \/ c.op = "pause")
    <3> HIDE DEF c
    <3> QED
      BY <2>5, <2>6, Zenon
  <2>8. n.built = {x \in b.built : x[1] \notin MadeBy(c)}
                      \union {x \in {<<c.dir, c.arg, c.op>>} : c.op \in Configurations}
    BY <2>5, <2>6
  <2>2. ASSUME NEW x \in n.built PROVE IsBuilt(x)'
    <3>1. CASE x \in b.built /\ x[1] \notin MadeBy(c)
      BY <1>2, <1>4, <3>1, StillBuilt
    <3>2. CASE x = <<c.dir, c.arg, c.op>> /\ c.op \in Configurations
      <4>1. x[1] = c.dir /\ x[2] = c.arg /\ x[3] = c.op
        BY <3>2
      <4>2. disk' = disk /\ (InPlace => \E o \in Outcomes : <<c.arg, c.op, o>> \in made')
        BY <3>2, MadeStep
      <4>3. c.dir = "" \/ Trusted(c.dir, disk, console) => InPlace
        <5>1. CASE c.dir = ""
          BY <5>1 DEF InPlace
        <5>2. CASE c.dir # "" /\ Trusted(c.dir, disk, console)
          <6>1. c.dir \in disk /\ console # "elsewhere"
            BY <1>3, <3>2, <5>2 DEF Trusted
          <6>2. c.op \in Placed
            BY <3>2 DEF Placed
          <6>3. ToolsRunWhereMeant
            BY PlacedWhereSure
          <6> QED
            BY <1>1, <6>1, <6>2, <6>3 DEF ToolsRunWhereMeant
        <5> QED
          BY <5>1, <5>2
      <4> QED
        BY <1>4, <4>1, <4>2, <4>3 DEF IsBuilt, Tried, Trusted
    <3> QED
      BY <2>8, <3>1, <3>2
  <2>3. ASSUME linked' = "stale" PROVE link' \notin n.fresh
    <3>1. link' = link
          /\ (IF c.op = "install"
              THEN c.arg # link[1] /\ (c.arg = link[2] \/ linked = "stale")
              ELSE linked = "stale")
      <4>1. link[1] # link[2]
        BY DEF ProgressHolds, ProgressFollows
      <4> QED
        BY <2>3, <4>1, LinkStep
    <3> QED
      BY <1>2, <2>7, <3>1 DEF UsesOf
  <2>4. paused' = (~UnderMaster /\ n.waited)
    <3>1. CASE c.op = "pause"
      <4>1. paused' = (paused \/ ~Silenced) /\ c.vars = {Marker}
        BY <1>3, <3>1, PauseStep
      <4>2. Silenced <=> UnderMaster
        <5>1. Silenced <=> Marker \in env
          BY <4>1 DEF Silenced
        <5>2. CASE UnderMaster
          <6>1. Depth # 1
            BY <1>1, <1>3, <3>1, <5>2 DEF UnderMaster
          <6>2. 2 \in 2..Len(frames)
            BY <1>1, <6>1
          <6> QED
            BY <5>1, <5>2, <6>2 DEF SurroundingsKept, MarkerKept
        <5>3. CASE ~UnderMaster
          BY <5>1, <5>3 DEF SurroundingsKept, MarkerKept
        <5> QED
          BY <5>2, <5>3
      <4>3. n.waited = TRUE
        BY <2>1, <3>1
      <4> QED
        BY <1>2, <4>1, <4>2, <4>3
    <3>2. CASE c.op # "pause"
      <4>1. paused' = paused
        BY <3>2, PauseStep
      <4>2. n.waited = b.waited
        BY <1>3, <2>1, <3>2 DEF Deeds
      <4> QED
        BY <1>2, <4>1, <4>2
    <3> QED
      BY <3>1, <3>2
  <2> QED
    BY <2>2, <2>3, <2>4
<1> QED
  BY <1>5, <1>6

LEMMA DoneAtSetlocal ==
    ASSUME OutlineFollows, ProgressFollows, StackTyped, OutlineHolds, ProgressHolds, Setlocal,
           NEW n, n = Progress[Top.script][Top.at + 1]
    PROVE  /\ \A x \in n.built : IsBuilt(x)'
           /\ linked' = "stale" => link' \notin n.fresh
           /\ paused' = (~UnderMaster /\ n.waited)
<1> DEFINE b == Progress[Top.script][Top.at]
<1>1. AtLine /\ Depth = Len(frames) /\ Depth \in Nat \ {0} /\ Top = frames[Depth]
  BY GoingOn
<1>2. /\ \A x \in b.built : IsBuilt(x)
      /\ linked = "stale" => link \notin b.fresh
      /\ paused = (~UnderMaster /\ b.waited)
  <2>1. frames # <<>> /\ Reached(Len(frames)) = b
    BY <1>1 DEF Reached
  <2> QED
    BY <2>1 DEF ProgressHolds, TopHasDone
<1>3. b \in Deeds /\ (~CallsOf(Line) => n = DoneAfter(b, Line))
  BY <1>1, LinePaced
<1>4. Line.op = "setlocal" /\ UNCHANGED <<disk, made, console, paused, link, linked>>
  BY DEF Setlocal, Doing
<1> HIDE DEF b
<1>5. n = DoneAfter(b, Line)
  BY <1>3, <1>4 DEF CallsOf
<1>6. n.built \subseteq b.built /\ n.fresh = b.fresh /\ n.waited = b.waited
  <2>1. /\ DoneAfter(b, Line).built \subseteq b.built
        /\ DoneAfter(b, Line).fresh = b.fresh
    BY <1>4, PartsAfter DEF Configurations
  <2>2. DoneAfter(b, Line).waited = b.waited
    BY <1>3, <1>4, PartsAfter DEF Deeds
  <2> QED
    BY <1>5, <2>1, <2>2
<1> QED
  BY <1>2, <1>4, <1>6 DEF IsBuilt, Tried

(* What callers have done, the line a script that they have called has     *)
(* come to does not undo.                                                  *)
LEMMA CallersStillHaveDone ==
    ASSUME OutlineFollows, ProgressFollows, StackTyped, OutlineHolds, ProgressHolds,
           Advancing \/ Setlocal
    PROVE  CallersHaveDone'
<1>1. /\ AtLine /\ Len(frames') = Depth
      /\ Depth = Len(frames) /\ Depth \in Nat \ {0} /\ Top = frames[Depth]
      /\ \A i \in 1..Depth : frames'[i].script = frames[i].script
                             /\ (i # Depth => frames'[i] = frames[i])
  BY GoingOn
<1>2. /\ disk' \subseteq disk \union Makes[Top.script] /\ made \subseteq made'
      /\ console' = console
  <2>1. CASE Advancing
    <3>1. MadeBy(Line) \subseteq Makes[Top.script]
      <4>1. Top.script \in Script /\ Top.at \in DOMAIN Program[Top.script]
            /\ Line = Program[Top.script][Top.at]
        BY <1>1, LineSure, Outlined
      <4> QED
        BY <4>1 DEF OutlineFollows, LineFollows
    <3> QED
      BY <2>1, <3>1, DiskGrows, MadeStep
  <2>2. CASE Setlocal
    BY <2>2 DEF Setlocal
  <2> QED
    BY <2>1, <2>2
<1>3. /\ link' = link
      /\ linked' = "stale" => linked = "stale" \/ link[2] \in Brings[Top.script]
  <2>1. CASE Advancing
    <3>1. link[1] # link[2]
      BY DEF ProgressHolds, ProgressFollows
    <3>2. Line.op = "install" => Line.arg \in Brings[Top.script]
      BY <1>1, LinePaced
    <3> QED
      BY <2>1, <3>1, <3>2, LinkStep
  <2>2. CASE Setlocal
    BY <2>2 DEF Setlocal
  <2> QED
    BY <2>1, <2>2
<1>4. ASSUME NEW i \in 1..(Depth - 1), NEW t, t = frames'[i + 1].script
      PROVE  /\ \A x \in Reached(i)'.built \ AllDone(t).built : IsBuilt(x)' /\ x[1] \notin Makes[t]
             /\ linked' = "stale" => link' \notin Reached(i)'.fresh \ AllDone(t).fresh
             /\ \A l \in Reached(i)'.fresh \ AllDone(t).fresh : l[2] \notin Brings[t]
             /\ IF frames'[i].script = Master THEN Reached(i)'.built = {}
                ELSE NeverGivesUp(t) /\ Reached(i)'.waited = AllDone(t).waited
  <2> DEFINE j == i + 1
             r == Reached(i)
  <2>1. i \in 1..(Len(frames) - 1) /\ i \in 1..Depth /\ j \in 1..Depth /\ j \in 1..Len(frames)
        /\ Depth \in 1..Len(frames) /\ j <= Depth /\ i # Depth
    BY <1>1
  <2>2. t = frames[j].script /\ frames'[i] = frames[i]
    BY <1>1, <1>4, <2>1
  <2>3. Makes[Top.script] \subseteq Makes[t]
    <3> HIDE DEF j
    <3> QED
      BY <1>1, <2>1, <2>2 DEF OutlineHolds, StackSure
  <2>4. Brings[Top.script] \subseteq Brings[t]
    <3> HIDE DEF j
    <3> QED
      BY <1>1, <2>1, <2>2 DEF ProgressHolds, BringsAdded
  <2>5. Reached(i)' = r
    BY <2>2 DEF Reached
  <2>6. /\ \A x \in r.built \ AllDone(t).built : IsBuilt(x) /\ x[1] \notin Makes[t]
        /\ linked = "stale" => link \notin r.fresh \ AllDone(t).fresh
        /\ \A l \in r.fresh \ AllDone(t).fresh : l[2] \notin Brings[t]
        /\ IF frames[i].script = Master THEN r.built = {}
           ELSE NeverGivesUp(t) /\ r.waited = AllDone(t).waited
    BY <2>1, <2>2 DEF ProgressHolds, CallersHaveDone
  <2> HIDE DEF r, j
  <2>7. ASSUME NEW x \in r.built \ AllDone(t).built PROVE IsBuilt(x)'
    BY <1>2, <2>3, <2>6, StillBuilt
  <2>8. linked' = "stale" => link' \notin r.fresh \ AllDone(t).fresh
    BY <1>3, <2>4, <2>6
  <2>9. /\ \A x \in r.built \ AllDone(t).built : x[1] \notin Makes[t]
        /\ \A l \in r.fresh \ AllDone(t).fresh : l[2] \notin Brings[t]
        /\ IF frames'[i].script = Master THEN r.built = {}
           ELSE NeverGivesUp(t) /\ r.waited = AllDone(t).waited
    BY <2>2, <2>6
  <2> QED
    BY <2>5, <2>7, <2>8, <2>9
<1> QED
  BY <1>1, <1>4 DEF CallersHaveDone

LEMMA ProgressOnward ==
    ASSUME OutlineFollows, ProgressFollows, CallsSure, PlacesSure, StackTyped, OutlineHolds,
           SurroundingsKept, ProgressHolds, Advancing \/ Setlocal
    PROVE  ProgressHolds'
<1> DEFINE n == Progress[Top.script][Top.at + 1]
<1>1. /\ AtLine /\ Len(frames') = Depth
      /\ Depth = Len(frames) /\ Depth \in Nat \ {0} /\ Top = frames[Depth]
      /\ \A i \in 1..Depth : frames'[i].script = frames[i].script
      /\ frames'[Depth].at = Top.at + 1
  BY GoingOn
<1>2. /\ \A x \in n.built : IsBuilt(x)'
      /\ linked' = "stale" => link' \notin n.fresh
      /\ paused' = (~UnderMaster /\ n.waited)
  BY DoneAtNextLine, DoneAtSetlocal
<1>3. UnderMaster' = UnderMaster
  BY <1>1 DEF UnderMaster, Depth
<1>4. Reached(Len(frames))' = n /\ frames' # <<>>
  BY <1>1 DEF Reached
<1> HIDE DEF n
<1>5. TopHasDone'
  BY <1>2, <1>3, <1>4 DEF TopHasDone
<1>6. BringsAdded'
  BY <1>1 DEF ProgressHolds, BringsAdded
<1>7. link' \in Link
  <2>1. link' = link
    <3>1. CASE Advancing
      <4>1. link[1] # link[2]
        BY DEF ProgressHolds, ProgressFollows
      <4> QED
        BY <3>1, <4>1, LinkStep
    <3> QED
      BY <3>1 DEF Setlocal
  <2> QED
    BY <2>1 DEF ProgressHolds
<1> QED
  BY <1>5, <1>6, <1>7, CallersStillHaveDone DEF ProgressHolds

(* A script that is called has done nothing yet, and its caller as much as *)
(* it will not undo.                                                       *)
LEMMA ProgressOnCall ==
    ASSUME OutlineFollows, ProgressFollows, CallsSure, StackTyped, OutlineHolds,
           SurroundingsKept, ProgressHolds, Call
    PROVE  ProgressHolds'
<1> DEFINE t == Line.arg
           s == Top.script
           b == Progress[Top.script][Top.at]
           n == Progress[Top.script][Top.at + 1]
           k == Depth + 1
<1>1. /\ AtLine /\ CallsOf(Line) /\ Found /\ Len(frames') = k
      /\ Depth = Len(frames) /\ Depth \in Nat \ {0} /\ Top = frames[Depth]
      /\ \A i \in 1..Depth : frames'[i].script = frames[i].script
                             /\ (i # Depth => frames'[i] = frames[i])
      /\ frames'[Depth].at = Top.at + 1
      /\ frames'[k].script = t /\ frames'[k].at = 1
  BY Calls
<1>2. /\ UNCHANGED <<console, paused, link, linked>>
      /\ Depth # 1 \/ s # Master => UNCHANGED <<disk, made>>
  BY DEF Call
<1>3. /\ \A x \in b.built : IsBuilt(x)
      /\ linked = "stale" => link \notin b.fresh
      /\ paused = (~UnderMaster /\ b.waited)
  <2>1. frames # <<>> /\ Reached(Len(frames)) = b
    BY <1>1 DEF Reached
  <2> QED
    BY <2>1 DEF ProgressHolds, TopHasDone
<1>4. ~Missed(s, Line)
  BY <1>1, MissedOrFound
<1>5. /\ b \in Deeds
      /\ Brings[t] \subseteq Brings[s]
      /\ s # Master => NeverGivesUp(t) /\ ~b.waited
      /\ n = DoneByCall(s = Master, b, Makes[t], Brings[t], AllDone(t))
  BY <1>1, <1>4, LinePaced
<1>6. t \in Script
  BY <1>1 DEF CallsOf
<1>7. s = Master => Depth = 1 /\ UnderMaster
  BY <1>1 DEF OutlineHolds, StackSure, UnderMaster
<1>8. UnderMaster' = UnderMaster
  BY <1>1 DEF UnderMaster, Depth
<1>9. k \in Nat /\ k - 1 = Depth /\ k \notin 1..Depth /\ 1..k = (1..Depth) \union {k}
      /\ \A i \in 1..Depth : i <= k
  BY <1>1
<1>10. TopHasDone'
  <2>1. Reached(Len(frames))' = Nothing
    <3>1. Progress[t][1] = Nothing
      BY <1>6, Paced
    <3> QED
      BY <1>1, <3>1 DEF Reached
  <2>2. paused' = FALSE
    BY <1>2, <1>3, <1>5, <1>7
  <2>3. Nothing.built = {} /\ Nothing.fresh = {} /\ Nothing.waited = FALSE
    BY DEF Nothing
  <2> QED
    BY <2>1, <2>2, <2>3 DEF TopHasDone
<1>11. BringsAdded'
  <2>1. ASSUME NEW i \in 1..Depth PROVE Brings[t] \subseteq Brings[frames'[i].script]
    <3>1. i \in 1..Len(frames) /\ Depth \in 1..Len(frames) /\ i <= Depth
      BY <1>1
    <3>2. Brings[s] \subseteq Brings[frames[i].script]
      BY <1>1, <3>1 DEF ProgressHolds, BringsAdded
    <3>3. frames'[i].script = frames[i].script
      BY <1>1
    <3> QED
      BY <1>5, <3>2, <3>3
  <2>2. ASSUME NEW i \in 1..k, NEW j \in 1..k, i <= j
        PROVE  Brings[frames'[j].script] \subseteq Brings[frames'[i].script]
    <3>1. CASE j = k
      BY <1>1, <1>9, <2>1, <3>1
    <3>2. CASE j # k
      <4>1. i \in 1..Depth /\ j \in 1..Depth
        BY <1>1, <2>2, <3>2
      <4> HIDE DEF k
      <4> QED
        BY <1>1, <2>2, <4>1 DEF ProgressHolds, BringsAdded
    <3> QED
      BY <3>1, <3>2
  <2> QED
    BY <1>1, <2>2 DEF BringsAdded
<1>12. CallersHaveDone'
  <2>1. ASSUME NEW i \in 1..Depth, NEW u, u = frames'[i + 1].script
        PROVE  /\ \A x \in Reached(i)'.built \ AllDone(u).built :
                      IsBuilt(x)' /\ x[1] \notin Makes[u]
               /\ linked' = "stale" => link' \notin Reached(i)'.fresh \ AllDone(u).fresh
               /\ \A l \in Reached(i)'.fresh \ AllDone(u).fresh : l[2] \notin Brings[u]
               /\ IF frames'[i].script = Master THEN Reached(i)'.built = {}
                  ELSE NeverGivesUp(u) /\ Reached(i)'.waited = AllDone(u).waited
    <3>1. CASE i = Depth
      <4>1. Reached(i)' = n /\ u = t /\ frames'[i].script = s
        BY <1>1, <2>1, <3>1 DEF Reached
      <4> HIDE DEF n, b, t, s
      <4>2. /\ n.built = IF s = Master THEN {}
                         ELSE {x \in b.built : x[1] \notin Makes[t]} \union AllDone(t).built
            /\ n.fresh = {l \in b.fresh : l[2] \notin Brings[t]} \union AllDone(t).fresh
            /\ n.waited = AllDone(t).waited
        BY <1>5 DEF DoneByCall
      <4>3. ASSUME NEW x \in n.built \ AllDone(t).built PROVE IsBuilt(x)' /\ x[1] \notin Makes[t]
        <5>1. s # Master /\ x \in b.built /\ x[1] \notin Makes[t]
          BY <4>2
        <5> QED
          BY <1>2, <1>3, <5>1 DEF IsBuilt, Tried
      <4>4. linked' = "stale" => link' \notin n.fresh \ AllDone(t).fresh
        BY <1>2, <1>3, <4>2
      <4>5. \A l \in n.fresh \ AllDone(t).fresh : l[2] \notin Brings[t]
        BY <4>2
      <4>6. IF s = Master THEN n.built = {}
            ELSE NeverGivesUp(t) /\ n.waited = AllDone(t).waited
        BY <1>5, <4>2
      <4> QED
        BY <4>1, <4>3, <4>4, <4>5, <4>6
    <3>2. CASE i # Depth
      <4> DEFINE j == i + 1
                 r == Reached(i)
      <4>1. i \in 1..(Len(frames) - 1) /\ j \in 1..Depth /\ Depth # 1
        BY <1>1, <3>2
      <4>2. u = frames[j].script /\ frames'[i] = frames[i]
        BY <1>1, <2>1, <3>2, <4>1
      <4>3. Reached(i)' = r
        BY <4>2 DEF Reached
      <4>4. /\ \A x \in r.built \ AllDone(u).built : IsBuilt(x) /\ x[1] \notin Makes[u]
            /\ linked = "stale" => link \notin r.fresh \ AllDone(u).fresh
            /\ \A l \in r.fresh \ AllDone(u).fresh : l[2] \notin Brings[u]
            /\ IF frames[i].script = Master THEN r.built = {}
               ELSE NeverGivesUp(u) /\ r.waited = AllDone(u).waited
        BY <4>1, <4>2 DEF ProgressHolds, CallersHaveDone
      <4> HIDE DEF r
      <4>5. \A x : IsBuilt(x)' = IsBuilt(x)
        BY <1>2, <4>1 DEF IsBuilt, Tried
      <4> QED
        BY <1>2, <4>2, <4>3, <4>4, <4>5
    <3> QED
      BY <3>1, <3>2
  <2> QED
    BY <1>1, <1>9, <2>1 DEF CallersHaveDone
<1> QED
  BY <1>2, <1>10, <1>11, <1>12 DEF ProgressHolds

(* What a script has done at its end, its caller has done; one that gives  *)
(* up leaves its package as it is linked, and its caller is the master.    *)
LEMMA ProgressOnReturn ==
    ASSUME OutlineFollows, ProgressFollows, StackTyped, OutlineHolds, SurroundingsKept,
           ProgressHolds, Return \/ Exit
    PROVE  ProgressHolds'
<1> DEFINE t == Top.script
           e == AllDone(t)
<1>1. /\ Depth = Len(frames) /\ Depth \in Nat \ {0} /\ Top = frames[Depth]
      /\ Len(frames') = Depth - 1 /\ (\A i \in 1..(Depth - 1) : frames'[i] = frames[i])
      /\ (Depth = 1 => frames' = <<>>) /\ Top \in Frames
  BY Returns
<1>2. UNCHANGED <<disk, made, console, paused, link>> /\ (linked' = "stale" => linked = "stale")
  BY DEF Return, Exit
<1>3. \A x : IsBuilt(x)' = IsBuilt(x)
  BY <1>2 DEF IsBuilt, Tried
<1>4. CASE Depth = 1
  BY <1>1, <1>2, <1>4 DEF ProgressHolds, TopHasDone, BringsAdded, CallersHaveDone
<1>5. CASE Depth # 1
  <2> DEFINE k == Depth - 1
             r == Reached(k)
  <2>1. /\ k \in 1..(Len(frames) - 1) /\ k + 1 = Depth /\ Len(frames') = k /\ k \in Nat \ {0}
        /\ k \in 1..k /\ k \in 1..Depth
        /\ \A i \in 1..k : i \in 1..Depth /\ i \in 1..Len(frames)
    BY <1>1, <1>5
  <2>2. \A i \in 1..k : frames'[i] = frames[i]
    BY <1>1
  <2>3. frames # <<>> /\ frames' # <<>>
    BY <1>1, <2>1
  <2>4. Reached(Len(frames))' = r
    BY <2>1, <2>2 DEF Reached
  <2> HIDE DEF k
  <2>5. /\ \A x \in r.built \ e.built : IsBuilt(x)
        /\ linked = "stale" => link \notin r.fresh \ e.fresh
        /\ IF frames[k].script = Master THEN r.built = {}
           ELSE NeverGivesUp(t) /\ r.waited = e.waited
    BY <1>1, <2>1 DEF ProgressHolds, CallersHaveDone
  <2>6. /\ \A x \in Reached(Depth).built : IsBuilt(x)
        /\ linked = "stale" => link \notin Reached(Depth).fresh
        /\ paused = (~UnderMaster /\ Reached(Depth).waited)
    BY <1>1, <2>3 DEF ProgressHolds, TopHasDone
  <2>7. UnderMaster' = UnderMaster /\ (frames[k].script = Master => UnderMaster)
    <3>1. 1 \in 1..k
      BY <2>1
    <3>2. frames[k].script = Master => k = 1
      BY <2>1 DEF OutlineHolds, StackSure
    <3> QED
      BY <1>1, <2>1, <2>2, <3>1, <3>2 DEF UnderMaster, Depth
  <2> HIDE DEF r
  <2>8. /\ \A x \in r.built : IsBuilt(x)
        /\ linked' = "stale" => link \notin r.fresh
        /\ paused = (~UnderMaster /\ r.waited)
    <3>1. CASE Return
      <4>1. Reached(Depth) = e
        <5>1. Top.at > Len(Body) /\ Top.at <= Len(Body) + 1 /\ Top.at \in Nat
          BY <1>1, <2>1, <3>1 DEF Return, Body, OutlineHolds, StackSure, Frames
        <5>2. Len(Body) \in Nat
          <6>1. Top.script \in Script
            BY <1>1 DEF Frames
          <6> QED
            BY <6>1, Paced DEF Body
        <5>3. Top.at = Len(Body) + 1
          BY <5>1, <5>2
        <5> QED
          BY <1>1, <5>3 DEF Reached, AllDone, Body
      <4> HIDE DEF e
      <4>2. \A x \in r.built : IsBuilt(x)
        BY <2>5, <2>6, <4>1
      <4>3. linked' = "stale" => link \notin r.fresh
        BY <1>2, <2>5, <2>6, <4>1
      <4>4. paused = (~UnderMaster /\ r.waited)
        BY <2>5, <2>6, <2>7, <4>1
      <4> QED
        BY <4>2, <4>3, <4>4
    <3>2. CASE Exit
      <4>1. /\ AtLine /\ GivesUp(Line)
            /\ linked' = IF Line.arg = link[1] THEN "failed" ELSE linked
        BY <3>2 DEF Exit, Doing, GivesUp
      <4>2. frames[k].script = Master
        <5>1. ~NeverGivesUp(t)
          <6>1. Top.script \in Script /\ Top.at \in DOMAIN Program[Top.script]
                /\ Line = Program[Top.script][Top.at]
            BY <4>1, LineSure, Outlined
          <6> QED
            BY <4>1, <6>1 DEF NeverGivesUp
        <5> QED
          BY <2>5, <5>1
      <4>3. e.fresh \subseteq Reached(Depth).fresh \union UsesOf(Line.arg)
        BY <1>1, <4>1, LinePaced DEF Reached
      <4> HIDE DEF e
      <4>4. linked' = "stale" => link \notin r.fresh
        <5> SUFFICES ASSUME linked' = "stale" PROVE link \notin r.fresh
          OBVIOUS
        <5>1. Line.arg # link[1] /\ linked = "stale"
          BY <4>1
        <5>2. link \notin e.fresh
          BY <2>6, <4>3, <5>1 DEF UsesOf
        <5> QED
          BY <2>5, <5>1, <5>2
      <4>5. \A x \in r.built : IsBuilt(x)
        BY <2>5, <4>2
      <4>6. paused = (~UnderMaster /\ r.waited)
        BY <2>6, <2>7, <4>2
      <4> QED
        BY <4>4, <4>5, <4>6
    <3> QED
      BY <3>1, <3>2
  <2>9. TopHasDone'
    BY <1>2, <1>3, <2>4, <2>7, <2>8 DEF TopHasDone
  <2>10. BringsAdded'
    BY <1>1, <2>1, <2>2 DEF ProgressHolds, BringsAdded
  <2>11. CallersHaveDone'
    <3>1. ASSUME NEW i \in 1..(k - 1), NEW u, u = frames'[i + 1].script
          PROVE  /\ \A x \in Reached(i)'.built \ AllDone(u).built :
                        IsBuilt(x)' /\ x[1] \notin Makes[u]
                 /\ linked' = "stale" => link' \notin Reached(i)'.fresh \ AllDone(u).fresh
                 /\ \A l \in Reached(i)'.fresh \ AllDone(u).fresh : l[2] \notin Brings[u]
                 /\ IF frames'[i].script = Master THEN Reached(i)'.built = {}
                    ELSE NeverGivesUp(u) /\ Reached(i)'.waited = AllDone(u).waited
      <4> DEFINE j == i + 1
                 q == Reached(i)
      <4>1. i \in 1..(Len(frames) - 1) /\ i \in 1..k /\ j \in 1..k
        BY <1>1, <2>1
      <4>2. u = frames[j].script /\ frames'[i] = frames[i]
        BY <2>2, <3>1, <4>1
      <4>3. Reached(i)' = q
        BY <4>2 DEF Reached
      <4>4. /\ \A x \in q.built \ AllDone(u).built : IsBuilt(x) /\ x[1] \notin Makes[u]
            /\ linked = "stale" => link \notin q.fresh \ AllDone(u).fresh
            /\ \A l \in q.fresh \ AllDone(u).fresh : l[2] \notin Brings[u]
            /\ IF frames[i].script = Master THEN q.built = {}
               ELSE NeverGivesUp(u) /\ q.waited = AllDone(u).waited
        BY <4>1, <4>2 DEF ProgressHolds, CallersHaveDone
      <4> HIDE DEF q
      <4> QED
        BY <1>2, <1>3, <4>2, <4>3, <4>4
    <3> QED
      BY <2>1, <3>1 DEF CallersHaveDone
  <2> QED
    BY <1>2, <2>9, <2>10, <2>11 DEF ProgressHolds
<1> QED
  BY <1>4, <1>5

-----------------------------------------------------------------------------
LEMMA ProgressAtBegin ==
    ASSUME ProgressFollows, ProgressHolds, NEW s \in TopLevel, Begin(s)
    PROVE  ProgressHolds'
<1> DEFINE m == [here |-> here', env |-> env']
           f == [script |-> s, at |-> 1, saved |-> FALSE, from |-> m, home |-> m]
<1>1. frames' = <<f>>
  BY DEF Begin
<1>2. f.script = s /\ f.at = 1
  OBVIOUS
<1> HIDE DEF f, m
<1>3. Len(frames') = 1 /\ frames'[1] = f
  BY <1>1
<1>4. Reached(Len(frames))' = Nothing
  <2>1. s \in Script /\ Progress[s][1] = Nothing
    BY ShellAssumption, Paced
  <2> QED
    BY <1>2, <1>3, <2>1 DEF Reached
<1>5. paused' = FALSE /\ link' = link
  BY DEF Begin
<1>6. Nothing.built = {} /\ Nothing.fresh = {} /\ Nothing.waited = FALSE
  BY DEF Nothing
<1>7. TopHasDone'
  BY <1>4, <1>5, <1>6 DEF TopHasDone
<1> QED
  BY <1>3, <1>5, <1>7 DEF ProgressHolds, BringsAdded, CallersHaveDone

LEMMA ProgressStays ==
    ASSUME OutlineFollows, ProgressFollows, CallsSure, PlacesSure, StackTyped, OutlineHolds,
           SurroundingsKept, ProgressHolds, [ShellNext]_vars
    PROVE  ProgressHolds'
<1>1. ASSUME NEW s \in TopLevel, Begin(s) PROVE ProgressHolds'
  BY <1>1, ProgressAtBegin
<1>2. CASE Interrupt
  <2>1. frames' = <<>> /\ link' = link
    BY <1>2 DEF Interrupt
  <2> QED
    BY <2>1 DEF ProgressHolds, BringsAdded, TopHasDone, CallersHaveDone
<1>3. CASE UNCHANGED vars
  <2>1. UnderMaster' = UnderMaster /\ (\A i : Reached(i)' = Reached(i))
        /\ (\A x : IsBuilt(x)' = IsBuilt(x))
    BY <1>3 DEF vars, Depth, UnderMaster, Reached, IsBuilt, Tried
  <2> QED
    BY <1>3, <2>1 DEF vars, ProgressHolds, BringsAdded, TopHasDone, CallersHaveDone
<1> QED
  BY <1>1, <1>2, <1>3, Steps, ProgressOnward, ProgressOnCall, ProgressOnReturn

(* A second layer that follows line by line holds in every run.            *)
LEMMA ProgressAlwaysHolds ==
    ASSUME OutlineFollows, ProgressFollows, WellScoped, CallsSure, PlacesSure
    PROVE  ShellSpec => [](StackTyped /\ OutlineHolds /\ SurroundingsKept /\ ProgressHolds)
<1>1. ShellInit => CallersKept /\ SurroundingsKept /\ ProgressHolds
  <2> SUFFICES ASSUME ShellInit PROVE CallersKept /\ SurroundingsKept /\ ProgressHolds
    OBVIOUS
  <2>1. frames = <<>> /\ env = {} /\ here \in Consoles /\ link \in Link
    BY DEF ShellInit
  <2>2. ProgressHolds
    BY <2>1 DEF ProgressHolds, BringsAdded, TopHasDone, CallersHaveDone
  <2> QED
    BY <2>1, <2>2, NothingIsSurrounded DEF CallersKept
<1>2. StackTyped /\ CallersKept /\ OutlineHolds /\ SurroundingsKept /\ ProgressHolds
          /\ [ShellNext]_vars => CallersKept' /\ SurroundingsKept' /\ ProgressHolds'
  BY CallersStayKept, SurroundingsStay, ProgressStays
<1>3. ShellSpec => [](StackTyped /\ OutlineHolds)
  BY OutlineAlwaysHolds
<1> QED
  BY <1>1, <1>2, <1>3, PTL DEF ShellSpec

(* What the script on top has done when it has come to its end.            *)
LEMMA AtItsEnd ==
    ASSUME ProgressFollows, StackTyped, OutlineHolds, ProgressHolds,
           Depth = 1, Top.at > Len(Body)
    PROVE  /\ frames # <<>> /\ Top = frames[1]
           /\ linked = "stale" => link \notin AllDone(Top.script).fresh
           /\ paused = (~UnderMaster /\ AllDone(Top.script).waited)
<1>1. Len(frames) = 1 /\ Top = frames[1] /\ Top \in Frames /\ frames # <<>>
      /\ 1 \in 1..Len(frames)
  <2>1. Len(frames) = 1
    BY Zenon DEF Depth
  <2>2. Top = frames[1]
    BY Zenon DEF Top
  <2>3. frames \in Seq(Frames)
    BY Zenon DEF StackTyped
  <2>4. 1 \in 1..Len(frames)
    BY <2>1
  <2>5. frames # <<>>
    BY <2>1
  <2>6. frames[1] \in Frames
    BY <2>3, <2>4
  <2> QED
    BY <2>1, <2>2, <2>4, <2>5, <2>6
<1>2. Top.at <= Len(Body) + 1 /\ Top.at \in Nat /\ Top.script \in Script
  <2>1. frames[1].at <= Len(Program[frames[1].script]) + 1
    BY <1>1 DEF OutlineHolds, StackSure
  <2>2. Top.at \in Nat /\ Top.script \in Script
    BY <1>1 DEF Frames
  <2> QED
    BY <1>1, <2>1, <2>2 DEF Body
<1>3. Len(Body) \in Nat
  BY <1>2, Paced DEF Body
<1>4. Top.at = Len(Body) + 1
  BY <1>2, <1>3
<1>5. Reached(Len(frames)) = AllDone(Top.script)
  BY <1>1, <1>4 DEF Reached, AllDone, Body
<1> QED
  BY <1>1, <1>5 DEF ProgressHolds, TopHasDone

-----------------------------------------------------------------------------
(* msbuild has been run on every project of a package, in the place of the *)
(* project and for both configurations, when the package is installed: by  *)
(* its own script, or by a helper with the list handed to it.  Neither a   *)
(* project that msbuild fails on nor any other failure before makes the    *)
(* scripts leave one out.                                                  *)
THEOREM EveryProjectIsTried ==
    ASSUME OutlineFollows, ProgressFollows, WellScoped, CallsSure, PlacesSure, BuildsSure
    PROVE  ShellSpec => []NoProjectIsLeftOut
<1>1. StackTyped /\ OutlineHolds /\ SurroundingsKept /\ ProgressHolds => NoProjectIsLeftOut
  <2> SUFFICES ASSUME StackTyped, OutlineHolds, SurroundingsKept, ProgressHolds,
                      Doing("install"), InPlace, Line.arg \in DOMAIN Wanted,
                      console # "elsewhere", BuiltIn[Line.arg] \in disk
               PROVE  \A p \in Wanted[Line.arg], config \in Configurations : Tried(p, config)
    BY DEF NoProjectIsLeftOut
  <2> DEFINE b == Progress[Top.script][Top.at]
  <2>1. AtLine /\ Line.op = "install" /\ frames # <<>>
    BY LineIsCommand DEF Doing, Depth
  <2>2. Top.script \in Script /\ Top.at \in DOMAIN Program[Top.script]
        /\ Line = Program[Top.script][Top.at]
    BY <2>1, LineSure, Outlined
  <2>3. /\ Line.dir \notin Consoles \union {"shadow", ""}
        /\ \A p \in Wanted[Line.arg], o \in Configurations :
               \E d \in {"", BuiltIn[Line.arg], Line.dir} : <<d, p, o>> \in b.built
    BY <2>1, <2>2 DEF BuildsSure
  <2>4. \A x \in b.built : IsBuilt(x)
    <3>1. Reached(Len(frames)) = b
      BY DEF Reached, Top, Depth
    <3> QED
      BY <2>1, <3>1 DEF ProgressHolds, TopHasDone
  <2> HIDE DEF b
  <2>5. Line.dir \in disk
    BY <2>3 DEF InPlace, SurroundingsKept, PlacesKnown, KnownPlace
  <2>6. ASSUME NEW p \in Wanted[Line.arg], NEW o \in Configurations PROVE Tried(p, o)
    <3>1. PICK d \in {"", BuiltIn[Line.arg], Line.dir} : <<d, p, o>> \in b.built
      BY <2>3
    <3>2. d = "" \/ Trusted(d, disk, console)
      BY <2>5, <3>1 DEF Trusted
    <3> QED
      BY <2>4, <3>1, <3>2 DEF IsBuilt
  <2> QED
    BY <2>6
<1>2. ShellSpec => [](StackTyped /\ OutlineHolds /\ SurroundingsKept /\ ProgressHolds)
  BY ProgressAlwaysHolds
<1> QED
  BY <1>1, <1>2, PTL

(* When all-build.bat has come to its end, no package is left linked to a  *)
(* library that was rebuilt after it: each is installed after what it      *)
(* uses, or again.                                                         *)
THEOREM LinksAreCurrent ==
    ASSUME OutlineFollows, ProgressFollows, WellScoped, CallsSure, PlacesSure, LinksSure
    PROVE  ShellSpec => []LinkedToWhatIsInstalled
<1>1. StackTyped /\ OutlineHolds /\ ProgressHolds => LinkedToWhatIsInstalled
  <2> SUFFICES ASSUME StackTyped, OutlineHolds, ProgressHolds,
                      UnderMaster, Depth = 1, Top.at > Len(Body)
               PROVE  linked # "stale"
    BY DEF LinkedToWhatIsInstalled
  <2>1. Top = frames[1] /\ (linked = "stale" => link \notin AllDone(Top.script).fresh)
    BY AtItsEnd
  <2>2. AllDone(Top.script).fresh = Link /\ link \in Link
    BY <2>1 DEF UnderMaster, LinksSure, ProgressHolds
  <2> QED
    BY <2>1, <2>2
<1>2. ShellSpec => [](StackTyped /\ OutlineHolds /\ SurroundingsKept /\ ProgressHolds)
  BY ProgressAlwaysHolds
<1> QED
  BY <1>1, <1>2, PTL

(* all-build.bat never waits for a key, and each script that the operator  *)
(* starts himself waits for him at its end, but those that are known not   *)
(* to.                                                                     *)
THEOREM OnlyTheOperatorIsWaitedFor ==
    ASSUME OutlineFollows, ProgressFollows, WellScoped, CallsSure, PlacesSure, WaitsSure
    PROVE  ShellSpec => WaitsForTheOperatorOnly
<1> DEFINE A == Depth = 1 /\ Top.at > Len(Body) /\ frames' = <<>> =>
                    paused = (Top.script \notin Hasty)
<1>1. StackTyped /\ OutlineHolds /\ SurroundingsKept /\ ProgressHolds => A
  <2> SUFFICES ASSUME StackTyped, OutlineHolds, SurroundingsKept, ProgressHolds,
                      Depth = 1, Top.at > Len(Body)
               PROVE  paused = (Top.script \notin Hasty)
    OBVIOUS
  <2>1. /\ frames # <<>> /\ Top = frames[1]
        /\ paused = (~UnderMaster /\ AllDone(Top.script).waited)
    BY AtItsEnd
  <2>2. Top.script \in TopLevel
    BY <2>1 DEF SurroundingsKept, StartsFresh
  <2>3. CASE Top.script = Master
    <3>1. UnderMaster /\ Top.script \in Hasty
      BY <2>1, <2>3 DEF UnderMaster, WaitsSure
    <3> QED
      BY <2>1, <3>1
  <2>4. CASE Top.script # Master
    <3>1. ~UnderMaster /\ AllDone(Top.script).waited = (Top.script \notin Hasty)
      BY <2>1, <2>2, <2>4 DEF UnderMaster, WaitsSure
    <3> QED
      BY <2>1, <3>1
  <2> QED
    BY <2>3, <2>4
<1>2. ShellSpec => [](StackTyped /\ OutlineHolds /\ SurroundingsKept /\ ProgressHolds)
  BY ProgressAlwaysHolds
<1>3. StackTyped /\ OutlineHolds /\ SurroundingsKept /\ ProgressHolds => [A]_vars
  BY <1>1
<1> QED
  BY <1>2, <1>3, PTL DEF WaitsForTheOperatorOnly
=============================================================================
