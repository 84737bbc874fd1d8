---------------------------- MODULE ShellProofs ----------------------------
(***************************************************************************)
(* Theorems about Shell, for any scripts: the types of its variables, and  *)
(* that scripts which begin with setlocal leave nothing behind in their    *)
(* callers.                                                                *)
(***************************************************************************)
EXTENDS ShellProperties, TLAPS

USE DEF shell, package, links

(* The part of the types that the stack of calls needs.                    *)
StackTyped ==
    /\ frames \in Seq(Frames)
    /\ here \in Name
    /\ env \subseteq Variable

(* The script on top has changed nothing yet.                              *)
Untouched(i) == i = Len(frames) /\ Now = frames[i].from

(* setlocal has kept what the script was called with.                      *)
Kept(i) == frames[i].saved /\ frames[i].home = frames[i].from

(* What CallsAreTransparent rests on: a scoped script has done nothing     *)
(* before its setlocal, and calls others only after it; a harmless one     *)
(* never does anything.                                                    *)
CallersKept ==
    \A i \in 1..Len(frames) :
        /\ Scoped(frames[i].script) =>
               IF frames[i].at = 1 THEN Untouched(i) ELSE Kept(i)
        /\ Harmless(frames[i].script) =>
               Untouched(i) /\ frames[i].home = frames[i].from

(* A line that is carried out is a command.                                *)
LEMMA LineIsCommand ==
    ASSUME StackTyped, AtLine
    PROVE  /\ Top \in Frames /\ Depth \in Nat \ {0} /\ Top.at \in 1..Len(Body)
           /\ Body \in Seq(Commands) /\ Line \in Commands
<1>1. Depth \in Nat /\ Depth > 0 /\ Top.at <= Len(Body)
  BY DEF AtLine, Depth, StackTyped
<1>2. Top \in Frames
  BY <1>1 DEF Top, Depth, StackTyped
<1>3. Body \in Seq(Commands)
  BY <1>2, ShellAssumption DEF Body, Frames
<1>4. Top.at \in 1..Len(Body)
  BY <1>1, <1>2, <1>3 DEF Frames
<1> QED
  BY <1>1, <1>2, <1>3, <1>4 DEF Line

(* Going on to the next line changes the top frame only.                   *)
LEMMA AdvancedFrames ==
    ASSUME StackTyped, AtLine
    PROVE  /\ Advanced \in Seq(Frames) /\ Len(Advanced) = Depth
           /\ \A i \in 1..Depth : i # Depth => Advanced[i] = frames[i]
           /\ Advanced[Depth] = [Top EXCEPT !.at = @ + 1]
<1>1. Top \in Frames /\ Depth \in Nat \ {0}
  BY LineIsCommand
<1>2. [Top EXCEPT !.at = @ + 1] \in Frames
  BY <1>1 DEF Frames
<1>3. Advanced = [frames EXCEPT ![Depth] = [Top EXCEPT !.at = @ + 1]]
  BY <1>1 DEF Advanced, Top, Depth, StackTyped
<1> QED
  BY <1>1, <1>2, <1>3 DEF Depth, StackTyped

(* setlocal changes the top frame only.                                    *)
LEMMA ScopedFrames ==
    ASSUME StackTyped, AtLine, Setlocal
    PROVE  /\ frames' \in Seq(Frames) /\ Len(frames') = Depth
           /\ \A i \in 1..Depth : i # Depth => frames'[i] = frames[i]
           /\ frames'[Depth] = [script |-> Top.script, at |-> Top.at + 1, saved |-> TRUE,
                                from |-> Top.from, home |-> Now]
<1> DEFINE f == [script |-> Top.script, at |-> Top.at + 1, saved |-> TRUE,
                 from |-> Top.from, home |-> Now]
<1>1. Top \in Frames /\ Depth \in Nat \ {0} /\ Depth = Len(frames)
  BY LineIsCommand DEF Depth
<1>2. Now \in Moment
  BY DEF Now, Moment, StackTyped
<1>3. f \in Frames
  BY <1>1, <1>2 DEF Frames
<1>4. frames' = [frames EXCEPT ![Depth] = f]
  BY DEF Setlocal
<1> HIDE DEF f
<1>7. frames' \in Seq(Frames) /\ Len(frames') = Depth /\ frames'[Depth] = f
      /\ (\A i \in 1..Depth : i # Depth => frames'[i] = frames[i])
  BY <1>1, <1>3, <1>4 DEF StackTyped
<1> QED
  BY <1>7 DEF f

-----------------------------------------------------------------------------
(* Actions that only go on to the next line, and what they do on the way.  *)
Advancing ==
    \/ Set \/ Clear \/ CallMissing \/ GoOn \/ Move \/ Prepare \/ Work

LEMMA Steps ==
    ASSUME [ShellNext]_vars
    PROVE  \/ \E s \in TopLevel : Begin(s)
           \/ Setlocal \/ Call \/ Return \/ Exit \/ Interrupt
           \/ Advancing
           \/ UNCHANGED vars
  BY DEF ShellNext, ShellStep, Control, Advancing

LEMMA AdvancingStep ==
    ASSUME Advancing
    PROVE  /\ AtLine /\ frames' = Advanced
           /\ Line.op # "setlocal"
           /\ Line.op = "pause" => UNCHANGED <<here, env>>
<1> USE DEF Doing, NextLine, Calling, Configurations
<1>1. CASE Set BY <1>1 DEF Set
<1>2. CASE Clear BY <1>2 DEF Clear
<1>3. CASE CallMissing BY <1>3 DEF CallMissing
<1>4. CASE GoOn BY <1>4 DEF GoOn
<1>5. CASE Move BY <1>5 DEF Move, Cd, CdD, CdHere, Enter
<1>6. CASE Prepare BY <1>6 DEF Prepare, Mkdir, MkdirHere, Unpack, UnpackHere, Generate
<1>7. CASE Work BY <1>7 DEF Work, Tool, Msbuild, MsbuildFails, Install, InstallFails, Pause
<1> QED
  BY <1>1, <1>2, <1>3, <1>4, <1>5, <1>6, <1>7 DEF Advancing

(* The scripts' directories have names, and their variables are known.     *)
LEMMA AdvancingTyped ==
    ASSUME StackTyped, Advancing
    PROVE  here' \in Name /\ env' \subseteq Variable
<1>1. AtLine
  BY AdvancingStep
<1>2. Line.arg \in Name /\ Line.vars \subseteq Variable
  BY <1>1, LineIsCommand DEF Commands
<1>10. {"scripts", "start", "elsewhere", "shadow", "stray"} \subseteq Name
  BY ShellAssumption DEF Consoles
<1> USE <1>2, <1>10 DEF StackTyped
<1>3. CASE Set BY <1>3 DEF Set
<1>4. CASE Clear BY <1>4 DEF Clear
<1>5. CASE CallMissing BY <1>5 DEF CallMissing
<1>6. CASE GoOn BY <1>6 DEF GoOn
<1>7. CASE Move
  <2>1. CASE Cd BY <2>1 DEF Cd
  <2>2. CASE CdD BY <2>2 DEF CdD
  <2>3. CASE CdHere
    <3>1. here' \in {Line.arg, "stray", here}
      BY <2>3 DEF CdHere
    <3> QED
      BY <2>3, <3>1 DEF CdHere
  <2>4. CASE Enter BY <2>4 DEF Enter
  <2> QED
    BY <1>7, <2>1, <2>2, <2>3, <2>4 DEF Move
<1>8. CASE Prepare BY <1>8 DEF Prepare, Mkdir, MkdirHere, Unpack, UnpackHere, Generate
<1>9. CASE Work BY <1>9 DEF Work, Tool, Msbuild, MsbuildFails, Install, InstallFails, Pause
<1> QED
  BY <1>3, <1>4, <1>5, <1>6, <1>7, <1>8, <1>9 DEF Advancing

-----------------------------------------------------------------------------
(* The stack of calls stays one.                                           *)
LEMMA StackStaysTyped ==
    ASSUME StackTyped, [ShellNext]_vars
    PROVE  StackTyped'
<1>0. TopLevel \subseteq Script /\ Consoles \subseteq Name
  BY ShellAssumption
<1>1. ASSUME NEW s \in TopLevel, Begin(s) PROVE StackTyped'
  <2> DEFINE m == [here |-> here', env |-> env']
             f == [script |-> s, at |-> 1, saved |-> FALSE, from |-> m, home |-> m]
  <2>1. here' \in Name /\ env' \subseteq Variable
    BY <1>0, <1>1 DEF Begin, OpenConsole, StackTyped
  <2>2. m \in Moment
    BY <2>1 DEF Moment
  <2>3. f \in Frames
    BY <1>0, <2>2 DEF Frames
  <2>4. frames' = <<f>>
    BY <1>1 DEF Begin
  <2> QED
    BY <2>1, <2>3, <2>4 DEF StackTyped
<1>2. CASE Setlocal
  <2>1. AtLine
    BY <1>2 DEF Setlocal, Doing
  <2>2. frames' \in Seq(Frames)
    BY <1>2, <2>1, ScopedFrames
  <2> QED
    BY <1>2, <2>2 DEF Setlocal, StackTyped
<1>3. CASE Call
  <2>1. AtLine /\ Line.arg \in Script
    BY <1>3 DEF Call, Calling, Doing, Found
  <2>2. Advanced \in Seq(Frames)
    BY <2>1, AdvancedFrames
  <2>3. NewFrame(Line.arg) \in Frames
    BY <2>1 DEF NewFrame, Frames, Moment, Now, StackTyped
  <2> QED
    BY <1>3, <2>2, <2>3 DEF Call, StackTyped
<1>4. CASE Return \/ Exit
  <2>1. Depth \in Nat \ {0} /\ Pop
    BY <1>4 DEF Return, Exit, Doing, AtLine, Depth
  <2>2. Top \in Frames
    BY <2>1 DEF Top, Depth, StackTyped
  <2>3. frames' \in Seq(Frames)
    BY <2>1 DEF Pop, Depth, StackTyped
  <2>4. Restored(Top) \in Moment
    BY <2>2 DEF Restored, Frames, Now, Moment, StackTyped
  <2> QED
    BY <2>1, <2>3, <2>4 DEF Pop, Moment, StackTyped
<1>5. CASE Interrupt
  BY <1>0, <1>5 DEF Interrupt, OpenConsole, StackTyped
<1>6. CASE Advancing
  BY <1>6, AdvancingStep, AdvancingTyped, AdvancedFrames DEF StackTyped
<1>7. CASE UNCHANGED vars
  BY <1>7 DEF vars, StackTyped
<1> QED
  BY <1>1, <1>2, <1>3, <1>4, <1>5, <1>6, <1>7, Steps
(* The rest of the variables.                                              *)
RestTyped ==
    /\ console \in Consoles
    /\ disk \subseteq Name
    /\ made \subseteq Name \X Configurations \X Outcomes
    /\ quit \in BOOLEAN /\ paused \in BOOLEAN
    /\ link \in Link
    /\ linked \in {"fresh", "stale", "failed"}

LEMMA RestStaysTyped ==
    ASSUME StackTyped, RestTyped, [ShellNext]_vars
    PROVE  RestTyped'
<1>0. "stray" \in Name
  BY ShellAssumption
<1>1. AtLine => Line.arg \in Name
  BY LineIsCommand DEF Commands
<1> USE DEF RestTyped, Doing
<1>2. ASSUME NEW s \in TopLevel, Begin(s) PROVE RestTyped'
  BY <1>2 DEF Begin, OpenConsole
<1>3. CASE Setlocal \/ Return \/ Interrupt
  BY <1>3 DEF Setlocal, Return, Interrupt, OpenConsole
<1>4. CASE Call \/ Exit
  BY <1>4 DEF Call, Exit
<1>5. CASE Set \/ Clear \/ CallMissing \/ GoOn
  BY <1>5 DEF Set, Clear, CallMissing, GoOn
<1>6. CASE Move
  BY <1>1, <1>6 DEF Move, Cd, CdD, CdHere, Enter
<1>7. CASE Prepare
  <2>1. CASE Mkdir BY <1>1, <2>1 DEF Mkdir
  <2>2. CASE MkdirHere BY <1>0, <1>1, <2>2 DEF MkdirHere
  <2>3. CASE Unpack BY <1>1, <2>3 DEF Unpack
  <2>4. CASE UnpackHere BY <1>1, <2>4 DEF UnpackHere
  <2>5. CASE Generate BY <1>1, <2>5 DEF Generate
  <2> QED
    BY <1>7, <2>1, <2>2, <2>3, <2>4, <2>5 DEF Prepare
<1>8. CASE Work
  <2>1. CASE Tool BY <2>1 DEF Tool
  <2>2. CASE Msbuild BY <1>1, <2>2 DEF Msbuild, Outcomes
  <2>6. CASE MsbuildFails BY <1>1, <2>6 DEF MsbuildFails, Outcomes
  <2>3. CASE Install BY <2>3 DEF Install
  <2>4. CASE InstallFails BY <2>4 DEF InstallFails
  <2>5. CASE Pause BY <2>5 DEF Pause
  <2> QED
    BY <1>8, <2>1, <2>2, <2>3, <2>4, <2>5, <2>6 DEF Work
<1>9. CASE UNCHANGED vars
  BY <1>9 DEF vars
<1> QED
  BY <1>2, <1>3, <1>4, <1>5, <1>6, <1>7, <1>8, <1>9, Steps DEF Advancing

LEMMA TypesAtStart == ShellInit => StackTyped /\ RestTyped
<1> SUFFICES ASSUME ShellInit PROVE StackTyped /\ RestTyped
  OBVIOUS
<1>1. Consoles \subseteq Name
  BY ShellAssumption
<1>2. StackTyped
  BY <1>1 DEF ShellInit, StackTyped
<1>3. RestTyped
  <2>1. console \in Consoles /\ link \in Link
    BY DEF ShellInit
  <2>2. disk \subseteq Name /\ made \subseteq Name \X Configurations \X Outcomes
    BY DEF ShellInit
  <2>3. quit \in BOOLEAN /\ paused \in BOOLEAN /\ linked \in {"fresh", "stale", "failed"}
    BY DEF ShellInit
  <2> QED
    BY <2>1, <2>2, <2>3 DEF RestTyped
<1> QED
  BY <1>2, <1>3

(* Type correctness: whatever the scripts are, the stack of calls holds    *)
(* scripts that exist, each with the directory and the variables it found. *)
THEOREM ShellTypeCorrect == ShellSpec => []ShellTypeOK
<1>1. ShellInit => StackTyped /\ RestTyped
  BY TypesAtStart
<1>2. StackTyped /\ RestTyped /\ [ShellNext]_vars => StackTyped' /\ RestTyped'
  BY StackStaysTyped, RestStaysTyped
<1>3. StackTyped /\ RestTyped => ShellTypeOK
  BY DEF StackTyped, RestTyped, ShellTypeOK
<1> QED
  BY <1>1, <1>2, <1>3, PTL DEF ShellSpec

-----------------------------------------------------------------------------
(* CallersKept, step by step.                                              *)
LEMMA CallersKeptAtBegin ==
    ASSUME NEW s \in TopLevel, Begin(s)
    PROVE  CallersKept'
<1> DEFINE m == [here |-> here', env |-> env']
           f == [script |-> s, at |-> 1, saved |-> FALSE, from |-> m, home |-> m]
<1>1. frames' = <<f>> /\ Now' = m
  BY DEF Begin, Now
<1>2. f.at = 1 /\ f.from = m /\ f.home = m
  OBVIOUS
<1> HIDE DEF f, m
<1>3. Len(frames') = 1 /\ frames'[1] = f
  BY <1>1
<1> QED
  BY <1>1, <1>2, <1>3 DEF CallersKept, Untouched

(* A line that goes on to the next one is not the setlocal of a scoped     *)
(* script, and is only a pause in a harmless one.                          *)
LEMMA TopLine ==
    ASSUME StackTyped, AtLine
    PROVE  /\ Scoped(Top.script) => (Top.at = 1 <=> Line.op = "setlocal")
           /\ Harmless(Top.script) => Line.op = "pause"
<1>1. Top.at \in 1..Len(Body) /\ Body \in Seq(Commands)
  BY LineIsCommand
<1>2. Top.at \in DOMAIN Program[Top.script]
  BY <1>1 DEF Body
<1> QED
  BY <1>1, <1>2 DEF Scoped, Harmless, Line, Body

LEMMA CallersKeptOnAdvance ==
    ASSUME StackTyped, CallersKept, Advancing
    PROVE  CallersKept'
<1>1. AtLine /\ frames' = Advanced /\ Line.op # "setlocal"
      /\ (Line.op = "pause" => UNCHANGED <<here, env>>)
  BY AdvancingStep
<1>2. Depth = Len(frames) /\ Depth \in Nat \ {0} /\ Top = frames[Depth] /\ Top \in Frames
  BY <1>1, LineIsCommand DEF Depth, Top
<1>3. Len(frames') = Depth /\ frames'[Depth] = [Top EXCEPT !.at = @ + 1]
      /\ (\A i \in 1..Depth : i # Depth => frames'[i] = frames[i])
  BY <1>1, AdvancedFrames
<1>4. frames'[Depth].script = Top.script /\ frames'[Depth].at = Top.at + 1
      /\ frames'[Depth].from = Top.from /\ frames'[Depth].home = Top.home
      /\ frames'[Depth].saved = Top.saved
  BY <1>2, <1>3 DEF Frames
<1>5. Top.at # 0 /\ Top.at + 1 # 1
  BY <1>2 DEF Frames
<1> SUFFICES ASSUME NEW i \in 1..Depth
             PROVE  /\ Scoped(frames'[i].script) =>
                           IF frames'[i].at = 1 THEN Untouched(i)' ELSE Kept(i)'
                    /\ Harmless(frames'[i].script) =>
                           Untouched(i)' /\ frames'[i].home = frames'[i].from
  BY <1>3 DEF CallersKept
<1>6. CASE i = Depth
  <2>1. ASSUME Scoped(Top.script) PROVE Kept(i)'
    BY <1>1, <1>2, <1>4, <1>6, <2>1, TopLine DEF CallersKept, Kept
  <2>2. ASSUME Harmless(Top.script) PROVE Untouched(i)' /\ Top.home = Top.from
    <3>1. Now' = Now
      BY <1>1, <2>2, TopLine DEF Now
    <3>2. Now = Top.from /\ Top.home = Top.from
      BY <1>2, <2>2 DEF CallersKept, Untouched
    <3> QED
      BY <1>3, <1>4, <1>6, <3>1, <3>2 DEF Untouched
  <2> QED
    BY <1>4, <1>5, <1>6, <2>1, <2>2
<1>7. CASE i # Depth
  <2>1. frames'[i] = frames[i] /\ ~Untouched(i)
    BY <1>2, <1>3, <1>7 DEF Untouched
  <2> QED
    BY <1>2, <2>1 DEF CallersKept, Kept
<1> QED
  BY <1>6, <1>7

LEMMA CallersKeptOnSetlocal ==
    ASSUME StackTyped, CallersKept, Setlocal
    PROVE  CallersKept'
<1>1. AtLine /\ Line.op = "setlocal"
  BY DEF Setlocal, Doing
<1>2. Depth = Len(frames) /\ Depth \in Nat \ {0} /\ Top = frames[Depth] /\ Top \in Frames
  BY <1>1, LineIsCommand DEF Depth, Top
<1>3. Len(frames') = Depth
      /\ frames'[Depth] = [script |-> Top.script, at |-> Top.at + 1, saved |-> TRUE,
                           from |-> Top.from, home |-> Now]
      /\ (\A i \in 1..Depth : i # Depth => frames'[i] = frames[i])
  BY <1>1, ScopedFrames
<1>4. Top.at + 1 # 1
  BY <1>2 DEF Frames
<1> SUFFICES ASSUME NEW i \in 1..Depth
             PROVE  /\ Scoped(frames'[i].script) =>
                           IF frames'[i].at = 1 THEN Untouched(i)' ELSE Kept(i)'
                    /\ Harmless(frames'[i].script) =>
                           Untouched(i)' /\ frames'[i].home = frames'[i].from
  BY <1>3 DEF CallersKept
<1>5. CASE i = Depth
  <2>1. ASSUME Scoped(Top.script) PROVE Now = Top.from
    BY <1>1, <1>2, <2>1, TopLine DEF CallersKept, Untouched
  <2>2. ~Harmless(Top.script)
    BY <1>1, TopLine
  <2> QED
    BY <1>3, <1>4, <1>5, <2>1, <2>2 DEF Kept
<1>6. CASE i # Depth
  <2>1. frames'[i] = frames[i] /\ ~Untouched(i)
    BY <1>2, <1>3, <1>6 DEF Untouched
  <2> QED
    BY <1>2, <2>1 DEF CallersKept, Kept
<1> QED
  BY <1>5, <1>6

LEMMA CallersKeptOnCall ==
    ASSUME StackTyped, CallersKept, Call
    PROVE  CallersKept'
<1>1. AtLine /\ Line.op \in {"call", "callAt"}
  BY DEF Call, Calling, Doing
<1>2. Depth = Len(frames) /\ Depth \in Nat \ {0} /\ Top = frames[Depth] /\ Top \in Frames
  BY <1>1, LineIsCommand DEF Depth, Top
<1>3. Advanced \in Seq(Frames) /\ Len(Advanced) = Depth
      /\ Advanced[Depth] = [Top EXCEPT !.at = @ + 1]
      /\ (\A i \in 1..Depth : i # Depth => Advanced[i] = frames[i])
  BY <1>1, AdvancedFrames
<1>4. frames' = Append(Advanced, NewFrame(Line.arg)) /\ Now' = Now
  BY DEF Call, Now
<1>5. Len(frames') = Depth + 1 /\ frames'[Depth + 1] = NewFrame(Line.arg)
      /\ (\A i \in 1..Depth : frames'[i] = Advanced[i])
  BY <1>2, <1>3, <1>4
<1>6. Scoped(Top.script) => Kept(Depth)
  BY <1>1, <1>2, TopLine DEF CallersKept
<1>7. ~Harmless(Top.script)
  BY <1>1, TopLine
<1> SUFFICES ASSUME NEW i \in 1..(Depth + 1)
             PROVE  /\ Scoped(frames'[i].script) =>
                           IF frames'[i].at = 1 THEN Untouched(i)' ELSE Kept(i)'
                    /\ Harmless(frames'[i].script) =>
                           Untouched(i)' /\ frames'[i].home = frames'[i].from
  BY <1>5 DEF CallersKept
<1>8. CASE i = Depth + 1
  <2>1. frames'[i].at = 1 /\ frames'[i].from = Now /\ frames'[i].home = Now
    BY <1>5, <1>8 DEF NewFrame
  <2> QED
    BY <1>4, <1>5, <1>8, <2>1 DEF Untouched
<1>9. CASE i = Depth
  <2>1. frames'[i].script = Top.script /\ frames'[i].at = Top.at + 1
        /\ frames'[i].from = Top.from /\ frames'[i].home = Top.home
        /\ frames'[i].saved = Top.saved
    BY <1>2, <1>3, <1>5, <1>9 DEF Frames
  <2>2. Top.at + 1 # 1
    BY <1>2 DEF Frames
  <2> QED
    BY <1>2, <1>6, <1>7, <1>9, <2>1, <2>2 DEF Kept
<1>10. CASE i \notin {Depth, Depth + 1}
  <2>1. i \in 1..Depth /\ frames'[i] = frames[i] /\ ~Untouched(i)
    BY <1>2, <1>3, <1>5, <1>10 DEF Untouched
  <2> QED
    BY <1>2, <2>1 DEF CallersKept, Kept
<1> QED
  BY <1>8, <1>9, <1>10

LEMMA CallersKeptOnReturn ==
    ASSUME StackTyped, CallersKept, Return \/ Exit
    PROVE  CallersKept'
<1>1. Depth = Len(frames) /\ Depth \in Nat \ {0} /\ Top = frames[Depth] /\ Top \in Frames
  BY DEF Return, Exit, Doing, AtLine, Depth, Top, StackTyped
<1>2. Pop
  BY DEF Return, Exit
<1>3. Len(frames') = Depth - 1 /\ (\A i \in 1..(Depth - 1) : frames'[i] = frames[i])
  BY <1>1, <1>2 DEF Pop, StackTyped
<1> SUFFICES ASSUME NEW i \in 1..(Depth - 1)
             PROVE  /\ Scoped(frames'[i].script) =>
                           IF frames'[i].at = 1 THEN Untouched(i)' ELSE Kept(i)'
                    /\ Harmless(frames'[i].script) =>
                           Untouched(i)' /\ frames'[i].home = frames'[i].from
  BY <1>3 DEF CallersKept
<1>4. frames'[i] = frames[i] /\ i \in 1..Len(frames) /\ ~Untouched(i)
  BY <1>1, <1>3 DEF Untouched
<1> QED
  BY <1>4 DEF CallersKept, Kept

LEMMA CallersStayKept ==
    ASSUME StackTyped, CallersKept, [ShellNext]_vars
    PROVE  CallersKept'
<1>1. ASSUME NEW s \in TopLevel, Begin(s) PROVE CallersKept'
  BY <1>1, CallersKeptAtBegin
<1>2. CASE Interrupt
  BY <1>2 DEF Interrupt, CallersKept
<1>3. CASE UNCHANGED vars
  BY <1>3 DEF vars, CallersKept, Untouched, Kept, Now
<1> QED
  BY <1>1, <1>2, <1>3, Steps, CallersKeptOnSetlocal, CallersKeptOnCall,
     CallersKeptOnReturn, CallersKeptOnAdvance

-----------------------------------------------------------------------------
(* A script returns past its setlocal, or has changed nothing.             *)
LEMMA PopGivesBack ==
    ASSUME WellScoped, StackTyped, CallersKept, Return \/ Exit, Top.script # Setup
    PROVE  here' = Top.from.here /\ env' = Top.from.env
<1>1. Depth = Len(frames) /\ Depth \in Nat \ {0} /\ Top = frames[Depth] /\ Top \in Frames
  BY DEF Return, Exit, Doing, AtLine, Depth, Top, StackTyped
<1>3. Pop
  BY DEF Return, Exit
<1>4. Top.script \in Script /\ Top.at \in Nat \ {0} /\ Body \in Seq(Commands)
  BY <1>1, ShellAssumption DEF Frames, Body
<1>5. CASE Scoped(Top.script)
  <2>1. Top.at # 1
    <3>1. CASE Return
      <4>1. Top.at > Len(Body)
        BY <3>1 DEF Return
      <4>2. Body # <<>>
        BY <1>5 DEF Scoped, Body
      <4> QED
        BY <1>4, <4>1, <4>2
    <3>2. CASE Exit
      <4>1. AtLine /\ Line.op \in {"exit", "mayExit"}
        BY <3>2 DEF Exit, Doing
      <4> QED
        BY <1>5, <4>1, TopLine
    <3> QED
      BY <3>1, <3>2
  <2>2. Kept(Depth)
    BY <1>1, <1>5, <2>1 DEF CallersKept
  <2>3. Restored(Top) = Top.from
    BY <1>1, <2>2 DEF Kept, Restored
  <2> QED
    BY <1>3, <2>3 DEF Pop
<1>6. CASE Harmless(Top.script)
  <2>1. Now = Top.from /\ Top.home = Top.from
    BY <1>1, <1>6 DEF CallersKept, Untouched
  <2>2. Restored(Top) = Top.from
    BY <2>1 DEF Restored
  <2> QED
    BY <1>3, <2>2 DEF Pop
<1> QED
  BY <1>4, <1>5, <1>6 DEF WellScoped

(* A step that shortens a stack of two or more is a return.                *)
LEMMA ReturnGivesBack ==
    ASSUME WellScoped, StackTyped, CallersKept, [ShellNext]_vars,
           Depth > 1, Len(frames') = Depth - 1, Top.script # Setup
    PROVE  here' = Top.from.here /\ env' = Top.from.env
<1>1. Depth = Len(frames) /\ Depth \in Nat /\ Top = frames[Depth] /\ Top \in Frames
  BY DEF Depth, Top, StackTyped
<1>2. Return \/ Exit
  <2>1. ASSUME NEW s \in TopLevel, Begin(s) PROVE FALSE
    BY <1>1, <2>1 DEF Begin
  <2>2. ~Setlocal
    BY <1>1, ScopedFrames DEF Setlocal, Doing
  <2>3. ~Call
    <3> SUFFICES ASSUME Call PROVE FALSE
      OBVIOUS
    <3>1. AtLine
      BY DEF Call, Calling, Doing
    <3>2. Advanced \in Seq(Frames) /\ Len(Advanced) = Depth
      BY <3>1, AdvancedFrames
    <3>3. Len(frames') = Depth + 1
      BY <1>1, <3>2 DEF Call
    <3> QED
      BY <1>1, <3>3
  <2>4. ~Interrupt
    BY <1>1 DEF Interrupt
  <2>5. ~Advancing
    BY <1>1, AdvancingStep, AdvancedFrames
  <2>6. ~UNCHANGED vars
    BY <1>1 DEF vars
  <2> QED
    BY <2>1, <2>2, <2>3, <2>4, <2>5, <2>6, Steps
<1> QED
  BY <1>2, PopGivesBack

(* If every script but common-setup begins with its one setlocal, or only  *)
(* waits, then calls are transparent: at any depth, and wherever a script  *)
(* gives up.  That the scripts are so is an assumption that TLC evaluates  *)
(* on all of them (MCShell).                                               *)
THEOREM Transparency == WellScoped => (ShellSpec => CallsAreTransparent)
<1> SUFFICES ASSUME WellScoped PROVE ShellSpec => CallsAreTransparent
  OBVIOUS
<1> DEFINE A == Depth > 1 /\ Len(frames') = Depth - 1 =>
                    \/ Top.script = Setup
                    \/ here' = Top.from.here /\ env' = Top.from.env
<1>1. ShellInit => StackTyped /\ CallersKept
  BY TypesAtStart DEF ShellInit, CallersKept
<1>2. StackTyped /\ CallersKept /\ [ShellNext]_vars => StackTyped' /\ CallersKept'
  BY StackStaysTyped, CallersStayKept
<1>3. StackTyped /\ CallersKept /\ [ShellNext]_vars => [A]_vars
  BY ReturnGivesBack
<1> QED
  BY <1>1, <1>2, <1>3, PTL DEF ShellSpec, CallsAreTransparent

-----------------------------------------------------------------------------
(* What is sure before a line, and what the outline says of it.            *)
LEMMA Outlined ==
    ASSUME OutlineFollows, NEW s \in Script
    PROVE  /\ Outline[s] \in Seq(Facts) /\ Program[s] \in Seq(Commands)
           /\ Len(Outline[s]) = Len(Program[s]) + 1
           /\ Makes[s] \in SUBSET Name
           /\ \A i \in 1..(Len(Program[s]) + 1) : Outline[s][i] \in Facts
           /\ \A i \in 1..Len(Program[s]) : LineFollows(s, i)
<1>1. Outline[s] \in Seq(Facts) /\ Program[s] \in Seq(Commands) /\ Makes[s] \in SUBSET Name
      /\ Len(Outline[s]) = Len(Program[s]) + 1
  BY ShellAssumption DEF OutlineFollows
<1>2. DOMAIN Program[s] = 1..Len(Program[s])
  BY <1>1
<1>3. \A i \in 1..Len(Program[s]) : LineFollows(s, i)
  BY <1>2 DEF OutlineFollows
<1>4. \A i \in 1..(Len(Program[s]) + 1) : Outline[s][i] \in Facts
  BY <1>1
<1> QED
  BY <1>1, <1>3, <1>4

LEMMA WeakerHolds ==
    ASSUME NEW f, NEW g, NEW e, NEW h, NEW there, NEW from,
           Weaker(g, f), Holds(f, e, h, there, from)
    PROVE  Holds(g, e, h, there, from)
  BY DEF Weaker, Holds

(* What a script that is called makes does not disturb what its caller is  *)
(* sure of.                                                                *)
LEMMA HoldsMeanwhile ==
    ASSUME NEW f, NEW e, NEW h, NEW there, NEW later, NEW from, NEW new,
           Holds(f, e, h, there, from),
           there \subseteq later, later \subseteq there \union new,
           new \subseteq f.may, \A x \in f.place : x[1] \notin new
    PROVE  Holds(f, e, h, later, from)
  BY DEF Holds, Trusted

(* A package's script begins from scratch.                                 *)
LEMMA ScratchHolds ==
    ASSUME NEW f, NEW e, NEW h, NEW from, Scratch(f)
    PROVE  Holds(f, e, h, {}, from)
  BY DEF Holds, Scratch

(* The directories that a line makes.                                      *)
LEMMA DiskGrows ==
    ASSUME Advancing
    PROVE  /\ disk \subseteq disk' /\ disk' \subseteq disk \union MadeBy(Line)
           /\ console' = console
<1> USE DEF Doing
<1>1. CASE Set \/ Clear \/ CallMissing \/ GoOn
  BY <1>1 DEF Set, Clear, CallMissing, GoOn
<1>2. CASE Move
  <2>1. CASE Cd \/ CdD \/ CdHere BY <2>1 DEF Cd, CdD, CdHere
  <2>2. CASE Enter
    <3>1. MadeBy(Line) = {Line.arg}
      BY <2>2 DEF Enter, MadeBy
    <3> QED
      BY <2>2, <3>1 DEF Enter
  <2> QED
    BY <1>2, <2>1, <2>2 DEF Move
<1>3. CASE Prepare
  <2>1. CASE Mkdir \/ Unpack \/ UnpackHere \/ Generate
    <3>1. MadeBy(Line) = {Line.arg}
      BY <2>1 DEF Mkdir, Unpack, UnpackHere, Generate, MadeBy
    <3> QED
      BY <2>1, <3>1 DEF Mkdir, Unpack, UnpackHere, Generate
  <2>2. CASE MkdirHere
    <3>1. MadeBy(Line) = {Line.arg, "stray"}
      BY <2>2 DEF MkdirHere, MadeBy
    <3> QED
      BY <2>2, <3>1 DEF MkdirHere
  <2> QED
    BY <1>3, <2>1, <2>2 DEF Prepare
<1>4. CASE Work
  BY <1>4 DEF Work, Tool, Msbuild, MsbuildFails, Install, InstallFails, Pause
<1> QED
  BY <1>1, <1>2, <1>3, <1>4 DEF Advancing

(* From a console on its own drive the shell never leaves the drive.       *)
LEMMA StaysOnDrive ==
    ASSUME Advancing, OnDrive(here, console), WellNamed(Line)
    PROVE  OnDrive(here, console)'
<1> USE DEF Doing, OnDrive
<1>1. CASE Set \/ Clear \/ CallMissing \/ GoOn
  BY <1>1 DEF Set, Clear, CallMissing, GoOn
<1>2. CASE Move
  <2>1. CASE Cd BY <2>1 DEF Cd, WellNamed
  <2>2. CASE CdD BY <2>2 DEF CdD, WellNamed
  <2>3. CASE CdHere
    <3>1. here' \in {Line.arg, "stray", here}
      BY <2>3 DEF CdHere
    <3>2. Line.arg \notin OffDrive /\ "stray" \notin OffDrive
      BY <2>3 DEF CdHere, WellNamed, OffDrive
    <3> QED
      BY <2>3, <3>1, <3>2 DEF CdHere
  <2>4. CASE Enter BY <2>4 DEF Enter, WellNamed
  <2> QED
    BY <1>2, <2>1, <2>2, <2>3, <2>4 DEF Move
<1>3. CASE Prepare
  BY <1>3 DEF Prepare, Mkdir, MkdirHere, Unpack, UnpackHere, Generate
<1>4. CASE Work
  BY <1>4 DEF Work, Tool, Msbuild, MsbuildFails, Install, InstallFails, Pause
<1> QED
  BY <1>1, <1>2, <1>3, <1>4 DEF Advancing

(* The shell is in d, if d is there.                                       *)
LEMMA PlacedAt ==
    ASSUME NEW f, NEW g, NEW d, NEW e, NEW h, NEW k, NEW there, NEW later, NEW from,
           Holds(f, e, h, there, from), there \subseteq later,
           g.vars = f.vars, g.must = f.must, f.may \subseteq g.may, later \subseteq g.may,
           g.place \subseteq {<<d, d>>},
           g.place # {} /\ Trusted(d, later, from) => k = d,
           g.away /\ from # "elsewhere" => k \notin Consoles
    PROVE  Holds(g, e, k, later, from)
<1>1. ASSUME NEW x \in g.place, Trusted(x[1], later, from) PROVE k = x[2]
  <2>1. x = <<d, d>>
    OBVIOUS
  <2>2. x[1] = d /\ x[2] = d
    BY <2>1
  <2> QED
    BY <1>1, <2>2
<1> QED
  BY <1>1 DEF Holds

(* What is sure after a line that moves the shell.                         *)
LEMMA MoveHolds ==
    ASSUME Move, NEW f \in Facts, Holds(f, env, here, disk, console),
           OnDrive(here, console), WellNamed(Line)
    PROVE  Holds(After(f, Line), env', here', disk', console')
<1> USE DEF Doing
<1>1. CASE Cd \/ CdD
  <2>1. Line.op \in {"cd", "cdD"} /\ UNCHANGED <<env, disk, console>>
    BY <1>1 DEF Cd, CdD
  <2>2. Line.arg \notin OffDrive /\ (Line.op = "cd" => Line.arg # "scripts")
    BY <2>1 DEF WellNamed
  <2>3. Line.arg \notin disk \union {"scripts"} => here' = here
    BY <1>1 DEF Cd, CdD, Reaches
  <2>4. Trusted(Line.arg, disk, console) => here' = Line.arg
    BY <1>1, <2>1, <2>2 DEF Cd, CdD, Reaches, Trusted, OnDrive
  <2>5. here' \in {here, Line.arg}
    BY <1>1 DEF Cd, CdD
  <2>6. CASE Line.arg \in f.may
    <3>1. After(f, Line) = MovedTo(f, Line)
      BY <2>1, <2>6 DEF After
    <3>2. console # "elsewhere" /\ Line.arg \notin Consoles /\ (f.away \/ Line.arg \in f.must) =>
              here' \notin Consoles
      <4>1. CASE Line.arg \in f.must
        BY <2>4, <4>1 DEF Holds, Trusted
      <4>2. CASE f.away
        BY <2>5, <4>2 DEF Holds
      <4> QED
        BY <4>1, <4>2
    <3> DEFINE g == MovedTo(f, Line)
    <3>3. /\ g.vars = f.vars /\ g.may = f.may /\ g.must = f.must
          /\ g.place = {<<Line.arg, Line.arg>>}
          /\ g.away => Line.arg \notin Consoles /\ (f.away \/ Line.arg \in f.must)
      BY DEF MovedTo
    <3> HIDE DEF g
    <3>4. disk \subseteq f.may
      BY DEF Holds
    <3>5. Holds(g, env, here', disk, console)
      BY <2>4, <3>2, <3>3, <3>4, PlacedAt
    <3> QED
      BY <2>1, <3>1, <3>5 DEF g
  <2>7. CASE Line.arg \notin f.may
    <3>1. After(f, Line) = f
      BY <2>1, <2>7 DEF After
    <3>2. here' = here
      BY <2>3, <2>7 DEF Holds
    <3> QED
      BY <2>1, <3>1, <3>2
  <2> QED
    BY <2>6, <2>7
<1>2. CASE CdHere
  <2>1. Line.op = "cdHere" /\ UNCHANGED <<env, disk, console>>
    BY <1>2 DEF CdHere
  <2>2. Line.arg # "scripts"
    BY <2>1 DEF WellNamed
  <2>3. here' \in {Line.arg, "stray", here}
    BY <1>2 DEF CdHere
  <2>4. here = Line.dir /\ Line.arg \in disk => here' = Line.arg
    BY <1>2 DEF CdHere
  <2>5. After(f, Line) = MovedInto(f, Line)
    BY <2>1 DEF After
  <2>6. ASSUME <<Line.arg, Line.dir>> \in f.place \/ Line.arg \notin f.may,
               Trusted(Line.arg, disk, console)
        PROVE  here' = Line.arg
    <3>1. Line.arg \in disk /\ Line.arg \in f.may
      BY <2>2, <2>6 DEF Trusted, Holds
    <3>2. here = Line.dir
      BY <2>6, <3>1 DEF Holds
    <3> QED
      BY <2>4, <3>1, <3>2
  <2>7. f.away /\ Line.arg \notin Consoles /\ console # "elsewhere" => here' \notin Consoles
    BY <2>3 DEF Holds, Consoles
  <2> DEFINE g == MovedInto(f, Line)
  <2>8. /\ g.vars = f.vars /\ g.may = f.may /\ g.must = f.must
        /\ g.place = {x \in {<<Line.arg, Line.arg>>} :
                         <<Line.arg, Line.dir>> \in f.place \/ Line.arg \notin f.may}
        /\ g.away => f.away /\ Line.arg \notin Consoles
    BY DEF MovedInto
  <2> HIDE DEF g
  <2>9. disk \subseteq f.may
    BY DEF Holds
  <2>10. Holds(g, env, here', disk, console)
    BY <2>6, <2>7, <2>8, <2>9, PlacedAt
  <2> QED
    BY <2>1, <2>5, <2>10 DEF g
<1>3. CASE Enter
  <2>1. Line.op = "enter" /\ UNCHANGED <<env, console>>
    BY <1>3 DEF Enter
  <2>2. Line.arg # "scripts"
    BY <2>1 DEF WellNamed
  <2>3. console # "elsewhere" => here' = Line.arg
    BY <1>3 DEF Enter, OnDrive
  <2>4. disk \subseteq disk' /\ disk' \subseteq disk \union {Line.arg}
    BY <1>3 DEF Enter
  <2>5. After(f, Line) = Entered(f, Line)
    BY <2>1 DEF After
  <2> DEFINE g == Entered(f, Line)
  <2>6. /\ g.vars = f.vars /\ g.may = f.may \union {Line.arg} /\ g.must = f.must
        /\ g.place = {<<Line.arg, Line.arg>>}
        /\ g.away => Line.arg \notin Consoles
    BY DEF Entered
  <2> HIDE DEF g
  <2>7. disk' \subseteq g.may
    BY <2>4, <2>6 DEF Holds
  <2>8. Trusted(Line.arg, disk', console) => here' = Line.arg
    BY <2>2, <2>3 DEF Trusted
  <2>10. disk \subseteq disk' /\ f.may \subseteq g.may /\ g.place \subseteq {<<Line.arg, Line.arg>>}
    BY <2>4, <2>6
  <2>11. g.away /\ console # "elsewhere" => here' \notin Consoles
    BY <2>3, <2>6
  <2>12. g.vars = f.vars /\ g.must = f.must
    BY <2>6
  <2>9. Holds(g, env, here', disk', console)
    BY <2>7, <2>8, <2>10, <2>11, <2>12, PlacedAt
  <2> QED
    BY <2>1, <2>5, <2>9 DEF g
<1> QED
  BY <1>1, <1>2, <1>3 DEF Move

(* A directory made in one place only.                                     *)
LEMMA MadeHereHolds ==
    ASSUME NEW f \in Facts, NEW c \in Commands, NEW new, NEW e, NEW h, NEW there, NEW later, NEW from,
           Holds(f, e, h, there, from), c.arg \in new,
           there \subseteq later, later \subseteq there \union new,
           c.arg \in later => c.arg \in there \/ h = c.dir
    PROVE  Holds(MadeHere(f, c, new), e, h, later, from)
<1> DEFINE g == MadeHere(f, c, new)
<1>1. /\ g.vars = f.vars /\ g.may = f.may \union new /\ g.must = f.must /\ g.away = f.away
      /\ g.place = {x \in f.place : x[1] \notin new}
             \union {x \in {<<c.arg, c.dir>>} : x \in f.place \/ c.arg \notin f.may}
  BY DEF MadeHere
<1> HIDE DEF g
<1>2. ASSUME NEW x \in g.place, Trusted(x[1], later, from) PROVE h = x[2]
  <2>1. CASE x \in f.place /\ x[1] \notin new
    BY <1>2, <2>1 DEF Holds, Trusted
  <2>2. CASE x = <<c.arg, c.dir>> /\ (x \in f.place \/ c.arg \notin f.may)
    <3>1. x[1] = c.arg /\ x[2] = c.dir
      BY <2>2
    <3>2. CASE c.arg = "scripts"
      BY <2>2, <3>1, <3>2 DEF Holds, Trusted
    <3>3. CASE c.arg # "scripts"
      <4>1. c.arg \in later /\ from # "elsewhere"
        BY <1>2, <3>1, <3>3 DEF Trusted
      <4>2. CASE c.arg \in there
        BY <2>2, <3>1, <4>1, <4>2 DEF Holds, Trusted
      <4>3. CASE h = c.dir
        BY <3>1, <4>3
      <4> QED
        BY <4>1, <4>2, <4>3
    <3> QED
      BY <3>2, <3>3
  <2> QED
    BY <1>1, <1>2, <2>1, <2>2
<1>3. Holds(g, e, h, later, from)
  BY <1>1, <1>2 DEF Holds
<1> QED
  BY <1>3 DEF g

(* What is sure after a line that makes a directory.                       *)
LEMMA PrepareHolds ==
    ASSUME Prepare, Line \in Commands, NEW f \in Facts, Holds(f, env, here, disk, console),
           WellNamed(Line)
    PROVE  Holds(After(f, Line), env', here', disk', console')
<1> USE DEF Doing
<1>1. UNCHANGED <<env, here, console>>
  BY DEF Prepare, Mkdir, MkdirHere, Unpack, UnpackHere, Generate
<1>2. CASE Mkdir
  <2>1. After(f, Line) = MadeAt(f, {Line.arg}, {Line.arg})
    BY <1>2 DEF Mkdir, After
  <2>2. disk' = disk \union {Line.arg}
    BY <1>2 DEF Mkdir
  <2> QED
    BY <1>1, <2>1, <2>2 DEF Holds, MadeAt, Trusted
<1>3. CASE Unpack
  <2>1. After(f, Line) = MadeAt(f, {Line.arg}, {})
    BY <1>3 DEF Unpack, After
  <2>2. disk \subseteq disk' /\ disk' \subseteq disk \union {Line.arg}
    BY <1>3 DEF Unpack
  <2> QED
    BY <1>1, <2>1, <2>2 DEF Holds, MadeAt, Trusted
<1>4. CASE MkdirHere
  <2>1. After(f, Line) = MadeHere(f, Line, {Line.arg, "stray"})
    BY <1>4 DEF MkdirHere, After
  <2>2. disk' = disk \union {IF here = Line.dir THEN Line.arg ELSE "stray"} /\ Line.arg # "stray"
    BY <1>4 DEF MkdirHere, WellNamed
  <2>3. Holds(MadeHere(f, Line, {Line.arg, "stray"}), env, here, disk', console)
    BY <2>2, MadeHereHolds
  <2> QED
    BY <1>1, <2>1, <2>3
<1>5. CASE UnpackHere \/ Generate
  <2>1. After(f, Line) = MadeHere(f, Line, {Line.arg})
    BY <1>5 DEF UnpackHere, Generate, After
  <2>2. disk' = disk \/ (here = Line.dir /\ disk' = disk \union {Line.arg})
    BY <1>5 DEF UnpackHere, Generate, InPlace, WellNamed
  <2>3. Holds(MadeHere(f, Line, {Line.arg}), env, here, disk', console)
    BY <2>2, MadeHereHolds
  <2> QED
    BY <1>1, <2>1, <2>3
<1> QED
  BY <1>2, <1>3, <1>4, <1>5 DEF Prepare

(* What is sure after a line that goes on to the next one.                 *)
LEMMA AfterHolds ==
    ASSUME Advancing, Line \in Commands, NEW f \in Facts, Holds(f, env, here, disk, console),
           OnDrive(here, console), WellNamed(Line)
    PROVE  Holds(After(f, Line), env', here', disk', console')
<1> USE DEF Doing
<1>1. CASE Set
  <2>1. After(f, Line) = [f EXCEPT !.vars = @ \union Line.vars]
    BY <1>1 DEF Set, After
  <2> QED
    BY <1>1, <2>1 DEF Set, Holds, Facts
<1>2. CASE Clear
  <2>1. After(f, Line) = [f EXCEPT !.vars = @ \ Line.vars]
    BY <1>2 DEF Clear, After
  <2> QED
    BY <1>2, <2>1 DEF Clear, Holds, Facts
<1>3. CASE CallMissing \/ GoOn \/ Work
  <2>1. UNCHANGED <<env, here, disk, console>>
    BY <1>3 DEF CallMissing, GoOn, Work, Tool, Msbuild, MsbuildFails, Install, InstallFails, Pause
  <2>2. Line.op \in {"call", "callAt", "mayExit", "tool", "rewrite", "install", "pause"}
                        \union Configurations
    BY <1>3 DEF CallMissing, Calling, GoOn, Work, Tool, Msbuild, MsbuildFails, Install, InstallFails, Pause
  <2>3. After(f, Line) = f
    BY <2>2 DEF After, Configurations
  <2> QED
    BY <2>1, <2>3
<1>4. CASE Move BY <1>4, MoveHolds
<1>5. CASE Prepare BY <1>5, PrepareHolds
<1> QED
  BY <1>1, <1>2, <1>3, <1>4, <1>5 DEF Advancing

-----------------------------------------------------------------------------
(* The line the shell has come to, and what the outline says of it.        *)
LEMMA LineSure ==
    ASSUME OutlineFollows, StackTyped, OutlineHolds, AtLine
    PROVE  /\ Top.script \in Script /\ Top.at \in 1..Len(Program[Top.script])
           /\ Line = Program[Top.script][Top.at] /\ Line \in Commands
           /\ Outline[Top.script][Top.at] \in Facts /\ Outline[Top.script][Top.at + 1] \in Facts
           /\ Holds(Outline[Top.script][Top.at], env, here, disk, console)
           /\ WellNamed(Line) /\ MadeBy(Line) \subseteq Makes[Top.script]
           /\ IF CallsOf(Line)
              THEN Hands(Top.script, Outline[Top.script][Top.at], Line.arg,
                         Outline[Top.script][Top.at + 1])
              ELSE Weaker(Outline[Top.script][Top.at + 1],
                          After(Outline[Top.script][Top.at], Line))
<1> DEFINE s == Top.script
           i == Top.at
<1>1. /\ Top \in Frames /\ Depth \in Nat \ {0} /\ i \in 1..Len(Program[s])
      /\ Line = Program[s][i] /\ Line \in Commands
  BY LineIsCommand DEF Line, Body
<1>2. s \in Script
  BY <1>1 DEF Frames
<1>3. /\ LineFollows(s, i)
      /\ Program[s] \in Seq(Commands)
      /\ \A j \in 1..(Len(Program[s]) + 1) : Outline[s][j] \in Facts
  BY <1>1, <1>2, Outlined
<1>4. i \in 1..(Len(Program[s]) + 1) /\ i + 1 \in 1..(Len(Program[s]) + 1)
  BY <1>1, <1>3
<1>5. Holds(Outline[s][i], env, here, disk, console)
  <2>1. frames # <<>> /\ Len(frames) = Depth /\ Top = frames[Depth]
    BY <1>1 DEF Depth, Top
  <2> QED
    BY <2>1 DEF OutlineHolds, TopSure, Sure
<1> HIDE DEF s, i
<1>6. /\ WellNamed(Line) /\ MadeBy(Line) \subseteq Makes[s]
      /\ IF CallsOf(Line) THEN Hands(s, Outline[s][i], Line.arg, Outline[s][i + 1])
         ELSE Weaker(Outline[s][i + 1], After(Outline[s][i], Line))
  BY <1>1, <1>3 DEF LineFollows
<1>7. Outline[s][i] \in Facts /\ Outline[s][i + 1] \in Facts
  BY <1>3, <1>4
<1> QED
  BY <1>1, <1>2, <1>5, <1>6, <1>7 DEF s, i

(* Going on to the next line, the shell comes to what the outline says.    *)
LEMMA NextLineHolds ==
    ASSUME OutlineFollows, StackTyped, OutlineHolds, Advancing
    PROVE  Holds(Outline[Top.script][Top.at + 1], env', here', disk', console')
<1> DEFINE f == Outline[Top.script][Top.at]
           g == Outline[Top.script][Top.at + 1]
<1>1. AtLine
  BY AdvancingStep
<1>2. /\ Line \in Commands /\ f \in Facts /\ Holds(f, env, here, disk, console)
      /\ WellNamed(Line)
      /\ IF CallsOf(Line) THEN Hands(Top.script, f, Line.arg, g) ELSE Weaker(g, After(f, Line))
  BY <1>1, LineSure
<1> HIDE DEF f, g
<1>3. CASE ~CallsOf(Line)
  <2>1. Holds(After(f, Line), env', here', disk', console')
    BY <1>2, AfterHolds DEF OutlineHolds, DriveKept
  <2> QED
    BY <1>2, <1>3, <2>1, WeakerHolds DEF g
<1>4. CASE CallsOf(Line)
  <2>1. CallMissing
    <3>1. Line.op \in {"call", "callAt"}
      BY <1>4 DEF CallsOf
    <3>2. ~Set /\ ~Clear /\ ~GoOn
      BY <3>1 DEF Set, Clear, GoOn, Doing
    <3>3. ~Move
      BY <3>1 DEF Move, Cd, CdD, CdHere, Enter, Doing
    <3>4. ~Prepare
      BY <3>1 DEF Prepare, Mkdir, MkdirHere, Unpack, UnpackHere, Generate, Doing
    <3>5. ~Work
      BY <3>1 DEF Work, Tool, Msbuild, MsbuildFails, Install, InstallFails, Pause, Doing, Configurations
    <3> QED
      BY <3>2, <3>3, <3>4, <3>5 DEF Advancing
  <2>2. UNCHANGED <<env, here, disk, console>>
    BY <2>1 DEF CallMissing
  <2>3. Line.arg # Setup
    BY <1>2, <1>4, <2>1 DEF CallMissing, Found, WellNamed, CallsOf
  <2>4. Weaker(g, f)
    BY <1>2, <1>4, <2>3 DEF Hands, Weaker
  <2> QED
    BY <1>2, <2>2, <2>4, WeakerHolds DEF g
<1> QED
  BY <1>3, <1>4

(* common-setup only sets variables.                                       *)
LEMMA SetupSets ==
    ASSUME OutlineFollows, StackTyped, AtLine, Top.script = Setup
    PROVE  Line.op = "set"
<1>1. Top.at \in 1..Len(Body) /\ Body \in Seq(Commands)
  BY LineIsCommand
<1>2. Top.at \in DOMAIN Program[Setup]
  BY <1>1 DEF Body
<1> QED
  BY <1>2 DEF OutlineFollows, Line, Body

(* A step to the next line, whatever it does on the way: the callers stay  *)
(* sure of what they were.                                                 *)
LEMMA Forward ==
    ASSUME OutlineFollows, StackTyped, StackTyped', OutlineHolds, AtLine,
           Len(frames') = Depth,
           \A i \in 1..Depth : i # Depth => frames'[i] = frames[i],
           frames'[Depth].script = Top.script, frames'[Depth].at = Top.at + 1,
           frames'[Depth].from = Top.from,
           OnDrive(here', console), OnDrive(frames'[Depth].home.here, console),
           disk \subseteq disk', disk' \subseteq disk \union MadeBy(Line), console' = console,
           Holds(Outline[Top.script][Top.at + 1], env', here', disk', console'),
           Top.script = Setup =>
               ~frames'[Depth].saved /\ here' = Top.from.here /\ Top.from.env \subseteq env'
    PROVE  OutlineHolds'
<1>1. Depth = Len(frames) /\ Depth \in Nat \ {0} /\ Top = frames[Depth]
  BY LineIsCommand DEF Depth, Top
<1>2. Top.at \in 1..Len(Program[Top.script]) /\ MadeBy(Line) \subseteq Makes[Top.script]
  BY LineSure
<1>3. \A i \in 1..Depth : frames'[i].script = frames[i].script /\ frames'[i].from = frames[i].from
  BY <1>1
<1>4. StackSure'
  <2>1. \A i \in 1..Depth : frames'[i].at <= Len(Program[frames'[i].script]) + 1
    <3>1. Len(Program[Top.script]) \in Nat
      BY <1>1, LineSure, Outlined
    <3> SUFFICES ASSUME NEW i \in 1..Depth
                 PROVE  frames'[i].at <= Len(Program[frames'[i].script]) + 1
      OBVIOUS
    <3>2. CASE i = Depth
      <4>1. frames'[i].at = Top.at + 1 /\ frames'[i].script = Top.script
        BY <3>2
      <4>2. Top.at + 1 <= Len(Program[Top.script]) + 1
        BY <1>2, <3>1
      <4> QED
        BY <4>1, <4>2
    <3>3. CASE i # Depth
      BY <1>1, <3>3 DEF OutlineHolds, StackSure
    <3> QED
      BY <3>2, <3>3
  <2> QED
    BY <1>1, <1>3, <2>1 DEF OutlineHolds, StackSure
<1>5. DriveKept'
  <2>1. \A i \in 1..Depth : OnDrive(frames'[i].from.here, console)
    BY <1>1, <1>3 DEF OutlineHolds, DriveKept
  <2>2. \A i \in 1..Depth : OnDrive(frames'[i].home.here, console)
    BY <1>1 DEF OutlineHolds, DriveKept
  <2> QED
    BY <2>1, <2>2 DEF DriveKept
<1>6. TopSure'
  BY <1>1 DEF TopSure, Sure, Top, Depth
<1>7. CallersSure'
  <2> SUFFICES ASSUME NEW i \in 1..(Depth - 1)
               PROVE  /\ Holds(Sure(i), Resumed(i), frames[i + 1].from.here, disk, console)'
                      /\ Makes[frames'[i + 1].script] \subseteq Sure(i)'.may
                      /\ \A x \in Sure(i)'.place : x[1] \notin Makes[frames'[i + 1].script]
                      /\ frames'[i].script # Setup
    BY DEF CallersSure
  <2>1. i \in 1..Depth /\ i + 1 \in 1..Depth /\ i # Depth
    BY <1>1
  <2>2. Sure(i)' = Sure(i) /\ frames'[i] = frames[i]
    BY <2>1 DEF Sure
  <2>3. /\ frames'[i + 1].script = frames[i + 1].script
        /\ frames'[i + 1].from = frames[i + 1].from
    BY <1>3, <2>1
  <2>4. Resumed(i)' = Resumed(i)
    BY <2>3 DEF Resumed
  <2>5. /\ Holds(Sure(i), Resumed(i), frames[i + 1].from.here, disk, console)
        /\ Makes[frames[i + 1].script] \subseteq Sure(i).may
        /\ \A x \in Sure(i).place : x[1] \notin Makes[frames[i + 1].script]
        /\ frames[i].script # Setup
    BY <1>1 DEF OutlineHolds, CallersSure
  <2>6. MadeBy(Line) \subseteq Makes[frames[i + 1].script]
    <3> DEFINE j == i + 1
    <3>3. j \in 1..Len(frames) /\ Depth \in 1..Len(frames) /\ j <= Depth
      BY <1>1, <2>1
    <3> HIDE DEF j
    <3>4. Makes[frames[Depth].script] \subseteq Makes[frames[j].script]
      BY <3>3 DEF OutlineHolds, StackSure
    <3>1. Makes[frames[Depth].script] \subseteq Makes[frames[i + 1].script]
      BY <3>4 DEF j
    <3> QED
      BY <1>1, <1>2, <3>1
  <2>7. disk' \subseteq disk \union Makes[frames[i + 1].script]
    BY <2>6
  <2>8. Holds(Sure(i), Resumed(i), frames[i + 1].from.here, disk', console)
    BY <2>5, <2>7, HoldsMeanwhile
  <2> QED
    BY <2>2, <2>3, <2>4, <2>5, <2>8
<1> QED
  BY <1>4, <1>5, <1>6, <1>7 DEF OutlineHolds

LEMMA OutlineOnAdvance ==
    ASSUME OutlineFollows, StackTyped, StackTyped', OutlineHolds, Advancing
    PROVE  OutlineHolds'
<1>1. AtLine /\ frames' = Advanced
  BY AdvancingStep
<1>2. Depth = Len(frames) /\ Depth \in Nat \ {0} /\ Top = frames[Depth] /\ Top \in Frames
  BY <1>1, LineIsCommand DEF Depth, Top
<1>3. Len(frames') = Depth /\ frames'[Depth] = [Top EXCEPT !.at = @ + 1]
      /\ (\A i \in 1..Depth : i # Depth => frames'[i] = frames[i])
  BY <1>1, AdvancedFrames
<1>4. frames'[Depth].script = Top.script /\ frames'[Depth].at = Top.at + 1
      /\ frames'[Depth].from = Top.from /\ frames'[Depth].home = Top.home
      /\ frames'[Depth].saved = Top.saved
  BY <1>2, <1>3 DEF Frames
<1>5. disk \subseteq disk' /\ disk' \subseteq disk \union MadeBy(Line) /\ console' = console
  BY DiskGrows
<1>6. OnDrive(here', console)
  BY <1>1, <1>5, LineSure, StaysOnDrive DEF OutlineHolds, DriveKept
<1>7. OnDrive(frames'[Depth].home.here, console)
  BY <1>2, <1>4 DEF OutlineHolds, DriveKept
<1>8. Holds(Outline[Top.script][Top.at + 1], env', here', disk', console')
  BY NextLineHolds
<1>9. ASSUME Top.script = Setup
      PROVE  ~frames'[Depth].saved /\ here' = Top.from.here /\ Top.from.env \subseteq env'
  <2>1. Line.op = "set"
    BY <1>1, <1>9, SetupSets
  <2>2. Set
    <3>1. ~Clear /\ ~GoOn /\ ~CallMissing
      BY <2>1 DEF Clear, GoOn, CallMissing, Calling, Doing
    <3>2. ~Move
      BY <2>1 DEF Move, Cd, CdD, CdHere, Enter, Doing
    <3>3. ~Prepare
      BY <2>1 DEF Prepare, Mkdir, MkdirHere, Unpack, UnpackHere, Generate, Doing
    <3>4. ~Work
      BY <2>1 DEF Work, Tool, Msbuild, MsbuildFails, Install, InstallFails, Pause, Doing, Configurations
    <3> QED
      BY <3>1, <3>2, <3>3, <3>4 DEF Advancing
  <2>3. here' = here /\ env \subseteq env'
    BY <2>2 DEF Set
  <2>4. ~Top.saved /\ here = Top.from.here /\ Top.from.env \subseteq env
    BY <1>2, <1>9 DEF OutlineHolds, TopSure
  <2> QED
    BY <1>4, <2>3, <2>4
<1> QED
  BY <1>1, <1>3, <1>4, <1>5, <1>6, <1>7, <1>8, <1>9, Forward

LEMMA OutlineOnSetlocal ==
    ASSUME OutlineFollows, StackTyped, StackTyped', OutlineHolds, Setlocal
    PROVE  OutlineHolds'
<1>1. AtLine /\ Line.op = "setlocal" /\ UNCHANGED <<env, here, disk, console>>
  BY DEF Setlocal, Doing
<1>2. Depth = Len(frames) /\ Depth \in Nat \ {0} /\ Top = frames[Depth] /\ Top \in Frames
  BY <1>1, LineIsCommand DEF Depth, Top
<1>3. Len(frames') = Depth
      /\ frames'[Depth] = [script |-> Top.script, at |-> Top.at + 1, saved |-> TRUE,
                           from |-> Top.from, home |-> Now]
      /\ (\A i \in 1..Depth : i # Depth => frames'[i] = frames[i])
  BY <1>1, ScopedFrames
<1>4. frames'[Depth].script = Top.script /\ frames'[Depth].at = Top.at + 1
      /\ frames'[Depth].from = Top.from /\ frames'[Depth].home.here = here
  BY <1>3 DEF Now
<1>5. Top.script # Setup
  BY <1>1, SetupSets
<1>6. OnDrive(here', console) /\ OnDrive(frames'[Depth].home.here, console)
  BY <1>1, <1>4 DEF OutlineHolds, DriveKept
<1>7. Holds(Outline[Top.script][Top.at + 1], env', here', disk', console')
  <2> DEFINE f == Outline[Top.script][Top.at]
             g == Outline[Top.script][Top.at + 1]
  <2>1. /\ Holds(f, env, here, disk, console)
        /\ IF CallsOf(Line) THEN Hands(Top.script, f, Line.arg, g)
           ELSE Weaker(g, After(f, Line))
    BY <1>1, LineSure
  <2> HIDE DEF f, g
  <2>2. ~CallsOf(Line) /\ After(f, Line) = f
    BY <1>1 DEF CallsOf, After
  <2>3. Holds(g, env, here, disk, console)
    BY <2>1, <2>2, WeakerHolds
  <2> QED
    BY <1>1, <2>3 DEF g
<1>8. disk \subseteq disk' /\ disk' \subseteq disk \union MadeBy(Line) /\ console' = console
  BY <1>1
<1> QED
  BY <1>1, <1>3, <1>4, <1>5, <1>6, <1>7, <1>8, Forward

(* A call: the script begins with what its caller hands over, and the      *)
(* caller keeps what the script cannot disturb.                            *)
LEMMA OutlineOnCall ==
    ASSUME OutlineFollows, StackTyped, StackTyped', OutlineHolds, Call
    PROVE  OutlineHolds'
<1> DEFINE t == Line.arg
           f == Outline[Top.script][Top.at]
           g == Outline[Top.script][Top.at + 1]
           entry == Outline[t][1]
<1>1. AtLine /\ Line.op \in {"call", "callAt"} /\ t \in Script /\ CallsOf(Line)
      /\ UNCHANGED <<here, env, console>>
  BY DEF Call, Calling, Doing, Found, CallsOf
<1>2. Depth = Len(frames) /\ Depth \in Nat \ {0} /\ Top = frames[Depth] /\ Top \in Frames
  BY <1>1, LineIsCommand DEF Depth, Top
<1>3. Advanced \in Seq(Frames) /\ Len(Advanced) = Depth
      /\ Advanced[Depth] = [Top EXCEPT !.at = @ + 1]
      /\ (\A i \in 1..Depth : i # Depth => Advanced[i] = frames[i])
  BY <1>1, AdvancedFrames
<1>4. frames' = Append(Advanced, NewFrame(t))
  BY DEF Call
<1>5. Len(frames') = Depth + 1 /\ frames'[Depth + 1] = NewFrame(t)
      /\ (\A i \in 1..Depth : frames'[i] = Advanced[i])
  BY <1>2, <1>3, <1>4
<1>6. /\ frames'[Depth].script = Top.script /\ frames'[Depth].at = Top.at + 1
      /\ frames'[Depth].from = Top.from /\ frames'[Depth].home = Top.home
  BY <1>2, <1>3, <1>5 DEF Frames
<1>7. /\ frames'[Depth + 1].script = t /\ frames'[Depth + 1].at = 1
      /\ frames'[Depth + 1].from = Now /\ frames'[Depth + 1].home = Now
      /\ ~frames'[Depth + 1].saved
  BY <1>5 DEF NewFrame
<1>8. \A i \in 1..Depth :
          /\ frames'[i].script = frames[i].script
          /\ frames'[i].from = frames[i].from /\ frames'[i].home = frames[i].home
          /\ i # Depth => frames'[i] = frames[i]
  BY <1>2, <1>3, <1>5, <1>6
<1>9. /\ Top.script \in Script /\ Top.at \in 1..Len(Program[Top.script])
      /\ f \in Facts /\ g \in Facts
      /\ Holds(f, env, here, disk, console)
      /\ t # Master /\ Hands(Top.script, f, t, g)
  BY <1>1, LineSure DEF WellNamed
<1>10. Now.here = here /\ Now.env = env
  BY DEF Now
<1>11. Top.script # Setup
  BY <1>1, SetupSets
<1>12. IF Depth = 1 /\ Top.script = Master THEN disk' = {} ELSE disk' = disk
  BY DEF Call
<1>13. Top.script = Master => Depth = 1
  BY <1>2 DEF OutlineHolds, StackSure
<1> HIDE DEF t, f, g, entry
<1>14. Holds(entry, env, here, disk', console)
  <2>1. CASE Top.script = Master
    BY <1>9, <1>12, <1>13, <2>1, ScratchHolds DEF Hands, entry
  <2>2. CASE Top.script # Master
    BY <1>9, <1>12, <2>2, WeakerHolds DEF Hands, entry
  <2> QED
    BY <2>1, <2>2
<1>15. Holds(g, env \union (IF t = Setup THEN AtEnd(Setup).vars ELSE {}), here, disk', console)
  <2>1. /\ g.vars \subseteq f.vars \union (IF t = Setup THEN AtEnd(Setup).vars ELSE {})
        /\ g.place \subseteq f.place
        /\ f.may \subseteq g.may /\ g.must \subseteq f.must /\ (g.away => f.away)
        /\ (Top.script = Master => g.must = {})
    BY <1>9 DEF Hands
  <2>2. disk' \subseteq disk /\ (disk' = disk \/ g.must = {})
    BY <1>12, <2>1
  <2> QED
    BY <1>9, <2>1, <2>2 DEF Holds, Trusted
<1>16. Makes[t] \subseteq Makes[Top.script] /\ Makes[t] \subseteq g.may
       /\ (\A x \in g.place : x[1] \notin Makes[t])
  BY <1>9 DEF Hands
<1>17. StackSure'
  <2>1. \A i \in 1..(Depth + 1) : frames'[i].at <= Len(Program[frames'[i].script]) + 1
    <3> SUFFICES ASSUME NEW i \in 1..(Depth + 1)
                 PROVE  frames'[i].at <= Len(Program[frames'[i].script]) + 1
      OBVIOUS
    <3>1. Len(Program[Top.script]) \in Nat /\ Len(Program[t]) \in Nat
      BY <1>1, <1>9, Outlined
    <3>2. CASE i = Depth + 1
      BY <1>7, <3>1, <3>2
    <3>3. CASE i = Depth
      <4>1. Top.at + 1 <= Len(Program[Top.script]) + 1
        BY <1>9, <3>1
      <4> QED
        BY <1>6, <3>3, <4>1
    <3>4. CASE i \notin {Depth, Depth + 1}
      <4>1. i \in 1..Len(frames) /\ frames'[i] = frames[i]
        BY <1>2, <1>8, <3>4
      <4> QED
        BY <4>1 DEF OutlineHolds, StackSure
    <3> QED
      BY <3>2, <3>3, <3>4
  <2>2. \A i \in 1..(Depth + 1) : frames'[i].script = Master => i = 1
    <3> SUFFICES ASSUME NEW i \in 1..(Depth + 1), frames'[i].script = Master PROVE i = 1
      OBVIOUS
    <3>1. i # Depth + 1
      BY <1>7, <1>9
    <3>2. i \in 1..Len(frames) /\ frames[i].script = Master
      BY <1>2, <1>8, <3>1
    <3> QED
      BY <3>2 DEF OutlineHolds, StackSure
  <2>3. ASSUME NEW i \in 1..(Depth + 1), NEW j \in 1..(Depth + 1), i <= j
        PROVE  Makes[frames'[j].script] \subseteq Makes[frames'[i].script]
    <3>1. CASE j # Depth + 1
      <4>1. i \in 1..Len(frames) /\ j \in 1..Len(frames)
        BY <1>2, <2>3, <3>1
      <4>2. frames'[i].script = frames[i].script /\ frames'[j].script = frames[j].script
        BY <1>2, <1>8, <4>1
      <4> QED
        BY <2>3, <4>1, <4>2 DEF OutlineHolds, StackSure
    <3>2. CASE j = Depth + 1 /\ i # Depth + 1
      <4>1. i \in 1..Len(frames) /\ Depth \in 1..Len(frames) /\ i <= Depth
        BY <1>2, <3>2
      <4>2. Makes[frames[Depth].script] \subseteq Makes[frames[i].script]
        BY <4>1 DEF OutlineHolds, StackSure
      <4>3. frames'[i].script = frames[i].script
        BY <1>2, <1>8, <4>1
      <4> QED
        BY <1>2, <1>7, <1>16, <3>2, <4>2, <4>3
    <3>3. CASE i = Depth + 1 /\ j = Depth + 1
      BY <3>3
    <3> QED
      BY <3>1, <3>2, <3>3
  <2> QED
    BY <1>5, <2>1, <2>2, <2>3 DEF StackSure
<1>18. DriveKept'
  <2>1. OnDrive(here, console)
    BY DEF OutlineHolds, DriveKept
  <2> SUFFICES ASSUME NEW i \in 1..(Depth + 1)
               PROVE  /\ OnDrive(frames'[i].from.here, console)
                      /\ OnDrive(frames'[i].home.here, console)
    BY <1>1, <1>5, <2>1 DEF DriveKept
  <2>2. CASE i = Depth + 1
    BY <1>7, <1>10, <2>1, <2>2
  <2>3. CASE i # Depth + 1
    <3>1. i \in 1..Len(frames) /\ i \in 1..Depth
      BY <1>2, <2>3
    <3> QED
      BY <1>8, <3>1 DEF OutlineHolds, DriveKept
  <2> QED
    BY <2>2, <2>3
<1>19. TopSure'
  <2>1. Top' = frames'[Depth + 1] /\ Sure(Len(frames))' = entry
    BY <1>5, <1>7 DEF Top, Depth, Sure, entry
  <2>2. ~Top'.saved /\ here' = Top'.from.here /\ Top'.from.env \subseteq env'
    BY <1>1, <1>7, <1>10, <2>1
  <2> QED
    BY <1>1, <1>14, <2>1, <2>2 DEF TopSure
<1>20. CallersSure'
  <2> SUFFICES ASSUME NEW i \in 1..Depth
               PROVE  /\ Holds(Sure(i), Resumed(i), frames[i + 1].from.here, disk, console)'
                      /\ Makes[frames'[i + 1].script] \subseteq Sure(i)'.may
                      /\ \A x \in Sure(i)'.place : x[1] \notin Makes[frames'[i + 1].script]
                      /\ frames'[i].script # Setup
    <3>1. Len(frames') - 1 = Depth
      BY <1>2, <1>5
    <3> QED
      BY <3>1 DEF CallersSure
  <2>1. CASE i = Depth
    <3>1. Sure(i)' = g
      BY <1>6, <2>1 DEF Sure, g
    <3>2. frames'[i + 1] = frames'[Depth + 1]
      BY <2>1
    <3>3. Resumed(i)' = env \union (IF t = Setup THEN AtEnd(Setup).vars ELSE {})
      BY <1>7, <1>10, <3>2 DEF Resumed
    <3>4. frames'[i + 1].from.here = here /\ frames'[i + 1].script = t
      BY <1>7, <1>10, <3>2
    <3> QED
      BY <1>1, <1>6, <1>11, <1>15, <1>16, <2>1, <3>1, <3>3, <3>4
  <2>2. CASE i # Depth
    <3>1. i \in 1..(Len(frames) - 1) /\ i \in 1..Depth /\ i + 1 \in 1..Depth /\ Depth # 1
      BY <1>2, <2>2
    <3>2. Sure(i)' = Sure(i) /\ frames'[i].script = frames[i].script
      BY <1>8, <2>2, <3>1 DEF Sure
    <3>3. frames'[i + 1].script = frames[i + 1].script /\ frames'[i + 1].from = frames[i + 1].from
      BY <1>8, <3>1
    <3>4. Resumed(i)' = Resumed(i)
      BY <3>3 DEF Resumed
    <3>5. disk' = disk
      BY <1>12, <3>1
    <3>6. /\ Holds(Sure(i), Resumed(i), frames[i + 1].from.here, disk, console)
          /\ Makes[frames[i + 1].script] \subseteq Sure(i).may
          /\ \A x \in Sure(i).place : x[1] \notin Makes[frames[i + 1].script]
          /\ frames[i].script # Setup
      BY <3>1 DEF OutlineHolds, CallersSure
    <3> QED
      BY <1>1, <3>2, <3>3, <3>4, <3>5, <3>6
  <2> QED
    BY <2>1, <2>2
<1> QED
  BY <1>17, <1>18, <1>19, <1>20 DEF OutlineHolds

(* A return: the caller goes on where, and with what, it was waiting for.  *)
LEMMA OutlineOnReturn ==
    ASSUME OutlineFollows, WellScoped, StackTyped, StackTyped', CallersKept, OutlineHolds,
           Return \/ Exit
    PROVE  OutlineHolds'
<1>1. Depth = Len(frames) /\ Depth \in Nat \ {0} /\ Top = frames[Depth] /\ Top \in Frames
  BY DEF Return, Exit, Doing, AtLine, Depth, Top, StackTyped
<1>2. Pop /\ UNCHANGED <<disk, console>>
  BY DEF Return, Exit
<1>3. Len(frames') = Depth - 1 /\ (\A i \in 1..(Depth - 1) : frames'[i] = frames[i])
  BY <1>1, <1>2 DEF Pop, StackTyped
<1>4. \A i \in 1..(Depth - 1) : i \in 1..Len(frames)
  BY <1>1
<1>5. StackSure'
  BY <1>3, <1>4 DEF OutlineHolds, StackSure
<1>6. DriveKept'
  <2>1. OnDrive(Restored(Top).here, console)
    BY <1>1 DEF Restored, Now, OutlineHolds, DriveKept
  <2>2. OnDrive(here', console')
    BY <1>2, <2>1 DEF Pop
  <2>3. \A i \in 1..(Depth - 1) :
            OnDrive(frames'[i].from.here, console') /\ OnDrive(frames'[i].home.here, console')
    BY <1>2, <1>3, <1>4 DEF OutlineHolds, DriveKept
  <2> QED
    BY <1>3, <2>2, <2>3 DEF DriveKept
<1>7. CallersSure'
  <2> SUFFICES ASSUME NEW i \in 1..(Depth - 2)
               PROVE  /\ Holds(Sure(i), Resumed(i), frames[i + 1].from.here, disk, console)'
                      /\ Makes[frames'[i + 1].script] \subseteq Sure(i)'.may
                      /\ \A x \in Sure(i)'.place : x[1] \notin Makes[frames'[i + 1].script]
                      /\ frames'[i].script # Setup
    <3>1. Len(frames') - 1 = Depth - 2
      BY <1>1, <1>3
    <3> QED
      BY <3>1 DEF CallersSure
  <2>1. i \in 1..(Len(frames) - 1) /\ i \in 1..(Depth - 1) /\ i + 1 \in 1..(Depth - 1)
    BY <1>1
  <2>2. frames'[i] = frames[i] /\ frames'[i + 1] = frames[i + 1]
    BY <1>3, <2>1
  <2>3. Sure(i)' = Sure(i) /\ Resumed(i)' = Resumed(i)
    BY <2>2 DEF Sure, Resumed
  <2> QED
    BY <1>2, <2>1, <2>2, <2>3 DEF OutlineHolds, CallersSure
<1>8. TopSure'
  <2>1. CASE Depth = 1
    <3>1. frames' = <<>>
      BY <1>1, <1>2, <2>1 DEF Pop, StackTyped
    <3> QED
      BY <3>1 DEF TopSure
  <2>2. CASE Depth > 1
    <3> DEFINE i == Depth - 1
    <3>1. i \in 1..(Len(frames) - 1) /\ i \in 1..(Depth - 1) /\ i + 1 = Depth
      BY <1>1, <2>2
    <3>2. frames'[i] = frames[i] /\ Len(frames') = i /\ Sure(Len(frames))' = Sure(i)
      BY <1>3, <3>1 DEF Sure
    <3> HIDE DEF i
    <3>3. /\ Holds(Sure(i), Resumed(i), Top.from.here, disk, console)
          /\ frames[i].script # Setup
      BY <1>1, <3>1 DEF OutlineHolds, CallersSure
    <3>4. Resumed(i) = Top.from.env
              \union (IF Top.script = Setup THEN AtEnd(Setup).vars ELSE {})
      BY <1>1, <3>1 DEF Resumed
    <3>5. here' = Top.from.here /\ Resumed(i) \subseteq env'
      <4>1. CASE Top.script # Setup
        <5>1. [ShellNext]_vars
          BY DEF ShellNext, ShellStep, Control
        <5>2. here' = Top.from.here /\ env' = Top.from.env
          BY <1>3, <2>2, <4>1, <5>1, ReturnGivesBack
        <5> QED
          BY <3>4, <4>1, <5>2
      <4>2. CASE Top.script = Setup
        <5>1. ~Exit
          <6>1. Exit => AtLine /\ Line.op \in {"exit", "mayExit"}
            BY DEF Exit, Doing
          <6> QED
            BY <4>2, <6>1, SetupSets
        <5>2. /\ ~Top.saved /\ here = Top.from.here /\ Top.from.env \subseteq env
              /\ Holds(Sure(Depth), env, here, disk, console)
          BY <1>1, <4>2 DEF OutlineHolds, TopSure
        <5>3. Restored(Top) = Now /\ here' = here /\ env' = env
          BY <1>2, <5>2 DEF Pop, Restored, Now
        <5>4. Top.at = Len(Program[Setup]) + 1
          <6>1. Top.at > Len(Program[Setup]) /\ Top.at \in Nat
            BY <1>1, <4>2, <5>1 DEF Return, Body, Frames
          <6>2. Top.at <= Len(Program[Setup]) + 1
            BY <1>1, <4>2 DEF OutlineHolds, StackSure
          <6>3. Len(Program[Setup]) \in Nat
            BY ShellAssumption
          <6> QED
            BY <6>1, <6>2, <6>3
        <5>5. Sure(Depth) = AtEnd(Setup)
          BY <1>1, <4>2, <5>4 DEF Sure, AtEnd
        <5> QED
          BY <3>4, <4>2, <5>2, <5>3, <5>5 DEF Holds
      <4> QED
        BY <4>1, <4>2
    <3>6. Holds(Sure(i), env', here', disk', console')
      BY <1>2, <3>3, <3>5 DEF Holds
    <3>7. Top'.script # Setup
      BY <3>2, <3>3 DEF Top, Depth
    <3> QED
      BY <3>2, <3>6, <3>7 DEF TopSure
  <2> QED
    BY <1>1, <2>1, <2>2
<1> QED
  BY <1>5, <1>6, <1>7, <1>8 DEF OutlineHolds

(* A console is never off the drive it opens on.                           *)
LEMMA ConsoleOnDrive ==
    ASSUME OpenConsole
    PROVE  OnDrive(here', console')
  BY DEF OpenConsole, OnDrive, OffDrive, Consoles

LEMMA OutlineAtBegin ==
    ASSUME OutlineFollows, OutlineHolds, NEW s \in TopLevel, Begin(s)
    PROVE  OutlineHolds'
<1> DEFINE m == [here |-> here', env |-> env']
           f == [script |-> s, at |-> 1, saved |-> FALSE, from |-> m, home |-> m]
<1>1. frames' = <<f>> /\ disk' = {}
  BY DEF Begin
<1>2. f.script = s /\ f.at = 1 /\ f.from.here = here' /\ f.home.here = here'
  OBVIOUS
<1> HIDE DEF f, m
<1>3. Len(frames') = 1 /\ frames'[1] = f /\ frames' # <<>>
  BY <1>1
<1>4. s \in Script /\ s # Setup /\ Scratch(Outline[s][1])
  BY ShellAssumption DEF OutlineFollows
<1>5. OnDrive(here', console')
  BY ConsoleOnDrive DEF Begin, OutlineHolds, DriveKept
<1>6. StackSure'
  <2>1. Len(Program[s]) \in Nat
    BY <1>4, Outlined
  <2>2. f.at <= Len(Program[f.script]) + 1
    BY <1>2, <2>1
  <2> QED
    BY <1>3, <2>2 DEF StackSure
<1>7. DriveKept'
  BY <1>2, <1>3, <1>5 DEF DriveKept
<1>8. TopSure'
  <2>1. Holds(Outline[s][1], env', here', {}, console')
    BY <1>4, ScratchHolds
  <2> QED
    BY <1>1, <1>2, <1>3, <1>4, <2>1 DEF TopSure, Sure, Top, Depth
<1>9. CallersSure'
  BY <1>3 DEF CallersSure
<1> QED
  BY <1>6, <1>7, <1>8, <1>9 DEF OutlineHolds

LEMMA NothingRuns ==
    ASSUME frames = <<>>, OnDrive(here, console)
    PROVE  OutlineHolds
  BY DEF OutlineHolds, StackSure, DriveKept, TopSure, CallersSure

LEMMA OutlineStays ==
    ASSUME OutlineFollows, WellScoped, StackTyped, StackTyped', CallersKept, OutlineHolds,
           [ShellNext]_vars
    PROVE  OutlineHolds'
<1>1. ASSUME NEW s \in TopLevel, Begin(s) PROVE OutlineHolds'
  BY <1>1, OutlineAtBegin
<1>2. CASE Interrupt
  <2>1. frames' = <<>> /\ OnDrive(here', console')
    BY <1>2, ConsoleOnDrive DEF Interrupt
  <2> QED
    BY <2>1 DEF OutlineHolds, StackSure, DriveKept, TopSure, CallersSure
<1>3. CASE UNCHANGED vars
  <2>1. Top' = Top /\ \A i : Sure(i)' = Sure(i) /\ Resumed(i)' = Resumed(i)
    BY <1>3 DEF vars, Top, Depth, Sure, Resumed
  <2> QED
    BY <1>3, <2>1 DEF vars, OutlineHolds, StackSure, DriveKept, TopSure, CallersSure
<1> QED
  BY <1>1, <1>2, <1>3, Steps, OutlineOnSetlocal, OutlineOnCall, OutlineOnReturn,
     OutlineOnAdvance

(* An outline that follows line by line holds in every run.                *)
LEMMA OutlineAlwaysHolds ==
    ASSUME OutlineFollows, WellScoped
    PROVE  ShellSpec => [](StackTyped /\ OutlineHolds)
<1>1. ShellInit => StackTyped /\ CallersKept /\ OutlineHolds
  <2> SUFFICES ASSUME ShellInit PROVE StackTyped /\ CallersKept /\ OutlineHolds
    OBVIOUS
  <2>1. frames = <<>> /\ OnDrive(here, console)
    BY DEF ShellInit, OnDrive, OffDrive, Consoles
  <2>2. OutlineHolds
    BY <2>1, NothingRuns
  <2> QED
    BY <2>1, <2>2, TypesAtStart DEF CallersKept
<1>2. StackTyped /\ CallersKept /\ OutlineHolds /\ [ShellNext]_vars =>
          StackTyped' /\ CallersKept' /\ OutlineHolds'
  <2> SUFFICES ASSUME StackTyped, CallersKept, OutlineHolds, [ShellNext]_vars
               PROVE  StackTyped' /\ CallersKept' /\ OutlineHolds'
    OBVIOUS
  <2>1. StackTyped' /\ CallersKept'
    BY StackStaysTyped, CallersStayKept
  <2> QED
    BY <2>1, OutlineStays
<1> QED
  BY <1>1, <1>2, PTL DEF ShellSpec

(* A call finds its script where the outline says so.                      *)
LEMMA FoundWhereSure ==
    ASSUME OutlineFollows, CallsSure, StackTyped, OutlineHolds
    PROVE  CallsAreFound
<1> SUFFICES ASSUME Calling, ~Found
             PROVE  <<Top.script, Line.arg>> \in Lost
  BY DEF CallsAreFound
<1>1. AtLine /\ Line.op \in {"call", "callAt"}
  BY DEF Calling, Doing
<1>2. /\ Top.script \in Script /\ Top.at \in 1..Len(Program[Top.script])
      /\ Line = Program[Top.script][Top.at]
      /\ Holds(Outline[Top.script][Top.at], env, here, disk, console)
  BY <1>1, LineSure
<1>3. Top.at \in DOMAIN Program[Top.script]
  BY <1>2, Outlined
<1>4. \/ Line.arg \in Script /\ Line.op = "callAt"
      \/ Line.arg \in Script \intersect TopLevel
             /\ <<"scripts", "scripts">> \in Outline[Top.script][Top.at].place
      \/ Line.arg \in Script \intersect Helper /\ "PATH" \in Outline[Top.script][Top.at].vars
      \/ <<Top.script, Line.arg>> \in Lost
  BY <1>1, <1>2, <1>3 DEF CallsSure
<1>5. <<"scripts", "scripts">> \in Outline[Top.script][Top.at].place => here = "scripts"
  BY <1>2 DEF Holds, Trusted
<1>6. "PATH" \in Outline[Top.script][Top.at].vars => "PATH" \in env
  BY <1>2 DEF Holds
<1> QED
  BY <1>4, <1>5, <1>6 DEF Found

(* Every call finds its script if the outline has it in the scripts'       *)
(* directory, or with a PATH: all-build.bat goes there once, and no script *)
(* that it calls, however it fails, takes it elsewhere.  TLC evaluates     *)
(* these assumptions on the scripts (MCShell).                             *)
THEOREM EveryCallFindsItsScript ==
    ASSUME OutlineFollows, WellScoped, CallsSure
    PROVE  ShellSpec => []CallsAreFound
<1>1. StackTyped /\ OutlineHolds => CallsAreFound
  BY FoundWhereSure
<1> QED
  BY <1>1, OutlineAlwaysHolds, PTL

(* A tool runs in its place where the outline says so.                     *)
LEMMA PlacedWhereSure ==
    ASSUME OutlineFollows, PlacesSure, StackTyped, OutlineHolds
    PROVE  ToolsRunWhereMeant
<1> SUFFICES ASSUME AtLine, Line.op \in Placed, Line.dir \in disk, console # "elsewhere"
             PROVE  InPlace
  BY DEF ToolsRunWhereMeant
<1> DEFINE f == Outline[Top.script][Top.at]
           d == Line.dir
<1>1. /\ Top.script \in Script /\ Top.at \in 1..Len(Program[Top.script])
      /\ Line = Program[Top.script][Top.at] /\ Holds(f, env, here, disk, console)
  BY LineSure
<1>2. Top.at \in DOMAIN Program[Top.script]
  BY <1>1, Outlined
<1>3. d = "" \/ d \notin f.may \/ <<d, d>> \in f.place
  BY <1>1, <1>2 DEF PlacesSure
<1> HIDE DEF f
<1>4. d \in f.may /\ Trusted(d, disk, console)
  BY <1>1 DEF Holds, Trusted
<1>5. <<d, d>> \in f.place => here = d
  BY <1>1, <1>4 DEF Holds
<1> QED
  BY <1>3, <1>4, <1>5 DEF InPlace

(* Whatever fails before, from a console on its own drive no tool runs in  *)
(* a wrong place while the right one is there: every `cd` that may have    *)
(* failed is for a directory that is not there, or has been made after it. *)
THEOREM ToolsRunInPlace ==
    ASSUME OutlineFollows, WellScoped, PlacesSure
    PROVE  ShellSpec => []ToolsRunWhereMeant
<1>1. StackTyped /\ OutlineHolds => ToolsRunWhereMeant
  BY PlacedWhereSure
<1> QED
  BY <1>1, OutlineAlwaysHolds, PTL

(* The recursive rewriting never starts in the operator's own directory:   *)
(* before it a directory has been made, and entered, by the same script.   *)
THEOREM RewritesStayAway ==
    ASSUME OutlineFollows, WellScoped, RewritesSure
    PROVE  ShellSpec => []RewritesStayInBuildTree
<1>1. StackTyped /\ OutlineHolds => RewritesStayInBuildTree
  <2> SUFFICES ASSUME StackTyped, OutlineHolds, Doing("rewrite"), console # "elsewhere"
               PROVE  here \notin Consoles
    BY DEF RewritesStayInBuildTree
  <2>1. AtLine /\ Line.op = "rewrite"
    BY DEF Doing
  <2>2. /\ Top.script \in Script /\ Top.at \in 1..Len(Program[Top.script])
        /\ Line = Program[Top.script][Top.at]
        /\ Holds(Outline[Top.script][Top.at], env, here, disk, console)
    BY <2>1, LineSure
  <2>3. Top.at \in DOMAIN Program[Top.script]
    BY <2>2, Outlined
  <2>4. Outline[Top.script][Top.at].away
    BY <2>1, <2>2, <2>3 DEF RewritesSure
  <2> QED
    BY <2>2, <2>4 DEF Holds
<1> QED
  BY <1>1, OutlineAlwaysHolds, PTL

(* What a command reads has been set, at any depth of calls: by its own    *)
(* script, by common-setup for it, or by the caller it is a part of; or it *)
(* is a read that is known to find nothing.                                *)
THEOREM WhatIsReadIsSet ==
    ASSUME OutlineFollows, WellScoped, ReadsSure
    PROVE  ShellSpec => []VariablesAreSet
<1>1. StackTyped /\ OutlineHolds => VariablesAreSet
  <2> SUFFICES ASSUME StackTyped, OutlineHolds,
                      AtLine, Line.op \notin {"set", "clear", "pause"},
                      NEW v \in Line.vars \ env
               PROVE  <<Top.script, v>> \in Unset
    BY DEF VariablesAreSet
  <2>1. /\ Top.script \in Script /\ Top.at \in 1..Len(Program[Top.script])
        /\ Line = Program[Top.script][Top.at]
        /\ Holds(Outline[Top.script][Top.at], env, here, disk, console)
    BY LineSure
  <2>2. Top.at \in DOMAIN Program[Top.script]
    BY <2>1, Outlined
  <2>3. v \notin Outline[Top.script][Top.at].vars
    BY <2>1 DEF Holds
  <2> QED
    BY <2>1, <2>2, <2>3 DEF ReadsSure
<1> QED
  BY <1>1, OutlineAlwaysHolds, PTL
=============================================================================
