------------------------------- MODULE Shell -------------------------------
(***************************************************************************)
(* How cmd.exe carries the scripts: calls from script to script, the       *)
(* directory and the variables each of them sets, and what setlocal gives  *)
(* back when a script returns.  A script goes on after every failure: a    *)
(* `cd` to a directory that is not there leaves the shell where it was,    *)
(* and a `call` of a script that is not found does nothing.                *)
(*                                                                         *)
(* A run is started by the operator, with one of the scripts, in a console *)
(* of his own.  Scripts are data (Scripts): the commands that call, set,   *)
(* move, wait or end, and those whose place matters.                       *)
(***************************************************************************)
EXTENDS Naturals, Sequences, FiniteSets

CONSTANTS
    Name,           \* names of scripts, directories, projects and packages
    Script,         \* scripts, and functions inside them
    Program,        \* the commands of each
    TopLevel,       \* scripts of the build-scripts directory
    Helper,         \* scripts of its cmds directory
    Master,         \* all-build
    Setup,          \* common-setup, which sets variables for its caller
    Variable,       \* variables that scripts hand to each other
    Link,           \* <<user, provider>>: which package is linked to which
    MaxBroken       \* bound: failures of msbuild followed in one package

(* setlocal                                                                *)
(* set, clear:  the variables `vars`                                       *)
(* call:        `arg` by its name; callAt: by its path, or as a label      *)
(* cd, cdD:     to `arg`; cd without /D stays on its drive                 *)
(* cdHere, mkdirHere: `arg`, named relative to `dir`                       *)
(* mkdir:       `arg`                                                      *)
(* unpack:      makes `arg`; unpackHere: in the current directory, `dir`   *)
(* enter:       makes and enters `arg`, named without its drive            *)
(* generate:    cmake, meant to run in `dir`, makes `arg`                  *)
(* tool:        a program meant to run in `dir` ("": anywhere)             *)
(* rewrite:     `for /r ... sed -i`, meant to run in `dir`                 *)
(* release, debug: msbuild of project `arg`, meant to run in `dir`         *)
(* install:     the command that installs `arg`, meant to run in `dir`     *)
(* mayExit:     a test that may end the script;  exit: exit /b             *)
(* pause:       unless one of `vars` is set                                *)
(* `vars` of the other commands are the variables they read.               *)
Configurations == {"release", "debug"}
Ops == {"setlocal", "set", "clear", "call", "callAt", "cd", "cdD", "cdHere",
        "mkdir", "mkdirHere", "unpack", "unpackHere", "enter", "generate",
        "tool", "rewrite", "install", "mayExit", "exit", "pause"}
         \union Configurations
Commands == [op : Ops, arg : Name, dir : Name, vars : SUBSET Variable]

(* "scripts": the build-scripts directory; "start": where a console opens  *)
(* on the same drive; "elsewhere": on another drive; "shadow": a directory *)
(* made there by a path without drive; "stray": one made by a relative     *)
(* path in a wrong place.                                                  *)
OffDrive == {"elsewhere", "shadow"}
Consoles == {"scripts", "start", "elsewhere"}

ASSUME ShellAssumption ==
    /\ Script \union Consoles \union {"shadow", "stray"} \subseteq Name
    /\ Program \in [Script -> Seq(Commands)]
    /\ TopLevel \subseteq Script /\ Helper \subseteq Script
    /\ Master \in TopLevel /\ Setup \in Script
    /\ Link \subseteq Name \X Name
    /\ MaxBroken \in Nat

VARIABLES
    frames,     \* scripts that have been called and have not returned
    here,       \* the current directory
    env,        \* variables that are set, of those in Variable
    console,    \* where the operator started the run
    disk,       \* directories that this package's script has found or made
    made,       \* projects it has had built, their configuration and outcome
    quit,       \* it has ended early
    paused,     \* the run has waited for a key
    link,       \* the pair of packages followed
    linked      \* whether the user is linked to the provider as installed

shell == <<frames, here, env>>
package == <<disk, made, quit>>
links == <<link, linked>>
vars == <<shell, console, package, paused, links>>

(* What msbuild has made of a project.                                     *)
Outcomes == {"built", "broken"}

Moment == [here : Name, env : SUBSET Variable]

(* from: when the script was called;  home: what setlocal has kept         *)
Frames == [script : Script, at : Nat \ {0}, saved : BOOLEAN,
           from : Moment, home : Moment]

ShellTypeOK ==
    /\ frames \in Seq(Frames)
    /\ here \in Name
    /\ env \subseteq Variable
    /\ console \in Consoles
    /\ disk \subseteq Name
    /\ made \subseteq Name \X Configurations \X Outcomes
    /\ quit \in BOOLEAN /\ paused \in BOOLEAN
    /\ link \in Link
    /\ linked \in {"fresh", "stale", "failed"}

Depth == Len(frames)
Top == frames[Depth]
Body == Program[Top.script]
Line == Body[Top.at]
AtLine == Depth > 0 /\ Top.at <= Len(Body)
Doing(op) == AtLine /\ Line.op = op
Now == [here |-> here, env |-> env]

Advanced == [frames EXCEPT ![Depth].at = @ + 1]
NextLine == frames' = Advanced

(* Mutant of NewFrame: lines are counted from zero.                        *)
NewFrameAtZero(s) == [script |-> s, at |-> 0, from |-> Now, saved |-> FALSE, home |-> Now]

NewFrame(s) == [script |-> s, at |-> 1, from |-> Now, saved |-> FALSE, home |-> Now]

UnderMaster == Depth > 0 /\ frames[1].script = Master

-----------------------------------------------------------------------------
ShellInit ==
    /\ frames = <<>>
    /\ console \in Consoles /\ here = console
    /\ env = {}
    /\ disk = {} /\ made = {} /\ quit = FALSE
    /\ paused = FALSE
    /\ link \in Link /\ linked = "fresh"

OpenConsole ==
    /\ console' \in Consoles
    /\ here' = console'
    /\ env' = {}

(* A script is started in the console that is open, or in a new one.       *)
Begin(s) ==
    /\ frames = <<>>
    /\ OpenConsole \/ UNCHANGED <<here, env, console>>
    /\ frames' = <<[script |-> s, at |-> 1, saved |-> FALSE,
                    from |-> [here |-> here', env |-> env'],
                    home |-> [here |-> here', env |-> env']]>>
    /\ disk' = {} /\ made' = {} /\ quit' = FALSE
    /\ paused' = FALSE
    /\ linked' = IF linked = "failed" THEN "stale" ELSE linked
    /\ UNCHANGED link

Setlocal ==
    /\ Doing("setlocal")
    /\ frames' = [frames EXCEPT ![Depth] =
                      [script |-> Top.script, at |-> Top.at + 1, saved |-> TRUE,
                       from |-> Top.from, home |-> Now]]
    /\ UNCHANGED <<here, env, console, package, paused, links>>

Set ==
    /\ Doing("set")
    /\ NextLine
    /\ env' = env \union Line.vars
    /\ UNCHANGED <<here, console, package, paused, links>>

Clear ==
    /\ Doing("clear")
    /\ NextLine
    /\ env' = env \ Line.vars
    /\ UNCHANGED <<here, console, package, paused, links>>

(* Mutant of Found: common-setup is looked up by its name too.             *)
FoundByName ==
    /\ Line.arg \in Script
    /\ \/ Line.arg \in TopLevel /\ here = "scripts"
       \/ Line.arg \in Helper /\ "PATH" \in env

(* A name is looked up in the current directory, then on the PATH, to      *)
(* which common-setup adds the cmds directory.                             *)
Found ==
    /\ Line.arg \in Script
    /\ \/ Line.op = "callAt"
       \/ Line.arg \in TopLevel /\ here = "scripts"
       \/ Line.arg \in Helper /\ "PATH" \in env

Calling == Doing("call") \/ Doing("callAt")

(* Mutant of Call: a helper is started without `call`, and never returns.  *)
CallForGood ==
    /\ Calling
    /\ Found
    /\ frames' = IF Depth = 1 THEN Append(Advanced, NewFrame(Line.arg))
                 ELSE [frames EXCEPT ![Depth] = [NewFrame(Line.arg) EXCEPT !.from = Top.from]]
    /\ IF Depth = 1 /\ Top.script = Master
       THEN disk' = {} /\ made' = {} /\ quit' = FALSE
       ELSE UNCHANGED <<disk, made, quit>>
    /\ UNCHANGED <<here, env, console, paused, links>>

(* A package's script called by the master starts a record of its own.     *)
Call ==
    /\ Calling
    /\ Found
    /\ frames' = Append(Advanced, NewFrame(Line.arg))
    /\ IF Depth = 1 /\ Top.script = Master
       THEN disk' = {} /\ made' = {} /\ quit' = FALSE
       ELSE UNCHANGED <<disk, made, quit>>
    /\ UNCHANGED <<here, env, console, paused, links>>

CallMissing ==
    /\ Calling
    /\ ~Found
    /\ NextLine
    /\ UNCHANGED <<here, env, console, package, paused, links>>

(* Mutant of Restored: endlocal forgets the directory.                     *)
RestoredEnvironment(f) == [here |-> here, env |-> f.home.env]

(* A script that returns gives back what setlocal has kept.                *)
Restored(f) == IF f.saved THEN f.home ELSE Now

Pop ==
    /\ frames' = SubSeq(frames, 1, Depth - 1)
    /\ here' = Restored(Top).here
    /\ env' = Restored(Top).env

Return ==
    /\ Depth > 0 /\ Top.at > Len(Body)
    /\ Pop
    /\ UNCHANGED <<console, package, paused, links>>

(* exit /b, where a script gives up; `arg` is the package not installed.   *)
Exit ==
    /\ Doing("exit") \/ Doing("mayExit")
    /\ Pop
    /\ quit' = TRUE
    /\ linked' = IF Line.arg = link[1] THEN "failed" ELSE linked
    /\ UNCHANGED <<console, disk, made, paused, link>>

GoOn ==
    /\ Doing("mayExit")
    /\ NextLine
    /\ UNCHANGED <<here, env, console, package, paused, links>>

-----------------------------------------------------------------------------
Reaches(d) == d \in disk \union {"scripts"}

Cd ==
    /\ Doing("cd")
    /\ NextLine
    /\ here' = IF here \notin OffDrive /\ Reaches(Line.arg) THEN Line.arg ELSE here
    /\ UNCHANGED <<env, console, package, paused, links>>

(* Mutant of CdD: cd without /D.                                           *)
CdDOnDrive ==
    /\ Doing("cdD")
    /\ NextLine
    /\ here' = IF here \notin OffDrive /\ Reaches(Line.arg) THEN Line.arg ELSE here
    /\ UNCHANGED <<env, console, package, paused, links>>

CdD ==
    /\ Doing("cdD")
    /\ NextLine
    /\ here' = IF Reaches(Line.arg) THEN Line.arg ELSE here
    /\ UNCHANGED <<env, console, package, paused, links>>

CdHere ==
    /\ Doing("cdHere")
    /\ NextLine
    /\ here' = CASE here = Line.dir /\ Line.arg \in disk -> Line.arg
                 [] here # Line.dir /\ "stray" \in disk -> "stray"
                 [] OTHER -> here
    /\ UNCHANGED <<env, console, package, paused, links>>

(* Mutant of Mkdir: try-mkdir without its `not`.                           *)
MkdirIfThere ==
    /\ Doing("mkdir")
    /\ NextLine
    /\ UNCHANGED <<here, env, console, package, paused, links>>

Mkdir ==
    /\ Doing("mkdir")
    /\ NextLine
    /\ disk' = disk \union {Line.arg}
    /\ UNCHANGED <<here, env, console, made, quit, paused, links>>

MkdirHere ==
    /\ Doing("mkdirHere")
    /\ NextLine
    /\ disk' = disk \union {IF here = Line.dir THEN Line.arg ELSE "stray"}
    /\ UNCHANGED <<here, env, console, made, quit, paused, links>>

(* Download and unpacking, guarded or not, leave the tree or do not; what  *)
(* they can do is the subject of SourceTrees.                              *)
Unpack ==
    /\ Doing("unpack")
    /\ NextLine
    /\ disk' \in {disk, disk \union {Line.arg}}
    /\ UNCHANGED <<here, env, console, made, quit, paused, links>>

(* Into %CD%, which may be the wrong place.                                *)
UnpackHere ==
    /\ Doing("unpackHere")
    /\ NextLine
    /\ disk' \in {disk} \union (IF here = Line.dir THEN {disk \union {Line.arg}} ELSE {})
    /\ UNCHANGED <<here, env, console, made, quit, paused, links>>

(* Mutant of Enter: stays where it was called.                             *)
MakeOnly ==
    /\ Doing("enter")
    /\ NextLine
    /\ disk' = disk \union (IF here \in OffDrive THEN {} ELSE {Line.arg})
    /\ UNCHANGED <<here, env, console, made, quit, paused, links>>

Enter ==
    /\ Doing("enter")
    /\ NextLine
    /\ here' = IF here \in OffDrive THEN "shadow" ELSE Line.arg
    /\ disk' = disk \union (IF here \in OffDrive THEN {} ELSE {Line.arg})
    /\ UNCHANGED <<env, console, made, quit, paused, links>>

InPlace == Line.dir \in {"", here}

Generate ==
    /\ Doing("generate")
    /\ NextLine
    /\ disk' \in {disk} \union (IF InPlace THEN {disk \union {Line.arg}} ELSE {})
    /\ UNCHANGED <<here, env, console, made, quit, paused, links>>

Tool ==
    /\ Doing("tool") \/ Doing("rewrite")
    /\ NextLine
    /\ UNCHANGED <<here, env, console, package, paused, links>>

(* Mutant of Msbuild: both commands build the release.                     *)
MsbuildRelease ==
    /\ \E config \in Configurations :
        /\ Doing(config)
        /\ made' = IF InPlace THEN made \union {<<Line.arg, "release", "built">>} ELSE made
    /\ NextLine
    /\ UNCHANGED <<here, env, console, disk, quit, paused, links>>

(* In another place than meant there is no project to build.               *)
Msbuild ==
    /\ \E config \in Configurations :
        /\ Doing(config)
        /\ made' = IF InPlace THEN made \union {<<Line.arg, config, "built">>} ELSE made
    /\ NextLine
    /\ UNCHANGED <<here, env, console, disk, quit, paused, links>>

(* The project does not compile or link.  The loop over the projects goes  *)
(* on, and so does the script, which installs what there is.               *)
MsbuildFails ==
    /\ Cardinality({x \in made : x[3] = "broken"}) < MaxBroken
    /\ \E config \in Configurations :
        /\ Doing(config)
        /\ InPlace
        /\ made' = made \union {<<Line.arg, config, "broken">>}
    /\ NextLine
    /\ UNCHANGED <<here, env, console, disk, quit, paused, links>>

(* The package is linked to what is there of its providers; what was       *)
(* linked to an earlier build of it is not linked to this one.             *)
Install ==
    /\ Doing("install")
    /\ InPlace
    /\ NextLine
    /\ linked' = CASE Line.arg = link[1] -> "fresh"
                   [] Line.arg = link[2] -> "stale"
                   [] OTHER -> linked
    /\ UNCHANGED <<here, env, console, package, paused, link>>

(* Or it installs what is left of an earlier build.                        *)
InstallFails ==
    /\ Doing("install")
    /\ NextLine
    /\ linked' = IF Line.arg = link[1] THEN "failed" ELSE linked
    /\ UNCHANGED <<here, env, console, package, paused, link>>

Silenced == Line.vars \intersect env # {}

(* Mutant of Pause: `if not defined` is dropped.                           *)
PauseAlways ==
    /\ Doing("pause")
    /\ NextLine
    /\ paused' = TRUE
    /\ UNCHANGED <<here, env, console, package, links>>

Pause ==
    /\ Doing("pause")
    /\ NextLine
    /\ paused' = (paused \/ ~Silenced)
    /\ UNCHANGED <<here, env, console, package, links>>

(* The console is closed, and with it the record of the package ends.      *)
Interrupt ==
    /\ Depth > 0
    /\ frames' = <<>>
    /\ OpenConsole
    /\ disk' = {} /\ made' = {} /\ quit' = FALSE
    /\ UNCHANGED <<paused, links>>

Move == Cd \/ CdD \/ CdHere \/ Enter
Prepare == Mkdir \/ MkdirHere \/ Unpack \/ UnpackHere \/ Generate
Work == Tool \/ Msbuild \/ MsbuildFails \/ Install \/ InstallFails \/ Pause
Control == Setlocal \/ Set \/ Clear \/ Call \/ CallMissing \/ Return \/ Exit \/ GoOn

ShellStep == Control \/ Move \/ Prepare \/ Work

ShellNext == (\E s \in TopLevel : Begin(s)) \/ ShellStep \/ Interrupt

ShellSpec == ShellInit /\ [][ShellNext]_vars

-----------------------------------------------------------------------------
(* However deep the calls, and wherever a script gives up, the caller goes *)
(* on in the directory and with the variables it had: the build of one     *)
(* package cannot disturb that of the next.  Only common-setup is there to *)
(* change its caller's variables.                                          *)
CallsAreTransparent ==
    [][Depth > 1 /\ Len(frames') = Depth - 1 =>
           \/ Top.script = Setup
           \/ here' = Top.from.here /\ env' = Top.from.env]_vars

(* What the scripts do for it: they begin with setlocal, or do nothing but *)
(* wait.                                                                   *)
Scoped(s) ==
    /\ Program[s] # <<>> /\ Program[s][1].op = "setlocal"
    /\ \A i \in DOMAIN Program[s] : i > 1 => Program[s][i].op # "setlocal"
Harmless(s) == \A i \in DOMAIN Program[s] : Program[s][i].op = "pause"
WellScoped == \A s \in Script \ {Setup} : Scoped(s) \/ Harmless(s)
=============================================================================
