-------------------------- MODULE ShellProperties --------------------------
(***************************************************************************)
(* What the scripts rely on at each of their lines, and that they may.     *)
(*                                                                         *)
(* An outline says of each line of a script what is sure when the shell    *)
(* comes to it, whatever has failed before.  It is checked line by line,   *)
(* against the text of the scripts only; the invariants below then hold in *)
(* every run (ShellProofs).                                                *)
(***************************************************************************)
EXTENDS Shell

CONSTANTS
    Outline,        \* what is sure before each line of a script, and after the last
    Makes           \* the directories that a script makes, or those it calls

(* vars:   variables that are set                                          *)
(* place:  <<d, p>>: if d is there, the shell is in p                      *)
(* may:    the only directories that can be there                          *)
(* must:   directories that are there                                      *)
(* away:   the shell has left the directory of the console                 *)
Facts == [vars : SUBSET Variable, place : SUBSET (Name \X Name),
          may : SUBSET Name, must : SUBSET Name, away : BOOLEAN]

(* From a console on another drive only `cd /D` gets anywhere.             *)
Trusted(d, there, from) == d = "scripts" \/ (d \in there /\ from # "elsewhere")

(* The facts f hold of a shell with the variables e in the directory h,    *)
(* with the directories `there`, when it was started in `from`.            *)
Holds(f, e, h, there, from) ==
    /\ f.vars \subseteq e
    /\ there \subseteq f.may /\ "scripts" \in f.may
    /\ f.must \subseteq there
    /\ \A x \in f.place : Trusted(x[1], there, from) => h = x[2]
    /\ f.away /\ from # "elsewhere" => h \notin Consoles

-----------------------------------------------------------------------------
(* A line that goes on to the next one: from the facts f to these.         *)
MovedTo(f, c) ==
    [vars |-> f.vars, place |-> {<<c.arg, c.arg>>}, may |-> f.may, must |-> f.must,
     away |-> c.arg \notin Consoles /\ (f.away \/ c.arg \in f.must)]

MovedInto(f, c) ==
    [vars |-> f.vars, may |-> f.may, must |-> f.must,
     place |-> {x \in {<<c.arg, c.arg>>} : <<c.arg, c.dir>> \in f.place \/ c.arg \notin f.may},
     away |-> f.away /\ c.arg \notin Consoles]

Entered(f, c) ==
    [vars |-> f.vars, place |-> {<<c.arg, c.arg>>}, may |-> f.may \union {c.arg},
     must |-> f.must, away |-> c.arg \notin Consoles]

(* Made somewhere: with what is made if there is nothing else of the name. *)
MadeAt(f, new, always) ==
    [vars |-> f.vars, place |-> {x \in f.place : x[1] \notin new},
     may |-> f.may \union new, must |-> f.must \union always, away |-> f.away]

(* Made in c.dir only: if it is there, the shell is in c.dir.              *)
MadeHere(f, c, new) ==
    [vars |-> f.vars, may |-> f.may \union new, must |-> f.must, away |-> f.away,
     place |-> {x \in f.place : x[1] \notin new}
        \union {x \in {<<c.arg, c.dir>>} : x \in f.place \/ c.arg \notin f.may}]

After(f, c) ==
    CASE c.op = "set" -> [f EXCEPT !.vars = @ \union c.vars]
      [] c.op = "clear" -> [f EXCEPT !.vars = @ \ c.vars]
      [] c.op \in {"cd", "cdD"} /\ c.arg \in f.may -> MovedTo(f, c)
      [] c.op = "cdHere" -> MovedInto(f, c)
      [] c.op = "enter" -> Entered(f, c)
      [] c.op = "mkdir" -> MadeAt(f, {c.arg}, {c.arg})
      [] c.op = "unpack" -> MadeAt(f, {c.arg}, {})
      [] c.op = "mkdirHere" -> MadeHere(f, c, {c.arg, "stray"})
      [] c.op \in {"unpackHere", "generate"} -> MadeHere(f, c, {c.arg})
      [] OTHER -> f

(* g claims no more than f.                                                *)
Weaker(g, f) ==
    /\ g.vars \subseteq f.vars /\ g.place \subseteq f.place
    /\ f.may \subseteq g.may /\ g.must \subseteq f.must
    /\ g.away => f.away

(* Nothing but where a script that is started, or called by the master,    *)
(* can have been.                                                          *)
Scratch(f) == f.vars = {} /\ f.place = {} /\ f.must = {} /\ ~f.away /\ "scripts" \in f.may

MadeBy(c) ==
    CASE c.op \in {"mkdir", "unpack", "unpackHere", "generate", "enter"} -> {c.arg}
      [] c.op = "mkdirHere" -> {c.arg, "stray"}
      [] OTHER -> {}

AtEnd(s) == Outline[s][Len(Program[s]) + 1]

(* A call of t from the facts f, that leaves g to its caller s.            *)
Hands(s, f, t, g) ==
    /\ Makes[t] \subseteq Makes[s]
    /\ IF s = Master THEN Scratch(Outline[t][1]) ELSE Weaker(Outline[t][1], f)
    /\ g.vars \subseteq f.vars \union (IF t = Setup THEN AtEnd(Setup).vars ELSE {})
    /\ g.place \subseteq {x \in f.place : x[1] \notin Makes[t]}
    /\ f.may \union Makes[t] \subseteq g.may
    /\ g.must \subseteq f.must /\ (s = Master => g.must = {})
    /\ g.away => f.away

CallsOf(c) == c.op \in {"call", "callAt"} /\ c.arg \in Script

(* No directory has the name of one of those the shell starts in, but what *)
(* common-setup and the master are named for.                              *)
WellNamed(c) ==
    /\ c.op \in {"cd", "cdHere", "enter"} => c.arg # "scripts"
    /\ c.op \in {"cd", "cdD", "cdHere", "enter"} => c.arg \notin OffDrive
    /\ c.op = "mkdirHere" => c.arg # "stray"
    /\ c.op = "generate" => c.dir # ""
    /\ CallsOf(c) => /\ c.arg # Master
                     /\ c.arg = Setup => c.op = "callAt"

LineFollows(s, i) ==
    LET c == Program[s][i]
        f == Outline[s][i]
        g == Outline[s][i + 1]
    IN  /\ WellNamed(c)
        /\ MadeBy(c) \subseteq Makes[s]
        /\ IF CallsOf(c) THEN Hands(s, f, c.arg, g) ELSE Weaker(g, After(f, c))

(* common-setup does nothing but set variables.                            *)
OutlineFollows ==
    /\ Outline \in [Script -> Seq(Facts)] /\ Makes \in [Script -> SUBSET Name]
    /\ \A s \in Script : Len(Outline[s]) = Len(Program[s]) + 1
    /\ \A s \in TopLevel : Scratch(Outline[s][1])
    /\ \A i \in DOMAIN Program[Setup] : Program[Setup][i].op = "set"
    /\ Setup \notin TopLevel
    /\ \A s \in Script : \A i \in DOMAIN Program[s] : LineFollows(s, i)

-----------------------------------------------------------------------------
(* What is sure in the frame i, and with which variables it will go on     *)
(* when the script it has called returns.                                  *)
Sure(i) == Outline[frames[i].script][frames[i].at]
Resumed(i) ==
    frames[i + 1].from.env
        \union (IF frames[i + 1].script = Setup THEN AtEnd(Setup).vars ELSE {})

OnDrive(h, from) == from # "elsewhere" => h \notin OffDrive

TopSure ==
    frames # <<>> =>
        /\ Holds(Sure(Len(frames)), env, here, disk, console)
        /\ Top.script = Setup => ~Top.saved /\ here = Top.from.here /\ Top.from.env \subseteq env

CallersSure ==
    \A i \in 1..(Len(frames) - 1) :
        /\ Holds(Sure(i), Resumed(i), frames[i + 1].from.here, disk, console)
        /\ Makes[frames[i + 1].script] \subseteq Sure(i).may
        /\ \A x \in Sure(i).place : x[1] \notin Makes[frames[i + 1].script]
        /\ frames[i].script # Setup

StackSure ==
    /\ \A i \in 1..Len(frames) :
           /\ frames[i].at <= Len(Program[frames[i].script]) + 1
           /\ frames[i].script = Master => i = 1
    /\ \A i, j \in 1..Len(frames) :
           i <= j => Makes[frames[j].script] \subseteq Makes[frames[i].script]

DriveKept ==
    /\ OnDrive(here, console)
    /\ \A i \in 1..Len(frames) :
           OnDrive(frames[i].from.here, console) /\ OnDrive(frames[i].home.here, console)

OutlineHolds == StackSure /\ DriveKept /\ TopSure /\ CallersSure

-----------------------------------------------------------------------------
(* Commands that find their directory only if the moves before them have   *)
(* worked.                                                                 *)
Placed == {"generate", "tool", "rewrite", "install"} \union Configurations

(* Calls that find nothing: all-build.bat:16 and :31 name .bat files that  *)
(* are not there, and build-gsl.bat:6 calls try-pause.cmd without the PATH *)
(* that common-setup would have set.                                       *)
Lost == {<<"all-build", "fetch-python.bat">>, <<"all-build", "fetch-tbb.bat">>,
         <<"build-gsl", "try-pause">>}

(* Reads of what is not set: INSTALL_ROOT is set nowhere (for the place of *)
(* project-config.jam, build-boost.bat:44, and of the old headers,         *)
(* build-eigen.bat:27, build-jsoncpp.bat:28 and build-lib3mf.bat:27),      *)
(* SRC_ROOT only after fetch-tbb.cmd:26 has looked there, and              *)
(* build-qwt5-qt4.bat:43 clears its prefix for nmake and then installs     *)
(* with it.                                                                *)
Unset == {<<"build-boost", "INSTALL_ROOT">>, <<"build-eigen", "INSTALL_ROOT">>,
          <<"build-jsoncpp", "INSTALL_ROOT">>, <<"build-lib3mf", "INSTALL_ROOT">>,
          <<"fetch-tbb", "SRC_ROOT">>, <<"build-qwt5-qt4", "INSTALL_PREFIX">>}

(* From every console, and whatever has failed before, each call finds its *)
(* script, but for three that cannot.                                      *)
CallsAreFound == Calling /\ ~Found => <<Top.script, Line.arg>> \in Lost

(* Run from its own drive, a script works where it means to, or nowhere:   *)
(* once the directory is there, no failure of an earlier step leaves the   *)
(* shell in another one.                                                   *)
ToolsRunWhereMeant ==
    AtLine /\ Line.op \in Placed /\ Line.dir \in disk /\ console # "elsewhere" =>
        InPlace

(* The recursive `sed -i` of build-sip.cmd:39-44 and of the PyQt scripts   *)
(* never gets to rewrite the operator's own files.                         *)
RewritesStayInBuildTree ==
    Doing("rewrite") /\ console # "elsewhere" => here \notin Consoles

(* What a command reads has been set, but for the six reads of Unset: no   *)
(* script runs on the variables of its caller, or after they are gone.     *)
VariablesAreSet ==
    AtLine /\ Line.op \notin {"set", "clear", "pause"} =>
        \A v \in Line.vars \ env : <<Top.script, v>> \in Unset

(* What the outline must say before each line for them.                    *)
CallsSure ==
    \A s \in Script : \A i \in DOMAIN Program[s] :
        Program[s][i].op \in {"call", "callAt"} =>
            LET t == Program[s][i].arg
            IN  \/ t \in Script /\ Program[s][i].op = "callAt"
                \/ t \in Script \intersect TopLevel /\ <<"scripts", "scripts">> \in Outline[s][i].place
                \/ t \in Script \intersect Helper /\ "PATH" \in Outline[s][i].vars
                \/ <<s, t>> \in Lost

PlacesSure ==
    \A s \in Script : \A i \in DOMAIN Program[s] :
        Program[s][i].op \in Placed =>
            LET d == Program[s][i].dir
            IN  d = "" \/ d \notin Outline[s][i].may \/ <<d, d>> \in Outline[s][i].place

RewritesSure ==
    \A s \in Script : \A i \in DOMAIN Program[s] :
        Program[s][i].op = "rewrite" => Outline[s][i].away

ReadsSure ==
    \A s \in Script : \A i \in DOMAIN Program[s] :
        LET c == Program[s][i]
        IN  c.op \notin {"set", "clear", "pause"} =>
                \A v \in c.vars \ Outline[s][i].vars : <<s, v>> \in Unset
=============================================================================
