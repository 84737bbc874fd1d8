--------------------------- MODULE ShellProgress ---------------------------
(***************************************************************************)
(* What a script has done when it comes to each of its lines: projects it  *)
(* has had built, packages it has linked anew, whether it has waited for a     *)
(* key.  A second layer of the outline: the first says where the shell is  *)
(* and what is set, this one what has been achieved there.  It starts from *)
(* nothing with every call, and a caller adds what the script it has       *)
(* called has done to what that script cannot undo.                        *)
(***************************************************************************)
EXTENDS ShellProperties

CONSTANTS
    Progress,       \* what each script has done before each line, and at its end
    Brings,         \* the packages that a script installs, or those it calls
    Wanted,         \* the projects that a package is made of
    BuiltIn,        \* the directory they are in
    Marker,         \* the variable that keeps scripts from waiting
    Hasty           \* scripts that end without having waited

(* built:   <<d, p, c>>: if d is there ("": anyway), msbuild was run on    *)
(*          p for c                                                        *)
(* fresh:   links that are not to a library as it was before               *)
(* waited:  it has waited for a key, unless the master has started it      *)
Deeds == [built : SUBSET (Name \X Name \X Configurations),
          fresh : SUBSET Link, waited : BOOLEAN]

Nothing == [built |-> {}, fresh |-> {}, waited |-> FALSE]

AllDone(s) == Progress[s][Len(Program[s]) + 1]

UsesOf(p) == {l \in Link : l[1] = p}

(* What has been done after a line, or a call, from what was before.       *)
DoneAfter(b, c) ==
    [built |-> {x \in b.built : x[1] \notin MadeBy(c)}
                   \union {x \in {<<c.dir, c.arg, c.op>>} : c.op \in Configurations},
     fresh |-> IF c.op = "install" THEN {l \in b.fresh : l[2] # c.arg} \union UsesOf(c.arg)
               ELSE b.fresh,
     waited |-> b.waited \/ c.op = "pause"]

(* What a script makes and brings may undo what its caller had done; the   *)
(* master starts a record of its own for every package.                    *)
DoneByCall(master, b, makes, brings, end) ==
    [built |-> IF master THEN {} ELSE {x \in b.built : x[1] \notin makes} \union end.built,
     fresh |-> {l \in b.fresh : l[2] \notin brings} \union end.fresh,
     waited |-> end.waited]

GivesUp(c) == c.op \in {"exit", "mayExit"}
NeverGivesUp(s) == \A i \in DOMAIN Program[s] : ~GivesUp(Program[s][i])

(* Started by the operator or the master, and setting nothing: no PATH.    *)
Bare(s) ==
    /\ s \in TopLevel
    /\ \A i \in DOMAIN Program[s] :
           LET c == Program[s][i]
           IN  /\ c.op = "set" => c.vars \subseteq {Marker}
               /\ c.op \in {"call", "callAt"} => c.arg # Setup
    /\ \A r \in Script : \A i \in DOMAIN Program[r] :
           CallsOf(Program[r][i]) /\ Program[r][i].arg = s => r = Master

(* A call by name that can only be missed.                                 *)
Missed(s, c) == <<s, c.arg>> \in Lost
NeverFound(s, c) == Bare(s) /\ c.op = "call" /\ c.arg \notin TopLevel

(* Only packages give up, and their scripts are called by the master; a    *)
(* script calls another before it waits.  The master calls from its own    *)
(* directory, and has set the marker.                                      *)
WellPaced(s, i) ==
    LET c == Program[s][i]
        b == Progress[s][i]
    IN  /\ c.op = "install" => c.arg \in Brings[s]
        /\ c.op \in Configurations => c.dir # "scripts"
        /\ c.op = "pause" => c.vars = {Marker} /\ s # Master
        /\ c.op \in {"set", "clear"} => s = Master \/ Marker \notin c.vars
        /\ GivesUp(c) => AllDone(s).fresh \subseteq b.fresh \union UsesOf(c.arg)
        /\ CallsOf(c) =>
               /\ Brings[c.arg] \subseteq Brings[s]
               /\ Missed(s, c) => NeverFound(s, c)
               /\ IF s = Master
                  THEN /\ Marker \in Outline[s][i].vars
                       /\ <<"scripts", "scripts">> \in Outline[s][i].place
                  ELSE NeverGivesUp(c.arg) /\ ~b.waited

DoneNext(s, i) ==
    LET c == Program[s][i]
        b == Progress[s][i]
    IN  CASE ~CallsOf(c) -> DoneAfter(b, c)
          [] CallsOf(c) /\ Missed(s, c) -> b
          [] OTHER -> DoneByCall(s = Master, b, Makes[c.arg], Brings[c.arg], AllDone(c.arg))

ProgressFollows ==
    /\ Progress \in [Script -> Seq(Deeds)] /\ Brings \in [Script -> SUBSET Name]
    /\ Marker # "PATH" /\ Bare(Master)
    /\ \A l \in Link : l[1] # l[2]
    /\ \A s \in Script : Len(Progress[s]) = Len(Program[s]) + 1 /\ Progress[s][1] = Nothing
    /\ \A s \in Script : \A i \in DOMAIN Program[s] :
           WellPaced(s, i) /\ Progress[s][i + 1] = DoneNext(s, i)

-----------------------------------------------------------------------------
Reached(i) == Progress[frames[i].script][frames[i].at]

(* msbuild has been run on the project in its place, and built it or not.  *)
Tried(p, config) == \E outcome \in Outcomes : <<p, config, outcome>> \in made

IsBuilt(x) == x[1] = "" \/ Trusted(x[1], disk, console) => Tried(x[2], x[3])

TopHasDone ==
    frames # <<>> =>
        /\ \A x \in Reached(Len(frames)).built : IsBuilt(x)
        /\ linked = "stale" => link \notin Reached(Len(frames)).fresh
        /\ paused = (~UnderMaster /\ Reached(Len(frames)).waited)

(* What a caller has done by itself, and what it will add to it.           *)
CallersHaveDone ==
    \A i \in 1..(Len(frames) - 1) :
        LET t == frames[i + 1].script
        IN  /\ \A x \in Reached(i).built \ AllDone(t).built : IsBuilt(x) /\ x[1] \notin Makes[t]
            /\ linked = "stale" => link \notin Reached(i).fresh \ AllDone(t).fresh
            /\ \A l \in Reached(i).fresh \ AllDone(t).fresh : l[2] \notin Brings[t]
            /\ IF frames[i].script = Master THEN Reached(i).built = {}
               ELSE NeverGivesUp(t) /\ Reached(i).waited = AllDone(t).waited

BringsAdded ==
    \A i, j \in 1..Len(frames) :
        i <= j => Brings[frames[j].script] \subseteq Brings[frames[i].script]

(* A run starts from, and comes back to, a console where nothing is set.   *)
StartsFresh ==
    /\ frames = <<>> => env = {} /\ here \in Consoles
    /\ frames # <<>> => /\ frames[1].script \in TopLevel
                        /\ frames[1].from.env = {} /\ frames[1].from.here \in Consoles

(* The marker is set under the master, and never otherwise.                *)
MarkerKept ==
    IF UnderMaster
    THEN \A i \in 2..Len(frames) : Marker \in frames[i].from.env /\ Marker \in env
    ELSE Marker \notin env /\ \A i \in 1..Len(frames) : Marker \notin frames[i].from.env

BareKept ==
    /\ frames # <<>> /\ Bare(Top.script) => env \subseteq {Marker}
    /\ \A i \in 1..(Len(frames) - 1) : Bare(frames[i].script) =>
           frames[i + 1].script # Setup /\ frames[i + 1].from.env \subseteq {Marker}

(* The shell is where a console opens, or in a directory that is there.    *)
KnownPlace(h) == h \in Consoles \union disk \union {"shadow"}
PlacesKnown ==
    KnownPlace(here) /\ \A i \in 1..Len(frames) : KnownPlace(frames[i].from.here)

SurroundingsKept == StartsFresh /\ MarkerKept /\ BareKept /\ PlacesKnown
ProgressHolds == link \in Link /\ BringsAdded /\ TopHasDone /\ CallersHaveDone

-----------------------------------------------------------------------------
(* all-build.bat runs through without a key being pressed; a script that   *)
(* the operator has started himself, and that has come to its end, has     *)
(* waited for him to read its output.  build-gsl.bat misses try-pause,     *)
(* build-lz4.bat runs past its functions instead of calling it,            *)
(* build-h5py.cmd is a part of build-hdf5.bat, and build-librdkafka.bat    *)
(* gives up before it does anything.                                       *)
WaitsForTheOperatorOnly ==
    [][Depth = 1 /\ Top.at > Len(Body) /\ frames' = <<>> =>
           paused = (Top.script \notin Hasty)]_vars

(* When a package is installed, msbuild has been run, in the right place,  *)
(* on every project of it and for both configurations, whichever helper    *)
(* carried the list of projects and whatever failed before: what it has    *)
(* not built by then, msbuild itself has failed on.  Unless cmake has      *)
(* failed to make the projects.                                            *)
NoProjectIsLeftOut ==
    Doing("install") /\ InPlace /\ Line.arg \in DOMAIN Wanted
        /\ console # "elsewhere" /\ BuiltIn[Line.arg] \in disk =>
            \A p \in Wanted[Line.arg], config \in Configurations : Tried(p, config)

(* When all-build.bat has come to its end, no package that was rebuilt in  *)
(* it is linked to a library that was rebuilt after it.                    *)
LinkedToWhatIsInstalled ==
    UnderMaster /\ Depth = 1 /\ Top.at > Len(Body) => linked # "stale"

(* What the second layer must say for them.                                *)
WaitsSure ==
    /\ Master \in Hasty
    /\ \A s \in TopLevel \ {Master} : AllDone(s).waited = (s \notin Hasty)

(* A project counts that was built anyway, in the directory of projects,   *)
(* or where the package is installed from.                                 *)
BuildsSure ==
    \A s \in Script : \A i \in DOMAIN Program[s] :
        LET c == Program[s][i]
        IN  c.op = "install" /\ c.arg \in DOMAIN Wanted =>
                /\ c.dir \notin Consoles \union {"shadow", ""}
                /\ \A p \in Wanted[c.arg], o \in Configurations :
                       \E d \in {"", BuiltIn[c.arg], c.dir} :
                           <<d, p, o>> \in Progress[s][i].built

LinksSure == AllDone(Master).fresh = Link
=============================================================================
