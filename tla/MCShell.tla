------------------------------ MODULE MCShell ------------------------------
(***************************************************************************)
(* Shell on the scripts of the repository, and their properties.           *)
(***************************************************************************)
EXTENDS ShellProgress, Scripts

MCName == STRING
MCScript == DOMAIN AllScripts
MCProgram == AllScripts
MCTopLevel == DOMAIN Packages
MCHelper == DOMAIN Helpers
MCMaster == "all-build"
MCSetup == "common-setup"
MCVariable == FromSetup \union {"ALL_BUILD_RUNNING", "INSTALL_ROOT", "SRC_ROOT"}

(* Who is linked to whose libraries, from the options the scripts pass and *)
(* from what they say they require.                                        *)
MCLink ==
    {<<"hdf5", "szip">>, <<"hdf5", "zlib">>, <<"h5py", "hdf5">>, <<"nexus", "hdf5">>,
     <<"nexus", "zlib">>, <<"nexus", "szip">>, <<"poco", "openssl">>, <<"qt4", "zlib">>,
     <<"qscintilla", "qt4">>, <<"qwt5", "qt4">>, <<"qwtplot3d", "qt4">>}

(* The scripts are as the theorem about calls wants them.                  *)
ASSUME ScriptsAreScoped == WellScoped

-----------------------------------------------------------------------------
(* What each script makes, and the outline of each: what follows from what *)
(* it is called with.                                                      *)
CallsTo(scripts, t) ==
    {x \in UNION {{s} \X DOMAIN scripts[s] : s \in DOMAIN scripts} :
        scripts[x[1]][x[2]].op \in {"call", "callAt"} /\ scripts[x[1]][x[2]].arg = t}

Makings(scripts) ==
    LET calls(c) == c.op \in {"call", "callAt"} /\ c.arg \in DOMAIN scripts
        makes[s \in DOMAIN scripts] ==
            UNION {MadeBy(scripts[s][i]) \union
                       (IF calls(scripts[s][i]) THEN makes[scripts[s][i].arg] ELSE {}) :
                       i \in DOMAIN scripts[s]}
    IN  [s \in DOMAIN scripts |-> makes[s]]
MCMakes == Makings(AllScripts)

Called(f, t, makes) ==
    [vars |-> f.vars \union (IF t = "common-setup" THEN FromSetup ELSE {}),
     place |-> {x \in f.place : x[1] \notin makes},
     may |-> f.may \union makes, must |-> f.must, away |-> f.away]

Scratched(may) ==
    [vars |-> {}, place |-> {}, may |-> {"scripts"} \union may, must |-> {}, away |-> FALSE]

(* Helpers and functions, but for those that need nothing, are called from *)
(* one place each.                                                         *)
Outlines(scripts, packages, makes) ==
    LET first(s, outline) ==
            CASE s \in packages ->
                    Scratched(UNION {makes[x[1]] :
                        x \in {y \in CallsTo(scripts, s) : y[1] # "all-build"}})
              [] s \in {"common-setup", "try-pause"} \/ CallsTo(scripts, s) = {} ->
                    Scratched(UNION {makes[t] : t \in DOMAIN scripts})
              [] OTHER -> LET x == CHOOSE x \in CallsTo(scripts, s) : TRUE
                          IN  outline[x[1]][x[2]]
        outline[s \in DOMAIN scripts] ==
            LET facts[i \in 1..(Len(scripts[s]) + 1)] ==
                    IF i = 1 THEN first(s, outline)
                    ELSE LET f == facts[i - 1]
                             c == scripts[s][i - 1]
                         IN  IF c.op \in {"call", "callAt"} /\ c.arg \in DOMAIN scripts
                             THEN Called(f, c.arg, makes[c.arg]) ELSE After(f, c)
            IN  [i \in 1..(Len(scripts[s]) + 1) |-> facts[i]]
    IN  [s \in DOMAIN scripts |-> outline[s]]
MCOutline == Outlines(AllScripts, DOMAIN Packages, MCMakes)

ASSUME OutlineIsSound == OutlineFollows
ASSUME EveryLineIsSure == CallsSure /\ PlacesSure /\ RewritesSure /\ ReadsSure

-----------------------------------------------------------------------------
(* What each script installs, and what it has done at each of its lines.   *)
BroughtBy(scripts) ==
    LET calls(c) == c.op \in {"call", "callAt"} /\ c.arg \in DOMAIN scripts
        brings[s \in DOMAIN scripts] ==
            UNION {{x \in {scripts[s][i].arg} : scripts[s][i].op = "install"} \union
                       (IF calls(scripts[s][i]) THEN brings[scripts[s][i].arg] ELSE {}) :
                       i \in DOMAIN scripts[s]}
    IN  [s \in DOMAIN scripts |-> brings[s]]
MCBrings == BroughtBy(AllScripts)

Advances(scripts, makes, brings, master, lost) ==
    LET calls(c) == c.op \in {"call", "callAt"} /\ c.arg \in DOMAIN scripts
        advance[s \in DOMAIN scripts] ==
            LET deeds[i \in 1..(Len(scripts[s]) + 1)] ==
                    IF i = 1 THEN Nothing
                    ELSE LET c == scripts[s][i - 1]
                             b == deeds[i - 1]
                         IN  CASE calls(c) /\ <<s, c.arg>> \in lost -> b
                               [] calls(c) /\ <<s, c.arg>> \notin lost ->
                                      DoneByCall(s = master, b, makes[c.arg], brings[c.arg],
                                                 advance[c.arg][Len(scripts[c.arg]) + 1])
                               [] OTHER -> DoneAfter(b, c)
            IN  [i \in 1..(Len(scripts[s]) + 1) |-> deeds[i]]
    IN  [s \in DOMAIN scripts |-> advance[s]]
MCProgress == Advances(AllScripts, MCMakes, MCBrings, MCMaster, Lost)

(* The projects of OCE that its comment names, but for the two that its    *)
(* calls lose for want of the build directory; they are left to INSTALL.   *)
MCWanted ==
    [p \in {"szip", "hdf5", "eigen", "jsoncpp", "lib3mf", "muparser"} |->
        {"ALL_BUILD", "INSTALL"}]
      @@ "zlib" :> {"zlib", "INSTALL"}
      @@ "nexus" :> ToSet(NexusSource \o NexusCpp \o NexusInclude)
      @@ "oce" :> {"TKBRep", "TKernel", "TKG2d", "TKG3d", "TKGeomBase", "TKMath",
                   "TKMesh", "TKPrim", "TKTopAlgo", "INSTALL"}
      @@ "tcmalloc" :> {"libtcmalloc_minimal"}
MCBuiltIn ==
    [p \in {"szip", "hdf5", "eigen", "jsoncpp", "lib3mf", "zlib"} |-> p \o "/src/build"]
      @@ "muparser" :> "muparser/src/cmakebuild" @@ "nexus" :> "nexus/src"
      @@ "oce" :> "oce/src/build/adm/cmake" @@ "tcmalloc" :> "tcmalloc/src"

MCMarker == "ALL_BUILD_RUNNING"
MCHasty == {"all-build", "build-gsl", "build-lz4", "build-h5py", "build-librdkafka"}

ASSUME ProgressIsSound == ProgressFollows
ASSUME EveryPackageIsSure == WaitsSure /\ BuildsSure /\ LinksSure
=============================================================================
