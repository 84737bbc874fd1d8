------------------------------ MODULE Scripts ------------------------------
(***************************************************************************)
(* The commands of every script that call, set, move, wait or end, and     *)
(* those whose place matters: the data Shell runs on.  A directory inside  *)
(* an unpacked tree counts as the tree, unless another tree is in it.      *)
(***************************************************************************)
EXTENDS Naturals, TLC, SequencesExt

Cmd(op, arg, dir, reads) == [op |-> op, arg |-> arg, dir |-> dir, vars |-> reads]

Setlocal1 == Cmd("setlocal", "", "", {})
CallBy(name) == Cmd("call", name, "", {})
CallAt(name) == Cmd("callAt", name, "", {})
GoTo(d) == Cmd("cd", d, "", {})
GoToD(d) == Cmd("cdD", d, "", {})
GoInto(d, parent) == Cmd("cdHere", d, parent, {})
(* try-mkdir.cmd, download-and-extract.cmd, download-file.cmd and the      *)
(* extract-* helpers are found on the PATH.                                *)
Make(d) == Cmd("mkdir", d, "", {"PATH", "BUILD_ROOT"})
Fetch(tree) == Cmd("unpack", tree, "", {"PATH", "BUILD_ROOT"})
FetchHere(tree, d) == Cmd("unpackHere", tree, d, {"PATH"})
Run(d, reads) == Cmd("tool", "", d, reads)
Sed(d) == Cmd("rewrite", "", d, {})
Installs(p, d) == Cmd("install", p, d, {"INSTALL_PREFIX"})
MayGiveUp(p) == Cmd("mayExit", p, "", {})

FromSetup == {"PATH", "BUILD_ROOT", "INSTALL_PREFIX", "PYTHON_INSTALL_PREFIX",
              "SDK_VERSION", "QMAKESPEC"}
CommonSetup == <<Cmd("set", "", "", FromSetup)>>
TryPause == <<Cmd("pause", "", "", {"ALL_BUILD_RUNNING"})>>

Prologue == <<Setlocal1, CallAt("common-setup")>>
Finalize == <<CallBy("try-pause")>>

(* The archive is fetched to a path, or into the current directory.        *)
ToPath(tree) == <<Fetch(tree)>>
InHere(base, tree) == <<Make(base), GoTo(base), FetchHere(tree, base)>>

-----------------------------------------------------------------------------
(* The helpers for CMake and msbuild.  They are called with a build        *)
(* directory and projects; cmd.exe hands nine arguments over.              *)
MaxArgs == 9
(* The arguments a script makes use of from its n-th on.                   *)
Handed(args, n) == SubSeq(args, n, IF Len(args) < MaxArgs THEN Len(args) ELSE MaxArgs)

AtRoot == {"ALL_BUILD", "zlib"}
InstallOf(project) == IF project \in AtRoot THEN "INSTALL" ELSE project \o "/INSTALL"

BothConfigurations(project, d) ==
    <<Cmd("release", project, d, {}), Cmd("debug", project, d, {})>>

BuildReleaseAndDebug(args, d) ==
    <<Setlocal1>>
      \o FlattenSeq([i \in DOMAIN Handed(args, 1) |-> BothConfigurations(Handed(args, 1)[i], d)])

(* meant: the directory the projects are in.                               *)
BuildAndInstall(args, meant, installs) ==
    <<Setlocal1, GoTo(args[1])>>
      \o FlattenSeq([i \in DOMAIN Handed(args, 2) |->
             BothConfigurations(Handed(args, 2)[i], meant)
               \o BothConfigurations(InstallOf(Handed(args, 2)[i]), meant)])
      \o installs

(* generated: what cmake makes below its build directory.                  *)
CmakeConfigure(build, generated) ==
    <<Setlocal1, Cmd("enter", build, "", {}),
      Cmd("generate", generated, build, {"SDK_VERSION", "PATH"})>>

Configure(p) == p \o ": cmake-configure"
BuildInstall(p) == p \o ": build-and-install"
CmakeBuild(p) == p \o ": cmake-build-and-install"
Both(p) == p \o ": build-release-and-debug"

CmakeBuildAndInstall(p) ==
    <<Setlocal1, CallBy(Configure(p)), CallBy(BuildInstall(p))>>

(* The helpers as a package calls them, one after the other or through the *)
(* one that calls both; it is installed when they are done.                *)
HelpedTwice(p, build, projects) ==
    Configure(p) :> CmakeConfigure(build, build)
      @@ BuildInstall(p) :> BuildAndInstall(<<build>> \o projects, build,
                                            <<Installs(p, build)>>)

(* The second hands on what follows its source, options and prefix.        *)
Helped(p, build, projects) ==
    HelpedTwice(p, build, Handed(<<"source", "options", "prefix">> \o projects, 4))
      @@ CmakeBuild(p) :> CmakeBuildAndInstall(p)

ByCmake(p, tree) == Prologue \o ToPath(tree) \o <<CallBy(CmakeBuild(p))>> \o Finalize

(* Looks for the old headers below INSTALL_ROOT.                           *)
ByCmakeCleaned(p, tree) ==
    Prologue \o ToPath(tree) \o <<Run("", {"INSTALL_ROOT"}), CallBy(CmakeBuild(p))>> \o Finalize

-----------------------------------------------------------------------------
BuildOpenssl ==
    Prologue \o ToPath("openssl/src")
      \o <<GoTo("openssl/src"), Run("openssl/src", {"INSTALL_PREFIX"}),
           Installs("openssl", "openssl/src")>> \o Finalize

BuildSzip == ByCmake("szip", "szip/src")

BuildZlib ==
    Prologue \o ToPath("zlib/src")
      \o <<GoTo("zlib/src"), Run("zlib/src", {}), CallBy(CmakeBuild("zlib"))>>
      \o Finalize

BuildHdf5 ==
    Prologue \o ToPath("hdf5/src")
      \o <<Run("", {"INSTALL_PREFIX"}),
           CallBy(Configure("hdf5")), CallBy(BuildInstall("hdf5")),
           CallAt("build-h5py")>> \o Finalize

BuildH5py ==
    Prologue \o <<GoTo("h5py")>> \o ToPath("h5py/src")
      \o <<GoTo("h5py/src"), Run("h5py/src", {"PYTHON_INSTALL_PREFIX"}),
           Installs("h5py", "h5py/src")>>

BuildBoost ==
    Prologue \o InHere("boost", "boost/src")
      \o <<GoTo("boost/src"), Run("boost/src", {"PYTHON_INSTALL_PREFIX", "INSTALL_ROOT"}),
           Installs("boost", "boost/src")>> \o Finalize

(* Calls try-pause without common-setup.                                   *)
BuildGsl == <<Setlocal1>> \o Finalize

BuildEigen == ByCmakeCleaned("eigen", "eigen/src")
BuildJsonCpp == ByCmakeCleaned("jsoncpp", "jsoncpp/src")
BuildLib3mf == ByCmakeCleaned("lib3mf", "lib3mf/src")

(* The build directory it hands over is not the one it made, and does not  *)
(* exist: the helper stays in the right one.                               *)
BuildMuparser ==
    Prologue \o ToPath("muparser/src")
      \o <<GoTo("muparser/src"), Run("muparser/src", {}),
           Cmd("mkdirHere", "muparser/src/cmakebuild", "muparser/src", {}),
           GoInto("muparser/src/cmakebuild", "muparser/src"),
           Run("muparser/src/cmakebuild", {"INSTALL_PREFIX"}),
           CallBy(BuildInstall("muparser"))>> \o Finalize

(* Three builds; the projects of the last are named by their paths.        *)
NexusSource == <<"NeXus_Shared_Library", "src/INSTALL">>
NexusCpp == <<"NeXus_CPP_Shared_Library", "cpp/INSTALL">>
NexusInclude == <<"include/INSTALL">>
BuildNexus ==
    Prologue \o ToPath("nexus/hdf") \o ToPath("nexus/jpeg")
      \o <<GoTo("nexus/jpeg"), CallBy(Configure("jpeg")), CallBy(BuildInstall("jpeg")),
           GoTo("nexus/hdf"), CallBy(Configure("hdf4")), CallBy(BuildInstall("hdf4"))>>
      \o ToPath("nexus/src")
      \o <<GoTo("nexus/src"), Run("nexus/src", {}), Run("", {"INSTALL_PREFIX"}),
           CallBy(Configure("nexus")), CallBy(Both("nexus source")),
           CallBy(Both("nexus cpp")), CallBy(Both("nexus include")),
           Installs("nexus", "nexus/src")>> \o Finalize

(* The helper is called without the build directory, and takes the first   *)
(* project for it.                                                         *)
OceFirst == <<"TKBO", "TKBRep", "TKernel", "TKG2d", "TKG3d">>
OceSecond == <<"TKGeomAlgo", "TKGeomBase", "TKMath", "TKMesh", "TKPrim", "TKTopAlgo">>
BuildOce ==
    Prologue \o ToPath("oce/src")
      \o <<GoTo("oce/src"), Run("oce/src", {}), CallBy(Configure("oce")),
           GoTo("oce/src/build/adm/cmake"),
           CallBy(BuildInstall("oce first")), CallBy(BuildInstall("oce second")),
           GoTo("oce/src/build"), CallBy(Both("oce")),
           Installs("oce", "oce/src/build")>> \o Finalize

BuildPoco ==
    Prologue \o InHere("poco", "poco/src")
      \o <<GoTo("poco/src"), Run("poco/src", {}), Installs("poco", "poco/src")>>
      \o Finalize

(* Looks for its tree by a name it sets afterwards.  (The %dp0 of line 11  *)
(* is not closed: cmd.exe drops the % and reads no variable there.)        *)
FetchTbb ==
    Prologue
      \o <<Make("tbb"), GoTo("tbb"), Cmd("unpackHere", "tbb/src", "tbb", {"PATH", "SRC_ROOT"}),
           Cmd("set", "", "", {"SRC_ROOT"}), GoTo("tbb/src"), Installs("tbb", "tbb/src")>> \o Finalize

(* No goto:eof before its functions: it runs into the first.               *)
BuildLz4 ==
    Prologue \o InHere("lz4", "lz4/src")
      \o <<GoTo("lz4/src"), Run("lz4/src", {}), Installs("lz4", "lz4/src"), Run("", {})>>

BuildLibrdkafka == <<Setlocal1, Cmd("exit", "librdkafka", "", {})>>

BuildQt4 ==
    Prologue \o InHere("jom", "jom/jom.exe") \o InHere("qt4", "qt4/src")
      \o <<GoTo("qt4/src"), Run("qt4/src", {}), MayGiveUp("qt4"), Run("qt4/src", {}),
           Installs("qt4", "qt4/src")>> \o Finalize

(* The prefix is cleared for nmake, which has a use of its own for it.     *)
WithoutPrefix == <<Cmd("clear", "", "", {"INSTALL_PREFIX"})>>
BuildQscintillaQt4 ==
    Prologue \o ToPath("qscintilla/src")
      \o <<GoTo("qscintilla/src"), Run("qscintilla/src", {})>> \o WithoutPrefix
      \o <<Cmd("install", "qscintilla", "qscintilla/src", {})>> \o Finalize

BuildQscintillaQt5 == BuildQscintillaQt4

(* Goes on to use the prefix it has cleared.                               *)
BuildQwt5 ==
    Prologue \o ToPath("qwt5/src")
      \o <<GoTo("qwt5/src"), Run("qwt5/src", {})>> \o WithoutPrefix
      \o <<Installs("qwt5", "qwt5/src")>> \o Finalize

BuildQwt6 ==
    Prologue \o ToPath("qwt6/src")
      \o <<GoTo("qwt6/src"), Run("qwt6/src", {"INSTALL_PREFIX"}),
           Installs("qwt6", "qwt6/src")>> \o Finalize

BuildQwtPlot3d ==
    Prologue \o ToPath("qwtplot3d/src")
      \o <<GoTo("qwtplot3d/src"), Run("qwtplot3d/src", {}),
           Installs("qwtplot3d", "qwtplot3d/src")>> \o Finalize

BuildQt5 ==
    Prologue
      \o <<MayGiveUp("qt5"), Make("jom"), GoToD("jom"), FetchHere("jom/jom.exe", "jom"),
           Make("qt5"), GoToD("qt5"), FetchHere("qt5/src", "qt5"),
           GoTo("qt5/src"), Run("qt5/src", {}), MayGiveUp("qt5"), Run("qt5/src", {}),
           MayGiveUp("qt5"), Installs("qt5", "qt5/src")>> \o Finalize

BuildIcu ==
    Prologue \o <<MayGiveUp("icu")>> \o InHere("icu", "icu/src")
      \o <<GoTo("icu/src"), Run("icu/src", {})>> \o Finalize

-----------------------------------------------------------------------------
(* PyQt: sip in a directory of its own, then two trees.                    *)
SipOf(p) == p \o ": build-sip"
DoBuild(p, type) == p \o ": do-build " \o type

BuildSip(p) ==
    Prologue \o InHere(p \o "/sip", p \o "/sip/src")
      \o <<GoToD(p \o "/sip/src"), Sed(p \o "/sip/src"),
           Run(p \o "/sip/src", {"QMAKESPEC"})>>

DoBuildBody(p, tree, parent) ==
    <<Setlocal1, FetchHere(tree, parent), GoInto(tree, parent), Sed(tree),
      Run(tree, {"INSTALL_PREFIX"}), Installs(p, tree)>>

BuildPyQt(p) ==
    Prologue \o
      <<Make(p), GoTo(p), CallAt(SipOf(p)), Run(p, {}),
        Make(p \o "/debug"), GoToD(p \o "/debug"), CallAt(DoBuild(p, "debug")),
        Make(p \o "/release"), GoToD(p \o "/release"), CallAt(DoBuild(p, "release"))>>
      \o Finalize

PyQtParts(p) ==
    SipOf(p) :> BuildSip(p)
      @@ DoBuild(p, "debug") :> DoBuildBody(p, p \o "/debug/src", p \o "/debug")
      @@ DoBuild(p, "release") :> DoBuildBody(p, p \o "/release/src", p \o "/release")

FixupPython3 ==
    Prologue \o <<MayGiveUp("python"), Run("", {"PYTHON_INSTALL_PREFIX"}),
                  MayGiveUp("python"), Run("", {"PYTHON_INSTALL_PREFIX"})>> \o Finalize

BuildTcmalloc ==
    Prologue \o ToPath("tcmalloc/src")
      \o <<GoTo("tcmalloc/src"), Run("tcmalloc/src", {}), CallBy(Both("tcmalloc")),
           Installs("tcmalloc", "tcmalloc/src")>> \o Finalize

FetchClangFormat ==
    Prologue \o <<Make("clang-format"), GoTo("clang-format"), Run("clang-format", {}),
                  Installs("clang-format", "clang-format")>> \o Finalize

(* Sets its own PATH and build root.                                       *)
BuildInelastic ==
    <<Setlocal1, Cmd("set", "", "", {"PATH", "BUILD_ROOT"}), Make("fortran"),
      GoTo("fortran"), FetchHere("fortran/src", "fortran"),
      GoInto("fortran/src", "fortran"), Run("fortran/src", {})>> \o Finalize

-----------------------------------------------------------------------------
Order ==
    <<"fetch-python.bat", "build-openssl", "build-szip", "build-zlib", "build-hdf5",
      "build-boost", "build-gsl", "build-jsoncpp", "build-lib3mf", "build-muparser",
      "build-nexus", "build-oce", "build-poco", "fetch-tbb.bat", "build-lz4",
      "build-librdkafka",
      "build-qt4", "build-qscintilla2-qt4", "build-qwt5-qt4", "build-qwtplot3d-qt4">>

AllBuild ==
    <<Setlocal1, Cmd("set", "", "", {"ALL_BUILD_RUNNING"}), GoToD("scripts")>>
      \o [i \in DOMAIN Order |-> CallBy(Order[i])]

Packages ==
    "all-build" :> AllBuild @@ "build-openssl" :> BuildOpenssl @@ "build-szip" :> BuildSzip
      @@ "build-zlib" :> BuildZlib @@ "build-hdf5" :> BuildHdf5 @@ "build-h5py" :> BuildH5py
      @@ "build-boost" :> BuildBoost @@ "build-gsl" :> BuildGsl
      @@ "build-eigen" :> BuildEigen @@ "build-jsoncpp" :> BuildJsonCpp
      @@ "build-lib3mf" :> BuildLib3mf @@ "build-muparser" :> BuildMuparser
      @@ "build-nexus" :> BuildNexus @@ "build-oce" :> BuildOce @@ "build-poco" :> BuildPoco
      @@ "fetch-tbb" :> FetchTbb @@ "build-lz4" :> BuildLz4
      @@ "build-librdkafka" :> BuildLibrdkafka @@ "build-qt4" :> BuildQt4
      @@ "build-qscintilla2-qt4" :> BuildQscintillaQt4
      @@ "build-qscintilla2-qt5" :> BuildQscintillaQt5
      @@ "build-qwt5-qt4" :> BuildQwt5 @@ "build-qwt6-qt5" :> BuildQwt6
      @@ "build-qwtplot3d-qt4" :> BuildQwtPlot3d @@ "build-qt5" :> BuildQt5
      @@ "build-icu" :> BuildIcu @@ "build-pyqt4" :> BuildPyQt("pyqt4")
      @@ "build-pyqt5" :> BuildPyQt("pyqt5") @@ "fixup-python3" :> FixupPython3
      @@ "build-tcmalloc" :> BuildTcmalloc @@ "fetch-clang-format" :> FetchClangFormat
      @@ "build-inelastic-fortran-gcc" :> BuildInelastic

Helpers ==
    "try-pause" :> TryPause
      @@ Helped("szip", "szip/src/build", <<"ALL_BUILD">>)
      @@ Helped("zlib", "zlib/src/build", <<"zlib">>)
      @@ HelpedTwice("hdf5", "hdf5/src/build", <<"ALL_BUILD">>)
      @@ Helped("eigen", "eigen/src/build", <<"ALL_BUILD">>)
      @@ Helped("jsoncpp", "jsoncpp/src/build", <<"ALL_BUILD">>)
      @@ Helped("lib3mf", "lib3mf/src/build", <<"ALL_BUILD">>)
      @@ BuildInstall("muparser") :>
             BuildAndInstall(<<"muparser/src/cmakebuild/build", "ALL_BUILD">>,
                             "muparser/src/cmakebuild",
                             <<Installs("muparser", "muparser/src/cmakebuild")>>)
      @@ Configure("jpeg") :> CmakeConfigure("nexus/jpeg/build", "nexus/jpeg/build")
      @@ BuildInstall("jpeg") :>
             BuildAndInstall(<<"nexus/jpeg/build", "ALL_BUILD">>, "nexus/jpeg/build", <<>>)
      @@ Configure("hdf4") :> CmakeConfigure("nexus/hdf/build", "nexus/hdf/build")
      @@ BuildInstall("hdf4") :>
             BuildAndInstall(<<"nexus/hdf/build", "ALL_BUILD">>, "nexus/hdf/build", <<>>)
      @@ Configure("nexus") :> CmakeConfigure("nexus/src/build", "nexus/src/build")
      @@ Both("nexus source") :> BuildReleaseAndDebug(NexusSource, "")
      @@ Both("nexus cpp") :> BuildReleaseAndDebug(NexusCpp, "")
      @@ Both("nexus include") :> BuildReleaseAndDebug(NexusInclude, "")
      @@ Configure("oce") :> CmakeConfigure("oce/src/build", "oce/src/build/adm/cmake")
      @@ BuildInstall("oce first") :>
             BuildAndInstall(OceFirst, "oce/src/build/adm/cmake", <<>>)
      @@ BuildInstall("oce second") :>
             BuildAndInstall(OceSecond, "oce/src/build/adm/cmake", <<>>)
      @@ Both("oce") :> BuildReleaseAndDebug(<<"INSTALL">>, "oce/src/build")
      @@ Both("tcmalloc") :> BuildReleaseAndDebug(<<"libtcmalloc_minimal">>, "tcmalloc/src")

Functions == PyQtParts("pyqt4") @@ PyQtParts("pyqt5") @@ "common-setup" :> CommonSetup

AllScripts == Packages @@ Helpers @@ Functions
=============================================================================
