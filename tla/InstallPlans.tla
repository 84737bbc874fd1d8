---------------------------- MODULE InstallPlans ----------------------------
(***************************************************************************)
(* How each script installs its package: the data Install runs on.         *)
(***************************************************************************)
EXTENDS Naturals, Sequences

Step(op, at) == [op |-> op, at |-> at, skip |-> 0]
Unless(at, n) == [op |-> "ifExists", at |-> at, skip |-> n]

(* The libraries and DLLs of a package that is built in two parts, one     *)
(* after the other, are at different places: release and debug             *)
(* configuration, or the first of several projects and the rest.           *)
First == {"lib", "dll"}
Second == {"lib2", "dll2"}
Single == {"inc"} \union First
All == Single \union Second

(* Copies made by the script itself from the build tree: they go on when   *)
(* the build has failed.                                                   *)
ByHand(steps) ==
    [steps |-> steps, places |-> Single, linked |-> FALSE, missing |-> FALSE,
     kept |-> FALSE]

(* nmake install, or the INSTALL project of CMake.                         *)
ByTarget(steps) == [ByHand(steps) EXCEPT !.linked = TRUE]

BuildStep == <<Step("build", Single)>>
PutAll == <<Step("put", {"inc"}), Step("put", {"lib"}), Step("put", {"dll"})>>
StageAll == <<Step("stage", {"inc"}), Step("stage", {"lib"}), Step("stage", {"dll"})>>

(* build-and-install.cmd: INSTALL in release, then in debug configuration, *)
(* whether or not the first succeeds.  INSTALL builds what is not built:   *)
(* the two calls for the project before it do nothing that shows.          *)
Configured(before) ==
    [ByTarget(before
              \o <<Step("build", Single), Step("put", {"inc"}), Step("put", {"lib"}),
                   Step("put", {"dll"}),
                   Step("build", {"inc"} \union Second), Step("put", {"inc"}),
                   Step("put", {"lib2"}), Step("put", {"dll2"})>>)
     EXCEPT !.places = All]

-----------------------------------------------------------------------------
Openssl == ByTarget(BuildStep \o PutAll)
Szip == Configured(<<>>)
Zlib == Configured(<<>>)
(* H5* are headers; hdf5* is looked for in the prefix itself, where there  *)
(* is none.                                                                *)
Hdf5 == Configured(<<Step("remove", {"inc"})>>)
(* The cleaning is guarded by the first thing it removes.  b2 installs the *)
(* headers and what it could build; the DLLs go to lib, where the cleaning *)
(* looks for them, and are moved to bin.                                   *)
Boost ==
    [ByHand(<<Unless({"inc"}, 3), Step("remove", {"inc"}), Step("remove", {"lib"}),
                Step("unstage", {"dll"})>>
              \o BuildStep
              \o <<Step("source", {"inc"}), Step("put", {"lib"}), Step("stage", {"dll"}),
                   Step("move", {"dll"})>>)
     EXCEPT !.missing = TRUE, !.kept = TRUE]
(* %INSTALL_ROOT% is not defined: the old headers are never found.         *)
CleanNowhere == <<Unless({}, 1), Step("remove", {"inc"})>>
(* Headers only, installed twice.                                          *)
Eigen ==
    [ByTarget(CleanNowhere
              \o <<Step("build", {"inc"}), Step("put", {"inc"}),
                   Step("build", {"inc"}), Step("put", {"inc"})>>)
     EXCEPT !.places = {"inc"}]
JsonCpp == Configured(CleanNowhere)
Lib3mf == Configured(CleanNowhere)
Muparser == Configured(<<>>)
(* The C library, the C++ library and the headers are built and installed  *)
(* one after the other, to a directory that all versions share and that is *)
(* never emptied, and are copied from there by wildcards.                  *)
Nexus ==
    [ByTarget(<<Step("remove", {"dll", "dll2"}), Step("remove", {"lib", "lib2"}),
                Step("remove", {"inc"}),
                Step("build", First), Step("stage", First),
                Step("build", Second), Step("stage", Second),
                Step("build", {"inc"}), Step("stage", {"inc"}),
                Step("take", {"inc"}), Step("take", {"dll"}), Step("take", {"dll2"}),
                Step("take", {"lib"}), Step("take", {"lib2"})>>)
     EXCEPT !.places = All, !.kept = TRUE]
(* Each project is installed before the next is built, and all of them     *)
(* once more by the INSTALL project of the whole, which also has the       *)
(* headers.  Libraries and DLLs go to prefix\Win64 and are moved from      *)
(* there.                                                                  *)
Oce ==
    [ByTarget(<<Step("build", First), Step("stage", First),
                Step("build", Second), Step("stage", Second),
                Step("build", Single), Step("put", {"inc"}), Step("stage", First),
                Step("build", {"inc"} \union Second), Step("put", {"inc"}),
                Step("stage", Second),
                Step("move", {"dll", "dll2"}), Step("move", {"lib", "lib2"}),
                Step("unstage", All)>>)
     EXCEPT !.places = All, !.kept = TRUE]
(* rmdir takes no wildcards: the DLLs and libraries are not removed.       *)
Poco == ByHand(BuildStep
               \o <<Step("remove", {"inc"}), Step("source", {"inc"}), Step("put", {"dll"}),
                    Step("put", {"lib"})>>)
(* Nothing is compiled: the tree is as it was unpacked.                    *)
Tbb == ByHand(BuildStep
              \o <<Step("remove", {"inc"}), Step("put", {"inc"}),
                   Step("remove", {"lib"}), Step("put", {"lib"}),
                   Step("remove", {"dll"}), Step("put", {"dll"})>>)
Lz4 == ByHand(BuildStep
              \o <<Step("source", {"inc"}), Step("put", {"lib"}), Step("put", {"dll"})>>)
(* %INSTALL_PREFIX% is empty by then: the copies go to the drive's root.   *)
Qwt5 == ByTarget(BuildStep \o StageAll
                 \o <<Step("lose", {"inc"}), Step("lose", {"dll"}), Step("lose", {"lib"}),
                      Step("unstage", Single)>>)
Qwt6 == ByTarget(BuildStep \o StageAll
                 \o <<Step("take", {"inc"}), Step("take", {"dll"}), Step("take", {"lib"}),
                      Step("unstage", Single)>>)
QwtPlot3d == ByHand(BuildStep
                    \o <<Step("source", {"inc"}), Step("put", {"dll"}), Step("put", {"lib"})>>)

AllPlans ==
    [openssl |-> Openssl, szip |-> Szip, zlib |-> Zlib, hdf5 |-> Hdf5,
     boost |-> Boost, eigen |-> Eigen, jsoncpp |-> JsonCpp, lib3mf |-> Lib3mf,
     muparser |-> Muparser, nexus |-> Nexus, oce |-> Oce, poco |-> Poco,
     tbb |-> Tbb, lz4 |-> Lz4, qwt5 |-> Qwt5, qwt6 |-> Qwt6,
     qwtplot3d |-> QwtPlot3d]
=============================================================================
