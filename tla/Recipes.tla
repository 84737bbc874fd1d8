------------------------------ MODULE Recipes ------------------------------
(***************************************************************************)
(* How each build script gets its sources: the data SourceTrees runs on,   *)
(* one definition per script, read off the script and, for the patches,    *)
(* off the `+++` lines of the patch file it applies.  A tree is reduced to *)
(* the files a patch touches and one or two that stand for all the others. *)
(***************************************************************************)
EXTENDS Sequences

(* The files no patch touches.                                             *)
Bulk == {"bulk1", "bulk2"}

(* Archive and directory have the same name: the extract helper's own test *)
(* finds the tree.                                                         *)
Zip(files, patches) ==
    [files |-> files, probe |-> files, outer |-> FALSE, inner |-> TRUE,
     tarball |-> FALSE, clears |-> FALSE, renames |-> FALSE, makes |-> "no",
     patches |-> patches]

Tarball(files, patches) == [Zip(files, patches) EXCEPT !.tarball = TRUE]

(* `if not exist %SRC_ROOT%` around download and extraction.               *)
Enclosed(recipe) == [recipe EXCEPT !.outer = TRUE]

(* The archive is not named after the directory it unpacks to: the extract *)
(* helper looks for a directory that never comes into being.               *)
Misnamed(recipe) == [recipe EXCEPT !.inner = FALSE]

(* cmake-configure.cmd is called with the root of the sources.             *)
Configured(recipe) == [recipe EXCEPT !.makes = "build"]

(* if not exist f.orig patch --backup, and the patch changes f only.       *)
Patched(f) == [kind |-> "patch", marker |-> f, files |-> <<f>>]

(* One patch file over several source files, guarded by one of them.       *)
PatchedUnder(marker, files) == [kind |-> "patch", marker |-> marker, files |-> files]

(* if not exist f.orig ( copy f f.orig ; copy ours f )                     *)
Replaced(f) == [kind |-> "copy", marker |-> f, files |-> <<f>>]

-----------------------------------------------------------------------------
Openssl == Tarball(Bulk, <<>>)
Szip == Configured(Tarball(Bulk, <<>>))
Zlib == Configured(Tarball({"zlib-config.cmake.in"} \union Bulk,
                           <<Patched("zlib-config.cmake.in")>>))
Hdf5 == Configured(Zip(Bulk, <<>>))
H5py == Zip(Bulk, <<>>)
Boost == Zip(Bulk, <<>>)
Eigen == Configured(Enclosed(Misnamed(Zip(Bulk, <<>>))))
JsonCpp == Configured(Enclosed(Misnamed(Zip(Bulk, <<>>))))
Lib3mf == Configured(Enclosed(Misnamed(Zip(Bulk, <<>>))))
Muparser == Enclosed(Misnamed(Zip({"CMakeLists.txt"} \union Bulk,
                                  <<Patched("CMakeLists.txt")>>)))
(* The JPEG archive comes inside this tree: download-and-extract.cmd makes *)
(* the directory it expects it in.                                         *)
Hdf4 == [Enclosed(Tarball(Bulk, <<>>)) EXCEPT !.makes = "stock"]
Nexus == Configured(Enclosed(
             Zip({"CMakeLists.txt", "NeXus.def", "NeXusFile.cpp", "NeXusFile.hpp",
                  "cpp/CMakeLists.txt", "FindHDF4.cmake", "napi.h.in", "bulk1"},
                 <<Patched("CMakeLists.txt"), Patched("NeXus.def"),
                   Patched("NeXusFile.cpp"), Patched("NeXusFile.hpp"),
                   Patched("cpp/CMakeLists.txt"), Patched("FindHDF4.cmake"),
                   Patched("napi.h.in")>>)))
(* The guarding file is the first of the three the patch changes.          *)
OceFiles == <<"Interface_STAT.cxx", "NCollection_WinHeapAllocator.cxx",
              "STEPConstruct_AP203Context.cxx">>
Oce == Configured(Enclosed(Misnamed(
           Tarball({OceFiles[i] : i \in DOMAIN OceFiles} \union Bulk,
                   <<PatchedUnder(OceFiles[1], OceFiles)>>))))
(* The script's own test stands around the extraction only.                *)
Poco == Zip(Bulk, <<>>)
(* Unpacked on every run: %SRC_ROOT% has no value yet at the test.         *)
Tbb == Misnamed(Zip(Bulk, <<>>))
Lz4 == Misnamed(Zip(Bulk, <<>>))
(* Only jom.exe is looked for.                                             *)
Jom == [Enclosed(Misnamed(Zip({"jom.exe"} \union Bulk, <<>>))) EXCEPT !.probe = {"jom.exe"}]
(* Ten files in one patch, the fifth of which guards it: here one before,  *)
(* the fifth, and one after.  The tree is large enough without the files   *)
(* that are not patched.  The mkspec for the compiler is copied in before  *)
(* the patches.                                                            *)
Qt4 == [Zip({"Makefile.win32", "bootstrap.pri", "zlib_dependency.pri",
            "StdHeader.h", "TypeTraits.h", "WebKit.pri",
            "HashSet.h", "MathExtras.h"},
           <<Patched("Makefile.win32"), Patched("bootstrap.pri"),
             Patched("zlib_dependency.pri"),
             PatchedUnder("TypeTraits.h", <<"StdHeader.h", "TypeTraits.h", "WebKit.pri">>),
             PatchedUnder("HashSet.h", <<"HashSet.h", "MathExtras.h">>)>>)
          EXCEPT !.makes = "stock"]
(* The unpacked directory is renamed to a shorter path.                    *)
Qt5 == [Zip(Bulk, <<>>) EXCEPT !.renames = TRUE]
(* The old tree is removed before the archive is unpacked again.           *)
Icu == [Misnamed(Zip(Bulk, <<>>)) EXCEPT !.clears = TRUE]
(* The second guard looks for InputEditor.cpp.orig, the patch changes      *)
(* InputMethod.cpp.                                                        *)
QScintillaQt4 == Enclosed(Zip({"qscintilla.pro", "InputMethod.cpp"} \union Bulk,
                              <<Patched("qscintilla.pro"),
                                PatchedUnder("InputEditor.cpp", <<"InputMethod.cpp">>)>>))
QScintillaQt5 == Enclosed(Zip(Bulk, <<>>))
Qwt5 == Zip({"qwtconfig.pri"} \union Bulk, <<Replaced("qwtconfig.pri")>>)
Qwt6 == Zip({"qwtconfig.pri"} \union Bulk, <<Replaced("qwtconfig.pri")>>)
QwtPlot3d == Enclosed(Misnamed(Zip({"qwt3d_openglhelper.h", "qwtplot3d.pro"} \union Bulk,
                                   <<Patched("qwt3d_openglhelper.h"),
                                     Patched("qwtplot3d.pro")>>)))
(* The guard looks for siputils.py.bak, patch --backup makes .orig.        *)
Sip == Zip({"siputils.py"} \union Bulk,
           <<PatchedUnder("siputils.py.bak", <<"siputils.py">>)>>)
(* configure.py.orig guards the patch of configure.py and the sed over all *)
(* other files.                                                            *)
PyQt == Zip({"configure.py", "bulk1"},
            <<PatchedUnder("configure.py", <<"configure.py", "bulk1">>)>>)

-----------------------------------------------------------------------------
Cookbook ==
    [openssl |-> Openssl, szip |-> Szip, zlib |-> Zlib, hdf5 |-> Hdf5,
     h5py |-> H5py, boost |-> Boost, eigen |-> Eigen, jsoncpp |-> JsonCpp,
     lib3mf |-> Lib3mf, muparser |-> Muparser, hdf4 |-> Hdf4,
     nexus |-> Nexus, oce |-> Oce, poco |-> Poco, tbb |-> Tbb, lz4 |-> Lz4,
     jom |-> Jom, qt4 |-> Qt4, qt5 |-> Qt5, icu |-> Icu,
     qscintilla4 |-> QScintillaQt4, qscintilla5 |-> QScintillaQt5,
     qwt5 |-> Qwt5, qwt6 |-> Qwt6, qwtplot3d |-> QwtPlot3d, sip |-> Sip,
     pyqt |-> PyQt]
=============================================================================
