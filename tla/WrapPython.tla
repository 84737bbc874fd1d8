---------------------------- MODULE WrapPython -----------------------------
(***************************************************************************)
(* wrappython.h, which C++ code includes in place of Python.h so that a    *)
(* debug build does not ask for a debug Python: what the preprocessor has  *)
(* defined, and what each header found _DEBUG to be when it was read.      *)
(* fixup-python3.bat copies it into the Python that Launchers is about.    *)
(***************************************************************************)
EXTENDS Launchers

CONSTANTS
    Header,     \* the headers there are
    Builds,     \* what the preprocessor knows when a unit starts, in each build
    Units       \* translation units: the headers they include, in order

(* macros: what is defined;  seen: each header that has been read, and     *)
(* whether _DEBUG was defined then;  newStl: _MSVC_STL_VERSION >= 143      *)
Read(unit, header) ==
    IF header \in DOMAIN unit.seen THEN unit
    ELSE [unit EXCEPT !.seen =
              [h \in DOMAIN unit.seen \union {header} |->
                  IF h = header THEN "_DEBUG" \in unit.macros ELSE unit.seen[h]]]

Hides(unit) == "_DEBUG" \in unit.macros /\ "MANTID_DEBUG_PYTHON" \notin unit.macros

Hide(unit) ==
    LET yvals == Read(unit, "yvals.h")
        stl == IF unit.newStl THEN Read(yvals, "crtdefs.h") ELSE yvals
    IN [stl EXCEPT !.macros = (@ \ {"_DEBUG"})
                                \union {"DEBUG_UNDEFINED_FROM_WRAP_PYTHON_H"}]

(* pyconfig.h brings in the headers of the C library, Python.h the rest.   *)
ReadPython(unit) == Read(Read(Read(unit, "crtdefs.h"), "yvals.h"), "Python.h")

(* Mutant of Restore: _DEBUG stays undefined.                              *)
RestoreNothing(unit) ==
    [unit EXCEPT !.macros = @ \ {"DEBUG_UNDEFINED_FROM_WRAP_PYTHON_H"}]

Restore(unit) ==
    IF "DEBUG_UNDEFINED_FROM_WRAP_PYTHON_H" \in unit.macros
    THEN [unit EXCEPT !.macros = (@ \ {"DEBUG_UNDEFINED_FROM_WRAP_PYTHON_H"})
                                   \union {"_DEBUG"}]
    ELSE unit

WrapPython(unit) ==
    Restore(ReadPython(IF Hides(unit) THEN Hide(unit) ELSE unit))

Include(unit, header) ==
    IF header = "wrappython.h" THEN WrapPython(unit) ELSE Read(unit, header)

(* What the preprocessor knows at the end, header after header.            *)
Compiled(build, unit) ==
    LET after[i \in 0..Len(unit)] ==
            IF i = 0 THEN build ELSE Include(after[i - 1], unit[i])
    IN  after[Len(unit)]

-----------------------------------------------------------------------------
IsUnit(u) == u = [macros |-> u.macros, seen |-> u.seen, newStl |-> u.newStl]

(* A build starts with nothing read, and without the wrapper's own macro.  *)
ASSUME WrapAssumption ==
    /\ Units \subseteq Seq(Header)
    /\ \A b \in Builds : /\ IsUnit(b) /\ DOMAIN b.seen = {}
                         /\ "DEBUG_UNDEFINED_FROM_WRAP_PYTHON_H" \notin b.macros

(* What the standard library reads before the header undefines _DEBUG.     *)
Stl(build) == {"yvals.h"} \union {h \in {"crtdefs.h"} : build.newStl}

(* The code of a unit, after any of its headers, sees the macros of the    *)
(* build, and so did the standard library.                                 *)
Undisturbed(build, unit) ==
    /\ unit.macros = build.macros /\ unit.newStl = build.newStl
    /\ \A h \in Stl(build) \intersect DOMAIN unit.seen :
           unit.seen[h] = ("_DEBUG" \in build.macros)

AsksForDebug(build) == "_DEBUG" \in build.macros /\ "MANTID_DEBUG_PYTHON" \in build.macros

BringsPython(unit) == {i \in DOMAIN unit : unit[i] \in {"wrappython.h", "Python.h"}}
FirstIsWrapped(unit) ==
    \E i \in BringsPython(unit) :
        /\ unit[i] = "wrappython.h"
        /\ \A j \in BringsPython(unit) : i <= j

WrapperIsSound ==
    \A build \in Builds, unit \in Units :
        LET result == Compiled(build, unit)
        IN  /\ Undisturbed(build, result)
            /\ FirstIsWrapped(unit) => result.seen["Python.h"] = AsksForDebug(build)

(* Once the header has been copied, code that includes it before Python.h  *)
(* is not linked to a debug Python unless it asks for one, the headers of  *)
(* the standard library see the build as it is, and so does the code after *)
(* it, in whatever order headers are included.                             *)
HeaderHidesDebug == extras[1] = "whole" => WrapperIsSound
=============================================================================
