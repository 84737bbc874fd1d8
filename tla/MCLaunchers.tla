---------------------------- MODULE MCLaunchers ----------------------------
(***************************************************************************)
(* Launchers on packages of the repository's Python, and the header that   *)
(* fixup-python3.bat copies into it.                                       *)
(***************************************************************************)
EXTENDS WrapPython, TLC, SequencesExt

MCPackage == {"flake8", "nbformat", "setuptools", "tornado"}
MCListed == <<"flake8", "nbformat", "setuptools">>

(* Of one package pip may bring another version than the list names, as it *)
(* has with Sphinx, listed as 2.3.0 and installed as 1.8.5.                *)
MCVersions ==
    [p \in MCPackage |->
        CASE p = "flake8" -> {"listed", "other"}
          [] p = "tornado" -> {"other"}
          [] OTHER -> {"listed"}]
MCBundled == {"setuptools"}

Console(name, callable) == [console |-> TRUE, name |-> name, callable |-> callable]
Plugin(name, callable) == [console |-> FALSE, name |-> name, callable |-> callable]

(* From the entry_points.txt files under lib/python3.8; each plugin stands *)
(* for the other sections of the file.                                     *)
MCEntryPoints ==
    "flake8" :> <<Console(<<"flake8">>, "flake8.main.cli"),
                  Plugin(<<"flake8">>, "flake8.main.setuptools_command")>>
      @@ "nbformat" :> <<Console(<<"jupyter-trust">>, "TrustNotebookApp.launch_instance")>>
      @@ "setuptools" :> <<Console(<<"easy_install">>, "easy_install"),
                           Console(<<"easy_install-3", "6">>, "easy_install"),
                           Plugin(<<"install">>, "setuptools.install")>>
      @@ "tornado" :> <<>>

(* pip puts the version of the Python it runs in into some of the names.   *)
MCExe ==
    "flake8" :> (<<"flake8">> :> "flake8.main.cli")
      @@ "nbformat" :> (<<"jupyter-trust">> :> "TrustNotebookApp.launch_instance")
      @@ "setuptools" :> (<<"easy_install">> :> "easy_install"
                           @@ <<"easy_install-3", "8">> :> "easy_install")
      @@ "tornado" :> <<>>

MCSurplus == {<<"easy_install-3", "8">>}
MCName ==
    {<<"flake8">>, <<"jupyter-trust">>, <<"easy_install">>, <<"easy_install-3">>,
     <<"easy_install-3", "6">>, <<"easy_install-3", "8">>, <<"install">>}
MCCallable ==
    {"flake8.main.cli", "flake8.main.setuptools_command", "TrustNotebookApp.launch_instance",
     "easy_install", "setuptools.install"}
MCDotted == {"TrustNotebookApp.launch_instance"}
MCExtras == <<"wrappython.h", "sitecustomize.py">>

(* These packages are as the theorems about ToolsStart and                 *)
(* DeletedAreCovered want them.                                            *)
ASSUME PackagesAreCovered ==
    OneToolPerExe /\ ExesComeWithTheirLines /\ SurplusIsCovered

-----------------------------------------------------------------------------
(* Translation units: up to three headers, in builds of every kind.        *)
MCHeader == {"wrappython.h", "Python.h", "yvals.h", "crtdefs.h"}
MCUnits == BoundedSeq(MCHeader, 3)
MCBuilds == [macros : SUBSET {"_DEBUG", "MANTID_DEBUG_PYTHON"}, seen : {<<>>},
             newStl : BOOLEAN]
=============================================================================
