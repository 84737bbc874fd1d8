--------------------------- MODULE MCSourceTrees ---------------------------
(***************************************************************************)
(* SourceTrees on the recipes of the repository's scripts, and its         *)
(* properties.                                                             *)
(***************************************************************************)
EXTENDS SourceProperties, Recipes

MCAllScripts == DOMAIN Cookbook

MCConfigured == {s \in MCAllScripts : Cookbook[s].makes = "build"}

MCFiles ==
    UNION {Cookbook[s].files : s \in MCAllScripts}
      \union {"siputils.py.bak", "InputEditor.cpp"}

MCRecipe == [s \in Scripts |-> Cookbook[s]]

(* The repository's recipes are as the theorems about patches want them.   *)
ASSUME RecipesAreWellGuarded ==
    \A s \in MCAllScripts :
        /\ WellGuarded(Cookbook[s])
        /\ FirstGuarded(Cookbook[s])
        /\ Repeatable(Cookbook[s])
=============================================================================
