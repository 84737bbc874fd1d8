----------------------------- MODULE MCInstall -----------------------------
(* Install on the scripts of the repository.                               *)
EXTENDS Install, InstallPlans

MCPackages == DOMAIN AllPlans
(* Scripts with a run of their own.                                        *)
MCBoost == {"boost"}
MCQwt5 == {"qwt5"}
MCUncleaned == {"eigen", "jsoncpp", "lib3mf"}

MCPlace == All
MCPlan == [p \in Package |-> AllPlans[p]]

(* The repository's scripts are as the theorems about Install want them.   *)
ASSUME PlansAreWellPlanned ==
    \A p \in MCPackages : WellPlanned(AllPlans[p]) /\ Coherent(AllPlans[p])
=============================================================================
