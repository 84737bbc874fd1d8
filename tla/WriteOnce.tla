----------------------------- MODULE WriteOnce -----------------------------
(***************************************************************************)
(* What a build script promises about anything it fetches: a thing on disk *)
(* (a downloaded archive, an unpacked source tree) is written in a single  *)
(* go, by the step that found nothing there, and is never written again.   *)
(* Every script tests with `if not exist` before it writes, and this is    *)
(* what the test is for.  The promise has two sides: work is not repeated, *)
(* and what a broken transfer left behind stays until somebody deletes it. *)
(***************************************************************************)
VARIABLES
    item,   \* "absent", "partial" or "whole"
    busy    \* TRUE while the one writing step is at work

WriteOnceTypeOK ==
    /\ item \in {"absent", "partial", "whole"}
    /\ busy \in BOOLEAN

WriteOnceInit == item = "absent" /\ busy = FALSE

(* A writing step starts only where nothing is there yet.                  *)
Open == /\ ~busy
        /\ item = "absent"
        /\ busy' = TRUE
        /\ item' \in {"absent", "partial"}

Grow == /\ busy
        /\ item # "whole"
        /\ item' \in {"partial", "whole"}
        /\ UNCHANGED busy

(* The last bytes may arrive with the end of the step, and the step may    *)
(* end, or be cut off, with anything on disk.                              *)
Close == /\ busy
         /\ busy' = FALSE
         /\ item' \in {item, "whole"}

WriteOnceNext == Open \/ Grow \/ Close

WriteOnceSpec == WriteOnceInit /\ [][WriteOnceNext]_<<item, busy>>
=============================================================================
