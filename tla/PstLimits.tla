------------------------------ MODULE PstLimits ------------------------------
(***************************************************************************)
(* limits.py and errors.py: the ceilings every walk of the reader checks   *)
(* before it does the work, the cycle guard it carries, and the classes of *)
(* refusal a caller can tell apart.  A ceiling is inclusive: it is the     *)
(* largest value that passes.                                              *)
(***************************************************************************)
EXTENDS Naturals, FiniteSets

(* PstNotFoundError is a kind of PstFormatError in the code; the models    *)
(* keep the class that is raised.  "none" is the absence of a refusal.     *)
Refusals == {"PstFormatError", "PstNotFoundError", "PstUnsupportedError", "PstLimitError"}
NoError == "none"

(* check_depth, check_count and check_allocation: one comparison.          *)
Exceeds(value, ceiling) == value > ceiling

(* VisitedSet.add refuses a key it holds, and any key once it is full.     *)
AddRefused(seen, key, ceiling) ==
    key \in seen \/ Cardinality(seen) >= ceiling

=============================================================================
