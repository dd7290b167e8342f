--------------------------- MODULE MCTaskService ---------------------------
(***************************************************************************)
(* Model-checking instances of TaskService.                                *)
(***************************************************************************)
EXTENDS TaskService, TLC

CONSTANTS t1, t2, t3, g1

TwoTasks   == {t1, t2}
ThreeTasks == {t1, t2, t3}
NoTask     == {}
OneFileParse == {t1}
NoGetter   == {}
OneGetter  == {g1}

(* Uploads of the same kind are interchangeable, and so are GETs.  Only for *)
(* runs without temporal properties.                                       *)
Symmetry ==
    Permutations(FileParse) \cup Permutations(Task \ FileParse)
    \cup Permutations(Getter)
=============================================================================
