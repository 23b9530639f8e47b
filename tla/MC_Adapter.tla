----------------------------- MODULE MC_Adapter -----------------------------
(* A sweep of two runs over one adapter instance.                          *)
EXTENDS Adapter, TLC

CONSTANTS p1, o1, o2, exe, toolname, r1, r2, NoneVal, done

MC_Path == {p1}
MC_Chars == {"a", "b"}
MC_Idents == {NoneVal, <<>>, <<"a">>, <<"a", "b">>}
MC_FileLists == {<<>>, <<p1>>}
MC_OptionLists == {<<>>, <<o1, o2>>}
MC_Runs == {r1, r2}

(* The CPU-time limits as the harness may pass them; the other limits are *)
(* passed through and do not affect the adapter's defaults.               *)
MC_LimitArgs ==
  [cputime : {NoneVal, 1, 2}, cputime_hard : {NoneVal, 1, 2},
   walltime : {NoneVal}, memory : {NoneVal}, cpu_cores : {NoneVal}]

(* Normal exit with code 0 or 1 and a kill by SIGKILL (9).               *)
MC_ExitCodes == {[value |-> 0, signal |-> 0], [value |-> 1, signal |-> 0],
                 [value |-> 0, signal |-> 9]}

(* The runs are interchangeable.                                          *)
Symmetry == Permutations(MC_Runs)
=============================================================================
