----------------------------- MODULE LogStore -----------------------------
(***************************************************************************)
(* What the logger promises its readers, without threads, buffers or       *)
(* failing calls: a log file only ever grows at its end, or loses its      *)
(* older half.  002/README.md: "if the maximum size is exceeded the file   *)
(* is cut by half".                                                        *)
(***************************************************************************)
EXTENDS Integers, Sequences

CONSTANTS File, Unit

VARIABLE log

Init == log \in [File -> Seq(Unit)]

Emit(f) == \E u \in Unit : log' = [log EXCEPT ![f] = Append(@, u)]

CutHalf(f) == log' = [log EXCEPT ![f] = SubSeq(@, Len(@) \div 2 + 1, Len(@))]

Next == \E f \in File : Emit(f) \/ CutHalf(f)

Spec == Init /\ [][Next]_log
=============================================================================
