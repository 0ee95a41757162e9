---------------------------- MODULE XformClient ----------------------------
(***************************************************************************)
(* A client of the transformation table (XformTable) that calls the        *)
(* functions of src/lib/xform.h in any order.                              *)
(***************************************************************************)
EXTENDS XformTable

CONSTANTS
    Allocs,     \* the sizes a table may be allocated with
    Lists,      \* the lists of entries to append
    Values,     \* the values to transform
    Settings,   \* the values to set for NaN and for out of range
    MaxSize     \* bound on the entries of a table

ASSUME ClientAssumption ==
    /\ Allocs \subseteq Nat /\ Lists \subseteq Seq(Given)
    /\ Values \cup Settings \subseteq Double

ClientInit == \E n \in Allocs : xform_table_alloc(n)

Call ==
    \/ \E es \in Lists : size + Len(es) <= MaxSize /\ (AppendBegin(es) \/ AppendFails(es))
    \/ Clear \/ (\E v \in Settings : NanSet(v) \/ OorSet(v))
    \/ LinearInterp \/ LinearInterpFails \/ NoInterp
    \/ \E v \in Values : ApplyBegin(v)

Work ==
    \/ AppendNaN \/ AppendEntry \/ AppendEnd
    \/ Bisect \/ BisectEnd \/ MapFound \/ Return

ClientNext == Call \/ Work

\* A function that is running goes on; nobody has to call another.
ClientSpec == ClientInit /\ [][ClientNext]_table_vars /\ WF_table_vars(Work)
=============================================================================
