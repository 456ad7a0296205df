--------------------------- MODULE MCToolApprovals ---------------------------
(***************************************************************************)
(* Values for model checking ToolApprovals.                                *)
(***************************************************************************)
EXTENDS ToolApprovals, TLC

CONSTANTS i1, i2, a, b  \* two ids of the model's, two actions

MCIds == {i1, i2}
MCContents == {a, b}

Says(i, c, verdict, newest) == [id |-> i, content |-> c, verdict |-> verdict, newest |-> newest]

\* No decision; an approval or a denial of one action; two answers at once; an
\* answer beside an older, unanswered part of the same id and another action; and
\* an approval in an older message.
MCHistories ==
    {{}}
    \cup {{Says(i1, c, v, TRUE)} : c \in MCContents, v \in {"approved", "denied"}}
    \cup {{Says(i1, a, "approved", TRUE), Says(i2, b, v, TRUE)} : v \in {"approved", "denied"}}
    \cup {{Says(i1, a, "approved", TRUE), Says(i1, b, "none", FALSE)}}
    \cup {{Says(i1, a, "approved", FALSE)}}

Symmetry == Permutations(Calls) \cup Permutations(Turns)
=============================================================================
