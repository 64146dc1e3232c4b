--------------------------- MODULE MCPaperBrowser ---------------------------
(***************************************************************************)
(* Two versions of one paper and another paper, and two queries, one of    *)
(* which has no similarity with the paper that the backend may list.       *)
(***************************************************************************)
EXTENDS PaperBrowser, TLC

CONSTANTS tree, graph, q1, q2, c1, c2

MCPaper == {[title |-> tree, content |-> 1], [title |-> tree, content |-> 2],
            [title |-> graph, content |-> 1]}

MCUploaded == {[title |-> graph, content |-> 1]}

MCGap == {<< q2, [title |-> graph, content |-> 1] >>}

(* The two connections of a load are alike.                                *)
Symmetry == Permutations({c1, c2})

=============================================================================
