----------------------------- MODULE MCPaperMgmt -----------------------------
(***************************************************************************)
(* PaperMgmt on texts of three sizes and submissions that differ in one    *)
(* field each from a paper that fits: two versions of one title, a second  *)
(* title, and one submission for every way to fail, some in two fields.     *)
(***************************************************************************)
EXTENDS PaperMgmt, TLC

CONSTANTS t1, t2, long    \* two texts within every limit, one beyond each

(* The two hashes are interchangeable: no property tells them apart.        *)
HashSymmetry == Permutations(Hash)

MCText == {t1, t2, long}
MCSize == [t \in MCText |-> IF t = long THEN 2 ELSE 1]

Fine == [title |-> t1, authors |-> t1, abstract_text |-> t1, ipfs_url |-> t1,
         vector |-> t1, keywords |-> << t1 >>]

MCSubmission ==
  {Fine,
   [Fine EXCEPT !.ipfs_url = t2],
   [Fine EXCEPT !.title = t2, !.keywords = << >>],
   [Fine EXCEPT !.title = long, !.vector = long],
   [Fine EXCEPT !.authors = long, !.abstract_text = long],
   [Fine EXCEPT !.abstract_text = long, !.keywords = << t1, t2 >>],
   [Fine EXCEPT !.ipfs_url = long],
   [Fine EXCEPT !.vector = long, !.keywords = << long, t1 >>],
   [Fine EXCEPT !.keywords = << long >>],
   [Fine EXCEPT !.keywords = << t1, t2 >>]}

=============================================================================
