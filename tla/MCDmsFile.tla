------------------------------ MODULE MCDmsFile ------------------------------
(***************************************************************************)
(* DmsFile on small instances.  A page is 24 words: "s1" and "s2" need 8   *)
(* of them, so two leave a gap of one word, and "m" fills a page exactly.  *)
(* "o" leaves no room for the record header and slot in an empty page.     *)
(* "h" is a document that insert accepts, not being above DMS_PAGESIZE,    *)
(* and that no page can hold.                                              *)
(***************************************************************************)
EXTENDS DmsFile, TLC

CONSTANTS s1, s2, m, o, h, t1, t2, t3

MCDocSize == [d \in Docs |-> CASE d \in {s1, s2} -> 5 [] d = m -> 14 [] d = o -> 16 [] d = h -> 20]

Symmetry == Permutations({s1, s2})

\* Identifiers in the first slots of the pages, one past the slots in use and
\* one past the last page included.
MCRids == ({0, PagesPerSegment} \X (0 .. 3)) \cup ({1, DiskPages, DiskPages + 1} \X {0})
================================================================================
