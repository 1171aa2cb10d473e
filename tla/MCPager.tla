------------------------------ MODULE MCPager -------------------------------
(***************************************************************************)
(* Small instances of Pager for TLC.                                       *)
(***************************************************************************)
EXTENDS PagerProperties

\* Every content the rest of the program can give a page; the refused header
\* is the one allocate_next_root_page leaves when it hands out the last page.
AllContents(p) == IF p = 0 THEN Headers \cup {BAD_HEADER} ELSE Nodes

\* Few contents, for instances with more pages: the header is rewritten with
\* an equal one, the catalog has two states, other pages have one.
FewContents(p) ==
  IF p = 0 THEN Headers ELSE Nodes
=============================================================================
