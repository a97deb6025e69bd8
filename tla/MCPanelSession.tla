--------------------------- MODULE MCPanelSession ---------------------------
(* A side panel and the pages its window shows, for TLC.                   *)
EXTENDS PanelSession, TLC

(* Safety only: pages are never ordered.                                   *)
SamePages == Permutations(Page)
=============================================================================
