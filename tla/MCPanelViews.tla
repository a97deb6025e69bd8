----------------------------- MODULE MCPanelViews -----------------------------
(* Instances of PanelViews for TLC. *)
EXTENDS PanelViews

MCContent == {"text", "cleared"}
MCCleared == "cleared"

(* Page 3 is the root of the origin.                                       *)
UnderRoot == {<<p, 3>> : p \in Page}
=============================================================================
