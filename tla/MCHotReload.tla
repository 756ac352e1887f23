---------------------------- MODULE MCHotReload ----------------------------
(* Instances of HotReload for TLC: nodes name their panel and may set a     *)
(* limit; edits add and remove nodes and settings.                          *)
EXTENDS HotReload, TLC

CONSTANTS panel, limit, v2board, unknown, low, high

Plain     == panel :> v2board
Set(v)    == Plain @@ (limit :> v)
NotKnown  == panel :> unknown

(* The empty file is what an editor leaves for a moment.                    *)
OneNode == {<<>>, <<Plain>>, <<Set(low)>>, <<Set(high)>>, <<NotKnown>>}
Files   == OneNode \cup {<<Set(low), Plain>>}
============================================================================
