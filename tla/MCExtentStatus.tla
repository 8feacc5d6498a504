--------------------------- MODULE MCExtentStatus ---------------------------
(* ExtentStatus for TLC. *)
EXTENDS ExtentStatus

SomeTypes == {{"w"}, {"d"}, {"h"}, {"u", "d"}}
MappedTypes == {{"w"}, {"d"}}
=============================================================================
