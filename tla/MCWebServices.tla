--------------------------- MODULE MCWebServices ---------------------------
(* A small instance of WebServices for TLC. *)
EXTENDS WebServices

Deal(r, p) == [requires |-> r, produces |-> p]

\* One generator for two steps and another one for the third.
MCUses == {<<"g", "g", "h">>}
MCContracts == {Deal({}, {}), Deal({}, {"b"})}
MCAssignments ==
  {Deal({}, {"a"}), Deal({"a"}, {"a"}), Deal({"a"}, {"b"}), Deal({"b"}, {"a"})}
=============================================================================
