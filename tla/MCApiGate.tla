----------------------------- MODULE MCApiGate -----------------------------
(***************************************************************************)
(* Two workers and two consumers on a table with room for one of them, two *)
(* windows of two and one ticks, and two requests in flight, each window   *)
(* allowing a consumer one: a slot is contended in a window that is over,  *)
(* and the table's last place by two new consumers.                        *)
(***************************************************************************)
EXTENDS ApiGate

=============================================================================
