----------------------------- MODULE MCQueryDb ------------------------------
(* QueryDb with small bounds: two rows fill a result, two queries, two loads. *)
EXTENDS QueryDb
=============================================================================
