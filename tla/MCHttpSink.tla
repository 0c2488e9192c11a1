----------------------------- MODULE MCHttpSink -----------------------------
(* Instantiated with model values for the nodes and senders; no symmetry, *)
(* as the runs check liveness and SendAll visits the nodes in order.      *)
EXTENDS HttpSink
=============================================================================
