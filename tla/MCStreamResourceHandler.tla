---------------------- MODULE MCStreamResourceHandler ----------------------
(* A small instance of StreamResourceHandler. *)
EXTENDS StreamResourceHandler
SmallAsks == {1, 2, 3, 5}
=============================================================================
