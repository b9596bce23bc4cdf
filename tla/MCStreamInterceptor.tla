------------------------ MODULE MCStreamInterceptor ------------------------
(* Small streams for TLC.                                                  *)
EXTENDS StreamInterceptor

(* Put together in code, the interceptor and its client can differ in mode. *)
TwoModes == {<<"BEST_EFFORT", "FAIL_CLOSE">>, <<"FAIL_CLOSE", "UNSPECIFIED">>}

=============================================================================
