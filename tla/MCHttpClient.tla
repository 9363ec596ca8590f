---------------------------- MODULE MCHttpClient ----------------------------
(***************************************************************************)
(* HttpClient with durations of Width bits: the last retries overflow the  *)
(* shift, so both kinds of wait, with a timer and without, are reached.    *)
(***************************************************************************)
EXTENDS HttpClient

MCRetries == {-1, 0, 1, 5}

MCBackoffs == {-1, 0, 3}
=============================================================================
