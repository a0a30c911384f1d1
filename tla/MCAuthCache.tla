---------------------------- MODULE MCAuthCache ----------------------------
(* A small instance of AuthCache: one key more than the capacity.          *)
EXTENDS AuthCache
=============================================================================
