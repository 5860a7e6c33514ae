---------------------------- MODULE MCAuthToken ----------------------------
(***************************************************************************)
(* Two requests and two tokens: the requests may present one token or two. *)
(***************************************************************************)
EXTENDS AuthToken
=============================================================================
