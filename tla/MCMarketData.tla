---------------------------- MODULE MCMarketData ----------------------------
(***************************************************************************)
(* Two callers and two providers.  The first is metered, with two requests *)
(* per window and two tries; the second has no limiter and one try.        *)
(***************************************************************************)
EXTENDS MarketData

MCAttempts == <<2, 1>>

=============================================================================
