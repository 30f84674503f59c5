---------------------------- MODULE MCKLineCache ----------------------------
(* Constants of KLineCache for TLC: a batch and a reading session that ask *)
(* for both symbols, and a batch that asks for one of them.                *)
EXTENDS KLineCache, TLC

CONSTANTS b1, b2, r1, SPY, AAPL

AskedMC == (b1 :> {SPY, AAPL}) @@ (b2 :> {SPY}) @@ (r1 :> {SPY, AAPL})
=============================================================================
