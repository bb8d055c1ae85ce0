----------------------------- MODULE MCWatchlist -----------------------------
(* Instances of Watchlist for TLC. *)
EXTENDS Watchlist, TLC

\* Users, tickers and request slots are interchangeable.
Symmetry == Permutations(User) \cup Permutations(Ticker) \cup Permutations(Req)
==============================================================================
