--------------------------- MODULE MCFetcher ---------------------------
EXTENDS Fetcher, TLC
CONSTANTS h1, h2, k2, nohash
MCHeight == h1 :> 1 @@ h2 :> 2 @@ k2 :> 2
MCPrevious == h1 :> nohash @@ h2 :> h1 @@ k2 :> h1
MCContent == h1 :> "one" @@ h2 :> "two" @@ k2 :> "one"
Symm == Permutations(Peer)
=======================================================================
