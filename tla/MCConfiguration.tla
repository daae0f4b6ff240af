-------------------------- MODULE MCConfiguration ---------------------------
(* Small files for TLC: two chains, two tokens, at most two buckets. *)
EXTENDS Configuration

MCParsedKey == [k \in {"10", "010", "20", "ten"} |->
                   CASE k \in {"10", "010"} -> 10
                     [] k = "20" -> 20
                     [] k = "ten" -> 0]

MCForm == [a \in {"0xAB", "0xab", "0xcd", "(0xcd)", "cd"} |->
              CASE a = "(0xcd)" -> "embedded"
                [] a = "cd" -> "other"
                [] OTHER -> "address"]

MCLower == [a \in DOMAIN MCForm |-> IF a = "0xAB" THEN "0xab" ELSE a]

MCEnvironments ==
    LET All == [v \in {"RPC_A", "RPC_B"} \cup ToSet(Services) |-> "good"]
    IN  {All} \cup {[All EXCEPT ![v] = s] :
                       v \in {"RPC_A", "RPC_B", "REDIS_URL", "MONGO_URL"},
                       s \in {"bad", "unset"}}

Chain(id, enabled, rpc) == [id |-> id, enabled |-> enabled, rpc |-> rpc]
On(address, enabled)    == [address |-> address, enabled |-> enabled]
Token(symbol, enabled, byChain) ==
    [symbol |-> symbol, enabled |-> enabled, byChain |-> byChain]
Bucket(fc, tc, ft, tt, sc, from, to) ==
    [fromChain |-> fc, toChain |-> tc, fromToken |-> ft, toToken |-> tt,
     smartContract |-> sc, from |-> from, to |-> to]

MCChains ==
    {<<a, b>> : a \in {Chain(10, TRUE, "RPC_A")},
                b \in {Chain(20, TRUE, "RPC_B"), Chain(20, FALSE, "RPC_B"),
                       Chain(10, TRUE, "RPC_B")}}
    \cup {<<Chain(10, TRUE, "RPC_A")>>, <<Chain(20, TRUE, "RPC_A")>>}

TokenA == {Token("A", TRUE, ("10" :> On("0xAB", TRUE))),
           Token("A", TRUE, ("10" :> On("0xAB", TRUE)
                             @@ "20" :> On("0xcd", TRUE))),
           Token("A", TRUE, ("10" :> On("0xAB", TRUE)
                             @@ "010" :> On("0xcd", FALSE))),
           Token("A", TRUE, ("ten" :> On("0xAB", TRUE))),
           Token("A", FALSE, ("10" :> On("0xab", TRUE)))}

TokenB == {Token("B", TRUE, ("20" :> On("0xAB", TRUE))),
           Token("B", TRUE, ("20" :> On("(0xcd)", TRUE))),
           Token("B", FALSE, ("20" :> On("0xAB", FALSE))),
           Token("B", TRUE, ("10" :> On("cd", TRUE))),
           Token("A", TRUE, ("10" :> On("0xcd", TRUE)))}

MCTokens == {<<a>> : a \in TokenA} \cup {<<a, b>> : a \in TokenA, b \in TokenB}
            \cup {<<b, a>> : a \in TokenA, b \in TokenB}

Bucket1 == {Bucket(10, 10, "A", "A", FALSE, 0, 4),
            Bucket(10, 20, "A", "A", FALSE, 1, 4),
            Bucket(10, 20, "A", "B", FALSE, 0, 4),
            Bucket(20, 10, "A", "A", FALSE, 0, 4)}

Bucket2 == {Bucket(10, 10, "A", "A", FALSE, 4, 8),
            Bucket(10, 10, "A", "A", TRUE, 0, 4),
            Bucket(10, 10, "A", "A", FALSE, 1, 5),
            Bucket(10, 20, "A", "B", FALSE, 2, 1)}

MCBuckets == {<<>>} \cup {<<a>> : a \in Bucket1}
             \cup {<<a, b>> : a \in Bucket1, b \in Bucket2}

MCFiles == [chains : MCChains, tokens : MCTokens, buckets : MCBuckets]

MCAmounts == 0 .. 9

=============================================================================
