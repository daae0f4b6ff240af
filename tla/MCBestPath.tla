----------------------------- MODULE MCBestPath -----------------------------
(* A user with a stablecoin on two chains, ETH, a token that only looks like *)
(* the stablecoin, and items that are not or cannot be used.  ETH may get an *)
(* estimate below zero, the stablecoin one of zero on the second chain,      *)
(* where one balance has a quote and no tokens.                              *)
EXTENDS BestPath, TLC

CONSTANTS a, b, c1, c2, usdc, eth, spam, C1, C2, E1, F, r1, r2

Item(account, chain, token, contract, units, usd) ==
    [account |-> account, chain |-> chain, token |-> token,
     contract |-> contract, units |-> units, usd |-> usd]

Dollars == Item(a, c1, usdc, C1, 2, 2)
Ether == Item(a, c2, eth, E1, 1, 4)
Dust == Item(a, c2, eth, E1, 1, 1)
Others == Item(b, c2, usdc, C2, 2, 2)
Hollow == Item(b, c2, usdc, C2, 0, 2)
Fake == Item(a, c1, usdc, F, 3, 3)
NoQuote == Item(b, c1, Unnamed, F, 3, 0)
NoName == Item(b, c1, Unnamed, F, 3, 1)
Spam == Item(a, c1, spam, F, 5, 5)

Path(chain, token, n) == [kind |-> "path", account |-> a, chain |-> chain,
                          token |-> token, amount |-> n]
BalanceOf == [kind |-> "balance", account |-> a, chain |-> c1, token |-> usdc, amount |-> 0]

Ask(one, other) == (r1 :> one) @@ (r2 :> other)

MCUsers ==
    {[accounts |-> <<a, b>>, items |-> {Dollars, Ether, Others, NoQuote, Spam},
      asks |-> Ask(Path(c1, usdc, 3), BalanceOf)],
     [accounts |-> <<a, b>>, items |-> {Dollars, Ether},
      asks |-> Ask(Path(c1, usdc, 2), Path(c2, usdc, 1))],
     [accounts |-> <<a, a>>, items |-> {Dollars, Dust},
      asks |-> Ask(Path(c1, usdc, 3), Path(c2, eth, 1))],
     [accounts |-> <<>>, items |-> {Fake, Ether},
      asks |-> Ask(Path(c1, usdc, 2), Path(c1, usdc, 2))],
     [accounts |-> <<a, b>>, items |-> {Dollars, Hollow, NoName},
      asks |-> Ask(Path(c1, usdc, 1), Path(c1, usdc, 2))]}

MCNetwork == (c1 :> c1) @@ (c2 :> c2)

MCContract == (<<usdc, c1>> :> C1) @@ (<<usdc, c2>> :> C2) @@ (<<eth, c2>> :> E1)
MCSupported == {<<usdc, c1>>, <<usdc, c2>>}
MCBucketed == DOMAIN MCContract
MCDipping == {<<eth, c2>>}
MCFree == {<<usdc, c2>>}

MCPrices == (usdc :> {1, 2}) @@ (eth :> {0, 1})

=============================================================================
