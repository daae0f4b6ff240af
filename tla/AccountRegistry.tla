--------------------------- MODULE AccountRegistry --------------------------
(***************************************************************************)
(* What the account service promises when nothing gets in its way: a user  *)
(* has a portfolio of accounts that only grows, and an account belongs to  *)
(* at most one user, forever, and only to one whose portfolio lists it.    *)
(***************************************************************************)
CONSTANTS
    Accounts,    \* normalised account addresses
    Users        \* user ids

VARIABLES
    portfolio,   \* user -> the accounts listed in the user's document
    owners       \* account -> the users it is mapped to

vars == <<portfolio, owners>>

Init ==
    /\ portfolio = [u \in Users |-> {}]
    /\ owners = [a \in Accounts |-> {}]

\* List more accounts under u, without claiming them yet.
Enrol(u) ==
    /\ \E S \in SUBSET Accounts :
          portfolio' = [portfolio EXCEPT ![u] = @ \cup S]
    /\ UNCHANGED owners

\* Make u the owner of an account that has none.
Claim(u, a) ==
    /\ a \in portfolio[u]
    /\ owners[a] = {}
    /\ owners' = [owners EXCEPT ![a] = {u}]
    /\ UNCHANGED portfolio

Next ==
    \E u \in Users : Enrol(u) \/ \E a \in Accounts : Claim(u, a)

Spec == Init /\ [][Next]_vars
=============================================================================
