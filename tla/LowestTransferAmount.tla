------------------------ MODULE LowestTransferAmount ------------------------
(***************************************************************************)
(* The search for the lowest USD amount a route can transfer               *)
(* (bin/reflux/src/utils.rs): bisection between 0 and 25 dollars, where a  *)
(* quote for the midpoint moves the upper bound and an error, whatever its *)
(* cause, moves the lower one.                                             *)
(*                                                                         *)
(* Amounts are in steps of the finest midpoint the search computes: 25     *)
(* dollars are 2^6 steps, and 0.5 dollars lie between one and two steps.   *)
(*                                                                         *)
(* The specification's own names begin with Search, so that one module can *)
(* hold the proofs about both programs of the indexer.                     *)
(***************************************************************************)
EXTENDS Integers

CONSTANTS
    Lower, Upper,   \* TOKEN_AMOUNT_USD_LOWER_BOUND and _UPPER_BOUND
    Minimums,       \* lowest amounts the source may accept for the route
    Errors          \* whether a quote may fail for another reason

ASSUME SearchAssumption ==
    /\ Lower \in Nat /\ Upper \in Nat /\ Lower < Upper
    /\ Minimums \subseteq Nat
    /\ Errors \in BOOLEAN

VARIABLES
    pc,        \* test, price, quote, found, failed or panicked
    low, high, \* the bounds
    minimum,   \* the lowest amount the source accepts (external)
    quoted,    \* history: amounts that got a quote
    refused,   \* history: amounts that got an error
    flaky      \* history: amounts that got an error although the source
               \* accepts them

searchVars == <<pc, low, high, minimum, quoted, refused, flaky>>

Amounts == Lower .. Upper

SearchTypeOK ==
    /\ pc \in {"test", "price", "quote", "found", "failed", "panicked"}
    /\ low \in Amounts /\ high \in Amounts
    /\ minimum \in Minimums
    /\ quoted \subseteq Amounts
    /\ refused \subseteq Amounts
    /\ flaky \subseteq refused

SearchInit ==
    /\ pc = "test"
    /\ low = Lower
    /\ high = Upper
    /\ minimum \in Minimums
    /\ quoted = {} /\ refused = {} /\ flaky = {}

\* DIFFERENCE_THRESHOLD_USD: the least number of steps that is not below it.
Threshold == 2

mid == (low + high) \div 2

\* Mutants of Converged.
ConvergedLate == high - low < Threshold - 1
ConvergedEarly == high - low < Threshold + 1

Converged == high - low < Threshold

\* Route::build, at the top of every round, finds no configuration.
RouteFails ==
    /\ pc = "test"
    /\ pc' = "failed"
    /\ UNCHANGED <<low, high, minimum, quoted, refused, flaky>>

\* The upper bound is the result.
Found ==
    /\ pc = "test"
    /\ Converged
    /\ pc' = "found"
    /\ UNCHANGED <<low, high, minimum, quoted, refused, flaky>>

Continue ==
    /\ pc = "test"
    /\ ~Converged
    /\ pc' = "price"
    /\ UNCHANGED <<low, high, minimum, quoted, refused, flaky>>

\* The midpoint is converted at the price of the token.  An error here ends
\* the search.
Convert ==
    /\ pc = "price"
    /\ pc' \in {"quote", "failed"}
    /\ UNCHANGED <<low, high, minimum, quoted, refused, flaky>>

\* The price rounds to zero, and the conversion divides by it.
ConvertPanics ==
    /\ pc = "price"
    /\ pc' = "panicked"
    /\ UNCHANGED <<low, high, minimum, quoted, refused, flaky>>

\* Mutant of Quoted: the bounds are swapped.
QuotedRaisesLow ==
    /\ pc = "quote"
    /\ mid >= minimum
    /\ low' = mid
    /\ quoted' = quoted \cup {mid}
    /\ pc' = "test"
    /\ UNCHANGED <<high, minimum, refused, flaky>>

Quoted ==
    /\ pc = "quote"
    /\ mid >= minimum
    /\ high' = mid
    /\ quoted' = quoted \cup {mid}
    /\ pc' = "test"
    /\ UNCHANGED <<low, minimum, refused, flaky>>

\* Any error counts as an amount too low.
Refused ==
    /\ pc = "quote"
    /\ mid < minimum \/ Errors
    /\ low' = mid
    /\ refused' = refused \cup {mid}
    /\ flaky' = IF mid < minimum THEN flaky ELSE flaky \cup {mid}
    /\ pc' = "test"
    /\ UNCHANGED <<high, minimum, quoted>>

SearchNext ==
    \/ RouteFails \/ Found \/ Continue \/ Convert \/ ConvertPanics
    \/ Quoted \/ Refused

SearchSpec == SearchInit /\ [][SearchNext]_searchVars

\* Every await of the loop returns: the search runs as long as it can.
SearchFairSpec == SearchSpec /\ WF_searchVars(SearchNext)

-----------------------------------------------------------------------------
(* Properties. *)

\* The bounds stay in the range and apart, and each is an amount that was
\* tried with the outcome it stands for, or the one the search began with.
Bracketed ==
    /\ Lower <= low /\ low < high /\ high <= Upper
    /\ low = Lower \/ low \in refused
    /\ high = Upper \/ high \in quoted

\* A result is the minimum to within one step, if the source accepts some
\* amount below the upper bound and every error was a refusal; an error of
\* another kind can only make the result too high.
ResultIsTight ==
    pc = "found" /\ minimum \in Lower + 1 .. Upper =>
        /\ minimum <= high
        /\ flaky = {} => high = minimum

\* The search ends.
Ends == <>(pc \in {"found", "failed", "panicked"})
=============================================================================
