----------------------------- MODULE TokenPrice -----------------------------
(***************************************************************************)
(* Token prices (token_price/coingecko.rs): every process that needs one   *)
(* takes its process-wide mutex around the CoinGecko client, asks Redis,   *)
(* and on a miss asks CoinGecko and stores the answer in Redis with an     *)
(* expiry.  The mutex is held until the answer is there.  Redis is shared  *)
(* by all processes, and so are the stored prices.                         *)
(*                                                                         *)
(* A price is abstracted to the time CoinGecko quoted it.  The code sets   *)
(* no timeout on Redis or HTTP requests; Delay is an assumption about how  *)
(* long one of them takes, on which the freshness of prices depends.       *)
(*                                                                         *)
(* Names that EstimatorCache has too begin with Price here: Redis_proofs   *)
(* extends both modules.                                                   *)
(***************************************************************************)
EXTENDS Integers

CONSTANTS
    Processes,   \* solvers and indexer jobs
    Callers,     \* tasks that ask for a price
    Home,        \* caller -> its process
    Nobody,      \* holder of a free mutex
    Tokens,
    Expiry,      \* coingecko.expiry_sec
    Delay,       \* longest time a request to Redis or CoinGecko takes
    Fails,       \* whether requests may fail
    MaxTime      \* length of a behaviour (bound)

ASSUME PriceAssumption ==
    /\ Home \in [Callers -> Processes]
    /\ Nobody \notin Callers
    /\ Expiry \in Nat \ {0}
    /\ Delay \in Nat
    /\ Fails \in BOOLEAN
    /\ MaxTime \in Nat

VARIABLES
    now,
    stored,      \* Redis: token -> [quote, until]
    holder,      \* process -> caller that holds its mutex
    call,        \* caller -> [pc, token, quote, since, blind]
    last         \* history: process, token -> when it last stored a price

priceVars == <<now, stored, holder, call, last>>

Times == 0 .. MaxTime

\* Times before any that matters.
Never == 0 - (Expiry + Delay)

\* pc     idle, wait (for the mutex), read, fetch, store or return
\* quote  the price it has got; since the time its last request began, once
\*        it holds the mutex; blind it fetches because the read failed
Call(pc, t, quote, blind) ==
    [pc |-> pc, token |-> t, quote |-> quote, blind |-> blind,
     since |-> IF pc \in {"idle", "wait"} THEN 0 ELSE now]

Quotes == Never .. MaxTime

IsIdle(c) == call[c].pc = "idle"
Live(t)   == now < stored[t].until
MyToken(c) == call[c].token

PriceTypeOK ==
    /\ now \in Times
    /\ stored \in [Tokens -> [quote : Quotes, until : 0 .. MaxTime + Expiry]]
    /\ holder \in [Processes -> Callers \cup {Nobody}]
    /\ call \in [Callers -> [pc : {"idle", "wait", "read", "fetch", "store",
                                   "return"},
                             token : Tokens, quote : Quotes, since : Times,
                             blind : BOOLEAN]]
    /\ last \in [Processes -> [Tokens -> Quotes]]

PriceInit ==
    /\ now = 0
    /\ stored = [t \in Tokens |-> [quote |-> Never, until |-> 0]]
    /\ holder = [p \in Processes |-> Nobody]
    /\ \E t \in Tokens :
          call = [c \in Callers |-> Call("idle", t, Never, FALSE)]
    /\ last = [p \in Processes |-> [t \in Tokens |-> Never]]

Ask(c) ==
    /\ IsIdle(c)
    /\ \E t \in Tokens :
          call' = [call EXCEPT ![c] = Call("wait", t, Never, FALSE)]
    /\ UNCHANGED <<now, stored, holder, last>>

\* Mutant of Acquire: no mutex.
AcquireShared(c) ==
    /\ call[c].pc = "wait"
    /\ call' = [call EXCEPT ![c] = Call("read", MyToken(c), Never, FALSE)]
    /\ UNCHANGED <<now, stored, holder, last>>

\* price_provider.lock().await
Acquire(c) ==
    /\ call[c].pc = "wait"
    /\ holder[Home[c]] = Nobody
    /\ holder' = [holder EXCEPT ![Home[c]] = c]
    /\ call' = [call EXCEPT ![c] = Call("read", MyToken(c), Never, FALSE)]
    /\ UNCHANGED <<now, stored, last>>

\* The caller is done with its mutex, with a price or without one.
Release(c) ==
    /\ holder' = [holder EXCEPT ![Home[c]] = IF @ = c THEN Nobody ELSE @]
    /\ call' = [call EXCEPT ![c] = Call("idle", MyToken(c), Never, FALSE)]
    /\ UNCHANGED <<now, stored, last>>

Hit(c) ==
    /\ call[c].pc = "read"
    /\ Live(MyToken(c))
    /\ call' = [call EXCEPT ![c] =
                   Call("return", MyToken(c), stored[MyToken(c)].quote, FALSE)]
    /\ UNCHANGED <<now, stored, holder, last>>

Miss(c) ==
    /\ call[c].pc = "read"
    /\ ~Live(MyToken(c))
    /\ call' = [call EXCEPT ![c] = Call("fetch", MyToken(c), Never, FALSE)]
    /\ UNCHANGED <<now, stored, holder, last>>

\* Any error of the cache is taken for a miss.
ReadFails(c) ==
    /\ Fails
    /\ call[c].pc = "read"
    /\ call' = [call EXCEPT ![c] = Call("fetch", MyToken(c), Never, TRUE)]
    /\ UNCHANGED <<now, stored, holder, last>>

\* get_fresh_token_price
Fetch(c) ==
    /\ call[c].pc = "fetch"
    /\ call' = [call EXCEPT ![c] = Call("store", MyToken(c), now, FALSE)]
    /\ UNCHANGED <<now, stored, holder, last>>

\* Mutant of FetchFails: the mutex is kept.
FetchFailsHolding(c) ==
    /\ Fails
    /\ call[c].pc = "fetch"
    /\ call' = [call EXCEPT ![c] = Call("idle", MyToken(c), Never, FALSE)]
    /\ UNCHANGED <<now, stored, holder, last>>

\* The request fails, or its status or body is not what it should be.
FetchFails(c) ==
    /\ Fails
    /\ call[c].pc = "fetch"
    /\ Release(c)

\* The effect of SETEX of the price c has got.
Written(c) ==
    /\ stored' = [stored EXCEPT ![MyToken(c)] =
                     [quote |-> call[c].quote, until |-> now + Expiry]]
    /\ last' = [last EXCEPT ![Home[c]][MyToken(c)] = now]

\* Mutant of Store: a cached price is given twice its time.
StoreLonger(c) ==
    /\ call[c].pc = "store"
    /\ stored' = [stored EXCEPT ![MyToken(c)] =
                     [quote |-> call[c].quote, until |-> now + 2 * Expiry]]
    /\ last' = [last EXCEPT ![Home[c]][MyToken(c)] = now]
    /\ call' = [call EXCEPT ![c] =
                   Call("return", MyToken(c), call[c].quote, FALSE)]
    /\ UNCHANGED <<now, holder>>

Store(c) ==
    /\ call[c].pc = "store"
    /\ Written(c)
    /\ call' = [call EXCEPT ![c] =
                   Call("return", MyToken(c), call[c].quote, FALSE)]
    /\ UNCHANGED <<now, holder>>

\* The caller gets an error although the price is known.
StorePriceFails(c) ==
    /\ Fails
    /\ call[c].pc = "store"
    /\ Release(c)

Return(c) ==
    /\ call[c].pc = "return"
    /\ Release(c)

\* The task of the caller is dropped where it stands, and the guard of the
\* mutex with it.
Cancel(c) ==
    /\ Fails
    /\ call[c].pc \in {"wait", "read", "fetch", "store", "return"}
    /\ Release(c)

Tick ==
    /\ now < MaxTime
    /\ \A c \in Callers :
          call[c].pc \in {"read", "fetch", "store", "return"}
          => now - call[c].since < Delay
    /\ now' = now + 1
    /\ UNCHANGED <<stored, holder, call, last>>

CallStep(c) ==
    \/ Hit(c) \/ Miss(c) \/ ReadFails(c) \/ Fetch(c) \/ FetchFails(c)
    \/ Store(c) \/ StorePriceFails(c) \/ Return(c)

PriceNext ==
    \/ Tick
    \/ \E c \in Callers : Ask(c) \/ Acquire(c) \/ CallStep(c) \/ Cancel(c)

PriceSpec == PriceInit /\ [][PriceNext]_priceVars

\* Requests are answered, and tokio's mutex is granted in the order in which
\* it was asked for.
PriceFairSpec ==
    /\ PriceSpec
    /\ \A c \in Callers : WF_priceVars(CallStep(c)) /\ SF_priceVars(Acquire(c))

-----------------------------------------------------------------------------
(* Properties. *)

\* A price is at most as old as the expiry and two requests: however often
\* processes overwrite each other's prices, none is kept alive for longer.
Fresh ==
    \A c \in Callers :
        call[c].pc = "return" => now - call[c].quote <= Expiry + 2 * Delay

\* A process asks CoinGecko for a price again only when the one it last
\* stored has expired, unless Redis fails: callers that miss at the same time
\* wait for the first of them, and then hit.
NoStampede ==
    [][\A c \in Callers :
          Fetch(c) /\ ~call[c].blind
          => now - last[Home[c]][MyToken(c)] >= Expiry]_priceVars

\* A caller that waits for the mutex gets it and leaves, whatever fails.
Answered == \A c \in Callers : call[c].pc = "wait" ~> IsIdle(c)
=============================================================================
