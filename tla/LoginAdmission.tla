--------------------------- MODULE LoginAdmission ---------------------------
(***************************************************************************)
(* The admission of device logins (login_admission.rs and bootstrap in     *)
(* routes.rs): a table of token buckets for the sources and one for the    *)
(* accounts, both of bounded size, and a few slots for the verification of *)
(* passwords, which a verification keeps when its request is gone.         *)
(*                                                                         *)
(* Time passes in ticks, and tokens are counted in ticks of refill: a      *)
(* token of the code is Refill of them.  last_refill and last_seen are     *)
(* always set together, so one age stands for both.                        *)
(***************************************************************************)
EXTENDS Integers, FiniteSets, FiniteSetsExt, Functions

CONSTANTS
    Key,         \* the sources and the accounts, by table
    Burst,       \* tokens of a full bucket, by table
    Refill,      \* ticks for a token, by table
    Capacity,    \* entries of a table
    Ttl,         \* ticks until an untouched entry expires
    Slots,       \* verifications at a time
    MaxWaiting   \* bound on the requests that wait for a slot

Table == {"source", "account"}

Full(k) == Burst[k] * Refill[k]

\* An entry that expires is full again, as with the constants of the code.
ASSUME AdmissionAssumption ==
    /\ \A k \in Table :
          Burst[k] \in Nat \ {0} /\ Refill[k] \in Nat \ {0} /\ Capacity[k] \in Nat \ {0}
    /\ Ttl \in Nat
    /\ \A k \in Table : Ttl >= Full(k)
    /\ Slots \in Nat \ {0}
    /\ MaxWaiting \in Nat

VARIABLES
    table,    \* the buckets of each table
    permits,  \* free slots
    waiting,  \* requests that wait for a slot
    running,  \* verifications whose request waits for them
    detached, \* verifications whose request is gone
    ideal,    \* history: the bucket of every key, without a bound on their number
    hint      \* history: the last answer of a table, if it was a refusal

loginVars == <<table, permits, waiting, running, detached, ideal, hint>>

NoHint == [key |-> "none", left |-> 0]

TokensAt(k, entry) == Min({Full(k), entry.tokens + entry.age})

-----------------------------------------------------------------------------
(* BoundedBuckets *)

\* prune_expired
Live(k) == {x \in DOMAIN table[k] : table[k][x].age < Ttl}

\* Mutant of Evictable: any entry may make room.
EvictableAny(k) == Live(k)

\* A full bucket says no more than an absent one.
Evictable(k) == {x \in Live(k) : TokensAt(k, table[k][x]) = Full(k)}

\* The sets of entries make_room may leave: none when there is no room.
Rooms(k, key) ==
    IF key \in Live(k) \/ Cardinality(Live(k)) < Capacity[k] THEN {Live(k)}
    ELSE {Live(k) \ {x} : x \in {y \in Evictable(k) :
                                    \A z \in Evictable(k) : table[k][y].age >= table[k][z].age}}

\* Mutant of UntilRoom: the time until an entry has a token.
UntilRoomForToken(k) ==
    Min({Max({1, Min({Refill[k] - TokensAt(k, table[k][x]), Ttl - table[k][x].age})}) :
            x \in Live(k)})

\* The refusal of a table without room says when one of its entries is full or
\* expires.
UntilRoom(k) ==
    Min({Min({Full(k) - TokensAt(k, table[k][x]), Ttl - table[k][x].age}) : x \in Live(k)})

Charge(k, key, kept) ==
    LET tokens == IF key \in kept THEN TokensAt(k, table[k][key]) ELSE Full(k)
        ok == tokens >= Refill[k]
        entry == [tokens |-> IF ok THEN tokens - Refill[k] ELSE tokens, age |-> 0]
    IN  [ok |-> ok,
         retry |-> IF ok THEN 0 ELSE Refill[k] - tokens,
         entries |-> [x \in kept \cup {key} |-> IF x = key THEN entry ELSE table[k][x]]]

\* check_at: what it may answer, and the entries it leaves.
Answers(k, key) ==
    IF Rooms(k, key) = {}
    THEN {[ok |-> FALSE, retry |-> UntilRoom(k), entries |-> Restrict(table[k], Live(k))]}
    ELSE {Charge(k, key, kept) : kept \in Rooms(k, key)}

\* The history of an answer.
Spent(k, key, answer) ==
    IF answer.ok THEN [ideal[k] EXCEPT ![key] = @ - Refill[k]] ELSE ideal[k]

HintOf(key, answer) == IF answer.ok THEN NoHint ELSE [key |-> key, left |-> answer.retry]

-----------------------------------------------------------------------------
(* bootstrap *)

\* The source is checked, then the account; the source pays in any case.
Arrive(source, account) ==
    /\ waiting < MaxWaiting
    /\ \E first \in Answers("source", source) :
          IF ~first.ok
          THEN /\ table' = [table EXCEPT !["source"] = first.entries]
               /\ hint' = [hint EXCEPT !["source"] = HintOf(source, first)]
               /\ UNCHANGED <<ideal, waiting>>
          ELSE \E second \in Answers("account", account) :
                  /\ table' = [source |-> first.entries, account |-> second.entries]
                  /\ hint' = [source |-> NoHint, account |-> HintOf(account, second)]
                  /\ ideal' = [source |-> Spent("source", source, first),
                               account |-> Spent("account", account, second)]
                  /\ waiting' = IF second.ok THEN waiting + 1 ELSE waiting
    /\ UNCHANGED <<permits, running, detached>>

AcquireSlot ==
    /\ waiting > 0
    /\ permits > 0
    /\ waiting' = waiting - 1
    /\ permits' = permits - 1
    /\ running' = running + 1
    /\ UNCHANGED <<table, detached, ideal, hint>>

\* argon2_acquire_timeout, or the request is cancelled while it waits.
GiveUp ==
    /\ waiting > 0
    /\ permits = 0
    /\ waiting' = waiting - 1
    /\ UNCHANGED <<table, permits, running, detached, ideal, hint>>

\* The verification ends and its request goes on to the device.
Verified ==
    /\ running > 0
    /\ running' = running - 1
    /\ permits' = permits + 1
    /\ UNCHANGED <<table, waiting, detached, ideal, hint>>

\* Mutant of Abandon: the permit is the request's and not the worker's.
AbandonWithPermit ==
    /\ running > 0
    /\ running' = running - 1
    /\ detached' = detached + 1
    /\ permits' = permits + 1
    /\ UNCHANGED <<table, waiting, ideal, hint>>

\* argon2_execution_timeout, or the request is cancelled: the worker goes on.
Abandon ==
    /\ running > 0
    /\ running' = running - 1
    /\ detached' = detached + 1
    /\ UNCHANGED <<table, permits, waiting, ideal, hint>>

DetachedEnds ==
    /\ detached > 0
    /\ detached' = detached - 1
    /\ permits' = permits + 1
    /\ UNCHANGED <<table, waiting, running, ideal, hint>>

Tick ==
    /\ table' = [k \in Table |->
                   [x \in DOMAIN table[k] |->
                      [table[k][x] EXCEPT !.age = Min({Ttl, @ + 1})]]]
    /\ ideal' = [k \in Table |-> [x \in Key[k] |-> Min({Full(k), ideal[k][x] + 1})]]
    /\ hint' = [k \in Table |-> [hint[k] EXCEPT !.left = Max({0, @ - 1})]]
    /\ UNCHANGED <<permits, waiting, running, detached>>

-----------------------------------------------------------------------------
Fresh ==
    [table |-> [k \in Table |-> <<>>],
     ideal |-> [k \in Table |-> [x \in Key[k] |-> Full(k)]],
     hint |-> [k \in Table |-> NoHint]]

LoginInit ==
    /\ table = Fresh.table
    /\ permits = Slots
    /\ waiting = 0
    /\ running = 0
    /\ detached = 0
    /\ ideal = Fresh.ideal
    /\ hint = Fresh.hint

\* The process ends and takes its tables and workers with it.
LoginReset ==
    /\ table' = Fresh.table
    /\ permits' = Slots
    /\ waiting' = 0
    /\ running' = 0
    /\ detached' = 0
    /\ ideal' = Fresh.ideal
    /\ hint' = Fresh.hint

LoginNext ==
    \/ \E source \in Key["source"], account \in Key["account"] : Arrive(source, account)
    \/ AcquireSlot
    \/ GiveUp
    \/ Verified
    \/ Abandon
    \/ DetachedEnds
    \/ Tick

LoginSpec == LoginInit /\ [][LoginNext]_loginVars

-----------------------------------------------------------------------------
(* Properties *)

\* The bound on the tables costs nobody's limit: what is forgotten, by expiry
\* or to make room, is a bucket that is full, so that every key has the tokens
\* it would have in a table without a bound (make_room and prune_expired).
TableFaithful ==
    \A k \in Table :
        /\ Cardinality(DOMAIN table[k]) <= Capacity[k]
        /\ \A x \in Key[k] :
              ideal[k][x] = IF x \in DOMAIN table[k]
                            THEN TokensAt(k, table[k][x]) ELSE Full(k)

\* A client that waits as long as its refusal says is admitted, unless another
\* login was checked meanwhile: the token has come back, or the table has an
\* entry to give away (delay_until_tokens, make_room's retry).
RetryHonest ==
    \A k \in Table :
        hint[k] # NoHint /\ hint[k].left = 0
            => \A answer \in Answers(k, hint[k].key) : answer.ok

\* The verifications at work, those of requests that are gone included, never
\* outnumber the slots (run_argon2, the permit inside the blocking task).
WorkersBounded == running + detached <= Slots

=============================================================================
