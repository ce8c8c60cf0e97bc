---------------------------- MODULE LocalLimiter ----------------------------
(***************************************************************************)
(* The local limiters of one gateway for one user: the two Lua scripts,    *)
(* which share the key rl:local:{region}:{tier}:{user_id}, and the policies*)
(* (with the override of the user) that choose between them.               *)
(*                                                                         *)
(* A script is atomic, but its now_ms was read from the gateway's clock    *)
(* before: calls reach Redis out of the order of their stamps.  Time is    *)
(* counted in units of which Minute make 60 s, and tokens in parts of      *)
(* which Minute make a token, so that the refill of one unit is limit.     *)
(* The fractions the script keeps as doubles are exact here.               *)
(***************************************************************************)
EXTENDS Integers, Sequences, FiniteSets

CONSTANTS Minute,     \* units in the window of 60 s
          TTL,        \* ttl_secs, in units
          Lag,        \* units by which now_ms or a policy may be late
          Policies,   \* what the handler may pass to a limiter
          MaxTime,    \* bound: the clock
          MaxAllowed  \* bound: requests let through

ASSUME TimesAssumption == /\ Minute \in Nat \ {0} /\ Lag \in Nat /\ Lag < Minute
                          /\ TTL \in Nat /\ TTL > Minute
                          /\ MaxTime \in Nat /\ MaxAllowed \in Nat
ASSUME PoliciesAssumption ==
    \A p \in Policies : /\ p.algorithm \in {"token_bucket", "sliding_window"}
                        /\ p.limit \in Nat \ {0} /\ p.burst \in Nat

VARIABLES
    now,      \* the clock
    policy,   \* the policy in force
    previous, \* the one before, which requests in progress may still carry
    changed,  \* when it was replaced
    kind,     \* the type of the key: a hash ("bucket"), a sorted set ("log"), or "none"
    tokens,   \* field tokens of the hash
    refilled, \* field last_refill_ms of the hash
    entries,  \* members of the sorted set, named by their place in allowed
    expires,  \* when the key expires
    allowed,  \* history: the requests let through, in this order
    promise   \* history: when a denied client was told to come back

keyVars == <<kind, tokens, refilled, entries, expires>>
policyVars == <<policy, previous, changed>>
vars == <<now, policyVars, keyVars, allowed, promise>>

\* When the script ran, the now_ms and the limit it was given, and which of the two it was.
Pass == [at : Nat, stamp : Nat, limit : Nat, kind : {"bucket", "log"}]

Never == MaxTime + Minute * (Minute + 1) \* no promise is open

Init ==
    /\ now = 0
    /\ policy \in Policies
    /\ previous = policy
    /\ changed = 0
    /\ kind = "none" /\ tokens = 0 /\ refilled = 0 /\ entries = {} /\ expires = 0
    /\ allowed = <<>>
    /\ promise = Never

-----------------------------------------------------------------------------
\* Stamps and policies a call that reaches Redis now may carry.
Stamps == {s \in now - Lag .. now : s >= 0}
Carried == {policy} \union (IF now <= changed + Lag THEN {previous} ELSE {})

KindOf(p) == IF p.algorithm = "token_bucket" THEN "bucket" ELSE "log"

Lower(a, b) == IF a < b THEN a ELSE b
Higher(a, b) == IF a < b THEN b ELSE a

\* Definitions whose name begins with Faulty are plausible bugs, put in the place of the
\* definition after them to see that a property notices.
FaultyExpiry == MaxTime + 1

\* EXPIRE, on every call that does not fail.
Expiry == now + TTL

FaultyCapped(n, p) == n

Capped(n, p) == Lower(p.burst * Minute, n)

\* token_bucket.lua, step 1: an absent key is a full bucket.
LastRefill(s) == IF kind = "none" THEN s ELSE refilled

\* Step 2: the tokens after the refill; a stamp from the past refills nothing.
Refilled(p, s) ==
    Capped((IF kind = "none" THEN p.burst * Minute ELSE tokens)
              + Higher(0, s - LastRefill(s)) * p.limit, p)

FaultyAdvanced(last, s) == s

\* Step 4: last_refill_ms never moves backwards.
Advanced(last, s) == Higher(last, s)

FaultyWait(missing, limit) == missing \div limit

\* Units until the bucket has earned what is missing, rounded up.
Wait(missing, limit) == (missing + limit - 1) \div limit

\* sliding_window.lua, steps 1 and 2: entries that are left after pruning.
Live(s) == {i \in entries : allowed[i].stamp > s - Minute}

FaultyFull(count, limit) == count > limit

Full(count, limit) == count >= limit

Admits(p, s) == IF KindOf(p) = "bucket" THEN Refilled(p, s) >= Minute
                ELSE ~Full(Cardinality(Live(s)), p.limit)

\* A script that meets the type of the other one fails before it changes anything, and the
\* handler refuses the request: such calls are not steps.
Usable(p) == kind \in {"none", KindOf(p)}

Allow(p, s) ==
    /\ Usable(p)
    /\ Len(allowed) < MaxAllowed
    /\ Admits(p, s)
    /\ allowed' = Append(allowed, [at |-> now, stamp |-> s, limit |-> p.limit, kind |-> KindOf(p)])
    /\ IF KindOf(p) = "bucket"
       THEN /\ tokens' = Refilled(p, s) - Minute
            /\ refilled' = Advanced(LastRefill(s), s)
            /\ UNCHANGED entries
       ELSE /\ entries' = Live(s) \union {Len(allowed) + 1}
            /\ UNCHANGED <<tokens, refilled>>
    /\ kind' = KindOf(p)
    /\ expires' = Expiry
    /\ promise' = Never
    /\ UNCHANGED <<now, policyVars>>

\* The answer to a denied request: how long to wait.
RetryAfter(p, s) ==
    IF KindOf(p) = "bucket" THEN Wait(Minute - Refilled(p, s), p.limit)
    ELSE LET oldest == CHOOSE i \in Live(s) : \A j \in Live(s) : allowed[i].stamp <= allowed[j].stamp
         IN  allowed[oldest].stamp + Minute - s

\* It is no promise when the log holds more than the limit, which was lowered since: the
\* exit of the oldest entry does not make room; nor when the bucket has no depth.
Promised(p, s) ==
    IF p # policy THEN Never
    ELSE IF IF KindOf(p) = "log" THEN Cardinality(Live(s)) > p.limit ELSE p.burst = 0 THEN promise
    ELSE Lower(promise, now + RetryAfter(p, s))

Deny(p, s) ==
    /\ Usable(p)
    /\ ~Admits(p, s)
    /\ IF KindOf(p) = "bucket"
       THEN /\ tokens' = Refilled(p, s)
            /\ refilled' = Advanced(LastRefill(s), s)
            /\ UNCHANGED entries
       ELSE /\ entries' = Live(s)
            /\ UNCHANGED <<tokens, refilled>>
    /\ kind' = KindOf(p)
    /\ expires' = Expiry
    /\ promise' = Promised(p, s)
    /\ UNCHANGED <<now, policyVars, allowed>>

\* A refresh of the policy store, or of the user's override.  Requests in progress under
\* the policy before the last have ended by then.
ChangePolicy(p) ==
    /\ p # policy
    /\ previous = policy \/ changed + Lag < now
    /\ policy' = p
    /\ previous' = policy
    /\ changed' = now
    /\ promise' = Never
    /\ UNCHANGED <<now, keyVars, allowed>>

Elapse ==
    /\ now < MaxTime
    /\ now' = now + 1
    /\ IF kind # "none" /\ expires <= now + 1
       THEN kind' = "none" /\ tokens' = 0 /\ refilled' = 0 /\ entries' = {} /\ expires' = 0
       ELSE UNCHANGED keyVars
    /\ UNCHANGED <<policyVars, allowed, promise>>

Call == \E p \in Carried, s \in Stamps : Allow(p, s) \/ Deny(p, s)

Next == \/ Call
        \/ \E p \in Policies : ChangePolicy(p)
        \/ Elapse

Spec == Init /\ [][Next]_vars

-----------------------------------------------------------------------------
\* Every component stays in its domain: a bucket never holds more than the deepest burst.
TypeOK ==
    /\ now \in 0 .. MaxTime
    /\ policy \in Policies /\ previous \in Policies
    /\ changed \in 0 .. now
    /\ kind \in {"none", "bucket", "log"}
    /\ tokens \in Nat
    /\ tokens = 0 \/ \E p \in Policies : tokens <= p.burst * Minute
    /\ refilled \in 0 .. now
    /\ entries \subseteq 1 .. Len(allowed)
    /\ expires \in Nat
    /\ allowed \in Seq(Pass)
    /\ promise \in Nat

\* The bucket's promise, whatever the order of the stamps, the policies and the lives of
\* the key: between any two requests it let through lie no more than the deepest burst
\* and what the highest limit refills in that time (and in the lag of the clock).
\* This is for policies whose burst the refill earns within the life of the key.
BucketRate ==
    \A i, j \in 1 .. Len(allowed) :
        LET Between == {n \in i .. j : allowed[n].kind = "bucket"}
            time == allowed[j].at - allowed[i].at + Lag
        IN  Between # {} => \E p, q \in Policies :
                Cardinality(Between) * Minute <= p.burst * Minute + q.limit * time

\* The log's promise: it lets a request through only if, with it, no more than its limit
\* were let through within the last minute.  The lag shortens the minute: a call stamped
\* later may have pruned what one stamped earlier, but run later, should still count.
WindowBound ==
    \A j \in 1 .. Len(allowed) : allowed[j].kind = "log" =>
        Cardinality({i \in 1 .. j : allowed[i].at + Minute - Lag > allowed[j].at}) <= allowed[j].limit

\* A denied client that waits as long as it was told, and is stamped no earlier, is let
\* through, unless somebody else was or the policy has changed.
RetryHonest ==
    \A s \in Stamps : s >= promise => Usable(policy) /\ Admits(policy, s)

\* After a change of the algorithm every request is refused as long as the key of the old
\* type lives; that is never longer than its TTL, as failing calls do not renew it.
OutageBounded ==
    ~Usable(policy) => now < changed + Lag + TTL
=============================================================================
